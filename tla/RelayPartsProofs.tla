-------------------------- MODULE RelayPartsProofs --------------------------
(***************************************************************************)
(* Proofs about the two parts the chat relay is built on.  First           *)
(* BreakerClients, for any number of requests, any threshold, any open     *)
(* time and any number of faults; then SseStream, for any chunks, any      *)
(* inspection limit and any length.                                        *)
(***************************************************************************)
EXTENDS BreakerClients, SseStream, Induction

-----------------------------------------------------------------------------
\* What the breaker's methods return, for any threshold and open time.

LEMMA NewBreakerType == NewBreaker \in Breaker
BY BreakerAssumption DEF NewBreaker, Breaker, State

\* _transition keeps the type and starts the next generation, slot free.
LEMMA TransitionFacts ==
    ASSUME NEW b \in Breaker, NEW s \in State
    PROVE  /\ Transition(b, s) \in Breaker
           /\ Transition(b, s).state = s
           /\ Transition(b, s).generation = b.generation + 1
           /\ Transition(b, s).probeInFlight = FALSE
           /\ Transition(b, s).failures = IF s = "closed" THEN 0 ELSE b.failures
           /\ Transition(b, s).sinceOpened = IF s = "open" THEN 0 ELSE b.sinceOpened
BY BreakerAssumption DEF Transition, Breaker, State

\* Setting the streak of failures touches nothing else.
LEMMA SetFailuresFacts ==
    ASSUME NEW b \in Breaker, NEW n \in Nat
    PROVE  LET c == [b EXCEPT !.failures = n]
           IN  /\ c \in Breaker
               /\ c.failures = n
               /\ c.state = b.state
               /\ c.generation = b.generation
               /\ c.probeInFlight = b.probeInFlight
               /\ c.sinceOpened = b.sinceOpened
BY DEF Breaker

\* Taking or freeing the probe slot touches nothing else.
LEMMA SetSlotFacts ==
    ASSUME NEW b \in Breaker, NEW p \in BOOLEAN
    PROVE  LET c == [b EXCEPT !.probeInFlight = p]
           IN  /\ c \in Breaker
               /\ c.probeInFlight = p
               /\ c.failures = b.failures
               /\ c.state = b.state
               /\ c.generation = b.generation
               /\ c.sinceOpened = b.sinceOpened
BY DEF Breaker

\* Time changes nothing but the time since the circuit opened.
LEMMA ElapseFacts ==
    ASSUME NEW b \in Breaker
    PROVE  /\ Elapse(b) \in Breaker
           /\ Elapse(b).failures = b.failures
           /\ Elapse(b).state = b.state
           /\ Elapse(b).generation = b.generation
           /\ Elapse(b).probeInFlight = b.probeInFlight
BY BreakerAssumption DEF Breaker, Elapse

\* A closed circuit lets the request through and is left as it was.
LEMMA BeginAttempt ==
    ASSUME NEW b \in Breaker, Begin(b).decision = "attempt"
    PROVE  /\ b.state = "closed"
           /\ Begin(b).breaker = b
           /\ Begin(b).generation = b.generation
<1>1. Refreshed(b).state = "closed"
  BY DEF Begin, Decision
<1>2. Refreshed(b) = b
  BY <1>1, TransitionFacts DEF Refreshed, State
<1>. QED
  BY <1>1, <1>2 DEF Begin, Breaker, Decision

\* A probe leaves from a half-open circuit with a free slot, or from an open
\* one whose time is up, which that very call makes half-open.
LEMMA BeginProbe ==
    ASSUME NEW b \in Breaker, Begin(b).decision = "probe"
    PROVE  /\ Begin(b).breaker \in Breaker
           /\ Begin(b).breaker.state = "half_open"
           /\ Begin(b).breaker.probeInFlight = TRUE
           /\ Begin(b).breaker.failures = b.failures
           /\ Begin(b).breaker.generation = Begin(b).generation
           /\ \/ /\ b.state = "half_open"
                 /\ b.probeInFlight = FALSE
                 /\ Begin(b).generation = b.generation
              \/ /\ b.state = "open"
                 /\ b.sinceOpened = OpenSeconds
                 /\ Begin(b).generation = b.generation + 1
<1>. DEFINE r == Refreshed(b)
<1>1. Decision(r) = "probe"
  BY DEF Begin
<1>2. r.state = "half_open" /\ ~r.probeInFlight
  BY <1>1 DEF Decision
<1>3. /\ r \in Breaker
      /\ r.failures = b.failures
      /\ \/ r = b
         \/ /\ b.state = "open"
            /\ b.sinceOpened = OpenSeconds
            /\ r.generation = b.generation + 1
  <2>1. CASE b.state = "open" /\ b.sinceOpened >= OpenSeconds
    <3>1. r = Transition(b, "half_open")
      BY <2>1 DEF Refreshed
    <3>2. "half_open" \in State
      BY DEF State
    <3>3. /\ Transition(b, "half_open") \in Breaker
          /\ Transition(b, "half_open").failures = b.failures
          /\ Transition(b, "half_open").generation = b.generation + 1
      BY <3>2, TransitionFacts
    <3>4. b.sinceOpened = OpenSeconds
      BY <2>1, BreakerAssumption DEF Breaker
    <3>. QED
      BY <2>1, <3>1, <3>3, <3>4
  <2>2. CASE ~(b.state = "open" /\ b.sinceOpened >= OpenSeconds)
    BY <2>2 DEF Refreshed
  <2>. QED
    BY <2>1, <2>2
<1>4. Begin(b).breaker = [r EXCEPT !.probeInFlight = TRUE] /\ Begin(b).generation = r.generation
  BY <1>1 DEF Begin
<1>5. /\ Begin(b).breaker \in Breaker
      /\ Begin(b).breaker.probeInFlight = TRUE
      /\ Begin(b).breaker.failures = r.failures
      /\ Begin(b).breaker.state = r.state
      /\ Begin(b).breaker.generation = r.generation
  BY <1>3, <1>4, SetSlotFacts
<1>6. r.probeInFlight = FALSE
  <2>1. r.probeInFlight \in BOOLEAN
    BY <1>3 DEF Breaker
  <2>. QED
    BY <1>2, <2>1
<1>7. \/ r = b
      \/ b.state = "open" /\ b.sinceOpened = OpenSeconds /\ r.generation = b.generation + 1
  BY <1>3
<1>8. r = b => b.state = "half_open" /\ b.probeInFlight = FALSE /\ r.generation = b.generation
  BY <1>2, <1>6
<1>. HIDE DEF r
<1>. QED
  BY <1>2, <1>3, <1>4, <1>5, <1>7, <1>8

\* A request told to skip leaves the circuit as it found it.
LEMMA BeginSkip ==
    ASSUME NEW b \in Breaker, Begin(b).decision = "skip"
    PROVE  Begin(b).breaker = b
<1>1. Decision(Refreshed(b)) = "skip"
  BY DEF Begin
<1>2. Refreshed(b) = b
  BY <1>1, TransitionFacts DEF Decision, Refreshed, State
<1>. QED
  BY <1>1, <1>2 DEF Begin, Breaker

LEMMA BeginDecides ==
    ASSUME NEW b \in Breaker
    PROVE  Begin(b).decision \in {"attempt", "probe", "skip"}
BY DEF Begin, Decision

-----------------------------------------------------------------------------
\* The inductive invariant.

\* Initially nobody holds a token and the slot is free.
LEMMA InitIInv == Init => IInv
<1>. SUFFICES ASSUME Init PROVE IInv
  OBVIOUS
<1>1. TypeOK
  BY NewBreakerType, FaultsAssumption DEF Init, TypeOK
<1>2. \A r \in Requests : token[r] = NoToken
  BY DEF Init
<1>3. breaker.failures = 0 /\ breaker.probeInFlight = FALSE
  BY DEF Init, NewBreaker
<1>. QED
  BY <1>1, <1>2, <1>3, BreakerAssumption
  DEF IInv, TokensMatchState, ProbeSlotOwned, SingleProbe, FailuresBelowThreshold, Holds

\* A report within the generation removes the reporter from the holders.
LEMMA HoldersAfterReport ==
    ASSUME IInv, NEW r \in Requests,
           breaker'.generation = breaker.generation,
           token' = [token EXCEPT ![r] = NoToken]
    PROVE  \A q \in Requests : Holds(q)' <=> Holds(q) /\ q # r
BY DEF Holds, Current, IInv, TypeOK

\* A new generation leaves no holder: every token is of an earlier one.
LEMMA HoldersAfterTransition ==
    ASSUME IInv, NEW r \in Requests,
           breaker'.generation = breaker.generation + 1,
           token' = [token EXCEPT ![r] = NoToken]
    PROVE  \A q \in Requests : ~Holds(q)'
<1>1. \A q \in Requests : token'[q] # NoToken =>
          token'[q].generation <= breaker.generation /\ token'[q].generation \in Nat
  BY DEF IInv, TypeOK, TokensMatchState, LocalAttempt, Breaker
<1>. QED
  BY <1>1 DEF Holds, Current, IInv, TypeOK, Breaker

\* After a transition no request holds a current token, whatever the report
\* that caused it.
LEMMA TransitionIInv ==
    ASSUME IInv, NEW r \in Requests, NEW c \in Breaker, NEW s \in {"closed", "open"},
           c.generation = breaker.generation,
           c.failures <= FailureThreshold,
           breaker' = Transition(c, s),
           token' = [token EXCEPT ![r] = NoToken],
           faults' \in 0 .. MaxFaults
    PROVE  IInv'
<1>1. /\ breaker' \in Breaker
      /\ breaker'.state = s
      /\ breaker'.generation = breaker.generation + 1
      /\ breaker'.probeInFlight = FALSE
      /\ breaker'.failures = IF s = "closed" THEN 0 ELSE c.failures
  <2>1. s \in State
    BY DEF State
  <2>2. /\ Transition(c, s) \in Breaker
        /\ Transition(c, s).state = s
        /\ Transition(c, s).generation = c.generation + 1
        /\ Transition(c, s).probeInFlight = FALSE
        /\ Transition(c, s).failures = IF s = "closed" THEN 0 ELSE c.failures
    BY <2>1, TransitionFacts
  <2>. QED
    BY <2>2
<1>2. token' \in [Requests -> LocalAttempt \cup {NoToken}]
  BY DEF IInv, TypeOK
<1>3. \A q \in Requests : token'[q] = IF q = r THEN NoToken ELSE token[q]
  BY DEF IInv, TypeOK
<1>4. \A q \in Requests : token'[q] # NoToken =>
          token'[q].generation <= breaker.generation /\ token'[q].generation \in Nat
  BY <1>3 DEF IInv, TypeOK, TokensMatchState, LocalAttempt, Breaker
<1>5. \A q \in Requests : ~Holds(q)'
  BY <1>1, HoldersAfterTransition
<1>6. TypeOK'
  BY <1>1, <1>2 DEF TypeOK
<1>7. TokensMatchState'
  BY <1>1, <1>4, <1>5 DEF TokensMatchState, IInv, TypeOK, Breaker
<1>8. ProbeSlotOwned' /\ SingleProbe'
  BY <1>1, <1>5 DEF ProbeSlotOwned, SingleProbe
<1>9. FailuresBelowThreshold'
  BY <1>1, BreakerAssumption DEF FailuresBelowThreshold
<1>. QED
  BY <1>6, <1>7, <1>8, <1>9 DEF IInv

\* A report that leaves state, generation and slot alone keeps the invariant
\* when the reporter does not own the slot.
LEMMA ReportIInv ==
    ASSUME IInv, NEW r \in Requests,
           Holds(r) => token[r].decision # "probe",
           breaker' \in Breaker,
           breaker'.state = breaker.state,
           breaker'.generation = breaker.generation,
           breaker'.probeInFlight = breaker.probeInFlight,
           FailuresBelowThreshold',
           token' = [token EXCEPT ![r] = NoToken],
           faults' \in 0 .. MaxFaults
    PROVE  IInv'
<1>1. \A q \in Requests : token'[q] = IF q = r THEN NoToken ELSE token[q]
  BY DEF IInv, TypeOK
<1>2. \A q \in Requests : Holds(q)' <=> Holds(q) /\ q # r
  BY HoldersAfterReport
<1>3. TypeOK'
  BY DEF IInv, TypeOK
<1>4. TokensMatchState'
  BY <1>1, <1>2 DEF IInv, TokensMatchState
<1>5. ProbeSlotOwned'
  BY <1>1, <1>2 DEF IInv, ProbeSlotOwned
<1>6. SingleProbe'
  BY <1>1, <1>2 DEF IInv, SingleProbe
<1>. QED
  BY <1>3, <1>4, <1>5, <1>6 DEF IInv

\* The holder of the slot frees it without a verdict.
LEMMA FreeSlotIInv ==
    ASSUME IInv, NEW r \in Requests,
           Holds(r), token[r].decision = "probe",
           breaker' = [breaker EXCEPT !.probeInFlight = FALSE],
           token' = [token EXCEPT ![r] = NoToken],
           faults' \in 0 .. MaxFaults
    PROVE  IInv'
<1>1. /\ breaker' \in Breaker
      /\ breaker'.probeInFlight = FALSE
      /\ breaker'.failures = breaker.failures
      /\ breaker'.state = breaker.state
      /\ breaker'.generation = breaker.generation
  BY SetSlotFacts DEF IInv, TypeOK
<1>2. \A q \in Requests : token'[q] = IF q = r THEN NoToken ELSE token[q]
  BY DEF IInv, TypeOK
<1>3. \A q \in Requests : Holds(q)' <=> Holds(q) /\ q # r
  BY <1>1, HoldersAfterReport
<1>4. TypeOK'
  BY <1>1 DEF IInv, TypeOK
<1>5. TokensMatchState'
  BY <1>1, <1>2, <1>3 DEF IInv, TokensMatchState
<1>6. \A q \in Requests : Holds(q)' => token'[q].decision # "probe"
  BY <1>2, <1>3 DEF IInv, SingleProbe
<1>7. ProbeSlotOwned' /\ SingleProbe'
  BY <1>1, <1>6 DEF ProbeSlotOwned, SingleProbe
<1>8. FailuresBelowThreshold'
  BY <1>1 DEF IInv, FailuresBelowThreshold
<1>. QED
  BY <1>4, <1>5, <1>7, <1>8 DEF IInv

\* begin() hands out an attempt.
LEMMA AttemptIInv ==
    ASSUME IInv, NEW r \in Requests, Start(r), Begin(breaker).decision = "attempt"
    PROVE  IInv'
<1>1. /\ breaker.state = "closed"
      /\ breaker' = breaker
      /\ faults' = faults
      /\ token' = [token EXCEPT ![r] = [decision |-> "attempt",
                                        generation |-> breaker.generation]]
  BY BeginAttempt DEF Start, IInv, TypeOK
<1>2. \A q \in Requests :
          token'[q] = IF q = r
                      THEN [decision |-> "attempt", generation |-> breaker.generation]
                      ELSE token[q]
  BY <1>1 DEF IInv, TypeOK
<1>3. breaker.generation \in Nat
  BY DEF IInv, TypeOK, Breaker
<1>4. TypeOK'
  BY <1>1, <1>3 DEF IInv, TypeOK, LocalAttempt, LocalDecision
<1>5. \A q \in Requests : q # r => (Holds(q)' <=> Holds(q))
  BY <1>1, <1>2 DEF Holds, Current
<1>6. TokensMatchState'
  BY <1>1, <1>2, <1>3, <1>5 DEF IInv, TokensMatchState
<1>7. token[r] = NoToken
  BY DEF Start
<1>8. ProbeSlotOwned'
  BY <1>1, <1>2, <1>5, <1>7 DEF IInv, ProbeSlotOwned, Holds
<1>9. SingleProbe'
  BY <1>1, <1>2, <1>5 DEF IInv, SingleProbe
<1>10. FailuresBelowThreshold'
  BY <1>1 DEF IInv, FailuresBelowThreshold
<1>. QED
  BY <1>4, <1>6, <1>8, <1>9, <1>10 DEF IInv

\* When begin() is about to hand out the probe, nobody's result counts.
LEMMA NoHolderBeforeProbe ==
    ASSUME IInv, Begin(breaker).decision = "probe"
    PROVE  \A q \in Requests : ~Holds(q)
<1>. SUFFICES ASSUME NEW q \in Requests, Holds(q) PROVE FALSE
  OBVIOUS
<1>0. \/ breaker.state = "half_open" /\ breaker.probeInFlight = FALSE
      \/ breaker.state = "open"
  BY BeginProbe DEF IInv, TypeOK
<1>1. breaker.state = "half_open" /\ token[q].decision = "probe"
  BY <1>0 DEF IInv, TokensMatchState, Holds
<1>2. breaker.probeInFlight
  BY <1>1 DEF IInv, ProbeSlotOwned
<1>. QED
  BY <1>0, <1>1, <1>2

\* begin() hands out the probe: nobody else held one.
LEMMA ProbeIInv ==
    ASSUME IInv, NEW r \in Requests, Start(r), Begin(breaker).decision = "probe"
    PROVE  IInv'
<1>. DEFINE g == Begin(breaker).generation
<1>0. breaker \in Breaker
  BY DEF IInv, TypeOK
<1>1. /\ breaker' = Begin(breaker).breaker
      /\ faults' = faults
      /\ token' = [token EXCEPT ![r] = [decision |-> "probe", generation |-> g]]
  BY DEF Start
<1>2. /\ breaker' \in Breaker
      /\ breaker'.state = "half_open"
      /\ breaker'.probeInFlight = TRUE
      /\ breaker'.failures = breaker.failures
      /\ breaker'.generation = g
      /\ \/ breaker.state = "half_open" /\ breaker.probeInFlight = FALSE /\ g = breaker.generation
         \/ breaker.state = "open" /\ g = breaker.generation + 1
  BY <1>0, <1>1, BeginProbe
<1>. HIDE DEF g
<1>3. \A q \in Requests :
          token'[q] = IF q = r THEN [decision |-> "probe", generation |-> g] ELSE token[q]
  BY <1>1 DEF IInv, TypeOK
<1>4. breaker.generation \in Nat /\ g \in Nat
  BY <1>0, <1>2 DEF Breaker
<1>5. TypeOK'
  BY <1>1, <1>2, <1>4 DEF IInv, TypeOK, LocalAttempt, LocalDecision
<1>6. token[r] = NoToken
  BY DEF Start
<1>7. \A q \in Requests : ~Holds(q)
  BY NoHolderBeforeProbe
<1>8. \A q \in Requests : q # r => ~Holds(q)'
  BY <1>2, <1>3, <1>4, <1>7 DEF Holds, Current, IInv, TokensMatchState, TypeOK, LocalAttempt
<1>9. Holds(r)' /\ token'[r].decision = "probe"
  BY <1>2, <1>3 DEF Holds, Current, NoToken
<1>10. TokensMatchState'
  BY <1>2, <1>3, <1>4, <1>8, <1>9 DEF IInv, TokensMatchState, TypeOK, LocalAttempt
<1>11. ProbeSlotOwned'
  BY <1>2, <1>9 DEF ProbeSlotOwned
<1>12. SingleProbe'
  BY <1>8 DEF SingleProbe
<1>13. FailuresBelowThreshold'
  BY <1>2 DEF IInv, FailuresBelowThreshold
<1>. QED
  BY <1>5, <1>10, <1>11, <1>12, <1>13 DEF IInv

\* begin() answers skip: nothing changes.
LEMMA SkipStutters ==
    ASSUME IInv, NEW r \in Requests, Skip(r)
    PROVE  UNCHANGED vars
BY BeginSkip DEF Skip, vars, IInv, TypeOK

LEMMA StartIInv ==
    ASSUME IInv, NEW r \in Requests, Start(r)
    PROVE  IInv'
<1>1. Begin(breaker).decision \in {"attempt", "probe"}
  BY BeginDecides DEF Start, IInv, TypeOK
<1>. QED
  BY <1>1, AttemptIInv, ProbeIInv

\* What a holder's token says about the circuit, in the form reports need it.
LEMMA HolderFacts ==
    ASSUME IInv, NEW r \in Requests, token[r] # NoToken
    PROVE  /\ breaker \in Breaker
           /\ token[r] \in LocalAttempt
           /\ Current(breaker, token[r]) => Holds(r)
           /\ Holds(r) /\ token[r].decision = "probe" => breaker.state = "half_open"
           /\ Holds(r) /\ token[r].decision # "probe" => breaker.state = "closed"
BY DEF IInv, TypeOK, TokensMatchState, Holds

LEMMA SucceedIInv ==
    ASSUME IInv, NEW r \in Requests, Succeed(r)
    PROVE  IInv'
<1>1. /\ token[r] # NoToken
      /\ breaker' = RecordSuccess(breaker, token[r])
      /\ token' = [token EXCEPT ![r] = NoToken]
      /\ faults' \in 0 .. MaxFaults
  BY DEF Succeed, IInv, TypeOK
<1>2. CASE ~Current(breaker, token[r])
  <2>1. breaker' = breaker /\ ~Holds(r)
    BY <1>1, <1>2 DEF RecordSuccess, Holds
  <2>2. FailuresBelowThreshold'
    BY <2>1 DEF IInv, FailuresBelowThreshold
  <2>. QED
    BY <1>1, <2>1, <2>2, ReportIInv, HolderFacts
<1>3. CASE Current(breaker, token[r]) /\ breaker.state = "half_open"
  <2>1. breaker' = Transition(breaker, "closed")
    BY <1>1, <1>3 DEF RecordSuccess
  <2>2. breaker \in Breaker /\ breaker.failures <= FailureThreshold
    BY DEF IInv, TypeOK, FailuresBelowThreshold
  <2>. QED
    BY <1>1, <2>1, <2>2, TransitionIInv
<1>4. CASE Current(breaker, token[r]) /\ breaker.state # "half_open"
  <2>1. Holds(r) /\ token[r].decision # "probe"
    BY <1>1, <1>4, HolderFacts
  <2>2. breaker' = [breaker EXCEPT !.failures = 0]
    BY <1>1, <1>4 DEF RecordSuccess
  <2>3. /\ breaker' \in Breaker
        /\ breaker'.failures = 0
        /\ breaker'.state = breaker.state
        /\ breaker'.generation = breaker.generation
        /\ breaker'.probeInFlight = breaker.probeInFlight
    BY <1>1, <2>2, SetFailuresFacts, HolderFacts
  <2>4. FailuresBelowThreshold'
    BY <2>3, BreakerAssumption DEF FailuresBelowThreshold
  <2>. QED
    BY <1>1, <2>1, <2>3, <2>4, ReportIInv
<1>. QED
  BY <1>2, <1>3, <1>4

LEMMA FailIInv ==
    ASSUME IInv, NEW r \in Requests, Fail(r)
    PROVE  IInv'
<1>1. /\ token[r] # NoToken
      /\ breaker' = RecordFailure(breaker, token[r])
      /\ token' = [token EXCEPT ![r] = NoToken]
      /\ faults' \in 0 .. MaxFaults
  BY FaultsAssumption DEF Fail, IInv, TypeOK
<1>2. CASE ~Current(breaker, token[r])
  <2>1. breaker' = breaker /\ ~Holds(r)
    BY <1>1, <1>2 DEF RecordFailure, Holds
  <2>2. FailuresBelowThreshold'
    BY <2>1 DEF IInv, FailuresBelowThreshold
  <2>. QED
    BY <1>1, <2>1, <2>2, ReportIInv, HolderFacts
<1>3. CASE Current(breaker, token[r]) /\ token[r].decision = "probe"
  <2>1. breaker' = Transition(breaker, "open")
    BY <1>1, <1>3 DEF RecordFailure
  <2>2. breaker \in Breaker /\ breaker.failures <= FailureThreshold
    BY DEF IInv, TypeOK, FailuresBelowThreshold
  <2>. QED
    BY <1>1, <2>1, <2>2, TransitionIInv
<1>4. CASE Current(breaker, token[r]) /\ token[r].decision # "probe"
  <2>. DEFINE n == breaker.failures + 1
              c == [breaker EXCEPT !.failures = n]
  <2>1. Holds(r) /\ breaker.state = "closed" /\ breaker \in Breaker
    BY <1>1, <1>4, HolderFacts
  <2>2. n \in Nat /\ n <= FailureThreshold
    BY <2>1, BreakerAssumption DEF IInv, FailuresBelowThreshold, Breaker
  <2>3. breaker' = IF n >= FailureThreshold THEN Transition(c, "open") ELSE c
    BY <1>1, <1>4 DEF RecordFailure, CountFailure
  <2>. HIDE DEF n
  <2>4. /\ c \in Breaker
        /\ c.failures = n
        /\ c.state = breaker.state
        /\ c.generation = breaker.generation
        /\ c.probeInFlight = breaker.probeInFlight
    BY <2>1, <2>2, SetFailuresFacts
  <2>. HIDE DEF c
  <2>5. CASE n >= FailureThreshold
    BY <1>1, <2>2, <2>3, <2>4, <2>5, TransitionIInv
  <2>6. CASE ~(n >= FailureThreshold)
    <3>1. breaker' = c
      BY <2>3, <2>6
    <3>2. FailuresBelowThreshold'
      BY <2>2, <2>4, <2>6, <3>1, BreakerAssumption DEF FailuresBelowThreshold
    <3>. QED
      BY <1>1, <1>4, <2>4, <3>1, <3>2, ReportIInv
  <2>. QED
    BY <2>5, <2>6
<1>. QED
  BY <1>2, <1>3, <1>4

LEMMA AbandonIInv ==
    ASSUME IInv, NEW r \in Requests, Abandon(r)
    PROVE  IInv'
<1>1. /\ token[r] # NoToken
      /\ breaker' = Release(breaker, token[r])
      /\ token' = [token EXCEPT ![r] = NoToken]
      /\ faults' \in 0 .. MaxFaults
  BY FaultsAssumption DEF Abandon, IInv, TypeOK
<1>2. CASE Current(breaker, token[r]) /\ token[r].decision = "probe"
  <2>1. Holds(r)
    BY <1>1, <1>2, HolderFacts
  <2>2. breaker' = [breaker EXCEPT !.probeInFlight = FALSE]
    BY <1>1, <1>2 DEF Release
  <2>. QED
    BY <1>1, <1>2, <2>1, <2>2, FreeSlotIInv
<1>3. CASE ~(Current(breaker, token[r]) /\ token[r].decision = "probe")
  <2>1. breaker' = breaker
    BY <1>1, <1>3 DEF Release
  <2>2. Holds(r) => token[r].decision # "probe"
    BY <1>3 DEF Holds
  <2>3. FailuresBelowThreshold'
    BY <2>1 DEF IInv, FailuresBelowThreshold
  <2>. QED
    BY <1>1, <2>1, <2>2, <2>3, ReportIInv, HolderFacts
<1>. QED
  BY <1>2, <1>3

LEMMA TickIInv == ASSUME IInv, Tick PROVE IInv'
<1>1. token' = token /\ faults' = faults
  BY DEF Tick
<1>2. /\ breaker' \in Breaker
      /\ breaker'.failures = breaker.failures
      /\ breaker'.state = breaker.state
      /\ breaker'.generation = breaker.generation
      /\ breaker'.probeInFlight = breaker.probeInFlight
  BY ElapseFacts DEF Tick, IInv, TypeOK
<1>3. \A q \in Requests : Holds(q)' <=> Holds(q)
  BY <1>1, <1>2 DEF Holds, Current
<1>4. TypeOK'
  BY <1>1, <1>2 DEF IInv, TypeOK
<1>5. TokensMatchState' /\ ProbeSlotOwned' /\ SingleProbe'
  BY <1>1, <1>2, <1>3 DEF IInv, TokensMatchState, ProbeSlotOwned, SingleProbe
<1>6. FailuresBelowThreshold'
  BY <1>2 DEF IInv, FailuresBelowThreshold
<1>. QED
  BY <1>4, <1>5, <1>6 DEF IInv

LEMMA StutterIInv == ASSUME IInv, UNCHANGED vars PROVE IInv'
BY DEF vars, IInv, TypeOK, TokensMatchState, ProbeSlotOwned, SingleProbe,
       FailuresBelowThreshold, Holds, Current

LEMMA NextIInv == IInv /\ [Next]_vars => IInv'
<1>. SUFFICES ASSUME IInv, [Next]_vars PROVE IInv'
  OBVIOUS
<1>1. ASSUME NEW r \in Requests, Start(r) PROVE IInv'
  BY <1>1, StartIInv
<1>2. ASSUME NEW r \in Requests, Skip(r) PROVE IInv'
  BY <1>2, SkipStutters, StutterIInv
<1>3. ASSUME NEW r \in Requests, Succeed(r) PROVE IInv'
  BY <1>3, SucceedIInv
<1>4. ASSUME NEW r \in Requests, Fail(r) PROVE IInv'
  BY <1>4, FailIInv
<1>5. ASSUME NEW r \in Requests, Abandon(r) PROVE IInv'
  BY <1>5, AbandonIInv
<1>6. CASE Tick
  BY <1>6, TickIInv
<1>7. CASE UNCHANGED vars
  BY <1>7, StutterIInv
<1>. QED
  BY <1>1, <1>2, <1>3, <1>4, <1>5, <1>6, <1>7 DEF Next, Report

\* The inductive invariant holds of every behaviour of the breaker under its
\* callers, whatever the order of reports (circuit_breaker.py as used by
\* relay._relay_eligible).
THEOREM Invariance == Spec => []IInv
BY InitIInv, NextIInv, PTL DEF Spec

\* The breaker and the tokens its callers hold stay well formed.
THEOREM TypeCorrect == Spec => []TypeOK
<1>1. IInv => TypeOK
  BY DEF IInv
<1>. QED
  BY <1>1, Invariance, PTL

\* The probe slot is never lost and never owned twice: the slot is taken
\* exactly when one unfinished request holds the current probe.
THEOREM SlotSafety == Spec => [](ProbeSlotOwned /\ SingleProbe)
<1>1. IInv => ProbeSlotOwned /\ SingleProbe
  BY DEF IInv
<1>. QED
  BY <1>1, Invariance, PTL

(***************************************************************************)
(* Proofs that a step of BreakerClients is a step AbstractBreaker allows,  *)
(* and that only the probe decides a half-open circuit.                    *)
(***************************************************************************)
-----------------------------------------------------------------------------
\* Which reports leave the half-open state.

LEMMA ReportDecides ==
    ASSUME IInv, NEW r \in Requests, Report(r),
           breaker.state = "half_open", breaker'.state # "half_open"
    PROVE  Holds(r) /\ token[r].decision = "probe" /\ token'[r] = NoToken
<1>1. token[r] # NoToken /\ token'[r] = NoToken
  BY DEF Report, Succeed, Fail, Abandon, IInv, TypeOK
<1>2. Current(breaker, token[r])
  <2>. SUFFICES ASSUME ~Current(breaker, token[r]) PROVE breaker' = breaker
    OBVIOUS
  <2>. QED
    BY DEF Report, Succeed, Fail, Abandon, RecordSuccess, RecordFailure, Release
<1>3. Holds(r)
  BY <1>1, <1>2 DEF Holds
<1>. QED
  BY <1>1, <1>3, HolderFacts

\* Only the holder of the probe closes or reopens a half-open circuit: late
\* results of earlier generations are without effect (record_success and
\* record_failure compare generations first).
THEOREM ProbeAloneDecides == Spec => OnlyProbeDecides
<1>. DEFINE A == breaker.state = "half_open" /\ breaker'.state # "half_open" =>
                     \E r \in Requests : /\ Holds(r)
                                         /\ token[r].decision = "probe"
                                         /\ token'[r] = NoToken
<1>1. ASSUME IInv, [Next]_vars PROVE [A]_vars
  <2>1. ASSUME NEW r \in Requests, Start(r), breaker.state = "half_open"
        PROVE  breaker'.state = "half_open"
    <3>1. breaker \in Breaker
      BY <1>1 DEF IInv, TypeOK
    <3>2. Begin(breaker).decision = "probe"
      BY <2>1, <3>1, BeginDecides, BeginAttempt DEF Start
    <3>. QED
      BY <2>1, <3>1, <3>2, BeginProbe DEF Start
  <2>2. ASSUME NEW r \in Requests, Skip(r) PROVE breaker' = breaker
    BY <1>1, <2>2, SkipStutters DEF vars
  <2>3. ASSUME NEW r \in Requests, Report(r) PROVE A
    BY <1>1, <2>3, ReportDecides
  <2>4. ASSUME Tick PROVE breaker'.state = breaker.state
    BY <1>1, <2>4, ElapseFacts DEF Tick, IInv, TypeOK
  <2>5. CASE UNCHANGED vars
    BY <2>5
  <2>. QED
    BY <1>1, <2>1, <2>2, <2>3, <2>4, <2>5 DEF Next
<1>. QED
  BY <1>1, Invariance, PTL DEF OnlyProbeDecides, Spec

-----------------------------------------------------------------------------
\* The refinement: AbstractBreaker's variables as functions of the state.

Counted == {q \in Requests : Holds(q)}
Streak == IF breaker.state = "closed" THEN breaker.failures ELSE 0
Rested == IF breaker.state = "open" THEN breaker.sinceOpened ELSE 0

\* A step that leaves the circuit's view of the world alone.
LEMMA StutterStep ==
    ASSUME IInv, breaker' = breaker, Counted' = Counted
    PROVE  UNCHANGED Promise!vars
BY DEF Promise!vars, Counted

\* A transition to open refines Open, one to closed the probe's success.
LEMMA TransitionMaps ==
    ASSUME IInv, NEW r \in Requests, NEW c \in Breaker, NEW s \in {"closed", "open"},
           c.generation = breaker.generation,
           breaker' = Transition(c, s),
           token' = [token EXCEPT ![r] = NoToken]
    PROVE  /\ breaker'.state = s
           /\ Counted' = {}
           /\ Streak' = 0
           /\ Rested' = 0
<1>1. s \in State
  BY DEF State
<1>2. /\ Transition(c, s).state = s
      /\ Transition(c, s).generation = c.generation + 1
      /\ Transition(c, s).failures = IF s = "closed" THEN 0 ELSE c.failures
      /\ Transition(c, s).sinceOpened = IF s = "open" THEN 0 ELSE c.sinceOpened
  BY <1>1, TransitionFacts
<1>3. breaker'.generation = breaker.generation + 1
  BY <1>2
<1>4. Counted' = {}
  BY <1>3, HoldersAfterTransition DEF Counted
<1>. QED
  BY <1>2, <1>4 DEF Streak, Rested

LEMMA StartMaps ==
    ASSUME IInv, NEW r \in Requests, Start(r)
    PROVE  Promise!Admit(r) \/ Promise!Probe(r)
<1>0. breaker \in Breaker /\ token[r] = NoToken
  BY DEF IInv, TypeOK, Start
<1>1. \A q \in Requests : q # r => token'[q] = token[q]
  BY DEF Start, IInv, TypeOK
<1>2. /\ breaker' = Begin(breaker).breaker
      /\ token'[r] = [decision |-> Begin(breaker).decision,
                      generation |-> Begin(breaker).generation]
  BY DEF Start, IInv, TypeOK
<1>3. CASE Begin(breaker).decision = "attempt"
  <2>1. breaker.state = "closed" /\ breaker' = breaker
    BY <1>0, <1>2, <1>3, BeginAttempt
  <2>2. token'[r].generation = breaker.generation /\ token'[r] # NoToken
    BY <1>0, <1>2, <1>3, BeginAttempt DEF NoToken
  <2>3. r \notin Counted /\ Counted' = Counted \cup {r}
    BY <1>0, <1>1, <2>1, <2>2 DEF Counted, Holds, Current
  <2>. QED
    BY <2>1, <2>3 DEF Promise!Admit, Counted
<1>4. CASE Begin(breaker).decision = "probe"
  <2>1. /\ breaker'.state = "half_open"
        /\ breaker'.generation = token'[r].generation
        /\ \/ breaker.state = "half_open"
           \/ breaker.state = "open" /\ breaker.sinceOpened = OpenSeconds
    <3>1. /\ Begin(breaker).breaker.state = "half_open"
          /\ Begin(breaker).breaker.generation = Begin(breaker).generation
          /\ \/ breaker.state = "half_open"
             \/ breaker.state = "open" /\ breaker.sinceOpened = OpenSeconds
      BY <1>0, <1>4, BeginProbe
    <3>. QED
      BY <1>2, <3>1
  <2>2. Counted = {}
    BY <1>4, NoHolderBeforeProbe DEF Counted
  <2>3. Holds(r)'
    BY <1>2, <1>4, <2>1 DEF Holds, Current, NoToken
  <2>4. \A q \in Requests : Holds(q)' => q = r
    <3>1. token'[r].decision = "probe"
      BY <1>2, <1>4
    <3>2. SingleProbe' /\ TokensMatchState'
      BY <1>4, ProbeIInv DEF IInv
    <3>3. ASSUME NEW q \in Requests, Holds(q)' PROVE token'[q].decision = "probe"
      BY <2>1, <3>2, <3>3 DEF TokensMatchState, Holds
    <3>. QED
      BY <2>3, <3>1, <3>2, <3>3 DEF SingleProbe
  <2>5. Counted' = {r}
    BY <2>3, <2>4 DEF Counted
  <2>. QED
    BY <2>1, <2>2, <2>5 DEF Promise!Probe, Counted
<1>. QED
  BY <1>0, <1>3, <1>4, BeginDecides DEF Start

\* A report of an earlier generation is a stutter of the promise.
LEMMA LateReportMaps ==
    ASSUME IInv, NEW r \in Requests, Report(r), ~Current(breaker, token[r])
    PROVE  UNCHANGED Promise!vars
<1>1. breaker' = breaker
  BY DEF Report, Succeed, Fail, Abandon, RecordSuccess, RecordFailure, Release
<1>2. token' = [token EXCEPT ![r] = NoToken]
  BY DEF Report, Succeed, Fail, Abandon
<1>3. \A q \in Requests : Holds(q)' <=> Holds(q) /\ q # r
  BY <1>1, <1>2, HoldersAfterReport
<1>4. ~Holds(r)
  BY DEF Holds
<1>5. Counted' = Counted
  BY <1>3, <1>4 DEF Counted
<1>. QED
  BY <1>1, <1>5, StutterStep

LEMMA SucceedMaps ==
    ASSUME IInv, NEW r \in Requests, Succeed(r), Current(breaker, token[r])
    PROVE  Promise!Succeed(r)
<1>1. /\ token[r] # NoToken
      /\ breaker' = RecordSuccess(breaker, token[r])
      /\ token' = [token EXCEPT ![r] = NoToken]
  BY DEF Succeed
<1>2. breaker \in Breaker /\ Holds(r) /\ r \in Counted
  BY <1>1, HolderFacts DEF Counted
<1>3. CASE breaker.state = "half_open"
  <2>1. breaker' = Transition(breaker, "closed")
    BY <1>1, <1>3 DEF RecordSuccess
  <2>2. breaker'.state = "closed" /\ Counted' = {} /\ Streak' = 0 /\ Rested' = 0
    BY <1>1, <1>2, <2>1, TransitionMaps
  <2>3. Rested = 0
    BY <1>3 DEF Rested
  <2>. QED
    BY <1>2, <1>3, <2>2, <2>3 DEF Promise!Succeed, Counted, Streak, Rested
<1>4. CASE breaker.state # "half_open"
  <2>1. breaker.state = "closed"
    BY <1>1, <1>2, <1>4, HolderFacts
  <2>2. breaker' = [breaker EXCEPT !.failures = 0]
    BY <1>1, <1>4 DEF RecordSuccess
  <2>3. /\ breaker'.state = "closed"
        /\ breaker'.generation = breaker.generation
        /\ breaker'.failures = 0
    BY <1>2, <2>1, <2>2, SetFailuresFacts
  <2>4. Counted' = Counted \ {r}
    BY <1>1, <2>3, HoldersAfterReport DEF Counted
  <2>. QED
    BY <1>2, <2>1, <2>3, <2>4 DEF Promise!Succeed, Counted
<1>. QED
  BY <1>3, <1>4

LEMMA FailMaps ==
    ASSUME IInv, NEW r \in Requests, Fail(r), Current(breaker, token[r])
    PROVE  Promise!Fail(r)
<1>1. /\ token[r] # NoToken
      /\ breaker' = RecordFailure(breaker, token[r])
      /\ token' = [token EXCEPT ![r] = NoToken]
  BY DEF Fail
<1>2. breaker \in Breaker /\ Holds(r) /\ r \in Counted
  BY <1>1, HolderFacts DEF Counted
<1>3. CASE token[r].decision = "probe"
  <2>1. breaker.state = "half_open"
    BY <1>1, <1>2, <1>3, HolderFacts
  <2>2. breaker' = Transition(breaker, "open")
    BY <1>1, <1>3 DEF RecordFailure
  <2>3. breaker'.state = "open" /\ Counted' = {} /\ Streak' = 0 /\ Rested' = 0
    BY <1>1, <1>2, <2>2, TransitionMaps
  <2>. QED
    BY <1>2, <2>1, <2>3 DEF Promise!Fail, Promise!Open, Counted, Streak, Rested
<1>4. CASE token[r].decision # "probe"
  <2>. DEFINE n == breaker.failures + 1
              c == [breaker EXCEPT !.failures = n]
  <2>1. breaker.state = "closed"
    BY <1>1, <1>2, <1>4, HolderFacts
  <2>2. n \in Nat
    BY <1>2 DEF Breaker
  <2>3. breaker' = IF n >= FailureThreshold THEN Transition(c, "open") ELSE c
    BY <1>1, <1>4 DEF RecordFailure, CountFailure
  <2>4. Streak + 1 = n
    BY <2>1 DEF Streak
  <2>. HIDE DEF n
  <2>5. /\ c \in Breaker
        /\ c.failures = n
        /\ c.state = breaker.state
        /\ c.generation = breaker.generation
    BY <1>2, <2>2, SetFailuresFacts
  <2>. HIDE DEF c
  <2>6. CASE n >= FailureThreshold
    <3>1. breaker' = Transition(c, "open")
      BY <2>3, <2>6
    <3>2. breaker'.state = "open" /\ Counted' = {} /\ Streak' = 0 /\ Rested' = 0
      BY <1>1, <2>5, <3>1, TransitionMaps
    <3>. QED
      BY <1>2, <2>1, <2>4, <2>6, <3>2
      DEF Promise!Fail, Promise!Open, Counted, Streak, Rested
  <2>7. CASE n < FailureThreshold
    <3>1. breaker' = c
      BY <2>2, <2>3, <2>7, BreakerAssumption
    <3>2. Counted' = Counted \ {r}
      BY <1>1, <2>5, <3>1, HoldersAfterReport DEF Counted
    <3>. QED
      BY <1>2, <2>1, <2>4, <2>5, <2>7, <3>1, <3>2
      DEF Promise!Fail, Counted, Streak, Rested
  <2>. QED
    BY <2>2, <2>6, <2>7, BreakerAssumption
<1>. QED
  BY <1>3, <1>4

LEMMA AbandonMaps ==
    ASSUME IInv, NEW r \in Requests, Abandon(r), Current(breaker, token[r])
    PROVE  Promise!Withdraw(r)
<1>1. /\ token[r] # NoToken
      /\ breaker' = Release(breaker, token[r])
      /\ token' = [token EXCEPT ![r] = NoToken]
  BY DEF Abandon
<1>2. breaker \in Breaker /\ Holds(r) /\ r \in Counted
  BY <1>1, HolderFacts DEF Counted
<1>3. breaker' = [breaker EXCEPT !.probeInFlight = FALSE] \/ breaker' = breaker
  BY <1>1 DEF Release
<1>4. /\ breaker'.state = breaker.state
      /\ breaker'.failures = breaker.failures
      /\ breaker'.generation = breaker.generation
      /\ breaker'.sinceOpened = breaker.sinceOpened
  BY <1>2, <1>3, SetSlotFacts
<1>5. Counted' = Counted \ {r}
  BY <1>1, <1>4, HoldersAfterReport DEF Counted
<1>. QED
  BY <1>2, <1>4, <1>5 DEF Promise!Withdraw, Counted

LEMMA TickMaps == ASSUME IInv, Tick PROVE Promise!Rest
<1>1. /\ breaker \in Breaker
      /\ breaker.state = "open"
      /\ breaker.sinceOpened < OpenSeconds
      /\ token' = token
      /\ breaker' = [breaker EXCEPT !.sinceOpened = @ + 1]
  BY DEF Tick, Elapse, IInv, TypeOK
<1>2. /\ breaker'.state = "open"
      /\ breaker'.generation = breaker.generation
      /\ breaker'.sinceOpened = breaker.sinceOpened + 1
  BY <1>1 DEF Breaker
<1>3. Counted' = Counted
  BY <1>1, <1>2 DEF Counted, Holds, Current
<1>. QED
  BY <1>1, <1>2, <1>3 DEF Promise!Rest, Counted

\* The breaker under its callers keeps the generation-free promise: comparing
\* generations forgets every unfinished attempt at every transition, and the
\* probe flag lets exactly one attempt count while half-open
\* (circuit_breaker.CircuitBreaker).
THEOREM Refinement == Spec => KeepsPromise
<1>1. Init => Promise!Init
  BY DEF Init, NewBreaker, Promise!Init, Holds
<1>2. IInv /\ [Next]_vars => [Promise!Next]_(Promise!vars)
  <2>. SUFFICES ASSUME IInv, [Next]_vars
                PROVE  Promise!Next \/ UNCHANGED Promise!vars
    OBVIOUS
  <2>1. ASSUME NEW r \in Requests, Start(r) PROVE Promise!Next
    BY <2>1, StartMaps DEF Promise!Next
  <2>2. ASSUME UNCHANGED vars PROVE UNCHANGED Promise!vars
    BY <2>2, StutterStep DEF vars, Counted, Holds, Current
  <2>3. ASSUME NEW r \in Requests, Skip(r) PROVE UNCHANGED Promise!vars
    BY <2>2, <2>3, SkipStutters
  <2>4. ASSUME NEW r \in Requests, Report(r)
        PROVE  Promise!Next \/ UNCHANGED Promise!vars
    <3>1. CASE ~Current(breaker, token[r])
      BY <2>4, <3>1, LateReportMaps
    <3>2. CASE Current(breaker, token[r])
      BY <2>4, <3>2, SucceedMaps, FailMaps, AbandonMaps DEF Report, Promise!Next
    <3>. QED
      BY <3>1, <3>2
  <2>5. ASSUME Tick PROVE Promise!Next
    BY <2>5, TickMaps DEF Promise!Next
  <2>. QED
    BY <2>1, <2>2, <2>3, <2>4, <2>5 DEF Next
<1>. QED
  BY <1>1, <1>2, Invariance, PTL DEF Spec, KeepsPromise, Promise!Spec

-----------------------------------------------------------------------------
\* The SSE stream.  Texts.

\* What a text with uniform line breaks is made of; what a line is.
Uniforms == DataFields \cup {"LF", "text"}
Contents == DataFields \cup {"text"}

\* A text is one byte longer than another.
LEMMA LongerFacts ==
    ASSUME NEW A, NEW s \in Seq(A), NEW x \in A
    PROVE  /\ Append(s, x) \in Seq(A) /\ Len(Append(s, x)) = Len(s) + 1
           /\ Append(s, x)[Len(s) + 1] = x
           /\ \A i \in 1 .. Len(s) : Append(s, x)[i] = s[i]
           /\ Append(s, x) = s \o <<x>> /\ Append(s, x) # <<>>
BY AppendProperties

\* One element more is kept or it is not.
LEMMA KeptLonger ==
    ASSUME NEW A, NEW s \in Seq(A), NEW x \in A, NEW I, NEW J,
           \A i \in 1 .. Len(s) : i \in I <=> i \in J
    PROVE  Kept(Append(s, x), J) =
               IF Len(s) + 1 \in J THEN Append(Kept(s, I), x) ELSE Kept(s, I)
<1>. DEFINE
    n == Len(s)
    t == Append(s, x)
<1>1. /\ n \in Nat /\ t \in Seq(A) /\ Len(t) = n + 1 /\ t[n + 1] = x
      /\ \A i \in 1 .. n : s[i] = t[i]
  BY LongerFacts, LenProperties
<1>. HIDE DEF t
<1>2. PICK f : KeptUpTo(s, I, f) /\ Kept(s, I) = f[n]
  BY KeptStepwise
<1>3. PICK g : KeptUpTo(t, J, g) /\ Kept(t, J) = g[n + 1]
  BY <1>1, KeptStepwise
<1>. DEFINE Alike == {k \in Nat : k <= n => f[k] = g[k]}
<1>4. 0 \in Alike
  BY <1>1, <1>2, <1>3 DEF KeptUpTo
<1>5. ASSUME NEW k \in Nat, k \in Alike
      PROVE  k + 1 \in Alike
  <2>. SUFFICES ASSUME k + 1 <= n PROVE f[k + 1] = g[k + 1]
    OBVIOUS
  <2>1. f[k] = g[k] /\ k + 1 \in 1 .. n /\ k + 1 # 0 /\ (k + 1) - 1 = k
    BY <1>1, <1>5
  <2>2. k + 1 \in 0 .. Len(s) /\ k + 1 \in 0 .. Len(t)
    BY <1>1, <2>1
  <2>3. f[k + 1] = IF k + 1 \in I THEN Append(f[k], s[k + 1]) ELSE f[k]
    BY <1>2, <2>1, <2>2 DEF KeptUpTo
  <2>4. g[k + 1] = IF k + 1 \in J THEN Append(g[k], t[k + 1]) ELSE g[k]
    BY <1>3, <2>1, <2>2 DEF KeptUpTo
  <2>. QED
    BY <1>1, <2>1, <2>3, <2>4
<1>6. f[n] = g[n]
  <2>. HIDE DEF Alike
  <2>1. n \in Alike
    BY <1>1, <1>4, <1>5, AllNaturals
  <2>. QED
    BY <1>1, <2>1 DEF Alike
<1>7. g[n + 1] = IF n + 1 \in J THEN Append(g[n], t[n + 1]) ELSE g[n]
  <2>1. n + 1 \in 0 .. Len(t) /\ n + 1 # 0 /\ (n + 1) - 1 = n
    BY <1>1
  <2>. QED
    BY <1>3, <2>1 DEF KeptUpTo
<1>. QED
  BY <1>1, <1>2, <1>3, <1>6, <1>7 DEF t

\* The text with uniform breaks, byte by byte.
LEMMA UniformLonger ==
    ASSUME NEW s \in Seq(Bytes), NEW x \in Bytes
    PROVE  Uniform(Append(s, x)) =
               IF x = "LF" /\ s # <<>> /\ s[Len(s)] = "CR" THEN Uniform(s)
               ELSE Append(Uniform(s), IF x \in Breaks THEN "LF" ELSE x)
<1>. DEFINE
    n == Len(s)
    t == Append(s, x)
    U(r) == [i \in 1 .. Len(r) |-> IF r[i] \in Breaks THEN "LF" ELSE r[i]]
    I(r) == {i \in 1 .. Len(r) : ~(r[i] = "LF" /\ i > 1 /\ r[i - 1] = "CR")}
    y == IF x \in Breaks THEN "LF" ELSE x
<1>1. /\ n \in Nat /\ t \in Seq(Bytes) /\ Len(t) = n + 1 /\ t[n + 1] = x
      /\ \A i \in 1 .. n : s[i] = t[i]
      /\ (s # <<>> <=> n > 0)
  BY LongerFacts, LenProperties, EmptySeq
<1>. HIDE DEF t
<1>2. U(s) \in Seq(Uniforms) /\ Len(U(s)) = n /\ y \in Uniforms
  BY <1>1 DEF Uniforms, Bytes, Breaks
<1>3. U(t) = Append(U(s), y)
  <2>1. /\ U(t) \in Seq(Uniforms) /\ Len(U(t)) = n + 1
        /\ \A i \in 1 .. n + 1 : U(t)[i] = IF t[i] \in Breaks THEN "LF" ELSE t[i]
    BY <1>1 DEF Uniforms, Bytes, Breaks
  <2>2. \A i \in 1 .. n : U(s)[i] = IF s[i] \in Breaks THEN "LF" ELSE s[i]
    OBVIOUS
  <2>3. \A i \in 1 .. n + 1 : i = n + 1 \/ i \in 1 .. n
    BY <1>1
  <2>. HIDE DEF U
  <2>4. /\ Append(U(s), y) \in Seq(Uniforms) /\ Len(Append(U(s), y)) = n + 1
        /\ Append(U(s), y)[n + 1] = y
        /\ \A i \in 1 .. n : Append(U(s), y)[i] = U(s)[i]
    BY <1>2, LongerFacts
  <2>5. \A i \in 1 .. n + 1 : U(t)[i] = Append(U(s), y)[i]
    BY <1>1, <2>1, <2>2, <2>3, <2>4
  <2>. QED
    BY <2>1, <2>4, <2>5, SeqEqual
<1>4. \A i \in 1 .. n : i \in I(s) <=> i \in I(t)
  <2>1. \A i \in 1 .. n : i > 1 => i - 1 \in 1 .. n
    BY <1>1
  <2>. QED
    BY <1>1, <2>1
<1>5. n + 1 \in I(t) <=> ~(x = "LF" /\ s # <<>> /\ s[n] = "CR")
  BY <1>1
<1>6. Uniform(s) = Kept(U(s), I(s)) /\ Uniform(t) = Kept(U(t), I(t))
  BY DEF Uniform
<1>. HIDE DEF U, I, y
<1>7. Kept(Append(U(s), y), I(t)) =
          IF Len(U(s)) + 1 \in I(t) THEN Append(Kept(U(s), I(s)), y) ELSE Kept(U(s), I(s))
  BY <1>2, <1>4, KeptLonger
<1>. QED
  BY <1>2, <1>3, <1>5, <1>6, <1>7 DEF t, y

\* What holds of the empty sequence, and of every sequence with one element more, holds
\* of all.
LEMMA AllSequences ==
    ASSUME NEW S, NEW P, <<>> \in P, \A s \in Seq(S), e \in S : s \in P => Append(s, e) \in P
    PROVE  \A s \in Seq(S) : s \in P
<1>. DEFINE Q == {n \in Nat : \A s \in Seq(S) : Len(s) = n => s \in P}
<1>1. 0 \in Q
  BY EmptySeq
<1>2. ASSUME NEW n \in Nat, n \in Q
      PROVE  n + 1 \in Q
  <2>. SUFFICES ASSUME NEW s \in Seq(S), Len(s) = n + 1 PROVE s \in P
    OBVIOUS
  <2>1. s # <<>>
    BY EmptySeq
  <2>2. PICK t \in Seq(S), e \in S : s = Append(t, e)
    BY <2>1, SequenceEmptyOrAppend
  <2>3. Len(t) = n
    BY <2>2, AppendProperties, LenProperties
  <2>. QED
    BY <1>2, <2>2, <2>3
<1>. HIDE DEF Q
<1>3. \A n \in Nat : n \in Q
  BY <1>1, <1>2, AllNaturals
<1>. QED
  BY <1>3, LenProperties DEF Q

\* Appending to the latter of two sequences.
LEMMA ConcatAppend ==
    ASSUME NEW A, NEW s \in Seq(A), NEW t \in Seq(A), NEW e \in A
    PROVE  s \o Append(t, e) = Append(s \o t, e)
<1>1. <<e>> \in Seq(A) /\ s \o t \in Seq(A)
  BY ConcatProperties
<1>. QED
  BY <1>1, AppendIsConcat, ConcatAssociative

\* Where there is nothing there is nothing to unify.
LEMMA UniformEmpty == Uniform(<<>>) = <<>>
<1>1. <<>> \in Seq(Bytes) /\ Len(<<>>) = 0
  BY EmptySeq
<1>. DEFINE
    u == [i \in 1 .. Len(<<>>) |-> IF <<>>[i] \in Breaks THEN "LF" ELSE <<>>[i]]
    I == {i \in 1 .. Len(<<>>) : ~(<<>>[i] = "LF" /\ i > 1 /\ <<>>[i - 1] = "CR")}
<1>2. u \in Seq(Bytes) /\ Len(u) = 0
  BY <1>1
<1>3. Uniform(<<>>) = Kept(u, I)
  BY DEF Uniform
<1>. HIDE DEF u, I
<1>4. PICK f : KeptUpTo(u, I, f) /\ Kept(u, I) = f[0]
  BY <1>2, KeptStepwise
<1>5. f[0] = <<>>
  BY <1>2, <1>4 DEF KeptUpTo
<1>. QED
  BY <1>3, <1>4, <1>5

\* A uniform text has no CR.
LEMMA UniformType ==
    \A s \in Seq(Bytes) : Uniform(s) \in Seq(Uniforms)
<1>. SUFFICES ASSUME NEW s \in Seq(Bytes) PROVE Uniform(s) \in Seq(Uniforms)
  OBVIOUS
<1>. DEFINE
    u == [i \in 1 .. Len(s) |-> IF s[i] \in Breaks THEN "LF" ELSE s[i]]
    I == {i \in 1 .. Len(s) : ~(s[i] = "LF" /\ i > 1 /\ s[i - 1] = "CR")}
<1>1. u \in Seq(Uniforms) /\ Len(u) = Len(s)
  BY LenProperties DEF Uniforms, Bytes, Breaks
<1>2. Uniform(s) = Kept(u, I)
  BY DEF Uniform
<1>3. I \in SUBSET (1 .. Len(s))
  OBVIOUS
<1>. HIDE DEF u, I
<1>. QED
  BY <1>1, <1>2, <1>3, KeptElements

\* A line, or a part of it, is the same in the uniform text.
LEMMA UniformLine ==
    ASSUME NEW s \in Seq(Bytes), NEW line \in Seq(Contents)
    PROVE  Uniform(s \o line) = Uniform(s) \o line
<1>. DEFINE P == {l \in Seq(Contents) : Uniform(s \o l) = Uniform(s) \o l}
<1>1. <<>> \in P
  BY EmptySeq, ConcatEmptySeq, UniformType
<1>2. ASSUME NEW l \in Seq(Contents), NEW e \in Contents, l \in P
      PROVE  Append(l, e) \in P
  <2>1. Contents \subseteq Bytes /\ Contents \subseteq Uniforms /\ e \notin Breaks
    BY DEF Contents, Bytes, Uniforms, Breaks, DataFields
  <2>2. l \in Seq(Bytes) /\ l \in Seq(Uniforms) /\ e \in Bytes /\ e \in Uniforms
    BY <2>1, SeqMonotonic
  <2>3. s \o Append(l, e) = Append(s \o l, e) /\ s \o l \in Seq(Bytes)
    BY <2>2, ConcatAppend, ConcatProperties
  <2>4. Uniform(Append(s \o l, e)) = Append(Uniform(s \o l), e)
    BY <2>1, <2>2, <2>3, UniformLonger DEF Breaks
  <2>5. Uniform(s) \o Append(l, e) = Append(Uniform(s) \o l, e)
    BY <2>2, UniformType, ConcatAppend
  <2>6. Append(l, e) \in Seq(Contents)
    BY AppendProperties
  <2>. QED
    BY <1>2, <2>3, <2>4, <2>5, <2>6
<1>. HIDE DEF P
<1>3. line \in P
  BY <1>1, <1>2, AllSequences
<1>. QED
  BY <1>3 DEF P

\* What comes behind a text adds to the uniform text, and changes nothing in it.
LEMMA UniformGrows ==
    ASSUME NEW s \in Seq(Bytes), NEW t \in Seq(Bytes)
    PROVE  \E y \in Seq(Uniforms) : Uniform(s \o t) = Uniform(s) \o y
<1>. DEFINE P == {c \in Seq(Bytes) : \E y \in Seq(Uniforms) : Uniform(s \o c) = Uniform(s) \o y}
<1>1. <<>> \in P
  BY EmptySeq, ConcatEmptySeq, UniformType
<1>2. ASSUME NEW c \in Seq(Bytes), NEW e \in Bytes, c \in P
      PROVE  Append(c, e) \in P
  <2>1. PICK y \in Seq(Uniforms) : Uniform(s \o c) = Uniform(s) \o y
    BY <1>2
  <2>2. s \o Append(c, e) = Append(s \o c, e) /\ s \o c \in Seq(Bytes)
    BY ConcatAppend, ConcatProperties
  <2>. DEFINE b == IF e \in Breaks THEN "LF" ELSE e
  <2>3. b \in Uniforms
    BY DEF Uniforms, Bytes, Breaks
  <2>4. Uniform(Append(s \o c, e)) \in {Uniform(s \o c), Append(Uniform(s \o c), b)}
    BY <2>2, UniformLonger
  <2>. HIDE DEF b
  <2>5. Uniform(s) \o Append(y, b) = Append(Uniform(s) \o y, b)
    BY <2>3, UniformType, ConcatAppend
  <2>6. Append(c, e) \in Seq(Bytes) /\ Append(y, b) \in Seq(Uniforms)
    BY <2>3, AppendProperties
  <2>. QED
    BY <2>1, <2>2, <2>4, <2>5, <2>6
<1>. HIDE DEF P
<1>3. t \in P
  BY <1>1, <1>2, AllSequences
<1>. QED
  BY <1>3 DEF P

-----------------------------------------------------------------------------
\* What the tracker counts.

\* The bytes of one line more, with its break.
LEMMA EventBytesFacts ==
    /\ EventBytes(<<>>) = 0
    /\ \A d \in Seq(Seq(Contents)) : EventBytes(d) \in Nat
    /\ \A d \in Seq(Seq(Contents)), l \in Seq(Contents) :
           EventBytes(Append(d, l)) = EventBytes(d) + Len(l) + 1
<1>. DEFINE
    Lines0 == Seq(Contents)
    Sums(d, f) == f = [n \in 0 .. Len(d) |-> IF n = 0 THEN 0 ELSE f[n - 1] + Len(d[n]) + 1]
<1>1. ASSUME NEW d \in Seq(Lines0)
      PROVE  \E f : Sums(d, f) /\ EventBytes(d) = f[Len(d)] /\ \A n \in 0 .. Len(d) : f[n] \in Nat
  <2>. DEFINE
      M == Len(d)
      next == [p \in Nat \X Nat |-> IF p[1] + 1 \in 1 .. M THEN p[2] + Len(d[p[1] + 1]) + 1 ELSE p[2]]
  <2>1. M \in Nat /\ \A i \in 1 .. M : Len(d[i]) \in Nat
    BY LenProperties
  <2>2. next \in [Nat \X Nat -> Nat]
    BY <2>1
  <2>. HIDE DEF next
  <2>3. PICK g : IndexedIterates(g, Nat, 0, next)
    BY <2>2, IndexedIteration
  <2>. DEFINE h == [n \in 0 .. M |-> g[n]]
  <2>4. ASSUME NEW n \in 0 .. M
        PROVE  h[n] = IF n = 0 THEN 0 ELSE h[n - 1] + Len(d[n]) + 1
    <3>1. CASE n = 0
      BY <2>3, <3>1 DEF IndexedIterates
    <3>2. CASE n # 0
      <4>1. n - 1 \in Nat /\ n - 1 \in 0 .. M /\ (n - 1) + 1 = n /\ n \in 1 .. M
        BY <2>1, <3>2
      <4>2. g[n] = next[<<n - 1, g[n - 1]>>] /\ g[n - 1] \in Nat
        BY <2>3, <4>1 DEF IndexedIterates
      <4>3. g[n] = g[n - 1] + Len(d[n]) + 1
        BY <4>1, <4>2 DEF next
      <4>. QED
        BY <3>2, <4>1, <4>3
    <3>. QED
      BY <3>1, <3>2
  <2>5. Sums(d, h)
    BY <2>4
  <2>. DEFINE c == CHOOSE f : Sums(d, f)
  <2>. HIDE DEF h
  <2>6. Sums(d, c)
    <3>. HIDE DEF Sums
    <3>. QED
      BY <2>5
  <2>7. EventBytes(d) = c[M]
    BY DEF EventBytes
  <2>8. ASSUME NEW n \in 0 .. M
        PROVE  c[n] \in Nat
    <3>. DEFINE Q == {k \in Nat : k <= M => c[k] \in Nat}
    <3>. HIDE DEF c
    <3>1. 0 \in Q
      BY <2>1, <2>6
    <3>2. ASSUME NEW k \in Nat, k \in Q
          PROVE  k + 1 \in Q
      <4>. SUFFICES ASSUME k + 1 <= M PROVE c[k + 1] \in Nat
        OBVIOUS
      <4>1. k + 1 \in 0 .. M /\ k + 1 # 0 /\ (k + 1) - 1 = k /\ k + 1 \in 1 .. M /\ c[k] \in Nat
        BY <2>1, <3>2
      <4>2. c[k + 1] = c[k] + Len(d[k + 1]) + 1
        BY <2>6, <4>1
      <4>. QED
        BY <2>1, <4>1, <4>2
    <3>. HIDE DEF Q
    <3>3. \A k \in Nat : k \in Q
      BY <3>1, <3>2, AllNaturals
    <3>4. n \in Nat /\ n <= M /\ n \in Q
      BY <2>1, <3>3
    <3>. QED
      BY <3>4 DEF Q
  <2>. HIDE DEF c, Sums
  <2>. QED
    BY <2>6, <2>7, <2>8
<1>2. EventBytes(<<>>) = 0
  <2>1. <<>> \in Seq(Lines0) /\ Len(<<>>) = 0
    BY EmptySeq
  <2>2. PICK f : Sums(<<>>, f) /\ EventBytes(<<>>) = f[Len(<<>>)]
    <3>. HIDE DEF Sums, Lines0
    <3>. QED
      BY <1>1, <2>1
  <2>3. f[0] = 0
    BY <2>1, <2>2
  <2>. QED
    BY <2>1, <2>2, <2>3
<1>3. ASSUME NEW d \in Seq(Lines0), NEW l \in Lines0
      PROVE  EventBytes(Append(d, l)) = EventBytes(d) + Len(l) + 1
  <2>. DEFINE
      M == Len(d)
      e == Append(d, l)
  <2>1. /\ e \in Seq(Lines0) /\ M \in Nat /\ Len(e) = M + 1 /\ e[M + 1] = l
        /\ \A i \in 1 .. M : e[i] = d[i]
    <3>. HIDE DEF Lines0
    <3>. QED
      BY AppendProperties, LenProperties
  <2>. HIDE DEF e
  <2>2. PICK f : Sums(d, f) /\ EventBytes(d) = f[M]
    <3>. HIDE DEF Sums, Lines0
    <3>. QED
      BY <1>1
  <2>3. PICK g : Sums(e, g) /\ EventBytes(e) = g[Len(e)]
    <3>. HIDE DEF Sums, Lines0
    <3>. QED
      BY <1>1, <2>1
  <2>. DEFINE Q == {k \in Nat : k <= M => f[k] = g[k]}
  <2>4. 0 \in Q
    BY <2>1, <2>2, <2>3
  <2>5. ASSUME NEW k \in Nat, k \in Q
        PROVE  k + 1 \in Q
    <3>. SUFFICES ASSUME k + 1 <= M PROVE f[k + 1] = g[k + 1]
      OBVIOUS
    <3>1. /\ k + 1 \in 0 .. M /\ k + 1 \in 0 .. Len(e) /\ k + 1 # 0 /\ (k + 1) - 1 = k
          /\ f[k] = g[k] /\ e[k + 1] = d[k + 1]
      BY <2>1, <2>5
    <3>2. f[k + 1] = f[k] + Len(d[k + 1]) + 1 /\ g[k + 1] = g[k] + Len(e[k + 1]) + 1
      BY <2>2, <2>3, <3>1
    <3>. QED
      BY <3>1, <3>2
  <2>6. f[M] = g[M]
    <3>. HIDE DEF Q
    <3>1. M \in Q
      BY <2>1, <2>4, <2>5, AllNaturals
    <3>. QED
      BY <2>1, <3>1 DEF Q
  <2>7. g[M + 1] = g[M] + Len(l) + 1
    <3>1. M + 1 \in 0 .. Len(e) /\ M + 1 # 0 /\ (M + 1) - 1 = M
      BY <2>1
    <3>. QED
      BY <2>1, <2>3, <3>1
  <2>. QED
    BY <2>1, <2>2, <2>3, <2>6, <2>7 DEF e
<1>4. \A d \in Seq(Lines0) : EventBytes(d) \in Nat
  <2>1. ASSUME NEW d \in Seq(Lines0) PROVE EventBytes(d) \in Nat
    <3>1. PICK f : EventBytes(d) = f[Len(d)] /\ \A n \in 0 .. Len(d) : f[n] \in Nat
      <4>. HIDE DEF Sums, Lines0
      <4>. QED
        BY <1>1
    <3>. QED
      BY <3>1, LenProperties
  <2>. QED
    BY <2>1
<1>. QED
  BY <1>2, <1>3, <1>4

-----------------------------------------------------------------------------
\* Uniform texts, their blank lines and their events.

\* The last blank line of a uniform text, or its beginning.
LastBlank(u) == Max(Blanks(u) \cup {0})

\* Every line of it has come to its end.
Ended(u) == u = <<>> \/ u[Len(u)] = "LF"

\* The blank lines that close an event with data, and what that event is.
Ends(u) ==
    {e \in Blanks(u) : \E p \in Blanks(u) \cup {0} :
         p < e /\ Adjacent(u, p, e) /\ HasData(u, p, e)}

Judged(u, e) ==
    IF OnlyField(u, Max({q \in Blanks(u) \cup {0} : q < e}), e, "event") THEN "valid" ELSE "other"

FirstIn(u) == IF Ends(u) = {} THEN "none" ELSE Judged(u, Min(Ends(u)))

DoneIn(u) ==
    \E e \in Blanks(u), p \in Blanks(u) \cup {0} :
        p < e /\ Adjacent(u, p, e) /\ OnlyField(u, p, e, "done")

\* w begins with u.
Continues(u, w) == Len(u) <= Len(w) /\ \A i \in 1 .. Len(u) : w[i] = u[i]

\* data are the data lines behind the last blank line of u.
Reads(u, data) ==
    /\ data \in Seq(Seq(Contents))
    /\ data # <<>> <=> HasData(u, LastBlank(u), Len(u) + 1)
    /\ \A f \in DataFields :
           data = <<<<f>>>> <=> OnlyField(u, LastBlank(u), Len(u) + 1, f)
    /\ EventBytes(data) <= Len(u) - LastBlank(u)

\* The first event and the [DONE] of a text are those of its uniform text.
LEMMA OfUniform ==
    ASSUME NEW s
    PROVE  FirstEvent(s) = FirstIn(Uniform(s)) /\ (HasDone(s) <=> DoneIn(Uniform(s)))
BY DEF FirstEvent, FirstIn, Ends, Judged, HasDone, DoneIn

\* The greatest number of a bounded set.
LEMMA MaxFacts ==
    ASSUME NEW n \in Nat, NEW S \in SUBSET (0 .. n), S # {}
    PROVE  Max(S) \in S /\ \A k \in S : k <= Max(S)
<1>1. PICK m \in S : \A k \in S : k <= m
  BY GreatestNatural
<1>2. \A k \in S : m >= k
  BY <1>1
<1>. QED
  BY <1>2 DEF Max

\* The least number of a set.
LEMMA MinFacts ==
    ASSUME NEW S \in SUBSET Nat, S # {}
    PROVE  Min(S) \in S /\ \A k \in S : Min(S) <= k
<1>1. \E m \in S : \A k \in S : m <= k
  BY LeastNatural
<1>. QED
  BY <1>1 DEF Min

\* The last blank line is one, or the beginning, and none is behind it.
LEMMA LastBlankFacts ==
    ASSUME NEW u \in Seq(Uniforms)
    PROVE  /\ LastBlank(u) \in Blanks(u) \cup {0} /\ LastBlank(u) \in 0 .. Len(u)
           /\ \A i \in Blanks(u) : i <= LastBlank(u)
<1>1. Len(u) \in Nat /\ Blanks(u) \cup {0} \in SUBSET (0 .. Len(u))
  BY LenProperties DEF Blanks
<1>2. /\ LastBlank(u) \in Blanks(u) \cup {0}
      /\ \A k \in Blanks(u) \cup {0} : k <= LastBlank(u)
  BY <1>1, MaxFacts DEF LastBlank
<1>. QED
  BY <1>1, <1>2

\* What comes behind a text changes nothing in front of its blank lines.
LEMMA ContinuedFacts ==
    ASSUME NEW u \in Seq(Uniforms), NEW w \in Seq(Uniforms), Continues(u, w)
    PROVE  /\ \A i \in 1 .. Len(u) : i \in Blanks(w) <=> i \in Blanks(u)
           /\ Blanks(u) \subseteq Blanks(w)
           /\ \A e \in Blanks(u) :
                 {q \in Blanks(w) \cup {0} : q < e} = {q \in Blanks(u) \cup {0} : q < e}
           /\ \A e \in Blanks(u), p \in Nat :
                 /\ Adjacent(w, p, e) <=> Adjacent(u, p, e)
                 /\ HasData(w, p, e) <=> HasData(u, p, e)
                 /\ \A f \in DataFields : OnlyField(w, p, e, f) <=> OnlyField(u, p, e, f)
<1>1. /\ Len(u) \in Nat /\ Len(w) \in Nat /\ Len(u) <= Len(w)
      /\ \A i \in 1 .. Len(u) : w[i] = u[i]
  BY LenProperties DEF Continues
<1>2. \A i \in 1 .. Len(u) : i \in Blanks(w) <=> i \in Blanks(u)
  <2>1. \A i \in 1 .. Len(u) : i \in 1 .. Len(w) /\ (i = 1 \/ i - 1 \in 1 .. Len(u))
    BY <1>1
  <2>. QED
    BY <1>1, <2>1 DEF Blanks
<1>3. Blanks(u) \subseteq 1 .. Len(u) /\ Blanks(w) \subseteq 1 .. Len(w)
  BY DEF Blanks
<1>4. \A e \in Blanks(u) :
          {q \in Blanks(w) \cup {0} : q < e} = {q \in Blanks(u) \cup {0} : q < e}
  <2>1. \A e \in Blanks(u), q \in Blanks(w) : q < e => q \in 1 .. Len(u)
    BY <1>1, <1>3
  <2>. QED
    BY <1>2, <1>3, <2>1
<1>5. ASSUME NEW e \in Blanks(u), NEW p \in Nat
      PROVE  /\ Adjacent(w, p, e) <=> Adjacent(u, p, e)
             /\ HasData(w, p, e) <=> HasData(u, p, e)
             /\ \A f \in DataFields : OnlyField(w, p, e, f) <=> OnlyField(u, p, e, f)
  <2>1. /\ e \in 1 .. Len(u)
        /\ \A i \in p + 1 .. e - 1 : i \in 1 .. Len(u) /\ i + 1 \in 1 .. Len(u)
        /\ \A i \in p + 1 .. e - 1 : i = p + 1 \/ i - 1 \in 1 .. Len(u)
    BY <1>1, <1>3
  <2>2. \A i \in p + 1 .. e - 1 : w[i] = u[i] /\ w[i + 1] = u[i + 1] /\ (i = p + 1 \/ w[i - 1] = u[i - 1])
    BY <1>1, <2>1
  <2>3. Adjacent(w, p, e) <=> Adjacent(u, p, e)
    BY <1>2, <2>1 DEF Adjacent
  <2>4. HasData(w, p, e) <=> HasData(u, p, e)
    BY <2>2 DEF HasData
  <2>5. ASSUME NEW f \in DataFields
        PROVE  OnlyField(w, p, e, f) <=> OnlyField(u, p, e, f)
    BY <2>2 DEF OnlyField
  <2>. QED
    BY <2>3, <2>4, <2>5
<1>. QED
  BY <1>2, <1>3, <1>4, <1>5

\* Without a new blank line there is no new event.
LEMMA NoNewBlank ==
    ASSUME NEW u \in Seq(Uniforms), NEW w \in Seq(Uniforms), Continues(u, w),
           Blanks(w) = Blanks(u)
    PROVE  /\ LastBlank(w) = LastBlank(u)
           /\ DoneIn(w) <=> DoneIn(u)
           /\ FirstIn(w) = FirstIn(u)
<1>1. Blanks(u) \cup {0} \subseteq Nat
  BY DEF Blanks
<1>2. Ends(w) = Ends(u)
  BY <1>1, ContinuedFacts DEF Ends
<1>3. DoneIn(w) <=> DoneIn(u)
  BY <1>1, ContinuedFacts DEF DoneIn, DataFields
<1>4. ASSUME Ends(u) # {}
      PROVE  Judged(w, Min(Ends(u))) = Judged(u, Min(Ends(u)))
  <2>1. Ends(u) \in SUBSET Nat /\ Ends(u) \subseteq Blanks(u)
    BY <1>1 DEF Ends
  <2>2. Min(Ends(u)) \in Blanks(u)
    BY <1>4, <2>1, MinFacts
  <2>. DEFINE
      e == Min(Ends(u))
      before == {q \in Blanks(u) \cup {0} : q < e}
  <2>3. e \in Nat /\ before \in SUBSET (0 .. e) /\ before # {} /\ \A k \in before : k \in Nat
    <3>1. /\ \A i \in Blanks(u) : i \in Nat /\ i > 0
          /\ e \in Blanks(u)
      BY <2>2 DEF Blanks
    <3>. HIDE DEF e
    <3>2. e \in Nat /\ e > 0 /\ 0 \in before /\ \A k \in before : k \in Nat
      BY <3>1
    <3>. QED
      BY <3>2
  <2>4. Max(before) \in Nat
    <3>. HIDE DEF e, before
    <3>1. Max(before) \in before
      BY <2>3, MaxFacts
    <3>. QED
      BY <2>3, <3>1
  <2>. QED
    BY <2>2, <2>4, ContinuedFacts DEF Judged, DataFields
<1>. QED
  BY <1>2, <1>3, <1>4 DEF LastBlank, FirstIn

\* One blank line more behind everything closes the event behind the last one.
LEMMA OneBlankMore ==
    ASSUME NEW u \in Seq(Uniforms), NEW w \in Seq(Uniforms), Continues(u, w),
           NEW e \in Nat, e > Len(u), Blanks(w) = Blanks(u) \cup {e}
    PROVE  /\ LastBlank(w) = e
           /\ DoneIn(w) <=> DoneIn(u) \/ OnlyField(w, LastBlank(u), e, "done")
           /\ FirstIn(w) =
                 IF FirstIn(u) # "none" THEN FirstIn(u)
                 ELSE IF ~HasData(w, LastBlank(u), e) THEN "none"
                 ELSE IF OnlyField(w, LastBlank(u), e, "event") THEN "valid" ELSE "other"
<1>. DEFINE q == LastBlank(u)
<1>1. /\ Len(u) \in Nat /\ q \in Blanks(u) \cup {0} /\ q \in 0 .. Len(u)
      /\ \A i \in Blanks(u) : i <= q
      /\ Blanks(u) \in SUBSET (1 .. Len(u))
  BY LastBlankFacts, LenProperties DEF Blanks
<1>. HIDE DEF q
<1>2. LastBlank(w) = e
  <2>1. LastBlank(w) \in Blanks(u) \cup {e, 0} /\ LastBlank(w) \in Nat /\ e <= LastBlank(w)
    BY LastBlankFacts, LenProperties
  <2>. QED
    BY <1>1, <2>1
<1>3. \A p \in Blanks(w) \cup {0} : p < e /\ Adjacent(w, p, e) <=> p = q
  <2>1. ASSUME NEW p \in Blanks(w) \cup {0}, p < e, Adjacent(w, p, e)
        PROVE  p = q
    <3>1. p \in Blanks(u) \cup {0} /\ p \in Nat /\ p <= q
      BY <1>1, <2>1
    <3>2. q \notin p + 1 .. e - 1 \/ q = 0
      BY <1>1, <2>1 DEF Adjacent
    <3>. QED
      BY <1>1, <3>1, <3>2
  <2>2. q < e /\ Adjacent(w, q, e)
    BY <1>1 DEF Adjacent
  <2>. QED
    BY <1>1, <2>1, <2>2
<1>4. q \in Blanks(w) \cup {0}
  BY <1>1
<1>5. \A d \in Blanks(u), p \in Blanks(w) \cup {0} : p < d => p \in Blanks(u) \cup {0}
  BY <1>1
<1>6. DoneIn(w) <=> DoneIn(u) \/ OnlyField(w, q, e, "done")
  <2>1. ASSUME NEW d \in Blanks(u), NEW p \in Nat
        PROVE  /\ Adjacent(w, p, d) <=> Adjacent(u, p, d)
               /\ OnlyField(w, p, d, "done") <=> OnlyField(u, p, d, "done")
    BY ContinuedFacts DEF DataFields
  <2>2. Blanks(w) \cup {0} \subseteq Nat
    BY <1>1
  <2>3. DoneIn(u) => DoneIn(w)
    <3>1. Blanks(u) \subseteq Blanks(w)
      OBVIOUS
    <3>. QED
      BY <2>1, <2>2, <3>1 DEF DoneIn
  <2>4. OnlyField(w, q, e, "done") => DoneIn(w)
    BY <1>3, <1>4 DEF DoneIn
  <2>5. ASSUME DoneIn(w) PROVE DoneIn(u) \/ OnlyField(w, q, e, "done")
    <3>1. PICK d \in Blanks(w), p \in Blanks(w) \cup {0} :
              p < d /\ Adjacent(w, p, d) /\ OnlyField(w, p, d, "done")
      BY <2>5 DEF DoneIn
    <3>2. CASE d = e
      BY <1>3, <3>1, <3>2
    <3>3. CASE d # e
      BY <1>5, <2>1, <2>2, <3>1, <3>3 DEF DoneIn
    <3>. QED
      BY <3>2, <3>3
  <2>. QED
    BY <2>3, <2>4, <2>5
<1>7. \A d \in Blanks(u) : d \in Ends(w) <=> d \in Ends(u)
  <2>1. ASSUME NEW d \in Blanks(u), NEW p \in Nat
        PROVE  /\ Adjacent(w, p, d) <=> Adjacent(u, p, d)
               /\ HasData(w, p, d) <=> HasData(u, p, d)
    BY ContinuedFacts
  <2>2. Blanks(w) \cup {0} \subseteq Nat /\ Blanks(u) \subseteq Blanks(w)
    BY <1>1
  <2>. QED
    BY <1>5, <2>1, <2>2 DEF Ends
<1>8. e \in Ends(w) <=> HasData(w, q, e)
  BY <1>3, <1>4 DEF Ends
<1>9. Ends(w) = IF HasData(w, q, e) THEN Ends(u) \cup {e} ELSE Ends(u)
  <2>1. /\ \A d \in Ends(u) : d \in Blanks(u)
        /\ \A d \in Ends(w) : d \in Blanks(u) \/ d = e
        /\ e \notin Blanks(u)
    BY <1>1 DEF Ends
  <2>2. ASSUME HasData(w, q, e) PROVE Ends(w) = Ends(u) \cup {e}
    <3>1. \A d : d \in Ends(w) <=> d \in Ends(u) \cup {e}
      BY <1>7, <1>8, <2>1, <2>2
    <3>. QED
      BY <3>1
  <2>3. ASSUME ~HasData(w, q, e) PROVE Ends(w) = Ends(u)
    <3>1. \A d : d \in Ends(w) <=> d \in Ends(u)
      BY <1>7, <1>8, <2>1, <2>3
    <3>. QED
      BY <3>1
  <2>. QED
    BY <2>2, <2>3
<1>10. FirstIn(u) # "none" => Ends(u) # {}
  BY DEF FirstIn
<1>11. Ends(u) # {} => FirstIn(u) \in {"valid", "other"}
  BY DEF FirstIn, Judged
<1>12. CASE Ends(u) # {}
  <2>1. Ends(u) \in SUBSET Nat /\ Ends(u) \subseteq Blanks(u) /\ Ends(w) \in SUBSET Nat
    BY <1>1, <1>9 DEF Ends
  <2>2. Min(Ends(u)) \in Ends(u) /\ \A d \in Ends(u) : Min(Ends(u)) <= d
    BY <1>12, <2>1, MinFacts
  <2>3. Min(Ends(w)) \in Ends(w) /\ \A d \in Ends(w) : Min(Ends(w)) <= d
    BY <1>9, <1>12, <2>1, MinFacts
  <2>4. Min(Ends(w)) = Min(Ends(u))
    <3>. DEFINE
        a == Min(Ends(u))
        b == Min(Ends(w))
    <3>. HIDE DEF a, b
    <3>1. a \in Ends(u) /\ b \in Ends(w) /\ \A k \in Ends(u) : k \in Ends(w)
      BY <1>9, <2>2, <2>3 DEF a, b
    <3>2. b <= a /\ \A k \in Ends(u) : a <= k
      BY <2>2, <2>3, <3>1 DEF a, b
    <3>3. a \in Nat /\ b \in Nat /\ a <= Len(u)
      <4>1. \A k \in Ends(u) : k \in Nat /\ k <= Len(u)
        BY <1>1, <2>1
      <4>2. \A k \in Ends(w) : k \in Nat
        BY <2>1
      <4>. QED
        BY <3>1, <4>1, <4>2
    <3>4. b \in Ends(u)
      BY <1>1, <1>9, <3>1, <3>2, <3>3
    <3>5. a = b
      BY <3>2, <3>3, <3>4
    <3>. QED
      BY <3>5 DEF a, b
  <2>. DEFINE
      d == Min(Ends(u))
      before == {p \in Blanks(u) \cup {0} : p < d}
  <2>5. /\ d \in Blanks(u) /\ d \in Nat /\ before \in SUBSET (0 .. d) /\ before # {}
        /\ \A k \in before : k \in Nat
    BY <1>1, <2>1, <2>2
  <2>6. Max(before) \in Nat
    <3>. HIDE DEF d, before
    <3>1. Max(before) \in before
      BY <2>5, MaxFacts
    <3>. QED
      BY <2>5, <3>1
  <2>7. {p \in Blanks(w) \cup {0} : p < d} = before
    BY <2>5, ContinuedFacts
  <2>8. Judged(w, d) = Judged(u, d)
    <3>. DEFINE m == Max(before)
    <3>1. OnlyField(w, m, d, "event") <=> OnlyField(u, m, d, "event")
      <4>. HIDE DEF m, d
      <4>1. m \in Nat
        BY <2>6 DEF m
      <4>2. "event" \in DataFields
        BY DEF DataFields
      <4>. QED
        BY <2>5, <4>1, <4>2, ContinuedFacts
    <3>2. Max({p \in Blanks(w) \cup {0} : p < d}) = m
      BY <2>7
    <3>. QED
      BY <3>1, <3>2 DEF Judged
  <2>9. FirstIn(w) = FirstIn(u)
    BY <1>9, <1>12, <2>4, <2>8 DEF FirstIn
  <2>. QED
    BY <1>2, <1>6, <1>11, <1>12, <2>9 DEF q
<1>13. CASE Ends(u) = {}
  <2>1. FirstIn(u) = "none"
    BY <1>13 DEF FirstIn
  <2>2. ASSUME ~HasData(w, q, e) PROVE FirstIn(w) = "none"
    BY <1>9, <1>13, <2>2 DEF FirstIn
  <2>3. ASSUME HasData(w, q, e)
        PROVE  FirstIn(w) = IF OnlyField(w, q, e, "event") THEN "valid" ELSE "other"
    <3>1. Ends(w) = {e}
      BY <1>9, <1>13, <2>3
    <3>2. Min(Ends(w)) = e
      BY <3>1, MinFacts
    <3>. DEFINE before == {p \in Blanks(w) \cup {0} : p < e}
    <3>3. before = Blanks(u) \cup {0}
      BY <1>1
    <3>. QED
      BY <3>1, <3>2, <3>3 DEF FirstIn, Judged, LastBlank, q
  <2>. QED
    BY <1>2, <1>6, <2>1, <2>2, <2>3 DEF q
<1>. QED
  BY <1>12, <1>13

\* A blank line closes the event that was being read.
LEMMA BlankLine ==
    ASSUME NEW v \in Seq(Uniforms), Ended(v), NEW data, Reads(v, data),
           NEW w, w = Append(v, "LF")
    PROVE  /\ w \in Seq(Uniforms) /\ Ended(w) /\ Reads(w, <<>>)
           /\ DoneIn(w) <=> DoneIn(v) \/ data = Done
           /\ FirstIn(w) =
                 IF FirstIn(v) # "none" THEN FirstIn(v)
                 ELSE IF data = <<>> THEN "none"
                 ELSE IF data = Valid THEN "valid" ELSE "other"
<1>. DEFINE
    n == Len(v)
    q == LastBlank(v)
<1>1. /\ n \in Nat /\ w \in Seq(Uniforms) /\ Len(w) = n + 1 /\ w[n + 1] = "LF"
      /\ \A i \in 1 .. n : w[i] = v[i]
      /\ w # <<>>
  <2>1. "LF" \in Uniforms
    BY DEF Uniforms
  <2>. QED
    BY <2>1, LongerFacts, LenProperties
<1>2. q \in 0 .. n
  BY LastBlankFacts
<1>3. Continues(v, w)
  BY <1>1 DEF Continues
<1>4. n = 0 \/ v[n] = "LF"
  BY EmptySeq DEF Ended
<1>. HIDE DEF n, q
<1>5. Blanks(w) = Blanks(v) \cup {n + 1}
  <2>1. \A i \in 1 .. n : i \in Blanks(w) <=> i \in Blanks(v)
    BY <1>1, <1>3, ContinuedFacts DEF n
  <2>2. n + 1 \in Blanks(w)
    BY <1>1, <1>4 DEF Blanks
  <2>3. Blanks(w) \subseteq 1 .. n + 1 /\ Blanks(v) \subseteq 1 .. n
    BY <1>1 DEF Blanks, n
  <2>4. \A i \in 1 .. n + 1 : i \in 1 .. n \/ i = n + 1
    BY <1>1
  <2>. QED
    BY <2>1, <2>2, <2>3, <2>4
<1>6. HasData(w, q, n + 1) <=> HasData(v, q, n + 1)
  <2>1. \A i \in q + 1 .. (n + 1) - 1 : i \in 1 .. n /\ (i = q + 1 \/ i - 1 \in 1 .. n)
    BY <1>1, <1>2
  <2>. QED
    BY <1>1, <2>1 DEF HasData
<1>7. ASSUME NEW f \in DataFields
      PROVE  OnlyField(w, q, n + 1, f) <=> OnlyField(v, q, n + 1, f)
  <2>1. f # "LF"
    BY DEF DataFields
  <2>2. \A i \in q + 1 .. (n + 1) - 1 : i \in 1 .. n /\ (i = q + 1 \/ i - 1 \in 1 .. n) /\ (i # n => i + 1 \in 1 .. n)
    BY <1>1, <1>2
  <2>3. \A i \in q + 1 .. (n + 1) - 1 : w[i] = v[i] /\ (v[i] = f => w[i + 1] = v[i + 1])
    BY <1>1, <1>4, <2>1, <2>2
  <2>4. \A i \in q + 1 .. (n + 1) - 1 : i = q + 1 \/ w[i - 1] = v[i - 1]
    BY <1>1, <2>2
  <2>. DEFINE Starts(u) == {i \in q + 1 .. (n + 1) - 1 : i = q + 1 \/ u[i - 1] = "LF"}
  <2>5. Starts(w) = Starts(v)
    BY <2>4
  <2>6. OnlyField(w, q, n + 1, f) <=>
            \E i \in Starts(w) : w[i] = f /\ w[i + 1] = "LF" /\ \A j \in Starts(w) \ {i} : w[j] \notin DataFields
    BY DEF OnlyField
  <2>7. OnlyField(v, q, n + 1, f) <=>
            \E i \in Starts(v) : v[i] = f /\ v[i + 1] = "LF" /\ \A j \in Starts(v) \ {i} : v[j] \notin DataFields
    BY DEF OnlyField
  <2>8. \A i \in Starts(v) : w[i] = v[i] /\ (v[i] = f => w[i + 1] = v[i + 1])
    BY <2>3
  <2>. HIDE DEF Starts
  <2>. QED
    BY <2>5, <2>6, <2>7, <2>8
<1>8. /\ LastBlank(w) = n + 1
      /\ DoneIn(w) <=> DoneIn(v) \/ OnlyField(w, q, n + 1, "done")
      /\ FirstIn(w) =
            IF FirstIn(v) # "none" THEN FirstIn(v)
            ELSE IF ~HasData(w, q, n + 1) THEN "none"
            ELSE IF OnlyField(w, q, n + 1, "event") THEN "valid" ELSE "other"
  <2>1. n + 1 \in Nat /\ n + 1 > Len(v)
    BY <1>1 DEF n
  <2>. QED
    BY <1>1, <1>3, <1>5, <2>1, OneBlankMore DEF q
<1>9. /\ data # <<>> <=> HasData(v, q, n + 1)
      /\ data = Done <=> OnlyField(v, q, n + 1, "done")
      /\ data = Valid <=> OnlyField(v, q, n + 1, "event")
  BY DEF Reads, Done, Valid, DataFields, n, q
<1>10. Reads(w, <<>>)
  <2>1. <<>> \in Seq(Seq(Contents))
    BY EmptySeq
  <2>2. LastBlank(w) + 1 .. (Len(w) + 1) - 1 = {}
    BY <1>1, <1>8
  <2>3. ~HasData(w, LastBlank(w), Len(w) + 1)
    BY <2>2 DEF HasData
  <2>4. \A f : ~OnlyField(w, LastBlank(w), Len(w) + 1, f)
    BY <2>2 DEF OnlyField
  <2>5. EventBytes(<<>>) <= Len(w) - LastBlank(w)
    BY <1>1, <1>8, EventBytesFacts
  <2>6. \A f : <<>> # <<<<f>>>>
    OBVIOUS
  <2>. QED
    BY <2>1, <2>3, <2>4, <2>5, <2>6 DEF Reads
<1>11. Ended(w)
  BY <1>1 DEF Ended
<1>12. DoneIn(w) <=> DoneIn(v) \/ data = Done
  BY <1>7, <1>8, <1>9 DEF DataFields
<1>13. OnlyField(w, q, n + 1, "event") <=> data = Valid
  BY <1>7, <1>9 DEF DataFields
<1>. QED
  BY <1>1, <1>6, <1>8, <1>9, <1>10, <1>11, <1>12, <1>13

\* A part of a line changes no event.
LEMMA RestOfText ==
    ASSUME NEW v \in Seq(Uniforms), NEW line \in Seq(Contents), NEW w, w = v \o line
    PROVE  /\ w \in Seq(Uniforms) /\ Continues(v, w) /\ Len(w) = Len(v) + Len(line)
           /\ LastBlank(w) = LastBlank(v)
           /\ DoneIn(w) <=> DoneIn(v)
           /\ FirstIn(w) = FirstIn(v)
<1>. DEFINE n == Len(v)
<1>1. Contents \subseteq Uniforms /\ "LF" \notin Contents
  BY DEF Contents, Uniforms, DataFields
<1>2. line \in Seq(Uniforms)
  BY <1>1, SeqMonotonic
<1>3. /\ w \in Seq(Uniforms) /\ Len(w) = n + Len(line) /\ n \in Nat /\ Len(line) \in Nat
      /\ \A i \in 1 .. n + Len(line) : w[i] = IF i <= n THEN v[i] ELSE line[i - n]
  BY <1>2, ConcatProperties, LenProperties
<1>4. Continues(v, w)
  BY <1>3 DEF Continues
<1>5. \A i \in n + 1 .. n + Len(line) : w[i] # "LF"
  <2>1. ASSUME NEW i \in n + 1 .. n + Len(line) PROVE w[i] # "LF"
    <3>1. i \in 1 .. n + Len(line) /\ ~(i <= n) /\ i - n \in 1 .. Len(line)
      BY <1>3
    <3>2. line[i - n] \in Contents
      BY <3>1, ElementOfSeq
    <3>. QED
      BY <1>1, <1>3, <3>1, <3>2
  <2>. QED
    BY <2>1
<1>6. Blanks(w) = Blanks(v)
  <2>1. \A i \in 1 .. n : i \in Blanks(w) <=> i \in Blanks(v)
    BY <1>3, <1>4, ContinuedFacts
  <2>2. \A i \in Blanks(v) : i \in 1 .. n
    BY DEF Blanks
  <2>3. \A i \in Blanks(w) : i \in 1 .. n
    <3>1. \A i \in 1 .. n + Len(line) : i \in 1 .. n \/ i \in n + 1 .. n + Len(line)
      BY <1>3
    <3>2. \A i \in Blanks(w) : i \in 1 .. n + Len(line) /\ w[i] = "LF"
      BY <1>3 DEF Blanks
    <3>. QED
      BY <1>5, <3>1, <3>2
  <2>4. \A i : i \in Blanks(w) <=> i \in Blanks(v)
    BY <2>1, <2>2, <2>3
  <2>. QED
    BY <2>4
<1>. QED
  BY <1>3, <1>4, <1>6, NoNewBlank

\* A line with something in it closes no event; it is data if it begins like data.
LEMMA TextLine ==
    ASSUME NEW v \in Seq(Uniforms), Ended(v), NEW data, Reads(v, data),
           NEW line \in Seq(Contents), line # <<>>, NEW w, w = Append(v \o line, "LF")
    PROVE  /\ w \in Seq(Uniforms) /\ Ended(w)
           /\ Reads(w, IF Head(line) \in DataFields THEN Append(data, line) ELSE data)
           /\ DoneIn(w) <=> DoneIn(v)
           /\ FirstIn(w) = FirstIn(v)
<1>. DEFINE
    n == Len(v)
    m == Len(line)
    q == LastBlank(v)
    e == n + m + 2
<1>1. Contents \subseteq Uniforms /\ "LF" \notin Contents /\ "LF" \in Uniforms
  BY DEF Contents, Uniforms, DataFields
<1>2. line \in Seq(Uniforms) /\ v \o line \in Seq(Uniforms)
  BY <1>1, SeqMonotonic, ConcatProperties
<1>3. n \in Nat /\ m \in Nat /\ m >= 1 /\ q \in 0 .. n
  BY EmptySeq, LenProperties, LastBlankFacts
<1>4. /\ w \in Seq(Uniforms) /\ Len(w) = n + m + 1 /\ w[n + m + 1] = "LF"
      /\ \A i \in 1 .. n : w[i] = v[i]
      /\ \A i \in 1 .. m : w[n + i] = line[i]
  <2>1. Len(v \o line) = n + m
    BY <1>2, ConcatProperties
  <2>2. /\ w \in Seq(Uniforms) /\ Len(w) = n + m + 1 /\ w[n + m + 1] = "LF"
        /\ \A i \in 1 .. n + m : w[i] = (v \o line)[i]
    BY <1>1, <1>2, <2>1, LongerFacts
  <2>3. \A i \in 1 .. n + m : (v \o line)[i] = IF i <= n THEN v[i] ELSE line[i - n]
    BY <1>2, ConcatProperties
  <2>4. ASSUME NEW i \in 1 .. n PROVE w[i] = v[i]
    BY <1>3, <2>2, <2>3
  <2>5. ASSUME NEW i \in 1 .. m PROVE w[n + i] = line[i]
    <3>1. n + i \in 1 .. n + m /\ ~(n + i <= n) /\ (n + i) - n = i
      BY <1>3
    <3>. QED
      BY <2>2, <2>3, <3>1
  <2>. QED
    BY <2>2, <2>4, <2>5
<1>5. \A i \in 1 .. m : line[i] \in Contents
  BY ElementOfSeq
<1>6. n = 0 \/ v[n] = "LF"
  BY EmptySeq DEF Ended
<1>7. Continues(v, w)
  BY <1>3, <1>4 DEF Continues
<1>8. Head(line) = w[n + 1]
  BY <1>3, <1>4
<1>. HIDE DEF n, m, q, e
<1>9. \A i \in n + 1 .. n + m : w[i] \in Contents
  <2>1. \A i \in n + 1 .. n + m : i - n \in 1 .. m /\ n + (i - n) = i
    BY <1>3
  <2>. QED
    BY <1>4, <1>5, <2>1
<1>10. Blanks(w) = Blanks(v)
  <2>1. \A i \in 1 .. n : i \in Blanks(w) <=> i \in Blanks(v)
    BY <1>4, <1>7, ContinuedFacts DEF n
  <2>2. \A i \in Blanks(v) : i \in 1 .. n
    BY DEF Blanks, n
  <2>3. \A i \in Blanks(w) : i \in 1 .. n
    <3>1. ASSUME NEW i \in Blanks(w) PROVE i \in 1 .. n
      <4>1. i \in 1 .. n + m + 1 /\ w[i] = "LF" /\ (i = 1 \/ w[i - 1] = "LF")
        BY <1>4 DEF Blanks
      <4>2. i \notin n + 1 .. n + m
        BY <1>1, <1>9, <4>1
      <4>3. i # n + m + 1
        <5>1. n + m \in n + 1 .. n + m /\ n + m + 1 # 1 /\ (n + m + 1) - 1 = n + m
          BY <1>3
        <5>. QED
          BY <1>1, <1>9, <4>1, <5>1
      <4>. QED
        BY <1>3, <4>1, <4>2, <4>3
    <3>. QED
      BY <3>1
  <2>4. \A i : i \in Blanks(w) <=> i \in Blanks(v)
    BY <2>1, <2>2, <2>3
  <2>. QED
    BY <2>4
<1>11. LastBlank(w) = q /\ (DoneIn(w) <=> DoneIn(v)) /\ FirstIn(w) = FirstIn(v)
  BY <1>4, <1>7, <1>10, NoNewBlank DEF q
<1>. DEFINE
    Begins(u, i) == i = q + 1 \/ u[i - 1] = "LF"
    StartsW == {i \in q + 1 .. e - 1 : Begins(w, i)}
    StartsV == {i \in q + 1 .. (n + 1) - 1 : Begins(v, i)}
<1>12. StartsW = StartsV \cup {n + 1} /\ n + 1 \notin StartsV /\ \A i \in StartsV : i \in 1 .. n
  <2>1. \A i \in q + 1 .. n : Begins(w, i) <=> Begins(v, i)
    <3>1. \A i \in q + 1 .. n : i = q + 1 \/ i - 1 \in 1 .. n
      BY <1>3
    <3>. QED
      BY <1>4, <3>1
  <2>2. Begins(w, n + 1)
    <3>1. n = q \/ n \in 1 .. n
      BY <1>3
    <3>. QED
      BY <1>3, <1>4, <1>6, <3>1
  <2>3. ASSUME NEW i \in n + 2 .. e - 1 PROVE ~Begins(w, i)
    <3>1. i - 1 \in n + 1 .. n + m /\ i # q + 1
      BY <1>3 DEF e
    <3>. QED
      BY <1>1, <1>9, <3>1
  <2>4. /\ \A i \in q + 1 .. e - 1 : i \in q + 1 .. n \/ i = n + 1 \/ i \in n + 2 .. e - 1
        /\ \A i \in q + 1 .. n : i \in q + 1 .. e - 1 /\ i \in 1 .. n
        /\ n + 1 \in q + 1 .. e - 1 /\ n + 1 \notin q + 1 .. n /\ (n + 1) - 1 = n
    BY <1>3 DEF e
  <2>. HIDE DEF Begins
  <2>5. \A i : i \in StartsW <=> i \in StartsV \/ i = n + 1
    BY <2>1, <2>2, <2>3, <2>4
  <2>6. \A i : i \in StartsW <=> i \in StartsV \cup {n + 1}
    BY <2>5
  <2>. HIDE DEF StartsW
  <2>7. StartsW = StartsV \cup {n + 1}
    BY <2>6
  <2>. QED
    BY <2>4, <2>7
<1>13. /\ HasData(w, q, e) <=> \E i \in StartsW : w[i] \in DataFields
       /\ HasData(v, q, n + 1) <=> \E i \in StartsV : v[i] \in DataFields
  BY DEF HasData
<1>14. \A f :
           /\ OnlyField(w, q, e, f) <=>
                 \E i \in StartsW : w[i] = f /\ w[i + 1] = "LF" /\ \A j \in StartsW \ {i} : w[j] \notin DataFields
           /\ OnlyField(v, q, n + 1, f) <=>
                 \E i \in StartsV : v[i] = f /\ v[i + 1] = "LF" /\ \A j \in StartsV \ {i} : v[j] \notin DataFields
  BY DEF OnlyField
<1>. HIDE DEF StartsW, StartsV, Begins
<1>15. \A i \in StartsV : w[i] = v[i]
  BY <1>4, <1>12
<1>16. \A i \in StartsV : v[i] \in DataFields => w[i + 1] = v[i + 1]
  <2>1. \A i \in 1 .. n : i = n \/ i + 1 \in 1 .. n
    BY <1>3
  <2>2. "LF" \notin DataFields
    BY DEF DataFields
  <2>3. ASSUME NEW i \in StartsV, v[i] \in DataFields
        PROVE  w[i + 1] = v[i + 1]
    <3>1. i \in 1 .. n /\ n # 0
      BY <1>3, <1>12
    <3>2. i # n
      BY <1>6, <2>2, <2>3, <3>1
    <3>. QED
      BY <1>4, <2>1, <3>1, <3>2
  <2>. QED
    BY <2>3
<1>17. HasData(w, q, e) <=> HasData(v, q, n + 1) \/ Head(line) \in DataFields
  BY <1>8, <1>12, <1>13, <1>15
<1>18. /\ data \in Seq(Seq(Contents))
       /\ data # <<>> <=> HasData(v, q, n + 1)
       /\ \A f \in DataFields : data = <<<<f>>>> <=> OnlyField(v, q, n + 1, f)
       /\ EventBytes(data) <= n - q
  BY DEF Reads, n, q
<1>19. Len(w) + 1 = e /\ Len(w) = n + m + 1
  BY <1>3, <1>4 DEF e
<1>20. ASSUME Head(line) \notin DataFields
       PROVE  Reads(w, data)
  <2>1. ASSUME NEW f \in DataFields
        PROVE  OnlyField(w, q, e, f) <=> OnlyField(v, q, n + 1, f)
    <3>1. w[n + 1] # f /\ w[n + 1] \notin DataFields
      BY <1>8, <1>20
    <3>2. ASSUME OnlyField(w, q, e, f) PROVE OnlyField(v, q, n + 1, f)
      <4>1. PICK i \in StartsW :
                w[i] = f /\ w[i + 1] = "LF" /\ \A j \in StartsW \ {i} : w[j] \notin DataFields
        BY <1>14, <3>2
      <4>2. i \in StartsV
        BY <1>12, <3>1, <4>1
      <4>3. v[i] = f /\ v[i + 1] = "LF"
        BY <1>15, <1>16, <4>1, <4>2
      <4>4. \A j \in StartsV \ {i} : v[j] \notin DataFields
        BY <1>12, <1>15, <4>1
      <4>. QED
        BY <1>14, <4>2, <4>3, <4>4
    <3>3. ASSUME OnlyField(v, q, n + 1, f) PROVE OnlyField(w, q, e, f)
      <4>1. PICK i \in StartsV :
                v[i] = f /\ v[i + 1] = "LF" /\ \A j \in StartsV \ {i} : v[j] \notin DataFields
        BY <1>14, <3>3
      <4>2. i \in StartsW /\ w[i] = f /\ w[i + 1] = "LF"
        BY <1>12, <1>15, <1>16, <4>1
      <4>3. \A j \in StartsW \ {i} : w[j] \notin DataFields
        BY <1>12, <1>15, <3>1, <4>1
      <4>. QED
        BY <1>14, <4>2, <4>3
    <3>. QED
      BY <3>2, <3>3
  <2>2. EventBytes(data) <= n + m + 1 - q
    <3>1. EventBytes(data) \in Nat
      BY <1>18, EventBytesFacts
    <3>. QED
      BY <1>3, <1>18, <3>1
  <2>. QED
    <3>1. EventBytes(data) <= Len(w) - LastBlank(w)
      BY <1>3, <1>11, <1>19, <2>2
    <3>. QED
      BY <1>11, <1>17, <1>18, <1>19, <1>20, <2>1, <3>1 DEF Reads
<1>21. ASSUME Head(line) \in DataFields
       PROVE  Reads(w, Append(data, line))
  <2>1. ASSUME NEW f \in DataFields
        PROVE  OnlyField(w, q, e, f) <=> ~HasData(v, q, n + 1) /\ line = <<f>>
    <3>1. w[n + 1] = f /\ w[n + 2] = "LF" <=> line = <<f>>
      <4>1. ASSUME w[n + 1] = f, w[n + 2] = "LF" PROVE line = <<f>>
        <5>1. n + 2 \notin n + 1 .. n + m
          BY <1>1, <1>9, <4>1
        <5>2. m = 1 /\ line[1] = f
          BY <1>3, <1>4, <4>1, <5>1
        <5>. QED
          BY <5>2 DEF m
      <4>2. ASSUME line = <<f>> PROVE w[n + 1] = f /\ w[n + 2] = "LF"
        <5>1. m = 1 /\ line[1] = f /\ 1 \in 1 .. m
          BY <4>2 DEF m
        <5>2. n + m + 1 = n + 2
          BY <1>3, <5>1
        <5>. QED
          BY <1>4, <5>1, <5>2
      <4>. QED
        BY <4>1, <4>2
    <3>2. \A i \in StartsV : i # n + 1
      BY <1>12
    <3>3. ASSUME OnlyField(w, q, e, f) PROVE ~HasData(v, q, n + 1) /\ line = <<f>>
      <4>1. PICK i \in StartsW :
                w[i] = f /\ w[i + 1] = "LF" /\ \A j \in StartsW \ {i} : w[j] \notin DataFields
        BY <1>14, <3>3
      <4>2. i = n + 1
        BY <1>8, <1>12, <1>21, <4>1
      <4>3. \A j \in StartsV : v[j] \notin DataFields
        BY <1>12, <1>15, <4>1, <4>2
      <4>4. n + 1 + 1 = n + 2
        BY <1>3
      <4>. QED
        BY <1>13, <3>1, <4>1, <4>2, <4>3, <4>4
    <3>4. ASSUME ~HasData(v, q, n + 1), line = <<f>> PROVE OnlyField(w, q, e, f)
      <4>1. \A j \in StartsV : w[j] \notin DataFields
        BY <1>13, <1>15, <3>4
      <4>2. n + 1 \in StartsW /\ \A j \in StartsW \ {n + 1} : w[j] \notin DataFields
        BY <1>12, <4>1
      <4>3. n + 1 + 1 = n + 2
        BY <1>3
      <4>4. \E i \in StartsW : w[i] = f /\ w[i + 1] = "LF" /\ \A j \in StartsW \ {i} : w[j] \notin DataFields
        BY <3>1, <3>4, <4>2, <4>3
      <4>. QED
        BY <1>14, <4>4
    <3>. QED
      BY <3>3, <3>4
  <2>. DEFINE more == Append(data, line)
  <2>2. more \in Seq(Seq(Contents)) /\ more # <<>> /\ Len(more) = Len(data) + 1 /\ more[Len(data) + 1] = line
    BY <1>18, AppendProperties
  <2>3. ASSUME NEW f \in DataFields
        PROVE  more = <<<<f>>>> <=> data = <<>> /\ line = <<f>>
    <3>1. ASSUME more = <<<<f>>>> PROVE data = <<>> /\ line = <<f>>
      <4>1. Len(data) + 1 = 1 /\ Len(data) \in Nat
        BY <1>18, <2>2, <3>1, LenProperties
      <4>2. data = <<>>
        BY <1>18, <4>1, EmptySeq
      <4>3. line = more[1]
        BY <2>2, <4>1
      <4>. QED
        BY <3>1, <4>2, <4>3
    <3>2. ASSUME data = <<>>, line = <<f>> PROVE more = <<<<f>>>>
      BY <3>2
    <3>. QED
      BY <3>1, <3>2
  <2>4. EventBytes(more) <= n + m + 1 - q
    <3>1. EventBytes(data) \in Nat /\ EventBytes(more) = EventBytes(data) + m + 1
      BY <1>18, EventBytesFacts DEF m
    <3>. QED
      BY <1>3, <1>18, <3>1
  <2>. HIDE DEF more
  <2>5. \A f \in DataFields : more = <<<<f>>>> <=> OnlyField(w, q, e, f)
    BY <1>18, <2>1, <2>3
  <2>6. Reads(w, more)
    <3>1. EventBytes(more) <= Len(w) - LastBlank(w)
      BY <1>3, <1>11, <1>19, <2>4
    <3>. QED
      BY <1>11, <1>17, <1>19, <1>21, <2>2, <2>5, <3>1 DEF Reads
  <2>. QED
    BY <2>6 DEF more
<1>22. Ended(w)
  BY <1>4, <1>19 DEF Ended
<1>. QED
  BY <1>4, <1>11, <1>20, <1>21, <1>22 DEF q

-----------------------------------------------------------------------------
\* Lines.

\* How a line ends; a line and where the next one begins.
LineEnds == {<<"CR">>, <<"LF">>, <<"CR", "LF">>}
LineRecords == [line : Seq(Contents), next : Nat]

\* A text that ends in a CR.
EndsInCr(s) == s # <<>> /\ s[Len(s)] = "CR"

\* A sequence with one element.
LEMMA OneInSequence ==
    ASSUME NEW A, NEW s \in Seq(A), Len(s) = 1
    PROVE  s = <<s[1]>>
<1>1. s[1] \in A
  BY ElementOfSeq
<1>2. <<s[1]>> \in Seq(A) /\ Len(<<s[1]>>) = 1 /\ \A i \in 1 .. 1 : s[i] = <<s[1]>>[i]
  BY <1>1
<1>. QED
  BY <1>2, SeqEqual

\* A sequence with two.
LEMMA TwoInSequence ==
    ASSUME NEW A, NEW s \in Seq(A), Len(s) = 2
    PROVE  s = <<s[1], s[2]>>
<1>1. s[1] \in A /\ s[2] \in A
  BY ElementOfSeq
<1>2. /\ <<s[1], s[2]>> \in Seq(A) /\ Len(<<s[1], s[2]>>) = 2
      /\ \A i \in 1 .. 2 : s[i] = <<s[1], s[2]>>[i]
  BY <1>1
<1>. QED
  BY <1>2, SeqEqual

\* What is read of b from p on is l, which ends like this.
Delimits(b, p, l, brk) ==
    /\ SubSeq(b, p, l.next - 1) = l.line \o brk
    /\ l.line = <<>> /\ brk = <<"LF">> => b[p] = "LF"
    /\ brk = <<"CR">> /\ l.next <= Len(b) => b[l.next] # "LF"

\* The next line of a buffer is what is in front of its first break; the break, all of
\* a CRLF, is behind it.
LEMMA NextLineFacts ==
    ASSUME NEW b \in Seq(Bytes), NEW p \in 1 .. Len(b) + 1, LineBreaks(b, p) # {},
           NEW l, l = NextLine(b, p)
    PROVE  /\ l \in LineRecords /\ l.next \in p + 1 .. Len(b) + 1
           /\ \E brk \in LineEnds : Delimits(b, p, l, brk)
<1>. DEFINE
    n == Len(b)
    i == Min(LineBreaks(b, p))
<1>1. n \in Nat /\ p \in Nat /\ p >= 1 /\ p <= n + 1 /\ \A k \in 1 .. n : b[k] \in Bytes
  BY LenProperties, ElementOfSeq
<1>2. i \in LineBreaks(b, p) /\ \A k \in LineBreaks(b, p) : i <= k
  <2>1. LineBreaks(b, p) \in SUBSET Nat
    BY <1>1 DEF LineBreaks
  <2>. QED
    BY <2>1, MinFacts
<1>. HIDE DEF i
<1>3. i \in Nat /\ p <= i /\ i <= n /\ b[i] \in Breaks
  BY <1>1, <1>2 DEF LineBreaks
<1>4. \A k \in p .. i - 1 : b[k] \in Contents
  <2>1. ASSUME NEW k \in p .. i - 1 PROVE b[k] \in Contents
    <3>1. k \in p .. n /\ k \in 1 .. n /\ ~(i <= k)
      BY <1>1, <1>3
    <3>2. b[k] \notin Breaks
      BY <1>2, <3>1 DEF LineBreaks
    <3>. QED
      BY <1>1, <3>1, <3>2 DEF Bytes, Contents, Breaks
  <2>. QED
    BY <2>1
<1>5. /\ SubSeq(b, p, i - 1) \in Seq(Contents)
      /\ Len(SubSeq(b, p, i - 1)) = IF p <= i - 1 THEN (i - 1) - p + 1 ELSE 0
  BY <1>1, <1>3, <1>4, SubSeqProperties
<1>. DEFINE whole == b[i] = "CR" /\ i < n /\ b[i + 1] = "LF"
<1>6. l = [line |-> SubSeq(b, p, i - 1), next |-> IF whole THEN i + 2 ELSE i + 1]
  BY DEF NextLine, i
<1>7. l.line = SubSeq(b, p, i - 1) /\ l.next = IF whole THEN i + 2 ELSE i + 1
  <2>. DEFINE next == IF whole THEN i + 2 ELSE i + 1
  <2>. HIDE DEF whole, next
  <2>1. l = [line |-> SubSeq(b, p, i - 1), next |-> next]
    BY <1>6 DEF next
  <2>. DEFINE text == SubSeq(b, p, i - 1)
  <2>. HIDE DEF text
  <2>2. l = [line |-> text, next |-> next]
    BY <2>1 DEF text
  <2>3. l.line = text /\ l.next = next
    BY ONLY <2>2
  <2>. QED
    BY <2>3 DEF next, text
<1>8. l.next \in p + 1 .. n + 1
  BY <1>1, <1>3, <1>7
<1>9. l \in LineRecords
  BY <1>1, <1>5, <1>6, <1>7, <1>8 DEF LineRecords
<1>10. l.line = <<>> => i = p
  BY <1>1, <1>3, <1>5, <1>7
<1>. DEFINE brk == SubSeq(b, i, l.next - 1)
<1>11. SubSeq(b, p, l.next - 1) = l.line \o brk
  <2>1. /\ p \in 1 .. Len(b) + 1 /\ i - 1 \in p - 1 .. Len(b) /\ l.next - 1 \in i - 1 .. Len(b)
        /\ (i - 1) + 1 = i
    BY <1>1, <1>3, <1>8, <1>7
  <2>2. SubSeq(b, p, i - 1) \o SubSeq(b, (i - 1) + 1, l.next - 1) = SubSeq(b, p, l.next - 1)
    BY <2>1, ConcatAdjacentSubSeq
  <2>. QED
    BY <1>7, <2>1, <2>2
<1>12. b[i] = "CR" \/ b[i] = "LF"
  BY <1>3 DEF Breaks
<1>13. /\ whole => brk = <<"CR", "LF">>
       /\ ~whole => brk = <<b[i]>>
  <2>1. ASSUME whole PROVE brk = <<"CR", "LF">>
    <3>1. /\ l.next - 1 = i + 1 /\ i \in Int /\ i + 1 \in Int /\ \A k \in i .. i + 1 : b[k] \in Bytes
      BY <1>1, <1>3, <1>7, <2>1
    <3>2. /\ brk \in Seq(Bytes) /\ Len(brk) = 2
          /\ \A k \in 1 .. 2 : brk[k] = b[i + k - 1]
      <4>1. /\ SubSeq(b, i, i + 1) \in Seq(Bytes)
            /\ Len(SubSeq(b, i, i + 1)) = IF i <= i + 1 THEN (i + 1) - i + 1 ELSE 0
            /\ \A k \in 1 .. (i + 1) - i + 1 : SubSeq(b, i, i + 1)[k] = b[i + k - 1]
        BY ONLY <3>1, SubSeqProperties
      <4>2. (IF i <= i + 1 THEN (i + 1) - i + 1 ELSE 0) = 2 /\ (i + 1) - i + 1 = 2
        BY <1>3
      <4>. QED
        BY <3>1, <4>1, <4>2
    <3>3. brk[1] = b[i] /\ brk[2] = b[i + 1]
      <4>1. i + 1 - 1 = i /\ i + 2 - 1 = i + 1
        BY <1>3
      <4>. QED
        BY <3>2, <4>1
    <3>. HIDE DEF brk
    <3>. QED
      BY <2>1, <3>2, <3>3, TwoInSequence
  <2>2. ASSUME ~whole PROVE brk = <<b[i]>>
    <3>1. /\ l.next - 1 = i /\ i \in Int /\ \A k \in i .. i : b[k] \in Bytes
      BY <1>1, <1>3, <1>7, <2>2
    <3>2. SubSeq(b, i, i) \in Seq(Bytes) /\ Len(SubSeq(b, i, i)) = 1 /\ SubSeq(b, i, i)[1] = b[i]
      <4>1. /\ SubSeq(b, i, i) \in Seq(Bytes)
            /\ Len(SubSeq(b, i, i)) = IF i <= i THEN i - i + 1 ELSE 0
            /\ \A k \in 1 .. i - i + 1 : SubSeq(b, i, i)[k] = b[i + k - 1]
        BY ONLY <3>1, SubSeqProperties
      <4>2. i <= i /\ i - i + 1 = 1 /\ i + 1 - 1 = i
        BY <1>3
      <4>3. SubSeq(b, i, i)[1] = b[i + 1 - 1]
        BY <4>1, <4>2
      <4>. QED
        BY <4>1, <4>2, <4>3
    <3>3. brk = SubSeq(b, i, i)
      BY <3>1
    <3>. HIDE DEF brk
    <3>. QED
      BY <3>2, <3>3, OneInSequence
  <2>. QED
    BY <2>1, <2>2
<1>. HIDE DEF brk
<1>14. brk \in LineEnds
  BY <1>12, <1>13 DEF LineEnds
<1>15. l.line = <<>> /\ brk = <<"LF">> => b[p] = "LF"
  <2>1. ASSUME l.line = <<>>, brk = <<"LF">> PROVE b[p] = "LF"
    <3>1. <<"LF">> # <<"CR", "LF">> /\ brk[1] = "LF"
      BY <2>1
    <3>2. <<b[i]>>[1] = b[i]
      OBVIOUS
    <3>. QED
      BY <1>10, <1>13, <2>1, <3>1, <3>2
  <2>. QED
    BY <2>1
<1>16. brk = <<"CR">> /\ l.next <= n => b[l.next] # "LF"
  <2>1. ASSUME brk = <<"CR">>, l.next <= n PROVE b[l.next] # "LF"
    <3>1. <<"CR">> # <<"CR", "LF">> /\ brk[1] = "CR"
      BY <2>1
    <3>2. <<b[i]>>[1] = b[i]
      OBVIOUS
    <3>3. ~whole /\ b[i] = "CR"
      BY <1>13, <2>1, <3>1, <3>2
    <3>. QED
      BY <1>3, <1>7, <2>1, <3>3
  <2>. QED
    BY <2>1
<1>17. Delimits(b, p, l, brk)
  BY <1>11, <1>15, <1>16 DEF Delimits
<1>. QED
  BY <1>8, <1>9, <1>14, <1>17

\* Where the line behind the first n of these begins; the lines of b from start on.
At(lines, start, n) == IF n = 0 THEN start ELSE lines[n].next

Chain(b, start, lines) ==
    /\ lines \in Seq(LineRecords)
    /\ \A n \in 0 .. Len(lines) : At(lines, start, n) \in start .. Len(b) + 1
    /\ \A n \in 0 .. Len(lines) :
           n < Len(lines) => /\ LineBreaks(b, At(lines, start, n)) # {}
                             /\ lines[n + 1] = NextLine(b, At(lines, start, n))
    /\ LineBreaks(b, At(lines, start, Len(lines))) = {}

\* One line more in front.
LEMMA ChainLonger ==
    ASSUME NEW b \in Seq(Bytes), NEW s \in 1 .. Len(b) + 1, LineBreaks(b, s) # {},
           NEW l, l = NextLine(b, s), NEW rest, Chain(b, l.next, rest)
    PROVE  Chain(b, s, <<l>> \o rest)
<1>. DEFINE
    all == <<l>> \o rest
    N == Len(rest)
<1>1. l \in LineRecords /\ l.next \in s + 1 .. Len(b) + 1
  BY NextLineFacts
<1>2. <<l>> \in Seq(LineRecords) /\ Len(<<l>>) = 1 /\ <<l>>[1] = l
  BY <1>1
<1>3. rest \in Seq(LineRecords) /\ N \in Nat /\ Len(b) \in Nat /\ s \in Nat /\ l.next \in Nat
  BY <1>1, LenProperties DEF Chain
<1>4. /\ all \in Seq(LineRecords) /\ Len(all) = 1 + N
      /\ \A i \in 1 .. 1 + N : all[i] = IF i <= 1 THEN <<l>>[i] ELSE rest[i - 1]
  BY <1>2, <1>3, ConcatProperties
<1>5. all[1] = l /\ \A n \in 1 .. N : all[n + 1] = rest[n]
  <2>1. 1 \in 1 .. 1 + N
    BY <1>3
  <2>2. \A n \in 1 .. N : n + 1 \in 1 .. 1 + N /\ ~(n + 1 <= 1) /\ (n + 1) - 1 = n
    BY <1>3
  <2>. QED
    BY <1>2, <1>4, <2>1, <2>2
<1>. HIDE DEF all, N
<1>6. \A n \in 0 .. N : At(all, s, n + 1) = At(rest, l.next, n)
  <2>1. \A n \in 0 .. N : n + 1 # 0 /\ (n # 0 => n \in 1 .. N) /\ (n = 0 => n + 1 = 1)
    BY <1>3
  <2>. QED
    BY <1>5, <2>1 DEF At
<1>7. At(all, s, 0) = s
  BY DEF At
<1>8. \A n \in 0 .. N + 1 : n = 0 \/ (n - 1 \in 0 .. N /\ (n - 1) + 1 = n)
  BY <1>3
<1>9. /\ \A n \in 0 .. N : At(rest, l.next, n) \in l.next .. Len(b) + 1
      /\ \A n \in 0 .. N :
             n < N => LineBreaks(b, At(rest, l.next, n)) # {} /\ rest[n + 1] = NextLine(b, At(rest, l.next, n))
      /\ LineBreaks(b, At(rest, l.next, N)) = {}
  BY DEF Chain, N
<1>10. ASSUME NEW n \in 0 .. N + 1
       PROVE  At(all, s, n) \in s .. Len(b) + 1
  <2>1. CASE n = 0
    BY <1>3, <1>7, <2>1
  <2>2. CASE n # 0
    <3>1. n - 1 \in 0 .. N /\ At(all, s, n) = At(rest, l.next, n - 1)
      BY <1>6, <1>8, <2>2
    <3>2. At(rest, l.next, n - 1) \in l.next .. Len(b) + 1
      BY <1>9, <3>1
    <3>. QED
      BY <1>1, <1>3, <3>1, <3>2
  <2>. QED
    BY <2>1, <2>2
<1>11. ASSUME NEW n \in 0 .. N + 1, n < N + 1
       PROVE  LineBreaks(b, At(all, s, n)) # {} /\ all[n + 1] = NextLine(b, At(all, s, n))
  <2>1. CASE n = 0
    BY <1>5, <1>7, <2>1
  <2>2. CASE n # 0
    <3>1. /\ n - 1 \in 0 .. N /\ n - 1 < N /\ n \in 1 .. N /\ (n - 1) + 1 = n
          /\ At(all, s, n) = At(rest, l.next, n - 1)
      BY <1>3, <1>6, <1>8, <1>11, <2>2
    <3>. QED
      BY <1>5, <1>9, <3>1
  <2>. QED
    BY <2>1, <2>2
<1>12. LineBreaks(b, At(all, s, N + 1)) = {}
  BY <1>3, <1>6, <1>9
<1>13. Len(all) = N + 1
  BY <1>3, <1>4 DEF N
<1>14. Chain(b, s, all)
  BY <1>4, <1>10, <1>11, <1>12, <1>13 DEF Chain
<1>. QED
  BY <1>14 DEF all

\* Lines reads a buffer line by line, up to where no break is left.
LEMMA LinesFacts ==
    ASSUME NEW b \in Seq(Bytes)
    PROVE  Chain(b, 1, Lines(b))
<1>. DEFINE
    N == Len(b)
    D == 1 .. N + 1
    T == Seq(LineRecords)
    S == [D -> T]
    Read(s, g) == IF LineBreaks(b, s) = {} THEN <<>>
                  ELSE <<NextLine(b, s)>> \o g[NextLine(b, s).next]
    Fix(f) == f = [s \in D |-> Read(s, f)]
    zero == [s \in D |-> <<>>]
    next == [g \in S |-> [s \in D |-> Read(s, g)]]
<1>1. N \in Nat /\ 1 \in D
  BY LenProperties
<1>2. ASSUME NEW s \in D, LineBreaks(b, s) # {}
      PROVE  /\ NextLine(b, s) \in LineRecords
             /\ NextLine(b, s).next \in D /\ NextLine(b, s).next > s
  <2>1. NextLine(b, s) \in LineRecords /\ NextLine(b, s).next \in s + 1 .. Len(b) + 1
    BY <1>2, NextLineFacts
  <2>. QED
    BY <1>1, <2>1
<1>3. LineBreaks(b, N + 1) = {}
  BY <1>1 DEF LineBreaks
<1>4. ASSUME NEW g \in S, NEW s \in D
      PROVE  Read(s, g) \in T
  <2>1. CASE LineBreaks(b, s) = {}
    BY <2>1, EmptySeq
  <2>2. CASE LineBreaks(b, s) # {}
    <3>1. <<NextLine(b, s)>> \in T /\ g[NextLine(b, s).next] \in T
      BY <1>2, <2>2
    <3>2. <<NextLine(b, s)>> \o g[NextLine(b, s).next] \in T
      BY <3>1, ConcatProperties
    <3>. QED
      BY <2>2, <3>2
  <2>. QED
    BY <2>1, <2>2
<1>. HIDE DEF Read
<1>5. next \in [S -> S]
  BY <1>4
<1>6. zero \in S
  BY EmptySeq
<1>. HIDE DEF zero, next, S
<1>7. PICK it : Iterates(it, S, zero, next)
  BY <1>5, <1>6, Iteration
<1>8. /\ it[0] = zero
      /\ \A k \in Nat : it[k] \in S /\ it[k + 1] = next[it[k]]
  BY <1>7 DEF Iterates
<1>9. \A k \in Nat, s \in D : it[k + 1][s] = Read(s, it[k])
  BY <1>8 DEF next
<1>10. ASSUME NEW s \in D, NEW g, NEW h,
              \A r \in D : r > s => g[r] = h[r]
       PROVE  Read(s, g) = Read(s, h)
  BY <1>2, <1>10 DEF Read
<1>. DEFINE Stable == {k \in Nat : \A s \in D : s >= N + 1 - k => it[k + 1][s] = it[k][s]}
<1>11. 0 \in Stable
  <2>1. ASSUME NEW s \in D, s >= N + 1 - 0
        PROVE  it[0 + 1][s] = it[0][s]
    <3>1. s = N + 1
      BY <1>1, <2>1
    <3>2. it[0 + 1][s] = <<>>
      BY <1>3, <1>9, <3>1 DEF Read
    <3>. QED
      BY <1>8, <3>2 DEF zero
  <2>. QED
    BY <2>1
<1>12. ASSUME NEW k \in Nat, k \in Stable
       PROVE  k + 1 \in Stable
  <2>1. ASSUME NEW s \in D, s >= N + 1 - (k + 1)
        PROVE  it[k + 1 + 1][s] = it[k + 1][s]
    <3>1. \A r \in D : r > s => it[k + 1][r] = it[k][r]
      BY <1>1, <1>12, <2>1
    <3>2. k + 1 \in Nat
      OBVIOUS
    <3>3. Read(s, it[k + 1]) = Read(s, it[k])
      BY <1>10, <3>1
    <3>. QED
      BY <1>9, <3>2, <3>3
  <2>. QED
    BY <2>1
<1>13. Fix(it[N])
  <2>1. N \in Stable
    <3>. HIDE DEF Stable
    <3>. QED
      BY <1>1, <1>11, <1>12, AllNaturals
  <2>2. \A s \in D : it[N][s] = Read(s, it[N])
    <3>1. \A s \in D : s >= N + 1 - N
      BY <1>1
    <3>. QED
      BY <1>1, <1>9, <2>1, <3>1
  <2>3. it[N] = [s \in D |-> it[N][s]]
    BY <1>1, <1>8 DEF S
  <2>. QED
    BY <2>2, <2>3
<1>. DEFINE from == CHOOSE f : Fix(f)
<1>14. Fix(from)
  <2>. HIDE DEF Fix
  <2>. QED
    BY <1>13
<1>15. Lines(b) = from[1]
  BY DEF Lines, Read
<1>. HIDE DEF from
<1>16. \A s \in D : from[s] = Read(s, from)
  BY <1>14
<1>. DEFINE Q == {k \in Nat : \A s \in D : s >= N + 1 - k => Chain(b, s, from[s])}
<1>17. ASSUME NEW s \in D, LineBreaks(b, s) = {}
       PROVE  Chain(b, s, from[s])
  <2>1. from[s] = <<>>
    BY <1>16, <1>17 DEF Read
  <2>2. <<>> \in Seq(LineRecords) /\ Len(<<>>) = 0
    BY EmptySeq
  <2>3. /\ \A n \in 0 .. 0 : At(<<>>, s, n) = s
        /\ s \in s .. Len(b) + 1
    BY <1>1 DEF At
  <2>. QED
    BY <1>17, <2>1, <2>2, <2>3 DEF Chain
<1>18. 0 \in Q
  <2>1. ASSUME NEW s \in D, s >= N + 1 - 0 PROVE Chain(b, s, from[s])
    <3>1. s = N + 1
      BY <1>1, <2>1
    <3>. QED
      BY <1>3, <1>17, <3>1
  <2>. QED
    BY <2>1
<1>19. ASSUME NEW k \in Nat, k \in Q
       PROVE  k + 1 \in Q
  <2>1. ASSUME NEW s \in D, s >= N + 1 - (k + 1) PROVE Chain(b, s, from[s])
    <3>1. CASE LineBreaks(b, s) = {}
      BY <1>17, <3>1
    <3>2. CASE LineBreaks(b, s) # {}
      <4>. DEFINE l == NextLine(b, s)
      <4>1. l.next \in D /\ l.next > s
        BY <1>2, <3>2
      <4>2. l.next >= N + 1 - k
        BY <1>1, <2>1, <4>1
      <4>3. Chain(b, l.next, from[l.next])
        BY <1>19, <4>1, <4>2
      <4>4. from[s] = <<l>> \o from[l.next]
        BY <1>16, <3>2 DEF Read
      <4>. HIDE DEF l
      <4>5. l = NextLine(b, s)
        BY DEF l
      <4>6. Chain(b, s, <<l>> \o from[l.next])
        BY <3>2, <4>3, <4>5, ChainLonger
      <4>. QED
        BY <4>4, <4>6
    <3>. QED
      BY <3>1, <3>2
  <2>. QED
    BY <2>1
<1>20. N \in Q
  <2>. HIDE DEF Q
  <2>. QED
    BY <1>1, <1>18, <1>19, AllNaturals
<1>. QED
  BY <1>1, <1>15, <1>20

-----------------------------------------------------------------------------
\* Events.

Events == [data : Seq(Seq(Contents)), closed : Seq(Seq(Seq(Contents)))]

\* What has been read of a text is what is in it: its [DONE], and its first event.
SameDone(e, u) == Done \in Range(e.closed) <=> DoneIn(u)
SameFirst(e, u) ==
    FirstIn(u) = IF e.closed = <<>> THEN "none"
                 ELSE IF Head(e.closed) = Valid THEN "valid" ELSE "other"

\* The elements of a sequence with one more.
LEMMA RangeLonger ==
    ASSUME NEW A, NEW s \in Seq(A), NEW x \in A
    PROVE  \A y : y \in Range(Append(s, x)) <=> y \in Range(s) \/ y = x
<1>. DEFINE
    n == Len(s)
    t == Append(s, x)
<1>1. /\ n \in Nat /\ DOMAIN s = 1 .. n /\ DOMAIN t = 1 .. n + 1
      /\ t[n + 1] = x /\ \A i \in 1 .. n : t[i] = s[i]
  <2>1. t \in Seq(A) /\ Len(t) = n + 1 /\ t[n + 1] = x /\ \A i \in 1 .. n : t[i] = s[i]
    BY LongerFacts
  <2>2. n \in Nat /\ DOMAIN s = 1 .. n
    BY LenProperties
  <2>. HIDE DEF t, n
  <2>3. DOMAIN t = 1 .. n + 1
    BY <2>1, LenProperties
  <2>. QED
    BY <2>1, <2>2, <2>3
<1>. HIDE DEF n, t
<1>2. \A i \in 1 .. n + 1 : i \in 1 .. n \/ i = n + 1
  BY <1>1
<1>3. \A i \in 1 .. n : i \in 1 .. n + 1
  BY <1>1
<1>4. n + 1 \in 1 .. n + 1
  BY <1>1
<1>5. \A y : y \in Range(t) <=> y \in Range(s) \/ y = x
  BY <1>1, <1>2, <1>3, <1>4 DEF Range
<1>. QED
  BY <1>5 DEF t

\* What a line does to an event leaves it one.
LEMMA TrackLineFacts ==
    ASSUME NEW e \in Events, NEW l \in LineRecords, NEW f, f = TrackLine(e, l)
    PROVE  /\ f \in Events
           /\ l.line = <<>> /\ e.data # <<>> =>
                 f.data = <<>> /\ f.closed = Append(e.closed, e.data)
           /\ l.line = <<>> /\ e.data = <<>> => f = e
           /\ l.line # <<>> =>
                 /\ f.closed = e.closed
                 /\ f.data = IF Head(l.line) \in DataFields THEN Append(e.data, l.line) ELSE e.data
<1>1. /\ e.data \in Seq(Seq(Contents)) /\ e.closed \in Seq(Seq(Seq(Contents)))
      /\ e = [data |-> e.data, closed |-> e.closed]
      /\ l.line \in Seq(Contents)
  BY DEF Events, LineRecords
<1>2. CASE l.line = <<>> /\ e.data # <<>>
  <2>1. f = [data |-> <<>>, closed |-> Append(e.closed, e.data)]
    BY <1>2 DEF TrackLine
  <2>2. <<>> \in Seq(Seq(Contents)) /\ Append(e.closed, e.data) \in Seq(Seq(Seq(Contents)))
    BY <1>1, AppendProperties, EmptySeq
  <2>. QED
    BY <1>2, <2>1, <2>2 DEF Events
<1>3. CASE l.line = <<>> /\ e.data = <<>>
  BY <1>3 DEF TrackLine
<1>4. CASE l.line # <<>> /\ Head(l.line) \in DataFields
  <2>1. f = [e EXCEPT !.data = Append(e.data, l.line)]
    BY <1>4 DEF TrackLine
  <2>2. Append(e.data, l.line) \in Seq(Seq(Contents))
    BY <1>1, AppendProperties
  <2>. DEFINE d == Append(e.data, l.line)
  <2>. HIDE DEF d
  <2>3. f = [e EXCEPT !.data = d] /\ d \in Seq(Seq(Contents))
    BY <2>1, <2>2 DEF d
  <2>4. f \in Events /\ f.data = d /\ f.closed = e.closed
    BY <2>3 DEF Events
  <2>. QED
    BY <1>4, <2>4 DEF d
<1>5. CASE l.line # <<>> /\ Head(l.line) \notin DataFields
  <2>1. f = e
    BY <1>5 DEF TrackLine
  <2>. QED
    BY <1>5, <2>1
<1>. QED
  BY <1>2, <1>3, <1>4, <1>5

\* The event after each line is what the line makes of the event before it.
LEMMA TrackedFacts ==
    ASSUME NEW e \in Events, NEW lines \in Seq(LineRecords)
    PROVE  /\ Tracked(e, lines)[0] = e
           /\ \A n \in 1 .. Len(lines) :
                 Tracked(e, lines)[n] = TrackLine(Tracked(e, lines)[n - 1], lines[n])
           /\ \A n \in 0 .. Len(lines) : Tracked(e, lines)[n] \in Events
<1>. DEFINE
    M == Len(lines)
    Fix(f) == f = [n \in 0 .. M |-> IF n = 0 THEN e ELSE TrackLine(f[n - 1], lines[n])]
    next == [p \in Nat \X Events |->
               IF p[1] + 1 \in 1 .. M THEN TrackLine(p[2], lines[p[1] + 1]) ELSE p[2]]
<1>1. M \in Nat /\ \A n \in 1 .. M : lines[n] \in LineRecords
  BY LenProperties, ElementOfSeq
<1>2. next \in [Nat \X Events -> Events]
  <2>1. \A d \in Events, l \in LineRecords : TrackLine(d, l) \in Events
    BY TrackLineFacts
  <2>. QED
    BY <1>1, <2>1
<1>. HIDE DEF next
<1>3. PICK g : IndexedIterates(g, Events, e, next)
  BY <1>2, IndexedIteration
<1>. DEFINE h == [n \in 0 .. M |-> g[n]]
<1>4. ASSUME NEW n \in 0 .. M
      PROVE  h[n] = IF n = 0 THEN e ELSE TrackLine(h[n - 1], lines[n])
  <2>1. CASE n = 0
    BY <1>3, <2>1 DEF IndexedIterates
  <2>2. CASE n # 0
    <3>1. n - 1 \in Nat /\ n - 1 \in 0 .. M /\ (n - 1) + 1 = n /\ n \in 1 .. M
      BY <1>1, <2>2
    <3>2. g[n] = next[<<n - 1, g[n - 1]>>] /\ g[n - 1] \in Events
      BY <1>3, <3>1 DEF IndexedIterates
    <3>3. g[n] = TrackLine(g[n - 1], lines[n])
      BY <3>1, <3>2 DEF next
    <3>. QED
      BY <2>2, <3>1, <3>3
  <2>. QED
    BY <2>1, <2>2
<1>5. Fix(h)
  BY <1>4
<1>. DEFINE c == CHOOSE f : Fix(f)
<1>. HIDE DEF h
<1>6. Fix(c)
  <2>. HIDE DEF Fix
  <2>. QED
    BY <1>5
<1>7. Tracked(e, lines) = c
  BY DEF Tracked
<1>. HIDE DEF c
<1>8. \A n \in 0 .. M : c[n] = IF n = 0 THEN e ELSE TrackLine(c[n - 1], lines[n])
  BY <1>6
<1>. DEFINE Q == {k \in Nat : k <= M => c[k] \in Events}
<1>9. 0 \in Q
  BY <1>1, <1>8
<1>10. ASSUME NEW k \in Nat, k \in Q
       PROVE  k + 1 \in Q
  <2>. SUFFICES ASSUME k + 1 <= M PROVE c[k + 1] \in Events
    OBVIOUS
  <2>1. k + 1 \in 0 .. M /\ k + 1 # 0 /\ (k + 1) - 1 = k /\ k + 1 \in 1 .. M /\ c[k] \in Events
    BY <1>1, <1>10
  <2>2. c[k + 1] = TrackLine(c[k], lines[k + 1])
    BY <1>8, <2>1
  <2>. QED
    BY <1>1, <2>1, <2>2, TrackLineFacts
<1>11. \A n \in 0 .. M : c[n] \in Events
  <2>1. \A k \in Nat : k \in Q
    <3>. HIDE DEF Q
    <3>. QED
      BY <1>9, <1>10, AllNaturals
  <2>2. \A n \in 0 .. M : n \in Nat /\ n <= M
    BY <1>1
  <2>. QED
    BY <2>1, <2>2
<1>12. \A n \in 1 .. M : n \in 0 .. M /\ n # 0
  BY <1>1
<1>13. 0 \in 0 .. M
  BY <1>1
<1>. QED
  BY <1>7, <1>8, <1>11, <1>12, <1>13

\* f is of the text w what e is of v.
Follows(v, e, w, f) ==
    /\ w \in Seq(Uniforms) /\ Ended(w)
    /\ f \in Events /\ Reads(w, f.data)
    /\ SameDone(e, v) => SameDone(f, w)
    /\ SameFirst(e, v) => SameFirst(f, w)

\* A line read of a text, and the event it makes.
LEMMA LineRead ==
    ASSUME NEW v \in Seq(Uniforms), Ended(v), NEW e \in Events, Reads(v, e.data),
           NEW l \in LineRecords
    PROVE  Follows(v, e, Append(v \o l.line, "LF"), TrackLine(e, l))
<1>. DEFINE
    w == Append(v \o l.line, "LF")
    f == TrackLine(e, l)
<1>. SUFFICES Follows(v, e, w, f)
  OBVIOUS
<1>0. w = Append(v \o l.line, "LF") /\ f = TrackLine(e, l)
  OBVIOUS
<1>. HIDE DEF w, f
<1>1. /\ e.data \in Seq(Seq(Contents)) /\ e.closed \in Seq(Seq(Seq(Contents)))
      /\ l.line \in Seq(Contents)
  BY DEF Events, LineRecords
<1>2. CASE l.line = <<>>
  <2>1. w = Append(v, "LF")
    BY <1>0, <1>2, ConcatEmptySeq
  <2>2. /\ w \in Seq(Uniforms) /\ Ended(w) /\ Reads(w, <<>>)
        /\ DoneIn(w) <=> DoneIn(v) \/ e.data = Done
        /\ FirstIn(w) = IF FirstIn(v) # "none" THEN FirstIn(v)
                        ELSE IF e.data = <<>> THEN "none"
                        ELSE IF e.data = Valid THEN "valid" ELSE "other"
    BY <2>1, BlankLine
  <2>3. CASE e.data = <<>>
    <3>1. f = e
      BY <1>0, <1>2, <2>3, TrackLineFacts
    <3>2. <<>> # Done
      BY DEF Done
    <3>. QED
      BY <2>2, <2>3, <3>1, <3>2 DEF SameDone, SameFirst, Follows
  <2>4. CASE e.data # <<>>
    <3>1. f \in Events /\ f.data = <<>> /\ f.closed = Append(e.closed, e.data)
      BY <1>0, <1>2, <2>4, TrackLineFacts
    <3>2. \A y : y \in Range(f.closed) <=> y \in Range(e.closed) \/ y = e.data
      BY <1>1, <3>1, RangeLonger
    <3>3. /\ f.closed # <<>>
          /\ Head(f.closed) = IF e.closed = <<>> THEN e.data ELSE Head(e.closed)
      <4>. DEFINE
          A == Seq(Seq(Contents))
          c == e.closed
          x == e.data
      <4>1. c \in Seq(A) /\ x \in A
        BY <1>1
      <4>. HIDE DEF A, c, x
      <4>2. Head(Append(c, x)) = IF c = <<>> THEN x ELSE Head(c)
        BY <4>1, HeadTailAppend
      <4>3. Append(c, x) # <<>>
        BY <4>1, AppendProperties
      <4>. QED
        BY <3>1, <4>2, <4>3 DEF c, x
    <3>4. SameDone(e, v) => SameDone(f, w)
      BY <2>2, <3>2 DEF SameDone
    <3>5. SameFirst(e, v) => SameFirst(f, w)
      BY <2>2, <2>4, <3>3 DEF SameFirst
    <3>. QED
      BY <2>2, <3>1, <3>4, <3>5 DEF Follows
  <2>. QED
    BY <2>3, <2>4
<1>3. CASE l.line # <<>>
  <2>1. /\ w \in Seq(Uniforms) /\ Ended(w)
        /\ Reads(w, IF Head(l.line) \in DataFields THEN Append(e.data, l.line) ELSE e.data)
        /\ DoneIn(w) <=> DoneIn(v)
        /\ FirstIn(w) = FirstIn(v)
    <3>. DEFINE
        data == e.data
        line == l.line
    <3>1. Reads(v, data) /\ line \in Seq(Contents) /\ line # <<>> /\ w = Append(v \o line, "LF")
      BY <1>0, <1>1, <1>3
    <3>. HIDE DEF data, line
    <3>2. /\ w \in Seq(Uniforms) /\ Ended(w)
          /\ Reads(w, IF Head(line) \in DataFields THEN Append(data, line) ELSE data)
          /\ DoneIn(w) <=> DoneIn(v)
          /\ FirstIn(w) = FirstIn(v)
      BY ONLY <3>1, v \in Seq(Uniforms), Ended(v), TextLine
    <3>. QED
      BY <3>2 DEF data, line
  <2>2. /\ f \in Events /\ f.closed = e.closed
        /\ f.data = IF Head(l.line) \in DataFields THEN Append(e.data, l.line) ELSE e.data
    BY <1>0, <1>3, TrackLineFacts
  <2>. QED
    BY <2>1, <2>2 DEF SameDone, SameFirst, Follows
<1>. QED
  BY <1>2, <1>3

\* A line with its end adds that line to the uniform text, with one LF.
LEMMA UniformWholeLine ==
    ASSUME NEW x \in Seq(Bytes), NEW line \in Seq(Contents), NEW brk \in LineEnds,
           EndsInCr(x) /\ line = <<>> => brk # <<"LF">>
    PROVE  /\ x \o (line \o brk) \in Seq(Bytes)
           /\ Uniform(x \o (line \o brk)) = Append(Uniform(x) \o line, "LF")
           /\ EndsInCr(x \o (line \o brk)) => brk = <<"CR">>
<1>. DEFINE
    y == x \o line
    m == Len(line)
    n == Len(x)
<1>1. Contents \subseteq Bytes /\ Contents \cap Breaks = {} /\ "CR" \in Bytes /\ "LF" \in Bytes
  BY DEF Contents, Bytes, Breaks, DataFields
<1>2. line \in Seq(Bytes) /\ y \in Seq(Bytes)
  BY <1>1, SeqMonotonic, ConcatProperties
<1>3. brk \in Seq(Bytes) /\ x \o (line \o brk) = y \o brk
  <2>1. <<"CR">> \in Seq(Bytes) /\ <<"LF">> \in Seq(Bytes) /\ <<"CR", "LF">> \in Seq(Bytes)
    BY <1>1
  <2>2. brk \in Seq(Bytes)
    BY <2>1 DEF LineEnds
  <2>. QED
    BY <1>2, <2>2, ConcatAssociative
<1>4. Uniform(y) = Uniform(x) \o line
  BY UniformLine
<1>5. EndsInCr(y) => EndsInCr(x) /\ line = <<>>
  <2>1. ASSUME line = <<>> PROVE y = x
    BY <2>1, ConcatEmptySeq
  <2>2. ASSUME line # <<>> PROVE ~EndsInCr(y)
    <3>1. m \in Nat \ {0} /\ n \in Nat /\ line[m] \in Contents
      BY <2>2, EmptySeq, LenProperties, ElementOfSeq
    <3>2. Len(y) = n + m /\ \A i \in 1 .. n + m : y[i] = IF i <= n THEN x[i] ELSE line[i - n]
      BY <1>2, ConcatProperties
    <3>3. n + m \in 1 .. n + m /\ ~(n + m <= n) /\ (n + m) - n = m
      BY <3>1
    <3>4. y[Len(y)] = line[m]
      BY <3>2, <3>3
    <3>. QED
      BY <1>1, <3>1, <3>4 DEF EndsInCr, Breaks
  <2>. QED
    BY <2>1, <2>2
<1>. HIDE DEF y
<1>6. \A c \in {"CR", "LF"} : /\ Append(y, c) \in Seq(Bytes) /\ y \o <<c>> = Append(y, c)
                              /\ Append(y, c) # <<>>
                              /\ Append(y, c)[Len(Append(y, c))] = c
  <2>1. ASSUME NEW c \in {"CR", "LF"}
        PROVE  /\ Append(y, c) \in Seq(Bytes) /\ y \o <<c>> = Append(y, c)
               /\ Append(y, c) # <<>>
               /\ Append(y, c)[Len(Append(y, c))] = c
    <3>1. c \in Bytes
      BY <1>1
    <3>. QED
      BY <1>2, <3>1, LongerFacts
  <2>. QED
    BY <2>1
<1>7. Uniform(Append(y, "CR")) = Append(Uniform(y), "LF")
  BY <1>1, <1>2, UniformLonger DEF Breaks
<1>8. CASE brk = <<"CR">>
  BY <1>3, <1>4, <1>6, <1>7, <1>8
<1>9. CASE brk = <<"LF">>
  <2>1. ~EndsInCr(y)
    BY <1>5, <1>9
  <2>2. Uniform(Append(y, "LF")) = Append(Uniform(y), "LF")
    BY <1>1, <1>2, <2>1, UniformLonger DEF Breaks, EndsInCr
  <2>3. ~EndsInCr(Append(y, "LF"))
    BY <1>6 DEF EndsInCr
  <2>. QED
    BY <1>3, <1>4, <1>6, <1>9, <2>2, <2>3
<1>10. CASE brk = <<"CR", "LF">>
  <2>. DEFINE z == Append(y, "CR")
  <2>1. z \in Seq(Bytes) /\ z # <<>> /\ z[Len(z)] = "CR"
    BY <1>6
  <2>2. y \o brk = Append(z, "LF")
    <3>1. brk = Append(<<"CR">>, "LF") /\ <<"CR">> \in Seq(Bytes)
      BY <1>1, <1>10
    <3>2. y \o Append(<<"CR">>, "LF") = Append(y \o <<"CR">>, "LF")
      BY <1>1, <1>2, <3>1, ConcatAppend
    <3>. QED
      BY <1>6, <3>1, <3>2
  <2>. HIDE DEF z
  <2>3. Uniform(Append(z, "LF")) = Uniform(z)
    BY <1>1, <2>1, UniformLonger
  <2>4. Append(z, "LF") \in Seq(Bytes) /\ ~EndsInCr(Append(z, "LF"))
    <3>1. /\ Append(z, "LF") \in Seq(Bytes) /\ Len(Append(z, "LF")) = Len(z) + 1
          /\ Append(z, "LF")[Len(z) + 1] = "LF"
      BY <1>1, <2>1, LongerFacts
    <3>. QED
      BY <3>1 DEF EndsInCr
  <2>. QED
    BY <1>3, <1>4, <1>7, <2>2, <2>3, <2>4 DEF z
<1>. QED
  BY <1>8, <1>9, <1>10 DEF LineEnds

\* What is known once the lines of a buffer b are read up to p, behind a text x: the
\* event f is what is open in the text, and says what is in it if e does of x.
ReadTo(x, b, p, e, f) ==
    LET text == x \o SubSeq(b, 1, p - 1) IN
    /\ Ended(Uniform(text))
    /\ f \in Events
    /\ Reads(Uniform(text), f.data)
    /\ SameDone(e, Uniform(x)) => SameDone(f, Uniform(text))
    /\ SameFirst(e, Uniform(x)) => SameFirst(f, Uniform(text))
    /\ EndsInCr(text) /\ p <= Len(b) => b[p] # "LF"

\* One line more.
LEMMA ReadOneMore ==
    ASSUME NEW x \in Seq(Bytes), NEW b \in Seq(Bytes), NEW p \in 1 .. Len(b) + 1,
           NEW e, NEW f, ReadTo(x, b, p, e, f), LineBreaks(b, p) # {},
           NEW l, l = NextLine(b, p), NEW g, g = TrackLine(f, l)
    PROVE  ReadTo(x, b, l.next, e, g)
<1>. DEFINE
    n == Len(b)
    t == x \o SubSeq(b, 1, p - 1)
    u == x \o SubSeq(b, 1, l.next - 1)
<1>1. l \in LineRecords /\ l.next \in p + 1 .. n + 1
  BY NextLineFacts
<1>2. PICK brk \in LineEnds :
          /\ SubSeq(b, p, l.next - 1) = l.line \o brk
          /\ l.line = <<>> /\ brk = <<"LF">> => b[p] = "LF"
          /\ brk = <<"CR">> /\ l.next <= Len(b) => b[l.next] # "LF"
  <2>1. PICK brk \in LineEnds : Delimits(b, p, l, brk)
    BY NextLineFacts
  <2>. QED
    BY <2>1 DEF Delimits
<1>3. /\ n \in Nat /\ p \in Nat /\ p >= 1 /\ l.next \in Nat /\ l.line \in Seq(Contents)
      /\ \A i \in 1 .. n : b[i] \in Bytes
  BY <1>1, LenProperties, ElementOfSeq DEF LineRecords
<1>4. p <= n
  <2>1. PICK i : i \in LineBreaks(b, p)
    OBVIOUS
  <2>. QED
    BY <1>3, <2>1 DEF LineBreaks
<1>5. /\ SubSeq(b, 1, p - 1) \in Seq(Bytes) /\ SubSeq(b, p, l.next - 1) \in Seq(Bytes)
      /\ t \in Seq(Bytes)
  <2>1. SubSeq(b, 1, p - 1) \in Seq(Bytes)
    BY <1>3, <1>4, SubSeqProperties
  <2>2. SubSeq(b, p, l.next - 1) \in Seq(Bytes)
    BY <1>1, <1>3, SubSeqProperties
  <2>. QED
    BY <2>1, <2>2, ConcatProperties
<1>6. u = t \o (l.line \o brk)
  <2>1. /\ 1 \in 1 .. Len(b) + 1 /\ p - 1 \in 1 - 1 .. Len(b) /\ l.next - 1 \in p - 1 .. Len(b)
        /\ (p - 1) + 1 = p
    BY <1>1, <1>3, <1>4
  <2>2. SubSeq(b, 1, p - 1) \o SubSeq(b, (p - 1) + 1, l.next - 1) = SubSeq(b, 1, l.next - 1)
    BY <2>1, ConcatAdjacentSubSeq
  <2>. DEFINE
      front == SubSeq(b, 1, p - 1)
      back == SubSeq(b, p, l.next - 1)
  <2>3. front \o back = SubSeq(b, 1, l.next - 1) /\ back = l.line \o brk
    BY <1>2, <2>1, <2>2
  <2>4. front \in Seq(Bytes) /\ back \in Seq(Bytes)
    BY <1>5
  <2>. HIDE DEF front, back
  <2>5. x \o (front \o back) = (x \o front) \o back
    BY <2>4, ConcatAssociative
  <2>. QED
    BY <2>3, <2>5 DEF front
<1>7. /\ Ended(Uniform(t)) /\ f \in Events /\ Reads(Uniform(t), f.data)
      /\ SameDone(e, Uniform(x)) => SameDone(f, Uniform(t))
      /\ SameFirst(e, Uniform(x)) => SameFirst(f, Uniform(t))
      /\ EndsInCr(t) => b[p] # "LF"
  BY <1>4 DEF ReadTo
<1>. HIDE DEF t, u
<1>8. /\ u \in Seq(Bytes) /\ Uniform(u) = Append(Uniform(t) \o l.line, "LF")
      /\ EndsInCr(u) => brk = <<"CR">>
  BY <1>2, <1>3, <1>5, <1>6, <1>7, UniformWholeLine
<1>9. /\ Ended(Uniform(u)) /\ g \in Events /\ Reads(Uniform(u), g.data)
      /\ SameDone(f, Uniform(t)) => SameDone(g, Uniform(u))
      /\ SameFirst(f, Uniform(t)) => SameFirst(g, Uniform(u))
  <2>. DEFINE
      v == Uniform(t)
      w == Uniform(u)
  <2>1. /\ v \in Seq(Uniforms) /\ w = Append(v \o l.line, "LF") /\ Ended(v) /\ Reads(v, f.data)
        /\ f \in Events /\ l \in LineRecords
    BY <1>1, <1>5, <1>7, <1>8, UniformType
  <2>. HIDE DEF v, w
  <2>2. Follows(v, f, Append(v \o l.line, "LF"), TrackLine(f, l))
    BY <2>1, LineRead
  <2>3. Follows(v, f, w, g)
    BY <2>1, <2>2
  <2>. QED
    BY <2>3 DEF v, w, Follows
<1>10. EndsInCr(u) /\ l.next <= n => b[l.next] # "LF"
  BY <1>2, <1>8
<1>. QED
  BY <1>7, <1>9, <1>10 DEF ReadTo, u

\* All lines of a buffer.
LEMMA AllRead ==
    ASSUME NEW x \in Seq(Bytes), NEW b \in Seq(Bytes), NEW e \in Events,
           Ended(Uniform(x)), Reads(Uniform(x), e.data),
           EndsInCr(x) /\ b # <<>> => b[1] # "LF"
    PROVE  /\ Chain(b, 1, Lines(b))
           /\ \A n \in 0 .. Len(Lines(b)) :
                 ReadTo(x, b, At(Lines(b), 1, n), e, Tracked(e, Lines(b))[n])
<1>. DEFINE
    lines == Lines(b)
    M == Len(lines)
    after == Tracked(e, lines)
<1>1. Chain(b, 1, lines)
  BY LinesFacts
<1>. HIDE DEF lines
<1>2. /\ lines \in Seq(LineRecords) /\ M \in Nat
      /\ \A n \in 0 .. M : At(lines, 1, n) \in 1 .. Len(b) + 1
      /\ \A n \in 0 .. M :
             n < M => LineBreaks(b, At(lines, 1, n)) # {} /\ lines[n + 1] = NextLine(b, At(lines, 1, n))
  BY <1>1, LenProperties DEF Chain
<1>3. /\ after[0] = e
      /\ \A n \in 1 .. M : after[n] = TrackLine(after[n - 1], lines[n])
  BY <1>2, TrackedFacts
<1>. HIDE DEF after
<1>. DEFINE Q == {n \in Nat : n <= M => ReadTo(x, b, At(lines, 1, n), e, after[n])}
<1>4. 0 \in Q
  <2>1. At(lines, 1, 0) = 1 /\ SubSeq(b, 1, 1 - 1) = <<>>
    BY SubSeqEmpty DEF At
  <2>2. x \o <<>> = x
    BY ConcatEmptySeq
  <2>3. EndsInCr(x) /\ 1 <= Len(b) => b[1] # "LF"
    BY EmptySeq
  <2>4. ReadTo(x, b, 1, e, e)
    BY <2>1, <2>2, <2>3 DEF ReadTo
  <2>. QED
    BY <1>3, <2>1, <2>4
<1>5. ASSUME NEW n \in Nat, n \in Q
      PROVE  n + 1 \in Q
  <2>. SUFFICES ASSUME n + 1 <= M
                PROVE  ReadTo(x, b, At(lines, 1, n + 1), e, after[n + 1])
    OBVIOUS
  <2>1. n \in 0 .. M /\ n < M /\ n + 1 \in 1 .. M /\ (n + 1) - 1 = n /\ n + 1 # 0
    BY <1>2
  <2>. DEFINE
      p == At(lines, 1, n)
      l == lines[n + 1]
      f == after[n]
      g == after[n + 1]
  <2>2. p \in 1 .. Len(b) + 1 /\ LineBreaks(b, p) # {} /\ l = NextLine(b, p)
    BY <1>2, <2>1
  <2>3. g = TrackLine(f, l) /\ ReadTo(x, b, p, e, f)
    BY <1>3, <1>5, <2>1
  <2>4. At(lines, 1, n + 1) = l.next
    BY <2>1 DEF At
  <2>. HIDE DEF p, l, f, g
  <2>5. ReadTo(x, b, l.next, e, g)
    BY <2>2, <2>3, ReadOneMore
  <2>. QED
    BY <2>4, <2>5 DEF g
<1>6. ASSUME NEW n \in 0 .. M PROVE ReadTo(x, b, At(lines, 1, n), e, after[n])
  <2>1. \A k \in Nat : k \in Q
    <3>. HIDE DEF Q
    <3>. QED
      BY <1>4, <1>5, AllNaturals
  <2>2. n \in Nat /\ n <= M
    BY <1>2
  <2>. QED
    BY <2>1, <2>2
<1>. QED
  BY <1>1, <1>6 DEF lines, after

-----------------------------------------------------------------------------
\* The inspection.

\* In a text with nothing in it there is no event.
LEMMA NothingRead ==
    /\ Ended(<<>>) /\ Reads(<<>>, <<>>)
    /\ ~DoneIn(<<>>) /\ FirstIn(<<>>) = "none"
<1>1. <<>> \in Seq(Uniforms) /\ Len(<<>>) = 0
  BY EmptySeq
<1>2. Blanks(<<>>) = {}
  BY <1>1 DEF Blanks
<1>3. LastBlank(<<>>) = 0
  BY <1>1, <1>2, LastBlankFacts
<1>4. 0 + 1 .. (0 + 1) - 1 = {}
  OBVIOUS
<1>5. ~HasData(<<>>, 0, 0 + 1) /\ \A f : ~OnlyField(<<>>, 0, 0 + 1, f)
  BY <1>4 DEF HasData, OnlyField
<1>6. Reads(<<>>, <<>>)
  <2>1. <<>> \in Seq(Seq(Contents)) /\ EventBytes(<<>>) = 0
    BY EmptySeq, EventBytesFacts
  <2>2. \A f : <<>> # <<<<f>>>>
    OBVIOUS
  <2>. QED
    BY <1>1, <1>3, <1>5, <2>1, <2>2 DEF Reads
<1>7. ~DoneIn(<<>>) /\ FirstIn(<<>>) = "none"
  BY <1>2 DEF DoneIn, FirstIn, Ends
<1>. QED
  BY <1>6, <1>7 DEF Ended

\* What is left when no break is is the end of the text, and changes nothing of it.
LEMMA RestRead ==
    ASSUME NEW x \in Seq(Bytes), NEW b \in Seq(Bytes), NEW p \in 1 .. Len(b) + 1
    PROVE  /\ x \o SubSeq(b, 1, p - 1) \in Seq(Bytes) /\ SubSeq(b, p, Len(b)) \in Seq(Bytes)
           /\ x \o b = (x \o SubSeq(b, 1, p - 1)) \o SubSeq(b, p, Len(b))
           /\ SubSeq(b, p, Len(b)) = <<>> <=> p = Len(b) + 1
           /\ LineBreaks(b, p) = {} => SubSeq(b, p, Len(b)) \in Seq(Contents)
<1>. DEFINE
    n == Len(b)
    t == x \o SubSeq(b, 1, p - 1)
    rest == SubSeq(b, p, Len(b))
    front == SubSeq(b, 1, p - 1)
<1>1. n \in Nat /\ p \in Nat /\ p >= 1 /\ p <= n + 1 /\ \A i \in 1 .. n : b[i] \in Bytes
  BY LenProperties, ElementOfSeq
<1>2. front \in Seq(Bytes)
  BY <1>1, SubSeqProperties
<1>3. rest \in Seq(Bytes) /\ Len(rest) = IF p <= n THEN n - p + 1 ELSE 0
  BY <1>1, SubSeqProperties
<1>4. front \o rest = b
  <2>1. /\ 1 \in 1 .. Len(b) + 1 /\ p - 1 \in 1 - 1 .. Len(b) /\ Len(b) \in p - 1 .. Len(b)
        /\ (p - 1) + 1 = p
    BY <1>1
  <2>2. SubSeq(b, 1, p - 1) \o SubSeq(b, (p - 1) + 1, Len(b)) = SubSeq(b, 1, Len(b))
    BY <2>1, ConcatAdjacentSubSeq
  <2>. QED
    BY <2>1, <2>2, SubSeqFull
<1>. HIDE DEF front
<1>6. t \in Seq(Bytes) /\ x \o b = t \o rest
  <2>0. rest \in Seq(Bytes)
    BY <1>3
  <2>. HIDE DEF rest, t
  <2>1. (x \o front) \o rest = x \o (front \o rest)
    BY <1>2, <2>0, ConcatAssociative
  <2>2. x \o front \in Seq(Bytes)
    BY <1>2, ConcatProperties
  <2>3. t = x \o front
    BY DEF t, front
  <2>. QED
    BY <1>4, <2>1, <2>2, <2>3
<1>7. rest = <<>> <=> p = n + 1
  <2>1. rest = <<>> <=> Len(rest) = 0
    BY <1>3, EmptySeq
  <2>. QED
    BY <1>1, <1>3, <2>1
<1>8. ASSUME LineBreaks(b, p) = {}
      PROVE  rest \in Seq(Contents)
  <2>1. ASSUME NEW i \in p .. n PROVE b[i] \in Contents
    <3>1. i \notin LineBreaks(b, p)
      BY <1>8
    <3>2. b[i] \notin Breaks
      BY <3>1 DEF LineBreaks
    <3>3. i \in 1 .. n
      BY <1>1
    <3>. QED
      BY <1>1, <3>2, <3>3 DEF Bytes, Breaks, Contents
  <2>. QED
    BY <1>1, <2>1, SubSeqProperties
<1>. QED
  BY <1>3, <1>6, <1>7, <1>8

\* The verdict on a prefix is that on the first event in its text.
LEMMA ClassifyFacts ==
    ASSUME NEW b \in Seq(Bytes)
    PROVE  \/ FirstEvent(b) = "none" /\ Classify(b) = "need_more"
           \/ FirstEvent(b) = "valid" /\ Classify(b) = "valid"
           \/ FirstEvent(b) = "other" /\ Classify(b) = "invalid"
<1>. DEFINE
    lines == Lines(b)
    M == Len(lines)
    p == At(lines, 1, M)
    f == Tracked(NoEvent, lines)[M]
    text == <<>> \o SubSeq(b, 1, p - 1)
    rest == SubSeq(b, p, Len(b))
<1>1. <<>> \in Seq(Bytes) /\ NoEvent \in Events /\ NoEvent.data = <<>> /\ NoEvent.closed = <<>>
  <2>1. <<>> \in Seq(Bytes) /\ <<>> \in Seq(Seq(Contents)) /\ <<>> \in Seq(Seq(Seq(Contents)))
    BY EmptySeq
  <2>. QED
    BY <2>1 DEF NoEvent, Events
<1>2. ~EndsInCr(<<>>)
  BY DEF EndsInCr
<1>3. Chain(b, 1, lines) /\ \A n \in 0 .. M : ReadTo(<<>>, b, At(lines, 1, n), NoEvent, Tracked(NoEvent, lines)[n])
  BY <1>1, <1>2, UniformEmpty, NothingRead, AllRead
<1>4. M \in Nat /\ M \in 0 .. M
  <2>. HIDE DEF lines
  <2>1. lines \in Seq(LineRecords)
    BY <1>3 DEF Chain
  <2>. QED
    BY <2>1, LenProperties
<1>5. p \in 1 .. Len(b) + 1 /\ LineBreaks(b, p) = {}
  BY <1>3, <1>4 DEF Chain
<1>6. ReadTo(<<>>, b, p, NoEvent, f)
  BY <1>3, <1>4
<1>7. Classify(b) = IF f.closed = <<>> THEN "need_more"
                    ELSE IF Head(f.closed) = Valid THEN "valid" ELSE "invalid"
  BY DEF Classify
<1>. HIDE DEF lines, M, p, f
<1>9. SameFirst(f, Uniform(text))
  BY <1>1, <1>6, UniformEmpty, NothingRead DEF ReadTo, SameFirst
<1>12. text = <<>> \o SubSeq(b, 1, p - 1) /\ rest = SubSeq(b, p, Len(b))
  OBVIOUS
<1>. HIDE DEF text, rest
<1>8. text \in Seq(Bytes) /\ <<>> \o b = text \o rest /\ rest \in Seq(Contents)
  BY ONLY b \in Seq(Bytes), <1>1, <1>5, <1>12, RestRead
<1>10. FirstIn(Uniform(b)) = FirstIn(Uniform(text))
  <2>1. <<>> \o b = b
    BY ConcatEmptySeq
  <2>2. Uniform(b) = Uniform(text) \o rest /\ Uniform(text) \in Seq(Uniforms)
    BY <1>8, <2>1, UniformLine, UniformType
  <2>. QED
    BY <1>8, <2>2, RestOfText
<1>11. FirstEvent(b) = IF f.closed = <<>> THEN "none"
                       ELSE IF Head(f.closed) = Valid THEN "valid" ELSE "other"
  BY <1>9, <1>10, OfUniform DEF SameFirst
<1>. QED
  BY <1>7, <1>11

-----------------------------------------------------------------------------
\* The tracker.

Trackers == [pending : Seq(Bytes), event : Events, skipLeadingLf : BOOLEAN, done : BOOLEAN]

\* x is the text with all the lines the tracker has read; what it has kept goes behind it.
Behind(x, t) ==
    /\ x \in Seq(Bytes) /\ Ended(Uniform(x)) /\ ~DoneIn(Uniform(x))
    /\ t.pending \in Seq(Contents)
    /\ t.event.closed = <<>> /\ Reads(Uniform(x), t.event.data)
    /\ t.skipLeadingLf <=> t.pending = <<>> /\ EndsInCr(x)

\* What the tracker says of the text s it has been fed.
Tracks(t, s) ==
    /\ t \in Trackers
    /\ t.done => DoneIn(Uniform(s))
    /\ ~t.done => \E x : s = x \o t.pending /\ Behind(x, t)

\* Feeding it goes on from a text x, with a buffer b that has no half of a CRLF in front.
Resumes(x, b, t) ==
    /\ x \in Seq(Bytes) /\ b \in Seq(Bytes)
    /\ Ended(Uniform(x)) /\ ~DoneIn(Uniform(x)) /\ Reads(Uniform(x), t.event.data)
    /\ EndsInCr(x) /\ b # <<>> => b[1] # "LF"

\* A [DONE] that is in a text stays in it.
LEMMA DoneStays ==
    ASSUME NEW s \in Seq(Bytes), NEW c \in Seq(Bytes), DoneIn(Uniform(s))
    PROVE  DoneIn(Uniform(s \o c))
<1>. DEFINE
    u == Uniform(s)
    w == Uniform(s \o c)
<1>1. PICK y \in Seq(Uniforms) : w = u \o y
  BY UniformGrows
<1>2. u \in Seq(Uniforms)
  BY UniformType
<1>. HIDE DEF u, w
<1>3. /\ w \in Seq(Uniforms) /\ Len(w) = Len(u) + Len(y) /\ Len(u) \in Nat /\ Len(y) \in Nat
      /\ \A i \in 1 .. Len(u) + Len(y) : w[i] = IF i <= Len(u) THEN u[i] ELSE y[i - Len(u)]
  BY <1>1, <1>2, ConcatProperties, LenProperties
<1>4. Continues(u, w)
  BY <1>3 DEF Continues
<1>5. PICK e \in Blanks(u), p \in Blanks(u) \cup {0} :
          p < e /\ Adjacent(u, p, e) /\ OnlyField(u, p, e, "done")
  BY DEF DoneIn, u
<1>6. p \in Nat /\ "done" \in DataFields
  BY DEF Blanks, DataFields
<1>7. /\ e \in Blanks(w) /\ p \in Blanks(w) \cup {0}
      /\ Adjacent(w, p, e) /\ OnlyField(w, p, e, "done")
  BY <1>2, <1>3, <1>4, <1>5, <1>6, ContinuedFacts
<1>8. DoneIn(w)
  BY <1>5, <1>7 DEF DoneIn
<1>. QED
  BY <1>8 DEF w

\* The LF of a CRLF that was cut is passed over; otherwise feeding goes on behind what
\* has been kept.
LEMMA FreshFacts ==
    ASSUME NEW t \in Trackers, NEW x, Behind(x, t), NEW chunk \in Seq(Bytes), chunk # <<>>
    PROVE  /\ Fresh(t, chunk) \in Seq(Bytes)
           /\ \E z : /\ (x \o t.pending) \o chunk = z \o (t.pending \o Fresh(t, chunk))
                     /\ Resumes(z, t.pending \o Fresh(t, chunk), t)
                     /\ Fresh(t, chunk) = <<>> => t.pending = <<>> /\ ~EndsInCr(z)
<1>. DEFINE
    pending == t.pending
    fresh == Fresh(t, chunk)
<1>1. /\ x \in Seq(Bytes) /\ pending \in Seq(Contents) /\ pending \in Seq(Bytes)
      /\ t.skipLeadingLf <=> pending = <<>> /\ EndsInCr(x)
      /\ Ended(Uniform(x)) /\ ~DoneIn(Uniform(x)) /\ Reads(Uniform(x), t.event.data)
  BY DEF Behind, Trackers
<1>2. /\ Head(chunk) \in Bytes /\ Tail(chunk) \in Seq(Bytes)
      /\ chunk = <<Head(chunk)>> \o Tail(chunk) /\ chunk[1] = Head(chunk)
  <2>1. Head(chunk) \in Bytes /\ Tail(chunk) \in Seq(Bytes)
    BY HeadTailProperties
  <2>2. Len(chunk) \in Nat \ {0}
    BY EmptySeq
  <2>3. SubSeq(chunk, 1, Len(chunk)) = <<chunk[1]>> \o SubSeq(chunk, 1 + 1, Len(chunk))
    <3>1. 1 \in 1 .. Len(chunk) /\ Len(chunk) \in 1 .. Len(chunk)
      BY <2>2
    <3>. QED
      BY <3>1, SubSeqRecursiveFirst
  <2>4. SubSeq(chunk, 1, Len(chunk)) = chunk /\ Tail(chunk) = SubSeq(chunk, 2, Len(chunk))
    BY SubSeqFull, TailIsSubSeq
  <2>. QED
    BY <2>1, <2>3, <2>4
<1>3. CASE t.skipLeadingLf /\ Head(chunk) = "LF"
  <2>. DEFINE z == Append(x, "LF")
  <2>1. "LF" \in Bytes /\ <<"LF">> \in Seq(Bytes)
    BY DEF Bytes, Breaks
  <2>2. pending = <<>> /\ EndsInCr(x) /\ fresh = Tail(chunk)
    BY <1>1, <1>3 DEF Fresh
  <2>3. /\ z \in Seq(Bytes) /\ Len(z) = Len(x) + 1 /\ z[Len(x) + 1] = "LF"
        /\ z = x \o <<"LF">>
    BY <1>1, <2>1, LongerFacts
  <2>4. Uniform(z) = Uniform(x)
    BY <1>1, <2>1, <2>2, UniformLonger DEF EndsInCr
  <2>. HIDE DEF z
  <2>5. ~EndsInCr(z)
    BY <2>3 DEF EndsInCr
  <2>6. pending \o fresh = fresh /\ x \o pending = x
    BY <1>1, <1>2, <2>2, ConcatEmptySeq
  <2>7. (x \o pending) \o chunk = z \o (pending \o fresh)
    <3>1. x \o (<<"LF">> \o Tail(chunk)) = (x \o <<"LF">>) \o Tail(chunk)
      BY <1>1, <1>2, <2>1, ConcatAssociative
    <3>. QED
      BY <1>2, <1>3, <2>2, <2>3, <2>6, <3>1
  <2>8. Resumes(z, pending \o fresh, t)
    BY <1>1, <1>2, <2>2, <2>3, <2>4, <2>5, <2>6 DEF Resumes
  <2>. HIDE DEF fresh, pending
  <2>9. fresh \in Seq(Bytes)
    BY <1>2, <2>2
  <2>. QED
    BY <2>2, <2>5, <2>7, <2>8, <2>9 DEF fresh, pending
<1>4. CASE ~(t.skipLeadingLf /\ Head(chunk) = "LF")
  <2>1. fresh = chunk
    BY <1>4 DEF Fresh
  <2>. DEFINE b == pending \o chunk
  <2>2. /\ b \in Seq(Bytes) /\ Len(b) = Len(pending) + Len(chunk)
        /\ \A i \in 1 .. Len(pending) + Len(chunk) :
              b[i] = IF i <= Len(pending) THEN pending[i] ELSE chunk[i - Len(pending)]
    BY <1>1, ConcatProperties
  <2>3. (x \o pending) \o chunk = x \o b
    <3>1. x \in Seq(Bytes) /\ pending \in Seq(Bytes)
      BY <1>1
    <3>. HIDE DEF pending
    <3>. QED
      BY ONLY <3>1, chunk \in Seq(Bytes), ConcatAssociative
  <2>. HIDE DEF b
  <2>4. ASSUME EndsInCr(x) PROVE b[1] # "LF"
    <3>1. CASE pending = <<>>
      <4>1. Len(pending) = 0 /\ Len(chunk) \in Nat \ {0}
        BY <3>1, EmptySeq
      <4>2. b[1] = chunk[1]
        BY <2>2, <4>1
      <4>. QED
        BY <1>1, <1>2, <1>4, <2>4, <3>1, <4>2
    <3>2. CASE pending # <<>>
      <4>1. Len(pending) \in Nat \ {0} /\ Len(chunk) \in Nat
        BY <1>1, <3>2, EmptySeq, LenProperties
      <4>2. b[1] = pending[1] /\ pending[1] \in Contents
        BY <1>1, <2>2, <4>1, ElementOfSeq
      <4>. QED
        BY <4>2 DEF Contents, DataFields
    <3>. QED
      BY <3>1, <3>2
  <2>5. Resumes(x, b, t)
    BY <1>1, <2>2, <2>4 DEF Resumes
  <2>. HIDE DEF fresh, pending
  <2>. QED
    BY <2>1, <2>3, <2>5 DEF b, fresh, pending
<1>. QED
  BY <1>3, <1>4

\* What the tracker makes of a buffer is what is in the text behind x.
LEMMA FedFacts ==
    ASSUME NEW t \in Trackers, t.event.closed = <<>>, NEW chunk \in Seq(Bytes),
           NEW x, NEW b, b = t.pending \o Fresh(t, chunk), Resumes(x, b, t), b # <<>>
    PROVE  Tracks(Fed(t, chunk), x \o b)
<1>. DEFINE
    lines == Lines(b)
    M == Len(lines)
    after == Tracked(t.event, lines)
    closing == {n \in 1 .. M : Done \in Range(after[n].closed)}
    last == IF closing = {} THEN M ELSE Min(closing)
    start == IF last = 0 THEN 1 ELSE lines[last].next
    rest == SubSeq(b, start, Len(b))
    text == x \o SubSeq(b, 1, start - 1)
    skip == start > 1 /\ start = Len(b) + 1 /\ b[start - 1] = "CR"
    open == [data |-> after[last].data, closed |-> <<>>]
    fed == Fed(t, chunk)
<1>1. /\ x \in Seq(Bytes) /\ b \in Seq(Bytes) /\ t.event \in Events
      /\ Ended(Uniform(x)) /\ ~DoneIn(Uniform(x)) /\ Reads(Uniform(x), t.event.data)
      /\ EndsInCr(x) /\ b # <<>> => b[1] # "LF"
  BY DEF Resumes, Trackers
<1>2. fed = [pending |-> rest, event |-> open, skipLeadingLf |-> skip, done |-> closing # {}]
  BY DEF Fed
<1>3. /\ Chain(b, 1, lines)
      /\ \A n \in 0 .. M : ReadTo(x, b, At(lines, 1, n), t.event, after[n])
  BY <1>1, AllRead
<1>4. start = At(lines, 1, last)
  BY DEF At
<1>. HIDE DEF lines, after, fed
<1>5. M \in Nat
  BY <1>3, LenProperties DEF Chain
<1>6. last \in 0 .. M /\ (closing = {} => last = M) /\ (closing # {} => last \in closing)
  <2>1. CASE closing = {}
    BY <1>5, <2>1
  <2>2. CASE closing # {}
    <3>1. closing \in SUBSET Nat
      OBVIOUS
    <3>2. Min(closing) \in closing
      BY <2>2, <3>1, MinFacts
    <3>3. last = Min(closing)
      BY <2>2
    <3>. HIDE DEF last
    <3>4. last \in closing
      BY <3>2, <3>3
    <3>5. last \in 1 .. M
      BY <3>4
    <3>. QED
      BY <1>5, <2>2, <3>4, <3>5
  <2>. QED
    BY <2>1, <2>2
<1>7. \A n \in 1 .. M : n \in closing <=> Done \in Range(after[n].closed)
  OBVIOUS
<1>8. closing \subseteq 1 .. M
  OBVIOUS
<1>. HIDE DEF last, closing
<1>9. start \in 1 .. Len(b) + 1 /\ (closing = {} => LineBreaks(b, start) = {})
  BY <1>3, <1>4, <1>6 DEF Chain
<1>10. ReadTo(x, b, start, t.event, after[last])
  BY <1>3, <1>4, <1>6
<1>. HIDE DEF start, M
<1>11. /\ text \in Seq(Bytes) /\ rest \in Seq(Bytes) /\ x \o b = text \o rest
       /\ rest = <<>> <=> start = Len(b) + 1
       /\ closing = {} => rest \in Seq(Contents)
  <2>1. x \in Seq(Bytes) /\ b \in Seq(Bytes) /\ start \in 1 .. Len(b) + 1
    BY <1>1, <1>9
  <2>2. /\ x \o SubSeq(b, 1, start - 1) \in Seq(Bytes) /\ SubSeq(b, start, Len(b)) \in Seq(Bytes)
        /\ x \o b = (x \o SubSeq(b, 1, start - 1)) \o SubSeq(b, start, Len(b))
        /\ SubSeq(b, start, Len(b)) = <<>> <=> start = Len(b) + 1
        /\ LineBreaks(b, start) = {} => SubSeq(b, start, Len(b)) \in Seq(Contents)
    BY ONLY <2>1, RestRead
  <2>. QED
    BY <1>9, <2>2
<1>12. /\ Ended(Uniform(text)) /\ after[last] \in Events /\ Reads(Uniform(text), after[last].data)
       /\ SameDone(t.event, Uniform(x)) => SameDone(after[last], Uniform(text))
  BY <1>10 DEF ReadTo
<1>13. SameDone(after[last], Uniform(text))
  <2>1. Range(<<>>) = {}
    BY DEF Range
  <2>. QED
    BY <1>1, <1>12, <2>1 DEF SameDone
<1>14. skip <=> rest = <<>> /\ EndsInCr(text)
  <2>1. Len(b) \in Nat /\ Len(b) # 0 /\ \A i \in 1 .. Len(b) : b[i] \in Bytes
    BY <1>1, EmptySeq, LenProperties, ElementOfSeq
  <2>2. CASE start = 1
    BY <1>11, <2>1, <2>2
  <2>3. CASE start # 1
    <3>. DEFINE front == SubSeq(b, 1, start - 1)
    <3>1. start - 1 \in 1 .. Len(b) /\ start > 1 /\ start - 1 \in Int
      BY <1>9, <2>1, <2>3
    <3>2. /\ front \in Seq(Bytes) /\ Len(front) = start - 1
          /\ \A i \in 1 .. start - 1 : front[i] = b[i]
      <4>1. \A i \in 1 .. start - 1 : b[i] \in Bytes
        BY <2>1, <3>1
      <4>2. /\ front \in Seq(Bytes)
            /\ Len(front) = IF 1 <= start - 1 THEN (start - 1) - 1 + 1 ELSE 0
            /\ \A i \in 1 .. (start - 1) - 1 + 1 : front[i] = b[1 + i - 1]
        BY <3>1, <4>1, SubSeqProperties
      <4>3. (start - 1) - 1 + 1 = start - 1 /\ \A i \in 1 .. start - 1 : 1 + i - 1 = i
        BY <3>1
      <4>. QED
        BY <3>1, <4>2, <4>3
    <3>. HIDE DEF front
    <3>3. /\ Len(text) = Len(x) + (start - 1) /\ Len(x) \in Nat
          /\ text[Len(x) + (start - 1)] = front[start - 1]
      <4>1. text = x \o front
        BY DEF front
      <4>2. /\ Len(x \o front) = Len(x) + Len(front) /\ Len(x) \in Nat
            /\ \A i \in 1 .. Len(x) + Len(front) :
                   (x \o front)[i] = IF i <= Len(x) THEN x[i] ELSE front[i - Len(x)]
        BY <1>1, <3>2, ConcatProperties, LenProperties
      <4>. DEFINE k == Len(x) + (start - 1)
      <4>3. k \in 1 .. Len(x) + Len(front) /\ ~(k <= Len(x)) /\ k - Len(x) = start - 1
        BY <3>1, <3>2, <4>2
      <4>. HIDE DEF text, k
      <4>4. text[k] = front[start - 1]
        BY <4>1, <4>2, <4>3
      <4>. QED
        BY <3>2, <4>1, <4>2, <4>4 DEF k
    <3>. HIDE DEF text
    <3>4. text # <<>> /\ text[Len(text)] = b[start - 1]
      <4>1. Len(text) # 0
        BY <3>1, <3>3
      <4>2. text # <<>>
        BY <4>1
      <4>. QED
        BY <3>1, <3>2, <3>3, <4>2
    <3>. QED
      BY <1>11, <3>1, <3>4 DEF EndsInCr
  <2>. QED
    BY <2>2, <2>3
<1>15. open \in Events /\ open.closed = <<>> /\ open.data = after[last].data
  BY <1>12, EmptySeq DEF Events
<1>. HIDE DEF text, rest, skip, open
<1>16. /\ fed.pending = rest /\ fed.event = open /\ fed.done = (closing # {})
       /\ fed.skipLeadingLf <=> skip
  BY <1>2
<1>17. fed \in Trackers
  <2>1. skip \in BOOLEAN /\ (closing # {}) \in BOOLEAN
    BY DEF skip
  <2>. QED
    BY <1>2, <1>11, <1>15, <2>1 DEF Trackers
<1>18. ASSUME closing # {}
       PROVE  DoneIn(Uniform(x \o b))
  <2>1. last \in 1 .. M /\ Done \in Range(after[last].closed)
    BY <1>6, <1>7, <1>8, <1>18
  <2>2. DoneIn(Uniform(text))
    BY <1>13, <2>1 DEF SameDone
  <2>. QED
    BY <1>11, <2>2, DoneStays
<1>19. ASSUME closing = {}
       PROVE  Behind(text, fed)
  <2>1. ~DoneIn(Uniform(text))
    <3>1. CASE last = 0
      <4>1. after[0] = t.event
        <5>1. lines \in Seq(LineRecords)
          BY <1>3 DEF Chain
        <5>. QED
          BY <1>1, <5>1, TrackedFacts DEF after
      <4>2. Range(<<>>) = {}
        BY DEF Range
      <4>. QED
        BY <1>13, <3>1, <4>1, <4>2 DEF SameDone
    <3>2. CASE last # 0
      <4>1. last \in 1 .. M
        BY <1>5, <1>6, <3>2
      <4>. QED
        BY <1>7, <1>13, <1>19, <4>1 DEF SameDone
    <3>. QED
      BY <3>1, <3>2
  <2>. QED
    BY <1>11, <1>12, <1>14, <1>15, <1>16, <1>19, <2>1 DEF Behind
<1>20. Tracks(fed, x \o b)
  <2>1. fed.done <=> closing # {}
    BY <1>16
  <2>2. ~fed.done => x \o b = text \o fed.pending /\ Behind(text, fed)
    BY <1>11, <1>16, <1>19, <2>1
  <2>3. fed.done => DoneIn(Uniform(x \o b))
    BY <1>18, <2>1
  <2>. QED
    BY <1>17, <2>2, <2>3 DEF Tracks
<1>. QED
  BY <1>20 DEF fed

\* A chunk fed to the tracker: what it says then is right of the longer text.
LEMMA FeedFacts ==
    ASSUME NEW t, NEW s \in Seq(Bytes), Tracks(t, s), NEW chunk \in Seq(Bytes), chunk # <<>>
    PROVE  Tracks(Feed(t, chunk), s \o chunk)
<1>1. t \in Trackers /\ t.done \in BOOLEAN
  BY DEF Tracks, Trackers
<1>2. CASE t.done
  <2>1. Feed(t, chunk) = t
    BY <1>2 DEF Feed
  <2>2. DoneIn(Uniform(s \o chunk))
    BY <1>2, DoneStays DEF Tracks
  <2>. QED
    BY <1>1, <1>2, <2>1, <2>2 DEF Tracks
<1>3. CASE ~t.done
  <2>1. PICK x : s = x \o t.pending /\ Behind(x, t)
    BY <1>3 DEF Tracks
  <2>. DEFINE b == t.pending \o Fresh(t, chunk)
  <2>2. /\ Fresh(t, chunk) \in Seq(Bytes)
        /\ \E z : /\ (x \o t.pending) \o chunk = z \o b
                  /\ Resumes(z, b, t)
                  /\ Fresh(t, chunk) = <<>> => t.pending = <<>> /\ ~EndsInCr(z)
    BY <1>1, <2>1, FreshFacts
  <2>3. PICK z : /\ s \o chunk = z \o b
                 /\ Resumes(z, b, t)
                 /\ Fresh(t, chunk) = <<>> => t.pending = <<>> /\ ~EndsInCr(z)
    BY <2>1, <2>2
  <2>4. CASE Fresh(t, chunk) = <<>>
    <3>. DEFINE f == [t EXCEPT !.skipLeadingLf = FALSE]
    <3>1. Feed(t, chunk) = f
      BY <1>3, <2>4 DEF Feed
    <3>2. /\ f \in Trackers /\ f.pending = t.pending /\ f.event = t.event
          /\ f.skipLeadingLf = FALSE /\ f.done = t.done
      BY <1>1 DEF Trackers
    <3>. HIDE DEF f
    <3>3. t.pending = <<>> /\ b = t.pending
      BY <2>3, <2>4
    <3>4. Behind(z, f)
      <4>1. t.event.closed = <<>> /\ t.pending \in Seq(Contents)
        BY <2>1 DEF Behind
      <4>. QED
        BY <2>3, <2>4, <3>2, <4>1 DEF Behind, Resumes
    <3>5. s \o chunk = z \o f.pending
      BY <2>3, <3>2, <3>3
    <3>. QED
      BY <1>3, <3>1, <3>2, <3>4, <3>5 DEF Tracks
  <2>5. CASE Fresh(t, chunk) # <<>>
    <3>1. Feed(t, chunk) = Fed(t, chunk)
      BY <1>3, <2>5 DEF Feed
    <3>2. t.event.closed = <<>>
      BY <2>1 DEF Behind
    <3>3. b # <<>>
      <4>1. t.pending \in Seq(Bytes)
        BY <1>1 DEF Trackers
      <4>. QED
        BY <2>2, <2>5, <4>1, ConcatEqualIffEmpty
    <3>4. b = t.pending \o Fresh(t, chunk)
      OBVIOUS
    <3>. HIDE DEF b
    <3>5. Tracks(Fed(t, chunk), z \o b)
      BY <1>1, <2>3, <3>2, <3>3, <3>4, FedFacts
    <3>. QED
      BY <2>3, <3>1, <3>5
  <2>. QED
    BY <2>4, <2>5
<1>. QED
  BY <1>1, <1>2, <1>3

\* A tracker that has been fed nothing.
LEMMA NewTrackerFacts == Tracks(NewTracker, <<>>)
<1>1. <<>> \in Seq(Bytes) /\ <<>> \in Seq(Contents) /\ NoEvent \in Events
  <2>1. <<>> \in Seq(Bytes) /\ <<>> \in Seq(Contents) /\ <<>> \in Seq(Seq(Contents))
        /\ <<>> \in Seq(Seq(Seq(Contents)))
    BY EmptySeq
  <2>. QED
    BY <2>1 DEF NoEvent, Events
<1>2. NewTracker \in Trackers
  BY <1>1 DEF NewTracker, Trackers
<1>3. Behind(<<>>, NewTracker)
  <2>1. Uniform(<<>>) = <<>> /\ Ended(<<>>) /\ ~DoneIn(<<>>) /\ Reads(<<>>, <<>>)
    BY UniformEmpty, NothingRead
  <2>2. ~EndsInCr(<<>>)
    BY DEF EndsInCr
  <2>. QED
    BY <1>1, <2>1, <2>2 DEF Behind, NewTracker, NoEvent
<1>4. <<>> = <<>> \o NewTracker.pending
  BY <1>1, ConcatEmptySeq DEF NewTracker
<1>5. ~NewTracker.done
  BY DEF NewTracker
<1>. QED
  BY <1>2, <1>3, <1>4, <1>5 DEF Tracks

\* The tracker knows of [DONE] if and only if it is in the text; and what it holds
\* is no longer than what is open in the text.
LEMMA TracksFacts ==
    ASSUME NEW t, NEW s \in Seq(Bytes), Tracks(t, s)
    PROVE  /\ t.done <=> HasDone(s)
           /\ ~t.done /\ TooMuch(t) => OpenBytes(s) > InspectionLimit
<1>1. t.done => HasDone(s)
  BY OfUniform DEF Tracks
<1>2. ASSUME ~t.done
      PROVE  ~HasDone(s) /\ (TooMuch(t) => OpenBytes(s) > InspectionLimit)
  <2>1. PICK x : s = x \o t.pending /\ Behind(x, t)
    BY <1>2 DEF Tracks
  <2>. DEFINE
      v == Uniform(x)
      w == Uniform(s)
  <2>2. /\ x \in Seq(Bytes) /\ t.pending \in Seq(Contents) /\ v \in Seq(Uniforms)
        /\ ~DoneIn(v) /\ Reads(v, t.event.data)
    BY <2>1, UniformType DEF Behind
  <2>3. w = v \o t.pending
    BY <2>1, <2>2, UniformLine
  <2>4. w = Uniform(s)
    OBVIOUS
  <2>. HIDE DEF v, w
  <2>5. /\ w \in Seq(Uniforms) /\ Len(w) = Len(v) + Len(t.pending)
        /\ LastBlank(w) = LastBlank(v) /\ (DoneIn(w) <=> DoneIn(v))
    BY <2>2, <2>3, RestOfText
  <2>6. ~HasDone(s)
    BY <2>2, <2>4, <2>5, OfUniform
  <2>7. /\ EventBytes(t.event.data) \in Nat /\ EventBytes(t.event.data) <= Len(v) - LastBlank(v)
        /\ Len(v) \in Nat /\ Len(t.pending) \in Nat /\ LastBlank(v) \in Nat
    BY <2>2, EventBytesFacts, LastBlankFacts, LenProperties DEF Reads
  <2>8. OpenBytes(s) = Len(w) - LastBlank(w)
    BY <2>4 DEF OpenBytes, LastBlank
  <2>9. InspectionLimit \in Nat
    BY StreamAssumption
  <2>. QED
    BY <2>5, <2>6, <2>7, <2>8, <2>9 DEF TooMuch
<1>. QED
  BY <1>1, <1>2

-----------------------------------------------------------------------------
\* The chunks that wait.

\* g is what the first chunks make together.
Joins(q, g) ==
    /\ g[0] = <<>>
    /\ \A n \in 0 .. Len(q) : g[n] \in Seq(Bytes) /\ (n # 0 => g[n] = g[n - 1] \o q[n])

\* Joining chunks one by one gives what they are together.
LEMMA FlattenStepwise ==
    ASSUME NEW q \in Seq(Seq(Bytes))
    PROVE  \E g : Joins(q, g) /\ FlattenSeq(q) = g[Len(q)]
<1>. DEFINE
    M == Len(q)
    B == Seq(Bytes)
    Fix(f) == f = [i \in 1 .. M |-> IF i = 1 THEN q[i] ELSE f[i - 1] \o q[i]]
    next == [p \in Nat \X B |-> IF p[1] + 1 \in 1 .. M THEN p[2] \o q[p[1] + 1] ELSE p[2]]
<1>1. M \in Nat /\ \A n \in 1 .. M : q[n] \in B
  BY LenProperties, ElementOfSeq
<1>2. <<>> \in B /\ next \in [Nat \X B -> B]
  <2>1. \A s \in B, c \in B : s \o c \in B
    BY ConcatProperties
  <2>. HIDE DEF B
  <2>2. next \in [Nat \X B -> B]
    BY <1>1, <2>1
  <2>3. <<>> \in B
    BY EmptySeq DEF B
  <2>. QED
    BY <2>2, <2>3
<1>. HIDE DEF next
<1>3. PICK g : IndexedIterates(g, B, <<>>, next)
  BY <1>2, IndexedIteration
<1>4. /\ g[0] = <<>>
      /\ \A n \in 0 .. M : g[n] \in B /\ (n # 0 => g[n] = g[n - 1] \o q[n])
  <2>1. g[0] = <<>> /\ \A n \in Nat : g[n] \in B
    BY <1>3 DEF IndexedIterates
  <2>2. ASSUME NEW n \in 0 .. M, n # 0
        PROVE  g[n] = g[n - 1] \o q[n]
    <3>1. n - 1 \in Nat /\ (n - 1) + 1 = n /\ n \in 1 .. M
      BY <1>1, <2>2
    <3>2. g[n] = next[<<n - 1, g[n - 1]>>] /\ g[n - 1] \in B
      BY <1>3, <3>1 DEF IndexedIterates
    <3>. QED
      BY <3>1, <3>2 DEF next
  <2>3. \A n \in 0 .. M : g[n] \in B
    <3>. HIDE DEF B
    <3>1. \A n \in 0 .. M : n \in Nat
      BY <1>1
    <3>. QED
      BY <2>1, <3>1
  <2>. HIDE DEF B
  <2>. QED
    BY <2>1, <2>2, <2>3
<1>5. Joins(q, g)
  BY <1>4 DEF Joins
<1>6. CASE M = 0
  BY <1>4, <1>5, <1>6, EmptySeq DEF FlattenSeq
<1>7. CASE M # 0
  <2>. DEFINE h == [i \in 1 .. M |-> g[i]]
  <2>1. ASSUME NEW i \in 1 .. M
        PROVE  h[i] = IF i = 1 THEN q[i] ELSE h[i - 1] \o q[i]
    <3>1. i \in 0 .. M /\ i # 0
      BY <1>1
    <3>2. CASE i = 1
      <4>1. g[1] = <<>> \o q[1] /\ q[1] \in Seq(Bytes)
        <5>1. 1 \in 0 .. M /\ 1 # 0 /\ 1 - 1 = 0 /\ 1 \in 1 .. M
          BY <3>1, <3>2
        <5>2. g[1] = g[0] \o q[1]
          BY <1>4, <5>1
        <5>. QED
          BY <1>1, <1>4, <5>1, <5>2
      <4>2. <<>> \o q[1] = q[1]
        BY <4>1, ConcatEmptySeq
      <4>. QED
        BY <3>2, <4>1, <4>2
    <3>3. CASE i # 1
      <4>1. i - 1 \in 1 .. M
        BY <1>1, <3>3
      <4>. QED
        BY <1>4, <3>1, <3>3, <4>1
    <3>. QED
      BY <3>2, <3>3
  <2>2. Fix(h)
    BY <2>1
  <2>. DEFINE c == CHOOSE f : Fix(f)
  <2>. HIDE DEF h
  <2>3. Fix(c)
    <3>. HIDE DEF Fix
    <3>. QED
      BY <2>2
  <2>4. FlattenSeq(q) = c[M]
    BY <1>7 DEF FlattenSeq
  <2>. HIDE DEF c
  <2>5. \A i \in 1 .. M : c[i] = IF i = 1 THEN q[i] ELSE c[i - 1] \o q[i]
    BY <2>3
  <2>6. \A i \in 1 .. M : h[i] = IF i = 1 THEN q[i] ELSE h[i - 1] \o q[i]
    BY <2>1
  <2>. HIDE DEF Fix
  <2>. DEFINE Q == {k \in Nat : k \in 1 .. M => c[k] = h[k]}
  <2>7. 0 \in Q
    OBVIOUS
  <2>8. ASSUME NEW k \in Nat, k \in Q
        PROVE  k + 1 \in Q
    <3>. SUFFICES ASSUME k + 1 \in 1 .. M PROVE c[k + 1] = h[k + 1]
      OBVIOUS
    <3>1. (k + 1) - 1 = k /\ (k = 0 \/ k \in 1 .. M)
      BY <1>1
    <3>2. CASE k = 0
      BY <2>5, <2>6, <3>2
    <3>3. CASE k # 0
      BY <2>5, <2>6, <2>8, <3>1, <3>3
    <3>. QED
      BY <3>2, <3>3
  <2>9. c[M] = h[M]
    <3>. HIDE DEF Q
    <3>1. M \in Q
      BY <1>1, <2>7, <2>8, AllNaturals
    <3>. QED
      BY <1>1, <1>7, <3>1 DEF Q
  <2>10. h[M] = g[M]
    BY <1>1, <1>7 DEF h
  <2>. QED
    BY <1>5, <2>4, <2>9, <2>10
<1>. QED
  BY <1>6, <1>7

\* A chunk that waits behind the others; the first of them.
LEMMA FlattenFacts ==
    /\ FlattenSeq(<<>>) = <<>>
    /\ \A q \in Seq(Seq(Bytes)) : FlattenSeq(q) \in Seq(Bytes)
    /\ \A q \in Seq(Seq(Bytes)), c \in Seq(Bytes) :
           FlattenSeq(Append(q, c)) = FlattenSeq(q) \o c
    /\ \A q \in Seq(Seq(Bytes)) :
           q # <<>> => FlattenSeq(q) = Head(q) \o FlattenSeq(Tail(q))
<1>. DEFINE B == Seq(Bytes)
<1>1. FlattenSeq(<<>>) = <<>>
  BY EmptySeq DEF FlattenSeq
<1>2. ASSUME NEW q \in Seq(B) PROVE FlattenSeq(q) \in B
  <2>1. PICK g : Joins(q, g) /\ FlattenSeq(q) = g[Len(q)]
    BY FlattenStepwise
  <2>2. Len(q) \in 0 .. Len(q)
    BY LenProperties
  <2>. QED
    BY <2>1, <2>2 DEF Joins
<1>3. ASSUME NEW q \in Seq(B), NEW c \in B
      PROVE  FlattenSeq(Append(q, c)) = FlattenSeq(q) \o c
  <2>. DEFINE
      M == Len(q)
      r == Append(q, c)
  <2>1. /\ r \in Seq(B) /\ Len(r) = M + 1 /\ r[M + 1] = c /\ M \in Nat
        /\ \A i \in 1 .. M : r[i] = q[i]
    BY LongerFacts, LenProperties
  <2>. HIDE DEF r
  <2>2. PICK g : Joins(q, g) /\ FlattenSeq(q) = g[M]
    BY FlattenStepwise
  <2>3. PICK h : Joins(r, h) /\ FlattenSeq(r) = h[M + 1]
    BY <2>1, FlattenStepwise
  <2>. DEFINE Q == {k \in Nat : k <= M => g[k] = h[k]}
  <2>4. 0 \in Q
    BY <2>2, <2>3 DEF Joins
  <2>5. ASSUME NEW k \in Nat, k \in Q
        PROVE  k + 1 \in Q
    <3>. SUFFICES ASSUME k + 1 <= M PROVE g[k + 1] = h[k + 1]
      OBVIOUS
    <3>1. /\ k + 1 \in 0 .. Len(q) /\ k + 1 \in 0 .. Len(r) /\ k + 1 # 0 /\ (k + 1) - 1 = k
          /\ k + 1 \in 1 .. M /\ g[k] = h[k]
      BY <2>1, <2>5
    <3>2. g[k + 1] = g[k] \o q[k + 1]
      BY <2>2, <3>1 DEF Joins
    <3>3. h[k + 1] = h[k] \o r[k + 1]
      BY <2>3, <3>1 DEF Joins
    <3>. QED
      BY <2>1, <3>1, <3>2, <3>3
  <2>6. g[M] = h[M]
    <3>. HIDE DEF Q
    <3>1. M \in Q
      BY <2>1, <2>4, <2>5, AllNaturals
    <3>. QED
      BY <2>1, <3>1 DEF Q
  <2>7. h[M + 1] = h[M] \o c
    <3>1. M + 1 \in 0 .. Len(r) /\ M + 1 # 0 /\ (M + 1) - 1 = M
      BY <2>1
    <3>. QED
      BY <2>1, <2>3, <3>1 DEF Joins
  <2>. QED
    BY <2>2, <2>3, <2>6, <2>7 DEF r
<1>4. ASSUME NEW q \in Seq(B), q # <<>>
      PROVE  FlattenSeq(q) = Head(q) \o FlattenSeq(Tail(q))
  <2>. DEFINE
      M == Len(q)
      c == Head(q)
      r == Tail(q)
  <2>1. /\ M \in Nat /\ M # 0 /\ c = q[1] /\ c \in B /\ r \in Seq(B) /\ Len(r) = M - 1
        /\ \A i \in 1 .. M - 1 : r[i] = q[i + 1]
    <3>1. M \in Nat \ {0} /\ c = q[1]
      BY <1>4, EmptySeq
    <3>. HIDE DEF B
    <3>2. c \in B /\ r \in Seq(B) /\ Len(r) = M - 1 /\ \A i \in 1 .. Len(r) : r[i] = q[i + 1]
      BY <1>4, HeadTailProperties
    <3>. QED
      BY <3>1, <3>2
  <2>. HIDE DEF r, c
  <2>2. PICK g : Joins(q, g) /\ FlattenSeq(q) = g[M]
    BY FlattenStepwise
  <2>3. PICK h : Joins(r, h) /\ FlattenSeq(r) = h[M - 1]
    BY <2>1, FlattenStepwise
  <2>. DEFINE Q == {k \in Nat : k <= M - 1 => g[k + 1] = c \o h[k]}
  <2>4. 0 \in Q
    <3>1. 1 \in 0 .. Len(q) /\ 1 - 1 = 0 /\ 0 + 1 = 1 /\ 1 # 0
      BY <2>1
    <3>2. g[1] = <<>> \o c /\ h[0] = <<>>
      <4>1. g[0] = <<>> /\ h[0] = <<>>
        BY <2>2, <2>3 DEF Joins
      <4>2. g[1] = g[1 - 1] \o q[1]
        BY <2>2, <3>1 DEF Joins
      <4>. QED
        BY <2>1, <3>1, <4>1, <4>2
    <3>3. <<>> \o c = c /\ c \o <<>> = c
      BY <2>1, ConcatEmptySeq
    <3>. QED
      BY <3>1, <3>2, <3>3
  <2>5. ASSUME NEW k \in Nat, k \in Q
        PROVE  k + 1 \in Q
    <3>. SUFFICES ASSUME k + 1 <= M - 1 PROVE g[k + 1 + 1] = c \o h[k + 1]
      OBVIOUS
    <3>0. g[k + 1] = c \o h[k]
      <4>1. k <= M - 1
        BY <2>1
      <4>. QED
        BY <2>5, <4>1
    <3>1. /\ k + 1 + 1 \in 0 .. Len(q) /\ k + 1 \in 0 .. Len(r) /\ k \in 0 .. Len(r)
          /\ k + 1 # 0 /\ k + 1 + 1 # 0
          /\ (k + 1) - 1 = k /\ (k + 1 + 1) - 1 = k + 1 /\ k + 1 \in 1 .. M - 1 /\ k + 1 \in 1 .. Len(r)
      BY <2>1
    <3>2. g[k + 1 + 1] = g[k + 1] \o q[k + 1 + 1]
      BY <2>2, <3>1 DEF Joins
    <3>3. h[k + 1] = h[k] \o r[k + 1] /\ h[k] \in B
      BY <2>3, <3>1 DEF Joins
    <3>4. r[k + 1] = q[k + 1 + 1] /\ r[k + 1] \in B
      <4>. HIDE DEF B
      <4>. QED
        BY <2>1, <3>1, ElementOfSeq
    <3>5. c \o (h[k] \o r[k + 1]) = (c \o h[k]) \o r[k + 1]
      <4>1. c \in B
        BY <2>1
      <4>. DEFINE
          x == h[k]
          y == r[k + 1]
      <4>2. x \in B /\ y \in B
        BY <3>3, <3>4
      <4>. HIDE DEF x, y
      <4>3. c \o (x \o y) = (c \o x) \o y
        BY ONLY <4>1, <4>2, ConcatAssociative
      <4>. QED
        BY <4>3 DEF x, y
    <3>. QED
      BY <3>0, <3>1, <3>2, <3>3, <3>4, <3>5
  <2>6. g[M] = c \o h[M - 1]
    <3>. HIDE DEF Q
    <3>1. M - 1 \in Nat /\ (M - 1) + 1 = M
      BY <2>1
    <3>2. M - 1 \in Q
      BY <2>4, <2>5, <3>1, AllNaturals
    <3>. QED
      BY <3>1, <3>2 DEF Q
  <2>. QED
    BY <2>2, <2>3, <2>6 DEF c, r
<1>. QED
  BY <1>1, <1>2, <1>3, <1>4

-----------------------------------------------------------------------------
\* The stream.

\* The types of the state.
StreamTypes ==
    /\ received \in Seq(Bytes)
    /\ phase \in {"inspecting", "rejected", "lost", "relaying",
                  "truncated", "cut", "completed"}
    /\ inspection \in Seq(Bytes) /\ Len(inspection) <= InspectionLimit
    /\ queue \in Seq(Seq(Bytes) \ {<<>>})
    /\ tracker \in Trackers
    /\ sent \in Seq(Bytes)

\* Nothing is lost on the way, and the tracker is right of what the client has.
InStep ==
    phase # "truncated" =>
        sent \o FlattenSeq(queue) = received /\ Tracks(tracker, sent)

\* All of the inductive invariant.
StreamInv ==
    /\ StreamTypes
    /\ InStep
    /\ phase = "inspecting" => inspection = received
    /\ phase \in {"cut", "completed"} => queue = <<>>
    /\ phase = "completed" => tracker.done
    /\ CommitsOnFirstEvent
    /\ TruncatedOnlyOversized

\* The beginning of a text.
LEMMA BeginningFacts ==
    ASSUME NEW s \in Seq(Bytes), NEW c \in Seq(Bytes), s # <<>>
    PROVE  Len(s) \in 1 .. Len(s \o c) /\ SubSeq(s \o c, 1, Len(s)) = s
<1>1. Len(s) \in Nat \ {0} /\ Len(c) \in Nat /\ Len(s \o c) = Len(s) + Len(c)
  BY EmptySeq, LenProperties, ConcatProperties
<1>2. SubSeq(s \o c, 1, Len(s)) = SubSeq(s, 1, Len(s))
  <2>1. 1 \in 1 .. Len(s) /\ Len(s) \in 1 .. Len(s)
    BY <1>1
  <2>. QED
    BY <2>1, SubSeqOfConcat1
<1>. QED
  BY <1>1, <1>2, SubSeqFull

\* What is inspected of a text is its beginning, up to the limit.
LEMMA InspectableFacts ==
    ASSUME NEW s \in Seq(Bytes)
    PROVE  /\ Inspectable(s) \in Seq(Bytes) /\ Len(Inspectable(s)) <= InspectionLimit
           /\ Len(Inspectable(s)) <= Len(s)
           /\ Len(Inspectable(s)) # InspectionLimit =>
                 Inspectable(s) = s /\ Len(s) < InspectionLimit
<1>. DEFINE
    n == Len(s)
    m == Min({n, InspectionLimit})
<1>1. n \in Nat /\ InspectionLimit \in Nat \ {0} /\ \A i \in 1 .. n : s[i] \in Bytes
  BY StreamAssumption, LenProperties, ElementOfSeq
<1>2. m \in {n, InspectionLimit} /\ m <= n /\ m <= InspectionLimit
  <2>1. {n, InspectionLimit} \in SUBSET Nat
    BY <1>1
  <2>. DEFINE S == {n, InspectionLimit}
  <2>2. n \in S /\ InspectionLimit \in S
    OBVIOUS
  <2>. HIDE DEF S
  <2>3. Min(S) \in S /\ \A k \in S : Min(S) <= k
    BY <2>1, <2>2, MinFacts DEF S
  <2>. QED
    BY <2>2, <2>3 DEF S
<1>. HIDE DEF m
<1>3. Inspectable(s) = SubSeq(s, 1, m)
  BY DEF Inspectable, m
<1>4. /\ SubSeq(s, 1, m) \in Seq(Bytes)
      /\ Len(SubSeq(s, 1, m)) = IF 1 <= m THEN m - 1 + 1 ELSE 0
  BY <1>1, <1>2, SubSeqProperties
<1>5. Len(SubSeq(s, 1, m)) = m
  BY <1>1, <1>2, <1>4
<1>6. m = n => SubSeq(s, 1, m) = s
  BY SubSeqFull
<1>. QED
  BY <1>1, <1>2, <1>3, <1>4, <1>5, <1>6

\* The queue of chunks.
LEMMA QueueFacts ==
    ASSUME NEW q \in Seq(Seq(Bytes) \ {<<>>})
    PROVE  /\ q \in Seq(Seq(Bytes))
           /\ \A c \in Seq(Bytes) \ {<<>>} : Append(q, c) \in Seq(Seq(Bytes) \ {<<>>})
           /\ q # <<>> => /\ Head(q) \in Seq(Bytes) /\ Head(q) # <<>>
                          /\ Tail(q) \in Seq(Seq(Bytes) \ {<<>>})
<1>1. q \in Seq(Seq(Bytes))
  <2>1. Seq(Bytes) \ {<<>>} \subseteq Seq(Bytes)
    OBVIOUS
  <2>. QED
    BY <2>1, SeqMonotonic
<1>2. \A c \in Seq(Bytes) \ {<<>>} : Append(q, c) \in Seq(Seq(Bytes) \ {<<>>})
  BY AppendProperties
<1>3. ASSUME q # <<>>
      PROVE  Head(q) \in Seq(Bytes) \ {<<>>} /\ Tail(q) \in Seq(Seq(Bytes) \ {<<>>})
  BY <1>3, HeadTailProperties
<1>. QED
  BY <1>1, <1>2, <1>3

\* It holds at the start.
LEMMA StreamInit_Inv ==
    ASSUME StreamInit
    PROVE  StreamInv
<1>1. /\ <<>> \in Seq(Bytes) /\ Len(<<>>) = 0 /\ <<>> \in Seq(Seq(Bytes) \ {<<>>})
      /\ InspectionLimit \in Nat \ {0}
  BY EmptySeq, StreamAssumption
<1>2. Tracks(NewTracker, <<>>) /\ NewTracker \in Trackers
  BY NewTrackerFacts DEF Tracks
<1>3. <<>> \o FlattenSeq(<<>>) = <<>>
  BY <1>1, FlattenFacts, ConcatEmptySeq
<1>4. FirstEvent(Inspectable(<<>>)) = "none"
  <2>1. Inspectable(<<>>) = <<>>
    <3>1. Inspectable(<<>>) \in Seq(Bytes) /\ Len(Inspectable(<<>>)) <= 0
      BY <1>1, InspectableFacts
    <3>. QED
      BY <3>1, EmptySeq
  <2>. QED
    BY <2>1, UniformEmpty, NothingRead, OfUniform
<1>. QED
  BY <1>1, <1>2, <1>3, <1>4
  DEF StreamInit, StreamInv, StreamTypes, InStep, CommitsOnFirstEvent, TruncatedOnlyOversized

\* Inspecting a chunk preserves it.
LEMMA Inspect_Inv ==
    ASSUME StreamInv, NEW chunk \in Seq(Bytes) \ {<<>>}, Inspect(chunk)
    PROVE  StreamInv'
<1>1. /\ received \in Seq(Bytes) /\ queue \in Seq(Seq(Bytes) \ {<<>>}) /\ sent \in Seq(Bytes)
      /\ tracker \in Trackers
      /\ phase = "inspecting" /\ inspection = received
      /\ sent \o FlattenSeq(queue) = received /\ Tracks(tracker, sent)
  BY DEF StreamInv, StreamTypes, InStep, Inspect
<1>2. /\ received' = received \o chunk /\ inspection' = Inspected(chunk)
      /\ queue' = Append(queue, chunk) /\ tracker' = tracker /\ sent' = sent
      /\ phase' = IF Verdict(inspection', chunk) = "valid" THEN "relaying"
                  ELSE IF \/ Verdict(inspection', chunk) = "invalid"
                          \/ Len(inspection') = InspectionLimit
                       THEN "rejected" ELSE "inspecting"
  BY DEF Inspect
<1>3. received' \in Seq(Bytes) /\ queue' \in Seq(Seq(Bytes) \ {<<>>}) /\ queue \in Seq(Seq(Bytes))
  BY <1>1, <1>2, ConcatProperties, QueueFacts
<1>4. inspection' = Inspectable(received')
  BY <1>1, <1>2 DEF Inspected, Inspectable
<1>5. /\ inspection' \in Seq(Bytes) /\ Len(inspection') <= InspectionLimit
      /\ Len(inspection') <= Len(received')
      /\ Len(inspection') # InspectionLimit => inspection' = received' /\ Len(received') < InspectionLimit
  BY <1>3, <1>4, InspectableFacts
<1>6. sent' \o FlattenSeq(queue') = received'
  <2>1. FlattenSeq(queue') = FlattenSeq(queue) \o chunk /\ FlattenSeq(queue) \in Seq(Bytes)
    BY <1>2, <1>3, FlattenFacts
  <2>2. sent \o (FlattenSeq(queue) \o chunk) = (sent \o FlattenSeq(queue)) \o chunk
    <3>. DEFINE f == FlattenSeq(queue)
    <3>1. sent \in Seq(Bytes) /\ f \in Seq(Bytes) /\ chunk \in Seq(Bytes)
      BY <1>1, <2>1
    <3>. HIDE DEF f
    <3>2. sent \o (f \o chunk) = (sent \o f) \o chunk
      BY ONLY <3>1, ConcatAssociative
    <3>. QED
      BY <3>2 DEF f
  <2>. QED
    BY <1>1, <1>2, <2>1, <2>2
<1>7. Verdict(inspection', chunk) = Classify(inspection')
  BY DEF Verdict
<1>8. \/ FirstEvent(inspection') = "none" /\ Classify(inspection') = "need_more"
      \/ FirstEvent(inspection') = "valid" /\ Classify(inspection') = "valid"
      \/ FirstEvent(inspection') = "other" /\ Classify(inspection') = "invalid"
  BY <1>5, ClassifyFacts
<1>9. phase' \in {"relaying", "rejected", "inspecting"}
  BY <1>2
<1>10. CommitsOnFirstEvent'
  <2>1. Len(received') \in Nat /\ Len(inspection') \in Nat /\ InspectionLimit \in Nat
    BY <1>3, <1>5, LenProperties, StreamAssumption
  <2>2. ASSUME phase' = "inspecting"
        PROVE  FirstEvent(Inspectable(received')) = "none" /\ Len(received') < InspectionLimit
    BY <1>2, <1>4, <1>5, <1>7, <1>8, <2>2
  <2>3. ASSUME phase' = "rejected"
        PROVE  \/ FirstEvent(Inspectable(received')) = "other"
               \/ FirstEvent(Inspectable(received')) = "none" /\ Len(received') >= InspectionLimit
    BY <1>2, <1>4, <1>5, <1>7, <1>8, <2>1, <2>3
  <2>4. ASSUME phase' = "relaying"
        PROVE  FirstEvent(Inspectable(received')) = "valid"
    BY <1>2, <1>4, <1>7, <1>8, <2>4
  <2>. QED
    BY <1>9, <2>2, <2>3, <2>4 DEF CommitsOnFirstEvent
<1>11. phase' = "inspecting" => inspection' = received'
  BY <1>2, <1>5
<1>12. InStep' /\ TruncatedOnlyOversized'
  BY <1>1, <1>2, <1>6, <1>9 DEF InStep, TruncatedOnlyOversized
<1>13. StreamTypes'
  BY <1>1, <1>2, <1>3, <1>5, <1>9 DEF StreamTypes
<1>. QED
  BY <1>9, <1>10, <1>11, <1>12, <1>13 DEF StreamInv

\* Relaying a chunk, with what waits behind it, preserves it.
LEMMA Relay_Inv ==
    ASSUME StreamInv, phase = "relaying", NEW chunk \in Seq(Bytes), chunk # <<>>,
           NEW more \in Seq(Bytes), Relay(chunk),
           received' \in Seq(Bytes), sent \o (chunk \o more) = received',
           queue' \in Seq(Seq(Bytes) \ {<<>>}), FlattenSeq(queue') = more,
           queue' # <<>> => FirstEvent(Inspectable(received')) = "valid"
    PROVE  StreamInv'
<1>. DEFINE
    next == Feed(tracker, chunk)
    text == sent \o chunk
<1>1. sent \in Seq(Bytes) /\ Tracks(tracker, sent) /\ inspection \in Seq(Bytes)
      /\ Len(inspection) <= InspectionLimit
  BY DEF StreamInv, StreamTypes, InStep
<1>2. /\ tracker' = next /\ inspection' = inspection
      /\ TooMuch(next) => phase' = "truncated" /\ sent' = sent
      /\ ~TooMuch(next) => sent' = text /\ phase' = "relaying"
  BY DEF Relay
<1>3. text \in Seq(Bytes) /\ Tracks(next, text)
  BY <1>1, FeedFacts, ConcatProperties
<1>4. text \o more = received'
  <2>1. sent \o (chunk \o more) = (sent \o chunk) \o more
    BY ONLY <1>1, chunk \in Seq(Bytes), more \in Seq(Bytes), ConcatAssociative
  <2>. QED
    BY <2>1
<1>5. text # <<>>
  BY <1>1, ConcatEqualIffEmpty
<1>. HIDE DEF next, text
<1>6. next \in Trackers
  BY <1>3 DEF Tracks
<1>7. sent' \in Seq(Bytes) /\ phase' \in {"truncated", "relaying"}
  BY <1>1, <1>2, <1>3
<1>8. StreamTypes'
  BY <1>1, <1>2, <1>6, <1>7 DEF StreamTypes
<1>9. InStep'
  BY <1>2, <1>3, <1>4 DEF InStep
<1>10. CommitsOnFirstEvent'
  BY <1>7 DEF CommitsOnFirstEvent
<1>11. TruncatedOnlyOversized'
  <2>. SUFFICES ASSUME phase' = "truncated", ~tracker'.done
                PROVE  \E n \in 1 .. Len(received') :
                           OpenBytes(SubSeq(received', 1, n)) > InspectionLimit
    BY DEF TruncatedOnlyOversized
  <2>1. TooMuch(next) /\ ~next.done
    BY <1>2
  <2>2. OpenBytes(text) > InspectionLimit
    BY <1>3, <2>1, TracksFacts
  <2>3. Len(text) \in 1 .. Len(received') /\ SubSeq(received', 1, Len(text)) = text
    BY <1>3, <1>4, <1>5, BeginningFacts
  <2>. QED
    BY <2>2, <2>3
<1>. QED
  BY <1>7, <1>8, <1>9, <1>10, <1>11 DEF StreamInv

\* A chunk from the queue.
LEMMA RelayInitial_Inv ==
    ASSUME StreamInv, RelayInitial
    PROVE  StreamInv'
<1>. DEFINE
    chunk == Head(queue)
    more == FlattenSeq(Tail(queue))
<1>1. /\ received \in Seq(Bytes) /\ queue \in Seq(Seq(Bytes) \ {<<>>})
      /\ phase = "relaying" /\ queue # <<>> /\ sent \o FlattenSeq(queue) = received
  BY DEF StreamInv, StreamTypes, InStep, RelayInitial
<1>2. Relay(chunk) /\ queue' = Tail(queue) /\ received' = received
  BY DEF RelayInitial
<1>3. /\ chunk \in Seq(Bytes) /\ chunk # <<>> /\ Tail(queue) \in Seq(Seq(Bytes) \ {<<>>})
      /\ queue \in Seq(Seq(Bytes)) /\ Tail(queue) \in Seq(Seq(Bytes))
  BY <1>1, QueueFacts
<1>4. more \in Seq(Bytes) /\ FlattenSeq(queue) = chunk \o more
  BY <1>1, <1>3, FlattenFacts
<1>5. FirstEvent(Inspectable(received)) = "valid"
  BY <1>1 DEF StreamInv, CommitsOnFirstEvent
<1>6. FlattenSeq(queue') = more
  BY <1>2
<1>. HIDE DEF chunk, more
<1>7. received' \in Seq(Bytes) /\ sent \o (chunk \o more) = received'
  BY <1>1, <1>2, <1>4
<1>8. queue' \in Seq(Seq(Bytes) \ {<<>>}) /\ (queue' # <<>> => FirstEvent(Inspectable(received')) = "valid")
  BY <1>2, <1>3, <1>5
<1>. QED
  BY <1>1, <1>2, <1>3, <1>4, <1>6, <1>7, <1>8, Relay_Inv

\* A chunk from the upstream, when none waits.
LEMMA RelayNext_Inv ==
    ASSUME StreamInv, NEW chunk \in Seq(Bytes) \ {<<>>}, RelayNext(chunk)
    PROVE  StreamInv'
<1>1. /\ received \in Seq(Bytes) /\ phase = "relaying" /\ queue = <<>> /\ sent \in Seq(Bytes)
      /\ sent \o FlattenSeq(queue) = received
  BY DEF StreamInv, StreamTypes, InStep, RelayNext
<1>2. Relay(chunk) /\ queue' = <<>> /\ received' = received \o chunk
  BY <1>1 DEF RelayNext
<1>3. FlattenSeq(queue') = <<>> /\ <<>> \in Seq(Bytes) /\ queue' \in Seq(Seq(Bytes) \ {<<>>})
  BY <1>2, FlattenFacts, EmptySeq
<1>4. sent = received /\ chunk \o <<>> = chunk
  BY <1>1, FlattenFacts, ConcatEmptySeq
<1>5. received' \in Seq(Bytes) /\ sent \o (chunk \o <<>>) = received'
  BY <1>1, <1>2, <1>4, ConcatProperties
<1>. QED
  BY <1>1, <1>2, <1>3, <1>5, Relay_Inv

\* Every other step.
LEMMA End_Inv ==
    ASSUME StreamInv, Lose \/ End \/ Break
    PROVE  StreamInv'
<1>1. /\ received' = received /\ inspection' = inspection /\ queue' = queue
      /\ tracker' = tracker /\ sent' = sent
  BY DEF Lose, End, Break
<1>2. /\ phase' \in {"lost", "cut", "completed"} /\ phase # "truncated"
      /\ phase' = "lost" => phase = "inspecting"
      /\ phase' \in {"cut", "completed"} => queue = <<>>
      /\ phase' = "completed" => tracker.done
  BY DEF Lose, End, Break
<1>3. StreamTypes' /\ InStep'
  BY <1>1, <1>2 DEF StreamInv, StreamTypes, InStep
<1>4. CommitsOnFirstEvent'
  BY <1>1, <1>2 DEF StreamInv, CommitsOnFirstEvent
<1>5. TruncatedOnlyOversized'
  BY <1>2 DEF TruncatedOnlyOversized
<1>. QED
  BY <1>1, <1>2, <1>3, <1>4, <1>5 DEF StreamInv

\* Every step preserves it.
LEMMA StreamNext_Inv ==
    ASSUME StreamInv, [StreamNext]_streamVars
    PROVE  StreamInv'
<1>1. CASE UNCHANGED streamVars
  BY <1>1 DEF streamVars, StreamInv, StreamTypes, InStep, CommitsOnFirstEvent, TruncatedOnlyOversized
<1>2. ASSUME NEW chunk \in Chunks, Inspect(chunk) \/ RelayNext(chunk)
      PROVE  StreamInv'
  BY <1>2, StreamAssumption, Inspect_Inv, RelayNext_Inv
<1>3. CASE Lose \/ End \/ Break
  BY <1>3, End_Inv
<1>4. CASE RelayInitial
  BY <1>4, RelayInitial_Inv
<1>. QED
  BY <1>1, <1>2, <1>3, <1>4 DEF StreamNext

\* It holds always (relay_common.secure_success_stream, SseDoneTracker,
\* relay._stream_committed).
THEOREM StreamInvariance == StreamSpec => []StreamInv
<1>1. StreamInit => StreamInv
  BY StreamInit_Inv
<1>2. StreamInv /\ [StreamNext]_streamVars => StreamInv'
  BY StreamNext_Inv
<1>. QED
  BY <1>1, <1>2, PTL DEF StreamSpec

\* The types of a stream's state, for any chunks and any limits.
THEOREM StreamTypeCorrect == StreamSpec => []StreamTypeOK
<1>1. StreamInv => StreamTypeOK
  <2>1. ASSUME StreamInv PROVE StreamTypeOK
    <3>1. queue \in Seq(Seq(Bytes))
      BY <2>1, QueueFacts DEF StreamInv, StreamTypes
    <3>2. tracker.pending \in Seq(Bytes) /\ tracker.skipLeadingLf \in BOOLEAN /\ tracker.done \in BOOLEAN
      BY <2>1 DEF StreamInv, StreamTypes, Trackers
    <3>. QED
      BY <2>1, <3>1, <3>2 DEF StreamInv, StreamTypes, StreamTypeOK
  <2>. QED
    BY <2>1
<1>. QED
  BY <1>1, StreamInvariance, PTL

\* Whether an answer is committed to depends on the first event within the limit alone,
\* for any limit and however the transport cuts the text
\* (relay_common.secure_success_stream).
THEOREM CommitmentIsByContent == StreamSpec => []CommitsOnFirstEvent
<1>1. StreamInv => CommitsOnFirstEvent
  BY DEF StreamInv
<1>. QED
  BY <1>1, StreamInvariance, PTL

\* What the tracker concludes is what the text says: [DONE] is seen exactly if it is in
\* the text relayed, a completed stream was relayed whole, and one is given up for its
\* size only if more than the limit is open in it (SseDoneTracker).
THEOREM EndIsByContent == StreamSpec => []EndedAsItsText
<1>1. StreamInv => EndedAsItsText
  <2>1. ASSUME StreamInv PROVE DoneByContent
    BY <2>1, TracksFacts DEF StreamInv, StreamTypes, InStep, DoneByContent
  <2>2. ASSUME StreamInv PROVE CompletedIsWhole
    <3>1. phase \in {"relaying", "cut", "completed"} => sent \o FlattenSeq(queue) = received
      BY <2>2 DEF StreamInv, InStep
    <3>2. ASSUME phase = "completed" PROVE HasDone(received)
      <4>1. queue = <<>> /\ tracker.done /\ sent \in Seq(Bytes) /\ Tracks(tracker, sent)
        BY <2>2, <3>2 DEF StreamInv, StreamTypes, InStep
      <4>2. sent = received
        BY <3>1, <3>2, <4>1, FlattenFacts, ConcatEmptySeq
      <4>. QED
        BY <4>1, <4>2, TracksFacts
    <3>. QED
      BY <3>1, <3>2 DEF CompletedIsWhole
  <2>. QED
    BY <2>1, <2>2 DEF StreamInv, EndedAsItsText
<1>. QED
  BY <1>1, StreamInvariance, PTL

=============================================================================
