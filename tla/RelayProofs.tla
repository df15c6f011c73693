----------------------------- MODULE RelayProofs ----------------------------
(***************************************************************************)
(* Proofs about ChatRelay, for any number of requests, any aliases, any    *)
(* budgets, any breaker settings, with a key for OpenAI or without.        *)
(***************************************************************************)
EXTENDS ChatRelay, TLAPS

Outcomes == {"success", "failure", "abandoned"}

-----------------------------------------------------------------------------
\* What the breaker's methods return, for any threshold and open time.

LEMMA NewBreakerType == NewBreaker \in Breaker
BY BreakerAssumption DEF NewBreaker, Breaker, State

\* _transition keeps the type and starts the next generation, slot free.
LEMMA TransitionFacts ==
    ASSUME NEW b \in Breaker, NEW s \in State
    PROVE  /\ Transition(b, s) \in Breaker
           /\ Transition(b, s).state = s
           /\ Transition(b, s).generation = b.generation + 1
           /\ Transition(b, s).probeInFlight = FALSE
           /\ Transition(b, s).failures = IF s = "closed" THEN 0 ELSE b.failures
           /\ Transition(b, s).sinceOpened = IF s = "open" THEN 0 ELSE b.sinceOpened
BY BreakerAssumption DEF Transition, Breaker, State

\* Setting the streak of failures touches nothing else.
LEMMA SetFailuresFacts ==
    ASSUME NEW b \in Breaker, NEW n \in Nat
    PROVE  LET c == [b EXCEPT !.failures = n]
           IN  /\ c \in Breaker
               /\ c.failures = n
               /\ c.state = b.state
               /\ c.generation = b.generation
               /\ c.probeInFlight = b.probeInFlight
               /\ c.sinceOpened = b.sinceOpened
BY DEF Breaker

\* Taking or freeing the probe slot touches nothing else.
LEMMA SetSlotFacts ==
    ASSUME NEW b \in Breaker, NEW p \in BOOLEAN
    PROVE  LET c == [b EXCEPT !.probeInFlight = p]
           IN  /\ c \in Breaker
               /\ c.probeInFlight = p
               /\ c.failures = b.failures
               /\ c.state = b.state
               /\ c.generation = b.generation
               /\ c.sinceOpened = b.sinceOpened
BY DEF Breaker

\* Time changes nothing but the time since the circuit opened.
LEMMA ElapseFacts ==
    ASSUME NEW b \in Breaker
    PROVE  /\ Elapse(b) \in Breaker
           /\ Elapse(b).failures = b.failures
           /\ Elapse(b).state = b.state
           /\ Elapse(b).generation = b.generation
           /\ Elapse(b).probeInFlight = b.probeInFlight
BY BreakerAssumption DEF Breaker, Elapse

\* A closed circuit lets the request through and is left as it was.
LEMMA BeginAttempt ==
    ASSUME NEW b \in Breaker, Begin(b).decision = "attempt"
    PROVE  /\ b.state = "closed"
           /\ Begin(b).breaker = b
           /\ Begin(b).generation = b.generation
<1>1. Refreshed(b).state = "closed"
  BY DEF Begin, Decision
<1>2. Refreshed(b) = b
  BY <1>1, TransitionFacts DEF Refreshed, State
<1>. QED
  BY <1>1, <1>2 DEF Begin, Breaker, Decision

\* A probe leaves from a half-open circuit with a free slot, or from an open
\* one whose time is up, which that very call makes half-open.
LEMMA BeginProbe ==
    ASSUME NEW b \in Breaker, Begin(b).decision = "probe"
    PROVE  /\ Begin(b).breaker \in Breaker
           /\ Begin(b).breaker.state = "half_open"
           /\ Begin(b).breaker.probeInFlight = TRUE
           /\ Begin(b).breaker.failures = b.failures
           /\ Begin(b).breaker.generation = Begin(b).generation
           /\ \/ /\ b.state = "half_open"
                 /\ b.probeInFlight = FALSE
                 /\ Begin(b).generation = b.generation
              \/ /\ b.state = "open"
                 /\ b.sinceOpened = OpenSeconds
                 /\ Begin(b).generation = b.generation + 1
<1>. DEFINE r == Refreshed(b)
<1>1. Decision(r) = "probe"
  BY DEF Begin
<1>2. r.state = "half_open" /\ ~r.probeInFlight
  BY <1>1 DEF Decision
<1>3. /\ r \in Breaker
      /\ r.failures = b.failures
      /\ \/ r = b
         \/ /\ b.state = "open"
            /\ b.sinceOpened = OpenSeconds
            /\ r.generation = b.generation + 1
  <2>1. CASE b.state = "open" /\ b.sinceOpened >= OpenSeconds
    <3>1. r = Transition(b, "half_open")
      BY <2>1 DEF Refreshed
    <3>2. "half_open" \in State
      BY DEF State
    <3>3. /\ Transition(b, "half_open") \in Breaker
          /\ Transition(b, "half_open").failures = b.failures
          /\ Transition(b, "half_open").generation = b.generation + 1
      BY <3>2, TransitionFacts
    <3>4. b.sinceOpened = OpenSeconds
      BY <2>1, BreakerAssumption DEF Breaker
    <3>. QED
      BY <2>1, <3>1, <3>3, <3>4
  <2>2. CASE ~(b.state = "open" /\ b.sinceOpened >= OpenSeconds)
    BY <2>2 DEF Refreshed
  <2>. QED
    BY <2>1, <2>2
<1>4. Begin(b).breaker = [r EXCEPT !.probeInFlight = TRUE] /\ Begin(b).generation = r.generation
  BY <1>1 DEF Begin
<1>5. /\ Begin(b).breaker \in Breaker
      /\ Begin(b).breaker.probeInFlight = TRUE
      /\ Begin(b).breaker.failures = r.failures
      /\ Begin(b).breaker.state = r.state
      /\ Begin(b).breaker.generation = r.generation
  BY <1>3, <1>4, SetSlotFacts
<1>6. r.probeInFlight = FALSE
  <2>1. r.probeInFlight \in BOOLEAN
    BY <1>3 DEF Breaker
  <2>. QED
    BY <1>2, <2>1
<1>7. \/ r = b
      \/ b.state = "open" /\ b.sinceOpened = OpenSeconds /\ r.generation = b.generation + 1
  BY <1>3
<1>8. r = b => b.state = "half_open" /\ b.probeInFlight = FALSE /\ r.generation = b.generation
  BY <1>2, <1>6
<1>. HIDE DEF r
<1>. QED
  BY <1>2, <1>3, <1>4, <1>5, <1>7, <1>8

\* A request told to skip leaves the circuit as it found it.
LEMMA BeginSkip ==
    ASSUME NEW b \in Breaker, Begin(b).decision = "skip"
    PROVE  Begin(b).breaker = b
<1>1. Decision(Refreshed(b)) = "skip"
  BY DEF Begin
<1>2. Refreshed(b) = b
  BY <1>1, TransitionFacts DEF Decision, Refreshed, State
<1>. QED
  BY <1>1, <1>2 DEF Begin, Breaker

LEMMA BeginDecides ==
    ASSUME NEW b \in Breaker
    PROVE  Begin(b).decision \in {"attempt", "probe", "skip"}
BY DEF Begin, Decision

-----------------------------------------------------------------------------
\* The inductive invariant.

\* What a request has done so far, from the await it is in.
Conduct(r) ==
    /\ phase[r] \in {"idle", "receiving", "discarding"} \cup WaitingForLocal =>
          openai[r] = "none" /\ served[r] = {}
    /\ phase[r] \in WaitingForOpenAI => openai[r] # "none" /\ served[r] = {}
    /\ openai[r] # "none" => alias[r] \in Eligible /\ ~refused[r]
    /\ "openai" \in served[r] => openai[r] # "none"
    /\ "local" \in served[r] => openai[r] = "none"
    /\ refused[r] => phase[r] \in {"reading_refusal", "done"}
    /\ openai[r] = "open" => phase[r] \in {"asking_body", "streaming", "closing"}
    /\ local[r] = "open" =>
          \/ phase[r] \in {"discarding", "streaming", "closing"} \cup WaitingForLocal
          \/ phase[r] = "done" /\ answer[r] = "dropped"

\* No await outlasts its deadline, and the deadline is that of the provider.
Timing(r) ==
    /\ phase[r] = "idle" => age[r] = 0
    /\ Waiting(r) => age[r] <= limit[r]
    /\ phase[r] \in {"receiving"} \cup WaitingForOpenAI => limit[r] = TotalLimit
    /\ phase[r] \in WaitingForLocal => limit[r] = LocalDeadline
    /\ phase[r] = "closing" => answer[r] \in {"served", "cut", "gone"}
    /\ phase[r] = "done" /\ alias[r] \in Eligible =>
            /\ answer[r] = "unavailable" => openai[r] # "none" \/ ~KeyConfigured
            /\ answer[r] = "timeout" => age[r] >= TotalLimit

\* A token is held only where its outcome will still be reported.
Holding(r) ==
    token[r] # NoToken =>
        /\ alias[r] \in Eligible
        /\ local[r] # "none"
        /\ phase[r] \in {"discarding", "streaming", "closing"} \cup WaitingForLocal

Proper(r) == Conduct(r) /\ Timing(r) /\ Holding(r)

RelayInv == TypeOK /\ \A r \in Requests : Proper(r)

-----------------------------------------------------------------------------
\* The pieces of the handlers.

LEMMA LimitsFacts ==
    /\ LocalLimit \in Nat /\ TotalLimit \in Nat /\ LocalDeadline \in Nat
    /\ LocalDeadline <= TotalLimit
    /\ Late = TotalLimit + 1 /\ Unbounded = TotalLimit + 2
BY RelayAssumption DEF LocalDeadline, Late, Unbounded

\* Whatever is reported, the breaker stays well formed.
LEMMA ReportedType ==
    ASSUME NEW b \in Breaker, NEW t \in LocalAttempt, NEW o \in Outcomes
    PROVE  Reported(b, t, o) \in Breaker
<1>1. RecordSuccess(b, t) \in Breaker
  BY TransitionFacts, SetFailuresFacts DEF RecordSuccess, State
<1>2. RecordFailure(b, t) \in Breaker
  <2>. DEFINE n == b.failures + 1
              c == [b EXCEPT !.failures = n]
  <2>1. n \in Nat
    BY DEF Breaker
  <2>2. c \in Breaker
    BY <2>1, SetFailuresFacts
  <2>3. /\ Transition(b, "open") \in Breaker
        /\ Transition(c, "open") \in Breaker
    BY <2>2, TransitionFacts DEF State
  <2>4. CountFailure(b) \in {Transition(c, "open"), c}
    BY DEF CountFailure
  <2>. HIDE DEF c
  <2>. QED
    BY <2>2, <2>3, <2>4 DEF RecordFailure
<1>3. Release(b, t) \in Breaker
  BY SetSlotFacts DEF Release
<1>. QED
  BY <1>1, <1>2, <1>3 DEF Reported, Outcomes

LEMMA FinishFacts ==
    ASSUME TypeOK, NEW r \in Requests, NEW a \in Answers, Finish(r, a)
    PROVE  /\ phase' \in [Requests -> Phases]
           /\ limit' \in [Requests -> 0 .. Unbounded]
           /\ answer' \in [Requests -> Answers]
           /\ phase'[r] = "done" /\ answer'[r] = a
           /\ \A q \in Requests : q # r =>
                 /\ phase'[q] = phase[q] /\ limit'[q] = limit[q] /\ answer'[q] = answer[q]
BY LimitsFacts DEF Finish, TypeOK, Phases

\* Concluding an attempt touches the token of the request and the breaker of
\* its alias.
LEMMA ConcludeFacts ==
    ASSUME TypeOK, NEW r \in Requests, NEW o \in Outcomes, Conclude(r, o)
    PROVE  /\ breakers' \in [Eligible -> Breaker]
           /\ token' \in [Requests -> LocalAttempt \cup {NoToken}]
           /\ \A q \in Requests : token'[q] = IF q = r THEN NoToken ELSE token[q]
<1>1. token' = [token EXCEPT ![r] = NoToken]
  BY DEF Conclude
<1>2. CASE token[r] = NoToken
  BY <1>1, <1>2 DEF Conclude, TypeOK
<1>3. CASE token[r] # NoToken /\ alias[r] \in Eligible
  <2>1. token[r] \in LocalAttempt /\ breakers[alias[r]] \in Breaker
    BY <1>3 DEF TypeOK
  <2>2. Reported(breakers[alias[r]], token[r], o) \in Breaker
    BY <2>1, ReportedType
  <2>3. breakers' = [breakers EXCEPT ![alias[r]] =
                                    Reported(breakers[alias[r]], token[r], o)]
    BY <1>3 DEF Conclude
  <2>4. breakers' \in [Eligible -> Breaker]
    BY <2>2, <2>3 DEF TypeOK
  <2>. QED
    BY <1>1, <2>4 DEF TypeOK
<1>4. CASE token[r] # NoToken /\ alias[r] \notin Eligible
  <2>1. breakers' \in [Eligible -> Breaker]
    BY <1>4 DEF Conclude, TypeOK
  <2>. QED
    BY <1>1, <2>1 DEF TypeOK
<1>. QED
  BY <1>2, <1>3, <1>4

\* The request as it is after the step is the request before it.
Untouched(q) ==
    /\ phase'[q] = phase[q] /\ alias'[q] = alias[q] /\ streaming'[q] = streaming[q]
    /\ age'[q] = age[q] /\ limit'[q] = limit[q] /\ token'[q] = token[q]
    /\ local'[q] = local[q] /\ openai'[q] = openai[q] /\ refused'[q] = refused[q]
    /\ served'[q] = served[q] /\ answer'[q] = answer[q]

LEMMA UntouchedProper ==
    ASSUME NEW q \in Requests, Proper(q), Untouched(q)
    PROVE  Proper(q)'
BY DEF Untouched, Proper, Conduct, Timing, Holding, Waiting

\* A step of one request keeps the invariant if it keeps the types and leaves
\* that request as it should be and the others as they are.
LEMMA OneRequestStep ==
    ASSUME RelayInv, NEW r \in Requests, TypeOK', Proper(r)',
           \A q \in Requests : q # r => Untouched(q)
    PROVE  RelayInv'
BY UntouchedProper DEF RelayInv

\* relay._fallback, as its callers see it.
LEMMA AskFacts ==
    ASSUME TypeOK, NEW r \in Requests, AskOpenAI(r)
    PROVE  /\ phase' \in [Requests -> Phases]
           /\ limit' \in [Requests -> 0 .. Unbounded]
           /\ answer' \in [Requests -> Answers]
           /\ openai' \in [Requests -> Handles]
           /\ \A q \in Requests : q # r =>
                 /\ phase'[q] = phase[q] /\ limit'[q] = limit[q]
                 /\ answer'[q] = answer[q] /\ openai'[q] = openai[q]
           /\ \/ /\ phase'[r] = "done" /\ openai'[r] = openai[r]
                 /\ \/ answer'[r] = "timeout" /\ age[r] >= TotalLimit
                    \/ answer'[r] = "unavailable" /\ ~KeyConfigured
              \/ /\ phase'[r] = "asking" /\ openai'[r] = "asked"
                 /\ limit'[r] = TotalLimit /\ age[r] < TotalLimit
                 /\ answer'[r] = answer[r]
<1>1. age[r] \in Nat
  BY LimitsFacts DEF TypeOK
<1>2. CASE age[r] >= TotalLimit
  <2>1. Finish(r, "timeout") /\ UNCHANGED openai
    BY <1>1, <1>2, LimitsFacts DEF AskOpenAI
  <2>. QED
    BY <1>2, <2>1, FinishFacts DEF TypeOK, Answers
<1>3. CASE age[r] < TotalLimit /\ ~KeyConfigured
  <2>1. Finish(r, "unavailable") /\ UNCHANGED openai
    BY <1>1, <1>3, LimitsFacts DEF AskOpenAI
  <2>. QED
    BY <1>3, <2>1, FinishFacts DEF TypeOK, Answers
<1>4. CASE age[r] < TotalLimit /\ KeyConfigured
  <2>1. /\ Await(r, "asking", TotalLimit)
        /\ openai' = [openai EXCEPT ![r] = "asked"]
    BY <1>1, <1>4, LimitsFacts DEF AskOpenAI
  <2>. QED
    BY <1>4, <2>1, LimitsFacts DEF Await, TypeOK, Phases, Handles, WaitingForOpenAI
<1>. QED
  BY <1>1, <1>2, <1>3, <1>4, LimitsFacts, RelayAssumption

\* A failed local attempt: its token is gone, and the request goes to OpenAI
\* or, when its alias may not, ends.
LEMMA LocalFailsFacts ==
    ASSUME TypeOK, NEW r \in Requests, LocalFails(r)
    PROVE  /\ breakers' \in [Eligible -> Breaker]
           /\ token' \in [Requests -> LocalAttempt \cup {NoToken}]
           /\ token'[r] = NoToken
           /\ phase' \in [Requests -> Phases]
           /\ limit' \in [Requests -> 0 .. Unbounded]
           /\ answer' \in [Requests -> Answers]
           /\ openai' \in [Requests -> Handles]
           /\ \A q \in Requests : q # r =>
                 /\ phase'[q] = phase[q] /\ limit'[q] = limit[q] /\ token'[q] = token[q]
                 /\ answer'[q] = answer[q] /\ openai'[q] = openai[q]
           /\ \/ /\ phase'[r] = "done" /\ openai'[r] = openai[r]
                 /\ alias[r] \in Eligible =>
                       \/ answer'[r] = "timeout" /\ age[r] >= TotalLimit
                       \/ answer'[r] = "unavailable" /\ ~KeyConfigured
                 /\ answer'[r] \in {"timeout", "unavailable"}
              \/ /\ phase'[r] = "asking" /\ openai'[r] = "asked"
                 /\ alias[r] \in Eligible
                 /\ limit'[r] = TotalLimit /\ age[r] < TotalLimit
                 /\ answer'[r] = answer[r]
<1>1. Conclude(r, "failure") /\ "failure" \in Outcomes
  BY DEF LocalFails, Outcomes
<1>2. CASE alias[r] \in Eligible
  <2>1. AskOpenAI(r)
    BY <1>2 DEF LocalFails
  <2>. QED
    BY <1>1, <1>2, <2>1, ConcludeFacts, AskFacts
<1>3. CASE alias[r] \notin Eligible
  <2>1. Finish(r, "unavailable") /\ UNCHANGED openai
    BY <1>3 DEF LocalFails
  <2>. QED
    BY <1>1, <1>3, <2>1, ConcludeFacts, FinishFacts DEF TypeOK, Answers
<1>. QED
  BY <1>2, <1>3

-----------------------------------------------------------------------------
\* Each step keeps the invariant.

LEMMA InitRelayInv == Init => RelayInv
<1>. SUFFICES ASSUME Init PROVE RelayInv
  OBVIOUS
<1>1. TypeOK
  BY NewBreakerType, LimitsFacts DEF Init, TypeOK, Phases, Handles, Answers
<1>2. ASSUME NEW r \in Requests PROVE Proper(r)
  BY DEF Init, Proper, Conduct, Timing, Holding, Waiting, WaitingForLocal, WaitingForOpenAI
<1>. QED
  BY <1>1, <1>2 DEF RelayInv

LEMMA ArriveStep ==
    ASSUME RelayInv, NEW r \in Requests, Arrive(r)
    PROVE  RelayInv'
<1>1. TypeOK'
  BY LimitsFacts DEF RelayInv, TypeOK, Arrive, Await, Phases
<1>2. \A q \in Requests : q # r => Untouched(q)
  BY DEF RelayInv, TypeOK, Arrive, Await, Untouched
<1>3. Proper(r)'
  BY LimitsFacts DEF RelayInv, TypeOK, Arrive, Await, Proper, Conduct, Timing,
     Holding, Waiting, WaitingForLocal, WaitingForOpenAI
<1>. QED
  BY <1>1, <1>2, <1>3, OneRequestStep

LEMMA BodyLateStep ==
    ASSUME RelayInv, NEW r \in Requests, BodyLate(r)
    PROVE  RelayInv'
<1>1. TypeOK'
  BY LimitsFacts DEF RelayInv, TypeOK, BodyLate, Finish, Phases, Handles, Answers,
     WaitingForLocal, WaitingForOpenAI
<1>2. \A q \in Requests : q # r => Untouched(q)
  BY DEF RelayInv, TypeOK, BodyLate, Finish, Untouched
<1>3. Proper(r)'
  BY LimitsFacts DEF RelayInv, TypeOK, BodyLate, Finish, Proper, Conduct, Timing,
     Holding, Waiting, WaitingForLocal, WaitingForOpenAI
<1>. QED
  BY <1>1, <1>2, <1>3, OneRequestStep

LEMMA RejectStep ==
    ASSUME RelayInv, NEW r \in Requests, Reject(r)
    PROVE  RelayInv'
<1>1. TypeOK'
  BY LimitsFacts DEF RelayInv, TypeOK, Reject, Finish, Phases, Handles, Answers,
     WaitingForLocal, WaitingForOpenAI
<1>2. \A q \in Requests : q # r => Untouched(q)
  BY DEF RelayInv, TypeOK, Reject, Finish, Untouched
<1>3. Proper(r)'
  BY LimitsFacts DEF RelayInv, TypeOK, Reject, Finish, Proper, Conduct, Timing,
     Holding, Waiting, WaitingForLocal, WaitingForOpenAI
<1>. QED
  BY <1>1, <1>2, <1>3, OneRequestStep

LEMMA LocalBadStatusStep ==
    ASSUME RelayInv, NEW r \in Requests, LocalBadStatus(r)
    PROVE  RelayInv'
<1>1. TypeOK'
  BY LimitsFacts DEF RelayInv, TypeOK, LocalBadStatus, Await, Phases, Handles, Answers,
     WaitingForLocal, WaitingForOpenAI
<1>2. \A q \in Requests : q # r => Untouched(q)
  BY DEF RelayInv, TypeOK, LocalBadStatus, Await, Untouched
<1>3. Proper(r)'
  BY LimitsFacts DEF RelayInv, TypeOK, LocalBadStatus, Await, Proper, Conduct, Timing,
     Holding, Waiting, WaitingForLocal, WaitingForOpenAI
<1>. QED
  BY <1>1, <1>2, <1>3, OneRequestStep

LEMMA LocalRefusesStep ==
    ASSUME RelayInv, NEW r \in Requests, LocalRefuses(r)
    PROVE  RelayInv'
<1>1. TypeOK'
  BY LimitsFacts DEF RelayInv, TypeOK, LocalRefuses, Await, Phases, Handles, Answers,
     WaitingForLocal, WaitingForOpenAI
<1>2. \A q \in Requests : q # r => Untouched(q)
  BY DEF RelayInv, TypeOK, LocalRefuses, Await, Untouched
<1>3. Proper(r)'
  BY LimitsFacts DEF RelayInv, TypeOK, LocalRefuses, Await, Proper, Conduct, Timing,
     Holding, Waiting, WaitingForLocal, WaitingForOpenAI
<1>. QED
  BY <1>1, <1>2, <1>3, OneRequestStep

LEMMA LocalAcceptsStep ==
    ASSUME RelayInv, NEW r \in Requests, LocalAccepts(r)
    PROVE  RelayInv'
<1>1. TypeOK'
  BY LimitsFacts DEF RelayInv, TypeOK, LocalAccepts, Await, Phases, Handles, Answers,
     WaitingForLocal, WaitingForOpenAI
<1>2. \A q \in Requests : q # r => Untouched(q)
  BY DEF RelayInv, TypeOK, LocalAccepts, Await, Untouched
<1>3. Proper(r)'
  BY LimitsFacts DEF RelayInv, TypeOK, LocalAccepts, Await, Proper, Conduct, Timing,
     Holding, Waiting, WaitingForLocal, WaitingForOpenAI
<1>. QED
  BY <1>1, <1>2, <1>3, OneRequestStep

LEMMA CommitLocalStep ==
    ASSUME RelayInv, NEW r \in Requests, CommitLocal(r)
    PROVE  RelayInv'
<1>1. TypeOK'
  BY LimitsFacts DEF RelayInv, TypeOK, CommitLocal, Await, Phases, Handles, Answers,
     WaitingForLocal, WaitingForOpenAI
<1>2. \A q \in Requests : q # r => Untouched(q)
  BY DEF RelayInv, TypeOK, CommitLocal, Await, Untouched
<1>3. Proper(r)'
  BY LimitsFacts DEF RelayInv, TypeOK, CommitLocal, Await, Proper, Conduct, Timing,
     Holding, Waiting, WaitingForLocal, WaitingForOpenAI
<1>. QED
  BY <1>1, <1>2, <1>3, OneRequestStep

LEMMA ServeOpenAIStep ==
    ASSUME RelayInv, NEW r \in Requests, ServeOpenAI(r)
    PROVE  RelayInv'
<1>1. TypeOK'
  BY LimitsFacts DEF RelayInv, TypeOK, ServeOpenAI, Finish, Phases, Handles, Answers,
     WaitingForLocal, WaitingForOpenAI
<1>2. \A q \in Requests : q # r => Untouched(q)
  BY DEF RelayInv, TypeOK, ServeOpenAI, Finish, Untouched
<1>3. Proper(r)'
  BY LimitsFacts DEF RelayInv, TypeOK, ServeOpenAI, Finish, Proper, Conduct, Timing,
     Holding, Waiting, WaitingForLocal, WaitingForOpenAI
<1>. QED
  BY <1>1, <1>2, <1>3, OneRequestStep

LEMMA OpenAIHeadersStep ==
    ASSUME RelayInv, NEW r \in Requests, OpenAIHeaders(r)
    PROVE  RelayInv'
<1>1. TypeOK'
  BY LimitsFacts DEF RelayInv, TypeOK, OpenAIHeaders, Await, Phases, Handles, Answers,
     WaitingForLocal, WaitingForOpenAI
<1>2. \A q \in Requests : q # r => Untouched(q)
  BY DEF RelayInv, TypeOK, OpenAIHeaders, Await, Untouched
<1>3. Proper(r)'
  BY LimitsFacts DEF RelayInv, TypeOK, OpenAIHeaders, Await, Proper, Conduct, Timing,
     Holding, Waiting, WaitingForLocal, WaitingForOpenAI
<1>. QED
  BY <1>1, <1>2, <1>3, OneRequestStep

LEMMA OpenAIFailsStep ==
    ASSUME RelayInv, NEW r \in Requests, OpenAIFails(r)
    PROVE  RelayInv'
<1>1. TypeOK'
  BY LimitsFacts DEF RelayInv, TypeOK, OpenAIFails, Finish, Phases, Handles, Answers,
     WaitingForLocal, WaitingForOpenAI
<1>2. \A q \in Requests : q # r => Untouched(q)
  BY DEF RelayInv, TypeOK, OpenAIFails, Finish, Untouched
<1>3. Proper(r)'
  BY LimitsFacts DEF RelayInv, TypeOK, OpenAIFails, Finish, Proper, Conduct, Timing,
     Holding, Waiting, WaitingForLocal, WaitingForOpenAI
<1>. QED
  BY <1>1, <1>2, <1>3, OneRequestStep

LEMMA CommitOpenAIStep ==
    ASSUME RelayInv, NEW r \in Requests, CommitOpenAI(r)
    PROVE  RelayInv'
<1>1. TypeOK'
  BY LimitsFacts DEF RelayInv, TypeOK, CommitOpenAI, Await, Phases, Handles, Answers,
     WaitingForLocal, WaitingForOpenAI
<1>2. \A q \in Requests : q # r => Untouched(q)
  BY DEF RelayInv, TypeOK, CommitOpenAI, Await, Untouched
<1>3. Proper(r)'
  BY LimitsFacts DEF RelayInv, TypeOK, CommitOpenAI, Await, Proper, Conduct, Timing,
     Holding, Waiting, WaitingForLocal, WaitingForOpenAI
<1>. QED
  BY <1>1, <1>2, <1>3, OneRequestStep

LEMMA ServeRefusalStep ==
    ASSUME RelayInv, NEW r \in Requests, ServeRefusal(r)
    PROVE  RelayInv'
<1>0. /\ breakers' \in [Eligible -> Breaker]
      /\ token' \in [Requests -> LocalAttempt \cup {NoToken}]
      /\ \A q \in Requests : token'[q] = IF q = r THEN NoToken ELSE token[q]
      /\ phase' \in [Requests -> Phases]
      /\ limit' \in [Requests -> 0 .. Unbounded]
      /\ answer' \in [Requests -> Answers]
      /\ phase'[r] = "done" /\ answer'[r] = "refused"
      /\ \A q \in Requests : q # r =>
            /\ phase'[q] = phase[q] /\ limit'[q] = limit[q] /\ answer'[q] = answer[q]
  BY ConcludeFacts, FinishFacts DEF RelayInv, ServeRefusal, Outcomes, Answers
<1>1. TypeOK'
  <2>1. /\ served' \in [Requests -> SUBSET {"local", "openai"}]
        /\ local' \in [Requests -> Handles]
    BY DEF RelayInv, TypeOK, ServeRefusal, Handles
  <2>. QED
    BY <1>0, <2>1 DEF RelayInv, TypeOK, ServeRefusal
<1>2. \A q \in Requests : q # r => Untouched(q)
  BY <1>0 DEF RelayInv, TypeOK, ServeRefusal, Untouched
<1>3. Proper(r)'
  BY <1>0, LimitsFacts DEF RelayInv, TypeOK, ServeRefusal, Proper, Conduct, Timing,
     Holding, Waiting, WaitingForLocal, WaitingForOpenAI
<1>. QED
  BY <1>1, <1>2, <1>3, OneRequestStep

LEMMA ServeLocalStep ==
    ASSUME RelayInv, NEW r \in Requests, ServeLocal(r)
    PROVE  RelayInv'
<1>0. /\ breakers' \in [Eligible -> Breaker]
      /\ token' \in [Requests -> LocalAttempt \cup {NoToken}]
      /\ \A q \in Requests : token'[q] = IF q = r THEN NoToken ELSE token[q]
      /\ phase' \in [Requests -> Phases]
      /\ limit' \in [Requests -> 0 .. Unbounded]
      /\ answer' \in [Requests -> Answers]
      /\ phase'[r] = "done" /\ answer'[r] = "served"
      /\ \A q \in Requests : q # r =>
            /\ phase'[q] = phase[q] /\ limit'[q] = limit[q] /\ answer'[q] = answer[q]
  BY ConcludeFacts, FinishFacts DEF RelayInv, ServeLocal, Outcomes, Answers
<1>1. TypeOK'
  BY <1>0 DEF RelayInv, TypeOK, ServeLocal, Handles
<1>2. \A q \in Requests : q # r => Untouched(q)
  BY <1>0 DEF RelayInv, TypeOK, ServeLocal, Untouched
<1>3. Proper(r)'
  BY <1>0, LimitsFacts DEF RelayInv, TypeOK, ServeLocal, Proper, Conduct, Timing,
     Holding, Waiting, WaitingForLocal, WaitingForOpenAI
<1>. QED
  BY <1>1, <1>2, <1>3, OneRequestStep

LEMMA StreamCompletesStep ==
    ASSUME RelayInv, NEW r \in Requests, StreamCompletes(r)
    PROVE  RelayInv'
<1>0. /\ breakers' \in [Eligible -> Breaker]
      /\ token' \in [Requests -> LocalAttempt \cup {NoToken}]
      /\ \A q \in Requests : token'[q] = IF q = r THEN NoToken ELSE token[q]
  BY ConcludeFacts DEF RelayInv, StreamCompletes, Outcomes
<1>1. TypeOK'
  BY <1>0 DEF RelayInv, TypeOK, StreamCompletes, Phases, Handles, Answers,
     WaitingForLocal, WaitingForOpenAI
<1>2. \A q \in Requests : q # r => Untouched(q)
  BY <1>0 DEF RelayInv, TypeOK, StreamCompletes, Untouched
<1>3. Proper(r)'
  BY <1>0, LimitsFacts DEF RelayInv, TypeOK, StreamCompletes, Proper, Conduct, Timing,
     Holding, Waiting, WaitingForLocal, WaitingForOpenAI
<1>. QED
  BY <1>1, <1>2, <1>3, OneRequestStep

LEMMA StreamCutStep ==
    ASSUME RelayInv, NEW r \in Requests, StreamCut(r)
    PROVE  RelayInv'
<1>0. /\ breakers' \in [Eligible -> Breaker]
      /\ token' \in [Requests -> LocalAttempt \cup {NoToken}]
      /\ \A q \in Requests : token'[q] = IF q = r THEN NoToken ELSE token[q]
  BY ConcludeFacts DEF RelayInv, StreamCut, Outcomes
<1>1. TypeOK'
  BY <1>0 DEF RelayInv, TypeOK, StreamCut, Phases, Handles, Answers,
     WaitingForLocal, WaitingForOpenAI
<1>2. \A q \in Requests : q # r => Untouched(q)
  BY <1>0 DEF RelayInv, TypeOK, StreamCut, Untouched
<1>3. Proper(r)'
  BY <1>0, LimitsFacts DEF RelayInv, TypeOK, StreamCut, Proper, Conduct, Timing,
     Holding, Waiting, WaitingForLocal, WaitingForOpenAI
<1>. QED
  BY <1>1, <1>2, <1>3, OneRequestStep

LEMMA CleanupStep ==
    ASSUME RelayInv, NEW r \in Requests, Cleanup(r)
    PROVE  RelayInv'
<1>0. /\ breakers' \in [Eligible -> Breaker]
      /\ token' \in [Requests -> LocalAttempt \cup {NoToken}]
      /\ \A q \in Requests : token'[q] = IF q = r THEN NoToken ELSE token[q]
  BY ConcludeFacts DEF RelayInv, Cleanup, Outcomes
<1>1. TypeOK'
  BY <1>0 DEF RelayInv, TypeOK, Cleanup, Phases, Handles, Answers,
     WaitingForLocal, WaitingForOpenAI
<1>2. \A q \in Requests : q # r => Untouched(q)
  BY <1>0 DEF RelayInv, TypeOK, Cleanup, Untouched
<1>3. Proper(r)'
  BY <1>0, LimitsFacts DEF RelayInv, TypeOK, Cleanup, Proper, Conduct, Timing,
     Holding, Waiting, WaitingForLocal, WaitingForOpenAI
<1>. QED
  BY <1>1, <1>2, <1>3, OneRequestStep

LEMMA CancelStep ==
    ASSUME RelayInv, NEW r \in Requests, Cancel(r)
    PROVE  RelayInv'
<1>0. /\ breakers' \in [Eligible -> Breaker]
      /\ token' \in [Requests -> LocalAttempt \cup {NoToken}]
      /\ \A q \in Requests : token'[q] = IF q = r THEN NoToken ELSE token[q]
      /\ phase' \in [Requests -> Phases]
      /\ limit' \in [Requests -> 0 .. Unbounded]
      /\ answer' \in [Requests -> Answers]
      /\ phase'[r] = "done" /\ answer'[r] = "gone"
      /\ \A q \in Requests : q # r =>
            /\ phase'[q] = phase[q] /\ limit'[q] = limit[q] /\ answer'[q] = answer[q]
  BY ConcludeFacts, FinishFacts DEF RelayInv, Cancel, Outcomes, Answers
<1>1. TypeOK'
  BY <1>0 DEF RelayInv, TypeOK, Cancel, Handles
<1>2. \A q \in Requests : q # r => Untouched(q)
  BY <1>0 DEF RelayInv, TypeOK, Cancel, Untouched
<1>3. Proper(r)'
  BY <1>0, LimitsFacts DEF RelayInv, TypeOK, Cancel, Proper, Conduct, Timing,
     Holding, Waiting, WaitingForLocal, WaitingForOpenAI
<1>. QED
  BY <1>1, <1>2, <1>3, OneRequestStep

LEMMA CancelDiscardingStep ==
    ASSUME RelayInv, NEW r \in Requests, CancelDiscarding(r)
    PROVE  RelayInv'
<1>0. /\ breakers' \in [Eligible -> Breaker]
      /\ token' \in [Requests -> LocalAttempt \cup {NoToken}]
      /\ \A q \in Requests : token'[q] = IF q = r THEN NoToken ELSE token[q]
      /\ phase' \in [Requests -> Phases]
      /\ limit' \in [Requests -> 0 .. Unbounded]
      /\ answer' \in [Requests -> Answers]
      /\ phase'[r] = "done" /\ answer'[r] = "dropped"
      /\ \A q \in Requests : q # r =>
            /\ phase'[q] = phase[q] /\ limit'[q] = limit[q] /\ answer'[q] = answer[q]
  BY ConcludeFacts, FinishFacts DEF RelayInv, CancelDiscarding, Outcomes, Answers
<1>1. TypeOK'
  BY <1>0 DEF RelayInv, TypeOK, CancelDiscarding, Handles
<1>2. \A q \in Requests : q # r => Untouched(q)
  BY <1>0 DEF RelayInv, TypeOK, CancelDiscarding, Untouched
<1>3. Proper(r)'
  BY <1>0, LimitsFacts DEF RelayInv, TypeOK, CancelDiscarding, Proper, Conduct, Timing,
     Holding, Waiting, WaitingForLocal, WaitingForOpenAI
<1>. QED
  BY <1>1, <1>2, <1>3, OneRequestStep

\* What a failed local attempt leaves of the request, whichever step found
\* it failed.
LEMMA LocalFailsStep ==
    ASSUME RelayInv, NEW r \in Requests, LocalFails(r),
           phase[r] \in {"sending", "reading", "inspecting", "discarding"},
           local' = [local EXCEPT ![r] = "closed"],
           UNCHANGED <<alias, streaming, age, refused, served>>
    PROVE  RelayInv'
<1>0. /\ breakers' \in [Eligible -> Breaker]
      /\ token' \in [Requests -> LocalAttempt \cup {NoToken}]
      /\ token'[r] = NoToken
      /\ phase' \in [Requests -> Phases]
      /\ limit' \in [Requests -> 0 .. Unbounded]
      /\ answer' \in [Requests -> Answers]
      /\ openai' \in [Requests -> Handles]
      /\ \A q \in Requests : q # r =>
            /\ phase'[q] = phase[q] /\ limit'[q] = limit[q] /\ token'[q] = token[q]
            /\ answer'[q] = answer[q] /\ openai'[q] = openai[q]
      /\ \/ /\ phase'[r] = "done" /\ openai'[r] = openai[r]
            /\ alias[r] \in Eligible =>
                  \/ answer'[r] = "timeout" /\ age[r] >= TotalLimit
                  \/ answer'[r] = "unavailable" /\ ~KeyConfigured
            /\ answer'[r] \in {"timeout", "unavailable"}
         \/ /\ phase'[r] = "asking" /\ openai'[r] = "asked"
            /\ alias[r] \in Eligible
            /\ limit'[r] = TotalLimit /\ age[r] < TotalLimit
            /\ answer'[r] = answer[r]
  BY LocalFailsFacts DEF RelayInv
<1>1. TypeOK'
  BY <1>0 DEF RelayInv, TypeOK, Handles
<1>2. \A q \in Requests : q # r => Untouched(q)
  BY <1>0 DEF RelayInv, TypeOK, Untouched
<1>3. local'[r] = "closed" /\ age[r] \in Nat
  BY LimitsFacts DEF RelayInv, TypeOK
<1>4. Proper(r)'
  BY <1>0, <1>3, LimitsFacts DEF RelayInv, Proper, Conduct, Timing, Holding, Waiting,
     WaitingForLocal, WaitingForOpenAI
<1>. QED
  BY <1>1, <1>2, <1>4, OneRequestStep

LEMMA LocalAttemptFailsStep ==
    ASSUME RelayInv, NEW r \in Requests,
           LocalUnreachable(r) \/ Discarded(r) \/ LocalUnreadable(r)
    PROVE  RelayInv'
BY LocalFailsStep DEF LocalUnreachable, Discarded, LocalUnreadable

\* The aliases without fallback never reach the breakers.
LEMMA RouteLocalOnlyStep ==
    ASSUME RelayInv, NEW r \in Requests, RouteLocalOnly(r)
    PROVE  RelayInv'
<1>0. /\ phase[r] = "receiving" /\ alias[r] \notin Eligible
      /\ UNCHANGED <<breakers, alias, streaming, age, token, openai, refused, served>>
  BY RelayAssumption DEF RouteLocalOnly
<1>1. CASE (Finish(r, "timeout") \/ Finish(r, "unavailable")) /\ UNCHANGED local
  <2>1. /\ phase' \in [Requests -> Phases]
        /\ limit' \in [Requests -> 0 .. Unbounded]
        /\ answer' \in [Requests -> Answers]
        /\ phase'[r] = "done"
        /\ \A q \in Requests : q # r =>
              /\ phase'[q] = phase[q] /\ limit'[q] = limit[q] /\ answer'[q] = answer[q]
    BY <1>1, FinishFacts DEF RelayInv, Answers
  <2>2. TypeOK'
    BY <1>0, <1>1, <2>1 DEF RelayInv, TypeOK
  <2>3. \A q \in Requests : q # r => Untouched(q)
    BY <1>0, <1>1, <2>1 DEF Untouched
  <2>4. Proper(r)'
    BY <1>0, <1>1, <2>1 DEF RelayInv, Proper, Conduct, Timing, Holding, Waiting,
       WaitingForLocal, WaitingForOpenAI
  <2>. QED
    BY <2>2, <2>3, <2>4, OneRequestStep
<1>2. CASE /\ age[r] < LocalDeadline
           /\ Await(r, "sending", LocalDeadline)
           /\ local' = [local EXCEPT ![r] = "asked"]
  <2>1. TypeOK'
    BY <1>0, <1>2, LimitsFacts DEF RelayInv, TypeOK, Await, Phases, Handles, WaitingForLocal
  <2>2. \A q \in Requests : q # r => Untouched(q)
    BY <1>0, <1>2 DEF RelayInv, TypeOK, Await, Untouched
  <2>3. Proper(r)'
    BY <1>0, <1>2, LimitsFacts DEF RelayInv, TypeOK, Await, Proper, Conduct, Timing,
       Holding, Waiting, WaitingForLocal, WaitingForOpenAI
  <2>. QED
    BY <2>1, <2>2, <2>3, OneRequestStep
<1>. QED
  BY <1>1, <1>2 DEF RouteLocalOnly

\* begin() leaves the breaker well formed, and the token is one to report by.
LEMMA BeginType ==
    ASSUME NEW b \in Breaker
    PROVE  /\ Begin(b).breaker \in Breaker
           /\ Begin(b).decision # "skip" =>
                 [decision |-> Begin(b).decision, generation |-> Begin(b).generation]
                    \in LocalAttempt
<1>1. CASE Begin(b).decision = "skip"
  BY <1>1, BeginSkip
<1>2. CASE Begin(b).decision = "attempt"
  BY <1>2, BeginAttempt DEF LocalAttempt, LocalDecision, Breaker
<1>3. CASE Begin(b).decision = "probe"
  <2>1. Begin(b).breaker \in Breaker /\ Begin(b).breaker.generation = Begin(b).generation
    BY <1>3, BeginProbe
  <2>2. Begin(b).generation \in Nat
    BY <2>1 DEF Breaker
  <2>. QED
    BY <1>3, <2>1, <2>2 DEF LocalAttempt, LocalDecision
<1>. QED
  BY <1>1, <1>2, <1>3, BeginDecides

\* The breaker of the alias changes, the token does not, and OpenAI is asked.
LEMMA RouteToOpenAIStep ==
    ASSUME RelayInv, NEW r \in Requests, phase[r] = "receiving", alias[r] \in Eligible,
           breakers' \in [Eligible -> Breaker], AskOpenAI(r),
           UNCHANGED <<alias, streaming, age, token, local, refused, served>>
    PROVE  RelayInv'
<1>0. /\ phase' \in [Requests -> Phases]
      /\ limit' \in [Requests -> 0 .. Unbounded]
      /\ answer' \in [Requests -> Answers]
      /\ openai' \in [Requests -> Handles]
      /\ \A q \in Requests : q # r =>
            /\ phase'[q] = phase[q] /\ limit'[q] = limit[q]
            /\ answer'[q] = answer[q] /\ openai'[q] = openai[q]
      /\ \/ /\ phase'[r] = "done" /\ openai'[r] = openai[r]
            /\ \/ answer'[r] = "timeout" /\ age[r] >= TotalLimit
               \/ answer'[r] = "unavailable" /\ ~KeyConfigured
         \/ /\ phase'[r] = "asking" /\ openai'[r] = "asked"
            /\ limit'[r] = TotalLimit /\ age[r] < TotalLimit
            /\ answer'[r] = answer[r]
  BY AskFacts DEF RelayInv
<1>1. TypeOK'
  BY <1>0 DEF RelayInv, TypeOK
<1>2. \A q \in Requests : q # r => Untouched(q)
  BY <1>0 DEF Untouched
<1>3. age[r] \in Nat
  BY LimitsFacts DEF RelayInv, TypeOK
<1>4. Proper(r)'
  BY <1>0, <1>3, LimitsFacts DEF RelayInv, Proper, Conduct, Timing, Holding, Waiting,
     WaitingForLocal, WaitingForOpenAI
<1>. QED
  BY <1>1, <1>2, <1>4, OneRequestStep

LEMMA RouteSkipStep ==
    ASSUME RelayInv, NEW r \in Requests, RouteSkip(r)
    PROVE  RelayInv'
<1>1. breakers[alias[r]] \in Breaker
  BY DEF RelayInv, TypeOK, RouteSkip
<1>2. breakers' = [breakers EXCEPT ![alias[r]] = Begin(breakers[alias[r]]).breaker]
  BY DEF RouteSkip
<1>3. breakers' \in [Eligible -> Breaker]
  BY <1>1, <1>2, BeginType DEF RelayInv, TypeOK
<1>. QED
  BY <1>3, RouteToOpenAIStep DEF RouteSkip

\* The breaker after begin(), and the token begin() hands out.
LEMMA BegunType ==
    ASSUME RelayInv, NEW r \in Requests, GetsSlot(r)
    PROVE  /\ alias[r] \in Eligible /\ breakers[alias[r]] \in Breaker
           /\ BegunBreakers(r) \in [Eligible -> Breaker]
           /\ BegunToken(r) \in LocalAttempt
<1>1. breakers[alias[r]] \in Breaker /\ alias[r] \in Eligible
  BY DEF RelayInv, TypeOK, GetsSlot
<1>. QED
  BY <1>1, BeginType DEF RelayInv, TypeOK, GetsSlot, BegunBreakers, BegunToken

LEMMA RouteTooLateStep ==
    ASSUME RelayInv, NEW r \in Requests, RouteTooLate(r)
    PROVE  RelayInv'
<1>. DEFINE bs == BegunBreakers(r)
            b  == Release(bs[alias[r]], BegunToken(r))
<1>0. GetsSlot(r)
  BY DEF RouteTooLate
<1>1. /\ bs \in [Eligible -> Breaker] /\ bs[alias[r]] \in Breaker
      /\ BegunToken(r) \in LocalAttempt
  BY <1>0, BegunType
<1>2. b \in Breaker
  BY <1>1, SetSlotFacts DEF Release
<1>3. breakers' = [bs EXCEPT ![alias[r]] = b]
  BY DEF RouteTooLate
<1>. HIDE DEF bs, b
<1>4. breakers' \in [Eligible -> Breaker]
  BY <1>1, <1>2, <1>3
<1>. QED
  BY <1>4, RouteToOpenAIStep DEF RouteTooLate, GetsSlot

LEMMA RouteLocalStep ==
    ASSUME RelayInv, NEW r \in Requests, RouteLocal(r)
    PROVE  RelayInv'
<1>0. /\ breakers' \in [Eligible -> Breaker]
      /\ token' \in [Requests -> LocalAttempt \cup {NoToken}]
      /\ \A q \in Requests : q # r => token'[q] = token[q]
      /\ alias[r] \in Eligible
  BY BegunType DEF RouteLocal, RelayInv, TypeOK
<1>1. TypeOK'
  BY <1>0, LimitsFacts DEF RelayInv, TypeOK, RouteLocal, Await, Phases, Handles, WaitingForLocal
<1>2. \A q \in Requests : q # r => Untouched(q)
  BY <1>0 DEF RelayInv, TypeOK, RouteLocal, Await, Untouched
<1>3. Proper(r)'
  BY <1>0, LimitsFacts DEF RelayInv, TypeOK, RouteLocal, GetsSlot, Await, Proper, Conduct,
     Timing, Holding, Waiting, WaitingForLocal, WaitingForOpenAI
<1>. QED
  BY <1>1, <1>2, <1>3, OneRequestStep

\* Whether the token goes at once or with the close, the stream is over.
LEMMA StreamAbandonedStep ==
    ASSUME RelayInv, NEW r \in Requests, StreamAbandoned(r)
    PROVE  RelayInv'
<1>0. /\ breakers' \in [Eligible -> Breaker]
      /\ token' \in [Requests -> LocalAttempt \cup {NoToken}]
      /\ \A q \in Requests : q # r => token'[q] = token[q]
      /\ token'[r] \in {token[r], NoToken}
  <2>1. CASE Conclude(r, "abandoned")
    BY <2>1, ConcludeFacts DEF RelayInv, Outcomes
  <2>2. CASE UNCHANGED <<breakers, token>>
    BY <2>2 DEF RelayInv, TypeOK
  <2>. QED
    BY <2>1, <2>2 DEF StreamAbandoned
<1>1. TypeOK'
  BY <1>0 DEF RelayInv, TypeOK, StreamAbandoned, Phases, Answers
<1>2. \A q \in Requests : q # r => Untouched(q)
  BY <1>0 DEF RelayInv, TypeOK, StreamAbandoned, Untouched
<1>3. Proper(r)'
  BY <1>0 DEF RelayInv, TypeOK, StreamAbandoned, Proper, Conduct, Timing, Holding, Waiting,
     WaitingForLocal, WaitingForOpenAI
<1>. QED
  BY <1>1, <1>2, <1>3, OneRequestStep

LEMMA TickStep == ASSUME RelayInv, Tick PROVE RelayInv'
<1>1. \A r \in Requests : age[r] \in 0 .. Late /\ limit[r] \in 0 .. Unbounded
  BY DEF RelayInv, TypeOK
<1>2. age' \in [Requests -> 0 .. Late]
  BY <1>1, LimitsFacts DEF Tick
<1>3. breakers' \in [Eligible -> Breaker]
  BY ElapseFacts DEF Tick, RelayInv, TypeOK
<1>4. TypeOK'
  BY <1>2, <1>3 DEF Tick, RelayInv, TypeOK
<1>5. ASSUME NEW r \in Requests PROVE Proper(r)'
  <2>1. /\ Waiting(r) => age'[r] <= limit[r] /\ age'[r] \in Nat
        /\ ~Waiting(r) => age'[r] = age[r]
    BY <1>1, LimitsFacts DEF Tick
  <2>. QED
    BY <2>1 DEF RelayInv, Tick, Proper, Conduct, Timing, Holding, Waiting,
       WaitingForLocal, WaitingForOpenAI
<1>. QED
  BY <1>4, <1>5 DEF RelayInv

LEMMA StutterStep == ASSUME RelayInv, UNCHANGED vars PROVE RelayInv'
<1>1. TypeOK'
  BY DEF RelayInv, TypeOK, vars
<1>2. \A q \in Requests : Untouched(q)
  BY DEF vars, Untouched
<1>. QED
  BY <1>1, <1>2, UntouchedProper DEF RelayInv

LEMMA NextRelayInv == RelayInv /\ [Next]_vars => RelayInv'
<1>. SUFFICES ASSUME RelayInv, [Next]_vars PROVE RelayInv'
  OBVIOUS
<1>1. ASSUME NEW r \in Requests, Arrive(r) \/ BodyLate(r) \/ Reject(r) PROVE RelayInv'
  BY <1>1, ArriveStep, BodyLateStep, RejectStep
<1>2. ASSUME NEW r \in Requests, Route(r) PROVE RelayInv'
  BY <1>2, RouteSkipStep, RouteTooLateStep, RouteLocalStep, RouteLocalOnlyStep DEF Route
<1>3. ASSUME NEW r \in Requests, LocalStep(r) PROVE RelayInv'
  BY <1>3, LocalAttemptFailsStep, LocalBadStatusStep, LocalRefusesStep, ServeRefusalStep,
     LocalAcceptsStep, ServeLocalStep, CommitLocalStep DEF LocalStep
<1>4. ASSUME NEW r \in Requests, OpenAIStep(r) PROVE RelayInv'
  BY <1>4, ServeOpenAIStep, OpenAIHeadersStep, OpenAIFailsStep, CommitOpenAIStep
  DEF OpenAIStep
<1>5. ASSUME NEW r \in Requests, StreamEnds(r) \/ Cleanup(r) PROVE RelayInv'
  BY <1>5, StreamCompletesStep, StreamCutStep, StreamAbandonedStep, CleanupStep
  DEF StreamEnds
<1>6. ASSUME NEW r \in Requests, Cancel(r) \/ CancelDiscarding(r) PROVE RelayInv'
  BY <1>6, CancelStep, CancelDiscardingStep
<1>7. CASE Tick
  BY <1>7, TickStep
<1>8. CASE UNCHANGED vars
  BY <1>8, StutterStep
<1>. QED
  BY <1>1, <1>2, <1>3, <1>4, <1>5, <1>6, <1>7, <1>8 DEF Next

\* In every reachable state each request has done what the await it is in
\* allows, is within its deadline and can still give back what it holds
\* (relay, openai_fallback).
THEOREM RelayInvariance == Spec => []RelayInv
BY InitRelayInv, NextRelayInv, PTL DEF Spec

-----------------------------------------------------------------------------
\* What the relay promises about each request.

\* Every variable of the relay keeps its type, the breakers included, whatever
\* clients, upstreams and cancellations do.
THEOREM RelayTypeCorrect == Spec => []TypeOK
<1>1. RelayInv => TypeOK
  BY DEF RelayInv
<1>. QED
  BY <1>1, RelayInvariance, PTL

\* No prompt leaves for OpenAI whose alias may not fall back or that the local
\* server has refused, and no client gets bytes of both providers
\* (relay._relay_eligible, relay._relay_local_only).
THEOREM ProvidersApart == Spec => []ProvidersKeptApart
<1>1. ASSUME RelayInv PROVE ProvidersKeptApart
  <2>1. ExportPolicy
    BY <1>1 DEF RelayInv, Proper, Conduct, ExportPolicy
  <2>2. ASSUME NEW r \in Requests PROVE served[r] # {"local", "openai"}
    BY <1>1 DEF RelayInv, Proper, Conduct
  <2>3. OneProvider
    BY <1>1, <2>2 DEF RelayInv, Proper, Conduct, OneProvider
  <2>. QED
    BY <2>1, <2>3 DEF ProvidersKeptApart
<1>. QED
  BY <1>1, RelayInvariance, PTL

\* No finished request leaves a response open, save one cancelled inside the
\* unshielded close (relay._attempt_local, StreamCleanup.close).
THEOREM ResponsesClosed == Spec => []UpstreamsReleased
<1>1. ASSUME RelayInv PROVE UpstreamsReleased
  BY <1>1 DEF RelayInv, Proper, Conduct, UpstreamsReleased, WaitingForLocal
<1>. QED
  BY <1>1, RelayInvariance, PTL

\* An eligible request is given up only after OpenAI was asked, for want of a
\* key, or with its total budget spent (relay._fallback).
THEOREM FallbackNotSkipped == Spec => []FallbackTried
<1>1. ASSUME RelayInv PROVE FallbackTried
  BY <1>1 DEF RelayInv, Proper, Timing, FallbackTried
<1>. QED
  BY <1>1, RelayInvariance, PTL

-----------------------------------------------------------------------------
\* Budgets.

\* What begin() does to the record of failures: nothing, and it opens nothing.
LEMMA BeginBlamesNobody ==
    ASSUME NEW b \in Breaker, Begin(b).decision # "skip"
    PROVE  /\ Begin(b).breaker \in Breaker
           /\ Begin(b).breaker.failures = b.failures
           /\ Begin(b).breaker.state # "open"
<1>1. CASE Begin(b).decision = "attempt"
  BY <1>1, BeginAttempt
<1>2. CASE Begin(b).decision = "probe"
  BY <1>2, BeginProbe
<1>. QED
  BY <1>1, <1>2, BeginDecides

Blamed(a) ==
    \/ breakers'[a].failures > breakers[a].failures
    \/ breakers'[a].state = "open" /\ breakers[a].state # "open"

LEMMA UnchangedNotBlamed ==
    ASSUME RelayInv, NEW a \in Eligible,
           breakers'[a].failures = breakers[a].failures,
           breakers'[a].state = breakers[a].state \/ breakers'[a].state # "open"
    PROVE  ~Blamed(a)
<1>1. breakers[a].failures \in Nat
  BY DEF RelayInv, TypeOK, Breaker
<1>. QED
  BY <1>1 DEF Blamed

\* A blame comes with a report, and a report from a request whose call is out.
LEMMA ReportsBlameHolders ==
    ASSUME RelayInv, NEW a \in Eligible, NEW q \in Requests, NEW o \in Outcomes,
           Conclude(q, o), Blamed(a)
    PROVE  \E r \in Requests : alias[r] = a /\ local[r] # "none" /\ token'[r] # token[r]
<1>1. breakers'[a] # breakers[a]
  BY UnchangedNotBlamed
<1>2. token[q] # NoToken /\ alias[q] = a
  BY <1>1 DEF Conclude, RelayInv, TypeOK
<1>3. token'[q] = NoToken
  BY ConcludeFacts DEF RelayInv
<1>4. local[q] # "none"
  BY <1>2 DEF RelayInv, Proper, Holding
<1>. QED
  BY <1>2, <1>3, <1>4

LEMMA RoutingBlamesNobody ==
    ASSUME RelayInv, NEW a \in Eligible, NEW q \in Requests,
           RouteSkip(q) \/ RouteTooLate(q) \/ RouteLocal(q)
    PROVE  ~Blamed(a)
<1>. DEFINE b == breakers[alias[q]]
            c == Begin(b).breaker
<1>0. alias[q] \in Eligible /\ b \in Breaker
  BY DEF RelayInv, TypeOK, RouteSkip, RouteTooLate, RouteLocal, GetsSlot
<1>1. CASE RouteSkip(q)
  <2>1. c = b
    BY <1>0, <1>1, BeginSkip DEF RouteSkip
  <2>2. breakers' = [breakers EXCEPT ![alias[q]] = c]
    BY <1>1 DEF RouteSkip
  <2>3. breakers'[a] = breakers[a]
    BY <2>1, <2>2 DEF RelayInv, TypeOK
  <2>. QED
    BY <2>3, UnchangedNotBlamed
<1>2. CASE RouteTooLate(q) \/ RouteLocal(q)
  <2>1. /\ c \in Breaker
        /\ c.failures = b.failures
        /\ c.state # "open"
    BY <1>0, <1>2, BeginBlamesNobody DEF RouteTooLate, RouteLocal, GetsSlot
  <2>. HIDE DEF c
  <2>2. BegunBreakers(q) = [breakers EXCEPT ![alias[q]] = c]
    BY DEF BegunBreakers, c
  <2>3. /\ BegunBreakers(q)[alias[q]] = c
        /\ \A e \in Eligible : e # alias[q] => BegunBreakers(q)[e] = breakers[e]
        /\ DOMAIN BegunBreakers(q) = Eligible
    BY <1>0, <2>2 DEF RelayInv, TypeOK
  <2>4. /\ Release(c, BegunToken(q)).failures = c.failures
        /\ Release(c, BegunToken(q)).state = c.state
    BY <2>1, SetSlotFacts DEF Release
  <2>5. /\ breakers'[alias[q]].failures = c.failures
        /\ breakers'[alias[q]].state = c.state
        /\ \A e \in Eligible : e # alias[q] => breakers'[e] = breakers[e]
    BY <1>0, <1>2, <2>3, <2>4 DEF RouteTooLate, RouteLocal
  <2>. QED
    BY <2>1, <2>5, UnchangedNotBlamed
<1>. QED
  BY <1>1, <1>2

\* Reports are the only steps that blame.
LEMMA BlameStep ==
    ASSUME RelayInv, Next, NEW a \in Eligible, Blamed(a)
    PROVE  \E r \in Requests : alias[r] = a /\ local[r] # "none" /\ token'[r] # token[r]
<1>1. ASSUME UNCHANGED breakers PROVE FALSE
  BY <1>1, UnchangedNotBlamed
<1>2. ASSUME NEW q \in Requests, NEW o \in Outcomes, Conclude(q, o)
      PROVE  \E r \in Requests : alias[r] = a /\ local[r] # "none" /\ token'[r] # token[r]
  BY <1>2, ReportsBlameHolders
<1>3. ASSUME NEW q \in Requests, Arrive(q) \/ BodyLate(q) \/ Reject(q) PROVE FALSE
  BY <1>1, <1>3 DEF Arrive, BodyLate, Reject
<1>4. ASSUME NEW q \in Requests, Route(q) PROVE FALSE
  BY <1>1, <1>4, RoutingBlamesNobody DEF Route, RouteLocalOnly
<1>5. ASSUME NEW q \in Requests, LocalStep(q)
      PROVE  \/ UNCHANGED breakers
             \/ \E o \in Outcomes : Conclude(q, o)
  BY <1>5 DEF LocalStep, LocalUnreachable, LocalBadStatus, Discarded, LocalRefuses,
     ServeRefusal, LocalAccepts, LocalUnreadable, ServeLocal, CommitLocal, LocalFails, Outcomes
<1>6. ASSUME NEW q \in Requests, OpenAIStep(q) PROVE FALSE
  BY <1>1, <1>6 DEF OpenAIStep, ServeOpenAI, OpenAIHeaders, OpenAIFails, CommitOpenAI
<1>7. ASSUME NEW q \in Requests,
             StreamEnds(q) \/ Cleanup(q) \/ Cancel(q) \/ CancelDiscarding(q)
      PROVE  \/ UNCHANGED breakers
             \/ \E o \in Outcomes : Conclude(q, o)
  BY <1>7 DEF StreamEnds, StreamCompletes, StreamCut, StreamAbandoned, Cleanup, Cancel,
     CancelDiscarding, Outcomes
<1>8. CASE Tick
  <2>1. /\ breakers'[a].failures = breakers[a].failures
        /\ breakers'[a].state = breakers[a].state
    BY <1>8, ElapseFacts DEF Tick, RelayInv, TypeOK
  <2>. QED
    BY <2>1, UnchangedNotBlamed
<1>. QED
  BY <1>1, <1>2, <1>3, <1>4, <1>5, <1>6, <1>7, <1>8 DEF Next

\* The budget of whoever serves the request is not spent.
InTime(r) ==
    served'[r] # served[r] =>
        age[r] <= IF "openai" \in served'[r] THEN TotalLimit ELSE LocalDeadline

LEMMA OnlyServingServes ==
    ASSUME NEW q \in Requests, NEW r \in Requests,
           \/ Arrive(q) \/ BodyLate(q) \/ Reject(q) \/ Route(q)
           \/ LocalUnreachable(q) \/ LocalBadStatus(q) \/ Discarded(q) \/ LocalRefuses(q)
           \/ LocalAccepts(q) \/ LocalUnreadable(q) \/ OpenAIHeaders(q) \/ OpenAIFails(q)
           \/ StreamEnds(q) \/ Cleanup(q) \/ Cancel(q) \/ CancelDiscarding(q) \/ Tick
    PROVE  served'[r] = served[r]
<1>1. CASE Arrive(q) \/ BodyLate(q) \/ Reject(q) \/ Route(q)
  BY <1>1 DEF Arrive, BodyLate, Reject, Route, RouteSkip, RouteTooLate, RouteLocal,
     RouteLocalOnly
<1>2. CASE \/ LocalUnreachable(q) \/ LocalBadStatus(q) \/ Discarded(q) \/ LocalRefuses(q)
           \/ LocalAccepts(q) \/ LocalUnreadable(q) \/ OpenAIHeaders(q) \/ OpenAIFails(q)
  BY <1>2 DEF LocalUnreachable, LocalBadStatus, Discarded, LocalRefuses, LocalAccepts,
     LocalUnreadable, OpenAIHeaders, OpenAIFails
<1>3. CASE StreamEnds(q) \/ Cleanup(q) \/ Cancel(q) \/ CancelDiscarding(q) \/ Tick
  BY <1>3 DEF StreamEnds, StreamCompletes, StreamCut, StreamAbandoned, Cleanup, Cancel,
     CancelDiscarding, Tick
<1>. QED
  BY <1>1, <1>2, <1>3

LEMMA ServingInTime ==
    ASSUME RelayInv, NEW q \in Requests, NEW r \in Requests,
           \/ ServeRefusal(q) \/ ServeLocal(q) \/ CommitLocal(q)
           \/ ServeOpenAI(q) \/ CommitOpenAI(q)
    PROVE  InTime(r)
<1>1. CASE r = q /\ (ServeRefusal(q) \/ ServeLocal(q) \/ CommitLocal(q))
  <2>1. phase[r] \in WaitingForLocal /\ served'[r] \in {served[r], served[r] \cup {"local"}}
    BY <1>1 DEF ServeRefusal, ServeLocal, CommitLocal, WaitingForLocal, RelayInv, TypeOK
  <2>2. age[r] <= LocalDeadline /\ served[r] = {}
    BY <2>1 DEF RelayInv, Proper, Conduct, Timing, Waiting, WaitingForLocal
  <2>. QED
    BY <2>1, <2>2 DEF InTime
<1>2. CASE r = q /\ (ServeOpenAI(q) \/ CommitOpenAI(q))
  <2>1. phase[r] \in WaitingForOpenAI /\ "openai" \in served'[r]
    BY <1>2 DEF ServeOpenAI, CommitOpenAI, WaitingForOpenAI, RelayInv, TypeOK
  <2>2. age[r] <= TotalLimit
    BY <2>1 DEF RelayInv, Proper, Timing, Waiting, WaitingForOpenAI
  <2>. QED
    BY <2>1, <2>2 DEF InTime
<1>3. CASE r # q
  <2>1. served'[r] = served[r]
    BY <1>3 DEF ServeRefusal, ServeLocal, CommitLocal, ServeOpenAI, CommitOpenAI,
       RelayInv, TypeOK
  <2>. QED
    BY <2>1 DEF InTime
<1>. QED
  BY <1>1, <1>2, <1>3

LEMMA InTimeStep == ASSUME RelayInv, Next, NEW r \in Requests PROVE InTime(r)
<1>1. ASSUME served'[r] = served[r] PROVE InTime(r)
  BY <1>1 DEF InTime
<1>. QED
  BY <1>1, OnlyServingServes, ServingInTime DEF Next, LocalStep, OpenAIStep

\* The first byte of a provider comes within its budget, counted from the
\* request's arrival, and no breaker is blamed for a request that had none left
\* for the call (ResponseStartDeadline, relay._attempt_local).
THEOREM BudgetsSafe == Spec => BudgetsKept
<1>1. ASSUME RelayInv, [Next]_vars
      PROVE  [\A r \in Requests : served'[r] # served[r] =>
                 age[r] <= IF "openai" \in served'[r] THEN TotalLimit ELSE LocalDeadline]_vars
  BY <1>1, InTimeStep DEF InTime
<1>2. ASSUME RelayInv, [Next]_vars
      PROVE  [\A a \in Eligible :
                 \/ breakers'[a].failures > breakers[a].failures
                 \/ breakers'[a].state = "open" /\ breakers[a].state # "open"
                 => \E r \in Requests :
                       alias[r] = a /\ local[r] # "none" /\ token'[r] # token[r]]_vars
  BY <1>2, BlameStep DEF Blamed
<1>. QED
  BY <1>1, <1>2, RelayInvariance, PTL
  DEF Spec, BudgetsKept, StartsInTime, NoBlameWithoutCall

-----------------------------------------------------------------------------
\* The probe slot: one breaker and the tokens its requests hold, as values.

Tokens == [Requests -> LocalAttempt \cup {NoToken}]

\* The outcome of r will count.
Counts(b, t, r) == t[r] # NoToken /\ Current(b, t[r])

Probing(b, t, r) == Counts(b, t, r) /\ t[r].decision = "probe"

\* Tokens are of generations there have been, those that count match the state
\* of the circuit, and the slot is taken by one of them exactly.
SlotKept(b, t) ==
    /\ \A r \in Requests : t[r] # NoToken => t[r].generation <= b.generation
    /\ \A r \in Requests : Counts(b, t, r) =>
          b.state = IF t[r].decision = "probe" THEN "half_open" ELSE "closed"
    /\ b.probeInFlight <=> \E r \in Requests : Probing(b, t, r)
    /\ \A q, r \in Requests : Probing(b, t, q) /\ Probing(b, t, r) => q = r

\* Within a generation, a report takes the reporter out and nobody else.
LEMMA CountsAfterReport ==
    ASSUME NEW b, NEW t \in Tokens, NEW r \in Requests, NEW c,
           c.generation = b.generation
    PROVE  \A q \in Requests :
              Counts(c, [t EXCEPT ![r] = NoToken], q) <=> Counts(b, t, q) /\ q # r
<1>1. \A q \in Requests : [t EXCEPT ![r] = NoToken][q] = IF q = r THEN NoToken ELSE t[q]
  BY DEF Tokens
<1>. QED
  BY <1>1 DEF Counts, Current

\* Nothing that was out counts in a new generation.
LEMMA CountsAfterTransition ==
    ASSUME NEW b \in Breaker, NEW t \in Tokens, SlotKept(b, t), NEW r \in Requests,
           NEW d, d.generation = b.generation + 1
    PROVE  \A q \in Requests : ~Counts(d, [t EXCEPT ![r] = NoToken], q)
<1>1. \A q \in Requests : [t EXCEPT ![r] = NoToken][q] = IF q = r THEN NoToken ELSE t[q]
  BY DEF Tokens
<1>2. \A q \in Requests : t[q] # NoToken =>
          t[q].generation <= b.generation /\ t[q].generation \in Nat
  BY DEF SlotKept, Tokens, LocalAttempt
<1>3. b.generation \in Nat
  BY DEF Breaker
<1>. QED
  BY <1>1, <1>2, <1>3 DEF Counts, Current

\* A new generation forgets all that was out.
LEMMA SlotAfterTransition ==
    ASSUME NEW b \in Breaker, NEW t \in Tokens, SlotKept(b, t), NEW r \in Requests,
           NEW c \in Breaker, NEW s \in State, c.generation = b.generation
    PROVE  SlotKept(Transition(c, s), [t EXCEPT ![r] = NoToken])
<1>. DEFINE d == Transition(c, s)
            u == [t EXCEPT ![r] = NoToken]
<1>1. d.generation = c.generation + 1 /\ d.probeInFlight = FALSE
  BY TransitionFacts
<1>2. \A q \in Requests : u[q] = IF q = r THEN NoToken ELSE t[q]
  BY DEF Tokens
<1>3. \A q \in Requests : ~Counts(d, u, q)
  BY <1>1, CountsAfterTransition
<1>. HIDE DEF d, u
<1>4. b.generation \in Nat
  BY DEF Breaker
<1>5. \A q \in Requests : u[q] # NoToken =>
          u[q].generation <= b.generation /\ u[q].generation \in Nat
  BY <1>2 DEF SlotKept, Tokens, LocalAttempt
<1>6. SlotKept(d, u)
  BY <1>1, <1>3, <1>4, <1>5 DEF SlotKept, Probing
<1>. QED
  BY <1>6 DEF d, u

\* A report that changes nothing but the streak, from a request that is not the
\* probe.
LEMMA SlotAfterResult ==
    ASSUME NEW b \in Breaker, NEW t \in Tokens, SlotKept(b, t), NEW r \in Requests,
           ~Probing(b, t, r), NEW c \in Breaker,
           c.generation = b.generation, c.state = b.state, c.probeInFlight = b.probeInFlight
    PROVE  SlotKept(c, [t EXCEPT ![r] = NoToken])
<1>. DEFINE u == [t EXCEPT ![r] = NoToken]
<1>1. \A q \in Requests : u[q] = IF q = r THEN NoToken ELSE t[q]
  BY DEF Tokens
<1>2. \A q \in Requests : Counts(c, u, q) <=> Counts(b, t, q) /\ q # r
  BY CountsAfterReport
<1>. HIDE DEF u
<1>3. \A q \in Requests : Probing(c, u, q) <=> Probing(b, t, q)
  BY <1>1, <1>2 DEF Probing
<1>4. SlotKept(c, u)
  BY <1>1, <1>2, <1>3 DEF SlotKept
<1>. QED
  BY <1>4 DEF u

\* The probe gives its slot back.
LEMMA SlotAfterRelease ==
    ASSUME NEW b \in Breaker, NEW t \in Tokens, SlotKept(b, t), NEW r \in Requests,
           Probing(b, t, r)
    PROVE  SlotKept([b EXCEPT !.probeInFlight = FALSE], [t EXCEPT ![r] = NoToken])
<1>. DEFINE u == [t EXCEPT ![r] = NoToken]
            c == [b EXCEPT !.probeInFlight = FALSE]
<1>1. \A q \in Requests : u[q] = IF q = r THEN NoToken ELSE t[q]
  BY DEF Tokens
<1>2. c.generation = b.generation /\ c.state = b.state /\ c.probeInFlight = FALSE
  BY SetSlotFacts
<1>. HIDE DEF c
<1>3. \A q \in Requests : Counts(c, u, q) <=> Counts(b, t, q) /\ q # r
  BY <1>2, CountsAfterReport
<1>. HIDE DEF u
<1>4. \A q \in Requests : ~Probing(c, u, q)
  BY <1>1, <1>3 DEF Probing, SlotKept
<1>5. SlotKept(c, u)
  BY <1>1, <1>2, <1>3, <1>4 DEF SlotKept
<1>. QED
  BY <1>5 DEF u, c

\* Whatever a request reports, the slot is accounted for.
LEMMA SlotAfterReport ==
    ASSUME NEW b \in Breaker, NEW t \in Tokens, SlotKept(b, t), NEW r \in Requests,
           t[r] # NoToken, NEW o \in Outcomes
    PROVE  SlotKept(Reported(b, t[r], o), [t EXCEPT ![r] = NoToken])
<1>0. /\ t[r] \in LocalAttempt
      /\ Current(b, t[r]) <=> Counts(b, t, r)
      /\ Probing(b, t, r) => b.state = "half_open"
      /\ Counts(b, t, r) /\ ~Probing(b, t, r) => b.state = "closed"
  BY DEF Tokens, Counts, Probing, SlotKept
<1>1. SlotKept(RecordSuccess(b, t[r]), [t EXCEPT ![r] = NoToken])
  <2>1. CASE ~Counts(b, t, r)
    <3>1. RecordSuccess(b, t[r]) = b /\ ~Probing(b, t, r)
      BY <1>0, <2>1 DEF RecordSuccess, Probing
    <3>. QED
      BY <3>1, SlotAfterResult
  <2>2. CASE Probing(b, t, r)
    <3>1. RecordSuccess(b, t[r]) = Transition(b, "closed") /\ "closed" \in State
      BY <1>0, <2>2 DEF RecordSuccess, Probing, State
    <3>. QED
      BY <3>1, SlotAfterTransition
  <2>3. CASE Counts(b, t, r) /\ ~Probing(b, t, r)
    <3>. DEFINE c == [b EXCEPT !.failures = 0]
    <3>1. RecordSuccess(b, t[r]) = c
      BY <1>0, <2>3 DEF RecordSuccess
    <3>2. /\ c \in Breaker
          /\ c.state = b.state
          /\ c.generation = b.generation
          /\ c.probeInFlight = b.probeInFlight
      BY SetFailuresFacts
    <3>. HIDE DEF c
    <3>. QED
      BY <2>3, <3>1, <3>2, SlotAfterResult
  <2>. QED
    BY <2>1, <2>2, <2>3
<1>2. SlotKept(RecordFailure(b, t[r]), [t EXCEPT ![r] = NoToken])
  <2>1. CASE ~Counts(b, t, r)
    <3>1. RecordFailure(b, t[r]) = b /\ ~Probing(b, t, r)
      BY <1>0, <2>1 DEF RecordFailure, Probing
    <3>. QED
      BY <3>1, SlotAfterResult
  <2>2. CASE Probing(b, t, r)
    <3>1. RecordFailure(b, t[r]) = Transition(b, "open") /\ "open" \in State
      BY <1>0, <2>2 DEF RecordFailure, Probing, State
    <3>. QED
      BY <3>1, SlotAfterTransition
  <2>3. CASE Counts(b, t, r) /\ ~Probing(b, t, r)
    <3>. DEFINE n == b.failures + 1
                c == [b EXCEPT !.failures = n]
    <3>1. n \in Nat /\ "open" \in State
      BY DEF Breaker, State
    <3>2. RecordFailure(b, t[r]) \in {Transition(c, "open"), c}
      BY <1>0, <2>3 DEF RecordFailure, CountFailure, Counts, Probing
    <3>3. /\ c \in Breaker
          /\ c.state = b.state
          /\ c.generation = b.generation
          /\ c.probeInFlight = b.probeInFlight
      BY <3>1, SetFailuresFacts
    <3>. HIDE DEF c
    <3>4. SlotKept(Transition(c, "open"), [t EXCEPT ![r] = NoToken])
      BY <3>1, <3>3, SlotAfterTransition
    <3>5. SlotKept(c, [t EXCEPT ![r] = NoToken])
      BY <2>3, <3>3, SlotAfterResult
    <3>. QED
      BY <3>2, <3>4, <3>5
  <2>. QED
    BY <2>1, <2>2, <2>3
<1>3. SlotKept(Release(b, t[r]), [t EXCEPT ![r] = NoToken])
  <2>1. CASE Probing(b, t, r)
    <3>1. Release(b, t[r]) = [b EXCEPT !.probeInFlight = FALSE]
      BY <1>0, <2>1 DEF Release, Probing
    <3>. QED
      BY <2>1, <3>1, SlotAfterRelease
  <2>2. CASE ~Probing(b, t, r)
    <3>1. Release(b, t[r]) = b
      BY <1>0, <2>2 DEF Release, Probing
    <3>. QED
      BY <2>2, <3>1, SlotAfterResult
  <2>. QED
    BY <2>1, <2>2
<1>. QED
  BY <1>1, <1>2, <1>3 DEF Reported, Outcomes

\* The token begin() hands out.
Handed(b) == [decision |-> Begin(b).decision, generation |-> Begin(b).generation]

LEMMA SlotAfterBegin ==
    ASSUME NEW b \in Breaker, NEW t \in Tokens, SlotKept(b, t), NEW r \in Requests,
           t[r] = NoToken, Begin(b).decision # "skip"
    PROVE  SlotKept(Begin(b).breaker, [t EXCEPT ![r] = Handed(b)])
<1>. DEFINE u == [t EXCEPT ![r] = Handed(b)]
            c == Begin(b).breaker
<1>1. \A q \in Requests : u[q] = IF q = r THEN Handed(b) ELSE t[q]
  BY DEF Tokens
<1>2. Handed(b).decision = Begin(b).decision /\ Handed(b).generation = Begin(b).generation
  BY DEF Handed
<1>3. b.generation \in Nat
  BY DEF Breaker
<1>4. CASE Begin(b).decision = "attempt"
  <2>1. c = b /\ b.state = "closed" /\ Handed(b).generation = b.generation
    BY <1>2, <1>4, BeginAttempt
  <2>. HIDE DEF u, c
  <2>2. \A q \in Requests : q # r => (Counts(c, u, q) <=> Counts(b, t, q))
    BY <1>1, <2>1 DEF Counts
  <2>3. \A q \in Requests : Probing(c, u, q) <=> Probing(b, t, q)
    BY <1>1, <1>2, <1>4, <2>2 DEF Probing, Counts
  <2>4. SlotKept(c, u)
    BY <1>1, <1>2, <1>3, <1>4, <2>1, <2>2, <2>3 DEF SlotKept
  <2>. QED
    BY <2>4 DEF u, c
<1>5. CASE Begin(b).decision = "probe"
  <2>1. /\ c.state = "half_open" /\ c.probeInFlight = TRUE
        /\ c.generation = Handed(b).generation
        /\ \/ /\ b.state = "half_open" /\ b.probeInFlight = FALSE
              /\ Handed(b).generation = b.generation
           \/ b.state = "open" /\ Handed(b).generation = b.generation + 1
    BY <1>2, <1>5, BeginProbe
  <2>. HIDE DEF u, c
  <2>2. \A q \in Requests : ~Counts(b, t, q)
    BY <2>1 DEF SlotKept, Probing
  <2>3. \A q \in Requests : t[q] # NoToken =>
            t[q].generation < b.generation /\ t[q].generation \in Nat
    BY <1>3, <2>2 DEF SlotKept, Counts, Current, Tokens, LocalAttempt
  <2>4. \A q \in Requests : q # r => ~Counts(c, u, q)
    BY <1>1, <1>3, <2>1, <2>3 DEF Counts, Current
  <2>5. Probing(c, u, r)
    BY <1>1, <1>2, <1>5, <2>1 DEF Probing, Counts, Current, NoToken
  <2>6. SlotKept(c, u)
    BY <1>1, <1>2, <1>3, <1>5, <2>1, <2>3, <2>4, <2>5 DEF SlotKept, Probing
  <2>. QED
    BY <2>6 DEF u, c
<1>. QED
  BY <1>4, <1>5, BeginDecides

LEMMA SlotAfterElapse ==
    ASSUME NEW b \in Breaker, NEW t \in Tokens, SlotKept(b, t)
    PROVE  SlotKept(Elapse(b), t)
<1>. DEFINE c == Elapse(b)
<1>1. c.state = b.state /\ c.generation = b.generation /\ c.probeInFlight = b.probeInFlight
  BY ElapseFacts
<1>. HIDE DEF c
<1>2. \A q \in Requests : Counts(c, t, q) <=> Counts(b, t, q)
  BY <1>1 DEF Counts, Current
<1>3. SlotKept(c, t)
  BY <1>1, <1>2 DEF SlotKept, Probing
<1>. QED
  BY <1>3 DEF c

-----------------------------------------------------------------------------
\* The probe slot: the breaker of each alias and the requests on that alias.

TokensOf(a) == [r \in Requests |-> IF alias[r] = a THEN token[r] ELSE NoToken]

SlotInv == \A a \in Eligible : SlotKept(breakers[a], TokensOf(a))

LEMMA TokensOfType ==
    ASSUME RelayInv, NEW a \in Eligible
    PROVE  TokensOf(a) \in Tokens /\ breakers[a] \in Breaker
BY DEF RelayInv, TypeOK, TokensOf, Tokens

\* A step that moves no token and no breaker; a request that is about to get
\* its alias holds none.
LEMMA QuietSlotStep ==
    ASSUME RelayInv, SlotInv, UNCHANGED <<breakers, token>>,
           \A r \in Requests : alias'[r] = alias[r] \/ token[r] = NoToken
    PROVE  SlotInv'
<1>1. ASSUME NEW a \in Eligible PROVE TokensOf(a)' = TokensOf(a)
  BY DEF TokensOf
<1>. QED
  BY <1>1 DEF SlotInv

\* A report as the aliases see it: on the request's own the breaker hears of it
\* and the token goes, on the others nothing happens.
LEMMA ConcludeOnAliases ==
    ASSUME RelayInv, NEW r \in Requests, NEW o \in Outcomes, Conclude(r, o),
           UNCHANGED alias, token[r] # NoToken, NEW a \in Eligible
    PROVE  /\ a # alias[r] => breakers'[a] = breakers[a] /\ TokensOf(a)' = TokensOf(a)
           /\ a = alias[r] =>
                 /\ breakers'[a] = Reported(breakers[a], TokensOf(a)[r], o)
                 /\ TokensOf(a)' = [TokensOf(a) EXCEPT ![r] = NoToken]
                 /\ TokensOf(a)[r] # NoToken
<1>1. \A q \in Requests : token'[q] = IF q = r THEN NoToken ELSE token[q]
  BY DEF Conclude, RelayInv, TypeOK
<1>2. CASE a # alias[r]
  <2>1. breakers'[a] = breakers[a]
    BY <1>2 DEF Conclude, RelayInv, TypeOK
  <2>2. \A q \in Requests : alias[q] = a => token'[q] = token[q]
    BY <1>1, <1>2
  <2>. QED
    BY <1>2, <2>1, <2>2 DEF TokensOf
<1>3. CASE a = alias[r]
  <2>1. TokensOf(a)[r] = token[r]
    BY <1>3 DEF TokensOf
  <2>2. breakers'[a] = Reported(breakers[a], token[r], o)
    BY <1>3 DEF Conclude, RelayInv, TypeOK
  <2>3. TokensOf(a)' = [TokensOf(a) EXCEPT ![r] = NoToken]
    BY <1>1, <1>3 DEF TokensOf
  <2>. QED
    BY <1>3, <2>1, <2>2, <2>3
<1>. QED
  BY <1>2, <1>3

LEMMA ConcludeSlotStep ==
    ASSUME RelayInv, SlotInv, NEW r \in Requests, NEW o \in Outcomes, Conclude(r, o),
           UNCHANGED alias
    PROVE  SlotInv'
<1>1. CASE token[r] = NoToken
  <2>1. UNCHANGED <<breakers, token>>
    BY <1>1 DEF Conclude, RelayInv, TypeOK
  <2>. QED
    BY <2>1, QuietSlotStep
<1>2. CASE token[r] # NoToken
  <2>. SUFFICES ASSUME NEW a \in Eligible PROVE SlotKept(breakers[a], TokensOf(a))'
    BY DEF SlotInv
  <2>1. CASE a = alias[r]
    BY <1>2, <2>1, ConcludeOnAliases, TokensOfType, SlotAfterReport DEF SlotInv
  <2>2. CASE a # alias[r]
    BY <1>2, <2>2, ConcludeOnAliases DEF SlotInv
  <2>. QED
    BY <2>1, <2>2
<1>. QED
  BY <1>1, <1>2

\* begin() for r, and the tokens with the one it hands out.
LEMMA BegunSlot ==
    ASSUME RelayInv, SlotInv, NEW r \in Requests, GetsSlot(r)
    PROVE  /\ alias[r] \in Eligible
           /\ breakers[alias[r]] \in Breaker
           /\ Begin(breakers[alias[r]]).breaker \in Breaker
           /\ BegunToken(r) = Handed(breakers[alias[r]])
           /\ Handed(breakers[alias[r]]) \in LocalAttempt
           /\ token[r] = NoToken
           /\ SlotKept(Begin(breakers[alias[r]]).breaker,
                       [TokensOf(alias[r]) EXCEPT ![r] = Handed(breakers[alias[r]])])
<1>1. /\ alias[r] \in Eligible
      /\ breakers[alias[r]] \in Breaker
      /\ Begin(breakers[alias[r]]).decision # "skip"
  BY DEF GetsSlot, RelayInv, TypeOK
<1>2. token[r] = NoToken
  BY DEF GetsSlot, RelayInv, Proper, Holding, WaitingForLocal
<1>3. TokensOf(alias[r])[r] = NoToken
  BY <1>2 DEF TokensOf
<1>4. BegunToken(r) = Handed(breakers[alias[r]])
  BY DEF BegunToken, Handed
<1>5. /\ Begin(breakers[alias[r]]).breaker \in Breaker
      /\ Handed(breakers[alias[r]]) \in LocalAttempt
  BY <1>1, BeginType DEF Handed
<1>6. SlotKept(Begin(breakers[alias[r]]).breaker,
               [TokensOf(alias[r]) EXCEPT ![r] = Handed(breakers[alias[r]])])
  BY <1>1, <1>3, TokensOfType, SlotAfterBegin DEF SlotInv
<1>. QED
  BY <1>1, <1>2, <1>4, <1>5, <1>6

\* begin() granting a slot, as the aliases see it.
LEMMA RouteLocalOnAliases ==
    ASSUME RelayInv, SlotInv, NEW r \in Requests, RouteLocal(r), NEW a \in Eligible
    PROVE  /\ a # alias[r] => breakers'[a] = breakers[a] /\ TokensOf(a)' = TokensOf(a)
           /\ a = alias[r] =>
                 /\ breakers'[a] = Begin(breakers[a]).breaker
                 /\ TokensOf(a)[r] = NoToken
                 /\ TokensOf(a)' = [TokensOf(a) EXCEPT ![r] = Handed(breakers[a])]
<1>. DEFINE e == alias[r]
            h == Handed(breakers[e])
<1>1. /\ breakers' = [breakers EXCEPT ![e] = Begin(breakers[e]).breaker]
      /\ token' = [token EXCEPT ![r] = h]
      /\ alias' = alias
      /\ token[r] = NoToken
  BY BegunSlot DEF RouteLocal, BegunBreakers
<1>. HIDE DEF h
<1>2. \A q \in Requests : token'[q] = IF q = r THEN h ELSE token[q]
  BY <1>1 DEF RelayInv, TypeOK
<1>3. CASE a # e
  <2>1. breakers'[a] = breakers[a]
    BY <1>1, <1>3 DEF RelayInv, TypeOK
  <2>2. \A q \in Requests : alias[q] = a => token'[q] = token[q]
    BY <1>2, <1>3
  <2>. QED
    BY <1>1, <1>3, <2>1, <2>2 DEF TokensOf
<1>4. CASE a = e
  <2>1. breakers'[a] = Begin(breakers[a]).breaker
    BY <1>1, <1>4 DEF RelayInv, TypeOK
  <2>2. TokensOf(a)' = [TokensOf(a) EXCEPT ![r] = h] /\ TokensOf(a)[r] = NoToken
    BY <1>1, <1>2, <1>4 DEF TokensOf
  <2>. QED
    BY <1>4, <2>1, <2>2 DEF h
<1>. QED
  BY <1>3, <1>4

LEMMA RouteLocalSlotStep ==
    ASSUME RelayInv, SlotInv, NEW r \in Requests, RouteLocal(r)
    PROVE  SlotInv'
<1>. SUFFICES ASSUME NEW a \in Eligible PROVE SlotKept(breakers[a], TokensOf(a))'
  BY DEF SlotInv
<1>1. GetsSlot(r)
  BY DEF RouteLocal
<1>2. CASE a = alias[r]
  <2>1. SlotKept(Begin(breakers[a]).breaker,
                 [TokensOf(a) EXCEPT ![r] = Handed(breakers[a])])
    BY <1>1, <1>2, BegunSlot
  <2>. QED
    BY <1>2, <2>1, RouteLocalOnAliases
<1>3. CASE a # alias[r]
  BY <1>3, RouteLocalOnAliases DEF SlotInv
<1>. QED
  BY <1>2, <1>3

\* begin() and the release that undoes it, as the aliases see it: no token is
\* left behind.
LEMMA RouteTooLateOnAliases ==
    ASSUME RelayInv, SlotInv, NEW r \in Requests, RouteTooLate(r), NEW a \in Eligible
    PROVE  /\ TokensOf(a)' = TokensOf(a)
           /\ a # alias[r] => breakers'[a] = breakers[a]
           /\ a = alias[r] =>
                 breakers'[a] = Release(Begin(breakers[a]).breaker, Handed(breakers[a]))
<1>. DEFINE e == alias[r]
            c == Begin(breakers[e]).breaker
            h == Handed(breakers[e])
<1>1. /\ breakers' = [BegunBreakers(r) EXCEPT ![e] = Release(@, h)]
      /\ alias' = alias /\ token' = token
  BY BegunSlot DEF RouteTooLate
<1>2. BegunBreakers(r) = [breakers EXCEPT ![e] = c]
  BY DEF BegunBreakers
<1>3. TokensOf(a)' = TokensOf(a)
  BY <1>1 DEF TokensOf
<1>. HIDE DEF c, h
<1>4. /\ a = e => breakers'[a] = Release(c, h)
      /\ a # e => breakers'[a] = breakers[a]
  BY <1>1, <1>2 DEF RelayInv, TypeOK
<1>. QED
  BY <1>3, <1>4 DEF c, h

LEMMA RouteTooLateSlotStep ==
    ASSUME RelayInv, SlotInv, NEW r \in Requests, RouteTooLate(r)
    PROVE  SlotInv'
<1>. SUFFICES ASSUME NEW a \in Eligible PROVE SlotKept(breakers[a], TokensOf(a))'
  BY DEF SlotInv
<1>. DEFINE c == Begin(breakers[a]).breaker
            h == Handed(breakers[a])
            t == TokensOf(a)
            u == [t EXCEPT ![r] = h]
<1>1. CASE a = alias[r]
  <2>1. GetsSlot(r)
    BY DEF RouteTooLate
  <2>2. c \in Breaker /\ h \in LocalAttempt /\ token[r] = NoToken /\ SlotKept(c, u)
    BY <1>1, <2>1, BegunSlot
  <2>3. t \in Tokens /\ t[r] = NoToken
    BY <2>2, TokensOfType DEF TokensOf
  <2>4. breakers'[a] = Release(c, h) /\ t' = t
    BY <1>1, RouteTooLateOnAliases
  <2>. HIDE DEF c, h, t
  <2>5. u \in Tokens /\ u[r] = h
    BY <2>2, <2>3 DEF Tokens
  <2>6. h # NoToken
    BY <2>2 DEF NoToken, LocalAttempt, LocalDecision
  <2>7. [u EXCEPT ![r] = NoToken] = t
    BY <2>3 DEF Tokens
  <2>8. SlotKept(Reported(c, u[r], "abandoned"), [u EXCEPT ![r] = NoToken])
    BY <2>2, <2>5, <2>6, SlotAfterReport DEF Outcomes
  <2>9. SlotKept(Release(c, h), t)
    BY <2>5, <2>7, <2>8 DEF Reported
  <2>. QED
    BY <2>4, <2>9 DEF t
<1>2. CASE a # alias[r]
  BY <1>2, RouteTooLateOnAliases DEF SlotInv
<1>. QED
  BY <1>1, <1>2

LEMMA TickSlotStep ==
    ASSUME RelayInv, SlotInv, Tick
    PROVE  SlotInv'
<1>. SUFFICES ASSUME NEW a \in Eligible PROVE SlotKept(breakers[a], TokensOf(a))'
  BY DEF SlotInv
<1>1. TokensOf(a)' = TokensOf(a)
  BY DEF Tick, TokensOf
<1>2. breakers'[a] = Elapse(breakers[a])
  BY DEF Tick
<1>. QED
  BY <1>1, <1>2, TokensOfType, SlotAfterElapse DEF SlotInv

LEMMA InitSlotInv == Init => SlotInv
<1>. SUFFICES ASSUME Init, NEW a \in Eligible PROVE SlotKept(breakers[a], TokensOf(a))
  BY DEF SlotInv
<1>1. \A r \in Requests : TokensOf(a)[r] = NoToken
  BY DEF Init, TokensOf
<1>2. breakers[a].probeInFlight = FALSE
  BY DEF Init, NewBreaker
<1>. QED
  BY <1>1, <1>2 DEF SlotKept, Counts, Probing

\* A step that moves no token and no breaker.
Quiet ==
    /\ UNCHANGED <<breakers, token>>
    /\ \A r \in Requests : alias'[r] = alias[r] \/ token[r] = NoToken

\* Told to skip, a request leaves the circuit as it was.
LEMMA SkipIsQuiet ==
    ASSUME RelayInv, NEW r \in Requests, RouteSkip(r)
    PROVE  Quiet
<1>1. breakers[alias[r]] \in Breaker /\ Begin(breakers[alias[r]]).decision = "skip"
  BY DEF RouteSkip, RelayInv, TypeOK
<1>2. Begin(breakers[alias[r]]).breaker = breakers[alias[r]]
  BY <1>1, BeginSkip
<1>3. breakers' = [breakers EXCEPT ![alias[r]] = Begin(breakers[alias[r]]).breaker]
  BY DEF RouteSkip
<1>4. breakers' = breakers
  BY <1>2, <1>3 DEF RelayInv, TypeOK
<1>. QED
  BY <1>4 DEF RouteSkip, Quiet

\* To breakers and tokens there are four kinds of steps.
LEMMA KindsOfSteps ==
    ASSUME RelayInv, [Next]_vars
    PROVE  \/ Quiet
           \/ \E r \in Requests, o \in Outcomes : Conclude(r, o) /\ UNCHANGED alias
           \/ \E r \in Requests : RouteLocal(r) \/ RouteTooLate(r)
           \/ Tick
<1>1. ASSUME NEW r \in Requests, Arrive(r) PROVE Quiet
  BY <1>1 DEF Quiet, Arrive, RelayInv, TypeOK, Proper, Holding, WaitingForLocal
<1>2. ASSUME NEW r \in Requests, BodyLate(r) \/ Reject(r) \/ RouteLocalOnly(r) PROVE Quiet
  BY <1>2 DEF Quiet, BodyLate, Reject, RouteLocalOnly
<1>3. ASSUME NEW r \in Requests, RouteSkip(r) PROVE Quiet
  BY <1>3, SkipIsQuiet
<1>4. ASSUME NEW r \in Requests,
             LocalBadStatus(r) \/ LocalRefuses(r) \/ LocalAccepts(r) \/ CommitLocal(r)
      PROVE  Quiet
  BY <1>4 DEF Quiet, LocalBadStatus, LocalRefuses, LocalAccepts, CommitLocal
<1>5. ASSUME NEW r \in Requests,
             \/ LocalUnreachable(r) \/ Discarded(r) \/ ServeRefusal(r)
             \/ LocalUnreadable(r) \/ ServeLocal(r)
      PROVE  (\E o \in Outcomes : Conclude(r, o)) /\ UNCHANGED alias
  BY <1>5 DEF LocalUnreachable, Discarded, ServeRefusal, LocalUnreadable, ServeLocal,
     LocalFails, Outcomes
<1>6. ASSUME NEW r \in Requests, OpenAIStep(r) PROVE Quiet
  BY <1>6 DEF Quiet, OpenAIStep, ServeOpenAI, OpenAIHeaders, OpenAIFails, CommitOpenAI
<1>7. ASSUME NEW r \in Requests,
             StreamEnds(r) \/ Cleanup(r) \/ Cancel(r) \/ CancelDiscarding(r)
      PROVE  Quiet \/ ((\E o \in Outcomes : Conclude(r, o)) /\ UNCHANGED alias)
  <2>1. UNCHANGED alias
    BY <1>7 DEF StreamEnds, StreamCompletes, StreamCut, StreamAbandoned, Cleanup, Cancel,
       CancelDiscarding
  <2>2. UNCHANGED <<breakers, token>> \/ \E o \in Outcomes : Conclude(r, o)
    BY <1>7 DEF StreamEnds, StreamCompletes, StreamCut, StreamAbandoned, Cleanup, Cancel,
       CancelDiscarding, Outcomes
  <2>. QED
    BY <2>1, <2>2 DEF Quiet
<1>8. CASE UNCHANGED vars
  BY <1>8 DEF Quiet, vars
<1>. QED
  BY <1>1, <1>2, <1>3, <1>4, <1>5, <1>6, <1>7, <1>8 DEF Next, Route, LocalStep

LEMMA NextSlotInv == RelayInv /\ SlotInv /\ [Next]_vars => SlotInv'
<1>. SUFFICES ASSUME RelayInv, SlotInv, [Next]_vars PROVE SlotInv'
  OBVIOUS
<1>1. CASE Quiet
  BY <1>1, QuietSlotStep DEF Quiet
<1>2. ASSUME NEW r \in Requests, NEW o \in Outcomes, Conclude(r, o), UNCHANGED alias
      PROVE  SlotInv'
  BY <1>2, ConcludeSlotStep
<1>3. ASSUME NEW r \in Requests, RouteLocal(r) \/ RouteTooLate(r) PROVE SlotInv'
  BY <1>3, RouteLocalSlotStep, RouteTooLateSlotStep
<1>4. CASE Tick
  BY <1>4, TickSlotStep
<1>. QED
  BY <1>1, <1>2, <1>3, <1>4, KindsOfSteps

\* In every reachable state, on every alias, the tokens that count and the slot
\* match the state of the circuit (relay._relay_eligible with CircuitBreaker).
THEOREM SlotInvariance == Spec => [](RelayInv /\ SlotInv)
BY InitRelayInv, NextRelayInv, InitSlotInv, NextSlotInv, PTL DEF Spec

\* A request gives back all it took: its alias' probe slot is taken exactly
\* while a request between arrival and end holds the probe, and responses are closed.
\* No timeout, cut stream or cancellation in any await loses either (relay,
\* StreamCleanup).
THEOREM NothingLost == Spec => []NothingLeaks
<1>1. ASSUME RelayInv, SlotInv PROVE ProbeSlotOwned
  <2>. SUFFICES ASSUME NEW a \in Eligible
       PROVE  breakers[a].probeInFlight <=>
                 \E r \in Requests : /\ Holds(r, a) /\ token[r].decision = "probe"
                                    /\ phase[r] \notin {"idle", "receiving", "done"}
    BY DEF ProbeSlotOwned
  <2>1. ASSUME NEW r \in Requests
        PROVE  Probing(breakers[a], TokensOf(a), r) <=>
                  Holds(r, a) /\ token[r].decision = "probe"
    BY DEF Probing, Counts, TokensOf, Holds
  <2>2. ASSUME NEW r \in Requests, Holds(r, a)
        PROVE  phase[r] \notin {"idle", "receiving", "done"}
    BY <1>1, <2>2 DEF Holds, RelayInv, Proper, Holding, WaitingForLocal
  <2>. QED
    BY <1>1, <2>1, <2>2 DEF SlotInv, SlotKept
<1>. QED
  BY <1>1, SlotInvariance, ResponsesClosed, PTL DEF NothingLeaks

(***************************************************************************)
(* Proofs that to the breaker of each alias the relay is a well-behaved    *)
(* set of clients: each of its steps is a step AbstractBreaker allows.     *)
(***************************************************************************)
-----------------------------------------------------------------------------
\* AbstractBreaker's variables, from a breaker and the tokens on its alias.

Counted(b, t) == {r \in Requests : Counts(b, t, r)}
Streak(b) == IF b.state = "closed" THEN b.failures ELSE 0
Rested(b) == IF b.state = "open" THEN b.sinceOpened ELSE 0

LEMMA CountedIsHeld ==
    ASSUME NEW a
    PROVE  /\ {r \in Requests : Holds(r, a)} = Counted(breakers[a], TokensOf(a))
           /\ {r \in Requests : Holds(r, a)}' = Counted(breakers[a], TokensOf(a))'
BY DEF Counted, Counts, TokensOf, Holds

\* A step that leaves alone what the promise knows of an alias.
LEMMA StutterMaps ==
    ASSUME NEW a \in Eligible, breakers'[a].state = breakers[a].state,
           Streak(breakers'[a]) = Streak(breakers[a]),
           Rested(breakers'[a]) = Rested(breakers[a]),
           Counted(breakers[a], TokensOf(a))' = Counted(breakers[a], TokensOf(a))
    PROVE  UNCHANGED BreakerOf(a)!vars
BY CountedIsHeld DEF BreakerOf!vars, Streak, Rested

LEMMA AdmitMaps ==
    ASSUME NEW a \in Eligible, NEW r \in Requests,
           breakers[a].state = "closed", breakers'[a] = breakers[a],
           r \notin Counted(breakers[a], TokensOf(a)),
           Counted(breakers[a], TokensOf(a))' = Counted(breakers[a], TokensOf(a)) \cup {r}
    PROVE  BreakerOf(a)!Next
<1>1. BreakerOf(a)!Admit(r)
  BY CountedIsHeld DEF BreakerOf!Admit
<1>. QED
  BY <1>1 DEF BreakerOf!Next

-----------------------------------------------------------------------------
\* Reports.

\* Request r reports o: breaker and tokens of its alias a before and after.
Reports(a, r, o) ==
    /\ breakers[a] \in Breaker /\ TokensOf(a) \in Tokens
    /\ SlotKept(breakers[a], TokensOf(a))
    /\ TokensOf(a)[r] # NoToken
    /\ breakers'[a] = Reported(breakers[a], TokensOf(a)[r], o)
    /\ TokensOf(a)' = [TokensOf(a) EXCEPT ![r] = NoToken]

\* The facts about a reporter that every report needs.
LEMMA ReporterFacts ==
    ASSUME NEW a \in Eligible, NEW r \in Requests, NEW o \in Outcomes, Reports(a, r, o)
    PROVE  LET b == breakers[a]
               t == TokensOf(a)
           IN  /\ t[r] \in LocalAttempt
               /\ Current(b, t[r]) <=> r \in Counted(b, t)
               /\ Current(b, t[r]) /\ t[r].decision = "probe" => b.state = "half_open"
               /\ Current(b, t[r]) /\ t[r].decision # "probe" => b.state = "closed"
               /\ breakers'[a].generation = b.generation =>
                     Counted(b, t)' = Counted(b, t) \ {r}
               /\ breakers'[a].generation = b.generation + 1 => Counted(b, t)' = {}
<1>. DEFINE b == breakers[a]
            t == TokensOf(a)
<1>1. b \in Breaker /\ t \in Tokens /\ SlotKept(b, t) /\ t[r] # NoToken
  BY DEF Reports
<1>2. Counted(b, t)' = Counted(breakers'[a], [t EXCEPT ![r] = NoToken])
  BY DEF Reports, Counted
<1>3. breakers'[a].generation = b.generation => Counted(b, t)' = Counted(b, t) \ {r}
  BY <1>1, <1>2, CountsAfterReport DEF Counted
<1>4. breakers'[a].generation = b.generation + 1 => Counted(b, t)' = {}
  BY <1>1, <1>2, CountsAfterTransition DEF Counted
<1>5. t[r] \in LocalAttempt /\ (Current(b, t[r]) <=> r \in Counted(b, t))
  BY <1>1 DEF Tokens, Counted, Counts
<1>6. Current(b, t[r]) => b.state = IF t[r].decision = "probe" THEN "half_open" ELSE "closed"
  BY <1>1 DEF SlotKept, Counts
<1>. QED
  BY <1>3, <1>4, <1>5, <1>6

\* A transition: the new mode, and nothing left of what was counted.
LEMMA TransitionMaps ==
    ASSUME NEW a \in Eligible, NEW r \in Requests, NEW o \in Outcomes, Reports(a, r, o),
           NEW c \in Breaker, NEW s \in {"closed", "open"},
           c.generation = breakers[a].generation, breakers'[a] = Transition(c, s)
    PROVE  /\ breakers'[a].state = s
           /\ Counted(breakers[a], TokensOf(a))' = {}
           /\ Streak(breakers'[a]) = 0
           /\ Rested(breakers'[a]) = 0
<1>1. s \in State
  BY DEF State
<1>2. /\ Transition(c, s).state = s
      /\ Transition(c, s).generation = c.generation + 1
      /\ Transition(c, s).failures = IF s = "closed" THEN 0 ELSE c.failures
      /\ Transition(c, s).sinceOpened = IF s = "open" THEN 0 ELSE c.sinceOpened
  BY <1>1, TransitionFacts
<1>3. breakers'[a].generation = breakers[a].generation + 1
  BY <1>2
<1>. QED
  BY <1>2, <1>3, ReporterFacts DEF Streak, Rested

\* A report of an earlier generation is a stutter of the promise.
LEMMA LateReportMaps ==
    ASSUME NEW a \in Eligible, NEW r \in Requests, NEW o \in Outcomes, Reports(a, r, o),
           ~Current(breakers[a], TokensOf(a)[r])
    PROVE  UNCHANGED BreakerOf(a)!vars
<1>1. breakers'[a] = breakers[a]
  BY DEF Reports, Reported, Outcomes, RecordSuccess, RecordFailure, Release
<1>2. Counted(breakers[a], TokensOf(a))' = Counted(breakers[a], TokensOf(a))
  BY <1>1, ReporterFacts
<1>. QED
  BY <1>1, <1>2, StutterMaps

LEMMA SuccessMaps ==
    ASSUME NEW a \in Eligible, NEW r \in Requests, Reports(a, r, "success"),
           Current(breakers[a], TokensOf(a)[r])
    PROVE  BreakerOf(a)!Succeed(r)
<1>. DEFINE b == breakers[a]
            t == TokensOf(a)
<1>0. /\ "success" \in Outcomes /\ b \in Breaker
      /\ breakers'[a] = RecordSuccess(b, t[r])
  BY DEF Outcomes, Reports, Reported
<1>1. r \in Counted(b, t)
  BY <1>0, ReporterFacts
<1>2. CASE b.state = "half_open"
  <2>1. breakers'[a] = Transition(b, "closed")
    BY <1>0, <1>2 DEF RecordSuccess
  <2>2. /\ breakers'[a].state = "closed" /\ Counted(b, t)' = {}
        /\ Streak(breakers'[a]) = 0 /\ Rested(breakers'[a]) = 0
    BY <1>0, <2>1, TransitionMaps
  <2>. QED
    BY <1>1, <1>2, <2>2, CountedIsHeld DEF BreakerOf!Succeed, Streak, Rested
<1>3. CASE b.state # "half_open"
  <2>1. b.state = "closed"
    BY <1>0, <1>3, ReporterFacts
  <2>2. breakers'[a] = [b EXCEPT !.failures = 0]
    BY <1>0, <1>3 DEF RecordSuccess
  <2>3. /\ breakers'[a].state = "closed"
        /\ breakers'[a].generation = b.generation
        /\ breakers'[a].failures = 0
    BY <1>0, <2>1, <2>2, SetFailuresFacts
  <2>4. Counted(b, t)' = Counted(b, t) \ {r}
    BY <1>0, <2>3, ReporterFacts
  <2>. QED
    BY <1>1, <2>1, <2>3, <2>4, CountedIsHeld DEF BreakerOf!Succeed
<1>. QED
  BY <1>2, <1>3

LEMMA FailureMaps ==
    ASSUME NEW a \in Eligible, NEW r \in Requests, Reports(a, r, "failure"),
           Current(breakers[a], TokensOf(a)[r])
    PROVE  BreakerOf(a)!Fail(r)
<1>. DEFINE b == breakers[a]
            t == TokensOf(a)
<1>0. /\ "failure" \in Outcomes /\ b \in Breaker
      /\ breakers'[a] = RecordFailure(b, t[r])
  BY DEF Outcomes, Reports, Reported
<1>1. r \in Counted(b, t)
  BY <1>0, ReporterFacts
<1>2. CASE t[r].decision = "probe"
  <2>1. b.state = "half_open"
    BY <1>0, <1>2, ReporterFacts
  <2>2. breakers'[a] = Transition(b, "open")
    BY <1>0, <1>2 DEF RecordFailure
  <2>3. /\ breakers'[a].state = "open" /\ Counted(b, t)' = {}
        /\ Streak(breakers'[a]) = 0 /\ Rested(breakers'[a]) = 0
    BY <1>0, <2>2, TransitionMaps
  <2>. QED
    BY <1>1, <2>1, <2>3, CountedIsHeld
    DEF BreakerOf!Fail, BreakerOf!Open, Streak, Rested
<1>3. CASE t[r].decision # "probe"
  <2>. DEFINE n == b.failures + 1
              c == [b EXCEPT !.failures = n]
  <2>1. b.state = "closed"
    BY <1>0, <1>3, ReporterFacts
  <2>2. n \in Nat
    BY <1>0 DEF Breaker
  <2>3. breakers'[a] = IF n >= FailureThreshold THEN Transition(c, "open") ELSE c
    BY <1>0, <1>3 DEF RecordFailure, CountFailure
  <2>4. /\ c \in Breaker
        /\ c.failures = n
        /\ c.state = b.state
        /\ c.generation = b.generation
    BY <1>0, <2>2, SetFailuresFacts
  <2>. HIDE DEF c
  <2>5. CASE n >= FailureThreshold
    <3>1. breakers'[a] = Transition(c, "open")
      BY <2>3, <2>5
    <3>2. /\ breakers'[a].state = "open" /\ Counted(b, t)' = {}
          /\ Streak(breakers'[a]) = 0 /\ Rested(breakers'[a]) = 0
      BY <1>0, <2>4, <3>1, TransitionMaps
    <3>. QED
      BY <1>1, <2>1, <2>5, <3>2, CountedIsHeld
      DEF BreakerOf!Fail, BreakerOf!Open, Streak, Rested
  <2>6. CASE n < FailureThreshold
    <3>1. breakers'[a] = c
      BY <2>2, <2>3, <2>6, BreakerAssumption
    <3>2. Counted(b, t)' = Counted(b, t) \ {r}
      BY <1>0, <2>4, <3>1, ReporterFacts
    <3>. QED
      BY <1>1, <2>1, <2>4, <2>6, <3>1, <3>2, CountedIsHeld DEF BreakerOf!Fail
  <2>. QED
    BY <2>2, <2>5, <2>6, BreakerAssumption
<1>. QED
  BY <1>2, <1>3

LEMMA AbandonMaps ==
    ASSUME NEW a \in Eligible, NEW r \in Requests, Reports(a, r, "abandoned"),
           Current(breakers[a], TokensOf(a)[r])
    PROVE  BreakerOf(a)!Withdraw(r)
<1>. DEFINE b == breakers[a]
            t == TokensOf(a)
<1>0. /\ "abandoned" \in Outcomes /\ b \in Breaker
      /\ breakers'[a] = Release(b, t[r])
  BY DEF Outcomes, Reports, Reported
<1>1. r \in Counted(b, t)
  BY <1>0, ReporterFacts
<1>2. /\ breakers'[a].state = b.state
      /\ breakers'[a].failures = b.failures
      /\ breakers'[a].generation = b.generation
      /\ breakers'[a].sinceOpened = b.sinceOpened
  BY <1>0, SetSlotFacts DEF Release
<1>3. Counted(b, t)' = Counted(b, t) \ {r}
  BY <1>0, <1>2, ReporterFacts
<1>. QED
  BY <1>1, <1>2, <1>3, CountedIsHeld DEF BreakerOf!Withdraw

LEMMA ReportMaps ==
    ASSUME NEW a \in Eligible, NEW r \in Requests, NEW o \in Outcomes, Reports(a, r, o)
    PROVE  BreakerOf(a)!Next \/ UNCHANGED BreakerOf(a)!vars
<1>1. CASE Current(breakers[a], TokensOf(a)[r])
  <2>1. BreakerOf(a)!Succeed(r) \/ BreakerOf(a)!Fail(r) \/ BreakerOf(a)!Withdraw(r)
    BY <1>1, SuccessMaps, FailureMaps, AbandonMaps DEF Outcomes
  <2>. QED
    BY <2>1 DEF BreakerOf!Next
<1>. QED
  BY <1>1, LateReportMaps

-----------------------------------------------------------------------------
\* The other steps.

\* A step that leaves breaker and tokens of an alias alone.
LEMMA QuietMaps ==
    ASSUME NEW a \in Eligible, breakers'[a] = breakers[a], TokensOf(a)' = TokensOf(a)
    PROVE  UNCHANGED BreakerOf(a)!vars
<1>1. Counted(breakers[a], TokensOf(a))' = Counted(breakers[a], TokensOf(a))
  BY DEF Counted, Counts
<1>. QED
  BY <1>1, StutterMaps

LEMMA ConcludeMaps ==
    ASSUME RelayInv, SlotInv, NEW r \in Requests, NEW o \in Outcomes, Conclude(r, o),
           UNCHANGED alias, NEW a \in Eligible
    PROVE  BreakerOf(a)!Next \/ UNCHANGED BreakerOf(a)!vars
<1>1. CASE token[r] = NoToken
  <2>1. breakers' = breakers /\ token' = token
    BY <1>1 DEF Conclude, RelayInv, TypeOK
  <2>2. TokensOf(a)' = TokensOf(a)
    BY <2>1 DEF TokensOf
  <2>. QED
    BY <2>1, <2>2, QuietMaps
<1>2. CASE token[r] # NoToken /\ a # alias[r]
  BY <1>2, ConcludeOnAliases, QuietMaps
<1>3. CASE token[r] # NoToken /\ a = alias[r]
  <2>1. Reports(a, r, o)
    BY <1>3, ConcludeOnAliases, TokensOfType DEF Reports, SlotInv
  <2>. QED
    BY <2>1, ReportMaps
<1>. QED
  BY <1>1, <1>2, <1>3

LEMMA RouteLocalMaps ==
    ASSUME RelayInv, SlotInv, NEW r \in Requests, RouteLocal(r), NEW a \in Eligible
    PROVE  BreakerOf(a)!Next \/ UNCHANGED BreakerOf(a)!vars
<1>. DEFINE b == breakers[a]
            t == TokensOf(a)
<1>1. CASE a # alias[r]
  BY <1>1, RouteLocalOnAliases, QuietMaps
<1>2. CASE a = alias[r]
  <2>1. /\ b \in Breaker /\ t \in Tokens /\ SlotKept(b, t)
        /\ Begin(b).decision # "skip"
        /\ breakers'[a] = Begin(b).breaker
        /\ t[r] = NoToken
        /\ t' = [t EXCEPT ![r] = Handed(b)]
    BY <1>2, RouteLocalOnAliases, TokensOfType DEF SlotInv, RouteLocal, GetsSlot
  <2>2. \A q \in Requests : t'[q] = IF q = r THEN Handed(b) ELSE t[q]
    BY <2>1 DEF Tokens
  <2>3. Handed(b).decision = Begin(b).decision /\ Handed(b).generation = Begin(b).generation
    BY DEF Handed
  <2>4. CASE Begin(b).decision = "attempt"
    <3>1. b.state = "closed" /\ breakers'[a] = b /\ Handed(b).generation = b.generation
      BY <2>1, <2>3, <2>4, BeginAttempt
    <3>2. Handed(b) # NoToken
      BY <2>3, <2>4 DEF NoToken
    <3>3. r \notin Counted(b, t)
      BY <2>1 DEF Counted, Counts
    <3>4. Counted(b, t)' = Counted(b, t) \cup {r}
      BY <2>2, <3>1, <3>2 DEF Counted, Counts, Current
    <3>. QED
      BY <3>1, <3>3, <3>4, AdmitMaps
  <2>5. CASE Begin(b).decision = "probe"
    <3>1. /\ breakers'[a].state = "half_open"
          /\ breakers'[a].generation = Handed(b).generation
          /\ \/ /\ b.state = "half_open" /\ b.probeInFlight = FALSE
                /\ Handed(b).generation = b.generation
             \/ /\ b.state = "open" /\ b.sinceOpened = OpenSeconds
                /\ Handed(b).generation = b.generation + 1
      BY <2>1, <2>3, <2>5, BeginProbe
    <3>2. \A q \in Requests : ~Counts(b, t, q)
      BY <2>1, <3>1 DEF SlotKept, Probing
    <3>3. b.generation \in Nat
      BY <2>1 DEF Breaker
    <3>4. \A q \in Requests : t[q] # NoToken =>
              t[q].generation < b.generation /\ t[q].generation \in Nat
      BY <2>1, <3>2, <3>3 DEF SlotKept, Counts, Current, Tokens, LocalAttempt
    <3>5. \A q \in Requests : Counts(breakers'[a], t', q) <=> q = r
      BY <2>2, <2>3, <2>5, <3>1, <3>3, <3>4 DEF Counts, Current, NoToken
    <3>6. Counted(b, t) = {} /\ Counted(b, t)' = {r}
      BY <3>2, <3>5 DEF Counted
    <3>7. BreakerOf(a)!Probe(r)
      BY <3>1, <3>6, CountedIsHeld DEF BreakerOf!Probe
    <3>. QED
      BY <3>7 DEF BreakerOf!Next
  <2>. QED
    BY <2>1, <2>4, <2>5, BeginDecides
<1>. QED
  BY <1>1, <1>2

\* A slot taken and given back: nothing, or an open circuit found half-open.
LEMMA RouteTooLateMaps ==
    ASSUME RelayInv, SlotInv, NEW r \in Requests, RouteTooLate(r), NEW a \in Eligible
    PROVE  BreakerOf(a)!Next \/ UNCHANGED BreakerOf(a)!vars
<1>. DEFINE b == breakers[a]
            t == TokensOf(a)
            c == Begin(b).breaker
            h == Handed(b)
<1>1. CASE a # alias[r]
  BY <1>1, RouteTooLateOnAliases, QuietMaps
<1>2. CASE a = alias[r]
  <2>1. /\ b \in Breaker /\ t \in Tokens /\ SlotKept(b, t)
        /\ Begin(b).decision # "skip"
        /\ breakers'[a] = Release(c, h)
        /\ t' = t
    BY <1>2, RouteTooLateOnAliases, TokensOfType DEF SlotInv, RouteTooLate, GetsSlot
  <2>2. h.decision = Begin(b).decision /\ h.generation = Begin(b).generation
    BY DEF Handed
  <2>3. CASE Begin(b).decision = "attempt"
    <3>1. breakers'[a] = b
      BY <2>1, <2>2, <2>3, BeginAttempt DEF Release
    <3>. QED
      BY <2>1, <3>1, QuietMaps
  <2>4. CASE Begin(b).decision = "probe"
    <3>1. /\ c \in Breaker /\ c.state = "half_open"
          /\ c.generation = h.generation
          /\ \/ b.state = "half_open" /\ h.generation = b.generation
             \/ /\ b.state = "open" /\ b.sinceOpened = OpenSeconds
                /\ h.generation = b.generation + 1
      BY <2>1, <2>2, <2>4, BeginProbe
    <3>. HIDE DEF c, h
    <3>2. breakers'[a].state = "half_open" /\ breakers'[a].generation = c.generation
      BY <2>1, <3>1, SetSlotFacts DEF Release
    <3>3. Streak(breakers'[a]) = 0 /\ Rested(breakers'[a]) = 0 /\ Streak(b) = 0
      BY <3>1, <3>2 DEF Streak, Rested
    <3>4. CASE b.state = "half_open" /\ h.generation = b.generation
      <4>1. Counted(b, t)' = Counted(b, t)
        BY <2>1, <3>1, <3>2, <3>4 DEF Counted, Counts, Current
      <4>2. Rested(b) = 0
        BY <3>4 DEF Rested
      <4>. QED
        BY <3>2, <3>3, <3>4, <4>1, <4>2, StutterMaps
    <3>5. CASE /\ b.state = "open" /\ b.sinceOpened = OpenSeconds
               /\ h.generation = b.generation + 1
      <4>1. \A q \in Requests : ~Counts(b, t, q)
        BY <2>1, <3>5 DEF SlotKept
      <4>2. b.generation \in Nat
        BY <2>1 DEF Breaker
      <4>3. \A q \in Requests : t[q] # NoToken =>
                t[q].generation <= b.generation /\ t[q].generation \in Nat
        BY <2>1 DEF SlotKept, Tokens, LocalAttempt
      <4>4. \A q \in Requests : ~Counts(breakers'[a], t', q)
        BY <2>1, <3>1, <3>2, <3>5, <4>2, <4>3 DEF Counts, Current
      <4>5. Counted(b, t)' = Counted(b, t)
        BY <4>1, <4>4 DEF Counted
      <4>6. BreakerOf(a)!HalfOpen
        BY <3>2, <3>3, <3>5, <4>5, CountedIsHeld DEF BreakerOf!HalfOpen, Streak, Rested
      <4>. QED
        BY <4>6 DEF BreakerOf!Next
    <3>. QED
      BY <3>1, <3>4, <3>5
  <2>. QED
    BY <2>1, <2>3, <2>4, BeginDecides
<1>. QED
  BY <1>1, <1>2

LEMMA TickMaps ==
    ASSUME RelayInv, Tick, NEW a \in Eligible
    PROVE  BreakerOf(a)!Next \/ UNCHANGED BreakerOf(a)!vars
<1>. DEFINE b == breakers[a]
<1>1. b \in Breaker /\ breakers'[a] = Elapse(b) /\ TokensOf(a)' = TokensOf(a)
  BY DEF Tick, RelayInv, TypeOK, TokensOf
<1>2. CASE b.state = "open" /\ b.sinceOpened < OpenSeconds
  <2>1. /\ breakers'[a].state = "open"
        /\ breakers'[a].generation = b.generation
        /\ breakers'[a].sinceOpened = b.sinceOpened + 1
    BY <1>1, <1>2 DEF Elapse, Breaker
  <2>2. Counted(b, TokensOf(a))' = Counted(b, TokensOf(a))
    BY <1>1, <2>1 DEF Counted, Counts, Current
  <2>3. BreakerOf(a)!Rest
    BY <1>2, <2>1, <2>2, CountedIsHeld DEF BreakerOf!Rest
  <2>. QED
    BY <2>3 DEF BreakerOf!Next
<1>3. CASE ~(b.state = "open" /\ b.sinceOpened < OpenSeconds)
  BY <1>1, <1>3, QuietMaps DEF Elapse
<1>. QED
  BY <1>2, <1>3

LEMMA QuietStepMaps ==
    ASSUME Quiet, NEW a \in Eligible
    PROVE  UNCHANGED BreakerOf(a)!vars
<1>1. TokensOf(a)' = TokensOf(a)
  BY DEF Quiet, TokensOf
<1>. QED
  BY <1>1, QuietMaps DEF Quiet

LEMMA NextMaps ==
    ASSUME RelayInv, SlotInv, [Next]_vars, NEW a \in Eligible
    PROVE  BreakerOf(a)!Next \/ UNCHANGED BreakerOf(a)!vars
<1>1. CASE Quiet
  BY <1>1, QuietStepMaps
<1>2. ASSUME NEW r \in Requests, NEW o \in Outcomes, Conclude(r, o), UNCHANGED alias
      PROVE  BreakerOf(a)!Next \/ UNCHANGED BreakerOf(a)!vars
  BY <1>2, ConcludeMaps
<1>3. ASSUME NEW r \in Requests, RouteLocal(r) \/ RouteTooLate(r)
      PROVE  BreakerOf(a)!Next \/ UNCHANGED BreakerOf(a)!vars
  BY <1>3, RouteLocalMaps, RouteTooLateMaps
<1>4. CASE Tick
  BY <1>4, TickMaps
<1>. QED
  BY <1>1, <1>2, <1>3, <1>4, KindsOfSteps

\* Every step of the relay keeps the promise of every alias' breaker: whatever
\* path a request takes through relay_chat_completions, and however many do at
\* once, begin() and its reports arrive as circuit_breaker expects them.
THEOREM BreakersKeptAsPromised == Spec => KeepsBreakerPromise
<1>1. ASSUME Init, NEW a \in Eligible PROVE BreakerOf(a)!Init
  BY <1>1 DEF Init, NewBreaker, Holds, BreakerOf!Init
<1>2. ASSUME RelayInv, SlotInv, [Next]_vars
      PROVE  [\A a \in Eligible : BreakerOf(a)!Next \/ UNCHANGED BreakerOf(a)!vars]_vars
  BY <1>2, NextMaps
<1>3. Init => \A a \in Eligible : BreakerOf(a)!Init
  BY <1>1
<1>. QED
  BY <1>2, <1>3, SlotInvariance, PTL DEF Spec, KeepsBreakerPromise

=============================================================================
