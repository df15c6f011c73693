--------------------------- MODULE BreakerClients ---------------------------
(***************************************************************************)
(* One circuit breaker shared by the requests of its alias: each request   *)
(* in turn asks begin(), goes to the local server unless told to skip, and *)
(* later reports success, failure or neither, in any order relative to the *)
(* other requests.  The tokens begin() hands out are the only thing that   *)
(* tells the breaker which of these reports still matter.                  *)
(***************************************************************************)
EXTENDS CircuitBreaker

CONSTANTS
    Requests,     \* concurrent requests for the alias; each may come again
    MaxFaults     \* failures and abandonments the environment has in store

ASSUME FaultsAssumption == MaxFaults \in Nat

VARIABLES
    breaker,      \* the breaker object
    token,        \* token[r] is the LocalAttempt request r holds, or NoToken
    faults        \* the failures and abandonments still to come

vars == <<breaker, token, faults>>

NoToken == [decision |-> "none", generation |-> 0]

TypeOK ==
    /\ breaker \in Breaker
    /\ token \in [Requests -> LocalAttempt \cup {NoToken}]
    /\ faults \in 0 .. MaxFaults

Init ==
    /\ breaker = NewBreaker
    /\ token = [r \in Requests |-> NoToken]
    /\ faults = MaxFaults

-----------------------------------------------------------------------------
\* Mistake: a request told to skip goes to the local server all the same.
StartWhateverDecided(r) ==
    /\ token[r] = NoToken
    /\ LET begun == Begin(breaker) IN
        /\ breaker' = begun.breaker
        /\ token' = [token EXCEPT ![r] = [decision   |-> begun.decision,
                                          generation |-> begun.generation]]
    /\ UNCHANGED faults

\* begin() decides attempt or probe: the request keeps the token.
Start(r) ==
    /\ token[r] = NoToken
    /\ LET begun == Begin(breaker) IN
        /\ begun.decision # "skip"
        /\ breaker' = begun.breaker
        /\ token' = [token EXCEPT ![r] = [decision   |-> begun.decision,
                                          generation |-> begun.generation]]
    /\ UNCHANGED faults

\* begin() decides skip: the request goes to the fallback and never reports.
Skip(r) ==
    /\ token[r] = NoToken
    /\ Begin(breaker).decision = "skip"
    /\ breaker' = Begin(breaker).breaker
    /\ UNCHANGED <<token, faults>>

\* Local served the request, or refused it with an error of the client's own.
Succeed(r) ==
    /\ token[r] # NoToken
    /\ breaker' = RecordSuccess(breaker, token[r])
    /\ token' = [token EXCEPT ![r] = NoToken]
    /\ UNCHANGED faults

\* Local gave no valid answer, or cut a stream it had begun.
Fail(r) ==
    /\ token[r] # NoToken
    /\ faults > 0
    /\ faults' = faults - 1
    /\ breaker' = RecordFailure(breaker, token[r])
    /\ token' = [token EXCEPT ![r] = NoToken]

\* Cancelled, abandoned by its client, or out of time before being sent.
Abandon(r) ==
    /\ token[r] # NoToken
    /\ faults > 0
    /\ faults' = faults - 1
    /\ breaker' = Release(breaker, token[r])
    /\ token' = [token EXCEPT ![r] = NoToken]

Tick ==
    /\ breaker.state = "open"
    /\ breaker.sinceOpened < OpenSeconds
    /\ breaker' = Elapse(breaker)
    /\ UNCHANGED <<token, faults>>

Report(r) == Succeed(r) \/ Fail(r) \/ Abandon(r)

Next ==
    \/ \E r \in Requests : Start(r) \/ Skip(r) \/ Report(r)
    \/ Tick

Spec == Init /\ [][Next]_vars

\* Time passes, and the alias keeps receiving requests: only begin() ever leaves
\* the open state.  No attempt need end: that of a committed stream has no
\* deadline.
Fairness ==
    /\ WF_vars(Tick)
    /\ \A r \in Requests : WF_vars(Start(r))

FairSpec == Spec /\ Fairness

-----------------------------------------------------------------------------
Holds(r) == token[r] # NoToken /\ Current(breaker, token[r])

\* The half-open probe slot is taken exactly when some unfinished request
\* holds a current probe token.  Lost (taken, and nobody left to free it) the
\* alias would never leave half-open again: begin() answers skip for ever.
ProbeSlotOwned ==
    breaker.probeInFlight <=>
        \E r \in Requests : Holds(r) /\ token[r].decision = "probe"

\* A half-open circuit has at most one request testing the local server.
SingleProbe ==
    \A r, s \in Requests :
        /\ Holds(r) /\ token[r].decision = "probe"
        /\ Holds(s) /\ token[s].decision = "probe"
        => r = s

\* A current token was handed out by the state the circuit is still in, and
\* no token comes from the future.
TokensMatchState ==
    \A r \in Requests : token[r] # NoToken =>
        /\ token[r].generation <= breaker.generation
        /\ Holds(r) => breaker.state = IF token[r].decision = "probe"
                                       THEN "half_open" ELSE "closed"

\* A circuit that stays closed has fewer failures in a row than the threshold.
FailuresBelowThreshold ==
    /\ breaker.failures <= FailureThreshold
    /\ breaker.state = "closed" => breaker.failures < FailureThreshold

\* Inductive: with TypeOK it implies all of the safety properties above.
IInv ==
    /\ TypeOK
    /\ TokensMatchState
    /\ ProbeSlotOwned
    /\ SingleProbe
    /\ FailuresBelowThreshold

\* Only a report by the request that holds the probe slot closes or reopens a
\* half-open circuit: late results of earlier generations cannot (the cross
\* completion that circuit_breaker.py's first comment rules out).
OnlyProbeDecides ==
    [][breaker.state = "half_open" /\ breaker'.state # "half_open" =>
          \E r \in Requests : /\ Holds(r)
                              /\ token[r].decision = "probe"
                              /\ token'[r] = NoToken]_vars

\* Once the faults are over, the alias returns to the local server for good, unless
\* the request that is to test it never reports: a probe whose stream goes on for
\* ever keeps everybody else on OpenAI (begin answers skip).  Other requests that
\* never report do no harm.
RecoversForGood ==
    \/ <>[](breaker.state = "closed")
    \/ \E r \in Requests : <>[](Holds(r) /\ token[r].decision = "probe")

\* The breaker implements the generation-free promise.
Promise == INSTANCE AbstractBreaker WITH
    mode    <- breaker.state,
    counted <- {r \in Requests : Holds(r)},
    streak  <- IF breaker.state = "closed" THEN breaker.failures ELSE 0,
    rested  <- IF breaker.state = "open" THEN breaker.sinceOpened ELSE 0

\* Every step of the breaker under its callers is a step AbstractBreaker
\* allows: comparing generations amounts to forgetting every unfinished
\* attempt at every transition, and the probe flag to counting one attempt.
KeepsPromise == Promise!Spec

=============================================================================
