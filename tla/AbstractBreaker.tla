--------------------------- MODULE AbstractBreaker --------------------------
(***************************************************************************)
(* What a circuit breaker promises its callers, with neither generations   *)
(* nor a probe flag: the circuit keeps the set of attempts whose result it *)
(* still counts and forgets all of them whenever it changes its mode.  A   *)
(* half-open circuit counts at most one attempt, the probe.                *)
(*                                                                         *)
(* BreakerClients and ChatRelay are shown to implement this.               *)
(***************************************************************************)
EXTENDS Naturals

CONSTANTS Requests, FailureThreshold, OpenSeconds

VARIABLES
    mode,      \* "closed", "open" or "half_open"
    counted,   \* the requests whose result the circuit will take into account
    streak,    \* consecutive counted failures while closed
    rested     \* time spent open, up to OpenSeconds

vars == <<mode, counted, streak, rested>>

Init ==
    /\ mode = "closed"
    /\ counted = {}
    /\ streak = 0
    /\ rested = 0

\* Traffic flows while the circuit is closed.
Admit(r) ==
    /\ mode = "closed"
    /\ r \notin counted
    /\ counted' = counted \cup {r}
    /\ UNCHANGED <<mode, streak, rested>>

\* One request at a time tests a circuit that has rested for OpenSeconds.
Probe(r) ==
    /\ counted = {}
    /\ mode = "half_open" \/ (mode = "open" /\ rested = OpenSeconds)
    /\ mode' = "half_open"
    /\ counted' = {r}
    /\ rested' = 0
    /\ UNCHANGED streak

\* The probe's success closes the circuit; any other ends the failure streak.
Succeed(r) ==
    /\ r \in counted
    /\ mode' = "closed"
    /\ counted' = IF mode = "half_open" THEN {} ELSE counted \ {r}
    /\ streak' = 0
    /\ UNCHANGED rested

Open ==
    /\ mode' = "open"
    /\ counted' = {}
    /\ streak' = 0
    /\ rested' = 0

\* The probe's failure opens the circuit again, as does the failure that
\* completes a streak of FailureThreshold.
Fail(r) ==
    /\ r \in counted
    /\ \/ mode = "half_open" /\ Open
       \/ mode = "closed" /\ streak + 1 >= FailureThreshold /\ Open
       \/ /\ mode = "closed"
          /\ streak + 1 < FailureThreshold
          /\ counted' = counted \ {r}
          /\ streak' = streak + 1
          /\ UNCHANGED <<mode, rested>>

\* An attempt that ends without a verdict frees its place and nothing else.
Withdraw(r) ==
    /\ r \in counted
    /\ counted' = counted \ {r}
    /\ UNCHANGED <<mode, streak, rested>>

\* A rested circuit may turn half-open for a request that then has no time left
\* to test anything: the next one probes.
HalfOpen ==
    /\ mode = "open"
    /\ rested = OpenSeconds
    /\ mode' = "half_open"
    /\ rested' = 0
    /\ UNCHANGED <<counted, streak>>

Rest ==
    /\ mode = "open"
    /\ rested < OpenSeconds
    /\ rested' = rested + 1
    /\ UNCHANGED <<mode, counted, streak>>

Next ==
    \/ \E r \in Requests :
          Admit(r) \/ Probe(r) \/ Succeed(r) \/ Fail(r) \/ Withdraw(r)
    \/ HalfOpen
    \/ Rest

Spec == Init /\ [][Next]_vars

=============================================================================
