--------------------------- MODULE CircuitBreaker ---------------------------
(***************************************************************************)
(* One circuit breaker (circuit_breaker.py) as a value and its methods as  *)
(* operators on that value.  A method of the class runs between two awaits *)
(* of the event loop, so each is one indivisible step of whoever calls it: *)
(* BreakerClients and ChatRelay are the callers modelled.                  *)
(*                                                                         *)
(* The monotonic clock and opened_at are one bounded timer: sinceOpened is *)
(* min(clock() - opened_at, OpenSeconds), which is all begin() looks at.   *)
(***************************************************************************)
EXTENDS Naturals

CONSTANTS
    FailureThreshold,   \* circuit_breaker_failure_threshold (ge=1)
    OpenSeconds         \* circuit_breaker_open_seconds (gt=0), in clock units

ASSUME BreakerAssumption ==
    /\ FailureThreshold \in Nat \ {0}
    /\ OpenSeconds \in Nat \ {0}

State == {"closed", "open", "half_open"}

\* The decisions that come with a slot to give back; "skip" carries none.
LocalDecision == {"attempt", "probe"}

LocalAttempt == [decision : LocalDecision, generation : Nat]

Breaker == [state         : State,
            failures      : Nat,
            sinceOpened   : 0 .. OpenSeconds,
            probeInFlight : BOOLEAN,
            generation    : Nat]

NewBreaker == [state         |-> "closed",
               failures      |-> 0,
               sinceOpened   |-> 0,
               probeInFlight |-> FALSE,
               generation    |-> 0]

\* A second of the monotonic clock; elapsed time matters only while open.
Elapse(b) ==
    IF b.state = "open" /\ b.sinceOpened < OpenSeconds
    THEN [b EXCEPT !.sinceOpened = @ + 1]
    ELSE b

-----------------------------------------------------------------------------
\* Mistake: a transition that leaves the probe slot as it was.
TransitionKeepingSlot(b, state) ==
    [b EXCEPT !.state       = state,
              !.generation  = @ + 1,
              !.failures    = IF state = "closed" THEN 0 ELSE @,
              !.sinceOpened = IF state = "open" THEN 0 ELSE @]

\* Mistake: a transition that does not begin a new generation.
TransitionKeepingGeneration(b, state) ==
    [b EXCEPT !.state         = state,
              !.probeInFlight = FALSE,
              !.failures      = IF state = "closed" THEN 0 ELSE @,
              !.sinceOpened   = IF state = "open" THEN 0 ELSE @]

\* Every change of state begins a generation; results of attempts begun in an
\* earlier one are ignored from here on.
Transition(b, state) ==
    [state         |-> state,
     failures      |-> IF state = "closed" THEN 0 ELSE b.failures,
     sinceOpened   |-> IF state = "open" THEN 0 ELSE b.sinceOpened,
     probeInFlight |-> FALSE,
     generation    |-> b.generation + 1]

\* The circuit as begin() sees it: an open one whose time is up is half-open.
Refreshed(b) ==
    IF b.state = "open" /\ b.sinceOpened >= OpenSeconds
    THEN Transition(b, "half_open")
    ELSE b

\* Mistake: every request probes a half-open circuit.
DecisionIgnoringSlot(b) ==
    CASE b.state = "closed"    -> "attempt"
      [] b.state = "half_open" -> "probe"
      [] OTHER                 -> "skip"

Decision(b) ==
    CASE b.state = "closed"                        -> "attempt"
      [] b.state = "half_open" /\ ~b.probeInFlight -> "probe"
      [] OTHER                                     -> "skip"

\* begin(): the decision for this request, the generation it belongs to, and
\* the breaker it leaves behind.
Begin(b) ==
    LET r == Refreshed(b)
    IN  [decision   |-> Decision(r),
         generation |-> r.generation,
         breaker    |-> [r EXCEPT !.probeInFlight =
                                      IF Decision(r) = "probe" THEN TRUE ELSE @]]

\* Is attempt a of the generation the circuit is in?
Current(b, a) == a.generation = b.generation

RecordSuccess(b, a) ==
    IF ~Current(b, a)            THEN b
    ELSE IF b.state = "half_open" THEN Transition(b, "closed")
    ELSE [b EXCEPT !.failures = 0]

\* One more failure in a row, which opens the circuit at the threshold.
CountFailure(b) ==
    LET failures == b.failures + 1
        counted  == [b EXCEPT !.failures = failures]
    IN  IF failures >= FailureThreshold THEN Transition(counted, "open") ELSE counted

\* Mistake: the threshold is compared before this failure is counted.
RecordFailureOneLate(b, a) ==
    IF ~Current(b, a)             THEN b
    ELSE IF a.decision = "probe"  THEN Transition(b, "open")
    ELSE IF b.failures >= FailureThreshold THEN Transition(b, "open")
    ELSE [b EXCEPT !.failures = @ + 1]

\* Mistake: failures of earlier generations count.
RecordFailureAnyGeneration(b, a) ==
    IF a.decision = "probe" THEN Transition(b, "open") ELSE CountFailure(b)

RecordFailure(b, a) ==
    IF ~Current(b, a)            THEN b
    ELSE IF a.decision = "probe" THEN Transition(b, "open")
    ELSE CountFailure(b)

\* Mistake: an abandoned probe keeps its slot.
ReleaseNothing(b, a) == b

Release(b, a) ==
    IF Current(b, a) /\ a.decision = "probe"
    THEN [b EXCEPT !.probeInFlight = FALSE]
    ELSE b

=============================================================================
