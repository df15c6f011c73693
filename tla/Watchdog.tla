------------------------------ MODULE Watchdog ------------------------------
(***************************************************************************)
(* The watchdog (watchdog.Watchdog) over the tasks and services it keeps   *)
(* running through task_control.ps1.  It checks one target after another:  *)
(* reads the state Windows reports, awaits a probe of the endpoint, and    *)
(* judges by both; meanwhile tasks stop, hang and are disabled by others.  *)
(* Its definitions have names that TaskProofs can use beside Deployment's. *)
(***************************************************************************)
EXTENDS Naturals

CONSTANTS
    TargetCount,        \* how many targets _targets() lists, checked in order
    Services,           \* without a probe, always healthy to it: cloudflared
    Authenticated,      \* whose probe carries the key: the gateway
    FailureThreshold,
    InitialCooldown,    \* restart_cooldown_seconds, in clock units
    MaximumCooldown

Targets == 1 .. TargetCount

ASSUME WatchdogAssumption ==
    /\ TargetCount \in Nat \ {0}
    /\ Services \subseteq Targets
    /\ Authenticated \subseteq Targets \ Services
    /\ FailureThreshold \in Nat \ {0}
    /\ InitialCooldown \in Nat \ {0}
    /\ MaximumCooldown \in Nat \ {0}

VARIABLES
    task,       \* what Windows has of each target
    endpoint,   \* how it answers
    turn,       \* the target being checked
    step,       \* how far its check is
    seen,       \* managed_state
    result,     \* probe_result
    failures,   \* _TargetState.failures, counted up to the threshold
    wait,       \* time until next_restart_at
    cooldown,   \* _TargetState.cooldown_seconds
    \* History, for the properties only.
    trouble,    \* was anything wrong with the target since this check began?
    troubled,   \* checks in a row that had trouble and ended in nothing else
    restarts,   \* restarts since the target was last found healthy
    rest        \* time since the last of them

watchdogVars == <<turn, step, seen, result, failures, wait, cooldown>>
historyVars == <<trouble, troubled, restarts, rest>>
allWatched == <<task, endpoint, watchdogVars, historyVars>>

\* "disabled" stands for "missing" too: neither can be started.
States == {"running", "ready", "disabled"}
Results == {"healthy", "unauthorized", "failed"}
Lesser(m, n) == IF m < n THEN m ELSE n
Longest == IF InitialCooldown < MaximumCooldown THEN MaximumCooldown ELSE InitialCooldown

\* The cooldown after the n-th restart in a row.
Backoff[n \in Nat] ==
    IF n <= 1 THEN InitialCooldown ELSE Lesser(2 * Backoff[n - 1], MaximumCooldown)

\* From here on Backoff does not grow.
Settled == Longest + 1

WatchdogTypeOK ==
    /\ task \in [Targets -> States]
    /\ endpoint \in [Targets -> {"answering", "failing", "rejecting"}]
    /\ turn \in Targets
    /\ step \in {"sleep", "state", "probe", "judge", "restart"}
    /\ seen \in States \cup {"unknown"}
    /\ result \in Results
    /\ failures \in [Targets -> 0 .. FailureThreshold]
    /\ wait \in [Targets -> 0 .. Longest]
    /\ cooldown \in [Targets -> 1 .. Longest]
    /\ trouble \in BOOLEAN
    /\ troubled \in [Targets -> 0 .. FailureThreshold]
    /\ restarts \in [Targets -> 0 .. Settled]
    /\ rest \in [Targets -> 0 .. Longest]

Fresh ==
    /\ turn' = 1
    /\ step' = "sleep"
    /\ seen' = "unknown"
    /\ result' = "failed"
    /\ failures' = [t \in Targets |-> 0]
    /\ wait' = [t \in Targets |-> 0]
    /\ cooldown' = [t \in Targets |-> InitialCooldown]
    /\ trouble' = FALSE
    /\ troubled' = [t \in Targets |-> 0]
    /\ restarts' = [t \in Targets |-> 0]
    /\ rest' = [t \in Targets |-> 0]

WatchdogInit ==
    /\ task \in [Targets -> States]
    /\ endpoint \in [Targets -> {"answering", "failing", "rejecting"}]
    /\ \A t \in Services : endpoint[t] = "answering"
    /\ turn = 1
    /\ step = "sleep"
    /\ seen = "unknown"
    /\ result = "failed"
    /\ failures = [t \in Targets |-> 0]
    /\ wait = [t \in Targets |-> 0]
    /\ cooldown = [t \in Targets |-> InitialCooldown]
    /\ trouble = FALSE
    /\ troubled = [t \in Targets |-> 0]
    /\ restarts = [t \in Targets |-> 0]
    /\ rest = [t \in Targets |-> 0]

-----------------------------------------------------------------------------
\* The world around the watchdog.

InTrouble(s, e) == s # "running" \/ e # "answering"

\* A task's state or its endpoint changes: somebody starts, stops, disables or
\* removes it, it crashes, hangs or recovers.
Happen ==
    /\ \E t \in Targets :
          /\ \/ \E s \in States : task' = [task EXCEPT ![t] = s] /\ UNCHANGED endpoint
             \/ /\ t \notin Services
                /\ \E e \in {"answering", "failing", "rejecting"} :
                      endpoint' = [endpoint EXCEPT ![t] = e]
                /\ UNCHANGED task
          /\ trouble' = (trouble \/ /\ step # "sleep" /\ t = turn
                                    /\ InTrouble(task'[t], endpoint'[t]))
    /\ UNCHANGED <<watchdogVars, troubled, restarts, rest>>

Tick ==
    /\ wait' = [t \in Targets |-> IF wait[t] > 0 THEN wait[t] - 1 ELSE 0]
    /\ rest' = [t \in Targets |-> IF restarts[t] > 0 THEN Lesser(rest[t] + 1, Longest) ELSE 0]
    /\ <<wait, rest>>' # <<wait, rest>>
    /\ UNCHANGED <<task, endpoint, turn, step, seen, result, failures, cooldown,
                   trouble, troubled, restarts>>

-----------------------------------------------------------------------------
\* The checks, in turn (run_once).

BeginRound ==
    /\ step = "sleep"
    /\ step' = "state"
    /\ turn' = 1
    /\ trouble' = InTrouble(task[1], endpoint[1])
    /\ UNCHANGED <<task, endpoint, seen, result, failures, wait, cooldown,
                   troubled, restarts, rest>>

\* The check of this target is over: on to the next, or to sleep.
EndCheck ==
    IF turn + 1 \in Targets
    THEN /\ turn' = turn + 1
         /\ step' = "state"
         /\ trouble' = InTrouble(task[turn + 1], endpoint[turn + 1])
    ELSE step' = "sleep" /\ trouble' = FALSE /\ UNCHANGED turn

\* What this check found out is not used again.
Forget == seen' = "unknown" /\ result' = "failed"

\* PowerShellController.state; what cannot be found out counts as unknown.
ReadState ==
    /\ step = "state"
    /\ step' = "probe"
    /\ \/ seen' = task[turn] /\ UNCHANGED trouble
       \/ seen' = "unknown" /\ trouble' = TRUE
    /\ UNCHANGED <<task, endpoint, turn, result, failures, wait, cooldown,
                   troubled, restarts, rest>>

\* HttpProbe: 200, 401 to the key, or anything else.
Probe ==
    /\ step = "probe"
    /\ step' = "judge"
    /\ result' = CASE endpoint[turn] = "answering" -> "healthy"
                   [] endpoint[turn] = "rejecting" /\ turn \in Authenticated ->
                        "unauthorized"
                   [] OTHER -> "failed"
    /\ UNCHANGED <<task, endpoint, turn, seen, failures, wait, cooldown,
                   historyVars>>

\* The key is not accepted: a configuration error, not a failure of the target.
JudgeUnauthorized ==
    /\ step = "judge"
    /\ result = "unauthorized"
    /\ failures' = [failures EXCEPT ![turn] = 0]
    /\ troubled' = [troubled EXCEPT ![turn] = 0]
    /\ EndCheck
    /\ Forget
    /\ UNCHANGED <<task, endpoint, wait, cooldown, restarts, rest>>

\* Mistake: a healthy check does not start the count anew.
JudgeHealthyKeepingCount ==
    /\ step = "judge"
    /\ seen = "running" /\ result = "healthy"
    /\ wait' = [wait EXCEPT ![turn] = 0]
    /\ cooldown' = [cooldown EXCEPT ![turn] = InitialCooldown]
    /\ troubled' = [troubled EXCEPT ![turn] = 0]
    /\ restarts' = [restarts EXCEPT ![turn] = 0]
    /\ rest' = [rest EXCEPT ![turn] = 0]
    /\ EndCheck
    /\ Forget
    /\ UNCHANGED <<task, endpoint, failures>>

JudgeHealthy ==
    /\ step = "judge"
    /\ seen = "running" /\ result = "healthy"
    /\ failures' = [failures EXCEPT ![turn] = 0]
    /\ wait' = [wait EXCEPT ![turn] = 0]
    /\ cooldown' = [cooldown EXCEPT ![turn] = InitialCooldown]
    /\ troubled' = [troubled EXCEPT ![turn] = 0]
    /\ restarts' = [restarts EXCEPT ![turn] = 0]
    /\ rest' = [rest EXCEPT ![turn] = 0]
    /\ EndCheck
    /\ Forget
    /\ UNCHANGED <<task, endpoint>>

\* Mistake: every check that fails during the cooldown starts it anew.
JudgeFailedRenewingCooldown ==
    /\ step = "judge"
    /\ result # "unauthorized"
    /\ seen # "running" \/ result # "healthy"
    /\ failures' = [failures EXCEPT ![turn] = Lesser(@ + 1, FailureThreshold)]
    /\ troubled' = [troubled EXCEPT ![turn] =
                       IF trouble THEN Lesser(@ + 1, FailureThreshold) ELSE 0]
    /\ wait' = [wait EXCEPT ![turn] = IF @ > 0 THEN cooldown[turn] ELSE 0]
    /\ IF failures'[turn] < FailureThreshold \/ wait[turn] > 0
       THEN EndCheck
       ELSE step' = "restart" /\ UNCHANGED <<turn, trouble>>
    /\ Forget
    /\ UNCHANGED <<task, endpoint, cooldown, restarts, rest>>

\* One failure more: wait for the threshold, then for the cooldown, then act.
JudgeFailed ==
    /\ step = "judge"
    /\ result # "unauthorized"
    /\ seen # "running" \/ result # "healthy"
    /\ failures' = [failures EXCEPT ![turn] = Lesser(@ + 1, FailureThreshold)]
    /\ troubled' = [troubled EXCEPT ![turn] =
                       IF trouble THEN Lesser(@ + 1, FailureThreshold) ELSE 0]
    /\ IF failures'[turn] < FailureThreshold \/ wait[turn] > 0
       THEN EndCheck
       ELSE step' = "restart" /\ UNCHANGED <<turn, trouble>>
    /\ Forget
    /\ UNCHANGED <<task, endpoint, wait, cooldown, restarts, rest>>

-----------------------------------------------------------------------------
\* Restarting (PowerShellController.restart, task_control.ps1).

\* Mistake: the cooldown is as long after every restart.
RestartedWithoutBackoff ==
    /\ failures' = [failures EXCEPT ![turn] = 0]
    /\ wait' = [wait EXCEPT ![turn] = cooldown[turn]]
    /\ troubled' = [troubled EXCEPT ![turn] = 0]
    /\ restarts' = [restarts EXCEPT ![turn] = Lesser(@ + 1, Settled)]
    /\ rest' = [rest EXCEPT ![turn] = 0]
    /\ EndCheck
    /\ UNCHANGED <<endpoint, seen, result, cooldown>>

\* Mistake: the cooldown doubles without end.
RestartedUncapped ==
    /\ failures' = [failures EXCEPT ![turn] = 0]
    /\ wait' = [wait EXCEPT ![turn] = cooldown[turn]]
    /\ cooldown' = [cooldown EXCEPT ![turn] = 2 * @]
    /\ troubled' = [troubled EXCEPT ![turn] = 0]
    /\ restarts' = [restarts EXCEPT ![turn] = Lesser(@ + 1, Settled)]
    /\ rest' = [rest EXCEPT ![turn] = 0]
    /\ EndCheck
    /\ UNCHANGED <<endpoint, seen, result>>

\* Whatever came of it, the next one has to wait, and longer each time.
Restarted ==
    /\ failures' = [failures EXCEPT ![turn] = 0]
    /\ wait' = [wait EXCEPT ![turn] = cooldown[turn]]
    /\ cooldown' = [cooldown EXCEPT ![turn] = Lesser(2 * @, MaximumCooldown)]
    /\ troubled' = [troubled EXCEPT ![turn] = 0]
    /\ restarts' = [restarts EXCEPT ![turn] = Lesser(@ + 1, Settled)]
    /\ rest' = [rest EXCEPT ![turn] = 0]
    /\ EndCheck
    /\ UNCHANGED <<endpoint, seen, result>>

\* A task is stopped first if it runs, a service only started if it does not.
RestartWorks ==
    /\ step = "restart"
    /\ task[turn] \in {"running", "ready"}
    /\ task' = [task EXCEPT ![turn] = "running"]
    /\ Restarted

\* The command fails or times out, at whatever point: a task may be left
\* stopped, or started all the same.
RestartFails ==
    /\ step = "restart"
    /\ \/ UNCHANGED task
       \/ /\ task[turn] = "running" /\ turn \notin Services
          /\ task' = [task EXCEPT ![turn] = "ready"]
       \/ /\ task[turn] = "ready"
          /\ task' = [task EXCEPT ![turn] = "running"]
    /\ Restarted

\* The watchdog's process dies and is started again by its supervisor, with
\* nothing remembered.
Die ==
    /\ Fresh
    /\ \/ UNCHANGED task
       \/ /\ step = "restart" /\ turn \notin Services /\ task[turn] = "running"
          /\ task' = [task EXCEPT ![turn] = "ready"]
    /\ UNCHANGED endpoint

Check ==
    \/ BeginRound \/ ReadState \/ Probe
    \/ JudgeUnauthorized \/ JudgeHealthy \/ JudgeFailed

WatchdogNext == Check \/ RestartWorks \/ RestartFails \/ Die \/ Happen \/ Tick

WatchdogSpec == WatchdogInit /\ [][WatchdogNext]_allWatched

\* The loop goes on, time passes, a restart that is tried again and again works
\* in the end, and the watchdog does not die for ever.
Fairness ==
    /\ WF_allWatched(Tick)
    /\ WF_allWatched(Check)
    /\ WF_allWatched(RestartWorks \/ RestartFails)
    /\ \A t \in Targets : SF_allWatched(turn = t /\ RestartWorks)
    /\ <>[][~Die]_allWatched

FairSpec == WatchdogSpec /\ Fairness

-----------------------------------------------------------------------------
\* A target is restarted only when each of the last checks, as many as the
\* threshold says, met with trouble at some moment between its beginning and
\* its end, with no healthy or unauthorized one among them: a state read before
\* the probe and judged after it does no harm.
OnlyTroubledRestarted ==
    step = "restart" => troubled[turn] >= FailureThreshold

\* Restarts of a target not found healthy in between are as far apart as the
\* doubling cooldown says, up to its maximum, whether they worked or not
\* (OPERATIONS.md:97: from one minute to ten).
RestartsSpaced ==
    step = "restart" /\ restarts[turn] > 0 => rest[turn] >= Backoff[restarts[turn]]

\* When a target is restarted (watchdog.decide).
RestartsJustified == OnlyTroubledRestarted /\ RestartsSpaced

\* A target that stays stopped although it may be started is restarted in the
\* end, unless its port answers 401 again and again.
StoppedAreStarted ==
    \A t \in Targets :
        <>[](task[t] = "ready") => t \in Authenticated /\ []<>(endpoint[t] = "rejecting")

=============================================================================
