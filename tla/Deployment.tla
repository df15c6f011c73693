----------------------------- MODULE Deployment -----------------------------
(***************************************************************************)
(* Updating the copy of the program that the scheduled tasks run           *)
(* (deployment_swap.Update-Deployment, as install_stage6.ps1 calls it).    *)
(* Around the update Windows restarts tasks that failed, the watchdog      *)
(* starts tasks that are down, and the machine may reboot.                 *)
(***************************************************************************)
EXTENDS Naturals, SequencesExt, Selections

CONSTANTS
    TaskNames,      \* a sequence, in the order of registration
    Watchdog,       \* WatchdogTaskName
    MaxUpdates,     \* bound
    MaxReboots      \* bound

Names == ToSet(TaskNames)

ASSUME DeploymentAssumption ==
    /\ TaskNames \in Seq(Names)
    /\ IsInjective(TaskNames)
    /\ Watchdog \in Names
    /\ MaxUpdates \in Nat
    /\ MaxReboots \in Nat

VARIABLES
    live, staging, previous,    \* the directories app, app.staging, app.previous
    running,    \* the copy each task runs, if it does
    registered, \* tasks that start at boot
    failing,    \* tasks that ended by themselves, to be restarted by Windows
    late,       \* stops that timed out: "asked", and perhaps "stopped" since
    pc,         \* where Update-Deployment is
    todo,       \* tasks left to stop or start
    before,     \* runningBefore
    stopped,
    startAll,   \* -StartTasks
    outcome,    \* how it ended
    version,    \* of the latest copy staged
    reboots,
    \* History, for the properties only.
    old,        \* version in place when the update began
    warned,     \* has an administrator been told to look at the place?
    cutShort,   \* has a reboot ended an update?
    retried     \* tasks Windows restarted since the update listed them

places == <<live, staging, previous>>
tasks == <<running, registered, failing, late>>
choices == <<before, stopped, startAll>>
history == <<old, cutShort>>
vars == <<places, tasks, pc, todo, choices, outcome, version, reboots, history, warned,
          retried>>

NoCopy == [version |-> 0, state |-> "none"]
Broken(c) == [c EXCEPT !.state = "broken"]
Complete(c) == c.state \in {"staged", "confirmed"}
Copies == [version : 0 .. MaxUpdates + 1,
           state : {"none", "partial", "staged", "confirmed", "broken"}]
Running == {n \in Names : running[n] # NoCopy}

\* The members of S in the order of registration.
InOrder(S) == Kept(TaskNames, {n \in 1 .. Len(TaskNames) : TaskNames[n] \in S})

\* Mistake: the watchdog is not skipped where the others are listed.
StopPlanTwice(S) == (IF Watchdog \in S THEN <<Watchdog>> ELSE <<>>) \o InOrder(S)

\* Mistake: everything in the order of registration.
StopPlanInOrder(S) == InOrder(S)

\* Get-TaskStopPlan: the watchdog first, or it would start the others again.
StopPlan(S) ==
    (IF Watchdog \in S THEN <<Watchdog>> ELSE <<>>) \o InOrder(S \ {Watchdog})

\* Get-TaskStartPlan
StartPlan(S, all) == IF all THEN TaskNames ELSE InOrder(S)

TypeOK ==
    /\ live \in Copies /\ staging \in Copies /\ previous \in Copies
    /\ running \in [Names -> Copies]
    /\ registered \subseteq Names /\ failing \subseteq Names
    /\ late \in [Names -> {"no", "asked", "stopped"}]
    /\ todo \in Seq(Names) /\ IsInjective(todo)
    /\ before \subseteq Names /\ stopped \subseteq before
    /\ startAll \in BOOLEAN
    /\ version \in 1 .. MaxUpdates + 1
    /\ reboots \in 0 .. MaxReboots
    /\ warned \in BOOLEAN /\ cutShort \in BOOLEAN
    /\ retried \subseteq Names

\* Installed, with some of the tasks running, or not yet.
Init ==
    /\ \/ /\ live = [version |-> 1, state |-> "confirmed"]
          /\ registered = Names
          /\ \E S \in SUBSET Names : running = [n \in Names |-> IF n \in S THEN live ELSE NoCopy]
       \/ /\ live = NoCopy
          /\ registered = {}
          /\ running = [n \in Names |-> NoCopy]
    /\ staging = NoCopy
    /\ previous = NoCopy
    /\ failing = {}
    /\ late = [n \in Names |-> "no"]
    /\ pc = "idle"
    /\ todo = <<>>
    /\ before = {}
    /\ stopped = {}
    /\ startAll = FALSE
    /\ outcome = "none"
    /\ version = 1
    /\ reboots = 0
    /\ old = live.version
    /\ warned = FALSE
    /\ cutShort = FALSE
    /\ retried = {}

-----------------------------------------------------------------------------
\* Windows and the watchdog.

unwatched == <<places, registered, pc, todo, choices, outcome, version, reboots, history,
               warned>>

Exit(n) ==
    /\ running[n] # NoCopy
    /\ running' = [running EXCEPT ![n] = NoCopy]
    /\ failing' = failing \cup {n}
    /\ UNCHANGED <<unwatched, late, retried>>

\* RestartCount and RestartInterval of the registered task.
Retry(n) ==
    /\ n \in failing
    /\ running[n] = NoCopy
    /\ live # NoCopy
    /\ running' = [running EXCEPT ![n] = live]
    /\ failing' = failing \ {n}
    /\ retried' = retried \cup {n}
    /\ UNCHANGED <<unwatched, late>>

\* Watchdog.tla's restart of a task that is down.
Revive(n) ==
    /\ running[Watchdog] # NoCopy
    /\ n \in registered
    /\ running[n] = NoCopy
    /\ live # NoCopy
    /\ running' = [running EXCEPT ![n] = live]
    /\ UNCHANGED <<unwatched, failing, late, retried>>

\* A stop that task_control.ps1 no longer waits for takes effect.
StopLate(n) ==
    /\ late[n] = "asked"
    /\ running' = [running EXCEPT ![n] = NoCopy]
    /\ late' = [late EXCEPT ![n] = "stopped"]
    /\ UNCHANGED <<unwatched, failing, retried>>

\* The update, if there is one, is gone; all tasks start, if they can.
Reboot ==
    /\ reboots < MaxReboots
    /\ reboots' = reboots + 1
    /\ running' = [n \in Names |-> IF n \in registered THEN live ELSE NoCopy]
    /\ failing' = IF live = NoCopy THEN registered ELSE {}
    /\ late' = [n \in Names |-> "no"]
    /\ pc' = "idle"
    /\ todo' = <<>>
    /\ outcome' = "none"
    /\ cutShort' = (cutShort \/ pc # "idle")
    /\ UNCHANGED <<places, registered, choices, version, old, warned, retried>>

-----------------------------------------------------------------------------
\* Update-Deployment, up to the swap.

End(o) ==
    /\ pc' = "idle"
    /\ todo' = <<>>
    /\ outcome' = o
    /\ warned' = (warned \/ o = "manual")

Go(to, plan) == pc' = to /\ todo' = plan /\ UNCHANGED <<outcome, warned>>

outside == <<tasks, choices, version, reboots, history, retried>>

Begin ==
    /\ pc = "idle"
    /\ version <= MaxUpdates
    /\ pc' = "cleaning"
    /\ outcome' = "none"
    /\ version' = version + 1
    /\ startAll' \in BOOLEAN
    /\ before' = {} /\ stopped' = {} /\ retried' = {}
    /\ late' = [n \in Names |-> IF late[n] = "asked" THEN "asked" ELSE "no"]
    /\ old' = live.version
    /\ UNCHANGED <<places, running, registered, failing, todo, reboots, cutShort, warned>>

CleanStaging ==
    /\ pc = "cleaning"
    /\ \/ staging' = NoCopy /\ Go("clearing", <<>>)
       \/ staging # NoCopy /\ staging' = Broken(staging) /\ End("failed")
    /\ UNCHANGED <<live, previous, outside>>

CleanPrevious ==
    /\ pc = "clearing"
    /\ \/ previous' = NoCopy /\ Go("staging", <<>>)
       \/ previous # NoCopy /\ previous' = Broken(previous) /\ End("failed")
    /\ UNCHANGED <<live, staging, outside>>

\* Publish-Deployment fills the directory file by file.
Stage ==
    /\ pc = "staging"
    /\ staging' = [version |-> version, state |-> "partial"]
    /\ Go("verifying", <<>>)
    /\ UNCHANGED <<live, previous, outside>>

\* Mistake: a copy that fails the test is used all the same.
VerifyNothing ==
    /\ pc = "verifying"
    /\ \/ staging' = [staging EXCEPT !.state = "staged"]
       \/ UNCHANGED staging
    /\ Go("listing", <<>>)
    /\ UNCHANGED <<live, previous, outside>>

Verify ==
    /\ pc = "verifying"
    /\ \/ staging' = [staging EXCEPT !.state = "staged"] /\ Go("listing", <<>>)
       \/ UNCHANGED staging /\ End("failed")
    /\ UNCHANGED <<live, previous, outside>>

List ==
    /\ pc = "listing"
    /\ \/ /\ before' = Running
          /\ Go("stopping", StopPlan(Running))
          /\ retried' = {}
       \/ End("failed") /\ UNCHANGED <<before, retried>>
    /\ UNCHANGED <<places, tasks, stopped, startAll, version, reboots, history>>

\* task_control.ps1 Stop: the task is down, by whatever cause, or is given up
\* waiting for.
StopWorks(n) ==
    /\ running' = [running EXCEPT ![n] = NoCopy]
    /\ late' = [late EXCEPT ![n] = "no"]

StopTimesOut(n) ==
    /\ running[n] # NoCopy
    /\ late' = [late EXCEPT ![n] = "asked"]
    /\ UNCHANGED running

\* Mistake: what has been stopped before the failure stays down.
StopAbandoned ==
    /\ pc = "stopping"
    /\ todo # <<>>
    /\ \/ /\ StopWorks(Head(todo))
          /\ stopped' = stopped \cup {Head(todo)}
          /\ Go("stopping", Tail(todo))
       \/ /\ StopTimesOut(Head(todo))
          /\ Go("restarting", <<>>)
          /\ UNCHANGED stopped
    /\ UNCHANGED <<places, registered, failing, before, startAll, version, reboots,
                   history, retried>>

Stop ==
    /\ pc = "stopping"
    /\ todo # <<>>
    /\ \/ /\ StopWorks(Head(todo))
          /\ stopped' = stopped \cup {Head(todo)}
          /\ Go("stopping", Tail(todo))
       \/ /\ StopTimesOut(Head(todo))
          /\ Go("restarting", StartPlan(stopped, FALSE))
          /\ UNCHANGED stopped
    /\ UNCHANGED <<places, registered, failing, before, startAll, version, reboots,
                   history, retried>>

-----------------------------------------------------------------------------
\* Switch-Deployment.  Windows moves no directory that a task is running in;
\* a move may fail for other reasons, too.

MoveOut ==
    /\ pc = "stopping"
    /\ todo = <<>>
    /\ \/ live = NoCopy /\ Go("movingIn", <<>>) /\ UNCHANGED places
       \/ /\ live # NoCopy /\ Running = {}
          /\ previous' = live /\ live' = NoCopy
          /\ Go("movingIn", <<>>)
          /\ UNCHANGED staging
       \/ /\ live # NoCopy
          /\ Go("restarting", StartPlan(stopped, FALSE))
          /\ UNCHANGED places
    /\ UNCHANGED outside

MoveIn ==
    /\ pc = "movingIn"
    /\ \/ live' = staging /\ staging' = NoCopy /\ Go("confirming", <<>>)
       \/ /\ UNCHANGED <<live, staging>>
          /\ IF previous = NoCopy THEN End("failed") ELSE Go("movingBack", <<>>)
    /\ UNCHANGED <<previous, outside>>

\* If the place stays empty, no task is started in it.
MoveBack ==
    /\ pc = "movingBack"
    /\ \/ /\ live' = previous /\ previous' = NoCopy
          /\ Go("restarting", StartPlan(stopped, FALSE))
       \/ UNCHANGED <<live, previous>> /\ End("manual")
    /\ UNCHANGED <<staging, outside>>

-----------------------------------------------------------------------------
\* After the swap.

\* Mistake: the new copy stays although it does not pass.
ConfirmOrLeave ==
    /\ pc = "confirming"
    /\ \/ live' = [live EXCEPT !.state = "confirmed"] /\ Go("registering", <<>>)
       \/ UNCHANGED live /\ End("failed")
    /\ UNCHANGED <<staging, previous, outside>>

\* The import paths are set to the new place and tested once more.
Confirm ==
    /\ pc = "confirming"
    /\ \/ live' = [live EXCEPT !.state = "confirmed"] /\ Go("registering", <<>>)
       \/ UNCHANGED live /\ Go("undoing", <<>>)
    /\ UNCHANGED <<staging, previous, outside>>

\* Publish-WatchdogKey and Register-OwnedTask, one task after another.
Register ==
    /\ pc = "registering"
    /\ \/ /\ registered' = Names
          /\ Go("starting", StartPlan(before, startAll))
       \/ /\ \E k \in 0 .. Len(TaskNames) :
                registered' = registered \cup ToSet(SubSeq(TaskNames, 1, k))
          /\ Go("undoing", <<>>)
    /\ UNCHANGED <<places, running, failing, late, choices, version, reboots, history,
                   retried>>

\* Start-ScheduledTask; a task that runs is left alone.
Started(n) ==
    /\ running' = [running EXCEPT ![n] = IF @ = NoCopy THEN live ELSE @]
    /\ UNCHANGED <<registered, failing, late>>

StartNext ==
    /\ pc \in {"starting", "restarting", "undoStarting"}
    /\ todo # <<>>
    /\ \/ Started(Head(todo)) /\ Go(pc, Tail(todo))
       \/ /\ UNCHANGED tasks
          /\ CASE pc = "starting"     -> Go("undoing", <<>>)
               [] pc = "restarting"   -> End("failed")
               [] pc = "undoStarting" -> End("manual")
    /\ UNCHANGED <<places, choices, version, reboots, history, retried>>

\* The last removal may fail, with the new copy at work.
Finish ==
    /\ pc = "starting"
    /\ todo = <<>>
    /\ \/ previous' = NoCopy /\ End("done")
       \/ previous # NoCopy /\ previous' = Broken(previous) /\ End("failed")
    /\ UNCHANGED <<live, staging, outside>>

-----------------------------------------------------------------------------
\* Restore-FailedUpdate.

Undo ==
    /\ pc = "undoing"
    /\ Go("undoStopping", StopPlan(Running)) \/ End("manual")
    /\ UNCHANGED <<places, outside>>

UndoStop ==
    /\ pc = "undoStopping"
    /\ todo # <<>>
    /\ \/ StopWorks(Head(todo)) /\ Go("undoStopping", Tail(todo))
       \/ StopTimesOut(Head(todo)) /\ End("manual")
    /\ UNCHANGED <<places, registered, failing, choices, version, reboots, history,
                   retried>>

UndoRemove ==
    /\ pc = "undoStopping"
    /\ todo = <<>>
    /\ \/ Running = {} /\ live' = NoCopy /\ Go("undoMoving", <<>>)
       \/ live' = Broken(live) /\ End("manual")
    /\ UNCHANGED <<staging, previous, outside>>

UndoMove ==
    /\ pc = "undoMoving"
    /\ \/ /\ live' = previous /\ previous' = NoCopy
          /\ Go("undoStarting", InOrder(before))
       \/ previous # NoCopy /\ UNCHANGED <<live, previous>> /\ End("manual")
    /\ UNCHANGED <<staging, outside>>

\* All is as it was before.
Restored ==
    /\ pc \in {"restarting", "undoStarting"}
    /\ todo = <<>>
    /\ End("undone")
    /\ UNCHANGED <<places, outside>>

Update ==
    \/ Begin \/ CleanStaging \/ CleanPrevious \/ Stage \/ Verify \/ List \/ Stop
    \/ MoveOut \/ MoveIn \/ MoveBack
    \/ Confirm \/ Register \/ StartNext \/ Finish
    \/ Undo \/ UndoStop \/ UndoRemove \/ UndoMove \/ Restored

Next ==
    \/ Update
    \/ \E n \in Names : Exit(n) \/ Retry(n) \/ Revive(n) \/ StopLate(n)
    \/ Reboot

Spec == Init /\ [][Next]_vars

-----------------------------------------------------------------------------
\* SYSTEM's tasks find in their place a copy that was verified before it was put
\* there, or none, at every instant and after any reboot (deployment_swap.ps1:3);
\* between updates it is one that was confirmed in its place, too, unless a
\* reboot cut an update short.  And the copy that was there is not lost before
\* there is a new one.  All of it unless an administrator was told to look.
PlaceSafe ==
    ~warned =>
        /\ live = NoCopy \/ Complete(live)
        /\ pc = "idle" /\ ~cutShort /\ live # NoCopy => live.state = "confirmed"
        /\ old # 0 => Complete(live) \/ Complete(previous)

\* An update that fails and completes its way back without a second failure has
\* changed nothing (deployment_swap.ps1:6, OPERATIONS.md:25): the old copy is in
\* place, no task runs the new one, and what ran then runs again, except a task
\* that ended by itself or was stopped too late.
UndoneMeansRestored ==
    outcome = "undone" =>
        /\ live.version = old
        /\ \A n \in Running : running[n].version = old
        /\ \A n \in before : running[n] # NoCopy \/ n \in failing \/ late[n] # "no"

\* A task that the update has stopped stays down for the swap, although the
\* watchdog would start it (stage6_tasks.ps1:45), as long as Windows does not
\* restart it or the watchdog.
StoppedStaysStopped ==
    pc = "stopping" =>
        \A n \in stopped : running[n] # NoCopy => {n, Watchdog} \cap retried # {}

\* The tasks around an update: down during it, and as they were if it is undone.
TasksAsTheyWere == UndoneMeansRestored /\ StoppedStaysStopped

=============================================================================
