----------------------------- MODULE TaskProofs -----------------------------
(***************************************************************************)
(* Proofs about the two that start and stop the scheduled tasks: Watchdog, *)
(* for any number of targets, any threshold and any cooldowns, the maximum *)
(* below the initial one included; and Deployment, for any tasks, any      *)
(* number of updates and any number of reboots.                            *)
(***************************************************************************)
EXTENDS Deployment, Watchdog, Induction

-----------------------------------------------------------------------------
\* The doubling cooldown.

\* The recursive function Backoff exists: it is what its definition says.
LEMMA BackoffValue ==
    \A n \in Nat : Backoff[n] = IF n <= 1 THEN InitialCooldown
                                ELSE Lesser(2 * Backoff[n - 1], MaximumCooldown)
<1>. DEFINE
    S == 1 .. Longest
    doubled == [c \in S |-> Lesser(2 * c, MaximumCooldown)]
    Equals(g) == g = [n \in Nat |-> IF n <= 1 THEN InitialCooldown
                                    ELSE Lesser(2 * g[n - 1], MaximumCooldown)]
<1>1. InitialCooldown \in S /\ doubled \in [S -> S]
  BY WatchdogAssumption DEF Longest, Lesser
<1>. HIDE DEF S
<1>2. PICK f : Iterates(f, S, InitialCooldown, doubled)
  <2>. HIDE DEF doubled
  <2>. QED
    BY <1>1, Iteration
<1>. USE DEF Iterates
<1>. DEFINE g == [n \in Nat |-> IF n = 0 THEN InitialCooldown ELSE f[n - 1]]
<1>3. ASSUME NEW n \in Nat
      PROVE  g[n] = IF n <= 1 THEN InitialCooldown ELSE Lesser(2 * g[n - 1], MaximumCooldown)
  <2>1. CASE n <= 1
    BY <1>2, <2>1
  <2>2. CASE n > 1
    <3>1. n - 2 \in Nat /\ n - 1 \in Nat /\ (n - 2) + 1 = n - 1 /\ n - 1 # 0 /\ (n - 1) - 1 = n - 2
      BY <2>2
    <3>2. g[n] = f[n - 1] /\ g[n - 1] = f[n - 2]
      BY <2>2, <3>1
    <3>3. f[n - 1] = doubled[f[n - 2]]
      BY <1>2, <3>1
    <3>4. f[n - 1] = Lesser(2 * f[n - 2], MaximumCooldown)
      BY <1>2, <3>1, <3>3
    <3>. QED
      BY <2>2, <3>2, <3>4
  <2>. QED
    BY <2>1, <2>2
<1>4. Equals(g)
  BY <1>3
<1>5. Backoff = CHOOSE h : Equals(h)
  BY DEF Backoff
<1>. HIDE DEF g, Equals
<1>6. Equals(Backoff)
  BY <1>4, <1>5
<1>7. Backoff = [n \in Nat |-> IF n <= 1 THEN InitialCooldown
                               ELSE Lesser(2 * Backoff[n - 1], MaximumCooldown)]
  BY <1>6 DEF Equals
<1>. QED
  BY <1>7

\* It lies between one unit and the longer of the two bounds.
LEMMA BackoffType ==
    \A n \in Nat : Backoff[n] \in 1 .. Longest
<1>. DEFINE Typed == {n \in Nat : Backoff[n] \in 1 .. Longest}
<1>1. 0 \in Typed
  BY BackoffValue, WatchdogAssumption DEF Longest
<1>2. \A n \in Nat : n \in Typed => n + 1 \in Typed
  BY BackoffValue, WatchdogAssumption DEF Longest, Lesser
<1>. HIDE DEF Typed
<1>3. \A n \in Nat : n \in Typed
  BY <1>1, <1>2, AllNaturals
<1>. QED
  BY <1>3 DEF Typed

\* Doubling, it reaches its maximum soon and stays there.
LEMMA BackoffSettles ==
    \A n \in Nat : n >= Settled => Backoff[n] = MaximumCooldown
<1>. DEFINE Grown == {n \in Nat : n >= 2 => Backoff[n] >= Lesser(n, MaximumCooldown)}
<1>1. 0 \in Grown
  OBVIOUS
<1>2. ASSUME NEW n \in Nat, n \in Grown
      PROVE  n + 1 \in Grown
  <2>1. CASE n + 1 < 2
    BY <2>1
  <2>2. CASE n + 1 = 2
    <3>1. Backoff[1] = InitialCooldown /\ Backoff[2] = Lesser(2 * Backoff[1], MaximumCooldown)
      BY BackoffValue
    <3>. QED
      BY <2>2, <3>1, WatchdogAssumption DEF Lesser
  <2>3. CASE n + 1 > 2
    <3>1. Backoff[n + 1] = Lesser(2 * Backoff[n], MaximumCooldown)
      BY <2>3, BackoffValue
    <3>2. Backoff[n] \in Nat /\ Backoff[n] >= Lesser(n, MaximumCooldown)
      BY <1>2, <2>3, BackoffType, WatchdogAssumption DEF Longest
    <3>. QED
      BY <2>3, <3>1, <3>2, WatchdogAssumption DEF Lesser
  <2>. QED
    BY <2>1, <2>2, <2>3
<1>. HIDE DEF Grown
<1>3. \A n \in Nat : n \in Grown
  BY <1>1, <1>2, AllNaturals
<1>4. ASSUME NEW n \in Nat, n >= Settled
      PROVE  Backoff[n] = MaximumCooldown
  <2>1. n >= 2 /\ n >= MaximumCooldown
    BY <1>4, WatchdogAssumption DEF Settled, Longest
  <2>2. Backoff[n] = Lesser(2 * Backoff[n - 1], MaximumCooldown)
    BY <2>1, BackoffValue
  <2>3. Backoff[n] >= Lesser(n, MaximumCooldown)
    BY <2>1, <1>3 DEF Grown
  <2>4. Backoff[n - 1] \in Nat
    BY <2>1, BackoffType, WatchdogAssumption DEF Longest
  <2>. QED
    BY <2>1, <2>2, <2>3, <2>4, WatchdogAssumption DEF Lesser
<1>. QED
  BY <1>4

-----------------------------------------------------------------------------
\* The inductive invariant.

\* A service always answers, and a target in trouble now has been in trouble
\* since its check began.
TroubleSeen ==
    /\ \A t \in Services : endpoint[t] = "answering"
    /\ step # "sleep" /\ InTrouble(task[turn], endpoint[turn]) => trouble
    /\ step \in {"probe", "judge"} /\ seen # "running" => trouble
    /\ step = "judge" /\ result # "healthy" => trouble

\* Every failure counted was in trouble; the last of them leads to a restart.
FailuresTroubled ==
    /\ \A t \in Targets : failures[t] <= troubled[t]
    /\ step = "restart" => failures[turn] = FailureThreshold /\ wait[turn] = 0

\* The cooldown is that after the next restart, and what is left of the last
\* one and the time since the restart make up for it.
CooldownsKept ==
    \A t \in Targets :
        /\ cooldown[t] = Backoff[restarts[t] + 1]
        /\ restarts[t] > 0 => rest[t] + wait[t] >= Backoff[restarts[t]]

WatchInv == WatchdogTypeOK /\ TroubleSeen /\ FailuresTroubled /\ CooldownsKept

\* What the assumption says of the bounds.
LEMMA Bounds ==
    /\ 1 \in Targets /\ \A t \in Targets : t \in Nat /\ t # t + 1
    /\ Longest \in Nat \ {0} /\ Settled \in Nat \ {0} /\ FailureThreshold \in Nat \ {0}
    /\ MaximumCooldown \in 1 .. Longest /\ InitialCooldown \in 1 .. Longest
BY WatchdogAssumption DEF Targets, Longest, Settled

\* Initially nothing has been found out and nothing restarted.
LEMMA InitWatchInv == WatchdogInit => WatchInv
<1>. SUFFICES ASSUME WatchdogInit PROVE WatchInv
  OBVIOUS
<1>1. InitialCooldown \in 1 .. Longest /\ Backoff[1] = InitialCooldown
  BY BackoffValue, WatchdogAssumption DEF Longest
<1>2. WatchdogTypeOK
  <2>1. /\ failures \in [Targets -> 0 .. FailureThreshold]
        /\ troubled \in [Targets -> 0 .. FailureThreshold]
    BY Bounds DEF WatchdogInit
  <2>2. /\ wait \in [Targets -> 0 .. Longest] /\ rest \in [Targets -> 0 .. Longest]
        /\ cooldown \in [Targets -> 1 .. Longest] /\ restarts \in [Targets -> 0 .. Settled]
    BY Bounds DEF WatchdogInit
  <2>. QED
    BY <2>1, <2>2, Bounds DEF WatchdogInit, WatchdogTypeOK, States, Results
<1>3. TroubleSeen
  BY DEF WatchdogInit, TroubleSeen
<1>4. FailuresTroubled
  BY DEF WatchdogInit, FailuresTroubled
<1>5. CooldownsKept
  BY <1>1 DEF WatchdogInit, CooldownsKept
<1>. QED
  BY <1>2, <1>3, <1>4, <1>5 DEF WatchInv

\* Where the check goes on, and what is known then of the target's trouble.
LEMMA AfterCheck ==
    ASSUME WatchdogTypeOK, EndCheck
    PROVE  /\ turn' \in Targets
           /\ step' \in {"sleep", "state"}
           /\ trouble' \in BOOLEAN
           /\ step' # "sleep" => turn' # turn /\ trouble' = InTrouble(task[turn'], endpoint[turn'])
<1>1. CASE turn + 1 \in Targets
  BY <1>1, Bounds DEF WatchdogTypeOK, EndCheck, InTrouble
<1>2. CASE turn + 1 \notin Targets
  BY <1>2 DEF WatchdogTypeOK, EndCheck
<1>. QED
  BY <1>1, <1>2

\* No step of a check breaks the invariant.
LEMMA CheckStep ==
    ASSUME WatchInv, Check
    PROVE  WatchInv'
<1>. USE DEF WatchInv
<1>1. CASE BeginRound
  <2>1. WatchdogTypeOK'
    BY <1>1, Bounds DEF BeginRound, WatchdogTypeOK, InTrouble
  <2>2. TroubleSeen'
    BY <1>1 DEF BeginRound, TroubleSeen, InTrouble
  <2>3. FailuresTroubled'
    BY <1>1 DEF BeginRound, FailuresTroubled
  <2>4. CooldownsKept'
    BY <1>1 DEF BeginRound, CooldownsKept
  <2>. QED
    BY <2>1, <2>2, <2>3, <2>4
<1>2. CASE ReadState
  <2>1. WatchdogTypeOK'
    BY <1>2 DEF ReadState, WatchdogTypeOK
  <2>2. TroubleSeen'
    BY <1>2 DEF ReadState, TroubleSeen, InTrouble
  <2>3. FailuresTroubled'
    BY <1>2 DEF ReadState, FailuresTroubled
  <2>4. CooldownsKept'
    BY <1>2 DEF ReadState, CooldownsKept
  <2>. QED
    BY <2>1, <2>2, <2>3, <2>4
<1>3. CASE Probe
  <2>1. WatchdogTypeOK'
    BY <1>3 DEF Probe, WatchdogTypeOK, Results, historyVars
  <2>2. TroubleSeen'
    BY <1>3 DEF Probe, TroubleSeen, InTrouble, historyVars
  <2>3. FailuresTroubled'
    BY <1>3 DEF Probe, FailuresTroubled, historyVars
  <2>4. CooldownsKept'
    BY <1>3 DEF Probe, CooldownsKept, historyVars
  <2>. QED
    BY <2>1, <2>2, <2>3, <2>4
<1>4. CASE JudgeUnauthorized
  <2>1. WatchdogTypeOK'
    BY <1>4, AfterCheck, WatchdogAssumption DEF JudgeUnauthorized, Forget, WatchdogTypeOK, Results
  <2>2. TroubleSeen'
    BY <1>4, AfterCheck DEF JudgeUnauthorized, Forget, TroubleSeen
  <2>3. FailuresTroubled'
    BY <1>4, AfterCheck DEF JudgeUnauthorized, FailuresTroubled, WatchdogTypeOK
  <2>4. CooldownsKept'
    BY <1>4 DEF JudgeUnauthorized, CooldownsKept
  <2>. QED
    BY <2>1, <2>2, <2>3, <2>4
<1>5. CASE JudgeHealthy
  <2>1. WatchdogTypeOK'
    BY <1>5, AfterCheck, Bounds
    DEF JudgeHealthy, Forget, WatchdogTypeOK, Results, Longest
  <2>2. TroubleSeen'
    BY <1>5, AfterCheck DEF JudgeHealthy, Forget, TroubleSeen
  <2>3. FailuresTroubled'
    BY <1>5, AfterCheck DEF JudgeHealthy, FailuresTroubled, WatchdogTypeOK
  <2>4. CooldownsKept'
    BY <1>5, BackoffValue DEF JudgeHealthy, CooldownsKept, WatchdogTypeOK
  <2>. QED
    BY <2>1, <2>2, <2>3, <2>4
<1>6. CASE JudgeFailed
  <2>1. WatchdogTypeOK'
    <3>1. turn' \in Targets /\ step' \in {"sleep", "state", "restart"} /\ trouble' \in BOOLEAN
      BY <1>6, AfterCheck DEF JudgeFailed, WatchdogTypeOK
    <3>2. /\ failures' \in [Targets -> 0 .. FailureThreshold]
          /\ troubled' \in [Targets -> 0 .. FailureThreshold]
      BY <1>6, WatchdogAssumption DEF JudgeFailed, WatchdogTypeOK, Lesser
    <3>. QED
      BY <1>6, <3>1, <3>2 DEF JudgeFailed, Forget, WatchdogTypeOK, Results
  <2>2. TroubleSeen'
    BY <1>6, AfterCheck DEF JudgeFailed, Forget, TroubleSeen, InTrouble
  <2>3. FailuresTroubled'
    <3>1. trouble
      BY <1>6 DEF JudgeFailed, TroubleSeen
    <3>2. \A t \in Targets : failures'[t] <= troubled'[t]
      BY <1>6, <3>1, WatchdogAssumption DEF JudgeFailed, FailuresTroubled, WatchdogTypeOK, Lesser
    <3>3. step' = "restart" => failures'[turn'] = FailureThreshold /\ wait'[turn'] = 0
      <4>1. CASE failures'[turn] < FailureThreshold \/ wait[turn] > 0
        BY <1>6, <4>1, AfterCheck DEF JudgeFailed
      <4>2. CASE ~ (failures'[turn] < FailureThreshold \/ wait[turn] > 0)
        BY <1>6, <4>2, Bounds DEF JudgeFailed, WatchdogTypeOK, Lesser
      <4>. QED
        BY <4>1, <4>2
    <3>. QED
      BY <3>2, <3>3 DEF FailuresTroubled
  <2>4. CooldownsKept'
    BY <1>6 DEF JudgeFailed, CooldownsKept
  <2>. QED
    BY <2>1, <2>2, <2>3, <2>4
<1>. QED
  BY <1>1, <1>2, <1>3, <1>4, <1>5, <1>6 DEF Check

\* The part of a restart that comes after the command, whatever that did.
LEMMA RestartedStep ==
    ASSUME WatchInv, step = "restart", Restarted,
           task' \in [Targets -> States], \A t \in Targets \ {turn} : task'[t] = task[t]
    PROVE  WatchInv'
<1>. USE DEF WatchInv
<1>1. WatchdogTypeOK'
  <2>1. wait' \in [Targets -> 0 .. Longest] /\ rest' \in [Targets -> 0 .. Longest]
    BY Bounds DEF Restarted, WatchdogTypeOK
  <2>2. cooldown' \in [Targets -> 1 .. Longest]
    BY Bounds DEF Restarted, WatchdogTypeOK, Lesser
  <2>3. restarts' \in [Targets -> 0 .. Settled]
    BY Bounds DEF Restarted, WatchdogTypeOK, Lesser
  <2>4. /\ failures' \in [Targets -> 0 .. FailureThreshold]
        /\ troubled' \in [Targets -> 0 .. FailureThreshold]
    BY WatchdogAssumption DEF Restarted, WatchdogTypeOK
  <2>. QED
    BY <2>1, <2>2, <2>3, <2>4, AfterCheck DEF Restarted, WatchdogTypeOK
<1>2. TroubleSeen'
  BY AfterCheck DEF Restarted, TroubleSeen
<1>3. FailuresTroubled'
  BY AfterCheck DEF Restarted, FailuresTroubled, WatchdogTypeOK
<1>4. CooldownsKept'
  <2>. SUFFICES ASSUME NEW t \in Targets
                PROVE  /\ cooldown'[t] = Backoff[restarts'[t] + 1]
                       /\ restarts'[t] > 0 => rest'[t] + wait'[t] >= Backoff[restarts'[t]]
    BY DEF CooldownsKept
  <2>1. CASE t # turn
    BY <2>1 DEF Restarted, CooldownsKept, WatchdogTypeOK
  <2>2. CASE t = turn /\ restarts[t] < Settled
    <3>1. restarts[t] \in Nat /\ restarts'[t] = restarts[t] + 1
      BY <2>2, Bounds DEF Restarted, WatchdogTypeOK, Lesser
    <3>2. cooldown[t] = Backoff[restarts'[t]]
      BY <3>1 DEF CooldownsKept
    <3>3. wait'[t] = cooldown[t] /\ rest'[t] = 0
          /\ cooldown'[t] = Lesser(2 * cooldown[t], MaximumCooldown)
      BY <2>2 DEF Restarted, WatchdogTypeOK
    <3>4. Backoff[restarts'[t] + 1] = Lesser(2 * Backoff[restarts'[t]], MaximumCooldown)
      <4>. DEFINE m == restarts'[t] + 1
      <4>1. m \in Nat /\ ~(m <= 1) /\ m - 1 = restarts'[t]
        BY <3>1
      <4>. HIDE DEF m
      <4>2. Backoff[m] = Lesser(2 * Backoff[m - 1], MaximumCooldown)
        BY <4>1, BackoffValue
      <4>. QED
        BY <4>1, <4>2 DEF m
    <3>. QED
      BY <3>1, <3>2, <3>3, <3>4, BackoffType
  <2>3. CASE t = turn /\ restarts[t] = Settled
    <3>1. restarts'[t] = Settled
      BY <2>3, Bounds DEF Restarted, WatchdogTypeOK, Lesser
    <3>2. Backoff[Settled] = MaximumCooldown /\ Backoff[Settled + 1] = MaximumCooldown
      BY BackoffSettles, Bounds
    <3>3. wait'[t] = cooldown[t] /\ rest'[t] = 0
          /\ cooldown'[t] = Lesser(2 * cooldown[t], MaximumCooldown)
          /\ cooldown[t] = MaximumCooldown
      BY <2>3, <3>2 DEF Restarted, WatchdogTypeOK, CooldownsKept
    <3>. QED
      BY <3>1, <3>2, <3>3, WatchdogAssumption DEF Lesser
  <2>. QED
    BY <2>1, <2>2, <2>3, Bounds DEF WatchdogTypeOK
<1>. QED
  BY <1>1, <1>2, <1>3, <1>4

\* No restart breaks the invariant.
LEMMA RestartStep ==
    ASSUME WatchInv, RestartWorks \/ RestartFails
    PROVE  WatchInv'
<1>1. CASE RestartWorks
  BY <1>1, RestartedStep DEF RestartWorks, WatchInv, WatchdogTypeOK, States
<1>2. CASE RestartFails
  <2>1. task' \in [Targets -> States] /\ \A t \in Targets \ {turn} : task'[t] = task[t]
    BY <1>2 DEF RestartFails, WatchInv, WatchdogTypeOK, States
  <2>. QED
    BY <1>2, <2>1, RestartedStep DEF RestartFails
<1>. QED
  BY <1>1, <1>2

\* Neither does the death of the watchdog.
LEMMA DieStep ==
    ASSUME WatchInv, Die
    PROVE  WatchInv'
<1>. USE DEF WatchInv
<1>1. InitialCooldown \in 1 .. Longest /\ Backoff[1] = InitialCooldown
  BY BackoffValue, WatchdogAssumption DEF Longest
<1>2. WatchdogTypeOK'
  <2>1. /\ failures' \in [Targets -> 0 .. FailureThreshold]
        /\ troubled' \in [Targets -> 0 .. FailureThreshold]
    BY Bounds DEF Die, Fresh
  <2>2. /\ wait' \in [Targets -> 0 .. Longest] /\ rest' \in [Targets -> 0 .. Longest]
        /\ cooldown' \in [Targets -> 1 .. Longest] /\ restarts' \in [Targets -> 0 .. Settled]
    BY Bounds DEF Die, Fresh
  <2>. QED
    BY <2>1, <2>2, Bounds DEF Die, Fresh, WatchdogTypeOK, States, Results
<1>3. TroubleSeen'
  BY DEF Die, Fresh, TroubleSeen
<1>4. FailuresTroubled'
  BY DEF Die, Fresh, FailuresTroubled
<1>5. CooldownsKept'
  BY <1>1 DEF Die, Fresh, CooldownsKept
<1>. QED
  BY <1>2, <1>3, <1>4, <1>5

\* Neither does what happens to the targets.
LEMMA HappenStep ==
    ASSUME WatchInv, Happen
    PROVE  WatchInv'
<1>. USE DEF WatchInv
<1>1. WatchdogTypeOK'
  BY DEF Happen, WatchdogTypeOK, watchdogVars, InTrouble
<1>2. TroubleSeen'
  <2>1. PICK t \in Targets :
          /\ \/ \E s \in States : task' = [task EXCEPT ![t] = s] /\ UNCHANGED endpoint
             \/ /\ t \notin Services
                /\ \E e \in {"answering", "failing", "rejecting"} :
                      endpoint' = [endpoint EXCEPT ![t] = e]
                /\ UNCHANGED task
          /\ trouble' = (trouble \/ /\ step # "sleep" /\ t = turn
                                    /\ InTrouble(task'[t], endpoint'[t]))
    BY DEF Happen
  <2>2. UNCHANGED <<turn, step, seen, result>>
    BY DEF Happen, watchdogVars
  <2>3. \A s \in Services : endpoint'[s] = "answering"
    BY <2>1, WatchdogAssumption DEF TroubleSeen, WatchdogTypeOK
  <2>4. trouble => trouble'
    BY <2>1
  <2>5. step # "sleep" /\ InTrouble(task'[turn], endpoint'[turn]) => trouble'
    <3>1. CASE t = turn
      BY <2>1, <3>1
    <3>2. CASE t # turn
      BY <2>1, <2>4, <3>2 DEF TroubleSeen, WatchdogTypeOK, InTrouble
    <3>. QED
      BY <3>1, <3>2
  <2>. QED
    BY <2>2, <2>3, <2>4, <2>5 DEF TroubleSeen
<1>3. FailuresTroubled'
  BY DEF Happen, FailuresTroubled, watchdogVars
<1>4. CooldownsKept'
  BY DEF Happen, CooldownsKept, watchdogVars
<1>. QED
  BY <1>1, <1>2, <1>3, <1>4

\* Neither does the passing of time.
LEMMA TickStep ==
    ASSUME WatchInv, Tick
    PROVE  WatchInv'
<1>. USE DEF WatchInv
<1>1. wait' \in [Targets -> 0 .. Longest] /\ rest' \in [Targets -> 0 .. Longest]
  BY Bounds DEF Tick, WatchdogTypeOK, Lesser
<1>2. WatchdogTypeOK'
  BY <1>1 DEF Tick, WatchdogTypeOK
<1>3. TroubleSeen'
  BY DEF Tick, TroubleSeen
<1>4. FailuresTroubled'
  BY DEF Tick, FailuresTroubled, WatchdogTypeOK
<1>5. ASSUME NEW t \in Targets, restarts[t] > 0
      PROVE  rest'[t] + wait'[t] >= Backoff[restarts[t]]
  <2>1. /\ rest'[t] = Lesser(rest[t] + 1, Longest)
        /\ wait'[t] = IF wait[t] > 0 THEN wait[t] - 1 ELSE 0
    BY <1>5 DEF Tick
  <2>2. restarts[t] \in Nat /\ wait[t] \in Nat /\ rest[t] \in Nat
    BY Bounds DEF WatchdogTypeOK
  <2>3. Backoff[restarts[t]] \in 1 .. Longest /\ rest[t] + wait[t] >= Backoff[restarts[t]]
    BY <1>5, <2>2, BackoffType DEF CooldownsKept
  <2>. QED
    BY <2>1, <2>2, <2>3, Bounds DEF Lesser
<1>6. CooldownsKept'
  BY <1>5 DEF Tick, CooldownsKept
<1>. QED
  BY <1>2, <1>3, <1>4, <1>6

-----------------------------------------------------------------------------
\* The theorems.

\* Of every reachable state: the types are right, whatever is counted as a
\* failure was in trouble, and the cooldowns are those of the backoff
\* (watchdog.decide, _TargetState).
THEOREM WatchInvariance == WatchdogSpec => []WatchInv
<1>1. ASSUME WatchInv, WatchdogNext
      PROVE  WatchInv'
  BY <1>1, CheckStep, RestartStep, DieStep, HappenStep, TickStep DEF WatchdogNext
<1>2. ASSUME WatchInv, UNCHANGED allWatched
      PROVE  WatchInv'
  BY <1>2 DEF allWatched, watchdogVars, historyVars, WatchInv, WatchdogTypeOK, TroubleSeen,
     FailuresTroubled, CooldownsKept
<1>. QED
  BY <1>1, <1>2, InitWatchInv, PTL DEF WatchdogSpec

\* Every variable keeps its type.
THEOREM WatchdogTypeCorrect == WatchdogSpec => []WatchdogTypeOK
BY WatchInvariance, PTL DEF WatchInv

\* A target is restarted only after as many checks in a row as the threshold
\* says met with trouble, and no sooner after the last restart than the backoff
\* says (watchdog.decide), for any number of targets.
THEOREM RestartsAreJustified == WatchdogSpec => []RestartsJustified
<1>1. ASSUME WatchInv
      PROVE  RestartsJustified
  <2>1. OnlyTroubledRestarted
    BY <1>1, WatchdogAssumption DEF WatchInv, FailuresTroubled, OnlyTroubledRestarted, WatchdogTypeOK
  <2>2. RestartsSpaced
    BY <1>1, Bounds, BackoffType
    DEF WatchInv, FailuresTroubled, CooldownsKept, RestartsSpaced, WatchdogTypeOK
  <2>. QED
    BY <2>1, <2>2 DEF RestartsJustified
<1>. QED
  BY <1>1, WatchInvariance, PTL

-----------------------------------------------------------------------------
\* Plans.

\* What is in a sequence, by position.
LEMMA Members ==
    ASSUME NEW A, NEW s \in Seq(A)
    PROVE  /\ ToSet(s) = {s[i] : i \in 1 .. Len(s)} /\ ToSet(s) \subseteq A
           /\ IsInjective(s) <=> \A i, j \in 1 .. Len(s) : s[i] = s[j] => i = j
BY DEF ToSet, IsInjective

\* A plan without its first task.
LEMMA TailMembers ==
    ASSUME NEW A, NEW s \in Seq(A), s # <<>>
    PROVE  /\ Head(s) \in A /\ Tail(s) \in Seq(A)
           /\ ToSet(s) = {Head(s)} \cup ToSet(Tail(s))
           /\ IsInjective(s) => IsInjective(Tail(s))
<1>1. /\ Head(s) \in A /\ Tail(s) \in Seq(A) /\ Len(Tail(s)) = Len(s) - 1
      /\ \A i \in 1 .. Len(Tail(s)) : Tail(s)[i] = s[i + 1]
      /\ Head(s) = s[1] /\ Len(s) \in Nat \ {0}
  BY HeadTailProperties, EmptySeq
<1>2. /\ ToSet(s) = {s[i] : i \in 1 .. Len(s)}
      /\ ToSet(Tail(s)) = {Tail(s)[i] : i \in 1 .. Len(Tail(s))}
  <2>1. \A t \in Seq(A) : ToSet(t) = {t[i] : i \in 1 .. Len(t)}
    BY Members
  <2>. QED
    BY <1>1, <2>1
<1>3. 1 \in 1 .. Len(s) /\ \A i \in 1 .. Len(Tail(s)) : i + 1 \in 1 .. Len(s)
  BY <1>1
<1>4. \A i \in 1 .. Len(s) : i = 1 \/ (i - 1 \in 1 .. Len(Tail(s)) /\ (i - 1) + 1 = i)
  BY <1>1
<1>5. ASSUME NEW x \in ToSet(s)
      PROVE  x \in {Head(s)} \cup ToSet(Tail(s))
  <2>1. PICK i \in 1 .. Len(s) : x = s[i]
    BY <1>2
  <2>2. CASE i = 1
    BY <1>1, <2>1, <2>2
  <2>3. CASE i - 1 \in 1 .. Len(Tail(s)) /\ (i - 1) + 1 = i
    <3>1. Tail(s)[i - 1] = x
      BY <1>1, <2>1, <2>3
    <3>. QED
      BY <1>2, <2>3, <3>1
  <2>. QED
    BY <1>4, <2>2, <2>3
<1>6. {Head(s)} \cup ToSet(Tail(s)) \subseteq ToSet(s)
  BY <1>1, <1>2, <1>3
<1>7. ASSUME IsInjective(s), NEW i \in 1 .. Len(Tail(s)), NEW j \in 1 .. Len(Tail(s)),
             Tail(s)[i] = Tail(s)[j]
      PROVE  i = j
  <2>1. i + 1 = j + 1
    BY <1>1, <1>3, <1>7, Members
  <2>. QED
    BY <2>1
<1>8. IsInjective(s) => IsInjective(Tail(s))
  BY <1>1, <1>7, Members
<1>. QED
  BY <1>1, <1>5, <1>6, <1>8

\* A plan with one task in front of it.
LEMMA FrontMembers ==
    ASSUME NEW A, NEW s \in Seq(A), NEW e \in A
    PROVE  /\ <<e>> \o s \in Seq(A) /\ <<e>> \o s # <<>> /\ Head(<<e>> \o s) = e
           /\ ToSet(<<e>> \o s) = {e} \cup ToSet(s)
           /\ IsInjective(s) /\ e \notin ToSet(s) => IsInjective(<<e>> \o s)
<1>1. <<e>> \in Seq(A) /\ Len(<<e>>) = 1 /\ <<e>>[1] = e
  OBVIOUS
<1>2. /\ <<e>> \o s \in Seq(A) /\ Len(<<e>> \o s) = 1 + Len(s)
      /\ \A i \in 1 .. 1 + Len(s) : (<<e>> \o s)[i] = IF i <= 1 THEN <<e>>[1] ELSE s[i - 1]
  BY <1>1, ConcatProperties
<1>. DEFINE t == <<e>> \o s
<1>. HIDE DEF t
<1>3. /\ t \in Seq(A) /\ Len(t) = 1 + Len(s) /\ Len(s) \in Nat /\ t[1] = e
      /\ \A i \in 1 .. Len(s) : t[i + 1] = s[i]
  BY <1>1, <1>2, LenProperties DEF t
<1>4. t # <<>> /\ Head(t) = e
  BY <1>3, EmptySeq
<1>5. /\ ToSet(t) = {t[i] : i \in 1 .. Len(t)}
      /\ ToSet(s) = {s[i] : i \in 1 .. Len(s)}
  <2>1. \A u \in Seq(A) : ToSet(u) = {u[i] : i \in 1 .. Len(u)}
    BY Members
  <2>. QED
    BY <1>3, <2>1
<1>6. \A i \in 1 .. Len(t) : i = 1 \/ (i - 1 \in 1 .. Len(s) /\ t[i] = s[i - 1])
  BY <1>3
<1>7. 1 \in 1 .. Len(t) /\ \A i \in 1 .. Len(s) : i + 1 \in 1 .. Len(t)
  BY <1>3
<1>8. ASSUME NEW x \in ToSet(t)
      PROVE  x \in {e} \cup ToSet(s)
  <2>1. PICK i \in 1 .. Len(t) : x = t[i]
    BY <1>5
  <2>. QED
    BY <1>3, <1>5, <1>6, <2>1
<1>9. {e} \cup ToSet(s) \subseteq ToSet(t)
  BY <1>3, <1>5, <1>7
<1>10. ASSUME IsInjective(s), e \notin ToSet(s), NEW i \in 1 .. Len(t), NEW j \in 1 .. Len(t), t[i] = t[j]
       PROVE  i = j
  <2>1. CASE i = 1 \/ j = 1
    BY <1>3, <1>5, <1>6, <1>10, <2>1
  <2>2. CASE i # 1 /\ j # 1
    <3>1. i - 1 = j - 1
      BY <1>6, <1>10, <2>2, Members
    <3>. QED
      BY <3>1
  <2>. QED
    BY <2>1, <2>2
<1>11. IsInjective(s) /\ e \notin ToSet(s) => IsInjective(t)
  BY <1>3, <1>10, Members
<1>. QED
  BY <1>3, <1>4, <1>8, <1>9, <1>11 DEF t

\* InOrder(S) has the tasks of S, each once.
LEMMA InOrderMembers ==
    ASSUME NEW S
    PROVE  /\ InOrder(S) \in Seq(Names)
           /\ ToSet(InOrder(S)) = Names \cap S
           /\ IsInjective(InOrder(S))
<1>. DEFINE
    M == Len(TaskNames)
    I == {n \in 1 .. M : TaskNames[n] \in S}
    t == InOrder(S)
<1>1. TaskNames \in Seq(Names) /\ Names = {TaskNames[i] : i \in 1 .. M}
  BY DeploymentAssumption DEF Names, ToSet
<1>2. \A i, j \in 1 .. M : TaskNames[i] = TaskNames[j] => i = j
  BY <1>1, Members, DeploymentAssumption
<1>3. t \in Seq(Names) /\ \E p : Picks(p, t, TaskNames, I)
  <2>1. t = Kept(TaskNames, I) /\ I \in SUBSET (1 .. M)
    BY DEF InOrder
  <2>. HIDE DEF t, I
  <2>. QED
    BY <1>1, <2>1, KeptElements
<1>4. PICK p : Picks(p, t, TaskNames, I)
  BY <1>3
<1>. HIDE DEF t
<1>5. /\ p \in [1 .. Len(t) -> I] /\ \A k \in 1 .. Len(t) : t[k] = TaskNames[p[k]]
      /\ \A k, l \in 1 .. Len(t) : k < l => p[k] < p[l]
      /\ \A i \in I : \E k \in 1 .. Len(t) : p[k] = i
  BY <1>4 DEF Picks
<1>6. ToSet(t) = {t[k] : k \in 1 .. Len(t)}
  BY <1>3, Members
<1>7. ToSet(t) = Names \cap S
  <2>1. ASSUME NEW x \in ToSet(t)
        PROVE  x \in Names \cap S
    <3>1. PICK k \in 1 .. Len(t) : x = t[k]
      BY <1>6
    <3>2. p[k] \in I /\ x = TaskNames[p[k]]
      BY <1>5, <3>1
    <3>. QED
      BY <1>1, <3>2
  <2>2. ASSUME NEW x \in Names \cap S
        PROVE  x \in ToSet(t)
    <3>1. PICK i \in I : x = TaskNames[i]
      BY <1>1
    <3>2. PICK k \in 1 .. Len(t) : p[k] = i
      BY <1>5
    <3>. QED
      BY <1>5, <1>6, <3>1, <3>2
  <2>. QED
    BY <2>1, <2>2
<1>8. ASSUME NEW k \in 1 .. Len(t), NEW l \in 1 .. Len(t), t[k] = t[l]
      PROVE  k = l
  <2>1. p[k] \in 1 .. M /\ p[l] \in 1 .. M /\ TaskNames[p[k]] = TaskNames[p[l]]
    BY <1>5, <1>8
  <2>2. p[k] = p[l]
    BY <1>2, <2>1
  <2>. QED
    BY <1>5, <2>1, <2>2
<1>. QED
  BY <1>3, <1>7, <1>8, Members DEF t

\* The watchdog is the first to be stopped.
LEMMA StopPlanMembers ==
    ASSUME NEW S, S \subseteq Names
    PROVE  /\ StopPlan(S) \in Seq(Names)
           /\ ToSet(StopPlan(S)) = S
           /\ IsInjective(StopPlan(S))
           /\ Watchdog \in S => StopPlan(S) # <<>> /\ Head(StopPlan(S)) = Watchdog
<1>. DEFINE others == InOrder(S \ {Watchdog})
<1>1. /\ others \in Seq(Names) /\ IsInjective(others)
      /\ ToSet(others) = Names \cap (S \ {Watchdog})
  BY InOrderMembers
<1>2. Watchdog \in Names /\ ToSet(others) = S \ {Watchdog}
  BY <1>1, DeploymentAssumption
<1>3. StopPlan(S) = (IF Watchdog \in S THEN <<Watchdog>> ELSE <<>>) \o others
  BY DEF StopPlan
<1>. HIDE DEF others, Names
<1>4. CASE Watchdog \in S
  <2>1. StopPlan(S) = <<Watchdog>> \o others
    BY <1>3, <1>4
  <2>2. /\ <<Watchdog>> \o others \in Seq(Names)
        /\ <<Watchdog>> \o others # <<>> /\ Head(<<Watchdog>> \o others) = Watchdog
        /\ ToSet(<<Watchdog>> \o others) = {Watchdog} \cup ToSet(others)
        /\ IsInjective(<<Watchdog>> \o others)
    BY <1>1, <1>2, FrontMembers
  <2>. QED
    BY <1>2, <1>4, <2>1, <2>2
<1>5. CASE Watchdog \notin S
  <2>1. StopPlan(S) = others
    BY <1>1, <1>3, <1>5
  <2>. QED
    BY <1>1, <1>2, <1>5, <2>1
<1>. QED
  BY <1>4, <1>5

\* The tasks to start are those of S, or all.
LEMMA StartPlanMembers ==
    ASSUME NEW S, S \subseteq Names, NEW all
    PROVE  /\ StartPlan(S, all) \in Seq(Names)
           /\ S \subseteq ToSet(StartPlan(S, all))
           /\ IsInjective(StartPlan(S, all))
BY InOrderMembers, DeploymentAssumption DEF StartPlan, Names

-----------------------------------------------------------------------------
\* The inductive invariant.

early == {"cleaning", "clearing", "staging", "verifying", "listing"}

\* The copy that was in place is there,
inPlace == early \cup {"stopping", "restarting", "undoStarting"}

\* and here it is the previous one.
empty == {"movingIn", "movingBack", "undoMoving"}
replaced == {"confirming", "registering", "starting", "undoing", "undoStopping"}

\* A directory that is there has a version.
Versioned(c) == c = NoCopy \/ c.version # 0

\* Tasks run the copy that is in place, which the update knows where to find.
Versions ==
    /\ Versioned(live) /\ Versioned(previous) /\ Versioned(staging)
    /\ \A n \in Running : live # NoCopy /\ running[n].version = live.version
    /\ pc \in inPlace => live.version = old
    /\ pc \in empty => live = NoCopy
    /\ pc \in empty \cup replaced => previous.version = old
    /\ pc \in {"staging", "verifying", "listing", "stopping"} => previous = NoCopy
    /\ pc \in replaced => live # NoCopy
    /\ pc \in {"verifying", "listing", "stopping", "movingIn"} => staging # NoCopy
    /\ before # {} => old # 0
    /\ outcome = "undone" => pc = "idle" /\ live.version = old

\* Running, or down without the update.
Up(n) == running[n] # NoCopy \/ n \in failing \/ late[n] # "no"

\* What runs again when the plan is done.
Plans ==
    /\ pc \in early => stopped = {}
    /\ pc \in {"stopping", "movingIn", "movingBack"} => \A n \in before : Up(n) \/ n \in stopped
    /\ pc \in {"restarting", "undoStarting"} => \A n \in before : Up(n) \/ n \in ToSet(todo)
    /\ outcome = "undone" => \A n \in before : Up(n)

\* The watchdog is stopped before the tasks it watches.
WatchdogFirst ==
    pc = "stopping" =>
        /\ ToSet(todo) \subseteq before
        /\ Watchdog \in before \ stopped =>
               todo # <<>> /\ Head(todo) = Watchdog /\ stopped = {}
        /\ Watchdog \in Running => Watchdog \in (before \ stopped) \cup retried
        /\ StoppedStaysStopped

Fit(c) == Complete(c) /\ (cutShort \/ c.state = "confirmed")

\* What has been tested, and confirmed, where.
Tested ==
    ~warned =>
        /\ pc \in inPlace \cup {"idle"} => live = NoCopy \/ Fit(live)
        /\ pc \in empty \cup replaced => previous = NoCopy \/ Fit(previous)
        /\ pc \in replaced => Complete(live)
        /\ pc \in {"registering", "starting"} => live.state = "confirmed"
        /\ pc \in {"listing", "stopping", "movingIn"} => staging.state = "staged"
        /\ pc = "idle" /\ old # 0 => Complete(live) \/ Complete(previous)

pcs == {"idle"} \cup inPlace \cup empty \cup replaced

DeploymentInv == TypeOK /\ pc \in pcs /\ Versions /\ Plans /\ WatchdogFirst /\ Tested

-----------------------------------------------------------------------------
\* What the steps of an update have in common.

\* Copies.
LEMMA CopyFacts ==
    /\ NoCopy \in Copies /\ NoCopy.version = 0 /\ ~Complete(NoCopy) /\ NoCopy.state = "none"
    /\ \A c \in Copies : c.version \in 0 .. MaxUpdates + 1
    /\ \A c \in Copies : c.version # 0 => c # NoCopy
BY DeploymentAssumption DEF NoCopy, Copies, Complete

\* A copy whose state alone changes.
LEMMA Changed ==
    ASSUME NEW c \in Copies, NEW st \in {"none", "partial", "staged", "confirmed", "broken"}
    PROVE  LET d == [c EXCEPT !.state = st] IN
           d \in Copies /\ d.version = c.version /\ d.state = st
BY DEF Copies

LEMMA BrokenFacts ==
    ASSUME NEW c \in Copies
    PROVE  Broken(c) \in Copies /\ Broken(c).version = c.version /\ Broken(c).state = "broken"
BY Changed DEF Broken

\* The copy that is being staged.
LEMMA NewFacts ==
    ASSUME TypeOK
    PROVE  LET d == [version |-> version, state |-> "partial"] IN
           d \in Copies /\ d.version # 0 /\ d.state = "partial"
BY DeploymentAssumption DEF Copies, TypeOK

\* Nothing planned.
LEMMA EmptyPlan ==
    <<>> \in Seq(Names) /\ ToSet(<<>>) = {} /\ IsInjective(<<>>)
<1>1. <<>> \in Seq(Names) /\ Len(<<>>) = 0 /\ 1 .. 0 = {}
  OBVIOUS
<1>. QED
  BY <1>1 DEF ToSet, IsInjective

\* How a step hands on, or ends the update.
LEMMA Ends ==
    /\ \A o : End(o) => /\ pc' = "idle" /\ outcome' = o /\ (warned => warned')
                        /\ (o = "manual" => warned')
    /\ \A to, plan : Go(to, plan) => pc' = to /\ outcome' = outcome /\ (warned => warned')
<1>1. ASSUME NEW o, End(o)
      PROVE  /\ pc' = "idle" /\ outcome' = o /\ (warned => warned')
             /\ (o = "manual" => warned')
  BY <1>1 DEF End
<1>2. ASSUME NEW to, NEW plan, Go(to, plan)
      PROVE  pc' = to /\ outcome' = outcome /\ (warned => warned')
  BY <1>2 DEF Go
<1>. QED
  BY <1>1, <1>2

-----------------------------------------------------------------------------
\* Every step preserves the invariant.
USE DEF DeploymentInv, End, Go, outside, places, tasks, choices, history, unwatched

LEMMA BeginStep ==
    ASSUME DeploymentInv, Begin
    PROVE  DeploymentInv'
<1>. USE DEF Begin
<1>1. TypeOK'
  BY DeploymentAssumption DEF TypeOK
<1>2. (pc \in pcs)'
  BY DEF pcs, early, inPlace
<1>3. Versions'
  BY DEF Versions, empty, replaced, Running
<1>4. Plans'
  BY DEF Plans
<1>5. WatchdogFirst'
  BY DEF WatchdogFirst
<1>6. Tested'
  BY DEF Tested, Fit, empty, replaced
<1>. QED
  BY <1>1, <1>2, <1>3, <1>4, <1>5, <1>6

LEMMA CleanStagingStep ==
    ASSUME DeploymentInv, CleanStaging
    PROVE  DeploymentInv'
<1>. USE DEF CleanStaging
<1>1. TypeOK'
  BY EmptyPlan, CopyFacts, BrokenFacts DEF TypeOK
<1>2. (pc \in pcs)'
  BY DEF pcs, early, inPlace
<1>3. Versions'
  BY BrokenFacts DEF TypeOK, Versions, Versioned, pcs, empty, replaced, Running
<1>4. Plans'
  BY DEF Plans, Up, pcs, inPlace, empty, replaced
<1>5. WatchdogFirst'
  BY DEF WatchdogFirst
<1>6. Tested'
  BY CopyFacts DEF Versions, Tested, Fit, pcs, empty, replaced
<1>. QED
  BY <1>1, <1>2, <1>3, <1>4, <1>5, <1>6

LEMMA CleanPreviousStep ==
    ASSUME DeploymentInv, CleanPrevious
    PROVE  DeploymentInv'
<1>. USE DEF CleanPrevious
<1>1. TypeOK'
  BY EmptyPlan, CopyFacts, BrokenFacts DEF TypeOK
<1>2. (pc \in pcs)'
  BY DEF pcs, early, inPlace
<1>3. Versions'
  BY BrokenFacts DEF TypeOK, Versions, Versioned, pcs, empty, replaced, Running
<1>4. Plans'
  BY DEF Plans, Up, pcs, inPlace, empty, replaced
<1>5. WatchdogFirst'
  BY DEF WatchdogFirst
<1>6. Tested'
  BY CopyFacts, BrokenFacts DEF Versions, Tested, Fit, pcs, empty, replaced
<1>. QED
  BY <1>1, <1>2, <1>3, <1>4, <1>5, <1>6

LEMMA StageStep ==
    ASSUME DeploymentInv, Stage
    PROVE  DeploymentInv'
<1>. USE DEF Stage
<1>1. TypeOK'
  BY EmptyPlan, NewFacts DEF TypeOK
<1>2. (pc \in pcs)'
  BY DEF pcs, early, inPlace
<1>3. Versions'
  BY CopyFacts, NewFacts DEF Versions, Versioned, pcs, empty, replaced, Running
<1>4. Plans'
  BY DEF Plans, Up, pcs, inPlace, empty, replaced
<1>5. WatchdogFirst'
  BY DEF WatchdogFirst
<1>6. Tested'
  BY NewFacts DEF Tested, Fit, pcs, empty, replaced
<1>. QED
  BY <1>1, <1>2, <1>3, <1>4, <1>5, <1>6

LEMMA VerifyStep ==
    ASSUME DeploymentInv, Verify
    PROVE  DeploymentInv'
<1>. USE DEF Verify
<1>1. TypeOK'
  BY EmptyPlan, Changed DEF TypeOK
<1>2. (pc \in pcs)'
  BY DEF pcs, early, inPlace
<1>3. Versions'
  <2>1. LET d == [staging EXCEPT !.state = "staged"] IN
        d \in Copies /\ d.version = staging.version /\ d.state = "staged"
    BY Changed DEF TypeOK
  <2>2. /\ staging' \in Copies /\ staging'.version = staging.version
        /\ UNCHANGED <<live, previous, running, before, old>>
        /\ pc = "verifying" /\ pc' \in {"listing", "idle"}
        /\ outcome' \in {outcome, "failed"}
    BY <2>1, Ends DEF TypeOK, Versions
  <2>. HIDE DEF Verify
  <2>. QED
    BY <2>2, CopyFacts DEF Versions, Versioned, early, inPlace, empty, replaced, Running
<1>4. Plans'
  BY DEF Plans, Up, pcs, inPlace, empty, replaced
<1>5. WatchdogFirst'
  BY DEF WatchdogFirst
<1>6. Tested'
  <2>1. LET d == [staging EXCEPT !.state = "staged"] IN
        d \in Copies /\ d.version = staging.version /\ d.state = "staged"
    BY Changed DEF TypeOK
  <2>2. /\ pc = "verifying" /\ (pc' = "idle" \/ (pc' = "listing" /\ staging'.state = "staged"))
        /\ UNCHANGED <<live, previous, cutShort, old>> /\ (warned => warned')
    BY <2>1, Ends DEF TypeOK
  <2>. HIDE DEF Verify
  <2>. QED
    BY <2>2, CopyFacts DEF TypeOK, Versions, Versioned, Tested, Fit, Complete, early, inPlace, empty, replaced
<1>. QED
  BY <1>1, <1>2, <1>3, <1>4, <1>5, <1>6

LEMMA ListStep ==
    ASSUME DeploymentInv, List
    PROVE  DeploymentInv'
<1>. USE DEF List
<1>1. TypeOK'
  <2>1. Running \subseteq Names /\ stopped = {}
    BY DEF Running, Plans, early
  <2>2. todo' \in Seq(Names) /\ IsInjective(todo')
    BY <2>1, StopPlanMembers, EmptyPlan
  <2>. QED
    BY <2>1, <2>2 DEF TypeOK
<1>2. (pc \in pcs)'
  BY DEF pcs, inPlace
<1>3. Versions'
  BY DEF Versions, Versioned, pcs, empty, replaced, Running
<1>4. Plans'
  BY DEF Plans, Up, pcs, inPlace, empty, replaced, Running
<1>5. WatchdogFirst'
  BY StopPlanMembers DEF Plans, WatchdogFirst, StoppedStaysStopped, pcs, inPlace, empty, replaced, Running
<1>6. Tested'
  BY CopyFacts DEF Versions, Tested, Fit, pcs, replaced
<1>. QED
  BY <1>1, <1>2, <1>3, <1>4, <1>5, <1>6

LEMMA StopStep ==
    ASSUME DeploymentInv, Stop
    PROVE  DeploymentInv'
<1>. USE DEF Stop, StopWorks, StopTimesOut
<1>1. TypeOK'
  <2>1. todo \in Seq(Names) /\ todo # <<>> /\ IsInjective(todo) /\ stopped \subseteq Names
    BY DEF TypeOK
  <2>2. Head(todo) \in Names /\ Head(todo) \in before
    BY <2>1, TailMembers DEF WatchdogFirst
  <2>3. todo' \in Seq(Names) /\ IsInjective(todo')
    <3>1. Tail(todo) \in Seq(Names) /\ IsInjective(Tail(todo))
      BY <2>1, TailMembers
    <3>2. StartPlan(stopped, FALSE) \in Seq(Names) /\ IsInjective(StartPlan(stopped, FALSE))
      BY <2>1, StartPlanMembers
    <3>. QED
      BY <3>1, <3>2
  <2>4. running' \in [Names -> Copies] /\ late' \in [Names -> {"no", "asked", "stopped"}]
    BY <2>2, CopyFacts DEF TypeOK
  <2>. QED
    BY <2>2, <2>3, <2>4 DEF TypeOK
<1>2. (pc \in pcs)'
  BY DEF pcs, inPlace
<1>3. Versions'
  BY DEF TypeOK, Versions, pcs, empty, replaced, Running
<1>4. Plans'
  BY StartPlanMembers DEF TypeOK, Plans, Up, Versions, early
<1>5. WatchdogFirst'
  <2>1. todo \in Seq(Names) /\ todo # <<>> /\ IsInjective(todo)
    BY DEF TypeOK
  <2>2. SUFFICES ASSUME pc' = "stopping" PROVE WatchdogFirst'
    BY DEF WatchdogFirst
  <2>3. /\ running' = [running EXCEPT ![Head(todo)] = NoCopy]
        /\ stopped' = stopped \cup {Head(todo)} /\ todo' = Tail(todo)
        /\ UNCHANGED <<before, retried>> /\ pc = "stopping"
    BY <2>2
  <2>. HIDE DEF Stop
  <2>4. Head(todo) \in Names /\ ToSet(todo) = {Head(todo)} \cup ToSet(Tail(todo))
    BY <2>1, TailMembers
  <2>5. \A n \in Names : running'[n] = IF n = Head(todo) THEN NoCopy ELSE running[n]
    BY <2>3 DEF TypeOK
  <2>6. Running' = Running \ {Head(todo)}
    BY <2>5 DEF Running
  <2>7. ToSet(todo') \subseteq before'
    BY <2>2, <2>3, <2>4 DEF WatchdogFirst
  <2>8. Watchdog \notin before' \ stopped'
    BY <2>2, <2>3 DEF WatchdogFirst
  <2>9. Watchdog \in Running' => Watchdog \in retried'
    BY <2>2, <2>3, <2>6, <2>8 DEF WatchdogFirst
  <2>10. StoppedStaysStopped'
    BY <2>2, <2>3, <2>4, <2>5, CopyFacts DEF WatchdogFirst, StoppedStaysStopped, TypeOK
  <2>. QED
    BY <2>7, <2>8, <2>9, <2>10 DEF WatchdogFirst
<1>6. Tested'
  <2>1. /\ pc = "stopping" /\ pc' \in {"stopping", "restarting"} /\ UNCHANGED <<places, cutShort, old>>
        /\ (warned => warned')
    BY Ends
  <2>. HIDE DEF Stop
  <2>. QED
    BY <2>1, CopyFacts DEF TypeOK, Versions, Versioned, Tested, Fit, Complete, early, inPlace, empty, replaced
<1>. QED
  BY <1>1, <1>2, <1>3, <1>4, <1>5, <1>6

LEMMA MoveOutStep ==
    ASSUME DeploymentInv, MoveOut
    PROVE  DeploymentInv'
<1>. USE DEF MoveOut
<1>1. TypeOK'
  BY CopyFacts, StartPlanMembers DEF TypeOK
<1>2. (pc \in pcs)'
  BY DEF pcs, inPlace, empty
<1>3. Versions'
  BY DEF Versions, early, inPlace, empty, replaced, Running
<1>4. Plans'
  BY StartPlanMembers DEF TypeOK, Plans, Up, early
<1>5. WatchdogFirst'
  BY DEF WatchdogFirst
<1>6. Tested'
  <2>1. /\ pc = "stopping" /\ (warned => warned') /\ UNCHANGED <<staging, cutShort, old>>
        /\ \/ live = NoCopy /\ pc' = "movingIn" /\ UNCHANGED <<live, previous>>
           \/ pc' = "movingIn" /\ previous' = live /\ live' = NoCopy
           \/ pc' = "restarting" /\ UNCHANGED <<live, previous>>
    BY Ends
  <2>. HIDE DEF MoveOut
  <2>. QED
    BY <2>1, CopyFacts DEF TypeOK, Versions, Versioned, Tested, Fit, Complete, early, inPlace, empty, replaced
<1>. QED
  BY <1>1, <1>2, <1>3, <1>4, <1>5, <1>6

LEMMA MoveInStep ==
    ASSUME DeploymentInv, MoveIn
    PROVE  DeploymentInv'
<1>. USE DEF MoveIn
<1>1. TypeOK'
  BY EmptyPlan, CopyFacts DEF TypeOK
<1>2. (pc \in pcs)'
  BY DEF pcs, empty, replaced
<1>3. Versions'
  BY DEF Versions, early, inPlace, empty, replaced, Running
<1>4. Plans'
  BY DEF Plans, Up, early
<1>5. WatchdogFirst'
  BY DEF WatchdogFirst
<1>6. Tested'
  BY CopyFacts DEF Versions, Tested, Fit, Complete, pcs, early, inPlace, replaced
<1>. QED
  BY <1>1, <1>2, <1>3, <1>4, <1>5, <1>6

LEMMA MoveBackStep ==
    ASSUME DeploymentInv, MoveBack
    PROVE  DeploymentInv'
<1>. USE DEF MoveBack
<1>1. TypeOK'
  <2>1. stopped \subseteq Names
    BY DEF TypeOK
  <2>2. todo' \in Seq(Names) /\ IsInjective(todo')
    BY <2>1, StartPlanMembers, EmptyPlan
  <2>. QED
    BY <2>2, CopyFacts DEF TypeOK
<1>2. (pc \in pcs)'
  BY DEF pcs, inPlace
<1>3. Versions'
  BY DEF Versions, early, inPlace, empty, replaced, Running
<1>4. Plans'
  BY StartPlanMembers DEF TypeOK, Plans, Up, early
<1>5. WatchdogFirst'
  BY DEF WatchdogFirst
<1>6. Tested'
  <2>1. /\ pc = "movingBack" /\ (warned => warned') /\ UNCHANGED <<staging, cutShort, old>>
        /\ \/ pc' = "restarting" /\ live' = previous /\ previous' = NoCopy
           \/ pc' = "idle" /\ warned'
    BY DEF TypeOK
  <2>. HIDE DEF MoveBack
  <2>. QED
    BY <2>1, CopyFacts DEF TypeOK, Versions, Versioned, Tested, Fit, Complete, early, inPlace, empty, replaced
<1>. QED
  BY <1>1, <1>2, <1>3, <1>4, <1>5, <1>6

LEMMA ConfirmStep ==
    ASSUME DeploymentInv, Confirm
    PROVE  DeploymentInv'
<1>. USE DEF Confirm
<1>1. TypeOK'
  <2>1. LET d == [live EXCEPT !.state = "confirmed"] IN
        d \in Copies /\ d.version = live.version /\ d.state = "confirmed"
    BY Changed DEF TypeOK
  <2>2. live' \in Copies
    BY <2>1, Ends DEF TypeOK
  <2>3. todo' \in Seq(Names) /\ IsInjective(todo')
    BY EmptyPlan
  <2>4. UNCHANGED outside /\ warned' \in BOOLEAN /\ UNCHANGED <<staging, previous>>
    BY DEF TypeOK
  <2>. HIDE DEF Confirm
  <2>. QED
    BY <2>2, <2>3, <2>4 DEF TypeOK
<1>2. (pc \in pcs)'
  BY DEF pcs, replaced
<1>3. Versions'
  <2>1. LET d == [live EXCEPT !.state = "confirmed"] IN
        d \in Copies /\ d.version = live.version /\ d.state = "confirmed"
    BY Changed DEF TypeOK
  <2>2. /\ live' \in Copies /\ live'.version = live.version
        /\ UNCHANGED <<staging, previous, running, before, old>>
        /\ pc = "confirming" /\ pc' \in {"registering", "undoing"} /\ UNCHANGED outcome
    BY <2>1, Ends DEF TypeOK
  <2>. HIDE DEF Confirm
  <2>. QED
    BY <2>2, CopyFacts DEF Versions, Versioned, early, inPlace, empty, replaced, Running
<1>4. Plans'
  BY DEF Plans, Up, early
<1>5. WatchdogFirst'
  BY DEF WatchdogFirst
<1>6. Tested'
  <2>1. LET d == [live EXCEPT !.state = "confirmed"] IN
        d \in Copies /\ d.version = live.version /\ d.state = "confirmed"
    BY Changed DEF TypeOK
  <2>2. /\ pc = "confirming"
        /\ \/ pc' = "registering" /\ live'.state = "confirmed"
           \/ pc' = "undoing" /\ live' = live
        /\ UNCHANGED <<staging, previous, cutShort, old>> /\ (warned => warned')
    BY <2>1, Ends DEF TypeOK
  <2>. HIDE DEF Confirm
  <2>. QED
    BY <2>2 DEF Tested, Fit, Complete, early, inPlace, empty, replaced
<1>. QED
  BY <1>1, <1>2, <1>3, <1>4, <1>5, <1>6

LEMMA RegisterStep ==
    ASSUME DeploymentInv, Register
    PROVE  DeploymentInv'
<1>. USE DEF Register
<1>1. TypeOK'
  <2>1. todo' \in Seq(Names) /\ IsInjective(todo')
    BY StartPlanMembers, EmptyPlan DEF TypeOK
  <2>2. registered' \subseteq Names
    <3>1. CASE registered' = Names
      BY <3>1
    <3>2. CASE \E k \in 0 .. Len(TaskNames) : registered' = registered \cup ToSet(SubSeq(TaskNames, 1, k))
      <4>1. PICK k \in 0 .. Len(TaskNames) : registered' = registered \cup ToSet(SubSeq(TaskNames, 1, k))
        BY <3>2
      <4>2. SubSeq(TaskNames, 1, k) \in Seq(Names)
        BY DeploymentAssumption, SubSeqProperties
      <4>3. ToSet(SubSeq(TaskNames, 1, k)) \subseteq Names
        BY <4>2, Members
      <4>. QED
        BY <4>1, <4>3 DEF TypeOK
    <3>. QED
      BY <3>1, <3>2
  <2>3. UNCHANGED <<places, running, failing, late, choices, version, reboots, history, warned, retried>>
    OBVIOUS
  <2>. HIDE DEF Register
  <2>. QED
    BY <2>1, <2>2, <2>3 DEF TypeOK
<1>2. (pc \in pcs)'
  BY DEF pcs, replaced
<1>3. Versions'
  BY DEF Versions, pcs, early, inPlace, empty, Running
<1>4. Plans'
  BY DEF Plans, Up, early
<1>5. WatchdogFirst'
  BY DEF WatchdogFirst
<1>6. Tested'
  <2>1. /\ pc = "registering" /\ pc' \in {"starting", "undoing"} /\ (pc' = "starting" \/ pc' = "undoing")
        /\ UNCHANGED <<places, cutShort, old, warned>>
    BY Ends
  <2>. HIDE DEF Register
  <2>. QED
    BY <2>1 DEF Tested, Fit, Complete, early, inPlace, empty, replaced
<1>. QED
  BY <1>1, <1>2, <1>3, <1>4, <1>5, <1>6

LEMMA StartNextStep ==
    ASSUME DeploymentInv, StartNext
    PROVE  DeploymentInv'
<1>. USE DEF StartNext, Started
<1>1. TypeOK'
  <2>1. todo \in Seq(Names) /\ todo # <<>> /\ IsInjective(todo)
    BY DEF TypeOK
  <2>2. Head(todo) \in Names
    BY <2>1, TailMembers
  <2>3. todo' \in Seq(Names) /\ IsInjective(todo')
    <3>1. Tail(todo) \in Seq(Names) /\ IsInjective(Tail(todo))
      BY <2>1, TailMembers
    <3>. QED
      BY <3>1, EmptyPlan
  <2>4. running' \in [Names -> Copies]
    BY <2>2 DEF TypeOK
  <2>5. UNCHANGED <<places, registered, failing, late, choices, version, reboots, history, retried>>
        /\ warned' \in BOOLEAN
    BY DEF TypeOK
  <2>. HIDE DEF StartNext
  <2>. QED
    BY <2>3, <2>4, <2>5 DEF TypeOK
<1>2. (pc \in pcs)'
  BY DEF pcs, replaced
<1>3. Versions'
  BY DEF TypeOK, Versions, early, inPlace, empty, replaced, Running
<1>4. Plans'
  BY CopyFacts, TailMembers DEF TypeOK, Plans, Up, Versions, pcs, early, empty
<1>5. WatchdogFirst'
  BY DEF WatchdogFirst
<1>6. Tested'
  <2>1. /\ UNCHANGED <<places, cutShort, old>> /\ (warned => warned')
        /\ \/ pc = "starting" /\ pc' \in {"starting", "undoing"}
           \/ pc = "restarting" /\ pc' \in {"restarting", "idle"}
           \/ pc = "undoStarting" /\ (pc' = "undoStarting" \/ (pc' = "idle" /\ warned'))
    BY Ends
  <2>. HIDE DEF StartNext
  <2>. QED
    BY <2>1, CopyFacts DEF TypeOK, Versions, Versioned, Tested, Fit, Complete, early, inPlace, empty, replaced
<1>. QED
  BY <1>1, <1>2, <1>3, <1>4, <1>5, <1>6

LEMMA FinishStep ==
    ASSUME DeploymentInv, Finish
    PROVE  DeploymentInv'
<1>. USE DEF Finish
<1>1. TypeOK'
  BY CopyFacts, BrokenFacts DEF TypeOK
<1>2. (pc \in pcs)'
  BY DEF pcs
<1>3. Versions'
  BY BrokenFacts DEF TypeOK, Versions, Versioned, early, inPlace, empty, replaced, Running
<1>4. Plans'
  BY DEF Plans, early
<1>5. WatchdogFirst'
  BY DEF WatchdogFirst
<1>6. Tested'
  BY BrokenFacts DEF Tested, Fit, empty, replaced
<1>. QED
  BY <1>1, <1>2, <1>3, <1>4, <1>5, <1>6

LEMMA UndoStep ==
    ASSUME DeploymentInv, Undo
    PROVE  DeploymentInv'
<1>. USE DEF Undo
<1>1. TypeOK'
  BY EmptyPlan, StopPlanMembers DEF TypeOK, Running
<1>2. (pc \in pcs)'
  BY DEF pcs, replaced
<1>3. Versions'
  BY DEF Versions, pcs, early, inPlace, empty, Running
<1>4. Plans'
  BY DEF Plans, Up, early
<1>5. WatchdogFirst'
  BY DEF WatchdogFirst
<1>6. Tested'
  BY DEF Tested, Fit, early, inPlace, replaced
<1>. QED
  BY <1>1, <1>2, <1>3, <1>4, <1>5, <1>6

LEMMA UndoStopStep ==
    ASSUME DeploymentInv, UndoStop
    PROVE  DeploymentInv'
<1>. USE DEF UndoStop, StopWorks, StopTimesOut
<1>1. TypeOK'
  <2>1. todo \in Seq(Names) /\ todo # <<>> /\ IsInjective(todo)
    BY DEF TypeOK
  <2>2. Head(todo) \in Names
    BY <2>1, TailMembers
  <2>3. todo' \in Seq(Names) /\ IsInjective(todo')
    <3>1. Tail(todo) \in Seq(Names) /\ IsInjective(Tail(todo))
      BY <2>1, TailMembers
    <3>. QED
      BY <3>1, EmptyPlan
  <2>4. running' \in [Names -> Copies] /\ late' \in [Names -> {"no", "asked", "stopped"}]
    BY <2>2, CopyFacts DEF TypeOK
  <2>5. UNCHANGED <<places, registered, failing, choices, version, reboots, history, retried>>
        /\ warned' \in BOOLEAN
    BY DEF TypeOK
  <2>. HIDE DEF UndoStop
  <2>. QED
    BY <2>3, <2>4, <2>5 DEF TypeOK
<1>2. (pc \in pcs)'
  BY DEF pcs
<1>3. Versions'
  BY DEF TypeOK, Versions, pcs, early, inPlace, empty, Running
<1>4. Plans'
  BY DEF Plans, Versions, early
<1>5. WatchdogFirst'
  BY DEF WatchdogFirst
<1>6. Tested'
  <2>1. /\ pc = "undoStopping" /\ (pc' = "undoStopping" \/ (pc' = "idle" /\ warned'))
        /\ UNCHANGED <<places, cutShort, old>> /\ (warned => warned')
    BY Ends
  <2>. HIDE DEF UndoStop
  <2>. QED
    BY <2>1 DEF Tested, Fit, Complete, early, inPlace, empty, replaced
<1>. QED
  BY <1>1, <1>2, <1>3, <1>4, <1>5, <1>6

LEMMA UndoRemoveStep ==
    ASSUME DeploymentInv, UndoRemove
    PROVE  DeploymentInv'
<1>. USE DEF UndoRemove
<1>1. TypeOK'
  BY CopyFacts, BrokenFacts DEF TypeOK
<1>2. (pc \in pcs)'
  BY DEF pcs, empty
<1>3. Versions'
  BY CopyFacts, BrokenFacts DEF TypeOK, Versions, Versioned, early, inPlace, empty, replaced, Running
<1>4. Plans'
  BY DEF Plans, Up, early
<1>5. WatchdogFirst'
  BY DEF WatchdogFirst
<1>6. Tested'
  BY BrokenFacts DEF Tested, Fit, replaced
<1>. QED
  BY <1>1, <1>2, <1>3, <1>4, <1>5, <1>6

LEMMA UndoMoveStep ==
    ASSUME DeploymentInv, UndoMove
    PROVE  DeploymentInv'
<1>. USE DEF UndoMove
<1>1. TypeOK'
  BY EmptyPlan, CopyFacts, InOrderMembers DEF TypeOK
<1>2. (pc \in pcs)'
  BY DEF pcs, inPlace
<1>3. Versions'
  BY DEF Versions, early, inPlace, empty, replaced, Running
<1>4. Plans'
  BY InOrderMembers DEF TypeOK, Plans, Up, early
<1>5. WatchdogFirst'
  BY DEF WatchdogFirst
<1>6. Tested'
  BY DEF Tested, Fit, empty, replaced
<1>. QED
  BY <1>1, <1>2, <1>3, <1>4, <1>5, <1>6

LEMMA RestoredStep ==
    ASSUME DeploymentInv, Restored
    PROVE  DeploymentInv'
<1>. USE DEF Restored
<1>1. TypeOK'
  BY DEF TypeOK
<1>2. (pc \in pcs)'
  BY DEF pcs
<1>3. Versions'
  BY DEF Versions, pcs, empty, replaced, Running
<1>4. Plans'
  BY EmptyPlan DEF Plans, Up, early
<1>5. WatchdogFirst'
  BY DEF WatchdogFirst
<1>6. Tested'
  BY CopyFacts DEF Versions, Tested, Fit, pcs, empty, replaced
<1>. QED
  BY <1>1, <1>2, <1>3, <1>4, <1>5, <1>6

LEMMA RebootStep ==
    ASSUME DeploymentInv, Reboot
    PROVE  DeploymentInv'
<1>. USE DEF Reboot
<1>1. TypeOK'
  BY EmptyPlan, CopyFacts, DeploymentAssumption DEF TypeOK
<1>2. (pc \in pcs)'
  BY DEF pcs
<1>3. Versions'
  BY DEF Versions, early, inPlace, empty, replaced, Running
<1>4. Plans'
  BY DEF Plans, early
<1>5. WatchdogFirst'
  BY DEF WatchdogFirst
<1>6. Tested'
  BY CopyFacts DEF Versions, Tested, Fit, pcs, empty, replaced
<1>. QED
  BY <1>1, <1>2, <1>3, <1>4, <1>5, <1>6

LEMMA ExitStep ==
    ASSUME DeploymentInv, NEW n \in Names, Exit(n)
    PROVE  DeploymentInv'
<1>. USE DEF Exit
<1>1. TypeOK'
  BY CopyFacts DEF TypeOK
<1>2. (pc \in pcs)'
  OBVIOUS
<1>3. Versions'
  BY DEF Versions, Running
<1>4. Plans'
  BY DEF Plans, Up
<1>5. WatchdogFirst'
  BY DEF WatchdogFirst, StoppedStaysStopped, Running
<1>6. Tested'
  BY DEF Tested, Fit
<1>. QED
  BY <1>1, <1>2, <1>3, <1>4, <1>5, <1>6

LEMMA RetryStep ==
    ASSUME DeploymentInv, NEW n \in Names, Retry(n)
    PROVE  DeploymentInv'
<1>. USE DEF Retry
<1>1. TypeOK'
  BY DEF TypeOK
<1>2. (pc \in pcs)'
  OBVIOUS
<1>3. Versions'
  BY DEF Versions, Running
<1>4. Plans'
  BY DEF TypeOK, Plans, Up
<1>5. WatchdogFirst'
  BY DEF WatchdogFirst, StoppedStaysStopped, Running
<1>6. Tested'
  BY DEF Tested, Fit
<1>. QED
  BY <1>1, <1>2, <1>3, <1>4, <1>5, <1>6

LEMMA ReviveStep ==
    ASSUME DeploymentInv, NEW n \in Names, Revive(n)
    PROVE  DeploymentInv'
<1>. USE DEF Revive
<1>1. TypeOK'
  BY DEF TypeOK
<1>2. (pc \in pcs)'
  OBVIOUS
<1>3. Versions'
  BY DEF Versions, Running
<1>4. Plans'
  BY DEF Plans, Up
<1>5. WatchdogFirst'
  BY DeploymentAssumption DEF WatchdogFirst, StoppedStaysStopped, Running
<1>6. Tested'
  BY DEF Tested, Fit
<1>. QED
  BY <1>1, <1>2, <1>3, <1>4, <1>5, <1>6

LEMMA StopLateStep ==
    ASSUME DeploymentInv, NEW n \in Names, StopLate(n)
    PROVE  DeploymentInv'
<1>. USE DEF StopLate
<1>1. TypeOK'
  BY CopyFacts DEF TypeOK
<1>2. (pc \in pcs)'
  OBVIOUS
<1>3. Versions'
  BY DEF Versions, Running
<1>4. Plans'
  BY DEF Plans, Up
<1>5. WatchdogFirst'
  BY DEF WatchdogFirst, StoppedStaysStopped, Running
<1>6. Tested'
  BY DEF Tested, Fit
<1>. QED
  BY <1>1, <1>2, <1>3, <1>4, <1>5, <1>6

LEMMA StutterStep ==
    ASSUME DeploymentInv, UNCHANGED vars
    PROVE  DeploymentInv'
<1>. USE DEF vars
<1>1. TypeOK' /\ (pc \in pcs)'
  BY DEF TypeOK, pcs, early, inPlace, empty, replaced
<1>2. Versions'
  BY DEF Versions, Versioned, Running, early, inPlace, empty, replaced
<1>3. Plans'
  BY DEF Plans, Up, early
<1>4. WatchdogFirst'
  BY DEF WatchdogFirst, StoppedStaysStopped, Running
<1>5. Tested'
  BY DEF Tested, Fit, Complete, early, inPlace, empty, replaced
<1>. QED
  BY <1>1, <1>2, <1>3, <1>4, <1>5

LEMMA InitInv ==
    ASSUME Init
    PROVE  DeploymentInv
<1>1. /\ live \in Copies /\ (live = NoCopy \/ (live.version = 1 /\ live.state = "confirmed"))
      /\ registered \subseteq Names
      /\ running \in [Names -> {live, NoCopy}]
  BY DeploymentAssumption, CopyFacts DEF Init, Copies
<1>2. /\ staging = NoCopy /\ previous = NoCopy /\ pc = "idle" /\ todo = <<>> /\ before = {}
      /\ stopped = {} /\ outcome = "none" /\ old = live.version
  BY DEF Init
<1>3. TypeOK
  <2>1. running \in [Names -> Copies]
    BY <1>1, CopyFacts
  <2>2. /\ failing \subseteq Names /\ late \in [Names -> {"no", "asked", "stopped"}]
        /\ startAll \in BOOLEAN /\ warned \in BOOLEAN /\ cutShort \in BOOLEAN
        /\ retried \subseteq Names
    BY DEF Init
  <2>3. version \in 1 .. MaxUpdates + 1 /\ reboots \in 0 .. MaxReboots
    BY DeploymentAssumption DEF Init
  <2>. QED
    BY <1>1, <1>2, <2>1, <2>2, <2>3, EmptyPlan, CopyFacts DEF TypeOK
<1>4. Versions
  BY <1>1, <1>2, CopyFacts DEF Versions, Versioned, Running, early, inPlace, empty, replaced
<1>5. Plans /\ WatchdogFirst
  BY <1>2 DEF Plans, WatchdogFirst, early
<1>6. Tested
  BY <1>1, <1>2, CopyFacts DEF Tested, Fit, Complete, inPlace, early, empty, replaced
<1>. QED
  BY <1>2, <1>3, <1>4, <1>5, <1>6 DEF pcs

LEMMA InvariantsHold ==
    ASSUME DeploymentInv
    PROVE  TypeOK /\ PlaceSafe /\ TasksAsTheyWere
<1>1. PlaceSafe
  <2>1. SUFFICES ASSUME ~warned
                 PROVE  /\ live = NoCopy \/ Complete(live)
                        /\ pc = "idle" /\ ~cutShort /\ live # NoCopy => live.state = "confirmed"
                        /\ old # 0 => Complete(live) \/ Complete(previous)
    BY DEF PlaceSafe
  <2>2. CASE pc \in inPlace \cup {"idle"}
    BY <2>1, <2>2, CopyFacts DEF Tested, Fit, Versions, inPlace, early
  <2>3. CASE pc \in empty \cup replaced
    BY <2>1, <2>3, CopyFacts DEF Tested, Fit, Versions, empty, replaced
  <2>. QED
    BY <2>2, <2>3 DEF pcs
<1>2. UndoneMeansRestored
  BY DEF UndoneMeansRestored, Versions, Plans, Up
<1>3. StoppedStaysStopped
  BY DEF WatchdogFirst, StoppedStaysStopped
<1>. QED
  BY <1>1, <1>2, <1>3 DEF TasksAsTheyWere

HIDE DEF DeploymentInv, End, Go, outside, places, tasks, choices, history, unwatched

-----------------------------------------------------------------------------
\* The theorems.

LEMMA UpdateStep ==
    ASSUME DeploymentInv, Update
    PROVE  DeploymentInv'
BY BeginStep, CleanStagingStep, CleanPreviousStep, StageStep, VerifyStep, ListStep, StopStep,
   MoveOutStep, MoveInStep, MoveBackStep, ConfirmStep, RegisterStep, StartNextStep, FinishStep,
   UndoStep, UndoStopStep, UndoRemoveStep, UndoMoveStep, RestoredStep DEF Update

\* The invariant holds in every reachable state, wherever an update fails or is cut short
\* by a reboot, and whatever the tasks do meanwhile (deployment_swap.ps1).
THEOREM DeploymentInvariance == Spec => []DeploymentInv
<1>1. DeploymentInv /\ [Next]_vars => DeploymentInv'
  BY UpdateStep, ExitStep, RetryStep, ReviveStep, StopLateStep, RebootStep, StutterStep DEF Next
<1>2. Init => DeploymentInv
  BY InitInv
<1>. QED
  BY <1>1, <1>2, PTL DEF Spec

\* Every variable of the update keeps its type; no task is planned twice
\* (deployment_swap.ps1).
THEOREM TypeCorrect == Spec => []TypeOK
<1>1. DeploymentInv => TypeOK
  BY InvariantsHold
<1>. QED
  BY DeploymentInvariance, <1>1, PTL

\* Tasks find a whole, verified copy in place or none, and the old copy is kept until
\* there is a new one, through every failure and reboot (deployment_swap.ps1:3).
THEOREM PlaceIsSafe == Spec => []PlaceSafe
<1>1. DeploymentInv => PlaceSafe
  BY InvariantsHold
<1>. QED
  BY DeploymentInvariance, <1>1, PTL

\* An update undone has the old copy in place and running, and tasks that were stopped for
\* an update stay down for the swap (deployment_swap.ps1:6, stage6_tasks.ps1:45).
THEOREM TasksRestored == Spec => []TasksAsTheyWere
<1>1. DeploymentInv => TasksAsTheyWere
  BY InvariantsHold
<1>. QED
  BY DeploymentInvariance, <1>1, PTL

=============================================================================
