--------------------------- MODULE RunLock_proofs ---------------------------
(***************************************************************************)
(* The running lock excludes concurrent runs, for any number of pids and   *)
(* starts, as long as the operator issues one command at a time.           *)
(***************************************************************************)
EXTENDS RunLock, TLAPS

\* One start or one reset-lock is on its way to the lock.
OneOnTheWay ==
    /\ \A p, q \in Pid : pc[p] \in Starting /\ pc[q] \in Starting => p = q
    /\ \A p \in Pid : pc[p] \in Starting => reset = "idle"

\* The lock names its holder, and there is none while a start past the
\* test, or a reset-lock past its own, works on the lock.
LockOwned ==
    /\ \A p \in Pid : pc[p] \in Holding => lock = p
    /\ \A p \in Pid : pc[p] \in Starting \ {"check"} => Holders = {}
    /\ \A p \in Pid : pc[p] = "write" => lock = NoPid
    /\ reset \in {"unlink", "reconcile"} => Holders = {}

\* Live processes have runs of their own, and a run has no log before the
\* save and a running one, if any, before its end.
LogsOwned ==
    /\ \A p \in Pid : pc[p] # "off" => run[p] \in 1..starts
    /\ \A p, q \in Pid : pc[p] # "off" /\ pc[q] # "off" /\ run[p] = run[q] => p = q
    /\ \A r \in Run : r > starts => log[r] = "none"
    /\ \A p \in Pid : pc[p] \in Starting \cup {"save"} => log[run[p]] = "none"
    /\ \A p \in Pid : pc[p] \in {"register", "loop", "finish"} =>
           log[run[p]] \in {"none", "running"}

Inv == TypeOK /\ OneOnTheWay /\ LockOwned /\ LogsOwned /\ DeadRunsFinalized

LEMMA InitInv == Init => Inv
  BY LockAssumption DEF Init, Inv, TypeOK, OneOnTheWay, LockOwned, LogsOwned,
     DeadRunsFinalized, Starting, Holding, Holders, Run, Status, FinalStatus

LEMMA TypeStep == TypeOK /\ [Next]_vars => TypeOK'
  BY LockAssumption, SMTT(60)
  DEF TypeOK, Next, vars, Enter, Hold, Fault, Reset, Start, CheckLock,
      RemoveStaleLock, Reconcile, Reconciled, CreateLock, WriteLock, SaveRunning,
      SaveLog, RegisterCleanup, LoopReturns, SaveFinal, ReleaseLock, Signal, Kill,
      ResetLock, ResetChecks, ResetUnlinks, ResetReconciles, ForeignStart,
      ForeignExit, Goto, Starting, Holding, Run, Status, FinalStatus

LEMMA InvStep == ASSUME OneAtATime PROVE Inv /\ [Next]_vars => Inv'
<1> SUFFICES ASSUME Inv, [Next]_vars PROVE Inv'
  OBVIOUS
<1> USE OneAtATime, LockAssumption
<1>t. TypeOK /\ TypeOK'
  BY TypeStep DEF Inv
<1>i. OneOnTheWay /\ LockOwned /\ LogsOwned /\ DeadRunsFinalized
  BY DEF Inv
<1>1. ASSUME NEW p \in Pid, Start(p)
      PROVE  OneOnTheWay' /\ LockOwned' /\ LogsOwned' /\ DeadRunsFinalized'
  BY <1>t, <1>i, <1>1, SMTT(30)
  DEF Start, LockUndisturbed, TypeOK, OneOnTheWay, LockOwned, LogsOwned, DeadRunsFinalized,
       Starting, Holding, Holders, Run, Goto
<1>2. ASSUME NEW p \in Pid, CheckLock(p)
      PROVE  OneOnTheWay' /\ LockOwned' /\ LogsOwned' /\ DeadRunsFinalized'
  BY <1>t, <1>i, <1>2, SMTT(30)
  DEF CheckLock, LockedByLive, LockedByDead, IsPidAlive, TypeOK, OneOnTheWay, LockOwned, LogsOwned, DeadRunsFinalized,
       Starting, Holding, Holders, Run, Goto
<1>3. ASSUME NEW p \in Pid, RemoveStaleLock(p)
      PROVE  OneOnTheWay' /\ LockOwned' /\ LogsOwned' /\ DeadRunsFinalized'
  BY <1>t, <1>i, <1>3, SMTT(30)
  DEF RemoveStaleLock, TypeOK, OneOnTheWay, LockOwned, LogsOwned, DeadRunsFinalized,
       Starting, Holding, Holders, Run, Goto
<1>4. ASSUME NEW p \in Pid, Reconcile(p)
      PROVE  OneOnTheWay' /\ LockOwned' /\ LogsOwned' /\ DeadRunsFinalized'
  BY <1>t, <1>i, <1>4, SMTT(30)
  DEF Reconcile, Reconciled, TypeOK, OneOnTheWay, LockOwned, LogsOwned, DeadRunsFinalized,
       Starting, Holding, Holders, Run, Goto
<1>5. ASSUME NEW p \in Pid, CreateLock(p)
      PROVE  OneOnTheWay' /\ LockOwned' /\ LogsOwned' /\ DeadRunsFinalized'
  BY <1>t, <1>i, <1>5, SMTT(30)
  DEF CreateLock, TypeOK, OneOnTheWay, LockOwned, LogsOwned, DeadRunsFinalized,
       Starting, Holding, Holders, Run, Goto
<1>6. ASSUME NEW p \in Pid, WriteLock(p)
      PROVE  OneOnTheWay' /\ LockOwned' /\ LogsOwned' /\ DeadRunsFinalized'
  BY <1>t, <1>i, <1>6, SMTT(30)
  DEF WriteLock, TypeOK, OneOnTheWay, LockOwned, LogsOwned, DeadRunsFinalized,
       Starting, Holding, Holders, Run, Goto
<1>7. ASSUME NEW p \in Pid, SaveRunning(p)
      PROVE  OneOnTheWay' /\ LockOwned' /\ LogsOwned' /\ DeadRunsFinalized'
  BY <1>t, <1>i, <1>7, SMTT(30)
  DEF SaveRunning, SaveLog, TypeOK, OneOnTheWay, LockOwned, LogsOwned, DeadRunsFinalized,
       Starting, Holding, Holders, Run, Goto
<1>8. ASSUME NEW p \in Pid, RegisterCleanup(p)
      PROVE  OneOnTheWay' /\ LockOwned' /\ LogsOwned' /\ DeadRunsFinalized'
  BY <1>t, <1>i, <1>8, SMTT(30)
  DEF RegisterCleanup, TypeOK, OneOnTheWay, LockOwned, LogsOwned, DeadRunsFinalized,
       Starting, Holding, Holders, Run, Goto
<1>9. ASSUME NEW p \in Pid, LoopReturns(p)
      PROVE  OneOnTheWay' /\ LockOwned' /\ LogsOwned' /\ DeadRunsFinalized'
  BY <1>t, <1>i, <1>9, SMTT(30)
  DEF LoopReturns, TypeOK, OneOnTheWay, LockOwned, LogsOwned, DeadRunsFinalized,
       Starting, Holding, Holders, Run, Goto
<1>10. ASSUME NEW p \in Pid, SaveFinal(p)
      PROVE  OneOnTheWay' /\ LockOwned' /\ LogsOwned' /\ DeadRunsFinalized'
  BY <1>t, <1>i, <1>10, SMTT(30)
  DEF SaveFinal, SaveLog, TypeOK, OneOnTheWay, LockOwned, LogsOwned, DeadRunsFinalized,
       Starting, Holding, Holders, Run, Goto
<1>11. ASSUME NEW p \in Pid, ReleaseLock(p)
      PROVE  OneOnTheWay' /\ LockOwned' /\ LogsOwned' /\ DeadRunsFinalized'
  BY <1>t, <1>i, <1>11, SMTT(30)
  DEF ReleaseLock, TypeOK, OneOnTheWay, LockOwned, LogsOwned, DeadRunsFinalized,
       Starting, Holding, Holders, Run, Goto
<1>12. ASSUME NEW p \in Pid, Signal(p)
      PROVE  OneOnTheWay' /\ LockOwned' /\ LogsOwned' /\ DeadRunsFinalized'
  BY <1>t, <1>i, <1>12, SMTT(30)
  DEF Signal, SaveLog, TypeOK, OneOnTheWay, LockOwned, LogsOwned, DeadRunsFinalized,
       Starting, Holding, Holders, Run, Goto
<1>13. ASSUME NEW p \in Pid, Kill(p)
      PROVE  OneOnTheWay' /\ LockOwned' /\ LogsOwned' /\ DeadRunsFinalized'
  BY <1>t, <1>i, <1>13, SMTT(30)
  DEF Kill, TypeOK, OneOnTheWay, LockOwned, LogsOwned, DeadRunsFinalized,
       Starting, Holding, Holders, Run, Goto
<1>14. ASSUME NEW p \in Pid, ForeignStart(p)
      PROVE  OneOnTheWay' /\ LockOwned' /\ LogsOwned' /\ DeadRunsFinalized'
  BY <1>t, <1>i, <1>14, SMTT(30)
  DEF ForeignStart, TypeOK, OneOnTheWay, LockOwned, LogsOwned, DeadRunsFinalized,
       Starting, Holding, Holders, Run, Goto
<1>15. ASSUME NEW p \in Pid, ForeignExit(p)
      PROVE  OneOnTheWay' /\ LockOwned' /\ LogsOwned' /\ DeadRunsFinalized'
  BY <1>t, <1>i, <1>15, SMTT(30)
  DEF ForeignExit, TypeOK, OneOnTheWay, LockOwned, LogsOwned, DeadRunsFinalized,
       Starting, Holding, Holders, Run, Goto
<1>16. CASE ResetLock
  BY <1>t, <1>i, <1>16, SMTT(30)
  DEF Inv, ResetLock, LockUndisturbed, TypeOK, OneOnTheWay, LockOwned, LogsOwned, DeadRunsFinalized,
       Starting, Holding, Holders, Run, Goto
<1>17. CASE ResetChecks
  BY <1>t, <1>i, <1>17, SMTT(30)
  DEF Inv, ResetChecks, LockedByLive, LockedByDead, IsPidAlive, TypeOK, OneOnTheWay, LockOwned, LogsOwned, DeadRunsFinalized,
       Starting, Holding, Holders, Run, Goto
<1>18. CASE ResetUnlinks
  BY <1>t, <1>i, <1>18, SMTT(30)
  DEF Inv, ResetUnlinks, TypeOK, OneOnTheWay, LockOwned, LogsOwned, DeadRunsFinalized,
       Starting, Holding, Holders, Run, Goto
<1>19. CASE ResetReconciles
  BY <1>t, <1>i, <1>19, SMTT(30)
  DEF Inv, ResetReconciles, Reconciled, TypeOK, OneOnTheWay, LockOwned, LogsOwned, DeadRunsFinalized,
       Starting, Holding, Holders, Run, Goto
<1>20. CASE UNCHANGED vars
  BY <1>t, <1>i, <1>20 DEF Inv, vars, TypeOK, OneOnTheWay, LockOwned, LogsOwned, DeadRunsFinalized,
       Starting, Holding, Holders, Run, Goto
<1> QED
  BY <1>t, <1>1, <1>2, <1>3, <1>4, <1>5, <1>6, <1>7, <1>8, <1>9, <1>10, <1>11, <1>12, <1>13, <1>14, <1>15, <1>16, <1>17, <1>18, <1>19, <1>20
  DEF Inv, Next, Enter, Hold, Fault, Reset

-----------------------------------------------------------------------------
\* Every reachable state is of the declared type, with or without the
\* assumption on the operator.
THEOREM LockTypeCorrectness == Spec => []TypeOK
<1>1. Init => TypeOK
  BY InitInv DEF Inv
<1> QED
  BY <1>1, TypeStep, PTL DEF Spec

LEMMA AlwaysInv == ASSUME OneAtATime PROVE Spec => []Inv
  BY InitInv, InvStep, OneAtATime, PTL DEF Spec

LEMMA InvExclusive == Inv => MutualExclusion
  BY DEF Inv, LockOwned, MutualExclusion, Holders

\* Two runs never hold the lock at a time: the owner of the lock is alive, so
\* a start that passes the test finds no holder, and none can come before it
\* has written its own pid.
THEOREM LockExcludes == ASSUME OneAtATime PROVE Spec => []MutualExclusion
  BY AlwaysInv, InvExclusive, PTL

\* The dashboard, which reads the lock, shows a live run as running.
THEOREM DashboardSeesTheRun == ASSUME OneAtATime PROVE Spec => []StatusTruthful
<1>1. Inv => StatusTruthful
  BY LockAssumption DEF Inv, LockOwned, StatusTruthful, LoopStatus, Holders,
     LockedByLive, IsPidAlive, Holding
<1> QED
  BY <1>1, AlwaysInv, PTL

\* By the time a run begins, the logs of all dead runs are finalized.
THEOREM HistoryIsFinal == ASSUME OneAtATime PROVE Spec => []DeadRunsFinalized
<1>1. Inv => DeadRunsFinalized
  BY DEF Inv
<1> QED
  BY <1>1, AlwaysInv, PTL

\* A run log that has a final status keeps it.
THEOREM FinalIsFinal == ASSUME OneAtATime PROVE Spec => FinalStatusKept
<1>1. ASSUME Inv, [Next]_vars, NEW r \in Run, log[r] \in FinalStatus
      PROVE  log'[r] = log[r]
  <2>1. log[r] \notin {"none", "running"}
    BY <1>1 DEF FinalStatus
  <2>2. CASE \E p \in Pid : SaveRunning(p) \/ SaveFinal(p) \/ Signal(p)
    <3>1. PICK p \in Pid : SaveRunning(p) \/ SaveFinal(p) \/ Signal(p)
      BY <2>2
    <3>2. pc[p] \in {"save", "finish", "loop"}
      BY <3>1 DEF SaveRunning, SaveFinal, Signal
    <3>3. log[run[p]] \in {"none", "running"}
      BY <1>1, <3>2 DEF Inv, LogsOwned, Starting
    <3>4. \E status : SaveLog(p, status)
      BY <3>1 DEF SaveRunning, SaveFinal, Signal
    <3> QED
      BY <1>1, <2>1, <3>3, <3>4 DEF SaveLog, Inv, TypeOK
  <2>3. CASE ResetReconciles \/ \E p \in Pid : Reconcile(p)
    BY <1>1, <2>1, <2>3 DEF ResetReconciles, Reconcile, Reconciled
  <2>4. CASE UNCHANGED log
    BY <2>4
  <2> QED
    BY <1>1, <2>2, <2>3, <2>4 DEF vars, Next, Enter, Hold, Fault, Reset, Start,
       CheckLock, RemoveStaleLock, CreateLock, WriteLock, RegisterCleanup,
       LoopReturns, ReleaseLock, Kill, ResetLock, ResetChecks, ResetUnlinks,
       ForeignStart, ForeignExit
<1>2. Inv /\ [Next]_vars => [\A r \in Run : log[r] \in FinalStatus => log'[r] = log[r]]_vars
  BY <1>1
<1> QED
  BY <1>2, AlwaysInv, PTL DEF Spec, FinalStatusKept

LEMMA CurrentIsHolder ==
  Inv => \A p \in Pid : pc[p] \in Holding => Current = run[p] /\ Current \in Run
<1> SUFFICES ASSUME Inv, NEW p \in Pid, pc[p] \in Holding
             PROVE  Current = run[p] /\ Current \in Run
  OBVIOUS
<1>1. (CHOOSE q \in Pid : pc[q] \in Holding) = p
  BY InvExclusive DEF MutualExclusion, Holders
<1>2. Current = run[p]
  BY <1>1 DEF Current, Holders
<1>3. run[p] \in Run
  BY DEF Inv, TypeOK, LogsOwned, Holding, Run
<1> QED
  BY <1>2, <1>3

\* A step moves one process at most, and a live one keeps its run.
LEMMA StepMovesOne ==
  ASSUME Inv, [Next]_vars, NEW q \in Pid
  PROVE  /\ \E s \in Pid : \A t \in Pid \ {s} : pc'[t] = pc[t]
         /\ pc[q] # "off" => run'[q] = run[q]
<1>1. ASSUME NEW s \in Pid, Enter(s) \/ Hold(s) \/ Fault(s)
      PROVE  /\ \A t \in Pid \ {s} : pc'[t] = pc[t]
             /\ pc[q] # "off" => run'[q] = run[q]
  BY <1>1 DEF Inv, TypeOK, Goto, Enter, Hold, Fault, Start, CheckLock, RemoveStaleLock,
     Reconcile, CreateLock, WriteLock, SaveRunning, RegisterCleanup, LoopReturns,
     SaveFinal, ReleaseLock, Signal, Kill, ForeignStart, ForeignExit
<1>2. CASE Reset \/ UNCHANGED vars
  BY <1>2 DEF Reset, ResetLock, ResetChecks, ResetUnlinks, ResetReconciles, vars
<1> QED
  BY <1>1, <1>2 DEF Next

\* The lock implements the exclusive runs: a step begins a run when there is
\* none, ends the one there is, or changes nothing of it.
THEOREM LockImplementsExclusiveRuns == ASSUME OneAtATime PROVE Spec => RunsExclusive
<1>1. Init => Exclusive!Init
  BY DEF Init, Exclusive!Init, Current, Holders, Holding
<1>2. ASSUME Inv, Inv', [Next]_vars PROVE [Exclusive!Next]_Current
  <2>0. (\A p \in Pid : pc[p] \in Holding => Current = run[p] /\ Current \in Run)'
    BY <1>2, CurrentIsHolder, PTL
  <2>1. CASE Holders = {} /\ Holders' = {}
    BY <2>1 DEF Current
  <2>2. CASE Holders = {} /\ Holders' # {}
    <3>1. PICK p \in Pid : pc'[p] \in Holding
      BY <2>2 DEF Holders
    <3>2. Current' \in Run
      BY <2>0, <3>1 DEF Run
    <3> QED
      BY <2>2, <3>2 DEF Current, Exclusive!Next, Exclusive!Begin
  <2>3. CASE Holders # {} /\ Holders' = {}
    <3>1. Current \in Run
      BY <1>2, <2>3, CurrentIsHolder DEF Holders
    <3> QED
      BY <2>3, <3>1, LockAssumption DEF Current, Exclusive!Next, Exclusive!End, Run
  <2>4. CASE Holders # {} /\ Holders' # {}
    <3>1. PICK p \in Pid, q \in Pid : pc[p] \in Holding /\ pc'[q] \in Holding
      BY <2>4 DEF Holders
    <3>2. Current = run[p] /\ Current' = run'[q]
      BY <1>2, <2>0, <3>1, CurrentIsHolder
    <3>3. PICK s \in Pid : \A t \in Pid \ {s} : pc'[t] = pc[t]
      BY <1>2, <3>1, StepMovesOne
    <3>4. p = q
      <4>1. CASE q = s
        <5>1. p # s => pc'[p] \in Holding
          BY <3>1, <3>3
        <5>2. MutualExclusion'
          BY <1>2, InvExclusive, PTL
        <5> QED
          BY <3>1, <4>1, <5>1, <5>2 DEF MutualExclusion, Holders
      <4>2. CASE q # s
        BY <1>2, <3>1, <3>3, <4>2, InvExclusive DEF MutualExclusion, Holders
      <4> QED
        BY <4>1, <4>2
    <3>5. run'[p] = run[p]
      BY <1>2, <3>1, StepMovesOne DEF Holding
    <3> QED
      BY <3>2, <3>4, <3>5
  <2> QED
    BY <2>1, <2>2, <2>3, <2>4
<1> QED
  BY <1>1, <1>2, AlwaysInv, PTL DEF Spec, RunsExclusive, Exclusive!Spec

=============================================================================
