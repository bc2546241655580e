------------------------ MODULE DashboardLoop_proofs ------------------------
(***************************************************************************)
(* The dashboard runs one workflow at a time and leaves no subprocess      *)
(* behind, and the flags of earlier runs mean nothing to a later one, for  *)
(* every number of starts, subprocesses and requests.                      *)
(***************************************************************************)
EXTENDS DashboardLoop, TLAPS, FiniteSetTheorems

-----------------------------------------------------------------------------
(***************************************************************************)
(* The inductive invariants.                                               *)
(***************************************************************************)
\* The points of a task at which it has a subprocess.
Reading == {"read", "wait", "cancel"}

\* The active task is the latest one, the process it has is the current one,
\* and a subprocess that is alive is the current one of a task that has it.
TaskInv ==
    /\ ActiveTasks \subseteq {server.loopTask}
    /\ server.loopTask = None => ~server.loopRunning /\ stop.at = "idle"
    /\ \A t \in Task : task[t] \in Reading => reads[t] = Current /\ Current # None
    /\ \A c \in Alive :
            c = Current /\ server.loopTask # None /\ task[server.loopTask] \in Reading

\* Once a run has removed the flags, one that exists was asked for while it
\* was alive; a run that has an exit code is over.
FlagInv ==
    /\ \A c \in Child : child[c] \in UpAndRunning =>
            /\ pauseFlag => "pause" \in asked[c]
            /\ stopFlag => "stop" \in asked[c]
    /\ \A c \in Child : child[c] \in InPause => "pause" \in asked[c]
    /\ \A c \in exitOk : child[c] \in {"exiting", "exited"}

LEMMA Initially == Init => TypeOK /\ TaskInv /\ FlagInv
BY DashboardAssumption
   DEF Init, TypeOK, TaskInv, FlagInv, ActiveTasks, Alive, Task, Child, None,
       InPause, UpAndRunning, Reading, Current

-----------------------------------------------------------------------------
(***************************************************************************)
(* Lemmas about what the steps share.                                      *)
(***************************************************************************)
LEMMA RequestedType ==
    ASSUME TypeOK, Requested
    PROVE  requests' \in 0..MaxRequests
BY DashboardAssumption DEF TypeOK, Requested

LEMMA ChildGoesType ==
    ASSUME TypeOK, NEW c \in Child, NEW l \in {"exited"} \cup UpAndRunning,
           ChildGoes(c, l)
    PROVE  /\ child' \in [Child -> {"none", "starting", "exiting", "exited"}
                                       \cup UpAndRunning]
           /\ exitOk' \subseteq Child
BY DEF TypeOK, ChildGoes

LEMMA ExitsType ==
    ASSUME TypeOK, NEW c \in Child, NEW ok \in BOOLEAN, Exits(c, ok)
    PROVE  /\ child' \in [Child -> {"none", "starting", "exiting", "exited"}
                                       \cup UpAndRunning]
           /\ exitOk' \subseteq Child
BY DEF TypeOK, Exits

\* A task whose subprocess is gone ends, or goes on to its next check.
LEMMA TaskLetsGo ==
    ASSUME TypeOK, TaskInv, NEW t \in Task, Alive = {}, t = server.loopTask,
           \/ LoopEnded(t)
           \/ task' = [task EXCEPT ![t] = "ended"] /\ UNCHANGED server
           \/ task' = [task EXCEPT ![t] = "launch"] /\ UNCHANGED server
           \/ task' = [task EXCEPT ![t] = "check"] /\ UNCHANGED server,
           UNCHANGED <<reads, childVars, stop>>
    PROVE  TaskInv'
<1>1. Alive' = {}
  BY DEF Alive, childVars
<1>2. /\ server'.loopTask = server.loopTask
      /\ server'.currentProcess = server.currentProcess
      /\ server'.loopRunning => server.loopRunning
  BY DEF LoopEnded, TypeOK
<1>3. /\ task' \in [Task -> {"none", "check", "launch", "read", "wait", "cancel",
                             "ended"}]
      /\ task'[t] \in {"check", "launch", "ended"}
      /\ \A u \in Task \ {t} : task'[u] = task[u]
  BY DEF LoopEnded, TypeOK
<1>. QED
  BY <1>1, <1>2, <1>3 DEF TaskInv, ActiveTasks, Current, Reading, None

\* No task has a subprocess that is alive once the current one has exited.
LEMMA NoneAlive ==
    ASSUME TypeOK, TaskInv, NEW t \in Task,
           \/ task[t] \in {"check", "launch"}
           \/ task[t] \in {"wait", "cancel"} /\ CurrentExited
    PROVE  Alive = {} /\ t = server.loopTask
<1>1. t = server.loopTask
  BY DEF TaskInv, ActiveTasks, TypeOK
<1>2. \A c \in Alive : c = Current /\ task[t] \in Reading
  BY <1>1 DEF TaskInv
<1>3. CASE task[t] \in {"check", "launch"}
  BY <1>1, <1>2, <1>3 DEF Reading
<1>4. CASE CurrentExited
  BY <1>1, <1>2, <1>4 DEF CurrentExited, Alive, UpAndRunning, InPause
<1>. QED
  BY <1>3, <1>4
-----------------------------------------------------------------------------
(***************************************************************************)
(* The types, action by action.                                            *)
(***************************************************************************)
LEMMA UserKeepsTypeOK ==
    ASSUME TypeOK, User
    PROVE  TypeOK'
<1>. USE DEF TypeOK, Task, Child, None, serverVars, childVars, flagVars,
   UpAndRunning, InPause, Current
<1>1. CASE StartLoop
  BY <1>1 DEF StartLoop
<1>2. CASE PauseLoop
  BY <1>2, RequestedType DEF PauseLoop, Asks
<1>3. CASE ResumeLoop
  BY <1>3, RequestedType DEF ResumeLoop
<1>4. CASE StopLoop
  BY <1>4 DEF StopLoop
<1>. QED
  BY <1>1, <1>2, <1>3, <1>4 DEF User

LEMMA StopHandlerKeepsTypeOK ==
    ASSUME TypeOK, StopHandler
    PROVE  TypeOK'
<1>. USE DEF TypeOK, Task, Child, None, serverVars, childVars, flagVars,
   UpAndRunning, InPause, Current
<1>1. CASE StopTouches
  BY <1>1 DEF StopTouches, Asks
<1>2. CASE StopUnlinks
  BY <1>2 DEF StopUnlinks
<1>3. CASE StopTerminates
  BY <1>3 DEF StopTerminates, Signal, CurrentExited
<1>4. CASE StopKills
  BY <1>4 DEF StopKills, Signal
<1>5. CASE StopAwaited
  BY <1>5 DEF StopAwaited
<1>6. CASE StopCancelsTask
  BY <1>6 DEF StopCancelsTask
<1>7. CASE StopReturns
  BY <1>7 DEF StopReturns
<1>. QED
  BY <1>1, <1>2, <1>3, <1>4, <1>5, <1>6, <1>7 DEF StopHandler

LEMMA TaskKeepsTypeOK ==
    ASSUME NEW t \in Task, TypeOK, TaskStep(t)
    PROVE  TypeOK'
<1>. USE DEF TypeOK, Task, Child, None, serverVars, childVars, flagVars,
   UpAndRunning, InPause, Current
<1>1. CASE TaskChecks(t)
  BY <1>1 DEF TaskChecks, LoopEnded
<1>2. CASE TaskSpawns(t)
  BY <1>2 DEF TaskSpawns
<1>3. CASE SpawnFails(t)
  BY <1>3 DEF SpawnFails
<1>4. CASE TaskSeesStop(t)
  BY <1>4 DEF TaskSeesStop, Signal
<1>5. CASE TaskReadsEnd(t)
  BY <1>5 DEF TaskReadsEnd
<1>6. CASE TaskWaited(t)
  BY <1>6 DEF TaskWaited, LoopEnded, CurrentExited
<1>7. CASE TaskTerminates(t)
  BY <1>7 DEF TaskTerminates, Signal, CurrentExited
<1>8. CASE TaskCancelled(t)
  BY <1>8 DEF TaskCancelled, LoopEnded, CurrentExited
<1>. QED
  BY <1>1, <1>2, <1>3, <1>4, <1>5, <1>6, <1>7, <1>8 DEF TaskStep

LEMMA ChildKeepsTypeOK ==
    ASSUME NEW c \in Child, TypeOK, ChildStep(c) \/ Waits(c) \/ ChildDies(c)
    PROVE  TypeOK'
<1>. USE DEF TypeOK, Task, Child, None, serverVars, childVars, flagVars,
   UpAndRunning, InPause, Current
<1>1. CASE CleanFlags(c)
  BY <1>1 DEF CleanFlags, ChildGoes
<1>2. CASE StartupFails(c)
  BY <1>2 DEF StartupFails, Exits
<1>3. CASE PhaseEnds(c)
  <2>1. exitOk' \subseteq Child /\ child' \in [Child ->
            {"none", "starting", "exiting", "exited"} \cup UpAndRunning]
    BY <1>3, ChildGoesType, ExitsType DEF PhaseEnds
  <2>. QED
    BY <1>3, <2>1 DEF PhaseEnds
<1>4. CASE Checkpoint(c)
  <2>1. exitOk' \subseteq Child /\ child' \in [Child ->
            {"none", "starting", "exiting", "exited"} \cup UpAndRunning]
    BY <1>4, ChildGoesType DEF Checkpoint
  <2>. QED
    BY <1>4, <2>1 DEF Checkpoint
<1>5. CASE WaitChecksPause(c)
  BY <1>5 DEF WaitChecksPause, ChildGoes
<1>6. CASE WaitChecksStop(c)
  <2>1. exitOk' \subseteq Child /\ child' \in [Child ->
            {"none", "starting", "exiting", "exited"} \cup UpAndRunning]
    BY <1>6, ChildGoesType, ExitsType DEF WaitChecksStop
  <2>. QED
    BY <1>6, <2>1 DEF WaitChecksStop
<1>7. CASE NextPhase(c)
  <2>1. exitOk' \subseteq Child /\ child' \in [Child ->
            {"none", "starting", "exiting", "exited"} \cup UpAndRunning]
    BY <1>7, ChildGoesType, ExitsType DEF NextPhase
  <2>. QED
    BY <1>7, <2>1 DEF NextPhase
<1>8. CASE ChildExits(c)
  BY <1>8 DEF ChildExits, ChildGoes
<1>9. CASE WaitSleeps(c)
  BY <1>9 DEF WaitSleeps, ChildGoes
<1>10. CASE WaitTimesOut(c)
  BY <1>10 DEF WaitTimesOut, ChildGoes
<1>11. CASE ChildDies(c)
  BY <1>11 DEF ChildDies, Alive
<1>. QED
  BY <1>1, <1>2, <1>3, <1>4, <1>5, <1>6, <1>7, <1>8, <1>9, <1>10, <1>11 DEF
     ChildStep, Waits

LEMMA IpcKeepsTypeOK ==
    ASSUME NEW c \in Child, TypeOK, Ipc(c)
    PROVE  TypeOK'
<1>. USE DEF TypeOK, Task, Child, None, serverVars, childVars, flagVars,
   UpAndRunning, InPause, Current
<1>1. CASE IpcPause(c)
  BY <1>1, RequestedType DEF IpcPause, Asks
<1>2. CASE IpcResume(c)
  BY <1>2, RequestedType DEF IpcResume
<1>3. CASE IpcStop(c)
  <2>1. exitOk' \subseteq Child /\ child' \in [Child ->
            {"none", "starting", "exiting", "exited"} \cup UpAndRunning]
    BY <1>3, ExitsType DEF IpcStop
  <2>. QED
    BY <1>3, <2>1, RequestedType DEF IpcStop
<1>. QED
  BY <1>1, <1>2, <1>3 DEF Ipc

-----------------------------------------------------------------------------
(***************************************************************************)
(* The tasks and what is alive, action by action.                          *)
(***************************************************************************)
LEMMA UserKeepsTaskInv ==
    ASSUME TypeOK, TaskInv, ~StartEarly, User
    PROVE  TaskInv'
<1>. USE DEF TypeOK, TaskInv, ActiveTasks, Alive, Reading, Current, Task,
   Child, None, serverVars, childVars, flagVars, UpAndRunning, InPause,
   CurrentExited, EventLoopFree
<1>1. CASE StartLoop
  BY <1>1 DEF StartLoop
<1>2. CASE PauseLoop
  BY <1>2 DEF PauseLoop, Asks, Requested
<1>3. CASE ResumeLoop
  BY <1>3 DEF ResumeLoop, Requested
<1>4. CASE StopLoop
  BY <1>4 DEF StopLoop
<1>. QED
  BY <1>1, <1>2, <1>3, <1>4 DEF User

LEMMA StopHandlerKeepsTaskInv ==
    ASSUME TypeOK, TaskInv, StopHandler
    PROVE  TaskInv'
<1>. USE DEF TypeOK, TaskInv, ActiveTasks, Alive, Reading, Current, Task,
   Child, None, serverVars, childVars, flagVars, UpAndRunning, InPause,
   CurrentExited, EventLoopFree
<1>1. CASE StopTouches
  BY <1>1 DEF StopTouches, Asks
<1>2. CASE StopUnlinks
  BY <1>2 DEF StopUnlinks
<1>3. CASE StopTerminates
  BY <1>3 DEF StopTerminates, Signal
<1>4. CASE StopKills
  BY <1>4 DEF StopKills, Signal
<1>5. CASE StopAwaited
  BY <1>5 DEF StopAwaited
<1>6. CASE StopCancelsTask
  BY <1>6 DEF StopCancelsTask
<1>7. CASE StopReturns
  BY <1>7 DEF StopReturns
<1>. QED
  BY <1>1, <1>2, <1>3, <1>4, <1>5, <1>6, <1>7 DEF StopHandler

LEMMA TaskKeepsTaskInv ==
    ASSUME NEW t \in Task, TypeOK, TaskInv, TaskStep(t)
    PROVE  TaskInv'
<1>. USE DEF TypeOK, TaskInv, ActiveTasks, Alive, Reading, Current, Task,
   Child, None, serverVars, childVars, flagVars, UpAndRunning, InPause,
   CurrentExited, EventLoopFree
<1>1. CASE TaskChecks(t)
  <2>1. Alive = {} /\ t = server.loopTask
    BY <1>1, NoneAlive DEF TaskChecks
  <2>. QED
    BY ONLY TypeOK, TaskInv, t \in Task, <1>1, <2>1, TaskLetsGo DEF TaskChecks
<1>2. CASE TaskSpawns(t)
  BY <1>2 DEF TaskSpawns
<1>3. CASE SpawnFails(t)
  BY <1>3 DEF SpawnFails
<1>4. CASE TaskSeesStop(t)
  BY <1>4 DEF TaskSeesStop, Signal
<1>5. CASE TaskReadsEnd(t)
  BY <1>5 DEF TaskReadsEnd
<1>6. CASE TaskWaited(t)
  <2>1. Alive = {} /\ t = server.loopTask
    BY <1>6, NoneAlive DEF TaskWaited
  <2>. QED
    BY ONLY TypeOK, TaskInv, t \in Task, <1>6, <2>1, TaskLetsGo DEF TaskWaited
<1>7. CASE TaskTerminates(t)
  BY <1>7 DEF TaskTerminates, Signal
<1>8. CASE TaskCancelled(t)
  <2>1. Alive = {} /\ t = server.loopTask
    BY <1>8, NoneAlive DEF TaskCancelled
  <2>. QED
    BY ONLY TypeOK, TaskInv, t \in Task, <1>8, <2>1, TaskLetsGo DEF TaskCancelled
<1>. QED
  BY <1>1, <1>2, <1>3, <1>4, <1>5, <1>6, <1>7, <1>8 DEF TaskStep

LEMMA ChildKeepsTaskInv ==
    ASSUME NEW c \in Child, TypeOK, TaskInv, ChildStep(c) \/ Waits(c) \/ ChildDies(c)
    PROVE  TaskInv'
<1>. USE DEF TypeOK, TaskInv, ActiveTasks, Alive, Reading, Current, Task,
   Child, None, serverVars, childVars, flagVars, UpAndRunning, InPause,
   CurrentExited, EventLoopFree
<1>1. CASE CleanFlags(c)
  BY <1>1 DEF CleanFlags, ChildGoes
<1>2. CASE StartupFails(c)
  BY <1>2 DEF StartupFails, Exits
<1>3. CASE PhaseEnds(c)
  BY <1>3 DEF PhaseEnds, ChildGoes, Exits
<1>4. CASE Checkpoint(c)
  BY <1>4 DEF Checkpoint, ChildGoes
<1>5. CASE WaitChecksPause(c)
  BY <1>5 DEF WaitChecksPause, ChildGoes
<1>6. CASE WaitChecksStop(c)
  BY <1>6 DEF WaitChecksStop, ChildGoes, Exits
<1>7. CASE NextPhase(c)
  BY <1>7 DEF NextPhase, ChildGoes, Exits
<1>8. CASE ChildExits(c)
  BY <1>8 DEF ChildExits, ChildGoes
<1>9. CASE WaitSleeps(c)
  BY <1>9 DEF WaitSleeps, ChildGoes
<1>10. CASE WaitTimesOut(c)
  BY <1>10 DEF WaitTimesOut, ChildGoes
<1>11. CASE ChildDies(c)
  BY <1>11 DEF ChildDies
<1>. QED
  BY <1>1, <1>2, <1>3, <1>4, <1>5, <1>6, <1>7, <1>8, <1>9, <1>10, <1>11 DEF
     ChildStep, Waits

LEMMA IpcKeepsTaskInv ==
    ASSUME NEW c \in Child, TypeOK, TaskInv, Ipc(c)
    PROVE  TaskInv'
<1>. USE DEF TypeOK, TaskInv, ActiveTasks, Alive, Reading, Current, Task,
   Child, None, serverVars, childVars, flagVars, UpAndRunning, InPause,
   CurrentExited, EventLoopFree
<1>1. CASE IpcPause(c)
  BY <1>1 DEF IpcPause, Asks, Requested
<1>2. CASE IpcResume(c)
  BY <1>2 DEF IpcResume, Requested
<1>3. CASE IpcStop(c)
  BY <1>3 DEF IpcStop, Exits, Requested
<1>. QED
  BY <1>1, <1>2, <1>3 DEF Ipc

-----------------------------------------------------------------------------
(***************************************************************************)
(* The flags, action by action.                                            *)
(***************************************************************************)
LEMMA UserKeepsFlagInv ==
    ASSUME TypeOK, FlagInv, User
    PROVE  FlagInv'
<1>. USE DEF TypeOK, FlagInv, Alive, Child, serverVars, childVars, flagVars,
   UpAndRunning, InPause
<1>1. CASE StartLoop
  BY <1>1 DEF StartLoop
<1>2. CASE PauseLoop
  BY <1>2 DEF PauseLoop, Asks, Requested
<1>3. CASE ResumeLoop
  BY <1>3 DEF ResumeLoop, Requested
<1>4. CASE StopLoop
  BY <1>4 DEF StopLoop
<1>. QED
  BY <1>1, <1>2, <1>3, <1>4 DEF User

LEMMA StopHandlerKeepsFlagInv ==
    ASSUME TypeOK, FlagInv, StopHandler
    PROVE  FlagInv'
<1>. USE DEF TypeOK, FlagInv, Alive, Child, serverVars, childVars, flagVars,
   UpAndRunning, InPause
<1>1. CASE StopTouches
  BY <1>1 DEF StopTouches, Asks
<1>2. CASE StopUnlinks
  BY <1>2 DEF StopUnlinks
<1>3. CASE StopTerminates
  BY <1>3 DEF StopTerminates, Signal, CurrentExited
<1>4. CASE StopKills
  BY <1>4 DEF StopKills, Signal
<1>5. CASE StopAwaited
  BY <1>5 DEF StopAwaited
<1>6. CASE StopCancelsTask
  BY <1>6 DEF StopCancelsTask
<1>7. CASE StopReturns
  BY <1>7 DEF StopReturns
<1>. QED
  BY <1>1, <1>2, <1>3, <1>4, <1>5, <1>6, <1>7 DEF StopHandler

LEMMA TaskKeepsFlagInv ==
    ASSUME NEW t \in Task, TypeOK, FlagInv, TaskStep(t)
    PROVE  FlagInv'
<1>. USE DEF TypeOK, FlagInv, Alive, Child, serverVars, childVars, flagVars,
   UpAndRunning, InPause
<1>1. CASE TaskChecks(t)
  BY <1>1 DEF TaskChecks, LoopEnded
<1>2. CASE TaskSpawns(t)
  BY <1>2 DEF TaskSpawns
<1>3. CASE SpawnFails(t)
  BY <1>3 DEF SpawnFails
<1>4. CASE TaskSeesStop(t)
  BY <1>4 DEF TaskSeesStop, Signal
<1>5. CASE TaskReadsEnd(t)
  BY <1>5 DEF TaskReadsEnd
<1>6. CASE TaskWaited(t)
  BY <1>6 DEF TaskWaited, LoopEnded, CurrentExited
<1>7. CASE TaskTerminates(t)
  BY <1>7 DEF TaskTerminates, Signal, CurrentExited
<1>8. CASE TaskCancelled(t)
  BY <1>8 DEF TaskCancelled, LoopEnded, CurrentExited
<1>. QED
  BY <1>1, <1>2, <1>3, <1>4, <1>5, <1>6, <1>7, <1>8 DEF TaskStep

LEMMA ChildKeepsFlagInv ==
    ASSUME NEW c \in Child, TypeOK, FlagInv, ChildStep(c) \/ Waits(c) \/ ChildDies(c)
    PROVE  FlagInv'
<1>. USE DEF TypeOK, FlagInv, Alive, Child, serverVars, childVars, flagVars,
   UpAndRunning, InPause
<1>1. CASE CleanFlags(c)
  BY <1>1 DEF CleanFlags, ChildGoes
<1>2. CASE StartupFails(c)
  BY <1>2 DEF StartupFails, Exits
<1>3. CASE PhaseEnds(c)
  BY <1>3 DEF PhaseEnds, ChildGoes, Exits
<1>4. CASE Checkpoint(c)
  <2>1. CASE ChildGoes(c, "next")
    BY <1>4, <2>1 DEF Checkpoint, ChildGoes
  <2>2. CASE pauseFlag /\ ChildGoes(c, "waiting") /\ UNCHANGED pauseFlag
    BY <1>4, <2>2 DEF Checkpoint, ChildGoes
  <2>. QED
    BY <1>4, <2>1, <2>2 DEF Checkpoint
<1>5. CASE WaitChecksPause(c)
  BY <1>5 DEF WaitChecksPause, ChildGoes
<1>6. CASE WaitChecksStop(c)
  <2>1. CASE stopFlag /\ Exits(c, TRUE)
    BY <1>6, <2>1 DEF WaitChecksStop, Exits
  <2>2. CASE ~stopFlag /\ ChildGoes(c, "timeout?")
    BY <1>6, <2>2 DEF WaitChecksStop, ChildGoes
  <2>. QED
    BY <1>6, <2>1, <2>2 DEF WaitChecksStop
<1>7. CASE NextPhase(c)
  <2>1. CASE ChildGoes(c, "phase")
    BY <1>7, <2>1 DEF NextPhase, ChildGoes
  <2>2. CASE Exits(c, TRUE)
    BY <1>7, <2>2 DEF NextPhase, Exits
  <2>. QED
    BY <1>7, <2>1, <2>2 DEF NextPhase
<1>8. CASE ChildExits(c)
  BY <1>8 DEF ChildExits, ChildGoes
<1>9. CASE WaitSleeps(c)
  BY <1>9 DEF WaitSleeps, ChildGoes
<1>10. CASE WaitTimesOut(c)
  BY <1>10 DEF WaitTimesOut, ChildGoes
<1>11. CASE ChildDies(c)
  BY <1>11 DEF ChildDies
<1>. QED
  BY <1>1, <1>2, <1>3, <1>4, <1>5, <1>6, <1>7, <1>8, <1>9, <1>10, <1>11 DEF
     ChildStep, Waits

LEMMA IpcKeepsFlagInv ==
    ASSUME NEW c \in Child, TypeOK, FlagInv, Ipc(c)
    PROVE  FlagInv'
<1>. USE DEF TypeOK, FlagInv, Alive, Child, serverVars, childVars, flagVars,
   UpAndRunning, InPause
<1>1. CASE IpcPause(c)
  BY <1>1 DEF IpcPause, Asks, Requested
<1>2. CASE IpcResume(c)
  BY <1>2 DEF IpcResume, Requested
<1>3. CASE IpcStop(c)
  BY <1>3 DEF IpcStop, Exits, Requested
<1>. QED
  BY <1>1, <1>2, <1>3 DEF Ipc

-----------------------------------------------------------------------------
(***************************************************************************)
(* The theorems.                                                           *)
(***************************************************************************)
LEMMA NextCases ==
    ASSUME Next
    PROVE  \/ User \/ StopHandler
           \/ \E t \in Task : TaskStep(t)
           \/ \E c \in Child : ChildStep(c) \/ Waits(c) \/ ChildDies(c)
           \/ \E c \in Child : Ipc(c)
BY DEF Next

LEMMA NextKeepsType == TypeOK /\ [Next]_vars => TypeOK'
<1>. SUFFICES ASSUME TypeOK, [Next]_vars PROVE TypeOK'
  OBVIOUS
<1>1. CASE Next
  BY <1>1, NextCases, UserKeepsTypeOK, StopHandlerKeepsTypeOK, TaskKeepsTypeOK,
     ChildKeepsTypeOK, IpcKeepsTypeOK
<1>2. CASE UNCHANGED vars
  BY <1>2 DEF vars, serverVars, TypeOK
<1>. QED
  BY <1>1, <1>2

LEMMA NextKeepsFlags == TypeOK /\ FlagInv /\ [Next]_vars => FlagInv'
<1>. SUFFICES ASSUME TypeOK, FlagInv, [Next]_vars PROVE FlagInv'
  OBVIOUS
<1>1. CASE Next
  BY <1>1, NextCases, UserKeepsFlagInv, StopHandlerKeepsFlagInv, TaskKeepsFlagInv,
     ChildKeepsFlagInv, IpcKeepsFlagInv
<1>2. CASE UNCHANGED vars
  BY <1>2 DEF vars, FlagInv
<1>. QED
  BY <1>1, <1>2

LEMMA NextKeepsTasks ==
    ASSUME ~StartEarly
    PROVE  TypeOK /\ TaskInv /\ [Next]_vars => TaskInv'
<1>. SUFFICES ASSUME TypeOK, TaskInv, [Next]_vars PROVE TaskInv'
  OBVIOUS
<1>1. CASE Next
  BY <1>1, NextCases, UserKeepsTaskInv, StopHandlerKeepsTaskInv, TaskKeepsTaskInv,
     ChildKeepsTaskInv, IpcKeepsTaskInv
<1>2. CASE UNCHANGED vars
  BY <1>2 DEF vars, serverVars, TaskInv, ActiveTasks, Alive, Current
<1>. QED
  BY <1>1, <1>2

\* The server, its tasks, its subprocesses and the flags stay well formed: a
\* task reads a subprocess that was created, a stop waits for one, and the
\* requests of a run are the two there are.
THEOREM DashboardTypes == Spec => []TypeOK
BY Initially, NextKeepsType, PTL DEF Spec

\* With the user starting the loop again only when the end of the earlier one
\* was reported: the active task is the latest, has the current process, and
\* nothing else is alive.
LEMMA TaskInvariance ==
    ASSUME ~StartEarly
    PROVE  Spec => []TaskInv
BY Initially, NextKeepsTasks, DashboardTypes, PTL DEF Spec

\* The dashboard runs one workflow at a time (_run_workflow_loop awaits the
\* process before it creates the next): at most one subprocess is alive,
\* however stops, cancellations, exits and failed starts come together.
THEOREM OneWorkflowAtATime ==
    ASSUME ~StartEarly
    PROVE  Spec => []OneWorkflow
<1>1. TaskInv => OneWorkflow
  <2>. SUFFICES ASSUME TaskInv PROVE Cardinality(Alive) <= 1
    BY DEF OneWorkflow
  <2>1. CASE Alive = {}
    BY <2>1, FS_EmptySet
  <2>2. CASE Alive # {}
    <3>1. Alive = {Current}
      BY <2>2 DEF TaskInv
    <3>. QED
      BY <3>1, FS_Singleton
  <2>. QED
    BY <2>1, <2>2
<1>. QED
  BY <1>1, TaskInvariance, PTL

\* A subprocess that is alive always has an active task that reads it and will
\* see its end, whatever was cancelled (stop_loop) or failed.
THEOREM NoProcessOrphaned ==
    ASSUME ~StartEarly
    PROVE  Spec => []NoOrphan
<1>1. TypeOK /\ TaskInv => NoOrphan
  BY DEF TypeOK, TaskInv, NoOrphan, ActiveTasks, Reading, None
<1>. QED
  BY <1>1, TaskInvariance, DashboardTypes, PTL

\* What the flags say: once a run has removed those of earlier runs, a flag
\* that exists was written for it.
LEMMA FlagInvariance == Spec => []FlagInv
BY Initially, NextKeepsFlags, DashboardTypes, PTL DEF Spec

\* No step both asks for something and moves a subprocess.
LEMMA AskedOrMoved == Next => UNCHANGED child \/ UNCHANGED asked
<1>. SUFFICES ASSUME Next PROVE UNCHANGED child \/ UNCHANGED asked
  OBVIOUS
<1>. USE DEF childVars
<1>1. CASE User
  BY <1>1 DEF User, StartLoop, PauseLoop, ResumeLoop, StopLoop
<1>2. CASE StopHandler
  BY <1>2 DEF StopHandler, StopTouches, StopUnlinks, StopTerminates, StopKills,
     StopAwaited, StopCancelsTask, StopReturns
<1>3. ASSUME NEW t \in Task, TaskStep(t) PROVE UNCHANGED asked
  BY <1>3 DEF TaskStep, TaskChecks, TaskSpawns, SpawnFails, TaskSeesStop,
     TaskReadsEnd, TaskWaited, TaskTerminates, TaskCancelled
<1>4. ASSUME NEW c \in Child, ChildStep(c) \/ Waits(c) \/ ChildDies(c)
      PROVE  UNCHANGED asked
  BY <1>4 DEF ChildStep, Waits, CleanFlags, StartupFails, PhaseEnds, Checkpoint,
     WaitChecksPause, WaitChecksStop, NextPhase, ChildExits, WaitSleeps,
     WaitTimesOut, ChildDies
<1>5. ASSUME NEW c \in Child, Ipc(c) PROVE UNCHANGED child \/ UNCHANGED asked
  BY <1>5 DEF Ipc, IpcPause, IpcResume, IpcStop
<1>. QED
  BY <1>1, <1>2, <1>3, <1>4, <1>5, NextCases

\* A subprocess ends well in its wait only by the stop flag.
LEMMA EndsInWait ==
    ASSUME TypeOK, Next, NEW c \in Child, child[c] = "stop?", c \in exitOk' \ exitOk
    PROVE  stopFlag
<1>. USE DEF childVars, ChildGoes, Exits
<1>1. ~User
  BY DEF User, StartLoop, PauseLoop, ResumeLoop, StopLoop
<1>2. ~StopHandler
  BY DEF StopHandler, StopTouches, StopUnlinks, StopTerminates, StopKills,
     StopAwaited, StopCancelsTask, StopReturns
<1>3. \A t \in Task : ~TaskStep(t)
  BY DEF TaskStep, TaskChecks, TaskSpawns, SpawnFails, TaskSeesStop,
     TaskReadsEnd, TaskWaited, TaskTerminates, TaskCancelled
<1>4. \A d \in Child : ~(Waits(d) \/ ChildDies(d) \/ Ipc(d))
  BY DEF Waits, WaitSleeps, WaitTimesOut, ChildDies, Ipc, IpcPause, IpcResume,
     IpcStop
<1>5. \A d \in Child : ChildStep(d) => d = c /\ WaitChecksStop(c)
  BY DEF ChildStep, CleanFlags, StartupFails, PhaseEnds, Checkpoint,
     WaitChecksPause, WaitChecksStop, NextPhase, ChildExits
<1>. QED
  BY <1>1, <1>2, <1>3, <1>4, <1>5, NextCases DEF WaitChecksStop

\* A run waits only if a pause was asked for while it was alive, and ends in
\* its wait only if a stop was (check_for_pause, wait_for_resume of
\* core/loop/pause.py), however early the loop is started again and whatever
\* flags a crash has left.
THEOREM StaleFlagsMeanNothing == Spec => StaleFlagsIgnored
<1>. DEFINE P == \A c \in Child :
        /\ child'[c] = "waiting" => "pause" \in asked[c]
        /\ child[c] = "stop?" /\ c \in exitOk' => "stop" \in asked[c]
<1>1. TypeOK /\ FlagInv /\ FlagInv' /\ [Next]_vars => [P]_vars
  <2>. SUFFICES ASSUME TypeOK, FlagInv, FlagInv', Next, NEW c \in Child
                PROVE  /\ child'[c] = "waiting" => "pause" \in asked[c]
                       /\ child[c] = "stop?" /\ c \in exitOk' => "stop" \in asked[c]
    OBVIOUS
  <2>1. ASSUME child'[c] = "waiting" PROVE "pause" \in asked[c]
    <3>1. CASE UNCHANGED child
      BY <2>1, <3>1 DEF FlagInv, InPause
    <3>2. CASE UNCHANGED asked
      BY <2>1, <3>2 DEF FlagInv, InPause
    <3>. QED
      BY <3>1, <3>2, AskedOrMoved
  <2>2. ASSUME child[c] = "stop?", c \in exitOk' PROVE "stop" \in asked[c]
    <3>1. c \notin exitOk
      BY <2>2 DEF FlagInv
    <3>2. stopFlag
      BY <2>2, <3>1, EndsInWait
    <3>. QED
      BY <2>2, <3>2 DEF FlagInv, UpAndRunning, InPause
  <2>. QED
    BY <2>1, <2>2
<1>2. TypeOK /\ FlagInv /\ [Next]_vars => [P]_vars
  BY <1>1, NextKeepsFlags
<1>. QED
  BY <1>2, DashboardTypes, FlagInvariance, PTL DEF Spec, StaleFlagsIgnored
=============================================================================
