--------------------------- MODULE DashboardLoop ---------------------------
(***************************************************************************)
(* The dashboard server that runs the development loop as subprocesses     *)
(* (dashboard/server.py), the pause and stop flags between them            *)
(* (core/loop/pause.py) and the IPC commands a client sends to the         *)
(* subprocess (ipc/commands.py).  The handlers of the server share one     *)
(* event loop: they interleave at their awaits only.                       *)
(***************************************************************************)
EXTENDS Integers, FiniteSets

CONSTANTS
    MaxLoops,           \* bound: how often the loop is started
    MaxChildren,        \* bound: how many subprocesses are created
    MaxRequests,        \* bound: pauses, resumes and IPC commands
    StartEarly          \* whether the user starts the loop again before the
                        \* end of the earlier one is reported

ASSUME DashboardAssumption ==
    /\ MaxLoops \in Nat /\ MaxChildren \in Nat /\ MaxRequests \in Nat
    /\ StartEarly \in BOOLEAN

VARIABLES
    server,     \* loopRunning, pauseRequested, stopRequested, the latest
                \* task and the current process of the server
    task,       \* task[t]: where the workflow loop of start t is
    reads,      \* reads[t]: the subprocess whose output task t reads
    child,      \* child[c]: where subprocess c is
    exitOk,     \* the subprocesses that exited with code 0
    signalled,  \* the subprocesses sent SIGTERM or SIGKILL
    stop,       \* where the stop request is, and the process it waits for
    pauseFlag,  \* .bmad-assist/pause.flag exists
    stopFlag,   \* .bmad-assist/stop.flag exists
    asked,      \* asked[c]: what was asked for while c was alive
    requests    \* number of pauses, resumes and IPC commands so far

serverVars == <<server, task, reads, stop>>
childVars == <<child, exitOk>>
flagVars == <<pauseFlag, stopFlag>>
vars == <<server, task, reads, child, exitOk, signalled, stop, pauseFlag,
          stopFlag, asked, requests>>

Task == 1..MaxLoops
Child == 1..MaxChildren
None == 0

InPause == {"waiting", "stop?", "timeout?"}
UpAndRunning == {"phase", "checkpoint", "next"} \cup InPause
Alive == {c \in Child : child[c] \in {"starting", "exiting"} \cup UpAndRunning}
ActiveTasks == {t \in Task : task[t] \notin {"none", "ended"}}

TypeOK ==
    /\ server \in [loopRunning : BOOLEAN, pauseRequested : BOOLEAN,
                   stopRequested : BOOLEAN, loopTask : Task \cup {None},
                   currentProcess : Child \cup {None}]
    /\ task \in [Task -> {"none", "check", "launch", "read", "wait", "cancel", "ended"}]
    /\ reads \in [Task -> Child \cup {None}]
    /\ child \in [Child -> {"none", "starting", "exiting", "exited"} \cup UpAndRunning]
    /\ exitOk \subseteq Child
    /\ signalled \subseteq Child
    /\ stop \in [at : {"idle", "touch", "unlink", "terminate", "await", "join", "joining"},
                 process : Child \cup {None}]
    /\ pauseFlag \in BOOLEAN /\ stopFlag \in BOOLEAN
    /\ asked \in [Child -> SUBSET {"pause", "stop"}]
    /\ requests \in 0..MaxRequests

Init ==
    /\ server = [loopRunning |-> FALSE, pauseRequested |-> FALSE,
                 stopRequested |-> FALSE, loopTask |-> None, currentProcess |-> None]
    /\ task = [t \in Task |-> "none"]
    /\ reads = [t \in Task |-> None]
    /\ child = [c \in Child |-> "none"]
    /\ exitOk = {}
    /\ signalled = {}
    /\ stop = [at |-> "idle", process |-> None]
    /\ pauseFlag \in BOOLEAN /\ stopFlag \in BOOLEAN  \* left by a crash
    /\ asked = [c \in Child |-> {}]
    /\ requests = 0

\* No handler is between two awaits.
EventLoopFree == stop.at \notin {"touch", "unlink", "terminate"}

Current == server.currentProcess
CurrentExited == Current # None /\ child[Current] = "exited"
\* Mutant: the process is signalled whether there is one or not.
Signal_Unchecked(c) == signalled' = signalled \cup {c}
Signal(c) == signalled' = IF c = None THEN signalled ELSE signalled \cup {c}
Asks(what) == asked' = [c \in Child |-> IF c \in Alive THEN asked[c] \cup {what} ELSE asked[c]]
Requested == requests < MaxRequests /\ requests' = requests + 1

-----------------------------------------------------------------------------
\* The request handlers of the server.

StartLoop ==
    /\ EventLoopFree
    /\ ~server.loopRunning
    /\ StartEarly \/ (stop.at = "idle" /\ ActiveTasks = {})
    /\ \E t \in Task :
        /\ task[t] = "none" /\ \A u \in Task : u < t => task[u] # "none"
        /\ server' = [server EXCEPT !.loopRunning = TRUE, !.pauseRequested = FALSE,
                                    !.stopRequested = FALSE, !.loopTask = t]
        /\ task' = [task EXCEPT ![t] = "check"]
    /\ pauseFlag' = FALSE
    /\ UNCHANGED <<reads, childVars, signalled, stop, stopFlag, asked, requests>>

PauseLoop ==
    /\ EventLoopFree
    /\ server.loopRunning /\ ~server.pauseRequested
    /\ server' = [server EXCEPT !.pauseRequested = TRUE]
    /\ pauseFlag' = TRUE
    /\ Asks("pause")
    /\ Requested
    /\ UNCHANGED <<task, reads, childVars, signalled, stop, stopFlag>>

ResumeLoop ==
    /\ EventLoopFree
    /\ server.loopRunning /\ server.pauseRequested
    /\ server' = [server EXCEPT !.pauseRequested = FALSE]
    /\ pauseFlag' = FALSE
    /\ Requested
    /\ UNCHANGED <<task, reads, childVars, signalled, stop, stopFlag, asked>>

StopLoop ==
    /\ stop.at = "idle"
    /\ server.loopRunning
    /\ server' = [server EXCEPT !.loopRunning = FALSE, !.stopRequested = TRUE]
    /\ stop' = [stop EXCEPT !.at = "touch"]
    /\ UNCHANGED <<task, reads, childVars, signalled, flagVars, asked, requests>>

StopTouches ==
    /\ stop.at = "touch"
    /\ stopFlag' = TRUE
    /\ Asks("stop")
    /\ stop' = [stop EXCEPT !.at = "unlink"]
    /\ UNCHANGED <<server, task, reads, childVars, signalled, pauseFlag, requests>>

StopUnlinks ==
    /\ stop.at = "unlink"
    /\ pauseFlag' = FALSE
    /\ stop' = [stop EXCEPT !.at = "terminate"]
    /\ UNCHANGED <<server, task, reads, childVars, signalled, stopFlag, asked, requests>>

\* terminate() of a process that is gone with its pipes raises, and the
\* request ends there.
StopTerminates ==
    /\ stop.at = "terminate"
    /\ Signal(Current)
    /\ \/ Current = None /\ stop' = [stop EXCEPT !.at = "join"]
       \/ Current # None /\ stop' = [at |-> "await", process |-> Current]
       \/ /\ CurrentExited /\ \A t \in ActiveTasks : task[t] # "read"
          /\ stop' = [stop EXCEPT !.at = "idle"]
    /\ UNCHANGED <<server, task, reads, childVars, flagVars, asked, requests>>

\* After five seconds the process that is current by then is killed.
StopKills ==
    /\ stop.at = "await"
    /\ child[stop.process] # "exited"
    /\ Signal(Current)
    /\ UNCHANGED <<serverVars, childVars, flagVars, asked, requests>>

StopAwaited ==
    /\ stop.at = "await"
    /\ child[stop.process] = "exited"
    /\ stop' = [stop EXCEPT !.at = "join"]
    /\ UNCHANGED <<server, task, reads, childVars, signalled, flagVars, asked, requests>>

\* Mutant: the task does not catch its cancellation.
StopCancelsTask_NotCaught ==
    /\ stop.at = "join"
    /\ task' = [task EXCEPT ![server.loopTask] = "ended"]
    /\ stop' = [stop EXCEPT !.at = "joining"]
    /\ UNCHANGED <<server, reads, childVars, signalled, flagVars, asked, requests>>

\* The latest task is cancelled at its await; a task that is not inside the
\* try block just ends.
StopCancelsTask ==
    /\ stop.at = "join"
    /\ LET t == server.loopTask IN
        task' = CASE task[t] \in {"read", "wait"} -> [task EXCEPT ![t] = "cancel"]
                  [] task[t] \in {"check", "launch"} -> [task EXCEPT ![t] = "ended"]
                  [] OTHER -> task
    /\ stop' = [stop EXCEPT !.at = "joining"]
    /\ UNCHANGED <<server, reads, childVars, signalled, flagVars, asked, requests>>

StopReturns ==
    /\ stop.at = "joining"
    /\ task[server.loopTask] = "ended"
    /\ stop' = [stop EXCEPT !.at = "idle"]
    /\ UNCHANGED <<server, task, reads, childVars, signalled, flagVars, asked, requests>>

-----------------------------------------------------------------------------
\* _run_workflow_loop of task t.

LoopEnded(t) ==
    /\ task' = [task EXCEPT ![t] = "ended"]
    /\ server' = [server EXCEPT !.loopRunning = FALSE, !.pauseRequested = FALSE,
                                !.stopRequested = FALSE]

TaskChecks(t) ==
    /\ EventLoopFree /\ task[t] = "check"
    /\ IF server.loopRunning /\ ~server.pauseRequested /\ ~server.stopRequested
       THEN task' = [task EXCEPT ![t] = "launch"] /\ UNCHANGED server
       ELSE LoopEnded(t)
    /\ UNCHANGED <<reads, childVars, signalled, stop, flagVars, asked, requests>>

TaskSpawns(t) ==
    /\ EventLoopFree /\ task[t] = "launch"
    /\ \E c \in Child :
        /\ child[c] = "none" /\ \A d \in Child : d < c => child[d] # "none"
        /\ child' = [child EXCEPT ![c] = "starting"]
        /\ reads' = [reads EXCEPT ![t] = c]
        /\ server' = [server EXCEPT !.currentProcess = c]
    /\ task' = [task EXCEPT ![t] = "read"]
    /\ UNCHANGED <<exitOk, signalled, stop, flagVars, asked, requests>>

\* The command cannot be executed: the exception ends the task.
SpawnFails(t) ==
    /\ EventLoopFree /\ task[t] = "launch"
    /\ task' = [task EXCEPT ![t] = "ended"]
    /\ UNCHANGED <<server, reads, childVars, signalled, stop, flagVars, asked, requests>>

\* Mutant: the output is forwarded without a look at the stop request.
TaskSeesStop_Ignored(t) == FALSE

\* A line of output arrives after a stop request; a run prints all the time.
TaskSeesStop(t) ==
    /\ EventLoopFree /\ task[t] = "read"
    /\ server.stopRequested /\ child[reads[t]] # "exited"
    /\ Signal(Current)
    /\ task' = [task EXCEPT ![t] = "wait"]
    /\ UNCHANGED <<server, reads, childVars, stop, flagVars, asked, requests>>

\* Mutant: the end of the output is taken for the end of the process.
TaskReadsEnd_NotAwaited(t) ==
    /\ EventLoopFree /\ task[t] = "read"
    /\ child[reads[t]] \in {"exiting", "exited"}
    /\ task' = [task EXCEPT ![t] = "check"]
    /\ UNCHANGED <<server, reads, childVars, signalled, stop, flagVars, asked, requests>>

TaskReadsEnd(t) ==
    /\ EventLoopFree /\ task[t] = "read"
    /\ child[reads[t]] \in {"exiting", "exited"}
    /\ task' = [task EXCEPT ![t] = "wait"]
    /\ UNCHANGED <<server, reads, childVars, signalled, stop, flagVars, asked, requests>>

TaskWaited(t) ==
    /\ EventLoopFree /\ task[t] = "wait"
    /\ CurrentExited
    /\ IF Current \in exitOk /\ ~server.pauseRequested /\ ~server.stopRequested
       THEN task' = [task EXCEPT ![t] = "check"] /\ UNCHANGED server
       ELSE LoopEnded(t)
    /\ UNCHANGED <<reads, childVars, signalled, stop, flagVars, asked, requests>>

\* The cancelled task terminates the current process and waits for it; if it
\* is gone with its pipes, terminate() raises and the flags stay as they are.
TaskTerminates(t) ==
    /\ EventLoopFree /\ task[t] = "cancel"
    /\ ~CurrentExited
    /\ Signal(Current)
    /\ UNCHANGED <<serverVars, childVars, flagVars, asked, requests>>

TaskCancelled(t) ==
    /\ EventLoopFree /\ task[t] = "cancel"
    /\ CurrentExited
    /\ \/ LoopEnded(t)
       \/ task' = [task EXCEPT ![t] = "ended"] /\ UNCHANGED server
    /\ UNCHANGED <<reads, childVars, signalled, stop, flagVars, asked, requests>>

-----------------------------------------------------------------------------
\* The subprocess c: run_loop.

ChildGoes(c, l) == child' = [child EXCEPT ![c] = l] /\ UNCHANGED exitOk
Exits(c, ok) ==
    /\ child' = [child EXCEPT ![c] = "exiting"]
    /\ exitOk' = IF ok THEN exitOk \cup {c} ELSE exitOk

\* Mutant: the stop flag is not cleaned up.
CleanFlags_PauseOnly(c) ==
    /\ child[c] = "starting"
    /\ pauseFlag' = FALSE
    /\ ChildGoes(c, "phase")
    /\ UNCHANGED <<serverVars, signalled, stopFlag, asked, requests>>

\* The flags of an earlier run are removed under the running lock.
CleanFlags(c) ==
    /\ child[c] = "starting"
    /\ pauseFlag' = FALSE /\ stopFlag' = FALSE
    /\ ChildGoes(c, "phase")
    /\ UNCHANGED <<serverVars, signalled, asked, requests>>

StartupFails(c) ==
    /\ child[c] = "starting"
    /\ Exits(c, FALSE)
    /\ UNCHANGED <<serverVars, signalled, flagVars, asked, requests>>

\* A failed phase halts the run.
PhaseEnds(c) ==
    /\ child[c] = "phase"
    /\ ChildGoes(c, "checkpoint") \/ Exits(c, FALSE)
    /\ UNCHANGED <<serverVars, signalled, flagVars, asked, requests>>

\* The checkpoint after the save. A state that cannot be validated removes
\* the flag and does not pause.
Checkpoint(c) ==
    /\ child[c] = "checkpoint"
    /\ \/ ~pauseFlag /\ ChildGoes(c, "next") /\ UNCHANGED pauseFlag
       \/ pauseFlag /\ ChildGoes(c, "waiting") /\ UNCHANGED pauseFlag
       \/ pauseFlag /\ ChildGoes(c, "next") /\ pauseFlag' = FALSE
    /\ UNCHANGED <<serverVars, signalled, stopFlag, asked, requests>>

\* wait_for_resume, one file access at a time.
WaitChecksPause(c) ==
    /\ child[c] = "waiting"
    /\ ChildGoes(c, IF pauseFlag THEN "stop?" ELSE "next")
    /\ UNCHANGED <<serverVars, signalled, flagVars, asked, requests>>

WaitChecksStop(c) ==
    /\ child[c] = "stop?"
    /\ IF stopFlag THEN Exits(c, TRUE) /\ stopFlag' = FALSE /\ pauseFlag' = FALSE
                   ELSE ChildGoes(c, "timeout?") /\ UNCHANGED flagVars
    /\ UNCHANGED <<serverVars, signalled, asked, requests>>

WaitSleeps(c) ==
    /\ child[c] = "timeout?"
    /\ ChildGoes(c, "waiting")
    /\ UNCHANGED <<serverVars, signalled, flagVars, asked, requests>>

\* Mutant: the timeout is not configured.
WaitTimesOut_Disabled(c) == FALSE

WaitTimesOut(c) ==
    /\ child[c] = "timeout?"
    /\ pauseFlag' = FALSE
    /\ ChildGoes(c, "next")
    /\ UNCHANGED <<serverVars, signalled, stopFlag, asked, requests>>

\* The next phase, or the end of the project.
NextPhase(c) ==
    /\ child[c] = "next"
    /\ ChildGoes(c, "phase") \/ Exits(c, TRUE)
    /\ UNCHANGED <<serverVars, signalled, flagVars, asked, requests>>

\* The standard output closes a little before the process is gone.
ChildExits(c) ==
    /\ child[c] = "exiting"
    /\ ChildGoes(c, "exited")
    /\ UNCHANGED <<serverVars, signalled, flagVars, asked, requests>>

ChildDies(c) ==
    /\ c \in signalled /\ c \in Alive
    /\ child' = [child EXCEPT ![c] = "exited"]
    /\ exitOk' = exitOk \ {c}
    /\ UNCHANGED <<serverVars, signalled, flagVars, asked, requests>>

-----------------------------------------------------------------------------
\* The commands of an IPC client. The runner state is RUNNING while the
\* subprocess is up: nothing sets it to PAUSED, and cancel_ctx is None.

IpcPause(c) ==
    /\ child[c] \in UpAndRunning
    /\ pauseFlag' = TRUE
    /\ Asks("pause")
    /\ Requested
    /\ UNCHANGED <<serverVars, childVars, signalled, stopFlag>>

IpcResume(c) ==
    /\ child[c] \in UpAndRunning
    /\ pauseFlag' = FALSE
    /\ Requested
    /\ UNCHANGED <<serverVars, childVars, signalled, stopFlag, asked>>

\* Only the model processes are killed, which fails the phase that runs one.
IpcStop(c) ==
    /\ child[c] \in UpAndRunning
    /\ \/ child[c] = "phase" /\ Exits(c, FALSE)
       \/ UNCHANGED childVars
    /\ Requested
    /\ UNCHANGED <<serverVars, signalled, flagVars, asked>>

-----------------------------------------------------------------------------
User == StartLoop \/ PauseLoop \/ ResumeLoop \/ StopLoop
StopHandler ==
    StopTouches \/ StopUnlinks \/ StopTerminates \/ StopKills \/ StopAwaited
                \/ StopCancelsTask \/ StopReturns
TaskStep(t) ==
    TaskChecks(t) \/ TaskSpawns(t) \/ SpawnFails(t) \/ TaskSeesStop(t)
                  \/ TaskReadsEnd(t) \/ TaskWaited(t) \/ TaskTerminates(t)
                  \/ TaskCancelled(t)
ChildStep(c) ==
    CleanFlags(c) \/ StartupFails(c) \/ PhaseEnds(c) \/ Checkpoint(c)
                  \/ WaitChecksPause(c) \/ WaitChecksStop(c) \/ NextPhase(c)
                  \/ ChildExits(c)
Waits(c) == WaitSleeps(c) \/ WaitTimesOut(c)
Ipc(c) == IpcPause(c) \/ IpcResume(c) \/ IpcStop(c)

Next ==
    \/ User \/ StopHandler
    \/ \E t \in Task : TaskStep(t)
    \/ \E c \in Child : ChildStep(c) \/ Waits(c) \/ ChildDies(c) \/ Ipc(c)

\* Coroutines and processes go on when they can; a wait that goes on and on
\* times out; a signal arrives.
Fairness ==
    /\ WF_vars(StopHandler)
    /\ \A t \in Task : WF_vars(TaskStep(t))
    /\ \A c \in Child :
        /\ WF_vars(ChildStep(c))
        /\ WF_vars(Waits(c)) /\ SF_vars(WaitTimesOut(c))
        /\ WF_vars(ChildDies(c))

Spec == Init /\ [][Next]_vars /\ Fairness
-----------------------------------------------------------------------------
\* The dashboard runs one workflow at a time: the next subprocess is created
\* only when the one before is gone.
OneWorkflow == Cardinality(Alive) <= 1

\* No subprocess is left behind: whatever is cancelled or fails, a live one
\* has a task that reads it and will see its end.
NoOrphan == \A c \in Alive : \E t \in ActiveTasks : reads[t] = c

\* A run waits only if a pause was asked for while it was alive, and it ends
\* in its wait only if a stop was: the flags of earlier runs, stopped or
\* crashed, mean nothing to it.
StaleFlagsIgnored ==
    [][\A c \in Child :
        /\ child'[c] = "waiting" => "pause" \in asked[c]
        /\ child[c] = "stop?" /\ c \in exitOk' => "stop" \in asked[c]]_vars

\* A stop, and any other end of the loop, reaches the subprocess: once the
\* dashboard says that the loop is not running, nothing runs soon, unless
\* the user starts it again.
StopReachesProcess ==
    ~server.loopRunning ~> Alive = {} \/ server.loopRunning

\* A pause ends, at the latest by its timeout, even if the dashboard is gone.
PauseEnds == \A c \in Child : child[c] \in InPause ~> child[c] \notin InPause

=============================================================================
