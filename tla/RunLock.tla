------------------------------ MODULE RunLock ------------------------------
(***************************************************************************)
(* The running lock and the run logs (core/loop/locking.py,                *)
(* core/loop/run_tracking.py, run_loop and the reset-lock command).  A     *)
(* process is its pid; the operating system hands a pid out again once its *)
(* process is gone, to another run or to an unrelated program.             *)
(***************************************************************************)
EXTENDS Integers

CONSTANTS
    Pid,        \* the process ids
    NoLock,     \* running.lock does not exist
    NoPid,      \* running.lock holds no pid: empty or cut short
    MaxStarts,  \* bound: how often a run is started
    OneAtATime  \* whether the operator waits for a start or a reset-lock
                \* to get past the lock before issuing the next one

ASSUME LockAssumption ==
    /\ NoLock \notin Pid /\ NoPid \notin Pid /\ NoLock # NoPid
    /\ MaxStarts \in Nat
    /\ OneAtATime \in BOOLEAN

VARIABLES
    lock,     \* the content of running.lock
    pc,       \* pc[p]: what the run with pid p is about to do
    run,      \* run[p]: the run of process p
    starts,   \* the number of runs started
    log,      \* log[r]: the status in the log of run r
    reset,    \* what the reset-lock command is about to do
    foreign   \* the pids of unrelated programs

vars == <<lock, pc, run, starts, log, reset, foreign>>

Run == 1..MaxStarts
FinalStatus == {"completed", "interrupted", "crashed"}
Status == {"none", "running"} \cup FinalStatus

\* Between the test of the lock and the end of its writing.
Starting == {"check", "stale", "reconcile", "create", "write"}
\* Between the writing of the lock and its removal.
Holding == {"save", "register", "loop", "finish", "release", "dying"}

Holders == {p \in Pid : pc[p] \in Holding}
IsPidAlive(p) == pc[p] # "off" \/ p \in foreign
LockedByDead == lock \in Pid /\ ~IsPidAlive(lock)
LockedByLive == lock \in Pid /\ IsPidAlive(lock)

TypeOK ==
    /\ lock \in Pid \cup {NoLock, NoPid}
    /\ pc \in [Pid -> {"off"} \cup Starting \cup Holding]
    /\ run \in [Pid -> 0..MaxStarts]
    /\ starts \in 0..MaxStarts
    /\ log \in [Run -> Status]
    /\ reset \in {"idle", "check", "unlink", "reconcile"}
    /\ foreign \subseteq Pid

Init ==
    /\ lock = NoLock
    /\ pc = [p \in Pid |-> "off"]
    /\ run = [p \in Pid |-> 0]
    /\ starts = 0
    /\ log = [r \in Run |-> "none"]
    /\ reset = "idle"
    /\ foreign = {}

Goto(p, l) == pc' = [pc EXCEPT ![p] = l]

LockUndisturbed ==
    /\ \A p \in Pid : pc[p] \notin Starting
    /\ reset = "idle"

Start(p) ==
    /\ pc[p] = "off" /\ p \notin foreign
    /\ starts < MaxStarts
    /\ OneAtATime => LockUndisturbed
    /\ starts' = starts + 1
    /\ run' = [run EXCEPT ![p] = starts + 1]
    /\ Goto(p, "check")
    /\ UNCHANGED <<lock, log, reset, foreign>>

-----------------------------------------------------------------------------
\* _running_lock, up to its yield.

\* Mutant: without a stale lock there is nothing to reconcile.
CheckLock_NothingToReconcile(p) ==
    /\ pc[p] = "check"
    /\ \/ LockedByLive /\ Goto(p, "off")
       \/ LockedByDead /\ Goto(p, "stale")
       \/ lock \notin Pid /\ Goto(p, "create")
    /\ UNCHANGED <<lock, run, starts, log, reset, foreign>>

CheckLock(p) ==
    /\ pc[p] = "check"
    /\ \/ LockedByLive /\ Goto(p, "off")
       \/ LockedByDead /\ Goto(p, "stale")
       \/ lock \notin Pid /\ Goto(p, "reconcile")
    /\ UNCHANGED <<lock, run, starts, log, reset, foreign>>

RemoveStaleLock(p) ==
    /\ pc[p] = "stale"
    /\ lock' = NoLock
    /\ Goto(p, "reconcile")
    /\ UNCHANGED <<run, starts, log, reset, foreign>>

\* Mutant: the reason of the recovery is stored as the status.
Reconciled_ReasonAsStatus ==
    [r \in Run |-> IF log[r] = "running" THEN "stale_lock_recovered" ELSE log[r]]

\* Every log that says running is taken for the log of a dead run.
Reconciled ==
    [r \in Run |-> IF log[r] = "running" THEN "crashed" ELSE log[r]]

Reconcile(p) ==
    /\ pc[p] = "reconcile"
    /\ log' = Reconciled
    /\ Goto(p, "create")
    /\ UNCHANGED <<lock, run, starts, reset, foreign>>

\* write_text opens the file, which empties it, and then writes; a file
\* unlinked in between stays unlinked.
CreateLock(p) ==
    /\ pc[p] = "create"
    /\ lock' = NoPid
    /\ Goto(p, "write")
    /\ UNCHANGED <<run, starts, log, reset, foreign>>

WriteLock(p) ==
    /\ pc[p] = "write"
    /\ lock' = IF lock = NoLock THEN NoLock ELSE p
    /\ Goto(p, "save")
    /\ UNCHANGED <<run, starts, log, reset, foreign>>

-----------------------------------------------------------------------------
\* run_loop under the lock. A log that cannot be saved is only warned about.

SaveLog(p, status) ==
    \/ log' = [log EXCEPT ![run[p]] = status]
    \/ UNCHANGED log

SaveRunning(p) ==
    /\ pc[p] = "save"
    /\ SaveLog(p, "running")
    /\ Goto(p, "register")
    /\ UNCHANGED <<lock, run, starts, reset, foreign>>

RegisterCleanup(p) ==
    /\ pc[p] = "register"
    /\ Goto(p, "loop")
    /\ UNCHANGED <<lock, run, starts, log, reset, foreign>>

\* Mutant: the lock is released before the log is finalized.
LoopReturns_ReleasesLock(p) ==
    /\ pc[p] = "loop"
    /\ lock' = NoLock
    /\ Goto(p, "finish")
    /\ UNCHANGED <<run, starts, log, reset, foreign>>

LoopReturns(p) ==
    /\ pc[p] = "loop"
    /\ Goto(p, "finish")
    /\ UNCHANGED <<lock, run, starts, log, reset, foreign>>

SaveFinal(p) ==
    /\ pc[p] = "finish"
    /\ \E status \in FinalStatus : SaveLog(p, status)
    /\ Goto(p, "release")
    /\ UNCHANGED <<lock, run, starts, reset, foreign>>

ReleaseLock(p) ==
    /\ pc[p] \in {"release", "dying"}
    /\ lock' = NoLock
    /\ Goto(p, "off")
    /\ UNCHANGED <<run, starts, log, reset, foreign>>

\* Mutant: the cleanup stays registered until the lock is released.
Signal_StillRegistered(p) ==
    /\ pc[p] \in {"loop", "finish", "release"}
    /\ SaveLog(p, "interrupted")
    /\ Goto(p, "dying")
    /\ UNCHANGED <<lock, run, starts, reset, foreign>>

\* A signal while the pre-exit cleanup is registered: the log is finalized,
\* the lock removed (ReleaseLock) and the process exits hard.
Signal(p) ==
    /\ pc[p] = "loop"
    /\ SaveLog(p, "interrupted")
    /\ Goto(p, "dying")
    /\ UNCHANGED <<lock, run, starts, reset, foreign>>

\* A kill, or a signal while the cleanup is not registered.
Kill(p) ==
    /\ pc[p] # "off"
    /\ Goto(p, "off")
    /\ UNCHANGED <<lock, run, starts, log, reset, foreign>>

-----------------------------------------------------------------------------
\* bmad-assist reset-lock.

ResetLock ==
    /\ reset = "idle"
    /\ OneAtATime => LockUndisturbed
    /\ reset' = "check"
    /\ UNCHANGED <<lock, pc, run, starts, log, foreign>>

\* Mutant: reset-lock removes the lock of a live run.
ResetChecks_Forced ==
    /\ reset = "check"
    /\ reset' = IF lock = NoLock THEN "reconcile" ELSE "unlink"
    /\ UNCHANGED <<lock, pc, run, starts, log, foreign>>

ResetChecks ==
    /\ reset = "check"
    /\ \/ LockedByLive /\ reset' = "idle"
       \/ lock = NoLock /\ reset' = "reconcile"
       \/ (lock = NoPid \/ LockedByDead) /\ reset' = "unlink"
    /\ UNCHANGED <<lock, pc, run, starts, log, foreign>>

\* A lock that is gone by now ends the command.
ResetUnlinks ==
    /\ reset = "unlink"
    /\ lock' = NoLock
    /\ reset' = IF lock = NoLock THEN "idle" ELSE "reconcile"
    /\ UNCHANGED <<pc, run, starts, log, foreign>>

ResetReconciles ==
    /\ reset = "reconcile"
    /\ log' = Reconciled
    /\ reset' = "idle"
    /\ UNCHANGED <<lock, pc, run, starts, foreign>>

-----------------------------------------------------------------------------
\* Unrelated programs.

ForeignStart(p) ==
    /\ pc[p] = "off"
    /\ foreign' = foreign \cup {p}
    /\ UNCHANGED <<lock, pc, run, starts, log, reset>>

ForeignExit(p) ==
    /\ p \in foreign
    /\ foreign' = foreign \ {p}
    /\ UNCHANGED <<lock, pc, run, starts, log, reset>>

Enter(p) ==
    Start(p) \/ CheckLock(p) \/ RemoveStaleLock(p) \/ Reconcile(p)
             \/ CreateLock(p) \/ WriteLock(p)
Hold(p) ==
    SaveRunning(p) \/ RegisterCleanup(p) \/ LoopReturns(p) \/ SaveFinal(p)
                   \/ ReleaseLock(p)
Fault(p) == Signal(p) \/ Kill(p) \/ ForeignStart(p) \/ ForeignExit(p)
Reset == ResetLock \/ ResetChecks \/ ResetUnlinks \/ ResetReconciles

Next == Reset \/ \E p \in Pid : Enter(p) \/ Hold(p) \/ Fault(p)

Spec == Init /\ [][Next]_vars

-----------------------------------------------------------------------------
\* Concurrent run prevention: two runs never hold the lock at a time,
\* whatever was killed and left behind before.
MutualExclusion == \A p, q \in Holders : p = q

\* What the dashboard shows of a run it did not start
\* (get_loop_status of dashboard/routes/loop.py).
LoopStatus ==
    IF lock = NoLock THEN "idle" ELSE IF LockedByLive THEN "running" ELSE "crashed"

\* The dashboard never shows a live run as idle or crashed.
StatusTruthful == Holders # {} => LoopStatus = "running"

\* Once a start is past its reconciliation, no log but its own says running:
\* the logs of killed runs are finalized, and by the time the loop runs the
\* history of the project is true.
DeadRunsFinalized ==
    \A p \in Pid : pc[p] \in {"create", "write"} \cup Holding =>
        \A r \in Run : log[r] = "running" => r = run[p]

\* A final status is the last word on a run: a run is never reported crashed
\* and then completed, nor the other way round.
FinalStatusKept ==
    [][\A r \in Run : log[r] \in FinalStatus => log'[r] = log[r]]_vars

\* The run that holds the lock.
Current ==
    IF Holders = {} THEN 0 ELSE run[CHOOSE p \in Pid : pc[p] \in Holding]

\* The lock implements the exclusive runs: no run begins, whatever crashed
\* before and whatever reset-lock removes, while another is going on.
Exclusive == INSTANCE ExclusiveRuns WITH current <- Current
RunsExclusive == Exclusive!Spec
=============================================================================
