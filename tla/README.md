# bmad-assist: a specification of the development loop and its surroundings

bmad-assist drives a BMAD project through its epics and stories: it reads the
epics, keeps a position in `.bmad-assist/state.yaml`, runs one phase handler
after another (each a call of an AI provider), keeps `sprint-status.yaml` in
step, and can be paused, stopped, killed, restarted and watched at any point.
This directory specifies that program in TLA+. TLC checks the specification on
small instances; the TLA+ proof system (TLAPS) proves the most important results
for instances of any size.

File names below are relative to `src/src/bmad_assist/`.

## 1. The system

| Component | State it keeps | Operations | Hard behaviour | Correct when |
|---|---|---|---|---|
| Development loop (`core/loop/runner.py`, `epic_phases.py`) | the `State` object in memory, locals of the run (`is_fresh_start`, the phase to restore) | start, setup, iterate, complete a story, teardown, complete an epic | kills and failures between saves; phases resumed in a loop they did not start in | stories and epics are completed in order, once, with their reviews and teardown |
| Loop configuration (`core/config/models/loop.py`, `core/loop/guardian.py`) | three phase lists, rework policy | next phase, next teardown phase | phases switched off; lists without a review | a phase is followed by the next one that applies |
| Lifecycle state (`core/state.py`, `story_transitions.py`, `epic_transitions.py`) | position, completed lists, setup flag, rework counter | complete, advance, save atomically | last story, last epic | the position is always a story of the project |
| Sprint sync and resume validation (`sprint/sync.py`, `sprint/resume_validation.py`, `core/loop/sprint_sync.py`) | `sprint-status.yaml` | one-way sync, validation at start | a sync that fails is ignored; a human edits the file; evidence missing | sprint-status never runs ahead; validation neither loses nor invents work |
| Running lock, run log (`core/loop/locking.py`, `run_tracking.py`, `reset-lock` of `cli.py`) | `running.lock`, `runs/*.yaml` | acquire, recover, release, finalize, reset | test and write are two steps; pids used again; signals in the middle | one loop per project, and a history that is true |
| Pause and stop flags (`core/loop/pause.py`) | `pause.flag`, `stop.flag` | pause, resume, stop, time out | flag files written by other processes | a pause ends, and old flags mean nothing |
| Dashboard (`dashboard/server.py`) | flags, workflow task, current subprocess | start, pause, resume, stop | coroutines that interleave at their awaits, a subprocess that dies | one workflow, none left behind, a stop reaches it |
| IPC and terminal interface (`ipc/`, `tui/`) | socket, cached state, client, shown phase | broadcast, answer, reconnect, rediscover | slow clients, three threads, restarts | what is shown follows the run |
| Providers (`providers/`, `core/retry.py`, `core/loop/handlers/base.py`) | subprocess, reader and monitor threads, tool-call counters | invoke, retry, guard, change to a secondary provider | nested retries, late readers | bounded work, no process left, a budget that holds |
| Multi-LLM code review (`code_review/`, `core/loop/handlers/code_review*.py`) | reports, cache | fan out, collect, synthesise | hanging reviewers, partial failure, files of older sessions | a verdict only from enough reviews of the right session |
| QA (`qa/`) | run files, `results.json` | execute in batches, retry, merge, combine | a kill between batches, a retry of a partial run | results are neither lost nor undone |
| Signals and cancellation (`core/loop/signals.py`, `cancellation.py`) | a flag and an exit reason | request, check at safe points | arrives at any time | a run ends at a safe point |
| Sprint reconciliation (`sprint/reconciler.py`, `inference.py`, `repair.py`) | none of its own | merge of three sources | precedence of sources | a merge never downgrades proven work |
| Multi-LLM validation, deep verify, experiments, git, notifications, compiler, test architect, parser, benchmarking | files, branches, messages | - | mostly text and I/O | - |

`PROJECT.json` lists every component with its sources and what is left out of it.

How they interact. The command line (`cli.py`) loads the epics, generates a
missing sprint-status and calls `run_loop` with the lists of *active* stories
(not done in sprint-status) and *lifecycle* stories (all). `run_loop` takes the
lock and runs `_run_loop_body`, which loads `state.yaml`, validates it against
sprint-status and the report files, runs the setup of the epic, and then
iterates: check for a stop, save, execute the handler, save, sync, decide. A
handler calls a provider through the retries of `BaseHandler`; the review
handlers call several at once. The dashboard starts the loop as a subprocess and
talks to it through flag files and signals; an interface watches it and commands
it over its socket. Handlers talk to the loop only through their result and the
reports they leave on disk.

The hazards that follow from this, each at its line of source and with the
properties that watch it, are the `hazards` of `PROJECT.json`. In the loop most
have one root: *three durable stores* (`state.yaml`, `sprint-status.yaml`, report
files) are written one after the other, and a later process trusts all three.
Around the loop the root is another: *a test and an act on what was tested are
two steps*, of which another thread, coroutine or process may come in between.

## 2. Modules

| Module | Models | Extends |
|---|---|---|
| `LoopConfig` | the phases, the three lists, `get_next_phase`, `_get_next_teardown_phase` | - |
| `Lifecycle` | `State` and its transitions over stories and epics | `LoopConfig` |
| `SprintStatus` | `sync_state_to_sprint` and the facts `validate_resume_state` reads | `Lifecycle` |
| `DevLoop` | `run_loop`, `_run_loop_body`, setup and teardown loops, resume validation, and the environment: kills, cancellations, lost syncs, the operator | `SprintStatus` |
| `Project` | the abstract promise of the loop: deliver stories and close epics in order | - |
| `DevLoopMC` | small projects and configurations | `DevLoop` |
| `RunLock` | `_running_lock`, the run log, `reset-lock`, pids | - |
| `ExclusiveRuns` | the abstract promise of the lock | - |
| `RunLockMC` | the symmetry of the pids | `RunLock` |
| `DashboardLoop` | the server's handlers and workflow task, its subprocesses, the flag files, IPC commands | - |
| `ToolCallGuard` | the guard of a provider invocation, as operators | - |
| `Invocation` | one provider invocation with all its retries | `ToolCallGuard` |
| `Review` | code review and synthesis over stories, sessions and restarts | - |
| `QaBatch` | `qa execute` in batches, retries, browser tests, combined runs | - |
| `LiveView` | runner, metrics thread, IPC server, client, terminal interface | - |
| `DevLoop_proofs` | theorems about the loop: types, persistence, order, sprint-status, the refinement of `Project` | `DevLoop` |
| `DevLoopEvidence_proofs` | theorems about the loop: what is recorded as done has its evidence | `DevLoop_proofs` |
| `RunLock_proofs`, `DashboardLoop_proofs`, `Invocation_proofs`, `Review_proofs`, `QaBatch_proofs`, `LiveView_proofs` | theorems about those modules | their module |

How the parts are cut. The five modules beside `DevLoop` each take a boundary of
the loop that `DevLoop` shows as one step or leaves out, and model it with its
own processes: what happens before `run_loop`'s body (`RunLock`), around its
process (`DashboardLoop`), inside one handler (`Invocation`, `Review`, and
`QaBatch` for the QA phases), and where its events go (`LiveView`). They share no
variables: where two meet, each has the other as an environment that may do
everything the code allows. `DevLoop` has one process at a time, which is what
`RunLock` promises; its handler is an outcome, which is what `Invocation` and
`Review` end in; a pause is a stutter of it, which `DashboardLoop` shows to end.

### LoopConfig, Lifecycle, SprintStatus

`EpicSetup`, `StoryPhases` and `EpicTeardown` are the fields of `LoopConfig`.
`TestarchEnabled` says whether a test-architect configuration exists, and
`QaEnabled` is `--qa`; a phase that is switched off is passed over by
`GetNextPhase`. A phase is its snake_case value, Python's `None` is `NoPhase`.

Epics are numbers and a story is a pair `<<epic, number>>`, in the order of the
lists the command line builds. `st.epic`, `st.story`, `st.phase`,
`st.doneStories`, `st.doneEpics`, `st.setupDone` and `st.rework` are
`current_epic`, `current_story`, `current_phase`, `completed_stories`,
`completed_epics`, `epic_setup_complete` and `code_review_rework_count`.
`HandleStoryCompletion` and `HandleEpicCompletion` are the functions of those
names. As in the code, they move to `create_story` whatever the first phase of
the configured story list is.

`Synced` is one call of `sync_state_to_sprint`: the current story by its phase,
completed stories, then epics (done only when every story is), then
retrospectives (done only with a report). `StoryDurablyDone` and
`EpicDurablyDone` are what resume validation asks of earlier work: a *done*
status **and** the report files.

### DevLoop and Project

`disk`, `sprint` and `artifacts` survive a process; `mem`, `run` and `pc` are
the process. `pc` names the points between which something else may happen: a
kill, a cancellation, a lost sync, or a read by a later step of what an earlier
one saved. The actions follow the code from top to bottom:

| Actions | Code |
|---|---|
| `StartRun`, `NoEpics`, `FreshStart`, `Repair`, `Resume` | `run_loop`, the start of `_run_loop_body`, `_trigger_interactive_repair` |
| `RefuseResume`, `SkipDoneEpic`, `SkipDoneStory`, `AcceptPosition`, `Resync` | `validate_resume_state`, `_validate_resume_against_sprint` |
| `EnterLoop`, `SetupPhase`, `SetupSucceeds`, `SetupFails`, `RestorePhase` | the setup before the `while` loop, `_execute_epic_setup` |
| `BeginPhase`, `Execute`, `StopRequested`, `PhaseFails`, `Halt`, `PhaseSucceeds`, `SyncPhase` | one iteration |
| `Rework`, `RefuseUnresolved`, `AfterReview`, `HoldStory`, `NextStory`, `LastStory`, `QuitAtPrompt`, `BeginStory` | the branch for `CODE_REVIEW_SYNTHESIS` and `TEST_REVIEW` |
| `StageTeardown`, `TeardownPhase`, `TeardownSucceeds`, `TeardownFails`, `SyncTeardown`, `CompleteAndStop`, `NextEpic`, `BeginEpic`, `SyncEpic`, `ExitSync` | the last story, `_execute_epic_teardown`, the epic boundary, and the branches for teardown phases resumed in the main loop |
| `NextPhase`, `NextTeardownPhase`, `CannotAdvance` | the end of the iteration |
| `Kill`, `Cancel`, `SprintSync`, `EditSprint` | the world: SIGKILL, the dashboard, `bmad-assist sprint sync`, a hand edit |

A handler is its outcome: `ok`, `fail`, and for the review synthesis `reject`
(negative) and `reject_zero` (negative with no blocking finding, which the loop
lets pass). Reports are written before the last checks of a handler, so a
failed handler may leave one; a test review that is switched off succeeds
without one (`Reports`). Two variables observe and never guard a step:
`succeeded` (epic phases that succeeded, for an epic) and `approved` (stories
whose last synthesis asked for no rework: `Approved` withdraws a story when it is
developed again or its synthesis fails or asks for rework).

`Project` has two sets, `delivered` and `closed`, and two actions. `Deliver`
completes a story when all earlier stories and epics are; `Close` closes an epic
when all its stories are delivered and all earlier epics closed. `DevLoop`
implements it with `delivered <- disk.doneStories, closed <- disk.doneEpics`.

### RunLock and ExclusiveRuns

A process is its pid, and a pid whose process is gone may go to another run or
to an unrelated program (`foreign`). `pc[p]` walks a run through `_running_lock`:
read the lock (`CheckLock`), unlink a stale one, reconcile old logs, create the
file and write it (two steps, as `write_text` does), save the log, register the
pre-exit cleanup, loop, save the final log, release. `Signal` is the handler
with the cleanup registered (`signals.py`), `Kill` anything else that ends a
process, `ResetLock` to `ResetReconciles` the command. `log[r]` is the status in
the log of run `r`; a log that cannot be saved is only warned about (`SaveLog`).
`LoopStatus` is what the dashboard's status route makes of the file.

`OneAtATime` says that the operator issues the next start or `reset-lock` only
when the one before is past the lock. With it the lock implements
`ExclusiveRuns`, a single variable that is free or taken by a run; without it
two runs may pass the test together (run `two_starts`).

### DashboardLoop

`server` holds the fields of `DashboardServer` that the handlers share;
`task[t]` is `_run_workflow_loop` of start `t` and `child[c]` subprocess `c`,
from the cleanup of old flags to the exit. Handlers and tasks run on one event
loop, so a step is what happens between two awaits: `EventLoopFree` keeps the
others out while the synchronous part of `stop_loop` runs. The subprocess and an
IPC client are separate processes, and each access of a flag file is a step of
its own (`WaitChecksPause`, `WaitChecksStop`, `WaitTimesOut`). `asked[c]` records
which requests were made while `c` was alive. `StopTerminates`, `StopKills`,
`TaskSeesStop` and `TaskTerminates` all signal the process that is current *by
then*, as the code does.

### ToolCallGuard and Invocation

A guard is a record: total calls, calls per file, calls of the last minute, and
why it tripped. `Verdict` is `check` before it counts, `Check` the guard after
it, `ResetForRetry` the reset that keeps the counters.

`Invocation` nests what the code nests. The outermost layer is the `caller`. A
phase handler is `BaseHandler.invoke_provider` with `execute`: another round
after a transient failure (`NextRound`), and a rerun after the guard stopped the
process, for the rate only. A reviewer is `_invoke_reviewer` of
`code_review/orchestrator.py`: no rounds, and a rerun for any reason of the guard
(`RerunWanted`, `GuardRerun`). Below it is `invoke_with_timeout_retry`: further
attempts after a timeout (`TimeoutRetry`) and, when they are used up and the
provider is Claude, the same number again of the secondary provider
(`StartSecondary`, `core/retry.py:103`). Below that is the provider: Gemini tries
again after a process that failed with nothing on stderr (`Quiet`,
`ProviderRetries`); Claude and Codex start one process. At the bottom is a process
with its reader and, in Gemini, a monitor thread (`ReadsCall`, `MonitorKills`; in
Claude the wait loop looks at the event itself).

`caller` and `provider` are chosen in `Init`, and the differences of the
providers are definitions: `Accepted` (a handler passes `sandbox_mode`, which
only `CodexProvider.invoke` takes: section 6), `Guarded` (Codex takes the guard
and shows it nothing), `HasSecondary`, `Attempts`, `Forbidden` (only Gemini stops
a process for a tool that is not allowed). *claude* is `ClaudeSDKProvider` where
it delegates to the command line (`providers/claude_sdk.py:698`), whose code the
secondary provider shares.

A reader that outlives the join (`JoinTimesOut`) goes on reading (`LateReads`).
It shares the guard with every later attempt. Within one call of Gemini it also
shares `guard_kill_event` and `restricted_tool_violation`, which are variables of
`invoke` and not of an attempt: `event` and `violation` are these two cells,
cleared where the code binds them again (`Attempt`, `Spawn`), and `lateHere` says
whether the reader still sees them. `allowed`, `starts` and `finished` observe.

### Review

`position` is what `state.yaml` holds, `task[r]` the asyncio task of a reviewer
in the present session, and `thread[<<s, r>>]` the worker thread that invokes
reviewer `r` for session `s`. A thread waits for a process or is about to start
one (`at`), and carries the timeout retries it has left (`left`), the silent
failures that its provider may still answer with another process (`tries`), and
whether it is at the secondary provider (`second`). The attempt of a thread ends
in an answer, a failure, a silent failure, a timeout, or because the guard stopped
it, in which case the task invokes the provider a second time (`GuardTrips`,
`Invoke`).

`Sweep` kills the processes of all sessions and gives up all pending tasks; a
thread does not end with its task. One between two attempts starts its provider
all the same. One whose process was killed sees exit code -9, which
`ExitStatus.from_code` calls a general error, and with nothing on stderr Gemini
tries again (`providers/gemini.py:799`). Both have their remaining retries and
their secondary provider. A thread whose task no longer listens (`Listens`) tells
nobody how it ends; its provider learns of the cancellation only if it looks at
the cancel token (`Polls`). Three things are merged into neighbouring steps: the
cancelled tasks' own handlers, which set the token and kill all children once
more, are part of `Sweep`; a killed process of a thread with no silent failure
left ends that thread at once (`Killed`); and a polling provider whose token is
set ends the process it starts at once (`StartsAgain`).

Results go to disk twice, as `reports` and as a `cache`, and the
synthesis finds its session by the newest file (`Found`), preferring the cache of
that session (`ReviewsOf`). `reviewed` and `answered` observe. Stories, rework,
restarts and a lost cache directory make several sessions share the directory.

### QaBatch

`files[r]` is the file of run `r`: its records, and whether it can be loaded (the
file of an unbatched run is written by the model itself). A command selects
tests (`Execute`, `Retry`), runs category A batch by batch (`RunBatch`,
`SaveBatch`), finishes (`FinishNew`, or the merge of a retry), runs the browser
tests of category B (`Browse` and its failures) and combines both (`Combine`).
Run ids are times to the second, so one command may draw the same id twice
(`Start`).

### LiveView

Three threads of a run (main, metrics, IPC loop), the socket, the client's
reader task and the interface's main loop. `sched` is what `emit` scheduled on
the loop, `chan` what was written and not read, `runner.cache` the state that
`get_state` answers from. `TooSlow` and `Dropped` are the two answers to
back-pressure. `asks` follows the two requests of the interface from the question
to the coroutine that applies the answer. `leaving` are the two events the
handlers set for the main loop.

## 3. What TLC checks

| Run | Instance | Checks | Distinct states |
|---|---|---|---|
| `loop` | test-architect lists (two setup, five story, two teardown phases), every run option, prompts, cancellations, `sprint sync`, two faults | `TypeOK`, `PersistedBeforeRun`, `BoundaryPhasesDone`, `ReviewedBeforeDone`, `SprintNeverAhead`, `PositionNeverBack`, `PhaseKept`, `DeliversInOrder` | 528,072 |
| `manual_edit` | hand edits of sprint-status in any order, the QA teardown, a story list without `dev_story`, every run option, cancellations, one fault | `EvidenceBacked` | 2,201,419 |
| `unattended` | a restart after every failure, nothing else; fairness | `AllDelivered`, `RunEnds` | 2,583 |
| `run_lock` | three pids, four starts, kills, signals, reused pids, `reset-lock` | `TypeOK`, `StatusTruthful`, `DeadRunsFinalized`, `FinalStatusKept`, `RunsExclusive` | 233,672 |
| `dashboard` | two starts, three subprocesses, two requests, flags left by a crash; fairness | `TypeOK`, `OneWorkflow`, `NoOrphan`, `StaleFlagsIgnored`, `StopReachesProcess`, `PauseEnds` | 219,969 |
| `invocation` | a handler or a reviewer with Gemini, Claude or Codex; two processes per call of Gemini, one timeout retry, two rounds, a budget of three calls | `TypeOK`, `OneProcess`, `WithinBudget`, `StartsBounded`, `FinishedIsFinal` | 176,258 |
| `review` | three reviewers (as Claude, Gemini and Codex are), two stories, two sessions, one silent failure and one timeout retry, three faults; fairness | `TypeOK`, `SynthesisIsCurrent`, `QuorumSynthesised`, `AnsweredInTime`, `ReviewersEnd` | 843,054 |
| `qa` | three tests of category A in batches of two, one browser test, three runs | `TypeOK`, `BatchesSurvive`, `RunIsComplete`, `PassedStays` | 689,535 |
| `live_view` | two phases, one reconnect attempt, any number of runs; fairness | `TypeOK`, `EveryPhaseShown`, `CacheSettles`, `NotStranded` | 392,969 |

What they show:

- **The loop.** A handler runs only at a position `state.yaml` holds
  (`PersistedBeforeRun`); nothing is recorded as finished before what must
  precede it: an epic before its boundary phases (`BoundaryPhasesDone`), a story
  before a review that asked for no rework and was not overtaken by another
  development or review (`ReviewedBeforeDone`), either before its report files
  exist (`EvidenceBacked`, which says nothing of what they contain); sprint-status
  shows nothing done that `state.yaml` does not hold completed
  (`SprintNeverAhead`); no restart goes back to an earlier story or epic
  (`PositionNeverBack`); within a story the phase goes back only for a counted
  rework, except that a run which ends inside a setup made in the middle of a
  story loses the phase, and the story starts over (`PhaseKept`); the loop
  implements `Project` (`DeliversInOrder`). Restarted after every failure, and
  with no kill, lost sync, cancellation or prompt, it delivers every story
  (`AllDelivered`), and no run goes on for ever (`RunEnds`). `AllDelivered` speaks
  of that instance only: with kills some refusals to resume are final (section 6),
  and that the last epic is closed is not part of it.
- **The lock.** With one command at a time on its way to the lock, runs are
  exclusive (`RunsExclusive`), the dashboard never shows a live run as idle or
  crashed (`StatusTruthful`), and the logs of dead runs are finalized once and
  for all (`DeadRunsFinalized`, `FinalStatusKept`).
- **The dashboard.** The next subprocess is created when the last one is gone
  (`OneWorkflow`), a live one has a task that reads it (`NoOrphan`), a stop
  reaches it whichever of three coroutines signals it (`StopReachesProcess`), a
  pause ends even if the dashboard does not come back (`PauseEnds`), and flags
  left by earlier runs mean nothing (`StaleFlagsIgnored`).
- **An invocation.** One process at a time and none left (`OneProcess`); a tool
  budget that no retry, secondary provider or late reader gets round
  (`WithinBudget`); a number of processes bounded by the product of the limits
  (`StartsBounded`); no process after one that completed (`FinishedIsFinal`).
- **Review.** The synthesis works on the last session that completed
  (`SynthesisIsCurrent`), on enough reviews (`QuorumSynthesised`), all of them
  answers given in time (`AnsweredInTime`). The collection ends, and so do the
  threads that outlive it, however often their providers start again
  (`ReviewersEnd`).
- **QA.** A run loses at most one batch (`BatchesSurvive`), one that ended is
  complete (`RunIsComplete`), and retries undo no pass (`PassedStays`).
- **Watching.** No phase that starts while the interface is subscribed is
  withheld from it with the connection kept (`EveryPhaseShown`); the cached state
  settles although two threads write it (`CacheSettles`); an interface without a
  connection does not stay there (`NotStranded`), except after a normal goodbye.

Three statements of the code's own documentation fail, each shown by a run whose
counterexample is the result (`findings` of `PROJECT.json`):

| Run | What the counterexample shows |
|---|---|
| `two_starts` | the lock is tested at `core/loop/locking.py:115` and written at 159; two runs started together both run |
| `qa_retry` | a run is killed after a batch with a failure; its retry also executes the test that the run had not reached, and `merge_retry_results` (`qa/batch_executor.py:1147`) drops the result, so that the run stays incomplete however often it is retried |
| `rediscover` | after a goodbye with reason *normal* the client is closed and neither event of the main loop is set (`tui/event_bridge.py:254`), so that the interface does not look for the next run |

**Bounds.** A comment names each bound where it is declared or used.

- *Loop.* Two epics, the first with two stories, give every boundary: first and
  last story, story after story, epic after epic, the last epic. Transitions
  look only at the current epic, the next one, and whether any is left. Two
  setup and two teardown phases let a list be cut in the middle. `MaxFaults`
  bounds kills and lost syncs together: two allow a fault in the run that
  recovers from another. `MaxRework = 1` is the least value at which rework
  happens and is refused.
- *Lock.* Three pids give two runs and a third process that has a dead one's pid;
  four starts let a pid come back to a later run while an earlier log is stale.
- *Dashboard.* Two starts, so that one finds the flags, task and process of
  another; three subprocesses, so that one start has a second iteration.
- *Invocation.* Two at every level (the secondary chain and the rerun are one
  each in the code): the second is the one that differs from the first, and a
  third repeats it. Three calls exceed the cap of a file and the rate, a fourth
  the budget. `MaxPending = 2` leaves a reader with more than one call when its
  process is gone.
- *Review.* Two sessions, one left by a crash or another story; three reviewers
  and a quorum of two, so that one may fail: one as Claude (a secondary provider,
  the cancel token), one as Gemini (retries of its own, the guard), one as Codex
  (the cancel token). Claude's guard is left to `invocation`: one reviewer that is
  run again after the guard shows what that does to a review. Three faults are
  what it takes to lose both reports of a session and its cache.
- *QA.* Two batches, the last one short; three run ids, so that a combined run or
  a retry follows another run.
- *Watching.* Two phases, so that a snapshot may be older than the cache; the
  backlog bounds the metrics events under way, not the others.

Results that hold for all values are those of section 4.

**Deadlock** is checked in `run_lock` only. The other systems really stop: a
project that is done or refused, an invocation that returned, a review whose
stories are done, a user who starts nothing more, run ids used up.

**Fairness.** Stated where a property needs it and nowhere else.

- `DevLoop`: the process takes its next step (`WF_vars(Process)`): it is one
  thread, and every call it makes returns. The operator starts another run
  (`WF_vars(StartRun)`) and, where he acts at all, syncs now and then
  (`SF_vars(SprintSync)`). A phase retried for ever succeeds in the end (`SF` of
  `Execute("ok")`, `SetupSucceeds`, `TeardownSucceeds`): an assumption on the
  providers, without which no loop delivers anything. `RunEnds` does not depend
  on the last group: a failure ends a run. A kill is never fair.
- `DashboardLoop`: coroutines and processes go on when they can (`WF` of
  `StopHandler`, `TaskStep`, `ChildStep`, `Waits`); a signal that was sent
  arrives (`WF` of `ChildDies`); a wait that goes round for ever passes its
  deadline (`SF` of `WaitTimesOut`; the timeout is 60 minutes unless the
  configuration sets it to 0). The user, and an IPC client, do nothing of
  necessity.
- `Review`: the sweep has a deadline (`WF_vars(Sweep)`), the run goes on
  (`WF_vars(Phase)`), and each thread takes its next step: its attempt ends, if
  only by its timeout, and a pause before the next one ends (`WF` of
  `AttemptEnds` or `StartsAgain`). Nothing makes a reviewer answer. `ReviewersEnd` needs a
  positive number of timeout retries for the threads: with 0, which means *without
  limit*, one that outlived its session may start its provider for ever.
- `LiveView`: the threads of the runner that do not wait for a phase, the server
  loop, the reader task and the main loop of the interface take their next step.
  Nothing makes a phase or a run end, a run start, or the operator quit.

## 4. What is proved

For every value of the constants that satisfies the modules' assumptions:

| Theorem | Result | Further hypotheses |
|---|---|---|
| `TypeCorrectness` | `DevLoop`: `Spec => []TypeOK` | - |
| `RunsPersisted` | `Spec => []PersistedBeforeRun` | - |
| `SprintStaysBehind` | `Spec => []SprintNeverAhead` | `ListsApart`, `ManualEdits = FALSE` |
| `LoopDeliversInOrder` | `Spec => DeliversInOrder` | the same |
| `PositionStaysForward` | `Spec => PositionNeverBack` | the same |
| `ProjectInOrder`, `CompletedInOrder` | `Delivery!Spec => []Delivery!InOrder`, and so `Spec => []Delivery!InOrder` | -; `ListsApart`, `ManualEdits = FALSE` |
| `CompletedAfterReview` | `Spec => ReviewedBeforeDone` | `ListsApart`, `ReviewFirst`, `OneReview`, `FailOnUnresolved`, `ManualEdits = FALSE` |
| `CompletedWithEvidence` | `Spec => []EvidenceBacked` | `ListsApart`, `ReviewFirst`, `RetroFirst` |
| `SetupFlaggedWhenDone`, `EpicsTornDown` | `Spec => []SetupBeforeFlag`, `Spec => []ClosedWhenTornDown` | `ListsApart`, `ManualEdits = FALSE` |
| `BoundariesDone` | `Spec => []BoundaryPhasesDone` | the same and `QaLast` |
| `PhaseIsKept` | `Spec => PhaseKept` | `ListsApart`, `NoRepeat`, `ManualEdits = FALSE` |
| `LockTypeCorrectness` | `RunLock`: `Spec => []TypeOK` | - |
| `LockExcludes` | `Spec => []MutualExclusion` | `OneAtATime` |
| `DashboardSeesTheRun` | `Spec => []StatusTruthful` | `OneAtATime` |
| `HistoryIsFinal`, `FinalIsFinal` | `Spec => []DeadRunsFinalized`, `Spec => FinalStatusKept` | `OneAtATime` |
| `LockImplementsExclusiveRuns` | `Spec => RunsExclusive` | `OneAtATime` |
| `DashboardTypes`, `StaleFlagsMeanNothing` | `DashboardLoop`: `Spec => []TypeOK`, `Spec => StaleFlagsIgnored` | - |
| `OneWorkflowAtATime`, `NoProcessOrphaned` | `Spec => []OneWorkflow`, `Spec => []NoOrphan` | `~StartEarly` |
| `InvocationTypes`, `OneProcessAtATime`, `BudgetHolds`, `CompletedWorkIsKept`, `StartsAreBounded` | the five properties of `Invocation` | - |
| `ReviewTypes`, `OnlyTimelyAnswers`, `SynthesisFindsItsSession`, `SynthesisHasQuorum` | the four safety properties of `Review` | - |
| `QaTypes`, `AtMostABatchIsLost`, `EndedRunsAreComplete`, `PassedTestsStayPassed` | the four properties of `QaBatch` | - |
| `LiveViewTypes` | `LiveView`: `Spec => []TypeOK` | - |
| `RequestsAreServed`, `AnswersMatchRequests`, `NobodyStranded` | `Spec => []NobodyWaitsInVain`, `Spec => []AnswersExpected`, `Spec => []OnItsWay` | - |

*The loop.* `ListsApart` says that no phase of the teardown list, and no phase
whose status is *done* (`PhaseToStatus`), is in the story or setup list. The
default, the test-architect and the QA lists satisfy it. It is needed: with
`retrospective` in the story list a sync shows a story done that is not
completed. `ManualEdits = FALSE` is needed because `EditSprint` itself puts
sprint-status ahead. `TypeOK` is not inductive: `HandleStoryCompletion` takes the
least of a set that must not be empty, `EpicSetup[run.step]` needs a step in the
list. `TypeInv` adds that the recorded position is a story of the project
(`Placed`) and that `run.step` is in range where it is used. A sync copies from
the `State` object in memory, so disk and memory must agree on what is completed
wherever a sync may happen, and at a phase whose status is *done* the current
story must be completed already: `SprintInv`. `OrderInv` says that everything
before the position is completed and nothing behind it is (`InPlace`), on disk
and in memory, that memory is never before the disk, that a teardown phase is
recorded only in an epic whose stories are all completed, and that a story which
the run does not hold active is completed. The last part is what a stale active
list could break: `run.active` is read once, from sprint-status, and
`AdvanceToNextEpic` takes the least story of the next epic in it that is not
completed; that this is the *first* story of the epic follows from `SprintInv`
with `InPlace`. The refinement of `Project` then has one case per action: one
that completes a story or an epic is a `Deliver` or a `Close`, or a stutter when
it completes again what a kill made it redo.

*Evidence.* That something is recorded as done only after what must precede it
is one argument, told three times. For stories, `PostReview` are the phases that
come after the first `code_review_synthesis` of the story list, and
`test_review`, which the loop takes for the end of a review too; `ReviewFirst`
says that none of them is also a phase to start from: one before the synthesis,
of setup or teardown, `create_story` or `dev_story`. (`validate_phase_ordering`
of `core/config/models/loop.py` warns of such lists.) `ReviewInv` then says, of
disk and of memory, that the completed stories are reviewed and so is the
current one once its phase is in `PostReview`; that a synthesis which returned an
acceptable result has reviewed its story; and that the phase to restore after a
setup obeys the same. It is stated for a set of stories and a set of results, and
used twice. The first time the results are those that ask for no rework
(`ApprovedInv`), and the stories are the approved or completed ones: `approved`
loses a story when it is developed again or a review of it fails or asks for
rework, and what was completed before stays completed. A withdrawal
(`WithdrawnStep`) happens in `dev_story` or in the synthesis, which are not past
the review if the story list has one synthesis only (`OneReview`). That the
verdict stands at the moment of completion is then a property of the step, which
`ReviewedBeforeDone` states. The second time they are the report files and every
result but a failure (`ReportInv`), which needs no hypothesis on manual edits
because resume validation asks for the files: a file that exists is all that
`CompletedWithEvidence` promises. For epics, `TearInv` says that a recorded teardown
phase has those before it behind it in the list, and that a completed epic has
all of them, up to the first `qa_plan_execute`, which ends an epic wherever it
stands. It too is used twice: with the retrospective reports (`RetroInv`) and
with the phases that succeeded (`TeardownInv`). `RetroFirst` says that the
teardown list has its retrospective and not after `qa_plan_execute`. `QaLast`
says that nothing follows `qa_plan_execute`: the test-architect lists with QA,
where `qa_remediate` does, satisfy `EpicsTornDown` but not `QaLast`, and there a
resumed teardown really closes the epic without `qa_remediate` (section 6). For
setups, `MemInv` says when memory and disk agree (everywhere but in a phase that
was moved to and not saved, and while validation passes over an epic), and
`SetupInv` that the flag stands for the phases of the epic which the position is
in. `PhaseIsKept` needs both, since the phase that a story has reached is on disk
except during a setup in the middle of the story, when it is only in `run.saved`.
`OnwardInv` says that a phase which was moved to and not saved comes after the
saved one, `FreshInv` that a run which created its position (`is_fresh_start`)
has no phase to lose, so that only a resumed one restores. `NoRepeat` says that no
phase is twice in the story list, where `list.index` would find the first place.
All these hypotheses hold of the lists the runs use, except `QaLast` of
`manual_edit`, whose run checks `EvidenceBacked` alone.

*The lock.* `Inv` adds to the properties: at most one start or reset is on its
way (`OneOnTheWay`, where the hypothesis is used); the lock names its holder, and
there is none while a start past the test, or a reset past its own, works on the
file (`LockOwned`, which is what makes a test stay true until the act); live
processes have runs of their own, with a log that is not final before their end
(`LogsOwned`). The refinement maps the holder's run to `current`; a run begins in
`WriteLock` and ends in `ReleaseLock` or `Kill`.

*The dashboard.* `~StartEarly` is the user who starts the loop again only when
the end of the earlier one was reported; a start during a pending stop overwrites
the task that the stop waits for (section 6). `TaskInv` says that the active task
is the latest one, that whatever reads a process reads the current one, and that
nothing but the current process is alive, which has such a reader: what
`stop_loop`, the workflow task and its cancellation each assume of the others
between two awaits. `FlagInv` says that after a run removed the flags, one that
exists was asked for while the run was alive; it needs no hypothesis on starts.

*An invocation.* `Inv` says that a process lives only while `pc = "wait"` and
before its exit is known, and only under a provider that takes the caller's
arguments (`ProcessWaitedFor`), that the calls allowed are those
the guard counted (`CallsCounted`, true because a retry keeps the counters), and
that after a completed process the result on its way up is one that no layer
retries (`FinishedUntouched`), and that the guard of a handler sees no call, since
the one provider which takes its arguments shows it none (`HandlerUnguarded`).
`StartsWithin` bounds the processes by the position in the nest of counters
(`Used`), which grows like a number with one digit for each layer: the run of the
caller, the chain, the timeout attempt, the process.

*Review.* `Inv` ties tasks and control points to the recorded position
(`RunInPhase`), says that what is kept was answered (`KeptAnswered`), that no report is of a later session than the
present one, whose reports are of the present story (`ReportsInOrder`), and
counts the faults that a missing report or cache takes (`FaultsCounted`).
`SynthesisIsCurrent` allows fewer faults than the quorum, `QuorumSynthesised`
one: more can hide a session or leave too little of it.

*QA.* `Inv` says that a command's ids were drawn and what is beyond them is
untouched (`JobPlaced`), that a combined run has a file of its own or the
command's (`CombinedApart`), that tests are taken by one batch each and a retry
takes none that passed (`TestsApart`), that a new run's file is part of what the
command holds (`SavedFromMemory`), and that every test is in a batch or before it
(`TestsCovered`). That a batch has at most `BatchSize` tests (`FirstAreFew`) is
proved by numbering its members: they have different numbers of tests before
them.

*Watching.* `SessionInv` ties the three ends of a connection together: the client
is connected exactly while there is a connection to read, which the server may
have closed; an open one has a server that is up; the main loop looks for a run
with nothing left of the last one, waits to hydrate exactly while its request is
out, answered or failed, and is told when the client gives up. `AnswerInv` says
that an answer on its way is that of a request which waits for it, the only one,
and that a request that was answered over an open connection has its answer on
its way. `OnItsWay` is what is left of `NotStranded` without fairness: in every
state without a connection somebody is there to take the next step. That the
phase on the screen is the phase of the run is no invariant (section 6).

Each inductive invariant was checked with TLC before it was proved.

*Only model-checked.* All liveness (`AllDelivered`, `RunEnds`,
`StopReachesProcess`, `PauseEnds`, `ReviewersEnd`, `EveryPhaseShown`,
`CacheSettles`, `NotStranded`), for which the prover has no rules of fairness
and `ENABLED`. Every safety property of a passing run is stated by a theorem.
Without their hypotheses the theorems about evidence are checked on the lists of
the runs only.

## 5. Not modelled

- *Loop.* `--epic`, `--story`, `--phase`, `--force` and `honor_current_story`; the
  status line in story files, missing entries of sprint-status; timing fields,
  `*_ran_in_epic`, `next_phase` of `PhaseResult`, which no handler sets; a failing
  write of `state.yaml` (it raises, and ends the run like a kill). A held run is
  `BMAD_ASSIST_HOLD_COMPLETED_STORY_BOUNDARY=1`, a stop-after run
  `BMAD_ASSIST_STOP_AFTER_PHASE=1`. Signals end a run like a cancellation, with
  another exit code.
- *Reconciliation.* The three-way merge of `sprint/reconciler.py` and the
  inference of statuses: pure functions over many small cases of text, of which
  `DevLoop` needs only the result on a fresh start (`Repair`).
- *Dashboard.* `LoopController` (direct mode), the SSE broadcaster, routes that
  only read. A start while a stop is pending is a switch of the module
  (`StartEarly`), off in the run (section 6).
- *IPC.* Connection limits, idle timeouts, framing errors, several clients;
  log events.
- *Providers.* Gemini, Claude and Codex on the command line are modelled; the
  others parse other output and kill in other ways. The session of the Claude SDK
  is left out. So is `FallbackProvider` (`providers/fallback.py`): only
  `create_provider` of `core/provider_factory.py` builds one, and nothing calls
  that; `BaseHandler.get_provider` and the reviewers ask the registry. The rate window counts calls of the
  last minute by how many are kept, not by time.
- *Review.* Evidence scores, benchmarking records, the security reviewer. With
  at most five reviewers the size filter drops none. Multi-LLM validation has
  the same fan-out with a cache and no reports. Deep verify is analysis of text.
- *QA.* The generation of plans and tests and the parsing of output.
- Compiler, parser, experiments, git, notifications, benchmarking,
  configuration, bundled workflows: text processing, I/O and data, with no
  protocol between parties. They are much the larger part of the repository, and
  their lines are not claimed by any definition.

## 6. Behaviour met while modelling

No run is about these; the models contain each step.

*Loop.*
- `q` at the prompt after a story returns between the save and the sync
  (`core/loop/runner.py:1847`), and a stop at the first checkpoint of an epic
  leaves the one before open in sprint-status (1840): the next run is refused
  until `sprint sync`.
- A story whose test review was skipped has no report and counts as incomplete
  (`sprint/resume_validation.py:177`). A kill after the last story and before the
  first teardown phase, or a run held there, followed by a sync, is refused by
  every later run (612).
- Setup runs before the loop and so not for a second epic of the same run
  (`runner.py:1842`). A setup that fails in a resumed run loses the phase to
  restore, a local (1205): the story starts again.
- A teardown resumed at `qa_plan_execute` closes the epic without `qa_remediate`
  (1922). With all stories done, a failed last teardown is never resumed: "No
  epics found" (642).
- Rework goes to `dev_story` whether or not the story list has it; a story list
  that does not start with `create_story` starts later stories there all the same
  (`core/loop/story_transitions.py:236`).
- Runs that only ever stop after one phase repeat the last teardown phase
  (`runner.py:1783`). A held story keeps its rework counter for the next one
  (`resume_validation.py:613`); `epic_setup_complete` survives when validation
  passes over an epic marked done by hand (522).

*Dashboard and flags.*
- `wait_for_resume` returns True on a timeout (`core/loop/pause.py:177`); its
  docstring says False. A pause requested while a subprocess starts is deleted by
  its cleanup of old flags.
- A command that cannot be executed leaves `_loop_running` true. A start during a
  pending stop overwrites the task and process that the stop waits for. After an
  IPC stop that ends with exit code 0 the dashboard starts the next run. An IPC
  stop while paused or between phases has no effect (`ipc/commands.py:243`).
- A stale lock whose pid belongs to a program started since blocks every start.

*Providers.*
- `BaseHandler.invoke_provider` always passes `sandbox_mode`
  (`core/loop/handlers/base.py:821`, 873), and only `CodexProvider.invoke` has
  such a parameter (`providers/codex.py:503`). Any other provider raises a
  `TypeError`, which `execute` turns into a failed phase (1031). So in a handler
  no round, rerun or secondary provider gets to work but with Codex, which has no
  guard and no secondary provider: the rest of the nest is exercised by the
  reviewers, whose call has no `sandbox_mode`.
- A late reader may trip the guard of the next attempt; a trip may be reported
  after a timeout. Within one call of Gemini a late reader also stops the next
  attempt's process, by the event, or fails that attempt for a tool which the
  earlier one used (`providers/gemini.py:461`, 509, 538).
- A second stop by the guard does not fail the phase, although it is logged so
  (`core/loop/handlers/base.py:884`).
- `docs/configuration.md:327` describes a guard with other detectors.

*Review.*
- Reports saved before an `InsufficientReviewsError` can be synthesised if all
  reports of the next session fail to be written
  (`code_review/orchestrator.py:1197`). The threshold counts outputs, not
  distinct reviewers.
- The sweep's deadline allows for the timeout retries, but not for the guard's
  rerun or the secondary provider (`code_review/orchestrator.py:299`). What it
  cancels goes on: a thread between two attempts, and a Gemini thread whose
  process the sweep killed (-9 counts as a transient error,
  `providers/gemini.py:799`), start processes that only a later sweep kills. Their answers are not used.

*QA.*
- Retrying a run that was cut short and had no failures ends with "No tests to
  retry - all passed" (`qa/executor.py:535`). The "separate file" of a merge that
  failed is the retried file (1003). A retry with `-c all` takes the newest file,
  which may be that of the browser tests alone; a combined run after a retry has
  the old failure beside the new result. A `results.json` of an earlier execution
  is read as that of this one (`qa/playwright_executor.py:720`).

*Watching.*
- The interface applies the state before it subscribes (`tui/app.py:174`): a
  phase that starts in between is shown only with the next one, as is a phase
  that a late answer overwrote. A goodbye need not be the last event, and events
  may be delivered out of the order of their numbers. The answer to a
  reconnect's ping is the next message, whatever it is (`ipc/client.py:524`).

## 7. Plan

Done: the core (`LoopConfig`, `Lifecycle`, `SprintStatus`, `DevLoop`, `Project`),
the lock, the dashboard, the provider invocation, code review, QA and the live
view, with proofs of every safety property the runs check. What remains, in this
order:

1. Proofs: the refinement of an abstract live view (a screen that follows a run
   it is connected to), and weaker hypotheses for the evidence of unusual phase
   lists.
2. `StartPoint`: `--epic`, `--story`, `--phase`, `--force` and
   `honor_current_story` as actions before `DevLoop`'s start.
3. `Reconcile`: the three-way merge as operators checked against a reference.
4. `LoopController` of the dashboard, and several clients in `LiveView`.
5. Validation sessions, which `Review` fits with a cache and no reports.
