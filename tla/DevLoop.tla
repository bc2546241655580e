------------------------------- MODULE DevLoop -------------------------------
(***************************************************************************)
(* The development loop: run_loop and _run_loop_body of                    *)
(* core/loop/runner.py with the setup and teardown loops of epic_phases.py *)
(* and the resume validation of sprint_sync.py.  One run of the process    *)
(* moves through the control points of "pc"; a run ends, is cancelled, is  *)
(* killed, and a later run starts from what is on disk.                    *)
(***************************************************************************)
EXTENDS SprintStatus

CONSTANTS
    RunOptions,    \* the options a run may be started with
    Prompts,       \* the operator answers the continuation prompts
    Cancels,       \* the dashboard may cancel a run
    OperatorSync,  \* the operator may run "sprint sync" between runs
    ManualEdits,   \* the operator may mark work done in sprint-status
    MaxFaults      \* bound on kills and failed sprint syncs

RunOption == [stopAfter : BOOLEAN, hold : BOOLEAN]

ASSUME DevLoopAssumption ==
    /\ RunOptions \subseteq RunOption
    /\ RunOptions # {}
    /\ {Prompts, Cancels, OperatorSync, ManualEdits} \subseteq BOOLEAN
    /\ MaxFaults \in Nat

VARIABLES
    disk,       \* state.yaml
    sprint,     \* sprint-status.yaml
    artifacts,  \* the durable reports
    pc,         \* where the process is, "off" when there is none
    mem,        \* the State object of the process
    run,        \* the other locals of the run
    exit,       \* how the last run ended, "none" while one is on
    faults,     \* kills and failed syncs so far
    succeeded,  \* observer: epic phases that succeeded, as <<epic, phase>>
    approved    \* observer: stories whose review passed them as they are now

durable == <<disk, sprint, artifacts>>
process == <<pc, mem, run>>
observer == <<succeeded, approved>>
vars == <<disk, sprint, artifacts, pc, mem, run, exit, faults, succeeded, approved>>

Outcome == {"ok", "reject", "reject_zero", "fail"}

Run ==
    [opt : RunOption, active : SUBSET Story, fresh : BOOLEAN,
     advanced : BOOLEAN, saved : Phase \cup {NoPhase}, step : Nat,
     result : Outcome \cup {"none"}, cancelled : BOOLEAN]

NewRun(o, active) ==
    [opt |-> o, active |-> active, fresh |-> FALSE, advanced |-> FALSE,
     saved |-> NoPhase, step |-> 1, result |-> "none", cancelled |-> FALSE]

NoRun == NewRun([stopAfter |-> FALSE, hold |-> FALSE], {})

ControlPoint ==
    {"off", "load", "repair", "validate", "resync", "enter", "setup",
     "setup_run", "restore", "top", "run", "ran", "failed", "saved", "decide",
     "story_prompt", "stage", "teardown", "teardown_run", "teardown_end",
     "epic_done", "epic_prompt", "epic_sync", "exit_sync"}

ExitReason ==
    {"none", "completed", "cancelled", "guardian_halt", "state_error",
     "no_epics", "killed"}

TypeOK ==
    /\ disk \in State
    /\ sprint \in Sprint
    /\ artifacts \in Artifacts
    /\ pc \in ControlPoint
    /\ mem \in State
    /\ run \in Run
    /\ exit \in ExitReason
    /\ faults \in 0..MaxFaults
    /\ succeeded \subseteq Epic \X Phase
    /\ approved \subseteq Story

Init ==
    /\ disk = EmptyState
    /\ sprint = GeneratedSprint
    /\ artifacts = NoArtifacts
    /\ pc = "off"
    /\ mem = EmptyState
    /\ run = NoRun
    /\ exit = "none"
    /\ faults = 0
    /\ succeeded = {}
    /\ approved = {}

-----------------------------------------------------------------------------
(***************************************************************************)
(* What the steps share.                                                   *)
(***************************************************************************)
Goto(from, to) == pc = from /\ pc' = to

Save(st) == mem' = st /\ disk' = st

\* _invoke_sprint_sync: a failure is logged and ignored.
SyncSprint(st) ==
    \/ sprint' = Synced(st, sprint, artifacts) /\ UNCHANGED faults
    \/ faults < MaxFaults /\ faults' = faults + 1 /\ UNCHANGED sprint

Exit(reason) ==
    /\ pc' = "off"
    /\ exit' = reason
    /\ mem' = EmptyState
    /\ run' = NoRun

\* A saved boundary: BMAD_ASSIST_STOP_AFTER_PHASE ends the run there.
SaveAndContinue(st) ==
    IF run.opt.stopAfter
    THEN disk' = st /\ Exit("completed")
    ELSE Save(st) /\ pc' = "top" /\ UNCHANGED <<run, exit>>

\* The same, saved only when the run ends there.
AdvancePhase(phase) ==
    LET st == [mem EXCEPT !.phase = phase]
    IN  IF run.opt.stopAfter
        THEN disk' = st /\ Exit("completed")
        ELSE mem' = st /\ pc' = "top" /\ UNCHANGED <<disk, run, exit>>

\* The reports that may exist after a phase handler returned.  A report is
\* written before the handler's last checks, so a failure may leave one; a
\* test review that is switched off succeeds without one.
Reports(outcome) ==
    LET written ==
            CASE mem.phase = "code_review_synthesis" ->
                    [artifacts EXCEPT !.review = @ \cup {CurrentStory(mem)}]
              [] mem.phase = "test_review" ->
                    [artifacts EXCEPT !.testReview = @ \cup {CurrentStory(mem)}]
              [] mem.phase = "retrospective" ->
                    [artifacts EXCEPT !.retro = @ \cup {mem.epic}]
              [] OTHER -> artifacts
    IN  IF outcome = "fail" \/ mem.phase = "test_review"
        THEN {artifacts, written} ELSE {written}

EpicPhases == PhasesOf(EpicSetup) \cup PhasesOf(EpicTeardown)

Succeeded ==
    IF mem.phase \in EpicPhases
    THEN succeeded \cup {<<mem.epic, mem.phase>>} ELSE succeeded

\* A development makes the verdict on its story obsolete, and so does a review
\* that fails or asks for rework.
Approved(outcome) ==
    IF mem.phase = "code_review_synthesis" /\ outcome \in {"ok", "reject_zero"}
    THEN approved \cup {CurrentStory(mem)}
    ELSE IF mem.phase \in {"dev_story", "code_review_synthesis"}
         THEN approved \ {CurrentStory(mem)} ELSE approved

-----------------------------------------------------------------------------
(***************************************************************************)
(* Start: the command line loads the epics, run_loop takes the lock, the   *)
(* body loads or creates the state and validates it.                       *)
(***************************************************************************)
StartRun ==
    /\ Goto("off", "load")
    /\ ActiveStories(sprint) # {}
    /\ \E o \in RunOptions : run' = NewRun(o, ActiveStories(sprint))
    /\ exit' = "none"
    /\ UNCHANGED <<durable, mem, faults, observer>>

\* "No epics found in project".
NoEpics ==
    /\ pc = "off"
    /\ ActiveStories(sprint) = {}
    /\ exit' = "no_epics"
    /\ UNCHANGED <<durable, process, faults, observer>>

FirstPosition ==
    LET e == Min(ActiveEpics(run.active))
    IN  [disk EXCEPT !.epic = e,
                     !.story = Min(OpenStories(EmptyState, run.active, e)),
                     !.phase = StoryPhases[1]]

\* Mutant: a saved position is not looked for.
FreshStart_Always ==
    /\ Goto("load", "repair")
    /\ Save(FirstPosition)
    /\ run' = [run EXCEPT !.fresh = TRUE]
    /\ UNCHANGED <<sprint, artifacts, exit, faults, observer>>

FreshStart ==
    /\ Goto("load", "repair")
    /\ disk.epic = 0
    /\ Save(FirstPosition)
    /\ run' = [run EXCEPT !.fresh = TRUE]
    /\ UNCHANGED <<sprint, artifacts, exit, faults, observer>>

\* The repair rebuilds sprint-status and syncs the state into it; the
\* operator may cancel it.
Repair ==
    /\ Goto("repair", "validate")
    /\ SyncSprint(mem) \/ UNCHANGED <<sprint, faults>>
    /\ UNCHANGED <<disk, artifacts, mem, run, exit, observer>>

Resume ==
    /\ Goto("load", "validate")
    /\ disk.epic # 0
    /\ mem' = disk
    /\ UNCHANGED <<durable, run, exit, faults, observer>>

\* Validation leaves a teardown or test-review position alone.
KeepsPosition == mem.phase \in TeardownPhases \cup {"test_review"}

EpicIsDone == EpicDurablyDone(mem.epic, sprint, artifacts)
StoryIsDone == StoryDurablyDone(CurrentStory(mem), sprint, artifacts)

\* Validation looks at the stories of the current epic.
LooksAtStories ==
    /\ PriorEpicsDurablyDone(mem, sprint, artifacts)
    /\ ~KeepsPosition
    /\ ~EpicIsDone

\* The StateErrors of validation: an earlier epic or story lacks evidence, the
\* last story is done and its epic is not, the story is done without evidence.
RefuseResume ==
    /\ pc = "validate"
    /\ \/ ~PriorEpicsDurablyDone(mem, sprint, artifacts)
       \/ /\ LooksAtStories
          /\ \/ ~PriorStoriesDurablyDone(mem, sprint, artifacts)
             \/ StoryIsDone /\ IncompleteStories(mem, sprint, artifacts) = {}
             \/ ~StoryIsDone /\ sprint.story[CurrentStory(mem)] = "done"
    /\ Exit("state_error")
    /\ UNCHANGED <<durable, faults, observer>>

SkipDoneEpic ==
    /\ pc = "validate"
    /\ PriorEpicsDurablyDone(mem, sprint, artifacts)
    /\ ~KeepsPosition
    /\ EpicIsDone
    /\ LET st == CompleteEpic(mem)
           advanced == run.advanced \/ mem.epic \notin mem.doneEpics
           next == IncompleteEpics(st, sprint, artifacts)
       IN  IF next = {}
           THEN /\ disk' = IF advanced THEN st ELSE disk
                /\ Exit("completed")
           ELSE /\ mem' = [st EXCEPT !.epic = Min(next), !.story = 1,
                                     !.phase = "create_story"]
                /\ run' = [run EXCEPT !.advanced = advanced]
                /\ UNCHANGED <<disk, pc, exit>>
    /\ UNCHANGED <<sprint, artifacts, faults, observer>>

SkipDoneStory ==
    /\ pc = "validate"
    /\ LooksAtStories
    /\ PriorStoriesDurablyDone(mem, sprint, artifacts)
    /\ StoryIsDone
    /\ LET next == IncompleteStories(mem, sprint, artifacts)
       IN  /\ next # {}
           /\ mem' = [CompleteStory(mem) EXCEPT !.story = Min(next),
                                                !.phase = "create_story"]
    /\ run' = [run EXCEPT !.advanced = TRUE]
    /\ UNCHANGED <<durable, pc, exit, faults, observer>>

\* The position stands.  A state that only passed over recorded epics is
\* dropped for the one that was loaded.
AcceptPosition ==
    /\ pc = "validate"
    /\ PriorEpicsDurablyDone(mem, sprint, artifacts)
    /\ \/ KeepsPosition
       \/ /\ ~EpicIsDone
          /\ PriorStoriesDurablyDone(mem, sprint, artifacts)
          /\ sprint.story[CurrentStory(mem)] # "done"
    /\ IF run.advanced
       THEN Save(mem) /\ pc' = "resync"
       ELSE mem' = disk /\ UNCHANGED disk /\ pc' = "enter"
    /\ UNCHANGED <<sprint, artifacts, run, exit, faults, observer>>

Resync ==
    /\ Goto("resync", "enter")
    /\ SyncSprint(mem)
    /\ UNCHANGED <<disk, artifacts, mem, run, exit, observer>>

-----------------------------------------------------------------------------
(***************************************************************************)
(* Epic setup, once, before the main loop.                                 *)
(***************************************************************************)
EnterLoop ==
    /\ pc = "enter"
    /\ IF ~mem.setupDone /\ EpicSetup # <<>>
       THEN pc' = "setup" /\ run' = [run EXCEPT !.saved = mem.phase]
       ELSE pc' = "top" /\ UNCHANGED run
    /\ UNCHANGED <<durable, mem, exit, faults, observer>>

SetupPhase ==
    /\ Goto("setup", "setup_run")
    /\ Save([mem EXCEPT !.phase = EpicSetup[run.step]])
    /\ UNCHANGED <<sprint, artifacts, run, exit, faults, observer>>

SetupSucceeds ==
    /\ pc = "setup_run"
    /\ succeeded' = Succeeded
    /\ IF run.step < Len(EpicSetup)
       THEN /\ pc' = "setup"
            /\ run' = [run EXCEPT !.step = @ + 1]
            /\ UNCHANGED <<disk, mem>>
       ELSE /\ pc' = "restore"
            /\ Save([mem EXCEPT !.setupDone = TRUE, !.phase = StoryPhases[1]])
            /\ UNCHANGED run
    /\ UNCHANGED <<sprint, artifacts, exit, faults, approved>>

SetupFails ==
    /\ pc = "setup_run"
    /\ disk' = mem
    /\ Exit("guardian_halt")
    /\ UNCHANGED <<sprint, artifacts, faults, observer>>

\* Mutant: the phase is restored only when the run created its position.
RestorePhase_Fresh ==
    /\ Goto("restore", "top")
    /\ IF run.fresh /\ run.saved \in PhasesOf(StoryPhases) \ {mem.phase}
       THEN Save([mem EXCEPT !.phase = run.saved])
       ELSE UNCHANGED <<mem, disk>>
    /\ UNCHANGED <<sprint, artifacts, run, exit, faults, observer>>

\* A resumed run goes back to the story phase it was loaded with.
RestorePhase ==
    /\ Goto("restore", "top")
    /\ IF ~run.fresh /\ run.saved \in PhasesOf(StoryPhases) \ {mem.phase}
       THEN Save([mem EXCEPT !.phase = run.saved])
       ELSE UNCHANGED <<mem, disk>>
    /\ UNCHANGED <<sprint, artifacts, run, exit, faults, observer>>

-----------------------------------------------------------------------------
(***************************************************************************)
(* One iteration: stop check, save, execute, save, sync.                   *)
(***************************************************************************)
\* Mutant: the position is not saved before the handler runs.
BeginPhase_NotSaved ==
    /\ Goto("top", "run")
    /\ ~run.cancelled
    /\ UNCHANGED <<durable, mem, run, exit, faults, observer>>

BeginPhase ==
    /\ Goto("top", "run")
    /\ ~run.cancelled
    /\ disk' = mem
    /\ UNCHANGED <<sprint, artifacts, mem, run, exit, faults, observer>>

\* execute_phase never raises: every handler ends in a result.
Execute(outcome) ==
    /\ Goto("run", "ran")
    /\ outcome \in {"reject", "reject_zero"} => mem.phase = "code_review_synthesis"
    /\ run' = [run EXCEPT !.result = outcome]
    /\ artifacts' \in Reports(outcome)
    /\ succeeded' = IF outcome = "fail" THEN succeeded ELSE Succeeded
    /\ approved' = Approved(outcome)
    /\ UNCHANGED <<disk, sprint, mem, exit, faults>>

\* The safe points at which a cancellation is seen.
StopRequested ==
    /\ pc \in {"top", "ran", "saved"}
    /\ run.cancelled
    /\ Exit("cancelled")
    /\ UNCHANGED <<durable, faults, observer>>

PhaseFails ==
    /\ Goto("ran", "failed")
    /\ ~run.cancelled
    /\ run.result = "fail"
    /\ disk' = mem
    /\ UNCHANGED <<sprint, artifacts, mem, run, exit, faults, observer>>

\* The guardian halts on every failure.
Halt ==
    /\ pc = "failed"
    /\ SyncSprint(mem)
    /\ Exit("guardian_halt")
    /\ UNCHANGED <<disk, artifacts, observer>>

PhaseSucceeds ==
    /\ Goto("ran", "saved")
    /\ ~run.cancelled
    /\ run.result # "fail"
    /\ disk' = mem
    /\ UNCHANGED <<sprint, artifacts, mem, run, exit, faults, observer>>

SyncPhase ==
    /\ Goto("saved", "decide")
    /\ ~run.cancelled
    /\ SyncSprint(mem)
    /\ UNCHANGED <<disk, artifacts, mem, run, exit, observer>>

-----------------------------------------------------------------------------
(***************************************************************************)
(* What to do next, for the phases that end a story.                       *)
(***************************************************************************)
Synthesis == mem.phase = "code_review_synthesis"
Negative == Synthesis /\ run.result = "reject"
MayRework == ReworkEnabled /\ mem.rework < MaxRework

\* Mutant: fail_on_unresolved_negative_code_review is ignored.
Passes_Unresolved == Synthesis /\ (Negative => ~MayRework)

\* The review lets the story pass.
Passes == Synthesis /\ (Negative => ~MayRework /\ ~FailOnUnresolved)

\* Mutant: the attempt is not counted.
Rework_Uncounted ==
    /\ pc = "decide"
    /\ Negative
    /\ MayRework
    /\ SaveAndContinue([mem EXCEPT !.phase = "dev_story"])
    /\ UNCHANGED <<sprint, artifacts, faults, observer>>

Rework ==
    /\ pc = "decide"
    /\ Negative
    /\ MayRework
    /\ SaveAndContinue([mem EXCEPT !.phase = "dev_story", !.rework = @ + 1])
    /\ UNCHANGED <<sprint, artifacts, faults, observer>>

RefuseUnresolved ==
    /\ pc = "decide"
    /\ Negative
    /\ ~MayRework
    /\ FailOnUnresolved
    /\ Exit("state_error")
    /\ UNCHANGED <<durable, faults, observer>>

AfterReview ==
    /\ pc = "decide"
    /\ Passes
    /\ GetNextPhase(mem.phase) # NoPhase
    /\ SaveAndContinue([mem EXCEPT !.phase = GetNextPhase(mem.phase)])
    /\ UNCHANGED <<sprint, artifacts, faults, observer>>

StoryFinished ==
    \/ mem.phase = "test_review"
    \/ Passes /\ GetNextPhase(mem.phase) = NoPhase

HoldStory ==
    /\ Goto("decide", "exit_sync")
    /\ StoryFinished
    /\ run.opt.hold
    /\ Save(CompleteStory(mem))
    /\ UNCHANGED <<sprint, artifacts, run, exit, faults, observer>>

NextStory ==
    /\ Goto("decide", "story_prompt")
    /\ StoryFinished
    /\ ~run.opt.hold
    /\ ~IsLastStoryInEpic(CompleteStory(mem))
    /\ Save(HandleStoryCompletion(mem))
    /\ UNCHANGED <<sprint, artifacts, run, exit, faults, observer>>

LastStory ==
    /\ pc = "decide"
    /\ StoryFinished
    /\ ~run.opt.hold
    /\ IsLastStoryInEpic(CompleteStory(mem))
    /\ Save(HandleStoryCompletion(mem))
    /\ pc' = CASE run.opt.stopAfter -> "stage"
               [] ~run.opt.stopAfter /\ EpicTeardown = <<>> -> "teardown_end"
               [] OTHER -> "teardown"
    /\ run' = [run EXCEPT !.step = 1]
    /\ UNCHANGED <<sprint, artifacts, exit, faults, observer>>

QuitAtPrompt ==
    /\ pc \in {"story_prompt", "epic_prompt"}
    /\ Prompts
    /\ Exit("completed")
    /\ UNCHANGED <<durable, faults, observer>>

BeginStory ==
    /\ pc = "story_prompt"
    /\ SyncSprint(mem)
    /\ IF run.opt.stopAfter
       THEN Exit("completed")
       ELSE pc' = "top" /\ UNCHANGED <<mem, run, exit>>
    /\ UNCHANGED <<disk, artifacts, observer>>

-----------------------------------------------------------------------------
(***************************************************************************)
(* Epic teardown and the end of the epic.                                  *)
(***************************************************************************)
StageTeardown ==
    /\ Goto("stage", "exit_sync")
    /\ IF EpicTeardown = <<>>
       THEN UNCHANGED <<mem, disk>>
       ELSE Save([mem EXCEPT !.phase = EpicTeardown[1]])
    /\ UNCHANGED <<sprint, artifacts, run, exit, faults, observer>>

TeardownPhase ==
    /\ Goto("teardown", "teardown_run")
    /\ Save([mem EXCEPT !.phase = EpicTeardown[run.step]])
    /\ UNCHANGED <<sprint, artifacts, run, exit, faults, observer>>

TeardownSucceeds ==
    /\ pc = "teardown_run"
    /\ artifacts' \in Reports("ok")
    /\ succeeded' = Succeeded
    /\ IF run.step < Len(EpicTeardown)
       THEN pc' = "teardown" /\ run' = [run EXCEPT !.step = @ + 1]
       ELSE pc' = "teardown_end" /\ UNCHANGED run
    /\ UNCHANGED <<disk, sprint, mem, exit, faults, approved>>

\* Mutant: a failed teardown phase is passed over.
TeardownFails_PassedOver ==
    /\ Goto("teardown_run", "teardown_end")
    /\ artifacts' \in Reports("fail")
    /\ UNCHANGED <<disk, sprint, mem, run, exit, faults, observer>>

TeardownFails ==
    /\ Goto("teardown_run", "failed")
    /\ artifacts' \in Reports("fail")
    /\ disk' = mem
    /\ UNCHANGED <<sprint, mem, run, exit, faults, observer>>

SyncTeardown ==
    /\ Goto("teardown_end", "epic_done")
    /\ SyncSprint(mem)
    /\ UNCHANGED <<disk, artifacts, mem, run, exit, observer>>

\* A teardown phase that runs in the main loop (after a resume) ends the epic
\* when it is QA_PLAN_EXECUTE or the last of the list.
EndsEpicInLoop ==
    /\ pc = "decide"
    /\ \/ mem.phase = "qa_plan_execute"
       \/ /\ mem.phase \in PhasesOf(EpicTeardown) \ {"code_review_synthesis", "test_review"}
          /\ GetNextPhase(mem.phase) = NoPhase
          /\ GetNextTeardownPhase(mem.phase) = NoPhase

EndOfEpic == pc = "epic_done" \/ EndsEpicInLoop

\* Record the completed epic and stop: a stop-after run, or no epic is left.
CompleteAndStop ==
    /\ EndOfEpic
    /\ run.opt.stopAfter \/ NoNextEpic(CompleteEpic(mem), run.active)
    /\ Save(CompleteEpic(mem))
    /\ pc' = "exit_sync"
    /\ UNCHANGED <<sprint, artifacts, run, exit, faults, observer>>

\* On to the next epic; StateError when its stories are all completed while
\* the epic itself is not.
NextEpic ==
    /\ EndOfEpic
    /\ ~run.opt.stopAfter
    /\ ~NoNextEpic(CompleteEpic(mem), run.active)
    /\ IF NextEpicExhausted(CompleteEpic(mem), run.active)
       THEN Exit("state_error") /\ UNCHANGED disk
       ELSE /\ Save(HandleEpicCompletion(mem, run.active))
            /\ pc' = IF pc = "epic_done" THEN "epic_prompt" ELSE "epic_sync"
            /\ UNCHANGED <<run, exit>>
    /\ UNCHANGED <<sprint, artifacts, faults, observer>>

BeginEpic ==
    /\ Goto("epic_prompt", "top")
    /\ UNCHANGED <<durable, mem, run, exit, faults, observer>>

SyncEpic ==
    /\ Goto("epic_sync", "top")
    /\ SyncSprint(mem)
    /\ UNCHANGED <<disk, artifacts, mem, run, exit, observer>>

ExitSync ==
    /\ pc = "exit_sync"
    /\ SyncSprint(mem)
    /\ Exit("completed")
    /\ UNCHANGED <<disk, artifacts, observer>>

-----------------------------------------------------------------------------
(***************************************************************************)
(* Every other phase: the next one of its list.                            *)
(***************************************************************************)
Ordinary ==
    /\ pc = "decide"
    /\ mem.phase \notin {"code_review_synthesis", "test_review", "qa_plan_execute"}

NextPhase ==
    /\ Ordinary
    /\ GetNextPhase(mem.phase) # NoPhase
    /\ AdvancePhase(GetNextPhase(mem.phase))
    /\ UNCHANGED <<sprint, artifacts, faults, observer>>

NextTeardownPhase ==
    /\ Ordinary
    /\ GetNextPhase(mem.phase) = NoPhase
    /\ GetNextTeardownPhase(mem.phase) # NoPhase
    /\ AdvancePhase(GetNextTeardownPhase(mem.phase))
    /\ UNCHANGED <<sprint, artifacts, faults, observer>>

\* "Cannot advance past": the phase is in neither list.
CannotAdvance ==
    /\ Ordinary
    /\ GetNextPhase(mem.phase) = NoPhase
    /\ mem.phase \notin PhasesOf(EpicTeardown)
    /\ Exit("state_error")
    /\ UNCHANGED <<durable, faults, observer>>

-----------------------------------------------------------------------------
(***************************************************************************)
(* The process is killed; the dashboard cancels; the operator syncs.       *)
(***************************************************************************)
Kill ==
    /\ pc # "off"
    /\ faults < MaxFaults
    /\ faults' = faults + 1
    /\ Exit("killed")
    /\ UNCHANGED <<durable, observer>>

Cancel ==
    /\ Cancels
    /\ pc # "off"
    /\ ~run.cancelled
    /\ run' = [run EXCEPT !.cancelled = TRUE]
    /\ UNCHANGED <<durable, pc, mem, exit, faults, observer>>

SprintSync ==
    /\ OperatorSync
    /\ pc = "off"
    /\ disk.epic # 0
    /\ sprint' = Synced(disk, sprint, artifacts)
    /\ UNCHANGED <<disk, artifacts, process, exit, faults, observer>>

\* sprint-status edited by hand, in the words of validate_resume_state "manually
\* updated to mark work as done"; the retrospective of an epic may have been
\* held, and reported, outside the loop.
EditSprint ==
    /\ ManualEdits
    /\ pc = "off"
    /\ \/ /\ \E s \in Story : sprint' = [sprint EXCEPT !.story[s] = "done"]
          /\ UNCHANGED artifacts
       \/ \E e \in Epic :
            /\ sprint' = [sprint EXCEPT !.epic[e] = "done", !.retro[e] = "done"]
            /\ artifacts' \in {artifacts, [artifacts EXCEPT !.retro = @ \cup {e}]}
    /\ UNCHANGED <<disk, process, exit, faults, observer>>

-----------------------------------------------------------------------------
Start ==
    \/ FreshStart \/ Repair \/ Resume
    \/ RefuseResume \/ SkipDoneEpic \/ SkipDoneStory \/ AcceptPosition \/ Resync

Setup == EnterLoop \/ SetupPhase \/ SetupSucceeds \/ SetupFails \/ RestorePhase

Iterate ==
    \/ BeginPhase
    \/ \E outcome \in Outcome : Execute(outcome)
    \/ StopRequested \/ PhaseFails \/ Halt \/ PhaseSucceeds \/ SyncPhase

FinishStory ==
    \/ Rework \/ RefuseUnresolved \/ AfterReview
    \/ HoldStory \/ NextStory \/ LastStory \/ QuitAtPrompt \/ BeginStory

FinishEpic ==
    \/ StageTeardown \/ TeardownPhase \/ TeardownSucceeds \/ TeardownFails
    \/ SyncTeardown \/ CompleteAndStop \/ NextEpic
    \/ BeginEpic \/ SyncEpic \/ ExitSync

Advance == NextPhase \/ NextTeardownPhase \/ CannotAdvance

Process == Start \/ Setup \/ Iterate \/ FinishStory \/ FinishEpic \/ Advance

Environment ==
    StartRun \/ NoEpics \/ Kill \/ Cancel \/ SprintSync \/ EditSprint

Next == Process \/ Environment

Spec == Init /\ [][Next]_vars

\* The process takes its next step, the operator starts another run after one
\* that ended and now and then syncs sprint-status, and a phase that is retried
\* for ever succeeds in the end.
Fairness ==
    /\ WF_vars(Process)
    /\ WF_vars(StartRun)
    /\ SF_vars(SprintSync)
    /\ SF_vars(Execute("ok"))
    /\ SF_vars(SetupSucceeds)
    /\ SF_vars(TeardownSucceeds)

FairSpec == Spec /\ Fairness

-----------------------------------------------------------------------------
(***************************************************************************)
(* Safety.                                                                 *)
(***************************************************************************)
\* A phase handler only ever runs at a position that state.yaml already holds:
\* a kill during the handler resumes that very phase.
PersistedBeforeRun ==
    pc \in {"run", "ran", "setup_run", "teardown_run"} => disk = mem

\* The setup of an epic is flagged complete only after every phase of its list
\* succeeded for it.
SetupBeforeFlag ==
    disk.setupDone =>
        \A phase \in PhasesOf(EpicSetup) : <<disk.epic, phase>> \in succeeded

\* An epic is closed only after every phase of the teardown list did.
TeardownBeforeClose ==
    \A e \in disk.doneEpics :
        \A phase \in PhasesOf(EpicTeardown) : <<e, phase>> \in succeeded

\* No epic boundary is taken for behind before it is, whatever setups and
\* teardowns were cut short, resumed in another loop or run again.
BoundaryPhasesDone == SetupBeforeFlag /\ TeardownBeforeClose

\* Nothing is recorded as completed without the file that resume validation
\* looks for, whatever the file says: a review report for a story, a
\* retrospective report for an epic.
EvidenceBacked ==
    /\ disk.doneStories \subseteq artifacts.review
    /\ disk.doneEpics \subseteq artifacts.retro

\* sprint-status never shows a story or an epic done that state.yaml does not
\* hold completed, nor a retrospective done that left no report.
SprintNeverAhead ==
    /\ \A s \in Story : sprint.story[s] = "done" => s \in disk.doneStories
    /\ \A e \in Epic : sprint.epic[e] = "done" => e \in disk.doneEpics
    /\ \A e \in Epic : sprint.retro[e] = "done" => e \in artifacts.retro

\* The recorded position never moves back to an earlier story, over kills,
\* lost syncs, held stories and restarts.
PositionNeverBack ==
    [][ disk.epic # 0 =>
            \/ disk'.epic > disk.epic
            \/ disk'.epic = disk.epic /\ disk'.story >= disk.story ]_disk

\* The phase that the current story has reached: while a setup runs in the
\* middle of it, the one that the run is to restore.
SetupPoint == {"setup", "setup_run", "restore"}
PhaseReached == IF pc \in SetupPoint THEN run.saved ELSE disk.phase

\* To a later phase of the story or the teardown behind it; from a phase that
\* is none of the story's, which a setup left behind, to its first one.
Onward(from, to) ==
    IF from \in PhasesOf(StoryPhases)
    THEN \/ to \in PhasesOf(EpicTeardown)
         \/ /\ to \in PhasesOf(StoryPhases)
            /\ PhaseIndex(StoryPhases, from) <= PhaseIndex(StoryPhases, to)
    ELSE to \in PhasesOf(StoryPhases) => to = StoryPhases[1]

\* Within a story the phase reached moves back only for a counted rework, over
\* restarts and over setups made in the middle of the story.  It is lost only
\* where a run ends inside such a setup; the story then starts over.
PhaseKept ==
    [][ CurrentStory(disk') = CurrentStory(disk) =>
            \/ Onward(PhaseReached, PhaseReached')
            \/ disk'.rework = disk.rework + 1 /\ disk'.rework <= MaxRework
            \/ pc \in SetupPoint /\ pc' = "off" ]_<<disk, pc, run>>

\* A story is recorded completed only with its last review for it: the verdict
\* on the last development of the story did not ask for rework, over kills, used
\* up attempts, failed reviews and stories developed anew.
ReviewedBeforeDone ==
    [][disk'.doneStories \ disk.doneStories \subseteq approved']_disk

\* The project as state.yaml records it behaves as the loop promises.
Delivery == INSTANCE Project WITH delivered <- disk.doneStories,
                                  closed <- disk.doneEpics

DeliversInOrder == Delivery!Spec

-----------------------------------------------------------------------------
(***************************************************************************)
(* Liveness.                                                               *)
(***************************************************************************)
\* Every story is delivered in the end.
AllDelivered == <>(disk.doneStories = Story)

\* Every run ends: rework, resume validation and the epic loop are finite.
RunEnds == pc # "off" ~> pc = "off"
=============================================================================
