----------------------- MODULE DevLoopEvidence_proofs -----------------------
(***************************************************************************)
(* What the development loop records has its evidence: a completed story   *)
(* its review and a review report, a completed epic its retrospective      *)
(* report and its teardown, a set up epic its setup; and the phase that a  *)
(* story reached is kept.                                                  *)
(***************************************************************************)
EXTENDS DevLoop_proofs

-----------------------------------------------------------------------------
(***************************************************************************)
(* The lists of phases.                                                    *)
(***************************************************************************)
\* The first position of a phase is one of its positions, and no later than
\* any other.
LEMMA PhaseIndexFirst ==
    ASSUME NEW list \in Seq(Phase), NEW p \in PhasesOf(list)
    PROVE  /\ PhaseIndex(list, p) \in DOMAIN list
           /\ PhaseIndex(list, p) \in Nat
           /\ list[PhaseIndex(list, p)] = p
           /\ \A i \in DOMAIN list : list[i] = p => PhaseIndex(list, p) <= i
<1>. DEFINE I == {i \in DOMAIN list : list[i] = p}
<1>1. I \subseteq Nat /\ I # {} /\ DOMAIN list \subseteq Nat
  BY DEF PhasesOf
<1>2. Min(I) \in I /\ \A i \in I : Min(I) <= i
  <2>. HIDE DEF I
  <2>. QED
    BY <1>1, MinProperty
<1>. QED
  BY <1>1, <1>2 DEF PhaseIndex

\* The phase after a phase of the story list: nothing that applies lies
\* between the two.
LEMMA NextPhaseLeast ==
    ASSUME NEW p, GetNextPhase(p) # NoPhase
    PROVE  /\ p \in PhasesOf(StoryPhases)
           /\ \E j \in LaterPhases(p) :
                /\ GetNextPhase(p) = StoryPhases[j]
                /\ \A k \in LaterPhases(p) : j <= k
<1>1. p \in PhasesOf(StoryPhases) /\ LaterPhases(p) # {}
      /\ GetNextPhase(p) = StoryPhases[Min(LaterPhases(p))]
  BY DEF GetNextPhase
<1>2. LaterPhases(p) \subseteq Nat
  BY PhaseLists DEF LaterPhases
<1>. QED
  BY <1>1, <1>2, MinProperty

\* The teardown phase that follows another one.
LEMMA NextTeardownPhaseIn ==
    ASSUME NEW p, GetNextTeardownPhase(p) # NoPhase
    PROVE  /\ p \in PhasesOf(EpicTeardown)
           /\ PhaseIndex(EpicTeardown, p) + 1 \in DOMAIN EpicTeardown
           /\ GetNextTeardownPhase(p) = EpicTeardown[PhaseIndex(EpicTeardown, p) + 1]
           /\ GetNextTeardownPhase(p) \in PhasesOf(EpicTeardown)
<1>1. /\ p \in PhasesOf(EpicTeardown)
      /\ PhaseIndex(EpicTeardown, p) # Len(EpicTeardown)
      /\ GetNextTeardownPhase(p) = EpicTeardown[PhaseIndex(EpicTeardown, p) + 1]
  BY DEF GetNextTeardownPhase
<1>2. PhaseIndex(EpicTeardown, p) \in DOMAIN EpicTeardown
  BY <1>1, PhaseIndexFirst, LoopConfigAssumption
<1>3. PhaseIndex(EpicTeardown, p) + 1 \in DOMAIN EpicTeardown
  BY <1>1, <1>2, LoopConfigAssumption
<1>. QED
  BY <1>1, <1>3 DEF PhasesOf

-----------------------------------------------------------------------------
(***************************************************************************)
(* Reviews come first: the phases of a story that only follow a            *)
(* code_review_synthesis, and a test review wherever it is, which ends the *)
(* story.  The order the code warns about when a configuration breaks it.  *)
(***************************************************************************)
PastReview ==
    {i \in DOMAIN StoryPhases :
        \E k \in DOMAIN StoryPhases :
            k < i /\ StoryPhases[k] = "code_review_synthesis"}

PostReview == {StoryPhases[i] : i \in PastReview} \cup {"test_review"}

OtherPhases ==
    {StoryPhases[i] : i \in DOMAIN StoryPhases \ PastReview}
        \cup PhasesOf(EpicSetup) \cup PhasesOf(EpicTeardown)
        \cup {"create_story", "dev_story"}

ReviewFirst == PostReview \cap OtherPhases = {}

LEMMA BeforeReview ==
    ASSUME ReviewFirst
    PROVE  /\ StoryPhases[1] \notin PostReview
           /\ \A p \in PhasesOf(EpicSetup) \cup PhasesOf(EpicTeardown) : p \notin PostReview
           /\ "create_story" \notin PostReview
           /\ "dev_story" \notin PostReview
<1>1. 1 \in DOMAIN StoryPhases \ PastReview
  <2>1. DOMAIN StoryPhases = 1..Len(StoryPhases)
    BY LoopConfigAssumption
  <2>. QED
    BY <2>1, PhaseLists DEF PastReview
<1>. QED
  BY <1>1 DEF ReviewFirst, OtherPhases

\* A phase past the review is only reached from one, or from the synthesis.
LEMMA NextPastReview ==
    ASSUME ReviewFirst, NEW p, GetNextPhase(p) \in PostReview
    PROVE  p \in PostReview \/ p = "code_review_synthesis"
<1>1. GetNextPhase(p) # NoPhase
  BY PhaseLists DEF PostReview, PastReview, NoPhase, Phase
<1>2. p \in PhasesOf(StoryPhases)
  BY <1>1, NextPhaseLeast
<1>3. PICK j \in LaterPhases(p) :
            GetNextPhase(p) = StoryPhases[j] /\ \A k \in LaterPhases(p) : j <= k
  BY <1>1, NextPhaseLeast
<1>. DEFINE i == PhaseIndex(StoryPhases, p)
<1>4. i \in DOMAIN StoryPhases /\ i \in Nat /\ StoryPhases[i] = p
  BY <1>2, PhaseIndexFirst, LoopConfigAssumption
<1>5. j \in DOMAIN StoryPhases /\ j \in Nat /\ j > i
  BY PhaseLists DEF LaterPhases
<1>. HIDE DEF i
<1>6. j \in PastReview
  BY <1>3, <1>5 DEF ReviewFirst, OtherPhases
<1>7. PICK k \in DOMAIN StoryPhases : k < j /\ StoryPhases[k] = "code_review_synthesis"
  BY <1>6 DEF PastReview
<1>8. k \in Nat
  BY PhaseLists
<1>9. CASE k < i
  BY <1>4, <1>9, <1>7 DEF PastReview, PostReview
<1>10. CASE k = i
  BY <1>4, <1>7, <1>10
<1>11. CASE k > i
  <2>1. Applicable(StoryPhases[k])
    BY <1>7 DEF Applicable, TestarchPhases, QaPlanPhases
  <2>2. k \in LaterPhases(p)
    BY <2>1, <1>11 DEF LaterPhases, i
  <2>. QED
    BY <1>3, <1>5, <1>7, <1>8, <2>2
<1>. QED
  BY <1>4, <1>8, <1>9, <1>10, <1>11

-----------------------------------------------------------------------------
(***************************************************************************)
(* The result of a phase is known once its handler returned, and no failed *)
(* phase is saved as a success.                                            *)
(***************************************************************************)
ResultInv ==
    /\ pc = "ran" => run.result \in Outcome
    /\ pc \in {"saved", "decide"} => run.result \in Outcome \ {"fail"}

LEMMA ResultInvariance == Spec => [](TypeInv /\ ResultInv)
<1>1. Init => ResultInv
  BY DEF Init, ResultInv
<1>2. TypeInv /\ ResultInv /\ [Next]_vars => ResultInv'
  <2>. SUFFICES ASSUME TypeInv, ResultInv, [Next]_vars PROVE ResultInv'
    OBVIOUS
  <2>. USE DEF ResultInv, Goto, Exit
  <2>0. run \in Run
    BY DEF TypeInv, TypeOK
  <2>1. CASE Start
    BY <2>1 DEF Start, FreshStart, Repair, Resume, RefuseResume, SkipDoneEpic,
                SkipDoneStory, AcceptPosition, Resync
  <2>2. CASE Setup
    BY <2>2 DEF Setup, EnterLoop, SetupPhase, SetupSucceeds, SetupFails, RestorePhase
  <2>3. CASE Iterate
    <3>1. ASSUME NEW outcome \in Outcome, Execute(outcome) PROVE ResultInv'
      BY <2>0, <3>1 DEF Execute, Run
    <3>2. CASE BeginPhase \/ StopRequested \/ PhaseFails \/ Halt \/ PhaseSucceeds \/ SyncPhase
      BY <3>2 DEF BeginPhase, StopRequested, PhaseFails, Halt, PhaseSucceeds, SyncPhase
    <3>. QED
      BY <2>3, <3>1, <3>2 DEF Iterate
  <2>4. CASE FinishStory
    BY <2>4 DEF FinishStory, Rework, RefuseUnresolved, AfterReview, HoldStory, NextStory,
                LastStory, QuitAtPrompt, BeginStory, SaveAndContinue
  <2>5. CASE FinishEpic
    BY <2>5 DEF FinishEpic, StageTeardown, TeardownPhase, TeardownSucceeds,
                TeardownFails, SyncTeardown, CompleteAndStop, NextEpic, BeginEpic,
                SyncEpic, ExitSync
  <2>6. CASE Advance
    BY <2>6 DEF Advance, NextPhase, NextTeardownPhase, CannotAdvance, AdvancePhase
  <2>7. CASE Environment
    <3>1. CASE Cancel
      BY <2>0, <3>1 DEF Cancel, Run
    <3>2. CASE StartRun \/ NoEpics \/ Kill \/ SprintSync \/ EditSprint
      BY <3>2 DEF StartRun, NoEpics, Kill, SprintSync, EditSprint, process
    <3>. QED
      BY <2>7, <3>1, <3>2 DEF Environment
  <2>8. CASE UNCHANGED vars
    BY <2>8 DEF vars
  <2>. QED
    BY <2>1, <2>2, <2>3, <2>4, <2>5, <2>6, <2>7, <2>8 DEF Next, Process
<1>. QED
  BY <1>1, <1>2, TypeInvariance, PTL DEF Spec

-----------------------------------------------------------------------------
(***************************************************************************)
(* Reviewed work.  X holds the stories with a review and V the results of  *)
(* a synthesis that put its story there: the report it leaves, or the      *)
(* verdict it gives.  A story is past its review only if it has one.       *)
(***************************************************************************)
Reviewed(st, X) ==
    /\ st.doneStories \subseteq X
    /\ st.phase \in PostReview => CurrentStory(st) \in X

ReviewInv(d, m, at, r, X, V) ==
    /\ d.epic # 0 => Reviewed(d, X)
    /\ d.doneStories \subseteq X
    /\ at \notin {"off", "load"} => Reviewed(m, X)
    /\ /\ at \in {"ran", "saved", "decide"}
       /\ m.phase = "code_review_synthesis"
       /\ r.result \in V
       => CurrentStory(m) \in X
    /\ at \in {"setup", "setup_run", "restore"} /\ r.saved \in PostReview
       => CurrentStory(m) \in X

\* What the two kinds of review have in common: they are never taken back, a
\* result in V brings one, a story is skipped or passed only with one.
ReviewStep(X, Y, V) ==
    /\ X \subseteq Y
    /\ SkipDoneStory => CurrentStory(mem) \in X
    /\ \A outcome \in V :
            Execute(outcome) /\ mem.phase = "code_review_synthesis"
                => CurrentStory(mem) \in Y
    /\ pc = "decide" /\ Passes => run.result \in V

\* The end of a run leaves what it saved.
LEMMA ExitReviewed ==
    ASSUME NEW X, NEW Y, NEW V, X \subseteq Y, ReviewInv(disk, mem, pc, run, X, V),
           NEW reason, Exit(reason),
           disk' = disk \/ (pc \notin {"off", "load"} /\ disk' = mem) \/ Reviewed(disk', Y)
    PROVE  ReviewInv(disk', mem', pc', run', Y, V)
BY DEF ReviewInv, Reviewed, Exit

\* A run goes on with a state that has its reviews, saved or not.
LEMMA MoveReviewed ==
    ASSUME NEW X, NEW Y, NEW V, X \subseteq Y, ReviewInv(disk, mem, pc, run, X, V),
           Reviewed(mem', Y), disk' = disk \/ disk' = mem',
           pc' \notin {"ran", "saved", "decide", "setup", "setup_run", "restore"}
    PROVE  ReviewInv(disk', mem', pc', run', Y, V)
BY DEF ReviewInv, Reviewed

LEMMA ContinueReviewed ==
    ASSUME NEW X, NEW Y, NEW V, X \subseteq Y, ReviewInv(disk, mem, pc, run, X, V),
           NEW st, Reviewed(st, Y), SaveAndContinue(st)
    PROVE  ReviewInv(disk', mem', pc', run', Y, V)
BY ExitReviewed, MoveReviewed DEF SaveAndContinue, Save

\* The transitions of the state.
LEMMA PhaseReviewed ==
    ASSUME NEW X, NEW st \in Position, Reviewed(st, X), NEW p,
           p \in PostReview => CurrentStory(st) \in X
    PROVE  Reviewed([st EXCEPT !.phase = p], X)
BY DEF Reviewed, CurrentStory, Position, State

LEMMA AdvanceReviewed ==
    ASSUME NEW X, NEW Y, NEW V, X \subseteq Y, ReviewInv(disk, mem, pc, run, X, V),
           mem \in Position, Reviewed(mem, Y), NEW p, AdvancePhase(p),
           p \in PostReview => CurrentStory(mem) \in Y
    PROVE  ReviewInv(disk', mem', pc', run', Y, V)
BY PhaseReviewed, ExitReviewed, MoveReviewed DEF AdvancePhase

LEMMA CompletedReviewed ==
    ASSUME NEW X, NEW st \in Position, Reviewed(st, X)
    PROVE  /\ Reviewed(CompleteEpic(st), X)
           /\ CurrentStory(st) \in X => Reviewed(CompleteStory(st), X)
BY DEF Reviewed, CompleteEpic, CompleteStory, CurrentStory, Position, State

LEMMA NewStoryReviewed ==
    ASSUME ReviewFirst, NEW X, NEW st \in State, Reviewed(st, X), NEW u \in State,
           u.doneStories = st.doneStories, u.phase = "create_story"
    PROVE  Reviewed(u, X)
BY BeforeReview DEF Reviewed

\* A story ends with its review.
LEMMA FinishedReviewed ==
    ASSUME TypeInv, NEW X, NEW Y, NEW V, ReviewStep(X, Y, V),
           ReviewInv(disk, mem, pc, run, X, V), pc = "decide", StoryFinished
    PROVE  CurrentStory(mem) \in X
BY DEF StoryFinished, ReviewStep, ReviewInv, Reviewed, PostReview, Passes, Synthesis

LEMMA StartKeepsReviewed ==
    ASSUME ReviewFirst, TypeInv, ResultInv, NEW X, NEW Y, NEW V, ReviewStep(X,
        Y, V), ReviewInv(disk, mem, pc, run, X, V), Start
    PROVE  ReviewInv(disk', mem', pc', run', Y, V)
<1>. USE DEF Goto
<1>0. /\ disk \in State /\ mem \in State /\ run \in Run /\ X \subseteq Y
      /\ pc \notin {"off", "load"} => mem \in Position /\ disk \in Position
      /\ pc \notin {"off", "load"} => Reviewed(mem, X) /\ Reviewed(mem, Y)
  BY DEF TypeInv, TypeOK, Placed, ReviewStep, ReviewInv, Reviewed
<1>1. CASE FreshStart
  <2>1. Reviewed(FirstPosition, X)
    BY <1>0, BeforeReview DEF FirstPosition, ReviewInv, Reviewed, State
  <2>. QED
    BY <1>1, <1>0, <2>1, MoveReviewed DEF FreshStart, Save, Reviewed
<1>2. CASE Repair
  BY <1>2, <1>0, BeforeReview DEF Repair, SyncSprint, ReviewInv, Reviewed,
     durable, process, observer
<1>3. CASE Resume
  BY <1>3, <1>0, BeforeReview DEF Resume, ReviewInv, Reviewed, durable, process,
     observer
<1>4. CASE RefuseResume
  BY <1>4, <1>0, ExitReviewed DEF RefuseResume, durable, observer
<1>5. CASE SkipDoneEpic
  <2>. DEFINE st == CompleteEpic(mem)
              next == IncompleteEpics(st, sprint, artifacts)
  <2>1. Reviewed(st, Y) /\ st \in Position /\ pc = "validate"
    BY <1>5, <1>0, CompletedReviewed, CompleteEpicPosition DEF SkipDoneEpic
  <2>2. CASE next = {}
    BY <1>5, <1>0, <2>1, <2>2, ExitReviewed DEF SkipDoneEpic
  <2>3. CASE next # {}
    <3>1. /\ mem' = [st EXCEPT !.epic = Min(next), !.story = 1, !.phase = "create_story"]
          /\ disk' = disk /\ pc' = pc
      BY <1>5, <2>3 DEF SkipDoneEpic
    <3>2. mem'.doneStories = st.doneStories /\ mem'.phase = "create_story"
      BY <2>1, <3>1 DEF Position, State
    <3>3. Reviewed(mem', Y)
      BY <2>1, <3>2, BeforeReview DEF Reviewed
    <3>. QED
      BY <1>0, <2>1, <3>1, <3>3, MoveReviewed
  <2>. QED
    BY <2>2, <2>3
<1>6. CASE SkipDoneStory
  <2>1. /\ mem' = [CompleteStory(mem) EXCEPT
                        !.story = Min(IncompleteStories(mem, sprint, artifacts)),
                        !.phase = "create_story"]
        /\ disk' = disk /\ pc' = pc /\ pc = "validate"
    BY <1>6 DEF SkipDoneStory, durable
  <2>2. Reviewed(CompleteStory(mem), Y)
    BY <1>6, <1>0, <2>1, CompletedReviewed DEF ReviewStep
  <2>3. mem'.doneStories = CompleteStory(mem).doneStories /\ mem'.phase = "create_story"
    BY <1>0, <2>1, CompleteStoryPosition DEF Position, State
  <2>4. Reviewed(mem', Y)
    BY <2>2, <2>3, BeforeReview DEF Reviewed
  <2>. QED
    BY <1>0, <2>1, <2>4, MoveReviewed
<1>7. CASE AcceptPosition
  <2>1. Reviewed(disk, Y) /\ pc = "validate"
    BY <1>7, <1>0, PositionFields DEF AcceptPosition, ReviewInv, Reviewed
  <2>. QED
    BY <1>7, <1>0, <2>1, MoveReviewed DEF AcceptPosition, Save
<1>8. CASE Resync
  BY <1>8, <1>0, BeforeReview DEF Resync, SyncSprint, ReviewInv, Reviewed,
     durable, process, observer
<1>. QED
  BY <1>1, <1>2, <1>3, <1>4, <1>5, <1>6, <1>7, <1>8 DEF Start

LEMMA SetupKeepsReviewed ==
    ASSUME ReviewFirst, TypeInv, ResultInv, NEW X, NEW Y, NEW V, ReviewStep(X,
        Y, V), ReviewInv(disk, mem, pc, run, X, V), Setup
    PROVE  ReviewInv(disk', mem', pc', run', Y, V)
<1>. USE DEF Goto
<1>0. /\ disk \in State /\ mem \in State /\ run \in Run /\ X \subseteq Y
      /\ pc \notin {"off", "load"} => mem \in Position /\ disk \in Position
      /\ pc \notin {"off", "load"} => Reviewed(mem, X) /\ Reviewed(mem, Y)
  BY DEF TypeInv, TypeOK, Placed, ReviewStep, ReviewInv, Reviewed
<1>1. CASE EnterLoop
  BY <1>1, <1>0 DEF EnterLoop, ReviewInv, Reviewed, durable, observer, Run
<1>2. CASE SetupPhase
  <2>. DEFINE st == [mem EXCEPT !.phase = EpicSetup[run.step]]
  <2>1. EpicSetup[run.step] \in PhasesOf(EpicSetup) /\ mem \in Position
    BY <1>2, <1>0 DEF SetupPhase, TypeInv, StepInRange, PhasesOf
  <2>2. Reviewed(st, Y) /\ CurrentStory(st) = CurrentStory(mem) /\ st.phase = EpicSetup[run.step]
    BY <1>2, <1>0, <2>1, BeforeReview DEF SetupPhase, Reviewed, CurrentStory, State
  <2>. QED
    BY <1>2, <1>0, <2>2 DEF SetupPhase, Save, ReviewInv, Reviewed
<1>3. CASE SetupSucceeds
  <2>1. CASE run.step < Len(EpicSetup)
    BY <1>3, <1>0, <2>1 DEF SetupSucceeds, ReviewInv, Reviewed, Run
  <2>2. CASE ~(run.step < Len(EpicSetup))
    <3>. DEFINE st == [mem EXCEPT !.setupDone = TRUE, !.phase = StoryPhases[1]]
    <3>1. Reviewed(st, Y) /\ CurrentStory(st) = CurrentStory(mem) /\ st.phase = StoryPhases[1]
      BY <1>3, <1>0, BeforeReview DEF SetupSucceeds, Reviewed, CurrentStory, State
    <3>. QED
      BY <1>3, <1>0, <2>2, <3>1 DEF SetupSucceeds, Save, ReviewInv, Reviewed
  <2>. QED
    BY <2>1, <2>2
<1>4. CASE SetupFails
  BY <1>4, <1>0, ExitReviewed DEF SetupFails, durable, observer
<1>5. CASE RestorePhase
  <2>1. pc = "restore" /\ pc' = "top" /\ mem \in Position
    BY <1>5, <1>0 DEF RestorePhase
  <2>2. run.saved \in PostReview => CurrentStory(mem) \in Y
    BY <1>0, <2>1 DEF ReviewInv
  <2>3. Reviewed([mem EXCEPT !.phase = run.saved], Y)
    BY <1>0, <2>1, <2>2, PhaseReviewed
  <2>. QED
    BY <1>5, <1>0, <2>1, <2>3, MoveReviewed DEF RestorePhase, Save
<1>. QED
  BY <1>1, <1>2, <1>3, <1>4, <1>5 DEF Setup

LEMMA IterateKeepsReviewed ==
    ASSUME ReviewFirst, TypeInv, ResultInv, NEW X, NEW Y, NEW V, ReviewStep(X,
        Y, V), ReviewInv(disk, mem, pc, run, X, V), Iterate
    PROVE  ReviewInv(disk', mem', pc', run', Y, V)
<1>. USE DEF Goto
<1>0. /\ disk \in State /\ mem \in State /\ run \in Run /\ X \subseteq Y
      /\ pc \notin {"off", "load"} => mem \in Position /\ disk \in Position
      /\ pc \notin {"off", "load"} => Reviewed(mem, X) /\ Reviewed(mem, Y)
  BY DEF TypeInv, TypeOK, Placed, ReviewStep, ReviewInv, Reviewed
<1>1. CASE BeginPhase
  BY <1>1, <1>0, BeforeReview DEF BeginPhase, ReviewInv, Reviewed, durable,
     process, observer
<1>2. ASSUME NEW outcome \in Outcome, Execute(outcome) PROVE ReviewInv(disk', mem', pc', run', Y, V)
  BY <1>2, <1>0 DEF Execute, ReviewInv, Reviewed, ReviewStep, Run
<1>3. CASE StopRequested
  BY <1>3, <1>0, ExitReviewed DEF StopRequested, durable, observer
<1>4. CASE PhaseFails
  BY <1>4, <1>0, BeforeReview DEF PhaseFails, ReviewInv, Reviewed, durable,
     process, observer
<1>5. CASE Halt
  BY <1>5, <1>0, ExitReviewed DEF Halt, observer
<1>6. CASE PhaseSucceeds
  BY <1>6, <1>0, BeforeReview DEF PhaseSucceeds, ReviewInv, Reviewed, durable,
     process, observer
<1>7. CASE SyncPhase
  BY <1>7, <1>0, BeforeReview DEF SyncPhase, SyncSprint, ReviewInv, Reviewed,
     durable, process, observer
<1>. QED
  BY <1>1, <1>2, <1>3, <1>4, <1>5, <1>6, <1>7 DEF Iterate

LEMMA FinishStoryKeepsReviewed ==
    ASSUME ReviewFirst, TypeInv, ResultInv, NEW X, NEW Y, NEW V, ReviewStep(X,
        Y, V), ReviewInv(disk, mem, pc, run, X, V), FinishStory
    PROVE  ReviewInv(disk', mem', pc', run', Y, V)
<1>. USE DEF Goto
<1>0. /\ disk \in State /\ mem \in State /\ run \in Run /\ X \subseteq Y
      /\ pc \notin {"off", "load"} => mem \in Position /\ disk \in Position
      /\ pc \notin {"off", "load"} => Reviewed(mem, X) /\ Reviewed(mem, Y)
  BY DEF TypeInv, TypeOK, Placed, ReviewStep, ReviewInv, Reviewed
<1>1. CASE Rework
  <2>. DEFINE st == [mem EXCEPT !.phase = "dev_story", !.rework = @ + 1]
  <2>1. Reviewed(st, Y)
    BY <1>1, <1>0, BeforeReview DEF Rework, Reviewed, State
  <2>. QED
    BY <1>1, <1>0, <2>1, ContinueReviewed DEF Rework
<1>2. CASE RefuseUnresolved
  BY <1>2, <1>0, ExitReviewed DEF RefuseUnresolved, durable, observer
<1>3. CASE AfterReview
  <2>1. CurrentStory(mem) \in Y /\ pc = "decide"
    BY <1>3, <1>0 DEF AfterReview, ReviewStep, ReviewInv, Passes, Synthesis
  <2>2. Reviewed([mem EXCEPT !.phase = GetNextPhase(mem.phase)], Y)
    BY <1>0, <2>1, PhaseReviewed
  <2>. QED
    BY <1>3, <1>0, <2>2, ContinueReviewed DEF AfterReview
<1>4. CASE HoldStory
  <2>1. Reviewed(CompleteStory(mem), Y)
    BY <1>4, <1>0, FinishedReviewed, CompletedReviewed DEF HoldStory
  <2>. QED
    BY <1>4, <1>0, <2>1, MoveReviewed DEF HoldStory, Save
<1>5. CASE NextStory
  <2>. DEFINE c == CompleteStory(mem)
  <2>1. Reviewed(c, Y) /\ c \in Position
    BY <1>5, <1>0, FinishedReviewed, CompletedReviewed, CompleteStoryPosition DEF NextStory
  <2>2. /\ mem' = [c EXCEPT !.story = Min(RemainingStories(c)), !.phase = "create_story",
                            !.rework = 0]
        /\ disk' = mem' /\ pc' = "story_prompt"
    BY <1>5 DEF NextStory, Save, HandleStoryCompletion, AdvanceToNextStory
  <2>. HIDE DEF c
  <2>3. mem'.doneStories = c.doneStories /\ mem'.phase = "create_story"
    BY <2>1, <2>2 DEF Position, State
  <2>4. Reviewed(mem', Y)
    BY <2>1, <2>3, BeforeReview DEF Reviewed
  <2>. QED
    BY <1>0, <2>2, <2>4, MoveReviewed
<1>6. CASE LastStory
  <2>1. Reviewed(CompleteStory(mem), Y)
    BY <1>6, <1>0, FinishedReviewed, CompletedReviewed DEF LastStory
  <2>. QED
    BY <1>6, <1>0, <2>1, MoveReviewed DEF LastStory, Save, HandleStoryCompletion
<1>7. CASE QuitAtPrompt
  BY <1>7, <1>0, ExitReviewed DEF QuitAtPrompt, durable, observer
<1>8. CASE BeginStory
  BY <1>8, <1>0, ExitReviewed, MoveReviewed DEF BeginStory
<1>. QED
  BY <1>1, <1>2, <1>3, <1>4, <1>5, <1>6, <1>7, <1>8 DEF FinishStory

LEMMA FinishEpicKeepsReviewed ==
    ASSUME ReviewFirst, TypeInv, ResultInv, NEW X, NEW Y, NEW V, ReviewStep(X,
        Y, V), ReviewInv(disk, mem, pc, run, X, V), FinishEpic
    PROVE  ReviewInv(disk', mem', pc', run', Y, V)
<1>. USE DEF Goto
<1>0. /\ disk \in State /\ mem \in State /\ run \in Run /\ X \subseteq Y
      /\ pc \notin {"off", "load"} => mem \in Position /\ disk \in Position
      /\ pc \notin {"off", "load"} => Reviewed(mem, X) /\ Reviewed(mem, Y)
  BY DEF TypeInv, TypeOK, Placed, ReviewStep, ReviewInv, Reviewed
<1>1. CASE StageTeardown
  <2>1. pc = "stage" /\ pc' = "exit_sync" /\ mem \in Position
    BY <1>1, <1>0 DEF StageTeardown
  <2>2. CASE EpicTeardown = <<>>
    BY <1>1, <1>0, <2>1, <2>2, MoveReviewed DEF StageTeardown
  <2>3. CASE EpicTeardown # <<>>
    <3>1. EpicTeardown[1] \in PhasesOf(EpicTeardown)
      BY <2>3, LoopConfigAssumption DEF PhasesOf
    <3>2. Reviewed([mem EXCEPT !.phase = EpicTeardown[1]], Y)
      BY <1>0, <2>1, <3>1, PhaseReviewed, BeforeReview
    <3>. QED
      BY <1>1, <1>0, <2>1, <2>3, <3>2, MoveReviewed DEF StageTeardown, Save
  <2>. QED
    BY <2>2, <2>3
<1>2. CASE TeardownPhase
  <2>1. EpicTeardown[run.step] \in PhasesOf(EpicTeardown) /\ mem \in Position
    BY <1>2, <1>0 DEF TeardownPhase, TypeInv, StepInRange, PhasesOf
  <2>2. Reviewed([mem EXCEPT !.phase = EpicTeardown[run.step]], Y)
    BY <1>2, <1>0, <2>1, PhaseReviewed, BeforeReview DEF TeardownPhase
  <2>. QED
    BY <1>2, <1>0, <2>2, MoveReviewed DEF TeardownPhase, Save
<1>3. CASE TeardownSucceeds
  BY <1>3, <1>0, BeforeReview DEF TeardownSucceeds, ReviewInv, Reviewed,
     durable, process, observer
<1>4. CASE TeardownFails
  BY <1>4, <1>0, BeforeReview DEF TeardownFails, ReviewInv, Reviewed, durable,
     process, observer
<1>5. CASE SyncTeardown
  BY <1>5, <1>0, BeforeReview DEF SyncTeardown, SyncSprint, ReviewInv, Reviewed,
     durable, process, observer
<1>6. CASE CompleteAndStop
  <2>1. pc \notin {"off", "load"}
    BY <1>6 DEF CompleteAndStop, EndOfEpic, EndsEpicInLoop
  <2>2. Reviewed(CompleteEpic(mem), Y)
    BY <1>0, <2>1, CompletedReviewed
  <2>. QED
    BY <1>6, <1>0, <2>2, MoveReviewed DEF CompleteAndStop, Save
<1>7. CASE NextEpic
  <2>. DEFINE c == CompleteEpic(mem)
  <2>1. Reviewed(c, Y) /\ c \in Position
    BY <1>7, <1>0, CompletedReviewed, CompleteEpicPosition
       DEF NextEpic, EndOfEpic, EndsEpicInLoop
  <2>2. CASE NextEpicExhausted(c, run.active)
    BY <1>7, <1>0, <2>2, ExitReviewed DEF NextEpic
  <2>3. CASE ~NextEpicExhausted(c, run.active)
    <3>1. mem' = AdvanceToNextEpic(c, run.active) /\ disk' = mem'
          /\ pc' \in {"epic_prompt", "epic_sync"}
      BY <1>7, <2>3 DEF NextEpic, Save, HandleEpicCompletion
    <3>. HIDE DEF c
    <3>2. mem'.doneStories = c.doneStories /\ mem'.phase = "create_story"
      BY <2>1, <3>1 DEF AdvanceToNextEpic, Position, State
    <3>3. Reviewed(mem', Y)
      BY <2>1, <3>2, BeforeReview DEF Reviewed
    <3>. QED
      BY <1>0, <3>1, <3>3, MoveReviewed
  <2>. QED
    BY <2>2, <2>3
<1>8. CASE BeginEpic
  BY <1>8, <1>0, BeforeReview DEF BeginEpic, ReviewInv, Reviewed, durable,
     process, observer
<1>9. CASE SyncEpic
  BY <1>9, <1>0, BeforeReview DEF SyncEpic, SyncSprint, ReviewInv, Reviewed,
     durable, process, observer
<1>10. CASE ExitSync
  BY <1>10, <1>0, ExitReviewed DEF ExitSync, observer
<1>. QED
  BY <1>1, <1>2, <1>3, <1>4, <1>5, <1>6, <1>7, <1>8, <1>9, <1>10 DEF FinishEpic

LEMMA AdvanceKeepsReviewed ==
    ASSUME ReviewFirst, TypeInv, ResultInv, NEW X, NEW Y, NEW V, ReviewStep(X,
        Y, V), ReviewInv(disk, mem, pc, run, X, V), Advance
    PROVE  ReviewInv(disk', mem', pc', run', Y, V)
<1>. USE DEF Goto
<1>0. /\ disk \in State /\ mem \in State /\ run \in Run /\ X \subseteq Y
      /\ pc \notin {"off", "load"} => mem \in Position /\ disk \in Position
      /\ pc \notin {"off", "load"} => Reviewed(mem, X) /\ Reviewed(mem, Y)
  BY DEF TypeInv, TypeOK, Placed, ReviewStep, ReviewInv, Reviewed
<1>1. CASE NextPhase
  <2>1. GetNextPhase(mem.phase) \in PostReview => CurrentStory(mem) \in Y
    BY <1>1, <1>0, NextPastReview DEF NextPhase, Ordinary, Reviewed
  <2>. QED
    BY <1>1, <1>0, <2>1, AdvanceReviewed DEF NextPhase, Ordinary
<1>2. CASE NextTeardownPhase
  <2>1. GetNextTeardownPhase(mem.phase) \in PhasesOf(EpicTeardown)
    BY <1>2, NextTeardownPhaseIn DEF NextTeardownPhase
  <2>. QED
    BY <1>2, <1>0, <2>1, AdvanceReviewed, BeforeReview DEF NextTeardownPhase, Ordinary
<1>3. CASE CannotAdvance
  BY <1>3, <1>0, ExitReviewed DEF CannotAdvance, durable, observer
<1>. QED
  BY <1>1, <1>2, <1>3 DEF Advance

LEMMA EnvironmentKeepsReviewed ==
    ASSUME ReviewFirst, TypeInv, ResultInv, NEW X, NEW Y, NEW V, ReviewStep(X,
        Y, V), ReviewInv(disk, mem, pc, run, X, V), Environment
    PROVE  ReviewInv(disk', mem', pc', run', Y, V)
<1>. USE DEF Goto
<1>0. /\ disk \in State /\ mem \in State /\ run \in Run /\ X \subseteq Y
      /\ pc \notin {"off", "load"} => mem \in Position /\ disk \in Position
      /\ pc \notin {"off", "load"} => Reviewed(mem, X) /\ Reviewed(mem, Y)
  BY DEF TypeInv, TypeOK, Placed, ReviewStep, ReviewInv, Reviewed
<1>1. CASE StartRun
  BY <1>1, <1>0, BeforeReview DEF StartRun, NewRun, ReviewInv, Reviewed,
     durable, process, observer
<1>2. CASE NoEpics
  BY <1>2, <1>0, BeforeReview DEF NoEpics, ReviewInv, Reviewed, durable,
     process, observer
<1>3. CASE Kill
  BY <1>3, <1>0, ExitReviewed DEF Kill, durable, observer
<1>4. CASE Cancel
  BY <1>4, <1>0, BeforeReview DEF Cancel, ReviewInv, Reviewed, durable, process,
     observer
<1>5. CASE SprintSync
  BY <1>5, <1>0, BeforeReview DEF SprintSync, ReviewInv, Reviewed, durable,
     process, observer
<1>6. CASE EditSprint
  BY <1>6, <1>0, BeforeReview DEF EditSprint, ReviewInv, Reviewed, durable,
     process, observer
<1>. QED
  BY <1>1, <1>2, <1>3, <1>4, <1>5, <1>6 DEF Environment

LEMMA StutterKeepsReviewed ==
    ASSUME NEW X, NEW Y, NEW V, X \subseteq Y, ReviewInv(disk, mem, pc, run, X, V),
           UNCHANGED vars
    PROVE  ReviewInv(disk', mem', pc', run', Y, V)
BY DEF ReviewInv, Reviewed, vars

LEMMA NextKeepsReviewed ==
    ASSUME ReviewFirst, TypeInv, ResultInv, NEW X, NEW Y, NEW V, ReviewStep(X, Y, V),
           ReviewInv(disk, mem, pc, run, X, V), [Next]_vars
    PROVE  ReviewInv(disk', mem', pc', run', Y, V)
<1>1. X \subseteq Y
  BY DEF ReviewStep
<1>. QED
  BY <1>1, StartKeepsReviewed, SetupKeepsReviewed, IterateKeepsReviewed,
     FinishStoryKeepsReviewed, FinishEpicKeepsReviewed, AdvanceKeepsReviewed,
     EnvironmentKeepsReviewed, StutterKeepsReviewed
     DEF Next, Process

-----------------------------------------------------------------------------
(***************************************************************************)
(* The stories whose last review passed them.  What is completed stays so, *)
(* whatever a later review says of it: X is what is approved or completed. *)
(***************************************************************************)
Verdicts == {"ok", "reject_zero"}

ApprovedInv == ReviewInv(disk, mem, pc, run, approved \cup disk.doneStories, Verdicts)

\* The story list holds one synthesis.
OneReview == "code_review_synthesis" \notin PostReview

\* A review that does not pass the story, and a new development of it.
Withdraws ==
    \E outcome \in Outcome :
        /\ Execute(outcome)
        /\ mem.phase \in {"dev_story", "code_review_synthesis"}
        /\ ~(mem.phase = "code_review_synthesis" /\ outcome \in Verdicts)

LEMMA ApprovedGrows ==
    ASSUME [Next]_vars, ~Withdraws
    PROVE  approved \subseteq approved'
<1>1. ASSUME NEW outcome \in Outcome, Execute(outcome) PROVE approved \subseteq approved'
  BY <1>1 DEF Execute, Approved, Withdraws, Verdicts
<1>2. ASSUME UNCHANGED approved PROVE approved \subseteq approved'
  BY <1>2
<1>3. \/ \E outcome \in Outcome : Execute(outcome)
      \/ UNCHANGED approved
  BY DEF Next, Process, Environment, Start, Setup, Iterate, FinishStory, FinishEpic,
         Advance, vars, observer, FreshStart, Repair, Resume, RefuseResume,
         SkipDoneEpic, SkipDoneStory, AcceptPosition, Resync, EnterLoop, SetupPhase,
         SetupSucceeds, SetupFails, RestorePhase, BeginPhase, StopRequested,
         PhaseFails, Halt, PhaseSucceeds, SyncPhase, Rework, RefuseUnresolved,
         AfterReview, HoldStory, NextStory, LastStory, QuitAtPrompt, BeginStory,
         StageTeardown, TeardownPhase, TeardownSucceeds, TeardownFails, SyncTeardown,
         CompleteAndStop, NextEpic, BeginEpic, SyncEpic, ExitSync, NextPhase,
         NextTeardownPhase, CannotAdvance, StartRun, NoEpics, Kill, Cancel, SprintSync,
         EditSprint
<1>. QED
  BY <1>1, <1>2, <1>3

LEMMA ApprovedStep ==
    ASSUME FailOnUnresolved, TypeInv, SprintInv, ResultInv, ApprovedInv, [Next]_vars,
           ~Withdraws
    PROVE  ReviewStep(approved \cup disk.doneStories, approved' \cup disk.doneStories,
                      Verdicts)
<1>1. approved \subseteq approved'
  BY ApprovedGrows
<1>2. ASSUME SkipDoneStory PROVE CurrentStory(mem) \in disk.doneStories
  <2>1. pc = "validate" /\ sprint.story[CurrentStory(mem)] = "done" /\ mem \in Position
    BY <1>2 DEF SkipDoneStory, StoryIsDone, StoryDurablyDone, TypeInv, Placed
  <2>. QED
    BY <2>1, PositionFields DEF SprintInv, Backed
<1>3. ASSUME NEW outcome \in Verdicts, Execute(outcome),
             mem.phase = "code_review_synthesis"
      PROVE  CurrentStory(mem) \in approved'
  BY <1>3 DEF Execute, Approved, Verdicts
<1>4. ASSUME pc = "decide", Passes PROVE run.result \in Verdicts
  BY <1>4 DEF Passes, Negative, Synthesis, ResultInv, Outcome, Verdicts
<1>. QED
  BY <1>1, <1>2, <1>3, <1>4 DEF ReviewStep

\* The story whose approval is withdrawn is not past its review.
LEMMA WithdrawnStep ==
    ASSUME ReviewFirst, OneReview, TypeInv,
           PersistedBeforeRun, ApprovedInv, Withdraws
    PROVE  disk' = disk /\ ApprovedInv'
<1>1. PICK outcome \in Outcome :
            /\ Execute(outcome)
            /\ mem.phase \in {"dev_story", "code_review_synthesis"}
            /\ ~(mem.phase = "code_review_synthesis" /\ outcome \in Verdicts)
  BY DEF Withdraws
<1>2. /\ pc = "run" /\ pc' = "ran" /\ disk' = disk /\ mem' = mem /\ mem = disk
      /\ mem.phase \notin PostReview
  BY <1>1, BeforeReview DEF Execute, Goto, PersistedBeforeRun, OneReview
<1>3. run'.result = outcome
  BY <1>1 DEF Execute, TypeInv, TypeOK, Run
<1>. QED
  BY <1>1, <1>2, <1>3 DEF ApprovedInv, ReviewInv, Reviewed

\* Where unresolved reviews are refused, a story is completed only after a
\* review that followed its last development and did not ask for rework, and
\* that no failed or negative review followed: through reworks, failures, kills
\* and restarts, and when the resume validation passes over it.
THEOREM CompletedAfterReview ==
    ASSUME ListsApart, ReviewFirst, OneReview,
           FailOnUnresolved, ManualEdits = FALSE
    PROVE  Spec => ReviewedBeforeDone
<1>1. Init => ApprovedInv
  BY DEF Init, ApprovedInv, ReviewInv, EmptyState
<1>2. ASSUME TypeInv, SprintInv, OrderInv, ResultInv, PersistedBeforeRun, ApprovedInv,
             [Next]_vars
      PROVE  ApprovedInv' /\ disk'.doneStories \ disk.doneStories \subseteq approved'
  <2>1. CASE Withdraws
    BY <1>2, <2>1, WithdrawnStep
  <2>2. CASE ~Withdraws
    <3>1. ReviewInv(disk', mem', pc', run', approved' \cup disk.doneStories, Verdicts)
      BY <1>2, <2>2, ApprovedStep, NextKeepsReviewed DEF ApprovedInv
    <3>2. disk.doneStories \subseteq disk'.doneStories
      BY <1>2, NextSteps
         DEF Steps, DeliveryStep, Delivery!Next, Delivery!Deliver, Delivery!Close, Delivery!vars
    <3>3. disk'.doneStories \subseteq approved' \cup disk.doneStories
      BY <3>1 DEF ReviewInv
    <3>. QED
      BY <3>1, <3>2, <3>3 DEF ApprovedInv, ReviewInv, Reviewed
  <2>. QED
    BY <2>1, <2>2
<1>. QED
  BY <1>1, <1>2, ResultInvariance, OrderInvariance, RunsPersisted, PTL
     DEF Spec, ReviewedBeforeDone

-----------------------------------------------------------------------------
(***************************************************************************)
(* Torn down epics.  D holds the phases of epics that are done, as         *)
(* <<epic, phase>>: in one use the phases that succeeded, in another only  *)
(* the retrospectives have to be, by their report.  At a teardown phase    *)
(* the phases before it are done.  An epic ends at the last phase of the   *)
(* list or at the first qa_plan_execute in it, whatever follows that.      *)
(***************************************************************************)
Before(phase) == {i \in DOMAIN EpicTeardown : i < PhaseIndex(EpicTeardown, phase)}

UpToQa ==
    {i \in DOMAIN EpicTeardown :
        \A k \in DOMAIN EpicTeardown : k < i => EpicTeardown[k] # "qa_plan_execute"}

TornDown(e, D) == \A i \in UpToQa : <<e, EpicTeardown[i]>> \in D

Tearing(st, D) ==
    st.phase \in EndPhases =>
        /\ st.phase \in PhasesOf(EpicTeardown)
        /\ \A i \in Before(st.phase) : <<st.epic, EpicTeardown[i]>> \in D

Closed(st, D) == \A e \in st.doneEpics : TornDown(e, D)

TearInv(d, m, at, r, D) ==
    /\ Closed(d, D)
    /\ d.epic # 0 => Tearing(d, D)
    /\ at \notin {"off", "load"} => Closed(m, D) /\ Tearing(m, D)
    /\ /\ at \in {"ran", "saved", "decide"}
       /\ r.result # "fail"
       /\ m.phase \in PhasesOf(EpicTeardown)
       => <<m.epic, m.phase>> \in D
    /\ at \in {"teardown", "teardown_run"} =>
            \A i \in 1..(r.step - 1) : <<m.epic, EpicTeardown[i]>> \in D
    /\ at = "teardown_run" => m.phase = EpicTeardown[r.step]
    /\ at \in {"teardown_end", "epic_done"} =>
            \A i \in DOMAIN EpicTeardown : <<m.epic, EpicTeardown[i]>> \in D

\* What is done stays done, a phase that succeeds is done, an epic is skipped
\* only when it is torn down.
TearStep(D, E) ==
    /\ D \subseteq E
    /\ \A outcome \in Outcome \ {"fail"} :
            /\ Execute(outcome)
            /\ mem.phase \in PhasesOf(EpicTeardown)
            => <<mem.epic, mem.phase>> \in E
    /\ TeardownSucceeds => <<mem.epic, mem.phase>> \in E
    /\ SkipDoneEpic => TornDown(mem.epic, D)

LEMMA TearingGrows ==
    ASSUME NEW D, NEW E, D \subseteq E, NEW st
    PROVE  /\ Tearing(st, D) => Tearing(st, E)
           /\ Closed(st, D) => Closed(st, E)
BY DEF Tearing, Closed, TornDown

LEMMA TeardownIndex ==
    /\ DOMAIN EpicTeardown = 1..Len(EpicTeardown)
    /\ Len(EpicTeardown) \in Nat
    /\ \A p \in PhasesOf(EpicTeardown) : PhaseIndex(EpicTeardown, p) \in DOMAIN EpicTeardown
    /\ \A p \in PhasesOf(EpicTeardown) : EpicTeardown[PhaseIndex(EpicTeardown, p)] = p
    /\ \A i \in DOMAIN EpicTeardown :
            /\ EpicTeardown[i] \in PhasesOf(EpicTeardown)
            /\ PhaseIndex(EpicTeardown, EpicTeardown[i]) <= i
<1>1. DOMAIN EpicTeardown = 1..Len(EpicTeardown) /\ Len(EpicTeardown) \in Nat
  BY LoopConfigAssumption
<1>2. \A i \in DOMAIN EpicTeardown : EpicTeardown[i] \in PhasesOf(EpicTeardown)
  BY DEF PhasesOf
<1>. QED
  BY <1>1, <1>2, PhaseIndexFirst, LoopConfigAssumption

\* The epic of a state at its last teardown phase is torn down once that phase
\* is done, and so is one at qa_plan_execute.
LEMMA LastPhaseTornDown ==
    ASSUME NEW D, NEW st, st.phase \in PhasesOf(EpicTeardown), Tearing(st, D),
           <<st.epic, st.phase>> \in D,
           \/ st.phase = "qa_plan_execute"
           \/ GetNextTeardownPhase(st.phase) = NoPhase
    PROVE  TornDown(st.epic, D)
<1>. DEFINE q == PhaseIndex(EpicTeardown, st.phase)
<1>1. q \in DOMAIN EpicTeardown /\ EpicTeardown[q] = st.phase
  BY TeardownIndex
<1>2. \A i \in DOMAIN EpicTeardown : i < q => <<st.epic, EpicTeardown[i]>> \in D
  <2>1. st.phase \in EndPhases
    BY DEF EndPhases
  <2>. QED
    BY <2>1 DEF Tearing, Before
<1>3. <<st.epic, EpicTeardown[q]>> \in D
  BY <1>1
<1>4. \A i \in UpToQa : i <= q
  <2>1. CASE st.phase = "qa_plan_execute"
    BY <1>1, <2>1, TeardownIndex DEF UpToQa
  <2>2. CASE GetNextTeardownPhase(st.phase) = NoPhase
    <3>1. q = Len(EpicTeardown)
      <4>. SUFFICES ASSUME q # Len(EpicTeardown) PROVE FALSE
        OBVIOUS
      <4>1. GetNextTeardownPhase(st.phase) = EpicTeardown[q + 1]
        BY DEF GetNextTeardownPhase
      <4>2. q + 1 \in DOMAIN EpicTeardown
        BY <1>1, TeardownIndex
      <4>3. EpicTeardown[q + 1] \in Phase
        BY <4>2, PhaseLists
      <4>. QED
        BY <2>2, <4>1, <4>3 DEF NoPhase, Phase
    <3>. QED
      BY <3>1, TeardownIndex DEF UpToQa
  <2>. QED
    BY <2>1, <2>2
<1>. HIDE DEF q
<1>5. \A i \in UpToQa : i \in DOMAIN EpicTeardown /\ i \in Nat /\ q \in Nat
  BY <1>1, PhaseLists DEF UpToQa
<1>. QED
  BY <1>2, <1>3, <1>4, <1>5 DEF TornDown

LEMMA AllPhasesTornDown ==
    ASSUME NEW D, NEW e, \A i \in DOMAIN EpicTeardown : <<e, EpicTeardown[i]>> \in D
    PROVE  TornDown(e, D)
BY DEF TornDown, UpToQa

\* The transitions of the state.
LEMMA StoryPhaseTears ==
    ASSUME ListsApart, NEW D, NEW st, st.phase \in StoryPhaseSet
    PROVE  Tearing(st, D)
BY DEF Tearing, ListsApart

LEMMA SetPhaseTears ==
    ASSUME NEW D, NEW st \in State, Closed(st, D), NEW p,
           \/ p \notin EndPhases
           \/ \E i \in DOMAIN EpicTeardown :
                /\ p = EpicTeardown[i]
                /\ \A k \in DOMAIN EpicTeardown : k < i => <<st.epic, EpicTeardown[k]>> \in D
    PROVE  Closed([st EXCEPT !.phase = p], D) /\ Tearing([st EXCEPT !.phase = p], D)
<1>. DEFINE u == [st EXCEPT !.phase = p]
<1>1. u.phase = p /\ u.epic = st.epic /\ u.doneEpics = st.doneEpics
  BY DEF State
<1>. HIDE DEF u
<1>2. Closed(u, D)
  BY <1>1 DEF Closed
<1>3. Tearing(u, D)
  <2>1. CASE p \notin EndPhases
    BY <1>1, <2>1 DEF Tearing
  <2>2. ASSUME NEW i \in DOMAIN EpicTeardown, p = EpicTeardown[i],
               \A k \in DOMAIN EpicTeardown : k < i => <<st.epic, EpicTeardown[k]>> \in D
        PROVE  Tearing(u, D)
    <3>1. PhaseIndex(EpicTeardown, p) <= i /\ p \in PhasesOf(EpicTeardown)
      BY <2>2, TeardownIndex
    <3>2. \A k \in Before(p) : k \in DOMAIN EpicTeardown /\ k < i
      BY <3>1, TeardownIndex DEF Before
    <3>. QED
      BY <1>1, <2>2, <3>1, <3>2 DEF Tearing
  <2>. QED
    BY <2>1, <2>2
<1>. QED
  BY <1>2, <1>3 DEF u

LEMMA CompletedTears ==
    ASSUME NEW D, NEW st \in Position, Closed(st, D), Tearing(st, D)
    PROVE  /\ Closed(CompleteStory(st), D) /\ Tearing(CompleteStory(st), D)
           /\ TornDown(st.epic, D) =>
                Closed(CompleteEpic(st), D) /\ Tearing(CompleteEpic(st), D)
BY DEF Closed, Tearing, CompleteStory, CompleteEpic, Position, State

\* The end of a run, and a run that goes on with another state.
LEMMA ExitTears ==
    ASSUME NEW D, NEW E, D \subseteq E, TearInv(disk, mem, pc, run, D),
           NEW reason, Exit(reason),
           \/ disk' = disk
           \/ pc \notin {"off", "load"} /\ disk' = mem
           \/ Closed(disk', E) /\ Tearing(disk', E)
    PROVE  TearInv(disk', mem', pc', run', E)
BY TearingGrows DEF TearInv, Exit

LEMMA MoveTears ==
    ASSUME NEW D, NEW E, D \subseteq E, TearInv(disk, mem, pc, run, D),
           Closed(mem', E), Tearing(mem', E), disk' = disk \/ disk' = mem',
           pc' \notin {"ran", "saved", "decide", "teardown", "teardown_run",
                       "teardown_end", "epic_done"}
    PROVE  TearInv(disk', mem', pc', run', E)
BY TearingGrows DEF TearInv

LEMMA ContinueTears ==
    ASSUME NEW D, NEW E, D \subseteq E, TearInv(disk, mem, pc, run, D),
           NEW st, Closed(st, E), Tearing(st, E), SaveAndContinue(st)
    PROVE  TearInv(disk', mem', pc', run', E)
BY ExitTears, MoveTears DEF SaveAndContinue, Save

LEMMA AdvancePhaseTears ==
    ASSUME NEW D, NEW E, D \subseteq E, TearInv(disk, mem, pc, run, D),
           NEW p, Closed([mem EXCEPT !.phase = p], E), Tearing([mem EXCEPT !.phase = p], E),
           AdvancePhase(p)
    PROVE  TearInv(disk', mem', pc', run', E)
BY ExitTears, MoveTears DEF AdvancePhase

\* Where the loop ends an epic, the epic is torn down.
LEMMA EpicEndTornDown ==
    ASSUME ListsApart, TypeInv, ResultInv, NEW D, NEW E, D \subseteq E,
           TearInv(disk, mem, pc, run, D), EndOfEpic
    PROVE  pc \notin {"off", "load"} /\ TornDown(mem.epic, E)
<1>1. pc \notin {"off", "load"}
  BY DEF EndOfEpic, EndsEpicInLoop
<1>2. TornDown(mem.epic, D)
  <2>1. CASE pc = "epic_done"
    BY <2>1, AllPhasesTornDown DEF TearInv
  <2>2. CASE EndsEpicInLoop
    <3>1. pc = "decide" /\ run.result # "fail" /\ Tearing(mem, D)
      BY <2>2 DEF EndsEpicInLoop, ResultInv, TearInv
    <3>2. /\ mem.phase \in PhasesOf(EpicTeardown)
          /\ mem.phase = "qa_plan_execute" \/ GetNextTeardownPhase(mem.phase) = NoPhase
      BY <2>2, <3>1 DEF EndsEpicInLoop, Tearing, EndPhases, DonePhases, PhaseToStatus, Phase
    <3>3. <<mem.epic, mem.phase>> \in D
      BY <3>1, <3>2 DEF TearInv
    <3>. QED
      BY <3>1, <3>2, <3>3, LastPhaseTornDown
  <2>. QED
    BY <2>1, <2>2 DEF EndOfEpic
<1>. QED
  BY <1>1, <1>2 DEF TornDown

LEMMA StartKeepsTorn ==
    ASSUME ListsApart, TypeInv, ResultInv, NEW D, NEW E, TearStep(D, E),
        TearInv(disk, mem, pc, run, D), Start
    PROVE  TearInv(disk', mem', pc', run', E)
<1>. USE DEF Goto
<1>0. /\ disk \in State /\ mem \in State /\ run \in Run /\ D \subseteq E
      /\ pc \notin {"off", "load"} => mem \in Position /\ disk \in Position
      /\ pc \notin {"off", "load"} => /\ Closed(mem, D) /\ Tearing(mem, D)
                                      /\ Closed(mem, E) /\ Tearing(mem, E)
      /\ pc \notin {"off", "load"} => Closed(disk, E) /\ Tearing(disk, E)
  BY TearingGrows, PositionFields DEF TypeInv, TypeOK, Placed, TearStep, TearInv
<1>1. CASE FreshStart
  <2>1. FirstPosition.doneEpics = disk.doneEpics /\ FirstPosition.phase \in StoryPhaseSet
    BY <1>0, PhaseLists DEF FirstPosition, State, StoryPhaseSet, PhasesOf
  <2>2. Closed(FirstPosition, E) /\ Tearing(FirstPosition, E)
    BY <1>0, <2>1, StoryPhaseTears DEF TearInv, Closed, TornDown
  <2>. QED
    BY <1>1, <1>0, <2>2, MoveTears DEF FreshStart, Save
<1>2. CASE Repair
  BY <1>2, <1>0, TearingGrows DEF Repair, SyncSprint, TearInv, durable, process,
     observer
<1>3. CASE Resume
  BY <1>3, <1>0, TearingGrows DEF Resume, TearInv, durable, process, observer
<1>4. CASE RefuseResume
  BY <1>4, <1>0, ExitTears DEF RefuseResume, durable, observer
<1>5. CASE SkipDoneEpic
  <2>. DEFINE st == CompleteEpic(mem)
              next == IncompleteEpics(st, sprint, artifacts)
  <2>1. Closed(st, E) /\ Tearing(st, E) /\ st \in Position /\ pc = "validate"
    BY <1>5, <1>0, CompletedTears, CompleteEpicPosition, TearingGrows
       DEF SkipDoneEpic, TearStep, TornDown
  <2>2. CASE next = {}
    BY <1>5, <1>0, <2>1, <2>2, ExitTears DEF SkipDoneEpic
  <2>3. CASE next # {}
    <3>1. /\ mem' = [st EXCEPT !.epic = Min(next), !.story = 1, !.phase = "create_story"]
          /\ disk' = disk /\ pc' = pc
      BY <1>5, <2>3 DEF SkipDoneEpic
    <3>2. mem'.doneEpics = st.doneEpics /\ mem'.phase = "create_story"
      BY <2>1, <3>1 DEF Position, State
    <3>3. Closed(mem', E) /\ Tearing(mem', E)
      BY <2>1, <3>2, StoryPhaseTears DEF Closed, StoryPhaseSet
    <3>. QED
      BY <1>0, <2>1, <3>1, <3>3, MoveTears
  <2>. QED
    BY <2>2, <2>3
<1>6. CASE SkipDoneStory
  <2>1. /\ mem' = [CompleteStory(mem) EXCEPT
                        !.story = Min(IncompleteStories(mem, sprint, artifacts)),
                        !.phase = "create_story"]
        /\ disk' = disk /\ pc' = pc /\ pc = "validate"
    BY <1>6 DEF SkipDoneStory, durable
  <2>2. mem'.doneEpics = mem.doneEpics /\ mem'.phase = "create_story"
    BY <1>0, <2>1 DEF CompleteStory, State
  <2>3. Closed(mem', E) /\ Tearing(mem', E)
    BY <1>0, <2>1, <2>2, StoryPhaseTears DEF Closed, StoryPhaseSet
  <2>. QED
    BY <1>0, <2>1, <2>3, MoveTears
<1>7. CASE AcceptPosition
  BY <1>7, <1>0, MoveTears DEF AcceptPosition, Save
<1>8. CASE Resync
  BY <1>8, <1>0, TearingGrows DEF Resync, SyncSprint, TearInv, durable, process,
     observer
<1>. QED
  BY <1>1, <1>2, <1>3, <1>4, <1>5, <1>6, <1>7, <1>8 DEF Start

LEMMA SetupKeepsTorn ==
    ASSUME ListsApart, TypeInv, ResultInv, NEW D, NEW E, TearStep(D, E),
        TearInv(disk, mem, pc, run, D), Setup
    PROVE  TearInv(disk', mem', pc', run', E)
<1>. USE DEF Goto
<1>0. /\ disk \in State /\ mem \in State /\ run \in Run /\ D \subseteq E
      /\ pc \notin {"off", "load"} => mem \in Position /\ disk \in Position
      /\ pc \notin {"off", "load"} => /\ Closed(mem, D) /\ Tearing(mem, D)
                                      /\ Closed(mem, E) /\ Tearing(mem, E)
      /\ pc \notin {"off", "load"} => Closed(disk, E) /\ Tearing(disk, E)
  BY TearingGrows, PositionFields DEF TypeInv, TypeOK, Placed, TearStep, TearInv
<1>1. CASE EnterLoop
  BY <1>1, <1>0, TearingGrows DEF EnterLoop, TearInv, durable, process, observer
<1>2. CASE SetupPhase
  <2>1. EpicSetup[run.step] \in StoryPhaseSet
    BY <1>2, <1>0 DEF SetupPhase, TypeInv, StepInRange, StoryPhaseSet, PhasesOf
  <2>2. pc = "setup" /\ EpicSetup[run.step] \notin EndPhases
    BY <1>2, <2>1 DEF SetupPhase, ListsApart
  <2>. QED
    BY <1>2, <1>0, <2>2, SetPhaseTears, MoveTears DEF SetupPhase, Save
<1>3. CASE SetupSucceeds
  <2>. DEFINE st == [mem EXCEPT !.setupDone = TRUE, !.phase = StoryPhases[1]]
  <2>1. CASE run.step < Len(EpicSetup)
    BY <1>3, <1>0, <2>1, MoveTears DEF SetupSucceeds
  <2>2. CASE ~(run.step < Len(EpicSetup))
    <3>1. st.doneEpics = mem.doneEpics /\ st.phase \in StoryPhaseSet
      BY <1>0, PhaseLists DEF State, StoryPhaseSet, PhasesOf
    <3>2. Closed(st, E) /\ Tearing(st, E)
      <4>. HIDE DEF st
      <4>. QED
        BY <1>3, <1>0, <3>1, StoryPhaseTears DEF SetupSucceeds, Closed
    <3>. QED
      BY <1>3, <1>0, <2>2, <3>2, MoveTears DEF SetupSucceeds, Save
  <2>. QED
    BY <2>1, <2>2
<1>4. CASE SetupFails
  BY <1>4, <1>0, ExitTears DEF SetupFails, durable, observer
<1>5. CASE RestorePhase
  <2>1. pc = "restore" /\ pc' = "top"
    BY <1>5 DEF RestorePhase
  <2>2. CASE run.saved \in PhasesOf(StoryPhases)
    <3>1. run.saved \notin EndPhases
      BY <2>2 DEF ListsApart, StoryPhaseSet
    <3>. QED
      BY <1>5, <1>0, <2>1, <3>1, SetPhaseTears, MoveTears DEF RestorePhase, Save
  <2>3. CASE run.saved \notin PhasesOf(StoryPhases)
    BY <1>5, <1>0, <2>1, <2>3, MoveTears DEF RestorePhase
  <2>. QED
    BY <2>2, <2>3
<1>. QED
  BY <1>1, <1>2, <1>3, <1>4, <1>5 DEF Setup

LEMMA IterateKeepsTorn ==
    ASSUME ListsApart, TypeInv, ResultInv, NEW D, NEW E, TearStep(D, E),
        TearInv(disk, mem, pc, run, D), Iterate
    PROVE  TearInv(disk', mem', pc', run', E)
<1>. USE DEF Goto
<1>0. /\ disk \in State /\ mem \in State /\ run \in Run /\ D \subseteq E
      /\ pc \notin {"off", "load"} => mem \in Position /\ disk \in Position
      /\ pc \notin {"off", "load"} => /\ Closed(mem, D) /\ Tearing(mem, D)
                                      /\ Closed(mem, E) /\ Tearing(mem, E)
      /\ pc \notin {"off", "load"} => Closed(disk, E) /\ Tearing(disk, E)
  BY TearingGrows, PositionFields DEF TypeInv, TypeOK, Placed, TearStep, TearInv
<1>1. CASE BeginPhase
  BY <1>1, <1>0, TearingGrows DEF BeginPhase, TearInv, durable, process,
     observer
<1>2. ASSUME NEW outcome \in Outcome, Execute(outcome) PROVE TearInv(disk', mem', pc', run', E)
  <2>1. /\ pc = "run" /\ pc' = "ran" /\ UNCHANGED <<disk, mem>>
        /\ run' = [run EXCEPT !.result = outcome]
    BY <1>2 DEF Execute
  <2>2. run'.result = outcome
    BY <1>0, <2>1 DEF Run
  <2>3. outcome # "fail" /\ mem.phase \in PhasesOf(EpicTeardown) => <<mem.epic, mem.phase>> \in E
    BY <1>2 DEF TearStep
  <2>. QED
    BY <1>0, <2>1, <2>2, <2>3, TearingGrows DEF TearInv
<1>3. CASE StopRequested
  BY <1>3, <1>0, ExitTears DEF StopRequested, durable, observer
<1>4. CASE PhaseFails
  BY <1>4, <1>0, TearingGrows DEF PhaseFails, TearInv, durable, process,
     observer
<1>5. CASE Halt
  BY <1>5, <1>0, ExitTears DEF Halt, observer
<1>6. CASE PhaseSucceeds
  BY <1>6, <1>0, TearingGrows DEF PhaseSucceeds, TearInv, durable, process,
     observer
<1>7. CASE SyncPhase
  BY <1>7, <1>0, TearingGrows DEF SyncPhase, SyncSprint, TearInv, durable,
     process, observer
<1>. QED
  BY <1>1, <1>2, <1>3, <1>4, <1>5, <1>6, <1>7 DEF Iterate

LEMMA FinishStoryKeepsTorn ==
    ASSUME ListsApart, TypeInv, ResultInv, NEW D, NEW E, TearStep(D, E),
        TearInv(disk, mem, pc, run, D), FinishStory
    PROVE  TearInv(disk', mem', pc', run', E)
<1>. USE DEF Goto
<1>0. /\ disk \in State /\ mem \in State /\ run \in Run /\ D \subseteq E
      /\ pc \notin {"off", "load"} => mem \in Position /\ disk \in Position
      /\ pc \notin {"off", "load"} => /\ Closed(mem, D) /\ Tearing(mem, D)
                                      /\ Closed(mem, E) /\ Tearing(mem, E)
      /\ pc \notin {"off", "load"} => Closed(disk, E) /\ Tearing(disk, E)
  BY TearingGrows, PositionFields DEF TypeInv, TypeOK, Placed, TearStep, TearInv
<1>1. CASE Rework
  <2>. DEFINE st == [mem EXCEPT !.phase = "dev_story", !.rework = @ + 1]
  <2>1. st.doneEpics = mem.doneEpics /\ st.phase \in StoryPhaseSet
    BY <1>0 DEF State, StoryPhaseSet
  <2>2. Closed(st, E) /\ Tearing(st, E)
    <3>. HIDE DEF st
    <3>. QED
      BY <1>1, <1>0, <2>1, StoryPhaseTears DEF Rework, Closed
  <2>. QED
    BY <1>1, <1>0, <2>2, ContinueTears DEF Rework
<1>2. CASE RefuseUnresolved
  BY <1>2, <1>0, ExitTears DEF RefuseUnresolved, durable, observer
<1>3. CASE AfterReview
  <2>1. GetNextPhase(mem.phase) \notin EndPhases /\ pc = "decide"
    BY <1>3, NextPhaseIn DEF AfterReview, ListsApart, StoryPhaseSet
  <2>2. LET st == [mem EXCEPT !.phase = GetNextPhase(mem.phase)]
        IN  Closed(st, E) /\ Tearing(st, E)
    BY <1>0, <2>1, SetPhaseTears
  <2>. QED
    BY <1>3, <1>0, <2>2, ContinueTears DEF AfterReview
<1>4. CASE HoldStory
  BY <1>4, <1>0, CompletedTears, MoveTears DEF HoldStory, Save
<1>5. CASE NextStory
  <2>. DEFINE c == CompleteStory(mem)
  <2>1. Closed(c, E) /\ c \in Position
    BY <1>5, <1>0, CompletedTears, CompleteStoryPosition DEF NextStory
  <2>2. /\ mem' = [c EXCEPT !.story = Min(RemainingStories(c)), !.phase = "create_story",
                            !.rework = 0]
        /\ disk' = mem' /\ pc' = "story_prompt"
    BY <1>5 DEF NextStory, Save, HandleStoryCompletion, AdvanceToNextStory
  <2>. HIDE DEF c
  <2>3. mem'.doneEpics = c.doneEpics /\ mem'.phase = "create_story"
    BY <2>1, <2>2 DEF Position, State
  <2>4. Closed(mem', E) /\ Tearing(mem', E)
    BY <2>1, <2>3, StoryPhaseTears DEF Closed, StoryPhaseSet
  <2>. QED
    BY <1>0, <2>2, <2>4, MoveTears
<1>6. CASE LastStory
  <2>1. /\ Closed(CompleteStory(mem), E) /\ Tearing(CompleteStory(mem), E)
        /\ mem' = CompleteStory(mem) /\ disk' = mem'
    BY <1>6, <1>0, CompletedTears DEF LastStory, Save, HandleStoryCompletion
  <2>2. CASE pc' = "stage"
    BY <1>0, <2>1, <2>2, MoveTears
  <2>3. CASE pc' = "teardown"
    <3>1. run'.step = 1
      BY <1>6, <1>0 DEF LastStory, Run
    <3>2. 1..(run'.step - 1) = {}
      BY <3>1
    <3>. QED
      BY <1>0, <2>1, <2>3, <3>2 DEF TearInv
  <2>4. CASE pc' = "teardown_end" /\ EpicTeardown = <<>>
    <3>1. DOMAIN EpicTeardown = {}
      BY <2>4
    <3>. QED
      BY <1>0, <2>1, <2>4, <3>1 DEF TearInv
  <2>. QED
    BY <1>6, <2>2, <2>3, <2>4 DEF LastStory
<1>7. CASE QuitAtPrompt
  BY <1>7, <1>0, ExitTears DEF QuitAtPrompt, durable, observer
<1>8. CASE BeginStory
  BY <1>8, <1>0, ExitTears, MoveTears DEF BeginStory
<1>. QED
  BY <1>1, <1>2, <1>3, <1>4, <1>5, <1>6, <1>7, <1>8 DEF FinishStory

LEMMA FinishEpicKeepsTorn ==
    ASSUME ListsApart, TypeInv, ResultInv, NEW D, NEW E, TearStep(D, E),
        TearInv(disk, mem, pc, run, D), FinishEpic
    PROVE  TearInv(disk', mem', pc', run', E)
<1>. USE DEF Goto
<1>0. /\ disk \in State /\ mem \in State /\ run \in Run /\ D \subseteq E
      /\ pc \notin {"off", "load"} => mem \in Position /\ disk \in Position
      /\ pc \notin {"off", "load"} => /\ Closed(mem, D) /\ Tearing(mem, D)
                                      /\ Closed(mem, E) /\ Tearing(mem, E)
      /\ pc \notin {"off", "load"} => Closed(disk, E) /\ Tearing(disk, E)
  BY TearingGrows, PositionFields DEF TypeInv, TypeOK, Placed, TearStep, TearInv
<1>1. CASE StageTeardown
  <2>1. pc = "stage" /\ pc' = "exit_sync"
    BY <1>1 DEF StageTeardown
  <2>2. CASE EpicTeardown = <<>>
    BY <1>1, <1>0, <2>1, <2>2, MoveTears DEF StageTeardown
  <2>3. CASE EpicTeardown # <<>>
    <3>1. 1 \in DOMAIN EpicTeardown /\ \A k \in DOMAIN EpicTeardown : ~(k < 1)
      BY <2>3, TeardownIndex, LoopConfigAssumption
    <3>2. LET st == [mem EXCEPT !.phase = EpicTeardown[1]]
          IN  Closed(st, E) /\ Tearing(st, E)
      BY <1>0, <2>1, <3>1, SetPhaseTears
    <3>. QED
      BY <1>1, <1>0, <2>1, <2>3, <3>2, MoveTears DEF StageTeardown, Save
  <2>. QED
    BY <2>2, <2>3
<1>2. CASE TeardownPhase
  <2>. DEFINE st == [mem EXCEPT !.phase = EpicTeardown[run.step]]
  <2>1. /\ pc = "teardown" /\ pc' = "teardown_run" /\ disk' = st /\ mem' = st /\ run' = run
        /\ run.step \in DOMAIN EpicTeardown
    BY <1>2 DEF TeardownPhase, Save, TypeInv, StepInRange
  <2>2. \A k \in DOMAIN EpicTeardown : k < run.step => k \in 1..(run.step - 1)
    BY <2>1, TeardownIndex
  <2>3. \A k \in 1..(run.step - 1) : <<mem.epic, EpicTeardown[k]>> \in E
    BY <1>0, <2>1 DEF TearInv
  <2>4. Closed(st, E) /\ Tearing(st, E)
    BY <1>0, <2>1, <2>2, <2>3, SetPhaseTears
  <2>5. st.epic = mem.epic /\ st.phase = EpicTeardown[run.step]
    BY <1>0 DEF State
  <2>. HIDE DEF st
  <2>. QED
    BY <2>1, <2>3, <2>4, <2>5 DEF TearInv
<1>3. CASE TeardownSucceeds
  <2>1. /\ pc = "teardown_run" /\ UNCHANGED <<disk, mem>>
        /\ run.step \in DOMAIN EpicTeardown
        /\ mem.phase = EpicTeardown[run.step]
        /\ <<mem.epic, mem.phase>> \in E
    BY <1>3 DEF TeardownSucceeds, TypeInv, StepInRange, TearInv, TearStep
  <2>2. \A k \in 1..(run.step - 1) : <<mem.epic, EpicTeardown[k]>> \in E
    BY <1>0, <2>1 DEF TearInv
  <2>3. \A k \in 1..run.step : <<mem.epic, EpicTeardown[k]>> \in E
    BY <2>1, <2>2, TeardownIndex
  <2>4. CASE run.step < Len(EpicTeardown)
    <3>1. pc' = "teardown" /\ run'.step = run.step + 1
      BY <1>3, <1>0, <2>4 DEF TeardownSucceeds, Run
    <3>2. 1..(run'.step - 1) = 1..run.step
      BY <2>1, <3>1, TeardownIndex
    <3>. QED
      BY <1>0, <2>1, <2>3, <3>1, <3>2 DEF TearInv
  <2>5. CASE ~(run.step < Len(EpicTeardown))
    <3>1. pc' = "teardown_end"
      BY <1>3, <2>5 DEF TeardownSucceeds
    <3>2. \A k \in DOMAIN EpicTeardown : k \in 1..run.step
      BY <2>1, <2>5, TeardownIndex
    <3>. QED
      BY <1>0, <2>1, <2>3, <3>1, <3>2 DEF TearInv
  <2>. QED
    BY <2>4, <2>5
<1>4. CASE TeardownFails
  BY <1>4, <1>0, MoveTears DEF TeardownFails
<1>5. CASE SyncTeardown
  BY <1>5, <1>0, TearingGrows DEF SyncTeardown, SyncSprint, TearInv, durable,
     process, observer
<1>6. CASE CompleteAndStop
  <2>1. pc \notin {"off", "load"} /\ TornDown(mem.epic, E)
    BY <1>6, <1>0, EpicEndTornDown DEF CompleteAndStop
  <2>2. Closed(CompleteEpic(mem), E) /\ Tearing(CompleteEpic(mem), E)
    BY <1>0, <2>1, CompletedTears
  <2>. QED
    BY <1>6, <1>0, <2>2, MoveTears DEF CompleteAndStop, Save
<1>7. CASE NextEpic
  <2>1. pc \notin {"off", "load"} /\ TornDown(mem.epic, E)
    BY <1>7, <1>0, EpicEndTornDown DEF NextEpic
  <2>. DEFINE c == CompleteEpic(mem)
  <2>2. Closed(c, E) /\ Tearing(c, E) /\ c \in Position
    BY <1>0, <2>1, CompletedTears, CompleteEpicPosition
  <2>3. CASE NextEpicExhausted(c, run.active)
    BY <1>7, <1>0, <2>3, ExitTears DEF NextEpic
  <2>4. CASE ~NextEpicExhausted(c, run.active)
    <3>1. mem' = AdvanceToNextEpic(c, run.active) /\ disk' = mem'
          /\ pc' \in {"epic_prompt", "epic_sync"}
      BY <1>7, <2>4 DEF NextEpic, Save, HandleEpicCompletion
    <3>. HIDE DEF c
    <3>2. mem'.doneEpics = c.doneEpics /\ mem'.phase = "create_story"
      BY <2>2, <3>1 DEF AdvanceToNextEpic, Position, State
    <3>3. Closed(mem', E) /\ Tearing(mem', E)
      BY <2>2, <3>2, StoryPhaseTears DEF Closed, StoryPhaseSet
    <3>. QED
      BY <1>0, <3>1, <3>3, MoveTears
  <2>. QED
    BY <2>3, <2>4
<1>8. CASE BeginEpic
  BY <1>8, <1>0, TearingGrows DEF BeginEpic, TearInv, durable, process, observer
<1>9. CASE SyncEpic
  BY <1>9, <1>0, TearingGrows DEF SyncEpic, SyncSprint, TearInv, durable,
     process, observer
<1>10. CASE ExitSync
  BY <1>10, <1>0, ExitTears DEF ExitSync, observer
<1>. QED
  BY <1>1, <1>2, <1>3, <1>4, <1>5, <1>6, <1>7, <1>8, <1>9, <1>10 DEF FinishEpic

LEMMA AdvanceKeepsTorn ==
    ASSUME ListsApart, TypeInv, ResultInv, NEW D, NEW E, TearStep(D, E),
        TearInv(disk, mem, pc, run, D), Advance
    PROVE  TearInv(disk', mem', pc', run', E)
<1>. USE DEF Goto
<1>0. /\ disk \in State /\ mem \in State /\ run \in Run /\ D \subseteq E
      /\ pc \notin {"off", "load"} => mem \in Position /\ disk \in Position
      /\ pc \notin {"off", "load"} => /\ Closed(mem, D) /\ Tearing(mem, D)
                                      /\ Closed(mem, E) /\ Tearing(mem, E)
      /\ pc \notin {"off", "load"} => Closed(disk, E) /\ Tearing(disk, E)
  BY TearingGrows, PositionFields DEF TypeInv, TypeOK, Placed, TearStep, TearInv
<1>1. CASE NextPhase
  <2>1. GetNextPhase(mem.phase) \notin EndPhases /\ pc = "decide"
    BY <1>1, NextPhaseIn DEF NextPhase, Ordinary, ListsApart, StoryPhaseSet
  <2>2. LET st == [mem EXCEPT !.phase = GetNextPhase(mem.phase)]
        IN  Closed(st, E) /\ Tearing(st, E)
    BY <1>0, <2>1, SetPhaseTears
  <2>. QED
    BY <1>1, <1>0, <2>2, AdvancePhaseTears DEF NextPhase
<1>2. CASE NextTeardownPhase
  <2>. DEFINE i == PhaseIndex(EpicTeardown, mem.phase)
  <2>1. /\ mem.phase \in PhasesOf(EpicTeardown) /\ pc = "decide"
        /\ i + 1 \in DOMAIN EpicTeardown
        /\ GetNextTeardownPhase(mem.phase) = EpicTeardown[i + 1]
    BY <1>2, NextTeardownPhaseIn DEF NextTeardownPhase, Ordinary
  <2>2. <<mem.epic, mem.phase>> \in E /\ i \in DOMAIN EpicTeardown /\ EpicTeardown[i] = mem.phase
    BY <1>0, <2>1, TeardownIndex DEF TearInv, ResultInv
  <2>3. \A k \in Before(mem.phase) : <<mem.epic, EpicTeardown[k]>> \in E
    BY <1>0, <2>1 DEF Tearing, EndPhases
  <2>4. ASSUME NEW k \in DOMAIN EpicTeardown, k < i + 1
        PROVE  <<mem.epic, EpicTeardown[k]>> \in E
    <3>1. k \in Before(mem.phase) \/ k = i
      <4>. HIDE DEF i
      <4>1. k < i \/ k = i
        BY <2>2, <2>4, PhaseLists
      <4>. QED
        BY <4>1 DEF Before, i
    <3>. QED
      BY <2>2, <2>3, <3>1
  <2>5. LET st == [mem EXCEPT !.phase = GetNextTeardownPhase(mem.phase)]
        IN  Closed(st, E) /\ Tearing(st, E)
    <3>. HIDE DEF i
    <3>. QED
      BY <1>0, <2>1, <2>4, SetPhaseTears
  <2>. QED
    BY <1>2, <1>0, <2>5, AdvancePhaseTears DEF NextTeardownPhase
<1>3. CASE CannotAdvance
  BY <1>3, <1>0, ExitTears DEF CannotAdvance, durable, observer
<1>. QED
  BY <1>1, <1>2, <1>3 DEF Advance

LEMMA EnvironmentKeepsTorn ==
    ASSUME ListsApart, TypeInv, ResultInv, NEW D, NEW E, TearStep(D, E),
        TearInv(disk, mem, pc, run, D), Environment
    PROVE  TearInv(disk', mem', pc', run', E)
<1>. USE DEF Goto
<1>0. /\ disk \in State /\ mem \in State /\ run \in Run /\ D \subseteq E
      /\ pc \notin {"off", "load"} => mem \in Position /\ disk \in Position
      /\ pc \notin {"off", "load"} => /\ Closed(mem, D) /\ Tearing(mem, D)
                                      /\ Closed(mem, E) /\ Tearing(mem, E)
      /\ pc \notin {"off", "load"} => Closed(disk, E) /\ Tearing(disk, E)
  BY TearingGrows, PositionFields DEF TypeInv, TypeOK, Placed, TearStep, TearInv
<1>1. CASE StartRun
  BY <1>1, <1>0, TearingGrows DEF StartRun, NewRun, TearInv, durable, process,
     observer
<1>2. CASE NoEpics
  BY <1>2, <1>0, TearingGrows DEF NoEpics, TearInv, durable, process, observer
<1>3. CASE Kill
  BY <1>3, <1>0, ExitTears DEF Kill, durable, observer
<1>4. CASE Cancel
  BY <1>4, <1>0, TearingGrows DEF Cancel, TearInv, durable, process, observer
<1>5. CASE SprintSync
  BY <1>5, <1>0, TearingGrows DEF SprintSync, TearInv, durable, process,
     observer
<1>6. CASE EditSprint
  <2>1. UNCHANGED <<disk, mem, pc, run>>
    BY <1>6, Zenon DEF EditSprint, process
  <2>. QED
    BY <1>0, <2>1, TearingGrows DEF TearInv
<1>. QED
  BY <1>1, <1>2, <1>3, <1>4, <1>5, <1>6 DEF Environment

LEMMA NextKeepsTorn ==
    ASSUME ListsApart, TypeInv, ResultInv, NEW D, NEW E, TearStep(D, E),
           TearInv(disk, mem, pc, run, D), [Next]_vars
    PROVE  TearInv(disk', mem', pc', run', E)
<1>1. UNCHANGED vars => TearInv(disk', mem', pc', run', E)
  BY TearingGrows DEF TearInv, TearStep, vars
<1>. QED
  BY <1>1, StartKeepsTorn, SetupKeepsTorn, IterateKeepsTorn, FinishStoryKeepsTorn,
     FinishEpicKeepsTorn, AdvanceKeepsTorn, EnvironmentKeepsTorn
     DEF Next, Process

-----------------------------------------------------------------------------
(***************************************************************************)
(* The reports.                                                            *)
(***************************************************************************)
\* A handler adds reports, that of the phase it ran if it succeeds.
LEMMA ReportsWritten ==
    ASSUME TypeInv, pc \notin {"off", "load"}, NEW outcome, artifacts' \in Reports(outcome)
    PROVE  /\ artifacts.review \subseteq artifacts'.review
           /\ artifacts.retro \subseteq artifacts'.retro
           /\ outcome # "fail" /\ mem.phase = "code_review_synthesis"
                => CurrentStory(mem) \in artifacts'.review
           /\ outcome # "fail" /\ mem.phase = "retrospective"
                => mem.epic \in artifacts'.retro
<1>1. artifacts \in Artifacts
  BY DEF TypeInv, TypeOK
<1>2. CASE mem.phase = "code_review_synthesis"
  BY <1>1, <1>2 DEF Reports, Artifacts
<1>3. CASE mem.phase = "test_review"
  BY <1>1, <1>3 DEF Reports, Artifacts
<1>4. CASE mem.phase = "retrospective"
  BY <1>1, <1>4 DEF Reports, Artifacts
<1>5. CASE mem.phase \notin {"code_review_synthesis", "test_review", "retrospective"}
  BY <1>5 DEF Reports
<1>. QED
  BY <1>2, <1>3, <1>4, <1>5

\* No step takes a report back.
LEMMA ReportsStay ==
    ASSUME TypeInv, [Next]_vars
    PROVE  /\ artifacts.review \subseteq artifacts'.review
           /\ artifacts.retro \subseteq artifacts'.retro
<1>. USE DEF Goto, durable, Exit
<1>1. CASE Start
  BY <1>1 DEF Start, FreshStart, Repair, Resume, RefuseResume, SkipDoneEpic,
              SkipDoneStory, AcceptPosition, Resync
<1>2. CASE Setup
  BY <1>2 DEF Setup, EnterLoop, SetupPhase, SetupSucceeds, SetupFails, RestorePhase
<1>3. CASE Iterate
  <2>1. ASSUME NEW outcome \in Outcome, Execute(outcome)
        PROVE  /\ artifacts.review \subseteq artifacts'.review
               /\ artifacts.retro \subseteq artifacts'.retro
    BY <2>1, ReportsWritten DEF Execute
  <2>2. CASE BeginPhase \/ StopRequested \/ PhaseFails \/ Halt \/ PhaseSucceeds \/ SyncPhase
    BY <2>2 DEF BeginPhase, StopRequested, PhaseFails, Halt, PhaseSucceeds, SyncPhase
  <2>. QED
    BY <1>3, <2>1, <2>2 DEF Iterate
<1>4. CASE FinishStory
  BY <1>4 DEF FinishStory, Rework, RefuseUnresolved, AfterReview, HoldStory, NextStory,
              LastStory, QuitAtPrompt, BeginStory
<1>5. CASE FinishEpic
  <2>1. CASE TeardownSucceeds \/ TeardownFails
    BY <2>1, ReportsWritten DEF TeardownSucceeds, TeardownFails
  <2>2. CASE \/ StageTeardown \/ TeardownPhase \/ SyncTeardown \/ CompleteAndStop
             \/ NextEpic \/ BeginEpic \/ SyncEpic \/ ExitSync
    BY <2>2 DEF StageTeardown, TeardownPhase, SyncTeardown, CompleteAndStop, NextEpic,
                BeginEpic, SyncEpic, ExitSync
  <2>. QED
    BY <1>5, <2>1, <2>2 DEF FinishEpic
<1>6. CASE Advance
  BY <1>6 DEF Advance, NextPhase, NextTeardownPhase, CannotAdvance
<1>7. CASE Environment
  <2>1. CASE EditSprint
    <3>1. artifacts' = artifacts
          \/ \E e \in Epic : artifacts' = [artifacts EXCEPT !.retro = @ \cup {e}]
      BY <2>1, Zenon DEF EditSprint
    <3>. QED
      BY <3>1 DEF TypeInv, TypeOK, Artifacts
  <2>2. CASE StartRun \/ NoEpics \/ Kill \/ Cancel \/ SprintSync
    BY <2>2 DEF StartRun, NoEpics, Kill, Cancel, SprintSync
  <2>. QED
    BY <1>7, <2>1, <2>2 DEF Environment
<1>8. CASE UNCHANGED vars
  BY <1>8 DEF vars
<1>. QED
  BY <1>1, <1>2, <1>3, <1>4, <1>5, <1>6, <1>7, <1>8 DEF Next, Process

\* The stories with a review report.
ReportInv == ReviewInv(disk, mem, pc, run, artifacts.review, Outcome \ {"fail"})

LEMMA ReportStep ==
    ASSUME TypeInv, ResultInv, [Next]_vars
    PROVE  ReviewStep(artifacts.review, artifacts'.review, Outcome \ {"fail"})
<1>1. SkipDoneStory => CurrentStory(mem) \in artifacts.review
  BY DEF SkipDoneStory, StoryIsDone, StoryDurablyDone
<1>2. ASSUME NEW outcome \in Outcome \ {"fail"}, Execute(outcome),
             mem.phase = "code_review_synthesis"
      PROVE  CurrentStory(mem) \in artifacts'.review
  <2>1. pc = "run" /\ artifacts' \in Reports(outcome)
    BY <1>2 DEF Execute, Goto
  <2>. QED
    BY <1>2, <2>1, ReportsWritten
<1>3. pc = "decide" => run.result \in Outcome \ {"fail"}
  BY DEF ResultInv
<1>. QED
  BY <1>1, <1>2, <1>3, ReportsStay DEF ReviewStep

\* The phases of epics that ask for no retrospective or have its report.
RetroPhases(reports) == {x \in Epic \X Phase : x[2] = "retrospective" => x[1] \in reports}

RetroInv == TearInv(disk, mem, pc, run, RetroPhases(artifacts.retro))

LEMMA RetroPhase ==
    ASSUME NEW reports, NEW e \in Epic, NEW p \in Phase
    PROVE  <<e, p>> \in RetroPhases(reports) <=> (p = "retrospective" => e \in reports)
BY DEF RetroPhases

LEMMA RetroStep ==
    ASSUME TypeInv, RetroInv, [Next]_vars
    PROVE  TearStep(RetroPhases(artifacts.retro), RetroPhases(artifacts'.retro))
<1>1. RetroPhases(artifacts.retro) \subseteq RetroPhases(artifacts'.retro)
  BY ReportsStay DEF RetroPhases
<1>2. ASSUME NEW outcome \in Outcome \ {"fail"}, pc \notin {"off", "load"},
             artifacts' \in Reports(outcome), mem.phase \in PhasesOf(EpicTeardown)
      PROVE  <<mem.epic, mem.phase>> \in RetroPhases(artifacts'.retro)
  <2>1. mem.epic \in Epic /\ mem.phase \in Phase
    BY <1>2, PositionFields, PhaseLists DEF TypeInv, Placed, PhasesOf
  <2>2. mem.phase = "retrospective" => mem.epic \in artifacts'.retro
    BY <1>2, ReportsWritten
  <2>. QED
    BY <2>1, <2>2, RetroPhase
<1>3. ASSUME NEW outcome \in Outcome \ {"fail"}, Execute(outcome),
             mem.phase \in PhasesOf(EpicTeardown)
      PROVE  <<mem.epic, mem.phase>> \in RetroPhases(artifacts'.retro)
  BY <1>2, <1>3 DEF Execute, Goto
<1>4. ASSUME TeardownSucceeds
      PROVE  <<mem.epic, mem.phase>> \in RetroPhases(artifacts'.retro)
  <2>1. pc = "teardown_run" /\ artifacts' \in Reports("ok")
    BY <1>4 DEF TeardownSucceeds
  <2>2. mem.phase \in PhasesOf(EpicTeardown)
    BY <2>1 DEF RetroInv, TearInv, TypeInv, StepInRange, PhasesOf
  <2>. QED
    BY <1>2, <2>1, <2>2 DEF Outcome
<1>5. ASSUME SkipDoneEpic PROVE TornDown(mem.epic, RetroPhases(artifacts.retro))
  <2>1. mem.epic \in Epic /\ mem.epic \in artifacts.retro
    BY <1>5, PositionFields
       DEF SkipDoneEpic, EpicIsDone, EpicDurablyDone, TypeInv, Placed
  <2>. QED
    BY <2>1, RetroPhase, PhaseLists DEF TornDown, UpToQa
<1>. QED
  BY <1>1, <1>3, <1>4, <1>5 DEF TearStep

\* The teardown list holds the retrospective, before any qa_plan_execute.
RetroFirst == \E i \in UpToQa : EpicTeardown[i] = "retrospective"

\* Nothing is recorded as completed unless a report exists: one of a code review
\* for a story, one of the retrospective for an epic.  What the report says is
\* left open: a review that asked for rework or failed may have written it.  It
\* holds as well when the operator marks work done in sprint-status.
THEOREM CompletedWithEvidence ==
    ASSUME ListsApart, ReviewFirst, RetroFirst
    PROVE  Spec => []EvidenceBacked
<1>. DEFINE Inv == ReportInv /\ RetroInv
<1>1. Init => Inv
  BY DEF Init, ReportInv, ReviewInv, RetroInv, TearInv, Closed, EmptyState
<1>2. TypeInv /\ ResultInv /\ Inv /\ [Next]_vars => Inv'
  <2>. SUFFICES ASSUME TypeInv, ResultInv, ReportInv, RetroInv, [Next]_vars
                PROVE  /\ ReviewInv(disk', mem', pc', run', artifacts'.review,
                                    Outcome \ {"fail"})
                       /\ TearInv(disk', mem', pc', run', RetroPhases(artifacts'.retro))
    BY DEF ReportInv, RetroInv
  <2>1. ReviewInv(disk', mem', pc', run', artifacts'.review, Outcome \ {"fail"})
    BY ReportStep, NextKeepsReviewed DEF ReportInv
  <2>2. TearInv(disk', mem', pc', run', RetroPhases(artifacts'.retro))
    BY RetroStep, NextKeepsTorn DEF RetroInv
  <2>. QED
    BY <2>1, <2>2
<1>3. TypeInv /\ Inv => EvidenceBacked
  <2>. SUFFICES ASSUME TypeInv, ReportInv, RetroInv PROVE EvidenceBacked
    OBVIOUS
  <2>1. disk.doneStories \subseteq artifacts.review
    BY DEF ReportInv, ReviewInv
  <2>2. ASSUME NEW e \in disk.doneEpics PROVE e \in artifacts.retro
    <3>1. e \in Epic /\ TornDown(e, RetroPhases(artifacts.retro))
      BY DEF RetroInv, TearInv, Closed, TypeInv, TypeOK, State
    <3>2. <<e, "retrospective">> \in RetroPhases(artifacts.retro)
      BY <3>1 DEF RetroFirst, TornDown
    <3>. QED
      BY <3>2 DEF RetroPhases
  <2>. QED
    BY <2>1, <2>2 DEF EvidenceBacked
<1>. QED
  BY <1>1, <1>2, <1>3, ResultInvariance, PTL DEF Spec

-----------------------------------------------------------------------------
(***************************************************************************)
(* The State object and state.yaml.  Outside of resume validation the      *)
(* process works on what is on disk, but for a phase it moved to and has   *)
(* not saved yet.  Validation leaves the epic it started in only past      *)
(* epics it does not have to record.                                       *)
(***************************************************************************)
MemInv ==
    /\ pc \notin {"off", "load", "validate", "top"} => mem = disk
    /\ pc = "top" => mem = [disk EXCEPT !.phase = mem.phase]
    /\ pc \in {"load", "repair"} => ~run.advanced
    /\ pc = "validate" => mem.setupDone = disk.setupDone
    /\ pc = "validate" /\ run.advanced =>
            /\ mem.epic = disk.epic
            /\ mem.story > disk.story
            /\ ~EpicDurablyDone(mem.epic, sprint, artifacts)

LEMMA SamePhase == \A st \in State : [st EXCEPT !.phase = st.phase] = st
BY DEF State

LEMMA AdvancedPhase ==
    ASSUME mem = disk, disk \in State, NEW p, AdvancePhase(p)
    PROVE  \/ pc' = "off"
           \/ pc' = "top" /\ disk' = disk /\ mem' = [disk EXCEPT !.phase = mem'.phase]
BY DEF AdvancePhase, Exit, State

\* A story that validation passes over is the recorded one or one after it.
LEMMA SkippedStory ==
    ASSUME TypeInv, SprintInv, OrderInv, MemInv, SkipDoneStory
    PROVE  /\ mem'.epic = disk.epic
           /\ mem'.story > disk.story
           /\ mem'.setupDone = disk.setupDone
           /\ ~EpicDurablyDone(mem'.epic, sprint, artifacts)
<1>. DEFINE next == IncompleteStories(mem, sprint, artifacts)
<1>1. /\ pc = "validate" /\ mem \in Position /\ disk \in Position
      /\ next # {} /\ next \subseteq RemainingStories(mem)
      /\ mem' = [CompleteStory(mem) EXCEPT !.story = Min(next), !.phase = "create_story"]
      /\ sprint.story[CurrentStory(mem)] = "done"
      /\ ~EpicDurablyDone(mem.epic, sprint, artifacts)
  BY DEF SkipDoneStory, LooksAtStories, EpicIsDone, StoryIsDone, StoryDurablyDone,
         IncompleteStories, TypeInv, Placed
<1>2. Min(next) \in RemainingStories(mem)
  <2>. HIDE DEF next
  <2>. QED
    BY <1>1, RemainingLeast
<1>3. mem'.epic = mem.epic /\ mem'.story = Min(next) /\ mem'.setupDone = disk.setupDone
  BY <1>1 DEF MemInv, CompleteStory, Position, State
<1>4. /\ mem.epic \in Nat /\ mem.story \in Nat /\ disk.epic \in Nat /\ disk.story \in Nat
      /\ StoryCount[mem.epic] \in Nat
  BY <1>1, PositionFields, LifecycleAssumption DEF Position, State, Epic
<1>5. Min(next) > mem.story /\ Min(next) \in Nat
  BY <1>2, <1>4 DEF RemainingStories
<1>6. <<mem.epic, mem.story>> \in disk.doneStories
  BY <1>1, PositionFields DEF SprintInv, Backed
<1>7. mem.epic < disk.epic \/ (mem.epic = disk.epic /\ mem.story <= disk.story)
  BY <1>1, <1>6, PositionFields DEF OrderInv, InPlace, NothingAhead
<1>8. NotPast(disk, mem)
  BY <1>1 DEF OrderInv
<1>9. mem.epic = disk.epic /\ mem.story >= disk.story
  BY <1>4, <1>7, <1>8 DEF NotPast
<1>. HIDE DEF next
<1>. QED
  BY <1>1, <1>3, <1>4, <1>5, <1>9

\* An epic that validation passes over is recorded already.
LEMMA SkippedEpic ==
    ASSUME TypeInv, SprintInv, MemInv, SkipDoneEpic
    PROVE  /\ mem \in Position
           /\ mem.epic \in mem.doneEpics
           /\ ~run.advanced
           /\ disk' = disk
           /\ pc' = "off" \/ (pc' = pc /\ ~run'.advanced /\ mem'.setupDone = disk.setupDone)
<1>. DEFINE st == CompleteEpic(mem)
            next == IncompleteEpics(st, sprint, artifacts)
<1>1. pc = "validate" /\ EpicDurablyDone(mem.epic, sprint, artifacts) /\ mem \in Position
  BY DEF SkipDoneEpic, EpicIsDone, TypeInv, Placed
<1>2. ~run.advanced
  BY <1>1 DEF MemInv
<1>3. mem.epic \in mem.doneEpics
  BY <1>1, PositionFields DEF EpicDurablyDone, SprintInv, Backed, SameDone
<1>4. CASE next = {}
  BY <1>1, <1>2, <1>3, <1>4 DEF SkipDoneEpic, Exit
<1>5. CASE next # {}
  <2>1. /\ mem' = [st EXCEPT !.epic = Min(next), !.story = 1, !.phase = "create_story"]
        /\ UNCHANGED <<disk, pc>>
        /\ run' = [run EXCEPT !.advanced = run.advanced \/ mem.epic \notin mem.doneEpics]
    BY <1>5 DEF SkipDoneEpic
  <2>2. mem'.setupDone = disk.setupDone
    BY <1>1, <2>1 DEF MemInv, CompleteEpic, Position, State
  <2>3. ~run'.advanced
    BY <1>2, <1>3, <2>1 DEF TypeInv, TypeOK, Run
  <2>. QED
    BY <1>1, <1>2, <1>3, <2>1, <2>2, <2>3
<1>. QED
  BY <1>4, <1>5

LEMMA StartKeepsMemInv ==
    ASSUME ManualEdits = FALSE, TypeInv, SprintInv, OrderInv, MemInv, Start
    PROVE  MemInv'
<1>. USE DEF Goto, MemInv
<1>0. /\ disk \in State /\ mem \in State /\ run \in Run
      /\ pc \notin {"off", "load"} => mem \in Position /\ disk \in Position
  BY DEF TypeInv, TypeOK, Placed
<1>1. CASE FreshStart
  BY <1>1, <1>0 DEF FreshStart, Save, Run
<1>2. CASE Repair
  BY <1>2, <1>0 DEF Repair, SyncSprint, durable, process, observer
<1>3. CASE Resume
  BY <1>3, <1>0 DEF Resume, durable, process, observer
<1>4. CASE RefuseResume
  BY <1>4, <1>0 DEF RefuseResume, durable, process, observer, Exit
<1>5. CASE SkipDoneEpic
  BY <1>5, <1>0, SkippedEpic DEF SkipDoneEpic
<1>6. CASE SkipDoneStory
  <2>1. pc = "validate" /\ pc' = pc /\ UNCHANGED <<disk, sprint, artifacts>>
    BY <1>6 DEF SkipDoneStory, durable
  <2>. QED
    BY <1>6, <2>1, SkippedStory
<1>7. CASE AcceptPosition
  BY <1>7, <1>0 DEF AcceptPosition, Save, durable, process, observer
<1>8. CASE Resync
  BY <1>8, <1>0 DEF Resync, SyncSprint, durable, process, observer
<1>. QED
  BY <1>1, <1>2, <1>3, <1>4, <1>5, <1>6, <1>7, <1>8 DEF Start

LEMMA SetupKeepsMemInv ==
    ASSUME ManualEdits = FALSE, TypeInv, SprintInv, OrderInv, MemInv, Setup
    PROVE  MemInv'
<1>. USE DEF Goto, MemInv
<1>0. /\ disk \in State /\ mem \in State /\ run \in Run
      /\ pc \notin {"off", "load"} => mem \in Position /\ disk \in Position
  BY DEF TypeInv, TypeOK, Placed
<1>1. CASE EnterLoop
  BY <1>1, <1>0 DEF EnterLoop, durable, State
<1>2. CASE SetupPhase
  BY <1>2, <1>0 DEF SetupPhase, Save, durable, process, observer
<1>3. CASE SetupSucceeds
  BY <1>3, <1>0 DEF SetupSucceeds, Save, durable, process, observer
<1>4. CASE SetupFails
  BY <1>4, <1>0 DEF SetupFails, durable, process, observer, Exit
<1>5. CASE RestorePhase
  <2>1. mem' = disk' /\ disk' \in State /\ pc' = "top"
    BY <1>5, <1>0, PhaseLists DEF RestorePhase, Save, State, PhasesOf
  <2>. QED
    BY <2>1, SamePhase
<1>. QED
  BY <1>1, <1>2, <1>3, <1>4, <1>5 DEF Setup

LEMMA IterateKeepsMemInv ==
    ASSUME ManualEdits = FALSE, TypeInv, SprintInv, OrderInv, MemInv, Iterate
    PROVE  MemInv'
<1>. USE DEF Goto, MemInv
<1>0. /\ disk \in State /\ mem \in State /\ run \in Run
      /\ pc \notin {"off", "load"} => mem \in Position /\ disk \in Position
  BY DEF TypeInv, TypeOK, Placed
<1>1. CASE BeginPhase
  BY <1>1, <1>0 DEF BeginPhase, durable, process, observer
<1>2. ASSUME NEW outcome \in Outcome, Execute(outcome) PROVE MemInv'
  BY <1>2, <1>0 DEF Execute, durable, process, observer
<1>3. CASE StopRequested
  BY <1>3, <1>0 DEF StopRequested, durable, process, observer, Exit
<1>4. CASE PhaseFails
  BY <1>4, <1>0 DEF PhaseFails, durable, process, observer
<1>5. CASE Halt
  BY <1>5, <1>0 DEF Halt, SyncSprint, durable, process, observer, Exit
<1>6. CASE PhaseSucceeds
  BY <1>6, <1>0 DEF PhaseSucceeds, durable, process, observer
<1>7. CASE SyncPhase
  BY <1>7, <1>0 DEF SyncPhase, SyncSprint, durable, process, observer
<1>. QED
  BY <1>1, <1>2, <1>3, <1>4, <1>5, <1>6, <1>7 DEF Iterate

LEMMA FinishStoryKeepsMemInv ==
    ASSUME ManualEdits = FALSE, TypeInv, SprintInv, OrderInv, MemInv,
        FinishStory
    PROVE  MemInv'
<1>. USE DEF Goto, MemInv
<1>0. /\ disk \in State /\ mem \in State /\ run \in Run
      /\ pc \notin {"off", "load"} => mem \in Position /\ disk \in Position
  BY DEF TypeInv, TypeOK, Placed
<1>1. CASE Rework
  BY <1>1, <1>0 DEF Rework, SaveAndContinue, Save, durable, process, observer,
     Exit
<1>2. CASE RefuseUnresolved
  BY <1>2, <1>0 DEF RefuseUnresolved, durable, process, observer, Exit
<1>3. CASE AfterReview
  BY <1>3, <1>0 DEF AfterReview, SaveAndContinue, Save, durable, process,
     observer, Exit
<1>4. CASE HoldStory
  BY <1>4, <1>0 DEF HoldStory, Save, CompleteStory, durable, process, observer
<1>5. CASE NextStory
  BY <1>5, <1>0 DEF NextStory, Save, HandleStoryCompletion, AdvanceToNextStory,
     CompleteStory, durable, process, observer
<1>6. CASE LastStory
  BY <1>6, <1>0 DEF LastStory, Save, HandleStoryCompletion, CompleteStory,
     durable, process, observer
<1>7. CASE QuitAtPrompt
  BY <1>7, <1>0 DEF QuitAtPrompt, durable, process, observer, Exit
<1>8. CASE BeginStory
  <2>1. pc' = "off" \/ (pc' = "top" /\ UNCHANGED <<disk, mem>> /\ mem = disk)
    BY <1>8 DEF BeginStory, Exit
  <2>. QED
    BY <1>0, <2>1, SamePhase
<1>. QED
  BY <1>1, <1>2, <1>3, <1>4, <1>5, <1>6, <1>7, <1>8 DEF FinishStory

LEMMA FinishEpicKeepsMemInv ==
    ASSUME ManualEdits = FALSE, TypeInv, SprintInv, OrderInv, MemInv, FinishEpic
    PROVE  MemInv'
<1>. USE DEF Goto, MemInv
<1>0. /\ disk \in State /\ mem \in State /\ run \in Run
      /\ pc \notin {"off", "load"} => mem \in Position /\ disk \in Position
  BY DEF TypeInv, TypeOK, Placed
<1>1. CASE StageTeardown
  BY <1>1, <1>0 DEF StageTeardown, Save, durable, process, observer
<1>2. CASE TeardownPhase
  BY <1>2, <1>0 DEF TeardownPhase, Save, durable, process, observer
<1>3. CASE TeardownSucceeds
  BY <1>3, <1>0 DEF TeardownSucceeds, durable, process, observer
<1>4. CASE TeardownFails
  BY <1>4, <1>0 DEF TeardownFails, durable, process, observer
<1>5. CASE SyncTeardown
  BY <1>5, <1>0 DEF SyncTeardown, SyncSprint, durable, process, observer
<1>6. CASE CompleteAndStop
  BY <1>6, <1>0 DEF CompleteAndStop, Save, CompleteEpic, durable, process,
     observer
<1>7. CASE NextEpic
  BY <1>7, <1>0 DEF NextEpic, Save, HandleEpicCompletion, AdvanceToNextEpic,
     CompleteEpic, durable, process, observer, Exit
<1>8. CASE BeginEpic
  <2>1. pc' = "top" /\ UNCHANGED <<disk, mem>> /\ mem = disk
    BY <1>8 DEF BeginEpic, durable
  <2>. QED
    BY <1>0, <2>1, SamePhase
<1>9. CASE SyncEpic
  <2>1. pc' = "top" /\ UNCHANGED <<disk, mem>> /\ mem = disk
    BY <1>9 DEF SyncEpic
  <2>. QED
    BY <1>0, <2>1, SamePhase
<1>10. CASE ExitSync
  BY <1>10, <1>0 DEF ExitSync, SyncSprint, durable, process, observer, Exit
<1>. QED
  BY <1>1, <1>2, <1>3, <1>4, <1>5, <1>6, <1>7, <1>8, <1>9, <1>10 DEF FinishEpic

LEMMA AdvanceKeepsMemInv ==
    ASSUME ManualEdits = FALSE, TypeInv, SprintInv, OrderInv, MemInv, Advance
    PROVE  MemInv'
<1>. USE DEF Goto, MemInv
<1>0. /\ disk \in State /\ mem \in State /\ run \in Run
      /\ pc \notin {"off", "load"} => mem \in Position /\ disk \in Position
  BY DEF TypeInv, TypeOK, Placed
<1>1. CASE NextPhase
  <2>1. mem = disk /\ AdvancePhase(GetNextPhase(mem.phase))
    BY <1>1 DEF NextPhase, Ordinary
  <2>. QED
    BY <1>0, <2>1, AdvancedPhase
<1>2. CASE NextTeardownPhase
  <2>1. mem = disk /\ AdvancePhase(GetNextTeardownPhase(mem.phase))
    BY <1>2 DEF NextTeardownPhase, Ordinary
  <2>. QED
    BY <1>0, <2>1, AdvancedPhase
<1>3. CASE CannotAdvance
  BY <1>3, <1>0 DEF CannotAdvance, durable, process, observer, Exit
<1>. QED
  BY <1>1, <1>2, <1>3 DEF Advance

LEMMA EnvironmentKeepsMemInv ==
    ASSUME ManualEdits = FALSE, TypeInv, SprintInv, OrderInv, MemInv,
        Environment
    PROVE  MemInv'
<1>. USE DEF Goto, MemInv
<1>0. /\ disk \in State /\ mem \in State /\ run \in Run
      /\ pc \notin {"off", "load"} => mem \in Position /\ disk \in Position
  BY DEF TypeInv, TypeOK, Placed
<1>1. CASE StartRun
  BY <1>1, <1>0 DEF StartRun, NewRun, durable, process, observer
<1>2. CASE NoEpics
  BY <1>2, <1>0 DEF NoEpics, durable, process, observer
<1>3. CASE Kill
  BY <1>3, <1>0 DEF Kill, durable, process, observer, Exit
<1>4. CASE Cancel
  BY <1>4, <1>0 DEF Cancel, durable, process, observer
<1>5. CASE SprintSync
  BY <1>5, <1>0 DEF SprintSync, durable, process, observer
<1>6. CASE EditSprint
  BY <1>6, Zenon DEF EditSprint
<1>. QED
  BY <1>1, <1>2, <1>3, <1>4, <1>5, <1>6 DEF Environment

LEMMA StutterKeepsMemInv == MemInv /\ UNCHANGED vars => MemInv'
BY DEF MemInv, vars

LEMMA NextKeepsMemInv ==
    ASSUME ManualEdits = FALSE, TypeInv, SprintInv, OrderInv, MemInv, [Next]_vars
    PROVE  MemInv'
BY StartKeepsMemInv, SetupKeepsMemInv, IterateKeepsMemInv, FinishStoryKeepsMemInv,
   FinishEpicKeepsMemInv, AdvanceKeepsMemInv, EnvironmentKeepsMemInv,
   StutterKeepsMemInv
   DEF Next, Process

LEMMA MemInvariance ==
    ASSUME ListsApart, ManualEdits = FALSE
    PROVE  Spec => [](TypeInv /\ SprintInv /\ OrderInv /\ ResultInv /\ MemInv)
<1>1. Init => MemInv
  BY DEF Init, MemInv
<1>2. TypeInv /\ SprintInv /\ OrderInv /\ MemInv /\ [Next]_vars => MemInv'
  BY NextKeepsMemInv
<1>. QED
  BY <1>1, <1>2, ResultInvariance, OrderInvariance, PTL DEF Spec

-----------------------------------------------------------------------------
(***************************************************************************)
(* Set up epics.                                                           *)
(***************************************************************************)
SetUp(st) ==
    st.setupDone => \A i \in DOMAIN EpicSetup : <<st.epic, EpicSetup[i]>> \in succeeded

SetupInv ==
    /\ SetUp(disk)
    /\ disk.epic = 0 => ~disk.setupDone
    /\ pc \in {"setup", "setup_run"} =>
            \A i \in 1..(run.step - 1) : <<mem.epic, EpicSetup[i]>> \in succeeded
    /\ pc = "setup_run" => mem.phase = EpicSetup[run.step]
    /\ pc = "restore" => mem.phase = StoryPhases[1]

LEMMA SucceededStays ==
    ASSUME [Next]_vars
    PROVE  succeeded \subseteq succeeded'
<1>1. succeeded \subseteq Succeeded
  BY DEF Succeeded
<1>. QED
  BY <1>1 DEF Next, Process, Environment, Start, Setup, Iterate, FinishStory, FinishEpic,
         Advance, vars, observer, FreshStart, Repair, Resume, RefuseResume,
         SkipDoneEpic, SkipDoneStory, AcceptPosition, Resync, EnterLoop, SetupPhase,
         SetupSucceeds, SetupFails, RestorePhase, BeginPhase, Execute, StopRequested,
         PhaseFails, Halt, PhaseSucceeds, SyncPhase, Rework, RefuseUnresolved,
         AfterReview, HoldStory, NextStory, LastStory, QuitAtPrompt, BeginStory,
         StageTeardown, TeardownPhase, TeardownSucceeds, TeardownFails, SyncTeardown,
         CompleteAndStop, NextEpic, BeginEpic, SyncEpic, ExitSync, NextPhase,
         NextTeardownPhase, CannotAdvance, StartRun, NoEpics, Kill, Cancel, SprintSync,
         EditSprint

\* A state that is saved at the epic it is in, with the flag it has.
LEMMA SavedSetup ==
    ASSUME SetupInv, succeeded \subseteq succeeded', disk' = disk \/ disk \in Position,
           disk'.epic = disk.epic, disk'.setupDone = disk.setupDone,
           pc' \notin {"setup", "setup_run", "restore"}
    PROVE  SetupInv'
BY PositionFields DEF SetupInv, SetUp

LEMMA StartKeepsSetupInv ==
    ASSUME ManualEdits = FALSE, TypeInv, SprintInv, OrderInv, MemInv, SetupInv,
        succeeded \subseteq succeeded', Start
    PROVE  SetupInv'
<1>. USE DEF Goto
<1>0. /\ disk \in State /\ mem \in State /\ run \in Run
      /\ pc \notin {"off", "load"} => mem \in Position /\ disk \in Position
  BY DEF TypeInv, TypeOK, Placed
<1>1. CASE FreshStart
  <2>1. FirstPosition.setupDone = disk.setupDone
    BY <1>0 DEF FirstPosition, State
  <2>. QED
    BY <1>1, <1>0, <2>1 DEF FreshStart, Save, SetupInv, SetUp
<1>2. CASE Repair
  BY <1>2, <1>0, SavedSetup DEF Repair, SyncSprint, MemInv, durable, process,
     observer, State
<1>3. CASE Resume
  BY <1>3, <1>0, SavedSetup DEF Resume, MemInv, durable, process, observer,
     State
<1>4. CASE RefuseResume
  BY <1>4, <1>0, SavedSetup DEF RefuseResume, Exit, MemInv, durable, process,
     observer, State
<1>5. CASE SkipDoneEpic
  BY <1>5, <1>0, SkippedEpic, SavedSetup DEF SkipDoneEpic
<1>6. CASE SkipDoneStory
  BY <1>6, <1>0, SavedSetup DEF SkipDoneStory, CompleteStory, MemInv, durable,
     process, observer, State
<1>7. CASE AcceptPosition
  BY <1>7, <1>0, SavedSetup DEF AcceptPosition, Save, MemInv
<1>8. CASE Resync
  BY <1>8, <1>0, SavedSetup DEF Resync, SyncSprint, MemInv, durable, process,
     observer, State
<1>. QED
  BY <1>1, <1>2, <1>3, <1>4, <1>5, <1>6, <1>7, <1>8 DEF Start

LEMMA SetupKeepsSetupInv ==
    ASSUME ManualEdits = FALSE, TypeInv, SprintInv, OrderInv, MemInv, SetupInv,
        succeeded \subseteq succeeded', Setup
    PROVE  SetupInv'
<1>. USE DEF Goto
<1>0. /\ disk \in State /\ mem \in State /\ run \in Run
      /\ pc \notin {"off", "load"} => mem \in Position /\ disk \in Position
  BY DEF TypeInv, TypeOK, Placed
<1>1. CASE EnterLoop
  <2>1. pc = "enter" /\ UNCHANGED <<disk, mem>> /\ run.step = 1
    BY <1>1 DEF EnterLoop, durable, TypeInv, StepInRange
  <2>2. CASE pc' = "setup"
    <3>1. run'.step = 1
      BY <1>1, <1>0, <2>1, <2>2 DEF EnterLoop, Run
    <3>2. 1..(run'.step - 1) = {}
      BY <3>1
    <3>. QED
      BY <2>1, <2>2, <3>2 DEF SetupInv, SetUp
  <2>3. CASE pc' = "top"
    BY <2>1, <2>3, SavedSetup
  <2>. QED
    BY <1>1, <2>2, <2>3 DEF EnterLoop
<1>2. CASE SetupPhase
  <2>. DEFINE st == [mem EXCEPT !.phase = EpicSetup[run.step]]
  <2>1. /\ pc = "setup" /\ pc' = "setup_run" /\ disk' = st /\ mem' = st /\ run' = run
        /\ mem = disk
    BY <1>2 DEF SetupPhase, Save, MemInv
  <2>2. /\ st.epic = mem.epic /\ st.setupDone = mem.setupDone
        /\ st.phase = EpicSetup[run.step]
    BY <1>0 DEF State
  <2>. HIDE DEF st
  <2>. QED
    BY <2>1, <2>2 DEF SetupInv, SetUp
<1>3. CASE SetupSucceeds
  <2>1. /\ pc = "setup_run" /\ mem = disk /\ mem.phase = EpicSetup[run.step]
        /\ run.step \in DOMAIN EpicSetup
        /\ DOMAIN EpicSetup = 1..Len(EpicSetup) /\ Len(EpicSetup) \in Nat
    BY <1>3, LoopConfigAssumption DEF SetupSucceeds, MemInv, SetupInv, TypeInv, StepInRange
  <2>2. <<mem.epic, EpicSetup[run.step]>> \in succeeded'
    BY <1>3, <2>1 DEF SetupSucceeds, Succeeded, EpicPhases, PhasesOf
  <2>3. \A i \in 1..(run.step - 1) : <<mem.epic, EpicSetup[i]>> \in succeeded
    BY <2>1 DEF SetupInv
  <2>4. \A i \in 1..run.step : <<mem.epic, EpicSetup[i]>> \in succeeded'
    BY <2>1, <2>2, <2>3
  <2>5. CASE run.step < Len(EpicSetup)
    <3>1. pc' = "setup" /\ run'.step = run.step + 1 /\ UNCHANGED <<disk, mem>>
      BY <1>3, <1>0, <2>5 DEF SetupSucceeds, Run
    <3>2. 1..(run'.step - 1) = 1..run.step
      BY <2>1, <3>1
    <3>. QED
      BY <2>4, <3>1, <3>2 DEF SetupInv, SetUp
  <2>6. CASE ~(run.step < Len(EpicSetup))
    <3>1. /\ pc' = "restore" /\ disk' = mem'
          /\ mem' = [mem EXCEPT !.setupDone = TRUE, !.phase = StoryPhases[1]]
      BY <1>3, <2>6 DEF SetupSucceeds, Save
    <3>2. mem'.epic = mem.epic /\ mem'.phase = StoryPhases[1]
      BY <1>0, <3>1 DEF State
    <3>3. \A i \in DOMAIN EpicSetup : i \in 1..run.step
      BY <2>1, <2>6
    <3>4. mem.epic # 0
      BY <1>0, <2>1, PositionFields
    <3>. QED
      BY <2>4, <3>1, <3>2, <3>3, <3>4 DEF SetupInv, SetUp
  <2>. QED
    BY <2>5, <2>6
<1>4. CASE SetupFails
  BY <1>4, <1>0, SavedSetup DEF SetupFails, Exit, MemInv, durable, process,
     observer, State
<1>5. CASE RestorePhase
  BY <1>5, <1>0, SavedSetup DEF RestorePhase, Save, MemInv, durable, process,
     observer, State
<1>. QED
  BY <1>1, <1>2, <1>3, <1>4, <1>5 DEF Setup

LEMMA IterateKeepsSetupInv ==
    ASSUME ManualEdits = FALSE, TypeInv, SprintInv, OrderInv, MemInv, SetupInv,
        succeeded \subseteq succeeded', Iterate
    PROVE  SetupInv'
<1>. USE DEF Goto
<1>0. /\ disk \in State /\ mem \in State /\ run \in Run
      /\ pc \notin {"off", "load"} => mem \in Position /\ disk \in Position
  BY DEF TypeInv, TypeOK, Placed
<1>1. CASE BeginPhase
  BY <1>1, <1>0, SavedSetup DEF BeginPhase, MemInv, durable, process, observer,
     State
<1>2. ASSUME NEW outcome \in Outcome, Execute(outcome) PROVE SetupInv'
  BY <1>2, <1>0, SavedSetup DEF Execute, MemInv, durable, process, observer,
     State
<1>3. CASE StopRequested
  BY <1>3, <1>0, SavedSetup DEF StopRequested, Exit, MemInv, durable, process,
     observer, State
<1>4. CASE PhaseFails
  BY <1>4, <1>0, SavedSetup DEF PhaseFails, MemInv, durable, process, observer,
     State
<1>5. CASE Halt
  BY <1>5, <1>0, SavedSetup DEF Halt, SyncSprint, Exit, MemInv, durable,
     process, observer, State
<1>6. CASE PhaseSucceeds
  BY <1>6, <1>0, SavedSetup DEF PhaseSucceeds, MemInv, durable, process,
     observer, State
<1>7. CASE SyncPhase
  BY <1>7, <1>0, SavedSetup DEF SyncPhase, SyncSprint, MemInv, durable, process,
     observer, State
<1>. QED
  BY <1>1, <1>2, <1>3, <1>4, <1>5, <1>6, <1>7 DEF Iterate

LEMMA FinishStoryKeepsSetupInv ==
    ASSUME ManualEdits = FALSE, TypeInv, SprintInv, OrderInv, MemInv, SetupInv,
        succeeded \subseteq succeeded', FinishStory
    PROVE  SetupInv'
<1>. USE DEF Goto
<1>0. /\ disk \in State /\ mem \in State /\ run \in Run
      /\ pc \notin {"off", "load"} => mem \in Position /\ disk \in Position
  BY DEF TypeInv, TypeOK, Placed
<1>1. CASE Rework
  BY <1>1, <1>0, SavedSetup DEF Rework, SaveAndContinue, Save, Exit, MemInv,
     durable, process, observer, State
<1>2. CASE RefuseUnresolved
  BY <1>2, <1>0, SavedSetup DEF RefuseUnresolved, Exit, MemInv, durable,
     process, observer, State
<1>3. CASE AfterReview
  BY <1>3, <1>0, SavedSetup DEF AfterReview, SaveAndContinue, Save, Exit,
     MemInv, durable, process, observer, State
<1>4. CASE HoldStory
  BY <1>4, <1>0, SavedSetup DEF HoldStory, Save, CompleteStory, MemInv, durable,
     process, observer, State
<1>5. CASE NextStory
  BY <1>5, <1>0, SavedSetup DEF NextStory, Save, HandleStoryCompletion,
     AdvanceToNextStory, CompleteStory, MemInv, durable, process, observer,
     State
<1>6. CASE LastStory
  BY <1>6, <1>0, SavedSetup DEF LastStory, Save, HandleStoryCompletion,
     CompleteStory, MemInv, durable, process, observer, State
<1>7. CASE QuitAtPrompt
  BY <1>7, <1>0, SavedSetup DEF QuitAtPrompt, Exit, MemInv, durable, process,
     observer, State
<1>8. CASE BeginStory
  BY <1>8, <1>0, SavedSetup DEF BeginStory, SyncSprint, Exit, MemInv, durable,
     process, observer, State
<1>. QED
  BY <1>1, <1>2, <1>3, <1>4, <1>5, <1>6, <1>7, <1>8 DEF FinishStory

LEMMA FinishEpicKeepsSetupInv ==
    ASSUME ManualEdits = FALSE, TypeInv, SprintInv, OrderInv, MemInv, SetupInv,
        succeeded \subseteq succeeded', FinishEpic
    PROVE  SetupInv'
<1>. USE DEF Goto
<1>0. /\ disk \in State /\ mem \in State /\ run \in Run
      /\ pc \notin {"off", "load"} => mem \in Position /\ disk \in Position
  BY DEF TypeInv, TypeOK, Placed
<1>1. CASE StageTeardown
  BY <1>1, <1>0, SavedSetup DEF StageTeardown, Save, MemInv, durable, process,
     observer, State
<1>2. CASE TeardownPhase
  BY <1>2, <1>0, SavedSetup DEF TeardownPhase, Save, MemInv, durable, process,
     observer, State
<1>3. CASE TeardownSucceeds
  BY <1>3, <1>0, SavedSetup DEF TeardownSucceeds, MemInv, durable, process,
     observer, State
<1>4. CASE TeardownFails
  BY <1>4, <1>0, SavedSetup DEF TeardownFails, MemInv, durable, process,
     observer, State
<1>5. CASE SyncTeardown
  BY <1>5, <1>0, SavedSetup DEF SyncTeardown, SyncSprint, MemInv, durable,
     process, observer, State
<1>6. CASE CompleteAndStop
  <2>1. pc \notin {"off", "load", "validate", "top"} /\ mem = disk /\ disk \in Position
    BY <1>6, <1>0 DEF CompleteAndStop, EndOfEpic, EndsEpicInLoop, MemInv
  <2>2. /\ CompleteEpic(mem).epic = disk.epic
        /\ CompleteEpic(mem).setupDone = disk.setupDone
    BY <1>0, <2>1 DEF CompleteEpic, State
  <2>. QED
    BY <1>6, <2>1, <2>2, SavedSetup DEF CompleteAndStop, Save
<1>7. CASE NextEpic
  <2>. DEFINE c == CompleteEpic(mem)
  <2>1. mem = disk /\ c \in Position /\ pc \notin {"off", "load"}
    BY <1>7, <1>0, CompleteEpicPosition
       DEF NextEpic, EndOfEpic, EndsEpicInLoop, MemInv
  <2>2. CASE NextEpicExhausted(c, run.active)
    BY <1>7, <1>0, <2>2, SavedSetup DEF NextEpic, Exit
  <2>3. CASE ~NextEpicExhausted(c, run.active)
    <3>1. mem' = AdvanceToNextEpic(c, run.active) /\ disk' = mem'
          /\ pc' \in {"epic_prompt", "epic_sync"}
      BY <1>7, <2>3 DEF NextEpic, Save, HandleEpicCompletion
    <3>. HIDE DEF c
    <3>2. ~disk'.setupDone
      BY <2>1, <3>1 DEF AdvanceToNextEpic, Position, State
    <3>. QED
      BY <3>1, <3>2 DEF SetupInv, SetUp
  <2>. QED
    BY <2>2, <2>3
<1>8. CASE BeginEpic
  BY <1>8, <1>0, SavedSetup DEF BeginEpic, MemInv, durable, process, observer,
     State
<1>9. CASE SyncEpic
  BY <1>9, <1>0, SavedSetup DEF SyncEpic, SyncSprint, MemInv, durable, process,
     observer, State
<1>10. CASE ExitSync
  BY <1>10, <1>0, SavedSetup DEF ExitSync, SyncSprint, Exit, MemInv, durable,
     process, observer, State
<1>. QED
  BY <1>1, <1>2, <1>3, <1>4, <1>5, <1>6, <1>7, <1>8, <1>9, <1>10 DEF FinishEpic

LEMMA AdvanceKeepsSetupInv ==
    ASSUME ManualEdits = FALSE, TypeInv, SprintInv, OrderInv, MemInv, SetupInv,
        succeeded \subseteq succeeded', Advance
    PROVE  SetupInv'
<1>. USE DEF Goto
<1>0. /\ disk \in State /\ mem \in State /\ run \in Run
      /\ pc \notin {"off", "load"} => mem \in Position /\ disk \in Position
  BY DEF TypeInv, TypeOK, Placed
<1>1. CASE NextPhase
  <2>1. mem = disk /\ disk \in Position /\ AdvancePhase(GetNextPhase(mem.phase))
    BY <1>1, <1>0 DEF NextPhase, Ordinary, MemInv
  <2>2. /\ disk'.epic = disk.epic /\ disk'.setupDone = disk.setupDone
        /\ pc' \in {"off", "top"}
    BY <1>0, <2>1 DEF AdvancePhase, Exit, State
  <2>. QED
    BY <2>1, <2>2, SavedSetup
<1>2. CASE NextTeardownPhase
  <2>1. mem = disk /\ disk \in Position /\ AdvancePhase(GetNextTeardownPhase(mem.phase))
    BY <1>2, <1>0 DEF NextTeardownPhase, Ordinary, MemInv
  <2>2. /\ disk'.epic = disk.epic /\ disk'.setupDone = disk.setupDone
        /\ pc' \in {"off", "top"}
    BY <1>0, <2>1 DEF AdvancePhase, Exit, State
  <2>. QED
    BY <2>1, <2>2, SavedSetup
<1>3. CASE CannotAdvance
  BY <1>3, <1>0, SavedSetup DEF CannotAdvance, Exit, MemInv, durable, process,
     observer, State
<1>. QED
  BY <1>1, <1>2, <1>3 DEF Advance

LEMMA EnvironmentKeepsSetupInv ==
    ASSUME ManualEdits = FALSE, TypeInv, SprintInv, OrderInv, MemInv, SetupInv,
        succeeded \subseteq succeeded', Environment
    PROVE  SetupInv'
<1>. USE DEF Goto
<1>0. /\ disk \in State /\ mem \in State /\ run \in Run
      /\ pc \notin {"off", "load"} => mem \in Position /\ disk \in Position
  BY DEF TypeInv, TypeOK, Placed
<1>1. CASE StartRun
  BY <1>1, <1>0, SavedSetup DEF StartRun, NewRun, NewRun, durable, process,
     observer, SetupInv, SetUp, Run, Exit
<1>2. CASE NoEpics
  BY <1>2, <1>0, SavedSetup DEF NoEpics, NewRun, durable, process, observer,
     SetupInv, SetUp, Run, Exit
<1>3. CASE Kill
  BY <1>3, <1>0, SavedSetup DEF Kill, NewRun, durable, process, observer,
     SetupInv, SetUp, Run, Exit
<1>4. CASE Cancel
  BY <1>4, <1>0, SavedSetup DEF Cancel, NewRun, durable, process, observer,
     SetupInv, SetUp, Run, Exit
<1>5. CASE SprintSync
  BY <1>5, <1>0, SavedSetup DEF SprintSync, NewRun, durable, process, observer,
     SetupInv, SetUp, Run, Exit
<1>6. CASE EditSprint
  BY <1>6, Zenon DEF EditSprint
<1>. QED
  BY <1>1, <1>2, <1>3, <1>4, <1>5, <1>6 DEF Environment

LEMMA StutterKeepsSetupInv == SetupInv /\ UNCHANGED vars => SetupInv'
BY DEF SetupInv, SetUp, vars

LEMMA SetupInvariance ==
    ASSUME ListsApart, ManualEdits = FALSE
    PROVE  Spec => [](TypeInv /\ SprintInv /\ OrderInv /\ ResultInv /\ MemInv /\ SetupInv)
<1>1. Init => SetupInv
  BY DEF Init, SetupInv, SetUp, EmptyState
<1>2. TypeInv /\ SprintInv /\ OrderInv /\ MemInv /\ SetupInv /\ [Next]_vars => SetupInv'
  BY SucceededStays, StartKeepsSetupInv, SetupKeepsSetupInv, IterateKeepsSetupInv,
     FinishStoryKeepsSetupInv, FinishEpicKeepsSetupInv, AdvanceKeepsSetupInv,
     EnvironmentKeepsSetupInv, StutterKeepsSetupInv
     DEF Next, Process
<1>. QED
  BY <1>1, <1>2, MemInvariance, PTL DEF Spec

\* The setup of an epic is flagged complete only after every phase of its list
\* succeeded for that epic, whatever cut an earlier attempt short.
THEOREM SetupFlaggedWhenDone ==
    ASSUME ListsApart, ManualEdits = FALSE
    PROVE  Spec => []SetupBeforeFlag
<1>1. SetupInv => SetupBeforeFlag
  BY DEF SetupInv, SetUp, SetupBeforeFlag, PhasesOf
<1>. QED
  BY <1>1, SetupInvariance, PTL

-----------------------------------------------------------------------------
(***************************************************************************)
(* The phases that succeeded.                                              *)
(***************************************************************************)
TeardownInv == TearInv(disk, mem, pc, run, succeeded)

LEMMA TeardownStep ==
    ASSUME TypeInv, SprintInv, MemInv, TeardownInv, [Next]_vars
    PROVE  TearStep(succeeded, succeeded')
<1>1. ASSUME NEW outcome \in Outcome \ {"fail"}, Execute(outcome),
             mem.phase \in PhasesOf(EpicTeardown)
      PROVE  <<mem.epic, mem.phase>> \in succeeded'
  BY <1>1 DEF Execute, Succeeded, EpicPhases
<1>2. ASSUME TeardownSucceeds PROVE <<mem.epic, mem.phase>> \in succeeded'
  <2>1. mem.phase \in PhasesOf(EpicTeardown)
    BY <1>2 DEF TeardownSucceeds, TeardownInv, TearInv, TypeInv, StepInRange, PhasesOf
  <2>. QED
    BY <1>2, <2>1 DEF TeardownSucceeds, Succeeded, EpicPhases
<1>3. ASSUME SkipDoneEpic PROVE TornDown(mem.epic, succeeded)
  <2>1. mem.epic \in mem.doneEpics /\ pc = "validate"
    BY <1>3, SkippedEpic DEF SkipDoneEpic
  <2>. QED
    BY <2>1 DEF TeardownInv, TearInv, Closed
<1>. QED
  BY <1>1, <1>2, <1>3, SucceededStays DEF TearStep

LEMMA TeardownInvariance ==
    ASSUME ListsApart, ManualEdits = FALSE
    PROVE  Spec => [](TypeInv /\ TeardownInv)
<1>1. Init => TeardownInv
  BY DEF Init, TeardownInv, TearInv, Closed, EmptyState
<1>2. /\ TypeInv /\ SprintInv /\ ResultInv /\ MemInv /\ TeardownInv /\ [Next]_vars
      => TeardownInv'
  <2>. SUFFICES ASSUME TypeInv, SprintInv, ResultInv, MemInv, TeardownInv, [Next]_vars
                PROVE  TearInv(disk', mem', pc', run', succeeded')
    BY DEF TeardownInv
  <2>. QED
    BY TeardownStep, NextKeepsTorn DEF TeardownInv
<1>. QED
  BY <1>1, <1>2, MemInvariance, PTL DEF Spec

\* What closes an epic, for every teardown list: each of its phases succeeded
\* for that epic, up to the first qa_plan_execute, which ends an epic wherever
\* it stands.
ClosedWhenTornDown == \A e \in disk.doneEpics : TornDown(e, succeeded)

\* An epic is completed only when it was torn down (_execute_epic_teardown,
\* and the branches for a teardown resumed in the main loop).
THEOREM EpicsTornDown ==
    ASSUME ListsApart, ManualEdits = FALSE
    PROVE  Spec => []ClosedWhenTornDown
<1>1. TeardownInv => ClosedWhenTornDown
  BY DEF TeardownInv, TearInv, Closed, ClosedWhenTornDown
<1>. QED
  BY <1>1, TeardownInvariance, PTL

\* No phase of the teardown list follows qa_plan_execute.
QaLast == UpToQa = DOMAIN EpicTeardown

\* No epic boundary is taken for behind before it is: the setup flag and the
\* completed epics stand for phases that all succeeded, whatever setups and
\* teardowns were cut short, resumed in the other loop or run again.
THEOREM BoundariesDone ==
    ASSUME ListsApart, QaLast, ManualEdits = FALSE
    PROVE  Spec => []BoundaryPhasesDone
<1>1. ClosedWhenTornDown => TeardownBeforeClose
  BY DEF ClosedWhenTornDown, TornDown, QaLast, TeardownBeforeClose, PhasesOf
<1>. QED
  BY <1>1, SetupFlaggedWhenDone, EpicsTornDown, PTL DEF BoundaryPhasesDone

-----------------------------------------------------------------------------
(***************************************************************************)
(* The phase of the current story.                                         *)
(***************************************************************************)
\* A phase the process moved to and has not saved comes after the saved one.
OnwardInv == pc = "top" => Onward(disk.phase, mem.phase)

\* A run that created its position has passed over nothing: it begins with the
\* first phase of the story, which is the one its setup would have to restore.
FreshInv ==
    /\ pc \in {"off", "load"} => ~run.fresh
    /\ run.fresh /\ pc \in {"repair", "validate"} =>
            disk.doneStories = {} /\ disk.doneEpics = {}
    /\ run.fresh /\ pc \in {"repair", "validate", "resync", "enter"} =>
            mem = disk /\ disk.phase = StoryPhases[1]
    /\ run.fresh /\ pc \in SetupPoint => run.saved = StoryPhases[1]

Kept == \/ Onward(PhaseReached, PhaseReached')
        \/ disk'.rework = disk.rework + 1 /\ disk'.rework <= MaxRework
        \/ pc \in SetupPoint /\ pc' = "off"

PhaseMoves ==
    /\ CurrentStory(disk') = CurrentStory(disk) => Kept
    /\ OnwardInv'

\* No phase stands twice in the story list, where list.index would find the
\* first place of the two.
NoRepeat ==
    \A i, j \in DOMAIN StoryPhases : StoryPhases[i] = StoryPhases[j] => i = j

LEMMA StoryPhaseIndex ==
    \A p \in PhasesOf(StoryPhases) :
        /\ PhaseIndex(StoryPhases, p) \in DOMAIN StoryPhases
        /\ PhaseIndex(StoryPhases, p) \in Nat
        /\ StoryPhases[PhaseIndex(StoryPhases, p)] = p
        /\ PhaseIndex(StoryPhases, StoryPhases[1]) <= PhaseIndex(StoryPhases, p)
<1>1. StoryPhases[1] \in PhasesOf(StoryPhases) /\ 1 \in DOMAIN StoryPhases
  BY PhaseLists DEF PhasesOf
<1>2. \A i \in DOMAIN StoryPhases : i >= 1
  BY LoopConfigAssumption
<1>3. PhaseIndex(StoryPhases, StoryPhases[1]) <= 1
  BY <1>1, PhaseIndexFirst, LoopConfigAssumption
<1>4. PhaseIndex(StoryPhases, StoryPhases[1]) \in Nat
  BY <1>1, PhaseIndexFirst, LoopConfigAssumption
<1>. QED
  BY <1>2, <1>3, <1>4, PhaseIndexFirst, LoopConfigAssumption

LEMMA NextPhaseOnward ==
    ASSUME NoRepeat, NEW p, GetNextPhase(p) # NoPhase
    PROVE  Onward(p, GetNextPhase(p))
<1>1. p \in PhasesOf(StoryPhases)
  BY NextPhaseLeast
<1>2. PICK j \in LaterPhases(p) : GetNextPhase(p) = StoryPhases[j]
  BY NextPhaseLeast
<1>3. j \in DOMAIN StoryPhases /\ j \in Nat /\ j > PhaseIndex(StoryPhases, p)
  BY PhaseLists DEF LaterPhases
<1>4. StoryPhases[j] \in PhasesOf(StoryPhases)
  BY <1>3 DEF PhasesOf
<1>5. PhaseIndex(StoryPhases, StoryPhases[j]) = j
  BY <1>3, <1>4, StoryPhaseIndex DEF NoRepeat
<1>. QED
  BY <1>1, <1>2, <1>3, <1>4, <1>5, StoryPhaseIndex DEF Onward

LEMMA SamePhaseOnward == \A p : Onward(p, p)
BY StoryPhaseIndex DEF Onward

LEMMA PhaseStays ==
    ASSUME pc \notin SetupPoint, pc' \notin SetupPoint,
           \/ disk' = disk
           \/ disk'.phase = disk.phase
           \/ CurrentStory(disk') # CurrentStory(disk)
           \/ Onward(disk.phase, disk'.phase)
    PROVE  CurrentStory(disk') = CurrentStory(disk) => Kept
BY SamePhaseOnward DEF Kept, PhaseReached

LEMMA SavedOnward ==
    ASSUME pc' # "top" \/ mem' = disk'
    PROVE  OnwardInv'
BY SamePhaseOnward DEF OnwardInv

LEMMA OutsideOnward ==
    ASSUME ListsApart, NEW p, NEW q, q \in PhasesOf(EpicTeardown)
    PROVE  Onward(p, q) /\ q \notin PhasesOf(StoryPhases)
BY DEF Onward, ListsApart, EndPhases, StoryPhaseSet

\* Only the setup loop is at the points of a setup.
LEMMA LoopOutsideSetup ==
    ASSUME Iterate \/ FinishStory \/ FinishEpic \/ Advance
    PROVE  pc \notin SetupPoint /\ pc' \notin SetupPoint
<1>. USE DEF Goto, SetupPoint
<1>1. CASE Iterate
  BY <1>1
     DEF Iterate, BeginPhase, Execute, StopRequested, PhaseFails, Halt, PhaseSucceeds,
         SyncPhase, Exit
<1>2. CASE FinishStory
  BY <1>2
     DEF FinishStory, Rework, RefuseUnresolved, AfterReview, HoldStory, NextStory, LastStory,
         QuitAtPrompt, BeginStory, SaveAndContinue, Exit
<1>3. CASE FinishEpic
  BY <1>3
     DEF FinishEpic, StageTeardown, TeardownPhase, TeardownSucceeds, TeardownFails,
         SyncTeardown, CompleteAndStop, EndOfEpic, EndsEpicInLoop, NextEpic, BeginEpic,
         SyncEpic, ExitSync, Exit
<1>4. CASE Advance
  BY <1>4
     DEF Advance, Ordinary, NextPhase, NextTeardownPhase, CannotAdvance, AdvancePhase, Exit
<1>. QED
  BY <1>1, <1>2, <1>3, <1>4

\* Moving to the next phase of a list, saved or not.
LEMMA AdvanceOnward ==
    ASSUME mem = disk, disk \in State, NEW p, Onward(disk.phase, p), pc \notin SetupPoint,
           AdvancePhase(p) \/ SaveAndContinue([mem EXCEPT !.phase = p])
    PROVE  PhaseMoves
<1>1. disk' = disk \/ disk'.phase = p
  BY DEF AdvancePhase, SaveAndContinue, Save, State
<1>2. \/ pc' = "off"
      \/ mem' = disk'
      \/ disk' = disk /\ mem'.phase = p
  BY DEF AdvancePhase, SaveAndContinue, Save, Exit, State
<1>3. OnwardInv'
  BY <1>2, SavedOnward DEF OnwardInv
<1>4. pc' \notin SetupPoint
  BY DEF AdvancePhase, SaveAndContinue, Exit, SetupPoint
<1>. QED
  BY <1>1, <1>3, <1>4, PhaseStays DEF PhaseMoves

LEMMA FreshElsewhere ==
    ASSUME \/ pc' = "off" /\ run' = NoRun
           \/ pc' \notin {"off", "load", "repair", "validate", "resync", "enter"} \cup SetupPoint
    PROVE  FreshInv'
BY DEF FreshInv, NoRun, NewRun, SetupPoint

\* Nothing is done yet where a run created its position, so that validation
\* skips nothing.
LEMMA NothingSkipped ==
    ASSUME TypeInv, SprintInv, FreshInv, run.fresh, pc = "validate"
    PROVE  ~EpicIsDone /\ ~StoryIsDone
<1>1. mem \in Position /\ mem.epic \in Epic /\ CurrentStory(mem) \in Story
  BY PositionFields DEF TypeInv, Placed
<1>2. sprint.epic[mem.epic] # "done" /\ sprint.story[CurrentStory(mem)] # "done"
  BY <1>1 DEF SprintInv, Backed, FreshInv
<1>. QED
  BY <1>2 DEF EpicIsDone, StoryIsDone, EpicDurablyDone, StoryDurablyDone

LEMMA StartKeepsFresh ==
    ASSUME TypeInv, SprintInv, OrderInv, MemInv, FreshInv, Start
    PROVE  FreshInv'
<1>. USE DEF Goto, SetupPoint
<1>0. /\ disk \in State /\ mem \in State /\ run \in Run
  BY DEF TypeInv, TypeOK
<1>1. CASE FreshStart
  <2>1. /\ pc' = "repair" /\ mem' = disk' /\ disk'.phase = StoryPhases[1]
        /\ disk'.doneStories = {} /\ disk'.doneEpics = {}
    BY <1>1, <1>0 DEF FreshStart, Save, FirstPosition, State, OrderInv
  <2>. QED
    BY <2>1 DEF FreshInv
<1>2. CASE Repair
  BY <1>2 DEF Repair, FreshInv
<1>3. CASE Resume
  BY <1>3 DEF Resume, FreshInv
<1>4. CASE RefuseResume
  BY <1>4, FreshElsewhere DEF RefuseResume, Exit
<1>5. CASE SkipDoneEpic
  <2>1. EpicIsDone /\ pc = "validate"
    BY <1>5 DEF SkipDoneEpic
  <2>2. ~run.fresh
    BY <2>1, NothingSkipped
  <2>3. \/ pc' = "off" /\ run' = NoRun
        \/ pc' = "validate" /\ run'.fresh = run.fresh
    BY <1>5, <1>0 DEF SkipDoneEpic, Exit, Run
  <2>. QED
    BY <2>2, <2>3, FreshElsewhere DEF FreshInv
<1>6. CASE SkipDoneStory
  <2>1. StoryIsDone /\ pc = "validate"
    BY <1>6 DEF SkipDoneStory
  <2>2. ~run.fresh
    BY <2>1, NothingSkipped
  <2>3. pc' = "validate" /\ run'.fresh = run.fresh
    BY <1>6, <1>0 DEF SkipDoneStory, Run
  <2>. QED
    BY <2>2, <2>3 DEF FreshInv
<1>7. CASE AcceptPosition
  <2>1. /\ pc' \in {"resync", "enter"} /\ run' = run /\ mem' = disk'
        /\ disk' \in {mem, disk} /\ pc = "validate"
    BY <1>7 DEF AcceptPosition, Save
  <2>. QED
    BY <2>1 DEF FreshInv
<1>8. CASE Resync
  BY <1>8 DEF Resync, FreshInv
<1>. QED
  BY <1>1, <1>2, <1>3, <1>4, <1>5, <1>6, <1>7, <1>8 DEF Start

LEMMA SetupKeepsFresh ==
    ASSUME TypeInv, FreshInv, Setup
    PROVE  FreshInv'
<1>. USE DEF Goto, SetupPoint
<1>0. run \in Run
  BY DEF TypeInv, TypeOK
<1>1. CASE EnterLoop
  BY <1>1, <1>0 DEF EnterLoop, FreshInv, Run
<1>2. CASE SetupPhase
  BY <1>2 DEF SetupPhase, FreshInv
<1>3. CASE SetupSucceeds
  <2>1. run'.saved = run.saved /\ run'.fresh = run.fresh /\ pc' \in {"setup", "restore"}
    BY <1>3, <1>0 DEF SetupSucceeds, Run
  <2>. QED
    BY <1>3, <2>1 DEF SetupSucceeds, FreshInv
<1>4. CASE SetupFails
  BY <1>4, FreshElsewhere DEF SetupFails, Exit
<1>5. CASE RestorePhase
  BY <1>5, FreshElsewhere DEF RestorePhase
<1>. QED
  BY <1>1, <1>2, <1>3, <1>4, <1>5 DEF Setup

LEMMA LoopKeepsFresh ==
    ASSUME Iterate \/ FinishStory \/ FinishEpic \/ Advance
    PROVE  FreshInv'
<1>. USE DEF Goto, SetupPoint
<1>1. CASE Iterate
  BY <1>1, FreshElsewhere
     DEF Iterate, BeginPhase, Execute, StopRequested, PhaseFails, Halt, PhaseSucceeds,
         SyncPhase, Exit
<1>2. CASE FinishStory
  BY <1>2, FreshElsewhere
     DEF FinishStory, Rework, RefuseUnresolved, AfterReview, HoldStory, NextStory, LastStory,
         QuitAtPrompt, BeginStory, SaveAndContinue, Exit
<1>3. CASE FinishEpic
  BY <1>3, FreshElsewhere
     DEF FinishEpic, StageTeardown, TeardownPhase, TeardownSucceeds, TeardownFails,
         SyncTeardown, CompleteAndStop, NextEpic, BeginEpic, SyncEpic, ExitSync, Exit
<1>4. CASE Advance
  BY <1>4, FreshElsewhere
     DEF Advance, NextPhase, NextTeardownPhase, CannotAdvance, AdvancePhase, Exit
<1>. QED
  BY <1>1, <1>2, <1>3, <1>4

LEMMA NextKeepsFresh ==
    ASSUME TypeInv, SprintInv, OrderInv, MemInv, FreshInv, ManualEdits = FALSE, [Next]_vars
    PROVE  FreshInv'
<1>. USE DEF Goto, SetupPoint
<1>0. run \in Run
  BY DEF TypeInv, TypeOK
<1>1. CASE StartRun
  BY <1>1 DEF StartRun, NewRun, FreshInv
<1>2. CASE NoEpics
  BY <1>2 DEF NoEpics, durable, process, FreshInv
<1>3. CASE Kill
  BY <1>3, FreshElsewhere DEF Kill, Exit
<1>4. CASE Cancel
  BY <1>4, <1>0 DEF Cancel, durable, FreshInv, Run
<1>5. CASE SprintSync
  BY <1>5 DEF SprintSync, process, FreshInv
<1>6. CASE EditSprint
  BY <1>6, Zenon DEF EditSprint
<1>7. CASE UNCHANGED vars
  BY <1>7 DEF vars, FreshInv
<1>. QED
  BY <1>1, <1>2, <1>3, <1>4, <1>5, <1>6, <1>7, StartKeepsFresh, SetupKeepsFresh,
     LoopKeepsFresh DEF Next, Process, Environment

LEMMA StartMovesPhase ==
    ASSUME ListsApart, NoRepeat, ManualEdits = FALSE, TypeInv,
        TypeInv', SprintInv, OrderInv, MemInv, SetupInv, FreshInv, OnwardInv, Start
    PROVE  PhaseMoves
<1>. USE DEF Goto, SetupPoint
<1>0. /\ disk \in State /\ mem \in State /\ run \in Run
      /\ pc \notin {"off", "load"} => mem \in Position /\ disk \in Position
  BY DEF TypeInv, TypeOK, Placed
<1>1. CASE FreshStart
  <2>1. disk.epic = 0 /\ pc' = "repair" /\ mem' = disk'
    BY <1>1 DEF FreshStart, Save
  <2>2. disk'.epic # 0
    BY <2>1, PositionFields DEF TypeInv, Placed
  <2>. QED
    BY <2>1, <2>2, PhaseStays, SavedOnward DEF PhaseMoves, CurrentStory
<1>2. CASE Repair
  BY <1>2, <1>0, PhaseStays, SavedOnward DEF Repair, SyncSprint, PhaseMoves,
     MemInv, durable, process, observer
<1>3. CASE Resume
  BY <1>3, <1>0, PhaseStays, SavedOnward DEF Resume, PhaseMoves, MemInv,
     durable, process, observer
<1>4. CASE RefuseResume
  BY <1>4, <1>0, PhaseStays, SavedOnward DEF RefuseResume, Exit, PhaseMoves,
     MemInv, durable, process, observer
<1>5. CASE SkipDoneEpic
  <2>1. disk' = disk /\ pc = "validate" /\ pc' \in {"validate", "off"}
    BY <1>5, SkippedEpic DEF SkipDoneEpic
  <2>. QED
    BY <2>1, PhaseStays, SavedOnward DEF PhaseMoves
<1>6. CASE SkipDoneStory
  BY <1>6, <1>0, PhaseStays, SavedOnward DEF SkipDoneStory, CompleteStory,
     PhaseMoves, MemInv, durable, process, observer
<1>7. CASE AcceptPosition
  <2>1. CASE run.advanced
    <3>1. disk' = mem /\ pc' # "top" /\ mem.story > disk.story
      BY <1>7, <2>1 DEF AcceptPosition, Save, MemInv
    <3>2. disk.story \in Nat /\ mem.story \in Nat
      BY <1>0 DEF State
    <3>3. CurrentStory(disk') # CurrentStory(disk)
      BY <3>1, <3>2 DEF CurrentStory
    <3>. QED
      BY <3>1, <3>3, PhaseStays, SavedOnward DEF PhaseMoves
  <2>2. CASE ~run.advanced
    BY <1>7, <2>2, PhaseStays, SavedOnward DEF AcceptPosition, PhaseMoves
  <2>. QED
    BY <2>1, <2>2
<1>8. CASE Resync
  BY <1>8, <1>0, PhaseStays, SavedOnward DEF Resync, SyncSprint, PhaseMoves,
     MemInv, durable, process, observer
<1>. QED
  BY <1>1, <1>2, <1>3, <1>4, <1>5, <1>6, <1>7, <1>8 DEF Start

LEMMA SetupMovesPhase ==
    ASSUME ListsApart, NoRepeat, ManualEdits = FALSE, TypeInv,
        TypeInv', SprintInv, OrderInv, MemInv, SetupInv, FreshInv, OnwardInv, Setup
    PROVE  PhaseMoves
<1>. USE DEF Goto, SetupPoint
<1>0. /\ disk \in State /\ mem \in State /\ run \in Run
      /\ pc \notin {"off", "load"} => mem \in Position /\ disk \in Position
  BY DEF TypeInv, TypeOK, Placed
<1>1. CASE EnterLoop
  <2>1. disk' = disk /\ mem' = disk' /\ PhaseReached' = PhaseReached
    BY <1>1, <1>0 DEF EnterLoop, MemInv, PhaseReached, durable, Run
  <2>. QED
    BY <2>1, SamePhaseOnward, SavedOnward DEF PhaseMoves, Kept
<1>2. CASE SetupPhase \/ SetupSucceeds
  <2>1. PhaseReached' = PhaseReached /\ pc' # "top"
    BY <1>2, <1>0 DEF SetupPhase, SetupSucceeds, PhaseReached, Run
  <2>. QED
    BY <2>1, SamePhaseOnward, SavedOnward DEF PhaseMoves, Kept
<1>3. CASE SetupFails
  BY <1>3, SavedOnward DEF SetupFails, Exit, PhaseMoves, Kept
<1>4. CASE RestorePhase
  <2>1. /\ disk.phase = StoryPhases[1] /\ mem = disk /\ PhaseReached = run.saved
        /\ PhaseReached' = disk'.phase
        /\ run.fresh => run.saved = StoryPhases[1]
    BY <1>4 DEF RestorePhase, MemInv, SetupInv, FreshInv, PhaseReached
  <2>2. mem' = disk'
    BY <1>4, <2>1 DEF RestorePhase, Save
  <2>3. CASE ~run.fresh /\ run.saved \in PhasesOf(StoryPhases) \ {mem.phase}
    <3>1. disk'.phase = run.saved
      BY <1>4, <1>0, <2>3 DEF RestorePhase, Save, State
    <3>2. Onward(PhaseReached, PhaseReached')
      BY <2>1, <3>1, SamePhaseOnward
    <3>. QED
      BY <2>2, <3>2, SavedOnward DEF PhaseMoves, Kept
  <2>4. CASE run.fresh \/ run.saved \notin PhasesOf(StoryPhases) \/ run.saved = mem.phase
    <3>1. disk'.phase = StoryPhases[1]
      BY <1>4, <2>1, <2>4 DEF RestorePhase
    <3>2. Onward(run.saved, StoryPhases[1])
      <4>1. CASE run.saved \notin PhasesOf(StoryPhases)
        BY <4>1 DEF Onward
      <4>2. CASE run.fresh \/ run.saved = mem.phase
        BY <2>1, <4>2, SamePhaseOnward
      <4>. QED
        BY <2>4, <4>1, <4>2
    <3>3. Onward(PhaseReached, PhaseReached')
      BY <2>1, <3>1, <3>2
    <3>. QED
      BY <2>2, <3>3, SavedOnward DEF PhaseMoves, Kept
  <2>. QED
    BY <2>3, <2>4
<1>. QED
  BY <1>1, <1>2, <1>3, <1>4 DEF Setup

LEMMA IterateMovesPhase ==
    ASSUME ListsApart, NoRepeat, ManualEdits = FALSE, TypeInv,
        TypeInv', SprintInv, OrderInv, MemInv, SetupInv, FreshInv, OnwardInv, Iterate
    PROVE  PhaseMoves
<1>. USE DEF Goto, SetupPoint
<1>0. /\ disk \in State /\ mem \in State /\ run \in Run
      /\ pc \notin {"off", "load"} => mem \in Position /\ disk \in Position
      /\ pc \notin SetupPoint /\ pc' \notin SetupPoint
  BY LoopOutsideSetup DEF TypeInv, TypeOK, Placed
<1>1. CASE BeginPhase
  <2>1. Onward(disk.phase, disk'.phase) /\ pc' = "run"
    BY <1>1 DEF BeginPhase, OnwardInv
  <2>. QED
    BY <1>0, <2>1, PhaseStays, SavedOnward DEF PhaseMoves
<1>2. ASSUME NEW outcome \in Outcome, Execute(outcome) PROVE PhaseMoves
  BY <1>2, <1>0, PhaseStays, SavedOnward DEF Execute, PhaseMoves, MemInv,
     durable, process, observer
<1>3. CASE StopRequested
  BY <1>3, <1>0, PhaseStays, SavedOnward DEF StopRequested, Exit, PhaseMoves,
     MemInv, durable, process, observer
<1>4. CASE PhaseFails
  BY <1>4, <1>0, PhaseStays, SavedOnward DEF PhaseFails, PhaseMoves, MemInv,
     durable, process, observer
<1>5. CASE Halt
  BY <1>5, <1>0, PhaseStays, SavedOnward DEF Halt, SyncSprint, Exit, PhaseMoves,
     MemInv, durable, process, observer
<1>6. CASE PhaseSucceeds
  BY <1>6, <1>0, PhaseStays, SavedOnward DEF PhaseSucceeds, PhaseMoves, MemInv,
     durable, process, observer
<1>7. CASE SyncPhase
  BY <1>7, <1>0, PhaseStays, SavedOnward DEF SyncPhase, SyncSprint, PhaseMoves,
     MemInv, durable, process, observer
<1>. QED
  BY <1>1, <1>2, <1>3, <1>4, <1>5, <1>6, <1>7 DEF Iterate

LEMMA FinishStoryMovesPhase ==
    ASSUME ListsApart, NoRepeat, ManualEdits = FALSE, TypeInv,
        TypeInv', SprintInv, OrderInv, MemInv, SetupInv, FreshInv, OnwardInv, FinishStory
    PROVE  PhaseMoves
<1>. USE DEF Goto, SetupPoint
<1>0. /\ disk \in State /\ mem \in State /\ run \in Run
      /\ pc \notin {"off", "load"} => mem \in Position /\ disk \in Position
      /\ pc \notin SetupPoint /\ pc' \notin SetupPoint
  BY LoopOutsideSetup DEF TypeInv, TypeOK, Placed
<1>1. CASE Rework
  <2>1. /\ mem = disk /\ mem.rework < MaxRework
        /\ SaveAndContinue([mem EXCEPT !.phase = "dev_story", !.rework = @ + 1])
    BY <1>1 DEF Rework, MayRework, MemInv
  <2>2. disk'.rework = disk.rework + 1 /\ (pc' = "top" => mem' = disk')
    BY <1>0, <2>1 DEF SaveAndContinue, Save, Exit, State
  <2>3. disk.rework \in Nat /\ MaxRework \in Nat
    BY <1>0, LoopConfigAssumption DEF State
  <2>. QED
    BY <2>1, <2>2, <2>3, SavedOnward DEF PhaseMoves, Kept
<1>2. CASE RefuseUnresolved
  BY <1>2, <1>0, PhaseStays, SavedOnward DEF RefuseUnresolved, Exit, PhaseMoves,
     MemInv, durable, process, observer
<1>3. CASE AfterReview
  <2>1. /\ mem = disk /\ GetNextPhase(mem.phase) # NoPhase
        /\ SaveAndContinue([mem EXCEPT !.phase = GetNextPhase(mem.phase)])
    BY <1>3 DEF AfterReview, MemInv
  <2>. QED
    BY <1>0, <2>1, NextPhaseOnward, AdvanceOnward
<1>4. CASE HoldStory
  <2>1. mem = disk /\ disk' = CompleteStory(mem) /\ pc' # "top"
    BY <1>4 DEF HoldStory, Save, MemInv
  <2>2. disk'.phase = disk.phase
    BY <1>0, <2>1 DEF CompleteStory, State
  <2>. QED
    BY <1>0, <2>1, <2>2, PhaseStays, SavedOnward DEF PhaseMoves
<1>5. CASE NextStory
  <2>. DEFINE c == CompleteStory(mem)
  <2>1. /\ mem = disk /\ c \in Position /\ c.story = mem.story
        /\ disk' = [c EXCEPT !.story = Min(RemainingStories(c)), !.phase = "create_story",
                             !.rework = 0]
        /\ pc' # "top" /\ RemainingStories(c) # {}
    BY <1>5, <1>0, CompleteStoryPosition
       DEF NextStory, Save, HandleStoryCompletion, AdvanceToNextStory, IsLastStoryInEpic,
           MemInv, CompleteStory, State
  <2>. HIDE DEF c
  <2>2. disk'.story = Min(RemainingStories(c)) /\ c.story \in Nat
    BY <2>1 DEF Position, State
  <2>3. Min(RemainingStories(c)) \in RemainingStories(c)
    BY <2>1, RemainingLeast
  <2>4. StoryCount[c.epic] \in Nat
    BY <2>1, PositionFields, LifecycleAssumption DEF Epic
  <2>5. Min(RemainingStories(c)) > c.story
    BY <2>3 DEF RemainingStories
  <2>6. disk'.story # disk.story
    BY <2>1, <2>2, <2>3, <2>4, <2>5 DEF RemainingStories
  <2>. QED
    BY <1>0, <2>1, <2>6, PhaseStays, SavedOnward DEF PhaseMoves, CurrentStory
<1>6. CASE LastStory
  <2>1. mem = disk /\ disk' = CompleteStory(mem) /\ pc' # "top"
    BY <1>6 DEF LastStory, Save, HandleStoryCompletion, MemInv
  <2>2. disk'.phase = disk.phase
    BY <1>0, <2>1 DEF CompleteStory, State
  <2>. QED
    BY <1>0, <2>1, <2>2, PhaseStays, SavedOnward DEF PhaseMoves
<1>7. CASE QuitAtPrompt
  BY <1>7, <1>0, PhaseStays, SavedOnward DEF QuitAtPrompt, Exit, PhaseMoves,
     MemInv, durable, process, observer
<1>8. CASE BeginStory
  BY <1>8, <1>0, PhaseStays, SavedOnward DEF BeginStory, SyncSprint, Exit,
     PhaseMoves, MemInv, durable, process, observer
<1>. QED
  BY <1>1, <1>2, <1>3, <1>4, <1>5, <1>6, <1>7, <1>8 DEF FinishStory

LEMMA FinishEpicMovesPhase ==
    ASSUME ListsApart, NoRepeat, ManualEdits = FALSE, TypeInv,
        TypeInv', SprintInv, OrderInv, MemInv, SetupInv, FreshInv, OnwardInv, FinishEpic
    PROVE  PhaseMoves
<1>. USE DEF Goto, SetupPoint
<1>0. /\ disk \in State /\ mem \in State /\ run \in Run
      /\ pc \notin {"off", "load"} => mem \in Position /\ disk \in Position
      /\ pc \notin SetupPoint /\ pc' \notin SetupPoint
  BY LoopOutsideSetup DEF TypeInv, TypeOK, Placed
<1>1. CASE StageTeardown
  <2>1. mem = disk /\ pc' # "top"
    BY <1>1 DEF StageTeardown, MemInv
  <2>2. CASE EpicTeardown = <<>>
    BY <1>0, <1>1, <2>1, <2>2, PhaseStays, SavedOnward DEF StageTeardown, PhaseMoves
  <2>3. CASE EpicTeardown # <<>>
    <3>1. disk'.phase = EpicTeardown[1]
      BY <1>1, <1>0, <2>3 DEF StageTeardown, Save, State
    <3>2. EpicTeardown[1] \in PhasesOf(EpicTeardown)
      BY <2>3, LoopConfigAssumption DEF PhasesOf
    <3>. QED
      BY <1>0, <2>1, <3>1, <3>2, OutsideOnward, PhaseStays, SavedOnward DEF PhaseMoves
  <2>. QED
    BY <2>2, <2>3
<1>2. CASE TeardownPhase
  <2>1. /\ disk'.phase = EpicTeardown[run.step] /\ pc' # "top"
        /\ EpicTeardown[run.step] \in PhasesOf(EpicTeardown)
    BY <1>2, <1>0 DEF TeardownPhase, Save, State, TypeInv, StepInRange, PhasesOf
  <2>. QED
    BY <1>0, <2>1, OutsideOnward, PhaseStays, SavedOnward DEF PhaseMoves
<1>3. CASE TeardownSucceeds
  BY <1>3, <1>0, PhaseStays, SavedOnward DEF TeardownSucceeds, PhaseMoves,
     MemInv, durable, process, observer
<1>4. CASE TeardownFails
  BY <1>4, <1>0, PhaseStays, SavedOnward DEF TeardownFails, PhaseMoves, MemInv,
     durable, process, observer
<1>5. CASE SyncTeardown
  BY <1>5, <1>0, PhaseStays, SavedOnward DEF SyncTeardown, SyncSprint,
     PhaseMoves, MemInv, durable, process, observer
<1>6. CASE CompleteAndStop
  <2>1. mem = disk /\ disk' = CompleteEpic(mem) /\ pc' # "top"
    BY <1>6 DEF CompleteAndStop, EndOfEpic, EndsEpicInLoop, Save, MemInv
  <2>2. disk'.phase = disk.phase
    BY <1>0, <2>1 DEF CompleteEpic, State
  <2>. QED
    BY <1>0, <2>1, <2>2, PhaseStays, SavedOnward DEF PhaseMoves
<1>7. CASE NextEpic
  <2>. DEFINE c == CompleteEpic(mem)
  <2>1. /\ mem = disk /\ c \in Position /\ c.epic = disk.epic
        /\ disk.epic \in c.doneEpics /\ pc' # "top"
    BY <1>7, <1>0, CompleteEpicPosition
       DEF NextEpic, EndOfEpic, EndsEpicInLoop, MemInv, CompleteEpic, State, Exit
  <2>2. CASE NextEpicExhausted(c, run.active)
    BY <1>0, <1>7, <2>1, <2>2, PhaseStays, SavedOnward DEF NextEpic, PhaseMoves
  <2>3. CASE ~NextEpicExhausted(c, run.active)
    <3>1. /\ disk' = AdvanceToNextEpic(c, run.active)
          /\ ~NoNextEpic(c, run.active)
      BY <1>7, <2>3 DEF NextEpic, Save, HandleEpicCompletion
    <3>2. run.active \in SUBSET Story
      BY <1>0 DEF Run
    <3>. HIDE DEF c
    <3>3. Min(NextEpics(c, run.active)) \in NextEpics(c, run.active)
      BY <2>1, <2>3, <3>1, <3>2, NextEpicPosition
    <3>4. disk'.epic = Min(NextEpics(c, run.active))
      BY <2>1, <3>1 DEF AdvanceToNextEpic, Position, State
    <3>5. disk'.epic # disk.epic
      BY <2>1, <3>3, <3>4 DEF NextEpics
    <3>. QED
      BY <1>0, <2>1, <3>5, PhaseStays, SavedOnward DEF PhaseMoves, CurrentStory
  <2>. QED
    BY <2>2, <2>3
<1>8. CASE BeginEpic
  BY <1>8, <1>0, PhaseStays, SavedOnward DEF BeginEpic, PhaseMoves, MemInv,
     durable, process, observer
<1>9. CASE SyncEpic
  BY <1>9, <1>0, PhaseStays, SavedOnward DEF SyncEpic, SyncSprint, PhaseMoves,
     MemInv, durable, process, observer
<1>10. CASE ExitSync
  BY <1>10, <1>0, PhaseStays, SavedOnward DEF ExitSync, SyncSprint, Exit,
     PhaseMoves, MemInv, durable, process, observer
<1>. QED
  BY <1>1, <1>2, <1>3, <1>4, <1>5, <1>6, <1>7, <1>8, <1>9, <1>10 DEF FinishEpic

LEMMA AdvanceMovesPhase ==
    ASSUME ListsApart, NoRepeat, ManualEdits = FALSE, TypeInv,
        TypeInv', SprintInv, OrderInv, MemInv, SetupInv, FreshInv, OnwardInv, Advance
    PROVE  PhaseMoves
<1>. USE DEF Goto, SetupPoint
<1>0. /\ disk \in State /\ mem \in State /\ run \in Run
      /\ pc \notin {"off", "load"} => mem \in Position /\ disk \in Position
      /\ pc \notin SetupPoint /\ pc' \notin SetupPoint
  BY LoopOutsideSetup DEF TypeInv, TypeOK, Placed
<1>1. CASE NextPhase
  <2>1. /\ mem = disk /\ GetNextPhase(mem.phase) # NoPhase
        /\ AdvancePhase(GetNextPhase(mem.phase))
    BY <1>1 DEF NextPhase, Ordinary, MemInv
  <2>. QED
    BY <1>0, <2>1, NextPhaseOnward, AdvanceOnward
<1>2. CASE NextTeardownPhase
  <2>1. /\ mem = disk /\ AdvancePhase(GetNextTeardownPhase(mem.phase))
        /\ GetNextTeardownPhase(mem.phase) \in PhasesOf(EpicTeardown)
    BY <1>2, NextTeardownPhaseIn DEF NextTeardownPhase, Ordinary, MemInv
  <2>. QED
    BY <1>0, <2>1, OutsideOnward, AdvanceOnward
<1>3. CASE CannotAdvance
  BY <1>3, <1>0, PhaseStays, SavedOnward DEF CannotAdvance, Exit, PhaseMoves,
     MemInv, durable, process, observer
<1>. QED
  BY <1>1, <1>2, <1>3 DEF Advance

LEMMA EnvironmentMovesPhase ==
    ASSUME ListsApart, NoRepeat, ManualEdits = FALSE, TypeInv,
        TypeInv', SprintInv, OrderInv, MemInv, SetupInv, FreshInv, OnwardInv, Environment
    PROVE  PhaseMoves
<1>. USE DEF Goto, SetupPoint
<1>0. run \in Run
  BY DEF TypeInv, TypeOK
<1>1. CASE StartRun
  BY <1>1, PhaseStays, SavedOnward DEF StartRun, PhaseMoves, durable
<1>2. CASE NoEpics
  BY <1>2, PhaseStays DEF NoEpics, durable, process, PhaseMoves, OnwardInv
<1>3. CASE Kill
  <2>1. disk' = disk /\ pc' = "off"
    BY <1>3 DEF Kill, Exit, durable
  <2>2. CASE pc \in SetupPoint
    BY <2>1, <2>2, SavedOnward DEF PhaseMoves, Kept
  <2>3. CASE pc \notin SetupPoint
    BY <2>1, <2>3, PhaseStays, SavedOnward DEF PhaseMoves
  <2>. QED
    BY <2>2, <2>3
<1>4. CASE Cancel
  <2>1. PhaseReached' = PhaseReached
    BY <1>4, <1>0 DEF Cancel, durable, PhaseReached, Run
  <2>. QED
    BY <1>4, <2>1, SamePhaseOnward DEF Cancel, durable, PhaseMoves, OnwardInv, Kept
<1>5. CASE SprintSync
  BY <1>5, PhaseStays DEF SprintSync, process, PhaseMoves, OnwardInv
<1>6. CASE EditSprint
  BY <1>6, Zenon DEF EditSprint
<1>. QED
  BY <1>1, <1>2, <1>3, <1>4, <1>5, <1>6 DEF Environment

LEMMA NextMovesPhase ==
    ASSUME ListsApart, NoRepeat, ManualEdits = FALSE, TypeInv, TypeInv',
           SprintInv, OrderInv, MemInv, SetupInv, FreshInv, OnwardInv, [Next]_vars
    PROVE  PhaseMoves
<1>1. UNCHANGED vars => PhaseMoves
  BY SamePhaseOnward DEF vars, PhaseMoves, OnwardInv, Kept, PhaseReached
<1>. QED
  BY <1>1, StartMovesPhase, SetupMovesPhase, IterateMovesPhase, FinishStoryMovesPhase,
     FinishEpicMovesPhase, AdvanceMovesPhase, EnvironmentMovesPhase
     DEF Next, Process

\* Within a story the phase reached moves back only for a rework, which is
\* counted and within the limit: not for a resume, a phase that was not saved,
\* or a setup that is run again in the middle of the story, unless the run ends
\* inside that setup.
THEOREM PhaseIsKept ==
    ASSUME ListsApart, NoRepeat, ManualEdits = FALSE
    PROVE  Spec => PhaseKept
<1>. DEFINE Inv == TypeInv /\ SprintInv /\ OrderInv /\ ResultInv /\ MemInv /\ SetupInv
            Moves == CurrentStory(disk') = CurrentStory(disk) =>
                        \/ Onward(PhaseReached, PhaseReached')
                        \/ disk'.rework = disk.rework + 1 /\ disk'.rework <= MaxRework
                        \/ pc \in SetupPoint /\ pc' = "off"
<1>1. Init => FreshInv /\ OnwardInv
  BY DEF Init, FreshInv, OnwardInv, NoRun, NewRun, SetupPoint
<1>2. Inv /\ FreshInv /\ [Next]_vars => FreshInv'
  <2>. SUFFICES ASSUME Inv, FreshInv, [Next]_vars PROVE FreshInv'
    OBVIOUS
  <2>. QED
    BY NextKeepsFresh
<1>3. /\ Inv /\ Inv' /\ FreshInv /\ OnwardInv /\ [Next]_vars
      => OnwardInv' /\ [Moves]_<<disk, pc, run>>
  <2>. SUFFICES ASSUME Inv, Inv', FreshInv, OnwardInv, [Next]_vars PROVE OnwardInv' /\ Moves
    OBVIOUS
  <2>1. PhaseMoves
    BY NextMovesPhase
  <2>. QED
    BY <2>1 DEF PhaseMoves, Kept
<1>. QED
  BY <1>1, <1>2, <1>3, SetupInvariance, PTL DEF Spec, PhaseKept
=============================================================================
