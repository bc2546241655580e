--------------------------- MODULE DevLoop_proofs ---------------------------
(***************************************************************************)
(* Type correctness of the development loop, for every project and every   *)
(* loop configuration, with the placement of the position it rests on;     *)
(* that sprint-status never runs ahead of state.yaml, for every            *)
(* configuration whose phase lists are kept apart, as long as nobody edits *)
(* sprint-status by hand; and that the loop implements Project: stories    *)
(* and epics are completed in order, and the recorded position never moves *)
(* back.                                                                   *)
(***************************************************************************)
EXTENDS DevLoop, TLAPS, FiniteSetTheorems

\* A state whose position is a story of the project.
Position == {st \in State : CurrentStory(st) \in Story}

-----------------------------------------------------------------------------
(***************************************************************************)
(* Lemmas about the pure operators.                                        *)
(***************************************************************************)
\* Min is the least element of a nonempty set of natural numbers.
LEMMA MinProperty ==
    ASSUME NEW S, S \subseteq Nat, S # {}
    PROVE  /\ Min(S) \in S
           /\ \A x \in S : Min(S) <= x
<1>. DEFINE Below(n) == {x \in S : x <= n}
           R == StrictSubsetOrdering(Nat)
<1>1. \A n \in Nat : Below(n) \in FiniteSubsetsOf(Nat)
  <2>. SUFFICES ASSUME NEW n \in Nat PROVE Below(n) \in FiniteSubsetsOf(Nat)
    OBVIOUS
  <2>1. Below(n) \in SUBSET Nat /\ \A s \in Below(n) : s <= n
    OBVIOUS
  <2>. QED
    BY <2>1, FS_BoundedSetOfNaturals DEF FiniteSubsetsOf
<1>2. PICK T \in {Below(n) : n \in S} :
            \A U \in {Below(n) : n \in S} : <<U, T>> \notin R
  <2>. HIDE DEF R, Below
  <2>1. IsWellFoundedOn(R, FiniteSubsetsOf(Nat))
    BY FS_StrictSubsetOrderingWellFounded DEF R
  <2>2. {Below(n) : n \in S} \subseteq FiniteSubsetsOf(Nat)
    BY <1>1
  <2>3. {Below(n) : n \in S} # {}
    OBVIOUS
  <2>. QED
    BY <2>1, <2>2, <2>3, WFMin
<1>3. PICK x \in S : T = Below(x)
  BY <1>2
<1>4. \A y \in S : x <= y
  <2>. SUFFICES ASSUME NEW y \in S, y < x PROVE FALSE
    OBVIOUS
  <2>1. x \in Nat /\ y \in Nat /\ \A z \in S : z \in Nat
    OBVIOUS
  <2>2. Below(y) \subseteq Below(x)
    <3>. SUFFICES ASSUME NEW z \in S, z <= y PROVE z <= x
      OBVIOUS
    <3>. QED
      BY <2>1
  <2>3. x \in Below(x) /\ x \notin Below(y)
    BY <2>1
  <2>4. Below(y) \in SUBSET Nat /\ Below(x) \in SUBSET Nat
    BY <2>1
  <2>5. <<Below(y), T>> \in R
    BY <2>2, <2>3, <2>4, <1>3 DEF StrictSubsetOrdering
  <2>. QED
    BY <2>5, <1>2
<1>. QED
  BY <1>4 DEF Min

\* The stories are the pairs of an epic and one of its numbers.
LEMMA StoryElements ==
    ASSUME NEW e, NEW i
    PROVE  <<e, i>> \in Story <=> e \in Epic /\ i \in 1..StoryCount[e]
BY DEF Story, StoriesOf, Epic

LEMMA StoryForm ==
    ASSUME NEW s \in Story
    PROVE  s = <<s[1], s[2]>> /\ s[1] \in Epic /\ s[2] \in 1..StoryCount[s[1]]
BY DEF Story, StoriesOf, Epic

\* Every epic has a first story.
LEMMA FirstStory == \A e \in Epic : <<e, 1>> \in Story
BY LifecycleAssumption, StoryElements DEF Epic

LEMMA PhaseLists ==
    /\ \A i \in DOMAIN StoryPhases : StoryPhases[i] \in Phase
    /\ \A i \in DOMAIN EpicSetup : EpicSetup[i] \in Phase
    /\ \A i \in DOMAIN EpicTeardown : EpicTeardown[i] \in Phase
    /\ 1 \in DOMAIN StoryPhases
    /\ DOMAIN StoryPhases \subseteq Nat
    /\ DOMAIN EpicSetup \subseteq Nat
    /\ DOMAIN EpicTeardown \subseteq Nat
BY LoopConfigAssumption

\* The next phase is a phase or none.
LEMMA NextPhaseType == \A p : GetNextPhase(p) \in Phase \cup {NoPhase}
<1>. SUFFICES ASSUME NEW p, LaterPhases(p) # {}
              PROVE  StoryPhases[Min(LaterPhases(p))] \in Phase
  BY DEF GetNextPhase
<1>1. LaterPhases(p) \subseteq DOMAIN StoryPhases
  BY DEF LaterPhases
<1>2. Min(LaterPhases(p)) \in LaterPhases(p)
  BY <1>1, PhaseLists, MinProperty
<1>. QED
  BY <1>1, <1>2, PhaseLists

LEMMA NextTeardownPhaseType ==
    \A p : GetNextTeardownPhase(p) \in Phase \cup {NoPhase}
<1>. SUFFICES ASSUME NEW p, p \in PhasesOf(EpicTeardown),
                     PhaseIndex(EpicTeardown, p) # Len(EpicTeardown)
              PROVE  EpicTeardown[PhaseIndex(EpicTeardown, p) + 1] \in Phase
  BY DEF GetNextTeardownPhase
<1>. DEFINE I == {i \in DOMAIN EpicTeardown : EpicTeardown[i] = p}
<1>1. I \subseteq Nat /\ I # {}
  BY PhaseLists DEF PhasesOf
<1>2. Min(I) \in DOMAIN EpicTeardown
  BY <1>1, MinProperty
<1>3. PhaseIndex(EpicTeardown, p) + 1 \in DOMAIN EpicTeardown
  BY <1>2, LoopConfigAssumption DEF PhaseIndex
<1>. QED
  BY <1>3, PhaseLists

-----------------------------------------------------------------------------
(***************************************************************************)
(* The transitions keep the position inside the project.                   *)
(***************************************************************************)
LEMMA PositionFields ==
    ASSUME NEW st \in Position
    PROVE  /\ st \in State
           /\ st.epic \in Epic
           /\ st.epic # 0
           /\ st.story \in 1..StoryCount[st.epic]
           /\ CurrentStory(st) = <<st.epic, st.story>>
           /\ CurrentStory(st) \in Story
BY StoryElements DEF Position, CurrentStory, Epic

LEMMA SetPhase ==
    ASSUME NEW st \in Position, NEW p \in Phase \cup {NoPhase}
    PROVE  [st EXCEPT !.phase = p] \in Position
BY DEF Position, State, CurrentStory

LEMMA CompleteStoryPosition ==
    ASSUME NEW st \in Position
    PROVE  CompleteStory(st) \in Position
BY DEF Position, State, CurrentStory, CompleteStory

LEMMA CompleteEpicPosition ==
    ASSUME NEW st \in Position
    PROVE  CompleteEpic(st) \in Position
BY PositionFields DEF Position, State, CurrentStory, CompleteEpic

\* Moving to another story of the current epic.
LEMMA MoveInEpic ==
    ASSUME NEW st \in Position, NEW i \in RemainingStories(st)
    PROVE  [st EXCEPT !.story = i, !.phase = "create_story", !.rework = 0] \in Position
<1>1. <<st.epic, i>> \in Story /\ i \in Nat
  BY PositionFields, StoryElements, LifecycleAssumption DEF RemainingStories, Epic
<1>. QED
  BY <1>1 DEF Position, State, CurrentStory, Phase

\* The least remaining story, if there is one.
LEMMA RemainingLeast ==
    ASSUME NEW st \in Position, NEW S, S \subseteq RemainingStories(st), S # {}
    PROVE  Min(S) \in S /\ \A i \in S : Min(S) <= i
<1>1. StoryCount[st.epic] \in Nat
  BY PositionFields, LifecycleAssumption DEF Epic
<1>2. \A i \in RemainingStories(st) : i \in Nat
  BY <1>1 DEF RemainingStories
<1>3. S \subseteq Nat
  BY <1>2
<1>. QED
  BY <1>3, MinProperty

LEMMA HandleStoryPosition ==
    ASSUME NEW st \in Position
    PROVE  HandleStoryCompletion(st) \in Position
<1>. DEFINE c == CompleteStory(st)
<1>1. c \in Position
  BY CompleteStoryPosition
<1>2. ASSUME ~IsLastStoryInEpic(c)
      PROVE  AdvanceToNextStory(c) \in Position
  BY <1>1, <1>2, RemainingLeast, MoveInEpic DEF IsLastStoryInEpic, AdvanceToNextStory
<1>. QED
  BY <1>1, <1>2 DEF HandleStoryCompletion

\* The next epic and its first open story, for a nonempty set of active
\* stories.
LEMMA NextEpicPosition ==
    ASSUME NEW st \in Position, NEW active \in SUBSET Story,
           ~NoNextEpic(st, active), ~NextEpicExhausted(st, active)
    PROVE  /\ Min(NextEpics(st, active)) \in NextEpics(st, active)
           /\ AdvanceToNextEpic(st, active) \in Position
<1>. DEFINE next == Min(NextEpics(st, active))
            open == OpenStories(st, active, next)
<1>1. ActiveEpics(active) \subseteq Epic
  BY StoryForm DEF ActiveEpics
<1>2. NextEpics(st, active) \subseteq Epic /\ Epic \subseteq Nat
  BY <1>1 DEF NextEpics, Epic
<1>3. next \in NextEpics(st, active)
  BY <1>2, MinProperty DEF NoNextEpic
<1>4. open # {} /\ open \subseteq 1..StoryCount[next]
  BY DEF NextEpicExhausted, OpenStories
<1>6. Min(open) \in open
  <2>1. open \subseteq Nat
    BY DEF OpenStories
  <2>. QED
    BY <1>4, <2>1, MinProperty
<1>7. <<next, Min(open)>> \in Story /\ next \in Epic /\ Min(open) \in Nat
  BY <1>2, <1>3, <1>4, <1>6, StoryElements
<1>. QED
  BY <1>3, <1>7 DEF AdvanceToNextEpic, Position, State, CurrentStory, Phase

LEMMA HandleEpicPosition ==
    ASSUME NEW st \in Position, NEW active \in SUBSET Story,
           ~NoNextEpic(CompleteEpic(st), active),
           ~NextEpicExhausted(CompleteEpic(st), active)
    PROVE  HandleEpicCompletion(st, active) \in Position
BY CompleteEpicPosition, NextEpicPosition DEF HandleEpicCompletion

-----------------------------------------------------------------------------
(***************************************************************************)
(* What the steps share.                                                   *)
(***************************************************************************)
LEMMA StoryStatusType == \A phase : PhaseToStatus(phase) \in Status
BY DEF PhaseToStatus, Status

LEMMA SyncedType ==
    ASSUME NEW st, NEW sp \in Sprint, NEW art
    PROVE  Synced(st, sp, art) \in Sprint
<1>. DEFINE stories == SyncedStories(st, sp.story)
<1>1. stories \in [Story -> Status]
  BY StoryStatusType DEF SyncedStories, Sprint, Status
<1>2. SyncedEpics(st, stories, sp.epic) \in [Epic -> Status]
  <2>. HIDE DEF stories
  <2>. QED BY DEF SyncedEpics, Sprint, Status
<1>3. SyncedRetros(st, art, sp.retro) \in [Epic -> Status]
  BY DEF SyncedRetros, Sprint, Status
<1>. QED
  BY <1>1, <1>2, <1>3 DEF Synced, Sprint

LEMMA SyncSprintType ==
    ASSUME TypeOK, NEW st, SyncSprint(st)
    PROVE  sprint' \in Sprint /\ faults' \in 0..MaxFaults
BY SyncedType, DevLoopAssumption DEF TypeOK, SyncSprint

LEMMA ReportsType ==
    ASSUME TypeOK, mem \in Position, NEW outcome, artifacts' \in Reports(outcome)
    PROVE  artifacts' \in Artifacts
BY PositionFields DEF TypeOK, Reports, Artifacts

LEMMA SucceededType ==
    ASSUME TypeOK, mem \in Position
    PROVE  Succeeded \subseteq Epic \X Phase
<1>1. mem.phase \in EpicPhases => mem.phase \in Phase
  BY PhaseLists DEF EpicPhases, PhasesOf
<1>. QED
  BY <1>1, PositionFields DEF Succeeded, TypeOK

LEMMA ApprovedType ==
    ASSUME TypeOK, mem \in Position, NEW outcome
    PROVE  Approved(outcome) \subseteq Story
  BY PositionFields DEF Approved, TypeOK

LEMMA InitialValuesType ==
    /\ EmptyState \in State
    /\ GeneratedSprint \in Sprint
    /\ NoArtifacts \in Artifacts
    /\ NoRun \in Run
BY DEF EmptyState, State, GeneratedSprint, Sprint, Status, NoArtifacts, Artifacts,
       NoRun, NewRun, Run, RunOption

\* The steps that end the run.
LEMMA ExitType ==
    ASSUME NEW reason \in ExitReason, Exit(reason)
    PROVE  /\ pc' = "off" /\ pc' \in ControlPoint
           /\ exit' \in ExitReason
           /\ mem' \in State
           /\ run' \in Run
BY InitialValuesType DEF Exit, ControlPoint

-----------------------------------------------------------------------------
(***************************************************************************)
(* The inductive invariant: types, and a position and loop counters that   *)
(* the code may index its lists with.                                      *)
(***************************************************************************)
StepInRange ==
    /\ pc \in {"load", "repair", "validate", "resync", "enter"} => run.step = 1
    /\ pc \in {"setup", "setup_run"} => run.step \in DOMAIN EpicSetup
    /\ pc \in {"teardown", "teardown_run"} => run.step \in DOMAIN EpicTeardown

Placed ==
    /\ disk.epic # 0 => disk \in Position
    /\ pc \notin {"off", "load"} => mem \in Position /\ disk \in Position
    /\ pc # "off" => run.active # {}

TypeInv == TypeOK /\ Placed /\ StepInRange

LEMMA TypeInvInit == Init => TypeInv
BY InitialValuesType, DevLoopAssumption
   DEF Init, TypeInv, TypeOK, Placed, StepInRange, ControlPoint, ExitReason, EmptyState

\* A step that sets a flag of the run keeps its active stories and its counter.
LEMMA RunFlags ==
    ASSUME run \in Run, NEW b \in BOOLEAN,
           \/ run' = [run EXCEPT !.advanced = b]
           \/ run' = [run EXCEPT !.cancelled = b]
    PROVE  run' \in Run /\ run'.active = run.active /\ run'.step = run.step
BY DEF Run

LEMMA FirstPositionPlaced ==
    ASSUME TypeInv, pc = "load"
    PROVE  FirstPosition \in Position
<1>. DEFINE e == Min(ActiveEpics(run.active))
            open == OpenStories(EmptyState, run.active, e)
<1>1. run.active \subseteq Story /\ run.active # {}
  BY DEF TypeInv, TypeOK, Run, Placed
<1>2. ActiveEpics(run.active) # {} /\ ActiveEpics(run.active) \subseteq Epic
  BY <1>1, StoryForm DEF ActiveEpics
<1>3. e \in ActiveEpics(run.active)
  BY <1>2, MinProperty DEF Epic
<1>4. PICK s \in run.active : s[1] = e
  BY <1>3 DEF ActiveEpics
<1>5. s[2] \in open /\ open \subseteq Nat
  BY <1>1, <1>4, StoryForm DEF OpenStories, EmptyState
<1>6. Min(open) \in open
  <2>. HIDE DEF open
  <2>. QED BY <1>5, MinProperty
<1>7. <<e, Min(open)>> \in Story /\ e \in Epic /\ Min(open) \in Nat
  BY <1>1, <1>2, <1>3, <1>5, <1>6 DEF OpenStories
<1>. QED
  BY <1>7, PhaseLists DEF FirstPosition, TypeInv, TypeOK, State, Position, CurrentStory

LEMMA StartKeepsTypeInv == TypeInv /\ Start => TypeInv'
<1>. SUFFICES ASSUME TypeInv, Start PROVE TypeInv'
  OBVIOUS
<1>. USE DEF TypeInv, TypeOK, Placed, StepInRange, ControlPoint, Goto, Save,
         durable, process, observer
<1>1. CASE FreshStart
  BY <1>1, FirstPositionPlaced, PositionFields DEF FreshStart, Run
<1>2. CASE Repair
  BY <1>2, SyncSprintType DEF Repair
<1>3. CASE Resume
  BY <1>3 DEF Resume
<1>4. CASE RefuseResume
  BY <1>4, InitialValuesType DEF RefuseResume, Exit, ExitReason
<1>5. CASE SkipDoneEpic
  <2>. DEFINE st == CompleteEpic(mem)
              next == IncompleteEpics(st, sprint, artifacts)
  <2>1. st \in Position /\ mem \in Position
    BY <1>5, CompleteEpicPosition DEF SkipDoneEpic
  <2>2. CASE next = {}
    BY <1>5, <2>1, <2>2, InitialValuesType, PositionFields
       DEF SkipDoneEpic, Exit, ExitReason
  <2>3. CASE next # {}
    <3>1. Min(next) \in Epic
      BY <2>3, MinProperty DEF IncompleteEpics, Epic
    <3>2. [st EXCEPT !.epic = Min(next), !.story = 1, !.phase = "create_story"] \in Position
      BY <2>1, <3>1, FirstStory DEF Position, State, CurrentStory, Phase
    <3>3. (run.advanced \/ mem.epic \notin mem.doneEpics) \in BOOLEAN
      BY DEF Run
    <3>4. PICK b \in BOOLEAN : run' = [run EXCEPT !.advanced = b]
      BY <1>5, <2>3, <3>3 DEF SkipDoneEpic
    <3>5. /\ mem' \in Position
          /\ UNCHANGED <<disk, sprint, artifacts, pc, exit, faults, observer>>
          /\ pc = "validate"
      BY <1>5, <2>3, <3>2 DEF SkipDoneEpic
    <3>6. run' \in Run /\ run'.active = run.active /\ run'.step = run.step
      BY <3>4, RunFlags
    <3>. QED
      BY <3>5, <3>6, PositionFields
  <2>. QED
    BY <2>2, <2>3
<1>6. CASE SkipDoneStory
  <2>. DEFINE next == IncompleteStories(mem, sprint, artifacts)
              st == [CompleteStory(mem) EXCEPT !.story = Min(next), !.phase = "create_story"]
  <2>1. mem \in Position /\ next # {} /\ next \subseteq RemainingStories(mem)
    BY <1>6 DEF SkipDoneStory, IncompleteStories
  <2>2. Min(next) \in RemainingStories(mem)
    <3>. HIDE DEF next
    <3>. QED BY <2>1, RemainingLeast
  <2>3. <<mem.epic, Min(next)>> \in Story /\ Min(next) \in Nat
    BY <2>1, <2>2, PositionFields, StoryElements, LifecycleAssumption
       DEF RemainingStories, Epic
  <2>4. st \in Position
    BY <2>1, <2>3, CompleteStoryPosition
       DEF Position, State, CurrentStory, CompleteStory, Phase
  <2>5. /\ run' = [run EXCEPT !.advanced = TRUE] /\ mem' = st
        /\ UNCHANGED <<disk, sprint, artifacts, pc, exit, faults, observer>>
        /\ pc = "validate"
    BY <1>6 DEF SkipDoneStory
  <2>6. run' \in Run /\ run'.active = run.active /\ run'.step = run.step
    BY <2>5, RunFlags
  <2>. QED
    BY <2>4, <2>5, <2>6, PositionFields
<1>7. CASE AcceptPosition
  BY <1>7, PositionFields DEF AcceptPosition
<1>8. CASE Resync
  BY <1>8, SyncSprintType DEF Resync
<1>. QED
  BY <1>1, <1>2, <1>3, <1>4, <1>5, <1>6, <1>7, <1>8 DEF Start

LEMMA SetupKeepsTypeInv == TypeInv /\ Setup => TypeInv'
<1>. SUFFICES ASSUME TypeInv, Setup PROVE TypeInv'
  OBVIOUS
<1>. USE DEF TypeInv, TypeOK, Placed, StepInRange, ControlPoint, Goto, Save,
         durable, process, observer
<1>1. CASE EnterLoop
  <2>1. mem.phase \in Phase \cup {NoPhase} /\ run \in Run /\ mem \in Position
    BY <1>1 DEF EnterLoop, State
  <2>2. [run EXCEPT !.saved = mem.phase] \in Run
    BY <2>1 DEF Run
  <2>3. CASE ~mem.setupDone /\ EpicSetup # <<>>
    <3>1. 1 \in DOMAIN EpicSetup
      BY <2>3, LoopConfigAssumption
    <3>2. run' \in Run /\ run'.active = run.active /\ run'.step = 1
      BY <1>1, <2>2, <2>3 DEF EnterLoop, Run
    <3>. QED
      BY <1>1, <2>1, <2>3, <3>1, <3>2 DEF EnterLoop
  <2>4. CASE ~(~mem.setupDone /\ EpicSetup # <<>>)
    BY <1>1, <2>4 DEF EnterLoop
  <2>. QED
    BY <2>3, <2>4
<1>2. CASE SetupPhase
  BY <1>2, SetPhase, PhaseLists, PositionFields DEF SetupPhase
<1>3. CASE SetupSucceeds
  <2>1. mem \in Position /\ run.step \in DOMAIN EpicSetup
    BY <1>3 DEF SetupSucceeds
  <2>2. Succeeded \subseteq Epic \X Phase
    BY <2>1, SucceededType
  <2>3. CASE run.step < Len(EpicSetup)
    <3>1. run.step + 1 \in DOMAIN EpicSetup
      BY <2>1, <2>3, LoopConfigAssumption
    <3>. QED
      BY <1>3, <2>2, <2>3, <3>1 DEF SetupSucceeds, Run
  <2>4. CASE ~(run.step < Len(EpicSetup))
    <3>1. [mem EXCEPT !.setupDone = TRUE, !.phase = StoryPhases[1]] \in Position
      BY <2>1, PhaseLists DEF Position, State, CurrentStory
    <3>. QED
      BY <1>3, <2>2, <2>4, <3>1, PositionFields DEF SetupSucceeds
  <2>. QED
    BY <2>3, <2>4
<1>4. CASE SetupFails
  BY <1>4, InitialValuesType DEF SetupFails, Exit, ExitReason
<1>5. CASE RestorePhase
  BY <1>5, SetPhase, PositionFields DEF RestorePhase, Run
<1>. QED
  BY <1>1, <1>2, <1>3, <1>4, <1>5 DEF Setup

LEMMA IterateKeepsTypeInv == TypeInv /\ Iterate => TypeInv'
<1>. SUFFICES ASSUME TypeInv, Iterate PROVE TypeInv'
  OBVIOUS
<1>. USE DEF TypeInv, TypeOK, Placed, StepInRange, ControlPoint, Goto, Save,
         durable, process, observer
<1>1. CASE BeginPhase
  BY <1>1 DEF BeginPhase
<1>2. ASSUME NEW outcome \in Outcome, Execute(outcome) PROVE TypeInv'
  BY <1>2, ReportsType, SucceededType, ApprovedType, PositionFields DEF Execute, Run
<1>3. CASE StopRequested
  BY <1>3, InitialValuesType DEF StopRequested, Exit, ExitReason
<1>4. CASE PhaseFails
  BY <1>4 DEF PhaseFails
<1>5. CASE Halt
  BY <1>5, InitialValuesType, SyncSprintType DEF Halt, Exit, ExitReason
<1>6. CASE PhaseSucceeds
  BY <1>6 DEF PhaseSucceeds
<1>7. CASE SyncPhase
  BY <1>7, SyncSprintType DEF SyncPhase
<1>. QED
  BY <1>1, <1>2, <1>3, <1>4, <1>5, <1>6, <1>7 DEF Iterate

\* The two ways of moving on inside the iteration.
LEMMA ContinueKeepsTypeInv ==
    ASSUME TypeInv, pc = "decide", NEW st \in Position,
           SaveAndContinue(st), UNCHANGED <<sprint, artifacts, faults, observer>>
    PROVE  TypeInv'
BY InitialValuesType, PositionFields
   DEF SaveAndContinue, TypeInv, TypeOK, Placed, StepInRange, ControlPoint, Save,
       observer, Exit, ExitReason

LEMMA AdvanceKeepsTypeInv == TypeInv /\ Advance => TypeInv'
<1>. SUFFICES ASSUME TypeInv, Advance PROVE TypeInv'
  OBVIOUS
<1>. USE DEF TypeInv, TypeOK, Placed, StepInRange, ControlPoint, durable, observer
<1>1. ASSUME NEW p \in Phase \cup {NoPhase}, pc = "decide", AdvancePhase(p),
             UNCHANGED <<sprint, artifacts, faults, observer>>
      PROVE  TypeInv'
  BY <1>1, SetPhase, InitialValuesType, PositionFields DEF AdvancePhase, Exit, ExitReason
<1>2. CASE NextPhase
  BY <1>1, <1>2, NextPhaseType DEF NextPhase, Ordinary
<1>3. CASE NextTeardownPhase
  BY <1>1, <1>3, NextTeardownPhaseType DEF NextTeardownPhase, Ordinary
<1>4. CASE CannotAdvance
  BY <1>4, InitialValuesType DEF CannotAdvance, Exit, ExitReason
<1>. QED
  BY <1>2, <1>3, <1>4 DEF Advance

LEMMA FinishStoryKeepsTypeInv == TypeInv /\ FinishStory => TypeInv'
<1>. SUFFICES ASSUME TypeInv, FinishStory PROVE TypeInv'
  OBVIOUS
<1>. USE DEF TypeInv, TypeOK, Placed, StepInRange, ControlPoint, Goto, Save,
         durable, process, observer
<1>1. CASE Rework
  <2>1. [mem EXCEPT !.phase = "dev_story", !.rework = @ + 1] \in Position
    <3>1. mem \in Position
      BY <1>1 DEF Rework
    <3>2. mem.rework + 1 \in Nat
      BY <3>1 DEF Position, State
    <3>. QED
      BY <3>1, <3>2 DEF Position, State, CurrentStory, Phase
  <2>. QED
    BY <1>1, <2>1, ContinueKeepsTypeInv DEF Rework
<1>2. CASE RefuseUnresolved
  BY <1>2, InitialValuesType DEF RefuseUnresolved, Exit, ExitReason
<1>3. CASE AfterReview
  BY <1>3, SetPhase, NextPhaseType, ContinueKeepsTypeInv DEF AfterReview
<1>4. CASE HoldStory
  BY <1>4, CompleteStoryPosition, PositionFields DEF HoldStory
<1>5. CASE NextStory
  BY <1>5, HandleStoryPosition, PositionFields DEF NextStory
<1>6. CASE LastStory
  <2>1. HandleStoryCompletion(mem) \in Position
    BY <1>6, HandleStoryPosition DEF LastStory
  <2>2. run' \in Run /\ run'.active = run.active /\ run'.step = 1
    BY <1>6 DEF LastStory, Run
  <2>3. EpicTeardown # <<>> => 1 \in DOMAIN EpicTeardown
    BY LoopConfigAssumption
  <2>. QED
    BY <1>6, <2>1, <2>2, <2>3, PositionFields DEF LastStory
<1>7. CASE QuitAtPrompt
  BY <1>7, InitialValuesType DEF QuitAtPrompt, Exit, ExitReason
<1>8. CASE BeginStory
  BY <1>8, InitialValuesType, SyncSprintType DEF BeginStory, Exit, ExitReason
<1>. QED
  BY <1>1, <1>2, <1>3, <1>4, <1>5, <1>6, <1>7, <1>8 DEF FinishStory

LEMMA FinishEpicKeepsTypeInv == TypeInv /\ FinishEpic => TypeInv'
<1>. SUFFICES ASSUME TypeInv, FinishEpic PROVE TypeInv'
  OBVIOUS
<1>. USE DEF TypeInv, TypeOK, Placed, StepInRange, ControlPoint, Goto, Save,
         durable, process, observer
<1>1. CASE StageTeardown
  <2>1. EpicTeardown # <<>> => EpicTeardown[1] \in Phase
    BY LoopConfigAssumption, PhaseLists
  <2>. QED
    BY <1>1, <2>1, SetPhase, PositionFields DEF StageTeardown
<1>2. CASE TeardownPhase
  BY <1>2, SetPhase, PhaseLists, PositionFields DEF TeardownPhase
<1>3. CASE TeardownSucceeds
  <2>1. artifacts' \in Artifacts /\ succeeded' \subseteq Epic \X Phase
    BY <1>3, ReportsType, SucceededType DEF TeardownSucceeds
  <2>2. CASE run.step < Len(EpicTeardown)
    <3>1. run.step + 1 \in DOMAIN EpicTeardown
      BY <1>3, <2>2, LoopConfigAssumption DEF TeardownSucceeds
    <3>. QED
      BY <1>3, <2>1, <2>2, <3>1 DEF TeardownSucceeds, Run
  <2>3. CASE ~(run.step < Len(EpicTeardown))
    BY <1>3, <2>1, <2>3 DEF TeardownSucceeds
  <2>. QED
    BY <2>2, <2>3
<1>4. CASE TeardownFails
  BY <1>4, ReportsType DEF TeardownFails
<1>5. CASE SyncTeardown
  BY <1>5, SyncSprintType DEF SyncTeardown
<1>6. CASE CompleteAndStop
  BY <1>6, CompleteEpicPosition, PositionFields
     DEF CompleteAndStop, EndOfEpic, EndsEpicInLoop
<1>7. CASE NextEpic
  <2>1. mem \in Position /\ run.active \in SUBSET Story /\ pc \in {"epic_done", "decide"}
    BY <1>7 DEF NextEpic, EndOfEpic, EndsEpicInLoop, Run
  <2>2. CASE NextEpicExhausted(CompleteEpic(mem), run.active)
    BY <1>7, <2>2, InitialValuesType DEF NextEpic, Exit, ExitReason
  <2>3. CASE ~NextEpicExhausted(CompleteEpic(mem), run.active)
    BY <1>7, <2>1, <2>3, HandleEpicPosition, PositionFields DEF NextEpic
  <2>. QED
    BY <2>2, <2>3
<1>8. CASE BeginEpic
  BY <1>8 DEF BeginEpic
<1>9. CASE SyncEpic
  BY <1>9, SyncSprintType DEF SyncEpic
<1>10. CASE ExitSync
  BY <1>10, InitialValuesType, SyncSprintType DEF ExitSync, Exit, ExitReason
<1>. QED
  BY <1>1, <1>2, <1>3, <1>4, <1>5, <1>6, <1>7, <1>8, <1>9, <1>10 DEF FinishEpic

LEMMA ActiveStoriesType == ActiveStories(sprint) \in SUBSET Story
BY DEF ActiveStories

LEMMA EnvironmentKeepsTypeInv == TypeInv /\ Environment => TypeInv'
<1>. SUFFICES ASSUME TypeInv, Environment PROVE TypeInv'
  OBVIOUS
<1>. USE DEF TypeInv, TypeOK, Placed, StepInRange, ControlPoint, Goto,
         durable, process, observer
<1>1. CASE StartRun
  <2>1. PICK o \in RunOptions : run' = NewRun(o, ActiveStories(sprint))
    BY <1>1 DEF StartRun
  <2>2. run' \in Run /\ run'.active # {} /\ run'.step = 1
    BY <1>1, <2>1, ActiveStoriesType, DevLoopAssumption DEF StartRun, NewRun, Run
  <2>. QED
    BY <1>1, <2>2 DEF StartRun, ExitReason
<1>2. CASE NoEpics
  BY <1>2 DEF NoEpics, ExitReason
<1>3. CASE Kill
  BY <1>3, InitialValuesType, DevLoopAssumption DEF Kill, Exit, ExitReason
<1>4. CASE Cancel
  BY <1>4, RunFlags DEF Cancel
<1>5. CASE SprintSync
  BY <1>5, SyncedType DEF SprintSync
<1>6. CASE EditSprint
  <2>1. sprint' \in Sprint /\ artifacts' \in Artifacts
    <3>1. CASE /\ \E s \in Story : sprint' = [sprint EXCEPT !.story[s] = "done"]
               /\ UNCHANGED artifacts
      BY <3>1 DEF Sprint, Status
    <3>2. ASSUME NEW e \in Epic,
                 sprint' = [sprint EXCEPT !.epic[e] = "done", !.retro[e] = "done"],
                 artifacts' \in {artifacts, [artifacts EXCEPT !.retro = @ \cup {e}]}
          PROVE  sprint' \in Sprint /\ artifacts' \in Artifacts
      <4>1. sprint' \in Sprint
        BY <3>2 DEF Sprint, Status
      <4>2. artifacts' \in Artifacts
        BY <3>2 DEF Artifacts
      <4>. QED
        BY <4>1, <4>2
    <3>. QED
      BY <1>6, <3>1, <3>2 DEF EditSprint
  <2>. QED
    BY <1>6, <2>1 DEF EditSprint
<1>. QED
  BY <1>1, <1>2, <1>3, <1>4, <1>5, <1>6 DEF Environment

LEMMA StutterKeepsTypeInv == TypeInv /\ UNCHANGED vars => TypeInv'
BY DEF TypeInv, TypeOK, Placed, StepInRange, vars

-----------------------------------------------------------------------------
\* Every reachable state is well typed, its recorded position is a story of
\* the project, and no step indexes a list of phases out of its range.
THEOREM TypeInvariance == Spec => []TypeInv
<1>1. TypeInv /\ [Next]_vars => TypeInv'
  BY StartKeepsTypeInv, SetupKeepsTypeInv, IterateKeepsTypeInv, FinishStoryKeepsTypeInv,
     FinishEpicKeepsTypeInv, AdvanceKeepsTypeInv, EnvironmentKeepsTypeInv,
     StutterKeepsTypeInv
     DEF Next, Process
<1>. QED
  BY TypeInvInit, <1>1, PTL DEF Spec

\* The variables of the loop keep their types, whatever fails, is killed, is
\* cancelled or is edited.
THEOREM TypeCorrectness == Spec => []TypeOK
BY TypeInvariance, PTL DEF TypeInv

-----------------------------------------------------------------------------
\* A phase handler only ever runs at a position that state.yaml already holds,
\* in the main loop, the setup loop and the teardown loop.
THEOREM RunsPersisted == Spec => []PersistedBeforeRun
<1>1. Init => PersistedBeforeRun
  BY DEF Init, PersistedBeforeRun
<1>2. PersistedBeforeRun /\ [Next]_vars => PersistedBeforeRun'
  <2>. SUFFICES ASSUME PersistedBeforeRun, [Next]_vars PROVE PersistedBeforeRun'
    OBVIOUS
  <2>. USE DEF PersistedBeforeRun, Goto
  <2>1. CASE Start
    BY <2>1 DEF Start, FreshStart, Repair, Resume, RefuseResume, SkipDoneEpic,
                SkipDoneStory, AcceptPosition, Resync, Exit
  <2>2. CASE Setup
    BY <2>2 DEF Setup, EnterLoop, SetupPhase, SetupSucceeds, SetupFails, RestorePhase,
                Save, Exit
  <2>3. CASE Iterate
    BY <2>3 DEF Iterate, BeginPhase, Execute, StopRequested, PhaseFails, Halt,
                PhaseSucceeds, SyncPhase, Exit
  <2>4. CASE FinishStory
    BY <2>4 DEF FinishStory, Rework, RefuseUnresolved, AfterReview, HoldStory, NextStory,
                LastStory, QuitAtPrompt, BeginStory, SaveAndContinue, Exit
  <2>5. CASE FinishEpic
    BY <2>5 DEF FinishEpic, StageTeardown, TeardownPhase, TeardownSucceeds,
                TeardownFails, SyncTeardown, CompleteAndStop, NextEpic, BeginEpic,
                SyncEpic, ExitSync, Save, Exit
  <2>6. CASE Advance
    BY <2>6 DEF Advance, NextPhase, NextTeardownPhase, CannotAdvance, AdvancePhase, Exit
  <2>7. CASE Environment
    BY <2>7 DEF Environment, StartRun, NoEpics, Kill, Cancel, SprintSync, EditSprint,
                durable, process, Exit
  <2>8. CASE UNCHANGED vars
    BY <2>8 DEF vars
  <2>. QED
    BY <2>1, <2>2, <2>3, <2>4, <2>5, <2>6, <2>7, <2>8 DEF Next, Process
<1>. QED
  BY <1>1, <1>2, PTL DEF Spec

-----------------------------------------------------------------------------
(***************************************************************************)
(* sprint-status and state.yaml: the lists that have to be kept apart.     *)
(***************************************************************************)
\* The phases at which the sync shows a story done.
DonePhases == {phase \in Phase : PhaseToStatus(phase) = "done"}

\* The phases that run when the stories of an epic are over, and those that
\* run before.
EndPhases == PhasesOf(EpicTeardown) \cup DonePhases
StoryPhaseSet ==
    PhasesOf(StoryPhases) \cup PhasesOf(EpicSetup) \cup {"create_story", "dev_story"}

\* No phase of the teardown is a phase of a story or of the setup.
ListsApart == EndPhases \cap StoryPhaseSet = {}

-----------------------------------------------------------------------------
(***************************************************************************)
(* The inductive invariant.  A sync shows done what the State object of    *)
(* the process holds completed, and the current story at the end phases:   *)
(* both are completed on disk already.                                     *)
(***************************************************************************)
Backed(sp, st, art) ==
    /\ \A s \in Story : sp.story[s] = "done" => s \in st.doneStories
    /\ \A e \in Epic : sp.epic[e] = "done" => e \in st.doneEpics
    /\ \A e \in Epic : sp.retro[e] = "done" => e \in art.retro

SameDone(st, u) == st.doneStories = u.doneStories /\ st.doneEpics = u.doneEpics

StoryOver(st) == st.phase \in EndPhases => CurrentStory(st) \in st.doneStories

AtEpicEnd == pc \in {"stage", "teardown", "teardown_run", "teardown_end", "epic_done"}

SprintInv ==
    /\ Backed(sprint, disk, artifacts)
    /\ disk.epic # 0 => StoryOver(disk)
    /\ pc \notin {"off", "load"} => SameDone(mem, disk) /\ StoryOver(mem)
    /\ AtEpicEnd => CurrentStory(mem) \in mem.doneStories

LEMMA SprintInvInit == Init => SprintInv
BY DEF Init, SprintInv, Backed, GeneratedSprint, EmptyState, AtEpicEnd

-----------------------------------------------------------------------------
(***************************************************************************)
(* Lemmas about the sync and the recorded facts.                           *)
(***************************************************************************)
LEMMA BackedGrows ==
    ASSUME NEW sp, NEW st, NEW art, Backed(sp, st, art), NEW u, NEW more,
           st.doneStories \subseteq u.doneStories,
           st.doneEpics \subseteq u.doneEpics,
           art.retro \subseteq more.retro
    PROVE  Backed(sp, u, more)
BY DEF Backed

LEMMA DoneStatus ==
    ASSUME NEW st \in State, PhaseToStatus(st.phase) = "done"
    PROVE  st.phase \in EndPhases
<1>1. PhaseToStatus(NoPhase) # "done"
  BY DEF PhaseToStatus, NoPhase
<1>. QED
  BY <1>1 DEF State, EndPhases, DonePhases

\* A sync of a state that holds no more than the disk keeps sprint-status
\* behind it.
LEMMA SyncedBacked ==
    ASSUME NEW st \in Position, StoryOver(st), SameDone(st, disk), TypeOK,
           Backed(sprint, disk, artifacts)
    PROVE  Backed(Synced(st, sprint, artifacts), disk, artifacts)
<1>. DEFINE stories == SyncedStories(st, sprint.story)
            epics == SyncedEpics(st, stories, sprint.epic)
            retros == SyncedRetros(st, artifacts, sprint.retro)
<1>1. ASSUME NEW s \in Story, stories[s] = "done" PROVE s \in disk.doneStories
  BY <1>1, DoneStatus DEF SyncedStories, StoryOver, SameDone, Backed, Position
<1>2. ASSUME NEW e \in Epic, epics[e] = "done" PROVE e \in disk.doneEpics
  <2>. HIDE DEF stories
  <2>. QED
    BY <1>2 DEF SyncedEpics, SameDone, Backed
<1>3. ASSUME NEW e \in Epic, retros[e] = "done" PROVE e \in artifacts.retro
  BY <1>3 DEF SyncedRetros, Backed
<1>4. /\ Synced(st, sprint, artifacts).story = stories
      /\ Synced(st, sprint, artifacts).epic = epics
      /\ Synced(st, sprint, artifacts).retro = retros
  BY DEF Synced
<1>. HIDE DEF stories, epics, retros
<1>. QED
  BY <1>1, <1>2, <1>3, <1>4 DEF Backed

LEMMA SyncKeepsBacked ==
    ASSUME TypeInv, SprintInv, pc \notin {"off", "load"}, SyncSprint(mem),
           NEW u, NEW more,
           disk.doneStories \subseteq u.doneStories,
           disk.doneEpics \subseteq u.doneEpics,
           artifacts.retro \subseteq more.retro
    PROVE  Backed(sprint', u, more)
<1>1. Backed(sprint', disk, artifacts)
  BY SyncedBacked DEF TypeInv, Placed, SprintInv, SyncSprint
<1>. QED
  BY <1>1, BackedGrows

LEMMA ReportsGrow ==
    ASSUME TypeOK, mem \in Position, NEW outcome, artifacts' \in Reports(outcome)
    PROVE  artifacts.retro \subseteq artifacts'.retro
BY DEF Reports, TypeOK, Artifacts

\* The phases the loop advances to are story phases, or teardown phases when
\* it is at one already.
LEMMA NextPhaseIn ==
    \A p : GetNextPhase(p) # NoPhase => GetNextPhase(p) \in PhasesOf(StoryPhases)
<1>. SUFFICES ASSUME NEW p, LaterPhases(p) # {}
              PROVE  StoryPhases[Min(LaterPhases(p))] \in PhasesOf(StoryPhases)
  BY DEF GetNextPhase
<1>1. LaterPhases(p) \subseteq DOMAIN StoryPhases
  BY DEF LaterPhases
<1>2. Min(LaterPhases(p)) \in DOMAIN StoryPhases
  BY <1>1, PhaseLists, MinProperty
<1>. QED
  BY <1>2 DEF PhasesOf

LEMMA NextTeardownPhaseFrom ==
    \A p : GetNextTeardownPhase(p) # NoPhase => p \in PhasesOf(EpicTeardown)
BY DEF GetNextTeardownPhase

LEMMA SetPhaseFields ==
    ASSUME NEW st \in Position, NEW p, p \notin EndPhases
    PROVE  /\ SameDone([st EXCEPT !.phase = p], st)
           /\ StoryOver([st EXCEPT !.phase = p])
           /\ CurrentStory([st EXCEPT !.phase = p]) = CurrentStory(st)
BY DEF Position, State, SameDone, StoryOver, CurrentStory

-----------------------------------------------------------------------------
(***************************************************************************)
(* Every action preserves the invariant.                                   *)
(***************************************************************************)
LEMMA StartKeepsSprintInv ==
    ASSUME ListsApart, TypeInv, SprintInv, Start
    PROVE  SprintInv'
<1>. USE DEF SprintInv, Goto, AtEpicEnd
<1>1. CASE FreshStart
  <2>1. /\ FirstPosition.doneStories = disk.doneStories
        /\ FirstPosition.doneEpics = disk.doneEpics
        /\ FirstPosition.phase = StoryPhases[1]
    BY DEF FirstPosition, TypeInv, TypeOK, State
  <2>2. StoryPhases[1] \notin EndPhases
    BY PhaseLists DEF ListsApart, StoryPhaseSet, PhasesOf
  <2>. QED
    BY <1>1, <2>1, <2>2, BackedGrows DEF FreshStart, Save, SameDone, StoryOver
<1>2. CASE Repair
  BY <1>2, SyncKeepsBacked DEF Repair, observer, SameDone, StoryOver
<1>3. CASE Resume
  BY <1>3 DEF Resume, durable, SameDone, StoryOver
<1>4. CASE RefuseResume
  BY <1>4 DEF RefuseResume, Exit, durable, StoryOver
<1>5. CASE SkipDoneEpic
  <2>. DEFINE st == CompleteEpic(mem)
              next == IncompleteEpics(st, sprint, artifacts)
  <2>1. pc = "validate" /\ mem \in Position /\ mem.epic \in mem.doneEpics
    BY <1>5, PositionFields
       DEF SkipDoneEpic, EpicIsDone, EpicDurablyDone, Backed, TypeInv, Placed, SameDone
  <2>2. st \in State /\ SameDone(st, mem) /\ st.phase = mem.phase
                     /\ CurrentStory(st) = CurrentStory(mem)
    BY <2>1 DEF CompleteEpic, SameDone, Position, State, CurrentStory
  <2>3. CASE next = {}
    BY <1>5, <2>1, <2>2, <2>3, BackedGrows DEF SkipDoneEpic, Exit, SameDone, StoryOver
  <2>4. CASE next # {}
    <3>1. mem' = [st EXCEPT !.epic = Min(next), !.story = 1, !.phase = "create_story"]
      BY <1>5, <2>4 DEF SkipDoneEpic
    <3>2. UNCHANGED <<disk, sprint, artifacts, pc>>
      BY <1>5, <2>4 DEF SkipDoneEpic
    <3>3. SameDone(mem', st) /\ mem'.phase = "create_story"
      BY <2>2, <3>1 DEF SameDone, State
    <3>. QED
      BY <2>1, <2>2, <3>2, <3>3 DEF SameDone, StoryOver, ListsApart, StoryPhaseSet
  <2>. QED
    BY <2>3, <2>4
<1>6. CASE SkipDoneStory
  <2>. DEFINE next == IncompleteStories(mem, sprint, artifacts)
  <2>1. pc = "validate" /\ mem \in Position /\ CurrentStory(mem) \in mem.doneStories
    BY <1>6, PositionFields
       DEF SkipDoneStory, StoryIsDone, StoryDurablyDone, Backed, TypeInv, Placed, SameDone
  <2>2. /\ mem' = [CompleteStory(mem) EXCEPT !.story = Min(next), !.phase = "create_story"]
        /\ UNCHANGED <<disk, sprint, artifacts, pc>>
    BY <1>6 DEF SkipDoneStory, durable
  <2>3. SameDone(mem', mem) /\ mem'.phase = "create_story"
    BY <2>1, <2>2 DEF CompleteStory, SameDone, Position, State
  <2>. QED
    BY <2>1, <2>2, <2>3 DEF SameDone, StoryOver, ListsApart, StoryPhaseSet
<1>7. CASE AcceptPosition
  BY <1>7, BackedGrows, PositionFields
     DEF AcceptPosition, Save, SameDone, StoryOver, TypeInv, Placed
<1>8. CASE Resync
  BY <1>8, SyncKeepsBacked DEF Resync, observer, SameDone, StoryOver
<1>. QED
  BY <1>1, <1>2, <1>3, <1>4, <1>5, <1>6, <1>7, <1>8 DEF Start

LEMMA SetupKeepsSprintInv ==
    ASSUME ListsApart, TypeInv, SprintInv, Setup
    PROVE  SprintInv'
<1>. USE DEF SprintInv, Goto, AtEpicEnd
<1>1. CASE EnterLoop
  BY <1>1 DEF EnterLoop, durable, SameDone, StoryOver
<1>2. CASE SetupPhase
  <2>1. pc = "setup" /\ mem \in Position /\ run.step \in DOMAIN EpicSetup
    BY <1>2 DEF SetupPhase, TypeInv, Placed, StepInRange
  <2>2. EpicSetup[run.step] \notin EndPhases
    BY <2>1 DEF ListsApart, StoryPhaseSet, PhasesOf
  <2>3. SameDone(mem', mem) /\ StoryOver(mem') /\ disk' = mem'
    BY <1>2, <2>1, <2>2, SetPhaseFields DEF SetupPhase, Save
  <2>. QED
    BY <1>2, <2>1, <2>3, BackedGrows DEF SetupPhase, SameDone
<1>3. CASE SetupSucceeds
  <2>1. CASE run.step < Len(EpicSetup)
    BY <1>3, <2>1 DEF SetupSucceeds, SameDone, StoryOver
  <2>2. CASE ~(run.step < Len(EpicSetup))
    <3>1. mem \in Position /\ pc = "setup_run"
      BY <1>3 DEF SetupSucceeds, TypeInv, Placed
    <3>2. StoryPhases[1] \notin EndPhases
      BY PhaseLists DEF ListsApart, StoryPhaseSet, PhasesOf
    <3>3. SameDone(mem', mem) /\ StoryOver(mem') /\ disk' = mem'
      BY <1>3, <2>2, <3>1, <3>2
         DEF SetupSucceeds, Save, SameDone, StoryOver, Position, State
    <3>. QED
      BY <1>3, <2>2, <3>1, <3>3, BackedGrows DEF SetupSucceeds, SameDone
  <2>. QED
    BY <2>1, <2>2
<1>4. CASE SetupFails
  BY <1>4, BackedGrows DEF SetupFails, Exit, SameDone, StoryOver
<1>5. CASE RestorePhase
  <2>1. mem \in Position /\ pc = "restore"
    BY <1>5 DEF RestorePhase, TypeInv, Placed
  <2>2. CASE UNCHANGED <<mem, disk>>
    BY <1>5, <2>2 DEF RestorePhase, SameDone, StoryOver
  <2>3. CASE run.saved \in PhasesOf(StoryPhases) /\ Save([mem EXCEPT !.phase = run.saved])
    <3>1. run.saved \notin EndPhases
      BY <2>3 DEF ListsApart, StoryPhaseSet
    <3>2. SameDone(mem', mem) /\ StoryOver(mem') /\ disk' = mem'
      BY <2>1, <2>3, <3>1, SetPhaseFields DEF Save
    <3>. QED
      BY <1>5, <2>1, <3>2, BackedGrows DEF RestorePhase, SameDone
  <2>. QED
    BY <1>5, <2>2, <2>3 DEF RestorePhase
<1>. QED
  BY <1>1, <1>2, <1>3, <1>4, <1>5 DEF Setup

LEMMA IterateKeepsSprintInv ==
    ASSUME ListsApart, TypeInv, SprintInv, Iterate
    PROVE  SprintInv'
<1>. USE DEF SprintInv, Goto, AtEpicEnd
<1>1. CASE BeginPhase
  BY <1>1, BackedGrows, PositionFields DEF BeginPhase, SameDone, StoryOver
<1>2. ASSUME NEW outcome \in Outcome, Execute(outcome) PROVE SprintInv'
  <2>1. artifacts.retro \subseteq artifacts'.retro
    BY <1>2, ReportsGrow DEF Execute, TypeInv, Placed
  <2>. QED
    BY <1>2, <2>1, BackedGrows DEF Execute, SameDone, StoryOver
<1>3. CASE StopRequested
  BY <1>3 DEF StopRequested, Exit, durable, StoryOver
<1>4. CASE PhaseFails
  BY <1>4, BackedGrows DEF PhaseFails, SameDone, StoryOver
<1>5. CASE Halt
  BY <1>5, SyncKeepsBacked DEF Halt, Exit, StoryOver
<1>6. CASE PhaseSucceeds
  BY <1>6, BackedGrows DEF PhaseSucceeds, SameDone, StoryOver
<1>7. CASE SyncPhase
  BY <1>7, SyncKeepsBacked DEF SyncPhase, SameDone, StoryOver
<1>. QED
  BY <1>1, <1>2, <1>3, <1>4, <1>5, <1>6, <1>7 DEF Iterate

\* Going on, or stopping, at a position whose stories are completed on disk.
LEMMA ContinueKeepsSprintInv ==
    ASSUME TypeInv, SprintInv, pc = "decide", NEW st \in Position,
           SameDone(st, mem), StoryOver(st),
           SaveAndContinue(st), UNCHANGED <<sprint, artifacts>>
    PROVE  SprintInv'
BY BackedGrows
   DEF SaveAndContinue, Save, Exit, SprintInv, AtEpicEnd, SameDone, StoryOver

LEMMA AdvanceKeepsSprintInv ==
    ASSUME ListsApart, TypeInv, SprintInv, Advance
    PROVE  SprintInv'
<1>1. ASSUME NEW p \in Phase, pc = "decide", AdvancePhase(p),
             StoryOver([mem EXCEPT !.phase = p]), UNCHANGED <<sprint, artifacts>>
      PROVE  SprintInv'
  <2>1. SameDone([mem EXCEPT !.phase = p], mem)
    BY <1>1 DEF SameDone, TypeInv, TypeOK, State
  <2>. QED
    BY <1>1, <2>1, BackedGrows
       DEF AdvancePhase, Exit, SprintInv, AtEpicEnd, SameDone, StoryOver
<1>2. CASE NextPhase
  <2>1. GetNextPhase(mem.phase) \in PhasesOf(StoryPhases)
    BY <1>2, NextPhaseIn DEF NextPhase
  <2>2. GetNextPhase(mem.phase) \notin EndPhases /\ GetNextPhase(mem.phase) \in Phase
    BY <2>1, PhaseLists DEF ListsApart, StoryPhaseSet, PhasesOf
  <2>. QED
    BY <1>1, <1>2, <2>2, SetPhaseFields DEF NextPhase, Ordinary, TypeInv, Placed
<1>3. CASE NextTeardownPhase
  <2>1. mem.phase \in EndPhases /\ mem \in Position /\ pc = "decide"
    BY <1>3, NextTeardownPhaseFrom
       DEF NextTeardownPhase, Ordinary, EndPhases, TypeInv, Placed
  <2>2. CurrentStory(mem) \in mem.doneStories
    BY <2>1 DEF SprintInv, StoryOver
  <2>3. GetNextTeardownPhase(mem.phase) \in Phase
    BY <1>3, NextTeardownPhaseType DEF NextTeardownPhase
  <2>4. StoryOver([mem EXCEPT !.phase = GetNextTeardownPhase(mem.phase)])
    BY <2>1, <2>2 DEF StoryOver, CurrentStory, Position, State
  <2>. QED
    BY <1>1, <1>3, <2>1, <2>3, <2>4 DEF NextTeardownPhase
<1>4. CASE CannotAdvance
  BY <1>4 DEF CannotAdvance, Exit, durable, SprintInv, AtEpicEnd, StoryOver
<1>. QED
  BY <1>2, <1>3, <1>4 DEF Advance

\* Completing the current story.
LEMMA CompleteStoryFields ==
    ASSUME NEW st \in Position
    PROVE  /\ st.doneStories \subseteq CompleteStory(st).doneStories
           /\ CompleteStory(st).doneEpics = st.doneEpics
           /\ CurrentStory(CompleteStory(st)) = CurrentStory(st)
           /\ CurrentStory(st) \in CompleteStory(st).doneStories
BY DEF CompleteStory, CurrentStory, Position, State

LEMMA FinishStoryKeepsSprintInv ==
    ASSUME ListsApart, TypeInv, SprintInv, FinishStory
    PROVE  SprintInv'
<1>. USE DEF SprintInv, Goto, AtEpicEnd
<1>. DEFINE c == CompleteStory(mem)
<1>1. pc = "decide" => mem \in Position
  BY DEF TypeInv, Placed
<1>2. CASE Rework
  <2>. DEFINE st == [mem EXCEPT !.phase = "dev_story", !.rework = @ + 1]
  <2>1. st \in Position
    <3>1. mem \in Position /\ mem.rework + 1 \in Nat
      BY <1>1, <1>2 DEF Rework, Position, State
    <3>. QED
      BY <3>1 DEF Position, State, CurrentStory, Phase
  <2>2. SameDone(st, mem) /\ StoryOver(st)
    BY <1>1, <1>2
       DEF Rework, SameDone, StoryOver, Position, State, ListsApart, StoryPhaseSet
  <2>. QED
    BY <1>2, <2>1, <2>2, ContinueKeepsSprintInv DEF Rework
<1>3. CASE RefuseUnresolved
  BY <1>3 DEF RefuseUnresolved, Exit, durable, StoryOver
<1>4. CASE AfterReview
  <2>1. GetNextPhase(mem.phase) \in PhasesOf(StoryPhases)
    BY <1>4, NextPhaseIn DEF AfterReview
  <2>2. GetNextPhase(mem.phase) \notin EndPhases /\ GetNextPhase(mem.phase) \in Phase
    BY <2>1, PhaseLists DEF ListsApart, StoryPhaseSet, PhasesOf
  <2>. QED
    BY <1>1, <1>4, <2>2, SetPhase, SetPhaseFields, ContinueKeepsSprintInv DEF AfterReview
<1>5. CASE HoldStory
  BY <1>1, <1>5, CompleteStoryFields, BackedGrows
     DEF HoldStory, Save, SameDone, StoryOver
<1>6. CASE NextStory
  <2>1. /\ disk' = AdvanceToNextStory(c) /\ mem' = disk'
        /\ mem \in Position /\ pc = "decide" /\ pc' = "story_prompt"
        /\ UNCHANGED <<sprint, artifacts>>
    BY <1>1, <1>6 DEF NextStory, HandleStoryCompletion, Save
  <2>2. SameDone(mem', c) /\ mem'.phase = "create_story"
    BY <2>1, CompleteStoryPosition DEF AdvanceToNextStory, SameDone, Position, State
  <2>3. StoryOver(mem')
    BY <2>2 DEF StoryOver, ListsApart, StoryPhaseSet
  <2>. QED
    BY <2>1, <2>2, <2>3, CompleteStoryFields, BackedGrows DEF SameDone
<1>7. CASE LastStory
  <2>1. /\ disk' = c /\ mem' = c
        /\ mem \in Position /\ pc = "decide" /\ pc' \notin {"off", "load"}
        /\ UNCHANGED <<sprint, artifacts>>
    BY <1>1, <1>7 DEF LastStory, HandleStoryCompletion, Save
  <2>. QED
    BY <2>1, CompleteStoryFields, BackedGrows DEF SameDone, StoryOver
<1>8. CASE QuitAtPrompt
  BY <1>8 DEF QuitAtPrompt, Exit, durable, StoryOver
<1>9. CASE BeginStory
  BY <1>9, SyncKeepsBacked DEF BeginStory, Exit, SameDone, StoryOver
<1>. QED
  BY <1>2, <1>3, <1>4, <1>5, <1>6, <1>7, <1>8, <1>9 DEF FinishStory

\* Completing the current epic.
LEMMA CompleteEpicFields ==
    ASSUME NEW st \in Position
    PROVE  /\ CompleteEpic(st).doneStories = st.doneStories
           /\ CompleteEpic(st).doneEpics = st.doneEpics \cup {st.epic}
           /\ CompleteEpic(st).phase = st.phase
           /\ CurrentStory(CompleteEpic(st)) = CurrentStory(st)
BY DEF CompleteEpic, CurrentStory, Position, State

LEMMA FinishEpicKeepsSprintInv ==
    ASSUME ListsApart, TypeInv, SprintInv, FinishEpic
    PROVE  SprintInv'
<1>. USE DEF SprintInv, Goto, AtEpicEnd
<1>1. pc \in {"stage", "teardown", "teardown_run", "epic_done", "decide"} => mem \in Position
  BY DEF TypeInv, Placed
<1>2. ASSUME NEW p, pc \in {"stage", "teardown"}, Save([mem EXCEPT !.phase = p]),
             pc' \in {"exit_sync", "teardown_run"}, UNCHANGED <<sprint, artifacts>>
      PROVE  SprintInv'
  <2>1. SameDone(mem', mem) /\ CurrentStory(mem') = CurrentStory(mem) /\ disk' = mem'
    BY <1>1, <1>2 DEF Save, SameDone, CurrentStory, Position, State
  <2>. QED
    BY <1>2, <2>1, BackedGrows DEF SameDone, StoryOver
<1>3. CASE StageTeardown
  BY <1>2, <1>3 DEF StageTeardown, SameDone, StoryOver
<1>4. CASE TeardownPhase
  BY <1>2, <1>4 DEF TeardownPhase
<1>5. CASE TeardownSucceeds
  <2>1. artifacts.retro \subseteq artifacts'.retro
    BY <1>1, <1>5, ReportsGrow DEF TeardownSucceeds, TypeInv
  <2>. QED
    BY <1>5, <2>1, BackedGrows DEF TeardownSucceeds, SameDone, StoryOver
<1>6. CASE TeardownFails
  <2>1. artifacts.retro \subseteq artifacts'.retro
    BY <1>1, <1>6, ReportsGrow DEF TeardownFails, TypeInv
  <2>. QED
    BY <1>6, <2>1, BackedGrows DEF TeardownFails, SameDone, StoryOver
<1>7. CASE SyncTeardown
  BY <1>7, SyncKeepsBacked DEF SyncTeardown, SameDone, StoryOver
<1>8. CASE CompleteAndStop
  <2>1. pc \in {"epic_done", "decide"}
    BY <1>8 DEF CompleteAndStop, EndOfEpic, EndsEpicInLoop
  <2>. QED
    BY <1>1, <1>8, <2>1, CompleteEpicFields, BackedGrows
       DEF CompleteAndStop, Save, SameDone, StoryOver
<1>9. CASE NextEpic
  <2>. DEFINE st == CompleteEpic(mem)
  <2>1. pc \in {"epic_done", "decide"}
    BY <1>9 DEF NextEpic, EndOfEpic, EndsEpicInLoop
  <2>2. CASE NextEpicExhausted(st, run.active)
    BY <1>9, <2>2 DEF NextEpic, Exit, StoryOver
  <2>3. CASE ~NextEpicExhausted(st, run.active)
    <3>1. /\ disk' = AdvanceToNextEpic(st, run.active) /\ mem' = disk'
          /\ pc' \in {"epic_prompt", "epic_sync"}
          /\ UNCHANGED <<sprint, artifacts>>
      BY <1>9, <2>3 DEF NextEpic, HandleEpicCompletion, Save
    <3>2. SameDone(mem', st) /\ mem'.phase = "create_story"
      BY <1>1, <2>1, <3>1, CompleteEpicPosition
         DEF AdvanceToNextEpic, SameDone, Position, State
    <3>3. StoryOver(mem')
      BY <3>2 DEF StoryOver, ListsApart, StoryPhaseSet
    <3>. QED
      BY <1>1, <2>1, <3>1, <3>2, <3>3, CompleteEpicFields, BackedGrows DEF SameDone
  <2>. QED
    BY <2>2, <2>3
<1>10. CASE BeginEpic
  BY <1>10 DEF BeginEpic, durable, SameDone, StoryOver
<1>11. CASE SyncEpic
  BY <1>11, SyncKeepsBacked DEF SyncEpic, SameDone, StoryOver
<1>12. CASE ExitSync
  BY <1>12, SyncKeepsBacked DEF ExitSync, Exit, StoryOver
<1>. QED
  BY <1>3, <1>4, <1>5, <1>6, <1>7, <1>8, <1>9, <1>10, <1>11, <1>12 DEF FinishEpic

LEMMA EnvironmentKeepsSprintInv ==
    ASSUME ManualEdits = FALSE, TypeInv, SprintInv, Environment
    PROVE  SprintInv'
<1>. USE DEF SprintInv, Goto, AtEpicEnd, durable, process
<1>1. CASE StartRun
  BY <1>1 DEF StartRun, StoryOver
<1>2. CASE NoEpics
  BY <1>2 DEF NoEpics, SameDone, StoryOver
<1>3. CASE Kill
  BY <1>3 DEF Kill, Exit, StoryOver
<1>4. CASE Cancel
  BY <1>4 DEF Cancel, SameDone, StoryOver
<1>5. CASE SprintSync
  <2>1. Backed(Synced(disk, sprint, artifacts), disk, artifacts)
    BY <1>5, SyncedBacked DEF SprintSync, TypeInv, Placed, SameDone
  <2>. QED
    BY <1>5, <2>1 DEF SprintSync, StoryOver
<1>6. CASE EditSprint
  BY <1>6 DEF EditSprint
<1>. QED
  BY <1>1, <1>2, <1>3, <1>4, <1>5, <1>6 DEF Environment

LEMMA StutterKeepsSprintInv == SprintInv /\ UNCHANGED vars => SprintInv'
BY DEF SprintInv, AtEpicEnd, vars, SameDone, StoryOver, CurrentStory, Backed

-----------------------------------------------------------------------------
LEMMA SprintInvariance ==
    ASSUME ListsApart, ManualEdits = FALSE
    PROVE  Spec => [](TypeInv /\ SprintInv)
<1>1. TypeInv /\ SprintInv /\ [Next]_vars => SprintInv'
  BY StartKeepsSprintInv, SetupKeepsSprintInv, IterateKeepsSprintInv,
     FinishStoryKeepsSprintInv, FinishEpicKeepsSprintInv, AdvanceKeepsSprintInv,
     EnvironmentKeepsSprintInv, StutterKeepsSprintInv
     DEF Next, Process
<1>. QED
  BY SprintInvInit, <1>1, TypeInvariance, PTL DEF Spec

\* Whatever fails, is killed, cancelled, quit, held or synced in between,
\* sprint-status shows nothing done that state.yaml does not hold completed,
\* and no retrospective done that left no report.
THEOREM SprintStaysBehind ==
    ASSUME ListsApart, ManualEdits = FALSE
    PROVE  Spec => []SprintNeverAhead
<1>1. SprintInv => SprintNeverAhead
  BY DEF SprintInv, Backed, SprintNeverAhead
<1>. QED
  BY <1>1, SprintInvariance, PTL

-----------------------------------------------------------------------------
(***************************************************************************)
(* The inductive invariant.  Everything before the position is completed   *)
(* and nothing behind it is; the end phases run in an epic whose stories   *)
(* are all completed; a story the process takes for done is completed.     *)
(***************************************************************************)
NotPast(st, u) == st.epic < u.epic \/ (st.epic = u.epic /\ st.story <= u.story)

NothingAhead(st) ==
    /\ \A s \in st.doneStories :
            s[1] < st.epic \/ (s[1] = st.epic /\ s[2] <= st.story)
    /\ \A e \in st.doneEpics : e <= st.epic

AllBehind(st) ==
    /\ \A e \in Epic : e < st.epic => e \in st.doneEpics
    /\ \A i \in 1..StoryCount[st.epic] :
            i < st.story => <<st.epic, i>> \in st.doneStories

StoriesOver(st) == StoriesOf(st.epic) \subseteq st.doneStories

InPlace(st) ==
    /\ NothingAhead(st)
    /\ AllBehind(st)
    /\ st.phase \in EndPhases => StoriesOver(st)

OrderInv ==
    /\ disk.epic # 0 => InPlace(disk)
    /\ disk.epic = 0 => disk.doneStories = {} /\ disk.doneEpics = {}
    /\ pc \notin {"off", "load"} => InPlace(mem) /\ NotPast(disk, mem)
    /\ pc # "off" => Story \ run.active \subseteq disk.doneStories
    /\ AtEpicEnd => StoriesOver(mem)

LEMMA OrderInvInit == Init => OrderInv
BY DEF Init, OrderInv, EmptyState, AtEpicEnd

\* What a step does to the recorded work and to the recorded position.
DeliveryStep == [Delivery!Next]_Delivery!vars

Forward == disk.epic # 0 => NotPast(disk, disk')

-----------------------------------------------------------------------------
(***************************************************************************)
(* The transitions keep the position in place.                             *)
(***************************************************************************)
SamePlace(st, u) == st.epic = u.epic /\ st.story = u.story /\ SameDone(st, u)

LEMMA SamePlaceInPlace ==
    ASSUME NEW st, NEW u, InPlace(st), SamePlace(st, u),
           \/ u.phase \notin EndPhases
           \/ u.phase = st.phase
           \/ StoriesOver(st)
    PROVE  InPlace(u)
BY DEF InPlace, SamePlace, SameDone, NothingAhead, AllBehind, StoriesOver

LEMMA SetPhaseSamePlace ==
    ASSUME NEW st \in Position, NEW p
    PROVE  /\ SamePlace(st, [st EXCEPT !.phase = p])
           /\ [st EXCEPT !.phase = p].phase = p
BY DEF SamePlace, SameDone, Position, State

LEMMA NotPastReflexive == \A st \in Position : NotPast(st, st)
BY PositionFields DEF NotPast, Position, State

LEMMA CompleteStoryInPlace ==
    ASSUME NEW st \in Position, InPlace(st)
    PROVE  /\ InPlace(CompleteStory(st))
           /\ CompleteStory(st).epic = st.epic
           /\ CompleteStory(st).story = st.story
           /\ CompleteStory(st).doneStories = st.doneStories \cup {<<st.epic, st.story>>}
           /\ CompleteStory(st).doneEpics = st.doneEpics
           /\ CompleteStory(st).phase = st.phase
<1>. DEFINE c == CompleteStory(st)
<1>1. /\ c.epic = st.epic /\ c.story = st.story /\ c.doneEpics = st.doneEpics
      /\ c.doneStories = st.doneStories \cup {<<st.epic, st.story>>}
      /\ c.phase = st.phase
  BY DEF CompleteStory, CurrentStory, Position, State
<1>2. st.story <= st.story
  BY PositionFields DEF Position, State
<1>. HIDE DEF c
<1>3. NothingAhead(c)
  BY <1>1, <1>2 DEF InPlace, NothingAhead
<1>4. AllBehind(c) /\ (c.phase \in EndPhases => StoriesOver(c))
  BY <1>1 DEF InPlace, AllBehind, StoriesOver
<1>. QED
  BY <1>1, <1>3, <1>4 DEF InPlace, c

\* No remaining story: the stories of the epic are over.
LEMMA LastStoryOver ==
    ASSUME NEW st \in Position, InPlace(st), IsLastStoryInEpic(CompleteStory(st))
    PROVE  StoriesOver(CompleteStory(st))
<1>. DEFINE c == CompleteStory(st)
<1>1. \A i \in 1..StoryCount[st.epic] : i > st.story => <<st.epic, i>> \in c.doneStories
  BY CompleteStoryInPlace DEF IsLastStoryInEpic, RemainingStories
<1>2. \A i \in 1..StoryCount[st.epic] : i < st.story => <<st.epic, i>> \in c.doneStories
  BY CompleteStoryInPlace DEF InPlace, AllBehind
<1>3. \A i \in 1..StoryCount[st.epic] : i = st.story => <<st.epic, i>> \in c.doneStories
  BY CompleteStoryInPlace
<1>4. st.story \in Nat /\ StoryCount[st.epic] \in Nat /\ c.epic = st.epic
  BY CompleteStoryInPlace, PositionFields, LifecycleAssumption DEF Epic
<1>. HIDE DEF c
<1>5. \A i \in 1..StoryCount[st.epic] : <<st.epic, i>> \in c.doneStories
  BY <1>1, <1>2, <1>3, <1>4
<1>. QED
  BY <1>4, <1>5 DEF StoriesOver, StoriesOf, c

\* Moving to a later story of the epic over completed ones only.
LEMMA LaterStoryInPlace ==
    ASSUME NEW st \in Position, InPlace(st), NEW u, NEW i \in 1..StoryCount[st.epic],
           st.story < i, u.epic = st.epic, u.story = i, u.phase \notin EndPhases,
           SameDone(u, st), CurrentStory(st) \in st.doneStories,
           \A j \in 1..StoryCount[st.epic] :
                st.story < j /\ j < i => <<st.epic, j>> \in st.doneStories
    PROVE  InPlace(u) /\ NotPast(st, u)
<1>1. /\ st.story \in Nat /\ i \in Nat /\ st.epic \in Nat
      /\ \A j \in 1..StoryCount[st.epic] : j \in Nat
  BY PositionFields, LifecycleAssumption DEF Epic
<1>2. NothingAhead(u)
  <2>1. ASSUME NEW s \in u.doneStories
        PROVE  s[1] < u.epic \/ (s[1] = u.epic /\ s[2] <= u.story)
    <3>1. s \in Story /\ s \in st.doneStories
      BY <2>1 DEF SameDone, Position, State
    <3>2. s[2] \in Nat
      BY <3>1, StoryForm, LifecycleAssumption DEF Epic
    <3>. QED
      BY <1>1, <3>1, <3>2 DEF InPlace, NothingAhead
  <2>. QED
    BY <2>1 DEF NothingAhead, InPlace, SameDone
<1>3. AllBehind(u)
  <2>1. ASSUME NEW j \in 1..StoryCount[st.epic], j < i
        PROVE  <<st.epic, j>> \in st.doneStories
    <3>1. CASE j < st.story
      BY <2>1, <3>1 DEF InPlace, AllBehind
    <3>2. CASE j = st.story
      BY <3>2 DEF CurrentStory
    <3>3. CASE st.story < j
      BY <2>1, <3>3
    <3>. QED
      BY <1>1, <3>1, <3>2, <3>3
  <2>. QED
    BY <2>1 DEF AllBehind, InPlace, SameDone
<1>. QED
  BY <1>1, <1>2, <1>3 DEF InPlace, NotPast

LEMMA NextStoryInPlace ==
    ASSUME ListsApart, NEW st \in Position, InPlace(st),
           ~IsLastStoryInEpic(CompleteStory(st))
    PROVE  LET u == HandleStoryCompletion(st)
           IN  /\ InPlace(u)
               /\ NotPast(st, u)
               /\ SameDone(u, CompleteStory(st))
<1>. DEFINE c == CompleteStory(st)
            u == HandleStoryCompletion(st)
            next == Min(RemainingStories(c))
<1>1. c \in Position /\ InPlace(c)
  BY CompleteStoryPosition, CompleteStoryInPlace
<1>2. c.epic = st.epic /\ c.story = st.story /\ CurrentStory(c) \in c.doneStories
  BY CompleteStoryInPlace DEF CurrentStory
<1>3. u = [c EXCEPT !.story = next, !.phase = "create_story", !.rework = 0]
  BY DEF HandleStoryCompletion, AdvanceToNextStory
<1>. HIDE DEF c
<1>4. u.epic = c.epic /\ u.story = next /\ SameDone(u, c) /\ u.phase = "create_story"
  BY <1>1, <1>3 DEF SameDone, Position, State
<1>5. next \in RemainingStories(c) /\ \A i \in RemainingStories(c) : next <= i
  BY <1>1, RemainingLeast DEF IsLastStoryInEpic, c
<1>6. next \in 1..StoryCount[c.epic] /\ c.story < next
  BY <1>1, <1>5, PositionFields, LifecycleAssumption DEF RemainingStories, Epic
<1>7. ASSUME NEW j \in 1..StoryCount[c.epic], c.story < j, j < next
      PROVE  <<c.epic, j>> \in c.doneStories
  <2>1. StoryCount[c.epic] \in Nat /\ c.story \in Nat
    BY <1>1, PositionFields, LifecycleAssumption DEF Epic
  <2>. QED
    BY <1>5, <1>6, <1>7, <2>1 DEF RemainingStories
<1>8. u.phase \notin EndPhases
  BY <1>4 DEF ListsApart, StoryPhaseSet
<1>. HIDE DEF next, u
<1>9. InPlace(u) /\ NotPast(c, u)
  BY <1>1, <1>2, <1>4, <1>6, <1>7, <1>8, LaterStoryInPlace
<1>. QED
  BY <1>2, <1>4, <1>9 DEF NotPast, c, u

\* Completing the epic, and moving to a later one whose predecessors are all
\* completed.
LEMMA CompleteEpicInPlace ==
    ASSUME NEW st \in Position, InPlace(st)
    PROVE  /\ InPlace(CompleteEpic(st))
           /\ CompleteEpic(st).epic = st.epic
           /\ CompleteEpic(st).story = st.story
           /\ CompleteEpic(st).doneStories = st.doneStories
           /\ CompleteEpic(st).doneEpics = st.doneEpics \cup {st.epic}
           /\ CompleteEpic(st).phase = st.phase
<1>. DEFINE c == CompleteEpic(st)
<1>1. /\ c.epic = st.epic /\ c.story = st.story /\ c.doneStories = st.doneStories
      /\ c.doneEpics = st.doneEpics \cup {st.epic} /\ c.phase = st.phase
  BY DEF CompleteEpic, Position, State
<1>2. st.epic <= st.epic
  BY PositionFields DEF Epic
<1>. HIDE DEF c
<1>3. NothingAhead(c)
  BY <1>1, <1>2 DEF InPlace, NothingAhead
<1>4. AllBehind(c) /\ (c.phase \in EndPhases => StoriesOver(c))
  BY <1>1 DEF InPlace, AllBehind, StoriesOver
<1>. QED
  BY <1>1, <1>3, <1>4 DEF InPlace, c

LEMMA LaterEpicInPlace ==
    ASSUME NEW st \in Position, InPlace(st), NEW u, NEW e \in Epic, NEW i \in Nat,
           st.epic < e, u.epic = e, u.story = i, u.phase \notin EndPhases,
           SameDone(u, st),
           \A f \in Epic : st.epic <= f /\ f < e => f \in st.doneEpics,
           \A j \in 1..StoryCount[e] : j < i => <<e, j>> \in st.doneStories
    PROVE  InPlace(u) /\ NotPast(st, u)
<1>1. st.epic \in Nat /\ e \in Nat /\ Epic \subseteq Nat
  BY PositionFields DEF Epic
<1>2. NothingAhead(u)
  <2>1. ASSUME NEW s \in u.doneStories PROVE s[1] < u.epic
    <3>1. s \in Story /\ s \in st.doneStories
      BY <2>1 DEF SameDone, Position, State
    <3>2. s[1] \in Nat
      BY <1>1, <3>1, StoryForm
    <3>. QED
      BY <1>1, <3>1, <3>2 DEF InPlace, NothingAhead
  <2>2. ASSUME NEW f \in u.doneEpics PROVE f <= u.epic
    <3>1. f \in Epic /\ f <= st.epic
      BY <2>2 DEF SameDone, Position, State, InPlace, NothingAhead
    <3>. QED
      BY <1>1, <3>1
  <2>. QED
    BY <2>1, <2>2 DEF NothingAhead
<1>3. AllBehind(u)
  <2>1. ASSUME NEW f \in Epic, f < e PROVE f \in st.doneEpics
    <3>1. CASE f < st.epic
      BY <3>1 DEF InPlace, AllBehind
    <3>2. CASE st.epic <= f
      BY <2>1, <3>2
    <3>. QED
      BY <1>1, <3>1, <3>2
  <2>. QED
    BY <2>1 DEF AllBehind, SameDone
<1>. QED
  BY <1>1, <1>2, <1>3 DEF InPlace, NotPast

\* The epic the loop turns to is the next one, at its first story: the active
\* stories are all those not completed.
LEMMA NextEpicInPlace ==
    ASSUME ListsApart, NEW st \in Position, InPlace(st), NEW active \in SUBSET Story,
           Story \ active \subseteq st.doneStories,
           ~NoNextEpic(CompleteEpic(st), active),
           ~NextEpicExhausted(CompleteEpic(st), active)
    PROVE  LET u == HandleEpicCompletion(st, active)
           IN  InPlace(u) /\ NotPast(st, u) /\ SameDone(u, CompleteEpic(st))
<1>. DEFINE c == CompleteEpic(st)
            next == Min(NextEpics(c, active))
            open == OpenStories(c, active, next)
            u == HandleEpicCompletion(st, active)
<1>1. c \in Position /\ InPlace(c) /\ c.epic = st.epic /\ c.story = st.story
                     /\ c.doneStories = st.doneStories
                     /\ c.doneEpics = st.doneEpics \cup {st.epic}
  BY CompleteEpicPosition, CompleteEpicInPlace
<1>. HIDE DEF c
<1>2. u = [c EXCEPT !.epic = next, !.story = Min(open), !.phase = "create_story",
                    !.setupDone = FALSE, !.rework = 0]
  BY DEF HandleEpicCompletion, AdvanceToNextEpic, c
<1>3. u.epic = next /\ u.story = Min(open) /\ u.phase = "create_story" /\ SameDone(u, c)
  BY <1>1, <1>2 DEF SameDone, Position, State
<1>4. ActiveEpics(active) \subseteq Epic /\ Epic \subseteq Nat
  BY StoryForm DEF ActiveEpics, Epic
<1>5. NextEpics(c, active) \subseteq Nat /\ NextEpics(c, active) # {}
  BY <1>4 DEF NextEpics, NoNextEpic, c
<1>6. next \in NextEpics(c, active) /\ \A e \in NextEpics(c, active) : next <= e
  BY <1>5, MinProperty
<1>7. open \subseteq Nat /\ open # {}
  BY DEF OpenStories, NextEpicExhausted, c
<1>8. Min(open) \in open /\ \A i \in open : Min(open) <= i
  <2>. HIDE DEF open
  <2>. QED
    BY <1>7, MinProperty
<1>9. next \in Epic /\ next \notin c.doneEpics
  BY <1>4, <1>6 DEF NextEpics
<1>10. c.epic < next
  <2>1. c.epic \in Nat /\ next \in Nat /\ next # c.epic
    BY <1>1, <1>4, <1>9, PositionFields
  <2>2. ~(next < c.epic)
    BY <1>1, <1>9 DEF InPlace, AllBehind
  <2>. QED
    BY <2>1, <2>2
<1>11. ASSUME NEW f \in Epic, c.epic <= f, f < next PROVE f \in c.doneEpics
  <2>. SUFFICES ASSUME f \notin c.doneEpics PROVE FALSE
    OBVIOUS
  <2>1. f \in Nat /\ c.epic \in Nat /\ f # c.epic
    BY <1>1, <1>4, PositionFields
  <2>2. c.epic < f
    BY <1>11, <2>1
  <2>3. f \notin NextEpics(c, active)
    <3>1. next \in Nat
      BY <1>4, <1>9
    <3>2. ASSUME f \in NextEpics(c, active) PROVE next <= f
      BY <1>6, <3>2
    <3>. HIDE DEF next
    <3>. QED
      BY <1>11, <2>1, <3>1, <3>2
  <2>4. f \notin ActiveEpics(active)
    BY <2>2, <2>3 DEF NextEpics
  <2>5. <<f, 1>> \in Story /\ <<f, 1>> \notin active
    BY <2>4, FirstStory DEF ActiveEpics
  <2>6. <<f, 1>> \in c.doneStories
    BY <1>1, <2>5
  <2>. QED
    BY <1>1, <2>1, <2>2, <2>6 DEF InPlace, NothingAhead
<1>12. ASSUME NEW j \in 1..StoryCount[next], j < Min(open)
       PROVE  <<next, j>> \in c.doneStories
  <2>1. StoryCount[next] \in Nat
    BY <1>9, LifecycleAssumption DEF Epic
  <2>2. <<next, j>> \in Story /\ j \in Nat /\ Min(open) \in Nat
    BY <1>7, <1>8, <1>9, <2>1, StoryElements
  <2>3. j \notin open
    BY <1>8, <1>12, <2>2
  <2>. QED
    BY <1>1, <2>2, <2>3 DEF OpenStories
<1>13. u.phase \notin EndPhases /\ Min(open) \in Nat
  BY <1>3, <1>7, <1>8 DEF ListsApart, StoryPhaseSet
<1>. HIDE DEF next, open, u
<1>14. InPlace(u) /\ NotPast(c, u)
  BY <1>1, <1>3, <1>9, <1>10, <1>11, <1>12, <1>13, LaterEpicInPlace
<1>. QED
  BY <1>1, <1>3, <1>14 DEF NotPast, c, u

-----------------------------------------------------------------------------
(***************************************************************************)
(* The steps of Project that the completions are.                          *)
(***************************************************************************)
LEMMA QuietStep ==
    ASSUME SameDone(disk', disk)
    PROVE  DeliveryStep
BY DEF DeliveryStep, Delivery!vars, SameDone

LEMMA DeliverStep ==
    ASSUME mem \in Position, InPlace(mem), SameDone(mem, disk),
           disk'.doneStories = mem.doneStories \cup {<<mem.epic, mem.story>>},
           disk'.doneEpics = mem.doneEpics
    PROVE  DeliveryStep
<1>1. mem.epic \in Epic /\ mem.story \in 1..StoryCount[mem.epic]
  BY PositionFields
<1>2. CASE <<mem.epic, mem.story>> \in mem.doneStories
  <2>1. SameDone(disk', disk)
    BY <1>2 DEF SameDone
  <2>. QED
    BY <2>1, QuietStep
<1>3. CASE <<mem.epic, mem.story>> \notin mem.doneStories
  <2>1. Delivery!Deliver(mem.epic, mem.story)
    BY <1>1, <1>3
       DEF Delivery!Deliver, Delivery!EarlierEpicsClosed, Delivery!Epic, Epic,
           SameDone, InPlace, AllBehind
  <2>2. mem.epic \in Delivery!Epic
    BY <1>1 DEF Delivery!Epic, Epic
  <2>. QED
    BY <1>1, <2>1, <2>2 DEF DeliveryStep, Delivery!Next
<1>. QED
  BY <1>2, <1>3

LEMMA CloseStep ==
    ASSUME mem \in Position, InPlace(mem), SameDone(mem, disk), StoriesOver(mem),
           disk'.doneStories = mem.doneStories,
           disk'.doneEpics = mem.doneEpics \cup {mem.epic}
    PROVE  DeliveryStep
<1>1. mem.epic \in Epic
  BY PositionFields
<1>2. CASE mem.epic \in mem.doneEpics
  <2>1. SameDone(disk', disk)
    BY <1>2 DEF SameDone
  <2>. QED
    BY <2>1, QuietStep
<1>3. CASE mem.epic \notin mem.doneEpics
  <2>1. Delivery!Close(mem.epic)
    BY <1>1, <1>3
       DEF Delivery!Close, Delivery!EarlierEpicsClosed, Delivery!Epic, Epic,
           Delivery!StoriesOf, StoriesOf, StoriesOver, SameDone, InPlace, AllBehind
  <2>2. mem.epic \in Delivery!Epic
    BY <1>1 DEF Delivery!Epic, Epic
  <2>. QED
    BY <2>1, <2>2 DEF DeliveryStep, Delivery!Next
<1>. QED
  BY <1>2, <1>3

\* Steps that leave state.yaml alone, or save the State object as it is.
LEMMA SameDiskStep ==
    ASSUME TypeInv, disk' = disk
    PROVE  DeliveryStep /\ Forward
BY QuietStep, NotPastReflexive DEF SameDone, Forward, TypeInv, Placed

LEMMA SaveStep ==
    ASSUME TypeInv, SprintInv, OrderInv, pc \notin {"off", "load"}, disk' = mem
    PROVE  DeliveryStep /\ Forward
BY QuietStep DEF SameDone, Forward, SprintInv, OrderInv

\* Steps that save a state further on.
LEMMA ForwardStep ==
    ASSUME TypeInv, OrderInv, pc \notin {"off", "load"}, NotPast(mem, disk'),
           disk'.epic \in Nat, disk'.story \in Nat
    PROVE  Forward
<1>1. /\ mem.epic \in Nat /\ mem.story \in Nat /\ disk.epic \in Nat /\ disk.story \in Nat
      /\ NotPast(disk, mem)
  BY PositionFields DEF TypeInv, TypeOK, State, Epic, OrderInv
<1>. QED
  BY <1>1 DEF Forward, NotPast

Steps == OrderInv' /\ DeliveryStep /\ Forward

-----------------------------------------------------------------------------
(***************************************************************************)
(* Every action preserves the invariant and is a step of Project or a      *)
(* stutter.                                                                *)
(***************************************************************************)
LEMMA FirstPositionInPlace ==
    ASSUME ListsApart, TypeInv, OrderInv, pc = "load", disk.epic = 0
    PROVE  InPlace(FirstPosition) /\ SameDone(FirstPosition, disk)
<1>. DEFINE e == Min(ActiveEpics(run.active))
            open == OpenStories(EmptyState, run.active, e)
<1>1. FirstPosition = [disk EXCEPT !.epic = e, !.story = Min(open), !.phase = StoryPhases[1]]
  BY DEF FirstPosition
<1>2. /\ FirstPosition.epic = e /\ FirstPosition.story = Min(open)
      /\ FirstPosition.phase = StoryPhases[1] /\ SameDone(FirstPosition, disk)
  BY <1>1 DEF TypeInv, TypeOK, State, SameDone
<1>3. disk.doneStories = {} /\ disk.doneEpics = {} /\ Story \subseteq run.active
  BY DEF OrderInv
<1>4. ActiveEpics(run.active) = Epic
  <2>1. run.active \subseteq Story
    BY DEF TypeInv, TypeOK, Run
  <2>2. \A s \in run.active : s[1] \in Epic
    BY <2>1, StoryForm
  <2>3. ASSUME NEW f \in Epic PROVE \E s \in run.active : s[1] = f
    <3>1. <<f, 1>> \in run.active
      BY <1>3, FirstStory
    <3>. QED
      BY <3>1
  <2>. QED
    BY <2>2, <2>3 DEF ActiveEpics
<1>5. e \in Epic /\ \A f \in Epic : e <= f
  <2>1. Epic \subseteq Nat /\ Epic # {}
    BY LifecycleAssumption DEF Epic
  <2>. QED
    BY <1>4, <2>1, MinProperty
<1>6. StoryCount[e] \in Nat
  BY <1>5, LifecycleAssumption DEF Epic
<1>7. open = 1..StoryCount[e]
  BY <1>3, <1>5, StoryElements DEF OpenStories, EmptyState
<1>8. Min(open) \in Nat /\ \A i \in 1..StoryCount[e] : Min(open) <= i
  <2>1. 1 \in 1..StoryCount[e]
    BY <1>5, LifecycleAssumption DEF Epic
  <2>2. open \subseteq Nat /\ open # {}
    BY <1>6, <1>7, <2>1
  <2>3. Min(open) \in open /\ \A i \in open : Min(open) <= i
    <3>. HIDE DEF open
    <3>. QED
      BY <2>2, MinProperty
  <2>. QED
    BY <1>7, <2>2, <2>3
<1>9. StoryPhases[1] \notin EndPhases
  BY PhaseLists DEF ListsApart, StoryPhaseSet, PhasesOf
<1>10. \A f \in Epic : ~(f < e)
  BY <1>5 DEF Epic
<1>11. \A i \in 1..StoryCount[e] : ~(i < Min(open))
  <2>. HIDE DEF open
  <2>. QED
    BY <1>6, <1>8
<1>. HIDE DEF e, open
<1>. QED
  BY <1>2, <1>3, <1>9, <1>10, <1>11 DEF InPlace, NothingAhead, AllBehind, SameDone

LEMMA SkipDoneEpicSteps ==
    ASSUME ListsApart, TypeInv, SprintInv, OrderInv, SkipDoneEpic
    PROVE  Steps
<1>. DEFINE st == CompleteEpic(mem)
            next == IncompleteEpics(st, sprint, artifacts)
<1>1. /\ pc = "validate" /\ mem \in Position /\ disk \in Position
      /\ InPlace(mem) /\ SameDone(mem, disk) /\ NotPast(disk, mem)
      /\ mem.epic \in mem.doneEpics
  BY PositionFields
     DEF SkipDoneEpic, EpicIsDone, EpicDurablyDone, Backed, TypeInv, Placed, SameDone,
         SprintInv, OrderInv
<1>2. InPlace(st) /\ SamePlace(mem, st) /\ st \in Position
  BY <1>1, CompleteEpicInPlace, CompleteEpicPosition DEF SamePlace, SameDone
<1>3. NotPast(disk, st)
  BY <1>1, <1>2 DEF NotPast, SamePlace
<1>4. CASE next = {}
  <2>1. /\ disk' \in {st, disk} /\ pc' = "off"
    BY <1>4 DEF SkipDoneEpic, Exit
  <2>2. SameDone(disk', disk) /\ InPlace(disk') /\ disk' \in Position
    BY <1>1, <1>2, <2>1, PositionFields DEF SameDone, SamePlace, OrderInv
  <2>3. Forward
    BY <1>1, <1>3, <2>1, NotPastReflexive DEF Forward
  <2>. QED
    BY <2>1, <2>2, <2>3, QuietStep, PositionFields DEF Steps, OrderInv, AtEpicEnd
<1>5. CASE next # {}
  <2>. DEFINE e == Min(next)
  <2>1. /\ mem' = [st EXCEPT !.epic = e, !.story = 1, !.phase = "create_story"]
        /\ UNCHANGED <<disk, sprint, artifacts, pc>> /\ run'.active = run.active
    BY <1>5 DEF SkipDoneEpic, TypeInv, TypeOK, Run
  <2>2. mem'.epic = e /\ mem'.story = 1 /\ mem'.phase = "create_story" /\ SameDone(mem', st)
    BY <1>2, <2>1 DEF SameDone, Position, State
  <2>3. next \subseteq Nat
    BY DEF IncompleteEpics, Epic
  <2>4. e \in next /\ \A f \in next : e <= f
    <3>. HIDE DEF next
    <3>. QED
      BY <1>5, <2>3, MinProperty
  <2>5. e \in Epic /\ st.epic < e
    BY <2>4 DEF IncompleteEpics
  <2>6. ASSUME NEW f \in Epic, st.epic <= f, f < e PROVE f \in st.doneEpics
    <3>1. f \in Nat /\ e \in Nat /\ st.epic \in Nat
      BY <1>2, <2>5, PositionFields DEF Epic
    <3>2. CASE f = st.epic
      BY <1>1, <1>2, <3>2 DEF SamePlace, SameDone
    <3>3. CASE st.epic < f
      <4>1. f \notin next
        <5>. HIDE DEF next, e
        <5>. QED
          BY <2>4, <2>6, <3>1
      <4>2. f \in st.doneEpics \/ EpicDurablyDone(f, sprint, artifacts)
        BY <3>3, <4>1 DEF IncompleteEpics
      <4>3. EpicDurablyDone(f, sprint, artifacts) => f \in disk.doneEpics
        BY DEF EpicDurablyDone, SprintInv, Backed
      <4>. QED
        BY <1>1, <1>2, <4>2, <4>3 DEF SamePlace, SameDone
    <3>. QED
      BY <2>6, <3>1, <3>2, <3>3
  <2>7. \A j \in 1..StoryCount[e] : ~(j < 1)
    BY <2>5, LifecycleAssumption DEF Epic
  <2>8. mem'.phase \notin EndPhases
    BY <2>2 DEF ListsApart, StoryPhaseSet
  <2>. HIDE DEF e
  <2>9. InPlace(mem') /\ NotPast(st, mem')
    BY <1>2, <2>2, <2>5, <2>6, <2>7, <2>8, LaterEpicInPlace
  <2>10. NotPast(disk, mem')
    BY <1>1, <1>2, <1>3, <2>2, <2>5, PositionFields DEF NotPast, Epic
  <2>. QED
    BY <1>1, <2>1, <2>9, <2>10, SameDiskStep DEF Steps, OrderInv, AtEpicEnd
<1>. QED
  BY <1>4, <1>5

LEMMA SkipDoneStorySteps ==
    ASSUME ListsApart, TypeInv, SprintInv, OrderInv, SkipDoneStory
    PROVE  Steps
<1>. DEFINE next == IncompleteStories(mem, sprint, artifacts)
            i == Min(next)
<1>1. /\ pc = "validate" /\ mem \in Position /\ disk \in Position
      /\ InPlace(mem) /\ SameDone(mem, disk) /\ NotPast(disk, mem)
      /\ CurrentStory(mem) \in mem.doneStories /\ next # {}
  BY PositionFields
     DEF SkipDoneStory, StoryIsDone, StoryDurablyDone, Backed, TypeInv, Placed, SameDone,
         SprintInv, OrderInv
<1>2. /\ mem' = [CompleteStory(mem) EXCEPT !.story = i, !.phase = "create_story"]
      /\ UNCHANGED <<disk, sprint, artifacts, pc>> /\ run'.active = run.active
  BY DEF SkipDoneStory, durable, TypeInv, TypeOK, Run
<1>3. /\ mem'.epic = mem.epic /\ mem'.story = i /\ mem'.phase = "create_story"
      /\ SameDone(mem', mem)
  BY <1>1, <1>2 DEF CompleteStory, SameDone, Position, State
<1>4. next \subseteq RemainingStories(mem)
  BY DEF IncompleteStories
<1>5. i \in next /\ \A j \in next : i <= j
  <2>. HIDE DEF next
  <2>. QED
    BY <1>1, <1>4, RemainingLeast
<1>6. i \in 1..StoryCount[mem.epic] /\ mem.story < i
  BY <1>4, <1>5 DEF RemainingStories
<1>7. ASSUME NEW j \in 1..StoryCount[mem.epic], mem.story < j, j < i
      PROVE  <<mem.epic, j>> \in mem.doneStories
  <2>1. j \in Nat /\ i \in Nat
    BY <1>1, <1>6, PositionFields, LifecycleAssumption DEF Epic
  <2>2. j \notin next
    <3>. HIDE DEF next, i
    <3>. QED
      BY <1>5, <1>7, <2>1
  <2>3. \/ <<mem.epic, j>> \in mem.doneStories
        \/ StoryDurablyDone(<<mem.epic, j>>, sprint, artifacts)
    BY <1>7, <2>2 DEF IncompleteStories, RemainingStories
  <2>4. <<mem.epic, j>> \in Story
    BY <1>1, PositionFields, StoryElements
  <2>. QED
    BY <1>1, <2>3, <2>4 DEF StoryDurablyDone, SprintInv, Backed, SameDone
<1>8. mem'.phase \notin EndPhases
  BY <1>3 DEF ListsApart, StoryPhaseSet
<1>. HIDE DEF next, i
<1>9. InPlace(mem') /\ NotPast(mem, mem')
  BY <1>1, <1>3, <1>6, <1>7, <1>8, LaterStoryInPlace
<1>10. /\ mem.epic \in Nat /\ mem.story \in Nat /\ i \in Nat
       /\ disk.epic \in Nat /\ disk.story \in Nat
  BY <1>1, <1>6, PositionFields, LifecycleAssumption DEF Epic, Position, State
<1>11. NotPast(disk, mem')
  BY <1>1, <1>3, <1>6, <1>10 DEF NotPast
<1>. QED
  BY <1>1, <1>2, <1>9, <1>11, SameDiskStep DEF Steps, OrderInv, AtEpicEnd

LEMMA StartSteps ==
    ASSUME ListsApart, TypeInv, SprintInv, OrderInv, Start
    PROVE  Steps
<1>. USE DEF Goto, AtEpicEnd
<1>1. CASE FreshStart
  <2>1. /\ disk' = FirstPosition /\ mem' = FirstPosition /\ run'.active = run.active
        /\ pc = "load" /\ pc' = "repair" /\ disk.epic = 0
    BY <1>1 DEF FreshStart, Save, TypeInv, TypeOK, Run
  <2>2. FirstPosition \in Position
    BY <2>1, FirstPositionPlaced
  <2>3. InPlace(disk') /\ SameDone(disk', disk) /\ disk'.epic # 0
    BY <2>1, <2>2, FirstPositionInPlace, PositionFields
  <2>4. OrderInv'
    BY <2>1, <2>2, <2>3, NotPastReflexive DEF OrderInv, SameDone
  <2>. QED
    BY <2>1, <2>3, <2>4, QuietStep DEF Steps, Forward
<1>2. CASE Repair
  BY <1>2, SameDiskStep DEF Repair, Steps, OrderInv
<1>3. CASE Resume
  <2>1. /\ UNCHANGED <<disk, run>> /\ mem' = disk /\ disk.epic # 0
        /\ pc = "load" /\ pc' = "validate"
    BY <1>3 DEF Resume, durable
  <2>2. NotPast(disk, disk)
    BY <2>1, NotPastReflexive DEF TypeInv, Placed
  <2>. QED
    BY <2>1, <2>2, SameDiskStep DEF Steps, OrderInv
<1>4. CASE RefuseResume
  BY <1>4, SameDiskStep DEF RefuseResume, Exit, durable, Steps, OrderInv
<1>5. CASE SkipDoneEpic
  BY <1>5, SkipDoneEpicSteps
<1>6. CASE SkipDoneStory
  BY <1>6, SkipDoneStorySteps
<1>7. CASE AcceptPosition
  <2>1. /\ pc = "validate" /\ pc' \in {"resync", "enter"} /\ UNCHANGED run
        /\ disk \in Position /\ mem \in Position
    BY <1>7 DEF AcceptPosition, TypeInv, Placed
  <2>2. CASE run.advanced
    <3>1. mem' = mem /\ disk' = mem
      BY <1>7, <2>2 DEF AcceptPosition, Save
    <3>2. OrderInv'
      BY <2>1, <3>1, NotPastReflexive, PositionFields DEF OrderInv, SprintInv, SameDone
    <3>. QED
      BY <2>1, <3>1, <3>2, SaveStep DEF Steps
  <2>3. CASE ~run.advanced
    <3>1. mem' = disk /\ disk' = disk
      BY <1>7, <2>3 DEF AcceptPosition
    <3>2. OrderInv'
      BY <2>1, <3>1, NotPastReflexive, PositionFields DEF OrderInv
    <3>. QED
      BY <3>1, <3>2, SameDiskStep DEF Steps
  <2>. QED
    BY <2>2, <2>3
<1>8. CASE Resync
  BY <1>8, SameDiskStep DEF Resync, Steps, OrderInv
<1>. QED
  BY <1>1, <1>2, <1>3, <1>4, <1>5, <1>6, <1>7, <1>8 DEF Start

\* Steps inside the run that stay at the position, and those that end the run
\* there.
LEMMA StaySteps ==
    ASSUME TypeInv, SprintInv, OrderInv, pc \notin {"off", "load"},
           pc' \notin {"off", "load"},
           SamePlace(mem, mem'), InPlace(mem'), disk' \in {disk, mem, mem'},
           run'.active = run.active, AtEpicEnd' => StoriesOver(mem')
    PROVE  Steps
<1>1. mem \in Position /\ disk \in Position /\ SameDone(mem, disk) /\ NotPast(disk, mem)
  BY DEF TypeInv, Placed, SprintInv, OrderInv
<1>2. mem'.epic = mem.epic /\ mem'.story = mem.story /\ SameDone(mem', mem)
  BY DEF SamePlace, SameDone
<1>3. /\ NotPast(disk, mem') /\ NotPast(mem, mem') /\ NotPast(mem', mem')
      /\ NotPast(disk, disk)
  BY <1>1, <1>2, NotPastReflexive DEF NotPast
<1>4. SameDone(disk', disk) /\ InPlace(disk') /\ NotPast(disk', mem') /\ NotPast(disk, disk')
  BY <1>1, <1>2, <1>3, PositionFields DEF SameDone, OrderInv
<1>5. disk'.epic # 0
  BY <1>1, <1>2, PositionFields
<1>. QED
  BY <1>1, <1>3, <1>4, <1>5, QuietStep DEF Steps, OrderInv, SameDone, Forward

LEMMA ExitSteps ==
    ASSUME TypeInv, SprintInv, OrderInv, pc \notin {"off", "load"}, pc' = "off",
           disk' = disk \/ (SamePlace(mem, disk') /\ InPlace(disk'))
    PROVE  Steps
<1>1. mem \in Position /\ disk \in Position /\ SameDone(mem, disk) /\ NotPast(disk, mem)
  BY DEF TypeInv, Placed, SprintInv, OrderInv
<1>2. SameDone(disk', disk) /\ InPlace(disk') /\ disk'.epic # 0
  BY <1>1, PositionFields DEF SameDone, SamePlace, OrderInv
<1>3. Forward
  BY <1>1, NotPastReflexive DEF Forward, NotPast, SamePlace
<1>. QED
  BY <1>2, <1>3, QuietStep DEF Steps, OrderInv, AtEpicEnd

\* Steps that complete something and go on from the state they save.
LEMMA CompletionSteps ==
    ASSUME TypeInv, SprintInv, OrderInv, DeliveryStep,
           pc \notin {"off", "load"}, pc' \notin {"off", "load"},
           disk' = mem', mem' \in Position, InPlace(mem'), NotPast(mem, mem'),
           mem.doneStories \subseteq mem'.doneStories,
           run'.active = run.active, AtEpicEnd' => StoriesOver(mem')
    PROVE  Steps
<1>1. SameDone(mem, disk)
  BY DEF SprintInv
<1>2. mem'.epic # 0 /\ mem'.epic \in Nat /\ mem'.story \in Nat
  BY PositionFields DEF Position, State, Epic
<1>3. Forward
  BY <1>2, ForwardStep
<1>4. OrderInv'
  BY <1>1, <1>2, NotPastReflexive DEF OrderInv, SameDone
<1>. QED
  BY <1>3, <1>4 DEF Steps

LEMMA SetupSteps ==
    ASSUME ListsApart, TypeInv, SprintInv, OrderInv, Setup
    PROVE  Steps
<1>. USE DEF Goto
<1>1. /\ pc \in {"enter", "setup", "setup_run", "restore"} => mem \in Position /\ InPlace(mem)
      /\ run \in Run
  BY DEF TypeInv, TypeOK, Placed, OrderInv
<1>2. InPlace(mem) => SamePlace(mem, mem)
  BY DEF SamePlace, SameDone
<1>3. CASE EnterLoop
  <2>1. /\ pc = "enter" /\ pc' \in {"setup", "top"} /\ UNCHANGED <<mem, disk>>
        /\ run'.active = run.active
    BY <1>1, <1>3 DEF EnterLoop, durable, Run
  <2>. QED
    BY <1>1, <1>2, <2>1, StaySteps DEF AtEpicEnd
<1>4. CASE SetupPhase
  <2>1. pc = "setup" /\ run.step \in DOMAIN EpicSetup
    BY <1>4 DEF SetupPhase, TypeInv, StepInRange
  <2>2. EpicSetup[run.step] \notin EndPhases
    BY <2>1 DEF ListsApart, StoryPhaseSet, PhasesOf
  <2>3. SamePlace(mem, mem') /\ InPlace(mem') /\ disk' = mem'
    BY <1>1, <1>4, <2>1, <2>2, SetPhaseSamePlace, SamePlaceInPlace DEF SetupPhase, Save
  <2>. QED
    BY <1>4, <2>1, <2>3, StaySteps DEF SetupPhase, AtEpicEnd
<1>5. CASE SetupSucceeds
  <2>1. CASE run.step < Len(EpicSetup)
    <3>1. /\ pc = "setup_run" /\ pc' = "setup" /\ UNCHANGED <<mem, disk>>
          /\ run'.active = run.active
      BY <1>1, <1>5, <2>1 DEF SetupSucceeds, Run
    <3>. QED
      BY <1>1, <1>2, <3>1, StaySteps DEF AtEpicEnd
  <2>2. CASE ~(run.step < Len(EpicSetup))
    <3>1. pc = "setup_run" /\ pc' = "restore" /\ disk' = mem' /\ UNCHANGED run
      BY <1>5, <2>2 DEF SetupSucceeds, Save
    <3>2. StoryPhases[1] \notin EndPhases
      BY PhaseLists DEF ListsApart, StoryPhaseSet, PhasesOf
    <3>3. SamePlace(mem, mem') /\ mem'.phase = StoryPhases[1]
      BY <1>1, <1>5, <2>2, <3>1
         DEF SetupSucceeds, Save, SamePlace, SameDone, Position, State
    <3>. QED
      BY <1>1, <3>1, <3>2, <3>3, SamePlaceInPlace, StaySteps DEF AtEpicEnd
  <2>. QED
    BY <2>1, <2>2
<1>6. CASE SetupFails
  BY <1>1, <1>2, <1>6, ExitSteps DEF SetupFails, Exit
<1>7. CASE RestorePhase
  <2>1. pc = "restore" /\ pc' = "top" /\ UNCHANGED run
    BY <1>7 DEF RestorePhase
  <2>2. CASE UNCHANGED <<mem, disk>>
    BY <1>1, <1>2, <2>1, <2>2, StaySteps DEF AtEpicEnd
  <2>3. CASE run.saved \in PhasesOf(StoryPhases) /\ Save([mem EXCEPT !.phase = run.saved])
    <3>1. run.saved \notin EndPhases
      BY <2>3 DEF ListsApart, StoryPhaseSet
    <3>2. SamePlace(mem, mem') /\ InPlace(mem') /\ disk' = mem'
      BY <1>1, <2>1, <2>3, <3>1, SetPhaseSamePlace, SamePlaceInPlace DEF Save
    <3>. QED
      BY <2>1, <3>2, StaySteps DEF AtEpicEnd
  <2>. QED
    BY <1>7, <2>2, <2>3 DEF RestorePhase
<1>. QED
  BY <1>3, <1>4, <1>5, <1>6, <1>7 DEF Setup

LEMMA IterateSteps ==
    ASSUME TypeInv, SprintInv, OrderInv, Iterate
    PROVE  Steps
<1>. USE DEF Goto
<1>1. pc \notin {"off", "load"} => InPlace(mem) /\ SamePlace(mem, mem)
  BY DEF OrderInv, SamePlace, SameDone
<1>2. run \in Run
  BY DEF TypeInv, TypeOK
<1>3. CASE BeginPhase
  BY <1>1, <1>3, StaySteps DEF BeginPhase, AtEpicEnd
<1>4. ASSUME NEW outcome \in Outcome, Execute(outcome) PROVE Steps
  <2>1. run'.active = run.active
    BY <1>2, <1>4 DEF Execute, Run
  <2>. QED
    BY <1>1, <1>4, <2>1, StaySteps DEF Execute, AtEpicEnd
<1>5. CASE StopRequested
  BY <1>5, ExitSteps DEF StopRequested, Exit, durable
<1>6. CASE PhaseFails
  BY <1>1, <1>6, StaySteps DEF PhaseFails, AtEpicEnd
<1>7. CASE Halt
  BY <1>7, ExitSteps DEF Halt, Exit
<1>8. CASE PhaseSucceeds
  BY <1>1, <1>8, StaySteps DEF PhaseSucceeds, AtEpicEnd
<1>9. CASE SyncPhase
  BY <1>1, <1>9, StaySteps DEF SyncPhase, AtEpicEnd
<1>. QED
  BY <1>3, <1>4, <1>5, <1>6, <1>7, <1>8, <1>9 DEF Iterate

LEMMA ContinueSteps ==
    ASSUME TypeInv, SprintInv, OrderInv, pc = "decide", NEW st,
           SamePlace(mem, st), InPlace(st), SaveAndContinue(st)
    PROVE  Steps
BY StaySteps, ExitSteps DEF SaveAndContinue, Save, Exit, AtEpicEnd

LEMMA AdvanceSteps ==
    ASSUME ListsApart, TypeInv, SprintInv, OrderInv, Advance
    PROVE  Steps
<1>. USE DEF Goto
<1>1. pc = "decide" => mem \in Position /\ InPlace(mem)
  BY DEF TypeInv, Placed, OrderInv
<1>2. ASSUME NEW p, pc = "decide", AdvancePhase(p), p \notin EndPhases \/ StoriesOver(mem)
      PROVE  Steps
  <2>. DEFINE st == [mem EXCEPT !.phase = p]
  <2>1. SamePlace(mem, st) /\ InPlace(st)
    BY <1>1, <1>2, SetPhaseSamePlace, SamePlaceInPlace
  <2>2. \/ disk' = st /\ pc' = "off"
        \/ mem' = st /\ pc' = "top" /\ UNCHANGED <<disk, run>>
    BY <1>2 DEF AdvancePhase, Exit
  <2>. HIDE DEF st
  <2>. QED
    BY <1>2, <2>1, <2>2, StaySteps, ExitSteps DEF AtEpicEnd
<1>3. CASE NextPhase
  <2>1. GetNextPhase(mem.phase) \notin EndPhases
    BY <1>3, NextPhaseIn DEF NextPhase, ListsApart, StoryPhaseSet
  <2>. QED
    BY <1>2, <1>3, <2>1 DEF NextPhase, Ordinary
<1>4. CASE NextTeardownPhase
  <2>1. mem.phase \in EndPhases
    BY <1>4, NextTeardownPhaseFrom DEF NextTeardownPhase, EndPhases
  <2>2. StoriesOver(mem)
    BY <1>1, <1>4, <2>1 DEF NextTeardownPhase, Ordinary, InPlace
  <2>. QED
    BY <1>2, <1>4, <2>2 DEF NextTeardownPhase, Ordinary
<1>5. CASE CannotAdvance
  BY <1>5, ExitSteps DEF CannotAdvance, Ordinary, Exit, durable
<1>. QED
  BY <1>3, <1>4, <1>5 DEF Advance

LEMMA FinishStorySteps ==
    ASSUME ListsApart, TypeInv, SprintInv, OrderInv, FinishStory
    PROVE  Steps
<1>. USE DEF Goto
<1>. DEFINE c == CompleteStory(mem)
<1>1. pc = "decide" =>
        mem \in Position /\ InPlace(mem) /\ disk \in Position /\ SameDone(mem, disk)
  BY DEF TypeInv, Placed, OrderInv, SprintInv
<1>2. CASE Rework
  <2>. DEFINE st == [mem EXCEPT !.phase = "dev_story", !.rework = @ + 1]
  <2>1. SamePlace(mem, st) /\ st.phase = "dev_story"
    BY <1>1, <1>2 DEF Rework, SamePlace, SameDone, Position, State
  <2>2. InPlace(st)
    BY <1>1, <1>2, <2>1, SamePlaceInPlace DEF Rework, ListsApart, StoryPhaseSet
  <2>. QED
    BY <1>2, <2>1, <2>2, ContinueSteps DEF Rework
<1>3. CASE RefuseUnresolved
  BY <1>3, ExitSteps DEF RefuseUnresolved, Exit, durable
<1>4. CASE AfterReview
  <2>1. GetNextPhase(mem.phase) \notin EndPhases
    BY <1>4, NextPhaseIn DEF AfterReview, ListsApart, StoryPhaseSet
  <2>. DEFINE st == [mem EXCEPT !.phase = GetNextPhase(mem.phase)]
  <2>2. pc = "decide" /\ SaveAndContinue(st)
    BY <1>4 DEF AfterReview
  <2>3. SamePlace(mem, st) /\ st.phase = GetNextPhase(mem.phase)
    BY <1>1, <2>2, SetPhaseSamePlace
  <2>. HIDE DEF st
  <2>4. InPlace(st)
    BY <1>1, <2>1, <2>2, <2>3, SamePlaceInPlace
  <2>. QED
    BY <2>2, <2>3, <2>4, ContinueSteps
<1>5. CASE HoldStory
  <2>1. /\ pc = "decide" /\ pc' = "exit_sync" /\ disk' = c /\ mem' = c
        /\ UNCHANGED run
    BY <1>5 DEF HoldStory, Save
  <2>2. /\ InPlace(c) /\ c \in Position
        /\ c.doneStories = mem.doneStories \cup {<<mem.epic, mem.story>>}
        /\ c.doneEpics = mem.doneEpics /\ NotPast(mem, c)
    BY <1>1, <2>1, CompleteStoryInPlace, CompleteStoryPosition, NotPastReflexive DEF NotPast
  <2>. QED
    BY <1>1, <2>1, <2>2, CompletionSteps, DeliverStep DEF AtEpicEnd
<1>6. CASE NextStory
  <2>. DEFINE u == HandleStoryCompletion(mem)
  <2>1. /\ pc = "decide" /\ pc' = "story_prompt" /\ disk' = u /\ mem' = u
        /\ UNCHANGED run
    BY <1>6 DEF NextStory, Save
  <2>2. /\ InPlace(u) /\ u \in Position /\ NotPast(mem, u)
        /\ u.doneStories = mem.doneStories \cup {<<mem.epic, mem.story>>}
        /\ u.doneEpics = mem.doneEpics
    BY <1>1, <1>6, NextStoryInPlace, HandleStoryPosition, CompleteStoryInPlace
       DEF NextStory, SameDone
  <2>. HIDE DEF u
  <2>. QED
    BY <1>1, <2>1, <2>2, CompletionSteps, DeliverStep DEF AtEpicEnd
<1>7. CASE LastStory
  <2>1. /\ pc = "decide" /\ pc' \notin {"off", "load"} /\ disk' = c /\ mem' = c
        /\ run'.active = run.active
    BY <1>7 DEF LastStory, HandleStoryCompletion, Save, TypeInv, TypeOK, Run
  <2>2. /\ InPlace(c) /\ c \in Position
        /\ c.doneStories = mem.doneStories \cup {<<mem.epic, mem.story>>}
        /\ c.doneEpics = mem.doneEpics /\ NotPast(mem, c)
    BY <1>1, <2>1, CompleteStoryInPlace, CompleteStoryPosition, NotPastReflexive DEF NotPast
  <2>3. StoriesOver(c)
    BY <1>1, <1>7, LastStoryOver DEF LastStory
  <2>. QED
    BY <1>1, <2>1, <2>2, <2>3, CompletionSteps, DeliverStep
<1>8. CASE QuitAtPrompt
  BY <1>8, ExitSteps DEF QuitAtPrompt, Exit, durable
<1>9. CASE BeginStory
  <2>1. pc = "story_prompt" /\ UNCHANGED disk
    BY <1>9 DEF BeginStory
  <2>2. InPlace(mem) /\ SamePlace(mem, mem)
    BY <2>1 DEF OrderInv, SamePlace, SameDone
  <2>3. pc' = "off" \/ (pc' = "top" /\ UNCHANGED <<mem, run>>)
    BY <1>9 DEF BeginStory, Exit
  <2>. QED
    BY <2>1, <2>2, <2>3, StaySteps, ExitSteps DEF AtEpicEnd
<1>. QED
  BY <1>2, <1>3, <1>4, <1>5, <1>6, <1>7, <1>8, <1>9 DEF FinishStory

LEMMA FinishEpicSteps ==
    ASSUME ListsApart, TypeInv, SprintInv, OrderInv, FinishEpic
    PROVE  Steps
<1>. USE DEF Goto
<1>1. /\ pc \notin {"off", "load"} =>
            /\ mem \in Position /\ InPlace(mem) /\ SamePlace(mem, mem)
            /\ SameDone(mem, disk)
      /\ AtEpicEnd => StoriesOver(mem)
      /\ run \in Run
  BY DEF TypeInv, TypeOK, Placed, OrderInv, SprintInv, SamePlace, SameDone
<1>2. CASE StageTeardown
  <2>1. CASE EpicTeardown = <<>>
    BY <1>1, <1>2, <2>1, StaySteps DEF StageTeardown, AtEpicEnd
  <2>2. CASE EpicTeardown # <<>>
    <3>1. /\ pc = "stage" /\ pc' = "exit_sync" /\ UNCHANGED run
          /\ mem' = [mem EXCEPT !.phase = EpicTeardown[1]] /\ disk' = mem'
      BY <1>2, <2>2 DEF StageTeardown, Save
    <3>2. SamePlace(mem, mem') /\ StoriesOver(mem)
      BY <1>1, <3>1, SetPhaseSamePlace DEF AtEpicEnd
    <3>3. InPlace(mem')
      BY <1>1, <3>1, <3>2, SamePlaceInPlace
    <3>. QED
      BY <3>1, <3>2, <3>3, StaySteps DEF AtEpicEnd
  <2>. QED
    BY <2>1, <2>2
<1>3. CASE TeardownPhase
  <2>1. SamePlace(mem, mem') /\ InPlace(mem') /\ disk' = mem'
    BY <1>1, <1>3, SetPhaseSamePlace, SamePlaceInPlace DEF TeardownPhase, Save, AtEpicEnd
  <2>2. StoriesOver(mem')
    BY <1>1, <1>3, <2>1 DEF TeardownPhase, AtEpicEnd, StoriesOver, SamePlace, SameDone
  <2>. QED
    BY <1>3, <2>1, <2>2, StaySteps DEF TeardownPhase
<1>4. CASE TeardownSucceeds
  <2>1. /\ pc = "teardown_run" /\ pc' \in {"teardown", "teardown_end"}
        /\ UNCHANGED <<mem, disk>> /\ run'.active = run.active
    BY <1>1, <1>4 DEF TeardownSucceeds, Run
  <2>. QED
    BY <1>1, <2>1, StaySteps DEF AtEpicEnd, StoriesOver
<1>5. CASE TeardownFails
  BY <1>1, <1>5, StaySteps DEF TeardownFails, AtEpicEnd
<1>6. CASE SyncTeardown
  BY <1>1, <1>6, StaySteps DEF SyncTeardown, AtEpicEnd, StoriesOver
<1>7. EndOfEpic => pc \notin {"off", "load"} /\ StoriesOver(mem)
  <2>1. EndsEpicInLoop => pc = "decide" /\ mem.phase \in EndPhases
    BY DEF EndsEpicInLoop, EndPhases, DonePhases, Phase, PhaseToStatus
  <2>. QED
    BY <1>1, <2>1 DEF EndOfEpic, AtEpicEnd, InPlace
<1>8. CASE CompleteAndStop
  <2>. DEFINE c == CompleteEpic(mem)
  <2>1. EndOfEpic /\ disk' = c /\ mem' = c /\ pc' = "exit_sync" /\ UNCHANGED run
    BY <1>8 DEF CompleteAndStop, Save
  <2>2. /\ InPlace(c) /\ c \in Position /\ NotPast(mem, c)
        /\ c.doneStories = mem.doneStories
        /\ c.doneEpics = mem.doneEpics \cup {mem.epic}
    BY <1>1, <1>7, <2>1, CompleteEpicInPlace, CompleteEpicPosition, NotPastReflexive
       DEF NotPast
  <2>. HIDE DEF c
  <2>3. DeliveryStep
    BY <1>1, <1>7, <2>1, <2>2, CloseStep
  <2>. QED
    BY <1>7, <2>1, <2>2, <2>3, CompletionSteps DEF AtEpicEnd
<1>9. CASE NextEpic
  <2>1. EndOfEpic
    BY <1>9 DEF NextEpic
  <2>2. CASE NextEpicExhausted(CompleteEpic(mem), run.active)
    BY <1>7, <1>9, <2>1, <2>2, ExitSteps DEF NextEpic, Exit
  <2>3. CASE ~NextEpicExhausted(CompleteEpic(mem), run.active)
    <3>. DEFINE u == HandleEpicCompletion(mem, run.active)
    <3>1. /\ disk' = u /\ mem' = u /\ pc' \in {"epic_prompt", "epic_sync"} /\ UNCHANGED run
          /\ ~NoNextEpic(CompleteEpic(mem), run.active)
      BY <1>9, <2>3 DEF NextEpic, Save
    <3>2. Story \ run.active \subseteq mem.doneStories /\ run.active \in SUBSET Story
      BY <1>1, <1>7, <2>1 DEF OrderInv, SameDone, Run
    <3>3. InPlace(u) /\ NotPast(mem, u) /\ SameDone(u, CompleteEpic(mem)) /\ u \in Position
      BY <1>1, <1>7, <2>1, <2>3, <3>1, <3>2, NextEpicInPlace, HandleEpicPosition
    <3>4. /\ u.doneStories = mem.doneStories
          /\ u.doneEpics = mem.doneEpics \cup {mem.epic}
      BY <1>1, <1>7, <2>1, <3>3, CompleteEpicInPlace DEF SameDone
    <3>. HIDE DEF u
    <3>5. DeliveryStep
      BY <1>1, <1>7, <2>1, <3>1, <3>4, CloseStep
    <3>. QED
      BY <1>7, <2>1, <3>1, <3>3, <3>4, <3>5, CompletionSteps DEF AtEpicEnd
  <2>. QED
    BY <2>2, <2>3
<1>10. CASE BeginEpic
  BY <1>1, <1>10, StaySteps DEF BeginEpic, durable, AtEpicEnd
<1>11. CASE SyncEpic
  BY <1>1, <1>11, StaySteps DEF SyncEpic, AtEpicEnd
<1>12. CASE ExitSync
  BY <1>12, ExitSteps DEF ExitSync, Exit
<1>. QED
  BY <1>2, <1>3, <1>4, <1>5, <1>6, <1>8, <1>9, <1>10, <1>11, <1>12 DEF FinishEpic

LEMMA EnvironmentSteps ==
    ASSUME ManualEdits = FALSE, TypeInv, SprintInv, OrderInv, Environment
    PROVE  Steps
<1>. USE DEF Goto, durable, process, AtEpicEnd
<1>1. CASE StartRun
  <2>1. PICK o \in RunOptions : run' = NewRun(o, ActiveStories(sprint))
    BY <1>1 DEF StartRun
  <2>2. run'.active = ActiveStories(sprint)
    BY <2>1 DEF NewRun
  <2>3. Story \ run'.active \subseteq disk.doneStories
    BY <2>2 DEF ActiveStories, SprintInv, Backed
  <2>. QED
    BY <1>1, <2>3, SameDiskStep DEF StartRun, Steps, OrderInv
<1>2. CASE NoEpics
  BY <1>2, SameDiskStep DEF NoEpics, Steps, OrderInv
<1>3. CASE Kill
  BY <1>3, SameDiskStep DEF Kill, Exit, Steps, OrderInv
<1>4. CASE Cancel
  <2>1. run'.active = run.active
    BY <1>4 DEF Cancel, TypeInv, TypeOK, Run
  <2>. QED
    BY <1>4, <2>1, SameDiskStep DEF Cancel, Steps, OrderInv
<1>5. CASE SprintSync
  BY <1>5, SameDiskStep DEF SprintSync, Steps, OrderInv
<1>6. CASE EditSprint
  BY <1>6 DEF EditSprint
<1>. QED
  BY <1>1, <1>2, <1>3, <1>4, <1>5, <1>6 DEF Environment

LEMMA StutterSteps ==
    ASSUME TypeInv, OrderInv, UNCHANGED vars
    PROVE  Steps
BY SameDiskStep DEF vars, Steps, OrderInv, AtEpicEnd, StoriesOver

-----------------------------------------------------------------------------
LEMMA NextSteps ==
    ASSUME ListsApart, ManualEdits = FALSE,
           TypeInv, SprintInv, OrderInv, [Next]_vars
    PROVE  Steps
BY StartSteps, SetupSteps, IterateSteps, FinishStorySteps, FinishEpicSteps,
   AdvanceSteps, EnvironmentSteps, StutterSteps
   DEF Next, Process

LEMMA OrderInvariance ==
    ASSUME ListsApart, ManualEdits = FALSE
    PROVE  Spec => [](TypeInv /\ SprintInv /\ OrderInv)
<1>1. TypeInv /\ SprintInv /\ OrderInv /\ [Next]_vars => OrderInv'
  BY NextSteps DEF Steps
<1>. QED
  BY OrderInvInit, <1>1, SprintInvariance, PTL DEF Spec

\* The loop implements Project: over failures, kills, cancellations, quits,
\* held stories and lost syncs, stories are completed one at a time and in
\* order, and an epic when all its stories are and no earlier epic is open.
THEOREM LoopDeliversInOrder ==
    ASSUME ListsApart, ManualEdits = FALSE
    PROVE  Spec => DeliversInOrder
<1>1. Init => Delivery!Init
  BY DEF Init, EmptyState, Delivery!Init
<1>2. TypeInv /\ SprintInv /\ OrderInv /\ [Next]_vars => [Delivery!Next]_Delivery!vars
  BY NextSteps DEF Steps, DeliveryStep
<1>. QED
  BY <1>1, <1>2, OrderInvariance, PTL DEF Spec, DeliversInOrder, Delivery!Spec

\* What Project promises follows from its actions alone: no story is delivered
\* before an earlier one, none before an earlier epic is closed, and a closed
\* epic has nothing left to deliver.
THEOREM ProjectInOrder == Delivery!Spec => []Delivery!InOrder
<1>. USE DEF Delivery!InOrder, Delivery!EarlierEpicsClosed
<1>1. Delivery!Init => Delivery!InOrder
  BY DEF Delivery!Init
<1>2. Delivery!InOrder /\ [Delivery!Next]_Delivery!vars => Delivery!InOrder'
  <2>. SUFFICES ASSUME Delivery!InOrder, [Delivery!Next]_Delivery!vars
                PROVE  Delivery!InOrder'
    OBVIOUS
  <2>1. ASSUME NEW e \in Delivery!Epic, Delivery!Close(e) PROVE Delivery!InOrder'
    BY <2>1 DEF Delivery!Close
  <2>2. ASSUME NEW e \in Delivery!Epic, NEW i \in 1..StoryCount[e], Delivery!Deliver(e, i)
        PROVE  Delivery!InOrder'
    <3>1. ASSUME NEW f \in Delivery!Epic, NEW j \in 1..StoryCount[f],
                 <<f, j>> \in disk'.doneStories
          PROVE  /\ Delivery!EarlierEpicsClosed(f)'
                 /\ \A k \in 1..StoryCount[f] : k < j => <<f, k>> \in disk'.doneStories
      <4>1. CASE <<f, j>> \in disk.doneStories
        BY <2>2, <4>1 DEF Delivery!Deliver
      <4>2. CASE f = e /\ j = i
        BY <2>2, <4>2 DEF Delivery!Deliver
      <4>. QED
        BY <2>2, <3>1, <4>1, <4>2 DEF Delivery!Deliver
    <3>2. \A f \in disk'.doneEpics :
            Delivery!EarlierEpicsClosed(f)' /\ Delivery!StoriesOf(f) \subseteq disk'.doneStories
      BY <2>2 DEF Delivery!Deliver
    <3>. QED
      BY <3>1, <3>2
  <2>3. CASE UNCHANGED Delivery!vars
    BY <2>3 DEF Delivery!vars
  <2>. QED
    BY <2>1, <2>2, <2>3 DEF Delivery!Next
<1>. QED
  BY <1>1, <1>2, PTL DEF Delivery!Spec

\* What state.yaml holds completed is in order at any moment, however the run
\* before ended: the promise of Project, kept by the loop.
THEOREM CompletedInOrder ==
    ASSUME ListsApart, ManualEdits = FALSE
    PROVE  Spec => []Delivery!InOrder
BY LoopDeliversInOrder, ProjectInOrder, PTL DEF DeliversInOrder

\* The recorded position never moves back to an earlier story or epic.
THEOREM PositionStaysForward ==
    ASSUME ListsApart, ManualEdits = FALSE
    PROVE  Spec => PositionNeverBack
<1>. DEFINE Step == disk.epic # 0 =>
                        \/ disk'.epic > disk.epic
                        \/ disk'.epic = disk.epic /\ disk'.story >= disk.story
<1>1. TypeInv /\ TypeInv' /\ SprintInv /\ OrderInv /\ [Next]_vars => [Step]_disk
  <2>. SUFFICES ASSUME TypeInv, TypeInv', SprintInv, OrderInv, [Next]_vars, disk.epic # 0
                PROVE  \/ disk'.epic > disk.epic
                       \/ disk'.epic = disk.epic /\ disk'.story >= disk.story
    OBVIOUS
  <2>1. NotPast(disk, disk')
    BY NextSteps DEF Steps, Forward
  <2>2. /\ disk.epic \in Nat /\ disk'.epic \in Nat
        /\ disk.story \in Nat /\ disk'.story \in Nat
    BY DEF TypeInv, TypeOK, State, Epic
  <2>. QED
    BY <2>1, <2>2 DEF NotPast
<1>. QED
  BY <1>1, OrderInvariance, PTL DEF Spec, PositionNeverBack

=============================================================================
