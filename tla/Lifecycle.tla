----------------------------- MODULE Lifecycle -----------------------------
(***************************************************************************)
(* The lifecycle state of a project (State of core/state.py) and the pure  *)
(* transitions on it: story_transitions.py and epic_transitions.py of      *)
(* core/loop.  Epics are 1..NumEpics and the stories of epic e are         *)
(* <<e, 1>> .. <<e, StoryCount[e]>>, both in the order of the lifecycle    *)
(* lists that cli.py builds.                                               *)
(***************************************************************************)
EXTENDS LoopConfig, FiniteSets

CONSTANTS
    NumEpics,    \* number of epics of the project
    StoryCount   \* StoryCount[e]: number of stories of epic e

ASSUME LifecycleAssumption ==
    /\ NumEpics \in Nat \ {0}
    /\ StoryCount \in [1..NumEpics -> Nat \ {0}]

Epic == 1..NumEpics
StoriesOf(e) == {<<e, i>> : i \in 1..StoryCount[e]}
Story == UNION {StoriesOf(e) : e \in Epic}

\* A position field that is None is 0.
State ==
    [epic : Epic \cup {0}, story : Nat, phase : Phase \cup {NoPhase},
     doneStories : SUBSET Story, doneEpics : SUBSET Epic,
     setupDone : BOOLEAN, rework : Nat]

EmptyState ==
    [epic |-> 0, story |-> 0, phase |-> NoPhase,
     doneStories |-> {}, doneEpics |-> {}, setupDone |-> FALSE, rework |-> 0]

CurrentStory(st) == <<st.epic, st.story>>

-----------------------------------------------------------------------------
(***************************************************************************)
(* Story transitions.                                                      *)
(***************************************************************************)
\* Mutant: the story number is bumped before it is recorded.
CompleteStory_Bumped(st) ==
    [st EXCEPT !.doneStories = @ \cup {<<st.epic, st.story + 1>>}]

CompleteStory(st) == [st EXCEPT !.doneStories = @ \cup {CurrentStory(st)}]

\* Mutant: the search starts one story too late.
RemainingStories_OneTooLate(st) ==
    {i \in 1..StoryCount[st.epic] :
        i > st.story + 1 /\ <<st.epic, i>> \notin st.doneStories}

\* The stories after the current one that are not completed.
RemainingStories(st) ==
    {i \in 1..StoryCount[st.epic] :
        i > st.story /\ <<st.epic, i>> \notin st.doneStories}

IsLastStoryInEpic(st) == RemainingStories(st) = {}

AdvanceToNextStory(st) ==
    [st EXCEPT !.story = Min(RemainingStories(st)),
               !.phase = "create_story",
               !.rework = 0]

\* handle_story_completion: the last story stays the current one.
HandleStoryCompletion(st) ==
    IF IsLastStoryInEpic(CompleteStory(st))
    THEN CompleteStory(st)
    ELSE AdvanceToNextStory(CompleteStory(st))

-----------------------------------------------------------------------------
(***************************************************************************)
(* Epic transitions.  "active" is the set of stories the command line      *)
(* found not done when the process started; the epics of the loop are the  *)
(* epics of those stories.                                                 *)
(***************************************************************************)
ActiveEpics(active) == {s[1] : s \in active}

CompleteEpic(st) == [st EXCEPT !.doneEpics = @ \cup {st.epic}]

\* Mutant: the epic that follows the current one is passed over.
NextEpics_SkipsOne(st, active) ==
    {e \in ActiveEpics(active) \ st.doneEpics : e > st.epic + 1}

\* The epics advance_to_next_epic looks at.  A current epic that is not in
\* the list makes it start from the head of the list.
NextEpics(st, active) ==
    {e \in ActiveEpics(active) \ st.doneEpics :
        st.epic \in ActiveEpics(active) => e > st.epic}

\* The active stories of an epic that state does not hold completed.
OpenStories(st, active, e) ==
    {i \in 1..StoryCount[e] : <<e, i>> \in active \ st.doneStories}

\* No epic is left: the project is complete.
NoNextEpic(st, active) == NextEpics(st, active) = {}

\* StateError: every story of the next epic is completed, the epic is not.
NextEpicExhausted(st, active) ==
    /\ ~NoNextEpic(st, active)
    /\ OpenStories(st, active, Min(NextEpics(st, active))) = {}

AdvanceToNextEpic(st, active) ==
    LET next == Min(NextEpics(st, active))
    IN  [st EXCEPT !.epic = next,
                   !.story = Min(OpenStories(st, active, next)),
                   !.phase = "create_story",
                   !.setupDone = FALSE,
                   !.rework = 0]

\* handle_epic_completion, where it does not raise.
HandleEpicCompletion(st, active) ==
    IF NoNextEpic(CompleteEpic(st), active)
    THEN CompleteEpic(st)
    ELSE AdvanceToNextEpic(CompleteEpic(st), active)
=============================================================================
