----------------------------- MODULE LoopConfig -----------------------------
(***************************************************************************)
(* The loop configuration (LoopConfig of core/config/models/loop.py) and   *)
(* the pure phase arithmetic on it: get_next_phase of                      *)
(* core/loop/guardian.py and _get_next_teardown_phase of                   *)
(* core/loop/runner.py.  Phases are named by their snake_case value.       *)
(***************************************************************************)
EXTENDS Integers, Sequences, FiniteSetsExt

CONSTANTS
    EpicSetup,        \* phases run at the start of an epic
    StoryPhases,      \* phases run for every story, in order
    EpicTeardown,     \* phases run at the end of an epic
    TestarchEnabled,  \* config.testarch is not None
    QaEnabled,        \* the --qa flag
    ReworkEnabled,    \* code_review_rework
    MaxRework,        \* max_rework_attempts
    FailOnUnresolved  \* fail_on_unresolved_negative_code_review

\* The Phase enumeration of core/state.py.
Phase ==
    {"create_story", "validate_story", "validate_story_synthesis", "atdd",
     "dev_story", "code_review", "code_review_synthesis", "test_review",
     "trace", "tea_framework", "tea_ci", "tea_test_design", "tea_automate",
     "tea_nfr_assess", "retrospective", "qa_plan_generate",
     "qa_plan_execute", "qa_remediate"}

\* Python's None where a phase is expected.
NoPhase == "none"

TestarchPhases == {"atdd", "test_review"}
QaPlanPhases == {"qa_plan_generate", "qa_plan_execute"}

ASSUME LoopConfigAssumption ==
    /\ EpicSetup \in Seq(Phase)
    /\ StoryPhases \in Seq(Phase)
    /\ StoryPhases # <<>>
    /\ EpicTeardown \in Seq(Phase)
    /\ {TestarchEnabled, QaEnabled, ReworkEnabled, FailOnUnresolved} \subseteq BOOLEAN
    /\ MaxRework \in 1..5

-----------------------------------------------------------------------------
PhasesOf(list) == {list[i] : i \in DOMAIN list}

\* list.index(phase): the first position of phase, of those it has.
PhaseIndex(list, phase) == Min({i \in DOMAIN list : list[i] = phase})

\* A phase that is switched off is passed over.
Applicable(phase) ==
    /\ phase \in TestarchPhases => TestarchEnabled
    /\ phase \in QaPlanPhases => QaEnabled

\* The positions get_next_phase may advance to.
LaterPhases(phase) ==
    {i \in DOMAIN StoryPhases :
        /\ i > PhaseIndex(StoryPhases, phase)
        /\ Applicable(StoryPhases[i])}

GetNextPhase(phase) ==
    IF \/ phase \in QaPlanPhases /\ ~QaEnabled
       \/ phase \notin PhasesOf(StoryPhases)
       \/ LaterPhases(phase) = {}
    THEN NoPhase
    ELSE StoryPhases[Min(LaterPhases(phase))]

GetNextTeardownPhase(phase) ==
    IF \/ phase \notin PhasesOf(EpicTeardown)
       \/ PhaseIndex(EpicTeardown, phase) = Len(EpicTeardown)
    THEN NoPhase
    ELSE EpicTeardown[PhaseIndex(EpicTeardown, phase) + 1]
=============================================================================
