------------------------------ MODULE DevLoopMC ------------------------------
(***************************************************************************)
(* Small projects and loop configurations for TLC.                         *)
(***************************************************************************)
EXTENDS DevLoop

\* Epic 1 has two stories, so that a story boundary, the last story of an
\* epic and an epic boundary all occur.
TwoOne == <<2, 1>>

NoPhases == <<>>
ShortStory == <<"create_story", "dev_story", "code_review_synthesis">>
Retrospective == <<"retrospective">>

\* The test-architect configuration, one phase of each kind.
TeaSetup == <<"tea_framework", "tea_ci">>
TeaStory == <<"create_story", "atdd", "dev_story", "code_review_synthesis",
              "test_review">>
TeaTeardown == <<"trace", "retrospective">>

\* The teardown list with the QA phases of --qa.
QaTeardown == <<"retrospective", "qa_plan_generate", "qa_plan_execute",
                "qa_remediate">>

\* A story list without dev_story, to which a rework still goes back.
ReviewOnly == <<"create_story", "code_review_synthesis">>

Plain == {[stopAfter |-> FALSE, hold |-> FALSE]}
AnyOption == RunOption
=============================================================================
