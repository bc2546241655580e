---------------------------- MODULE SprintStatus ----------------------------
(***************************************************************************)
(* sprint-status.yaml as the loop writes and reads it: the one-way sync of *)
(* the state into it (sprint/sync.py) and the facts resume validation      *)
(* (sprint/resume_validation.py) reads from it together with the durable   *)
(* artifacts.  Every story, epic and retrospective has an entry.           *)
(***************************************************************************)
EXTENDS Lifecycle

Status == {"backlog", "in-progress", "review", "done"}

Sprint ==
    [story : [Story -> Status], epic : [Epic -> Status], retro : [Epic -> Status]]

\* What generate_from_epics writes for a new project.
GeneratedSprint ==
    [story |-> [s \in Story |-> "backlog"],
     epic |-> [e \in Epic |-> "backlog"],
     retro |-> [e \in Epic |-> "backlog"]]

\* Durable reports: review and test-review reports of stories, retrospective
\* reports of epics.
Artifacts ==
    [review : SUBSET Story, testReview : SUBSET Story, retro : SUBSET Epic]

NoArtifacts == [review |-> {}, testReview |-> {}, retro |-> {}]

\* Mutant: a story is done when its review is.
PhaseToStatus_DoneAtReview(phase) ==
    CASE phase \in {"code_review_synthesis", "retrospective"} -> "done"
      [] OTHER -> "in-progress"

PhaseToStatus(phase) ==
    CASE phase \in {"code_review", "code_review_synthesis", "test_review",
                    "trace", "tea_nfr_assess"} -> "review"
      [] phase \in {"retrospective", "qa_plan_generate", "qa_plan_execute",
                    "qa_remediate"} -> "done"
      [] OTHER -> "in-progress"

-----------------------------------------------------------------------------
(***************************************************************************)
(* sync_state_to_sprint, by kind of entry.                                 *)
(***************************************************************************)
\* Steps 1 and 2: the current story by its phase, completed stories done.
SyncedStories(st, old) ==
    [s \in Story |->
        IF s \in st.doneStories THEN "done"
        ELSE IF s = CurrentStory(st) THEN PhaseToStatus(st.phase)
        ELSE old[s]]

\* Steps 0 and 3: the current epic is under way; a completed epic is done
\* unless one of its stories is still open.
SyncedEpics(st, stories, old) ==
    [e \in Epic |->
        IF e \in st.doneEpics
        THEN IF \A s \in StoriesOf(e) : stories[s] = "done"
             THEN "done" ELSE "in-progress"
        ELSE IF e = st.epic /\ old[e] # "done" THEN "in-progress"
        ELSE old[e]]

\* Steps 3.5 and 3.6: a retrospective is done only with its artifact.
SyncedRetros(st, art, old) ==
    LET running(e) == /\ st.phase = "retrospective"
                      /\ e = st.epic
                      /\ e \notin st.doneEpics
    IN  [e \in Epic |->
            IF (e \in st.doneEpics \/ running(e)) /\ e \in art.retro THEN "done"
            ELSE IF running(e) /\ old[e] # "done" THEN "in-progress"
            ELSE old[e]]

Synced(st, sp, art) ==
    LET stories == SyncedStories(st, sp.story)
    IN  [story |-> stories,
         epic |-> SyncedEpics(st, stories, sp.epic),
         retro |-> SyncedRetros(st, art, sp.retro)]

-----------------------------------------------------------------------------
(***************************************************************************)
(* What resume validation reads.                                           *)
(***************************************************************************)
TestReviewRequired == "test_review" \in PhasesOf(StoryPhases)

\* Mutant: the reports are not looked for.
StoryDurablyDone_StatusOnly(s, sp, art) == sp.story[s] = "done"

StoryDurablyDone(s, sp, art) ==
    /\ sp.story[s] = "done"
    /\ s \in art.review
    /\ TestReviewRequired => s \in art.testReview

EpicDurablyDone(e, sp, art) ==
    sp.epic[e] = "done" /\ sp.retro[e] = "done" /\ e \in art.retro

PriorEpicsDurablyDone(st, sp, art) ==
    \A e \in Epic : e < st.epic => EpicDurablyDone(e, sp, art)

PriorStoriesDurablyDone(st, sp, art) ==
    \A s \in StoriesOf(st.epic) :
        s[2] < st.story => StoryDurablyDone(s, sp, art)

\* The phases resume validation never skips.
TeardownPhases == PhasesOf(EpicTeardown) \cup {"retrospective"}

\* _find_next_incomplete_epic and _find_next_incomplete_story.
IncompleteEpics(st, sp, art) ==
    {e \in Epic : e > st.epic /\ e \notin st.doneEpics /\ ~EpicDurablyDone(e, sp, art)}

IncompleteStories(st, sp, art) ==
    {i \in RemainingStories(st) : ~StoryDurablyDone(<<st.epic, i>>, sp, art)}

\* The active stories of the command line: those not done in sprint-status.
ActiveStories(sp) == {s \in Story : sp.story[s] # "done"}
=============================================================================
