------------------------------ MODULE Review ------------------------------
(***************************************************************************)
(* Multi-LLM code review of the stories of an epic and its synthesis       *)
(* (code_review/orchestrator.py, core/loop/handlers/code_review.py,        *)
(* core/loop/handlers/code_review_synthesis.py).  Reviewers answer in      *)
(* parallel under a sweep timeout; what they wrote is kept twice, as       *)
(* reports and as a cache, and the synthesis finds it again by story.      *)
(* With at most five reviewers the size filter drops none: the largest of  *)
(* n values is at most (n - 1) / sqrt(n) deviations above their mean.      *)
(***************************************************************************)
EXTENDS Integers, FiniteSets

CONSTANTS
    Reviewer,        \* the configured reviewers, the master included
    Polls,           \* those whose provider looks at the cancel token; it
                     \* starts one process per call, the others may start more
    Secondary,       \* those with a secondary provider (claude)
    Guarded,         \* those whose provider asks the tool guard
    MinReviewers,    \* _MIN_REVIEWERS
    MaxRetries,      \* a provider's own retries of a process that failed silently
    RetryTimeouts,   \* timeout retries are configured
    TimeoutRetries,  \* how many of them; 0 means without limit
    Stories,         \* the stories are 1..Stories
    MaxSessions,     \* bound: how many review sessions are started
    MaxFaults        \* bound: failed writes and resets of the cache

ASSUME ReviewAssumption ==
    /\ IsFiniteSet(Reviewer) /\ Cardinality(Reviewer) <= 5
    /\ Polls \subseteq Reviewer /\ Secondary \subseteq Polls
    /\ Guarded \subseteq Reviewer
    /\ MinReviewers \in Nat \ {0}
    /\ MaxRetries \in Nat
    /\ RetryTimeouts \in BOOLEAN /\ TimeoutRetries \in Nat
    /\ Stories \in Nat \ {0} /\ MaxSessions \in Nat /\ MaxFaults \in Nat

VARIABLES
    pc,        \* what the run is about to do; "off" when there is none
    position,  \* state.yaml: the story and whether it is to be reviewed or
               \* synthesised
    session,   \* the number of review sessions started, and the present one
    task,      \* task[r]: the reviewer task of the present session
    thread,    \* thread[<<s, r>>]: the worker thread of session s that invokes r
    reports,   \* <<story, session, r>>: report r of the session, on disk
    cache,     \* session |-> the reviewers in code-reviews-<session>.json
    loaded,    \* the session and the reviews the synthesis works on
    faults,
    reviewed,  \* history: the last session that completed the review phase
    answered   \* history: <<session, r>>: r answered in time

mailbox == <<task, thread>>
disk == <<reports, cache>>
vars == <<pc, position, session, mailbox, disk, loaded, faults, reviewed,
          answered>>

Session == 1..MaxSessions
Story == 1..Stories
\* A thread waits for a process, which the run may have killed, or is about to
\* start one; left and tries are the timeout retries of its provider and the
\* silent failures of this attempt that it may still answer with another.
Thread == [at : {"none", "process", "killed", "between"},
           left : 0..TimeoutRetries, tries : 0..MaxRetries, second : BOOLEAN]
Idle == [at |-> "none", left |-> 0, tries |-> 0, second |-> FALSE]

\* tripped: the guard ended the first invocation; again: the second one is on.
Task == {"none", "delayed", "running", "tripped", "again", "ok", "saved", "failed"}

Succeeded == {r \in Reviewer : task[r] = "ok"}
Pending == {r \in Reviewer : task[r] \in {"delayed", "running", "tripped", "again"}}
ReportsOf(story) == {p \in reports : p[1] = story}
Cached == {c[1] : c \in cache}

TypeOK ==
    /\ pc \in {"off", "review", "collect", "save", "cache", "advance",
               "synthesis", "synthesise", "done"}
    /\ position \in [story : Story, phase : {"review", "synthesis", "done"}]
    /\ session \in 0..MaxSessions
    /\ task \in [Reviewer -> Task]
    /\ thread \in [Session \X Reviewer -> Thread]
    /\ reports \subseteq Story \X Session \X Reviewer
    /\ cache \subseteq Session \X SUBSET Reviewer
    /\ loaded \in [session : 0..MaxSessions, reviews : SUBSET Reviewer]
    /\ faults \in 0..MaxFaults
    /\ reviewed \in 0..MaxSessions
    /\ answered \subseteq Session \X Reviewer

NothingLoaded == [session |-> 0, reviews |-> {}]
NoThreads == [w \in Session \X Reviewer |-> Idle]
NoTasks == [r \in Reviewer |-> "none"]

Init ==
    /\ pc = "review"
    /\ position = [story |-> 1, phase |-> "review"]
    /\ session = 0
    /\ task = NoTasks /\ thread = NoThreads
    /\ reports = {} /\ cache = {}
    /\ loaded = NothingLoaded
    /\ faults = 0
    /\ reviewed = 0 /\ answered = {}

---------------------------------------------------------------------------
(* The reviewers: _invoke_reviewer around invoke_with_timeout_retry        *)

StartReview ==
    /\ pc = "review"
    /\ session < MaxSessions
    /\ session' = session + 1
    /\ task' = [r \in Reviewer |-> "delayed"]
    /\ pc' = "collect"
    /\ UNCHANGED <<position, thread, disk, loaded, faults, reviewed, answered>>

Silent(r) == IF r \in Polls THEN 0 ELSE MaxRetries
Attempt(r, left, second) ==
    [at |-> "between", left |-> left, tries |-> Silent(r), second |-> second]

\* The thread of an invocation, at its first process.
Invoked(r) == [Attempt(r, TimeoutRetries, FALSE) EXCEPT !.at = "process"]

\* The staggered start is over; or the guard ended the first invocation and the
\* task makes its second.
Invoke(r) ==
    /\ pc = "collect" /\ task[r] \in {"delayed", "tripped"}
    /\ task' = [task EXCEPT ![r] = IF @ = "delayed" THEN "running" ELSE "again"]
    /\ thread' = [thread EXCEPT ![<<session, r>>] = Invoked(r)]
    /\ UNCHANGED <<pc, position, session, disk, loaded, faults, reviewed, answered>>

\* The task of the thread still waits for it; one that outlived its task has
\* nobody to tell.
Listens(s, r) == s = session /\ task[r] \in {"running", "again"}

\* The thread ends.
Settle(s, r, result) ==
    /\ thread' = [thread EXCEPT ![<<s, r>>] = Idle]
    /\ task' = IF Listens(s, r) THEN [task EXCEPT ![r] = result] ELSE task
    /\ answered' = IF Listens(s, r) /\ result = "ok" THEN answered \cup {<<s, r>>}
                   ELSE answered
    /\ UNCHANGED <<pc, position, session, disk, loaded, faults, reviewed>>

\* The thread goes on, and its task does not notice.
GoesOn(s, r, next) ==
    /\ thread' = [thread EXCEPT ![<<s, r>>] = next]
    /\ UNCHANGED <<pc, position, session, task, disk, loaded, faults, reviewed,
                   answered>>

Answers(s, r) ==
    /\ thread[<<s, r>>].at = "process"
    /\ Settle(s, r, "ok")

\* The guard stopped the process, and the task is to invoke the provider once
\* more; what a stopped second invocation has written is an answer.
GuardTrips(s, r) ==
    /\ thread[<<s, r>>].at = "process"
    /\ r \in Guarded /\ Listens(s, r) /\ task[r] = "running"
    /\ Settle(s, r, "tripped")

Dies(s, r) == thread[<<s, r>>].at \in {"process", "killed"}

Fails(s, r) ==
    /\ Dies(s, r)
    /\ Settle(s, r, "failed")

\* A process that failed without a word on stderr, killed or not, is tried
\* again after a pause.
FailsSilently(s, r) ==
    /\ Dies(s, r) /\ thread[<<s, r>>].tries > 0
    /\ GoesOn(s, r, [thread[<<s, r>>] EXCEPT !.at = "between", !.tries = @ - 1])

\* Mutant: one retry too many.
CanRetry_OffByOne(t) == RetryTimeouts /\ (TimeoutRetries = 0 \/ t.left >= 0)
\* Mutant: a retry is not counted.
LeftAfter_NotCounted(t) == t.left

\* A positive number of retries runs out; 0 does not.
CanRetry(t) == RetryTimeouts /\ (TimeoutRetries = 0 \/ t.left > 0)
LeftAfter(t) == IF TimeoutRetries = 0 THEN 0 ELSE t.left - 1

\* The secondary provider has retries of its own, and no secondary.
GoesToSecondary(r, t) == RetryTimeouts /\ ~CanRetry(t) /\ r \in Secondary /\ ~t.second

TimesOut(s, r) ==
    LET t == thread[<<s, r>>] IN
    /\ t.at = "process"
    /\ \/ CanRetry(t) /\ GoesOn(s, r, Attempt(r, LeftAfter(t), t.second))
       \/ GoesToSecondary(r, t) /\ GoesOn(s, r, Attempt(r, TimeoutRetries, TRUE))
       \/ ~CanRetry(t) /\ ~GoesToSecondary(r, t) /\ Settle(s, r, "failed")

\* The next process, whatever the reason for it.  A provider that looks at the
\* cancel token ends it at once if the task has given up.
StartsAgain(s, r) ==
    /\ thread[<<s, r>>].at = "between"
    /\ GoesOn(s, r, IF r \in Polls /\ ~Listens(s, r) THEN Idle
                    ELSE [thread[<<s, r>>] EXCEPT !.at = "process"])

---------------------------------------------------------------------------
(* _collect_code_review_task_results                                       *)

\* kill_all_child_pgids reaches every process, of whatever session, but no
\* thread that is about to start one.
Killed(t) ==
    IF t.at # "process" THEN t
    ELSE IF t.tries > 0 THEN [t EXCEPT !.at = "killed"] ELSE Idle

\* The sweep timeout: every child is killed and every pending task cancelled;
\* each sets its cancel token and kills every child once more, before anything
\* else happens in the event loop.
Sweep ==
    /\ pc = "collect" /\ Pending # {}
    /\ task' = [r \in Reviewer |-> IF r \in Pending THEN "failed" ELSE task[r]]
    /\ thread' = [w \in Session \X Reviewer |-> Killed(thread[w])]
    /\ UNCHANGED <<pc, position, session, disk, loaded, faults, reviewed, answered>>

Collected ==
    /\ pc = "collect" /\ Pending = {}
    /\ pc' = "save"
    /\ UNCHANGED <<position, session, mailbox, disk, loaded, faults, reviewed,
                   answered>>

---------------------------------------------------------------------------
(* run_code_review_phase after the collection, and the handler             *)

Fault ==
    /\ faults < MaxFaults
    /\ faults' = faults + 1

\* One report per success, saved one by one; a failed write is logged and the
\* next report follows.
SaveReport(r) ==
    /\ pc = "save" /\ r \in Succeeded
    /\ task' = [task EXCEPT ![r] = "saved"]
    /\ \/ /\ reports' = reports \cup {<<position.story, session, r>>}
          /\ UNCHANGED faults
       \/ /\ Fault
          /\ UNCHANGED reports
    /\ UNCHANGED <<pc, position, session, thread, cache, loaded,
                   reviewed, answered>>

\* Mutant: the results that are errors are not left out.
Outputs_Unfiltered == {r \in Reviewer : task[r] \in {"saved", "failed"}}

Outputs == {r \in Reviewer : task[r] = "saved"}

\* Mutant: the threshold counts the reviewers that failed, too.
Enough_AnyResult == Cardinality(Reviewer) >= MinReviewers

Enough == Cardinality(Outputs) >= MinReviewers

\* InsufficientReviewsError, after the reports were saved: the phase fails and
\* the loop stops.
Insufficient ==
    /\ pc = "save" /\ Succeeded = {} /\ ~Enough
    /\ pc' = "off"
    /\ task' = NoTasks
    /\ UNCHANGED <<position, session, thread, disk, loaded, faults,
                   reviewed, answered>>

Suffices ==
    /\ pc = "save" /\ Succeeded = {} /\ Enough
    /\ pc' = "cache"
    /\ UNCHANGED <<position, session, mailbox, disk, loaded, faults, reviewed,
                   answered>>

\* save_reviews_for_synthesis; unlike a report, a cache that cannot be written
\* fails the phase.
SaveCache ==
    /\ pc = "cache"
    /\ cache' = cache \cup {<<session, Outputs>>}
    /\ reviewed' = session
    /\ pc' = "advance"
    /\ UNCHANGED <<position, session, mailbox, reports, loaded, faults, answered>>

SaveCacheFails ==
    /\ pc = "cache" /\ Fault
    /\ pc' = "off"
    /\ task' = NoTasks
    /\ UNCHANGED <<position, session, thread, disk, loaded, reviewed,
                   answered>>

\* The loop saves its next phase.
AdvanceToSynthesis ==
    /\ pc = "advance"
    /\ position' = [position EXCEPT !.phase = "synthesis"]
    /\ pc' = "synthesis"
    /\ task' = NoTasks
    /\ UNCHANGED <<session, thread, disk, loaded, faults, reviewed,
                   answered>>

---------------------------------------------------------------------------
(* The synthesis handler                                                   *)

\* Mutant: the reports are sorted, but not in reverse.
Found_Oldest(s) ==
    IF ReportsOf(position.story) # {}
    THEN /\ \E p \in ReportsOf(position.story) : p[2] = s
         /\ \A p \in ReportsOf(position.story) : s <= p[2]
    ELSE s \in Cached /\ \A t \in Cached : t <= s

\* The newest report of the story names the session; without one, the newest
\* cache of any story does.
Found(s) ==
    IF ReportsOf(position.story) # {}
    THEN /\ \E p \in ReportsOf(position.story) : p[2] = s
         /\ \A p \in ReportsOf(position.story) : p[2] <= s
    ELSE s \in Cached /\ \A t \in Cached : t <= s

\* The reviews of the session that its reports hold.
Recovered(s) == {r \in Reviewer : \E story \in Story : <<story, s, r>> \in reports}

\* The cache of the session, or else what its reports hold.
ReviewsOf(s) ==
    IF s \in Cached THEN (CHOOSE c \in cache : c[1] = s)[2] ELSE Recovered(s)

Load ==
    /\ pc = "synthesis"
    /\ \E s \in Session :
        /\ Found(s) /\ ReviewsOf(s) # {}
        /\ loaded' = [session |-> s, reviews |-> ReviewsOf(s)]
    /\ pc' = "synthesise"
    /\ UNCHANGED <<position, session, mailbox, disk, faults, reviewed, answered>>

\* "No code review session found", or no review in it.
LoadFails ==
    /\ pc = "synthesis"
    /\ \A s \in Session : Found(s) => ReviewsOf(s) = {}
    /\ pc' = "off"
    /\ UNCHANGED <<position, session, mailbox, disk, loaded, faults, reviewed,
                   answered>>

\* The master accepts the story, or sends it back to dev_story and review.
Synthesised(next) ==
    /\ pc = "synthesise"
    /\ position' = next
    /\ pc' = IF next.phase = "done" THEN "done" ELSE "review"
    /\ loaded' = NothingLoaded
    /\ UNCHANGED <<session, mailbox, disk, faults, reviewed, answered>>

NextStory ==
    IF position.story < Stories
    THEN [story |-> position.story + 1, phase |-> "review"]
    ELSE [position EXCEPT !.phase = "done"]

Accept == Synthesised(NextStory)
Rework == Synthesised([position EXCEPT !.phase = "review"])

SynthesisFails ==
    /\ pc = "synthesise"
    /\ pc' = "off"
    /\ loaded' = NothingLoaded
    /\ UNCHANGED <<position, session, mailbox, disk, faults, reviewed, answered>>

---------------------------------------------------------------------------
(* The run is killed or started again; the cache directory is reset.       *)

Crash ==
    /\ pc \notin {"off", "done"}
    /\ pc' = "off"
    /\ task' = NoTasks /\ thread' = NoThreads
    /\ loaded' = NothingLoaded
    /\ UNCHANGED <<position, session, disk, faults, reviewed, answered>>

\* A run that ended is a process that ended, its threads with it.
Restart ==
    /\ pc = "off"
    /\ pc' = position.phase
    /\ thread' = NoThreads
    /\ UNCHANGED <<position, session, task, disk, loaded, faults, reviewed, answered>>

ResetCache ==
    /\ cache # {} /\ Fault
    /\ cache' = {}
    /\ UNCHANGED <<pc, position, session, mailbox, reports, loaded, reviewed,
                   answered>>

---------------------------------------------------------------------------
\* The attempt of a thread is over.
AttemptEnds(s, r) ==
    \/ Answers(s, r) \/ GuardTrips(s, r)
    \/ Fails(s, r) \/ FailsSilently(s, r) \/ TimesOut(s, r)

Threads ==
    \/ \E r \in Reviewer : Invoke(r)
    \/ \E s \in Session, r \in Reviewer : AttemptEnds(s, r) \/ StartsAgain(s, r)

Phase ==
    \/ StartReview \/ Collected
    \/ (\E r \in Reviewer : SaveReport(r))
    \/ Insufficient \/ Suffices \/ SaveCache \/ SaveCacheFails
    \/ AdvanceToSynthesis
    \/ Load \/ LoadFails

Synthesis == Accept \/ Rework \/ SynthesisFails

Environment == Crash \/ Restart \/ ResetCache

Next == Threads \/ Sweep \/ Phase \/ Synthesis \/ Environment

Spec == Init /\ [][Next]_vars

\* The sweep has a timeout and the run goes on; a provider call ends, if only
\* by its own timeout.
FairSpec ==
    /\ Spec
    /\ WF_vars(Sweep) /\ WF_vars(Phase)
    /\ \A s \in Session, r \in Reviewer :
        WF_vars(AttemptEnds(s, r) \/ StartsAgain(s, r))

---------------------------------------------------------------------------
(* What the review promises.                                               *)

\* The synthesis works on the last session that completed the review phase,
\* whatever other sessions left on disk: those of other stories, of crashes,
\* of reviews that fell short, of rework.  One report that was written is
\* enough, so it takes as many faults as a review has reports to break this.
SynthesisIsCurrent ==
    pc = "synthesise" /\ faults < MinReviewers => loaded.session = reviewed

\* And on enough reviews, also when one write failed or the cache was lost.
QuorumSynthesised ==
    pc = "synthesise" /\ faults <= 1 => Cardinality(loaded.reviews) >= MinReviewers

\* A review is used only if its reviewer answered before the sweep cancelled
\* it; what a thread that outlived its task says later is not.
AnsweredInTime ==
    \A r \in loaded.reviews : <<loaded.session, r>> \in answered

\* The threads of a session whose task has given up.
Orphans(s) == {r \in Reviewer : thread[<<s, r>>] # Idle /\ ~Listens(s, r)}

\* However the reviewers hang, the collection ends.  The killed processes of the
\* threads that outlive it may be followed by others, but these threads end
\* too, if the retries are finite.
ReviewersEnd ==
    /\ []<>(pc # "collect")
    /\ (RetryTimeouts => TimeoutRetries > 0) =>
           \A s \in Session : []<>(Orphans(s) = {})

=============================================================================
