---------------------------- MODULE Review_proofs ----------------------------
(***************************************************************************)
(* The code review finds its own reviews again, for any reviewers, any     *)
(* threshold, and as many sessions, crashes and failed writes as the       *)
(* properties allow for.                                                   *)
(***************************************************************************)
EXTENDS Review, FiniteSetTheorems, TLAPS

\* The run is where state.yaml says, and tasks are under way in the collection.
RunInPhase ==
    /\ pc \in {"review", "collect", "save", "cache", "advance"} =>
           position.phase = "review"
    /\ pc \in {"synthesis", "synthesise"} => position.phase = "synthesis"
    /\ pc = "done" => position.phase = "done"
    /\ Pending # {} => pc = "collect"

\* What is kept comes from reviewers that answered in time.
KeptAnswered ==
    /\ \A r \in Reviewer :
           task[r] \in {"ok", "saved"} => <<session, r>> \in answered
    /\ \A p \in reports : <<p[2], p[3]>> \in answered
    /\ \A c \in cache : \A r \in c[2] : <<c[1], r>> \in answered
    /\ AnsweredInTime

\* The present session has been through its collection.
InSession == pc \in {"save", "cache", "advance"} \/ position.phase = "synthesis"

\* No session is ahead of the present one, whose reports are of the present
\* story; before a success is saved it has no report.
ReportsInOrder ==
    /\ pc = "collect" \/ InSession => session >= 1
    /\ \A p \in reports :
           /\ p[2] <= session
           /\ pc = "collect" => p[2] < session
           /\ InSession /\ p[2] = session => p[1] = position.story
           /\ pc = "save" /\ p[2] = session => task[p[3]] # "ok"

\* Only a fault keeps a report from disk or takes a cache from it.
FaultsCounted ==
    /\ pc = "collect" => Outputs = {}
    /\ pc = "save" => Cardinality(Recovered(session)) + faults >= Cardinality(Outputs)
    /\ pc = "cache" => /\ Cardinality(Outputs) >= MinReviewers
                       /\ Cardinality(Recovered(session)) + faults >= MinReviewers
    /\ pc = "advance" \/ position.phase = "synthesis" =>
           /\ reviewed = session
           /\ Cardinality(Recovered(session)) + faults >= MinReviewers
           /\ \/ session \in Cached
              \/ Cardinality(Recovered(session)) + faults >= MinReviewers + 1
    /\ \A c \in cache : Cardinality(c[2]) >= MinReviewers

Inv ==
    /\ TypeOK /\ RunInPhase
    /\ KeptAnswered
    /\ ReportsInOrder /\ FaultsCounted
    /\ SynthesisIsCurrent /\ QuorumSynthesised

LEMMA NoOneYet ==
  /\ NoThreads \in [Session \X Reviewer -> Thread]
  /\ NoTasks \in [Reviewer -> Task] /\ \A r \in Reviewer : NoTasks[r] = "none"
  BY ReviewAssumption DEF NoThreads, NoTasks, Thread, Idle, Task

LEMMA InitInv == Init => Inv
<1> SUFFICES ASSUME Init PROVE Inv
  OBVIOUS
<1>1. TypeOK
  BY NoOneYet, ReviewAssumption DEF Init, TypeOK, Story, NothingLoaded
<1>2. RunInPhase
  BY NoOneYet DEF Init, RunInPhase, Pending
<1>3. KeptAnswered /\ ReportsInOrder
  BY DEF Init, KeptAnswered, AnsweredInTime, NoTasks, NothingLoaded,
         ReportsInOrder, InSession
<1>4. FaultsCounted /\ SynthesisIsCurrent /\ QuorumSynthesised
  BY DEF Init, FaultsCounted, SynthesisIsCurrent, QuorumSynthesised
<1> QED
  BY <1>1, <1>2, <1>3, <1>4 DEF Inv

---------------------------------------------------------------------------
(* Types and threads.                                                      *)

LEMMA ThreadTypes ==
  ASSUME NEW r \in Reviewer, NEW left \in 0..TimeoutRetries, NEW second \in BOOLEAN
  PROVE  /\ Idle \in Thread
         /\ Attempt(r, left, second) \in Thread
         /\ Invoked(r) \in Thread
<1>1. Silent(r) \in 0..MaxRetries /\ 0 \in 0..MaxRetries
  BY ReviewAssumption DEF Silent
<1>2. 0 \in 0..TimeoutRetries /\ TimeoutRetries \in 0..TimeoutRetries
  BY ReviewAssumption
<1> QED
  BY <1>1, <1>2 DEF Idle, Attempt, Invoked, Thread

LEMMA LeftType ==
  ASSUME NEW t \in Thread, CanRetry(t)
  PROVE  LeftAfter(t) \in 0..TimeoutRetries
  BY ReviewAssumption DEF CanRetry, LeftAfter, Thread

\* What a step of a thread does, whichever it is.
LEMMA ThreadEnds ==
  ASSUME Inv, NEW s \in Session, NEW r \in Reviewer, NEW result \in Task,
         Settle(s, r, result), result \notin {"delayed", "running", "again"},
         result = "tripped" => pc = "collect"
  PROVE  TypeOK' /\ RunInPhase'
<1> USE DEF Inv, TypeOK, RunInPhase
<1>1. Idle \in Thread
  BY ReviewAssumption, ThreadTypes
<1>2. thread' \in [Session \X Reviewer -> Thread]
  BY <1>1 DEF Settle
<1>3. task' \in [Reviewer -> Task]
  BY DEF Settle
<1>4. Pending' # {} => pc = "collect"
  BY DEF Settle, Pending
<1> QED
  BY <1>2, <1>3, <1>4 DEF Settle, disk

LEMMA ThreadGoesOn ==
  ASSUME Inv, NEW s \in Session, NEW r \in Reviewer, NEW next \in Thread,
         GoesOn(s, r, next)
  PROVE  TypeOK' /\ RunInPhase'
  BY DEF Inv, TypeOK, RunInPhase, GoesOn, Pending, disk

LEMMA InvokeStep ==
  ASSUME Inv, NEW r \in Reviewer, Invoke(r)
  PROVE  TypeOK' /\ RunInPhase'
<1> USE DEF Inv, TypeOK, RunInPhase
<1>1. Invoked(r) \in Thread
  BY ReviewAssumption, ThreadTypes
<1>2. thread' \in [Session \X Reviewer -> Thread] /\ task' \in [Reviewer -> Task]
  BY <1>1 DEF Invoke, Task
<1> QED
  BY <1>2 DEF Invoke, disk

LEMMA ThreadStep ==
  ASSUME Inv, NEW s \in Session, NEW r \in Reviewer,
         AttemptEnds(s, r) \/ StartsAgain(s, r)
  PROVE  TypeOK' /\ RunInPhase'
<1> DEFINE t == thread[<<s, r>>]
<1>0. /\ t \in Thread /\ t.left \in 0..TimeoutRetries /\ t.second \in BOOLEAN
      /\ t.tries \in Nat /\ TimeoutRetries \in 0..TimeoutRetries
  BY ReviewAssumption DEF Inv, TypeOK, Thread
<1>1. CASE Answers(s, r)
  BY <1>1, ThreadEnds DEF Answers, Task
<1>2. CASE GuardTrips(s, r)
  <2>1. r \in Pending
    BY <1>2 DEF GuardTrips, Listens, Pending
  <2> QED
    BY <1>2, <2>1, ThreadEnds DEF GuardTrips, Task, Inv, RunInPhase
<1>3. CASE Fails(s, r)
  BY <1>3, ThreadEnds DEF Fails, Task
<1>4. CASE FailsSilently(s, r)
  <2>0. t.tries \in 0..MaxRetries /\ t.tries > 0
    BY <1>0, <1>4 DEF FailsSilently, Thread
  <2>2. t.tries - 1 \in 0..MaxRetries
    BY <2>0, ReviewAssumption
  <2>1. [t EXCEPT !.at = "between", !.tries = @ - 1] \in Thread
    BY <1>0, <2>2 DEF Thread
  <2> QED
    BY <1>4, <2>1, ThreadGoesOn DEF FailsSilently
<1>5. CASE TimesOut(s, r)
  <2>1. CASE CanRetry(t) /\ GoesOn(s, r, Attempt(r, LeftAfter(t), t.second))
    <3>1. LeftAfter(t) \in 0..TimeoutRetries
      BY <1>0, <2>1, LeftType
    <3>2. Attempt(r, LeftAfter(t), t.second) \in Thread
      BY <1>0, <3>1, ThreadTypes
    <3> QED
      BY <2>1, <3>2, ThreadGoesOn
  <2>2. CASE GoesOn(s, r, Attempt(r, TimeoutRetries, TRUE))
    BY <1>0, <2>2, ThreadTypes, ThreadGoesOn
  <2>3. CASE Settle(s, r, "failed")
    BY <2>3, ThreadEnds DEF Task
  <2> QED
    BY <1>5, <2>1, <2>2, <2>3 DEF TimesOut
<1>6. CASE StartsAgain(s, r)
  <2>1. Idle \in Thread /\ [t EXCEPT !.at = "process"] \in Thread
    BY <1>0, ThreadTypes DEF Thread
  <2> QED
    BY <1>6, <2>1, ThreadGoesOn DEF StartsAgain
<1> QED
  BY <1>1, <1>2, <1>3, <1>4, <1>5, <1>6 DEF AttemptEnds

LEMMA CollectStep ==
  ASSUME Inv, StartReview \/ Sweep \/ Collected
  PROVE  TypeOK' /\ RunInPhase'
<1> USE DEF Inv, TypeOK, RunInPhase
<1>1. CASE StartReview
  BY <1>1, ReviewAssumption DEF StartReview, disk, Task
<1>2. CASE Sweep
  <2>1. Idle \in Thread /\ \A t \in Thread : Killed(t) \in Thread
    BY ReviewAssumption DEF Killed, Idle, Thread
  <2>2. thread' \in [Session \X Reviewer -> Thread] /\ task' \in [Reviewer -> Task]
    BY <1>2, <2>1 DEF Sweep, Task
  <2> QED
    BY <1>2, <2>2 DEF Sweep, disk
<1>3. CASE Collected
  BY <1>3 DEF Collected, mailbox, disk, Pending
<1> QED
  BY <1>1, <1>2, <1>3

LEMMA PhaseStep ==
  ASSUME Inv, \/ (\E r \in Reviewer : SaveReport(r))
              \/ Insufficient \/ Suffices \/ SaveCache \/ SaveCacheFails
              \/ AdvanceToSynthesis \/ Load \/ LoadFails
  PROVE  TypeOK' /\ RunInPhase'
<1> USE DEF Inv, TypeOK, RunInPhase, Pending
<1>1. CASE \E r \in Reviewer : SaveReport(r)
  <2> PICK r \in Reviewer : SaveReport(r)
    BY <1>1
  <2>1. position.story \in Story /\ session \in Session
    BY ReviewAssumption DEF SaveReport, ReportsInOrder, InSession, Session
  <2>2. task' \in [Reviewer -> Task]
    BY DEF SaveReport, Task
  <2>3. Pending' \subseteq Pending
    BY DEF SaveReport
  <2> QED
    BY <2>1, <2>2, <2>3, ReviewAssumption DEF SaveReport, Fault
<1>2. CASE Insufficient \/ SaveCacheFails \/ AdvanceToSynthesis
  BY <1>2, NoOneYet, ReviewAssumption
  DEF Insufficient, SaveCacheFails, AdvanceToSynthesis, Fault, disk
<1>3. CASE SaveCache
  <2>1. session \in Session /\ Outputs \subseteq Reviewer
    BY <1>3, ReviewAssumption DEF SaveCache, ReportsInOrder, InSession, Session,
                                  Outputs
  <2> QED
    BY <1>3, <2>1 DEF SaveCache, mailbox
<1>4. CASE Load
  <2> PICK s \in Session : loaded' = [session |-> s, reviews |-> ReviewsOf(s)]
    BY <1>4 DEF Load
  <2>1. s \in 0..MaxSessions /\ ReviewsOf(s) \subseteq Reviewer
    BY ReviewAssumption DEF ReviewsOf, Cached, Recovered, Session
  <2> QED
    BY <1>4, <2>1 DEF Load, mailbox, disk
<1>5. CASE Suffices \/ LoadFails
  BY <1>5 DEF Suffices, LoadFails, mailbox, disk
<1> QED
  BY <1>1, <1>2, <1>3, <1>4, <1>5

LEMMA SynthesisStep ==
  ASSUME Inv, Synthesis
  PROVE  TypeOK' /\ RunInPhase'
<1> USE DEF Inv, TypeOK, RunInPhase, Pending
<1>1. NothingLoaded \in [session : 0..MaxSessions, reviews : SUBSET Reviewer]
  BY ReviewAssumption DEF NothingLoaded
<1>2. CASE Accept
  <2>1. /\ NextStory \in [story : Story, phase : {"review", "synthesis", "done"}]
        /\ NextStory.phase \in {"review", "done"}
    BY ReviewAssumption DEF NextStory, Story
  <2> QED
    BY <1>1, <1>2, <2>1 DEF Accept, Synthesised, mailbox, disk
<1>3. CASE Rework
  BY <1>1, <1>3 DEF Rework, Synthesised, mailbox, disk
<1>4. CASE SynthesisFails
  BY <1>1, <1>4 DEF SynthesisFails, mailbox, disk
<1> QED
  BY <1>2, <1>3, <1>4 DEF Synthesis

LEMMA EnvironmentStep ==
  ASSUME Inv, Environment
  PROVE  TypeOK' /\ RunInPhase'
<1> USE DEF Inv, TypeOK, RunInPhase, Pending
<1>1. CASE Crash
  BY <1>1, NoOneYet, ReviewAssumption DEF Crash, NothingLoaded, disk
<1>2. CASE Restart
  BY <1>2, NoOneYet DEF Restart, disk
<1>3. CASE ResetCache
  BY <1>3, ReviewAssumption DEF ResetCache, Fault, mailbox
<1> QED
  BY <1>1, <1>2, <1>3 DEF Environment

\* Types, phases and threads, whatever the step.
LEMMA TypeStep ==
  ASSUME Inv, [Next]_vars
  PROVE  TypeOK' /\ RunInPhase'
<1>1. CASE UNCHANGED vars
  BY <1>1 DEF vars, mailbox, disk, Inv, TypeOK, RunInPhase, Pending
<1> QED
  BY <1>1, InvokeStep, ThreadStep, CollectStep, PhaseStep, SynthesisStep,
     EnvironmentStep
  DEF Next, Threads, Phase

\* A thread tells its task only in the collection of its own session.
LEMMA ThreadEffect ==
  ASSUME Inv, NEW s \in Session, NEW r \in Reviewer,
         AttemptEnds(s, r) \/ StartsAgain(s, r)
  PROVE  /\ UNCHANGED <<pc, position, session, reports, cache, loaded, faults, reviewed>>
         /\ \/ UNCHANGED <<task, answered>>
            \/ /\ pc = "collect"
               /\ \E result \in {"ok", "tripped", "failed"} :
                     /\ task' = [task EXCEPT ![r] = result]
                     /\ answered' = IF result = "ok"
                                    THEN answered \cup {<<session, r>>} ELSE answered
<1>1. ASSUME NEW result \in {"ok", "tripped", "failed"}, Settle(s, r, result)
      PROVE  /\ UNCHANGED <<pc, position, session, reports, cache, loaded, faults, reviewed>>
             /\ \/ UNCHANGED <<task, answered>>
                \/ /\ pc = "collect"
                   /\ task' = [task EXCEPT ![r] = result]
                   /\ answered' = IF result = "ok"
                                  THEN answered \cup {<<session, r>>} ELSE answered
  <2>1. CASE Listens(s, r)
    <3>1. s = session /\ r \in Pending
      BY <2>1 DEF Listens, Pending
    <3>2. pc = "collect"
      BY <3>1 DEF Inv, RunInPhase
    <3> QED
      BY <1>1, <2>1, <3>1, <3>2 DEF Settle, disk
  <2>2. CASE ~Listens(s, r)
    BY <1>1, <2>2 DEF Settle, disk
  <2> QED
    BY <2>1, <2>2
<1>2. ASSUME NEW next, GoesOn(s, r, next)
      PROVE  UNCHANGED <<pc, position, session, task, reports, cache, loaded, faults,
                         reviewed, answered>>
  BY <1>2 DEF GoesOn, disk
<1>3. \/ \E result \in {"ok", "tripped", "failed"} : Settle(s, r, result)
      \/ \E next : GoesOn(s, r, next)
  BY DEF AttemptEnds, Answers, GuardTrips, Fails, FailsSilently, TimesOut, StartsAgain
<1> QED
  BY <1>1, <1>2, <1>3

---------------------------------------------------------------------------
(* What is kept.                                                           *)

\* The cache of a session gives one of the reviews it was saved with.
LEMMA CachedReviews ==
  ASSUME NEW s \in Cached
  PROVE  \E c \in cache : c[1] = s /\ ReviewsOf(s) = c[2]
  BY DEF Cached, ReviewsOf

LEMMA AnsweredStep ==
  ASSUME Inv, [Next]_vars
  PROVE  KeptAnswered'
<1> USE DEF Inv, KeptAnswered, AnsweredInTime
<1>1. ASSUME NEW s \in Session, NEW r \in Reviewer,
             AttemptEnds(s, r) \/ StartsAgain(s, r)
      PROVE  KeptAnswered'
  <2>1. UNCHANGED <<session, reports, cache, loaded>>
    BY <1>1, ThreadEffect
  <2>2. answered \subseteq answered'
    BY <1>1, ThreadEffect
  <2>3. \A q \in Reviewer : task'[q] \in {"ok", "saved"} => <<session, q>> \in answered'
    BY <1>1, ThreadEffect DEF TypeOK
  <2> QED
    BY <2>1, <2>2, <2>3
<1>2. ASSUME NEW r \in Reviewer, Invoke(r)
      PROVE  KeptAnswered'
  BY <1>2 DEF Invoke, TypeOK, disk
<1>4. CASE StartReview \/ Sweep \/ Collected
  BY <1>4 DEF StartReview, Sweep, Collected, TypeOK, disk, mailbox
<1>5. ASSUME NEW r \in Reviewer, SaveReport(r)
      PROVE  KeptAnswered'
  <2>1. <<session, r>> \in answered
    BY <1>5 DEF SaveReport, Succeeded
  <2> QED
    BY <1>5, <2>1 DEF SaveReport, TypeOK
<1>6. CASE Insufficient \/ SaveCacheFails \/ AdvanceToSynthesis
  BY <1>6 DEF Insufficient, SaveCacheFails, AdvanceToSynthesis, NoTasks, disk
<1>7. CASE SaveCache
  <2>1. \A r \in Outputs : <<session, r>> \in answered
    BY DEF Outputs
  <2>2. reports' = reports /\ task' = task /\ loaded' = loaded
        /\ answered' = answered /\ session' = session
        /\ cache' = cache \cup {<<session, Outputs>>}
    BY <1>7 DEF SaveCache, mailbox
  <2> QED
    BY <2>1, <2>2
<1>8. CASE Load
  <2> PICK s \in Session : loaded' = [session |-> s, reviews |-> ReviewsOf(s)]
    BY <1>8 DEF Load
  <2>1. \A r \in ReviewsOf(s) : <<s, r>> \in answered
    <3>1. CASE s \in Cached
      BY <3>1, CachedReviews
    <3>2. CASE s \notin Cached
      BY <3>2 DEF ReviewsOf, Recovered
    <3> QED
      BY <3>1, <3>2
  <2> QED
    BY <1>8, <2>1 DEF Load, mailbox, disk
<1>9. CASE Suffices \/ LoadFails \/ Synthesis
  BY <1>9 DEF Suffices, LoadFails, Synthesis, Accept, Rework, Synthesised,
              SynthesisFails, NothingLoaded, mailbox, disk
<1>10. CASE Environment
  BY <1>10 DEF Environment, Crash, Restart, ResetCache, NoTasks, NothingLoaded,
               mailbox, disk
<1>11. CASE UNCHANGED vars
  BY <1>11 DEF vars, mailbox, disk
<1> QED
  BY <1>1, <1>2, <1>4, <1>5, <1>6, <1>7, <1>8, <1>9, <1>10, <1>11
  DEF Next, Threads, Phase

LEMMA OrderStep ==
  ASSUME Inv, [Next]_vars
  PROVE  ReportsInOrder'
<1> USE DEF Inv, ReportsInOrder, InSession
<1>0. session \in Nat /\ \A p \in reports : p[2] \in Nat /\ p[3] \in Reviewer
  BY ReviewAssumption DEF TypeOK, Session
<1>1. CASE Threads
  <2>1. UNCHANGED <<pc, position, session, reports>>
    BY <1>1, ThreadEffect DEF Threads, Invoke, disk
  <2>2. pc = "save" => task' = task
    BY <1>1, ThreadEffect DEF Threads, Invoke
  <2> QED
    BY <2>1, <2>2
<1>2. CASE StartReview
  BY <1>0, <1>2 DEF StartReview, disk, RunInPhase
<1>3. CASE Sweep \/ Collected
  BY <1>0, <1>3 DEF Sweep, Collected, mailbox, disk, RunInPhase
<1>4. ASSUME NEW r \in Reviewer, SaveReport(r)
      PROVE  ReportsInOrder'
  <2>1. /\ pc = "save" /\ UNCHANGED <<pc, position, session>>
        /\ task' = [task EXCEPT ![r] = "saved"]
        /\ reports' \subseteq reports \cup {<<position.story, session, r>>}
    BY <1>4 DEF SaveReport
  <2> QED
    BY <1>0, <2>1 DEF TypeOK
<1>5. CASE Insufficient \/ Suffices \/ SaveCache \/ SaveCacheFails
            \/ AdvanceToSynthesis
  BY <1>0, <1>5 DEF Insufficient, Suffices, SaveCache, SaveCacheFails,
     AdvanceToSynthesis, mailbox, disk, RunInPhase, TypeOK
<1>6. CASE Load \/ LoadFails
  BY <1>6 DEF Load, LoadFails, mailbox, disk, RunInPhase
<1>7. CASE Synthesis
  <2>1. UNCHANGED <<session, reports>> /\ pc' \in {"done", "review", "off"}
        /\ (position' = position \/ position'.phase # "synthesis")
    BY <1>7 DEF Synthesis, Accept, Rework, Synthesised, SynthesisFails, NextStory,
                mailbox, disk, TypeOK
  <2> QED
    BY <2>1, <1>7 DEF Synthesis, Accept, Rework, Synthesised, SynthesisFails,
                      RunInPhase
<1>8. CASE Environment
  BY <1>8 DEF Environment, Crash, Restart, ResetCache, mailbox, disk, TypeOK
<1>9. CASE UNCHANGED vars
  BY <1>9 DEF vars, mailbox, disk
<1> QED
  BY <1>1, <1>2, <1>3, <1>4, <1>5, <1>6, <1>7, <1>8, <1>9
  DEF Next, Threads, Phase

LEMMA Sizes ==
  ASSUME NEW S \in SUBSET Reviewer
  PROVE  IsFiniteSet(S) /\ Cardinality(S) \in Nat
         /\ (S # {} => Cardinality(S) >= 1)
  BY ReviewAssumption, FS_Subset, FS_CardinalityType, FS_EmptySet

LEMMA CountsAreNumbers ==
  ASSUME Inv
  PROVE  /\ Recovered(session) \in SUBSET Reviewer /\ Outputs \in SUBSET Reviewer
         /\ Cardinality(Recovered(session)) \in Nat
         /\ Cardinality(Outputs) \in Nat
         /\ faults \in Nat /\ MinReviewers \in Nat /\ session \in Nat
         /\ \A c \in cache : c[2] \in SUBSET Reviewer /\ Cardinality(c[2]) \in Nat
<1>1. Recovered(session) \in SUBSET Reviewer /\ Outputs \in SUBSET Reviewer
  BY DEF Recovered, Outputs
<1>2. \A c \in cache : c[2] \in SUBSET Reviewer
  BY DEF Inv, TypeOK
<1> QED
  BY <1>1, <1>2, Sizes, ReviewAssumption DEF Inv, TypeOK

\* A success is saved: one more output, and one more report or fault.
LEMMA SaveCounts ==
  ASSUME Inv, NEW r \in Reviewer, SaveReport(r)
  PROVE  FaultsCounted'
<1> USE DEF Inv
<1>0. position.story \in Story /\ position.phase = "review"
      /\ task[r] = "ok" /\ r \notin Outputs /\ r \notin Recovered(session)
  BY DEF SaveReport, Succeeded, TypeOK, RunInPhase, Outputs, Recovered,
         ReportsInOrder
<1>1. Outputs' = Outputs \cup {r}
  BY DEF SaveReport, Outputs, TypeOK
<1>2. Cardinality(Outputs') = Cardinality(Outputs) + 1
  BY <1>0, <1>1, CountsAreNumbers, Sizes, FS_AddElement
<1>3. \/ /\ Recovered(session)' = Recovered(session) \cup {r} /\ faults' = faults
      \/ Recovered(session)' = Recovered(session) /\ faults' = faults + 1
  BY <1>0 DEF SaveReport, Fault, Recovered
<1>4. Cardinality(Recovered(session)') + faults'
          = Cardinality(Recovered(session)) + faults + 1
  <2>1. CASE Recovered(session)' = Recovered(session) \cup {r} /\ faults' = faults
    BY <1>0, <2>1, CountsAreNumbers, Sizes, FS_AddElement
  <2>2. CASE Recovered(session)' = Recovered(session) /\ faults' = faults + 1
    BY <2>2, CountsAreNumbers
  <2> QED
    BY <1>3, <2>1, <2>2
<1>5. pc' = "save" /\ position' = position /\ cache' = cache
  BY DEF SaveReport
<1> QED
  BY <1>0, <1>2, <1>4, <1>5, CountsAreNumbers DEF FaultsCounted, SaveReport

LEMMA CountStep ==
  ASSUME Inv, [Next]_vars
  PROVE  FaultsCounted'
<1> USE DEF Inv, FaultsCounted
<1>0. /\ faults \in Nat /\ MinReviewers \in Nat
      /\ Cardinality(Recovered(session)) \in Nat
      /\ Cardinality(Outputs) \in Nat
      /\ Cardinality({}) = 0
  BY CountsAreNumbers, FS_EmptySet
<1>1. CASE Threads
  <2>1. UNCHANGED <<pc, position, session, reports, cache, faults, reviewed>>
    BY <1>1, ThreadEffect DEF Threads, Invoke, disk
  <2>2. pc # "collect" => Outputs' = Outputs
    BY <1>1, ThreadEffect DEF Threads, Invoke, Outputs
  <2>3. pc = "collect" => Outputs' \subseteq Outputs
    BY <1>1, ThreadEffect DEF Threads, Invoke, Outputs, TypeOK
  <2> QED
    BY <2>1, <2>2, <2>3 DEF Recovered, Cached
<1>2. CASE StartReview \/ Sweep
  <2>1. pc' = "collect" /\ UNCHANGED <<position, cache>> /\ Outputs' = {}
    BY <1>2 DEF StartReview, Sweep, disk, Outputs
  <2>2. position.phase = "review"
    BY <1>2 DEF StartReview, Sweep, RunInPhase
  <2> QED
    BY <2>1, <2>2
<1>3. CASE Collected
  <2>1. pc = "collect" /\ pc' = "save" /\ Outputs' = Outputs
        /\ UNCHANGED <<position, session, reports, cache, faults, reviewed>>
    BY <1>3 DEF Collected, mailbox, disk, Outputs
  <2>2. Outputs' = {} /\ Recovered(session)' = Recovered(session)
    BY <2>1 DEF Recovered
  <2>3. Cardinality(Recovered(session)') + faults' >= Cardinality(Outputs')
    BY <1>0, <2>1, <2>2
  <2> QED
    BY <2>1, <2>3 DEF RunInPhase
<1>4. ASSUME NEW r \in Reviewer, SaveReport(r)
      PROVE  FaultsCounted'
  BY <1>4, SaveCounts
<1>5. CASE Insufficient \/ SaveCacheFails
  BY <1>5 DEF Insufficient, SaveCacheFails, RunInPhase, disk
<1>6. CASE Suffices
  <2>1. pc = "save" /\ pc' = "cache" /\ Outputs' = Outputs
        /\ UNCHANGED <<position, session, reports, cache, faults, reviewed>>
    BY <1>6 DEF Suffices, mailbox, disk, Outputs
  <2> QED
    BY <1>0, <1>6, <2>1 DEF Suffices, Enough, Recovered, RunInPhase
<1>7. CASE SaveCache
  <2>1. pc = "cache" /\ pc' = "advance" /\ reviewed' = session'
        /\ cache' = cache \cup {<<session, Outputs>>}
        /\ UNCHANGED <<position, session, reports, faults>>
    BY <1>7 DEF SaveCache, mailbox
  <2>2. <<session, Outputs>> \in cache' /\ <<session, Outputs>>[1] = session'
    BY <2>1
  <2>3. session' \in Cached'
    BY <2>2, Zenon DEF Cached
  <2> QED
    BY <1>0, <2>1, <2>3 DEF Recovered, RunInPhase
<1>8. CASE AdvanceToSynthesis
  BY <1>8 DEF AdvanceToSynthesis, disk, Recovered, Cached
<1>9. CASE Load \/ LoadFails
  <2>1. UNCHANGED <<position, session, reports, cache, faults, reviewed>>
        /\ pc = "synthesis" /\ pc' \in {"synthesise", "off"}
    BY <1>9 DEF Load, LoadFails, mailbox, disk
  <2> QED
    BY <2>1 DEF Recovered, Cached, RunInPhase
<1>10. CASE Synthesis
  <2>1. /\ UNCHANGED <<session, reports, cache, faults, reviewed>>
        /\ pc' \in {"done", "review", "off"} /\ pc = "synthesise"
        /\ (position' = position \/ position'.phase # "synthesis")
    BY <1>10 DEF Synthesis, Accept, Rework, Synthesised, SynthesisFails, NextStory,
                 mailbox, disk, TypeOK
  <2> QED
    BY <2>1 DEF Recovered, Cached, RunInPhase
<1>11. CASE Crash \/ Restart
  <2>1. UNCHANGED <<position, session, reports, cache, faults, reviewed>>
        /\ pc' \in {"off", position.phase}
    BY <1>11 DEF Crash, Restart, disk
  <2>2. position.phase \in {"review", "synthesis", "done"}
    BY DEF TypeOK
  <2> QED
    BY <2>1, <2>2 DEF Recovered, Cached
<1>12. CASE ResetCache
  <2>1. UNCHANGED <<pc, position, session, task, reports, reviewed>>
        /\ faults' = faults + 1 /\ cache' = {}
    BY <1>12 DEF ResetCache, Fault, mailbox
  <2> QED
    BY <1>0, <2>1 DEF Recovered, Outputs
<1>13. CASE UNCHANGED vars
  BY <1>13 DEF vars, mailbox, disk, Recovered, Outputs, Cached
<1> QED
  BY <1>1, <1>2, <1>3, <1>4, <1>5, <1>6, <1>7, <1>8, <1>9, <1>10, <1>11, <1>12,
     <1>13
  DEF Next, Threads, Phase, Environment

---------------------------------------------------------------------------
(* What the synthesis finds.                                               *)

LEMMA FoundIsCurrent ==
  ASSUME Inv, NEW s \in Session, pc = "synthesis", Found(s),
         faults < MinReviewers
  PROVE  s = session
<1>1. position.phase = "synthesis"
  BY DEF Inv, RunInPhase
<1>2. Cardinality(Recovered(session)) + faults >= MinReviewers
  BY <1>1 DEF Inv, FaultsCounted
<1>3. Recovered(session) # {}
  BY <1>2, CountsAreNumbers, FS_EmptySet
<1>4. PICK p \in reports : p[2] = session
  BY <1>3 DEF Recovered
<1>5. p \in ReportsOf(position.story)
  BY <1>1, <1>4 DEF Inv, ReportsInOrder, InSession, ReportsOf
<1>6. session <= s
  BY <1>4, <1>5 DEF Found
<1>7. s <= session
  BY <1>5 DEF Found, ReportsOf, Inv, ReportsInOrder
<1> QED
  BY <1>6, <1>7, CountsAreNumbers DEF Session

LEMMA QuorumFound ==
  ASSUME Inv, NEW s \in Session, pc = "synthesis", Found(s), ReviewsOf(s) # {},
         faults <= 1
  PROVE  Cardinality(ReviewsOf(s)) >= MinReviewers
<1>1. position.phase = "synthesis"
  BY DEF Inv, RunInPhase
<1>2. CASE s \in Cached
  BY <1>2, CachedReviews DEF Inv, FaultsCounted
<1>3. CASE s \notin Cached /\ faults < MinReviewers
  <2>1. s = session
    BY <1>3, FoundIsCurrent
  <2>2. Cardinality(Recovered(session)) + faults >= MinReviewers + 1
    BY <1>1, <1>3, <2>1 DEF Inv, FaultsCounted
  <2> QED
    BY <1>3, <2>1, <2>2, CountsAreNumbers DEF ReviewsOf
<1>4. CASE s \notin Cached /\ faults >= MinReviewers
  <2>1. MinReviewers = 1
    BY <1>4, ReviewAssumption, CountsAreNumbers
  <2>2. ReviewsOf(s) \in SUBSET Reviewer
    BY <1>4 DEF ReviewsOf, Recovered
  <2> QED
    BY <2>1, <2>2, Sizes
<1> QED
  BY <1>2, <1>3, <1>4, CountsAreNumbers

LEMMA SynthesisedStep ==
  ASSUME Inv, [Next]_vars
  PROVE  SynthesisIsCurrent' /\ QuorumSynthesised'
<1> USE DEF Inv, SynthesisIsCurrent, QuorumSynthesised
<1>1. CASE Load
  <2> PICK s \in Session : Found(s) /\ ReviewsOf(s) # {}
                           /\ loaded' = [session |-> s, reviews |-> ReviewsOf(s)]
    BY <1>1 DEF Load
  <2>1. pc = "synthesis" /\ faults' = faults /\ reviewed' = reviewed
    BY <1>1 DEF Load
  <2>2. reviewed = session
    BY <2>1 DEF RunInPhase, FaultsCounted
  <2> QED
    BY <2>1, <2>2, FoundIsCurrent, QuorumFound
<1>2. CASE ~Load
  <2>1. pc' = "synthesise" => pc = "synthesise" /\ UNCHANGED <<loaded, reviewed>>
                              /\ faults' \in {faults, faults + 1}
    <3>1. CASE Threads
      BY <3>1, ThreadEffect DEF Threads, Invoke
    <3>2. CASE ~Threads
      BY <1>2, <3>2
      DEF Next, vars, Phase, Synthesis, Environment, StartReview, Sweep, Collected,
          SaveReport, Insufficient, Suffices, SaveCache, SaveCacheFails,
          AdvanceToSynthesis, LoadFails, Accept, Rework, Synthesised,
          SynthesisFails, Crash, Restart, ResetCache, Fault, TypeOK
    <3> QED
      BY <3>1, <3>2
  <2> QED
    BY <2>1, CountsAreNumbers
<1> QED
  BY <1>1, <1>2

LEMMA Invariance == Spec => []Inv
<1>1. Inv /\ [Next]_vars => Inv'
  BY TypeStep, AnsweredStep, OrderStep, CountStep, SynthesisedStep DEF Inv
<1> QED
  BY <1>1, InitInv, PTL DEF Spec

\* The variables keep their types: no thread has more retries than configured,
\* no session is unknown.
THEOREM ReviewTypes == Spec => []TypeOK
  BY Invariance, PTL DEF Inv

\* No answer of a failed or cancelled reviewer is ever synthesised.
THEOREM OnlyTimelyAnswers == Spec => []AnsweredInTime
  BY Invariance, PTL DEF Inv, KeptAnswered

\* Unless as many writes failed as a review has reports, the synthesis works on
\* the reviews of the session that completed last.
THEOREM SynthesisFindsItsSession == Spec => []SynthesisIsCurrent
  BY Invariance, PTL DEF Inv

\* With one fault at most, it works on enough of them.
THEOREM SynthesisHasQuorum == Spec => []QuorumSynthesised
  BY Invariance, PTL DEF Inv

=============================================================================
