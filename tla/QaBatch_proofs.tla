--------------------------- MODULE QaBatch_proofs ---------------------------
(***************************************************************************)
(* Batches survive, runs are complete and passed tests stay passed, for    *)
(* any number of tests, any batch size and any number of runs.             *)
(***************************************************************************)
EXTENDS QaBatch, TLAPS, FiniteSetTheorems

Got == {p[1] : p \in got}

\* A command works with run ids that were drawn, on a run that exists if it is
\* a retry, and what is beyond the last id drawn is untouched.
JobPlaced ==
    /\ \A r \in Run : r > now =>
           ~files[r].exists /\ files[r].records = {} /\ ran[r] = {}
    /\ pc # "idle" =>
        /\ job.category # "none"
        /\ job.run \in 1..now
        /\ job.category = "all" => job.combined \in 1..now
        /\ job.category # "all" => job.combined = 0
        /\ job.origin # 0 => job.run = job.origin /\ files[job.origin].exists

\* The file of a combined run is new, unless it is that of the command itself.
CombinedApart ==
    pc # "idle" /\ job.category = "all" =>
        IF job.combined = job.run THEN job.origin = 0
        ELSE ~files[job.combined].exists /\ ran[job.combined] = {}

\* Tests are taken by one batch each, and a retry takes none that passed.
TestsApart ==
    /\ Got \cap todo = {}
    /\ pc # "idle" /\ job.origin = 0 =>
        /\ got \subseteq A \X Status
        /\ \A p, q \in got : p[1] = q[1] => p = q
    /\ pc \in {"batch", "save", "finish"} /\ job.origin # 0 =>
        \A t \in todo \cup Got :
            \/ t \in WithStatus(job.origin, "FAIL") \cup WithStatus(job.origin, "SKIP")
            \/ t \notin Recorded(job.origin)

\* What a new run saved and executed, it holds in memory; before a batch all
\* it executed is saved.
SavedFromMemory ==
    pc # "idle" /\ job.origin = 0 =>
        /\ files[job.run].exists =>
            files[job.run].loadable /\ files[job.run].records \subseteq got
        /\ ran[job.run] \subseteq Got
        /\ pc = "batch" => ran[job.run] \subseteq Recorded(job.run)

\* A new run has every test of category A in a batch or before it.
TestsCovered ==
    /\ pc \in {"playwright", "combine"} => browse # {}
    /\ pc \in {"finish", "playwright", "combine"} => todo = {}
    /\ pc # "idle" /\ job.origin = 0 =>
        /\ job.category \in {"A", "all"} => A \subseteq todo \cup Got
        /\ job.category = "A" => browse = {}
        /\ job.category = "all" => browse # {}

\* Only a file that an LLM wrote itself cannot be loaded.
UnloadableUnbatched ==
    \A r \in Run : files[r].exists /\ ~files[r].loadable => ran[r] = {}

Inv ==
    /\ TypeOK /\ JobPlaced /\ CombinedApart /\ TestsApart /\ SavedFromMemory
    /\ TestsCovered /\ UnloadableUnbatched /\ BatchesSurvive /\ RunIsComplete
-----------------------------------------------------------------------------
(* Finite sets.                                                            *)

\* The first elements of a set, by the number of those before them: they have
\* different numbers.
LEMMA FirstAreFew ==
    ASSUME NEW n \in Nat, NEW T, T \subseteq 1..n, NEW size \in Nat
    PROVE  /\ IsFiniteSet({t \in T : Cardinality({u \in T : u < t}) < size})
           /\ Cardinality({t \in T : Cardinality({u \in T : u < t}) < size}) <= size
<1> DEFINE before(t) == {u \in T : u < t}
           first == {t \in T : Cardinality(before(t)) < size}
           number == [t \in first |-> Cardinality(before(t))]
<1>1. IsFiniteSet(T)
  <2>1. IsFiniteSet(1..n)
    BY FS_Interval
  <2> QED
    BY <2>1, FS_Subset
<1>2. \A t \in T : IsFiniteSet(before(t)) /\ Cardinality(before(t)) \in Nat
  BY <1>1, FS_Subset, FS_CardinalityType
<1>3. ASSUME NEW t \in T, NEW u \in T, t < u
      PROVE  Cardinality(before(t)) < Cardinality(before(u))
  <2>1. IsFiniteSet(before(t)) /\ t \notin before(t)
    BY <1>2
  <2>2. Cardinality(before(t) \cup {t}) = Cardinality(before(t)) + 1
    BY <2>1, FS_AddElement
  <2>3. before(t) \cup {t} \subseteq before(u)
    <3>1. \A v \in T : v \in Int
      OBVIOUS
    <3>2. ASSUME NEW v \in T, v < t PROVE v < u
      BY <1>3, <3>1, <3>2
    <3> QED
      BY <1>3, <3>2
  <2>4. Cardinality(before(t) \cup {t}) <= Cardinality(before(u))
    BY <1>2, <2>3, FS_Subset
  <2> HIDE DEF before
  <2> QED
    BY <1>2, <2>2, <2>4
<1>4. number \in Injection(first, 0..(size - 1))
  <2>1. number \in [first -> 0..(size - 1)]
    <3>1. \A t \in first : Cardinality(before(t)) \in 0..(size - 1)
      BY <1>2
    <3> QED
      BY <3>1
  <2>2. ASSUME NEW t \in first, NEW u \in first, number[t] = number[u]
        PROVE  t = u
    <3>1. t \in T /\ u \in T /\ t \in Nat /\ u \in Nat
      OBVIOUS
    <3>2. Cardinality(before(t)) = Cardinality(before(u))
      BY <2>2
    <3>3. ~ (t < u) /\ ~ (u < t)
      BY <1>2, <1>3, <3>1, <3>2
    <3> QED
      BY <3>1, <3>3
  <2> HIDE DEF number, first
  <2> QED
    BY <2>1, <2>2 DEF Injection, IsInjective
<1>5. IsFiniteSet(0..(size - 1)) /\ Cardinality(0..(size - 1)) = size
  BY FS_Interval
<1>6. IsFiniteSet(first) /\ Cardinality(first) <= size
  <2> HIDE DEF first, number
  <2> QED
    BY <1>4, <1>5, FS_Injection
<1> QED
  BY <1>6

LEMMA BatchIsSmall ==
    TypeOK => IsFiniteSet(NextBatch) /\ Cardinality(NextBatch) <= BatchSize
BY QaAssumption, FirstAreFew DEF NextBatch, TypeOK, A

\* A run loses no more than a set of BatchSize tests.
LEMMA LossIsSmall ==
    ASSUME NEW loss, NEW batch, IsFiniteSet(batch),
           Cardinality(batch) <= BatchSize, loss \subseteq batch
    PROVE  Cardinality(loss) <= BatchSize
<1>1. IsFiniteSet(loss) /\ Cardinality(loss) <= Cardinality(batch)
  BY FS_Subset
<1>2. Cardinality(loss) \in Nat /\ Cardinality(batch) \in Nat
  BY <1>1, FS_CardinalityType
<1> QED
  BY <1>1, <1>2, QaAssumption
-----------------------------------------------------------------------------
(* Types.                                                                  *)

LEMMA StartTypes ==
    ASSUME NEW category \in {"A", "B", "all"}, NEW origin \in 0..MaxRun,
           NEW tests, tests \subseteq Test, TypeOK, Start(category, origin, tests)
    PROVE  TypeOK'
<1>1. PICK run \in {now + 1} \cup (IF category = "all" THEN {now + 2} ELSE {}) :
        /\ run <= MaxRun
        /\ job' = [category |-> category, origin |-> origin,
                   run |-> IF origin = 0 THEN run ELSE origin,
                   combined |-> IF category = "all" THEN now + 1 ELSE 0]
        /\ now' = run
  BY DEF Start
<1>2. now \in Nat /\ now < MaxRun
  BY QaAssumption DEF TypeOK, Start
<1>3. run \in Nat /\ run \in 0..MaxRun /\ now + 1 \in 0..MaxRun
  BY <1>1, <1>2, QaAssumption
<1>4. now' \in 0..MaxRun /\ job' \in [category : {"none", "A", "B", "all"},
              origin : 0..MaxRun, run : 0..MaxRun, combined : 0..MaxRun]
  BY <1>1, <1>3, QaAssumption
<1> QED
  BY <1>4, QaAssumption
  DEF Start, TypeOK, EndsWith, A, B, Test, Run, Record, Status

LEMMA TypeStep == TypeOK /\ [Next]_vars => TypeOK'
<1> SUFFICES ASSUME TypeOK, [Next]_vars PROVE TypeOK'
  OBVIOUS
<1> USE QaAssumption
<1>1. ASSUME NEW category \in {"A", "B", "all"}, Execute(category) PROVE TypeOK'
  BY <1>1, StartTypes DEF Execute, Selected, Test
<1>2. ASSUME NEW category \in {"A", "B", "all"}, NEW origin \in Existing,
             NEW skipped \in BOOLEAN, Retry(category, origin, skipped)
      PROVE  TypeOK'
  <2>1. Filtered(Selected(category), origin, skipped) \subseteq Test
    BY DEF Filtered, Selected, Test
  <2>2. origin \in 0..MaxRun
    BY DEF Existing, Run
  <2> QED
    BY <1>2, <2>1, <2>2, StartTypes DEF Retry
<1>3. ASSUME NEW category \in {"A", "B", "all"}, NEW origin \in Existing,
             NEW skipped \in BOOLEAN, NothingToRetry(category, origin, skipped)
      PROVE  TypeOK'
  BY <1>3 DEF NothingToRetry, TypeOK, Existing, Run, memory
<1>4. CASE SingleRun
  <2>1. PICK status \in [A -> Status], loadable \in BOOLEAN :
        files' = [files EXCEPT ![now + 1] =
                    [exists |-> TRUE, records |-> {<<t, status[t]>> : t \in A},
                     loadable |-> loadable]]
    BY <1>4 DEF SingleRun
  <2>2. {<<t, status[t]>> : t \in A} \subseteq Record
    BY DEF Record, Test
  <2>3. files' \in [Run -> [exists : BOOLEAN, records : SUBSET Record,
                            loadable : BOOLEAN]]
    BY <2>1, <2>2 DEF TypeOK
  <2> QED
    BY <1>4, <2>3 DEF SingleRun, TypeOK, NoJob, memory
<1>5. CASE RunBatch
  <2>1. PICK status \in [NextBatch -> BatchStatus] :
            got' = got \cup {<<t, status[t]>> : t \in NextBatch}
    BY <1>5 DEF RunBatch
  <2>2. NextBatch \subseteq A /\ NextBatch \subseteq Test
    BY DEF NextBatch, TypeOK, Test
  <2>3. {<<t, status[t]>> : t \in NextBatch} \subseteq Record
    <3>1. \A t \in NextBatch : t \in Test /\ status[t] \in Status
      BY <2>1, <2>2 DEF Status
    <3> QED
      BY <3>1 DEF Record
  <2>4. ran' \in [Run -> SUBSET A]
    BY <1>5, <2>2 DEF RunBatch, TypeOK
  <2>5. todo' \subseteq A /\ got' \subseteq Record
    BY <1>5, <2>1, <2>3 DEF RunBatch, TypeOK, LeftAfterBatch
  <2> QED
    BY <1>5, <2>4, <2>5 DEF RunBatch, TypeOK
<1>6. CASE SaveBatch
  BY <1>6 DEF SaveBatch, SavesBatch, Saved, TypeOK, memory
<1>7. CASE FinishNew
  BY <1>7 DEF FinishNew, Saved, AfterA, EndsWith, TypeOK, memory
<1>8. CASE FinishRetry
  <2>1. got' \subseteq Record
    <3>1. job.origin \in Run
      BY <1>8 DEF FinishRetry, TypeOK, Run
    <3>2. files[job.origin].records \subseteq Record
      BY <3>1 DEF TypeOK
    <3> QED
      BY <1>8, <3>2 DEF FinishRetry, Merged, TypeOK
  <2>2. files' \in [Run -> [exists : BOOLEAN, records : SUBSET Record,
                            loadable : BOOLEAN]]
    <3>1. files' = [files EXCEPT ![job.origin] = [@ EXCEPT !.records = got']]
      BY <1>8 DEF FinishRetry
    <3>2. \A r \in Run : [files[r] EXCEPT !.records = got'] \in
              [exists : BOOLEAN, records : SUBSET Record, loadable : BOOLEAN]
      BY <2>1 DEF TypeOK
    <3> QED
      BY <3>1, <3>2 DEF TypeOK
  <2> QED
    BY <1>8, <2>1, <2>2 DEF FinishRetry, AfterA, EndsWith, TypeOK
<1>9. CASE FinishUnmerged
  BY <1>9 DEF FinishUnmerged, Saved, AfterA, EndsWith, TypeOK, memory
<1>10. ASSUME NEW records, records \subseteq B \X Status, SaveBrowsed(records),
              json' \subseteq B \X Status
       PROVE  TypeOK'
  <2>1. records \subseteq Record
    <3>1. B \subseteq Test
      BY DEF Test
    <3> QED
      BY <1>10, <3>1 DEF Record
  <2>2. now' \in 0..MaxRun
    BY <1>10 DEF SaveBrowsed, TypeOK
  <2> QED
    BY <1>10, <2>1, <2>2 DEF SaveBrowsed, Saved, EndsWith, TypeOK
<1>11. CASE Browse
  <2>1. PICK status \in [browse -> Status] :
            json' = {<<t, status[t]>> : t \in browse} /\ SaveBrowsed(json')
    BY <1>11 DEF Browse
  <2>2. json' \subseteq B \X Status
    BY <2>1 DEF TypeOK
  <2> QED
    BY <1>10, <2>1, <2>2
<1>12. CASE BrowseUnreported
  <2> DEFINE records == {p \in json : p[1] \in browse}
                   \cup {<<t, "FAIL">> : t \in {u \in browse : \A p \in json : p[1] # u}}
  <2>1. records \subseteq B \X Status
    BY DEF TypeOK, Status
  <2>2. SaveBrowsed(records) /\ json' \subseteq B \X Status
    BY <1>12 DEF BrowseUnreported, TypeOK
  <2> HIDE DEF records
  <2> QED
    BY <1>10, <2>1, <2>2
<1>13. CASE BrowseFails
  <2>1. PICK records \in {browse \X {"SKIP"}, browse \X {"FAIL"}, {}} :
            SaveBrowsed(records)
    BY <1>13 DEF BrowseFails
  <2>2. records \subseteq B \X Status
    BY <2>1 DEF TypeOK, Status
  <2>3. json' \subseteq B \X Status
    BY <1>13 DEF BrowseFails, TypeOK
  <2> QED
    BY <1>10, <2>1, <2>2, <2>3
<1>14. CASE Combine
  <2>1. gotB \subseteq Record
    BY DEF TypeOK, Record, Test
  <2> QED
    BY <1>14, <2>1 DEF Combine, Saved, TypeOK, memory
<1>15. CASE Raises \/ Crash
  BY <1>15 DEF Raises, Crash, Ends, TypeOK
<1>16. CASE UNCHANGED vars
  BY <1>16 DEF vars, memory, TypeOK
<1> QED
  BY <1>1, <1>2, <1>3, <1>4, <1>5, <1>6, <1>7, <1>8, <1>9, <1>11, <1>12, <1>13,
     <1>14, <1>15, <1>16
  DEF Next, Command, Progress
-----------------------------------------------------------------------------
(* The inductive invariant.                                                *)

\* A step that loses nothing more, or saves all that a run executed, keeps
\* the bound on losses.
LEMMA LossesKept ==
    ASSUME TypeOK, BatchesSurvive,
           \A r \in Run : \/ ran'[r] \ Recorded(r)' \subseteq ran[r] \ Recorded(r)
                          \/ ran'[r] \subseteq Recorded(r)'
    PROVE  BatchesSurvive'
<1>1. ASSUME NEW r \in Run
      PROVE  Cardinality(ran'[r] \ Recorded(r)') <= BatchSize
  <2>1. CASE ran'[r] \ Recorded(r)' \subseteq ran[r] \ Recorded(r)
    <3>1. IsFiniteSet(A)
      BY QaAssumption, FS_Interval DEF A
    <3>2. ran[r] \ Recorded(r) \in SUBSET A
      BY DEF TypeOK
    <3>3. IsFiniteSet(ran[r] \ Recorded(r))
      BY <3>1, <3>2, FS_Subset
    <3> QED
      BY <2>1, <3>3, LossIsSmall DEF BatchesSurvive
  <2>2. CASE ran'[r] \subseteq Recorded(r)'
    <3>1. ran'[r] \ Recorded(r)' = {}
      BY <2>2
    <3> QED
      BY <3>1, FS_EmptySet, QaAssumption
  <2> QED
    BY <1>1, <2>1, <2>2
<1> QED
  BY <1>1 DEF BatchesSurvive

\* The first run writes its own file.
LEMMA SingleRunStep ==
    ASSUME Inv, TypeOK', SingleRun
    PROVE  Inv'
<1> USE QaAssumption
<1>0. TypeOK /\ JobPlaced /\ CombinedApart /\ TestsApart /\ SavedFromMemory
         /\ TestsCovered /\ UnloadableUnbatched /\ BatchesSurvive /\ RunIsComplete
  BY DEF Inv
<1>1. JobPlaced'
  BY <1>0 DEF SingleRun, NoJob, memory, TypeOK, Run, JobPlaced
<1>2. CombinedApart'
  BY <1>0 DEF SingleRun, NoJob, memory, TypeOK, Run, CombinedApart, JobPlaced
<1>3. TestsApart'
  BY <1>0
  DEF SingleRun, NoJob, memory, TypeOK, Run, TestsApart, Got, WithStatus,
      Recorded, JobPlaced
<1>4. SavedFromMemory'
  BY <1>0
  DEF SingleRun, NoJob, memory, TypeOK, Run, SavedFromMemory, Got, Recorded,
      JobPlaced
<1>5. TestsCovered'
  BY <1>0 DEF SingleRun, NoJob, memory, TypeOK, Run, TestsCovered, Got
<1>6. UnloadableUnbatched'
  BY <1>0
  DEF SingleRun, NoJob, memory, TypeOK, Run, UnloadableUnbatched, JobPlaced,
      SavedFromMemory
<1>7. BatchesSurvive'
  <2>1. \A r \in Run : \/ ran'[r] \ Recorded(r)' \subseteq ran[r] \ Recorded(r)
                       \/ ran'[r] \subseteq Recorded(r)'
    BY <1>0
    DEF SingleRun, NoJob, memory, TypeOK, Recorded, JobPlaced,
        SavedFromMemory, UnloadableUnbatched, Got
  <2> QED
    BY <1>0, <2>1, LossesKept
<1>8. RunIsComplete'
  BY <1>0
  DEF SingleRun, NoJob, memory, TypeOK, Run, RunIsComplete, Recorded, Got,
      TestsCovered, JobPlaced
<1> QED
  BY <1>1, <1>2, <1>3, <1>4, <1>5, <1>6, <1>7, <1>8 DEF Inv

\* A batch moves tests from todo to got; what it executed and did not save yet
\* is the batch.
LEMMA RunBatchStep ==
    ASSUME Inv, TypeOK', RunBatch
    PROVE  Inv'
<1> USE QaAssumption
<1>0. TypeOK /\ JobPlaced /\ CombinedApart /\ TestsApart /\ SavedFromMemory
         /\ TestsCovered /\ UnloadableUnbatched /\ BatchesSurvive /\ RunIsComplete
  BY DEF Inv
<1>b. PICK status \in [NextBatch -> BatchStatus] :
        got' = got \cup {<<t, status[t]>> : t \in NextBatch}
  BY DEF RunBatch
<1>c. Got' = Got \cup NextBatch /\ NextBatch \subseteq todo
  <2>1. {p[1] : p \in {<<t, status[t]>> : t \in NextBatch}} = NextBatch
    <3>1. \A t \in NextBatch : <<t, status[t]>>[1] = t
      OBVIOUS
    <3>2. ASSUME NEW p \in {<<t, status[t]>> : t \in NextBatch} PROVE p[1] \in NextBatch
      OBVIOUS
    <3> HIDE DEF NextBatch
    <3> QED
      BY <3>1, <3>2, Zenon
  <2>2. Got' = Got \cup {p[1] : p \in {<<t, status[t]>> : t \in NextBatch}}
    BY <1>b DEF Got
  <2> QED
    BY <2>1, <2>2 DEF NextBatch
<1>1. JobPlaced'
  BY <1>0 DEF RunBatch, NextBatch, LeftAfterBatch, TypeOK, Run, JobPlaced
<1>2. CombinedApart'
  BY <1>0
  DEF RunBatch, NextBatch, LeftAfterBatch, TypeOK, Run, CombinedApart,
      JobPlaced
<1>3. TestsApart'
  <2>2. Got' \cap todo' = {}
    BY <1>0, <1>c DEF RunBatch, LeftAfterBatch, TestsApart
  <2>3. Got' \cup todo' = Got \cup todo
    BY <1>0, <1>c DEF RunBatch, LeftAfterBatch
  <2>4. ASSUME pc' # "idle", job'.origin = 0
        PROVE  /\ got' \subseteq A \X Status
               /\ \A p, q \in got' : p[1] = q[1] => p = q
    <3>1. job.origin = 0 /\ pc = "batch"
      BY <2>4 DEF RunBatch
    <3>2. /\ got \subseteq A \X Status
          /\ \A p, q \in got : p[1] = q[1] => p = q
      BY <1>0, <3>1 DEF TestsApart
    <3>3. \A t \in NextBatch : t \in A /\ status[t] \in Status /\ t \notin Got
      BY <1>0, <1>b, <1>c DEF TypeOK, Status, TestsApart
    <3>4. \A p \in got : p[1] \in Got
      BY DEF Got
    <3> QED
      BY <1>b, <3>2, <3>3, <3>4
  <2>5. UNCHANGED <<files, job>> /\ pc = "batch"
    BY DEF RunBatch
  <2> QED
    BY <1>0, <2>2, <2>3, <2>4, <2>5 DEF TestsApart, WithStatus, Recorded
<1>4. SavedFromMemory'
  <2>1. Got' = Got \cup NextBatch /\ got \subseteq got'
    BY <1>b, <1>c
  <2>2. job.run \in Run => ran'[job.run] \subseteq ran[job.run] \cup NextBatch
    BY DEF RunBatch, TypeOK
  <2>3. job.run \in Run /\ pc = "batch" /\ pc' = "save" /\ UNCHANGED <<files, job>>
    BY <1>0 DEF RunBatch, JobPlaced, TypeOK, Run
  <2> QED
    BY <1>0, <2>1, <2>2, <2>3 DEF SavedFromMemory
<1>5. TestsCovered'
  BY <1>0, <1>c DEF RunBatch, LeftAfterBatch, TestsCovered
<1>6. UnloadableUnbatched'
  BY <1>0
  DEF RunBatch, NextBatch, LeftAfterBatch, TypeOK, Run, UnloadableUnbatched,
      JobPlaced, SavedFromMemory
<1>7. BatchesSurvive'
  <2>1. ASSUME NEW r \in Run
        PROVE  Cardinality(ran'[r] \ Recorded(r)') <= BatchSize
    <3>1. Recorded(r)' = Recorded(r) /\ pc = "batch"
      BY DEF RunBatch, Recorded
    <3>2. CASE ran'[r] = ran[r]
      BY <1>0, <3>1, <3>2 DEF BatchesSurvive
    <3>3. CASE ran'[r] # ran[r]
      <4>1. job.origin = 0 /\ r = job.run /\ ran'[r] = ran[r] \cup NextBatch
        BY <3>3 DEF RunBatch, TypeOK
      <4>2. ran[r] \subseteq Recorded(r)
        BY <1>0, <3>1, <4>1 DEF SavedFromMemory
      <4>3. ran'[r] \ Recorded(r)' \subseteq NextBatch
        BY <3>1, <4>1, <4>2
      <4> QED
        BY <1>0, <4>3, BatchIsSmall, LossIsSmall
    <3> QED
      BY <3>2, <3>3
  <2> QED
    BY <2>1 DEF BatchesSurvive
<1>8. RunIsComplete'
  BY <1>0
  DEF RunBatch, NextBatch, LeftAfterBatch, TypeOK, Run, RunIsComplete,
      Recorded, Got, TestsCovered, JobPlaced
<1> QED
  BY <1>1, <1>2, <1>3, <1>4, <1>5, <1>6, <1>7, <1>8 DEF Inv

\* A new run saves all that it holds.
LEMMA SaveBatchStep ==
    ASSUME Inv, TypeOK', SaveBatch
    PROVE  Inv'
<1> USE QaAssumption
<1>0. TypeOK /\ JobPlaced /\ CombinedApart /\ TestsApart /\ SavedFromMemory
         /\ TestsCovered /\ UnloadableUnbatched /\ BatchesSurvive /\ RunIsComplete
  BY DEF Inv
<1>1. JobPlaced'
  BY <1>0 DEF SaveBatch, SavesBatch, Saved, memory, TypeOK, Run, JobPlaced
<1>2. CombinedApart'
  BY <1>0
  DEF SaveBatch, SavesBatch, Saved, memory, TypeOK, Run, CombinedApart,
      JobPlaced
<1>3. TestsApart'
  BY <1>0
  DEF SaveBatch, SavesBatch, Saved, memory, TypeOK, Run, TestsApart, Got,
      WithStatus, Recorded, JobPlaced
<1>4. SavedFromMemory'
  BY <1>0
  DEF SaveBatch, SavesBatch, Saved, memory, TypeOK, Run, SavedFromMemory,
      Got, Recorded, JobPlaced
<1>5. TestsCovered'
  BY <1>0
  DEF SaveBatch, SavesBatch, Saved, memory, TypeOK, Run, TestsCovered, Got
<1>6. UnloadableUnbatched'
  BY <1>0
  DEF SaveBatch, SavesBatch, Saved, memory, TypeOK, Run, UnloadableUnbatched,
      JobPlaced, SavedFromMemory
<1>7. BatchesSurvive'
  <2>1. \A r \in Run : \/ ran'[r] \ Recorded(r)' \subseteq ran[r] \ Recorded(r)
                       \/ ran'[r] \subseteq Recorded(r)'
    BY <1>0
    DEF SaveBatch, SavesBatch, Saved, memory, TypeOK, Recorded, JobPlaced,
        SavedFromMemory, UnloadableUnbatched, Got
  <2> QED
    BY <1>0, <2>1, LossesKept
<1>8. RunIsComplete'
  BY <1>0
  DEF SaveBatch, SavesBatch, Saved, memory, TypeOK, Run, RunIsComplete,
      Recorded, Got, TestsCovered, JobPlaced
<1> QED
  BY <1>1, <1>2, <1>3, <1>4, <1>5, <1>6, <1>7, <1>8 DEF Inv

\* So does its end, when nothing is left to do.
LEMMA FinishNewStep ==
    ASSUME Inv, TypeOK', FinishNew
    PROVE  Inv'
<1> USE QaAssumption
<1>0. TypeOK /\ JobPlaced /\ CombinedApart /\ TestsApart /\ SavedFromMemory
         /\ TestsCovered /\ UnloadableUnbatched /\ BatchesSurvive /\ RunIsComplete
  BY DEF Inv
<1>1. JobPlaced'
  BY <1>0
  DEF FinishNew, Saved, AfterA, EndsWith, memory, TypeOK, Run, JobPlaced
<1>2. CombinedApart'
  BY <1>0
  DEF FinishNew, Saved, AfterA, EndsWith, memory, TypeOK, Run, CombinedApart,
      JobPlaced
<1>3. TestsApart'
  BY <1>0
  DEF FinishNew, Saved, AfterA, EndsWith, memory, TypeOK, Run, TestsApart,
      Got, WithStatus, Recorded, JobPlaced
<1>4. SavedFromMemory'
  BY <1>0
  DEF FinishNew, Saved, AfterA, EndsWith, memory, TypeOK, Run,
      SavedFromMemory, Got, Recorded, JobPlaced
<1>5. TestsCovered'
  BY <1>0
  DEF FinishNew, Saved, AfterA, EndsWith, memory, TypeOK, Run, TestsCovered,
      Got
<1>6. UnloadableUnbatched'
  BY <1>0
  DEF FinishNew, Saved, AfterA, EndsWith, memory, TypeOK, Run,
      UnloadableUnbatched, JobPlaced, SavedFromMemory
<1>7. BatchesSurvive'
  <2>1. \A r \in Run : \/ ran'[r] \ Recorded(r)' \subseteq ran[r] \ Recorded(r)
                       \/ ran'[r] \subseteq Recorded(r)'
    BY <1>0
    DEF FinishNew, Saved, AfterA, EndsWith, memory, TypeOK, Recorded,
        JobPlaced, SavedFromMemory, UnloadableUnbatched, Got
  <2> QED
    BY <1>0, <2>1, LossesKept
<1>8. RunIsComplete'
  BY <1>0
  DEF FinishNew, Saved, AfterA, EndsWith, memory, TypeOK, Run, RunIsComplete,
      Recorded, Got, TestsCovered, JobPlaced
<1> QED
  BY <1>1, <1>2, <1>3, <1>4, <1>5, <1>6, <1>7, <1>8 DEF Inv

\* A merge adds records to none but the retried run.
LEMMA FinishRetryStep ==
    ASSUME Inv, TypeOK', FinishRetry
    PROVE  Inv'
<1> USE QaAssumption
<1>0. TypeOK /\ JobPlaced /\ CombinedApart /\ TestsApart /\ SavedFromMemory
         /\ TestsCovered /\ UnloadableUnbatched /\ BatchesSurvive /\ RunIsComplete
  BY DEF Inv
<1>1. JobPlaced'
  BY <1>0 DEF FinishRetry, Merged, AfterA, EndsWith, TypeOK, Run, JobPlaced
<1>2. CombinedApart'
  BY <1>0
  DEF FinishRetry, Merged, AfterA, EndsWith, TypeOK, Run, CombinedApart,
      JobPlaced
<1>3. TestsApart'
  <2>1. todo' = {} /\ pc' \in {"playwright", "idle"} /\ job'.origin # 0
    BY <1>0 DEF FinishRetry, TestsCovered, AfterA
  <2> QED
    BY <2>1 DEF TestsApart
<1>4. SavedFromMemory'
  BY <1>0
  DEF FinishRetry, Merged, AfterA, EndsWith, TypeOK, Run, SavedFromMemory,
      Got, Recorded, JobPlaced
<1>5. TestsCovered'
  BY <1>0
  DEF FinishRetry, Merged, AfterA, EndsWith, TypeOK, Run, TestsCovered, Got
<1>6. UnloadableUnbatched'
  BY <1>0
  DEF FinishRetry, Merged, AfterA, EndsWith, TypeOK, Run,
      UnloadableUnbatched, JobPlaced, SavedFromMemory
<1>7. BatchesSurvive'
  <2>1. \A r \in Run : \/ ran'[r] \ Recorded(r)' \subseteq ran[r] \ Recorded(r)
                       \/ ran'[r] \subseteq Recorded(r)'
    BY <1>0
    DEF FinishRetry, Merged, AfterA, EndsWith, TypeOK, Recorded, JobPlaced,
        SavedFromMemory, UnloadableUnbatched, Got
  <2> QED
    BY <1>0, <2>1, LossesKept
<1>8. RunIsComplete'
  BY <1>0
  DEF FinishRetry, Merged, AfterA, EndsWith, TypeOK, Run, RunIsComplete,
      Recorded, Got, TestsCovered, JobPlaced
<1> QED
  BY <1>1, <1>2, <1>3, <1>4, <1>5, <1>6, <1>7, <1>8 DEF Inv

\* A run that cannot be loaded has executed no batch.
LEMMA FinishUnmergedStep ==
    ASSUME Inv, TypeOK', FinishUnmerged
    PROVE  Inv'
<1> USE QaAssumption
<1>0. TypeOK /\ JobPlaced /\ CombinedApart /\ TestsApart /\ SavedFromMemory
         /\ TestsCovered /\ UnloadableUnbatched /\ BatchesSurvive /\ RunIsComplete
  BY DEF Inv
<1>1. JobPlaced'
  BY <1>0
  DEF FinishUnmerged, Saved, AfterA, EndsWith, memory, TypeOK, Run, JobPlaced
<1>2. CombinedApart'
  BY <1>0
  DEF FinishUnmerged, Saved, AfterA, EndsWith, memory, TypeOK, Run,
      CombinedApart, JobPlaced
<1>3. TestsApart'
  BY <1>0
  DEF FinishUnmerged, Saved, AfterA, EndsWith, memory, TypeOK, Run,
      TestsApart, Got, WithStatus, Recorded, JobPlaced
<1>4. SavedFromMemory'
  BY <1>0
  DEF FinishUnmerged, Saved, AfterA, EndsWith, memory, TypeOK, Run,
      SavedFromMemory, Got, Recorded, JobPlaced
<1>5. TestsCovered'
  BY <1>0
  DEF FinishUnmerged, Saved, AfterA, EndsWith, memory, TypeOK, Run,
      TestsCovered, Got
<1>6. UnloadableUnbatched'
  BY <1>0
  DEF FinishUnmerged, Saved, AfterA, EndsWith, memory, TypeOK, Run,
      UnloadableUnbatched, JobPlaced, SavedFromMemory
<1>7. BatchesSurvive'
  <2>1. \A r \in Run : \/ ran'[r] \ Recorded(r)' \subseteq ran[r] \ Recorded(r)
                       \/ ran'[r] \subseteq Recorded(r)'
    BY <1>0
    DEF FinishUnmerged, Saved, AfterA, EndsWith, memory, TypeOK, Recorded,
        JobPlaced, SavedFromMemory, UnloadableUnbatched, Got
  <2> QED
    BY <1>0, <2>1, LossesKept
<1>8. RunIsComplete'
  BY <1>0
  DEF FinishUnmerged, Saved, AfterA, EndsWith, memory, TypeOK, Run,
      RunIsComplete, Recorded, Got, TestsCovered, JobPlaced
<1> QED
  BY <1>1, <1>2, <1>3, <1>4, <1>5, <1>6, <1>7, <1>8 DEF Inv

\* The browser tests go to a new file.
LEMMA SaveBrowsedStep ==
    ASSUME NEW records, Inv, TypeOK',
           SaveBrowsed(records)
    PROVE  Inv'
<1> USE QaAssumption
<1>0. TypeOK /\ JobPlaced /\ CombinedApart /\ TestsApart /\ SavedFromMemory
         /\ TestsCovered /\ UnloadableUnbatched /\ BatchesSurvive /\ RunIsComplete
  BY DEF Inv
<1>1. JobPlaced'
  BY <1>0 DEF SaveBrowsed, Saved, EndsWith, TypeOK, Run, JobPlaced
<1>2. CombinedApart'
  BY <1>0
  DEF SaveBrowsed, Saved, EndsWith, TypeOK, Run, CombinedApart, JobPlaced
<1>3. TestsApart'
  BY <1>0
  DEF SaveBrowsed, Saved, EndsWith, TypeOK, Run, TestsApart, Got, WithStatus,
      Recorded, JobPlaced
<1>4. SavedFromMemory'
  BY <1>0
  DEF SaveBrowsed, Saved, EndsWith, TypeOK, Run, SavedFromMemory, Got,
      Recorded, JobPlaced
<1>5. TestsCovered'
  BY <1>0 DEF SaveBrowsed, Saved, EndsWith, TypeOK, Run, TestsCovered, Got
<1>6. UnloadableUnbatched'
  BY <1>0
  DEF SaveBrowsed, Saved, EndsWith, TypeOK, Run, UnloadableUnbatched,
      JobPlaced, SavedFromMemory
<1>7. BatchesSurvive'
  <2>1. \A r \in Run : \/ ran'[r] \ Recorded(r)' \subseteq ran[r] \ Recorded(r)
                       \/ ran'[r] \subseteq Recorded(r)'
    BY <1>0
    DEF SaveBrowsed, Saved, EndsWith, TypeOK, Recorded, JobPlaced,
        SavedFromMemory, UnloadableUnbatched, Got
  <2> QED
    BY <1>0, <2>1, LossesKept
<1>8. RunIsComplete'
  BY <1>0
  DEF SaveBrowsed, Saved, EndsWith, TypeOK, Run, RunIsComplete, Recorded,
      Got, TestsCovered, JobPlaced
<1> QED
  BY <1>1, <1>2, <1>3, <1>4, <1>5, <1>6, <1>7, <1>8 DEF Inv

\* A combined run has all that is in memory.
LEMMA CombineStep ==
    ASSUME Inv, TypeOK', Combine
    PROVE  Inv'
<1> USE QaAssumption
<1>0. TypeOK /\ JobPlaced /\ CombinedApart /\ TestsApart /\ SavedFromMemory
         /\ TestsCovered /\ UnloadableUnbatched /\ BatchesSurvive /\ RunIsComplete
  BY DEF Inv
<1>1. JobPlaced'
  BY <1>0 DEF Combine, Saved, memory, TypeOK, Run, JobPlaced
<1>2. CombinedApart'
  BY <1>0 DEF Combine, Saved, memory, TypeOK, Run, CombinedApart, JobPlaced
<1>3. TestsApart'
  BY <1>0
  DEF Combine, Saved, memory, TypeOK, Run, TestsApart, Got, WithStatus,
      Recorded, JobPlaced
<1>4. SavedFromMemory'
  BY <1>0
  DEF Combine, Saved, memory, TypeOK, Run, SavedFromMemory, Got, Recorded,
      JobPlaced
<1>5. TestsCovered'
  BY <1>0 DEF Combine, Saved, memory, TypeOK, Run, TestsCovered, Got
<1>6. UnloadableUnbatched'
  BY <1>0
  DEF Combine, Saved, memory, TypeOK, Run, UnloadableUnbatched, JobPlaced,
      SavedFromMemory
<1>7. BatchesSurvive'
  <2>1. ASSUME NEW r \in Run
        PROVE  \/ ran'[r] \ Recorded(r)' \subseteq ran[r] \ Recorded(r)
               \/ ran'[r] \subseteq Recorded(r)'
    <3>1. CASE r = job.combined
      <4>1. job.category = "all" /\ pc # "idle"
        BY <1>0, <3>1 DEF Combine, JobPlaced, Run
      <4>2. ran[r] \subseteq Got
        BY <1>0, <3>1, <4>1 DEF CombinedApart, SavedFromMemory
      <4>3. Recorded(r)' = {p[1] : p \in got \cup gotB} /\ ran' = ran
        BY <3>1 DEF Combine, Saved, Recorded, TypeOK
      <4> QED
        BY <4>2, <4>3 DEF Got
    <3>2. CASE r # job.combined
      BY <3>2 DEF Combine, Recorded, TypeOK
    <3> QED
      BY <3>1, <3>2
  <2> QED
    BY <1>0, <2>1, LossesKept
<1>8. RunIsComplete'
  BY <1>0
  DEF Combine, Saved, memory, TypeOK, Run, RunIsComplete, Recorded, Got,
      TestsCovered, JobPlaced
<1> QED
  BY <1>1, <1>2, <1>3, <1>4, <1>5, <1>6, <1>7, <1>8 DEF Inv

\* What ends early leaves the files.
LEMMA EarlyEndStep ==
    ASSUME Inv, TypeOK', Raises \/ Crash
    PROVE  Inv'
<1> USE QaAssumption
<1>0. TypeOK /\ JobPlaced /\ CombinedApart /\ TestsApart /\ SavedFromMemory
         /\ TestsCovered /\ UnloadableUnbatched /\ BatchesSurvive /\ RunIsComplete
  BY DEF Inv
<1>1. JobPlaced'
  BY <1>0 DEF Raises, Crash, Ends, TypeOK, Run, JobPlaced
<1>2. CombinedApart'
  BY <1>0 DEF Raises, Crash, Ends, TypeOK, Run, CombinedApart, JobPlaced
<1>3. TestsApart'
  BY <1>0
  DEF Raises, Crash, Ends, TypeOK, Run, TestsApart, Got, WithStatus,
      Recorded, JobPlaced
<1>4. SavedFromMemory'
  BY <1>0
  DEF Raises, Crash, Ends, TypeOK, Run, SavedFromMemory, Got, Recorded,
      JobPlaced
<1>5. TestsCovered'
  BY <1>0 DEF Raises, Crash, Ends, TypeOK, Run, TestsCovered, Got
<1>6. UnloadableUnbatched'
  BY <1>0
  DEF Raises, Crash, Ends, TypeOK, Run, UnloadableUnbatched, JobPlaced,
      SavedFromMemory
<1>7. BatchesSurvive'
  <2>1. \A r \in Run : \/ ran'[r] \ Recorded(r)' \subseteq ran[r] \ Recorded(r)
                       \/ ran'[r] \subseteq Recorded(r)'
    BY <1>0
    DEF Raises, Crash, Ends, TypeOK, Recorded, JobPlaced, SavedFromMemory,
        UnloadableUnbatched, Got
  <2> QED
    BY <1>0, <2>1, LossesKept
<1>8. RunIsComplete'
  BY <1>0
  DEF Raises, Crash, Ends, TypeOK, Run, RunIsComplete, Recorded, Got,
      TestsCovered, JobPlaced
<1> QED
  BY <1>1, <1>2, <1>3, <1>4, <1>5, <1>6, <1>7, <1>8 DEF Inv

\* Nor does a retry without tests touch them.
LEMMA NothingToRetryStep ==
    ASSUME NEW category \in {"A", "B", "all"}, NEW origin \in Existing, NEW skipped \in BOOLEAN,
           Inv, TypeOK',
           NothingToRetry(category, origin, skipped)
    PROVE  Inv'
<1> USE QaAssumption
<1>0. TypeOK /\ JobPlaced /\ CombinedApart /\ TestsApart /\ SavedFromMemory
         /\ TestsCovered /\ UnloadableUnbatched /\ BatchesSurvive /\ RunIsComplete
  BY DEF Inv
<1>1. JobPlaced'
  BY <1>0 DEF NothingToRetry, Existing, memory, TypeOK, Run, JobPlaced
<1>2. CombinedApart'
  BY <1>0
  DEF NothingToRetry, Existing, memory, TypeOK, Run, CombinedApart, JobPlaced
<1>3. TestsApart'
  BY <1>0
  DEF NothingToRetry, Existing, memory, TypeOK, Run, TestsApart, Got,
      WithStatus, Recorded, JobPlaced
<1>4. SavedFromMemory'
  BY <1>0
  DEF NothingToRetry, Existing, memory, TypeOK, Run, SavedFromMemory, Got,
      Recorded, JobPlaced
<1>5. TestsCovered'
  BY <1>0 DEF NothingToRetry, Existing, memory, TypeOK, Run, TestsCovered, Got
<1>6. UnloadableUnbatched'
  BY <1>0
  DEF NothingToRetry, Existing, memory, TypeOK, Run, UnloadableUnbatched,
      JobPlaced, SavedFromMemory
<1>7. BatchesSurvive'
  <2>1. \A r \in Run : \/ ran'[r] \ Recorded(r)' \subseteq ran[r] \ Recorded(r)
                       \/ ran'[r] \subseteq Recorded(r)'
    BY <1>0
    DEF NothingToRetry, Existing, memory, TypeOK, Recorded, JobPlaced,
        SavedFromMemory, UnloadableUnbatched, Got
  <2> QED
    BY <1>0, <2>1, LossesKept
<1>8. RunIsComplete'
  BY <1>0
  DEF NothingToRetry, Existing, memory, TypeOK, Run, RunIsComplete, Recorded,
      Got, TestsCovered, JobPlaced
<1> QED
  BY <1>1, <1>2, <1>3, <1>4, <1>5, <1>6, <1>7, <1>8 DEF Inv

LEMMA StutterStep ==
    ASSUME Inv, TypeOK', UNCHANGED vars
    PROVE  Inv'
<1> USE QaAssumption
<1>0. TypeOK /\ JobPlaced /\ CombinedApart /\ TestsApart /\ SavedFromMemory
         /\ TestsCovered /\ UnloadableUnbatched /\ BatchesSurvive /\ RunIsComplete
  BY DEF Inv
<1>1. JobPlaced'
  BY <1>0 DEF vars, memory, TypeOK, Run, JobPlaced
<1>2. CombinedApart'
  BY <1>0 DEF vars, memory, TypeOK, Run, CombinedApart, JobPlaced
<1>3. TestsApart'
  BY <1>0
  DEF vars, memory, TypeOK, Run, TestsApart, Got, WithStatus, Recorded,
      JobPlaced
<1>4. SavedFromMemory'
  BY <1>0
  DEF vars, memory, TypeOK, Run, SavedFromMemory, Got, Recorded, JobPlaced
<1>5. TestsCovered'
  BY <1>0 DEF vars, memory, TypeOK, Run, TestsCovered, Got
<1>6. UnloadableUnbatched'
  BY <1>0
  DEF vars, memory, TypeOK, Run, UnloadableUnbatched, JobPlaced,
      SavedFromMemory
<1>7. BatchesSurvive'
  <2>1. \A r \in Run : \/ ran'[r] \ Recorded(r)' \subseteq ran[r] \ Recorded(r)
                       \/ ran'[r] \subseteq Recorded(r)'
    BY <1>0
    DEF vars, memory, TypeOK, Recorded, JobPlaced, SavedFromMemory,
        UnloadableUnbatched, Got
  <2> QED
    BY <1>0, <2>1, LossesKept
<1>8. RunIsComplete'
  BY <1>0
  DEF vars, memory, TypeOK, Run, RunIsComplete, Recorded, Got, TestsCovered,
      JobPlaced
<1> QED
  BY <1>1, <1>2, <1>3, <1>4, <1>5, <1>6, <1>7, <1>8 DEF Inv

\* A new run takes all tests of its category, a retry none that passed.
LEMMA StartStep ==
    ASSUME NEW category \in {"A", "B", "all"}, NEW origin \in 0..MaxRun,
           NEW tests, tests \subseteq Test, Inv, TypeOK', pc = "idle",
           Start(category, origin, tests),
           origin = 0 => tests = Selected(category),
           origin # 0 =>
            /\ origin \in Existing
            /\ \A t \in tests :
                \/ t \in WithStatus(origin, "FAIL") \cup WithStatus(origin, "SKIP")
                \/ t \notin Recorded(origin)
    PROVE  Inv'
<1> USE QaAssumption
<1>0. TypeOK /\ JobPlaced /\ UnloadableUnbatched /\ BatchesSurvive
  BY DEF Inv
<1>1. PICK run \in {now + 1} \cup (IF category = "all" THEN {now + 2} ELSE {}) :
        /\ run <= MaxRun
        /\ job' = [category |-> category, origin |-> origin,
                   run |-> IF origin = 0 THEN run ELSE origin,
                   combined |-> IF category = "all" THEN now + 1 ELSE 0]
        /\ now' = run
  BY DEF Start
<1>2. /\ todo' = tests \cap A /\ browse' = tests \cap B
      /\ got' = {} /\ Got' = {}
      /\ UNCHANGED <<files, ran>>
      /\ pc' \in {"idle", "batch", "playwright"}
      /\ tests = {} => pc' = "idle"
      /\ pc' = "batch" => tests \cap A # {}
      /\ pc' = "playwright" => tests \cap A = {} /\ tests # {}
  BY DEF Start, Got
<1>3. /\ now \in Nat /\ run \in Run /\ run > now /\ now + 1 <= run
      /\ now + 1 \in Run /\ now < MaxRun
  BY <1>0, <1>1 DEF TypeOK, Start, Run
<1>4. \A r \in Existing : r \in 1..now
  BY <1>0 DEF JobPlaced, Existing, Run, TypeOK
<1>5. JobPlaced'
  <2>1. \A r \in Run : r > now' => r > now
    BY <1>1, <1>3 DEF Run
  <2>2. \A r \in Run : r > now' =>
            ~files'[r].exists /\ files'[r].records = {} /\ ran'[r] = {}
    BY <1>0, <1>2, <2>1 DEF JobPlaced
  <2>3. origin # 0 => origin \in 1..now' /\ files'[origin].exists
    BY <1>1, <1>2, <1>3, <1>4 DEF Existing
  <2> QED
    BY <1>1, <1>3, <2>2, <2>3 DEF JobPlaced, Run
<1>6. CombinedApart'
  <2>1. \A r \in Run : r > now => ~files[r].exists /\ ran[r] = {}
    BY <1>0 DEF JobPlaced
  <2>2. origin # 0 => origin # now + 1
    BY <1>3, <1>4
  <2> QED
    BY <1>1, <1>2, <1>3, <2>1, <2>2 DEF CombinedApart
<1>7. TestsApart'
  <2>1. \A s : Recorded(s)' = Recorded(s) /\
               \A status : WithStatus(s, status)' = WithStatus(s, status)
    BY <1>2 DEF Recorded, WithStatus
  <2> QED
    BY <1>1, <1>2, <2>1 DEF TestsApart
<1>8. SavedFromMemory'
  <2>1. ~files[run].exists /\ ran[run] = {}
    BY <1>0, <1>3 DEF JobPlaced
  <2> QED
    BY <1>1, <1>2, <2>1 DEF SavedFromMemory
<1>9. TestsCovered'
  <2>1. A # {} /\ B # {} /\ A \cap B = {}
    BY DEF A, B
  <2>2. pc' = "playwright" => todo' = {} /\ browse' # {}
    BY <1>2 DEF Test
  <2>3. origin = 0 => tests = CASE category = "A" -> A
                                [] category = "B" -> B
                                [] category = "all" -> A \cup B
    BY DEF Selected, Test
  <2>4. job'.origin = 0 => origin = 0 /\ job'.category = category
    BY <1>1
  <2> HIDE DEF A, B
  <2> QED
    BY <1>1, <1>2, <2>1, <2>2, <2>3, <2>4 DEF TestsCovered
<1>10. UnloadableUnbatched'
  BY <1>0, <1>2 DEF UnloadableUnbatched
<1>11. BatchesSurvive'
  BY <1>0, <1>2 DEF BatchesSurvive, Recorded
<1>12. RunIsComplete'
  <2>1. origin = 0 => tests # {}
    <3>1. 1 \in A /\ CliTests + 1 \in B
      BY DEF A, B
    <3> HIDE DEF A, B
    <3> QED
      BY <3>1 DEF Selected, Test
  <2>2. tests # {} => pc' # "idle"
    BY DEF Start, Test
  <2> QED
    BY <1>1, <2>1, <2>2 DEF RunIsComplete
<1> QED
  BY <1>5, <1>6, <1>7, <1>8, <1>9, <1>10, <1>11, <1>12 DEF Inv

LEMMA InitInv == Init => Inv
<1> SUFFICES ASSUME Init PROVE Inv
  OBVIOUS
<1>1. TypeOK
  BY QaAssumption DEF Init, TypeOK, NoFile, NoJob
<1>2. BatchesSurvive
  BY FS_EmptySet, QaAssumption DEF Init, BatchesSurvive, Recorded, NoFile
<1>3. RunIsComplete
  BY DEF Init, RunIsComplete
<1> QED
  BY <1>1, <1>2, <1>3
  DEF Init, Inv, JobPlaced, CombinedApart, TestsApart, SavedFromMemory,
      TestsCovered, UnloadableUnbatched, NoFile, Got

LEMMA InvStep == Inv /\ [Next]_vars => Inv'
<1> SUFFICES ASSUME Inv, [Next]_vars PROVE Inv'
  OBVIOUS
<1>0. TypeOK /\ TypeOK'
  BY TypeStep DEF Inv
<1>1. ASSUME NEW category \in {"A", "B", "all"}, Execute(category) PROVE Inv'
  <2>1. Selected(category) \subseteq Test
    BY DEF Selected, Test
  <2> QED
    BY <1>0, <1>1, <2>1, StartStep, QaAssumption DEF Execute
<1>2. ASSUME NEW category \in {"A", "B", "all"}, NEW origin \in Existing,
             NEW skipped \in BOOLEAN, Retry(category, origin, skipped)
      PROVE  Inv'
  <2> DEFINE tests == Filtered(Selected(category), origin, skipped)
  <2>1. tests \subseteq Test
    BY DEF Filtered, Selected, Test
  <2>2. origin \in 0..MaxRun /\ origin # 0
    BY DEF Existing, Run
  <2>3. \A t \in tests :
            \/ t \in WithStatus(origin, "FAIL") \cup WithStatus(origin, "SKIP")
            \/ t \notin Recorded(origin)
    BY DEF Filtered, RetryIds
  <2>4. pc = "idle" /\ Start(category, origin, tests)
    BY <1>2 DEF Retry
  <2> HIDE DEF tests
  <2> QED
    BY <1>0, <2>1, <2>2, <2>3, <2>4, StartStep
<1>3. ASSUME NEW category \in {"A", "B", "all"}, NEW origin \in Existing,
             NEW skipped \in BOOLEAN, NothingToRetry(category, origin, skipped)
      PROVE  Inv'
  BY <1>0, <1>3, NothingToRetryStep
<1>4. CASE Browse \/ BrowseUnreported \/ BrowseFails
  <2>1. PICK records : SaveBrowsed(records)
    BY <1>4 DEF Browse, BrowseUnreported, BrowseFails
  <2> QED
    BY <1>0, <2>1, SaveBrowsedStep
<1> QED
  BY <1>0, <1>1, <1>2, <1>3, <1>4, SingleRunStep, RunBatchStep, SaveBatchStep,
     FinishNewStep, FinishRetryStep, FinishUnmergedStep, CombineStep,
     EarlyEndStep, StutterStep
  DEF Next, Command, Progress

LEMMA Invariance == Spec => []Inv
  BY InitInv, InvStep, PTL DEF Spec

-----------------------------------------------------------------------------
(* The theorems.                                                           *)

\* The state of a command and of the files keeps its types.
THEOREM QaTypes == Spec => []TypeOK
<1>1. Inv => TypeOK
  BY DEF Inv
<1> QED
  BY <1>1, Invariance, PTL

\* However execute_tests_in_batches is interrupted, a run loses at most one
\* batch of the tests that it executed.
THEOREM AtMostABatchIsLost == Spec => []BatchesSurvive
<1>1. Inv => BatchesSurvive
  BY DEF Inv
<1> QED
  BY <1>1, Invariance, PTL

\* A new run that ended well recorded every test of category A.
THEOREM EndedRunsAreComplete == Spec => []RunIsComplete
<1>1. Inv => RunIsComplete
  BY DEF Inv
<1> QED
  BY <1>1, Invariance, PTL

\* What PassedStays says of a step and a run.
Keeps(r) ==
    /\ Recorded(r) \subseteq Recorded(r)'
    /\ \A t \in Recorded(r) :
        t \notin WithStatus(r, "FAIL") \cup WithStatus(r, "SKIP") =>
            t \notin WithStatus(r, "FAIL")' \cup WithStatus(r, "SKIP")'

\* It is enough to keep the records, or to change those of other tests.
LEMMA KeepsRecords ==
    ASSUME NEW r, files'[r].records = files[r].records
    PROVE  Keeps(r)
BY DEF Keeps, Recorded, WithStatus

LEMMA PassedStep ==
    ASSUME Inv, Inv', [Next]_vars, NEW r \in Existing, files[r].loadable
    PROVE  Keeps(r)
<1> USE QaAssumption
<1>0. TypeOK /\ JobPlaced /\ CombinedApart /\ TestsApart /\ SavedFromMemory
      /\ r \in Run /\ files[r].exists /\ r \in 1..now
  <2>1. TypeOK /\ JobPlaced /\ CombinedApart /\ TestsApart /\ SavedFromMemory
    BY DEF Inv
  <2> QED
    BY <2>1 DEF Existing, JobPlaced, Run, TypeOK
<1>1. CASE UNCHANGED files
  BY <1>1, KeepsRecords
<1>2. CASE SingleRun
  BY <1>0, <1>2, KeepsRecords DEF SingleRun
\* A new run writes what it holds, of which the file has a part.
<1>3. CASE SaveBatch \/ FinishNew
  <2>1. CASE files'[r] = files[r]
    BY <2>1, KeepsRecords
  <2>2. CASE files'[r] # files[r]
    <3>1. pc # "idle" /\ job.origin = 0 /\ r = job.run /\ files'[r].records = got
      BY <1>0, <1>3, <2>2 DEF SaveBatch, SavesBatch, FinishNew, Saved, TypeOK
    <3>2. /\ files[r].records \subseteq got
          /\ \A p, q \in got : p[1] = q[1] => p = q
      BY <1>0, <3>1 DEF SavedFromMemory, TestsApart
    <3> QED
      BY <3>1, <3>2 DEF Keeps, Recorded, WithStatus
  <2> QED
    BY <2>1, <2>2
\* A retry replaces records of tests that did not pass.
<1>4. CASE FinishRetry
  <2>1. CASE r # job.origin
    BY <1>0, <1>4, <2>1, KeepsRecords DEF FinishRetry, TypeOK
  <2>2. CASE r = job.origin
    <3>1. files'[r].records = Merged(files[r].records)
      BY <1>0, <1>4, <2>2 DEF FinishRetry, TypeOK
    <3>2. \A q \in got : q[1] \in Recorded(r) =>
              q[1] \in WithStatus(r, "FAIL") \cup WithStatus(r, "SKIP")
      BY <1>0, <1>4, <2>2 DEF FinishRetry, TestsApart, Got
    <3>3. \A p \in files[r].records : \/ p \in Merged(files[r].records)
              \/ \E q \in Merged(files[r].records) : q[1] = p[1]
      BY DEF Merged
    <3>4. Recorded(r) \subseteq Recorded(r)'
      BY <3>1, <3>3 DEF Recorded
    <3>5. \A q \in Merged(files[r].records) :
              \/ q \in files[r].records
              \/ q[1] \in WithStatus(r, "FAIL") \cup WithStatus(r, "SKIP")
      BY <3>2 DEF Merged, Recorded
    <3>6. ASSUME NEW t \in Recorded(r), NEW status \in {"FAIL", "SKIP"},
                 t \notin WithStatus(r, "FAIL") \cup WithStatus(r, "SKIP")
          PROVE  t \notin WithStatus(r, status)'
      <4>1. \A q \in files'[r].records : q[1] = t => q \in files[r].records
        BY <3>1, <3>5, <3>6
      <4> QED
        BY <3>6, <4>1 DEF WithStatus
    <3> QED
      BY <3>4, <3>6 DEF Keeps
  <2> QED
    BY <2>1, <2>2
<1>5. CASE FinishUnmerged
  <2>1. r # job.origin
    BY <1>5 DEF FinishUnmerged
  <2> QED
    BY <1>0, <1>5, <2>1, KeepsRecords DEF FinishUnmerged, TypeOK
<1>6. CASE Browse \/ BrowseUnreported \/ BrowseFails
  <2>1. PICK records : SaveBrowsed(records)
    BY <1>6 DEF Browse, BrowseUnreported, BrowseFails
  <2>2. r # now + 1
    BY <1>0 DEF TypeOK
  <2> QED
    BY <1>0, <2>1, <2>2, KeepsRecords DEF SaveBrowsed, TypeOK
\* A combined file is new, or that of the tests of category A in memory.
<1>7. CASE Combine
  <2>1. CASE r # job.combined
    BY <1>0, <1>7, <2>1, KeepsRecords DEF Combine, TypeOK
  <2>2. CASE r = job.combined
    <3>1. pc # "idle" /\ job.category = "all"
      BY <1>0, <1>7, <2>2 DEF Combine, JobPlaced
    <3>2. job.origin = 0 /\ r = job.run
      BY <1>0, <2>2, <3>1 DEF CombinedApart
    <3>3. files'[r].records = got \cup gotB
      BY <1>0, <1>7, <2>2 DEF Combine, Saved, TypeOK
    <3>4. /\ files[r].records \subseteq got
          /\ got \subseteq A \X Status
          /\ \A p, q \in got : p[1] = q[1] => p = q
      BY <1>0, <3>1, <3>2 DEF SavedFromMemory, TestsApart
    <3>5. \A p \in got, q \in gotB : p[1] # q[1]
      <4>1. A \cap B = {}
        BY DEF A, B
      <4>2. gotB \subseteq B \X Status
        BY <1>0 DEF TypeOK
      <4> HIDE DEF A, B
      <4> QED
        BY <3>4, <4>1, <4>2
    <3> QED
      BY <3>3, <3>4, <3>5 DEF Keeps, Recorded, WithStatus
  <2> QED
    BY <2>1, <2>2
<1>8. CASE RunBatch \/ Raises \/ Crash \/ UNCHANGED vars
           \/ \E category \in {"A", "B", "all"} :
               \/ Execute(category)
               \/ \E origin \in Existing, skipped \in BOOLEAN :
                   \/ Retry(category, origin, skipped)
                   \/ NothingToRetry(category, origin, skipped)
  <2>1. UNCHANGED files
    BY <1>8 DEF RunBatch, Raises, Crash, Ends, vars, Execute, Retry, Start,
                NothingToRetry
  <2> QED
    BY <1>1, <2>1
<1> QED
  BY <1>2, <1>3, <1>4, <1>5, <1>6, <1>7, <1>8 DEF Next, Command, Progress

\* Retries and combined runs take no test out of a run that can be loaded, and
\* a test that passed in it stays passed: merge_retry_results and
\* _merge_execution_states over any sequence of commands.
THEOREM PassedTestsStayPassed == Spec => PassedStays
<1>1. Inv /\ Inv' /\ [Next]_vars =>
        [\A r \in Existing : files[r].loadable =>
            /\ Recorded(r) \subseteq Recorded(r)'
            /\ \A t \in Recorded(r) :
                t \notin WithStatus(r, "FAIL") \cup WithStatus(r, "SKIP") =>
                    t \notin WithStatus(r, "FAIL")' \cup WithStatus(r, "SKIP")']_vars
  BY PassedStep DEF Keeps
<1> QED
  BY <1>1, Invariance, PTL DEF Spec, PassedStays
=============================================================================
