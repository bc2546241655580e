------------------------------ MODULE QaBatch ------------------------------
(***************************************************************************)
(* The end-to-end tests of an epic, run in batches and run again           *)
(* (qa/batch_executor.py, qa/executor.py, qa/playwright_executor.py):      *)
(* results are saved after every batch, a retry merges into the run it     *)
(* retries, and crashes and failed writes come in between.  Run ids are    *)
(* times to the second: a new process starts a second later than the last  *)
(* one, and so do the browser tests after a batch of an LLM.               *)
(***************************************************************************)
EXTENDS Integers, FiniteSets

CONSTANTS
    CliTests,    \* the tests of category A are 1..CliTests, in plan order
    UiTests,     \* those of category B follow
    BatchSize,   \* tests per batch
    BatchStatus, \* bound: the statuses that the tests of a batch end with
    MaxRun       \* bound: the last run id

ASSUME QaAssumption ==
    /\ CliTests \in Nat \ {0} /\ UiTests \in Nat \ {0}
    /\ BatchSize \in Nat \ {0}
    /\ BatchStatus \subseteq {"PASS", "FAIL", "SKIP"}
    /\ MaxRun \in Nat \ {0}

VARIABLES
    now,      \* the last run id drawn
    files,    \* files[r]: epic-<id>-<r>.yaml
    json,     \* results.json of the browser tests, as the last reporter left it
    pc,       \* what the command is about to do
    job,      \* its arguments and the run ids it works with
    todo,     \* its tests of category A that no batch has taken
    browse,   \* its tests of category B
    got,      \* the records of category A that it holds in memory
    gotB,     \* those of category B
    outcome,  \* how the last command ended
    ran       \* history: ran[r]: tests of category A that run r executed

memory == <<todo, browse, got, gotB>>
vars == <<now, files, json, pc, job, memory, outcome, ran>>

A == 1..CliTests
B == (CliTests + 1)..(CliTests + UiTests)
Test == A \cup B
Run == 1..MaxRun
\* FAIL stands for ERROR, too: a retry treats them alike.
Status == {"PASS", "FAIL", "SKIP"}
Record == Test \X Status

\* A file is loadable if load_execution_state accepts it; what a retry reads
\* first, get_retry_info, accepts the others, too.
NoFile == [exists |-> FALSE, records |-> {}, loadable |-> FALSE]
Saved(records) == [exists |-> TRUE, records |-> records, loadable |-> TRUE]
Existing == {r \in Run : files[r].exists}
Recorded(r) == {p[1] : p \in files[r].records}
WithStatus(r, status) == {p[1] : p \in {q \in files[r].records : q[2] = status}}

NoJob == [category |-> "none", origin |-> 0, run |-> 0, combined |-> 0]

TypeOK ==
    /\ now \in 0..MaxRun
    /\ files \in [Run -> [exists : BOOLEAN, records : SUBSET Record,
                          loadable : BOOLEAN]]
    /\ json \subseteq B \X Status
    /\ pc \in {"idle", "batch", "save", "finish", "playwright", "combine"}
    /\ job \in [category : {"none", "A", "B", "all"}, origin : 0..MaxRun,
                run : 0..MaxRun, combined : 0..MaxRun]
    /\ todo \subseteq A /\ browse \subseteq B
    /\ got \subseteq Record /\ gotB \subseteq B \X Status
    /\ outcome \in {"none", "ok", "nothing", "failed"}
    /\ ran \in [Run -> SUBSET A]

Init ==
    /\ now = 0
    /\ files = [r \in Run |-> NoFile]
    /\ json = {}
    /\ pc = "idle" /\ job = NoJob
    /\ todo = {} /\ browse = {} /\ got = {} /\ gotB = {}
    /\ outcome = "none"
    /\ ran = [r \in Run |-> {}]

---------------------------------------------------------------------------
(* The command: qa execute [-c category] [--retry [--include-skipped]]     *)

Selected(category) ==
    CASE category = "A" -> A
      [] category = "B" -> B
      [] category = "all" -> Test

\* get_retry_ids
RetryIds(origin, skipped) ==
    WithStatus(origin, "FAIL")
        \cup (IF skipped THEN WithStatus(origin, "SKIP") ELSE {})

\* Mutant: a retry runs every test again.
Filtered_All(tests, origin, skipped) == tests

\* filter_tests_for_retry: to be retried, or never executed.
Filtered(tests, origin, skipped) ==
    {t \in tests : t \in RetryIds(origin, skipped) \/ t \notin Recorded(origin)}

\* What is left to do after the tests of category A.
AfterA == IF browse # {} THEN "playwright" ELSE "idle"
EndsWith(next) == outcome' = IF next = "idle" THEN "ok" ELSE outcome

\* category "all" draws the id of the combined run before that of the tests of
\* category A; the same second may serve both.
Start(category, origin, tests) ==
    /\ now < MaxRun
    /\ \E run \in {now + 1} \cup (IF category = "all" THEN {now + 2} ELSE {}) :
        /\ run <= MaxRun
        /\ job' = [category |-> category, origin |-> origin,
                   run |-> IF origin = 0 THEN run ELSE origin,
                   combined |-> IF category = "all" THEN now + 1 ELSE 0]
        /\ now' = run
    /\ todo' = tests \cap A /\ browse' = tests \cap B
    /\ got' = {} /\ gotB' = {}
    /\ pc' = CASE tests \cap A # {} -> "batch"
               [] tests \cap A = {} /\ tests # {} -> "playwright"
               [] tests = {} -> "idle"
    /\ EndsWith(pc')
    /\ UNCHANGED <<files, json, ran>>

Execute(category) ==
    /\ pc = "idle"
    /\ Start(category, 0, Selected(category))

Retry(category, origin, skipped) ==
    /\ pc = "idle"
    /\ RetryIds(origin, skipped) # {}
    /\ Start(category, origin, Filtered(Selected(category), origin, skipped))

\* "No tests to retry - all passed in previous run!"
NothingToRetry(category, origin, skipped) ==
    /\ pc = "idle"
    /\ RetryIds(origin, skipped) = {}
    /\ outcome' = "nothing"
    /\ job' = [category |-> category, origin |-> origin, run |-> origin,
               combined |-> 0]
    /\ UNCHANGED <<now, files, json, pc, memory, ran>>

\* Few tests, or --no-batch: one LLM runs them all and writes the file itself.
\* Bound: only the first run is one.
SingleRun ==
    /\ pc = "idle" /\ now = 0
    /\ now' = now + 1
    /\ \E status \in [A -> Status], loadable \in BOOLEAN :
        files' = [files EXCEPT ![now + 1] =
                    [exists |-> TRUE, records |-> {<<t, status[t]>> : t \in A},
                     loadable |-> loadable]]
    /\ outcome' = "ok" /\ job' = NoJob
    /\ UNCHANGED <<json, pc, memory, ran>>

---------------------------------------------------------------------------
(* execute_tests_in_batches, category A                                    *)

\* Mutant: a batch counts its tests off instead of slicing the plan, which would
\* cut the last one.
NextBatch_Overrun ==
    LET first == CHOOSE t \in todo : \A u \in todo : t <= u
    IN  first..(first + BatchSize - 1)

\* The next BatchSize tests in plan order.
NextBatch == {t \in todo : Cardinality({u \in todo : u < t}) < BatchSize}

\* Mutant: the last batch is run only if it is full.
LeftAfterBatch_FullOnly ==
    LET left == todo \ NextBatch
    IN  IF Cardinality(left) < BatchSize THEN {} ELSE left

LeftAfterBatch == todo \ NextBatch

\* Every test of the batch gets a record, also if the output does not name it
\* or the provider ended with an exit code.
RunBatch ==
    /\ pc = "batch"
    /\ \E status \in [NextBatch -> BatchStatus] :
        got' = got \cup {<<t, status[t]>> : t \in NextBatch}
    /\ todo' = LeftAfterBatch
    /\ pc' = "save"
    /\ ran' = IF job.origin = 0
              THEN [ran EXCEPT ![job.run] = @ \cup NextBatch]
              ELSE ran
    /\ UNCHANGED <<now, files, json, job, browse, gotB, outcome>>

\* Mutant: a new run is saved at its end only.
SavesBatch_AtEnd == job.origin = 0 /\ todo = {}

\* A new run is saved after every batch, a retry is not.
SavesBatch == job.origin = 0

SaveBatch ==
    /\ pc = "save"
    /\ files' = IF SavesBatch THEN [files EXCEPT ![job.run] = Saved(got)] ELSE files
    /\ pc' = IF todo = {} THEN "finish" ELSE "batch"
    /\ UNCHANGED <<now, json, job, memory, outcome, ran>>

FinishNew ==
    /\ pc = "finish" /\ job.origin = 0
    /\ files' = [files EXCEPT ![job.run] = Saved(got)]
    /\ pc' = AfterA
    /\ EndsWith(AfterA)
    /\ UNCHANGED <<now, json, job, memory, ran>>

\* merge_retry_results updates the records the run has; a result of a test
\* that it has no record of is dropped.
Merged(records) ==
    {p \in records : \A q \in got : q[1] # p[1]}
        \cup {q \in got : \E p \in records : p[1] = q[1]}

FinishRetry ==
    /\ pc = "finish" /\ job.origin # 0
    /\ files[job.origin].loadable
    /\ got' = Merged(files[job.origin].records)
    /\ files' = [files EXCEPT ![job.origin].records = got']
    /\ pc' = AfterA
    /\ EndsWith(AfterA)
    /\ UNCHANGED <<now, json, job, todo, browse, gotB, ran>>

\* "Failed to merge retry results, saving as separate file": the file is that
\* of the retried run.
FinishUnmerged ==
    /\ pc = "finish" /\ job.origin # 0
    /\ ~files[job.origin].loadable
    /\ files' = [files EXCEPT ![job.origin] = Saved(got)]
    /\ pc' = AfterA
    /\ EndsWith(AfterA)
    /\ UNCHANGED <<now, json, job, memory, ran>>
---------------------------------------------------------------------------
(* _execute_playwright_category and the combined run                       *)

\* The browser tests are in a run of their own, retry or not.
SaveBrowsed(records) ==
    /\ pc = "playwright"
    /\ now < MaxRun
    /\ now' = now + 1
    /\ gotB' = records
    /\ files' = [files EXCEPT ![now + 1] = Saved(records)]
    /\ pc' = IF got # {} THEN "combine" ELSE "idle"
    /\ EndsWith(pc')
    /\ UNCHANGED <<job, todo, browse, got, ran>>

\* The reporter writes the results of this execution.
Browse ==
    \E status \in [browse -> Status] :
        /\ json' = {<<t, status[t]>> : t \in browse}
        /\ SaveBrowsed(json')

\* The tests end before the reporter writes: what an earlier execution left in
\* results.json is read as the result of this one.
BrowseUnreported ==
    /\ SaveBrowsed({p \in json : p[1] \in browse}
                   \cup {<<t, "FAIL">> : t \in {u \in browse : \A p \in json : p[1] # u}})
    /\ UNCHANGED json

\* No server or no Playwright; a timeout; no test file.
BrowseFails ==
    /\ \E records \in {browse \X {"SKIP"}, browse \X {"FAIL"}, {}} :
           SaveBrowsed(records)
    /\ UNCHANGED json

\* _merge_execution_states; a record of the retried run stays beside the new one.
Combine ==
    /\ pc = "combine"
    /\ files' = [files EXCEPT ![job.combined] = Saved(got \cup gotB)]
    /\ pc' = "idle"
    /\ outcome' = "ok"
    /\ UNCHANGED <<now, json, job, memory, ran>>

---------------------------------------------------------------------------
(* What ends a command early.                                              *)

Ends(how) ==
    /\ pc' = "idle"
    /\ outcome' = how
    /\ todo' = {} /\ browse' = {} /\ got' = {} /\ gotB' = {}
    /\ UNCHANGED <<now, files, json, job, ran>>

\* The provider raises anything but an exit code, or a file is not written: a
\* rename leaves either the old file or the new one.
Raises == pc \in {"batch", "save", "finish", "playwright", "combine"} /\ Ends("failed")

Crash == pc # "idle" /\ Ends("none")

---------------------------------------------------------------------------
Command ==
    \E category \in {"A", "B", "all"} :
        \/ Execute(category)
        \/ \E origin \in Existing, skipped \in BOOLEAN :
            Retry(category, origin, skipped) \/ NothingToRetry(category, origin, skipped)

Progress ==
    \/ RunBatch \/ SaveBatch \/ FinishNew \/ FinishRetry \/ FinishUnmerged
    \/ Browse \/ BrowseUnreported \/ BrowseFails \/ Combine

Next == Command \/ SingleRun \/ Progress \/ Raises \/ Crash

Spec == Init /\ [][Next]_vars

---------------------------------------------------------------------------
(* What the runs promise.                                                  *)

\* Whatever crashes, raises or is not written, a run loses at most one batch
\* of the tests that it executed.
BatchesSurvive ==
    \A r \in Run : Cardinality(ran[r] \ Recorded(r)) <= BatchSize

\* A new run that ended has a record of every test of category A.
RunIsComplete ==
    /\ outcome = "ok" /\ pc = "idle"
    /\ job.origin = 0 /\ job.category \in {"A", "all"}
    => A \subseteq Recorded(IF job.category = "all" THEN job.combined ELSE job.run)

\* Retries and combined runs take no test out of a run that can be loaded, and
\* a test that passed in it stays passed.
PassedStays ==
    [][\A r \in Existing : files[r].loadable =>
        /\ Recorded(r) \subseteq Recorded(r)'
        /\ \A t \in Recorded(r) :
            t \notin WithStatus(r, "FAIL") \cup WithStatus(r, "SKIP") =>
                t \notin WithStatus(r, "FAIL")' \cup WithStatus(r, "SKIP")']_vars

\* "Also executes any new tests not in the previous run" (commands/qa.py): a
\* retry that ran the tests of category A it was to run, and merged them, leaves
\* none without a record.
RetryCompletes ==
    /\ outcome = "ok" /\ pc = "idle"
    /\ job.category = "A" /\ job.origin # 0 /\ ran[job.origin] # {}
    => A \subseteq Recorded(job.origin)

=============================================================================
