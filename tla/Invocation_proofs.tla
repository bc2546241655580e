-------------------------- MODULE Invocation_proofs --------------------------
(***************************************************************************)
(* The nested retries of a provider invocation, for any budget, number of  *)
(* retries and rounds, and every caller and provider: one process at a     *)
(* time, no more calls than the guard's budget, no more processes than the *)
(* product of the limits, and none after one completed.                    *)
(***************************************************************************)
EXTENDS Invocation, TLAPS

\* There is a process exactly while its provider waits for it, and only of a
\* provider that takes the caller's arguments.
ProcessWaitedFor ==
    /\ running = IF pc = "wait" /\ exit = "none" THEN 1 ELSE 0
    /\ pc \in {"start", "wait", "drain", "provider"} => Accepted

\* The guard counts what it allows, and no retry resets the count.
CallsCounted == allowed = guard.total

\* What a clean completion leaves to the layers above the provider.
FinishedUntouched ==
    finished =>
        /\ pc \in {"retry", "caller", "returned"}
        /\ outcome = Result("none")

\* The one provider that a handler can invoke shows no call to the guard.
HandlerUnguarded ==
    caller = "handler" =>
        pending = 0 /\ late = 0 /\ guard.trip = "none" /\ rerun = FALSE

Inv ==
    /\ TypeOK /\ ProcessWaitedFor /\ CallsCounted /\ FinishedUntouched
    /\ HandlerUnguarded

LEMMA InitInv == Init => Inv
<1> SUFFICES ASSUME Init PROVE Inv
  OBVIOUS
<1>1. guard \in Guard /\ guard.total = 0 /\ guard.trip = "none"
  BY GuardAssumption DEF Init, NewGuard, Guard, Trip
<1>2. rerun = FALSE /\ finished = FALSE
  BY Zenon DEF Init
<1>a. /\ rerun \in BOOLEAN /\ finished \in BOOLEAN /\ event \in BOOLEAN
      /\ violation \in BOOLEAN /\ lateHere \in BOOLEAN
  BY Zenon DEF Init
<1>3. TypeOK
  BY <1>1, <1>a, InvocationAssumption DEF Init, TypeOK, Trip, Error
<1>4. ProcessWaitedFor /\ CallsCounted
  BY <1>1 DEF Init, ProcessWaitedFor, CallsCounted
<1>5. FinishedUntouched
  BY <1>2, Zenon DEF FinishedUntouched
<1>6. HandlerUnguarded
  BY <1>1, <1>2, Zenon DEF Init, HandlerUnguarded
<1> QED
  BY <1>3, <1>4, <1>5, <1>6 DEF Inv

\* A guard stays within its limits, and counts a call exactly if it allows it.
LEMMA CheckCounts ==
  ASSUME NEW g \in Guard, NEW file \in AnyFile, NEW kept \in 0..g.recent
  PROVE  /\ Check(g, file, kept) \in Guard
         /\ Check(g, file, kept).total =
                IF Verdict(g, file, kept) = "none" THEN g.total + 1 ELSE g.total
<1>1. CASE Verdict(g, file, kept) = "none"
  <2>1. g.total + 1 <= Budget /\ kept < Rate
        /\ (file \in File => g.files[file] + 1 <= FileCap)
    BY <1>1, GuardAssumption DEF Verdict, Guard, Trip, AnyFile
  <2>2. [f \in File |-> IF f = file THEN g.files[f] + 1 ELSE g.files[f]]
            \in [File -> 0..FileCap]
    BY <2>1, GuardAssumption DEF Guard
  <2> QED
    BY <1>1, <2>1, <2>2, GuardAssumption DEF Check, Counted, Guard
<1>2. CASE Verdict(g, file, kept) # "none"
  <2>1. Verdict(g, file, kept) \in Trip
    BY DEF Verdict, Guard, Trip
  <2> QED
    BY <1>2, <2>1, GuardAssumption DEF Check, Tripped, Guard
<1> QED
  BY <1>1, <1>2

\* A retry keeps the count.
LEMMA ResetCounts ==
  ASSUME NEW g \in Guard
  PROVE  /\ ResetForRetry(g) \in Guard /\ ResetForRetry(g).total = g.total
         /\ ResetForRetry(g).trip = "none"
  BY GuardAssumption DEF ResetForRetry, Tripped, Guard, Trip

LEMMA ReadStep ==
  ASSUME Inv, NEW file \in AnyFile, NEW kept \in 0..guard.recent,
         NEW forbidden \in BOOLEAN,
         ReadsCall(file, kept, forbidden) \/ LateReads(file, kept, forbidden)
  PROVE  Inv'
<1> DEFINE verdict == Verdict(guard, file, kept)
<1>1. guard' = Check(guard, file, kept) /\ guard \in Guard
      /\ allowed' = IF verdict = "none" THEN allowed + 1 ELSE allowed
  BY DEF ReadsCall, LateReads, Shows, Inv, TypeOK
<1>2. guard' \in Guard /\ CallsCounted'
  BY <1>1, CheckCounts DEF Inv, CallsCounted, Guard
<1>3. allowed' \in Nat
  BY <1>1 DEF Inv, TypeOK
<1>4. /\ UNCHANGED <<config, pc, nest, running, exit, outcome, answer, starts,
                     finished>>
      /\ pending' \in 0..MaxPending /\ late' \in 0..MaxPending
      /\ reader' \in {"reading", "closed"}
  BY InvocationAssumption DEF Inv, TypeOK, ReadsCall, LateReads, behind
<1>5. event' \in BOOLEAN /\ violation' \in BOOLEAN
  <2>1. event \in BOOLEAN /\ violation \in BOOLEAN
    BY DEF Inv, TypeOK
  <2>2. CASE Marks(file, kept, forbidden)
    BY <2>2, Zenon DEF Marks
  <2>3. CASE UNCHANGED cells
    BY <2>1, <2>3, Zenon DEF cells
  <2> QED
    BY <2>2, <2>3 DEF ReadsCall, LateReads
<1>6. lateHere' \in BOOLEAN
  <2>1. CASE ReadsCall(file, kept, forbidden)
    BY <2>1 DEF ReadsCall, behind, Inv, TypeOK
  <2>2. CASE LateReads(file, kept, forbidden)
    BY <2>2, Zenon DEF LateReads
  <2> QED
    BY <2>1, <2>2
<1>7. caller # "handler"
  BY DEF ReadsCall, LateReads, Inv, HandlerUnguarded, TypeOK
<1> QED
  BY <1>2, <1>3, <1>4, <1>5, <1>6, <1>7
  DEF Inv, TypeOK, ProcessWaitedFor, FinishedUntouched, HandlerUnguarded, nest,
      config, Accepted

LEMMA ChildStep ==
  ASSUME Inv, Child \/ MonitorKills
  PROVE  Inv'
<1>1. ASSUME ProcessCalls
      PROVE  Inv'
  <2>1. caller # "handler"
    BY <1>1 DEF ProcessCalls, Guarded, Inv, ProcessWaitedFor, Accepted
  <2> QED
    BY <1>1, <2>1, InvocationAssumption
    DEF ProcessCalls, Inv, TypeOK, ProcessWaitedFor, CallsCounted,
        FinishedUntouched, HandlerUnguarded, nest, config, cells, behind, Accepted
<1>2. ASSUME MonitorKills \/ \E how \in {"done"} \cup Failure : ProcessExits(how)
      PROVE  Inv'
  BY <1>2, InvocationAssumption
  DEF MonitorKills, ProcessExits, Inv, TypeOK, ProcessWaitedFor, CallsCounted,
      FinishedUntouched, HandlerUnguarded, nest, config, cells, behind, Failure,
      Accepted
<1> QED
  BY <1>1, <1>2 DEF Child

LEMMA ProviderStep ==
  ASSUME Inv, Provider
  PROVE  Inv'
<1>1. ASSUME Spawn \/ SpawnFails
      PROVE  Inv'
  <2>1. event' \in BOOLEAN /\ violation' \in BOOLEAN
    BY <1>1, Zenon DEF Spawn, SpawnFails, cells, Inv, TypeOK
  <2> QED
    BY <1>1, <2>1, InvocationAssumption
    DEF Spawn, SpawnFails, Inv, TypeOK, ProcessWaitedFor, CallsCounted,
        FinishedUntouched, HandlerUnguarded, nest, config, cells, behind, Error,
        Trip, Accepted
<1>2. ASSUME WaitReturns \/ WaitTimesOut \/ ReaderJoined
      PROVE  Inv'
  BY <1>2, InvocationAssumption
  DEF WaitReturns, WaitTimesOut, ReaderJoined, Inv, TypeOK, ProcessWaitedFor,
      CallsCounted, FinishedUntouched, HandlerUnguarded, nest, config, process,
      cells, behind, Accepted
<1>3. ASSUME JoinTimesOut
      PROVE  Inv'
  <2>1. lateHere' \in BOOLEAN
    BY <1>3, Zenon DEF JoinTimesOut
  <2>2. caller # "handler"
    BY <1>3 DEF JoinTimesOut, Inv, HandlerUnguarded
  <2> QED
    BY <1>3, <2>1, <2>2, InvocationAssumption
    DEF JoinTimesOut, Inv, TypeOK, ProcessWaitedFor, CallsCounted,
        FinishedUntouched, HandlerUnguarded, nest, config, cells, Accepted
<1>4. ASSUME ProviderRetries
      PROVE  Inv'
  <2>1. try' \in 1..MaxRetries
    BY <1>4, InvocationAssumption
    DEF ProviderRetries, Quiet, Attempts, Inv, TypeOK
  <2> QED
    BY <1>4, <2>1, InvocationAssumption
    DEF ProviderRetries, Inv, TypeOK, ProcessWaitedFor, CallsCounted,
        FinishedUntouched, HandlerUnguarded, process, config, cells, behind,
        Accepted
<1>5. ASSUME ProviderReturns
      PROVE  Inv'
  <2>1. ProviderOutcome \in [kind : {"none", "result"} \cup Raised,
                             reason : Trip \cup {"restricted"}]
    BY DEF ProviderOutcome, Inv, TypeOK, Result, Error, Raised, Failure, Guard,
           Trip
  <2>2. ~finished /\ (CompletedClean => ProviderOutcome = Result("none"))
    BY <1>5 DEF ProviderReturns, Inv, FinishedUntouched, CompletedClean,
                ProviderOutcome, Failure
  <2>3. /\ event' = FALSE /\ violation' = FALSE /\ lateHere' = FALSE
        /\ finished' \in BOOLEAN
    BY <1>5, Zenon DEF ProviderReturns
  <2>4. TypeOK'
    BY <1>5, <2>1, <2>3 DEF ProviderReturns, Inv, TypeOK, nest, config
  <2>5. ProcessWaitedFor' /\ CallsCounted' /\ HandlerUnguarded'
    BY <1>5 DEF ProviderReturns, Inv, ProcessWaitedFor, CallsCounted,
                HandlerUnguarded, config, nest
  <2>6. FinishedUntouched'
    BY <1>5, <2>2 DEF ProviderReturns, FinishedUntouched, Result
  <2> QED
    BY <2>4, <2>5, <2>6 DEF Inv
<1>6. ASSUME Attempt \/ Refused
      PROVE  Inv'
  <2>1. event' \in BOOLEAN /\ violation' \in BOOLEAN
    BY <1>6, Zenon DEF Attempt, Refused, process, cells, Inv, TypeOK
  <2> QED
    BY <1>6, <2>1
    DEF Attempt, Refused, Inv, TypeOK, ProcessWaitedFor, CallsCounted,
        FinishedUntouched, HandlerUnguarded, nest, config, process, cells, behind,
        Error, Raised, Trip, Accepted
<1> QED
  BY <1>1, <1>2, <1>3, <1>4, <1>5, <1>6 DEF Provider

LEMMA WrapperStep ==
  ASSUME Inv, Wrappers
  PROVE  Inv'
<1>1. ASSUME TimeoutRetry \/ StartSecondary
      PROVE  Inv'
  <2>1. ~finished
    BY <1>1 DEF TimeoutRetry, RetriesTimeout, StartSecondary, GoesToSecondary, Inv,
                FinishedUntouched, Result
  <2> QED
    BY <1>1, <2>1, InvocationAssumption
    DEF TimeoutRetry, StartSecondary, Inv, TypeOK, ProcessWaitedFor, CallsCounted,
        FinishedUntouched, HandlerUnguarded, process, config, cells, behind
<1>2. ASSUME RetryReturns
      PROVE  Inv'
  BY <1>2 DEF RetryReturns, Inv, TypeOK, ProcessWaitedFor, CallsCounted,
              FinishedUntouched, HandlerUnguarded, nest, process, config, cells,
              behind
<1>3. ASSUME GuardRerun \/ NextRound
      PROVE  Inv'
  <2>1. ~finished
    BY <1>3 DEF GuardRerun, RerunWanted, GuardReason, NextRound, Inv,
                FinishedUntouched, Result
  <2>2. guard' \in Guard /\ guard'.total = guard.total /\ guard'.trip = "none"
    BY <1>3, ResetCounts DEF GuardRerun, NextRound, StartAgain, Inv, TypeOK
  <2>3. CASE GuardRerun
    <3>1. rerun' \in BOOLEAN
      BY <2>3, Zenon DEF GuardRerun
    <3>2. caller # "handler"
      BY <2>3 DEF GuardRerun, RerunWanted, Inv, HandlerUnguarded
    <3> QED
      BY <2>1, <2>2, <2>3, <3>1, <3>2, InvocationAssumption
      DEF GuardRerun, StartAgain, Inv, TypeOK, ProcessWaitedFor, CallsCounted,
          FinishedUntouched, HandlerUnguarded, process, config, cells, behind
  <2>4. CASE NextRound
    <3>1. rerun' \in BOOLEAN /\ rerun' = FALSE
      BY <2>4, Zenon DEF NextRound
    <3> QED
      BY <2>1, <2>2, <2>4, <3>1, InvocationAssumption
      DEF NextRound, StartAgain, Inv, TypeOK, ProcessWaitedFor, CallsCounted,
          FinishedUntouched, HandlerUnguarded, process, config, cells, behind
  <2> QED
    BY <1>3, <2>3, <2>4
<1>4. ASSUME CallerReturns
      PROVE  Inv'
  BY <1>4 DEF CallerReturns, AnswerOf, Inv, TypeOK, ProcessWaitedFor,
              CallsCounted, FinishedUntouched, HandlerUnguarded, nest, process,
              config, cells, behind
<1> QED
  BY <1>1, <1>2, <1>3, <1>4 DEF Wrappers

LEMMA InvStep == Inv /\ [Next]_vars => Inv'
<1> SUFFICES ASSUME Inv, [Next]_vars PROVE Inv'
  OBVIOUS
<1>1. CASE Readers
  <2>1. PICK file \in AnyFile, kept \in 0..guard.recent, forbidden \in Forbidden :
            ReadsCall(file, kept, forbidden) \/ LateReads(file, kept, forbidden)
    BY <1>1 DEF Readers
  <2>2. forbidden \in BOOLEAN
    BY <2>1 DEF Forbidden
  <2> QED
    BY <2>1, <2>2, ReadStep
<1>2. CASE UNCHANGED vars
  BY <1>2 DEF vars, nest, process, config, cells, behind, Inv, TypeOK,
              ProcessWaitedFor, CallsCounted, FinishedUntouched,
              HandlerUnguarded, Accepted
<1> QED
  BY <1>1, <1>2, ChildStep, ProviderStep, WrapperStep DEF Next

LEMMA Invariance == Spec => []Inv
  BY InitInv, InvStep, PTL DEF Spec

\* The variables keep their types, the guard within its limits among them.
THEOREM InvocationTypes == Spec => []TypeOK
  BY Invariance, PTL DEF Inv

\* No retry, secondary provider or timeout leaves a process behind: a provider starts a
\* process when there is none, and returns when there is none.
THEOREM OneProcessAtATime == Spec => []OneProcess
<1>1. Inv => OneProcess
  BY DEF Inv, ProcessWaitedFor, OneProcess
<1> QED
  BY <1>1, Invariance, PTL

\* The budget of the guard bounds the calls of the whole invocation.
THEOREM BudgetHolds == Spec => []WithinBudget
<1>1. Inv => WithinBudget
  BY GuardAssumption DEF Inv, TypeOK, CallsCounted, WithinBudget, Guard
<1> QED
  BY <1>1, Invariance, PTL

\* Only Spawn starts a process, and no process completed before it.
THEOREM CompletedWorkIsKept == Spec => FinishedIsFinal
<1>1. Inv /\ [Next]_vars => [finished => starts' = starts]_vars
  <2> SUFFICES ASSUME Inv, Next, finished PROVE starts' = starts
    BY DEF vars
  <2>1. ~Spawn
    BY DEF Spawn, Inv, FinishedUntouched
  <2> QED
    BY <2>1
    DEF Next, Child, Readers, MonitorKills, Provider, Wrappers, ProcessCalls,
        ProcessExits, ReadsCall, LateReads, Attempt, Refused, SpawnFails,
        WaitReturns, WaitTimesOut, ReaderJoined, JoinTimesOut, ProviderRetries,
        ProviderReturns, TimeoutRetry, StartSecondary, RetryReturns, GuardRerun,
        NextRound, CallerReturns
<1> QED
  BY <1>1, Invariance, PTL DEF Spec, FinishedIsFinal

---------------------------------------------------------------------------
(* How many processes the nested retries can start.                        *)

FiniteRetries == RetryTimeouts => TimeoutRetries > 0

\* What one chain and one run of the caller can start.
OfChain == PerChain * Attempts
OfRun == Chains * OfChain

\* The run and the chain that the nested counters stand for.
RunNo == IF caller = "reviewer" THEN (IF rerun THEN 2 ELSE 1) ELSE round
ChainNo == IF chain = "secondary" THEN 2 ELSE 1

\* The starts that the counters stand for, the present one included.
Used ==
    (RunNo - 1) * OfRun + (ChainNo - 1) * OfChain + (timeouts - 1) * Attempts + try

StartsWithin ==
    FiniteRetries =>
        /\ timeouts <= PerChain /\ try <= Attempts
        /\ chain = "secondary" => HasSecondary
        /\ starts <= IF pc \in {"attempt", "start"} THEN Used - 1 ELSE Used

\* n shares of size m, the last of them not used up.
LEMMA Shares ==
  ASSUME NEW b \in Nat, NEW n \in 1..b, NEW m \in Nat
  PROVE  /\ (n - 1) * m \in Nat /\ (n - 1) * m + m <= b * m
         /\ n * m = (n - 1) * m + m
<1>1. \A x, y \in Nat : x * y \in Nat
  BY SMT
<1>2. n * m = (n - 1) * m + m
  BY SMT
<1>3. b * m = n * m + (b - n) * m
  BY SMT
<1> QED
  BY <1>1, <1>2, <1>3, SMT

\* The nest in numbers: where the counters are within their limits.
LEMMA Nested ==
  ASSUME Inv, StartsWithin, FiniteRetries
  PROVE  /\ Attempts \in Nat \ {0} /\ OfChain \in Nat /\ OfRun \in Nat
         /\ RunNo \in 1..Runs /\ ChainNo \in 1..Chains
         /\ timeouts \in 1..PerChain /\ try \in 1..Attempts
         /\ PerChain \in Nat \ {0} /\ Chains \in 1..2 /\ Runs \in Nat \ {0}
         /\ (RunNo - 1) * OfRun \in Nat
         /\ (RunNo - 1) * OfRun + OfRun <= Runs * OfRun
         /\ RunNo * OfRun = (RunNo - 1) * OfRun + OfRun
         /\ (ChainNo - 1) * OfChain \in Nat
         /\ (ChainNo - 1) * OfChain + OfChain <= OfRun
         /\ (timeouts - 1) * Attempts \in Nat
         /\ (timeouts - 1) * Attempts + Attempts <= OfChain
         /\ timeouts * Attempts = (timeouts - 1) * Attempts + Attempts
<1>1. /\ Attempts \in Nat \ {0} /\ PerChain \in Nat \ {0} /\ Chains \in 1..2
      /\ Runs \in Nat \ {0}
  BY InvocationAssumption DEF Attempts, PerChain, Chains, Runs
<1>2. RunNo \in 1..Runs
  BY InvocationAssumption DEF RunNo, Runs, Inv, TypeOK
<1>3. ChainNo \in 1..Chains
  BY DEF ChainNo, Chains, StartsWithin
<1>4. timeouts \in 1..PerChain /\ try \in 1..Attempts
  BY <1>1, InvocationAssumption DEF Inv, TypeOK, StartsWithin
<1>5. OfChain \in Nat
  BY <1>1, SMT DEF OfChain
<1>6. OfRun \in Nat
  BY <1>1, <1>5, SMT DEF OfRun
<1>7. (RunNo - 1) * OfRun \in Nat /\ (RunNo - 1) * OfRun + OfRun <= Runs * OfRun
      /\ RunNo * OfRun = (RunNo - 1) * OfRun + OfRun
  BY <1>1, <1>2, <1>6, Shares
<1>8. (ChainNo - 1) * OfChain \in Nat /\ (ChainNo - 1) * OfChain + OfChain <= OfRun
  BY <1>1, <1>3, <1>5, Shares DEF OfRun
<1>9. /\ (timeouts - 1) * Attempts \in Nat
      /\ (timeouts - 1) * Attempts + Attempts <= OfChain
      /\ timeouts * Attempts = (timeouts - 1) * Attempts + Attempts
  BY <1>1, <1>4, Shares DEF OfChain
<1> QED
  BY <1>1, <1>2, <1>3, <1>4, <1>5, <1>6, <1>7, <1>8, <1>9

LEMMA StartsStep ==
  ASSUME Inv, StartsWithin, [Next]_vars, FiniteRetries
  PROVE  StartsWithin'
<1> DEFINE R == (RunNo - 1) * OfRun
           C == (ChainNo - 1) * OfChain
           T == (timeouts - 1) * Attempts
<1>1. /\ Attempts \in Nat \ {0} /\ OfChain \in Nat /\ OfRun \in Nat
      /\ RunNo \in 1..Runs /\ ChainNo \in 1..Chains
      /\ timeouts \in 1..PerChain /\ try \in 1..Attempts
      /\ PerChain \in Nat \ {0} /\ Chains \in 1..2 /\ Runs \in Nat \ {0}
      /\ R \in Nat /\ C \in Nat /\ T \in Nat
  BY Nested
<1>2. /\ RunNo * OfRun = R + OfRun
      /\ C + OfChain <= OfRun
      /\ T + Attempts <= OfChain /\ timeouts * Attempts = T + Attempts
  BY Nested
<1>3. (1 - 1) * OfChain = 0 /\ (2 - 1) * OfChain = OfChain /\ (1 - 1) * Attempts = 0
  BY <1>1, SMT
<1>4. Used = R + C + T + try
  BY DEF Used
<1>5. starts \in Nat /\ starts <= IF pc \in {"attempt", "start"} THEN Used - 1 ELSE Used
  BY DEF StartsWithin, Inv, TypeOK
<1>6. /\ UNCHANGED config
      /\ Attempts' = Attempts /\ OfChain' = OfChain /\ OfRun' = OfRun
      /\ HasSecondary' = HasSecondary
  <2>1. UNCHANGED config
    BY DEF Next, vars, Child, Readers, MonitorKills, Provider, Wrappers,
           ProcessCalls, ProcessExits, ReadsCall, LateReads, Attempt, Refused,
           Spawn, SpawnFails, WaitReturns, WaitTimesOut, ReaderJoined,
           JoinTimesOut, ProviderRetries, ProviderReturns, TimeoutRetry,
           StartSecondary, RetryReturns, GuardRerun, NextRound, CallerReturns
  <2>2. provider' = provider
    BY <2>1 DEF config
  <2> QED
    BY <2>1, <2>2 DEF Attempts, OfChain, OfRun, Chains, HasSecondary
<1>7. chain = "secondary" => HasSecondary
  BY DEF StartsWithin
<1> HIDE DEF R, C, T
<1>a. CASE UNCHANGED <<nest, starts>>
           /\ (pc' \in {"attempt", "start"} => pc \in {"attempt", "start"})
  <2>1. Used' = Used /\ chain' = chain /\ timeouts' = timeouts /\ try' = try
    BY <1>a, <1>6 DEF Used, RunNo, ChainNo, nest, config
  <2>2. Used \in Int
    BY <1>1, <1>4
  <2> QED
    BY <1>a, <1>1, <1>5, <1>6, <1>7, <2>1, <2>2 DEF StartsWithin
<1>b. CASE Spawn
  <2>1. Used' = Used /\ chain' = chain /\ timeouts' = timeouts /\ try' = try
    BY <1>b, <1>6 DEF Spawn, Used, RunNo, ChainNo, nest, config
  <2>2. starts' = starts + 1 /\ pc = "start" /\ pc' = "wait"
    BY <1>b DEF Spawn
  <2>3. Used \in Int
    BY <1>1, <1>4
  <2> QED
    BY <1>1, <1>5, <1>6, <1>7, <2>1, <2>2, <2>3 DEF StartsWithin
<1>c. CASE ProviderRetries
  <2>1. /\ try' = try + 1 /\ try < Attempts /\ starts' = starts
        /\ pc = "provider" /\ pc' = "attempt"
        /\ UNCHANGED <<round, rerun, chain, timeouts>>
    BY <1>c DEF ProviderRetries, Quiet
  <2>2. Used' = R + C + T + (try + 1)
    BY <2>1, <1>6 DEF Used, RunNo, ChainNo, config, R, C, T
  <2> QED
    BY <1>1, <1>4, <1>5, <1>6, <1>7, <2>1, <2>2 DEF StartsWithin
<1>d. CASE TimeoutRetry
  <2>1. /\ timeouts' = timeouts + 1 /\ timeouts' <= PerChain /\ try' = 1
        /\ starts' = starts /\ pc = "retry" /\ pc' = "attempt"
        /\ UNCHANGED <<round, rerun, chain>>
    BY <1>d, <1>1 DEF TimeoutRetry, RetriesTimeout, FiniteRetries, PerChain
  <2>2. Used' = R + C + (T + Attempts) + 1
    <3>1. timeouts' - 1 = timeouts
      BY <2>1, <1>1
    <3> QED
      BY <2>1, <3>1, <1>2, <1>6 DEF Used, RunNo, ChainNo, config, R, C
  <2> QED
    BY <1>1, <1>2, <1>4, <1>5, <1>6, <1>7, <2>1, <2>2 DEF StartsWithin
<1>e. CASE StartSecondary
  <2>1. /\ timeouts' = 1 /\ try' = 1 /\ chain = "primary" /\ chain' = "secondary"
        /\ starts' = starts /\ pc = "retry" /\ pc' = "attempt"
        /\ HasSecondary
        /\ UNCHANGED <<round, rerun>>
    BY <1>e, Zenon DEF StartSecondary, GoesToSecondary
  <2>2. RunNo' = RunNo /\ ChainNo' = 2 /\ ChainNo = 1
    BY <2>1, <1>6 DEF RunNo, ChainNo, config
  <2>3. Used' = R + OfChain + 0 + 1
    BY <2>1, <2>2, <1>3, <1>6 DEF Used, R
  <2>4. C = 0
    BY <2>2, <1>3 DEF C
  <2> QED
    BY <1>1, <1>2, <1>4, <1>5, <1>6, <2>1, <2>3, <2>4 DEF StartsWithin
<1>f. CASE GuardRerun \/ NextRound
  <2>1. /\ timeouts' = 1 /\ try' = 1 /\ chain' = "primary"
        /\ starts' = starts /\ pc = "caller" /\ pc' = "attempt"
    BY <1>f DEF GuardRerun, NextRound, StartAgain
  <2>2. RunNo' - 1 = RunNo
    <3>1. CASE GuardRerun
      <4>1. caller = "reviewer"
        BY <3>1 DEF GuardRerun, RerunWanted, Inv, TypeOK, HandlerUnguarded
      <4>2. ~rerun /\ rerun'
        BY <3>1, Zenon DEF GuardRerun, RerunWanted
      <4> QED
        BY <4>1, <4>2, <1>6 DEF RunNo, config
    <3>2. CASE NextRound
      <4>1. caller # "reviewer" /\ round' = round + 1 /\ round \in Nat
        BY <3>2, InvocationAssumption DEF NextRound, Inv, TypeOK
      <4> QED
        BY <4>1, <1>6 DEF RunNo, config
    <3> QED
      BY <1>f, <3>1, <3>2
  <2>3. ChainNo' = 1
    BY <2>1 DEF ChainNo
  <2>4. Used' = (R + OfRun) + 0 + 0 + 1
    BY <2>1, <2>2, <2>3, <1>2, <1>3, <1>6 DEF Used
  <2> QED
    BY <1>1, <1>2, <1>4, <1>5, <1>6, <2>1, <2>4 DEF StartsWithin
<1>g. CASE UNCHANGED vars
  BY <1>a, <1>g DEF vars
<1> QED
  BY <1>a, <1>b, <1>c, <1>d, <1>e, <1>f, <1>g
  DEF Next, Child, Readers, MonitorKills, Provider, Wrappers, ProcessCalls,
      ProcessExits, ReadsCall, LateReads, Attempt, Refused, SpawnFails,
      WaitReturns, WaitTimesOut, ReaderJoined, JoinTimesOut, ProviderReturns,
      RetryReturns, CallerReturns

\* The runs of the caller, the chains, the timeout attempts and the processes
\* of a call multiply, and nothing starts more processes than that.
THEOREM StartsAreBounded == Spec => []StartsBounded
<1>1. Init => StartsWithin
  <2> SUFFICES ASSUME Init, FiniteRetries PROVE StartsWithin
    BY DEF StartsWithin
  <2>1. rerun = FALSE
    BY Zenon DEF Init
  <2>2. /\ Attempts \in Nat \ {0} /\ PerChain \in Nat \ {0} /\ Chains \in 1..2
        /\ RunNo = 1 /\ ChainNo = 1
    BY <2>1, InvocationAssumption
    DEF Init, Attempts, PerChain, Chains, RunNo, ChainNo
  <2>3. OfChain \in Nat
    BY <2>2, SMT DEF OfChain
  <2>4. OfRun \in Nat
    BY <2>2, <2>3, SMT DEF OfRun
  <2>5. (1 - 1) * OfRun = 0 /\ (1 - 1) * OfChain = 0 /\ (1 - 1) * Attempts = 0
    BY <2>2, <2>3, <2>4, SMT
  <2>6. Used = 1
    BY <2>2, <2>5 DEF Init, Used
  <2> QED
    BY <2>2, <2>6 DEF Init, StartsWithin
<1>2. Inv /\ StartsWithin /\ [Next]_vars => StartsWithin'
  <2>1. CASE FiniteRetries
    BY <2>1, StartsStep
  <2>2. CASE ~FiniteRetries
    BY <2>2 DEF StartsWithin, FiniteRetries
  <2> QED
    BY <2>1, <2>2
<1>3. Inv /\ StartsWithin => StartsBounded
  <2> SUFFICES ASSUME Inv, StartsWithin, FiniteRetries
               PROVE  starts <= Runs * Chains * PerChain * Attempts
    BY DEF StartsBounded, FiniteRetries
  <2>1. /\ Attempts \in Nat /\ PerChain \in Nat /\ Chains \in Nat /\ Runs \in Nat
    BY Nested
  <2>2. Used <= Runs * OfRun /\ Used \in Int /\ Runs * OfRun \in Int
    BY Nested, SMT DEF Used
  <2>3. starts \in Nat /\ starts <= Used
    BY <2>2 DEF StartsWithin, Inv, TypeOK
  <2>4. Runs * OfRun = Runs * Chains * PerChain * Attempts
    BY <2>1, SMT DEF OfRun, OfChain
  <2> QED
    BY <2>2, <2>3, <2>4
<1> QED
  BY <1>1, <1>2, <1>3, Invariance, PTL DEF Spec

=============================================================================
