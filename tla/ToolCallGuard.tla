--------------------------- MODULE ToolCallGuard ---------------------------
(***************************************************************************)
(* The watchdog of one provider invocation (providers/tool_guard.py): what *)
(* it counts, when it denies a tool call, and what a retry resets.  A      *)
(* guard is a record; tripped by a denied call, it denies every later one. *)
(***************************************************************************)
EXTENDS Integers

CONSTANTS
    File,     \* the files that tool calls name
    NoFile,   \* the file of a call that names none
    Budget,   \* max_total_calls
    FileCap,  \* max_interactions_per_file
    Rate      \* max_calls_per_minute

ASSUME GuardAssumption ==
    /\ NoFile \notin File
    /\ Budget \in Nat \ {0} /\ FileCap \in Nat \ {0} /\ Rate \in Nat \ {0}

Trip == {"none", "budget", "file", "rate"}

\* recent is the number of allowed calls of the last minute.
Guard ==
    [total : 0..Budget, files : [File -> 0..FileCap], recent : 0..Rate,
     trip : Trip]

NewGuard ==
    [total |-> 0, files |-> [f \in File |-> 0], recent |-> 0, trip |-> "none"]

\* Mutant: the budget is compared with the calls counted so far.
Verdict_OffByOne(guard, file, kept) ==
    CASE guard.trip # "none" -> guard.trip
      [] guard.trip = "none" /\ guard.total > Budget -> "budget"
      [] OTHER -> IF kept >= Rate THEN "rate" ELSE "none"

\* What the thresholds say of one more call, before it is counted; kept is
\* how many of the recent calls are still younger than a minute.
Verdict(guard, file, kept) ==
    CASE guard.trip # "none" -> guard.trip
      [] guard.trip = "none" /\ guard.total + 1 > Budget -> "budget"
      [] guard.trip = "none" /\ guard.total + 1 <= Budget
         /\ file \in File /\ guard.files[file] + 1 > FileCap -> "file"
      [] OTHER -> IF kept >= Rate THEN "rate" ELSE "none"

Counted(guard, file, kept) ==
    [total |-> guard.total + 1,
     files |-> [f \in File |-> IF f = file THEN guard.files[f] + 1
                               ELSE guard.files[f]],
     recent |-> kept + 1,
     trip |-> guard.trip]

\* The guard with another trip and another window.
Tripped(guard, trip, recent) ==
    [total |-> guard.total, files |-> guard.files, recent |-> recent,
     trip |-> trip]

\* The guard after the call: counted, or tripped.
Check(guard, file, kept) ==
    LET verdict == Verdict(guard, file, kept)
    IN  IF verdict = "none" THEN Counted(guard, file, kept)
        ELSE Tripped(guard, verdict,
                     IF verdict = "rate" THEN kept ELSE guard.recent)

\* Mutant: a retry starts with a new guard.
ResetForRetry_Counters(guard) == NewGuard

\* The counters stay, the rate window and the trip are cleared.
ResetForRetry(guard) == Tripped(guard, "none", 0)
=============================================================================
