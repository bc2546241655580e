--------------------------- MODULE ExclusiveRuns ---------------------------
(***************************************************************************)
(* What the running lock promises: the runs of a project are exclusive. A  *)
(* run begins only when no other run is going on, and only the run that is *)
(* going on ends.                                                          *)
(***************************************************************************)
EXTENDS Integers

CONSTANT Run  \* the runs, as positive numbers

VARIABLE current  \* the run that is going on, or 0

TypeOK == current \in Run \cup {0}

Init == current = 0

Begin(r) == current = 0 /\ current' = r

End == current # 0 /\ current' = 0

Next == End \/ \E r \in Run : Begin(r)

Spec == Init /\ [][Next]_current
=============================================================================
