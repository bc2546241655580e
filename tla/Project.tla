------------------------------ MODULE Project ------------------------------
(***************************************************************************)
(* What the development loop promises its user: the stories of a project   *)
(* are delivered one at a time and in order, and an epic is closed once    *)
(* all its stories are delivered and before any story of a later epic.     *)
(***************************************************************************)
EXTENDS Integers

CONSTANTS
    NumEpics,    \* number of epics of the project
    StoryCount   \* StoryCount[e]: number of stories of epic e

VARIABLES
    delivered,  \* the stories delivered, as <<epic, number>>
    closed      \* the epics closed

vars == <<delivered, closed>>

Epic == 1..NumEpics
StoriesOf(e) == {<<e, i>> : i \in 1..StoryCount[e]}
Story == UNION {StoriesOf(e) : e \in Epic}

TypeOK == delivered \subseteq Story /\ closed \subseteq Epic

Init == delivered = {} /\ closed = {}

EarlierEpicsClosed(e) == \A f \in Epic : f < e => f \in closed

Deliver(e, i) ==
    /\ <<e, i>> \notin delivered
    /\ EarlierEpicsClosed(e)
    /\ \A j \in 1..StoryCount[e] : j < i => <<e, j>> \in delivered
    /\ delivered' = delivered \cup {<<e, i>>}
    /\ UNCHANGED closed

Close(e) ==
    /\ e \notin closed
    /\ EarlierEpicsClosed(e)
    /\ StoriesOf(e) \subseteq delivered
    /\ closed' = closed \cup {e}
    /\ UNCHANGED delivered

Next == \E e \in Epic : Close(e) \/ \E i \in 1..StoryCount[e] : Deliver(e, i)

Spec == Init /\ [][Next]_vars

-----------------------------------------------------------------------------
\* No story is delivered before an earlier one or before an earlier epic is
\* closed, and a closed epic has nothing left to deliver.
InOrder ==
    /\ \A e \in Epic : \A i \in 1..StoryCount[e] : <<e, i>> \in delivered =>
            /\ EarlierEpicsClosed(e)
            /\ \A j \in 1..StoryCount[e] : j < i => <<e, j>> \in delivered
    /\ \A e \in closed : EarlierEpicsClosed(e) /\ StoriesOf(e) \subseteq delivered
=============================================================================
