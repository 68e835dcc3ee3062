--------------------------- MODULE LifeRefinement ---------------------------
(***************************************************************************)
(* The distributed queue implements JobLife: whatever pools, reapers and   *)
(* failed calls do, a record goes through the life of the protocol class.  *)
(***************************************************************************)
EXTENDS LeaseInvariant

\* The flag of a finished job is a left-over of the worker's copy.
LifeOf(j) ==
    [status |-> jobs[j].status,
     request_cancel |-> jobs[j].request_cancel /\ ~IsTerminal(j)]

\* A take_result that has not returned has given nothing yet.
TakenOf(j) ==
    IF result[j] \in {"none", "waiting", "ready"} THEN "none" ELSE result[j]

\* Every job has one handle.
Itself == [j \in Jobs |-> j]
lifeMap == [j \in Jobs |-> LifeOf(j)]
takenMap == [j \in Jobs |-> TakenOf(j)]

Life == INSTANCE JobLife WITH
            Handles <- Jobs, Target <- Itself,
            life <- lifeMap, taken <- takenMap

\* Claims, saves, releases, reaps, cancel requests and takes, failed or
\* interrupted anywhere, change records in no other way than the backend
\* protocol allows.
ImplementsJobLife == Life!Spec
=============================================================================
