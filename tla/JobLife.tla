------------------------------- MODULE JobLife -------------------------------
(***************************************************************************)
(* What a backend promises: the life of a job's record as the protocol     *)
(* class TaskQueue/backends/interface.py describes it, without queues,     *)
(* leases, workers, events or messages.  The distributed system and the    *)
(* in-memory backend are both shown to implement it, and JobGroup is       *)
(* written against it.                                                     *)
(***************************************************************************)
CONSTANTS
    Jobs,       \* job ids
    Handles,    \* the handles that submit, and wait for, a job
    Target      \* the job id of each handle

VARIABLES
    life,       \* status and cancel flag of each job's record
    taken       \* what take_result gave each handle

lifeVars == <<life, taken>>

Ended == {"completed", "failed", "cancelled"}
Gone == [status |-> "absent", request_cancel |-> FALSE]

Unfinished(j) == life[j].status \in {"queued", "running"}

LifeInit ==
    /\ life = [j \in Jobs |-> Gone]
    /\ taken = [h \in Handles |-> "none"]

-----------------------------------------------------------------------------
\* enqueue: an id that is known is refused, and the handle waits for the job
\* that is there.
Enqueue(h) ==
    /\ life' = IF life[Target[h]] = Gone
                 THEN [life EXCEPT ![Target[h]].status = "queued"]
                 ELSE life
    /\ taken' = [taken EXCEPT ![h] = "none"]

\* request_cancel_many, and request_cancel where S has one member: a no-op on
\* jobs that are finished or unknown.
RequestCancel(S) ==
    /\ life' = [j \in Jobs |->
                  IF j \in S /\ Unfinished(j)
                    THEN [life[j] EXCEPT !.request_cancel = TRUE]
                    ELSE life[j]]
    /\ UNCHANGED taken

\* claim
Deliver(j) ==
    /\ life[j].status = "queued"
    /\ life' = [life EXCEPT ![j].status = "running"]
    /\ UNCHANGED taken

\* release of one job, or reap of all those that some dead workers had leased.
GiveBack(S) ==
    /\ \A j \in S : life[j].status = "running"
    /\ life' = [j \in Jobs |->
                  IF j \in S THEN [life[j] EXCEPT !.status = "queued"]
                             ELSE life[j]]
    /\ UNCHANGED taken

\* save(done=True): only a job that was told to becomes CANCELLED.
Finish(j, status) ==
    /\ life[j].status = "running"
    /\ status = "cancelled" => life[j].request_cancel
    /\ life' = [life EXCEPT ![j] = [Gone EXCEPT !.status = status]]
    /\ UNCHANGED taken

\* A save whose reply was lost is followed by one of FAILED.
Overturn(j) ==
    /\ life[j].status \in Ended
    /\ life' = [life EXCEPT ![j].status = "failed"]
    /\ UNCHANGED taken

\* Mutant of Take: the record is handed over in any state.
TakeAtOnce(h) ==
    /\ life[Target[h]] # Gone
    /\ taken' = [taken EXCEPT ![h] = life[Target[h]].status]
    /\ life' = [life EXCEPT ![Target[h]] = Gone]

\* take_result returns the record of a finished job, and frees it ...
Take(h) ==
    /\ life[Target[h]].status \in Ended
    /\ taken' = [taken EXCEPT ![h] = life[Target[h]].status]
    /\ life' = [life EXCEPT ![Target[h]] = Gone]

\* ... or raises KeyError for an unknown one.
TakeFails(h) ==
    /\ life[Target[h]] = Gone
    /\ taken' = [taken EXCEPT ![h] = "missing"]
    /\ UNCHANGED life

\* A networked backend keeps an unclaimed result for a limited time.
Expire(j) ==
    /\ life[j].status \in Ended
    /\ life' = [life EXCEPT ![j] = Gone]
    /\ UNCHANGED taken

-----------------------------------------------------------------------------
\* What workers, reapers and time do to a record.
Backend ==
    \/ \E j \in Jobs : Deliver(j) \/ Overturn(j) \/ Expire(j)
    \/ \E j \in Jobs, status \in Ended : Finish(j, status)
    \/ \E S \in SUBSET Jobs : GiveBack(S)

Next ==
    \/ \E h \in Handles : Enqueue(h) \/ Take(h) \/ TakeFails(h)
    \/ \E S \in SUBSET Jobs : RequestCancel(S)
    \/ Backend

Spec == LifeInit /\ [][Next]_lifeVars
=============================================================================
