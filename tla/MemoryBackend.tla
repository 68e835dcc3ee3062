---------------------------- MODULE MemoryBackend ----------------------------
(***************************************************************************)
(* TaskQueue/backends/memory_backend.py with the claim loops and handles   *)
(* of the one process it serves.  Its methods run without a switch to      *)
(* another task except where they wait: claim for the queue, take_result   *)
(* and wait_cancel for an event.  A waiter goes on some time after its     *)
(* event was set, and finds what others have left.                         *)
(***************************************************************************)
EXTENDS Naturals, Sequences, SequencesExt

CONSTANTS
    Jobs,           \* job ids
    Handles,        \* handles, each submitting once
    Target,         \* the job id of each handle
    Resubmitted,    \* ids that may be enqueued again when their record is gone
    Loops,          \* claim loops
    NoJob,          \* a loop holds nothing
    MaxReleases     \* loops that are cancelled while they process a job

ASSUME MemoryAssumption ==
    /\ Target \in [Handles -> Jobs]
    /\ Resubmitted \subseteq Jobs
    /\ NoJob \notin Jobs
    /\ MaxReleases \in Nat

VARIABLES
    records,    \* _jobs
    queue,      \* _queue
    events,     \* the jobs in _events, whose done event is not set
    cancels,    \* _cancels: "none", "unset" or "set"
    handle,     \* where each handle is, or what take_result gave it
    held,       \* the id and outcome each loop works on
    step,       \* the await each loop is at
    releases    \* releases so far

backendVars == <<records, queue, events, cancels>>
vars == <<backendVars, handle, held, step, releases>>

NoRecord == [status |-> "absent", request_cancel |-> FALSE]
NoHold == [id |-> NoJob, status |-> "absent", request_cancel |-> FALSE]

Known(j) == records[j] # NoRecord
Finished(j) == records[j].status \in {"completed", "failed", "cancelled"}

MemoryInit ==
    /\ records = [j \in Jobs |-> NoRecord]
    /\ queue = <<>>
    /\ events = {}
    /\ cancels = [j \in Jobs |-> "none"]
    /\ handle = [h \in Handles |-> "new"]
    /\ held = [l \in Loops |-> NoHold]
    /\ step = [l \in Loops |-> "polling"]
    /\ releases = 0

-----------------------------------------------------------------------------
(* The handles.                                                            *)

\* Mutant of Enqueue: a known id is not refused.
EnqueueAgain(j) ==
    /\ records' = [records EXCEPT ![j] = [NoRecord EXCEPT !.status = "queued"]]
    /\ queue' = Append(queue, j)
    /\ events' = events \cup {j}
    /\ cancels' = [cancels EXCEPT ![j] = "unset"]

\* enqueue: a known id is ignored.
Enqueue(j) ==
    IF Known(j) THEN UNCHANGED backendVars
    ELSE /\ records' = [records EXCEPT ![j] = [NoRecord EXCEPT !.status = "queued"]]
         /\ queue' = Append(queue, j)
         /\ events' = events \cup {j}
         /\ cancels' = [cancels EXCEPT ![j] = "unset"]

Submit(h) ==
    /\ handle[h] = "new"
    /\ \/ Known(Target[h]) \/ Target[h] \in Resubmitted
       \/ \A g \in Handles : Target[g] = Target[h] => handle[g] = "new"
    /\ Enqueue(Target[h])
    /\ handle' = [handle EXCEPT ![h] = "submitted"]
    /\ UNCHANGED <<held, step, releases>>

\* The end of take_result: whatever is there is popped.
PopRecord(h) ==
    LET j == Target[h]
    IN /\ handle' = [handle EXCEPT ![h] =
                       IF Known(j) THEN records[j].status ELSE "missing"]
       /\ records' = [records EXCEPT ![j] = NoRecord]
       /\ events' = events \ {j}
       /\ cancels' = [cancels EXCEPT ![j] = "none"]
       /\ UNCHANGED <<queue, held, step, releases>>

\* take_result waits where there is a done event, else it does not wait.
TakeStarts(h) ==
    /\ handle[h] = "submitted"
    /\ IF Target[h] \in events
         THEN /\ handle' = [handle EXCEPT ![h] = "waiting"]
              /\ UNCHANGED <<backendVars, held, step, releases>>
         ELSE PopRecord(h)

\* A take_result whose event was set goes on.
TakeResumes(h) ==
    /\ handle[h] = "woken"
    /\ PopRecord(h)

\* Mutant of RequestCancel: nobody is notified.
RequestCancelSilent(j) ==
    /\ Known(j) /\ ~Finished(j)
    /\ records' = [records EXCEPT ![j].request_cancel = TRUE]
    /\ UNCHANGED <<queue, events, cancels, handle, held, step, releases>>

\* request_cancel, and a member of request_cancel_many.
RequestCancel(j) ==
    /\ Known(j) /\ ~Finished(j)
    /\ records' = [records EXCEPT ![j].request_cancel = TRUE]
    /\ cancels' = [cancels EXCEPT ![j] = IF @ = "none" THEN @ ELSE "set"]
    /\ UNCHANGED <<queue, events, handle, held, step, releases>>

-----------------------------------------------------------------------------
(* The claim loops, see module Worker.                                     *)

\* claim, and _run up to its first await.  (An id without a record is dropped
\* with a KeyError.)
Claim(l) ==
    /\ step[l] = "polling"
    /\ queue # <<>>
    /\ LET j == Head(queue)
           flagged == records[j].request_cancel
       IN IF Known(j)
            THEN /\ records' = [records EXCEPT ![j].status = "running"]
                 /\ held' = [held EXCEPT ![l] =
                      [id |-> j, request_cancel |-> flagged,
                       status |-> IF flagged THEN "cancelled" ELSE "running"]]
                 /\ step' = [step EXCEPT ![l] =
                      IF flagged THEN "saving" ELSE "running"]
            ELSE UNCHANGED <<records, held, step>>
    /\ queue' = Tail(queue)
    /\ UNCHANGED <<events, cancels, handle, releases>>

\* The body ends, or wait_cancel does.
RunEnds(l, status) ==
    /\ step[l] = "running"
    /\ step' = [step EXCEPT ![l] = "saving"]
    /\ held' = [held EXCEPT ![l].status = status]
    /\ UNCHANGED <<backendVars, handle, releases>>

BodyEnds(l) == RunEnds(l, "completed") \/ RunEnds(l, "failed")

CancelSeen(l) ==
    /\ held[l].id # NoJob
    /\ cancels[held[l].id] = "set"
    /\ RunEnds(l, "cancelled")

\* save(done=True): the record is replaced and the waiters' event is set; the
\* record may be gone.  A body that was cancelled may still be unwinding.
Save(l) ==
    LET j == held[l].id
    IN /\ step[l] = "saving"
       /\ IF Known(j)
            THEN /\ records' = [records EXCEPT ![j] =
                       [status |-> held[l].status,
                        request_cancel |-> held[l].request_cancel]]
                 /\ events' = events \ {j}
                 /\ cancels' = [cancels EXCEPT ![j] = "none"]
                 /\ handle' = [h \in Handles |->
                       IF Target[h] = j /\ handle[h] = "waiting"
                         THEN "woken" ELSE handle[h]]
            ELSE UNCHANGED <<records, events, cancels, handle>>
       /\ \/ /\ held[l].status = "cancelled" /\ ~held[l].request_cancel
             /\ step' = [step EXCEPT ![l] = "unwinding"]
             /\ UNCHANGED held
          \/ /\ step' = [step EXCEPT ![l] = "polling"]
             /\ held' = [held EXCEPT ![l] = NoHold]
       /\ UNCHANGED <<queue, releases>>

Unwinds(l) ==
    /\ step[l] = "unwinding"
    /\ step' = [step EXCEPT ![l] = "polling"]
    /\ held' = [held EXCEPT ![l] = NoHold]
    /\ UNCHANGED <<backendVars, handle, releases>>

\* Mutant of Release: the status is not looked at.
ReleaseUnchecked(j) ==
    IF Known(j)
      THEN /\ records' = [records EXCEPT ![j].status = "queued"]
           /\ queue' = Append(queue, j)
           /\ UNCHANGED <<events, cancels>>
      ELSE UNCHANGED backendVars

\* release: only a RUNNING job goes back.
Release(j) ==
    IF records[j].status = "running"
      THEN /\ records' = [records EXCEPT ![j].status = "queued"]
           /\ queue' = Append(queue, j)
           /\ UNCHANGED <<events, cancels>>
      ELSE UNCHANGED backendVars

\* A loop is cancelled while it processes a job, which it releases once the
\* body has ended.  (The pool that takes its place is the same loop again.)
Interrupted(l) ==
    /\ step[l] # "polling"
    /\ releases < MaxReleases
    /\ Release(held[l].id)
    /\ releases' = releases + 1
    /\ step' = [step EXCEPT ![l] = "polling"]
    /\ held' = [held EXCEPT ![l] = NoHold]
    /\ UNCHANGED handle

-----------------------------------------------------------------------------
LoopProgress(l) == Claim(l) \/ CancelSeen(l) \/ Save(l) \/ Unwinds(l)

MemoryNext ==
    \/ \E h \in Handles : Submit(h) \/ TakeStarts(h) \/ TakeResumes(h)
    \/ \E j \in Jobs : RequestCancel(j)
    \/ \E l \in Loops : LoopProgress(l) \/ BodyEnds(l) \/ Interrupted(l)

\* Tasks that can go on do.  A body ends by itself only as long as nobody
\* cancels its job: a cancelled one may wait for the cancellation to reach it.
MemorySpec ==
    /\ MemoryInit
    /\ [][MemoryNext]_vars
    /\ \A l \in Loops :
        /\ WF_vars(LoopProgress(l))
        /\ WF_vars(BodyEnds(l) /\ ~records[held[l].id].request_cancel)
    /\ \A h \in Handles : WF_vars(TakeResumes(h))

-----------------------------------------------------------------------------
\* The synchronization primitives follow the records: an unfinished job has a
\* done event and a cancel event, and nothing else has; a job is queued
\* exactly while its id is on the queue, once.
EventsMatchRecords ==
    /\ IsInjective(queue)
    /\ \A j \in Jobs :
        /\ records[j].status = "queued" <=> j \in Range(queue)
        /\ Known(j) /\ ~Finished(j) <=> j \in events
        /\ j \in events <=> cancels[j] # "none"

\* A take_result that waits returns in the end: no event is dropped before it
\* is set, and a cancel request reaches a body that would run for ever, also
\* when the job was released and claimed again in between.
TakersReturn ==
    \A h \in Handles :
        handle[h] \in {"waiting", "woken"}
            ~> handle[h] \notin {"waiting", "woken"}

\* The flag of a finished job is a left-over of the loop's copy, and a
\* take_result that has not returned has given nothing yet.
LifeOf(j) ==
    [status |-> records[j].status,
     request_cancel |-> records[j].request_cancel /\ ~Finished(j)]

TakenOf(h) ==
    IF handle[h] \in {"new", "submitted", "waiting", "woken"}
      THEN "none" ELSE handle[h]

lifeMap == [j \in Jobs |-> LifeOf(j)]
takenMap == [h \in Handles |-> TakenOf(h)]

Life == INSTANCE JobLife WITH life <- lifeMap, taken <- takenMap

\* The in-memory backend keeps the same promises as the networked one.
MemoryImplementsJobLife == Life!Spec
=============================================================================
