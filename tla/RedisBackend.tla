---------------------------- MODULE RedisBackend ----------------------------
(***************************************************************************)
(* The shared half of the system: the Redis keyspace of                    *)
(* TaskQueue/backends/redis_backend.py and the scripts that change it.     *)
(* Redis runs one script at a time, so every script below is one atomic    *)
(* change of the four variables.  Who calls a script, and what the caller  *)
(* does with the reply, is in module Worker and module TaskQueue.          *)
(***************************************************************************)
EXTENDS Integers, Sequences, FiniteSets, SequencesExt

CONSTANTS
    Jobs,       \* job ids
    Workers     \* RedisBackend instance ids, one per worker process

VARIABLES
    jobs,       \* the hashes "jobs:<id>", one record per job
    queue,      \* the list "queue" of ids waiting to be claimed
    processing, \* the lists "processing:<worker>" of the ids a worker has leased
    beat        \* the sorted set "workers" of heartbeats

redisVars == <<jobs, queue, processing, beat>>

-----------------------------------------------------------------------------
\* JobStatus.  A job whose hash does not exist has the status "absent".
Terminal == {"completed", "failed", "cancelled"}
Statuses == {"queued", "running"} \cup Terminal

\* What the hash of a job tells apart: its payload, task name and result stay
\* out.  "expires" says whether the key carries a time to live.
Records ==
    [status : Statuses \cup {"absent"}, attempts : Nat,
     request_cancel : BOOLEAN, expires : BOOLEAN]

NoRecord ==
    [status |-> "absent", attempts |-> 0,
     request_cancel |-> FALSE, expires |-> FALSE]

\* Mutant of NewRecord: the stored status is the one the caller sent.
NewRecordAsSent == [NoRecord EXCEPT !.status = "sent"]

\* The record a producer writes for a fresh job.
NewRecord == [NoRecord EXCEPT !.status = "queued"]

Exists(j) == jobs[j].status # "absent"
IsTerminal(j) == jobs[j].status \in Terminal

\* _cancel_requested: a vanished record reports False.
CancelRequested(j) == jobs[j].request_cancel

\* The scores of the sorted set are whole-second times; the scripts only ask
\* whether one is at most now - worker_ttl ("stale") or above it ("fresh").
Beats == {"none", "fresh", "stale"}

RedisInit ==
    /\ jobs = [j \in Jobs |-> NoRecord]
    /\ queue = <<>>
    /\ processing = [w \in Workers |-> <<>>]
    /\ beat = [w \in Workers |-> "none"]

-----------------------------------------------------------------------------
\* Mutant of EnqueueScript: only the RPUSH looks at whether the record exists.
EnqueueRewrites(j) ==
    /\ jobs' = [jobs EXCEPT ![j] = NewRecord]
    /\ queue' = IF Exists(j) THEN queue ELSE Append(queue, j)
    /\ UNCHANGED <<processing, beat>>

\* _ENQUEUE_SCRIPT: an id whose record exists is refused.
EnqueueScript(j) ==
    /\ ~Exists(j)
    /\ jobs' = [jobs EXCEPT ![j] = NewRecord]
    /\ queue' = Append(queue, j)
    /\ UNCHANGED <<processing, beat>>

\* BLMOVE queue processing:<w> LEFT RIGHT, the first half of a claim.
Blmove(w) ==
    /\ queue # <<>>
    /\ queue' = Tail(queue)
    /\ processing' = [processing EXCEPT ![w] = Append(@, Head(queue))]
    /\ UNCHANGED <<jobs, beat>>

\* Mutant of ClaimScript: the record is written anew.
ClaimRewrites(j) ==
    /\ jobs' = IF Exists(j)
                 THEN [jobs EXCEPT ![j] = [NewRecord EXCEPT
                         !.status = "running", !.attempts = jobs[j].attempts]]
                 ELSE jobs
    /\ UNCHANGED <<queue, processing, beat>>

\* _CLAIM_SCRIPT, the second half: whatever its status, an existing record
\* becomes RUNNING and its attempts grow by one.
ClaimScript(j) ==
    /\ jobs' = IF Exists(j)
                 THEN [jobs EXCEPT ![j].status = "running",
                                   ![j].attempts = @ + 1]
                 ELSE jobs
    /\ UNCHANGED <<queue, processing, beat>>

\* Mutant of ReturnLease: RPUSH without the LREM.
ReturnKeepsLease(w, j) ==
    /\ queue' = Append(queue, j)
    /\ UNCHANGED <<jobs, processing, beat>>

\* The MULTI of claim's error handler: LREM of the lease and RPUSH of the id.
ReturnLease(w, j) ==
    /\ processing' = [processing EXCEPT ![w] = RemoveFirst(@, j)]
    /\ queue' = Append(queue, j)
    /\ UNCHANGED <<jobs, beat>>

\* The LREM with which claim discards a lease whose record is gone.
DiscardLease(w, j) ==
    /\ processing' = [processing EXCEPT ![w] = RemoveFirst(@, j)]
    /\ UNCHANGED <<jobs, queue, beat>>

\* Mutant of SaveScript: the outcome is written, the lease is not dropped.
SaveKeepsLease(w, j, status, attempts, request_cancel) ==
    /\ jobs' = IF Exists(j)
                 THEN [jobs EXCEPT ![j] =
                         [status |-> status, attempts |-> attempts,
                          request_cancel |-> request_cancel,
                          expires |-> TRUE]]
                 ELSE jobs
    /\ UNCHANGED <<queue, processing, beat>>

\* _SAVE_SCRIPT with done: an existing record takes every field of the
\* worker's copy, the lease on the caller's own list is dropped and the
\* result starts to age.
SaveScript(w, j, status, attempts, request_cancel) ==
    /\ jobs' = IF Exists(j)
                 THEN [jobs EXCEPT ![j] =
                         [status |-> status, attempts |-> attempts,
                          request_cancel |-> request_cancel,
                          expires |-> TRUE]]
                 ELSE jobs
    /\ processing' = IF Exists(j)
                       THEN [processing EXCEPT ![w] = RemoveFirst(@, j)]
                       ELSE processing
    /\ UNCHANGED <<queue, beat>>

\* Mutants of ReleaseScript: the lease stays, the status is not looked at, and
\* the attempt is given back.
ReleaseKeepsLease(w, j) ==
    IF jobs[j].status = "running"
      THEN /\ jobs' = [jobs EXCEPT ![j].status = "queued"]
           /\ queue' = Append(queue, j)
           /\ UNCHANGED <<processing, beat>>
      ELSE UNCHANGED redisVars

ReleaseUnchecked(w, j) ==
    IF Exists(j)
      THEN /\ jobs' = [jobs EXCEPT ![j].status = "queued"]
           /\ processing' = [processing EXCEPT ![w] = RemoveFirst(@, j)]
           /\ queue' = Append(queue, j)
           /\ UNCHANGED beat
      ELSE UNCHANGED redisVars

ReleaseUncounts(w, j) ==
    IF jobs[j].status = "running"
      THEN /\ jobs' = [jobs EXCEPT ![j].status = "queued",
                                   ![j].attempts = @ - 1]
           /\ processing' = [processing EXCEPT ![w] = RemoveFirst(@, j)]
           /\ queue' = Append(queue, j)
           /\ UNCHANGED beat
      ELSE UNCHANGED redisVars

\* _RELEASE_SCRIPT: only a RUNNING job goes back to the queue, whoever runs it.
ReleaseScript(w, j) ==
    IF jobs[j].status = "running"
      THEN /\ jobs' = [jobs EXCEPT ![j].status = "queued"]
           /\ processing' = [processing EXCEPT ![w] = RemoveFirst(@, j)]
           /\ queue' = Append(queue, j)
           /\ UNCHANGED beat
      ELSE UNCHANGED redisVars

\* Mutant of RequestCancelScript: HSET without a look at the record.
RequestCancelUnchecked(j) ==
    /\ jobs' = [jobs EXCEPT ![j].request_cancel = TRUE]
    /\ UNCHANGED <<queue, processing, beat>>

\* _REQUEST_CANCEL_SCRIPT: flags a job that exists and is not terminal.
RequestCancelScript(j) ==
    /\ jobs' = IF Exists(j) /\ ~IsTerminal(j)
                 THEN [jobs EXCEPT ![j].request_cancel = TRUE]
                 ELSE jobs
    /\ UNCHANGED <<queue, processing, beat>>

\* _HEARTBEAT_SCRIPT
HeartbeatScript(w) ==
    /\ beat' = [beat EXCEPT ![w] = "fresh"]
    /\ UNCHANGED <<jobs, queue, processing>>

\* Mutant of DeregisterScript: the leases are not looked at.
DeregisterUnchecked(w) ==
    /\ beat' = [beat EXCEPT ![w] = "none"]
    /\ UNCHANGED <<jobs, queue, processing>>

\* _DEREGISTER_SCRIPT: refused while leases remain on the worker's list.
DeregisterScript(w) ==
    /\ beat' = IF processing[w] = <<>>
                 THEN [beat EXCEPT ![w] = "none"]
                 ELSE beat
    /\ UNCHANGED <<jobs, queue, processing>>

-----------------------------------------------------------------------------
\* What _REAPER_SCRIPT reads: the expired workers, and the places on their
\* lists that hold the id of an existing record.
Expired == {w \in Workers : beat[w] = "stale"}

\* (Mutant of ReapedSlots: only RUNNING jobs are reclaimed, so a lease whose
\* owner died before the claim script is dropped.)
RunningSlots ==
    UNION {{w} \X {i \in DOMAIN processing[w] :
                     jobs[processing[w][i]].status = "running"} :
             w \in Expired}

ReapedSlots ==
    UNION {{w} \X {i \in DOMAIN processing[w] : Exists(processing[w][i])} :
             w \in Expired}

\* An order in which the script can pop the slots: one worker after the other
\* (in the order of their scores, which the model leaves open), each list from
\* its head.
IsDrainOrder(order) ==
    \A a, b \in DOMAIN order :
        a < b /\ order[a][1] = order[b][1] =>
            /\ order[a][2] < order[b][2]
            /\ \A c \in a..b : order[c][1] = order[a][1]

\* _REAPER_SCRIPT: the leases of every expired worker move to the tail of the
\* queue, RUNNING ones as QUEUED; an id without a record is dropped.  The
\* expired workers leave the sorted set.
ReaperScript ==
    \E order \in SetToSeqs(ReapedSlots) :
        /\ IsDrainOrder(order)
        /\ LET moved == [k \in DOMAIN order |->
                            processing[order[k][1]][order[k][2]]]
           IN /\ queue' = queue \o moved
              /\ jobs' = [j \in Jobs |->
                    IF j \in Range(moved) /\ jobs[j].status = "running"
                      THEN [jobs[j] EXCEPT !.status = "queued"]
                      ELSE jobs[j]]
        /\ processing' = [w \in Workers |->
              IF w \in Expired THEN <<>> ELSE processing[w]]
        /\ beat' = [w \in Workers |->
              IF w \in Expired THEN "none" ELSE beat[w]]

-----------------------------------------------------------------------------
\* take_result's MULTI of HGETALL and DEL.
DeleteRecord(j) ==
    /\ jobs' = [jobs EXCEPT ![j] = NoRecord]
    /\ UNCHANGED <<queue, processing, beat>>

\* Redis drops a key whose time to live has run out.
ExpireRecord(j) ==
    /\ jobs[j].expires
    /\ DeleteRecord(j)

\* worker_ttl passes without a heartbeat of w.
ExpireBeat(w) ==
    /\ beat[w] = "fresh"
    /\ beat' = [beat EXCEPT ![w] = "stale"]
    /\ UNCHANGED <<jobs, queue, processing>>
=============================================================================
