------------------------------- MODULE Worker -------------------------------
(***************************************************************************)
(* The worker pools of TaskQueue/worker.py.  A pool is one process with    *)
(* one backend instance: Concurrency claim loops (_worker_loop) and one    *)
(* upkeep loop (heartbeat, then reap).  Every await of a loop on the       *)
(* backend is a point where other pools interleave, where the call can     *)
(* fail before or after Redis applied it, and where a cancellation lands.  *)
(*                                                                         *)
(* A pool is entered once: a restarted process is another element of       *)
(* Workers, because its backend draws a fresh instance id.                 *)
(***************************************************************************)
EXTENDS Client

CONSTANTS
    Concurrency,    \* claim loops per pool
    NoJob,          \* a claim loop holds no record
    Poison,         \* jobs whose record Job.from_record cannot decode
    Unregistered,   \* jobs whose task name no pool has registered
    SelfCancelling, \* jobs whose body lets a CancelledError escape
    Mortal,         \* pools that may be drained, closed or killed
    Stallable,      \* pools whose event loop may stall for worker_ttl
    MaxFaults,      \* bound on the failed calls of one behaviour
    MaxStalls       \* bound on the stalls of one behaviour

ASSUME ConstantsAssumption ==
    /\ IsFiniteSet(Workers)
    /\ Concurrency \in Nat \ {0}
    /\ NoJob \notin Jobs
    /\ Poison \subseteq Jobs
    /\ Unregistered \subseteq Jobs
    /\ SelfCancelling \subseteq Jobs
    /\ Mortal \subseteq Workers
    /\ Stallable \subseteq Workers
    /\ MaxFaults \in Nat
    /\ MaxStalls \in Nat

VARIABLES
    phase,  \* where each pool is in its life
    upkeep, \* what the pool's upkeep loop does next
    pc,     \* the await each claim loop is at
    held,   \* the Job object the claim loop works on
    body,   \* whether the asyncio task of the job's body is still alive
    faults, \* failed calls so far
    stalls  \* stalls so far

budget == <<faults, stalls>>
workerVars == <<phase, upkeep, pc, held, body, budget>>

\* A claim loop is named by its pool and its number in the pool.
Loops == Workers \X (1..Concurrency)
Owner(l) == l[1]
LoopsOf(w) == {w} \X (1..Concurrency)

Phases == {"new", "up", "draining", "closing", "stopped", "crashed"}

PCs == {"idle",       \* the pool has not been entered
        "polling",    \* in BLMOVE
        "leased",     \* the id is on the list, _claim_script awaited
        "returning",  \* in claim's error handler
        "discarding", \* in claim's LREM of a recordless id
        "running",    \* body and cancel watcher raced by _run
        "unwatched",  \* the watcher failed, the body is awaited alone
        "saving",     \* the save inside _run's try
        "resaving",   \* a save whose failure leaves _run
        "unwinding",  \* saved, the finally of _run awaits the body
        "aborting",   \* cancelled, the finally of _run awaits the body
        "releasing",  \* in the shielded release
        "detached",   \* the loop is gone, its shielded release is not
        "exited"}

\* The fields of the Job object that a save writes back.
NoHold == [id |-> NoJob, status |-> "absent",
           attempts |-> 0, request_cancel |-> FALSE]

Holds == [id : Jobs \cup {NoJob}, status : Statuses \cup {"absent"},
          attempts : Nat, request_cancel : BOOLEAN]

WorkerInit ==
    /\ phase = [w \in Workers |-> "new"]
    /\ upkeep = [w \in Workers |-> "off"]
    /\ pc = [l \in Loops |-> "idle"]
    /\ held = [l \in Loops |-> NoHold]
    /\ body = [l \in Loops |-> FALSE]
    /\ faults = 0
    /\ stalls = 0

-----------------------------------------------------------------------------
Alive(w) == phase[w] \in {"up", "draining", "closing"}

\* The pool has not cancelled its loops.
Serving(l) == phase[Owner(l)] \in {"up", "draining"}

\* A call of the backend raises.
Fault ==
    /\ faults < MaxFaults
    /\ faults' = faults + 1
    /\ UNCHANGED stalls

\* The loop is done with its record: it goes back to 'while self._running'.
NextRound(l) ==
    /\ pc' = [pc EXCEPT ![l] =
                IF phase[Owner(l)] = "up" THEN "polling" ELSE "exited"]
    /\ held' = [held EXCEPT ![l] = NoHold]

Exit(l) ==
    /\ pc' = [pc EXCEPT ![l] = "exited"]
    /\ held' = [held EXCEPT ![l] = NoHold]

Goto(l, label) ==
    /\ pc' = [pc EXCEPT ![l] = label]
    /\ UNCHANGED held

-----------------------------------------------------------------------------
(* Backend.claim, called by _worker_loop.                                  *)

\* BLMOVE hands over an id.  A call already waiting when the pool began to
\* drain may still do so.
Lease(l) ==
    /\ pc[l] = "polling"
    /\ Serving(l)
    /\ Blmove(Owner(l))
    /\ pc' = [pc EXCEPT ![l] = "leased"]
    /\ held' = [held EXCEPT ![l].id = Head(queue)]
    /\ UNCHANGED <<clientVars, phase, upkeep, body, budget>>

\* BLMOVE moved the id but its reply was lost: the error precedes the try of
\* claim, so the loop backs off and forgets a lease it never saw.
LeaseReplyLost(l) ==
    /\ pc[l] = "polling"
    /\ Serving(l)
    /\ Fault
    /\ Blmove(Owner(l))
    /\ NextRound(l)
    /\ UNCHANGED <<clientVars, phase, upkeep, body>>

\* BLMOVE timed out or failed while the pool drains: the loop ends.
LeaseTimesOut(l) ==
    /\ pc[l] = "polling"
    /\ phase[Owner(l)] = "draining"
    /\ Exit(l)
    /\ UNCHANGED <<redisVars, clientVars, phase, upkeep, body, budget>>

\* The claim script replies, and _process runs up to its first await: an
\* undecodable record is dropped with its lease kept, a record flagged for
\* cancellation or without a registered task is saved without being run.
Claim(l) ==
    LET j == held[l].id
        r == jobs[j]
        outcome == IF r.request_cancel THEN "cancelled"
                   ELSE IF j \in Unregistered THEN "failed"
                   ELSE "running"
    IN /\ pc[l] = "leased"
       /\ Serving(l)
       /\ ClaimScript(j)
       /\ \/ /\ ~Exists(j)
             /\ Goto(l, "discarding")
             /\ UNCHANGED body
          \/ /\ Exists(j) /\ j \in Poison
             /\ NextRound(l)
             /\ UNCHANGED body
          \/ /\ Exists(j) /\ j \notin Poison
             /\ held' = [held EXCEPT ![l] =
                           [id |-> j, status |-> outcome,
                            attempts |-> r.attempts + 1,
                            request_cancel |-> r.request_cancel]]
             /\ pc' = [pc EXCEPT ![l] =
                         IF outcome = "running" THEN "running"
                                                ELSE "resaving"]
             /\ body' = [body EXCEPT ![l] = outcome = "running"]
       /\ UNCHANGED <<clientVars, phase, upkeep, budget>>

\* The claim script raises, applied or not.
ClaimFails(l) ==
    /\ pc[l] = "leased"
    /\ Serving(l)
    /\ Fault
    /\ ClaimScript(held[l].id) \/ UNCHANGED redisVars
    /\ Goto(l, "returning")
    /\ UNCHANGED <<clientVars, phase, upkeep, body>>

\* claim's error handler hands the id back and the loop backs off; a failure
\* of the handler's own transaction is suppressed.
Return(l) ==
    /\ pc[l] = "returning"
    /\ Serving(l)
    /\ \/ ReturnLease(Owner(l), held[l].id) /\ UNCHANGED budget
       \/ Fault /\ UNCHANGED redisVars
    /\ NextRound(l)
    /\ UNCHANGED <<clientVars, phase, upkeep, body>>

\* claim drops an id whose record is gone, or fails to.
Discard(l) ==
    /\ pc[l] = "discarding"
    /\ Serving(l)
    /\ \/ DiscardLease(Owner(l), held[l].id) /\ UNCHANGED budget
       \/ Fault /\ UNCHANGED redisVars
    /\ NextRound(l)
    /\ UNCHANGED <<clientVars, phase, upkeep, body>>

-----------------------------------------------------------------------------
(* Worker._run: the body races the cancel watcher.                         *)

\* A body awaited alone may absorb the pool's cancellation and finish.
BodyMayEnd(l) ==
    \/ pc[l] = "running" /\ Serving(l)
    \/ pc[l] = "unwatched" /\ Alive(Owner(l))

\* The body ends with a result, or with an exception that the except clause
\* turns into FAILED.
BodyEnds(l) ==
    /\ BodyMayEnd(l)
    /\ \/ /\ held' = [held EXCEPT ![l].status = "completed"]
          /\ pc' = [pc EXCEPT ![l] = "saving"]
       \/ /\ held' = [held EXCEPT ![l].status = "failed"]
          /\ pc' = [pc EXCEPT ![l] = "resaving"]
    /\ body' = [body EXCEPT ![l] = FALSE]
    /\ UNCHANGED <<redisVars, clientVars, phase, upkeep, budget>>

\* The body ends with a CancelledError of its own: _run re-raises it and the
\* loop treats it as its own cancellation.
BodyEscapes(l) ==
    /\ BodyMayEnd(l)
    /\ held[l].id \in SelfCancelling
    /\ Goto(l, "releasing")
    /\ body' = [body EXCEPT ![l] = FALSE]
    /\ UNCHANGED <<redisVars, clientVars, phase, upkeep, budget>>

\* Mutant of CancelSeen: the flag of the claimed copy is looked at.
CancelSeenInCopy(l) ==
    /\ pc[l] = "running"
    /\ Serving(l)
    /\ held[l].request_cancel
    /\ held' = [held EXCEPT ![l].status = "cancelled"]
    /\ pc' = [pc EXCEPT ![l] = "saving"]
    /\ \E stuck \in BOOLEAN : body' = [body EXCEPT ![l] = stuck]
    /\ UNCHANGED <<redisVars, clientVars, phase, upkeep, budget>>

\* The watcher sees the durable flag: the body is cancelled and given a
\* bounded time to unwind, after which the job is saved with it alive.
CancelSeen(l) ==
    /\ pc[l] = "running"
    /\ Serving(l)
    /\ CancelRequested(held[l].id)
    /\ held' = [held EXCEPT ![l].status = "cancelled"]
    /\ pc' = [pc EXCEPT ![l] = "saving"]
    /\ \E stuck \in BOOLEAN : body' = [body EXCEPT ![l] = stuck]
    /\ UNCHANGED <<redisVars, clientVars, phase, upkeep, budget>>

\* The watcher fails, because the record is gone or its call raises: the body
\* runs on unwatched.  (wait_cancel raises KeyError at its first look only; the
\* model allows that look to come late.)
WatcherFails(l) ==
    /\ pc[l] = "running"
    /\ Serving(l)
    /\ \/ ~Exists(held[l].id) /\ UNCHANGED budget
       \/ Fault
    /\ Goto(l, "unwatched")
    /\ UNCHANGED <<redisVars, clientVars, phase, upkeep, body>>

-----------------------------------------------------------------------------
(* Worker._save, from inside _run's try or from outside it.                *)

CallSave(l) ==
    SaveScript(Owner(l), held[l].id, held[l].status,
               held[l].attempts, held[l].request_cancel)

\* _run's finally awaits a body that is still unwinding.
LeaveRun(l) ==
    IF body[l] THEN Goto(l, "unwinding") ELSE NextRound(l)

\* A save that raises inside the try is followed by a save of FAILED; one that
\* raises outside it leaves _run, and the loop keeps serving.
SaveRaises(l) ==
    \/ /\ pc[l] = "saving"
       /\ pc' = [pc EXCEPT ![l] = "resaving"]
       /\ held' = [held EXCEPT ![l].status = "failed"]
    \/ /\ pc[l] = "resaving"
       /\ LeaveRun(l)

\* save returns, or raises KeyError because the record is gone.
Save(l) ==
    /\ pc[l] \in {"saving", "resaving"}
    /\ Alive(Owner(l))
    /\ CallSave(l)
    /\ IF Exists(held[l].id) THEN LeaveRun(l) ELSE SaveRaises(l)
    /\ UNCHANGED <<clientVars, phase, upkeep, body, budget>>

\* save raises, applied or not.
SaveFails(l) ==
    /\ pc[l] \in {"saving", "resaving"}
    /\ Alive(Owner(l))
    /\ Fault
    /\ CallSave(l) \/ UNCHANGED redisVars
    /\ SaveRaises(l)
    /\ UNCHANGED <<clientVars, phase, upkeep, body>>

\* The body of a saved job ends at last.
Unwinds(l) ==
    /\ pc[l] = "unwinding"
    /\ Serving(l)
    /\ NextRound(l)
    /\ body' = [body EXCEPT ![l] = FALSE]
    /\ UNCHANGED <<redisVars, clientVars, phase, upkeep, budget>>

-----------------------------------------------------------------------------
(* Cancellation of a loop, by __aexit__ or by a drain past its deadline.   *)

\* The CancelledError lands at the loop's await; the call it awaited was
\* applied or not.  While claiming, nothing is released.
InterruptClaim(l) ==
    /\ phase[Owner(l)] = "closing"
    /\ \/ /\ pc[l] = "polling"
          /\ Blmove(Owner(l)) \/ UNCHANGED redisVars
       \/ /\ pc[l] = "leased"
          /\ ClaimScript(held[l].id) \/ UNCHANGED redisVars
       \/ /\ pc[l] = "returning"
          /\ ReturnLease(Owner(l), held[l].id) \/ UNCHANGED redisVars
       \/ /\ pc[l] = "discarding"
          /\ DiscardLease(Owner(l), held[l].id) \/ UNCHANGED redisVars
    /\ Exit(l)
    /\ UNCHANGED <<clientVars, phase, upkeep, body, budget>>

\* Mutant of InterruptProcess: the job is released, then the body is awaited.
InterruptAtOnce(l) ==
    /\ phase[Owner(l)] = "closing"
    /\ pc[l] \in {"running", "unwatched", "unwinding", "saving", "resaving"}
    /\ ReleaseScript(Owner(l), held[l].id)
    /\ Goto(l, IF body[l] THEN "aborting" ELSE "releasing")
    /\ UNCHANGED <<clientVars, phase, upkeep, body, budget>>

\* While processing, the loop goes on to release the job once its body ended.
InterruptProcess(l) ==
    /\ phase[Owner(l)] = "closing"
    /\ \/ /\ pc[l] \in {"running", "unwatched", "unwinding"}
          /\ UNCHANGED redisVars
       \/ /\ pc[l] \in {"saving", "resaving"}
          /\ CallSave(l) \/ UNCHANGED redisVars
    /\ Goto(l, IF body[l] THEN "aborting" ELSE "releasing")
    /\ UNCHANGED <<clientVars, phase, upkeep, body, budget>>

\* The cancelled body has unwound.
BodyAborts(l) ==
    /\ pc[l] = "aborting"
    /\ Alive(Owner(l))
    /\ body' = [body EXCEPT ![l] = FALSE]
    /\ Goto(l, "releasing")
    /\ UNCHANGED <<redisVars, clientVars, phase, upkeep, budget>>

\* release, whatever its answer, ends the loop.
Release(l) ==
    /\ pc[l] \in {"releasing", "detached"}
    /\ ReleaseScript(Owner(l), held[l].id)
    /\ Exit(l)
    /\ UNCHANGED <<clientVars, phase, upkeep, body, budget>>

\* release raises without having been applied: the reaper is left to it.
ReleaseFails(l) ==
    /\ pc[l] = "releasing"
    /\ Fault
    /\ Exit(l)
    /\ UNCHANGED <<redisVars, clientVars, phase, upkeep, body>>

\* A second cancellation ends the loop while its shielded release goes on,
\* until it is applied or dies with the process.
InterruptRelease(l) ==
    /\ pc[l] = "releasing"
    /\ phase[Owner(l)] = "closing"
    /\ Goto(l, "detached")
    /\ UNCHANGED <<redisVars, clientVars, phase, upkeep, body, budget>>

DetachedReleaseDies(l) ==
    /\ pc[l] = "detached"
    /\ phase[Owner(l)] = "stopped"
    /\ Exit(l)
    /\ UNCHANGED <<redisVars, clientVars, phase, upkeep, body, budget>>

-----------------------------------------------------------------------------
(* The pool's own life.                                                    *)

\* Mutant of Start: the first heartbeat is left to the upkeep task.
StartUnregistered(w) ==
    /\ phase[w] = "new"
    /\ phase' = [phase EXCEPT ![w] = "up"]
    /\ upkeep' = [upkeep EXCEPT ![w] = "beat"]
    /\ pc' = [l \in Loops |-> IF Owner(l) = w THEN "polling" ELSE pc[l]]
    /\ UNCHANGED <<redisVars, clientVars, held, body, budget>>

\* __aenter__: the first heartbeat is awaited, then the loops are created.
Start(w) ==
    /\ phase[w] = "new"
    /\ HeartbeatScript(w)
    /\ phase' = [phase EXCEPT ![w] = "up"]
    /\ upkeep' = [upkeep EXCEPT ![w] = "beat"]
    /\ pc' = [l \in Loops |-> IF Owner(l) = w THEN "polling" ELSE pc[l]]
    /\ UNCHANGED <<clientVars, held, body, budget>>

\* The first heartbeat raises, applied or not: no loop is ever created.
StartFails(w) ==
    /\ phase[w] = "new"
    /\ Fault
    /\ HeartbeatScript(w) \/ UNCHANGED redisVars
    /\ phase' = [phase EXCEPT ![w] = "stopped"]
    /\ UNCHANGED <<clientVars, upkeep, pc, held, body>>

\* One round of _upkeep_loop: heartbeat, then reap.
Heartbeat(w) ==
    /\ upkeep[w] = "beat"
    /\ HeartbeatScript(w)
    /\ upkeep' = [upkeep EXCEPT ![w] = "reap"]
    /\ UNCHANGED <<clientVars, phase, pc, held, body, budget>>

Reap(w) ==
    /\ upkeep[w] = "reap"
    /\ ReaperScript
    /\ upkeep' = [upkeep EXCEPT ![w] = "beat"]
    /\ UNCHANGED <<clientVars, phase, pc, held, body, budget>>

\* A call raises, applied or not, and ends the round: a failed heartbeat skips
\* the reap.
UpkeepFails(w) ==
    /\ Fault
    /\ \/ upkeep[w] = "beat" /\ (HeartbeatScript(w) \/ UNCHANGED redisVars)
       \/ upkeep[w] = "reap" /\ (ReaperScript \/ UNCHANGED redisVars)
    /\ upkeep' = [upkeep EXCEPT ![w] = "beat"]
    /\ UNCHANGED <<clientVars, phase, pc, held, body>>

\* drain: self._running becomes False.
Drain(w) ==
    /\ w \in Mortal
    /\ phase[w] = "up"
    /\ phase' = [phase EXCEPT ![w] = "draining"]
    /\ UNCHANGED <<redisVars, clientVars, upkeep, pc, held, body, budget>>

\* __aexit__ cancels the loops, and so does drain past its deadline.
Close(w) ==
    /\ w \in Mortal
    /\ phase[w] \in {"up", "draining"}
    /\ phase' = [phase EXCEPT ![w] = "closing"]
    /\ UNCHANGED <<redisVars, clientVars, upkeep, pc, held, body, budget>>

\* The rest of __aexit__, once every loop is done: upkeep stops and the pool
\* leaves the liveness set, unless that call fails or a cancellation comes
\* before it.  (A cancellation that lands in the gather on the loops skips both:
\* the pool stays as it is here, closing and with its upkeep beating, until its
\* process ends.)
Stop(w) ==
    /\ phase[w] = "closing"
    /\ \A l \in LoopsOf(w) : pc[l] \in {"detached", "exited"}
    /\ DeregisterScript(w) \/ UNCHANGED redisVars
    /\ phase' = [phase EXCEPT ![w] = "stopped"]
    /\ upkeep' = [upkeep EXCEPT ![w] = "off"]
    /\ UNCHANGED <<clientVars, pc, held, body, budget>>

\* The process is killed.
Crash(w) ==
    /\ w \in Mortal
    /\ Alive(w)
    /\ phase' = [phase EXCEPT ![w] = "crashed"]
    /\ upkeep' = [upkeep EXCEPT ![w] = "off"]
    /\ pc' = [l \in Loops |-> IF Owner(l) = w THEN "exited" ELSE pc[l]]
    /\ held' = [l \in Loops |-> IF Owner(l) = w THEN NoHold ELSE held[l]]
    /\ body' = [l \in Loops |-> IF Owner(l) = w THEN FALSE ELSE body[l]]
    /\ UNCHANGED <<redisVars, clientVars, budget>>

\* worker_ttl passes without a heartbeat: for a pool that is gone, with no
\* call of its own still under way, or for one whose event loop stalls.
BeatExpires(w) ==
    /\ \/ /\ phase[w] \in {"stopped", "crashed"}
          /\ \A l \in LoopsOf(w) : pc[l] # "detached"
          /\ UNCHANGED budget
       \/ /\ w \in Stallable
          /\ Alive(w)
          /\ stalls < MaxStalls
          /\ stalls' = stalls + 1
          /\ UNCHANGED faults
    /\ ExpireBeat(w)
    /\ UNCHANGED <<clientVars, phase, upkeep, pc, held, body>>

-----------------------------------------------------------------------------
ClaimStep(l) ==
    \/ Lease(l)
    \/ LeaseReplyLost(l)
    \/ LeaseTimesOut(l)
    \/ Claim(l)
    \/ ClaimFails(l)
    \/ Return(l)
    \/ Discard(l)

RunStep(l) ==
    \/ BodyEnds(l)
    \/ BodyEscapes(l)
    \/ CancelSeen(l)
    \/ WatcherFails(l)
    \/ Save(l)
    \/ SaveFails(l)
    \/ Unwinds(l)

ShutdownStep(l) ==
    \/ InterruptClaim(l)
    \/ InterruptProcess(l)
    \/ BodyAborts(l)
    \/ Release(l)
    \/ ReleaseFails(l)
    \/ InterruptRelease(l)
    \/ DetachedReleaseDies(l)

PoolStep(w) ==
    \/ Start(w)
    \/ StartFails(w)
    \/ Heartbeat(w)
    \/ Reap(w)
    \/ UpkeepFails(w)
    \/ Drain(w)
    \/ Close(w)
    \/ Stop(w)
    \/ Crash(w)
    \/ BeatExpires(w)
=============================================================================
