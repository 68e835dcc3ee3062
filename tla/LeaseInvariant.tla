--------------------------- MODULE LeaseInvariant ---------------------------
(***************************************************************************)
(* The inductive invariant behind SingleLease, Recoverable, ExclusiveRun   *)
(* and TakeReturnsTerminal.  It holds as long as no pool stalls past its   *)
(* time to live (Stallable = {}) and no id is submitted twice              *)
(* (Derived = {}); module LeaseProofs proves it.                           *)
(***************************************************************************)
EXTENDS TaskQueue

\* The loop works on a job: held[l] is one.
Holding(l) == pc[l] \notin {"idle", "polling", "exited"}

HeldIsJob == \A l \in Loops : Holding(l) => held[l].id \in Jobs

\* Two loops never work on the same job.
HeldApart ==
    \A k, l \in Loops :
        Holding(k) /\ Holding(l) /\ held[k].id = held[l].id => k = l

-----------------------------------------------------------------------------
(* What is true of a claim loop.                                           *)

Settled(j) == ~Live(j)

\* The loop's own lease is in force.
Attached(l) == held[l].id \in Leased(Owner(l))

\* Between BLMOVE and the claim script's reply the lease is in force.  (A record
\* cannot be missing there, so "discarding" is not reached.)
ClaimingLoop(l) ==
    /\ pc[l] # "discarding"
    /\ pc[l] \in {"leased", "returning"} => Attached(l)

\* Up to the first save the job is RUNNING under the loop's lease; afterwards
\* it still is, or it is settled for good.
RunningLoop(l) ==
    /\ pc[l] \in {"running", "unwatched", "saving"} =>
        Attached(l) /\ jobs[held[l].id].status = "running"
    /\ pc[l] \in {"resaving", "unwinding", "aborting", "releasing",
                  "detached"} =>
        \/ Attached(l) /\ jobs[held[l].id].status = "running"
        \/ Settled(held[l].id)
    /\ body[l] => pc[l] \in {"running", "unwatched", "saving", "resaving",
                             "unwinding", "aborting"}

\* What a save will write: a final status, and the attempts of the record.
CopyCurrent(l) ==
    /\ /\ pc[l] \in {"running", "unwatched", "saving", "resaving"}
       /\ Exists(held[l].id)
       => held[l].attempts = jobs[held[l].id].attempts
    /\ pc[l] \in {"saving", "resaving"} => held[l].status \in Terminal

\* A loop under way belongs to a pool that is alive; a release that outlives
\* its loop, to one that is not yet written off.  The job was submitted.
LoopPlaced(l) ==
    /\ pc[l] \notin {"idle", "detached", "exited"} => Alive(Owner(l))
    /\ pc[l] = "detached" => beat[Owner(l)] # "stale"
    /\ Holding(l) => spawns[held[l].id] # 0

LoopInv(l) ==
    /\ ClaimingLoop(l)
    /\ RunningLoop(l)
    /\ CopyCurrent(l)
    /\ LoopPlaced(l)

-----------------------------------------------------------------------------
(* What is true of a job and of a pool.                                    *)

Listed(j) == j \in Range(queue) \/ \E w \in Workers : j \in Leased(w)

\* A job is on the queue or on a list exactly while it is unfinished.  Only
\* finished records age, and only they are taken.  An id that was never
\* submitted has no record.
JobInv(j) ==
    /\ Live(j) <=> Listed(j)
    /\ jobs[j].expires => IsTerminal(j)
    /\ result[j] = "ready" => Settled(j)
    /\ result[j] \notin {"queued", "running"}
    /\ spawns[j] = 0 => ~Exists(j)

\* Who is alive beats, and who has leases is registered.
PoolInv(w) ==
    /\ Alive(w) => beat[w] = "fresh"
    /\ Leased(w) # {} => beat[w] # "none"
    /\ upkeep[w] # "off" => Alive(w)

\* The inductive invariant: what _worker_loop, _run and the scripts keep true
\* between any two of their steps, so that a lease is never lost or doubled.
LeaseInv ==
    /\ TypeOK
    /\ SingleLease
    /\ HeldIsJob
    /\ HeldApart
    /\ \A l \in Loops : LoopInv(l)
    /\ \A j \in Jobs : JobInv(j)
    /\ \A w \in Workers : PoolInv(w)
=============================================================================
