------------------------------ MODULE TaskQueue ------------------------------
(***************************************************************************)
(* The whole of the distributed queue: producers that submit jobs, cancel  *)
(* them and take their results, the Redis keyspace, and the worker pools.  *)
(***************************************************************************)
EXTENDS Worker

vars == <<redisVars, clientVars, workerVars>>

Init ==
    /\ RedisInit
    /\ ClientInit
    /\ WorkerInit

Next ==
    \/ \E l \in Loops : ClaimStep(l) \/ RunStep(l) \/ ShutdownStep(l)
    \/ \E w \in Workers : PoolStep(w)
    \/ \E j \in Jobs :
        \/ Submit(j) /\ UNCHANGED workerVars
        \/ RequestCancel(j) /\ UNCHANGED workerVars
        \/ TakeChecks(j) /\ UNCHANGED workerVars
        \/ TakeFetches(j) /\ UNCHANGED workerVars
        \/ ResultExpires(j) /\ UNCHANGED workerVars

Spec == Init /\ [][Next]_vars

\* What a claim loop does by itself: its calls return, a cancellation is
\* delivered, a cancelled body unwinds.  How long a body runs that nobody
\* cancels is not up to the loop.
LoopProgress(l) ==
    \/ Lease(l) \/ LeaseTimesOut(l) \/ Claim(l) \/ Return(l) \/ Discard(l)
    \/ CancelSeen(l) \/ Save(l) \/ Unwinds(l)
    \/ InterruptClaim(l) \/ InterruptProcess(l) \/ BodyAborts(l) \/ Release(l)

\* A pool is entered and its shutdown runs to its end; its upkeep task beats
\* and reaps; the heartbeat of a pool that is gone grows old.
Fairness ==
    /\ \A l \in Loops : WF_vars(LoopProgress(l))
    /\ \A w \in Workers :
        /\ WF_vars(Start(w) \/ Stop(w))
        /\ WF_vars(Heartbeat(w) \/ Reap(w))
        /\ WF_vars(BeatExpires(w) /\ ~Alive(w))

\* Nothing is assumed of bodies: one may run for ever.
FairSpec == Spec /\ Fairness

-----------------------------------------------------------------------------
\* The values every variable ranges over.
TypeOK ==
    /\ jobs \in [Jobs -> Records]
    /\ queue \in Seq(Jobs)
    /\ processing \in [Workers -> Seq(Jobs)]
    /\ beat \in [Workers -> Beats]
    /\ phase \in [Workers -> Phases]
    /\ upkeep \in [Workers -> {"off", "beat", "reap"}]
    /\ pc \in [Loops -> PCs]
    /\ held \in [Loops -> Holds]
    /\ body \in [Loops -> BOOLEAN]
    /\ faults \in 0..MaxFaults
    /\ stalls \in 0..MaxStalls
    /\ spawns \in [Jobs -> Nat]
    /\ result \in [Jobs -> Results]

Leased(w) == Range(processing[w])

\* claim moves an id to exactly one worker's list: no id is twice on the queue,
\* twice on a list, on two lists, or on a list and on the queue.  (BLMOVE, the
\* LREM + RPUSH pairs, and the reaper.)
SingleLease ==
    /\ IsInjective(queue)
    /\ \A w \in Workers :
        /\ IsInjective(processing[w])
        /\ Leased(w) \cap Range(queue) = {}
        /\ \A v \in Workers \ {w} : Leased(w) \cap Leased(v) = {}

\* Nothing is stranded: a job that is not finished waits on the queue, or is
\* on the list of a pool that the liveness set still names, where a reaper
\* will find it should the pool die at this very moment.
Recoverable ==
    \A j \in Jobs : jobs[j].status \in {"queued", "running"} =>
        \/ j \in Range(queue)
        \/ \E w \in Workers : j \in Leased(w) /\ beat[w] # "none"

\* A job that its record calls QUEUED has its id on the queue or on some list,
\* even where a stalled pool goes on with leases it has lost: every path that
\* takes an id off a list (save, release, claim's two clean-ups, the reaper)
\* has settled the record or put the id elsewhere.  Promised of ids that are
\* submitted once.
QueuedIsListed ==
    \A j \in Jobs : jobs[j].status = "queued" =>
        j \in Range(queue) \/ \E w \in Workers : j \in Leased(w)

\* The reaper only redelivers a job whose worker is gone, and a pool releases
\* a job only after its body has ended: no two bodies of a job overlap.
ExclusiveRun ==
    \A k, l \in Loops :
        body[k] /\ body[l] /\ held[k].id = held[l].id => k = l

\* take_result returns the terminal record although it reads the status and
\* fetches the record in two round trips.
TakeReturnsTerminal ==
    \A j \in Jobs : result[j] \notin {"queued", "running"}

-----------------------------------------------------------------------------
\* A terminal job stays terminal until its record is deleted: no claim, release
\* or reaper brings it back to life.
TerminalIsFinal ==
    [][\A j \in Jobs : IsTerminal(j) => IsTerminal(j)' \/ ~Exists(j)']_vars

\* The cancel flag is durable: a release, a reap or a redelivery never clears
\* it before the job is finished.
CancelIsDurable ==
    [][\A j \in Jobs :
        jobs[j].request_cancel /\ jobs'[j].status \in {"queued", "running"}
            => jobs'[j].request_cancel]_vars

\* The attempts counter of a record never goes back, so every delivery of a
\* job sees a number of its own.
AttemptsGrow ==
    [][\A j \in Jobs :
        Exists(j)' => jobs'[j].attempts >= jobs[j].attempts]_vars

\* release is a no-op unless the caller's own lease is in force, so that a
\* shutdown racing a reaper is harmless: a release never puts back on the queue
\* a job whose body is alive in another loop.
DoubleReleaseHarmless ==
    [][\A l \in Loops :
        pc[l] = "releasing" /\ pc'[l] = "exited" /\ queue' # queue =>
            \A k \in Loops \ {l} : ~(body[k] /\ held[k].id = held[l].id)]_vars

-----------------------------------------------------------------------------
Live(j) == jobs[j].status \in {"queued", "running"}

BodiesEnd == \A l \in Loops : WF_vars(BodyEnds(l))

\* At-least-once delivery: where bodies end, a job that was enqueued is finished
\* in the end, whatever pools die or shut down on the way, as long as one pool
\* stays.
EventuallyFinished == BodiesEnd => \A j \in Jobs : Live(j) ~> ~Live(j)

\* Bodies end as long as nobody cancels their job.
OthersEnd ==
    \A l \in Loops : WF_vars(BodyEnds(l) /\ ~CancelRequested(held[l].id))

\* A cancelled job is finished in the end although its body would run for
\* ever, and although the pool that runs it dies between the request and the
\* watcher's next look at the flag.  (The bodies of other jobs must end: a
\* queued job is not looked at before a loop is free to claim it.)
CancelTakesEffect ==
    OthersEnd =>
        \A j \in Jobs : (Live(j) /\ jobs[j].request_cancel) ~> ~Live(j)

\* Every id on the list of a pool that serves is the one some loop of the pool
\* works on: no lease is kept, out of every reaper's reach, by a pool that is
\* alive and beating and has forgotten it.
LeasesAttended ==
    \A w \in Workers : phase[w] \in {"up", "draining"} =>
        \A j \in Leased(w) : \E l \in LoopsOf(w) : held[l].id = j
=============================================================================
