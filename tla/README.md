# TaskQueue in TLA+

TaskQueue is an at-least-once job queue on Redis. Producers enqueue jobs and
wait for their results; worker processes lease jobs, run them and write the
outcome back; when a process dies, its peers notice the missing heartbeat and
requeue what it had leased. Jobs can open scopes that spawn child jobs and tear
them down together. This directory holds TLA+ modules that model the lease
protocol, the liveness clock, the pub/sub wake-ups, the scopes and the in-memory
backend from the source, TLC configurations that check them on small instances,
and proofs, checked by TLAPS, that hold for every number of jobs, processes and
failures.

Paths below are relative to the package `src/TaskQueue/` of the repository.

## 1. Inventory

| component | state | operations | how it interacts |
|---|---|---|---|
| `RedisBackend` (`backends/redis_backend.py`) | hash `jobs:<id>`, list `queue`, lists `processing:<worker>`, sorted set `workers` | `enqueue`, `claim`, `save`, `release`, `take_result`, `request_cancel(_many)`, `wait_cancel`, `heartbeat`, `deregister`, `reap` | shared by all processes; each Lua script is atomic, `claim` and `take_result` are two round trips |
| `Worker` (`worker.py`) | `_running`, the loop tasks, the upkeep task; per loop the claimed `Job` and the body's task | `__aenter__`, `_worker_loop`, `_run`, `drain`, `__aexit__`, `_upkeep_loop` | calls the backend; is cancelled by `drain` and `__aexit__` |
| producer (`task.py`, `handle.py`) | the handle's cached job | `submit`, `cancel`, `result` | calls the backend |
| `_Notifier` (`backends/redis_backend.py`) | waiters per channel, one pub/sub connection, its reader task | `join`, `leave`, `_read` | wakes `take_result` and `wait_cancel`, which re-read the record |
| `JobGroup` (`job_group.py`) | handles, waiters, `_failures`, `_cancelling`, `_fanout` | `spawn`, the three join modes, `cancel_all_jobs`, `__aexit__` | spawns and cancels jobs through the backend |
| child ids (`context.py`, `job_group.py`) | a spawn counter per body | `next_spawn`, `_child_id` | a re-run parent submits the same ids |
| liveness clock (`worker.py`, `redis_backend.py`) | whole-second scores | `check_liveness`, heartbeat, reaper cut-off | decides who is presumed dead |
| backend protocol (`backends/interface.py`) | - | what every backend promises | implemented by the two backends, relied on by scopes and handles |
| `MemoryBackend` (`backends/memory_backend.py`) | dictionaries, an `asyncio.Queue`, events | the same protocol, one process | no liveness protocol |
| queue, registry, CLI, serializers, logging | configuration | - | - |

What is hard here, and what makes each part correct:

* Every `await` of a claim loop is a point where other processes run, where
  the call may fail before or after Redis applied it, where the task may be
  cancelled and where the process may die. At each of them an unfinished job
  must be on the queue or on a list that a reaper will look at, and in one
  place only.
* A job must not be run by two loops at once while nobody has been wrongly
  presumed dead, and a finished job must not come back to life.
* The cancel flag must survive redelivery and be obeyed in the end.
* A stalled process *is* wrongly presumed dead, and then goes on with leases it
  has lost. What still holds in that case is worth knowing exactly.
* A scope must cancel every child it started; a waiter must not depend on a
  message; a healthy process must not look dead.

`PROJECT.json` lists these as hazards, each at the line where it bites.

## 2. Modules

| module | what it is |
|---|---|
| `RedisBackend` | the four Redis keys and one operator per script or command sequence |
| `Client` | submitting, cancelling, and the two steps of `take_result` |
| `Worker` | the pools: claim loops, body and cancel watcher, saves, cancellation and release, start, upkeep, drain, shutdown, crash, stall |
| `TaskQueue` | the composition of the three (`Init`, `Next`, `Spec`), fairness, and the properties |
| `LeaseInvariant` | the inductive invariant `LeaseInv` |
| `JobLife` | abstract: the life of a record as the protocol class describes it, without queues, leases or processes |
| `LifeRefinement` | the map under which `TaskQueue` implements `JobLife` |
| `MemoryBackend` | the in-memory backend with its loops and handles, and the map under which it implements `JobLife` |
| `JobGroup` | one scope, composed with the records of `JobLife` |
| `Notifier` | the shared pub/sub connection, the waiters, the reader, the server |
| `Heartbeat` | an integer clock, the whole-second scores, the cut-off |
| `MCLease`, `MCNotifier`, `MCMemory` | instances for TLC |
| `ListLemmas` | lemmas on `RemoveFirst`, `Append`, `Tail` and `Range`, of lists with and without duplicates |
| `TypeProofs` | `TypeCorrect` |
| `LeaseProofs` | `LeaseInv` and the safety invariants it implies |
| `HistoryProofs` | what can happen to one job: the action properties, `QueuedIsListed`, `LeasesAttended`, `TaskQueue` implements `JobLife` |
| `HeartbeatProofs` | the two properties of the clock |
| `NotifierProofs` | the three invariants of the notifier |
| `ScopeProofs` | the four invariants of a scope |
| `MemoryProofs` | `EventsMatchRecords`, and `MemoryBackend` implements `JobLife` |

`JobLife` is where the modules meet: what a scope or a handle may rely on is
stated there once, both backends are shown to provide it, and `JobGroup` is
built on it instead of on one of them.

Definitions named `...KeepsLease`, `...Unchecked`, `ClaimRewrites`,
`RunningSlots`, `InterruptAtOnce`, `TellNobody`, `LeaveUnlocked`, `CheckOneBeat`
and the like, each marked "Mutant", are plausible bugs. They are in no
specification; substituting one for the definition it names makes TLC report the
property that guards against it.

### State and actions against the code

*Redis.* `jobs[j]` keeps the status (`"absent"` when the hash does not exist),
`attempts`, `request_cancel`, and whether the key has a time to live. Payload,
result, error and names are left out. `queue` and `processing[w]` are the
lists; `beat[w]` is the entry of `w` in the sorted set, `"fresh"` or `"stale"`
by the reaper's cut-off, or `"none"`. Nothing is modelled of the reply that its
caller does not use. `_REAPER_SCRIPT` drains workers in the order of their
scores, which the model leaves open (`IsDrainOrder`).

*Claim loops.* `pc[l]` is the await a loop is at, `held[l]` its `Job` object
(the copy that `save` writes back), `body[l]` whether the asyncio task of the
job's body is still alive, which it may be after the loop stopped waiting for
it.

| `pc` | place in the code |
|---|---|
| `polling`, `leased`, `returning`, `discarding` | the awaits of `RedisBackend.claim` |
| `running`, `unwatched` | `_run`: body against watcher; body alone after the watcher failed |
| `saving` | the save inside `_run`'s `try`, whose failure is caught and saved as FAILED |
| `resaving` | a save outside it, whose failure leaves `_run` |
| `unwinding`, `aborting` | the `gather` in `_run`'s `finally`, after a save or after a cancellation |
| `releasing`, `detached` | the shielded release, awaited or left behind by a second cancellation |

An action is everything between two awaits, with the effect of the call that
returns at its start. `Claim` therefore holds the claim script, the decoding,
and the early exits of `_run` up to its first await. A failed call is an action
of its own (`ClaimFails`, `SaveFails`, `ReleaseFails`, `LeaseReplyLost`,
`UpkeepFails`, `StartFails`, and disjuncts of `Return`, `Discard`,
`WatcherFails`) and is applied or not, except where the two cannot be told
apart from another action: a release applied with its reply lost is `Release`,
because the loop ends either way.

*Pools.* `phase[w]` is `new`, `up`, `draining` (`_running` is False, the loops
finish what they hold), `closing` (the loops were cancelled, by `__aexit__` or
by a drain past its deadline), `stopped` or `crashed`. `upkeep[w]` says whether
the upkeep task will beat or reap next. A pool is entered once, as
`_entered` demands, and a restarted process is another member of `Workers`
because a backend draws a fresh instance id. `Stop` may leave the pool in the
liveness set: `deregister` failed, or a cancellation of `__aexit__` came first.
A cancellation that lands in the `gather` of `__aexit__` (`worker.py:92`) skips
`_stop_upkeep` as well, and the pool is then one that stays `closing`, its upkeep
beating, until its process ends. The safety properties include that, since
nothing makes a behaviour take `Stop`; the fairness below assumes it away.

*Time.* `TaskQueue` has no clock. `BeatExpires` lets the beat of a pool that is
gone become stale, and that of a live pool in `Stallable` at most `MaxStalls`
times: an event loop blocked for `worker_ttl`. That a live pool which is not
stalled keeps a fresh beat is what `Heartbeat` is about. The beat of a pool that
has stopped does not become stale while a detached release of it
(`worker.py:121`) is under way: the model assumes that such a call ends within
`worker_ttl`.  There `now` counts
ticks, `TicksPerSecond` to a second; `score` is the stored whole second, `due`
when the upkeep loop wakes up; a round of upkeep is late by at most `Latency`,
and of two heartbeats in a row one may fail. `Reapable` is the range of the
reaper's `ZRANGE`.

*Waiting.* In `TaskQueue`, `take_result` and `wait_cancel` are modelled by what
they read, not by the message that wakes them. (`wait_cancel` raises `KeyError`
only at its first read; `WatcherFails` lets that read come late, which only adds
behaviours.) The wake-up itself is `Notifier`: `watchers`, `connected`, `reader`
and `lock` are the fields of `_Notifier`, `woken[w]` the event of a waiter,
`wpc[w]` its await. `lock` is only held across an await by the first waiter of a
channel that subscribes and by the last that unsubscribes; whatever needs no
await inside a critical section is one action. `subs[ch]` is `"sent"` between
the return of `subscribe`, which only writes the command, and its arrival at the
server. `fact[ch]` stands for what the waiters of the channel look for in the
record, and does not go back, as a terminal record and a cancel flag do not.

*Scopes.* `at` is where a `JobGroup` is: `body`; `joining`, the `asyncio.wait` of
`cancel_siblings_mode`; `gathering`, the `gather` of any mode; `cancelling` and
`draining`, the two awaits of `cancel_all_jobs`; `settling`, the gather of
`_settle`; `closed`. `waiter[c]` is the task that awaits the handle of child
`c`; `JobFinished` is its done callback, run with the task's end, and `fanout`
the set the callback's own task has still to cancel. A `take_result` that raises
an error of the backend, or whose record is lost or cannot be decoded after it
was deleted, is `WaiterFails`: the waiter is done with an `"error"` although its
child may be at any stage. Children's ids are their
ordinals, and `Rerun` starts the owner's body again with the ordinals and the
records that are there. A `request_cancel_many` is one step, and where it fails
a part of it may have been applied. In `JoinWakes` the request that backs the
callback up (`job_group.py:209`) is kept, but is never sent: a task whose
exception wakes the join has run its callback, which has set `_cancelling`.

*In memory.* A method of `MemoryBackend` runs without a switch to another task
except where it waits, so each is one action up to its await. `events` and
`cancels` are the two event tables, and a `take_result` whose event was set is
`"woken"` until it runs. A loop that is cancelled releases its job at once and
becomes the loop of the next pool.

*The life of a record.* `JobLife` keeps a status and a cancel flag for each job
and what `take_result` gave each handle. `Overturn` is there because a save
whose reply is lost is followed by one of FAILED (`worker.py:218`). Under the
map of `LifeRefinement` the flag of a finished record does not count, as it is
the left-over of the worker's copy, and a `take_result` under way has given
nothing yet.

## 3. Properties

Each is defined, with its reason, in the module it is about.

*The queue.* Invariants: `SingleLease` (an id is in one place), `Recoverable`
(an unfinished job is on the queue or on the list of a registered pool),
`ExclusiveRun` (no two bodies of a job), `TakeReturnsTerminal`, `LeasesAttended`
(a serving pool works on everything it has leased), `QueuedIsListed` (proved
only, stalls included: every path that takes an id off a list has settled the
record or put the id elsewhere), and `LeaseInv`, the inductive invariant. Action
properties: `TerminalIsFinal`, `CancelIsDurable`, `AttemptsGrow`. Refinement:
`ImplementsJobLife`. Liveness: `EventuallyFinished` (where bodies end) and
`CancelTakesEffect` (where only the bodies of other jobs do).

*Scopes.* `ChildrenAnswered` (a scope that ends its join has every outcome, or
raises the error of the call that should have brought it; one that is torn down
has asked every unfinished child to stop), `FailuresReported` (no failure is
lost, and a clean exit means that all children completed), `SiblingsTold` (the
fan-out reaches everyone who was spawned before the failure), `TeardownEnds`.
`SiblingsCancelled` and `NoOrphans` are what documents say; they do not hold.

*Waiting.* `WatchedIsSubscribed` and `ReaderIffWatched` (the bookkeeping of the
shared connection survives failed calls and every order of joins and leaves),
`NoLostWakeup` (without faults the poll is needed in one case only),
`WaiterReturns` (with faults the poll is enough).

*The clock.* `HealthyNotReaped`, `DetectionWindow`.

*In memory.* `EventsMatchRecords`, `TakersReturn`, `MemoryImplementsJobLife`.

## 4. Runs

| run | instance | checks |
|---|---|---|
| `lease_faults` | 2 jobs, 2 pools of 1 loop, one may die, 1 failed call | type, all safety invariants, all action properties, `LeaseInv`, `ImplementsJobLife` |
| `bad_records` | 2 jobs, 2 pools of 2 loops, one may die; one job cannot be decoded, the other lets a `CancelledError` escape | `LeaseInv`, `Recoverable`, `TerminalIsFinal` |
| `live` | 2 jobs (one without a registered task), 2 pools, one may die | `EventuallyFinished`, `CancelTakesEffect`, `LeasesAttended` |
| `stall` | 1 job submitted twice, 2 pools that may stall, 1 stall, no death | `EventuallyFinished`, `CancelIsDurable` |
| `stall_release` | 1 job, 2 pools, one stalls | `DoubleReleaseHarmless`: violated |
| `stall_take` | 1 job, 2 pools, one stalls | `TakeReturnsTerminal`: violated |
| `scope` | 2 children, each mode, the owner runs up to twice, any wait and any cancel call may fail | type, `ChildrenAnswered`, `FailuresReported`, `SiblingsTold`, `TeardownEnds` |
| `scope_late` | 2 children | `SiblingsCancelled`: violated |
| `scope_deadline` | 1 child | `NoOrphans`: violated |
| `notifier` | 3 waiters on 2 channels, 2 faults | `WatchedIsSubscribed`, `ReaderIffWatched`, `NoLostWakeup`, `WaiterReturns` |
| `heartbeat` | 3 ticks a second, every `worker_ttl` up to 6 s and every interval accepted for it, delay of 1 tick, 40 ticks | `HealthyNotReaped`, `DetectionWindow` |
| `memory` | 2 handles of one job and 1 of another, 2 loops, 2 releases | `EventsMatchRecords`, `TakersReturn`, `MemoryImplementsJobLife` |

*Bounds.* Two jobs are needed for the lists to have an order and for a reaper to
move more than one lease; two pools for a death and its witness; two loops in a
pool so that one loop's clean-up can touch a lease of its sibling. One failed
call may fall on any call of any actor, next to the crash or shutdown of a pool.
One stall is enough for a lease to be lost to a peer, with the pool that lost it
going on; `attempts` is bounded by the number of pools, failures and stalls. Two
children are one that fails and one that was spawned before it, or after it; a
second run of the owner meets every state in which the first can leave their
records. The invariants of a scope are theorems for any number of children and
runs. Two waiters share a channel while the third comes to and goes from
another, and two faults make a second one fall on what the first left behind (a
dead reader, a kept subscription). With six seconds there is room for every
phase of the clock against the stored second, and for `Roomy` to hold and fail;
40 ticks are two full periods of the longest TTL. Larger values are the proofs'
business where there is one.

`memory` has `Resubmitted = {}`: an id whose record was consumed is not enqueued
again. With one that is, TLC finds the in-memory form of `stall_release`: a loop
that is still unwinding a cancelled body when its job is taken and submitted
again releases the new job if it is interrupted then (`memory_backend.py:74`
looks at the status only).

*Deadlock.* Most of these systems may stop, and their runs do not check it. In
`lease_faults` and `bad_records` every pool that is left may have stopped (a
pool whose first heartbeat fails never serves) and jobs wait on the queue; a
scope is closed; all waiters have returned; the clock ends; all handles have
their results. `live` and `stall` check it, since their surviving pool never
stops beating.

*Fairness.* `Fairness` of `TaskQueue` says that calls to Redis return, that a
cancellation is delivered, that a cancelled body unwinds, that a pool which is
entered starts and a shutdown that has begun ends (`gather`, `_stop_upkeep`,
`_deregister`), that upkeep keeps beating and reaping (`while True` with every
exception caught), and that time passes for a pool that is gone. That a
shutdown ends leaves out a cancellation of `__aexit__` in its `gather`: a lease
that an interrupted claim left behind would then wait until the process ends.
Nothing is
assumed of crashes, drains, failed calls, submissions or cancel requests, and
nothing of bodies: that they end is the hypothesis of `EventuallyFinished`, that
those of other jobs end the one of `CancelTakesEffect`. Weak fairness is enough
throughout: the actions of a loop stay enabled until that loop moves, except
`Lease`, which a peer can disable by taking the id itself, and that is progress
of the id as well. `ScopeSpec` assumes that the calls of a teardown return and
that its drain times out, and nothing of the children. `NotifierSpec` assumes
that calls return and that `wait_for` times out, and nothing of the reader or of
the server, so that no message needs to arrive. `MemorySpec` assumes that tasks
which can go on do, and that bodies end which nobody cancels.

### What the violated runs show

`stall_release`. `backends/interface.py:67` says release is "A no-op if the job
is not currently leased (e.g. already terminal), so a double release (a graceful
shutdown racing a reaper) is harmless"; `docs/architecture.md:136` says the same.
`_RELEASE_SCRIPT` asks for the status only. A pool stalls, a peer reaps and
claims its job, the first pool shuts down: its release requeues a job that is
running at the peer.

`stall_take`. `backends/interface.py:73` promises the terminal record. The
status is read in one round trip and the record fetched in another, and
`_CLAIM_SCRIPT` makes any existing record RUNNING. After a stall a job can be
finished by the pool that lost it while its id is on the queue again; a claim
between the two round trips makes `take_result` return, and delete, a RUNNING
record.

Both of these need a live process to be presumed dead. `docs/architecture.md:385`
("The reaper only redelivers a job whose worker is already gone") and the
changelog rest on this not happening; the theorems below show that without it,
and with ids that are submitted once, none of this happens.

`scope_late`. `job_group.py:198` says of the default mode "On a failure, cancel
the still-running siblings ... and drain them to terminal", and `CHANGELOG.md:133`
that "A scope that spawns work in a loop no longer lets every remaining sibling
start after one has already failed". The callback cancels the
children it knows when the first one fails, and sets `_cancelling`; a body that
goes on spawning adds children that nobody cancels any more, neither the
callback nor the join, and the join waits for them to end by themselves.
`SiblingsTold`, which holds, is the part of the promise that is kept.

`scope_deadline`. `queue.py:126` says "The block does not exit until every job
spawned into the scope reaches a terminal state", and
`tests/test_job_group.py:16` "no orphans", by deadline included. A deadline or a
cancellation that lands in a `gather` cancels the waiters it gathers, so that
the drain of `cancel_all_jobs` has nobody to wait for: the children were told to
stop (`ChildrenAnswered` holds) and the scope exits while they run, with no
drain timeout involved and no call failed. `asyncio.wait`, the join that the
tests for the deadline use, leaves its tasks alone.

Both scope runs are about a scope whose calls succeed (`NoCallFailed`). A wait
that fails is another way to an orphan, and one that `ChildrenAnswered` states:
`take_result` raises (redis-py's default pool does under a wide fan-out,
`CHANGELOG.md:56`), the waiter counts as done, the fan-out
(`job_group.py:144`) and the gathers go on without it, and the scope ends while
the child runs and was never asked to stop. The error is in the group that the
scope raises; in the ignore mode the scope returns cleanly.

`HealthyNotReaped` is stated for a TTL with room for it. A stored beat looks up
to a second older than it is, so with `worker_ttl = 1`, which `check_liveness`
accepts, a healthy pool can be reaped; and "older than `worker_ttl`" in the
repository's README and changelog is up to a second early (`DetectionWindow`).

## 5. Proofs

Every invariant and every action property that a run checks is also a theorem,
and so are both refinements; only the leads-to properties are left to TLC.
`QueuedIsListed` has no run: what makes it hard, a release, a clean-up of
`claim` or a discard that falls on a lease lost to a peer or to a sibling loop,
needs a stall, a failed call and a shutdown in one instance, and the theorem
covers all of them.

The theorems about `TaskQueue` hold for any `Jobs`, any finite `Workers`, any
`Concurrency`, any number of failed calls, crashes, drains and shutdowns, and any
sets of poison, unregistered and self-cancelling jobs (`ConstantsAssumption`,
`SpawnAssumption`).

| theorem | states | besides assumes |
|---|---|---|
| `TypeCorrect` | `Spec => []TypeOK` | - |
| `LeasesInvariant` | `Spec => []LeaseInv` | no stalls, no resubmission |
| `LeasesAreSingle` | `Spec => []SingleLease` | the same |
| `JobsAreRecoverable` | `Spec => []Recoverable` | the same |
| `RunsAreExclusive` | `Spec => []ExclusiveRun` | the same |
| `ResultsAreTerminal` | `Spec => []TakeReturnsTerminal` | the same |
| `TerminalsAreFinal` | `Spec => TerminalIsFinal` | the same |
| `AttemptsAreMonotone` | `Spec => AttemptsGrow` | the same |
| `QueueImplementsLife` | `Spec => ImplementsJobLife` | the same |
| `LeasesAreAttendedUntilAFault` | `Spec => []Attended` | the same |
| `NoLeaseIsForgotten` | `Spec => []LeasesAttended` | the same, no failed calls, every record decodes |
| `QueuedJobsAreListed` | `Spec => []QueuedIsListed` | no resubmission |
| `CancelsAreDurable` | `Spec => CancelIsDurable` | - |
| `HealthyPoolsStay` | `ClockSpec => []HealthyNotReaped` | - |
| `CutOffIsTight` | `ClockSpec => []DetectionWindow` | - |
| `NotifierInvariant` | `NotifierSpec => []NotifierInv` | - |
| `WatchedChannelsSubscribed` | `NotifierSpec => []WatchedIsSubscribed` | - |
| `ReaderExactlyWhileWatched` | `NotifierSpec => []ReaderIffWatched` | - |
| `NoWakeupIsLost` | `NotifierSpec => []NoLostWakeup` | - |
| `ScopeInvariant` | `ScopeSpec => []ScopeInv` | - |
| `ScopeIsTyped` | `ScopeSpec => []ScopeTypeOK` | - |
| `NoChildIsForgotten` | `ScopeSpec => []ChildrenAnswered` | - |
| `NoFailureIsLost` | `ScopeSpec => []FailuresReported` | - |
| `FanOutIsComplete` | `ScopeSpec => []SiblingsTold` | - |
| `MemoryInvariant` | `MemorySpec => []MemoryInv` | no resubmission |
| `EventsFollowRecords` | `MemorySpec => []EventsMatchRecords` | the same |
| `MemoryImplementsLife` | `MemorySpec => MemoryImplementsJobLife` | the same |

"No stalls" is `Stallable = {}`; "no resubmission" is `Derived = {}`, or
`Resubmitted = {}` in memory. They are hypotheses of the theorems, not of the
modules, and each is needed where it stands:

* `stall_take` is a counterexample to `ResultsAreTerminal` with a stall, and
  `memory` with a member in `Resubmitted` one to `MemoryImplementsLife` (section
  4).
* A resubmitted id needs no stall to break `SingleLease` and `ExclusiveRun`: a
  shutdown cancels a save that Redis has applied, the result is taken, a re-run
  parent submits the id again and a peer claims it, and only then the release of
  the cancelled loop arrives. It sees a RUNNING job and requeues it. TLC finds
  this with `Derived = {j1}`, `MaxSpawns = 2` in the instance of `lease_faults`,
  without a failed call. `Recoverable` still holds there; in pools of two loops
  and with one failed call it does not: a save whose reply was lost is repeated
  as FAILED, lands on the new record and removes the lease of the sibling loop.
* `QueuedIsListed` survives any number of stalls, but not in pools of two loops
  a stall together with a resubmitted id. A claim that finds no record drops the
  id from its pool's list in a second round trip (`redis_backend.py:393`); if
  the id was reaped, finished, taken and submitted again after the first, and
  another loop of the pool has leased it, the LREM removes that loop's lease.
  The proof names the reason: `DiscardsGone`, a claim that discards has still no
  record, is what resubmission breaks. That loop still runs the job, which is
  lost only if it then dies.
* `Recoverable`, and with it `EventuallyFinished`, needs that no pool stalls and
  later dies: the reaper takes a stalled pool out of the liveness set
  (`redis_backend.py:209`), the pool comes back and leases a job before its next
  heartbeat, and is killed. Nobody looks at its list any more. TLC finds this in
  the instance of `stall` with `Mortal = {w1}` and no resubmission; run `stall`,
  which has no death, shows that a stall alone strands nothing.
* A failed call can make a pool keep a lease that nobody works on: the reply of
  BLMOVE is lost, or the last save and the release fail. The lease is then
  within a reaper's reach once the pool is gone (`Recoverable`) and no sooner.
  `Attended` says that nothing else does, except a record that cannot be
  decoded.

The theorems about the clock hold for any resolution, any TTL and any delay
(`ClockAssumption`), those about the notifier for any waiters, channels and
faults (`NotifierAssumption`), those about a scope for any number of children,
of failed waits and of runs of its owner (`ScopeAssumption`), those about the
in-memory backend for any jobs, handles, loops and releases
(`MemoryAssumption`).

*The argument.* None of the invariants is inductive. That a release does not
double an id needs that the releasing loop still has its lease or the job is
settled; that needs what every earlier step of the loop left behind, that no
other loop holds the same job, and that no reaper took the lease away, which in
turn needs that a pool with a live loop has a fresh beat. `LeaseInv` collects
these: `LoopInv(l)` (what is true at each await: the lease is in force up to
the first save, and afterwards it is in force or the job is settled; the copy
has the record's `attempts`; a loop belongs to a live pool), `JobInv(j)` (a job
is listed exactly while it is unfinished; only terminal records age or are
taken) and `PoolInv(w)` (who is alive beats; who has leases is registered).
`LeaseProofs` has a lemma for each action, and under it a step for each part
that the action can disturb; `ListLemmas` says what removing one occurrence of
an id does to a list without duplicates. Since `LeaseInv` is also an invariant
of two runs, TLC has evaluated what the provers were given.

`HistoryProofs` first shows that every step changes a record in one of a few
ways (`RecordSteps`: enqueue, claim, save, release, flag, reap, delete), then
each action property from those.

`QueuedIsListed` cannot rest on `LeaseInv`, which stalls break. Its invariant is
`PlaceInv`: what is on a list or in a loop's hands was submitted (`Submitted`),
and a loop that is about to discard an id has no record for it
(`DiscardsGone`). The lists may hold duplicates now, so that the lemmas on what
LPOP and LREM leave are other ones. `PlaceSteps` goes through the scripts: each
of them, where it takes an id off a list, puts it on another, settles its record,
or has found none.

`LeasesAttended` is inductive with `LeaseInv`, with the fact that a pool which
was never entered has neither leases nor loops, and with one about loops that
wait for a cancelled body: they have settled their job, so that their leaving
leaves no lease behind (`AttendInv`).

The refinement needs one fact more, `SavesAsTold`: a save that is about to
write CANCELLED over an unfinished job was asked to, and a save which follows a
lost reply writes FAILED. It is inductive together with `LeaseInv`, because the
only step that could settle the job in the meantime is the save of the loop that
holds it (`LiveUntilSaved`) and the flag stays (`FlagStays`). Then there is one
lemma for each way in which a record changes (`ClaimMaps`, `SaveMaps`,
`GiveBackMaps` for release and reaper, one for each client action), which names
the step of `JobLife` that it is, and `StepsMap` puts them together: a claim of a
job that a failed claim had already made RUNNING, a save without a record and a
release of a settled job are the ones that stutter.

`HeartbeatProofs` rests on one invariant: the score is the floor of `beatAt`, and
the next round is due at most one interval and one delay after the last good
beat, two of each after a failed one. A healthy beat is then at most
`2 * (interval + Latency)` old, `check_liveness` bounds that by two thirds of
the TTL and the delays, and a floor costs less than a second; `Roomy` (three
seconds and six delays within the TTL) is what makes the three fit.

`NotifierProofs`: `NotifierInv` says for each await of a waiter whether it is
registered (`Registered`), who holds the lock across an await and why (`Locked`),
that whoever is past its join is covered by a subscription and a reader
(`Covered`) and that a reader has somebody to read for (`Needed`); with these
`NoLostWakeup` is inductive.
The point is the middle of a critical section, where the three fields of
`_Notifier` disagree: the invariant says how, depending on who holds the lock,
and that a failed call leaves the section in a state that the next one repairs.

`ScopeProofs`: `ScopeInv` follows the stages of a scope. Before its join ends no
waiter was dropped and nothing is raised (`Staged`); from the teardown on every
child was told (`Answered`, which needs that a child once told stays so whatever
the backend does, `ToldStays`); the callback's books have every failure, that of
a wait included, and a cancelled child only after another one (`Booked`); a
sibling that was there at the first failure is told or in the set still to be
sent (`Fanned`). The backend is anything that takes the steps of `JobLife`, so
the theorems hold over both implementations wherever they implement it.

`MemoryProofs`: the events follow a record because nobody takes it away from a
loop that runs it. `MemoryInv` therefore ties loops to records: a job in a loop's
hands is RUNNING, in no other loop's hands, and was submitted by some handle
(`Vouched`), so that it cannot be submitted afresh; once saved it is not
unfinished again; and whoever was woken finds no unfinished job. `take_result`
pops without looking, and this last part is why what it pops is terminal. The
refinement has one lemma for each action, as above. `MemoryInv`, `ScopeInv`,
`NotifierInv` and `AttendInv` were model-checked on the instances of the runs
before they were proved.

*Only model-checked.* Liveness under fairness, which the proof system does not
handle: `EventuallyFinished`, `CancelTakesEffect`, `TeardownEnds`,
`WaiterReturns`, `TakersReturn`.

## 6. Not modelled, and the plan

Not modelled: serialization formats, logging, argument parsing, typing; the
command line, whose `run_worker` only calls `drain` on a first signal and leaves
the pool's context on a second, which `Drain` and `Close` are; Redis itself
losing data or failing over; a BLMOVE served to a connection whose client has
gone; failed calls of producers other than a scope; several callers of one
handle on Redis; jobs that wait for their own children and so hold a claim loop,
with the deadlock of a fleet whose loops are all held by parents.

What could come next, in this order:

1. jobs that spawn jobs in `Worker`, for the width of the fleet;
2. failed calls of producers outside a scope, above all a `take_result` whose
   reply is lost;
3. what of `LeaseInv` is left after a stall or for a resubmitted id, beyond
   `QueuedIsListed` and `CancelIsDurable`.
