------------------------------ MODULE Heartbeat ------------------------------
(***************************************************************************)
(* The liveness clock: when the beats of _upkeep_loop, stored in whole     *)
(* seconds, make the reaper's cut-off call a process dead.  Modules Worker *)
(* and RedisBackend only know fresh and stale beats; this one says when a  *)
(* pool that check_liveness accepts has a stale one.                       *)
(***************************************************************************)
EXTENDS Integers

CONSTANTS
    TicksPerSecond, \* the resolution of the model's clock
    MaxTtl,         \* the largest worker_ttl, in seconds
    Latency,        \* the longest delay, in ticks, of a round of upkeep
    MaxNow          \* the end of time

ASSUME ClockAssumption ==
    /\ TicksPerSecond \in Nat \ {0}
    /\ MaxTtl \in Nat \ {0}
    /\ Latency \in Nat
    /\ MaxNow \in Nat

VARIABLES
    worker_ttl, \* of the backend, in seconds
    interval,   \* heartbeat_interval of the pool, in ticks
    now,        \* the server's clock, in ticks
    score,      \* the pool's entry in the sorted set, in seconds
    beatAt,     \* when that entry was written, in ticks (history)
    due,        \* when the upkeep loop wakes up
    misses,     \* heartbeats that failed since then
    state       \* "alive", "dead", or "reclaimed" while alive

clockVars == <<worker_ttl, interval, now, score, beatAt, due, misses, state>>

\* redis.call('TIME')[1]
Seconds(t) == t \div TicksPerSecond

\* Mutant of CheckLiveness: one beat per TTL is enough.
CheckOneBeat(ttl, i) == i <= ttl * TicksPerSecond

\* check_liveness accepts three beats per TTL.
CheckLiveness(ttl, i) == 3 * i <= ttl * TicksPerSecond

\* __aenter__: the first beat is awaited.
ClockInit ==
    /\ worker_ttl \in 1..MaxTtl
    /\ interval \in 1..(MaxTtl * TicksPerSecond)
    /\ CheckLiveness(worker_ttl, interval)
    /\ now \in 0..(TicksPerSecond - 1)
    /\ score = Seconds(now)
    /\ beatAt = now
    /\ due = now + interval
    /\ misses = 0
    /\ state = "alive"

-----------------------------------------------------------------------------
\* Time passes, but not over a round of upkeep that has to be done.
Tick ==
    /\ now < MaxNow
    /\ state = "alive" => now < due + Latency
    /\ now' = now + 1
    /\ UNCHANGED <<worker_ttl, interval, score, beatAt, due, misses, state>>

\* A round of _upkeep_loop: the heartbeat script, and the sleep after it.
Beat ==
    /\ state = "alive"
    /\ now >= due
    /\ score' = Seconds(now)
    /\ beatAt' = now
    /\ due' = now + interval
    /\ misses' = 0
    /\ UNCHANGED <<worker_ttl, interval, now, state>>

\* The heartbeat raises: the loop sleeps for a whole interval.  One failure in
\* a row is looked at, two are a stall.
BeatFails ==
    /\ state = "alive"
    /\ now >= due
    /\ misses = 0
    /\ misses' = 1
    /\ due' = now + interval
    /\ UNCHANGED <<worker_ttl, interval, now, score, beatAt, state>>

\* The process is killed.
Die ==
    /\ state = "alive"
    /\ state' = "dead"
    /\ UNCHANGED <<worker_ttl, interval, now, score, beatAt, due, misses>>

\* Mutant of Reapable: the cut-off is exclusive.
ReapableLater == score < Seconds(now) - worker_ttl

\* The ZRANGE of _REAPER_SCRIPT: a score of at most now - ttl.
Reapable == score <= Seconds(now) - worker_ttl

\* A peer reaps while the pool is alive.
Reclaim ==
    /\ state = "alive"
    /\ Reapable
    /\ state' = "reclaimed"
    /\ UNCHANGED <<worker_ttl, interval, now, score, beatAt, due, misses>>

ClockNext == Tick \/ Beat \/ BeatFails \/ Die \/ Reclaim

ClockSpec == ClockInit /\ [][ClockNext]_clockVars

-----------------------------------------------------------------------------
\* Room for one failed beat: three seconds, and six times the delay of a round.
Roomy == 3 * TicksPerSecond + 6 * Latency <= worker_ttl * TicksPerSecond

\* What check_liveness is for: a pool that runs, and loses no two beats in a
\* row, is never presumed dead, although a stored beat can look up to a second
\* older than it is and each round is late.
HealthyNotReaped == Roomy => state # "reclaimed"

\* A beat is expired no later than worker_ttl after it was written, and not a
\* full second earlier.
DetectionWindow ==
    LET age == now - beatAt
        ttl == worker_ttl * TicksPerSecond
    IN (age >= ttl => Reapable) /\ (Reapable => age > ttl - TicksPerSecond)
=============================================================================
