------------------------------- MODULE Client -------------------------------
(***************************************************************************)
(* The producer's side: Task.submit and JobGroup.spawn enqueue a job,      *)
(* JobHandle.cancel flags it and JobHandle.result takes its record away.   *)
(***************************************************************************)
EXTENDS RedisBackend

CONSTANTS
    Derived,    \* ids derived from a parent job, which a re-run submits again
    MaxSpawns   \* how often a derived id is submitted

ASSUME SpawnAssumption == Derived \subseteq Jobs /\ MaxSpawns \in Nat

VARIABLES
    spawns,     \* how often each id was submitted
    result      \* where the take_result of its handle is, or what it gave

clientVars == <<spawns, result>>

\* "ready": take_result has seen a terminal status and is about to fetch.  A
\* status: the record it returned had that status; "missing": KeyError.
Results == {"none", "waiting", "ready", "missing"} \cup Statuses

ClientInit ==
    /\ spawns = [j \in Jobs |-> 0]
    /\ result = [j \in Jobs |-> "none"]

-----------------------------------------------------------------------------
\* Task.submit / JobGroup.spawn: enqueue refuses an id it already knows, and
\* the caller gets a fresh handle either way.
Submit(j) ==
    /\ spawns[j] < IF j \in Derived THEN MaxSpawns ELSE 1
    /\ EnqueueScript(j) \/ (Exists(j) /\ UNCHANGED redisVars)
    /\ spawns' = [spawns EXCEPT ![j] = @ + 1]
    /\ result' = [result EXCEPT ![j] = "waiting"]

\* JobHandle.cancel, and the fan-out of a group.
RequestCancel(j) ==
    /\ spawns[j] > 0
    /\ RequestCancelScript(j)
    /\ UNCHANGED clientVars

\* take_result reads the status: a terminal one ends the wait, a missing
\* record raises KeyError.
TakeChecks(j) ==
    /\ result[j] = "waiting"
    /\ \/ IsTerminal(j) /\ result' = [result EXCEPT ![j] = "ready"]
       \/ ~Exists(j) /\ result' = [result EXCEPT ![j] = "missing"]
    /\ UNCHANGED <<redisVars, spawns>>

\* take_result fetches and deletes the record, whatever it now says.
TakeFetches(j) ==
    /\ result[j] = "ready"
    /\ DeleteRecord(j)
    /\ result' = [result EXCEPT ![j] =
                    IF Exists(j) THEN jobs[j].status ELSE "missing"]
    /\ UNCHANGED spawns

\* An unclaimed result outlives its result_ttl.
ResultExpires(j) ==
    /\ ExpireRecord(j)
    /\ UNCHANGED clientVars
=============================================================================
