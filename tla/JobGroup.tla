------------------------------ MODULE JobGroup ------------------------------
(***************************************************************************)
(* One structured-concurrency scope (TaskQueue/job_group.py): a body that  *)
(* spawns children, a task per child that waits for its result, the join   *)
(* of each mode, and the teardown.  The backend below it is JobLife.  The  *)
(* scope is owned by a job, so that its children's ids are derived from    *)
(* their ordinals and a re-run of the owner spawns the same ids again.     *)
(***************************************************************************)
EXTENDS Naturals, FiniteSets

CONSTANTS
    MaxChildren,    \* spawns of one run of the body
    MaxRuns,        \* runs of the owner
    MaxLost         \* bound on the failed waits of one run

ASSUME ScopeAssumption ==
    MaxChildren \in Nat /\ MaxRuns \in Nat /\ MaxLost \in Nat

Children == 1..MaxChildren

VARIABLES
    life, taken,    \* the records of the children, see JobLife
    mode,           \* _on_error
    at,             \* where the scope's body or __aexit__ is
    ordinal,        \* JobContext._spawns
    waiter,         \* the task of each handle: what take_result gave it, "error"
                    \* when that call failed, "pending", "dropped" when
                    \* cancelled, "none" when unspawned
    failures,       \* _failures, as the set of their children
    cancelling,     \* _cancelling
    fanout,         \* what the task in _fanout has still to cancel
    exit,           \* what the scope raises
    cut,            \* a cancel call failed, or the teardown was cut short
    late,           \* children spawned after the fan-out (history)
    runs            \* runs of the owner so far

scopeVars == <<mode, at, ordinal, waiter, failures, cancelling, fanout, exit,
               cut, late, runs>>
records == <<life, taken>>
vars == <<records, scopeVars>>

INSTANCE JobLife WITH
    Jobs <- Children, Handles <- Children, Target <- [c \in Children |-> c]

-----------------------------------------------------------------------------
Spawned == {c \in Children : waiter[c] # "none"}
Pending == {c \in Children : waiter[c] = "pending"}
Lost    == {c \in Children : waiter[c] = "error"}
Raised  ==
    {c \in Children : waiter[c] \in {"failed", "cancelled", "missing", "error"}}

Init ==
    /\ LifeInit
    /\ mode \in {"cancel_siblings", "collect", "ignore"}
    /\ at = "body"
    /\ ordinal = 0
    /\ waiter = [c \in Children |-> "none"]
    /\ failures = {}
    /\ cancelling = FALSE
    /\ fanout = {}
    /\ exit = "none"
    /\ cut = FALSE
    /\ late = {}
    /\ runs = 1

-----------------------------------------------------------------------------
(* The scope's body.                                                       *)

\* _child_id and next_spawn
ChildId == ordinal + 1

\* spawn: the child is enqueued and a task begins to wait for it.  Nothing asks
\* whether a sibling has failed.
Spawn ==
    /\ at = "body"
    /\ ChildId \in Children
    /\ Enqueue(ChildId)
    /\ ordinal' = ordinal + 1
    /\ waiter' = [waiter EXCEPT ![ChildId] = "pending"]
    /\ late' = IF cancelling THEN late \cup {ChildId} ELSE late
    /\ UNCHANGED <<mode, at, failures, cancelling, fanout, exit, cut, runs>>

\* The await on submit raises, or is cancelled, with the child enqueued or not:
\* the scope has no handle of it.
SpawnFails ==
    /\ at = "body"
    /\ ChildId \in Children
    /\ Enqueue(ChildId) \/ UNCHANGED records
    /\ ordinal' = ordinal + 1
    /\ UNCHANGED <<mode, at, waiter, failures, cancelling, fanout, exit, cut,
                   late, runs>>

\* The body raises, or its cancellation lands: __aexit__ gets an exception.
BodyRaises ==
    /\ at = "body"
    /\ at' = "cancelling"
    /\ exit' = "raised"
    /\ UNCHANGED <<records, mode, ordinal, waiter, failures, cancelling,
                   fanout, cut, late, runs>>

\* _join: asyncio.wait for the first exception, or a gather.
JoinOf == IF mode = "cancel_siblings" THEN "joining" ELSE "gathering"

\* The body ends: the scope joins its children, if it has any.
BodyEnds ==
    /\ at = "body"
    /\ at' = IF Spawned = {} THEN "settling" ELSE JoinOf
    /\ UNCHANGED <<records, mode, ordinal, waiter, failures, cancelling,
                   fanout, exit, cut, late, runs>>

-----------------------------------------------------------------------------
(* The waiters and their callback.                                         *)

\* Whether the callback counts an outcome as a failure: not in the modes that
\* register no callback, and a child that was cancelled after the fan-out is
\* none.  (Mutant: a cancelled child never is one.)
CountsUncancelled(outcome) ==
    mode = "cancel_siblings" /\ outcome \notin {"completed", "cancelled"}

Counts(outcome) ==
    /\ mode = "cancel_siblings"
    /\ outcome # "completed"
    /\ ~(cancelling /\ outcome = "cancelled")

\* Mutant of StillRunning: nobody.
TellNobody(c) == {}

StillRunning(c) == Pending \ {c}

\* _job_finished: the first failure fans out to the children whose waiters are
\* not done.
JobFinished(c, outcome) ==
    IF Counts(outcome)
      THEN /\ failures' = failures \cup {c}
           /\ cancelling' = TRUE
           /\ fanout' = IF cancelling THEN fanout ELSE StillRunning(c)
      ELSE UNCHANGED <<failures, cancelling, fanout>>

\* The task of c is done, and its callback runs.
WaiterEnds(c, outcome) ==
    /\ waiter[c] = "pending"
    /\ waiter' = [waiter EXCEPT ![c] = outcome]
    /\ JobFinished(c, outcome)
    /\ UNCHANGED <<mode, at, ordinal, exit, cut, late, runs>>

\* The task of c gets its child's result, or KeyError.
WaiterReturns(c) ==
    /\ Take(c) \/ TakeFails(c)
    /\ WaiterEnds(c, taken'[c])

\* take_result raises an error of the backend while the child may be at any
\* stage, or hands over a record that gets lost or cannot be decoded.
WaiterFails(c) ==
    /\ Cardinality(Lost) < MaxLost
    /\ UNCHANGED records \/ Expire(c)
    /\ WaiterEnds(c, "error")

\* The task made by the callback runs, or fails with a part of its cancel
\* requests applied.
FanOut ==
    /\ fanout # {}
    /\ fanout' = {}
    /\ \/ RequestCancel(fanout) /\ UNCHANGED cut
       \/ \E S \in SUBSET fanout : RequestCancel(S) /\ cut' = TRUE
    /\ UNCHANGED <<mode, at, ordinal, waiter, failures, cancelling, exit,
                   late, runs>>

-----------------------------------------------------------------------------
(* __aexit__                                                               *)

\* What the task does once a join or a teardown is over: _settle cancels the
\* waiters that are left ...
Settling(how) ==
    /\ at' = "settling"
    /\ exit' = how
    /\ waiter' = [c \in Children |->
                    IF c \in Pending THEN "dropped" ELSE waiter[c]]

\* cancel_siblings_mode: asyncio.wait returns with the first exception or when
\* no waiter is left.  (Whoever raised has run its callback by then, so the
\* request that backs the callback up finds _cancelling set.)
JoinWakes ==
    /\ at = "joining"
    /\ Raised # {} \/ Pending = {}
    /\ at' = "gathering"
    /\ cancelling' = (cancelling \/ Pending # {})
    /\ IF cancelling \/ Pending = {} THEN UNCHANGED records
                                     ELSE RequestCancel(Pending)
    /\ UNCHANGED <<mode, ordinal, waiter, failures, fanout, exit, cut, late,
                   runs>>

\* What the join returns.
Failures ==
    CASE mode = "cancel_siblings" -> failures
      [] mode = "collect" -> Raised
      [] mode = "ignore" -> {}

\* The gather of the mode returns: no waiter is left.
JoinEnds ==
    /\ at = "gathering"
    /\ Pending = {}
    /\ Settling(IF Failures = {} THEN "none" ELSE "group")
    /\ UNCHANGED <<records, mode, ordinal, failures, cancelling, fanout, cut,
                   late, runs>>

\* The deadline passes or the owner is cancelled.  A gather that is cancelled
\* cancels the tasks it gathers; asyncio.wait leaves them alone.
JoinInterrupted ==
    /\ at \in {"joining", "gathering"}
    /\ at' = "cancelling"
    /\ exit' \in {"timeout", "cancelled"}
    /\ waiter' = IF at = "joining" THEN waiter
                 ELSE [c \in Children |->
                         IF c \in Pending THEN "dropped" ELSE waiter[c]]
    /\ UNCHANGED <<records, mode, ordinal, failures, cancelling, fanout, cut,
                   late, runs>>

\* Mutant of CancelAll: only the children whose waiters are not done.
CancelPending ==
    /\ at = "cancelling"
    /\ RequestCancel(Pending)
    /\ at' = "draining"
    /\ UNCHANGED <<mode, ordinal, waiter, failures, cancelling, fanout, exit,
                   cut, late, runs>>

\* cancel_all_jobs asks for the cancellation of every child ...
CancelAll ==
    /\ at = "cancelling"
    /\ RequestCancel(Spawned)
    /\ at' = "draining"
    /\ UNCHANGED <<mode, ordinal, waiter, failures, cancelling, fanout, exit,
                   cut, late, runs>>

\* ... and waits until the tasks of all of them are done ...
DrainEnds ==
    /\ at = "draining"
    /\ Pending = {}
    /\ Settling(exit)
    /\ UNCHANGED <<records, mode, ordinal, failures, cancelling, fanout, cut,
                   late, runs>>

\* (Mutant of DrainTimesOut: no timeout.)
DrainWaits == FALSE

\* ... or until the drain timeout.
DrainTimesOut ==
    /\ at = "draining"
    /\ Pending # {}
    /\ Settling(exit)
    /\ cut' = TRUE
    /\ UNCHANGED <<records, mode, ordinal, failures, cancelling, fanout,
                   late, runs>>

\* The cancel call of the teardown raises, or a cancellation lands in it.
TeardownFails ==
    /\ at \in {"cancelling", "draining"}
    /\ \/ at = "cancelling" /\ \E S \in SUBSET Spawned : RequestCancel(S)
       \/ at = "draining" /\ UNCHANGED records
    /\ Settling("raised")
    /\ cut' = TRUE
    /\ UNCHANGED <<mode, ordinal, failures, cancelling, fanout, late, runs>>

\* ... and waits for the fan-out.
Settled ==
    /\ at = "settling"
    /\ fanout = {}
    /\ at' = "closed"
    /\ UNCHANGED <<records, mode, ordinal, waiter, failures, cancelling,
                   fanout, exit, cut, late, runs>>

\* A cancellation lands in _settle and takes the fan-out with it.
SettleInterrupted ==
    /\ at = "settling"
    /\ at' = "closed"
    /\ exit' = "cancelled"
    /\ fanout' = {}
    /\ cut' = TRUE
    /\ UNCHANGED <<records, mode, ordinal, waiter, failures, cancelling, late,
                   runs>>

-----------------------------------------------------------------------------
\* Somebody cancels a child by its handle.
HandleCancel(c) ==
    /\ c \in Spawned
    /\ RequestCancel({c})
    /\ UNCHANGED scopeVars

\* The owner's process dies, its handles with it, and the redelivered owner runs
\* its body again.
Rerun ==
    /\ runs < MaxRuns
    /\ runs' = runs + 1
    /\ at' = "body"
    /\ ordinal' = 0
    /\ waiter' = [c \in Children |-> "none"]
    /\ failures' = {}
    /\ cancelling' = FALSE
    /\ fanout' = {}
    /\ exit' = "none"
    /\ cut' = FALSE
    /\ late' = {}
    /\ taken' = [c \in Children |-> "none"]
    /\ UNCHANGED <<life, mode>>

Teardown ==
    \/ CancelAll \/ DrainEnds \/ DrainTimesOut \/ Settled \/ FanOut

ScopeNext ==
    \/ Spawn \/ SpawnFails \/ BodyRaises \/ BodyEnds
    \/ JoinWakes \/ JoinEnds \/ JoinInterrupted
    \/ Teardown \/ TeardownFails \/ SettleInterrupted
    \/ \E c \in Children : WaiterReturns(c) \/ WaiterFails(c)
                          \/ HandleCancel(c)
    \/ Rerun
    \/ Backend /\ UNCHANGED scopeVars

\* Calls return and the drain has a timeout; nothing is assumed of children.
ScopeSpec == Init /\ [][ScopeNext]_vars /\ WF_vars(Teardown)

-----------------------------------------------------------------------------
\* The values every variable ranges over.
ScopeTypeOK ==
    /\ at \in {"body", "joining", "gathering", "cancelling", "draining",
               "settling", "closed"}
    /\ waiter \in [Children ->
           {"none", "pending", "dropped", "missing", "error"} \cup Ended]
    /\ exit \in {"none", "raised", "timeout", "cancelled", "group"}
    /\ failures \subseteq Spawned
    /\ fanout \subseteq Spawned

Told(c) == ~Unfinished(c) \/ life[c].request_cancel

\* The scope lost sight of c: its waiter is done, and nobody asked the child to
\* stop.  That is not passed over in silence, except in the ignore mode.
LostSightOf(c) ==
    /\ waiter[c] = "error"
    /\ mode = "ignore" \/ (exit = "group" /\ c \in Failures)

\* A scope that returns, or that raises its children's failures, has the
\* outcome of every child, or the call that waited for that child failed and
\* the scope raises its error; one that ends otherwise has asked every
\* unfinished child to stop, also those it had lost sight of.  (No claim is made
\* where a cancel call failed or the teardown was itself cut short.)
ChildrenAnswered ==
    at = "closed" /\ ~cut =>
        IF exit \in {"none", "group"}
          THEN \A c \in Spawned :
                 waiter[c] \in Ended \cup {"missing"} \/ LostSightOf(c)
          ELSE \A c \in Spawned : Told(c)

\* What raises is not lost: outside the ignore mode a scope that ends its join
\* reports each child that failed by itself or could not be waited for, and
\* returns cleanly only if all children completed, even if a child was
\* cancelled by its handle.
FailuresReported ==
    at = "closed" /\ exit \in {"none", "group"} /\ mode # "ignore" =>
        /\ \A c \in Spawned :
             waiter[c] \in {"failed", "missing", "error"} => c \in Failures
        /\ exit = "none" => \A c \in Spawned : waiter[c] = "completed"

\* The fan-out of the first failure reaches every sibling that was spawned
\* before it, without waiting for the body or the join.
SiblingsTold ==
    cancelling /\ fanout = {} /\ ~cut =>
        \A c \in Pending \ late : Told(c)

\* A teardown that has begun ends although children may never do.
TeardownEnds ==
    at \in {"cancelling", "draining", "settling"} ~> at \in {"closed", "body"}

-----------------------------------------------------------------------------
NoCallFailed == ~cut /\ Lost = {}

\* "On a failure, cancel the still-running siblings and drain them": a join
\* that waits after a failure waits for children that were told to stop.
SiblingsCancelled ==
    at = "gathering" /\ cancelling /\ fanout = {} /\ NoCallFailed =>
        \A c \in Pending : Told(c)

\* "No orphans": the block does not exit before every job spawned into the
\* scope is terminal.
NoOrphans ==
    at = "closed" /\ NoCallFailed => \A c \in Spawned : ~Unfinished(c)
=============================================================================
