----------------------------- MODULE TypeProofs -----------------------------
(***************************************************************************)
(* Type correctness of the composed specification, for any number of jobs, *)
(* pools and loops, and with stalls and resubmitted ids.  A loop past its  *)
(* BLMOVE has the id of a job in hand, which is what every later script    *)
(* call is made with: HeldIsJob is the strengthening TypeOK needs.         *)
(***************************************************************************)
EXTENDS LeaseInvariant, ListLemmas

\* The part of TypeOK that is about the keyspace.
RedisTypeOK ==
    /\ jobs \in [Jobs -> Records]
    /\ queue \in Seq(Jobs)
    /\ processing \in [Workers -> Seq(Jobs)]
    /\ beat \in [Workers -> Beats]

\* The other parts: the counters and positions of clients and pools.
LocalTypeOK ==
    /\ phase \in [Workers -> Phases]
    /\ upkeep \in [Workers -> {"off", "beat", "reap"}]
    /\ pc \in [Loops -> PCs]
    /\ held \in [Loops -> Holds]
    /\ body \in [Loops -> BOOLEAN]
    /\ faults \in 0..MaxFaults
    /\ stalls \in 0..MaxStalls
    /\ spawns \in [Jobs -> Nat]
    /\ result \in [Jobs -> Results]

TypeInv == RedisTypeOK /\ LocalTypeOK /\ HeldIsJob

\* Every claim loop belongs to a pool.
LEMMA OwnerIsWorker == \A l \in Loops : Owner(l) \in Workers
BY DEF Loops, Owner

-----------------------------------------------------------------------------
(* The scripts keep the keyspace well typed.                               *)

\* The scripts that write a record and no list.
LEMMA RecordScriptsType ==
    ASSUME RedisTypeOK, NEW j \in Jobs,
           ClaimScript(j) \/ RequestCancelScript(j) \/ DeleteRecord(j)
             \/ ExpireRecord(j)
    PROVE  RedisTypeOK'
<1>1. NoRecord \in Records
  BY DEF NoRecord, Records
<1>2. CASE ClaimScript(j)
  <2>1. PICK r \in Records : r = jobs[j]
    BY DEF RedisTypeOK
  <2>2. r.attempts + 1 \in Nat
    BY DEF Records
  <2>3. [r EXCEPT !.status = "running"] \in Records
    BY DEF Records, Statuses
  <2>4. [[r EXCEPT !.status = "running"] EXCEPT !.attempts = r.attempts + 1]
          \in Records
    BY <2>2, <2>3 DEF Records
  <2>5. jobs' = IF Exists(j)
                  THEN [jobs EXCEPT ![j] = [[r EXCEPT !.status = "running"]
                           EXCEPT !.attempts = r.attempts + 1]]
                  ELSE jobs
    BY <1>2, <2>1 DEF RedisTypeOK, ClaimScript, Records
  <2> QED
    BY <1>2, <2>4, <2>5 DEF RedisTypeOK, ClaimScript
<1>3. CASE RequestCancelScript(j)
  BY <1>3 DEF RedisTypeOK, RequestCancelScript, Records
<1>4. CASE DeleteRecord(j) \/ ExpireRecord(j)
  BY <1>1, <1>4 DEF RedisTypeOK, DeleteRecord, ExpireRecord
<1> QED
  BY <1>2, <1>3, <1>4

\* The scripts that write the liveness set only.
LEMMA BeatScriptsType ==
    ASSUME RedisTypeOK, NEW w \in Workers,
           HeartbeatScript(w) \/ DeregisterScript(w) \/ ExpireBeat(w)
    PROVE  RedisTypeOK'
BY DEF RedisTypeOK, HeartbeatScript, DeregisterScript, ExpireBeat, Beats

\* enqueue.
LEMMA EnqueueType ==
    ASSUME RedisTypeOK, NEW j \in Jobs, EnqueueScript(j)
    PROVE  RedisTypeOK'
<1>1. NewRecord \in Records
  BY DEF NewRecord, NoRecord, Records, Statuses
<1>2. Append(queue, j) \in Seq(Jobs)
  BY AppendRange DEF RedisTypeOK
<1> QED
  BY <1>1, <1>2 DEF RedisTypeOK, EnqueueScript

\* The first half of claim.
LEMMA BlmoveType ==
    ASSUME RedisTypeOK, NEW w \in Workers, Blmove(w)
    PROVE  RedisTypeOK' /\ Head(queue) \in Jobs
<1>1. queue \in Seq(Jobs) /\ queue # <<>> /\ processing[w] \in Seq(Jobs)
  BY DEF RedisTypeOK, Blmove
<1>2. Head(queue) \in Jobs /\ Tail(queue) \in Seq(Jobs)
  BY <1>1, TailRange
<1>3. Append(processing[w], Head(queue)) \in Seq(Jobs)
  BY <1>1, <1>2, AppendRange
<1> QED
  BY <1>2, <1>3 DEF RedisTypeOK, Blmove

\* The clean-ups of claim.
LEMMA CleanUpType ==
    ASSUME RedisTypeOK, NEW w \in Workers, NEW j \in Jobs,
           ReturnLease(w, j) \/ DiscardLease(w, j)
    PROVE  RedisTypeOK'
<1>1. Append(queue, j) \in Seq(Jobs)
  BY AppendRange DEF RedisTypeOK
<1>2. RemoveFirst(processing[w], j) \in Seq(Jobs)
  BY RemoveFirstType DEF RedisTypeOK
<1> QED
  BY <1>1, <1>2 DEF RedisTypeOK, ReturnLease, DiscardLease

\* save.
LEMMA SaveType ==
    ASSUME RedisTypeOK, NEW w \in Workers, NEW j \in Jobs,
           NEW status \in Statuses \cup {"absent"}, NEW attempts \in Nat,
           NEW flag \in BOOLEAN,
           SaveScript(w, j, status, attempts, flag)
    PROVE  RedisTypeOK'
<1>1. RemoveFirst(processing[w], j) \in Seq(Jobs)
  BY RemoveFirstType DEF RedisTypeOK
<1>2. [status |-> status, attempts |-> attempts,
       request_cancel |-> flag, expires |-> TRUE] \in Records
  BY DEF Records
<1> QED
  BY <1>1, <1>2 DEF RedisTypeOK, SaveScript

\* release.
LEMMA ReleaseType ==
    ASSUME RedisTypeOK, NEW w \in Workers, NEW j \in Jobs, ReleaseScript(w, j)
    PROVE  RedisTypeOK'
<1>1. Append(queue, j) \in Seq(Jobs)
  BY AppendRange DEF RedisTypeOK
<1>2. RemoveFirst(processing[w], j) \in Seq(Jobs)
  BY RemoveFirstType DEF RedisTypeOK
<1>3. [jobs EXCEPT ![j].status = "queued"] \in [Jobs -> Records]
  BY DEF RedisTypeOK, Records, Statuses
<1> QED
  BY <1>1, <1>2, <1>3 DEF RedisTypeOK, ReleaseScript, redisVars

\* The reaper meets finitely many slots.
LEMMA ReapedSlotsFinite ==
    ASSUME RedisTypeOK
    PROVE  /\ IsFiniteSet(ReapedSlots)
           /\ \A s \in ReapedSlots :
                /\ s = <<s[1], s[2]>>
                /\ s[1] \in Expired
                /\ s[2] \in DOMAIN processing[s[1]]
                /\ Exists(processing[s[1]][s[2]])
           /\ \A w \in Expired : \A i \in DOMAIN processing[w] :
                Exists(processing[w][i]) => <<w, i>> \in ReapedSlots
<1> DEFINE Places(w) == {i \in DOMAIN processing[w] : Exists(processing[w][i])}
           Slots(w) == {w} \X Places(w)
           f == [w \in Expired |-> Slots(w)]
           T == {Slots(w) : w \in Expired}
<1>1. ReapedSlots = UNION T
  BY DEF ReapedSlots
<1>2. IsFiniteSet(Expired)
  BY ConstantsAssumption, FS_Subset DEF Expired
<1>3. f \in Surjection(Expired, T)
  BY DEF Surjection
<1>4. IsFiniteSet(T)
  BY <1>2, <1>3, FS_Surjection
<1>5. ASSUME NEW w \in Expired
      PROVE  IsFiniteSet(Slots(w))
  <2>1. processing[w] \in Seq(Jobs)
    BY DEF RedisTypeOK, Expired
  <2>2. DOMAIN processing[w] = 1..Len(processing[w])
        /\ Len(processing[w]) \in Nat
    BY <2>1, LenProperties
  <2>3. IsFiniteSet(DOMAIN processing[w])
    BY <2>2, FS_Interval
  <2>4. IsFiniteSet(Places(w))
    BY <2>3, FS_Subset
  <2>5. IsFiniteSet({w})
    BY FS_Singleton
  <2> HIDE DEF Places
  <2> QED
    BY <2>4, <2>5, FS_Product
<1>6. \A X \in T : IsFiniteSet(X)
  BY <1>5
<1>7. IsFiniteSet(ReapedSlots)
  BY <1>1, <1>4, <1>6, FS_UNION
<1>8. ASSUME NEW s \in ReapedSlots
      PROVE  /\ s = <<s[1], s[2]>>
             /\ s[1] \in Expired
             /\ s[2] \in DOMAIN processing[s[1]]
             /\ Exists(processing[s[1]][s[2]])
  <2>1. PICK w \in Expired : s \in Slots(w)
    BY <1>1
  <2> QED
    BY <2>1
<1>9. ASSUME NEW w \in Expired, NEW i \in DOMAIN processing[w],
             Exists(processing[w][i])
      PROVE  <<w, i>> \in ReapedSlots
  BY <1>1, <1>9
<1> QED
  BY <1>7, <1>8, <1>9

\* What the reaper appends to the queue is a list of job ids.
LEMMA MovedType ==
    ASSUME RedisTypeOK, NEW order \in SetToSeqs(ReapedSlots)
    PROVE  [k \in DOMAIN order |-> processing[order[k][1]][order[k][2]]]
             \in Seq(Jobs)
<1> DEFINE moved == [k \in DOMAIN order |->
                        processing[order[k][1]][order[k][2]]]
<1>1. /\ DOMAIN order = 1..Cardinality(ReapedSlots)
      /\ Cardinality(ReapedSlots) \in Nat
      /\ \A k \in DOMAIN order : order[k] \in ReapedSlots
  BY ReapedSlotsFinite, SetToSeqsRange
<1>2. ASSUME NEW k \in DOMAIN order
      PROVE  moved[k] \in Jobs
  <2>1. order[k][1] \in Workers /\ order[k][2] \in DOMAIN processing[order[k][1]]
    BY <1>1, ReapedSlotsFinite DEF Expired
  <2> DEFINE s == processing[order[k][1]]
  <2>2. s \in Seq(Jobs)
    BY <2>1 DEF RedisTypeOK
  <2>3. s[order[k][2]] \in Jobs
    BY <2>1, <2>2, LenProperties, ElementOfSeq
  <2> QED
    BY <2>3
<1>3. moved \in [1..Cardinality(ReapedSlots) -> Jobs]
  BY <1>1, <1>2
<1> HIDE DEF moved
<1>4. moved \in Seq(Jobs)
  BY <1>1, <1>3, SeqDef
<1> QED
  BY <1>4 DEF moved

\* The reaper.
LEMMA ReaperType ==
    ASSUME RedisTypeOK, ReaperScript
    PROVE  RedisTypeOK'
<1> DEFINE moved(order) == [k \in DOMAIN order |->
                              processing[order[k][1]][order[k][2]]]
<1>1. PICK order \in SetToSeqs(ReapedSlots) :
        /\ queue' = queue \o moved(order)
        /\ jobs' = [j \in Jobs |->
              IF j \in Range(moved(order)) /\ jobs[j].status = "running"
                THEN [jobs[j] EXCEPT !.status = "queued"]
                ELSE jobs[j]]
        /\ processing' = [w \in Workers |->
              IF w \in Expired THEN <<>> ELSE processing[w]]
        /\ beat' = [w \in Workers |->
              IF w \in Expired THEN "none" ELSE beat[w]]
  BY DEF ReaperScript
<1>2. moved(order) \in Seq(Jobs)
  BY MovedType
<1> HIDE DEF moved
<1>3. queue' \in Seq(Jobs)
  BY <1>1, <1>2, ConcatRange DEF RedisTypeOK
<1>4. jobs' \in [Jobs -> Records]
  BY <1>1 DEF RedisTypeOK, Records, Statuses
<1>5. processing' \in [Workers -> Seq(Jobs)]
  BY <1>1, EmptySeq DEF RedisTypeOK
<1>6. beat' \in [Workers -> Beats]
  BY <1>1 DEF RedisTypeOK, Beats
<1> QED
  BY <1>3, <1>4, <1>5, <1>6 DEF RedisTypeOK

-----------------------------------------------------------------------------
(* The steps of clients, claim loops and pools.                            *)

\* The initial values have the right types.
LEMMA TypeInvInit == Init => TypeInv
<1> SUFFICES ASSUME Init PROVE TypeInv
  OBVIOUS
<1>1. RedisTypeOK
  <2>1. NoRecord \in Records
    BY DEF NoRecord, Records
  <2>2. <<>> \in Seq(Jobs)
    BY EmptySeq
  <2> QED
    BY <2>1, <2>2 DEF Init, RedisInit, RedisTypeOK, Beats
<1>2. LocalTypeOK
  <2>1. NoHold \in Holds
    BY DEF NoHold, Holds
  <2>2. phase \in [Workers -> Phases] /\ upkeep \in [Workers -> {"off", "beat", "reap"}]
    BY DEF Init, WorkerInit, Phases
  <2>3. pc \in [Loops -> PCs] /\ body \in [Loops -> BOOLEAN]
    BY DEF Init, WorkerInit, PCs
  <2>4. spawns \in [Jobs -> Nat] /\ result \in [Jobs -> Results]
    BY DEF Init, ClientInit, Results
  <2> QED
    BY <2>1, <2>2, <2>3, <2>4, ConstantsAssumption
       DEF Init, WorkerInit, LocalTypeOK
<1>3. HeldIsJob
  BY DEF Init, WorkerInit, HeldIsJob, Holding
<1> QED
  BY <1>1, <1>2, <1>3 DEF TypeInv

\* Producers: submit, cancel, result.
LEMMA ClientTypes ==
    ASSUME TypeInv, NEW j \in Jobs, UNCHANGED workerVars,
           \/ Submit(j)
           \/ RequestCancel(j)
           \/ TakeChecks(j)
           \/ TakeFetches(j)
           \/ ResultExpires(j)
    PROVE  TypeInv'
<1>1. RedisTypeOK'
  BY EnqueueType, RecordScriptsType
     DEF TypeInv, Submit, RequestCancel, TakeChecks, TakeFetches,
         ResultExpires, redisVars, RedisTypeOK
<1>2. spawns' \in [Jobs -> Nat]
  BY DEF TypeInv, LocalTypeOK, Submit, RequestCancel, TakeChecks, TakeFetches,
         ResultExpires, clientVars
<1>3. result' \in [Jobs -> Results]
  <2>1. Exists(j) => jobs[j].status \in Statuses
    BY DEF TypeInv, RedisTypeOK, Records, Exists
  <2>2. "waiting" \in Results /\ "ready" \in Results /\ "missing" \in Results
        /\ Statuses \subseteq Results
    BY DEF Results
  <2> QED
    BY <2>1, <2>2
       DEF TypeInv, LocalTypeOK, Submit, RequestCancel, TakeChecks,
           TakeFetches, ResultExpires, clientVars
<1> QED
  BY <1>1, <1>2, <1>3
     DEF TypeInv, LocalTypeOK, workerVars, budget, HeldIsJob, Holding

\* A loop that moves on with nothing in hand.
LEMMA MovesOn ==
    ASSUME LocalTypeOK, HeldIsJob, NEW l \in Loops, NextRound(l) \/ Exit(l)
    PROVE  /\ pc' \in [Loops -> PCs]
           /\ held' \in [Loops -> Holds]
           /\ HeldIsJob'
<1>1. NoHold \in Holds
  BY DEF NoHold, Holds
<1>2. PICK where \in {"polling", "exited"} :
        /\ pc' = [pc EXCEPT ![l] = where]
        /\ held' = [held EXCEPT ![l] = NoHold]
  BY DEF NextRound, Exit
<1>3. where \in PCs
  BY DEF PCs
<1> QED
  BY <1>1, <1>2, <1>3 DEF LocalTypeOK, HeldIsJob, Holding

\* A loop that keeps the job it has in hand.
LEMMA Keeps ==
    ASSUME LocalTypeOK, HeldIsJob, NEW l \in Loops, Holding(l),
           NEW label \in PCs, Goto(l, label)
    PROVE  /\ pc' \in [Loops -> PCs]
           /\ held' \in [Loops -> Holds]
           /\ HeldIsJob'
BY DEF LocalTypeOK, HeldIsJob, Holding, Goto

\* A loop that writes an outcome into the job it has in hand.
LEMMA Marks ==
    ASSUME LocalTypeOK, HeldIsJob, NEW l \in Loops, Holding(l),
           NEW label \in PCs, NEW status \in Statuses,
           pc' = [pc EXCEPT ![l] = label],
           held' = [held EXCEPT ![l].status = status]
    PROVE  /\ pc' \in [Loops -> PCs]
           /\ held' \in [Loops -> Holds]
           /\ HeldIsJob'
<1>1. [held[l] EXCEPT !.status = status] \in Holds
  BY DEF LocalTypeOK, Holds
<1>2. [held[l] EXCEPT !.status = status].id = held[l].id
  BY DEF LocalTypeOK, Holds
<1> QED
  BY <1>1, <1>2 DEF LocalTypeOK, HeldIsJob, Holding

\* A call that raises is counted.
LEMMA FaultType ==
    ASSUME LocalTypeOK, Fault
    PROVE  faults' \in 0..MaxFaults /\ stalls' \in 0..MaxStalls
BY ConstantsAssumption DEF LocalTypeOK, Fault

\* Backend.claim.
LEMMA ClaimTypes ==
    ASSUME TypeInv, NEW l \in Loops, ClaimStep(l)
    PROVE  TypeInv'
<1> DEFINE w == Owner(l)
           j == held[l].id
<1>0. w \in Workers /\ RedisTypeOK /\ LocalTypeOK /\ HeldIsJob
  BY OwnerIsWorker DEF TypeInv
<1> HIDE DEF w
<1>1. CASE Lease(l)
  <2>1. RedisTypeOK' /\ Head(queue) \in Jobs
    BY <1>0, <1>1, BlmoveType DEF Lease, w
  <2>2. [held[l] EXCEPT !.id = Head(queue)] \in Holds
    BY <1>0, <2>1 DEF LocalTypeOK, Holds
  <2>3. [held[l] EXCEPT !.id = Head(queue)].id \in Jobs
    BY <1>0, <2>1 DEF LocalTypeOK, Holds
  <2>4. "leased" \in PCs
    BY DEF PCs
  <2> QED
    BY <1>0, <1>1, <2>1, <2>2, <2>3, <2>4
       DEF Lease, TypeInv, LocalTypeOK, HeldIsJob, Holding, clientVars, budget
<1>2. CASE LeaseReplyLost(l)
  <2>1. RedisTypeOK'
    BY <1>0, <1>2, BlmoveType DEF LeaseReplyLost, w
  <2> QED
    BY <1>0, <1>2, <2>1, MovesOn, FaultType
       DEF LeaseReplyLost, TypeInv, LocalTypeOK, clientVars
<1>3. CASE LeaseTimesOut(l)
  BY <1>0, <1>3, MovesOn
     DEF LeaseTimesOut, TypeInv, LocalTypeOK, RedisTypeOK, redisVars,
         clientVars, budget
<1>4. CASE Claim(l)
  <2>1. j \in Jobs /\ Holding(l)
    BY <1>0, <1>4 DEF Claim, HeldIsJob, Holding
  <2>2. RedisTypeOK'
    BY <1>0, <1>4, <2>1, RecordScriptsType DEF Claim
  <2>3. CASE /\ Goto(l, "discarding") \/ NextRound(l)
             /\ UNCHANGED body
    <3>1. "discarding" \in PCs
      BY DEF PCs
    <3> QED
      BY <1>0, <1>4, <2>1, <2>2, <2>3, <3>1, Keeps, MovesOn
         DEF Claim, TypeInv, LocalTypeOK, clientVars, budget
  <2>4. ASSUME NEW outcome \in {"cancelled", "failed", "running"},
               /\ held' = [held EXCEPT ![l] =
                              [id |-> j, status |-> outcome,
                               attempts |-> jobs[j].attempts + 1,
                               request_cancel |-> jobs[j].request_cancel]]
               /\ pc' = [pc EXCEPT ![l] =
                            IF outcome = "running" THEN "running"
                                                   ELSE "resaving"]
               /\ body' = [body EXCEPT ![l] = outcome = "running"]
        PROVE  TypeInv'
    <3>1. jobs[j].attempts + 1 \in Nat /\ jobs[j].request_cancel \in BOOLEAN
      BY <1>0, <2>1 DEF RedisTypeOK, Records
    <3>2. [id |-> j, status |-> outcome, attempts |-> jobs[j].attempts + 1,
           request_cancel |-> jobs[j].request_cancel] \in Holds
      BY <2>1, <3>1 DEF Holds, Statuses, Terminal
    <3>3. "running" \in PCs /\ "resaving" \in PCs
      BY DEF PCs
    <3>4. pc' \in [Loops -> PCs] /\ body' \in [Loops -> BOOLEAN]
      BY <1>0, <2>4, <3>3 DEF LocalTypeOK
    <3>5. held' \in [Loops -> Holds] /\ HeldIsJob'
      BY <1>0, <2>1, <2>4, <3>2 DEF LocalTypeOK, HeldIsJob, Holding
    <3> QED
      BY <1>0, <1>4, <2>2, <3>4, <3>5
         DEF Claim, TypeInv, LocalTypeOK, clientVars, budget
  <2> QED
    BY <1>4, <2>3, <2>4 DEF Claim
<1>5. CASE ClaimFails(l)
  <2>1. j \in Jobs /\ Holding(l)
    BY <1>0, <1>5 DEF ClaimFails, HeldIsJob, Holding
  <2>2. RedisTypeOK'
    BY <1>0, <1>5, <2>1, RecordScriptsType
       DEF ClaimFails, redisVars, RedisTypeOK
  <2>3. "returning" \in PCs
    BY DEF PCs
  <2> QED
    BY <1>0, <1>5, <2>1, <2>2, <2>3, Keeps, FaultType
       DEF ClaimFails, TypeInv, LocalTypeOK, clientVars
<1>6. CASE Return(l) \/ Discard(l)
  <2>1. j \in Jobs
    BY <1>0, <1>6 DEF Return, Discard, HeldIsJob, Holding
  <2>2. RedisTypeOK'
    BY <1>0, <1>6, <2>1, CleanUpType
       DEF Return, Discard, redisVars, RedisTypeOK, w
  <2>3. faults' \in 0..MaxFaults /\ stalls' \in 0..MaxStalls
    BY <1>0, <1>6, FaultType DEF Return, Discard, budget, LocalTypeOK
  <2> QED
    BY <1>0, <1>6, <2>2, <2>3, MovesOn
       DEF Return, Discard, TypeInv, LocalTypeOK, clientVars
<1> QED
  BY <1>1, <1>2, <1>3, <1>4, <1>5, <1>6 DEF ClaimStep

\* A save called by a loop that has a job in hand.
LEMMA CallSaveType ==
    ASSUME TypeInv, NEW l \in Loops, Holding(l), CallSave(l)
    PROVE  RedisTypeOK'
<1>1. held[l] \in Holds /\ held[l].id \in Jobs /\ Owner(l) \in Workers
  BY OwnerIsWorker DEF TypeInv, LocalTypeOK, HeldIsJob
<1>2. /\ held[l].status \in Statuses \cup {"absent"}
      /\ held[l].attempts \in Nat
      /\ held[l].request_cancel \in BOOLEAN
  BY <1>1 DEF Holds
<1> QED
  BY <1>1, <1>2, SaveType DEF CallSave, TypeInv

\* Leaving _run, by a return or by an exception.
LEMMA LeavesRun ==
    ASSUME LocalTypeOK, HeldIsJob, NEW l \in Loops, Holding(l),
           LeaveRun(l) \/ SaveRaises(l)
    PROVE  /\ pc' \in [Loops -> PCs]
           /\ held' \in [Loops -> Holds]
           /\ HeldIsJob'
<1>1. "unwinding" \in PCs /\ "resaving" \in PCs
  BY DEF PCs
<1>2. "failed" \in Statuses
  BY DEF Statuses, Terminal
<1>3. CASE LeaveRun(l)
  BY <1>1, <1>3, Keeps, MovesOn DEF LeaveRun
<1>4. CASE SaveRaises(l) /\ ~LeaveRun(l)
  BY <1>1, <1>2, <1>4, Marks DEF SaveRaises
<1> QED
  BY <1>3, <1>4

\* Worker._run.
LEMMA RunTypes ==
    ASSUME TypeInv, NEW l \in Loops, RunStep(l)
    PROVE  TypeInv'
<1>0. Owner(l) \in Workers /\ RedisTypeOK /\ LocalTypeOK /\ HeldIsJob
  BY OwnerIsWorker DEF TypeInv
<1>1. Holding(l)
  BY DEF RunStep, BodyEnds, BodyEscapes, BodyMayEnd, CancelSeen, WatcherFails,
         Save, SaveFails, Unwinds, Holding
<1>2. "saving" \in PCs /\ "resaving" \in PCs /\ "releasing" \in PCs
      /\ "unwatched" \in PCs
  BY DEF PCs
<1>3. Terminal \subseteq Statuses
      /\ \A s \in {"completed", "failed", "cancelled"} : s \in Terminal
  BY DEF Statuses, Terminal
<1>4. CASE BodyEnds(l)
  <2>1. pc' \in [Loops -> PCs] /\ held' \in [Loops -> Holds] /\ HeldIsJob'
    BY <1>0, <1>1, <1>2, <1>3, <1>4, Marks DEF BodyEnds
  <2> QED
    BY <1>0, <1>4, <2>1
       DEF BodyEnds, TypeInv, LocalTypeOK, RedisTypeOK, redisVars, clientVars,
           budget
<1>5. CASE BodyEscapes(l)
  BY <1>0, <1>1, <1>2, <1>5, Keeps
     DEF BodyEscapes, TypeInv, LocalTypeOK, RedisTypeOK, redisVars, clientVars,
         budget
<1>6. CASE CancelSeen(l)
  <2>1. pc' \in [Loops -> PCs] /\ held' \in [Loops -> Holds] /\ HeldIsJob'
    BY <1>0, <1>1, <1>2, <1>3, <1>6, Marks DEF CancelSeen
  <2> QED
    BY <1>0, <1>6, <2>1
       DEF CancelSeen, TypeInv, LocalTypeOK, RedisTypeOK, redisVars,
           clientVars, budget
<1>7. CASE WatcherFails(l)
  <2>1. faults' \in 0..MaxFaults /\ stalls' \in 0..MaxStalls
    BY <1>0, <1>7, FaultType DEF WatcherFails, budget, LocalTypeOK
  <2> QED
    BY <1>0, <1>1, <1>2, <1>7, <2>1, Keeps
       DEF WatcherFails, TypeInv, LocalTypeOK, RedisTypeOK, redisVars,
           clientVars
<1>8. CASE Save(l) \/ SaveFails(l)
  <2>1. RedisTypeOK'
    BY <1>0, <1>1, <1>8, CallSaveType
       DEF Save, SaveFails, RedisTypeOK, redisVars
  <2>2. faults' \in 0..MaxFaults /\ stalls' \in 0..MaxStalls
    BY <1>0, <1>8, FaultType DEF Save, SaveFails, budget, LocalTypeOK
  <2>3. pc' \in [Loops -> PCs] /\ held' \in [Loops -> Holds] /\ HeldIsJob'
    BY <1>0, <1>1, <1>8, LeavesRun DEF Save, SaveFails
  <2> QED
    BY <1>0, <1>8, <2>1, <2>2, <2>3
       DEF Save, SaveFails, TypeInv, LocalTypeOK, clientVars
<1>9. CASE Unwinds(l)
  BY <1>0, <1>9, MovesOn
     DEF Unwinds, TypeInv, LocalTypeOK, RedisTypeOK, redisVars, clientVars,
         budget
<1> QED
  BY <1>4, <1>5, <1>6, <1>7, <1>8, <1>9 DEF RunStep

\* Cancellation of a loop.
LEMMA ShutdownTypes ==
    ASSUME TypeInv, NEW l \in Loops, ShutdownStep(l)
    PROVE  TypeInv'
<1> DEFINE j == held[l].id
<1>0. Owner(l) \in Workers /\ RedisTypeOK /\ LocalTypeOK /\ HeldIsJob
  BY OwnerIsWorker DEF TypeInv
<1>1. "aborting" \in PCs /\ "releasing" \in PCs /\ "detached" \in PCs
  BY DEF PCs
<1>2. CASE InterruptClaim(l)
  <2>1. RedisTypeOK'
    <3>1. CASE pc[l] = "polling"
      BY <1>0, <1>2, <3>1, BlmoveType
         DEF InterruptClaim, redisVars, RedisTypeOK
    <3>2. CASE pc[l] # "polling"
      <4>1. j \in Jobs
        BY <1>0, <1>2, <3>2 DEF InterruptClaim, HeldIsJob, Holding
      <4> QED
        BY <1>0, <1>2, <3>2, <4>1, RecordScriptsType, CleanUpType
           DEF InterruptClaim, redisVars, RedisTypeOK
    <3> QED
      BY <3>1, <3>2
  <2> QED
    BY <1>0, <1>2, <2>1, MovesOn
       DEF InterruptClaim, TypeInv, LocalTypeOK, clientVars, budget
<1>3. CASE InterruptProcess(l)
  <2>1. Holding(l)
    BY <1>3 DEF InterruptProcess, Holding
  <2>2. RedisTypeOK'
    BY <1>0, <1>3, <2>1, CallSaveType
       DEF InterruptProcess, redisVars, RedisTypeOK
  <2> QED
    BY <1>0, <1>1, <1>3, <2>1, <2>2, Keeps
       DEF InterruptProcess, TypeInv, LocalTypeOK, clientVars, budget
<1>4. CASE BodyAborts(l)
  <2>1. Holding(l)
    BY <1>4 DEF BodyAborts, Holding
  <2> QED
    BY <1>0, <1>1, <1>4, <2>1, Keeps
       DEF BodyAborts, TypeInv, LocalTypeOK, RedisTypeOK, redisVars,
           clientVars, budget
<1>5. CASE Release(l)
  <2>1. j \in Jobs
    BY <1>0, <1>5 DEF Release, HeldIsJob, Holding
  <2>2. RedisTypeOK'
    BY <1>0, <1>5, <2>1, ReleaseType DEF Release
  <2> QED
    BY <1>0, <1>5, <2>2, MovesOn
       DEF Release, TypeInv, LocalTypeOK, clientVars, budget
<1>6. CASE ReleaseFails(l)
  BY <1>0, <1>6, MovesOn, FaultType
     DEF ReleaseFails, TypeInv, LocalTypeOK, RedisTypeOK, redisVars, clientVars
<1>7. CASE InterruptRelease(l)
  <2>1. Holding(l)
    BY <1>7 DEF InterruptRelease, Holding
  <2> QED
    BY <1>0, <1>1, <1>7, <2>1, Keeps
       DEF InterruptRelease, TypeInv, LocalTypeOK, RedisTypeOK, redisVars,
           clientVars, budget
<1>8. CASE DetachedReleaseDies(l)
  BY <1>0, <1>8, MovesOn
     DEF DetachedReleaseDies, TypeInv, LocalTypeOK, RedisTypeOK, redisVars,
         clientVars, budget
<1> QED
  BY <1>2, <1>3, <1>4, <1>5, <1>6, <1>7, <1>8 DEF ShutdownStep

\* The life of a pool.
LEMMA PoolTypes ==
    ASSUME TypeInv, NEW w \in Workers, PoolStep(w)
    PROVE  TypeInv'
<1>0. RedisTypeOK /\ LocalTypeOK /\ HeldIsJob
  BY DEF TypeInv
<1>1. /\ "polling" \in PCs /\ "exited" \in PCs
      /\ {"up", "draining", "closing", "stopped", "crashed"} \subseteq Phases
  BY DEF PCs, Phases
<1>2. NoHold \in Holds
  BY DEF NoHold, Holds
<1>3. CASE Start(w) \/ StartFails(w)
  <2>1. RedisTypeOK'
    BY <1>0, <1>3, BeatScriptsType
       DEF Start, StartFails, RedisTypeOK, redisVars
  <2>2. faults' \in 0..MaxFaults /\ stalls' \in 0..MaxStalls
    BY <1>0, <1>3, FaultType DEF Start, StartFails, budget, LocalTypeOK
  <2>3. /\ pc' \in [Loops -> PCs] /\ held' = held /\ HeldIsJob'
    BY <1>0, <1>1, <1>3
       DEF Start, StartFails, LocalTypeOK, HeldIsJob, Holding
  <2>4. /\ phase' \in [Workers -> Phases]
        /\ upkeep' \in [Workers -> {"off", "beat", "reap"}]
    BY <1>0, <1>1, <1>3 DEF Start, StartFails, LocalTypeOK
  <2> QED
    BY <1>0, <1>3, <2>1, <2>2, <2>3, <2>4
       DEF Start, StartFails, TypeInv, LocalTypeOK, clientVars
<1>4. CASE Heartbeat(w) \/ Reap(w) \/ UpkeepFails(w)
  <2>1. RedisTypeOK'
    BY <1>0, <1>4, BeatScriptsType, ReaperType
       DEF Heartbeat, Reap, UpkeepFails, RedisTypeOK, redisVars
  <2>2. faults' \in 0..MaxFaults /\ stalls' \in 0..MaxStalls
    BY <1>0, <1>4, FaultType
       DEF Heartbeat, Reap, UpkeepFails, budget, LocalTypeOK
  <2> QED
    BY <1>0, <1>4, <2>1, <2>2
       DEF Heartbeat, Reap, UpkeepFails, TypeInv, LocalTypeOK, clientVars,
           HeldIsJob, Holding
<1>5. CASE Drain(w) \/ Close(w)
  BY <1>0, <1>1, <1>5
     DEF Drain, Close, TypeInv, LocalTypeOK, RedisTypeOK, redisVars,
         clientVars, budget, HeldIsJob, Holding
<1>6. CASE Stop(w)
  <2>1. RedisTypeOK'
    BY <1>0, <1>6, BeatScriptsType DEF Stop, RedisTypeOK, redisVars
  <2>2. faults' \in 0..MaxFaults /\ stalls' \in 0..MaxStalls
    BY <1>0, <1>6, FaultType DEF Stop, budget, LocalTypeOK
  <2> QED
    BY <1>0, <1>1, <1>6, <2>1, <2>2
       DEF Stop, TypeInv, LocalTypeOK, clientVars, HeldIsJob, Holding
<1>7. CASE Crash(w)
  <2>1. /\ pc' \in [Loops -> PCs] /\ held' \in [Loops -> Holds]
        /\ body' \in [Loops -> BOOLEAN]
    BY <1>0, <1>1, <1>2, <1>7 DEF Crash, LocalTypeOK
  <2>2. HeldIsJob'
    BY <1>0, <1>7 DEF Crash, HeldIsJob, Holding
  <2> QED
    BY <1>0, <1>1, <1>7, <2>1, <2>2
       DEF Crash, TypeInv, LocalTypeOK, RedisTypeOK, redisVars, clientVars,
           budget
<1>8. CASE BeatExpires(w)
  <2>1. RedisTypeOK'
    BY <1>0, <1>8, BeatScriptsType DEF BeatExpires
  <2>2. faults' \in 0..MaxFaults /\ stalls' \in 0..MaxStalls
    BY <1>0, <1>8, ConstantsAssumption DEF BeatExpires, budget, LocalTypeOK
  <2> QED
    BY <1>0, <1>8, <2>1, <2>2
       DEF BeatExpires, TypeInv, LocalTypeOK, clientVars, HeldIsJob, Holding
<1> QED
  BY <1>3, <1>4, <1>5, <1>6, <1>7, <1>8 DEF PoolStep

-----------------------------------------------------------------------------
\* No step of the system leaves the types.
LEMMA TypeInvStep ==
    ASSUME TypeInv, [Next]_vars
    PROVE  TypeInv'
<1>1. CASE UNCHANGED vars
  BY <1>1 DEF vars, redisVars, clientVars, workerVars, budget, TypeInv,
              RedisTypeOK, LocalTypeOK, HeldIsJob, Holding
<1>2. CASE Next
  BY <1>2, ClaimTypes, RunTypes, ShutdownTypes, PoolTypes, ClientTypes
     DEF Next
<1> QED
  BY <1>1, <1>2

\* Every reachable state of the queue is well typed: the keyspace, the clients
\* and the pools of worker.py, with faults, crashes, stalls and resubmissions.
THEOREM TypeCorrect == Spec => []TypeOK
<1>1. Init => TypeInv
  BY TypeInvInit
<1>2. TypeInv /\ [Next]_vars => TypeInv'
  BY TypeInvStep
<1>3. TypeInv => TypeOK
  BY DEF TypeInv, RedisTypeOK, LocalTypeOK, TypeOK
<1> QED
  BY <1>1, <1>2, <1>3, PTL DEF Spec
=============================================================================
