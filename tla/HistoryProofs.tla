--------------------------- MODULE HistoryProofs ---------------------------
(***************************************************************************)
(* What can happen to one job.  RecordStep lists the ways in which any     *)
(* step of the system can touch its record, PlaceStep the ways in which    *)
(* its id can move; from the two follow the action properties of module    *)
(* TaskQueue, that no queued id and no lease is lost, and that the queue   *)
(* implements JobLife.                                                     *)
(***************************************************************************)
EXTENDS LeaseProofs, LifeRefinement

\* The claim script, the save of a loop, release and reaper, request_cancel, and
\* the end of a record: taken or expired.
Claimed(j) ==
    /\ \E l \in Loops : pc[l] = "leased" /\ held[l].id = j
    /\ Exists(j)
    /\ jobs'[j].status = "running"
    /\ jobs'[j].attempts = jobs[j].attempts + 1
    /\ jobs'[j].request_cancel = jobs[j].request_cancel

Saved(j) ==
    \E l \in Loops :
        /\ pc[l] \in {"saving", "resaving"} /\ held[l].id = j
        /\ Exists(j)
        /\ jobs'[j].status = held[l].status
        /\ jobs'[j].attempts = held[l].attempts

Requeued(j) ==
    /\ jobs[j].status = "running"
    /\ jobs'[j].status = "queued"
    /\ jobs'[j].attempts = jobs[j].attempts
    /\ jobs'[j].request_cancel = jobs[j].request_cancel

Flagged(j) ==
    /\ Exists(j) /\ ~IsTerminal(j)
    /\ jobs'[j].status = jobs[j].status
    /\ jobs'[j].attempts = jobs[j].attempts
    /\ jobs'[j].request_cancel

Removed(j) ==
    /\ result[j] = "ready" \/ jobs[j].expires
    /\ jobs'[j] = NoRecord

RecordStep(j) ==
    \/ jobs'[j] = jobs[j]
    \/ Submit(j) /\ ~Exists(j) /\ jobs'[j] = NewRecord
    \/ Claimed(j)
    \/ Saved(j)
    \/ Requeued(j)
    \/ Flagged(j)
    \/ Removed(j)

-----------------------------------------------------------------------------
\* What the claim script does to the records.
LEMMA ClaimRecords ==
    ASSUME TypeInv, NEW l \in Loops, pc[l] = "leased",
           ClaimScript(held[l].id), NEW j \in Jobs
    PROVE  RecordStep(j)
<1>1. PICK i \in Jobs : i = held[l].id
  BY DEF TypeInv, HeldIsJob, Holding
<1>2. jobs[i] \in Records /\ RedisTypeOK
  BY DEF TypeInv, RedisTypeOK
<1>3. CASE j = i /\ Exists(i)
  <2>1. /\ jobs'[j].status = "running"
        /\ jobs'[j].attempts = jobs[j].attempts + 1
        /\ jobs'[j].request_cancel = jobs[j].request_cancel
    BY <1>1, <1>2, <1>3 DEF ClaimScript, RedisTypeOK, Records
  <2> QED
    BY <1>1, <1>3, <2>1 DEF RecordStep, Claimed
<1>4. CASE ~(j = i /\ Exists(i))
  BY <1>1, <1>2, <1>4 DEF ClaimScript, RedisTypeOK, RecordStep
<1> QED
  BY <1>3, <1>4

\* What the save of a loop does to the records.
LEMMA SaveRecords ==
    ASSUME TypeInv, NEW l \in Loops, pc[l] \in {"saving", "resaving"},
           CallSave(l), NEW j \in Jobs
    PROVE  RecordStep(j)
<1>1. PICK i \in Jobs : i = held[l].id
  BY DEF TypeInv, HeldIsJob, Holding
<1>2. CASE j = i /\ Exists(i)
  <2>1. /\ jobs'[j].status = held[l].status
        /\ jobs'[j].attempts = held[l].attempts
    BY <1>1, <1>2 DEF CallSave, SaveScript, TypeInv, RedisTypeOK
  <2> QED
    BY <1>1, <1>2, <2>1 DEF RecordStep, Saved
<1>3. CASE ~(j = i /\ Exists(i))
  BY <1>1, <1>3 DEF CallSave, SaveScript, TypeInv, RedisTypeOK, RecordStep
<1> QED
  BY <1>2, <1>3

\* What release does to the records.
LEMMA ReleaseRecords ==
    ASSUME TypeInv, NEW w \in Workers, NEW i \in Jobs, ReleaseScript(w, i),
           NEW j \in Jobs
    PROVE  RecordStep(j)
<1>1. jobs[i] \in Records
  BY DEF TypeInv, RedisTypeOK
<1>2. CASE j = i /\ jobs[i].status = "running"
  BY <1>1, <1>2
     DEF ReleaseScript, TypeInv, RedisTypeOK, Records, RecordStep, Requeued
<1>3. CASE ~(j = i /\ jobs[i].status = "running")
  BY <1>3 DEF ReleaseScript, TypeInv, RedisTypeOK, RecordStep, redisVars
<1> QED
  BY <1>2, <1>3

\* What the reaper does to the records.
LEMMA ReaperRecords ==
    ASSUME TypeInv, ReaperScript, NEW j \in Jobs
    PROVE  RecordStep(j)
<1>1. jobs[j] \in Records
  BY DEF TypeInv, RedisTypeOK
<1>2. \/ jobs'[j] = jobs[j]
      \/ /\ jobs[j].status = "running"
         /\ jobs'[j] = [jobs[j] EXCEPT !.status = "queued"]
  BY DEF ReaperScript
<1> QED
  BY <1>1, <1>2 DEF RecordStep, Requeued, Records

\* No step touches a record in any other way.
LEMMA RecordSteps ==
    ASSUME TypeInv, [Next]_vars, NEW j \in Jobs
    PROVE  RecordStep(j)
<1>0. RedisTypeOK /\ HeldIsJob
  BY DEF TypeInv
<1>1. CASE UNCHANGED jobs
  BY <1>1 DEF RecordStep
<1>2. ASSUME NEW l \in Loops, ClaimStep(l)
      PROVE  RecordStep(j)
  <2>1. jobs' = jobs \/ (pc[l] = "leased" /\ ClaimScript(held[l].id))
    BY <1>2 DEF ClaimStep, Lease, LeaseReplyLost, LeaseTimesOut, Claim,
                ClaimFails, Return, Discard, Blmove, ReturnLease,
                DiscardLease, redisVars
  <2> QED
    BY <1>1, <2>1, ClaimRecords
<1>3. ASSUME NEW l \in Loops, RunStep(l)
      PROVE  RecordStep(j)
  <2>1. jobs' = jobs \/ (pc[l] \in {"saving", "resaving"} /\ CallSave(l))
    BY <1>3 DEF RunStep, BodyEnds, BodyEscapes, CancelSeen, WatcherFails,
                Save, SaveFails, Unwinds, redisVars
  <2> QED
    BY <1>1, <2>1, SaveRecords
<1>4. ASSUME NEW l \in Loops, ShutdownStep(l)
      PROVE  RecordStep(j)
  <2>1. \/ jobs' = jobs
        \/ pc[l] = "leased" /\ ClaimScript(held[l].id)
        \/ pc[l] \in {"saving", "resaving"} /\ CallSave(l)
        \/ Release(l)
    BY <1>4 DEF ShutdownStep, InterruptClaim, InterruptProcess, BodyAborts,
                ReleaseFails, InterruptRelease, DetachedReleaseDies, Blmove,
                ReturnLease, DiscardLease, redisVars
  <2>2. ASSUME Release(l)
        PROVE  RecordStep(j)
    <3>1. held[l].id \in Jobs /\ Owner(l) \in Workers
      BY <1>0, <2>2, OwnerIsWorker DEF Release, HeldIsJob, Holding
    <3> QED
      BY <2>2, <3>1, ReleaseRecords DEF Release
  <2> QED
    BY <1>1, <2>1, <2>2, ClaimRecords, SaveRecords
<1>5. ASSUME NEW w \in Workers, PoolStep(w)
      PROVE  RecordStep(j)
  <2>1. jobs' = jobs \/ ReaperScript
    BY <1>5 DEF PoolStep, Start, StartFails, Heartbeat, Reap, UpkeepFails,
                Drain, Close, Stop, Crash, BeatExpires, HeartbeatScript,
                DeregisterScript, ExpireBeat, redisVars
  <2> QED
    BY <1>1, <2>1, ReaperRecords
<1>6. ASSUME NEW i \in Jobs,
             \/ Submit(i) \/ RequestCancel(i) \/ TakeChecks(i)
             \/ TakeFetches(i) \/ ResultExpires(i)
      PROVE  RecordStep(j)
  <2>1. jobs[j] \in Records
    BY <1>0 DEF RedisTypeOK
  <2>2. CASE RequestCancel(i)
    <3>1. CASE j = i /\ Exists(i) /\ ~IsTerminal(i)
      BY <1>0, <2>1, <2>2, <3>1
         DEF RequestCancel, RequestCancelScript, RedisTypeOK, Records,
             RecordStep, Flagged
    <3>2. CASE ~(j = i /\ Exists(i) /\ ~IsTerminal(i))
      BY <1>0, <2>2, <3>2
         DEF RequestCancel, RequestCancelScript, RedisTypeOK, RecordStep
    <3> QED
      BY <3>1, <3>2
  <2>3. CASE ~RequestCancel(i)
    BY <1>0, <1>6, <2>3
       DEF Submit, TakeChecks, TakeFetches, ResultExpires, EnqueueScript,
           ExpireRecord, DeleteRecord, redisVars, RedisTypeOK, RecordStep,
           Removed
  <2> QED
    BY <2>2, <2>3
<1> QED
  BY <1>1, <1>2, <1>3, <1>4, <1>5, <1>6 DEF Next, vars, redisVars

-----------------------------------------------------------------------------
\* What a save is about to write is a final status, and an id without a record
\* has left nothing behind.
FinalSaves ==
    /\ \A l \in Loops :
        pc[l] \in {"saving", "resaving"} => held[l].status \in Terminal
    /\ \A j \in Jobs : ~Exists(j) => jobs[j] = NoRecord

\* A loop comes to a save with a final status only.
LEMMA FinalSavesStep ==
    ASSUME TypeInv, FinalSaves, [Next]_vars
    PROVE  FinalSaves'
<1>0. LocalTypeOK /\ HeldIsJob
  BY DEF TypeInv
<1>1. ASSUME NEW j \in Jobs
      PROVE  ~Exists(j)' => jobs'[j] = NoRecord
  <2>1. RecordStep(j)
    BY RecordSteps
  <2>2. Saved(j) => Exists(j)'
    BY DEF Saved, FinalSaves, Exists, Terminal
  <2> QED
    BY <2>1, <2>2 DEF RecordStep, Claimed, Requeued, Flagged, Removed,
                      Exists, FinalSaves, NewRecord, NoRecord
<1>2. ASSUME NEW k \in Loops, pc'[k] \in {"saving", "resaving"}
      PROVE  held'[k].status \in Terminal
  <2>0. held[k] \in Holds
    BY <1>0 DEF LocalTypeOK
  <2>1. CASE UNCHANGED <<pc, held>>
    BY <1>2, <2>1 DEF FinalSaves
  <2>2. ASSUME NEW l \in Loops, ClaimStep(l)
        PROVE  held'[k].status \in Terminal
    <3>1. CASE k # l \/ ~Claim(l)
      BY <1>0, <1>2, <2>2, <3>1
         DEF ClaimStep, Lease, LeaseReplyLost, LeaseTimesOut, Claim,
             ClaimFails, Return, Discard, NextRound, Exit, Goto, LocalTypeOK,
             FinalSaves
    <3>2. CASE k = l /\ Claim(l)
      BY <1>0, <1>2, <3>2
         DEF Claim, NextRound, Goto, LocalTypeOK, FinalSaves, Terminal
    <3> QED
      BY <3>1, <3>2
  <2>3. ASSUME NEW l \in Loops, RunStep(l)
        PROVE  held'[k].status \in Terminal
    <3>1. CASE k # l
      BY <1>0, <1>2, <2>3, <3>1
         DEF RunStep, BodyEnds, BodyEscapes, CancelSeen, WatcherFails, Save,
             SaveFails, SaveRaises, LeaveRun, Unwinds, NextRound, Goto,
             LocalTypeOK, FinalSaves
    <3>2. CASE k = l
      BY <1>0, <1>2, <2>0, <2>3, <3>2
         DEF RunStep, BodyEnds, BodyEscapes, CancelSeen, WatcherFails, Save,
             SaveFails, SaveRaises, LeaveRun, Unwinds, NextRound, Goto,
             LocalTypeOK, FinalSaves, Holds, Terminal
    <3> QED
      BY <3>1, <3>2
  <2>4. ASSUME NEW l \in Loops, ShutdownStep(l)
        PROVE  held'[k].status \in Terminal
    BY <1>0, <1>2, <2>4
       DEF ShutdownStep, InterruptClaim, InterruptProcess, BodyAborts,
           Release, ReleaseFails, InterruptRelease, DetachedReleaseDies,
           Exit, Goto, LocalTypeOK, FinalSaves
  <2>5. ASSUME NEW w \in Workers, PoolStep(w)
        PROVE  held'[k].status \in Terminal
    BY <1>0, <1>2, <2>5
       DEF PoolStep, Start, StartFails, Heartbeat, Reap, UpkeepFails, Drain,
           Close, Stop, Crash, BeatExpires, LocalTypeOK, FinalSaves
  <2> QED
    BY <2>1, <2>2, <2>3, <2>4, <2>5 DEF Next, vars, workerVars
<1> QED
  BY <1>1, <1>2 DEF FinalSaves

\* It holds of the empty keyspace.
LEMMA FinalSavesInit == Init => FinalSaves
BY DEF Init, RedisInit, WorkerInit, FinalSaves

\* A cancel request is never undone by a claim, a release or the reaper: the
\* flag stays until the job is finished, also when pools stall past their time
\* to live and when ids are submitted again.
THEOREM CancelsAreDurable == Spec => CancelIsDurable
<1> DEFINE Durable(j) ==
      jobs[j].request_cancel /\ jobs'[j].status \in {"queued", "running"}
          => jobs'[j].request_cancel
<1>1. Init => TypeInv /\ FinalSaves
  BY TypeInvInit, FinalSavesInit
<1>2. TypeInv /\ FinalSaves /\ [Next]_vars => (TypeInv /\ FinalSaves)'
  BY TypeInvStep, FinalSavesStep
<1>3. ASSUME TypeInv, FinalSaves, [Next]_vars, NEW j \in Jobs
      PROVE  Durable(j)
  <2>1. RecordStep(j)
    BY <1>3, RecordSteps
  <2>2. Saved(j) => jobs'[j].status \in Terminal
    BY <1>3 DEF Saved, FinalSaves
  <2>3. ~Exists(j) => ~jobs[j].request_cancel
    BY <1>3 DEF FinalSaves, NoRecord
  <2>4. jobs[j].request_cancel \in BOOLEAN /\ jobs'[j].request_cancel \in BOOLEAN
    BY <1>3, TypeInvStep DEF TypeInv, RedisTypeOK, Records
  <2>5. jobs'[j] = NoRecord => jobs'[j].status = "absent"
    BY DEF NoRecord
  <2>6. CASE Saved(j)
    BY <2>2, <2>6 DEF Terminal
  <2>7. CASE Claimed(j) \/ Requeued(j) \/ Flagged(j) \/ jobs'[j] = jobs[j]
    BY <2>4, <2>7 DEF Claimed, Requeued, Flagged
  <2> QED
    BY <2>1, <2>3, <2>5, <2>6, <2>7 DEF RecordStep, Removed
<1>4. TypeInv /\ FinalSaves /\ [Next]_vars
        => [\A j \in Jobs : Durable(j)]_vars
  BY <1>3
<1> QED
  BY <1>1, <1>2, <1>4, PTL DEF Spec, CancelIsDurable

-----------------------------------------------------------------------------
\* With leases in force a claim meets an unfinished job, and a save the record
\* of the very attempt it belongs to.
LEMMA OrderlySteps ==
    ASSUME TypeInv, FinalSaves, LeaseInv, [Next]_vars, NEW j \in Jobs
    PROVE  /\ IsTerminal(j) => IsTerminal(j)' \/ ~Exists(j)'
           /\ Exists(j)' => jobs'[j].attempts >= jobs[j].attempts
<1>1. RecordStep(j) /\ jobs[j].attempts \in Nat
  BY RecordSteps DEF TypeInv, RedisTypeOK, Records
<1>2. CASE Claimed(j)
  <2>1. PICK l \in Loops : pc[l] = "leased" /\ held[l].id = j
    BY <1>2 DEF Claimed
  <2>2. Live(j)
    BY <2>1, ClaimingFacts
  <2> QED
    BY <1>1, <1>2, <2>2 DEF Claimed, Live, IsTerminal, Terminal
<1>3. CASE Saved(j)
  <2>1. PICK l \in Loops :
          /\ pc[l] \in {"saving", "resaving"} /\ held[l].id = j
          /\ Exists(j)
          /\ jobs'[j].status = held[l].status
          /\ jobs'[j].attempts = held[l].attempts
    BY <1>3 DEF Saved
  <2>2. held[l].status \in Terminal /\ held[l].attempts = jobs[j].attempts
    BY <2>1 DEF FinalSaves, LeaseInv, LoopInv, CopyCurrent
  <2> QED
    BY <1>1, <2>1, <2>2 DEF IsTerminal
<1>4. CASE Requeued(j) \/ Flagged(j) \/ jobs'[j] = jobs[j]
  BY <1>1, <1>4 DEF Requeued, Flagged, IsTerminal, Terminal
<1>5. CASE ~Exists(j) /\ jobs'[j] = NewRecord
  BY <1>5 DEF FinalSaves, NewRecord, NoRecord, IsTerminal, Exists, Terminal
<1>6. CASE jobs'[j] = NoRecord
  BY <1>6 DEF NoRecord, Exists
<1> QED
  BY <1>1, <1>2, <1>3, <1>4, <1>5, <1>6 DEF RecordStep, Removed

\* A finished job is never brought back to life, by no claim, release or reap.
THEOREM TerminalsAreFinal ==
    ASSUME Stallable = {}, Derived = {}
    PROVE  Spec => TerminalIsFinal
<1> DEFINE Inv == TypeInv /\ FinalSaves /\ LeaseInv
           Final == \A j \in Jobs :
                      IsTerminal(j) => IsTerminal(j)' \/ ~Exists(j)'
<1>1. Init => Inv
  BY TypeInvInit, FinalSavesInit, LeaseInvInit
<1>2. Inv /\ [Next]_vars => Inv'
  BY TypeInvStep, FinalSavesStep, LeaseInvStep
<1>3. Inv /\ [Next]_vars => [Final]_vars
  BY OrderlySteps
<1> QED
  BY <1>1, <1>2, <1>3, PTL DEF Spec, TerminalIsFinal

\* The attempts of a record never go back, so that no save of an earlier
\* attempt overwrites a later one.
THEOREM AttemptsAreMonotone ==
    ASSUME Stallable = {}, Derived = {}
    PROVE  Spec => AttemptsGrow
<1> DEFINE Inv == TypeInv /\ FinalSaves /\ LeaseInv
           Grows == \A j \in Jobs :
                      Exists(j)' => jobs'[j].attempts >= jobs[j].attempts
<1>1. Init => Inv
  BY TypeInvInit, FinalSavesInit, LeaseInvInit
<1>2. Inv /\ [Next]_vars => Inv'
  BY TypeInvStep, FinalSavesStep, LeaseInvStep
<1>3. Inv /\ [Next]_vars => [Grows]_vars
  BY OrderlySteps
<1> QED
  BY <1>1, <1>2, <1>3, PTL DEF Spec, AttemptsGrow

-----------------------------------------------------------------------------
(* Where the scripts leave the ids, whatever the lists look like.          *)

\* BLMOVE loses no id: the one it takes off the queue is on the pool's list.
LEMMA BlmovePlaces ==
    ASSUME RedisTypeOK, NEW w \in Workers, Blmove(w)
    PROVE  /\ \A j \in Jobs : Listed(j)' <=> Listed(j)
           /\ Head(queue) \in Jobs /\ Listed(Head(queue))
<1>1. queue \in Seq(Jobs) /\ queue # <<>> /\ processing[w] \in Seq(Jobs)
  BY DEF RedisTypeOK, Blmove
<1>2. PICK h \in Jobs : h = Head(queue)
  BY <1>1, TailRange
<1>3. Range(queue) = Range(queue') \cup {h}
  BY <1>1, <1>2, TailKeeps DEF Blmove
<1>4. Range(processing'[w]) = Range(processing[w]) \cup {h}
  BY <1>1, <1>2, AppendRange DEF Blmove, RedisTypeOK
<1>5. \A u \in Workers \ {w} : processing'[u] = processing[u]
  BY DEF Blmove, RedisTypeOK
<1> QED
  BY <1>2, <1>3, <1>4, <1>5 DEF Listed, Leased

\* LREM from one list, with or without the RPUSH on the queue.
LEMMA DropPlaces ==
    ASSUME RedisTypeOK, NEW w \in Workers, NEW i \in Jobs,
           processing' = [processing EXCEPT ![w] = RemoveFirst(@, i)],
           queue' = queue \/ queue' = Append(queue, i)
    PROVE  /\ \A j \in Jobs \ {i} : Listed(j)' <=> Listed(j)
           /\ queue' = queue => (Listed(i)' => Listed(i))
           /\ queue' = Append(queue, i) => Listed(i)'
<1>1. queue \in Seq(Jobs) /\ processing[w] \in Seq(Jobs)
  BY DEF RedisTypeOK
<1>2. /\ Range(processing'[w]) \subseteq Range(processing[w])
      /\ Range(processing[w]) \ {i} \subseteq Range(processing'[w])
  BY <1>1, RemoveFirstKeeps DEF RedisTypeOK
<1>3. \A u \in Workers \ {w} : processing'[u] = processing[u]
  BY DEF RedisTypeOK
<1>4. Range(Append(queue, i)) = Range(queue) \cup {i}
  BY <1>1, AppendRange
<1> QED
  BY <1>2, <1>3, <1>4 DEF Listed, Leased

\* The reaper drops only ids without a record, and requeues what it calls QUEUED.
LEMMA ReaperPlaces ==
    ASSUME RedisTypeOK, ReaperScript, NEW j \in Jobs
    PROVE  /\ Listed(j) /\ Exists(j) => Listed(j)'
           /\ Listed(j)' => Listed(j)
           /\ jobs'[j].status = "queued" =>
                jobs[j].status = "queued" \/ Listed(j)'
           /\ ~Exists(j) => ~Exists(j)'
<1> DEFINE moved(order) == [k \in DOMAIN order |->
                              processing[order[k][1]][order[k][2]]]
<1>1. PICK order \in SetToSeqs(ReapedSlots) :
        /\ queue' = queue \o moved(order)
        /\ jobs' = [i \in Jobs |->
              IF i \in Range(moved(order)) /\ jobs[i].status = "running"
                THEN [jobs[i] EXCEPT !.status = "queued"]
                ELSE jobs[i]]
        /\ processing' = [w \in Workers |->
              IF w \in Expired THEN <<>> ELSE processing[w]]
  BY DEF ReaperScript
<1> DEFINE m == moved(order)
<1>2. m \in Seq(Jobs)
  BY MovedType
<1>3. /\ \A k \in DOMAIN order : order[k] \in ReapedSlots
      /\ \A x \in ReapedSlots : \E k \in DOMAIN order : order[k] = x
  BY ReapedSlotsFinite, SetToSeqsRange
<1>4. DOMAIN m = DOMAIN order
      /\ \A k \in DOMAIN order : m[k] = processing[order[k][1]][order[k][2]]
  OBVIOUS
<1> HIDE DEF m, moved
<1>5. Range(queue') = Range(queue) \cup Range(m)
  BY <1>1, <1>2, ConcatRange DEF RedisTypeOK, m
<1>6. ASSUME NEW x \in Range(m)
      PROVE  \E w \in Workers : x \in Leased(w)
  <2>1. PICK k \in DOMAIN order : x = m[k]
    BY <1>4 DEF Range
  <2>2. order[k][1] \in Workers /\ order[k][2] \in DOMAIN processing[order[k][1]]
    BY <1>3, ReapedSlotsFinite DEF Expired
  <2> QED
    BY <1>4, <2>1, <2>2 DEF Leased, Range
<1>7. ASSUME NEW w \in Expired, j \in Leased(w), Exists(j)
      PROVE  j \in Range(m)
  <2>1. PICK i \in DOMAIN processing[w] : j = processing[w][i]
    BY <1>7 DEF Leased, Range
  <2>2. <<w, i>> \in ReapedSlots
    BY <1>7, <2>1, ReapedSlotsFinite DEF Expired
  <2>3. PICK k \in DOMAIN order : order[k] = <<w, i>>
    BY <1>3, <2>2
  <2>4. m[k] = j
    BY <1>4, <2>1, <2>3
  <2> QED
    BY <1>4, <2>4 DEF Range
<1>8. \A w \in Workers : IF w \in Expired THEN Range(processing'[w]) = {}
                                          ELSE processing'[w] = processing[w]
  BY <1>1 DEF Range
<1>9. /\ Listed(j) /\ Exists(j) => Listed(j)'
      /\ Listed(j)' => Listed(j)
  BY <1>5, <1>6, <1>7, <1>8 DEF Listed, Leased
<1>10. \/ jobs'[j] = jobs[j]
       \/ /\ jobs[j].status = "running" /\ j \in Range(m)
          /\ jobs'[j] = [jobs[j] EXCEPT !.status = "queued"]
  BY <1>1 DEF m
<1>11. jobs'[j].status = "queued" => jobs[j].status = "queued" \/ Listed(j)'
  BY <1>5, <1>10 DEF Listed
<1>12. ~Exists(j) => ~Exists(j)'
  BY <1>10 DEF Exists
<1> QED
  BY <1>9, <1>11, <1>12

-----------------------------------------------------------------------------
\* An id that is on a list or in a loop's hands was submitted.
Submitted ==
    \A j \in Jobs : spawns[j] = 0 =>
        ~Listed(j) /\ \A l \in Loops : Holding(l) => held[l].id # j

\* A claim that found no record discards an id that still has none.
DiscardsGone ==
    \A l \in Loops : pc[l] = "discarding" => ~Exists(held[l].id)

\* The invariant behind QueuedIsListed.
PlaceInv ==
    /\ TypeInv
    /\ FinalSaves
    /\ Submitted
    /\ DiscardsGone
    /\ QueuedIsListed

\* What a step may do with the place of a job.
PlaceStep(j) ==
    /\ jobs'[j].status = "queued" => Listed(j)'
    /\ Listed(j)' =>
        \/ Listed(j)
        \/ Submit(j)
        \/ \E l \in Loops : Holding(l) /\ held[l].id = j

\* A step that moves no id and queues no job.
LEMMA ListsStay ==
    ASSUME QueuedIsListed, NEW j \in Jobs, UNCHANGED <<queue, processing>>,
           jobs'[j].status = "queued" => jobs[j].status = "queued"
    PROVE  PlaceStep(j)
BY DEF QueuedIsListed, PlaceStep, Listed, Leased

\* The claim of a loop first moves the id.
LEMMA BlmovePlace ==
    ASSUME RedisTypeOK, QueuedIsListed, NEW j \in Jobs,
           NEW w \in Workers, Blmove(w)
    PROVE  PlaceStep(j)
<1>1. Listed(j)' <=> Listed(j)
  BY BlmovePlaces
<1> QED
  BY <1>1 DEF QueuedIsListed, PlaceStep, Blmove, Listed, Leased

\* The claim script leaves the lists alone.
LEMMA ClaimPlace ==
    ASSUME RedisTypeOK, QueuedIsListed, NEW j \in Jobs,
           NEW i \in Jobs, ClaimScript(i)
    PROVE  PlaceStep(j)
<1>1. jobs[i] \in Records
  BY DEF RedisTypeOK
<1>2. jobs'[j].status = "queued" => jobs[j].status = "queued"
  BY <1>1 DEF ClaimScript, RedisTypeOK, Records
<1> QED
  BY <1>2, ListsStay DEF ClaimScript

\* An interrupted claim puts its id back on the queue.
LEMMA ReturnPlace ==
    ASSUME RedisTypeOK, QueuedIsListed, NEW j \in Jobs, NEW l \in Loops,
           Holding(l), held[l].id \in Jobs,
           ReturnLease(Owner(l), held[l].id)
    PROVE  PlaceStep(j)
<1>1. PICK i \in Jobs, w \in Workers : i = held[l].id /\ w = Owner(l)
  BY OwnerIsWorker
<1>2. /\ processing' = [processing EXCEPT ![w] = RemoveFirst(@, i)]
      /\ queue' = Append(queue, i) /\ jobs' = jobs
  BY <1>1 DEF ReturnLease
<1>3. (\A k \in Jobs \ {i} : Listed(k)' <=> Listed(k)) /\ Listed(i)'
  BY <1>2, DropPlaces
<1> QED
  BY <1>1, <1>2, <1>3 DEF QueuedIsListed, PlaceStep, Listed, Leased

\* A claim without a record drops an id that no record calls QUEUED.
LEMMA DiscardPlace ==
    ASSUME RedisTypeOK, QueuedIsListed, NEW j \in Jobs, NEW w \in Workers,
           NEW i \in Jobs, ~Exists(i), DiscardLease(w, i)
    PROVE  PlaceStep(j)
<1>1. /\ processing' = [processing EXCEPT ![w] = RemoveFirst(@, i)]
      /\ queue' = queue /\ jobs' = jobs
  BY DEF DiscardLease
<1>2. (\A k \in Jobs \ {i} : Listed(k)' <=> Listed(k)) /\ (Listed(i)' => Listed(i))
  BY <1>1, DropPlaces
<1> QED
  BY <1>1, <1>2 DEF QueuedIsListed, PlaceStep, Listed, Leased, Exists

\* A save drops the id, and settles the record if there is one.
LEMMA SavePlace ==
    ASSUME RedisTypeOK, QueuedIsListed, NEW j \in Jobs, NEW l \in Loops,
           held[l].id \in Jobs, held[l].status \in Terminal, CallSave(l)
    PROVE  PlaceStep(j)
<1>1. PICK i \in Jobs, w \in Workers : i = held[l].id /\ w = Owner(l)
  BY OwnerIsWorker
<1>2. CASE Exists(i)
  <2>1. /\ processing' = [processing EXCEPT ![w] = RemoveFirst(@, i)]
        /\ queue' = queue
        /\ jobs'[i].status = held[l].status
        /\ \A k \in Jobs \ {i} : jobs'[k] = jobs[k]
    BY <1>1, <1>2 DEF CallSave, SaveScript, RedisTypeOK
  <2>2. (\A k \in Jobs \ {i} : Listed(k)' <=> Listed(k)) /\ (Listed(i)' => Listed(i))
    BY <2>1, DropPlaces
  <2> QED
    BY <2>1, <2>2 DEF QueuedIsListed, PlaceStep, Listed, Leased, Terminal
<1>3. CASE ~Exists(i)
  BY <1>1, <1>3, ListsStay DEF CallSave, SaveScript
<1> QED
  BY <1>2, <1>3

\* A release moves the id of a RUNNING job to the queue.
LEMMA ReleasePlace ==
    ASSUME RedisTypeOK, QueuedIsListed, NEW j \in Jobs, NEW l \in Loops,
           Holding(l), held[l].id \in Jobs,
           ReleaseScript(Owner(l), held[l].id)
    PROVE  PlaceStep(j)
<1>1. PICK i \in Jobs, w \in Workers : i = held[l].id /\ w = Owner(l)
  BY OwnerIsWorker
<1>2. CASE jobs[i].status = "running"
  <2>1. /\ processing' = [processing EXCEPT ![w] = RemoveFirst(@, i)]
        /\ queue' = Append(queue, i)
        /\ \A k \in Jobs \ {i} : jobs'[k] = jobs[k]
    BY <1>1, <1>2 DEF ReleaseScript, RedisTypeOK
  <2>2. (\A k \in Jobs \ {i} : Listed(k)' <=> Listed(k)) /\ Listed(i)'
    BY <2>1, DropPlaces
  <2> QED
    BY <1>1, <2>1, <2>2 DEF QueuedIsListed, PlaceStep, Listed, Leased
<1>3. CASE jobs[i].status # "running"
  BY <1>1, <1>3, ListsStay DEF ReleaseScript, redisVars
<1> QED
  BY <1>2, <1>3

\* The reaper, see ReaperPlaces.
LEMMA ReaperPlace ==
    ASSUME RedisTypeOK, QueuedIsListed, NEW j \in Jobs, ReaperScript
    PROVE  PlaceStep(j)
<1>1. jobs[j].status = "queued" => Listed(j) /\ Exists(j)
  BY DEF QueuedIsListed, Listed, Exists
<1> QED
  BY <1>1, ReaperPlaces DEF PlaceStep

\* What clients and expiry do: only a submission adds an id.
LEMMA ClientPlace ==
    ASSUME RedisTypeOK, QueuedIsListed, NEW j \in Jobs, NEW i \in Jobs,
           \/ Submit(i) \/ RequestCancel(i) \/ TakeChecks(i)
           \/ TakeFetches(i) \/ ResultExpires(i)
    PROVE  PlaceStep(j)
<1>1. jobs[i] \in Records /\ queue \in Seq(Jobs)
  BY DEF RedisTypeOK
<1>2. CASE Submit(i)
  <2>1. CASE EnqueueScript(i)
    <3>1. /\ Range(queue') = Range(queue) \cup {i}
          /\ processing' = processing
          /\ \A k \in Jobs \ {i} : jobs'[k] = jobs[k]
      BY <1>1, <2>1, AppendRange DEF EnqueueScript, RedisTypeOK
    <3> QED
      BY <1>2, <3>1 DEF QueuedIsListed, PlaceStep, Listed, Leased
  <2>2. CASE UNCHANGED redisVars
    BY <2>2, ListsStay DEF redisVars
  <2> QED
    BY <1>2, <2>1, <2>2 DEF Submit
<1>3. CASE RequestCancel(i)
  <2>1. jobs'[j].status = "queued" => jobs[j].status = "queued"
    BY <1>1, <1>3 DEF RequestCancel, RequestCancelScript, RedisTypeOK, Records
  <2> QED
    BY <1>3, <2>1, ListsStay DEF RequestCancel, RequestCancelScript
<1>4. CASE TakeChecks(i)
  BY <1>4, ListsStay DEF TakeChecks, redisVars
<1>5. CASE TakeFetches(i) \/ ResultExpires(i)
  <2>1. DeleteRecord(i)
    BY <1>5 DEF TakeFetches, ResultExpires, ExpireRecord
  <2>2. jobs'[j].status = "queued" => jobs[j].status = "queued"
    BY <2>1 DEF DeleteRecord, RedisTypeOK, NoRecord
  <2> QED
    BY <2>1, <2>2, ListsStay DEF DeleteRecord
<1> QED
  BY <1>2, <1>3, <1>4, <1>5

\* The place of a job, over every step.
LEMMA PlaceSteps ==
    ASSUME PlaceInv, [Next]_vars, NEW j \in Jobs
    PROVE  PlaceStep(j)
<1>0. RedisTypeOK /\ HeldIsJob /\ QueuedIsListed
  BY DEF PlaceInv, TypeInv
<1>1. ASSUME UNCHANGED <<jobs, queue, processing>>
      PROVE  PlaceStep(j)
  BY <1>0, <1>1, ListsStay
<1>2. ASSUME NEW l \in Loops, Holding(l)
      PROVE  held[l].id \in Jobs /\ Owner(l) \in Workers
  BY <1>0, <1>2, OwnerIsWorker DEF HeldIsJob
<1>3. ASSUME NEW l \in Loops, pc[l] = "discarding"
      PROVE  Holding(l) /\ ~Exists(held[l].id)
  BY <1>3 DEF PlaceInv, DiscardsGone, Holding
<1>4. ASSUME NEW l \in Loops, ClaimStep(l)
      PROVE  PlaceStep(j)
  <2>1. \/ UNCHANGED <<jobs, queue, processing>>
        \/ Blmove(Owner(l))
        \/ pc[l] = "leased" /\ ClaimScript(held[l].id)
        \/ pc[l] = "returning" /\ ReturnLease(Owner(l), held[l].id)
        \/ pc[l] = "discarding" /\ DiscardLease(Owner(l), held[l].id)
    BY <1>4 DEF ClaimStep, Lease, LeaseReplyLost, LeaseTimesOut, Claim,
                ClaimFails, Return, Discard, redisVars
  <2>2. pc[l] \in {"leased", "returning"} => Holding(l)
    BY DEF Holding
  <2> QED
    BY <1>0, <1>1, <1>2, <1>3, <2>1, <2>2, OwnerIsWorker, BlmovePlace,
       ClaimPlace, ReturnPlace, DiscardPlace
<1>5. ASSUME NEW l \in Loops, RunStep(l)
      PROVE  PlaceStep(j)
  <2>1. \/ UNCHANGED <<jobs, queue, processing>>
        \/ pc[l] \in {"saving", "resaving"} /\ CallSave(l)
    BY <1>5 DEF RunStep, BodyEnds, BodyEscapes, CancelSeen, WatcherFails,
                Save, SaveFails, Unwinds, redisVars
  <2>2. pc[l] \in {"saving", "resaving"} => Holding(l) /\ held[l].status \in Terminal
    BY DEF Holding, PlaceInv, FinalSaves
  <2> QED
    BY <1>0, <1>1, <1>2, <2>1, <2>2, SavePlace
<1>6. ASSUME NEW l \in Loops, ShutdownStep(l)
      PROVE  PlaceStep(j)
  <2>1. \/ UNCHANGED <<jobs, queue, processing>>
        \/ Blmove(Owner(l))
        \/ pc[l] = "leased" /\ ClaimScript(held[l].id)
        \/ pc[l] = "returning" /\ ReturnLease(Owner(l), held[l].id)
        \/ pc[l] = "discarding" /\ DiscardLease(Owner(l), held[l].id)
        \/ pc[l] \in {"saving", "resaving"} /\ CallSave(l)
        \/ /\ pc[l] \in {"releasing", "detached"}
           /\ ReleaseScript(Owner(l), held[l].id)
    BY <1>6 DEF ShutdownStep, InterruptClaim, InterruptProcess, BodyAborts,
                Release, ReleaseFails, InterruptRelease, DetachedReleaseDies,
                redisVars
  <2>2. /\ pc[l] \in {"leased", "returning", "releasing", "detached"} => Holding(l)
        /\ pc[l] \in {"saving", "resaving"} => Holding(l) /\ held[l].status \in Terminal
    BY DEF Holding, PlaceInv, FinalSaves
  <2> QED
    BY <1>0, <1>1, <1>2, <1>3, <2>1, <2>2, OwnerIsWorker, BlmovePlace,
       ClaimPlace, ReturnPlace, DiscardPlace, SavePlace, ReleasePlace
<1>7. ASSUME NEW w \in Workers, PoolStep(w)
      PROVE  PlaceStep(j)
  <2>1. UNCHANGED <<jobs, queue, processing>> \/ ReaperScript
    BY <1>7 DEF PoolStep, Start, StartFails, Heartbeat, Reap, UpkeepFails,
                Drain, Close, Stop, Crash, BeatExpires, HeartbeatScript,
                DeregisterScript, ExpireBeat, redisVars
  <2> QED
    BY <1>0, <1>1, <2>1, ReaperPlace
<1>8. ASSUME NEW i \in Jobs,
             \/ Submit(i) \/ RequestCancel(i) \/ TakeChecks(i)
             \/ TakeFetches(i) \/ ResultExpires(i)
      PROVE  PlaceStep(j)
  BY <1>0, <1>8, ClientPlace
<1> QED
  BY <1>1, <1>4, <1>5, <1>6, <1>7, <1>8 DEF Next, vars, redisVars

\* A loop takes what it works on from the queue, and comes to discard an id
\* when it has no record.
LEMMA HoldSteps ==
    ASSUME TypeInv, [Next]_vars, NEW k \in Loops
    PROVE  /\ Holding(k)' =>
                \/ Holding(k) /\ held'[k].id = held[k].id
                \/ held'[k].id \in Jobs /\ Listed(held'[k].id)
           /\ pc'[k] = "discarding" =>
                \/ pc[k] = "discarding" /\ held'[k] = held[k]
                \/ /\ Holding(k) /\ held'[k] = held[k]
                   /\ ~Exists(held[k].id) /\ jobs' = jobs
<1>0. RedisTypeOK /\ LocalTypeOK /\ held[k] \in Holds
  BY DEF TypeInv, LocalTypeOK
<1>1. CASE UNCHANGED <<pc, held>>
  BY <1>1 DEF Holding
<1>2. ASSUME NEW l \in Loops, Lease(l)
      PROVE  /\ pc'[k] # "discarding" \/ (pc'[k] = pc[k] /\ held'[k] = held[k])
             /\ Holding(k)' =>
                  \/ Holding(k) /\ held'[k].id = held[k].id
                  \/ held'[k].id \in Jobs /\ Listed(held'[k].id)
  <2>1. Head(queue) \in Jobs /\ Listed(Head(queue))
    BY <1>0, <1>2, OwnerIsWorker, BlmovePlaces DEF Lease
  <2>2. CASE k = l
    <3>1. held'[k].id = Head(queue) /\ pc'[k] = "leased"
      BY <1>0, <1>2, <2>2 DEF Lease, LocalTypeOK, Holds
    <3> QED
      BY <2>1, <3>1
  <2>3. CASE k # l
    BY <1>0, <1>2, <2>3 DEF Lease, LocalTypeOK, Holding
  <2> QED
    BY <2>2, <2>3
<1>3. ASSUME NEW l \in Loops, Claim(l)
      PROVE  /\ Holding(k)' => Holding(k) /\ held'[k].id = held[k].id
             /\ pc'[k] = "discarding" =>
                  \/ pc[k] = "discarding" /\ held'[k] = held[k]
                  \/ /\ Holding(k) /\ held'[k] = held[k]
                     /\ ~Exists(held[k].id) /\ jobs' = jobs
  <2>1. CASE k = l
    BY <1>0, <1>3, <2>1
       DEF Claim, ClaimScript, NextRound, Goto, LocalTypeOK, Holding
  <2>2. CASE k # l
    BY <1>0, <1>3, <2>2 DEF Claim, NextRound, Goto, LocalTypeOK, Holding
  <2> QED
    BY <2>1, <2>2
<1>4. ASSUME NEW l \in Loops, ClaimStep(l), ~Lease(l), ~Claim(l)
      PROVE  /\ Holding(k)' => Holding(k) /\ held'[k].id = held[k].id
             /\ pc'[k] # "discarding" \/ (pc'[k] = pc[k] /\ held'[k] = held[k])
  BY <1>0, <1>4 DEF ClaimStep, LeaseReplyLost, LeaseTimesOut, ClaimFails,
        Return, Discard, NextRound, Exit, Goto, LocalTypeOK, Holding
<1>5. ASSUME NEW l \in Loops, RunStep(l)
      PROVE  /\ Holding(k)' => Holding(k) /\ held'[k].id = held[k].id
             /\ pc'[k] # "discarding" \/ (pc'[k] = pc[k] /\ held'[k] = held[k])
  <2>1. CASE k = l
    BY <1>0, <1>5, <2>1
       DEF RunStep, BodyEnds, BodyEscapes, BodyMayEnd, CancelSeen,
           WatcherFails, Save, SaveFails, SaveRaises, LeaveRun, Unwinds,
           NextRound, Goto, LocalTypeOK, Holding, Holds
  <2>2. CASE k # l
    BY <1>0, <1>5, <2>2
       DEF RunStep, BodyEnds, BodyEscapes, CancelSeen, WatcherFails, Save,
           SaveFails, SaveRaises, LeaveRun, Unwinds, NextRound, Goto,
           LocalTypeOK, Holding
  <2> QED
    BY <2>1, <2>2
<1>6. ASSUME NEW l \in Loops, ShutdownStep(l)
      PROVE  /\ Holding(k)' => Holding(k) /\ held'[k].id = held[k].id
             /\ pc'[k] # "discarding" \/ (pc'[k] = pc[k] /\ held'[k] = held[k])
  BY <1>0, <1>6
     DEF ShutdownStep, InterruptClaim, InterruptProcess, BodyAborts,
         Release, ReleaseFails, InterruptRelease, DetachedReleaseDies,
         Exit, Goto, LocalTypeOK, Holding
<1>7. ASSUME NEW w \in Workers, PoolStep(w)
      PROVE  /\ Holding(k)' => Holding(k) /\ held'[k].id = held[k].id
             /\ pc'[k] # "discarding" \/ (pc'[k] = pc[k] /\ held'[k] = held[k])
  BY <1>0, <1>7
     DEF PoolStep, Start, StartFails, Heartbeat, Reap, UpkeepFails, Drain,
         Close, Stop, Crash, BeatExpires, LocalTypeOK, Holding
<1> QED
  BY <1>1, <1>2, <1>3, <1>4, <1>5, <1>6, <1>7 DEF Next, vars, workerVars

\* A submission is counted, and no count goes back.
LEMMA SpawnSteps ==
    ASSUME TypeInv, [Next]_vars, NEW j \in Jobs
    PROVE  /\ spawns'[j] >= spawns[j]
           /\ Submit(j) => spawns'[j] # 0
           /\ Submit(j) /\ Derived = {} => spawns[j] = 0
<1>1. spawns \in [Jobs -> Nat]
  BY DEF TypeInv, LocalTypeOK
<1>2. CASE UNCHANGED spawns
  BY <1>1, <1>2 DEF Submit
<1>3. ASSUME NEW i \in Jobs, Submit(i)
      PROVE  /\ spawns'[j] >= spawns[j]
             /\ Submit(j) => spawns'[j] # 0
  BY <1>1, <1>3 DEF Submit
<1>4. Submit(j) /\ Derived = {} => spawns[j] = 0
  BY <1>1 DEF Submit
<1>5. ASSUME ~UNCHANGED spawns
      PROVE  \E i \in Jobs : Submit(i)
  BY <1>5 DEF Next, vars, clientVars, ClaimStep, Lease, LeaseReplyLost,
        LeaseTimesOut, Claim, ClaimFails, Return, Discard, RunStep, BodyEnds,
        BodyEscapes, CancelSeen, WatcherFails, Save, SaveFails, Unwinds,
        ShutdownStep, InterruptClaim, InterruptProcess, BodyAborts, Release,
        ReleaseFails, InterruptRelease, DetachedReleaseDies, PoolStep, Start,
        StartFails, Heartbeat, Reap, UpkeepFails, Drain, Close, Stop, Crash,
        BeatExpires, RequestCancel, TakeChecks, TakeFetches, ResultExpires
<1> QED
  BY <1>2, <1>3, <1>4, <1>5

\* Every step keeps the invariant.
LEMMA PlaceInvStep ==
    ASSUME PlaceInv, [Next]_vars, Derived = {}
    PROVE  PlaceInv'
<1>0. TypeInv /\ FinalSaves /\ spawns \in [Jobs -> Nat]
  BY DEF PlaceInv, TypeInv, LocalTypeOK
<1>1. TypeInv' /\ FinalSaves'
  BY <1>0, TypeInvStep, FinalSavesStep
<1>2. QueuedIsListed'
  BY PlaceSteps DEF QueuedIsListed, PlaceStep, Listed
<1>3. ASSUME NEW j \in Jobs, spawns'[j] = 0
      PROVE  /\ ~Listed(j)'
             /\ \A k \in Loops : Holding(k)' => held'[k].id # j
  <2>1. spawns[j] = 0 /\ ~Submit(j)
    BY <1>0, <1>3, SpawnSteps
  <2>2. ~Listed(j) /\ \A l \in Loops : Holding(l) => held[l].id # j
    BY <2>1 DEF PlaceInv, Submitted
  <2>3. ~Listed(j)'
    BY <2>1, <2>2, PlaceSteps DEF PlaceStep
  <2>4. \A k \in Loops : Holding(k)' => held'[k].id # j
    BY <1>0, <2>2, HoldSteps
  <2> QED
    BY <2>3, <2>4
<1>4. ASSUME NEW k \in Loops, pc'[k] = "discarding"
      PROVE  jobs'[held'[k].id].status = "absent"
  <2>1. Holding(k) /\ held'[k] = held[k] /\ ~Exists(held[k].id)
    BY <1>0, <1>4, HoldSteps DEF PlaceInv, DiscardsGone, Holding
  <2>2. PICK j \in Jobs : j = held[k].id
    BY <1>0, <2>1 DEF TypeInv, HeldIsJob
  <2>3. ~Submit(j)
    BY <1>0, <2>1, <2>2, SpawnSteps DEF PlaceInv, Submitted
  <2>4. RecordStep(j)
    BY <1>0, RecordSteps
  <2>5. ~Exists(j)'
    BY <2>1, <2>2, <2>3, <2>4
       DEF RecordStep, Claimed, Saved, Requeued, Flagged, Removed, Exists,
           NoRecord
  <2> QED
    BY <2>1, <2>2, <2>5 DEF Exists
<1>5. DiscardsGone'
  BY <1>4 DEF DiscardsGone, Exists
<1>6. Submitted'
  BY <1>3 DEF Submitted
<1> QED
  BY <1>1, <1>2, <1>5, <1>6 DEF PlaceInv

\* It holds at the start, where nothing is on any list.
LEMMA PlaceInvInit == Init => PlaceInv
<1> SUFFICES ASSUME Init PROVE PlaceInv
  OBVIOUS
<1>1. TypeInv /\ FinalSaves
  BY TypeInvInit, FinalSavesInit
<1>2. \A j \in Jobs : ~Listed(j)
  BY DEF Init, RedisInit, Listed, Leased, Range
<1>3. \A l \in Loops : ~Holding(l) /\ pc[l] # "discarding"
  BY DEF Init, WorkerInit, Holding
<1>4. \A j \in Jobs : jobs[j].status # "queued"
  BY DEF Init, RedisInit, NoRecord
<1> QED
  BY <1>1, <1>2, <1>3, <1>4
     DEF PlaceInv, Submitted, DiscardsGone, QueuedIsListed

\* A job that its record calls QUEUED can be found, although pools may stall
\* past worker_ttl and go on with leases they have lost, die, shut down, and
\* have their calls fail: every LREM of save, release, claim's two clean-ups
\* and the reaper has settled the record or put the id elsewhere.  The ids are
\* submitted once.
THEOREM QueuedJobsAreListed ==
    ASSUME Derived = {}
    PROVE  Spec => []QueuedIsListed
<1>1. Init => PlaceInv
  BY PlaceInvInit
<1>2. PlaceInv /\ [Next]_vars => PlaceInv'
  BY PlaceInvStep
<1>3. PlaceInv => QueuedIsListed
  BY DEF PlaceInv
<1> QED
  BY <1>1, <1>2, <1>3, PTL DEF Spec

-----------------------------------------------------------------------------
(* Who attends to a lease.                                                 *)

\* The property, kept as long as no call has failed, of the jobs that can be
\* decoded.
Attended ==
    faults = 0 =>
        \A w \in Workers : phase[w] \in {"up", "draining"} =>
            \A j \in Leased(w) \ Poison :
                \E l \in LoopsOf(w) : Holding(l) /\ held[l].id = j

\* A pool that was not entered has no leases and no loops, and a loop that
\* waits for a cancelled body has saved its job, if no call has failed.
AttendInv ==
    /\ LeaseInv
    /\ Attended
    /\ \A w \in Workers : phase[w] = "new" => Leased(w) = {}
    /\ \A l \in Loops : phase[Owner(l)] = "new" => pc[l] = "idle"
    /\ faults = 0 =>
        \A l \in Loops : pc[l] = "unwinding" => Settled(held[l].id)

\* A settled job in a loop's hands stays settled.
LEMMA SettledStays ==
    ASSUME LeaseInv, [Next]_vars, Derived = {}, NEW l \in Loops, Holding(l),
           Settled(held[l].id)
    PROVE  jobs'[held[l].id].status \notin {"queued", "running"}
<1>1. PICK j \in Jobs : j = held[l].id
  BY DEF LeaseInv, HeldIsJob
<1>2. TypeInv /\ RecordStep(j)
  BY LeaseInvTypes, RecordSteps
<1>3. ~Submit(j)
  BY <1>1, <1>2, SpawnSteps DEF LeaseInv, LoopInv, LoopPlaced
<1>4. ~Claimed(j)
  BY <1>1, ClaimingFacts DEF Claimed, Settled
<1>5. Saved(j) => jobs'[j].status \in Terminal
  BY DEF Saved, LeaseInv, LoopInv, CopyCurrent
<1>6. jobs'[j].status \notin {"queued", "running"}
  BY <1>1, <1>2, <1>3, <1>4, <1>5
     DEF RecordStep, Requeued, Flagged, Removed, Settled, Live, NoRecord,
         Terminal
<1> QED
  BY <1>1, <1>6

\* The last save of a loop that fails no call settles its job.
LEMMA SaveSettles ==
    ASSUME LeaseInv, NEW l \in Loops, Save(l),
           ~(pc'[l] = "resaving" /\ held'[l].id = held[l].id)
    PROVE  jobs'[held[l].id].status \notin {"queued", "running"}
<1>1. PICK j \in Jobs : j = held[l].id
  BY RunningFacts DEF Save
<1>2. RedisTypeOK /\ LocalTypeOK
  BY LeaseInvTypes
<1>3. held[l].status \in Terminal
  BY DEF Save, LeaseInv, LoopInv, CopyCurrent
<1>4. CASE Exists(j)
  <2>1. jobs'[j].status = held[l].status
    BY <1>1, <1>2, <1>4 DEF Save, CallSave, SaveScript, RedisTypeOK
  <2> QED
    BY <1>1, <1>3, <2>1 DEF Terminal
<1>5. CASE ~Exists(j)
  BY <1>1, <1>5 DEF Save, CallSave, SaveScript, Exists
<1> QED
  BY <1>4, <1>5

\* A job of which a loop of a serving pool lets go is on the pool's list no
\* more.
LEMMA LetGo ==
    ASSUME AttendInv, LeaseInv', [Next]_vars, Derived = {},
           NEW l \in Loops, Holding(l), held[l].id \notin Poison,
           faults = 0, faults' = 0,
           phase'[Owner(l)] \in {"up", "draining"},
           ~(Holding(l)' /\ held'[l].id = held[l].id)
    PROVE  held[l].id \notin Leased(Owner(l))'
<1>0. LeaseInv /\ RedisTypeOK /\ LocalTypeOK /\ Owner(l) \in Workers
  BY LeaseInvTypes, OwnerIsWorker DEF AttendInv
<1>1. PICK j \in Jobs : j = held[l].id
  BY <1>0 DEF LeaseInv, HeldIsJob
<1>2. ASSUME jobs'[j].status \notin {"queued", "running"}
      PROVE  j \notin Leased(Owner(l))'
  BY <1>0, <1>2 DEF LeaseInv, JobInv, Live, Listed
<1>3. ASSUME j \in Range(queue')
      PROVE  j \notin Leased(Owner(l))'
  BY <1>0, <1>3 DEF LeaseInv, SingleLease
<1>4. ~Fault
  BY <1>0 DEF Fault, LocalTypeOK
<1>5. ASSUME NEW k \in Loops, ClaimStep(k)
      PROVE  j \notin Leased(Owner(l))'
  <2>1. k = l
    BY <1>0, <1>4, <1>5 DEF ClaimStep, Lease, LeaseReplyLost, LeaseTimesOut,
          Claim, ClaimFails, Return, Discard, NextRound, Exit, Goto,
          LocalTypeOK, Holding
  <2>2. pc[l] # "discarding"
    BY <1>0 DEF LeaseInv, LoopInv, ClaimingLoop
  <2>3. ~Claim(l)
    BY <1>0, <1>1, ClaimingFacts DEF Claim, LocalTypeOK, Holding
  <2>4. ReturnLease(Owner(l), j)
    BY <1>1, <1>4, <1>5, <2>1, <2>2, <2>3
       DEF ClaimStep, Lease, LeaseReplyLost, LeaseTimesOut, ClaimFails,
           Return, Discard, Holding
  <2>5. j \in Range(queue')
    BY <1>0, <2>4, AppendRange DEF ReturnLease, RedisTypeOK
  <2> QED
    BY <1>3, <2>5
<1>6. ASSUME NEW k \in Loops, RunStep(k)
      PROVE  j \notin Leased(Owner(l))'
  <2>1. k = l
    BY <1>0, <1>6 DEF RunStep, BodyEnds, BodyEscapes, CancelSeen,
          WatcherFails, Save, SaveFails, SaveRaises, LeaveRun, Unwinds,
          NextRound, Goto, LocalTypeOK, Holding
  <2>2. held[l] \in Holds
    BY <1>0 DEF LocalTypeOK
  <2>3. Save(l) \/ Unwinds(l)
    BY <1>0, <1>4, <1>6, <2>1, <2>2
       DEF RunStep, BodyEnds, BodyEscapes, CancelSeen, WatcherFails,
           SaveFails, Goto, LocalTypeOK, Holding, Holds
  <2>4. CASE Save(l)
    BY <1>0, <1>1, <1>2, <2>4, SaveSettles DEF Holding
  <2>5. CASE Unwinds(l)
    <3>1. Settled(j)
      BY <1>1, <2>5 DEF AttendInv, Unwinds
    <3> QED
      BY <1>2, <2>5, <3>1 DEF Unwinds, redisVars, Settled, Live
  <2> QED
    BY <2>3, <2>4, <2>5
<1>7. ASSUME NEW k \in Loops, ShutdownStep(k)
      PROVE  j \notin Leased(Owner(l))'
  <2>1. k = l
    BY <1>0, <1>7
       DEF ShutdownStep, InterruptClaim, InterruptProcess, BodyAborts,
           Release, ReleaseFails, InterruptRelease, DetachedReleaseDies,
           Exit, Goto, LocalTypeOK, Holding
  <2>2. Release(l)
    BY <1>0, <1>4, <1>7, <2>1
       DEF ShutdownStep, InterruptClaim, InterruptProcess, BodyAborts,
           ReleaseFails, InterruptRelease, DetachedReleaseDies,
           Exit, Goto, LocalTypeOK, Holding
  <2>3. CASE jobs[j].status = "running"
    <3>1. queue' = Append(queue, j) /\ queue \in Seq(Jobs)
      BY <1>0, <1>1, <2>2, <2>3 DEF Release, ReleaseScript, RedisTypeOK
    <3>2. j \in Range(queue')
      BY <3>1, AppendRange
    <3> QED
      BY <1>3, <3>2
  <2>4. CASE jobs[j].status # "running"
    <3>1. Settled(j)
      BY <1>0, <1>1, <2>2, <2>4, RunningFacts DEF Release
    <3> QED
      BY <1>1, <1>2, <2>2, <2>4, <3>1
         DEF Release, ReleaseScript, redisVars, Settled, Live
  <2> QED
    BY <2>3, <2>4
<1>8. ASSUME NEW w \in Workers, PoolStep(w)
      PROVE  FALSE
  <2>1. CASE Start(w)
    BY <1>0, <2>1 DEF Start, AttendInv, LocalTypeOK, Holding
  <2>2. CASE Crash(w)
    BY <1>0, <2>2 DEF Crash, LocalTypeOK, Holding
  <2> QED
    BY <1>8, <2>1, <2>2
       DEF PoolStep, StartFails, Heartbeat, Reap, UpkeepFails, Drain, Close,
           Stop, BeatExpires, Holding
<1>9. ~UNCHANGED <<pc, held>>
  BY DEF Holding
<1> QED
  BY <1>1, <1>5, <1>6, <1>7, <1>8, <1>9 DEF Next, vars, workerVars

\* A list grows by the BLMOVE of a loop of its pool only.
LEMMA ListGrows ==
    ASSUME LeaseInv, [Next]_vars, NEW w \in Workers, NEW j \in Leased(w)',
           j \notin Leased(w)
    PROVE  \E l \in Loops :
             /\ Owner(l) = w /\ pc[l] = "polling" /\ j = Head(queue)
             /\ Lease(l) \/ LeaseReplyLost(l) \/ InterruptClaim(l)
<1>0. RedisTypeOK /\ LocalTypeOK
  BY LeaseInvTypes
<1>1. ASSUME NEW u \in Workers, Blmove(u)
      PROVE  u = w /\ j = Head(queue)
  <2>1. queue \in Seq(Jobs) /\ queue # <<>> /\ processing[u] \in Seq(Jobs)
    BY <1>0, <1>1 DEF Blmove, RedisTypeOK
  <2>2. PICK h \in Jobs : h = Head(queue)
    BY <2>1, TailRange
  <2>3. Range(processing'[u]) = Range(processing[u]) \cup {h}
    BY <1>0, <1>1, <2>1, <2>2, AppendRange DEF Blmove, RedisTypeOK
  <2>4. \A v \in Workers \ {u} : processing'[v] = processing[v]
    BY <1>0, <1>1 DEF Blmove, RedisTypeOK
  <2> QED
    BY <2>2, <2>3, <2>4 DEF Leased
<1>2. ASSUME NEW u \in Workers, NEW i,
             processing' = [processing EXCEPT ![u] = RemoveFirst(@, i)]
      PROVE  FALSE
  <2>1. processing[u] \in Seq(Jobs)
    BY <1>0 DEF RedisTypeOK
  <2>2. Range(processing'[u]) \subseteq Range(processing[u])
    BY <1>0, <1>2, <2>1, RemoveFirstKeeps DEF RedisTypeOK
  <2>3. \A v \in Workers \ {u} : processing'[v] = processing[v]
    BY <1>0, <1>2 DEF RedisTypeOK
  <2> QED
    BY <2>2, <2>3 DEF Leased
<1>3. processing' # processing
  BY DEF Leased
<1>4. ~ReaperScript
  <2> SUFFICES ASSUME ReaperScript PROVE FALSE
    OBVIOUS
  <2>1. processing' = [u \in Workers |-> IF u \in Expired THEN <<>>
                                                        ELSE processing[u]]
    BY DEF ReaperScript
  <2> QED
    BY <2>1 DEF Leased, Range
<1>5. ASSUME NEW l \in Loops, ClaimStep(l)
      PROVE  (Lease(l) \/ LeaseReplyLost(l)) /\ Blmove(Owner(l)) /\ pc[l] = "polling"
  BY <1>2, <1>3, <1>5, OwnerIsWorker
     DEF ClaimStep, Lease, LeaseReplyLost, LeaseTimesOut, Claim, ClaimScript,
         ClaimFails, Return, ReturnLease, Discard, DiscardLease, redisVars
<1>6. ASSUME NEW l \in Loops, RunStep(l)
      PROVE  FALSE
  <2>1. CallSave(l)
    BY <1>3, <1>6 DEF RunStep, BodyEnds, BodyEscapes, CancelSeen,
          WatcherFails, Save, SaveFails, Unwinds, redisVars
  <2> QED
    BY <1>2, <1>3, <2>1, OwnerIsWorker DEF CallSave, SaveScript
<1>7. ASSUME NEW l \in Loops, ShutdownStep(l)
      PROVE  InterruptClaim(l) /\ Blmove(Owner(l)) /\ pc[l] = "polling"
  <2>1. ~CallSave(l)
    BY <1>2, <1>3, OwnerIsWorker DEF CallSave, SaveScript
  <2>2. ~ReleaseScript(Owner(l), held[l].id)
    BY <1>2, <1>3, OwnerIsWorker DEF ReleaseScript, redisVars
  <2>3. InterruptClaim(l)
    BY <1>3, <1>7, <2>1, <2>2
       DEF ShutdownStep, InterruptProcess, BodyAborts, Release, ReleaseFails,
           InterruptRelease, DetachedReleaseDies, redisVars
  <2> QED
    BY <1>2, <1>3, <2>3, OwnerIsWorker
       DEF InterruptClaim, ClaimScript, ReturnLease, DiscardLease, redisVars
<1>8. ASSUME NEW u \in Workers, PoolStep(u)
      PROVE  FALSE
  BY <1>3, <1>4, <1>8
     DEF PoolStep, Start, StartFails, Heartbeat, Reap, UpkeepFails, Drain,
         Close, Stop, Crash, BeatExpires, HeartbeatScript, DeregisterScript,
         ExpireBeat, redisVars
<1>9. ASSUME NEW i \in Jobs,
             \/ Submit(i) \/ RequestCancel(i) \/ TakeChecks(i)
             \/ TakeFetches(i) \/ ResultExpires(i)
      PROVE  FALSE
  BY <1>3, <1>9
     DEF Submit, RequestCancel, TakeChecks, TakeFetches, ResultExpires,
         EnqueueScript, RequestCancelScript, ExpireRecord, DeleteRecord,
         redisVars
<1>10. Next
  BY <1>3 DEF vars, redisVars
<1>11. PICK l \in Loops :
         /\ Lease(l) \/ LeaseReplyLost(l) \/ InterruptClaim(l)
         /\ Blmove(Owner(l)) /\ pc[l] = "polling"
  BY <1>5, <1>6, <1>7, <1>8, <1>9, <1>10 DEF Next
<1> QED
  BY <1>1, <1>11, OwnerIsWorker

\* A pool is entered once, and only a step of its own brings a pool to serve.
LEMMA PhaseSteps ==
    ASSUME LocalTypeOK, [Next]_vars, NEW w \in Workers
    PROVE  /\ phase'[w] = "new" => phase[w] = "new"
           /\ phase'[w] \in {"up", "draining"} =>
                phase[w] \in {"up", "draining"} \/ (phase[w] = "new" /\ Start(w))
<1>1. CASE UNCHANGED phase
  BY <1>1
<1>2. ASSUME NEW u \in Workers, PoolStep(u)
      PROVE  /\ phase'[w] = "new" => phase[w] = "new"
             /\ phase'[w] \in {"up", "draining"} =>
                  phase[w] \in {"up", "draining"} \/ (phase[w] = "new" /\ Start(w))
  BY <1>2
     DEF LocalTypeOK, PoolStep, Start, StartFails, Heartbeat, Reap,
         UpkeepFails, Drain, Close, Stop, Crash, BeatExpires
<1>3. ASSUME NEW l \in Loops, ClaimStep(l) \/ RunStep(l) \/ ShutdownStep(l)
      PROVE  UNCHANGED phase
  BY <1>3
     DEF ClaimStep, Lease, LeaseReplyLost, LeaseTimesOut, Claim, ClaimFails,
         Return, Discard, RunStep, BodyEnds, BodyEscapes, CancelSeen,
         WatcherFails, Save, SaveFails, Unwinds, ShutdownStep,
         InterruptClaim, InterruptProcess, BodyAborts, Release, ReleaseFails,
         InterruptRelease, DetachedReleaseDies
<1> QED
  BY <1>1, <1>2, <1>3 DEF Next, vars, workerVars

\* A loop of a pool that was not entered does not move.
LEMMA IdleStays ==
    ASSUME LocalTypeOK, [Next]_vars, NEW l \in Loops, pc[l] = "idle",
           phase'[Owner(l)] = "new"
    PROVE  pc'[l] = "idle"
<1>1. CASE UNCHANGED pc
  BY <1>1
<1>2. ASSUME NEW k \in Loops, ClaimStep(k) \/ RunStep(k) \/ ShutdownStep(k)
      PROVE  pc'[l] = "idle"
  BY <1>2
     DEF LocalTypeOK, ClaimStep, Lease, LeaseReplyLost, LeaseTimesOut, Claim,
         ClaimFails, Return, Discard, RunStep, BodyEnds, BodyEscapes,
         BodyMayEnd, CancelSeen, WatcherFails, Save, SaveFails, SaveRaises,
         LeaveRun, Unwinds, ShutdownStep, InterruptClaim, InterruptProcess,
         BodyAborts, Release, ReleaseFails, InterruptRelease,
         DetachedReleaseDies, NextRound, Exit, Goto
<1>3. ASSUME NEW w \in Workers, PoolStep(w)
      PROVE  pc'[l] = "idle"
  BY <1>3, OwnerIsWorker
     DEF LocalTypeOK, PoolStep, Start, StartFails, Heartbeat, Reap,
         UpkeepFails, Drain, Close, Stop, Crash, BeatExpires
<1> QED
  BY <1>1, <1>2, <1>3 DEF Next, vars, workerVars

\* Failed calls are counted.
LEMMA FaultsGrow ==
    ASSUME LocalTypeOK, [Next]_vars, faults' = 0
    PROVE  faults = 0 /\ ~Fault
<1>1. faults \in Nat
  BY ConstantsAssumption DEF LocalTypeOK
<1>2. UNCHANGED faults \/ Fault
  BY DEF Next, vars, workerVars, budget, ClaimStep, Lease, LeaseReplyLost,
         LeaseTimesOut, Claim, ClaimFails, Return, Discard, RunStep,
         BodyEnds, BodyEscapes, CancelSeen, WatcherFails, Save, SaveFails,
         Unwinds, ShutdownStep, InterruptClaim, InterruptProcess,
         BodyAborts, Release, ReleaseFails, InterruptRelease,
         DetachedReleaseDies, PoolStep, Start, StartFails, Heartbeat, Reap,
         UpkeepFails, Drain, Close, Stop, Crash, BeatExpires
<1> QED
  BY <1>1, <1>2 DEF Fault

\* Every step keeps the invariant.
LEMMA AttendInvStep ==
    ASSUME Stallable = {}, Derived = {}, AttendInv, [Next]_vars
    PROVE  AttendInv'
<1>0. LeaseInv /\ LocalTypeOK
  BY LeaseInvTypes DEF AttendInv
<1>1. LeaseInv'
  BY <1>0, LeaseInvStep
<1>2. ASSUME NEW w \in Workers, phase'[w] = "new"
      PROVE  Leased(w)' = {}
  <2>1. phase[w] = "new" /\ Leased(w) = {}
    BY <1>0, <1>2, PhaseSteps DEF AttendInv
  <2> SUFFICES ASSUME NEW j \in Leased(w)' PROVE FALSE
    OBVIOUS
  <2>2. PICK l \in Loops : Owner(l) = w /\ pc[l] = "polling"
    BY <1>0, <2>1, ListGrows
  <2> QED
    BY <2>1, <2>2 DEF AttendInv
<1>3. ASSUME NEW l \in Loops, phase'[Owner(l)] = "new"
      PROVE  pc'[l] = "idle"
  BY <1>0, <1>3, OwnerIsWorker, PhaseSteps, IdleStays DEF AttendInv
<1>4. ASSUME faults' = 0, NEW l \in Loops, pc'[l] = "unwinding"
      PROVE  Settled(held[l].id)' 
  <2>0. faults = 0 /\ ~Fault
    BY <1>0, <1>4, FaultsGrow
  <2>1. CASE pc[l] = "unwinding" /\ held'[l] = held[l]
    <3>1. Holding(l) /\ Settled(held[l].id)
      BY <2>0, <2>1 DEF AttendInv, Holding
    <3>2. jobs'[held[l].id].status \notin {"queued", "running"}
      BY <1>0, <3>1, SettledStays
    <3> QED
      BY <2>1, <3>2 DEF Settled, Live
  <2>2. CASE Save(l)
    <3>1. held'[l].id = held[l].id
      BY <1>0, <1>4, <2>2
         DEF Save, SaveRaises, LeaveRun, NextRound, Goto, LocalTypeOK
    <3>2. jobs'[held[l].id].status \notin {"queued", "running"}
      BY <1>0, <1>4, <2>2, SaveSettles
    <3> QED
      BY <3>1, <3>2 DEF Settled, Live
  <2>3. ASSUME NEW k \in Loops, ClaimStep(k)
        PROVE  pc[l] = "unwinding" /\ held'[l] = held[l]
    BY <1>0, <1>4, <2>3
       DEF LocalTypeOK, ClaimStep, Lease, LeaseReplyLost, LeaseTimesOut,
           Claim, ClaimFails, Return, Discard, NextRound, Exit, Goto
  <2>4. ASSUME NEW k \in Loops, RunStep(k), ~Save(l)
        PROVE  pc[l] = "unwinding" /\ held'[l] = held[l]
    <3>1. CASE k = l
      BY <1>0, <1>4, <2>0, <2>4, <3>1
         DEF LocalTypeOK, RunStep, BodyEnds, BodyEscapes, CancelSeen,
             WatcherFails, SaveFails, Unwinds, NextRound, Goto
    <3>2. CASE k # l
      BY <1>0, <1>4, <2>4, <3>2
         DEF LocalTypeOK, RunStep, BodyEnds, BodyEscapes, CancelSeen,
             WatcherFails, Save, SaveFails, SaveRaises, LeaveRun, Unwinds,
             NextRound, Goto
    <3> QED
      BY <3>1, <3>2
  <2>5. ASSUME NEW k \in Loops, ShutdownStep(k)
        PROVE  pc[l] = "unwinding" /\ held'[l] = held[l]
    BY <1>0, <1>4, <2>5
       DEF LocalTypeOK, ShutdownStep, InterruptClaim, InterruptProcess,
           BodyAborts, Release, ReleaseFails, InterruptRelease,
           DetachedReleaseDies, Exit, Goto
  <2>6. ASSUME NEW w \in Workers, PoolStep(w)
        PROVE  pc[l] = "unwinding" /\ held'[l] = held[l]
    BY <1>0, <1>4, <2>6
       DEF LocalTypeOK, PoolStep, Start, StartFails, Heartbeat, Reap,
           UpkeepFails, Drain, Close, Stop, Crash, BeatExpires
  <2>7. UNCHANGED <<pc, held>> => pc[l] = "unwinding" /\ held'[l] = held[l]
    BY <1>4
  <2> QED
    BY <2>1, <2>2, <2>3, <2>4, <2>5, <2>6, <2>7 DEF Next, vars, workerVars
<1>5. Attended'
  <2> SUFFICES ASSUME faults' = 0, NEW w \in Workers,
                      phase'[w] \in {"up", "draining"},
                      NEW j \in Leased(w)' \ Poison
               PROVE  \E l \in LoopsOf(w) : Holding(l)' /\ held'[l].id = j
    BY DEF Attended
  <2>0. faults = 0 /\ ~Fault
    BY <1>0, FaultsGrow
  <2>1. CASE j \in Leased(w)
    <3>1. phase[w] \in {"up", "draining"}
      BY <1>0, <2>1, PhaseSteps DEF AttendInv
    <3>2. PICK l \in LoopsOf(w) : Holding(l) /\ held[l].id = j
      BY <2>0, <2>1, <3>1 DEF AttendInv, Attended
    <3>3. l \in Loops /\ Owner(l) = w
      BY DEF LoopsOf, Loops, Owner
    <3> QED
      BY <1>1, <2>0, <3>2, <3>3, LetGo
  <2>2. CASE j \notin Leased(w)
    <3>1. PICK l \in Loops :
            /\ Owner(l) = w /\ pc[l] = "polling" /\ j = Head(queue)
            /\ Lease(l) \/ LeaseReplyLost(l) \/ InterruptClaim(l)
      BY <1>0, <2>2, ListGrows
    <3>2. Lease(l)
      BY <2>0, <3>1 DEF LeaseReplyLost, InterruptClaim
    <3>3. pc'[l] = "leased" /\ held'[l].id = j
      BY <1>0, <3>1, <3>2 DEF Lease, LocalTypeOK, Holds
    <3>4. l \in LoopsOf(w)
      BY <3>1 DEF Loops, LoopsOf, Owner
    <3> QED
      BY <3>3, <3>4 DEF Holding
  <2> QED
    BY <2>1, <2>2
<1> QED
  BY <1>1, <1>2, <1>3, <1>4, <1>5 DEF AttendInv

\* It holds at the start, where no pool was entered.
LEMMA AttendInvInit == Init => AttendInv
<1> SUFFICES ASSUME Init PROVE AttendInv
  OBVIOUS
<1>1. LeaseInv
  BY LeaseInvInit
<1>2. \A w \in Workers : Leased(w) = {}
  BY DEF Init, RedisInit, Leased, Range
<1>3. \A l \in Loops : pc[l] = "idle"
  BY DEF Init, WorkerInit
<1> QED
  BY <1>1, <1>2, <1>3 DEF AttendInv, Attended

\* As long as no call to Redis fails, every id on the list of a pool that serves
\* is in the hands of one of its loops, or its record cannot be decoded: claim,
\* _run and the release of a loop forget no lease by themselves.
THEOREM LeasesAreAttendedUntilAFault ==
    ASSUME Stallable = {}, Derived = {}
    PROVE  Spec => []Attended
<1>1. Init => AttendInv
  BY AttendInvInit
<1>2. AttendInv /\ [Next]_vars => AttendInv'
  BY AttendInvStep
<1>3. AttendInv => Attended
  BY DEF AttendInv
<1> QED
  BY <1>1, <1>2, <1>3, PTL DEF Spec

\* Where no call fails and every record can be decoded, a pool that is alive and
\* beating keeps no lease out of the reapers' reach that it does not work on.
THEOREM NoLeaseIsForgotten ==
    ASSUME Stallable = {}, Derived = {}, MaxFaults = 0, Poison = {}
    PROVE  Spec => []LeasesAttended
<1>1. Init => AttendInv
  BY AttendInvInit
<1>2. AttendInv /\ [Next]_vars => AttendInv'
  BY AttendInvStep
<1>3. AttendInv => LeasesAttended
  <2>1. AttendInv => faults = 0
    BY LeaseInvTypes DEF AttendInv, LocalTypeOK
  <2> QED
    BY <2>1 DEF AttendInv, Attended, LeasesAttended
<1> QED
  BY <1>1, <1>2, <1>3, PTL DEF Spec

-----------------------------------------------------------------------------
(* The queue implements JobLife.                                           *)

\* What a save is about to write was asked for: a loop writes CANCELLED over an
\* unfinished job only if its flag is set, and a save after the first writes
\* FAILED.
SaveAsTold(l) ==
    /\ /\ pc[l] \in {"saving", "resaving"} /\ held[l].status = "cancelled"
       /\ Live(held[l].id)
       => jobs[held[l].id].request_cancel
    /\ pc[l] = "resaving" /\ held[l].status # "failed" => Live(held[l].id)

SavesAsTold == \A l \in Loops : SaveAsTold(l)

LifeInv == TypeInv /\ FinalSaves /\ LeaseInv /\ SavesAsTold

-----------------------------------------------------------------------------
\* The flag of an unfinished job stays.
LEMMA FlagStays ==
    ASSUME TypeInv, FinalSaves, [Next]_vars, NEW j \in Jobs,
           Live(j), Live(j)', jobs[j].request_cancel
    PROVE  jobs'[j].request_cancel
<1>1. RecordStep(j)
  BY RecordSteps
<1>2. ~Saved(j)
  BY DEF Saved, FinalSaves, Live, Terminal
<1>3. jobs[j].request_cancel \in BOOLEAN /\ jobs'[j].request_cancel \in BOOLEAN
  BY TypeInvStep DEF TypeInv, RedisTypeOK, Records
<1>4. Exists(j) /\ ~Removed(j)
  BY DEF Removed, Live, NoRecord, Exists
<1> QED
  BY <1>1, <1>2, <1>3, <1>4 DEF RecordStep, Claimed, Requeued, Flagged

\* Only the save of the loop that holds it ends an unfinished job.
LEMMA LiveUntilSaved ==
    ASSUME LeaseInv, TypeInv, [Next]_vars, NEW j \in Jobs, Live(j), ~Live(j)'
    PROVE  \E l \in Loops :
             /\ pc[l] \in {"saving", "resaving"} /\ held[l].id = j
             /\ Save(l) \/ SaveFails(l) \/ InterruptProcess(l)
<1>0. RecordStep(j) /\ Exists(j) /\ RedisTypeOK
  BY RecordSteps DEF TypeInv, Live, Exists
<1>1. ~(result[j] = "ready" \/ jobs[j].expires)
  BY DEF LeaseInv, JobInv, Settled, IsTerminal, Live, Terminal
<1>2. Saved(j)
  BY <1>0, <1>1 DEF RecordStep, Claimed, Requeued, Flagged, Removed, Live
<1>3. jobs' # jobs
  BY DEF Live
<1>4. ASSUME NEW l \in Loops, ClaimStep(l)
      PROVE  FALSE
  <2>1. pc[l] = "leased" /\ ClaimScript(held[l].id)
    BY <1>3, <1>4 DEF ClaimStep, Lease, LeaseReplyLost, LeaseTimesOut, Claim,
                ClaimFails, Return, Discard, Blmove, ReturnLease,
                DiscardLease, redisVars
  <2> QED
    BY <1>0, <2>1 DEF ClaimScript, Live, RedisTypeOK, Records
<1>5. ASSUME NEW l \in Loops, RunStep(l)
      PROVE  /\ pc[l] \in {"saving", "resaving"} /\ held[l].id = j
             /\ Save(l) \/ SaveFails(l)
  <2>1. /\ pc[l] \in {"saving", "resaving"} /\ CallSave(l)
        /\ Save(l) \/ SaveFails(l)
    BY <1>3, <1>5 DEF RunStep, BodyEnds, BodyEscapes, CancelSeen, WatcherFails,
                Save, SaveFails, Unwinds, redisVars
  <2>2. held[l].id = j
    BY <1>0, <2>1 DEF CallSave, SaveScript, Live, RedisTypeOK
  <2> QED
    BY <2>1, <2>2
<1>6. ASSUME NEW l \in Loops, ShutdownStep(l)
      PROVE  /\ pc[l] \in {"saving", "resaving"} /\ held[l].id = j
             /\ InterruptProcess(l)
  <2>1. \/ pc[l] = "leased" /\ ClaimScript(held[l].id)
        \/ pc[l] \in {"saving", "resaving"} /\ CallSave(l) /\ InterruptProcess(l)
        \/ ReleaseScript(Owner(l), held[l].id)
    BY <1>3, <1>6 DEF ShutdownStep, InterruptClaim, InterruptProcess, BodyAborts,
                Release, ReleaseFails, InterruptRelease, DetachedReleaseDies,
                Blmove, ReturnLease, DiscardLease, redisVars
  <2>2. ~ClaimScript(held[l].id)
    BY <1>0 DEF ClaimScript, Live, RedisTypeOK, Records
  <2>3. ~ReleaseScript(Owner(l), held[l].id)
    <3>1. jobs' = jobs \/ jobs' = [jobs EXCEPT ![held[l].id].status = "queued"]
            => Live(j)'
      BY <1>0 DEF Live, RedisTypeOK, Records
    <3> QED
      BY <3>1 DEF ReleaseScript, redisVars
  <2>4. CallSave(l) => held[l].id = j
    BY <1>0 DEF CallSave, SaveScript, Live, RedisTypeOK
  <2> QED
    BY <2>1, <2>2, <2>3, <2>4
<1>7. ASSUME NEW w \in Workers, PoolStep(w)
      PROVE  FALSE
  <2>1. ReaperScript
    BY <1>3, <1>7 DEF PoolStep, Start, StartFails, Heartbeat, Reap, UpkeepFails,
                Drain, Close, Stop, Crash, BeatExpires, HeartbeatScript,
                DeregisterScript, ExpireBeat, redisVars
  <2>2. \/ jobs'[j] = jobs[j]
        \/ jobs'[j] = [jobs[j] EXCEPT !.status = "queued"]
    BY <2>1 DEF ReaperScript
  <2> QED
    BY <1>0, <2>2 DEF Live, RedisTypeOK, Records
<1>8. ASSUME NEW i \in Jobs,
             \/ Submit(i) \/ RequestCancel(i) \/ TakeChecks(i)
             \/ TakeFetches(i) \/ ResultExpires(i)
      PROVE  FALSE
  <2>1. CASE RequestCancel(i)
    BY <1>0, <2>1 DEF RequestCancel, RequestCancelScript, Live, RedisTypeOK,
                      Records
  <2>2. CASE ~RequestCancel(i)
    BY <1>0, <1>1, <1>8, <2>2
       DEF Submit, TakeChecks, TakeFetches, ResultExpires, EnqueueScript,
           ExpireRecord, DeleteRecord, redisVars, RedisTypeOK, Live, NewRecord,
           NoRecord
  <2> QED
    BY <2>1, <2>2
<1> QED
  BY <1>3, <1>4, <1>5, <1>6, <1>7, <1>8 DEF Next, vars, redisVars

\* How a loop comes to a save.
LEMMA SaveReached ==
    ASSUME TypeInv, [Next]_vars, NEW k \in Loops,
           pc'[k] \in {"saving", "resaving"}
    PROVE  \/ pc'[k] = pc[k] /\ held'[k] = held[k]
           \/ Claim(k) /\ pc[k] = "leased" /\ Exists(held[k].id)
           \/ pc'[k] = "saving" /\ held'[k].status = "completed"
           \/ CancelSeen(k)
           \/ held'[k].status = "failed"
<1>0. LocalTypeOK /\ held[k] \in Holds
  BY DEF TypeInv, LocalTypeOK
<1>1. CASE UNCHANGED <<pc, held>>
  BY <1>1
<1>2. ASSUME NEW l \in Loops, ClaimStep(l)
      PROVE  \/ pc'[k] = pc[k] /\ held'[k] = held[k]
             \/ Claim(k) /\ pc[k] = "leased" /\ Exists(held[k].id)
  <2>1. CASE k # l
    BY <1>0, <1>2, <2>1
       DEF ClaimStep, Lease, LeaseReplyLost, LeaseTimesOut, Claim,
           ClaimFails, Return, Discard, NextRound, Exit, Goto, LocalTypeOK
  <2>2. CASE k = l
    BY <1>0, <1>2, <2>2
       DEF ClaimStep, Lease, LeaseReplyLost, LeaseTimesOut, Claim,
           ClaimFails, Return, Discard, NextRound, Exit, Goto, LocalTypeOK
  <2> QED
    BY <2>1, <2>2
<1>3. ASSUME NEW l \in Loops, RunStep(l)
      PROVE  \/ pc'[k] = pc[k] /\ held'[k] = held[k]
             \/ pc'[k] = "saving" /\ held'[k].status = "completed"
             \/ CancelSeen(k)
             \/ held'[k].status = "failed"
  <2>1. CASE k # l
    BY <1>0, <1>3, <2>1
       DEF RunStep, BodyEnds, BodyEscapes, CancelSeen, WatcherFails, Save,
           SaveFails, SaveRaises, LeaveRun, Unwinds, NextRound, Goto,
           LocalTypeOK
  <2>2. CASE k = l
    BY <1>0, <1>3, <2>2
       DEF RunStep, BodyEnds, BodyEscapes, WatcherFails, Save,
           SaveFails, SaveRaises, LeaveRun, Unwinds, NextRound, Goto,
           LocalTypeOK, Holds
  <2> QED
    BY <2>1, <2>2
<1>4. ASSUME NEW l \in Loops, ShutdownStep(l)
      PROVE  pc'[k] = pc[k] /\ held'[k] = held[k]
  BY <1>0, <1>4
     DEF ShutdownStep, InterruptClaim, InterruptProcess, BodyAborts,
         Release, ReleaseFails, InterruptRelease, DetachedReleaseDies,
         Exit, Goto, LocalTypeOK
<1>5. ASSUME NEW w \in Workers, PoolStep(w)
      PROVE  pc'[k] = pc[k] /\ held'[k] = held[k]
  BY <1>0, <1>5
     DEF PoolStep, Start, StartFails, Heartbeat, Reap, UpkeepFails, Drain,
         Close, Stop, Crash, BeatExpires, LocalTypeOK
<1> QED
  BY <1>1, <1>2, <1>3, <1>4, <1>5 DEF Next, vars, workerVars

\* The save of a loop moves the loop.
LEMMA SaveMoves ==
    ASSUME TypeInv, NEW k \in Loops, pc[k] \in {"saving", "resaving"},
           Exists(held[k].id),
           Save(k) \/ SaveFails(k) \/ InterruptProcess(k)
    PROVE  pc'[k] # pc[k]
BY DEF TypeInv, LocalTypeOK, Save, SaveFails, SaveRaises, LeaveRun, NextRound,
       Goto, InterruptProcess

\* No step breaks what is known of saves.
LEMMA SavesAsToldStep ==
    ASSUME LifeInv, [Next]_vars
    PROVE  SavesAsTold'
<1>1. SUFFICES ASSUME NEW k \in Loops, pc'[k] \in {"saving", "resaving"}
               PROVE  SaveAsTold(k)'
  BY DEF SavesAsTold, SaveAsTold
<1>2. CASE pc'[k] = pc[k] /\ held'[k] = held[k] /\ held[k].status # "failed"
  <2>0. Holding(k) /\ held[k].id \in Jobs
    BY <1>1, <1>2 DEF Holding, LifeInv, LeaseInv, HeldIsJob
  <2>1. PICK j \in Jobs : j = held[k].id
    BY <2>0
  <2>2. Live(j)
    <3>1. CASE pc[k] = "saving"
      BY <2>1, <3>1, RunningFacts DEF LifeInv, Live
    <3>2. CASE pc[k] = "resaving"
      BY <1>2, <2>1, <3>2 DEF LifeInv, SavesAsTold, SaveAsTold
    <3> QED
      BY <1>1, <1>2, <3>1, <3>2
  <2>3. Live(j)'
    <3>1. SUFFICES ASSUME ~Live(j)'
                   PROVE  FALSE
      OBVIOUS
    <3>2. PICK l \in Loops :
            /\ pc[l] \in {"saving", "resaving"} /\ held[l].id = j
            /\ Save(l) \/ SaveFails(l) \/ InterruptProcess(l)
      BY <2>1, <2>2, <3>1, LiveUntilSaved DEF LifeInv
    <3>3. l = k
      BY <2>0, <2>1, <3>2 DEF LifeInv, LeaseInv, HeldApart, Holding
    <3> QED
      BY <1>2, <2>1, <2>2, <3>2, <3>3, SaveMoves DEF LifeInv, Live, Exists
  <2>4. jobs[j].request_cancel => jobs'[j].request_cancel
    BY <2>1, <2>2, <2>3, FlagStays DEF LifeInv
  <2> QED
    BY <1>1, <1>2, <2>1, <2>2, <2>3, <2>4 DEF LifeInv, SavesAsTold, SaveAsTold, Live
<1>3. CASE Claim(k) /\ pc[k] = "leased" /\ Exists(held[k].id)
  <2>0. held[k].id \in Jobs /\ LocalTypeOK /\ RedisTypeOK
    BY <1>3 DEF LifeInv, TypeInv, HeldIsJob, Holding
  <2>1. PICK j \in Jobs : j = held[k].id
    BY <2>0
  <2>2. /\ jobs'[j].status = "running"
        /\ jobs'[j].request_cancel = jobs[j].request_cancel
    BY <1>3, <2>0, <2>1 DEF Claim, ClaimScript, RedisTypeOK, Records
  <2>3. /\ held'[k].id = j
        /\ held'[k].status = "cancelled" => jobs[j].request_cancel
    BY <1>1, <1>3, <2>0, <2>1 DEF Claim, NextRound, Goto, LocalTypeOK
  <2> QED
    BY <2>2, <2>3 DEF SaveAsTold, Live
<1>4. CASE pc'[k] = "saving" /\ held'[k].status = "completed"
  BY <1>4 DEF SaveAsTold
<1>5. CASE CancelSeen(k)
  <2>1. LocalTypeOK /\ held[k] \in Holds
    BY DEF LifeInv, TypeInv, LocalTypeOK
  <2>2. /\ jobs' = jobs /\ jobs[held[k].id].request_cancel
        /\ held'[k].id = held[k].id /\ pc'[k] = "saving"
    BY <1>5, <2>1 DEF CancelSeen, CancelRequested, redisVars, LocalTypeOK, Holds
  <2> QED
    BY <2>2 DEF SaveAsTold
<1>6. CASE held'[k].status = "failed"
  BY <1>6 DEF SaveAsTold
<1> QED
  BY <1>1, <1>2, <1>3, <1>4, <1>5, <1>6, SaveReached DEF LifeInv

-----------------------------------------------------------------------------
(* One step of the queue, seen through the map.                            *)

AbstractStep == Life!Next \/ UNCHANGED <<lifeMap, takenMap>>

\* A step that touches one record changes one entry of the map.
LEMMA OneEntry ==
    ASSUME NEW j \in Jobs, \A i \in Jobs \ {j} : jobs'[i] = jobs[i]
    PROVE  lifeMap' = [lifeMap EXCEPT ![j] = LifeOf(j)']
<1>1. \A i \in Jobs \ {j} : LifeOf(i)' = LifeOf(i)
  BY DEF LifeOf, IsTerminal
<1>2. lifeMap' = [i \in Jobs |-> LifeOf(i)']
  BY DEF lifeMap
<1> QED
  BY <1>1, <1>2 DEF lifeMap

\* What is not touched is not seen.
LEMMA NoEntry ==
    /\ jobs' = jobs => lifeMap' = lifeMap
    /\ result' = result => takenMap' = takenMap
BY DEF lifeMap, takenMap, LifeOf, TakenOf, IsTerminal

\* What the map shows of an unfinished record, of a finished one, and of none.
LEMMA Shown ==
    ASSUME TypeInv, FinalSaves, NEW j \in Jobs
    PROVE  /\ lifeMap[j] = LifeOf(j) /\ j \in DOMAIN lifeMap
           /\ Live(j) => LifeOf(j) = [status |-> jobs[j].status,
                                      request_cancel |-> jobs[j].request_cancel]
           /\ IsTerminal(j) => LifeOf(j) = [status |-> jobs[j].status,
                                            request_cancel |-> FALSE]
           /\ ~Exists(j) => LifeOf(j) = Life!Gone
<1>1. jobs[j].request_cancel \in BOOLEAN
  BY DEF TypeInv, RedisTypeOK, Records
<1>2. lifeMap[j] = LifeOf(j) /\ j \in DOMAIN lifeMap
  BY DEF lifeMap
<1>3. (jobs[j].request_cancel /\ ~IsTerminal(j)) =
        IF IsTerminal(j) THEN FALSE ELSE jobs[j].request_cancel
  BY <1>1
<1>4. Live(j) => ~IsTerminal(j)
  BY DEF Live, IsTerminal, Terminal
<1>5. ~Exists(j) => /\ jobs[j].status = "absent" /\ ~IsTerminal(j)
                    /\ jobs[j].request_cancel = FALSE
  BY DEF FinalSaves, NoRecord, IsTerminal, Terminal
<1> QED
  BY <1>2, <1>3, <1>4, <1>5 DEF LifeOf, Life!Gone

\* The same of the record after a step.
LEMMA ShownNext ==
    ASSUME TypeInv', NEW j \in Jobs
    PROVE  /\ Live(j)' => LifeOf(j)' = [status |-> jobs'[j].status,
                                        request_cancel |-> jobs'[j].request_cancel]
           /\ IsTerminal(j)' => LifeOf(j)' = [status |-> jobs'[j].status,
                                              request_cancel |-> FALSE]
<1>1. jobs'[j].request_cancel \in BOOLEAN
  BY DEF TypeInv, RedisTypeOK, Records
<1>2. (jobs'[j].request_cancel /\ ~IsTerminal(j)') =
        IF IsTerminal(j)' THEN FALSE ELSE jobs'[j].request_cancel
  BY <1>1
<1>3. Live(j)' => ~IsTerminal(j)'
  BY DEF Live, IsTerminal, Terminal
<1> QED
  BY <1>2, <1>3 DEF LifeOf

\* The claim script delivers a queued job; one that is RUNNING already, because
\* an earlier claim failed half-way, looks the same afterwards.
LEMMA ClaimMaps ==
    ASSUME LifeInv, LifeInv', NEW l \in Loops, pc[l] = "leased",
           ClaimScript(held[l].id), result' = result
    PROVE  AbstractStep
<1>1. held[l].id \in Jobs /\ Live(held[l].id) /\ Exists(held[l].id)
  BY ClaimingFacts DEF LifeInv
<1>2. PICK j \in Jobs : j = held[l].id
  BY <1>1
<1>3. RedisTypeOK /\ jobs[j] \in Records
  BY DEF LifeInv, TypeInv, RedisTypeOK
<1>4. /\ jobs'[j].status = "running"
      /\ jobs'[j].request_cancel = jobs[j].request_cancel
      /\ \A i \in Jobs \ {j} : jobs'[i] = jobs[i]
  BY <1>1, <1>2, <1>3 DEF ClaimScript, RedisTypeOK, Records
<1>5. Live(j)'
  BY <1>4 DEF Live
<1>6. /\ LifeOf(j) = [status |-> jobs[j].status,
                      request_cancel |-> jobs[j].request_cancel]
      /\ LifeOf(j)' = [status |-> "running",
                       request_cancel |-> jobs[j].request_cancel]
      /\ lifeMap[j] = LifeOf(j) /\ j \in DOMAIN lifeMap
  BY <1>1, <1>2, <1>4, <1>5, Shown, ShownNext DEF LifeInv
<1>7. lifeMap' = [lifeMap EXCEPT ![j] = LifeOf(j)'] /\ takenMap' = takenMap
  BY <1>4, OneEntry, NoEntry
<1>8. CASE jobs[j].status = "queued"
  <2>1. [lifeMap[j] EXCEPT !.status = "running"] = LifeOf(j)'
    BY <1>6
  <2>2. [lifeMap EXCEPT ![j].status = "running"] = lifeMap'
    BY <1>7, <2>1
  <2>3. lifeMap[j].status = "queued"
    BY <1>6, <1>8
  <2>4. Life!Deliver(j)
    BY <1>7, <2>2, <2>3 DEF Life!Deliver
  <2> QED
    BY <2>4 DEF AbstractStep, Life!Next, Life!Backend
<1>9. CASE jobs[j].status = "running"
  <2>1. LifeOf(j)' = lifeMap[j]
    BY <1>6, <1>9
  <2>2. lifeMap' = lifeMap
    BY <1>6, <1>7, <2>1 DEF lifeMap
  <2> QED
    BY <1>7, <2>2 DEF AbstractStep
<1> QED
  BY <1>1, <1>2, <1>8, <1>9 DEF Live

\* The first save finishes a job, with CANCELLED only where it was told to;
\* the one after a lost reply overturns it.
LEMMA SaveMaps ==
    ASSUME LifeInv, LifeInv', NEW l \in Loops, CallSave(l),
           pc[l] \in {"saving", "resaving"}, result' = result
    PROVE  AbstractStep
<1>1. /\ held[l].id \in Jobs
      /\ jobs[held[l].id].status = "running" \/ Settled(held[l].id)
      /\ pc[l] = "saving" => jobs[held[l].id].status = "running"
  BY RunningFacts DEF LifeInv
<1>2. PICK j \in Jobs : j = held[l].id
  BY <1>1
<1>3. takenMap' = takenMap
  BY NoEntry
<1>4. CASE ~Exists(j)
  BY <1>2, <1>3, <1>4, NoEntry DEF CallSave, SaveScript, AbstractStep
<1>5. CASE Exists(j)
  <2>1. /\ jobs'[j].status = held[l].status
        /\ \A i \in Jobs \ {j} : jobs'[i] = jobs[i]
    BY <1>2, <1>5 DEF CallSave, SaveScript, LifeInv, TypeInv, RedisTypeOK
  <2>2. held[l].status \in Terminal /\ IsTerminal(j)'
    BY <2>1 DEF LifeInv, FinalSaves, IsTerminal
  <2>3. /\ LifeOf(j)' = [status |-> held[l].status, request_cancel |-> FALSE]
        /\ lifeMap[j] = LifeOf(j) /\ j \in DOMAIN lifeMap
    BY <2>1, <2>2, Shown, ShownNext DEF LifeInv
  <2>4. lifeMap' = [lifeMap EXCEPT ![j] = LifeOf(j)']
    BY <2>1, OneEntry
  <2>5. CASE Live(j)
    <3>1. jobs[j].status = "running"
      BY <1>1, <1>2, <2>5 DEF Settled
    <3>2. held[l].status = "cancelled" => jobs[j].request_cancel
      BY <1>2, <2>5 DEF LifeInv, SavesAsTold, SaveAsTold
    <3>3. lifeMap[j] = [status |-> "running",
                        request_cancel |-> jobs[j].request_cancel]
      BY <2>3, <2>5, <3>1, Shown DEF LifeInv
    <3>4. [Life!Gone EXCEPT !.status = held[l].status] = LifeOf(j)'
      <4>1. PICK flag : flag = FALSE
        OBVIOUS
      <4>2. [[status |-> "absent", request_cancel |-> flag]
                EXCEPT !.status = held[l].status] =
            [status |-> held[l].status, request_cancel |-> flag]
        OBVIOUS
      <4> QED
        BY <2>3, <4>1, <4>2, Zenon DEF Life!Gone
    <3>5. /\ lifeMap[j].status = "running"
          /\ held[l].status = "cancelled" => lifeMap[j].request_cancel
      BY <3>2, <3>3
    <3>6. Life!Finish(j, held[l].status)
      BY <1>3, <2>4, <3>4, <3>5 DEF Life!Finish
    <3> QED
      BY <2>2, <3>6 DEF AbstractStep, Life!Next, Life!Backend, Life!Ended,
                        Terminal
  <2>6. CASE ~Live(j)
    <3>1. jobs[j] \in Records
      BY DEF LifeInv, TypeInv, RedisTypeOK
    <3>2. IsTerminal(j)
      BY <1>5, <2>6, <3>1 DEF Live, Exists, IsTerminal, Records, Statuses
    <3>3. held[l].status = "failed"
      BY <1>1, <1>2, <2>6 DEF LifeInv, SavesAsTold, SaveAsTold, Live
    <3>4. lifeMap[j] = [status |-> jobs[j].status, request_cancel |-> FALSE]
      BY <2>3, <3>2, Shown DEF LifeInv
    <3>5. [lifeMap[j] EXCEPT !.status = "failed"] = LifeOf(j)'
      <4>1. PICK flag : flag = FALSE
        OBVIOUS
      <4>2. [[status |-> jobs[j].status, request_cancel |-> flag]
                EXCEPT !.status = "failed"] =
            [status |-> "failed", request_cancel |-> flag]
        OBVIOUS
      <4> QED
        BY <2>3, <3>3, <3>4, <4>1, <4>2, Zenon
    <3>6. [lifeMap EXCEPT ![j].status = "failed"] = lifeMap'
      BY <2>4, <3>5
    <3>7. lifeMap[j].status \in Life!Ended
      BY <3>2, <3>4 DEF Life!Ended, IsTerminal, Terminal
    <3>8. Life!Overturn(j)
      BY <1>3, <3>6, <3>7 DEF Life!Overturn
    <3> QED
      BY <3>8 DEF AbstractStep, Life!Next, Life!Backend
  <2> QED
    BY <2>5, <2>6
<1> QED
  BY <1>4, <1>5

\* Jobs that were RUNNING and are QUEUED now were given back.
LEMMA GiveBackMaps ==
    ASSUME LifeInv, LifeInv', result' = result, NEW S \in SUBSET Jobs,
           \A j \in S : /\ jobs[j].status = "running"
                        /\ jobs'[j].status = "queued"
                        /\ jobs'[j].request_cancel = jobs[j].request_cancel,
           \A j \in Jobs \ S : jobs'[j] = jobs[j]
    PROVE  AbstractStep
<1>1. ASSUME NEW j \in S
      PROVE  /\ lifeMap[j].status = "running"
             /\ [lifeMap[j] EXCEPT !.status = "queued"] = LifeOf(j)'
  <2>1. j \in Jobs /\ Live(j) /\ Live(j)'
    BY <1>1 DEF Live
  <2>2. /\ lifeMap[j] = [status |-> "running",
                         request_cancel |-> jobs[j].request_cancel]
        /\ LifeOf(j)' = [status |-> "queued",
                         request_cancel |-> jobs[j].request_cancel]
    BY <1>1, <2>1, Shown, ShownNext DEF LifeInv
  <2> QED
    BY <2>2
<1>2. \A j \in Jobs \ S : LifeOf(j)' = lifeMap[j]
  BY DEF lifeMap, LifeOf, IsTerminal
<1>3. lifeMap' = [j \in Jobs |-> LifeOf(j)'] /\ takenMap' = takenMap
  BY NoEntry DEF lifeMap
<1>4. Life!GiveBack(S)
  BY <1>1, <1>2, <1>3 DEF Life!GiveBack
<1> QED
  BY <1>4 DEF AbstractStep, Life!Next, Life!Backend

\* A release gives one job back, or does nothing.
LEMMA ReleaseMaps ==
    ASSUME LifeInv, LifeInv', NEW l \in Loops, pc[l] \in {"releasing", "detached"},
           ReleaseScript(Owner(l), held[l].id), result' = result
    PROVE  AbstractStep
<1>1. held[l].id \in Jobs
  BY RunningFacts DEF LifeInv
<1>2. PICK j \in Jobs : j = held[l].id
  BY <1>1
<1>3. CASE jobs[j].status = "running"
  <2>0. jobs \in [Jobs -> Records]
    BY DEF LifeInv, TypeInv, RedisTypeOK
  <2>1. /\ jobs'[j].status = "queued"
        /\ jobs'[j].request_cancel = jobs[j].request_cancel
        /\ \A i \in Jobs \ {j} : jobs'[i] = jobs[i]
    BY <1>2, <1>3, <2>0 DEF ReleaseScript, Records
  <2>2. {j} \in SUBSET Jobs
    OBVIOUS
  <2> QED
    BY <1>3, <2>1, <2>2, GiveBackMaps
<1>4. CASE jobs[j].status # "running"
  BY <1>2, <1>4, NoEntry DEF ReleaseScript, redisVars, AbstractStep
<1> QED
  BY <1>3, <1>4

\* The reaper gives back whatever expired pools had claimed.
LEMMA ReaperMaps ==
    ASSUME LifeInv, LifeInv', ReaperScript, result' = result
    PROVE  AbstractStep
<1>1. ASSUME NEW j \in Jobs
      PROVE  \/ jobs'[j] = jobs[j]
             \/ /\ jobs[j].status = "running"
                /\ jobs'[j] = [jobs[j] EXCEPT !.status = "queued"]
  BY <1>1 DEF ReaperScript
<1>2. PICK S \in SUBSET Jobs :
        S = {j \in Jobs : jobs[j].status = "running" /\ jobs'[j] # jobs[j]}
  OBVIOUS
<1>3. ASSUME NEW j \in S
      PROVE  /\ jobs[j].status = "running"
             /\ jobs'[j].status = "queued"
             /\ jobs'[j].request_cancel = jobs[j].request_cancel
  <2>1. j \in Jobs /\ jobs[j] \in Records
    BY <1>2, <1>3 DEF LifeInv, TypeInv, RedisTypeOK
  <2>2. /\ jobs[j].status = "running"
        /\ jobs'[j] = [jobs[j] EXCEPT !.status = "queued"]
    BY <1>1, <1>2, <1>3
  <2> QED
    BY <2>1, <2>2 DEF Records
<1>4. \A j \in Jobs \ S : jobs'[j] = jobs[j]
  BY <1>1, <1>2
<1> QED
  BY <1>2, <1>3, <1>4, GiveBackMaps

-----------------------------------------------------------------------------
(* What clients do.                                                        *)

\* A step of one handle changes one entry of the map.
LEMMA OneTaken ==
    ASSUME NEW j \in Jobs, \A i \in Jobs \ {j} : result'[i] = result[i]
    PROVE  takenMap' = [takenMap EXCEPT ![j] = TakenOf(j)']
<1>1. \A i \in Jobs \ {j} : TakenOf(i)' = TakenOf(i)
  BY DEF TakenOf
<1>2. takenMap' = [i \in Jobs |-> TakenOf(i)']
  BY DEF takenMap
<1> QED
  BY <1>1, <1>2 DEF takenMap

\* A record that is not there, after a step.
LEMMA GoneNext ==
    ASSUME NEW j \in Jobs, jobs'[j] = NoRecord
    PROVE  LifeOf(j)' = Life!Gone
<1>1. jobs'[j].status = "absent" /\ jobs'[j].request_cancel = FALSE
  BY DEF NoRecord
<1> QED
  BY <1>1 DEF LifeOf, Life!Gone

\* A first submission is an enqueue of an unknown id.
LEMMA SubmitMaps ==
    ASSUME LifeInv, LifeInv', Derived = {}, NEW j \in Jobs, Submit(j)
    PROVE  AbstractStep
<1>1. spawns[j] = 0 /\ result \in [Jobs -> Results] /\ jobs \in [Jobs -> Records]
  BY DEF Submit, LifeInv, LeaseInv, TypeOK
<1>2. ~Exists(j)
  BY <1>1 DEF LifeInv, LeaseInv, JobInv
<1>3. /\ jobs'[j] = NewRecord
      /\ \A i \in Jobs \ {j} : jobs'[i] = jobs[i]
  BY <1>1, <1>2 DEF Submit, EnqueueScript
<1>4. lifeMap[j] = Life!Gone
  BY <1>2, Shown DEF LifeInv
<1>5. LifeOf(j)' = [Life!Gone EXCEPT !.status = "queued"]
  <2>1. Live(j)' /\ jobs'[j].status = "queued" /\ jobs'[j].request_cancel = FALSE
    BY <1>3 DEF Live, NewRecord, NoRecord
  <2>2. LifeOf(j)' = [status |-> "queued", request_cancel |-> FALSE]
    BY <2>1, ShownNext DEF LifeInv
  <2>3. PICK flag : flag = FALSE
    OBVIOUS
  <2>4. [[status |-> "absent", request_cancel |-> flag]
            EXCEPT !.status = "queued"] =
        [status |-> "queued", request_cancel |-> flag]
    OBVIOUS
  <2> QED
    BY <2>2, <2>3, <2>4, Zenon DEF Life!Gone
<1>6. lifeMap' = [lifeMap EXCEPT ![j].status = "queued"]
  BY <1>3, <1>4, <1>5, OneEntry
<1>7. takenMap' = [takenMap EXCEPT ![j] = "none"]
  <2>1. /\ result'[j] = "waiting"
        /\ \A i \in Jobs \ {j} : result'[i] = result[i]
    BY <1>1 DEF Submit
  <2>2. TakenOf(j)' = "none"
    BY <2>1 DEF TakenOf
  <2> QED
    BY <2>1, <2>2, OneTaken
<1>8. Itself[j] = j
  BY DEF Itself
<1>9. Life!Enqueue(j)
  BY <1>4, <1>6, <1>7, <1>8 DEF Life!Enqueue
<1> QED
  BY <1>9 DEF AbstractStep, Life!Next

\* A cancel request flags the one job, or does nothing.
LEMMA RequestCancelMaps ==
    ASSUME LifeInv, LifeInv', NEW j \in Jobs, RequestCancel(j)
    PROVE  AbstractStep
<1>1. /\ jobs \in [Jobs -> Records] /\ result' = result
      /\ RequestCancelScript(j)
  BY DEF RequestCancel, clientVars, LifeInv, TypeInv, RedisTypeOK
<1>2. Live(j) <=> Exists(j) /\ ~IsTerminal(j)
  BY <1>1 DEF Live, Exists, IsTerminal, Records, Statuses, Terminal
<1>3. CASE ~Live(j)
  BY <1>1, <1>2, <1>3, NoEntry DEF RequestCancelScript, AbstractStep
<1>4. CASE Live(j)
  <2>1. /\ jobs'[j].status = jobs[j].status
        /\ jobs'[j].request_cancel = TRUE
        /\ \A i \in Jobs \ {j} : jobs'[i] = jobs[i]
    BY <1>1, <1>2, <1>4 DEF RequestCancelScript, Records
  <2>2. Live(j)'
    BY <1>4, <2>1 DEF Live
  <2>3. /\ lifeMap[j] = [status |-> jobs[j].status,
                         request_cancel |-> jobs[j].request_cancel]
        /\ LifeOf(j)' = [status |-> jobs[j].status, request_cancel |-> TRUE]
    BY <1>4, <2>1, <2>2, Shown, ShownNext DEF LifeInv
  <2>4. [lifeMap[j] EXCEPT !.request_cancel = TRUE] = LifeOf(j)'
    <3>1. PICK set : set = TRUE
      OBVIOUS
    <3>2. [lifeMap[j] EXCEPT !.request_cancel = set] =
          [status |-> jobs[j].status, request_cancel |-> set]
      BY <2>3
    <3> QED
      BY <2>3, <3>1, <3>2, Zenon
  <2>5. Life!Unfinished(j)
    BY <1>4, <2>3 DEF Live, Life!Unfinished
  <2>6. lifeMap' = [lifeMap EXCEPT ![j] = LifeOf(j)'] /\ takenMap' = takenMap
    BY <1>1, <2>1, OneEntry, NoEntry
  <2>7. Life!RequestCancel({j})
    BY <2>4, <2>5, <2>6 DEF Life!RequestCancel, lifeMap
  <2>8. {j} \in SUBSET Jobs
    OBVIOUS
  <2> QED
    BY <2>7, <2>8 DEF AbstractStep, Life!Next
<1> QED
  BY <1>3, <1>4

\* The look at the status fails where there is no record, and shows nothing
\* otherwise.
LEMMA TakeChecksMaps ==
    ASSUME LifeInv, LifeInv', NEW j \in Jobs, TakeChecks(j)
    PROVE  AbstractStep
<1>1. /\ result \in [Jobs -> Results] /\ jobs' = jobs /\ lifeMap' = lifeMap
      /\ result[j] = "waiting"
      /\ \A i \in Jobs \ {j} : result'[i] = result[i]
  BY NoEntry DEF TakeChecks, redisVars, LifeInv, LeaseInv, TypeOK
<1>2. CASE result'[j] = "ready"
  <2>1. TakenOf(j)' = takenMap[j]
    BY <1>1, <1>2 DEF TakenOf, takenMap
  <2>2. takenMap' = takenMap
    BY <1>1, <2>1, OneTaken DEF takenMap
  <2> QED
    BY <1>1, <2>2 DEF AbstractStep
<1>3. CASE ~Exists(j) /\ result'[j] = "missing"
  <2>1. takenMap' = [takenMap EXCEPT ![j] = "missing"]
    BY <1>1, <1>3, OneTaken DEF TakenOf
  <2>2. lifeMap[j] = Life!Gone /\ Itself[j] = j
    BY <1>3, Shown DEF LifeInv, Itself
  <2>3. Life!TakeFails(j)
    BY <1>1, <2>1, <2>2 DEF Life!TakeFails
  <2> QED
    BY <2>3 DEF AbstractStep, Life!Next
<1> QED
  BY <1>1, <1>2, <1>3 DEF TakeChecks

\* The fetch takes the record of a finished job, or finds none.
LEMMA TakeFetchesMaps ==
    ASSUME LifeInv, LifeInv', NEW j \in Jobs, TakeFetches(j)
    PROVE  AbstractStep
<1>1. /\ result \in [Jobs -> Results] /\ jobs \in [Jobs -> Records]
      /\ result[j] = "ready"
  BY DEF TakeFetches, LifeInv, LeaseInv, TypeOK
<1>2. /\ jobs'[j] = NoRecord
      /\ \A i \in Jobs \ {j} : jobs'[i] = jobs[i] /\ result'[i] = result[i]
  BY <1>1 DEF TakeFetches, DeleteRecord
<1>3. /\ lifeMap' = [lifeMap EXCEPT ![j] = Life!Gone]
      /\ takenMap' = [takenMap EXCEPT ![j] = TakenOf(j)']
      /\ lifeMap[j] = LifeOf(j) /\ Itself[j] = j
  BY <1>2, OneEntry, OneTaken, GoneNext, Shown DEF LifeInv, Itself
<1>4. CASE Exists(j)
  <2>1. IsTerminal(j)
    BY <1>1, <1>4 DEF LifeInv, LeaseInv, JobInv, Settled, Live, IsTerminal,
                      Exists, Records, Statuses
  <2>2. /\ lifeMap[j].status = jobs[j].status
        /\ lifeMap[j].status \in Life!Ended
    BY <2>1, <1>3, Shown DEF LifeInv, IsTerminal, Terminal, Life!Ended
  <2>3. TakenOf(j)' = jobs[j].status
    BY <1>1, <1>4, <2>1 DEF TakeFetches, TakenOf, IsTerminal, Terminal
  <2>4. Life!Take(j)
    BY <1>3, <2>2, <2>3 DEF Life!Take
  <2> QED
    BY <2>4 DEF AbstractStep, Life!Next
<1>5. CASE ~Exists(j)
  <2>1. lifeMap[j] = Life!Gone
    BY <1>3, <1>5, Shown DEF LifeInv
  <2>2. lifeMap' = lifeMap
    BY <1>3, <2>1 DEF lifeMap
  <2>3. TakenOf(j)' = "missing"
    BY <1>1, <1>5 DEF TakeFetches, TakenOf
  <2>4. Life!TakeFails(j)
    BY <1>3, <2>1, <2>2, <2>3 DEF Life!TakeFails
  <2> QED
    BY <2>4 DEF AbstractStep, Life!Next
<1> QED
  BY <1>4, <1>5

\* Only results age.
LEMMA ResultExpiresMaps ==
    ASSUME LifeInv, LifeInv', NEW j \in Jobs, ResultExpires(j)
    PROVE  AbstractStep
<1>1. /\ jobs \in [Jobs -> Records] /\ jobs[j].expires
      /\ result' = result
  BY DEF ResultExpires, ExpireRecord, clientVars, LifeInv, LeaseInv, TypeOK
<1>2. /\ jobs'[j] = NoRecord
      /\ \A i \in Jobs \ {j} : jobs'[i] = jobs[i]
  BY <1>1 DEF ResultExpires, ExpireRecord, DeleteRecord
<1>3. /\ lifeMap' = [lifeMap EXCEPT ![j] = Life!Gone]
      /\ takenMap' = takenMap /\ lifeMap[j] = LifeOf(j)
  BY <1>1, <1>2, OneEntry, NoEntry, GoneNext, Shown DEF LifeInv
<1>4. IsTerminal(j)
  BY <1>1 DEF LifeInv, LeaseInv, JobInv
<1>5. lifeMap[j].status \in Life!Ended
  BY <1>3, <1>4, Shown DEF LifeInv, IsTerminal, Terminal, Life!Ended
<1>6. Life!Expire(j)
  BY <1>3, <1>5 DEF Life!Expire
<1> QED
  BY <1>6 DEF AbstractStep, Life!Next, Life!Backend

-----------------------------------------------------------------------------
\* Every step of the queue is a step of JobLife, or none.
LEMMA StepsMap ==
    ASSUME LifeInv, LifeInv', Derived = {}, [Next]_vars
    PROVE  AbstractStep
<1>1. CASE jobs' = jobs /\ result' = result
  BY <1>1, NoEntry DEF AbstractStep
<1>2. ASSUME NEW l \in Loops, ClaimStep(l), ~(jobs' = jobs /\ result' = result)
      PROVE  AbstractStep
  <2>1. pc[l] = "leased" /\ ClaimScript(held[l].id) /\ result' = result
    BY <1>2 DEF ClaimStep, Lease, LeaseReplyLost, LeaseTimesOut, Claim,
                ClaimFails, Return, Discard, Blmove, ReturnLease,
                DiscardLease, redisVars, clientVars
  <2> QED
    BY <2>1, ClaimMaps
<1>3. ASSUME NEW l \in Loops, RunStep(l), ~(jobs' = jobs /\ result' = result)
      PROVE  AbstractStep
  <2>1. /\ pc[l] \in {"saving", "resaving"} /\ CallSave(l)
        /\ result' = result
    BY <1>3 DEF RunStep, BodyEnds, BodyEscapes, CancelSeen, WatcherFails,
                Save, SaveFails, Unwinds, redisVars, clientVars
  <2> QED
    BY <2>1, SaveMaps
<1>4. ASSUME NEW l \in Loops, ShutdownStep(l),
             ~(jobs' = jobs /\ result' = result)
      PROVE  AbstractStep
  <2>1. /\ result' = result
        /\ \/ pc[l] = "leased" /\ ClaimScript(held[l].id)
           \/ pc[l] \in {"saving", "resaving"} /\ CallSave(l)
           \/ /\ pc[l] \in {"releasing", "detached"}
              /\ ReleaseScript(Owner(l), held[l].id)
    BY <1>4 DEF ShutdownStep, InterruptClaim, InterruptProcess, BodyAborts,
                Release, ReleaseFails, InterruptRelease, DetachedReleaseDies,
                Blmove, ReturnLease, DiscardLease, redisVars, clientVars
  <2> QED
    BY <2>1, ClaimMaps, SaveMaps, ReleaseMaps
<1>5. ASSUME NEW w \in Workers, PoolStep(w), ~(jobs' = jobs /\ result' = result)
      PROVE  AbstractStep
  <2>1. ReaperScript /\ result' = result
    BY <1>5 DEF PoolStep, Start, StartFails, Heartbeat, Reap, UpkeepFails,
                Drain, Close, Stop, Crash, BeatExpires, HeartbeatScript,
                DeregisterScript, ExpireBeat, redisVars, clientVars
  <2> QED
    BY <2>1, ReaperMaps
<1>6. ASSUME NEW j \in Jobs,
             \/ Submit(j) \/ RequestCancel(j) \/ TakeChecks(j)
             \/ TakeFetches(j) \/ ResultExpires(j)
      PROVE  AbstractStep
  BY <1>6, SubmitMaps, RequestCancelMaps, TakeChecksMaps, TakeFetchesMaps,
     ResultExpiresMaps
<1> QED
  BY <1>1, <1>2, <1>3, <1>4, <1>5, <1>6 DEF Next, vars, redisVars, clientVars

\* At the start there is no record and nothing was taken.
LEMMA InitMaps ==
    ASSUME Init
    PROVE  Life!LifeInit
<1>1. \A j \in Jobs : LifeOf(j) = Life!Gone
  <2>1. \A j \in Jobs : /\ jobs[j].status = "absent"
                        /\ jobs[j].request_cancel = FALSE
    BY DEF Init, RedisInit, NoRecord
  <2> QED
    BY <2>1 DEF LifeOf, Life!Gone
<1>2. \A j \in Jobs : TakenOf(j) = "none"
  BY DEF Init, ClientInit, TakenOf
<1> QED
  BY <1>1, <1>2 DEF Life!LifeInit, lifeMap, takenMap

\* No loop saves at the start.
LEMMA SavesAsToldInit ==
    ASSUME Init
    PROVE  SavesAsTold
BY DEF Init, WorkerInit, SavesAsTold, SaveAsTold

\* The queue implements JobLife for every number of jobs, pools, loops and
\* failed calls: as long as no pool stalls past worker_ttl and no id is
\* submitted twice, whatever claims, saves, releases, reaps and takes do to a
\* record in redis_backend.py is what the protocol class promises.
THEOREM QueueImplementsLife ==
    ASSUME Stallable = {}, Derived = {}
    PROVE  Spec => ImplementsJobLife
<1>1. Init => LifeInv
  BY TypeInvInit, FinalSavesInit, LeaseInvInit, SavesAsToldInit DEF LifeInv
<1>2. LifeInv /\ [Next]_vars => LifeInv'
  BY TypeInvStep, FinalSavesStep, LeaseInvStep, SavesAsToldStep DEF LifeInv
<1>3. LifeInv /\ LifeInv' /\ [Next]_vars => [Life!Next]_(Life!lifeVars)
  BY StepsMap DEF AbstractStep, Life!lifeVars
<1>4. Init => Life!LifeInit
  BY InitMaps
<1> QED
  BY <1>1, <1>2, <1>3, <1>4, PTL DEF Spec, ImplementsJobLife, Life!Spec
============================================================================
