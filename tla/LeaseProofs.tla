----------------------------- MODULE LeaseProofs -----------------------------
(***************************************************************************)
(* The lease protocol is safe for any number of jobs, pools and loops, any *)
(* number of crashes, shutdowns and failed calls, and undecodable records, *)
(* as long as no living pool misses worker_ttl and no id is submitted      *)
(* twice.  LeaseInv is inductive: a script changes the record and the      *)
(* place of one job, which one loop works on, so the facts about the other *)
(* jobs and the other loops carry over (OthersStay and LoopFrame); the     *)
(* reaper is the exception, and touches only pools whose loops are gone.   *)
(***************************************************************************)
EXTENDS TypeProofs

\* A job other than j keeps its record and its place.
Stays(i) ==
    /\ jobs'[i] = jobs[i]
    /\ i \in Range(queue') <=> i \in Range(queue)
    /\ \A w \in Workers :
        i \in Range(processing'[w]) <=> i \in Range(processing[w])

OthersStay(j) == \A i \in Jobs \ {j} : Stays(i)

\* LeaseInv contains what the type lemmas ask for.
LEMMA LeaseInvTypes ==
    ASSUME LeaseInv
    PROVE  TypeInv /\ RedisTypeOK /\ LocalTypeOK
BY DEF LeaseInv, TypeInv, TypeOK, RedisTypeOK, LocalTypeOK

-----------------------------------------------------------------------------
(* What the scripts do to the lists.                                       *)

\* The first half of claim moves the head of the queue to one list.
LEMMA BlmoveEffect ==
    ASSUME RedisTypeOK, SingleLease, NEW w \in Workers, Blmove(w)
    PROVE  /\ Head(queue) \in Jobs
           /\ Head(queue) \in Range(queue)
           /\ Head(queue) \notin Range(queue')
           /\ Head(queue) \in Range(processing'[w])
           /\ \A u \in Workers \ {w} : processing'[u] = processing[u]
           /\ OthersStay(Head(queue))
           /\ SingleLease'
           /\ jobs' = jobs /\ beat' = beat
<1> DEFINE h == Head(queue)
<1>1. queue \in Seq(Jobs) /\ queue # <<>> /\ processing[w] \in Seq(Jobs)
  BY DEF RedisTypeOK, Blmove
<1>2. IsInjective(queue) /\ IsInjective(processing[w])
  BY DEF SingleLease
<1>3. /\ h \in Jobs /\ h \in Range(queue)
      /\ IsInjective(queue') /\ Range(queue') = Range(queue) \ {h}
  BY <1>1, <1>2, TailRange DEF Blmove
<1>4. h \notin Range(processing[w])
  BY <1>3 DEF SingleLease, Leased
<1>5. processing'[w] = Append(processing[w], h)
  BY DEF Blmove, RedisTypeOK
<1>6. \A u \in Workers \ {w} : processing'[u] = processing[u]
  BY DEF Blmove, RedisTypeOK
<1> HIDE DEF h
<1>7. /\ IsInjective(processing'[w])
      /\ Range(processing'[w]) = Range(processing[w]) \cup {h}
  BY <1>1, <1>2, <1>3, <1>4, <1>5, AppendRange
<1>8. jobs' = jobs /\ beat' = beat
  BY DEF Blmove
<1>9. OthersStay(h)
  BY <1>3, <1>6, <1>7, <1>8 DEF OthersStay, Stays
<1>10. SingleLease'
  BY <1>3, <1>6, <1>7 DEF SingleLease, Leased
<1> QED
  BY <1>3, <1>6, <1>7, <1>8, <1>9, <1>10 DEF h

\* An id that is LREMoved from the caller's list and RPUSHed on the queue.
LEMMA MoveBackEffect ==
    ASSUME RedisTypeOK, SingleLease, NEW w \in Workers,
           NEW j \in Leased(w), j \in Jobs,
           processing' = [processing EXCEPT ![w] = RemoveFirst(@, j)],
           queue' = Append(queue, j),
           \A i \in Jobs \ {j} : jobs'[i] = jobs[i]
    PROVE  /\ j \in Range(queue')
           /\ \A u \in Workers : Range(processing'[u]) \subseteq Leased(u)
           /\ OthersStay(j)
           /\ SingleLease'
<1>1. queue \in Seq(Jobs) /\ processing[w] \in Seq(Jobs)
  BY DEF RedisTypeOK
<1>2. IsInjective(queue) /\ IsInjective(processing[w]) /\ j \notin Range(queue)
  BY DEF SingleLease, Leased
<1>3. IsInjective(queue') /\ Range(queue') = Range(queue) \cup {j}
  BY <1>1, <1>2, AppendRange
<1>4. processing'[w] = RemoveFirst(processing[w], j)
  BY DEF RedisTypeOK
<1>5. /\ IsInjective(processing'[w])
      /\ Range(processing'[w]) = Range(processing[w]) \ {j}
  BY <1>1, <1>2, <1>4, RemoveFirstRange
<1>6. \A u \in Workers \ {w} : processing'[u] = processing[u]
  BY DEF RedisTypeOK
<1>7. OthersStay(j)
  BY <1>3, <1>5, <1>6 DEF OthersStay, Stays
<1>8. \A u \in Workers \ {w} : j \notin Range(processing[u])
  BY DEF SingleLease, Leased
<1>9. \A u \in Workers : Range(processing'[u]) \cap Range(queue') = {}
  BY <1>3, <1>5, <1>6, <1>8 DEF SingleLease, Leased
<1>10. SingleLease'
  BY <1>3, <1>5, <1>6, <1>9 DEF SingleLease, Leased
<1> QED
  BY <1>3, <1>5, <1>6, <1>7, <1>10 DEF Leased

\* An id that is LREMoved from the caller's list.
LEMMA DropEffect ==
    ASSUME RedisTypeOK, SingleLease, NEW w \in Workers, NEW j \in Jobs,
           processing' = [processing EXCEPT ![w] = RemoveFirst(@, j)],
           queue' = queue,
           \A i \in Jobs \ {j} : jobs'[i] = jobs[i]
    PROVE  /\ Range(processing'[w]) = Leased(w) \ {j}
           /\ \A u \in Workers \ {w} : Range(processing'[u]) = Leased(u)
           /\ OthersStay(j)
           /\ SingleLease'
<1>1. processing[w] \in Seq(Jobs) /\ IsInjective(processing[w])
  BY DEF RedisTypeOK, SingleLease
<1>2. processing'[w] = RemoveFirst(processing[w], j)
  BY DEF RedisTypeOK
<1>3. /\ IsInjective(processing'[w])
      /\ Range(processing'[w]) = Range(processing[w]) \ {j}
  BY <1>1, <1>2, RemoveFirstRange
<1>4. \A u \in Workers \ {w} : processing'[u] = processing[u]
  BY DEF RedisTypeOK
<1>5. OthersStay(j)
  BY <1>3, <1>4 DEF OthersStay, Stays
<1>6. SingleLease'
  BY <1>3, <1>4 DEF SingleLease, Leased
<1> QED
  BY <1>3, <1>4, <1>5, <1>6 DEF Leased

\* The claim script.
LEMMA ClaimEffect ==
    ASSUME RedisTypeOK, SingleLease, NEW j \in Jobs, ClaimScript(j)
    PROVE  /\ Exists(j) => /\ jobs'[j].status = "running"
                           /\ jobs'[j].attempts = jobs[j].attempts + 1
                           /\ jobs'[j].expires = jobs[j].expires
                           /\ jobs'[j].request_cancel = jobs[j].request_cancel
           /\ ~Exists(j) => jobs' = jobs
           /\ OthersStay(j)
           /\ SingleLease'
           /\ queue' = queue /\ processing' = processing /\ beat' = beat
<1>1. jobs[j] \in Records
  BY DEF RedisTypeOK
<1>2. queue' = queue /\ processing' = processing /\ beat' = beat
  BY DEF ClaimScript
<1>3. OthersStay(j)
  BY <1>2 DEF ClaimScript, RedisTypeOK, OthersStay, Stays
<1>4. SingleLease'
  BY <1>2 DEF SingleLease, Leased
<1>5. ASSUME Exists(j)
      PROVE  /\ jobs'[j].status = "running"
             /\ jobs'[j].attempts = jobs[j].attempts + 1
             /\ jobs'[j].expires = jobs[j].expires
             /\ jobs'[j].request_cancel = jobs[j].request_cancel
  BY <1>1, <1>5 DEF ClaimScript, RedisTypeOK, Records
<1>6. ~Exists(j) => jobs' = jobs
  BY DEF ClaimScript
<1> QED
  BY <1>2, <1>3, <1>4, <1>5, <1>6

\* The save script.
LEMMA SaveEffect ==
    ASSUME RedisTypeOK, SingleLease, NEW w \in Workers, NEW j \in Jobs,
           NEW status, NEW attempts, NEW flag,
           SaveScript(w, j, status, attempts, flag)
    PROVE  /\ Exists(j) =>
                /\ jobs'[j] = [status |-> status, attempts |-> attempts,
                               request_cancel |-> flag, expires |-> TRUE]
                /\ Range(processing'[w]) = Leased(w) \ {j}
           /\ ~Exists(j) => jobs' = jobs /\ processing' = processing
           /\ \A u \in Workers \ {w} : Range(processing'[u]) = Leased(u)
           /\ Range(processing'[w]) \subseteq Leased(w)
           /\ OthersStay(j)
           /\ SingleLease'
           /\ queue' = queue /\ beat' = beat
<1>1. queue' = queue /\ beat' = beat
  BY DEF SaveScript
<1>2. CASE Exists(j)
  <2>1. /\ jobs'[j] = [status |-> status, attempts |-> attempts,
                       request_cancel |-> flag, expires |-> TRUE]
        /\ \A i \in Jobs \ {j} : jobs'[i] = jobs[i]
        /\ processing' = [processing EXCEPT ![w] = RemoveFirst(@, j)]
    BY <1>2 DEF SaveScript, RedisTypeOK
  <2>2. /\ Range(processing'[w]) = Leased(w) \ {j}
        /\ \A u \in Workers \ {w} : Range(processing'[u]) = Leased(u)
        /\ OthersStay(j)
        /\ SingleLease'
    BY <1>1, <2>1, DropEffect
  <2> QED
    BY <1>1, <1>2, <2>1, <2>2
<1>3. CASE ~Exists(j)
  <2>1. jobs' = jobs /\ processing' = processing
    BY <1>3 DEF SaveScript
  <2> QED
    BY <1>1, <1>3, <2>1 DEF OthersStay, Stays, SingleLease, Leased
<1> QED
  BY <1>2, <1>3

\* The release script, called by the owner of a job that is RUNNING.
LEMMA ReleaseEffect ==
    ASSUME RedisTypeOK, SingleLease, NEW w \in Workers, NEW j \in Jobs,
           ReleaseScript(w, j), j \in Leased(w), jobs[j].status = "running"
    PROVE  /\ jobs'[j].status = "queued"
           /\ jobs'[j].expires = jobs[j].expires
           /\ j \in Range(queue')
           /\ \A u \in Workers : Range(processing'[u]) \subseteq Leased(u)
           /\ OthersStay(j)
           /\ SingleLease'
           /\ beat' = beat
<1>1. jobs[j] \in Records
  BY DEF RedisTypeOK
<1>2. /\ jobs' = [jobs EXCEPT ![j].status = "queued"]
      /\ processing' = [processing EXCEPT ![w] = RemoveFirst(@, j)]
      /\ queue' = Append(queue, j)
      /\ beat' = beat
  BY DEF ReleaseScript
<1>3. /\ jobs'[j].status = "queued"
      /\ jobs'[j].expires = jobs[j].expires
      /\ \A i \in Jobs \ {j} : jobs'[i] = jobs[i]
  BY <1>1, <1>2 DEF RedisTypeOK, Records
<1> QED
  BY <1>2, <1>3, MoveBackEffect

\* enqueue of an id that is nowhere.
LEMMA EnqueueEffect ==
    ASSUME RedisTypeOK, SingleLease, NEW j \in Jobs, EnqueueScript(j),
           ~Listed(j)
    PROVE  /\ jobs'[j].status = "queued"
           /\ jobs'[j].expires = FALSE
           /\ j \in Range(queue')
           /\ processing' = processing
           /\ OthersStay(j)
           /\ SingleLease'
           /\ beat' = beat
<1>1. /\ jobs' = [jobs EXCEPT ![j] = NewRecord]
      /\ queue' = Append(queue, j)
      /\ processing' = processing /\ beat' = beat
  BY DEF EnqueueScript
<1>2. queue \in Seq(Jobs) /\ IsInjective(queue)
  BY DEF RedisTypeOK, SingleLease
<1>3. /\ j \notin Range(queue)
      /\ \A w \in Workers : j \notin Range(processing[w])
  BY DEF Listed, Leased
<1>4. IsInjective(queue') /\ Range(queue') = Range(queue) \cup {j}
  BY <1>1, <1>2, <1>3, AppendRange
<1>5. /\ jobs'[j].status = "queued"
      /\ jobs'[j].expires = FALSE
      /\ \A i \in Jobs \ {j} : jobs'[i] = jobs[i]
  BY <1>1 DEF RedisTypeOK, NewRecord, NoRecord
<1>6. OthersStay(j)
  BY <1>1, <1>4, <1>5 DEF OthersStay, Stays
<1>7. SingleLease'
  BY <1>1, <1>3, <1>4 DEF SingleLease, Leased
<1> QED
  BY <1>1, <1>4, <1>5, <1>6, <1>7

\* The ids that the expired pools have leased.
Orphans == UNION {Leased(w) : w \in Expired}

\* The reaper, when every leased id has a record: the ids of the expired pools
\* and no others move to the queue.
LEMMA ReaperEffect ==
    ASSUME RedisTypeOK, SingleLease, ReaperScript,
           \A w \in Workers : \A j \in Leased(w) : Exists(j)
    PROVE  /\ Range(queue') = Range(queue) \cup Orphans
           /\ \A w \in Workers :
                /\ w \in Expired => processing'[w] = <<>> /\ beat'[w] = "none"
                /\ w \notin Expired => /\ processing'[w] = processing[w]
                                       /\ beat'[w] = beat[w]
           /\ \A j \in Jobs :
                IF j \in Orphans /\ jobs[j].status = "running"
                  THEN jobs'[j] = [jobs[j] EXCEPT !.status = "queued"]
                  ELSE jobs'[j] = jobs[j]
           /\ SingleLease'
<1> DEFINE moved(order) == [k \in DOMAIN order |->
                              processing[order[k][1]][order[k][2]]]
<1>1. PICK order \in SetToSeqs(ReapedSlots) :
        /\ queue' = queue \o moved(order)
        /\ jobs' = [j \in Jobs |->
              IF j \in Range(moved(order)) /\ jobs[j].status = "running"
                THEN [jobs[j] EXCEPT !.status = "queued"]
                ELSE jobs[j]]
        /\ processing' = [w \in Workers |->
              IF w \in Expired THEN <<>> ELSE processing[w]]
        /\ beat' = [w \in Workers |->
              IF w \in Expired THEN "none" ELSE beat[w]]
  BY DEF ReaperScript
<1> DEFINE m == moved(order)
<1>2. m \in Seq(Jobs)
  BY MovedType
<1>3. /\ \A k \in DOMAIN order : order[k] \in ReapedSlots
      /\ \A x \in ReapedSlots : \E k \in DOMAIN order : order[k] = x
      /\ \A i, k \in DOMAIN order : order[i] = order[k] => i = k
  BY ReapedSlotsFinite, SetToSeqsRange
<1>4. ASSUME NEW k \in DOMAIN order
      PROVE  /\ order[k] = <<order[k][1], order[k][2]>>
             /\ order[k][1] \in Expired
             /\ order[k][1] \in Workers
             /\ order[k][2] \in DOMAIN processing[order[k][1]]
             /\ m[k] = processing[order[k][1]][order[k][2]]
             /\ m[k] \in Leased(order[k][1])
  <2>1. /\ order[k] = <<order[k][1], order[k][2]>>
        /\ order[k][1] \in Expired
        /\ order[k][2] \in DOMAIN processing[order[k][1]]
    BY <1>3, ReapedSlotsFinite
  <2>2. order[k][1] \in Workers
    BY <2>1 DEF Expired
  <2>3. m[k] = processing[order[k][1]][order[k][2]]
    OBVIOUS
  <2> HIDE DEF m, moved
  <2> QED
    BY <2>1, <2>2, <2>3 DEF Leased, Range
<1>5. DOMAIN m = DOMAIN order
  OBVIOUS
<1> HIDE DEF m, moved
<1>6. Range(m) \subseteq Orphans
  BY <1>4, <1>5 DEF Range, Orphans
<1>7. ASSUME NEW w \in Expired, NEW j \in Leased(w)
      PROVE  j \in Range(m)
  <2>1. PICK i \in DOMAIN processing[w] : j = processing[w][i]
    BY DEF Leased, Range
  <2>2. <<w, i>> \in ReapedSlots
    BY <2>1, ReapedSlotsFinite DEF Expired
  <2>3. PICK k \in DOMAIN order : order[k] = <<w, i>>
    BY <1>3, <2>2
  <2>4. m[k] = j
    BY <1>4, <2>1, <2>3
  <2> QED
    BY <1>5, <2>4 DEF Range
<1>8. Range(m) = Orphans
  BY <1>6, <1>7 DEF Orphans
<1>9. IsInjective(m)
  <2> SUFFICES ASSUME NEW i \in DOMAIN order, NEW k \in DOMAIN order,
                      m[i] = m[k]
               PROVE  i = k
    BY <1>5 DEF IsInjective
  <2>1. order[i][1] = order[k][1]
    BY <1>4 DEF SingleLease
  <2>2. IsInjective(processing[order[i][1]])
    BY <1>4 DEF SingleLease
  <2>3. order[i][2] = order[k][2]
    BY <1>4, <2>1, <2>2 DEF IsInjective
  <2>4. order[i] = order[k]
    BY <1>4, <2>1, <2>3
  <2> QED
    BY <1>3, <2>4
<1>10. Range(queue) \cap Range(m) = {}
  BY <1>8 DEF Orphans, SingleLease, Expired
<1>11. Range(queue') = Range(queue) \cup Orphans /\ IsInjective(queue')
  BY <1>1, <1>2, <1>8, <1>9, <1>10, ConcatRange
     DEF RedisTypeOK, SingleLease, m
<1>12. ASSUME NEW w \in Workers
       PROVE  /\ w \in Expired => processing'[w] = <<>> /\ beat'[w] = "none"
              /\ w \notin Expired => /\ processing'[w] = processing[w]
                                     /\ beat'[w] = beat[w]
  BY <1>1
<1>13. \A j \in Jobs :
         IF j \in Orphans /\ jobs[j].status = "running"
           THEN jobs'[j] = [jobs[j] EXCEPT !.status = "queued"]
           ELSE jobs'[j] = jobs[j]
  BY <1>1, <1>8 DEF m
<1>14. IsInjective(<<>>) /\ Range(<<>>) = {}
  BY DEF IsInjective, Range
<1>15. ASSUME NEW w \in Workers
       PROVE  /\ IsInjective(processing'[w])
              /\ Range(processing'[w]) \cap Range(queue') = {}
              /\ \A v \in Workers \ {w} :
                    Range(processing'[w]) \cap Range(processing'[v]) = {}
  <2>1. CASE w \in Expired
    BY <1>12, <1>14, <2>1
  <2>2. CASE w \notin Expired
    <3>1. /\ IsInjective(processing[w])
          /\ Leased(w) \cap Range(queue) = {}
          /\ \A v \in Workers \ {w} : Leased(w) \cap Leased(v) = {}
      BY DEF SingleLease
    <3>2. Leased(w) \cap Orphans = {}
      BY <2>2, <3>1 DEF Orphans, Expired
    <3>3. processing'[w] = processing[w]
      BY <1>12, <2>2
    <3>4. Range(processing'[w]) \cap Range(queue') = {}
      BY <1>11, <3>1, <3>2, <3>3 DEF Leased
    <3>5. ASSUME NEW v \in Workers \ {w}
          PROVE  Range(processing'[w]) \cap Range(processing'[v]) = {}
      BY <1>12, <1>14, <3>1, <3>3 DEF Leased
    <3> QED
      BY <3>1, <3>3, <3>4, <3>5
  <2> QED
    BY <2>1, <2>2
<1>16. SingleLease'
  BY <1>11, <1>15 DEF SingleLease, Leased
<1> QED
  BY <1>11, <1>12, <1>13, <1>16

-----------------------------------------------------------------------------
(* What a step leaves alone.                                               *)

\* A loop that does not move keeps its part of the invariant when its lease
\* stays and its record keeps status and attempts, or is deleted once settled.
LEMMA LoopFrame ==
    ASSUME NEW k \in Loops, LoopInv(k),
           pc'[k] = pc[k], held'[k] = held[k], body'[k] = body[k],
           pc[k] \notin {"idle", "detached", "exited"}
             => phase'[Owner(k)] = phase[Owner(k)],
           pc[k] = "detached" => beat'[Owner(k)] # "stale",
           Holding(k) =>
             /\ spawns'[held[k].id] # 0
             /\ Attached(k) => held[k].id \in Range(processing'[Owner(k)])
             /\ \/ /\ jobs'[held[k].id].status = jobs[held[k].id].status
                   /\ jobs'[held[k].id].attempts = jobs[held[k].id].attempts
                \/ /\ Settled(held[k].id)
                   /\ jobs'[held[k].id].status = "absent"
    PROVE  LoopInv(k)'
<1>1. ClaimingLoop(k)'
  BY DEF LoopInv, ClaimingLoop, Attached, Leased, Holding
<1>2. RunningLoop(k)'
  BY DEF LoopInv, RunningLoop, Attached, Leased, Holding, Settled, Live
<1>3. CopyCurrent(k)'
  BY DEF LoopInv, CopyCurrent, Holding, Exists
<1>4. LoopPlaced(k)'
  BY DEF LoopInv, LoopPlaced, Alive, Holding
<1> QED
  BY <1>1, <1>2, <1>3, <1>4 DEF LoopInv

\* A job that stays where it is keeps its part of the invariant.
LEMMA JobFrame ==
    ASSUME NEW i \in Jobs, JobInv(i), Stays(i),
           spawns'[i] = spawns[i], result'[i] = result[i]
    PROVE  JobInv(i)'
<1>1. Live(i)' <=> Live(i)
  BY DEF Stays, Live
<1>2. Listed(i)' <=> Listed(i)
  BY DEF Stays, Listed, Leased
<1>3. (IsTerminal(i)' <=> IsTerminal(i)) /\ (Exists(i)' <=> Exists(i))
  BY DEF Stays, IsTerminal, Exists
<1> QED
  BY <1>1, <1>2, <1>3 DEF JobInv, Stays, Settled

\* A step of one loop: what is left to show is about that loop, the jobs it
\* touched and the list it touched.
LEMMA OneLoop ==
    ASSUME LeaseInv, TypeInv', SingleLease', NEW l \in Loops,
           \A k \in Loops \ {l} : /\ pc'[k] = pc[k]
                                  /\ held'[k] = held[k]
                                  /\ body'[k] = body[k],
           UNCHANGED <<phase, upkeep, beat, clientVars>>,
           \A k \in Loops \ {l} : Holding(k) => Stays(held[k].id),
           \A u \in Workers :
             Range(processing'[u]) # {} => Leased(u) # {} \/ Alive(u),
           Holding(l)' =>
             \A k \in Loops \ {l} : Holding(k) => held[k].id # held'[l].id,
           \A i \in Jobs : Stays(i) \/ JobInv(i)',
           LoopInv(l)'
    PROVE  LeaseInv'
<1>1. TypeOK' /\ HeldIsJob'
  BY DEF TypeInv, RedisTypeOK, LocalTypeOK, TypeOK
<1>2. HeldApart'
  BY DEF LeaseInv, HeldApart, Holding
<1>3. ASSUME NEW k \in Loops
      PROVE  LoopInv(k)'
  <2>1. CASE k = l
    BY <2>1
  <2>2. CASE k # l
    <3>1. pc'[k] = pc[k] /\ held'[k] = held[k] /\ body'[k] = body[k]
      BY <2>2
    <3>2. LoopInv(k)
      BY DEF LeaseInv
    <3>3. pc[k] = "detached" => beat'[Owner(k)] # "stale"
      BY <3>2 DEF LoopInv, LoopPlaced
    <3>4. ASSUME Holding(k)
          PROVE  /\ spawns'[held[k].id] # 0
                 /\ Attached(k) => held[k].id \in Range(processing'[Owner(k)])
                 /\ jobs'[held[k].id] = jobs[held[k].id]
      <4>1. Stays(held[k].id)
        BY <2>2, <3>4
      <4>2. spawns'[held[k].id] # 0
        BY <3>2, <3>4 DEF LoopInv, LoopPlaced, clientVars
      <4> QED
        BY <4>1, <4>2, OwnerIsWorker DEF Stays, Attached, Leased
    <3> QED
      BY <3>1, <3>2, <3>3, <3>4, LoopFrame
  <2> QED
    BY <2>1, <2>2
<1>4. ASSUME NEW i \in Jobs
      PROVE  JobInv(i)'
  BY JobFrame DEF LeaseInv, clientVars
<1>5. ASSUME NEW w \in Workers
      PROVE  PoolInv(w)'
  <2>1. PoolInv(w)
    BY DEF LeaseInv
  <2>2. Alive(w)' <=> Alive(w)
    BY DEF Alive
  <2>3. Leased(w)' # {} => Leased(w) # {} \/ Alive(w)
    BY DEF Leased
  <2> QED
    BY <2>1, <2>2, <2>3 DEF PoolInv
<1> QED
  BY <1>1, <1>2, <1>3, <1>4, <1>5 DEF LeaseInv

\* A step of one loop that changes nothing in Redis.
LEMMA LocalStep ==
    ASSUME LeaseInv, TypeInv', NEW l \in Loops,
           \A k \in Loops \ {l} : /\ pc'[k] = pc[k]
                                  /\ held'[k] = held[k]
                                  /\ body'[k] = body[k],
           UNCHANGED <<redisVars, phase, upkeep, clientVars>>,
           Holding(l)' => Holding(l) /\ held'[l].id = held[l].id,
           LoopInv(l)'
    PROVE  LeaseInv'
<1>1. \A i : Stays(i)
  BY DEF Stays, redisVars
<1>2. SingleLease'
  BY DEF LeaseInv, SingleLease, Leased, redisVars
<1>3. \A u \in Workers : Range(processing'[u]) # {} => Leased(u) # {}
  BY DEF redisVars, Leased
<1>4. Holding(l)' =>
        \A k \in Loops \ {l} : Holding(k) => held[k].id # held'[l].id
  BY DEF LeaseInv, HeldApart
<1> QED
  BY <1>1, <1>2, <1>3, <1>4, OneLoop DEF redisVars

-----------------------------------------------------------------------------
(* The claim loops.                                                        *)

\* No loop works on an id that is on the queue.
LEMMA QueuedNotHeld ==
    ASSUME LeaseInv, NEW j \in Jobs, j \in Range(queue),
           NEW k \in Loops, Holding(k)
    PROVE  held[k].id # j
<1>1. Live(j)
  BY DEF LeaseInv, JobInv, Listed
<1>2. LoopInv(k) /\ Owner(k) \in Workers
  BY OwnerIsWorker DEF LeaseInv
<1>3. pc[k] \in PCs
  BY LeaseInvTypes DEF LocalTypeOK
<1>4. Attached(k) \/ Settled(held[k].id)
  BY <1>2, <1>3 DEF LoopInv, ClaimingLoop, RunningLoop, Holding, PCs
<1>5. \A w \in Workers : j \notin Leased(w)
  BY DEF LeaseInv, SingleLease
<1> QED
  BY <1>1, <1>2, <1>4, <1>5 DEF Attached, Settled

\* The job in a loop's hands is in no other's.
LEMMA OthersHold ==
    ASSUME LeaseInv, NEW l \in Loops, Holding(l), OthersStay(held[l].id)
    PROVE  /\ held[l].id \in Jobs
           /\ \A k \in Loops \ {l} : Holding(k) =>
                held[k].id # held[l].id /\ Stays(held[k].id)
<1>1. \A k \in Loops : Holding(k) => held[k].id \in Jobs
  BY DEF LeaseInv, HeldIsJob
<1>2. \A k \in Loops \ {l} : Holding(k) => held[k].id # held[l].id
  BY DEF LeaseInv, HeldApart
<1> QED
  BY <1>1, <1>2 DEF OthersStay

\* What a move of loop l leaves to the other loops.
LEMMA OnlyThisLoop ==
    ASSUME LocalTypeOK, NEW l \in Loops,
           \/ NextRound(l) \/ Exit(l) \/ (\E label : Goto(l, label))
           \/ \E label, job : /\ pc' = [pc EXCEPT ![l] = label]
                              /\ held' = [held EXCEPT ![l] = job],
           body' = body \/ \E b : body' = [body EXCEPT ![l] = b]
    PROVE  \A k \in Loops \ {l} : /\ pc'[k] = pc[k]
                                  /\ held'[k] = held[k]
                                  /\ body'[k] = body[k]
BY DEF LocalTypeOK, NextRound, Exit, Goto

\* A loop with nothing in hand.
LEMMA FreeLoop ==
    ASSUME LocalTypeOK, NEW l \in Loops, NextRound(l) \/ Exit(l),
           ~body'[l], phase' = phase
    PROVE  LoopInv(l)' /\ ~Holding(l)'
<1>1. pc'[l] = "exited" \/ (pc'[l] = "polling" /\ phase[Owner(l)] = "up")
  BY DEF NextRound, Exit, LocalTypeOK
<1>2. ~Holding(l)'
  BY <1>1 DEF Holding
<1>3. ClaimingLoop(l)' /\ CopyCurrent(l)'
  BY <1>1 DEF ClaimingLoop, CopyCurrent
<1>4. RunningLoop(l)'
  BY <1>1 DEF RunningLoop
<1>5. LoopPlaced(l)'
  BY <1>1, <1>2 DEF LoopPlaced, Alive
<1> QED
  BY <1>2, <1>3, <1>4, <1>5 DEF LoopInv

\* BLMOVE by a loop that takes the id in hand, or loses it with its reply.
LEMMA LeaseKeeps ==
    ASSUME LeaseInv, TypeInv', NEW l \in Loops, Blmove(Owner(l)),
           pc[l] = "polling",
           \/ /\ pc' = [pc EXCEPT ![l] = "leased"]
              /\ held' = [held EXCEPT ![l].id = Head(queue)]
           \/ NextRound(l)
           \/ Exit(l),
           UNCHANGED <<clientVars, phase, upkeep, body>>
    PROVE  LeaseInv'
<1> DEFINE w == Owner(l)
<1>0. w \in Workers /\ RedisTypeOK /\ LocalTypeOK /\ LoopInv(l) /\ SingleLease
  BY OwnerIsWorker, LeaseInvTypes DEF LeaseInv
<1>a. PICK h \in Jobs : h = Head(queue)
  BY <1>0, BlmoveEffect
<1>1. /\ h \in Range(queue)
      /\ h \in Range(processing'[w])
      /\ \A u \in Workers \ {w} : processing'[u] = processing[u]
      /\ OthersStay(h)
      /\ SingleLease'
      /\ jobs' = jobs /\ beat' = beat
  BY <1>0, <1>a, BlmoveEffect
<1> HIDE DEF w
<1>2. \A k \in Loops : Holding(k) => held[k].id \in Jobs /\ held[k].id # h
  BY <1>1, QueuedNotHeld DEF LeaseInv, HeldIsJob
<1>3. \A k \in Loops \ {l} : Holding(k) => Stays(held[k].id)
  BY <1>1, <1>2 DEF OthersStay
<1>4. ~body[l] /\ Alive(w)
  BY <1>0 DEF LoopInv, RunningLoop, LoopPlaced, w
<1>5. \A u \in Workers :
        Range(processing'[u]) # {} => Leased(u) # {} \/ Alive(u)
  BY <1>1, <1>4 DEF Leased
<1>6. JobInv(h)'
  <2>1. JobInv(h) /\ Live(h)
    BY <1>1 DEF LeaseInv, JobInv, Listed
  <2>2. Live(h)' /\ Listed(h)'
    BY <1>0, <1>1, <2>1 DEF Live, Listed, Leased
  <2> QED
    BY <1>1, <2>1, <2>2 DEF JobInv, IsTerminal, Exists, Settled, clientVars
<1>7. \A i \in Jobs : Stays(i) \/ JobInv(i)'
  BY <1>1, <1>6 DEF OthersStay
<1>8. \A k \in Loops \ {l} : pc'[k] = pc[k] /\ held'[k] = held[k]
                             /\ body'[k] = body[k]
  BY <1>0 DEF LocalTypeOK, NextRound, Exit
<1>9. LoopInv(l)' /\ (Holding(l)' => held'[l].id = h)
  <2>1. CASE NextRound(l) \/ Exit(l)
    BY <1>0, <1>4, <2>1, FreeLoop
  <2>2. CASE /\ pc' = [pc EXCEPT ![l] = "leased"]
             /\ held' = [held EXCEPT ![l].id = h]
    <3>1. pc'[l] = "leased" /\ held'[l].id = h
      BY <1>0, <2>2 DEF LocalTypeOK, Holds
    <3>2. ClaimingLoop(l)'
      BY <1>1, <3>1 DEF ClaimingLoop, Attached, Leased, w
    <3>3. RunningLoop(l)' /\ CopyCurrent(l)'
      BY <1>4, <3>1 DEF RunningLoop, CopyCurrent
    <3>4. spawns[h] # 0
      BY <1>1 DEF LeaseInv, JobInv, Listed, Live, Exists
    <3>5. LoopPlaced(l)'
      BY <1>4, <3>1, <3>4 DEF LoopPlaced, Alive, clientVars, w
    <3> QED
      BY <3>1, <3>2, <3>3, <3>5 DEF LoopInv
  <2> QED
    BY <1>a, <2>1, <2>2
<1> QED
  BY <1>1, <1>2, <1>3, <1>5, <1>7, <1>8, <1>9, OneLoop

\* A step of a loop that concerns the job it has in hand.
LEMMA OwnJob ==
    ASSUME LeaseInv, TypeInv', SingleLease', NEW l \in Loops, Holding(l),
           NEW j \in Jobs, j = held[l].id, OthersStay(j),
           \A k \in Loops \ {l} : /\ pc'[k] = pc[k]
                                  /\ held'[k] = held[k]
                                  /\ body'[k] = body[k],
           UNCHANGED <<phase, upkeep, beat, clientVars>>,
           \A u \in Workers : Range(processing'[u]) \subseteq Leased(u),
           Holding(l)' => held'[l].id = j,
           JobInv(j)',
           LoopInv(l)'
    PROVE  LeaseInv'
<1>1. \A k \in Loops \ {l} : Holding(k) =>
        held[k].id # j /\ Stays(held[k].id)
  BY OthersHold
<1>2. \A i \in Jobs : Stays(i) \/ JobInv(i)'
  BY DEF OthersStay
<1>3. \A u \in Workers : Range(processing'[u]) # {} => Leased(u) # {}
  OBVIOUS
<1> QED
  BY <1>1, <1>2, <1>3, OneLoop

\* An unfinished job that stays unfinished and listed.
LEMMA LiveStep ==
    ASSUME LeaseInv, NEW j \in Jobs, Live(j), Live(j)', Listed(j)',
           jobs'[j].expires = jobs[j].expires, UNCHANGED clientVars
    PROVE  JobInv(j)'
<1>1. JobInv(j)
  BY DEF LeaseInv
<1>2. ~jobs[j].expires /\ result[j] # "ready" /\ spawns[j] # 0
  BY <1>1 DEF JobInv, IsTerminal, Live, Terminal, Settled, Exists
<1> QED
  BY <1>1, <1>2 DEF JobInv, clientVars

\* An unfinished job of a loop is listed and has a record.
LEMMA AttachedIsLive ==
    ASSUME LeaseInv, NEW l \in Loops, Holding(l), Attached(l)
    PROVE  Live(held[l].id) /\ Exists(held[l].id) /\ Listed(held[l].id)
<1>1. held[l].id \in Jobs /\ Listed(held[l].id)
  BY OwnerIsWorker DEF LeaseInv, HeldIsJob, Attached, Listed
<1> QED
  BY <1>1 DEF LeaseInv, JobInv, Live, Exists

\* What is known of a loop at one of claim's awaits.
LEMMA ClaimingFacts ==
    ASSUME LeaseInv, NEW l \in Loops, pc[l] \in {"leased", "returning"}
    PROVE  /\ Holding(l) /\ held[l].id \in Jobs
           /\ Attached(l) /\ Live(held[l].id) /\ Exists(held[l].id)
           /\ ~body[l] /\ Alive(Owner(l)) /\ spawns[held[l].id] # 0
<1>1. Holding(l) /\ LoopInv(l)
  BY DEF Holding, LeaseInv
<1>2. Attached(l) /\ ~body[l] /\ Alive(Owner(l)) /\ spawns[held[l].id] # 0
  BY <1>1 DEF LoopInv, ClaimingLoop, RunningLoop, LoopPlaced
<1> QED
  BY <1>1, <1>2, AttachedIsLive DEF LeaseInv, HeldIsJob

\* The claim script, whatever the loop does with the reply.
LEMMA ClaimKeeps ==
    ASSUME LeaseInv, TypeInv', NEW l \in Loops, NEW j \in Jobs,
           j = held[l].id, pc[l] = "leased", ClaimScript(j),
           UNCHANGED <<clientVars, phase, upkeep>>,
           \/ (NextRound(l) \/ Exit(l) \/ Goto(l, "returning"))
                /\ body' = body
           \/ \E outcome \in {"cancelled", "failed", "running"} :
                /\ held' = [held EXCEPT ![l] =
                              [id |-> j, status |-> outcome,
                               attempts |-> jobs[j].attempts + 1,
                               request_cancel |-> jobs[j].request_cancel]]
                /\ pc' = [pc EXCEPT ![l] =
                            IF outcome = "running" THEN "running"
                                                   ELSE "resaving"]
                /\ body' = [body EXCEPT ![l] = outcome = "running"]
    PROVE  LeaseInv'
<1>0. RedisTypeOK /\ LocalTypeOK /\ SingleLease
  BY LeaseInvTypes DEF LeaseInv
<1>1. /\ Holding(l) /\ Attached(l) /\ Live(j) /\ Exists(j) /\ ~body[l]
      /\ Alive(Owner(l)) /\ spawns[j] # 0
  BY ClaimingFacts
<1>2. /\ jobs'[j].status = "running"
      /\ jobs'[j].attempts = jobs[j].attempts + 1
      /\ jobs'[j].expires = jobs[j].expires
      /\ OthersStay(j) /\ SingleLease'
      /\ queue' = queue /\ processing' = processing /\ beat' = beat
  BY <1>0, <1>1, ClaimEffect
<1>3. JobInv(j)'
  <2>1. Live(j)' /\ Listed(j)'
    BY <1>1, <1>2, AttachedIsLive DEF Live, Listed, Leased
  <2> QED
    BY <1>1, <1>2, <2>1, LiveStep
<1>4. \A k \in Loops \ {l} : pc'[k] = pc[k] /\ held'[k] = held[k]
                             /\ body'[k] = body[k]
  BY <1>0 DEF LocalTypeOK, NextRound, Exit, Goto
<1>5. \A u \in Workers : Range(processing'[u]) \subseteq Leased(u)
  BY <1>2 DEF Leased
<1>6. LoopInv(l)' /\ (Holding(l)' => held'[l].id = j)
  <2>1. CASE (NextRound(l) \/ Exit(l)) /\ body' = body
    BY <1>0, <1>1, <2>1, FreeLoop
  <2>2. CASE Goto(l, "returning") /\ body' = body
    <3>1. pc'[l] = "returning" /\ held'[l].id = j /\ ~body'[l]
      BY <1>0, <1>1, <2>2 DEF Goto, LocalTypeOK
    <3>2. ClaimingLoop(l)' /\ RunningLoop(l)' /\ CopyCurrent(l)'
      BY <1>1, <1>2, <3>1
         DEF ClaimingLoop, RunningLoop, CopyCurrent, Attached, Leased
    <3>3. LoopPlaced(l)'
      BY <1>1, <3>1 DEF LoopPlaced, Alive, clientVars
    <3> QED
      BY <3>1, <3>2, <3>3 DEF LoopInv
  <2>3. ASSUME NEW outcome \in {"cancelled", "failed", "running"},
               /\ held' = [held EXCEPT ![l] =
                              [id |-> j, status |-> outcome,
                               attempts |-> jobs[j].attempts + 1,
                               request_cancel |-> jobs[j].request_cancel]]
               /\ pc' = [pc EXCEPT ![l] =
                            IF outcome = "running" THEN "running"
                                                   ELSE "resaving"]
               /\ body' = [body EXCEPT ![l] = outcome = "running"]
        PROVE  LoopInv(l)' /\ held'[l].id = j
    <3>1. /\ held'[l].id = j
          /\ held'[l].status = outcome
          /\ held'[l].attempts = jobs[j].attempts + 1
          /\ pc'[l] = IF outcome = "running" THEN "running" ELSE "resaving"
          /\ body'[l] => outcome = "running"
      BY <1>0, <2>3 DEF LocalTypeOK
    <3>2. Attached(l)'
      BY <1>1, <1>2, <3>1 DEF Attached, Leased
    <3>3. ClaimingLoop(l)' /\ RunningLoop(l)'
      BY <1>2, <3>1, <3>2 DEF ClaimingLoop, RunningLoop
    <3>4. CopyCurrent(l)'
      BY <1>2, <3>1 DEF CopyCurrent, Terminal
    <3>5. LoopPlaced(l)'
      BY <1>1, <3>1 DEF LoopPlaced, Alive, clientVars
    <3> QED
      BY <3>1, <3>3, <3>4, <3>5 DEF LoopInv
  <2> QED
    BY <2>1, <2>2, <2>3
<1> QED
  BY <1>1, <1>2, <1>3, <1>4, <1>5, <1>6, OwnJob

\* claim's error handler hands the id back.
LEMMA ReturnKeeps ==
    ASSUME LeaseInv, TypeInv', NEW l \in Loops, NEW j \in Jobs,
           j = held[l].id, pc[l] = "returning", ReturnLease(Owner(l), j),
           NextRound(l) \/ Exit(l),
           UNCHANGED <<clientVars, phase, upkeep, body>>
    PROVE  LeaseInv'
<1>0. RedisTypeOK /\ LocalTypeOK /\ SingleLease /\ Owner(l) \in Workers
  BY LeaseInvTypes, OwnerIsWorker DEF LeaseInv
<1>1. Holding(l) /\ Attached(l) /\ Live(j) /\ ~body[l]
  BY ClaimingFacts
<1>2. j \in Leased(Owner(l))
  BY <1>1 DEF Attached
<1>3. /\ j \in Range(queue')
      /\ \A u \in Workers : Range(processing'[u]) \subseteq Leased(u)
      /\ OthersStay(j) /\ SingleLease' /\ jobs' = jobs /\ beat' = beat
  <2>1. /\ processing' = [processing EXCEPT ![Owner(l)] = RemoveFirst(@, j)]
        /\ queue' = Append(queue, j)
        /\ jobs' = jobs /\ beat' = beat
    BY DEF ReturnLease
  <2> QED
    BY <1>0, <1>2, <2>1, MoveBackEffect
<1>4. JobInv(j)'
  <2>1. Live(j)' /\ Listed(j)'
    BY <1>1, <1>3 DEF Live, Listed
  <2> QED
    BY <1>1, <1>3, <2>1, LiveStep
<1>5. LoopInv(l)' /\ ~Holding(l)'
  BY <1>0, <1>1, FreeLoop
<1>6. \A k \in Loops \ {l} : pc'[k] = pc[k] /\ held'[k] = held[k]
                             /\ body'[k] = body[k]
  BY <1>0 DEF LocalTypeOK, NextRound, Exit
<1> QED
  BY <1>1, <1>3, <1>4, <1>5, <1>6, OwnJob

\* Backend.claim keeps the invariant.
LEMMA ClaimStepKeeps ==
    ASSUME LeaseInv, TypeInv', NEW l \in Loops, ClaimStep(l)
    PROVE  LeaseInv'
<1>0. LocalTypeOK /\ LoopInv(l)
  BY LeaseInvTypes DEF LeaseInv
<1>1. CASE Lease(l)
  BY <1>1, LeaseKeeps DEF Lease
<1>2. CASE LeaseReplyLost(l)
  BY <1>2, LeaseKeeps DEF LeaseReplyLost
<1>3. CASE LeaseTimesOut(l)
  <2>1. ~body'[l]
    BY <1>0, <1>3 DEF LeaseTimesOut, LoopInv, RunningLoop
  <2>2. LoopInv(l)' /\ ~Holding(l)'
    BY <1>0, <1>3, <2>1, FreeLoop DEF LeaseTimesOut
  <2> QED
    BY <1>0, <1>3, <2>2, OnlyThisLoop, LocalStep DEF LeaseTimesOut
<1>4. CASE Claim(l)
  <2>1. PICK j \in Jobs : j = held[l].id
    BY <1>4, ClaimingFacts DEF Claim
  <2>2. Exists(j)
    BY <1>4, <2>1, ClaimingFacts DEF Claim
  <2>3. pc[l] = "leased" /\ ClaimScript(j) /\ UNCHANGED <<clientVars, phase, upkeep>>
    BY <1>4, <2>1 DEF Claim
  <2>4. \/ NextRound(l) /\ body' = body
        \/ \E outcome \in {"cancelled", "failed", "running"} :
             /\ held' = [held EXCEPT ![l] =
                           [id |-> j, status |-> outcome,
                            attempts |-> jobs[j].attempts + 1,
                            request_cancel |-> jobs[j].request_cancel]]
             /\ pc' = [pc EXCEPT ![l] =
                         IF outcome = "running" THEN "running"
                                                ELSE "resaving"]
             /\ body' = [body EXCEPT ![l] = outcome = "running"]
    BY <1>4, <2>1, <2>2 DEF Claim
  <2> QED
    BY <2>1, <2>3, <2>4, ClaimKeeps
<1>5. CASE ClaimFails(l)
  <2>1. PICK j \in Jobs : j = held[l].id
    BY <1>5, ClaimingFacts DEF ClaimFails
  <2>2. CASE ClaimScript(j)
    BY <1>5, <2>1, <2>2, ClaimKeeps DEF ClaimFails
  <2>3. CASE UNCHANGED redisVars
    <3>1. pc'[l] = "returning" /\ held'[l] = held[l] /\ body'[l] = body[l]
      BY <1>0, <1>5 DEF ClaimFails, Goto, LocalTypeOK
    <3>2. /\ Holding(l) /\ Attached(l) /\ ~body[l] /\ Alive(Owner(l))
          /\ spawns[held[l].id] # 0
      BY <1>5, ClaimingFacts DEF ClaimFails
    <3>3. LoopInv(l)'
      BY <1>5, <2>3, <3>1, <3>2
         DEF ClaimFails, LoopInv, ClaimingLoop, RunningLoop, CopyCurrent,
             LoopPlaced, Attached, Leased, Alive, redisVars, clientVars
    <3> QED
      BY <1>0, <1>5, <2>3, <3>1, <3>2, <3>3, OnlyThisLoop, LocalStep
         DEF ClaimFails
  <2> QED
    BY <1>5, <2>1, <2>2, <2>3 DEF ClaimFails
<1>6. CASE Return(l)
  <2>1. PICK j \in Jobs : j = held[l].id
    BY <1>6, ClaimingFacts DEF Return
  <2>2. CASE ReturnLease(Owner(l), j)
    BY <1>6, <2>1, <2>2, ReturnKeeps DEF Return
  <2>3. CASE UNCHANGED redisVars
    <3>1. ~body'[l]
      BY <1>6, ClaimingFacts DEF Return
    <3>2. LoopInv(l)' /\ ~Holding(l)'
      BY <1>0, <1>6, <3>1, FreeLoop DEF Return
    <3> QED
      BY <1>0, <1>6, <2>3, <3>2, OnlyThisLoop, LocalStep DEF Return
  <2> QED
    BY <1>6, <2>1, <2>2, <2>3 DEF Return
<1>7. ~Discard(l)
  BY <1>0 DEF Discard, LoopInv, ClaimingLoop
<1> QED
  BY <1>1, <1>2, <1>3, <1>4, <1>5, <1>6, <1>7 DEF ClaimStep

\* What is known of a loop that runs, saves or releases its job.
LEMMA RunningFacts ==
    ASSUME LeaseInv, NEW l \in Loops,
           pc[l] \in {"running", "unwatched", "saving", "resaving",
                      "unwinding", "aborting", "releasing", "detached"}
    PROVE  /\ Holding(l) /\ held[l].id \in Jobs
           /\ spawns[held[l].id] # 0
           /\ pc[l] # "detached" => Alive(Owner(l))
           /\ \/ Attached(l) /\ jobs[held[l].id].status = "running"
              \/ Settled(held[l].id)
           /\ pc[l] \in {"running", "unwatched", "saving"} =>
                Attached(l) /\ jobs[held[l].id].status = "running"
           /\ body[l] => pc[l] \in {"running", "unwatched", "saving",
                                    "resaving", "unwinding", "aborting"}
<1>1. LoopInv(l) /\ Holding(l)
  BY DEF LeaseInv, Holding
<1> QED
  BY <1>1 DEF LeaseInv, HeldIsJob, LoopInv, RunningLoop, LoopPlaced

\* A loop that goes on with its job while nothing changes in Redis.
LEMMA LateLoop ==
    ASSUME LeaseInv, NEW l \in Loops,
           pc[l] \in {"running", "unwatched", "saving", "resaving",
                      "unwinding", "aborting", "releasing"},
           UNCHANGED <<redisVars, phase, clientVars>>,
           held'[l].id = held[l].id,
           \/ pc'[l] \in {"unwinding", "aborting"}
           \/ pc'[l] \in {"releasing", "detached"} /\ ~body'[l]
           \/ /\ pc[l] \in {"running", "unwatched", "saving"}
              /\ pc'[l] = "unwatched" => pc[l] = "running"
              /\ pc'[l] \in {"unwatched", "saving", "resaving"}
              /\ held'[l].attempts = held[l].attempts
              /\ pc'[l] # "unwatched" => held'[l].status \in Terminal
    PROVE  LoopInv(l)' /\ Holding(l) /\ Holding(l)'
<1>1. /\ Holding(l) /\ spawns[held[l].id] # 0 /\ Alive(Owner(l))
      /\ \/ Attached(l) /\ jobs[held[l].id].status = "running"
         \/ Settled(held[l].id)
      /\ pc[l] \in {"running", "unwatched", "saving"} =>
           Attached(l) /\ jobs[held[l].id].status = "running"
  BY RunningFacts
<1>2. Holding(l)'
  BY DEF Holding
<1>3. /\ Attached(l)' <=> Attached(l)
      /\ Settled(held[l].id)' <=> Settled(held[l].id)
      /\ jobs'[held'[l].id] = jobs[held[l].id]
  BY DEF Attached, Leased, Settled, Live, redisVars
<1>4. ClaimingLoop(l)'
  BY DEF ClaimingLoop
<1>5. RunningLoop(l)'
  BY <1>1, <1>3 DEF RunningLoop
<1>6. CopyCurrent(l)'
  <2>1. CASE pc'[l] \in {"unwatched", "saving", "resaving"}
    <3>1. CopyCurrent(l)
      BY DEF LeaseInv, LoopInv
    <3>2. Exists(held[l].id)' => Exists(held[l].id)
      BY <1>3 DEF Exists
    <3> QED
      BY <1>3, <2>1, <3>1, <3>2 DEF CopyCurrent
  <2>2. CASE pc'[l] \notin {"unwatched", "saving", "resaving"}
    BY <2>2 DEF CopyCurrent
  <2> QED
    BY <2>1, <2>2
<1>7. LoopPlaced(l)'
  <2>1. Owner(l) \in Workers
    BY OwnerIsWorker
  <2>2. beat[Owner(l)] = "fresh"
    BY <1>1, <2>1 DEF LeaseInv, PoolInv
  <2> QED
    BY <1>1, <2>2 DEF LoopPlaced, Alive, redisVars, clientVars
<1> QED
  BY <1>1, <1>2, <1>4, <1>5, <1>6, <1>7 DEF LoopInv

\* A save that reached Redis: the job is settled and off every list, wherever
\* the loop goes next.
LEMMA SavedKeeps ==
    ASSUME LeaseInv, TypeInv', NEW l \in Loops, NEW j \in Jobs,
           j = held[l].id, pc[l] \in {"saving", "resaving"}, CallSave(l),
           UNCHANGED <<clientVars, phase, upkeep, body>>,
           \/ LeaveRun(l)
           \/ /\ pc' = [pc EXCEPT ![l] = "resaving"]
              /\ held' = [held EXCEPT ![l].status = "failed"]
           \/ Goto(l, IF body[l] THEN "aborting" ELSE "releasing")
    PROVE  LeaseInv'
<1> DEFINE w == Owner(l)
<1>0. RedisTypeOK /\ LocalTypeOK /\ SingleLease /\ w \in Workers /\ JobInv(j)
  BY LeaseInvTypes, OwnerIsWorker DEF LeaseInv
<1>1. /\ Holding(l) /\ spawns[j] # 0 /\ Alive(w)
      /\ Attached(l) \/ Settled(j)
  BY RunningFacts
<1>2. held[l].status \in Terminal
  BY DEF LeaseInv, LoopInv, CopyCurrent
<1>3. /\ Exists(j) =>
           /\ jobs'[j] = [status |-> held[l].status,
                          attempts |-> held[l].attempts,
                          request_cancel |-> held[l].request_cancel,
                          expires |-> TRUE]
           /\ Range(processing'[w]) = Leased(w) \ {j}
      /\ ~Exists(j) => jobs' = jobs /\ processing' = processing
      /\ \A u \in Workers \ {w} : Range(processing'[u]) = Leased(u)
      /\ Range(processing'[w]) \subseteq Leased(w)
      /\ OthersStay(j) /\ SingleLease'
      /\ queue' = queue /\ beat' = beat
  BY <1>0, SaveEffect DEF CallSave
<1>4. Settled(j)'
  BY <1>2, <1>3 DEF Exists, Settled, Live, Terminal
<1>5. \A u \in Workers : Range(processing'[u]) \subseteq Leased(u)
  BY <1>3
<1>6. ~Listed(j)'
  <2>1. CASE Settled(j)
    <3>1. j \notin Range(queue) /\ \A u \in Workers : j \notin Leased(u)
      BY <1>0, <2>1 DEF JobInv, Settled, Listed
    <3> QED
      BY <1>3, <1>5, <3>1 DEF Listed, Leased
  <2>2. CASE Attached(l) /\ ~Settled(j)
    <3>1. j \in Leased(w)
      BY <2>2 DEF Attached
    <3>2. j \notin Range(queue) /\ \A u \in Workers \ {w} : j \notin Leased(u)
      BY <1>0, <3>1 DEF SingleLease
    <3>3. Exists(j)
      BY <2>2 DEF Settled, Live, Exists
    <3> QED
      BY <1>3, <3>2, <3>3 DEF Listed, Leased
  <2> QED
    BY <1>1, <2>1, <2>2
<1>7. JobInv(j)'
  <2>1. jobs'[j].expires => IsTerminal(j)'
    <3>1. CASE Exists(j)
      BY <1>2, <1>3, <3>1 DEF IsTerminal
    <3>2. CASE ~Exists(j)
      BY <1>0, <1>3, <3>2 DEF IsTerminal, JobInv
    <3> QED
      BY <3>1, <3>2
  <2> QED
    BY <1>0, <1>1, <1>4, <1>6, <2>1 DEF JobInv, Settled, clientVars
<1>8. \A k \in Loops \ {l} : pc'[k] = pc[k] /\ held'[k] = held[k]
                             /\ body'[k] = body[k]
  BY <1>0 DEF LocalTypeOK, LeaveRun, NextRound, Goto
<1>9. LoopInv(l)' /\ (Holding(l)' => held'[l].id = j)
  <2>1. CASE NextRound(l) /\ ~body[l]
    BY <1>0, <2>1, FreeLoop
  <2>2. CASE ~(NextRound(l) /\ ~body[l])
    <3>1. /\ held'[l].id = j /\ held'[l].attempts = held[l].attempts
          /\ pc'[l] \in {"resaving", "unwinding", "aborting", "releasing"}
          /\ pc'[l] = "resaving" => held'[l].status = "failed"
          /\ pc'[l] = "releasing" => ~body[l]
      BY <1>0, <2>2 DEF LeaveRun, Goto, LocalTypeOK, Holds
    <3>2. ClaimingLoop(l)'
      BY <3>1 DEF ClaimingLoop
    <3>3. RunningLoop(l)'
      BY <1>4, <3>1 DEF RunningLoop
    <3>4. jobs'[j].status # "absent" => jobs'[j].attempts = held[l].attempts
      BY <1>3 DEF Exists
    <3>5. CopyCurrent(l)'
      BY <3>1, <3>4 DEF CopyCurrent, Exists, Terminal
    <3>6. LoopPlaced(l)'
      BY <1>1, <3>1 DEF LoopPlaced, Alive, clientVars
    <3> QED
      BY <3>1, <3>2, <3>3, <3>5, <3>6 DEF LoopInv
  <2> QED
    BY <2>1, <2>2
<1> QED
  BY <1>1, <1>3, <1>5, <1>7, <1>8, <1>9, OwnJob

\* A save that did not reach Redis.
LEMMA UnsavedKeeps ==
    ASSUME LeaseInv, TypeInv', NEW l \in Loops,
           pc[l] \in {"saving", "resaving"},
           UNCHANGED <<redisVars, clientVars, phase, upkeep, body>>,
           \/ SaveRaises(l)
           \/ Goto(l, IF body[l] THEN "aborting" ELSE "releasing")
    PROVE  LeaseInv'
<1>0. LocalTypeOK
  BY LeaseInvTypes
<1>1. \A k \in Loops \ {l} : pc'[k] = pc[k] /\ held'[k] = held[k]
                             /\ body'[k] = body[k]
  BY <1>0 DEF LocalTypeOK, SaveRaises, LeaveRun, NextRound, Goto
<1>2. CASE NextRound(l) /\ ~body[l]
  <2>1. LoopInv(l)' /\ ~Holding(l)'
    BY <1>0, <1>2, FreeLoop
  <2> QED
    BY <1>1, <2>1, LocalStep
<1>3. CASE ~(NextRound(l) /\ ~body[l])
  <2>1. /\ held'[l].id = held[l].id /\ held'[l].attempts = held[l].attempts
        /\ \/ pc[l] = "saving" /\ pc'[l] = "resaving"
              /\ held'[l].status = "failed"
           \/ pc'[l] \in {"unwinding", "aborting"}
           \/ pc'[l] = "releasing" /\ ~body[l]
    BY <1>0, <1>3 DEF SaveRaises, LeaveRun, Goto, LocalTypeOK, Holds
  <2>2. "failed" \in Terminal
    BY DEF Terminal
  <2>3. LoopInv(l)' /\ Holding(l) /\ Holding(l)'
    BY <2>1, <2>2, LateLoop
  <2> QED
    BY <1>1, <2>1, <2>3, LocalStep
<1> QED
  BY <1>2, <1>3

\* Worker._run keeps the invariant.
LEMMA RunStepKeeps ==
    ASSUME LeaseInv, TypeInv', NEW l \in Loops, RunStep(l)
    PROVE  LeaseInv'
<1>0. LocalTypeOK /\ LoopInv(l) /\ held[l] \in Holds
  BY LeaseInvTypes DEF LeaseInv, LocalTypeOK
<1>1. \A s \in {"completed", "failed", "cancelled"} : s \in Terminal
  BY DEF Terminal
<1>2. CASE BodyEnds(l) \/ BodyEscapes(l) \/ CancelSeen(l) \/ WatcherFails(l)
  <2>1. pc[l] \in {"running", "unwatched"}
        /\ UNCHANGED <<redisVars, phase, upkeep, clientVars>>
    BY <1>2 DEF BodyEnds, BodyEscapes, BodyMayEnd, CancelSeen, WatcherFails
  <2>2. /\ held'[l].id = held[l].id /\ held'[l].attempts = held[l].attempts
        /\ \/ pc'[l] \in {"saving", "resaving"} /\ held'[l].status \in Terminal
           \/ pc'[l] = "unwatched" /\ pc[l] = "running"
           \/ pc'[l] = "releasing" /\ ~body'[l]
    BY <1>0, <1>1, <1>2
       DEF BodyEnds, BodyEscapes, CancelSeen, WatcherFails, Goto, LocalTypeOK,
           Holds
  <2>3. \A k \in Loops \ {l} : pc'[k] = pc[k] /\ held'[k] = held[k]
                               /\ body'[k] = body[k]
    BY <1>0, <1>2
       DEF BodyEnds, BodyEscapes, CancelSeen, WatcherFails, Goto, LocalTypeOK
  <2>4. LoopInv(l)' /\ Holding(l) /\ Holding(l)'
    BY <2>1, <2>2, LateLoop
  <2> QED
    BY <2>1, <2>2, <2>3, <2>4, LocalStep
<1>3. CASE Save(l)
  <2>1. PICK j \in Jobs : j = held[l].id
    BY <1>3, RunningFacts DEF Save
  <2>2. CASE LeaveRun(l)
    BY <1>3, <2>1, <2>2, SavedKeeps DEF Save
  <2>3. CASE ~Exists(j) /\ SaveRaises(l)
    <3>1. UNCHANGED redisVars
      BY <1>3, <2>1, <2>3 DEF Save, CallSave, SaveScript, redisVars
    <3> QED
      BY <1>3, <2>3, <3>1, UnsavedKeeps DEF Save
  <2> QED
    BY <1>3, <2>1, <2>2, <2>3 DEF Save
<1>4. CASE SaveFails(l)
  <2>1. PICK j \in Jobs : j = held[l].id
    BY <1>4, RunningFacts DEF SaveFails
  <2>2. CASE UNCHANGED redisVars
    BY <1>4, <2>2, UnsavedKeeps DEF SaveFails
  <2>3. CASE CallSave(l)
    BY <1>4, <2>1, <2>3, SavedKeeps DEF SaveFails, SaveRaises
  <2> QED
    BY <1>4, <2>2, <2>3 DEF SaveFails
<1>5. CASE Unwinds(l)
  <2>1. ~body'[l]
    BY <1>0, <1>5 DEF Unwinds, LocalTypeOK
  <2>2. LoopInv(l)' /\ ~Holding(l)'
    BY <1>0, <1>5, <2>1, FreeLoop DEF Unwinds
  <2> QED
    BY <1>0, <1>5, <2>2, OnlyThisLoop, LocalStep DEF Unwinds
<1> QED
  BY <1>2, <1>3, <1>4, <1>5 DEF RunStep

\* release, by a loop that still has the job or has settled it.
LEMMA ReleaseKeeps ==
    ASSUME LeaseInv, TypeInv', NEW l \in Loops, Release(l)
    PROVE  LeaseInv'
<1>0. RedisTypeOK /\ LocalTypeOK /\ SingleLease /\ Owner(l) \in Workers
  BY LeaseInvTypes, OwnerIsWorker DEF LeaseInv
<1>1. /\ Holding(l) /\ held[l].id \in Jobs /\ ~body[l]
      /\ \/ Attached(l) /\ jobs[held[l].id].status = "running"
         \/ Settled(held[l].id)
  BY RunningFacts DEF Release
<1>2. PICK j \in Jobs : j = held[l].id
  BY <1>1
<1>3. LoopInv(l)' /\ ~Holding(l)'
  BY <1>0, <1>1, FreeLoop DEF Release
<1>4. \A k \in Loops \ {l} : pc'[k] = pc[k] /\ held'[k] = held[k]
                             /\ body'[k] = body[k]
  BY <1>0 DEF Release, Exit, LocalTypeOK
<1>5. CASE jobs[j].status # "running"
  <2>1. UNCHANGED redisVars
    BY <1>2, <1>5 DEF Release, ReleaseScript
  <2> QED
    BY <1>3, <1>4, <2>1, LocalStep DEF Release
<1>6. CASE jobs[j].status = "running"
  <2>1. Live(j) /\ j \in Leased(Owner(l))
    BY <1>1, <1>2, <1>6 DEF Settled, Live, Attached
  <2>2. /\ jobs'[j].status = "queued"
        /\ jobs'[j].expires = jobs[j].expires
        /\ j \in Range(queue')
        /\ \A u \in Workers : Range(processing'[u]) \subseteq Leased(u)
        /\ OthersStay(j) /\ SingleLease' /\ beat' = beat
    BY <1>0, <1>2, <1>6, <2>1, ReleaseEffect DEF Release
  <2>3. JobInv(j)'
    <3>1. Live(j)' /\ Listed(j)'
      BY <2>2 DEF Live, Listed
    <3> QED
      BY <2>1, <2>2, <3>1, LiveStep DEF Release
  <2> QED
    BY <1>1, <1>2, <1>3, <1>4, <2>2, <2>3, OwnJob DEF Release
<1> QED
  BY <1>5, <1>6

\* Cancellation of a loop keeps the invariant.
LEMMA ShutdownStepKeeps ==
    ASSUME LeaseInv, TypeInv', NEW l \in Loops, ShutdownStep(l)
    PROVE  LeaseInv'
<1>0. LocalTypeOK /\ LoopInv(l)
  BY LeaseInvTypes DEF LeaseInv
<1>1. CASE InterruptClaim(l)
  <2>1. pc[l] \in {"polling", "leased", "returning"} /\ Exit(l)
        /\ UNCHANGED <<clientVars, phase, upkeep, body>>
    BY <1>0, <1>1 DEF InterruptClaim, LoopInv, ClaimingLoop
  <2>2. CASE UNCHANGED redisVars
    <3>1. ~body'[l]
      BY <1>0, <2>1 DEF LoopInv, RunningLoop
    <3>2. LoopInv(l)' /\ ~Holding(l)'
      BY <1>0, <2>1, <3>1, FreeLoop
    <3> QED
      BY <1>0, <2>1, <2>2, <3>2, OnlyThisLoop, LocalStep
  <2>3. CASE pc[l] = "polling" /\ Blmove(Owner(l))
    BY <2>1, <2>3, LeaseKeeps
  <2>4. CASE pc[l] = "leased" /\ ClaimScript(held[l].id)
    <3>1. PICK j \in Jobs : j = held[l].id
      BY <2>4, ClaimingFacts
    <3> QED
      BY <2>1, <2>4, <3>1, ClaimKeeps
  <2>5. CASE pc[l] = "returning" /\ ReturnLease(Owner(l), held[l].id)
    <3>1. PICK j \in Jobs : j = held[l].id
      BY <2>5, ClaimingFacts
    <3> QED
      BY <2>1, <2>5, <3>1, ReturnKeeps
  <2> QED
    BY <1>1, <2>1, <2>2, <2>3, <2>4, <2>5 DEF InterruptClaim
<1>2. CASE InterruptProcess(l)
  <2>1. CASE pc[l] \in {"saving", "resaving"}
    <3>1. PICK j \in Jobs : j = held[l].id
      BY <2>1, RunningFacts
    <3> QED
      BY <1>2, <2>1, <3>1, SavedKeeps, UnsavedKeeps DEF InterruptProcess
  <2>2. CASE pc[l] \in {"running", "unwatched", "unwinding"}
    <3>1. UNCHANGED <<redisVars, clientVars, phase, upkeep, body>>
      BY <1>2, <2>2 DEF InterruptProcess
    <3>2. /\ held'[l].id = held[l].id
          /\ pc'[l] = IF body[l] THEN "aborting" ELSE "releasing"
          /\ body'[l] = body[l]
      BY <1>0, <1>2, <3>1 DEF InterruptProcess, Goto, LocalTypeOK
    <3>3. LoopInv(l)' /\ Holding(l) /\ Holding(l)'
      BY <2>2, <3>1, <3>2, LateLoop
    <3> QED
      BY <1>0, <1>2, <3>1, <3>2, <3>3, OnlyThisLoop, LocalStep
         DEF InterruptProcess
  <2> QED
    BY <1>2, <2>1, <2>2 DEF InterruptProcess
<1>3. CASE BodyAborts(l)
  <2>1. held'[l].id = held[l].id /\ pc'[l] = "releasing" /\ ~body'[l]
    BY <1>0, <1>3 DEF BodyAborts, Goto, LocalTypeOK
  <2>2. LoopInv(l)' /\ Holding(l) /\ Holding(l)'
    BY <1>3, <2>1, LateLoop DEF BodyAborts
  <2> QED
    BY <1>0, <1>3, <2>1, <2>2, OnlyThisLoop, LocalStep DEF BodyAborts
<1>4. CASE Release(l)
  BY <1>4, ReleaseKeeps
<1>5. CASE ReleaseFails(l) \/ DetachedReleaseDies(l)
  <2>1. ~body'[l]
    BY <1>5, RunningFacts DEF ReleaseFails, DetachedReleaseDies
  <2>2. LoopInv(l)' /\ ~Holding(l)'
    BY <1>0, <1>5, <2>1, FreeLoop DEF ReleaseFails, DetachedReleaseDies
  <2> QED
    BY <1>0, <1>5, <2>2, OnlyThisLoop, LocalStep
       DEF ReleaseFails, DetachedReleaseDies
<1>6. CASE InterruptRelease(l)
  <2>1. held'[l].id = held[l].id /\ pc'[l] = "detached" /\ ~body'[l]
    BY <1>0, <1>6, RunningFacts DEF InterruptRelease, Goto, LocalTypeOK
  <2>2. LoopInv(l)' /\ Holding(l) /\ Holding(l)'
    BY <1>6, <2>1, LateLoop DEF InterruptRelease
  <2> QED
    BY <1>0, <1>6, <2>1, <2>2, OnlyThisLoop, LocalStep DEF InterruptRelease
<1> QED
  BY <1>1, <1>2, <1>3, <1>4, <1>5, <1>6 DEF ShutdownStep

-----------------------------------------------------------------------------
(* The pools.                                                              *)

\* A step of a pool that changes no record and no list.
LEMMA PoolFrame ==
    ASSUME LeaseInv, TypeInv', UNCHANGED <<jobs, queue, processing, clientVars>>,
           HeldApart', \A l \in Loops : LoopInv(l)',
           \A w \in Workers : PoolInv(w)'
    PROVE  LeaseInv'
<1>1. TypeOK' /\ HeldIsJob'
  BY DEF TypeInv, RedisTypeOK, LocalTypeOK, TypeOK
<1>2. SingleLease'
  BY DEF LeaseInv, SingleLease, Leased
<1>3. \A i \in Jobs : Stays(i)
  BY DEF Stays
<1>4. \A i \in Jobs : JobInv(i)'
  BY <1>3, JobFrame DEF LeaseInv, clientVars
<1> QED
  BY <1>1, <1>2, <1>4 DEF LeaseInv

\* ... and moves no loop.
LEMMA LoopsStay ==
    ASSUME LeaseInv, UNCHANGED <<jobs, queue, processing, clientVars>>,
           UNCHANGED <<pc, held, body>>,
           \A l \in Loops : pc[l] \notin {"idle", "detached", "exited"}
             => phase'[Owner(l)] = phase[Owner(l)] \/ Alive(Owner(l))',
           \A l \in Loops : pc[l] = "detached" => beat'[Owner(l)] # "stale"
    PROVE  HeldApart' /\ \A l \in Loops : LoopInv(l)'
<1>1. HeldApart'
  BY DEF LeaseInv, HeldApart, Holding
<1>2. ASSUME NEW l \in Loops
      PROVE  LoopInv(l)'
  <2>1. LoopInv(l)
    BY DEF LeaseInv
  <2>2. ClaimingLoop(l)' /\ RunningLoop(l)'
    BY <2>1 DEF LoopInv, ClaimingLoop, RunningLoop, Attached, Leased,
                Settled, Live
  <2>3. CopyCurrent(l)'
    BY <2>1 DEF LoopInv, CopyCurrent, Exists
  <2>4. LoopPlaced(l)'
    BY <2>1 DEF LoopInv, LoopPlaced, Alive, Holding, clientVars
  <2> QED
    BY <2>2, <2>3, <2>4 DEF LoopInv
<1> QED
  BY <1>1, <1>2

\* __aenter__ registers the pool and creates its loops.
LEMMA StartKeeps ==
    ASSUME LeaseInv, TypeInv', NEW w \in Workers, Start(w)
    PROVE  LeaseInv'
<1>0. LocalTypeOK /\ RedisTypeOK
  BY LeaseInvTypes
<1>1. /\ UNCHANGED <<jobs, queue, processing, clientVars, held, body>>
      /\ beat' = [beat EXCEPT ![w] = "fresh"]
      /\ phase' = [phase EXCEPT ![w] = "up"]
      /\ upkeep' = [upkeep EXCEPT ![w] = "beat"]
      /\ pc' = [l \in Loops |-> IF Owner(l) = w THEN "polling" ELSE pc[l]]
      /\ ~Alive(w)
  BY DEF Start, HeartbeatScript, Alive
<1>2. HeldApart'
  BY <1>1 DEF LeaseInv, HeldApart, Holding
<1>3. ASSUME NEW l \in Loops
      PROVE  LoopInv(l)'
  <2>1. LoopInv(l) /\ Owner(l) \in Workers
    BY OwnerIsWorker DEF LeaseInv
  <2>2. CASE Owner(l) = w
    <3>1. pc'[l] = "polling" /\ ~body'[l]
      BY <1>1, <2>1, <2>2 DEF LoopInv, RunningLoop, LoopPlaced
    <3>2. phase'[w] = "up"
      BY <1>0, <1>1 DEF LocalTypeOK
    <3> QED
      BY <2>2, <3>1, <3>2 DEF LoopInv, ClaimingLoop, RunningLoop, CopyCurrent,
                              LoopPlaced, Alive, Holding
  <2>3. CASE Owner(l) # w
    <3>1. /\ pc'[l] = pc[l] /\ held'[l] = held[l] /\ body'[l] = body[l]
          /\ phase'[Owner(l)] = phase[Owner(l)]
          /\ beat'[Owner(l)] = beat[Owner(l)]
      BY <1>0, <1>1, <2>1, <2>3 DEF LocalTypeOK, RedisTypeOK
    <3> QED
      BY <1>1, <2>1, <3>1, LoopFrame
         DEF LoopInv, LoopPlaced, Attached, Leased, clientVars
  <2> QED
    BY <2>2, <2>3
<1>4. \A v \in Workers : PoolInv(v)'
  BY <1>0, <1>1 DEF LeaseInv, PoolInv, Alive, Leased, LocalTypeOK, RedisTypeOK
<1> QED
  BY <1>1, <1>2, <1>3, <1>4, PoolFrame

\* The process of a pool is killed.
LEMMA CrashKeeps ==
    ASSUME LeaseInv, TypeInv', NEW w \in Workers, Crash(w)
    PROVE  LeaseInv'
<1>0. LocalTypeOK /\ RedisTypeOK
  BY LeaseInvTypes
<1>1. /\ UNCHANGED <<jobs, queue, processing, beat, clientVars>>
      /\ phase' = [phase EXCEPT ![w] = "crashed"]
      /\ upkeep' = [upkeep EXCEPT ![w] = "off"]
      /\ \A l \in Loops : IF Owner(l) = w
           THEN pc'[l] = "exited" /\ ~body'[l]
           ELSE pc'[l] = pc[l] /\ held'[l] = held[l] /\ body'[l] = body[l]
  BY DEF Crash, redisVars
<1>2. HeldApart'
  <2> SUFFICES ASSUME NEW k \in Loops, NEW l \in Loops, Holding(k)',
                      Holding(l)', held'[k].id = held'[l].id
               PROVE  k = l
    BY DEF HeldApart
  <2>1. Owner(k) # w /\ Owner(l) # w
    BY <1>1 DEF Holding
  <2>2. Holding(k) /\ Holding(l) /\ held[k].id = held[l].id
    BY <1>1, <2>1 DEF Holding
  <2> QED
    BY <2>2 DEF LeaseInv, HeldApart
<1>3. ASSUME NEW l \in Loops
      PROVE  LoopInv(l)'
  <2>1. LoopInv(l) /\ Owner(l) \in Workers
    BY OwnerIsWorker DEF LeaseInv
  <2>2. CASE Owner(l) = w
    <3>1. pc'[l] = "exited" /\ ~body'[l]
      BY <1>1, <2>2
    <3> QED
      BY <3>1 DEF LoopInv, ClaimingLoop, RunningLoop, CopyCurrent,
                  LoopPlaced, Holding
  <2>3. CASE Owner(l) # w
    <3>1. /\ pc'[l] = pc[l] /\ held'[l] = held[l] /\ body'[l] = body[l]
          /\ phase'[Owner(l)] = phase[Owner(l)]
      BY <1>0, <1>1, <2>1, <2>3 DEF LocalTypeOK
    <3> QED
      BY <1>1, <2>1, <3>1, LoopFrame
         DEF LoopInv, LoopPlaced, Attached, Leased, clientVars
  <2> QED
    BY <2>2, <2>3
<1>4. \A v \in Workers : PoolInv(v)'
  BY <1>0, <1>1 DEF LeaseInv, PoolInv, Alive, Leased, LocalTypeOK
<1> QED
  BY <1>1, <1>2, <1>3, <1>4, PoolFrame

\* Heartbeats, drains, shutdowns and heartbeats that grow old.
LEMMA BeatsKeep ==
    ASSUME LeaseInv, TypeInv', NEW w \in Workers, Stallable = {},
           \/ StartFails(w)
           \/ Heartbeat(w)
           \/ UpkeepFails(w) /\ (HeartbeatScript(w) \/ UNCHANGED redisVars)
           \/ Drain(w) \/ Close(w) \/ Stop(w) \/ BeatExpires(w)
    PROVE  LeaseInv'
<1>0. LocalTypeOK /\ RedisTypeOK
  BY LeaseInvTypes
<1>1. UNCHANGED <<jobs, queue, processing, clientVars>>
      /\ UNCHANGED <<pc, held, body>>
  BY DEF StartFails, Heartbeat, UpkeepFails, Drain, Close, Stop, BeatExpires,
         HeartbeatScript, DeregisterScript, ExpireBeat, redisVars
<1>2. \A l \in Loops : Owner(l) = w => l \in LoopsOf(w)
  BY DEF Loops, LoopsOf, Owner
<1>3. \A l \in Loops : pc[l] \notin {"idle", "detached", "exited"}
        => phase'[Owner(l)] = phase[Owner(l)] \/ Alive(Owner(l))'
  <2> SUFFICES ASSUME NEW l \in Loops,
                      pc[l] \notin {"idle", "detached", "exited"},
                      Owner(l) = w, phase'[w] # phase[w]
               PROVE  Alive(w)'
    BY <1>0, OwnerIsWorker
       DEF StartFails, Heartbeat, UpkeepFails, Drain, Close, Stop,
           BeatExpires, LocalTypeOK
  <2>1. Alive(w) /\ ~Stop(w)
    BY <1>2 DEF LeaseInv, LoopInv, LoopPlaced, Stop
  <2> QED
    BY <1>0, <2>1
       DEF StartFails, Heartbeat, UpkeepFails, Drain, Close, BeatExpires,
           LocalTypeOK, Alive
<1>4. \A l \in Loops : pc[l] = "detached" => beat'[Owner(l)] # "stale"
  <2> SUFFICES ASSUME NEW l \in Loops, pc[l] = "detached"
               PROVE  beat'[Owner(l)] # "stale"
    OBVIOUS
  <2>1. beat[Owner(l)] # "stale" /\ Owner(l) \in Workers
    BY OwnerIsWorker DEF LeaseInv, LoopInv, LoopPlaced
  <2>2. CASE BeatExpires(w)
    BY <1>0, <1>2, <2>1, <2>2 DEF BeatExpires, ExpireBeat, RedisTypeOK
  <2>3. CASE ~BeatExpires(w)
    BY <1>0, <2>1, <2>3
       DEF StartFails, Heartbeat, UpkeepFails, Drain, Close, Stop,
           HeartbeatScript, DeregisterScript, redisVars, RedisTypeOK
  <2> QED
    BY <2>2, <2>3
<1>5. ASSUME NEW v \in Workers
      PROVE  PoolInv(v)'
  <2>1. PoolInv(v)
    BY DEF LeaseInv
  <2>2. Leased(v)' = Leased(v)
    BY <1>1 DEF Leased
  <2>3. CASE v # w
    <3>1. phase'[v] = phase[v] /\ beat'[v] = beat[v] /\ upkeep'[v] = upkeep[v]
      BY <1>0, <2>3
         DEF StartFails, Heartbeat, UpkeepFails, Drain, Close, Stop,
             BeatExpires, HeartbeatScript, DeregisterScript, ExpireBeat,
             redisVars, LocalTypeOK, RedisTypeOK
    <3> QED
      BY <2>1, <2>2, <3>1 DEF PoolInv, Alive
  <2>4. CASE v = w /\ (StartFails(w) \/ Drain(w) \/ Close(w) \/ BeatExpires(w))
    BY <1>0, <2>1, <2>2, <2>4
       DEF StartFails, Drain, Close, BeatExpires, HeartbeatScript, ExpireBeat,
           redisVars, LocalTypeOK, RedisTypeOK, PoolInv, Alive
  <2>5. CASE /\ v = w
             /\ \/ Heartbeat(w)
                \/ UpkeepFails(w) /\ (HeartbeatScript(w) \/ UNCHANGED redisVars)
    BY <1>0, <2>1, <2>2, <2>5
       DEF Heartbeat, UpkeepFails, HeartbeatScript, redisVars, LocalTypeOK,
           RedisTypeOK, PoolInv, Alive
  <2>6. CASE v = w /\ Stop(w)
    <3>1. processing[w] = <<>> => Leased(w) = {}
      BY DEF Leased, Range
    <3> QED
      BY <1>0, <2>1, <2>2, <2>6, <3>1
         DEF Stop, DeregisterScript, redisVars, LocalTypeOK, RedisTypeOK,
             PoolInv, Alive
  <2> QED
    BY <2>3, <2>4, <2>5, <2>6
<1> QED
  BY <1>1, <1>3, <1>4, <1>5, LoopsStay, PoolFrame

\* The reaper finds only pools whose loops are gone, so no loop loses a lease.
LEMMA ReaperKeeps ==
    ASSUME LeaseInv, TypeInv', ReaperScript, NEW w \in Workers,
           upkeep[w] = "reap", upkeep' = [upkeep EXCEPT ![w] = "beat"],
           UNCHANGED <<clientVars, phase, pc, held, body>>
    PROVE  LeaseInv'
<1>0. LocalTypeOK /\ RedisTypeOK /\ SingleLease
  BY LeaseInvTypes DEF LeaseInv
<1>1. \A v \in Workers : \A j \in Leased(v) : j \in Jobs
  <2> SUFFICES ASSUME NEW v \in Workers, NEW j \in Leased(v)
               PROVE  j \in Jobs
    OBVIOUS
  <2>1. processing[v] \in Seq(Jobs)
    BY <1>0 DEF RedisTypeOK
  <2>2. PICK i \in DOMAIN processing[v] : j = processing[v][i]
    BY DEF Leased, Range
  <2> QED
    BY <2>1, <2>2, LenProperties, ElementOfSeq
<1>2. \A v \in Workers : \A j \in Leased(v) : Exists(j)
  BY <1>1 DEF LeaseInv, JobInv, Listed, Live, Exists
<1>3. /\ Range(queue') = Range(queue) \cup Orphans
      /\ \A v \in Workers :
           /\ v \in Expired => processing'[v] = <<>> /\ beat'[v] = "none"
           /\ v \notin Expired => processing'[v] = processing[v]
                                  /\ beat'[v] = beat[v]
      /\ \A j \in Jobs :
           IF j \in Orphans /\ jobs[j].status = "running"
             THEN jobs'[j] = [jobs[j] EXCEPT !.status = "queued"]
             ELSE jobs'[j] = jobs[j]
      /\ SingleLease'
  BY <1>0, <1>2, ReaperEffect
<1>4. Range(<<>>) = {}
  BY DEF Range
<1>5. ASSUME NEW l \in Loops
      PROVE  LoopInv(l)'
  <2>1. LoopInv(l) /\ Owner(l) \in Workers /\ PoolInv(Owner(l))
    BY OwnerIsWorker DEF LeaseInv
  <2>2. Holding(l) => Owner(l) \notin Expired
    BY <2>1 DEF LoopInv, LoopPlaced, PoolInv, Expired, Holding
  <2>3. pc[l] = "detached" => beat'[Owner(l)] # "stale"
    BY <1>3, <2>1 DEF LoopInv, LoopPlaced
  <2>4. ASSUME Holding(l)
        PROVE  /\ spawns'[held[l].id] # 0
               /\ Attached(l) => held[l].id \in Range(processing'[Owner(l)])
               /\ jobs'[held[l].id] = jobs[held[l].id]
    <3>1. held[l].id \in Jobs /\ spawns'[held[l].id] # 0
      BY <2>1, <2>4 DEF LeaseInv, HeldIsJob, LoopInv, LoopPlaced, clientVars
    <3>2. processing'[Owner(l)] = processing[Owner(l)]
      BY <1>3, <2>1, <2>2, <2>4
    <3>3. pc[l] \in PCs
      BY <1>0 DEF LocalTypeOK
    <3>4. Attached(l) \/ Settled(held[l].id)
      BY <2>1, <2>4, <3>3
         DEF LoopInv, ClaimingLoop, RunningLoop, Holding, PCs
    <3>5. CASE Attached(l)
      <4>1. held[l].id \notin Orphans
        BY <1>0, <2>1, <2>2, <2>4, <3>5
           DEF Attached, Orphans, Expired, SingleLease
      <4> QED
        BY <1>3, <3>1, <3>2, <4>1 DEF Attached, Leased
    <3>6. CASE Settled(held[l].id) /\ ~Attached(l)
      BY <1>3, <3>1, <3>6 DEF Settled, Live
    <3> QED
      BY <3>4, <3>5, <3>6
  <2> QED
    BY <2>1, <2>3, <2>4, LoopFrame
<1>6. ASSUME NEW j \in Jobs
      PROVE  JobInv(j)'
  <2>1. JobInv(j) /\ jobs[j] \in Records
    BY <1>0 DEF LeaseInv, RedisTypeOK
  <2>2. Listed(j)' <=> Listed(j)
    <3>1. j \in Orphans => \E v \in Workers : j \in Leased(v)
      BY DEF Orphans, Expired
    <3>2. ASSUME NEW v \in Workers, j \in Leased(v)
          PROVE  j \in Orphans \/ j \in Range(processing'[v])
      BY <1>3, <3>2 DEF Orphans, Leased
    <3>3. \A v \in Workers : j \in Range(processing'[v]) => j \in Leased(v)
      BY <1>3, <1>4 DEF Leased
    <3> QED
      BY <1>3, <3>1, <3>2, <3>3 DEF Listed, Leased
  <2>3. Live(j)' <=> Live(j)
    BY <1>3, <2>1 DEF Live, Records
  <2>4. /\ jobs'[j].expires = jobs[j].expires
        /\ IsTerminal(j)' <=> IsTerminal(j)
        /\ Exists(j)' <=> Exists(j)
    BY <1>3, <2>1 DEF Records, IsTerminal, Exists, Terminal
  <2> QED
    BY <2>1, <2>2, <2>3, <2>4 DEF JobInv, Settled, clientVars
<1>7. ASSUME NEW v \in Workers
      PROVE  PoolInv(v)'
  <2>1. PoolInv(v) /\ PoolInv(w)
    BY DEF LeaseInv
  <2>2. upkeep'[v] # "off" => upkeep[v] # "off"
    BY <1>0 DEF LocalTypeOK
  <2>3. Alive(v)' <=> Alive(v)
    BY DEF Alive
  <2>4. CASE v \in Expired
    BY <1>3, <1>4, <2>1, <2>2, <2>3, <2>4 DEF PoolInv, Leased, Expired
  <2>5. CASE v \notin Expired
    BY <1>3, <2>1, <2>2, <2>3, <2>5 DEF PoolInv, Leased
  <2> QED
    BY <2>4, <2>5
<1>8. TypeOK' /\ HeldIsJob'
  BY DEF TypeInv, RedisTypeOK, LocalTypeOK, TypeOK
<1>9. HeldApart'
  BY DEF LeaseInv, HeldApart, Holding
<1> QED
  BY <1>3, <1>5, <1>6, <1>7, <1>8, <1>9 DEF LeaseInv

\* The steps of a pool keep the invariant.
LEMMA PoolStepKeeps ==
    ASSUME LeaseInv, TypeInv', NEW w \in Workers, Stallable = {}, PoolStep(w)
    PROVE  LeaseInv'
<1>1. CASE Reap(w)
  BY <1>1, ReaperKeeps DEF Reap
<1>2. CASE UpkeepFails(w)
  <2>1. CASE upkeep[w] = "reap" /\ ReaperScript
    BY <1>2, <2>1, ReaperKeeps DEF UpkeepFails
  <2>2. CASE HeartbeatScript(w) \/ UNCHANGED redisVars
    BY <1>2, <2>2, BeatsKeep
  <2> QED
    BY <1>2, <2>1, <2>2 DEF UpkeepFails
<1> QED
  BY <1>1, <1>2, StartKeeps, CrashKeeps, BeatsKeep DEF PoolStep

-----------------------------------------------------------------------------
(* The producers.                                                          *)

\* submit, cancel and result keep the invariant.
LEMMA ClientStepKeeps ==
    ASSUME LeaseInv, TypeInv', NEW j \in Jobs, Derived = {},
           UNCHANGED workerVars,
           \/ Submit(j) \/ RequestCancel(j) \/ TakeChecks(j)
           \/ TakeFetches(j) \/ ResultExpires(j)
    PROVE  LeaseInv'
<1>0. LocalTypeOK /\ RedisTypeOK /\ SingleLease /\ JobInv(j)
  BY LeaseInvTypes DEF LeaseInv
<1>1. UNCHANGED <<phase, upkeep, pc, held, body>>
  BY DEF workerVars
<1>2. /\ OthersStay(j) /\ SingleLease' /\ beat' = beat
      /\ processing' = processing
      /\ \A i \in Jobs \ {j} : spawns'[i] = spawns[i] /\ result'[i] = result[i]
      /\ JobInv(j)'
      /\ \/ spawns[j] = 0
         \/ /\ spawns'[j] = spawns[j]
            /\ \/ /\ jobs'[j].status = jobs[j].status
                  /\ jobs'[j].attempts = jobs[j].attempts
               \/ Settled(j) /\ jobs'[j].status = "absent"
  <2>1. CASE Submit(j)
    <3>1. spawns[j] = 0 /\ ~Exists(j)
      BY <1>0, <2>1 DEF Submit, LocalTypeOK, JobInv
    <3>2. EnqueueScript(j) /\ ~Listed(j)
      BY <1>0, <2>1, <3>1 DEF Submit, JobInv, Live, Exists
    <3>3. /\ jobs'[j].status = "queued" /\ ~jobs'[j].expires
          /\ j \in Range(queue') /\ processing' = processing
          /\ OthersStay(j) /\ SingleLease' /\ beat' = beat
      BY <1>0, <3>2, EnqueueEffect
    <3>4. /\ spawns'[j] # 0 /\ result'[j] = "waiting"
          /\ \A i \in Jobs \ {j} : spawns'[i] = spawns[i]
                                   /\ result'[i] = result[i]
      BY <1>0, <2>1, <3>1 DEF Submit, LocalTypeOK
    <3>5. JobInv(j)'
      BY <3>3, <3>4 DEF JobInv, Live, Listed, Exists
    <3> QED
      BY <3>1, <3>3, <3>4, <3>5
  <2>2. CASE RequestCancel(j)
    <3>1. /\ jobs'[j].status = jobs[j].status
          /\ jobs'[j].attempts = jobs[j].attempts
          /\ jobs'[j].expires = jobs[j].expires
          /\ \A i \in Jobs \ {j} : jobs'[i] = jobs[i]
          /\ UNCHANGED <<queue, processing, beat, spawns, result>>
      BY <1>0, <2>2 DEF RequestCancel, RequestCancelScript, RedisTypeOK,
                        Records, clientVars
    <3>2. OthersStay(j) /\ SingleLease'
      BY <1>0, <3>1 DEF OthersStay, Stays, SingleLease, Leased
    <3>3. JobInv(j)'
      BY <1>0, <3>1 DEF JobInv, Live, Listed, Leased, IsTerminal, Exists,
                        Settled
    <3> QED
      BY <3>1, <3>2, <3>3
  <2>3. CASE TakeChecks(j)
    <3>1. UNCHANGED <<jobs, queue, processing, beat, spawns>>
      BY <2>3 DEF TakeChecks, redisVars
    <3>2. /\ \A i \in Jobs \ {j} : result'[i] = result[i]
          /\ result'[j] = "missing" \/ (result'[j] = "ready" /\ IsTerminal(j))
      BY <1>0, <2>3 DEF TakeChecks, LocalTypeOK
    <3>3. OthersStay(j) /\ SingleLease'
      BY <1>0, <3>1 DEF OthersStay, Stays, SingleLease, Leased
    <3>4. JobInv(j)'
      BY <1>0, <3>1, <3>2 DEF JobInv, Live, Listed, Leased, IsTerminal,
                              Exists, Settled, Terminal
    <3> QED
      BY <3>1, <3>2, <3>3, <3>4
  <2>4. CASE TakeFetches(j) \/ ResultExpires(j)
    <3>1. Settled(j)
      BY <1>0, <2>4 DEF TakeFetches, ResultExpires, ExpireRecord, JobInv,
                        IsTerminal, Settled, Live, Terminal
    <3>2. /\ jobs' = [jobs EXCEPT ![j] = NoRecord]
          /\ UNCHANGED <<queue, processing, beat, spawns>>
      BY <2>4 DEF TakeFetches, ResultExpires, ExpireRecord, DeleteRecord,
                  clientVars
    <3>3. /\ jobs'[j].status = "absent" /\ ~jobs'[j].expires
          /\ \A i \in Jobs \ {j} : jobs'[i] = jobs[i]
      BY <1>0, <3>2 DEF RedisTypeOK, NoRecord
    <3>4. /\ \A i \in Jobs \ {j} : result'[i] = result[i]
          /\ result'[j] \notin {"queued", "running"}
      <4>1. result[j] \notin {"queued", "running"}
        BY <1>0 DEF JobInv
      <4>2. jobs[j].status \notin {"queued", "running"}
        BY <3>1 DEF Settled, Live
      <4> QED
        BY <1>0, <2>4, <4>1, <4>2
           DEF TakeFetches, ResultExpires, clientVars, LocalTypeOK
    <3>5. OthersStay(j) /\ SingleLease'
      BY <1>0, <3>2, <3>3 DEF OthersStay, Stays, SingleLease, Leased
    <3>6. JobInv(j)'
      <4>1. ~Listed(j)'
        BY <1>0, <3>1, <3>2 DEF JobInv, Settled, Listed, Leased
      <4> QED
        BY <3>3, <3>4, <4>1 DEF JobInv, Live, Exists, Settled
    <3> QED
      BY <3>1, <3>2, <3>3, <3>4, <3>5, <3>6
  <2> QED
    BY <2>1, <2>2, <2>3, <2>4
<1>3. ASSUME NEW l \in Loops
      PROVE  LoopInv(l)'
  <2>1. LoopInv(l) /\ Owner(l) \in Workers
    BY OwnerIsWorker DEF LeaseInv
  <2>2. pc[l] = "detached" => beat'[Owner(l)] # "stale"
    BY <1>2, <2>1 DEF LoopInv, LoopPlaced
  <2>3. ASSUME Holding(l)
        PROVE  /\ spawns'[held[l].id] # 0
               /\ Attached(l) => held[l].id \in Range(processing'[Owner(l)])
               /\ \/ /\ jobs'[held[l].id].status = jobs[held[l].id].status
                     /\ jobs'[held[l].id].attempts = jobs[held[l].id].attempts
                  \/ /\ Settled(held[l].id)
                     /\ jobs'[held[l].id].status = "absent"
    <3>1. held[l].id \in Jobs /\ spawns[held[l].id] # 0
      BY <2>1, <2>3 DEF LeaseInv, HeldIsJob, LoopInv, LoopPlaced
    <3> QED
      BY <1>2, <3>1 DEF OthersStay, Stays, Attached, Leased
  <2> QED
    BY <1>1, <2>1, <2>2, <2>3, LoopFrame
<1>4. \A i \in Jobs : JobInv(i)'
  BY <1>2, JobFrame DEF LeaseInv, OthersStay
<1>5. \A w \in Workers : PoolInv(w)'
  BY <1>1, <1>2 DEF LeaseInv, PoolInv, Alive, Leased
<1>6. TypeOK' /\ HeldIsJob'
  BY DEF TypeInv, RedisTypeOK, LocalTypeOK, TypeOK
<1>7. HeldApart'
  BY <1>1 DEF LeaseInv, HeldApart, Holding
<1> QED
  BY <1>2, <1>3, <1>4, <1>5, <1>6, <1>7 DEF LeaseInv

-----------------------------------------------------------------------------
\* The invariant holds before the first pool is entered.
LEMMA LeaseInvInit == Init => LeaseInv
<1> SUFFICES ASSUME Init
             PROVE  LeaseInv
  OBVIOUS
<1>1. TypeInv
  BY TypeInvInit
<1>2. /\ queue = <<>> /\ \A w \in Workers : processing[w] = <<>>
      /\ \A j \in Jobs : jobs[j] = NoRecord /\ result[j] = "none"
      /\ \A w \in Workers : phase[w] = "new" /\ upkeep[w] = "off"
      /\ \A l \in Loops : pc[l] = "idle" /\ ~body[l]
  BY DEF Init, RedisInit, ClientInit, WorkerInit
<1>3. IsInjective(<<>>) /\ Range(<<>>) = {}
  BY DEF IsInjective, Range
<1>4. SingleLease
  BY <1>2, <1>3 DEF SingleLease, Leased
<1>5. HeldApart /\ \A l \in Loops : LoopInv(l)
  BY <1>2 DEF HeldApart, Holding, LoopInv, ClaimingLoop, RunningLoop,
              CopyCurrent, LoopPlaced
<1>6. \A j \in Jobs : JobInv(j)
  BY <1>2, <1>3 DEF JobInv, Live, Listed, Leased, Exists, NoRecord
<1>7. \A w \in Workers : PoolInv(w)
  BY <1>2, <1>3 DEF PoolInv, Alive, Leased
<1> QED
  BY <1>1, <1>4, <1>5, <1>6, <1>7
     DEF LeaseInv, TypeInv, RedisTypeOK, LocalTypeOK, TypeOK

\* Every step keeps it.
LEMMA LeaseInvStep ==
    ASSUME Stallable = {}, Derived = {}, LeaseInv, [Next]_vars
    PROVE  LeaseInv'
<1>1. TypeInv'
  BY LeaseInvTypes, TypeInvStep
<1>2. CASE UNCHANGED vars
  <2>1. UNCHANGED <<jobs, queue, processing, clientVars>>
        /\ UNCHANGED <<pc, held, body>> /\ UNCHANGED <<phase, beat, upkeep>>
    BY <1>2 DEF vars, redisVars, workerVars
  <2>2. \A l \in Loops : pc[l] = "detached" => beat'[Owner(l)] # "stale"
    BY <2>1 DEF LeaseInv, LoopInv, LoopPlaced
  <2>3. \A w \in Workers : PoolInv(w)'
    BY <2>1 DEF LeaseInv, PoolInv, Alive, Leased
  <2> QED
    BY <1>1, <2>1, <2>2, <2>3, LoopsStay, PoolFrame
<1>3. CASE Next
  BY <1>1, <1>3, ClaimStepKeeps, RunStepKeeps, ShutdownStepKeeps,
     PoolStepKeeps, ClientStepKeeps DEF Next
<1> QED
  BY <1>2, <1>3

\* The inductive invariant of the lease protocol holds in every reachable
\* state: what the claim, run and shutdown paths of worker.py and the scripts
\* of redis_backend.py keep true of each loop, job and pool.
THEOREM LeasesInvariant ==
    ASSUME Stallable = {}, Derived = {}
    PROVE  Spec => []LeaseInv
<1>1. Init => LeaseInv
  BY LeaseInvInit
<1>2. LeaseInv /\ [Next]_vars => LeaseInv'
  BY LeaseInvStep
<1> QED
  BY <1>1, <1>2, PTL DEF Spec

\* An id is at one place at most: on the queue or on one worker's list, once.
THEOREM LeasesAreSingle ==
    ASSUME Stallable = {}, Derived = {}
    PROVE  Spec => []SingleLease
<1>1. LeaseInv => SingleLease
  BY DEF LeaseInv
<1> QED
  BY <1>1, LeasesInvariant, PTL

\* No unfinished job is stranded: a crash of any pool in any state leaves each
\* of them on the queue or within a reaper's reach.
THEOREM JobsAreRecoverable ==
    ASSUME Stallable = {}, Derived = {}
    PROVE  Spec => []Recoverable
<1>1. LeaseInv => Recoverable
  BY DEF LeaseInv, JobInv, PoolInv, Listed, Live, Recoverable
<1> QED
  BY <1>1, LeasesInvariant, PTL

\* No two bodies of a job are alive at once, in one pool or in two.
THEOREM RunsAreExclusive ==
    ASSUME Stallable = {}, Derived = {}
    PROVE  Spec => []ExclusiveRun
<1>1. LeaseInv => ExclusiveRun
  <2>1. \A l \in Loops : LoopInv(l) /\ body[l] => Holding(l)
    BY DEF LoopInv, RunningLoop, Holding
  <2> QED
    BY <2>1 DEF LeaseInv, HeldApart, ExclusiveRun
<1> QED
  BY <1>1, LeasesInvariant, PTL

\* The record that take_result fetches in its second round trip is still the
\* terminal one it saw in its first.
THEOREM ResultsAreTerminal ==
    ASSUME Stallable = {}, Derived = {}
    PROVE  Spec => []TakeReturnsTerminal
<1>1. LeaseInv => TakeReturnsTerminal
  BY DEF LeaseInv, JobInv, TakeReturnsTerminal
<1> QED
  BY <1>1, LeasesInvariant, PTL
==============================================================================
