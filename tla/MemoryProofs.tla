---------------------------- MODULE MemoryProofs ----------------------------
(***************************************************************************)
(* The in-memory backend: its queue and events follow its records, and it  *)
(* implements JobLife, for every number of jobs, handles, loops and        *)
(* releases.                                                               *)
(***************************************************************************)
EXTENDS MemoryBackend, ListLemmas

Final == {"completed", "failed", "cancelled"}
Records == [status : {"absent", "queued", "running"} \cup Final,
            request_cancel : BOOLEAN]
Holds == [id : Jobs \cup {NoJob}, status : {"absent", "running"} \cup Final,
          request_cancel : BOOLEAN]

MemoryTypeOK ==
    /\ records \in [Jobs -> Records]
    /\ queue \in Seq(Jobs)
    /\ events \subseteq Jobs
    /\ cancels \in [Jobs -> {"none", "unset", "set"}]
    /\ handle \in [Handles -> {"new", "submitted", "waiting", "woken", "missing"}
                              \cup Final]
    /\ held \in [Loops -> Holds]
    /\ step \in [Loops -> {"polling", "running", "saving", "unwinding"}]
    /\ releases \in Nat

Unfinished(j) == records[j].status \in {"queued", "running"}
Vouched(j) == \E h \in Handles : Target[h] = j /\ handle[h] # "new"
Runs(l) == step[l] \in {"running", "saving"}

\* The queue and the events of a job follow its record, which some handle has
\* submitted; a job without one has left no flag behind.
RecordInv(j) ==
    /\ records[j].status = "absent" => ~records[j].request_cancel
    /\ records[j].status # "absent" => Vouched(j)
    /\ records[j].status = "queued" <=> j \in Range(queue)
    /\ Unfinished(j) <=> j \in events
    /\ j \in events <=> cancels[j] # "none"
    /\ cancels[j] = "set" => records[j].request_cancel

\* A job in a loop's hands is RUNNING until it is saved, and settled for good
\* afterwards: nobody can submit it again.
LoopInv(l) ==
    /\ step[l] # "polling" => held[l].id \in Jobs /\ Vouched(held[l].id)
    /\ Runs(l) => records[held[l].id].status = "running"
    /\ step[l] = "unwinding" => ~Unfinished(held[l].id)
    /\ step[l] = "saving" =>
        /\ held[l].status \in Final
        /\ held[l].status = "cancelled" => records[held[l].id].request_cancel

\* Two loops never run the same job.
RunApart ==
    \A k, l \in Loops : Runs(k) /\ Runs(l) /\ held[k].id = held[l].id => k = l

\* Whoever was woken finds no unfinished job.
WokenInv(h) == handle[h] = "woken" => ~Unfinished(Target[h])

MemoryInv ==
    /\ MemoryTypeOK
    /\ IsInjective(queue)
    /\ \A j \in Jobs : RecordInv(j)
    /\ \A l \in Loops : LoopInv(l)
    /\ RunApart
    /\ \A h \in Handles : WokenInv(h)

-----------------------------------------------------------------------------
\* A handle that has submitted has.
LEMMA VouchedStays ==
    ASSUME MemoryTypeOK, [MemoryNext]_vars, NEW j, Vouched(j)
    PROVE  Vouched(j)'
<1>1. PICK h \in Handles : Target[h] = j /\ handle[h] # "new"
  BY DEF Vouched
<1>2. handle'[h] # "new"
  <2>1. ASSUME NEW g \in Handles, Submit(g) \/ TakeStarts(g) \/ TakeResumes(g)
        PROVE  handle'[h] # "new"
    <3>1. PICK status : status = IF Known(Target[g])
                                   THEN records[Target[g]].status ELSE "missing"
      OBVIOUS
    <3>2. status # "new"
      BY <3>1, MemoryAssumption DEF MemoryTypeOK, Records, Final
    <3>3. \E value \in {"submitted", "waiting", status} :
            handle' = [handle EXCEPT ![g] = value]
      BY <2>1, <3>1 DEF Submit, TakeStarts, TakeResumes, PopRecord
    <3> QED
      BY <1>1, <3>2, <3>3 DEF MemoryTypeOK
  <2>2. ASSUME NEW l \in Loops,
               LoopProgress(l) \/ BodyEnds(l) \/ Interrupted(l)
        PROVE  handle'[h] # "new"
    BY <1>1, <2>2 DEF LoopProgress, BodyEnds, CancelSeen, RunEnds, Claim, Save,
                      Unwinds, Interrupted, MemoryTypeOK
  <2> QED
    BY <1>1, <2>1, <2>2 DEF MemoryNext, RequestCancel, vars
<1> QED
  BY <1>1, <1>2 DEF Vouched

\* A record is there exactly when it has a status.
LEMMA KnownIsThere ==
    ASSUME MemoryTypeOK, NEW j \in Jobs, RecordInv(j)
    PROVE  Known(j) <=> records[j].status # "absent"
<1>1. records[j] \in Records
  BY DEF MemoryTypeOK
<1>2. CASE records[j].status = "absent"
  <2>1. records[j].request_cancel = FALSE
    BY <1>1, <1>2 DEF RecordInv, Records
  <2>2. records[j] = [status |-> records[j].status,
                      request_cancel |-> records[j].request_cancel]
    BY <1>1 DEF Records
  <2> QED
    BY <1>2, <2>1, <2>2, Zenon DEF Known, NoRecord
<1>3. CASE records[j].status # "absent"
  BY <1>3 DEF Known, NoRecord
<1> QED
  BY <1>2, <1>3

\* A loop that stays where it is, while its job keeps its status and its flag.
LEMMA LoopKeeps ==
    ASSUME NEW l \in Loops, LoopInv(l), step'[l] = step[l], held'[l] = held[l],
           \A j : Vouched(j) => Vouched(j)',
           Runs(l) => records'[held[l].id].status = "running",
           step[l] = "unwinding" =>
               records'[held[l].id].status \notin {"queued", "running"},
           Runs(l) /\ records[held[l].id].request_cancel =>
               records'[held[l].id].request_cancel
    PROVE  LoopInv(l)'
<1>1. PICK i : i = held[l].id
  OBVIOUS
<1>2. step[l] # "polling" => i \in Jobs /\ Vouched(i)'
  BY <1>1 DEF LoopInv
<1> QED
  BY <1>1, <1>2 DEF LoopInv, Runs, Unfinished, Vouched

\* At the start there is nothing.
LEMMA MemoryInitHolds ==
    ASSUME MemoryInit
    PROVE  MemoryInv
<1>1. MemoryTypeOK
  BY DEF MemoryInit, MemoryTypeOK, Records, Holds, NoRecord, NoHold, Final
<1>2. IsInjective(queue) /\ Range(queue) = {}
  BY DEF MemoryInit, IsInjective, Range
<1>3. \A j \in Jobs : RecordInv(j)
  BY <1>2 DEF MemoryInit, RecordInv, NoRecord, Unfinished
<1>4. \A l \in Loops : LoopInv(l)
  BY DEF MemoryInit, LoopInv, Runs
<1>5. RunApart /\ \A h \in Handles : WokenInv(h)
  BY DEF MemoryInit, RunApart, Runs, WokenInv
<1> QED
  BY <1>1, <1>2, <1>3, <1>4, <1>5 DEF MemoryInv

-----------------------------------------------------------------------------
(* One lemma per action.                                                   *)

\* A submission adds a job nobody has, or nothing.
LEMMA SubmitKeeps ==
    ASSUME MemoryInv, Resubmitted = {}, NEW h \in Handles, Submit(h)
    PROVE  MemoryInv'
<1>0. PICK j \in Jobs : j = Target[h]
  BY MemoryAssumption
<1>1. MemoryTypeOK /\ handle' = [handle EXCEPT ![h] = "submitted"]
        /\ held' = held /\ step' = step /\ releases' = releases
  BY DEF MemoryInv, Submit
<1>2. \A i : Vouched(i) => Vouched(i)'
  BY <1>1, VouchedStays DEF MemoryNext
<1>3. Vouched(j)'
  BY <1>0, <1>1 DEF Vouched, MemoryTypeOK
<1>4. CASE Known(j)
  <2>1. UNCHANGED backendVars
    BY <1>0, <1>4 DEF Submit, Enqueue
  <2>2. MemoryTypeOK'
    BY <1>1, <2>1 DEF MemoryTypeOK, backendVars
  <2>3. IsInjective(queue)' /\ \A i \in Jobs : RecordInv(i)'
    BY <1>2, <2>1 DEF backendVars, MemoryInv, RecordInv, Unfinished
  <2>4. (\A l \in Loops : LoopInv(l)') /\ RunApart'
    BY <1>1, <1>2, <2>1 DEF backendVars, MemoryInv, LoopInv, RunApart, Runs,
                            Unfinished
  <2>5. \A g \in Handles : WokenInv(g)'
    BY <1>1, <2>1 DEF backendVars, MemoryInv, MemoryTypeOK, WokenInv, Unfinished
  <2> QED
    BY <2>2, <2>3, <2>4, <2>5 DEF MemoryInv
<1>5. CASE ~Known(j)
  <2>1. /\ records[j].status = "absent"
        /\ j \notin Range(queue) /\ ~Vouched(j)
    <3>1. records[j].status = "absent" /\ RecordInv(j)
      BY <1>5, <1>1, KnownIsThere DEF MemoryInv
    <3>2. \A g \in Handles : Target[g] = j => handle[g] = "new"
      BY <1>0, <1>5 DEF Submit
    <3> QED
      BY <3>1, <3>2 DEF RecordInv, Vouched
  <2>2. /\ records' = [records EXCEPT ![j] = [NoRecord EXCEPT !.status = "queued"]]
        /\ queue' = Append(queue, j)
        /\ events' = events \cup {j}
        /\ cancels' = [cancels EXCEPT ![j] = "unset"]
    BY <1>0, <1>5 DEF Submit, Enqueue
  <2>3. /\ queue' \in Seq(Jobs) /\ Range(queue') = Range(queue) \cup {j}
        /\ IsInjective(queue')
    BY <1>1, <2>1, <2>2, AppendRange DEF MemoryInv, MemoryTypeOK
  <2>4. /\ records'[j].status = "queued" /\ ~records'[j].request_cancel
        /\ cancels'[j] = "unset"
        /\ \A i \in Jobs \ {j} : records'[i] = records[i]
                                 /\ cancels'[i] = cancels[i]
    BY <1>1, <2>2 DEF MemoryTypeOK, NoRecord
  <2>5. MemoryTypeOK'
    <3>1. [NoRecord EXCEPT !.status = "queued"] \in Records
      BY DEF NoRecord, Records
    <3> QED
      BY <1>1, <2>2, <2>3, <3>1 DEF MemoryTypeOK
  <2>6. ASSUME NEW i \in Jobs
        PROVE  RecordInv(i)'
    <3>1. CASE i = j
      BY <1>3, <2>2, <2>3, <2>4, <3>1 DEF RecordInv, Unfinished
    <3>2. CASE i # j
      BY <1>2, <2>2, <2>3, <2>4, <3>2 DEF MemoryInv, RecordInv, Unfinished
    <3> QED
      BY <3>1, <3>2
  <2>7. ASSUME NEW l \in Loops
        PROVE  LoopInv(l)'
    <3>1. LoopInv(l) /\ step'[l] = step[l] /\ held'[l] = held[l]
      BY <1>1 DEF MemoryInv
    <3>2. step[l] # "polling" => records'[held[l].id] = records[held[l].id]
      BY <2>1, <2>4, <3>1 DEF LoopInv
    <3> QED
      BY <1>2, <3>1, <3>2, LoopKeeps DEF LoopInv, Runs, Unfinished
  <2>8. RunApart'
    BY <1>1 DEF MemoryInv, RunApart, Runs
  <2>9. ASSUME NEW g \in Handles
        PROVE  WokenInv(g)'
    <3>1. CASE handle'[g] = "woken"
      <4>1. handle[g] = "woken" /\ Target[g] # j /\ Target[g] \in Jobs
        BY <1>1, <2>1, <3>1, MemoryAssumption DEF Vouched, MemoryTypeOK
      <4> QED
        BY <2>4, <4>1 DEF MemoryInv, WokenInv, Unfinished
    <3> QED
      BY <3>1 DEF WokenInv
  <2> QED
    BY <2>3, <2>5, <2>6, <2>7, <2>8, <2>9 DEF MemoryInv
<1> QED
  BY <1>4, <1>5

\* take_result pops a record that is not unfinished.
LEMMA PopKeeps ==
    ASSUME MemoryInv, [MemoryNext]_vars, NEW h \in Handles, PopRecord(h),
           ~Unfinished(Target[h])
    PROVE  MemoryInv'
<1>0. PICK j \in Jobs : j = Target[h]
  BY MemoryAssumption
<1>1. /\ MemoryTypeOK /\ records[j] \in Records /\ RecordInv(j)
      /\ ~Unfinished(j)
  BY <1>0 DEF MemoryInv, MemoryTypeOK
<1>2. \A i : Vouched(i) => Vouched(i)'
  BY <1>1, VouchedStays
<1>3. /\ records' = [records EXCEPT ![j] = NoRecord]
      /\ events' = events \ {j}
      /\ cancels' = [cancels EXCEPT ![j] = "none"]
      /\ queue' = queue /\ held' = held /\ step' = step /\ releases' = releases
  BY <1>0 DEF PopRecord
<1>4. PICK value \in {"missing"} \cup Final :
        handle' = [handle EXCEPT ![h] = value]
  <2>1. Known(j) => records[j].status \in Final
    BY <1>1, KnownIsThere DEF Unfinished, Records
  <2> QED
    BY <1>0, <2>1 DEF PopRecord
<1>5. /\ records'[j].status = "absent" /\ ~records'[j].request_cancel
      /\ cancels'[j] = "none"
      /\ \A i \in Jobs \ {j} : records'[i] = records[i]
                               /\ cancels'[i] = cancels[i]
  BY <1>1, <1>3 DEF MemoryTypeOK, NoRecord
<1>6. MemoryTypeOK'
  <2>1. NoRecord \in Records
    BY DEF NoRecord, Records
  <2> QED
    BY <1>1, <1>3, <1>4, <2>1 DEF MemoryTypeOK
<1>7. ASSUME NEW i \in Jobs
      PROVE  RecordInv(i)'
  <2>1. CASE i = j
    BY <1>1, <1>3, <1>5, <2>1 DEF RecordInv, Unfinished
  <2>2. CASE i # j
    BY <1>2, <1>3, <1>5, <2>2 DEF MemoryInv, RecordInv, Unfinished
  <2> QED
    BY <2>1, <2>2
<1>8. ASSUME NEW l \in Loops
      PROVE  LoopInv(l)'
  <2>1. LoopInv(l) /\ step'[l] = step[l] /\ held'[l] = held[l]
    BY <1>3 DEF MemoryInv
  <2>2. Runs(l) => records'[held[l].id] = records[held[l].id]
    BY <1>1, <1>5, <2>1 DEF LoopInv, Runs, Unfinished
  <2>3. step[l] = "unwinding" =>
            records'[held[l].id].status \notin {"queued", "running"}
    BY <1>5, <2>1 DEF LoopInv, Unfinished
  <2> QED
    BY <1>2, <2>1, <2>2, <2>3, LoopKeeps DEF LoopInv
<1>9. RunApart' /\ IsInjective(queue)'
  BY <1>3 DEF MemoryInv, RunApart, Runs
<1>10. ASSUME NEW g \in Handles
       PROVE  WokenInv(g)'
  <2>1. handle'[g] = "woken" => handle[g] = "woken"
    BY <1>1, <1>4 DEF MemoryTypeOK, Final
  <2> QED
    BY <1>5, <2>1, MemoryAssumption DEF MemoryInv, WokenInv, Unfinished
<1> QED
  BY <1>6, <1>7, <1>8, <1>9, <1>10 DEF MemoryInv

\* take_result starts to wait, or finds its job finished or gone.
LEMMA TakeKeeps ==
    ASSUME MemoryInv, [MemoryNext]_vars, NEW h \in Handles,
           TakeStarts(h) \/ TakeResumes(h)
    PROVE  MemoryInv'
<1>0. MemoryTypeOK /\ Target[h] \in Jobs
  BY MemoryAssumption DEF MemoryInv
<1>1. CASE TakeResumes(h)
  BY <1>1, PopKeeps DEF TakeResumes, MemoryInv, WokenInv
<1>2. CASE TakeStarts(h) /\ Target[h] \notin events
  BY <1>0, <1>2, PopKeeps DEF TakeStarts, MemoryInv, RecordInv
<1>3. CASE TakeStarts(h) /\ Target[h] \in events
  <2>1. /\ handle' = [handle EXCEPT ![h] = "waiting"]
        /\ UNCHANGED <<records, queue, events, cancels, held, step, releases>>
    BY <1>3 DEF TakeStarts, backendVars
  <2>2. \A i : Vouched(i) => Vouched(i)'
    BY <1>0, VouchedStays
  <2>3. MemoryTypeOK' /\ IsInjective(queue)' /\ RunApart'
    BY <2>1 DEF MemoryInv, MemoryTypeOK, RunApart, Runs
  <2>4. \A i \in Jobs : RecordInv(i)'
    BY <2>1, <2>2 DEF MemoryInv, RecordInv, Unfinished
  <2>5. \A l \in Loops : LoopInv(l)'
    BY <2>1, <2>2, LoopKeeps DEF MemoryInv, LoopInv, Unfinished
  <2>6. \A g \in Handles : WokenInv(g)'
    BY <1>0, <2>1 DEF MemoryInv, MemoryTypeOK, WokenInv, Unfinished
  <2> QED
    BY <2>3, <2>4, <2>5, <2>6 DEF MemoryInv
<1> QED
  BY <1>1, <1>2, <1>3

\* request_cancel flags an unfinished job and sets its event.
LEMMA RequestCancelKeeps ==
    ASSUME MemoryInv, [MemoryNext]_vars, NEW j \in Jobs, RequestCancel(j)
    PROVE  MemoryInv'
<1>1. MemoryTypeOK /\ RecordInv(j) /\ records[j] \in Records
  BY DEF MemoryInv, MemoryTypeOK
<1>2. \A i : Vouched(i) => Vouched(i)'
  BY <1>1, VouchedStays
<1>3. /\ records' = [records EXCEPT ![j].request_cancel = TRUE]
      /\ cancels' = [cancels EXCEPT ![j] = IF @ = "none" THEN @ ELSE "set"]
      /\ UNCHANGED <<queue, events, handle, held, step, releases>>
  BY DEF RequestCancel
<1>4. records[j].status # "absent"
  BY <1>1, KnownIsThere DEF RequestCancel
<1>5. /\ records'[j].status = records[j].status
      /\ records'[j].request_cancel
      /\ cancels'[j] \in {"none", "set"}
      /\ cancels'[j] = "none" <=> cancels[j] = "none"
      /\ \A i \in Jobs \ {j} : records'[i] = records[i]
                               /\ cancels'[i] = cancels[i]
  BY <1>1, <1>3 DEF MemoryTypeOK, Records
<1>6. MemoryTypeOK'
  <2>1. [records[j] EXCEPT !.request_cancel = TRUE] \in Records
    BY <1>1 DEF Records
  <2>2. records' \in [Jobs -> Records]
    BY <1>1, <1>3, <2>1 DEF MemoryTypeOK
  <2> QED
    BY <1>1, <1>3, <2>2 DEF MemoryTypeOK
<1>7. ASSUME NEW i \in Jobs
      PROVE  RecordInv(i)'
  <2>1. CASE i = j
    BY <1>1, <1>2, <1>3, <1>4, <1>5, <2>1 DEF RecordInv, Unfinished
  <2>2. CASE i # j
    BY <1>2, <1>3, <1>5, <2>2 DEF MemoryInv, RecordInv, Unfinished
  <2> QED
    BY <2>1, <2>2
<1>8. \A i \in Jobs :
        /\ records'[i].status = records[i].status
        /\ records[i].request_cancel => records'[i].request_cancel
  BY <1>5
<1>9. ASSUME NEW l \in Loops
      PROVE  LoopInv(l)'
  <2>1. LoopInv(l) /\ step'[l] = step[l] /\ held'[l] = held[l]
    BY <1>3 DEF MemoryInv
  <2> QED
    BY <1>2, <1>8, <2>1, LoopKeeps DEF LoopInv, Runs, Unfinished
<1>10. RunApart' /\ IsInjective(queue)'
  BY <1>3 DEF MemoryInv, RunApart, Runs
<1>11. \A g \in Handles : WokenInv(g)'
  BY <1>3, <1>8, MemoryAssumption DEF MemoryInv, WokenInv, Unfinished
<1> QED
  BY <1>6, <1>7, <1>9, <1>10, <1>11 DEF MemoryInv

\* claim takes the oldest queued job into one loop's hands.
LEMMA ClaimKeeps ==
    ASSUME MemoryInv, [MemoryNext]_vars, NEW l \in Loops, Claim(l)
    PROVE  MemoryInv'
<1>1. MemoryTypeOK /\ queue # <<>> /\ IsInjective(queue)
  BY DEF MemoryInv, Claim
<1>2. PICK j \in Jobs : j = Head(queue)
  BY <1>1, TailRange DEF MemoryTypeOK
<1>3. /\ j \in Range(queue) /\ queue' \in Seq(Jobs) /\ IsInjective(queue')
      /\ Range(queue') = Range(queue) \ {j}
  BY <1>1, <1>2, TailRange DEF MemoryTypeOK, Claim
<1>4. records[j].status = "queued" /\ RecordInv(j) /\ records[j] \in Records
  BY <1>1, <1>3 DEF MemoryInv, RecordInv, MemoryTypeOK
<1>16. Known(j)
  BY <1>1, <1>4, KnownIsThere
<1>5. PICK flagged \in BOOLEAN : flagged = records[j].request_cancel
  BY <1>4 DEF Records
<1>6. /\ records' = [records EXCEPT ![j].status = "running"]
      /\ held' = [held EXCEPT ![l] =
                    [id |-> j, request_cancel |-> flagged,
                     status |-> IF flagged THEN "cancelled" ELSE "running"]]
      /\ step' = [step EXCEPT ![l] = IF flagged THEN "saving" ELSE "running"]
      /\ UNCHANGED <<events, cancels, handle, releases>>
  BY <1>2, <1>5, <1>16 DEF Claim
<1>7. \A i : Vouched(i) => Vouched(i)'
  BY <1>1, VouchedStays
<1>8. /\ records'[j].status = "running"
      /\ records'[j].request_cancel = records[j].request_cancel
      /\ \A i \in Jobs \ {j} : records'[i] = records[i]
      /\ \A i \in Jobs : Unfinished(i)' <=> Unfinished(i)
  BY <1>1, <1>4, <1>6 DEF MemoryTypeOK, Unfinished, Records
<1>9. MemoryTypeOK'
  <2>1. [records[j] EXCEPT !.status = "running"] \in Records
    BY <1>4 DEF Records
  <2>2. records' \in [Jobs -> Records]
    BY <1>1, <1>6, <2>1 DEF MemoryTypeOK
  <2>3. held' \in [Loops -> Holds]
    BY <1>1, <1>6 DEF MemoryTypeOK, Holds, Final
  <2> QED
    BY <1>1, <1>3, <1>6, <2>2, <2>3 DEF MemoryTypeOK
<1>10. ASSUME NEW i \in Jobs
       PROVE  RecordInv(i)'
  <2>1. CASE i = j
    BY <1>3, <1>4, <1>6, <1>7, <1>8, <2>1 DEF RecordInv, Unfinished
  <2>2. CASE i # j
    BY <1>3, <1>6, <1>7, <1>8, <2>2 DEF MemoryInv, RecordInv, Unfinished
  <2> QED
    BY <2>1, <2>2
<1>11. \A k \in Loops : step[k] # "polling" => held[k].id # j
  BY <1>4 DEF MemoryInv, LoopInv, Runs, Unfinished, MemoryTypeOK
<1>12. ASSUME NEW k \in Loops
       PROVE  LoopInv(k)'
  <2>1. CASE k = l
    <3>1. held'[l].id = j
          /\ held'[l].status = (IF flagged THEN "cancelled" ELSE "running")
          /\ step'[l] = (IF flagged THEN "saving" ELSE "running")
      BY <1>1, <1>6 DEF MemoryTypeOK
    <3>2. Vouched(j)'
      BY <1>4, <1>7 DEF RecordInv
    <3> QED
      BY <1>5, <1>8, <2>1, <3>1, <3>2 DEF LoopInv, Runs, Vouched, Final
  <2>2. CASE k # l
    <3>1. LoopInv(k) /\ step'[k] = step[k] /\ held'[k] = held[k]
      BY <1>1, <1>6, <2>2 DEF MemoryInv, MemoryTypeOK
    <3>2. step[k] # "polling" => records'[held[k].id] = records[held[k].id]
      BY <1>8, <1>11, <3>1 DEF LoopInv
    <3> QED
      BY <1>7, <3>1, <3>2, LoopKeeps DEF LoopInv, Runs, Unfinished
  <2> QED
    BY <2>1, <2>2
<1>13. RunApart'
  <2>1. \A k \in Loops \ {l} : step'[k] = step[k] /\ held'[k] = held[k]
    BY <1>1, <1>6 DEF MemoryTypeOK
  <2>2. held'[l].id = j
    BY <1>1, <1>6 DEF MemoryTypeOK
  <2> QED
    BY <1>11, <2>1, <2>2 DEF MemoryInv, RunApart, Runs
<1>14. \A g \in Handles : WokenInv(g)'
  BY <1>6, <1>8, MemoryAssumption DEF MemoryInv, WokenInv, Unfinished
<1> QED
  BY <1>3, <1>9, <1>10, <1>12, <1>13, <1>14 DEF MemoryInv

\* A loop goes from running its job to saving what came of it.
LEMMA RunEndsKeeps ==
    ASSUME MemoryInv, [MemoryNext]_vars, NEW l \in Loops, NEW status \in Final,
           RunEnds(l, status),
           status = "cancelled" => cancels[held[l].id] = "set"
    PROVE  MemoryInv'
<1>1. /\ MemoryTypeOK /\ LoopInv(l) /\ step[l] = "running"
      /\ held[l] \in Holds /\ held[l].id \in Jobs
  BY DEF MemoryInv, MemoryTypeOK, RunEnds, LoopInv
<1>2. /\ step' = [step EXCEPT ![l] = "saving"]
      /\ held' = [held EXCEPT ![l].status = status]
      /\ UNCHANGED <<records, queue, events, cancels, handle, releases>>
  BY DEF RunEnds, backendVars
<1>3. \A i : Vouched(i) => Vouched(i)'
  BY <1>1, VouchedStays
<1>4. /\ held'[l].id = held[l].id /\ held'[l].status = status
      /\ step'[l] = "saving"
      /\ \A k \in Loops \ {l} : step'[k] = step[k] /\ held'[k] = held[k]
  BY <1>1, <1>2 DEF MemoryTypeOK, Holds
<1>5. MemoryTypeOK'
  <2>1. [held[l] EXCEPT !.status = status] \in Holds
    BY <1>1 DEF Holds
  <2>2. held' \in [Loops -> Holds]
    BY <1>1, <1>2, <2>1 DEF MemoryTypeOK
  <2> QED
    BY <1>1, <1>2, <2>2 DEF MemoryTypeOK
<1>6. IsInjective(queue)' /\ \A i \in Jobs : RecordInv(i)'
  BY <1>2, <1>3 DEF MemoryInv, RecordInv, Unfinished
<1>7. ASSUME NEW k \in Loops
      PROVE  LoopInv(k)'
  <2>1. CASE k = l
    <3>1. PICK j \in Jobs : j = held[l].id
      BY <1>1
    <3>2. /\ Vouched(j)' /\ records'[j].status = "running"
          /\ status = "cancelled" => records'[j].request_cancel
      BY <1>1, <1>2, <1>3, <3>1 DEF LoopInv, Runs, MemoryInv, RecordInv
    <3> QED
      BY <1>4, <2>1, <3>1, <3>2 DEF LoopInv, Runs, Vouched
  <2>2. CASE k # l
    BY <1>2, <1>3, <1>4, <2>2, LoopKeeps DEF MemoryInv, LoopInv, Unfinished
  <2> QED
    BY <2>1, <2>2
<1>8. RunApart'
  BY <1>1, <1>4 DEF MemoryInv, RunApart, Runs
<1>9. \A g \in Handles : WokenInv(g)'
  BY <1>2 DEF MemoryInv, WokenInv, Unfinished
<1> QED
  BY <1>5, <1>6, <1>7, <1>8, <1>9 DEF MemoryInv

\* A loop that has a job no more.
LEMMA IdleLoop ==
    ASSUME NEW l \in Loops, step'[l] = "polling"
    PROVE  LoopInv(l)'
BY DEF LoopInv, Runs

\* save(done=True) finishes a RUNNING job, and wakes those who wait for it.
LEMMA SaveKeeps ==
    ASSUME MemoryInv, [MemoryNext]_vars, NEW l \in Loops, Save(l)
    PROVE  MemoryInv'
<1>1. /\ MemoryTypeOK /\ LoopInv(l) /\ step[l] = "saving"
      /\ held[l] \in Holds /\ held[l].status \in Final
  BY DEF MemoryInv, MemoryTypeOK, Save, LoopInv
<1>2. PICK j \in Jobs : j = held[l].id
  BY <1>1 DEF LoopInv
<1>3. /\ records[j].status = "running" /\ RecordInv(j) /\ Known(j)
  BY <1>1, <1>2, KnownIsThere DEF LoopInv, Runs, MemoryInv
<1>4. /\ records' = [records EXCEPT ![j] =
                       [status |-> held[l].status,
                        request_cancel |-> held[l].request_cancel]]
      /\ events' = events \ {j}
      /\ cancels' = [cancels EXCEPT ![j] = "none"]
      /\ handle' = [h \in Handles |->
                      IF Target[h] = j /\ handle[h] = "waiting"
                        THEN "woken" ELSE handle[h]]
      /\ UNCHANGED <<queue, releases>>
  BY <1>2, <1>3 DEF Save
<1>5. /\ \A k \in Loops \ {l} : step'[k] = step[k] /\ held'[k] = held[k]
      /\ \/ step'[l] = "unwinding" /\ held'[l].id = j
         \/ step'[l] = "polling"
  BY <1>1, <1>2 DEF Save, MemoryTypeOK
<1>6. \A i : Vouched(i) => Vouched(i)'
  BY <1>1, VouchedStays
<1>7. /\ records'[j].status \in Final /\ cancels'[j] = "none"
      /\ \A i \in Jobs \ {j} : records'[i] = records[i]
                               /\ cancels'[i] = cancels[i]
  BY <1>1, <1>4 DEF MemoryTypeOK
<1>8. MemoryTypeOK'
  <2>1. [status |-> held[l].status, request_cancel |-> held[l].request_cancel]
          \in Records
    BY <1>1 DEF Records, Holds
  <2>2. records' \in [Jobs -> Records] /\ handle' \in [Handles ->
            {"new", "submitted", "waiting", "woken", "missing"} \cup Final]
    BY <1>1, <1>4, <2>1 DEF MemoryTypeOK
  <2>3. NoHold \in Holds
    BY DEF NoHold, Holds
  <2>4. held' \in [Loops -> Holds] /\ step' \in [Loops ->
            {"polling", "running", "saving", "unwinding"}]
    BY <1>1, <2>3 DEF MemoryTypeOK, Save
  <2> QED
    BY <1>1, <1>4, <2>2, <2>4 DEF MemoryTypeOK
<1>9. ASSUME NEW i \in Jobs
      PROVE  RecordInv(i)'
  <2>1. CASE i = j
    BY <1>3, <1>4, <1>6, <1>7, <2>1 DEF RecordInv, Unfinished, Final
  <2>2. CASE i # j
    BY <1>4, <1>6, <1>7, <2>2 DEF MemoryInv, RecordInv, Unfinished
  <2> QED
    BY <2>1, <2>2
<1>10. ASSUME NEW k \in Loops
       PROVE  LoopInv(k)'
  <2>1. CASE k = l /\ step'[l] = "unwinding"
    <3>1. Vouched(j)' /\ ~Unfinished(j)'
      BY <1>3, <1>6, <1>7 DEF RecordInv, Unfinished, Final
    <3> QED
      BY <1>5, <2>1, <3>1 DEF LoopInv, Runs, Vouched, Unfinished
  <2>2. CASE k = l /\ step'[l] = "polling"
    BY <2>2, IdleLoop
  <2>3. CASE k # l
    <3>1. LoopInv(k) /\ step'[k] = step[k] /\ held'[k] = held[k]
      BY <1>5, <2>3 DEF MemoryInv
    <3>2. Runs(k) => held[k].id # j
      BY <1>1, <1>2, <2>3 DEF MemoryInv, RunApart, Runs
    <3>3. Runs(k) => records'[held[k].id] = records[held[k].id]
      BY <1>7, <3>1, <3>2 DEF LoopInv, Runs
    <3>4. step[k] = "unwinding" =>
              records'[held[k].id].status \notin {"queued", "running"}
      BY <1>7, <3>1 DEF LoopInv, Unfinished, Final
    <3> QED
      BY <1>6, <3>1, <3>3, <3>4, LoopKeeps DEF LoopInv
  <2> QED
    BY <1>5, <2>1, <2>2, <2>3
<1>11. RunApart'
  BY <1>5 DEF MemoryInv, RunApart, Runs
<1>12. ASSUME NEW g \in Handles
       PROVE  WokenInv(g)'
  <2>1. CASE Target[g] = j
    BY <1>7, <2>1 DEF WokenInv, Unfinished, Final
  <2>2. CASE Target[g] # j
    BY <1>4, <1>7, <2>2, MemoryAssumption DEF MemoryInv, WokenInv, Unfinished
  <2> QED
    BY <2>1, <2>2
<1> QED
  BY <1>4, <1>8, <1>9, <1>10, <1>11, <1>12 DEF MemoryInv

\* A loop that leaves a job, which it may put back: only a RUNNING one goes
\* back on the queue, and no other loop has it.
LEMMA LeaveKeeps ==
    ASSUME MemoryInv, [MemoryNext]_vars, NEW l \in Loops,
           Unwinds(l) \/ Interrupted(l)
    PROVE  MemoryInv'
<1>1. MemoryTypeOK /\ LoopInv(l) /\ step[l] # "polling"
  BY DEF MemoryInv, Unwinds, Interrupted
<1>2. PICK j \in Jobs : j = held[l].id
  BY <1>1 DEF LoopInv
<1>3. /\ step' = [step EXCEPT ![l] = "polling"]
      /\ held' = [held EXCEPT ![l] = NoHold]
      /\ UNCHANGED <<events, cancels, handle>>
      /\ releases' \in Nat
  BY <1>1 DEF Unwinds, Interrupted, Release, backendVars, MemoryTypeOK
<1>4. /\ \A k \in Loops \ {l} : step'[k] = step[k] /\ held'[k] = held[k]
      /\ step'[l] = "polling"
      /\ held' \in [Loops -> Holds]
      /\ step' \in [Loops -> {"polling", "running", "saving", "unwinding"}]
  <2>1. NoHold \in Holds
    BY DEF NoHold, Holds
  <2> QED
    BY <1>1, <1>3, <2>1 DEF MemoryTypeOK
<1>5. \A i : Vouched(i) => Vouched(i)'
  BY <1>1, VouchedStays
<1>6. RunApart'
  BY <1>4 DEF MemoryInv, RunApart, Runs
<1>7. CASE UNCHANGED <<records, queue>>
  <2>1. MemoryTypeOK' /\ IsInjective(queue)'
    BY <1>1, <1>3, <1>4, <1>7 DEF MemoryInv, MemoryTypeOK
  <2>2. \A i \in Jobs : RecordInv(i)'
    BY <1>3, <1>5, <1>7 DEF MemoryInv, RecordInv, Unfinished
  <2>3. ASSUME NEW k \in Loops
        PROVE  LoopInv(k)'
    <3>1. CASE k = l
      BY <1>4, <3>1, IdleLoop
    <3>2. CASE k # l
      BY <1>4, <1>5, <1>7, <3>2, LoopKeeps DEF MemoryInv, LoopInv, Unfinished
    <3> QED
      BY <3>1, <3>2
  <2>4. \A g \in Handles : WokenInv(g)'
    BY <1>3, <1>7 DEF MemoryInv, WokenInv, Unfinished
  <2> QED
    BY <1>6, <2>1, <2>2, <2>3, <2>4 DEF MemoryInv
<1>8. CASE /\ records[j].status = "running"
           /\ records' = [records EXCEPT ![j].status = "queued"]
           /\ queue' = Append(queue, j)
  <2>1. /\ records[j] \in Records /\ RecordInv(j) /\ j \notin Range(queue)
        /\ IsInjective(queue)
    BY <1>1, <1>8 DEF MemoryInv, MemoryTypeOK, RecordInv
  <2>2. /\ queue' \in Seq(Jobs) /\ Range(queue') = Range(queue) \cup {j}
        /\ IsInjective(queue')
    BY <1>1, <1>8, <2>1, AppendRange DEF MemoryTypeOK
  <2>3. /\ records'[j].status = "queued"
        /\ records'[j].request_cancel = records[j].request_cancel
        /\ \A i \in Jobs \ {j} : records'[i] = records[i]
        /\ \A i \in Jobs : Unfinished(i)' <=> Unfinished(i)
    BY <1>1, <1>8, <2>1 DEF MemoryTypeOK, Unfinished, Records
  <2>4. MemoryTypeOK'
    <3>1. [records[j] EXCEPT !.status = "queued"] \in Records
      BY <2>1 DEF Records
    <3>2. records' \in [Jobs -> Records]
      BY <1>1, <1>8, <3>1 DEF MemoryTypeOK
    <3> QED
      BY <1>1, <1>3, <1>4, <2>2, <3>2 DEF MemoryTypeOK
  <2>5. ASSUME NEW i \in Jobs
        PROVE  RecordInv(i)'
    <3>1. CASE i = j
      BY <1>3, <1>5, <1>8, <2>1, <2>2, <2>3, <3>1 DEF RecordInv, Unfinished
    <3>2. CASE i # j
      BY <1>3, <1>5, <2>2, <2>3, <3>2 DEF MemoryInv, RecordInv, Unfinished
    <3> QED
      BY <3>1, <3>2
  <2>6. ASSUME NEW k \in Loops
        PROVE  LoopInv(k)'
    <3>1. CASE k = l
      BY <1>4, <3>1, IdleLoop
    <3>2. CASE k # l
      <4>1. LoopInv(k) /\ step'[k] = step[k] /\ held'[k] = held[k]
        BY <1>4, <3>2 DEF MemoryInv
      <4>2. Runs(l)
        BY <1>1, <1>2, <1>8 DEF LoopInv, Runs, Unfinished, MemoryTypeOK
      <4>3. step[k] # "polling" => held[k].id # j
        BY <1>1, <1>2, <1>8, <3>2, <4>1, <4>2
           DEF MemoryInv, RunApart, LoopInv, Runs, Unfinished, MemoryTypeOK
      <4>4. step[k] # "polling" => records'[held[k].id] = records[held[k].id]
        BY <2>3, <4>1, <4>3 DEF LoopInv
      <4> QED
        BY <1>5, <4>1, <4>4, LoopKeeps DEF LoopInv, Runs, Unfinished
    <3> QED
      BY <3>1, <3>2
  <2>7. \A g \in Handles : WokenInv(g)'
    BY <1>3, <2>3, MemoryAssumption DEF MemoryInv, WokenInv, Unfinished
  <2> QED
    BY <1>6, <2>2, <2>4, <2>5, <2>6, <2>7 DEF MemoryInv
<1> QED
  BY <1>2, <1>7, <1>8 DEF Unwinds, Interrupted, Release, backendVars

\* Every step keeps the invariant.
LEMMA MemoryInvStep ==
    ASSUME MemoryInv, Resubmitted = {}, [MemoryNext]_vars
    PROVE  MemoryInv'
<1>1. CASE UNCHANGED vars
  <2>1. \A h \in Handles : WokenInv(h)'
    BY <1>1 DEF vars, backendVars, MemoryInv, WokenInv, Unfinished
  <2>2. (\A j \in Jobs : RecordInv(j)') /\ \A l \in Loops : LoopInv(l)'
    BY <1>1 DEF vars, backendVars, MemoryInv, RecordInv, LoopInv, Runs,
                Unfinished, Vouched
  <2>3. MemoryTypeOK' /\ IsInjective(queue)' /\ RunApart'
    BY <1>1 DEF vars, backendVars, MemoryInv, MemoryTypeOK, RunApart, Runs
  <2> QED
    BY <2>1, <2>2, <2>3 DEF MemoryInv
<1>2. ASSUME NEW h \in Handles, Submit(h) \/ TakeStarts(h) \/ TakeResumes(h)
      PROVE  MemoryInv'
  BY <1>2, SubmitKeeps, TakeKeeps
<1>3. ASSUME NEW l \in Loops, LoopProgress(l) \/ BodyEnds(l) \/ Interrupted(l)
      PROVE  MemoryInv'
  <2>1. CASE Claim(l) \/ Save(l)
    BY <2>1, ClaimKeeps, SaveKeeps
  <2>2. CASE Unwinds(l) \/ Interrupted(l)
    BY <2>2, LeaveKeeps
  <2>3. CASE BodyEnds(l)
    BY <2>3, RunEndsKeeps DEF BodyEnds, Final
  <2>4. CASE CancelSeen(l)
    BY <2>4, RunEndsKeeps DEF CancelSeen, Final
  <2> QED
    BY <1>3, <2>1, <2>2, <2>3, <2>4 DEF LoopProgress
<1> QED
  BY <1>1, <1>2, <1>3, RequestCancelKeeps DEF MemoryNext

\* The invariant holds throughout, provided an id is submitted by handles that
\* all do so before one of them has taken the result: an id whose record was
\* consumed is not submitted again.
THEOREM MemoryInvariant ==
    ASSUME Resubmitted = {}
    PROVE  MemorySpec => []MemoryInv
<1>1. MemoryInit => MemoryInv
  BY MemoryInitHolds
<1>2. MemoryInv /\ [MemoryNext]_vars => MemoryInv'
  BY MemoryInvStep
<1> QED
  BY <1>1, <1>2, PTL DEF MemorySpec

\* enqueue, request_cancel, save, release and take_result keep the queue, the
\* done events and the cancel events in step with the records.
THEOREM EventsFollowRecords ==
    ASSUME Resubmitted = {}
    PROVE  MemorySpec => []EventsMatchRecords
<1>1. ASSUME MemoryInv
      PROVE  EventsMatchRecords
  <2>1. ASSUME NEW j \in Jobs
        PROVE  Known(j) /\ ~Finished(j) <=> Unfinished(j)
    <3>1. records[j] \in Records /\ (Known(j) <=> records[j].status # "absent")
      BY <1>1, KnownIsThere DEF MemoryInv, MemoryTypeOK
    <3> QED
      BY <3>1 DEF Finished, Unfinished, Records, Final
  <2> QED
    BY <1>1, <2>1 DEF EventsMatchRecords, MemoryInv, RecordInv
<1> QED
  BY <1>1, MemoryInvariant, PTL

-----------------------------------------------------------------------------
(* One step of the backend, seen through the map.                          *)

AbstractStep == Life!Next \/ UNCHANGED <<lifeMap, takenMap>>

\* A step that touches one record changes one entry of the map.
LEMMA OneEntry ==
    ASSUME NEW j \in Jobs, \A i \in Jobs \ {j} : records'[i] = records[i]
    PROVE  lifeMap' = [lifeMap EXCEPT ![j] = LifeOf(j)']
<1>1. \A i \in Jobs \ {j} : LifeOf(i)' = LifeOf(i)
  BY DEF LifeOf, Finished
<1>2. lifeMap' = [i \in Jobs |-> LifeOf(i)']
  BY DEF lifeMap
<1> QED
  BY <1>1, <1>2 DEF lifeMap

\* A step of one handle changes one entry of the map.
LEMMA OneTaken ==
    ASSUME NEW h \in Handles, \A g \in Handles \ {h} : handle'[g] = handle[g]
    PROVE  takenMap' = [takenMap EXCEPT ![h] = TakenOf(h)']
<1>1. \A g \in Handles \ {h} : TakenOf(g)' = TakenOf(g)
  BY DEF TakenOf
<1>2. takenMap' = [g \in Handles |-> TakenOf(g)']
  BY DEF takenMap
<1> QED
  BY <1>1, <1>2 DEF takenMap

\* What is not touched is not seen.
LEMMA NoEntry ==
    /\ records' = records => lifeMap' = lifeMap
    /\ handle' = handle => takenMap' = takenMap
BY DEF lifeMap, takenMap, LifeOf, TakenOf, Finished

\* What the map shows of an unfinished record, of a finished one, and of none.
LEMMA Shown ==
    ASSUME MemoryInv, NEW j \in Jobs
    PROVE  /\ lifeMap[j] = LifeOf(j)
           /\ Unfinished(j) =>
                LifeOf(j) = [status |-> records[j].status,
                             request_cancel |-> records[j].request_cancel]
           /\ Finished(j) => LifeOf(j).status = records[j].status
           /\ Known(j) <=> records[j].status # "absent"
           /\ ~Known(j) <=> LifeOf(j) = Life!Gone
<1>1. records[j].request_cancel \in BOOLEAN
  BY DEF MemoryInv, MemoryTypeOK, Records
<1>2. (records[j].request_cancel /\ ~Finished(j)) =
        IF Finished(j) THEN FALSE ELSE records[j].request_cancel
  BY <1>1
<1>3. Unfinished(j) => ~Finished(j)
  BY DEF Unfinished, Finished
<1>4. Known(j) <=> records[j].status # "absent"
  BY KnownIsThere DEF MemoryInv
<1>5. ~Known(j) => /\ records[j].status = "absent" /\ ~Finished(j)
                   /\ records[j].request_cancel = FALSE
  BY DEF Known, NoRecord, Finished
<1>6. Known(j) => LifeOf(j) # Life!Gone
  BY <1>4 DEF LifeOf, Life!Gone
<1>7. ~Known(j) => LifeOf(j) = Life!Gone
  BY <1>2, <1>5 DEF LifeOf, Life!Gone
<1>8. lifeMap[j] = LifeOf(j)
  BY DEF lifeMap
<1> QED
  BY <1>2, <1>3, <1>4, <1>6, <1>7, <1>8 DEF LifeOf

\* The same of the record after a step.
LEMMA ShownNext ==
    ASSUME MemoryInv', NEW j \in Jobs
    PROVE  /\ Unfinished(j)' =>
                LifeOf(j)' = [status |-> records'[j].status,
                              request_cancel |-> records'[j].request_cancel]
           /\ Finished(j)' => LifeOf(j)' = [status |-> records'[j].status,
                                            request_cancel |-> FALSE]
           /\ records'[j].status = "absent" => LifeOf(j)' = Life!Gone
<1>1. records'[j].request_cancel \in BOOLEAN
  BY DEF MemoryInv, MemoryTypeOK, Records
<1>2. (records'[j].request_cancel /\ ~Finished(j)') =
        IF Finished(j)' THEN FALSE ELSE records'[j].request_cancel
  BY <1>1
<1>3. Unfinished(j)' => ~Finished(j)'
  BY DEF Unfinished, Finished
<1>4. records'[j].status = "absent" =>
        ~Finished(j)' /\ records'[j].request_cancel = FALSE
  BY <1>1 DEF MemoryInv, RecordInv, Finished
<1> QED
  BY <1>2, <1>3, <1>4 DEF LifeOf, Life!Gone

\* A submission is an enqueue.
LEMMA SubmitMaps ==
    ASSUME MemoryInv, MemoryInv', NEW h \in Handles, Submit(h)
    PROVE  AbstractStep
<1>0. PICK j \in Jobs : j = Target[h]
  BY MemoryAssumption
<1>1. /\ records \in [Jobs -> Records]
      /\ handle'[h] = "submitted"
      /\ \A g \in Handles \ {h} : handle'[g] = handle[g]
  BY DEF Submit, MemoryInv, MemoryTypeOK
<1>2. takenMap' = [takenMap EXCEPT ![h] = "none"]
  BY <1>1, OneTaken DEF TakenOf
<1>3. lifeMap' = IF lifeMap[j] = Life!Gone
                   THEN [lifeMap EXCEPT ![j].status = "queued"] ELSE lifeMap
  <2>1. CASE Known(j)
    BY <1>0, <2>1, Shown, NoEntry DEF Submit, Enqueue, backendVars
  <2>2. CASE ~Known(j)
    <3>1. /\ records'[j].status = "queued"
          /\ records'[j].request_cancel = FALSE
          /\ \A i \in Jobs \ {j} : records'[i] = records[i]
      BY <1>0, <1>1, <2>2 DEF Submit, Enqueue, NoRecord
    <3>2. LifeOf(j)' = [status |-> "queued", request_cancel |-> FALSE]
      BY <3>1, ShownNext DEF Unfinished
    <3>3. LifeOf(j)' = [Life!Gone EXCEPT !.status = "queued"]
      <4>1. PICK flag : flag = FALSE
        OBVIOUS
      <4>2. [[status |-> "absent", request_cancel |-> flag]
                EXCEPT !.status = "queued"] =
            [status |-> "queued", request_cancel |-> flag]
        OBVIOUS
      <4> QED
        BY <3>2, <4>1, <4>2, Zenon DEF Life!Gone
    <3>4. lifeMap[j] = Life!Gone
      BY <2>2, Shown
    <3> QED
      BY <3>1, <3>3, <3>4, OneEntry
  <2> QED
    BY <2>1, <2>2
<1>4. Life!Enqueue(h)
  BY <1>0, <1>2, <1>3 DEF Life!Enqueue
<1> QED
  BY <1>4 DEF AbstractStep, Life!Next

\* What take_result pops is the record of a finished job, or none.
LEMMA PopMaps ==
    ASSUME MemoryInv, MemoryInv', NEW h \in Handles, PopRecord(h),
           ~Unfinished(Target[h])
    PROVE  AbstractStep
<1>0. PICK j \in Jobs : j = Target[h]
  BY MemoryAssumption
<1>1. /\ records \in [Jobs -> Records] /\ records[j] \in Records
      /\ handle' = [handle EXCEPT ![h] =
                      IF Known(j) THEN records[j].status ELSE "missing"]
      /\ handle \in [Handles -> {"new", "submitted", "waiting", "woken",
                                 "missing"} \cup Final]
  BY <1>0 DEF PopRecord, MemoryInv, MemoryTypeOK
<1>2. /\ records'[j].status = "absent"
      /\ \A i \in Jobs \ {j} : records'[i] = records[i]
  BY <1>0, <1>1 DEF PopRecord, NoRecord
<1>3. lifeMap' = [lifeMap EXCEPT ![j] = Life!Gone]
  BY <1>2, OneEntry, ShownNext
<1>4. takenMap' = [takenMap EXCEPT ![h] = TakenOf(h)']
  BY <1>1, OneTaken
<1>5. CASE Known(j)
  <2>1. /\ records[j].status \in Final /\ Finished(j)
        /\ lifeMap[j].status = records[j].status
    BY <1>0, <1>1, <1>5, Shown DEF Unfinished, Finished, Records, Final
  <2>2. TakenOf(h)' = records[j].status
    BY <1>1, <1>5, <2>1 DEF TakenOf, Final
  <2>3. Life!Take(h)
    BY <1>0, <1>3, <1>4, <2>1, <2>2 DEF Life!Take, Life!Ended, Final
  <2> QED
    BY <2>3 DEF AbstractStep, Life!Next
<1>6. CASE ~Known(j)
  <2>1. lifeMap[j] = Life!Gone
    BY <1>6, Shown
  <2>2. lifeMap' = lifeMap
    BY <1>3, <2>1 DEF lifeMap
  <2>3. TakenOf(h)' = "missing"
    BY <1>1, <1>6 DEF TakenOf
  <2>4. Life!TakeFails(h)
    BY <1>0, <1>4, <2>1, <2>2, <2>3 DEF Life!TakeFails
  <2> QED
    BY <2>4 DEF AbstractStep, Life!Next
<1> QED
  BY <1>5, <1>6

\* A take_result that starts to wait shows nothing.
LEMMA TakeMaps ==
    ASSUME MemoryInv, MemoryInv', NEW h \in Handles,
           TakeStarts(h) \/ TakeResumes(h)
    PROVE  AbstractStep
<1>0. Target[h] \in Jobs
  BY MemoryAssumption
<1>1. CASE TakeResumes(h)
  BY <1>1, PopMaps DEF TakeResumes, MemoryInv, WokenInv
<1>2. CASE TakeStarts(h) /\ Target[h] \notin events
  BY <1>0, <1>2, PopMaps DEF TakeStarts, MemoryInv, RecordInv
<1>3. CASE TakeStarts(h) /\ Target[h] \in events
  <2>1. /\ handle[h] = "submitted" /\ handle'[h] = "waiting"
        /\ \A g \in Handles \ {h} : handle'[g] = handle[g]
        /\ records' = records
    BY <1>3 DEF TakeStarts, backendVars, MemoryInv, MemoryTypeOK
  <2>2. TakenOf(h)' = takenMap[h]
    BY <2>1 DEF TakenOf, takenMap
  <2>3. takenMap' = takenMap /\ lifeMap' = lifeMap
    BY <2>1, <2>2, OneTaken, NoEntry DEF takenMap
  <2> QED
    BY <2>3 DEF AbstractStep
<1> QED
  BY <1>1, <1>2, <1>3

\* A cancel request flags the one job.
LEMMA RequestCancelMaps ==
    ASSUME MemoryInv, MemoryInv', NEW j \in Jobs, RequestCancel(j)
    PROVE  AbstractStep
<1>1. /\ records \in [Jobs -> Records] /\ records[j] \in Records
      /\ handle' = handle /\ Known(j) /\ ~Finished(j)
  BY DEF RequestCancel, MemoryInv, MemoryTypeOK
<1>2. Unfinished(j)
  BY <1>1, Shown DEF Unfinished, Finished, Records, Final
<1>3. /\ records'[j].status = records[j].status
      /\ records'[j].request_cancel = TRUE
      /\ \A i \in Jobs \ {j} : records'[i] = records[i]
  BY <1>1 DEF RequestCancel, Records
<1>4. Unfinished(j)'
  BY <1>2, <1>3 DEF Unfinished
<1>5. /\ lifeMap[j] = [status |-> records[j].status,
                       request_cancel |-> records[j].request_cancel]
      /\ LifeOf(j)' = [status |-> records[j].status, request_cancel |-> TRUE]
  BY <1>2, <1>3, <1>4, Shown, ShownNext
<1>6. [lifeMap[j] EXCEPT !.request_cancel = TRUE] = LifeOf(j)'
  <2>1. PICK set : set = TRUE
    OBVIOUS
  <2>2. [lifeMap[j] EXCEPT !.request_cancel = set] =
        [status |-> records[j].status, request_cancel |-> set]
    BY <1>5
  <2> QED
    BY <1>5, <2>1, <2>2, Zenon
<1>7. Life!Unfinished(j)
  BY <1>2, <1>5 DEF Unfinished, Life!Unfinished
<1>8. lifeMap' = [lifeMap EXCEPT ![j] = LifeOf(j)'] /\ takenMap' = takenMap
  BY <1>1, <1>3, OneEntry, NoEntry
<1>9. Life!RequestCancel({j}) /\ {j} \in SUBSET Jobs
  BY <1>6, <1>7, <1>8 DEF Life!RequestCancel, lifeMap
<1> QED
  BY <1>9 DEF AbstractStep, Life!Next

\* A claim delivers a queued job.
LEMMA ClaimMaps ==
    ASSUME MemoryInv, MemoryInv', NEW l \in Loops, Claim(l)
    PROVE  AbstractStep
<1>1. PICK j \in Jobs : j = Head(queue) /\ j \in Range(queue)
  BY TailRange DEF MemoryInv, MemoryTypeOK, Claim
<1>2. /\ records \in [Jobs -> Records] /\ records[j] \in Records
      /\ handle' = handle /\ records[j].status = "queued"
  BY <1>1 DEF Claim, MemoryInv, MemoryTypeOK, RecordInv
<1>8. Known(j)
  BY <1>2, KnownIsThere DEF MemoryInv
<1>3. /\ records'[j].status = "running"
      /\ records'[j].request_cancel = records[j].request_cancel
      /\ \A i \in Jobs \ {j} : records'[i] = records[i]
  BY <1>1, <1>2, <1>8 DEF Claim, Records
<1>4. /\ lifeMap[j] = [status |-> "queued",
                       request_cancel |-> records[j].request_cancel]
      /\ LifeOf(j)' = [status |-> "running",
                       request_cancel |-> records[j].request_cancel]
  BY <1>2, <1>3, Shown, ShownNext DEF Unfinished
<1>5. [lifeMap[j] EXCEPT !.status = "running"] = LifeOf(j)'
  BY <1>4
<1>6. /\ lifeMap' = [lifeMap EXCEPT ![j].status = "running"]
      /\ takenMap' = takenMap
  BY <1>2, <1>3, <1>5, OneEntry, NoEntry
<1>7. Life!Deliver(j)
  BY <1>4, <1>6 DEF Life!Deliver
<1> QED
  BY <1>7 DEF AbstractStep, Life!Next, Life!Backend

\* A save finishes a running job, with CANCELLED only where it was told to;
\* waking the takers shows nothing.
LEMMA SaveMaps ==
    ASSUME MemoryInv, MemoryInv', NEW l \in Loops, Save(l)
    PROVE  AbstractStep
<1>1. /\ LoopInv(l) /\ held[l].status \in Final
      /\ records \in [Jobs -> Records]
      /\ handle \in [Handles -> {"new", "submitted", "waiting", "woken",
                                 "missing"} \cup Final]
  BY DEF Save, MemoryInv, MemoryTypeOK, LoopInv
<1>2. PICK j \in Jobs : j = held[l].id
  BY <1>1 DEF Save, LoopInv
<1>3. /\ records[j].status = "running" /\ Known(j)
      /\ held[l].status = "cancelled" => records[j].request_cancel
  BY <1>1, <1>2, Shown DEF Save, LoopInv, Runs
<1>4. /\ records'[j].status = held[l].status
      /\ \A i \in Jobs \ {j} : records'[i] = records[i]
      /\ \A h \in Handles : \/ handle'[h] = handle[h]
                            \/ handle[h] = "waiting" /\ handle'[h] = "woken"
  BY <1>1, <1>2, <1>3 DEF Save
<1>5. takenMap' = takenMap
  BY <1>4 DEF takenMap, TakenOf
<1>6. lifeMap[j] = [status |-> "running",
                    request_cancel |-> records[j].request_cancel]
  BY <1>3, Shown DEF Unfinished
<1>7. LifeOf(j)' = [status |-> held[l].status, request_cancel |-> FALSE]
  BY <1>1, <1>4, ShownNext DEF Finished, Final
<1>8. LifeOf(j)' = [Life!Gone EXCEPT !.status = held[l].status]
  <2>1. PICK flag : flag = FALSE
    OBVIOUS
  <2>2. [[status |-> "absent", request_cancel |-> flag]
            EXCEPT !.status = held[l].status] =
        [status |-> held[l].status, request_cancel |-> flag]
    OBVIOUS
  <2> QED
    BY <1>7, <2>1, <2>2, Zenon DEF Life!Gone
<1>9. PICK status \in Life!Ended : status = held[l].status
  BY <1>1 DEF Final, Life!Ended
<1>10. Life!Finish(j, status)
  <2>1. lifeMap[j].status = "running"
        /\ (status = "cancelled" => lifeMap[j].request_cancel)
    BY <1>3, <1>6, <1>9
  <2>2. lifeMap' = [lifeMap EXCEPT ![j] = [Life!Gone EXCEPT !.status = status]]
    BY <1>4, <1>8, <1>9, OneEntry
  <2> QED
    BY <1>5, <2>1, <2>2 DEF Life!Finish
<1> QED
  BY <1>10 DEF AbstractStep, Life!Next, Life!Backend

\* An interrupted loop gives a running job back, and leaves any other alone.
LEMMA InterruptedMaps ==
    ASSUME MemoryInv, MemoryInv', NEW l \in Loops, Interrupted(l)
    PROVE  AbstractStep
<1>1. LoopInv(l) /\ records \in [Jobs -> Records] /\ handle' = handle
  BY DEF Interrupted, MemoryInv, MemoryTypeOK
<1>2. PICK j \in Jobs : j = held[l].id
  BY <1>1 DEF Interrupted, LoopInv
<1>3. CASE records[j].status = "running"
  <2>1. /\ records'[j].status = "queued"
        /\ records'[j].request_cancel = records[j].request_cancel
        /\ \A i \in Jobs \ {j} : records'[i] = records[i]
    BY <1>1, <1>2, <1>3 DEF Interrupted, Release, Records
  <2>2. /\ lifeMap[j] = [status |-> "running",
                         request_cancel |-> records[j].request_cancel]
        /\ LifeOf(j)' = [status |-> "queued",
                         request_cancel |-> records[j].request_cancel]
    BY <1>3, <2>1, Shown, ShownNext DEF Unfinished
  <2>3. [lifeMap[j] EXCEPT !.status = "queued"] = LifeOf(j)'
    BY <2>2
  <2>4. lifeMap' = [lifeMap EXCEPT ![j] = LifeOf(j)'] /\ takenMap' = takenMap
    BY <1>1, <2>1, OneEntry, NoEntry
  <2>5. lifeMap' = [i \in Jobs |->
                      IF i \in {j} THEN [lifeMap[i] EXCEPT !.status = "queued"]
                                   ELSE lifeMap[i]]
    BY <2>3, <2>4 DEF lifeMap
  <2>6. lifeMap[j].status = "running"
    BY <2>2
  <2>7. Life!GiveBack({j}) /\ {j} \in SUBSET Jobs
    BY <2>4, <2>5, <2>6 DEF Life!GiveBack
  <2> QED
    BY <2>7 DEF AbstractStep, Life!Next, Life!Backend
<1>4. CASE records[j].status # "running"
  BY <1>1, <1>2, <1>4, NoEntry DEF Interrupted, Release, backendVars,
                                   AbstractStep
<1> QED
  BY <1>3, <1>4

\* Every step of the backend is a step of JobLife, or none.
LEMMA StepsMap ==
    ASSUME MemoryInv, MemoryInv', [MemoryNext]_vars
    PROVE  AbstractStep
<1>1. CASE records' = records /\ handle' = handle
  BY <1>1, NoEntry DEF AbstractStep
<1>2. ASSUME NEW h \in Handles, Submit(h) \/ TakeStarts(h) \/ TakeResumes(h)
      PROVE  AbstractStep
  BY <1>2, SubmitMaps, TakeMaps
<1>3. ASSUME NEW l \in Loops, LoopProgress(l) \/ BodyEnds(l) \/ Interrupted(l),
             ~(records' = records /\ handle' = handle)
      PROVE  AbstractStep
  <2>1. Claim(l) \/ Save(l) \/ Interrupted(l)
    BY <1>3 DEF LoopProgress, BodyEnds, CancelSeen, RunEnds, Unwinds,
                backendVars
  <2> QED
    BY <2>1, ClaimMaps, SaveMaps, InterruptedMaps
<1> QED
  BY <1>1, <1>2, <1>3, RequestCancelMaps DEF MemoryNext, vars, backendVars

\* At the start there is no record and nothing was taken.
LEMMA InitMaps ==
    ASSUME MemoryInit
    PROVE  Life!LifeInit
<1>1. \A j \in Jobs : LifeOf(j) = Life!Gone
  BY MemoryInitHolds, Shown DEF MemoryInit, Known, lifeMap
<1>2. \A h \in Handles : TakenOf(h) = "none"
  BY DEF MemoryInit, TakenOf
<1> QED
  BY <1>1, <1>2 DEF Life!LifeInit, lifeMap, takenMap

\* The in-memory backend keeps the promises of the protocol class for every
\* number of jobs, handles, loops and releases, under the same proviso as the
\* networked one: an id that was consumed is not submitted again.
THEOREM MemoryImplementsLife ==
    ASSUME Resubmitted = {}
    PROVE  MemorySpec => MemoryImplementsJobLife
<1>1. MemoryInit => MemoryInv /\ Life!LifeInit
  BY MemoryInitHolds, InitMaps
<1>2. MemoryInv /\ [MemoryNext]_vars => MemoryInv'
  BY MemoryInvStep
<1>3. MemoryInv /\ MemoryInv' /\ [MemoryNext]_vars
        => [Life!Next]_(Life!lifeVars)
  BY StepsMap DEF AbstractStep, Life!lifeVars
<1> QED
  BY <1>1, <1>2, <1>3, PTL DEF MemorySpec, MemoryImplementsJobLife, Life!Spec
=============================================================================
