----------------------------- MODULE ScopeProofs -----------------------------
(***************************************************************************)
(* What a scope owes to its children, for any number of them and of runs   *)
(* of its owner, over any backend that keeps the promises of JobLife.      *)
(***************************************************************************)
EXTENDS JobGroup, TLAPS

\* A record as JobLife has it.
Record == [status : {"absent", "queued", "running"} \cup Ended,
           request_cancel : BOOLEAN]

\* The values every variable ranges over.
ScopeTypes ==
    /\ life \in [Children -> Record]
    /\ taken \in [Children -> {"none", "missing"} \cup Ended]
    /\ ordinal \in Nat
    /\ mode \in {"cancel_siblings", "collect", "ignore"}
    /\ cancelling \in BOOLEAN
    /\ cut \in BOOLEAN
    /\ late \subseteq Children
    /\ ScopeTypeOK

\* Only ordinals that were handed out have a waiter.
Numbered == \A c \in Children : c > ordinal => waiter[c] = "none"

\* How far a scope has come: what it will raise is decided when it leaves the
\* join or the body, and no waiter is left when it settles.
Staged ==
    /\ at \in {"body", "joining", "gathering"} =>
         exit = "none" /\ \A c \in Children : waiter[c] # "dropped"
    /\ at = "joining" => mode = "cancel_siblings"
    /\ at \in {"cancelling", "draining"} =>
         exit \in {"raised", "timeout", "cancelled"}
    /\ at \in {"settling", "closed"} => Pending = {}

\* What the teardown has done when it is over.
Answered ==
    /\ at = "draining" => \A c \in Spawned : Told(c)
    /\ at \in {"settling", "closed"} =>
         IF exit \in {"none", "group"}
           THEN \A c \in Spawned :
                  waiter[c] \in Ended \cup {"missing", "error"}
           ELSE cut \/ \A c \in Spawned : Told(c)

\* The books of the callback: every failure of a child is in _failures, and a
\* cancelled child is none only after another failed.
Booked ==
    /\ mode = "cancel_siblings" =>
         /\ \A c \in Children :
              /\ waiter[c] \in {"failed", "missing", "error"} => c \in failures
              /\ waiter[c] = "cancelled" => cancelling
         /\ cancelling => failures # {}
    /\ mode # "cancel_siblings" => ~cancelling /\ failures = {} /\ fanout = {}
    /\ at \in {"settling", "closed"} /\ exit = "none" => Failures = {}

\* Who was there at the first failure was told, or is still to be.
Fanned ==
    cancelling /\ ~cut => \A c \in Pending \ late : Told(c) \/ c \in fanout

ScopeInv ==
    /\ ScopeTypes
    /\ Numbered
    /\ Staged
    /\ Answered
    /\ Booked
    /\ Fanned

-----------------------------------------------------------------------------
(* What the calls of the backend do to the records.                        *)

\* The calls of a scope other than an enqueue, and what the backend does in the
\* meantime.
Calls ==
    \/ \E S \in SUBSET Children : RequestCancel(S)
    \/ \E c \in Children : Take(c) \/ TakeFails(c)
    \/ Backend
    \/ UNCHANGED records

\* Every call keeps a record a record.
LEMMA EnqueueTypes ==
    ASSUME ScopeTypes, NEW c \in Children, Enqueue(c)
    PROVE  /\ life' \in [Children -> Record]
           /\ taken' \in [Children -> {"none", "missing"} \cup Ended]
           /\ \A d \in Children : d # c => life'[d] = life[d]
<1>1. life \in [Children -> Record]
  BY DEF ScopeTypes
<1>2. [life[c] EXCEPT !.status = "queued"]
        \in Record
  BY <1>1 DEF Record
<1>3. \/ life' = life
      \/ life' = [life EXCEPT ![c] = [life[c] EXCEPT !.status = "queued"]]
  BY DEF Enqueue
<1> QED
  BY <1>1, <1>2, <1>3 DEF Enqueue, ScopeTypes

\* Every other call does, too.
LEMMA CallTypes ==
    ASSUME ScopeTypes, Calls
    PROVE  /\ life' \in [Children -> Record]
           /\ taken' \in [Children -> {"none", "missing"} \cup Ended]
<1>1. /\ life \in [Children -> Record]
      /\ taken \in [Children -> {"none", "missing"} \cup Ended]
  BY DEF ScopeTypes
<1>2. Gone \in Record
  BY DEF Gone, Record
<1>3. \A c \in Children :
        /\ [life[c] EXCEPT !.request_cancel = TRUE] \in Record
        /\ [life[c] EXCEPT !.status = "queued"] \in Record
        /\ [life[c] EXCEPT !.status = "running"] \in Record
        /\ [life[c] EXCEPT !.status = "failed"] \in Record
  BY <1>1 DEF Ended, Record
<1>4. \A status \in Ended : [Gone EXCEPT !.status = status] \in Record
  BY DEF Gone, Ended, Record
<1>5. CASE \E S \in SUBSET Children : RequestCancel(S)
  BY <1>1, <1>3, <1>5 DEF RequestCancel
<1>6. ASSUME NEW c \in Children, Take(c) \/ TakeFails(c)
      PROVE  /\ life' \in [Children -> Record]
             /\ taken' \in [Children -> {"none", "missing"} \cup Ended]
  BY <1>1, <1>2, <1>6 DEF Take, TakeFails
<1>7. CASE Backend
  <2>1. ASSUME NEW c \in Children, Deliver(c)
        PROVE  life' \in [Children -> Record] /\ taken' = taken
    BY <1>1, <1>3, <2>1 DEF Deliver
  <2>2. ASSUME NEW c \in Children, Overturn(c)
        PROVE  life' \in [Children -> Record] /\ taken' = taken
    BY <1>1, <1>3, <2>2 DEF Overturn
  <2>3. ASSUME NEW c \in Children, Expire(c)
        PROVE  life' \in [Children -> Record] /\ taken' = taken
    BY <1>1, <1>2, <2>3 DEF Expire
  <2>4. ASSUME NEW c \in Children, NEW status \in Ended, Finish(c, status)
        PROVE  life' \in [Children -> Record] /\ taken' = taken
    BY <1>1, <1>4, <2>4 DEF Finish
  <2>5. ASSUME NEW S \in SUBSET Children, GiveBack(S)
        PROVE  life' \in [Children -> Record] /\ taken' = taken
    BY <1>1, <1>3, <2>5 DEF GiveBack
  <2> QED
    BY <1>1, <1>7, <2>1, <2>2, <2>3, <2>4, <2>5 DEF Backend
<1>8. CASE UNCHANGED records
  BY <1>1, <1>8 DEF records
<1> QED
  BY <1>5, <1>6, <1>7, <1>8 DEF Calls

\* A child that finished, or was told to stop, stays so until its id is
\* enqueued again.
LEMMA ToldStays ==
    ASSUME ScopeTypes, Calls, NEW c \in Children, Told(c)
    PROVE  Told(c)'
<1>1. life \in [Children -> Record]
  BY DEF ScopeTypes
<1> USE DEF Told, Unfinished, Record
<1>2. ASSUME NEW S \in SUBSET Children, RequestCancel(S) \/ GiveBack(S)
      PROVE  Told(c)'
  BY <1>1, <1>2 DEF RequestCancel, GiveBack
<1>3. ASSUME NEW d \in Children, Take(d) \/ TakeFails(d)
      PROVE  Told(c)'
  BY <1>1, <1>3 DEF Take, TakeFails, Gone
<1>4. ASSUME NEW d \in Children, Deliver(d) \/ Overturn(d) \/ Expire(d)
      PROVE  Told(c)'
  BY <1>1, <1>4 DEF Deliver, Overturn, Expire, Gone, Ended
<1>5. ASSUME NEW d \in Children, NEW status \in Ended, Finish(d, status)
      PROVE  Told(c)'
  BY <1>1, <1>5 DEF Finish, Gone, Ended
<1>6. CASE UNCHANGED records
  BY <1>6 DEF records
<1> QED
  BY <1>2, <1>3, <1>4, <1>5, <1>6 DEF Calls, Backend

\* Whoever is asked to stop was told.
LEMMA AskedIsTold ==
    ASSUME ScopeTypes, NEW S \in SUBSET Children, RequestCancel(S), NEW c \in S
    PROVE  Told(c)'
<1>1. life \in [Children -> Record]
  BY DEF ScopeTypes
<1> QED
  BY <1>1 DEF RequestCancel, Told, Unfinished

-----------------------------------------------------------------------------
(* The steps of a scope.                                                   *)

\* The body raises or ends.
LEMMA BodyStep ==
    ASSUME ScopeInv, BodyRaises \/ BodyEnds
    PROVE  ScopeInv'
<1>1. Calls
  BY DEF Calls, BodyRaises, BodyEnds
<1>2. /\ life' \in [Children -> Record]
      /\ taken' \in [Children -> {"none", "missing"} \cup Ended]
      /\ \A d \in Children : Told(d) => Told(d)'
  BY <1>1, CallTypes, ToldStays DEF ScopeInv
<1>4. ScopeTypes'
  BY <1>2
     DEF ScopeInv, ScopeTypes, ScopeTypeOK, Spawned, BodyRaises, BodyEnds,
         JoinOf
<1>5. Numbered'
  BY DEF ScopeInv, Numbered, BodyRaises, BodyEnds
<1>6. Staged'
  BY DEF ScopeInv, Staged, Pending, BodyRaises, BodyEnds, JoinOf, Spawned
<1>7. Answered'
  BY DEF Answered, Spawned, BodyRaises, BodyEnds, JoinOf
<1>8. Booked'
  BY ScopeAssumption
     DEF ScopeInv, ScopeTypes, ScopeTypeOK, Booked, Failures, Raised,
         BodyRaises, BodyEnds, JoinOf, Spawned
<1>9. Fanned'
  BY <1>2 DEF ScopeInv, Fanned, Pending, BodyRaises, BodyEnds
<1> QED
  BY <1>4, <1>5, <1>6, <1>7, <1>8, <1>9 DEF ScopeInv

\* The first failure backs the callback up.
LEMMA JoinWakesStep ==
    ASSUME ScopeInv, JoinWakes
    PROVE  ScopeInv'
<1>1. Calls
  BY DEF Calls, JoinWakes, Pending
<1>2. /\ life' \in [Children -> Record]
      /\ taken' \in [Children -> {"none", "missing"} \cup Ended]
      /\ \A d \in Children : Told(d) => Told(d)'
  BY <1>1, CallTypes, ToldStays DEF ScopeInv
<1>3. ~cancelling => \A d \in Pending : Told(d)'
  BY AskedIsTold DEF ScopeInv, JoinWakes, Pending
<1>4. ScopeTypes'
  BY <1>2 DEF ScopeInv, ScopeTypes, ScopeTypeOK, Spawned, JoinWakes
<1>5. Numbered'
  BY DEF ScopeInv, Numbered, JoinWakes
<1>6. Staged'
  BY DEF ScopeInv, Staged, JoinWakes
<1>7. Answered'
  BY DEF Answered, JoinWakes
<1>8. Booked'
  BY DEF ScopeInv, Booked, Staged, Raised, JoinWakes
<1>9. Fanned'
  BY <1>2, <1>3 DEF ScopeInv, Fanned, Pending, JoinWakes
<1> QED
  BY <1>4, <1>5, <1>6, <1>7, <1>8, <1>9 DEF ScopeInv

\* A join ends when no waiter is left.
LEMMA JoinEndsStep ==
    ASSUME ScopeInv, JoinEnds
    PROVE  ScopeInv'
<1>1. Calls
  BY DEF Calls, JoinEnds
<1>2. /\ life' \in [Children -> Record]
      /\ taken' \in [Children -> {"none", "missing"} \cup Ended]
      /\ \A d \in Children : Told(d) => Told(d)'
  BY <1>1, CallTypes, ToldStays DEF ScopeInv
<1>4. ScopeTypes'
  BY <1>2 DEF ScopeInv, ScopeTypes, ScopeTypeOK, Spawned, JoinEnds, Settling
<1>5. Numbered'
  BY DEF ScopeInv, Numbered, JoinEnds, Settling
<1>6. Staged'
  BY DEF Staged, Pending, JoinEnds, Settling
<1>7. Answered'
  BY DEF ScopeInv, ScopeTypes, ScopeTypeOK, Answered, Staged, Spawned, Pending,
         JoinEnds, Settling
<1>8. Booked'
  BY DEF ScopeInv, Booked, Failures, Raised, JoinEnds, Settling
<1>9. Fanned'
  BY DEF Fanned, Pending, JoinEnds, Settling
<1> QED
  BY <1>4, <1>5, <1>6, <1>7, <1>8, <1>9 DEF ScopeInv

\* A join is interrupted.
LEMMA JoinInterruptedStep ==
    ASSUME ScopeInv, JoinInterrupted
    PROVE  ScopeInv'
<1>1. Calls
  BY DEF Calls, JoinInterrupted
<1>2. /\ life' \in [Children -> Record]
      /\ taken' \in [Children -> {"none", "missing"} \cup Ended]
      /\ \A d \in Children : Told(d) => Told(d)'
  BY <1>1, CallTypes, ToldStays DEF ScopeInv
<1>4. ScopeTypes'
  BY <1>2 DEF ScopeInv, ScopeTypes, ScopeTypeOK, Spawned, JoinInterrupted
<1>5. Numbered'
  BY DEF ScopeInv, Numbered, JoinInterrupted, Pending
<1>6. Staged'
  BY DEF Staged, JoinInterrupted
<1>7. Answered'
  BY DEF Answered, JoinInterrupted
<1>8. Booked'
  BY DEF ScopeInv, Booked, JoinInterrupted
<1>9. Fanned'
  BY <1>2 DEF ScopeInv, Fanned, Pending, JoinInterrupted
<1> QED
  BY <1>4, <1>5, <1>6, <1>7, <1>8, <1>9 DEF ScopeInv

\* The teardown asks every child to stop.
LEMMA CancelAllStep ==
    ASSUME ScopeInv, CancelAll
    PROVE  ScopeInv'
<1>1. Calls
  BY DEF Calls, CancelAll, Spawned
<1>2. /\ life' \in [Children -> Record]
      /\ taken' \in [Children -> {"none", "missing"} \cup Ended]
      /\ \A d \in Children : Told(d) => Told(d)'
  BY <1>1, CallTypes, ToldStays DEF ScopeInv
<1>3. \A d \in Spawned : Told(d)'
  BY AskedIsTold DEF ScopeInv, CancelAll, Spawned
<1>4. ScopeTypes'
  BY <1>2 DEF ScopeInv, ScopeTypes, ScopeTypeOK, Spawned, CancelAll
<1>5. Numbered'
  BY DEF ScopeInv, Numbered, CancelAll
<1>6. Staged'
  BY DEF ScopeInv, Staged, CancelAll
<1>7. Answered'
  BY <1>3 DEF Answered, Spawned, CancelAll
<1>8. Booked'
  BY DEF ScopeInv, Booked, CancelAll
<1>9. Fanned'
  BY <1>2 DEF ScopeInv, Fanned, Pending, CancelAll
<1> QED
  BY <1>4, <1>5, <1>6, <1>7, <1>8, <1>9 DEF ScopeInv

\* The drain ends.
LEMMA DrainStep ==
    ASSUME ScopeInv, DrainEnds \/ DrainTimesOut
    PROVE  ScopeInv'
<1>1. Calls
  BY DEF Calls, DrainEnds, DrainTimesOut
<1>2. /\ life' \in [Children -> Record]
      /\ taken' \in [Children -> {"none", "missing"} \cup Ended]
      /\ \A d \in Children : Told(d) => Told(d)'
  BY <1>1, CallTypes, ToldStays DEF ScopeInv
<1>4. ScopeTypes'
  BY <1>2
     DEF ScopeInv, ScopeTypes, ScopeTypeOK, Spawned, DrainEnds, DrainTimesOut,
         Settling
<1>5. Numbered'
  BY DEF ScopeInv, Numbered, DrainEnds, DrainTimesOut, Settling, Pending
<1>6. Staged'
  BY DEF Staged, Pending, DrainEnds, DrainTimesOut, Settling
<1>7. Answered'
  BY <1>2
     DEF ScopeInv, Answered, Staged, Spawned, DrainEnds, DrainTimesOut,
         Settling
<1>8. Booked'
  BY ScopeAssumption
     DEF ScopeInv, Booked, Staged, DrainEnds, DrainTimesOut, Settling
<1>9. Fanned'
  BY DEF Fanned, Pending, DrainEnds, DrainTimesOut, Settling
<1> QED
  BY <1>4, <1>5, <1>6, <1>7, <1>8, <1>9 DEF ScopeInv

\* The teardown is cut short.
LEMMA TeardownFailsStep ==
    ASSUME ScopeInv, TeardownFails
    PROVE  ScopeInv'
<1>1. Calls
  BY DEF Calls, TeardownFails, Spawned
<1>2. /\ life' \in [Children -> Record]
      /\ taken' \in [Children -> {"none", "missing"} \cup Ended]
      /\ \A d \in Children : Told(d) => Told(d)'
  BY <1>1, CallTypes, ToldStays DEF ScopeInv
<1>4. ScopeTypes'
  BY <1>2
     DEF ScopeInv, ScopeTypes, ScopeTypeOK, Spawned, TeardownFails, Settling
<1>5. Numbered'
  BY DEF ScopeInv, Numbered, TeardownFails, Settling, Pending
<1>6. Staged'
  BY DEF Staged, Pending, TeardownFails, Settling
<1>7. Answered'
  BY DEF Answered, TeardownFails, Settling
<1>8. Booked'
  BY DEF ScopeInv, Booked, TeardownFails, Settling
<1>9. Fanned'
  BY DEF Fanned, TeardownFails
<1> QED
  BY <1>4, <1>5, <1>6, <1>7, <1>8, <1>9 DEF ScopeInv

\* A scope closes.
LEMMA SettleStep ==
    ASSUME ScopeInv, Settled \/ SettleInterrupted
    PROVE  ScopeInv'
<1>1. Calls
  BY DEF Calls, Settled, SettleInterrupted
<1>2. /\ life' \in [Children -> Record]
      /\ taken' \in [Children -> {"none", "missing"} \cup Ended]
      /\ \A d \in Children : Told(d) => Told(d)'
  BY <1>1, CallTypes, ToldStays DEF ScopeInv
<1>4. ScopeTypes'
  BY <1>2
     DEF ScopeInv, ScopeTypes, ScopeTypeOK, Spawned, Settled, SettleInterrupted
<1>5. Numbered'
  BY DEF ScopeInv, Numbered, Settled, SettleInterrupted
<1>6. Staged'
  BY DEF ScopeInv, Staged, Pending, Settled, SettleInterrupted
<1>7. Answered'
  BY <1>2 DEF ScopeInv, Answered, Spawned, Settled, SettleInterrupted
<1>8. Booked'
  BY ScopeAssumption
     DEF ScopeInv, ScopeTypes, Booked, Failures, Raised, Settled,
         SettleInterrupted
<1>9. Fanned'
  BY <1>2 DEF ScopeInv, Fanned, Pending, Settled, SettleInterrupted
<1> QED
  BY <1>4, <1>5, <1>6, <1>7, <1>8, <1>9 DEF ScopeInv

\* The fan-out asks the siblings to stop, or a part of them.
LEMMA FanOutStep ==
    ASSUME ScopeInv, FanOut
    PROVE  ScopeInv'
<1>1. Calls
  BY DEF Calls, FanOut, ScopeInv, ScopeTypes, ScopeTypeOK, Spawned
<1>2. /\ life' \in [Children -> Record]
      /\ taken' \in [Children -> {"none", "missing"} \cup Ended]
      /\ \A d \in Children : Told(d) => Told(d)'
  BY <1>1, CallTypes, ToldStays DEF ScopeInv
<1>3. ~cut' => \A d \in fanout : Told(d)'
  BY AskedIsTold DEF ScopeInv, ScopeTypes, ScopeTypeOK, Spawned, FanOut
<1>4. ScopeTypes'
  BY <1>2 DEF ScopeInv, ScopeTypes, ScopeTypeOK, Spawned, FanOut
<1>5. Numbered'
  BY DEF ScopeInv, Numbered, FanOut
<1>6. Staged'
  BY DEF ScopeInv, Staged, Pending, FanOut
<1>7. Answered'
  BY <1>2 DEF ScopeInv, Answered, Spawned, FanOut
<1>8. Booked'
  BY DEF ScopeInv, Booked, Failures, FanOut
<1>9. Fanned'
  BY <1>2, <1>3 DEF ScopeInv, Fanned, Pending, FanOut
<1> QED
  BY <1>4, <1>5, <1>6, <1>7, <1>8, <1>9 DEF ScopeInv

\* A waiter is done, whatever its outcome, and its callback runs.
LEMMA WaiterStep ==
    ASSUME ScopeInv, Calls, NEW c \in Children,
           NEW outcome \in Ended \cup {"missing", "error"},
           WaiterEnds(c, outcome)
    PROVE  ScopeInv'
<1>2. /\ life' \in [Children -> Record]
      /\ taken' \in [Children -> {"none", "missing"} \cup Ended]
      /\ \A d \in Children : Told(d) => Told(d)'
  BY CallTypes, ToldStays DEF ScopeInv
<1>4. ScopeTypes'
  <2>1. /\ waiter \in [Children ->
                          {"none", "pending", "dropped", "missing", "error"} \cup Ended]
        /\ waiter' = [waiter EXCEPT ![c] = outcome]
    BY DEF ScopeInv, ScopeTypes, ScopeTypeOK, WaiterEnds
  <2>2. waiter' \in [Children ->
                        {"none", "pending", "dropped", "missing", "error"} \cup Ended]
    BY <2>1
  <2>3. outcome # "none"
    BY DEF Ended
  <2>4. Spawned' = Spawned \cup {c}
    BY <2>1, <2>3 DEF Spawned
  <2>5. failures \subseteq Spawned /\ fanout \subseteq Spawned
    BY DEF ScopeInv, ScopeTypes, ScopeTypeOK
  <2>6. StillRunning(c) \subseteq Spawned
    BY DEF StillRunning, Pending, Spawned
  <2>7. failures' \subseteq failures \cup {c}
    BY DEF WaiterEnds, JobFinished
  <2>8. fanout' \subseteq fanout \cup StillRunning(c)
    BY DEF WaiterEnds, JobFinished
  <2>9. failures' \subseteq Spawned' /\ fanout' \subseteq Spawned'
    BY <2>4, <2>5, <2>6, <2>7, <2>8
  <2>10. cancelling' \in BOOLEAN
    BY DEF ScopeInv, ScopeTypes, WaiterEnds, JobFinished
  <2>11. ScopeTypeOK'
    BY <2>2, <2>9 DEF ScopeInv, ScopeTypes, ScopeTypeOK, WaiterEnds
  <2> QED
    BY <1>2, <2>10, <2>11 DEF ScopeInv, ScopeTypes, WaiterEnds
<1>5. Numbered'
  BY DEF ScopeInv, Numbered, WaiterEnds
<1>6. Staged'
  BY DEF ScopeInv, Staged, Pending, WaiterEnds, Ended
<1>7. Answered'
  BY <1>2 DEF ScopeInv, Answered, Spawned, WaiterEnds
<1>8. Booked'
  BY DEF ScopeInv, Booked, Staged, WaiterEnds, JobFinished, Counts, Pending
<1>9. Fanned'
  BY <1>2
     DEF ScopeInv, ScopeTypes, ScopeTypeOK, Fanned, Pending, WaiterEnds,
         JobFinished, StillRunning, Ended
<1> QED
  BY <1>4, <1>5, <1>6, <1>7, <1>8, <1>9 DEF ScopeInv

\* The records change below the scope.
LEMMA OutsideStep ==
    ASSUME ScopeInv, UNCHANGED scopeVars, Calls
    PROVE  ScopeInv'
<1>1. Calls
  BY DEF Calls
<1>2. /\ life' \in [Children -> Record]
      /\ taken' \in [Children -> {"none", "missing"} \cup Ended]
      /\ \A d \in Children : Told(d) => Told(d)'
  BY <1>1, CallTypes, ToldStays DEF ScopeInv
<1>4. ScopeTypes'
  BY <1>2 DEF ScopeInv, ScopeTypes, ScopeTypeOK, Spawned, scopeVars
<1>5. Numbered'
  BY DEF ScopeInv, Numbered, scopeVars
<1>6. Staged'
  BY DEF ScopeInv, Staged, Pending, scopeVars
<1>7. Answered'
  BY <1>2 DEF ScopeInv, Answered, Spawned, scopeVars
<1>8. Booked'
  BY DEF ScopeInv, Booked, Failures, Raised, scopeVars
<1>9. Fanned'
  BY <1>2 DEF ScopeInv, Fanned, Pending, scopeVars
<1> QED
  BY <1>4, <1>5, <1>6, <1>7, <1>8, <1>9 DEF ScopeInv

\* The owner runs again.
LEMMA RerunStep ==
    ASSUME ScopeInv, Rerun
    PROVE  ScopeInv'
<1>4. ScopeTypes'
  BY DEF ScopeInv, ScopeTypes, ScopeTypeOK, Rerun
<1>5. Numbered'
  BY DEF Numbered, Rerun
<1>6. Staged'
  BY DEF Staged, Rerun
<1>7. Answered'
  BY DEF Answered, Rerun
<1>8. Booked'
  BY DEF Booked, Rerun
<1>9. Fanned'
  BY DEF Fanned, Rerun
<1> QED
  BY <1>4, <1>5, <1>6, <1>7, <1>8, <1>9 DEF ScopeInv

\* A child is spawned, with a handle or without.
LEMMA SpawnStep ==
    ASSUME ScopeInv, Spawn \/ SpawnFails
    PROVE  ScopeInv'
<1>1. /\ ChildId \in Children /\ at = "body"
      /\ Enqueue(ChildId) \/ UNCHANGED records
  BY DEF Spawn, SpawnFails
<1>2. ASSUME UNCHANGED records
      PROVE  /\ life' \in [Children -> Record]
             /\ taken' \in [Children -> {"none", "missing"} \cup Ended]
             /\ \A d \in Children \ {ChildId} : Told(d) => Told(d)'
  BY <1>2 DEF ScopeInv, ScopeTypes, records, Told, Unfinished
<1>3. /\ life' \in [Children -> Record]
      /\ taken' \in [Children -> {"none", "missing"} \cup Ended]
      /\ \A d \in Children \ {ChildId} : Told(d) => Told(d)'
  BY <1>1, <1>2, EnqueueTypes DEF ScopeInv, Told, Unfinished
<1>4. ScopeTypes'
  <2>1. CASE Spawn
    BY <1>3, <2>1 DEF ScopeInv, ScopeTypes, ScopeTypeOK, Spawned, Spawn
  <2>2. CASE SpawnFails
    BY <1>3, <2>2 DEF ScopeInv, ScopeTypes, ScopeTypeOK, Spawned, SpawnFails
  <2> QED
    BY <2>1, <2>2
<1>5. Numbered'
  BY ScopeAssumption
     DEF ScopeInv, ScopeTypes, ScopeTypeOK, Numbered, Spawn, SpawnFails,
         ChildId, Children
<1>6. Staged'
  BY DEF ScopeInv, ScopeTypes, ScopeTypeOK, Staged, Spawn, SpawnFails
<1>7. Answered'
  BY DEF Answered, Spawn, SpawnFails
<1>8. Booked'
  BY ScopeAssumption
     DEF ScopeInv, ScopeTypes, ScopeTypeOK, Booked, Spawn, SpawnFails
<1>9. Fanned'
  <2>1. waiter[ChildId] = "none"
    BY <1>1 DEF ScopeInv, ScopeTypes, Numbered, ChildId
  <2>2. CASE Spawn
    BY <1>1, <1>3, <2>1, <2>2 DEF ScopeInv, Fanned, Pending, Spawn
  <2>3. CASE SpawnFails
    BY <1>1, <1>3, <2>1, <2>3 DEF ScopeInv, Fanned, Pending, SpawnFails
  <2> QED
    BY <2>2, <2>3
<1> QED
  BY <1>4, <1>5, <1>6, <1>7, <1>8, <1>9 DEF ScopeInv

-----------------------------------------------------------------------------
\* A scope begins with an empty body.
LEMMA ScopeInvInit ==
    ASSUME Init
    PROVE  ScopeInv
<1>1. life \in [Children -> Record]
  BY DEF Init, LifeInit, Gone, Record
<1> QED
  BY <1>1, ScopeAssumption
     DEF Init, LifeInit, ScopeInv, ScopeTypes, ScopeTypeOK, Numbered, Staged,
         Answered, Booked, Fanned, Spawned, Pending, Failures, Raised, Ended

\* Every step of a scope and of its children keeps the invariant.
LEMMA ScopeInvStep ==
    ASSUME ScopeInv, [ScopeNext]_vars
    PROVE  ScopeInv'
<1>1. CASE Spawn \/ SpawnFails
  BY <1>1, SpawnStep
<1>2. CASE BodyRaises \/ BodyEnds
  BY <1>2, BodyStep
<1>3. CASE JoinWakes \/ JoinEnds \/ JoinInterrupted
  BY <1>3, JoinWakesStep, JoinEndsStep, JoinInterruptedStep
<1>4. CASE Teardown
  BY <1>4, CancelAllStep, DrainStep, SettleStep, FanOutStep DEF Teardown
<1>5. CASE TeardownFails \/ SettleInterrupted
  BY <1>5, TeardownFailsStep, SettleStep
<1>6. ASSUME NEW c \in Children,
             WaiterReturns(c) \/ WaiterFails(c) \/ HandleCancel(c)
      PROVE  ScopeInv'
  <2>1. CASE WaiterReturns(c)
    <3>1. Calls /\ taken'[c] \in Ended \cup {"missing"}
      BY <2>1 DEF Calls, WaiterReturns, Take, TakeFails, ScopeInv, ScopeTypes
    <3> QED
      BY <2>1, <3>1, WaiterStep DEF WaiterReturns
  <2>3. CASE WaiterFails(c)
    <3>1. Calls
      BY <2>3 DEF Calls, WaiterFails, Backend
    <3> QED
      BY <2>3, <3>1, WaiterStep DEF WaiterFails
  <2>2. CASE HandleCancel(c)
    <3>1. UNCHANGED scopeVars /\ Calls
      BY <2>2 DEF HandleCancel, Calls
    <3> QED
      BY <3>1, OutsideStep
  <2> QED
    BY <1>6, <2>1, <2>2, <2>3
<1>7. CASE Rerun
  BY <1>7, RerunStep
<1>8. CASE Backend /\ UNCHANGED scopeVars
  BY <1>8, OutsideStep DEF Calls
<1>9. CASE UNCHANGED vars
  BY <1>9, OutsideStep DEF vars, Calls
<1> QED
  BY <1>1, <1>2, <1>3, <1>4, <1>5, <1>6, <1>7, <1>8, <1>9 DEF ScopeNext

\* The invariant of a scope.
THEOREM ScopeInvariant == ScopeSpec => []ScopeInv
<1>1. Init => ScopeInv
  BY ScopeInvInit
<1>2. ScopeInv /\ [ScopeNext]_vars => ScopeInv'
  BY ScopeInvStep
<1> QED
  BY <1>1, <1>2, PTL DEF ScopeSpec

\* The waiters, failures and fan-out of a scope are about children it spawned.
THEOREM ScopeIsTyped == ScopeSpec => []ScopeTypeOK
<1>1. ScopeInv => ScopeTypeOK
  BY DEF ScopeInv, ScopeTypes
<1> QED
  BY <1>1, ScopeInvariant, PTL

\* A scope that ends its join has the outcome of each child, or raises the error
\* of the call that waited for it; one that is torn down, and not cut short, has
\* asked every unfinished child to stop.
THEOREM NoChildIsForgotten == ScopeSpec => []ChildrenAnswered
<1>1. ASSUME ScopeInv, at = "closed", exit \in {"none", "group"},
             NEW c \in Spawned, waiter[c] = "error"
      PROVE  LostSightOf(c)
  <2>1. c \in Children
    BY DEF Spawned
  <2>2. mode # "ignore" => c \in Failures
    BY <1>1, <2>1 DEF ScopeInv, ScopeTypes, Booked, Failures, Raised
  <2>3. exit = "none" => Failures = {}
    BY <1>1 DEF ScopeInv, Booked
  <2> QED
    BY <1>1, <2>2, <2>3 DEF LostSightOf
<1>2. ScopeInv => ChildrenAnswered
  BY <1>1 DEF ScopeInv, Answered, ChildrenAnswered
<1> QED
  BY <1>2, ScopeInvariant, PTL

\* A join that ends reports every child that failed, and is silent only if all
\* of them completed.
THEOREM NoFailureIsLost == ScopeSpec => []FailuresReported
<1>1. ScopeInv => FailuresReported
  BY DEF ScopeInv, ScopeTypes, Staged, Answered, Booked, FailuresReported,
         Failures, Raised, Spawned, Ended
<1> QED
  BY <1>1, ScopeInvariant, PTL

\* The first failure's fan-out reaches every sibling that was spawned before.
THEOREM FanOutIsComplete == ScopeSpec => []SiblingsTold
<1>1. ScopeInv => SiblingsTold
  BY DEF ScopeInv, Fanned, SiblingsTold
<1> QED
  BY <1>1, ScopeInvariant, PTL
=============================================================================
