--------------------------- MODULE NotifierProofs ---------------------------
(***************************************************************************)
(* The bookkeeping of the shared pub/sub connection, for any number of     *)
(* channels, waiters and faults.                                           *)
(***************************************************************************)
EXTENDS Notifier, TLAPS

\* The values every variable ranges over.
NotifierTypeOK ==
    /\ fact \in [Channels -> BOOLEAN]
    /\ lock \in Waiters \cup {Free}
    /\ watchers \in [Channels -> SUBSET Waiters]
    /\ connected \in BOOLEAN
    /\ subs \in [Channels -> {"off", "sent", "on"}]
    /\ inbox \in SUBSET Channels
    /\ reader \in {"none", "reading", "dead"}
    /\ woken \in [Waiters -> BOOLEAN]
    /\ wpc \in [Waiters -> {"start", "joining", "checking", "parked", "leaving",
                            "unsubscribing", "returned"}]
    /\ missed \in SUBSET Channels
    /\ faults \in Nat

\* A waiter is registered, on its own channel, from join to leave.
Registered ==
    \A w \in Waiters, ch \in Channels :
        w \in watchers[ch] <=>
            /\ ch = Channel(w)
            /\ wpc[w] \in {"joining", "checking", "parked", "leaving"}

\* The lock is held across the two awaits on the connection, by the only
\* watcher of a channel, or by one that was the last.
Locked ==
    \A w \in Waiters :
        /\ lock = w <=> wpc[w] \in {"joining", "unsubscribing"}
        /\ wpc[w] = "joining" => watchers[Channel(w)] = {w}
        /\ wpc[w] = "unsubscribing" => watchers[Channel(w)] = {}

\* A channel with a watcher is subscribed, but for the one that is subscribing.
Covered ==
    \A w \in Waiters :
        /\ wpc[w] \in {"joining", "checking", "parked", "leaving"} => connected
        /\ wpc[w] \in {"checking", "parked", "leaving"} =>
              subs[Channel(w)] # "off" /\ reader # "none"

\* A reader has somebody to read for.
Needed ==
    reader # "none" =>
        \E w \in Waiters : wpc[w] \in {"checking", "parked", "leaving"}

NotifierInv ==
    /\ NotifierTypeOK
    /\ Registered
    /\ Locked
    /\ Covered
    /\ Needed
    /\ NoLostWakeup

-----------------------------------------------------------------------------
\* At the start nobody waits.
LEMMA NotifierInvInit ==
    ASSUME NotifierInit
    PROVE  NotifierInv
BY NotifierAssumption
   DEF NotifierInit, NotifierInv, NotifierTypeOK, Registered, Locked, Covered,
       Needed, NoLostWakeup, Channel

\* join: only the first watcher of a channel keeps the lock.
LEMMA JoinStep ==
    ASSUME NotifierInv, NEW w \in Waiters, Join(w)
    PROVE  NotifierInv'
<1> USE DEF Channel, Goto
<1>1. NotifierTypeOK'
  BY NotifierAssumption DEF NotifierInv, NotifierTypeOK, Join, EnsureReader
<1>2. Registered'
  BY NotifierAssumption DEF NotifierInv, NotifierTypeOK, Registered, Join,
     EnsureReader
<1>3. Locked'
  BY NotifierAssumption DEF NotifierInv, NotifierTypeOK, Registered, Locked,
     Join, EnsureReader
<1>4. Covered'
  BY NotifierAssumption DEF NotifierInv, NotifierTypeOK, Registered, Locked,
     Covered, Join, EnsureReader
<1>5. Needed'
  BY NotifierAssumption DEF NotifierInv, NotifierTypeOK, Registered, Locked,
     Covered, Needed, Join, EnsureReader
<1>6. NoLostWakeup'
  BY NotifierAssumption DEF NotifierInv, NotifierTypeOK, Registered, Locked,
     Covered, NoLostWakeup, Join, EnsureReader
<1> QED
  BY <1>1, <1>2, <1>3, <1>4, <1>5, <1>6 DEF NotifierInv

\* The channel is subscribed and there is a reader before the lock is free.
LEMMA SubscribedStep ==
    ASSUME NotifierInv, NEW w \in Waiters, Subscribed(w)
    PROVE  NotifierInv'
<1> USE DEF Channel, Goto
<1>1. NotifierTypeOK'
  BY NotifierAssumption DEF NotifierInv, NotifierTypeOK, Subscribed,
     EnsureReader
<1>2. Registered'
  BY NotifierAssumption DEF NotifierInv, NotifierTypeOK, Registered,
     Subscribed, EnsureReader
<1>3. Locked'
  BY NotifierAssumption DEF NotifierInv, NotifierTypeOK, Registered, Locked,
     Subscribed, EnsureReader
<1>4. Covered'
  BY NotifierAssumption DEF NotifierInv, NotifierTypeOK, Registered, Locked,
     Covered, Subscribed, EnsureReader
<1>5. Needed'
  BY NotifierAssumption DEF NotifierInv, NotifierTypeOK, Registered, Locked,
     Covered, Needed, Subscribed, EnsureReader
<1>6. NoLostWakeup'
  BY NotifierAssumption DEF NotifierInv, NotifierTypeOK, Registered, Locked,
     Covered, NoLostWakeup, Subscribed, EnsureReader
<1> QED
  BY <1>1, <1>2, <1>3, <1>4, <1>5, <1>6 DEF NotifierInv

\* A failed subscribe forgets the only watcher of its channel.
LEMMA SubscribeFailsStep ==
    ASSUME NotifierInv, NEW w \in Waiters, SubscribeFails(w)
    PROVE  NotifierInv'
<1> USE DEF Channel, Goto
<1>1. NotifierTypeOK'
  <2>1. subs' \in [Channels -> {"off", "sent", "on"}]
    BY NotifierAssumption
       DEF NotifierInv, NotifierTypeOK, SubscribeFails
  <2>2. watchers' \in [Channels -> SUBSET Waiters]
    BY NotifierAssumption
       DEF NotifierInv, NotifierTypeOK, SubscribeFails, Forget
  <2> QED
    BY <2>1, <2>2, NotifierAssumption
       DEF NotifierInv, NotifierTypeOK, SubscribeFails, Fault
<1>2. Registered'
  BY NotifierAssumption DEF NotifierInv, NotifierTypeOK, Registered,
     SubscribeFails, Forget, Fault
<1>3. Locked'
  BY NotifierAssumption DEF NotifierInv, NotifierTypeOK, Registered, Locked,
     SubscribeFails, Forget, Fault
<1>4. Covered'
  <2>1. subs \in [Channels -> {"off", "sent", "on"}]
    BY DEF NotifierInv, NotifierTypeOK
  <2>2. \A ch \in Channels : subs[ch] # "off" => subs'[ch] # "off"
    BY <2>1, NotifierAssumption DEF SubscribeFails
  <2>3. /\ wpc' = [wpc EXCEPT ![w] = "returned"]
        /\ connected' = connected /\ reader' = reader
    BY DEF SubscribeFails
  <2> QED
    BY <2>2, <2>3, NotifierAssumption
       DEF NotifierInv, NotifierTypeOK, Covered
<1>5. Needed'
  BY NotifierAssumption DEF NotifierInv, NotifierTypeOK, Registered, Locked,
     Covered, Needed, SubscribeFails, Forget, Fault
<1>6. NoLostWakeup'
  BY NotifierAssumption DEF NotifierInv, NotifierTypeOK, Registered, Locked,
     Covered, NoLostWakeup, SubscribeFails, Forget, Fault
<1> QED
  BY <1>1, <1>2, <1>3, <1>4, <1>5, <1>6 DEF NotifierInv

\* A waiter that read the record in time does not park.
LEMMA CheckStep ==
    ASSUME NotifierInv, NEW w \in Waiters, Check(w)
    PROVE  NotifierInv'
<1> USE DEF Channel, Goto
<1>1. NotifierTypeOK'
  BY NotifierAssumption DEF NotifierInv, NotifierTypeOK, Check
<1>2. Registered'
  BY NotifierAssumption DEF NotifierInv, NotifierTypeOK, Registered, Check
<1>3. Locked'
  BY NotifierAssumption DEF NotifierInv, NotifierTypeOK, Registered, Locked,
     Check
<1>4. Covered'
  BY NotifierAssumption DEF NotifierInv, NotifierTypeOK, Registered, Locked,
     Covered, Check
<1>5. Needed'
  BY NotifierAssumption DEF NotifierInv, NotifierTypeOK, Registered, Locked,
     Covered, Needed, Check
<1>6. NoLostWakeup'
  BY NotifierAssumption DEF NotifierInv, NotifierTypeOK, Registered, Locked,
     Covered, NoLostWakeup, Check
<1> QED
  BY <1>1, <1>2, <1>3, <1>4, <1>5, <1>6 DEF NotifierInv

\* A message ends the wait.
LEMMA WakeStep ==
    ASSUME NotifierInv, NEW w \in Waiters, Wake(w)
    PROVE  NotifierInv'
<1> USE DEF Channel, Goto
<1>1. NotifierTypeOK'
  BY NotifierAssumption DEF NotifierInv, NotifierTypeOK, Wake
<1>2. Registered'
  BY NotifierAssumption DEF NotifierInv, NotifierTypeOK, Registered, Wake
<1>3. Locked'
  BY NotifierAssumption DEF NotifierInv, NotifierTypeOK, Registered, Locked,
     Wake
<1>4. Covered'
  BY NotifierAssumption DEF NotifierInv, NotifierTypeOK, Registered, Locked,
     Covered, Wake
<1>5. Needed'
  BY NotifierAssumption DEF NotifierInv, NotifierTypeOK, Registered, Locked,
     Covered, Needed, Wake
<1>6. NoLostWakeup'
  BY NotifierAssumption DEF NotifierInv, NotifierTypeOK, Registered, Locked,
     Covered, NoLostWakeup, Wake
<1> QED
  BY <1>1, <1>2, <1>3, <1>4, <1>5, <1>6 DEF NotifierInv

\* So does the poll.
LEMMA PollStep ==
    ASSUME NotifierInv, NEW w \in Waiters, Poll(w)
    PROVE  NotifierInv'
<1> USE DEF Channel, Goto
<1>1. NotifierTypeOK'
  BY NotifierAssumption DEF NotifierInv, NotifierTypeOK, Poll
<1>2. Registered'
  BY NotifierAssumption DEF NotifierInv, NotifierTypeOK, Registered, Poll
<1>3. Locked'
  BY NotifierAssumption DEF NotifierInv, NotifierTypeOK, Registered, Locked,
     Poll
<1>4. Covered'
  BY NotifierAssumption DEF NotifierInv, NotifierTypeOK, Registered, Locked,
     Covered, Poll
<1>5. Needed'
  BY NotifierAssumption DEF NotifierInv, NotifierTypeOK, Registered, Locked,
     Covered, Needed, Poll
<1>6. NoLostWakeup'
  BY NotifierAssumption DEF NotifierInv, NotifierTypeOK, Registered, Locked,
     Covered, NoLostWakeup, Poll
<1> QED
  BY <1>1, <1>2, <1>3, <1>4, <1>5, <1>6 DEF NotifierInv

\* A cancelled waiter leaves like any other.
LEMMA AbortStep ==
    ASSUME NotifierInv, NEW w \in Waiters, Abort(w)
    PROVE  NotifierInv'
<1> USE DEF Channel, Goto
<1>1. NotifierTypeOK'
  BY NotifierAssumption DEF NotifierInv, NotifierTypeOK, Abort, Fault
<1>2. Registered'
  BY NotifierAssumption DEF NotifierInv, NotifierTypeOK, Registered, Abort,
     Fault
<1>3. Locked'
  BY NotifierAssumption DEF NotifierInv, NotifierTypeOK, Registered, Locked,
     Abort, Fault
<1>4. Covered'
  BY NotifierAssumption DEF NotifierInv, NotifierTypeOK, Registered, Locked,
     Covered, Abort, Fault
<1>5. Needed'
  BY NotifierAssumption DEF NotifierInv, NotifierTypeOK, Registered, Locked,
     Covered, Needed, Abort, Fault
<1>6. NoLostWakeup'
  BY NotifierAssumption DEF NotifierInv, NotifierTypeOK, Registered, Locked,
     Covered, NoLostWakeup, Abort, Fault
<1> QED
  BY <1>1, <1>2, <1>3, <1>4, <1>5, <1>6 DEF NotifierInv

\* leave: the last watcher of a channel unsubscribes, the last of all closes.
LEMMA LeaveStep ==
    ASSUME NotifierInv, NEW w \in Waiters, Leave(w)
    PROVE  NotifierInv'
<1> USE DEF Channel, Goto
<1>1. NotifierTypeOK'
  <2>1. watchers' \in [Channels -> SUBSET Waiters]
    BY NotifierAssumption
       DEF NotifierInv, NotifierTypeOK, Leave, LeaveWith, Forget
  <2>2. subs' \in [Channels -> {"off", "sent", "on"}]
    BY DEF NotifierInv, NotifierTypeOK, Leave, LeaveWith, Shutdown
  <2>3. /\ lock' \in Waiters \cup {Free}
        /\ wpc' \in [Waiters -> {"start", "joining", "checking", "parked",
                                "leaving", "unsubscribing", "returned"}]
        /\ inbox' \in SUBSET Channels
        /\ reader' \in {"none", "reading", "dead"}
    BY DEF NotifierInv, NotifierTypeOK, Leave, LeaveWith, Shutdown
  <2>4. connected' \in BOOLEAN
    BY DEF NotifierInv, NotifierTypeOK, Leave, LeaveWith, Shutdown
  <2> QED
    BY <2>1, <2>2, <2>3, <2>4
       DEF NotifierInv, NotifierTypeOK, Leave, LeaveWith
<1>2. Registered'
  BY NotifierAssumption DEF NotifierInv, NotifierTypeOK, Registered, Leave,
     LeaveWith, Forget, Shutdown
<1>3. Locked'
  BY NotifierAssumption DEF NotifierInv, NotifierTypeOK, Registered, Locked,
     Leave, LeaveWith, Forget, Shutdown
<1>4. Covered'
  BY NotifierAssumption DEF NotifierInv, NotifierTypeOK, Registered, Locked,
     Covered, Leave, LeaveWith, Forget, Shutdown
<1>5. Needed'
  BY NotifierAssumption DEF NotifierInv, NotifierTypeOK, Registered, Locked,
     Covered, Needed, Leave, LeaveWith, Forget, Shutdown
<1>6. NoLostWakeup'
  BY NotifierAssumption DEF NotifierInv, NotifierTypeOK, Registered, Locked,
     Covered, NoLostWakeup, Leave, LeaveWith, Forget, Shutdown
<1> QED
  BY <1>1, <1>2, <1>3, <1>4, <1>5, <1>6 DEF NotifierInv

\* Nobody watches the channel that is unsubscribed.
LEMMA UnsubscribedStep ==
    ASSUME NotifierInv, NEW w \in Waiters, Unsubscribed(w)
    PROVE  NotifierInv'
<1> USE DEF Channel, Goto
<1>1. NotifierTypeOK'
  BY NotifierAssumption DEF NotifierInv, NotifierTypeOK, Unsubscribed, Fault
<1>2. Registered'
  BY NotifierAssumption DEF NotifierInv, NotifierTypeOK, Registered,
     Unsubscribed, Fault
<1>3. Locked'
  BY NotifierAssumption DEF NotifierInv, NotifierTypeOK, Registered, Locked,
     Unsubscribed, Fault
<1>4. Covered'
  <2>1. \A v \in Waiters : Channel(v) = Channel(w) =>
            wpc[v] \notin {"joining", "checking", "parked", "leaving"}
    BY NotifierAssumption
       DEF NotifierInv, NotifierTypeOK, Registered, Locked, Unsubscribed
  <2>2. /\ wpc' = [wpc EXCEPT ![w] = "returned"]
        /\ connected' = connected /\ reader' = reader
    BY DEF Unsubscribed
  <2>3. \A ch \in Channels \ {Channel(w)} : subs'[ch] = subs[ch]
    BY DEF NotifierInv, NotifierTypeOK, Unsubscribed
  <2> QED
    BY <2>1, <2>2, <2>3, NotifierAssumption
       DEF NotifierInv, NotifierTypeOK, Covered
<1>5. Needed'
  BY NotifierAssumption DEF NotifierInv, NotifierTypeOK, Registered, Locked,
     Covered, Needed, Unsubscribed, Fault
<1>6. NoLostWakeup'
  BY NotifierAssumption DEF NotifierInv, NotifierTypeOK, Registered, Locked,
     Covered, NoLostWakeup, Unsubscribed, Fault
<1> QED
  BY <1>1, <1>2, <1>3, <1>4, <1>5, <1>6 DEF NotifierInv

\* The reader wakes every watcher of the channel.
LEMMA ReadStep ==
    ASSUME NotifierInv, Read
    PROVE  NotifierInv'
<1> USE DEF Channel, Goto
<1>1. NotifierTypeOK'
  BY NotifierAssumption DEF NotifierInv, NotifierTypeOK, Read
<1>2. Registered'
  BY NotifierAssumption DEF NotifierInv, NotifierTypeOK, Registered, Read
<1>3. Locked'
  BY NotifierAssumption DEF NotifierInv, NotifierTypeOK, Registered, Locked,
     Read
<1>4. Covered'
  BY NotifierAssumption DEF NotifierInv, NotifierTypeOK, Registered, Locked,
     Covered, Read
<1>5. Needed'
  BY NotifierAssumption DEF NotifierInv, NotifierTypeOK, Registered, Locked,
     Covered, Needed, Read
<1>6. NoLostWakeup'
  BY NotifierAssumption DEF NotifierInv, NotifierTypeOK, Registered, Locked,
     Covered, NoLostWakeup, Read
<1> QED
  BY <1>1, <1>2, <1>3, <1>4, <1>5, <1>6 DEF NotifierInv

\* A dead reader is still the process's reader.
LEMMA ReaderFailsStep ==
    ASSUME NotifierInv, ReaderFails
    PROVE  NotifierInv'
<1> USE DEF Channel, Goto
<1>1. NotifierTypeOK'
  BY NotifierAssumption DEF NotifierInv, NotifierTypeOK, ReaderFails, Fault
<1>2. Registered'
  BY NotifierAssumption DEF NotifierInv, NotifierTypeOK, Registered,
     ReaderFails, Fault
<1>3. Locked'
  BY NotifierAssumption DEF NotifierInv, NotifierTypeOK, Registered, Locked,
     ReaderFails, Fault
<1>4. Covered'
  BY NotifierAssumption DEF NotifierInv, NotifierTypeOK, Registered, Locked,
     Covered, ReaderFails, Fault
<1>5. Needed'
  BY NotifierAssumption DEF NotifierInv, NotifierTypeOK, Registered, Locked,
     Covered, Needed, ReaderFails, Fault
<1>6. NoLostWakeup'
  BY NotifierAssumption DEF NotifierInv, NotifierTypeOK, Registered, Locked,
     Covered, NoLostWakeup, ReaderFails, Fault
<1> QED
  BY <1>1, <1>2, <1>3, <1>4, <1>5, <1>6 DEF NotifierInv

\* The server only adds subscriptions.
LEMMA ApplyStep ==
    ASSUME NotifierInv, NEW ch \in Channels, Apply(ch)
    PROVE  NotifierInv'
<1> USE DEF Channel, Goto
<1>1. NotifierTypeOK'
  BY NotifierAssumption DEF NotifierInv, NotifierTypeOK, Apply
<1>2. Registered'
  BY NotifierAssumption DEF NotifierInv, NotifierTypeOK, Registered, Apply
<1>3. Locked'
  BY NotifierAssumption DEF NotifierInv, NotifierTypeOK, Registered, Locked,
     Apply
<1>4. Covered'
  BY NotifierAssumption DEF NotifierInv, NotifierTypeOK, Registered, Locked,
     Covered, Apply
<1>5. Needed'
  BY NotifierAssumption DEF NotifierInv, NotifierTypeOK, Registered, Locked,
     Covered, Needed, Apply
<1>6. NoLostWakeup'
  BY NotifierAssumption DEF NotifierInv, NotifierTypeOK, Registered, Locked,
     Covered, NoLostWakeup, Apply
<1> QED
  BY <1>1, <1>2, <1>3, <1>4, <1>5, <1>6 DEF NotifierInv

\* A change reaches the inbox unless SUBSCRIBE is still under way.
LEMMA PublishStep ==
    ASSUME NotifierInv, NEW ch \in Channels, Publish(ch)
    PROVE  NotifierInv'
<1> USE DEF Channel, Goto
<1>1. NotifierTypeOK'
  BY NotifierAssumption DEF NotifierInv, NotifierTypeOK, Publish
<1>2. Registered'
  BY NotifierAssumption DEF NotifierInv, NotifierTypeOK, Registered, Publish
<1>3. Locked'
  BY NotifierAssumption DEF NotifierInv, NotifierTypeOK, Registered, Locked,
     Publish
<1>4. Covered'
  BY NotifierAssumption DEF NotifierInv, NotifierTypeOK, Registered, Locked,
     Covered, Publish
<1>5. Needed'
  BY NotifierAssumption DEF NotifierInv, NotifierTypeOK, Registered, Locked,
     Covered, Needed, Publish
<1>6. NoLostWakeup'
  BY NotifierAssumption DEF NotifierInv, NotifierTypeOK, Registered, Locked,
     Covered, NoLostWakeup, Publish
<1> QED
  BY <1>1, <1>2, <1>3, <1>4, <1>5, <1>6 DEF NotifierInv

\* A lost message is a fault.
LEMMA LoseStep ==
    ASSUME NotifierInv, NEW ch \in Channels, Lose(ch)
    PROVE  NotifierInv'
<1> USE DEF Channel, Goto
<1>1. NotifierTypeOK'
  BY NotifierAssumption DEF NotifierInv, NotifierTypeOK, Lose, Fault
<1>2. Registered'
  BY NotifierAssumption DEF NotifierInv, NotifierTypeOK, Registered, Lose,
     Fault
<1>3. Locked'
  BY NotifierAssumption DEF NotifierInv, NotifierTypeOK, Registered, Locked,
     Lose, Fault
<1>4. Covered'
  BY NotifierAssumption DEF NotifierInv, NotifierTypeOK, Registered, Locked,
     Covered, Lose, Fault
<1>5. Needed'
  BY NotifierAssumption DEF NotifierInv, NotifierTypeOK, Registered, Locked,
     Covered, Needed, Lose, Fault
<1>6. NoLostWakeup'
  BY NotifierAssumption DEF NotifierInv, NotifierTypeOK, Registered, Locked,
     Covered, NoLostWakeup, Lose, Fault
<1> QED
  BY <1>1, <1>2, <1>3, <1>4, <1>5, <1>6 DEF NotifierInv

-----------------------------------------------------------------------------
\* No step of a waiter, of the reader or of the server breaks the invariant.
LEMMA NotifierInvStep ==
    ASSUME NotifierInv, [NotifierNext]_vars
    PROVE  NotifierInv'
<1>1. CASE UNCHANGED vars
  BY <1>1 DEF vars, NotifierInv, NotifierTypeOK, Registered, Locked, Covered,
              Needed, NoLostWakeup, Channel
<1>2. ASSUME NEW w \in Waiters, Progress(w)
      PROVE  NotifierInv'
  BY <1>2, JoinStep, SubscribedStep, CheckStep, WakeStep, PollStep, LeaveStep,
     UnsubscribedStep DEF Progress
<1>3. ASSUME NEW w \in Waiters, SubscribeFails(w) \/ Abort(w)
      PROVE  NotifierInv'
  BY <1>3, SubscribeFailsStep, AbortStep
<1>4. CASE Read \/ ReaderFails
  BY <1>4, ReadStep, ReaderFailsStep
<1>5. ASSUME NEW ch \in Channels, Apply(ch) \/ Publish(ch) \/ Lose(ch)
      PROVE  NotifierInv'
  BY <1>5, ApplyStep, PublishStep, LoseStep
<1> QED
  BY <1>1, <1>2, <1>3, <1>4, <1>5 DEF NotifierNext

\* The invariant of the notifier: who is registered, who holds the lock across
\* an await, and what is subscribed, after any number of failed calls in
\* _Notifier.join, leave and _read.
THEOREM NotifierInvariant == NotifierSpec => []NotifierInv
<1>1. NotifierInit => NotifierInv
  BY NotifierInvInit
<1>2. NotifierInv /\ [NotifierNext]_vars => NotifierInv'
  BY NotifierInvStep
<1> QED
  BY <1>1, <1>2, PTL DEF NotifierSpec

\* Whenever _lock is free every watched channel is subscribed, for any number of
\* waiters and channels and any order of their joins and leaves.
THEOREM WatchedChannelsSubscribed == NotifierSpec => []WatchedIsSubscribed
<1>1. NotifierInv => WatchedIsSubscribed
  BY NotifierAssumption
     DEF NotifierInv, NotifierTypeOK, Registered, Locked, Covered,
         WatchedIsSubscribed, Channel
<1> QED
  BY <1>1, NotifierInvariant, PTL

\* Whenever _lock is free there is a reader task exactly while somebody waits,
\* whatever subscribe calls have failed before.
THEOREM ReaderExactlyWhileWatched == NotifierSpec => []ReaderIffWatched
<1>1. ASSUME NotifierInv, lock = Free, reader # "none"
      PROVE  \E ch \in Channels : watchers[ch] # {}
  <2>1. PICK w \in Waiters : wpc[w] \in {"checking", "parked", "leaving"}
    BY <1>1 DEF NotifierInv, Needed
  <2>2. Channel(w) \in Channels /\ w \in watchers[Channel(w)]
    BY <1>1, <2>1, NotifierAssumption DEF NotifierInv, Registered, Channel
  <2> QED
    BY <2>2
<1>2. ASSUME NotifierInv, lock = Free, NEW ch \in Channels, watchers[ch] # {}
      PROVE  reader # "none"
  <2>1. PICK w \in Waiters : w \in watchers[ch]
    BY <1>2 DEF NotifierInv, NotifierTypeOK
  <2>2. wpc[w] \in {"checking", "parked", "leaving"}
    BY <1>2, <2>1, NotifierAssumption DEF NotifierInv, Registered, Locked
  <2> QED
    BY <1>2, <2>2 DEF NotifierInv, Covered
<1>3. NotifierInv => ReaderIffWatched
  BY <1>1, <1>2 DEF ReaderIffWatched
<1> QED
  BY <1>3, NotifierInvariant, PTL

\* Without a fault no waiter parks for good: a change of its record wakes it,
\* unless it was published before the server had the SUBSCRIBE.
THEOREM NoWakeupIsLost == NotifierSpec => []NoLostWakeup
<1>1. NotifierInv => NoLostWakeup
  BY DEF NotifierInv
<1> QED
  BY <1>1, NotifierInvariant, PTL
=============================================================================
