------------------------------ MODULE Notifier ------------------------------
(***************************************************************************)
(* _Notifier of TaskQueue/backends/redis_backend.py and the two calls that *)
(* wait with it, take_result and wait_cancel: every waiter of a process    *)
(* shares one pub/sub connection and one reader task.  A message only says *)
(* that the record may have changed; the waiter then reads the record over *)
(* another connection.                                                     *)
(***************************************************************************)
EXTENDS Naturals, FiniteSets

CONSTANTS
    Channels,   \* done and cancel channels
    Waiters,    \* calls of take_result and wait_cancel
    ChannelOf,  \* the channel each call waits on
    Free,       \* nobody holds the lock
    MaxFaults   \* failed calls, lost messages and cancelled waiters

ASSUME NotifierAssumption ==
    /\ ChannelOf \in [Waiters -> Channels]
    /\ Free \notin Waiters
    /\ MaxFaults \in Nat

VARIABLES
    fact,       \* whether the record says what the channel's waiters wait for
    lock,       \* who holds _lock across an await
    watchers,   \* _waiters
    connected,  \* whether _pubsub is set
    subs,       \* per channel: SUBSCRIBE not sent, "sent", or "on" at the server
    inbox,      \* channels with a message that the reader has not got yet
    reader,     \* _reader: "none", "reading", or "dead" after an error
    woken,      \* the event of each waiter
    wpc,        \* the await each waiter is at
    missed,     \* channels published while SUBSCRIBE was under way (history)
    faults      \* faults so far

vars == <<fact, lock, watchers, connected, subs, inbox, reader, woken, wpc,
          missed, faults>>

NotifierInit ==
    /\ fact = [ch \in Channels |-> FALSE]
    /\ lock = Free
    /\ watchers = [ch \in Channels |-> {}]
    /\ connected = FALSE
    /\ subs = [ch \in Channels |-> "off"]
    /\ inbox = {}
    /\ reader = "none"
    /\ woken = [w \in Waiters |-> FALSE]
    /\ wpc = [w \in Waiters |-> "start"]
    /\ missed = {}
    /\ faults = 0

-----------------------------------------------------------------------------
Channel(w) == ChannelOf[w]

Goto(w, label) == wpc' = [wpc EXCEPT ![w] = label]

Fault == faults < MaxFaults /\ faults' = faults + 1

\* _forget
Forget(w) == [watchers EXCEPT ![Channel(w)] = @ \ {w}]

\* A reader is started where there is none; a dead one is not replaced.
EnsureReader == reader' = IF reader = "none" THEN "reading" ELSE reader

-----------------------------------------------------------------------------
(* join                                                                    *)

\* Mutant of Join: the reader is started first.
JoinReadsFirst(w) ==
    /\ wpc[w] = "start"
    /\ lock = Free
    /\ connected' = TRUE
    /\ watchers' = [watchers EXCEPT ![Channel(w)] = @ \cup {w}]
    /\ EnsureReader
    /\ IF watchers[Channel(w)] = {}
         THEN Goto(w, "joining") /\ lock' = w
         ELSE Goto(w, "checking") /\ UNCHANGED lock
    /\ UNCHANGED <<fact, subs, inbox, woken, missed, faults>>

\* The waiter is registered; the first on its channel keeps the lock while it
\* subscribes.
Join(w) ==
    /\ wpc[w] = "start"
    /\ lock = Free
    /\ connected' = TRUE
    /\ watchers' = [watchers EXCEPT ![Channel(w)] = @ \cup {w}]
    /\ IF watchers[Channel(w)] = {}
         THEN Goto(w, "joining") /\ lock' = w /\ UNCHANGED reader
         ELSE Goto(w, "checking") /\ EnsureReader /\ UNCHANGED lock
    /\ UNCHANGED <<fact, subs, inbox, woken, missed, faults>>

\* subscribe returns once the command is sent.
Subscribed(w) ==
    /\ wpc[w] = "joining"
    /\ subs' = [subs EXCEPT ![Channel(w)] = IF @ = "off" THEN "sent" ELSE @]
    /\ EnsureReader
    /\ lock' = Free
    /\ Goto(w, "checking")
    /\ UNCHANGED <<fact, watchers, connected, inbox, woken, missed, faults>>

\* subscribe raises or is cancelled, the command sent or not.
SubscribeFails(w) ==
    /\ wpc[w] = "joining"
    /\ Fault
    /\ subs' \in {subs, [subs EXCEPT ![Channel(w)] = IF @ = "off" THEN "sent" ELSE @]}
    /\ watchers' = Forget(w)
    /\ lock' = Free
    /\ Goto(w, "returned")
    /\ UNCHANGED <<fact, connected, inbox, reader, woken, missed>>

-----------------------------------------------------------------------------
(* The loop of take_result and wait_cancel.                                *)

\* The record is read.
Check(w) ==
    /\ wpc[w] = "checking"
    /\ Goto(w, IF fact[Channel(w)] THEN "leaving" ELSE "parked")
    /\ UNCHANGED <<fact, lock, watchers, connected, subs, inbox, reader, woken,
                   missed, faults>>

\* _wait_for_message returns because of a message ...
Wake(w) ==
    /\ wpc[w] = "parked"
    /\ woken[w]
    /\ woken' = [woken EXCEPT ![w] = FALSE]
    /\ Goto(w, "checking")
    /\ UNCHANGED <<fact, lock, watchers, connected, subs, inbox, reader,
                   missed, faults>>

\* (Mutant of Poll: the event is awaited without a timeout.)
PollNever(w) == FALSE

\* ... or because the poll interval is over.
Poll(w) ==
    /\ wpc[w] = "parked"
    /\ ~woken[w]
    /\ Goto(w, "checking")
    /\ UNCHANGED <<fact, lock, watchers, connected, subs, inbox, reader, woken,
                   missed, faults>>

\* The read fails, or the waiter is cancelled: its finally clause leaves.
Abort(w) ==
    /\ wpc[w] \in {"checking", "parked"}
    /\ Fault
    /\ Goto(w, "leaving")
    /\ UNCHANGED <<fact, lock, watchers, connected, subs, inbox, reader, woken,
                   missed>>

-----------------------------------------------------------------------------
(* leave, shielded from its caller's cancellation.                         *)

\* The last waiter stops the reader and closes the connection.
Shutdown ==
    /\ connected' = FALSE
    /\ reader' = "none"
    /\ subs' = [ch \in Channels |-> "off"]
    /\ inbox' = {}

\* Where a waiter goes once it has been forgotten: others may watch its
\* channel, or other channels, or there is nobody left.
LeaveWith(w, holder) ==
    /\ wpc[w] = "leaving"
    /\ lock = Free
    /\ watchers' = Forget(w)
    /\ CASE watchers'[Channel(w)] # {} ->
              Goto(w, "returned")
              /\ UNCHANGED <<lock, connected, subs, inbox, reader>>
         [] \A ch \in Channels : watchers'[ch] = {} ->
              Goto(w, "returned") /\ Shutdown /\ UNCHANGED lock
         [] OTHER ->
              Goto(w, "unsubscribing") /\ lock' = holder
              /\ UNCHANGED <<connected, subs, inbox, reader>>
    /\ UNCHANGED <<fact, woken, missed, faults>>

\* Mutant of Leave: the lock is not held while unsubscribing.
LeaveUnlocked(w) == LeaveWith(w, Free)

\* The last watcher of a channel keeps the lock while it unsubscribes.
Leave(w) == LeaveWith(w, w)

\* unsubscribe returns, or fails and is suppressed.
Unsubscribed(w) ==
    /\ wpc[w] = "unsubscribing"
    /\ \/ subs' = [subs EXCEPT ![Channel(w)] = "off"] /\ UNCHANGED faults
       \/ Fault /\ UNCHANGED subs
    /\ lock' = Free
    /\ Goto(w, "returned")
    /\ UNCHANGED <<fact, watchers, connected, inbox, reader, woken, missed>>

-----------------------------------------------------------------------------
(* The reader, and the server.                                             *)

\* Mutant of Read: one watcher of the channel is woken.
ReadWakesOne ==
    /\ reader = "reading"
    /\ \E ch \in inbox :
        /\ inbox' = inbox \ {ch}
        /\ \/ watchers[ch] = {} /\ UNCHANGED woken
           \/ \E w \in watchers[ch] : woken' = [woken EXCEPT ![w] = TRUE]
    /\ UNCHANGED <<fact, lock, watchers, connected, subs, reader, wpc, missed,
                   faults>>

\* _read: a message sets the events of all its channel's watchers.
Read ==
    /\ reader = "reading"
    /\ \E ch \in inbox :
        /\ inbox' = inbox \ {ch}
        /\ woken' = [w \in Waiters |-> woken[w] \/ w \in watchers[ch]]
    /\ UNCHANGED <<fact, lock, watchers, connected, subs, reader, wpc, missed,
                   faults>>

\* get_message raises: the reader ends and its task stays in _reader.
ReaderFails ==
    /\ reader = "reading"
    /\ Fault
    /\ reader' = "dead"
    /\ UNCHANGED <<fact, lock, watchers, connected, subs, inbox, woken, wpc,
                   missed>>

\* The server gets a SUBSCRIBE.
Apply(ch) ==
    /\ subs[ch] = "sent"
    /\ subs' = [subs EXCEPT ![ch] = "on"]
    /\ UNCHANGED <<fact, lock, watchers, connected, inbox, reader, woken, wpc,
                   missed, faults>>

\* A script changes the record and publishes on the channel.
Publish(ch) ==
    /\ ~fact[ch]
    /\ fact' = [fact EXCEPT ![ch] = TRUE]
    /\ inbox' = IF subs[ch] = "on" THEN inbox \cup {ch} ELSE inbox
    /\ missed' = IF subs[ch] = "sent" THEN missed \cup {ch} ELSE missed
    /\ UNCHANGED <<lock, watchers, connected, subs, reader, woken, wpc, faults>>

\* A message is lost on its way.
Lose(ch) ==
    /\ ch \in inbox
    /\ Fault
    /\ inbox' = inbox \ {ch}
    /\ UNCHANGED <<fact, lock, watchers, connected, subs, reader, woken, wpc,
                   missed>>

-----------------------------------------------------------------------------
Progress(w) ==
    \/ Join(w) \/ Subscribed(w) \/ Check(w) \/ Wake(w) \/ Poll(w)
    \/ Leave(w) \/ Unsubscribed(w)

NotifierNext ==
    \/ \E w \in Waiters : Progress(w) \/ SubscribeFails(w) \/ Abort(w)
    \/ Read \/ ReaderFails
    \/ \E ch \in Channels : Apply(ch) \/ Publish(ch) \/ Lose(ch)

\* Calls and timeouts return.  Messages need not arrive: neither the reader nor
\* the server is assumed to do anything.
NotifierSpec ==
    /\ NotifierInit
    /\ [][NotifierNext]_vars
    /\ \A w \in Waiters : WF_vars(Progress(w))

-----------------------------------------------------------------------------
\* Between two critical sections every watched channel is subscribed: no
\* unsubscribe of a leaving waiter undoes the subscription of one that joins,
\* and no failed subscribe leaves a watcher behind that later ones rely on.
WatchedIsSubscribed ==
    lock = Free => \A ch \in Channels : watchers[ch] # {} =>
                       connected /\ subs[ch] # "off"

\* Between two critical sections there is a reader task exactly while somebody
\* waits, whatever joins failed before.
ReaderIffWatched ==
    lock = Free =>
        (reader # "none" <=> \E ch \in Channels : watchers[ch] # {})

\* The subscription precedes the first read: without a fault no waiter is left
\* to the poll, except where the change was published before the server got
\* the SUBSCRIBE that join had already sent.
NoLostWakeup ==
    \A w \in Waiters :
        faults = 0 /\ wpc[w] = "parked" /\ fact[Channel(w)] =>
            woken[w] \/ Channel(w) \in inbox \cup missed

\* A waiter returns once the record says what it waits for, although every
\* message may be lost and the reader may be dead.
WaiterReturns ==
    \A w \in Waiters :
        (wpc[w] # "start" /\ fact[Channel(w)]) ~> wpc[w] = "returned"
=============================================================================
