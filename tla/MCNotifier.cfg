SPECIFICATION NotifierSpec
CONSTANTS
    w1 = w1
    w2 = w2
    w3 = w3
    done = done
    cancel = cancel
    Waiters <- MCWaiters
    Channels <- MCChannels
    ChannelOf <- MCChannelOf
    Free = Free
    MaxFaults = 2
INVARIANTS WatchedIsSubscribed ReaderIffWatched NoLostWakeup
PROPERTIES WaiterReturns
CHECK_DEADLOCK FALSE
