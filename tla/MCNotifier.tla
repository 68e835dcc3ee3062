----------------------------- MODULE MCNotifier -----------------------------
(* Two waiters on one channel and one on another.                            *)
EXTENDS Notifier

CONSTANTS w1, w2, w3, done, cancel

MCWaiters == {w1, w2, w3}
MCChannels == {done, cancel}
MCChannelOf == [w \in MCWaiters |-> IF w = w3 THEN cancel ELSE done]
=============================================================================
