------------------------------ MODULE MCMemory ------------------------------
(* Two handles of one job and one of another.                                *)
EXTENDS MemoryBackend

CONSTANTS h1, h2, h3, j1, j2

MCHandles == {h1, h2, h3}
MCJobs == {j1, j2}
MCTarget == [h \in MCHandles |-> IF h = h3 THEN j2 ELSE j1]
=============================================================================
