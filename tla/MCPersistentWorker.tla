------------------------- MODULE MCPersistentWorker -------------------------
(***************************************************************************)
(* TLC instance of PersistentWorker: three chunks and two warm-ups.        *)
(***************************************************************************)
EXTENDS PersistentWorker

CONSTANTS k1, k2, k3, w1, w2

ThreeChunks == {k1, k2, k3}
TwoWarmups  == {w1, w2}
=============================================================================
