---------------------------- MODULE MCRelStream -----------------------------
(* Small instances of RelStream for TLC.  Chunks are only copied and       *)
(* compared, so streams of distinct chunks show every mix-up there is.     *)
EXTENDS RelStream

CONSTANTS c1, c2, c3
TwoChunks == <<c1, c2>>
ThreeChunks == <<c1, c2, c3>>
=============================================================================
