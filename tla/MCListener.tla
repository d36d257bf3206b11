----------------------------- MODULE MCListener -----------------------------
(* Small instances of Listener for TLC.  Tokens and addresses are only     *)
(* compared; shards are numbered as in the code.                           *)
EXTENDS Listener, TLC

TableSymmetry == Permutations(Tokens) \cup Permutations(Addrs)
=============================================================================
