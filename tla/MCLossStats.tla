---------------------------- MODULE MCLossStats -----------------------------
(* Small instances of LossStats for TLC. *)
EXTENDS LossStats
=============================================================================
