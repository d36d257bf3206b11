----------------------------- MODULE MCConnVars -----------------------------
(* Small instances of ConnVars for TLC. *)
EXTENDS ConnVars
=============================================================================
