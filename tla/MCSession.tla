----------------------------- MODULE MCSession ------------------------------
(* Small instances of Session for TLC. *)
EXTENDS Session, TLC

\* Payloads are never looked into.
PayloadSymmetry == Permutations(Payloads)
=============================================================================
