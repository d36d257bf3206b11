----------------------------- MODULE MCTcpPool ------------------------------
(* Small instances of TcpPool for TLC. *)
EXTENDS TcpPool

\* The clock is set forward or back by half a lifetime.
MCJumps == {-1, 1}
=============================================================================
