--------------------------- MODULE ReliableStream ---------------------------
(***************************************************************************)
(* What one direction of a RelConn promises its two applications: the     *)
(* reader gets the writer's chunks in order, each once, none invented; a   *)
(* writer that is closed gracefully has had everything read into the       *)
(* reader's pipe; a stream may be cut at any time, and then only short.    *)
(***************************************************************************)
EXTENDS Naturals, Sequences

CONSTANT Chunks     \* what the writer writes

VARIABLES
    written,        \* chunks the stream has taken from the writer
    delivered,      \* chunks put into the reader's pipe
    outcome         \* of the writer: "open", "closed" or "aborted"

vars == <<written, delivered, outcome>>

Init == written = <<>> /\ delivered = <<>> /\ outcome = "open"

Write(c) ==
    /\ outcome = "open"
    /\ written' = Append(written, c)
    /\ UNCHANGED <<delivered, outcome>>

\* Any number of the next chunks, also after the writer was cut off.
Deliver ==
    /\ \E n \in Len(delivered) + 1 .. Len(written) :
          delivered' = SubSeq(written, 1, n)
    /\ UNCHANGED <<written, outcome>>

Close ==
    /\ outcome = "open" /\ delivered = written
    /\ outcome' = "closed"
    /\ UNCHANGED <<written, delivered>>

Abort ==
    /\ outcome = "open"
    /\ outcome' = "aborted"
    /\ UNCHANGED <<written, delivered>>

Next == (\E c \in Chunks : Write(c)) \/ Deliver \/ Close \/ Abort

Spec == Init /\ [][Next]_vars
=============================================================================
