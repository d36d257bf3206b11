----------------------------- MODULE RelStream ------------------------------
(***************************************************************************)
(* One direction of an established reliable stream between two             *)
(* relconn_actors: the writer's half of ConnVars at one end, the reader's  *)
(* half at the other, and the sessions in between, which lose, delay and   *)
(* reorder packets but deliver none twice (ReplayFilter).  Retransmission  *)
(* makes copies, so a segment may still arrive more than once; copies that *)
(* are on the way at the same time count as one.                           *)
(*                                                                         *)
(* Deadlines are left to ConnVars: here an armed segment may time out at   *)
(* any moment, which covers every estimate of the RTT.  Both ends go       *)
(* through SteadyState, Reset and the actor's end as relconn_actor does.   *)
(***************************************************************************)
EXTENDS Integers, Sequences, FiniteSets

CONSTANTS
    Chunks,         \* payloads of data packets
    Stream,         \* what the writer's application writes, chunk by chunk
    AckBatch,       \* ACK_BATCH
    MaxSpan,        \* last_minus_first allowed to a new write
    RecvWindow,     \* how far above min the Reorderer accepts
    Cwnd,           \* cc.cwnd(), constant here
    Capacity        \* packets of a kind on the way; try_send drops the rest

ASSUME RelStreamAssumption ==
    /\ AckBatch \in Nat \ {0}
    /\ MaxSpan \in Nat /\ RecvWindow \in Nat /\ Cwnd \in Nat
    /\ Capacity \in Nat /\ Stream \in Seq(Chunks)

VARIABLES
    written,        \* chunks taken from the writer's pipe, seqno i at i + 1
    segments,       \* writer: Inflight.segments, seqno -> payload
    lost,           \* writer: lost_seqnos
    closing,        \* writer: closing
    writer,         \* writer's actor: "steady", "reset" or "dead"
    outcome,        \* why the writer left SteadyState
    pkts,           \* reader: Reorderer.pkts, seqno -> payload
    min,            \* reader: Reorderer.min = lowest_unseen
    ack_seqnos,     \* reader
    ackTimer,       \* reader: delayed_ack_timer is running
    reader,         \* reader's actor
    delivered,      \* chunks written into send_read
    dataNet,        \* Data packets on the way to the reader
    ackNet,         \* DataAck packets on the way to the writer
    rstNet          \* ends an RST is on the way to

writerVars == <<written, segments, lost, closing, writer, outcome>>
readerVars == <<pkts, min, ack_seqnos, ackTimer, reader, delivered>>
netVars == <<dataNet, ackNet, rstNet>>
vars == <<writerVars, readerVars, netVars>>

MaxWrites == Len(Stream)
Seqnos == 0 .. MaxWrites - 1
Data == Seqnos \X Chunks
Ack == [lo : 0 .. MaxWrites, seqnos : SUBSET Seqnos]

\* try_send into the outgoing channels: a packet that finds no room is lost.
Send(net, m) == IF Cardinality(net) < Capacity THEN net \cup {m} ELSE net

inflight == Cardinality(DOMAIN segments) - Cardinality(lost)

Init ==
    /\ written = <<>> /\ segments = [s \in {} |-> {}] /\ lost = {}
    /\ closing = FALSE /\ writer = "steady" /\ outcome = "open"
    /\ pkts = [s \in {} |-> {}] /\ min = 0
    /\ ack_seqnos = {} /\ ackTimer = FALSE
    /\ reader = "steady" /\ delivered = <<>>
    /\ dataNet = {} /\ ackNet = {} /\ rstNet = {}

-----------------------------------------------------------------------------
(* The writer in SteadyState *)

can_write_new ==
    /\ writer = "steady" /\ ~closing /\ lost = {}
    /\ Cardinality(DOMAIN segments) <= Cwnd
    /\ \A s, t \in DOMAIN segments : t - s <= MaxSpan

\* ConnVarEvt::NewWrite
NewWrite ==
    /\ can_write_new /\ Len(written) < MaxWrites
    /\ LET seqno == Len(written)
           c == Stream[seqno + 1] IN
        /\ segments' = [s \in DOMAIN segments \cup {seqno} |->
                            IF s = seqno THEN c ELSE segments[s]]
        /\ dataNet' = Send(dataNet, <<seqno, c>>)
        /\ written' = Append(written, c)
    /\ UNCHANGED <<lost, closing, writer, outcome, readerVars, ackNet, rstNet>>

\* ConnVarEvt::Rto: armed segments are those not lost.
Rto(s) ==
    /\ writer = "steady"
    /\ s \in DOMAIN segments \ lost
    /\ lost' = lost \cup {s}
    /\ UNCHANGED <<written, segments, closing, writer, outcome, readerVars,
                   netVars>>

\* ConnVarEvt::Retransmit of the lowest lost segment
Retransmit ==
    /\ writer = "steady" /\ inflight <= Cwnd
    /\ \E s \in lost :
        /\ \A t \in lost : s <= t
        /\ lost' = lost \ {s}
        /\ dataNet' = Send(dataNet, <<s, segments[s]>>)
    /\ UNCHANGED <<written, segments, closing, writer, outcome, readerVars,
                   ackNet, rstNet>>

\* SteadyState to Reset, whose first act is to send an RST: with
\* check_closed's error the stream is closed, otherwise it is cut.
WriterReset(why) ==
    /\ writer' = "reset" /\ outcome' = why
    /\ rstNet' = rstNet \cup {"reader"}

\* Mutants: closed with segments outstanding; never closed.
CheckClosedEarly ==
    IF closing' THEN WriterReset("closed") ELSE UNCHANGED <<writer, outcome, rstNet>>
CheckClosedNever == UNCHANGED <<writer, outcome, rstNet>>

\* check_closed at the end of DataAck and Closing.
CheckClosed ==
    IF closing' /\ DOMAIN segments' = {}
    THEN WriterReset("closed")
    ELSE UNCHANGED <<writer, outcome, rstNet>>

\* ConnVarEvt::Closing: the writer's application is done.
Closing ==
    /\ can_write_new
    /\ closing' = TRUE
    /\ UNCHANGED <<written, segments, lost, readerVars, dataNet, ackNet>>
    /\ CheckClosed

\* DataAck
RecvAck(m) ==
    /\ writer = "steady" /\ m \in ackNet
    /\ ackNet' = ackNet \ {m}
    /\ LET kept == {s \in DOMAIN segments : s >= m.lo /\ s \notin m.seqnos}
       IN /\ segments' = [s \in kept |-> segments[s]]
          /\ lost' = lost \cap kept
    /\ UNCHANGED <<written, closing, readerVars, dataNet>>
    /\ CheckClosed

\* The final timeout, or the wire channel closed by a dropped mux.
WriterAbort ==
    /\ writer = "steady"
    /\ WriterReset("aborted")
    /\ UNCHANGED <<written, segments, lost, closing, readerVars, dataNet, ackNet>>

-----------------------------------------------------------------------------
(* The reader in SteadyState *)

\* Data: Reorderer::insert, Reorderer::take, write_all of what was taken.
RecvData(m) ==
    /\ reader = "steady" /\ m \in dataNet
    /\ dataNet' = dataNet \ {m}
    /\ ackTimer' = TRUE
    /\ Cardinality(ack_seqnos) < AckBatch       \* a full batch goes first
    /\ LET seqno == m[1]
           inWindow == seqno >= min /\ seqno <= min + RecvWindow
           held == IF inWindow
                   THEN [s \in DOMAIN pkts \cup {seqno} |->
                            IF s = seqno THEN m[2] ELSE pkts[s]]
                   ELSE pkts
       IN /\ ack_seqnos' = IF inWindow \/ seqno < min
                           THEN ack_seqnos \cup {seqno} ELSE ack_seqnos
          /\ \E next \in min .. MaxWrites :
              /\ min .. next - 1 \subseteq DOMAIN held
              /\ next \notin DOMAIN held
              /\ pkts' = [s \in DOMAIN held \ (min .. next - 1) |-> held[s]]
              /\ delivered' = delivered \o [i \in 1 .. next - min |-> held[min + i - 1]]
              /\ min' = next
    /\ UNCHANGED <<reader, writerVars, ackNet, rstNet>>

\* Mutant: acknowledges one seqno too many.
AckTimerOneMore ==
    /\ reader = "steady" /\ ackTimer
    /\ ackNet' = Send(ackNet, [lo |-> min + 1, seqnos |-> ack_seqnos])
    /\ ack_seqnos' = {} /\ ackTimer' = FALSE
    /\ UNCHANGED <<pkts, min, reader, delivered, writerVars, dataNet, rstNet>>

\* ConnVarEvt::AckTimer
AckTimer ==
    /\ reader = "steady" /\ ackTimer
    /\ ackNet' = Send(ackNet, [lo |-> min, seqnos |-> ack_seqnos])
    /\ ack_seqnos' = {} /\ ackTimer' = FALSE
    /\ UNCHANGED <<pkts, min, reader, delivered, writerVars, dataNet, rstNet>>

\* The final timeout, a closed wire channel, or the end of the opposite
\* direction (closing with nothing unacknowledged).
ReaderReset ==
    /\ reader = "steady"
    /\ reader' = "reset"
    /\ rstNet' = rstNet \cup {"writer"}
    /\ UNCHANGED <<pkts, min, ack_seqnos, ackTimer, delivered, writerVars,
                   dataNet, ackNet>>

-----------------------------------------------------------------------------
(* Reset and after.  A packet for an actor in Reset is answered with an    *)
(* RST; one for an actor that has ended is dropped while its table entry   *)
(* lasts and answered with an RST by the mux afterwards.                   *)

WriterGetsAck(m) ==
    /\ writer # "steady" /\ m \in ackNet
    /\ ackNet' = ackNet \ {m}
    /\ \/ rstNet' = rstNet \cup {"reader"}
       \/ writer = "dead" /\ rstNet' = rstNet
    /\ UNCHANGED <<writerVars, readerVars, dataNet>>

ReaderGetsData(m) ==
    /\ reader # "steady" /\ m \in dataNet
    /\ dataNet' = dataNet \ {m}
    /\ \/ rstNet' = rstNet \cup {"writer"}
       \/ reader = "dead" /\ rstNet' = rstNet
    /\ UNCHANGED <<writerVars, readerVars, ackNet>>

\* An RST takes a steady end to Reset and an end in Reset to its end.
WriterGetsRst ==
    /\ "writer" \in rstNet
    /\ CASE writer = "steady" ->
              /\ writer' = "reset" /\ outcome' = "aborted"
              /\ rstNet' = (rstNet \ {"writer"}) \cup {"reader"}
         [] writer # "steady" ->
              /\ writer' = "dead" /\ outcome' = outcome
              /\ rstNet' = rstNet \ {"writer"}
    /\ UNCHANGED <<written, segments, lost, closing, readerVars, dataNet, ackNet>>

ReaderGetsRst ==
    /\ "reader" \in rstNet
    /\ CASE reader = "steady" ->
              /\ reader' = "reset"
              /\ rstNet' = (rstNet \ {"reader"}) \cup {"writer"}
         [] reader # "steady" ->
              /\ reader' = "dead"
              /\ rstNet' = rstNet \ {"reader"}
    /\ UNCHANGED <<pkts, min, ack_seqnos, ackTimer, delivered, writerVars,
                   dataNet, ackNet>>

\* Mutant: the reader's Reset waits for an RST only.
DieWriterOnly ==
    /\ writer = "reset" /\ writer' = "dead"
    /\ UNCHANGED <<written, segments, lost, closing, outcome, readerVars, netVars>>

\* The death timer of Reset.
Die ==
    /\ \/ writer = "reset" /\ writer' = "dead" /\ UNCHANGED reader
       \/ reader = "reset" /\ reader' = "dead" /\ UNCHANGED writer
    /\ UNCHANGED <<written, segments, lost, closing, outcome, pkts, min,
                   ack_seqnos, ackTimer, delivered, netVars>>

\* The network, and full channels on the way, lose packets.
Lose ==
    /\ \/ \E m \in dataNet : dataNet' = dataNet \ {m} /\ UNCHANGED <<ackNet, rstNet>>
       \/ \E m \in ackNet : ackNet' = ackNet \ {m} /\ UNCHANGED <<dataNet, rstNet>>
       \/ \E e \in rstNet : rstNet' = rstNet \ {e} /\ UNCHANGED <<dataNet, ackNet>>
    /\ UNCHANGED <<writerVars, readerVars>>

WriterNext ==
    \/ NewWrite
    \/ \E s \in DOMAIN segments : Rto(s)
    \/ Retransmit \/ Closing \/ WriterAbort \/ WriterGetsRst
    \/ \E m \in ackNet : RecvAck(m) \/ WriterGetsAck(m)
ReaderNext ==
    \/ \E m \in dataNet : RecvData(m) \/ ReaderGetsData(m)
    \/ AckTimer \/ ReaderReset \/ ReaderGetsRst

Next == WriterNext \/ ReaderNext \/ Die \/ Lose

Spec == Init /\ [][Next]_vars

-----------------------------------------------------------------------------
(* Fairness.  Timers fire and runnable actors run (weak fairness).  A data *)
(* packet that is sent again and again is not lost every time, nor are     *)
(* acks that cover a seqno (strong fairness, the least a network must do   *)
(* for retransmission to be of use).  Nothing makes the applications write *)
(* or close, and no reset is ever forced, with one exception: final_timeout*)
(* ends an end that has nothing to do and hears nothing.                   *)

RecvSeqno(s) == \E m \in dataNet : m[1] = s /\ RecvData(m)
RecvCovering(k) == \E m \in ackNet : m.lo >= k /\ RecvAck(m)
ReaderIdle == writer # "steady" /\ dataNet = {} /\ ~ackTimer /\ ReaderReset

Fairness ==
    /\ \A s \in Seqnos : WF_vars(Rto(s)) /\ SF_vars(RecvSeqno(s))
    /\ \A k \in 1 .. MaxWrites : SF_vars(RecvCovering(k))
    /\ WF_vars(Retransmit) /\ WF_vars(AckTimer)
    /\ WF_vars(\E m \in dataNet : RecvData(m) \/ ReaderGetsData(m))
    /\ WF_vars(ReaderIdle) /\ WF_vars(Die)

FairSpec == Spec /\ Fairness

-----------------------------------------------------------------------------
(* Properties *)

\* A segment leaves the writer's Inflight only once the reader has it: in
\* its pipe or in its Reorderer, whatever acks were lost, late or repeated.
AckedIsHeld ==
    \A s \in 0 .. Len(written) - 1 :
        s \in DOMAIN segments \cup (0 .. min - 1) \cup DOMAIN pkts

\* The protocol implements the abstract stream: in order, exactly once,
\* and complete when closed (check_closed after the last ack).
Abstract == INSTANCE ReliableStream WITH
                Chunks <- Chunks, written <- written,
                delivered <- delivered, outcome <- outcome
ImplementsReliableStream == Abstract!Spec

\* Every chunk the stream took is delivered in the end, unless one of the
\* ends was reset first.
EventuallyDelivered ==
    \A n \in 1 .. MaxWrites :
        Len(written) >= n ~>
            Len(delivered) >= n \/ outcome = "aborted" \/ reader # "steady"

\* A writer that closes comes to an end.
CloseEnds == closing ~> writer # "steady" \/ reader # "steady"

\* Once one end is cut or closed, the other end and both actors end too,
\* even when every RST is lost.
BothEnd == writer # "steady" ~> (reader = "dead" /\ writer = "dead")
=============================================================================
