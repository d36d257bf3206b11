--------------------------- MODULE RelStreamProofs --------------------------
(***************************************************************************)
(* Proof that the reliable stream implements ReliableStream, for every     *)
(* stream of chunks, window, batch and capacity of the network.            *)
(***************************************************************************)
EXTENDS RelStream, SequenceTheorems, TLAPS

\* What the reader has taken responsibility for.
Held == (0 .. min - 1) \cup DOMAIN pkts

\* Packets in the network, in the Reorderer and in Inflight carry the chunk
\* the application wrote at that place of the stream.
PayloadsRight ==
    /\ \A m \in dataNet : m[1] \in 0 .. Len(written) - 1 /\ m[2] = written[m[1] + 1]
    /\ \A s \in DOMAIN pkts : s \in 0 .. Len(written) - 1 /\ pkts[s] = written[s + 1]
    /\ \A s \in DOMAIN segments : segments[s] = written[s + 1]

\* Every ack, sent or about to be, speaks of what the reader holds.
AcksRight ==
    /\ ack_seqnos \subseteq Held
    /\ \A m \in ackNet : m.lo \in 0 .. min /\ m.seqnos \subseteq Held

\* The reader's pipe got the first min chunks; the next one is missing.
DeliveredRight ==
    /\ min \in 0 .. Len(written)
    /\ delivered = SubSeq(written, 1, min)
    /\ min \notin DOMAIN pkts

\* The part of the type invariant the argument needs.
Typed ==
    /\ written \in Seq(Chunks)
    /\ Len(written) <= Len(Stream)
    /\ DOMAIN segments \subseteq 0 .. Len(written) - 1
    /\ lost \subseteq DOMAIN segments
    /\ writer = "steady" <=> outcome = "open"

IInv == Typed /\ PayloadsRight /\ AcksRight /\ DeliveredRight /\ AckedIsHeld

-----------------------------------------------------------------------------
\* A new stream satisfies the inductive invariant.
LEMMA InitIInv == Init => IInv
<1> SUFFICES ASSUME Init PROVE IInv
  OBVIOUS
<1>1. written = <<>> /\ delivered = <<>> /\ min = 0 /\ Len(written) = 0
      /\ written \in Seq(Chunks)
  BY EmptySeq DEF Init
<1>2. DOMAIN segments = {} /\ DOMAIN pkts = {}
  BY DEF Init
<1>3. Typed
  BY <1>1, <1>2, RelStreamAssumption DEF Init, Typed
<1>4. PayloadsRight /\ AcksRight
  BY <1>2 DEF Init, PayloadsRight, AcksRight
<1>5. DeliveredRight
  BY <1>1, <1>2, SubSeqEmpty DEF DeliveredRight
<1>6. AckedIsHeld
  BY <1>1 DEF AckedIsHeld
<1> QED BY <1>3, <1>4, <1>5, <1>6 DEF IInv

\* Sending puts at most the one packet into the network.
LEMMA SendAdds ==
    ASSUME NEW net, NEW m
    PROVE  Send(net, m) \subseteq net \cup {m}
BY DEF Send

\* When nothing is outstanding, the reader has everything.
LEMMA AllDelivered == IInv /\ DOMAIN segments = {} => delivered = written
<1> SUFFICES ASSUME IInv, DOMAIN segments = {} PROVE delivered = written
  OBVIOUS
<1>1. Len(written) \in Nat /\ min \in 0 .. Len(written)
  BY LenProperties DEF IInv, Typed, DeliveredRight
<1>2. ~(min < Len(written))
  BY <1>1 DEF IInv, DeliveredRight, AckedIsHeld
<1>3. min = Len(written)
  BY <1>1, <1>2
<1> QED BY <1>3, SubSeqFull DEF IInv, Typed, DeliveredRight

-----------------------------------------------------------------------------
\* A new segment extends the stream at its end.
LEMMA NewWriteStep ==
    ASSUME IInv, NewWrite
    PROVE  IInv' /\ Abstract!Write(Stream[Len(written) + 1])
<1> DEFINE n == Len(written)
           c == Stream[n + 1]
<1>1. /\ written' = Append(written, c)
      /\ segments' = [s \in DOMAIN segments \cup {n} |-> IF s = n THEN c ELSE segments[s]]
      /\ dataNet' = Send(dataNet, <<n, c>>)
      /\ n < Len(Stream) /\ writer = "steady"
      /\ UNCHANGED <<lost, closing, writer, outcome, readerVars, ackNet, rstNet>>
  BY DEF NewWrite, can_write_new, MaxWrites
<1>2. n \in Nat /\ Len(Stream) \in Nat /\ c \in Chunks /\ written \in Seq(Chunks)
  BY <1>1, LenProperties, ElementOfSeq, RelStreamAssumption DEF IInv, Typed
<1>3. /\ written' \in Seq(Chunks) /\ Len(written') = n + 1
      /\ \A i \in 1 .. n : written'[i] = written[i]
      /\ written'[n + 1] = c
  BY <1>1, <1>2
<1> HIDE DEF n, c
<1>4. /\ DOMAIN segments' = DOMAIN segments \cup {n}
      /\ segments'[n] = c
      /\ \A s \in DOMAIN segments : s # n => segments'[s] = segments[s]
  BY <1>1
<1>5. Typed'
  BY <1>1, <1>2, <1>3, <1>4 DEF IInv, Typed, n
<1>6. PayloadsRight'
  <2>1. ASSUME NEW m \in dataNet'
        PROVE  m[1] \in 0 .. Len(written') - 1 /\ m[2] = written'[m[1] + 1]
    <3>1. m \in dataNet \/ m = <<n, c>>
      BY <1>1, SendAdds
    <3>2. CASE m \in dataNet
      BY <3>2, <1>2, <1>3 DEF IInv, PayloadsRight, n
    <3>3. CASE m = <<n, c>>
      BY <3>3, <1>2, <1>3
    <3> QED BY <3>1, <3>2, <3>3
  <2>2. ASSUME NEW s \in DOMAIN pkts'
        PROVE  s \in 0 .. Len(written') - 1 /\ pkts'[s] = written'[s + 1]
    BY <1>1, <1>2, <1>3 DEF IInv, PayloadsRight, n, readerVars
  <2>3. ASSUME NEW s \in DOMAIN segments'
        PROVE  segments'[s] = written'[s + 1]
    BY <1>2, <1>3, <1>4 DEF IInv, Typed, PayloadsRight, n
  <2> QED BY <2>1, <2>2, <2>3 DEF PayloadsRight
<1>7. AcksRight'
  BY <1>1 DEF IInv, AcksRight, Held, readerVars
<1>8. DeliveredRight'
  <2>1. min \in 0 .. n /\ delivered = SubSeq(written, 1, min) /\ min' = min
        /\ delivered' = delivered /\ pkts' = pkts
    BY <1>1 DEF IInv, DeliveredRight, n, readerVars
  <2>2. SubSeq(written', 1, min) = SubSeq(written, 1, min)
    BY <1>2, <1>3, <2>1
  <2> QED BY <1>2, <1>3, <2>1, <2>2 DEF IInv, DeliveredRight
<1>9. AckedIsHeld'
  BY <1>1, <1>2, <1>3, <1>4 DEF IInv, AckedIsHeld, n, readerVars
<1>10. Abstract!Write(Stream[Len(written) + 1])
  BY <1>1 DEF Abstract!Write, n, c, IInv, Typed, readerVars
<1> QED BY <1>5, <1>6, <1>7, <1>8, <1>9, <1>10 DEF IInv

\* The reader takes over a segment before it acknowledges it, and passes on
\* exactly the next chunks of the stream.
LEMMA RecvDataStep ==
    ASSUME IInv, NEW m \in dataNet, RecvData(m)
    PROVE  IInv' /\ (Abstract!Deliver \/ UNCHANGED Abstract!vars)
<1> DEFINE seqno == m[1]
           inWindow == seqno >= min /\ seqno <= min + RecvWindow
           held == IF inWindow
                   THEN [s \in DOMAIN pkts \cup {seqno} |->
                            IF s = seqno THEN m[2] ELSE pkts[s]]
                   ELSE pkts
<1>1. PICK next \in min .. MaxWrites :
              /\ min .. next - 1 \subseteq DOMAIN held
              /\ next \notin DOMAIN held
              /\ pkts' = [s \in DOMAIN held \ (min .. next - 1) |-> held[s]]
              /\ delivered' = delivered \o [i \in 1 .. next - min |-> held[min + i - 1]]
              /\ min' = next
  BY DEF RecvData
<1>2. /\ dataNet' \subseteq dataNet
      /\ ack_seqnos' = IF inWindow \/ seqno < min
                       THEN ack_seqnos \cup {seqno} ELSE ack_seqnos
      /\ UNCHANGED <<written, segments, lost, writer, outcome, ackNet>>
  BY DEF RecvData, writerVars
<1>3. /\ Len(written) \in Nat /\ min \in 0 .. Len(written)
      /\ written \in Seq(Chunks) /\ delivered = SubSeq(written, 1, min)
      /\ seqno \in 0 .. Len(written) - 1 /\ m[2] = written[seqno + 1]
  BY LenProperties DEF IInv, Typed, DeliveredRight, PayloadsRight
<1>4. \A s \in DOMAIN held : s \in 0 .. Len(written) - 1 /\ held[s] = written[s + 1]
  BY <1>3 DEF IInv, PayloadsRight
<1>5. DOMAIN pkts \subseteq DOMAIN held /\ (inWindow => seqno \in DOMAIN held)
  OBVIOUS
<1> HIDE DEF held, inWindow, seqno
<1>6. next \in Nat /\ min <= next /\ next <= Len(written)
  <2>1. next \in Nat /\ min <= next
    BY <1>3
  <2>2. next = min \/ next - 1 \in DOMAIN held
    BY <1>1, <1>3, <2>1
  <2> QED BY <1>3, <1>4, <2>1, <2>2
<1>7. [i \in 1 .. next - min |-> held[min + i - 1]] = SubSeq(written, min + 1, next)
  <2> DEFINE tail == [i \in 1 .. next - min |-> held[min + i - 1]]
             part == SubSeq(written, min + 1, next)
  <2>1. \A i \in 1 .. next - min : min + i - 1 \in DOMAIN held
    BY <1>1, <1>3, <1>6
  <2>2. \A i \in 1 .. next - min : tail[i] = written[min + i]
    <3> SUFFICES ASSUME NEW i \in 1 .. next - min PROVE tail[i] = written[min + i]
      OBVIOUS
    <3>1. tail[i] = held[min + i - 1]
      OBVIOUS
    <3>2. held[min + i - 1] = written[(min + i - 1) + 1]
      BY <1>4, <2>1
    <3>3. (min + i - 1) + 1 = min + i
      BY <1>3, <1>6
    <3> QED BY <3>1, <3>2, <3>3
  <2>3. \A i \in min + 1 .. next : written[i] \in Chunks
    BY <1>3, <1>6, ElementOfSeq
  <2>4. /\ part \in Seq(Chunks) /\ Len(part) = next - min
        /\ \A i \in 1 .. next - min : part[i] = written[min + i]
    BY <1>3, <1>6, <2>3, SubSeqProperties
  <2>5. tail \in [1 .. next - min -> Chunks]
    <3>1. \A i \in 1 .. next - min : min + i \in min + 1 .. next
      BY <1>3, <1>6
    <3>2. \A i \in 1 .. next - min : tail[i] \in Chunks
      BY <2>2, <2>3, <3>1
    <3> QED BY <3>2
  <2>6. tail \in Seq(Chunks) /\ Len(tail) = next - min
    <3>1. next - min \in Nat
      BY <1>3, <1>6
    <3> HIDE DEF tail
    <3>2. tail \in Seq(Chunks)
      BY <2>5, <3>1, SeqDef
    <3>3. DOMAIN tail = 1 .. next - min /\ DOMAIN tail = 1 .. Len(tail) /\ Len(tail) \in Nat
      BY <2>5, <3>2, LenProperties
    <3> QED BY <3>1, <3>2, <3>3
  <2> QED BY <2>2, <2>4, <2>6, SeqEqual
<1>8. delivered' = SubSeq(written, 1, next)
  <2>1. 1 \in 1 .. Len(written) + 1 /\ min \in 1 - 1 .. Len(written)
        /\ next \in min .. Len(written)
    BY <1>3, <1>6
  <2>2. SubSeq(written, 1, min) \o SubSeq(written, min + 1, next) = SubSeq(written, 1, next)
    BY <1>3, <2>1, ConcatAdjacentSubSeq
  <2> QED BY <1>1, <1>3, <1>7, <2>2
<1>9. DOMAIN pkts' = DOMAIN held \ (min .. next - 1)
      /\ \A s \in DOMAIN pkts' : pkts'[s] = held[s]
  BY <1>1
<1>10. Held \cup DOMAIN held \subseteq Held'
  BY <1>1, <1>3, <1>5, <1>6, <1>9 DEF Held
<1>11. Typed'
  BY <1>2 DEF IInv, Typed
<1>12. PayloadsRight'
  BY <1>2, <1>4, <1>9 DEF IInv, PayloadsRight
<1>13. AcksRight'
  <2>1. ack_seqnos' \subseteq Held'
    <3>1. seqno < min => seqno \in Held
      BY <1>3 DEF Held
    <3> QED BY <1>2, <1>5, <1>10, <3>1 DEF IInv, AcksRight
  <2>2. \A a \in ackNet' : a.lo \in 0 .. min' /\ a.seqnos \subseteq Held'
    BY <1>1, <1>2, <1>3, <1>6, <1>10 DEF IInv, AcksRight
  <2> QED BY <2>1, <2>2 DEF AcksRight
<1>14. DeliveredRight'
  <2>1. min' \in 0 .. Len(written') /\ min' \notin DOMAIN pkts'
    BY <1>1, <1>2, <1>3, <1>6, <1>9
  <2>2. delivered' = SubSeq(written', 1, min')
    BY <1>1, <1>2, <1>8
  <2> QED BY <2>1, <2>2 DEF DeliveredRight
<1>15. AckedIsHeld'
  BY <1>2, <1>10 DEF IInv, AckedIsHeld, Held
<1>16. Abstract!Deliver \/ UNCHANGED Abstract!vars
  <2>1. Len(delivered) = min
    BY <1>3, SubSeqProperties, ElementOfSeq
  <2>2. CASE next = min
    BY <1>2, <1>3, <1>8, <2>2 DEF Abstract!vars
  <2>3. CASE next # min
    <3>1. next \in Len(delivered) + 1 .. Len(written)
      BY <1>3, <1>6, <2>1, <2>3
    <3> QED BY <1>2, <1>8, <3>1 DEF Abstract!Deliver
  <2> QED BY <2>2, <2>3
<1> QED BY <1>11, <1>12, <1>13, <1>14, <1>15, <1>16 DEF IInv

\* An ack removes only what the reader holds.
LEMMA RecvAckKeeps ==
    ASSUME IInv, NEW m \in ackNet, RecvAck(m),
           writer' = "steady" <=> outcome' = "open"
    PROVE  IInv'
<1> DEFINE kept == {s \in DOMAIN segments : s >= m.lo /\ s \notin m.seqnos}
<1>1. /\ DOMAIN segments' = kept
      /\ \A s \in kept : segments'[s] = segments[s]
      /\ lost' = lost \cap kept
      /\ ackNet' \subseteq ackNet
      /\ UNCHANGED <<written, dataNet, pkts, min, ack_seqnos, delivered>>
  BY DEF RecvAck, readerVars
<1>2. m.lo \in 0 .. min /\ m.seqnos \subseteq Held /\ min \in Nat /\ Len(written) \in Nat
  BY LenProperties DEF IInv, AcksRight, DeliveredRight, Typed
<1>3. \A s \in DOMAIN segments \ kept : s \in Held
  BY <1>2 DEF IInv, Typed, Held
<1>4. Typed'
  BY <1>1 DEF IInv, Typed
<1>5. PayloadsRight'
  BY <1>1 DEF IInv, PayloadsRight
<1>6. AcksRight'
  BY <1>1 DEF IInv, AcksRight, Held
<1>7. DeliveredRight'
  BY <1>1 DEF IInv, DeliveredRight
<1>8. AckedIsHeld'
  BY <1>1, <1>3 DEF IInv, AckedIsHeld, Held
<1> QED BY <1>4, <1>5, <1>6, <1>7, <1>8 DEF IInv

\* Steps that leave the stream and both buffers alone.
LEMMA QuietStep ==
    ASSUME IInv,
           UNCHANGED <<written, segments, pkts, min, delivered>>,
           lost' \subseteq DOMAIN segments,
           dataNet' \subseteq dataNet \cup {<<s, segments[s]>> : s \in DOMAIN segments},
           ack_seqnos' \subseteq ack_seqnos,
           ackNet' \subseteq ackNet \cup {[lo |-> min, seqnos |-> ack_seqnos]},
           writer' = "steady" <=> outcome' = "open"
    PROVE  IInv'
<1>1. Typed'
  BY DEF IInv, Typed
<1>2. PayloadsRight'
  BY DEF IInv, Typed, PayloadsRight
<1>3. AcksRight'
  BY DEF IInv, AcksRight, DeliveredRight, Held
<1>4. DeliveredRight'
  BY DEF IInv, DeliveredRight
<1>5. AckedIsHeld'
  BY DEF IInv, AckedIsHeld
<1> QED BY <1>1, <1>2, <1>3, <1>4, <1>5 DEF IInv

\* What the abstract stream sees of a step of the protocol.
AbstractStep == Abstract!Next \/ UNCHANGED Abstract!vars

\* check_closed closes the stream only when everything was delivered.
LEMMA CheckClosedStep ==
    ASSUME IInv, CheckClosed, writer = "steady",
           UNCHANGED <<written, delivered>>,
           DOMAIN segments' = {} => delivered = written
    PROVE  /\ AbstractStep
           /\ writer' = "steady" <=> outcome' = "open"
<1>1. outcome = "open"
  BY DEF IInv, Typed
<1>2. CASE closing' /\ DOMAIN segments' = {}
  <2>1. writer' = "reset" /\ outcome' = "closed"
    BY <1>2 DEF CheckClosed, WriterReset
  <2>2. Abstract!Close
    BY <1>1, <1>2, <2>1 DEF Abstract!Close
  <2> QED BY <2>1, <2>2 DEF AbstractStep, Abstract!Next
<1>3. CASE ~(closing' /\ DOMAIN segments' = {})
  <2>1. UNCHANGED <<writer, outcome>>
    BY <1>3 DEF CheckClosed
  <2> QED BY <1>1, <2>1 DEF AbstractStep, Abstract!vars
<1> QED BY <1>2, <1>3

\* DataAck, with check_closed at its end.
LEMMA RecvAckStep ==
    ASSUME IInv, NEW m \in ackNet, RecvAck(m)
    PROVE  IInv' /\ AbstractStep
<1>1. /\ writer = "steady" /\ CheckClosed
      /\ UNCHANGED <<written, delivered, pkts, min>>
      /\ DOMAIN segments' = {s \in DOMAIN segments : s >= m.lo /\ s \notin m.seqnos}
  BY DEF RecvAck, readerVars
<1>2. DOMAIN segments' = {} => delivered = written
  <2> SUFFICES ASSUME DOMAIN segments' = {} PROVE delivered = written
    OBVIOUS
  <2>1. /\ Len(written) \in Nat /\ min \in 0 .. Len(written) /\ written \in Seq(Chunks)
        /\ m.lo \in 0 .. min /\ m.seqnos \subseteq Held
    BY LenProperties DEF IInv, AcksRight, DeliveredRight, Typed
  <2>2. min < Len(written) => min \in Held
    <3> SUFFICES ASSUME min < Len(written) PROVE min \in Held
      OBVIOUS
    <3>1. min \in DOMAIN segments \cup Held
      BY <2>1 DEF IInv, AckedIsHeld, Held
    <3>2. min \in DOMAIN segments => min \in m.seqnos
      BY <1>1, <2>1
    <3> QED BY <2>1, <3>1, <3>2
  <2>3. min \notin Held
    BY <2>1 DEF IInv, DeliveredRight, Held
  <2>4. min = Len(written)
    BY <2>1, <2>2, <2>3
  <2> QED BY <2>1, <2>4, SubSeqFull DEF IInv, DeliveredRight
<1>3. AbstractStep /\ (writer' = "steady" <=> outcome' = "open")
  BY <1>1, <1>2, CheckClosedStep
<1> QED BY <1>3, RecvAckKeeps

\* The other steps of the writer.
LEMMA WriterSteps ==
    ASSUME IInv, \/ \E s \in DOMAIN segments : Rto(s)
                 \/ Retransmit \/ Closing \/ WriterAbort \/ WriterGetsRst
                 \/ \E m \in ackNet : WriterGetsAck(m)
    PROVE  IInv' /\ AbstractStep
<1> USE DEF AbstractStep
<1>1. ASSUME NEW s \in DOMAIN segments, Rto(s)
      PROVE  IInv' /\ AbstractStep
  BY <1>1, QuietStep DEF Rto, readerVars, netVars, IInv, Typed, Abstract!vars
<1>2. CASE Retransmit
  <2>1. PICK s \in lost : lost' = lost \ {s} /\ dataNet' = Send(dataNet, <<s, segments[s]>>)
    BY <1>2 DEF Retransmit
  <2>2. /\ lost' \subseteq DOMAIN segments /\ s \in DOMAIN segments
        /\ dataNet' \subseteq dataNet \cup {<<t, segments[t]>> : t \in DOMAIN segments}
    BY <2>1, SendAdds DEF IInv, Typed
  <2> QED BY <1>2, <2>2, QuietStep DEF Retransmit, readerVars, IInv, Typed, Abstract!vars
<1>3. CASE Closing
  <2>1. /\ writer = "steady" /\ CheckClosed
        /\ UNCHANGED <<written, segments, lost, readerVars, dataNet, ackNet>>
    BY <1>3 DEF Closing, can_write_new
  <2>2. AbstractStep /\ (writer' = "steady" <=> outcome' = "open")
    BY <2>1, AllDelivered, CheckClosedStep DEF readerVars
  <2> QED BY <2>1, <2>2, QuietStep DEF readerVars, IInv, Typed
<1>4. CASE WriterAbort
  <2>1. /\ writer = "steady" /\ writer' = "reset" /\ outcome' = "aborted"
        /\ UNCHANGED <<written, segments, lost, readerVars, dataNet, ackNet>>
    BY <1>4 DEF WriterAbort, WriterReset
  <2>2. Abstract!Abort
    BY <2>1 DEF Abstract!Abort, IInv, Typed, readerVars
  <2> QED BY <2>1, <2>2, QuietStep DEF readerVars, IInv, Typed, Abstract!Next
<1>5. CASE WriterGetsRst
  <2>1. UNCHANGED <<written, segments, lost, readerVars, dataNet, ackNet>>
    BY <1>5 DEF WriterGetsRst
  <2>2. CASE writer = "steady"
    <3>1. writer' = "reset" /\ outcome' = "aborted"
      BY <1>5, <2>2 DEF WriterGetsRst
    <3>2. Abstract!Abort
      BY <2>1, <2>2, <3>1 DEF Abstract!Abort, IInv, Typed, readerVars
    <3> QED BY <2>1, <3>1, <3>2, QuietStep DEF readerVars, IInv, Typed, Abstract!Next
  <2>3. CASE writer # "steady"
    <3>1. writer' = "dead" /\ outcome' = outcome
      BY <1>5, <2>3 DEF WriterGetsRst
    <3> QED BY <2>1, <2>3, <3>1, QuietStep DEF readerVars, IInv, Typed, Abstract!vars
  <2> QED BY <2>2, <2>3
<1>6. ASSUME NEW m \in ackNet, WriterGetsAck(m)
      PROVE  IInv' /\ AbstractStep
  BY <1>6, QuietStep DEF WriterGetsAck, writerVars, readerVars, IInv, Typed, Abstract!vars
<1> QED BY <1>1, <1>2, <1>3, <1>4, <1>5, <1>6

\* The other steps of the reader, the death timers and the losses.
LEMMA ReaderSteps ==
    ASSUME IInv, \/ \E m \in dataNet : ReaderGetsData(m)
                 \/ AckTimer \/ ReaderReset \/ ReaderGetsRst \/ Die \/ Lose
                 \/ UNCHANGED vars
    PROVE  IInv' /\ AbstractStep
<1> USE DEF AbstractStep
<1>1. ASSUME NEW m \in dataNet, ReaderGetsData(m)
      PROVE  IInv' /\ AbstractStep
  BY <1>1, QuietStep DEF ReaderGetsData, writerVars, readerVars, IInv, Typed, Abstract!vars
<1>2. CASE AckTimer
  <2>1. /\ ackNet' \subseteq ackNet \cup {[lo |-> min, seqnos |-> ack_seqnos]}
        /\ ack_seqnos' \subseteq ack_seqnos
    BY <1>2, SendAdds DEF AckTimer
  <2>2. UNCHANGED <<pkts, min, delivered, writerVars, dataNet>>
    BY <1>2 DEF AckTimer
  <2> QED BY <2>1, <2>2, QuietStep DEF writerVars, IInv, Typed, Abstract!vars
<1>3. CASE ReaderReset
  BY <1>3, QuietStep DEF ReaderReset, writerVars, IInv, Typed, Abstract!vars
<1>4. CASE ReaderGetsRst
  BY <1>4, QuietStep DEF ReaderGetsRst, writerVars, IInv, Typed, Abstract!vars
<1>5. CASE Die
  <2>1. writer' = "steady" <=> writer = "steady"
    BY <1>5 DEF Die
  <2>2. UNCHANGED <<written, segments, lost, closing, outcome, pkts, min,
                    ack_seqnos, ackTimer, delivered, netVars>>
    BY <1>5 DEF Die
  <2> QED BY <2>1, <2>2, QuietStep DEF netVars, IInv, Typed, Abstract!vars
<1>6. CASE Lose
  <2>1. /\ dataNet' \subseteq dataNet /\ ackNet' \subseteq ackNet
        /\ UNCHANGED <<writerVars, readerVars>>
    BY <1>6 DEF Lose
  <2> QED BY <2>1, QuietStep DEF writerVars, readerVars, IInv, Typed, Abstract!vars
<1>7. CASE UNCHANGED vars
  BY <1>7, QuietStep DEF vars, writerVars, readerVars, netVars, IInv, Typed, Abstract!vars
<1> QED BY <1>1, <1>2, <1>3, <1>4, <1>5, <1>6, <1>7

-----------------------------------------------------------------------------
\* Every step of the protocol preserves the invariant and is a step of the
\* abstract stream or leaves it alone.
LEMMA NextStep == IInv /\ [Next]_vars => IInv' /\ [Abstract!Next]_(Abstract!vars)
<1> SUFFICES ASSUME IInv, [Next]_vars
             PROVE  IInv' /\ AbstractStep
  BY DEF AbstractStep
<1>1. CASE NewWrite
  <2>1. Stream[Len(written) + 1] \in Chunks
    <3>1. Len(written) \in Nat /\ Len(written) + 1 \in 1 .. Len(Stream)
      BY <1>1, LenProperties, RelStreamAssumption DEF NewWrite, MaxWrites, IInv, Typed
    <3> QED BY <3>1, ElementOfSeq, RelStreamAssumption
  <2> QED BY <1>1, <2>1, NewWriteStep DEF AbstractStep, Abstract!Next
<1>2. ASSUME NEW m \in dataNet, RecvData(m)
      PROVE  IInv' /\ AbstractStep
  BY <1>2, RecvDataStep DEF AbstractStep, Abstract!Next
<1>3. ASSUME NEW m \in ackNet, RecvAck(m)
      PROVE  IInv' /\ AbstractStep
  BY <1>3, RecvAckStep
<1> QED BY <1>1, <1>2, <1>3, WriterSteps, ReaderSteps DEF Next, WriterNext, ReaderNext

\* The inductive invariant holds in every reachable state of a stream.
THEOREM RelStreamInvariant == Spec => []IInv
BY InitIInv, NextStep, PTL DEF Spec

\* No ack, however late, makes the writer forget a segment the reader does
\* not hold, for every stream, window and network.
THEOREM RelStreamAckedIsHeld == Spec => []AckedIsHeld
<1>1. IInv => AckedIsHeld
  BY DEF IInv
<1> QED BY <1>1, RelStreamInvariant, PTL

\* The protocol implements the abstract stream: chunks in order, once each,
\* and all of them before a graceful close.
THEOREM RelStreamRefines == Spec => ImplementsReliableStream
<1>1. Init => Abstract!Init
  BY DEF Init, Abstract!Init
<1> QED BY <1>1, NextStep, RelStreamInvariant, PTL
        DEF Spec, ImplementsReliableStream, Abstract!Spec
=============================================================================
