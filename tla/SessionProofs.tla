--------------------------- MODULE SessionProofs ----------------------------
(***************************************************************************)
(* For every burst size, window, cache size and number of frames: runs are *)
(* contiguous and bounded, the replay filter is exact, no frame is         *)
(* delivered twice, and what is delivered is what was sent: a session      *)
(* implements Datagrams.                                                   *)
(***************************************************************************)
EXTENDS Session, WellFoundedInduction, TLAPS

\* What packets carry: numbers and payloads.
NetOK ==
    \A p \in net :
        /\ p.kind = "data" => p.no \in Nat /\ p.body \in Payloads
        /\ p.kind = "parity" => /\ p.first \in Nat /\ p.count \in Nat
                               /\ p.run \in [1 .. p.count -> Payloads]

SendInv ==
    /\ frame_no \in Nat
    /\ unfecked \in Seq([no : Nat, body : Payloads])
    /\ BurstBound /\ RunContiguous /\ NetOK

FilterInv ==
    /\ top_seqno \in Nat /\ bottom_seqno \in Nat
    /\ got \in [Frames -> Seq(Payloads)]
    /\ AtMostOnce /\ FilterExact

-----------------------------------------------------------------------------
(* The highest of a bounded set of natural numbers exists. *)

\* A nonempty set of natural numbers has a least element.
LEMMA LeastExists ==
    ASSUME NEW T, T \subseteq Nat, T # {}
    PROVE  \E x \in T : \A y \in T : x <= y
<1> DEFINE R == OpToRel(<, Nat)
<1>1. \A x, y \in Nat : y < x => <<y, x>> \in R
  BY Zenon DEF OpToRel
<1>2. IsWellFoundedOn(R, Nat)
  BY NatLessThanWellFounded, Zenon
<1> HIDE DEF R
<1>3. PICK x \in T : \A y \in T : ~(<<y, x>> \in R)
  BY <1>2, WFMin
<1>4. \A y \in T : x <= y
  <2> TAKE y \in T
  <2>1. x \in Nat /\ y \in Nat
    OBVIOUS
  <2>2. ~(y < x)
    BY <1>1, <1>3, <2>1, Zenon
  <2> QED
    BY <2>1, <2>2
<1> QED
  BY <1>4

\* Highest returns a natural number for a set that has a bound.
LEMMA HighestIn ==
    ASSUME NEW b \in Nat, NEW S, S \subseteq 0 .. b
    PROVE  Highest(S) \in Nat
<1>1. CASE S = {}
  BY <1>1 DEF Highest
<1>2. CASE S # {}
  <2> DEFINE T == {b - n : n \in S}
  <2>1. T \subseteq Nat /\ T # {}
    <3>1. \A n \in S : b - n \in Nat
      OBVIOUS
    <3> QED
      BY <1>2, <3>1
  <2>2. \A n \in S : b - n \in T
    OBVIOUS
  <2>3. \A x \in T : \E n \in S : x = b - n
    OBVIOUS
  <2> HIDE DEF T
  <2>4. PICK x \in T : \A y \in T : x <= y
    BY <2>1, LeastExists
  <2>5. PICK m \in S : x = b - m
    BY <2>3
  <2>6. \A n \in S : n <= m
    <3> TAKE n \in S
    <3>1. b - m <= b - n
      BY <2>2, <2>4, <2>5
    <3> QED
      BY <3>1
  <2>7. Highest(S) \in S
    BY <1>2, <2>5, <2>6, Zenon DEF Highest
  <2>8. \A n \in S : n \in Nat
    OBVIOUS
  <2> QED
    BY <2>7, <2>8, Zenon
<1> QED
  BY <1>1, <1>2

-----------------------------------------------------------------------------
(* Steps of the replay filter *)

\* What a step does to got, whatever the payloads are.
Counted(nos) ==
    /\ got' \in [Frames -> Seq(Payloads)]
    /\ \A n \in Frames : IF n \in Accepted(nos) THEN Len(got'[n]) = Len(got[n]) + 1
                                               ELSE got'[n] = got[n]

\* ReplayFilter::add keeps the filter exact and lets nothing through twice:
\* what it accepts is above the bottom and not seen, so never delivered.
LEMMA FilterStep ==
    ASSUME FilterInv, SessionAssumption, NEW b \in Nat, NEW nos, nos \subseteq 0 .. b,
           FilterAdd(nos), Counted(nos)
    PROVE  FilterInv'
<1> DEFINE high == Highest(Accepted(nos))
<1>1. Accepted(nos) \subseteq 0 .. b
  BY DEF Accepted
<1>2. high \in Nat
  BY <1>1, HighestIn
<1>3. top_seqno' = Larger(top_seqno, high) /\ bottom_seqno' = Larger(bottom_seqno, top_seqno' - Window)
  BY DEF FilterAdd
<1> HIDE DEF high
<1>4. top_seqno' \in Nat /\ top_seqno' >= top_seqno
  BY <1>2, <1>3 DEF Larger, FilterInv
<1>5. bottom_seqno' \in Nat /\ bottom_seqno' = Larger(0, top_seqno' - Window) /\ bottom_seqno' >= bottom_seqno
  BY <1>3, <1>4 DEF Larger, FilterInv, FilterExact, SessionAssumption
<1>6. got' \in [Frames -> Seq(Payloads)]
  BY DEF Counted
<1>7. ASSUME NEW n \in Frames, n \in Accepted(nos)
      PROVE  /\ Len(got'[n]) <= 1 /\ got'[n] # <<>>
             /\ n >= bottom_seqno' => n \in seen_seqno'
  <2>1. n >= bottom_seqno /\ n \notin seen_seqno
    BY <1>7 DEF Accepted
  <2>2. got[n] = <<>>
    BY <2>1 DEF FilterInv, FilterExact
  <2>3. Len(got'[n]) = Len(got[n]) + 1
    BY <1>7 DEF Counted
  <2>4. Len(got'[n]) = 1
    BY <2>2, <2>3
  <2>5. n >= bottom_seqno' => n \in seen_seqno'
    BY <1>7, Zenon DEF FilterAdd
  <2> QED
    BY <2>4, <2>5
<1>8. ASSUME NEW n \in Frames, n \notin Accepted(nos)
      PROVE  /\ Len(got'[n]) <= 1
             /\ n >= bottom_seqno' => (n \in seen_seqno' <=> got'[n] # <<>>)
  <2>1. got'[n] = got[n]
    BY <1>8 DEF Counted
  <2>2. n >= bottom_seqno' => n >= bottom_seqno
    BY <1>5 DEF Frames, FilterInv, SessionAssumption
  <2>3. n >= bottom_seqno' => (n \in seen_seqno' <=> n \in seen_seqno)
    BY <1>8, Zenon DEF FilterAdd
  <2>4. n >= bottom_seqno => (n \in seen_seqno <=> got[n] # <<>>)
    BY Zenon DEF FilterInv, FilterExact
  <2>5. Len(got[n]) <= 1
    BY DEF FilterInv, AtMostOnce
  <2> QED
    BY <2>1, <2>2, <2>3, <2>4, <2>5, Zenon
<1>9. AtMostOnce'
  BY <1>7, <1>8, Zenon DEF AtMostOnce, Frames
<1>10. FilterExact'
  BY <1>5, <1>7, <1>8, Zenon DEF FilterExact, Larger, Frames
<1> QED
  BY <1>4, <1>5, <1>6, <1>9, <1>10, Zenon DEF FilterInv, Frames

-----------------------------------------------------------------------------
(* The inductive invariant *)

IInv == SendInv /\ FilterInv

\* A new session satisfies the inductive invariant.
LEMMA InitIInv == ASSUME Init, SessionAssumption PROVE IInv
<1>1. SendInv
  BY DEF Init, SendInv, BurstBound, RunContiguous, NetOK, SessionAssumption
<1>2. AtMostOnce /\ got \in [Frames -> Seq(Payloads)]
  BY DEF Init, AtMostOnce
<1>3. FilterExact
  BY DEF Init, FilterExact, Larger, SessionAssumption
<1>4. FilterInv
  BY <1>2, <1>3 DEF FilterInv, Init
<1> QED
  BY <1>1, <1>4 DEF IInv

\* The filter does not see what the sender does.
LEMMA FilterUntouched ==
    ASSUME FilterInv, UNCHANGED <<filter, got>> PROVE FilterInv'
BY DEF FilterInv, AtMostOnce, FilterExact, filter, Frames, Larger

\* Nor does the sender see what the receiver does.
LEMMA SenderUntouched ==
    ASSUME SendInv, UNCHANGED sender PROVE SendInv'
BY DEF SendInv, BurstBound, RunContiguous, NetOK, sender

\* A payload is taken only while the run has room, and gets the next number.
LEMMA NewPayloadKeeps ==
    ASSUME IInv, SessionAssumption, NewPayload PROVE IInv'
<1>1. FilterInv'
  BY FilterUntouched DEF IInv, NewPayload
<1>2. PICK b \in Payloads :
        /\ net' = net \cup {[kind |-> "data", no |-> frame_no, body |-> b]}
        /\ unfecked' = Append(unfecked, [no |-> frame_no, body |-> b])
  BY DEF NewPayload
<1>3. frame_no \in Nat /\ frame_no' = frame_no + 1
  BY DEF NewPayload, IInv, SendInv
<1>4. unfecked \in Seq([no : Nat, body : Payloads])
  BY DEF IInv, SendInv
<1>5. unfecked' \in Seq([no : Nat, body : Payloads])
  BY <1>2, <1>3, <1>4
<1>6. BurstBound'
  BY <1>2, <1>4 DEF BurstBound, NewPayload, BurstFull, SessionAssumption
<1>7. RunContiguous'
  <2>1. Len(unfecked') = Len(unfecked) + 1 /\ DOMAIN unfecked' = 1 .. Len(unfecked) + 1
    BY <1>2, <1>4
  <2>2. ASSUME NEW j \in 1 .. Len(unfecked)
        PROVE  unfecked'[j].no = frame_no - Len(unfecked) + j - 1
    <3>1. unfecked'[j] = unfecked[j] /\ j \in DOMAIN unfecked
      BY <1>2, <1>4
    <3> QED
      BY <3>1 DEF IInv, SendInv, RunContiguous
  <2>3. unfecked'[Len(unfecked) + 1].no = frame_no
    BY <1>2, <1>4
  <2>4. Len(unfecked) \in Nat
    BY <1>4
  <2>5. ASSUME NEW j \in 1 .. Len(unfecked) + 1
        PROVE  unfecked'[j].no = frame_no' - Len(unfecked') + j - 1
    <3>1. CASE j = Len(unfecked) + 1
      BY <1>3, <2>1, <2>3, <2>4, <3>1
    <3>2. CASE j # Len(unfecked) + 1
      BY <1>3, <2>1, <2>2, <2>4, <3>2
    <3> QED
      BY <3>1, <3>2
  <2> QED
    BY <2>1, <2>5 DEF RunContiguous
<1>8. NetOK'
  BY <1>2, <1>3 DEF NetOK, IInv, SendInv
<1> QED
  BY <1>1, <1>3, <1>5, <1>6, <1>7, <1>8 DEF IInv, SendInv

\* The elements of a sequence over S are in S.
LEMMA ElementsOf ==
    ASSUME NEW S, NEW s \in Seq(S) PROVE \A j \in 1 .. Len(s) : s[j] \in S
OBVIOUS

\* A run that was dealt with starts anew; numbers go on.
LEMMA FecTimeoutKeeps ==
    ASSUME IInv, SessionAssumption, FecTimeout PROVE IInv'
<1>1. FilterInv'
  BY FilterUntouched DEF IInv, FecTimeout
<1>2. PICK parity \in RepairLens : net' = net \cup ParityFrames(parity)
  BY DEF FecTimeout
<1>3. unfecked' = <<>> /\ frame_no' = frame_no /\ frame_no \in Nat
  BY DEF FecTimeout, IInv, SendInv
<1>4. BurstBound' /\ RunContiguous'
  BY <1>3 DEF BurstBound, RunContiguous, SessionAssumption
<1>5. unfecked \in Seq([no : Nat, body : Payloads]) /\ unfecked # <<>>
  BY DEF FecTimeout, IInv, SendInv
<1>6. unfecked[1].no \in Nat /\ Len(unfecked) \in Nat
      /\ [j \in 1 .. Len(unfecked) |-> unfecked[j].body] \in [1 .. Len(unfecked) -> Payloads]
  <2>1. Len(unfecked) \in Nat /\ 1 \in 1 .. Len(unfecked)
    BY <1>5
  <2>2. \A j \in 1 .. Len(unfecked) : unfecked[j] \in [no : Nat, body : Payloads]
    BY <1>5, ElementsOf, Zenon
  <2>3. \A j \in 1 .. Len(unfecked) : unfecked[j].no \in Nat /\ unfecked[j].body \in Payloads
    BY <2>2
  <2> QED
    BY <2>1, <2>3
<1>7. \A p \in ParityFrames(parity) :
        /\ p.kind = "parity" /\ p.first \in Nat /\ p.count \in Nat
        /\ p.run \in [1 .. p.count -> Payloads]
  BY <1>6 DEF ParityFrames
<1>8. NetOK'
  BY <1>2, <1>7 DEF NetOK, IInv, SendInv
<1> QED
  BY <1>1, <1>3, <1>4, <1>8 DEF IInv, SendInv

\* A data frame goes through the filter alone.
LEMMA RecvDataKeeps ==
    ASSUME IInv, SessionAssumption, NEW p \in net, RecvData(p) PROVE IInv'
<1>1. SendInv'
  BY SenderUntouched DEF IInv, RecvData
<1>2. p.no \in Nat /\ p.body \in Payloads /\ FilterAdd({p.no})
  BY DEF RecvData, IInv, SendInv, NetOK
<1> DEFINE body == [n \in {p.no} |-> p.body]
<1>3. got' = [n \in Frames |-> IF n \in Accepted({p.no}) THEN Append(got[n], body[n]) ELSE got[n]]
  BY Zenon DEF RecvData, Deliver
<1>3b. \A n \in {p.no} : body[n] \in Payloads
  BY <1>2
<1> HIDE DEF body
<1>4. Counted({p.no})
  BY <1>3, <1>3b DEF Counted, IInv, FilterInv, Accepted
<1>5. FilterInv'
  BY <1>2, <1>4, FilterStep DEF IInv
<1> QED
  BY <1>1, <1>5 DEF IInv

\* What a parity frame recovers goes through the filter too.
LEMMA RecvParityKeeps ==
    ASSUME IInv, SessionAssumption, NEW p \in net, RecvParity(p) PROVE IInv'
<1>1. SendInv'
  BY SenderUntouched DEF IInv, RecvParity
<1>2. p.first \in Nat /\ p.count \in Nat /\ p.run \in [1 .. p.count -> Payloads]
  BY DEF RecvParity, IInv, SendInv, NetOK
<1>3. CASE EntryOf(Key(p)).done
  <2>1. UNCHANGED <<filter, got>>
    BY <1>3 DEF RecvParity
  <2> QED
    BY <1>1, <2>1, FilterUntouched DEF IInv
<1>4. CASE ~EntryOf(Key(p)).done
  <2> DEFINE body == [n \in RunOf(Key(p)) |-> p.run[n - p.first + 1]]
  <2>1. PICK nos : /\ nos \subseteq RunOf(Key(p)) /\ FilterAdd(nos)
                   /\ got' = [n \in Frames |-> IF n \in Accepted(nos)
                                THEN Append(got[n], body[n]) ELSE got[n]]
    BY <1>4, Zenon DEF RecvParity, Deliver, Recovered
  <2>2. RunOf(Key(p)) = p.first .. p.first + p.count - 1
    BY DEF RunOf, Key
  <2>3. nos \subseteq 0 .. p.first + p.count
    BY <1>2, <2>1, <2>2
  <2>4. \A n \in nos : body[n] \in Payloads
    <3>1. \A n \in nos : n \in p.first .. p.first + p.count - 1
      BY <2>1, <2>2
    <3>2. ASSUME NEW n \in nos PROVE p.run[n - p.first + 1] \in Payloads
      <4>1. n \in p.first .. p.first + p.count - 1
        BY <3>1
      <4>2. n - p.first + 1 \in 1 .. p.count
        BY <1>2, <4>1
      <4> QED
        BY <1>2, <4>2
    <3>3. \A n \in nos : body[n] = p.run[n - p.first + 1]
      BY <2>1
    <3> QED
      BY <3>2, <3>3
  <2> HIDE DEF body
  <2>5. Counted(nos)
    BY <2>1, <2>4 DEF Counted, IInv, FilterInv, Accepted
  <2>6. FilterInv'
    <3>1. p.first + p.count \in Nat
      BY <1>2
    <3>2. FilterInv /\ FilterAdd(nos)
      BY <2>1 DEF IInv
    <3> HIDE DEF FilterInv, FilterAdd, Counted
    <3> QED
      BY <2>3, <2>5, <3>1, <3>2, FilterStep, Zenon
  <2> QED
    BY <1>1, <2>6 DEF IInv
<1> QED
  BY <1>3, <1>4

-----------------------------------------------------------------------------
(* Theorems *)

\* The strengthened invariant holds in every state of every behaviour.
THEOREM SessionInvariant == Spec => []IInv
<1> USE SessionAssumption
<1>1. Init => IInv
  BY InitIInv
<1>2. IInv /\ [Next]_vars => IInv'
  <2>1. ASSUME IInv, UNCHANGED vars PROVE IInv'
    BY <2>1, FilterUntouched, SenderUntouched DEF IInv, vars
  <2> QED
    BY <2>1, NewPayloadKeeps, FecTimeoutKeeps, RecvDataKeeps, RecvParityKeeps DEF Next
<1> QED
  BY <1>1, <1>2, PTL DEF Spec

\* A run never exceeds BURST_SIZE: the assertion in front of the encoder of
\* session_send_loop_nextgen cannot fail.
THEOREM SessionBurstBound == Spec => []BurstBound
<1>1. IInv => BurstBound
  BY DEF IInv, SendInv
<1> QED
  BY <1>1, SessionInvariant, PTL

\* A run is always the last frames numbered, without a gap, so that its
\* first number and its length name it.
THEOREM SessionRunContiguous == Spec => []RunContiguous
<1>1. IInv => RunContiguous
  BY DEF IInv, SendInv
<1> QED
  BY <1>1, SessionInvariant, PTL

\* No frame is handed to the application twice, received or recovered, for
\* any window and any duplication and order of packets.
THEOREM SessionAtMostOnce == Spec => []AtMostOnce
<1>1. IInv => AtMostOnce
  BY DEF IInv, FilterInv
<1> QED
  BY <1>1, SessionInvariant, PTL

\* ReplayFilter rejects nothing but repeats and what left its window.
THEOREM SessionFilterExact == Spec => []FilterExact
<1>1. IInv => FilterExact
  BY DEF IInv, FilterInv
<1> QED
  BY <1>1, SessionInvariant, PTL

-----------------------------------------------------------------------------
(* What is delivered *)

Data(n, b) == [kind |-> "data", no |-> n, body |-> b]

\* A parity frame carries, for each number of its run, the payload that was
\* sent under it.
ParityIsSent(p) == \A n \in RunOf(Key(p)) : Data(n, p.run[n - p.first + 1]) \in net

Sent ==
    /\ \A p \in net : /\ p.kind = "data" => p = Data(p.no, p.body) /\ p.no < frame_no
                      /\ p.kind = "parity" => ParityIsSent(p)
    /\ \A j \in 1 .. Len(unfecked) : Data(unfecked[j].no, unfecked[j].body) \in net
    /\ DeliveredIsSent

\* A frame is on the way as soon as it is part of a run.
LEMMA NewPayloadSent ==
    ASSUME IInv, Sent, NewPayload
    PROVE  Sent'
<1>1. PICK b \in Payloads :
        /\ net' = net \cup {Data(frame_no, b)}
        /\ unfecked' = Append(unfecked, [no |-> frame_no, body |-> b])
  BY Zenon DEF NewPayload, Data
<1>2. /\ Data(frame_no, b).kind = "data" /\ Data(frame_no, b).no = frame_no
      /\ Data(frame_no, b) = Data(Data(frame_no, b).no, Data(frame_no, b).body)
  BY DEF Data
<1>0. frame_no \in Nat /\ frame_no' = frame_no + 1
  BY DEF NewPayload, IInv, SendInv
<1>3. ASSUME NEW p \in net'
      PROVE  /\ p.kind = "data" => p = Data(p.no, p.body) /\ p.no < frame_no'
             /\ p.kind = "parity" => ParityIsSent(p)'
  <2>1. CASE p \in net
    <3>1. p.kind = "data" => p.no \in Nat /\ p.no < frame_no /\ p = Data(p.no, p.body)
      BY <2>1 DEF Sent, IInv, SendInv, NetOK
    <3>2. p.kind = "parity" => ParityIsSent(p)'
      BY <1>1, <2>1 DEF Sent, ParityIsSent
    <3> QED  BY <1>0, <3>1, <3>2
  <2>2. CASE p = Data(frame_no, b)
    BY <1>0, <1>2, <2>2
  <2> QED  BY <1>1, <2>1, <2>2
<1>4. ASSUME NEW j \in 1 .. Len(unfecked')
      PROVE  Data(unfecked'[j].no, unfecked'[j].body) \in net'
  <2>1. Len(unfecked) \in Nat /\ Len(unfecked') = Len(unfecked) + 1
    BY <1>1 DEF IInv, SendInv
  <2>2. CASE j = Len(unfecked) + 1
    <3>1. unfecked'[j].no = frame_no /\ unfecked'[j].body = b
      BY <1>1, <2>2 DEF IInv, SendInv
    <3> QED  BY <1>1, <3>1
  <2>3. CASE j # Len(unfecked) + 1
    <3>1. j \in 1 .. Len(unfecked) /\ unfecked'[j] = unfecked[j]
      BY <1>1, <2>1, <2>3 DEF IInv, SendInv
    <3> QED  BY <1>1, <3>1 DEF Sent
  <2> QED  BY <2>2, <2>3
<1>5. DeliveredIsSent'
  <2>1. got' = got /\ net \subseteq net'
    BY <1>1 DEF NewPayload
  <2> QED  BY <2>1 DEF Sent, DeliveredIsSent
<1> QED  BY <1>3, <1>4, <1>5 DEF Sent

\* The run is contiguous, so its first number and its length tell which
\* payload belongs to which number.
LEMMA FecTimeoutSent ==
    ASSUME IInv, Sent, FecTimeout
    PROVE  Sent'
<1>1. PICK parity \in RepairLens : net' = net \cup ParityFrames(parity)
  BY DEF FecTimeout
<1>2. unfecked' = <<>> /\ got' = got /\ frame_no' = frame_no
  BY DEF FecTimeout
<1>3. /\ Len(unfecked) \in Nat \ {0} /\ DOMAIN unfecked = 1 .. Len(unfecked)
      /\ frame_no \in Nat
  BY DEF FecTimeout, IInv, SendInv
<1>4. \A j \in 1 .. Len(unfecked) : unfecked[j].no = frame_no - Len(unfecked) + j - 1
  BY <1>3 DEF IInv, SendInv, RunContiguous
<1>5. ASSUME NEW p \in ParityFrames(parity)
      PROVE  p.kind = "parity" /\ ParityIsSent(p)'
  <2>1. /\ p.kind = "parity" /\ p.first = unfecked[1].no /\ p.count = Len(unfecked)
        /\ p.run = [j \in 1 .. Len(unfecked) |-> unfecked[j].body]
    BY <1>5 DEF ParityFrames
  <2>2. p.first = frame_no - Len(unfecked) /\ RunOf(Key(p)) = p.first .. p.first + Len(unfecked) - 1
    BY <1>3, <1>4, <2>1 DEF RunOf, Key
  <2>3. ASSUME NEW n \in RunOf(Key(p))  PROVE Data(n, p.run[n - p.first + 1]) \in net
    <3>1. PICK j : j = n - p.first + 1
      OBVIOUS
    <3>2. j \in 1 .. Len(unfecked) /\ n = frame_no - Len(unfecked) + j - 1
      BY <1>3, <2>2, <3>1
    <3>3. unfecked[j].no = n /\ p.run[j] = unfecked[j].body
      BY <1>4, <2>1, <3>2
    <3> QED  BY <3>1, <3>2, <3>3 DEF Sent
  <2> QED  BY <1>1, <2>1, <2>3 DEF ParityIsSent
<1>6. ASSUME NEW p \in net'
      PROVE  /\ p.kind = "data" => p = Data(p.no, p.body) /\ p.no < frame_no'
             /\ p.kind = "parity" => ParityIsSent(p)'
  <2>1. CASE p \in net
    BY <1>1, <1>2, <2>1 DEF Sent, ParityIsSent
  <2>2. CASE p \in ParityFrames(parity)
    BY <1>5, <2>2
  <2> QED  BY <1>1, <2>1, <2>2
<1>7. DeliveredIsSent'
  BY <1>1, <1>2 DEF Sent, DeliveredIsSent
<1> QED  BY <1>2, <1>6, <1>7 DEF Sent

\* A step of the receiver hands out the payloads of some numbers, which were
\* sent under them.
Hands(nos, body) ==
    /\ UNCHANGED sender
    /\ \A n \in nos : Data(n, body[n]) \in net /\ body[n] \in Payloads
    /\ got' = [n \in Frames |-> IF n \in Accepted(nos)
                                THEN Append(got[n], body[n]) ELSE got[n]]

LEMMA RecvDataHands ==
    ASSUME IInv, Sent, NEW p \in net, RecvData(p)
    PROVE  \E nos, body : Hands(nos, body)
<1> DEFINE nos == {p.no}
           body == [n \in nos |-> p.body]
<1>1. /\ got' = [n \in Frames |-> IF n \in Accepted(nos) THEN Append(got[n], body[n]) ELSE got[n]]
      /\ UNCHANGED sender /\ p.kind = "data"
  BY Zenon DEF RecvData, Deliver
<1>2. p = Data(p.no, p.body) /\ p.body \in Payloads
  BY <1>1 DEF Sent, IInv, SendInv, NetOK
<1>3. \A n \in nos : body[n] = p.body /\ n = p.no
  OBVIOUS
<1>4. \A n \in nos : Data(n, body[n]) \in net /\ body[n] \in Payloads
  BY <1>2, <1>3
<1> HIDE DEF nos, body
<1> QED  BY <1>1, <1>4, Zenon DEF Hands

LEMMA RecvParityHands ==
    ASSUME IInv, Sent, NEW p \in net, RecvParity(p)
    PROVE  \E nos, body : Hands(nos, body)
<1> DEFINE body == [n \in RunOf(Key(p)) |-> p.run[n - p.first + 1]]
<1>1. UNCHANGED sender /\ p.kind = "parity"
  BY Zenon DEF RecvParity
<1>2. CASE EntryOf(Key(p)).done
  <2>1. got' = got /\ got \in [Frames -> Seq(Payloads)]
    BY <1>2 DEF RecvParity, IInv, FilterInv
  <2>2. Hands({}, body)
    <3> HIDE DEF body
    <3> QED  BY <1>1, <2>1 DEF Hands, Accepted
  <2> QED  BY <2>2
<1>3. CASE ~EntryOf(Key(p)).done
  <2>1. PICK nos : /\ nos \subseteq RunOf(Key(p))
                   /\ got' = [n \in Frames |-> IF n \in Accepted(nos)
                                THEN Append(got[n], body[n]) ELSE got[n]]
    BY <1>3, Zenon DEF RecvParity, Deliver, Recovered
  <2>2. \A n \in nos : body[n] = p.run[n - p.first + 1]
    BY <2>1
  <2>3. \A n \in nos : Data(n, p.run[n - p.first + 1]) \in net
    BY <1>1, <2>1 DEF Sent, ParityIsSent
  <2>4. \A n \in nos : Data(n, body[n]) \in net
    BY <2>2, <2>3, Zenon
  <2>5. ASSUME NEW n \in nos  PROVE body[n] \in Payloads
    <3>1. Data(n, body[n]).kind = "data" /\ Data(n, body[n]).body = body[n]
      BY DEF Data
    <3> HIDE DEF body
    <3> QED  BY <2>4, <3>1 DEF IInv, SendInv, NetOK
  <2> HIDE DEF body
  <2> QED  BY <1>1, <2>1, <2>4, <2>5, Zenon DEF Hands
<1> QED  BY <1>2, <1>3

\* What is handed out has not been before: the filter accepted it.
LEMMA HandsOnce ==
    ASSUME IInv, NEW nos, NEW body, Hands(nos, body), NEW n \in Frames
    PROVE  \/ got'[n] = got[n]
           \/ /\ got[n] = <<>> /\ got'[n] = <<body[n]>>
              /\ Data(n, body[n]) \in net /\ body[n] \in Payloads
<1>1. CASE n \in Accepted(nos)
  <2>1. n \in nos /\ n >= bottom_seqno /\ n \notin seen_seqno
    BY <1>1 DEF Accepted
  <2>2. got[n] = <<>>
    BY <2>1, Zenon DEF IInv, FilterInv, FilterExact
  <2>3. got'[n] = Append(got[n], body[n])
    BY <1>1 DEF Hands
  <2>4. got'[n] = <<body[n]>>
    BY <2>2, <2>3
  <2> QED  BY <2>1, <2>2, <2>4, Zenon DEF Hands
<1>2. CASE n \notin Accepted(nos)
  BY <1>2 DEF Hands
<1> QED  BY <1>1, <1>2

LEMMA HandsSent ==
    ASSUME IInv, Sent, NEW nos, NEW body, Hands(nos, body)
    PROVE  Sent'
<1>1. net' = net /\ unfecked' = unfecked /\ frame_no' = frame_no
  BY DEF Hands, sender
<1>2. ASSUME NEW n \in Frames, NEW j \in DOMAIN got'[n]
      PROVE  Data(n, got'[n][j]) \in net
  <2>1. CASE got'[n] = got[n]
    BY <2>1 DEF Sent, DeliveredIsSent, Data
  <2>2. CASE got'[n] = <<body[n]>> /\ Data(n, body[n]) \in net
    <3>1. got'[n][j] = body[n]
      BY <2>2
    <3> QED  BY <2>2, <3>1
  <2> QED  BY <2>1, <2>2, HandsOnce
<1>3. DeliveredIsSent'
  BY <1>1, <1>2 DEF DeliveredIsSent, Data
<1> QED  BY <1>1, <1>3 DEF Sent, ParityIsSent

\* The invariant of what is sent and delivered, in every reachable state.
THEOREM SessionSent == Spec => []Sent
<1>1. Init => Sent
  BY DEF Init, Sent, DeliveredIsSent
<1>2. IInv /\ Sent /\ [Next]_vars => Sent'
  <2>1. ASSUME Sent, UNCHANGED vars  PROVE Sent'
    BY <2>1 DEF vars, sender, Sent, ParityIsSent, DeliveredIsSent
  <2>2. ASSUME IInv, Sent, NEW p \in net, RecvData(p) \/ RecvParity(p)  PROVE Sent'
    BY <2>2, RecvDataHands, RecvParityHands, HandsSent
  <2> QED  BY <2>1, <2>2, NewPayloadSent, FecTimeoutSent DEF Next
<1> QED  BY <1>1, <1>2, SessionInvariant, PTL DEF Spec

\* What the application is handed under a frame number, received or decoded
\* from parity, is the payload sent under it, for every burst size, amount
\* of parity and cache size.
THEOREM SessionDeliveredIsSent == Spec => []DeliveredIsSent
<1>1. Sent => DeliveredIsSent
  BY DEF Sent
<1> QED  BY <1>1, SessionSent, PTL

-----------------------------------------------------------------------------
(* The session as a channel of datagrams *)

LEMMA DataSentIs ==
    ASSUME NEW n, NEW b
    PROVE  [no |-> n, body |-> b] \in DataSent
             <=> \E p \in net : p.kind = "data" /\ p.no = n /\ p.body = b
BY DEF DataSent

\* A payload gets a number that no other has.
LEMMA NewPayloadIsSend ==
    ASSUME IInv, Sent, NewPayload
    PROVE  \E n \in Frames, b \in Payloads : Abstract!Send(n, b)
<1>1. PICK b \in Payloads : net' = net \cup {Data(frame_no, b)}
  BY Zenon DEF NewPayload, Data
<1>2. frame_no \in Frames /\ got' = got
  BY SessionAssumption DEF NewPayload, IInv, SendInv, Frames
<1>3. Data(frame_no, b).kind = "data" /\ Data(frame_no, b).no = frame_no
      /\ Data(frame_no, b).body = b
  BY DEF Data
<1>4. DataSent' = DataSent \cup {[no |-> frame_no, body |-> b]}
  BY <1>1, <1>3 DEF DataSent
<1>5. \A m \in DataSent : m.no # frame_no
  <2>1. \A p \in net : p.kind = "data" => p.no \in Nat /\ p.no < frame_no
    BY DEF Sent, IInv, SendInv, NetOK
  <2>2. frame_no \in Nat
    BY DEF IInv, SendInv
  <2> QED  BY <2>1, <2>2 DEF DataSent
<1> QED  BY <1>2, <1>4, <1>5, Zenon DEF Abstract!Send

\* Parity frames are nothing new.
LEMMA FecTimeoutIsQuiet ==
    ASSUME FecTimeout
    PROVE  DataSent' = DataSent /\ got' = got
<1>1. PICK parity \in RepairLens : net' = net \cup ParityFrames(parity)
  BY DEF FecTimeout
<1>2. \A p \in ParityFrames(parity) : p.kind = "parity"
  BY DEF ParityFrames
<1>3. DataSent' = DataSent
  BY <1>1, <1>2 DEF DataSent
<1> QED  BY <1>3 DEF FecTimeout

LEMMA HandsIsDeliver ==
    ASSUME IInv, IInv', NEW nos, NEW body, Hands(nos, body)
    PROVE  Abstract!Deliver
<1>1. got' \in [Frames -> Seq(Payloads)]
  BY DEF IInv, FilterInv, Frames
<1>2. DataSent' = DataSent
  BY DEF Hands, sender, DataSent
<1>3. ASSUME NEW n \in Frames
      PROVE  got'[n] = got[n] \/ \E m \in DataSent : m.no = n /\ Abstract!Arrives(m)
  <2> DEFINE m == [no |-> n, body |-> body[n]]
  <2>1. CASE Data(n, body[n]) \in net /\ got[n] = <<>> /\ got'[n] = <<body[n]>>
    <3>1. m.no = n /\ m.body = body[n]
      OBVIOUS
    <3>2. m \in DataSent
      <4>1. Data(n, body[n]).kind = "data" /\ Data(n, body[n]).no = n
            /\ Data(n, body[n]).body = body[n]
        BY DEF Data
      <4> QED  BY <2>1, <4>1, DataSentIs
    <3> HIDE DEF m
    <3> QED  BY <2>1, <3>1, <3>2 DEF Abstract!Arrives
  <2> QED  BY <2>1, HandsOnce
<1> QED  BY <1>1, <1>2, <1>3, Zenon DEF Abstract!Deliver

\* For every window, burst, cache and amount of parity a session is a
\* channel that numbers datagrams apart and hands each over at most once and
\* unchanged, whatever the network repeats, reorders or loses.
THEOREM SessionRefines == Spec => ImplementsDatagrams
<1>1. Init => Abstract!Init
  BY DEF Init, Abstract!Init, DataSent
<1>2. IInv /\ IInv' /\ Sent /\ [Next]_vars => [Abstract!Next]_(Abstract!vars)
  <2> SUFFICES ASSUME IInv, IInv', Sent, [Next]_vars
               PROVE  [Abstract!Next]_(Abstract!vars)
    OBVIOUS
  <2>1. CASE UNCHANGED vars
    BY <2>1 DEF vars, sender, Abstract!vars, DataSent
  <2>2. CASE NewPayload
    BY <2>2, NewPayloadIsSend DEF Abstract!Next
  <2>3. CASE FecTimeout
    BY <2>3, FecTimeoutIsQuiet DEF Abstract!vars
  <2>4. ASSUME NEW p \in net, RecvData(p) \/ RecvParity(p)
        PROVE  Abstract!Deliver
    BY <2>4, RecvDataHands, RecvParityHands, HandsIsDeliver
  <2> QED  BY <2>1, <2>2, <2>3, <2>4 DEF Next, Abstract!Next
<1> QED  BY <1>1, <1>2, SessionInvariant, SessionSent, PTL
         DEF Spec, ImplementsDatagrams, Abstract!Spec
=============================================================================
