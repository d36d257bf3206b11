--------------------------- MODULE ConnVarsProofs ---------------------------
(***************************************************************************)
(* Proofs that the invariants of ConnVars hold for every window, batch,    *)
(* timeout, estimate and bound.                                            *)
(***************************************************************************)
EXTENDS ConnVars, FiniteSetTheorems, TLAPS

\* A segment known to be lost has a deadline in the past.  This is what
\* keeps mark_acked's early retransmission, which asks for a deadline in
\* the future, from arming a lost segment a second time.
LostExpired ==
    \A s \in DOMAIN segments :
        segments[s].known_lost => segments[s].retrans_time <= now

\* The two halves of the inductive invariant.
SendInv == LostAgrees /\ RtosExact /\ LostExpired
RecvInv == AckBatchBound /\ AckScheduled /\ AcksAreHeld /\ ReorderTight
IInv == TypeOK /\ SendInv /\ RecvInv

-----------------------------------------------------------------------------
\* The outstanding segments and the lost ones among them are finitely many.
LEMMA FiniteSegments ==
    ASSUME TypeOK, LostAgrees
    PROVE  /\ IsFiniteSet(DOMAIN segments)
           /\ IsFiniteSet(lost_seqnos)
           /\ lost_seqnos \subseteq DOMAIN segments
<1>0. next_free_seqno - 1 \in Int
  BY DEF TypeOK
<1>1. IsFiniteSet(0 .. next_free_seqno - 1)
  BY <1>0, FS_Interval
<1>2. IsFiniteSet(DOMAIN segments)
  BY <1>1, FS_Subset DEF TypeOK
<1>3. lost_seqnos \subseteq DOMAIN segments
  BY DEF LostAgrees
<1> QED BY <1>2, <1>3, FS_Subset

\* Taking a subset away takes its size away.
LEMMA CardinalityDifference ==
    ASSUME NEW S, IsFiniteSet(S), NEW T \in SUBSET S
    PROVE  /\ IsFiniteSet(T) /\ IsFiniteSet(S \ T)
           /\ Cardinality(T) \in Nat /\ Cardinality(S) \in Nat
           /\ Cardinality(S \ T) = Cardinality(S) - Cardinality(T)
<1>1. IsFiniteSet(T) /\ IsFiniteSet(S \ T)
  BY FS_Subset
<1>2. /\ Cardinality(T) \in Nat /\ Cardinality(S) \in Nat
      /\ Cardinality(S \ T) \in Nat
  BY <1>1, FS_CardinalityType
<1>3. Cardinality((S \ T) \cup T)
        = Cardinality(S \ T) + Cardinality(T) - Cardinality((S \ T) \cap T)
  BY <1>1, FS_Union
<1>4. (S \ T) \cup T = S /\ (S \ T) \cap T = {}
  OBVIOUS
<1>5. Cardinality((S \ T) \cap T) = 0
  BY <1>4, FS_EmptySet
<1>6. Cardinality(S) = Cardinality(S \ T) + Cardinality(T) - 0
  BY <1>3, <1>4, <1>5
<1> QED BY <1>1, <1>2, <1>6

\* ConnVars::default satisfies the inductive invariant.
LEMMA InitIInv == Init => IInv
<1> SUFFICES ASSUME Init PROVE IInv
  OBVIOUS
<1>1. DOMAIN segments = {} /\ segments \in [{} -> Entry]
  BY DEF Init
<1>2. TypeOK
  <2>1. IsFiniteSet(pkts) /\ IsFiniteSet(ack_seqnos)
    BY FS_EmptySet DEF Init
  <2>2. /\ DOMAIN segments \subseteq 0 .. next_free_seqno - 1
        /\ segments \in [DOMAIN segments -> Entry]
    BY <1>1
  <2>3. /\ rtos \subseteq Int \X Nat /\ lost_seqnos \subseteq Nat
        /\ pkts \subseteq Nat /\ ack_seqnos \subseteq Nat
    BY DEF Init
  <2>4. /\ now \in Nat /\ idle_since \in Nat /\ lost_count \in Nat
        /\ status \in {"steady", "closed", "reset", "timeout"}
        /\ next_free_seqno \in Nat /\ last_loss \in Int /\ cwnd \in Cwnds
        /\ min \in Nat /\ lowest_unseen \in Nat
        /\ delayed_ack_timer \in Nat \cup {None}
    BY DEF Init, None
  <2>5. closing \in BOOLEAN
    BY DEF Init
  <2> QED BY <2>1, <2>2, <2>3, <2>4, <2>5, Zenon DEF TypeOK
<1>3. SendInv
  BY <1>1, FS_EmptySet DEF Init, SendInv, LostAgrees, RtosExact, Armed, LostExpired
<1>4. RecvInv
  BY FS_EmptySet, ConnVarsAssumption
  DEF Init, RecvInv, AckBatchBound, AckScheduled, AcksAreHeld, ReorderTight
<1> QED BY <1>2, <1>3, <1>4 DEF IInv

-----------------------------------------------------------------------------
\* An RTO fires for an armed segment: it is there and was not lost.
LEMMA RtoStep == IInv /\ Rto => IInv'
<1> SUFFICES ASSUME IInv, Rto PROVE IInv'
  OBVIOUS
<1> USE DEF IInv, InflightEntry
<1>1. PICK p \in rtos :
        /\ p[1] <= now
        /\ LET s == p[2] IN
            /\ IF s \in DOMAIN segments
               THEN /\ segments' = [segments EXCEPT ![s] =
                        InflightEntry(@.retrans, @.retrans_time, TRUE)]
                    /\ rtos' = rtos \ {<<segments[s].retrans_time, s>>}
                    /\ lost_count' = IF segments[s].known_lost
                                     THEN lost_count ELSE lost_count + 1
               ELSE UNCHANGED <<segments, rtos, lost_count>>
            /\ lost_seqnos' = lost_seqnos \cup {s}
  BY DEF Rto
<1> DEFINE s == p[2]
<1>2. /\ s \in DOMAIN segments /\ ~segments[s].known_lost
      /\ p = <<segments[s].retrans_time, s>>
  BY DEF SendInv, RtosExact, Armed
<1>3. /\ segments' = [segments EXCEPT ![s] =
                        InflightEntry(@.retrans, @.retrans_time, TRUE)]
      /\ rtos' = rtos \ {p}
      /\ lost_count' = lost_count + 1
      /\ lost_seqnos' = lost_seqnos \cup {s}
  BY <1>1, <1>2
<1>4. segments[s].retrans_time <= now
  BY <1>1, <1>2
<1> HIDE DEF s
<1>5. /\ now' = now /\ idle_since' = now /\ status' = status
      /\ next_free_seqno' = next_free_seqno /\ closing' = closing
      /\ UNCHANGED <<pkts, min, lowest_unseen, ack_seqnos, delayed_ack_timer>>
      /\ last_loss' \in {last_loss, now} /\ (cwnd' = cwnd \/ cwnd' \in Cwnds)
  BY DEF Rto, recvVars
<1>6. segments[s] \in Entry /\ s \in Nat
  BY <1>2 DEF TypeOK
<1>7. DOMAIN segments' = DOMAIN segments /\ segments' \in [DOMAIN segments -> Entry]
  BY <1>3, <1>6 DEF TypeOK, Entry
<1>8. TypeOK'
  BY <1>3, <1>5, <1>6, <1>7 DEF TypeOK
<1>9. LostAgrees'
  <2>1. lost_seqnos' = {t \in DOMAIN segments' : segments'[t].known_lost}
    BY <1>2, <1>3, <1>6, <1>7 DEF SendInv, LostAgrees, TypeOK, Entry
  <2>2. lost_count' = Cardinality(lost_seqnos')
    BY <1>2, <1>3, FiniteSegments, FS_AddElement DEF SendInv, LostAgrees
  <2> QED BY <2>1, <2>2 DEF LostAgrees
<1>10. RtosExact'
  <2>1. \A t \in DOMAIN segments : /\ segments'[t].retrans_time = segments[t].retrans_time
                                   /\ segments'[t].known_lost <=> (t = s \/ segments[t].known_lost)
    BY <1>3, <1>6, <1>2 DEF TypeOK, Entry
  <2> QED BY <1>2, <1>3, <1>7, <2>1 DEF SendInv, RtosExact, Armed
<1>11. LostExpired'
  BY <1>2, <1>3, <1>4, <1>5, <1>6, <1>7 DEF SendInv, LostExpired, TypeOK, Entry
<1>12. RecvInv'
  BY <1>5 DEF RecvInv, AckBatchBound, AckScheduled, AcksAreHeld, ReorderTight
<1> QED BY <1>8, <1>9, <1>10, <1>11, <1>12 DEF SendInv

\* A retransmission clears the flag of the segment it takes from lost_seqnos.
LEMMA RetransmitStep == IInv /\ Retransmit => IInv'
<1> SUFFICES ASSUME IInv, Retransmit PROVE IInv'
  OBVIOUS
<1> USE DEF IInv, InflightEntry
<1>1. PICK s \in lost_seqnos, rto \in Rtos :
         IF s \in DOMAIN segments
           THEN LET retrans == segments[s].retrans + 1
                  deadline == now + rto * 2^retrans
              IN /\ segments' = [segments EXCEPT ![s] =
                        InflightEntry(retrans, deadline, FALSE)]
                 /\ rtos' = (rtos \ {<<segments[s].retrans_time, s>>})
                               \cup {<<deadline, s>>}
                 /\ lost_count' = lost_count - 1
                 /\ lost_seqnos' = lost_seqnos \ {s}
           ELSE UNCHANGED <<segments, rtos, lost_count, lost_seqnos>>
  BY DEF Retransmit, SendInv, LostAgrees
<1>2. s \in DOMAIN segments /\ segments[s].known_lost /\ segments[s] \in Entry /\ s \in Nat
  BY DEF SendInv, LostAgrees, TypeOK
<1> DEFINE retrans == segments[s].retrans + 1
           deadline == now + rto * 2^retrans
<1>3. /\ segments' = [segments EXCEPT ![s] =
                        InflightEntry(retrans, deadline, FALSE)]
      /\ rtos' = (rtos \ {<<segments[s].retrans_time, s>>})
                               \cup {<<deadline, s>>}
      /\ lost_count' = lost_count - 1
      /\ lost_seqnos' = lost_seqnos \ {s}
  BY <1>1, <1>2
<1>4. retrans \in Nat /\ deadline \in Int
  <2>1. retrans \in Nat
    BY <1>2 DEF Entry
  <2> HIDE DEF retrans
  <2>2. 2^retrans \in Int
    BY <2>1
  <2>3. rto \in Int /\ now \in Int
    BY ConnVarsAssumption DEF TypeOK
  <2> QED BY <2>1, <2>2, <2>3
<1> HIDE DEF retrans, deadline
<1>5. /\ now' = now /\ idle_since' = now /\ status' = status
      /\ next_free_seqno' = next_free_seqno /\ closing' = closing
      /\ UNCHANGED <<pkts, min, lowest_unseen, ack_seqnos, delayed_ack_timer>>
      /\ last_loss' = last_loss /\ cwnd' = cwnd
  BY DEF Retransmit, recvVars
<1>6. /\ DOMAIN segments' = DOMAIN segments
      /\ segments' \in [DOMAIN segments -> Entry]
      /\ \A t \in DOMAIN segments \ {s} : segments'[t] = segments[t]
      /\ segments'[s].retrans_time = deadline /\ ~segments'[s].known_lost
  BY <1>2, <1>3, <1>4 DEF TypeOK, Entry
<1>7. Cardinality(lost_seqnos) \in Nat /\ Cardinality(lost_seqnos') = Cardinality(lost_seqnos) - 1
      /\ Cardinality(lost_seqnos') \in Nat
  BY <1>3, FiniteSegments, FS_RemoveElement, FS_CardinalityType DEF SendInv
<1>8. TypeOK'
  BY <1>2, <1>3, <1>4, <1>5, <1>6, <1>7 DEF TypeOK, SendInv, LostAgrees
<1>9. LostAgrees'
  BY <1>2, <1>3, <1>6, <1>7 DEF SendInv, LostAgrees
<1>10. RtosExact'
  BY <1>2, <1>3, <1>6 DEF SendInv, RtosExact, Armed
<1>11. LostExpired'
  BY <1>5, <1>6 DEF SendInv, LostExpired
<1>12. RecvInv'
  BY <1>5 DEF RecvInv, AckBatchBound, AckScheduled, AcksAreHeld, ReorderTight
<1> QED BY <1>8, <1>9, <1>10, <1>11, <1>12 DEF SendInv

\* An ack removes segments from both records of losses alike; what it arms
\* early was not lost, since its deadline lay in the future.
LEMMA DataAckStep ==
    ASSUME IInv, NEW lo \in Int, NEW acks, DataAck(lo, acks)
    PROVE  IInv'
<1> USE DEF IInv, InflightEntry
<1> DEFINE gone == {s \in DOMAIN segments : s < lo \/ s \in acks}
           kept == DOMAIN segments \ gone
<1>1. PICK rtt_var \in [acks -> RttVars] :
        LET early == EarlyRetransmit({a \in acks : a >= lo}, gone, rtt_var)
        IN /\ segments' = [s \in kept |->
                  IF s \in early
                  THEN InflightEntry(segments[s].retrans, now,
                                     segments[s].known_lost)
                  ELSE segments[s]]
           /\ rtos' = RtosAfterAck(gone, early)
           /\ lost_count' =
                  lost_count - Cardinality({s \in gone : segments[s].known_lost})
           /\ status' = StatusAfter(closing, segments')
  BY DEF DataAck
<1>2. lost_seqnos' = {s \in lost_seqnos : s >= lo /\ s \notin acks}
  BY DEF DataAck
<1> DEFINE early == EarlyRetransmit({a \in acks : a >= lo}, gone, rtt_var)
           lostGone == {s \in gone : segments[s].known_lost}
<1>3. /\ now' = now /\ idle_since' = now
      /\ next_free_seqno' = next_free_seqno /\ closing' = closing
      /\ UNCHANGED <<pkts, min, lowest_unseen, ack_seqnos, delayed_ack_timer>>
      /\ last_loss' = last_loss /\ cwnd' \in Cwnds
      /\ status' \in {"closed", "steady"}
  BY <1>1 DEF DataAck, recvVars, StatusAfter, TypeOK
<1>4. /\ early \subseteq kept
      /\ \A s \in early : segments[s].retrans_time > now /\ segments[s] \in Entry
      /\ \A s \in early : ~segments[s].known_lost
  BY DEF EarlyRetransmit, SendInv, LostExpired, TypeOK, Entry
<1>5. /\ segments' = [s \in kept |->
              IF s \in early
              THEN InflightEntry(segments[s].retrans, now, segments[s].known_lost)
              ELSE segments[s]]
      /\ rtos' = RtosAfterAck(gone, early)
      /\ lost_count' = lost_count - Cardinality(lostGone)
  BY <1>1
<1>6. /\ kept \subseteq DOMAIN segments
      /\ \A s \in DOMAIN segments : s \in Int /\ (s \in kept <=> s >= lo /\ s \notin acks)
  BY DEF TypeOK
<1>7. lostGone \subseteq lost_seqnos /\ lost_seqnos' = lost_seqnos \ lostGone
  BY <1>2, <1>6 DEF SendInv, LostAgrees
<1> HIDE DEF gone, kept, early, lostGone
<1>8. /\ Cardinality(lost_seqnos) - Cardinality(lostGone) = Cardinality(lost_seqnos')
      /\ Cardinality(lost_seqnos') \in Nat
  <2>1. IsFiniteSet(lost_seqnos)
    BY FiniteSegments DEF SendInv
  <2>2. /\ Cardinality(lost_seqnos \ lostGone) = Cardinality(lost_seqnos) - Cardinality(lostGone)
        /\ IsFiniteSet(lost_seqnos \ lostGone)
    BY <1>7, <2>1, CardinalityDifference
  <2>3. Cardinality(lost_seqnos \ lostGone) \in Nat
    BY <2>2, FS_CardinalityType
  <2> QED BY <1>7, <2>2, <2>3
<1>9. lost_count' = Cardinality(lost_seqnos')
  BY <1>5, <1>8 DEF SendInv, LostAgrees
<1>10. /\ DOMAIN segments' = kept
       /\ segments' \in [kept -> Entry]
       /\ \A s \in kept : segments'[s].known_lost = segments[s].known_lost
       /\ \A s \in kept \ early : segments'[s] = segments[s]
       /\ \A s \in early : segments'[s].retrans_time = now
  BY <1>4, <1>5, <1>6 DEF TypeOK, Entry
<1>11. TypeOK'
  <2>1. rtos' \subseteq Int \X Nat
    BY <1>4, <1>5, <1>6 DEF RtosAfterAck, TypeOK
  <2>2. /\ DOMAIN segments' \subseteq 0 .. next_free_seqno' - 1
        /\ segments' \in [DOMAIN segments' -> Entry]
    BY <1>3, <1>6, <1>10 DEF TypeOK
  <2>3. lost_count' \in Nat /\ lost_seqnos' \subseteq Nat
    BY <1>7, <1>8, <1>9 DEF TypeOK
  <2> QED BY <1>3, <2>1, <2>2, <2>3 DEF TypeOK
<1>12. LostAgrees'
  BY <1>6, <1>2, <1>9, <1>10 DEF SendInv, LostAgrees
<1>13. RtosExact'
  <2>1. rtos = Armed(segments)
    BY DEF SendInv, RtosExact
  <2>2. ASSUME NEW s \in kept \ early, ~segments[s].known_lost
        PROVE  <<segments[s].retrans_time, s>> \in rtos'
    BY <1>4, <1>5, <1>6, <2>1, <2>2 DEF RtosAfterAck, Armed, gone, kept
  <2>3. ASSUME NEW s \in early
        PROVE  <<now, s>> \in rtos'
    BY <1>5, <2>3 DEF RtosAfterAck
  <2>4. ASSUME NEW p \in rtos'
        PROVE  p \in Armed(segments')
    <3>1. CASE \E s \in early : p = <<now, s>>
      BY <1>4, <1>10, <3>1 DEF Armed
    <3>2. CASE ~ \E s \in early : p = <<now, s>>
      <4>1. /\ p \in Armed(segments)
            /\ \A s \in gone \cup early : p # <<segments[s].retrans_time, s>>
        BY <1>5, <2>1, <3>2 DEF RtosAfterAck
      <4>2. PICK s \in DOMAIN segments : ~segments[s].known_lost /\ p = <<segments[s].retrans_time, s>>
        BY <4>1 DEF Armed
      <4>3. s \in kept \ early
        BY <4>1, <4>2 DEF kept
      <4> QED BY <1>10, <4>2, <4>3 DEF Armed
    <3> QED BY <3>1, <3>2
  <2>5. Armed(segments') \subseteq rtos'
    BY <1>4, <1>10, <2>2, <2>3 DEF Armed
  <2> QED BY <2>4, <2>5 DEF RtosExact
<1>14. LostExpired'
  BY <1>3, <1>4, <1>6, <1>10 DEF SendInv, LostExpired
<1>15. RecvInv'
  BY <1>3 DEF RecvInv, AckBatchBound, AckScheduled, AcksAreHeld, ReorderTight
<1> QED BY <1>11, <1>12, <1>13, <1>14, <1>15 DEF SendInv

\* A received segment is acknowledged only if it is held, and there is room
\* in the batch because a full one is flushed first.
LEMMA DataStep ==
    ASSUME IInv, NEW seqno \in Nat, Data(seqno)
    PROVE  IInv'
<1> USE DEF IInv
<1> DEFINE inWindow == seqno >= min /\ seqno <= min + RecvWindow
           held == IF inWindow THEN pkts \cup {seqno} ELSE pkts
<1>1. /\ PktTurn
      /\ delayed_ack_timer' = IF delayed_ack_timer = None THEN now + AckDelay
                              ELSE delayed_ack_timer
      /\ ack_seqnos' = IF inWindow \/ seqno < min
                       THEN ack_seqnos \cup {seqno} ELSE ack_seqnos
      /\ now' = now /\ idle_since' = now /\ status' = status
      /\ UNCHANGED sendVars
  BY DEF Data, InWindow, InsertOk
<1>2. PICK m \in min .. min + Cardinality(held) :
              /\ min .. m - 1 \subseteq held /\ m \notin held
              /\ pkts' = held \ (min .. m - 1)
              /\ min' = m
              /\ lowest_unseen' = lowest_unseen + (m - min)
  BY DEF Data, InWindow
<1>3. IsFiniteSet(held) /\ held \subseteq Nat /\ pkts \subseteq held
      /\ (inWindow => seqno \in held)
  BY FS_AddElement DEF TypeOK
<1>4. m \in Nat /\ m >= min /\ min \in Nat
  BY <1>2, <1>3, FS_CardinalityType DEF TypeOK
<1>5. held \subseteq min .. min + RecvWindow
  BY ConnVarsAssumption DEF RecvInv, ReorderTight, TypeOK
<1> HIDE DEF held
<1>6. IsFiniteSet(pkts') /\ pkts' \subseteq Nat
  BY <1>2, <1>3, FS_Subset
<1>7. IsFiniteSet(ack_seqnos') /\ ack_seqnos' \subseteq Nat
  BY <1>1, FS_AddElement DEF TypeOK
<1>8. delayed_ack_timer' \in Nat
  BY <1>1, ConnVarsAssumption DEF TypeOK
<1>9. TypeOK'
  BY <1>1, <1>2, <1>4, <1>6, <1>7, <1>8 DEF TypeOK, sendVars
<1>10. SendInv'
  BY <1>1 DEF SendInv, LostAgrees, RtosExact, Armed, LostExpired, sendVars
<1>11. AckBatchBound'
  <2>0. Cardinality(ack_seqnos) \in Nat
    BY FS_CardinalityType DEF TypeOK
  <2>1. Cardinality(ack_seqnos) < AckBatch
    BY <1>1, <2>0, ConnVarsAssumption DEF PktTurn, AckReady, force_ack
  <2>2. \/ Cardinality(ack_seqnos') = Cardinality(ack_seqnos)
        \/ Cardinality(ack_seqnos') = Cardinality(ack_seqnos) + 1
    BY <1>1, FS_AddElement DEF TypeOK
  <2> QED BY <2>0, <2>1, <2>2, ConnVarsAssumption DEF AckBatchBound
<1>12. AckScheduled'
  BY <1>8 DEF AckScheduled, None
<1>13. AcksAreHeld'
  <2>1. lowest_unseen' = min'
    BY <1>2, <1>4 DEF RecvInv, AcksAreHeld, TypeOK
  <2>2. ack_seqnos' \subseteq (0 .. min - 1) \cup held
    BY <1>1, <1>3, <1>4 DEF RecvInv, AcksAreHeld
  <2>3. (0 .. min - 1) \cup held \subseteq (0 .. m - 1) \cup (held \ (min .. m - 1))
    BY <1>4
  <2> QED BY <1>2, <2>1, <2>2, <2>3 DEF AcksAreHeld
<1>14. ReorderTight'
  BY <1>2, <1>3, <1>4, <1>5, ConnVarsAssumption DEF ReorderTight
<1> QED BY <1>9, <1>10, <1>11, <1>12, <1>13, <1>14 DEF RecvInv

\* A new segment has a seqno never used before and is armed once.
LEMMA NewWriteStep == IInv /\ NewWrite => IInv'
<1> SUFFICES ASSUME IInv, NewWrite PROVE IInv'
  OBVIOUS
<1> USE DEF IInv, InflightEntry
<1> DEFINE n == next_free_seqno
<1>1. PICK rto \in Rtos :
        /\ segments' = [s \in DOMAIN segments \cup {n} |->
              IF s = n THEN InflightEntry(0, now + rto, FALSE) ELSE segments[s]]
        /\ rtos' = rtos \cup {<<now + rto, n>>}
  BY DEF NewWrite
<1>2. /\ next_free_seqno' = n + 1
      /\ now' = now /\ idle_since' = now
      /\ UNCHANGED <<status, lost_count, lost_seqnos, last_loss, cwnd, closing,
                     pkts, min, lowest_unseen, ack_seqnos, delayed_ack_timer>>
  BY DEF NewWrite, recvVars
<1>3. n \in Nat /\ n \notin DOMAIN segments /\ now + rto \in Nat
  BY ConnVarsAssumption DEF TypeOK
<1>4. /\ DOMAIN segments' = DOMAIN segments \cup {n}
      /\ segments' \in [DOMAIN segments' -> Entry]
      /\ segments'[n].retrans_time = now + rto /\ ~segments'[n].known_lost
      /\ \A s \in DOMAIN segments : segments'[s] = segments[s]
  BY <1>1, <1>3 DEF TypeOK, Entry
<1>5. TypeOK'
  <2>1. DOMAIN segments' \subseteq 0 .. next_free_seqno' - 1
    BY <1>2, <1>3, <1>4 DEF TypeOK
  <2>2. rtos' \subseteq Int \X Nat /\ next_free_seqno' \in Nat
    BY <1>1, <1>2, <1>3 DEF TypeOK
  <2>3. segments' \in [DOMAIN segments' -> Entry]
    BY <1>4
  <2> QED BY <1>2, <2>1, <2>2, <2>3 DEF TypeOK
<1>6. LostAgrees'
  BY <1>2, <1>3, <1>4 DEF SendInv, LostAgrees
<1>7. RtosExact'
  BY <1>1, <1>3, <1>4 DEF SendInv, RtosExact, Armed
<1>8. LostExpired'
  BY <1>2, <1>4 DEF SendInv, LostExpired
<1>9. RecvInv'
  BY <1>2 DEF RecvInv, AckBatchBound, AckScheduled, AcksAreHeld, ReorderTight
<1> QED BY <1>5, <1>6, <1>7, <1>8, <1>9 DEF SendInv

\* The remaining steps leave the segments and the received packets alone.
LEMMA OtherSteps ==
    ASSUME IInv, \/ AckTimer \/ FinalTimeout \/ BailPkt \/ OtherPkt
                 \/ Closing \/ Tick \/ UNCHANGED vars
    PROVE  IInv'
<1> USE DEF IInv
<1>1. CASE AckTimer
  <2>1. IsFiniteSet(ack_seqnos') /\ Cardinality(ack_seqnos') = 0
    BY <1>1, FS_EmptySet DEF AckTimer
  <2>2. TypeOK'
    <3>1. ack_seqnos' \subseteq Nat /\ delayed_ack_timer' \in Nat \cup {None}
      BY <1>1 DEF AckTimer
    <3>2. /\ now' = now /\ idle_since' = now
          /\ UNCHANGED <<status, sendVars, pkts, min, lowest_unseen>>
      BY <1>1 DEF AckTimer
    <3> QED BY <2>1, <3>1, <3>2 DEF TypeOK, sendVars
  <2>3. SendInv'
    BY <1>1 DEF AckTimer, SendInv, LostAgrees, RtosExact, Armed, LostExpired, sendVars
  <2>4. RecvInv'
    BY <1>1, <2>1, ConnVarsAssumption
    DEF AckTimer, RecvInv, AckBatchBound, AckScheduled, AcksAreHeld, ReorderTight
  <2> QED BY <2>2, <2>3, <2>4
<1>2. ASSUME /\ now' \in {now, now + 1} /\ idle_since' \in {idle_since, now}
             /\ status' \in {"steady", "closed", "reset", "timeout"}
             /\ closing' \in BOOLEAN
             /\ UNCHANGED <<segments, rtos, lost_count, next_free_seqno,
                            lost_seqnos, last_loss, cwnd, recvVars>>
      PROVE  IInv'
  <2>1. TypeOK'
    BY <1>2 DEF TypeOK, recvVars
  <2>2. LostAgrees' /\ RtosExact'
    BY <1>2 DEF SendInv, LostAgrees, RtosExact, Armed
  <2>3. LostExpired'
    BY <1>2 DEF SendInv, LostExpired, TypeOK, Entry
  <2>4. RecvInv'
    BY <1>2 DEF RecvInv, AckBatchBound, AckScheduled, AcksAreHeld, ReorderTight, recvVars
  <2> QED BY <2>1, <2>2, <2>3, <2>4 DEF SendInv
<1>3. CASE FinalTimeout
  BY <1>2, <1>3 DEF FinalTimeout, TypeOK, timers, sendVars
<1>4. CASE BailPkt
  BY <1>2, <1>4 DEF BailPkt, TypeOK, timers, sendVars
<1>5. CASE OtherPkt
  BY <1>2, <1>5 DEF OtherPkt, TypeOK, sendVars
<1>6. CASE Closing
  BY <1>2, <1>6 DEF Closing, StatusAfter, TypeOK
<1>7. CASE Tick
  BY <1>2, <1>7 DEF Tick, TypeOK, sendVars
<1>8. CASE UNCHANGED vars
  BY <1>2, <1>8 DEF vars, TypeOK, timers, sendVars
<1> QED BY <1>1, <1>3, <1>4, <1>5, <1>6, <1>7, <1>8

-----------------------------------------------------------------------------
\* Every step of process_one, and the passing of time, preserves the
\* inductive invariant.
LEMMA NextIInv == IInv /\ [Next]_vars => IInv'
<1> SUFFICES ASSUME IInv, [Next]_vars PROVE IInv'
  OBVIOUS
<1>1. CASE Rto
  BY <1>1, RtoStep
<1>2. CASE Retransmit
  BY <1>2, RetransmitStep
<1>3. CASE NewWrite
  BY <1>3, NewWriteStep
<1>4. ASSUME NEW lo \in 0 .. next_free_seqno,
             NEW acks \in SUBSET (0 .. next_free_seqno - 1), DataAck(lo, acks)
      PROVE  IInv'
  <2>1. lo \in Int
    BY DEF IInv, TypeOK
  <2> QED BY <1>4, <2>1, DataAckStep
<1>5. ASSUME NEW seqno \in 0 .. MaxPeerSeqno, Data(seqno)
      PROVE  IInv'
  <2>1. seqno \in Nat
    BY ConnVarsAssumption
  <2> QED BY <1>5, <2>1, DataStep
<1>6. CASE AckTimer \/ FinalTimeout \/ BailPkt \/ OtherPkt \/ Closing \/ Tick \/ UNCHANGED vars
  BY <1>6, OtherSteps
<1> QED BY <1>1, <1>2, <1>3, <1>4, <1>5, <1>6 DEF Next, NewPkt

\* The inductive invariant holds in every reachable state of one end.
THEOREM ConnVarsInvariant == Spec => []IInv
BY InitIInv, NextIInv, PTL DEF Spec

\* Type correctness of one end's state, for every value of the constants.
THEOREM ConnVarsTypeOK == Spec => []TypeOK
<1>1. IInv => TypeOK
  BY DEF IInv
<1> QED BY <1>1, ConnVarsInvariant, PTL

\* The assertion lost_count() == lost_seqnos.len() of process_one never
\* fails, and both records name the same segments.
THEOREM ConnVarsLostAgrees == Spec => []LostAgrees
<1>1. IInv => LostAgrees
  BY DEF IInv, SendInv
<1> QED BY <1>1, ConnVarsInvariant, PTL

\* No outstanding segment is ever without a deadline or a place among the
\* lost ones, and no deadline is stale.
THEOREM ConnVarsRtosExact == Spec => []RtosExact
<1>1. IInv => RtosExact
  BY DEF IInv, SendInv
<1> QED BY <1>1, ConnVarsInvariant, PTL

\* The assertion ack_seqnos.len() <= ACK_BATCH never fails.
THEOREM ConnVarsAckBatch == Spec => []AckBatchBound
<1>1. IInv => AckBatchBound
  BY DEF IInv, RecvInv
<1> QED BY <1>1, ConnVarsInvariant, PTL

\* Nothing is acknowledged that the receiver does not hold.
THEOREM ConnVarsAcksAreHeld == Spec => []AcksAreHeld
<1>1. IInv => AcksAreHeld
  BY DEF IInv, RecvInv
<1> QED BY <1>1, ConnVarsInvariant, PTL

\* Acks that are held back have a timer that will send them.
THEOREM ConnVarsAckScheduled == Spec => []AckScheduled
<1>1. IInv => AckScheduled
  BY DEF IInv, RecvInv
<1> QED BY <1>1, ConnVarsInvariant, PTL

\* The Reorderer never holds back a segment it could hand over, and stays
\* within its window.
THEOREM ConnVarsReorderTight == Spec => []ReorderTight
<1>1. IInv => ReorderTight
  BY DEF IInv, RecvInv
<1> QED BY <1>1, ConnVarsInvariant, PTL

-----------------------------------------------------------------------------
\* inflight() counts the segments that are not known to be lost.
LEMMA InflightCounts ==
    TypeOK /\ LostAgrees =>
        /\ IsFiniteSet(DOMAIN segments \ lost_seqnos)
        /\ inflight = Cardinality(DOMAIN segments \ lost_seqnos)
        /\ inflight \in Nat
<1> SUFFICES ASSUME TypeOK, LostAgrees
             PROVE  /\ IsFiniteSet(DOMAIN segments \ lost_seqnos)
                    /\ inflight = Cardinality(DOMAIN segments \ lost_seqnos)
                    /\ inflight \in Nat
  OBVIOUS
<1>1. /\ IsFiniteSet(DOMAIN segments \ lost_seqnos)
      /\ Cardinality(DOMAIN segments \ lost_seqnos)
            = Cardinality(DOMAIN segments) - Cardinality(lost_seqnos)
  BY FiniteSegments, CardinalityDifference
<1>2. Cardinality(DOMAIN segments \ lost_seqnos) \in Nat
  BY <1>1, FS_CardinalityType
<1>3. lost_count = Cardinality(lost_seqnos)
  BY DEF LostAgrees
<1> QED BY <1>1, <1>2, <1>3 DEF inflight, unacked

\* The unsigned subtraction of inflight() does not underflow: it counts the
\* segments that are not known to be lost, which the window test is about.
InflightExact == inflight = Cardinality(DOMAIN segments \ lost_seqnos) /\ inflight \in Nat

\* What inflight() returns is a count, whatever acks and timeouts come in
\* whatever order.
THEOREM ConnVarsInflightExact == Spec => []InflightExact
<1>1. IInv => InflightExact
  BY InflightCounts DEF IInv, SendInv, InflightExact
<1> QED BY <1>1, ConnVarsInvariant, PTL

=============================================================================
