------------------------------ MODULE ConnVars ------------------------------
(***************************************************************************)
(* One end of a reliable stream in its steady state: ConnVars, the state   *)
(* relconn_actor drives, with the Inflight table of unacknowledged         *)
(* segments and the Reorderer of received ones.                            *)
(*                                                                         *)
(* Every action is one turn of process_one: next_event picks the event of  *)
(* highest priority that is ready and the matching arm handles it.  Time   *)
(* is explicit, because what keeps the two records of lost segments (the   *)
(* known_lost flags with lost_count in Inflight, and lost_seqnos in        *)
(* ConnVars) and the retransmission table in step is an argument about     *)
(* deadlines that have or have not passed.                                 *)
(*                                                                         *)
(* Abstracted: payload bytes; the estimates of RttCalculator (any rto,     *)
(* rtt_var and min_rtt of the given sets, per event) and the congestion    *)
(* controller (any cwnd of the given set after mark_ack or mark_loss).     *)
(* The peer and the network are open: any packet a peer that talks about   *)
(* segments really sent can produce may arrive at any time.                *)
(***************************************************************************)
EXTENDS Integers, FiniteSets

CONSTANTS
    AckBatch,       \* ACK_BATCH: pending acks that force an ack packet (32)
    AckDelay,       \* the delayed-ack timer (1 ms)
    IdleLimit,      \* final_timeout (600 s)
    MaxSpan,        \* last_minus_first allowed to a new write (10000)
    RecvWindow,     \* how far above min the Reorderer accepts (20000)
    Rtos,           \* values RttCalculator::rto can return
    RttVars,        \* values RttCalculator::rtt_var can return
    MinRtts,        \* values RttCalculator::min_rtt can return
    Cwnds,          \* values CongestionControl::cwnd can return
    MaxSeqno,       \* bound: segments this end writes
    MaxPeerSeqno,   \* bound: seqnos of the peer's segments
    MaxTime         \* bound: the clock

ASSUME ConnVarsAssumption ==
    /\ AckBatch \in Nat \ {0}
    /\ AckDelay \in Nat /\ IdleLimit \in Nat
    /\ MaxSpan \in Nat /\ RecvWindow \in Nat
    /\ Rtos \subseteq Nat /\ RttVars \subseteq Nat
    /\ MinRtts \subseteq Nat /\ Cwnds \subseteq Nat /\ Cwnds # {}
    /\ MaxSeqno \in Nat /\ MaxPeerSeqno \in Nat /\ MaxTime \in Nat

VARIABLES
    now,                \* Instant::now()
    status,             \* "steady", or why process_one returned an error
    segments,           \* Inflight.segments: seqno -> entry
    rtos,               \* Inflight.rtos: pairs <<deadline, seqno>>
    lost_count,         \* Inflight.lost_count
    next_free_seqno,
    lost_seqnos,
    last_loss,
    cwnd,               \* cc.cwnd()
    closing,
    pkts,               \* Reorderer.pkts: the buffered seqnos
    min,                \* Reorderer.min
    lowest_unseen,
    ack_seqnos,
    delayed_ack_timer,
    idle_since          \* when next_event began to wait

timers == <<now, idle_since>>
sendVars == <<segments, rtos, lost_count, next_free_seqno, lost_seqnos,
              last_loss, cwnd, closing>>
recvVars == <<pkts, min, lowest_unseen, ack_seqnos, delayed_ack_timer>>
vars == <<timers, status, sendVars, recvVars>>

None == -1      \* Option::None, for the two optional instants

\* The fields of InflightEntry that decide anything.
Entry == [retrans : Nat, retrans_time : Int, known_lost : BOOLEAN]
InflightEntry(retrans, retrans_time, known_lost) ==
    [retrans |-> retrans, retrans_time |-> retrans_time,
     known_lost |-> known_lost]

-----------------------------------------------------------------------------
(* Inflight *)

unacked == Cardinality(DOMAIN segments)
inflight == unacked - lost_count

\* last_minus_first() <= limit: no two outstanding segments further apart.
SpanAtMost(limit) == \A s, t \in DOMAIN segments : t - s <= limit

\* first_rto: a pair with the earliest deadline (Vec order is abstracted).
FirstRto(p) == p \in rtos /\ \A q \in rtos : p[1] <= q[1]

\* The rtos table that holds exactly the deadlines of the segments of f
\* that are not known to be lost.
Armed(f) == {<<f[s].retrans_time, s>> : s \in {t \in DOMAIN f : ~f[t].known_lost}}

\* Mutant: also segments that are already due, or lost.
EarlyRetransmitDue(acks, gone, rtt_var) ==
    {s \in DOMAIN segments \ gone :
        segments[s].retrans = 0
        /\ \E a \in acks \cap DOMAIN segments :
              s < a /\ segments[s].retrans_time + 2 * rtt_var[a] <= segments[a].retrans_time}

\* Segments mark_acked pulls forward: never retransmitted, still armed for
\* the future, and sent well before a later segment that is acked now.
\* Each ack may have moved rtt_var for the next.
EarlyRetransmit(acks, gone, rtt_var) ==
    {s \in DOMAIN segments \ gone :
        /\ segments[s].retrans = 0
        /\ segments[s].retrans_time > now
        /\ \E a \in acks \cap DOMAIN segments :
              /\ s < a
              /\ segments[s].retrans_time + 2 * rtt_var[a]
                    <= segments[a].retrans_time}

\* Mutant: the deadlines of acknowledged segments stay behind.
RtosAfterAckStale(gone, early) ==
    {p \in rtos : \A s \in early : p # <<segments[s].retrans_time, s>>}
        \cup {<<now, s>> : s \in early}

\* remove_rto for the segments of gone and of early; early ones are pushed
\* back with the deadline `now'.
RtosAfterAck(gone, early) ==
    {p \in rtos : \A s \in gone \cup early :
                     p # <<segments[s].retrans_time, s>>}
        \cup {<<now, s>> : s \in early}

-----------------------------------------------------------------------------
(* What next_event finds ready, in the order its futures are polled. *)

\* Mutant: acks wait for the wire to be empty.
PktTurnBeforeAcks == status = "steady" /\ ~(\E p \in rtos : p[1] <= now)

RtoReady == \E p \in rtos : p[1] <= now
can_retransmit == inflight <= cwnd
RetransmitReady == lost_seqnos # {} /\ can_retransmit
force_ack == Cardinality(ack_seqnos) >= AckBatch
AckReady == \/ force_ack
            \/ delayed_ack_timer # None /\ delayed_ack_timer <= now
\* No packet is taken from the wire while one of the three is ready.
PktTurn == status = "steady" /\ ~RtoReady /\ ~RetransmitReady /\ ~AckReady
can_write_new ==
    /\ can_retransmit
    /\ unacked <= cwnd
    /\ ~closing
    /\ lost_seqnos = {}
    /\ SpanAtMost(MaxSpan)

\* check_closed, evaluated on the state after the event.
StatusAfter(closing_, segments_) ==
    IF closing_ /\ DOMAIN segments_ = {} THEN "closed" ELSE "steady"

-----------------------------------------------------------------------------
Init ==
    /\ now = 0 /\ idle_since = 0
    /\ status = "steady"
    /\ segments = [s \in {} |-> {}]
    /\ rtos = {}
    /\ lost_count = 0
    /\ next_free_seqno = 0
    /\ lost_seqnos = {}
    /\ last_loss = None
    /\ cwnd \in Cwnds
    /\ closing = FALSE
    /\ pkts = {} /\ min = 0 /\ lowest_unseen = 0
    /\ ack_seqnos = {} /\ delayed_ack_timer = None

\* ConnVarEvt::Rto: the deadline of s has passed; Inflight::mark_lost.
Rto ==
    /\ status = "steady"
    /\ \E p \in rtos :
        /\ FirstRto(p) /\ p[1] <= now
        /\ LET s == p[2] IN
            /\ IF s \in DOMAIN segments
               THEN /\ segments' = [segments EXCEPT ![s] =
                        InflightEntry(@.retrans, @.retrans_time, TRUE)]
                    /\ rtos' = rtos \ {<<segments[s].retrans_time, s>>}
                    /\ lost_count' = IF segments[s].known_lost
                                     THEN lost_count ELSE lost_count + 1
               ELSE UNCHANGED <<segments, rtos, lost_count>>
            /\ lost_seqnos' = lost_seqnos \cup {s}
    /\ \E min_rtt \in MinRtts :
        IF last_loss = None \/ now - last_loss > min_rtt
        THEN cwnd' \in Cwnds /\ last_loss' = now
        ELSE UNCHANGED <<cwnd, last_loss>>
    /\ idle_since' = now
    /\ UNCHANGED <<now, status, next_free_seqno, closing, recvVars>>

\* ConnVarEvt::Retransmit: the lowest lost segment; Inflight::retransmit.
Retransmit ==
    /\ status = "steady" /\ ~RtoReady /\ RetransmitReady
    /\ \E s \in lost_seqnos :
        /\ \A t \in lost_seqnos : s <= t
        /\ IF s \in DOMAIN segments
           THEN \E rto \in Rtos :
              LET retrans == segments[s].retrans + 1
                  deadline == now + rto * 2^retrans
              IN /\ segments' = [segments EXCEPT ![s] =
                        InflightEntry(retrans, deadline, FALSE)]
                 /\ rtos' = (rtos \ {<<segments[s].retrans_time, s>>})
                               \cup {<<deadline, s>>}
                 /\ lost_count' = lost_count - 1
                 /\ lost_seqnos' = lost_seqnos \ {s}
           ELSE UNCHANGED <<segments, rtos, lost_count, lost_seqnos>>
    /\ idle_since' = now
    /\ UNCHANGED <<now, status, next_free_seqno, last_loss, cwnd, closing,
                   recvVars>>

\* Mutant: the seqnos sent are not cleared.
AckTimerKeepsSeqnos ==
    /\ status = "steady" /\ ~RtoReady /\ ~RetransmitReady /\ AckReady
    /\ delayed_ack_timer' = None
    /\ idle_since' = now
    /\ UNCHANGED <<now, status, sendVars, pkts, min, lowest_unseen, ack_seqnos>>

\* ConnVarEvt::AckTimer: one ack packet for everything pending.
AckTimer ==
    /\ status = "steady" /\ ~RtoReady /\ ~RetransmitReady /\ AckReady
    /\ ack_seqnos' = {}
    /\ delayed_ack_timer' = None
    /\ idle_since' = now
    /\ UNCHANGED <<now, status, sendVars, pkts, min, lowest_unseen>>

\* final_timeout: nothing happened for IdleLimit.
FinalTimeout ==
    /\ status = "steady" /\ ~RtoReady /\ ~RetransmitReady /\ ~AckReady
    /\ now - idle_since >= IdleLimit
    /\ status' = "timeout"
    /\ UNCHANGED <<timers, sendVars, recvVars>>

\* An RST, an undecodable ack, or the closed channel of a dropped mux.
BailPkt ==
    /\ PktTurn
    /\ status' = "reset"
    /\ UNCHANGED <<timers, sendVars, recvVars>>

\* DataAck: cumulative below lo, then selective for each seqno of acks.
DataAck(lo, acks) ==
    /\ PktTurn
    /\ LET gone == {s \in DOMAIN segments : s < lo \/ s \in acks}
           kept == DOMAIN segments \ gone
       IN \E rtt_var \in [acks -> RttVars] :
            LET early == EarlyRetransmit({a \in acks : a >= lo}, gone, rtt_var)
            IN /\ segments' = [s \in kept |->
                      IF s \in early
                      THEN InflightEntry(segments[s].retrans, now,
                                         segments[s].known_lost)
                      ELSE segments[s]]
               /\ rtos' = RtosAfterAck(gone, early)
               /\ lost_count' =
                      lost_count - Cardinality({s \in gone : segments[s].known_lost})
               /\ lost_seqnos' = {s \in lost_seqnos : s >= lo /\ s \notin acks}
               /\ IF gone = {} THEN cwnd' = cwnd ELSE cwnd' \in Cwnds
               /\ status' = StatusAfter(closing, segments')
    /\ idle_since' = now
    /\ UNCHANGED <<now, next_free_seqno, last_loss, closing, recvVars>>

\* Mutants of Reorderer::insert: no upper end of the window; success also
\* for what is not kept.
InWindowNoLimit(seqno) == seqno >= min
InsertOkAlways(seqno) == TRUE

\* Reorderer::insert: what it keeps, and when it reports success.
InWindow(seqno) == seqno >= min /\ seqno <= min + RecvWindow
InsertOk(seqno) == InWindow(seqno) \/ seqno < min

\* Data: Reorderer::insert, Reorderer::take, and the ack bookkeeping.
Data(seqno) ==
    /\ PktTurn
    /\ delayed_ack_timer' = IF delayed_ack_timer = None THEN now + AckDelay
                            ELSE delayed_ack_timer
    /\ LET held == IF InWindow(seqno) THEN pkts \cup {seqno} ELSE pkts
       IN /\ ack_seqnos' = IF InsertOk(seqno)
                           THEN ack_seqnos \cup {seqno} ELSE ack_seqnos
          /\ \E m \in min .. min + Cardinality(held) :
              /\ min .. m - 1 \subseteq held /\ m \notin held
              /\ pkts' = held \ (min .. m - 1)
              /\ min' = m
              /\ lowest_unseen' = lowest_unseen + (m - min)
    /\ idle_since' = now
    /\ UNCHANGED <<now, status, sendVars>>

\* A Syn, SynAck, Fin or FinAck: "unrecognized event".
OtherPkt ==
    /\ PktTurn
    /\ idle_since' = now
    /\ UNCHANGED <<now, status, sendVars, recvVars>>

\* Mutant: the seqno is used again.
NewWriteSameSeqno ==
    /\ PktTurn /\ can_write_new /\ next_free_seqno < MaxSeqno
    /\ segments' = [s \in DOMAIN segments \cup {next_free_seqno} |->
          IF s = next_free_seqno THEN InflightEntry(0, now, FALSE) ELSE segments[s]]
    /\ UNCHANGED <<timers, status, rtos, lost_count, next_free_seqno, lost_seqnos,
                   last_loss, cwnd, closing, recvVars>>

\* ConnVarEvt::NewWrite: Inflight::insert.
NewWrite ==
    /\ PktTurn /\ can_write_new
    /\ next_free_seqno < MaxSeqno
    /\ next_free_seqno' = next_free_seqno + 1
    /\ \E rto \in Rtos :
        /\ segments' = [s \in DOMAIN segments \cup {next_free_seqno} |->
              IF s = next_free_seqno
              THEN InflightEntry(0, now + rto, FALSE)
              ELSE segments[s]]
        /\ rtos' = rtos \cup {<<now + rto, next_free_seqno>>}
    /\ idle_since' = now
    /\ UNCHANGED <<now, status, lost_count, lost_seqnos, last_loss, cwnd,
                   closing, recvVars>>

\* ConnVarEvt::Closing: the application's write half is finished.
Closing ==
    /\ PktTurn /\ can_write_new
    /\ closing' = TRUE
    /\ status' = StatusAfter(TRUE, segments)
    /\ idle_since' = now
    /\ UNCHANGED <<now, segments, rtos, lost_count, next_free_seqno,
                   lost_seqnos, last_loss, cwnd, recvVars>>

Tick ==
    /\ status = "steady" /\ now < MaxTime
    /\ now' = now + 1
    /\ UNCHANGED <<idle_since, status, sendVars, recvVars>>

NewPkt ==
    \/ BailPkt
    \/ \E lo \in 0 .. next_free_seqno :
        \E acks \in SUBSET (0 .. next_free_seqno - 1) : DataAck(lo, acks)
    \/ \E seqno \in 0 .. MaxPeerSeqno : Data(seqno)
    \/ OtherPkt

Next ==
    \/ Rto \/ Retransmit \/ AckTimer \/ FinalTimeout
    \/ NewPkt \/ NewWrite \/ Closing \/ Tick

Spec == Init /\ [][Next]_vars

-----------------------------------------------------------------------------
(* Properties *)

\* Types of the variables; seqnos outstanding are seqnos handed out.
TypeOK ==
    /\ now \in Nat /\ idle_since \in Nat
    /\ status \in {"steady", "closed", "reset", "timeout"}
    /\ next_free_seqno \in Nat
    /\ DOMAIN segments \subseteq 0 .. next_free_seqno - 1
    /\ segments \in [DOMAIN segments -> Entry]
    /\ rtos \subseteq Int \X Nat
    /\ lost_count \in Nat
    /\ lost_seqnos \subseteq Nat
    /\ last_loss \in Int
    /\ cwnd \in Cwnds
    /\ closing \in BOOLEAN
    /\ min \in Nat /\ lowest_unseen \in Nat
    /\ pkts \subseteq Nat /\ IsFiniteSet(pkts)
    /\ ack_seqnos \subseteq Nat /\ IsFiniteSet(ack_seqnos)
    /\ delayed_ack_timer \in Nat \cup {None}

\* The assertion process_one makes before and after every event: the count
\* Inflight keeps is the size of the set ConnVars keeps.  It holds because
\* both describe the same segments, those flagged known_lost, so that no
\* retransmission is asked for a segment that is gone (which would spin).
LostAgrees ==
    /\ lost_seqnos = {s \in DOMAIN segments : segments[s].known_lost}
    /\ lost_count = Cardinality(lost_seqnos)

\* Every unacknowledged segment is either waiting for its retransmission
\* or armed at its own deadline, and nothing else is armed: no segment is
\* forgotten, and first_rto never returns a lost or acknowledged one.
RtosExact == rtos = Armed(segments)

\* The assertion on ack_seqnos in next_event and AckTimer: a full batch is
\* flushed before another packet is taken from the wire.
AckBatchBound == Cardinality(ack_seqnos) <= AckBatch

\* A seqno waiting to be acknowledged has the delayed-ack timer running.
AckScheduled == ack_seqnos # {} => delayed_ack_timer # None

\* What the next ack packet claims is really held here: lowest_unseen
\* follows the Reorderer's min, and each seqno acknowledged one by one is
\* below it or buffered.  A rejected segment is never acknowledged.
AcksAreHeld ==
    /\ lowest_unseen = min
    /\ ack_seqnos \subseteq (0 .. min - 1) \cup pkts

\* The Reorderer never sits on a segment it could hand over, and holds
\* nothing beyond its window.
ReorderTight == pkts \subseteq min + 1 .. min + RecvWindow

=============================================================================
