----------------------------- MODULE LossStats ------------------------------
(***************************************************************************)
(* What the two ends of a session measure of the network.  One end sends   *)
(* numbered data frames; the other notes which of them are missing         *)
(* (RecvLossCalc) and how far they have come (StatsCalculator), and puts   *)
(* the latter into the frames of its own, from which the first end takes   *)
(* its round-trip times (PingCalc).  The network loses and reorders frames *)
(* of both directions: one that is lost stays on the way.  What the        *)
(* network duplicates is stopped by the replay filter (module Session).    *)
(*                                                                         *)
(* high_recv_frame_no and total_recv_frames are loaded one after the other *)
(* while a frame may come in; they are used apart, so one step reads both. *)
(***************************************************************************)
EXTENDS Integers, FiniteSets

CONSTANTS
    None,           \* no frame is timed
    GapAge,         \* age at which frames are counted (1 s)
    Window,         \* time between loss samples (1 s)
    Enough,         \* good frames that make a sample (100)
    MaxFrames,      \* bound: data frames sent
    MaxReports,     \* bound: frames sent the other way
    MaxTime         \* bound: time

ASSUME LossStatsAssumption ==
    /\ {GapAge, Window, Enough, MaxReports, MaxTime} \subseteq Nat
    /\ MaxFrames \in Nat \ {0} /\ None \notin Nat

Frames == 0 .. MaxFrames - 1

VARIABLES
    now,
    sent,           \* frame_no: the next frame
    inflight,       \* inflight_seqno
    acked,          \* acked_pkts
    lastAcked,      \* last_acked_pkts
    net,            \* data frames on the way
    delivered,      \* data frames received
    high,           \* high_recv_frame_no
    lastSeen,       \* last_seen_seqno
    good,           \* good_seqnos: the frames
    gap,            \* gap_seqnos: the frames
    at,             \* the time each frame of good and gap was entered with
    counts,         \* [good, lost]: good_count and lost_count
    sampledAt,      \* last_loss_update
    tally,          \* [good, lost]: what went into loss_samples so far
    reports,        \* frames of the other direction on the way
    reported        \* their number so far

pingVars == <<sent, inflight, acked, lastAcked>>
lossVars == <<lastSeen, good, gap, at, counts, sampledAt, tally>>
vars == <<now, pingVars, net, delivered, high, lossVars, reports, reported>>

Init ==
    /\ now = 0
    /\ sent = 0 /\ inflight = None /\ acked = 0 /\ lastAcked = 0
    /\ net = {} /\ delivered = {} /\ high = 0
    /\ lastSeen = 0 /\ good = {} /\ gap = {} /\ at = [n \in Frames |-> 0]
    /\ counts = [good |-> 1, lost |-> 0]
    /\ sampledAt = 0 /\ tally = [good |-> 0, lost |-> 0]
    /\ reports = {} /\ reported = 0

-----------------------------------------------------------------------------
(* The sender of data frames: PingCalc *)

\* session_send_loop and PingCalc::send: the frame is timed if none is.
Send ==
    /\ sent < MaxFrames
    /\ sent' = sent + 1
    /\ net' = net \cup {sent}
    /\ IF inflight = None
       THEN inflight' = sent /\ lastAcked' = acked
       ELSE UNCHANGED <<inflight, lastAcked>>
    /\ UNCHANGED <<now, acked, delivered, high, lossVars, reports, reported>>

\* The larger of what was acknowledged before and what is now.
Most(m, n) == IF m > n THEN m ELSE n

\* Mutant: the newest report is believed, though it may be an old one.
AckLatest(r) ==
    /\ r \in reports
    /\ reports' = reports \ {r}
    /\ acked' = r.total
    /\ inflight' = IF inflight # None /\ r.high >= inflight THEN None ELSE inflight
    /\ UNCHANGED <<now, sent, lastAcked, net, delivered, high, lossVars, reported>>

\* Mutant: any report answers the timed frame.
AckAny(r) == inflight # None

\* The report tells that the peer has the timed frame, or a later one.
Acks(r) == inflight # None /\ r.high >= inflight

\* PingCalc::ack, which takes a sample of the round-trip time, and of
\* acked - lastAcked packets over that time.
Ack(r) ==
    /\ r \in reports
    /\ reports' = reports \ {r}
    /\ acked' = Most(acked, r.total)
    /\ inflight' = IF Acks(r) THEN None ELSE inflight
    /\ UNCHANGED <<now, sent, lastAcked, net, delivered, high, lossVars, reported>>

-----------------------------------------------------------------------------
(* The receiver: RecvLossCalc and StatsCalculator *)

\* Mutant: a frame that fills a gap is entered with the present time.
SeenNow(n) ==
    [last |-> Most(lastSeen, n),
     gap |-> (gap \cup (lastSeen + 1 .. n - 1)) \ {n},
     good |-> IF n \in gap \/ n > lastSeen THEN good \cup {n} ELSE good,
     at |-> [m \in Frames |-> IF m > lastSeen \/ m = n THEN now ELSE at[m]]]

\* record, the beginning: a frame fills the gap it left, or is the highest
\* so far and leaves gaps below it; else it comes too late and is ignored.
Seen(n) ==
    [last |-> Most(lastSeen, n),
     gap |-> (gap \cup (lastSeen + 1 .. n - 1)) \ {n},
     good |-> IF n \in gap \/ n > lastSeen THEN good \cup {n} ELSE good,
     at |-> [m \in Frames |-> IF m \in lastSeen + 1 .. n THEN now ELSE at[m]]]

\* The frames of S before the first that is not yet old.
Old(S, times) ==
    {m \in S : \A k \in S : k <= m => now - times[k] > GapAge}

\* Mutant: frames that were lost stay in the count after it was sampled.
SampleKeeps(c) ==
    IF now - sampledAt > Window /\ c.good > Enough
    THEN /\ tally' = [good |-> tally.good + c.good, lost |-> tally.lost + c.lost]
         /\ counts' = [c EXCEPT !.good = 0] /\ sampledAt' = now
    ELSE counts' = c /\ UNCHANGED <<tally, sampledAt>>

\* The counts become a sample, and start again.
Sample(c) ==
    IF now - sampledAt > Window /\ c.good > Enough
    THEN /\ tally' = [good |-> tally.good + c.good, lost |-> tally.lost + c.lost]
         /\ counts' = [good |-> 0, lost |-> 0] /\ sampledAt' = now
    ELSE counts' = c /\ UNCHANGED <<tally, sampledAt>>

\* record: what is old enough is counted, as good or as lost.
Record(n) ==
    LET s == Seen(n)
        oldGood == Old(s.good, s.at)
        oldGap == Old(s.gap, s.at)
    IN
    /\ lastSeen' = s.last /\ at' = s.at
    /\ good' = s.good \ (oldGood \cup oldGap) /\ gap' = s.gap \ (oldGood \cup oldGap)
    /\ Sample([good |-> counts.good + Cardinality(oldGood),
               lost |-> counts.lost + Cardinality(oldGap)])

\* A data frame passes the replay filter: record and incoming.
Receive(n) ==
    /\ n \in net
    /\ net' = net \ {n}
    /\ delivered' = delivered \cup {n}
    /\ high' = Most(high, n)
    /\ Record(n)
    /\ UNCHANGED <<now, pingVars, reports, reported>>

\* A frame of the other direction is sent.
Report ==
    /\ reported < MaxReports
    /\ reported' = reported + 1
    /\ reports' = reports \cup {[high |-> high, total |-> Cardinality(delivered)]}
    /\ UNCHANGED <<now, pingVars, net, delivered, high, lossVars>>

Tick ==
    /\ now < MaxTime
    /\ now' = now + 1
    /\ UNCHANGED <<pingVars, net, delivered, high, lossVars, reports, reported>>

Next ==
    \/ Send \/ Report \/ Tick
    \/ \E n \in net : Receive(n)
    \/ \E r \in reports : Ack(r)

Spec == Init /\ [][Next]_vars

-----------------------------------------------------------------------------
(* Properties *)

\* Frames are entered in the order of their numbers, so that pruning may
\* stop at the first that is young: when a frame has been recorded, nothing
\* older than a second is left.
NothingOverdue ==
    [][delivered' # delivered => \A m \in good' \cup gap' : now - at'[m] <= GapAge]_vars

\* Every frame up to the last seen, but for the first of all, is accounted
\* for once: it has come in and waits as good, or has not and waits as
\* missing, or it was counted, and went into one sample at most.
\* (good_count starts with 1.)
Accounted ==
    /\ good \subseteq delivered /\ gap \cap delivered = {}
    /\ counts.good + counts.lost + tally.good + tally.lost
         + Cardinality(good) + Cardinality(gap) = lastSeen + 1

\* acked_pkts - last_acked_pkts does not underflow, though the reports come
\* in any order.
AckedGrows == lastAcked <= acked

\* A round-trip time is taken when the timed frame, or one sent after it,
\* has been received; of frames but the first of all.
PingIsRoundTrip ==
    [][inflight # None /\ inflight' = None /\ inflight > 0
        => \E n \in delivered : n >= inflight]_vars

\* "Highest delivered frame": the high_recv_frame_no of a frame was
\* delivered.
HighIsDelivered == \A r \in reports : r.high \in delivered
=============================================================================
