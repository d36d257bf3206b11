------------------------------ MODULE Session -------------------------------
(***************************************************************************)
(* One direction of a Session: session_send_loop_nextgen, which numbers    *)
(* payloads and sends parity for every run of them, and the peer's         *)
(* RecvMachine, with its ReplayFilter and the OobDecoder that recovers     *)
(* lost frames.                                                            *)
(*                                                                         *)
(* Whatever is sent may be received never, once or many times, in any      *)
(* order, so net only grows; a parity frame dropped by a full outgoing     *)
(* channel is one that is never received.  Reed-Solomon is modelled by its *)
(* contract: any `count' frames of a run give back the rest.  A parity     *)
(* frame therefore carries the payloads of its run.  The number of parity  *)
(* frames is repair_len's, a float computation, of which only the bound is *)
(* kept.                                                                   *)
(***************************************************************************)
EXTENDS Integers, Sequences, FiniteSets

CONSTANTS
    Payloads,
    BURST_SIZE,     \* 16
    Window,         \* of ReplayFilter: 10000
    DataCache,      \* data_frames: 100
    ParityCache,    \* parity_space: 10
    MaxFrames,      \* bound: frames numbered by the sender
    MaxParity       \* bound: parity frames of a run

ASSUME SessionAssumption ==
    /\ BURST_SIZE \in Nat \ {0} /\ Window \in Nat
    /\ DataCache \in Nat \ {0} /\ ParityCache \in Nat \ {0}
    /\ MaxFrames \in Nat /\ MaxParity \in Nat

VARIABLES
    frame_no,       \* of the next data frame
    unfecked,       \* frames without parity: <<[no, body], ...>>
    net,            \* everything ever sent
    top_seqno, bottom_seqno, seen_seqno,    \* ReplayFilter
    data_frames,    \* frame numbers held, most recently used first
    parity_space,   \* runs with parity held, most recently used first
    got             \* payloads handed to the application, by frame number

sender == <<frame_no, unfecked, net>>
filter == <<top_seqno, bottom_seqno, seen_seqno>>
decoder == <<data_frames, parity_space>>
vars == <<sender, filter, decoder, got>>

Frames == 0 .. MaxFrames - 1

Larger(m, n) == IF m > n THEN m ELSE n

Init ==
    /\ frame_no = 0 /\ unfecked = <<>> /\ net = {}
    /\ top_seqno = 0 /\ bottom_seqno = 0 /\ seen_seqno = {}
    /\ data_frames = <<>> /\ parity_space = <<>>
    /\ got = [n \in Frames |-> <<>>]

-----------------------------------------------------------------------------
(* Sending *)

\* Mutant: one frame more than fits.
BurstFullLate == Len(unfecked) > BURST_SIZE

\* A full run is dealt with before any payload: the future of FecTimeout is
\* polled first, and is ready at once when unfecked is full.
BurstFull == Len(unfecked) >= BURST_SIZE

\* Mutant: frame_no is not incremented.
NewPayloadSameNo ==
    /\ ~BurstFull /\ frame_no < MaxFrames
    /\ \E b \in Payloads :
        /\ net' = net \cup {[kind |-> "data", no |-> frame_no, body |-> b]}
        /\ unfecked' = Append(unfecked, [no |-> frame_no, body |-> b])
    /\ UNCHANGED <<frame_no, filter, decoder, got>>

\* Event::NewPayload.
NewPayload ==
    /\ ~BurstFull /\ frame_no < MaxFrames
    /\ \E b \in Payloads :
        /\ net' = net \cup {[kind |-> "data", no |-> frame_no, body |-> b]}
        /\ unfecked' = Append(unfecked, [no |-> frame_no, body |-> b])
    /\ frame_no' = frame_no + 1
    /\ UNCHANGED <<filter, decoder, got>>

\* Mutant: the number after the first frame's.
ParityFramesShifted(parity) ==
    {[kind |-> "parity", first |-> unfecked[1].no + 1, count |-> Len(unfecked),
      parity |-> parity, index |-> k,
      run |-> [j \in 1 .. Len(unfecked) |-> unfecked[j].body]] : k \in 0 .. parity - 1}

\* The parity frames of a run: data_frame_first, data_count and parity_count
\* name the run, parity_index the frame.
ParityFrames(parity) ==
    {[kind |-> "parity", first |-> unfecked[1].no, count |-> Len(unfecked),
      parity |-> parity, index |-> k,
      run |-> [j \in 1 .. Len(unfecked) |-> unfecked[j].body]] : k \in 0 .. parity - 1}

\* repair_len is at most twice the length of the run.
RepairLens == {n \in 0 .. MaxParity : n <= 2 * Len(unfecked)}

\* Event::FecTimeout; with no measured loss there is no parity.
FecTimeout ==
    /\ unfecked # <<>>
    /\ \E parity \in RepairLens : net' = net \cup ParityFrames(parity)
    /\ unfecked' = <<>>
    /\ UNCHANGED <<frame_no, filter, decoder, got>>

-----------------------------------------------------------------------------
(* Receiving *)

\* Mutant: no check against bottom_seqno.
AcceptedOld(nos) == {n \in nos : n \notin seen_seqno}

\* ReplayFilter::add for each of an ascending list of numbers: the ones it
\* accepts, and its state afterwards.  A number is never affected by the
\* smaller ones before it: they move bottom_seqno to less than themselves.
Accepted(nos) == {n \in nos : n >= bottom_seqno /\ n \notin seen_seqno}

Highest(nos) ==
    IF nos = {} THEN 0 ELSE CHOOSE n \in nos : \A m \in nos : m <= n

FilterAddNarrow(nos) ==
    /\ top_seqno' = Larger(top_seqno, Highest(Accepted(nos)))
    /\ bottom_seqno' = Larger(bottom_seqno, top_seqno' - Window + 1)
    /\ seen_seqno' = {n \in seen_seqno \cup Accepted(nos) : n >= bottom_seqno'}

FilterAdd(nos) ==
    /\ top_seqno' = Larger(top_seqno, Highest(Accepted(nos)))
    /\ bottom_seqno' = Larger(bottom_seqno, top_seqno' - Window)
    /\ seen_seqno' = {n \in seen_seqno \cup Accepted(nos) : n >= bottom_seqno'}

\* What the filter lets through goes to the application; body gives the
\* payload of a number.
Deliver(nos, body) ==
    got' = [n \in Frames |-> IF n \in Accepted(nos)
                             THEN Append(got[n], body[n]) ELSE got[n]]

\* SizedCache (external): the entry used last comes first, and the size is
\* kept by dropping from the end.
Kept(cache, size) == SubSeq(cache, 1, IF Len(cache) < size THEN Len(cache) ELSE size)
Touch(cache, k) == <<k>> \o SelectSeq(cache, LAMBDA x : x # k)

\* A DataFrameV2::Data.
RecvData(p) ==
    /\ p \in net /\ p.kind = "data"
    /\ FilterAdd({p.no})
    /\ Deliver({p.no}, [n \in {p.no} |-> p.body])
    /\ data_frames' = IF Accepted({p.no}) = {} THEN data_frames
                      ELSE Kept(Touch(data_frames, p.no), DataCache)
    /\ UNCHANGED <<sender, parity_space>>

\* The ParitySpaceKey of a parity frame, and the frames of its run.
Key(p) == [first |-> p.first, count |-> p.count, parity |-> p.parity]
RunOf(key) == key.first .. key.first + key.count - 1

HasKey(key) == \E j \in DOMAIN parity_space : parity_space[j].key = key
EntryOf(key) ==
    IF HasKey(key)
    THEN LET j == CHOOSE j \in DOMAIN parity_space : parity_space[j].key = key
         IN parity_space[j]
    ELSE [key |-> key, held |-> {}, done |-> FALSE]

\* cache_get_or_set_with, and what is then written through the reference.
PutEntry(key, held, done) ==
    Kept(<<[key |-> key, held |-> held, done |-> done]>>
            \o SelectSeq(parity_space, LAMBDA e : e.key # key),
         ParityCache)

Held == {data_frames[j] : j \in DOMAIN data_frames}

\* cache_get of every frame of the run moves those held to the front.
TouchRun(key) ==
    SelectSeq([j \in 1 .. key.count |-> key.first + key.count - j], LAMBDA n : n \in Held)
        \o SelectSeq(data_frames, LAMBDA n : n \notin RunOf(key))

\* Whether an iteration over the parity frames held and the mark 255 may
\* begin with the mark.  An FxHashMap with up to three keys has four slots,
\* key k in slot k % 4 while that is free; the mark, entered last, would be
\* in slot 3, else in the lowest free one.  Larger maps are left open.
MarkMayLead(held) ==
    \/ Cardinality(held) > 2
    \/ (\E k \in held : k % 4 = 3) /\ (\A k \in held : k % 4 # 0)

\* FrameDecoder: the first shard sets the shard size.  The mark has an empty
\* body; if it is the first, every parity frame has the wrong size.
Decodes(key, markFirst) == RunOf(key) \cap Held # {} \/ ~markFirst

\* insert_parity: the numbers recovered, those of the run that are not held.
Recovered(key, markFirst) ==
    IF Decodes(key, markFirst) THEN RunOf(key) \ Held ELSE {}

\* A DataFrameV2::Parity.
RecvParity(p) ==
    /\ p \in net /\ p.kind = "parity"
    /\ LET key == Key(p)
           entry == EntryOf(key)
           held == entry.held \cup {p.index}
           enough == Cardinality(RunOf(key) \cap Held) + Cardinality(held) >= key.count
           body == [n \in RunOf(key) |-> p.run[n - p.first + 1]]
       IN IF entry.done
          THEN /\ parity_space' = PutEntry(key, entry.held, TRUE)
               /\ UNCHANGED <<filter, data_frames, got>>
          ELSE /\ parity_space' = PutEntry(key, held, enough)
               /\ data_frames' = TouchRun(key)
               /\ \E markFirst \in {FALSE, MarkMayLead(held)} :
                   LET nos == IF enough THEN Recovered(key, markFirst) ELSE {}
                   IN FilterAdd(nos) /\ Deliver(nos, body)
    /\ UNCHANGED sender

Next ==
    \/ NewPayload
    \/ FecTimeout
    \/ \E p \in net : RecvData(p) \/ RecvParity(p)

Spec == Init /\ [][Next]_vars

-----------------------------------------------------------------------------
(* Properties *)

Run == [no : Frames, body : Payloads]

\* The assertion before a run is encoded: it never has more than BURST_SIZE
\* frames, whatever the order in which timer and payloads become ready.
BurstBound == Len(unfecked) <= BURST_SIZE

\* A run is named by its first frame and its length alone, so unfecked must
\* be the last frames numbered, without a gap.
RunContiguous ==
    \A j \in DOMAIN unfecked : unfecked[j].no = frame_no - Len(unfecked) + j - 1

\* No frame reaches the application twice: not by duplication, not by being
\* recovered and then received, not after its number left the window.
AtMostOnce == \A n \in Frames : Len(got[n]) <= 1

\* ReplayFilter rejects only repeats and what is more than Window behind.
FilterExact ==
    /\ bottom_seqno = Larger(0, top_seqno - Window)
    /\ \A n \in Frames : n >= bottom_seqno => (n \in seen_seqno <=> got[n] # <<>>)

\* What is delivered under a frame number, received or recovered, is the
\* payload that was sent under it.
DeliveredIsSent ==
    \A n \in Frames : \A j \in DOMAIN got[n] :
        [kind |-> "data", no |-> n, body |-> got[n][j]] \in net

\* The payloads sent, each under its number.
DataSent == {[no |-> p.no, body |-> p.body] : p \in {q \in net : q.kind = "data"}}

\* Over a network that loses, repeats and reorders packets a session is a
\* channel of datagrams: numbered apart, unchanged, each at most once.
Abstract == INSTANCE Datagrams WITH Numbers <- Frames, sent <- DataSent
ImplementsDatagrams == Abstract!Spec

\* "if 255 is set, this means that the parity is done": every frame of a run
\* that is marked done was delivered, or is behind the window.
DoneIsDelivered ==
    \A j \in DOMAIN parity_space : parity_space[j].done =>
        \A n \in RunOf(parity_space[j].key) : got[n] # <<>> \/ n < bottom_seqno
=============================================================================
