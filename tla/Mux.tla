-------------------------------- MODULE Mux ---------------------------------
(***************************************************************************)
(* The life of reliable connections between two Multiplex ends: the        *)
(* multiplex actor with its ConnTable and reaper, and relconn_actor's      *)
(* states SynSent, SteadyState and Reset, over sessions that lose and      *)
(* reorder packets.                                                        *)
(*                                                                         *)
(* Time is left out: a timer may fire whenever it is set, and a packet may *)
(* be delayed without limit.  Prompt = TRUE keeps only the behaviours in   *)
(* which the reaper finds no packet of its stream on the way, so that what *)
(* is found there does not depend on packets older than its 30 s.          *)
(* SynReceived sends its SYN-ACK and becomes SteadyState without waiting,  *)
(* in the step that accepts the connection.  Of the data, a segment's      *)
(* seqno and the connection it was written to are kept; a segment out of   *)
(* order is left to its retransmission (RelStream has the rest).           *)
(***************************************************************************)
EXTENDS Integers, Sequences, FiniteSets

CONSTANTS
    Ids,            \* stream ids (u16 in the code)
    Openers,        \* the ends whose application calls open_conn
    MaxFinding,     \* open tasks of an end between find_id and set_stream
    Prompt,         \* whether the reaper waits for the stream's packets
    MaxTries,       \* tries > MaxTries ends SynSent (5)
    Capacity,       \* packets on the way; the channels drop the rest
    MaxConns,       \* bound: connections ever created, both ends together
    MaxSeqno        \* bound: segments written to a connection

Ends == {"a", "b"}

ASSUME MuxAssumption ==
    /\ Openers \subseteq Ends /\ Prompt \in BOOLEAN
    /\ {MaxFinding, MaxTries, Capacity, MaxConns, MaxSeqno} \subseteq Nat

VARIABLES
    conns,          \* every RelConn so far, in order of creation
    table,          \* ConnTable of each end: stream id -> connection, or 0
    net             \* packets on the way

vars == <<conns, table, net>>

Other(e) == IF e = "a" THEN "b" ELSE "a"
Running == {"synsent", "steady", "reset"}

\* state: "found" (id chosen, not in the table), the states of the actor,
\* "ended" (actor returned), "cancelled" (task dropped), "reaped".
\* app: what became of the RelConn itself: "opening" and then "held" for an
\* opener; "queued", "held" or "dropped" for an acceptor.
\* raced: whether its set_stream replaced an entry (for CancelledByRace).
Conn(end, id, app, state) ==
    [end |-> end, id |-> id, app |-> app, state |-> state, tries |-> 0,
     sent |-> 0, got |-> <<>>, raced |-> FALSE]

\* Connection k in another state; what belongs to the old one goes with it.
Enter(k, state) == [k EXCEPT !.state = state, !.tries = 0, !.sent = 0, !.got = <<>>]

\* The accept queue of an end, by index and so in order of arrival.
Queued(e) == {c \in DOMAIN conns : conns[c].end = e /\ conns[c].app = "queued"}

Packet(to, kind, id, from, seqno) ==
    [to |-> to, kind |-> kind, id |-> id, from |-> from, seqno |-> seqno]

\* A packet of connection c (by index) to the peer.
PacketOf(c, kind) == Packet(Other(conns[c].end), kind, conns[c].id, 0, 0)

\* Hands a packet to the session; a full channel drops it.
Send(pkts, p) == IF Cardinality(pkts) < Capacity THEN pkts \cup {p} ELSE pkts

PacketsGone(c) == \A p \in net : p.id # conns[c].id

Init == conns = <<>> /\ table = [e \in Ends |-> [i \in Ids |-> 0]] /\ net = {}

-----------------------------------------------------------------------------
(* Opening *)

\* Event::ConnOpen spawns a task; find_id picks an id the table lacks.
FindId(e, i) ==
    /\ e \in Openers /\ Len(conns) < MaxConns
    /\ Cardinality({c \in DOMAIN conns : conns[c].end = e /\ conns[c].state = "found"})
          < MaxFinding
    /\ table[e][i] = 0
    /\ conns' = Append(conns, Conn(e, i, "opening", "found"))
    /\ UNCHANGED <<table, net>>

\* Mutant: the connection is not put into the table.
SetStreamUnlisted(c) ==
    /\ conns[c].state = "found"
    /\ conns' = [conns EXCEPT ![c].state = "synsent"]
    /\ net' = Send(net, PacketOf(c, "syn"))
    /\ UNCHANGED table

\* RelConn::new in SynSent, set_stream, and the first SYN.  An entry that
\* set_stream replaces loses its RelConnBack, which cancels its task.
SetStream(c) ==
    /\ conns[c].state = "found"
    /\ LET e == conns[c].end
           i == conns[c].id
           old == table[e][i]
       IN /\ conns' = [k \in DOMAIN conns |->
                 IF k = c THEN [Enter(conns[k], "synsent") EXCEPT !.raced = old # 0]
                 ELSE IF k = old /\ conns[k].state \in Running
                 THEN Enter(conns[k], "cancelled")
                 ELSE conns[k]]
          /\ table' = [table EXCEPT ![e][i] = c]
    /\ net' = Send(net, PacketOf(c, "syn"))

\* Mutant: tries are not counted.
SynTimeoutUncounted(c) ==
    /\ conns[c].state = "synsent"
    /\ net' = Send(net, PacketOf(c, "syn"))
    /\ UNCHANGED <<conns, table>>

\* SynSent's timer: the SYN again, or the end of the actor after the last try.
SynTimeout(c) ==
    /\ conns[c].state = "synsent"
    /\ IF conns[c].tries + 1 > MaxTries
       THEN conns' = [conns EXCEPT ![c] = Enter(@, "ended")]
       ELSE conns' = [conns EXCEPT ![c].tries = @ + 1]
    /\ net' = Send(net, PacketOf(c, "syn"))
    /\ UNCHANGED table

-----------------------------------------------------------------------------
(* Event::RecvMsg *)

\* Mutant: a SYN is not looked up in the table.
RecvSynAnew(p) ==
    /\ p \in net /\ p.kind = "syn" /\ Len(conns) < MaxConns
    /\ LET old == table[p.to][p.id]
       IN conns' = Append([k \in DOMAIN conns |->
                              IF k = old /\ conns[k].state \in Running
                              THEN Enter(conns[k], "cancelled") ELSE conns[k]],
                          Conn(p.to, p.id, "queued", "steady"))
    /\ table' = [table EXCEPT ![p.to][p.id] = Len(conns) + 1]
    /\ net' = Send(net \ {p}, Packet(Other(p.to), "synack", p.id, 0, 0))

\* A SYN: an entry is answered for, whatever became of its actor; otherwise
\* the connection is entered and its actor sends the SYN-ACK, and then the
\* RelConn is offered to the accept queue, or dropped when that is full
\* (of connections under any ids, so at any time).
RecvSyn(p) ==
    /\ p \in net /\ p.kind = "syn"
    /\ LET rest == net \ {p}
           synack == Packet(Other(p.to), "synack", p.id, 0, 0)
       IN IF table[p.to][p.id] # 0
          THEN net' = Send(rest, synack) /\ UNCHANGED <<conns, table>>
          ELSE /\ Len(conns) < MaxConns
               /\ \E app \in {"queued", "dropped"} :
                     conns' = Append(conns, Conn(p.to, p.id, app, "steady"))
               /\ table' = [table EXCEPT ![p.to][p.id] = Len(conns) + 1]
               /\ net' = Send(rest, synack)

\* What relconn_actor does with a packet, by its state.  In SynSent any
\* packet of the stream completes the opening, and is consumed by it.
Handle(c, p) ==
    LET k == conns[c]
        rest == net \ {p}
        rst == PacketOf(c, "rst")
    IN CASE k.state = "synsent" ->
              /\ conns' = [conns EXCEPT ![c] = [Enter(@, "steady") EXCEPT !.app = "held"]]
              /\ net' = rest
         [] k.state = "steady" /\ p.kind = "rst" ->
              /\ conns' = [conns EXCEPT ![c] = Enter(@, "reset")]
              /\ net' = Send(rest, rst)
         [] k.state = "steady" /\ p.kind = "data" ->
              /\ conns' = IF p.seqno = Len(k.got)
                          THEN [conns EXCEPT ![c].got = Append(@, p.from)]
                          ELSE conns
              /\ net' = rest
         [] k.state = "reset" /\ p.kind = "rst" ->
              /\ conns' = [conns EXCEPT ![c] = Enter(@, "ended")]
              /\ net' = rest
         [] k.state = "reset" /\ p.kind # "rst" ->
              /\ conns' = conns
              /\ net' = Send(rest, rst)
         [] OTHER -> conns' = conns /\ net' = rest

\* Mutant: a packet of a stream that is not in the table is not answered.
RecvRelSilent(p) ==
    /\ p \in net /\ p.kind # "syn"
    /\ IF table[p.to][p.id] # 0
       THEN Handle(table[p.to][p.id], p)
       ELSE conns' = conns /\ net' = net \ {p}
    /\ UNCHANGED table

\* Any other packet of a stream: to its actor, or an RST when there is none.
RecvRel(p) ==
    /\ p \in net /\ p.kind # "syn"
    /\ IF table[p.to][p.id] # 0
       THEN Handle(table[p.to][p.id], p)
       ELSE /\ conns' = conns
            /\ net' = IF p.kind = "rst" THEN net \ {p}
                      ELSE Send(net \ {p}, Packet(Other(p.to), "rst", p.id, 0, 0))
    /\ UNCHANGED table

\* accept_conn: the application takes the first RelConn of the queue.
AcceptConn(e) ==
    /\ \E c \in Queued(e) :
        /\ \A k \in Queued(e) : c <= k
        /\ conns' = [conns EXCEPT ![c].app = "held"]
    /\ UNCHANGED <<table, net>>

\* Event::SessionReplace: what is on its way over the old session is lost.
SessionReplace(e) ==
    /\ net' = {p \in net : p.to # e}
    /\ UNCHANGED <<conns, table>>

-----------------------------------------------------------------------------
(* SteadyState, Reset and the reaper *)

\* A new segment, or the retransmission of one.
SendData(c) ==
    /\ conns[c].state = "steady"
    /\ \E s \in 0 .. conns[c].sent :
        /\ s < MaxSeqno
        /\ conns' = IF s < conns[c].sent THEN conns ELSE [conns EXCEPT ![c].sent = @ + 1]
        /\ net' = Send(net, Packet(Other(conns[c].end), "data", conns[c].id, c, s))
    /\ UNCHANGED table

\* process_one fails: the RelConn was closed or dropped, or final_timeout.
LeaveSteady(c) ==
    /\ conns[c].state = "steady"
    /\ conns' = [conns EXCEPT ![c] = Enter(@, "reset")]
    /\ net' = Send(net, PacketOf(c, "rst"))
    /\ UNCHANGED table

\* The death timer of Reset.
Die(c) ==
    /\ conns[c].state = "reset"
    /\ conns' = [conns EXCEPT ![c] = Enter(@, "ended")]
    /\ UNCHANGED <<table, net>>

\* Event::Dead, 30 s after the actor returned or was cancelled: del_stream
\* takes whatever is in the table under the id, cancelling it.
Reap(c) ==
    /\ conns[c].state \in {"ended", "cancelled"}
    /\ Prompt => PacketsGone(c)
    /\ LET e == conns[c].end
           i == conns[c].id
           old == table[e][i]
       IN /\ conns' = [k \in DOMAIN conns |->
                 IF k = c THEN Enter(conns[k], "reaped")
                 ELSE IF k = old /\ conns[k].state \in Running
                 THEN Enter(conns[k], "cancelled")
                 ELSE conns[k]]
          /\ table' = [table EXCEPT ![e][i] = 0]
    /\ UNCHANGED net

Lose == \E p \in net : net' = net \ {p} /\ UNCHANGED <<conns, table>>

Next ==
    \/ \E e \in Ends, i \in Ids : FindId(e, i)
    \/ \E c \in DOMAIN conns :
        SetStream(c) \/ SynTimeout(c) \/ SendData(c) \/ LeaveSteady(c)
        \/ Die(c) \/ Reap(c)
    \/ \E p \in net : RecvSyn(p) \/ RecvRel(p)
    \/ \E e \in Ends : AcceptConn(e) \/ SessionReplace(e)
    \/ Lose

Spec == Init /\ [][Next]_vars

-----------------------------------------------------------------------------
(* Fairness.  The timers of SynSent, of Reset and of the reaper fire, and  *)
(* the actor of a dropped RelConn finds its pipe closed (weak).  A         *)
(* connection whose peer is gone and that hears nothing runs into          *)
(* final_timeout (weak); if it does send again and again, not all of what  *)
(* it sends is lost, nor all of the RSTs this provokes (strong).  Packets  *)
(* do not stay on the way for ever (weak).                                 *)

\* No actor runs at the other end of connection c.
PeerGone(c) ==
    LET k == table[Other(conns[c].end)][conns[c].id]
    IN k # 0 => conns[k].state \notin Running

\* The actor's own next step, whatever its state.
Due(c) ==
    \/ SynTimeout(c) \/ Die(c) \/ Reap(c)
    \/ LeaveSteady(c) /\ (conns[c].app = "dropped" \/ (PeerGone(c) /\ PacketsGone(c)))
RecvKind(e, kind) == \E p \in net : p.to = e /\ p.kind = kind /\ RecvRel(p)

Fairness ==
    /\ \A c \in 1 .. MaxConns : WF_vars(c \in DOMAIN conns /\ Due(c))
    /\ \A e \in Ends : SF_vars(RecvKind(e, "rst")) /\ SF_vars(RecvKind(e, "data"))
    /\ WF_vars(Lose \/ \E p \in net : RecvSyn(p) \/ RecvRel(p))

FairSpec == Spec /\ Fairness

-----------------------------------------------------------------------------
(* Properties *)

\* An actor that runs can be reached: the table of its end has it under its
\* id.  An actor without an entry would wait for its timers in vain.
RunningIsListed ==
    \A c \in DOMAIN conns :
        conns[c].state \in Running => table[conns[c].end][conns[c].id] = c

\* A connection is cut off by the table only under an id that two openings,
\* or an opening and a SYN, had chosen at once: elsewhere set_stream finds
\* no entry, and the reaper of an ended connection no other than its own.
CancelledByRace ==
    \A c \in DOMAIN conns : conns[c].state = "cancelled" =>
        \E k \in DOMAIN conns : /\ conns[k].end = conns[c].end
                                /\ conns[k].id = conns[c].id
                                /\ conns[k].raced

\* A RelConn is one stream: everything its reader gets was written to one
\* and the same connection of the peer.
StreamsNotMixed ==
    \A c \in DOMAIN conns :
        \A m, n \in DOMAIN conns[c].got : conns[c].got[m] = conns[c].got[n]

\* The state of a connection, also before there is one.
State(c) == IF c \in DOMAIN conns THEN conns[c].state ELSE "none"

\* No actor stays for ever where only timers and answers lead on: an attempt
\* to open, with its repeated SYNs, is answered or gives its id back, and so
\* does a connection that was reset or cut off, whatever is lost.
NoneLingers ==
    \A c \in 1 .. MaxConns :
        State(c) \in {"synsent", "reset", "ended", "cancelled"}
            ~> State(c) \in {"steady", "reaped"}

\* A connection that is open, by whatever packet, while the other end has
\* nobody for it: nothing runs there under its id, or what runs is the actor
\* of a RelConn for which the accept queue had no room.
Stranded(c) ==
    /\ State(c) = "steady"
    /\ LET k == table[Other(conns[c].end)][conns[c].id]
       IN k = 0 \/ conns[k].state \notin Running \/ conns[k].app = "dropped"

\* It does not stay in SteadyState for ever, talking to nobody, also when
\* RSTs are lost, or when a late RST or segment of an earlier stream was
\* taken for the SYN-ACK: what it sends provokes an RST, or it times out.
StrandedIsTold == \A c \in 1 .. MaxConns : Stranded(c) ~> ~Stranded(c)
=============================================================================
