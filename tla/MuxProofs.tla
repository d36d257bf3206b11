----------------------------- MODULE MuxProofs ------------------------------
(***************************************************************************)
(* What the ConnTables of two Multiplex ends keep true, for any number of  *)
(* ids, connections, tries and packets, and however packets are lost,      *)
(* delayed and reordered.                                                  *)
(***************************************************************************)
EXTENDS Mux, FiniteSetTheorems, SequenceTheorems, TLAPS

States == {"found", "synsent", "steady", "reset", "ended", "cancelled", "reaped"}
Apps == {"opening", "queued", "held", "dropped"}
Conns == [end : Ends, id : Ids, app : Apps, state : States, tries : Nat, sent : Nat,
          got : Seq(Nat), raced : BOOLEAN]
Packets == [to : Ends, kind : {"syn", "synack", "rst", "data"}, id : Ids, from : Nat,
            seqno : Nat]

Typed ==
    /\ conns \in Seq(Conns)
    /\ table \in [Ends -> [Ids -> Nat]]
    /\ net \subseteq Packets

\* An entry of a table is a connection of that end, under its id.
EntryIsOwn ==
    \A e \in Ends, i \in Ids : table[e][i] # 0 =>
        /\ table[e][i] \in 1 .. Len(conns)
        /\ conns[table[e][i]].end = e /\ conns[table[e][i]].id = i

Inv == Typed /\ EntryIsOwn /\ RunningIsListed

-----------------------------------------------------------------------------
(* What the steps do to connections, table and network *)

\* Connection c goes on to a state, and its RelConn to a place; what they
\* are of no other connection changes, nor any connection's end and id.
Moves(c, state, app) ==
    /\ conns' \in Seq(Conns) /\ Len(conns') = Len(conns) /\ c \in 1 .. Len(conns)
    /\ \A k \in 1 .. Len(conns) :
        /\ conns'[k].end = conns[k].end /\ conns'[k].id = conns[k].id
        /\ conns'[k].state = IF k = c THEN state ELSE conns[k].state
        /\ conns'[k].app = IF k = c THEN app ELSE conns[k].app
        /\ conns'[k].raced = conns[k].raced

\* A connection is added.
Grows(end, id, app, state) ==
    /\ conns' \in Seq(Conns) /\ Len(conns') = Len(conns) + 1
    /\ \A k \in 1 .. Len(conns) : conns'[k] = conns[k]
    /\ LET r == conns'[Len(conns) + 1]
       IN r.end = end /\ r.id = id /\ r.app = app /\ r.state = state /\ ~r.raced

\* An entry of a table is set.
Lists(e, i, c) ==
    /\ table' \in [Ends -> [Ids -> Nat]]
    /\ \A f \in Ends, j \in Ids :
        table'[f][j] = IF f = e /\ j = i THEN c ELSE table[f][j]

\* At most a packet of a kind, to an end and under an id, is sent.
Sends(to, kind, id) ==
    /\ net' \subseteq Packets
    /\ \A q \in net' : q \in net \/ (q.to = to /\ q.kind = kind /\ q.id = id)

LEMMA TypeFacts ==
    ASSUME Typed
    PROVE  /\ Len(conns) \in Nat /\ DOMAIN conns = 1 .. Len(conns)
           /\ \A k \in 1 .. Len(conns) :
                /\ conns[k] \in Conns /\ conns[k].end \in Ends /\ conns[k].id \in Ids
                /\ conns[k].state \in States /\ conns[k].app \in Apps
                /\ conns[k].raced \in BOOLEAN
           /\ \A p \in net : p \in Packets /\ p.to \in Ends /\ p.id \in Ids
           /\ \A e \in Ends, i \in Ids : table[e][i] \in Nat
           /\ \A e \in Ends : Other(e) \in Ends /\ Other(Other(e)) = e /\ Other(e) # e
<1>1. Len(conns) \in Nat /\ DOMAIN conns = 1 .. Len(conns)
  BY DEF Typed
<1>2. \A k \in 1 .. Len(conns) : conns[k] \in Conns
  BY DEF Typed
<1>3. \A r \in Conns : /\ r.end \in Ends /\ r.id \in Ids /\ r.state \in States
                      /\ r.app \in Apps /\ r.raced \in BOOLEAN
  BY DEF Conns
<1>4. \A p \in net : p \in Packets /\ p.to \in Ends /\ p.id \in Ids
  BY DEF Typed, Packets
<1>5. \A e \in Ends, i \in Ids : table[e][i] \in Nat
  BY DEF Typed
<1>6. \A e \in Ends : Other(e) \in Ends /\ Other(Other(e)) = e /\ Other(e) # e
  BY DEF Ends, Other
<1> QED  BY <1>1, <1>2, <1>3, <1>4, <1>5, <1>6, Zenon

\* Changing a field of one connection.
LEMMA SetState ==
    ASSUME Typed, NEW c \in 1 .. Len(conns), NEW state \in States, NEW r \in Conns,
           conns' = [conns EXCEPT ![c] = r],
           r.end = conns[c].end, r.id = conns[c].id, r.state = state,
           r.raced = conns[c].raced
    PROVE  Moves(c, state, r.app)
BY TypeFacts DEF Typed, Moves

\* A connection that enters a state is otherwise the one it was.
LEMMA EnterConn ==
    ASSUME NEW k \in Conns, NEW state \in States
    PROVE  /\ Enter(k, state) \in Conns /\ Enter(k, state).state = state
           /\ Enter(k, state).end = k.end /\ Enter(k, state).id = k.id
           /\ Enter(k, state).app = k.app /\ Enter(k, state).raced = k.raced
<1>1. 0 \in Nat /\ <<>> \in Seq(Nat)
  OBVIOUS
<1> QED  BY <1>1, Zenon DEF Enter, Conns

LEMMA Entering ==
    ASSUME Typed, NEW c \in 1 .. Len(conns), NEW state \in States,
           conns' = [conns EXCEPT ![c] = Enter(@, state)]
    PROVE  Moves(c, state, conns[c].app)
<1>1. conns[c] \in Conns /\ c \in DOMAIN conns
  BY TypeFacts, Zenon
<1>2. conns' = [conns EXCEPT ![c] = Enter(conns[c], state)]
  BY <1>1, Zenon
<1>3. PICK r : r = Enter(conns[c], state)
  OBVIOUS
<1>4. /\ r \in Conns /\ r.end = conns[c].end /\ r.id = conns[c].id /\ r.state = state
      /\ r.app = conns[c].app /\ r.raced = conns[c].raced
  BY <1>1, <1>3, EnterConn, Zenon
<1>5. Moves(c, state, r.app)
  BY <1>2, <1>3, <1>4, SetState
<1> QED  BY <1>4, <1>5

\* Adding one.
LEMMA AddConn ==
    ASSUME Typed, NEW end \in Ends, NEW id \in Ids, NEW app \in Apps, NEW state \in States,
           conns' = Append(conns, Conn(end, id, app, state))
    PROVE  Grows(end, id, app, state)
<1> DEFINE r == Conn(end, id, app, state)
<1>1. /\ r \in Conns /\ r.end = end /\ r.id = id /\ r.app = app /\ r.state = state
      /\ r.raced = FALSE
  BY DEF Conn, Conns
<1> HIDE DEF r
<1>2. conns' = Append(conns, r)
  BY DEF r
<1> QED  BY <1>1, <1>2 DEF Typed, Grows

\* Setting an entry.
LEMMA SetEntry ==
    ASSUME Typed, NEW e \in Ends, NEW i \in Ids, NEW c \in Nat,
           table' = [table EXCEPT ![e][i] = c]
    PROVE  Lists(e, i, c)
<1>1. table' = [table EXCEPT ![e] = [table[e] EXCEPT ![i] = c]]
  BY Zenon DEF Typed
<1> QED  BY <1>1 DEF Typed, Lists

\* Sending a packet, of those received or not.
LEMMA SendsOne ==
    ASSUME Typed, NEW rest, rest \subseteq net, NEW to \in Ends, NEW id \in Ids,
           NEW kind \in {"syn", "synack", "rst", "data"}, NEW from \in Nat, NEW seqno \in Nat,
           net' = Send(rest, Packet(to, kind, id, from, seqno))
    PROVE  Sends(to, kind, id)
<1> DEFINE p == Packet(to, kind, id, from, seqno)
<1>1. p \in Packets /\ p.to = to /\ p.kind = kind /\ p.id = id
  BY DEF Packet, Packets
<1> HIDE DEF p
<1>2. net' \subseteq rest \cup {p}
  BY DEF Send, p
<1> QED  BY <1>1, <1>2 DEF Typed, Sends

\* SynSent sends another SYN, or gives up.
TriesAgain(c) ==
    /\ conns[c].state = "synsent"
    /\ \E state \in {"synsent", "ended"} : Moves(c, state, conns[c].app)
    /\ Sends(Other(conns[c].end), "syn", conns[c].id)

\* SynSent has got a packet of its stream.
Opens(c) ==
    /\ conns[c].state = "synsent" /\ Moves(c, "steady", "held")
    /\ net' \subseteq net /\ \E p \in net : p.kind # "syn" /\ p.id = conns[c].id

\* SteadyState or Reset goes on, and may send.
Works(c) ==
    /\ conns[c].state \in {"steady", "reset"}
    /\ \E state \in {"steady", "reset", "ended"} : Moves(c, state, conns[c].app)
    /\ \E kind \in {"data", "rst"} : Sends(Other(conns[c].end), kind, conns[c].id)

\* The application takes a connection from the accept queue.
Takes(c) ==
    /\ conns[c].app = "queued" /\ Moves(c, conns[c].state, "held")
    /\ net' \subseteq net

\* No connection moves; a packet may be dropped, or answered with an RST.
Rests ==
    /\ conns' = conns
    /\ \/ net' \subseteq net
       \/ \E p \in net : p.kind # "syn" /\ Sends(Other(p.to), "rst", p.id)

\* Those are the steps that leave the tables alone, but for find_id and SYNs.
Ordinary ==
    /\ table' = table
    /\ \/ \E c \in 1 .. Len(conns) : TriesAgain(c) \/ Opens(c) \/ Works(c) \/ Takes(c)
       \/ Rests

LEMMA Unmoved ==
    ASSUME Typed, NEW c \in 1 .. Len(conns), conns' = conns
    PROVE  Moves(c, conns[c].state, conns[c].app)
BY TypeFacts DEF Typed, Moves

LEMMA Shrinks ==
    ASSUME Typed, net' \subseteq net, NEW to, NEW kind, NEW id
    PROVE  Sends(to, kind, id)
BY DEF Typed, Sends

\* The timers and the writes of one actor.
LEMMA ActorSteps ==
    ASSUME Typed, NEW c \in 1 .. Len(conns),
           SynTimeout(c) \/ SendData(c) \/ LeaveSteady(c) \/ Die(c)
    PROVE  Ordinary
<1> DEFINE k == conns[c]
<1>0. c \in Nat
  BY TypeFacts
<1>1. /\ k \in Conns /\ Other(k.end) \in Ends /\ k.id \in Ids /\ k.app \in Apps
      /\ c \in Nat /\ conns \in Seq(Conns) /\ c \in DOMAIN conns
  BY <1>0, TypeFacts, Zenon DEF Typed
<1>2. CASE SynTimeout(c)
  <2>1. k.state = "synsent" /\ table' = table
    BY <1>2, Zenon DEF SynTimeout
  <2>2. Sends(Other(k.end), "syn", k.id)
    <3>1. net' = Send(net, Packet(Other(k.end), "syn", k.id, 0, 0))
      BY <1>2, Zenon DEF SynTimeout, PacketOf
    <3> QED  BY <1>1, <3>1, SendsOne
  <2>3. CASE k.tries + 1 > MaxTries
    <3>1. conns' = [conns EXCEPT ![c] = Enter(@, "ended")]
      BY <1>2, <2>3, Zenon DEF SynTimeout
    <3>5. Moves(c, "ended", k.app)
      BY <3>1, Entering DEF States
    <3> QED  BY <2>1, <2>2, <3>5, Zenon DEF Ordinary, TriesAgain
  <2>4. CASE ~(k.tries + 1 > MaxTries)
    <3> DEFINE r == [k EXCEPT !.tries = k.tries + 1]
    <3>1. conns' = [conns EXCEPT ![c].tries = @ + 1]
      BY <1>2, <2>4, Zenon DEF SynTimeout
    <3>2. conns' = [conns EXCEPT ![c] = r]
      BY <1>1, <3>1, Zenon
    <3>3. k.tries + 1 \in Nat
      BY <1>1 DEF Conns
    <3>4. /\ r \in Conns /\ r.end = k.end /\ r.id = k.id /\ r.state = "synsent"
          /\ r.app = k.app /\ r.raced = k.raced
      BY <1>1, <2>1, <3>3, Zenon DEF Conns
    <3> HIDE DEF r
    <3>5. Moves(c, "synsent", k.app)
      BY <3>2, <3>4, SetState DEF States
    <3> QED  BY <2>1, <2>2, <3>5, Zenon DEF Ordinary, TriesAgain
  <2> QED  BY <2>3, <2>4
<1>3. CASE SendData(c)
  <2>1. PICK m \in 0 .. k.sent :
          /\ conns' = IF m < k.sent THEN conns ELSE [conns EXCEPT ![c].sent = @ + 1]
          /\ net' = Send(net, Packet(Other(k.end), "data", k.id, c, m))
    BY <1>3, Zenon DEF SendData
  <2>2. k.state = "steady" /\ table' = table
    BY <1>3, Zenon DEF SendData
  <2>3. m \in Nat /\ k.sent + 1 \in Nat
    BY <1>1, <2>1 DEF Conns
  <2>4. Sends(Other(k.end), "data", k.id)
    BY <1>1, <2>1, <2>3, SendsOne
  <2>5. Moves(c, "steady", k.app)
    <3>1. CASE conns' = conns
      BY <2>2, <3>1, Unmoved
    <3>2. CASE conns' = [conns EXCEPT ![c].sent = @ + 1]
      <4> DEFINE r == [k EXCEPT !.sent = k.sent + 1]
      <4>1. conns' = [conns EXCEPT ![c] = r]
        BY <1>1, <3>2, Zenon
      <4>2. /\ r \in Conns /\ r.end = k.end /\ r.id = k.id /\ r.state = "steady"
            /\ r.app = k.app /\ r.raced = k.raced
        BY <1>1, <2>2, <2>3, Zenon DEF Conns
      <4> HIDE DEF r
      <4> QED  BY <4>1, <4>2, SetState DEF States
    <3> QED  BY <2>1, <3>1, <3>2, Zenon
  <2> QED  BY <2>2, <2>4, <2>5, Zenon DEF Ordinary, Works
<1>4. ASSUME NEW state \in {"reset", "ended"}, conns' = [conns EXCEPT ![c] = Enter(@, state)]
      PROVE  Moves(c, state, k.app)
  BY <1>4, Entering DEF States
<1>5. CASE LeaveSteady(c)
  <2>1. net' = Send(net, Packet(Other(k.end), "rst", k.id, 0, 0))
    BY <1>5, Zenon DEF LeaveSteady, PacketOf
  <2>2. Sends(Other(k.end), "rst", k.id)
    BY <1>1, <2>1, SendsOne
  <2> QED  BY <1>4, <1>5, <2>2, Zenon DEF LeaveSteady, Ordinary, Works
<1>6. CASE Die(c)
  <2>1. Sends(Other(k.end), "rst", k.id)
    BY <1>6, Shrinks DEF Die
  <2> QED  BY <1>4, <1>6, <2>1, Zenon DEF Die, Ordinary, Works
<1> QED  BY <1>2, <1>3, <1>5, <1>6

\* A packet that is not a SYN, with or without an actor to take it.
LEMMA RecvRelStep ==
    ASSUME Typed, EntryIsOwn, NEW p \in net, RecvRel(p)
    PROVE  Ordinary
<1>1. /\ p \in Packets /\ p.to \in Ends /\ p.id \in Ids /\ Other(p.to) \in Ends
      /\ p.from \in Nat
  BY TypeFacts DEF Packets
<1>2. p.kind # "syn" /\ table' = table /\ net \ {p} \subseteq net
  BY Zenon DEF RecvRel
<1>3. CASE table[p.to][p.id] = 0
  <2>1. conns' = conns
    BY <1>3, Zenon DEF RecvRel
  <2>2. \/ net' = net \ {p}
        \/ net' = Send(net \ {p}, Packet(Other(p.to), "rst", p.id, 0, 0))
    BY <1>3, Zenon DEF RecvRel
  <2>3. net' \subseteq net \/ Sends(Other(p.to), "rst", p.id)
    BY <1>1, <1>2, <2>2, SendsOne
  <2> QED  BY <1>2, <2>1, <2>3, Zenon DEF Ordinary, Rests
<1>4. CASE table[p.to][p.id] # 0
  <2> DEFINE c == table[p.to][p.id]
             k == conns[c]
  <2>1. c \in 1 .. Len(conns) /\ k.end = p.to /\ k.id = p.id
    BY <1>1, <1>4 DEF EntryIsOwn
  <2>2. /\ k \in Conns /\ k.app \in Apps /\ conns \in Seq(Conns) /\ c \in DOMAIN conns
    BY <2>1, TypeFacts, Zenon DEF Typed
  <2>3. Handle(c, p)
    BY <1>4, Zenon DEF RecvRel
  <2> HIDE DEF c
  <2>4. ASSUME NEW state \in {"reset", "ended"}, conns' = [conns EXCEPT ![c] = Enter(@, state)]
        PROVE  Moves(c, state, k.app)
    BY <2>1, <2>4, Entering DEF States
  <2>5. ASSUME net' = net \ {p} \/ net' = Send(net \ {p}, PacketOf(c, "rst"))
        PROVE  Sends(Other(k.end), "rst", k.id)
    <3>1. CASE net' = net \ {p}
      BY <1>2, <3>1, Shrinks
    <3>2. CASE net' = Send(net \ {p}, PacketOf(c, "rst"))
      <4>1. net' = Send(net \ {p}, Packet(Other(k.end), "rst", k.id, 0, 0))
        BY <3>2, Zenon DEF PacketOf
      <4> QED  BY <1>1, <1>2, <2>1, <4>1, SendsOne
    <3> QED  BY <2>5, <3>1, <3>2
  <2>6. CASE k.state = "synsent"
    <3> DEFINE r == [Enter(k, "steady") EXCEPT !.app = "held"]
    <3>1. /\ conns' = [conns EXCEPT ![c] = [Enter(@, "steady") EXCEPT !.app = "held"]]
          /\ net' = net \ {p}
      BY <2>3, <2>6, Zenon DEF Handle
    <3>2. conns' = [conns EXCEPT ![c] = r]
      BY <2>2, <3>1, Zenon
    <3>3. /\ r \in Conns /\ r.end = k.end /\ r.id = k.id /\ r.state = "steady"
          /\ r.app = "held" /\ r.raced = k.raced
      <4>1. PICK n : n = Enter(k, "steady")
        OBVIOUS
      <4>2. /\ n \in Conns /\ n.state = "steady" /\ n.end = k.end /\ n.id = k.id
            /\ n.raced = k.raced
        BY <2>2, <4>1, EnterConn, Zenon DEF States
      <4>3. LET m == [n EXCEPT !.app = "held"]
            IN  /\ m \in Conns /\ m.state = n.state /\ m.end = n.end /\ m.id = n.id
                /\ m.raced = n.raced /\ m.app = "held"
        BY <4>2, Zenon DEF Conns, Apps
      <4> QED  BY <4>1, <4>2, <4>3, Zenon
    <3> HIDE DEF r
    <3>4. Moves(c, "steady", "held")
      BY <2>1, <3>2, <3>3, SetState DEF States
    <3>5. Opens(c)
      BY <1>2, <2>1, <2>6, <3>1, <3>4, Zenon DEF Opens
    <3> QED  BY <1>2, <2>1, <3>5, Zenon DEF Ordinary
  <2>7. CASE k.state = "steady" /\ p.kind = "rst"
    <3>1. /\ conns' = [conns EXCEPT ![c] = Enter(@, "reset")]
          /\ net' = Send(net \ {p}, PacketOf(c, "rst"))
      BY <2>3, <2>7, Zenon DEF Handle
    <3> QED  BY <1>2, <2>1, <2>4, <2>5, <2>7, <3>1, Zenon DEF Ordinary, Works
  <2>8. CASE k.state = "steady" /\ p.kind = "data"
    <3>1. /\ conns' = conns \/ conns' = [conns EXCEPT ![c].got = Append(@, p.from)]
          /\ net' = net \ {p}
      BY <2>3, <2>8, Zenon DEF Handle
    <3>2. Moves(c, "steady", k.app)
      <4>1. CASE conns' = conns
        BY <2>1, <2>8, <4>1, Unmoved
      <4>2. CASE conns' = [conns EXCEPT ![c].got = Append(@, p.from)]
        <5> DEFINE r == [k EXCEPT !.got = Append(k.got, p.from)]
        <5>1. conns' = [conns EXCEPT ![c] = r]
          BY <2>2, <4>2, Zenon
        <5>2. Append(k.got, p.from) \in Seq(Nat)
          BY <1>1, <2>2 DEF Conns
        <5>3. /\ r \in Conns /\ r.end = k.end /\ r.id = k.id /\ r.state = "steady"
              /\ r.app = k.app /\ r.raced = k.raced
          BY <2>2, <2>8, <5>2, Zenon DEF Conns
        <5> HIDE DEF r
        <5> QED  BY <2>1, <5>1, <5>3, SetState DEF States
      <4> QED  BY <3>1, <4>1, <4>2
    <3> QED  BY <1>2, <2>1, <2>5, <2>8, <3>1, <3>2, Zenon DEF Ordinary, Works
  <2>9. CASE k.state = "reset" /\ p.kind = "rst"
    <3>1. conns' = [conns EXCEPT ![c] = Enter(@, "ended")] /\ net' = net \ {p}
      BY <2>3, <2>9, Zenon DEF Handle
    <3> QED  BY <1>2, <2>1, <2>4, <2>5, <2>9, <3>1, Zenon DEF Ordinary, Works
  <2>10. CASE k.state = "reset" /\ p.kind # "rst"
    <3>1. conns' = conns /\ net' = Send(net \ {p}, PacketOf(c, "rst"))
      BY <2>3, <2>10, Zenon DEF Handle
    <3>2. Moves(c, "reset", k.app)
      BY <2>1, <2>10, <3>1, Unmoved
    <3> QED  BY <1>2, <2>1, <2>5, <2>10, <3>1, <3>2, Zenon DEF Ordinary, Works
  <2>11. CASE /\ k.state # "synsent" /\ k.state # "reset"
              /\ ~(k.state = "steady" /\ p.kind \in {"rst", "data"})
    <3>1. conns' = conns /\ net' = net \ {p}
      BY <2>3, <2>11, Zenon DEF Handle
    <3> QED  BY <1>2, <3>1, Zenon DEF Ordinary, Rests
  <2> QED  BY <2>6, <2>7, <2>8, <2>9, <2>10, <2>11
<1> QED  BY <1>3, <1>4

\* The application, a new session, and losses.
LEMMA OtherSteps ==
    ASSUME Typed, \/ \E e \in Ends : AcceptConn(e) \/ SessionReplace(e)
                  \/ Lose
    PROVE  Ordinary
<1>1. ASSUME NEW e \in Ends, AcceptConn(e)  PROVE Ordinary
  <2>1. PICK c \in Queued(e) : conns' = [conns EXCEPT ![c].app = "held"]
    BY <1>1, Zenon DEF AcceptConn
  <2>2. table' = table /\ net' = net
    BY <1>1, Zenon DEF AcceptConn
  <2>3. c \in 1 .. Len(conns) /\ conns[c].app = "queued"
    BY <2>1, TypeFacts, Zenon DEF Queued
  <2> DEFINE k == conns[c]
             r == [k EXCEPT !.app = "held"]
  <2>4. k \in Conns /\ conns \in Seq(Conns) /\ c \in DOMAIN conns /\ k.state \in States
    BY <2>3, TypeFacts, Zenon DEF Typed
  <2>5. conns' = [conns EXCEPT ![c] = r]
    BY <2>1, <2>4, Zenon
  <2>6. /\ r \in Conns /\ r.end = k.end /\ r.id = k.id /\ r.state = k.state
        /\ r.app = "held" /\ r.raced = k.raced
    BY <2>4, Zenon DEF Conns, Apps
  <2> HIDE DEF r
  <2>7. Moves(c, k.state, "held")
    BY <2>3, <2>4, <2>5, <2>6, SetState
  <2> QED  BY <2>2, <2>3, <2>7, Zenon DEF Ordinary, Takes
<1>2. ASSUME NEW e \in Ends, SessionReplace(e)  PROVE Ordinary
  BY <1>2, Zenon DEF SessionReplace, Ordinary, Rests
<1>3. CASE Lose
  BY <1>3, Zenon DEF Lose, Ordinary, Rests
<1> QED  BY <1>1, <1>2, <1>3

\* A task has chosen an id that its end's table lacks.
Chooses(e, i) ==
    /\ table[e][i] = 0
    /\ Grows(e, i, "opening", "found")
    /\ table' = table /\ net' = net

LEMMA FindIdStep ==
    ASSUME Typed, NEW e \in Ends, NEW i \in Ids, FindId(e, i)
    PROVE  Chooses(e, i)
<1>1. Grows(e, i, "opening", "found")
  BY AddConn DEF FindId, Apps, States
<1> QED  BY <1>1, Zenon DEF FindId, Chooses

\* A SYN for an id in the table, and one for another.
Repeats(p) ==
    /\ p.kind = "syn" /\ table[p.to][p.id] # 0
    /\ Sends(Other(p.to), "synack", p.id)
    /\ conns' = conns /\ table' = table
Enters(p) ==
    /\ p.kind = "syn" /\ table[p.to][p.id] = 0
    /\ \E app \in {"queued", "dropped"} : Grows(p.to, p.id, app, "steady")
    /\ Lists(p.to, p.id, Len(conns) + 1)
    /\ Sends(Other(p.to), "synack", p.id)

LEMMA RecvSynStep ==
    ASSUME Typed, NEW p \in net, RecvSyn(p)
    PROVE  Repeats(p) \/ Enters(p)
<1>1. p \in Packets /\ p.to \in Ends /\ p.id \in Ids /\ Other(p.to) \in Ends
  BY TypeFacts
<1>2. p.kind = "syn" /\ net' = Send(net \ {p}, Packet(Other(p.to), "synack", p.id, 0, 0))
  BY Zenon DEF RecvSyn
<1>3. Sends(Other(p.to), "synack", p.id)
  BY <1>1, <1>2, SendsOne
<1>4. CASE table[p.to][p.id] # 0
  BY <1>2, <1>3, <1>4, Zenon DEF RecvSyn, Repeats
<1>5. CASE table[p.to][p.id] = 0
  <2>1. PICK app \in {"queued", "dropped"} :
          conns' = Append(conns, Conn(p.to, p.id, app, "steady"))
    BY <1>5, Zenon DEF RecvSyn
  <2>2. Grows(p.to, p.id, app, "steady")
    BY <1>1, <2>1, AddConn DEF Apps, States
  <2>3. table' = [table EXCEPT ![p.to][p.id] = Len(conns) + 1]
    BY <1>5, Zenon DEF RecvSyn
  <2>4. Len(conns) + 1 \in Nat
    BY TypeFacts
  <2>5. Lists(p.to, p.id, Len(conns) + 1)
    BY <1>1, <2>3, <2>4, SetEntry
  <2> QED  BY <1>2, <1>3, <1>5, <2>2, <2>5, Zenon DEF Enters
<1> QED  BY <1>4, <1>5

\* Connection c goes on to a state, and what its table has under its id is
\* replaced, which cancels it if it runs; c is marked if that is a race.
Displaces(c, state, raced, entry) ==
    LET old == table[conns[c].end][conns[c].id] IN
    /\ conns' \in Seq(Conns) /\ Len(conns') = Len(conns)
    /\ \A k \in 1 .. Len(conns) :
        /\ conns'[k].end = conns[k].end /\ conns'[k].id = conns[k].id
        /\ conns'[k].app = conns[k].app
        /\ conns'[k].raced = IF k = c THEN raced ELSE conns[k].raced
        /\ conns'[k].state = IF k = c THEN state
                             ELSE IF k = old /\ conns[k].state \in Running THEN "cancelled"
                             ELSE conns[k].state
    /\ Lists(conns[c].end, conns[c].id, entry)

Starts(c) ==
    /\ conns[c].state = "found"
    /\ Displaces(c, "synsent", table[conns[c].end][conns[c].id] # 0, c)
    /\ Sends(Other(conns[c].end), "syn", conns[c].id)
Leaves(c) ==
    /\ conns[c].state \in {"ended", "cancelled"}
    /\ Displaces(c, "reaped", conns[c].raced, 0)
    /\ net' = net

LEMMA TableSteps ==
    ASSUME Typed, NEW c \in 1 .. Len(conns), SetStream(c) \/ Reap(c)
    PROVE  Starts(c) \/ Leaves(c)
<1> DEFINE e == conns[c].end
           i == conns[c].id
           old == table[e][i]
           goes(k) == k = old /\ conns[k].state \in Running
<1>1. c \in Nat /\ e \in Ends /\ i \in Ids /\ Other(e) \in Ends /\ Len(conns) \in Nat
  BY TypeFacts
<1>2. ASSUME NEW n \in Conns, NEW entry \in Nat,
             n.end = e, n.id = i, n.app = conns[c].app,
             conns' = [k \in DOMAIN conns |->
                         IF k = c THEN n
                         ELSE IF goes(k) THEN Enter(conns[k], "cancelled") ELSE conns[k]],
             table' = [table EXCEPT ![e][i] = entry]
      PROVE  Displaces(c, n.state, n.raced, entry)
  <2>1. Lists(e, i, entry)
    BY <1>1, <1>2, SetEntry
  <2>2. ASSUME NEW k \in 1 .. Len(conns)
        PROVE  /\ conns'[k] \in Conns
               /\ conns'[k].end = conns[k].end /\ conns'[k].id = conns[k].id
               /\ conns'[k].app = conns[k].app
               /\ conns'[k].raced = IF k = c THEN n.raced ELSE conns[k].raced
               /\ conns'[k].state = IF k = c THEN n.state
                                    ELSE IF goes(k) THEN "cancelled" ELSE conns[k].state
    <3>1. conns[k] \in Conns /\ k \in DOMAIN conns
      BY TypeFacts, Zenon
    <3>2. conns'[k] = IF k = c THEN n
                      ELSE IF goes(k) THEN Enter(conns[k], "cancelled") ELSE conns[k]
      BY <1>2, <3>1, Zenon
    <3> HIDE DEF goes
    <3>3. CASE k = c
      <4>1. conns'[k] = n
        BY <3>2, <3>3, Zenon
      <4> QED  BY <1>2, <3>3, <4>1
    <3>4. CASE k # c /\ goes(k)
      <4>1. conns'[k] = Enter(conns[k], "cancelled")
        BY <3>2, <3>4, Zenon
      <4>2. /\ conns'[k] \in Conns /\ conns'[k].state = "cancelled"
            /\ conns'[k].end = conns[k].end /\ conns'[k].id = conns[k].id
            /\ conns'[k].app = conns[k].app /\ conns'[k].raced = conns[k].raced
        BY <3>1, <4>1, EnterConn DEF States
      <4> QED  BY <3>4, <4>2, Zenon
    <3>5. CASE k # c /\ ~goes(k)
      BY <3>1, <3>2, <3>5, Zenon
    <3> QED  BY <3>3, <3>4, <3>5, Zenon
  <2>3. DOMAIN conns' = 1 .. Len(conns) /\ conns' = [k \in 1 .. Len(conns) |-> conns'[k]]
    BY <1>2, TypeFacts, Zenon
  <2>4. conns' \in [1 .. Len(conns) -> Conns]
    BY <2>2, <2>3, Zenon
  <2>5. conns' \in Seq(Conns) /\ Len(conns') = Len(conns)
    BY <1>1, <2>4
  <2> QED  BY <2>1, <2>2, <2>5, Zenon DEF Displaces
<1>3. ASSUME NEW state \in States
      PROVE  LET n == Enter(conns[c], state)
             IN  /\ n \in Conns /\ n.state = state /\ n.end = e /\ n.id = i
                 /\ n.app = conns[c].app /\ n.raced = conns[c].raced
  BY TypeFacts, EnterConn, Zenon
<1>4. CASE SetStream(c)
  <2>1. PICK k : k = Enter(conns[c], "synsent")
    OBVIOUS
  <2>2. PICK n : n = [k EXCEPT !.raced = old # 0]
    OBVIOUS
  <2>3. k \in Conns /\ k.state = "synsent" /\ k.end = e /\ k.id = i /\ k.app = conns[c].app
    BY <1>3, <2>1, Zenon DEF States
  <2>4. /\ n \in Conns /\ n.state = k.state /\ n.end = k.end /\ n.id = k.id
        /\ n.app = k.app /\ n.raced = (old # 0)
    BY <2>2, <2>3, Zenon DEF Conns
  <2>5. /\ conns' = [m \in DOMAIN conns |->
                         IF m = c THEN n
                         ELSE IF goes(m) THEN Enter(conns[m], "cancelled") ELSE conns[m]]
        /\ table' = [table EXCEPT ![e][i] = c]
    BY <1>4, <2>1, <2>2, Zenon DEF SetStream
  <2>6. Displaces(c, n.state, n.raced, c)
    BY <1>1, <1>2, <2>3, <2>4, <2>5, Zenon
  <2>7. net' = Send(net, Packet(Other(e), "syn", i, 0, 0))
    BY <1>4, Zenon DEF SetStream, PacketOf
  <2>8. Sends(Other(e), "syn", i)
    BY <1>1, <2>7, SendsOne
  <2> QED  BY <1>4, <2>3, <2>4, <2>6, <2>8, Zenon DEF SetStream, Starts
<1>5. CASE Reap(c)
  <2>1. PICK n : n = Enter(conns[c], "reaped")
    OBVIOUS
  <2>2. /\ n \in Conns /\ n.state = "reaped" /\ n.end = e /\ n.id = i
        /\ n.app = conns[c].app /\ n.raced = conns[c].raced
    BY <1>3, <2>1, Zenon DEF States
  <2>3. /\ conns' = [m \in DOMAIN conns |->
                         IF m = c THEN n
                         ELSE IF goes(m) THEN Enter(conns[m], "cancelled") ELSE conns[m]]
        /\ table' = [table EXCEPT ![e][i] = 0]
    BY <1>5, <2>1, Zenon DEF Reap
  <2>4. 0 \in Nat
    OBVIOUS
  <2>5. Displaces(c, n.state, n.raced, 0)
    BY <1>2, <2>2, <2>3, <2>4, Zenon
  <2> QED  BY <1>5, <2>2, <2>5, Zenon DEF Reap, Leaves
<1> QED  BY <1>4, <1>5

\* All steps.
Steps ==
    \/ Ordinary
    \/ \E e \in Ends, i \in Ids : Chooses(e, i)
    \/ \E p \in net : Repeats(p) \/ Enters(p)
    \/ \E c \in 1 .. Len(conns) : Starts(c) \/ Leaves(c)

LEMMA NextSteps ==
    ASSUME Typed, EntryIsOwn, [Next]_vars
    PROVE  Steps
<1>1. CASE UNCHANGED vars
  BY <1>1 DEF vars, Steps, Ordinary, Rests
<1>2. DOMAIN conns = 1 .. Len(conns)
  BY TypeFacts
<1>3. ASSUME NEW c \in 1 .. Len(conns),
             SetStream(c) \/ SynTimeout(c) \/ SendData(c) \/ LeaveSteady(c) \/ Die(c) \/ Reap(c)
      PROVE  Steps
  BY <1>3, ActorSteps, TableSteps, Zenon DEF Steps
<1>4. ASSUME NEW e \in Ends, NEW i \in Ids, FindId(e, i)  PROVE Steps
  BY <1>4, FindIdStep, Zenon DEF Steps
<1>5. ASSUME NEW p \in net, RecvSyn(p) \/ RecvRel(p)  PROVE Steps
  BY <1>5, RecvSynStep, RecvRelStep, Zenon DEF Steps
<1>6. CASE (\E e \in Ends : AcceptConn(e) \/ SessionReplace(e)) \/ Lose
  BY <1>6, OtherSteps, Zenon DEF Steps
<1> QED  BY <1>1, <1>2, <1>3, <1>4, <1>5, <1>6, Zenon DEF Next

-----------------------------------------------------------------------------
(* The tables *)

\* A step by which at most one connection moves, from a state that runs to
\* one that does or to one that does not.
LEMMA MovesInv ==
    ASSUME Inv, NEW c \in 1 .. Len(conns), NEW state \in States, NEW app,
           Moves(c, state, app), table' = table, net' \subseteq Packets,
           state \in Running => conns[c].state \in Running
    PROVE  Inv'
<1>1. Typed'
  BY DEF Inv, Typed, Moves
<1>2. EntryIsOwn'
  BY DEF Inv, EntryIsOwn, Moves
<1>3. RunningIsListed'
  <2>1. DOMAIN conns' = 1 .. Len(conns) /\ DOMAIN conns = 1 .. Len(conns)
    BY DEF Inv, Typed, Moves
  <2> QED  BY <2>1 DEF Inv, RunningIsListed, Moves
<1> QED  BY <1>1, <1>2, <1>3 DEF Inv

LEMMA OrdinaryInv ==
    ASSUME Inv, Ordinary
    PROVE  Inv'
<1>1. net' \subseteq Packets
  BY DEF Ordinary, TriesAgain, Opens, Works, Takes, Rests, Sends, Inv, Typed
<1>2. CASE Rests
  BY <1>1, <1>2 DEF Rests, Ordinary, Inv, Typed, EntryIsOwn, RunningIsListed
<1>3. ASSUME NEW c \in 1 .. Len(conns), TriesAgain(c) \/ Opens(c) \/ Works(c) \/ Takes(c)
      PROVE  Inv'
  <2>1. \E state \in States : \E app :
          Moves(c, state, app) /\ (state \in Running => conns[c].state \in Running)
    <3>1. conns[c].state \in States
      BY TypeFacts DEF Inv
    <3> QED  BY <1>3, <3>1 DEF TriesAgain, Opens, Works, Takes, Running, States
  <2> QED  BY <1>1, <2>1, MovesInv DEF Ordinary
<1> QED  BY <1>2, <1>3 DEF Ordinary

LEMMA GrowsInv ==
    ASSUME Inv,
           \/ \E e \in Ends, i \in Ids : Chooses(e, i)
           \/ \E p \in net : Enters(p)
    PROVE  Inv'
<1>1. ASSUME NEW e \in Ends, NEW i \in Ids, Chooses(e, i)  PROVE Inv'
  <2>1. Typed'
    BY <1>1 DEF Chooses, Grows, Inv, Typed
  <2>2. EntryIsOwn'
    BY <1>1, TypeFacts DEF Chooses, Grows, Inv, EntryIsOwn
  <2>3. RunningIsListed'
    <3>1. DOMAIN conns' = 1 .. Len(conns) + 1 /\ DOMAIN conns = 1 .. Len(conns)
      BY <1>1 DEF Chooses, Grows, Inv, Typed
    <3>2. ASSUME NEW k \in 1 .. Len(conns) + 1, conns'[k].state \in Running
          PROVE  k \in 1 .. Len(conns) /\ conns'[k] = conns[k]
      BY <1>1, <3>2, TypeFacts DEF Chooses, Grows, Inv, Running
    <3>3. ASSUME NEW k \in 1 .. Len(conns) + 1, conns'[k].state \in Running
          PROVE  table[conns'[k].end][conns'[k].id] = k
      BY <3>1, <3>2, <3>3 DEF Inv, RunningIsListed
    <3>4. table' = table
      BY <1>1 DEF Chooses
    <3> QED  BY <3>1, <3>3, <3>4 DEF RunningIsListed
  <2> QED  BY <2>1, <2>2, <2>3 DEF Inv
<1>2. ASSUME NEW p \in net, Enters(p)  PROVE Inv'
  <2>0. p.to \in Ends /\ p.id \in Ids /\ Len(conns) \in Nat
    BY TypeFacts DEF Inv
  <2>1. PICK app : Grows(p.to, p.id, app, "steady")
    BY <1>2 DEF Enters
  <2>2. Lists(p.to, p.id, Len(conns) + 1) /\ table[p.to][p.id] = 0 /\ net' \subseteq Packets
    BY <1>2 DEF Enters, Sends
  <2>3. Typed'
    BY <2>1, <2>2 DEF Grows, Lists, Typed
  <2>4. EntryIsOwn'
    <3> SUFFICES ASSUME NEW e \in Ends, NEW i \in Ids, table'[e][i] # 0
                 PROVE  /\ table'[e][i] \in 1 .. Len(conns')
                        /\ conns'[table'[e][i]].end = e /\ conns'[table'[e][i]].id = i
      BY DEF EntryIsOwn
    <3>1. CASE e = p.to /\ i = p.id
      BY <2>0, <2>1, <2>2, <3>1 DEF Grows, Lists
    <3>2. CASE ~(e = p.to /\ i = p.id)
      <4>1. table'[e][i] = table[e][i]
        BY <2>2, <3>2 DEF Lists
      <4> QED  BY <2>0, <2>1, <4>1 DEF Grows, Inv, EntryIsOwn
    <3> QED  BY <3>1, <3>2
  <2>5. RunningIsListed'
    <3>1. DOMAIN conns' = 1 .. Len(conns) + 1 /\ DOMAIN conns = 1 .. Len(conns)
      BY <2>1 DEF Grows, Inv, Typed
    <3>2. \A k \in 1 .. Len(conns) : conns[k].end \in Ends /\ conns[k].id \in Ids
      BY TypeFacts DEF Inv
    <3> SUFFICES ASSUME NEW k \in 1 .. Len(conns) + 1, conns'[k].state \in Running
                 PROVE  table'[conns'[k].end][conns'[k].id] = k
      BY <3>1 DEF RunningIsListed
    <3>3. CASE k = Len(conns) + 1
      BY <2>0, <2>1, <2>2, <3>3 DEF Grows, Lists
    <3>4. CASE k # Len(conns) + 1
      <4>1. k \in 1 .. Len(conns) /\ conns'[k] = conns[k]
        BY <2>0, <2>1, <3>4 DEF Grows
      <4>2. table[conns[k].end][conns[k].id] = k
        BY <3>1, <4>1, Zenon DEF Inv, RunningIsListed
      <4>3. ~(conns[k].end = p.to /\ conns[k].id = p.id)
        BY <2>2, <4>1, <4>2
      <4> QED  BY <2>2, <3>2, <4>1, <4>2, <4>3 DEF Lists
    <3> QED  BY <3>3, <3>4
  <2> QED  BY <2>3, <2>4, <2>5 DEF Inv
<1> QED  BY <1>1, <1>2

\* What is displaced was the entry, so it runs no more.
LEMMA DisplacesInv ==
    ASSUME Inv, NEW c \in 1 .. Len(conns), Starts(c) \/ Leaves(c)
    PROVE  Inv'
<1> DEFINE e == conns[c].end
           i == conns[c].id
<1>1. /\ e \in Ends /\ i \in Ids /\ Len(conns) \in Nat
      /\ DOMAIN conns = 1 .. Len(conns)
      /\ \A k \in 1 .. Len(conns) : conns[k].end \in Ends /\ conns[k].id \in Ids
  BY TypeFacts DEF Inv
<1>2. net' \subseteq Packets
  BY DEF Starts, Leaves, Sends, Inv, Typed
<1>3. PICK state, raced, entry :
        /\ state \in {"synsent", "reaped"} /\ entry \in {0, c}
        /\ Displaces(c, state, raced, entry)
        /\ state = "synsent" => entry = c
  BY DEF Starts, Leaves
<1>4. Typed'
  BY <1>2, <1>3 DEF Displaces, Lists, Typed
<1>5. DOMAIN conns' = 1 .. Len(conns)
  BY <1>3 DEF Displaces
<1>6. EntryIsOwn'
  <2>1. \A k \in 1 .. Len(conns) :
          conns'[k].end = conns[k].end /\ conns'[k].id = conns[k].id
    BY <1>3, <1>5, Zenon DEF Displaces
  <2>2. Len(conns') = Len(conns)
    BY <1>3 DEF Displaces
  <2> SUFFICES ASSUME NEW f \in Ends, NEW j \in Ids, table'[f][j] # 0
               PROVE  /\ table'[f][j] \in 1 .. Len(conns)
                      /\ conns[table'[f][j]].end = f /\ conns[table'[f][j]].id = j
    BY <2>1, <2>2, ZenonT(40) DEF EntryIsOwn
  <2>3. CASE f = e /\ j = i
    <3>1. table'[f][j] = c
      BY <1>1, <1>3, <2>3 DEF Displaces, Lists
    <3> QED  BY <2>3, <3>1, Zenon
  <2>4. CASE ~(f = e /\ j = i)
    <3>1. table'[f][j] = table[f][j]
      BY <1>1, <1>3, <2>4 DEF Displaces, Lists
    <3>2. /\ table[f][j] \in 1 .. Len(conns)
          /\ conns[table[f][j]].end = f /\ conns[table[f][j]].id = j
      BY <3>1 DEF Inv, EntryIsOwn
    <3> QED  BY <3>1, <3>2
  <2> QED  BY <2>3, <2>4
<1>7. RunningIsListed'
  <2> SUFFICES ASSUME NEW k \in 1 .. Len(conns), conns'[k].state \in Running
               PROVE  table'[conns[k].end][conns[k].id] = k
    BY <1>3, <1>5, Zenon DEF RunningIsListed, Displaces
  <2>1. CASE k = c
    BY <1>1, <1>3, <2>1 DEF Displaces, Lists, Running
  <2>2. CASE k # c
    <3>1. conns[k].state \in Running /\ k # table[e][i]
      BY <1>3, <2>2 DEF Displaces, Running
    <3>2. table[conns[k].end][conns[k].id] = k
      BY <1>1, <3>1 DEF Inv, RunningIsListed
    <3>3. ~(conns[k].end = e /\ conns[k].id = i)
      BY <3>1, <3>2
    <3> QED  BY <1>1, <1>3, <3>2, <3>3 DEF Displaces, Lists
  <2> QED  BY <2>1, <2>2
<1> QED  BY <1>4, <1>6, <1>7 DEF Inv

LEMMA InitInv == Init => Inv
BY DEF Init, Inv, Typed, EntryIsOwn, RunningIsListed

LEMMA StepInv == ASSUME Inv, Steps PROVE Inv'
<1>1. CASE Ordinary
  BY <1>1, OrdinaryInv
<1>2. ASSUME NEW p \in net, Repeats(p)  PROVE Inv'
  <2>1. conns' = conns /\ table' = table /\ net' \subseteq Packets
    BY <1>2 DEF Repeats, Sends
  <2> QED  BY <2>1 DEF Inv, Typed, EntryIsOwn, RunningIsListed
<1> QED  BY <1>1, <1>2, GrowsInv, DisplacesInv DEF Steps

LEMMA NextInv == Inv /\ [Next]_vars => Inv'
BY NextSteps, StepInv, Zenon DEF Inv

\* The inductive invariant of the tables, in every reachable state.
THEOREM MuxInvariant == Spec => []Inv
BY InitInv, NextInv, PTL DEF Spec

\* A running actor is in the table of its end under its id, whatever ids
\* are chosen at the same time, at either end: one that is displaced, by
\* set_stream or by the reaper, is cancelled.
THEOREM MuxRunningIsListed == Spec => []RunningIsListed
<1>1. Inv => RunningIsListed
  BY DEF Inv
<1> QED  BY <1>1, MuxInvariant, PTL

-----------------------------------------------------------------------------
(* Opening *)

\* An end, or each end, has had a connection under an id.
Had(e, i) == \E k \in 1 .. Len(conns) : conns[k].end = e /\ conns[k].id = i
Paired(i) == \A e \in Ends : Had(e, i)

\* Until something comes back, a connection is its opener's; what is not a
\* SYN is sent only under ids that both ends have had.
Opening(c) ==
    /\ conns[c].state \in {"found", "synsent"} => conns[c].app = "opening"
    /\ conns[c].state \in {"steady", "reset"} => conns[c].app # "opening"
    /\ conns[c].app # "opening" => Paired(conns[c].id)
Answering(p) ==
    IF p.kind = "syn" THEN Had(Other(p.to), p.id) ELSE Paired(p.id)
Answered == (\A c \in 1 .. Len(conns) : Opening(c)) /\ (\A p \in net : Answering(p))

\* No step changes a connection's end or id, or takes a connection away.
Kept ==
    /\ Len(conns) <= Len(conns')
    /\ \A k \in 1 .. Len(conns) : conns'[k].end = conns[k].end /\ conns'[k].id = conns[k].id

LEMMA StepKeeps == ASSUME Typed, Steps PROVE Kept
<1>0. Len(conns) \in Nat
  BY TypeFacts
<1>1. CASE Ordinary
  BY <1>0, <1>1 DEF Ordinary, TriesAgain, Opens, Works, Takes, Rests, Moves, Kept
<1>2. ASSUME NEW e \in Ends, NEW i \in Ids, Chooses(e, i)  PROVE Kept
  BY <1>0, <1>2 DEF Chooses, Grows, Kept
<1>3. ASSUME NEW p \in net, Repeats(p) \/ Enters(p)  PROVE Kept
  BY <1>0, <1>3 DEF Repeats, Enters, Grows, Kept
<1>4. ASSUME NEW c \in 1 .. Len(conns), Starts(c) \/ Leaves(c)  PROVE Kept
  BY <1>0, <1>4 DEF Starts, Leaves, Displaces, Kept
<1> QED  BY <1>1, <1>2, <1>3, <1>4 DEF Steps

LEMMA HadStays ==
    ASSUME Typed, Typed', Kept, NEW e, NEW i, Had(e, i)
    PROVE  Had(e, i)'
<1>1. Len(conns) \in Nat /\ Len(conns') \in Nat
  BY DEF Typed
<1> QED  BY <1>1 DEF Kept, Had

LEMMA PairedStays ==
    ASSUME Typed, Typed', Kept, NEW i, Paired(i)
    PROVE  Paired(i)'
BY HadStays DEF Paired

\* The packets of a step: those there were, and one kind sent.
LEMMA AnswersStay ==
    ASSUME Typed, Typed', Kept, Answered, NEW to \in Ends, NEW kind, NEW id,
           net' \subseteq net \/ Sends(to, kind, id),
           IF kind = "syn" THEN Had(Other(to), id)' ELSE Paired(id)'
    PROVE  \A p \in net' : Answering(p)'
<1>1. \A p \in net : Answering(p)'
  BY HadStays, PairedStays DEF Answered, Answering
<1> QED  BY <1>1 DEF Sends, Answering

\* The steps of an actor.
LEMMA ActorAnswers ==
    ASSUME Typed, Typed', Kept, Answered, NEW c \in 1 .. Len(conns),
           TriesAgain(c) \/ Opens(c) \/ Works(c) \/ Takes(c)
    PROVE  Answered'
<1>1. /\ Len(conns) \in Nat /\ conns[c].end \in Ends /\ Other(conns[c].end) \in Ends
      /\ Other(Other(conns[c].end)) = conns[c].end
  BY TypeFacts
<1>0. PICK id : id = conns[c].id
  OBVIOUS
<1>2. Opening(c)
  BY DEF Answered
<1>3. PICK state, app : Moves(c, state, app)
  BY DEF TriesAgain, Opens, Works, Takes
<1>4. Len(conns') = Len(conns)
  BY <1>3 DEF Moves
<1>5. ASSUME NEW k \in 1 .. Len(conns), k # c  PROVE Opening(k)'
  <2>1. /\ conns'[k].state = conns[k].state /\ conns'[k].app = conns[k].app
        /\ conns'[k].end = conns[k].end /\ conns'[k].id = conns[k].id
    BY <1>3, <1>5 DEF Moves
  <2>2. Opening(k)
    BY DEF Answered
  <2> QED  BY <2>1, <2>2, PairedStays DEF Opening
<1>6. conns'[c].end = conns[c].end /\ conns'[c].id = id
  BY <1>3, <1>0 DEF Moves
<1>7. CASE TriesAgain(c)
  <2>1. conns[c].app = "opening"
    BY <1>2, <1>7 DEF TriesAgain, Opening
  <2>2. conns'[c].app = conns[c].app /\ conns'[c].state \in {"synsent", "ended"}
    BY <1>7 DEF TriesAgain, Moves
  <2>3. Opening(c)'
    BY <1>6, <2>1, <2>2 DEF Opening
  <2>4. PICK e : e = conns[c].end
    OBVIOUS
  <2>5. Had(e, id)'
    BY <1>4, <1>6, <2>4 DEF Had
  <2>6. \A p \in net' : Answering(p)'
    BY <1>0, <1>1, <1>7, <2>1, <2>4, <2>5, AnswersStay DEF TriesAgain
  <2> QED  BY <1>4, <1>5, <2>3, <2>6 DEF Answered
<1>8. CASE Opens(c)
  <2>1. Paired(id)
    BY <1>8, <1>0 DEF Opens, Answered, Answering
  <2>2. Paired(id)'
    BY <2>1, PairedStays
  <2>3. conns'[c].app = "held" /\ conns'[c].state = "steady"
    BY <1>8 DEF Opens, Moves
  <2>4. Opening(c)'
    BY <1>6, <2>2, <2>3 DEF Opening
  <2>5. \A p \in net' : Answering(p)'
    BY <1>1, <1>8, <1>0, <2>2, AnswersStay DEF Opens
  <2> QED  BY <1>4, <1>5, <2>4, <2>5 DEF Answered
<1>9. CASE Works(c) \/ Takes(c)
  <2>1. conns[c].app # "opening" /\ Paired(id)
    BY <1>2, <1>9, <1>0 DEF Works, Takes, Opening
  <2>2. Paired(id)'
    BY <2>1, PairedStays
  <2>3. conns'[c].app # "opening" /\ conns'[c].state \notin {"found", "synsent"}
    BY <1>2, <1>9, <2>1 DEF Works, Takes, Moves, Opening
  <2>4. Opening(c)'
    BY <1>6, <2>2, <2>3 DEF Opening
  <2>5. \A p \in net' : Answering(p)'
    BY <1>1, <1>9, <1>0, <2>2, AnswersStay DEF Works, Takes
  <2> QED  BY <1>4, <1>5, <2>4, <2>5 DEF Answered
<1> QED  BY <1>7, <1>8, <1>9

\* A connection is added.
LEMMA AddAnswers ==
    ASSUME Typed, Typed', Kept, Answered, NEW end, NEW id, NEW app, NEW state,
           Grows(end, id, app, state),
           app = "opening" => state = "found",
           app # "opening" => end \in Ends /\ Had(Other(end), id) /\ state = "steady"
    PROVE  \A c \in 1 .. Len(conns') : Opening(c)'
<1>1. Len(conns) \in Nat /\ Len(conns') = Len(conns) + 1
  BY DEF Typed, Grows
<1>2. ASSUME NEW k \in 1 .. Len(conns)  PROVE Opening(k)'
  <2>1. conns'[k] = conns[k] /\ Opening(k)
    BY DEF Grows, Answered
  <2> QED  BY <2>1, PairedStays DEF Opening
<1>3. ASSUME NEW n, n = Len(conns) + 1  PROVE Opening(n)'
  <2>1. conns'[n].end = end /\ conns'[n].id = id /\ conns'[n].app = app /\ conns'[n].state = state
    BY <1>3 DEF Grows
  <2>2. app # "opening" => Paired(id)'
    <3>1. Had(end, id)'
      BY <1>1, <1>3, <2>1 DEF Had
    <3>2. app # "opening" => Had(Other(end), id)'
      BY HadStays
    <3>3. \A e \in Ends : end \in Ends => e = end \/ e = Other(end)
      BY DEF Ends, Other
    <3> QED  BY <3>1, <3>2, <3>3, Zenon DEF Paired
  <2> QED  BY <2>1, <2>2 DEF Opening
<1> QED  BY <1>1, <1>2, <1>3

LEMMA AnsweredStep ==
    ASSUME Inv, Inv', Answered, Steps
    PROVE  Answered'
<1>0. /\ Typed /\ Typed' /\ Kept /\ Len(conns) \in Nat
      /\ \A e \in Ends : Other(e) \in Ends /\ Other(Other(e)) = e
  BY StepKeeps, TypeFacts DEF Inv
<1>1. CASE Rests
  <2>1. \A c \in 1 .. Len(conns) : Opening(c) /\ conns'[c] = conns[c]
    BY <1>1 DEF Answered, Rests
  <2>2. \A c \in 1 .. Len(conns) : Opening(c)'
    BY <1>0, <2>1, PairedStays DEF Opening
  <2>3. \A p \in net' : Answering(p)'
    <3>1. CASE net' \subseteq net
      BY <1>0, <3>1, HadStays, PairedStays DEF Answered, Answering
    <3>2. ASSUME NEW p \in net, p.kind # "syn", Sends(Other(p.to), "rst", p.id)
          PROVE  \A q \in net' : Answering(q)'
      <4>1. Paired(p.id)' /\ p.to \in Ends
        BY <1>0, <3>2, PairedStays, TypeFacts DEF Answered, Answering
      <4> QED  BY <1>0, <3>2, <4>1, AnswersStay
    <3> QED  BY <1>1, <3>1, <3>2 DEF Rests
  <2> QED  BY <1>1, <2>2, <2>3 DEF Answered, Rests
<1>2. ASSUME NEW e \in Ends, NEW i \in Ids, Chooses(e, i)  PROVE Answered'
  <2>1. \A c \in 1 .. Len(conns') : Opening(c)'
    BY <1>0, <1>2, AddAnswers DEF Chooses
  <2>2. \A p \in net' : Answering(p)'
    BY <1>0, <1>2, HadStays, PairedStays DEF Chooses, Answered, Answering
  <2> QED  BY <2>1, <2>2 DEF Answered
<1>3. ASSUME NEW p \in net, Repeats(p) \/ Enters(p)  PROVE Answered'
  <2>1. /\ p.to \in Ends /\ p.id \in Ids /\ Other(p.to) \in Ends
        /\ Had(Other(p.to), p.id)
    BY <1>0, <1>3, TypeFacts DEF Answered, Answering, Repeats, Enters
  <2>4. \A e \in Ends : e = p.to \/ e = Other(p.to)
    BY <2>1 DEF Ends, Other
  <2>2. Paired(p.id)' /\ \A c \in 1 .. Len(conns') : Opening(c)'
    <3>1. CASE Repeats(p)
      <4>1. Paired(p.id)
        <5>1. Had(p.to, p.id)
          BY <2>1, <3>1 DEF Repeats, Inv, EntryIsOwn, Had
        <5> QED  BY <2>1, <2>4, <5>1, Zenon DEF Paired
      <4>2. \A c \in 1 .. Len(conns) : Opening(c)'
        BY <3>1 DEF Repeats, Answered, Opening, Paired, Had
      <4> QED  BY <1>0, <3>1, <4>1, <4>2, PairedStays DEF Repeats
    <3>2. CASE Enters(p)
      <4>1. PICK app \in {"queued", "dropped"} : Grows(p.to, p.id, app, "steady")
        BY <3>2 DEF Enters
      <4>2. Paired(p.id)'
        <5>1. Had(p.to, p.id)'
          BY <1>0, <2>1, <4>1 DEF Grows, Had
        <5>2. Had(Other(p.to), p.id)'
          BY <1>0, <2>1, HadStays
        <5> QED  BY <2>4, <5>1, <5>2, Zenon DEF Paired
      <4> QED  BY <1>0, <2>1, <4>1, <4>2, AddAnswers
    <3> QED  BY <1>3, <3>1, <3>2
  <2>3. \A q \in net' : Answering(q)'
    BY <1>0, <1>3, <2>1, <2>2, AnswersStay DEF Repeats, Enters
  <2> QED  BY <2>2, <2>3 DEF Answered
<1>4. ASSUME NEW c \in 1 .. Len(conns), Starts(c) \/ Leaves(c)  PROVE Answered'
  <2>1. conns[c].end \in Ends /\ Other(conns[c].end) \in Ends
    BY <1>0, TypeFacts
  <2>2. PICK state, raced, entry :
          /\ state \in {"synsent", "reaped"} /\ entry \in {0, c}
          /\ Displaces(c, state, raced, entry)
          /\ state = "synsent" => conns[c].state = "found"
    BY <1>4 DEF Starts, Leaves
  <2>3. ASSUME NEW k \in 1 .. Len(conns)  PROVE Opening(k)'
    <3>1. /\ conns'[k].end = conns[k].end /\ conns'[k].id = conns[k].id
          /\ conns'[k].app = conns[k].app
          /\ \/ conns'[k].state \in {"reaped", "cancelled", conns[k].state}
             \/ conns'[k].state = "synsent" /\ conns[k].state = "found"
      BY <2>2 DEF Displaces
    <3>2. Opening(k)
      BY DEF Answered
    <3> QED  BY <1>0, <3>1, <3>2, PairedStays DEF Opening
  <2>4. \A p \in net' : Answering(p)'
    <3>1. CASE Starts(c)
      <4>2. PICK e, i : e = conns[c].end /\ i = conns[c].id
        OBVIOUS
      <4>3. Had(e, i)
        BY <4>2 DEF Had
      <4>4. Had(e, i)'
        BY <1>0, <4>3, HadStays
      <4>5. Other(Other(e)) = e
        BY <1>0, <2>1, <4>2
      <4> QED  BY <1>0, <2>1, <3>1, <4>2, <4>4, <4>5, AnswersStay DEF Starts
    <3>2. CASE Leaves(c)
      BY <1>0, <3>2, HadStays, PairedStays DEF Leaves, Answered, Answering
    <3> QED  BY <1>4, <3>1, <3>2
  <2>5. Len(conns') = Len(conns)
    BY <2>2 DEF Displaces
  <2> QED  BY <2>3, <2>4, <2>5 DEF Answered
<1> QED  BY <1>0, <1>1, <1>2, <1>3, <1>4, ActorAnswers DEF Steps, Ordinary

\* What crosses the network is answered for, in every reachable state.
LEMMA AnsweredAlways == Spec => [](Inv /\ Answered)
<1>1. Init => Inv /\ Answered
  BY InitInv DEF Init, Answered
<1>2. Inv /\ Answered /\ [Next]_vars => (Inv /\ Answered)'
  BY NextInv, NextSteps, AnsweredStep, Zenon DEF Inv
<1> QED  BY <1>1, <1>2, PTL DEF Spec

\* Whoever opens, a RelConn the application has is one of a pair: the other
\* end has had a connection under its id, accepted or opened itself.
HeldIsPaired ==
    \A c \in DOMAIN conns : conns[c].app = "held" =>
        \E k \in DOMAIN conns : /\ conns[k].end # conns[c].end
                                /\ conns[k].id = conns[c].id

\* What open_conn and accept_conn give the application has or had a
\* counterpart, also when both ends open.  It may be of an earlier stream:
\* what becomes of an opening that an RST or a segment of one completes is
\* StrandedIsTold.
THEOREM MuxHeldIsPaired == Spec => []HeldIsPaired
<1>1. Inv /\ Answered => HeldIsPaired
  <2> SUFFICES ASSUME Inv, Answered, NEW c \in 1 .. Len(conns), conns[c].app = "held"
               PROVE  \E k \in 1 .. Len(conns) :
                        conns[k].end # conns[c].end /\ conns[k].id = conns[c].id
    BY TypeFacts DEF Inv, HeldIsPaired
  <2>1. Other(conns[c].end) \in Ends /\ Other(conns[c].end) # conns[c].end
    BY TypeFacts DEF Inv
  <2> QED  BY <2>1 DEF Answered, Opening, Paired, Had
<1> QED  BY <1>1, AnsweredAlways, PTL

-----------------------------------------------------------------------------
(* Races for an id *)

\* No set_stream of the end has replaced an entry under the id.
Sole(e, i) ==
    \A k \in 1 .. Len(conns) : conns[k].end = e /\ conns[k].id = i => ~conns[k].raced

\* Until one does, a connection that runs or has ended is the entry under
\* its id, so that nothing is cut off.  A task that has only chosen its id
\* has replaced nothing yet.
Undisturbed(c) ==
    /\ conns[c].state # "cancelled"
    /\ conns[c].state \in Running \cup {"ended"} => table[conns[c].end][conns[c].id] = c
Unmarked(c) == conns[c].state = "found" => ~conns[c].raced
Orderly ==
    \A c \in 1 .. Len(conns) :
        Unmarked(c) /\ (Sole(conns[c].end, conns[c].id) => Undisturbed(c))

\* No step takes a mark away, so an id is raced for from then on.
LEMMA SoleBefore ==
    ASSUME Typed, Typed', Kept, NEW e, NEW i, Sole(e, i)',
           \A k \in 1 .. Len(conns) : conns[k].raced => conns'[k].raced
    PROVE  Sole(e, i)
<1>1. Len(conns) \in Nat /\ Len(conns') \in Nat
  BY DEF Typed
<1> QED  BY <1>1 DEF Kept, Sole

\* The steps that leave the table alone: an actor that ends was in it.
LEMMA OrderlyMoves ==
    ASSUME Inv, Inv', Kept, Orderly, Ordinary
    PROVE  Orderly'
<1>1. /\ Len(conns) \in Nat /\ DOMAIN conns = 1 .. Len(conns) /\ table' = table
      /\ Typed /\ Typed'
  BY TypeFacts DEF Inv, Ordinary
<1>2. CASE Rests
  BY <1>1, <1>2 DEF Rests, Orderly, Unmarked, Sole, Undisturbed
<1>3. ASSUME NEW c \in 1 .. Len(conns), TriesAgain(c) \/ Opens(c) \/ Works(c) \/ Takes(c)
      PROVE  Orderly'
  <2>1. PICK state, app :
          /\ Moves(c, state, app)
          /\ \/ conns[c].state \in Running /\ state \in Running \cup {"ended"}
             \/ state = conns[c].state
    BY <1>3 DEF TriesAgain, Opens, Works, Takes, Running
  <2>2. conns[c].state \in Running => table[conns[c].end][conns[c].id] = c
    BY <1>1 DEF Inv, RunningIsListed
  <2>3. Len(conns') = Len(conns)
    BY <2>1 DEF Moves
  <2>4. ASSUME NEW k \in 1 .. Len(conns), Sole(conns[k].end, conns[k].id)'
        PROVE  Undisturbed(k)'
    <3>1. /\ conns'[k].end = conns[k].end /\ conns'[k].id = conns[k].id
          /\ \A d \in 1 .. Len(conns) : conns'[d].raced = conns[d].raced
      BY <2>1 DEF Moves
    <3>2. PICK e, i : e = conns[k].end /\ i = conns[k].id
      OBVIOUS
    <3>3. Sole(e, i)'
      BY <2>4, <3>1, <3>2
    <3>4. Sole(e, i)
      BY <1>1, <3>1, <3>3, SoleBefore
    <3>5. Undisturbed(k)
      BY <3>2, <3>4 DEF Orderly
    <3>6. CASE k = c
      BY <1>1, <2>1, <2>2, <3>1, <3>5, <3>6 DEF Moves, Undisturbed, Running
    <3>7. CASE k # c
      BY <1>1, <2>1, <3>1, <3>5, <3>7 DEF Moves, Undisturbed
    <3> QED  BY <3>6, <3>7
  <2>5. ASSUME NEW k \in 1 .. Len(conns)  PROVE Unmarked(k)'
    BY <2>1 DEF Moves, Orderly, Unmarked, Running
  <2> QED  BY <2>3, <2>4, <2>5 DEF Orderly
<1> QED  BY <1>2, <1>3 DEF Ordinary

\* A connection is added: by a task, which has only chosen, or by a SYN for
\* an id that has no entry.
LEMMA OrderlyGrows ==
    ASSUME Inv, Inv', Kept, Orderly,
           \/ \E e \in Ends, i \in Ids : Chooses(e, i)
           \/ \E p \in net : Enters(p)
    PROVE  Orderly'
<1>0. /\ Typed /\ Typed' /\ Len(conns) \in Nat
      /\ \A k \in 1 .. Len(conns) : conns[k].end \in Ends /\ conns[k].id \in Ids
  BY TypeFacts DEF Inv
<1>1. /\ Len(conns') = Len(conns) + 1
      /\ \A k \in 1 .. Len(conns) : conns'[k] = conns[k]
  BY DEF Chooses, Enters, Grows
<1>2. ASSUME NEW k \in 1 .. Len(conns), Sole(conns[k].end, conns[k].id)'
      PROVE  Undisturbed(k)
  <2>1. PICK e, i : e = conns[k].end /\ i = conns[k].id
    OBVIOUS
  <2>2. Sole(e, i)'
    BY <1>1, <1>2, <2>1
  <2>3. Sole(e, i)
    BY <1>0, <1>1, <2>2, SoleBefore
  <2> QED  BY <2>1, <2>3 DEF Orderly
<1>5. ASSUME NEW k \in 1 .. Len(conns')  PROVE Unmarked(k)'
  <2>1. ~conns'[Len(conns) + 1].raced
    BY DEF Chooses, Enters, Grows
  <2> QED  BY <1>0, <1>1, <2>1 DEF Orderly, Unmarked
<1>3. ASSUME NEW e \in Ends, NEW i \in Ids, Chooses(e, i)  PROVE Orderly'
  <2>1. table' = table /\ conns'[Len(conns) + 1].state = "found"
    BY <1>3 DEF Chooses, Grows
  <2>2. ASSUME NEW k \in 1 .. Len(conns), Undisturbed(k)  PROVE Undisturbed(k)'
    BY <1>1, <2>1, <2>2 DEF Undisturbed
  <2>3. ASSUME NEW n, n = Len(conns) + 1  PROVE Undisturbed(n)'
    BY <2>1, <2>3 DEF Undisturbed, Running
  <2> QED  BY <1>0, <1>1, <1>2, <1>5, <2>2, <2>3 DEF Orderly
<1>4. ASSUME NEW p \in net, Enters(p)  PROVE Orderly'
  <2>1. p.to \in Ends /\ p.id \in Ids
    BY <1>0, TypeFacts
  <2>2. table[p.to][p.id] = 0 /\ Lists(p.to, p.id, Len(conns) + 1)
    BY <1>4 DEF Enters
  <2>3. ASSUME NEW k \in 1 .. Len(conns), Undisturbed(k)  PROVE Undisturbed(k)'
    <3>1. conns[k].state \in Running \cup {"ended"} =>
            ~(conns[k].end = p.to /\ conns[k].id = p.id)
      BY <2>2, <2>3 DEF Undisturbed
    <3> QED  BY <1>0, <1>1, <2>2, <2>3, <3>1 DEF Undisturbed, Lists
  <2>4. ASSUME NEW n, n = Len(conns) + 1  PROVE Undisturbed(n)'
    <3>1. conns'[n].end = p.to /\ conns'[n].id = p.id /\ conns'[n].state = "steady"
      BY <1>4, <2>4 DEF Enters, Grows
    <3> QED  BY <2>1, <2>2, <2>4, <3>1 DEF Undisturbed, Lists
  <2> QED  BY <1>0, <1>1, <1>2, <1>5, <2>3, <2>4 DEF Orderly
<1> QED  BY <1>3, <1>4

\* set_stream finds no entry or leaves a mark; and the reaper, under an id
\* without one, only the entry it came for.
LEMMA OrderlyDisplaces ==
    ASSUME Inv, Inv', Kept, Orderly, NEW c \in 1 .. Len(conns), Starts(c) \/ Leaves(c)
    PROVE  Orderly'
<1>0. PICK e, i : e = conns[c].end /\ i = conns[c].id
  OBVIOUS
<1>1. /\ Typed /\ Typed' /\ Len(conns) \in Nat /\ e \in Ends /\ i \in Ids
      /\ \A k \in 1 .. Len(conns) : conns[k].end \in Ends /\ conns[k].id \in Ids
  BY <1>0, TypeFacts DEF Inv
<1>2. PICK state, raced, entry :
        /\ Displaces(c, state, raced, entry)
        /\ \/ state = "synsent" /\ entry = c /\ raced = (table[e][i] # 0)
              /\ conns[c].state = "found"
           \/ state = "reaped" /\ raced = conns[c].raced
              /\ conns[c].state \in {"ended", "cancelled"}
  BY <1>0 DEF Starts, Leaves
<1>3. ASSUME NEW k \in 1 .. Len(conns)
      PROVE  /\ conns'[k].end = conns[k].end /\ conns'[k].id = conns[k].id
             /\ k # c => conns'[k].raced = conns[k].raced
             /\ k # c /\ k # table[e][i] => conns'[k].state = conns[k].state
             /\ conns'[c].state = state /\ conns'[c].raced = raced
  BY <1>0, <1>2 DEF Displaces
<1>4. Lists(e, i, entry) /\ Len(conns') = Len(conns)
  BY <1>0, <1>2 DEF Displaces
<1>5. ASSUME NEW k \in 1 .. Len(conns), ~(conns[k].end = e /\ conns[k].id = i),
             Sole(conns[k].end, conns[k].id)'
      PROVE  Undisturbed(k)'
  <2>1. PICK f, j : f = conns[k].end /\ j = conns[k].id
    OBVIOUS
  <2>2. Sole(f, j)
    <3>1. Sole(f, j)'
      BY <1>3, <1>5, <2>1
    <3>2. \A d \in 1 .. Len(conns) :
            conns[d].end = f /\ conns[d].id = j => d # c
      BY <1>0, <1>5, <2>1
    <3> QED  BY <1>3, <1>4, <3>1, <3>2 DEF Sole
  <2>3. Undisturbed(k)
    BY <2>1, <2>2 DEF Orderly
  <2>4. k # c /\ k # table[e][i]
    BY <1>0, <1>1, <1>5 DEF Inv, EntryIsOwn
  <2>5. conns'[k].state = conns[k].state
    BY <1>3, <2>4
  <2>6. table'[conns'[k].end][conns'[k].id] = table[conns[k].end][conns[k].id]
    BY <1>1, <1>3, <1>4, <1>5 DEF Lists
  <2> QED  BY <2>3, <2>5, <2>6 DEF Undisturbed
<1>6. ASSUME NEW k \in 1 .. Len(conns), conns[k].end = e, conns[k].id = i,
             Sole(conns[k].end, conns[k].id)'
      PROVE  Undisturbed(k)'
  <2>1. Sole(e, i)'
    BY <1>3, <1>6
  <2>2. ~raced
    BY <1>0, <1>3, <1>4, <2>1 DEF Sole
  <2>3. conns[c].state \in {"ended", "cancelled"} => Sole(e, i)
    BY <1>2, <1>3, <1>4, <2>1 DEF Sole
  <2>4. table[e][i] = 0 \/ table[e][i] = c
    <3>1. CASE conns[c].state = "found"
      BY <1>2, <2>2, <3>1
    <3>2. CASE conns[c].state \in {"ended", "cancelled"}
      BY <1>0, <2>3, <3>2 DEF Orderly, Undisturbed
    <3> QED  BY <1>2, <3>1, <3>2
  <2>5. CASE k = c
    <3>1. state = "synsent" => table'[e][i] = c
      BY <1>1, <1>2, <1>4 DEF Lists
    <3> QED  BY <1>2, <1>3, <1>6, <2>5, <3>1 DEF Undisturbed, Running
  <2>6. CASE k # c
    <3>1. conns'[k].state = conns[k].state
      BY <1>1, <1>3, <2>4, <2>6
    <3>2. Sole(e, i) => conns[k].state \notin Running \cup {"ended", "cancelled"}
      BY <1>6, <2>4, <2>6 DEF Orderly, Undisturbed
    <3>3. conns[c].state = "found" => Sole(e, i)
      BY <1>3, <1>4, <2>1 DEF Sole, Orderly, Unmarked
    <3>4. Sole(e, i)
      BY <1>2, <2>3, <3>3
    <3> QED  BY <3>1, <3>2, <3>4 DEF Undisturbed
  <2> QED  BY <2>5, <2>6
<1>7. ASSUME NEW k \in 1 .. Len(conns)  PROVE Unmarked(k)'
  <2>1. conns'[k].state = "found" => k # c /\ conns[k].state = "found"
    BY <1>0, <1>2 DEF Displaces, Running
  <2> QED  BY <1>3, <2>1 DEF Orderly, Unmarked
<1> QED  BY <1>4, <1>5, <1>6, <1>7 DEF Orderly

LEMMA OrderlyStep ==
    ASSUME Inv, Inv', Orderly, Steps
    PROVE  Orderly'
<1>1. Kept
  BY StepKeeps DEF Inv
<1>2. ASSUME NEW p \in net, Repeats(p)  PROVE Orderly'
  BY <1>2 DEF Repeats, Orderly, Unmarked, Sole, Undisturbed
<1> QED  BY <1>1, <1>2, OrderlyMoves, OrderlyGrows, OrderlyDisplaces DEF Steps

\* The table cuts a connection off only under an id for which a set_stream
\* of the same end found an entry: whatever the number of open tasks, of
\* SYNs on the way and of reapers that run late.
THEOREM MuxCancelledByRace == Spec => []CancelledByRace
<1>1. Init => Orderly
  BY DEF Init, Orderly
<1>2. Inv /\ Orderly /\ [Next]_vars => Orderly'
  BY NextInv, NextSteps, OrderlyStep, Zenon DEF Inv
<1>3. Inv /\ Orderly => CancelledByRace
  BY TypeFacts DEF Inv, Orderly, Sole, Undisturbed, CancelledByRace
<1> QED  BY <1>1, <1>2, <1>3, MuxInvariant, PTL DEF Spec
=============================================================================
