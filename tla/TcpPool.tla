------------------------------ MODULE TcpPool -------------------------------
(***************************************************************************)
(* The TCP backhaul between one client and one server: the client's pool   *)
(* of connections to the server with the task that reads from each, the    *)
(* server's task per connection, and the DownTable that says over which    *)
(* connection the client's fake address is reached.                        *)
(*                                                                         *)
(* A connection taken from the pool is written to and put back without an  *)
(* await that could block, so send_to over it is one step.  Of the bytes   *)
(* on the way to the server the frames are kept: "addr" (the fake address  *)
(* that opens every connection), "frame", and "part" (the beginning of a   *)
(* frame whose write did not fit).  TLS, the hello and the cipher are in   *)
(* Handshake, which succeeds or fails as a whole; the stream cipher needs  *)
(* both ends to count the same bytes, which is FramesWhole.                *)
(*                                                                         *)
(* Time passes in units of which Lifetime make CONN_LIFETIME.  Timers fire *)
(* on time, and a new connection is entered into the table within a unit;  *)
(* no two sets of an entry carry the same Instant.  The pool goes by       *)
(* another clock, SystemTime, which may be set forward and back.           *)
(***************************************************************************)
EXTENDS Integers, Sequences, FiniteSets, SequencesExt

CONSTANTS
    Conns,          \* TCP connections; one that is closed may come again
    Senders,        \* tasks that call send_to (a client worker is one)
    None,           \* no connection, no entry
    Gone,           \* in the table: the channel of a task that has ended
    Lifetime,       \* CONN_LIFETIME (600 s)
    GcAge,          \* age at which gc deletes an entry (3600 s)
    Room,           \* frames that fit into a connection's send buffer
    Jumps,          \* by how much the system's clock may be set
    MaxGcs,         \* bound: calls of gc that are about to delete the entry
    MaxFaults       \* bound: connections cut, dials that fail, clock set

ASSUME TcpPoolAssumption ==
    /\ {None, Gone} \cap Conns = {} /\ None # Gone /\ IsFiniteSet(Senders)
    /\ Lifetime \in Nat \ {0} /\ GcAge \in Nat /\ 2 * Lifetime < GcAge
    /\ Room \in Nat \ {0} /\ Jumps \subseteq Int
    /\ MaxGcs \in Nat /\ MaxFaults \in Nat

VARIABLES
    pool,           \* conn_pool of the server's address
    dialing,        \* Senders -> the connection being opened, or None
    age,            \* of each connection, by which its tasks end
    elapsed,        \* of each connection in the pool, by SystemTime
    reader,         \* connections whose read task runs at the client
    link,           \* connections the network carries
    up,             \* what is on its way to the server, per connection
    server,         \* state of the server's task per connection
    table,          \* DownTable: [to, age] of the client's address
    gcs,            \* calls of gc that have collected the client's address
    faults

clientVars == <<pool, dialing, reader, elapsed>>
vars == <<clientVars, age, link, up, server, table, gcs, faults>>

NoEntry == [to |-> None, age |-> 0]

Init ==
    /\ pool = <<>> /\ dialing = [s \in Senders |-> None]
    /\ age = [c \in Conns |-> 0] /\ elapsed = [c \in Conns |-> 0]
    /\ reader = {} /\ link = {}
    /\ up = [c \in Conns |-> <<>>]
    /\ server = [c \in Conns |-> "none"]
    /\ table = NoEntry /\ gcs = 0 /\ faults = 0

\* The client holds the socket as long as the pool or the read task does.
Held(c) == c \in ToSet(pool) \/ c \in reader \/ \E s \in Senders : dialing[s] = c
Closed(c) == ~Held(c) /\ server[c] = "none"

-----------------------------------------------------------------------------
(* The client: send_to *)

\* get_conn_pooled gives out a connection that was stamped less than
\* CONN_LIFETIME ago; those it meets on the way that are older, or stamped
\* in the future, are dropped.
Fresh(c) == elapsed[c] \in 0 .. Lifetime - 1

\* The position of the one it gives out.
FirstFresh(i) == Fresh(pool[i]) /\ \A j \in 1 .. i - 1 : ~Fresh(pool[j])

\* Mutant: a connection whose write did not fit goes back into the pool.
WriteKept(c, sent, rest, ok) ==
    /\ up' = [up EXCEPT ![c] =
                Append(sent, IF Len(sent) < Room THEN "frame" ELSE "part")]
    /\ pool' = Append(rest, c)

\* Writes a frame after what was sent over c before.  It fits, and c goes
\* to the end of the pool; or it would block, or the connection turns out
\* not to be ok, and c is thrown away, with part of the frame sent.
Write(c, sent, rest, ok) ==
    \/ /\ Len(sent) < Room
       /\ up' = [up EXCEPT ![c] = Append(sent, "frame")]
       /\ pool' = Append(rest, c)
    \/ /\ Len(sent) >= Room \/ ~ok
       /\ up' = [up EXCEPT ![c] = Append(sent, "part")]
       /\ pool' = rest

\* Mutant: the connection is looked at and not taken out.
SendPooledPeek(s) ==
    /\ dialing[s] = None
    /\ \E i \in DOMAIN pool :
        /\ FirstFresh(i) /\ Len(up[pool[i]]) < Room
        /\ Write(pool[i], up[pool[i]], pool, TRUE)
    /\ UNCHANGED <<dialing, age, elapsed, reader, link, server, table, gcs, faults>>

\* send_to over a connection of the pool.
SendPooled(s) ==
    /\ dialing[s] = None
    /\ \E i \in DOMAIN pool :
        /\ FirstFresh(i)
        /\ Write(pool[i], up[pool[i]], SubSeq(pool, i + 1, Len(pool)), pool[i] \in link)
    /\ UNCHANGED <<dialing, age, elapsed, reader, link, server, table, gcs, faults>>

\* send_to finds no connection it may use, drops the old ones, and opens
\* one, which may bear the name of one that it dropped.
Dial(s, c) ==
    /\ dialing[s] = None
    /\ \A i \in DOMAIN pool : ~Fresh(pool[i])
    /\ server[c] = "none" /\ c \notin reader /\ \A t \in Senders : dialing[t] # c
    /\ dialing' = [dialing EXCEPT ![s] = c]
    /\ pool' = <<>>
    /\ UNCHANGED <<age, elapsed, reader, link, up, server, table, gcs, faults>>

\* The server answers the hello; its task then waits for the address.
Answers(c) ==
    /\ age' = [age EXCEPT ![c] = 0]
    /\ link' = link \cup {c}
    /\ server' = [server EXCEPT ![c] = "addr"]

\* Hello and answer, the fake address, the read task, the stamp, and then
\* the frame.
Handshake(s) ==
    LET c == dialing[s] IN
    /\ c # None
    /\ Answers(c)
    /\ dialing' = [dialing EXCEPT ![s] = None]
    /\ reader' = reader \cup {c}
    /\ elapsed' = [elapsed EXCEPT ![c] = 0]
    /\ Write(c, <<"addr">>, pool, TRUE)
    /\ UNCHANGED <<table, gcs, faults>>

\* No answer within 10 s, or a bad one: the packet is dropped.  The server
\* may have answered, and may even get the address.
DialFails(s) ==
    LET c == dialing[s] IN
    /\ c # None /\ faults < MaxFaults
    /\ dialing' = [dialing EXCEPT ![s] = None]
    /\ faults' = faults + 1
    /\ \/ UNCHANGED <<age, link, up, server>>
       \/ Answers(c) /\ up' = [up EXCEPT ![c] = <<"addr">>]
    /\ UNCHANGED <<pool, elapsed, reader, table, gcs>>

\* The read task ends: with CONN_LIFETIME, or because reading failed.
ReaderEnds(c) ==
    /\ c \in reader /\ (age[c] >= Lifetime \/ c \notin link)
    /\ reader' = reader \ {c}
    /\ UNCHANGED <<pool, dialing, elapsed, age, link, up, server, table, gcs, faults>>

-----------------------------------------------------------------------------
(* The server: backhaul_one_inner_obfs and DownTable *)

\* There is something whole to read.
Readable(c) == up[c] # <<>> /\ Head(up[c]) # "part"

\* The address, or a whole frame, which goes to recv_from.
ServerReads(c) ==
    /\ server[c] \in {"addr", "read"} /\ c \in link /\ Readable(c)
    /\ up' = [up EXCEPT ![c] = Tail(@)]
    /\ server' = [server EXCEPT ![c] = "set"]
    /\ UNCHANGED <<clientVars, age, link, table, gcs, faults>>

\* Mutant: an entry that exists is kept.
ServerSetsOnce(c) ==
    /\ server[c] = "set"
    /\ table' = IF table = NoEntry THEN [to |-> c, age |-> 0] ELSE table
    /\ server' = [server EXCEPT ![c] = "read"]
    /\ UNCHANGED <<clientVars, age, link, up, gcs, faults>>

\* DownTable::set, before each read of a frame.
ServerSets(c) ==
    /\ server[c] = "set"
    /\ table' = [to |-> c, age |-> 0]
    /\ server' = [server EXCEPT ![c] = "read"]
    /\ UNCHANGED <<clientVars, age, link, up, gcs, faults>>

\* The task ends: after twice CONN_LIFETIME, or because the client closed
\* the connection and nothing whole is left to read, or because it was cut.
\* What it has not read is lost with the socket.
ServerEnds(c) ==
    /\ server[c] # "none"
    /\ \/ age[c] >= 2 * Lifetime
       \/ c \notin link
       \/ ~Held(c) /\ server[c] # "set" /\ ~Readable(c)
    /\ server' = [server EXCEPT ![c] = "none"]
    /\ link' = link \ {c}
    /\ table' = IF table.to = c THEN [table EXCEPT !.to = Gone] ELSE table
    /\ up' = [up EXCEPT ![c] = <<>>]
    /\ UNCHANGED <<clientVars, age, gcs, faults>>

\* gc, which set runs at random, for connections of any client: it goes
\* through the table, and then deletes the keys whose entries were too old,
\* whatever has been set under them in the meantime.
GcCollects ==
    /\ table # NoEntry /\ table.age > GcAge /\ gcs < MaxGcs
    /\ gcs' = gcs + 1
    /\ UNCHANGED <<clientVars, age, link, up, server, table, faults>>

GcRemoves ==
    /\ gcs > 0
    /\ gcs' = gcs - 1
    /\ table' = NoEntry
    /\ UNCHANGED <<clientVars, age, link, up, server, faults>>

-----------------------------------------------------------------------------
(* The network and time *)

Cut(c) ==
    /\ c \in link /\ faults < MaxFaults
    /\ link' = link \ {c}
    /\ faults' = faults + 1
    /\ UNCHANGED <<clientVars, age, up, server, table, gcs>>

\* The system's clock is set: what the pool takes for the age changes.
SetClock ==
    /\ faults < MaxFaults
    /\ \E d \in Jumps : elapsed' = [c \in Conns |->
                           IF c \in ToSet(pool) THEN elapsed[c] + d ELSE 0]
    /\ faults' = faults + 1
    /\ UNCHANGED <<pool, dialing, reader, age, link, up, server, table, gcs>>

\* No timer is overdue, and no new connection is still waiting to be set.
MayTick ==
    /\ \A c \in reader : age[c] < Lifetime
    /\ \A c \in Conns : server[c] # "none" => age[c] < 2 * Lifetime
    /\ \A c \in reader : age[c] = 0 /\ server[c] # "none" => server[c] = "read" /\ ~Readable(c)

Min2(m, n) == IF m < n THEN m ELSE n

Tick ==
    /\ MayTick
    /\ age' = [c \in Conns |->
                  IF Closed(c) THEN 0 ELSE Min2(age[c] + 1, 2 * Lifetime)]
    /\ elapsed' = [c \in Conns |->
                      IF c \in ToSet(pool) THEN Min2(elapsed[c] + 1, 2 * Lifetime) ELSE 0]
    /\ table' = IF table = NoEntry THEN table
                ELSE [to |-> table.to, age |-> Min2(table.age + 1, GcAge + 1)]
    /\ UNCHANGED <<pool, dialing, reader, link, up, server, gcs, faults>>

Sends(s) == SendPooled(s) \/ (\E c \in Conns : Dial(s, c)) \/ Handshake(s)
Serves(c) == ServerReads(c) \/ ServerSets(c) \/ ServerEnds(c)

Next ==
    \/ \E s \in Senders : Sends(s) \/ DialFails(s)
    \/ \E c \in Conns : ReaderEnds(c) \/ Serves(c) \/ Cut(c)
    \/ GcCollects \/ GcRemoves \/ SetClock \/ Tick

Spec == Init /\ [][Next]_vars

\* The client keeps sending, and tasks and timers proceed.
FairSpec ==
    /\ Spec
    /\ \A s \in Senders : WF_vars(Sends(s))
    /\ \A c \in Conns : WF_vars(Serves(c)) /\ WF_vars(ReaderEnds(c))
    /\ WF_vars(Tick)

-----------------------------------------------------------------------------
(* Properties *)

\* Types; the pool holds a connection once, and no more of them than there
\* are senders.
TypeOK ==
    /\ ToSet(pool) \subseteq Conns /\ IsInjective(pool)
    /\ Len(pool) <= Cardinality(Senders)
    /\ dialing \in [Senders -> Conns \cup {None}]
    /\ age \in [Conns -> 0 .. 2 * Lifetime] /\ elapsed \in [Conns -> Int]
    /\ reader \subseteq Conns /\ link \subseteq Conns
    /\ server \in [Conns -> {"none", "addr", "read", "set"}]
    /\ table \in [to : Conns \cup {None, Gone}, age : 0 .. GcAge + 1]
    /\ gcs \in 0 .. MaxGcs

\* Frames are written whole: nothing follows the beginning of a frame that
\* did not fit, so lengths and cipher streams stay in step at both ends.
FramesWhole ==
    \A c \in Conns : \A i \in 1 .. Len(up[c]) - 1 : up[c][i] # "part"

\* The client hears what the server sends to its address.
Hears == table.to \in reader \cap link /\ server[table.to] # "none"

\* A client that keeps sending is heard of again and again, although
\* connections grow old, are cut, or are thrown away, gc deletes the entry of
\* one that runs, or one is used on that nobody reads, because the clock
\* was set back: each new one is put into the table in place of the old,
\* and no old one stays in the pool or there.
HearsAgain == []<>Hears
=============================================================================
