------------------------------ MODULE Listener ------------------------------
(***************************************************************************)
(* The server's side of sessions: ListenerActor with its SessionTable and  *)
(* the RecentFilter of handshakes, and as its environment the clients that *)
(* send ClientHello and ClientResume and the application that drops        *)
(* sessions.                                                               *)
(*                                                                         *)
(* A handshake packet may arrive never, once or many times, in any order   *)
(* and at any time, so net only grows.  Time is counted in the epochs of   *)
(* the handshake keys (60 s), and a client's clock may be off by as much   *)
(* as still gives a key the server tries.  What a packet's key decrypts to *)
(* is its content; a ClientResume carries a token this listener made.      *)
(* Data packets only read the table, and appear in the properties.         *)
(***************************************************************************)
EXTENDS Integers, Sequences, FiniteSets

CONSTANTS
    Tokens, Shards, Addrs,
    None,
    KeyWindow,      \* epochs around the current one whose keys are tried: 2
    FilterMemory,   \* epochs a handshake is surely remembered: 600 s, so 10
    MaxEpoch,       \* bound: time
    MaxPackets,     \* bound: handshake packets sent
    MaxSessions,    \* bound: sessions created
    MaxFrames       \* bound: data frames a session sends

ASSUME ListenerAssumption ==
    /\ None \notin Addrs \cup Tokens
    /\ KeyWindow \in Nat /\ FilterMemory \in Nat /\ 2 * KeyWindow < FilterMemory
    /\ {MaxEpoch, MaxPackets, MaxSessions, MaxFrames} \subseteq Nat

VARIABLES
    epoch,          \* the server's clock
    net,            \* handshake packets sent
    seen,           \* RecentFilter: [id, at] of the packets remembered
    handled,        \* how often a packet, by id, was handled
    issued,         \* resume tokens given out in a ServerHello
    count,          \* Sessions created; they are numbered from 1
    owner,          \* the token of a session
    alive,          \* the sessions the application holds
    addrs,          \* ShardedAddrs: session -> shard -> address, or None
    frame_no,       \* the next frame number of a session
    token_to_sess,  \* token -> number of its session, or 0
    addr_to_token,  \* address -> token, or None
    dead,           \* tokens of dropped sessions, not yet deleted
    sent            \* frame numbers sent under a token's key, in order

clock == <<epoch, net>>
table == <<count, owner, alive, addrs, token_to_sess, addr_to_token, dead>>
vars == <<clock, seen, handled, issued, table, frame_no, sent>>

Numbers == 1 .. MaxSessions
NoAddrs == [s \in Shards |-> None]

Init ==
    /\ epoch = 0 /\ net = {} /\ seen = {} /\ handled = [i \in 1 .. MaxPackets |-> 0]
    /\ issued = {} /\ count = 0 /\ alive = {} /\ dead = <<>>
    /\ owner = [k \in Numbers |-> None]
    /\ addrs = [k \in Numbers |-> NoAddrs]
    /\ frame_no = [k \in Numbers |-> 0]
    /\ token_to_sess = [t \in Tokens |-> 0]
    /\ addr_to_token = [a \in Addrs |-> None]
    /\ sent = [t \in Tokens |-> <<>>]

-----------------------------------------------------------------------------
(* Clients *)

NextId == Cardinality(net) + 1

\* Padding and nonce make every packet a different one; it is encrypted under
\* the epoch of the client's clock.
SendHandshake(kind, token, shard, addr) ==
    /\ NextId <= MaxPackets
    /\ \E e \in epoch - KeyWindow .. epoch + KeyWindow :
        net' = net \cup {[id |-> NextId, kind |-> kind, epoch |-> e,
                          token |-> token, shard |-> shard, addr |-> addr]}
    /\ UNCHANGED <<epoch, seen, handled, issued, table, frame_no, sent>>

\* connect_custom, each try from a new socket.
SendHello == \E a \in Addrs : SendHandshake("hello", None, None, a)

\* client_backhaul_once, for the worker of a shard: first of all, and again
\* at least every second of uploading, from whatever address it has by then.
SendResume ==
    \E t \in Tokens, s \in Shards, a \in Addrs :
        t \in issued /\ SendHandshake("resume", t, s, a)

-----------------------------------------------------------------------------
(* Evt::NewRecv with a handshake *)

\* Mutant: keys of the past are tried without end.
DecryptsOld(p) == p.epoch - KeyWindow <= epoch

\* One of the keys of generate_c2s decrypts the packet.
Decrypts(p) == p.epoch - KeyWindow <= epoch /\ epoch <= p.epoch + KeyWindow

\* RecentFilter::check: forgets what expired, then admits and records what
\* it does not remember.
Remembered == {r \in seen : epoch - r.at < FilterMemory}
Check(p) ==
    /\ p \in net /\ Decrypts(p)
    /\ \A r \in Remembered : r.id # p.id
    /\ seen' = Remembered \cup {[id |-> p.id, at |-> epoch]}
    /\ handled' = [handled EXCEPT ![p.id] = @ + 1]

\* A replay is discarded, after the cleanup.
Discard(p) ==
    /\ p \in net /\ Decrypts(p)
    /\ \E r \in Remembered : r.id = p.id
    /\ seen' = Remembered
    /\ UNCHANGED <<clock, handled, issued, table, frame_no, sent>>

\* ClientHello: the whole state of the session to be is in the token.
ClientHello(p) ==
    /\ p.kind = "hello" /\ Check(p)
    /\ \E t \in Tokens \ issued : issued' = issued \cup {t}
    /\ UNCHANGED <<clock, table, frame_no, sent>>

\* Mutants: the old address stays; it is taken out after the new one is in.
RebindKeepsOld(t, a, old) ==
    addr_to_token' = [addr_to_token EXCEPT ![a] = t]
RebindSwapped(t, a, old) ==
    addr_to_token' = [b \in Addrs |-> IF b = old THEN None
                                      ELSE IF b = a THEN t ELSE addr_to_token[b]]

\* SessionTable::rebind, for a shard whose address so far is old.
Rebind(t, a, old) ==
    addr_to_token' = [b \in Addrs |-> IF b = a THEN t
                                      ELSE IF b = old THEN None ELSE addr_to_token[b]]

\* A ClientResume whose token has a session.
ResumeBound(p) ==
    LET k == token_to_sess[p.token]
    IN /\ k # 0
       /\ Rebind(p.token, p.addr, addrs[k][p.shard])
       /\ addrs' = [addrs EXCEPT ![k] = [@ EXCEPT ![p.shard] = p.addr]]
       /\ UNCHANGED <<count, owner, alive, token_to_sess>>

\* SessionTable::new_sess.
NewSess(t, k, shard, a) ==
    /\ addrs' = [addrs EXCEPT ![k] = [NoAddrs EXCEPT ![shard] = a]]
    /\ token_to_sess' = [token_to_sess EXCEPT ![t] = k]

\* Mutant: a new session without asking whether there is one.
ResumeNewAlways(p) ==
    LET k == count + 1
    IN /\ k <= MaxSessions
       /\ NewSess(p.token, k, p.shard, p.addr)
       /\ Rebind(p.token, p.addr, p.addr)
       /\ count' = k /\ alive' = alive \cup {k}
       /\ owner' = [owner EXCEPT ![k] = p.token]

\* A ClientResume whose token has none: a new Session with the token's key,
\* new_sess, and rebind.
ResumeNew(p) ==
    LET k == count + 1
    IN /\ token_to_sess[p.token] = 0 /\ k <= MaxSessions
       /\ NewSess(p.token, k, p.shard, p.addr)
       /\ Rebind(p.token, p.addr, p.addr)
       /\ count' = k /\ alive' = alive \cup {k}
       /\ owner' = [owner EXCEPT ![k] = p.token]

ClientResume(p) ==
    /\ p.kind = "resume" /\ Check(p)
    /\ ResumeBound(p) \/ ResumeNew(p)
    /\ UNCHANGED <<clock, issued, dead, frame_no, sent>>

-----------------------------------------------------------------------------
(* Sessions *)

\* The application drops a Session, whose on_drop reports its token.
DropSession(k) ==
    /\ k \in alive /\ alive' = alive \ {k}
    /\ dead' = Append(dead, owner[k])
    /\ UNCHANGED <<clock, seen, handled, issued, count, owner, addrs,
                   token_to_sess, addr_to_token, frame_no, sent>>

\* Evt::DeadSess: SessionTable::delete.
DeadSess ==
    /\ dead # <<>>
    /\ LET t == Head(dead)
           k == token_to_sess[t]
       IN IF k = 0 THEN UNCHANGED <<token_to_sess, addr_to_token>>
          ELSE /\ token_to_sess' = [token_to_sess EXCEPT ![t] = 0]
               /\ addr_to_token' = [a \in Addrs |->
                     IF \E s \in Shards : addrs[k][s] = a
                     THEN None ELSE addr_to_token[a]]
    /\ dead' = Tail(dead)
    /\ UNCHANGED <<clock, seen, handled, issued, count, owner, alive, addrs,
                   frame_no, sent>>

\* The send loop of a Session numbers its frames from 0.
SendFrame(k) ==
    /\ k \in alive /\ frame_no[k] < MaxFrames
    /\ sent' = [sent EXCEPT ![owner[k]] = Append(@, frame_no[k])]
    /\ frame_no' = [frame_no EXCEPT ![k] = @ + 1]
    /\ UNCHANGED <<clock, seen, handled, issued, table>>

Tick ==
    /\ epoch < MaxEpoch /\ epoch' = epoch + 1
    /\ UNCHANGED <<net, seen, handled, issued, table, frame_no, sent>>

Next ==
    \/ SendHello \/ SendResume
    \/ \E p \in net : ClientHello(p) \/ ClientResume(p) \/ Discard(p)
    \/ \E k \in Numbers : DropSession(k) \/ SendFrame(k)
    \/ DeadSess \/ Tick

Spec == Init /\ [][Next]_vars

-----------------------------------------------------------------------------
(* Properties *)

\* A handshake packet is acted upon at most once, however often and whenever
\* it is received again: the keys expire before the filter forgets.
HandledOnce == \A i \in DOMAIN handled : handled[i] <= 1

\* SessionTable::lookup never finds a token without a session, nor a session
\* that was not bound to the address by one of its shards.
NoDangling ==
    \A a \in Addrs : addr_to_token[a] # None =>
        LET k == token_to_sess[addr_to_token[a]]
        IN k # 0 /\ \E s \in Shards : addrs[k][s] = a

\* A session the application still has is in the table under its token: the
\* report of an earlier session's death never deletes a later one.
LiveIsListed ==
    \A k \in alive : token_to_sess[owner[k]] = k

\* Every address a listed session sends to is found by lookup as that
\* session's, unless another shard or session has resumed from it as well.
Uses == {<<p.token, p.shard, p.addr>> : p \in {q \in net : q.kind = "resume"}}
Sole(use) == \A other \in Uses : other[3] = use[3] => other = use
Reachable ==
    \A t \in Tokens : token_to_sess[t] # 0 =>
        \A s \in Shards :
            LET a == addrs[token_to_sess[t]][s]
            IN a # None /\ Sole(<<t, s, a>>) => addr_to_token[a] = t

\* "Strictly incrementing counter of frames. Must never repeat."
FrameNoNeverRepeats ==
    \A t \in Tokens : \A i, j \in DOMAIN sent[t] : i < j => sent[t][i] < sent[t][j]
=============================================================================
