--------------------------- MODULE ListenerProofs ---------------------------
(***************************************************************************)
(* For any tokens, shards, addresses, clocks and bounds: a handshake is    *)
(* handled at most once, the table's two maps agree, and a live session is *)
(* never deleted.                                                          *)
(***************************************************************************)
EXTENDS Listener, FiniteSetTheorems, TLAPS

\* Packets are told apart by their ids, which are numbered without a gap.
NetInv ==
    /\ IsFiniteSet(net)
    /\ \A p \in net : p.id \in 1 .. Cardinality(net) /\ p.id \in 1 .. MaxPackets /\ p.epoch \in Int
    /\ \A p, q \in net : p.id = q.id => p = q
    /\ \A p \in net : p.kind = "resume" => <<p.token, p.shard, p.addr>> \in Tokens \X Shards \X Addrs

\* A handled packet is still remembered, since a time at which its key was
\* already tried, or it is so old that its key is no longer tried.
Spent(p) ==
    \/ \E r \in seen : r.id = p.id /\ r.at + KeyWindow >= p.epoch
    \/ epoch >= p.epoch - KeyWindow + FilterMemory
ReplayInv ==
    /\ epoch \in Nat
    /\ \A r \in seen : r.at \in Nat
    /\ handled \in [1 .. MaxPackets -> {0, 1}]
    /\ \A i \in 1 .. MaxPackets : handled[i] = 1 => \E p \in net : p.id = i /\ Spent(p)

-----------------------------------------------------------------------------
(* Replays *)

\* A packet that can be decrypted and is not remembered was never handled.
LEMMA FreshWhenChecked ==
    ASSUME ListenerAssumption, NetInv, ReplayInv, NEW p \in net, Check(p)
    PROVE  handled[p.id] = 0
<1>1. p.id \in 1 .. MaxPackets /\ p.epoch \in Int
  BY DEF NetInv
<1>2. SUFFICES ASSUME handled[p.id] = 1 PROVE FALSE
  BY <1>1 DEF ReplayInv
<1>3. PICK q \in net : q.id = p.id /\ Spent(q)
  BY <1>1, <1>2 DEF ReplayInv
<1>4. Spent(p)
  BY <1>3 DEF NetInv
<1>5. epoch <= p.epoch + KeyWindow
  BY DEF Check, Decrypts
<1>6. CASE epoch >= p.epoch - KeyWindow + FilterMemory
  BY <1>1, <1>5, <1>6 DEF ListenerAssumption, ReplayInv
<1>7. CASE \E r \in seen : r.id = p.id /\ r.at + KeyWindow >= p.epoch
  <2>1. PICK r \in seen : r.id = p.id /\ r.at + KeyWindow >= p.epoch
    BY <1>7
  <2>2. r.at \in Nat /\ epoch \in Nat
    BY DEF ReplayInv
  <2>3. epoch - r.at < FilterMemory
    BY <1>1, <1>5, <2>1, <2>2 DEF ListenerAssumption
  <2>4. r \in Remembered
    BY <2>3 DEF Remembered
  <2> QED
    BY <2>1, <2>4 DEF Check
<1> QED
  BY <1>4, <1>6, <1>7 DEF Spent

\* Forgetting what expired leaves a spent packet spent.
LEMMA StillSpent ==
    ASSUME ListenerAssumption, ReplayInv, NEW q, q.epoch \in Int, Spent(q),
           Remembered \subseteq seen', epoch' = epoch
    PROVE  Spent(q)'
<1>1. CASE epoch >= q.epoch - KeyWindow + FilterMemory
  BY <1>1 DEF Spent
<1>2. CASE \E r \in seen : r.id = q.id /\ r.at + KeyWindow >= q.epoch
  <2>1. PICK r \in seen : r.id = q.id /\ r.at + KeyWindow >= q.epoch
    BY <1>2
  <2>2. r.at \in Nat /\ epoch \in Nat
    BY DEF ReplayInv
  <2>3. CASE epoch - r.at < FilterMemory
    BY <2>1, <2>3 DEF Remembered, Spent
  <2>4. CASE ~(epoch - r.at < FilterMemory)
    <3>1. epoch >= q.epoch - KeyWindow + FilterMemory
      BY <2>1, <2>2, <2>4 DEF ListenerAssumption
    <3> QED
      BY <3>1 DEF Spent
  <2> QED
    BY <2>3, <2>4
<1> QED
  BY <1>1, <1>2 DEF Spent

\* RecentFilter::check admits a packet that was never handled, and spends it.
LEMMA CheckKeeps ==
    ASSUME ListenerAssumption, NetInv, ReplayInv, NEW p \in net, Check(p), UNCHANGED clock
    PROVE  ReplayInv'
<1>1. p.id \in 1 .. MaxPackets /\ p.epoch \in Int /\ epoch \in Nat
  BY DEF NetInv, ReplayInv
<1>2. epoch' = epoch /\ net' = net
  BY DEF clock
<1>3. seen' = Remembered \cup {[id |-> p.id, at |-> epoch]}
  BY DEF Check
<1>4. \A r \in seen' : r.at \in Nat
  BY <1>1, <1>3 DEF Remembered, ReplayInv
<1>5. handled' = [handled EXCEPT ![p.id] = 1]
  <2>1. handled[p.id] = 0
    BY FreshWhenChecked
  <2>2. handled' = [handled EXCEPT ![p.id] = handled[p.id] + 1]
    BY DEF Check
  <2> QED
    BY <2>1, <2>2
<1>6. handled' \in [1 .. MaxPackets -> {0, 1}]
  BY <1>1, <1>5 DEF ReplayInv
<1>7. Spent(p)'
  <2>1. epoch + KeyWindow >= p.epoch
    BY <1>1 DEF Check, Decrypts, ListenerAssumption
  <2>2. [id |-> p.id, at |-> epoch] \in seen'
    BY <1>3
  <2> QED
    BY <2>1, <2>2 DEF Spent
<1>8. ASSUME NEW i \in 1 .. MaxPackets, handled'[i] = 1
      PROVE  \E q \in net : q.id = i /\ Spent(q)'
  <2>1. CASE i = p.id
    BY <1>7, <2>1
  <2>2. CASE i # p.id
    <3>1. handled[i] = 1
      BY <1>1, <1>5, <1>8, <2>2 DEF ReplayInv
    <3>2. PICK q \in net : q.id = i /\ Spent(q)
      BY <3>1 DEF ReplayInv
    <3>3. q.epoch \in Int
      BY DEF NetInv
    <3>4. Remembered \subseteq seen'
      BY <1>3
    <3> QED
      BY <1>2, <3>2, <3>3, <3>4, StillSpent
  <2> QED
    BY <2>1, <2>2
<1> QED
  BY <1>1, <1>2, <1>4, <1>6, <1>8 DEF ReplayInv

\* A new packet gets a number no packet has.
LEMMA SendKeeps ==
    ASSUME ListenerAssumption, NetInv, ReplayInv, NEW kind, NEW t, NEW s, NEW a,
           kind = "resume" => <<t, s, a>> \in Tokens \X Shards \X Addrs,
           SendHandshake(kind, t, s, a)
    PROVE  NetInv' /\ ReplayInv'
<1> DEFINE n == Cardinality(net)
<1>1. n \in Nat /\ n + 1 <= MaxPackets
  BY FS_CardinalityType DEF NetInv, SendHandshake, NextId
<1>2. PICK e \in epoch - KeyWindow .. epoch + KeyWindow :
        net' = net \cup {[id |-> n + 1, kind |-> kind, epoch |-> e,
                          token |-> t, shard |-> s, addr |-> a]}
  BY DEF SendHandshake, NextId
<1> DEFINE new == [id |-> n + 1, kind |-> kind, epoch |-> e,
                   token |-> t, shard |-> s, addr |-> a]
<1>3. new.id = n + 1 /\ new.epoch = e /\ new.kind = kind
      /\ new.token = t /\ new.shard = s /\ new.addr = a
  OBVIOUS
<1>4. e \in Int
  BY DEF ReplayInv, ListenerAssumption
<1>5. net' = net \cup {new}
  BY <1>2
<1> HIDE DEF new
<1>6. new \notin net
  BY <1>1, <1>3 DEF NetInv
<1>7. IsFiniteSet(net') /\ Cardinality(net') = n + 1
  BY <1>5, <1>6, FS_AddElement DEF NetInv
<1> HIDE DEF n
<1>8. \A p \in net : p.id \in 1 .. n
  BY DEF NetInv, n
<1>9. \A p \in net' : p.id \in 1 .. Cardinality(net') /\ p.id \in 1 .. MaxPackets /\ p.epoch \in Int
  BY <1>1, <1>3, <1>4, <1>5, <1>7, <1>8 DEF NetInv, ListenerAssumption
<1>10. \A p, q \in net' : p.id = q.id => p = q
  BY <1>1, <1>3, <1>5, <1>8 DEF NetInv
<1>11. \A p \in net' : p.kind = "resume" => <<p.token, p.shard, p.addr>> \in Tokens \X Shards \X Addrs
  BY <1>3, <1>5 DEF NetInv
<1>12. epoch' = epoch /\ seen' = seen /\ handled' = handled
  BY DEF SendHandshake
<1>13. ReplayInv'
  BY <1>5, <1>12 DEF ReplayInv, Spent
<1> QED
  BY <1>7, <1>9, <1>10, <1>11, <1>13 DEF NetInv

\* The clock moves on, and nothing spent comes back.
LEMMA TickKeeps ==
    ASSUME ListenerAssumption, NetInv, ReplayInv, Tick
    PROVE  NetInv' /\ ReplayInv'
<1>1. net' = net /\ seen' = seen /\ handled' = handled /\ epoch' = epoch + 1
  BY DEF Tick
<1>2. epoch \in Nat
  BY DEF ReplayInv
<1>3. NetInv'
  BY <1>1 DEF NetInv
<1>4. ASSUME NEW p \in net, Spent(p) PROVE Spent(p)'
  <2>1. p.epoch \in Int
    BY DEF NetInv
  <2> QED
    BY <1>1, <1>2, <1>4, <2>1 DEF Spent, ListenerAssumption
<1>5. \A i \in 1 .. MaxPackets : handled'[i] = 1 => \E p \in net' : p.id = i /\ Spent(p)'
  BY <1>1, <1>4 DEF ReplayInv
<1>6. ReplayInv'
  BY <1>1, <1>2, <1>5 DEF ReplayInv
<1> QED
  BY <1>3, <1>6

\* A discarded replay changes nothing but what is remembered.
LEMMA DiscardKeeps ==
    ASSUME ListenerAssumption, NetInv, ReplayInv, NEW p \in net, Discard(p)
    PROVE  NetInv' /\ ReplayInv'
<1>1. net' = net /\ epoch' = epoch /\ handled' = handled /\ seen' = Remembered
  BY DEF Discard, clock
<1>2. NetInv'
  BY <1>1 DEF NetInv
<1>3. ASSUME NEW q \in net, Spent(q) PROVE Spent(q)'
  <2>1. q.epoch \in Int
    BY DEF NetInv
  <2> QED
    BY <1>1, <1>3, <2>1, StillSpent
<1>4. \A r \in seen' : r.at \in Nat
  BY <1>1 DEF Remembered, ReplayInv
<1>5. ReplayInv'
  BY <1>1, <1>3, <1>4 DEF ReplayInv
<1> QED
  BY <1>2, <1>5

-----------------------------------------------------------------------------
(* The session table *)

TableType ==
    /\ count \in 0 .. MaxSessions /\ alive \subseteq 1 .. count
    /\ owner \in [Numbers -> Tokens \cup {None}]
    /\ addrs \in [Numbers -> [Shards -> Addrs \cup {None}]]
    /\ token_to_sess \in [Tokens -> 0 .. count]
    /\ addr_to_token \in [Addrs -> Tokens \cup {None}]
    /\ dead \in Seq(Tokens)

\* A session has a token, and the table lists it under that token only.
Owned == \A k \in 1 .. count : owner[k] \in Tokens
ListedOwned == \A t \in Tokens : token_to_sess[t] # 0 => owner[token_to_sess[t]] = t

\* A report of death is about the session that is listed, which nobody
\* holds any more, and there is one report of it.
DeadIsListed ==
    \A i \in 1 .. Len(dead) : /\ token_to_sess[dead[i]] # 0
                             /\ token_to_sess[dead[i]] \notin alive
DeadOnce == \A i, j \in 1 .. Len(dead) : dead[i] = dead[j] => i = j

\* A session's addresses are those its shards resumed from.
AddrsUsed ==
    \A k \in 1 .. count : \A s \in Shards :
        addrs[k][s] # None => <<owner[k], s, addrs[k][s]>> \in Uses

LifeInv == TableType /\ Owned /\ ListedOwned /\ LiveIsListed /\ DeadIsListed /\ DeadOnce
AddrInv == NoDangling /\ AddrsUsed /\ Reachable

\* Shards resume from addresses.
LEMMA UsesType == NetInv => Uses \subseteq Tokens \X Shards \X Addrs
BY DEF NetInv, Uses

\* An address moves to the shard that resumed from it; the addresses of
\* other sessions and shards stay as they were.
LEMMA BoundKeeps ==
    ASSUME ListenerAssumption, NetInv, LifeInv, AddrInv, NEW p \in net, p.kind = "resume",
           ResumeBound(p), dead' = dead, net' = net
    PROVE  LifeInv' /\ AddrInv'
<1> DEFINE t == p.token
           sh == p.shard
           a == p.addr
           k == token_to_sess[t]
           old == addrs[k][sh]
<1>1. <<t, sh, a>> \in Uses /\ t \in Tokens /\ sh \in Shards /\ a \in Addrs
  BY DEF NetInv, Uses
<1>0. Uses' = Uses
  BY DEF Uses
<1>2. k \in 1 .. count /\ k \in Numbers /\ owner[k] = t
  BY <1>1 DEF ResumeBound, LifeInv, TableType, ListedOwned, Numbers, ListenerAssumption
<1>3. count' = count /\ owner' = owner /\ alive' = alive /\ token_to_sess' = token_to_sess
  BY DEF ResumeBound
<1>4. addr_to_token' = [b \in Addrs |-> IF b = a THEN t ELSE IF b = old THEN None ELSE addr_to_token[b]]
  BY DEF ResumeBound, Rebind
<1>5. addrs' = [addrs EXCEPT ![k] = [addrs[k] EXCEPT ![sh] = a]]
  BY DEF ResumeBound
<1> HIDE DEF t, sh, a, k, old
<1>6. addrs \in [Numbers -> [Shards -> Addrs \cup {None}]]
  BY DEF LifeInv, TableType
<1>7. /\ addrs'[k][sh] = a
      /\ \A s \in Shards : s # sh => addrs'[k][s] = addrs[k][s]
      /\ \A j \in Numbers : j # k => addrs'[j] = addrs[j]
      /\ addrs' \in [Numbers -> [Shards -> Addrs \cup {None}]]
  BY <1>1, <1>2, <1>5, <1>6
<1>8. LifeInv'
  <2>1. TableType'
    BY <1>1, <1>3, <1>4, <1>7 DEF LifeInv, TableType, Numbers
  <2>2. (Owned /\ ListedOwned /\ LiveIsListed /\ DeadIsListed /\ DeadOnce)'
    BY <1>3 DEF LifeInv, Owned, ListedOwned, LiveIsListed, DeadIsListed, DeadOnce
  <2> QED
    BY <2>1, <2>2 DEF LifeInv
<1>9. NoDangling'
  <2>1. SUFFICES ASSUME NEW b \in Addrs, addr_to_token'[b] # None
                 PROVE  LET j == token_to_sess[addr_to_token'[b]]
                        IN j # 0 /\ \E s \in Shards : addrs'[j][s] = b
    BY <1>3, Zenon DEF NoDangling
  <2>2. CASE b = a
    BY <1>1, <1>2, <1>4, <1>7, <2>2 DEF k
  <2>3. CASE b # a
    <3>1. b # old /\ addr_to_token'[b] = addr_to_token[b]
      BY <1>4, <2>1, <2>3
    <3> DEFINE j == token_to_sess[addr_to_token[b]]
    <3>2. j # 0 /\ \E s \in Shards : addrs[j][s] = b
      BY <2>1, <3>1 DEF AddrInv, NoDangling
    <3>3. j \in Numbers
      BY <2>1, <3>1, <3>2 DEF LifeInv, TableType, Numbers, ListenerAssumption
    <3>4. PICK s \in Shards : addrs[j][s] = b
      BY <3>2
    <3>5. addrs'[j][s] = b
      BY <1>7, <3>1, <3>3, <3>4 DEF old
    <3> QED
      BY <3>1, <3>2, <3>5
  <2> QED
    BY <2>2, <2>3
<1>10. AddrsUsed'
  <2>1. SUFFICES ASSUME NEW j \in 1 .. count, NEW s \in Shards, addrs'[j][s] # None
                 PROVE  <<owner[j], s, addrs'[j][s]>> \in Uses
    BY <1>0, <1>3 DEF AddrsUsed
  <2>2. j \in Numbers
    BY DEF LifeInv, TableType, Numbers, ListenerAssumption
  <2>3. CASE j = k /\ s = sh
    BY <1>1, <1>2, <1>7, <2>3
  <2>4. CASE ~(j = k /\ s = sh)
    <3>1. addrs'[j][s] = addrs[j][s]
      BY <1>7, <2>2, <2>4
    <3> QED
      BY <2>1, <3>1 DEF AddrInv, AddrsUsed
  <2> QED
    BY <2>3, <2>4
<1>11. Reachable'
  <2>1. SUFFICES ASSUME NEW u \in Tokens, token_to_sess[u] # 0,
                        NEW s \in Shards, addrs'[token_to_sess[u]][s] # None,
                        Sole(<<u, s, addrs'[token_to_sess[u]][s]>>)
                 PROVE  addr_to_token'[addrs'[token_to_sess[u]][s]] = u
    BY <1>0, <1>3, Zenon DEF Reachable, Sole
  <2> DEFINE j == token_to_sess[u]
             b == addrs'[j][s]
  <2>2. j \in 1 .. count /\ j \in Numbers /\ owner[j] = u
    BY <2>1 DEF LifeInv, TableType, ListedOwned, Numbers, ListenerAssumption
  <2>3. <<u, s, b>> \in Uses /\ b \in Addrs
    BY <1>0, <1>3, <1>10, <2>1, <2>2, UsesType DEF AddrsUsed
  <2>4. CASE u = t /\ s = sh
    BY <1>1, <1>4, <1>7, <2>4 DEF k
  <2>5. CASE ~(u = t /\ s = sh)
    <3>1. b # a
      BY <1>1, <2>1, <2>3, <2>5 DEF Sole
    <3>2. b = addrs[j][s]
      BY <1>2, <1>7, <2>2, <2>5 DEF k
    <3>3. b # old
      <4>1. old # None => <<t, sh, old>> \in Uses
        BY <1>1, <1>2 DEF AddrInv, AddrsUsed, old
      <4> QED
        BY <2>1, <2>3, <2>5, <4>1 DEF Sole
    <3>4. addr_to_token[b] = u
      BY <2>1, <3>2 DEF AddrInv, Reachable
    <3> QED
      BY <1>4, <2>3, <3>1, <3>3, <3>4
  <2> QED
    BY <2>4, <2>5
<1> QED
  BY <1>8, <1>9, <1>10, <1>11 DEF AddrInv

\* A new session takes over the address; nothing is known of its token.
LEMMA NewKeeps ==
    ASSUME ListenerAssumption, NetInv, LifeInv, AddrInv, NEW p \in net, p.kind = "resume",
           ResumeNew(p), dead' = dead, net' = net
    PROVE  LifeInv' /\ AddrInv'
<1> DEFINE t == p.token
           sh == p.shard
           a == p.addr
           k == count + 1
<1>1. <<t, sh, a>> \in Uses /\ t \in Tokens /\ sh \in Shards /\ a \in Addrs
  BY DEF NetInv, Uses
<1>0. Uses' = Uses
  BY DEF Uses
<1>2. count \in Nat /\ k \in Numbers /\ token_to_sess[t] = 0
  BY DEF ResumeNew, NewSess, LifeInv, TableType, Numbers, ListenerAssumption
<1>3. count' = k /\ alive' = alive \cup {k}
      /\ owner' = [owner EXCEPT ![k] = t]
      /\ token_to_sess' = [token_to_sess EXCEPT ![t] = k]
  BY DEF ResumeNew, NewSess
<1>4. addr_to_token' = [b \in Addrs |-> IF b = a THEN t ELSE IF b = a THEN None ELSE addr_to_token[b]]
  BY DEF ResumeNew, NewSess, Rebind
<1>5. addrs' = [addrs EXCEPT ![k] = [NoAddrs EXCEPT ![sh] = a]]
  BY DEF ResumeNew, NewSess
<1> HIDE DEF t, sh, a
<1>6. /\ addrs \in [Numbers -> [Shards -> Addrs \cup {None}]]
      /\ owner \in [Numbers -> Tokens \cup {None}]
      /\ token_to_sess \in [Tokens -> 0 .. count]
      /\ alive \subseteq 1 .. count
  BY DEF LifeInv, TableType
<1>7. /\ addrs'[k][sh] = a
      /\ \A s \in Shards : s # sh => addrs'[k][s] = None
      /\ \A j \in 1 .. count : addrs'[j] = addrs[j]
      /\ addrs' \in [Numbers -> [Shards -> Addrs \cup {None}]]
  BY <1>1, <1>2, <1>5, <1>6 DEF NoAddrs, Numbers
<1>8. /\ owner'[k] = t /\ \A j \in 1 .. count : owner'[j] = owner[j]
      /\ owner' \in [Numbers -> Tokens \cup {None}]
  BY <1>1, <1>2, <1>3, <1>6 DEF Numbers
<1>9. /\ token_to_sess'[t] = k
      /\ \A u \in Tokens : u # t => token_to_sess'[u] = token_to_sess[u]
      /\ token_to_sess' \in [Tokens -> 0 .. k]
  BY <1>1, <1>2, <1>3, <1>6
<1>10. LifeInv'
  <2>1. TableType'
    <3>1. count' \in 0 .. MaxSessions /\ alive' \subseteq 1 .. count'
      <4>1. k \in 0 .. MaxSessions
        BY <1>2 DEF Numbers
      <4>2. \A j \in alive : j \in 1 .. k
        BY <1>2, <1>6
      <4>3. k \in 1 .. k
        BY <1>2
      <4> HIDE DEF k
      <4> QED
        BY <1>3, <4>1, <4>2, <4>3
    <3>2. addr_to_token' \in [Addrs -> Tokens \cup {None}]
      BY <1>1, <1>4 DEF LifeInv, TableType
    <3> QED
      BY <1>3, <1>7, <1>8, <1>9, <3>1, <3>2 DEF LifeInv, TableType, Numbers
  <2>2. Owned'
    BY <1>1, <1>2, <1>3, <1>8 DEF Owned, LifeInv
  <2>3. ListedOwned'
    BY <1>1, <1>2, <1>6, <1>8, <1>9 DEF ListedOwned, LifeInv
  <2>4. LiveIsListed'
    <3>1. ASSUME NEW j \in alive PROVE token_to_sess'[owner'[j]] = j
      <4>1. j \in 1 .. count /\ owner[j] \in Tokens /\ token_to_sess[owner[j]] = j
        BY <1>6 DEF LifeInv, Owned, LiveIsListed
      <4>2. owner[j] # t
        BY <1>2, <4>1
      <4> QED
        BY <1>8, <1>9, <4>1, <4>2
    <3> QED
      BY <1>3, <1>8, <1>9, <3>1 DEF LiveIsListed
  <2>5. DeadIsListed'
    <3>1. ASSUME NEW i \in 1 .. Len(dead)
          PROVE  token_to_sess'[dead[i]] # 0 /\ token_to_sess'[dead[i]] \notin alive'
      <4>1. token_to_sess[dead[i]] # 0 /\ token_to_sess[dead[i]] \notin alive
        BY DEF LifeInv, DeadIsListed
      <4>2. dead[i] \in Tokens
        BY DEF LifeInv, TableType
      <4>3. dead[i] # t
        BY <1>2, <4>1
      <4> QED
        BY <1>2, <1>3, <1>6, <1>9, <4>1, <4>2, <4>3
    <3> QED
      BY <3>1 DEF DeadIsListed
  <2>6. DeadOnce'
    BY DEF LifeInv, DeadOnce
  <2> QED
    BY <2>1, <2>2, <2>3, <2>4, <2>5, <2>6 DEF LifeInv
<1>11. NoDangling'
  <2>1. SUFFICES ASSUME NEW b \in Addrs, addr_to_token'[b] # None
                 PROVE  LET j == token_to_sess'[addr_to_token'[b]]
                        IN j # 0 /\ \E s \in Shards : addrs'[j][s] = b
    BY Zenon DEF NoDangling
  <2>2. CASE b = a
    BY <1>1, <1>2, <1>4, <1>7, <1>9, <2>2
  <2>3. CASE b # a
    <3>1. addr_to_token'[b] = addr_to_token[b] /\ addr_to_token[b] \in Tokens
      BY <1>4, <2>1, <2>3 DEF LifeInv, TableType
    <3> DEFINE j == token_to_sess[addr_to_token[b]]
    <3>2. j # 0 /\ \E s \in Shards : addrs[j][s] = b
      BY <2>1, <3>1 DEF AddrInv, NoDangling
    <3>3. j \in 1 .. count /\ addr_to_token[b] # t
      BY <1>2, <1>6, <3>1, <3>2
    <3> QED
      BY <1>7, <1>9, <3>1, <3>2, <3>3
  <2> QED
    BY <2>2, <2>3
<1>12. AddrsUsed'
  <2>1. SUFFICES ASSUME NEW j \in 1 .. k, NEW s \in Shards, addrs'[j][s] # None
                 PROVE  <<owner'[j], s, addrs'[j][s]>> \in Uses
    BY <1>0, <1>3 DEF AddrsUsed
  <2>2. CASE j = k
    BY <1>1, <1>7, <1>8, <2>1, <2>2
  <2>3. CASE j \in 1 .. count
    BY <1>7, <1>8, <2>1, <2>3 DEF AddrInv, AddrsUsed
  <2> QED
    BY <1>2, <2>2, <2>3
<1>13. Reachable'
  <2>1. SUFFICES ASSUME NEW u \in Tokens, token_to_sess'[u] # 0,
                        NEW s \in Shards, addrs'[token_to_sess'[u]][s] # None,
                        Sole(<<u, s, addrs'[token_to_sess'[u]][s]>>)
                 PROVE  addr_to_token'[addrs'[token_to_sess'[u]][s]] = u
    BY <1>0, Zenon DEF Reachable, Sole
  <2>2. CASE u = t
    BY <1>1, <1>4, <1>7, <1>9, <2>1, <2>2
  <2>3. CASE u # t
    <3> DEFINE j == token_to_sess[u]
               b == addrs[j][s]
    <3>1. token_to_sess'[u] = j /\ j \in 1 .. count /\ owner[j] = u
      BY <1>6, <1>9, <2>1, <2>3 DEF LifeInv, ListedOwned
    <3>2. addrs'[j][s] = b
      BY <1>7, <3>1
    <3>3. <<u, s, b>> \in Uses /\ b \in Addrs
      BY <2>1, <3>1, <3>2, UsesType DEF AddrInv, AddrsUsed
    <3>4. b # a
      BY <1>1, <2>1, <2>3, <3>1, <3>2, <3>3 DEF Sole
    <3>5. addr_to_token[b] = u
      BY <2>1, <3>1, <3>2 DEF AddrInv, Reachable
    <3> QED
      BY <1>4, <3>1, <3>2, <3>3, <3>4, <3>5
  <2> QED
    BY <2>2, <2>3
<1> QED
  BY <1>10, <1>11, <1>12, <1>13 DEF AddrInv

\* A dropped session is listed, and was not reported before.
LEMMA DropKeeps ==
    ASSUME ListenerAssumption, LifeInv, AddrInv, NEW k \in Numbers, DropSession(k)
    PROVE  LifeInv' /\ AddrInv'
<1>1. k \in alive /\ alive' = alive \ {k} /\ dead' = Append(dead, owner[k])
      /\ UNCHANGED <<count, owner, addrs, token_to_sess, addr_to_token>>
  BY DEF DropSession
<1> DEFINE n == Len(dead)
<1>2. dead \in Seq(Tokens) /\ n \in Nat
  BY DEF LifeInv, TableType
<1>3. k \in 1 .. count /\ owner[k] \in Tokens /\ token_to_sess[owner[k]] = k
  BY <1>1 DEF LifeInv, TableType, Owned, LiveIsListed
<1>4. Len(dead') = n + 1 /\ dead'[n + 1] = owner[k] /\ dead' \in Seq(Tokens)
      /\ \A i \in 1 .. n : dead'[i] = dead[i]
  BY <1>1, <1>2, <1>3
<1>5. \A i \in 1 .. n : dead[i] # owner[k]
  BY <1>1, <1>3 DEF LifeInv, DeadIsListed
<1> HIDE DEF n
<1>6. TableType'
  BY <1>1, <1>4 DEF LifeInv, TableType
<1>7. (Owned /\ ListedOwned /\ LiveIsListed)'
  BY <1>1 DEF LifeInv, Owned, ListedOwned, LiveIsListed
<1>8. DeadIsListed'
  <2>1. SUFFICES ASSUME NEW i \in 1 .. n + 1
                 PROVE  token_to_sess[dead'[i]] # 0 /\ token_to_sess[dead'[i]] \notin alive'
    BY <1>1, <1>4 DEF DeadIsListed
  <2>2. CASE i = n + 1
    <3>1. token_to_sess[dead'[i]] = k
      BY <1>3, <1>4, <2>2
    <3> QED
      BY <1>1, <1>3, <3>1
  <2>3. CASE i \in 1 .. n
    BY <1>1, <1>4, <2>3 DEF LifeInv, DeadIsListed, n
  <2> QED
    BY <1>2, <2>2, <2>3
<1>9. DeadOnce'
  <2>1. SUFFICES ASSUME NEW i \in 1 .. n + 1, NEW j \in 1 .. n + 1, dead'[i] = dead'[j]
                 PROVE  i = j
    BY <1>4 DEF DeadOnce
  <2>2. CASE i \in 1 .. n /\ j \in 1 .. n
    BY <1>4, <2>1, <2>2 DEF LifeInv, DeadOnce, n
  <2>3. CASE ~(i \in 1 .. n /\ j \in 1 .. n)
    BY <1>2, <1>4, <1>5, <2>1, <2>3
  <2> QED
    BY <2>2, <2>3
<1>10. AddrInv'
  <2>1. Uses' = Uses
    BY DEF DropSession, clock, Uses
  <2> QED
    BY <1>1, <2>1 DEF AddrInv, NoDangling, AddrsUsed, Reachable, Sole
<1> QED
  BY <1>6, <1>7, <1>8, <1>9, <1>10 DEF LifeInv

\* Deleting the session of a report takes out its addresses and no others'.
LEMMA DeadKeeps ==
    ASSUME ListenerAssumption, NetInv, LifeInv, AddrInv, DeadSess
    PROVE  LifeInv' /\ AddrInv'
<1> DEFINE t == Head(dead)
           k == token_to_sess[t]
           n == Len(dead)
<1>1. dead \in Seq(Tokens) /\ dead # <<>> /\ dead' = Tail(dead)
  BY DEF DeadSess, LifeInv, TableType
<1>2. t = dead[1] /\ t \in Tokens /\ n \in Nat /\ 1 \in 1 .. n
      /\ Len(dead') = n - 1 /\ dead' \in Seq(Tokens)
      /\ \A i \in 1 .. n - 1 : dead'[i] = dead[i + 1] /\ i + 1 \in 1 .. n
  BY <1>1
<1>3. k # 0 /\ k \notin alive
  BY <1>2 DEF LifeInv, DeadIsListed
<1>4. /\ token_to_sess' = [token_to_sess EXCEPT ![t] = 0]
      /\ addr_to_token' = [a \in Addrs |-> IF \E s \in Shards : addrs[k][s] = a
                                           THEN None ELSE addr_to_token[a]]
      /\ UNCHANGED <<count, owner, alive, addrs>>
  BY <1>3 DEF DeadSess
<1>0. Uses' = Uses
  BY DEF DeadSess, clock, Uses
<1> HIDE DEF t, k, n
<1>5. /\ token_to_sess \in [Tokens -> 0 .. count] /\ count \in Nat
      /\ addr_to_token \in [Addrs -> Tokens \cup {None}]
  BY DEF LifeInv, TableType, ListenerAssumption
<1>6. /\ token_to_sess'[t] = 0
      /\ \A u \in Tokens : u # t => token_to_sess'[u] = token_to_sess[u]
      /\ token_to_sess' \in [Tokens -> 0 .. count]
  BY <1>2, <1>4, <1>5
<1>7. addr_to_token' \in [Addrs -> Tokens \cup {None}]
  BY <1>4, <1>5
<1>8. TableType'
  BY <1>2, <1>4, <1>6, <1>7 DEF LifeInv, TableType
<1>9. Owned' /\ ListedOwned'
  BY <1>4, <1>6 DEF LifeInv, Owned, ListedOwned
<1>10. LiveIsListed'
  <2>1. SUFFICES ASSUME NEW j \in alive PROVE token_to_sess'[owner[j]] = j
    BY <1>4 DEF LiveIsListed
  <2>2. owner[j] \in Tokens /\ token_to_sess[owner[j]] = j
    BY DEF LifeInv, TableType, Owned, LiveIsListed
  <2>3. owner[j] # t
    BY <1>3, <2>2 DEF k
  <2> QED
    BY <1>6, <2>2, <2>3
<1>11. DeadIsListed'
  <2>1. SUFFICES ASSUME NEW i \in 1 .. n - 1
                 PROVE  token_to_sess'[dead'[i]] # 0 /\ token_to_sess'[dead'[i]] \notin alive
    BY <1>2, <1>4 DEF DeadIsListed
  <2>2. dead'[i] = dead[i + 1] /\ i + 1 \in 1 .. n /\ i + 1 # 1
    BY <1>2
  <2>3. dead[i + 1] # t
    BY <1>2, <2>2 DEF LifeInv, DeadOnce, n
  <2>4. dead[i + 1] \in Tokens
    BY <1>1, <2>2 DEF n
  <2>5. token_to_sess[dead[i + 1]] # 0 /\ token_to_sess[dead[i + 1]] \notin alive
    BY <2>2 DEF LifeInv, DeadIsListed, n
  <2> QED
    BY <1>6, <2>2, <2>3, <2>4, <2>5
<1>12. DeadOnce'
  <2>1. SUFFICES ASSUME NEW i \in 1 .. n - 1, NEW j \in 1 .. n - 1, dead'[i] = dead'[j]
                 PROVE  i = j
    BY <1>2 DEF DeadOnce
  <2>2. i + 1 = j + 1
    BY <1>2, <2>1 DEF LifeInv, DeadOnce, n
  <2> QED
    BY <1>2, <2>2
<1>13. NoDangling'
  <2>1. SUFFICES ASSUME NEW b \in Addrs, addr_to_token'[b] # None
                 PROVE  LET j == token_to_sess'[addr_to_token'[b]]
                        IN j # 0 /\ \E s \in Shards : addrs[j][s] = b
    BY <1>4, Zenon DEF NoDangling
  <2>2. addr_to_token'[b] = addr_to_token[b] /\ ~(\E s \in Shards : addrs[k][s] = b)
    BY <1>4, <2>1
  <2> DEFINE j == token_to_sess[addr_to_token[b]]
  <2>3. j # 0 /\ \E s \in Shards : addrs[j][s] = b
    BY <2>1, <2>2 DEF AddrInv, NoDangling
  <2>4. addr_to_token[b] # t
    BY <2>2, <2>3 DEF k
  <2>5. addr_to_token[b] \in Tokens
    BY <1>5, <2>1, <2>2
  <2>6. token_to_sess'[addr_to_token'[b]] = j
    BY <1>6, <2>2, <2>4, <2>5
  <2> QED
    BY <2>3, <2>6
<1>14. AddrsUsed'
  BY <1>0, <1>4 DEF AddrInv, AddrsUsed
<1>16. addrs' = addrs
  BY <1>4
<1>15. Reachable'
  <2>1. SUFFICES ASSUME NEW u \in Tokens, token_to_sess'[u] # 0,
                        NEW s \in Shards, addrs[token_to_sess'[u]][s] # None,
                        Sole(<<u, s, addrs[token_to_sess'[u]][s]>>)
                 PROVE  addr_to_token'[addrs[token_to_sess'[u]][s]] = u
    BY <1>0, <1>16, Zenon DEF Reachable, Sole
  <2> DEFINE j == token_to_sess[u]
             b == addrs[j][s]
  <2>2. u # t /\ token_to_sess'[u] = j
    BY <1>6, <2>1
  <2>3. j \in 1 .. count /\ owner[j] = u /\ k \in 1 .. count /\ owner[k] = t
    BY <1>2, <1>3, <1>5, <2>1, <2>2 DEF LifeInv, ListedOwned, k
  <2>4. <<u, s, b>> \in Uses /\ b \in Addrs
    BY <2>1, <2>2, <2>3, UsesType DEF AddrInv, AddrsUsed
  <2>5. b # None
    BY <2>1, <2>2
  <2>6. ~(\E r \in Shards : addrs[k][r] = b)
    <3>1. SUFFICES ASSUME NEW r \in Shards, addrs[k][r] = b PROVE FALSE
      OBVIOUS
    <3>2. <<t, r, b>> \in Uses
      BY <2>3, <2>5, <3>1 DEF AddrInv, AddrsUsed
    <3> QED
      BY <2>1, <2>2, <2>4, <3>2 DEF Sole
  <2>7. addr_to_token[b] = u
    BY <2>1, <2>2 DEF AddrInv, Reachable
  <2> QED
    BY <1>4, <2>2, <2>4, <2>6, <2>7
<1> QED
  BY <1>8, <1>9, <1>10, <1>11, <1>12, <1>13, <1>14, <1>15 DEF LifeInv, AddrInv

-----------------------------------------------------------------------------
(* Theorems *)

IInv == NetInv /\ ReplayInv /\ LifeInv /\ AddrInv

\* Nothing is handled and nothing listed to begin with.
LEMMA InitIInv == ASSUME ListenerAssumption, Init PROVE IInv
<1>1. NetInv
  <2>1. IsFiniteSet({})
    BY FS_EmptySet
  <2> QED
    BY <2>1 DEF Init, NetInv
<1>2. ReplayInv
  BY DEF Init, ReplayInv
<1>3. LifeInv
  BY DEF Init, LifeInv, TableType, Owned, ListedOwned, LiveIsListed, DeadIsListed, DeadOnce,
         Numbers, NoAddrs, ListenerAssumption
<1>4. AddrInv
  BY DEF Init, AddrInv, NoDangling, AddrsUsed, Reachable
<1> QED
  BY <1>1, <1>2, <1>3, <1>4 DEF IInv

\* The table's invariants depend on the table alone, and on where shards
\* resumed from, of which more leaves less to be reachable.
LEMMA TableUntouched ==
    ASSUME LifeInv, AddrInv, UNCHANGED table, net \subseteq net' PROVE LifeInv' /\ AddrInv'
<1>1. LifeInv' /\ NoDangling'
  BY DEF LifeInv, TableType, Owned, ListedOwned, LiveIsListed, DeadIsListed, DeadOnce,
         AddrInv, NoDangling, Numbers, table
<1>2. Uses \subseteq Uses'
  BY DEF Uses
<1>3. AddrsUsed'
  BY <1>2 DEF AddrInv, AddrsUsed, table
<1>4. ASSUME NEW use, Sole(use)' PROVE Sole(use)
  BY <1>2, <1>4 DEF Sole
<1>5. Reachable'
  BY <1>4 DEF AddrInv, Reachable, table
<1> QED
  BY <1>1, <1>3, <1>5 DEF AddrInv

\* The others depend on the clock, the packets and the filter alone.
LEMMA FilterUntouched ==
    ASSUME NetInv, ReplayInv, UNCHANGED <<clock, seen, handled>> PROVE NetInv' /\ ReplayInv'
BY DEF NetInv, ReplayInv, Spent, clock

\* The strengthened invariant holds in every state of every behaviour.
THEOREM ListenerInvariant == Spec => []IInv
<1> USE ListenerAssumption
<1>1. Init => IInv
  BY InitIInv
<1>2. ASSUME IInv, [Next]_vars PROVE IInv'
  <2> USE <1>2 DEF IInv
  <2>1. CASE UNCHANGED vars
    BY <2>1, TableUntouched, FilterUntouched DEF vars, clock
  <2>2. CASE SendHello
    <3>1. PICK a \in Addrs : SendHandshake("hello", None, None, a)
      BY <2>2 DEF SendHello
    <3>2. UNCHANGED table /\ net \subseteq net'
      BY <3>1 DEF SendHandshake
    <3> QED
      BY <3>1, <3>2, SendKeeps, TableUntouched
  <2>3. CASE SendResume
    <3>1. PICK t \in Tokens, s \in Shards, a \in Addrs : SendHandshake("resume", t, s, a)
      BY <2>3 DEF SendResume
    <3>2. UNCHANGED table /\ net \subseteq net'
      BY <3>1 DEF SendHandshake
    <3> QED
      BY <3>1, <3>2, SendKeeps, TableUntouched
  <2>4. ASSUME NEW p \in net, ClientHello(p) PROVE IInv'
    <3>1. Check(p) /\ UNCHANGED clock /\ UNCHANGED table
      BY <2>4 DEF ClientHello
    <3>2. NetInv'
      BY <3>1 DEF NetInv, clock
    <3> QED
      BY <3>1, <3>2, CheckKeeps, TableUntouched DEF clock
  <2>5. ASSUME NEW p \in net, ClientResume(p) PROVE IInv'
    <3>1. p.kind = "resume" /\ Check(p) /\ UNCHANGED clock /\ dead' = dead
      BY <2>5 DEF ClientResume
    <3>2. NetInv'
      BY <3>1 DEF NetInv, clock
    <3>3. LifeInv' /\ AddrInv'
      BY <2>5, <3>1, BoundKeeps, NewKeeps DEF ClientResume, clock
    <3> QED
      BY <3>1, <3>2, <3>3, CheckKeeps
  <2>6. ASSUME NEW p \in net, Discard(p) PROVE IInv'
    <3>1. UNCHANGED table /\ net' = net
      BY <2>6 DEF Discard, clock
    <3> QED
      BY <2>6, <3>1, DiscardKeeps, TableUntouched
  <2>7. ASSUME NEW k \in Numbers, DropSession(k) PROVE IInv'
    <3>1. UNCHANGED <<clock, seen, handled>>
      BY <2>7 DEF DropSession
    <3> QED
      BY <2>7, <3>1, DropKeeps, FilterUntouched
  <2>8. ASSUME NEW k \in Numbers, SendFrame(k) PROVE IInv'
    <3>1. UNCHANGED <<clock, seen, handled>> /\ UNCHANGED table
      BY <2>8 DEF SendFrame
    <3> QED
      BY <3>1, TableUntouched, FilterUntouched DEF clock
  <2>9. CASE DeadSess
    <3>1. UNCHANGED <<clock, seen, handled>>
      BY <2>9 DEF DeadSess
    <3> QED
      BY <2>9, <3>1, DeadKeeps, FilterUntouched
  <2>10. CASE Tick
    <3>1. UNCHANGED table /\ net' = net
      BY <2>10 DEF Tick
    <3> QED
      BY <2>10, <3>1, TickKeeps, TableUntouched
  <2> QED
    BY <2>1, <2>2, <2>3, <2>4, <2>5, <2>6, <2>7, <2>8, <2>9, <2>10 DEF Next
<1> QED
  BY <1>1, <1>2, PTL DEF Spec

\* No handshake packet is handled twice by handle_handshake, for any clock
\* difference the keys tolerate and any delay or repetition: RecentFilter
\* remembers longer than a key is tried.
THEOREM ListenerHandledOnce == Spec => []HandledOnce
<1>1. IInv => HandledOnce
  BY DEF IInv, ReplayInv, HandledOnce
<1> QED
  BY <1>1, ListenerInvariant, PTL

\* The two maps of SessionTable agree: an address leads to a listed session
\* that is bound to it, also when addresses pass from session to session.
THEOREM ListenerNoDangling == Spec => []NoDangling
<1>1. IInv => NoDangling
  BY DEF IInv, AddrInv
<1> QED
  BY <1>1, ListenerInvariant, PTL

\* A session the application holds stays in the table: a late DeadSess of an
\* earlier session with its token cannot delete it.
THEOREM ListenerLiveIsListed == Spec => []LiveIsListed
<1>1. IInv => LiveIsListed
  BY DEF IInv, LifeInv
<1> QED
  BY <1>1, ListenerInvariant, PTL

\* A shard with an address of its own is found by SessionTable::lookup,
\* whatever the other shards and sessions do.
THEOREM ListenerReachable == Spec => []Reachable
<1>1. IInv => Reachable
  BY DEF IInv, AddrInv
<1> QED
  BY <1>1, ListenerInvariant, PTL
=============================================================================
