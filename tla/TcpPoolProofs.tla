--------------------------- MODULE TcpPoolProofs ----------------------------
(***************************************************************************)
(* What the client's pool and the server's DownTable keep true, for any    *)
(* number of connections and senders, any lifetime and room, and however   *)
(* often connections are cut and the clock is set.                         *)
(***************************************************************************)
EXTENDS TcpPool, FiniteSetTheorems, SequenceTheorems, TLAPS

USE TcpPoolAssumption

Bytes == {"addr", "frame", "part"}
Opening == {s \in Senders : dialing[s] # None}

\* The types, with the contents of the connections, which TypeOK leaves out.
Typed ==
    /\ pool \in Seq(Conns)
    /\ dialing \in [Senders -> Conns \cup {None}]
    /\ age \in [Conns -> 0 .. 2 * Lifetime] /\ elapsed \in [Conns -> Int]
    /\ reader \subseteq Conns /\ link \subseteq Conns
    /\ up \in [Conns -> Seq(Bytes)]
    /\ server \in [Conns -> {"none", "addr", "read", "set"}]
    /\ table \in [to : Conns \cup {None, Gone}, age : 0 .. GcAge + 1]
    /\ gcs \in 0 .. MaxGcs

\* The pool holds a connection once.  One that is being opened is not in
\* the pool, has no task at either end, and no other sender opens it.  Each
\* connection of the pool is there in place of a sender that opened one.
Pooled ==
    /\ IsInjective(pool)
    /\ \A s \in Opening :
        /\ dialing[s] \notin ToSet(pool) /\ dialing[s] \notin reader
        /\ server[dialing[s]] = "none"
        /\ \A t \in Senders : dialing[t] = dialing[s] => t = s
    /\ Len(pool) + Cardinality(Opening) <= Cardinality(Senders)

\* What goes over a connection, once no frame of it was broken off, and
\* when at most its last one was.
Whole(q) == \A k \in 1 .. Len(q) : q[k] # "part"
NearlyWhole(q) == \A k \in 1 .. Len(q) - 1 : q[k] # "part"

\* Nothing was broken off on a connection of the pool.
PoolWhole == \A c \in ToSet(pool) : Whole(up[c])

Inv == Typed /\ Pooled /\ PoolWhole /\ FramesWhole

-----------------------------------------------------------------------------
(* The pool as a sequence *)

\* The pool holds connections.
LEMMA PoolConns == ASSUME NEW q \in Seq(Conns) PROVE ToSet(q) \subseteq Conns
BY DEF ToSet

\* A connection that is not in the pool goes to its end.
LEMMA PoolAppend ==
    ASSUME NEW q \in Seq(Conns), IsInjective(q), NEW c \in Conns, c \notin ToSet(q)
    PROVE  /\ Append(q, c) \in Seq(Conns) /\ IsInjective(Append(q, c))
           /\ ToSet(Append(q, c)) = ToSet(q) \cup {c}
           /\ Len(Append(q, c)) = Len(q) + 1
<1> DEFINE r == Append(q, c)
<1>1. /\ r \in Seq(Conns) /\ Len(r) = Len(q) + 1 /\ Len(q) \in Nat
      /\ DOMAIN r = 1 .. Len(q) + 1 /\ DOMAIN q = 1 .. Len(q)
      /\ \A i \in 1 .. Len(q) : r[i] = q[i]
      /\ r[Len(q) + 1] = c
  OBVIOUS
<1> HIDE DEF r
<1>2. ToSet(r) = ToSet(q) \cup {c}
  <2>1. ASSUME NEW x \in ToSet(r)  PROVE x \in ToSet(q) \cup {c}
    <3>1. PICK i \in 1 .. Len(q) + 1 : x = r[i]
      BY <1>1, <2>1 DEF ToSet
    <3> QED  BY <1>1, <3>1 DEF ToSet
  <2>2. ASSUME NEW x \in ToSet(q)  PROVE x \in ToSet(r)
    BY <1>1, <2>2 DEF ToSet
  <2>3. c \in ToSet(r)
    BY <1>1 DEF ToSet
  <2> QED  BY <2>1, <2>2, <2>3
<1>3. IsInjective(r)
  <2> SUFFICES ASSUME NEW i \in 1 .. Len(q) + 1, NEW j \in 1 .. Len(q) + 1, r[i] = r[j]
               PROVE  i = j
    BY <1>1, Zenon DEF IsInjective
  <2>1. \A k \in 1 .. Len(q) : r[k] # c
    BY <1>1 DEF ToSet
  <2> QED  BY <1>1, <2>1 DEF IsInjective
<1> QED  BY <1>1, <1>2, <1>3 DEF r

\* What is left of the pool behind the connection that is taken out.
LEMMA PoolRest ==
    ASSUME NEW q \in Seq(Conns), IsInjective(q), NEW i \in 1 .. Len(q)
    PROVE  /\ SubSeq(q, i + 1, Len(q)) \in Seq(Conns)
           /\ IsInjective(SubSeq(q, i + 1, Len(q)))
           /\ ToSet(SubSeq(q, i + 1, Len(q))) \subseteq ToSet(q)
           /\ q[i] \notin ToSet(SubSeq(q, i + 1, Len(q)))
           /\ Len(SubSeq(q, i + 1, Len(q))) <= Len(q) - 1
<1> DEFINE r == SubSeq(q, i + 1, Len(q))
           n == Len(q) - i
<1>1. /\ Len(q) \in Nat /\ DOMAIN q = 1 .. Len(q) /\ n \in Nat
      /\ \A j \in i + 1 .. Len(q) : q[j] \in Conns
  OBVIOUS
<1>2. r \in Seq(Conns) /\ Len(r) = n
  OBVIOUS
<1>3. ASSUME NEW j \in 1 .. n  PROVE r[j] = q[i + j] /\ i + j \in 1 .. Len(q)
  BY <1>1
<1>4. DOMAIN r = 1 .. n
  BY <1>2
<1> HIDE DEF r
<1>5. ToSet(r) \subseteq ToSet(q)
  BY <1>1, <1>3, <1>4, Zenon DEF ToSet
<1>6. q[i] \notin ToSet(r)
  <2> SUFFICES ASSUME NEW j \in 1 .. n, r[j] = q[i]  PROVE FALSE
    BY <1>4, Zenon DEF ToSet
  <2>1. i + j = i
    BY <1>1, <1>3, Zenon DEF IsInjective
  <2> QED  BY <1>1, <2>1
<1>7. IsInjective(r)
  <2> SUFFICES ASSUME NEW j \in 1 .. n, NEW k \in 1 .. n, r[j] = r[k]  PROVE j = k
    BY <1>4, Zenon DEF IsInjective
  <2>1. i + j = i + k
    BY <1>1, <1>3, Zenon DEF IsInjective
  <2> QED  BY <1>1, <2>1
<1>8. n <= Len(q) - 1
  BY <1>1
<1> QED  BY <1>2, <1>5, <1>6, <1>7, <1>8, Zenon DEF r

\* Writing leaves at most the end of the last frame out, and then the
\* connection does not return to the pool.
LEMMA WriteStep ==
    ASSUME Typed, NEW c \in Conns, NEW sent \in Seq(Bytes), Whole(sent),
           NEW rest \in Seq(Conns), NEW ok, Write(c, sent, rest, ok)
    PROVE  /\ up' \in [Conns -> Seq(Bytes)]
           /\ \A d \in Conns \ {c} : up'[d] = up[d]
           /\ NearlyWhole(up'[c])
           /\ \/ pool' = rest
              \/ pool' = Append(rest, c) /\ Whole(up'[c])
<1>1. ASSUME NEW b \in Bytes, up' = [up EXCEPT ![c] = Append(sent, b)]
      PROVE  /\ up' \in [Conns -> Seq(Bytes)]
             /\ \A d \in Conns \ {c} : up'[d] = up[d]
             /\ NearlyWhole(up'[c])
             /\ b = "frame" => Whole(up'[c])
  <2>1. /\ Append(sent, b) \in Seq(Bytes) /\ Len(Append(sent, b)) = Len(sent) + 1
        /\ \A k \in 1 .. Len(sent) : Append(sent, b)[k] = sent[k]
        /\ Append(sent, b)[Len(sent) + 1] = b /\ Len(sent) \in Nat
    OBVIOUS
  <2>2. up'[c] = Append(sent, b)
    BY <1>1 DEF Typed
  <2>3. NearlyWhole(Append(sent, b)) /\ (b = "frame" => Whole(Append(sent, b)))
    BY <2>1 DEF NearlyWhole, Whole
  <2> QED  BY <1>1, <2>1, <2>2, <2>3 DEF Typed
<1>2. CASE up' = [up EXCEPT ![c] = Append(sent, "frame")] /\ pool' = Append(rest, c)
  BY <1>1, <1>2 DEF Bytes
<1>3. CASE up' = [up EXCEPT ![c] = Append(sent, "part")] /\ pool' = rest
  BY <1>1, <1>3 DEF Bytes
<1> QED  BY <1>2, <1>3 DEF Write

-----------------------------------------------------------------------------
(* Initial states and steps *)

LEMMA InitInv == Init => Inv
<1> SUFFICES ASSUME Init PROVE Inv
  OBVIOUS
<1>1. Typed
  BY DEF Init, Typed, NoEntry
<1>2. ToSet(pool) = {}
  BY DEF Init, ToSet
<1>3. Opening = {}
  BY DEF Init, Opening
<1>4. Len(pool) = 0 /\ IsInjective(pool)
  BY DEF Init, IsInjective
<1>5. Pooled
  BY <1>3, <1>4, FS_EmptySet, FS_CardinalityType DEF Pooled
<1>6. FramesWhole
  BY DEF Init, FramesWhole
<1> QED  BY <1>1, <1>2, <1>5, <1>6 DEF Inv, PoolWhole

\* While the dialing senders stay the same, the pool may only lose
\* connections, and no task may begin.
LEMMA PooledKept ==
    ASSUME Pooled, Typed, dialing' = dialing, pool' \in Seq(Conns),
           IsInjective(pool'), ToSet(pool') \subseteq ToSet(pool),
           Len(pool') <= Len(pool), reader' \subseteq reader,
           \A c \in Conns : server[c] = "none" => server'[c] = "none"
    PROVE  Pooled'
<1>1. Opening' = Opening /\ \A s \in Opening : dialing[s] \in Conns
  BY DEF Opening, Typed
<1>2. Cardinality(Opening) \in Nat /\ Cardinality(Senders) \in Nat
  BY FS_Subset, FS_CardinalityType DEF Opening
<1>3. Len(pool') + Cardinality(Opening') <= Cardinality(Senders)
  BY <1>1, <1>2 DEF Pooled, Typed
<1> QED  BY <1>1, <1>3, Zenon DEF Pooled

\* send_to over a connection of the pool.
LEMMA SendPooledStep ==
    ASSUME Inv, NEW s \in Senders, SendPooled(s)
    PROVE  Inv'
<1>1. PICK i \in DOMAIN pool :
        Write(pool[i], up[pool[i]], SubSeq(pool, i + 1, Len(pool)), pool[i] \in link)
  BY DEF SendPooled
<1>2. UNCHANGED <<dialing, age, elapsed, reader, link, server, table, gcs>>
  BY DEF SendPooled
<1> DEFINE c == pool[i]
           rest == SubSeq(pool, i + 1, Len(pool))
<1>0. pool \in Seq(Conns) /\ IsInjective(pool) /\ Len(pool) \in Nat
  BY Zenon, LenProperties DEF Inv, Typed, Pooled
<1>3. i \in 1 .. Len(pool) /\ c \in Conns /\ c \in ToSet(pool) /\ IsInjective(pool)
  BY <1>0 DEF ToSet
<1>4. /\ rest \in Seq(Conns) /\ IsInjective(rest) /\ ToSet(rest) \subseteq ToSet(pool)
      /\ c \notin ToSet(rest) /\ Len(rest) <= Len(pool) - 1
  BY <1>3, PoolRest DEF Inv, Typed
<1>5. up[c] \in Seq(Bytes) /\ Whole(up[c])
  BY <1>3 DEF Inv, Typed, PoolWhole
<1> HIDE DEF c, rest
<1>6. /\ up' \in [Conns -> Seq(Bytes)]
      /\ \A d \in Conns \ {c} : up'[d] = up[d]
      /\ NearlyWhole(up'[c])
      /\ pool' = rest \/ (pool' = Append(rest, c) /\ Whole(up'[c]))
  <2>1. Write(c, up[c], rest, c \in link)
    BY <1>1 DEF c, rest
  <2> QED  BY <1>3, <1>4, <1>5, <2>1, WriteStep DEF Inv
<1>7. /\ pool' \in Seq(Conns) /\ IsInjective(pool') /\ Len(pool') <= Len(pool)
      /\ ToSet(pool') \subseteq ToSet(pool)
      /\ c \in ToSet(pool') => Whole(up'[c])
  <2>1. CASE pool' = rest
    <3>1. Len(pool) \in Nat /\ Len(rest) \in Nat
      BY <1>0, <1>4, LenProperties
    <3>2. Len(rest) <= Len(pool)
      BY <1>4, <3>1
    <3> QED  BY <1>4, <2>1, <3>2, Zenon
  <2>2. CASE pool' = Append(rest, c) /\ Whole(up'[c])
    <3>1. /\ pool' \in Seq(Conns) /\ IsInjective(pool')
          /\ ToSet(pool') = ToSet(rest) \cup {c} /\ Len(pool') = Len(rest) + 1
      BY <1>3, <1>4, <2>2, PoolAppend
    <3> QED  BY <1>3, <1>4, <2>2, <3>1 DEF Inv, Typed
  <2> QED  BY <1>6, <2>1, <2>2
<1>8. Typed'
  BY <1>2, <1>6, <1>7 DEF Inv, Typed
<1>9. Pooled'
  BY <1>2, <1>7, PooledKept DEF Inv
<1>11. PoolWhole'
  <2> SUFFICES ASSUME NEW d \in ToSet(pool')  PROVE Whole(up'[d])
    BY DEF PoolWhole
  <2>1. d \in ToSet(pool) /\ d \in Conns
    BY <1>7, PoolConns
  <2> QED  BY <1>6, <1>7, <2>1 DEF Inv, PoolWhole
<1>12. FramesWhole'
  BY <1>6 DEF Inv, FramesWhole, NearlyWhole
<1> QED  BY <1>8, <1>9, <1>11, <1>12 DEF Inv

\* The pool is emptied, and the sender opens a connection that is closed.
LEMMA DialStep ==
    ASSUME Inv, NEW s \in Senders, NEW c \in Conns, Dial(s, c)
    PROVE  Inv'
<1>1. /\ pool' = <<>> /\ dialing' = [dialing EXCEPT ![s] = c]
      /\ server[c] = "none" /\ c \notin reader /\ \A t \in Senders : dialing[t] # c
      /\ UNCHANGED <<age, elapsed, reader, link, up, server, table, gcs>>
  BY DEF Dial
<1>2. Typed'
  BY <1>1 DEF Inv, Typed
<1>3. ToSet(pool') = {} /\ IsInjective(pool') /\ Len(pool') = 0
  BY <1>1 DEF ToSet, IsInjective
<1>4. Pooled'
  <2>1. Opening' \subseteq Senders
    BY DEF Opening
  <2>2. Cardinality(Opening') <= Cardinality(Senders) /\ Cardinality(Opening') \in Nat
    BY <2>1, FS_Subset, FS_CardinalityType
  <2>3. ASSUME NEW t \in Opening'
        PROVE  /\ dialing'[t] \notin reader' /\ server'[dialing'[t]] = "none"
               /\ \A u \in Senders : dialing'[u] = dialing'[t] => u = t
    <3>1. t \in Senders /\ \A u \in Senders : dialing'[u] = IF u = s THEN c ELSE dialing[u]
      BY <1>1, <2>1 DEF Inv, Typed
    <3>2. t # s => t \in Opening
      BY <3>1 DEF Opening
    <3> QED  BY <1>1, <3>1, <3>2 DEF Inv, Pooled
  <2> QED  BY <1>3, <2>2, <2>3 DEF Pooled
<1> QED  BY <1>1, <1>2, <1>3, <1>4 DEF Inv, PoolWhole, FramesWhole

\* A sender that opened c is done with it: there is room in the pool for
\* one connection more.
LEMMA Dialed ==
    ASSUME Inv, NEW s \in Senders, dialing[s] # None,
           dialing' = [dialing EXCEPT ![s] = None]
    PROVE  /\ Opening' = Opening \ {s} /\ s \in Opening
           /\ Cardinality(Opening') = Cardinality(Opening) - 1
           /\ Cardinality(Opening) \in Nat /\ Cardinality(Senders) \in Nat
           /\ \A t \in Opening' : t \in Opening /\ dialing'[t] = dialing[t]
                                  /\ dialing[t] # dialing[s]
           /\ \A t \in Senders : dialing'[t] # None => dialing'[t] = dialing[t]
<1>1. \A t \in Senders : dialing'[t] = IF t = s THEN None ELSE dialing[t]
  BY DEF Inv, Typed
<1>2. Opening' = Opening \ {s} /\ s \in Opening
  BY <1>1 DEF Opening
<1>3. IsFiniteSet(Opening)
  BY FS_Subset DEF Opening
<1>4. Cardinality(Opening') = Cardinality(Opening) - 1
  BY <1>2, <1>3, FS_RemoveElement
<1>5. \A t \in Opening' : t \in Opening /\ dialing'[t] = dialing[t] /\ dialing[t] # dialing[s]
  BY <1>1, <1>2 DEF Opening, Inv, Pooled
<1> QED  BY <1>1, <1>2, <1>3, <1>4, <1>5, FS_CardinalityType

\* The connection is open: it has a task at either end, and is pooled.
LEMMA HandshakeStep ==
    ASSUME Inv, NEW s \in Senders, Handshake(s)
    PROVE  Inv'
<1> DEFINE c == dialing[s]
<1>1. /\ c # None /\ dialing' = [dialing EXCEPT ![s] = None]
      /\ age' = [age EXCEPT ![c] = 0]
      /\ reader' = reader \cup {c} /\ link' = link \cup {c}
      /\ server' = [server EXCEPT ![c] = "addr"]
      /\ elapsed' = [elapsed EXCEPT ![c] = 0]
      /\ Write(c, <<"addr">>, pool, TRUE) /\ UNCHANGED <<table, gcs>>
  BY DEF Handshake, Answers
<1>2. c \in Conns /\ c \notin ToSet(pool) /\ server[c] = "none" /\ s \in Opening
  BY <1>1 DEF Inv, Typed, Pooled, Opening
<1>3. /\ Opening' = Opening \ {s}
      /\ Cardinality(Opening') = Cardinality(Opening) - 1
      /\ Cardinality(Opening) \in Nat /\ Cardinality(Senders) \in Nat
      /\ \A t \in Opening' : t \in Opening /\ dialing'[t] = dialing[t] /\ dialing[t] # c
      /\ \A t \in Senders : dialing'[t] # None => dialing'[t] = dialing[t]
  BY <1>1, Dialed, Zenon
<1> HIDE DEF c
<1>4. /\ up' \in [Conns -> Seq(Bytes)]
      /\ \A d \in Conns \ {c} : up'[d] = up[d]
      /\ NearlyWhole(up'[c])
      /\ pool' = pool \/ (pool' = Append(pool, c) /\ Whole(up'[c]))
  <2>1. <<"addr">> \in Seq(Bytes) /\ Whole(<<"addr">>)
    BY DEF Bytes, Whole
  <2> QED  BY <1>1, <1>2, <2>1, WriteStep DEF Inv, Typed
<1>5. /\ pool' \in Seq(Conns) /\ IsInjective(pool') /\ Len(pool') <= Len(pool) + 1
      /\ ToSet(pool') \subseteq ToSet(pool) \cup {c}
      /\ c \in ToSet(pool') => Whole(up'[c])
      /\ Len(pool) \in Nat /\ Len(pool') \in Nat
  <2>1. pool \in Seq(Conns) /\ IsInjective(pool)
    BY DEF Inv, Typed, Pooled
  <2>2. CASE pool' = pool
    BY <1>2, <2>1, <2>2
  <2>3. CASE pool' = Append(pool, c) /\ Whole(up'[c])
    BY <1>2, <2>1, <2>3, PoolAppend
  <2> QED  BY <1>4, <2>2, <2>3
<1>6. Typed'
  <2>1. dialing' \in [Senders -> Conns \cup {None}]
    BY <1>1 DEF Inv, Typed
  <2>3. 0 \in 0 .. 2 * Lifetime
    OBVIOUS
  <2>4. age' \in [Conns -> 0 .. 2 * Lifetime]
    BY <1>1, <2>3, Zenon DEF Inv, Typed
  <2>2. server' \in [Conns -> {"none", "addr", "read", "set"}]
    BY <1>1 DEF Inv, Typed
  <2>6. 0 \in Int
    OBVIOUS
  <2>5. elapsed' \in [Conns -> Int]
    BY <1>1, <2>6, Zenon DEF Inv, Typed
  <2> QED  BY <1>1, <1>2, <1>4, <1>5, <2>1, <2>2, <2>4, <2>5 DEF Inv, Typed
<1>7. Pooled'
  <2>1. Len(pool') + Cardinality(Opening') <= Cardinality(Senders)
    BY <1>3, <1>5 DEF Inv, Pooled
  <2>2. ASSUME NEW t \in Opening'
        PROVE  /\ dialing'[t] \notin ToSet(pool') /\ dialing'[t] \notin reader'
               /\ server'[dialing'[t]] = "none"
               /\ \A u \in Senders : dialing'[u] = dialing'[t] => u = t
    <3>1. /\ t \in Opening /\ dialing'[t] = dialing[t] /\ dialing[t] # c
          /\ dialing[t] # None /\ dialing[t] \in Conns
      BY <1>3 DEF Opening, Inv, Typed
    <3>2. server'[dialing[t]] = server[dialing[t]]
      BY <1>1, <3>1 DEF Inv, Typed
    <3> QED  BY <1>1, <1>3, <1>5, <3>1, <3>2 DEF Inv, Pooled
  <2> QED  BY <1>5, <2>1, <2>2 DEF Pooled
<1>8. ASSUME NEW d \in ToSet(pool')
      PROVE  d \in Conns /\ (d # c => d \in ToSet(pool))
  BY <1>5, PoolConns
<1>10. PoolWhole'
  BY <1>4, <1>5, <1>8 DEF Inv, PoolWhole
<1>11. FramesWhole'
  BY <1>4 DEF Inv, FramesWhole, NearlyWhole
<1> QED  BY <1>6, <1>7, <1>10, <1>11 DEF Inv

\* The packet is dropped; the server may be left with a new task.
LEMMA DialFailsStep ==
    ASSUME Inv, NEW s \in Senders, DialFails(s)
    PROVE  Inv'
<1> DEFINE c == dialing[s]
<1>1. /\ c # None /\ dialing' = [dialing EXCEPT ![s] = None]
      /\ UNCHANGED <<pool, elapsed, reader, table, gcs>>
      /\ \/ UNCHANGED <<age, link, up, server>>
         \/ /\ age' = [age EXCEPT ![c] = 0]
            /\ link' = link \cup {c}
            /\ up' = [up EXCEPT ![c] = <<"addr">>]
            /\ server' = [server EXCEPT ![c] = "addr"]
  BY DEF DialFails, Answers
<1>2. c \in Conns /\ c \notin ToSet(pool) /\ server[c] = "none" /\ s \in Opening
  BY <1>1 DEF Inv, Typed, Pooled, Opening
<1>3. /\ Opening' = Opening \ {s}
      /\ Cardinality(Opening') = Cardinality(Opening) - 1
      /\ Cardinality(Opening) \in Nat /\ Cardinality(Senders) \in Nat
      /\ \A t \in Opening' : t \in Opening /\ dialing'[t] = dialing[t] /\ dialing[t] # c
      /\ \A t \in Senders : dialing'[t] # None => dialing'[t] = dialing[t]
  BY <1>1, Dialed, Zenon
<1> HIDE DEF c
<1>4. ASSUME NEW d \in Conns, d # c
      PROVE  /\ age'[d] = age[d] /\ (d \in link' <=> d \in link)
             /\ up'[d] = up[d] /\ server'[d] = server[d]
  BY <1>1, <1>4 DEF Inv, Typed
<1>5. /\ age' \in [Conns -> 0 .. 2 * Lifetime] /\ link' \subseteq Conns
      /\ server' \in [Conns -> {"none", "addr", "read", "set"}]
      /\ up' \in [Conns -> Seq(Bytes)] /\ (up' = up \/ up'[c] = <<"addr">>)
  <2>1. 0 \in 0 .. 2 * Lifetime /\ <<"addr">> \in Seq(Bytes)
    BY DEF Bytes
  <2>2. age' \in [Conns -> 0 .. 2 * Lifetime]
    <3>1. age' = age \/ age' = [age EXCEPT ![c] = 0]
      BY <1>1
    <3> QED  BY <2>1, <3>1, Zenon DEF Inv, Typed
  <2>3. up' \in [Conns -> Seq(Bytes)]
    <3>1. up' = up \/ up' = [up EXCEPT ![c] = <<"addr">>]
      BY <1>1
    <3> QED  BY <2>1, <3>1 DEF Inv, Typed
  <2>4. link' \subseteq Conns /\ server' \in [Conns -> {"none", "addr", "read", "set"}]
    BY <1>1, <1>2 DEF Inv, Typed
  <2> QED  BY <1>1, <1>2, <2>2, <2>3, <2>4 DEF Inv, Typed
<1>6. Typed'
  BY <1>1, <1>5 DEF Inv, Typed
<1>7. ToSet(pool') = ToSet(pool) /\ ToSet(pool) \subseteq Conns
  BY <1>1, PoolConns DEF Inv, Typed
<1>8. Pooled'
  <2>1. Len(pool') + Cardinality(Opening') <= Cardinality(Senders)
    BY <1>1, <1>3 DEF Inv, Pooled, Typed
  <2>2. ASSUME NEW t \in Opening'
        PROVE  /\ dialing'[t] \notin ToSet(pool') /\ dialing'[t] \notin reader'
               /\ server'[dialing'[t]] = "none"
               /\ \A u \in Senders : dialing'[u] = dialing'[t] => u = t
    <3>1. /\ t \in Opening /\ dialing'[t] = dialing[t] /\ dialing[t] # c
          /\ dialing[t] # None /\ dialing[t] \in Conns
      BY <1>3 DEF Opening, Inv, Typed
    <3>2. server'[dialing[t]] = server[dialing[t]]
      BY <1>4, <3>1
    <3> QED  BY <1>1, <1>3, <1>7, <3>1, <3>2 DEF Inv, Pooled
  <2> QED  BY <1>1, <2>1, <2>2 DEF Inv, Pooled
<1>10. PoolWhole'
  BY <1>2, <1>4, <1>7 DEF Inv, PoolWhole
<1>11. FramesWhole'
  BY <1>4, <1>5 DEF Inv, FramesWhole
<1> QED  BY <1>6, <1>8, <1>10, <1>11 DEF Inv

\* The tasks: none begins, and what is on the way is read or lost.
LEMMA TaskSteps ==
    ASSUME Inv, NEW c \in Conns, ReaderEnds(c) \/ Serves(c) \/ Cut(c)
    PROVE  Inv'
<1>1. /\ UNCHANGED <<pool, dialing, age, elapsed, gcs>>
      /\ reader' \subseteq reader /\ link' \subseteq link
  BY DEF ReaderEnds, Serves, ServerReads, ServerSets, ServerEnds, Cut, clientVars,
         Inv, Typed
<1>2. \/ up' = up \/ up' = [up EXCEPT ![c] = <<>>]
      \/ up[c] # <<>> /\ up' = [up EXCEPT ![c] = Tail(up[c])]
  BY DEF ReaderEnds, Serves, ServerReads, ServerSets, ServerEnds, Cut, Readable
<1>3. /\ up' \in [Conns -> Seq(Bytes)]
      /\ \A d \in Conns : /\ Whole(up[d]) => Whole(up'[d])
                          /\ NearlyWhole(up[d]) => NearlyWhole(up'[d])
  <2>1. CASE up' = up
    BY <2>1 DEF Inv, Typed
  <2>2. CASE up[c] # <<>> /\ up' = [up EXCEPT ![c] = Tail(up[c])]
    <3>1. up \in [Conns -> Seq(Bytes)] /\ up[c] \in Seq(Bytes)
      BY DEF Inv, Typed
    <3>2. /\ Tail(up[c]) \in Seq(Bytes) /\ Len(Tail(up[c])) = Len(up[c]) - 1
          /\ Len(up[c]) \in Nat
          /\ \A k \in 1 .. Len(up[c]) - 1 : Tail(up[c])[k] = up[c][k + 1]
      BY <2>2, <3>1
    <3>3. /\ Whole(up[c]) => Whole(Tail(up[c]))
          /\ NearlyWhole(up[c]) => NearlyWhole(Tail(up[c]))
      BY <3>2 DEF Whole, NearlyWhole
    <3> QED  BY <2>2, <3>1, <3>2, <3>3
  <2>3. CASE up' = [up EXCEPT ![c] = <<>>]
    BY <2>3 DEF Inv, Typed, Whole, NearlyWhole
  <2> QED  BY <1>2, <2>1, <2>2, <2>3
<1>4. /\ server' \in [Conns -> {"none", "addr", "read", "set"}]
      /\ \A d \in Conns : server[d] = "none" => server'[d] = "none"
  <2>1. \/ server' = server
        \/ /\ server[c] # "none"
           /\ \E v \in {"none", "read", "set"} : server' = [server EXCEPT ![c] = v]
    BY DEF ReaderEnds, Serves, ServerReads, ServerSets, ServerEnds, Cut
  <2> QED  BY <2>1 DEF Inv, Typed
<1>5. table' \in [to : Conns \cup {None, Gone}, age : 0 .. GcAge + 1]
  <2>1. 0 \in 0 .. GcAge + 1
    OBVIOUS
  <2>2. \/ table' = table \/ table' = [to |-> c, age |-> 0]
        \/ table' = [table EXCEPT !.to = Gone]
    BY Zenon DEF ReaderEnds, Serves, ServerReads, ServerSets, ServerEnds, Cut
  <2>3. CASE table' = [table EXCEPT !.to = Gone]
    BY <2>3, Zenon DEF Inv, Typed
  <2>4. CASE table' = table \/ table' = [to |-> c, age |-> 0]
    BY <2>1, <2>4 DEF Inv, Typed
  <2> QED  BY <2>2, <2>3, <2>4, Zenon
<1>6. Typed'
  BY <1>1, <1>3, <1>4, <1>5 DEF Inv, Typed
<1>7. Pooled'
  <2>1. /\ pool' \in Seq(Conns) /\ IsInjective(pool') /\ ToSet(pool') \subseteq ToSet(pool)
        /\ Len(pool') <= Len(pool)
    BY <1>1 DEF Inv, Typed, Pooled
  <2> QED  BY <1>1, <1>4, <2>1, PooledKept DEF Inv
<1>8. ToSet(pool') = ToSet(pool) /\ ToSet(pool) \subseteq Conns
  BY <1>1, PoolConns DEF Inv, Typed
<1>10. PoolWhole'
  BY <1>3, <1>8 DEF Inv, PoolWhole
<1>11. FramesWhole'
  BY <1>3 DEF Inv, FramesWhole, NearlyWhole
<1> QED  BY <1>6, <1>7, <1>10, <1>11 DEF Inv

\* gc, the clock and time: connections and tasks stay as they are.
LEMMA OtherSteps ==
    ASSUME Inv, UNCHANGED <<pool, dialing, reader, link, up, server>>,
           age' \in [Conns -> 0 .. 2 * Lifetime], elapsed' \in [Conns -> Int],
           table' \in [to : Conns \cup {None, Gone}, age : 0 .. GcAge + 1],
           gcs' \in 0 .. MaxGcs
    PROVE  Inv'
<1>1. Typed'
  BY DEF Inv, Typed
<1>2. Pooled'
  <2>1. /\ pool' \in Seq(Conns) /\ IsInjective(pool') /\ ToSet(pool') \subseteq ToSet(pool)
        /\ Len(pool') <= Len(pool)
    BY DEF Inv, Typed, Pooled
  <2> QED  BY <2>1, PooledKept DEF Inv
<1>3. ToSet(pool') = ToSet(pool)
  OBVIOUS
<1>4. PoolWhole' /\ FramesWhole'
  BY <1>3 DEF Inv, PoolWhole, FramesWhole
<1> QED  BY <1>1, <1>2, <1>4 DEF Inv

LEMMA GcStep ==
    ASSUME Inv, GcCollects \/ GcRemoves
    PROVE  Inv'
<1>1. /\ UNCHANGED <<pool, dialing, reader, elapsed, age, link, up, server>>
      /\ table' = table \/ table' = NoEntry
  BY DEF GcCollects, GcRemoves, clientVars
<1>2. gcs' \in 0 .. MaxGcs
  BY DEF GcCollects, GcRemoves, Inv, Typed
<1>3. 0 \in 0 .. GcAge + 1
  OBVIOUS
<1>4. table' \in [to : Conns \cup {None, Gone}, age : 0 .. GcAge + 1]
  BY <1>1, <1>3 DEF NoEntry, Inv, Typed
<1> QED  BY <1>1, <1>2, <1>4, OtherSteps DEF Inv, Typed

LEMMA SetClockStep ==
    ASSUME Inv, SetClock
    PROVE  Inv'
<1>1. /\ UNCHANGED <<pool, dialing, reader, age, link, up, server, table, gcs>>
      /\ \E d \in Jumps : elapsed' = [c \in Conns |->
                              IF c \in ToSet(pool) THEN elapsed[c] + d ELSE 0]
  BY DEF SetClock
<1>2. elapsed' \in [Conns -> Int]
  BY <1>1 DEF Inv, Typed
<1> QED  BY <1>1, <1>2, OtherSteps DEF Inv, Typed

\* Time passes: ages grow, up to the bounds.
LEMMA TickStep ==
    ASSUME Inv, Tick
    PROVE  Inv'
<1>1. UNCHANGED <<pool, dialing, reader, link, up, server, gcs>>
  BY DEF Tick
<1>2. age' \in [Conns -> 0 .. 2 * Lifetime]
  <2>1. ASSUME NEW d \in Conns
        PROVE  (IF Closed(d) THEN 0 ELSE Min2(age[d] + 1, 2 * Lifetime)) \in 0 .. 2 * Lifetime
    <3>1. age[d] \in 0 .. 2 * Lifetime
      BY DEF Inv, Typed
    <3>2. Min2(age[d] + 1, 2 * Lifetime) \in 0 .. 2 * Lifetime /\ 0 \in 0 .. 2 * Lifetime
      BY <3>1 DEF Min2
    <3> QED  BY <3>2, Zenon
  <2>2. age' = [d \in Conns |->
                  IF Closed(d) THEN 0 ELSE Min2(age[d] + 1, 2 * Lifetime)]
    BY DEF Tick
  <2> QED  BY <2>1, <2>2, Zenon
<1>3. elapsed' \in [Conns -> Int]
  BY DEF Tick, Min2, Inv, Typed
<1>4. table' \in [to : Conns \cup {None, Gone}, age : 0 .. GcAge + 1]
  <2>1. table' = IF table = NoEntry THEN table
                 ELSE [to |-> table.to, age |-> Min2(table.age + 1, GcAge + 1)]
    BY DEF Tick
  <2> QED  BY <2>1 DEF Inv, Typed, Min2
<1> QED  BY <1>1, <1>2, <1>3, <1>4, OtherSteps DEF Inv, Typed

LEMMA NextInv == Inv /\ [Next]_vars => Inv'
<1> SUFFICES ASSUME Inv, [Next]_vars PROVE Inv'
  OBVIOUS
<1>1. CASE UNCHANGED vars
  <2>1. UNCHANGED <<pool, dialing, reader, elapsed, age, link, up, server, table, gcs>>
    BY <1>1 DEF vars, clientVars
  <2> QED  BY <2>1, OtherSteps DEF Inv, Typed
<1>2. ASSUME NEW s \in Senders, Sends(s) \/ DialFails(s)  PROVE Inv'
  BY <1>2, SendPooledStep, DialStep, HandshakeStep, DialFailsStep, Zenon DEF Sends
<1>3. ASSUME NEW c \in Conns, ReaderEnds(c) \/ Serves(c) \/ Cut(c)  PROVE Inv'
  BY <1>3, TaskSteps, Zenon
<1>4. CASE GcCollects \/ GcRemoves \/ SetClock
  BY <1>4, GcStep, SetClockStep
<1>5. CASE Tick
  BY <1>5, TickStep
<1> QED  BY <1>1, <1>2, <1>3, <1>4, <1>5 DEF Next

-----------------------------------------------------------------------------
(* The theorems *)

\* The inductive invariant holds in every reachable state.
THEOREM TcpPoolInvariant == Spec => []Inv
BY InitInv, NextInv, PTL DEF Spec

\* Types; the pool holds a connection once, and never more connections than
\* there are senders, although every sender may open one at a time.
THEOREM TcpPoolTypeOK == Spec => []TypeOK
<1>1. ASSUME Inv PROVE TypeOK
  <2>1. Cardinality(Opening) \in Nat /\ Cardinality(Senders) \in Nat
    BY FS_Subset, FS_CardinalityType DEF Opening
  <2>2. Len(pool) <= Cardinality(Senders)
    BY <1>1, <2>1 DEF Inv, Typed, Pooled
  <2> QED  BY <1>1, <2>2, PoolConns, Zenon DEF Inv, Typed, Pooled, TypeOK
<1> QED  BY <1>1, TcpPoolInvariant, PTL

\* Nothing is written after a frame that was broken off.
THEOREM TcpPoolFramesWhole == Spec => []FramesWhole
<1>1. Inv => FramesWhole
  BY DEF Inv
<1> QED  BY <1>1, TcpPoolInvariant, PTL
=============================================================================
