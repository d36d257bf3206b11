-------------------------- MODULE LossStatsProofs ---------------------------
(***************************************************************************)
(* What RecvLossCalc and PingCalc rest on, for any number of frames and    *)
(* reports, any ages and any order of arrival.                             *)
(***************************************************************************)
EXTENDS LossStats, FiniteSetTheorems, TLAPS

USE LossStatsAssumption DEF Frames

-----------------------------------------------------------------------------
(* RecvLossCalc *)

\* Frames are entered with times that grow with their numbers.
TimesGrow ==
    /\ now \in Nat /\ sent \in Nat /\ sent <= MaxFrames
    /\ net \subseteq Frames
    /\ lastSeen \in Frames /\ at \in [Frames -> Nat]
    /\ good \subseteq 1 .. lastSeen /\ gap \subseteq 1 .. lastSeen
    /\ \A m \in Frames : at[m] <= now
    /\ \A j, k \in 1 .. lastSeen : j < k => at[j] <= at[k]

\* So they do after the frame n has been seen, whether it is new, fills a
\* gap or comes too late.
LEMMA SeenGrows ==
    ASSUME TimesGrow, NEW n \in Frames
    PROVE  /\ Seen(n).last \in Frames /\ Seen(n).at \in [Frames -> Nat]
           /\ Seen(n).good \subseteq 1 .. Seen(n).last
           /\ Seen(n).gap \subseteq 1 .. Seen(n).last
           /\ \A m \in Frames : Seen(n).at[m] <= now
           /\ \A j, k \in 1 .. Seen(n).last : j < k => Seen(n).at[j] <= Seen(n).at[k]
BY DEF TimesGrow, Seen, Most

\* What is not old in S is young, since it comes after one that is young.
LEMMA NotOldIsYoung ==
    ASSUME NEW S, NEW last \in Frames, NEW times \in [Frames -> Nat],
           now \in Nat, S \subseteq 1 .. last,
           \A j, k \in 1 .. last : j < k => times[j] <= times[k],
           NEW m \in S \ Old(S, times)
    PROVE  now - times[m] <= GapAge
<1>1. PICK k \in S : k <= m /\ ~(now - times[k] > GapAge)
  BY DEF Old
<1>2. k \in 1 .. last /\ m \in 1 .. last
  BY <1>1
<1>3. times[k] \in Nat /\ times[m] \in Nat
  BY <1>2
<1>4. times[k] <= times[m]
  <2>1. CASE k = m
    BY <2>1, <1>3
  <2>2. CASE k < m
    BY <2>2, <1>2
  <2> QED  BY <2>1, <2>2, <1>1, <1>2
<1> QED  BY <1>1, <1>3, <1>4

LEMMA StaysGrown ==
    ASSUME TimesGrow, [Next]_vars
    PROVE  /\ TimesGrow'
           /\ delivered' # delivered => \A m \in good' \cup gap' : now - at'[m] <= GapAge
<1>1. CASE UNCHANGED vars
  BY <1>1 DEF TimesGrow, vars, pingVars, lossVars
<1>2. CASE Send
  <2>1. /\ now' = now /\ delivered' = delivered /\ lastSeen' = lastSeen
        /\ good' = good /\ gap' = gap /\ at' = at
        /\ sent' = sent + 1 /\ net' = net \cup {sent} /\ sent < MaxFrames
    BY <1>2, Zenon DEF Send, lossVars
  <2>2. sent' \in Nat /\ sent' <= MaxFrames /\ sent \in Frames
    BY <2>1 DEF TimesGrow
  <2>3. net' \subseteq Frames
    BY <2>1, <2>2, Zenon DEF TimesGrow
  <2> QED  BY <2>1, <2>2, <2>3, Zenon DEF TimesGrow
<1>3. CASE Report \/ \E r \in reports : Ack(r)
  BY <1>3 DEF Report, Ack, TimesGrow, lossVars, pingVars
<1>4. CASE Tick
  <2>1. /\ now' = now + 1 /\ delivered' = delivered /\ lastSeen' = lastSeen
        /\ good' = good /\ gap' = gap /\ at' = at
        /\ sent' = sent /\ net' = net
    BY <1>4, Zenon DEF Tick, lossVars, pingVars
  <2>2. now + 1 \in Nat /\ \A m \in Frames : at[m] <= now + 1
    BY DEF TimesGrow
  <2> QED  BY <2>1, <2>2, Zenon DEF TimesGrow
<1>5. ASSUME NEW n \in net, Receive(n)
      PROVE  /\ TimesGrow'
             /\ \A m \in good' \cup gap' : now - at'[m] <= GapAge
  <2> DEFINE s == Seen(n)
             oldGood == Old(s.good, s.at)
             oldGap == Old(s.gap, s.at)
  <2>1. /\ lastSeen' = s.last /\ at' = s.at
        /\ good' = s.good \ (oldGood \cup oldGap)
        /\ gap' = s.gap \ (oldGood \cup oldGap)
        /\ net' \subseteq net /\ now' = now /\ sent' = sent
    BY <1>5 DEF Receive, Record, pingVars
  <2>2. n \in Frames
    BY <1>5 DEF TimesGrow
  <2> HIDE DEF s
  <2>3. /\ s.last \in Frames /\ s.at \in [Frames -> Nat]
        /\ s.good \subseteq 1 .. s.last /\ s.gap \subseteq 1 .. s.last
        /\ \A m \in Frames : s.at[m] <= now
        /\ \A j, k \in 1 .. s.last : j < k => s.at[j] <= s.at[k]
    BY <2>2, SeenGrows DEF s
  <2>4. TimesGrow'
    BY <2>1, <2>3 DEF TimesGrow
  <2>5. \A m \in good' \cup gap' : now - at'[m] <= GapAge
    <3>1. now \in Nat
      BY DEF TimesGrow
    <3> HIDE DEF oldGood, oldGap
    <3>2. \A m \in s.good \ oldGood : now - s.at[m] <= GapAge
      BY <2>3, <3>1, NotOldIsYoung DEF oldGood
    <3>3. \A m \in s.gap \ oldGap : now - s.at[m] <= GapAge
      BY <2>3, <3>1, NotOldIsYoung DEF oldGap
    <3> QED  BY <2>1, <3>2, <3>3
  <2> QED  BY <2>4, <2>5
<1> QED  BY <1>1, <1>2, <1>3, <1>4, <1>5 DEF Next, Send, Report, Ack, Tick, vars

\* Times grow with frame numbers, in every reachable state.
THEOREM LossStatsTimesGrow == Spec => []TimesGrow
<1>1. Init => TimesGrow
  BY DEF Init, TimesGrow
<1> QED  BY <1>1, StaysGrown, PTL DEF Spec

\* After every record nothing is left that should have been counted.
THEOREM LossStatsNothingOverdue == Spec => NothingOverdue
<1>1. TimesGrow /\ [Next]_vars
        => [delivered' # delivered
              => \A m \in good' \cup gap' : now - at'[m] <= GapAge]_vars
  BY StaysGrown
<1> QED  BY <1>1, LossStatsTimesGrow, PTL DEF Spec, NothingOverdue

-----------------------------------------------------------------------------
(* Every frame is counted once *)

Counts == [good : Nat, lost : Nat]

\* What is on the way was sent and has not come in; nothing above the last
\* seen has.
Books ==
    /\ counts \in Counts /\ tally \in Counts
    /\ delivered \cap net = {}
    /\ \A m \in delivered \cup net : m < sent
    /\ \A m \in delivered : m \in Frames /\ m <= lastSeen
    /\ Accounted

LEMMA AreFinite ==
    ASSUME NEW last \in Nat, NEW S, S \subseteq 1 .. last
    PROVE  IsFiniteSet(S) /\ Cardinality(S) \in Nat
<1>1. IsFiniteSet(1 .. last)
  BY FS_Interval
<1> QED  BY <1>1, FS_Subset, FS_CardinalityType

\* A frame that has come in is entered as good, and so are as missing those
\* between it and the last seen: as many as it is ahead of that.
LEMMA SeenAccounts ==
    ASSUME TimesGrow, Books, NEW n \in net, NEW s, s = Seen(n)
    PROVE  /\ s.good \subseteq delivered \cup {n} /\ s.gap \cap (delivered \cup {n}) = {}
           /\ \A m \in delivered \cup {n} : m <= s.last
           /\ Cardinality(s.good) + Cardinality(s.gap)
                = Cardinality(good) + Cardinality(gap) + (s.last - lastSeen)
<1>1. /\ n \in Nat /\ lastSeen \in Nat /\ n \notin delivered
      /\ good \subseteq 1 .. lastSeen /\ gap \subseteq 1 .. lastSeen
      /\ good \subseteq delivered /\ gap \cap delivered = {}
      /\ \A m \in delivered : m \in Nat /\ m <= lastSeen
  <2>1. /\ n \in Frames /\ lastSeen \in Frames /\ n \notin delivered
        /\ good \subseteq 1 .. lastSeen /\ gap \subseteq 1 .. lastSeen
        /\ good \subseteq delivered /\ gap \cap delivered = {}
        /\ \A m \in delivered : m \in Frames /\ m <= lastSeen
    BY Zenon DEF TimesGrow, Books, Accounted
  <2>2. \A m \in Frames : m \in Nat
    OBVIOUS
  <2> QED  BY <2>1, <2>2, Zenon
<1>2. /\ IsFiniteSet(good) /\ Cardinality(good) \in Nat
      /\ IsFiniteSet(gap) /\ Cardinality(gap) \in Nat
  BY <1>1, AreFinite
<1>3. /\ s.last = Most(lastSeen, n)
      /\ s.gap = (gap \cup (lastSeen + 1 .. n - 1)) \ {n}
      /\ s.good = IF n \in gap \/ n > lastSeen THEN good \cup {n} ELSE good
  BY DEF Seen
<1>4. CASE n > lastSeen
  <2> DEFINE new == lastSeen + 1 .. n - 1
  <2>1. s.last = n /\ s.good = good \cup {n} /\ s.gap = gap \cup new /\ n \notin good
    BY <1>1, <1>3, <1>4 DEF Most
  <2>2. IsFiniteSet(new) /\ Cardinality(new) = n - 1 - lastSeen
    <3>1. lastSeen + 1 \in Int /\ n - 1 \in Int
      BY <1>1
    <3>2. /\ IsFiniteSet(new)
          /\ Cardinality(new) = IF lastSeen + 1 > n - 1 THEN 0 ELSE n - 1 - (lastSeen + 1) + 1
      BY <3>1, FS_Interval, Zenon
    <3> HIDE DEF new
    <3> QED  BY <1>1, <1>4, <3>2
  <2>3. Cardinality(s.good) = Cardinality(good) + 1
    BY <1>2, <2>1, FS_AddElement
  <2>4. gap \cap new = {}
    BY <1>1
  <2>5. Cardinality(s.gap) = Cardinality(gap) + Cardinality(new)
    <3>1. Cardinality(gap \cup new)
            = Cardinality(gap) + Cardinality(new) - Cardinality(gap \cap new)
      BY <1>2, <2>2, FS_Union
    <3>2. Cardinality(gap \cap new) = 0
      BY <2>4, FS_EmptySet
    <3>3. Cardinality(new) \in Nat
      BY <1>1, <1>4, <2>2
    <3> QED  BY <1>2, <2>1, <3>1, <3>2, <3>3
  <2>6. Cardinality(s.good) + Cardinality(s.gap)
          = Cardinality(good) + Cardinality(gap) + (s.last - lastSeen)
    BY <1>1, <1>2, <2>1, <2>2, <2>3, <2>5
  <2>7. s.good \subseteq delivered \cup {n} /\ s.gap \cap (delivered \cup {n}) = {}
    <3>1. \A m \in new : m \notin delivered /\ m # n
      BY <1>1
    <3>2. n \notin gap
      BY <1>1, <1>4
    <3> HIDE DEF new
    <3> QED  BY <1>1, <2>1, <3>1, <3>2
  <2>8. \A m \in delivered \cup {n} : m <= s.last
    <3>1. \A m \in delivered : m <= n
      BY <1>1, <1>4
    <3> QED  BY <1>1, <2>1, <3>1
  <2> QED  BY <2>6, <2>7, <2>8
<1>5. CASE ~(n > lastSeen)
  <2>1. s.last = lastSeen /\ s.gap = gap \ {n}
    BY <1>1, <1>3, <1>5 DEF Most
  <2>2. \A m \in delivered \cup {n} : m <= s.last
    BY <1>1, <1>5, <2>1
  <2>3. s.last - lastSeen = 0
    BY <1>1, <2>1
  <2>4. CASE n \in gap
    <3>1. s.good = good \cup {n} /\ n \notin good
      BY <1>1, <1>3, <2>4
    <3>2. Cardinality(s.good) = Cardinality(good) + 1
      BY <1>2, <3>1, FS_AddElement
    <3>3. Cardinality(s.gap) = Cardinality(gap) - 1
      BY <1>2, <2>1, <2>4, FS_RemoveElement
    <3>4. s.good \subseteq delivered \cup {n} /\ s.gap \cap (delivered \cup {n}) = {}
      BY <1>1, <2>1, <3>1
    <3> QED  BY <1>2, <2>2, <2>3, <3>2, <3>3, <3>4
  <2>5. CASE n \notin gap
    <3>1. s.good = good /\ s.gap = gap
      BY <1>3, <1>5, <2>1, <2>5
    <3>2. s.good \subseteq delivered \cup {n} /\ s.gap \cap (delivered \cup {n}) = {}
      BY <1>1, <2>5, <3>1
    <3> QED  BY <1>2, <2>2, <2>3, <3>1, <3>2
  <2> QED  BY <2>4, <2>5
<1> QED  BY <1>4, <1>5

\* Taking out the old ones.
LEMMA Pruned ==
    ASSUME NEW S, NEW T, IsFiniteSet(S), T \subseteq S
    PROVE  /\ Cardinality(S) \in Nat /\ Cardinality(T) \in Nat
           /\ Cardinality(S \ T) \in Nat
           /\ Cardinality(S \ T) + Cardinality(T) = Cardinality(S)
<1>1. IsFiniteSet(T) /\ IsFiniteSet(S \ T) /\ S \cap T = T
  BY FS_Subset
<1>2. Cardinality(S) \in Nat /\ Cardinality(T) \in Nat /\ Cardinality(S \ T) \in Nat
  BY <1>1, FS_CardinalityType
<1>3. Cardinality(S \ T) = Cardinality(S) - Cardinality(S \cap T)
  BY FS_Difference
<1> QED  BY <1>1, <1>2, <1>3

\* What is counted is in the counts or in the samples.
LEMMA SampleAccounts ==
    ASSUME tally \in Counts, NEW g \in Nat, NEW l \in Nat, NEW c,
           c = [good |-> g, lost |-> l], Sample(c)
    PROVE  /\ counts' \in Counts /\ tally' \in Counts
           /\ counts'.good + counts'.lost + tally'.good + tally'.lost
                = g + l + tally.good + tally.lost
BY DEF Sample, Counts

LEMMA ReceiveAccounts ==
    ASSUME TimesGrow, Books, NEW n \in net, Receive(n)
    PROVE  Books'
<1>1. PICK s : s = Seen(n)
  OBVIOUS
<1> DEFINE oldGood == Old(s.good, s.at)
           oldGap == Old(s.gap, s.at)
           g == counts.good + Cardinality(oldGood)
           l == counts.lost + Cardinality(oldGap)
<1>2. /\ lastSeen' = s.last
      /\ good' = s.good \ (oldGood \cup oldGap) /\ gap' = s.gap \ (oldGood \cup oldGap)
      /\ Sample([good |-> g, lost |-> l])
      /\ net' = net \ {n} /\ delivered' = delivered \cup {n} /\ sent' = sent
  BY <1>1 DEF Receive, Record, pingVars
<1>3. n \in Frames /\ lastSeen \in Nat
  BY DEF TimesGrow
<1>4. s.last \in Nat /\ s.good \subseteq 1 .. s.last /\ s.gap \subseteq 1 .. s.last
  BY <1>1, <1>3, SeenGrows
<1>5. IsFiniteSet(s.good) /\ IsFiniteSet(s.gap)
  BY <1>4, AreFinite
<1>6. /\ s.good \subseteq delivered \cup {n} /\ s.gap \cap (delivered \cup {n}) = {}
      /\ \A m \in delivered \cup {n} : m <= s.last
      /\ Cardinality(s.good) + Cardinality(s.gap)
           = Cardinality(good) + Cardinality(gap) + (s.last - lastSeen)
  BY <1>1, SeenAccounts
<1>7. oldGood \subseteq s.good /\ oldGap \subseteq s.gap
  BY DEF Old
<1> HIDE DEF oldGood, oldGap
<1>8. good' = s.good \ oldGood /\ gap' = s.gap \ oldGap
  BY <1>2, <1>6, <1>7
<1>9. /\ Cardinality(good') \in Nat /\ Cardinality(gap') \in Nat
      /\ Cardinality(oldGood) \in Nat /\ Cardinality(oldGap) \in Nat
      /\ Cardinality(s.good) = Cardinality(good') + Cardinality(oldGood)
      /\ Cardinality(s.gap) = Cardinality(gap') + Cardinality(oldGap)
  BY <1>5, <1>7, <1>8, Pruned
<1>10. /\ counts.good \in Nat /\ counts.lost \in Nat
       /\ tally.good \in Nat /\ tally.lost \in Nat
       /\ Cardinality(good) \in Nat /\ Cardinality(gap) \in Nat
       /\ counts.good + counts.lost + tally.good + tally.lost
            + Cardinality(good) + Cardinality(gap) = lastSeen + 1
  BY <1>3, AreFinite DEF TimesGrow, Books, Counts, Accounted
<1>11. g \in Nat /\ l \in Nat
  BY <1>9, <1>10
<1>12. PICK c : c = [good |-> g, lost |-> l] /\ Sample(c)
  BY <1>2, Zenon
<1>13. /\ counts' \in Counts /\ tally' \in Counts
       /\ counts'.good + counts'.lost + tally'.good + tally'.lost
            = g + l + tally.good + tally.lost
  BY <1>11, <1>12, SampleAccounts DEF Books
<1>14. /\ counts'.good \in Nat /\ counts'.lost \in Nat
       /\ tally'.good \in Nat /\ tally'.lost \in Nat
  BY <1>13 DEF Counts
<1>15. counts'.good + counts'.lost + tally'.good + tally'.lost
         + Cardinality(good') + Cardinality(gap') = lastSeen' + 1
  BY <1>2, <1>3, <1>4, <1>6, <1>9, <1>10, <1>13, <1>14
<1>16. good' \subseteq delivered' /\ gap' \cap delivered' = {}
  BY <1>2, <1>6, <1>8
<1>17. /\ delivered' \cap net' = {} /\ \A m \in delivered' \cup net' : m < sent'
       /\ \A m \in delivered' : m \in Frames /\ m <= lastSeen'
  BY <1>2, <1>3, <1>6 DEF Books
<1> QED  BY <1>13, <1>15, <1>16, <1>17 DEF Books, Accounted

LEMMA StaysAccounted ==
    ASSUME TimesGrow, Books, [Next]_vars
    PROVE  Books'
<1>1. CASE Send
  <2>1. /\ counts' = counts /\ tally' = tally /\ delivered' = delivered
        /\ lastSeen' = lastSeen /\ good' = good /\ gap' = gap
        /\ sent' = sent + 1 /\ net' = net \cup {sent}
    BY <1>1 DEF Send, lossVars
  <2>2. \A m \in delivered \cup net : m \in Nat /\ m < sent
    <3>1. delivered \cup net \subseteq Frames
      BY Zenon DEF Books, TimesGrow
    <3>2. \A m \in Frames : m \in Nat
      OBVIOUS
    <3> QED  BY <3>1, <3>2, Zenon DEF Books
  <2>3. /\ delivered' \cap net' = {} /\ \A m \in delivered' \cup net' : m < sent'
    BY <2>1, <2>2 DEF Books, TimesGrow
  <2> QED  BY <2>1, <2>3, Zenon DEF Books, Accounted
<1>2. CASE UNCHANGED vars \/ Report \/ Tick \/ \E r \in reports : Ack(r)
  <2>1. /\ counts' = counts /\ tally' = tally /\ delivered' = delivered
        /\ lastSeen' = lastSeen /\ good' = good /\ gap' = gap
        /\ sent' = sent /\ net' = net
    BY <1>2 DEF vars, Report, Tick, Ack, lossVars, pingVars
  <2> QED  BY <2>1, Zenon DEF Books, Accounted
<1> QED  BY <1>1, <1>2, ReceiveAccounts DEF Next

\* RecvLossCalc accounts for every frame once, as received or as missing,
\* whatever arrives late or never, and whenever counts are pruned and
\* sampled.
THEOREM LossStatsAccounted == Spec => []Accounted
<1>1. Init => Books
  <2>1. ASSUME Init  PROVE Cardinality(good) = 0 /\ Cardinality(gap) = 0
    BY <2>1, FS_EmptySet DEF Init
  <2> QED  BY <2>1 DEF Init, Books, Counts, Accounted
<1>2. Books => Accounted
  BY DEF Books
<1> QED  BY <1>1, <1>2, StaysAccounted, LossStatsTimesGrow, PTL DEF Spec

-----------------------------------------------------------------------------
(* PingCalc *)

\* What the reports say has happened, but for a frame 0; counts of
\* acknowledged frames only grow.
Truthful ==
    /\ delivered \subseteq Frames /\ net \subseteq Frames /\ sent \in Nat
    /\ high \in Nat /\ (high = 0 \/ high \in delivered)
    /\ \A r \in reports : /\ r.high \in Nat /\ r.total \in Nat
                          /\ r.high = 0 \/ r.high \in delivered
    /\ inflight \in Nat \cup {None}
    /\ acked \in Nat /\ lastAcked \in Nat /\ lastAcked <= acked

LEMMA TotalIsNat == ASSUME Truthful PROVE Cardinality(delivered) \in Nat
<1>1. IsFiniteSet(0 .. MaxFrames - 1)
  BY FS_Interval
<1> QED  BY <1>1, FS_Subset, FS_CardinalityType DEF Truthful

LEMMA StaysTruthful ==
    ASSUME Truthful, [Next]_vars
    PROVE  /\ Truthful'
           /\ inflight # None /\ inflight' = None /\ inflight > 0
                => \E n \in delivered : n >= inflight
<1>1. CASE UNCHANGED vars
  BY <1>1 DEF Truthful, vars, pingVars
<1>2. CASE Send
  BY <1>2 DEF Send, Truthful
<1>3. CASE Report
  BY <1>3, TotalIsNat DEF Report, Truthful, pingVars
<1>4. CASE Tick
  BY <1>4 DEF Tick, Truthful, pingVars
<1>5. ASSUME NEW r \in reports, Ack(r)
      PROVE  /\ Truthful'
             /\ inflight # None /\ inflight' = None /\ inflight > 0
                  => \E n \in delivered : n >= inflight
  BY <1>5 DEF Ack, Acks, Most, Truthful
<1>6. ASSUME NEW n \in net, Receive(n)
      PROVE  Truthful' /\ inflight' = inflight
  BY <1>6 DEF Receive, Most, Truthful, pingVars
<1> QED  BY <1>1, <1>2, <1>3, <1>4, <1>5, <1>6 DEF Next

\* Reports are truthful, in every reachable state.
THEOREM LossStatsTruthful == Spec => []Truthful
<1>1. Init => Truthful
  BY DEF Init, Truthful
<1> QED  BY <1>1, StaysTruthful, PTL DEF Spec

\* acked_pkts - last_acked_pkts does not underflow.
THEOREM LossStatsAckedGrows == Spec => []AckedGrows
<1>1. Truthful => AckedGrows
  BY DEF Truthful, AckedGrows
<1> QED  BY <1>1, LossStatsTruthful, PTL

\* A ping sample answers the timed frame, or one sent after it.
THEOREM LossStatsPingIsRoundTrip == Spec => PingIsRoundTrip
<1>1. Truthful /\ [Next]_vars
        => [inflight # None /\ inflight' = None /\ inflight > 0
              => \E n \in delivered : n >= inflight]_vars
  BY StaysTruthful
<1> QED  BY <1>1, LossStatsTruthful, PTL DEF Spec, PingIsRoundTrip
=============================================================================
