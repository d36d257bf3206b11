--------------------------- MODULE UploaderProofs ---------------------------
(***************************************************************************)
(* That workers are compared fairly, for every number of shards.           *)
(***************************************************************************)
EXTENDS Uploader, TLAPS

\* While no worker is new all counts have run equally long, and when the
\* reset timer has expired, for an interval at least.
EvenPeriods ==
    /\ period \in [Shards -> Nat]
    /\ ~respawned => \A s, t \in Shards : period[s] = period[t]
    /\ ~respawned /\ expired => \A s \in Shards : period[s] > 0

\* Of all steps only Upload, with the timer expired, fires a worker; it
\* recounts in place of firing while a worker is new.
LEMMA StaysEven ==
    ASSUME EvenPeriods, [Next]_vars
    PROVE  /\ EvenPeriods'
           /\ Fires => ~respawned /\ expired
<1>1. CASE UNCHANGED vars
  BY <1>1 DEF EvenPeriods, Fires, vars, staffVars
<1>2. CASE Upload
  <2> DEFINE q == [queue EXCEPT ![workers[turn]] = @ + 1]
  <2>1. CASE ~expired
    BY <1>2, <2>1 DEF Upload, EvenPeriods, Fires
  <2>2. CASE expired /\ Recount(q)
    <3>1. /\ ~respawned' /\ ~expired' /\ workers' = workers
          /\ period' = [s \in Shards |-> 0]
      BY <1>2, <2>2, Zenon DEF Upload, Recount
    <3> QED  BY <3>1 DEF EvenPeriods, Fires
  <2>3. CASE expired /\ Keep(q)
    BY <1>2, <2>3 DEF Upload, Keep, EvenPeriods, Fires
  <2>4. ASSUME expired, NEW s \in Shards, NEW k \in 0 .. NumShards + 1, Fire(q, s, k)
        PROVE  EvenPeriods' /\ (Fires => ~respawned /\ expired)
    <3>1. ~respawned /\ respawned' /\ period' = [period EXCEPT ![s] = 0]
      BY <2>4, Zenon DEF Fire, Replace
    <3> QED  BY <2>4, <3>1 DEF EvenPeriods
  <2> QED  BY <1>2, <2>1, <2>2, <2>3, <2>4, Zenon DEF Upload
<1>3. CASE Expire
  <2>1. /\ expired' /\ respawned' = respawned /\ workers' = workers
        /\ period' = [s \in Shards |-> IF period[s] < 2 THEN period[s] + 1 ELSE 2]
    BY <1>3, Zenon DEF Expire, staffVars
  <2> QED  BY <2>1 DEF EvenPeriods, Fires
<1>4. CASE ~Upload /\ ~Expire /\ Next
  <2>1. UNCHANGED <<workers, respawned, expired, period>>
    BY <1>4, Zenon DEF Next, Panic, Send, Dies, Restart, Receive, Arrive, staffVars
  <2> QED  BY <2>1 DEF EvenPeriods, Fires
<1> QED  BY <1>1, <1>2, <1>3, <1>4

\* The invariant EvenPeriods, of the specification.
THEOREM UploaderEvenPeriods == Spec => []EvenPeriods
<1>1. Init => EvenPeriods
  BY DEF Init, EvenPeriods
<1> QED  BY <1>1, StaysEven, PTL DEF Spec

\* A worker is fired only by a comparison of counts that were taken over the
\* same time, and that time is at least an interval of the reset timer.
THEOREM UploaderFairComparison == Spec => FairComparison
<1>1. EvenPeriods /\ [Next]_vars
        => [Fires => \A s, t \in Shards : period[s] = period[t] /\ period[s] > 0]_vars
  BY StaysEven, Zenon DEF EvenPeriods
<1> QED  BY <1>1, UploaderEvenPeriods, PTL DEF Spec, FairComparison
=============================================================================
