------------------------------ MODULE Uploader ------------------------------
(***************************************************************************)
(* The client's uploader and its workers.  The uploader hands the packets  *)
(* of the session to one worker per shard, in turn, over bounded queues.   *)
(* Each worker owns a socket, and tells the server with a ClientResume     *)
(* that its shard is now reached at that socket.  When the reset timer has *)
(* expired the uploader compares how much the workers received and may     *)
(* fire the worst: a new worker takes over its shard, and the fired one    *)
(* goes on sending what is in its queue until it is dropped.               *)
(*                                                                         *)
(* Packets are counted, not told apart.  The p-value is 0 when all counts  *)
(* are equal and may be on either side of 0.01 otherwise.  The server is   *)
(* what Listener says of it: a resume that arrives binds the shard to the  *)
(* address it came from.                                                   *)
(*                                                                         *)
(* A worker that cannot bind its socket panics, and closes its queue; the  *)
(* uploader panics in turn when it has a packet for that worker, and with  *)
(* it all workers go.                                                      *)
(***************************************************************************)
EXTENDS Integers, Sequences, FiniteSets, SequencesExt

CONSTANTS
    NumShards,      \* num_shards
    Capacity,       \* of a worker's queue (128)
    Nobody,         \* the address of a socket that is closed
    MaxCount,       \* bound: packets a worker counts as received
    MaxResets,      \* bound: expirations of the reset timer
    MaxDeaths       \* bound: sockets that fail or cannot be bound

ASSUME UploaderAssumption ==
    /\ NumShards \in Nat \ {0} /\ Capacity \in Nat \ {0}
    /\ Nobody \notin (0 .. NumShards - 1) \X (0 .. NumShards + 1)
    /\ MaxCount \in Nat /\ MaxResets \in Nat /\ MaxDeaths \in Nat

Shards == 0 .. NumShards - 1

\* The k-th worker of a shard; the names of dropped ones are used again.
Worker == Shards \X (0 .. NumShards + 1)

VARIABLES
    workers,        \* shard -> its worker
    fired,          \* fired_workers
    turn,           \* ctr % workers.len()
    respawned,      \* just_respawned
    expired,        \* last_reset is more than reset_interval ago
    resets,         \* expirations so far
    queue,          \* worker -> packets in its channel
    count,          \* shard -> received_count of its worker
    alive,          \* workers whose client_backhaul_once runs
    updated,        \* workers that have sent a resume from their socket
    broken,         \* workers whose task has panicked
    down,           \* the uploader has panicked
    deaths,         \* sockets that failed so far, or were not bound
    resumes,        \* resumes on the way: <<shard, address>>
    bound,          \* the server: shard -> address
    period          \* shard -> expirations since its count was 0, up to 2

staffVars == <<workers, fired, turn, respawned>>
netVars == <<resumes, bound>>
vars == <<staffVars, expired, resets, queue, count, alive, updated, broken, down,
          deaths, netVars, period>>

Current == {workers[s] : s \in Shards}
Staff == Current \cup ToSet(fired)

Init ==
    /\ workers = [s \in Shards |-> <<s, 0>>]
    /\ fired = <<>> /\ turn = 0 /\ respawned = FALSE
    /\ expired = FALSE /\ resets = 0
    /\ queue = [w \in Worker |-> 0] /\ count = [s \in Shards |-> 0]
    /\ alive = {} /\ updated = {} /\ broken = {} /\ down = FALSE /\ deaths = 0
    /\ resumes = {} /\ bound = [s \in Shards |-> Nobody]
    /\ period = [s \in Shards |-> 0]

\* The socket of w is closed: nothing is received there any more.
Closes(w) ==
    /\ resumes' = {<<r[1], IF r[2] = w THEN Nobody ELSE r[2]>> : r \in resumes}
    /\ bound' = [s \in Shards |-> IF bound[s] = w THEN Nobody ELSE bound[s]]

-----------------------------------------------------------------------------
(* The uploader *)

\* The counts compared are those of the workers; fired ones' are not read
\* any more.  If all are equal uniform_pvalue is 0.
Even == \A s, t \in Shards : count[s] = count[t]

\* min_by_key: the first shard whose worker received least.
Worst(s) ==
    /\ \A t \in Shards : count[s] <= count[t]
    /\ \A t \in 0 .. s - 1 : count[s] < count[t]

\* Names for ClientWorker::start to give: the first that is free.
Free(s, k) == <<s, k>> \notin Staff /\ \A j \in 0 .. k - 1 : <<s, j>> \in Staff

\* The first reset after a worker was replaced: counts start again.
Recount(q) ==
    /\ respawned
    /\ respawned' = FALSE
    /\ count' = [s \in Shards |-> 0] /\ period' = [s \in Shards |-> 0]
    /\ queue' = q
    /\ UNCHANGED <<workers, fired, alive, updated, broken, netVars>>

\* The counts do not differ enough, and go on.
Keep(q) ==
    /\ ~respawned /\ ~Even
    /\ queue' = q
    /\ UNCHANGED <<workers, fired, respawned, count, period, alive, updated, broken, netVars>>

\* The worst worker is replaced.  Of the workers fired before, the oldest
\* is dropped if there are too many: its task is cancelled, with what is
\* in its queue.  Those not among the staff are as new workers will be.
Replace(q, s, k, flag, drop) ==
    LET staff == Staff \ (IF drop THEN {Head(fired)} ELSE {}) IN
    /\ ~respawned /\ Worst(s) /\ Free(s, k)
    /\ workers' = [workers EXCEPT ![s] = <<s, k>>]
    /\ fired' = Append(IF drop THEN Tail(fired) ELSE fired, workers[s])
    /\ respawned' = flag
    /\ queue' = [w \in Worker |-> IF w \in staff THEN q[w] ELSE 0]
    /\ count' = [count EXCEPT ![s] = 0]
    /\ period' = [period EXCEPT ![s] = 0]
    /\ alive' = alive \cap staff /\ updated' = updated \cap staff
    /\ broken' = broken \cap staff
    /\ IF drop THEN Closes(Head(fired)) ELSE UNCHANGED netVars

\* Mutant: the next comparison is not put off.
FireQuietly(q, s, k) == Replace(q, s, k, FALSE, Len(fired) >= NumShards)

Fire(q, s, k) == Replace(q, s, k, TRUE, Len(fired) >= NumShards)

HasRoom(w) == queue[w] < Capacity

\* send_upload of the next packet to the worker whose turn it is, which
\* waits for room in the queue, and the check of the reset timer.
Upload ==
    LET w == workers[turn]
        q == [queue EXCEPT ![w] = @ + 1]
    IN
    /\ ~down /\ w \notin broken /\ HasRoom(w)
    /\ turn' = (turn + 1) % NumShards
    /\ expired' = FALSE
    /\ IF expired
       THEN \/ Recount(q) \/ Keep(q)
            \/ \E s \in Shards, k \in 0 .. NumShards + 1 : Fire(q, s, k)
       ELSE /\ queue' = q
            /\ UNCHANGED <<workers, fired, respawned, count, period, alive, updated, broken,
                           netVars>>
    /\ UNCHANGED <<resets, down, deaths>>

\* send_upload finds the queue closed, and the uploader panics: its workers
\* are dropped with their queues, and their sockets closed.
Panic ==
    /\ ~down /\ workers[turn] \in broken
    /\ down' = TRUE
    /\ alive' = {} /\ updated' = {} /\ queue' = [w \in Worker |-> 0]
    /\ resumes' = {<<r[1], Nobody>> : r \in resumes}
    /\ bound' = [s \in Shards |-> Nobody]
    /\ UNCHANGED <<staffVars, expired, resets, count, broken, deaths, period>>

Expire ==
    /\ ~down /\ ~expired /\ resets < MaxResets
    /\ expired' = TRUE /\ resets' = resets + 1
    /\ period' = [s \in Shards |-> IF period[s] < 2 THEN period[s] + 1 ELSE 2]
    /\ UNCHANGED <<staffVars, queue, count, alive, updated, broken, down, deaths, netVars>>

-----------------------------------------------------------------------------
(* A worker: client_backhaul_once *)

\* The network takes a resume, or loses it.
Carry(r) == UNCHANGED resumes \/ resumes' = resumes \cup {r}

\* Mutant: a resume is sent once per socket and never repeated.
SendOnce(w, resume) ==
    /\ w \in Staff \cap alive /\ queue[w] > 0
    /\ resume = (w \notin updated)
    /\ queue' = [queue EXCEPT ![w] = @ - 1]
    /\ updated' = updated \cup {w}
    /\ IF resume THEN Carry(<<w[1], w>>) ELSE UNCHANGED resumes
    /\ UNCHANGED <<staffVars, expired, resets, count, alive, broken, down, deaths, bound,
                   period>>

\* A packet goes out, after a resume if none was sent from this socket, or
\* if more than a second has passed since the last, or since anything was
\* received.
Send(w, resume) ==
    /\ w \in Staff \cap alive /\ queue[w] > 0
    /\ resume \/ w \in updated
    /\ queue' = [queue EXCEPT ![w] = @ - 1]
    /\ updated' = updated \cup {w}
    /\ IF resume THEN Carry(<<w[1], w>>) ELSE UNCHANGED resumes
    /\ UNCHANGED <<staffVars, expired, resets, count, alive, broken, down, deaths, bound,
                   period>>

\* The server sends to the address it has for a shard.  (A fired worker
\* that is still bound passes on what it receives as well.)
Receive(s) ==
    /\ workers[s] \in alive /\ bound[s] = workers[s]
    /\ count[s] < MaxCount
    /\ count' = [count EXCEPT ![s] = @ + 1]
    /\ UNCHANGED <<staffVars, expired, resets, queue, alive, updated, broken, down, deaths,
                   netVars, period>>

\* recv_from fails, and with it client_backhaul_once.
Dies(w) ==
    /\ w \in Staff \cap alive /\ deaths < MaxDeaths
    /\ alive' = alive \ {w} /\ updated' = updated \ {w}
    /\ deaths' = deaths + 1
    /\ Closes(w)
    /\ UNCHANGED <<staffVars, expired, resets, queue, count, broken, down, period>>

\* Mutant: a worker whose socket failed is not called again.
RestartNever(w) ==
    /\ w \in Staff \ (alive \cup broken) /\ ~down /\ deaths = 0
    /\ alive' = alive \cup {w}
    /\ UNCHANGED <<staffVars, expired, resets, queue, count, updated, broken, down, deaths,
                   netVars, period>>

\* client_backhaul_once is called, when the worker starts and a second after
\* each error: it binds a socket, or panics.
Restart(w) ==
    /\ w \in Staff \ (alive \cup broken) /\ ~down
    /\ \/ alive' = alive \cup {w} /\ UNCHANGED <<broken, deaths>>
       \/ /\ deaths < MaxDeaths
          /\ broken' = broken \cup {w} /\ deaths' = deaths + 1
          /\ UNCHANGED alive
    /\ UNCHANGED <<staffVars, expired, resets, queue, count, updated, down, netVars, period>>

-----------------------------------------------------------------------------
(* The network and the server *)

\* The server binds the shard to the address: SessionTable::rebind.
Arrive(r) ==
    /\ r \in resumes
    /\ resumes' = resumes \ {r}
    /\ bound' = [bound EXCEPT ![r[1]] = r[2]]
    /\ UNCHANGED <<staffVars, expired, resets, queue, count, alive, updated, broken, down,
                   deaths, period>>

Next ==
    \/ Upload \/ Panic \/ Expire
    \/ \E w \in Staff : \/ \E resume \in BOOLEAN : Send(w, resume)
                        \/ Dies(w) \/ Restart(w)
    \/ \E s \in Shards : Receive(s)
    \/ \E r \in resumes : Arrive(r)

Spec == Init /\ [][Next]_vars

\* A resume of the shard's worker that is not lost.
Reaches(s) ==
    /\ Send(workers[s], TRUE)
    /\ <<s, workers[s]>> \in resumes'

\* The session goes on having packets to send; tasks are scheduled; some of
\* a worker's packets come a second after its last resume, and of the
\* resumes some are not lost, and arrive in the end.
FairSpec ==
    /\ Spec
    /\ WF_vars(Upload \/ Panic)
    /\ \A s \in Shards :
        /\ WF_vars(Send(workers[s], FALSE) \/ Send(workers[s], TRUE) \/ Restart(workers[s]))
        /\ SF_vars(Reaches(s))
        /\ WF_vars(Arrive(<<s, workers[s]>>))

-----------------------------------------------------------------------------
(* Properties *)

Fires == workers' # workers

\* A worker is fired by a fair comparison: the counts compared were all
\* taken over the same time, at least one interval of the reset timer.
FairComparison ==
    [][Fires => \A s, t \in Shards : period[s] = period[t] /\ period[s] > 0]_vars

\* The uploader waits for room in the queue of the worker whose turn it is.
Stuck == ~HasRoom(workers[turn])

\* It does not wait for good: the worker's task comes back after its socket
\* failed, and empties the queue, or panics, which the uploader comes to
\* notice.
UploadGoesOn == Stuck ~> ~Stuck \/ down

\* Once no more workers are fired and no more sockets fail, each shard is
\* bound to its worker and stays so: late resumes of fired workers, and
\* resumes that are lost, are made up for; or the uploader has panicked
\* after one of its workers.
Settles == <>[](down \/ \A s \in Shards : bound[s] = workers[s])
=============================================================================
