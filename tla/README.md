# sosistab in TLA+

sosistab is an unreliable, obfuscated datagram transport (sessions over UDP or
TCP, with forward error correction and resumption) with a multiplexer of
reliable streams on top. This directory models its protocol logic. It holds
TLA+ modules translated from the Rust source, TLC configurations that check
them on small instances, and theorems with proofs checked by TLAPS.
`PROJECT.json` lists, for each definition, the source lines it stands for, the
hazards of the code, and the runs, theorems and findings.

    tlc -workers 2 -config Listener.cfg MCListener    # a run
    tlapm ListenerProofs.tla                          # a proof

## 1. Inventory

From the application down; paths are below `src/src/`.

| Component | State | Operations | Hard behaviours | What makes it correct |
|---|---|---|---|---|
| `mux/relconn/connvars.rs`, `inflight.rs`, `structs.rs`: one end of a reliable stream | `Inflight` (segments, rtos, lost_count), lost_seqnos, cwnd, `Reorderer` (pkts, min), ack_seqnos, ack timer | `next_event` picks an event by priority (RTO, retransmit, ack timer, new write, packet, final timeout), `process_one` handles it | two records of what is lost, kept by different arms; deadlines; limits asserted at run time; acks sent once | the assertions hold; the retransmission table is exact; nothing is acknowledged that is not held; the count of what is in flight is exact |
| `mux/relconn/mod.rs`: `relconn_actor` | SynReceived, SynSent, SteadyState, Reset | SYN with retries, steady state, RST, 60 s of Reset | any packet counts as SYN-ACK; RSTs are lost; both ends must come down | data arrive in order and once; a graceful close means everything arrived; the end is noticed |
| `mux/multiplex_actor.rs`, `mux/mod.rs`: `Multiplex` | `ConnTable`, accept queue, reaper | open (two steps: choose an id, enter it), SYN, Rel packets, reap 30 s after the end, session replacement | ids reused; choosing and entering not atomic; reaping by id | a running actor is listed, and displaced only when two openings race for its id; openings and ended connections do not last for ever; an end left alone is told |
| `session/mod.rs`, `session/machine.rs`, `fec/`: `Session` | frame_no, unfecked; `ReplayFilter`, `OobDecoder` caches | number and send, send parity after a run or 20 ms, receive, recover | loss, duplication, reordering; windows and LRU caches at their limits | at most once, unchanged; runs contiguous and bounded |
| `listener/`, `recfilter.rs`: server side of sessions | `SessionTable` (token to session, address to token), `RecentFilter`, queue of dead sessions | ClientHello, ClientResume (rebind or create), delete | replays; late death reports; addresses that change hands; sessions made anew | handled once; no dangling lookup; a live session stays listed and reachable |
| `client/`: connecting and workers per shard | workers and fired workers with their queues, per-shard receive counts, reset timer | hello with retries; packets to the workers in turn, a resume with packets at most once a second, reset of the worst worker, restart after a socket error | resumes lost, or overtaken by those of a fired worker; counts of workers of different age; a full queue that stops the session; a worker that panics | workers are compared over equal periods; the session is not stopped unnoticed; each shard ends up bound to its worker |
| `tcp/`: TCP transport | client: connection pool, a read task per connection; server: a task per connection, the down table | pooled send, dial, read until CONN_LIFETIME; set the down entry, gc | pooled connections that are stale, cut, or thrown away half way through a frame; the last active connection decides where answers go; two clocks; gc that collects and then deletes | no frame follows a broken one; a connection is pooled once; a sending client stays reachable |
| `session/rloss.rs`, `session/stats.rs`: measurements | gap and good frames with their times, counts, timed frame, acknowledged count | record, incoming, send, ack | frames and reports in any order; unsigned subtraction; pruning by age in order of number | every frame counted once; nothing overdue; a sample of the round trip answers the timed frame |
| `mux/congestion/`, `stats.rs`, `mux/relconn/inflight/calc.rs` | floats, histories | window curves, averages | | windows and estimates are arbitrary values in the models |
| `crypt.rs` | keys per epoch | seal, open, key epochs | keys expire while packets are repeated | only the epochs matter here |
| `backhaul.rs`, `buffer.rs`, `pacer.rs`, `runtime.rs`, `pkt_trace.rs`, `bin/` | | I/O, memory, tools | | not modelled |

Components interact by channels and packets. `Multiplex` owns one
`relconn_actor` per stream and talks to it through `RelConnBack` (a bounded
channel, `try_send`) and to its `Session` by sending and receiving datagrams.
`Session` is fed by the listener's or the client's socket loop
(`SessionBack`). Dropping a `Session` reports its token to `ListenerActor`
through a channel, which deletes it from the table later. The channels are
bounded and lossy (`try_send`), except the queue of dead sessions, which is
unbounded, and the queues of the client's workers, for which the uploader waits.

## 2. Modules

| Module | Models | State and actions |
|---|---|---|
| `ConnVars` | one end of a stream, with time | The fields of `ConnVars`, `Inflight`, `Reorderer`. One action per arm of `process_one`; the guards are the futures of `next_event` in their order of priority. The peer may send anything a peer that talks about segments really sent could send. |
| `ReliableStream` | what a `RelConn` promises, abstractly | written, delivered, outcome |
| `RelStream` | both ends of one direction and the network | Writer half, reader half, packets on the way. Without time: an armed segment may time out whenever. Reset and the end of both actors included. Refines `ReliableStream`. |
| `Mux` | stream life cycle at two ends | All RelConns ever made, the `ConnTable`s, packets. `FindId` and `SetStream` are two steps, as in the spawned open task, of which there may be several at either end; `raced` records that a `set_stream` replaced an entry. |
| `Datagrams` | what a `Session` promises, abstractly | datagrams sent, each under a number of its own, and those handed over |
| `Session` | one direction of a session | The send loop; `ReplayFilter`, data and parity caches, recovery. Whatever was sent can be received at any time, any number of times. Refines `Datagrams`. |
| `Listener` | handshakes, table, resumption | Clocks in key epochs, every handshake replayable for ever, table, dead queue, frame numbers by key. |
| `TcpPool` | the TCP backhaul between a client and a server | `conn_pool`, read tasks, bytes on the way as whole and broken frames, server tasks, `DownTable`; time in fractions of CONN_LIFETIME. `age` is what the tasks' timers see, `elapsed` what the pool makes of SystemTime, which `SetClock` changes. `GcCollects` and `GcRemoves` are the two loops of `gc`. `SendPooled`, `Dial`, `Handshake` are the parts of `send_to` between its awaits. |
| `Uploader` | the client's uploader and workers, and what the server makes of their resumes | workers, `fired_workers`, queues, counts, `just_respawned`; resumes on the way and the server's binding of shards. `Upload` is one turn of the uploader's loop with the reset in it. `Restart` binds a socket or breaks the worker; `Panic` is the uploader that meets a broken one. |
| `LossStats` | what two ends measure of one direction | `RecvLossCalc` and the counters of `StatsCalculator` at the receiver, `PingCalc` at the sender, data frames and reports on the way. |
| `MC*` | instances for TLC | symmetry sets, concrete streams |
| `*Proofs` | theorems | see section 5 |

Main abstractions:

- Round-trip estimates and the congestion window are any value of given sets at
  each use, so the results do not depend on the float computations. `rtt_var`
  may even differ between the acks of one packet.
- `Session` models Reed-Solomon by its contract. As many distinct shards as
  there were data frames give back the others; with fewer, or with a shard of
  another size seen first, nothing. `MarkMayLead` is the unspecified iteration
  order of a hash map, a nondeterministic choice.
- The RelStream network keeps at most one copy of a packet on the way; each
  retransmission is a new copy. Duplicates made by the network are stopped in
  `Session` (`ImplementsDatagrams`).
- `Mux` has no clock: a timer may fire as soon as it is set. With `Prompt` the
  reaper waits for the packets of its stream, which excludes counterexamples
  that need a packet to be delayed for more than its 30 s.
- `Listener` counts time in epochs of 60 s. `KeyWindow` 2 and `FilterMemory`
  10 in the code; the assumption `2 * KeyWindow < FilterMemory` is the relation
  of the two that matters.

## 3. Runs

| Run | Checks | Instance | Distinct states |
|---|---|---|---|
| `connvars` | `TypeOK`, `LostAgrees`, `RtosExact`, `AckBatchBound`, `AckScheduled`, `AcksAreHeld`, `ReorderTight` | three segments each way, window 1 or 2, batch 2, time 0 to 3, two estimates of each kind | 671 520 |
| `relstream` | `AckedIsHeld`, `ImplementsReliableStream`, `EventuallyDelivered`, `CloseEnds`, `BothEnd` | two chunks, two of each packet on the way | 66 125 |
| `mux` | `RunningIsListed`, `CancelledByRace`, `NoneLingers`, `StrandedIsTold` | both ends open, two open tasks at a time, one id, three connections, one retry, an accept queue that may be full | 96 893 |
| `mux_mixed` | `StreamsNotMixed`, violated | | |
| `session_recv` | `BurstBound`, `RunContiguous`, `FilterExact`, `DeliveredIsSent`, `ImplementsDatagrams` | three frames, window 1, caches of 2 and 1 | 24 023 |
| `session_done` | `DoneIsDelivered`, violated | | |
| `listener` | `NoDangling`, `LiveIsListed`, `Reachable`, `HandledOnce` | two tokens, two shards, two addresses, four packets, three epochs | 627 035 |
| `listener_frames` | `FrameNoNeverRepeats`, violated | | |
| `tcp` | `TypeOK`, `FramesWhole`, `HearsAgain` | two senders, two connections at a time, lifetime 2, gc after 5, room for two frames, one fault (a cut, a failed dial, or the clock set by half a lifetime), one gc under way | 1 044 644 |
| `uploader` | `FairComparison`, `UploadGoesOn`, `Settles` | two shards, queues of one, two expirations, one socket that fails or is not bound | 146 324 |
| `stats` | `Accounted`, `AckedGrows`, `NothingOverdue`, `PingIsRoundTrip` | five frames, two reports, time 0 to 5, all ages 1 | 1 142 256 |
| `stats_zero` | `HighIsDelivered`, violated | | |

Why the bounds are enough:

- Windows, caches, batches and capacities are smaller than the number of
  segments, frames or packets, so each limit is met and passed.
- Three segments allow one acknowledged out of order between two outstanding
  ones, one of which is rearmed early while the other is lost.
- In `ConnVars.cfg` the clock reaches past two RTOs and the final timeout.
- In `Mux.cfg` an id can be chosen twice at one end, or at both; it can be
  opened, closed, reaped and opened again while packets of the earlier stream
  are on the way; a SYN is repeated, and a connection refused.
- In `Listener.cfg` a session can be dropped, resumed before and after its
  deletion, and its address passed on; a key expires and the filter forgets,
  in either order.
- In `TcpPool.cfg` names of connections are used again once both ends have let
  go of them, so the client dials without end; gc can act only after
  more than two lifetimes, as in the code (3600 s and 600 s). The clock set back
  makes a connection usable that is no longer read, set forward one unusable
  that is; an entry can be set between the two loops of gc.
- In `Uploader.cfg` a worker is fired, the counts start again and the fired one's
  resume arrives late. A worker that has just been started is in the state
  of one whose socket has failed, so one failure is enough for a bind that
  does not succeed, at the start or after an error. A fired worker is dropped first at the fifth
  expiration, which this instance does not reach; `Replace` has it, and
  `FairComparison` is proved with it.
- In `LossStats.cfg` a gap can be filled in time, too late, or never, and counts
  are sampled twice.

`CHECK_DEADLOCK FALSE` stands where the system may stop: a stream ends, and
bounded instances run out of packets, connections or time. The TCP client
goes on for ever, and is checked for deadlock; the uploader stops after a panic.

Every property has a mutant: an operator in the module, marked *Mutant*, that
differs from the modelled definition as a plausible slip in the code would
(a dropped guard, a missing reset, an off-by-one), under which the property
fails. A type invariant is checked for the two modules with most fields
(`ConnVars`, `TcpPool`); in the others what matters of the types is a part of
the invariants that are proved.

### Fairness

- `RelStream`: timers that stay armed fire and actors proceed (weak fairness
  of `Rto`, `Retransmit`, `AckTimer`, `Die` and of taking packets that are
  there): each is a future of the select in `next_event`, or a sleep. Strong
  fairness of receiving a segment that is sent again and again, and an ack
  that covers it, is the usual assumption on a network that is lossy but not
  for ever. Nothing makes an application write or close, and no reset is
  forced, except by `ReaderIdle`, the final timeout of an end that has nothing
  to do.
- `Mux`: the timers of SynSent, Reset and the reaper fire, and the actor of a
  dropped RelConn finds its pipe closed. A connection whose peer is gone and
  that hears nothing runs into its final timeout; if it does send again and
  again, not all it sends is lost, nor all RSTs this provokes (strong). Packets
  do not stay on the way for ever.
- `TcpPool`: the client keeps sending (`HearsAgain` speaks of such a client
  only), tasks are scheduled, time passes. No fairness of faults, of the clock or
  of gc: a gc that has collected may never delete.
- `Uploader`: the session keeps sending, tasks are scheduled (a panic is noticed
  when the next packet is due for the broken worker), and of the
  resumes a worker repeats some are not lost (strong). That some of its packets
  come a second after its last resume is what makes it repeat them.

## 4. Findings

- `mux_mixed` (`multiplex_actor.rs:167`). When the RST of a closed stream is
  lost, its opener gives the id back after 60 s + 30 s, while the peer keeps
  the old RelConn for up to 600 s. A new stream under that id is answered as
  a repeated SYN and joined to the old RelConn, whose reader then gets bytes of
  both.
- `session_done` (`session/machine.rs:254`). The mark 255 is put into the map
  of parity shards before the decoder iterates over it. When no data frame of
  the run is held and the mark comes first, its empty body sets the shard
  size, all shards are refused, and the run counts as done.
- `listener_frames` (`listener/mod.rs:297`). A session made anew from its
  token numbers frames from 0 under the same key, which `protocol.rs:53` says
  must never happen; the client, which kept its session, drops them as repeats.

- `stats_zero` (`session/mod.rs:252`). high_recv_frame_no is 0 before anything was
  received, and 0 is the number of the first frame: a peer that has
  received nothing reports it as delivered (`protocol.rs:55`), and the first
  ping sample may be taken before the frame it times has arrived.

Two smaller ones have no run of their own. The window test
(`connvars.rs:301`) is made before the send and lets cwnd + 1 segments out,
where the comments above it (`:296`, `:298`) say less than, and at most, cwnd; no
property states the weaker bound, which would only repeat the test. When both ends
open a stream under the same random id at the same time, both opens succeed and
neither end accepts one: an open RelConn may thus face another opener, or, when a
late packet was taken for the SYN-ACK, nobody. What holds is `StrandedIsTold`.

## 5. Proofs

All theorems hold for all values of the constants that satisfy the named
assumptions (natural numbers; batch, burst and cache sizes positive; finitely many senders;
`None` no address, token or number; `2 * KeyWindow < FilterMemory`).

- `ConnVarsProofs`: `TypeOK`, `LostAgrees`, `RtosExact`, `AckBatchBound`,
  `AckScheduled`, `AcksAreHeld`, `ReorderTight`, and `InflightExact`: the unsigned
  difference that `inflight()` returns is the number of outstanding segments not
  known to be lost, and never underflows. The
  inductive invariant is the conjunction of the invariants with
  `LostExpired`: the deadline of a lost segment has passed. That last part is
  what keeps `mark_acked`'s early retransmission, which asks for a deadline in
  the future, from arming a lost segment, and so makes `RtosExact` and
  `LostAgrees` inductive.
- `RelStreamProofs`: `AckedIsHeld`, and the refinement of `ReliableStream`. The
  invariant says that what is outstanding, buffered or on the way carries
  the payload written under its seqno (`PayloadsRight`), that acks pending or
  on the way name only what the reader holds (`AcksRight`), that what was
  delivered is the prefix of length min (`DeliveredRight`), and that a
  written segment is outstanding or held (`AckedIsHeld`). A closing writer with
  nothing outstanding thus faces a reader that holds everything, and a buffer
  that is tight (nothing at min) is then empty.
- `MuxProofs`: `RunningIsListed`, for any number of ids, open tasks and opening
  ends. The invariant adds `EntryIsOwn` (an entry is a connection of that end,
  under that id), so what `set_stream` or the reaper displaces is the one actor
  that was listed there, and it is cancelled in the same step. The proof first
  reduces each action to what it does to states, table and network (`Steps`), and
  then works on those few forms. `Answered` follows the packets: until
  something comes back a connection is its opener's, a SYN comes from an end that
  has the connection, and anything else travels only under ids both ends have had.
  From it comes `HeldIsPaired`, for all openers: what an application is given has,
  or had, a counterpart under its id, though perhaps one of an earlier stream.
  `CancelledByRace` is proved with no bound on openers, open tasks or
  retries. Its invariant `Orderly` says of an id at one end, as long as no
  `set_stream` has replaced an entry under it (`Sole`), that a connection whose
  actor runs or has ended keeps its entry until it is reaped and none is
  cancelled (`Undisturbed`), and that a task that has only chosen its id has
  replaced nothing (`Unmarked`): so `RecvSyn` and the reaper, which act by id, hit
  no other connection, and only a race can begin the trouble.
- `SessionProofs`: `BurstBound`, `RunContiguous`, `AtMostOnce`,
  `FilterExact`, `DeliveredIsSent`, and the refinement of `Datagrams`. `IInv`
  ties the filter to what was handed over: every accepted number is in
  `seen_seqno` or below the window's bottom. `Sent` ties it to what was
  sent: numbers are below `frame_no`, a frame of the run is on the way, and a
  parity frame carries under each number of its run the payload sent under it,
  which is where `RunContiguous` is needed. Every receiving step hands out
  payloads of that kind, for numbers nothing was handed over for (`Hands`,
  `HandsOnce`).
- `ListenerProofs`: `HandledOnce`, `NoDangling`, `LiveIsListed`, `Reachable`.
  For replays: a handled packet is remembered since a time when its key was
  already tried, or is too old to be decrypted (`Spent`). For the table: a
  token reported dead is listed with a session that is not alive, and is
  reported once (`DeadIsListed`, `DeadOnce`), so its deletion hits no live
  session; and a session's addresses are ones its shards resumed from.

- `UploaderProofs`: `FairComparison`. The invariant `EvenPeriods`: while no worker is
  new all counts have run equally long, and when the timer has expired, for
  an interval at least. Firing makes a worker new, and the next reset then
  recounts in place of comparing.
- `TcpPoolProofs`: `TypeOK`, `FramesWhole`. The
  invariant says that a connection being opened is in no other hands (`Pooled`,
  which also counts the pool against the senders), and that nothing was broken off on a
  connection of the pool (`PoolWhole`), however the clocks run.
- `LossStatsProofs`: `Accounted`, by the sizes of the sets of good and missing frames:
  a new frame adds as many as it is ahead of the last seen, one that fills a gap
  moves from one set to the other, and pruning moves them into the counts
  (`Books` adds that what is on the way was not delivered and that nothing
  above the last seen was). `NothingOverdue`, from `TimesGrow` (frames are entered with
  times that grow with their numbers, also those that fill a gap, so all
  before the first young one are old and none after it); `AckedGrows` and
  `PingIsRoundTrip` from `Truthful` (a report names a frame that was delivered,
  or 0).

Only model-checked: liveness (`EventuallyDelivered`, `CloseEnds`, `BothEnd`,
`NoneLingers`, `StrandedIsTold`, `HearsAgain`, `UploadGoesOn`, `Settles`), since fairness and ENABLED are out of the prover's reach. Every
safety property of a passing run is a theorem. What an LRU cache drops is
computed with `SelectSeq`, a recursive definition, of which nothing can be proved
here; the theorems on `Session` therefore hold whatever the caches
hold, and say nothing of how often a recovery succeeds.

## 6. Not modelled, and the plan

Not modelled:

- I/O, memory, tracing and the benchmark (`backhaul.rs`, `buffer.rs`,
  `runtime.rs`, `pkt_trace.rs`, `bin/`): no protocol state. The pacer is
  constructed and never waited for.
- The float curves of congestion control; averages, quartiles and time series of
  `stats.rs`; `SendLossCalc`, which only frames without a loss rate reach,
  and this code sends none. TLC has no floats.
- Ciphers and TLS: perfect, or failing as a whole.
- `Mux`: unreliable messages, which are passed through.
- `write_all` into a full pipe, which blocks `relconn_actor` (`connvars.rs:205`):
  the application is assumed to read. The pipes are a library's.
- `TcpPool`: the lengths of packets (`tcp/client.rs:190`), and the queue of
  packets down, whose overflow is a loss.

Next, in this order:

1. The composition of `RelStream` over `Datagrams`: the network of `RelStream` as
   what a channel of datagrams allows.
2. What holds of frame numbers in `Listener` between two creations of a session,
   next to the finding `listener_frames`.
3. A back-pressured reader in `ConnVars`.
