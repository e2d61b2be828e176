# TLA+ models of turbocable-server

turbocable-server is a WebSocket gateway that speaks the ActionCable protocol.
Publishers write to a NATS JetStream stream; every node reads that stream with
a durable consumer and fans each message out to the WebSocket connections that
subscribed to its stream name. A client that reconnects names the last sequence
it has seen and gets the rest replayed from JetStream.

This directory holds models of the parts where tasks, nodes or faults interact:
the connection registry; the admission of a socket (slots, tokens, key rotation);
the rate limiter; the durable consumer with its acks, crashes and restarts; the
path of a message to a client across reconnects; the life of a connection up to
the end of the process; the presence keys in NATS KV. The models are checked
with TLC on small instances, and the safety properties that hold are also proved
with TLAPS, for every value of the constants. `PROJECT.json` maps every
definition to the lines it models.

Paths below are relative to the repository's `src/` directory unless they
start with `docs/`.

## Inventory

| Component | State | Operations | Talks to |
|---|---|---|---|
| **Connection registry** `connection/registry.rs` | `connections`, `conn_streams`, `streams` (three `DashMap`s), `active` counter | `register`, `deregister`, `subscribe`, `unsubscribe`, `fanout_encoded` | called by every handler task and by the consumer task; sends on the live and evict channels |
| **Per-IP limiter** `connection/limiter.rs` | `counts`: a `DashMap` from address to slots in use | `try_acquire`, `release` | called at the start and at each exit of `handle_socket` |
| **WebSocket handler** `connection/handler.rs` | per connection: inbound loop, outbound loop, replay tasks; channels live, replay, urgent, evict; subscriptions | hello, subscribe, unsubscribe, message, ping, the biased select of the outbound loop | registry, limiter, verifier, presence, NATS |
| **NATS consumer and replay** `pubsub/nats.rs` | durable consumer, spawned ack tasks, one ephemeral consumer per replay | `connect`, `fanout_loop`, `run_consumer`, `process_nats_message`, `replay_since`, `publish`, `flush` | rate limiter, registry (`fanout_encoded`), replay channel |
| **Server** `server.rs`, `main.rs` | shutdown watch, drain deadline | start-up, HTTP endpoints, drain, flush | registry (`connection_count`), all outbound loops (watch channel) |
| **Presence** `presence/mod.rs` | a NATS KV bucket with a maximal age; a heartbeat task per subscription | `connect`, `put`, `delete`, `start_heartbeat` | handler |
| **Stream rate limiter** `fanout/mod.rs` | token bucket per stream, under one mutex | `new`, `is_disabled`, `check` | consumer, before the fan-out |
| **JWT authentication** `auth/jwt.rs` | key and PEM, each behind a lock | `from_rsa_pem`, `update_key`, `verify`, `current_pem`, `is_allowed` | handler, `/pubkey` |
| **Key watcher** `auth/key_watcher.rs` | watch on a KV key | `load_and_watch_from_nats`, `start_nats_key_watcher`, `watch_loop` | JWT verifier |
| **Codecs** `protocol/*` | none | encode, decode | handler, consumer |
| **Configuration, errors, metrics** | plain data, counters | | everyone |
| **Publish tool** `bin/publish.rs` | none | | NATS |

What is hard in this code, and which property is about it (`PROJECT.json` lists
each under `hazards` with the line where it bites):

* *Two deregisters of one connection.* The fan-out task deregisters whom it
  evicts, while the connection's own handler may subscribe, unsubscribe or
  deregister (`DepartedUnrouted`, `SubscribedIsRouted`, `ActiveExact`,
  `ImplementsRouting`).
* *Map entries removed when empty* by a second access after the one that
  emptied them, with other tasks in between (`NoEmptyStreamLeft`, `SlotsExact`,
  `NoIdleEntryLeft`).
* *Guards of `DashMap`.* A fan-out walks a stream's vector under a read guard,
  and then needs write guards (`EvictedLeaves`).
* *Key rotation under verification.* Key and PEM are written under two locks
  while sockets verify; entries that are no keys arrive; NATS goes away
  (`PemCoversKey`, `KeyReloaded`), and every early return of the handshake gives
  the slot back (`SlotsExact`).
* *Token buckets over time.* Refill, cap and consumption add up over bursts, idle
  time and refusals (`WithinRate`, `QuietPasses`).
* *At-least-once delivery.* Acks are sent by background tasks, may be lost, and
  crashes, reconnections and restarts under a new name come in between
  (`ImplementsFeed`, `GapOnlyIfLost`, `EveryMessageHandled`).
* *Two sources of one message sequence.* Replay and live fan-out reach the
  socket through two channels (`NoGap`, `ConfirmAfterReplay`,
  `CursorIsComplete`, `ConfirmedIsComplete`).
* *Channels that close by their last sender.* The branches of a biased select
  see a closed channel as ready (`NoSpuriousEviction`, `HandlerReturns`).
* *Bounded channels and permits* that fill up while one side waits for the other
  (`SubscribeAnswered`, `PeerGoneFreesSlot`, `OutboundGoneIsNoticed`,
  `EvictionCloses`).
* *Shutdown* racing all of it (`DrainedBeforeClose`, `DrainEnds`,
  `ShutdownReachesAll`, `GracefulClose`).
* *One presence key, several writers.* Connections of one user on several nodes
  put, refresh and delete the same key; nodes die; a heartbeat races the delete
  (`NoLapse`, `AbsenceHeals`, `GhostExpires`).

## Modules

| Module | Models | Composition |
|---|---|---|
| `Routing` | abstract: which connections are open, where a message of a stream goes | implemented by `Registry` |
| `Registry`, `RegistryProofs` | `connection/registry.rs` with the handlers and the fan-out task that call it | instantiates `Routing` |
| `Limiter`, `LimiterProofs` | `connection/limiter.rs` and its call sites in `handle_socket` | |
| `Admission`, `AdmissionProofs` | `auth/jwt.rs`, `auth/key_watcher.rs`, `init_jwt_verifier`, and the first part of `handle_socket` | extends `Limiter` |
| `RateLimiter`, `RateLimiterProofs` | `fanout/mod.rs`, `build_rate_limiter` | |
| `Feed` | abstract: at-least-once handling of a stream | implemented by `Consumer` |
| `Consumer`, `ConsumerProofs` | `pubsub/nats.rs` without the replay: the fan-out loop, acks, flush; process start, crash, exit | instantiates `Feed`; the rate limiter is reduced to "passed or dropped" |
| `Delivery`, `DeliveryProofs` | one client and one stream: JetStream's log, subscribe, the replay task, the outbound loop, reconnects | the registry is reduced to "routed or not", the consumer to a position in the log |
| `Lifecycle`, `LifecycleProofs` | `ws_upgrade`, `handle_socket` to its return, its outbound loop and replay task, fan-out, `server::run` from the signal to the exit | the registry is reduced to the set of registered connections; frames are counted |
| `Presence`, `PresenceProofs` | `presence/mod.rs` and its calls in the handler | |
| `MC*` | instances for TLC | extend the module they check |

A definition directly above another one with the same parameters, whose comment
or name says what it gets wrong (`RemoveIfEmptyUnchecked`, `BootAtEnd`),
is a plausible mistake in that piece of code. No specification uses it;
`PROJECT.json` lists under `mutants` which property fails when it takes the
place of the definition below it. Each property of a passing run has one.

### Registry

`connections`, `connKeys`/`connStreams` and `streamKeys`/`subs` are the three
maps (`connKeys` and `streamKeys` are the key sets; `subs[s][c]` is how often
`c` occurs in the vector of `s`, since the order in it does not matter);
`active` is the atomic counter. Every access to a `DashMap` is one action, so
that two tasks interleave between any two accesses: `register` is
`RegisterConnection`, `RegisterStreams`, `RegisterActive`; `deregister` is
`DeregisterTake`, then `DeregisterRetain` and `DeregisterRemoveIf` for each
stream, `DeregisterEntry` and `DeregisterActive`; a fan-out is `FanoutBegin`,
one `FanoutSend`/`FanoutEvict`/`FanoutSkip` per occurrence, `FanoutRelease`,
and a deregister per evicted connection.

A guard that outlives its statement is state of the model: `subscribe` keeps the
entry of `conn_streams` while it pushes into `streams` (`HoldsConnGuard`), and
`fanout_encoded` keeps the entry of the stream while it sends (`Iterating`,
`held`); a step that needs the write side of the same entry waits. Guards are per
entry here and per shard in `DashMap`: a shard's lock only adds waiting, and the
code holds no guard of one map while it waits for the same map.

Each connection has its handler task; `Fan` is the consumer task. `Serving`
handlers may call any method in any order; the outbound loop receives and may end
at any time. Ids are never used twice (`allocate_connection_id` counts up).

`ImplementsRouting` maps the registry to the abstract routing table: `open` is
the key set of `conn_streams`, `closed` the connections that were in it, and
`routes[s]` the connections that occur in the vector of `s`. What the abstract
table rules out is a route added to a connection that has left, the lasting
effect a subscribe racing an eviction could have.

### Limiter and Admission

`Limiter` has one task per accepted socket: `TryAcquire`, then `Authenticated` or
`AuthFailed`, the end of the session, `ReleaseSlot` and `RemoveIfZero`, the two
map accesses of `release`.

`Admission` puts authentication in between. A key is named by the revision of the
KV entry that holds it (0 for the file's); `good` are the revisions that parse.
`LoadFile`/`LoadKv` and `WatchForFile`/`WatchForKv` are `init_jwt_verifier` on its
two paths, which differ in what a failure leaves behind: the file path exits or
goes on without a watcher, the KV path goes on without a verifier. `WatchEntry`
and `WritePem` are the two halves of `update_key`; the first holds the key's lock
until the second, so `ReadKey` (the clone of the key in `verify`) waits. `LetIn`
and `TurnAway` follow with the key that was read, whatever has come into force
since. The limiter's properties are checked of the whole.

Abstractions: a token is valid under a key or not, decided by `\E`; KV `watch`
delivers revisions written after it was set up, in order, perhaps skipping
overwritten ones. The limit is at least 1 (see the observations below for 0).

### RateLimiter

Time is counted in ticks, `One` to the second, and tokens in units of `1/One`, so
what the code keeps in an `f64` is a whole number. `CheckBucket` is `check` with
its refill, cap and consumption; `CheckFree` a stream without a limit. The history
variables are a window per stream, which `OpenWindow` may begin anywhere, and the
times of the latest pass and drop. `FreshLimiter` is a restart of the process.

Abstractions: rounding of the `f64`; the parsing of the overrides, which are given
as a function.

### Consumer

`next`, `unacked` and `acked` are the durable consumer as its configuration makes
it: explicit acks, `max_ack_pending`, redelivery after `ack_wait`. `loop` is where
`fanout_loop` is, from `starting` over `waiting`, `received` and
`passed`/`dropped` to `backoff`. `SpawnAck` leaves the ack to a task, `SendAck`
hands it to the client's buffer, `AckArrives` settles the message. `Boot` is
`init_nats_consumer`, with the consumer of before if `node_id` is configured and a
new one from the first message otherwise. `Crash`, `Flush`, `Exit` and
`FlushFails` end a process. `handled` and `lost` are history: what
`process_nats_message` has seen in any process, and what was sent and never
reached it.

`ImplementsFeed` maps `durable` to "`node_id` is configured" and `settled` to
`acked`.

Abstractions: one consumer; retention is left to `Delivery`; `Redeliver` may
happen at any time after sending, since `ack_wait` may have passed.

### Delivery

`pub`, `first` and `fanPos` are the last published, first retained and last
fanned-out sequence. A session has the inbound loop (`inb`), its replay task
(`task`), the live and replay channels, the evict and urgent signals. A frame is a
sequence number or `Confirm`. The client keeps what it `got` and its `cursor`,
the sequence it will present in its next hello. The retention of the stream may
drop messages at any time (`Expire`), JetStream calls may fail or be late
(`FetchFails`, `JetStreamError`), and the connection may drop at any step
(`Drop`). Replay follows `replay_since` step by step: permit, window check, fetch
until the log ends or `MAX_REPLAY_MESSAGES` is reached, the probe for one more,
then the confirmation or the urgent disconnect. The other connections' replays
take and return the permits of `replay_semaphore` (`busy`).

Abstractions: one stream and one subscription per session; the consumer delivers
in order and once; no rate limit.

### Lifecycle

`main` is `server::run`: serving, stopping (the signal was received and
`axum::serve` waits for the requests under way), draining (the 100 ms poll of
`connection_count` against the deadline), flushing, exited. `ServeEnds` is the end
of the wait and `shutdown_tx.send(true)`. `hs[c]` is where the request of `c` is:
not yet upgraded (`Upgrade`, or `GiveUp`), then `handle_socket`, which refuses the
socket with a close frame (`Refuse`, `Refused`) or registers it (`Accept`); an
upgraded socket is not waited for, and may register after the drain has begun or
ended. `ob[c]` is where its outbound loop is, `rtask[c]` its replay
task. `live` and `replay` count frames. A channel is closed when its last sender is
gone, which is derived: the registry holds the evict sender and a live sender, the
handler's own senders live until `DropSenders`, a replay task holds clones.
`AtEvict` ... `AtLive` are the branches of the biased select, each enabled only if
none above it is ready; `Written`/`WriteFails`/`Closed` end a socket write, which
waits while the peer is `stalled` and fails once it is `broken`. `owedReplay` and
`owedLive` are history variables: what was queued when the outbound loop saw the
shutdown. `Flush` is the end of the flush and of the process: tasks, channels and
sockets are dropped with the runtime. `MCLifecycleGraceful` adds the history
variable `atDrain`, the connections registered when the drain began, for the one
property that needs it.

Abstractions: one replay task per connection at a time; a write that fails does
so at once; the waits for presence keys to be deleted are part of "leaving";
`axum::serve` does not fail.

### Presence

One user on one stream, so one key: `present` and `age` are the bucket's entry.
`doing[c]` is what the handler of connection `c` awaits, `wire[n]` the requests of
node `n` under way, in order within a node and in any order between nodes.
`Subscribe` sends `put`, and its answer (`Resume`) starts the heartbeat afresh;
`Unsubscribe` aborts the heartbeat and sends `delete`; `Disconnect` sends `delete`
and drops the handles only when it is answered, as `inbound_loop` does. Requests
may fail (the code logs that and goes on) and nodes crash.

Abstractions: the clock advances only when no request is under way and no
heartbeat overdue, since a request takes much less than the 5 s between the
heartbeat and the TTL; an interrupted request of a crashed node is lost.

## Runs

| Run | Configuration | Expected | What it shows |
|---|---|---|---|
| `registry` | 2 connections, 2 streams, channel of 1 | pass | the safety properties, the inductive invariant and the refinement of `Routing` at every interleaving of map accesses |
| `registryLive` | 2 connections, 1 stream | pass | an evicted connection leaves the maps; no task waits for its own guard |
| `admission` | 3 sockets of one address, 1 of another, 2 slots, 2 rotations | pass | exact counts within the limit with authentication in between; keys are shown before they are used and come into force |
| `rate` | a stream at the default rate, one with an override, one exempt; 2 ticks a second, 4 ticks | pass | the bound on every window, and that a stream within its rate loses nothing |
| `consumer` | 3 messages, 2 acks pending, inbox of 1, 1 fault | pass | the refinement of `Feed`; reordering only after a loss; every message is handled |
| `delivery` | 5 messages, 3 sessions, channels of 2, replay limit 2 | pass | no gap between log and live routing, the confirmation comes last, every subscribe is answered |
| `deliveryCursor` | 4 messages, 2 sessions | violation | a live message overtakes the replay, and a client that drops then misses what was overtaken |
| `deliveryTimeout` | same | violation | a late or failed fetch is confirmed as a complete replay |
| `lifecycle` | 1 connection, channels of 1, burst of 2 | pass | drain before close, no spurious eviction, the drain ends, the shutdown reaches every socket, slots freed, evicted sockets closed |
| `handlerReturns` | 1 connection | violation | the outbound loop of a client that left spins, and its handler does not return until shutdown |
| `gracefulClose` | 1 connection | violation | the process exits before the deadline with frames unwritten of a client that reads and was registered when the drain began |
| `presence` | 3 connections on 2 nodes, TTL 3, interval 2, 2 faults | pass | no lapse under a subscriber, a key deleted by another connection is back within the interval, no ghost beyond the TTL |

To repeat one: `tlc -config MCRegistry.cfg MCRegistry`.

**Why these bounds are enough to be interesting.** The registry's races are
between the handler and the fan-out task over one connection, and between two
connections over one stream's entry: two connections, two streams and the
fan-out task have both at once, and a channel of one fills after one message.
Three sockets over a limit of two make an address contend, the fourth has an
address of its own; two revisions give a key, a rotation and an entry that is no
key in any order. Four ticks at half a second are long enough to drain a bucket,
refill it to its cap and overflow it, with a rate (3 a second) that the tick does
not divide. In `Consumer` three messages exceed `max_ack_pending` by one, an inbox
of one makes deliveries wait, and one fault is a crash, a restart, a lost ack or a
broken pull. In `Delivery` five messages exceed the replay limit of 2 by enough to
be truncated, to fill both channels and to expire some; three sessions let a
client resume from a cursor obtained by resuming. In `Lifecycle` connections meet
only through `main`'s wait and poll, so one connection suffices; a channel of
one is full after one frame and a burst of 2 has a first and a last element. In
`Presence` two connections share a node and its order of requests, the third does
not; the TTL is more than the interval, as in the code, by one tick. The bounds
that cut behaviours off are `MaxMsgs`, `MaxSessions`, `MaxRev`, `MaxTime`,
`MaxLog` and the two `MaxFaults`; everything else is a capacity the code has. The
theorems lift the results to any value where there is one.

Deadlock is checked except in `admission` and `consumer`, where the system may
simply wait: for a socket or a rotation, for a message or a boot. The final
states of the other modules (all handlers returned, the sessions used up, the
process exited) stutter through `Done`/`Exited`.

**Symmetry** is used over the connections of `registry` only, which checks no
liveness.

### Fairness

* `Registry`: a task inside a method goes on (weak fairness); a step that waits
  for a write guard gets it in some gap between two fan-outs (strong fairness:
  the lock queues writers). Handlers need not call anything.
* `Admission`: the watcher task runs (weak fairness for `WatchEntry`,
  `WritePem`). Nothing is assumed of clients, of rotations, or of NATS staying.
* `Consumer`: weak fairness for the fan-out loop, the ack tasks and the client's
  connection; strong fairness for `Deliver` and `Redeliver`, which the client's
  full inbox disables again and again: JetStream sends what an open pull asks
  for, and sends again what is not acked. Nothing is assumed of boots, stops,
  faults and publishers.
* `Delivery`: tokio runs the three tasks of a session; the client reads; the
  semaphore is fair, so a waiter gets a permit if permits come back again and
  again (strong fairness for `AcquirePermit`). That they do is a premise of
  `SubscribeAnswered` itself: a client that stops reading its replay holds its
  permit. Nothing is assumed of publishers, retention, faults or the network.
* `Lifecycle`: weak fairness for handlers, replay tasks, outbound loops and
  `main` up to the flush, which tokio polls whenever they are ready. Strong
  fairness for `Ping` and `InboundShutdown`, since the inbound select polls its
  branches in random order; for `Sent`, since waiting senders queue in order; for
  `FetchOver`, since a replay delivers at most `MAX_REPLAY_MESSAGES`; for
  `WriteEnds`, since a write ends if the peer reads again and again or its
  connection breaks. Nothing is assumed of the signal, commands, publishers, or
  that a peer reads or answers a close; nor that a request under way ends
  (`DrainEnds` starts when none is) or that NATS answers the flush (the process
  may stay in it, and `ShutdownReachesAll` is about sockets that live on
  meanwhile), since the code sets no limit to either. `EvictionCloses` and
  `ShutdownReachesAll` say in their own statements that the peer does not stop
  reading for good.
* `RateLimiter`, `Presence`: safety only. That heartbeats happen is in `Tick`,
  which waits for an overdue one.

## What the violations show

Each states a sentence of the repository that the code does not keep; the
quotations are in `PROJECT.json` under `findings`.

1. `CursorIsComplete` (`handler.rs:642`): the stream is routed before the replay
   starts, and the select prefers the replay channel only if it has something, so
   live messages overtake the replay. The last sequence received is then not a
   safe cursor.
2. `ConfirmedIsComplete` (`nats.rs:319`): a timeout or an error in a fetch is
   taken for the end of the log.
3. `HandlerReturns` (`handler.rs:370`): `replay_rx.recv()` of a closed channel is
   ready with `None` on every turn of the biased select; the branch has no flag
   like `evict_open`, and the live branch that would break the loop is below it.
   The slot and the registry entry are freed before (`PeerGoneFreesSlot`); the
   outbound task and the handler stay until shutdown.
4. `GracefulClose` (`server.rs:195`): the drain polls the registry, which a handler
   leaves before its outbound loop has written what is queued. In TLC's trace the
   connection is registered when the drain begins, its outbound loop sees the
   shutdown with a frame queued, its handler deregisters, the poll finds the
   registry empty, and the process exits. A socket upgraded late does not count.

`NoGap` and `ConfirmAfterReplay` hold beside 1 and 2: messages arrive out of order
or are missed after a fault or a drop, not within an undisturbed session. Both are
about messages still in the log: one that retention drops during the replay is
passed over without a word.

Observed while modelling, without a run of their own:

* `flush` covers the acks handed to the client, not the ack tasks that were
  spawned and have not run (`nats.rs:468`, against `docs/graceful-shutdown.md:302`
  and `nats.rs:358`); their messages come again, which `ImplementsFeed` allows.
* Neither the wait for `axum::serve` (`server.rs:176`) nor `flush`
  (`server.rs:211`) has a timeout: a request that does not end, or NATS not
  answering, keeps the process beyond the 30 s of the drain, against
  `docs/graceful-shutdown.md:248` ("Old pod exits (within 30s)").
* With `max_connections_per_ip` = 0, which `config.rs:66` admits, `or_insert(0)`
  (`limiter.rs:28`) leaves an entry for every address that was refused;
  `NoIdleEntryLeft` is for limits of at least 1.
* `node_id` is random unless configured, so the "durable" consumer of a restarted
  node starts from the first message (`nats.rs:418`, against `nats.rs:10`).
* Presence keys are deleted before the heartbeats are aborted
  (`handler.rs:495`); `GhostExpires` bounds what a beat in between does.
* A key written between `get` and `watch` is not seen if `watch` delivers only
  later revisions; `KeyReloaded` is about the ones written after `watch`.
* The replay filters on the raw identifier, the fan-out on the stream key taken
  from it (`handler.rs:669`); and two identifiers with one stream key share a
  route, so an unsubscribe of one ends the other's feed (`handler.rs:813`).
* Any error of `try_send` evicts, also that of a connection already closing
  (`registry.rs:181`), and counts it as backpressure.

## Proofs

Assumptions are those on the constants: the connections and sockets are finite
sets, there is a stream (`StreamsAssumption`), the fan-out task is not a
connection, capacities are positive, every socket has an address, rates, bursts
and bounds are natural numbers and a second has at least one tick.

**Registry** (`RegistryProofs`). `RegistryInv` is inductive. The properties are
not so alone: that a departed connection is nowhere routed needs to know who will
remove it from the vectors it is still in. `Accounted` says that whoever occurs in
a stream's vector is there by the reverse map, by a subscribe in flight, or by a
deregister that has that stream still to visit (`Owned`). `HandlerState` ties each
handler's position to the maps, `DeregisterState` says that only one of two
concurrent deregisters gets to decrement, `GuardHeld` that the read guard covers
the walk, and `TargetedIsTold` that an eviction is signalled before it is carried
out. The step is proved action by action, each conjunct a lemma; cardinalities in
`ActiveExact` come from `FiniteSetTheorems`. Corollaries: `TypeCorrect`,
`Departed`, `Routed`, `NoDuplicate`, `CountExact`, `NoLeak`, `Told`,
`StableIteration`. `RoutingRefinement` uses the invariant for the one step that is
not immediate: a subscribe pushes into a vector while its guard keeps the
connection's reverse entry, so the connection is still open.

**Limiter and Admission** (`LimiterProofs`, `AdmissionProofs`). `LimiterInv` is
inductive once the limit is stated of the counts as well as of the holders;
`ExactCount`, `LimitKept` and `NoIdleEntry` follow. Each step of `Admission`
is a limiter step or leaves the limiter alone (`AdmissionIsLimiter`), and so
`AdmissionCounts` inherits the counts. `AdmissionInv` adds the keys: they only move
forward and only to entries that parse, the PEM lags at most by the update under
way, and a socket holds a key only while it authenticates; `ShownBeforeUsed`
follows.

**RateLimiter** (`RateLimiterProofs`). `BucketOK` relates what a bucket holds to
both histories: with what the window has let through it never exceeds the burst
and the refill since the window began, which gives `WithinRate`; and it is at least
what the time since the last pass is worth, which gives `QuietPasses`. The products
of time and rate are the prover's difficulty; a few lemmas on `(b - a) * r` carry
them.

**Consumer** (`ConsumerProofs`). `FeedRefinement` needs `AckAfterHandling` only.
`GapOnlyIfLost` needs `InOrder`: of what is in hand, in the inbox and still to be
sent, each comes behind all that precedes it in the stream, except what was handled
or lost. `Ordered` states that of a queue, and lemmas say what appending to it and
taking from it preserve; redelivery appends a message below `next`, and so one with
nothing missing before it.

**Lifecycle** (`LifecycleProofs`). `CloseAfterDrain` and `EvictionIsReal` rest on
`DrainState` (what is owed is still queued, the replay channel first; a loop that
announced the shutdown drains no more and is not started again) and `EvictState`
(only the fan-out puts a signal into an evict channel). `LifecycleTypes` says that
no sender overfills a channel.

**Delivery** (`DeliveryProofs`). `NoGap` says of each message where it may be, but
not why a replay that has ended has put it there. `DeliveryInv` adds that.
`SessionState` ties the inbound loop to what can be routed, spawned and queued: a
replay task exists only in a subscribed session with a `last_seq`, whose live
channel then never holds the confirmation. `ReplayState` follows the log: below the
next sequence to fetch, and after the last fetch up to the end of the log, every
message is received, queued for replay or expired (`Replayed`). `ConfirmState` says
that the confirmation is the last frame of the replay channel and that there is none
beside an urgent disconnect. The steps that carry the argument: a route starts with
nothing missing, since the replay is still to come or nothing above `fanPos` has
been fanned out; a fetch that passes over messages passes over expired ones; a
replay that ends has reached `pub`, and `fanPos` is never beyond it; whoever
receives the confirmation has emptied the replay channel. Three lemmas say what a
channel holds after sending to it and receiving from it. `ReconnectHasNoGap` and
`ConfirmedBehindReplay` are corollaries, and so is `SettledHasAll`: with empty
channels and the replay over, the client has all that was fanned out. The only
assumptions are that the bounds are natural numbers and the capacities positive.

**Presence** (`PresenceProofs`). `NoLapse` and `AbsenceHeals` follow from `Fresh`:
unless a put failed, the key is no older, and has been away no longer, than the last
heartbeat of any beating connection whose heartbeat is not under way. That a
heartbeat under way repairs the key when it arrives needs `AwaitedOnce` (a put or
delete under way is the one its handler awaits, so a resumed handler has none left)
and `Beats`. `GhostExpires` follows from `Quiet`: when nobody is connected and
nothing under way, nothing makes the key younger. The theorems hold for any
connections and nodes and any interval below the TTL.

The inductive invariants are also invariants of the passing runs
(`LimiterInv` through `AdmissionInv`).

**Only model-checked.** The liveness properties, since fairness and `ENABLED` are out
of the prover's reach: `EvictedLeaves`, `KeyReloaded`, `EveryMessageHandled`,
`SubscribeAnswered`, `DrainEnds`, `ShutdownReachesAll`, `PeerGoneFreesSlot`,
`OutboundGoneIsNoticed`, `EvictionCloses`; and, in the runs that check it, the absence
of deadlock. The four properties of the violation runs are false. Every other property of a run is a theorem.

## Not modelled

Codecs (pure serialisation by serde), configuration with the parsing of the rate
overrides, error types and metrics (plain data and counters nothing decides on),
the publish tool, the listener and the read-only endpoints `/health` and
`/metrics`, JWT signature checks (a library's), stream patterns, protocol
negotiation and stream keys (pure string functions). Inside modelled parts: the
rejections of the enforcement modes and of stream patterns, which answer and
change no state; several replay tasks on one connection; the opening of the
presence bucket, whose age is taken to be the configured one.

## Plan

Done: the modules and proofs above. Left, in this order:

1. `Consumer` composed with `Delivery`, so that redelivered and rate-limited
   messages reach a client that also replays.
2. Several replay tasks on one connection.
