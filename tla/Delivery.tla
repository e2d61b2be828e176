------------------------------ MODULE Delivery ------------------------------
(***************************************************************************)
(* One client on one stream, across reconnects: the JetStream log, the     *)
(* node's fan-out loop, the inbound loop that handles hello and subscribe, *)
(* the replay task that subscribe spawns, and the outbound loop that       *)
(* merges the evict, urgent, replay and live channels onto the socket.     *)
(* A subscribe routes live messages first and reads the log afterwards, so *)
(* the two overlap; that is what makes a reconnect complete.               *)
(*                                                                         *)
(* A data frame is its stream sequence number; the confirmation is 0.      *)
(* One subscribe command per session is modelled.  Messages are fanned out *)
(* in order and once (redelivery and rate limiting are left out).          *)
(*                                                                         *)
(* FanoutDroppingWhenFull, ConfirmLiveUnbounded, SpawnReplayConfirming and *)
(* UrgentNotSent are mutated forms of the definition that follows each.    *)
(***************************************************************************)
EXTENDS Integers, Sequences

CONSTANTS
    MaxMsgs,        \* bound: messages published
    MaxSessions,    \* bound: times the client connects
    LiveCap,        \* ws_channel_capacity
    ReplayCap,      \* ws_replay_channel_capacity
    MaxReplay       \* MAX_REPLAY_MESSAGES

ASSUME BoundsAssumption == MaxMsgs \in Nat /\ MaxSessions \in Nat
ASSUME CapsAssumption == {LiveCap, ReplayCap, MaxReplay} \subseteq Nat \ {0}

VARIABLES
    \* JetStream and the durable consumer
    pub,            \* last published sequence
    first,          \* first sequence still retained
    fanPos,         \* last sequence fanned out by this node
    busy,           \* the replays of other connections hold every permit
    \* the session, server side
    inb,            \* where the inbound loop is; "off" when there is no session
    lastSeq,        \* last_seq of the hello, NoSeq when absent
    routed,         \* the registry routes the stream to this connection
    live, replay,   \* the two bounded channels
    evictSig,       \* the evict channel holds a signal
    urgent,         \* the urgent channel holds a disconnect
    burst,          \* the outbound loop is inside its replay burst
    task,           \* the replay task: pc, next sequence to fetch, count
    \* the client
    cursor,         \* sequence of the last message received
    got,            \* messages received in this session
    confirmed,      \* confirm_subscription received in this session
    sessions,
    \* history
    from,           \* the session owes the client every sequence above this
    upto,           \* end of the log when the replay stopped fetching
    faulted         \* a JetStream call failed during the replay

log == <<pub, first, fanPos, busy>>
queues == <<live, replay, evictSig, urgent, burst>>
client == <<cursor, got, confirmed, sessions>>
history == <<from, upto, faulted>>
vars == <<pub, first, fanPos, busy, inb, lastSeq, routed, live, replay, evictSig,
          urgent, burst, task, cursor, got, confirmed, sessions, from, upto, faulted>>

NoSeq == -1
Confirm == 0
Seqs == 1..MaxMsgs
Frames == {Confirm} \cup Seqs

InboundPC == {"off", "hello", "active", "routed", "confirming", "served"}
TaskPC == {"none", "permit", "info", "fetch", "confirm", "failed",
           "window", "truncated", "done"}
NoTask == [pc |-> "none", next |-> 0, count |-> 0]

TypeOK ==
    /\ pub \in 0..MaxMsgs /\ first \in 1..(MaxMsgs + 1) /\ fanPos \in 0..pub
    /\ busy \in BOOLEAN
    /\ inb \in InboundPC
    /\ lastSeq \in NoSeq..MaxMsgs
    /\ routed \in BOOLEAN
    /\ live \in Seq(Frames) /\ Len(live) <= LiveCap
    /\ replay \in Seq(Frames) /\ Len(replay) <= ReplayCap
    /\ evictSig \in BOOLEAN
    /\ urgent \in {"empty", "window", "truncated"}
    /\ burst \in BOOLEAN
    /\ task \in [pc : TaskPC, next : 0..(MaxMsgs + 1), count : 0..MaxReplay]
    /\ cursor \in NoSeq..MaxMsgs
    /\ got \subseteq Seqs
    /\ confirmed \in BOOLEAN
    /\ sessions \in 0..MaxSessions
    /\ from \in NoSeq..MaxMsgs
    /\ upto \in 0..MaxMsgs
    /\ faulted \in BOOLEAN

Init ==
    /\ pub = 0 /\ first = 1 /\ fanPos = 0 /\ busy = FALSE
    /\ inb = "off" /\ lastSeq = NoSeq /\ routed = FALSE
    /\ live = <<>> /\ replay = <<>>
    /\ evictSig = FALSE /\ urgent = "empty" /\ burst = FALSE
    /\ task = NoTask
    /\ cursor = NoSeq /\ got = {} /\ confirmed = FALSE /\ sessions = 0
    /\ from = NoSeq /\ upto = 0 /\ faulted = FALSE

-----------------------------------------------------------------------------
(* JetStream *)

Publish ==
    /\ pub < MaxMsgs
    /\ pub' = pub + 1
    /\ UNCHANGED <<first, fanPos, busy, inb, lastSeq, routed, task>>
    /\ UNCHANGED queues /\ UNCHANGED client /\ UNCHANGED history

\* Retention drops the oldest message.
Expire ==
    /\ first <= pub
    /\ first' = first + 1
    /\ UNCHANGED <<pub, fanPos, busy, inb, lastSeq, routed, task>>
    /\ UNCHANGED queues /\ UNCHANGED client /\ UNCHANGED history

-----------------------------------------------------------------------------
(* The fan-out loop: run_consumer and process_nats_message. *)

\* The next message the durable consumer hands over: what retention dropped
\* is passed over.
Upcoming == IF fanPos + 1 < first THEN first ELSE fanPos + 1

FanoutDroppingWhenFull(m) ==
    /\ live' = IF Len(live) < LiveCap THEN Append(live, m) ELSE live
    /\ UNCHANGED <<evictSig, routed>>

\* fanout_encoded for this connection: queue the frame, or evict when the
\* live channel is full.
FanoutTo(m) ==
    \/ /\ Len(live) < LiveCap
       /\ live' = Append(live, m)
       /\ UNCHANGED <<evictSig, routed>>
    \/ /\ Len(live) = LiveCap
       /\ evictSig' = TRUE
       /\ routed' = FALSE
       /\ UNCHANGED live

FanoutNext ==
    /\ Upcoming <= pub
    /\ fanPos' = Upcoming
    /\ IF routed THEN FanoutTo(Upcoming) ELSE UNCHANGED <<live, evictSig, routed>>
    /\ UNCHANGED <<pub, first, busy, inb, lastSeq, task, replay, urgent, burst>>
    /\ UNCHANGED client /\ UNCHANGED history

-----------------------------------------------------------------------------
(* The session: handle_socket, inbound_loop, handle_client_frame, *)
(* dispatch_command.                                              *)

\* The client connects; new channels, a new registry entry, the handshake
\* state is AwaitingHello.
Connect ==
    /\ inb = "off"
    /\ sessions < MaxSessions
    /\ inb' = "hello"
    /\ lastSeq' = NoSeq /\ routed' = FALSE
    /\ live' = <<>> /\ replay' = <<>>
    /\ evictSig' = FALSE /\ urgent' = "empty" /\ burst' = FALSE
    /\ task' = NoTask
    /\ sessions' = sessions + 1
    /\ got' = {} /\ confirmed' = FALSE
    /\ from' = cursor /\ upto' = 0 /\ faulted' = FALSE
    /\ UNCHANGED log /\ UNCHANGED cursor

\* hello carries the sequence of the last message the client received, if any.
Hello ==
    /\ inb = "hello"
    /\ inb' = "active"
    /\ lastSeq' = cursor
    /\ UNCHANGED <<routed, task>>
    /\ UNCHANGED log /\ UNCHANGED queues /\ UNCHANGED client /\ UNCHANGED history

\* A command before hello: compat mode lets it through, without a last_seq.
\* (The enforcing modes answer with a rejection and stay in this state.)
CommandBeforeHello ==
    /\ inb = "hello"
    /\ inb' = "active"
    /\ UNCHANGED <<lastSeq, routed, task>>
    /\ UNCHANGED log /\ UNCHANGED queues /\ UNCHANGED client /\ UNCHANGED history

\* subscribe, first part: registry.subscribe.  From here on every fan-out
\* reaches the live channel.
SubscribeRoute ==
    /\ inb = "active"
    /\ inb' = "routed"
    /\ routed' = TRUE
    /\ from' = IF lastSeq = NoSeq THEN fanPos ELSE lastSeq
    /\ UNCHANGED <<lastSeq, task, upto, faulted>>
    /\ UNCHANGED log /\ UNCHANGED queues /\ UNCHANGED client

SpawnReplayConfirming ==
    /\ inb = "routed"
    /\ lastSeq # NoSeq
    /\ task' = [NoTask EXCEPT !.pc = "permit"]
    /\ inb' = "confirming"
    /\ UNCHANGED <<lastSeq, routed>>
    /\ UNCHANGED log /\ UNCHANGED queues /\ UNCHANGED client /\ UNCHANGED history

\* subscribe, second part, after presence.put: with a last_seq the replay task
\* is spawned and confirms by itself.
SpawnReplay ==
    /\ inb = "routed"
    /\ lastSeq # NoSeq
    /\ task' = [NoTask EXCEPT !.pc = "permit"]
    /\ inb' = "served"
    /\ UNCHANGED <<lastSeq, routed>>
    /\ UNCHANGED log /\ UNCHANGED queues /\ UNCHANGED client /\ UNCHANGED history

NoReplayNeeded ==
    /\ inb = "routed"
    /\ lastSeq = NoSeq
    /\ inb' = "confirming"
    /\ UNCHANGED <<lastSeq, routed, task>>
    /\ UNCHANGED log /\ UNCHANGED queues /\ UNCHANGED client /\ UNCHANGED history

ConfirmLiveUnbounded ==
    /\ inb = "confirming"
    /\ live' = Append(live, Confirm)
    /\ inb' = "served"
    /\ UNCHANGED <<lastSeq, routed, task, replay, evictSig, urgent, burst>>
    /\ UNCHANGED log /\ UNCHANGED client /\ UNCHANGED history

\* live_tx.send(confirm).await: the inbound loop waits for room.
ConfirmLive ==
    /\ inb = "confirming"
    /\ Len(live) < LiveCap
    /\ live' = Append(live, Confirm)
    /\ inb' = "served"
    /\ UNCHANGED <<lastSeq, routed, task, replay, evictSig, urgent, burst>>
    /\ UNCHANGED log /\ UNCHANGED client /\ UNCHANGED history

\* unsubscribe stops the routing; a replay task goes on.
Unsubscribe ==
    /\ inb = "served"
    /\ routed
    /\ routed' = FALSE
    /\ UNCHANGED <<inb, lastSeq, task>>
    /\ UNCHANGED log /\ UNCHANGED queues /\ UNCHANGED client /\ UNCHANGED history

\* The session is over for the client: its receivers are dropped, queued
\* frames are lost, and the replay task stops at its next send.
EndSession ==
    /\ inb' = "off"
    /\ routed' = FALSE
    /\ live' = <<>> /\ replay' = <<>>
    /\ evictSig' = FALSE /\ urgent' = "empty" /\ burst' = FALSE
    /\ task' = NoTask
    /\ UNCHANGED lastSeq
    /\ UNCHANGED log /\ UNCHANGED client /\ UNCHANGED history

\* The connection breaks or the client closes it.
Drop == inb # "off" /\ EndSession

-----------------------------------------------------------------------------
(* The replay task: the spawned block of dispatch_command and replay_since. *)

StartSeq == lastSeq + 1

Retained == first <= pub

\* The replay tasks of other connections take the last permit, or one of them
\* returns its own.  It matters while this task waits for one.
OthersTakePermits ==
    /\ task.pc = "permit" /\ ~busy /\ busy' = TRUE
    /\ UNCHANGED <<pub, first, fanPos, inb, lastSeq, routed, task>>
    /\ UNCHANGED queues /\ UNCHANGED client /\ UNCHANGED history

OthersReturnPermit ==
    /\ busy /\ busy' = FALSE
    /\ UNCHANGED <<pub, first, fanPos, inb, lastSeq, routed, task>>
    /\ UNCHANGED queues /\ UNCHANGED client /\ UNCHANGED history

AcquirePermit ==
    /\ task.pc = "permit" /\ ~busy
    /\ task' = [task EXCEPT !.pc = "info"]
    /\ UNCHANGED <<inb, lastSeq, routed>>
    /\ UNCHANGED log /\ UNCHANGED queues /\ UNCHANGED client /\ UNCHANGED history

OutsideWindow == (Retained /\ StartSeq < first) \/ (~Retained /\ lastSeq > 0)

\* stream.info(): the retention window is checked, once.
CheckWindow ==
    /\ task.pc = "info"
    /\ task' = IF OutsideWindow
               THEN [task EXCEPT !.pc = "window"]
               ELSE [task EXCEPT !.pc = "fetch", !.next = StartSeq]
    /\ UNCHANGED <<inb, lastSeq, routed>>
    /\ UNCHANGED log /\ UNCHANGED queues /\ UNCHANGED client /\ UNCHANGED history

\* What the ephemeral consumer delivers next: messages that expired since the
\* window was checked are passed over.
Fetchable == IF task.next < first THEN first ELSE task.next

\* A message is fetched and sent into the replay channel.
FetchMessage ==
    /\ task.pc = "fetch"
    /\ task.count < MaxReplay
    /\ Fetchable <= pub
    /\ Len(replay) < ReplayCap
    /\ replay' = Append(replay, Fetchable)
    /\ task' = [task EXCEPT !.next = Fetchable + 1, !.count = @ + 1]
    /\ UNCHANGED <<inb, lastSeq, routed, live, evictSig, urgent, burst>>
    /\ UNCHANGED log /\ UNCHANGED client /\ UNCHANGED history

\* Nothing more within REPLAY_FETCH_TIMEOUT: the replay is complete.
FetchEnds ==
    /\ task.pc = "fetch"
    /\ task.count < MaxReplay
    /\ Fetchable > pub
    /\ task' = [task EXCEPT !.pc = "confirm"]
    /\ upto' = pub
    /\ UNCHANGED <<inb, lastSeq, routed, from, faulted>>
    /\ UNCHANGED log /\ UNCHANGED queues /\ UNCHANGED client

\* A fetch, or the probe at the cap, fails or takes longer than
\* REPLAY_FETCH_TIMEOUT although there are messages: the loop breaks as if the
\* end of the log had been reached.
FetchFails ==
    /\ task.pc = "fetch"
    /\ Fetchable <= pub
    /\ task' = [task EXCEPT !.pc = "confirm"]
    /\ upto' = pub
    /\ faulted' = TRUE
    /\ UNCHANGED <<inb, lastSeq, routed, from>>
    /\ UNCHANGED log /\ UNCHANGED queues /\ UNCHANGED client

\* At the cap: is there one message more?
ProbeCap ==
    /\ task.pc = "fetch"
    /\ task.count = MaxReplay
    /\ task' = [task EXCEPT !.pc = IF Fetchable <= pub THEN "truncated" ELSE "confirm"]
    /\ upto' = pub
    /\ UNCHANGED <<inb, lastSeq, routed, from, faulted>>
    /\ UNCHANGED log /\ UNCHANGED queues /\ UNCHANGED client

\* get_stream, info, create_consumer or messages failed, or a message had no
\* sequence: the task still confirms.
JetStreamError ==
    /\ task.pc \in {"info", "fetch"}
    /\ task' = [task EXCEPT !.pc = "failed"]
    /\ faulted' = TRUE
    /\ UNCHANGED <<inb, lastSeq, routed, from, upto>>
    /\ UNCHANGED log /\ UNCHANGED queues /\ UNCHANGED client

\* replay_tx.send(confirm), after a success and after a JetStream error.
ConfirmReplay ==
    /\ task.pc \in {"confirm", "failed"}
    /\ Len(replay) < ReplayCap
    /\ replay' = Append(replay, Confirm)
    /\ task' = [task EXCEPT !.pc = "done"]
    /\ UNCHANGED <<inb, lastSeq, routed, live, evictSig, urgent, burst>>
    /\ UNCHANGED log /\ UNCHANGED client /\ UNCHANGED history

UrgentNotSent ==
    /\ task.pc \in {"window", "truncated"}
    /\ task' = [task EXCEPT !.pc = "done"]
    /\ UNCHANGED <<inb, lastSeq, routed>>
    /\ UNCHANGED log /\ UNCHANGED queues /\ UNCHANGED client /\ UNCHANGED history

\* urgent_close_tx.send(disconnect), capacity 1.
SendUrgent ==
    /\ task.pc \in {"window", "truncated"}
    /\ urgent = "empty"
    /\ urgent' = task.pc
    /\ task' = [task EXCEPT !.pc = "done"]
    /\ UNCHANGED <<inb, lastSeq, routed, live, replay, evictSig, burst>>
    /\ UNCHANGED log /\ UNCHANGED client /\ UNCHANGED history

-----------------------------------------------------------------------------
(* The outbound loop: a biased select over evict, urgent, replay, live. *)

Receive(x) ==
    IF x = Confirm
    THEN confirmed' = TRUE /\ UNCHANGED <<cursor, got, sessions>>
    ELSE cursor' = x /\ got' = got \cup {x} /\ UNCHANGED <<confirmed, sessions>>

Selecting == inb # "off" /\ ~burst

\* The disconnect frame is sent and the socket closed.
OutboundEvict == Selecting /\ evictSig /\ EndSession

OutboundUrgent == Selecting /\ ~evictSig /\ urgent # "empty" /\ EndSession

\* A replay frame is chosen by the select, which starts a burst.
OutboundReplay ==
    /\ Selecting /\ ~evictSig /\ urgent = "empty"
    /\ replay # <<>>
    /\ Receive(Head(replay))
    /\ replay' = Tail(replay)
    /\ burst' = TRUE
    /\ UNCHANGED <<inb, lastSeq, routed, task, live, evictSig, urgent>>
    /\ UNCHANGED log /\ UNCHANGED history

\* Up to OUTBOUND_REPLAY_BURST - 1 further frames without a select.
BurstNext ==
    /\ inb # "off" /\ burst
    /\ replay # <<>>
    /\ Receive(Head(replay))
    /\ replay' = Tail(replay)
    /\ UNCHANGED <<inb, lastSeq, routed, task, live, evictSig, urgent, burst>>
    /\ UNCHANGED log /\ UNCHANGED history

\* The burst is used up, or the replay channel was found empty.
BurstEnds ==
    /\ inb # "off" /\ burst
    /\ burst' = FALSE
    /\ UNCHANGED <<inb, lastSeq, routed, task, live, replay, evictSig, urgent>>
    /\ UNCHANGED log /\ UNCHANGED client /\ UNCHANGED history

OutboundLive ==
    /\ Selecting /\ ~evictSig /\ urgent = "empty"
    /\ replay = <<>>
    /\ live # <<>>
    /\ Receive(Head(live))
    /\ live' = Tail(live)
    /\ UNCHANGED <<inb, lastSeq, routed, task, replay, evictSig, urgent, burst>>
    /\ UNCHANGED log /\ UNCHANGED history

-----------------------------------------------------------------------------
Inbound == Hello \/ SubscribeRoute \/ SpawnReplay \/ NoReplayNeeded \/ ConfirmLive

ReplayTask == \/ AcquirePermit \/ CheckWindow \/ FetchMessage \/ FetchEnds
              \/ ProbeCap \/ ConfirmReplay \/ SendUrgent

Outbound == \/ OutboundEvict \/ OutboundUrgent \/ OutboundReplay
            \/ BurstNext \/ BurstEnds \/ OutboundLive

\* The bounds are used up: nothing is left to happen.
Done == inb = "off" /\ sessions = MaxSessions /\ UNCHANGED vars

Next ==
    \/ Publish \/ Expire \/ FanoutNext
    \/ Connect \/ CommandBeforeHello \/ Unsubscribe \/ Drop
    \/ FetchFails \/ JetStreamError
    \/ OthersTakePermits \/ OthersReturnPermit
    \/ Inbound \/ ReplayTask \/ Outbound
    \/ Done

Spec == Init /\ [][Next]_vars

\* The tasks of a session are scheduled by tokio, whose semaphore serves its
\* waiters in turn, and the client reads its socket; nothing is assumed of
\* publishers, faults, the network or the replays of other connections.
Fairness ==
    /\ WF_vars(Inbound) /\ WF_vars(ReplayTask) /\ WF_vars(Outbound)
    /\ SF_vars(AcquirePermit)

FairSpec == Spec /\ Fairness

-----------------------------------------------------------------------------
(* Properties *)

Queued(q, m) == \E i \in 1..Len(q) : q[i] = m

\* The replay task has m still ahead of it.
StillToReplay(m) ==
    \/ inb = "routed" /\ lastSeq # NoSeq
    \/ task.pc \in {"permit", "info", "window", "truncated"}
    \/ task.pc = "fetch" /\ task.next <= m

\* While a session is routed, and no JetStream call failed, every retained
\* message above its starting point that this node has fanned out is received,
\* queued, or still ahead of the replay task: between the log read by the
\* replay and the live routing there is no gap, whatever was published,
\* fanned out or expired while the subscribe and the replay were under way.
NoGap ==
    routed /\ ~faulted /\ urgent = "empty" =>
        \A m \in (from + 1)..fanPos :
            \/ m < first
            \/ m \in got
            \/ Queued(live, m) \/ Queued(replay, m)
            \/ StillToReplay(m)

\* What the replay had to deliver, up to the end of the log where it stopped.
CaughtUp == \A m \in (from + 1)..upto : m < first \/ m \in got

\* The client gets confirm_subscription only after every message the replay
\* owed it, unless a JetStream call failed.
ConfirmAfterReplay == confirmed /\ lastSeq # NoSeq /\ ~faulted => CaughtUp

\* Every subscribe is answered, confirmed or by the end of the session, whatever
\* channels fill up meanwhile, unless the replays of other connections hold the
\* permits for ever.
SubscribeAnswered ==
    []<>~busy => (inb = "routed" ~> confirmed \/ inb = "off")

\* "Message loss 0%, including reconnect replay": when a session has ended,
\* everything up to the sequence the client will present was received or has
\* expired (sessions whose replay hit a JetStream fault aside).
CursorIsComplete ==
    inb = "off" /\ ~faulted => \A m \in (from + 1)..cursor : m < first \/ m \in got

\* "No more messages or timeout - replay is complete" (replay_since): a
\* confirmed client has everything the log held.
ConfirmedIsComplete ==
    confirmed /\ lastSeq # NoSeq /\ task.pc = "done" => CaughtUp

-----------------------------------------------------------------------------
(* The inductive invariant *)

\* Where the inbound loop is, and what can be routed, spawned and queued there.
SessionState ==
    /\ inb \in {"off", "hello", "active"} =>
         ~routed /\ live = <<>> /\ (inb # "off" => ~confirmed)
    /\ inb \in {"routed", "confirming", "served"} =>
         from >= 0 /\ (lastSeq # NoSeq => from = lastSeq)
    /\ task.pc # "none" => inb = "served" /\ lastSeq # NoSeq
    /\ task.pc = "none" => replay = <<>> /\ urgent = "empty"
    /\ lastSeq # NoSeq => inb # "confirming" /\ ~Queued(live, Confirm)

\* The replay has delivered, or queued, or lost to retention, message m.
Replayed(m) == m < first \/ m \in got \/ Queued(replay, m)

\* Up to where the replay has got, and once it has ended, up to the end.
ReplayState ==
    ~faulted =>
        /\ task.pc # "failed"
        /\ task.pc = "fetch" => \A m \in (from + 1)..(task.next - 1) : Replayed(m)
        /\ task.pc = "confirm" \/ (task.pc = "done" /\ urgent = "empty") =>
             \A m \in (from + 1)..upto : Replayed(m)

\* The replay task confirms once, after all else it queued, and not when it
\* asks for an urgent disconnect.
ConfirmState ==
    /\ urgent # "empty" => task.pc = "done"
    /\ Queued(replay, Confirm) => task.pc = "done" /\ urgent = "empty"
    /\ inb # "off" /\ lastSeq # NoSeq /\ confirmed => task.pc = "done" /\ urgent = "empty"
    /\ \A i \in 1..(Len(replay) - 1) : replay[i] # Confirm

DeliveryInv ==
    /\ TypeOK /\ SessionState /\ ReplayState /\ ConfirmState
    /\ NoGap /\ ConfirmAfterReplay
=============================================================================
