------------------------------ MODULE Consumer ------------------------------
(***************************************************************************)
(* The fan-out consumer of one node (src/pubsub/nats.rs): the reconnecting *)
(* loop, the acks that background tasks send, the flush at shutdown, and   *)
(* what a crash or a restart does to all of it.  Whether the rate limiter  *)
(* lets a message through is the subject of RateLimiter; here it may say   *)
(* yes or no.  The JetStream durable consumer, with its max_ack_pending    *)
(* and its redelivery, is external and modelled from the configuration the *)
(* code gives it.                                                          *)
(***************************************************************************)
EXTENDS Naturals, Sequences, FiniteSets

CONSTANTS
    MaxAckPending,  \* max_ack_pending
    MaxInbox,       \* messages a pull leaves in the client at once
    MaxLog,         \* bound on the messages of the stream
    MaxFaults       \* bound on failures, crashes and shutdowns

ASSUME ConsumerAssumption ==
    /\ MaxAckPending \in Nat \ {0} /\ MaxInbox \in Nat \ {0}
    /\ MaxLog \in Nat /\ MaxFaults \in Nat

VARIABLES
    published,  \* the TURBOCABLE stream: sequence number of its last message
    named,      \* node_id is configured, not drawn at random by each process
    main,       \* run(): serving, flushing, or no process after a crash or an exit
    loop,       \* where fanout_loop is
    hand,       \* the message run_consumer works on, 0 for none
    inbox,      \* messages the client holds for messages.next()
    acks,       \* ack tasks spawned and not run yet, by message
    wire,       \* acks in the client's outbound buffer
    flushing,   \* what was in that buffer when flush was called
    next,       \* JetStream: first message the durable consumer has not sent
    unacked,    \* JetStream: sent, ack pending
    acked,      \* JetStream: acknowledged
    faults,     \* failures, crashes and shutdowns so far
    \* history
    handled,    \* messages process_nats_message has handled, in any process
    lost        \* messages that were sent and never reached it

stream == <<published, named>>
durableVars == <<next, unacked, acked>>
loopVars == <<loop, hand, inbox>>
ackVars == <<acks, wire, flushing>>
seen == <<handled, lost>>
consumerVars == <<stream, main, loopVars, ackVars, durableVars, faults, seen>>

Msgs == 1 .. published
Handled == {"passed", "dropped"}
Pulling == {"waiting", "received"} \cup Handled
Held(q) == {q[i] : i \in 1 .. Len(q)}

ConsumerTypeOK ==
    /\ published \in Nat /\ named \in BOOLEAN
    /\ main \in {"serving", "flushing", "crashed", "exited"}
    /\ loop \in Pulling \cup {"none", "starting", "backoff"}
    /\ hand \in Nat /\ (loop \in Pulling \ {"waiting"} => hand \in Msgs)
    /\ inbox \in Seq(Nat) /\ Held(inbox) \subseteq Msgs
    /\ acks \subseteq Msgs /\ wire \subseteq Msgs /\ flushing \subseteq Msgs
    /\ next \in 1 .. published + 1
    /\ unacked \subseteq Msgs /\ acked \subseteq Msgs
    /\ faults \in Nat
    /\ handled \subseteq Msgs /\ lost \subseteq Msgs

ConsumerInit ==
    /\ published = 0 /\ named \in BOOLEAN
    /\ main = "exited" /\ loop = "none" /\ hand = 0 /\ inbox = <<>>
    /\ acks = {} /\ wire = {} /\ flushing = {}
    /\ next = 1 /\ unacked = {} /\ acked = {}
    /\ faults = 0 /\ handled = {} /\ lost = {}

Up == main \in {"serving", "flushing"}
Fault == faults < MaxFaults /\ faults' = faults + 1

-----------------------------------------------------------------------------
(* The stream and the durable consumer *)

\* NatsConsumer::publish of some node, or a broadcast by Rails.
Publish ==
    /\ published < MaxLog /\ published' = published + 1
    /\ UNCHANGED <<named, main, loopVars, ackVars, durableVars, faults, seen>>

\* The command Message of a client; without NATS it is dropped.
ClientMessage == Up /\ loop # "none" /\ Publish

\* A pull is open and the client has room.
CanSend == Up /\ loop \in Pulling /\ Len(inbox) < MaxInbox

\* The next message goes out, within max_ack_pending.
Deliver ==
    /\ CanSend /\ next <= published /\ Cardinality(unacked) < MaxAckPending
    /\ inbox' = Append(inbox, next)
    /\ next' = next + 1 /\ unacked' = unacked \cup {next}
    /\ UNCHANGED <<stream, main, loop, hand, ackVars, acked, faults, seen>>

\* A message whose ack did not come within ack_wait goes out again.
Redeliver(m) ==
    /\ CanSend /\ m \in unacked
    /\ inbox' = Append(inbox, m)
    /\ UNCHANGED <<stream, main, loop, hand, ackVars, durableVars, faults, seen>>

AckArrives(m) ==
    /\ Up /\ m \in wire /\ wire' = wire \ {m}
    /\ unacked' = unacked \ {m} /\ acked' = acked \cup {m}
    /\ UNCHANGED <<stream, main, loopVars, acks, flushing, next, faults, seen>>

\* The connection breaks under an ack that the client was sending.
AckLost(m) ==
    /\ Up /\ m \in wire /\ Fault /\ wire' = wire \ {m}
    /\ UNCHANGED <<stream, main, loopVars, acks, flushing, durableVars, seen>>

-----------------------------------------------------------------------------
(* fanout_loop *)

LoopStep == Up /\ UNCHANGED <<stream, main, durableVars, flushing>>

\* run_consumer gets the stream, and gets or creates gw_{node_id}.
StartConsumer ==
    /\ LoopStep /\ loop = "starting" /\ loop' = "waiting"
    /\ UNCHANGED <<hand, inbox, acks, wire, faults, seen>>

StartFails ==
    /\ LoopStep /\ loop = "starting" /\ Fault /\ loop' = "backoff"
    /\ UNCHANGED <<hand, inbox, acks, wire, seen>>

\* messages.next() returned an error or None; what it still held is gone.
StreamEnds ==
    /\ LoopStep /\ loop = "waiting" /\ Fault /\ loop' = "backoff"
    /\ inbox' = <<>> /\ lost' = lost \cup Held(inbox)
    /\ UNCHANGED <<hand, acks, wire, handled>>

\* RECONNECT_DELAY is over.
Reconnect ==
    /\ LoopStep /\ loop = "backoff" /\ loop' = "starting"
    /\ UNCHANGED <<hand, inbox, acks, wire, faults, seen>>

ReceiveAndAck ==
    /\ LoopStep /\ loop = "waiting" /\ inbox # <<>>
    /\ loop' = "received" /\ hand' = Head(inbox) /\ inbox' = Tail(inbox)
    /\ acks' = acks \cup {Head(inbox)}
    /\ UNCHANGED <<wire, faults, seen>>

Receive ==
    /\ LoopStep /\ loop = "waiting" /\ inbox # <<>>
    /\ loop' = "received" /\ hand' = Head(inbox) /\ inbox' = Tail(inbox)
    /\ UNCHANGED <<acks, wire, faults, seen>>

\* process_nats_message: the message is fanned out, or dropped because the
\* bucket of its stream is empty.
Process ==
    /\ LoopStep /\ loop = "received" /\ loop' \in Handled
    /\ handled' = handled \cup {hand}
    /\ UNCHANGED <<hand, inbox, acks, wire, faults, lost>>

SpawnAckIfPassed ==
    /\ LoopStep /\ loop \in Handled /\ loop' = "waiting"
    /\ acks' = acks \cup (IF loop = "passed" THEN {hand} ELSE {}) /\ hand' = 0
    /\ UNCHANGED <<inbox, wire, faults, seen>>

\* Either way, the ack is left to a task of its own.
SpawnAck ==
    /\ LoopStep /\ loop \in Handled /\ loop' = "waiting"
    /\ acks' = acks \cup {hand} /\ hand' = 0
    /\ UNCHANGED <<inbox, wire, faults, seen>>

\* msg.ack() hands the ack to the client.
SendAck(m) ==
    /\ LoopStep /\ m \in acks
    /\ acks' = acks \ {m} /\ wire' = wire \cup {m}
    /\ UNCHANGED <<loopVars, faults, seen>>

-----------------------------------------------------------------------------
(* The process *)

\* connect and start_fanout_loop; if connect fails the gateway runs without
\* pub/sub for as long as it lives.
Connect ==
    \/ loop' = "starting" /\ UNCHANGED faults
    \/ loop' = "none" /\ Fault

BootAtEnd ==
    /\ ~Up /\ main' = "serving" /\ acks' = {} /\ flushing' = {}
    /\ Connect
    /\ \/ named /\ UNCHANGED durableVars
       \/ ~named /\ next' = published + 1 /\ unacked' = {} /\ acked' = {}
    /\ UNCHANGED <<stream, hand, inbox, wire, seen>>

\* init_nats_consumer.  A random node_id names a new durable consumer, which
\* starts with the first message.
Boot ==
    /\ ~Up /\ main' = "serving" /\ acks' = {} /\ flushing' = {}
    /\ Connect
    /\ \/ named /\ UNCHANGED durableVars
       \/ ~named /\ next' = 1 /\ unacked' = {} /\ acked' = {}
    /\ UNCHANGED <<stream, hand, inbox, wire, seen>>

\* What a process leaves that ends: its ack tasks are dropped.
Gone ==
    /\ loop' = "none" /\ hand' = 0 /\ inbox' = <<>> /\ wire' = {}
    /\ lost' = lost \cup Held(inbox) \cup (IF loop = "received" THEN {hand} ELSE {})
    /\ UNCHANGED <<stream, acks, flushing, durableVars, handled>>

Crash == Up /\ Fault /\ main' = "crashed" /\ Gone

\* run() is done draining and calls flush; every task still runs.
Flush ==
    /\ main = "serving" /\ Fault
    /\ main' = "flushing" /\ flushing' = wire
    /\ UNCHANGED <<stream, loopVars, acks, wire, durableVars, seen>>

\* flush returns, and so does run().
Exit ==
    /\ main = "flushing" /\ flushing \cap wire = {}
    /\ main' = "exited" /\ Gone /\ UNCHANGED faults

\* An error of flush is only logged.
FlushFails ==
    /\ main = "flushing"
    /\ main' = "exited" /\ Gone /\ UNCHANGED faults

ConsumerNext ==
    \/ Publish \/ ClientMessage \/ Deliver
    \/ \E m \in Msgs : Redeliver(m) \/ AckArrives(m) \/ AckLost(m) \/ SendAck(m)
    \/ StartConsumer \/ StartFails \/ StreamEnds \/ Reconnect
    \/ Receive \/ Process \/ SpawnAck
    \/ Boot \/ Crash \/ Flush \/ Exit \/ FlushFails

ConsumerSpec == ConsumerInit /\ [][ConsumerNext]_consumerVars

\* The tasks of a running process and its connection make progress, and NATS
\* sends what it may send.  Nothing is assumed of boots, stops and publishers.
FanoutLoop == StartConsumer \/ Reconnect \/ Receive \/ Process \/ SpawnAck

ConsumerFairness ==
    /\ WF_consumerVars(FanoutLoop)
    /\ WF_consumerVars(\E m \in Msgs : SendAck(m))
    /\ WF_consumerVars(\E m \in Msgs : AckArrives(m))
    /\ SF_consumerVars(Deliver)
    /\ SF_consumerVars(\E m \in Msgs : Redeliver(m))

ConsumerFairSpec == ConsumerSpec /\ ConsumerFairness

-----------------------------------------------------------------------------
(* Properties *)

\* The consumer implements the at-least-once feed: whatever crashes, lost acks,
\* redeliveries and restarts happen, a message is acknowledged only once it has
\* been handled, and what a configured node has settled stays settled.
Abstract == INSTANCE Feed WITH durable <- named, settled <- acked
ImplementsFeed == Abstract!FeedSpec

\* A later message is handled before an earlier one only if the earlier one was
\* lost on its way to run_consumer: redelivery alone reorders nothing.
GapOnlyIfLost == \A m \in handled : \A k \in 1 .. m - 1 : k \in handled \cup lost

\* A message of the stream is handled by this node, unless its process ends or
\* was started without NATS: neither max_ack_pending, nor rate-limited messages,
\* nor lost acks, nor the end of the message stream stop the feed.
EveryMessageHandled ==
    \A m \in 1 .. MaxLog : m \in Msgs ~> m \in handled \/ ~Up \/ loop = "none"

-----------------------------------------------------------------------------
(* The inductive invariant *)

\* Only what has been handled is on its way to being settled.
AckAfterHandling ==
    /\ acks \subseteq handled /\ wire \subseteq handled /\ acked \subseteq handled
    /\ loop \in Handled => hand \in handled

InHand == IF loop = "received" THEN {hand} ELSE {}

\* Of the queue q and then n, n + 1, ..., each comes behind all that precedes it
\* in the stream, except what is in B.
Ordered(B, q, n) ==
    /\ \A i \in 1 .. Len(q) : 1 .. q[i] - 1 \subseteq B \cup {q[j] : j \in 1 .. i - 1}
    /\ 1 .. n - 1 \subseteq B \cup Held(q)

\* Whatever comes next, all that precedes it has been seen to or comes first.
InOrder ==
    /\ \A k \in InHand : 1 .. k - 1 \subseteq handled \cup lost
    /\ Ordered(handled \cup lost \cup InHand, inbox, next)
    /\ \A m \in unacked : m < next

ConsumerInv ==
    /\ ConsumerTypeOK
    /\ ~Up => loop = "none" /\ wire = {}
    /\ loop \notin Pulling => inbox = <<>>
    /\ AckAfterHandling
    /\ InOrder
    /\ GapOnlyIfLost
=============================================================================
