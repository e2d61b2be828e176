----------------------------- MODULE Lifecycle ------------------------------
(***************************************************************************)
(* The tasks of a connection and the shutdown of the node: handle_socket   *)
(* with its inbound loop, the outbound loop and its biased select, a       *)
(* replay task in flight, the fan-out that may evict, and server::run from *)
(* the signal to the exit of the process.  The question is who ends, in    *)
(* which order, and with which frames written.                             *)
(*                                                                         *)
(* axum::serve has stopped when the HTTP requests under way are answered,  *)
(* and flush returns when NATS has answered; neither has a timeout, so     *)
(* both are left to the environment.                                       *)
(*                                                                         *)
(* Frames are counted, not told apart.  A channel is closed when its last  *)
(* sender is dropped: the registry holds a live sender and the evict       *)
(* sender, the handler one of each other kind, a replay task a replay and  *)
(* an urgent sender.  At most one replay task of a connection runs at a    *)
(* time.                                                                   *)
(*                                                                         *)
(* ShutdownMissedLate, PingFailsIgnored, DeregisterAfterOutbound,          *)
(* SignalEvictLost, LiveUnbounded, OnEvictGoneCloses, DrainReplaySkipped   *)
(* and NoDeadline are mutated forms of the definition that follows each.   *)
(***************************************************************************)
EXTENDS Integers, FiniteSets

CONSTANTS
    Conns,      \* connections
    LiveCap,    \* ws_channel_capacity
    ReplayCap,  \* ws_replay_channel_capacity
    Burst       \* OUTBOUND_REPLAY_BURST

ASSUME LifecycleCaps == {LiveCap, ReplayCap, Burst} \subseteq Nat \ {0}

VARIABLES
    main,       \* server::run
    sock,       \* sock[c]: can the peer be written to?
    hs,         \* hs[c]: where handle_socket of c is
    registered, \* connections in the registry
    rtask,      \* rtask[c]: the replay task of c
    live, replay,       \* live[c], replay[c]: frames queued
    evictSig, urgent,   \* the capacity-1 channels hold something
    ob,         \* ob[c]: where the outbound loop of c is
    evictOpen, urgentOpen,  \* its flags
    burst,      \* frames left of the current replay burst
    ending,     \* ending[c]: how the outbound loop closed the socket
    \* history
    evicted,    \* connections the fan-out evicted
    owedReplay, owedLive    \* frames queued when the shutdown was seen and not
                            \* taken since, as long as the outbound loop runs

task == <<hs, registered, rtask>>
chan == <<live, replay, evictSig, urgent>>
out == <<ob, evictOpen, urgentOpen, burst, ending>>
history == <<evicted, owedReplay, owedLive>>
vars == <<main, sock, hs, registered, rtask, live, replay, evictSig, urgent,
          ob, evictOpen, urgentOpen, burst, ending, evicted,
          owedReplay, owedLive>>

MainPC == {"serving", "stopping", "draining", "flushing", "exited"}
HandlerPC == {"request", "upgrading", "refusing", "starting", "inbound", "pinging",
              "answering", "leaving", "deregistered", "awaiting", "returned"}
TaskPC == {"none", "fetching", "sending", "confirming", "disconnecting"}
OutboundPC == {"unborn", "select", "write_live", "write_replay", "burst",
               "drain_replay", "drain_replay_write", "drain_live",
               "drain_live_write", "closing", "ended"}
Endings == {"open", "evicted", "urgent", "going_away", "plain"}

TypeOK ==
    /\ main \in MainPC
    /\ sock \in [Conns -> {"ok", "stalled", "broken"}]
    /\ hs \in [Conns -> HandlerPC]
    /\ registered \subseteq Conns /\ rtask \in [Conns -> TaskPC]
    /\ live \in [Conns -> 0..LiveCap] /\ replay \in [Conns -> 0..ReplayCap]
    /\ evictSig \in [Conns -> BOOLEAN] /\ urgent \in [Conns -> BOOLEAN]
    /\ ob \in [Conns -> OutboundPC]
    /\ evictOpen \in [Conns -> BOOLEAN] /\ urgentOpen \in [Conns -> BOOLEAN]
    /\ burst \in [Conns -> 0..(Burst - 1)]
    /\ ending \in [Conns -> Endings]
    /\ evicted \subseteq Conns
    /\ owedReplay \in [Conns -> 0..ReplayCap] /\ owedLive \in [Conns -> 0..LiveCap]

Init ==
    /\ main = "serving"
    /\ sock = [c \in Conns |-> "ok"]
    /\ hs = [c \in Conns |-> "request"]
    /\ registered = {} /\ rtask = [c \in Conns |-> "none"]
    /\ live = [c \in Conns |-> 0] /\ replay = [c \in Conns |-> 0]
    /\ evictSig = [c \in Conns |-> FALSE] /\ urgent = [c \in Conns |-> FALSE]
    /\ ob = [c \in Conns |-> "unborn"]
    /\ evictOpen = [c \in Conns |-> TRUE] /\ urgentOpen = [c \in Conns |-> TRUE]
    /\ burst = [c \in Conns |-> 0]
    /\ ending = [c \in Conns |-> "open"]
    /\ evicted = {}
    /\ owedReplay = [c \in Conns |-> 0] /\ owedLive = [c \in Conns |-> 0]

\* When run returns, the runtime is dropped and every task with it.
Alive == main # "exited"

ShutdownMissedLate == main = "draining"

\* shutdown_rx.changed(): late receivers see the value too.
Shutdown == main \in {"draining", "flushing"}

\* The receivers are dropped when the outbound loop returns.
RxOpen(c) == ob[c] # "ended"

EvictClosed(c) == c \notin registered
OwnSendersDropped(c) == hs[c] \in {"awaiting", "returned"}
UrgentClosed(c) == OwnSendersDropped(c) /\ rtask[c] = "none"
ReplayClosed(c) == OwnSendersDropped(c) /\ rtask[c] = "none"
LiveClosed(c) == OwnSendersDropped(c) /\ c \notin registered

-----------------------------------------------------------------------------
(* The peer: it may stop reading for a while, or go away. *)

Peer(c, from, to) ==
    /\ Alive /\ sock[c] \in from
    /\ sock' = [sock EXCEPT ![c] = to]
    /\ UNCHANGED main /\ UNCHANGED task /\ UNCHANGED chan /\ UNCHANGED out /\ UNCHANGED history

Stall(c) == Peer(c, {"ok"}, "stalled")
Unstall(c) == Peer(c, {"stalled"}, "ok")
Break(c) == Peer(c, {"ok", "stalled"}, "broken")

-----------------------------------------------------------------------------
(* handle_socket and inbound_loop *)

\* A step of the handler that only moves it.
Goto(c, from, to) ==
    /\ Alive /\ hs[c] \in from
    /\ hs' = [hs EXCEPT ![c] = to]
    /\ UNCHANGED <<sock, registered, rtask>>
    /\ UNCHANGED main /\ UNCHANGED chan /\ UNCHANGED out /\ UNCHANGED history

\* The HTTP request is answered and handle_socket spawned (ws_upgrade), or the
\* client, which may not even have connected, gives up.
Upgrade(c) == Goto(c, {"request"}, "upgrading")
GiveUp(c) == Goto(c, {"request"}, "returned")

\* The limiter or authentication refuses the socket: a close frame is written.
Refuse(c) == Goto(c, {"upgrading"}, "refusing")
Refused(c) == sock[c] # "stalled" /\ Goto(c, {"refusing"}, "returned")

\* Limiter and authentication passed: channels, register, welcome frame.
Accept(c) ==
    /\ Alive /\ hs[c] = "upgrading"
    /\ hs' = [hs EXCEPT ![c] = "starting"]
    /\ registered' = registered \cup {c}
    /\ live' = [live EXCEPT ![c] = 1]
    /\ UNCHANGED <<sock, rtask, replay, evictSig, urgent>>
    /\ UNCHANGED main /\ UNCHANGED out /\ UNCHANGED history

\* The outbound task is spawned and the inbound loop entered.
StartLoops(c) ==
    /\ Alive /\ hs[c] = "starting"
    /\ hs' = [hs EXCEPT ![c] = "inbound"]
    /\ ob' = [ob EXCEPT ![c] = "select"]
    /\ UNCHANGED <<sock, registered, rtask, evictOpen, urgentOpen, burst, ending>>
    /\ UNCHANGED main /\ UNCHANGED chan /\ UNCHANGED history

\* ping_interval ticks, or a client frame wants an answer: live_tx.send waits
\* for room, and neither the socket nor the shutdown is looked at meanwhile.
Ping(c) == Goto(c, {"inbound"}, "pinging")
Answer(c) == Goto(c, {"inbound"}, "answering")

Sent(c) ==
    /\ Alive /\ hs[c] \in {"pinging", "answering"}
    /\ RxOpen(c) /\ live[c] < LiveCap
    /\ live' = [live EXCEPT ![c] = @ + 1]
    /\ hs' = [hs EXCEPT ![c] = "inbound"]
    /\ UNCHANGED <<sock, registered, rtask, replay, evictSig, urgent>>
    /\ UNCHANGED main /\ UNCHANGED out /\ UNCHANGED history

PingFailsIgnored(c) == ~RxOpen(c) /\ Goto(c, {"pinging"}, "inbound")

\* The receiver is gone: a ping that fails ends the inbound loop, an answer
\* that fails is forgotten.
PingFails(c) == ~RxOpen(c) /\ Goto(c, {"pinging"}, "leaving")
AnswerFails(c) == ~RxOpen(c) /\ Goto(c, {"answering"}, "inbound")

\* A subscribe with a last_seq spawns a replay task.
SpawnReplay(c) ==
    /\ Alive /\ hs[c] = "inbound" /\ rtask[c] = "none"
    /\ rtask' = [rtask EXCEPT ![c] = "fetching"]
    /\ UNCHANGED <<sock, hs, registered>>
    /\ UNCHANGED main /\ UNCHANGED chan /\ UNCHANGED out /\ UNCHANGED history

\* The read failed, or the peer closed the socket or answered our close.
InboundClosed(c) == sock[c] = "broken" /\ Goto(c, {"inbound"}, "leaving")
PeerCloses(c) == Goto(c, {"inbound"}, "leaving")

InboundShutdown(c) == Shutdown /\ Goto(c, {"inbound"}, "leaving")

\* In "leaving" the inbound loop awaits presence.delete, which the NATS client
\* ends by a timeout; then registry.deregister, connections_active.dec and
\* limiter.release.
Unregister(c) ==
    /\ Alive /\ hs[c] = "leaving"
    /\ registered' = registered \ {c}
    /\ hs' = [hs EXCEPT ![c] = "deregistered"]
    /\ UNCHANGED <<sock, rtask>>
    /\ UNCHANGED main /\ UNCHANGED chan /\ UNCHANGED out /\ UNCHANGED history

DeregisterAfterOutbound(c) == ~RxOpen(c) /\ Unregister(c)

Deregister(c) == Unregister(c)

\* drop(live_tx), drop(replay_tx), drop(urgent_close_tx).
DropSenders(c) == Goto(c, {"deregistered"}, "awaiting")

\* outbound_handle.await is over.
Return(c) == ~RxOpen(c) /\ Goto(c, {"awaiting"}, "returned")

-----------------------------------------------------------------------------
(* The replay task.  Its sends wait for room and fail once the receivers   *)
(* are gone.                                                               *)

ReplayGoto(c, from, to) ==
    /\ Alive /\ rtask[c] \in from
    /\ rtask' = [rtask EXCEPT ![c] = to]
    /\ UNCHANGED <<sock, hs, registered>>
    /\ UNCHANGED main /\ UNCHANGED chan /\ UNCHANGED out /\ UNCHANGED history

\* A message is fetched; or the log is at its end, or JetStream failed; or the
\* window is exceeded or the cap reached.
Fetched(c) == ReplayGoto(c, {"fetching"}, "sending")
FetchOver(c) == \E to \in {"confirming", "disconnecting"} : ReplayGoto(c, {"fetching"}, to)

ReplaySent(c) ==
    /\ Alive /\ rtask[c] \in {"sending", "confirming"}
    /\ RxOpen(c) /\ replay[c] < ReplayCap
    /\ replay' = [replay EXCEPT ![c] = @ + 1]
    /\ rtask' = [rtask EXCEPT ![c] = IF @ = "sending" THEN "fetching" ELSE "none"]
    /\ UNCHANGED <<sock, hs, registered, live, evictSig, urgent>>
    /\ UNCHANGED main /\ UNCHANGED out /\ UNCHANGED history

UrgentSent(c) ==
    /\ Alive /\ rtask[c] = "disconnecting"
    /\ RxOpen(c) /\ ~urgent[c]
    /\ urgent' = [urgent EXCEPT ![c] = TRUE]
    /\ rtask' = [rtask EXCEPT ![c] = "none"]
    /\ UNCHANGED <<sock, hs, registered, live, replay, evictSig>>
    /\ UNCHANGED main /\ UNCHANGED out /\ UNCHANGED history

ReplaySendFails(c) ==
    ~RxOpen(c) /\ ReplayGoto(c, {"sending", "confirming", "disconnecting"}, "none")

-----------------------------------------------------------------------------
(* The fan-out, to a connection that subscribed: its inbound loop runs. *)

Routed(c) == c \in registered /\ ob[c] # "unborn"

LiveUnbounded(c) == RxOpen(c)

CanSend(c) == RxOpen(c) /\ live[c] < LiveCap

FanoutSend(c) ==
    /\ Alive /\ Routed(c) /\ CanSend(c)
    /\ live' = [live EXCEPT ![c] = @ + 1]
    /\ UNCHANGED <<sock, replay, evictSig, urgent>>
    /\ UNCHANGED main /\ UNCHANGED task /\ UNCHANGED out /\ UNCHANGED history

SignalEvictLost(c) == UNCHANGED evictSig

\* evict_tx.try_send(()); the result is ignored.
SignalEvict(c) == evictSig' = [evictSig EXCEPT ![c] = RxOpen(c)]

\* Full or closed: the connection is signalled and deregistered.
FanoutEvict(c) ==
    /\ Alive /\ Routed(c) /\ ~CanSend(c)
    /\ SignalEvict(c)
    /\ registered' = registered \ {c}
    /\ evicted' = evicted \cup {c}
    /\ UNCHANGED <<sock, hs, rtask, live, replay, urgent, owedReplay, owedLive>>
    /\ UNCHANGED main /\ UNCHANGED out

-----------------------------------------------------------------------------
(* outbound_loop: the branches of the biased select in their order.  A     *)
(* branch is taken only when the ones above it are pending.                *)

EvictReady(c) == evictOpen[c] /\ (evictSig[c] \/ EvictClosed(c))
UrgentReady(c) == urgentOpen[c] /\ (urgent[c] \/ UrgentClosed(c))
ReplayReady(c) == replay[c] > 0 \/ ReplayClosed(c)

AtEvict(c) == Alive /\ ob[c] = "select" /\ evictOpen[c]
AtUrgent(c) == Alive /\ ob[c] = "select" /\ ~EvictReady(c) /\ urgentOpen[c]
AtShutdown(c) == Alive /\ ob[c] = "select" /\ ~EvictReady(c) /\ ~UrgentReady(c)
AtReplay(c) == AtShutdown(c) /\ ~Shutdown
AtLive(c) == AtReplay(c) /\ ~ReplayReady(c)

Closing(c, kind) ==
    /\ ob' = [ob EXCEPT ![c] = "closing"]
    /\ ending' = [ending EXCEPT ![c] = kind]

OnEvict(c) ==
    /\ AtEvict(c) /\ evictSig[c]
    /\ Closing(c, "evicted")
    /\ evictSig' = [evictSig EXCEPT ![c] = FALSE]
    /\ UNCHANGED <<sock, live, replay, urgent, evictOpen, urgentOpen, burst>>
    /\ UNCHANGED main /\ UNCHANGED task /\ UNCHANGED history

OnEvictGoneCloses(c) ==
    /\ AtEvict(c) /\ ~evictSig[c] /\ EvictClosed(c)
    /\ Closing(c, "evicted")
    /\ UNCHANGED <<sock, evictOpen, urgentOpen, burst>>
    /\ UNCHANGED main /\ UNCHANGED task /\ UNCHANGED chan /\ UNCHANGED history

\* evict_tx was dropped with the registry entry.
OnEvictGone(c) ==
    /\ AtEvict(c) /\ ~evictSig[c] /\ EvictClosed(c)
    /\ evictOpen' = [evictOpen EXCEPT ![c] = FALSE]
    /\ UNCHANGED <<sock, ob, urgentOpen, burst, ending>>
    /\ UNCHANGED main /\ UNCHANGED task /\ UNCHANGED chan /\ UNCHANGED history

OnUrgent(c) ==
    /\ AtUrgent(c) /\ urgent[c]
    /\ Closing(c, "urgent")
    /\ urgent' = [urgent EXCEPT ![c] = FALSE]
    /\ UNCHANGED <<sock, live, replay, evictSig, evictOpen, urgentOpen, burst>>
    /\ UNCHANGED main /\ UNCHANGED task /\ UNCHANGED history

OnUrgentGone(c) ==
    /\ AtUrgent(c) /\ ~urgent[c] /\ UrgentClosed(c)
    /\ urgentOpen' = [urgentOpen EXCEPT ![c] = FALSE]
    /\ UNCHANGED <<sock, ob, evictOpen, burst, ending>>
    /\ UNCHANGED main /\ UNCHANGED task /\ UNCHANGED chan /\ UNCHANGED history

OnShutdown(c) ==
    /\ AtShutdown(c) /\ Shutdown
    /\ ob' = [ob EXCEPT ![c] = "drain_replay"]
    /\ owedReplay' = [owedReplay EXCEPT ![c] = replay[c]]
    /\ owedLive' = [owedLive EXCEPT ![c] = live[c]]
    /\ UNCHANGED <<sock, evictOpen, urgentOpen, burst, ending, evicted>>
    /\ UNCHANGED main /\ UNCHANGED task /\ UNCHANGED chan

\* A replay frame is taken, which starts a burst.  When the channel is closed
\* and empty this branch is ready too and its body does nothing: the loop
\* goes round, and the live branch below it is not reached.
OnReplay(c) ==
    /\ AtReplay(c) /\ replay[c] > 0
    /\ replay' = [replay EXCEPT ![c] = @ - 1]
    /\ ob' = [ob EXCEPT ![c] = "write_replay"]
    /\ burst' = [burst EXCEPT ![c] = Burst - 1]
    /\ UNCHANGED <<sock, live, evictSig, urgent, evictOpen, urgentOpen, ending>>
    /\ UNCHANGED main /\ UNCHANGED task /\ UNCHANGED history

\* try_recv while the burst lasts, without a select in between.
BurstNext(c) ==
    /\ Alive /\ ob[c] = "burst" /\ burst[c] > 0 /\ replay[c] > 0
    /\ replay' = [replay EXCEPT ![c] = @ - 1]
    /\ ob' = [ob EXCEPT ![c] = "write_replay"]
    /\ burst' = [burst EXCEPT ![c] = @ - 1]
    /\ UNCHANGED <<sock, live, evictSig, urgent, evictOpen, urgentOpen, ending>>
    /\ UNCHANGED main /\ UNCHANGED task /\ UNCHANGED history

BurstEnds(c) ==
    /\ Alive /\ ob[c] = "burst" /\ (burst[c] = 0 \/ replay[c] = 0)
    /\ ob' = [ob EXCEPT ![c] = "select"]
    /\ burst' = [burst EXCEPT ![c] = 0]
    /\ UNCHANGED <<sock, evictOpen, urgentOpen, ending>>
    /\ UNCHANGED main /\ UNCHANGED task /\ UNCHANGED chan /\ UNCHANGED history

OnLive(c) ==
    /\ AtLive(c) /\ live[c] > 0
    /\ live' = [live EXCEPT ![c] = @ - 1]
    /\ ob' = [ob EXCEPT ![c] = "write_live"]
    /\ UNCHANGED <<sock, replay, evictSig, urgent, evictOpen, urgentOpen, burst, ending>>
    /\ UNCHANGED main /\ UNCHANGED task /\ UNCHANGED history

\* The live channel is closed: the way out when the peer is gone.
OnLiveGone(c) ==
    /\ AtLive(c) /\ live[c] = 0 /\ LiveClosed(c)
    /\ Closing(c, "plain")
    /\ UNCHANGED <<sock, evictOpen, urgentOpen, burst>>
    /\ UNCHANGED main /\ UNCHANGED task /\ UNCHANGED chan /\ UNCHANGED history

\* Once sender.send(..).await is over, the place after each place of writing.
Resume == [write_live |-> "select", write_replay |-> "burst",
           drain_replay_write |-> "drain_replay", drain_live_write |-> "drain_live"]

Writing(c) == Alive /\ ob[c] \in DOMAIN Resume /\ sock[c] # "stalled"

Written(c) ==
    /\ Writing(c) /\ sock[c] = "ok"
    /\ ob' = [ob EXCEPT ![c] = Resume[@]]
    /\ UNCHANGED <<sock, evictOpen, urgentOpen, burst, ending>>
    /\ UNCHANGED main /\ UNCHANGED task /\ UNCHANGED chan /\ UNCHANGED history

\* A failed send leaves the loop; in the drain the sends that follow fail too.
WriteFails(c) ==
    /\ Writing(c) /\ sock[c] = "broken"
    /\ Closing(c, "plain")
    /\ UNCHANGED <<sock, evictOpen, urgentOpen, burst>>
    /\ UNCHANGED main /\ UNCHANGED task /\ UNCHANGED chan /\ UNCHANGED history

OneLess(n) == IF n > 0 THEN n - 1 ELSE 0

\* while let Ok(payload) = replay_rx.try_recv()
DrainReplay(c) ==
    /\ Alive /\ ob[c] = "drain_replay" /\ replay[c] > 0
    /\ replay' = [replay EXCEPT ![c] = @ - 1]
    /\ owedReplay' = [owedReplay EXCEPT ![c] = OneLess(@)]
    /\ ob' = [ob EXCEPT ![c] = "drain_replay_write"]
    /\ UNCHANGED <<sock, live, evictSig, urgent, evictOpen, urgentOpen, burst, ending, evicted, owedLive>>
    /\ UNCHANGED main /\ UNCHANGED task

DrainReplaySkipped(c) == ob[c] = "drain_replay"

ReplayDrained(c) == ob[c] = "drain_replay" /\ replay[c] = 0

DrainTurn(c) ==
    /\ Alive /\ ReplayDrained(c)
    /\ ob' = [ob EXCEPT ![c] = "drain_live"]
    /\ UNCHANGED <<sock, evictOpen, urgentOpen, burst, ending>>
    /\ UNCHANGED main /\ UNCHANGED task /\ UNCHANGED chan /\ UNCHANGED history

\* while let Ok(payload) = live_rx.try_recv()
DrainLive(c) ==
    /\ Alive /\ ob[c] = "drain_live" /\ live[c] > 0
    /\ live' = [live EXCEPT ![c] = @ - 1]
    /\ owedLive' = [owedLive EXCEPT ![c] = OneLess(@)]
    /\ ob' = [ob EXCEPT ![c] = "drain_live_write"]
    /\ UNCHANGED <<sock, replay, evictSig, urgent, evictOpen, urgentOpen, burst, ending, evicted, owedReplay>>
    /\ UNCHANGED main /\ UNCHANGED task

\* Both channels were found empty: the close frame with code 1001.
DrainDone(c) ==
    /\ Alive /\ ob[c] = "drain_live" /\ live[c] = 0
    /\ Closing(c, "going_away")
    /\ UNCHANGED <<sock, evictOpen, urgentOpen, burst>>
    /\ UNCHANGED main /\ UNCHANGED task /\ UNCHANGED chan /\ UNCHANGED history

\* The last frame and the close are written, or fail; the loop returns and
\* its receivers and local variables are dropped.
Closed(c) ==
    /\ Alive /\ ob[c] = "closing" /\ sock[c] # "stalled"
    /\ ob' = [ob EXCEPT ![c] = "ended"]
    /\ live' = [live EXCEPT ![c] = 0]
    /\ replay' = [replay EXCEPT ![c] = 0]
    /\ evictSig' = [evictSig EXCEPT ![c] = FALSE]
    /\ urgent' = [urgent EXCEPT ![c] = FALSE]
    /\ evictOpen' = [evictOpen EXCEPT ![c] = FALSE]
    /\ urgentOpen' = [urgentOpen EXCEPT ![c] = FALSE]
    /\ burst' = [burst EXCEPT ![c] = 0]
    /\ owedReplay' = [owedReplay EXCEPT ![c] = 0]
    /\ owedLive' = [owedLive EXCEPT ![c] = 0]
    /\ UNCHANGED <<sock, ending, evicted>>
    /\ UNCHANGED main /\ UNCHANGED task

-----------------------------------------------------------------------------
(* server::run, from the signal on. *)

MainGoto(from, to) ==
    /\ main = from
    /\ main' = to
    /\ UNCHANGED sock
    /\ UNCHANGED task /\ UNCHANGED chan /\ UNCHANGED out /\ UNCHANGED history

\* SIGTERM: the listener stops.
Signal == MainGoto("serving", "stopping")

\* axum::serve returns once no request is under way; shutdown_tx.send(true).
\* Upgraded sockets may not have got to their loops, or to the registry.
ServeEnds ==
    /\ \A c \in Conns : hs[c] # "request"
    /\ MainGoto("stopping", "draining")

\* connection_count() = 0
PollZero == registered = {} /\ MainGoto("draining", "flushing")

NoDeadline == FALSE

\* DRAIN_TIMEOUT_SECS are over.
DeadlinePassed == main = "draining"

PollDeadline == DeadlinePassed /\ registered # {} /\ MainGoto("draining", "flushing")

\* consumer.flush() is over, with or without an error; run returns, and the
\* runtime is dropped with every task, channel and socket.
Flush ==
    /\ main = "flushing" /\ main' = "exited"
    /\ sock' = [c \in Conns |-> "broken"]
    /\ hs' = [c \in Conns |-> "returned"]
    /\ registered' = {} /\ rtask' = [c \in Conns |-> "none"]
    /\ live' = [c \in Conns |-> 0] /\ replay' = [c \in Conns |-> 0]
    /\ evictSig' = [c \in Conns |-> FALSE] /\ urgent' = [c \in Conns |-> FALSE]
    /\ ob' = [c \in Conns |-> "ended"]
    /\ evictOpen' = [c \in Conns |-> FALSE] /\ urgentOpen' = [c \in Conns |-> FALSE]
    /\ burst' = [c \in Conns |-> 0]
    /\ UNCHANGED ending /\ UNCHANGED history

Exited == main = "exited" /\ UNCHANGED vars

-----------------------------------------------------------------------------
Handler(c) ==
    \/ Accept(c) \/ Refuse(c) \/ StartLoops(c) \/ PingFails(c) \/ AnswerFails(c)
    \/ InboundClosed(c) \/ Deregister(c) \/ DropSenders(c) \/ Return(c)

ReplayTask(c) == ReplaySent(c) \/ UrgentSent(c) \/ ReplaySendFails(c)

Fanout(c) == FanoutSend(c) \/ FanoutEvict(c)

Outbound(c) ==
    \/ OnEvict(c) \/ OnEvictGone(c) \/ OnUrgent(c) \/ OnUrgentGone(c) \/ OnShutdown(c)
    \/ OnReplay(c) \/ BurstNext(c) \/ BurstEnds(c) \/ OnLive(c) \/ OnLiveGone(c)
    \/ DrainReplay(c) \/ DrainTurn(c) \/ DrainLive(c) \/ DrainDone(c)

WriteEnds(c) == Written(c) \/ WriteFails(c) \/ Closed(c) \/ Refused(c)

Main == ServeEnds \/ PollZero \/ PollDeadline

Next ==
    \/ Signal \/ Main \/ Flush \/ Exited
    \/ \E c \in Conns :
        \/ Stall(c) \/ Unstall(c) \/ Break(c)
        \/ Upgrade(c) \/ GiveUp(c) \/ Ping(c) \/ Answer(c) \/ Sent(c) \/ SpawnReplay(c)
        \/ PeerCloses(c) \/ InboundShutdown(c)
        \/ Fetched(c) \/ FetchOver(c)
        \/ Handler(c) \/ ReplayTask(c) \/ Fanout(c) \/ Outbound(c) \/ WriteEnds(c)

Spec == Init /\ [][Next]_vars

\* tokio polls every task that can go on, and its timers fire.  The select of
\* the inbound loop polls in random order, so a branch that is ready again and
\* again (the ping, the shutdown) is taken; a sender waiting for room is
\* queued before later ones; a replay delivers a bounded number of messages.
\* A write ends if the peer reads again and again or breaks.  Nothing is assumed
\* of the signal, the clients' requests and commands, publishers, NATS answering
\* the flush, or the peer: it may stop reading for good, and need not answer a
\* close.
Fairness ==
    /\ WF_vars(Main)
    /\ \A c \in Conns :
        /\ WF_vars(Handler(c)) /\ WF_vars(ReplayTask(c)) /\ WF_vars(Outbound(c))
        /\ SF_vars(Ping(c)) /\ SF_vars(InboundShutdown(c)) /\ SF_vars(Sent(c))
        /\ SF_vars(FetchOver(c)) /\ SF_vars(WriteEnds(c))

FairSpec == Spec /\ Fairness

-----------------------------------------------------------------------------
(* Properties *)

\* The close frame with code 1001 is written only after every frame that was
\* queued for the client when its outbound loop saw the shutdown, whatever
\* replay tasks and the fan-out add during the drain.
DrainedBeforeClose ==
    \A c \in Conns : ending[c] = "going_away" => owedReplay[c] = 0 /\ owedLive[c] = 0

\* A client is told backpressure_reconnect_required only when the fan-out
\* evicted it: a handler that deregisters, at shutdown or when the client
\* leaves, drops the same evict sender and must not look like an eviction.
NoSpuriousEviction == \A c \in Conns : ending[c] = "evicted" => c \in evicted

\* Once the signal was received and no request is under way the drain comes to
\* its end: a client that does not read, a handler that waits for room in a
\* channel and an outbound loop that never returns cannot hold it up.
DrainEnds ==
    (main = "stopping" /\ \A c \in Conns : hs[c] # "request") ~> main = "flushing"

\* Every socket sees the shutdown, also one upgraded when it was sent or after
\* the drain has ended: its handler, in whatever send it waits, and its
\* outbound loop, whatever replay and fan-out still queue, return as long as the
\* process lives (it may wait for NATS) and the peer does not stop reading.
ShutdownReachesAll ==
    \A c \in Conns :
        []<>(sock[c] # "stalled") => (Shutdown ~> (hs[c] = "returned" \/ ~Alive))

\* A connection whose peer is gone is deregistered and its slot released, also
\* when its handler waits in a send, its outbound loop in a write, a replay task
\* still holds its channels, or the fan-out has evicted it meanwhile.
PeerGoneFreesSlot ==
    \A c \in Conns :
        (sock[c] = "broken" /\ c \in registered)
            ~> (hs[c] \in {"deregistered", "awaiting", "returned"} \/ ~Alive)

\* An inbound loop whose outbound loop has closed the socket comes to its end
\* even if the peer never answers the close.
OutboundGoneIsNoticed ==
    \A c \in Conns : ob[c] = "ended" ~> (OwnSendersDropped(c) \/ ~Alive)

\* An evicted connection is closed, so that the client reconnects: it is not
\* left open and unrouted, receiving pings and no messages.  A client that
\* stops reading for good is not told: its outbound loop stays in the write.
EvictionCloses ==
    \A c \in Conns :
        []<>(sock[c] # "stalled") => (c \in evicted ~> (ob[c] = "ended" \/ ~Alive))

\* "send_task.abort()", then "connection closed" (the design of handle_socket):
\* when the inbound loop is over the outbound task ends and the handler
\* returns.  In the code it waits for an outbound loop that may never end.
HandlerReturns == \A c \in Conns : hs[c] = "leaving" ~> (hs[c] = "returned" \/ ~Alive)

-----------------------------------------------------------------------------
(* The inductive invariant behind DrainedBeforeClose and                   *)
(* NoSpuriousEviction.                                                     *)

\* What is owed is still queued, the replay channel first; an outbound loop
\* that announced the shutdown drains no more, and is never started again.
DrainState ==
    \A c \in Conns :
        /\ hs[c] \in {"request", "upgrading", "starting"} => ob[c] = "unborn"
        /\ ob[c] \in {"drain_replay", "drain_replay_write"} =>
             owedReplay[c] <= replay[c] /\ owedLive[c] <= live[c]
        /\ ob[c] \in {"drain_live", "drain_live_write"} =>
             owedReplay[c] = 0 /\ owedLive[c] <= live[c]
        /\ ending[c] = "going_away" => ob[c] \in {"closing", "ended"}

\* Only the fan-out puts a signal into an evict channel.
EvictState == \A c \in Conns : evictSig[c] => c \in evicted

LifecycleInv == TypeOK /\ DrainState /\ EvictState /\ DrainedBeforeClose /\ NoSpuriousEviction
=============================================================================
