--------------------------- MODULE LifecycleProofs --------------------------
(***************************************************************************)
(* Proofs about Lifecycle, for every set of connections and all channel    *)
(* capacities.                                                             *)
(***************************************************************************)
EXTENDS Lifecycle, TLAPS

USE LifecycleCaps

USE DEF task, chan, out, history

\* A peer that stalls, reads again or breaks touches only its socket.
LEMMA PeersKeep ==
    ASSUME LifecycleInv, NEW c \in Conns,
           Stall(c) \/ Unstall(c) \/ Break(c)
    PROVE  LifecycleInv'
  <1> USE DEF LifecycleInv, TypeOK, MainPC, HandlerPC, TaskPC, OutboundPC, Endings
  <1>1. CASE Stall(c) \/ Unstall(c) \/ Break(c)
    <2>1. TypeOK'
      BY <1>1 DEF Stall, Unstall, Break, Peer
    <2>2. DrainState' /\ DrainedBeforeClose'
      BY <1>1 DEF Stall, Unstall, Break, Peer, DrainState, DrainedBeforeClose
    <2>3. EvictState' /\ NoSpuriousEviction'
      BY <1>1 DEF Stall, Unstall, Break, Peer, EvictState, NoSpuriousEviction
    <2> QED
      BY <2>1, <2>2, <2>3
  <1> QED
    BY <1>1

\* The handler starts the loops, fills the live channel and leaves.
LEMMA HandlersKeep ==
    ASSUME LifecycleInv, NEW c \in Conns,
           Upgrade(c) \/ GiveUp(c) \/ Refuse(c) \/ Refused(c) \/
           Accept(c) \/ StartLoops(c) \/ Sent(c) \/ Ping(c) \/
           Answer(c) \/ PingFails(c) \/ AnswerFails(c) \/
           InboundClosed(c) \/ PeerCloses(c) \/ InboundShutdown(c) \/
           DropSenders(c) \/ Return(c) \/ SpawnReplay(c) \/
           Deregister(c)
    PROVE  LifecycleInv'
  <1> USE DEF LifecycleInv, TypeOK, MainPC, HandlerPC, TaskPC, OutboundPC, Endings
  <1>1. CASE Accept(c)
    <2>1. TypeOK'
      BY <1>1 DEF Accept
    <2>2. DrainState' /\ DrainedBeforeClose'
      BY <1>1 DEF Accept, DrainState, DrainedBeforeClose
    <2>3. EvictState' /\ NoSpuriousEviction'
      BY <1>1 DEF Accept, EvictState, NoSpuriousEviction
    <2> QED
      BY <2>1, <2>2, <2>3
  <1>2. CASE StartLoops(c)
    <2>1. TypeOK'
      BY <1>2 DEF StartLoops
    <2>2. DrainState' /\ DrainedBeforeClose'
      BY <1>2 DEF StartLoops, DrainState, DrainedBeforeClose
    <2>3. EvictState' /\ NoSpuriousEviction'
      BY <1>2 DEF StartLoops, EvictState, NoSpuriousEviction
    <2> QED
      BY <2>1, <2>2, <2>3
  <1>3. CASE Sent(c)
    <2>1. TypeOK'
      BY <1>3 DEF Sent
    <2>2. DrainState' /\ DrainedBeforeClose'
      BY <1>3 DEF Sent, DrainState, DrainedBeforeClose
    <2>3. EvictState' /\ NoSpuriousEviction'
      BY <1>3 DEF Sent, EvictState, NoSpuriousEviction
    <2> QED
      BY <2>1, <2>2, <2>3
  <1>4. CASE Ping(c) \/ Answer(c) \/ PingFails(c) \/ AnswerFails(c)
    <2>1. TypeOK'
      BY <1>4 DEF Ping, Answer, PingFails, AnswerFails, Goto
    <2>2. DrainState' /\ DrainedBeforeClose'
      BY <1>4 DEF Ping, Answer, PingFails, AnswerFails, Goto, DrainState, DrainedBeforeClose
    <2>3. EvictState' /\ NoSpuriousEviction'
      BY <1>4 DEF Ping, Answer, PingFails, AnswerFails, Goto, EvictState, NoSpuriousEviction
    <2> QED
      BY <2>1, <2>2, <2>3
  <1>5. CASE InboundClosed(c) \/ PeerCloses(c) \/ InboundShutdown(c)
    <2>1. TypeOK'
      BY <1>5 DEF InboundClosed, PeerCloses, InboundShutdown, Goto
    <2>2. DrainState' /\ DrainedBeforeClose'
      BY <1>5 DEF InboundClosed, PeerCloses, InboundShutdown, Goto, DrainState, DrainedBeforeClose
    <2>3. EvictState' /\ NoSpuriousEviction'
      BY <1>5 DEF InboundClosed, PeerCloses, InboundShutdown, Goto, EvictState, NoSpuriousEviction
    <2> QED
      BY <2>1, <2>2, <2>3
  <1>6. CASE DropSenders(c) \/ Return(c)
    <2>1. TypeOK'
      BY <1>6 DEF DropSenders, Return, Goto
    <2>2. DrainState' /\ DrainedBeforeClose'
      BY <1>6 DEF DropSenders, Return, Goto, DrainState, DrainedBeforeClose
    <2>3. EvictState' /\ NoSpuriousEviction'
      BY <1>6 DEF DropSenders, Return, Goto, EvictState, NoSpuriousEviction
    <2> QED
      BY <2>1, <2>2, <2>3
  <1>7. CASE SpawnReplay(c) \/ Deregister(c)
    <2>1. TypeOK'
      BY <1>7 DEF SpawnReplay, Deregister, Unregister
    <2>2. DrainState' /\ DrainedBeforeClose'
      BY <1>7 DEF SpawnReplay, Deregister, Unregister, DrainState, DrainedBeforeClose
    <2>3. EvictState' /\ NoSpuriousEviction'
      BY <1>7 DEF SpawnReplay, Deregister, Unregister, EvictState, NoSpuriousEviction
    <2> QED
      BY <2>1, <2>2, <2>3
  <1>8. CASE Upgrade(c) \/ GiveUp(c) \/ Refuse(c) \/ Refused(c)
    <2>1. TypeOK'
      BY <1>8 DEF Upgrade, GiveUp, Refuse, Refused, Goto
    <2>2. DrainState' /\ DrainedBeforeClose'
      BY <1>8 DEF Upgrade, GiveUp, Refuse, Refused, Goto, DrainState, DrainedBeforeClose
    <2>3. EvictState' /\ NoSpuriousEviction'
      BY <1>8 DEF Upgrade, GiveUp, Refuse, Refused, Goto, EvictState, NoSpuriousEviction
    <2> QED
      BY <2>1, <2>2, <2>3
  <1> QED
    BY <1>1, <1>2, <1>3, <1>4, <1>5, <1>6, <1>7, <1>8

\* The replay task and the fan-out only add frames; the fan-out alone signals.
LEMMA SendersKeep ==
    ASSUME LifecycleInv, NEW c \in Conns,
           Fetched(c) \/ FetchOver(c) \/ ReplaySendFails(c) \/
           ReplaySent(c) \/ UrgentSent(c) \/ FanoutSend(c) \/
           FanoutEvict(c)
    PROVE  LifecycleInv'
  <1> USE DEF LifecycleInv, TypeOK, MainPC, HandlerPC, TaskPC, OutboundPC, Endings
  <1>1. CASE Fetched(c) \/ FetchOver(c) \/ ReplaySendFails(c)
    <2>1. TypeOK'
      BY <1>1 DEF Fetched, FetchOver, ReplaySendFails, ReplayGoto
    <2>2. DrainState' /\ DrainedBeforeClose'
      BY <1>1 DEF Fetched, FetchOver, ReplaySendFails, ReplayGoto, DrainState, DrainedBeforeClose
    <2>3. EvictState' /\ NoSpuriousEviction'
      BY <1>1 DEF Fetched, FetchOver, ReplaySendFails, ReplayGoto, EvictState, NoSpuriousEviction
    <2> QED
      BY <2>1, <2>2, <2>3
  <1>2. CASE ReplaySent(c)
    <2>1. TypeOK'
      BY <1>2 DEF ReplaySent, RxOpen
    <2>2. DrainState' /\ DrainedBeforeClose'
      BY <1>2 DEF ReplaySent, RxOpen, DrainState, DrainedBeforeClose
    <2>3. EvictState' /\ NoSpuriousEviction'
      BY <1>2 DEF ReplaySent, RxOpen, EvictState, NoSpuriousEviction
    <2> QED
      BY <2>1, <2>2, <2>3
  <1>3. CASE UrgentSent(c)
    <2>1. TypeOK'
      BY <1>3 DEF UrgentSent
    <2>2. DrainState' /\ DrainedBeforeClose'
      BY <1>3 DEF UrgentSent, DrainState, DrainedBeforeClose
    <2>3. EvictState' /\ NoSpuriousEviction'
      BY <1>3 DEF UrgentSent, EvictState, NoSpuriousEviction
    <2> QED
      BY <2>1, <2>2, <2>3
  <1>4. CASE FanoutSend(c)
    <2>1. TypeOK'
      BY <1>4 DEF FanoutSend, CanSend, RxOpen
    <2>2. DrainState' /\ DrainedBeforeClose'
      BY <1>4 DEF FanoutSend, CanSend, RxOpen, DrainState, DrainedBeforeClose
    <2>3. EvictState' /\ NoSpuriousEviction'
      BY <1>4 DEF FanoutSend, CanSend, RxOpen, EvictState, NoSpuriousEviction
    <2> QED
      BY <2>1, <2>2, <2>3
  <1>5. CASE FanoutEvict(c)
    <2>1. TypeOK'
      BY <1>5 DEF FanoutEvict, SignalEvict, Routed, CanSend, RxOpen
    <2>2. DrainState' /\ DrainedBeforeClose'
      BY <1>5 DEF FanoutEvict, SignalEvict, Routed, CanSend, RxOpen, DrainState, DrainedBeforeClose
    <2>3. EvictState' /\ NoSpuriousEviction'
      BY <1>5 DEF FanoutEvict, SignalEvict, Routed, CanSend, RxOpen, EvictState, NoSpuriousEviction
    <2> QED
      BY <2>1, <2>2, <2>3
  <1> QED
    BY <1>1, <1>2, <1>3, <1>4, <1>5

\* The branches of the select; OnShutdown opens the account of what is owed.
LEMMA SelectsKeep ==
    ASSUME LifecycleInv, NEW c \in Conns,
           OnEvict(c) \/ OnEvictGone(c) \/ OnUrgent(c) \/
           OnUrgentGone(c) \/ OnShutdown(c) \/ OnReplay(c) \/
           BurstNext(c) \/ BurstEnds(c) \/ OnLive(c) \/ OnLiveGone(c)
    PROVE  LifecycleInv'
  <1> USE DEF LifecycleInv, TypeOK, MainPC, HandlerPC, TaskPC, OutboundPC, Endings
  <1>1. CASE OnEvict(c)
    <2>1. TypeOK'
      BY <1>1 DEF OnEvict, AtEvict, Closing
    <2>2. DrainState' /\ DrainedBeforeClose'
      BY <1>1 DEF OnEvict, AtEvict, Closing, DrainState, DrainedBeforeClose
    <2>3. EvictState' /\ NoSpuriousEviction'
      BY <1>1 DEF OnEvict, AtEvict, Closing, EvictState, NoSpuriousEviction
    <2> QED
      BY <2>1, <2>2, <2>3
  <1>2. CASE OnEvictGone(c)
    <2>1. TypeOK'
      BY <1>2 DEF OnEvictGone, AtEvict
    <2>2. DrainState' /\ DrainedBeforeClose'
      BY <1>2 DEF OnEvictGone, AtEvict, DrainState, DrainedBeforeClose
    <2>3. EvictState' /\ NoSpuriousEviction'
      BY <1>2 DEF OnEvictGone, AtEvict, EvictState, NoSpuriousEviction
    <2> QED
      BY <2>1, <2>2, <2>3
  <1>3. CASE OnUrgent(c)
    <2>1. TypeOK'
      BY <1>3 DEF OnUrgent, AtUrgent, Closing
    <2>2. DrainState' /\ DrainedBeforeClose'
      BY <1>3 DEF OnUrgent, AtUrgent, Closing, DrainState, DrainedBeforeClose
    <2>3. EvictState' /\ NoSpuriousEviction'
      BY <1>3 DEF OnUrgent, AtUrgent, Closing, EvictState, NoSpuriousEviction
    <2> QED
      BY <2>1, <2>2, <2>3
  <1>4. CASE OnUrgentGone(c)
    <2>1. TypeOK'
      BY <1>4 DEF OnUrgentGone, AtUrgent
    <2>2. DrainState' /\ DrainedBeforeClose'
      BY <1>4 DEF OnUrgentGone, AtUrgent, DrainState, DrainedBeforeClose
    <2>3. EvictState' /\ NoSpuriousEviction'
      BY <1>4 DEF OnUrgentGone, AtUrgent, EvictState, NoSpuriousEviction
    <2> QED
      BY <2>1, <2>2, <2>3
  <1>5. CASE OnShutdown(c)
    <2>1. TypeOK'
      BY <1>5 DEF OnShutdown, AtShutdown
    <2>2. DrainState' /\ DrainedBeforeClose'
      BY <1>5 DEF OnShutdown, AtShutdown, DrainState, DrainedBeforeClose
    <2>3. EvictState' /\ NoSpuriousEviction'
      BY <1>5 DEF OnShutdown, AtShutdown, EvictState, NoSpuriousEviction
    <2> QED
      BY <2>1, <2>2, <2>3
  <1>6. CASE OnReplay(c)
    <2>1. TypeOK'
      BY <1>6 DEF OnReplay, AtReplay, AtShutdown
    <2>2. DrainState' /\ DrainedBeforeClose'
      BY <1>6 DEF OnReplay, AtReplay, AtShutdown, DrainState, DrainedBeforeClose
    <2>3. EvictState' /\ NoSpuriousEviction'
      BY <1>6 DEF OnReplay, AtReplay, AtShutdown, EvictState, NoSpuriousEviction
    <2> QED
      BY <2>1, <2>2, <2>3
  <1>7. CASE BurstNext(c)
    <2>1. TypeOK'
      BY <1>7 DEF BurstNext
    <2>2. DrainState' /\ DrainedBeforeClose'
      BY <1>7 DEF BurstNext, DrainState, DrainedBeforeClose
    <2>3. EvictState' /\ NoSpuriousEviction'
      BY <1>7 DEF BurstNext, EvictState, NoSpuriousEviction
    <2> QED
      BY <2>1, <2>2, <2>3
  <1>8. CASE BurstEnds(c)
    <2>1. TypeOK'
      BY <1>8 DEF BurstEnds
    <2>2. DrainState' /\ DrainedBeforeClose'
      BY <1>8 DEF BurstEnds, DrainState, DrainedBeforeClose
    <2>3. EvictState' /\ NoSpuriousEviction'
      BY <1>8 DEF BurstEnds, EvictState, NoSpuriousEviction
    <2> QED
      BY <2>1, <2>2, <2>3
  <1>9. CASE OnLive(c)
    <2>1. TypeOK'
      BY <1>9 DEF OnLive, AtLive, AtReplay, AtShutdown
    <2>2. DrainState' /\ DrainedBeforeClose'
      BY <1>9 DEF OnLive, AtLive, AtReplay, AtShutdown, DrainState, DrainedBeforeClose
    <2>3. EvictState' /\ NoSpuriousEviction'
      BY <1>9 DEF OnLive, AtLive, AtReplay, AtShutdown, EvictState, NoSpuriousEviction
    <2> QED
      BY <2>1, <2>2, <2>3
  <1>10. CASE OnLiveGone(c)
    <2>1. TypeOK'
      BY <1>10 DEF OnLiveGone, AtLive, AtReplay, AtShutdown, Closing
    <2>2. DrainState' /\ DrainedBeforeClose'
      BY <1>10 DEF OnLiveGone, AtLive, AtReplay, AtShutdown, Closing, DrainState, DrainedBeforeClose
    <2>3. EvictState' /\ NoSpuriousEviction'
      BY <1>10 DEF OnLiveGone, AtLive, AtReplay, AtShutdown, Closing, EvictState, NoSpuriousEviction
    <2> QED
      BY <2>1, <2>2, <2>3
  <1> QED
    BY <1>1, <1>2, <1>3, <1>4, <1>5, <1>6, <1>7, <1>8, <1>9, <1>10

\* The drain takes the replay channel first, then the live one, and closes last.
LEMMA WritesKeep ==
    ASSUME LifecycleInv, NEW c \in Conns,
           Written(c) \/ WriteFails(c) \/ Closed(c) \/ DrainReplay(c)
           \/ DrainTurn(c) \/ DrainLive(c) \/ DrainDone(c)
    PROVE  LifecycleInv'
  <1> USE DEF LifecycleInv, TypeOK, MainPC, HandlerPC, TaskPC, OutboundPC, Endings
  <1>1. CASE Written(c)
    <2>1. TypeOK'
      BY <1>1 DEF Written, Writing, Resume
    <2>2. DrainState' /\ DrainedBeforeClose'
      BY <1>1 DEF Written, Writing, Resume, DrainState, DrainedBeforeClose
    <2>3. EvictState' /\ NoSpuriousEviction'
      BY <1>1 DEF Written, Writing, Resume, EvictState, NoSpuriousEviction
    <2> QED
      BY <2>1, <2>2, <2>3
  <1>2. CASE WriteFails(c)
    <2>1. TypeOK'
      BY <1>2 DEF WriteFails, Writing, Resume, Closing
    <2>2. DrainState' /\ DrainedBeforeClose'
      BY <1>2 DEF WriteFails, Writing, Resume, Closing, DrainState, DrainedBeforeClose
    <2>3. EvictState' /\ NoSpuriousEviction'
      BY <1>2 DEF WriteFails, Writing, Resume, Closing, EvictState, NoSpuriousEviction
    <2> QED
      BY <2>1, <2>2, <2>3
  <1>3. CASE Closed(c)
    <2>1. TypeOK'
      BY <1>3 DEF Closed
    <2>2. DrainState' /\ DrainedBeforeClose'
      BY <1>3 DEF Closed, DrainState, DrainedBeforeClose
    <2>3. EvictState' /\ NoSpuriousEviction'
      BY <1>3 DEF Closed, EvictState, NoSpuriousEviction
    <2> QED
      BY <2>1, <2>2, <2>3
  <1>4. CASE DrainReplay(c)
    <2>1. TypeOK'
      BY <1>4 DEF DrainReplay, OneLess
    <2>2. DrainState' /\ DrainedBeforeClose'
      BY <1>4 DEF DrainReplay, OneLess, DrainState, DrainedBeforeClose
    <2>3. EvictState' /\ NoSpuriousEviction'
      BY <1>4 DEF DrainReplay, OneLess, EvictState, NoSpuriousEviction
    <2> QED
      BY <2>1, <2>2, <2>3
  <1>5. CASE DrainTurn(c)
    <2>1. TypeOK'
      BY <1>5 DEF DrainTurn, ReplayDrained
    <2>2. DrainState' /\ DrainedBeforeClose'
      BY <1>5 DEF DrainTurn, ReplayDrained, DrainState, DrainedBeforeClose
    <2>3. EvictState' /\ NoSpuriousEviction'
      BY <1>5 DEF DrainTurn, ReplayDrained, EvictState, NoSpuriousEviction
    <2> QED
      BY <2>1, <2>2, <2>3
  <1>6. CASE DrainLive(c)
    <2>1. TypeOK'
      BY <1>6 DEF DrainLive, OneLess
    <2>2. DrainState' /\ DrainedBeforeClose'
      BY <1>6 DEF DrainLive, OneLess, DrainState, DrainedBeforeClose
    <2>3. EvictState' /\ NoSpuriousEviction'
      BY <1>6 DEF DrainLive, OneLess, EvictState, NoSpuriousEviction
    <2> QED
      BY <2>1, <2>2, <2>3
  <1>7. CASE DrainDone(c)
    <2>1. TypeOK'
      BY <1>7 DEF DrainDone, Closing
    <2>2. DrainState' /\ DrainedBeforeClose'
      BY <1>7 DEF DrainDone, Closing, DrainState, DrainedBeforeClose
    <2>3. EvictState' /\ NoSpuriousEviction'
      BY <1>7 DEF DrainDone, Closing, EvictState, NoSpuriousEviction
    <2> QED
      BY <2>1, <2>2, <2>3
  <1> QED
    BY <1>1, <1>2, <1>3, <1>4, <1>5, <1>6, <1>7

\* server::run only moves on, and takes every task with it when it returns.
LEMMA MainKeep ==
    ASSUME LifecycleInv, Signal \/ Main \/ Flush
    PROVE  LifecycleInv'
  <1> USE DEF LifecycleInv, TypeOK, MainPC
  <1>1. CASE Signal \/ Main
    BY <1>1 DEF Signal, Main, ServeEnds, PollZero, PollDeadline, MainGoto, DrainState,
                EvictState, DrainedBeforeClose, NoSpuriousEviction
  <1>2. CASE Flush
    <2>1. 0 \in 0..LiveCap /\ 0 \in 0..ReplayCap /\ 0 \in 0..(Burst - 1)
      OBVIOUS
    <2>2. TypeOK'
      BY <1>2, <2>1 DEF Flush, HandlerPC, TaskPC, OutboundPC
    <2>3. DrainState' /\ EvictState' /\ DrainedBeforeClose' /\ NoSpuriousEviction'
      BY <1>2 DEF Flush, DrainState, EvictState, DrainedBeforeClose, NoSpuriousEviction
    <2> QED
      BY <2>2, <2>3
  <1> QED
    BY <1>1, <1>2

\* The invariant of the shutdown drain and of the eviction channel.
THEOREM LifecycleInvariance == Spec => []LifecycleInv
  <1>1. Init => LifecycleInv
    <2> SUFFICES ASSUME Init PROVE LifecycleInv
      OBVIOUS
    <2>1. 0 \in 0..LiveCap /\ 0 \in 0..ReplayCap /\ 0 \in 0..(Burst - 1)
      OBVIOUS
    <2>2. TypeOK
      BY <2>1 DEF Init, TypeOK, MainPC, HandlerPC, TaskPC, OutboundPC, Endings
    <2> QED
      BY <2>2 DEF Init, LifecycleInv, DrainState, EvictState, DrainedBeforeClose,
                  NoSpuriousEviction
  <1>2. LifecycleInv /\ [Next]_vars => LifecycleInv'
    <2> SUFFICES ASSUME LifecycleInv, [Next]_vars PROVE LifecycleInv'
      OBVIOUS
    <2>1. CASE Signal \/ Main \/ Flush
      BY <2>1, MainKeep
    <2>2. CASE UNCHANGED vars
      BY <2>2 DEF vars, LifecycleInv, TypeOK, DrainState, EvictState,
                  DrainedBeforeClose, NoSpuriousEviction
    <2>3. ASSUME NEW c \in Conns, Stall(c) \/ Unstall(c) \/ Break(c)
          PROVE  LifecycleInv'
      BY <2>3, PeersKeep
    <2>4. ASSUME NEW c \in Conns,
                 \/ Upgrade(c) \/ GiveUp(c) \/ Ping(c) \/ Answer(c)
                 \/ Sent(c) \/ SpawnReplay(c) \/ PeerCloses(c)
                 \/ InboundShutdown(c) \/ Handler(c)
          PROVE  LifecycleInv'
      BY <2>4, HandlersKeep DEF Handler
    <2>5. ASSUME NEW c \in Conns,
                 Fetched(c) \/ FetchOver(c) \/ ReplayTask(c) \/ Fanout(c)
          PROVE  LifecycleInv'
      BY <2>5, SendersKeep DEF ReplayTask, Fanout
    <2>6. ASSUME NEW c \in Conns, Outbound(c) \/ WriteEnds(c)
          PROVE  LifecycleInv'
      BY <2>6, SelectsKeep, WritesKeep, HandlersKeep DEF Outbound, WriteEnds
    <2> QED
      BY <2>1, <2>2, <2>3, <2>4, <2>5, <2>6 DEF Next, Exited
  <1> QED
    BY <1>1, <1>2, PTL DEF Spec

\* The close frame follows every frame queued when the shutdown was seen.
THEOREM CloseAfterDrain == Spec => []DrainedBeforeClose
  <1>1. LifecycleInv => DrainedBeforeClose
    BY DEF LifecycleInv
  <1> QED
    BY <1>1, LifecycleInvariance, PTL

\* Nobody is told of an eviction that did not happen.
THEOREM EvictionIsReal == Spec => []NoSpuriousEviction
  <1>1. LifecycleInv => NoSpuriousEviction
    BY DEF LifecycleInv
  <1> QED
    BY <1>1, LifecycleInvariance, PTL

\* Types and bounds: no channel of a connection exceeds its capacity, whoever
\* sends into it (the bounded channels handle_socket creates).
THEOREM LifecycleTypes == Spec => []TypeOK
  <1>1. LifecycleInv => TypeOK
    BY DEF LifecycleInv
  <1> QED
    BY <1>1, LifecycleInvariance, PTL

=============================================================================
