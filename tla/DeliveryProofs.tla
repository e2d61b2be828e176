--------------------------- MODULE DeliveryProofs ----------------------------
(***************************************************************************)
(* Proofs about Delivery, for any number of messages and sessions and any  *)
(* capacities of the channels and of a replay.                             *)
(***************************************************************************)
EXTENDS Delivery, TLAPS

USE BoundsAssumption, CapsAssumption
USE DEF log, queues, client, history, NoSeq, Confirm, Seqs, Frames

-----------------------------------------------------------------------------
(* Channels *)

\* What a channel holds after a frame is sent into it.
LEMMA QueuedAppend ==
    ASSUME NEW q \in Seq(Frames), NEW x \in Frames
    PROVE  /\ Append(q, x) \in Seq(Frames) /\ Len(Append(q, x)) = Len(q) + 1
           /\ \A i \in 1..Len(q) : Append(q, x)[i] = q[i]
           /\ \A m : Queued(Append(q, x), m) <=> Queued(q, m) \/ m = x
  <1>1. /\ Append(q, x) \in Seq(Frames) /\ Len(Append(q, x)) = Len(q) + 1
        /\ Append(q, x)[Len(q) + 1] = x /\ Len(q) \in Nat
        /\ \A i \in 1..Len(q) : Append(q, x)[i] = q[i]
    OBVIOUS
  <1>2. ASSUME NEW m, Queued(Append(q, x), m) PROVE Queued(q, m) \/ m = x
    BY <1>1, <1>2 DEF Queued
  <1>3. ASSUME NEW m, Queued(q, m) \/ m = x PROVE Queued(Append(q, x), m)
    <2>1. CASE m = x
      <3>1. Len(q) + 1 \in 1..Len(Append(q, x))
        BY <1>1
      <3> QED
        BY <1>1, <2>1, <3>1 DEF Queued
    <2>2. CASE Queued(q, m)
      <3>1. PICK i \in 1..Len(q) : q[i] = m
        BY <2>2 DEF Queued
      <3>2. i \in 1..Len(Append(q, x)) /\ Append(q, x)[i] = m
        BY <1>1, <3>1
      <3> QED
        BY <3>2 DEF Queued
    <2> QED
      BY <1>3, <2>1, <2>2
  <1> QED
    BY <1>1, <1>2, <1>3

\* What a channel holds besides the frame that is received from it.
LEMMA QueuedTail ==
    ASSUME NEW q \in Seq(Frames), q # <<>>
    PROVE  /\ Tail(q) \in Seq(Frames) /\ Len(Tail(q)) = Len(q) - 1
           /\ Len(q) \in Nat \ {0} /\ Head(q) = q[1] /\ Head(q) \in Frames
           /\ \A i \in 1..(Len(q) - 1) : Tail(q)[i] = q[i + 1]
           /\ \A m : Queued(q, m) <=> m = Head(q) \/ Queued(Tail(q), m)
  <1>1. /\ Tail(q) \in Seq(Frames) /\ Len(Tail(q)) = Len(q) - 1
        /\ Len(q) \in Nat \ {0} /\ Head(q) = q[1] /\ Head(q) \in Frames
        /\ \A i \in 1..(Len(q) - 1) : Tail(q)[i] = q[i + 1]
    OBVIOUS
  <1>2. ASSUME NEW m, Queued(q, m) PROVE m = Head(q) \/ Queued(Tail(q), m)
    <2>1. PICK i \in 1..Len(q) : q[i] = m
      BY <1>2 DEF Queued
    <2>2. CASE i # 1
      <3>1. i - 1 \in 1..Len(Tail(q)) /\ Tail(q)[i - 1] = m
        BY <1>1, <2>1, <2>2
      <3> QED
        BY <3>1 DEF Queued
    <2> QED
      BY <1>1, <2>1, <2>2
  <1>3. ASSUME NEW m, m = Head(q) \/ Queued(Tail(q), m) PROVE Queued(q, m)
    <2>1. CASE m = Head(q)
      <3>1. 1 \in 1..Len(q)
        BY <1>1
      <3> QED
        BY <1>1, <2>1, <3>1 DEF Queued
    <2>2. CASE Queued(Tail(q), m)
      <3>1. PICK i \in 1..Len(Tail(q)) : Tail(q)[i] = m
        BY <2>2 DEF Queued
      <3>2. i + 1 \in 1..Len(q) /\ q[i + 1] = m
        BY <1>1, <3>1
      <3> QED
        BY <3>2 DEF Queued
    <2> QED
      BY <1>3, <2>1, <2>2
  <1> QED
    BY <1>1, <1>2, <1>3

\* An empty channel holds nothing.
LEMMA QueuedEmpty == \A m : ~Queued(<<>>, m)
  BY DEF Queued

-----------------------------------------------------------------------------
(* JetStream *)

\* Publishers, retention and the replays of other connections: what is retained
\* only shrinks, and the rest of the session stays as it is.
LEMMA LogInv ==
    ASSUME DeliveryInv,
           Publish \/ Expire \/ OthersTakePermits \/ OthersReturnPermit \/ UNCHANGED vars
    PROVE  DeliveryInv'
  <1> USE DEF DeliveryInv
  <1>1. /\ UNCHANGED <<fanPos, inb, lastSeq, routed, task, queues, client, history>>
        /\ first' >= first /\ first' \in 1..(MaxMsgs + 1)
        /\ pub' >= pub /\ pub' \in 0..MaxMsgs /\ busy' \in BOOLEAN
        /\ first \in Nat /\ pub \in Nat
    <2>0. first \in 1..(MaxMsgs + 1) /\ pub \in 0..MaxMsgs /\ busy \in BOOLEAN
      BY DEF TypeOK
    <2>1. CASE Publish
      BY <2>0, <2>1 DEF Publish
    <2>2. CASE Expire
      BY <2>0, <2>2 DEF Expire
    <2>3. CASE OthersTakePermits
      BY <2>0, <2>3 DEF OthersTakePermits
    <2>5. CASE OthersReturnPermit
      <3>1. busy' = FALSE /\ UNCHANGED <<pub, first, fanPos, inb, lastSeq, routed, task>>
        BY <2>5 DEF OthersReturnPermit
      <3>2. UNCHANGED <<queues, client, history>>
        BY <2>5 DEF OthersReturnPermit
      <3>3. busy' \in BOOLEAN
        BY <3>1
      <3>4. /\ first' >= first /\ first' \in 1..(MaxMsgs + 1)
            /\ pub' >= pub /\ pub' \in 0..MaxMsgs /\ first \in Nat /\ pub \in Nat
        BY <2>0, <3>1
      <3> QED
        BY <3>1, <3>2, <3>3, <3>4, Zenon
    <2>4. CASE UNCHANGED vars
      BY <2>0, <2>4 DEF vars
    <2> QED
      BY <2>1, <2>2, <2>3, <2>4, <2>5
  <1>2. TypeOK'
    BY <1>1 DEF TypeOK
  <1>3. SessionState' /\ ConfirmState'
    BY <1>1 DEF SessionState, ConfirmState, Queued
  <1>4. \A m \in Int : m < first => m < first'
    BY <1>1
  <1>5. from \in Int /\ upto \in Int /\ fanPos \in Int /\ task.next \in Int
    BY DEF TypeOK
  <1>6. ReplayState'
    BY <1>1, <1>4, <1>5 DEF ReplayState, Replayed, Queued
  <1>7. NoGap' /\ ConfirmAfterReplay'
    BY <1>1, <1>4, <1>5 DEF NoGap, ConfirmAfterReplay, CaughtUp, StillToReplay, Queued
  <1> QED
    BY <1>2, <1>3, <1>6, <1>7

\* A message is fanned out: it joins the live channel, or the route ends.
LEMMA FanoutInv == ASSUME DeliveryInv, FanoutNext PROVE DeliveryInv'
  <1> USE DEF DeliveryInv, FanoutNext
  <1>0. /\ Upcoming \in Seqs /\ Upcoming \in 0..pub /\ Upcoming > fanPos
        /\ \A m \in Int : m > fanPos /\ m < Upcoming => m < first
        /\ fanPos \in Int /\ from \in Int /\ first \in Int
    BY DEF TypeOK, Upcoming
  <1>1. /\ UNCHANGED <<pub, first, busy, inb, lastSeq, task, replay, urgent, burst, client, history>>
        /\ fanPos' = Upcoming
    OBVIOUS
  <1>2. \/ UNCHANGED live /\ routed' = FALSE /\ evictSig' \in BOOLEAN
        \/ /\ routed = TRUE /\ routed' = TRUE /\ live' = Append(live, Upcoming)
           /\ Len(live) < LiveCap /\ UNCHANGED evictSig
    BY DEF FanoutTo, TypeOK
  <1>3. live \in Seq(Frames) /\ Upcoming \in Frames /\ Len(live) <= LiveCap
    BY <1>0 DEF TypeOK
  <1>a. LET q == Append(live, Upcoming)
        IN  /\ q \in Seq(Frames) /\ Len(q) = Len(live) + 1
            /\ \A m : Queued(q, m) <=> Queued(live, m) \/ m = Upcoming
    BY <1>3, QueuedAppend
  <1>4. \A m : Queued(live', m) => Queued(live, m) \/ m = Upcoming
    BY <1>2, <1>a
  <1>5. routed' => routed /\ (\A m : Queued(live', m) <=> Queued(live, m) \/ m = Upcoming)
    BY <1>2, <1>a
  <1>6. TypeOK'
    <2>1. live' \in Seq(Frames) /\ Len(live') <= LiveCap /\ evictSig' \in BOOLEAN /\ routed' \in BOOLEAN
      <3>1. CASE UNCHANGED live /\ routed' = FALSE /\ evictSig' \in BOOLEAN
        BY <1>3, <3>1
      <3>2. CASE /\ routed' = TRUE /\ live' = Append(live, Upcoming)
                 /\ Len(live) < LiveCap /\ UNCHANGED evictSig
        BY <1>3, <1>a, <3>2 DEF TypeOK
      <3> QED
        BY <1>2, <3>1, <3>2
    <2> QED
      BY <1>0, <1>1, <2>1 DEF TypeOK
  <1>7. SessionState'
    <2>1. routed => inb \in {"routed", "confirming", "served"}
      BY DEF SessionState, TypeOK, InboundPC
    <2>2. inb \in {"off", "hello", "active"} => ~routed' /\ live' = live
      BY <1>2, <2>1
    <2>3. Queued(live', Confirm) => Queued(live, Confirm)
      BY <1>0, <1>4
    <2> QED
      BY <1>1, <2>2, <2>3 DEF SessionState
  <1>8. ReplayState' /\ ConfirmState' /\ ConfirmAfterReplay'
    BY <1>1 DEF ReplayState, ConfirmState, ConfirmAfterReplay, CaughtUp, Replayed, Queued
  <1>9. NoGap'
    <2> SUFFICES ASSUME routed', ~faulted, urgent = "empty", NEW m \in (from + 1)..Upcoming
                 PROVE  \/ m < first \/ m \in got
                        \/ Queued(live', m) \/ Queued(replay, m) \/ StillToReplay(m)
      BY <1>1 DEF NoGap, StillToReplay
    <2>1. CASE m \in (from + 1)..fanPos
      BY <1>5, <2>1 DEF NoGap
    <2>2. CASE m > fanPos
      BY <1>0, <1>5, <2>2
    <2> QED
      BY <1>0, <2>1, <2>2
  <1> QED
    BY <1>6, <1>7, <1>8, <1>9
-----------------------------------------------------------------------------
(* The session *)

\* A connect and the end of a session leave nothing queued, routed or spawned.
LEMMA FreshInv ==
    ASSUME DeliveryInv, Connect \/ Drop \/ OutboundEvict \/ OutboundUrgent
    PROVE  DeliveryInv'
  <1> USE DEF DeliveryInv
  <1>1. /\ routed' = FALSE /\ live' = <<>> /\ replay' = <<>> /\ evictSig' = FALSE
        /\ urgent' = "empty" /\ burst' = FALSE /\ task' = NoTask
        /\ UNCHANGED <<pub, first, fanPos, busy, cursor>>
    BY DEF Connect, Drop, OutboundEvict, OutboundUrgent, EndSession
  <1>2. \/ /\ inb' = "hello" /\ lastSeq' = NoSeq /\ confirmed' = FALSE /\ got' = {}
           /\ sessions' \in 0..MaxSessions /\ from' = cursor /\ upto' = 0 /\ faulted' = FALSE
        \/ /\ inb' = "off" /\ UNCHANGED <<lastSeq, confirmed, got, sessions, from, upto, faulted>>
    <2>1. CASE Connect
      <3>1. sessions \in 0..MaxSessions /\ sessions < MaxSessions /\ sessions' = sessions + 1
        BY <2>1 DEF Connect, TypeOK
      <3>2. sessions' \in 0..MaxSessions
        BY <3>1
      <3> QED
        BY <2>1, <3>2 DEF Connect
    <2>2. CASE Drop \/ OutboundEvict \/ OutboundUrgent
      BY <2>2 DEF Drop, OutboundEvict, OutboundUrgent, EndSession
    <2> QED
      BY <2>1, <2>2
  <1>3. /\ <<>> \in Seq(Frames) /\ Len(<<>>) = 0
        /\ NoTask \in [pc : TaskPC, next : 0..(MaxMsgs + 1), count : 0..MaxReplay]
        /\ NoTask.pc = "none"
    BY DEF NoTask, TaskPC
  <1>4. TypeOK'
    <2>1. /\ pub' \in 0..MaxMsgs /\ first' \in 1..(MaxMsgs + 1) /\ fanPos' \in 0..pub'
          /\ busy' \in BOOLEAN /\ cursor' \in NoSeq..MaxMsgs
      BY <1>1 DEF TypeOK
    <2>2. /\ inb' \in InboundPC /\ lastSeq' \in NoSeq..MaxMsgs /\ got' \subseteq Seqs
          /\ from' \in NoSeq..MaxMsgs /\ upto' \in 0..MaxMsgs
          /\ sessions' \in 0..MaxSessions
      <3>1. /\ lastSeq \in NoSeq..MaxMsgs /\ got \subseteq Seqs /\ from \in NoSeq..MaxMsgs
            /\ upto \in 0..MaxMsgs /\ sessions \in 0..MaxSessions
            /\ cursor \in NoSeq..MaxMsgs
        BY DEF TypeOK
      <3>2. NoSeq \in NoSeq..MaxMsgs /\ 0 \in 0..MaxMsgs /\ {} \subseteq Seqs
        OBVIOUS
      <3>3. inb' \in InboundPC
        BY <1>2 DEF InboundPC
      <3> HIDE DEF NoSeq, Seqs
      <3> QED
        BY <1>2, <3>1, <3>2, <3>3
    <2>3. confirmed' \in BOOLEAN /\ faulted' \in BOOLEAN
      <3>1. confirmed \in BOOLEAN /\ faulted \in BOOLEAN
        BY DEF TypeOK
      <3> QED
        BY <1>2, <3>1, Zenon
    <2>4. /\ routed' \in BOOLEAN /\ evictSig' \in BOOLEAN /\ burst' \in BOOLEAN
          /\ urgent' \in {"empty", "window", "truncated"}
      BY <1>1, Zenon
    <2>5. /\ live' \in Seq(Frames) /\ Len(live') <= LiveCap
          /\ replay' \in Seq(Frames) /\ Len(replay') <= ReplayCap
          /\ task' \in [pc : TaskPC, next : 0..(MaxMsgs + 1), count : 0..MaxReplay]
      BY <1>1, <1>3
    <2> QED
      BY <2>1, <2>2, <2>3, <2>4, <2>5 DEF TypeOK
  <1>5. ~Queued(live', Confirm) /\ ~Queued(replay', Confirm) /\ Len(replay') = 0 /\ task'.pc = "none"
    BY <1>1, <1>3, QueuedEmpty
  <1>6. SessionState'
    BY <1>1, <1>2, <1>5 DEF SessionState
  <1>7. ReplayState' /\ NoGap'
    BY <1>1, <1>5 DEF ReplayState, NoGap
  <1>8. ConfirmState'
    BY <1>1, <1>2, <1>5 DEF ConfirmState
  <1>9. ConfirmAfterReplay'
    BY <1>1, <1>2 DEF ConfirmAfterReplay, CaughtUp
  <1> QED
    BY <1>4, <1>6, <1>7, <1>8, <1>9

\* hello, or a command that precedes it: the session knows its last_seq.
LEMMA HelloInv == ASSUME DeliveryInv, Hello \/ CommandBeforeHello PROVE DeliveryInv'
  <1> USE DEF DeliveryInv
  <1>1. /\ inb = "hello" /\ inb' = "active" /\ lastSeq' \in {cursor, lastSeq}
        /\ UNCHANGED <<routed, task, log, queues, client, history>>
    BY DEF Hello, CommandBeforeHello
  <1>2. /\ routed = FALSE /\ live = <<>> /\ confirmed = FALSE /\ task.pc = "none"
        /\ replay = <<>> /\ urgent = "empty"
    BY <1>1 DEF SessionState, TypeOK
  <1>3. TypeOK'
    BY <1>1 DEF TypeOK, InboundPC
  <1>4. SessionState'
    BY <1>1, <1>2, QueuedEmpty DEF SessionState
  <1>5. ReplayState' /\ NoGap' /\ ConfirmAfterReplay'
    BY <1>1, <1>2 DEF ReplayState, NoGap, ConfirmAfterReplay
  <1>6. ConfirmState'
    BY <1>1, <1>2, QueuedEmpty DEF ConfirmState
  <1> QED
    BY <1>3, <1>4, <1>5, <1>6

\* The subscribe routes the stream: the session owes what is above last_seq,
\* which the replay is about to read, or what is not fanned out yet.
LEMMA RouteInv == ASSUME DeliveryInv, SubscribeRoute PROVE DeliveryInv'
  <1> USE DEF DeliveryInv
  <1>1. /\ inb = "active" /\ inb' = "routed" /\ routed' = TRUE
        /\ from' = (IF lastSeq = NoSeq THEN fanPos ELSE lastSeq)
        /\ UNCHANGED <<lastSeq, task, upto, faulted, log, queues, client>>
    BY DEF SubscribeRoute
  <1>2. /\ live = <<>> /\ confirmed = FALSE /\ task.pc = "none"
        /\ replay = <<>> /\ urgent = "empty"
    BY <1>1 DEF SessionState, TypeOK
  <1>3. fanPos \in 0..MaxMsgs /\ lastSeq \in NoSeq..MaxMsgs
    BY DEF TypeOK
  <1>4. from' \in 0..MaxMsgs /\ (lastSeq # NoSeq => from' = lastSeq)
    BY <1>1, <1>3
  <1>5. TypeOK'
    <2>1. from' \in NoSeq..MaxMsgs /\ inb' \in InboundPC /\ routed' \in BOOLEAN
      BY <1>1, <1>4 DEF InboundPC
    <2> QED
      BY <1>1, <2>1 DEF TypeOK
  <1>6. SessionState'
    BY <1>1, <1>2, <1>4, QueuedEmpty DEF SessionState
  <1>7. ReplayState' /\ ConfirmAfterReplay'
    BY <1>1, <1>2 DEF ReplayState, ConfirmAfterReplay
  <1>8. ConfirmState'
    BY <1>1, <1>2, QueuedEmpty DEF ConfirmState
  <1>9. NoGap'
    <2>1. CASE lastSeq # NoSeq
      BY <1>1, <2>1 DEF NoGap, StillToReplay
    <2>2. CASE lastSeq = NoSeq
      BY <1>1, <1>3, <2>2 DEF NoGap
    <2> QED
      BY <2>1, <2>2
  <1> QED
    BY <1>5, <1>6, <1>7, <1>8, <1>9

\* The subscribe hands over to the replay task, or goes on to confirm.
LEMMA SpawnInv == ASSUME DeliveryInv, SpawnReplay \/ NoReplayNeeded PROVE DeliveryInv'
  <1> USE DEF DeliveryInv
  <1>1. /\ inb = "routed" /\ UNCHANGED <<lastSeq, routed, log, queues, client, history>>
        /\ \/ lastSeq # NoSeq /\ inb' = "served" /\ task' = [NoTask EXCEPT !.pc = "permit"]
           \/ lastSeq = NoSeq /\ inb' = "confirming" /\ task' = task
    BY DEF SpawnReplay, NoReplayNeeded
  <1>2. task.pc = "none" /\ replay = <<>> /\ urgent = "empty" /\ from >= 0
    BY <1>1 DEF SessionState, TypeOK
  <1>3. task'.pc \in {"permit", "none"} /\ (task'.pc = "permit" <=> lastSeq # NoSeq)
    BY <1>1, <1>2 DEF NoTask
  <1>4. TypeOK'
    <2>1. task' \in [pc : TaskPC, next : 0..(MaxMsgs + 1), count : 0..MaxReplay]
      <3>1. [NoTask EXCEPT !.pc = "permit"] = [pc |-> "permit", next |-> 0, count |-> 0]
        BY DEF NoTask
      <3>2. 0 \in 0..(MaxMsgs + 1) /\ 0 \in 0..MaxReplay /\ "permit" \in TaskPC
        BY DEF TaskPC
      <3>3. task \in [pc : TaskPC, next : 0..(MaxMsgs + 1), count : 0..MaxReplay]
        BY DEF TypeOK
      <3> QED
        BY <1>1, <3>1, <3>2, <3>3
    <2> QED
      BY <1>1, <2>1 DEF TypeOK, InboundPC
  <1>5. SessionState'
    BY <1>1, <1>2, <1>3 DEF SessionState, Queued
  <1>6. ReplayState'
    BY <1>3 DEF ReplayState
  <1>7. ConfirmState'
    <2>1. ~(lastSeq # NoSeq /\ confirmed)
      BY <1>1, <1>2 DEF ConfirmState
    <2> QED
      BY <1>1, <1>2, <2>1, QueuedEmpty DEF ConfirmState
  <1>8. NoGap'
    <2>1. CASE lastSeq # NoSeq
      BY <1>3, <2>1 DEF NoGap, StillToReplay
    <2>2. CASE lastSeq = NoSeq
      BY <1>1, <1>2, <2>2 DEF NoGap, StillToReplay, Queued
    <2> QED
      BY <2>1, <2>2
  <1>9. ConfirmAfterReplay'
    BY <1>1 DEF ConfirmAfterReplay, CaughtUp
  <1> QED
    BY <1>4, <1>5, <1>6, <1>7, <1>8, <1>9

\* A subscribe without a last_seq confirms through the live channel.
LEMMA ConfirmLiveInv == ASSUME DeliveryInv, ConfirmLive PROVE DeliveryInv'
  <1> USE DEF DeliveryInv
  <1>1. /\ inb = "confirming" /\ inb' = "served" /\ live' = Append(live, Confirm)
        /\ Len(live) < LiveCap
        /\ UNCHANGED <<lastSeq, routed, task, replay, evictSig, urgent, burst, log, client, history>>
    BY DEF ConfirmLive
  <1>2. live \in Seq(Frames) /\ Confirm \in Frames
    BY DEF TypeOK
  <1>3. /\ live' \in Seq(Frames) /\ Len(live') <= LiveCap
        /\ \A m : Queued(live, m) => Queued(live', m)
    <2>1. /\ Append(live, Confirm) \in Seq(Frames) /\ Len(Append(live, Confirm)) = Len(live) + 1
          /\ \A m : Queued(Append(live, Confirm), m) <=> Queued(live, m) \/ m = Confirm
      BY <1>2, QueuedAppend
    <2> QED
      BY <1>1, <1>2, <2>1
  <1>4. TypeOK'
    BY <1>1, <1>3 DEF TypeOK, InboundPC
  <1>5. lastSeq = NoSeq /\ task.pc = "none"
    BY <1>1 DEF SessionState
  <1>6. SessionState'
    BY <1>1, <1>5 DEF SessionState
  <1>7. ReplayState' /\ ConfirmState' /\ ConfirmAfterReplay'
    BY <1>1, <1>5 DEF ReplayState, ConfirmState, ConfirmAfterReplay, Queued
  <1>8. NoGap'
    BY <1>1, <1>3, <1>5 DEF NoGap, StillToReplay, Queued
  <1> QED
    BY <1>4, <1>6, <1>7, <1>8

\* Unsubscribing ends the route, and a burst ends.
LEMMA UnsubscribeInv == ASSUME DeliveryInv, Unsubscribe \/ BurstEnds PROVE DeliveryInv'
  <1> USE DEF DeliveryInv
  <1>1. /\ inb # "off" /\ (routed' = FALSE \/ routed' = routed) /\ (burst' = FALSE \/ burst' = burst)
        /\ (routed' = FALSE => ~routed \/ inb = "served")
        /\ UNCHANGED <<inb, lastSeq, task, live, replay, evictSig, urgent, log, client, history>>
    BY DEF Unsubscribe, BurstEnds
  <1>2. routed' \in BOOLEAN /\ burst' \in BOOLEAN
    <2>1. routed \in BOOLEAN /\ burst \in BOOLEAN
      BY DEF TypeOK
    <2> QED
      BY <1>1, <2>1, Zenon
  <1>3. TypeOK'
    BY <1>1, <1>2 DEF TypeOK
  <1>4. SessionState'
    BY <1>1 DEF SessionState, Queued
  <1>5. ReplayState' /\ ConfirmState' /\ ConfirmAfterReplay'
    BY <1>1 DEF ReplayState, ConfirmState, ConfirmAfterReplay, CaughtUp, Replayed, Queued
  <1>6. NoGap'
    BY <1>1 DEF NoGap, StillToReplay, Queued
  <1> QED
    BY <1>3, <1>4, <1>5, <1>6

-----------------------------------------------------------------------------
(* The replay task *)

\* The states in which the task has neither confirmed nor asked for a disconnect.
Working == {"permit", "info", "fetch", "confirm", "failed", "window", "truncated"}

\* While the task works, its session is subscribed and not confirmed, and
\* neither a confirmation nor a disconnect is queued.
LEMMA WorkingFacts ==
    ASSUME DeliveryInv, task.pc \in Working
    PROVE  /\ inb = "served" /\ lastSeq \in 0..MaxMsgs /\ from = lastSeq
           /\ urgent = "empty" /\ confirmed = FALSE /\ ~Queued(replay, Confirm)
           /\ task = [pc |-> task.pc, next |-> task.next, count |-> task.count]
           /\ task.next \in 0..(MaxMsgs + 1) /\ task.count \in 0..MaxReplay
           /\ pub \in 0..MaxMsgs /\ first \in 1..(MaxMsgs + 1) /\ fanPos \in 0..pub
  <1>1. /\ lastSeq \in NoSeq..MaxMsgs /\ confirmed \in BOOLEAN
        /\ task \in [pc : TaskPC, next : 0..(MaxMsgs + 1), count : 0..MaxReplay]
        /\ pub \in 0..MaxMsgs /\ first \in 1..(MaxMsgs + 1) /\ fanPos \in 0..pub
    BY DEF DeliveryInv, TypeOK
  <1>2. /\ task = [pc |-> task.pc, next |-> task.next, count |-> task.count]
        /\ task.next \in 0..(MaxMsgs + 1) /\ task.count \in 0..MaxReplay
    BY <1>1
  <1>3. task.pc # "none" /\ task.pc # "done"
    BY DEF Working
  <1>4. inb = "served" /\ lastSeq # NoSeq
    BY <1>3 DEF DeliveryInv, SessionState
  <1>5. from = lastSeq
    BY <1>4 DEF DeliveryInv, SessionState
  <1>6. urgent = "empty" /\ ~confirmed /\ ~Queued(replay, Confirm)
    BY <1>3, <1>4 DEF DeliveryInv, ConfirmState
  <1> QED
    BY <1>1, <1>2, <1>4, <1>5, <1>6

\* The task waits, checks the window, or fails: nothing is fetched, and what it
\* has to fetch begins just above last_seq.
LEMMA PermitInv ==
    ASSUME DeliveryInv, AcquirePermit \/ CheckWindow \/ FetchFails \/ JetStreamError
    PROVE  DeliveryInv'
  <1> USE DEF DeliveryInv
  <1>1. task.pc \in Working
    BY DEF AcquirePermit, CheckWindow, FetchFails, JetStreamError, Working
  <1>2. /\ inb = "served" /\ lastSeq \in 0..MaxMsgs /\ from = lastSeq
        /\ urgent = "empty" /\ confirmed = FALSE /\ ~Queued(replay, Confirm)
        /\ task = [pc |-> task.pc, next |-> task.next, count |-> task.count]
        /\ task.next \in 0..(MaxMsgs + 1) /\ task.count \in 0..MaxReplay
        /\ pub \in 0..MaxMsgs
    BY <1>1, WorkingFacts
  <1>3. UNCHANGED <<inb, lastSeq, routed, from, log, queues, client>>
    BY DEF AcquirePermit, CheckWindow, FetchFails, JetStreamError
  <1>4. /\ task'.pc \in {"info", "window", "fetch", "confirm", "failed"}
        /\ task'.pc = "fetch" => task'.next = lastSeq + 1
        /\ task' \in [pc : TaskPC, next : 0..(MaxMsgs + 1), count : 0..MaxReplay]
        /\ \/ faulted' = TRUE /\ upto' \in {pub, upto}
           \/ /\ UNCHANGED <<upto, faulted>>
              /\ task'.pc \in {"info", "window", "fetch"}
    <2>1. lastSeq + 1 \in 0..(MaxMsgs + 1)
      BY <1>2
    <2>2. {"info", "window", "fetch", "confirm", "failed"} \subseteq TaskPC
      BY DEF TaskPC
    <2>3. CASE AcquirePermit
      <3>1. task' = [pc |-> "info", next |-> task.next, count |-> task.count]
        BY <1>2, <2>3 DEF AcquirePermit
      <3> QED
        BY <1>2, <2>2, <2>3, <3>1 DEF AcquirePermit
    <2>4. CASE CheckWindow
      <3>1. \/ task' = [pc |-> "window", next |-> task.next, count |-> task.count]
            \/ task' = [pc |-> "fetch", next |-> lastSeq + 1, count |-> task.count]
        BY <1>2, <2>4 DEF CheckWindow, StartSeq
      <3> QED
        BY <1>2, <2>1, <2>2, <2>4, <3>1 DEF CheckWindow
    <2>5. CASE FetchFails
      <3>1. task' = [pc |-> "confirm", next |-> task.next, count |-> task.count]
        BY <1>2, <2>5 DEF FetchFails
      <3> QED
        BY <1>2, <2>2, <2>5, <3>1 DEF FetchFails
    <2>6. CASE JetStreamError
      <3>1. task' = [pc |-> "failed", next |-> task.next, count |-> task.count]
        BY <1>2, <2>6 DEF JetStreamError
      <3> QED
        BY <1>2, <2>2, <2>6, <3>1 DEF JetStreamError
    <2> QED
      BY <2>3, <2>4, <2>5, <2>6
  <1>5. TypeOK'
    <2>1. upto \in 0..MaxMsgs /\ faulted \in BOOLEAN
      BY DEF TypeOK
    <2>2. upto' \in 0..MaxMsgs /\ faulted' \in BOOLEAN
      BY <1>2, <1>4, <2>1
    <2>3. task' \in [pc : TaskPC, next : 0..(MaxMsgs + 1), count : 0..MaxReplay]
      BY <1>4
    <2> QED
      BY <1>3, <2>2, <2>3 DEF TypeOK
  <1>6. SessionState'
    BY <1>1, <1>2, <1>3, <1>4 DEF SessionState, Queued
  <1>7. ReplayState'
    BY <1>2, <1>3, <1>4 DEF ReplayState
  <1>8. ConfirmState'
    BY <1>2, <1>3 DEF ConfirmState, Queued
  <1>9. NoGap' /\ ConfirmAfterReplay'
    <2>1. faulted' = FALSE => \A m \in (from + 1)..fanPos : StillToReplay(m)'
      BY <1>2, <1>3, <1>4 DEF StillToReplay, TypeOK
    <2> QED
      BY <1>2, <1>3, <1>5, <2>1 DEF NoGap, ConfirmAfterReplay, TypeOK
  <1> QED
    BY <1>5, <1>6, <1>7, <1>8, <1>9

\* A message is fetched: it joins the replay channel, and what lies between it
\* and the one before has expired.
LEMMA FetchInv == ASSUME DeliveryInv, FetchMessage PROVE DeliveryInv'
  <1> USE DEF DeliveryInv
  <1>1. task.pc \in Working
    BY DEF FetchMessage, Working
  <1>2. /\ inb = "served" /\ lastSeq \in 0..MaxMsgs /\ from = lastSeq
        /\ urgent = "empty" /\ confirmed = FALSE /\ ~Queued(replay, Confirm)
        /\ task = [pc |-> task.pc, next |-> task.next, count |-> task.count]
        /\ task.next \in 0..(MaxMsgs + 1) /\ task.count \in 0..MaxReplay
        /\ pub \in 0..MaxMsgs /\ first \in 1..(MaxMsgs + 1) /\ fanPos \in 0..pub
    BY <1>1, WorkingFacts
  <1>3. /\ UNCHANGED <<inb, lastSeq, routed, live, evictSig, urgent, burst, log, client, history>>
        /\ task.pc = "fetch" /\ task.count < MaxReplay /\ Fetchable <= pub
        /\ Len(replay) < ReplayCap /\ replay' = Append(replay, Fetchable)
        /\ task' = [pc |-> "fetch", next |-> Fetchable + 1, count |-> task.count + 1]
    BY <1>2 DEF FetchMessage
  <1>4. /\ Fetchable \in Seqs /\ Fetchable \in Frames /\ Fetchable # Confirm
        /\ Fetchable + 1 \in 0..(MaxMsgs + 1) /\ task.count + 1 \in 0..MaxReplay
        /\ \A m \in Int : m >= task.next /\ m < Fetchable => m < first
    <2>1. /\ task.next \in Nat /\ first \in Nat \ {0} /\ pub \in Nat /\ pub <= MaxMsgs
          /\ task.count \in Nat /\ task.count < MaxReplay /\ Fetchable <= pub
      BY <1>2, <1>3
    <2>2. Fetchable = IF task.next < first THEN first ELSE task.next
      BY DEF Fetchable
    <2>3. Fetchable \in 1..MaxMsgs /\ \A m \in Int : m >= task.next /\ m < Fetchable => m < first
      BY <2>1, <2>2
    <2> QED
      BY <2>1, <2>3
  <1>5. replay \in Seq(Frames)
    BY DEF TypeOK
  <1>6. /\ replay' \in Seq(Frames) /\ Len(replay') = Len(replay) + 1 /\ Len(replay) \in Nat
        /\ \A i \in 1..Len(replay) : replay'[i] = replay[i]
        /\ \A m : Queued(replay', m) <=> Queued(replay, m) \/ m = Fetchable
    <2>1. LET q == Append(replay, Fetchable)
          IN  /\ q \in Seq(Frames) /\ Len(q) = Len(replay) + 1
              /\ \A i \in 1..Len(replay) : q[i] = replay[i]
              /\ \A m : Queued(q, m) <=> Queued(replay, m) \/ m = Fetchable
      BY <1>4, <1>5, QueuedAppend
    <2> QED
      BY <1>3, <1>5, <2>1
  <1>7. TypeOK'
    <2>1. task' \in [pc : TaskPC, next : 0..(MaxMsgs + 1), count : 0..MaxReplay]
      BY <1>3, <1>4 DEF TaskPC
    <2>2. replay' \in Seq(Frames) /\ Len(replay') <= ReplayCap
      BY <1>3, <1>6
    <2> QED
      BY <1>3, <2>1, <2>2 DEF TypeOK
  <1>8. task'.pc = "fetch" /\ task'.next = Fetchable + 1
    BY <1>3
  <1>9. SessionState'
    BY <1>2, <1>3, <1>8 DEF SessionState, Queued
  <1>10. ConfirmState'
    <2>1. ~Queued(replay', Confirm)
      BY <1>2, <1>4, <1>6
    <2>2. \A i \in 1..Len(replay) : replay'[i] # Confirm
      BY <1>2, <1>6 DEF Queued
    <2> QED
      BY <1>2, <1>3, <1>6, <2>1, <2>2 DEF ConfirmState
  <1>11. ASSUME faulted = FALSE, NEW m \in (from + 1)..Fetchable
         PROVE  m < first \/ m \in got \/ Queued(replay', m)
    <2>1. CASE m \in (from + 1)..(task.next - 1)
      BY <1>3, <1>6, <1>11, <2>1 DEF ReplayState, Replayed
    <2>2. CASE m >= task.next
      <3>1. m \in Int /\ m <= Fetchable /\ Fetchable \in Int
        BY <1>2, <1>4
      <3>2. m < first \/ m = Fetchable
        BY <1>4, <2>2, <3>1
      <3> QED
        BY <1>6, <3>2
    <2> QED
      BY <1>2, <2>1, <2>2
  <1>12. ReplayState'
    <2>1. (from + 1)..(task'.next - 1) = (from + 1)..Fetchable
      BY <1>2, <1>4, <1>8
    <2>2. faulted = FALSE => \A m \in (from + 1)..(task'.next - 1) : Replayed(m)'
      BY <1>3, <1>11, <2>1 DEF Replayed
    <2> QED
      BY <1>3, <1>8, <2>2 DEF ReplayState, TypeOK
  <1>13. NoGap'
    <2> SUFFICES ASSUME routed = TRUE, faulted = FALSE, NEW m \in (from + 1)..fanPos
                 PROVE  \/ m < first \/ m \in got \/ Queued(live, m)
                        \/ Queued(replay', m) \/ StillToReplay(m)'
      BY <1>3 DEF NoGap, Queued, TypeOK
    <2>1. CASE m \in (from + 1)..Fetchable
      BY <1>11, <2>1
    <2>2. CASE m >= Fetchable + 1
      BY <1>8, <2>2 DEF StillToReplay
    <2> QED
      BY <1>2, <1>4, <2>1, <2>2
  <1>14. ConfirmAfterReplay'
    BY <1>2, <1>3 DEF ConfirmAfterReplay
  <1> QED
    BY <1>7, <1>9, <1>10, <1>12, <1>13, <1>14

\* The log is used up, or the cap is reached: if the task goes on to confirm,
\* it has replayed all that is published.
LEMMA FetchEndInv == ASSUME DeliveryInv, FetchEnds \/ ProbeCap PROVE DeliveryInv'
  <1> USE DEF DeliveryInv
  <1>1. task.pc \in Working
    BY DEF FetchEnds, ProbeCap, Working
  <1>2. /\ inb = "served" /\ lastSeq \in 0..MaxMsgs /\ from = lastSeq
        /\ urgent = "empty" /\ confirmed = FALSE /\ ~Queued(replay, Confirm)
        /\ task = [pc |-> task.pc, next |-> task.next, count |-> task.count]
        /\ task.next \in 0..(MaxMsgs + 1) /\ task.count \in 0..MaxReplay
        /\ pub \in 0..MaxMsgs /\ first \in 1..(MaxMsgs + 1) /\ fanPos \in 0..pub
    BY <1>1, WorkingFacts
  <1>3. /\ UNCHANGED <<inb, lastSeq, routed, from, faulted, log, queues, client>>
        /\ task.pc = "fetch" /\ upto' = pub
        /\ \/ /\ Fetchable > pub
              /\ task' = [pc |-> "confirm", next |-> task.next, count |-> task.count]
           \/ task' = [pc |-> "truncated", next |-> task.next, count |-> task.count]
    <2>1. CASE FetchEnds
      BY <1>2, <2>1 DEF FetchEnds
    <2>2. CASE ProbeCap
      <3>1. Fetchable \in Int /\ pub \in Int
        BY <1>2 DEF Fetchable
      <3>2. Fetchable <= pub \/ Fetchable > pub
        BY <3>1
      <3>3. task' = [task EXCEPT !.pc = IF Fetchable <= pub THEN "truncated" ELSE "confirm"]
        BY <2>2 DEF ProbeCap
      <3>4. \/ /\ Fetchable > pub
               /\ task' = [pc |-> "confirm", next |-> task.next, count |-> task.count]
            \/ task' = [pc |-> "truncated", next |-> task.next, count |-> task.count]
        BY <1>2, <3>2, <3>3
      <3> QED
        BY <2>2, <3>4 DEF ProbeCap
    <2> QED
      BY <2>1, <2>2
  <1>4. task'.pc \in {"confirm", "truncated"} /\ (task'.pc = "confirm" => Fetchable > pub)
    BY <1>3
  <1>5. TypeOK'
    <2>1. task' \in [pc : TaskPC, next : 0..(MaxMsgs + 1), count : 0..MaxReplay]
      BY <1>2, <1>3 DEF TaskPC
    <2>2. upto' \in 0..MaxMsgs
      BY <1>2, <1>3
    <2> QED
      BY <1>3, <2>1, <2>2 DEF TypeOK
  <1>6. SessionState'
    BY <1>2, <1>3, <1>4 DEF SessionState, Queued
  <1>7. ConfirmState'
    BY <1>2, <1>3, <1>4 DEF ConfirmState, Queued
  <1>8. ASSUME faulted = FALSE, task'.pc = "confirm", NEW m \in (from + 1)..pub
        PROVE  Replayed(m)
    <2>1. CASE m \in (from + 1)..(task.next - 1)
      BY <1>3, <1>8, <2>1 DEF ReplayState
    <2>2. CASE m >= task.next
      BY <1>2, <1>4, <1>8, <2>2 DEF Replayed, Fetchable
    <2> QED
      BY <1>2, <2>1, <2>2
  <1>9. ReplayState'
    <2>1. faulted = FALSE /\ task'.pc = "confirm" => \A m \in (from + 1)..upto' : Replayed(m)'
      BY <1>3, <1>8 DEF Replayed, Queued
    <2> QED
      BY <1>3, <1>4, <2>1 DEF ReplayState, TypeOK
  <1>10. NoGap'
    <2> SUFFICES ASSUME faulted = FALSE, NEW m \in (from + 1)..fanPos
                 PROVE  Replayed(m) \/ StillToReplay(m)'
      BY <1>3 DEF NoGap, Queued, Replayed, TypeOK
    <2>1. CASE task'.pc = "confirm"
      <3>1. m \in (from + 1)..pub
        BY <1>2
      <3> QED
        BY <1>8, <2>1, <3>1
    <2>2. CASE task'.pc = "truncated"
      BY <2>2 DEF StillToReplay
    <2> QED
      BY <1>4, <2>1, <2>2
  <1>11. ConfirmAfterReplay'
    BY <1>2, <1>3 DEF ConfirmAfterReplay
  <1> QED
    BY <1>5, <1>6, <1>7, <1>9, <1>10, <1>11

\* The task confirms, behind all it replayed.
LEMMA ConfirmReplayInv == ASSUME DeliveryInv, ConfirmReplay PROVE DeliveryInv'
  <1> USE DEF DeliveryInv
  <1>1. task.pc \in Working
    BY DEF ConfirmReplay, Working
  <1>2. /\ inb = "served" /\ lastSeq \in 0..MaxMsgs /\ from = lastSeq
        /\ urgent = "empty" /\ confirmed = FALSE /\ ~Queued(replay, Confirm)
        /\ task = [pc |-> task.pc, next |-> task.next, count |-> task.count]
        /\ task.next \in 0..(MaxMsgs + 1) /\ task.count \in 0..MaxReplay
    BY <1>1, WorkingFacts
  <1>3. /\ UNCHANGED <<inb, lastSeq, routed, live, evictSig, urgent, burst, log, client, history>>
        /\ task.pc \in {"confirm", "failed"}
        /\ Len(replay) < ReplayCap /\ replay' = Append(replay, Confirm)
        /\ task' = [pc |-> "done", next |-> task.next, count |-> task.count]
    BY <1>2 DEF ConfirmReplay
  <1>4. replay \in Seq(Frames) /\ Confirm \in Frames
    BY DEF TypeOK
  <1>5. /\ replay' \in Seq(Frames) /\ Len(replay') = Len(replay) + 1 /\ Len(replay) \in Nat
        /\ \A i \in 1..Len(replay) : replay'[i] = replay[i]
        /\ \A m : Queued(replay', m) <=> Queued(replay, m) \/ m = Confirm
    <2>1. LET q == Append(replay, Confirm)
          IN  /\ q \in Seq(Frames) /\ Len(q) = Len(replay) + 1
              /\ \A i \in 1..Len(replay) : q[i] = replay[i]
              /\ \A m : Queued(q, m) <=> Queued(replay, m) \/ m = Confirm
      BY <1>4, QueuedAppend
    <2> QED
      BY <1>3, <1>4, <2>1
  <1>6. TypeOK'
    <2>1. task' \in [pc : TaskPC, next : 0..(MaxMsgs + 1), count : 0..MaxReplay]
      BY <1>2, <1>3 DEF TaskPC
    <2>2. replay' \in Seq(Frames) /\ Len(replay') <= ReplayCap
      BY <1>3, <1>5
    <2> QED
      BY <1>3, <2>1, <2>2 DEF TypeOK
  <1>7. task'.pc = "done"
    BY <1>3
  <1>8. SessionState'
    BY <1>2, <1>3, <1>7 DEF SessionState, Queued
  <1>9. ConfirmState'
    <2>1. \A i \in 1..Len(replay) : replay'[i] # Confirm
      BY <1>2, <1>5 DEF Queued
    <2> QED
      BY <1>2, <1>3, <1>5, <1>7, <2>1 DEF ConfirmState
  <1>10. \A m : Replayed(m) => Replayed(m)'
    BY <1>3, <1>5 DEF Replayed
  <1>11. ReplayState'
    BY <1>3, <1>7, <1>10 DEF ReplayState
  <1>12. NoGap'
    <2>1. \A m : StillToReplay(m) => FALSE
      BY <1>2, <1>3 DEF StillToReplay
    <2> QED
      BY <1>3, <1>5, <2>1 DEF NoGap, Queued
  <1>13. ConfirmAfterReplay'
    BY <1>2, <1>3 DEF ConfirmAfterReplay
  <1> QED
    BY <1>6, <1>8, <1>9, <1>11, <1>12, <1>13

\* The task asks for a disconnect in place of a confirmation.
LEMMA UrgentInv == ASSUME DeliveryInv, SendUrgent PROVE DeliveryInv'
  <1> USE DEF DeliveryInv
  <1>1. task.pc \in Working
    BY DEF SendUrgent, Working
  <1>2. /\ inb = "served" /\ lastSeq \in 0..MaxMsgs /\ from = lastSeq
        /\ urgent = "empty" /\ confirmed = FALSE /\ ~Queued(replay, Confirm)
        /\ task = [pc |-> task.pc, next |-> task.next, count |-> task.count]
        /\ task.next \in 0..(MaxMsgs + 1) /\ task.count \in 0..MaxReplay
    BY <1>1, WorkingFacts
  <1>3. /\ UNCHANGED <<inb, lastSeq, routed, live, replay, evictSig, burst, log, client, history>>
        /\ urgent' \in {"window", "truncated"}
        /\ task' = [pc |-> "done", next |-> task.next, count |-> task.count]
    BY <1>2 DEF SendUrgent
  <1>4. TypeOK'
    <2>1. task' \in [pc : TaskPC, next : 0..(MaxMsgs + 1), count : 0..MaxReplay]
      BY <1>2, <1>3 DEF TaskPC
    <2> QED
      BY <1>3, <2>1 DEF TypeOK
  <1>5. task'.pc = "done" /\ urgent' # "empty"
    BY <1>3
  <1>6. SessionState' /\ ReplayState' /\ NoGap'
    BY <1>2, <1>3, <1>5 DEF SessionState, ReplayState, NoGap, Queued
  <1>7. ConfirmState' /\ ConfirmAfterReplay'
    BY <1>2, <1>3, <1>5 DEF ConfirmState, ConfirmAfterReplay, Queued
  <1> QED
    BY <1>4, <1>6, <1>7

-----------------------------------------------------------------------------
(* The outbound loop *)

\* A replay frame reaches the client: a message moves from the channel to what
\* was received, and a confirmation is the last frame of its channel.
LEMMA ReplayFrameInv == ASSUME DeliveryInv, OutboundReplay \/ BurstNext PROVE DeliveryInv'
  <1> USE DEF DeliveryInv
  <1>1. /\ replay # <<>> /\ Receive(Head(replay)) /\ replay' = Tail(replay)
        /\ burst' = TRUE \/ burst' = burst
        /\ UNCHANGED <<inb, lastSeq, routed, task, live, evictSig, urgent, log, history>>
    BY DEF OutboundReplay, BurstNext
  <1>2. /\ replay \in Seq(Frames) /\ Len(replay) <= ReplayCap /\ got \subseteq Seqs
        /\ cursor \in NoSeq..MaxMsgs /\ from \in Int /\ upto \in Int /\ fanPos \in Int
        /\ routed \in BOOLEAN /\ faulted \in BOOLEAN /\ confirmed \in BOOLEAN /\ burst \in BOOLEAN
    BY DEF TypeOK
  <1>3. /\ Tail(replay) \in Seq(Frames) /\ Len(Tail(replay)) = Len(replay) - 1
        /\ Len(replay) \in Nat \ {0} /\ Head(replay) = replay[1] /\ Head(replay) \in Frames
        /\ \A i \in 1..(Len(replay) - 1) : Tail(replay)[i] = replay[i + 1]
        /\ \A m : Queued(replay, m) <=> m = Head(replay) \/ Queued(Tail(replay), m)
    BY <1>1, <1>2, QueuedTail
  <1>4. task.pc # "none" /\ inb = "served" /\ lastSeq # NoSeq /\ from >= 0
    <2>1. task.pc # "none"
      BY <1>1 DEF SessionState
    <2>2. inb = "served" /\ lastSeq # NoSeq
      BY <2>1 DEF SessionState
    <2> QED
      BY <2>1, <2>2 DEF SessionState
  <1>5. \/ Head(replay) = Confirm /\ confirmed' = TRUE /\ UNCHANGED <<cursor, got, sessions>>
        \/ /\ Head(replay) \in Seqs /\ cursor' = Head(replay) /\ got' = got \cup {Head(replay)}
           /\ UNCHANGED <<confirmed, sessions>>
    BY <1>1, <1>3 DEF Receive
  <1>6. TypeOK'
    <2>1. burst' \in BOOLEAN
      BY <1>1, <1>2, Zenon
    <2>2. confirmed' \in BOOLEAN
      BY <1>2, <1>5
    <2>3. /\ cursor' \in NoSeq..MaxMsgs /\ got' \subseteq Seqs /\ sessions' = sessions
      <3>1. \A x \in Seqs : x \in NoSeq..MaxMsgs
        OBVIOUS
      <3> HIDE DEF NoSeq, Seqs
      <3> QED
        BY <1>2, <1>5, <3>1
    <2>4. replay' \in Seq(Frames) /\ Len(replay') <= ReplayCap
      BY <1>1, <1>2, <1>3
    <2> QED
      BY <1>1, <2>1, <2>2, <2>3, <2>4 DEF TypeOK
  <1>7. SessionState'
    BY <1>1, <1>4 DEF SessionState, Queued
  <1>8. /\ \A m \in Int : m > 0 /\ (m \in got \/ Queued(replay, m)) => m \in got' \/ Queued(replay', m)
        /\ \A m : m \in got => m \in got'
    BY <1>1, <1>3, <1>5
  <1>9. \A m \in Int : m > 0 /\ Replayed(m) => Replayed(m)'
    BY <1>1, <1>8 DEF Replayed
  <1>10. ReplayState'
    <2>1. /\ task.next \in Int
          /\ \A m \in (from + 1)..(task.next - 1) : m \in Int /\ m > 0
          /\ \A m \in (from + 1)..upto : m \in Int /\ m > 0
      BY <1>2, <1>4 DEF TypeOK
    <2> QED
      BY <1>1, <1>9, <2>1 DEF ReplayState
  <1>11. Head(replay) = Confirm =>
             /\ task.pc = "done" /\ urgent = "empty"
             /\ Len(replay) = 1 /\ \A m : ~Queued(replay', m)
    <2> SUFFICES ASSUME Head(replay) = Confirm
                 PROVE  /\ task.pc = "done" /\ urgent = "empty"
                        /\ Len(replay) = 1 /\ \A m : ~Queued(replay', m)
      OBVIOUS
    <2>1. Queued(replay, Confirm)
      BY <1>3
    <2>2. task.pc = "done" /\ urgent = "empty"
      BY <2>1 DEF ConfirmState
    <2>3. Len(replay) = 1
      BY <1>3 DEF ConfirmState
    <2>4. Len(replay') = 0
      BY <1>1, <1>3, <2>3
    <2> QED
      BY <2>2, <2>3, <2>4 DEF Queued
  <1>12. ConfirmState'
    <2>1. Queued(replay', Confirm) => Queued(replay, Confirm)
      BY <1>1, <1>3
    <2>2. confirmed' = TRUE => confirmed = TRUE \/ Head(replay) = Confirm
      BY <1>5
    <2>3. confirmed' = TRUE => task.pc = "done" /\ urgent = "empty"
      BY <1>4, <1>11, <2>2 DEF ConfirmState
    <2>4. \A i \in 1..(Len(replay') - 1) : replay'[i] # Confirm
      <3>1. \A i \in 1..(Len(replay) - 1) : replay[i] # Confirm
        BY DEF ConfirmState
      <3>2. \A i \in 1..(Len(replay) - 2) : replay'[i] = replay[i + 1] /\ i + 1 \in 1..(Len(replay) - 1)
        BY <1>1, <1>3
      <3>3. Len(replay') - 1 = Len(replay) - 2
        BY <1>1, <1>3
      <3> QED
        BY <3>1, <3>2, <3>3
    <2>5. confirmed' \in BOOLEAN
      BY <1>6 DEF TypeOK
    <2> QED
      BY <1>1, <2>1, <2>3, <2>4, <2>5 DEF ConfirmState
  <1>13. NoGap'
    <2>1. \A m \in (from + 1)..fanPos : m \in Int /\ m > 0
      BY <1>2, <1>4
    <2>2. \A m : StillToReplay(m)' <=> StillToReplay(m)
      BY <1>1 DEF StillToReplay
    <2>3. \A m : Queued(live', m) <=> Queued(live, m)
      BY <1>1
    <2> QED
      BY <1>1, <1>8, <2>1, <2>2, <2>3 DEF NoGap
  <1>14. ConfirmAfterReplay'
    <2>1. CASE Head(replay) = Confirm
      <3> SUFFICES ASSUME faulted = FALSE, NEW m \in (from + 1)..upto
                   PROVE  m < first \/ m \in got'
        BY <1>1, <1>2 DEF ConfirmAfterReplay, CaughtUp
      <3>1. Replayed(m)
        BY <1>11, <2>1 DEF ReplayState
      <3>2. m # Confirm
        BY <1>2, <1>4
      <3> QED
        BY <1>1, <1>3, <1>8, <1>11, <2>1, <3>1, <3>2 DEF Replayed
    <2>2. CASE Head(replay) # Confirm
      BY <1>1, <1>5, <1>8, <2>2 DEF ConfirmAfterReplay, CaughtUp
    <2> QED
      BY <2>1, <2>2
  <1> QED
    BY <1>6, <1>7, <1>10, <1>12, <1>13, <1>14

\* A live frame reaches the client; it is the confirmation only in a session
\* that replays nothing.
LEMMA LiveFrameInv == ASSUME DeliveryInv, OutboundLive PROVE DeliveryInv'
  <1> USE DEF DeliveryInv
  <1>1. /\ live # <<>> /\ Receive(Head(live)) /\ live' = Tail(live)
        /\ UNCHANGED <<inb, lastSeq, routed, task, replay, evictSig, urgent, burst, log, history>>
    BY DEF OutboundLive
  <1>2. /\ live \in Seq(Frames) /\ Len(live) <= LiveCap /\ got \subseteq Seqs
        /\ cursor \in NoSeq..MaxMsgs /\ from \in Int /\ upto \in Int /\ fanPos \in Int
        /\ confirmed \in BOOLEAN
    BY DEF TypeOK
  <1>3. /\ Tail(live) \in Seq(Frames) /\ Len(Tail(live)) = Len(live) - 1
        /\ Len(live) \in Nat \ {0} /\ Head(live) \in Frames
        /\ \A m : Queued(live, m) <=> m = Head(live) \/ Queued(Tail(live), m)
    BY <1>1, <1>2, QueuedTail
  <1>4. inb \in {"routed", "confirming", "served"} /\ from >= 0
    <2>1. inb \in {"routed", "confirming", "served"}
      BY <1>1 DEF SessionState, TypeOK, InboundPC
    <2> QED
      BY <2>1 DEF SessionState
  <1>5. \/ Head(live) = Confirm /\ confirmed' = TRUE /\ UNCHANGED <<cursor, got, sessions>>
        \/ /\ Head(live) \in Seqs /\ cursor' = Head(live) /\ got' = got \cup {Head(live)}
           /\ UNCHANGED <<confirmed, sessions>>
    BY <1>1, <1>3 DEF Receive
  <1>6. Head(live) = Confirm => lastSeq = NoSeq
    BY <1>3 DEF SessionState
  <1>7. TypeOK'
    <2>1. confirmed' \in BOOLEAN
      BY <1>2, <1>5
    <2>2. /\ cursor' \in NoSeq..MaxMsgs /\ got' \subseteq Seqs /\ sessions' = sessions
      <3>1. \A x \in Seqs : x \in NoSeq..MaxMsgs
        OBVIOUS
      <3> HIDE DEF NoSeq, Seqs
      <3> QED
        BY <1>2, <1>5, <3>1
    <2>3. live' \in Seq(Frames) /\ Len(live') <= LiveCap
      BY <1>1, <1>2, <1>3
    <2> QED
      BY <1>1, <2>1, <2>2, <2>3 DEF TypeOK
  <1>8. SessionState'
    <2>1. Queued(live', Confirm) => Queued(live, Confirm)
      BY <1>1, <1>3
    <2> QED
      BY <1>1, <1>4, <2>1 DEF SessionState
  <1>9. /\ \A m \in Int : m > 0 /\ (m \in got \/ Queued(live, m)) => m \in got' \/ Queued(live', m)
        /\ \A m : m \in got => m \in got'
    BY <1>1, <1>3, <1>5
  <1>10. \A m : Replayed(m) => Replayed(m)'
    BY <1>1, <1>9 DEF Replayed
  <1>11. ReplayState'
    BY <1>1, <1>10 DEF ReplayState
  <1>12. lastSeq # NoSeq => confirmed' = confirmed
    BY <1>5, <1>6
  <1>13. ConfirmState'
    <2>1. \A m : Queued(replay', m) <=> Queued(replay, m)
      BY <1>1
    <2> QED
      BY <1>1, <1>12, <2>1 DEF ConfirmState
  <1>14. NoGap'
    <2>1. \A m \in (from + 1)..fanPos : m \in Int /\ m > 0
      BY <1>2, <1>4
    <2>2. \A m : StillToReplay(m)' <=> StillToReplay(m)
      BY <1>1 DEF StillToReplay
    <2>3. \A m : Queued(replay', m) <=> Queued(replay, m)
      BY <1>1
    <2> QED
      BY <1>1, <1>9, <2>1, <2>2, <2>3 DEF NoGap
  <1>15. ConfirmAfterReplay'
    BY <1>1, <1>9, <1>12 DEF ConfirmAfterReplay, CaughtUp
  <1> QED
    BY <1>7, <1>8, <1>11, <1>13, <1>14, <1>15

-----------------------------------------------------------------------------
(* The theorems *)

LEMMA InitInv == Init => DeliveryInv
  <1> SUFFICES ASSUME Init PROVE DeliveryInv
    OBVIOUS
  <1> USE DEF Init
  <1>1. /\ <<>> \in Seq(Frames) /\ Len(<<>>) = 0
        /\ NoTask \in [pc : TaskPC, next : 0..(MaxMsgs + 1), count : 0..MaxReplay]
        /\ NoTask.pc = "none"
    BY DEF NoTask, TaskPC
  <1>2. TypeOK
    <2>1. /\ 0 \in 0..MaxMsgs /\ 1 \in 1..(MaxMsgs + 1) /\ 0 \in 0..0 /\ 0 \in 0..MaxSessions
          /\ NoSeq \in NoSeq..MaxMsgs /\ 0 <= LiveCap /\ 0 <= ReplayCap
      OBVIOUS
    <2>2. "off" \in InboundPC
      BY DEF InboundPC
    <2> HIDE DEF NoSeq, Seqs, Frames
    <2> QED
      BY <1>1, <2>1, <2>2 DEF TypeOK
  <1>3. SessionState /\ ConfirmState
    BY <1>1, QueuedEmpty DEF SessionState, ConfirmState
  <1>4. ReplayState /\ NoGap /\ ConfirmAfterReplay
    BY <1>1 DEF ReplayState, NoGap, ConfirmAfterReplay
  <1> QED
    BY <1>2, <1>3, <1>4 DEF DeliveryInv

\* The session's parts agree at every moment: what is routed, spawned, queued
\* and confirmed fits where the inbound loop is, and what the replay has passed
\* is received, queued or expired (subscribe, replay_since and outbound_loop).
THEOREM DeliveryInvariance == Spec => []DeliveryInv
  <1>1. DeliveryInv /\ [Next]_vars => DeliveryInv'
    <2> SUFFICES ASSUME DeliveryInv, [Next]_vars PROVE DeliveryInv'
      OBVIOUS
    <2>1. CASE Publish \/ Expire \/ OthersTakePermits \/ OthersReturnPermit \/ UNCHANGED vars
      BY <2>1, LogInv
    <2>2. CASE FanoutNext
      BY <2>2, FanoutInv
    <2>3. CASE Connect \/ Drop \/ OutboundEvict \/ OutboundUrgent
      BY <2>3, FreshInv
    <2>4. CASE Hello \/ CommandBeforeHello
      BY <2>4, HelloInv
    <2>5. CASE SubscribeRoute
      BY <2>5, RouteInv
    <2>6. CASE SpawnReplay \/ NoReplayNeeded
      BY <2>6, SpawnInv
    <2>7. CASE ConfirmLive
      BY <2>7, ConfirmLiveInv
    <2>8. CASE Unsubscribe \/ BurstEnds
      BY <2>8, UnsubscribeInv
    <2>9. CASE AcquirePermit \/ CheckWindow \/ FetchFails \/ JetStreamError
      BY <2>9, PermitInv
    <2>10. CASE FetchMessage
      BY <2>10, FetchInv
    <2>11. CASE FetchEnds \/ ProbeCap
      BY <2>11, FetchEndInv
    <2>12. CASE ConfirmReplay
      BY <2>12, ConfirmReplayInv
    <2>13. CASE SendUrgent
      BY <2>13, UrgentInv
    <2>14. CASE OutboundReplay \/ BurstNext
      BY <2>14, ReplayFrameInv
    <2>15. CASE OutboundLive
      BY <2>15, LiveFrameInv
    <2>16. CASE Done
      BY <2>16, LogInv DEF Done
    <2> QED
      BY <2>1, <2>2, <2>3, <2>4, <2>5, <2>6, <2>7, <2>8, <2>9, <2>10, <2>11, <2>12,
         <2>13, <2>14, <2>15, <2>16 DEF Next, Inbound, ReplayTask, Outbound
  <1> QED
    BY <1>1, InitInv, PTL DEF Spec

\* Between the log a replay reads and the live routing there is no gap: routing
\* before reading (dispatch_command, then replay_since) loses no message.
THEOREM ReconnectHasNoGap == Spec => []NoGap
  <1>1. DeliveryInv => NoGap
    BY DEF DeliveryInv
  <1> QED
    BY <1>1, DeliveryInvariance, PTL

\* A client that is confirmed after a replay has received all the replay owed
\* it: the confirmation goes through the replay channel, behind the messages.
THEOREM ConfirmedBehindReplay == Spec => []ConfirmAfterReplay
  <1>1. DeliveryInv => ConfirmAfterReplay
    BY DEF DeliveryInv
  <1> QED
    BY <1>1, DeliveryInvariance, PTL

\* A subscribed client whose replay has ended and whose channels are empty has
\* every retained message above its last_seq that this node fanned out.
THEOREM SettledHasAll ==
    Spec => [](/\ inb = "served" /\ routed /\ ~faulted
               /\ task.pc \in {"none", "done"} /\ urgent = "empty"
               /\ live = <<>> /\ replay = <<>>
               => \A m \in (from + 1)..fanPos : m < first \/ m \in got)
  <1>1. ASSUME DeliveryInv, inb = "served", routed, ~faulted, task.pc \in {"none", "done"},
               urgent = "empty", live = <<>>, replay = <<>>,
               NEW m \in (from + 1)..fanPos
        PROVE  m < first \/ m \in got
    <2>1. ~StillToReplay(m)
      BY <1>1 DEF StillToReplay
    <2>2. ~Queued(live, m) /\ ~Queued(replay, m)
      BY <1>1, QueuedEmpty
    <2> QED
      BY <1>1, <2>1, <2>2 DEF DeliveryInv, NoGap
  <1>2. DeliveryInv => (/\ inb = "served" /\ routed /\ ~faulted
                        /\ task.pc \in {"none", "done"} /\ urgent = "empty"
                        /\ live = <<>> /\ replay = <<>>
                        => \A m \in (from + 1)..fanPos : m < first \/ m \in got)
    BY <1>1
  <1> QED
    BY <1>2, DeliveryInvariance, PTL

=============================================================================
