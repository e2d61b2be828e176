--------------------------- MODULE ConsumerProofs ----------------------------
(***************************************************************************)
(* Proofs about Consumer, for any max_ack_pending, any number of messages  *)
(* held by the client, any length of the stream and any number of crashes, *)
(* failures and restarts.                                                  *)
(***************************************************************************)
EXTENDS Consumer, TLAPS

-----------------------------------------------------------------------------
(* Queues *)

\* What a queue holds after a message is added at its end.
LEMMA HeldAppend ==
    ASSUME NEW q \in Seq(Nat), NEW m \in Nat
    PROVE  /\ Append(q, m) \in Seq(Nat) /\ Len(Append(q, m)) = Len(q) + 1
           /\ Append(q, m)[Len(q) + 1] = m
           /\ \A i \in 1 .. Len(q) : Append(q, m)[i] = q[i]
           /\ Held(Append(q, m)) = Held(q) \cup {m}
  BY DEF Held

\* What a queue holds after its first message is taken.
LEMMA HeldTail ==
    ASSUME NEW q \in Seq(Nat), q # <<>>
    PROVE  /\ Tail(q) \in Seq(Nat) /\ Len(Tail(q)) = Len(q) - 1
           /\ Len(q) \in Nat \ {0} /\ Head(q) = q[1] /\ Head(q) \in Held(q)
           /\ \A i \in 1 .. Len(q) - 1 : Tail(q)[i] = q[i + 1]
           /\ Held(q) = Held(Tail(q)) \cup {Head(q)}
  <1>1. /\ Tail(q) \in Seq(Nat) /\ Len(Tail(q)) = Len(q) - 1
        /\ Len(q) \in Nat \ {0} /\ Head(q) = q[1]
        /\ \A i \in 1 .. Len(q) - 1 : Tail(q)[i] = q[i + 1]
    OBVIOUS
  <1>2. Head(q) \in Held(q)
    BY <1>1 DEF Held
  <1>3. ASSUME NEW i \in 1 .. Len(q) PROVE q[i] \in Held(Tail(q)) \cup {Head(q)}
    <2>1. CASE i = 1
      BY <1>1, <2>1
    <2>2. CASE i # 1
      <3>1. i - 1 \in 1 .. Len(Tail(q)) /\ Tail(q)[i - 1] = q[i]
        BY <1>1, <2>2
      <3> QED
        BY <3>1 DEF Held
    <2> QED
      BY <2>1, <2>2
  <1>4. Held(Tail(q)) \subseteq Held(q)
    BY <1>1 DEF Held
  <1> QED
    BY <1>1, <1>2, <1>3, <1>4 DEF Held

\* A message behind all that precedes it may join the queue.
LEMMA OrderedAppend ==
    ASSUME NEW B, NEW q \in Seq(Nat), NEW n \in Nat \ {0}, NEW m \in Nat,
           Ordered(B, q, n), m <= n
    PROVE  Ordered(B, Append(q, m), n) /\ (m = n => Ordered(B, Append(q, m), n + 1))
  <1>1. 1 .. m - 1 \subseteq 1 .. n - 1 /\ 1 .. n = (1 .. n - 1) \cup {n}
    OBVIOUS
  <1>2. ASSUME NEW i \in 1 .. Len(q) + 1
        PROVE  1 .. Append(q, m)[i] - 1
                 \subseteq B \cup {Append(q, m)[j] : j \in 1 .. i - 1}
    <2>1. {Append(q, m)[j] : j \in 1 .. i - 1} = {q[j] : j \in 1 .. i - 1}
      BY HeldAppend
    <2>2. CASE i = Len(q) + 1
      BY <1>1, <2>1, <2>2, HeldAppend DEF Ordered, Held
    <2>3. CASE i # Len(q) + 1
      BY <2>1, <2>3, HeldAppend DEF Ordered
    <2> QED
      BY <2>2, <2>3
  <1>3. Held(Append(q, m)) = Held(q) \cup {m} /\ Len(Append(q, m)) = Len(q) + 1
    BY HeldAppend
  <1>4. 1 .. n - 1 \subseteq B \cup Held(Append(q, m))
    BY <1>3 DEF Ordered
  <1>5. ASSUME m = n PROVE 1 .. (n + 1) - 1 \subseteq B \cup Held(Append(q, m))
    <2>1. (n + 1) - 1 = n
      OBVIOUS
    <2> QED
      BY <1>1, <1>3, <1>4, <1>5, <2>1
  <1> QED
    BY <1>2, <1>3, <1>4, <1>5 DEF Ordered

\* The first message of the queue comes behind all that precedes it.
LEMMA OrderedTail ==
    ASSUME NEW B, NEW q \in Seq(Nat), NEW n \in Nat \ {0}, Ordered(B, q, n), q # <<>>
    PROVE  1 .. Head(q) - 1 \subseteq B /\ Ordered(B \cup {Head(q)}, Tail(q), n)
  <1>1. 1 .. Head(q) - 1 \subseteq B
    BY HeldTail DEF Ordered
  <1>2. ASSUME NEW i \in 1 .. Len(q) - 1
        PROVE  1 .. Tail(q)[i] - 1
                 \subseteq B \cup {Head(q)} \cup {Tail(q)[j] : j \in 1 .. i - 1}
    <2>1. i + 1 \in 1 .. Len(q) /\ Tail(q)[i] = q[i + 1]
      BY HeldTail
    <2>2. ASSUME NEW j \in 1 .. i
          PROVE  q[j] \in {Head(q)} \cup {Tail(q)[k] : k \in 1 .. i - 1}
      <3>1. CASE j = 1
        BY <3>1, HeldTail
      <3>2. CASE j # 1
        <4>1. j - 1 \in 1 .. i - 1 /\ Tail(q)[j - 1] = q[j]
          BY <3>2, HeldTail
        <4> QED
          BY <4>1
      <3> QED
        BY <3>1, <3>2
    <2>3. 1 .. q[i + 1] - 1 \subseteq B \cup {q[j] : j \in 1 .. i}
      BY <2>1 DEF Ordered
    <2> QED
      BY <2>1, <2>2, <2>3
  <1>3. 1 .. n - 1 \subseteq B \cup {Head(q)} \cup Held(Tail(q))
    BY HeldTail DEF Ordered
  <1> QED
    BY <1>1, <1>2, <1>3, HeldTail DEF Ordered

\* A queue may be given up once what it holds is accounted for.
LEMMA OrderedEmpty ==
    ASSUME NEW B, NEW q \in Seq(Nat), NEW n \in Nat, Ordered(B, q, n)
    PROVE  Ordered(B \cup Held(q), <<>>, n)
  BY DEF Ordered

-----------------------------------------------------------------------------
(* The stream and the durable consumer *)

\* InOrder survives when only unacked shrinks.
LEMMA SameOrder ==
    ASSUME InOrder, UNCHANGED <<loopVars, next, handled, lost>>, unacked' \subseteq unacked
    PROVE  InOrder'
  BY DEF InOrder, InHand, loopVars

\* The same when the loop moves between places where nothing is in hand.
LEMMA IdleOrder ==
    ASSUME InOrder, InHand = {}, InHand' = {},
           UNCHANGED <<inbox, next, unacked, handled, lost>>
    PROVE  InOrder'
  BY DEF InOrder

\* A publication only makes the stream longer.
LEMMA PublishInv == ASSUME ConsumerInv, Publish \/ ClientMessage PROVE ConsumerInv'
  <1> USE DEF ConsumerInv, Publish, ClientMessage, loopVars, ackVars, durableVars, seen
  <1>1. ConsumerTypeOK'
    <2>1. Msgs \subseteq Msgs' /\ published' \in Nat /\ next' \in 1 .. published' + 1
      BY DEF ConsumerTypeOK, Msgs
    <2>2. Held(inbox') = Held(inbox)
      OBVIOUS
    <2> QED
      BY <2>1, <2>2 DEF ConsumerTypeOK, Pulling, Handled
  <1>2. InOrder'
    BY SameOrder
  <1> QED
    BY <1>1, <1>2 DEF AckAfterHandling, GapOnlyIfLost, Up, Pulling, Handled

\* A message sent for the first time, or again, comes behind all that was sent
\* before it.
LEMMA SendInv ==
    ASSUME ConsumerInv, Deliver \/ \E m \in Msgs : Redeliver(m)
    PROVE  ConsumerInv'
  <1> USE DEF ConsumerInv, ackVars, durableVars, stream, seen, CanSend
  <1>a. inbox \in Seq(Nat) /\ next \in Nat \ {0} /\ published \in Nat
    BY DEF ConsumerTypeOK
  <1>b. UNCHANGED <<published, named, main, loop, hand, acks, wire, flushing, acked,
                    faults, handled, lost>>
    BY DEF Deliver, Redeliver
  <1>c. Up /\ loop \in Pulling
    BY DEF Deliver, Redeliver
  <1>0. inbox \in Seq(Nat) /\ next \in Nat \ {0} /\ Msgs' = Msgs /\ InHand' = InHand
    BY <1>a, <1>b DEF Msgs, InHand
  <1>1. PICK m \in Msgs :
            /\ inbox' = Append(inbox, m) /\ unacked' = unacked \cup {m}
            /\ \/ m = next /\ next' = next + 1
               \/ m < next /\ next' = next
    <2>1. CASE Deliver
      <3>1. next \in Msgs
        BY <1>a, <2>1 DEF Deliver, Msgs
      <3> QED
        BY <2>1, <3>1 DEF Deliver
    <2>2. ASSUME NEW m \in Msgs, Redeliver(m)
          PROVE  /\ inbox' = Append(inbox, m) /\ unacked' = unacked \cup {m}
                 /\ m < next /\ next' = next
      BY <2>2 DEF Redeliver, InOrder
    <2> QED
      BY <2>1, <2>2
  <1>2. m \in Nat
    BY DEF Msgs
  <1>3. ConsumerTypeOK'
    <2>1. inbox' \in Seq(Nat) /\ Held(inbox') \subseteq Msgs
      BY <1>0, <1>1, <1>2, HeldAppend DEF ConsumerTypeOK
    <2>2. next' \in 1 .. published + 1
      BY <1>1, <1>2, <1>a DEF ConsumerTypeOK, Msgs
    <2> QED
      BY <1>b, <1>0, <1>1, <2>1, <2>2 DEF ConsumerTypeOK, Pulling, Handled
  <1>4. InOrder'
    <2>1. Ordered(handled \cup lost \cup InHand, inbox', next')
      BY <1>0, <1>1, <1>2, OrderedAppend DEF InOrder
    <2>2. \A k \in unacked' : k < next'
      BY <1>0, <1>1, <1>2 DEF InOrder, ConsumerTypeOK, Msgs
    <2> QED
      BY <1>b, <1>0, <2>1, <2>2 DEF InOrder
  <1> QED
    BY <1>b, <1>c, <1>3, <1>4 DEF AckAfterHandling, GapOnlyIfLost, Up, Pulling, Handled

\* Acks move from handled to spawned, sent and arrived.
LEMMA AckInv ==
    ASSUME ConsumerInv, NEW m \in Msgs, AckArrives(m) \/ AckLost(m) \/ SendAck(m)
    PROVE  ConsumerInv'
  <1> USE DEF ConsumerInv, AckArrives, AckLost, SendAck, LoopStep, Fault, loopVars,
              durableVars, stream, seen
  <1>1. ConsumerTypeOK'
    <2>1. Msgs' = Msgs /\ Held(inbox') = Held(inbox)
      BY DEF Msgs
    <2> QED
      BY <2>1 DEF ConsumerTypeOK, Pulling, Handled
  <1>2. InOrder'
    BY SameOrder
  <1> QED
    BY <1>1, <1>2 DEF AckAfterHandling, GapOnlyIfLost, Up, Pulling, Handled

-----------------------------------------------------------------------------
(* fanout_loop *)

\* The loop starts, fails to start, waits to reconnect, or spawns an ack.
LEMMA LoopInv ==
    ASSUME ConsumerInv, StartConsumer \/ StartFails \/ Reconnect \/ SpawnAck
    PROVE  ConsumerInv'
  <1> USE DEF ConsumerInv, StartConsumer, StartFails, Reconnect, SpawnAck, LoopStep, Fault,
              durableVars, stream, seen, Handled
  <1>1. ConsumerTypeOK'
    <2>1. Msgs' = Msgs /\ Held(inbox') = Held(inbox)
      BY DEF Msgs
    <2> QED
      BY <2>1 DEF ConsumerTypeOK, Pulling
  <1>2. InOrder'
    <2>1. InHand = {} /\ InHand' = {}
      BY DEF InHand
    <2> QED
      BY <2>1, IdleOrder
  <1> QED
    BY <1>1, <1>2 DEF AckAfterHandling, GapOnlyIfLost, Up, Pulling

\* The message stream ends: what it held is lost.
LEMMA StreamEndsInv == ASSUME ConsumerInv, StreamEnds PROVE ConsumerInv'
  <1> USE DEF ConsumerInv, StreamEnds, LoopStep, Fault, durableVars, stream
  <1>1. ConsumerTypeOK'
    <2>1. Msgs' = Msgs /\ Held(inbox') = {}
      BY DEF Msgs, Held
    <2> QED
      BY <2>1 DEF ConsumerTypeOK, Pulling, Handled
  <1>2. InOrder'
    <2>1. InHand = {} /\ InHand' = {}
      BY DEF InHand
    <2>2. Ordered(handled \cup lost \cup Held(inbox), <<>>, next)
      <3>1. Ordered(handled \cup lost, inbox, next)
        BY <2>1 DEF InOrder
      <3>2. inbox \in Seq(Nat) /\ next \in Nat
        BY DEF ConsumerTypeOK
      <3> QED
        BY <3>1, <3>2, OrderedEmpty
    <2>3. handled' \cup lost' \cup InHand' = handled \cup lost \cup Held(inbox)
      BY <2>1
    <2> QED
      BY <2>1, <2>2, <2>3 DEF InOrder
  <1> QED
    BY <1>1, <1>2 DEF AckAfterHandling, GapOnlyIfLost, Up, Pulling, Handled

\* messages.next() returns the first message of the inbox.
LEMMA ReceiveInv == ASSUME ConsumerInv, Receive PROVE ConsumerInv'
  <1> USE DEF ConsumerInv, Receive, LoopStep, durableVars, stream, seen
  <1>0. inbox \in Seq(Nat) /\ next \in Nat \ {0} /\ Msgs' = Msgs /\ hand' \in Msgs
    BY HeldTail DEF ConsumerTypeOK, Msgs
  <1>1. ConsumerTypeOK'
    <2>1. inbox' \in Seq(Nat) /\ Held(inbox') \subseteq Msgs
      BY <1>0, HeldTail DEF ConsumerTypeOK
    <2>2. hand' \in Nat
      BY <1>0 DEF Msgs
    <2> QED
      BY <1>0, <2>1, <2>2 DEF ConsumerTypeOK, Pulling, Handled
  <1>2. InOrder'
    <2>1. InHand = {} /\ InHand' = {Head(inbox)}
      BY DEF InHand
    <2>2. Ordered(handled \cup lost, inbox, next)
      BY <2>1 DEF InOrder
    <2>3. /\ 1 .. Head(inbox) - 1 \subseteq handled \cup lost
          /\ Ordered(handled \cup lost \cup {Head(inbox)}, Tail(inbox), next)
      BY <1>0, <2>2, OrderedTail
    <2> QED
      BY <2>1, <2>3 DEF InOrder
  <1> QED
    BY <1>1, <1>2 DEF AckAfterHandling, GapOnlyIfLost, Up, Pulling, Handled

\* The message in hand is handled, after all that precedes it.
LEMMA ProcessInv == ASSUME ConsumerInv, Process PROVE ConsumerInv'
  <1> USE DEF ConsumerInv, Process, LoopStep, durableVars, stream, Handled
  <1>0. hand \in Msgs /\ Msgs' = Msgs /\ InHand = {hand} /\ InHand' = {}
    BY DEF ConsumerTypeOK, Msgs, Pulling, InHand
  <1>1. ConsumerTypeOK'
    BY <1>0 DEF ConsumerTypeOK, Pulling, Held
  <1>2. InOrder'
    <2>1. handled' \cup lost' \cup InHand' = handled \cup lost \cup InHand
      BY <1>0
    <2> QED
      BY <1>0, <2>1 DEF InOrder
  <1>3. GapOnlyIfLost'
    <2> SUFFICES ASSUME NEW m \in handled', NEW k \in 1 .. m - 1
                 PROVE  k \in handled' \cup lost'
      BY DEF GapOnlyIfLost
    <2>1. CASE m = hand
      BY <1>0, <2>1 DEF InOrder
    <2>2. CASE m # hand
      BY <2>2 DEF GapOnlyIfLost
    <2> QED
      BY <2>1, <2>2
  <1> QED
    BY <1>0, <1>1, <1>2, <1>3 DEF AckAfterHandling, Up, Pulling

-----------------------------------------------------------------------------
(* The process *)

\* A new process starts with nothing in hand; one without its old name starts
\* with the first message.
LEMMA BootInv == ASSUME ConsumerInv, Boot PROVE ConsumerInv'
  <1> USE DEF ConsumerInv, Boot, Connect, Fault, durableVars, stream, seen
  <1>0. loop = "none" /\ inbox = <<>> /\ wire = {} /\ Msgs' = Msgs
    BY DEF Pulling, Handled, Msgs
  <1>1. ConsumerTypeOK'
    <2>1. next' \in 1 .. published + 1
      BY DEF ConsumerTypeOK
    <2> QED
      BY <1>0, <2>1 DEF ConsumerTypeOK, Pulling, Handled, Held
  <1>2. InOrder'
    <2>1. InHand = {} /\ InHand' = {}
      BY <1>0 DEF InHand
    <2>2. CASE UNCHANGED durableVars
      BY <2>1, <2>2, IdleOrder
    <2>3. CASE next' = 1 /\ unacked' = {}
      <3>1. Ordered(handled \cup lost, <<>>, 1)
        BY DEF Ordered
      <3> QED
        BY <1>0, <2>1, <2>3, <3>1 DEF InOrder
    <2> QED
      BY <2>2, <2>3
  <1> QED
    BY <1>0, <1>1, <1>2 DEF AckAfterHandling, GapOnlyIfLost, Up, Pulling, Handled

\* A process ends, whatever it was doing.
LEMMA GoneInv ==
    ASSUME ConsumerInv, Gone, main' \in {"crashed", "exited"}, faults' \in Nat
    PROVE  ConsumerInv'
  <1> USE DEF ConsumerInv, Gone, durableVars, stream
  <1>1. ConsumerTypeOK'
    <2>1. Msgs' = Msgs /\ Held(inbox') = {}
      BY DEF Msgs, Held
    <2>2. lost' \subseteq Msgs
      BY DEF ConsumerTypeOK, Pulling
    <2>3. inbox' \in Seq(Nat)
      OBVIOUS
    <2> QED
      BY <2>1, <2>2, <2>3 DEF ConsumerTypeOK, Pulling, Handled
  <1>2. InOrder'
    <2>1. InHand' = {}
      BY DEF InHand
    <2>2. Ordered(handled \cup lost \cup InHand \cup Held(inbox), <<>>, next)
      BY OrderedEmpty DEF InOrder, ConsumerTypeOK
    <2>3. handled' \cup lost' \cup InHand' = handled \cup lost \cup InHand \cup Held(inbox)
      BY <2>1 DEF InHand
    <2> QED
      BY <2>1, <2>2, <2>3 DEF InOrder
  <1> QED
    BY <1>1, <1>2 DEF AckAfterHandling, GapOnlyIfLost, Up, Pulling, Handled

\* flush is called: only the process's own state moves.
LEMMA FlushInv == ASSUME ConsumerInv, Flush PROVE ConsumerInv'
  <1> USE DEF ConsumerInv, Flush, Fault, loopVars, durableVars, stream, seen
  <1>1. ConsumerTypeOK'
    BY DEF ConsumerTypeOK, Pulling, Handled, Msgs, Held
  <1>2. InOrder'
    BY SameOrder
  <1> QED
    BY <1>1, <1>2 DEF AckAfterHandling, GapOnlyIfLost, Up, Pulling, Handled

-----------------------------------------------------------------------------
(* Theorems *)

\* The inductive invariant holds in every reachable state, whatever crashes,
\* redeliveries, lost acks and restarts there are.
THEOREM ConsumerInvariance == ConsumerSpec => []ConsumerInv
  <1>1. ConsumerInit => ConsumerInv
    BY DEF ConsumerInit, ConsumerInv, ConsumerTypeOK, Msgs, Pulling, Handled, Held, Up,
           AckAfterHandling, InOrder, InHand, Ordered, GapOnlyIfLost
  <1>2. ConsumerInv /\ [ConsumerNext]_consumerVars => ConsumerInv'
    <2> SUFFICES ASSUME ConsumerInv, [ConsumerNext]_consumerVars PROVE ConsumerInv'
      OBVIOUS
    <2>1. ASSUME Crash \/ Exit \/ FlushFails PROVE ConsumerInv'
      BY <2>1, GoneInv DEF Crash, Exit, FlushFails, Fault, ConsumerInv, ConsumerTypeOK
    <2>2. CASE UNCHANGED consumerVars
      BY <2>2 DEF ConsumerInv, ConsumerTypeOK, Msgs, Pulling, Handled, Held, Up,
                  AckAfterHandling, InOrder, InHand, Ordered, GapOnlyIfLost,
                  consumerVars, stream, loopVars, ackVars, durableVars, seen
    <2> QED
      BY <2>1, <2>2, PublishInv, SendInv, AckInv, LoopInv, StreamEndsInv, ReceiveInv,
         ProcessInv, BootInv, FlushInv DEF ConsumerNext
  <1> QED
    BY <1>1, <1>2, PTL DEF ConsumerSpec

\* Redelivery alone reorders nothing: what is handled ahead of its turn follows
\* a message that was lost on its way to run_consumer.
THEOREM GapsAreLosses == ConsumerSpec => []GapOnlyIfLost
  <1>1. ConsumerInv => GapOnlyIfLost
    BY DEF ConsumerInv
  <1> QED
    BY <1>1, ConsumerInvariance, PTL

\* The consumer implements the at-least-once feed, for any number of messages
\* and faults: no message is acknowledged before it has been handled.
THEOREM FeedRefinement == ConsumerSpec => ImplementsFeed
  <1>1. ConsumerInit => Abstract!FeedInit
    BY DEF ConsumerInit, Abstract!FeedInit
  <1>2. ConsumerInv /\ [ConsumerNext]_consumerVars => [Abstract!FeedNext]_(Abstract!feedVars)
    <2> SUFFICES ASSUME ConsumerInv, [ConsumerNext]_consumerVars
                 PROVE  Abstract!FeedNext \/ UNCHANGED Abstract!feedVars
      OBVIOUS
    <2> USE DEF stream, loopVars, ackVars, durableVars, seen, Abstract!feedVars
    <2>1. ASSUME Publish \/ ClientMessage PROVE Abstract!PublishOne
      BY <2>1 DEF Publish, ClientMessage, Abstract!PublishOne
    <2>2. ASSUME Process PROVE Abstract!HandleOne
      BY <2>2 DEF Process, LoopStep, Abstract!HandleOne, ConsumerInv, ConsumerTypeOK,
                  Pulling, Msgs
    <2>3. ASSUME NEW m \in Msgs, AckArrives(m) PROVE Abstract!SettleOne
      BY <2>3 DEF AckArrives, Abstract!SettleOne, ConsumerInv, AckAfterHandling
    <2>4. ASSUME Boot PROVE Abstract!StartOver \/ UNCHANGED Abstract!feedVars
      BY <2>4 DEF Boot, Abstract!StartOver
    <2>5. ASSUME \/ Deliver \/ StartConsumer \/ StartFails \/ StreamEnds \/ Reconnect
                 \/ Receive \/ SpawnAck \/ Crash \/ Flush \/ Exit \/ FlushFails
                 \/ \E m \in Msgs : Redeliver(m) \/ AckLost(m) \/ SendAck(m)
                 \/ UNCHANGED consumerVars
          PROVE  UNCHANGED Abstract!feedVars
      BY <2>5 DEF Deliver, StartConsumer, StartFails, StreamEnds, Reconnect, Receive,
                  SpawnAck, Crash, Flush, Exit, FlushFails, Gone, Redeliver, AckLost,
                  SendAck, LoopStep, consumerVars
    <2> QED
      BY <2>1, <2>2, <2>3, <2>4, <2>5 DEF ConsumerNext, Abstract!FeedNext
  <1> QED
    BY <1>1, <1>2, ConsumerInvariance, PTL DEF ConsumerSpec, ImplementsFeed, Abstract!FeedSpec
=============================================================================
