--------------------------- MODULE RegistryProofs ---------------------------
(***************************************************************************)
(* Proofs about Registry, for every finite set of connections, every set   *)
(* of streams and every channel capacity.                                  *)
(***************************************************************************)
EXTENDS Registry, FiniteSetTheorems, TLAPS

USE ConnsAssumption, StreamsAssumption, FanAssumption, CapAssumption

\* The initial maps, channels and program counters have their types.
LEMMA InitType == Init => TypeOK
  <1> SUFFICES ASSUME Init PROVE TypeOK
    OBVIOUS
  <1>1. (CHOOSE s \in Streams : TRUE) \in Streams
    OBVIOUS
  <1> QED
    BY <1>1 DEF Init, TypeOK, Procs, HandlerPC, FanPC, DeregPC

\* Each access of register keeps the types.
LEMMA RegisterType ==
    ASSUME TypeOK, NEW c \in Conns, Register(c) PROVE TypeOK'
  <1>1. CASE RegisterConnection(c)
    BY <1>1 DEF TypeOK, RegisterConnection, Goto, Procs, HandlerPC, FanPC, DeregPC, chans
  <1>2. CASE RegisterStreams(c)
    BY <1>2 DEF TypeOK, RegisterStreams, Goto, Procs, HandlerPC, FanPC, DeregPC, chans
  <1>3. CASE RegisterActive(c)
    BY <1>3 DEF TypeOK, RegisterActive, Goto, Procs, HandlerPC, FanPC, DeregPC, chans
  <1> QED
    BY <1>1, <1>2, <1>3 DEF Register

\* Both accesses of subscribe keep the types.
LEMMA SubscribeType ==
    ASSUME TypeOK, NEW c \in Conns,
           (\E s \in Streams : SubscribePush(c, s)) \/ SubscribeRecord(c)
    PROVE  TypeOK'
  <1>1. ASSUME NEW s \in Streams, SubscribePush(c, s) PROVE TypeOK'
    BY <1>1 DEF TypeOK, SubscribePush, Goto, Procs, HandlerPC, FanPC, DeregPC, chans
  <1>2. CASE SubscribeRecord(c)
    BY <1>2 DEF TypeOK, SubscribeRecord, Goto, Procs, HandlerPC, FanPC, DeregPC, chans
  <1> QED
    BY <1>1, <1>2

\* The accesses of unsubscribe keep the types.
LEMMA UnsubscribeType ==
    ASSUME TypeOK, NEW c \in Conns,
           (\E s \in Streams : UnsubscribeRetain(c, s)) \/ Unsubscribe(c)
    PROVE  TypeOK'
  <1>1. ASSUME NEW s \in Streams, UnsubscribeRetain(c, s) PROVE TypeOK'
    BY <1>1 DEF TypeOK, UnsubscribeRetain, RetainOthers, Goto, Procs, HandlerPC, FanPC, DeregPC, chans
  <1>2. CASE UnsubscribeRemoveIf(c)
    BY <1>2 DEF TypeOK, UnsubscribeRemoveIf, RemoveIfEmpty, Goto, Procs, HandlerPC, FanPC, DeregPC, chans
  <1>3. CASE UnsubscribeForget(c)
    BY <1>3 DEF TypeOK, UnsubscribeForget, Goto, Procs, HandlerPC, FanPC, DeregPC, chans
  <1> QED
    BY <1>1, <1>2, <1>3 DEF Unsubscribe

\* The accesses of deregister keep the types, whichever task runs it.
LEMMA DeregisterType ==
    ASSUME TypeOK, NEW p \in Procs, Deregister(p) PROVE TypeOK'
  <1> USE DEF Target, Finished, Goto, Procs, HandlerPC, FanPC, DeregPC, chans
  <1>1. CASE DeregisterTake(p)
    BY <1>1 DEF TypeOK, DeregisterTake
  <1>2. ASSUME NEW s \in Streams, DeregisterRetain(p, s) PROVE TypeOK'
    BY <1>2 DEF TypeOK, DeregisterRetain, RetainOthers
  <1>3. CASE DeregisterRemoveIf(p)
    BY <1>3 DEF TypeOK, DeregisterRemoveIf, RemoveIfEmpty
  <1>4. CASE DeregisterEntry(p)
    BY <1>4 DEF TypeOK, DeregisterEntry
  <1>5. CASE DeregisterActive(p)
    BY <1>5 DEF TypeOK, DeregisterActive
  <1> QED
    BY <1>1, <1>2, <1>3, <1>4, <1>5 DEF Deregister

\* The steps of a fan-out keep the types.
LEMMA FanoutType ==
    ASSUME TypeOK, (\E s \in Streams : FanoutBegin(s)) \/ Fanout PROVE TypeOK'
  <1> USE DEF Goto, Procs, HandlerPC, FanPC, DeregPC, chans, maps
  <1>1. ASSUME NEW s \in Streams, FanoutBegin(s) PROVE TypeOK'
    BY <1>1 DEF TypeOK, FanoutBegin
  <1>2. CASE FanoutRelease
    BY <1>2 DEF TypeOK, FanoutRelease, DropGuard
  <1>3. ASSUME NEW c \in Conns, FanoutSend(c) PROVE TypeOK'
    BY <1>3 DEF TypeOK, FanoutSend, FanoutVisit, CanSend
  <1>4. ASSUME NEW c \in Conns, FanoutEvict(c) PROVE TypeOK'
    BY <1>4 DEF TypeOK, FanoutEvict, FanoutVisit, SignalEvict
  <1>5. ASSUME NEW c \in Conns, FanoutSkip(c) PROVE TypeOK'
    BY <1>5 DEF TypeOK, FanoutSkip, FanoutVisit
  <1>6. ASSUME NEW c \in Conns, FanoutDeregister(c) PROVE TypeOK'
    BY <1>6 DEF TypeOK, FanoutDeregister
  <1> QED
    BY <1>1, <1>2, <1>3, <1>4, <1>5, <1>6 DEF Fanout

\* Leaving, and the two ends of the live channel, keep the types.
LEMMA ChannelType ==
    ASSUME TypeOK, NEW c \in Conns,
           HandlerLeave(c) \/ HandlerFrame(c) \/ OutboundRecv(c) \/ OutboundEnd(c)
    PROVE  TypeOK'
  <1> USE DEF Goto, Procs, HandlerPC, FanPC, DeregPC, chans, maps, tasks
  <1>1. CASE HandlerLeave(c)
    BY <1>1 DEF TypeOK, HandlerLeave
  <1>2. CASE HandlerFrame(c)
    BY <1>2 DEF TypeOK, HandlerFrame, CanSend
  <1>3. CASE OutboundRecv(c)
    BY <1>3 DEF TypeOK, OutboundRecv
  <1>4. CASE OutboundEnd(c)
    BY <1>4 DEF TypeOK, OutboundEnd
  <1> QED
    BY <1>1, <1>2, <1>3, <1>4

\* Every step of the registry, and stuttering, keeps the types.
LEMMA NextType == TypeOK /\ [Next]_vars => TypeOK'
  <1> SUFFICES ASSUME TypeOK, [Next]_vars PROVE TypeOK'
    OBVIOUS
  <1>1. ASSUME NEW c \in Conns, Register(c) PROVE TypeOK'
    BY <1>1, RegisterType
  <1>2. ASSUME NEW c \in Conns,
               (\E s \in Streams : SubscribePush(c, s)) \/ SubscribeRecord(c)
        PROVE  TypeOK'
    BY <1>2, SubscribeType
  <1>3. ASSUME NEW c \in Conns,
               (\E s \in Streams : UnsubscribeRetain(c, s)) \/ Unsubscribe(c)
        PROVE  TypeOK'
    BY <1>3, UnsubscribeType
  <1>4. ASSUME NEW c \in Conns,
               HandlerLeave(c) \/ HandlerFrame(c) \/ OutboundRecv(c) \/ OutboundEnd(c)
        PROVE  TypeOK'
    BY <1>4, ChannelType
  <1>5. ASSUME NEW p \in Procs, Deregister(p) PROVE TypeOK'
    BY <1>5, DeregisterType
  <1>6. ASSUME (\E s \in Streams : FanoutBegin(s)) \/ Fanout PROVE TypeOK'
    BY <1>6, FanoutType
  <1>7. CASE UNCHANGED vars
    BY <1>7 DEF TypeOK, vars
  <1> QED
    BY <1>1, <1>2, <1>3, <1>4, <1>5, <1>6, <1>7 DEF Next, Done

\* The registry's maps, channels and program counters keep their types.
THEOREM TypeCorrect == Spec => []TypeOK
  <1>1. Init => TypeOK
    BY InitType
  <1>2. TypeOK /\ [Next]_vars => TypeOK'
    BY NextType
  <1> QED
    BY <1>1, <1>2, PTL DEF Spec

-----------------------------------------------------------------------------
(* RegistryInv is inductive: one lemma per step. *)

\* What active counts is a finite set.
LEMMA CountedFinite ==
    ASSUME TypeOK PROVE IsFiniteSet(Counted) /\ Cardinality(Counted) \in Nat
  <1>1. Counted \subseteq Conns
    BY DEF Counted
  <1>2. IsFiniteSet(Counted)
    BY <1>1, FS_Subset
  <1> QED
    BY <1>2, FS_CardinalityType

\* connections.insert: the id is not counted before the third access.
LEMMA RegisterConnectionInv ==
    ASSUME RegistryInv, NEW c \in Conns, RegisterConnection(c)
    PROVE  RegistryInv'
  <1> USE DEF RegisterConnection, Goto, Procs, HandlerPC, FanPC, DeregPC,
              Target, maps, chans
  <1>1. TypeOK'
    BY RegisterType DEF RegistryInv, Register
  <1>2. HandlerState'
    BY DEF RegistryInv, TypeOK, HandlerState, Accounted, Owned,
           DeregisterState, IterationStable, Registering, Targeted, Leaving
  <1>3. DeregisterState'
    BY DEF RegistryInv, TypeOK, DeregisterState, HandlerState, Registering,
           Targeted
  <1>4. Accounted'
    BY DEF RegistryInv, TypeOK, Accounted, Owned, Leaving
  <1>5. SubscribedIsRouted' /\ RoutedOnce' /\ GuardHeld' /\
         IterationStable'
    BY DEF RegistryInv, TypeOK, SubscribedIsRouted, RoutedOnce, GuardHeld,
           IterationStable
  <1>6. NoEmptyStreamLeft' /\ TargetedIsTold' /\ EvictedIsTold'
    BY DEF RegistryInv, TypeOK, NoEmptyStreamLeft, IsEmpty, TargetedIsTold,
           Targeted, EvictedIsTold, Serving
  <1>7. Counted' = Counted
    BY DEF RegistryInv, TypeOK, Counted, HandlerState, DeregisterState,
           Registering, Targeted
  <1> QED
    BY <1>1, <1>2, <1>3, <1>4, <1>5, <1>6, <1>7 DEF RegistryInv, ActiveExact

\* conn_streams.insert: the reverse entry starts empty.
LEMMA RegisterStreamsInv ==
    ASSUME RegistryInv, NEW c \in Conns, RegisterStreams(c)
    PROVE  RegistryInv'
  <1> USE DEF RegisterStreams, Goto, Procs, HandlerPC, FanPC, DeregPC, Target,
              maps, chans
  <1>1. TypeOK'
    BY RegisterType DEF RegistryInv, Register
  <1>2. Accounted'
    <2> SUFFICES ASSUME NEW t \in Streams, NEW d \in Conns, subs'[t][d] > 0
                 PROVE  t \in streamKeys' /\ Owned(d, t)'
      BY DEF Accounted
    <2>1. subs[t][d] > 0 /\ t \in streamKeys /\ Owned(d, t)
      BY DEF RegistryInv, TypeOK, Accounted
    <2>2. Owned(d, t)'
      BY <2>1 DEF RegistryInv, TypeOK, HandlerState, Registering, Owned, Leaving
    <2> QED
      BY <2>1, <2>2
  <1>3. SubscribedIsRouted'
    BY DEF RegistryInv, TypeOK, SubscribedIsRouted, HandlerState,
           DeregisterState
  <1>4. HandlerState'
    BY DEF RegistryInv, TypeOK, HandlerState, Accounted, Owned,
           DeregisterState, IterationStable, Registering, Targeted, Leaving
  <1>5. DeregisterState'
    BY DEF RegistryInv, TypeOK, DeregisterState, HandlerState, Registering,
           Targeted
  <1>6. RoutedOnce' /\ GuardHeld' /\ IterationStable'
    BY DEF RegistryInv, TypeOK, RoutedOnce, GuardHeld, IterationStable
  <1>7. NoEmptyStreamLeft' /\ TargetedIsTold' /\ EvictedIsTold'
    BY DEF RegistryInv, TypeOK, NoEmptyStreamLeft, IsEmpty, TargetedIsTold,
           Targeted, EvictedIsTold, Serving
  <1>8. Counted' = Counted
    BY DEF RegistryInv, TypeOK, Counted, HandlerState, DeregisterState,
           Registering, Targeted
  <1> QED
    BY <1>1, <1>2, <1>3, <1>4, <1>5, <1>6, <1>7, <1>8 DEF RegistryInv, ActiveExact

\* active.fetch_add: the id enters the set that active counts.
LEMMA RegisterActiveInv ==
    ASSUME RegistryInv, NEW c \in Conns, RegisterActive(c)
    PROVE  RegistryInv'
  <1> USE DEF RegisterActive, Goto, Procs, HandlerPC, FanPC, DeregPC, Target,
              maps, chans
  <1>1. TypeOK'
    BY RegisterType DEF RegistryInv, Register
  <1>2. Accounted'
    BY DEF RegistryInv, TypeOK, Accounted, Owned, HandlerState,
           DeregisterState, Leaving
  <1>3. HandlerState'
    BY DEF RegistryInv, TypeOK, HandlerState, Accounted, Owned,
           DeregisterState, IterationStable, Registering, Targeted, Leaving
  <1>4. EvictedIsTold'
    BY DEF RegistryInv, TypeOK, EvictedIsTold, TargetedIsTold, HandlerState,
           Targeted, Serving, Registering
  <1>5. DeregisterState'
    BY DEF RegistryInv, TypeOK, DeregisterState
  <1>6. SubscribedIsRouted' /\ RoutedOnce' /\ GuardHeld' /\
         IterationStable'
    BY DEF RegistryInv, TypeOK, SubscribedIsRouted, RoutedOnce, GuardHeld,
           IterationStable
  <1>7. NoEmptyStreamLeft' /\ TargetedIsTold'
    BY DEF RegistryInv, TypeOK, NoEmptyStreamLeft, IsEmpty, TargetedIsTold,
           Targeted
  <1>8. ActiveExact'
    <2>1. Counted' = Counted \cup {c} /\ c \notin Counted
      BY DEF RegistryInv, TypeOK, Counted, HandlerState, DeregisterState,
             Registering, Targeted
    <2>2. IsFiniteSet(Counted) /\ Cardinality(Counted) \in Nat
      BY CountedFinite DEF RegistryInv
    <2>3. Cardinality(Counted \cup {c}) = Cardinality(Counted) + 1
      BY <2>1, <2>2, FS_AddElement
    <2> QED
      BY <2>1, <2>3 DEF RegistryInv, ActiveExact
  <1> QED
    BY <1>1, <1>2, <1>3, <1>4, <1>5, <1>6, <1>7, <1>8 DEF RegistryInv, ActiveExact

\* The push of subscribe: the id was not in the vector, because nothing
\* accounts for it.
LEMMA SubscribePushInv ==
    ASSUME RegistryInv, NEW c \in Conns, NEW s \in Streams, SubscribePush(c, s)
    PROVE  RegistryInv'
  <1> USE DEF SubscribePush, MaySubscribe, Iterating, Goto, Procs, HandlerPC,
              FanPC, DeregPC, Target, maps, chans
  <1>1. TypeOK'
    BY SubscribeType DEF RegistryInv
  <1>2. Accounted'
    <2> SUFFICES ASSUME NEW t \in Streams, NEW d \in Conns, subs'[t][d] > 0
                 PROVE  t \in streamKeys' /\ Owned(d, t)'
      BY DEF Accounted
    <2>1. CASE d = c /\ t = s
      BY <2>1 DEF RegistryInv, TypeOK, Owned
    <2>2. CASE ~(d = c /\ t = s)
      <3>1. subs[t][d] > 0 /\ t \in streamKeys /\ Owned(d, t)
        BY <2>2 DEF RegistryInv, TypeOK, Accounted
      <3>2. Owned(d, t)'
        BY <3>1 DEF RegistryInv, TypeOK, Owned, Leaving
      <3> QED
        BY <3>1, <3>2
    <2> QED
      BY <2>1, <2>2
  <1>3. SubscribedIsRouted'
    BY DEF RegistryInv, TypeOK, SubscribedIsRouted, HandlerState,
           DeregisterState
  <1>4. RoutedOnce'
    <2>1. ~Owned(c, s)
      BY DEF RegistryInv, TypeOK, DeregisterState, Owned, Leaving
    <2>2. subs[s][c] = 0
      BY <2>1 DEF RegistryInv, TypeOK, Accounted
    <2> QED
      BY <2>2 DEF RegistryInv, TypeOK, RoutedOnce
  <1>5. HandlerState'
    BY DEF RegistryInv, TypeOK, HandlerState, Accounted, Owned,
           DeregisterState, IterationStable, Registering, Targeted, Leaving
  <1>6. IterationStable'
    BY DEF RegistryInv, TypeOK, IterationStable, GuardHeld, IsEmpty
  <1>7. NoEmptyStreamLeft'
    <2> SUFFICES ASSUME NEW t \in streamKeys', IsEmpty(t)'
                 PROVE  \E p \in Procs :
                          pc'[p] \in {"unsub_rmif", "dereg_rmif"} /\ cur'[p] = t
      BY DEF NoEmptyStreamLeft
    <2>1. t # s
      BY DEF RegistryInv, TypeOK, IsEmpty
    <2>2. t \in streamKeys /\ IsEmpty(t)
      BY <2>1 DEF RegistryInv, TypeOK, IsEmpty
    <2>3. PICK p \in Procs : pc[p] \in {"unsub_rmif", "dereg_rmif"} /\ cur[p] = t
      BY <2>2 DEF RegistryInv, NoEmptyStreamLeft
    <2> QED
      BY <2>3 DEF RegistryInv, TypeOK
  <1>8. DeregisterState' /\ GuardHeld' /\ TargetedIsTold' /\
         EvictedIsTold'
    BY DEF RegistryInv, TypeOK, DeregisterState, GuardHeld, TargetedIsTold,
           Targeted, EvictedIsTold, Serving
  <1>9. Counted' = Counted
    BY DEF RegistryInv, TypeOK, Counted, HandlerState, DeregisterState,
           Registering, Targeted
  <1> QED
    BY <1>1, <1>2, <1>3, <1>4, <1>5, <1>6, <1>7, <1>8, <1>9 DEF RegistryInv, ActiveExact

\* The second push of subscribe: the reverse map takes over the account.
LEMMA SubscribeRecordInv ==
    ASSUME RegistryInv, NEW c \in Conns, SubscribeRecord(c)
    PROVE  RegistryInv'
  <1> USE DEF SubscribeRecord, Goto, Procs, HandlerPC, FanPC, DeregPC, Target,
              maps, chans
  <1>1. TypeOK'
    BY SubscribeType DEF RegistryInv
  <1>2. Accounted'
    <2> SUFFICES ASSUME NEW t \in Streams, NEW d \in Conns, subs'[t][d] > 0
                 PROVE  t \in streamKeys' /\ Owned(d, t)'
      BY DEF Accounted
    <2>1. subs[t][d] > 0 /\ t \in streamKeys /\ Owned(d, t)
      BY DEF RegistryInv, TypeOK, Accounted
    <2>2. CASE d = c /\ t = cur[c]
      BY <2>2 DEF RegistryInv, TypeOK, HandlerState, Owned
    <2>3. CASE ~(d = c /\ t = cur[c])
      BY <2>1, <2>3 DEF RegistryInv, TypeOK, Owned, Leaving
    <2> QED
      BY <2>1, <2>2, <2>3
  <1>3. SubscribedIsRouted'
    BY DEF RegistryInv, TypeOK, SubscribedIsRouted, HandlerState,
           DeregisterState
  <1>4. HandlerState'
    BY DEF RegistryInv, TypeOK, HandlerState, Accounted, Owned,
           DeregisterState, IterationStable, Registering, Targeted, Leaving
  <1>5. DeregisterState'
    BY DEF RegistryInv, TypeOK, DeregisterState
  <1>6. RoutedOnce' /\ GuardHeld' /\ IterationStable'
    BY DEF RegistryInv, TypeOK, RoutedOnce, GuardHeld, IterationStable
  <1>7. NoEmptyStreamLeft' /\ TargetedIsTold' /\ EvictedIsTold'
    BY DEF RegistryInv, TypeOK, NoEmptyStreamLeft, IsEmpty, TargetedIsTold,
           Targeted, EvictedIsTold, Serving
  <1>8. Counted' = Counted
    BY DEF RegistryInv, TypeOK, Counted, HandlerState, DeregisterState,
           Registering, Targeted
  <1> QED
    BY <1>1, <1>2, <1>3, <1>4, <1>5, <1>6, <1>7, <1>8 DEF RegistryInv, ActiveExact

\* The retain of unsubscribe.
LEMMA UnsubscribeRetainInv ==
    ASSUME RegistryInv, NEW c \in Conns, NEW s \in Streams, UnsubscribeRetain(c, s)
    PROVE  RegistryInv'
  <1> USE DEF UnsubscribeRetain, RetainOthers, Iterating, Goto, Procs,
              HandlerPC, FanPC, DeregPC, Target, maps, chans
  <1>1. TypeOK'
    BY UnsubscribeType DEF RegistryInv
  <1>2. Accounted'
    <2> SUFFICES ASSUME NEW t \in Streams, NEW d \in Conns, subs'[t][d] > 0
                 PROVE  t \in streamKeys' /\ Owned(d, t)'
      BY DEF Accounted
    <2>1. subs[t][d] > 0 /\ t \in streamKeys /\ Owned(d, t)
      BY DEF RegistryInv, TypeOK, Accounted
    <2>2. Owned(d, t)'
      BY <2>1 DEF RegistryInv, TypeOK, Owned, Leaving
    <2> QED
      BY <2>1, <2>2
  <1>3. SubscribedIsRouted'
    BY DEF RegistryInv, TypeOK, SubscribedIsRouted, HandlerState,
           DeregisterState
  <1>4. RoutedOnce'
    BY DEF RegistryInv, TypeOK, RoutedOnce, Accounted, Owned, DeregisterState,
           Leaving
  <1>5. HandlerState'
    BY DEF RegistryInv, TypeOK, HandlerState, Accounted, Owned,
           DeregisterState, IterationStable, Registering, Targeted, Leaving
  <1>6. IterationStable'
    BY DEF RegistryInv, TypeOK, IterationStable, GuardHeld, IsEmpty
  <1>7. NoEmptyStreamLeft'
    <2> SUFFICES ASSUME NEW t \in streamKeys', IsEmpty(t)'
                 PROVE  \E q \in Procs :
                          pc'[q] \in {"unsub_rmif", "dereg_rmif"} /\ cur'[q] = t
      BY DEF NoEmptyStreamLeft
    <2>1. CASE t = s
      BY <2>1 DEF RegistryInv, TypeOK, IsEmpty
    <2>2. CASE t # s
      <3>1. t \in streamKeys /\ IsEmpty(t)
        BY <2>2 DEF RegistryInv, TypeOK, IsEmpty
      <3>2. PICK q \in Procs : pc[q] \in {"unsub_rmif", "dereg_rmif"} /\ cur[q] = t
        BY <3>1 DEF RegistryInv, NoEmptyStreamLeft
      <3> QED
        BY <3>2 DEF RegistryInv, TypeOK
    <2> QED
      BY <2>1, <2>2
  <1>8. DeregisterState' /\ GuardHeld' /\ TargetedIsTold' /\
         EvictedIsTold'
    BY DEF RegistryInv, TypeOK, DeregisterState, GuardHeld, TargetedIsTold,
           Targeted, EvictedIsTold, Serving
  <1>9. Counted' = Counted
    BY DEF RegistryInv, TypeOK, Counted, HandlerState, DeregisterState,
           Registering, Targeted
  <1> QED
    BY <1>1, <1>2, <1>3, <1>4, <1>5, <1>6, <1>7, <1>8, <1>9 DEF RegistryInv, ActiveExact

\* The remove_if of unsubscribe: an entry with a subscriber stays.
LEMMA UnsubscribeRemoveIfInv ==
    ASSUME RegistryInv, NEW c \in Conns, UnsubscribeRemoveIf(c)
    PROVE  RegistryInv'
  <1> USE DEF UnsubscribeRemoveIf, RemoveIfEmpty, Iterating, IsEmpty, Goto,
              Procs, HandlerPC, FanPC, DeregPC, Target, maps, chans
  <1>1. TypeOK'
    BY UnsubscribeType DEF RegistryInv, Unsubscribe
  <1>2. Accounted'
    <2> SUFFICES ASSUME NEW t \in Streams, NEW d \in Conns, subs'[t][d] > 0
                 PROVE  t \in streamKeys' /\ Owned(d, t)'
      BY DEF Accounted
    <2>1. subs[t][d] > 0 /\ t \in streamKeys /\ Owned(d, t)
      BY DEF RegistryInv, TypeOK, Accounted
    <2>2. t \in streamKeys'
      BY <2>1 DEF RegistryInv, TypeOK
    <2>3. Owned(d, t)'
      BY <2>1 DEF RegistryInv, TypeOK, Owned, Leaving
    <2> QED
      BY <2>2, <2>3
  <1>3. SubscribedIsRouted'
    BY DEF RegistryInv, TypeOK, SubscribedIsRouted, HandlerState,
           DeregisterState
  <1>4. HandlerState'
    BY DEF RegistryInv, TypeOK, HandlerState, Accounted, Owned,
           DeregisterState, IterationStable, Registering, Targeted, Leaving
  <1>5. IterationStable'
    BY DEF RegistryInv, TypeOK, IterationStable, GuardHeld
  <1>6. NoEmptyStreamLeft'
    <2> SUFFICES ASSUME NEW t \in streamKeys', IsEmpty(t)'
                 PROVE  \E q \in Procs :
                          pc'[q] \in {"unsub_rmif", "dereg_rmif"} /\ cur'[q] = t
      BY DEF NoEmptyStreamLeft
    <2>1. t \in streamKeys /\ IsEmpty(t) /\ t # cur[c]
      BY DEF RegistryInv, TypeOK
    <2>2. PICK q \in Procs : pc[q] \in {"unsub_rmif", "dereg_rmif"} /\ cur[q] = t
      BY <2>1 DEF RegistryInv, NoEmptyStreamLeft
    <2> QED
      BY <2>1, <2>2 DEF RegistryInv, TypeOK
  <1>7. RoutedOnce' /\ DeregisterState' /\ GuardHeld' /\ TargetedIsTold' /\
         EvictedIsTold'
    BY DEF RegistryInv, TypeOK, RoutedOnce, DeregisterState, GuardHeld,
           TargetedIsTold, Targeted, EvictedIsTold, Serving
  <1>8. Counted' = Counted
    BY DEF RegistryInv, TypeOK, Counted, HandlerState, DeregisterState,
           Registering, Targeted
  <1> QED
    BY <1>1, <1>2, <1>3, <1>4, <1>5, <1>6, <1>7, <1>8 DEF RegistryInv, ActiveExact

\* The second half of unsubscribe: the vector has already lost the id.
LEMMA UnsubscribeForgetInv ==
    ASSUME RegistryInv, NEW c \in Conns, UnsubscribeForget(c)
    PROVE  RegistryInv'
  <1> USE DEF UnsubscribeForget, Goto, Procs, HandlerPC, FanPC, DeregPC,
              Target, maps, chans
  <1>1. TypeOK'
    BY UnsubscribeType DEF RegistryInv, Unsubscribe
  <1>2. Accounted'
    BY DEF RegistryInv, TypeOK, Accounted, Owned, HandlerState,
           DeregisterState, Leaving
  <1>3. SubscribedIsRouted'
    BY DEF RegistryInv, TypeOK, SubscribedIsRouted, HandlerState,
           DeregisterState
  <1>4. HandlerState'
    BY DEF RegistryInv, TypeOK, HandlerState, Accounted, Owned,
           DeregisterState, IterationStable, Registering, Targeted, Leaving
  <1>5. DeregisterState'
    BY DEF RegistryInv, TypeOK, DeregisterState
  <1>6. RoutedOnce' /\ GuardHeld' /\ IterationStable'
    BY DEF RegistryInv, TypeOK, RoutedOnce, GuardHeld, IterationStable
  <1>7. NoEmptyStreamLeft' /\ TargetedIsTold' /\ EvictedIsTold'
    BY DEF RegistryInv, TypeOK, NoEmptyStreamLeft, IsEmpty, TargetedIsTold,
           Targeted, EvictedIsTold, Serving
  <1>8. Counted' = Counted
    BY DEF RegistryInv, TypeOK, Counted, HandlerState, DeregisterState,
           Registering, Targeted
  <1> QED
    BY <1>1, <1>2, <1>3, <1>4, <1>5, <1>6, <1>7, <1>8 DEF RegistryInv, ActiveExact

\* The inbound loop ends.
LEMMA HandlerLeaveInv ==
    ASSUME RegistryInv, NEW c \in Conns, HandlerLeave(c)
    PROVE  RegistryInv'
  <1> USE DEF HandlerLeave, Goto, Procs, HandlerPC, FanPC, DeregPC, Target,
              maps, chans
  <1>1. TypeOK'
    BY ChannelType DEF RegistryInv
  <1>2. Accounted'
    BY DEF RegistryInv, TypeOK, Accounted, Owned, HandlerState,
           DeregisterState, Leaving
  <1>3. HandlerState'
    BY DEF RegistryInv, TypeOK, HandlerState, Accounted, Owned,
           DeregisterState, IterationStable, Registering, Targeted, Leaving
  <1>4. DeregisterState'
    BY DEF RegistryInv, TypeOK, DeregisterState, HandlerState, Registering,
           Targeted
  <1>5. SubscribedIsRouted' /\ RoutedOnce' /\ GuardHeld' /\
         IterationStable'
    BY DEF RegistryInv, TypeOK, SubscribedIsRouted, RoutedOnce, GuardHeld,
           IterationStable
  <1>6. NoEmptyStreamLeft' /\ TargetedIsTold' /\ EvictedIsTold'
    BY DEF RegistryInv, TypeOK, NoEmptyStreamLeft, IsEmpty, TargetedIsTold,
           Targeted, EvictedIsTold, Serving
  <1>7. Counted' = Counted
    BY DEF RegistryInv, TypeOK, Counted, HandlerState, DeregisterState,
           Registering, Targeted
  <1> QED
    BY <1>1, <1>2, <1>3, <1>4, <1>5, <1>6, <1>7 DEF RegistryInv, ActiveExact

\* conn_streams.remove: the list taken becomes the account of the vectors.
LEMMA DeregisterTakeInv ==
    ASSUME RegistryInv, NEW p \in Procs, DeregisterTake(p)
    PROVE  RegistryInv'
  <1> USE DEF DeregisterTake, HoldsConnGuard, Goto, Procs, HandlerPC, FanPC,
              DeregPC, Target, maps, chans
  <1>1. TypeOK'
    BY DeregisterType DEF RegistryInv, Deregister
  <1>2. Accounted'
    BY DEF RegistryInv, TypeOK, Accounted, Owned, HandlerState,
           DeregisterState, Leaving
  <1>3. SubscribedIsRouted'
    BY DEF RegistryInv, TypeOK, SubscribedIsRouted, HandlerState,
           DeregisterState
  <1>4. HandlerState'
    BY DEF RegistryInv, TypeOK, HandlerState, Accounted, Owned,
           DeregisterState, IterationStable, Registering, Targeted, Leaving
  <1>5. DeregisterState'
    BY DEF RegistryInv, TypeOK, DeregisterState, HandlerState, Registering,
           Targeted
  <1>6. EvictedIsTold'
    BY DEF RegistryInv, TypeOK, EvictedIsTold, TargetedIsTold, HandlerState,
           Targeted, Serving, Registering
  <1>7. RoutedOnce' /\ GuardHeld' /\ IterationStable' /\
         NoEmptyStreamLeft' /\ TargetedIsTold'
    BY DEF RegistryInv, TypeOK, RoutedOnce, GuardHeld, IterationStable,
           NoEmptyStreamLeft, IsEmpty, TargetedIsTold, Targeted
  <1>8. Counted' = Counted
    BY DEF RegistryInv, TypeOK, Counted, HandlerState, DeregisterState,
           Registering, Targeted
  <1> QED
    BY <1>1, <1>2, <1>3, <1>4, <1>5, <1>6, <1>7, <1>8 DEF RegistryInv, ActiveExact

\* The retain of deregister.
LEMMA DeregisterRetainInv ==
    ASSUME RegistryInv, NEW p \in Procs, NEW s \in Streams, DeregisterRetain(p, s)
    PROVE  RegistryInv'
  <1> USE DEF DeregisterRetain, RetainOthers, Iterating, Goto, Procs,
              HandlerPC, FanPC, DeregPC, Target, maps, chans
  <1>1. TypeOK'
    BY DeregisterType DEF RegistryInv, Deregister
  <1>2. Accounted'
    BY DEF RegistryInv, TypeOK, Accounted, Owned, HandlerState,
           DeregisterState, Leaving
  <1>3. SubscribedIsRouted'
    BY DEF RegistryInv, TypeOK, SubscribedIsRouted, HandlerState,
           DeregisterState
  <1>4. RoutedOnce'
    BY DEF RegistryInv, TypeOK, RoutedOnce, Accounted, Owned, DeregisterState,
           Leaving
  <1>5. HandlerState'
    BY DEF RegistryInv, TypeOK, HandlerState, Accounted, Owned,
           DeregisterState, IterationStable, Registering, Targeted, Leaving
  <1>6. IterationStable'
    BY DEF RegistryInv, TypeOK, IterationStable, GuardHeld, IsEmpty
  <1>7. NoEmptyStreamLeft'
    <2> SUFFICES ASSUME NEW t \in streamKeys', IsEmpty(t)'
                 PROVE  \E q \in Procs :
                          pc'[q] \in {"unsub_rmif", "dereg_rmif"} /\ cur'[q] = t
      BY DEF NoEmptyStreamLeft
    <2>1. CASE t = s
      BY <2>1 DEF RegistryInv, TypeOK, IsEmpty
    <2>2. CASE t # s
      <3>1. t \in streamKeys /\ IsEmpty(t)
        BY <2>2 DEF RegistryInv, TypeOK, IsEmpty
      <3>2. PICK q \in Procs : pc[q] \in {"unsub_rmif", "dereg_rmif"} /\ cur[q] = t
        BY <3>1 DEF RegistryInv, NoEmptyStreamLeft
      <3> QED
        BY <3>2 DEF RegistryInv, TypeOK
    <2> QED
      BY <2>1, <2>2
  <1>8. DeregisterState' /\ GuardHeld' /\ TargetedIsTold' /\
         EvictedIsTold'
    BY DEF RegistryInv, TypeOK, DeregisterState, GuardHeld, TargetedIsTold,
           Targeted, EvictedIsTold, Serving
  <1>9. Counted' = Counted
    BY DEF RegistryInv, TypeOK, Counted, HandlerState, DeregisterState,
           Registering, Targeted
  <1> QED
    BY <1>1, <1>2, <1>3, <1>4, <1>5, <1>6, <1>7, <1>8, <1>9 DEF RegistryInv, ActiveExact

\* The remove_if of deregister: an entry with a subscriber stays.
LEMMA DeregisterRemoveIfInv ==
    ASSUME RegistryInv, NEW p \in Procs, DeregisterRemoveIf(p)
    PROVE  RegistryInv'
  <1> USE DEF DeregisterRemoveIf, RemoveIfEmpty, Iterating, IsEmpty, Goto,
              Procs, HandlerPC, FanPC, DeregPC, Target, maps, chans
  <1>1. TypeOK'
    BY DeregisterType DEF RegistryInv, Deregister
  <1>2. Accounted'
    BY DEF RegistryInv, TypeOK, Accounted, Owned, HandlerState,
           DeregisterState, Leaving
  <1>3. SubscribedIsRouted'
    BY DEF RegistryInv, TypeOK, SubscribedIsRouted, HandlerState,
           DeregisterState
  <1>4. HandlerState'
    BY DEF RegistryInv, TypeOK, HandlerState, Accounted, Owned,
           DeregisterState, IterationStable, Registering, Targeted, Leaving
  <1>5. IterationStable'
    BY DEF RegistryInv, TypeOK, IterationStable, GuardHeld
  <1>6. NoEmptyStreamLeft'
    <2> SUFFICES ASSUME NEW t \in streamKeys', IsEmpty(t)'
                 PROVE  \E q \in Procs :
                          pc'[q] \in {"unsub_rmif", "dereg_rmif"} /\ cur'[q] = t
      BY DEF NoEmptyStreamLeft
    <2>1. t \in streamKeys /\ IsEmpty(t) /\ t # cur[p]
      BY DEF RegistryInv, TypeOK
    <2>2. PICK q \in Procs : pc[q] \in {"unsub_rmif", "dereg_rmif"} /\ cur[q] = t
      BY <2>1 DEF RegistryInv, NoEmptyStreamLeft
    <2> QED
      BY <2>1, <2>2 DEF RegistryInv, TypeOK
  <1>7. RoutedOnce' /\ DeregisterState' /\ GuardHeld' /\ TargetedIsTold' /\
         EvictedIsTold'
    BY DEF RegistryInv, TypeOK, RoutedOnce, DeregisterState, GuardHeld,
           TargetedIsTold, Targeted, EvictedIsTold, Serving
  <1>8. Counted' = Counted
    BY DEF RegistryInv, TypeOK, Counted, HandlerState, DeregisterState,
           Registering, Targeted
  <1> QED
    BY <1>1, <1>2, <1>3, <1>4, <1>5, <1>6, <1>7, <1>8 DEF RegistryInv, ActiveExact

\* connections.remove: at most one call finds the entry.
LEMMA DeregisterEntryInv ==
    ASSUME RegistryInv, NEW p \in Procs, DeregisterEntry(p)
    PROVE  RegistryInv'
  <1> USE DEF DeregisterEntry, RemovesEntry, Finished, Goto, Procs, HandlerPC,
              FanPC, DeregPC, Target, maps, chans
  <1>1. TypeOK'
    BY DeregisterType DEF RegistryInv, Deregister
  <1>2. Accounted'
    BY DEF RegistryInv, TypeOK, Accounted, Owned, HandlerState,
           DeregisterState, Leaving
  <1>3. HandlerState'
    BY DEF RegistryInv, TypeOK, HandlerState, Accounted, Owned,
           DeregisterState, IterationStable, Registering, Targeted, Leaving
  <1>4. DeregisterState'
    BY DEF RegistryInv, TypeOK, DeregisterState, HandlerState, Registering,
           Targeted
  <1>5. EvictedIsTold'
    BY DEF RegistryInv, TypeOK, EvictedIsTold, TargetedIsTold, HandlerState,
           Targeted, Serving, Registering
  <1>6. SubscribedIsRouted' /\ RoutedOnce' /\ GuardHeld' /\
         IterationStable'
    BY DEF RegistryInv, TypeOK, SubscribedIsRouted, RoutedOnce, GuardHeld,
           IterationStable
  <1>7. NoEmptyStreamLeft' /\ TargetedIsTold'
    BY DEF RegistryInv, TypeOK, NoEmptyStreamLeft, IsEmpty, TargetedIsTold,
           Targeted
  <1>8. Counted' = Counted
    BY DEF RegistryInv, TypeOK, Counted, HandlerState, DeregisterState,
           Registering, Targeted
  <1> QED
    BY <1>1, <1>2, <1>3, <1>4, <1>5, <1>6, <1>7, <1>8 DEF RegistryInv, ActiveExact

\* active.fetch_sub: the id leaves the set that active counts.
LEMMA DeregisterActiveInv ==
    ASSUME RegistryInv, NEW p \in Procs, DeregisterActive(p)
    PROVE  RegistryInv'
  <1> USE DEF DeregisterActive, Finished, Goto, Procs, HandlerPC, FanPC,
              DeregPC, Target, maps, chans
  <1>1. TypeOK'
    BY DeregisterType DEF RegistryInv, Deregister
  <1>2. Accounted'
    BY DEF RegistryInv, TypeOK, Accounted, Owned, HandlerState,
           DeregisterState, Leaving
  <1>3. HandlerState'
    BY DEF RegistryInv, TypeOK, HandlerState, Accounted, Owned,
           DeregisterState, IterationStable, Registering, Targeted, Leaving
  <1>4. DeregisterState'
    BY DEF RegistryInv, TypeOK, DeregisterState, HandlerState, Registering,
           Targeted
  <1>5. SubscribedIsRouted' /\ RoutedOnce' /\ GuardHeld' /\
         IterationStable'
    BY DEF RegistryInv, TypeOK, SubscribedIsRouted, RoutedOnce, GuardHeld,
           IterationStable
  <1>6. NoEmptyStreamLeft' /\ TargetedIsTold' /\ EvictedIsTold'
    BY DEF RegistryInv, TypeOK, NoEmptyStreamLeft, IsEmpty, TargetedIsTold,
           Targeted, EvictedIsTold, Serving
  <1>7. ActiveExact'
    <2>1. Counted' = Counted \ {Target(p)} /\ Target(p) \in Counted
      BY DEF RegistryInv, TypeOK, Counted, HandlerState, DeregisterState,
             Registering, Targeted
    <2>2. IsFiniteSet(Counted) /\ Cardinality(Counted) \in Nat
      BY CountedFinite DEF RegistryInv
    <2>3. Cardinality(Counted \ {Target(p)}) = Cardinality(Counted) - 1
      BY <2>1, <2>2, FS_RemoveElement
    <2> QED
      BY <2>1, <2>3 DEF RegistryInv, ActiveExact
  <1> QED
    BY <1>1, <1>2, <1>3, <1>4, <1>5, <1>6, <1>7 DEF RegistryInv, ActiveExact

\* A fan-out takes the read guard and starts on the vector.
LEMMA FanoutBeginInv ==
    ASSUME RegistryInv, NEW s \in Streams, FanoutBegin(s)
    PROVE  RegistryInv'
  <1> USE DEF FanoutBegin, Goto, Procs, HandlerPC, FanPC, DeregPC, Target,
              maps, chans
  <1>1. TypeOK'
    BY FanoutType DEF RegistryInv
  <1>2. HandlerState'
    BY DEF RegistryInv, TypeOK, HandlerState, Accounted, Owned,
           DeregisterState, IterationStable, Registering, Targeted, Leaving
  <1>3. GuardHeld'
    BY DEF RegistryInv, TypeOK, GuardHeld
  <1>4. IterationStable'
    BY DEF RegistryInv, TypeOK, IterationStable, GuardHeld, IsEmpty
  <1>5. Accounted' /\ DeregisterState'
    BY DEF RegistryInv, TypeOK, Accounted, Owned, Leaving, DeregisterState
  <1>6. SubscribedIsRouted' /\ RoutedOnce'
    BY DEF RegistryInv, TypeOK, SubscribedIsRouted, RoutedOnce
  <1>7. NoEmptyStreamLeft' /\ TargetedIsTold' /\ EvictedIsTold'
    BY DEF RegistryInv, TypeOK, NoEmptyStreamLeft, IsEmpty, TargetedIsTold,
           Targeted, EvictedIsTold, Serving
  <1>8. Counted' = Counted
    BY DEF RegistryInv, TypeOK, Counted, HandlerState, DeregisterState,
           Registering, Targeted
  <1> QED
    BY <1>1, <1>2, <1>3, <1>4, <1>5, <1>6, <1>7, <1>8 DEF RegistryInv, ActiveExact

\* try_send succeeds.
LEMMA FanoutSendInv ==
    ASSUME RegistryInv, NEW c \in Conns, FanoutSend(c)
    PROVE  RegistryInv'
  <1> USE DEF FanoutSend, FanoutVisit, CanSend, Goto, Procs, HandlerPC, FanPC,
              DeregPC, Target, maps, chans
  <1>1. TypeOK'
    BY FanoutType DEF RegistryInv, Fanout
  <1>2. IterationStable'
    BY DEF RegistryInv, TypeOK, IterationStable, GuardHeld, IsEmpty
  <1>3. Accounted' /\ HandlerState' /\ DeregisterState'
    BY DEF RegistryInv, TypeOK, Accounted, Owned, Leaving, HandlerState,
           Registering, Targeted, DeregisterState
  <1>4. SubscribedIsRouted' /\ RoutedOnce' /\ GuardHeld'
    BY DEF RegistryInv, TypeOK, SubscribedIsRouted, RoutedOnce, GuardHeld
  <1>5. NoEmptyStreamLeft' /\ TargetedIsTold' /\ EvictedIsTold'
    BY DEF RegistryInv, TypeOK, NoEmptyStreamLeft, IsEmpty, TargetedIsTold,
           Targeted, EvictedIsTold, Serving
  <1>6. Counted' = Counted
    BY DEF RegistryInv, TypeOK, Counted, HandlerState, DeregisterState,
           Registering, Targeted
  <1> QED
    BY <1>1, <1>2, <1>3, <1>4, <1>5, <1>6 DEF RegistryInv, ActiveExact

\* try_send fails: the connection is past register, and is told.
LEMMA FanoutEvictInv ==
    ASSUME RegistryInv, NEW c \in Conns, FanoutEvict(c)
    PROVE  RegistryInv'
  <1> USE DEF FanoutEvict, FanoutVisit, CanSend, SignalEvict, Goto, Procs,
              HandlerPC, FanPC, DeregPC, Target, maps, chans
  <1>1. TypeOK'
    BY FanoutType DEF RegistryInv, Fanout
  <1>2. HandlerState'
    <2>1. subs[cur[Fan]][c] > 0
      BY DEF RegistryInv, TypeOK, IterationStable
    <2>2. Owned(c, cur[Fan])
      BY <2>1 DEF RegistryInv, TypeOK, Accounted
    <2>3. ~Registering(c)
      BY <2>2 DEF RegistryInv, TypeOK, HandlerState, Registering, Targeted, Owned, Leaving
    <2> QED
      BY <2>3 DEF RegistryInv, TypeOK, HandlerState, Registering, Targeted
  <1>3. IterationStable'
    BY DEF RegistryInv, TypeOK, IterationStable, GuardHeld, IsEmpty
  <1>4. TargetedIsTold'
    BY DEF RegistryInv, TypeOK, TargetedIsTold, Targeted
  <1>5. EvictedIsTold'
    BY DEF RegistryInv, TypeOK, EvictedIsTold, TargetedIsTold, HandlerState,
           Targeted, Serving, Registering
  <1>6. Accounted' /\ DeregisterState'
    BY DEF RegistryInv, TypeOK, Accounted, Owned, Leaving, DeregisterState
  <1>7. SubscribedIsRouted' /\ RoutedOnce' /\ GuardHeld'
    BY DEF RegistryInv, TypeOK, SubscribedIsRouted, RoutedOnce, GuardHeld
  <1>8. NoEmptyStreamLeft'
    BY DEF RegistryInv, TypeOK, NoEmptyStreamLeft, IsEmpty
  <1>9. Counted' = Counted
    BY DEF RegistryInv, TypeOK, Counted, HandlerState, DeregisterState,
           Registering, Targeted
  <1> QED
    BY <1>1, <1>2, <1>3, <1>4, <1>5, <1>6, <1>7, <1>8, <1>9 DEF RegistryInv, ActiveExact

\* The connection is no longer in connections.
LEMMA FanoutSkipInv ==
    ASSUME RegistryInv, NEW c \in Conns, FanoutSkip(c)
    PROVE  RegistryInv'
  <1> USE DEF FanoutSkip, FanoutVisit, Goto, Procs, HandlerPC, FanPC, DeregPC,
              Target, maps, chans
  <1>1. TypeOK'
    BY FanoutType DEF RegistryInv, Fanout
  <1>2. IterationStable'
    BY DEF RegistryInv, TypeOK, IterationStable, GuardHeld, IsEmpty
  <1>3. Accounted' /\ HandlerState' /\ DeregisterState'
    BY DEF RegistryInv, TypeOK, Accounted, Owned, Leaving, HandlerState,
           Registering, Targeted, DeregisterState
  <1>4. SubscribedIsRouted' /\ RoutedOnce' /\ GuardHeld'
    BY DEF RegistryInv, TypeOK, SubscribedIsRouted, RoutedOnce, GuardHeld
  <1>5. NoEmptyStreamLeft' /\ TargetedIsTold' /\ EvictedIsTold'
    BY DEF RegistryInv, TypeOK, NoEmptyStreamLeft, IsEmpty, TargetedIsTold,
           Targeted, EvictedIsTold, Serving
  <1>6. Counted' = Counted
    BY DEF RegistryInv, TypeOK, Counted, HandlerState, DeregisterState,
           Registering, Targeted
  <1> QED
    BY <1>1, <1>2, <1>3, <1>4, <1>5, <1>6 DEF RegistryInv, ActiveExact

\* The read guard is dropped.
LEMMA FanoutReleaseInv ==
    ASSUME RegistryInv, FanoutRelease
    PROVE  RegistryInv'
  <1> USE DEF FanoutRelease, DropGuard, Goto, Procs, HandlerPC, FanPC, DeregPC,
              Target, maps, chans
  <1>1. TypeOK'
    BY FanoutType DEF RegistryInv, Fanout
  <1>2. HandlerState'
    BY DEF RegistryInv, TypeOK, HandlerState, Accounted, Owned,
           DeregisterState, IterationStable, Registering, Targeted, Leaving
  <1>3. Accounted' /\ DeregisterState'
    BY DEF RegistryInv, TypeOK, Accounted, Owned, Leaving, DeregisterState
  <1>4. SubscribedIsRouted' /\ RoutedOnce' /\ GuardHeld' /\
         IterationStable'
    BY DEF RegistryInv, TypeOK, SubscribedIsRouted, RoutedOnce, GuardHeld,
           IterationStable
  <1>5. NoEmptyStreamLeft' /\ TargetedIsTold' /\ EvictedIsTold'
    BY DEF RegistryInv, TypeOK, NoEmptyStreamLeft, IsEmpty, TargetedIsTold,
           Targeted, EvictedIsTold, Serving
  <1>6. Counted' = Counted
    BY DEF RegistryInv, TypeOK, Counted, HandlerState, DeregisterState,
           Registering, Targeted
  <1> QED
    BY <1>1, <1>2, <1>3, <1>4, <1>5, <1>6 DEF RegistryInv, ActiveExact

\* The next evicted connection is deregistered.
LEMMA FanoutDeregisterInv ==
    ASSUME RegistryInv, NEW c \in Conns, FanoutDeregister(c)
    PROVE  RegistryInv'
  <1> USE DEF FanoutDeregister, Goto, Procs, HandlerPC, FanPC, DeregPC, Target,
              maps, chans
  <1>1. TypeOK'
    BY FanoutType DEF RegistryInv, Fanout
  <1>2. Accounted'
    BY DEF RegistryInv, TypeOK, Accounted, Owned, HandlerState,
           DeregisterState, Leaving
  <1>3. HandlerState'
    BY DEF RegistryInv, TypeOK, HandlerState, Accounted, Owned,
           DeregisterState, IterationStable, Registering, Targeted, Leaving
  <1>4. DeregisterState'
    BY DEF RegistryInv, TypeOK, DeregisterState, HandlerState, Registering,
           Targeted
  <1>5. TargetedIsTold'
    BY DEF RegistryInv, TypeOK, TargetedIsTold, Targeted
  <1>6. SubscribedIsRouted' /\ RoutedOnce' /\ GuardHeld' /\
         IterationStable'
    BY DEF RegistryInv, TypeOK, SubscribedIsRouted, RoutedOnce, GuardHeld,
           IterationStable
  <1>7. NoEmptyStreamLeft' /\ EvictedIsTold'
    BY DEF RegistryInv, TypeOK, NoEmptyStreamLeft, IsEmpty, EvictedIsTold,
           Serving
  <1>8. Counted' = Counted
    BY DEF RegistryInv, TypeOK, Counted, HandlerState, DeregisterState,
           Registering, Targeted
  <1> QED
    BY <1>1, <1>2, <1>3, <1>4, <1>5, <1>6, <1>7, <1>8 DEF RegistryInv, ActiveExact

\* A frame of the handler itself.
LEMMA HandlerFrameInv ==
    ASSUME RegistryInv, NEW c \in Conns, HandlerFrame(c)
    PROVE  RegistryInv'
  <1> USE DEF HandlerFrame, tasks, Goto, Procs, HandlerPC, FanPC, DeregPC,
              Target, maps, chans
  <1>1. TypeOK'
    BY ChannelType DEF RegistryInv
  <1>2. Accounted' /\ HandlerState' /\ DeregisterState'
    BY DEF RegistryInv, TypeOK, Accounted, Owned, Leaving, HandlerState,
           Registering, Targeted, DeregisterState
  <1>3. SubscribedIsRouted' /\ RoutedOnce' /\ GuardHeld' /\
         IterationStable'
    BY DEF RegistryInv, TypeOK, SubscribedIsRouted, RoutedOnce, GuardHeld,
           IterationStable
  <1>4. NoEmptyStreamLeft' /\ TargetedIsTold' /\ EvictedIsTold'
    BY DEF RegistryInv, TypeOK, NoEmptyStreamLeft, IsEmpty, TargetedIsTold,
           Targeted, EvictedIsTold, Serving
  <1>5. Counted' = Counted
    BY DEF RegistryInv, TypeOK, Counted, HandlerState, DeregisterState,
           Registering, Targeted
  <1> QED
    BY <1>1, <1>2, <1>3, <1>4, <1>5 DEF RegistryInv, ActiveExact

\* The outbound loop takes a frame.
LEMMA OutboundRecvInv ==
    ASSUME RegistryInv, NEW c \in Conns, OutboundRecv(c)
    PROVE  RegistryInv'
  <1> USE DEF OutboundRecv, tasks, Goto, Procs, HandlerPC, FanPC, DeregPC,
              Target, maps, chans
  <1>1. TypeOK'
    BY ChannelType DEF RegistryInv
  <1>2. Accounted' /\ HandlerState' /\ DeregisterState'
    BY DEF RegistryInv, TypeOK, Accounted, Owned, Leaving, HandlerState,
           Registering, Targeted, DeregisterState
  <1>3. SubscribedIsRouted' /\ RoutedOnce' /\ GuardHeld' /\
         IterationStable'
    BY DEF RegistryInv, TypeOK, SubscribedIsRouted, RoutedOnce, GuardHeld,
           IterationStable
  <1>4. NoEmptyStreamLeft' /\ TargetedIsTold' /\ EvictedIsTold'
    BY DEF RegistryInv, TypeOK, NoEmptyStreamLeft, IsEmpty, TargetedIsTold,
           Targeted, EvictedIsTold, Serving
  <1>5. Counted' = Counted
    BY DEF RegistryInv, TypeOK, Counted, HandlerState, DeregisterState,
           Registering, Targeted
  <1> QED
    BY <1>1, <1>2, <1>3, <1>4, <1>5 DEF RegistryInv, ActiveExact

\* The outbound loop returns, and with it the need for a signal.
LEMMA OutboundEndInv ==
    ASSUME RegistryInv, NEW c \in Conns, OutboundEnd(c)
    PROVE  RegistryInv'
  <1> USE DEF OutboundEnd, tasks, Goto, Procs, HandlerPC, FanPC, DeregPC,
              Target, maps, chans
  <1>1. TypeOK'
    BY ChannelType DEF RegistryInv
  <1>2. TargetedIsTold'
    BY DEF RegistryInv, TypeOK, TargetedIsTold, Targeted
  <1>3. EvictedIsTold'
    BY DEF RegistryInv, TypeOK, EvictedIsTold, TargetedIsTold, HandlerState,
           Targeted, Serving, Registering
  <1>4. Accounted' /\ HandlerState' /\ DeregisterState'
    BY DEF RegistryInv, TypeOK, Accounted, Owned, Leaving, HandlerState,
           Registering, Targeted, DeregisterState
  <1>5. SubscribedIsRouted' /\ RoutedOnce' /\ GuardHeld' /\
         IterationStable'
    BY DEF RegistryInv, TypeOK, SubscribedIsRouted, RoutedOnce, GuardHeld,
           IterationStable
  <1>6. NoEmptyStreamLeft'
    BY DEF RegistryInv, TypeOK, NoEmptyStreamLeft, IsEmpty
  <1>7. Counted' = Counted
    BY DEF RegistryInv, TypeOK, Counted, HandlerState, DeregisterState,
           Registering, Targeted
  <1> QED
    BY <1>1, <1>2, <1>3, <1>4, <1>5, <1>6, <1>7 DEF RegistryInv, ActiveExact

\* The empty registry satisfies the invariant.
LEMMA InitInv == Init => RegistryInv
  <1> SUFFICES ASSUME Init PROVE RegistryInv
    OBVIOUS
  <1>1. TypeOK
    BY InitType
  <1>2. Counted = {}
    BY DEF Init, Counted, Procs
  <1>3. ActiveExact
    BY <1>2, FS_EmptySet DEF Init, ActiveExact
  <1> QED
    BY <1>1, <1>3 DEF Init, RegistryInv, Accounted, SubscribedIsRouted, RoutedOnce,
          HandlerState, DeregisterState, GuardHeld, IterationStable,
          NoEmptyStreamLeft, TargetedIsTold, EvictedIsTold, Registering, Targeted,
          Serving, Procs, DeregPC

\* A stuttering step changes nothing the invariant reads.
LEMMA StutterInv == ASSUME RegistryInv, UNCHANGED vars PROVE RegistryInv'
  BY DEF RegistryInv, TypeOK, Accounted, Owned, Leaving, SubscribedIsRouted,
         RoutedOnce, HandlerState, Registering, Targeted, DeregisterState, Target,
         GuardHeld, IterationStable, NoEmptyStreamLeft, IsEmpty, TargetedIsTold,
         EvictedIsTold, Serving, ActiveExact, Counted, vars

\* Every step keeps the invariant.
LEMMA NextInv == RegistryInv /\ [Next]_vars => RegistryInv'
  <1> SUFFICES ASSUME RegistryInv, [Next]_vars PROVE RegistryInv'
    OBVIOUS
  <1>1. ASSUME NEW c \in Conns, Register(c) PROVE RegistryInv'
    BY <1>1, RegisterConnectionInv, RegisterStreamsInv, RegisterActiveInv DEF Register
  <1>2. ASSUME NEW c \in Conns,
               (\E s \in Streams : SubscribePush(c, s)) \/ SubscribeRecord(c)
        PROVE  RegistryInv'
    BY <1>2, SubscribePushInv, SubscribeRecordInv
  <1>3. ASSUME NEW c \in Conns,
               (\E s \in Streams : UnsubscribeRetain(c, s)) \/ Unsubscribe(c)
        PROVE  RegistryInv'
    BY <1>3, UnsubscribeRetainInv, UnsubscribeRemoveIfInv, UnsubscribeForgetInv
       DEF Unsubscribe
  <1>4. ASSUME NEW c \in Conns,
               HandlerLeave(c) \/ HandlerFrame(c) \/ OutboundRecv(c) \/ OutboundEnd(c)
        PROVE  RegistryInv'
    BY <1>4, HandlerLeaveInv, HandlerFrameInv, OutboundRecvInv, OutboundEndInv
  <1>5. ASSUME NEW p \in Procs, Deregister(p) PROVE RegistryInv'
    BY <1>5, DeregisterTakeInv, DeregisterRetainInv, DeregisterRemoveIfInv,
       DeregisterEntryInv, DeregisterActiveInv DEF Deregister
  <1>6. ASSUME (\E s \in Streams : FanoutBegin(s)) \/ Fanout PROVE RegistryInv'
    BY <1>6, FanoutBeginInv, FanoutReleaseInv, FanoutSendInv, FanoutEvictInv,
       FanoutSkipInv, FanoutDeregisterInv DEF Fanout
  <1>7. CASE UNCHANGED vars
    BY <1>7, StutterInv
  <1> QED
    BY <1>1, <1>2, <1>3, <1>4, <1>5, <1>6, <1>7 DEF Next, Done

\* The inductive invariant holds in every reachable state, for any number of
\* connections and streams.
THEOREM Invariance == Spec => []RegistryInv
  <1>1. Init => RegistryInv
    BY InitInv
  <1>2. RegistryInv /\ [Next]_vars => RegistryInv'
    BY NextInv
  <1> QED
    BY <1>1, <1>2, PTL DEF Spec

-----------------------------------------------------------------------------
(* The properties. *)

\* No map mentions a connection whose handler has returned from deregister,
\* unless the fan-out task is deregistering it at that moment.
THEOREM Departed == Spec => []DepartedUnrouted
  <1>1. RegistryInv => DepartedUnrouted
    <2> SUFFICES ASSUME RegistryInv, NEW c \in Conns, pc[c] = "done",
                        ~Deregistering(Fan, c)
                 PROVE  /\ c \notin connections /\ c \notin connKeys
                        /\ \A s \in Streams : subs[s][c] = 0
      BY DEF DepartedUnrouted
    <2>1. c \notin connections /\ c \notin connKeys
      BY DEF RegistryInv, HandlerState
    <2>2. ASSUME NEW s \in Streams PROVE ~Owned(c, s)
      BY <2>1 DEF RegistryInv, Owned, Leaving, Deregistering, Target, Procs, DeregPC
    <2>3. ASSUME NEW s \in Streams PROVE subs[s][c] = 0
      BY <2>2, <2>3 DEF RegistryInv, TypeOK, Accounted
    <2> QED
      BY <2>1, <2>3
  <1> QED
    BY <1>1, Invariance, PTL

\* A recorded subscription is always reachable by a fan-out.
THEOREM Routed == Spec => []SubscribedIsRouted
  <1>1. RegistryInv => SubscribedIsRouted
    BY DEF RegistryInv
  <1> QED
    BY <1>1, Invariance, PTL

\* No id occurs twice in a stream's vector.
THEOREM NoDuplicate == Spec => []RoutedOnce
  <1>1. RegistryInv => RoutedOnce
    BY DEF RegistryInv
  <1> QED
    BY <1>1, Invariance, PTL

\* connection_count() is exact up to the accesses in flight.
THEOREM CountExact == Spec => []ActiveExact
  <1>1. RegistryInv => ActiveExact
    BY DEF RegistryInv
  <1> QED
    BY <1>1, Invariance, PTL

\* No entry with an empty vector is left behind.
THEOREM NoLeak == Spec => []NoEmptyStreamLeft
  <1>1. RegistryInv => NoEmptyStreamLeft
    BY DEF RegistryInv
  <1> QED
    BY <1>1, Invariance, PTL

\* A connection dropped from the registry has been told.
THEOREM Told == Spec => []EvictedIsTold
  <1>1. RegistryInv => EvictedIsTold
    BY DEF RegistryInv
  <1> QED
    BY <1>1, Invariance, PTL

\* The vector under a fan-out does not change.
THEOREM StableIteration == Spec => []IterationStable
  <1>1. RegistryInv => IterationStable
    BY DEF RegistryInv
  <1> QED
    BY <1>1, Invariance, PTL

-----------------------------------------------------------------------------
(* The registry implements the routing table. *)

\* A step that leaves connKeys and subs alone, and lets no connection past
\* register, is not visible in the table.
LEMMA TableUnchanged ==
    ASSUME UNCHANGED <<connKeys, subs>>,
           \A c \in Conns : pc'[c] \in {"new", "reg_conn_streams"}
                              <=> pc[c] \in {"new", "reg_conn_streams"}
    PROVE  UNCHANGED Table!routingVars
  <1>1. Closed' = Closed
    BY DEF Closed
  <1>2. Routes' = Routes
    BY DEF Routes
  <1> QED
    BY <1>1, <1>2 DEF Table!routingVars

\* What retain does to the table, whoever runs it.
LEMMA RetainUnroutes ==
    ASSUME TypeOK, NEW p \in Procs, NEW c \in Conns, NEW s \in Streams,
           NEW rmif, NEW next, RetainOthers(p, c, s, rmif, next),
           UNCHANGED connKeys, Closed' = Closed
    PROVE  Table!Unroute(c, s) \/ UNCHANGED Table!routingVars
  <1>1. CASE s \in streamKeys
    <2>1. subs' = [subs EXCEPT ![s][c] = 0]
      BY <1>1 DEF RetainOthers
    <2>2. \A t \in Streams : Routes'[t] = [Routes EXCEPT ![s] = @ \ {c}][t]
      BY <2>1 DEF Routes, TypeOK
    <2>3. Routes' = [Routes EXCEPT ![s] = @ \ {c}]
      BY <2>2 DEF Routes
    <2> QED
      BY <2>3 DEF Table!Unroute
  <1>2. CASE s \notin streamKeys
    BY <1>2 DEF RetainOthers, Routes, Table!routingVars
  <1> QED
    BY <1>1, <1>2

\* register opens the connection at its second access.
LEMMA RegisterOpens ==
    ASSUME RegistryInv, NEW c \in Conns, Register(c)
    PROVE  Table!Open(c) \/ UNCHANGED Table!routingVars
  <1> USE DEF RegistryInv, TypeOK, Goto, Procs, chans
  <1>1. CASE RegisterConnection(c)
    BY <1>1, TableUnchanged DEF RegisterConnection
  <1>2. CASE RegisterStreams(c)
    <2>1. Closed' = Closed
      BY <1>2 DEF RegisterStreams, Closed
    <2>2. Routes' = Routes
      BY <1>2 DEF RegisterStreams, Routes
    <2>3. c \notin connKeys \cup Closed
      BY <1>2 DEF RegisterStreams, Closed, HandlerState
    <2> QED
      BY <1>2, <2>1, <2>2, <2>3 DEF RegisterStreams, Table!Open
  <1>3. CASE RegisterActive(c)
    BY <1>3, TableUnchanged DEF RegisterActive
  <1> QED
    BY <1>1, <1>2, <1>3 DEF Register

\* subscribe adds a route while the connection is open.
LEMMA SubscribeRoutes ==
    ASSUME RegistryInv, NEW c \in Conns, NEW s \in Streams, SubscribePush(c, s)
    PROVE  Table!Route(c, s)
  <1> USE DEF SubscribePush, Goto, RegistryInv, TypeOK, Procs
  <1>1. Closed' = Closed
    BY DEF Closed
  <1>2. \A t \in Streams : Routes'[t] = [Routes EXCEPT ![s] = @ \cup {c}][t]
    BY DEF Routes
  <1>3. Routes' = [Routes EXCEPT ![s] = @ \cup {c}]
    BY <1>2 DEF Routes
  <1> QED
    BY <1>1, <1>3 DEF MaySubscribe, Table!Route

\* deregister closes the connection at its first access, once, and then only
\* takes routes away.
LEMMA DeregisterCloses ==
    ASSUME RegistryInv, NEW p \in Procs, Deregister(p)
    PROVE  \/ \E c \in Conns : Table!Close(c) \/ \E s \in Streams : Table!Unroute(c, s)
           \/ UNCHANGED Table!routingVars
  <1> USE DEF RegistryInv, TypeOK, Goto, Procs, HandlerPC, FanPC, DeregPC
  <1>1. CASE DeregisterTake(p)
    <2> DEFINE c == Target(p)
    <2>1. c \in Conns
      BY <1>1 DEF DeregisterTake, Target
    <2>2. Routes' = Routes
      BY <1>1 DEF DeregisterTake, Routes
    <2>3. CASE c \in connKeys
      <3>1. pc[c] \notin {"new", "reg_conn_streams"}
        BY <2>1, <2>3 DEF HandlerState
      <3>2. Closed' = Closed \cup {c}
        BY <1>1, <2>1, <3>1 DEF DeregisterTake, Closed, Target
      <3>3. connKeys' = connKeys \ {c}
        BY <1>1 DEF DeregisterTake
      <3>4. Table!Close(c)
        BY <2>2, <2>3, <3>2, <3>3 DEF Table!Close
      <3> QED
        BY <2>1, <3>4
    <2>4. CASE c \notin connKeys
      <3>1. connKeys' = connKeys /\ subs' = subs
        BY <1>1, <2>4 DEF DeregisterTake
      <3> QED
        BY <1>1, <3>1, TableUnchanged DEF DeregisterTake
    <2> QED
      BY <2>3, <2>4
  <1>2. ASSUME NEW s \in Streams, DeregisterRetain(p, s)
        PROVE  (\E c \in Conns : Table!Unroute(c, s)) \/ UNCHANGED Table!routingVars
    <2>1. Target(p) \in Conns
      BY <1>2 DEF DeregisterRetain, Target
    <2>2. Closed' = Closed
      BY <1>2 DEF DeregisterRetain, RetainOthers, Closed
    <2>3. RetainOthers(p, Target(p), s, "dereg_rmif", "dereg_retain") /\ UNCHANGED connKeys
      BY <1>2 DEF DeregisterRetain
    <2>4. Table!Unroute(Target(p), s) \/ UNCHANGED Table!routingVars
      BY <2>1, <2>2, <2>3, RetainUnroutes
    <2> QED
      BY <2>1, <2>4
  <1>3. CASE DeregisterRemoveIf(p)
    BY <1>3, TableUnchanged DEF DeregisterRemoveIf
  <1>4. CASE DeregisterEntry(p)
    BY <1>4, TableUnchanged DEF DeregisterEntry, Finished
  <1>5. CASE DeregisterActive(p)
    BY <1>5, TableUnchanged DEF DeregisterActive, Finished
  <1> QED
    BY <1>1, <1>2, <1>3, <1>4, <1>5 DEF Deregister

\* Every step of the registry is a step of the table or is not visible in it.
LEMMA RoutingStep == RegistryInv /\ [Next]_vars => [Table!RoutingNext]_(Table!routingVars)
  <1> SUFFICES ASSUME RegistryInv, [Next]_vars
               PROVE  Table!RoutingNext \/ UNCHANGED Table!routingVars
    OBVIOUS
  <1> DEFINE Goal == Table!RoutingNext \/ UNCHANGED Table!routingVars
  <1>1. ASSUME NEW c \in Conns, Register(c) PROVE Goal
    BY <1>1, RegisterOpens DEF Table!RoutingNext
  <1>2. ASSUME NEW c \in Conns, NEW s \in Streams, SubscribePush(c, s) PROVE Goal
    BY <1>2, SubscribeRoutes DEF Table!RoutingNext
  <1>3. ASSUME NEW c \in Conns, NEW s \in Streams, UnsubscribeRetain(c, s) PROVE Goal
    <2>1. RetainOthers(c, c, s, "unsub_rmif", "unsub_forget") /\ UNCHANGED connKeys
      BY <1>3 DEF UnsubscribeRetain
    <2>2. Closed' = Closed
      BY <1>3 DEF UnsubscribeRetain, RetainOthers, Closed, Goto, RegistryInv, TypeOK, Procs
    <2>3. Table!Unroute(c, s) \/ UNCHANGED Table!routingVars
      BY <2>1, <2>2, RetainUnroutes DEF RegistryInv, Procs
    <2> QED
      BY <2>3 DEF Table!RoutingNext
  <1>4. ASSUME NEW c \in Conns,
               SubscribeRecord(c) \/ Unsubscribe(c) \/ HandlerLeave(c)
        PROVE  Goal
    BY <1>4, TableUnchanged
       DEF SubscribeRecord, Unsubscribe, UnsubscribeRemoveIf, UnsubscribeForget,
           HandlerLeave, Goto, RegistryInv, TypeOK, Procs, maps
  <1>5. ASSUME NEW c \in Conns, HandlerFrame(c) \/ OutboundRecv(c) \/ OutboundEnd(c)
        PROVE  Goal
    BY <1>5, TableUnchanged DEF HandlerFrame, OutboundRecv, OutboundEnd, maps, tasks
  <1>6. ASSUME NEW p \in Procs, Deregister(p) PROVE Goal
    BY <1>6, DeregisterCloses DEF Table!RoutingNext
  <1>7. ASSUME (\E s \in Streams : FanoutBegin(s)) \/ Fanout PROVE Goal
    <2>1. UNCHANGED <<connKeys, subs>> /\ \A c \in Conns : pc'[c] = pc[c]
      BY <1>7 DEF FanoutBegin, Fanout, FanoutRelease, FanoutSend, FanoutEvict, FanoutSkip,
           FanoutDeregister, Goto, RegistryInv, TypeOK, Procs, maps
    <2> QED
      BY <2>1, TableUnchanged
  <1>8. CASE UNCHANGED vars
    BY <1>8, TableUnchanged DEF vars
  <1> QED
    BY <1>1, <1>2, <1>3, <1>4, <1>5, <1>6, <1>7, <1>8 DEF Next, Done

\* For any number of connections and streams, the registry implements the
\* routing table of open connections.
THEOREM RoutingRefinement == Spec => ImplementsRouting
  <1>1. Init => Table!RoutingInit
    BY DEF Init, Table!RoutingInit, Closed, Routes, Procs
  <1>2. RegistryInv /\ [Next]_vars => [Table!RoutingNext]_(Table!routingVars)
    BY RoutingStep
  <1> QED
    BY <1>1, <1>2, Invariance, PTL DEF Spec, ImplementsRouting, Table!RoutingSpec
=============================================================================
