---------------------------- MODULE LimiterProofs ----------------------------
(***************************************************************************)
(* Proofs about Limiter, for every finite set of sockets, every assignment *)
(* of addresses and every limit.                                           *)
(***************************************************************************)
EXTENDS Limiter, FiniteSetTheorems, TLAPS

USE SocketsAssumption, AddrAssumption, MaxAssumption

\* The holders of an address are a finite set.
LEMMA HoldersFinite ==
    ASSUME NEW ip \in Ips
    PROVE  IsFiniteSet(Holders(ip)) /\ Cardinality(Holders(ip)) \in Nat
  <1>1. Holders(ip) \subseteq Sockets
    BY DEF Holders
  <1>2. IsFiniteSet(Holders(ip))
    BY <1>1, FS_Subset
  <1> QED
    BY <1>2, FS_CardinalityType

\* A step that changes whether no socket holds a slot keeps the counts exact.
LEMMA SameHolders ==
    ASSUME LimiterInv, counts' = counts, keys \subseteq keys',
           \A ip \in Ips : Holders(ip)' = Holders(ip)
    PROVE  SlotsExact'
  BY DEF LimiterInv, SlotsExact

\* try_acquire: a successful one adds the socket to the holders.
LEMMA TryAcquireInv ==
    ASSUME LimiterInv, NEW h \in Sockets, TryAcquire(h) PROVE LimiterInv'
  <1> DEFINE a == Addr[h]
  <1> USE DEF TryAcquire, BelowLimit, Goto
  <1>1. TypeOK' /\ a \in Ips
    BY DEF LimiterInv, TypeOK, PC
  <1>2. CASE BelowLimit(a)
    <2>1. Holders(a)' = Holders(a) \cup {h} /\ h \notin Holders(a)
      BY <1>1, <1>2 DEF LimiterInv, TypeOK, Holders
    <2>2. Cardinality(Holders(a)') = Cardinality(Holders(a)) + 1
      BY <1>1, <2>1, HoldersFinite, FS_AddElement
    <2>3. ASSUME NEW ip \in Ips, ip # a PROVE Holders(ip)' = Holders(ip)
      BY <2>3, <1>2 DEF LimiterInv, TypeOK, Holders
    <2>4. SlotsExact'
      BY <1>1, <1>2, <2>2, <2>3 DEF LimiterInv, TypeOK, SlotsExact
    <2>5. \A ip \in Ips : counts'[ip] <= MaxPerIp
      BY <1>2 DEF LimiterInv, TypeOK
    <2>6. NoIdleEntryLeft'
      BY <1>2 DEF LimiterInv, TypeOK, NoIdleEntryLeft
    <2> QED
      BY <1>1, <2>4, <2>5, <2>6 DEF LimiterInv
  <1>3. CASE ~BelowLimit(a)
    <2>1. \A ip \in Ips : Holders(ip)' = Holders(ip)
      BY <1>3 DEF LimiterInv, TypeOK, Holders
    <2>2. SlotsExact'
      BY <1>3, <2>1, SameHolders
    <2>3. NoIdleEntryLeft'
      BY <1>3 DEF LimiterInv, TypeOK, NoIdleEntryLeft
    <2> QED
      BY <1>1, <1>3, <2>2, <2>3 DEF LimiterInv
  <1> QED
    BY <1>2, <1>3

\* Authentication and the end of the socket leave the slot held.
LEMMA HeldInv ==
    ASSUME LimiterInv, NEW h \in Sockets,
           Authenticated(h) \/ AuthFailed(h) \/ SocketEnds(h)
    PROVE  LimiterInv'
  <1> USE DEF Authenticated, AuthFailed, SocketEnds, Goto
  <1>1. TypeOK'
    BY DEF LimiterInv, TypeOK, PC
  <1>2. \A ip \in Ips : Holders(ip)' = Holders(ip)
    BY DEF LimiterInv, TypeOK, Holders
  <1>3. SlotsExact'
    BY <1>2, SameHolders
  <1>4. NoIdleEntryLeft'
    BY DEF LimiterInv, TypeOK, NoIdleEntryLeft
  <1> QED
    BY <1>1, <1>3, <1>4 DEF LimiterInv

\* The decrement of release: it never saturates, because the releasing socket
\* is itself counted.
LEMMA ReleaseSlotInv ==
    ASSUME LimiterInv, NEW h \in Sockets, ReleaseSlot(h) PROVE LimiterInv'
  <1> DEFINE a == Addr[h]
  <1> USE DEF ReleaseSlot, Goto
  <1>1. a \in Ips /\ h \in Holders(a)
    BY DEF LimiterInv, TypeOK, Holders
  <1>2. counts[a] = Cardinality(Holders(a)) /\ counts[a] > 0 /\ a \in keys
    <2>1. Cardinality(Holders(a)) # 0
      BY <1>1, HoldersFinite, FS_EmptySet
    <2> QED
      BY <1>1, <2>1, HoldersFinite DEF LimiterInv, SlotsExact
  <1>3. counts' = [counts EXCEPT ![a] = counts[a] - 1]
    BY <1>1, <1>2 DEF LimiterInv, TypeOK
  <1>4. TypeOK'
    BY <1>1, <1>2, <1>3 DEF LimiterInv, TypeOK, PC
  <1>5. Holders(a)' = Holders(a) \ {h}
    BY <1>1, <1>2 DEF LimiterInv, TypeOK, Holders
  <1>6. Cardinality(Holders(a)') = Cardinality(Holders(a)) - 1
    <2>1. IsFiniteSet(Holders(a))
      BY <1>1, HoldersFinite
    <2>2. Cardinality(Holders(a) \ {h}) = Cardinality(Holders(a)) - 1
      BY <1>1, <2>1, FS_RemoveElement
    <2> QED
      BY <1>5, <2>2
  <1>7. ASSUME NEW ip \in Ips, ip # a PROVE Holders(ip)' = Holders(ip)
    BY <1>7 DEF LimiterInv, TypeOK, Holders
  <1>8. SlotsExact'
    BY <1>1, <1>2, <1>3, <1>6, <1>7 DEF LimiterInv, TypeOK, SlotsExact
  <1>9. \A ip \in Ips : counts'[ip] <= MaxPerIp
    BY <1>1, <1>2, <1>3 DEF LimiterInv, TypeOK
  <1>10. NoIdleEntryLeft'
    BY <1>1, <1>2, <1>3 DEF LimiterInv, TypeOK, NoIdleEntryLeft
  <1> QED
    BY <1>4, <1>8, <1>9, <1>10 DEF LimiterInv

\* The remove_if of release: an entry with a holder stays.
LEMMA RemoveIfZeroInv ==
    ASSUME LimiterInv, NEW h \in Sockets, RemoveIfZero(h) PROVE LimiterInv'
  <1> USE DEF RemoveIfZero, Goto
  <1>1. TypeOK'
    BY DEF LimiterInv, TypeOK, PC
  <1>2. \A ip \in Ips : Holders(ip)' = Holders(ip)
    BY DEF LimiterInv, TypeOK, Holders
  <1>3. SlotsExact'
    BY <1>2 DEF LimiterInv, TypeOK, SlotsExact
  <1>4. NoIdleEntryLeft'
    BY DEF LimiterInv, TypeOK, NoIdleEntryLeft
  <1> QED
    BY <1>1, <1>3, <1>4 DEF LimiterInv

\* The limiter's invariant holds in every reachable state.
THEOREM LimiterInvariance == Spec => []LimiterInv
  <1>1. Init => LimiterInv
    <2> SUFFICES ASSUME Init PROVE LimiterInv
      OBVIOUS
    <2>1. \A ip \in Ips : Holders(ip) = {}
      BY DEF Init, Holders
    <2>2. SlotsExact
      BY <2>1, FS_EmptySet DEF Init, SlotsExact
    <2> QED
      BY <2>2 DEF Init, LimiterInv, TypeOK, NoIdleEntryLeft, PC
  <1>2. LimiterInv /\ [Next]_vars => LimiterInv'
    <2> SUFFICES ASSUME LimiterInv, [Next]_vars PROVE LimiterInv'
      OBVIOUS
    <2>1. ASSUME NEW h \in Sockets, TryAcquire(h) PROVE LimiterInv'
      BY <2>1, TryAcquireInv
    <2>2. ASSUME NEW h \in Sockets,
                 Authenticated(h) \/ AuthFailed(h) \/ SocketEnds(h)
          PROVE  LimiterInv'
      BY <2>2, HeldInv
    <2>3. ASSUME NEW h \in Sockets, ReleaseSlot(h) PROVE LimiterInv'
      BY <2>3, ReleaseSlotInv
    <2>4. ASSUME NEW h \in Sockets, RemoveIfZero(h) PROVE LimiterInv'
      BY <2>4, RemoveIfZeroInv
    <2>5. CASE UNCHANGED vars
      BY <2>5 DEF LimiterInv, TypeOK, SlotsExact, Holders, NoIdleEntryLeft, vars
    <2> QED
      BY <2>1, <2>2, <2>3, <2>4, <2>5 DEF Next, Done
  <1> QED
    BY <1>1, <1>2, PTL DEF Spec

\* The count of an address is exact.
THEOREM ExactCount == Spec => []SlotsExact
  <1>1. LimiterInv => SlotsExact
    BY DEF LimiterInv
  <1> QED
    BY <1>1, LimiterInvariance, PTL

\* The limit is never exceeded.
THEOREM LimitKept == Spec => []WithinLimit
  <1>1. LimiterInv => WithinLimit
    BY DEF LimiterInv, SlotsExact, WithinLimit
  <1> QED
    BY <1>1, LimiterInvariance, PTL

\* The map keeps no entry of an address without connections.
THEOREM NoIdleEntry == Spec => []NoIdleEntryLeft
  <1>1. LimiterInv => NoIdleEntryLeft
    BY DEF LimiterInv
  <1> QED
    BY <1>1, LimiterInvariance, PTL
=============================================================================
