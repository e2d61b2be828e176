------------------------------ MODULE Limiter -------------------------------
(***************************************************************************)
(* The per-IP connection limiter (src/connection/limiter.rs) together with *)
(* the path of handle_socket that acquires and releases slots.  A release  *)
(* is two accesses of the counts map: a decrement under one guard, then    *)
(* remove_if under another; any other socket of the same address may       *)
(* acquire or release in between.                                          *)
(***************************************************************************)
EXTENDS Integers, FiniteSets

CONSTANTS
    Sockets,    \* accepted sockets, one handle_socket task each
    Ips,        \* client addresses
    Addr,       \* Addr[h]: the address of socket h
    MaxPerIp    \* max_connections_per_ip

ASSUME SocketsAssumption == IsFiniteSet(Sockets)
ASSUME AddrAssumption == Addr \in [Sockets -> Ips]
ASSUME MaxAssumption == MaxPerIp \in Nat \ {0}

VARIABLES
    keys,       \* addresses with an entry in the counts map
    counts,     \* value of the entry, 0 when there is none
    pc          \* what each handle_socket task does next

vars == <<keys, counts, pc>>

PC == {"upgraded", "authenticating", "serving", "release", "remove_if",
       "rejected", "closed"}

TypeOK ==
    /\ keys \subseteq Ips
    /\ counts \in [Ips -> Nat]
    /\ pc \in [Sockets -> PC]

Init ==
    /\ keys = {}
    /\ counts = [ip \in Ips |-> 0]
    /\ pc = [h \in Sockets |-> "upgraded"]

Goto(h, label) == pc' = [pc EXCEPT ![h] = label]

BelowLimitOffByOne(ip) == counts[ip] <= MaxPerIp
BelowLimit(ip) == counts[ip] < MaxPerIp

\* try_acquire: entry().or_insert(0), test and increment under one guard.
TryAcquire(h) ==
    LET ip == Addr[h] IN
    /\ pc[h] = "upgraded"
    /\ keys' = keys \cup {ip}
    /\ \/ /\ BelowLimit(ip)
          /\ counts' = [counts EXCEPT ![ip] = @ + 1]
          /\ Goto(h, "authenticating")
       \/ /\ ~BelowLimit(ip)
          /\ counts' = counts
          /\ Goto(h, "rejected")

\* Verification succeeds, or is not configured.
Authenticated(h) ==
    /\ pc[h] = "authenticating"
    /\ Goto(h, "serving")
    /\ UNCHANGED <<keys, counts>>

AuthFailedKeepingSlot(h) ==
    /\ pc[h] = "authenticating"
    /\ Goto(h, "rejected")
    /\ UNCHANGED <<keys, counts>>

\* No token, or verification failed: the close frame is sent, then the slot
\* is released.
AuthFailed(h) ==
    /\ pc[h] = "authenticating"
    /\ Goto(h, "release")
    /\ UNCHANGED <<keys, counts>>

\* inbound_loop returned and the connection was deregistered.
SocketEnds(h) ==
    /\ pc[h] = "serving"
    /\ Goto(h, "release")
    /\ UNCHANGED <<keys, counts>>

\* release, first access: saturating decrement and test for zero.
ReleaseSlot(h) ==
    LET ip == Addr[h]
        left == IF counts[ip] > 0 THEN counts[ip] - 1 ELSE 0
    IN
    /\ pc[h] = "release"
    /\ counts' = IF ip \in keys THEN [counts EXCEPT ![ip] = left] ELSE counts
    /\ Goto(h, IF ip \in keys /\ left = 0 THEN "remove_if" ELSE "closed")
    /\ UNCHANGED keys

RemoveUnchecked(h) ==
    /\ pc[h] = "remove_if"
    /\ keys' = keys \ {Addr[h]}
    /\ counts' = [counts EXCEPT ![Addr[h]] = 0]
    /\ Goto(h, "closed")

RemoveSkipped(h) ==
    /\ pc[h] = "remove_if"
    /\ Goto(h, "closed")
    /\ UNCHANGED <<keys, counts>>

\* release, second access: remove_if tests for zero again.
RemoveIfZero(h) ==
    /\ pc[h] = "remove_if"
    /\ keys' = IF counts[Addr[h]] = 0 THEN keys \ {Addr[h]} ELSE keys
    /\ Goto(h, "closed")
    /\ UNCHANGED counts

Done == (\A h \in Sockets : pc[h] \in {"rejected", "closed"}) /\ UNCHANGED vars

Next ==
    \/ \E h \in Sockets :
         \/ TryAcquire(h) \/ Authenticated(h) \/ AuthFailed(h)
         \/ SocketEnds(h) \/ ReleaseSlot(h) \/ RemoveIfZero(h)
    \/ Done

Spec == Init /\ [][Next]_vars

-----------------------------------------------------------------------------
(* Properties *)

\* The sockets of an address that hold a slot.
Holders(ip) ==
    {h \in Sockets : Addr[h] = ip /\ pc[h] \in {"authenticating", "serving", "release"}}

\* The count of an address is the number of its sockets that hold a slot: no
\* slot is lost to a failed authentication, none is given back twice, and
\* remove_if never wipes out a slot acquired since the decrement.
SlotsExact ==
    \A ip \in Ips :
        /\ counts[ip] = Cardinality(Holders(ip))
        /\ counts[ip] > 0 => ip \in keys

\* No address ever has more than max_per_ip sockets past try_acquire.
WithinLimit == \A ip \in Ips : Cardinality(Holders(ip)) <= MaxPerIp

\* The entry of an address that has no connection left does not stay in the
\* map: a zero is there only while a release is about to remove it.
NoIdleEntryLeft ==
    \A ip \in keys :
        counts[ip] = 0 => \E h \in Sockets : pc[h] = "remove_if" /\ Addr[h] = ip

\* The inductive invariant.
LimiterInv ==
    /\ TypeOK
    /\ SlotsExact
    /\ \A ip \in Ips : counts[ip] <= MaxPerIp
    /\ NoIdleEntryLeft
=============================================================================
