------------------------------ MODULE Registry ------------------------------
(***************************************************************************)
(* The connection registry (src/connection/registry.rs) at the grain of    *)
(* its DashMap operations.  Every method of the registry is a sequence of  *)
(* map accesses, each under its own shard guard; the tasks that call them  *)
(* (one handler task per connection, one fan-out task for the node)        *)
(* interleave between those accesses.                                      *)
(*                                                                         *)
(*   connections            keys of the map  id -> sender, evict_tx        *)
(*   streamKeys, subs       map  stream -> vector of ids; subs[s][c] is    *)
(*                          how often c occurs in the vector of s          *)
(*   connKeys, connStreams  map  id -> vector of streams                   *)
(*   active                 the AtomicU64 behind connection_count()        *)
(*                                                                         *)
(* The order of the ids in a vector is not kept: the fan-out visits them   *)
(* in any order.  A guard held across two steps is recorded by a pc or by  *)
(* held, and excludes the steps that need it (HoldsConnGuard, Iterating).  *)
(*                                                                         *)
(* A definition written just before another one and differing from it by a *)
(* suffix (HoldsConnGuardBug, RemoveIfEmptyNever, ...) is a mutated form   *)
(* of it: the specification does not use it, and with it in the place of   *)
(* the original TLC refutes a property.                                    *)
(***************************************************************************)
EXTENDS Integers, FiniteSets

CONSTANTS
    Conns,      \* connection ids, each allocated once
    Streams,    \* stream names
    Fan,        \* the fan-out task (the NATS consumer loop)
    Cap         \* capacity of the bounded outbound channel

ASSUME ConnsAssumption == IsFiniteSet(Conns)
ASSUME StreamsAssumption == Streams # {}
ASSUME FanAssumption == Fan \notin Conns
ASSUME CapAssumption == Cap \in Nat \ {0}

VARIABLES
    connections, connKeys, connStreams, streamKeys, subs, active,
    pc,         \* what each task does next
    cur,        \* cur[p]: the stream task p is working on
    todo,       \* todo[p]: streams the deregister run by p has still to leave
    victim,     \* the connection the fan-out task is deregistering
    pending,    \* pending[c]: occurrences of c the fan-out has still to visit
    evicted,    \* ids collected by the fan-out and not yet deregistered
    chan,       \* chan[c]: frames queued in the live channel of c
    rxOpen,     \* rxOpen[c]: the outbound loop still holds the receiver
    evictSig,   \* evictSig[c]: the capacity-1 evict channel holds a signal
    held        \* streams whose read guard the fan-out task holds

maps == <<connections, connKeys, connStreams, streamKeys, subs, active>>
tasks == <<pc, cur, todo, victim, pending, evicted, held>>
chans == <<chan, rxOpen, evictSig>>
vars == <<connections, connKeys, connStreams, streamKeys, subs, active,
          pc, cur, todo, victim, pending, evicted, held, chan, rxOpen, evictSig>>

Procs == Conns \cup {Fan}

HandlerPC == {"new", "reg_conn_streams", "reg_active", "serving", "sub_record",
              "unsub_rmif", "unsub_forget", "done"}
FanPC == {"idle", "iterate"}
DeregPC == {"dereg_take", "dereg_retain", "dereg_rmif", "dereg_dec"}

TypeOK ==
    /\ connections \subseteq Conns
    /\ connKeys \subseteq Conns
    /\ connStreams \in [Conns -> SUBSET Streams]
    /\ streamKeys \subseteq Streams
    /\ subs \in [Streams -> [Conns -> Nat]]
    /\ active \in Int
    /\ pc \in [Procs -> HandlerPC \cup FanPC \cup DeregPC]
    /\ \A c \in Conns : pc[c] \in HandlerPC \cup DeregPC
    /\ pc[Fan] \in FanPC \cup DeregPC
    /\ cur \in [Procs -> Streams]
    /\ todo \in [Procs -> SUBSET Streams]
    /\ victim \in Conns \cup {Fan}
    /\ pc[Fan] \in DeregPC => victim \in Conns
    /\ pending \in [Conns -> Nat]
    /\ evicted \subseteq Conns
    /\ held \subseteq Streams
    /\ chan \in [Conns -> 0..Cap]
    /\ rxOpen \in [Conns -> BOOLEAN]
    /\ evictSig \in [Conns -> BOOLEAN]

Init ==
    /\ connections = {}
    /\ connKeys = {}
    /\ connStreams = [c \in Conns |-> {}]
    /\ streamKeys = {}
    /\ subs = [s \in Streams |-> [c \in Conns |-> 0]]
    /\ active = 0
    /\ pc = [p \in Procs |-> IF p = Fan THEN "idle" ELSE "new"]
    /\ cur \in [Procs -> {CHOOSE s \in Streams : TRUE}]
    /\ todo = [p \in Procs |-> {}]
    /\ victim = Fan
    /\ pending = [c \in Conns |-> 0]
    /\ evicted = {}
    /\ held = {}
    /\ chan = [c \in Conns |-> 0]
    /\ rxOpen = [c \in Conns |-> TRUE]
    /\ evictSig = [c \in Conns |-> FALSE]

-----------------------------------------------------------------------------
(* Guards held across steps. *)

\* subscribe keeps the write guard on conn_streams[c] while it pushes into
\* streams and then into conn_streams[c].
HoldsConnGuardBug(c) == FALSE
HoldsConnGuard(c) == pc[c] = "sub_record"

\* fanout_encoded keeps the read guard on streams[s] while it visits the ids.
IteratingBug(s) == FALSE
Iterating(s) == s \in held

Goto(p, label) == pc' = [pc EXCEPT ![p] = label]

IsEmpty(s) == \A c \in Conns : subs[s][c] = 0

-----------------------------------------------------------------------------
(* remove_subscriber_from_stream, shared by unsubscribe and deregister. *)

\* get_mut + retain + is_empty under one guard; task p continues at rmif when
\* it left the vector empty and at next otherwise (also when there is no entry).
RetainOthers(p, c, s, rmif, next) ==
    /\ ~Iterating(s)
    /\ subs' = IF s \in streamKeys THEN [subs EXCEPT ![s][c] = 0] ELSE subs
    /\ LET emptied == s \in streamKeys /\ \A d \in Conns \ {c} : subs[s][d] = 0
       IN  Goto(p, IF emptied THEN rmif ELSE next)

\* remove_if under a new guard: emptiness is tested again.
RemoveIfEmptyUnchecked(s) == ~Iterating(s) /\ streamKeys' = streamKeys \ {s}
RemoveIfEmptyNever(s) == streamKeys' = streamKeys
RemoveIfEmpty(s) ==
    /\ ~Iterating(s)
    /\ streamKeys' = IF IsEmpty(s) THEN streamKeys \ {s} ELSE streamKeys

-----------------------------------------------------------------------------
(* register: three separate accesses. *)

\* allocate_id hands out c, and connections.insert(c).
RegisterConnection(c) ==
    /\ pc[c] = "new"
    /\ connections' = connections \cup {c}
    /\ Goto(c, "reg_conn_streams")
    /\ UNCHANGED <<connKeys, connStreams, streamKeys, subs, active>>
    /\ UNCHANGED <<cur, todo, victim, pending, evicted, held>> /\ UNCHANGED chans

RegisterStreams(c) ==
    /\ pc[c] = "reg_conn_streams"
    /\ connKeys' = connKeys \cup {c}
    /\ connStreams' = [connStreams EXCEPT ![c] = {}]
    /\ Goto(c, "reg_active")
    /\ UNCHANGED <<connections, streamKeys, subs, active>>
    /\ UNCHANGED <<cur, todo, victim, pending, evicted, held>> /\ UNCHANGED chans

RegisterActive(c) ==
    /\ pc[c] = "reg_active"
    /\ active' = active + 1
    /\ Goto(c, "serving")
    /\ UNCHANGED <<connections, connKeys, connStreams, streamKeys, subs>>
    /\ UNCHANGED <<cur, todo, victim, pending, evicted, held>> /\ UNCHANGED chans

-----------------------------------------------------------------------------
(* subscribe *)

MaySubscribeRepeatedly(c, s) == c \in connKeys
MaySubscribeWhenGone(c, s) == s \notin connStreams[c]
MaySubscribe(c, s) == c \in connKeys /\ s \notin connStreams[c]

\* get_mut finds the entry of c (it is gone after an eviction, and then the
\* call does nothing), s is not in it, and c is pushed into streams[s].  The
\* guard on conn_streams[c] stays held.
SubscribePush(c, s) ==
    /\ pc[c] = "serving"
    /\ MaySubscribe(c, s)
    /\ ~Iterating(s)
    /\ streamKeys' = streamKeys \cup {s}
    /\ subs' = [subs EXCEPT ![s][c] = @ + 1]
    /\ cur' = [cur EXCEPT ![c] = s]
    /\ Goto(c, "sub_record")
    /\ UNCHANGED <<connections, connKeys, connStreams, active>>
    /\ UNCHANGED <<todo, victim, pending, evicted, held>> /\ UNCHANGED chans

\* conn_streams[c] gets s and the guard is dropped.
SubscribeRecord(c) ==
    /\ pc[c] = "sub_record"
    /\ connStreams' = [connStreams EXCEPT ![c] = @ \cup {cur[c]}]
    /\ Goto(c, "serving")
    /\ UNCHANGED <<connections, connKeys, streamKeys, subs, active>>
    /\ UNCHANGED <<cur, todo, victim, pending, evicted, held>> /\ UNCHANGED chans

-----------------------------------------------------------------------------
(* unsubscribe *)

UnsubscribeRetain(c, s) ==
    /\ pc[c] = "serving"
    /\ RetainOthers(c, c, s, "unsub_rmif", "unsub_forget")
    /\ cur' = [cur EXCEPT ![c] = s]
    /\ UNCHANGED <<connections, connKeys, connStreams, streamKeys, active>>
    /\ UNCHANGED <<todo, victim, pending, evicted, held>> /\ UNCHANGED chans

UnsubscribeRemoveIf(c) ==
    /\ pc[c] = "unsub_rmif"
    /\ RemoveIfEmpty(cur[c])
    /\ Goto(c, "unsub_forget")
    /\ UNCHANGED <<connections, connKeys, connStreams, subs, active>>
    /\ UNCHANGED <<cur, todo, victim, pending, evicted, held>> /\ UNCHANGED chans

UnsubscribeForget(c) ==
    /\ pc[c] = "unsub_forget"
    /\ connStreams' = IF c \in connKeys
                      THEN [connStreams EXCEPT ![c] = @ \ {cur[c]}]
                      ELSE connStreams
    /\ Goto(c, "serving")
    /\ UNCHANGED <<connections, connKeys, streamKeys, subs, active>>
    /\ UNCHANGED <<cur, todo, victim, pending, evicted, held>> /\ UNCHANGED chans

-----------------------------------------------------------------------------
(* deregister, run by the handler for its own connection or by the fan-out *)
(* task for an evicted one, possibly both at the same time.                *)

Target(p) == IF p = Fan THEN victim ELSE p

Finished(p) == IF p = Fan THEN "idle" ELSE "done"

\* The inbound loop of c ended: handle_socket calls deregister.
HandlerLeave(c) ==
    /\ pc[c] = "serving"
    /\ Goto(c, "dereg_take")
    /\ UNCHANGED maps
    /\ UNCHANGED <<cur, todo, victim, pending, evicted, held>> /\ UNCHANGED chans

\* conn_streams.remove(c) takes the whole list, or nothing the second time.
DeregisterTake(p) ==
    /\ pc[p] = "dereg_take"
    /\ ~HoldsConnGuard(Target(p))
    /\ LET c == Target(p) IN
         /\ todo' = [todo EXCEPT ![p] = IF c \in connKeys THEN connStreams[c] ELSE {}]
         /\ connKeys' = connKeys \ {c}
         /\ connStreams' = [connStreams EXCEPT ![c] = {}]
    /\ Goto(p, "dereg_retain")
    /\ UNCHANGED <<connections, streamKeys, subs, active>>
    /\ UNCHANGED <<cur, victim, pending, evicted, held>> /\ UNCHANGED chans

DeregisterRetain(p, s) ==
    /\ pc[p] = "dereg_retain"
    /\ s \in todo[p]
    /\ RetainOthers(p, Target(p), s, "dereg_rmif", "dereg_retain")
    /\ cur' = [cur EXCEPT ![p] = s]
    /\ todo' = [todo EXCEPT ![p] = @ \ {s}]
    /\ UNCHANGED <<connections, connKeys, connStreams, streamKeys, active>>
    /\ UNCHANGED <<victim, pending, evicted, held>> /\ UNCHANGED chans

DeregisterRemoveIf(p) ==
    /\ pc[p] = "dereg_rmif"
    /\ RemoveIfEmpty(cur[p])
    /\ Goto(p, "dereg_retain")
    /\ UNCHANGED <<connections, connKeys, connStreams, subs, active>>
    /\ UNCHANGED <<cur, todo, victim, pending, evicted, held>> /\ UNCHANGED chans

RemovesEntryAlways(p) == TRUE
RemovesEntry(p) == Target(p) \in connections

\* connections.remove(c): only the call that removed the entry goes on to
\* decrement the counter.
DeregisterEntry(p) ==
    /\ pc[p] = "dereg_retain"
    /\ todo[p] = {}
    /\ connections' = connections \ {Target(p)}
    /\ Goto(p, IF RemovesEntry(p) THEN "dereg_dec" ELSE Finished(p))
    /\ UNCHANGED <<connKeys, connStreams, streamKeys, subs, active>>
    /\ UNCHANGED <<cur, todo, victim, pending, evicted, held>> /\ UNCHANGED chans

DeregisterActive(p) ==
    /\ pc[p] = "dereg_dec"
    /\ active' = active - 1
    /\ Goto(p, Finished(p))
    /\ UNCHANGED <<connections, connKeys, connStreams, streamKeys, subs>>
    /\ UNCHANGED <<cur, todo, victim, pending, evicted, held>> /\ UNCHANGED chans

-----------------------------------------------------------------------------
(* fanout_encoded, run by the one fan-out task. *)

\* A message for s arrived and streams.get(s) found an entry.
FanoutBegin(s) ==
    /\ pc[Fan] = "idle"
    /\ evicted = {}
    /\ s \in streamKeys
    /\ held' = {s}
    /\ cur' = [cur EXCEPT ![Fan] = s]
    /\ pending' = subs[s]
    /\ Goto(Fan, "iterate")
    /\ UNCHANGED maps
    /\ UNCHANGED <<todo, victim, evicted>> /\ UNCHANGED chans

\* One occurrence of c in the vector.
FanoutVisit(c) ==
    /\ pc[Fan] = "iterate"
    /\ pending[c] > 0
    /\ pending' = [pending EXCEPT ![c] = @ - 1]

CanSendOverfull(c) == rxOpen[c]
CanSend(c) == rxOpen[c] /\ chan[c] < Cap

FanoutSend(c) ==
    /\ FanoutVisit(c)
    /\ c \in connections
    /\ CanSend(c)
    /\ chan' = [chan EXCEPT ![c] = @ + 1]
    /\ UNCHANGED maps
    /\ UNCHANGED <<pc, cur, todo, victim, evicted, held>> /\ UNCHANGED <<rxOpen, evictSig>>

SignalEvictLost(c) == evictSig' = evictSig
SignalEvict(c) == evictSig' = [evictSig EXCEPT ![c] = rxOpen[c]]

\* try_send failed: signal the outbound loop (a full evict channel already
\* holds a signal) and remember c.
FanoutEvict(c) ==
    /\ FanoutVisit(c)
    /\ c \in connections
    /\ ~CanSend(c)
    /\ SignalEvict(c)
    /\ evicted' = evicted \cup {c}
    /\ UNCHANGED maps
    /\ UNCHANGED <<pc, cur, todo, victim, held>> /\ UNCHANGED <<chan, rxOpen>>

\* connections.get(c) found nothing: c is being deregistered.
FanoutSkip(c) ==
    /\ FanoutVisit(c)
    /\ c \notin connections
    /\ UNCHANGED maps
    /\ UNCHANGED <<pc, cur, todo, victim, evicted, held>> /\ UNCHANGED chans

\* The read guard is dropped before any deregister.
DropGuardLate == UNCHANGED held
DropGuard == held' = {}

FanoutRelease ==
    /\ pc[Fan] = "iterate"
    /\ \A c \in Conns : pending[c] = 0
    /\ DropGuard
    /\ Goto(Fan, "idle")
    /\ UNCHANGED maps
    /\ UNCHANGED <<cur, todo, victim, pending, evicted>> /\ UNCHANGED chans

\* The loop over the evicted ids.
FanoutDeregister(c) ==
    /\ pc[Fan] = "idle"
    /\ c \in evicted
    /\ evicted' = evicted \ {c}
    /\ victim' = c
    /\ Goto(Fan, "dereg_take")
    /\ UNCHANGED maps
    /\ UNCHANGED <<cur, todo, pending, held>> /\ UNCHANGED chans

-----------------------------------------------------------------------------
(* The two ends of the live channel, as far as the registry sees them. *)

\* The handler queues a frame of its own (welcome, ping, confirmation).
HandlerFrame(c) ==
    /\ pc[c] = "serving"
    /\ CanSend(c)
    /\ chan' = [chan EXCEPT ![c] = @ + 1]
    /\ UNCHANGED maps /\ UNCHANGED tasks /\ UNCHANGED <<rxOpen, evictSig>>

OutboundRecv(c) ==
    /\ rxOpen[c]
    /\ ~evictSig[c]
    /\ chan[c] > 0
    /\ chan' = [chan EXCEPT ![c] = @ - 1]
    /\ UNCHANGED maps /\ UNCHANGED tasks /\ UNCHANGED <<rxOpen, evictSig>>

\* The outbound loop returns: it took the evict signal, or the socket failed.
\* Its receivers are dropped with what they hold.
OutboundEnd(c) ==
    /\ rxOpen[c]
    /\ pc[c] \notin {"new", "reg_conn_streams", "reg_active"}
    /\ rxOpen' = [rxOpen EXCEPT ![c] = FALSE]
    /\ evictSig' = [evictSig EXCEPT ![c] = FALSE]
    /\ chan' = [chan EXCEPT ![c] = 0]
    /\ UNCHANGED maps /\ UNCHANGED tasks

-----------------------------------------------------------------------------
Register(c) == RegisterConnection(c) \/ RegisterStreams(c) \/ RegisterActive(c)

Unsubscribe(c) == UnsubscribeRemoveIf(c) \/ UnsubscribeForget(c)

Deregister(p) ==
    \/ DeregisterTake(p)
    \/ \E s \in Streams : DeregisterRetain(p, s)
    \/ DeregisterRemoveIf(p)
    \/ DeregisterEntry(p)
    \/ DeregisterActive(p)

Fanout ==
    \/ FanoutRelease
    \/ \E c \in Conns : \/ FanoutSend(c) \/ FanoutEvict(c) \/ FanoutSkip(c)
                        \/ FanoutDeregister(c)

Done == /\ \A c \in Conns : pc[c] = "done"
        /\ pc[Fan] = "idle" /\ evicted = {}
        /\ UNCHANGED vars

Next ==
    \/ \E c \in Conns :
         \/ Register(c)
         \/ \E s \in Streams : SubscribePush(c, s)
         \/ SubscribeRecord(c)
         \/ \E s \in Streams : UnsubscribeRetain(c, s)
         \/ Unsubscribe(c)
         \/ HandlerLeave(c)
         \/ HandlerFrame(c)
         \/ OutboundRecv(c)
         \/ OutboundEnd(c)
    \/ \E p \in Procs : Deregister(p)
    \/ \E s \in Streams : FanoutBegin(s)
    \/ Fanout
    \/ Done

Spec == Init /\ [][Next]_vars

\* Every task keeps running once it is inside a registry method.  A step that
\* waits for a write guard gets it in some gap between two fan-outs, hence
\* strong fairness where ~Iterating is part of the guard.
Fairness ==
    /\ \A p \in Procs : SF_vars(Deregister(p))
    /\ \A c \in Conns : /\ WF_vars(Register(c))
                        /\ WF_vars(SubscribeRecord(c))
                        /\ SF_vars(Unsubscribe(c))
    /\ WF_vars(Fanout)

FairSpec == Spec /\ Fairness
-----------------------------------------------------------------------------
(* Properties *)

Deregistering(p, c) == pc[p] \in DeregPC \ {"dereg_take"} /\ Target(p) = c

\* c has gone through register and has not started its own deregister.
Serving(c) == pc[c] \in {"serving", "sub_record", "unsub_rmif", "unsub_forget"}

\* Once the handler of a connection has returned from deregister, and the
\* fan-out task is not in the middle of deregistering the same connection, no
\* map mentions it: no stream vector keeps a dead id, whichever of the two
\* tasks took the stream list and whatever subscribe was in flight.
DepartedUnrouted ==
    \A c \in Conns :
        pc[c] = "done" /\ ~Deregistering(Fan, c) =>
            /\ c \notin connections
            /\ c \notin connKeys
            /\ \A s \in Streams : subs[s][c] = 0

\* A connection that conn_streams records as subscribed is found by a fan-out:
\* the entry of the stream exists and holds it, although another task may be
\* between retain and remove_if on the same entry.
SubscribedIsRouted ==
    \A c \in connKeys : \A s \in connStreams[c] :
        \/ s \in streamKeys /\ subs[s][c] > 0
        \/ pc[c] \in {"unsub_rmif", "unsub_forget"} /\ cur[c] = s

\* A connection occurs at most once in a stream's vector, so that a message is
\* sent to it at most once (subscribe is documented as idempotent).
RoutedOnce == \A s \in Streams : \A c \in Conns : subs[s][c] <= 1

\* The ids that active counts: registered and counted, or removed from
\* connections by a deregister that has not decremented yet.
Counted ==
    {c \in Conns :
        \/ c \in connections /\ pc[c] \notin {"reg_conn_streams", "reg_active"}
        \/ \E p \in Procs : pc[p] = "dereg_dec" /\ Target(p) = c}

\* connection_count() is exact: concurrent deregisters of one connection
\* decrement once, so the counter that the shutdown waits on reaches zero and
\* never wraps below it.
ActiveExact == active = Cardinality(Counted)

\* The last subscriber's departure removes the stream's entry: an empty vector
\* is in the map only while some task is about to remove it.
NoEmptyStreamLeft ==
    \A s \in streamKeys :
        IsEmpty(s) => \E p \in Procs :
                        pc[p] \in {"unsub_rmif", "dereg_rmif"} /\ cur[p] = s

\* A connection the registry has dropped while its handler is still serving
\* has an eviction signal waiting, or its outbound loop has already returned:
\* it never stays connected, silently receiving nothing.
EvictedIsTold ==
    \A c \in Conns :
        Serving(c) /\ c \notin connKeys => evictSig[c] \/ ~rxOpen[c]

\* The vector a fan-out walks cannot change under it: what is left to visit is
\* still in the stream's vector.
IterationStable ==
    pc[Fan] = "iterate" =>
        /\ cur[Fan] \in streamKeys
        /\ \A c \in Conns : pending[c] <= subs[cur[Fan]][c]

\* An evicted connection leaves the registry: the fan-out released its read
\* guard before it asks for the write guard.
EvictedLeaves == \A c \in Conns : c \in evicted ~> c \notin connections

\* To its callers the registry is a set of open connections and a routing
\* table: although every method is several map accesses and two tasks may
\* deregister one connection, a connection closes once, at the removal of its
\* conn_streams entry, and from then on it is only taken out of streams.
Closed == {c \in Conns : pc[c] \notin {"new", "reg_conn_streams"} /\ c \notin connKeys}
Routes == [s \in Streams |-> {c \in Conns : subs[s][c] > 0}]
Table == INSTANCE Routing WITH open <- connKeys, closed <- Closed, routes <- Routes
ImplementsRouting == Table!RoutingSpec
-----------------------------------------------------------------------------
(* The inductive invariant behind the properties above. *)

Registering(c) == pc[c] \in {"new", "reg_conn_streams", "reg_active"}

\* The fan-out task has marked c for eviction or is deregistering it.
Targeted(c) == c \in evicted \/ (pc[Fan] \in DeregPC /\ victim = c)

\* p has taken the stream list of c and has streams to leave.
Leaving(p, c) == pc[p] \in {"dereg_retain", "dereg_rmif"} /\ Target(p) = c

\* c may occur in the vector of s: by the reverse map, by the subscribe in
\* flight, or by the deregister that has still to visit that stream.
Owned(c, s) ==
    \/ c \in connKeys /\ s \in connStreams[c]
    \/ pc[c] = "sub_record" /\ cur[c] = s
    \/ \E p \in Procs : Leaving(p, c) /\ s \in todo[p]

\* Whoever occurs in a stream's vector is accounted for.
Accounted ==
    \A s \in Streams : \A c \in Conns :
        subs[s][c] > 0 => s \in streamKeys /\ Owned(c, s)

\* Where each handler stands with respect to the maps.
HandlerState ==
    \A c \in Conns :
        /\ Registering(c) => connStreams[c] = {} /\ ~Targeted(c)
        /\ pc[c] = "new" => c \notin connections
        /\ pc[c] \in {"reg_conn_streams", "reg_active"} => c \in connections
        /\ pc[c] \in {"new", "reg_conn_streams"} => c \notin connKeys
        /\ pc[c] = "reg_active" => c \in connKeys
        /\ pc[c] = "sub_record" =>
             /\ c \in connKeys
             /\ cur[c] \in streamKeys
             /\ subs[cur[c]][c] > 0
        /\ pc[c] \in {"unsub_rmif", "unsub_forget"} => subs[cur[c]][c] = 0
        /\ pc[c] = "done" => c \notin connKeys /\ c \notin connections

\* A deregister past its first step has emptied the reverse entry, and past
\* its last map access the entry in connections; one call only decrements.
DeregisterState ==
    /\ \A p \in Procs :
         /\ pc[p] \in DeregPC \ {"dereg_take"} => Target(p) \notin connKeys
         /\ pc[p] = "dereg_dec" => Target(p) \notin connections
    /\ \A p, q \in Procs :
         pc[p] = "dereg_dec" /\ pc[q] = "dereg_dec" /\ Target(p) = Target(q) => p = q

\* The read guard is held exactly while the fan-out walks the vector.
GuardHeld == pc[Fan] = "iterate" => cur[Fan] \in held

\* An eviction that is under way has been signalled.
TargetedIsTold == \A c \in Conns : Targeted(c) => evictSig[c] \/ ~rxOpen[c]

\* Every part together: true initially, kept by every step, and enough for
\* each of the properties above.
RegistryInv ==
    /\ TypeOK
    /\ Accounted
    /\ SubscribedIsRouted
    /\ RoutedOnce
    /\ HandlerState
    /\ DeregisterState
    /\ GuardHeld
    /\ IterationStable
    /\ NoEmptyStreamLeft
    /\ TargetedIsTold
    /\ EvictedIsTold
    /\ ActiveExact
=============================================================================
