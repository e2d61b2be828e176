------------------------------ MODULE Presence ------------------------------
(***************************************************************************)
(* The presence key of one user on one stream (src/presence/mod.rs), as    *)
(* the connections of that user on the nodes of a cluster write it: put at *)
(* subscribe, a heartbeat task that puts again, delete at unsubscribe and  *)
(* at disconnect.  The requests of a node go through one NATS client and   *)
(* reach the KV bucket in the order they were sent; those of two nodes in  *)
(* any order.  The bucket and its max_age are external.                    *)
(*                                                                         *)
(* The clock advances when no request is under way and no heartbeat is     *)
(* overdue: latencies are short against a tick of a few seconds.           *)
(***************************************************************************)
EXTENDS Naturals, Sequences

CONSTANTS
    Conns,      \* connections of the user
    Nodes,      \* gateway nodes
    NodeOf,     \* NodeOf[c]: the node that serves c
    Ttl,        \* PRESENCE_TTL_SECS, in ticks
    Interval,   \* HEARTBEAT_INTERVAL_SECS, in ticks
    MaxFaults   \* bound on failed requests and crashes

ASSUME PresenceAssumption ==
    /\ NodeOf \in [Conns -> Nodes]
    /\ Ttl \in Nat /\ Interval \in Nat \ {0} /\ Interval < Ttl
    /\ MaxFaults \in Nat

VARIABLES
    doing,      \* what the handler of a connection is at
    beating,    \* connections that hold a HeartbeatHandle
    sinceBeat,  \* ticks since the heartbeat task of c last fired
    wire,       \* requests a node has sent, oldest first
    present,    \* the key is in the bucket
    age,        \* ticks since it was last put
    faults,     \* failed requests and crashes so far
    \* history
    unsure,     \* a put has failed since the last one that succeeded
    absentFor,  \* ticks the key has been absent
    quietFor    \* ticks since a connection last had to do with the stream

handlers == <<doing, beating, sinceBeat>>
bucket == <<present, age>>
presenceHistory == <<unsure, absentFor, quietFor>>
presenceVars == <<handlers, wire, bucket, faults, presenceHistory>>

Ops == {"put", "delete", "beat"}

PresenceTypeOK ==
    /\ doing \in [Conns -> {"idle", "subscribing", "subscribed", "unsubscribing", "closing"}]
    /\ beating \subseteq Conns
    /\ sinceBeat \in [Conns -> 0 .. Interval]
    /\ wire \in [Nodes -> Seq(Ops \X Conns)]
    /\ present \in BOOLEAN /\ age \in 0 .. Ttl
    /\ faults \in 0 .. MaxFaults
    /\ unsure \in BOOLEAN /\ absentFor \in Nat /\ quietFor \in Nat

\* connect has opened the bucket, or created it with max_age.
PresenceInit ==
    /\ doing = [c \in Conns |-> "idle"] /\ beating = {}
    /\ sinceBeat = [c \in Conns |-> 0]
    /\ wire = [n \in Nodes |-> <<>>]
    /\ present = FALSE /\ age = 0 /\ faults = 0
    /\ unsure = FALSE /\ absentFor = 0 /\ quietFor = 0

-----------------------------------------------------------------------------
(* The handler of a connection *)

Send(c, op) == wire' = [wire EXCEPT ![NodeOf[c]] = Append(@, <<op, c>>)]
Now(c, what) == doing' = [doing EXCEPT ![c] = what]

\* Dropping a HeartbeatHandle aborts its task.
DropHandle(c) == beating' = beating \ {c}

\* Subscribe awaits put; a heartbeat of an earlier subscribe keeps running.
Subscribe(c) ==
    /\ doing[c] \in {"idle", "subscribed"}
    /\ Now(c, "subscribing") /\ Send(c, "put") /\ quietFor' = 0
    /\ UNCHANGED <<beating, sinceBeat, bucket, faults, unsure, absentFor>>

UnsubscribeKeepingHeartbeat(c) ==
    /\ doing[c] \in {"idle", "subscribed"}
    /\ Now(c, "unsubscribing") /\ Send(c, "delete") /\ quietFor' = 0
    /\ UNCHANGED <<beating, sinceBeat, bucket, faults, unsure, absentFor>>

\* Unsubscribe aborts the heartbeat, if there is one, and awaits delete.
Unsubscribe(c) ==
    /\ doing[c] \in {"idle", "subscribed"}
    /\ Now(c, "unsubscribing") /\ Send(c, "delete") /\ quietFor' = 0
    /\ DropHandle(c)
    /\ UNCHANGED <<sinceBeat, bucket, faults, unsure, absentFor>>

\* inbound_loop ends: delete is awaited while the heartbeat still runs.
Disconnect(c) ==
    /\ doing[c] = "subscribed"
    /\ Now(c, "closing") /\ Send(c, "delete") /\ quietFor' = 0
    /\ UNCHANGED <<beating, sinceBeat, bucket, faults, unsure, absentFor>>

-----------------------------------------------------------------------------
(* The heartbeat task *)

DueTooLate(c) == c \in beating /\ sinceBeat[c] = Ttl
Due(c) == c \in beating /\ sinceBeat[c] = Interval

BeatOnce(c) ==
    /\ Due(c) /\ Send(c, "beat")
    /\ sinceBeat' = [sinceBeat EXCEPT ![c] = 0]
    /\ beating' = beating \ {c}
    /\ UNCHANGED <<doing, bucket, faults, presenceHistory>>

Heartbeat(c) ==
    /\ Due(c) /\ Send(c, "beat")
    /\ sinceBeat' = [sinceBeat EXCEPT ![c] = 0]
    /\ UNCHANGED <<doing, beating, bucket, faults, presenceHistory>>

-----------------------------------------------------------------------------
(* The bucket, and the handler going on when its request is answered *)

\* After put the heartbeat starts afresh; after the last delete the handles are
\* dropped.  An error is logged and changes nothing.
Resume(op, c) ==
    \/ /\ op = "put" /\ Now(c, "subscribed")
       /\ beating' = beating \cup {c} /\ sinceBeat' = [sinceBeat EXCEPT ![c] = 0]
    \/ /\ op = "delete" /\ Now(c, "idle") /\ UNCHANGED sinceBeat
       /\ IF doing[c] = "closing" THEN DropHandle(c) ELSE UNCHANGED beating
    \/ op = "beat" /\ UNCHANGED handlers

Answered(n) ==
    /\ wire[n] # <<>>
    /\ wire' = [wire EXCEPT ![n] = Tail(@)]
    /\ Resume(Head(wire[n])[1], Head(wire[n])[2])

Apply(n) ==
    /\ Answered(n)
    /\ present' = (Head(wire[n])[1] # "delete") /\ age' = 0
    /\ IF present' THEN unsure' = FALSE /\ absentFor' = 0
                   ELSE UNCHANGED <<unsure, absentFor>>
    /\ UNCHANGED <<faults, quietFor>>

Fail(n) ==
    /\ Answered(n)
    /\ faults < MaxFaults /\ faults' = faults + 1
    /\ unsure' = (unsure \/ Head(wire[n])[1] # "delete")
    /\ UNCHANGED <<bucket, absentFor, quietFor>>

\* A node dies with its handlers, its tasks and what it has not sent.
Crash(n) ==
    /\ faults < MaxFaults /\ faults' = faults + 1
    /\ doing' = [c \in Conns |-> IF NodeOf[c] = n THEN "idle" ELSE doing[c]]
    /\ beating' = {c \in beating : NodeOf[c] # n}
    /\ wire' = [wire EXCEPT ![n] = <<>>]
    /\ UNCHANGED <<sinceBeat, bucket, presenceHistory>>

Upto(n, bound) == IF n < bound THEN n + 1 ELSE n

Tick ==
    /\ \A n \in Nodes : wire[n] = <<>>
    /\ \A c \in Conns : ~Due(c)
    /\ sinceBeat' = [c \in Conns |-> IF c \in beating THEN sinceBeat[c] + 1 ELSE sinceBeat[c]]
    /\ present' = (present /\ age + 1 < Ttl) /\ age' = IF present' THEN age + 1 ELSE 0
    /\ absentFor' = IF present THEN 0 ELSE Upto(absentFor, Interval + 1)
    /\ quietFor' = IF \A c \in Conns : doing[c] = "idle" THEN Upto(quietFor, Ttl + 1) ELSE 0
    /\ UNCHANGED <<doing, beating, wire, faults, unsure>>

PresenceNext ==
    \/ \E c \in Conns : Subscribe(c) \/ Unsubscribe(c) \/ Disconnect(c) \/ Heartbeat(c)
    \/ \E n \in Nodes : Apply(n) \/ Fail(n) \/ Crash(n)
    \/ Tick

PresenceSpec == PresenceInit /\ [][PresenceNext]_presenceVars

-----------------------------------------------------------------------------
(* Properties *)

Subscribed == \E c \in Conns : doing[c] = "subscribed"

\* The key never expires under a subscriber, unless a put failed: the heartbeat
\* that starts with the answer to put, also after a second subscribe, comes
\* before the TTL of that put is over.
NoLapse ==
    [][Tick /\ present /\ ~present' => ~Subscribed \/ unsure]_presenceVars

\* A key that another connection of the user has deleted, while one is still
\* subscribed, is back within the interval.
AbsenceHeals == Subscribed /\ ~unsure => absentFor <= Interval

\* The key does not outlive the user's last connection by the TTL: not after a
\* failed delete, a crash, or a heartbeat that put it back after the delete.
GhostExpires == present => quietFor < Ttl

-----------------------------------------------------------------------------
(* The inductive invariant *)

\* A subscribed connection has a heartbeat, and none that left has.
Beats ==
    \A c \in Conns : /\ doing[c] = "subscribed" => c \in beating
                     /\ c \in beating => doing[c] \notin {"idle", "unsubscribing"}

Awaits(r) ==
    \/ r[1] = "put" /\ doing[r[2]] = "subscribing"
    \/ r[1] = "delete" /\ doing[r[2]] \in {"unsubscribing", "closing"}

\* A put or delete under way is the one request its handler awaits; what else
\* is under way comes from heartbeats.
AwaitedOnce ==
    \A n \in Nodes : \A i \in 1 .. Len(wire[n]) :
        /\ NodeOf[wire[n][i][2]] = n
        /\ wire[n][i][1] # "beat" =>
             /\ Awaits(wire[n][i])
             /\ \A j \in 1 .. Len(wire[n]) :
                  wire[n][j][2] = wire[n][i][2] /\ wire[n][j][1] # "beat" => j = i

BeatUnderWay(c) ==
    \E i \in 1 .. Len(wire[NodeOf[c]]) : wire[NodeOf[c]][i] = <<"beat", c>>

\* The key is no older, and has been away no longer, than the last heartbeat of
\* any connection, unless that heartbeat's put is under way.
Fresh ==
    ~unsure =>
        /\ \A c \in beating :
             \/ BeatUnderWay(c)
             \/ age <= sinceBeat[c] /\ absentFor <= sinceBeat[c]
        /\ beating # {} => absentFor <= Interval

\* While it is quiet nothing refreshes the key.
Quiet ==
    /\ present => age < Ttl /\ quietFor <= age
    /\ quietFor > 0 => /\ \A c \in Conns : doing[c] = "idle"
                       /\ \A n \in Nodes : wire[n] = <<>>

PresenceInv == PresenceTypeOK /\ Beats /\ AwaitedOnce /\ Fresh /\ Quiet
=============================================================================
