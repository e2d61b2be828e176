------------------------------ MODULE Routing -------------------------------
(***************************************************************************)
(* What the connection registry promises its callers: a connection opens   *)
(* once and closes once, messages of a stream are routed to a set of       *)
(* connections, and only an open connection is ever added to that set.     *)
(* Closing and leaving the streams are separate steps.                     *)
(***************************************************************************)
CONSTANTS Conns, Streams

VARIABLES
    open,       \* connections that may subscribe
    closed,     \* connections that have been open and are no more
    routes      \* routes[s]: where a message of s goes

routingVars == <<open, closed, routes>>

RoutingInit ==
    /\ open = {} /\ closed = {}
    /\ routes = [s \in Streams |-> {}]

Open(c) ==
    /\ c \notin open \cup closed
    /\ open' = open \cup {c}
    /\ UNCHANGED <<closed, routes>>

Close(c) ==
    /\ c \in open
    /\ open' = open \ {c} /\ closed' = closed \cup {c}
    /\ UNCHANGED routes

Route(c, s) ==
    /\ c \in open
    /\ routes' = [routes EXCEPT ![s] = @ \cup {c}]
    /\ UNCHANGED <<open, closed>>

Unroute(c, s) ==
    /\ routes' = [routes EXCEPT ![s] = @ \ {c}]
    /\ UNCHANGED <<open, closed>>

RoutingNext ==
    \E c \in Conns : \/ Open(c) \/ Close(c)
                     \/ \E s \in Streams : Route(c, s) \/ Unroute(c, s)

RoutingSpec == RoutingInit /\ [][RoutingNext]_routingVars
=============================================================================
