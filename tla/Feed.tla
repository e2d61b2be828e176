-------------------------------- MODULE Feed --------------------------------
(***************************************************************************)
(* What the durable consumer of a node promises about the stream: every    *)
(* message is handled at least once, and none is settled, so that NATS     *)
(* will not send it again, before it has been handled.  Only a node whose  *)
(* id is not kept across restarts starts over.                             *)
(***************************************************************************)
EXTENDS Naturals

VARIABLES
    published,  \* sequence number of the last message of the stream
    durable,    \* the consumer outlives the process
    handled,    \* sequence numbers handled so far
    settled     \* sequence numbers that will not be sent again

feedVars == <<published, durable, handled, settled>>

FeedInit ==
    /\ published = 0 /\ durable \in BOOLEAN
    /\ handled = {} /\ settled = {}

PublishOne ==
    /\ published' = published + 1
    /\ UNCHANGED <<durable, handled, settled>>

\* Again and again, perhaps.
HandleOne ==
    /\ \E m \in 1 .. published : handled' = handled \cup {m}
    /\ UNCHANGED <<published, durable, settled>>

SettleOne ==
    /\ \E m \in handled : settled' = settled \cup {m}
    /\ UNCHANGED <<published, durable, handled>>

StartOver ==
    /\ ~durable
    /\ settled' = {}
    /\ UNCHANGED <<published, durable, handled>>

FeedNext == PublishOne \/ HandleOne \/ SettleOne \/ StartOver

FeedSpec == FeedInit /\ [][FeedNext]_feedVars
=============================================================================
