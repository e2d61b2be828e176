------------------------- MODULE MCLifecycleGraceful ------------------------
(* Lifecycle on one connection, with a history variable for the drain. *)
EXTENDS Lifecycle

VARIABLE atDrain    \* connections registered when the drain began, none once
                    \* its deadline has passed

historyVars == <<vars, atDrain>>

DrainBegins == ServeEnds /\ atDrain' = registered
DrainGivesUp == PollDeadline /\ atDrain' = {}
OtherStep == Next /\ ~ServeEnds /\ ~PollDeadline /\ UNCHANGED atDrain

HistorySpec ==
    /\ Init /\ atDrain = {}
    /\ [][DrainBegins \/ DrainGivesUp \/ OtherStep]_historyVars
    /\ Fairness

\* "In-flight fan-out messages are not silently dropped": a process that exits
\* (Flush) before the deadline does not cut off the drain of a connection that
\* was registered when the drain began and can still be written to.
GracefulClose ==
    [][main' = "exited" =>
        \A c \in atDrain :
            sock[c] = "ok" /\ hs[c] = "awaiting" =>
                owedReplay[c] = 0 /\ owedLive[c] = 0]_historyVars
=============================================================================
