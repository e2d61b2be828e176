--------------------------- MODULE MCRateLimiter ----------------------------
(* A stream at the default rate, whose burst is left to the code, one with *)
(* an override and one that an override exempts.                           *)
EXTENDS RateLimiter, TLC

CONSTANTS plain, busy, free

MCStreams == {plain, busy, free}
MCOverrides == busy :> [rps |-> 3, burst |-> 1] @@ free :> [rps |-> 0, burst |-> 0]
=============================================================================
