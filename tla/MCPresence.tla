----------------------------- MODULE MCPresence -----------------------------
(* Two connections of the user on one node and one on another. *)
EXTENDS Presence

CONSTANTS c1, c2, c3, n1, n2

MCConns == {c1, c2, c3}
MCNodes == {n1, n2}
MCNodeOf == [c \in MCConns |-> IF c = c3 THEN n2 ELSE n1]
=============================================================================
