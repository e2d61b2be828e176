----------------------------- MODULE MCRegistry -----------------------------
(* The registry with a few interchangeable connections and streams. *)
EXTENDS Registry, TLC

SymConns == Permutations(Conns)
=============================================================================
