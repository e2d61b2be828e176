----------------------------- MODULE MCDelivery -----------------------------
(* One client, a few messages and a few sessions. *)
EXTENDS Delivery
=============================================================================
