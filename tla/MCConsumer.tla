----------------------------- MODULE MCConsumer -----------------------------
(* A short stream, with more messages than max_ack_pending. *)
EXTENDS Consumer
=============================================================================
