---------------------------- MODULE MCAdmission -----------------------------
(* Three sockets from one address, with two slots, one from another, and a *)
(* key that is rotated twice.                                              *)
EXTENDS Admission

CONSTANTS h1, h2, h3, h4, ipA, ipB

MCSockets == {h1, h2, h3, h4}
MCIps == {ipA, ipB}
MCAddr == [h \in MCSockets |-> IF h = h4 THEN ipB ELSE ipA]
=============================================================================
