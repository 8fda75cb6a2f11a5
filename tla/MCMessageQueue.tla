---------------------------- MODULE MCMessageQueue -----------------------------
(* Instances of MessageQueue for TLC. *)
EXTENDS MessageQueue

CONSTANTS junk, s1, s2, r1, r2
================================================================================
