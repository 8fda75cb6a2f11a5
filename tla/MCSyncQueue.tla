------------------------------ MODULE MCSyncQueue ------------------------------
(* Instances of SyncQueue for TLC. *)
EXTENDS SyncQueue

\* Video 0, audio 1 in frames of three samples, and a stream 2 that limits nothing.
AvSamples == [s \in Streams |-> IF s = 1 THEN 3 ELSE 0]
AvLengths == [s \in Streams |-> IF s = 1 THEN {1, 4} ELSE {2, 3}]
Unset == -100
TwoVideo == [s \in Streams |-> IF s = 0 THEN 2 ELSE 99]
================================================================================
