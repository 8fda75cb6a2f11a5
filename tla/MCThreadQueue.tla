----------------------------- MODULE MCThreadQueue -----------------------------
(* Instances of ThreadQueue for TLC. *)
EXTENDS ThreadQueue, TLC

CONSTANTS
    upstream,   \* the task that feeds stream 0
    heartbeat,  \* a second sender of stream 0: the muxer's subtitle heartbeats
    other       \* the task that feeds stream 1

MCStreamOf == (upstream :> 0 @@ heartbeat :> 0 @@ other :> 1)

\* The stream of two senders gets one item more than it has places.
MCMaxSend == (0 :> 3 @@ 1 :> 1)

MCMaxSendTwo == [s \in Streams |-> 2]

MCStreamOfPair == (upstream :> 0 @@ other :> 1)
================================================================================
