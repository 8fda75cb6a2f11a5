---------------------------- MODULE StreamChannels ----------------------------
(***************************************************************************)
(* What a thread queue promises to its users (fftools/thread_queue.h): one  *)
(* bounded FIFO channel per stream.  Items of a stream are numbered, so the *)
(* order and completeness of what comes out is carried by two counters.     *)
(***************************************************************************)
EXTENDS Naturals

CONSTANTS
    Streams,    \* the channels
    Capacity    \* items a channel holds before its sender has to wait

VARIABLES
    sent,       \* per stream: items put into the channel
    got,        \* per stream: items taken out and handed over
    closed,     \* streams whose sending side is finished
    hungup,     \* streams whose receiving side is finished
    ended       \* streams whose end has been reported to the receiver

vars == <<sent, got, closed, hungup, ended>>

Init ==
    /\ sent = [s \in Streams |-> 0]
    /\ got = [s \in Streams |-> 0]
    /\ closed = {}
    /\ hungup = {}
    /\ ended = {}

\* A sender that started before its stream was closed may still get through.
Put(s) ==
    /\ s \notin hungup
    /\ sent[s] < got[s] + Capacity
    /\ sent' = [sent EXCEPT ![s] = @ + 1]
    /\ UNCHANGED <<got, closed, hungup, ended>>

Get(s) ==
    /\ s \notin hungup
    /\ got[s] < sent[s]
    /\ got' = [got EXCEPT ![s] = @ + 1]
    /\ UNCHANGED <<sent, closed, hungup, ended>>

Close(s) ==
    /\ closed' = closed \cup {s}
    /\ UNCHANGED <<sent, got, hungup, ended>>

\* The end is reported once, after the last item.
End(s) ==
    /\ s \in closed
    /\ s \notin hungup
    /\ got[s] = sent[s]
    /\ hungup' = hungup \cup {s}
    /\ ended' = ended \cup {s}
    /\ UNCHANGED <<sent, got, closed>>

\* The receiver gives the stream up: what is still queued is dropped.
Hangup(s) ==
    /\ hungup' = hungup \cup {s}
    /\ UNCHANGED <<sent, got, closed, ended>>

Next == \E s \in Streams : Put(s) \/ Get(s) \/ Close(s) \/ End(s) \/ Hangup(s)

Spec == Init /\ [][Next]_vars
================================================================================
