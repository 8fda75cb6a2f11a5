---------------------------- MODULE MessageChannel -----------------------------
(***************************************************************************)
(* What a message queue promises, with no ring, lock or waiting in it: a    *)
(* channel of bounded capacity that hands each message to one receiver, in  *)
(* the order they were put in, unless all of it is thrown away.  Messages   *)
(* are numbered as they are put in.                                         *)
(***************************************************************************)
EXTENDS Integers, Sequences

CONSTANTS Capacity, Receivers

VARIABLES
    sent,       \* how many messages were put in
    channel,    \* the messages sent and not yet received
    got,        \* the last message each receiver got, 0 before
    freed       \* the messages that were thrown away

vars == <<sent, channel, got, freed>>

Init ==
    /\ sent = 0
    /\ channel = <<>>
    /\ got = [r \in Receivers |-> 0]
    /\ freed = {}

Put ==
    /\ Len(channel) < Capacity
    /\ sent' = sent + 1
    /\ channel' = Append(channel, sent')
    /\ UNCHANGED <<got, freed>>

Take ==
    /\ channel # <<>>
    /\ \E r \in Receivers : got' = [got EXCEPT ![r] = Head(channel)]
    /\ channel' = Tail(channel)
    /\ UNCHANGED <<sent, freed>>

ThrowAway ==
    /\ freed' = freed \cup {channel[i] : i \in 1 .. Len(channel)}
    /\ channel' = <<>>
    /\ UNCHANGED <<sent, got>>

Next == Put \/ Take \/ ThrowAway

Spec == Init /\ [][Next]_vars
================================================================================
