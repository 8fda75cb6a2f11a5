----------------------------- MODULE MessageQueue ------------------------------
(***************************************************************************)
(* libavutil/threadmessage.c: a bounded queue of messages between threads,  *)
(* any number of which send and receive.  The scheduler hands demuxers the  *)
(* end timestamps of decoders through one, the fifo muxer and some input    *)
(* devices their packets.                                                   *)
(*                                                                          *)
(* A call holds mq->lock up to where it waits on a condition variable or    *)
(* returns, and is one step up to there.  A signal wakes some waiting       *)
(* thread; until that thread has the lock again, another may be faster.     *)
(***************************************************************************)
EXTENDS Fifo, FiniteSets

CONSTANTS
    nelem,      \* the length of the queue
    Senders,    \* threads that call av_thread_message_queue_send()
    Receivers,  \* threads that call av_thread_message_queue_recv()
    Errors,     \* the error codes that may be set
    MaxSend     \* bound: no call to send starts once so many were sent

ASSUME MessageQueueAssumption ==
    /\ nelem \in Nat
    /\ IsFiniteSet(Senders) /\ IsFiniteSet(Receivers)
    /\ 0 \notin Errors
    /\ MaxSend \in Nat

VARIABLES
    fifo,       \* mq->fifo
    err_send,   \* mq->err_send, 0 if unset
    err_recv,   \* mq->err_recv, 0 if unset
    free_func,  \* whether mq->free_func is set
    sender,     \* where each sender stands in its call
    receiver,   \* where each receiver stands in its call
    sent,       \* how many messages were written; each has its number
    got,        \* the last message each receiver got, 0 before
    freed       \* the messages mq->free_func() was called for

vars == <<fifo, err_send, err_recv, free_func, sender, receiver, sent, got, freed>>

\* The free function is set before the queue is used, or never.
Init ==
    /\ fifo = alloc2(nelem)
    /\ err_send = 0 /\ err_recv = 0
    /\ free_func \in BOOLEAN
    /\ sender = [p \in Senders |-> "idle"]
    /\ receiver = [r \in Receivers |-> "idle"]
    /\ sent = 0
    /\ got = [r \in Receivers |-> 0]
    /\ freed = {}

(***************************************************************************)
(* Condition variables: of the threads that wait, pthread_cond_signal()     *)
(* wakes one, pthread_cond_broadcast() wakes all.                           *)
(***************************************************************************)
In(threads, where) == {t \in DOMAIN threads : threads[t] = where}

Unsignalled(threads) == {threads}                               \* mutant

Signalled(threads) ==
    IF In(threads, "waiting") = {} THEN {threads}
    ELSE {[threads EXCEPT ![t] = "woken"] : t \in In(threads, "waiting")}

Silence(threads) == threads                                     \* mutant

Broadcast(threads) ==
    [t \in DOMAIN threads |-> IF threads[t] = "waiting" THEN "woken" ELSE threads[t]]

--------------------------------------------------------------------------------
(* Sending. *)

\* p has the lock inside av_thread_message_queue_send(), before the loop's test.
InSend(p) == (sender[p] = "idle" /\ sent < MaxSend) \/ sender[p] = "woken"

\* The queue is full.  A call with AV_THREAD_MESSAGE_NONBLOCK returns EAGAIN.
SendWait(p) ==
    /\ InSend(p)
    /\ err_send = 0 /\ can_write(fifo) = 0
    /\ \/ sender' = [sender EXCEPT ![p] = "waiting"]
       \/ sender[p] = "idle" /\ UNCHANGED sender
    /\ UNCHANGED <<fifo, err_send, err_recv, free_func, receiver, sent, got, freed>>

SendFails(p) ==
    /\ InSend(p)
    /\ err_send # 0
    /\ sender' = [sender EXCEPT ![p] = "idle"]
    /\ UNCHANGED <<fifo, err_send, err_recv, free_func, receiver, sent, got, freed>>

SendWrites(p) ==
    /\ InSend(p)
    /\ err_send = 0 /\ can_write(fifo) > 0
    /\ sent' = sent + 1
    /\ fifo' = write(fifo, <<sent'>>)
    /\ sender' = [sender EXCEPT ![p] = "idle"]
    /\ receiver' \in Signalled(receiver)
    /\ UNCHANGED <<err_send, err_recv, free_func, got, freed>>

send(p) == SendWait(p) \/ SendFails(p) \/ SendWrites(p)

--------------------------------------------------------------------------------
(* Receiving. *)

InRecv(r) == receiver[r] \in {"idle", "woken"}

RecvWait(r) ==
    /\ InRecv(r)
    /\ err_recv = 0 /\ can_read(fifo) = 0
    /\ \/ receiver' = [receiver EXCEPT ![r] = "waiting"]
       \/ receiver[r] = "idle" /\ UNCHANGED receiver
    /\ UNCHANGED <<fifo, err_send, err_recv, free_func, sender, sent, got, freed>>

\* The error is returned once there is nothing left to read.
RecvFails(r) ==
    /\ InRecv(r)
    /\ err_recv # 0 /\ can_read(fifo) = 0
    /\ receiver' = [receiver EXCEPT ![r] = "idle"]
    /\ UNCHANGED <<fifo, err_send, err_recv, free_func, sender, sent, got, freed>>

RecvReads(r) ==
    /\ InRecv(r)
    /\ can_read(fifo) > 0
    /\ got' = [got EXCEPT ![r] = peek(fifo, 1, 0)[1]]
    /\ fifo' = drain2(fifo, 1)
    /\ receiver' = [receiver EXCEPT ![r] = "idle"]
    /\ sender' \in Signalled(sender)
    /\ UNCHANGED <<err_send, err_recv, free_func, sent, freed>>

recv(r) == RecvWait(r) \/ RecvFails(r) \/ RecvReads(r)

--------------------------------------------------------------------------------
(* Calls that never wait. *)

set_err_send ==
    /\ err_send' \in Errors \cup {0}
    /\ sender' = Broadcast(sender)
    /\ UNCHANGED <<fifo, err_recv, free_func, receiver, sent, got, freed>>

set_err_recv ==
    /\ err_recv' \in Errors \cup {0}
    /\ receiver' = Broadcast(receiver)
    /\ UNCHANGED <<fifo, err_send, free_func, sender, sent, got, freed>>

\* Without a free function the messages stay where they are.
flush ==
    LET n == can_read(fifo) IN
    /\ IF free_func
         THEN /\ freed' = freed \cup {peek(fifo, n, 0)[i] : i \in 1 .. n}
              /\ fifo' = drain2(fifo, n)
         ELSE UNCHANGED <<fifo, freed>>
    /\ sender' = Broadcast(sender)
    /\ UNCHANGED <<err_send, err_recv, free_func, receiver, sent, got>>

\* pthread_cond_wait() may return by itself.
WakesByItself ==
    \/ /\ \E p \in In(sender, "waiting") : sender' = [sender EXCEPT ![p] = "woken"]
       /\ UNCHANGED receiver
    \/ /\ \E r \in In(receiver, "waiting") : receiver' = [receiver EXCEPT ![r] = "woken"]
       /\ UNCHANGED sender

Next ==
    \/ \E p \in Senders : send(p)
    \/ \E r \in Receivers : recv(r)
    \/ set_err_send
    \/ set_err_recv
    \/ flush
    \/ WakesByItself /\ UNCHANGED <<fifo, err_send, err_recv, free_func, sent, got, freed>>

Spec == Init /\ [][Next]_vars

\* A thread that was woken gets the lock and goes on.
FairSpec ==
    /\ Spec
    /\ \A p \in Senders : WF_vars(sender[p] = "woken" /\ send(p))
    /\ \A r \in Receivers : WF_vars(receiver[r] = "woken" /\ recv(r))

--------------------------------------------------------------------------------
(* Properties. *)

TypeOK ==
    /\ IsRing(fifo, Nat)
    /\ err_send \in Errors \cup {0} /\ err_recv \in Errors \cup {0}
    /\ free_func \in BOOLEAN
    /\ sender \in [Senders -> {"idle", "waiting", "woken"}]
    /\ receiver \in [Receivers -> {"idle", "waiting", "woken"}]
    /\ sent \in Nat
    /\ got \in [Receivers -> Nat]
    /\ freed \subseteq Nat

\* A signal is sent per message and may reach a receiver after another took the
\* message, yet none is missed: while a receiver sleeps, as many others have been
\* woken as there are messages, and no error is set that should have ended its
\* call.  The same for senders and free slots
\* (av_thread_message_queue_send_locked(), av_thread_message_queue_recv_locked()).
NoLostWakeup ==
    /\ In(receiver, "waiting") # {} =>
          /\ err_recv = 0
          /\ can_read(fifo) <= Cardinality(In(receiver, "woken"))
    /\ In(sender, "waiting") # {} =>
          /\ err_send = 0
          /\ can_write(fifo) <= Cardinality(In(sender, "woken"))

\* av_fifo_grow2() of the ring in any position it gets into, by any amount, and
\* the growing av_fifo_write() after it, keep what the ring holds in order.
GrowthKeepsContents ==
    \A inc \in 0 .. nelem + 1 :
        /\ Contents(grow2(fifo, inc)) = Contents(fifo)
        /\ \A n \in 0 .. can_write(fifo) + inc :
              LET buf == [i \in 1 .. n |-> -i] IN
              Growth(fifo, n, nelem + inc) >= 0 =>
                  Contents(write_grow(fifo, buf, nelem + inc)) = Contents(fifo) \o buf

\* The queue is a channel of nelem messages: each is received by one
\* thread, in order, or passed to the free function by av_thread_message_flush();
\* none is lost, made up or received twice, however the ring wraps around.
Channel == INSTANCE MessageChannel
    WITH Capacity <- nelem, channel <- Contents(fifo)

ImplementsChannel == Channel!Spec

\* Setting the errors ends every call: av_thread_message_queue_send() as soon as
\* it has the lock, av_thread_message_queue_recv() when the queue is empty.
CallsReturn ==
    /\ \A p \in Senders : <>[](err_send # 0) => []<>(sender[p] = "idle")
    /\ \A r \in Receivers : <>[](err_recv # 0) => []<>(receiver[r] = "idle")
================================================================================
