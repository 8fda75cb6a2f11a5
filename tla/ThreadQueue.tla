------------------------------ MODULE ThreadQueue ------------------------------
(***************************************************************************)
(* fftools/thread_queue.c: the multi-stream queue that connects the         *)
(* threads of the transcoder.  Sender threads block while their own stream  *)
(* holds QueueSize items; the single receiver blocks while nothing can be   *)
(* delivered or while the scheduler has choked the queue.                   *)
(*                                                                          *)
(* Every tq_*() call runs under tq->lock, so a call is one step up to the   *)
(* point where it waits on a condition variable or returns.  tq_receive()   *)
(* loops over queued items while it holds the lock; each iteration is a     *)
(* step of its own, and receiver = "locked" keeps every other thread out.   *)
(*                                                                          *)
(* A queued item is [stream, seq]: the stream it was sent on and its number *)
(* among the items accepted for that stream.                                *)
(***************************************************************************)
EXTENDS Integers, Sequences

CONSTANTS
    NbStreams,      \* tq->nb_streams
    QueueSize,      \* tq->queue_size: items per stream
    SizeMax,        \* SIZE_MAX: stream_count[] is a size_t and wraps around
    Senders,        \* threads that call tq_send()
    StreamOf,       \* the stream each of them sends on
    AllocOutcomes,  \* outcomes of the item allocation in tq_send()
    MaxSend         \* bound, per stream: no tq_send() starts once it has had so many

Streams == 0 .. NbStreams - 1

ASSUME ThreadQueueAssumption ==
    /\ NbStreams \in Nat \ {0}
    /\ QueueSize \in Nat \ {0}
    /\ SizeMax \in Nat
    /\ NbStreams * QueueSize <= SizeMax      \* checked by tq_alloc()
    /\ StreamOf \in [Senders -> Streams]
    /\ AllocOutcomes \in SUBSET BOOLEAN
    /\ MaxSend \in [Streams -> Nat]

VARIABLES
    choked,             \* tq->choked
    finished,           \* tq->finished[]: subsets of {"SEND", "RECV"}
    fifo,               \* tq->fifo: the items
    fifo_stream_index,  \* tq->fifo_stream_index: their stream indices
    stream_count,       \* tq->stream_count[]
    sender,             \* where each sender stands in tq_send()
    receiver,           \* where the receiver stands in tq_receive()
    nonblock,           \* THREAD_QUEUE_FLAG_NO_BLOCK of the call in progress
    accepted,           \* per stream: number of items tq_send() accepted
    taken,              \* per stream: number of items read off the fifos
    delivered,          \* per stream: seq of the last item handed out
    attribution,        \* [item, idx] of the last item handed out
    eof,                \* streams whose end tq_receive() has reported
    result              \* what the last tq_receive() returned

vars == <<choked, finished, fifo, fifo_stream_index, stream_count, sender,
          receiver, nonblock, accepted, taken, delivered, attribution, eof,
          result>>

queueVars == <<choked, finished, fifo, fifo_stream_index, stream_count>>
historyVars == <<accepted, taken, delivered, attribution, eof, result>>

Item == [stream : Streams, seq : Nat]
NoItem == [stream |-> 0, seq |-> 0]

Init ==
    /\ choked = FALSE
    /\ finished = [s \in Streams |-> {}]
    /\ fifo = <<>>
    /\ fifo_stream_index = <<>>
    /\ stream_count = [s \in Streams |-> 0]
    /\ sender = [p \in Senders |-> "idle"]
    /\ receiver = "idle"
    /\ nonblock = FALSE
    /\ accepted = [s \in Streams |-> 0]
    /\ taken = [s \in Streams |-> 0]
    /\ delivered = [s \in Streams |-> 0]
    /\ attribution = [item |-> NoItem, idx |-> 0]
    /\ eof = {}
    /\ result = "none"

(***************************************************************************)
(* The lock and the condition variables.  A broadcast turns "waiting" into  *)
(* "woken"; a woken thread goes on once it has the lock.                    *)
(***************************************************************************)
LockFree == receiver # "locked"

NoBroadcastRead(r) == r                                        \* mutant

BroadcastRead(r) == IF r = "waiting" THEN "woken" ELSE r

NoBroadcastWrite(s) == sender                                  \* mutant

BroadcastWrite(s) ==
    [p \in Senders |-> IF sender[p] = "waiting" /\ StreamOf[p] = s
                         THEN "woken" ELSE sender[p]]

--------------------------------------------------------------------------------
(* Sending side. *)

can_write(s) == stream_count[s] < QueueSize

\* tq_send() called after the sending side was marked finished: EINVAL.
SendRefused(p) ==
    /\ sender[p] = "idle"
    /\ "SEND" \in finished[StreamOf[p]]
    /\ UNCHANGED vars

\* p holds the lock inside tq_send(), at the head of the wait loop.
InSend(p) ==
    /\ LockFree
    /\ \/ /\ sender[p] = "idle"
          /\ "SEND" \notin finished[StreamOf[p]]
          /\ accepted[StreamOf[p]] < MaxSend[StreamOf[p]]
       \/ sender[p] = "woken"

SendWait(p) ==
    LET s == StreamOf[p] IN
    /\ InSend(p)
    /\ "RECV" \notin finished[s]
    /\ ~can_write(s)
    /\ sender' = [sender EXCEPT ![p] = "waiting"]
    /\ UNCHANGED <<queueVars, receiver, nonblock, historyVars>>

SendEof(p) ==
    LET s == StreamOf[p] IN
    /\ InSend(p)
    /\ "RECV" \in finished[s]
    /\ finished' = [finished EXCEPT ![s] = @ \cup {"SEND"}]
    /\ sender' = [sender EXCEPT ![p] = "idle"]
    /\ UNCHANGED <<choked, fifo, fifo_stream_index, stream_count, receiver,
                   nonblock, historyVars>>

\* The item the sender of stream s brings.
NextItem(s) == [stream |-> s, seq |-> accepted[s] + 1]

(* The two writes of tq_send(): first the stream index, which fails when    *)
(* its fixed-size fifo is full, then the item, which fails when the         *)
(* container fifo cannot allocate an entry.                                 *)

\* mutant: the index jumps the queue
StoreIndexInFront(s) ==
    /\ Len(fifo_stream_index) < NbStreams * QueueSize
    /\ TRUE \in AllocOutcomes
    /\ fifo_stream_index' = <<s>> \o fifo_stream_index
    /\ fifo' = Append(fifo, NextItem(s))
    /\ stream_count' = [stream_count EXCEPT ![s] = @ + 1]
    /\ accepted' = [accepted EXCEPT ![s] = @ + 1]
    /\ receiver' = BroadcastRead(receiver)

\* mutant: the item overtakes those in the queue, and its index with it
StorePairInFront(s) ==
    /\ Len(fifo_stream_index) < NbStreams * QueueSize
    /\ TRUE \in AllocOutcomes
    /\ fifo_stream_index' = <<s>> \o fifo_stream_index
    /\ fifo' = <<NextItem(s)>> \o fifo
    /\ stream_count' = [stream_count EXCEPT ![s] = @ + 1]
    /\ accepted' = [accepted EXCEPT ![s] = @ + 1]
    /\ receiver' = BroadcastRead(receiver)

Store(s) ==
    /\ Len(fifo_stream_index) < NbStreams * QueueSize
    /\ TRUE \in AllocOutcomes
    /\ fifo_stream_index' = Append(fifo_stream_index, s)
    /\ fifo' = Append(fifo, NextItem(s))
    /\ stream_count' = [stream_count EXCEPT ![s] = @ + 1]
    /\ accepted' = [accepted EXCEPT ![s] = @ + 1]
    /\ receiver' = BroadcastRead(receiver)

\* mutant: the item is written first and stays behind
StoreItemOnly(s) ==
    /\ Len(fifo_stream_index) < NbStreams * QueueSize
    /\ FALSE \in AllocOutcomes
    /\ fifo' = Append(fifo, NextItem(s))
    /\ UNCHANGED <<fifo_stream_index, stream_count, accepted, receiver>>

\* ENOMEM: the index stays behind.
StoreIndexOnly(s) ==
    /\ Len(fifo_stream_index) < NbStreams * QueueSize
    /\ FALSE \in AllocOutcomes
    /\ fifo_stream_index' = Append(fifo_stream_index, s)
    /\ UNCHANGED <<fifo, stream_count, accepted, receiver>>

\* ENOSPC
StoreNothing ==
    /\ Len(fifo_stream_index) >= NbStreams * QueueSize
    /\ UNCHANGED <<fifo, fifo_stream_index, stream_count, accepted, receiver>>

SendWrite(p) ==
    LET s == StreamOf[p] IN
    /\ InSend(p)
    /\ "RECV" \notin finished[s]
    /\ can_write(s)
    /\ Store(s) \/ StoreIndexOnly(s) \/ StoreNothing
    /\ sender' = [sender EXCEPT ![p] = "idle"]
    /\ UNCHANGED <<choked, finished, nonblock, taken, delivered, attribution,
                   eof, result>>

tq_send(p) == SendRefused(p) \/ SendWait(p) \/ SendEof(p) \/ SendWrite(p)

tq_send_finish(s) ==
    /\ LockFree
    /\ finished' = [finished EXCEPT ![s] = @ \cup {"SEND"}]
    /\ choked' = FALSE
    /\ receiver' = BroadcastRead(receiver)
    /\ UNCHANGED <<fifo, fifo_stream_index, stream_count, sender, nonblock,
                   historyVars>>

--------------------------------------------------------------------------------
(* Receiving side. *)

\* Called by the receiving thread only, between two tq_receive().
tq_receive_finish(s) ==
    /\ receiver = "idle"
    /\ finished' = [finished EXCEPT ![s] = @ \cup {"RECV"}]
    /\ sender' = BroadcastWrite(s)
    /\ UNCHANGED <<choked, fifo, fifo_stream_index, stream_count, receiver,
                   nonblock, historyVars>>

ReceiveCall ==
    /\ receiver = "idle"
    /\ receiver' = "locked"
    /\ nonblock' \in BOOLEAN
    /\ UNCHANGED <<queueVars, sender, historyVars>>

ReceiveResume ==
    /\ receiver = "woken"
    /\ receiver' = "locked"
    /\ UNCHANGED <<queueVars, sender, nonblock, historyVars>>

DecrementSigned(n) == n - 1                                    \* mutant

\* size_t arithmetic: zero wraps around.
Decrement(n) == IF n = 0 THEN SizeMax ELSE n - 1

\* One iteration of the read loop of receive_locked(): take the head of both
\* fifos and wake the senders of that stream if its share was full.
TakeHead ==
    LET idx == Head(fifo_stream_index) IN
    /\ receiver = "locked"
    /\ ~choked
    /\ fifo # <<>>
    /\ fifo' = Tail(fifo)
    /\ fifo_stream_index' = Tail(fifo_stream_index)
    /\ stream_count' = [stream_count EXCEPT ![idx] = Decrement(@)]
    /\ sender' = IF stream_count[idx] = QueueSize THEN BroadcastWrite(idx)
                                                  ELSE sender
    /\ taken' = [taken EXCEPT ![idx] = @ + 1]
    /\ UNCHANGED <<choked, finished, nonblock, accepted, eof>>

\* The receiving side has closed the stream.
Dropped(idx) == "RECV" \in finished[idx]

\* Drop the item, loop.
ReceiveDiscard ==
    /\ TakeHead
    /\ Dropped(Head(fifo_stream_index))
    /\ UNCHANGED <<receiver, delivered, attribution, result>>

ReceiveItem ==
    LET idx == Head(fifo_stream_index) IN
    /\ TakeHead
    /\ ~Dropped(idx)
    /\ receiver' = "idle"
    /\ delivered' = [delivered EXCEPT ![idx] = Head(fifo).seq]
    /\ attribution' = [item |-> Head(fifo), idx |-> idx]
    /\ result' = "item"

EofPendingAgain == {s \in Streams : finished[s] # {}}          \* mutant

\* Streams whose end has not been reported yet.
EofPending == {s \in Streams : finished[s] # {} /\ "RECV" \notin finished[s]}

AnyFinished == \E s \in Streams : finished[s] # {}            \* mutant

AllFinished == \A s \in Streams : finished[s] # {}

\* Empty queue: report the end of the lowest-numbered finished stream, once.
ReceiveEof ==
    /\ receiver = "locked"
    /\ ~choked
    /\ fifo = <<>>
    /\ \E s \in EofPending :
          /\ \A t \in EofPending : s <= t
          /\ finished' = [finished EXCEPT ![s] = @ \cup {"RECV"}]
          /\ eof' = eof \cup {s}
    /\ receiver' = "idle"
    /\ result' = "eof"
    /\ UNCHANGED <<choked, fifo, fifo_stream_index, stream_count, sender,
                   nonblock, accepted, taken, delivered, attribution>>

ReceiveDone ==
    /\ receiver = "locked"
    /\ ~choked
    /\ fifo = <<>>
    /\ EofPending = {}
    /\ AllFinished
    /\ receiver' = "idle"
    /\ result' = "done"
    /\ UNCHANGED <<queueVars, sender, nonblock, accepted, taken, delivered,
                   attribution, eof>>

\* receive_locked() has nothing to return: EAGAIN.
NothingToReceive ==
    choked \/ (fifo = <<>> /\ EofPending = {} /\ ~AllFinished)

ReceiveWait ==
    /\ receiver = "locked"
    /\ NothingToReceive
    /\ receiver' = IF nonblock THEN "idle" ELSE "waiting"
    /\ result' = IF nonblock THEN "again" ELSE result
    /\ UNCHANGED <<queueVars, sender, nonblock, accepted, taken, delivered,
                   attribution, eof>>

tq_receive ==
    \/ ReceiveCall    \/ ReceiveResume \/ ReceiveDiscard \/ ReceiveItem
    \/ ReceiveEof     \/ ReceiveDone   \/ ReceiveWait

--------------------------------------------------------------------------------
tq_choke(c) ==
    /\ LockFree
    /\ choked' = c
    /\ receiver' = IF c # choked THEN BroadcastRead(receiver) ELSE receiver
    /\ UNCHANGED <<finished, fifo, fifo_stream_index, stream_count, sender,
                   nonblock, historyVars>>

\* POSIX lets pthread_cond_wait() return without a signal.
SpuriousWakeup ==
    /\ \/ \E p \in Senders :
             /\ sender[p] = "waiting"
             /\ sender' = [sender EXCEPT ![p] = "woken"]
             /\ UNCHANGED receiver
       \/ /\ receiver = "waiting"
          /\ receiver' = "woken"
          /\ UNCHANGED sender
    /\ UNCHANGED <<queueVars, nonblock, historyVars>>

Next ==
    \/ \E p \in Senders : tq_send(p)
    \/ \E s \in Streams : tq_send_finish(s)
    \/ \E s \in Streams : tq_receive_finish(s)
    \/ tq_receive
    \/ \E c \in BOOLEAN : tq_choke(c)
    \/ SpuriousWakeup

Spec == Init /\ [][Next]_vars

(***************************************************************************)
(* The receiver calls tq_receive() again and again, as every task of the    *)
(* scheduler does until it is told that all streams are done.  A woken      *)
(* sender competes for the mutex with a receiver that takes it again and    *)
(* again; strong fairness says that the mutex does not starve it.  Nobody   *)
(* is obliged to start a call of tq_send(), to finish a stream or to        *)
(* change the choke.                                                        *)
(***************************************************************************)
Fairness ==
    /\ WF_vars(tq_receive)
    /\ \A p \in Senders : SF_vars(sender[p] = "woken" /\ tq_send(p))

FairSpec == Spec /\ Fairness

--------------------------------------------------------------------------------
(* Properties. *)

TypeOK ==
    /\ choked \in BOOLEAN
    /\ finished \in [Streams -> SUBSET {"SEND", "RECV"}]
    /\ fifo \in Seq(Item)
    /\ fifo_stream_index \in Seq(Streams)
    /\ stream_count \in [Streams -> 0 .. SizeMax]
    /\ sender \in [Senders -> {"idle", "waiting", "woken"}]
    /\ receiver \in {"idle", "locked", "waiting", "woken"}
    /\ nonblock \in BOOLEAN
    /\ accepted \in [Streams -> Nat]
    /\ taken \in [Streams -> Nat]
    /\ delivered \in [Streams -> Nat]
    /\ attribution \in [item : Item, idx : Streams]
    /\ eof \in SUBSET Streams
    /\ result \in {"none", "item", "eof", "done", "again"}

(* A receiver parked on cond_read has nothing to return: whoever changes    *)
(* that broadcasts (thread_queue.c:179, 269, 296).                          *)
ReceiverNotForgotten == receiver = "waiting" => NothingToReceive

(* A sender parked on cond_write has a full and open stream before it:      *)
(* whoever takes an item of a full stream or closes the stream broadcasts   *)
(* (thread_queue.c:205, 284), and the end of a stream is never reported,    *)
(* which closes it without a broadcast (l. 223), while a sender waits.      *)
SendersNotForgotten ==
    \A p \in Senders : sender[p] = "waiting" =>
        /\ "RECV" \notin finished[StreamOf[p]]
        /\ ~can_write(StreamOf[p])

(* The two fifos stay in step, so that the index read along with an item is *)
(* the stream it was sent on (thread_queue.c:170-174, 196-201).             *)
StreamsStayPaired ==
    /\ Len(fifo_stream_index) = Len(fifo)
    /\ \A i \in 1 .. Len(fifo) : fifo_stream_index[i] = fifo[i].stream

\* Items accepted on stream s and not yet read off the fifos.
Pending(s) == taken[s] + 1 .. accepted[s]

CountsAgree ==
    \A s \in Streams :
        /\ stream_count[s] = accepted[s] - taken[s]
        /\ stream_count[s] \in 0 .. QueueSize

AllPendingQueued ==
    \A s \in Streams : \A n \in Pending(s) :
        \E i \in 1 .. Len(fifo) : fifo[i] = [stream |-> s, seq |-> n]

OnlyPendingQueued ==
    \A i \in 1 .. Len(fifo) : fifo[i].seq \in Pending(fifo[i].stream)

OldestFirst ==
    \A i, j \in 1 .. Len(fifo) :
        i < j /\ fifo[i].stream = fifo[j].stream => fifo[i].seq < fifo[j].seq

(* stream_count[] counts the queued items of the stream and never exceeds   *)
(* queue_size (tq_send() l. 178, receive_locked() l. 204); the queued items *)
(* of a stream are exactly those accepted and not yet taken, oldest first.  *)
StreamsKeepOrder ==
    CountsAgree /\ AllPendingQueued /\ OnlyPendingQueued /\ OldestFirst

(* "When *stream_idx is -1, all streams are done" (thread_queue.h): from    *)
(* then on the queue is empty and no stream can bring anything any more.    *)
DoneIsFinal ==
    result = "done" =>
        fifo = <<>> /\ \A s \in Streams : "RECV" \in finished[s]

(* While a stream is open on the receiving side, nothing taken off the      *)
(* fifos for it is dropped (receive_locked() l. 207).                       *)
NothingDropped ==
    \A s \in Streams : "RECV" \notin finished[s] => delivered[s] = taken[s]

(* Every item comes with an index (the assertion at thread_queue.c:201).    *)
IndexAvailable == Len(fifo_stream_index) >= Len(fifo)

(* "*stream_idx contains a non-negative stream index ... that was           *)
(* processed": the index handed out is the stream the item was sent on.     *)
ItemKeepsItsStream == attribution.item.stream = attribution.idx

(* Unless the queue stays choked, a sender that waits gets through.         *)
SendersGetThrough ==
    <>[]~choked => \A p \in Senders : sender[p] = "waiting" ~> sender[p] = "idle"

(* Unless the queue stays choked, the end of a stream finished by its       *)
(* sender reaches the receiver.                                             *)
EndsAreReported ==
    <>[]~choked =>
        \A s \in Streams : "SEND" \in finished[s] ~> "RECV" \in finished[s]

(* Each stream is a FIFO channel of QueueSize places: nothing is lost,      *)
(* duplicated or reordered, and its end comes after everything sent.        *)
Channels == INSTANCE StreamChannels WITH
    Capacity <- QueueSize,
    sent <- accepted,
    got <- delivered,
    closed <- {s \in Streams : "SEND" \in finished[s]},
    hungup <- {s \in Streams : "RECV" \in finished[s]},
    ended <- eof

ImplementsChannels == Channels!Spec
================================================================================
