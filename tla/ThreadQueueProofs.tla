--------------------------- MODULE ThreadQueueProofs ---------------------------
(***************************************************************************)
(* Proofs about ThreadQueue for every number of streams, queue size and     *)
(* set of senders.                                                          *)
(***************************************************************************)
EXTENDS ThreadQueue, TLAPS

LEMMA ConstantTypes ==
    /\ NbStreams \in Nat \ {0}
    /\ QueueSize \in Nat \ {0}
    /\ SizeMax \in Nat
    /\ QueueSize <= SizeMax
    /\ StreamOf \in [Senders -> Streams]
    /\ Streams \subseteq Nat
    /\ 0 \in Streams
<1>1. NbStreams * QueueSize <= SizeMax => QueueSize <= SizeMax
    BY ThreadQueueAssumption DEF ThreadQueueAssumption
<1> QED
    BY <1>1, ThreadQueueAssumption DEF ThreadQueueAssumption, Streams

LEMMA HeadAndTail ==
    ASSUME NEW S, NEW q \in Seq(S), q # <<>>
    PROVE  /\ Head(q) \in S
           /\ Head(q) = q[1]
           /\ Tail(q) \in Seq(S)
           /\ Len(q) \in Nat \ {0}
           /\ Len(Tail(q)) = Len(q) - 1
           /\ \A i \in 1 .. Len(Tail(q)) : Tail(q)[i] = q[i + 1]
OBVIOUS

LEMMA AppendFacts ==
    ASSUME NEW S, NEW q \in Seq(S), NEW e \in S
    PROVE  /\ Append(q, e) \in Seq(S)
           /\ Len(q) \in Nat
           /\ Len(Append(q, e)) = Len(q) + 1
           /\ Append(q, e)[Len(q) + 1] = e
           /\ \A i \in 1 .. Len(q) : Append(q, e)[i] = q[i]
OBVIOUS

LEMMA NextItemType ==
    ASSUME TypeOK, NEW s \in Streams
    PROVE  NextItem(s) \in Item /\ accepted[s] + 1 \in Nat
<1>1. accepted[s] \in Nat
    BY DEF TypeOK
<1> QED
    BY <1>1 DEF NextItem, Item

(***************************************************************************)
(* Type correctness, whatever the allocations do.                           *)
(***************************************************************************)

LEMMA TypeInit == Init => TypeOK
<1> SUFFICES ASSUME Init PROVE TypeOK
    OBVIOUS
<1>1. attribution \in [item : Item, idx : Streams]
    BY ConstantTypes DEF Init, Item, NoItem
<1>2. finished \in [Streams -> SUBSET {"SEND", "RECV"}]
    BY DEF Init
<1>3. stream_count \in [Streams -> 0 .. SizeMax]
    BY ConstantTypes DEF Init
<1>4. fifo \in Seq(Item) /\ fifo_stream_index \in Seq(Streams)
    BY DEF Init
<1>5. sender \in [Senders -> {"idle", "waiting", "woken"}]
    BY DEF Init
<1>6. accepted \in [Streams -> Nat] /\ taken \in [Streams -> Nat] /\ delivered \in [Streams -> Nat]
    BY DEF Init
<1>7. /\ choked \in BOOLEAN /\ nonblock \in BOOLEAN /\ eof \in SUBSET Streams
      /\ receiver \in {"idle", "locked", "waiting", "woken"}
      /\ result \in {"none", "item", "eof", "done", "again"}
    BY DEF Init
<1> QED
    BY <1>1, <1>2, <1>3, <1>4, <1>5, <1>6, <1>7 DEF TypeOK

LEMMA HeadsExist ==
    ASSUME TypeOK, IndexAvailable, fifo # <<>>
    PROVE  fifo_stream_index # <<>>
<1>1. fifo \in Seq(Item) /\ fifo_stream_index \in Seq(Streams)
    BY DEF TypeOK
<1>2. Len(fifo) \in Nat \ {0}
    BY <1>1, HeadAndTail
<1> QED
    BY <1>1, <1>2 DEF IndexAvailable

LEMMA TakeHeadTypes ==
    ASSUME TypeOK, IndexAvailable, TakeHead
    PROVE  /\ choked' \in BOOLEAN
           /\ finished' \in [Streams -> SUBSET {"SEND", "RECV"}]
           /\ Head(fifo) \in Item
           /\ Head(fifo_stream_index) \in Streams
           /\ fifo' \in Seq(Item)
           /\ fifo_stream_index' \in Seq(Streams)
           /\ stream_count' \in [Streams -> 0 .. SizeMax]
           /\ sender' \in [Senders -> {"idle", "waiting", "woken"}]
           /\ nonblock' \in BOOLEAN
           /\ accepted' \in [Streams -> Nat]
           /\ taken' \in [Streams -> Nat]
           /\ eof' \in SUBSET Streams
<1> DEFINE idx == Head(fifo_stream_index)
<1>1. fifo # <<>> /\ fifo_stream_index # <<>>
    BY HeadsExist DEF TakeHead
<1>2. /\ Head(fifo) \in Item /\ fifo' \in Seq(Item)
      /\ idx \in Streams /\ fifo_stream_index' \in Seq(Streams)
    BY <1>1, HeadAndTail DEF TakeHead, TypeOK
<1>3. stream_count' \in [Streams -> 0 .. SizeMax]
    <2>1. stream_count' = [stream_count EXCEPT ![idx] = Decrement(@)]
        BY DEF TakeHead
    <2>2. \A n \in 0 .. SizeMax : Decrement(n) \in 0 .. SizeMax
        BY ConstantTypes DEF Decrement
    <2> QED
        BY <1>2, <2>1, <2>2 DEF TypeOK
<1>4. sender' \in [Senders -> {"idle", "waiting", "woken"}]
    BY DEF TakeHead, BroadcastWrite, TypeOK
<1>5. taken' \in [Streams -> Nat]
    <2>1. taken' = [taken EXCEPT ![idx] = @ + 1] /\ taken \in [Streams -> Nat]
        BY DEF TakeHead, TypeOK
    <2> QED
        BY <1>2, <2>1
<1> QED
    BY <1>2, <1>3, <1>4, <1>5 DEF TakeHead, TypeOK

LEMMA TypeStep == TypeOK /\ IndexAvailable /\ [Next]_vars => TypeOK'
<1> SUFFICES ASSUME TypeOK, IndexAvailable, [Next]_vars PROVE TypeOK'
    OBVIOUS
<1> USE ConstantTypes DEF TypeOK
<1>1. CASE UNCHANGED vars
    BY <1>1 DEF vars
<1>2. ASSUME NEW p \in Senders, SendWait(p) PROVE TypeOK'
    BY <1>2 DEF SendWait, InSend, queueVars, historyVars
<1>3. ASSUME NEW p \in Senders, SendEof(p) PROVE TypeOK'
    <2>1. finished' \in [Streams -> SUBSET {"SEND", "RECV"}]
        BY <1>3 DEF SendEof
    <2>2. sender' \in [Senders -> {"idle", "waiting", "woken"}]
        BY <1>3 DEF SendEof
    <2> QED
        BY <1>3, <2>1, <2>2 DEF SendEof, historyVars
<1>4. ASSUME NEW p \in Senders, SendWrite(p) PROVE TypeOK'
    <2> DEFINE s == StreamOf[p]
    <2>1. s \in Streams
        BY ConstantTypes
    <2>2. fifo' \in Seq(Item) /\ fifo_stream_index' \in Seq(Streams)
        <3>1. /\ Append(fifo, NextItem(s)) \in Seq(Item)
              /\ Append(fifo_stream_index, s) \in Seq(Streams)
            BY <2>1, NextItemType, AppendFacts
        <3> QED
            BY <1>4, <3>1 DEF SendWrite, Store, StoreIndexOnly, StoreNothing
    <2>3. stream_count' \in [Streams -> 0 .. SizeMax]
        <3>1. stream_count[s] \in 0 .. SizeMax /\ stream_count[s] < QueueSize
            BY <1>4, <2>1 DEF SendWrite, can_write
        <3>2. stream_count[s] + 1 \in 0 .. SizeMax
            BY <3>1
        <3>3. CASE Store(s)
            BY <2>1, <3>2, <3>3 DEF Store
        <3>4. CASE StoreIndexOnly(s) \/ StoreNothing
            BY <3>4 DEF StoreIndexOnly, StoreNothing
        <3>5. Store(s) \/ StoreIndexOnly(s) \/ StoreNothing
            BY <1>4 DEF SendWrite
        <3> QED
            BY <3>3, <3>4, <3>5
    <2>4. accepted' \in [Streams -> Nat]
        <3>1. accepted \in [Streams -> Nat] /\ accepted[s] + 1 \in Nat
            BY <2>1, NextItemType
        <3>2. CASE Store(s)
            BY <2>1, <3>1, <3>2 DEF Store
        <3>3. CASE StoreIndexOnly(s) \/ StoreNothing
            BY <3>3 DEF StoreIndexOnly, StoreNothing
        <3>4. Store(s) \/ StoreIndexOnly(s) \/ StoreNothing
            BY <1>4 DEF SendWrite
        <3> QED
            BY <3>2, <3>3, <3>4
    <2>5. /\ sender' \in [Senders -> {"idle", "waiting", "woken"}]
          /\ receiver' \in {"idle", "locked", "waiting", "woken"}
        BY <1>4
        DEF SendWrite, Store, StoreIndexOnly, StoreNothing, BroadcastRead
    <2> QED
        BY <1>4, <2>2, <2>3, <2>4, <2>5 DEF SendWrite
<1>5. ASSUME NEW s \in Streams, tq_send_finish(s) PROVE TypeOK'
    BY <1>5 DEF tq_send_finish, BroadcastRead, historyVars
<1>6. ASSUME NEW s \in Streams, tq_receive_finish(s) PROVE TypeOK'
    BY <1>6 DEF tq_receive_finish, BroadcastWrite, historyVars
<1>7. CASE ReceiveCall
    BY <1>7 DEF ReceiveCall, queueVars, historyVars
<1>8. CASE ReceiveResume
    BY <1>8 DEF ReceiveResume, queueVars, historyVars
<1>9. CASE ReceiveDiscard
    BY <1>9, TakeHeadTypes DEF ReceiveDiscard
<1>10. CASE ReceiveItem
    <2>1. delivered' \in [Streams -> Nat]
        BY <1>10, TakeHeadTypes DEF ReceiveItem, Item
    <2>2. attribution' \in [item : Item, idx : Streams]
        BY <1>10, TakeHeadTypes DEF ReceiveItem
    <2> QED
        BY <1>10, TakeHeadTypes, <2>1, <2>2 DEF ReceiveItem
<1>11. CASE ReceiveEof
    <2>1. finished' \in [Streams -> SUBSET {"SEND", "RECV"}]
        BY <1>11 DEF ReceiveEof, EofPending
    <2>2. eof' \in SUBSET Streams
        BY <1>11 DEF ReceiveEof, EofPending
    <2> QED
        BY <1>11, <2>1, <2>2 DEF ReceiveEof
<1>12. CASE ReceiveDone
    BY <1>12 DEF ReceiveDone, queueVars
<1>13. CASE ReceiveWait
    BY <1>13 DEF ReceiveWait, queueVars
<1>14. ASSUME NEW c \in BOOLEAN, tq_choke(c) PROVE TypeOK'
    BY <1>14 DEF tq_choke, BroadcastRead, historyVars
<1>15. CASE SpuriousWakeup
    BY <1>15 DEF SpuriousWakeup, queueVars, historyVars
<1>16. ASSUME NEW p \in Senders, SendRefused(p) PROVE TypeOK'
    BY <1>16 DEF SendRefused, vars
<1> QED
    BY <1>1, <1>2, <1>3, <1>4, <1>5, <1>6, <1>7, <1>8, <1>9, <1>10, <1>11,
       <1>12, <1>13, <1>14, <1>15, <1>16 DEF Next, tq_send, tq_receive

LEMMA IndexAvailableStep ==
    ASSUME TypeOK, IndexAvailable, [Next]_vars
    PROVE  IndexAvailable'
<1> USE DEF TypeOK, IndexAvailable
<1>1. CASE UNCHANGED <<fifo, fifo_stream_index>>
    BY <1>1
<1>2. ASSUME NEW p \in Senders, SendWrite(p) PROVE IndexAvailable'
    <2>1. StreamOf[p] \in Streams /\ NextItem(StreamOf[p]) \in Item
        BY ConstantTypes, NextItemType
    <2>2. /\ Len(Append(fifo, NextItem(StreamOf[p]))) = Len(fifo) + 1
          /\ Len(Append(fifo_stream_index, StreamOf[p])) = Len(fifo_stream_index) + 1
          /\ Len(fifo) \in Nat /\ Len(fifo_stream_index) \in Nat
        BY <2>1, AppendFacts
    <2> QED
        <3>1. CASE Store(StreamOf[p])
            BY <2>2, <3>1 DEF Store
        <3>2. CASE StoreIndexOnly(StreamOf[p])
            BY <2>2, <3>2 DEF StoreIndexOnly
        <3>3. CASE StoreNothing
            BY <3>3 DEF StoreNothing
        <3> QED
            BY <1>2, <3>1, <3>2, <3>3 DEF SendWrite
<1>3. CASE TakeHead
    <2>1. fifo # <<>> /\ fifo_stream_index # <<>>
        BY <1>3, HeadsExist DEF TakeHead
    <2> QED
        BY <1>3, <2>1, HeadAndTail DEF TakeHead
<1> QED
    BY <1>1, <1>2, <1>3
    DEF Next, vars, tq_send, tq_receive, SendRefused, SendWait, SendEof,
        tq_send_finish, tq_receive_finish, ReceiveCall, ReceiveResume,
        ReceiveDiscard, ReceiveItem, ReceiveEof, ReceiveDone, ReceiveWait,
        tq_choke, SpuriousWakeup, queueVars

(* The variables keep their types and every queued item has an index, with  *)
(* or without allocation failures: the assertion in receive_locked() never  *)
(* fires.                                                                   *)
THEOREM TypeCorrect == Spec => [](TypeOK /\ IndexAvailable)
<1>1. Init => TypeOK /\ IndexAvailable
    BY TypeInit DEF Init, IndexAvailable
<1>2. TypeOK /\ IndexAvailable /\ [Next]_vars => (TypeOK /\ IndexAvailable)'
    BY TypeStep, IndexAvailableStep
<1> QED
    BY <1>1, <1>2, PTL DEF Spec

(* Every queued item has an index, with or without allocation failures.     *)
THEOREM ItemsHaveIndices == Spec => []IndexAvailable
BY TypeCorrect, PTL

--------------------------------------------------------------------------------
(***************************************************************************)
(* "Done" is final, with or without allocation failures: every stream is    *)
(* closed on the receiving side, so that nothing is written any more.       *)
(***************************************************************************)

LEMMA DoneStep ==
    ASSUME TypeOK, DoneIsFinal, [Next]_vars
    PROVE  DoneIsFinal'
<1>1. ASSUME NEW p \in Senders, tq_send(p) PROVE DoneIsFinal'
    <2> SUFFICES ASSUME result' = "done"
                 PROVE  fifo' = <<>> /\ \A s \in Streams : "RECV" \in finished'[s]
        BY DEF DoneIsFinal
    <2>1. StreamOf[p] \in Streams
        BY ConstantTypes
    <2>2. result = "done"
        BY <1>1 DEF tq_send, SendRefused, SendWait, SendEof, SendWrite, vars, queueVars,
                    historyVars
    <2>3. fifo = <<>> /\ \A s \in Streams : "RECV" \in finished[s]
        BY <2>2 DEF DoneIsFinal
    <2>4. ~SendWrite(p)
        BY <2>1, <2>3 DEF SendWrite
    <2>5. CASE SendEof(p)
        BY <2>1, <2>3, <2>5 DEF SendEof, TypeOK
    <2>6. CASE SendRefused(p) \/ SendWait(p)
        BY <2>3, <2>6 DEF SendRefused, SendWait, vars, queueVars
    <2> QED
        BY <1>1, <2>4, <2>5, <2>6 DEF tq_send
<1>2. ASSUME NEW s \in Streams, tq_send_finish(s) \/ tq_receive_finish(s) PROVE DoneIsFinal'
    <2>1. fifo' = fifo /\ result' = result
        BY <1>2 DEF tq_send_finish, tq_receive_finish, historyVars
    <2>2. \A t \in Streams : finished[t] \subseteq finished'[t]
        <3>1. finished \in [Streams -> SUBSET {"SEND", "RECV"}]
            BY DEF TypeOK
        <3>2. PICK x \in {"SEND", "RECV"} : finished' = [finished EXCEPT ![s] = @ \cup {x}]
            BY <1>2 DEF tq_send_finish, tq_receive_finish
        <3> QED
            BY <3>1, <3>2
    <2> QED
        BY <2>1, <2>2 DEF DoneIsFinal
<1>3. CASE ReceiveDiscard \/ ReceiveItem
    BY <1>3 DEF ReceiveDiscard, ReceiveItem, TakeHead, DoneIsFinal
<1>4. CASE ReceiveEof
    BY <1>4 DEF ReceiveEof, DoneIsFinal
<1>5. CASE ReceiveDone
    BY <1>5 DEF ReceiveDone, queueVars, AllFinished, EofPending, DoneIsFinal
<1>6. CASE ReceiveCall \/ ReceiveResume \/ ReceiveWait
    BY <1>6 DEF ReceiveCall, ReceiveResume, ReceiveWait, queueVars, historyVars, DoneIsFinal
<1>7. ASSUME NEW c \in BOOLEAN, tq_choke(c) PROVE DoneIsFinal'
    BY <1>7 DEF tq_choke, historyVars, DoneIsFinal
<1>8. CASE SpuriousWakeup \/ UNCHANGED vars
    BY <1>8 DEF SpuriousWakeup, vars, queueVars, historyVars, DoneIsFinal
<1> QED
    BY <1>1, <1>2, <1>3, <1>4, <1>5, <1>6, <1>7, <1>8 DEF Next, tq_receive

(* Once tq_receive() has said that all streams are done the queue is empty  *)
(* and stays so, whatever senders still try.                                *)
THEOREM DoneStaysDone == Spec => []DoneIsFinal
<1>1. Init => DoneIsFinal
    BY DEF Init, DoneIsFinal
<1>2. TypeOK /\ DoneIsFinal /\ [Next]_vars => DoneIsFinal'
    BY DoneStep
<1> QED
    BY <1>1, <1>2, TypeCorrect, PTL DEF Spec

--------------------------------------------------------------------------------
(***************************************************************************)
(* The receiver is never forgotten, with or without allocation failures:    *)
(* every step that gives tq_receive() something to return wakes it.         *)
(***************************************************************************)

LEMMA ReceiverStep ==
    ASSUME TypeOK, ReceiverNotForgotten, [Next]_vars
    PROVE  ReceiverNotForgotten'
<1> USE DEF ReceiverNotForgotten
<1>1. ASSUME NEW p \in Senders, SendEof(p) PROVE ReceiverNotForgotten'
    <2>1. StreamOf[p] \in Streams
        BY ConstantTypes
    <2>2. \A s \in Streams : /\ finished'[s] = {} <=> finished[s] = {}
                             /\ "RECV" \in finished'[s] <=> "RECV" \in finished[s]
        BY <1>1, <2>1 DEF SendEof, TypeOK
    <2>3. EofPending' = EofPending /\ AllFinished' = AllFinished
        BY <2>2 DEF EofPending, AllFinished
    <2> QED
        BY <1>1, <2>3 DEF SendEof, NothingToReceive
<1>2. ASSUME NEW p \in Senders, SendWrite(p) PROVE ReceiverNotForgotten'
    <2>1. Store(StreamOf[p]) \/ StoreIndexOnly(StreamOf[p]) \/ StoreNothing
        BY <1>2 DEF SendWrite
    <2>2. CASE Store(StreamOf[p])
        BY <2>2 DEF Store, BroadcastRead
    <2>3. CASE StoreIndexOnly(StreamOf[p]) \/ StoreNothing
        BY <1>2, <2>3 DEF SendWrite, StoreIndexOnly, StoreNothing,
                          NothingToReceive, EofPending, AllFinished
    <2> QED
        BY <2>1, <2>2, <2>3
<1>3. ASSUME NEW s \in Streams, tq_send_finish(s) PROVE ReceiverNotForgotten'
    BY <1>3 DEF tq_send_finish, BroadcastRead
<1>4. ASSUME NEW s \in Streams, tq_receive_finish(s) PROVE ReceiverNotForgotten'
    BY <1>4 DEF tq_receive_finish
<1>5. CASE ReceiveCall \/ ReceiveResume \/ ReceiveDiscard \/ ReceiveItem
           \/ ReceiveEof \/ ReceiveDone
    BY <1>5 DEF ReceiveCall, ReceiveResume, ReceiveDiscard, TakeHead,
                ReceiveItem, ReceiveEof, ReceiveDone
<1>6. CASE ReceiveWait
    BY <1>6 DEF ReceiveWait, queueVars, NothingToReceive, EofPending, AllFinished
<1>7. ASSUME NEW c \in BOOLEAN, tq_choke(c) PROVE ReceiverNotForgotten'
    BY <1>7 DEF tq_choke, BroadcastRead, NothingToReceive, EofPending, AllFinished
<1>8. CASE SpuriousWakeup
    BY <1>8 DEF SpuriousWakeup, queueVars, NothingToReceive, EofPending, AllFinished
<1>9. CASE UNCHANGED vars
    BY <1>9 DEF vars, NothingToReceive, EofPending, AllFinished
<1>10. ASSUME NEW p \in Senders, SendRefused(p) \/ SendWait(p)
       PROVE  ReceiverNotForgotten'
    BY <1>10 DEF SendRefused, SendWait, vars, queueVars,
                 NothingToReceive, EofPending, AllFinished
<1> QED
    BY <1>1, <1>2, <1>3, <1>4, <1>5, <1>6, <1>7, <1>8, <1>9, <1>10
    DEF Next, tq_send, tq_receive

(* A receiver is parked on cond_read only while it has nothing to return.   *)
THEOREM ReceiverNeverForgotten == Spec => []ReceiverNotForgotten
<1>1. Init => ReceiverNotForgotten
    BY DEF Init, ReceiverNotForgotten
<1>2. TypeOK /\ ReceiverNotForgotten /\ [Next]_vars => ReceiverNotForgotten'
    BY ReceiverStep
<1> QED
    BY <1>1, <1>2, TypeCorrect, PTL DEF Spec

--------------------------------------------------------------------------------
(***************************************************************************)
(* Without allocation failures the two fifos stay in step, and the queue is *)
(* one FIFO channel per stream.  The parts of QueueInv depend on each       *)
(* other: the item at the head carries the next number of its stream only   *)
(* because nothing is missing and the order holds, the count does not wrap  *)
(* only because the head is pending, and no sender waits on an empty queue  *)
(* only because the counts agree.                                           *)
(***************************************************************************)

NoAllocFailure == FALSE \notin AllocOutcomes

QueueInv ==
    /\ TypeOK
    /\ StreamsStayPaired
    /\ StreamsKeepOrder
    /\ NothingDropped

LEMMA ItemTypes ==
    ASSUME NEW q \in Seq(Item)
    PROVE  \A i \in 1 .. Len(q) : q[i].stream \in Streams /\ q[i].seq \in Nat
<1>1. \A i \in 1 .. Len(q) : q[i] \in Item
    OBVIOUS
<1> QED
    BY <1>1 DEF Item

LEMMA HeadIsNext ==
    ASSUME TypeOK, StreamsStayPaired, StreamsKeepOrder, fifo # <<>>
    PROVE  LET s == Head(fifo).stream IN
           /\ s \in Streams
           /\ Head(fifo) = fifo[1]
           /\ Head(fifo_stream_index) = s
           /\ Head(fifo).seq = taken[s] + 1
           /\ taken[s] \in Nat /\ accepted[s] \in Nat
           /\ taken[s] < accepted[s]
           /\ stream_count[s] \in 1 .. QueueSize
<1> DEFINE s == Head(fifo).stream
<1>1. /\ fifo \in Seq(Item) /\ fifo_stream_index \in Seq(Streams)
      /\ Len(fifo) \in Nat \ {0} /\ Head(fifo) = fifo[1] /\ fifo[1] \in Item
    BY HeadAndTail DEF TypeOK
<1>2. s \in Streams /\ fifo[1].seq \in Nat
    BY <1>1 DEF Item
<1>3. Head(fifo_stream_index) = s
    <2>1. Len(fifo_stream_index) = Len(fifo) /\ fifo_stream_index[1] = fifo[1].stream
        BY <1>1 DEF StreamsStayPaired
    <2>2. fifo_stream_index # <<>>
        BY <1>1, <2>1
    <2> QED
        BY <1>1, <2>1, <2>2, HeadAndTail
<1>4. taken[s] \in Nat /\ accepted[s] \in Nat
    BY <1>2 DEF TypeOK
<1>5. fifo[1].seq \in taken[s] + 1 .. accepted[s]
    BY <1>1 DEF StreamsKeepOrder, OnlyPendingQueued, Pending
<1>6. taken[s] < accepted[s] /\ taken[s] + 1 \in taken[s] + 1 .. accepted[s]
    BY <1>2, <1>4, <1>5
<1>7. PICK i \in 1 .. Len(fifo) : fifo[i] = [stream |-> s, seq |-> taken[s] + 1]
    BY <1>2, <1>6 DEF StreamsKeepOrder, AllPendingQueued, Pending
<1>8. fifo[1].seq = taken[s] + 1
    <2>1. CASE i = 1
        BY <1>7, <2>1
    <2>2. CASE i # 1
        <3>1. 1 < i /\ fifo[1].stream = fifo[i].stream
            BY <1>1, <1>7, <2>2
        <3>2. fifo[1].seq < fifo[i].seq
            BY <1>1, <3>1 DEF StreamsKeepOrder, OldestFirst
        <3> QED
            BY <1>2, <1>4, <1>5, <1>7, <3>2
    <2> QED
        BY <2>1, <2>2
<1>9. stream_count[s] \in 1 .. QueueSize
    <2>1. stream_count[s] = accepted[s] - taken[s] /\ stream_count[s] \in 0 .. QueueSize
        BY <1>2 DEF StreamsKeepOrder, CountsAgree
    <2> QED
        BY <1>4, <1>6, <2>1, ConstantTypes
<1> QED
    BY <1>1, <1>2, <1>3, <1>4, <1>6, <1>8, <1>9

LEMMA EmptyFifo ==
    ASSUME TypeOK, StreamsKeepOrder, fifo = <<>>, NEW s \in Streams
    PROVE  taken[s] = accepted[s] /\ stream_count[s] = 0
<1>1. /\ taken[s] \in Nat /\ accepted[s] \in Nat
      /\ stream_count[s] = accepted[s] - taken[s] /\ stream_count[s] \in 0 .. QueueSize
    BY DEF TypeOK, StreamsKeepOrder, CountsAgree
<1>2. 1 .. Len(fifo) = {}
    OBVIOUS
<1>3. taken[s] + 1 .. accepted[s] = {}
    BY <1>2 DEF StreamsKeepOrder, AllPendingQueued, Pending
<1> QED
    BY <1>1, <1>3, ConstantTypes

\* What taking the item at the head does to the pending items.
LEMMA TakeHeadKeepsOrder ==
    ASSUME TypeOK, StreamsStayPaired, StreamsKeepOrder, TakeHead
    PROVE  StreamsStayPaired' /\ StreamsKeepOrder'
<1> DEFINE h == Head(fifo).stream
<1>1. /\ fifo # <<>> /\ fifo' = Tail(fifo)
      /\ fifo_stream_index' = Tail(fifo_stream_index)
      /\ stream_count' = [stream_count EXCEPT ![h] = Decrement(@)]
      /\ taken' = [taken EXCEPT ![h] = @ + 1]
      /\ accepted' = accepted
    BY HeadIsNext DEF TakeHead
<1>2. /\ h \in Streams /\ Head(fifo) = fifo[1] /\ fifo[1].seq = taken[h] + 1
      /\ stream_count[h] \in 1 .. QueueSize
    BY <1>1, HeadIsNext
<1>3. /\ fifo \in Seq(Item) /\ fifo_stream_index \in Seq(Streams)
      /\ taken \in [Streams -> Nat] /\ accepted \in [Streams -> Nat]
      /\ stream_count \in [Streams -> 0 .. SizeMax]
    BY DEF TypeOK
<1>4. /\ Len(fifo) \in Nat \ {0} /\ Len(fifo') = Len(fifo) - 1
      /\ \A i \in 1 .. Len(fifo') : fifo'[i] = fifo[i + 1] /\ i + 1 \in 1 .. Len(fifo)
    <2>1. Len(fifo) \in Nat \ {0} /\ Len(fifo') = Len(fifo) - 1
        BY <1>1, <1>3, HeadAndTail
    <2>2. \A i \in 1 .. Len(fifo') : fifo'[i] = fifo[i + 1]
        BY <1>1, <1>3, HeadAndTail
    <2> QED
        BY <2>1, <2>2
<1>5. \A i \in 1 .. Len(fifo) : fifo[i].stream \in Streams /\ fifo[i].seq \in Nat
    BY <1>3, ItemTypes
<1>6. StreamsStayPaired'
    <2>1. Len(fifo_stream_index) = Len(fifo) /\ fifo_stream_index # <<>>
        BY <1>3, <1>4 DEF StreamsStayPaired
    <2>2. /\ Len(fifo_stream_index') = Len(fifo_stream_index) - 1
          /\ \A i \in 1 .. Len(fifo_stream_index') :
                fifo_stream_index'[i] = fifo_stream_index[i + 1]
        BY <1>1, <1>3, <2>1, HeadAndTail
    <2> QED
        BY <1>4, <2>1, <2>2 DEF StreamsStayPaired
<1>7. CountsAgree'
    <2> SUFFICES ASSUME NEW s \in Streams
                 PROVE  /\ stream_count'[s] = accepted'[s] - taken'[s]
                        /\ stream_count'[s] \in 0 .. QueueSize
        BY DEF CountsAgree
    <2>1. /\ stream_count[s] = accepted[s] - taken[s]
          /\ stream_count[s] \in 0 .. QueueSize
        BY DEF StreamsKeepOrder, CountsAgree
    <2>2. CASE s = h
        <3>1. stream_count'[s] = stream_count[s] - 1 /\ taken'[s] = taken[s] + 1
            BY <1>1, <1>2, <1>3, <2>2 DEF Decrement
        <3>2. taken[s] \in Nat /\ accepted'[s] = accepted[s] /\ accepted[s] \in Nat
            BY <1>1, <1>3
        <3> QED
            BY <1>2, <2>1, <2>2, <3>1, <3>2, ConstantTypes
    <2>3. CASE s # h
        BY <1>1, <1>2, <1>3, <2>1, <2>3
    <2> QED
        BY <2>2, <2>3
<1>8. AllPendingQueued'
    <2> SUFFICES ASSUME NEW s \in Streams, NEW n \in Pending(s)'
                 PROVE  \E i \in 1 .. Len(fifo') :
                            fifo'[i] = [stream |-> s, seq |-> n]
        BY DEF AllPendingQueued
    <2>1. taken[s] \in Nat /\ accepted[s] \in Nat /\ taken'[s] \in Nat
          /\ taken[s] <= taken'[s] /\ (s = h => taken'[s] = taken[s] + 1)
        BY <1>1, <1>2, <1>3
    <2>2. n \in Nat /\ n \in Pending(s) /\ taken'[s] < n
        BY <1>1, <2>1 DEF Pending
    <2>3. PICK i \in 1 .. Len(fifo) : fifo[i] = [stream |-> s, seq |-> n]
        BY <2>2 DEF StreamsKeepOrder, AllPendingQueued
    <2>4. i # 1
        BY <1>2, <2>1, <2>2, <2>3
    <2>5. i - 1 \in 1 .. Len(fifo') /\ (i - 1) + 1 = i
        BY <1>4, <2>4
    <2>6. fifo'[i - 1] = fifo[i]
        BY <1>4, <2>5
    <2> QED
        BY <2>3, <2>5, <2>6
<1>9. OnlyPendingQueued'
    <2> SUFFICES ASSUME NEW i \in 1 .. Len(fifo')
                 PROVE  fifo'[i].seq \in taken'[fifo'[i].stream] + 1
                                         .. accepted'[fifo'[i].stream]
        BY DEF OnlyPendingQueued, Pending
    <2>1. i + 1 \in 1 .. Len(fifo) /\ fifo'[i] = fifo[i + 1] /\ 1 < i + 1
          /\ 1 \in 1 .. Len(fifo)
        BY <1>4
    <2> DEFINE s == fifo[i + 1].stream
               n == fifo[i + 1].seq
    <2>2. s \in Streams /\ n \in Nat /\ n \in Pending(s)
        BY <1>5, <2>1 DEF StreamsKeepOrder, OnlyPendingQueued
    <2>3. s = h => fifo[1].seq < n
        BY <1>2, <2>1 DEF StreamsKeepOrder, OldestFirst
    <2>4. /\ taken[s] \in Nat /\ accepted[s] \in Nat /\ accepted'[s] = accepted[s]
          /\ taken'[s] = IF s = h THEN taken[s] + 1 ELSE taken[s]
        BY <1>1, <1>2, <1>3, <2>2
    <2>5. n \in taken'[s] + 1 .. accepted'[s]
        BY <1>2, <2>2, <2>3, <2>4 DEF Pending
    <2> QED
        BY <2>1, <2>5
<1>10. OldestFirst'
    <2> SUFFICES ASSUME NEW i \in 1 .. Len(fifo'), NEW j \in 1 .. Len(fifo'),
                        i < j, fifo'[i].stream = fifo'[j].stream
                 PROVE  fifo'[i].seq < fifo'[j].seq
        BY DEF OldestFirst
    <2>1. /\ i + 1 \in 1 .. Len(fifo) /\ fifo'[i] = fifo[i + 1]
          /\ j + 1 \in 1 .. Len(fifo) /\ fifo'[j] = fifo[j + 1]
          /\ i + 1 < j + 1
        BY <1>4
    <2> QED
        BY <2>1 DEF StreamsKeepOrder, OldestFirst
<1> QED
    BY <1>6, <1>7, <1>8, <1>9, <1>10 DEF StreamsKeepOrder

\* The new item is the youngest pending one of its stream.
LEMMA StoreKeepsOrder ==
    ASSUME TypeOK, StreamsStayPaired, StreamsKeepOrder,
           NEW s \in Streams, can_write(s), Store(s), taken' = taken
    PROVE  StreamsStayPaired' /\ StreamsKeepOrder'
<1> DEFINE last == Len(fifo) + 1
<1>1. /\ fifo \in Seq(Item) /\ fifo_stream_index \in Seq(Streams)
      /\ taken \in [Streams -> Nat] /\ accepted \in [Streams -> Nat]
      /\ stream_count \in [Streams -> 0 .. SizeMax]
      /\ NextItem(s) \in Item
    BY NextItemType DEF TypeOK
<1>2. /\ fifo' = Append(fifo, NextItem(s))
      /\ fifo_stream_index' = Append(fifo_stream_index, s)
      /\ stream_count' = [stream_count EXCEPT ![s] = @ + 1]
      /\ accepted' = [accepted EXCEPT ![s] = @ + 1]
    BY DEF Store
<1>3. /\ Len(fifo) \in Nat /\ Len(fifo') = last
      /\ fifo'[last] = [stream |-> s, seq |-> accepted[s] + 1]
      /\ \A i \in 1 .. Len(fifo) : fifo'[i] = fifo[i]
    BY <1>1, <1>2, AppendFacts DEF NextItem
<1>4. \A i \in 1 .. Len(fifo') : i = last \/ (i \in 1 .. Len(fifo) /\ i < last)
    BY <1>3
<1>5. \A i \in 1 .. Len(fifo) : fifo[i].stream \in Streams /\ fifo[i].seq \in Nat
    BY <1>1, ItemTypes
<1>6. \A t \in Streams : /\ taken[t] \in Nat /\ accepted[t] \in Nat
                         /\ accepted'[t] = IF t = s THEN accepted[t] + 1 ELSE accepted[t]
    BY <1>1, <1>2
<1>7. CountsAgree'
    <2> SUFFICES ASSUME NEW t \in Streams
                 PROVE  /\ stream_count'[t] = accepted'[t] - taken'[t]
                        /\ stream_count'[t] \in 0 .. QueueSize
        BY DEF CountsAgree
    <2>1. /\ stream_count[t] = accepted[t] - taken[t]
          /\ stream_count[t] \in 0 .. QueueSize
        BY DEF StreamsKeepOrder, CountsAgree
    <2>2. stream_count'[t] = IF t = s THEN stream_count[t] + 1 ELSE stream_count[t]
        BY <1>1, <1>2
    <2>3. t = s => stream_count[t] < QueueSize
        BY DEF can_write
    <2> QED
        BY <1>6, <2>1, <2>2, <2>3, ConstantTypes
<1>8. StreamsStayPaired'
    <2>1. /\ Len(fifo_stream_index') = Len(fifo_stream_index) + 1
          /\ Len(fifo_stream_index) = Len(fifo)
          /\ fifo_stream_index'[last] = s
          /\ \A i \in 1 .. Len(fifo) : fifo_stream_index'[i] = fifo_stream_index[i]
        BY <1>1, <1>2, AppendFacts DEF StreamsStayPaired
    <2> QED
        BY <1>3, <1>4, <2>1 DEF StreamsStayPaired
<1>9. AllPendingQueued'
    <2> SUFFICES ASSUME NEW t \in Streams, NEW n \in Pending(t)'
                 PROVE  \E i \in 1 .. Len(fifo') :
                            fifo'[i] = [stream |-> t, seq |-> n]
        BY DEF AllPendingQueued
    <2>1. n \in Pending(t) \/ (t = s /\ n = accepted[s] + 1)
        BY <1>6 DEF Pending
    <2>2. CASE n \in Pending(t)
        <3>1. PICK i \in 1 .. Len(fifo) : fifo[i] = [stream |-> t, seq |-> n]
            BY <2>2 DEF StreamsKeepOrder, AllPendingQueued
        <3> QED
            BY <1>3, <3>1
    <2>3. CASE t = s /\ n = accepted[s] + 1
        <3>1. last \in 1 .. Len(fifo')
            BY <1>3
        <3> QED
            BY <1>3, <2>3, <3>1
    <2> QED
        BY <2>1, <2>2, <2>3
<1>10. OnlyPendingQueued'
    <2> SUFFICES ASSUME NEW i \in 1 .. Len(fifo')
                 PROVE  fifo'[i].seq \in taken'[fifo'[i].stream] + 1
                                         .. accepted'[fifo'[i].stream]
        BY DEF OnlyPendingQueued, Pending
    <2>1. CASE i = last
        <3>1. taken[s] <= accepted[s]
            BY <1>6, ConstantTypes DEF StreamsKeepOrder, CountsAgree
        <3>2. accepted[s] + 1 \in taken'[s] + 1 .. accepted'[s]
            BY <1>6, <3>1
        <3> QED
            BY <1>3, <2>1, <3>2
    <2>2. CASE i \in 1 .. Len(fifo)
        <3>1. fifo[i].seq \in Pending(fifo[i].stream) /\ fifo'[i] = fifo[i]
            BY <1>3, <2>2 DEF StreamsKeepOrder, OnlyPendingQueued
        <3>2. fifo[i].stream \in Streams /\ fifo[i].seq \in Nat
            BY <1>5, <2>2
        <3>3. /\ taken'[fifo[i].stream] = taken[fifo[i].stream]
              /\ accepted[fifo[i].stream] <= accepted'[fifo[i].stream]
              /\ taken[fifo[i].stream] \in Nat /\ accepted[fifo[i].stream] \in Nat
              /\ accepted'[fifo[i].stream] \in Nat
            BY <1>6, <3>2
        <3> QED
            BY <3>1, <3>2, <3>3 DEF Pending
    <2> QED
        BY <1>4, <2>1, <2>2
<1>11. OldestFirst'
    <2> SUFFICES ASSUME NEW i \in 1 .. Len(fifo'), NEW j \in 1 .. Len(fifo'),
                        i < j, fifo'[i].stream = fifo'[j].stream
                 PROVE  fifo'[i].seq < fifo'[j].seq
        BY DEF OldestFirst
    <2>1. i \in 1 .. Len(fifo) /\ fifo'[i] = fifo[i]
        BY <1>3
    <2>2. CASE j = last
        <3>1. fifo[i].seq \in Pending(fifo[i].stream) /\ fifo[i].stream = s
            BY <1>3, <2>1, <2>2 DEF StreamsKeepOrder, OnlyPendingQueued
        <3> QED
            BY <1>3, <1>5, <1>6, <2>1, <2>2, <3>1 DEF Pending
    <2>3. CASE j \in 1 .. Len(fifo)
        BY <1>3, <2>1, <2>3 DEF StreamsKeepOrder, OldestFirst
    <2> QED
        BY <1>4, <2>2, <2>3
<1> QED
    BY <1>7, <1>8, <1>9, <1>10, <1>11 DEF StreamsKeepOrder

\* Steps that neither store nor take an item.
QueueUntouched ==
    UNCHANGED <<fifo, fifo_stream_index, stream_count, accepted, taken, delivered>>

LEMMA StepKinds ==
    ASSUME NoAllocFailure, [Next]_vars
    PROVE  \/ QueueUntouched
           \/ \E p \in Senders : SendWrite(p) /\ Store(StreamOf[p])
           \/ ReceiveDiscard
           \/ ReceiveItem
<1>1. ASSUME NEW p \in Senders, SendWrite(p)
      PROVE  QueueUntouched \/ Store(StreamOf[p])
    BY <1>1 DEF SendWrite, StoreIndexOnly, StoreNothing, NoAllocFailure, QueueUntouched
<1> QED
    BY <1>1
    DEF Next, vars, tq_send, tq_receive, SendRefused, SendWait, SendEof,
        tq_send_finish, tq_receive_finish, ReceiveCall, ReceiveResume,
        ReceiveEof, ReceiveDone, ReceiveWait, tq_choke, SpuriousWakeup,
        queueVars, historyVars, QueueUntouched

LEMMA FinishedOnlyGrows ==
    ASSUME TypeOK, [Next]_vars, NEW s \in Streams
    PROVE  finished[s] \subseteq finished'[s]
<1>1. finished \in [Streams -> SUBSET {"SEND", "RECV"}]
    BY DEF TypeOK
<1> QED
    BY <1>1
    DEF Next, vars, tq_send, tq_receive, SendRefused, SendWait, SendEof, SendWrite,
        tq_send_finish, tq_receive_finish, ReceiveCall, ReceiveResume,
        ReceiveDiscard, ReceiveItem, TakeHead,
        ReceiveEof, ReceiveDone, ReceiveWait, tq_choke, SpuriousWakeup,
        queueVars, historyVars

LEMMA QueueInvStep ==
    ASSUME NoAllocFailure, QueueInv, [Next]_vars
    PROVE  QueueInv'
<1> USE DEF QueueInv
<1>1. IndexAvailable
    BY DEF StreamsStayPaired, IndexAvailable, TypeOK
<1>2. TypeOK'
    BY <1>1, TypeStep
<1>3. CASE QueueUntouched
    <2>1. StreamsStayPaired' /\ StreamsKeepOrder'
        BY <1>3 DEF QueueUntouched, StreamsStayPaired, StreamsKeepOrder, CountsAgree,
                    AllPendingQueued, OnlyPendingQueued, OldestFirst, Pending
    <2>2. NothingDropped'
        BY <1>3, FinishedOnlyGrows DEF QueueUntouched, NothingDropped
    <2> QED
        BY <1>2, <2>1, <2>2
<1>4. ASSUME NEW p \in Senders, SendWrite(p), Store(StreamOf[p])
      PROVE  QueueInv'
    <2>1. StreamsStayPaired' /\ StreamsKeepOrder'
        BY <1>4, StoreKeepsOrder, ConstantTypes DEF SendWrite
    <2>2. NothingDropped'
        BY <1>4 DEF SendWrite, NothingDropped
    <2> QED
        BY <1>2, <2>1, <2>2
<1>5. CASE ReceiveDiscard
    <2>1. StreamsStayPaired' /\ StreamsKeepOrder'
        BY <1>5, TakeHeadKeepsOrder DEF ReceiveDiscard
    <2>2. NothingDropped'
        BY <1>5 DEF ReceiveDiscard, TakeHead, Dropped, NothingDropped, TypeOK
    <2> QED
        BY <1>2, <2>1, <2>2
<1>6. CASE ReceiveItem
    <2>1. StreamsStayPaired' /\ StreamsKeepOrder'
        BY <1>6, TakeHeadKeepsOrder DEF ReceiveItem
    <2>2. NothingDropped'
        <3> SUFFICES ASSUME NEW s \in Streams, "RECV" \notin finished'[s]
                     PROVE  delivered'[s] = taken'[s]
            BY DEF NothingDropped
        <3> DEFINE h == Head(fifo_stream_index)
        <3>1. /\ delivered' = [delivered EXCEPT ![h] = Head(fifo).seq]
              /\ taken' = [taken EXCEPT ![h] = @ + 1]
              /\ finished' = finished /\ fifo # <<>>
            BY <1>6 DEF ReceiveItem, TakeHead
        <3>2. h = Head(fifo).stream /\ Head(fifo).seq = taken[h] + 1
            BY <3>1, HeadIsNext
        <3>3. delivered[s] = taken[s]
            BY <3>1 DEF NothingDropped
        <3>4. delivered \in [Streams -> Nat] /\ taken \in [Streams -> Nat]
            BY DEF TypeOK
        <3> QED
            BY <3>1, <3>2, <3>3, <3>4
    <2> QED
        BY <1>2, <2>1, <2>2
<1> QED
    BY <1>3, <1>4, <1>5, <1>6, StepKinds

LEMMA QueueInvInit == Init => QueueInv
<1> SUFFICES ASSUME Init PROVE QueueInv
    OBVIOUS
<1>1. fifo = <<>> /\ fifo_stream_index = <<>> /\ Len(fifo) = 0
    BY DEF Init
<1>2. \A s \in Streams : /\ accepted[s] = 0 /\ taken[s] = 0 /\ delivered[s] = 0
                         /\ stream_count[s] = 0 /\ Pending(s) = {}
    <2>1. 0 + 1 .. 0 = {}
        OBVIOUS
    <2> QED
        BY <2>1 DEF Init, Pending
<1>3. StreamsStayPaired /\ OnlyPendingQueued /\ OldestFirst
    BY <1>1 DEF StreamsStayPaired, OnlyPendingQueued, OldestFirst
<1>4. CountsAgree
    BY <1>2, ConstantTypes DEF CountsAgree
<1>5. AllPendingQueued /\ NothingDropped
    BY <1>2 DEF AllPendingQueued, NothingDropped
<1> QED
    BY <1>3, <1>4, <1>5, TypeInit DEF QueueInv, StreamsKeepOrder

(* Without allocation failures items and indices stay paired, nothing is    *)
(* lost, duplicated or reordered within a stream, and stream_count[] counts.*)
THEOREM QueueCorrect ==
    ASSUME NoAllocFailure
    PROVE  Spec => [](StreamsStayPaired /\ StreamsKeepOrder /\ NothingDropped)
<1>1. QueueInv /\ [Next]_vars => QueueInv'
    BY QueueInvStep
<1>2. QueueInv => StreamsStayPaired /\ StreamsKeepOrder /\ NothingDropped
    BY DEF QueueInv
<1> QED
    BY <1>1, <1>2, QueueInvInit, PTL DEF Spec

(* Without allocation failures an item is handed out with its own index.    *)
THEOREM ItemsKeepTheirIndex ==
    ASSUME NoAllocFailure
    PROVE  Spec => []StreamsStayPaired
BY QueueCorrect, PTL

--------------------------------------------------------------------------------
(***************************************************************************)
(* Senders.  The end of a stream is reported, which closes the stream       *)
(* without waking its senders, only when the queue is empty; the counts     *)
(* then say that none of its senders waits.                                 *)
(***************************************************************************)

LEMMA BroadcastWakes ==
    ASSUME NEW s \in Streams, NEW p \in Senders, sender' = BroadcastWrite(s),
           sender'[p] = "waiting"
    PROVE  sender[p] = "waiting" /\ StreamOf[p] # s
BY DEF BroadcastWrite

LEMMA SendersStep ==
    ASSUME QueueInv, SendersNotForgotten, [Next]_vars
    PROVE  SendersNotForgotten'
<1> SUFFICES ASSUME NEW p \in Senders, sender'[p] = "waiting"
             PROVE  /\ "RECV" \notin finished'[StreamOf[p]]
                    /\ ~(stream_count'[StreamOf[p]] < QueueSize)
    BY DEF SendersNotForgotten, can_write
<1> DEFINE s == StreamOf[p]
           Goal == "RECV" \notin finished'[s] /\ ~(stream_count'[s] < QueueSize)
<1>1. s \in Streams
    BY ConstantTypes
<1>2. /\ sender \in [Senders -> {"idle", "waiting", "woken"}]
      /\ finished \in [Streams -> SUBSET {"SEND", "RECV"}]
      /\ stream_count \in [Streams -> 0 .. SizeMax]
    BY DEF QueueInv, TypeOK
<1>3. sender[p] = "waiting" => "RECV" \notin finished[s] /\ ~(stream_count[s] < QueueSize)
    BY DEF SendersNotForgotten, can_write
<1>4. CASE UNCHANGED <<sender, finished, stream_count>>
    BY <1>3, <1>4
<1>5. ASSUME NEW q \in Senders, SendWait(q) PROVE Goal
    BY <1>2, <1>3, <1>5 DEF SendWait, can_write, queueVars
<1>6. ASSUME NEW q \in Senders, SendEof(q) PROVE Goal
    <2>1. StreamOf[q] \in Streams /\ sender'[q] = "idle"
        BY <1>2, <1>6, ConstantTypes DEF SendEof
    <2>2. sender[p] = "waiting"
        BY <1>2, <1>6 DEF SendEof
    <2> QED
        BY <1>1, <1>2, <1>3, <1>6, <2>1, <2>2 DEF SendEof
<1>7. ASSUME NEW q \in Senders, SendWrite(q) PROVE Goal
    <2>1. sender[p] = "waiting" /\ finished' = finished
        BY <1>2, <1>7 DEF SendWrite
    <2>2. stream_count' = stream_count
              \/ stream_count' = [stream_count EXCEPT ![StreamOf[q]] = @ + 1]
        BY <1>7 DEF SendWrite, Store, StoreIndexOnly, StoreNothing
    <2>3. stream_count[s] \in Nat /\ stream_count[s] <= stream_count'[s]
        BY <1>1, <1>2, <2>2
    <2>4. stream_count'[s] \in Nat
        BY <1>1, <1>2, <2>2
    <2> QED
        BY <1>3, <2>1, <2>3, <2>4, ConstantTypes
<1>8. ASSUME NEW t \in Streams, tq_send_finish(t) PROVE Goal
    BY <1>1, <1>2, <1>3, <1>8 DEF tq_send_finish
<1>9. ASSUME NEW t \in Streams, tq_receive_finish(t) PROVE Goal
    <2>1. sender[p] = "waiting" /\ s # t
        BY <1>9, BroadcastWakes DEF tq_receive_finish
    <2> QED
        BY <1>1, <1>2, <1>3, <1>9, <2>1 DEF tq_receive_finish
<1>10. CASE TakeHead
    <2> DEFINE h == Head(fifo_stream_index)
    <2>1. h \in Streams /\ stream_count[h] \in 1 .. QueueSize
        BY <1>10, HeadIsNext DEF TakeHead, QueueInv
    <2>2. sender[p] = "waiting" /\ (stream_count[h] = QueueSize => s # h)
        BY <1>10, <2>1, BroadcastWakes DEF TakeHead
    <2>3. s # h
        BY <1>3, <2>1, <2>2, ConstantTypes
    <2> QED
        BY <1>1, <1>2, <1>3, <1>10, <2>2, <2>3 DEF TakeHead
<1>11. CASE ReceiveEof
    <2>1. sender[p] = "waiting" /\ fifo = <<>> /\ stream_count' = stream_count
        BY <1>11 DEF ReceiveEof
    <2>2. stream_count[s] = 0
        BY <1>1, <2>1, EmptyFifo DEF QueueInv
    <2> QED
        BY <1>3, <2>1, <2>2, ConstantTypes
<1>12. CASE SpuriousWakeup
    BY <1>2, <1>3, <1>12 DEF SpuriousWakeup, queueVars
<1>13. CASE ReceiveItem \/ ReceiveDiscard
    BY <1>10, <1>13 DEF ReceiveItem, ReceiveDiscard
<1> QED
    BY <1>4, <1>5, <1>6, <1>7, <1>8, <1>9, <1>11, <1>12, <1>13
    DEF Next, vars, queueVars, tq_send, tq_receive, SendRefused, ReceiveCall,
        ReceiveResume, ReceiveDone, ReceiveWait, tq_choke

(* Without allocation failures a sender is parked on cond_write only while  *)
(* its stream is open and full.                                             *)
THEOREM SendersNeverForgotten ==
    ASSUME NoAllocFailure
    PROVE  Spec => []SendersNotForgotten
<1>1. Init => SendersNotForgotten
    BY DEF Init, SendersNotForgotten
<1>2. QueueInv /\ [Next]_vars => QueueInv'
    BY QueueInvStep
<1>3. QueueInv /\ SendersNotForgotten /\ [Next]_vars => SendersNotForgotten'
    BY SendersStep
<1> QED
    BY <1>1, <1>2, <1>3, QueueInvInit, PTL DEF Spec

--------------------------------------------------------------------------------
(***************************************************************************)
(* Refinement: each step of the queue is a step of the channels, or none.   *)
(***************************************************************************)

LEMMA ChannelsInit == Init => Channels!Init
BY DEF Init, Channels!Init

LEMMA ChannelsStep ==
    ASSUME NoAllocFailure, QueueInv, [Next]_vars
    PROVE  [Channels!Next]_(Channels!vars)
<1> DEFINE closed == {s \in Streams : "SEND" \in finished[s]}
           hungup == {s \in Streams : "RECV" \in finished[s]}
           Goal == [Channels!Next]_(Channels!vars)
<1>1. /\ finished \in [Streams -> SUBSET {"SEND", "RECV"}]
      /\ accepted \in [Streams -> Nat] /\ delivered \in [Streams -> Nat]
      /\ taken \in [Streams -> Nat]
    BY DEF QueueInv, TypeOK
<1>2. CASE UNCHANGED <<accepted, delivered, finished, eof>>
    BY <1>2 DEF Channels!vars
<1>3. ASSUME NEW p \in Senders, SendEof(p) PROVE Goal
    <2> DEFINE s == StreamOf[p]
    <2>1. s \in Streams /\ finished' = [finished EXCEPT ![s] = @ \cup {"SEND"}]
          /\ UNCHANGED <<accepted, delivered, eof>>
        BY <1>3, ConstantTypes DEF SendEof, historyVars
    <2>2. closed' = closed \cup {s} /\ hungup' = hungup
        BY <1>1, <2>1
    <2>3. Channels!Close(s)
        BY <2>1, <2>2 DEF Channels!Close
    <2> QED
        BY <2>1, <2>3 DEF Channels!Next
<1>4. ASSUME NEW p \in Senders, SendWrite(p), Store(StreamOf[p]) PROVE Goal
    <2> DEFINE s == StreamOf[p]
    <2>1. /\ s \in Streams /\ accepted' = [accepted EXCEPT ![s] = @ + 1]
          /\ "RECV" \notin finished[s] /\ stream_count[s] < QueueSize
          /\ UNCHANGED <<finished, delivered, eof>>
        BY <1>4, ConstantTypes DEF SendWrite, Store, can_write
    <2>2. stream_count[s] = accepted[s] - taken[s] /\ delivered[s] = taken[s]
        BY <2>1 DEF QueueInv, StreamsKeepOrder, CountsAgree, NothingDropped
    <2>3. accepted[s] < delivered[s] + QueueSize
        <3>1. /\ accepted[s] \in Nat /\ taken[s] \in Nat /\ QueueSize \in Nat
              /\ accepted[s] - taken[s] < QueueSize
            BY <1>1, <2>1, <2>2, ConstantTypes
        <3> QED
            BY <2>2, <3>1
    <2>4. Channels!Put(s)
        BY <2>1, <2>3 DEF Channels!Put
    <2> QED
        BY <2>1, <2>4 DEF Channels!Next
<1>5. ASSUME NEW s \in Streams, tq_send_finish(s) PROVE Goal
    <2>1. finished' = [finished EXCEPT ![s] = @ \cup {"SEND"}]
          /\ UNCHANGED <<accepted, delivered, eof>>
        BY <1>5 DEF tq_send_finish, historyVars
    <2>2. closed' = closed \cup {s} /\ hungup' = hungup
        BY <1>1, <2>1
    <2>3. Channels!Close(s)
        BY <2>1, <2>2 DEF Channels!Close
    <2> QED
        BY <2>3 DEF Channels!Next
<1>6. ASSUME NEW s \in Streams, tq_receive_finish(s) PROVE Goal
    <2>1. finished' = [finished EXCEPT ![s] = @ \cup {"RECV"}]
          /\ UNCHANGED <<accepted, delivered, eof>>
        BY <1>6 DEF tq_receive_finish, historyVars
    <2>2. closed' = closed /\ hungup' = hungup \cup {s}
        BY <1>1, <2>1
    <2>3. Channels!Hangup(s)
        BY <2>1, <2>2 DEF Channels!Hangup
    <2> QED
        BY <2>3 DEF Channels!Next
<1>7. CASE ReceiveItem
    <2> DEFINE s == Head(fifo_stream_index)
    <2>1. /\ "RECV" \notin finished[s] /\ fifo # <<>>
          /\ delivered' = [delivered EXCEPT ![s] = Head(fifo).seq]
          /\ UNCHANGED <<finished, accepted, eof>>
        BY <1>7 DEF ReceiveItem, TakeHead, Dropped
    <2>2. /\ s \in Streams /\ Head(fifo).seq = taken[s] + 1
          /\ taken[s] < accepted[s]
        BY <2>1, HeadIsNext DEF QueueInv
    <2>3. delivered[s] = taken[s]
        BY <2>1, <2>2 DEF QueueInv, NothingDropped
    <2>4. delivered' = [delivered EXCEPT ![s] = @ + 1] /\ delivered[s] < accepted[s]
        BY <2>1, <2>2, <2>3
    <2>5. Channels!Get(s)
        BY <2>1, <2>2, <2>4 DEF Channels!Get
    <2> QED
        BY <2>2, <2>5 DEF Channels!Next
<1>8. CASE ReceiveEof
    <2>1. PICK s \in EofPending :
              /\ finished' = [finished EXCEPT ![s] = @ \cup {"RECV"}]
              /\ eof' = eof \cup {s}
              /\ fifo = <<>>
              /\ UNCHANGED <<accepted, delivered, taken>>
        BY <1>8 DEF ReceiveEof
    <2>2. s \in Streams /\ finished[s] # {} /\ "RECV" \notin finished[s]
        BY <2>1 DEF EofPending
    <2>3. "SEND" \in finished[s]
        BY <1>1, <2>2
    <2>4. delivered[s] = accepted[s]
        BY <2>1, <2>2, EmptyFifo DEF QueueInv, NothingDropped
    <2>5. closed' = closed /\ hungup' = hungup \cup {s}
        BY <1>1, <2>1, <2>2
    <2>6. Channels!End(s)
        BY <2>1, <2>2, <2>3, <2>4, <2>5 DEF Channels!End
    <2> QED
        BY <2>2, <2>6 DEF Channels!Next
<1>9. CASE ReceiveDiscard
    BY <1>2, <1>9 DEF ReceiveDiscard, TakeHead
<1>10. ASSUME NEW p \in Senders, SendWrite(p) PROVE Goal
    <2>1. Store(StreamOf[p]) \/ accepted' = accepted
        BY <1>10 DEF SendWrite, StoreIndexOnly, StoreNothing
    <2> QED
        BY <1>2, <1>4, <1>10, <2>1 DEF SendWrite
<1> QED
    BY <1>2, <1>3, <1>5, <1>6, <1>7, <1>8, <1>9, <1>10
    DEF Next, vars, queueVars, historyVars, tq_send, tq_receive, SendRefused,
        SendWait, ReceiveCall, ReceiveResume, ReceiveDone, ReceiveWait, tq_choke,
        SpuriousWakeup

(* Without allocation failures the thread queue implements one bounded FIFO *)
(* channel per stream, whose end comes after everything that was sent.      *)
THEOREM QueueImplementsChannels ==
    ASSUME NoAllocFailure
    PROVE  Spec => ImplementsChannels
<1>1. QueueInv /\ [Next]_vars => QueueInv'
    BY QueueInvStep
<1>2. QueueInv /\ [Next]_vars => [Channels!Next]_(Channels!vars)
    BY ChannelsStep
<1> QED
    BY <1>1, <1>2, QueueInvInit, ChannelsInit, PTL
    DEF Spec, Channels!Spec, ImplementsChannels
================================================================================
