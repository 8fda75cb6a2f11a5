-------------------------- MODULE MessageQueueProofs ---------------------------
(***************************************************************************)
(* Theorems about the message queue, for any length and any number of       *)
(* threads.  What the ring of the queue holds is followed through the       *)
(* lemmas of FifoProofs; the waiting threads are counted.                   *)
(***************************************************************************)
EXTENDS MessageQueue, FifoProofs, FiniteSetTheorems

\* The ring is in a good state and long as allocated, and what it holds was
\* written to it.
IInv ==
    /\ TypeOK
    /\ fifo.nb_elems = nelem
    /\ \A i \in 1 .. can_read(fifo) : Contents(fifo)[i] \in Nat

--------------------------------------------------------------------------------
(* The condition variables. *)

LEMMA SignalledThreads ==
    ASSUME NEW T, NEW st \in [T -> {"idle", "waiting", "woken"}],
           NEW st2 \in Signalled(st)
    PROVE  /\ st2 \in [T -> {"idle", "waiting", "woken"}]
           /\ \/ st2 = st /\ In(st, "waiting") = {}
              \/ \E t \in In(st, "waiting") : st2 = [st EXCEPT ![t] = "woken"]
BY DEF Signalled, In

LEMMA BroadcastThreads ==
    ASSUME NEW T, NEW st \in [T -> {"idle", "waiting", "woken"}]
    PROVE  /\ Broadcast(st) \in [T -> {"idle", "waiting", "woken"}]
           /\ In(Broadcast(st), "waiting") = {}
BY DEF Broadcast, In

LEMMA WokenCount ==
    ASSUME NEW T, IsFiniteSet(T), NEW st \in [T -> {"idle", "waiting", "woken"}]
    PROVE  IsFiniteSet(In(st, "woken")) /\ Cardinality(In(st, "woken")) \in Nat
<1>1. In(st, "woken") \subseteq T
    BY DEF In
<1> QED
    BY <1>1, FS_Subset, FS_CardinalityType

\* One more thread is awake once one of the waiting ones was woken,
LEMMA WakeOne ==
    ASSUME NEW T, IsFiniteSet(T), NEW st \in [T -> {"idle", "waiting", "woken"}],
           NEW t \in In(st, "waiting")
    PROVE  LET st2 == [st EXCEPT ![t] = "woken"] IN
           Cardinality(In(st2, "woken")) = Cardinality(In(st, "woken")) + 1
<1> DEFINE st2 == [st EXCEPT ![t] = "woken"]
<1>1. In(st2, "woken") = In(st, "woken") \cup {t} /\ t \notin In(st, "woken")
    BY DEF In
<1> HIDE DEF st2
<1>2. Cardinality(In(st2, "woken")) = Cardinality(In(st, "woken")) + 1
    BY <1>1, WokenCount, FS_AddElement
<1> QED
    BY <1>2 DEF st2

\* at most one fewer when a thread goes its way.
LEMMA GoOne ==
    ASSUME NEW T, IsFiniteSet(T), NEW st \in [T -> {"idle", "waiting", "woken"}],
           NEW t \in T
    PROVE  LET st2 == [st EXCEPT ![t] = "idle"] IN
           /\ Cardinality(In(st2, "woken")) + 1 >= Cardinality(In(st, "woken"))
           /\ In(st2, "waiting") \subseteq In(st, "waiting")
<1> DEFINE st2 == [st EXCEPT ![t] = "idle"]
<1>1. In(st2, "woken") = In(st, "woken") \ {t} /\ In(st2, "waiting") \subseteq In(st, "waiting")
    BY DEF In
<1>2. st2 \in [T -> {"idle", "waiting", "woken"}]
    OBVIOUS
<1> HIDE DEF st2
<1>3. Cardinality(In(st, "woken")) \in Nat /\ Cardinality(In(st2, "woken")) \in Nat
    BY <1>2, WokenCount
<1>4. ASSUME t \in In(st, "woken")
      PROVE  Cardinality(In(st2, "woken")) + 1 >= Cardinality(In(st, "woken"))
    <2>1. Cardinality(In(st2, "woken")) = Cardinality(In(st, "woken")) - 1
        BY <1>1, <1>4, WokenCount, FS_RemoveElement
    <2> QED
        BY <1>3, <2>1
<1>5. ASSUME t \notin In(st, "woken")
      PROVE  Cardinality(In(st2, "woken")) + 1 >= Cardinality(In(st, "woken"))
    <2>1. In(st2, "woken") = In(st, "woken")
        BY <1>1, <1>5
    <2> QED
        BY <1>3, <2>1
<1>6. Cardinality(In(st2, "woken")) + 1 >= Cardinality(In(st, "woken"))
    BY <1>4, <1>5
<1> QED
    BY <1>1, <1>6 DEF st2

--------------------------------------------------------------------------------
(* The ring. *)

\* What the calls that change the ring do to its contents.
LEMMA RingWrite ==
    ASSUME IInv, sent \in Nat, can_write(fifo) > 0, NEW m \in Nat
    PROVE  LET g == write(fifo, <<m>>) IN
           /\ IsRing(g, Nat) /\ g.nb_elems = nelem
           /\ can_read(g) = can_read(fifo) + 1
           /\ \A i \in 1 .. can_read(g) : Contents(g)[i] \in Nat
           /\ Contents(g) = Append(Contents(fifo), m)
<1> DEFINE g == write(fifo, <<m>>)
           c == can_read(fifo)
<1>1. IsRing(fifo, Nat) /\ can_write(fifo) \in Nat /\ c \in Nat
    BY RingCounts, RingFields DEF IInv, TypeOK
<1>2. /\ IsRing(g, Nat) /\ g.nb_elems = fifo.nb_elems
      /\ can_read(g) = c + 1
      /\ Contents(g) = Contents(fifo) \o <<m>>
    <2> DEFINE b == <<m>>
    <2>1. b \in Seq(Nat) /\ Len(b) = 1 /\ Len(b) <= can_write(fifo)
        BY <1>1
    <2> HIDE DEF b
    <2>2. /\ IsRing(write(fifo, b), Nat)
          /\ write(fifo, b).nb_elems = fifo.nb_elems
          /\ can_read(write(fifo, b)) = can_read(fifo) + Len(b)
          /\ Contents(write(fifo, b)) = Contents(fifo) \o b
        BY <1>1, <2>1, WriteAppends
    <2> QED
        BY <2>1, <2>2 DEF b
<1> HIDE DEF g, c
<1>3. Contents(fifo) \in Seq(Nat \cup {Junk}) /\ Len(Contents(fifo)) = c
    BY <1>1, ContentsType DEF c
<1>4. Contents(g) = Append(Contents(fifo), m)
    BY <1>2, <1>3
<1>5. ASSUME NEW i \in 1 .. can_read(g)
      PROVE  Contents(g)[i] \in Nat
    <2>1. CASE i = c + 1
        BY <1>1, <1>3, <1>4, <2>1
    <2>2. CASE i # c + 1
        <3>1. i \in 1 .. c
            BY <1>1, <1>2, <2>2
        <3>2. Contents(g)[i] = Contents(fifo)[i]
            BY <1>1, <1>3, <1>4, <3>1
        <3> QED
            BY <3>1, <3>2 DEF IInv, c
    <2> QED
        BY <2>1, <2>2
<1> QED
    BY <1>2, <1>4, <1>5 DEF g, c, IInv

LEMMA RingDrain ==
    ASSUME IInv, NEW n \in 0 .. can_read(fifo)
    PROVE  LET g == drain2(fifo, n) IN
           /\ IsRing(g, Nat) /\ g.nb_elems = nelem
           /\ can_read(fifo) = can_read(g) + n
           /\ can_read(g) \in Nat
           /\ \A i \in 1 .. can_read(g) : /\ Contents(g)[i] = Contents(fifo)[i + n]
                                          /\ Contents(g)[i] \in Nat
<1> DEFINE g == drain2(fifo, n)
<1>1. IsRing(fifo, Nat) /\ can_read(fifo) \in Nat /\ n \in Nat
    BY RingCounts, RingFields DEF IInv, TypeOK
<1>2. /\ IsRing(g, Nat) /\ g.nb_elems = fifo.nb_elems
      /\ can_read(fifo) = can_read(g) + n
      /\ \A i \in 1 .. can_read(g) : Contents(g)[i] = Contents(fifo)[i + n]
    BY <1>1, DrainDrops
<1> HIDE DEF g
<1>3. can_read(g) \in Nat
    BY <1>2, RingCounts, RingFields
<1>4. \A i \in 1 .. can_read(g) : i + n \in 1 .. can_read(fifo)
    BY <1>1, <1>2, <1>3
<1>5. \A i \in 1 .. can_read(g) : Contents(g)[i] \in Nat
    BY <1>2, <1>4 DEF IInv
<1> QED
    BY <1>2, <1>3, <1>5 DEF g, IInv

LEMMA RingPeek ==
    ASSUME IInv, NEW n \in 0 .. can_read(fifo)
    PROVE  \A i \in 1 .. n : /\ peek(fifo, n, 0)[i] = Contents(fifo)[i]
                             /\ peek(fifo, n, 0)[i] \in Nat
<1>1. IsRing(fifo, Nat) /\ can_read(fifo) \in Nat /\ n \in Nat
    BY RingCounts, RingFields DEF IInv, TypeOK
<1>2. 0 \in 0 .. can_read(fifo) /\ n \in 0 .. can_read(fifo) - 0
    BY <1>1
<1>3. \A i \in 1 .. n : peek(fifo, n, 0)[i] = Contents(fifo)[i + 0]
    BY <1>1, <1>2, PeekReads
<1>4. \A i \in 1 .. n : i + 0 = i /\ i \in 1 .. can_read(fifo)
    BY <1>1
<1> QED
    BY <1>3, <1>4 DEF IInv

--------------------------------------------------------------------------------
(* The type invariant. *)

LEMMA InitInv == Init => IInv
<1> SUFFICES ASSUME Init
             PROVE  IInv
    OBVIOUS
<1>1. IsRing(fifo, Nat) /\ fifo.nb_elems = nelem /\ can_read(fifo) = 0
    BY MessageQueueAssumption, AllocIsEmpty DEF Init
<1> QED
    BY <1>1 DEF Init, IInv, TypeOK

LEMMA NextInv == IInv /\ [Next]_vars => IInv'
<1> SUFFICES ASSUME IInv, [Next]_vars
             PROVE  IInv'
    OBVIOUS
<1> USE DEF IInv
<1>1. ASSUME NEW p \in Senders, SendWait(p) \/ SendFails(p)
      PROVE  IInv'
    BY <1>1 DEF SendWait, SendFails, TypeOK
<1>2. ASSUME NEW p \in Senders, SendWrites(p)
      PROVE  IInv'
    <2>1. sent' \in Nat /\ sent \in Nat
        BY <1>2 DEF SendWrites, TypeOK
    <2>2. /\ IsRing(fifo', Nat) /\ fifo'.nb_elems = nelem
          /\ \A i \in 1 .. can_read(fifo') : Contents(fifo')[i] \in Nat
        BY <1>2, <2>1, RingWrite DEF SendWrites
    <2>3. receiver' \in [Receivers -> {"idle", "waiting", "woken"}]
        BY <1>2, SignalledThreads DEF SendWrites, TypeOK
    <2>4. sender' \in [Senders -> {"idle", "waiting", "woken"}]
        BY <1>2 DEF SendWrites, TypeOK
    <2> QED
        BY <1>2, <2>1, <2>2, <2>3, <2>4 DEF SendWrites, TypeOK
<1>3. ASSUME NEW r \in Receivers, RecvWait(r) \/ RecvFails(r)
      PROVE  IInv'
    BY <1>3 DEF RecvWait, RecvFails, TypeOK
<1>4. ASSUME NEW r \in Receivers, RecvReads(r)
      PROVE  IInv'
    <2>1. 1 \in 0 .. can_read(fifo) /\ 1 \in 1 .. 1
        BY <1>4, RingCounts, RingFields DEF RecvReads, TypeOK
    <2>2. /\ IsRing(fifo', Nat) /\ fifo'.nb_elems = nelem
          /\ \A i \in 1 .. can_read(fifo') : Contents(fifo')[i] \in Nat
        BY <1>4, <2>1, RingDrain DEF RecvReads
    <2>3. peek(fifo, 1, 0)[1] \in Nat
        BY <2>1, RingPeek
    <2>4. got' \in [Receivers -> Nat]
        BY <1>4, <2>3 DEF RecvReads, TypeOK
    <2>5. sender' \in [Senders -> {"idle", "waiting", "woken"}]
        BY <1>4, SignalledThreads DEF RecvReads, TypeOK
    <2>6. receiver' \in [Receivers -> {"idle", "waiting", "woken"}]
        BY <1>4 DEF RecvReads, TypeOK
    <2> QED
        BY <1>4, <2>2, <2>4, <2>5, <2>6 DEF RecvReads, TypeOK
<1>5. CASE set_err_send
    BY <1>5, BroadcastThreads DEF set_err_send, TypeOK
<1>6. CASE set_err_recv
    BY <1>6, BroadcastThreads DEF set_err_recv, TypeOK
<1>7. CASE flush
    <2>1. sender' \in [Senders -> {"idle", "waiting", "woken"}]
        BY <1>7, BroadcastThreads DEF flush, TypeOK
    <2>2. can_read(fifo) \in 0 .. can_read(fifo)
        BY RingCounts, RingFields DEF TypeOK
    <2>3. CASE free_func
        <3>1. /\ IsRing(fifo', Nat) /\ fifo'.nb_elems = nelem
              /\ \A i \in 1 .. can_read(fifo') : Contents(fifo')[i] \in Nat
            BY <1>7, <2>2, <2>3, RingDrain DEF flush
        <3>2. freed' \subseteq Nat
            <4> DEFINE n == can_read(fifo)
            <4>1. freed' = freed \cup {peek(fifo, n, 0)[i] : i \in 1 .. n}
                BY <1>7, <2>3 DEF flush
            <4>2. \A i \in 1 .. n : peek(fifo, n, 0)[i] \in Nat
                BY <2>2, RingPeek
            <4> QED
                BY <4>1, <4>2 DEF TypeOK
        <3> QED
            BY <1>7, <2>1, <3>1, <3>2 DEF flush, TypeOK
    <2>4. CASE ~free_func
        BY <1>7, <2>1, <2>4 DEF flush, TypeOK
    <2> QED
        BY <2>3, <2>4
<1>8. CASE WakesByItself /\ UNCHANGED <<fifo, err_send, err_recv, free_func, sent, got, freed>>
    BY <1>8 DEF WakesByItself, In, TypeOK
<1>9. CASE UNCHANGED vars
    BY <1>9 DEF vars, TypeOK
<1> QED
    BY <1>1, <1>2, <1>3, <1>4, <1>5, <1>6, <1>7, <1>8, <1>9 DEF Next, send, recv

\* The ring under the queue is always in a good state, and no thread ever gets
\* or frees a message that was not written
\* (av_thread_message_queue_recv_locked(), av_thread_message_flush()).
THEOREM TypeCorrect == Spec => []TypeOK
<1>1. IInv => TypeOK
    BY DEF IInv
<1> QED
    BY <1>1, InitInv, NextInv, PTL DEF Spec

--------------------------------------------------------------------------------
(* Wakeups. *)

LEMMA NextWakes == IInv /\ IInv' /\ NoLostWakeup /\ [Next]_vars => NoLostWakeup'
<1> SUFFICES ASSUME IInv, IInv', NoLostWakeup, [Next]_vars
             PROVE  NoLostWakeup'
    OBVIOUS
<1> DEFINE RecvSide == In(receiver, "waiting") # {} =>
                           /\ err_recv = 0
                           /\ can_read(fifo) <= Cardinality(In(receiver, "woken"))
           SendSide == In(sender, "waiting") # {} =>
                           /\ err_send = 0
                           /\ can_write(fifo) <= Cardinality(In(sender, "woken"))
<1>1. RecvSide /\ SendSide
    BY DEF NoLostWakeup
<1>2. /\ sender \in [Senders -> {"idle", "waiting", "woken"}]
      /\ receiver \in [Receivers -> {"idle", "waiting", "woken"}]
      /\ sender' \in [Senders -> {"idle", "waiting", "woken"}]
      /\ receiver' \in [Receivers -> {"idle", "waiting", "woken"}]
      /\ IsFiniteSet(Senders) /\ IsFiniteSet(Receivers)
      /\ IsRing(fifo, Nat) /\ IsRing(fifo', Nat)
    BY MessageQueueAssumption DEF IInv, TypeOK
<1>3. /\ Cardinality(In(sender, "woken")) \in Nat
      /\ Cardinality(In(receiver, "woken")) \in Nat
      /\ Cardinality(In(sender', "woken")) \in Nat
      /\ Cardinality(In(receiver', "woken")) \in Nat
    BY <1>2, WokenCount
<1>4. /\ can_read(fifo) \in Nat /\ can_write(fifo) \in Nat /\ nelem \in Nat
      /\ can_read(fifo) + can_write(fifo) = nelem
      /\ can_read(fifo') \in Nat /\ can_write(fifo') \in Nat
      /\ can_read(fifo') + can_write(fifo') = nelem
    BY <1>2, RingCounts, RingFields, MessageQueueAssumption DEF IInv
\* A thread that starts to wait, or that finds the error, on one side.
<1>5. ASSUME NEW p \in Senders, SendWait(p)
      PROVE  NoLostWakeup'
    <2>1. err_send = 0 /\ can_write(fifo) = 0 /\ UNCHANGED <<fifo, err_send, err_recv, receiver>>
        BY <1>5 DEF SendWait
    <2> QED
        BY <1>1, <1>3, <2>1 DEF NoLostWakeup
<1>6. ASSUME NEW r \in Receivers, RecvWait(r)
      PROVE  NoLostWakeup'
    <2>1. err_recv = 0 /\ can_read(fifo) = 0 /\ UNCHANGED <<fifo, err_send, err_recv, sender>>
        BY <1>6 DEF RecvWait
    <2> QED
        BY <1>1, <1>3, <2>1 DEF NoLostWakeup
<1>7. ASSUME NEW p \in Senders, SendFails(p)
      PROVE  NoLostWakeup'
    <2>1. err_send # 0 /\ sender' = [sender EXCEPT ![p] = "idle"]
          /\ UNCHANGED <<fifo, err_send, err_recv, receiver>>
        BY <1>7 DEF SendFails
    <2>2. In(sender', "waiting") \subseteq In(sender, "waiting")
        BY <1>2, <2>1, GoOne
    <2> QED
        BY <1>1, <2>1, <2>2 DEF NoLostWakeup
<1>8. ASSUME NEW r \in Receivers, RecvFails(r)
      PROVE  NoLostWakeup'
    <2>1. err_recv # 0 /\ receiver' = [receiver EXCEPT ![r] = "idle"]
          /\ UNCHANGED <<fifo, err_send, err_recv, sender>>
        BY <1>8 DEF RecvFails
    <2>2. In(receiver', "waiting") \subseteq In(receiver, "waiting")
        BY <1>2, <2>1, GoOne
    <2> QED
        BY <1>1, <2>1, <2>2 DEF NoLostWakeup
\* A message more, a signal more; the sender that wrote it takes a slot.
<1>9. ASSUME NEW p \in Senders, SendWrites(p)
      PROVE  NoLostWakeup'
    <2>1. /\ sender' = [sender EXCEPT ![p] = "idle"] /\ receiver' \in Signalled(receiver)
          /\ UNCHANGED <<err_send, err_recv>>
        BY <1>9 DEF SendWrites
    <2>2. can_read(fifo') = can_read(fifo) + 1
        <3>1. sent \in Nat /\ sent' \in Nat /\ can_write(fifo) > 0
            BY <1>9 DEF SendWrites, IInv, TypeOK
        <3> QED
            BY <1>9, <3>1, RingWrite DEF SendWrites
    <2>3. /\ Cardinality(In(sender', "woken")) + 1 >= Cardinality(In(sender, "woken"))
          /\ In(sender', "waiting") \subseteq In(sender, "waiting")
        BY <1>2, <2>1, GoOne
    <2>4. SendSide'
        <3> SUFFICES ASSUME In(sender', "waiting") # {}
                     PROVE  /\ err_send' = 0
                            /\ can_write(fifo') <= Cardinality(In(sender', "woken"))
            OBVIOUS
        <3>1. In(sender, "waiting") # {}
            BY <2>3
        <3>2. err_send = 0 /\ can_write(fifo) <= Cardinality(In(sender, "woken"))
            BY <1>1, <3>1
        <3> QED
            BY <1>3, <1>4, <2>1, <2>2, <2>3, <3>2
    <2>5. CASE receiver' = receiver /\ In(receiver, "waiting") = {}
        BY <2>4, <2>5 DEF NoLostWakeup
    <2>6. ASSUME NEW t \in In(receiver, "waiting"), receiver' = [receiver EXCEPT ![t] = "woken"]
          PROVE  NoLostWakeup'
        <3>1. Cardinality(In(receiver', "woken")) = Cardinality(In(receiver, "woken")) + 1
            BY <1>2, <2>6, WakeOne
        <3>2. err_recv = 0 /\ can_read(fifo) <= Cardinality(In(receiver, "woken"))
            BY <1>1, <2>6
        <3>3. err_recv' = 0 /\ can_read(fifo') <= Cardinality(In(receiver', "woken"))
            BY <1>3, <1>4, <2>1, <2>2, <3>1, <3>2
        <3> QED
            BY <2>4, <3>3 DEF NoLostWakeup
    <2> QED
        BY <1>2, <2>1, <2>5, <2>6, SignalledThreads
\* A slot more, a signal more; the receiver that read takes a message.
<1>10. ASSUME NEW r \in Receivers, RecvReads(r)
       PROVE  NoLostWakeup'
    <2>1. /\ receiver' = [receiver EXCEPT ![r] = "idle"] /\ sender' \in Signalled(sender)
          /\ UNCHANGED <<err_send, err_recv>>
        BY <1>10 DEF RecvReads
    <2>2. can_read(fifo) = can_read(fifo') + 1
        <3>1. 1 \in 0 .. can_read(fifo)
            BY <1>4, <1>10 DEF RecvReads
        <3> QED
            BY <1>10, <3>1, RingDrain DEF RecvReads
    <2>3. /\ Cardinality(In(receiver', "woken")) + 1 >= Cardinality(In(receiver, "woken"))
          /\ In(receiver', "waiting") \subseteq In(receiver, "waiting")
        BY <1>2, <2>1, GoOne
    <2>4. RecvSide'
        <3> SUFFICES ASSUME In(receiver', "waiting") # {}
                     PROVE  /\ err_recv' = 0
                            /\ can_read(fifo') <= Cardinality(In(receiver', "woken"))
            OBVIOUS
        <3>1. In(receiver, "waiting") # {}
            BY <2>3
        <3>2. err_recv = 0 /\ can_read(fifo) <= Cardinality(In(receiver, "woken"))
            BY <1>1, <3>1
        <3> QED
            BY <1>3, <1>4, <2>1, <2>2, <2>3, <3>2
    <2>5. CASE sender' = sender /\ In(sender, "waiting") = {}
        BY <2>4, <2>5 DEF NoLostWakeup
    <2>6. ASSUME NEW t \in In(sender, "waiting"), sender' = [sender EXCEPT ![t] = "woken"]
          PROVE  NoLostWakeup'
        <3>1. Cardinality(In(sender', "woken")) = Cardinality(In(sender, "woken")) + 1
            BY <1>2, <2>6, WakeOne
        <3>2. err_send = 0 /\ can_write(fifo) <= Cardinality(In(sender, "woken"))
            BY <1>1, <2>6
        <3>3. err_send' = 0 /\ can_write(fifo') <= Cardinality(In(sender', "woken"))
            BY <1>3, <1>4, <2>1, <2>2, <3>1, <3>2
        <3> QED
            BY <2>4, <3>3 DEF NoLostWakeup
    <2> QED
        BY <1>2, <2>1, <2>5, <2>6, SignalledThreads
<1>11. CASE set_err_send
    BY <1>1, <1>2, <1>11, BroadcastThreads DEF set_err_send, NoLostWakeup
<1>12. CASE set_err_recv
    BY <1>1, <1>2, <1>12, BroadcastThreads DEF set_err_recv, NoLostWakeup
<1>13. CASE flush
    <2>1. In(sender', "waiting") = {} /\ UNCHANGED <<err_recv, receiver>>
        BY <1>2, <1>13, BroadcastThreads DEF flush
    <2>2. can_read(fifo') <= can_read(fifo)
        <3>1. CASE free_func
            <4>1. can_read(fifo) \in 0 .. can_read(fifo)
                BY <1>4
            <4> QED
                BY <1>4, <1>13, <3>1, <4>1, RingDrain DEF flush
        <3>2. CASE ~free_func
            BY <1>4, <1>13, <3>2 DEF flush
        <3> QED
            BY <3>1, <3>2
    <2> QED
        BY <1>1, <1>3, <1>4, <2>1, <2>2 DEF NoLostWakeup
<1>14. CASE WakesByItself /\ UNCHANGED <<fifo, err_send, err_recv, free_func, sent, got, freed>>
    <2>1. ASSUME NEW p \in In(sender, "waiting"), sender' = [sender EXCEPT ![p] = "woken"],
                 UNCHANGED receiver
          PROVE  NoLostWakeup'
        <3>1. Cardinality(In(sender', "woken")) = Cardinality(In(sender, "woken")) + 1
            BY <1>2, <2>1, WakeOne
        <3> QED
            BY <1>1, <1>3, <1>4, <1>14, <2>1, <3>1 DEF NoLostWakeup
    <2>2. ASSUME NEW r \in In(receiver, "waiting"), receiver' = [receiver EXCEPT ![r] = "woken"],
                 UNCHANGED sender
          PROVE  NoLostWakeup'
        <3>1. Cardinality(In(receiver', "woken")) = Cardinality(In(receiver, "woken")) + 1
            BY <1>2, <2>2, WakeOne
        <3> QED
            BY <1>1, <1>3, <1>4, <1>14, <2>2, <3>1 DEF NoLostWakeup
    <2> QED
        BY <1>14, <2>1, <2>2 DEF WakesByItself
<1>15. CASE UNCHANGED vars
    BY <1>1, <1>15 DEF vars, NoLostWakeup
<1> QED
    BY <1>5, <1>6, <1>7, <1>8, <1>9, <1>10, <1>11, <1>12, <1>13, <1>14, <1>15
    DEF Next, send, recv

\* No signal is missed, with any number of senders and receivers: a thread only
\* sleeps while others are awake for all the messages or free slots there are, and
\* never once the error is set that ends its call
\* (av_thread_message_queue_send_locked(), av_thread_message_queue_recv_locked()).
THEOREM NoWakeupIsLost == Spec => []NoLostWakeup
<1>1. Init => NoLostWakeup
    BY DEF Init, NoLostWakeup, In
<1> QED
    BY <1>1, InitInv, NextInv, NextWakes, PTL DEF Spec

--------------------------------------------------------------------------------
(* Growing. *)

LEMMA GrowthType ==
    ASSUME NEW f, f.nb_elems \in Nat, can_write(f) \in Nat, NEW n \in Nat, NEW limit \in Nat,
           Growth(f, n, limit) >= 0
    PROVE  Growth(f, n, limit) \in Nat /\ n <= can_write(f) + Growth(f, n, limit)
<1> DEFINE need == n - can_write(f)
           can == IF limit > f.nb_elems THEN limit - f.nb_elems ELSE 0
           half == can \div 2
<1>1. need \in Int /\ can \in Nat /\ half \in Nat /\ n = can_write(f) + need
    OBVIOUS
<1>2. Growth(f, n, limit) = IF need <= 0 THEN 0 ELSE IF need > can THEN -1
                            ELSE IF need < half THEN need * 2 ELSE can
    BY DEF Growth
<1> HIDE DEF need, can, half
<1> QED
    BY <1>1, <1>2

\* A growing av_fifo_write() appends, whatever it makes room for.
LEMMA WriteGrowAppends ==
    ASSUME NEW S, NEW f, IsRing(f, S), NEW buf \in Seq(S), NEW limit \in Nat,
           Growth(f, Len(buf), limit) >= 0
    PROVE  Contents(write_grow(f, buf, limit)) = Contents(f) \o buf
<1> DEFINE n == Len(buf)
           d == Growth(f, n, limit)
           g == grow2(f, d)
<1>1. f.nb_elems \in Nat /\ can_read(f) \in Nat /\ can_write(f) \in Nat /\ n \in Nat
      /\ can_read(f) + can_write(f) = f.nb_elems
    BY RingFields, RingCounts
<1>2. d \in Nat /\ n <= can_write(f) + d
    BY <1>1, GrowthType
<1> HIDE DEF d
<1>3. CASE d = 0
    <2>1. write_grow(f, buf, limit) = write(f, buf)
        BY <1>3 DEF write_grow, d
    <2>2. Len(buf) <= can_write(f)
        BY <1>1, <1>2, <1>3
    <2> QED
        BY <2>1, <2>2, WriteAppends
<1>4. CASE d # 0
    <2>1. write_grow(f, buf, limit) = write(g, buf)
        BY <1>4 DEF write_grow, d
    <2>2. /\ IsRing(g, S) /\ Contents(g) = Contents(f)
          /\ can_read(g) = can_read(f) /\ g.nb_elems = f.nb_elems + d
        BY <1>2, GrowKeeps
    <2> HIDE DEF g
    <2>3. can_read(g) + can_write(g) = g.nb_elems /\ can_write(g) \in 0 .. g.nb_elems
        BY <2>2, RingCounts
    <2>4. Len(buf) <= can_write(g)
        BY <1>1, <1>2, <2>2, <2>3
    <2>5. Contents(write(g, buf)) = Contents(g) \o buf
        BY <2>2, <2>4, WriteAppends
    <2> QED
        BY <2>1, <2>2, <2>5
<1> QED
    BY <1>3, <1>4

LEMMA InvGrowth == IInv => GrowthKeepsContents
<1> SUFFICES ASSUME IInv, NEW inc \in 0 .. nelem + 1
             PROVE  /\ Contents(grow2(fifo, inc)) = Contents(fifo)
                    /\ \A n \in 0 .. can_write(fifo) + inc :
                          LET buf == [i \in 1 .. n |-> -i] IN
                          Growth(fifo, n, nelem + inc) >= 0 =>
                              Contents(write_grow(fifo, buf, nelem + inc))
                                  = Contents(fifo) \o buf
    BY DEF GrowthKeepsContents
<1>1. IsRing(fifo, Nat) /\ nelem \in Nat /\ inc \in Nat /\ can_write(fifo) \in Nat
    BY MessageQueueAssumption, RingCounts, RingFields DEF IInv, TypeOK
<1>2. IsRing(fifo, Int)
    <2>1. fifo.buffer \in [0 .. fifo.nb_elems - 1 -> Nat \cup {Junk}]
        BY <1>1, RingFields
    <2>2. fifo.buffer \in [0 .. fifo.nb_elems - 1 -> Int \cup {Junk}]
        BY <2>1
    <2> QED
        BY <1>1, <2>2 DEF IsRing
<1>3. Contents(grow2(fifo, inc)) = Contents(fifo)
    BY <1>1, GrowKeeps
<1>4. ASSUME NEW n \in 0 .. can_write(fifo) + inc, Growth(fifo, n, nelem + inc) >= 0
      PROVE  LET buf == [i \in 1 .. n |-> -i] IN
             Contents(write_grow(fifo, buf, nelem + inc)) = Contents(fifo) \o buf
    <2> DEFINE buf == [i \in 1 .. n |-> -i]
    <2>1. n \in Nat
        BY <1>1
    <2>2. buf \in Seq(Int) /\ Len(buf) = n
        BY <2>1
    <2> HIDE DEF buf
    <2>3. nelem + inc \in Nat
        BY <1>1
    <2>4. Contents(write_grow(fifo, buf, nelem + inc)) = Contents(fifo) \o buf
        BY <1>2, <1>4, <2>2, <2>3, WriteGrowAppends
    <2> QED
        BY <2>4 DEF buf
<1> QED
    BY <1>3, <1>4

\* av_fifo_grow2() and a growing av_fifo_write() keep what a ring holds, in order,
\* wherever its offsets are and however much it grows (fifo_check_space()).
THEOREM GrowthIsSafe == Spec => []GrowthKeepsContents
<1> QED
    BY InitInv, NextInv, InvGrowth, PTL DEF Spec

--------------------------------------------------------------------------------
(* Refinement. *)

LEMMA ChannelInit == Init => Channel!Init
<1> SUFFICES ASSUME Init
             PROVE  Channel!Init
    OBVIOUS
<1>1. Contents(fifo) = <<>>
    BY MessageQueueAssumption, AllocIsEmpty DEF Init
<1> QED
    BY <1>1 DEF Init, Channel!Init

LEMMA ChannelStep == IInv /\ [Next]_vars => [Channel!Next]_Channel!vars
<1> SUFFICES ASSUME IInv, [Next]_vars
             PROVE  [Channel!Next]_Channel!vars
    OBVIOUS
<1> DEFINE q == Contents(fifo)
           c == can_read(fifo)
<1>1. IsRing(fifo, Nat) /\ c \in Nat /\ fifo.nb_elems = nelem /\ nelem \in Nat
      /\ can_write(fifo) \in Nat /\ c + can_write(fifo) = nelem
    BY RingCounts, RingFields DEF IInv, TypeOK
<1>2. q \in Seq(Nat \cup {Junk}) /\ Len(q) = c
    BY <1>1, ContentsType
<1>3. ASSUME UNCHANGED <<fifo, sent, got, freed>>
      PROVE  UNCHANGED Channel!vars
    BY <1>3 DEF Channel!vars
<1>4. ASSUME NEW p \in Senders, SendWrites(p)
      PROVE  Channel!Put
    <2>1. sent \in Nat /\ sent' \in Nat /\ can_write(fifo) > 0
        BY <1>4 DEF SendWrites, IInv, TypeOK
    <2>2. Contents(fifo') = Append(q, sent')
        BY <1>4, <2>1, RingWrite DEF SendWrites
    <2>3. Len(q) < nelem
        BY <1>1, <1>2, <2>1
    <2> QED
        BY <1>4, <2>2, <2>3 DEF SendWrites, Channel!Put
<1>5. ASSUME NEW r \in Receivers, RecvReads(r)
      PROVE  Channel!Take
    <2>1. 1 \in 0 .. c /\ 1 \in 1 .. 1 /\ q # <<>> /\ q[1] = Head(q)
        BY <1>1, <1>2, <1>5 DEF RecvReads
    <2>2. /\ IsRing(fifo', Nat)
          /\ c = can_read(fifo') + 1 /\ can_read(fifo') \in Nat
          /\ \A i \in 1 .. can_read(fifo') : Contents(fifo')[i] = q[i + 1]
        BY <1>5, <2>1, RingDrain DEF RecvReads
    <2>3. Contents(fifo') \in Seq(Nat \cup {Junk}) /\ Len(Contents(fifo')) = can_read(fifo')
        BY <2>2, ContentsType
    <2>4. Contents(fifo') = Tail(q)
        <3> DEFINE t == Tail(q)
        <3>1. t \in Seq(Nat \cup {Junk}) /\ Len(t) = can_read(fifo')
              /\ \A i \in 1 .. can_read(fifo') : t[i] = q[i + 1]
            BY <1>2, <2>1, <2>2
        <3> HIDE DEF t
        <3>2. Contents(fifo') = t
            BY <2>2, <2>3, <3>1
        <3> QED
            BY <3>2 DEF t
    <2>5. peek(fifo, 1, 0)[1] = q[1]
        BY <2>1, RingPeek
    <2>6. got' = [got EXCEPT ![r] = Head(q)]
        BY <1>5, <2>1, <2>5 DEF RecvReads
    <2> QED
        BY <1>5, <2>1, <2>4, <2>6 DEF RecvReads, Channel!Take
<1>6. ASSUME flush
      PROVE  Channel!ThrowAway \/ UNCHANGED Channel!vars
    <2>1. CASE free_func
        <3>1. c \in 0 .. c
            BY <1>1
        <3>2. IsRing(fifo', Nat) /\ c = can_read(fifo') + c /\ can_read(fifo') \in Nat
            BY <1>6, <2>1, <3>1, RingDrain DEF flush
        <3>3. Contents(fifo') \in Seq(Nat \cup {Junk}) /\ Len(Contents(fifo')) = 0
            <4>1. can_read(fifo') = 0
                BY <1>1, <3>2
            <4> QED
                BY <3>2, <4>1, ContentsType
        <3>4. Contents(fifo') = <<>>
            BY <3>3
        <3>5. \A i \in 1 .. c : peek(fifo, c, 0)[i] = q[i]
            BY <3>1, RingPeek
        <3>6. freed' = freed \cup {peek(fifo, c, 0)[i] : i \in 1 .. c}
            BY <1>6, <2>1 DEF flush
        <3>7. freed' = freed \cup {q[i] : i \in 1 .. Len(q)}
            <4> HIDE DEF q, c
            <4> QED
                BY <1>2, <3>5, <3>6
        <3> QED
            BY <1>6, <3>4, <3>7 DEF flush, Channel!ThrowAway
    <2>2. CASE ~free_func
        BY <1>3, <1>6, <2>2 DEF flush
    <2> QED
        BY <2>1, <2>2
<1>7. ASSUME NEW p \in Senders, SendWait(p) \/ SendFails(p)
      PROVE  UNCHANGED <<fifo, sent, got, freed>>
    BY <1>7 DEF SendWait, SendFails
<1>8. ASSUME NEW r \in Receivers, RecvWait(r) \/ RecvFails(r)
      PROVE  UNCHANGED <<fifo, sent, got, freed>>
    BY <1>8 DEF RecvWait, RecvFails
<1>9. CASE set_err_send \/ set_err_recv
    BY <1>3, <1>9 DEF set_err_send, set_err_recv
<1>10. CASE WakesByItself /\ UNCHANGED <<fifo, err_send, err_recv, free_func, sent, got, freed>>
    BY <1>3, <1>10
<1>11. CASE UNCHANGED vars
    BY <1>3, <1>11 DEF vars
<1> QED
    BY <1>3, <1>4, <1>5, <1>6, <1>7, <1>8, <1>9, <1>10, <1>11 DEF Next, send, recv, Channel!Next

\* A message queue is a bounded channel: every message it accepts is received by
\* one thread, in the order of the calls, or freed by a flush, exactly once
\* (threadmessage.c on top of fifo.c).
THEOREM QueueImplementsChannel == Spec => ImplementsChannel
<1> QED
    BY InitInv, NextInv, ChannelInit, ChannelStep, PTL
    DEF Spec, ImplementsChannel, Channel!Spec
================================================================================
