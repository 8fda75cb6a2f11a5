------------------------ MODULE SchedulerProtocolProofs ------------------------
(***************************************************************************)
(* What the tasks of the scheduler promise each other, for every graph that *)
(* SchedulerGraphAssumption allows and every script: the types and bounds   *)
(* of all queues, who knows of the end of a stream, and that a decoder says *)
(* its end by a frame before it closes its stream.                          *)
(*                                                                          *)
(* Nearly every action rewrites todo[t], the rest of a sch_*() call.  The   *)
(* proofs do not look at the actions one by one but at what they do to it:  *)
(* Moves says that a task puts some operations before some of those it had, *)
(* and ActsKinds that every action is one of six kinds of such moves.  What *)
(* an action does to one variable is told apart from the rest by a lemma    *)
(* per variable (...Aside: who leaves it alone).                            *)
(*                                                                          *)
(* EndsInv says who knows that the sending side of a stream is finished:    *)
(* its task knows it or is about to note it, or init_eof keeps it from      *)
(* sending; an end in a pre-muxing queue is known to its sender; what is    *)
(* still to be sent goes to nothing that is closed before; a filtergraph    *)
(* has no frames for an output it has closed; and what sends without        *)
(* knowing an end is followed by nothing.  SchedulerProofs derives from it  *)
(* that nothing is sent after an end.                                       *)
(*                                                                          *)
(* That nb_mux_done never passes the number of muxers needs to know that a  *)
(* muxer is started at most once: ReadyInv says that the streams of an      *)
(* encoder are reported once and MuxInv that a muxer with a thread has all  *)
(* its streams, or is ended by sch_stop() when nobody is left to report.    *)
(*                                                                          *)
(* EndFrameComesFirst follows from EndFrameInv: a decoder that closes a     *)
(* stream, or is about to, has told the filtergraph the end by a frame; one *)
(* that has returned has told it or has that frame yet to send.             *)
(***************************************************************************)
EXTENDS Scheduler, SubsequenceProofs

--------------------------------------------------------------------------------
(* The graph. *)

EdgeRecords == [out : Nat, task : Consumers, in : Nat]

LEMMA DstIs ==
    ASSUME NEW t \in Tasks
    PROVE  /\ Dst[t] \in Seq(EdgeRecords)
           /\ Targets(t) \subseteq Edges
           /\ \A n \in Targets(t) : /\ n \in EdgeRecords
                                    /\ n.task \in Consumers
                                    /\ n.in \in Inputs(n.task)
                                    /\ n = [out |-> n.out, task |-> n.task, in |-> n.in]
           /\ \A j \in DOMAIN Dst[t] : Dst[t][j] \in Targets(t)
<1>1. Dst[t] \in Seq(EdgeRecords)
  BY SchedulerGraphAssumption DEF EdgeRecords
<1>2. \A j \in DOMAIN Dst[t] : Dst[t][j] \in Targets(t) /\ Dst[t][j] \in EdgeRecords
  BY <1>1 DEF Targets
<1>3. Targets(t) \subseteq Edges
  BY DEF Edges
<1>4. \A n \in Targets(t) : n \in EdgeRecords
  BY <1>2 DEF Targets
<1>5. \A n \in Targets(t) : n.in \in Inputs(n.task)
  BY SchedulerGraphAssumption
<1>6. \A n \in Targets(t) : n.task \in Consumers /\ n = [out |-> n.out, task |-> n.task, in |-> n.in]
  BY <1>4 DEF EdgeRecords
<1> QED BY <1>1, <1>2, <1>3, <1>4, <1>5, <1>6

LEMMA InputsAre ==
    ASSUME NEW c \in Consumers
    PROVE  NbInputs[c] \in Nat /\ Inputs(c) = 0 .. NbInputs[c] - 1 /\ Inputs(c) \subseteq Nat
BY SchedulerGraphAssumption DEF Inputs

\* Only one place of one task leads to an input.
LEMMA OneSource ==
    ASSUME NEW t \in Tasks, NEW u \in Tasks, NEW n \in Targets(t), NEW o \in Targets(u),
           n.task = o.task, n.in = o.in
    PROVE  t = u /\ n = o
<1>1. PICK j \in DOMAIN Dst[t] : Dst[t][j] = n
  BY DEF Targets
<1>2. PICK k \in DOMAIN Dst[u] : Dst[u][k] = o
  BY DEF Targets
<1>3. n.task \in Consumers /\ n.in \in Inputs(n.task)
  BY DstIs
<1>4. PICK v \in Tasks : \E l \in DOMAIN Dst[v] :
          \A w \in Tasks : \A i \in DOMAIN Dst[w] :
              Dst[w][i].task = n.task /\ Dst[w][i].in = n.in <=> w = v /\ i = l
  BY <1>3, SchedulerGraphAssumption
<1>5. PICK l \in DOMAIN Dst[v] :
          \A w \in Tasks : \A i \in DOMAIN Dst[w] :
              Dst[w][i].task = n.task /\ Dst[w][i].in = n.in <=> w = v /\ i = l
  BY <1>4
<1>6. t = v /\ j = l /\ u = v /\ k = l
  BY <1>1, <1>2, <1>5
<1> QED BY <1>1, <1>2, <1>6

LEMMA OnePlace ==
    ASSUME NEW t \in Tasks, NEW j \in DOMAIN Dst[t], NEW k \in DOMAIN Dst[t],
           Dst[t][j].task = Dst[t][k].task, Dst[t][j].in = Dst[t][k].in
    PROVE  j = k
<1> DEFINE n == Dst[t][j]
<1>1. n \in Targets(t)
  BY DEF Targets
<1>2. n.task \in Consumers /\ n.in \in Inputs(n.task)
  BY <1>1, DstIs
<1>3. PICK v \in Tasks : \E l \in DOMAIN Dst[v] :
          \A w \in Tasks : \A i \in DOMAIN Dst[w] :
              Dst[w][i].task = n.task /\ Dst[w][i].in = n.in <=> w = v /\ i = l
  BY <1>2, SchedulerGraphAssumption
<1>4. PICK l \in DOMAIN Dst[v] :
          \A w \in Tasks : \A i \in DOMAIN Dst[w] :
              Dst[w][i].task = n.task /\ Dst[w][i].in = n.in <=> w = v /\ i = l
  BY <1>3
<1>5. t = v /\ j = l
  BY <1>4
<1>6. t = v /\ k = l
  BY <1>4
<1> QED BY <1>5, <1>6

LEMMA MuxStreamsAre ==
    /\ \A m \in Muxers : \A i \in Inputs(m) : [task |-> m, in |-> i] \in MuxStreams
    /\ \A ms \in MuxStreams : /\ ms.task \in Muxers /\ ms.in \in Inputs(ms.task)
                              /\ ms = [task |-> ms.task, in |-> ms.in]
                              /\ MuxStream(ms) = ms
    /\ \A n \in Edges : n.task \in Muxers => MuxStream(n) \in MuxStreams
<1>1. ASSUME NEW m \in Muxers, NEW i \in Inputs(m) PROVE [task |-> m, in |-> i] \in MuxStreams
  <2>1. PICK u \in Tasks : \E j \in DOMAIN Dst[u] : Dst[u][j].task = m /\ Dst[u][j].in = i
    <3>1. m \in Consumers
      BY DEF Consumers
    <3>2. PICK v \in Tasks : \E k \in DOMAIN Dst[v] :
              \A w \in Tasks : \A h \in DOMAIN Dst[w] :
                  Dst[w][h].task = m /\ Dst[w][h].in = i <=> w = v /\ h = k
      BY <3>1, SchedulerGraphAssumption
    <3> QED BY <3>2
  <2>2. PICK j \in DOMAIN Dst[u] : Dst[u][j].task = m /\ Dst[u][j].in = i
    BY <2>1
  <2>3. Dst[u][j] \in Edges
    BY DstIs
  <2> QED BY <2>2, <2>3 DEF MuxStreams
<1>2. ASSUME NEW ms \in MuxStreams
      PROVE  /\ ms.task \in Muxers /\ ms.in \in Inputs(ms.task)
             /\ ms = [task |-> ms.task, in |-> ms.in]
             /\ MuxStream(ms) = ms
  <2>1. PICK n \in Edges : n.task \in Muxers /\ ms = [task |-> n.task, in |-> n.in]
    BY DEF MuxStreams
  <2>2. n.in \in Inputs(n.task)
    BY DstIs DEF Edges
  <2> QED BY <2>1, <2>2 DEF MuxStream
<1>3. ASSUME NEW n \in Edges, n.task \in Muxers PROVE MuxStream(n) \in MuxStreams
  BY <1>3 DEF MuxStream, MuxStreams
<1> QED BY <1>1, <1>2, <1>3

LEMMA KindsDiffer ==
    /\ Filters \cap Decoders = {} /\ Filters \cap Encoders = {} /\ Filters \cap Muxers = {}
    /\ Filters \cap Demuxers = {} /\ Decoders \cap Encoders = {} /\ Decoders \cap Muxers = {}
    /\ Encoders \cap Muxers = {} /\ Demuxers \cap Muxers = {} /\ Demuxers \cap Encoders = {}
    /\ Demuxers \cap Decoders = {}
<1>1. \A i, j \in 1 .. 5 : i # j => Kinds[i] \cap Kinds[j] = {}
  BY SchedulerGraphAssumption DEF Kinds
<1>2. Kinds[1] = Demuxers /\ Kinds[2] = Filters /\ Kinds[3] = Decoders /\ Kinds[4] = Encoders
        /\ Kinds[5] = Muxers
  BY DEF Kinds
<1>3. /\ Kinds[2] \cap Kinds[3] = {} /\ Kinds[2] \cap Kinds[4] = {} /\ Kinds[2] \cap Kinds[5] = {}
      /\ Kinds[2] \cap Kinds[1] = {} /\ Kinds[3] \cap Kinds[4] = {} /\ Kinds[3] \cap Kinds[5] = {}
      /\ Kinds[4] \cap Kinds[5] = {} /\ Kinds[1] \cap Kinds[5] = {} /\ Kinds[1] \cap Kinds[4] = {}
      /\ Kinds[1] \cap Kinds[3] = {}
  BY <1>1
<1> QED BY <1>2, <1>3

\* What sends to what.
LEMMA TargetKinds ==
    ASSUME NEW t \in Tasks, NEW n \in Targets(t)
    PROVE  /\ t \notin Muxers
           /\ t \in Demuxers => n.task \in Decoders \cup Muxers
           /\ t \in Decoders => n.task \in Filters
           /\ t \in Encoders => n.task \in Muxers
           /\ t \in Filters => n.task \in Filters \cup Encoders
<1>1. t \in Muxers => Targets(t) = {}
  BY SchedulerGraphAssumption DEF Targets
<1> QED BY <1>1, SchedulerGraphAssumption

--------------------------------------------------------------------------------
(* What a task has yet to do inside a sch_*() call. *)

Items == [in : Nat, k : Int]
Places == Edges \cup MuxStreams \cup FilterInputs \cup Items \cup Tasks
OpNames == {"send", "finish", "init", "ready", "update", "flush", "await", "hangup", "close",
            "choke_inputs", "no_end_ts", "exit", "count"}
Ops == [op : OpNames, to : Places, k : Int]

OpOK(t, o) ==
    /\ o.op \in {"send", "init", "finish"} => o.to \in Targets(t)
    /\ o.op = "send" => (o.to.task \in Encoders \cup Muxers => o.k # 0)
    /\ o.op \in {"flush", "await"} => o.to \in Targets(t) /\ o.to.task \in Decoders
    /\ o.op = "ready" => t \in Filters /\ o.to \in Edges /\ o.to.task \in Muxers
    /\ o.op = "update" => MuxStream(o.to) \in MuxStreams
    /\ o.op = "close" => t \in Filters /\ o.to.in \in Inputs(t)
                           /\ o.to = [task |-> t, in |-> o.to.in]
    /\ o.op = "hangup" => t \in Muxers /\ o.to \in MuxStreams /\ o.to.task = t
    /\ o.op = "exit" => t \in Sources
    /\ t \in Muxers => o.op \in {"hangup", "update", "count"}

TodoType ==
    /\ todo \in [Tasks -> Seq(Ops)]
    /\ \A t \in Tasks : \A j \in DOMAIN todo[t] : OpOK(t, todo[t][j])

\* From place n + 1 on the entries of q are some of those of s at I, in order.
Follows(q, n, s, I) ==
    \E at \in [n + 1 .. Len(q) -> I] :
        /\ \A k \in n + 1 .. Len(q) : q[k] = s[at[k]]
        /\ \A k, l \in n + 1 .. Len(q) : k < l => at[k] < at[l]

\* Task t puts n operations before what it leaves of those it had at I.
Moves(t, n, I) ==
    /\ todo' = [todo EXCEPT ![t] = todo'[t]]
    /\ todo'[t] \in Seq(Ops)
    /\ n \in 0 .. Len(todo'[t])
    /\ Follows(todo'[t], n, todo[t], I)
    /\ \A j \in 1 .. n : OpOK(t, todo'[t][j])

LEMMA MovesKeepType ==
    ASSUME TodoType, NEW t \in Tasks, NEW n, NEW I \in SUBSET DOMAIN todo[t], Moves(t, n, I)
    PROVE  TodoType'
<1>1. todo' \in [Tasks -> Seq(Ops)]
  BY DEF Moves, TodoType
<1>2. ASSUME NEW u \in Tasks, NEW j \in DOMAIN todo'[u] PROVE OpOK(u, todo'[u][j])
  <2>1. CASE u # t
    BY <2>1 DEF Moves, TodoType
  <2>2. CASE u = t
    <3>1. j \in 1 .. Len(todo'[t]) /\ n \in Nat /\ Len(todo'[t]) \in Nat
      BY <2>2 DEF Moves
    <3>2. CASE j \in 1 .. n
      BY <2>2, <3>2 DEF Moves
    <3>3. CASE j \in n + 1 .. Len(todo'[t])
      <4>1. PICK at \in [n + 1 .. Len(todo'[t]) -> I] : todo'[t][j] = todo[t][at[j]]
        BY <3>3 DEF Moves, Follows
      <4>2. at[j] \in DOMAIN todo[t]
        BY <3>3, <4>1
      <4> QED BY <2>2, <4>1, <4>2 DEF TodoType
    <3> QED BY <3>1, <3>2, <3>3
  <2> QED BY <2>1, <2>2
<1> QED BY <1>1, <1>2 DEF TodoType

\* The head of what t has to do, and the rest.
LEMMA HeadIs ==
    ASSUME TodoType, NEW t \in Tasks, NEW op, At(t, op)
    PROVE  /\ todo[t] \in Seq(Ops) /\ Len(todo[t]) \in Nat /\ Len(todo[t]) > 0
           /\ 1 \in DOMAIN todo[t] /\ todo[t][1] \in Ops /\ OpOK(t, todo[t][1])
           /\ todo[t][1].op = op /\ To(t) = todo[t][1].to /\ Item(t) = todo[t][1].k
           /\ To(t) \in Places /\ Item(t) \in Int
           /\ Tail(todo[t]) \in Seq(Ops)
<1>1. todo[t] \in Seq(Ops) /\ todo[t] # <<>> /\ Head(todo[t]).op = op
  BY DEF TodoType, At
<1>2. Len(todo[t]) \in Nat /\ Len(todo[t]) > 0 /\ 1 \in DOMAIN todo[t] /\ Head(todo[t]) = todo[t][1]
        /\ todo[t][1] \in Ops /\ Tail(todo[t]) \in Seq(Ops)
  BY <1>1
<1>3. OpOK(t, todo[t][1])
  BY <1>2 DEF TodoType
<1>4. todo[t][1].to \in Places /\ todo[t][1].k \in Int
  BY <1>2 DEF Ops
<1> QED BY <1>1, <1>2, <1>3, <1>4 DEF To, Item

\* What the operation to be done next is about.
LEMMA NextOp ==
    ASSUME TodoType, NEW t \in Tasks
    PROVE  /\ At(t, "send") \/ At(t, "init") \/ At(t, "finish") =>
                 To(t) \in Targets(t) /\ t \notin Muxers
           /\ At(t, "send") /\ To(t).task \in Encoders \cup Muxers => Item(t) # 0
           /\ At(t, "flush") \/ At(t, "await") => To(t) \in Targets(t) /\ To(t).task \in Decoders
           /\ At(t, "ready") => t \in Filters /\ To(t) \in Edges /\ To(t).task \in Muxers
           /\ At(t, "update") => MuxStream(To(t)) \in MuxStreams
           /\ At(t, "close") => t \in Filters /\ To(t).in \in Inputs(t)
                                  /\ To(t) = [task |-> t, in |-> To(t).in]
           /\ At(t, "hangup") => t \in Muxers /\ To(t) \in MuxStreams /\ To(t).task = t
           /\ At(t, "exit") => t \in Sources
<1> DEFINE o == todo[t][1]
<1>1. \A op : At(t, op) => OpOK(t, o) /\ o.op = op /\ To(t) = o.to /\ Item(t) = o.k
  BY HeadIs
<1> HIDE DEF o
<1>2. \A n \in Targets(t) : t \notin Muxers
  BY TargetKinds
<1>3. At(t, "send") \/ At(t, "init") \/ At(t, "finish") => To(t) \in Targets(t) /\ t \notin Muxers
  BY <1>1, <1>2 DEF OpOK
<1>4. At(t, "send") /\ To(t).task \in Encoders \cup Muxers => Item(t) # 0
  BY <1>1 DEF OpOK
<1>5. At(t, "flush") \/ At(t, "await") => To(t) \in Targets(t) /\ To(t).task \in Decoders
  BY <1>1 DEF OpOK
<1>6. At(t, "ready") => t \in Filters /\ To(t) \in Edges /\ To(t).task \in Muxers
  BY <1>1 DEF OpOK
<1>7. At(t, "update") => MuxStream(To(t)) \in MuxStreams
  BY <1>1 DEF OpOK
<1>8. At(t, "close") => t \in Filters /\ To(t).in \in Inputs(t) /\ To(t) = [task |-> t, in |-> To(t).in]
  BY <1>1 DEF OpOK
<1>9. At(t, "hangup") => t \in Muxers /\ To(t) \in MuxStreams /\ To(t).task = t
  BY <1>1 DEF OpOK
<1>10. At(t, "exit") => t \in Sources
  BY <1>1 DEF OpOK
<1> QED BY <1>3, <1>4, <1>5, <1>6, <1>7, <1>8, <1>9, <1>10

\* After some operations, the rest of those it had.
LEMMA MovesOn ==
    ASSUME TodoType, NEW t \in Tasks, todo[t] # <<>>, NEW pre \in Seq(Ops),
           \A j \in DOMAIN pre : OpOK(t, pre[j]),
           todo' = [todo EXCEPT ![t] = pre \o Tail(@)]
    PROVE  /\ Moves(t, Len(pre), 2 .. Len(todo[t]))
           /\ \A j \in 1 .. Len(pre) : todo'[t][j] = pre[j]
<1> DEFINE q == todo'[t]
           at == [k \in Len(pre) + 1 .. Len(q) |-> k - Len(pre) + 1]
<1>1. todo[t] \in Seq(Ops) /\ Tail(todo[t]) \in Seq(Ops) /\ Len(Tail(todo[t])) = Len(todo[t]) - 1
        /\ Len(pre) \in Nat /\ Len(todo[t]) \in Nat
  BY DEF TodoType
<1>2. q = pre \o Tail(todo[t]) /\ todo' = [todo EXCEPT ![t] = q]
  BY DEF TodoType
<1>3. q \in Seq(Ops) /\ Len(q) = Len(pre) + Len(todo[t]) - 1
  BY <1>1, <1>2
<1>4. \A j \in 1 .. Len(pre) : q[j] = pre[j]
  BY <1>1, <1>2
<1>5. \A k \in Len(pre) + 1 .. Len(q) : q[k] = todo[t][k - Len(pre) + 1]
  <2> SUFFICES ASSUME NEW k \in Len(pre) + 1 .. Len(q) PROVE q[k] = todo[t][k - Len(pre) + 1]
    OBVIOUS
  <2>1. k - Len(pre) \in 1 .. Len(Tail(todo[t]))
    BY <1>1, <1>3
  <2>2. q[k] = Tail(todo[t])[k - Len(pre)]
    BY <1>1, <1>2, <2>1
  <2> QED BY <1>1, <2>1, <2>2
<1>6. Follows(q, Len(pre), todo[t], 2 .. Len(todo[t]))
  <2>1. at \in [Len(pre) + 1 .. Len(q) -> 2 .. Len(todo[t])]
    BY <1>1, <1>3
  <2>2. \A k, l \in Len(pre) + 1 .. Len(q) : k < l => at[k] < at[l]
    BY <1>1
  <2>3. \A k \in Len(pre) + 1 .. Len(q) : q[k] = todo[t][at[k]]
    BY <1>5
  <2> HIDE DEF q, at
  <2> QED BY <2>1, <2>2, <2>3 DEF Follows
<1>7. Len(pre) \in 0 .. Len(q)
  BY <1>1, <1>3
<1> QED BY <1>2, <1>3, <1>4, <1>6, <1>7 DEF Moves

\* It has nothing else to do than these operations.
LEMMA MovesTo ==
    ASSUME TodoType, NEW t \in Tasks, NEW q \in Seq(Ops), \A j \in DOMAIN q : OpOK(t, q[j]),
           todo' = [todo EXCEPT ![t] = q]
    PROVE  Moves(t, Len(q), {}) /\ todo'[t] = q
<1>1. todo'[t] = q
  BY DEF TodoType
<1>2. Follows(q, Len(q), todo[t], {})
  <2>1. Len(q) + 1 .. Len(q) = {}
    OBVIOUS
  <2>2. [k \in {} |-> k] \in [{} -> {}]
    OBVIOUS
  <2> QED BY <2>1, <2>2 DEF Follows
<1>3. Len(q) \in 0 .. Len(q)
  OBVIOUS
<1>4. \A j \in 1 .. Len(q) : OpOK(t, todo'[t][j])
  BY <1>1
<1>5. todo' = [todo EXCEPT ![t] = todo'[t]]
  BY <1>1
<1>6. todo'[t] \in Seq(Ops) /\ Len(todo'[t]) = Len(q)
  BY <1>1
<1>7. Follows(todo'[t], Len(q), todo[t], {})
  BY <1>1, <1>2
<1> QED BY <1>1, <1>3, <1>4, <1>5, <1>6, <1>7 DEF Moves

LEMMA MovesPast ==
    ASSUME TodoType, NEW t \in Tasks, todo[t] # <<>>, Proceed(t)
    PROVE  Moves(t, 0, 2 .. Len(todo[t]))
<1>1. todo' = [todo EXCEPT ![t] = <<>> \o Tail(@)]
  BY DEF Proceed, TodoType
<1>2. <<>> \in Seq(Ops) /\ Len(<<>>) = 0 /\ DOMAIN <<>> = {}
  OBVIOUS
<1> QED BY <1>1, <1>2, MovesOn

\* Some operations first.
LEMMA MovesBefore ==
    ASSUME TodoType, NEW t \in Tasks, NEW pre \in Seq(Ops),
           \A j \in DOMAIN pre : OpOK(t, pre[j]),
           todo' = [todo EXCEPT ![t] = pre \o @]
    PROVE  /\ Moves(t, Len(pre), DOMAIN todo[t])
           /\ \A j \in 1 .. Len(pre) : todo'[t][j] = pre[j]
<1> DEFINE q == todo'[t]
           at == [k \in Len(pre) + 1 .. Len(q) |-> k - Len(pre)]
<1>1. todo[t] \in Seq(Ops) /\ Len(pre) \in Nat /\ Len(todo[t]) \in Nat
        /\ DOMAIN todo[t] = 1 .. Len(todo[t])
  BY DEF TodoType
<1>2. q = pre \o todo[t] /\ todo' = [todo EXCEPT ![t] = q]
  BY DEF TodoType
<1>3. q \in Seq(Ops) /\ Len(q) = Len(pre) + Len(todo[t])
  BY <1>1, <1>2
<1>4. \A j \in 1 .. Len(pre) : q[j] = pre[j]
  BY <1>1, <1>2
<1>5. \A k \in Len(pre) + 1 .. Len(q) : q[k] = todo[t][k - Len(pre)]
  <2> SUFFICES ASSUME NEW k \in Len(pre) + 1 .. Len(q) PROVE q[k] = todo[t][k - Len(pre)]
    OBVIOUS
  <2>1. k - Len(pre) \in 1 .. Len(todo[t])
    BY <1>1, <1>3
  <2> QED BY <1>1, <1>2, <2>1
<1>6. Follows(q, Len(pre), todo[t], DOMAIN todo[t])
  <2>1. at \in [Len(pre) + 1 .. Len(q) -> DOMAIN todo[t]]
    BY <1>1, <1>3
  <2>2. \A k, l \in Len(pre) + 1 .. Len(q) : k < l => at[k] < at[l]
    BY <1>1
  <2>3. \A k \in Len(pre) + 1 .. Len(q) : q[k] = todo[t][at[k]]
    BY <1>5
  <2> HIDE DEF q, at
  <2> QED BY <2>1, <2>2, <2>3 DEF Follows
<1>7. Len(pre) \in 0 .. Len(q)
  BY <1>1, <1>3
<1> QED BY <1>2, <1>3, <1>4, <1>6, <1>7 DEF Moves

\* The operation x, then some of those it had.
LEMMA MovesApart ==
    ASSUME TodoType, NEW t \in Tasks, NEW I \in SUBSET DOMAIN todo[t], NEW x \in Ops, OpOK(t, x),
           todo' = [todo EXCEPT ![t] = <<x>> \o Subsequence(todo[t], I)]
    PROVE  Moves(t, 1, I) /\ todo'[t][1] = x
<1> DEFINE s == todo[t]
           r == Subsequence(s, I)
           q == todo'[t]
<1>1. s \in Seq(Ops)
  BY DEF TodoType
<1>2. PICK at : Picks(at, r, s, I)
  BY <1>1, SubsequenceIs
<1>3. r \in Seq(Ops) /\ Len(r) = Cardinality(I)
  BY <1>1, SubsequenceIs
<1>4. q = <<x>> \o r /\ todo' = [todo EXCEPT ![t] = q]
  BY DEF TodoType
<1> HIDE DEF s, r, q
<1>5. q \in Seq(Ops) /\ Len(q) = Len(r) + 1 /\ Len(r) \in Nat /\ q[1] = x
  BY <1>3, <1>4
<1>6. \A k \in 2 .. Len(q) : k - 1 \in 1 .. Len(r) /\ q[k] = r[k - 1]
  BY <1>3, <1>4, <1>5
<1> DEFINE by == [k \in 2 .. Len(q) |-> at[k - 1]]
<1>7. by \in [2 .. Len(q) -> I]
  BY <1>2, <1>3, <1>6 DEF Picks
<1>8. \A k \in 2 .. Len(q) : q[k] = s[by[k]]
  BY <1>2, <1>3, <1>6 DEF Picks
<1>9. \A k, l \in 2 .. Len(q) : k < l => by[k] < by[l]
  <2> SUFFICES ASSUME NEW k \in 2 .. Len(q), NEW l \in 2 .. Len(q), k < l PROVE at[k - 1] < at[l - 1]
    OBVIOUS
  <2>1. k - 1 \in 1 .. Cardinality(I) /\ l - 1 \in 1 .. Cardinality(I) /\ k - 1 < l - 1
    BY <1>3, <1>6
  <2> QED BY <1>2, <2>1 DEF Picks
<1>10. Follows(q, 1, s, I)
  <2> HIDE DEF by
  <2> QED BY <1>7, <1>8, <1>9 DEF Follows
<1>11. Moves(t, 1, I) /\ q[1] = x
  BY <1>4, <1>5, <1>10 DEF Moves, q, s
<1> QED BY <1>11 DEF s, q

LEMMA DstWithIs ==
    ASSUME NEW t \in Tasks, NEW N
    PROVE  /\ DstWith(t, N) \in Seq(EdgeRecords)
           /\ \A j \in DOMAIN DstWith(t, N) : DstWith(t, N)[j] \in N \cap Targets(t)
<1> DEFINE I == {j \in DOMAIN Dst[t] : Dst[t][j] \in N}
           r == Subsequence(Dst[t], I)
<1>1. Dst[t] \in Seq(EdgeRecords)
  BY DstIs
<1>2. r \in Seq(EdgeRecords) /\ Len(r) = Cardinality(I)
  BY <1>1, SubsequenceIs
<1>3. PICK at : Picks(at, r, Dst[t], I)
  BY <1>1, SubsequenceIs
<1>4. \A j \in DOMAIN r : r[j] \in N \cap Targets(t)
  <2> HIDE DEF r
  <2>1. DOMAIN r = 1 .. Cardinality(I)
    BY <1>2
  <2>2. \A j \in DOMAIN r : at[j] \in I /\ r[j] = Dst[t][at[j]]
    BY <1>3, <2>1 DEF Picks
  <2> QED BY <2>2, DstIs
<1> QED BY <1>2, <1>4 DEF DstWith

\* One operation for each of some destinations.
LEMMA ForEachIs ==
    ASSUME NEW t \in Tasks, NEW N, NEW op \in OpNames, NEW k \in Int
    PROVE  LET q == ForEach(DstWith(t, N), op, k) IN
           /\ q \in Seq(Ops)
           /\ \A j \in DOMAIN q : /\ q[j].op = op /\ q[j].to \in N \cap Targets(t) /\ q[j].k = k
                                  /\ q[j] = [op |-> op, to |-> q[j].to, k |-> k]
<1> DEFINE d == DstWith(t, N)
           q == ForEach(d, op, k)
<1>1. d \in Seq(EdgeRecords) /\ \A j \in DOMAIN d : d[j] \in N \cap Targets(t)
  BY DstWithIs
<1> HIDE DEF d
<1>2. \A j \in DOMAIN d : d[j] \in Places
  BY <1>1, DstIs DEF Places
<1>3. q = [j \in DOMAIN d |-> [op |-> op, to |-> d[j], k |-> k]]
  BY DEF ForEach, Op
<1>4. DOMAIN d = 1 .. Len(d) /\ Len(d) \in Nat
  BY <1>1
<1>5. q \in [1 .. Len(d) -> Ops]
  BY <1>2, <1>3, <1>4 DEF Ops
<1>6. q \in Seq(Ops) /\ DOMAIN q = DOMAIN d
  <2> HIDE DEF q
  <2>1. DOMAIN q = 1 .. Len(d)
    BY <1>5
  <2> QED BY <1>4, <1>5, <2>1
<1>7. \A j \in DOMAIN q : /\ q[j].op = op /\ q[j].to \in N \cap Targets(t) /\ q[j].k = k
                           /\ q[j] = [op |-> op, to |-> q[j].to, k |-> k]
  BY <1>1, <1>3, <1>6
<1> QED BY <1>6, <1>7 DEF d

--------------------------------------------------------------------------------
(* What the queues hold. *)

QueueType ==
    /\ queue \in [Consumers -> Seq(Items)]
    /\ \A c \in Consumers : \A j \in DOMAIN queue[c] :
          /\ queue[c][j].in \in Inputs(c)
          /\ c \in Encoders => queue[c][j].k # 0

QueueBound ==
    \A c \in Consumers : \A i \in QueueStreams(c) : Cardinality(Queued(c, i)) \in 0 .. QueueSize

QueueInv == QueueType /\ QueueBound

Of(s, i) == {j \in DOMAIN s : s[j].in = i}

LEMMA OfFinite ==
    ASSUME NEW s \in Seq(Items), NEW i
    PROVE  IsFiniteSet(Of(s, i)) /\ Cardinality(Of(s, i)) \in Nat
<1>1. Of(s, i) \in SUBSET (1 .. Len(s)) /\ Len(s) \in Nat
  BY DEF Of
<1> QED BY <1>1, UpTo

LEMMA OfAppend ==
    ASSUME NEW s \in Seq(Items), NEW x \in Items, NEW i
    PROVE  Cardinality(Of(Append(s, x), i))
             = Cardinality(Of(s, i)) + (IF x.in = i THEN 1 ELSE 0)
<1> DEFINE e == Len(s) + 1
           a == Append(s, x)
<1>1. DOMAIN a = 1 .. e /\ DOMAIN s = 1 .. Len(s) /\ Len(s) \in Nat /\ a[e] = x
        /\ \A j \in 1 .. Len(s) : a[j] = s[j]
  OBVIOUS
<1> HIDE DEF a
<1>2. x.in = i => Of(a, i) = Of(s, i) \cup {e}
  BY <1>1 DEF Of
<1>3. x.in # i => Of(a, i) = Of(s, i)
  BY <1>1 DEF Of
<1>4. e \notin Of(s, i)
  BY <1>1 DEF Of
<1>5. IsFiniteSet(Of(s, i)) /\ Cardinality(Of(s, i)) \in Nat
  BY OfFinite
<1>6. Cardinality(Of(s, i) \cup {e}) = Cardinality(Of(s, i)) + 1
  BY <1>4, <1>5, FS_AddElement
<1>7. Cardinality(Of(a, i)) = Cardinality(Of(s, i)) + (IF x.in = i THEN 1 ELSE 0)
  <2>1. CASE x.in = i
    BY <1>2, <1>6, <2>1
  <2>2. CASE x.in # i
    BY <1>3, <1>5, <2>2
  <2> QED BY <2>1, <2>2
<1> QED BY <1>7 DEF a

\* A sequence whose entries come, each from another place, from s.
LEMMA OfFewer ==
    ASSUME NEW s \in Seq(Items), NEW r \in Seq(Items), NEW i,
           NEW at \in [1 .. Len(r) -> DOMAIN s],
           \A k \in 1 .. Len(r) : r[k] = s[at[k]],
           \A k, l \in 1 .. Len(r) : k < l => at[k] < at[l]
    PROVE  Cardinality(Of(r, i)) <= Cardinality(Of(s, i))
<1> DEFINE f == [k \in Of(r, i) |-> at[k]]
<1>1. Of(r, i) \subseteq 1 .. Len(r)
  BY DEF Of
<1>2. \A k \in Of(r, i) : at[k] \in Of(s, i)
  BY <1>1 DEF Of
<1>3. f \in [Of(r, i) -> Of(s, i)]
  BY <1>2
<1>4. ASSUME NEW k \in Of(r, i), NEW l \in Of(r, i), k # l PROVE at[k] # at[l]
  <2>1. k \in 1 .. Len(r) /\ l \in 1 .. Len(r) /\ at[k] \in Nat /\ at[l] \in Nat
    BY <1>1
  <2>2. CASE k < l
    BY <2>1, <2>2
  <2>3. CASE l < k
    BY <2>1, <2>3
  <2> QED BY <1>4, <2>1, <2>2, <2>3
<1>5. f \in Injection(Of(r, i), Of(s, i))
  BY <1>3, <1>4 DEF Injection, IsInjective
<1>6. IsFiniteSet(Of(s, i))
  BY OfFinite
<1> HIDE DEF f
<1> QED BY <1>5, <1>6, FS_Injection

LEMMA OfTail ==
    ASSUME NEW s \in Seq(Items), s # <<>>, NEW i
    PROVE  Cardinality(Of(Tail(s), i)) <= Cardinality(Of(s, i))
<1> DEFINE r == Tail(s)
           at == [k \in 1 .. Len(r) |-> k + 1]
<1>1. r \in Seq(Items) /\ Len(r) = Len(s) - 1 /\ Len(s) \in Nat /\ DOMAIN s = 1 .. Len(s)
        /\ \A k \in 1 .. Len(r) : r[k] = s[k + 1]
  OBVIOUS
<1> HIDE DEF r
<1>2. at \in [1 .. Len(r) -> DOMAIN s]
  BY <1>1
<1>3. \A k \in 1 .. Len(r) : r[k] = s[at[k]]
  BY <1>1
<1>4. \A k, l \in 1 .. Len(r) : k < l => at[k] < at[l]
  OBVIOUS
<1> HIDE DEF at
<1>5. Cardinality(Of(r, i)) <= Cardinality(Of(s, i))
  BY <1>1, <1>2, <1>3, <1>4, OfFewer
<1> QED BY <1>5 DEF r

LEMMA OfSubsequence ==
    ASSUME NEW s \in Seq(Items), NEW I \in SUBSET DOMAIN s, NEW i
    PROVE  /\ Cardinality(Of(Subsequence(s, I), i)) <= Cardinality(Of(s, i))
           /\ Subsequence(s, I) \in Seq(Items)
           /\ \A k \in DOMAIN Subsequence(s, I) : \E j \in I : Subsequence(s, I)[k] = s[j]
<1> DEFINE r == Subsequence(s, I)
<1>1. r \in Seq(Items) /\ Len(r) = Cardinality(I)
  BY SubsequenceIs
<1>2. PICK at : Picks(at, r, s, I)
  BY SubsequenceIs
<1> HIDE DEF r
<1>3. at \in [1 .. Len(r) -> DOMAIN s]
  BY <1>1, <1>2 DEF Picks
<1>4. \A k \in 1 .. Len(r) : r[k] = s[at[k]] /\ at[k] \in I
  BY <1>1, <1>2 DEF Picks
<1>5. \A k, l \in 1 .. Len(r) : k < l => at[k] < at[l]
  BY <1>1, <1>2 DEF Picks
<1>6. Cardinality(Of(r, i)) <= Cardinality(Of(s, i))
  BY <1>1, <1>3, <1>4, <1>5, OfFewer
<1>7. DOMAIN r = 1 .. Len(r)
  BY <1>1
<1> QED BY <1>1, <1>4, <1>6, <1>7 DEF r

LEMMA StreamsAreNat ==
    ASSUME NEW c \in Consumers
    PROVE  QueueStreams(c) \subseteq Nat /\ Inputs(c) \subseteq QueueStreams(c)
             /\ (c \in Filters => NbInputs[c] \in QueueStreams(c) /\ NbInputs[c] \notin Inputs(c))
BY InputsAre DEF QueueStreams

Enters(c, i, k) ==
    /\ c \in Consumers /\ i \in Inputs(c) /\ k \in Int /\ (c \in Encoders => k # 0)
    /\ Room(c, i)
    /\ queue' = [queue EXCEPT ![c] = Append(@, [in |-> i, k |-> k])]

Leaves(c) == c \in Consumers /\ queue[c] # <<>> /\ queue' = [queue EXCEPT ![c] = Tail(@)]

Drops(c) == \E S : HangUp(c, S)

\* The item a task takes.
LEMMA HeadItem ==
    ASSUME QueueInv, NEW c \in Consumers, queue[c] # <<>>
    PROVE  /\ Head(queue[c]) \in Items /\ Head(queue[c]).in \in Inputs(c)
           /\ c \in Encoders => Head(queue[c]).k # 0
<1>1. queue[c] \in Seq(Items)
  BY DEF QueueInv, QueueType
<1>2. 1 \in DOMAIN queue[c] /\ Head(queue[c]) = queue[c][1] /\ Head(queue[c]) \in Items
  BY <1>1
<1> QED BY <1>2 DEF QueueInv, QueueType

LEMMA EntersKeeps ==
    ASSUME QueueInv, NEW c, NEW i, NEW k, Enters(c, i, k)
    PROVE  QueueInv'
<1> DEFINE x == [in |-> i, k |-> k]
<1>1. /\ c \in Consumers /\ i \in Inputs(c) /\ k \in Int /\ (c \in Encoders => k # 0)
      /\ Room(c, i) /\ i \in Nat /\ x \in Items /\ queue[c] \in Seq(Items)
  BY InputsAre DEF Enters, QueueInv, QueueType, Items
<1>2. /\ queue'[c] = Append(queue[c], x)
      /\ \A d \in Consumers : d # c => queue'[d] = queue[d]
      /\ queue' \in [Consumers -> Seq(Items)]
  <2>1. Append(queue[c], x) \in Seq(Items)
    BY <1>1
  <2> QED BY <1>1, <2>1 DEF Enters, QueueInv, QueueType
<1>3. ASSUME NEW d \in Consumers, NEW j \in DOMAIN queue'[d]
      PROVE  queue'[d][j].in \in Inputs(d) /\ (d \in Encoders => queue'[d][j].k # 0)
  <2>1. CASE d # c
    BY <1>2, <1>3, <2>1 DEF QueueInv, QueueType
  <2>2. CASE d = c
    <3>1. j \in DOMAIN queue[c] \/ j = Len(queue[c]) + 1
      BY <1>1, <1>2, <2>2
    <3>2. CASE j \in DOMAIN queue[c]
      <4>1. queue'[c][j] = queue[c][j]
        BY <1>1, <1>2, <3>2
      <4> QED BY <2>2, <3>2, <4>1 DEF QueueInv, QueueType
    <3>3. CASE j = Len(queue[c]) + 1
      <4>1. queue'[c][j] = x
        BY <1>1, <1>2, <3>3
      <4> QED BY <1>1, <2>2, <4>1
    <3> QED BY <3>1, <3>2, <3>3
  <2> QED BY <2>1, <2>2
<1>4. ASSUME NEW d \in Consumers, NEW h \in QueueStreams(d)
      PROVE  Cardinality(Of(queue'[d], h)) \in 0 .. QueueSize
  <2>1. Cardinality(Of(queue[d], h)) \in 0 .. QueueSize
    BY DEF QueueInv, QueueBound, Queued, Of
  <2>2. CASE d # c
    BY <1>2, <2>1, <2>2
  <2>3. CASE d = c
    <3>1. Cardinality(Of(queue'[c], h)) = Cardinality(Of(queue[c], h)) + (IF i = h THEN 1 ELSE 0)
      BY <1>1, <1>2, OfAppend
    <3>2. Cardinality(Of(queue[c], i)) < QueueSize
      BY <1>1 DEF Room, Queued, Of
    <3> QED BY <2>1, <2>3, <3>1, <3>2, SchedulerAssumption
  <2> QED BY <2>2, <2>3
<1> QED BY <1>2, <1>3, <1>4 DEF QueueInv, QueueType, QueueBound, Queued, Of

\* Of some of the items in their order.
LEMMA FewerKeeps ==
    ASSUME QueueInv, NEW c \in Consumers, NEW q \in Seq(Items),
           queue' = [queue EXCEPT ![c] = q],
           \A k \in DOMAIN q : \E j \in DOMAIN queue[c] : q[k] = queue[c][j],
           \A i : Cardinality(Of(q, i)) <= Cardinality(Of(queue[c], i))
    PROVE  QueueInv'
<1>1. /\ queue'[c] = q
      /\ \A d \in Consumers : d # c => queue'[d] = queue[d]
      /\ queue' \in [Consumers -> Seq(Items)]
  BY DEF QueueInv, QueueType
<1>2. ASSUME NEW d \in Consumers, NEW j \in DOMAIN queue'[d]
      PROVE  queue'[d][j].in \in Inputs(d) /\ (d \in Encoders => queue'[d][j].k # 0)
  BY <1>1, <1>2 DEF QueueInv, QueueType
<1>3. ASSUME NEW d \in Consumers, NEW h \in QueueStreams(d)
      PROVE  Cardinality(Of(queue'[d], h)) \in 0 .. QueueSize
  <2>1. Cardinality(Of(queue[d], h)) \in 0 .. QueueSize
    BY DEF QueueInv, QueueBound, Queued, Of
  <2>2. Cardinality(Of(queue'[d], h)) <= Cardinality(Of(queue[d], h))
    BY <1>1, <2>1
  <2>3. Cardinality(Of(queue'[d], h)) \in Nat
    BY <1>1, OfFinite
  <2> QED BY <2>1, <2>2, <2>3, SchedulerAssumption
<1> QED BY <1>1, <1>2, <1>3 DEF QueueInv, QueueType, QueueBound, Queued, Of

LEMMA LeavesKeeps ==
    ASSUME QueueInv, NEW c, Leaves(c)
    PROVE  QueueInv'
<1> DEFINE q == Tail(queue[c])
<1>1. c \in Consumers /\ queue[c] \in Seq(Items) /\ queue[c] # <<>>
        /\ queue' = [queue EXCEPT ![c] = q]
  BY DEF Leaves, QueueInv, QueueType
<1>2. q \in Seq(Items) /\ \A k \in DOMAIN q : q[k] = queue[c][k + 1] /\ k + 1 \in DOMAIN queue[c]
  BY <1>1
<1>3. \A i : Cardinality(Of(q, i)) <= Cardinality(Of(queue[c], i))
  BY <1>1, OfTail
<1> HIDE DEF q
<1> QED BY <1>1, <1>2, <1>3, FewerKeeps

LEMMA DropsKeeps ==
    ASSUME QueueInv, NEW c \in Consumers, Drops(c)
    PROVE  QueueInv'
<1>1. PICK S : HangUp(c, S)
  BY DEF Drops
<1> DEFINE I == {j \in DOMAIN queue[c] : queue[c][j].in \notin S}
           q == Subsequence(queue[c], I)
<1>2. queue[c] \in Seq(Items) /\ queue' = [queue EXCEPT ![c] = q]
  BY <1>1 DEF HangUp, QueueInv, QueueType
<1>3. I \in SUBSET DOMAIN queue[c]
  OBVIOUS
<1> HIDE DEF I
<1>4. q \in Seq(Items) /\ \A k \in DOMAIN q : \E j \in I : q[k] = queue[c][j]
  BY <1>2, <1>3, OfSubsequence
<1>5. \A i : Cardinality(Of(q, i)) <= Cardinality(Of(queue[c], i))
  BY <1>2, <1>3, OfSubsequence
<1>6. \A k \in DOMAIN q : \E j \in DOMAIN queue[c] : q[k] = queue[c][j]
  BY <1>3, <1>4
<1> HIDE DEF q
<1>7. q \in Seq(Items) /\ queue' = [queue EXCEPT ![c] = q]
  BY <1>2, <1>4
<1> QED BY <1>5, <1>6, <1>7, FewerKeeps

MovesItems(t) ==
    \/ FlushStep(t) \/ SendItem(t) \/ Cleanup(t)
    \/ t \in Demuxers /\ FlushSend(t)
    \/ t \in Decoders \cup Encoders /\ CodecItem(t)
    \/ t \in Decoders /\ DecoderFlush(t)
    \/ t \in Muxers /\ (MuxItem(t) \/ MuxHangUp(t) \/ MuxDone(t))
    \/ t \in Filters /\ (FilterItem(t) \/ CloseInput(t))

\* The steps that put nothing into a queue and take nothing out.
LEMMA MovesItemsAside ==
    ASSUME [Next]_vars, ~(\E t \in Tasks : MovesItems(t))
    PROVE  UNCHANGED queue
<1>1. ASSUME NEW t \in Tasks, TaskStep(t) \/ Fail(t), ~MovesItems(t) PROVE UNCHANGED queue
  <2>1. CASE \/ EncOpen(t) \/ StreamReady(t) \/ FlushEnd(t)
            \/ MuxStarted(t) \/ PreMux(t)
    BY <2>1 DEF EncOpen, StreamReady, FlushEnd, MuxStarted, PreMux, queues
  <2>2. CASE \/ PreMuxFull(t) \/ PreMuxEndLost(t) \/ SendEof(t)
            \/ Finish(t) \/ FinishFilterInput(t)
    BY <2>2 DEF PreMuxFull, PreMuxEndLost, SendEof, Finish, FinishFilterInput,
              queues
  <2>3. CASE MuxUpdate(t)
    BY <2>3 DEF MuxUpdate, queues
  <2>4. CASE TaskExited(t) \/ Fail(t)
    BY <2>4 DEF TaskExited, Fail, queues
  <2>5. CASE \/ DemuxSend(t) \/ DemuxSkip(t) \/ DemuxReturn(t)
            \/ DemuxFlush(t) \/ FlushAwait(t)
    BY <2>5 DEF DemuxSend, DemuxSkip, DemuxReturn, DemuxFlush, FlushAwait,
              queues
  <2>6. CASE FlushEof(t)
    BY <2>6 DEF FlushEof, queues
  <2>7. CASE \/ CodecEnd(t) \/ DecoderStop(t) \/ DecoderEndTs(t)
            \/ NoEndTs(t)
    BY <2>7 DEF CodecEnd, DecoderStop, DecoderEndTs, NoEndTs, TakeEnd, queues
  <2>8. CASE MuxEnd(t) \/ MuxReturn(t) \/ MuxCount(t)
    BY <2>8 DEF MuxEnd, MuxReturn, MuxCount, TakeEnd, queues
  <2>9. CASE \/ FilterPrefer(t) \/ ChokeInputs(t) \/ FilterStreamEnd(t)
            \/ FilterNothing(t) \/ FilterTurn(t)
    BY <2>9 DEF FilterPrefer, ChokeInputs, FilterStreamEnd, FilterNothing,
              FilterTurn, TakeEnd, queues
  <2>10. CASE \/ FilterUnconfigured(t) \/ FilterRead(t) \/ FilterFrame(t)
            \/ FilterConsumersDone(t) \/ CloseOutput(t)
    BY <2>10 DEF FilterUnconfigured, FilterRead, FilterFrame,
              FilterConsumersDone, CloseOutput, queues
  <2>11. CASE FilterRequest(t) \/ FilterReturn(t)
    BY <2>11 DEF FilterRequest, FilterReturn, queues
  <2> QED
    BY <1>1, <2>1, <2>2, <2>3, <2>4, <2>5, <2>6, <2>7, <2>8, <2>9, <2>10, <2>11
    DEF MovesItems, TaskStep, Continue, DemuxStep, CodecStep, DecoderStep,
        MuxStep, FilterStep
<1>2. CASE MainStep \/ Interrupt
  BY <1>2 DEF MainStart, MainTerminate, Interrupt, MainChokeAll, MainJoined,
              queues, MainStep
<1>3. CASE UNCHANGED vars
  BY <1>3 DEF vars, queues
<1> QED BY <1>1, <1>2, <1>3 DEF Next, Run

\* The pre-muxing queues and what starts a muxer.
MuxType ==
    /\ pre_mux \in [MuxStreams -> Seq(Int)]
    /\ \A ms \in MuxStreams : Len(pre_mux[ms]) \in 0 .. PreMuxSize
    /\ ready \subseteq MuxStreams /\ init_eof \subseteq MuxStreams
    /\ mux_started \subseteq Muxers
    /\ \A x, y \in flusher : x = y
    /\ \A x \in flusher : /\ x.task \in Tasks /\ x.mux \in Muxers
                          /\ x = [task |-> x.task, mux |-> x.mux, empty |-> x.empty]

\* What is flushed next is at the head of one of the pre-muxing queues.
LEMMA EarliestIs ==
    ASSUME MuxType, NEW m, NEW ms \in EarliestPreMuxed(m)
    PROVE  /\ ms \in MuxStreams /\ ms.task = m /\ ms.task \in Muxers /\ ms.in \in Inputs(ms.task)
           /\ pre_mux[ms] \in Seq(Int) /\ pre_mux[ms] # <<>> /\ Head(pre_mux[ms]) \in Int
           /\ Tail(pre_mux[ms]) \in Seq(Int) /\ Len(Tail(pre_mux[ms])) = Len(pre_mux[ms]) - 1
<1>1. ms \in PreMuxed(m)
  BY DEF EarliestPreMuxed
<1>2. ms \in MuxStreams /\ ms.task = m /\ pre_mux[ms] # <<>> /\ pre_mux[ms] \in Seq(Int)
  BY <1>1 DEF PreMuxed, MuxType
<1> QED BY <1>2, MuxStreamsAre

\* What a step of the flush does with the head of that queue.
Flushed(ms) ==
    /\ pre_mux' = [pre_mux EXCEPT ![ms] = Tail(@)]
    /\ \/ /\ Head(pre_mux[ms]) = 0
          /\ send_fin' = [send_fin EXCEPT ![ms.task] = @ \cup {ms.in}]
          /\ UNCHANGED <<queue, init_eof>>
       \/ /\ Head(pre_mux[ms]) # 0 /\ ms \in init_eof
          /\ UNCHANGED <<queue, send_fin, init_eof>>
       \/ /\ FlushSends(ms) /\ Refused(ms)
          /\ send_fin' = [send_fin EXCEPT ![ms.task] = @ \cup {ms.in}]
          /\ init_eof' = init_eof \cup {ms}
          /\ UNCHANGED queue
       \/ /\ FlushSends(ms) /\ ~Refused(ms) /\ Room(ms.task, ms.in)
          /\ queue' = Enqueue(ms, Head(pre_mux[ms]))
          /\ UNCHANGED <<send_fin, init_eof>>

LEMMA FlushStepIs ==
    ASSUME NEW t, FlushStep(t)
    PROVE  \E x \in flusher : x.task = t /\ \E ms \in EarliestPreMuxed(x.mux) : Flushed(ms)
BY DEF FlushStep, Flushed

LEMMA MovesItemsKinds ==
    ASSUME QueueInv, TodoType, MuxType, NEW t \in Tasks, MovesItems(t)
    PROVE  \/ UNCHANGED queue
           \/ \E c, i, k : Enters(c, i, k)
           \/ \E c : Leaves(c)
           \/ \E c \in Consumers : Drops(c)
<1>1. CASE FlushStep(t)
  <2>1. PICK x \in flusher : \E ms \in EarliestPreMuxed(x.mux) : Flushed(ms)
    BY <1>1, FlushStepIs
  <2>2. PICK ms \in EarliestPreMuxed(x.mux) : Flushed(ms)
    BY <2>1
  <2>3. ms.task \in Muxers /\ ms.in \in Inputs(ms.task) /\ Head(pre_mux[ms]) \in Int
    BY EarliestIs
  <2>4. ms.task \in Consumers /\ ms.task \notin Encoders
    BY <2>3, KindsDiffer DEF Consumers
  <2>5. queue' = queue \/ Enters(ms.task, ms.in, Head(pre_mux[ms]))
    BY <2>2, <2>3, <2>4 DEF Flushed, Enters, Enqueue
  <2> QED BY <2>5
<1>2. CASE SendItem(t)
  <2>1. At(t, "send") /\ Room(To(t).task, To(t).in) /\ queue' = Enqueue(To(t), Item(t))
    BY <1>2 DEF SendItem, CallsSend, Sendable
  <2>2. To(t) \in Targets(t) /\ (To(t).task \in Encoders => Item(t) # 0)
    BY <2>1, NextOp
  <2>4. Item(t) \in Int
    BY <2>1, HeadIs
  <2>3. To(t).task \in Consumers /\ To(t).in \in Inputs(To(t).task)
    BY <2>2, DstIs
  <2> QED BY <2>1, <2>2, <2>3, <2>4 DEF Enters, Enqueue
<1>3. CASE Cleanup(t)
  BY <1>3 DEF Cleanup, Drops
<1>4. CASE t \in Demuxers /\ FlushSend(t)
  <2>1. At(t, "flush") /\ Room(To(t).task, To(t).in) /\ queue' = Enqueue(To(t), Flush)
    BY <1>4 DEF FlushSend
  <2>2. To(t) \in Targets(t)
    BY <2>1, NextOp
  <2>3. To(t).task \in Consumers /\ To(t).in \in Inputs(To(t).task)
    BY <2>2, DstIs
  <2>4. Flush \in Int /\ Flush # 0
    BY DEF Flush
  <2>5. Enters(To(t).task, To(t).in, Flush)
    BY <2>1, <2>3, <2>4 DEF Enters, Enqueue
  <2> QED BY <2>5
<1>5. CASE t \in Decoders \cup Encoders /\ CodecItem(t)
  BY <1>5 DEF CodecItem, TakeItem, HasItem, Leaves, Consumers
<1>6. CASE t \in Decoders /\ DecoderFlush(t)
  BY <1>6 DEF DecoderFlush, TakeItem, HasItem, Leaves, Consumers
<1>7. CASE t \in Muxers /\ MuxItem(t)
  BY <1>7 DEF MuxItem, TakeItem, HasItem, Leaves, Consumers
<1>8. CASE t \in Muxers /\ MuxHangUp(t)
  BY <1>8 DEF MuxHangUp, Drops, Consumers
<1>9. CASE t \in Muxers /\ MuxDone(t)
  BY <1>9 DEF MuxDone, Drops, Consumers
<1>10. CASE t \in Filters /\ FilterItem(t)
  BY <1>10 DEF FilterItem, TakeItem, HasItem, Leaves, Consumers
<1>11. CASE t \in Filters /\ CloseInput(t)
  BY <1>11 DEF CloseInput, Drops, Consumers
<1> QED
  BY <1>1, <1>2, <1>3, <1>4, <1>5, <1>6, <1>7, <1>8, <1>9, <1>10, <1>11 DEF MovesItems

LEMMA QueueNext ==
    ASSUME QueueInv, TodoType, MuxType, [Next]_vars
    PROVE  QueueInv'
<1>1. CASE \E t \in Tasks : MovesItems(t)
  <2>1. \/ UNCHANGED queue
        \/ \E c, i, k : Enters(c, i, k)
        \/ \E c : Leaves(c)
        \/ \E c \in Consumers : Drops(c)
    BY <1>1, MovesItemsKinds
  <2> QED BY <2>1, EntersKeeps, LeavesKeeps, DropsKeeps
          DEF QueueInv, QueueType, QueueBound, Queued
<1>2. CASE ~(\E t \in Tasks : MovesItems(t))
  BY <1>2, MovesItemsAside DEF QueueInv, QueueType, QueueBound, Queued
<1> QED BY <1>1, <1>2
--------------------------------------------------------------------------------
(* The streams that are finished. *)

FinType ==
    /\ send_fin \in [Consumers -> SUBSET Nat] /\ recv_fin \in [Consumers -> SUBSET Nat]
    /\ \A c \in Consumers : send_fin[c] \cup recv_fin[c] \subseteq QueueStreams(c)

LEMMA EndIs ==
    ASSUME FinType, NEW c \in Consumers, Ends(c) # {}
    PROVE  LowestEnd(c) \in Ends(c) /\ LowestEnd(c) \in send_fin[c]
<1>1. Ends(c) \in SUBSET Nat /\ Ends(c) \subseteq send_fin[c]
  BY DEF FinType, Ends
<1>2. \E i \in Ends(c) : \A j \in Ends(c) : i <= j
  BY <1>1, LeastElement
<1> QED BY <1>1, <1>2 DEF LowestEnd

SaysEnd(t) ==
    \/ FlushStep(t) \/ SendEof(t) \/ Finish(t) \/ FinishFilterInput(t)
    \/ t \in Demuxers /\ FlushEof(t)

\* The steps that finish no stream from the sending side.
LEMMA SaysEndAside ==
    ASSUME [Next]_vars, ~(\E t \in Tasks : SaysEnd(t))
    PROVE  UNCHANGED send_fin
<1>1. ASSUME NEW t \in Tasks, TaskStep(t) \/ Fail(t), ~SaysEnd(t) PROVE UNCHANGED send_fin
  <2>1. CASE \/ EncOpen(t) \/ StreamReady(t) \/ FlushEnd(t)
            \/ MuxStarted(t) \/ PreMux(t)
    BY <2>1 DEF EncOpen, StreamReady, FlushEnd, MuxStarted, PreMux, queues
  <2>2. CASE \/ PreMuxFull(t) \/ PreMuxEndLost(t) \/ SendItem(t)
            \/ MuxUpdate(t)
    BY <2>2 DEF PreMuxFull, PreMuxEndLost, SendItem, MuxUpdate, queues
  <2>3. CASE Cleanup(t) \/ TaskExited(t) \/ Fail(t)
    BY <2>3 DEF Cleanup, TaskExited, Fail, queues
  <2>4. CASE \/ DemuxSend(t) \/ DemuxSkip(t) \/ DemuxReturn(t)
            \/ DemuxFlush(t) \/ FlushSend(t)
    BY <2>4 DEF DemuxSend, DemuxSkip, DemuxReturn, DemuxFlush, FlushSend,
              queues
  <2>5. CASE FlushAwait(t)
    BY <2>5 DEF FlushAwait, queues
  <2>6. CASE \/ CodecItem(t) \/ CodecEnd(t) \/ DecoderStop(t)
            \/ DecoderFlush(t) \/ DecoderEndTs(t)
    BY <2>6 DEF CodecItem, CodecEnd, DecoderStop, DecoderFlush, DecoderEndTs,
              TakeItem, TakeEnd, queues
  <2>7. CASE NoEndTs(t)
    BY <2>7 DEF NoEndTs, queues
  <2>8. CASE \/ MuxItem(t) \/ MuxHangUp(t) \/ MuxEnd(t)
            \/ MuxReturn(t) \/ MuxDone(t)
    BY <2>8 DEF MuxItem, MuxHangUp, MuxEnd, MuxReturn, MuxDone, TakeItem,
              TakeEnd, queues
  <2>9. CASE MuxCount(t)
    BY <2>9 DEF MuxCount, queues
  <2>10. CASE \/ FilterPrefer(t) \/ FilterItem(t) \/ ChokeInputs(t)
            \/ CloseInput(t) \/ FilterStreamEnd(t)
    BY <2>10 DEF FilterPrefer, FilterItem, ChokeInputs, CloseInput,
              FilterStreamEnd, TakeItem, TakeEnd, queues
  <2>11. CASE \/ FilterNothing(t) \/ FilterTurn(t) \/ FilterUnconfigured(t)
            \/ FilterRead(t) \/ FilterFrame(t)
    BY <2>11 DEF FilterNothing, FilterTurn, FilterUnconfigured, FilterRead,
              FilterFrame, queues
  <2>12. CASE \/ FilterConsumersDone(t) \/ CloseOutput(t) \/ FilterRequest(t)
            \/ FilterReturn(t)
    BY <2>12 DEF FilterConsumersDone, CloseOutput, FilterRequest, FilterReturn,
              queues
  <2> QED
    BY <1>1, <2>1, <2>2, <2>3, <2>4, <2>5, <2>6, <2>7, <2>8, <2>9, <2>10, <2>11,
       <2>12
    DEF SaysEnd, TaskStep, Continue, DemuxStep, CodecStep, DecoderStep,
        MuxStep, FilterStep
<1>2. CASE MainStep \/ Interrupt
  BY <1>2 DEF MainStart, MainTerminate, Interrupt, MainChokeAll, MainJoined,
              queues, MainStep
<1>3. CASE UNCHANGED vars
  BY <1>3 DEF vars, queues
<1> QED BY <1>1, <1>2, <1>3 DEF Next, Run

HearsEnd(t) ==
    \/ Cleanup(t)
    \/ t \in Decoders \cup Encoders /\ CodecEnd(t)
    \/ t \in Muxers /\ (MuxHangUp(t) \/ MuxEnd(t) \/ MuxDone(t))
    \/ t \in Filters /\ (CloseInput(t) \/ FilterStreamEnd(t))

\* The steps that finish no stream from the receiving side.
LEMMA HearsEndAside ==
    ASSUME [Next]_vars, ~(\E t \in Tasks : HearsEnd(t))
    PROVE  UNCHANGED recv_fin
<1>1. ASSUME NEW t \in Tasks, TaskStep(t) \/ Fail(t), ~HearsEnd(t) PROVE UNCHANGED recv_fin
  <2>1. CASE \/ EncOpen(t) \/ StreamReady(t) \/ FlushStep(t)
            \/ FlushEnd(t) \/ MuxStarted(t)
    BY <2>1 DEF EncOpen, StreamReady, FlushStep, FlushEnd, MuxStarted, queues
  <2>2. CASE \/ PreMux(t) \/ PreMuxFull(t) \/ PreMuxEndLost(t)
            \/ SendItem(t) \/ SendEof(t)
    BY <2>2 DEF PreMux, PreMuxFull, PreMuxEndLost, SendItem, SendEof, queues
  <2>3. CASE Finish(t) \/ FinishFilterInput(t) \/ MuxUpdate(t)
    BY <2>3 DEF Finish, FinishFilterInput, MuxUpdate, queues
  <2>4. CASE TaskExited(t) \/ Fail(t)
    BY <2>4 DEF TaskExited, Fail, queues
  <2>5. CASE \/ DemuxSend(t) \/ DemuxSkip(t) \/ DemuxReturn(t)
            \/ DemuxFlush(t) \/ FlushSend(t)
    BY <2>5 DEF DemuxSend, DemuxSkip, DemuxReturn, DemuxFlush, FlushSend,
              queues
  <2>6. CASE FlushAwait(t) \/ FlushEof(t)
    BY <2>6 DEF FlushAwait, FlushEof, queues
  <2>7. CASE \/ CodecItem(t) \/ DecoderStop(t) \/ DecoderFlush(t)
            \/ DecoderEndTs(t) \/ NoEndTs(t)
    BY <2>7 DEF CodecItem, DecoderStop, DecoderFlush, DecoderEndTs, NoEndTs,
              TakeItem, queues
  <2>8. CASE MuxItem(t) \/ MuxReturn(t) \/ MuxCount(t)
    BY <2>8 DEF MuxItem, MuxReturn, MuxCount, TakeItem, queues
  <2>9. CASE \/ FilterPrefer(t) \/ FilterItem(t) \/ ChokeInputs(t)
            \/ FilterNothing(t) \/ FilterTurn(t)
    BY <2>9 DEF FilterPrefer, FilterItem, ChokeInputs, FilterNothing,
              FilterTurn, TakeItem, queues
  <2>10. CASE \/ FilterUnconfigured(t) \/ FilterRead(t) \/ FilterFrame(t)
            \/ FilterConsumersDone(t) \/ CloseOutput(t)
    BY <2>10 DEF FilterUnconfigured, FilterRead, FilterFrame,
              FilterConsumersDone, CloseOutput, queues
  <2>11. CASE FilterRequest(t) \/ FilterReturn(t)
    BY <2>11 DEF FilterRequest, FilterReturn, queues
  <2> QED
    BY <1>1, <2>1, <2>2, <2>3, <2>4, <2>5, <2>6, <2>7, <2>8, <2>9, <2>10, <2>11
    DEF HearsEnd, TaskStep, Continue, DemuxStep, CodecStep, DecoderStep,
        MuxStep, FilterStep
<1>2. CASE MainStep \/ Interrupt
  BY <1>2 DEF MainStart, MainTerminate, Interrupt, MainChokeAll, MainJoined,
              queues, MainStep
<1>3. CASE UNCHANGED vars
  BY <1>3 DEF vars, queues
<1> QED BY <1>1, <1>2, <1>3 DEF Next, Run

LEMMA SaysEndType ==
    ASSUME FinType, TodoType, MuxType, NEW t \in Tasks, SaysEnd(t)
    PROVE  \E c \in Consumers : \E S \in SUBSET QueueStreams(c) :
              send_fin' = [send_fin EXCEPT ![c] = @ \cup S]
<1>1. CASE FlushStep(t)
  <2>1. PICK x \in flusher : \E ms \in EarliestPreMuxed(x.mux) : Flushed(ms)
    BY <1>1, FlushStepIs
  <2>2. PICK ms \in EarliestPreMuxed(x.mux) : Flushed(ms)
    BY <2>1
  <2>3. ms.task \in Consumers /\ ms.in \in QueueStreams(ms.task)
    BY EarliestIs, StreamsAreNat DEF Consumers
  <2>4. send_fin = [send_fin EXCEPT ![ms.task] = @ \cup {}]
    BY DEF FinType
  <2> QED BY <2>2, <2>3, <2>4 DEF Flushed
<1>2. CASE SendEof(t)
  <2>1. At(t, "send") /\ send_fin' = [send_fin EXCEPT ![To(t).task] = @ \cup {To(t).in}]
    BY <1>2 DEF SendEof, Sendable
  <2>2. To(t).task \in Consumers /\ To(t).in \in QueueStreams(To(t).task)
    BY <2>1, NextOp, DstIs, StreamsAreNat
  <2> QED BY <2>1, <2>2
<1>3. CASE Finish(t)
  <2>1. At(t, "finish") /\ send_fin' = [send_fin EXCEPT ![To(t).task] = @ \cup {To(t).in}]
    BY <1>3 DEF Finish
  <2>2. To(t).task \in Consumers /\ To(t).in \in QueueStreams(To(t).task)
    BY <2>1, NextOp, DstIs, StreamsAreNat
  <2> QED BY <2>1, <2>2
<1>4. CASE FinishFilterInput(t)
  <2> DEFINE f == To(t).task
             S == {To(t).in} \cup
                    (IF \A i \in Inputs(f) : [task |-> f, in |-> i] \in send_finished'
                       THEN {NbInputs[f]} ELSE {})
  <2>1. At(t, "finish") /\ f \in Filters /\ send_fin' = [send_fin EXCEPT ![f] = @ \cup S]
    <3>1. At(t, "finish") /\ f \in Filters
      BY <1>4 DEF FinishFilterInput
    <3>2. send_fin' = [send_fin EXCEPT ![f] = @ \cup {To(t).in} \cup
                    (IF \A i \in Inputs(f) : [task |-> f, in |-> i] \in send_finished'
                       THEN {NbInputs[f]} ELSE {})]
      BY <1>4 DEF FinishFilterInput
    <3>3. send_fin' = [send_fin EXCEPT ![f] = @ \cup S]
      BY <3>2
    <3> QED BY <3>1, <3>3
  <2>2. f \in Consumers /\ To(t).in \in QueueStreams(f)
    BY <2>1, NextOp, DstIs, StreamsAreNat
  <2>3. S \in SUBSET QueueStreams(f)
    BY <2>1, <2>2, StreamsAreNat
  <2> QED BY <2>1, <2>2, <2>3
<1>5. CASE t \in Demuxers /\ FlushEof(t)
  <2>1. \/ /\ At(t, "flush")
           /\ send_fin' = [send_fin EXCEPT ![To(t).task] = @ \cup {To(t).in}]
        \/ UNCHANGED send_fin
    BY <1>5 DEF FlushEof
  <2>2. CASE UNCHANGED send_fin
    <3>1. \A c \in Consumers : send_fin' = [send_fin EXCEPT ![c] = @ \cup {}]
      BY <2>2 DEF FinType
    <3>2. \E c : c \in Consumers
      <4>1. To(t) \in Targets(t)
        BY <1>5, NextOp DEF FlushEof
      <4> QED BY <4>1, DstIs
    <3> QED BY <3>1, <3>2
  <2>3. CASE /\ At(t, "flush")
             /\ send_fin' = [send_fin EXCEPT ![To(t).task] = @ \cup {To(t).in}]
    <3>1. To(t).task \in Consumers /\ To(t).in \in QueueStreams(To(t).task)
      BY <2>3, NextOp, DstIs, StreamsAreNat
    <3> QED BY <2>3, <3>1
  <2> QED BY <2>1, <2>2, <2>3
<1> QED BY <1>1, <1>2, <1>3, <1>4, <1>5 DEF SaysEnd

LEMMA HearsEndType ==
    ASSUME FinType, TodoType, NEW t \in Tasks, HearsEnd(t)
    PROVE  recv_fin' = recv_fin \/ \E c \in Consumers : \E S \in SUBSET QueueStreams(c) :
              recv_fin' = [recv_fin EXCEPT ![c] = @ \cup S]
<1>1. ASSUME t \in Consumers, TakeEnd(t)
      PROVE  \E S \in SUBSET QueueStreams(t) : recv_fin' = [recv_fin EXCEPT ![t] = @ \cup S]
  <2>1. LowestEnd(t) \in QueueStreams(t)
    BY <1>1, EndIs DEF TakeEnd, FinType
  <2> QED BY <1>1, <2>1 DEF TakeEnd
<1>2. ASSUME t \in Consumers, NEW S \in SUBSET QueueStreams(t), HangUp(t, S)
      PROVE  recv_fin' = [recv_fin EXCEPT ![t] = @ \cup S]
  BY <1>2 DEF HangUp
<1>3. CASE t \in Decoders \cup Encoders /\ CodecEnd(t)
  BY <1>1, <1>3 DEF CodecEnd, Consumers
<1>4. CASE t \in Muxers /\ MuxEnd(t)
  BY <1>1, <1>4 DEF MuxEnd, Consumers
<1>5. CASE t \in Filters /\ FilterStreamEnd(t)
  BY <1>1, <1>5 DEF FilterStreamEnd, Consumers
<1>6. CASE t \in Muxers /\ MuxHangUp(t)
  <2>1. To(t).in \in QueueStreams(t) /\ t \in Consumers
    BY <1>6, NextOp, MuxStreamsAre, StreamsAreNat DEF MuxHangUp, Consumers
  <2> QED BY <1>2, <1>6, <2>1 DEF MuxHangUp
<1>7. CASE t \in Muxers /\ MuxDone(t)
  <2>1. t \in Consumers /\ Inputs(t) \in SUBSET QueueStreams(t)
    BY <1>7, StreamsAreNat DEF Consumers
  <2> QED BY <1>2, <1>7, <2>1 DEF MuxDone
<1>8. CASE t \in Filters /\ CloseInput(t)
  <2> DEFINE S == {To(t).in} \cup
                    (IF \A i \in Inputs(t) : [task |-> t, in |-> i] \in receive_finished'
                       THEN {NbInputs[t]} ELSE {})
  <2>1. t \in Consumers /\ At(t, "close") /\ HangUp(t, S)
    BY <1>8 DEF CloseInput, Consumers
  <2>2. To(t).in \in Inputs(t)
    BY <2>1, NextOp
  <2>3. S \in SUBSET QueueStreams(t)
    BY <1>8, <2>1, <2>2, StreamsAreNat
  <2> HIDE DEF S
  <2> QED BY <1>2, <2>1, <2>3
<1>9. CASE Cleanup(t)
  <2>1. CASE t \in Consumers
    <3>1. HangUp(t, QueueStreams(t))
      BY <1>9, <2>1 DEF Cleanup
    <3> QED BY <1>2, <2>1, <3>1
  <2>2. CASE t \notin Consumers
    BY <1>9, <2>2 DEF Cleanup
  <2> QED BY <2>1, <2>2
<1> QED BY <1>3, <1>4, <1>5, <1>6, <1>7, <1>8, <1>9 DEF HearsEnd, Consumers

LEMMA FinNext ==
    ASSUME FinType, TodoType, MuxType, [Next]_vars
    PROVE  FinType'
<1>1. \A c \in Consumers : QueueStreams(c) \in SUBSET Nat
  BY StreamsAreNat
<1>2. send_fin' = send_fin \/ \E c \in Consumers : \E S \in SUBSET QueueStreams(c) :
          send_fin' = [send_fin EXCEPT ![c] = @ \cup S]
  BY SaysEndType, SaysEndAside
<1>3. recv_fin' = recv_fin \/ \E c \in Consumers : \E S \in SUBSET QueueStreams(c) :
          recv_fin' = [recv_fin EXCEPT ![c] = @ \cup S]
  BY HearsEndType, HearsEndAside
<1>4. send_fin' \in [Consumers -> SUBSET Nat] /\ \A c \in Consumers : send_fin'[c] \subseteq QueueStreams(c)
  BY <1>1, <1>2 DEF FinType
<1>5. recv_fin' \in [Consumers -> SUBSET Nat] /\ \A c \in Consumers : recv_fin'[c] \subseteq QueueStreams(c)
  BY <1>1, <1>3 DEF FinType
<1> QED BY <1>4, <1>5 DEF FinType

--------------------------------------------------------------------------------
(* The pre-muxing queues. *)

StartsMux(t) ==
    \/ StreamReady(t) \/ FlushStep(t) \/ FlushEnd(t) \/ MuxStarted(t)
    \/ PreMux(t)

\* The steps that have nothing to do with the start of a muxer.
LEMMA StartsMuxAside ==
    ASSUME [Next]_vars, ~(\E t \in Tasks : StartsMux(t))
    PROVE  UNCHANGED <<pre_mux, init_eof, ready, mux_started, flusher>>
<1>1. ASSUME NEW t \in Tasks, TaskStep(t) \/ Fail(t), ~StartsMux(t) PROVE UNCHANGED <<pre_mux, init_eof, ready, mux_started, flusher>>
  <2>1. CASE \/ EncOpen(t) \/ PreMuxFull(t) \/ PreMuxEndLost(t)
            \/ SendItem(t) \/ SendEof(t)
    BY <2>1 DEF EncOpen, PreMuxFull, PreMuxEndLost, SendItem, SendEof, muxing
  <2>2. CASE Finish(t) \/ FinishFilterInput(t) \/ MuxUpdate(t)
    BY <2>2 DEF Finish, FinishFilterInput, MuxUpdate, muxing
  <2>3. CASE Cleanup(t) \/ TaskExited(t) \/ Fail(t)
    BY <2>3 DEF Cleanup, TaskExited, Fail, muxing
  <2>4. CASE \/ DemuxSend(t) \/ DemuxSkip(t) \/ DemuxReturn(t)
            \/ DemuxFlush(t) \/ FlushSend(t)
    BY <2>4 DEF DemuxSend, DemuxSkip, DemuxReturn, DemuxFlush, FlushSend,
              muxing
  <2>5. CASE FlushAwait(t) \/ FlushEof(t)
    BY <2>5 DEF FlushAwait, FlushEof, muxing
  <2>6. CASE \/ CodecItem(t) \/ CodecEnd(t) \/ DecoderStop(t)
            \/ DecoderFlush(t) \/ DecoderEndTs(t)
    BY <2>6 DEF CodecItem, CodecEnd, DecoderStop, DecoderFlush, DecoderEndTs,
              muxing
  <2>7. CASE NoEndTs(t)
    BY <2>7 DEF NoEndTs, muxing
  <2>8. CASE \/ MuxItem(t) \/ MuxHangUp(t) \/ MuxEnd(t)
            \/ MuxReturn(t) \/ MuxDone(t)
    BY <2>8 DEF MuxItem, MuxHangUp, MuxEnd, MuxReturn, MuxDone, muxing
  <2>9. CASE MuxCount(t)
    BY <2>9 DEF MuxCount, muxing
  <2>10. CASE \/ FilterPrefer(t) \/ FilterItem(t) \/ ChokeInputs(t)
            \/ CloseInput(t) \/ FilterStreamEnd(t)
    BY <2>10 DEF FilterPrefer, FilterItem, ChokeInputs, CloseInput,
              FilterStreamEnd, muxing
  <2>11. CASE \/ FilterNothing(t) \/ FilterTurn(t) \/ FilterUnconfigured(t)
            \/ FilterRead(t) \/ FilterFrame(t)
    BY <2>11 DEF FilterNothing, FilterTurn, FilterUnconfigured, FilterRead,
              FilterFrame, muxing
  <2>12. CASE \/ FilterConsumersDone(t) \/ CloseOutput(t) \/ FilterRequest(t)
            \/ FilterReturn(t)
    BY <2>12 DEF FilterConsumersDone, CloseOutput, FilterRequest, FilterReturn,
              muxing
  <2> QED
    BY <1>1, <2>1, <2>2, <2>3, <2>4, <2>5, <2>6, <2>7, <2>8, <2>9, <2>10, <2>11,
       <2>12
    DEF StartsMux, TaskStep, Continue, DemuxStep, CodecStep, DecoderStep,
        MuxStep, FilterStep
<1>2. CASE MainStep \/ Interrupt
  BY <1>2 DEF MainStart, MainTerminate, Interrupt, MainChokeAll, MainJoined,
              muxing, MainStep
<1>3. CASE UNCHANGED vars
  BY <1>3 DEF vars, muxing
<1> QED BY <1>1, <1>2, <1>3 DEF Next, Run

LEMMA StartsMuxType ==
    ASSUME MuxType, TodoType, NEW t \in Tasks, StartsMux(t)
    PROVE  MuxType'
<1>1. CASE FlushStep(t)
  <2>1. PICK x \in flusher : \E ms \in EarliestPreMuxed(x.mux) : Flushed(ms)
    BY <1>1, FlushStepIs
  <2>2. PICK ms \in EarliestPreMuxed(x.mux) : Flushed(ms)
    BY <2>1
  <2>3. /\ ms \in MuxStreams /\ pre_mux[ms] \in Seq(Int) /\ pre_mux[ms] # <<>>
        /\ Tail(pre_mux[ms]) \in Seq(Int) /\ Len(Tail(pre_mux[ms])) = Len(pre_mux[ms]) - 1
    BY EarliestIs
  <2>4. Len(Tail(pre_mux[ms])) \in 0 .. PreMuxSize
    BY <2>3, SchedulerAssumption DEF MuxType
  <2>5. /\ pre_mux' \in [MuxStreams -> Seq(Int)]
        /\ \A o \in MuxStreams : Len(pre_mux'[o]) \in 0 .. PreMuxSize
    BY <2>2, <2>3, <2>4 DEF MuxType, Flushed
  <2>6. UNCHANGED <<ready, mux_started, flusher>>
    BY <1>1 DEF FlushStep
  <2>7. init_eof' \subseteq MuxStreams
    BY <2>2, <2>3 DEF MuxType, Flushed
  <2> QED BY <2>5, <2>6, <2>7 DEF MuxType
<1>2. CASE PreMux(t)
  <2> DEFINE ms == MuxStream(To(t))
             k == IF At(t, "send") THEN Item(t) ELSE 0
  <2>1. /\ At(t, "send") \/ At(t, "finish")
        /\ Len(pre_mux[ms]) < PreMuxSize
        /\ pre_mux' = [pre_mux EXCEPT ![ms] = Append(@, k)]
        /\ UNCHANGED <<init_eof, ready, mux_started, flusher>>
        /\ To(t).task \in Muxers
    BY <1>2 DEF PreMux, Parking
  <2>2. ms \in MuxStreams
    BY <2>1, NextOp, DstIs, MuxStreamsAre
  <2>3. k \in Int
    BY HeadIs
  <2>4. Append(pre_mux[ms], k) \in Seq(Int) /\ Len(Append(pre_mux[ms], k)) = Len(pre_mux[ms]) + 1
    BY <2>2, <2>3 DEF MuxType
  <2>5. Len(Append(pre_mux[ms], k)) \in 0 .. PreMuxSize
    BY <2>1, <2>2, <2>4, SchedulerAssumption DEF MuxType
  <2> HIDE DEF ms, k
  <2>6. /\ pre_mux' \in [MuxStreams -> Seq(Int)]
        /\ \A o \in MuxStreams : Len(pre_mux'[o]) \in 0 .. PreMuxSize
    BY <2>1, <2>2, <2>4, <2>5 DEF MuxType
  <2> QED BY <2>1, <2>6 DEF MuxType
<1>3. CASE StreamReady(t)
  <2>1. /\ At(t, "ready")
        /\ ready' = ready \cup {MuxStream(To(t))}
        /\ flusher' = flusher \/ flusher' = {[task |-> t, mux |-> To(t).task, empty |-> FALSE]}
        /\ UNCHANGED <<pre_mux, init_eof, mux_started>>
    BY <1>3 DEF StreamReady
  <2>2. To(t).task \in Muxers /\ MuxStream(To(t)) \in MuxStreams
    BY <2>1, NextOp, MuxStreamsAre
  <2>3. /\ \A x, y \in flusher' : x = y
        /\ \A x \in flusher' : /\ x.task \in Tasks /\ x.mux \in Muxers
                               /\ x = [task |-> x.task, mux |-> x.mux, empty |-> x.empty]
    <3>1. CASE flusher' = flusher
      BY <3>1 DEF MuxType
    <3>2. CASE flusher' = {[task |-> t, mux |-> To(t).task, empty |-> FALSE]}
      BY <2>2, <3>2
    <3> QED BY <2>1, <3>1, <3>2
  <2>4. ready' \subseteq MuxStreams /\ UNCHANGED <<pre_mux, init_eof, mux_started>>
    BY <2>1, <2>2 DEF MuxType
  <2> QED BY <2>3, <2>4 DEF MuxType
<1>4. CASE FlushEnd(t)
  <2>1. PICK x \in flusher : flusher' = {[task |-> t, mux |-> x.mux, empty |-> TRUE]}
    BY <1>4 DEF FlushEnd
  <2>2. UNCHANGED <<pre_mux, init_eof, ready, mux_started>>
    BY <1>4 DEF FlushEnd
  <2> QED BY <2>1, <2>2 DEF MuxType
<1>5. CASE MuxStarted(t)
  <2>1. \E x \in flusher : mux_started' = mux_started \cup {x.mux}
    BY <1>5 DEF MuxStarted
  <2>2. flusher' = {} /\ UNCHANGED <<pre_mux, init_eof, ready>>
    BY <1>5 DEF MuxStarted
  <2> QED BY <2>1, <2>2 DEF MuxType
<1> QED BY <1>1, <1>2, <1>3, <1>4, <1>5 DEF StartsMux

LEMMA MuxNext ==
    ASSUME MuxType, TodoType, [Next]_vars
    PROVE  MuxType'
<1>1. CASE \E t \in Tasks : StartsMux(t)
  BY <1>1, StartsMuxType
<1>2. CASE ~(\E t \in Tasks : StartsMux(t))
  BY <1>2, StartsMuxAside DEF MuxType
<1> QED BY <1>1, <1>2

--------------------------------------------------------------------------------
(* The state of the filtergraphs. *)

Graph(f) ==
    [next : 0 .. NbInputs[f], got : [0 .. NbInputs[f] -> Nat], eof : SUBSET Nat,
     configured : BOOLEAN, made : Nat, out_eof : SUBSET Nat, consumers_done : SUBSET Nat,
     got_frame : BOOLEAN]

GraphIs(f, g) == g \in Graph(f) /\ (HasAllFormats(f, g) => g.configured)

GraphType == fg = [f \in Filters |-> fg[f]] /\ \A f \in Filters : GraphIs(f, fg[f])

LEMMA LowestIs ==
    ASSUME NEW S \in SUBSET Nat, S # {}
    PROVE  Lowest(S) \in S
BY LeastElement DEF Lowest

LEMMA FiltersAre ==
    ASSUME NEW f \in Filters
    PROVE  f \in Tasks /\ f \in Consumers /\ NbInputs[f] \in Nat
             /\ Inputs(f) \subseteq 0 .. NbInputs[f] /\ NbInputs[f] \in 0 .. NbInputs[f]
             /\ NbInputs[f] \notin Inputs(f)
BY InputsAre DEF Tasks, Consumers

FeedsGraph(t) ==
    \/ SendItem(t) \/ SendEof(t)
    \/ t \in Filters /\ (FilterItem(t) \/ FilterUnconfigured(t) \/ FilterFrame(t) \/ CloseOutput(t) \/ FilterRequest(t))

\* The steps in which no filtergraph gets, makes or ends anything.
LEMMA FeedsGraphAside ==
    ASSUME [Next]_vars, ~(\E t \in Tasks : FeedsGraph(t))
    PROVE  UNCHANGED fg
<1>1. ASSUME NEW t \in Tasks, TaskStep(t) \/ Fail(t), ~FeedsGraph(t) PROVE UNCHANGED fg
  <2>1. CASE \/ EncOpen(t) \/ StreamReady(t) \/ FlushStep(t)
            \/ FlushEnd(t) \/ MuxStarted(t)
    BY <2>1 DEF EncOpen, StreamReady, FlushStep, FlushEnd, MuxStarted, local
  <2>2. CASE \/ PreMux(t) \/ PreMuxFull(t) \/ PreMuxEndLost(t)
            \/ Finish(t) \/ FinishFilterInput(t)
    BY <2>2 DEF PreMux, PreMuxFull, PreMuxEndLost, Finish, FinishFilterInput,
              local
  <2>3. CASE MuxUpdate(t)
    BY <2>3 DEF MuxUpdate, local
  <2>4. CASE Cleanup(t) \/ TaskExited(t) \/ Fail(t)
    BY <2>4 DEF Cleanup, TaskExited, Fail, local
  <2>5. CASE \/ DemuxSend(t) \/ DemuxSkip(t) \/ DemuxReturn(t)
            \/ DemuxFlush(t) \/ FlushSend(t)
    BY <2>5 DEF DemuxSend, DemuxSkip, DemuxReturn, DemuxFlush, FlushSend,
              local
  <2>6. CASE FlushAwait(t) \/ FlushEof(t)
    BY <2>6 DEF FlushAwait, FlushEof, local
  <2>7. CASE \/ CodecItem(t) \/ CodecEnd(t) \/ DecoderStop(t)
            \/ DecoderFlush(t) \/ DecoderEndTs(t)
    BY <2>7 DEF CodecItem, CodecEnd, DecoderStop, DecoderFlush, DecoderEndTs,
              local
  <2>8. CASE NoEndTs(t)
    BY <2>8 DEF NoEndTs, local
  <2>9. CASE \/ MuxItem(t) \/ MuxHangUp(t) \/ MuxEnd(t)
            \/ MuxReturn(t) \/ MuxDone(t)
    BY <2>9 DEF MuxItem, MuxHangUp, MuxEnd, MuxReturn, MuxDone, local
  <2>10. CASE MuxCount(t)
    BY <2>10 DEF MuxCount, local
  <2>11. CASE \/ FilterPrefer(t) \/ ChokeInputs(t) \/ CloseInput(t)
            \/ FilterStreamEnd(t) \/ FilterNothing(t)
    BY <2>11 DEF FilterPrefer, ChokeInputs, CloseInput, FilterStreamEnd,
              FilterNothing, local
  <2>12. CASE \/ FilterTurn(t) \/ FilterRead(t) \/ FilterConsumersDone(t)
            \/ FilterReturn(t)
    BY <2>12 DEF FilterTurn, FilterRead, FilterConsumersDone, FilterReturn,
              local
  <2> QED
    BY <1>1, <2>1, <2>2, <2>3, <2>4, <2>5, <2>6, <2>7, <2>8, <2>9, <2>10, <2>11,
       <2>12
    DEF FeedsGraph, TaskStep, Continue, DemuxStep, CodecStep, DecoderStep,
        MuxStep, FilterStep
<1>2. CASE MainStep \/ Interrupt
  BY <1>2 DEF MainStart, MainTerminate, Interrupt, MainChokeAll, MainJoined,
              local, MainStep
<1>3. CASE UNCHANGED vars
  BY <1>3 DEF vars, local
<1> QED BY <1>1, <1>2, <1>3 DEF Next, Run

\* A step of filtergraph f leaves it as g.
LEMMA GraphKeeps ==
    ASSUME GraphType, NEW f \in Filters, NEW g, GraphIs(f, g), fg' = [fg EXCEPT ![f] = g]
    PROVE  GraphType'
<1>1. DOMAIN fg = Filters
  BY DEF GraphType
<1>2. fg' = [h \in Filters |-> fg'[h]]
  BY <1>1
<1>3. ASSUME NEW h \in Filters PROVE GraphIs(h, fg'[h])
  BY <1>1 DEF GraphType
<1>4. \A h \in Filters : GraphIs(h, fg'[h])
  BY <1>3
<1> QED BY <1>2, <1>4 DEF GraphType, GraphIs, HasAllFormats

\* Marking outputs, or what came out of the graph, leaves its formats alone.
LEMMA GraphMarks ==
    ASSUME NEW f \in Filters, NEW g, GraphIs(f, g)
    PROVE  /\ \A b \in BOOLEAN : GraphIs(f, [g EXCEPT !.got_frame = b])
           /\ \A o \in SUBSET Nat, c \in SUBSET Nat :
                 GraphIs(f, [g EXCEPT !.out_eof = o, !.consumers_done = c])
           /\ \A o \in SUBSET Nat : GraphIs(f, [g EXCEPT !.out_eof = o])
           /\ GraphIs(f, [g EXCEPT !.made = g.made + 1])
           /\ \A i \in 0 .. NbInputs[f] : GraphIs(f, [g EXCEPT !.next = i])
           /\ \A i \in 0 .. NbInputs[f], n \in Nat :
                 GraphIs(f, [g EXCEPT !.next = i, !.got = [g.got EXCEPT ![NbInputs[f]] = n]])
<1>1. g \in Graph(f)
  BY DEF GraphIs
<1>2. ASSUME NEW h \in Graph(f), h.configured = g.configured, h.eof = g.eof,
             \A i \in Inputs(f) : h.got[i] = g.got[i]
      PROVE  GraphIs(f, h)
  BY <1>2 DEF GraphIs, HasAllFormats
<1>3. ASSUME NEW b \in BOOLEAN PROVE GraphIs(f, [g EXCEPT !.got_frame = b])
  BY <1>1, <1>2 DEF Graph
<1>4. ASSUME NEW o \in SUBSET Nat, NEW c \in SUBSET Nat
      PROVE  GraphIs(f, [g EXCEPT !.out_eof = o, !.consumers_done = c])
  <2> DEFINE h == [g EXCEPT !.out_eof = o, !.consumers_done = c]
  <2>1. h \in Graph(f)
    BY <1>1 DEF Graph
  <2>2. h.configured = g.configured /\ h.eof = g.eof /\ h.got = g.got
    BY <1>1 DEF Graph
  <2> HIDE DEF h
  <2>3. GraphIs(f, h)
    BY <1>2, <2>1, <2>2
  <2> QED BY <2>3 DEF h
<1>5. ASSUME NEW o \in SUBSET Nat PROVE GraphIs(f, [g EXCEPT !.out_eof = o])
  BY <1>1, <1>2 DEF Graph
<1>6. GraphIs(f, [g EXCEPT !.made = g.made + 1])
  BY <1>1, <1>2 DEF Graph
<1>7. ASSUME NEW i \in 0 .. NbInputs[f] PROVE GraphIs(f, [g EXCEPT !.next = i])
  BY <1>1, <1>2 DEF Graph
<1>8. ASSUME NEW i \in 0 .. NbInputs[f], NEW n \in Nat
      PROVE  GraphIs(f, [g EXCEPT !.next = i, !.got = [g.got EXCEPT ![NbInputs[f]] = n]])
  <2> DEFINE got == [g.got EXCEPT ![NbInputs[f]] = n]
             h == [g EXCEPT !.next = i, !.got = got]
  <2>1. got \in [0 .. NbInputs[f] -> Nat] /\ \A j \in Inputs(f) : got[j] = g.got[j]
    BY <1>1, FiltersAre DEF Graph
  <2> HIDE DEF got
  <2>2. h \in Graph(f) /\ h.configured = g.configured /\ h.eof = g.eof /\ h.got = got
    BY <1>1, <2>1 DEF Graph
  <2>3. GraphIs(f, h)
    BY <1>2, <2>1, <2>2
  <2> QED BY <2>3 DEF got
<1> QED BY <1>3, <1>4, <1>5, <1>6, <1>7, <1>8

LEMMA OneMore ==
    ASSUME NEW n, NEW got \in [0 .. n -> Nat], NEW i \in 0 .. n
    PROVE  [got EXCEPT ![i] = @ + 1] \in [0 .. n -> Nat]
OBVIOUS

LEMMA FedIs ==
    ASSUME GraphType, NEW f \in Filters, NEW x \in Items, x.in \in Inputs(f)
    PROVE  GraphIs(f, Fed(f, x))
<1> DEFINE g == IF x.k = 0 THEN [fg[f] EXCEPT !.eof = @ \cup {x.in}]
                           ELSE [fg[f] EXCEPT !.got[x.in] = @ + 1]
           h == [g EXCEPT !.configured = HasAllFormats(f, g)]
<1>1. fg[f] \in Graph(f) /\ x.in \in Nat /\ x.in \in 0 .. NbInputs[f]
  BY FiltersAre, InputsAre DEF GraphType, GraphIs
<1>2. g \in Graph(f)
  <2>1. CASE x.k = 0
    <3>1. fg[f].eof \cup {x.in} \in SUBSET Nat
      BY <1>1 DEF Graph
    <3>2. [fg[f] EXCEPT !.eof = @ \cup {x.in}] \in Graph(f)
      BY <1>1, <3>1 DEF Graph
    <3> QED BY <2>1, <3>2
  <2>2. CASE x.k # 0
    <3> DEFINE got == [fg[f].got EXCEPT ![x.in] = @ + 1]
    <3>0. fg[f].got \in [0 .. NbInputs[f] -> Nat]
      BY <1>1 DEF Graph
    <3>1. got \in [0 .. NbInputs[f] -> Nat]
      BY <1>1, <3>0, OneMore
    <3>2. [fg[f] EXCEPT !.got[x.in] = @ + 1] = [fg[f] EXCEPT !.got = got]
      BY <1>1 DEF Graph
    <3> HIDE DEF got
    <3>3. [fg[f] EXCEPT !.got[x.in] = @ + 1] \in Graph(f)
      BY <1>1, <3>1, <3>2 DEF Graph
    <3> QED BY <2>2, <3>3
  <2> QED BY <2>1, <2>2
<1> HIDE DEF g
<1>3. HasAllFormats(f, g) \in BOOLEAN
  BY DEF HasAllFormats
<1>4. h \in Graph(f) /\ h.configured = HasAllFormats(f, g) /\ h.got = g.got /\ h.eof = g.eof
  BY <1>2, <1>3 DEF Graph
<1>5. HasAllFormats(f, h) <=> HasAllFormats(f, g)
  BY <1>4 DEF HasAllFormats
<1>6. GraphIs(f, h)
  BY <1>4, <1>5 DEF GraphIs
<1> QED BY <1>6 DEF Fed, g, h

\* A graph that has no frame to give and is not at its end wants an input.
LEMMA SomeInputWanted ==
    ASSUME GraphType, NEW f \in Filters, OpenInputs(f, fg[f]) # {},
           fg[f].made = Producible(f, fg[f])
    PROVE  Lowest({i \in OpenInputs(f, fg[f]) : fg[f].got[i] = fg[f].made}) \in 0 .. NbInputs[f]
<1> DEFINE open == OpenInputs(f, fg[f])
           got == fg[f].got
           G == {got[i] : i \in open}
           W == {i \in open : got[i] = fg[f].made}
<1>1. open \in SUBSET (0 .. NbInputs[f]) /\ NbInputs[f] \in Nat
  BY FiltersAre DEF OpenInputs
<1>2. got \in [0 .. NbInputs[f] -> Nat]
  BY DEF GraphType, GraphIs, Graph
<1>3. fg[f].made = CHOOSE n \in G : \A i \in open : n <= got[i]
  BY DEF Producible
<1> HIDE DEF open, got
<1>4. G \in SUBSET Nat /\ G # {}
  BY <1>1, <1>2 DEF open
<1>5. \E n \in G : \A m \in G : n <= m
  <2> HIDE DEF G
  <2> QED BY <1>4, LeastElement
<1>6. \E n \in G : \A i \in open : n <= got[i]
  BY <1>5
<1>7. fg[f].made \in G
  BY <1>3, <1>6
<1>8. W # {} /\ W \in SUBSET Nat /\ W \subseteq 0 .. NbInputs[f]
  BY <1>1, <1>7
<1>9. Lowest(W) \in W
  <2> HIDE DEF W
  <2> QED BY <1>8, LowestIs
<1>10. Lowest(W) \in 0 .. NbInputs[f]
  BY <1>8, <1>9
<1> QED BY <1>10 DEF open, got

LEMMA FeedsGraphType ==
    ASSUME GraphType, QueueInv, TodoType, NEW t \in Tasks, FeedsGraph(t)
    PROVE  UNCHANGED fg \/ \E f \in Filters : \E g : GraphIs(f, g) /\ fg' = [fg EXCEPT ![f] = g]
<1>1. CASE SendItem(t)
  <2>1. CASE t \in Filters
    <3> DEFINE b == fg[t].got_frame \/ Item(t) # 0
    <3>1. fg' = [fg EXCEPT ![t].got_frame = @ \/ Item(t) # 0]
      BY <1>1, <2>1 DEF SendItem
    <3>2. fg' = [fg EXCEPT ![t] = [fg[t] EXCEPT !.got_frame = b]]
      BY <3>1
    <3>3. b \in BOOLEAN
      BY <2>1 DEF GraphType, GraphIs, Graph
    <3>4. GraphIs(t, fg[t])
      BY <2>1 DEF GraphType
    <3> HIDE DEF b
    <3>5. GraphIs(t, [fg[t] EXCEPT !.got_frame = b])
      BY <2>1, <3>3, <3>4, GraphMarks
    <3> QED BY <2>1, <3>2, <3>5
  <2>2. CASE t \notin Filters
    BY <1>1, <2>2 DEF SendItem
  <2> QED BY <2>1, <2>2
<1>2. CASE SendEof(t)
  <2>1. CASE t \in Filters
    <3> DEFINE o == fg[t].out_eof \cup {To(t).out}
               c == fg[t].consumers_done \cup {To(t).out}
    <3>1. At(t, "send") /\ fg' = [fg EXCEPT ![t].out_eof = @ \cup {To(t).out},
                                            ![t].consumers_done = @ \cup {To(t).out}]
      BY <1>2, <2>1 DEF SendEof, Sendable
    <3>2. fg' = [fg EXCEPT ![t] = [fg[t] EXCEPT !.out_eof = o, !.consumers_done = c]]
      BY <2>1, <3>1 DEF GraphType
    <3>3. To(t) \in EdgeRecords
      BY <3>1, NextOp, DstIs
    <3>4. GraphIs(t, fg[t])
      BY <2>1 DEF GraphType
    <3>5. o \in SUBSET Nat /\ c \in SUBSET Nat
      BY <3>3, <3>4 DEF EdgeRecords, GraphIs, Graph
    <3> HIDE DEF o, c
    <3>6. GraphIs(t, [fg[t] EXCEPT !.out_eof = o, !.consumers_done = c])
      BY <2>1, <3>4, <3>5, GraphMarks
    <3> QED BY <2>1, <3>2, <3>6
  <2>2. CASE t \notin Filters
    BY <1>2, <2>2 DEF SendEof
  <2> QED BY <2>1, <2>2
<1>3. CASE t \in Filters /\ FilterItem(t)
  <2>1. queue[t] # <<>> /\ (fg' = fg \/ fg' = [fg EXCEPT ![t] = Fed(t, Head(queue[t]))])
    BY <1>3 DEF FilterItem, TakeItem, HasItem
  <2>2. Head(queue[t]) \in Items /\ Head(queue[t]).in \in Inputs(t)
    BY <1>3, <2>1, HeadItem, FiltersAre
  <2>3. GraphIs(t, Fed(t, Head(queue[t])))
    BY <1>3, <2>2, FedIs
  <2> QED BY <1>3, <2>1, <2>3
<1>4. CASE t \in Filters /\ FilterUnconfigured(t)
  <2> DEFINE S == {i \in Inputs(t) : fg[t].got[i] = 0 /\ i \notin fg[t].eof}
  <2>1. GraphIs(t, fg[t]) /\ ~fg[t].configured /\ fg' = [fg EXCEPT ![t].next = Lowest(S)]
    BY <1>4 DEF FilterUnconfigured, GraphType
  <2>2. fg' = [fg EXCEPT ![t] = [fg[t] EXCEPT !.next = Lowest(S)]]
    BY <2>1
  <2>3. \A i \in Inputs(t) : fg[t].got[i] \in Nat
    BY <1>4, <2>1, FiltersAre DEF GraphIs, Graph
  <2>4. S \in SUBSET Nat /\ S # {} /\ S \subseteq 0 .. NbInputs[t]
    BY <1>4, <2>1, <2>3, FiltersAre, InputsAre DEF GraphIs, HasAllFormats
  <2> HIDE DEF S
  <2>5. Lowest(S) \in 0 .. NbInputs[t]
    BY <2>4, LowestIs
  <2>6. GraphIs(t, [fg[t] EXCEPT !.next = Lowest(S)])
    BY <1>4, <2>1, <2>5, GraphMarks
  <2> QED BY <1>4, <2>2, <2>6
<1>5. CASE t \in Filters /\ FilterFrame(t)
  <2>1. GraphIs(t, fg[t]) /\ fg' = [fg EXCEPT ![t].made = @ + 1]
    BY <1>5 DEF FilterFrame, GraphType
  <2>2. fg' = [fg EXCEPT ![t] = [fg[t] EXCEPT !.made = fg[t].made + 1]]
    BY <2>1
  <2>3. GraphIs(t, [fg[t] EXCEPT !.made = fg[t].made + 1])
    BY <1>5, <2>1, GraphMarks
  <2> QED BY <1>5, <2>2, <2>3
<1>6. CASE t \in Filters /\ CloseOutput(t)
  <2>1. PICK n \in Targets(t) : fg' = [fg EXCEPT ![t].out_eof = @ \cup {n.out}]
    BY <1>6 DEF CloseOutput
  <2> DEFINE o == fg[t].out_eof \cup {n.out}
  <2>2. fg' = [fg EXCEPT ![t] = [fg[t] EXCEPT !.out_eof = o]]
    BY <2>1
  <2>3. GraphIs(t, fg[t]) /\ n \in EdgeRecords
    BY <1>6, DstIs DEF GraphType
  <2>4. o \in SUBSET Nat
    BY <2>3 DEF GraphIs, Graph, EdgeRecords
  <2> HIDE DEF o
  <2>5. GraphIs(t, [fg[t] EXCEPT !.out_eof = o])
    BY <1>6, <2>3, <2>4, GraphMarks
  <2> QED BY <1>6, <2>2, <2>5
<1>7. CASE t \in Filters /\ FilterRequest(t)
  <2>1. CASE OpenInputs(t, fg[t]) = {}
    BY <1>7, <2>1 DEF FilterRequest
  <2>2. CASE OpenInputs(t, fg[t]) # {}
    <3> DEFINE want == Lowest({i \in OpenInputs(t, fg[t]) : fg[t].got[i] = fg[t].made})
               n == IF want = NbInputs[t] THEN fg[t].got[NbInputs[t]] + 1
                                          ELSE fg[t].got[NbInputs[t]]
    <3>1. /\ fg' = [fg EXCEPT ![t].next = want,
                              ![t].got[NbInputs[t]] = IF want = NbInputs[t] THEN @ + 1 ELSE @]
          /\ fg[t].made = Producible(t, fg[t])
      BY <1>7, <2>2 DEF FilterRequest, NoMoreFrames
    <3>2. want \in 0 .. NbInputs[t]
      BY <1>7, <2>2, <3>1, SomeInputWanted
    <3> HIDE DEF want
    <3>3. GraphIs(t, fg[t]) /\ fg[t].got \in [0 .. NbInputs[t] -> Nat]
      BY <1>7 DEF GraphType, GraphIs, Graph
    <3>4. n \in Nat
      BY <1>7, <3>3, FiltersAre
    <3>5. fg' = [fg EXCEPT ![t] =
              [fg[t] EXCEPT !.next = want, !.got = [fg[t].got EXCEPT ![NbInputs[t]] = n]]]
      <4>1. t \in DOMAIN fg /\ fg[t] \in Graph(t)
        BY <1>7, <3>3 DEF GraphType, GraphIs
      <4> QED BY <3>1, <4>1 DEF Graph
    <3> HIDE DEF n
    <3>6. GraphIs(t, [fg[t] EXCEPT !.next = want, !.got = [fg[t].got EXCEPT ![NbInputs[t]] = n]])
      BY <1>7, <3>2, <3>3, <3>4, GraphMarks
    <3> QED BY <1>7, <3>5, <3>6
  <2> QED BY <2>1, <2>2
<1> QED BY <1>1, <1>2, <1>3, <1>4, <1>5, <1>6, <1>7 DEF FeedsGraph

LEMMA GraphNext ==
    ASSUME GraphType, QueueInv, TodoType, [Next]_vars
    PROVE  GraphType'
<1>1. CASE \E t \in Tasks : FeedsGraph(t)
  <2>1. CASE UNCHANGED fg
    BY <2>1 DEF GraphType, GraphIs, HasAllFormats
  <2>2. CASE \E f \in Filters : \E g : GraphIs(f, g) /\ fg' = [fg EXCEPT ![f] = g]
    BY <2>2, GraphKeeps
  <2> QED BY <1>1, <2>1, <2>2, FeedsGraphType
<1>2. CASE ~(\E t \in Tasks : FeedsGraph(t))
  BY <1>2, FeedsGraphAside DEF GraphType, GraphIs, HasAllFormats
<1> QED BY <1>1, <1>2

--------------------------------------------------------------------------------
(* The steps of a task, by what they do to the rest of its sch_*() call.    *)

\* Operations that call tq_send().
SendOps == {"send", "flush"}

\* It neither sends nor finishes anything new, and was not at the end of a
\* stream.
Other(ops) == ops \notin SendOps \cup {"finish", "ready", "count"}

Neutral(t) ==
    /\ \E n : \E I \in SUBSET DOMAIN todo[t] :
          Moves(t, n, I) /\ \A j \in 1 .. n : Other(todo'[t][j].op)
    /\ todo[t] # <<>> => todo[t][1].op # "finish"

LEMMA NeutralPast ==
    ASSUME TodoType, NEW t \in Tasks, NEW op, At(t, op), op # "finish", Proceed(t)
    PROVE  Neutral(t)
<1>1. todo[t] # <<>> /\ todo[t][1].op = op /\ Len(todo[t]) \in Nat /\ DOMAIN todo[t] = 1 .. Len(todo[t])
  <2>1. todo[t] \in Seq(Ops) /\ todo[t] # <<>> /\ todo[t][1].op = op
    BY HeadIs DEF At
  <2> QED BY <2>1
<1>2. Moves(t, 0, 2 .. Len(todo[t]))
  BY <1>1, MovesPast
<1>3. 2 .. Len(todo[t]) \in SUBSET DOMAIN todo[t] /\ 1 .. 0 = {}
  BY <1>1
<1> QED BY <1>1, <1>2, <1>3 DEF Neutral

LEMMA NeutralWith ==
    ASSUME TodoType, NEW t \in Tasks, NEW op, At(t, op), op # "finish",
           NEW x \in Ops, OpOK(t, x), Other(x.op), ProceedWith(t, <<x>>)
    PROVE  Neutral(t)
<1>1. todo[t] # <<>> /\ todo[t][1].op = op /\ Len(todo[t]) \in Nat /\ DOMAIN todo[t] = 1 .. Len(todo[t])
  <2>1. todo[t] \in Seq(Ops) /\ todo[t] # <<>> /\ todo[t][1].op = op
    BY HeadIs DEF At
  <2> QED BY <2>1
<1> DEFINE pre == <<x>>
<1>2. pre \in Seq(Ops) /\ Len(pre) = 1 /\ DOMAIN pre = {1} /\ pre[1] = x
  OBVIOUS
<1>3. todo' = [todo EXCEPT ![t] = pre \o Tail(@)]
  BY DEF ProceedWith
<1> HIDE DEF pre
<1>4. Moves(t, 1, 2 .. Len(todo[t])) /\ \A j \in 1 .. 1 : todo'[t][j] = pre[j]
  BY <1>1, <1>2, <1>3, MovesOn
<1>5. 2 .. Len(todo[t]) \in SUBSET DOMAIN todo[t] /\ 1 .. 1 = {1}
  BY <1>1
<1>6. \A j \in 1 .. 1 : Other(todo'[t][j].op)
  BY <1>2, <1>4, <1>5
<1> QED BY <1>1, <1>4, <1>5, <1>6 DEF Neutral

\* All it had to do was the operation it was at, or nothing.
LEMMA NeutralTo ==
    ASSUME TodoType, NEW t \in Tasks, NEW q \in Seq(Ops),
           \A j \in DOMAIN q : OpOK(t, q[j]) /\ Other(q[j].op),
           todo' = [todo EXCEPT ![t] = q], ~At(t, "finish"), ~Flushing(t)
    PROVE  Neutral(t)
<1>1. Moves(t, Len(q), {}) /\ todo'[t] = q
  BY MovesTo
<1>2. todo[t] # <<>> => todo[t][1].op # "finish"
  BY DEF At, TodoType
<1>3. \A j \in 1 .. Len(q) : Other(todo'[t][j].op)
  BY <1>1
<1> QED BY <1>1, <1>2, <1>3 DEF Neutral

LEMMA NeutralNone ==
    ASSUME TodoType, NEW t \in Tasks, todo' = [todo EXCEPT ![t] = <<>>],
           ~At(t, "finish"), ~Flushing(t)
    PROVE  Neutral(t)
<1>1. <<>> \in Seq(Ops) /\ DOMAIN <<>> = {}
  OBVIOUS
<1> QED BY <1>1, NeutralTo

LEMMA NeutralOne ==
    ASSUME TodoType, NEW t \in Tasks, NEW x \in Ops, OpOK(t, x), Other(x.op),
           todo' = [todo EXCEPT ![t] = <<x>>], ~At(t, "finish"), ~Flushing(t)
    PROVE  Neutral(t)
<1> DEFINE q == <<x>>
<1>1. q \in Seq(Ops) /\ DOMAIN q = {1} /\ q[1] = x
  OBVIOUS
<1> HIDE DEF q
<1>2. \A j \in DOMAIN q : OpOK(t, q[j]) /\ Other(q[j].op)
  BY <1>1
<1>3. todo' = [todo EXCEPT ![t] = q]
  BY DEF q
<1> QED BY <1>1, <1>2, <1>3, NeutralTo

LEMMA OpIs ==
    ASSUME NEW op \in OpNames, NEW n \in Places, NEW k \in Int
    PROVE  Op(op, n, k) \in Ops /\ Op(op, n, k).op = op /\ Op(op, n, k).to = n /\ Op(op, n, k).k = k
BY DEF Op, Ops

\* Operations that come one at a time.
LEMMA SingleOps ==
    /\ \A t \in Tasks, n \in Edges, k \in Int : n.task \in Muxers /\ t \notin Muxers =>
          LET x == Op("update", n, k) IN x \in Ops /\ OpOK(t, x) /\ Other(x.op)
    /\ \A m \in Muxers, ms \in MuxStreams, k \in Int :
          LET x == Op("update", ms, k) IN x \in Ops /\ OpOK(m, x) /\ Other(x.op)
    /\ \A m \in Muxers, ms \in MuxStreams : ms.task = m =>
          LET x == Op("hangup", ms, 0) IN x \in Ops /\ OpOK(m, x) /\ Other(x.op)
    /\ \A d \in Demuxers : \A n \in Targets(d) : n.task \in Decoders =>
          LET x == Op("await", n, 0) IN x \in Ops /\ OpOK(d, x) /\ Other(x.op)
    /\ \A f \in Filters, i \in Nat : i \in Inputs(f) =>
          LET x == Op("close", [task |-> f, in |-> i], 0) IN x \in Ops /\ OpOK(f, x) /\ Other(x.op)
    /\ \A f \in Filters, i \in Items :
          LET x == Op("choke_inputs", i, 0) IN x \in Ops /\ OpOK(f, x) /\ Other(x.op)
<1>1. ASSUME NEW t \in Tasks, NEW n \in Edges, NEW k \in Int, n.task \in Muxers, t \notin Muxers
      PROVE  LET x == Op("update", n, k) IN x \in Ops /\ OpOK(t, x) /\ Other(x.op)
  <2>1. MuxStream(n) \in MuxStreams
    BY <1>1, MuxStreamsAre
  <2> DEFINE x == Op("update", n, k)
  <2>2. x.op = "update" /\ x.to = n /\ x.k = k /\ x \in Ops
    BY OpIs DEF Places, OpNames
  <2> HIDE DEF x
  <2>3. OpOK(t, x)
    BY <1>1, <2>1, <2>2 DEF OpOK
  <2>4. Other(x.op)
    BY <2>2 DEF Other, SendOps
  <2> QED BY <2>2, <2>3, <2>4 DEF x
<1>2. ASSUME NEW m \in Muxers, NEW ms \in MuxStreams, NEW k \in Int
      PROVE  LET x == Op("update", ms, k) IN x \in Ops /\ OpOK(m, x) /\ Other(x.op)
  <2>1. MuxStream(ms) \in MuxStreams
    BY MuxStreamsAre
  <2> DEFINE x == Op("update", ms, k)
  <2>2. x.op = "update" /\ x.to = ms /\ x.k = k /\ x \in Ops
    BY OpIs DEF Places, OpNames
  <2> HIDE DEF x
  <2>3. OpOK(m, x)
    BY <2>1, <2>2 DEF OpOK
  <2>4. Other(x.op)
    BY <2>2 DEF Other, SendOps
  <2> QED BY <2>2, <2>3, <2>4 DEF x
<1>3. ASSUME NEW m \in Muxers, NEW ms \in MuxStreams, ms.task = m
      PROVE  LET x == Op("hangup", ms, 0) IN x \in Ops /\ OpOK(m, x) /\ Other(x.op)
  <2> DEFINE x == Op("hangup", ms, 0)
  <2>2. x.op = "hangup" /\ x.to = ms /\ x.k = 0 /\ x \in Ops
    BY OpIs DEF Places, OpNames
  <2> HIDE DEF x
  <2>3. OpOK(m, x)
    BY <1>3, <2>2 DEF OpOK
  <2>4. Other(x.op)
    BY <2>2 DEF Other, SendOps
  <2> QED BY <2>2, <2>3, <2>4 DEF x
<1>4. ASSUME NEW d \in Demuxers, NEW n \in Targets(d), n.task \in Decoders
      PROVE  LET x == Op("await", n, 0) IN x \in Ops /\ OpOK(d, x) /\ Other(x.op)
  <2>1. d \notin Muxers /\ n \in Edges
    BY KindsDiffer, DstIs DEF Tasks
  <2> DEFINE x == Op("await", n, 0)
  <2>2. x.op = "await" /\ x.to = n /\ x.k = 0 /\ x \in Ops
    BY <1>4, <2>1, OpIs DEF Places, OpNames
  <2> HIDE DEF x
  <2>3. OpOK(d, x)
    BY <1>4, <2>1, <2>2 DEF OpOK
  <2>4. Other(x.op)
    BY <2>2 DEF Other, SendOps
  <2> QED BY <2>2, <2>3, <2>4 DEF x
<1>5. ASSUME NEW f \in Filters, NEW i \in Nat, i \in Inputs(f)
      PROVE  LET x == Op("close", [task |-> f, in |-> i], 0) IN x \in Ops /\ OpOK(f, x) /\ Other(x.op)
  <2>1. f \notin Muxers /\ [task |-> f, in |-> i] \in FilterInputs
    BY <1>5, KindsDiffer DEF FilterInputs
  <2> DEFINE x == Op("close", [task |-> f, in |-> i], 0)
  <2>2. x.op = "close" /\ x.to = [task |-> f, in |-> i] /\ x.k = 0 /\ x \in Ops
    BY <1>5, <2>1, OpIs DEF Places, OpNames
  <2> HIDE DEF x
  <2>3. OpOK(f, x)
    BY <1>5, <2>1, <2>2 DEF OpOK
  <2>4. Other(x.op)
    BY <2>2 DEF Other, SendOps
  <2> QED BY <2>2, <2>3, <2>4 DEF x
<1>6. ASSUME NEW f \in Filters, NEW i \in Items
      PROVE  LET x == Op("choke_inputs", i, 0) IN x \in Ops /\ OpOK(f, x) /\ Other(x.op)
  <2>1. f \notin Muxers
    BY KindsDiffer
  <2> DEFINE x == Op("choke_inputs", i, 0)
  <2>2. x.op = "choke_inputs" /\ x.to = i /\ x.k = 0 /\ x \in Ops
    BY OpIs DEF Places, OpNames
  <2> HIDE DEF x
  <2>3. OpOK(f, x)
    BY <2>1, <2>2 DEF OpOK
  <2>4. Other(x.op)
    BY <2>2 DEF Other, SendOps
  <2> QED BY <2>2, <2>3, <2>4 DEF x
<1> QED BY <1>1, <1>2, <1>3, <1>4, <1>5, <1>6

\* The steps of that kind; those that only drop the operation they were at.
LEMMA NeutralProceeds ==
    ASSUME TodoType, NEW t \in Tasks,
           \/ StreamReady(t) \/ MuxUpdate(t) \/ TaskExited(t) \/ FlushAwait(t) \/ NoEndTs(t)
           \/ MuxCount(t) \/ ChokeInputs(t) \/ CloseInput(t)
    PROVE  Neutral(t)
<1>1. \E op : At(t, op) /\ op # "finish" /\ Proceed(t)
  <2>1. CASE StreamReady(t) \/ MuxUpdate(t) \/ TaskExited(t)
    BY <2>1 DEF StreamReady, MuxUpdate, TaskExited
  <2>2. CASE FlushAwait(t) \/ NoEndTs(t) \/ MuxCount(t)
    BY <2>2 DEF FlushAwait, NoEndTs, MuxCount
  <2>3. CASE ChokeInputs(t) \/ CloseInput(t)
    BY <2>3 DEF ChokeInputs, CloseInput
  <2> QED BY <2>1, <2>2, <2>3
<1> QED BY <1>1, NeutralPast

LEMMA NeutralSends ==
    ASSUME TodoType, NEW t \in Tasks,
           SendItem(t) \/ (PreMux(t) /\ At(t, "send")) \/ (t \in Demuxers /\ FlushSend(t))
    PROVE  Neutral(t)
<1>1. At(t, "send") => To(t) \in Targets(t) /\ To(t) \in Edges /\ t \notin Muxers /\ Item(t) \in Int
  BY NextOp, HeadIs, DstIs
<1>2. CASE SendItem(t)
  <2>1. /\ At(t, "send")
        /\ To(t).task \in Muxers => ProceedWith(t, <<Op("update", To(t), Item(t))>>)
        /\ To(t).task \notin Muxers => Proceed(t)
    BY <1>2 DEF SendItem, CallsSend, Sendable
  <2>2. CASE To(t).task \in Muxers
    <3> DEFINE x == Op("update", To(t), Item(t))
    <3>1. x \in Ops /\ OpOK(t, x) /\ Other(x.op)
      BY <1>1, <2>1, <2>2, SingleOps
    <3>2. ProceedWith(t, <<x>>)
      BY <2>1, <2>2
    <3> HIDE DEF x
    <3> QED BY <2>1, <3>1, <3>2, NeutralWith
  <2>3. CASE To(t).task \notin Muxers
    BY <2>1, <2>3, NeutralPast
  <2> QED BY <2>2, <2>3
<1>3. CASE PreMux(t) /\ At(t, "send")
  <2> DEFINE x == Op("update", To(t), Item(t))
  <2>1. To(t).task \in Muxers /\ ProceedWith(t, <<x>>)
    BY <1>3 DEF PreMux, Parking
  <2>2. x \in Ops /\ OpOK(t, x) /\ Other(x.op)
    BY <1>1, <1>3, <2>1, SingleOps
  <2> HIDE DEF x
  <2> QED BY <1>3, <2>1, <2>2, NeutralWith
<1>4. CASE t \in Demuxers /\ FlushSend(t)
  <2>1. /\ At(t, "flush")
        /\ ProceedWith(t, IF To(t).task \in EndTs THEN <<Op("await", To(t), 0)>> ELSE <<>>)
    BY <1>4 DEF FlushSend
  <2>2. CASE To(t).task \in EndTs
    <3> DEFINE x == Op("await", To(t), 0)
    <3>1. To(t) \in Targets(t) /\ To(t).task \in Decoders
      BY <2>1, NextOp
    <3>2. x \in Ops /\ OpOK(t, x) /\ Other(x.op)
      BY <1>4, <3>1, SingleOps
    <3>3. ProceedWith(t, <<x>>)
      BY <2>1, <2>2
    <3> HIDE DEF x
    <3> QED BY <2>1, <3>2, <3>3, NeutralWith
  <2>3. CASE To(t).task \notin EndTs
    <3>1. Proceed(t)
      <4>1. todo' = [todo EXCEPT ![t] = <<>> \o Tail(@)]
        BY <2>1, <2>3 DEF ProceedWith
      <4>2. Tail(todo[t]) \in Seq(Ops)
        BY <2>1, HeadIs
      <4>3. <<>> \o Tail(todo[t]) = Tail(todo[t])
        BY <4>2
      <4> QED BY <4>1, <4>3 DEF Proceed
    <3> QED BY <2>1, <3>1, NeutralPast
  <2> QED BY <2>2, <2>3
<1> QED BY <1>2, <1>3, <1>4

LEMMA NotTwo ==
    ASSUME TodoType, NEW t \in Tasks, NEW op, At(t, op), op # "finish"
    PROVE  ~At(t, "finish") /\ ~Flushing(t)
BY DEF At

LEMMA IdleIs ==
    ASSUME NEW t, NEW label, Idle(t, label)
    PROVE  todo[t] = <<>> /\ ~Flushing(t) /\ pc[t] = label /\ \A op : ~At(t, op)
BY DEF Idle, At

LEMMA NeutralMuxer ==
    ASSUME TodoType, QueueInv, NEW t \in Muxers, MuxItem(t) \/ MuxHangUp(t)
    PROVE  Neutral(t)
<1>1. t \in Tasks /\ t \in Consumers
  BY DEF Tasks, Consumers
<1>2. CASE MuxItem(t)
  <2> DEFINE ms == [task |-> t, in |-> Head(queue[t]).in]
  <2>1. Idle(t, "loop") /\ queue[t] # <<>>
    BY <1>2 DEF MuxItem, TakeItem, HasItem
  <2>2. ms \in MuxStreams /\ ms.task = t
    BY <1>1, <2>1, HeadItem, MuxStreamsAre
  <2>3. UNCHANGED todo \/ todo' = [todo EXCEPT ![t] = <<Op("hangup", ms, 0)>>]
    BY <1>2 DEF MuxItem
  <2>4. todo[t] = <<>> /\ ~At(t, "finish") /\ ~Flushing(t)
    BY <2>1, IdleIs
  <2>5. CASE UNCHANGED todo
    <3>1. todo' = [todo EXCEPT ![t] = <<>>]
      BY <1>1, <2>4, <2>5 DEF TodoType
    <3> QED BY <1>1, <2>4, <3>1, NeutralNone
  <2>6. CASE todo' = [todo EXCEPT ![t] = <<Op("hangup", ms, 0)>>]
    <3> DEFINE x == Op("hangup", ms, 0)
    <3>1. x \in Ops /\ OpOK(t, x) /\ Other(x.op)
      BY <2>2, SingleOps
    <3> HIDE DEF x
    <3> QED BY <1>1, <2>4, <2>6, <3>1, NeutralOne DEF x
  <2> QED BY <2>3, <2>5, <2>6
<1>3. CASE MuxHangUp(t)
  <2> DEFINE x == Op("update", To(t), 0)
  <2>1. At(t, "hangup") /\ ProceedWith(t, <<x>>)
    BY <1>3 DEF MuxHangUp
  <2>2. To(t) \in MuxStreams
    BY <1>1, <2>1, NextOp
  <2>3. x \in Ops /\ OpOK(t, x) /\ Other(x.op)
    BY <2>2, SingleOps
  <2> HIDE DEF x
  <2> QED BY <1>1, <2>1, <2>3, NeutralWith
<1> QED BY <1>2, <1>3

LEMMA NeutralGivesUp ==
    ASSUME TodoType, NEW t \in Tasks,
           PreMuxFull(t) \/ FlushEof(t) \/ (t \in Encoders /\ CodecEnd(t))
    PROVE  Neutral(t)
<1>1. CASE PreMuxFull(t)
  <2>1. At(t, "send") /\ todo' = [todo EXCEPT ![t] = <<>>]
    BY <1>1 DEF PreMuxFull
  <2> QED BY <2>1, NotTwo, NeutralNone
<1>2. CASE FlushEof(t)
  <2>1. (At(t, "flush") \/ At(t, "await")) /\ todo' = [todo EXCEPT ![t] = <<>>]
    BY <1>2 DEF FlushEof
  <2>2. ~At(t, "finish") /\ ~Flushing(t)
    BY <2>1, NotTwo
  <2> QED BY <2>1, <2>2, NeutralNone
<1>3. CASE t \in Encoders /\ CodecEnd(t)
  <2>1. t \notin Decoders /\ Idle(t, "loop")
    BY <1>3, KindsDiffer DEF CodecEnd
  <2>2. todo[t] = <<>> /\ ~At(t, "finish") /\ ~Flushing(t)
    BY <2>1, IdleIs
  <2>3. todo' = [todo EXCEPT ![t] = <<>>]
    BY <1>3, <2>1, <2>2 DEF CodecEnd
  <2> QED BY <2>2, <2>3, NeutralNone
<1> QED BY <1>1, <1>2, <1>3

LEMMA NeutralFilter ==
    ASSUME TodoType, QueueInv, NEW t \in Filters, FilterItem(t) \/ FilterRequest(t)
    PROVE  Neutral(t)
<1>1. t \in Tasks /\ t \in Consumers /\ t \notin Muxers
  BY FiltersAre, KindsDiffer
<1>2. CASE FilterItem(t)
  <2> DEFINE x == Head(queue[t])
             y == Op("close", [task |-> t, in |-> x.in], 0)
             z == Op("choke_inputs", x, 0)
  <2>1. Idle(t, "loop") /\ queue[t] # <<>>
    BY <1>2 DEF FilterItem, Receiving, TakeItem, HasItem
  <2>2. x \in Items /\ x.in \in Inputs(t) /\ x.in \in Nat
    BY <1>1, <2>1, HeadItem, InputsAre
  <2>3. \/ todo' = [todo EXCEPT ![t] = <<y>>]
        \/ todo' = [todo EXCEPT ![t] = <<z>>]
        \/ todo' = [todo EXCEPT ![t] = <<>>]
    BY <1>2 DEF FilterItem
  <2>4. ~At(t, "finish") /\ ~Flushing(t)
    BY <2>1, IdleIs
  <2>5. y \in Ops /\ OpOK(t, y) /\ Other(y.op) /\ z \in Ops /\ OpOK(t, z) /\ Other(z.op)
    BY <2>2, SingleOps
  <2> HIDE DEF y, z
  <2> QED BY <1>1, <2>3, <2>4, <2>5, NeutralOne, NeutralNone
<1>3. CASE FilterRequest(t)
  <2> DEFINE ops == [j \in 1 .. NbInputs[t] |-> Op("close", [task |-> t, in |-> j - 1], 0)]
             full == {j \in DOMAIN ops : fg[t].got[j - 1] >= InputLimit[t]
                                      /\ ops[j].to \notin receive_finished}
             q == Subsequence(ops, full)
  <2>1. \E l : Idle(t, l)
    BY <1>3 DEF FilterRequest, NoMoreFrames
  <2>2. todo[t] = <<>> /\ ~At(t, "finish") /\ ~Flushing(t)
    BY <2>1, IdleIs
  <2>3. UNCHANGED todo \/ todo' = [todo EXCEPT ![t] = q]
    BY <1>3 DEF FilterRequest
  <2>4. CASE UNCHANGED todo
    <3>1. todo' = [todo EXCEPT ![t] = <<>>]
      BY <1>1, <2>2, <2>4 DEF TodoType
    <3> QED BY <1>1, <2>2, <3>1, NeutralNone
  <2>5. CASE todo' = [todo EXCEPT ![t] = q]
    <3>1. NbInputs[t] \in Nat /\ Inputs(t) = 0 .. NbInputs[t] - 1
      BY <1>1, InputsAre
    <3>2. \A j \in 1 .. NbInputs[t] : LET x == Op("close", [task |-> t, in |-> j - 1], 0) IN
              x \in Ops /\ OpOK(t, x) /\ Other(x.op)
      BY <3>1, SingleOps
    <3>3. /\ ops \in Seq(Ops) /\ DOMAIN ops = 1 .. NbInputs[t]
          /\ \A j \in DOMAIN ops : OpOK(t, ops[j]) /\ Other(ops[j].op)
      <4>1. DOMAIN ops = 1 .. NbInputs[t]
        OBVIOUS
      <4>2. \A j \in 1 .. NbInputs[t] : ops[j] \in Ops /\ OpOK(t, ops[j]) /\ Other(ops[j].op)
        BY <3>2
      <4> HIDE DEF ops
      <4>3. ops \in [1 .. NbInputs[t] -> Ops]
        <5>1. ops = [j \in 1 .. NbInputs[t] |-> ops[j]]
          BY DEF ops
        <5> QED BY <4>2, <5>1
      <4> QED BY <3>1, <4>1, <4>2, <4>3
    <3>4. full \in SUBSET DOMAIN ops
      OBVIOUS
    <3> HIDE DEF ops, full
    <3>5. q \in Seq(Ops) /\ Len(q) = Cardinality(full)
      BY <3>3, <3>4, SubsequenceIs
    <3>6. PICK at : Picks(at, q, ops, full)
      BY <3>3, <3>4, SubsequenceIs
    <3> HIDE DEF q
    <3>7. \A j \in DOMAIN q : at[j] \in full /\ q[j] = ops[at[j]]
      BY <3>5, <3>6 DEF Picks
    <3>8. \A j \in DOMAIN q : OpOK(t, q[j]) /\ Other(q[j].op)
      BY <3>3, <3>4, <3>7
    <3> QED BY <1>1, <2>2, <2>5, <3>5, <3>8, NeutralTo
  <2> QED BY <2>3, <2>4, <2>5
<1> QED BY <1>2, <1>3

\* It was at nothing, and now sends to destinations that have not been
\* finished, or finishes what a filtergraph has marked as over or what is
\* left when the task ends.
Fresh(t) ==
    /\ todo[t] = <<>> /\ Moves(t, Len(todo'[t]), {})
    /\ \A j \in DOMAIN todo'[t] :
          /\ todo'[t][j].op \notin {"ready", "count"}
          /\ todo'[t][j].op \in SendOps =>
                /\ \/ todo'[t][j].to \notin dst_finished[t]
                   \/ /\ t \in Filters /\ pc[t] # "cleanup"
                      /\ todo'[t][j].to.out \notin fg[t].out_eof
                /\ t \in Demuxers => pc'[t] = "loop"
                /\ \A i \in 1 .. j - 1 : todo'[t][i].op # "finish"
          /\ todo'[t][j].op = "finish" =>
                pc'[t] = "cleanup" \/ (t \in Filters => todo'[t][j].to.out \in fg'[t].out_eof)

LEMMA FreshSends ==
    ASSUME TodoType, NEW t \in Tasks, NEW label, Idle(t, label), NEW op \in SendOps, NEW N,
           NEW k \in Int, todo' = [todo EXCEPT ![t] = ForEach(DstWith(t, N), op, k)],
           t \in Demuxers => pc'[t] = "loop",
           \A n \in N \cap Targets(t) :
              /\ op = "send" /\ n.task \in Encoders \cup Muxers => k # 0
              /\ op = "flush" => n.task \in Decoders
              /\ n \notin dst_finished[t] \/ (t \in Filters /\ pc[t] # "cleanup"
                                                /\ n.out \notin fg[t].out_eof)
    PROVE  Fresh(t)
<1> DEFINE q == ForEach(DstWith(t, N), op, k)
<1>1. op \in OpNames
  BY DEF OpNames, SendOps
<1>2. q \in Seq(Ops) /\ \A j \in DOMAIN q : q[j].op = op /\ q[j].to \in N \cap Targets(t) /\ q[j].k = k
  BY <1>1, ForEachIs
<1> HIDE DEF q
<1>3. \A j \in DOMAIN q : t \notin Muxers
  BY <1>2, TargetKinds
<1>4. \A j \in DOMAIN q : OpOK(t, q[j])
  BY <1>2, <1>3 DEF OpOK, SendOps
<1>5. Moves(t, Len(q), {}) /\ todo'[t] = q
  BY <1>2, <1>4, MovesTo DEF q
<1>6. todo[t] = <<>>
  BY IdleIs
<1>7. \A j \in DOMAIN q : \A i \in 1 .. j - 1 : i \in DOMAIN q
  <2>1. DOMAIN q = 1 .. Len(q) /\ Len(q) \in Nat
    BY <1>2
  <2> QED BY <2>1
<1>8. \A j \in DOMAIN q : q[j].op = op /\ \A i \in 1 .. j - 1 : q[i].op = op
  BY <1>2, <1>7
<1>9. \A j \in DOMAIN q :
        q[j].to \notin dst_finished[t] \/ (t \in Filters /\ pc[t] # "cleanup"
                                             /\ q[j].to.out \notin fg[t].out_eof)
  BY <1>2
<1>10. op \notin {"ready", "count", "finish"}
  BY DEF SendOps
<1> QED BY <1>5, <1>6, <1>8, <1>9, <1>10 DEF Fresh

LEMMA FreshFlush ==
    ASSUME TodoType, NEW t \in Demuxers, DemuxFlush(t)
    PROVE  /\ Fresh(t)
           /\ \A j \in DOMAIN todo'[t] : todo'[t][j].op = "flush"
<1> DEFINE N == {n \in Targets(t) \ dst_finished[t] : n.task \in Decoders}
           op == "flush"
<1>1. t \in Tasks /\ Flush \in Int /\ op \in SendOps /\ op \in OpNames
  BY DEF Tasks, Flush, SendOps, OpNames
<1>2. /\ Idle(t, "loop") /\ pc'[t] = "loop"
      /\ todo' = [todo EXCEPT ![t] = ForEach(DstWith(t, N), op, Flush)]
  BY DEF DemuxFlush, OpenDecoders, Idle
<1>3. \A n \in N \cap Targets(t) :
          op = "flush" /\ n.task \in Decoders /\ n \notin dst_finished[t]
  OBVIOUS
<1>4. /\ ForEach(DstWith(t, N), op, Flush) \in Seq(Ops)
      /\ \A j \in DOMAIN ForEach(DstWith(t, N), op, Flush) :
            ForEach(DstWith(t, N), op, Flush)[j].op = op
  BY <1>1, ForEachIs
<1> HIDE DEF N
<1>5. Fresh(t)
  <2> HIDE DEF op
  <2>1. op # "send"
    BY DEF op
  <2> QED BY <1>1, <1>2, <1>3, <2>1, FreshSends
<1>6. todo'[t] = ForEach(DstWith(t, N), op, Flush)
  BY <1>1, <1>2 DEF TodoType
<1> QED BY <1>4, <1>5, <1>6

PosType == \A d \in Demuxers : pos[d] \in 0 .. Len(Script[d])

\* What a demuxer has read of a stream.
ReadOf(d, o, n) == Cardinality({j \in 1 .. n : Script[d][j].out = o})

LEMMA ReadOne ==
    ASSUME NEW d \in Demuxers, NEW o \in Int, NEW n \in Nat
    PROVE  /\ ReadOf(d, o, 0) = 0
           /\ ReadOf(d, o, n) \in Nat
           /\ ReadOf(d, o, n + 1) = ReadOf(d, o, n) + (IF Script[d][n + 1].out = o THEN 1 ELSE 0)
<1> DEFINE S(m) == {j \in 1 .. m : Script[d][j].out = o}
<1>1. S(0) = {} /\ S(n) \in SUBSET (1 .. n) /\ n + 1 \notin S(n)
  OBVIOUS
<1>2. S(n + 1) = IF Script[d][n + 1].out = o THEN S(n) \cup {n + 1} ELSE S(n)
  OBVIOUS
<1>3. IsFiniteSet(S(n)) /\ Cardinality(S(n)) \in Nat
  <2> HIDE DEF S
  <2> QED BY <1>1, UpTo
<1>4. Cardinality(S(n) \cup {n + 1}) = Cardinality(S(n)) + 1
  <2> HIDE DEF S
  <2> QED BY <1>1, <1>3, FS_AddElement
<1>5. Cardinality(S(0)) = 0
  <2> HIDE DEF S
  <2> QED BY <1>1, FS_EmptySet
<1>6. \A m : ReadOf(d, o, m) = Cardinality(S(m))
  BY DEF ReadOf
<1> HIDE DEF S
<1>7. CASE Script[d][n + 1].out = o
  BY <1>2, <1>3, <1>4, <1>5, <1>6, <1>7
<1>8. CASE Script[d][n + 1].out # o
  BY <1>2, <1>3, <1>5, <1>6, <1>8
<1> QED BY <1>7, <1>8

LEMMA ScriptIs ==
    ASSUME NEW d \in Demuxers, NEW n \in Nat, n + 1 \in DOMAIN Script[d],
           Script[d][n + 1].out # -1
    PROVE  Script[d][n + 1].k = ReadOf(d, Script[d][n + 1].out, n) + 1 /\ Script[d][n + 1].k \in Nat \ {0}
<1> DEFINE o == Script[d][n + 1].out
<1>1. o \in Int
  <2>1. Script[d] \in Seq([out : Int, k : Int])
    BY SchedulerAssumption
  <2>2. \A T : \A s \in Seq(T) : \A j \in DOMAIN s : s[j] \in T
    OBVIOUS
  <2>3. Script[d][n + 1] \in [out : Int, k : Int]
    BY <2>1, <2>2
  <2> QED BY <2>3
<1>2. Script[d][n + 1].k = ReadOf(d, o, n + 1)
  BY SchedulerAssumption DEF ReadOf
<1> HIDE DEF o
<1>3. Script[d][n + 1].out = o
  BY DEF o
<1>4. Script[d][n + 1].k = ReadOf(d, o, n) + 1 /\ ReadOf(d, o, n) \in Nat
  BY <1>1, <1>2, <1>3, ReadOne
<1> QED BY <1>4 DEF o

LEMMA FreshDemux ==
    ASSUME TodoType, PosType, NEW t \in Demuxers, DemuxSend(t)
    PROVE  Fresh(t)
<1> DEFINE N == {n \in Targets(t) \ dst_finished[t] : n.out = NextPacket(t).out}
           k == NextPacket(t).k
<1>1. t \in Tasks /\ "send" \in SendOps
  BY DEF Tasks, SendOps
<1>2. /\ Idle(t, "loop") /\ ~AtEnd(t) /\ ~Looping(t) /\ pc'[t] = "loop"
      /\ todo' = [todo EXCEPT ![t] = ForEach(DstWith(t, N), "send", k)]
  BY DEF DemuxSend, OpenDstOf, Idle
<1>3. pos[t] + 1 \in DOMAIN Script[t]
  <2>1. Len(Script[t]) \in Nat /\ DOMAIN Script[t] = 1 .. Len(Script[t])
    BY SchedulerAssumption
  <2> QED BY <1>2, <2>1 DEF AtEnd, PosType
<1>4. k \in Nat \ {0}
  <2>1. pos[t] \in Nat /\ Script[t][pos[t] + 1].out # -1
    BY <1>2 DEF PosType, NextPacket, Looping
  <2> QED BY <1>3, <2>1, ScriptIs DEF NextPacket
<1> HIDE DEF k
<1>5. k \in Int /\ \A n \in N \cap Targets(t) : k # 0 /\ n \notin dst_finished[t]
  BY <1>4
<1> HIDE DEF N
<1> QED BY <1>1, <1>2, <1>5, FreshSends

LEMMA FreshCodec ==
    ASSUME TodoType, QueueInv, NEW t \in Decoders \cup Encoders,
           CodecItem(t) \/ (t \in Decoders /\ CodecEnd(t))
    PROVE  Fresh(t)
<1> DEFINE N == Targets(t) \ dst_finished[t]
<1>1. t \in Tasks /\ t \in Consumers /\ t \notin Demuxers /\ "send" \in SendOps
  BY KindsDiffer DEF Tasks, Consumers, SendOps
<1>2. \A n \in Targets(t) : t \in Decoders => n.task \notin Encoders \cup Muxers
  BY <1>1, TargetKinds, KindsDiffer
<1>3. CASE CodecItem(t)
  <2> DEFINE k == Head(queue[t]).k
  <2>1. /\ Idle(t, "loop") /\ queue[t] # <<>>
        /\ todo' = [todo EXCEPT ![t] = ForEach(DstWith(t, N), "send", k)]
    BY <1>3 DEF CodecItem, TakeItem, HasItem, OpenDst
  <2>2. k \in Int /\ (t \in Encoders => k # 0)
    BY <1>1, <2>1, HeadItem DEF Items
  <2> HIDE DEF k
  <2>3. \A n \in N \cap Targets(t) :
            (n.task \in Encoders \cup Muxers => k # 0) /\ n \notin dst_finished[t]
    BY <1>2, <2>2
  <2> HIDE DEF N
  <2> QED BY <1>1, <2>1, <2>2, <2>3, FreshSends
<1>4. CASE t \in Decoders /\ CodecEnd(t)
  <2> DEFINE k == 0
  <2>1. /\ Idle(t, "loop") /\ k \in Int
        /\ todo' = [todo EXCEPT ![t] = ForEach(DstWith(t, N), "send", k)]
    BY <1>4 DEF CodecEnd, OpenDst
  <2>2. \A n \in N \cap Targets(t) :
            (n.task \in Encoders \cup Muxers => k # 0) /\ n \notin dst_finished[t]
    BY <1>2, <1>4
  <2> HIDE DEF N, k
  <2> QED BY <1>1, <2>1, <2>2, FreshSends
<1> QED BY <1>3, <1>4

LEMMA FreshFrame ==
    ASSUME TodoType, GraphType, NEW t \in Filters, FilterFrame(t)
    PROVE  Fresh(t)
<1> DEFINE N == {n \in Targets(t) : n.out \notin fg[t].out_eof}
           k == fg[t].made + 1
<1>1. t \in Tasks /\ k \in Int /\ k # 0 /\ t \notin Demuxers /\ "send" \in SendOps
  BY FiltersAre, KindsDiffer DEF GraphType, GraphIs, Graph, SendOps
<1>2. Idle(t, "frames") /\ todo' = [todo EXCEPT ![t] = ForEach(DstWith(t, N), "send", k)]
  BY DEF FilterFrame
<1>3. pc[t] = "frames"
  BY <1>2, IdleIs
<1>4. \A n \in N \cap Targets(t) :
          /\ n.task \in Encoders \cup Muxers => k # 0
          /\ n \notin dst_finished[t] \/ (t \in Filters /\ pc[t] # "cleanup"
                                            /\ n.out \notin fg[t].out_eof)
  BY <1>1, <1>3
<1> HIDE DEF k, N
<1> QED BY <1>1, <1>2, <1>4, FreshSends

LEMMA SeqWithin ==
    ASSUME NEW S, NEW A \in SUBSET S, NEW q \in Seq(S), \A j \in DOMAIN q : q[j] \in A
    PROVE  q \in Seq(A)
<1>1. q \in [1 .. Len(q) -> A] /\ Len(q) \in Nat
  OBVIOUS
<1> QED BY <1>1

LEMMA ShortLists ==
    ASSUME NEW S, NEW x \in S, NEW o \in S
    PROVE  <<>> \o <<x>> = <<x>> /\ <<o>> \o <<x>> = <<o, x>>
<1>1. <<x>> \in Seq(S) /\ <<o>> \in Seq(S) /\ <<o, x>> \in Seq(S)
  OBVIOUS
<1>2. \A s \in Seq(S) : <<>> \o s = s
  OBVIOUS
<1>3. <<>> \o <<x>> = <<x>>
  BY <1>1, <1>2
<1> DEFINE a == <<o>>  b == <<x>> c == <<o, x>>
<1>4. Len(a) = 1 /\ Len(b) = 1 /\ b[1] = x /\ a[1] = o /\ Len(c) = 2 /\ c[1] = o /\ c[2] = x
  OBVIOUS
<1> HIDE DEF a, b, c
<1>5. Len(a \o b) = 2 /\ (a \o b)[1] = o /\ (a \o b)[2] = x /\ a \o b \in Seq(S)
  BY <1>1, <1>4 DEF a, b
<1> DEFINE d == a \o b
<1> HIDE DEF d
<1>6. d = c
  <2>1. d \in [1 .. 2 -> S] /\ c \in [1 .. 2 -> S]
    <3>1. d \in Seq(S) /\ Len(d) = 2
      BY <1>5 DEF d
    <3>2. c \in Seq(S) /\ Len(c) = 2
      BY <1>1, <1>4 DEF c
    <3>3. d \in [1 .. Len(d) -> S] /\ c \in [1 .. Len(c) -> S]
        <4>1. ASSUME NEW q \in Seq(S) PROVE q \in [1 .. Len(q) -> S]
          OBVIOUS
        <4> QED BY <3>1, <3>2, <4>1
    <3> QED BY <3>1, <3>2, <3>3
  <2>2. \A i \in 1 .. 2 : d[i] = c[i]
    <3>1. \A i \in 1 .. 2 : i = 1 \/ i = 2
        OBVIOUS
    <3> QED BY <1>4, <1>5, <3>1 DEF d
  <2> QED BY <2>1, <2>2
<1> QED BY <1>3, <1>6 DEF a, b, c, d

LEMMA FreshClose ==
    ASSUME TodoType, GraphType, NEW t \in Filters, CloseOutput(t)
    PROVE  /\ Fresh(t)
           /\ \A j \in DOMAIN todo'[t] : todo'[t][j].op = "send" => j = 1 /\ todo'[t][j].k = 0
<1>1. t \in Tasks /\ t \notin Muxers \cup Demuxers /\ fg[t] \in Graph(t) /\ t \in DOMAIN fg
  BY FiltersAre, KindsDiffer DEF GraphType, GraphIs
<1>2. todo[t] = <<>> /\ pc[t] # "cleanup"
  <2>1. Idle(t, "frames") \/ Idle(t, "end")
    BY DEF CloseOutput, NoMoreFrames
  <2> QED BY <2>1, IdleIs
<1>3. PICK n \in Targets(t) :
          /\ n.out \notin fg[t].out_eof
          /\ fg' = [fg EXCEPT ![t].out_eof = @ \cup {n.out}]
          /\ todo' = [todo EXCEPT ![t] =
                (IF fg[t].got_frame THEN <<>>
                 ELSE <<Op(IF n.task \in Encoders THEN "init" ELSE "send", n, 0)>>)
                \o <<Op("finish", n, 0)>>]
  BY DEF CloseOutput
<1> DEFINE o == Op(IF n.task \in Encoders THEN "init" ELSE "send", n, 0)
           x == Op("finish", n, 0)
           q == (IF fg[t].got_frame THEN <<>> ELSE <<o>>) \o <<x>>
<1>4. n \in Places /\ n.task \notin Muxers
  BY <1>1, DstIs, TargetKinds, KindsDiffer DEF Places
<1>5. o \in Ops /\ o.to = n /\ o.k = 0 /\ (o.op = "init" \/ (o.op = "send" /\ n.task \notin Encoders))
  BY <1>4, OpIs DEF OpNames
<1>6. x \in Ops /\ x.to = n /\ x.op = "finish"
  BY <1>4, OpIs DEF OpNames
<1>7. OpOK(t, o) /\ OpOK(t, x)
  BY <1>1, <1>4, <1>5, <1>6 DEF OpOK
<1>8. todo' = [todo EXCEPT ![t] = q]
  BY <1>3
<1> HIDE DEF o, x
<1>9. q = <<x>> \/ q = <<o, x>>
  <2>1. x \in Ops /\ o \in Ops
    BY <1>5, <1>6
  <2>2. <<>> \o <<x>> = <<x>> /\ <<o>> \o <<x>> = <<o, x>>
    BY <2>1, ShortLists
  <2>3. CASE fg[t].got_frame
    BY <2>2, <2>3
  <2>4. CASE ~fg[t].got_frame
    BY <2>2, <2>4
  <2> QED BY <2>3, <2>4
<1>10. q \in Seq(Ops) /\ \A j \in DOMAIN q : OpOK(t, q[j])
  BY <1>5, <1>6, <1>7, <1>9
<1>11. \A j \in DOMAIN q : q[j] = x \/ (j = 1 /\ q[j] = o)
  BY <1>9
<1> HIDE DEF q
<1>12. Moves(t, Len(q), {}) /\ todo'[t] = q
  BY <1>1, <1>8, <1>10, MovesTo
<1>13. n.out \in fg'[t].out_eof
  BY <1>1, <1>3 DEF Graph
<1>14. \A j \in DOMAIN q : q[j].op = "send" => j = 1 /\ q[j] = o /\ q[j].k = 0
  BY <1>5, <1>6, <1>11
<1>15. ASSUME NEW j \in DOMAIN q
       PROVE  /\ q[j].op \notin {"ready", "count"} /\ q[j].to = n
              /\ q[j].op \in SendOps => \A i \in 1 .. j - 1 : q[i].op # "finish"
  <2>1. q[j].op \in {"finish", "init", "send"} /\ q[j].to = n
    BY <1>5, <1>6, <1>11
  <2> QED BY <1>14, <2>1 DEF SendOps
<1> QED BY <1>1, <1>2, <1>3, <1>12, <1>13, <1>14, <1>15 DEF Fresh

LEMMA FreshCleanup ==
    ASSUME TodoType, NEW t \in Tasks, Cleanup(t), pc = [u \in Tasks |-> pc[u]]
    PROVE  Fresh(t) /\ \A j \in DOMAIN todo'[t] : todo'[t][j].op \notin SendOps
<1> DEFINE S == {o \in Ops : OpOK(t, o) /\ o.op \in {"no_end_ts", "finish", "exit"}}
           a == IF t \in EndTs THEN <<Op("no_end_ts", t, 0)>> ELSE <<>>
           b == ForEach(OpenDst(t), "finish", 0)
           e == IF t \in Sources THEN <<Op("exit", t, 0)>> ELSE <<>>
           q == a \o b \o e
<1>1. t \notin Muxers /\ Idle(t, "returned") /\ GoTo(t, "cleanup") /\ todo' = [todo EXCEPT ![t] = q]
  BY DEF Cleanup
<1>2. todo[t] = <<>> /\ pc'[t] = "cleanup"
  BY <1>1, IdleIs DEF GoTo
<1>3. Op("no_end_ts", t, 0) \in S /\ (t \in Sources => Op("exit", t, 0) \in S)
  <2>1. t \in Places
    BY DEF Places
  <2>2. \A op \in {"no_end_ts", "exit"} : Op(op, t, 0) \in Ops /\ Op(op, t, 0).op = op
    BY <2>1, OpIs DEF OpNames
  <2>3. OpOK(t, Op("no_end_ts", t, 0)) /\ (t \in Sources => OpOK(t, Op("exit", t, 0)))
    BY <1>1, <2>2 DEF OpOK
  <2> QED BY <2>2, <2>3
<1>4. b \in Seq(S)
  <2>1. "finish" \in OpNames /\ 0 \in Int
    BY DEF OpNames
  <2>2. b \in Seq(Ops) /\ \A j \in DOMAIN b : b[j].op = "finish" /\ b[j].to \in Targets(t)
    BY <2>1, ForEachIs DEF OpenDst
  <2> HIDE DEF b
  <2>3. \A j \in DOMAIN b : OpOK(t, b[j])
    BY <1>1, <2>2 DEF OpOK
  <2>4. \A j \in DOMAIN b : b[j] \in S
    BY <2>2, <2>3
  <2>5. S \in SUBSET Ops
    OBVIOUS
  <2> HIDE DEF S
  <2> QED BY <2>2, <2>4, <2>5, SeqWithin
<1>5. a \in Seq(S) /\ e \in Seq(S)
  <2> HIDE DEF S
  <2> QED BY <1>3
<1>6. q \in Seq(S)
  <2> HIDE DEF S, a, b, e
  <2> QED BY <1>4, <1>5
<1>7. \A j \in DOMAIN q : q[j] \in S
  <2> HIDE DEF S, a, b, e
  <2> QED BY <1>6
<1>8. q \in Seq(Ops)
  <2>1. S \in SUBSET Ops
    OBVIOUS
  <2> HIDE DEF S, a, b, e
  <2> QED BY <1>6, <2>1
<1> HIDE DEF q
<1>9. \A j \in DOMAIN q : OpOK(t, q[j]) /\ q[j].op \in {"no_end_ts", "finish", "exit"}
  BY <1>7
<1>10. Moves(t, Len(q), {}) /\ todo'[t] = q
  BY <1>1, <1>8, <1>9, MovesTo
<1> QED BY <1>2, <1>9, <1>10 DEF Fresh, SendOps

\* It has finished the stream it was at the end of.
Finishes(t) ==
    /\ todo[t] # <<>> /\ todo[t][1].op = "finish" /\ To(t) = todo[t][1].to
    /\ \E n : Moves(t, n, 2 .. Len(todo[t])) /\ \A j \in 1 .. n : Other(todo'[t][j].op)
    /\ dst_finished' = [dst_finished EXCEPT ![t] = @ \cup {To(t)}]

LEMMA FinishesPast ==
    ASSUME TodoType, NEW t \in Tasks, At(t, "finish"), Proceed(t),
           dst_finished' = [dst_finished EXCEPT ![t] = @ \cup {To(t)}]
    PROVE  Finishes(t)
<1>1. todo[t] # <<>> /\ todo[t][1].op = "finish" /\ To(t) = todo[t][1].to
  BY HeadIs DEF At
<1>2. Moves(t, 0, 2 .. Len(todo[t]))
  BY <1>1, MovesPast
<1>3. 1 .. 0 = {}
  OBVIOUS
<1> QED BY <1>1, <1>2, <1>3 DEF Finishes

LEMMA FinishesUpdate ==
    ASSUME TodoType, NEW t \in Tasks, At(t, "finish"), To(t).task \in Muxers,
           ProceedWith(t, <<Op("update", To(t), 0)>>),
           dst_finished' = [dst_finished EXCEPT ![t] = @ \cup {To(t)}]
    PROVE  Finishes(t)
<1> DEFINE x == Op("update", To(t), 0)
           pre == <<x>>
<1>1. todo[t] # <<>> /\ todo[t][1].op = "finish" /\ To(t) = todo[t][1].to
  BY HeadIs DEF At
<1>2. To(t) \in Edges /\ t \notin Muxers
  BY NextOp, DstIs
<1>3. x \in Ops /\ OpOK(t, x) /\ Other(x.op)
  BY <1>2, SingleOps
<1>4. todo' = [todo EXCEPT ![t] = pre \o Tail(@)]
  BY DEF ProceedWith
<1> HIDE DEF x
<1>5. pre \in Seq(Ops) /\ Len(pre) = 1 /\ DOMAIN pre = {1} /\ pre[1] = x
  BY <1>3
<1> HIDE DEF pre
<1>6. Moves(t, 1, 2 .. Len(todo[t])) /\ \A j \in 1 .. 1 : todo'[t][j] = pre[j]
  BY <1>1, <1>3, <1>4, <1>5, MovesOn
<1>7. \A j \in 1 .. 1 : Other(todo'[t][j].op)
  BY <1>3, <1>5, <1>6
<1> QED BY <1>1, <1>6, <1>7 DEF Finishes

LEMMA FinishesAre ==
    ASSUME TodoType, NEW t \in Tasks,
           \/ Finish(t) \/ FinishFilterInput(t) \/ PreMuxEndLost(t)
           \/ PreMux(t) /\ At(t, "finish")
    PROVE  Finishes(t)
<1>1. CASE Finish(t)
  <2>1. /\ At(t, "finish") /\ dst_finished' = [dst_finished EXCEPT ![t] = @ \cup {To(t)}]
        /\ \/ To(t).task \in Muxers /\ ProceedWith(t, <<Op("update", To(t), 0)>>)
           \/ Proceed(t)
    BY <1>1 DEF Finish
  <2> QED BY <2>1, FinishesPast, FinishesUpdate
<1>2. CASE FinishFilterInput(t) \/ PreMuxEndLost(t)
  <2>1. /\ At(t, "finish") /\ dst_finished' = [dst_finished EXCEPT ![t] = @ \cup {To(t)}]
        /\ Proceed(t)
    BY <1>2 DEF FinishFilterInput, PreMuxEndLost
  <2> QED BY <2>1, FinishesPast
<1>3. CASE PreMux(t) /\ At(t, "finish")
  <2>1. ~At(t, "send")
    BY <1>3 DEF At
  <2>2. /\ dst_finished' = [dst_finished EXCEPT ![t] = @ \cup {To(t)}]
        /\ To(t).task \in Muxers /\ ProceedWith(t, <<Op("update", To(t), 0)>>)
    BY <1>3, <2>1 DEF PreMux, Parking
  <2> QED BY <1>3, <2>2, FinishesUpdate
<1> QED BY <1>1, <1>2, <1>3

\* The other side has closed the stream: it goes over to its end.
Turns(t) ==
    /\ todo[t] # <<>> /\ todo[t][1].op = "send" /\ todo[t][1].to = To(t)
    /\ Moves(t, 1, {j \in DOMAIN todo[t] : todo[t][j].to # To(t)})
    /\ todo'[t][1].op = "finish" /\ todo'[t][1].to = To(t)

LEMMA SendEofTurns ==
    ASSUME TodoType, NEW t \in Tasks, SendEof(t)
    PROVE  Turns(t)
<1> DEFINE x == Op("finish", To(t), 0)
           n == To(t)
<1>1. At(t, "send") /\ todo' = [todo EXCEPT ![t] =
          <<x>> \o Subsequence(@, {j \in DOMAIN @ : @[j].to # n})]
  BY DEF SendEof, Sendable
<1>2. todo[t] # <<>> /\ todo[t][1].op = "send" /\ todo[t][1].to = n
  BY <1>1, HeadIs DEF At
<1>3. n \in Targets(t) /\ t \notin Muxers
  BY <1>1, NextOp
<1>4. x \in Ops /\ x.op = "finish" /\ x.to = n
  BY <1>3, OpIs, DstIs DEF Places, OpNames
<1>5. OpOK(t, x)
  BY <1>3, <1>4 DEF OpOK
<1> HIDE DEF x, n
<1> DEFINE I == {j \in DOMAIN todo[t] : todo[t][j].to # n}
<1>6. I \in SUBSET DOMAIN todo[t] /\ todo' = [todo EXCEPT ![t] = <<x>> \o Subsequence(todo[t], I)]
  BY <1>1
<1> HIDE DEF I
<1>7. Moves(t, 1, I) /\ todo'[t][1] = x
  BY <1>4, <1>5, <1>6, MovesApart
<1> QED BY <1>2, <1>4, <1>7 DEF Turns, n, I

\* It opens an encoder, whose streams it will report as ready.
Opens(t) ==
    /\ todo[t] # <<>> /\ todo[t][1].op # "finish"
    /\ \E e \in Encoders \ opened : \E I \in SUBSET DOMAIN todo[t] :
          /\ opened' = opened \cup {e}
          /\ Moves(t, Len(Dst[e]), I)
          /\ \A j \in 1 .. Len(Dst[e]) : todo'[t][j] = Op("ready", Dst[e][j], 0)

LEMMA EncOpenOpens ==
    ASSUME TodoType, NEW t \in Tasks, EncOpen(t)
    PROVE  /\ Opens(t)
           /\ \E pre \in Seq(Ops) :
                 /\ \A j \in DOMAIN pre : pre[j].op \notin SendOps
                 /\ todo'[t] = pre \o (IF At(t, "init") THEN Tail(todo[t]) ELSE todo[t])
<1> DEFINE e == To(t).task
           pre == [j \in DOMAIN Dst[e] |-> Op("ready", Dst[e][j], 0)]
<1>1. /\ At(t, "send") \/ At(t, "init")
      /\ e \in Encoders \ opened /\ opened' = opened \cup {e}
      /\ todo' = [todo EXCEPT ![t] = pre \o (IF At(t, "init") THEN Tail(@) ELSE @)]
  BY DEF EncOpen
<1>2. todo[t] # <<>> /\ todo[t][1].op # "finish" /\ todo[t] \in Seq(Ops)
  BY <1>1, HeadIs DEF At
<1>3. t \in Filters /\ t \notin Muxers
  <2>1. To(t) \in Targets(t) /\ t \notin Muxers
    BY <1>1, NextOp
  <2>2. t \notin Demuxers /\ t \notin Decoders /\ t \notin Encoders
    BY <1>1, <2>1, TargetKinds, KindsDiffer
  <2> QED BY <2>1, <2>2 DEF Tasks, Consumers
<1>4. e \in Tasks /\ Dst[e] \in Seq(EdgeRecords) /\ DOMAIN Dst[e] = 1 .. Len(Dst[e])
        /\ Len(Dst[e]) \in Nat
  <2>1. e \in Tasks
    BY <1>1 DEF Tasks, Consumers
  <2>2. Dst[e] \in Seq(EdgeRecords)
    BY <2>1, DstIs
  <2> QED BY <2>1, <2>2
<1>5. ASSUME NEW j \in DOMAIN Dst[e]
      PROVE  LET x == Op("ready", Dst[e][j], 0) IN x \in Ops /\ OpOK(t, x)
  <2> DEFINE x == Op("ready", Dst[e][j], 0)
  <2>1. Dst[e][j] \in Edges /\ Dst[e][j].task \in Muxers
    BY <1>1, <1>4, DstIs, TargetKinds
  <2>2. x \in Ops /\ x.op = "ready" /\ x.to = Dst[e][j]
    BY <2>1, OpIs DEF Places, OpNames
  <2> HIDE DEF x
  <2>3. OpOK(t, x)
    BY <1>3, <2>1, <2>2 DEF OpOK
  <2> QED BY <2>2, <2>3 DEF x
<1>6. /\ pre \in Seq(Ops) /\ Len(pre) = Len(Dst[e])
      /\ \A j \in DOMAIN pre : OpOK(t, pre[j]) /\ pre[j] = Op("ready", Dst[e][j], 0)
  <2>1. DOMAIN pre = 1 .. Len(Dst[e])
    BY <1>4
  <2>2. \A j \in DOMAIN pre : pre[j] \in Ops /\ OpOK(t, pre[j]) /\ pre[j] = Op("ready", Dst[e][j], 0)
    BY <1>5
  <2>3. pre = [j \in 1 .. Len(Dst[e]) |-> pre[j]]
    BY <2>1
  <2> HIDE DEF pre
  <2>4. pre \in [1 .. Len(Dst[e]) -> Ops]
    BY <2>1, <2>2, <2>3
  <2> QED BY <1>4, <2>1, <2>2, <2>4
<1> HIDE DEF pre
<1>7. \E I \in SUBSET DOMAIN todo[t] :
          Moves(t, Len(pre), I) /\ \A j \in 1 .. Len(pre) : todo'[t][j] = pre[j]
  <2>1. CASE At(t, "init")
    <3>1. todo' = [todo EXCEPT ![t] = pre \o Tail(@)]
      BY <1>1, <2>1
    <3>2. 2 .. Len(todo[t]) \in SUBSET DOMAIN todo[t]
      BY <1>2
    <3> QED BY <1>2, <1>6, <3>1, <3>2, MovesOn
  <2>2. CASE ~At(t, "init")
    <3>1. todo' = [todo EXCEPT ![t] = pre \o @]
      BY <1>1, <2>2
    <3> QED BY <1>6, <3>1, MovesBefore
  <2> QED BY <2>1, <2>2
<1>8. \A j \in 1 .. Len(pre) : j \in DOMAIN pre
  BY <1>6
<1>9. \E I \in SUBSET DOMAIN todo[t] :
          /\ Moves(t, Len(Dst[e]), I)
          /\ \A j \in 1 .. Len(Dst[e]) : todo'[t][j] = Op("ready", Dst[e][j], 0)
  BY <1>6, <1>7, <1>8
<1>10. \A j \in DOMAIN pre : pre[j].op \notin SendOps
  BY <1>6 DEF Op, SendOps
<1>11. todo'[t] = pre \o (IF At(t, "init") THEN Tail(todo[t]) ELSE todo[t])
  BY <1>1 DEF TodoType
<1> QED BY <1>1, <1>2, <1>6, <1>9, <1>10, <1>11 DEF Opens

\* It ends as a muxer.
Counts(t) ==
    /\ t \in Muxers
    /\ Moves(t, 1, {}) /\ todo'[t] = <<Op("count", t, 0)>> /\ Op("count", t, 0).op = "count"

LEMMA MuxDoneCounts ==
    ASSUME TodoType, NEW t \in Muxers, MuxDone(t)
    PROVE  Counts(t)
<1> DEFINE x == Op("count", t, 0)
           q == <<x>>
<1>1. t \in Tasks /\ t \in Places
  BY DEF Tasks, Consumers, Places
<1>2. x \in Ops /\ x.op = "count" /\ x.to = t
  BY <1>1, OpIs DEF OpNames
<1>3. todo' = [todo EXCEPT ![t] = q]
  BY DEF MuxDone
<1> HIDE DEF x
<1>4. OpOK(t, x)
  BY <1>2 DEF OpOK
<1>5. q \in Seq(Ops) /\ DOMAIN q = {1} /\ q[1] = x /\ Len(q) = 1
  BY <1>2
<1>6. todo' = [todo EXCEPT ![t] = q]
  BY <1>3
<1> HIDE DEF q
<1>7. \A j \in DOMAIN q : OpOK(t, q[j])
  BY <1>4, <1>5
<1>8. Moves(t, Len(q), {}) /\ todo'[t] = q
  BY <1>1, <1>5, <1>6, <1>7, MovesTo
<1> QED BY <1>2, <1>5, <1>8 DEF Counts, q, x

Acts(t) ==
    \/ EncOpen(t) \/ StreamReady(t) \/ PreMux(t) \/ PreMuxFull(t)
    \/ PreMuxEndLost(t) \/ SendItem(t) \/ SendEof(t) \/ Finish(t)
    \/ FinishFilterInput(t) \/ MuxUpdate(t) \/ Cleanup(t) \/ TaskExited(t)
    \/ t \in Demuxers /\ (DemuxSend(t) \/ DemuxFlush(t) \/ FlushSend(t) \/ FlushAwait(t) \/ FlushEof(t))
    \/ t \in Decoders \cup Encoders /\ (CodecItem(t) \/ CodecEnd(t))
    \/ t \in Decoders /\ NoEndTs(t)
    \/ t \in Muxers /\ (MuxItem(t) \/ MuxHangUp(t) \/ MuxDone(t) \/ MuxCount(t))
    \/ t \in Filters /\ (FilterItem(t) \/ ChokeInputs(t) \/ CloseInput(t) \/ FilterFrame(t) \/ CloseOutput(t) \/ FilterRequest(t))

\* The steps in which no task begins or goes on with a sch_*() call.
LEMMA ActsAside ==
    ASSUME [Next]_vars, ~(\E t \in Tasks : Acts(t))
    PROVE  UNCHANGED todo
<1>1. ASSUME NEW t \in Tasks, TaskStep(t) \/ Fail(t), ~Acts(t) PROVE UNCHANGED todo
  <2>1. CASE FlushStep(t) \/ FlushEnd(t) \/ MuxStarted(t)
    BY <2>1 DEF FlushStep, FlushEnd, MuxStarted
  <2>2. CASE Fail(t)
    BY <2>2 DEF Fail
  <2>3. CASE DemuxSkip(t) \/ DemuxReturn(t)
    BY <2>3 DEF DemuxSkip, DemuxReturn
  <2>4. CASE DecoderStop(t) \/ DecoderFlush(t) \/ DecoderEndTs(t)
    BY <2>4 DEF DecoderStop, DecoderFlush, DecoderEndTs
  <2>5. CASE MuxEnd(t) \/ MuxReturn(t)
    BY <2>5 DEF MuxEnd, MuxReturn
  <2>6. CASE \/ FilterPrefer(t) \/ FilterStreamEnd(t) \/ FilterNothing(t)
            \/ FilterTurn(t) \/ FilterUnconfigured(t)
    BY <2>6 DEF FilterPrefer, FilterStreamEnd, FilterNothing, FilterTurn,
              FilterUnconfigured
  <2>7. CASE FilterRead(t) \/ FilterConsumersDone(t) \/ FilterReturn(t)
    BY <2>7 DEF FilterRead, FilterConsumersDone, FilterReturn
  <2> QED
    BY <1>1, <2>1, <2>2, <2>3, <2>4, <2>5, <2>6, <2>7
    DEF Acts, TaskStep, Continue, DemuxStep, CodecStep, DecoderStep,
        MuxStep, FilterStep
<1>2. CASE MainStep \/ Interrupt
  BY <1>2 DEF MainStart, MainTerminate, Interrupt, MainChokeAll, MainJoined,
              MainStep
<1>3. CASE UNCHANGED vars
  BY <1>3 DEF vars
<1> QED BY <1>1, <1>2, <1>3 DEF Next, Run

\* Where a task sends, or closes, what it has not yet begun with.
Begins(t) ==
    \/ t \in Demuxers /\ (DemuxSend(t) \/ DemuxFlush(t))
    \/ t \in Decoders \cup Encoders /\ (CodecItem(t) \/ (t \in Decoders /\ CodecEnd(t)))
    \/ t \in Filters /\ (FilterFrame(t) \/ CloseOutput(t))
    \/ Cleanup(t)

\* All steps of a task that change what it has yet to do.
LEMMA ActsKinds ==
    ASSUME TodoType, QueueInv, GraphType, PosType, pc = [u \in Tasks |-> pc[u]],
           NEW t \in Tasks, Acts(t)
    PROVE  \/ Neutral(t)
           \/ Fresh(t) /\ Begins(t)
           \/ Opens(t) /\ EncOpen(t)
           \/ Counts(t) /\ MuxDone(t)
           \/ Finishes(t) /\ (Finish(t) \/ FinishFilterInput(t) \/ PreMuxEndLost(t) \/ PreMux(t))
           \/ Turns(t) /\ SendEof(t)
<1>1. CASE \/ StreamReady(t) \/ MuxUpdate(t) \/ TaskExited(t)
           \/ t \in Demuxers /\ FlushAwait(t)
           \/ t \in Decoders /\ NoEndTs(t)
           \/ t \in Muxers /\ MuxCount(t)
           \/ t \in Filters /\ (ChokeInputs(t) \/ CloseInput(t))
  BY <1>1, NeutralProceeds
<1>2. CASE SendItem(t) \/ (t \in Demuxers /\ FlushSend(t))
  BY <1>2, NeutralSends
<1>3. CASE PreMux(t)
  <2>1. At(t, "send") \/ At(t, "finish")
    BY <1>3 DEF PreMux
  <2> QED BY <1>3, <2>1, NeutralSends, FinishesAre
<1>4. CASE t \in Muxers /\ (MuxItem(t) \/ MuxHangUp(t))
  BY <1>4, NeutralMuxer
<1>5. CASE \/ PreMuxFull(t)
           \/ t \in Demuxers /\ FlushEof(t)
           \/ t \in Encoders /\ CodecEnd(t)
  BY <1>5, NeutralGivesUp
<1>6. CASE t \in Demuxers /\ DemuxFlush(t)
  BY <1>6, FreshFlush DEF Begins
<1>7. CASE t \in Filters /\ (FilterItem(t) \/ FilterRequest(t))
  BY <1>7, NeutralFilter
<1>8. CASE t \in Demuxers /\ DemuxSend(t)
  BY <1>8, FreshDemux DEF Begins
<1>9. CASE t \in Decoders \cup Encoders /\ (CodecItem(t) \/ (t \in Decoders /\ CodecEnd(t)))
  BY <1>9, FreshCodec DEF Begins
<1>10. CASE t \in Filters /\ (FilterFrame(t) \/ CloseOutput(t))
  BY <1>10, FreshFrame, FreshClose DEF Begins
<1>11. CASE Cleanup(t)
  BY <1>11, FreshCleanup DEF Begins
<1>12. CASE Finish(t) \/ FinishFilterInput(t) \/ PreMuxEndLost(t)
  BY <1>12, FinishesAre
<1>13. CASE SendEof(t)
  BY <1>13, SendEofTurns
<1>14. CASE EncOpen(t)
  BY <1>14, EncOpenOpens
<1>15. CASE t \in Muxers /\ MuxDone(t)
  BY <1>15, MuxDoneCounts
<1> QED
  BY <1>1, <1>2, <1>3, <1>4, <1>5, <1>6, <1>7, <1>8, <1>9, <1>10, <1>11, <1>12, <1>13,
     <1>14, <1>15 DEF Acts

LEMMA FinishesMoves ==
    ASSUME TodoType, NEW t \in Tasks, Finishes(t)
    PROVE  \E n : \E I \in SUBSET DOMAIN todo[t] : Moves(t, n, I)
<1>1. 2 .. Len(todo[t]) \in SUBSET DOMAIN todo[t]
  BY DEF TodoType
<1> QED BY <1>1 DEF Finishes

LEMMA ActsMoves ==
    ASSUME TodoType, QueueInv, GraphType, PosType, pc = [u \in Tasks |-> pc[u]],
           NEW t \in Tasks, Acts(t)
    PROVE  \E n : \E I \in SUBSET DOMAIN todo[t] : Moves(t, n, I)
<1>1. CASE Neutral(t)
  BY <1>1 DEF Neutral
<1>2. CASE Fresh(t) \/ Counts(t)
  BY <1>2 DEF Fresh, Counts
<1>3. CASE Opens(t)
  BY <1>3 DEF Opens
<1>4. CASE Finishes(t)
  BY <1>4, FinishesMoves
<1>5. CASE Turns(t)
  <2>1. {j \in DOMAIN todo[t] : todo[t][j].to # To(t)} \in SUBSET DOMAIN todo[t]
    OBVIOUS
  <2> QED BY <1>5, <2>1 DEF Turns
<1> QED BY <1>1, <1>2, <1>3, <1>4, <1>5, ActsKinds

LEMMA TodoNext ==
    ASSUME TodoType, QueueInv, GraphType, PosType, pc = [u \in Tasks |-> pc[u]], [Next]_vars
    PROVE  TodoType'
<1>1. CASE \E t \in Tasks : Acts(t)
  BY <1>1, ActsMoves, MovesKeepType
<1>2. CASE ~(\E t \in Tasks : Acts(t))
  BY <1>2, ActsAside DEF TodoType
<1> QED BY <1>1, <1>2

--------------------------------------------------------------------------------
(* Where the tasks are, and what they have noted for themselves. *)

PcType == pc = [u \in Tasks |-> pc[u]]

\* A task goes from where it is to another place; the thread of a muxer may
\* also be started by the task that makes the last stream ready.
Goes(x, v) ==
    /\ pc' = [pc EXCEPT ![x] = v]
    /\ \/ /\ x \in Filters /\ pc[x] # "cleanup"
       \/ /\ x \in Demuxers \cup Decoders \cup Encoders
          /\ pc[x] # "cleanup" \/ todo[x] # <<>>
       \/ /\ x \in Muxers /\ v \in {"returned", "cleanup", "loop"}
          /\ v = "returned" => pc[x] = "loop" /\ todo[x] = <<>>
          /\ v = "cleanup" => MuxDone(x)
          /\ v = "loop" => \E t \in Tasks : StreamReady(t) /\ To(t).task = x

Leads(t) ==
    \/ StreamReady(t) \/ PreMuxFull(t) \/ Cleanup(t) \/ Fail(t)
    \/ t \in Demuxers /\ (DemuxReturn(t) \/ FlushEof(t))
    \/ t \in Decoders \cup Encoders /\ CodecEnd(t)
    \/ t \in Decoders /\ (DecoderStop(t) \/ DecoderFlush(t) \/ DecoderEndTs(t))
    \/ t \in Muxers /\ (MuxReturn(t) \/ MuxDone(t))
    \/ t \in Filters /\ (FilterItem(t) \/ FilterStreamEnd(t) \/ FilterNothing(t) \/ FilterTurn(t) \/ FilterUnconfigured(t) \/ FilterRead(t) \/ FilterConsumersDone(t) \/ FilterRequest(t) \/ FilterReturn(t))

\* The steps in which every task stays where it is.
LEMMA LeadsAside ==
    ASSUME [Next]_vars, ~(\E t \in Tasks : Leads(t))
    PROVE  UNCHANGED pc
<1>1. ASSUME NEW t \in Tasks, TaskStep(t) \/ Fail(t), ~Leads(t) PROVE UNCHANGED pc
  <2>1. CASE \/ EncOpen(t) \/ FlushStep(t) \/ FlushEnd(t)
            \/ MuxStarted(t) \/ PreMux(t)
    BY <2>1 DEF EncOpen, FlushStep, FlushEnd, MuxStarted, PreMux
  <2>2. CASE \/ PreMuxEndLost(t) \/ SendItem(t) \/ SendEof(t)
            \/ Finish(t) \/ FinishFilterInput(t)
    BY <2>2 DEF PreMuxEndLost, SendItem, SendEof, Finish, FinishFilterInput
  <2>3. CASE MuxUpdate(t)
    BY <2>3 DEF MuxUpdate
  <2>4. CASE TaskExited(t)
    BY <2>4 DEF TaskExited
  <2>5. CASE \/ DemuxSend(t) \/ DemuxSkip(t) \/ DemuxFlush(t)
            \/ FlushSend(t) \/ FlushAwait(t)
    BY <2>5 DEF DemuxSend, DemuxSkip, DemuxFlush, FlushSend, FlushAwait
  <2>6. CASE CodecItem(t) \/ NoEndTs(t)
    BY <2>6 DEF CodecItem, NoEndTs
  <2>7. CASE MuxItem(t) \/ MuxHangUp(t) \/ MuxEnd(t) \/ MuxCount(t)
    BY <2>7 DEF MuxItem, MuxHangUp, MuxEnd, MuxCount
  <2>8. CASE \/ FilterPrefer(t) \/ ChokeInputs(t) \/ CloseInput(t)
            \/ FilterFrame(t) \/ CloseOutput(t)
    BY <2>8 DEF FilterPrefer, ChokeInputs, CloseInput, FilterFrame,
              CloseOutput
  <2> QED
    BY <1>1, <2>1, <2>2, <2>3, <2>4, <2>5, <2>6, <2>7, <2>8
    DEF Leads, TaskStep, Continue, DemuxStep, CodecStep, DecoderStep,
        MuxStep, FilterStep
<1>2. CASE MainStep \/ Interrupt
  BY <1>2 DEF MainStart, MainTerminate, Interrupt, MainChokeAll, MainJoined,
              MainStep
<1>3. CASE UNCHANGED vars
  BY <1>3 DEF vars
<1> QED BY <1>1, <1>2, <1>3 DEF Next, Run

LEMMA TasksAre == Tasks = Demuxers \cup Filters \cup Decoders \cup Encoders \cup Muxers
BY DEF Tasks, Consumers

LEMMA LeadsGoes ==
    ASSUME TodoType, NEW t \in Tasks, Leads(t)
    PROVE  UNCHANGED pc \/ \E x, v : Goes(x, v)
<1>1. CASE StreamReady(t)
  <2>1. UNCHANGED pc \/ pc' = [pc EXCEPT ![To(t).task] = "loop"]
    BY <1>1 DEF StreamReady
  <2>2. To(t).task \in Muxers
    BY <1>1, NextOp DEF StreamReady
  <2>3. pc' = [pc EXCEPT ![To(t).task] = "loop"] => Goes(To(t).task, "loop")
    BY <1>1, <2>2 DEF Goes
  <2> QED BY <2>1, <2>3
<1>2. CASE PreMuxFull(t)
  <2>1. At(t, "send") /\ To(t).task \in Muxers /\ pc' = [pc EXCEPT ![t] = "returned"]
    BY <1>2 DEF PreMuxFull, Parking
  <2>2. To(t) \in Targets(t) /\ t \notin Muxers /\ todo[t] # <<>>
    BY <2>1, NextOp DEF At
  <2>3. t \notin Filters
    BY <2>1, <2>2, TargetKinds, KindsDiffer
  <2> QED BY <2>1, <2>2, <2>3, TasksAre DEF Goes
<1>3. CASE Cleanup(t)
  <2>1. t \notin Muxers /\ pc[t] = "returned" /\ pc' = [pc EXCEPT ![t] = "cleanup"]
    BY <1>3 DEF Cleanup, Idle, GoTo
  <2> QED BY <2>1, TasksAre DEF Goes
<1>4. CASE Fail(t)
  <2>1. pc[t] = "loop" /\ todo[t] = <<>> /\ pc' = [pc EXCEPT ![t] = "returned"]
    BY <1>4 DEF Fail, Idle, GoTo
  <2>2. pc[t] # "cleanup" /\ "returned" # "cleanup" /\ "returned" # "loop"
    BY <2>1
  <2>3. CASE t \in Muxers
    BY <2>1, <2>2, <2>3 DEF Goes
  <2>4. CASE t \notin Muxers
    BY <2>1, <2>2, <2>4, TasksAre DEF Goes
  <2> QED BY <2>3, <2>4
<1>5. CASE t \in Demuxers /\ (DemuxReturn(t) \/ FlushEof(t))
  <2>1. pc' = [pc EXCEPT ![t] = "returned"]
    BY <1>5 DEF DemuxReturn, FlushEof, GoTo
  <2>2. pc[t] # "cleanup" \/ todo[t] # <<>>
    BY <1>5 DEF DemuxReturn, FlushEof, Idle, At
  <2> QED BY <1>5, <2>1, <2>2 DEF Goes
<1>6. CASE \/ t \in Decoders \cup Encoders /\ CodecEnd(t)
           \/ t \in Decoders /\ (DecoderStop(t) \/ DecoderFlush(t) \/ DecoderEndTs(t))
  <2>1. pc[t] # "cleanup"
    BY <1>6 DEF CodecEnd, DecoderStop, DecoderFlush, DecoderEndTs, Idle
  <2>2. pc' = pc \/ \E v : pc' = [pc EXCEPT ![t] = v]
    BY <1>6 DEF CodecEnd, DecoderStop, DecoderFlush, DecoderEndTs, GoTo
  <2> QED BY <1>6, <2>1, <2>2 DEF Goes
<1>7. CASE t \in Muxers /\ MuxReturn(t)
  <2>1. pc[t] = "loop" /\ todo[t] = <<>> /\ pc' = [pc EXCEPT ![t] = "returned"]
    BY <1>7 DEF MuxReturn, Idle, GoTo
  <2>2. "returned" # "cleanup" /\ "returned" # "loop"
    OBVIOUS
  <2> QED BY <1>7, <2>1, <2>2 DEF Goes
<1>8. CASE t \in Muxers /\ MuxDone(t)
  <2>1. pc' = [pc EXCEPT ![t] = "cleanup"]
    BY <1>8 DEF MuxDone, GoTo
  <2> QED BY <1>8, <2>1 DEF Goes
<1>9. CASE t \in Filters /\ (FilterItem(t) \/ FilterStreamEnd(t) \/ FilterNothing(t)
                               \/ FilterTurn(t) \/ FilterUnconfigured(t))
  <2>1. pc[t] # "cleanup"
    BY <1>9 DEF FilterItem, FilterStreamEnd, FilterNothing, FilterTurn, FilterUnconfigured,
                Receiving, Idle
  <2>2. pc' = pc \/ \E v : pc' = [pc EXCEPT ![t] = v]
    BY <1>9 DEF FilterItem, FilterStreamEnd, FilterNothing, FilterTurn, FilterUnconfigured, GoTo
  <2> QED BY <1>9, <2>1, <2>2 DEF Goes
<1>10. CASE t \in Filters /\ (FilterRead(t) \/ FilterConsumersDone(t) \/ FilterRequest(t)
                                \/ FilterReturn(t))
  <2>1. pc[t] # "cleanup"
    BY <1>10 DEF FilterRead, FilterConsumersDone, FilterRequest, FilterReturn, NoMoreFrames, Idle
  <2>2. pc' = pc \/ \E v : pc' = [pc EXCEPT ![t] = v]
    BY <1>10 DEF FilterRead, FilterConsumersDone, FilterRequest, FilterReturn, GoTo
  <2> QED BY <1>10, <2>1, <2>2 DEF Goes
<1> QED
  BY <1>1, <1>2, <1>3, <1>4, <1>5, <1>6, <1>7, <1>8, <1>9, <1>10 DEF Leads

LEMMA PcGoes ==
    ASSUME TodoType, [Next]_vars
    PROVE  UNCHANGED pc \/ \E x, v : Goes(x, v)
<1>1. CASE \E t \in Tasks : Leads(t)
  BY <1>1, LeadsGoes
<1>2. CASE ~(\E t \in Tasks : Leads(t))
  BY <1>2, LeadsAside
<1> QED BY <1>1, <1>2

LEMMA PcNext ==
    ASSUME TodoType, PcType, [Next]_vars
    PROVE  PcType'
BY PcGoes DEF Goes, PcType

DstType == dst_finished \in [Tasks -> SUBSET Edges]

Notes(t) ==
    \/ PreMux(t) \/ PreMuxEndLost(t) \/ Finish(t) \/ FinishFilterInput(t)

\* The steps in which no task notes a destination as finished.
LEMMA NotesAside ==
    ASSUME [Next]_vars, ~(\E t \in Tasks : Notes(t))
    PROVE  UNCHANGED dst_finished
<1>1. ASSUME NEW t \in Tasks, TaskStep(t) \/ Fail(t), ~Notes(t) PROVE UNCHANGED dst_finished
  <2>1. CASE \/ EncOpen(t) \/ StreamReady(t) \/ FlushStep(t)
            \/ FlushEnd(t) \/ MuxStarted(t)
    BY <2>1 DEF EncOpen, StreamReady, FlushStep, FlushEnd, MuxStarted
  <2>2. CASE PreMuxFull(t) \/ SendItem(t) \/ SendEof(t) \/ MuxUpdate(t)
    BY <2>2 DEF PreMuxFull, SendItem, SendEof, MuxUpdate
  <2>3. CASE Cleanup(t) \/ TaskExited(t) \/ Fail(t)
    BY <2>3 DEF Cleanup, TaskExited, Fail
  <2>4. CASE \/ DemuxSend(t) \/ DemuxSkip(t) \/ DemuxReturn(t)
            \/ DemuxFlush(t) \/ FlushSend(t)
    BY <2>4 DEF DemuxSend, DemuxSkip, DemuxReturn, DemuxFlush, FlushSend
  <2>5. CASE FlushAwait(t) \/ FlushEof(t)
    BY <2>5 DEF FlushAwait, FlushEof
  <2>6. CASE \/ CodecItem(t) \/ CodecEnd(t) \/ DecoderStop(t)
            \/ DecoderFlush(t) \/ DecoderEndTs(t)
    BY <2>6 DEF CodecItem, CodecEnd, DecoderStop, DecoderFlush, DecoderEndTs
  <2>7. CASE NoEndTs(t)
    BY <2>7 DEF NoEndTs
  <2>8. CASE \/ MuxItem(t) \/ MuxHangUp(t) \/ MuxEnd(t)
            \/ MuxReturn(t) \/ MuxDone(t)
    BY <2>8 DEF MuxItem, MuxHangUp, MuxEnd, MuxReturn, MuxDone
  <2>9. CASE MuxCount(t)
    BY <2>9 DEF MuxCount
  <2>10. CASE \/ FilterPrefer(t) \/ FilterItem(t) \/ ChokeInputs(t)
            \/ CloseInput(t) \/ FilterStreamEnd(t)
    BY <2>10 DEF FilterPrefer, FilterItem, ChokeInputs, CloseInput,
              FilterStreamEnd
  <2>11. CASE \/ FilterNothing(t) \/ FilterTurn(t) \/ FilterUnconfigured(t)
            \/ FilterRead(t) \/ FilterFrame(t)
    BY <2>11 DEF FilterNothing, FilterTurn, FilterUnconfigured, FilterRead,
              FilterFrame
  <2>12. CASE \/ FilterConsumersDone(t) \/ CloseOutput(t) \/ FilterRequest(t)
            \/ FilterReturn(t)
    BY <2>12 DEF FilterConsumersDone, CloseOutput, FilterRequest, FilterReturn
  <2> QED
    BY <1>1, <2>1, <2>2, <2>3, <2>4, <2>5, <2>6, <2>7, <2>8, <2>9, <2>10, <2>11,
       <2>12
    DEF Notes, TaskStep, Continue, DemuxStep, CodecStep, DecoderStep,
        MuxStep, FilterStep
<1>2. CASE MainStep \/ Interrupt
  BY <1>2 DEF MainStart, MainTerminate, Interrupt, MainChokeAll, MainJoined,
              MainStep
<1>3. CASE UNCHANGED vars
  BY <1>3 DEF vars
<1> QED BY <1>1, <1>2, <1>3 DEF Next, Run

LEMMA NotesIs ==
    ASSUME TodoType, NEW t \in Tasks, Notes(t)
    PROVE  UNCHANGED dst_finished \/ Finishes(t)
<1>1. CASE PreMux(t)
  <2>1. At(t, "finish") \/ UNCHANGED dst_finished
    BY <1>1 DEF PreMux
  <2> QED BY <1>1, <2>1, FinishesAre
<1> QED BY <1>1, FinishesAre DEF Notes

LEMMA DstNext ==
    ASSUME TodoType, DstType, [Next]_vars
    PROVE  DstType'
<1>1. ASSUME NEW t \in Tasks, Finishes(t) PROVE DstType'
  <2>1. todo[t][1] \in Ops /\ OpOK(t, todo[t][1]) /\ todo[t][1].op = "finish"
    <3>1. 1 \in DOMAIN todo[t]
      BY <1>1 DEF Finishes, TodoType
    <3> QED BY <1>1, <3>1 DEF Finishes, TodoType
  <2>2. To(t) \in Edges
    BY <1>1, <2>1, DstIs DEF Finishes, OpOK
  <2> QED BY <1>1, <2>2 DEF Finishes, DstType
<1> QED BY <1>1, NotesIs, NotesAside DEF DstType

Reads(t) ==
    \/ t \in Demuxers /\ (DemuxSend(t) \/ DemuxSkip(t) \/ DemuxFlush(t))

\* The steps in which no demuxer reads a packet.
LEMMA ReadsAside ==
    ASSUME [Next]_vars, ~(\E t \in Tasks : Reads(t))
    PROVE  UNCHANGED pos
<1>1. ASSUME NEW t \in Tasks, TaskStep(t) \/ Fail(t), ~Reads(t) PROVE UNCHANGED pos
  <2>1. CASE \/ EncOpen(t) \/ StreamReady(t) \/ FlushStep(t)
            \/ FlushEnd(t) \/ MuxStarted(t)
    BY <2>1 DEF EncOpen, StreamReady, FlushStep, FlushEnd, MuxStarted, local
  <2>2. CASE \/ PreMux(t) \/ PreMuxFull(t) \/ PreMuxEndLost(t)
            \/ SendItem(t) \/ SendEof(t)
    BY <2>2 DEF PreMux, PreMuxFull, PreMuxEndLost, SendItem, SendEof, local
  <2>3. CASE Finish(t) \/ FinishFilterInput(t) \/ MuxUpdate(t)
    BY <2>3 DEF Finish, FinishFilterInput, MuxUpdate, local
  <2>4. CASE Cleanup(t) \/ TaskExited(t) \/ Fail(t)
    BY <2>4 DEF Cleanup, TaskExited, Fail, local
  <2>5. CASE \/ DemuxReturn(t) \/ FlushSend(t) \/ FlushAwait(t)
            \/ FlushEof(t)
    BY <2>5 DEF DemuxReturn, FlushSend, FlushAwait, FlushEof, local
  <2>6. CASE \/ CodecItem(t) \/ CodecEnd(t) \/ DecoderStop(t)
            \/ DecoderFlush(t) \/ DecoderEndTs(t)
    BY <2>6 DEF CodecItem, CodecEnd, DecoderStop, DecoderFlush, DecoderEndTs,
              local
  <2>7. CASE NoEndTs(t)
    BY <2>7 DEF NoEndTs, local
  <2>8. CASE \/ MuxItem(t) \/ MuxHangUp(t) \/ MuxEnd(t)
            \/ MuxReturn(t) \/ MuxDone(t)
    BY <2>8 DEF MuxItem, MuxHangUp, MuxEnd, MuxReturn, MuxDone, local
  <2>9. CASE MuxCount(t)
    BY <2>9 DEF MuxCount, local
  <2>10. CASE \/ FilterPrefer(t) \/ FilterItem(t) \/ ChokeInputs(t)
            \/ CloseInput(t) \/ FilterStreamEnd(t)
    BY <2>10 DEF FilterPrefer, FilterItem, ChokeInputs, CloseInput,
              FilterStreamEnd, local
  <2>11. CASE \/ FilterNothing(t) \/ FilterTurn(t) \/ FilterUnconfigured(t)
            \/ FilterRead(t) \/ FilterFrame(t)
    BY <2>11 DEF FilterNothing, FilterTurn, FilterUnconfigured, FilterRead,
              FilterFrame, local
  <2>12. CASE \/ FilterConsumersDone(t) \/ CloseOutput(t) \/ FilterRequest(t)
            \/ FilterReturn(t)
    BY <2>12 DEF FilterConsumersDone, CloseOutput, FilterRequest, FilterReturn,
              local
  <2> QED
    BY <1>1, <2>1, <2>2, <2>3, <2>4, <2>5, <2>6, <2>7, <2>8, <2>9, <2>10, <2>11,
       <2>12
    DEF Reads, TaskStep, Continue, DemuxStep, CodecStep, DecoderStep,
        MuxStep, FilterStep
<1>2. CASE MainStep \/ Interrupt
  BY <1>2 DEF MainStart, MainTerminate, Interrupt, MainChokeAll, MainJoined,
              local, MainStep
<1>3. CASE UNCHANGED vars
  BY <1>3 DEF vars, local
<1> QED BY <1>1, <1>2, <1>3 DEF Next, Run

PosIs == pos = [d \in Demuxers |-> pos[d]] /\ PosType

LEMMA PosNext ==
    ASSUME PosIs, [Next]_vars
    PROVE  PosIs'
<1>1. ASSUME NEW t \in Tasks, Reads(t) PROVE PosIs'
  <2>1. t \in Demuxers /\ ~AtEnd(t) /\ pos' = [pos EXCEPT ![t] = @ + 1]
    BY <1>1 DEF Reads, DemuxSend, DemuxSkip, DemuxFlush
  <2>2. \A d \in Demuxers : Len(Script[d]) \in Nat
    BY SchedulerAssumption
  <2>3. pos[t] + 1 \in 0 .. Len(Script[t])
    BY <2>1, <2>2 DEF PosIs, PosType, AtEnd
  <2> QED BY <2>1, <2>2, <2>3 DEF PosIs, PosType
<1> QED BY <1>1, ReadsAside DEF PosIs, PosType

--------------------------------------------------------------------------------
(* What the scheduler keeps of the graph. *)

WaiterType == choked \in [Sources -> BOOLEAN] /\ frozen \in [Consumers -> BOOLEAN]

Schedules(t) ==
    \/ Finish(t) \/ FinishFilterInput(t) \/ MuxUpdate(t) \/ TaskExited(t)
    \/ t \in Muxers /\ MuxDone(t)
    \/ t \in Filters /\ (FilterPrefer(t) \/ ChokeInputs(t) \/ CloseInput(t))

\* The steps after which the same sources may run.
LEMMA SchedulesAside ==
    ASSUME [Next]_vars, ~(\E t \in Tasks : Schedules(t)), ~MainStart, ~MainChokeAll
    PROVE  UNCHANGED <<choked, frozen>>
<1>1. ASSUME NEW t \in Tasks, TaskStep(t) \/ Fail(t), ~Schedules(t) PROVE UNCHANGED <<choked, frozen>>
  <2>1. CASE \/ EncOpen(t) \/ StreamReady(t) \/ FlushStep(t)
            \/ FlushEnd(t) \/ MuxStarted(t)
    BY <2>1 DEF EncOpen, StreamReady, FlushStep, FlushEnd, MuxStarted,
              schedule
  <2>2. CASE \/ PreMux(t) \/ PreMuxFull(t) \/ PreMuxEndLost(t)
            \/ SendItem(t) \/ SendEof(t)
    BY <2>2 DEF PreMux, PreMuxFull, PreMuxEndLost, SendItem, SendEof, schedule
  <2>3. CASE Cleanup(t) \/ Fail(t)
    BY <2>3 DEF Cleanup, Fail, schedule
  <2>4. CASE \/ DemuxSend(t) \/ DemuxSkip(t) \/ DemuxReturn(t)
            \/ DemuxFlush(t) \/ FlushSend(t)
    BY <2>4 DEF DemuxSend, DemuxSkip, DemuxReturn, DemuxFlush, FlushSend,
              schedule
  <2>5. CASE FlushAwait(t) \/ FlushEof(t)
    BY <2>5 DEF FlushAwait, FlushEof, schedule
  <2>6. CASE \/ CodecItem(t) \/ CodecEnd(t) \/ DecoderStop(t)
            \/ DecoderFlush(t) \/ DecoderEndTs(t)
    BY <2>6 DEF CodecItem, CodecEnd, DecoderStop, DecoderFlush, DecoderEndTs,
              schedule
  <2>7. CASE NoEndTs(t)
    BY <2>7 DEF NoEndTs, schedule
  <2>8. CASE \/ MuxItem(t) \/ MuxHangUp(t) \/ MuxEnd(t)
            \/ MuxReturn(t) \/ MuxCount(t)
    BY <2>8 DEF MuxItem, MuxHangUp, MuxEnd, MuxReturn, MuxCount, schedule
  <2>9. CASE \/ FilterItem(t) \/ FilterStreamEnd(t) \/ FilterNothing(t)
            \/ FilterTurn(t) \/ FilterUnconfigured(t)
    BY <2>9 DEF FilterItem, FilterStreamEnd, FilterNothing, FilterTurn,
              FilterUnconfigured, schedule
  <2>10. CASE \/ FilterRead(t) \/ FilterFrame(t) \/ FilterConsumersDone(t)
            \/ CloseOutput(t) \/ FilterRequest(t)
    BY <2>10 DEF FilterRead, FilterFrame, FilterConsumersDone, CloseOutput,
              FilterRequest, schedule
  <2>11. CASE FilterReturn(t)
    BY <2>11 DEF FilterReturn, schedule
  <2> QED
    BY <1>1, <2>1, <2>2, <2>3, <2>4, <2>5, <2>6, <2>7, <2>8, <2>9, <2>10, <2>11
    DEF Schedules, TaskStep, Continue, DemuxStep, CodecStep, DecoderStep,
        MuxStep, FilterStep
<1>2. CASE MainStep \/ Interrupt
  BY <1>2 DEF MainTerminate, Interrupt, MainJoined, schedule, MainStep
<1>3. CASE UNCHANGED vars
  BY <1>3 DEF vars, schedule
<1> QED BY <1>1, <1>2, <1>3 DEF Next, Run

LEMMA UpdateType ==
    ASSUME WaiterType, NEW fz \in [Consumers -> BOOLEAN], schedule_update_locked(fz)
    PROVE  WaiterType'
<1>1. CASE terminate
  BY <1>1 DEF schedule_update_locked, WaiterType
<1>2. CASE ~terminate
  <2>1. PICK run : SetWaiters(run, fz)
    BY <1>2 DEF schedule_update_locked
  <2>2. choked' \in [Sources -> BOOLEAN]
    BY <2>1 DEF SetWaiters
  <2>3. \A c \in Consumers :
          (IF \E d \in Demuxers : c \in FrozenWith[d] /\ choked[d] # (d \notin run)
             THEN \E d \in Demuxers : c \in FrozenWith[d] /\ d \notin run
             ELSE fz[c]) \in BOOLEAN
    OBVIOUS
  <2>4. frozen' \in [Consumers -> BOOLEAN]
    BY <2>1, <2>3 DEF SetWaiters
  <2> QED BY <2>2, <2>4 DEF WaiterType
<1> QED BY <1>1, <1>2

LEMMA WaiterNext ==
    ASSUME WaiterType, [Next]_vars
    PROVE  WaiterType'
<1>1. ASSUME NEW x, schedule_update_locked([frozen EXCEPT ![x] = FALSE]) PROVE WaiterType'
  <2>1. [frozen EXCEPT ![x] = FALSE] \in [Consumers -> BOOLEAN]
    BY DEF WaiterType
  <2> QED BY <1>1, <2>1, UpdateType
<1>2. ASSUME schedule_update_locked(frozen) PROVE WaiterType'
  BY <1>2, UpdateType DEF WaiterType
<1>3. ASSUME NEW t \in Tasks, Schedules(t) PROVE WaiterType'
  <2>1. CASE MuxUpdate(t) \/ TaskExited(t)
    BY <1>2, <2>1 DEF MuxUpdate, TaskExited
  <2>2. CASE t \in Muxers /\ MuxDone(t)
    BY <1>2, <2>2 DEF MuxDone
  <2>3. CASE t \in Filters /\ (FilterPrefer(t) \/ ChokeInputs(t) \/ CloseInput(t))
    BY <1>2, <2>3 DEF FilterPrefer, ChokeInputs, CloseInput
  <2>4. CASE Finish(t)
    <3>1. frozen' = [frozen EXCEPT ![To(t).task] = FALSE] /\ choked' = choked
      BY <2>4 DEF Finish
    <3> QED BY <3>1 DEF WaiterType
  <2>5. CASE FinishFilterInput(t)
    BY <1>1, <2>5 DEF FinishFilterInput
  <2> QED BY <1>3, <2>1, <2>2, <2>3, <2>4, <2>5 DEF Schedules
<1>4. CASE MainStart
  BY <1>2, <1>4 DEF MainStart
<1>5. CASE MainChokeAll
  <2>1. /\ choked' = [s \in Sources |-> TRUE]
        /\ frozen' = [c \in Consumers |->
                        frozen[c] /\ c \notin UNION {FrozenWith[d] : d \in Demuxers}]
    BY <1>5 DEF MainChokeAll
  <2>2. \A c \in Consumers :
            (frozen[c] /\ c \notin UNION {FrozenWith[d] : d \in Demuxers}) \in BOOLEAN
    OBVIOUS
  <2> QED BY <2>1, <2>2 DEF WaiterType
<1> QED BY <1>3, <1>4, <1>5, SchedulesAside DEF WaiterType

StreamType ==
    /\ source_finished \subseteq MuxStreams
    /\ best_input = [f \in Filters |-> best_input[f]]
    /\ \A f \in Filters : best_input[f] \in 0 .. NbInputs[f]
    /\ receive_finished \cup send_finished \subseteq FilterInputs
    /\ task_exited \subseteq Sources /\ opened \subseteq Encoders

Tells(t) ==
    \/ EncOpen(t) \/ FinishFilterInput(t) \/ MuxUpdate(t) \/ TaskExited(t)
    \/ t \in Muxers /\ MuxDone(t)
    \/ t \in Filters /\ (FilterPrefer(t) \/ ChokeInputs(t) \/ CloseInput(t))

\* The steps in which the scheduler learns nothing about the streams.
LEMMA TellsAside ==
    ASSUME [Next]_vars, ~(\E t \in Tasks : Tells(t))
    PROVE  UNCHANGED <<source_finished, best_input, receive_finished, send_finished, task_exited, opened>>
<1>1. ASSUME NEW t \in Tasks, TaskStep(t) \/ Fail(t), ~Tells(t) PROVE UNCHANGED <<source_finished, best_input, receive_finished, send_finished, task_exited, opened>>
  <2>1. CASE \/ StreamReady(t) \/ FlushStep(t) \/ FlushEnd(t)
            \/ MuxStarted(t) \/ PreMux(t)
    BY <2>1 DEF StreamReady, FlushStep, FlushEnd, MuxStarted, PreMux, streams,
              inputs, schedule, codecs
  <2>2. CASE \/ PreMuxFull(t) \/ PreMuxEndLost(t) \/ SendItem(t)
            \/ SendEof(t) \/ Finish(t)
    BY <2>2 DEF PreMuxFull, PreMuxEndLost, SendItem, SendEof, Finish, streams,
              inputs, schedule, codecs
  <2>3. CASE Cleanup(t) \/ Fail(t)
    BY <2>3 DEF Cleanup, Fail, streams, inputs, schedule, codecs
  <2>4. CASE \/ DemuxSend(t) \/ DemuxSkip(t) \/ DemuxReturn(t)
            \/ DemuxFlush(t) \/ FlushSend(t)
    BY <2>4 DEF DemuxSend, DemuxSkip, DemuxReturn, DemuxFlush, FlushSend,
              streams, inputs, schedule, codecs
  <2>5. CASE FlushAwait(t) \/ FlushEof(t)
    BY <2>5 DEF FlushAwait, FlushEof, streams, inputs, schedule, codecs
  <2>6. CASE \/ CodecItem(t) \/ CodecEnd(t) \/ DecoderStop(t)
            \/ DecoderFlush(t) \/ DecoderEndTs(t)
    BY <2>6 DEF CodecItem, CodecEnd, DecoderStop, DecoderFlush, DecoderEndTs,
              streams, inputs, schedule, codecs
  <2>7. CASE NoEndTs(t)
    BY <2>7 DEF NoEndTs, streams, inputs, schedule
  <2>8. CASE \/ MuxItem(t) \/ MuxHangUp(t) \/ MuxEnd(t)
            \/ MuxReturn(t) \/ MuxCount(t)
    BY <2>8 DEF MuxItem, MuxHangUp, MuxEnd, MuxReturn, MuxCount, streams,
              inputs, schedule, codecs
  <2>9. CASE \/ FilterItem(t) \/ FilterStreamEnd(t) \/ FilterNothing(t)
            \/ FilterTurn(t) \/ FilterUnconfigured(t)
    BY <2>9 DEF FilterItem, FilterStreamEnd, FilterNothing, FilterTurn,
              FilterUnconfigured, streams, inputs, schedule, codecs
  <2>10. CASE \/ FilterRead(t) \/ FilterFrame(t) \/ FilterConsumersDone(t)
            \/ CloseOutput(t) \/ FilterRequest(t)
    BY <2>10 DEF FilterRead, FilterFrame, FilterConsumersDone, CloseOutput,
              FilterRequest, streams, inputs, schedule, codecs
  <2>11. CASE FilterReturn(t)
    BY <2>11 DEF FilterReturn, streams, inputs, schedule, codecs
  <2> QED
    BY <1>1, <2>1, <2>2, <2>3, <2>4, <2>5, <2>6, <2>7, <2>8, <2>9, <2>10, <2>11
    DEF Tells, TaskStep, Continue, DemuxStep, CodecStep, DecoderStep,
        MuxStep, FilterStep
<1>2. CASE MainStep \/ Interrupt
  BY <1>2 DEF MainStart, MainTerminate, Interrupt, MainChokeAll, MainJoined,
              streams, inputs, schedule, codecs, MainStep
<1>3. CASE UNCHANGED vars
  BY <1>3 DEF vars, streams, inputs, schedule, codecs
<1> QED BY <1>1, <1>2, <1>3 DEF Next, Run

LEMMA TellsType ==
    ASSUME StreamType, TodoType, GraphType, NEW t \in Tasks, Tells(t)
    PROVE  StreamType'
<1>1. CASE EncOpen(t)
  <2>1. opened' = opened \cup {To(t).task} /\ To(t).task \in Encoders
        /\ UNCHANGED <<source_finished, best_input, receive_finished, send_finished, task_exited>>
    BY <1>1 DEF EncOpen, schedule, streams, inputs
  <2> QED BY <2>1 DEF StreamType
<1>2. CASE MuxUpdate(t)
  <2>1. At(t, "update")
        /\ (source_finished' = source_finished
              \/ source_finished' = source_finished \cup {MuxStream(To(t))})
        /\ UNCHANGED <<best_input, receive_finished, send_finished, task_exited, opened>>
    BY <1>2 DEF MuxUpdate, inputs, codecs
  <2>2. MuxStream(To(t)) \in MuxStreams
    BY <2>1, NextOp
  <2> QED BY <2>1, <2>2 DEF StreamType
<1>3. CASE t \in Muxers /\ MuxDone(t)
  <2>1. source_finished' = source_finished \cup {ms \in MuxStreams : ms.task = t}
        /\ UNCHANGED <<best_input, receive_finished, send_finished, task_exited, opened>>
    BY <1>3 DEF MuxDone, inputs, codecs
  <2> QED BY <2>1 DEF StreamType
<1>4. CASE t \in Filters /\ (ChokeInputs(t) \/ FilterPrefer(t))
  <2>1. /\ \E i \in 0 .. NbInputs[t] : best_input' = [best_input EXCEPT ![t] = i]
        /\ UNCHANGED <<source_finished, receive_finished, send_finished, task_exited, opened>>
    <3>1. CASE t \in Filters /\ ChokeInputs(t)
      BY <3>1, FiltersAre DEF ChokeInputs, streams, codecs
    <3>2. CASE t \in Filters /\ FilterPrefer(t)
      <4>1. fg[t].next \in 0 .. NbInputs[t]
        BY <1>4 DEF GraphType, GraphIs, Graph
      <4> QED BY <3>2, <4>1 DEF FilterPrefer, streams, codecs
    <3> QED BY <1>4, <3>1, <3>2
  <2> QED BY <1>4, <2>1 DEF StreamType
<1>5. CASE t \in Filters /\ CloseInput(t)
  <2>1. At(t, "close") /\ receive_finished' = receive_finished \cup {To(t)}
        /\ UNCHANGED <<source_finished, best_input, send_finished, task_exited, opened>>
    BY <1>5 DEF CloseInput, streams, codecs
  <2>2. To(t) \in FilterInputs
    BY <1>5, <2>1, NextOp DEF FilterInputs
  <2> QED BY <2>1, <2>2 DEF StreamType
<1>6. CASE FinishFilterInput(t)
  <2>1. At(t, "finish") /\ To(t).task \in Filters
        /\ send_finished' = send_finished \cup {[task |-> To(t).task, in |-> To(t).in]}
        /\ UNCHANGED <<source_finished, best_input, receive_finished, task_exited, opened>>
    BY <1>6 DEF FinishFilterInput, streams, codecs
  <2>2. [task |-> To(t).task, in |-> To(t).in] \in FilterInputs
    BY <2>1, NextOp, DstIs DEF FilterInputs
  <2> QED BY <2>1, <2>2 DEF StreamType
<1>7. CASE TaskExited(t)
  <2>1. At(t, "exit") /\ task_exited' = task_exited \cup {t}
        /\ UNCHANGED <<source_finished, best_input, receive_finished, send_finished, opened>>
    BY <1>7 DEF TaskExited, streams, inputs, codecs
  <2>2. t \in Sources
    BY <2>1, NextOp
  <2> QED BY <2>1, <2>2 DEF StreamType
<1> QED BY <1>1, <1>2, <1>3, <1>4, <1>5, <1>6, <1>7 DEF Tells

LEMMA StreamNext ==
    ASSUME StreamType, TodoType, GraphType, [Next]_vars
    PROVE  StreamType'
BY TellsType, TellsAside DEF StreamType

--------------------------------------------------------------------------------
(* All types together. *)

TypeInv ==
    /\ QueueInv /\ FinType /\ MuxType /\ TodoType /\ GraphType
    /\ PcType /\ DstType /\ PosIs /\ WaiterType /\ StreamType

LEMMA TypeInit ==
    ASSUME Init
    PROVE  TypeInv
<1>1. QueueInv
  <2>1. queue \in [Consumers -> Seq(Items)] /\ \A c \in Consumers : queue[c] = <<>>
    BY DEF Init
  <2>2. \A c \in Consumers : DOMAIN queue[c] = {}
    BY <2>1
  <2>3. ASSUME NEW c \in Consumers, NEW i PROVE Cardinality(Queued(c, i)) = 0
    <3>1. Queued(c, i) = {}
      BY <2>2 DEF Queued
    <3> QED BY <3>1, FS_EmptySet
  <2>4. 0 \in 0 .. QueueSize
    BY SchedulerAssumption
  <2> QED BY <2>1, <2>2, <2>3, <2>4 DEF QueueInv, QueueType, QueueBound
<1>2. FinType
  BY DEF Init, FinType
<1>3. MuxType
  <2>1. pre_mux \in [MuxStreams -> Seq(Int)] /\ \A ms \in MuxStreams : pre_mux[ms] = <<>>
    BY DEF Init
  <2>2. \A ms \in MuxStreams : Len(pre_mux[ms]) \in 0 .. PreMuxSize
    BY <2>1, SchedulerAssumption
  <2>3. /\ ready \subseteq MuxStreams /\ init_eof = {}
        /\ mux_started \subseteq Muxers /\ flusher = {}
    BY DEF Init
  <2> QED BY <2>1, <2>2, <2>3 DEF MuxType
<1>4. TodoType
  <2>1. todo \in [Tasks -> Seq(Ops)] /\ \A t \in Tasks : todo[t] = <<>>
    BY DEF Init
  <2> QED BY <2>1 DEF TodoType
<1>5. GraphType
  <2>1. ASSUME NEW f \in Filters PROVE GraphIs(f, fg[f])
    <3> DEFINE g == [next |-> 0, got |-> [i \in 0 .. NbInputs[f] |-> 0], eof |-> {},
                     configured |-> NbInputs[f] = 0, made |-> 0, out_eof |-> {},
                     consumers_done |-> {}, got_frame |-> FALSE]
    <3>1. NbInputs[f] \in Nat /\ Inputs(f) = 0 .. NbInputs[f] - 1
      BY FiltersAre, InputsAre
    <3>2. g \in Graph(f)
      BY <3>1 DEF Graph
    <3>3. HasAllFormats(f, g) => g.configured
      <4> SUFFICES ASSUME NbInputs[f] # 0 PROVE ~HasAllFormats(f, g)
        OBVIOUS
      <4>1. 0 \in Inputs(f) /\ 0 \in 0 .. NbInputs[f]
        BY <3>1
      <4>2. g.got[0] = 0 /\ 0 \notin g.eof
        BY <4>1
      <4> QED BY <4>1, <4>2 DEF HasAllFormats
    <3>4. fg[f] = g
      BY DEF Init
    <3> HIDE DEF g
    <3> QED BY <3>2, <3>3, <3>4 DEF GraphIs
  <2>2. fg = [f \in Filters |-> fg[f]]
    BY DEF Init
  <2> QED BY <2>1, <2>2 DEF GraphType
<1>6. PcType /\ DstType
  BY DEF Init, PcType, DstType
<1>7. PosIs
  <2>1. \A d \in Demuxers : Len(Script[d]) \in Nat
    BY SchedulerAssumption
  <2> QED BY <2>1 DEF Init, PosIs, PosType
<1>8. WaiterType
  BY DEF Init, WaiterType
<1>9. StreamType
  <2>1. \A f \in Filters : 0 \in 0 .. NbInputs[f]
    BY FiltersAre
  <2> QED BY <2>1 DEF Init, StreamType
<1> QED BY <1>1, <1>2, <1>3, <1>4, <1>5, <1>6, <1>7, <1>8, <1>9 DEF TypeInv

LEMMA TypeNext ==
    ASSUME TypeInv, [Next]_vars
    PROVE  TypeInv'
<1>1. QueueInv' /\ FinType' /\ MuxType'
  BY QueueNext, FinNext, MuxNext DEF TypeInv
<1>2. TodoType' /\ GraphType'
  BY TodoNext, GraphNext DEF TypeInv, PcType, PosIs
<1>3. PcType' /\ DstType' /\ PosIs'
  BY PcNext, DstNext, PosNext DEF TypeInv
<1>4. WaiterType' /\ StreamType'
  BY WaiterNext, StreamNext DEF TypeInv
<1> QED BY <1>1, <1>2, <1>3, <1>4 DEF TypeInv

\* The types of all variables, the sizes of the queues among them, hold
\* throughout.
THEOREM TypesAlways == Spec => []TypeInv
<1>1. Init => TypeInv
  BY TypeInit
<1>2. TypeInv /\ [Next]_vars => TypeInv'
  BY TypeNext
<1> QED BY <1>1, <1>2, PTL DEF Spec

--------------------------------------------------------------------------------
(* What a task knows of the streams it sends to: whether it has closed them,  *)
(* or somebody else has.                                                      *)

\* A task that has closed the stream behind n, or is about to say so.
Closing(t, n) ==
    \/ n \in dst_finished[t]
    \/ todo[t] # <<>> /\ todo[t][1].op = "finish" /\ todo[t][1].to = n

\* A stream is closed by its task, by the flush of its pre-muxing queue, or by
\* demux_flush(), after which the demuxer has left its loop.
EndsKnown ==
    \A t \in Tasks : \A n \in Targets(t) : n.in \in send_fin[n.task] =>
        \/ Closing(t, n)
        \/ n.task \in Muxers /\ MuxStream(n) \in init_eof
        \/ t \in Demuxers /\ pc[t] # "loop"

\* An end in a pre-muxing queue will be given to the muxer later.
EndParked(ms) == \E j \in DOMAIN pre_mux[ms] : pre_mux[ms][j] = 0

ParkedEnds ==
    \A t \in Tasks : \A n \in Targets(t) :
        n.task \in Muxers /\ EndParked(MuxStream(n)) => n \in dst_finished[t]

\* What a task still has to send goes to streams it does not close before.
NotOver ==
    \A t \in Tasks : \A j \in DOMAIN todo[t] :
        todo[t][j].op \in SendOps =>
            /\ todo[t][j].to \notin dst_finished[t]
            /\ \A i \in 1 .. j - 1 : todo[t][i].op = "finish" => todo[t][i].to # todo[t][j].to

Finishing(t, n) == \E j \in DOMAIN todo[t] : todo[t][j].op = "finish" /\ todo[t][j].to = n

\* A filtergraph makes no more frames for an output it has closed.
OutputsOver ==
    \A f \in Filters : pc[f] # "cleanup" => \A n \in Targets(f) :
        n \in dst_finished[f] \/ Finishing(f, n) => n.out \in fg[f].out_eof

\* A demuxer that has left its loop sends no more.
NoLateSends ==
    \A d \in Demuxers : pc[d] # "loop" => \A j \in DOMAIN todo[d] : todo[d][j].op \notin SendOps

EndsInv == EndsKnown /\ ParkedEnds /\ NotOver /\ OutputsOver /\ NoLateSends

\* All steps, by what they do to todo and dst_finished.
LEMMA StepKinds ==
    ASSUME TypeInv, [Next]_vars
    PROVE  \/ UNCHANGED <<todo, dst_finished>>
           \/ \E t \in Tasks : Finishes(t)
           \/ \E t \in Tasks : /\ UNCHANGED dst_finished
                               /\ Neutral(t) \/ Fresh(t) \/ Opens(t) \/ Counts(t)
                                    \/ (Turns(t) /\ SendEof(t))
<1> SUFFICES ASSUME ~(\E t \in Tasks : Finishes(t))
             PROVE  \/ UNCHANGED <<todo, dst_finished>>
                    \/ \E t \in Tasks : /\ UNCHANGED dst_finished
                                        /\ Neutral(t) \/ Fresh(t) \/ Opens(t) \/ Counts(t)
                                             \/ (Turns(t) /\ SendEof(t))
  OBVIOUS
<1>1. UNCHANGED dst_finished
  BY NotesIs, NotesAside DEF TypeInv
<1>2. CASE \E t \in Tasks : Acts(t)
  <2>1. PICK t \in Tasks : Acts(t)
    BY <1>2
  <2>2. Neutral(t) \/ Fresh(t) \/ Opens(t) \/ Counts(t) \/ (Turns(t) /\ SendEof(t)) \/ Finishes(t)
    BY <2>1, ActsKinds DEF TypeInv, PcType, PosIs
  <2> QED BY <1>1, <2>2
<1>3. CASE ~(\E t \in Tasks : Acts(t))
  BY <1>1, <1>3, ActsAside
<1> QED BY <1>2, <1>3

LEMMA FinishesTo ==
    ASSUME TodoType, NEW t \in Tasks, Finishes(t)
    PROVE  To(t) \in Targets(t) /\ 1 \in DOMAIN todo[t]
<1>1. 1 \in DOMAIN todo[t] /\ todo[t][1].op = "finish" /\ To(t) = todo[t][1].to
  BY DEF Finishes, TodoType
<1>2. OpOK(t, todo[t][1])
  BY <1>1 DEF TodoType
<1> QED BY <1>1, <1>2 DEF OpOK

LEMMA DstGrows ==
    ASSUME TypeInv, [Next]_vars, NEW t \in Tasks
    PROVE  dst_finished[t] \subseteq dst_finished'[t]
<1>1. dst_finished \in [Tasks -> SUBSET Edges]
  BY DEF TypeInv, DstType
<1>2. CASE UNCHANGED dst_finished
  BY <1>2
<1>3. CASE \E u \in Tasks : Finishes(u)
  BY <1>1, <1>3 DEF Finishes
<1> QED BY <1>2, <1>3, StepKinds

\* The place an operation is taken from.
LEMMA MovedFrom ==
    ASSUME TodoType, NEW t \in Tasks, NEW n, NEW I \in SUBSET DOMAIN todo[t], Moves(t, n, I)
    PROVE  /\ DOMAIN todo'[t] = 1 .. Len(todo'[t]) /\ n \in 0 .. Len(todo'[t])
           /\ \A u \in Tasks \ {t} : todo'[u] = todo[u]
           /\ \E at \in [n + 1 .. Len(todo'[t]) -> I] :
                 \A j \in n + 1 .. Len(todo'[t]) :
                     /\ todo'[t][j] = todo[t][at[j]] /\ at[j] \in DOMAIN todo[t]
                     /\ \A i \in n + 1 .. j - 1 : /\ todo'[t][i] = todo[t][at[i]]
                                                  /\ at[i] \in 1 .. at[j] - 1
<1>1. todo'[t] \in Seq(Ops) /\ Len(todo'[t]) \in Nat /\ n \in 0 .. Len(todo'[t]) /\ n \in Nat
  BY DEF Moves
<1>2. todo[t] \in Seq(Ops) /\ DOMAIN todo[t] \subseteq Nat \ {0}
  BY DEF TodoType
<1>3. \A u \in Tasks \ {t} : todo'[u] = todo[u]
  BY DEF Moves, TodoType
<1>4. PICK at \in [n + 1 .. Len(todo'[t]) -> I] :
        /\ \A k \in n + 1 .. Len(todo'[t]) : todo'[t][k] = todo[t][at[k]]
        /\ \A k, l \in n + 1 .. Len(todo'[t]) : k < l => at[k] < at[l]
  BY DEF Moves, Follows
<1>5. ASSUME NEW j \in n + 1 .. Len(todo'[t])
      PROVE  /\ todo'[t][j] = todo[t][at[j]] /\ at[j] \in DOMAIN todo[t]
             /\ \A i \in n + 1 .. j - 1 : /\ todo'[t][i] = todo[t][at[i]]
                                          /\ at[i] \in 1 .. at[j] - 1
  <2>1. at[j] \in DOMAIN todo[t] /\ at[j] \in Nat
    BY <1>2
  <2>2. ASSUME NEW i \in n + 1 .. j - 1
        PROVE  todo'[t][i] = todo[t][at[i]] /\ at[i] \in 1 .. at[j] - 1
    <3>1. i \in n + 1 .. Len(todo'[t]) /\ i < j
      BY <1>1
    <3>2. at[i] \in Nat \ {0} /\ at[i] < at[j]
      BY <1>2, <1>4, <3>1
    <3> QED BY <1>4, <2>1, <3>1, <3>2
  <2> QED BY <1>4, <2>1, <2>2
<1>6. DOMAIN todo'[t] = 1 .. Len(todo'[t])
  BY <1>1
<1> QED BY <1>1, <1>3, <1>5, <1>6

LEMMA ClosingKeeps ==
    ASSUME TypeInv, [Next]_vars, NEW t \in Tasks, NEW n \in Targets(t), Closing(t, n)
    PROVE  Closing(t, n)'
<1>1. dst_finished[t] \subseteq dst_finished'[t]
  BY DstGrows
<1>2. CASE n \in dst_finished[t]
  BY <1>1, <1>2 DEF Closing
<1>3. CASE todo[t] # <<>> /\ todo[t][1].op = "finish" /\ todo[t][1].to = n
  <2>1. ASSUME todo'[t] = todo[t] PROVE Closing(t, n)'
    BY <1>3, <2>1 DEF Closing
  <2>2. ASSUME NEW u \in Tasks, Finishes(u) PROVE Closing(t, n)'
    <3>1. CASE u = t
      BY <1>3, <2>2, <3>1 DEF Finishes, Closing, TypeInv, DstType
    <3>2. CASE u # t
      <4>1. todo'[t] = todo[t]
        BY <2>2, <3>2 DEF Finishes, Moves, TypeInv, TodoType
      <4> QED BY <2>1, <4>1
    <3> QED BY <3>1, <3>2
  <2>3. ASSUME NEW u \in Tasks, Neutral(u) \/ Fresh(u) \/ Opens(u) \/ Counts(u) \/ Turns(u)
        PROVE  Closing(t, n)'
    <3>1. t \notin Muxers
      BY TargetKinds
    <3>2. u # t
      BY <1>3, <2>3, <3>1 DEF Neutral, Fresh, Opens, Counts, Turns
    <3>3. todo' = [todo EXCEPT ![u] = todo'[u]]
      BY <2>3 DEF Neutral, Fresh, Opens, Counts, Turns, Moves
    <3>4. todo'[t] = todo[t]
      BY <3>2, <3>3 DEF TypeInv, TodoType
    <3> QED BY <2>1, <3>4
  <2> QED BY <2>1, <2>2, <2>3, StepKinds
<1> QED BY <1>2, <1>3 DEF Closing

LEMMA ToldEofStays ==
    ASSUME MuxType, [Next]_vars
    PROVE  init_eof \subseteq init_eof'
<1>1. CASE \E t \in Tasks : StartsMux(t)
  <2>1. PICK t \in Tasks : StartsMux(t)
    BY <1>1
  <2>2. CASE FlushStep(t)
    <3>1. PICK x \in flusher : \E ms \in EarliestPreMuxed(x.mux) : Flushed(ms)
      BY <2>2, FlushStepIs
    <3> QED BY <3>1 DEF Flushed
  <2>3. CASE StreamReady(t) \/ FlushEnd(t) \/ MuxStarted(t) \/ PreMux(t)
    BY <2>3 DEF StreamReady, FlushEnd, MuxStarted, PreMux
  <2> QED BY <2>1, <2>2, <2>3 DEF StartsMux
<1>2. CASE ~(\E t \in Tasks : StartsMux(t))
  BY <1>2, StartsMuxAside
<1> QED BY <1>1, <1>2

\* A demuxer leaves its loop with nothing more to send, and does not return.
LEMMA DemuxerLeaves ==
    ASSUME TypeInv, [Next]_vars, NEW d \in Demuxers
    PROVE  /\ pc'[d] # pc[d] =>
                 pc'[d] # "loop" /\ \A j \in DOMAIN todo'[d] : todo'[d][j].op \notin SendOps
           /\ pc[d] # "loop" => pc'[d] # "loop"
<1> SUFFICES ASSUME pc'[d] # pc[d]
             PROVE  pc'[d] # "loop" /\ \A j \in DOMAIN todo'[d] : todo'[d][j].op \notin SendOps
  OBVIOUS
<1>1. d \in Tasks /\ PcType /\ TodoType
      /\ d \notin Decoders \cup Encoders \cup Filters \cup Muxers
  BY TasksAre, KindsDiffer DEF TypeInv
<1>2. PICK t \in Tasks : Leads(t)
  BY LeadsAside
<1>3. \A x, v : pc' = [pc EXCEPT ![x] = v] => x = d /\ pc'[d] = v
  BY <1>1 DEF PcType
<1>4. \A x \in Tasks : todo' = [todo EXCEPT ![x] = <<>>] => todo'[x] = <<>> /\ DOMAIN todo'[x] = {}
  BY <1>1 DEF TodoType
<1>5. CASE StreamReady(t)
  <2>1. pc' = [pc EXCEPT ![To(t).task] = "loop"] /\ To(t).task \in Muxers
    BY <1>1, <1>5, NextOp DEF StreamReady
  <2> QED BY <1>1, <1>3, <2>1
<1>6. CASE PreMuxFull(t)
  <2>1. pc' = [pc EXCEPT ![t] = "returned"] /\ todo' = [todo EXCEPT ![t] = <<>>]
    BY <1>6 DEF PreMuxFull
  <2> QED BY <1>3, <1>4, <2>1
<1>7. CASE Cleanup(t)
  <2>1. pc' = [pc EXCEPT ![t] = "cleanup"]
    BY <1>7 DEF Cleanup, GoTo
  <2>2. \A j \in DOMAIN todo'[t] : todo'[t][j].op \notin SendOps
    BY <1>1, <1>7, FreshCleanup DEF PcType
  <2> QED BY <1>3, <2>1, <2>2
<1>8. CASE Fail(t) \/ (t \in Demuxers /\ DemuxReturn(t))
  <2>1. pc' = [pc EXCEPT ![t] = "returned"] /\ todo[t] = <<>> /\ UNCHANGED todo
    BY <1>8 DEF Fail, DemuxReturn, Idle, GoTo
  <2> QED BY <1>3, <2>1
<1>9. CASE t \in Demuxers /\ FlushEof(t)
  <2>1. pc' = [pc EXCEPT ![t] = "returned"] /\ todo' = [todo EXCEPT ![t] = <<>>]
    BY <1>9 DEF FlushEof, GoTo
  <2> QED BY <1>3, <1>4, <2>1
<1>10. CASE t \in Decoders \cup Encoders \cup Filters \cup Muxers
  <2>1. UNCHANGED pc \/ \E x, v : Goes(x, v)
    BY <1>1, PcGoes
  <2>2. t # d
    BY <1>1, <1>10
  <2>3. CASE \/ t \in Decoders \cup Encoders /\ CodecEnd(t)
             \/ t \in Decoders /\ (DecoderStop(t) \/ DecoderFlush(t) \/ DecoderEndTs(t))
    <3>1. UNCHANGED pc \/ \E v : pc' = [pc EXCEPT ![t] = v]
      BY <2>3 DEF CodecEnd, DecoderStop, DecoderFlush, DecoderEndTs, GoTo
    <3> QED BY <1>3, <2>2, <3>1
  <2>4. CASE t \in Muxers /\ (MuxReturn(t) \/ MuxDone(t))
    <3>1. \E v : pc' = [pc EXCEPT ![t] = v]
      BY <2>4 DEF MuxReturn, MuxDone, GoTo
    <3> QED BY <1>3, <2>2, <3>1
  <2>5. CASE t \in Filters /\ (FilterItem(t) \/ FilterStreamEnd(t) \/ FilterNothing(t)
                                  \/ FilterTurn(t) \/ FilterUnconfigured(t))
    <3>1. UNCHANGED pc \/ \E v : pc' = [pc EXCEPT ![t] = v]
      BY <2>5 DEF FilterItem, FilterStreamEnd, FilterNothing, FilterTurn, FilterUnconfigured, GoTo
    <3> QED BY <1>3, <2>2, <3>1
  <2>6. CASE t \in Filters /\ (FilterRead(t) \/ FilterConsumersDone(t) \/ FilterRequest(t)
                                  \/ FilterReturn(t))
    <3>1. \E v : pc' = [pc EXCEPT ![t] = v]
      BY <2>6 DEF FilterRead, FilterConsumersDone, FilterRequest, FilterReturn, GoTo
    <3> QED BY <1>3, <2>2, <3>1
  <2> QED BY <1>2, <1>5, <1>6, <1>7, <1>8, <1>9, <2>3, <2>4, <2>5, <2>6 DEF Leads
<1> QED BY <1>2, <1>5, <1>6, <1>7, <1>8, <1>9, <1>10 DEF Leads

LEMMA EndsKnownNext ==
    ASSUME TypeInv, EndsKnown, ParkedEnds, [Next]_vars
    PROVE  EndsKnown'
<1> SUFFICES ASSUME NEW u \in Tasks, NEW n \in Targets(u), n.in \in send_fin'[n.task]
             PROVE  \/ Closing(u, n)'
                    \/ n.task \in Muxers /\ MuxStream(n) \in init_eof'
                    \/ u \in Demuxers /\ pc'[u] # "loop"
  BY DEF EndsKnown, MuxStream
<1>1. n.task \in Consumers /\ n.in \in Inputs(n.task) /\ n = [out |-> n.out, task |-> n.task, in |-> n.in]
        /\ NbInputs[n.task] \notin Inputs(n.task)
  BY DstIs, InputsAre
<1>2. CASE n.in \in send_fin[n.task]
  <2>1. init_eof \subseteq init_eof'
    BY ToldEofStays DEF TypeInv
  <2>2. u \in Demuxers /\ pc[u] # "loop" => pc'[u] # "loop"
    BY DemuxerLeaves
  <2> QED BY <1>2, <2>1, <2>2, ClosingKeeps DEF EndsKnown
<1>3. CASE n.in \notin send_fin[n.task]
  <2>1. PICK t \in Tasks : SaysEnd(t)
    BY <1>3, SaysEndAside
  <2>2. CASE FlushStep(t)
    <3>1. PICK x \in flusher : \E ms \in EarliestPreMuxed(x.mux) : Flushed(ms)
      BY <2>2, FlushStepIs
    <3>2. PICK ms \in EarliestPreMuxed(x.mux) : Flushed(ms)
      BY <3>1
    <3>3. /\ ms \in MuxStreams /\ ms.task \in Muxers
          /\ pre_mux[ms] \in Seq(Int) /\ pre_mux[ms] # <<>>
      BY EarliestIs DEF TypeInv
    <3>4. /\ Head(pre_mux[ms]) = 0 \/ ms \in init_eof'
          /\ n.task = ms.task /\ n.in = ms.in
      BY <1>1, <1>3, <3>2, <3>3 DEF TypeInv, FinType, MuxType, Flushed
    <3>5. MuxStream(n) = ms
      BY <3>3, <3>4, MuxStreamsAre DEF MuxStream
    <3>6. CASE ms \in init_eof'
      BY <3>3, <3>4, <3>5, <3>6
    <3>7. CASE Head(pre_mux[ms]) = 0
      <4>1. 1 \in DOMAIN pre_mux[ms] /\ pre_mux[ms][1] = 0
        BY <3>3, <3>7
      <4>2. n \in dst_finished[u]
        BY <3>3, <3>4, <3>5, <4>1 DEF ParkedEnds, EndParked
      <4> QED BY <4>2, DstGrows DEF Closing
    <3> QED BY <3>4, <3>6, <3>7
  <2>3. CASE SendEof(t)
    <3>1. Turns(t) /\ To(t) \in Targets(t)
      <4>1. At(t, "send")
        BY <2>3 DEF SendEof, Sendable
      <4> QED BY <2>3, <4>1, SendEofTurns, NextOp DEF TypeInv
    <3>2. send_fin' = [send_fin EXCEPT ![To(t).task] = @ \cup {To(t).in}]
      BY <2>3 DEF SendEof
    <3>3. n.task = To(t).task /\ n.in = To(t).in
      BY <1>1, <1>3, <3>2 DEF TypeInv, FinType
    <3>4. u = t /\ n = To(t)
      BY <3>1, <3>3, OneSource
    <3>5. todo'[t] # <<>> /\ todo'[t][1].op = "finish" /\ todo'[t][1].to = To(t)
      <4>1. Len(todo'[t]) >= 1 /\ todo'[t] \in Seq(Ops)
        BY <3>1 DEF Turns, Moves
      <4>2. todo'[t] # <<>>
        BY <4>1
      <4> QED BY <3>1, <4>2 DEF Turns
    <3> QED BY <3>4, <3>5 DEF Closing
  <2>4. CASE Finish(t) \/ FinishFilterInput(t)
    <3>1. Finishes(t) /\ To(t) \in Targets(t)
      BY <2>4, FinishesAre, FinishesTo DEF TypeInv
    <3>2. \E S \in SUBSET {NbInputs[To(t).task]} :
            send_fin' = [send_fin EXCEPT ![To(t).task] = @ \cup {To(t).in} \cup S]
      <4>1. CASE Finish(t)
        <5>1. send_fin' = [send_fin EXCEPT ![To(t).task] = @ \cup {To(t).in} \cup {}]
          BY <4>1 DEF Finish
        <5> QED BY <5>1
      <4>2. CASE FinishFilterInput(t)
        <5>1. send_fin' = [send_fin EXCEPT ![To(t).task] = @ \cup {To(t).in} \cup
                  (IF \A i \in Inputs(To(t).task) : [task |-> To(t).task, in |-> i] \in send_finished'
                     THEN {NbInputs[To(t).task]} ELSE {})]
          BY <4>2 DEF FinishFilterInput
        <5> QED BY <5>1
      <4> QED BY <2>4, <4>1, <4>2
    <3>3. n.task = To(t).task /\ n.in = To(t).in
      BY <1>1, <1>3, <3>2 DEF TypeInv, FinType
    <3>4. u = t /\ n = To(t)
      BY <3>1, <3>3, OneSource
    <3>5. To(t) \in dst_finished'[t]
      BY <3>1 DEF Finishes, TypeInv, DstType
    <3> QED BY <3>4, <3>5 DEF Closing
  <2>5. CASE t \in Demuxers /\ FlushEof(t)
    <3>1. /\ At(t, "flush") /\ send_fin' = [send_fin EXCEPT ![To(t).task] = @ \cup {To(t).in}]
          /\ pc' = [pc EXCEPT ![t] = "returned"]
      BY <1>3, <2>5 DEF FlushEof, GoTo
    <3>2. To(t) \in Targets(t)
      BY <3>1, NextOp DEF TypeInv
    <3>3. n.task = To(t).task /\ n.in = To(t).in
      BY <1>1, <1>3, <3>1 DEF TypeInv, FinType
    <3>4. u = t
      BY <3>2, <3>3, OneSource
    <3>5. pc'[u] = "returned"
      BY <3>1, <3>4 DEF TypeInv, PcType
    <3> QED BY <2>5, <3>4, <3>5
  <2> QED BY <2>1, <2>2, <2>3, <2>4, <2>5 DEF SaysEnd
<1> QED BY <1>2, <1>3

\* An end is parked by the task that sends it.
LEMMA ParkedBy ==
    ASSUME TypeInv, [Next]_vars, NEW ms \in MuxStreams, EndParked(ms)', ~EndParked(ms)
    PROVE  \E t \in Tasks : PreMux(t) /\ At(t, "finish") /\ MuxStream(To(t)) = ms
<1>1. PICK j \in DOMAIN pre_mux'[ms] : pre_mux'[ms][j] = 0
  BY DEF EndParked
<1>2. pre_mux \in [MuxStreams -> Seq(Int)]
  BY DEF TypeInv, MuxType
<1>3. PICK t \in Tasks : StartsMux(t)
  BY StartsMuxAside DEF EndParked
<1>4. CASE FlushStep(t)
  <2>1. PICK x \in flusher : \E o \in EarliestPreMuxed(x.mux) : Flushed(o)
    BY <1>4, FlushStepIs
  <2>2. PICK o \in EarliestPreMuxed(x.mux) : pre_mux' = [pre_mux EXCEPT ![o] = Tail(@)]
    BY <2>1 DEF Flushed
  <2>3. o \in MuxStreams /\ pre_mux[o] \in Seq(Int) /\ pre_mux[o] # <<>>
    BY EarliestIs DEF TypeInv
  <2>4. CASE o # ms
    BY <1>1, <1>2, <2>2, <2>4 DEF EndParked
  <2>5. CASE o = ms
    <3>1. pre_mux'[ms] = Tail(pre_mux[ms])
      BY <1>2, <2>2, <2>5
    <3>2. j + 1 \in DOMAIN pre_mux[ms] /\ pre_mux[ms][j + 1] = 0
      BY <1>1, <2>3, <2>5, <3>1
    <3> QED BY <3>2 DEF EndParked
  <2> QED BY <2>4, <2>5
<1>5. CASE PreMux(t)
  <2> DEFINE k == IF At(t, "send") THEN Item(t) ELSE 0
             o == MuxStream(To(t))
  <2>1. /\ At(t, "send") \/ At(t, "finish")
        /\ To(t).task \in Muxers
        /\ pre_mux' = [pre_mux EXCEPT ![o] = Append(@, k)]
    BY <1>5 DEF PreMux, Parking
  <2>2. /\ To(t) \in Edges /\ (At(t, "send") => Item(t) # 0 /\ Item(t) \in Int)
    BY <2>1, NextOp, HeadIs, DstIs DEF TypeInv
  <2>3. o \in MuxStreams
    BY <2>1, <2>2, MuxStreamsAre
  <2>4. k \in Int
    BY <2>2
  <2> HIDE DEF k, o
  <2>5. o = ms
    BY <1>1, <1>2, <2>1 DEF EndParked
  <2>6. pre_mux'[ms] = Append(pre_mux[ms], k) /\ pre_mux[ms] \in Seq(Int)
    BY <1>2, <2>1, <2>3, <2>5
  <2>7. (j \in DOMAIN pre_mux[ms] /\ pre_mux[ms][j] = 0) \/ k = 0
    BY <1>1, <2>4, <2>6
  <2>8. k = 0
    BY <2>7 DEF EndParked
  <2>9. At(t, "finish")
    BY <2>1, <2>2, <2>8 DEF k
  <2> QED BY <1>5, <2>5, <2>9 DEF o
<1>6. CASE StreamReady(t) \/ FlushEnd(t) \/ MuxStarted(t)
  BY <1>6 DEF StreamReady, FlushEnd, MuxStarted, EndParked
<1> QED BY <1>3, <1>4, <1>5, <1>6 DEF StartsMux

LEMMA ParkedEndsNext ==
    ASSUME TypeInv, ParkedEnds, [Next]_vars
    PROVE  ParkedEnds'
<1> SUFFICES ASSUME NEW u \in Tasks, NEW n \in Targets(u), n.task \in Muxers,
                    EndParked(MuxStream(n))'
             PROVE  n \in dst_finished'[u]
  BY DEF ParkedEnds, MuxStream, EndParked
<1>1. MuxStream(n) \in MuxStreams
  BY MuxStreamsAre, DstIs
<1>2. CASE EndParked(MuxStream(n))
  BY <1>2, DstGrows DEF ParkedEnds
<1>3. CASE ~EndParked(MuxStream(n))
  <2>1. PICK t \in Tasks : PreMux(t) /\ At(t, "finish") /\ MuxStream(To(t)) = MuxStream(n)
    BY <1>1, <1>3, ParkedBy
  <2>2. Finishes(t) /\ To(t) \in Targets(t)
    BY <2>1, FinishesAre, FinishesTo DEF TypeInv
  <2>3. To(t).task = n.task /\ To(t).in = n.in
    BY <2>1 DEF MuxStream
  <2>4. u = t /\ n = To(t)
    BY <2>2, <2>3, OneSource
  <2> QED BY <2>2, <2>4 DEF Finishes, TypeInv, DstType
<1> QED BY <1>2, <1>3

LEMMA NotOverNext ==
    ASSUME TypeInv, NotOver, OutputsOver, [Next]_vars
    PROVE  NotOver'
<1> DEFINE Good(u) ==
        \A j \in DOMAIN todo[u] :
            todo[u][j].op \in SendOps =>
                /\ todo[u][j].to \notin dst_finished[u]
                /\ \A i \in 1 .. j - 1 : todo[u][i].op = "finish" => todo[u][i].to # todo[u][j].to
<1>1. \A u \in Tasks : Good(u)
  BY DEF NotOver
<1>2. TodoType
  BY DEF TypeInv
<1>3. ASSUME NEW u \in Tasks, todo'[u] = todo[u], dst_finished'[u] = dst_finished[u]
      PROVE  Good(u)'
  BY <1>1, <1>3
\* Operations that do not close what is sent to, then some of those there were.
<1>4. ASSUME NEW t \in Tasks, NEW n, NEW I \in SUBSET DOMAIN todo[t], Moves(t, n, I),
             \A j \in 1 .. n : todo'[t][j].op \notin SendOps,
             \A i \in 1 .. n : todo'[t][i].op = "finish" =>
                 \A j \in I : todo[t][j].op \in SendOps => todo[t][j].to # todo'[t][i].to,
             \A j \in I : todo[t][j].op \in SendOps => todo[t][j].to \notin dst_finished'[t]
      PROVE  Good(t)'
  <2> SUFFICES ASSUME NEW j \in DOMAIN todo'[t], todo'[t][j].op \in SendOps
               PROVE  /\ todo'[t][j].to \notin dst_finished'[t]
                      /\ \A i \in 1 .. j - 1 :
                            todo'[t][i].op = "finish" => todo'[t][i].to # todo'[t][j].to
    OBVIOUS
  <2>1. PICK at \in [n + 1 .. Len(todo'[t]) -> I] :
            \A k \in n + 1 .. Len(todo'[t]) :
                /\ todo'[t][k] = todo[t][at[k]] /\ at[k] \in DOMAIN todo[t]
                /\ \A i \in n + 1 .. k - 1 : todo'[t][i] = todo[t][at[i]] /\ at[i] \in 1 .. at[k] - 1
    BY <1>2, <1>4, MovedFrom
  <2>2. DOMAIN todo'[t] = 1 .. Len(todo'[t]) /\ n \in 0 .. Len(todo'[t])
    BY <1>2, <1>4, MovedFrom
  <2>3. Len(todo'[t]) \in Nat
    BY <1>4 DEF Moves
  <2>4. j \notin 1 .. n
    BY <1>4
  <2>5. j \in n + 1 .. Len(todo'[t])
    BY <2>2, <2>3, <2>4
  <2>6. at[j] \in I /\ todo'[t][j] = todo[t][at[j]] /\ at[j] \in DOMAIN todo[t]
    BY <2>1, <2>5
  <2>7. todo'[t][j].to \notin dst_finished'[t]
    BY <1>4, <2>6
  <2>8. ASSUME NEW i \in 1 .. j - 1, todo'[t][i].op = "finish" PROVE todo'[t][i].to # todo'[t][j].to
    <3>1. CASE i \in 1 .. n
      BY <1>4, <2>6, <2>8, <3>1
    <3>2. CASE i \in n + 1 .. j - 1
      <4>1. todo'[t][i] = todo[t][at[i]] /\ at[i] \in 1 .. at[j] - 1
        BY <2>1, <2>5, <3>2
      <4> QED BY <1>1, <2>6, <2>8, <4>1
    <3> QED BY <2>2, <2>5, <3>1, <3>2
  <2> QED BY <2>7, <2>8
<1>5. ASSUME NEW t \in Tasks, NEW n, NEW I \in SUBSET DOMAIN todo[t], Moves(t, n, I),
             UNCHANGED dst_finished \/ Finishes(t),
             Good(t)'
      PROVE  NotOver'
  <2>1. ASSUME NEW u \in Tasks, u # t PROVE Good(u)'
    <3>1. todo'[u] = todo[u]
      BY <1>2, <1>5, <2>1, MovedFrom
    <3>2. dst_finished'[u] = dst_finished[u]
      BY <1>5, <2>1 DEF Finishes, TypeInv, DstType
    <3> QED BY <1>3, <3>1, <3>2
  <2>2. \A u \in Tasks : Good(u)'
    BY <1>5, <2>1
  <2> QED BY <2>2 DEF NotOver
<1>6. CASE UNCHANGED <<todo, dst_finished>>
  BY <1>6 DEF NotOver
<1>7. CASE \E t \in Tasks : Finishes(t)
  <2>1. PICK t \in Tasks : Finishes(t)
    BY <1>7
  <2>2. PICK n : Moves(t, n, 2 .. Len(todo[t])) /\ \A j \in 1 .. n : Other(todo'[t][j].op)
    BY <2>1 DEF Finishes
  <2>3. 2 .. Len(todo[t]) \in SUBSET DOMAIN todo[t] /\ 1 \in DOMAIN todo[t]
    BY <1>2, <2>1, FinishesTo DEF TodoType
  <2>4. \A j \in 1 .. n : todo'[t][j].op \notin SendOps /\ todo'[t][j].op # "finish"
    BY <2>2 DEF Other, SendOps
  <2>5. \A j \in 2 .. Len(todo[t]) : todo[t][j].op \in SendOps =>
            todo[t][j].to \notin dst_finished[t] /\ todo[t][j].to # To(t)
    <3>1. \A j \in 2 .. Len(todo[t]) : j \in DOMAIN todo[t] /\ 1 \in 1 .. j - 1
      BY <2>3
    <3> QED BY <1>1, <2>1, <3>1 DEF Finishes
  <2>6. \A j \in 2 .. Len(todo[t]) : todo[t][j].op \in SendOps => todo[t][j].to \notin dst_finished'[t]
    BY <2>1, <2>5 DEF Finishes, TypeInv, DstType
  <2>7. Good(t)'
    BY <1>4, <2>2, <2>3, <2>4, <2>6
  <2> QED BY <1>5, <2>1, <2>2, <2>3, <2>7
<1>8. ASSUME NEW t \in Tasks, UNCHANGED dst_finished, Neutral(t) PROVE NotOver'
  <2>1. PICK n : \E I \in SUBSET DOMAIN todo[t] :
          Moves(t, n, I) /\ \A j \in 1 .. n : Other(todo'[t][j].op)
    BY <1>8 DEF Neutral
  <2>2. PICK I \in SUBSET DOMAIN todo[t] :
          Moves(t, n, I) /\ \A j \in 1 .. n : Other(todo'[t][j].op)
    BY <2>1
  <2>3. \A j \in 1 .. n : todo'[t][j].op \notin SendOps /\ todo'[t][j].op # "finish"
    BY <2>2 DEF Other, SendOps
  <2>4. \A j \in I : todo[t][j].op \in SendOps => todo[t][j].to \notin dst_finished'[t]
    BY <1>1, <1>8
  <2>5. Good(t)'
    BY <1>4, <2>2, <2>3, <2>4
  <2> QED BY <1>5, <1>8, <2>2, <2>5
<1>9. ASSUME NEW t \in Tasks, UNCHANGED dst_finished, Opens(t) PROVE NotOver'
  <2>1. PICK e \in Encoders \ opened : \E I \in SUBSET DOMAIN todo[t] :
          /\ Moves(t, Len(Dst[e]), I)
          /\ \A j \in 1 .. Len(Dst[e]) : todo'[t][j] = Op("ready", Dst[e][j], 0)
    BY <1>9 DEF Opens
  <2>2. PICK I \in SUBSET DOMAIN todo[t] :
          /\ Moves(t, Len(Dst[e]), I)
          /\ \A j \in 1 .. Len(Dst[e]) : todo'[t][j] = Op("ready", Dst[e][j], 0)
    BY <2>1
  <2>3. \A j \in 1 .. Len(Dst[e]) : todo'[t][j].op \notin SendOps /\ todo'[t][j].op # "finish"
    <3>1. \A x : Op("ready", x, 0).op = "ready"
      BY DEF Op
    <3>2. \A j \in 1 .. Len(Dst[e]) : todo'[t][j].op = "ready"
      BY <2>2, <3>1
    <3> QED BY <3>2 DEF SendOps
  <2>4. \A j \in I : todo[t][j].op \in SendOps => todo[t][j].to \notin dst_finished'[t]
    BY <1>1, <1>9
  <2>5. Good(t)'
    BY <1>4, <2>2, <2>3, <2>4
  <2> QED BY <1>5, <1>9, <2>2, <2>5
<1>10. ASSUME NEW t \in Tasks, UNCHANGED dst_finished, Turns(t) PROVE NotOver'
  <2> DEFINE I == {j \in DOMAIN todo[t] : todo[t][j].to # To(t)}
  <2>1. Moves(t, 1, I) /\ todo'[t][1].op = "finish" /\ todo'[t][1].to = To(t)
    BY <1>10 DEF Turns
  <2>2. \A j \in 1 .. 1 : todo'[t][j].op \notin SendOps /\ todo'[t][j].to = To(t)
    BY <2>1 DEF SendOps
  <2>3. \A j \in I : todo[t][j].to # To(t)
                       /\ (todo[t][j].op \in SendOps => todo[t][j].to \notin dst_finished'[t])
    BY <1>1, <1>10
  <2>4. I \in SUBSET DOMAIN todo[t]
    OBVIOUS
  <2> HIDE DEF I
  <2>5. Good(t)'
    BY <1>4, <2>1, <2>2, <2>3, <2>4
  <2> QED BY <1>5, <1>10, <2>1, <2>4, <2>5
<1>11. ASSUME NEW t \in Tasks, UNCHANGED dst_finished, Counts(t) PROVE NotOver'
  <2>1. Moves(t, 1, {}) /\ DOMAIN todo'[t] = {1} /\ todo'[t][1].op = "count"
    BY <1>11 DEF Counts
  <2>2. Good(t)'
    BY <2>1 DEF SendOps
  <2> QED BY <1>5, <1>11, <2>1, <2>2
<1>12. ASSUME NEW t \in Tasks, UNCHANGED dst_finished, Fresh(t) PROVE NotOver'
  <2>1. Moves(t, Len(todo'[t]), {})
    BY <1>12 DEF Fresh
  <2>2. ASSUME NEW j \in DOMAIN todo'[t], todo'[t][j].op \in SendOps
        PROVE  /\ todo'[t][j].to \notin dst_finished'[t]
               /\ \A i \in 1 .. j - 1 : todo'[t][i].op # "finish"
    <3>1. \/ todo'[t][j].to \notin dst_finished[t]
          \/ t \in Filters /\ pc[t] # "cleanup" /\ todo'[t][j].to.out \notin fg[t].out_eof
      BY <1>12, <2>2 DEF Fresh
    <3>2. OpOK(t, todo'[t][j])
      BY <2>1, <2>2 DEF Moves
    <3>3. todo'[t][j].to \in Targets(t)
      BY <2>2, <3>2 DEF OpOK, SendOps
    <3>4. todo'[t][j].to \notin dst_finished[t]
      BY <3>1, <3>3 DEF OutputsOver
    <3> QED BY <1>12, <2>2, <3>4 DEF Fresh
  <2>3. Good(t)'
    BY <2>2
  <2> QED BY <1>5, <1>12, <2>1, <2>3
<1> QED BY <1>6, <1>7, <1>8, <1>9, <1>10, <1>11, <1>12, StepKinds

LEMMA NoLateSendsNext ==
    ASSUME TypeInv, NoLateSends, [Next]_vars
    PROVE  NoLateSends'
<1> SUFFICES ASSUME NEW d \in Demuxers, pc'[d] # "loop", NEW k \in DOMAIN todo'[d],
                    todo'[d][k].op \in SendOps
             PROVE  FALSE
  BY DEF NoLateSends
<1>1. d \in Tasks /\ TodoType
  BY TasksAre DEF TypeInv
<1>2. pc[d] # "loop" /\ \A j \in DOMAIN todo[d] : todo[d][j].op \notin SendOps
  BY DemuxerLeaves DEF NoLateSends
<1>3. todo'[d] # todo[d]
  BY <1>2
\* What is new does not send, the rest was there before.
<1>4. ASSUME NEW t \in Tasks, NEW n, NEW I \in SUBSET DOMAIN todo[t], Moves(t, n, I),
             \A j \in 1 .. n : todo'[t][j].op \notin SendOps
      PROVE  FALSE
  <2>1. t = d
    BY <1>1, <1>3, <1>4, MovedFrom
  <2>2. DOMAIN todo'[d] = 1 .. Len(todo'[d]) /\ n \in 0 .. Len(todo'[d])
    BY <1>1, <1>4, <2>1, MovedFrom
  <2>3. PICK at \in [n + 1 .. Len(todo'[d]) -> I] :
            \A j \in n + 1 .. Len(todo'[d]) :
                /\ todo'[d][j] = todo[d][at[j]] /\ at[j] \in DOMAIN todo[d]
                /\ \A i \in n + 1 .. j - 1 : todo'[d][i] = todo[d][at[i]] /\ at[i] \in 1 .. at[j] - 1
    BY <1>1, <1>4, <2>1, MovedFrom
  <2>4. k \in n + 1 .. Len(todo'[d])
    <3>1. k \notin 1 .. n
      BY <1>4, <2>1
    <3> QED BY <2>2, <3>1
  <2>5. todo'[d][k] = todo[d][at[k]] /\ at[k] \in DOMAIN todo[d]
    BY <2>3, <2>4
  <2> QED BY <1>2, <2>5
<1>5. ASSUME NEW t \in Tasks, Finishes(t) PROVE FALSE
  <2>1. PICK n : Moves(t, n, 2 .. Len(todo[t])) /\ \A j \in 1 .. n : Other(todo'[t][j].op)
    BY <1>5 DEF Finishes
  <2>2. 2 .. Len(todo[t]) \in SUBSET DOMAIN todo[t]
    BY <1>1 DEF TodoType
  <2>3. \A j \in 1 .. n : todo'[t][j].op \notin SendOps
    BY <2>1 DEF Other
  <2> QED BY <1>4, <2>1, <2>2, <2>3
<1>6. ASSUME NEW t \in Tasks, Neutral(t) PROVE FALSE
  <2>1. PICK n : \E I \in SUBSET DOMAIN todo[t] :
          Moves(t, n, I) /\ \A j \in 1 .. n : Other(todo'[t][j].op)
    BY <1>6 DEF Neutral
  <2> QED BY <1>4, <2>1 DEF Other
<1>7. ASSUME NEW t \in Tasks, Opens(t) PROVE FALSE
  <2>1. PICK e \in Encoders \ opened : \E I \in SUBSET DOMAIN todo[t] :
          /\ Moves(t, Len(Dst[e]), I)
          /\ \A j \in 1 .. Len(Dst[e]) : todo'[t][j] = Op("ready", Dst[e][j], 0)
    BY <1>7 DEF Opens
  <2>2. \A x : Op("ready", x, 0).op \notin SendOps
    BY DEF Op, SendOps
  <2> QED BY <1>4, <2>1, <2>2
<1>8. ASSUME NEW t \in Tasks, Turns(t) PROVE FALSE
  <2>1. /\ Moves(t, 1, {j \in DOMAIN todo[t] : todo[t][j].to # To(t)})
        /\ \A j \in 1 .. 1 : todo'[t][j].op = "finish"
    BY <1>8 DEF Turns
  <2>2. {j \in DOMAIN todo[t] : todo[t][j].to # To(t)} \in SUBSET DOMAIN todo[t]
    OBVIOUS
  <2>3. \A j \in 1 .. 1 : todo'[t][j].op \notin SendOps
    BY <2>1 DEF SendOps
  <2> QED BY <1>4, <2>1, <2>2, <2>3
<1>9. ASSUME NEW t \in Tasks, Counts(t) PROVE FALSE
  <2>1. t \in Muxers /\ Moves(t, 1, {})
    BY <1>9 DEF Counts
  <2>2. t # d
    BY <2>1, KindsDiffer
  <2> QED BY <1>1, <1>3, <2>1, <2>2, MovedFrom
<1>10. ASSUME NEW t \in Tasks, Fresh(t) PROVE FALSE
  <2>1. Moves(t, Len(todo'[t]), {})
    BY <1>10 DEF Fresh
  <2>2. t = d
    BY <1>1, <1>3, <2>1, MovedFrom
  <2> QED BY <1>10, <2>2 DEF Fresh
<1> QED BY <1>3, <1>5, <1>6, <1>7, <1>8, <1>9, <1>10, StepKinds

\* A filtergraph never opens an output again.
LEMMA OutputsStay ==
    ASSUME TypeInv, [Next]_vars, NEW f \in Filters
    PROVE  fg[f].out_eof \subseteq fg'[f].out_eof
<1>1. f \in DOMAIN fg /\ fg[f] \in Graph(f) /\ fg = [h \in Filters |-> fg[h]]
  BY DEF TypeInv, GraphType, GraphIs
<1>2. CASE ~(\E t \in Tasks : FeedsGraph(t))
  BY <1>2, FeedsGraphAside
<1>3. ASSUME NEW g \in Filters, NEW x, fg' = [fg EXCEPT ![g] = x],
             fg[g].out_eof \subseteq x.out_eof
      PROVE  fg[f].out_eof \subseteq fg'[f].out_eof
  BY <1>1, <1>3
<1>4. \A g \in Filters : fg[g] \in Graph(g)
  BY DEF TypeInv, GraphType, GraphIs
<1>5. CASE \E t \in Tasks : SendItem(t)
  <2>1. PICK t \in Tasks : SendItem(t)
    BY <1>5
  <2>2. CASE t \notin Filters
    BY <2>1, <2>2 DEF SendItem
  <2>3. CASE t \in Filters
    <3>1. fg' = [fg EXCEPT ![t].got_frame = @ \/ Item(t) # 0]
      BY <2>1, <2>3 DEF SendItem
    <3>2. fg' = [fg EXCEPT ![t] = [fg[t] EXCEPT !.got_frame = @ \/ Item(t) # 0]]
      BY <1>1, <2>3, <3>1
    <3>3. [fg[t] EXCEPT !.got_frame = @ \/ Item(t) # 0].out_eof = fg[t].out_eof
      BY <1>4, <2>3 DEF Graph
    <3> QED BY <1>3, <2>3, <3>2, <3>3
  <2> QED BY <2>2, <2>3
<1>6. CASE \E t \in Tasks : SendEof(t)
  <2>1. PICK t \in Tasks : SendEof(t)
    BY <1>6
  <2>2. CASE t \notin Filters
    BY <2>1, <2>2 DEF SendEof
  <2>3. CASE t \in Filters
    <3> DEFINE x == [fg[t] EXCEPT !.out_eof = @ \cup {To(t).out},
                                  !.consumers_done = @ \cup {To(t).out}]
    <3>1. fg' = [fg EXCEPT ![t].out_eof = @ \cup {To(t).out},
                           ![t].consumers_done = @ \cup {To(t).out}]
      BY <2>1, <2>3 DEF SendEof
    <3>2. fg' = [fg EXCEPT ![t] = x]
      BY <1>1, <2>3, <3>1
    <3>3. x.out_eof = fg[t].out_eof \cup {To(t).out}
      BY <1>4, <2>3 DEF Graph
    <3> HIDE DEF x
    <3> QED BY <1>3, <2>3, <3>2, <3>3
  <2> QED BY <2>2, <2>3
<1>7. ASSUME NEW t \in Filters, FilterItem(t) PROVE fg[f].out_eof \subseteq fg'[f].out_eof
  <2>1. UNCHANGED fg \/ fg' = [fg EXCEPT ![t] = Fed(t, Head(queue[t]))]
    BY <1>7 DEF FilterItem
  <2>2. Fed(t, Head(queue[t])).out_eof = fg[t].out_eof
    BY <1>4 DEF Fed, Graph
  <2> QED BY <1>3, <2>1, <2>2
<1>8. ASSUME NEW t \in Filters, FilterUnconfigured(t) PROVE fg[f].out_eof \subseteq fg'[f].out_eof
  <2> DEFINE l == Lowest({i \in Inputs(t) : fg[t].got[i] = 0 /\ i \notin fg[t].eof})
  <2>1. fg' = [fg EXCEPT ![t] = [fg[t] EXCEPT !.next = l]]
    BY <1>1, <1>8 DEF FilterUnconfigured
  <2>2. [fg[t] EXCEPT !.next = l].out_eof = fg[t].out_eof
    BY <1>4 DEF Graph
  <2> QED BY <1>3, <2>1, <2>2
<1>9. ASSUME NEW t \in Filters, FilterFrame(t) PROVE fg[f].out_eof \subseteq fg'[f].out_eof
  <2>1. fg' = [fg EXCEPT ![t] = [fg[t] EXCEPT !.made = @ + 1]]
    BY <1>1, <1>9 DEF FilterFrame
  <2>2. [fg[t] EXCEPT !.made = @ + 1].out_eof = fg[t].out_eof
    BY <1>4 DEF Graph
  <2> QED BY <1>3, <2>1, <2>2
<1>10. ASSUME NEW t \in Filters, CloseOutput(t) PROVE fg[f].out_eof \subseteq fg'[f].out_eof
  <2>1. PICK n \in Targets(t) : fg' = [fg EXCEPT ![t].out_eof = @ \cup {n.out}]
    BY <1>10 DEF CloseOutput
  <2>2. fg' = [fg EXCEPT ![t] = [fg[t] EXCEPT !.out_eof = @ \cup {n.out}]]
    BY <1>1, <2>1
  <2>3. [fg[t] EXCEPT !.out_eof = @ \cup {n.out}].out_eof = fg[t].out_eof \cup {n.out}
    BY <1>4 DEF Graph
  <2> QED BY <1>3, <2>2, <2>3
<1>11. ASSUME NEW t \in Filters, FilterRequest(t) PROVE fg[f].out_eof \subseteq fg'[f].out_eof
  <2> DEFINE open == OpenInputs(t, fg[t])
             want == Lowest({i \in open : fg[t].got[i] = fg[t].made})
             k == IF want = NbInputs[t] THEN fg[t].got[NbInputs[t]] + 1 ELSE fg[t].got[NbInputs[t]]
             x == [fg[t] EXCEPT !.next = want, !.got = [fg[t].got EXCEPT ![NbInputs[t]] = k]]
  <2>1. \/ UNCHANGED fg
        \/ fg' = [fg EXCEPT ![t].next = want,
                            ![t].got[NbInputs[t]] = IF want = NbInputs[t] THEN @ + 1 ELSE @]
    BY <1>11 DEF FilterRequest
  <2>2. UNCHANGED fg \/ fg' = [fg EXCEPT ![t] = x]
    <3> HIDE DEF want
    <3> QED BY <1>1, <1>4, <2>1 DEF Graph
  <2>3. x.out_eof = fg[t].out_eof
    <3> HIDE DEF want, k
    <3> QED BY <1>4 DEF Graph
  <2> HIDE DEF x
  <2> QED BY <1>3, <2>2, <2>3
<1> QED
  BY <1>2, <1>5, <1>6, <1>7, <1>8, <1>9, <1>10, <1>11 DEF FeedsGraph

LEMMA CleanupStays ==
    ASSUME TypeInv, [Next]_vars, NEW f \in Filters, pc[f] = "cleanup"
    PROVE  pc'[f] = "cleanup"
<1>1. CASE UNCHANGED pc
  BY <1>1
<1>2. CASE \E x, v : Goes(x, v)
  <2>1. PICK x, v : Goes(x, v)
    BY <1>2
  <2>2. x # f
    BY <2>1, KindsDiffer DEF Goes
  <2>3. pc' = [pc EXCEPT ![x] = v] /\ f \in DOMAIN pc
    BY <2>1, FiltersAre DEF Goes, TypeInv, PcType
  <2> QED BY <2>2, <2>3
<1> QED BY <1>1, <1>2, PcGoes DEF TypeInv

LEMMA OutputsOverNext ==
    ASSUME TypeInv, OutputsOver, [Next]_vars
    PROVE  OutputsOver'
<1> SUFFICES ASSUME NEW f \in Filters, pc'[f] # "cleanup", NEW n \in Targets(f),
                    n \in dst_finished'[f] \/ Finishing(f, n)'
             PROVE  n.out \in fg'[f].out_eof
  BY DEF OutputsOver
<1>1. pc[f] # "cleanup"
  BY CleanupStays
<1>2. TodoType /\ f \in Tasks /\ f \notin Muxers
  BY FiltersAre, KindsDiffer DEF TypeInv
<1>3. ASSUME n \in dst_finished[f] \/ Finishing(f, n) PROVE n.out \in fg'[f].out_eof
  BY <1>1, <1>3, OutputsStay DEF OutputsOver
\* A new operation of f, or one it had.
<1>4. ASSUME NEW m, NEW I \in SUBSET DOMAIN todo[f], Moves(f, m, I), Finishing(f, n)',
             \A j \in 1 .. m : todo'[f][j].op # "finish" \/ todo'[f][j].to # n
      PROVE  Finishing(f, n)
  <2>1. PICK j \in DOMAIN todo'[f] : todo'[f][j].op = "finish" /\ todo'[f][j].to = n
    BY <1>4 DEF Finishing
  <2>2. DOMAIN todo'[f] = 1 .. Len(todo'[f]) /\ m \in 0 .. Len(todo'[f])
    BY <1>2, <1>4, MovedFrom
  <2>3. j \in m + 1 .. Len(todo'[f])
    <3>1. j \notin 1 .. m
      BY <1>4, <2>1
    <3> QED BY <2>2, <3>1
  <2>4. PICK at \in [m + 1 .. Len(todo'[f]) -> I] :
            \A k \in m + 1 .. Len(todo'[f]) :
                /\ todo'[f][k] = todo[f][at[k]] /\ at[k] \in DOMAIN todo[f]
                /\ \A i \in m + 1 .. k - 1 : todo'[f][i] = todo[f][at[i]] /\ at[i] \in 1 .. at[k] - 1
    BY <1>2, <1>4, MovedFrom
  <2>5. todo'[f][j] = todo[f][at[j]] /\ at[j] \in DOMAIN todo[f]
    BY <2>3, <2>4
  <2> QED BY <2>1, <2>5 DEF Finishing
<1>5. CASE UNCHANGED <<todo, dst_finished>>
  BY <1>3, <1>5 DEF Finishing
<1>6. ASSUME NEW t \in Tasks, t # f, NEW m, NEW I \in SUBSET DOMAIN todo[t], Moves(t, m, I),
             UNCHANGED dst_finished \/ Finishes(t)
      PROVE  n.out \in fg'[f].out_eof
  <2>1. todo'[f] = todo[f]
    BY <1>2, <1>6, MovedFrom
  <2>2. dst_finished'[f] = dst_finished[f]
    BY <1>2, <1>6 DEF Finishes, TypeInv, DstType
  <2> QED BY <1>3, <2>1, <2>2 DEF Finishing
<1>7. CASE \E t \in Tasks : Finishes(t)
  <2>1. PICK t \in Tasks : Finishes(t)
    BY <1>7
  <2>2. PICK m : Moves(t, m, 2 .. Len(todo[t])) /\ \A j \in 1 .. m : Other(todo'[t][j].op)
    BY <2>1 DEF Finishes
  <2>3. 2 .. Len(todo[t]) \in SUBSET DOMAIN todo[t] /\ 1 \in DOMAIN todo[t]
    BY <1>2, <2>1, FinishesTo DEF TodoType
  <2>4. CASE t # f
    BY <1>6, <2>1, <2>2, <2>3, <2>4
  <2>5. CASE t = f
    <3>1. \A j \in 1 .. m : todo'[f][j].op # "finish"
      BY <2>2, <2>5 DEF Other, SendOps
    <3>2. Finishing(f, n)' => Finishing(f, n)
      BY <1>4, <2>2, <2>3, <2>5, <3>1
    <3>3. n \in dst_finished'[f] => n \in dst_finished[f] \/ Finishing(f, n)
      BY <1>2, <2>1, <2>3, <2>5 DEF Finishes, Finishing, TypeInv, DstType
    <3> QED BY <1>3, <3>2, <3>3
  <2> QED BY <2>4, <2>5
<1>8. ASSUME NEW t \in Tasks, UNCHANGED dst_finished, Neutral(t) PROVE n.out \in fg'[f].out_eof
  <2>1. PICK m : \E I \in SUBSET DOMAIN todo[t] :
          Moves(t, m, I) /\ \A j \in 1 .. m : Other(todo'[t][j].op)
    BY <1>8 DEF Neutral
  <2>2. PICK I \in SUBSET DOMAIN todo[t] :
          Moves(t, m, I) /\ \A j \in 1 .. m : Other(todo'[t][j].op)
    BY <2>1
  <2>3. \A j \in 1 .. m : todo'[t][j].op # "finish"
    BY <2>2 DEF Other, SendOps
  <2> QED BY <1>3, <1>4, <1>6, <1>8, <2>2, <2>3
<1>9. ASSUME NEW t \in Tasks, UNCHANGED dst_finished, Opens(t) PROVE n.out \in fg'[f].out_eof
  <2>1. PICK e \in Encoders \ opened : \E I \in SUBSET DOMAIN todo[t] :
          /\ Moves(t, Len(Dst[e]), I)
          /\ \A j \in 1 .. Len(Dst[e]) : todo'[t][j] = Op("ready", Dst[e][j], 0)
    BY <1>9 DEF Opens
  <2>2. PICK I \in SUBSET DOMAIN todo[t] :
          /\ Moves(t, Len(Dst[e]), I)
          /\ \A j \in 1 .. Len(Dst[e]) : todo'[t][j] = Op("ready", Dst[e][j], 0)
    BY <2>1
  <2>3. \A j \in 1 .. Len(Dst[e]) : todo'[t][j].op # "finish"
    <3>1. \A x : Op("ready", x, 0).op = "ready"
      BY DEF Op
    <3>2. \A j \in 1 .. Len(Dst[e]) : todo'[t][j].op = "ready"
      BY <2>2, <3>1
    <3> QED BY <3>2
  <2> QED BY <1>3, <1>4, <1>6, <1>9, <2>2, <2>3
<1>10. ASSUME NEW t \in Tasks, UNCHANGED dst_finished, Turns(t), SendEof(t)
       PROVE  n.out \in fg'[f].out_eof
  <2> DEFINE I == {j \in DOMAIN todo[t] : todo[t][j].to # To(t)}
  <2>1. Moves(t, 1, I) /\ todo'[t][1].to = To(t) /\ I \in SUBSET DOMAIN todo[t]
    BY <1>10 DEF Turns
  <2> HIDE DEF I
  <2>2. CASE t # f
    BY <1>6, <1>10, <2>1, <2>2
  <2>3. CASE t = f /\ n # To(t)
    <3>1. \A j \in 1 .. 1 : todo'[f][j].to # n
      BY <2>1, <2>3
    <3> QED BY <1>3, <1>4, <1>10, <2>1, <2>3, <3>1
  <2>4. CASE t = f /\ n = To(t)
    <3>1. fg' = [fg EXCEPT ![f].out_eof = @ \cup {n.out},
                           ![f].consumers_done = @ \cup {n.out}]
      BY <1>10, <2>4 DEF SendEof
    <3>2. f \in DOMAIN fg /\ fg[f] \in Graph(f)
      BY DEF TypeInv, GraphType, GraphIs
    <3>3. fg'[f].out_eof = fg[f].out_eof \cup {n.out}
      BY <3>1, <3>2 DEF Graph
    <3> QED BY <3>3
  <2> QED BY <2>2, <2>3, <2>4
<1>11. ASSUME NEW t \in Tasks, UNCHANGED dst_finished, Counts(t) PROVE n.out \in fg'[f].out_eof
  <2>1. Moves(t, 1, {}) /\ t # f
    BY <1>2, <1>11 DEF Counts
  <2> QED BY <1>6, <1>11, <2>1
<1>12. ASSUME NEW t \in Tasks, UNCHANGED dst_finished, Fresh(t) PROVE n.out \in fg'[f].out_eof
  <2>1. Moves(t, Len(todo'[t]), {})
    BY <1>12 DEF Fresh
  <2>2. CASE t # f
    BY <1>6, <1>12, <2>1, <2>2
  <2>3. CASE t = f
    <3>1. n \in dst_finished'[f] => n \in dst_finished[f]
      BY <1>12
    <3>2. ASSUME Finishing(f, n)' PROVE n.out \in fg'[f].out_eof
      <4>1. PICK j \in DOMAIN todo'[f] : todo'[f][j].op = "finish" /\ todo'[f][j].to = n
        BY <3>2 DEF Finishing
      <4> QED BY <1>12, <2>3, <4>1 DEF Fresh
    <3> QED BY <1>3, <3>1, <3>2
  <2> QED BY <2>2, <2>3
<1> QED BY <1>5, <1>7, <1>8, <1>9, <1>10, <1>11, <1>12, StepKinds

LEMMA EndsInit ==
    ASSUME Init
    PROVE  EndsInv
<1>1. \A t \in Tasks : todo[t] = <<>> /\ DOMAIN todo[t] = {} /\ dst_finished[t] = {}
  BY DEF Init
<1>2. EndsKnown
  BY DstIs DEF Init, EndsKnown
<1>3. ParkedEnds
  <2>1. \A t \in Tasks : \A n \in Targets(t) : n.task \in Muxers => ~EndParked(MuxStream(n))
    <3>1. \A t \in Tasks : \A n \in Targets(t) : n.task \in Muxers => MuxStream(n) \in MuxStreams
      BY MuxStreamsAre, DstIs
    <3>2. \A ms \in MuxStreams : DOMAIN pre_mux[ms] = {}
      BY DEF Init
    <3> QED BY <3>1, <3>2 DEF EndParked
  <2> QED BY <2>1 DEF ParkedEnds
<1>4. NotOver
  BY <1>1 DEF NotOver
<1>5. OutputsOver
  BY <1>1, FiltersAre DEF OutputsOver, Finishing
<1>6. NoLateSends
  BY <1>1, TasksAre DEF NoLateSends
<1> QED BY <1>2, <1>3, <1>4, <1>5, <1>6 DEF EndsInv

LEMMA EndsNext ==
    ASSUME TypeInv, EndsInv, [Next]_vars
    PROVE  EndsInv'
BY EndsKnownNext, ParkedEndsNext, NotOverNext, OutputsOverNext, NoLateSendsNext DEF EndsInv

THEOREM EndsAlways == Spec => []EndsInv
<1>1. Init => TypeInv /\ EndsInv
  BY TypeInit, EndsInit
<1>2. TypeInv /\ EndsInv /\ [Next]_vars => (TypeInv /\ EndsInv)'
  BY TypeNext, EndsNext
<1> QED BY <1>1, <1>2, PTL DEF Spec

--------------------------------------------------------------------------------
(* What is reported as ready, and how many muxers are done. *)

OpensEncoder(t) ==
    \/ EncOpen(t)

\* The steps that open no encoder.
LEMMA OpensEncoderAside ==
    ASSUME [Next]_vars, ~(\E t \in Tasks : OpensEncoder(t))
    PROVE  UNCHANGED opened
<1>1. ASSUME NEW t \in Tasks, TaskStep(t) \/ Fail(t), ~OpensEncoder(t) PROVE UNCHANGED opened
  <2>1. CASE \/ StreamReady(t) \/ FlushStep(t) \/ FlushEnd(t)
            \/ MuxStarted(t) \/ PreMux(t)
    BY <2>1 DEF StreamReady, FlushStep, FlushEnd, MuxStarted, PreMux, codecs
  <2>2. CASE \/ PreMuxFull(t) \/ PreMuxEndLost(t) \/ SendItem(t)
            \/ SendEof(t) \/ Finish(t)
    BY <2>2 DEF PreMuxFull, PreMuxEndLost, SendItem, SendEof, Finish, codecs
  <2>3. CASE FinishFilterInput(t) \/ MuxUpdate(t)
    BY <2>3 DEF FinishFilterInput, MuxUpdate, codecs
  <2>4. CASE Cleanup(t) \/ TaskExited(t) \/ Fail(t)
    BY <2>4 DEF Cleanup, TaskExited, Fail, codecs
  <2>5. CASE \/ DemuxSend(t) \/ DemuxSkip(t) \/ DemuxReturn(t)
            \/ DemuxFlush(t) \/ FlushSend(t)
    BY <2>5 DEF DemuxSend, DemuxSkip, DemuxReturn, DemuxFlush, FlushSend,
              codecs
  <2>6. CASE FlushAwait(t) \/ FlushEof(t)
    BY <2>6 DEF FlushAwait, FlushEof, codecs
  <2>7. CASE \/ CodecItem(t) \/ CodecEnd(t) \/ DecoderStop(t)
            \/ DecoderFlush(t) \/ DecoderEndTs(t)
    BY <2>7 DEF CodecItem, CodecEnd, DecoderStop, DecoderFlush, DecoderEndTs,
              codecs
  <2>8. CASE NoEndTs(t)
    BY <2>8 DEF NoEndTs
  <2>9. CASE \/ MuxItem(t) \/ MuxHangUp(t) \/ MuxEnd(t)
            \/ MuxReturn(t) \/ MuxDone(t)
    BY <2>9 DEF MuxItem, MuxHangUp, MuxEnd, MuxReturn, MuxDone, codecs
  <2>10. CASE MuxCount(t)
    BY <2>10 DEF MuxCount, codecs
  <2>11. CASE \/ FilterPrefer(t) \/ FilterItem(t) \/ ChokeInputs(t)
            \/ CloseInput(t) \/ FilterStreamEnd(t)
    BY <2>11 DEF FilterPrefer, FilterItem, ChokeInputs, CloseInput,
              FilterStreamEnd, codecs
  <2>12. CASE \/ FilterNothing(t) \/ FilterTurn(t) \/ FilterUnconfigured(t)
            \/ FilterRead(t) \/ FilterFrame(t)
    BY <2>12 DEF FilterNothing, FilterTurn, FilterUnconfigured, FilterRead,
              FilterFrame, codecs
  <2>13. CASE \/ FilterConsumersDone(t) \/ CloseOutput(t) \/ FilterRequest(t)
            \/ FilterReturn(t)
    BY <2>13 DEF FilterConsumersDone, CloseOutput, FilterRequest, FilterReturn,
              codecs
  <2> QED
    BY <1>1, <2>1, <2>2, <2>3, <2>4, <2>5, <2>6, <2>7, <2>8, <2>9, <2>10, <2>11,
       <2>12, <2>13
    DEF OpensEncoder, TaskStep, Continue, DemuxStep, CodecStep, DecoderStep,
        MuxStep, FilterStep
<1>2. CASE MainStep \/ Interrupt
  BY <1>2 DEF MainStart, MainTerminate, Interrupt, MainChokeAll, MainJoined,
              codecs, MainStep
<1>3. CASE UNCHANGED vars
  BY <1>3 DEF vars, codecs
<1> QED BY <1>1, <1>2, <1>3 DEF Next, Run

Reports(t) ==
    \/ StreamReady(t)

\* The steps that make no stream ready.
LEMMA ReportsAside ==
    ASSUME [Next]_vars, ~(\E t \in Tasks : Reports(t))
    PROVE  UNCHANGED ready
<1>1. ASSUME NEW t \in Tasks, TaskStep(t) \/ Fail(t), ~Reports(t) PROVE UNCHANGED ready
  <2>1. CASE \/ EncOpen(t) \/ FlushStep(t) \/ FlushEnd(t)
            \/ MuxStarted(t) \/ PreMux(t)
    BY <2>1 DEF EncOpen, FlushStep, FlushEnd, MuxStarted, PreMux, muxing
  <2>2. CASE \/ PreMuxFull(t) \/ PreMuxEndLost(t) \/ SendItem(t)
            \/ SendEof(t) \/ Finish(t)
    BY <2>2 DEF PreMuxFull, PreMuxEndLost, SendItem, SendEof, Finish, muxing
  <2>3. CASE FinishFilterInput(t) \/ MuxUpdate(t)
    BY <2>3 DEF FinishFilterInput, MuxUpdate, muxing
  <2>4. CASE Cleanup(t) \/ TaskExited(t) \/ Fail(t)
    BY <2>4 DEF Cleanup, TaskExited, Fail, muxing
  <2>5. CASE \/ DemuxSend(t) \/ DemuxSkip(t) \/ DemuxReturn(t)
            \/ DemuxFlush(t) \/ FlushSend(t)
    BY <2>5 DEF DemuxSend, DemuxSkip, DemuxReturn, DemuxFlush, FlushSend,
              muxing
  <2>6. CASE FlushAwait(t) \/ FlushEof(t)
    BY <2>6 DEF FlushAwait, FlushEof, muxing
  <2>7. CASE \/ CodecItem(t) \/ CodecEnd(t) \/ DecoderStop(t)
            \/ DecoderFlush(t) \/ DecoderEndTs(t)
    BY <2>7 DEF CodecItem, CodecEnd, DecoderStop, DecoderFlush, DecoderEndTs,
              muxing
  <2>8. CASE NoEndTs(t)
    BY <2>8 DEF NoEndTs, muxing
  <2>9. CASE \/ MuxItem(t) \/ MuxHangUp(t) \/ MuxEnd(t)
            \/ MuxReturn(t) \/ MuxDone(t)
    BY <2>9 DEF MuxItem, MuxHangUp, MuxEnd, MuxReturn, MuxDone, muxing
  <2>10. CASE MuxCount(t)
    BY <2>10 DEF MuxCount, muxing
  <2>11. CASE \/ FilterPrefer(t) \/ FilterItem(t) \/ ChokeInputs(t)
            \/ CloseInput(t) \/ FilterStreamEnd(t)
    BY <2>11 DEF FilterPrefer, FilterItem, ChokeInputs, CloseInput,
              FilterStreamEnd, muxing
  <2>12. CASE \/ FilterNothing(t) \/ FilterTurn(t) \/ FilterUnconfigured(t)
            \/ FilterRead(t) \/ FilterFrame(t)
    BY <2>12 DEF FilterNothing, FilterTurn, FilterUnconfigured, FilterRead,
              FilterFrame, muxing
  <2>13. CASE \/ FilterConsumersDone(t) \/ CloseOutput(t) \/ FilterRequest(t)
            \/ FilterReturn(t)
    BY <2>13 DEF FilterConsumersDone, CloseOutput, FilterRequest, FilterReturn,
              muxing
  <2> QED
    BY <1>1, <2>1, <2>2, <2>3, <2>4, <2>5, <2>6, <2>7, <2>8, <2>9, <2>10, <2>11,
       <2>12, <2>13
    DEF Reports, TaskStep, Continue, DemuxStep, CodecStep, DecoderStep,
        MuxStep, FilterStep
<1>2. CASE MainStep \/ Interrupt
  BY <1>2 DEF MainStart, MainTerminate, Interrupt, MainChokeAll, MainJoined,
              muxing, MainStep
<1>3. CASE UNCHANGED vars
  BY <1>3 DEF vars, muxing
<1> QED BY <1>1, <1>2, <1>3 DEF Next, Run

CountsMux(t) ==
    \/ t \in Muxers /\ MuxCount(t)

\* The steps in which no muxer is counted as done.
LEMMA CountsMuxAside ==
    ASSUME [Next]_vars, ~(\E t \in Tasks : CountsMux(t))
    PROVE  UNCHANGED nb_mux_done
<1>1. ASSUME NEW t \in Tasks, TaskStep(t) \/ Fail(t), ~CountsMux(t) PROVE UNCHANGED nb_mux_done
  <2>1. CASE \/ EncOpen(t) \/ StreamReady(t) \/ FlushStep(t)
            \/ FlushEnd(t) \/ MuxStarted(t)
    BY <2>1 DEF EncOpen, StreamReady, FlushStep, FlushEnd, MuxStarted, ending
  <2>2. CASE \/ PreMux(t) \/ PreMuxFull(t) \/ PreMuxEndLost(t)
            \/ SendItem(t) \/ SendEof(t)
    BY <2>2 DEF PreMux, PreMuxFull, PreMuxEndLost, SendItem, SendEof, ending
  <2>3. CASE Finish(t) \/ FinishFilterInput(t) \/ MuxUpdate(t)
    BY <2>3 DEF Finish, FinishFilterInput, MuxUpdate, ending
  <2>4. CASE Cleanup(t) \/ TaskExited(t) \/ Fail(t)
    BY <2>4 DEF Cleanup, TaskExited, Fail, ending
  <2>5. CASE \/ DemuxSend(t) \/ DemuxSkip(t) \/ DemuxReturn(t)
            \/ DemuxFlush(t) \/ FlushSend(t)
    BY <2>5 DEF DemuxSend, DemuxSkip, DemuxReturn, DemuxFlush, FlushSend,
              ending
  <2>6. CASE FlushAwait(t) \/ FlushEof(t)
    BY <2>6 DEF FlushAwait, FlushEof, ending
  <2>7. CASE \/ CodecItem(t) \/ CodecEnd(t) \/ DecoderStop(t)
            \/ DecoderFlush(t) \/ DecoderEndTs(t)
    BY <2>7 DEF CodecItem, CodecEnd, DecoderStop, DecoderFlush, DecoderEndTs,
              ending
  <2>8. CASE NoEndTs(t)
    BY <2>8 DEF NoEndTs, ending
  <2>9. CASE \/ MuxItem(t) \/ MuxHangUp(t) \/ MuxEnd(t)
            \/ MuxReturn(t) \/ MuxDone(t)
    BY <2>9 DEF MuxItem, MuxHangUp, MuxEnd, MuxReturn, MuxDone, ending
  <2>10. CASE \/ FilterPrefer(t) \/ FilterItem(t) \/ ChokeInputs(t)
            \/ CloseInput(t) \/ FilterStreamEnd(t)
    BY <2>10 DEF FilterPrefer, FilterItem, ChokeInputs, CloseInput,
              FilterStreamEnd, ending
  <2>11. CASE \/ FilterNothing(t) \/ FilterTurn(t) \/ FilterUnconfigured(t)
            \/ FilterRead(t) \/ FilterFrame(t)
    BY <2>11 DEF FilterNothing, FilterTurn, FilterUnconfigured, FilterRead,
              FilterFrame, ending
  <2>12. CASE \/ FilterConsumersDone(t) \/ CloseOutput(t) \/ FilterRequest(t)
            \/ FilterReturn(t)
    BY <2>12 DEF FilterConsumersDone, CloseOutput, FilterRequest, FilterReturn,
              ending
  <2> QED
    BY <1>1, <2>1, <2>2, <2>3, <2>4, <2>5, <2>6, <2>7, <2>8, <2>9, <2>10, <2>11,
       <2>12
    DEF CountsMux, TaskStep, Continue, DemuxStep, CodecStep, DecoderStep,
        MuxStep, FilterStep
<1>2. CASE MainStep \/ Interrupt
  BY <1>2 DEF MainStart, MainTerminate, Interrupt, MainChokeAll, MainJoined,
              MainStep
<1>3. CASE UNCHANGED vars
  BY <1>3 DEF vars, ending
<1> QED BY <1>1, <1>2, <1>3 DEF Next, Run

Reported(t) == {todo[t][j].to : j \in {i \in DOMAIN todo[t] : todo[t][i].op = "ready"}}

\* A stream is reported once, by the task that opened its encoder.
ReadyOpen ==
    \A t \in Tasks : \A n \in Reported(t) :
        MuxStream(n) \notin ready /\ \E e \in Encoders \cap opened : n \in Targets(e)

ReadyOnce ==
    \A t \in Tasks :
        /\ \A j, k \in DOMAIN todo[t] :
              todo[t][j].op = "ready" /\ todo[t][k].op = "ready" /\ todo[t][j].to = todo[t][k].to
                  => j = k
        /\ \A u \in Tasks \ {t} : Reported(t) \cap Reported(u) = {}

ReadyLater == \A e \in Encoders \ opened : \A n \in Targets(e) : MuxStream(n) \notin ready

ReadyInv == ReadyOpen /\ ReadyOnce /\ ReadyLater

\* Steps that report nothing new.
LEMMA ReportsKept ==
    ASSUME TypeInv, ReadyOnce, NEW t \in Tasks, NEW n, NEW I \in SUBSET DOMAIN todo[t],
           Moves(t, n, I), \A j \in 1 .. n : todo'[t][j].op # "ready"
    PROVE  /\ \A u \in Tasks : Reported(u)' \subseteq Reported(u)
           /\ ReadyOnce'
<1>1. TodoType
  BY DEF TypeInv
<1>2. PICK at \in [n + 1 .. Len(todo'[t]) -> I] :
          \A k \in n + 1 .. Len(todo'[t]) :
              /\ todo'[t][k] = todo[t][at[k]] /\ at[k] \in DOMAIN todo[t]
              /\ \A i \in n + 1 .. k - 1 : todo'[t][i] = todo[t][at[i]] /\ at[i] \in 1 .. at[k] - 1
  BY <1>1, MovedFrom
<1>3. /\ DOMAIN todo'[t] = 1 .. Len(todo'[t]) /\ n \in 0 .. Len(todo'[t])
      /\ \A u \in Tasks \ {t} : todo'[u] = todo[u]
  BY <1>1, MovedFrom
<1>4. \A j \in DOMAIN todo'[t] : todo'[t][j].op = "ready" => j \in n + 1 .. Len(todo'[t])
  <2> SUFFICES ASSUME NEW j \in DOMAIN todo'[t], todo'[t][j].op = "ready"
               PROVE  j \in n + 1 .. Len(todo'[t])
    OBVIOUS
  <2>1. j \notin 1 .. n
    OBVIOUS
  <2> QED BY <1>3, <2>1
<1>5. Reported(t)' \subseteq Reported(t)
  BY <1>2, <1>4 DEF Reported
<1>6. ASSUME NEW u \in Tasks PROVE Reported(u)' \subseteq Reported(u)
  <2>1. CASE u # t
    BY <1>3, <2>1 DEF Reported
  <2> QED BY <1>5, <2>1
<1>7. \A j, k \in DOMAIN todo'[t] :
        todo'[t][j].op = "ready" /\ todo'[t][k].op = "ready" /\ todo'[t][j].to = todo'[t][k].to => j = k
  <2>1. ASSUME NEW j \in DOMAIN todo'[t], NEW k \in DOMAIN todo'[t], j < k,
               todo'[t][j].op = "ready", todo'[t][k].op = "ready", todo'[t][j].to = todo'[t][k].to
        PROVE  FALSE
    <3>1. j \in n + 1 .. k - 1 /\ k \in n + 1 .. Len(todo'[t])
      BY <1>3, <1>4, <2>1
    <3>2. /\ todo'[t][j] = todo[t][at[j]] /\ todo'[t][k] = todo[t][at[k]]
          /\ at[j] \in 1 .. at[k] - 1 /\ at[k] \in DOMAIN todo[t]
      BY <1>2, <3>1
    <3>3. at[j] \in DOMAIN todo[t] /\ at[j] # at[k]
      <4>1. DOMAIN todo[t] = 1 .. Len(todo[t]) /\ Len(todo[t]) \in Nat
        BY <1>1 DEF TodoType
      <4> QED BY <3>2, <4>1
    <3> QED BY <2>1, <3>2, <3>3 DEF ReadyOnce
  <2>2. \A j, k \in DOMAIN todo'[t] : j = k \/ j < k \/ k < j
    BY <1>3
  <2> QED BY <2>1, <2>2
<1>8. ReadyOnce'
  <2> SUFFICES ASSUME NEW u \in Tasks
               PROVE  /\ \A j, k \in DOMAIN todo'[u] :
                            todo'[u][j].op = "ready" /\ todo'[u][k].op = "ready"
                              /\ todo'[u][j].to = todo'[u][k].to => j = k
                      /\ \A v \in Tasks \ {u} : Reported(u)' \cap Reported(v)' = {}
    BY DEF ReadyOnce, Reported
  <2>1. \A v \in Tasks \ {u} : Reported(u)' \cap Reported(v)' = {}
    BY <1>6 DEF ReadyOnce
  <2> QED BY <1>3, <1>7, <2>1 DEF ReadyOnce
<1> QED BY <1>6, <1>8

\* All steps, by what they do to what is reported.
LEMMA ReportKinds ==
    ASSUME TypeInv, [Next]_vars
    PROVE  \/ UNCHANGED todo
           \/ \E t \in Tasks : Opens(t) /\ EncOpen(t)
           \/ \E t \in Tasks : \E n : \E I \in SUBSET DOMAIN todo[t] :
                  Moves(t, n, I) /\ \A j \in 1 .. n : todo'[t][j].op # "ready"
<1>1. CASE ~(\E t \in Tasks : Acts(t))
  BY <1>1, ActsAside
<1>2. ASSUME NEW t \in Tasks, Acts(t), ~(Opens(t) /\ EncOpen(t))
      PROVE  \E n : \E I \in SUBSET DOMAIN todo[t] :
                 Moves(t, n, I) /\ \A j \in 1 .. n : todo'[t][j].op # "ready"
  <2>1. CASE Neutral(t)
    BY <2>1 DEF Neutral, Other, SendOps
  <2>2. CASE Fresh(t)
    <3>1. Moves(t, Len(todo'[t]), {}) /\ DOMAIN todo'[t] = 1 .. Len(todo'[t])
      BY <2>2 DEF Fresh, Moves
    <3>2. {} \in SUBSET DOMAIN todo[t]
      OBVIOUS
    <3> QED BY <2>2, <3>1, <3>2 DEF Fresh
  <2>3. CASE Counts(t)
    <3>1. Moves(t, 1, {}) /\ todo'[t][1].op = "count"
      BY <2>3 DEF Counts
    <3>2. {} \in SUBSET DOMAIN todo[t] /\ \A j \in 1 .. 1 : todo'[t][j].op # "ready"
      BY <3>1
    <3> QED BY <3>1, <3>2
  <2>4. CASE Finishes(t)
    <3>1. 2 .. Len(todo[t]) \in SUBSET DOMAIN todo[t]
      BY DEF TypeInv, TodoType
    <3> QED BY <2>4, <3>1 DEF Finishes, Other, SendOps
  <2>5. CASE Turns(t)
    <3> DEFINE I == {j \in DOMAIN todo[t] : todo[t][j].to # To(t)}
    <3>1. Moves(t, 1, I) /\ todo'[t][1].op = "finish" /\ I \in SUBSET DOMAIN todo[t]
      BY <2>5 DEF Turns
    <3>2. \A j \in 1 .. 1 : todo'[t][j].op # "ready"
      BY <3>1
    <3> HIDE DEF I
    <3> QED BY <3>1, <3>2
  <2> QED BY <1>2, <2>1, <2>2, <2>3, <2>4, <2>5, ActsKinds DEF TypeInv, PcType, PosIs
<1> QED BY <1>1, <1>2

LEMMA ReportIs ==
    ASSUME ReadyOpen, NEW t \in Tasks, NEW n \in Reported(t)
    PROVE  \E e \in Encoders : /\ e \in opened /\ e \in Tasks /\ n \in Targets(e)
                               /\ n.task \in Muxers /\ MuxStream(n) \in MuxStreams
<1>1. PICK e \in Encoders \cap opened : n \in Targets(e)
  BY DEF ReadyOpen
<1>2. e \in Tasks
  BY DEF Tasks, Consumers
<1> QED BY <1>1, <1>2, DstIs, TargetKinds, MuxStreamsAre

LEMMA SameStream ==
    ASSUME NEW t \in Tasks, NEW u \in Tasks, NEW n \in Targets(t), NEW o \in Targets(u),
           MuxStream(n) = MuxStream(o)
    PROVE  t = u /\ n = o
<1>1. n.task = o.task /\ n.in = o.in
  BY DEF MuxStream
<1> QED BY <1>1, OneSource

LEMMA ReadyNext ==
    ASSUME TypeInv, ReadyInv, [Next]_vars
    PROVE  ReadyInv'
<1>1. TodoType /\ ReadyOpen /\ ReadyOnce /\ ReadyLater
  BY DEF TypeInv, ReadyInv
<1>2. ASSUME NEW t \in Tasks, EncOpen(t), Opens(t) PROVE ReadyInv'
  <2>1. UNCHANGED ready
    BY <1>2 DEF EncOpen, muxing
  <2>2. PICK e \in Encoders \ opened : \E I \in SUBSET DOMAIN todo[t] :
          /\ opened' = opened \cup {e}
          /\ Moves(t, Len(Dst[e]), I)
          /\ \A j \in 1 .. Len(Dst[e]) : todo'[t][j] = Op("ready", Dst[e][j], 0)
    BY <1>2 DEF Opens
  <2>3. PICK I \in SUBSET DOMAIN todo[t] :
          /\ opened' = opened \cup {e}
          /\ Moves(t, Len(Dst[e]), I)
          /\ \A j \in 1 .. Len(Dst[e]) : todo'[t][j] = Op("ready", Dst[e][j], 0)
    BY <2>2
  <2> DEFINE n == Len(Dst[e])
  <2>4. PICK at \in [n + 1 .. Len(todo'[t]) -> I] :
            \A k \in n + 1 .. Len(todo'[t]) :
                /\ todo'[t][k] = todo[t][at[k]] /\ at[k] \in DOMAIN todo[t]
                /\ \A i \in n + 1 .. k - 1 : todo'[t][i] = todo[t][at[i]] /\ at[i] \in 1 .. at[k] - 1
    BY <1>1, <2>3, MovedFrom
  <2>5. /\ DOMAIN todo'[t] = 1 .. Len(todo'[t]) /\ n \in 0 .. Len(todo'[t])
        /\ \A u \in Tasks \ {t} : todo'[u] = todo[u]
    BY <1>1, <2>3, MovedFrom
  <2>6. e \in Tasks /\ DOMAIN Dst[e] = 1 .. n /\ \A j \in 1 .. n : Dst[e][j] \in Targets(e)
    <3>1. e \in Tasks
      BY DEF Tasks, Consumers
    <3> QED BY <3>1, DstIs
  <2>7. \A j \in 1 .. n : todo'[t][j].to = Dst[e][j]
    <3>1. \A x : Op("ready", x, 0).to = x
      BY DEF Op
    <3> QED BY <2>3, <3>1
  <2> HIDE DEF n
  <2>8. \A j \in DOMAIN todo'[t] : j \in 1 .. n \/ j \in n + 1 .. Len(todo'[t])
    BY <2>5
  <2>9. Reported(t)' \subseteq Reported(t) \cup Targets(e)
    <3> SUFFICES ASSUME NEW j \in DOMAIN todo'[t], todo'[t][j].op = "ready"
                 PROVE  todo'[t][j].to \in Reported(t) \cup Targets(e)
      BY DEF Reported
    <3>1. CASE j \in 1 .. n
      BY <2>6, <2>7, <3>1
    <3>2. CASE j \in n + 1 .. Len(todo'[t])
      <4>1. todo'[t][j] = todo[t][at[j]] /\ at[j] \in DOMAIN todo[t]
        BY <2>4, <3>2
      <4> QED BY <4>1 DEF Reported
    <3> QED BY <2>8, <3>1, <3>2
  <2>10. \A u \in Tasks \ {t} : Reported(u)' = Reported(u)
    BY <2>5 DEF Reported
  <2>11. \A u \in Tasks : Reported(u) \cap Targets(e) = {}
    <3> SUFFICES ASSUME NEW u \in Tasks, NEW o \in Reported(u), o \in Targets(e) PROVE FALSE
      OBVIOUS
    <3>1. PICK d \in Encoders : d \in opened /\ d \in Tasks /\ o \in Targets(d)
      BY <1>1, ReportIs
    <3>2. d = e
      BY <2>6, <3>1, OneSource
    <3> QED BY <2>2, <3>1, <3>2
  <2>12. ReadyOpen'
    <3> SUFFICES ASSUME NEW u \in Tasks, NEW o \in Reported(u)'
                 PROVE  MuxStream(o) \notin ready /\ \E d \in Encoders \cap opened' : o \in Targets(d)
      BY <2>1 DEF ReadyOpen, MuxStream
    <3>1. o \in Reported(u) \/ o \in Targets(e)
      BY <2>9, <2>10
    <3>2. CASE o \in Reported(u)
      BY <1>1, <2>3, <3>2 DEF ReadyOpen
    <3>3. CASE o \in Targets(e)
      BY <1>1, <2>3, <3>3 DEF ReadyLater
    <3> QED BY <3>1, <3>2, <3>3
  <2>13. \A j, k \in DOMAIN todo'[t] :
          todo'[t][j].op = "ready" /\ todo'[t][k].op = "ready" /\ todo'[t][j].to = todo'[t][k].to => j = k
    <3>1. ASSUME NEW j \in DOMAIN todo'[t], NEW k \in DOMAIN todo'[t], j < k,
                 todo'[t][j].op = "ready", todo'[t][k].op = "ready", todo'[t][j].to = todo'[t][k].to
          PROVE  FALSE
      <4>1. CASE k \in 1 .. n
        <5>1. j \in 1 .. n
          BY <2>5, <3>1, <4>1
        <5>2. Dst[e][j] = Dst[e][k]
          BY <2>7, <3>1, <4>1, <5>1
        <5>3. j = k
          BY <2>6, <4>1, <5>1, <5>2, OnePlace
        <5> QED BY <2>5, <3>1, <5>3
      <4>2. CASE k \in n + 1 .. Len(todo'[t])
        <5>1. todo'[t][k] = todo[t][at[k]] /\ at[k] \in DOMAIN todo[t]
          BY <2>4, <4>2
        <5>2. CASE j \in 1 .. n
          <6>1. todo'[t][j].to \in Targets(e)
            BY <2>6, <2>7, <5>2
          <6>2. todo'[t][k].to \in Reported(t)
            BY <3>1, <5>1 DEF Reported
          <6> QED BY <2>11, <3>1, <6>1, <6>2
        <5>3. CASE j \in n + 1 .. k - 1
          <6>1. todo'[t][j] = todo[t][at[j]] /\ at[j] \in 1 .. at[k] - 1
            BY <2>4, <4>2, <5>3
          <6>2. at[j] \in DOMAIN todo[t] /\ at[j] # at[k]
            <7>1. DOMAIN todo[t] = 1 .. Len(todo[t]) /\ Len(todo[t]) \in Nat
              BY <1>1 DEF TodoType
            <7> QED BY <5>1, <6>1, <7>1
          <6> QED BY <1>1, <3>1, <5>1, <6>1, <6>2 DEF ReadyOnce
        <5>4. j \in 1 .. n \/ j \in n + 1 .. k - 1
          BY <2>5, <3>1
        <5> QED BY <5>2, <5>3, <5>4
      <4> QED BY <2>8, <4>1, <4>2
    <3>2. \A j, k \in DOMAIN todo'[t] : j = k \/ j < k \/ k < j
      BY <2>5
    <3> QED BY <3>1, <3>2
  <2>14. ReadyOnce'
    <3> SUFFICES ASSUME NEW u \in Tasks
                 PROVE  /\ \A j, k \in DOMAIN todo'[u] :
                              todo'[u][j].op = "ready" /\ todo'[u][k].op = "ready"
                                /\ todo'[u][j].to = todo'[u][k].to => j = k
                        /\ \A v \in Tasks \ {u} : Reported(u)' \cap Reported(v)' = {}
      BY DEF ReadyOnce, Reported
    <3>1. \A v \in Tasks \ {u} : Reported(u)' \cap Reported(v)' = {}
      <4>1. \A v \in Tasks \ {t} : Reported(t)' \cap Reported(v)' = {}
        BY <1>1, <2>9, <2>10, <2>11 DEF ReadyOnce
      <4>2. \A v, w \in Tasks \ {t} : v # w => Reported(v)' \cap Reported(w)' = {}
        BY <1>1, <2>10 DEF ReadyOnce
      <4> QED BY <4>1, <4>2
    <3> QED BY <1>1, <2>5, <2>13, <3>1 DEF ReadyOnce
  <2>15. ReadyLater'
    BY <1>1, <2>1, <2>3 DEF ReadyLater, MuxStream
  <2> QED BY <2>12, <2>14, <2>15 DEF ReadyInv
<1>3. ASSUME ~(\E t \in Tasks : EncOpen(t))
      PROVE  /\ UNCHANGED opened /\ ReadyOnce'
             /\ \A u \in Tasks : Reported(u)' \subseteq Reported(u)
  <2>1. UNCHANGED opened
    BY <1>3, OpensEncoderAside DEF OpensEncoder
  <2>2. CASE UNCHANGED todo
    <3>1. \A u \in Tasks : Reported(u)' = Reported(u)
      BY <2>2 DEF Reported
    <3>2. ReadyOnce'
      <4> SUFFICES ASSUME NEW u \in Tasks
                   PROVE  /\ \A j, k \in DOMAIN todo'[u] :
                                todo'[u][j].op = "ready" /\ todo'[u][k].op = "ready"
                                  /\ todo'[u][j].to = todo'[u][k].to => j = k
                          /\ \A v \in Tasks \ {u} : Reported(u)' \cap Reported(v)' = {}
        BY DEF ReadyOnce, Reported
      <4> QED BY <1>1, <2>2, <3>1 DEF ReadyOnce
    <3> QED BY <2>1, <3>1, <3>2
  <2>3. CASE ~UNCHANGED todo
    <3>1. PICK t \in Tasks : \E n : \E I \in SUBSET DOMAIN todo[t] :
                  Moves(t, n, I) /\ \A j \in 1 .. n : todo'[t][j].op # "ready"
      BY <1>3, <2>3, ReportKinds
    <3>2. PICK n : \E I \in SUBSET DOMAIN todo[t] :
                  Moves(t, n, I) /\ \A j \in 1 .. n : todo'[t][j].op # "ready"
      BY <3>1
    <3>3. PICK I \in SUBSET DOMAIN todo[t] :
                  Moves(t, n, I) /\ \A j \in 1 .. n : todo'[t][j].op # "ready"
      BY <3>2
    <3> QED BY <1>1, <2>1, <3>3, ReportsKept
  <2> QED BY <2>2, <2>3
<1>4. ASSUME NEW t \in Tasks, StreamReady(t), ~(\E u \in Tasks : EncOpen(u)) PROVE ReadyInv'
  <2> DEFINE n == To(t)
  <2>1. At(t, "ready") /\ ready' = ready \cup {MuxStream(n)} /\ Proceed(t)
    BY <1>4 DEF StreamReady
  <2>2. /\ 1 \in DOMAIN todo[t] /\ todo[t][1].op = "ready" /\ todo[t][1].to = n
        /\ todo[t] \in Seq(Ops) /\ Len(todo[t]) \in Nat /\ todo[t] # <<>>
    BY <1>1, <2>1, HeadIs DEF At
  <2> HIDE DEF n
  <2>3. n \in Reported(t)
    BY <2>2 DEF Reported
  <2>4. n \notin Reported(t)'
    <3> SUFFICES ASSUME NEW j \in DOMAIN todo'[t], todo'[t][j].op = "ready", todo'[t][j].to = n
                 PROVE  FALSE
      BY DEF Reported
    <3>1. todo'[t] = Tail(todo[t])
      BY <1>1, <2>1 DEF Proceed, TodoType
    <3>2. j \in Nat \ {0} /\ j + 1 \in DOMAIN todo[t] /\ todo'[t][j] = todo[t][j + 1]
      BY <2>2, <3>1
    <3>3. j + 1 = 1
      BY <1>1, <2>2, <3>2 DEF ReadyOnce
    <3> QED BY <3>2, <3>3
  <2>5. PICK e \in Encoders : e \in opened /\ e \in Tasks /\ n \in Targets(e)
    BY <1>1, <2>3, ReportIs
  <2>6. ASSUME NEW u \in Tasks, NEW o \in Reported(u)' PROVE MuxStream(o) # MuxStream(n)
    <3>1. o \in Reported(u)
      BY <1>3, <1>4
    <3>2. PICK d \in Encoders : d \in opened /\ d \in Tasks /\ o \in Targets(d)
      BY <1>1, <3>1, ReportIs
    <3>3. o # n
      BY <1>1, <2>3, <2>4, <2>6, <3>1 DEF ReadyOnce
    <3> QED BY <2>5, <3>2, <3>3, SameStream
  <2>7. ReadyOpen'
    <3> SUFFICES ASSUME NEW u \in Tasks, NEW o \in Reported(u)'
                 PROVE  MuxStream(o) \notin ready' /\ \E d \in Encoders \cap opened' : o \in Targets(d)
      BY DEF ReadyOpen, MuxStream
    <3>1. o \in Reported(u)
      BY <1>3, <1>4
    <3> QED BY <1>1, <1>3, <1>4, <2>1, <2>6, <3>1 DEF ReadyOpen, n
  <2>8. ReadyLater'
    <3> SUFFICES ASSUME NEW d \in Encoders \ opened, NEW o \in Targets(d)
                 PROVE  MuxStream(o) \notin ready'
      BY <1>3, <1>4 DEF ReadyLater, MuxStream
    <3>1. d \in Tasks
      BY DEF Tasks, Consumers
    <3>2. MuxStream(o) # MuxStream(n)
      BY <2>5, <3>1, SameStream
    <3> QED BY <1>1, <2>1, <3>2 DEF ReadyLater, n
  <2> QED BY <1>3, <1>4, <2>7, <2>8 DEF ReadyInv
<1>5. ASSUME ~(\E t \in Tasks : EncOpen(t)), ~(\E t \in Tasks : StreamReady(t)) PROVE ReadyInv'
  <2>1. UNCHANGED ready
    BY <1>5, ReportsAside DEF Reports
  <2>2. ReadyOpen'
    BY <1>1, <1>3, <1>5, <2>1 DEF ReadyOpen, MuxStream
  <2>3. ReadyLater'
    BY <1>1, <1>3, <1>5, <2>1 DEF ReadyLater, MuxStream
  <2> QED BY <1>3, <1>5, <2>2, <2>3 DEF ReadyInv
<1>6. ASSUME NEW t \in Tasks, EncOpen(t) PROVE Opens(t)
  BY <1>1, <1>6, EncOpenOpens
<1> QED BY <1>2, <1>4, <1>5, <1>6

\* A muxer that has a thread has all its streams, unless its thread never came
\* to be and sch_stop() ends it after all other tasks.
MuxThreads ==
    \A m \in Muxers : pc[m] # "unstarted" =>
        \/ \A i \in Inputs(m) : [task |-> m, in |-> i] \in ready
        \/ \A t \in Tasks \ Muxers : pc[t] = "cleanup" /\ todo[t] = <<>>

\* A muxer that is not at rest is in its loop, or is about to be counted.
MuxBusy ==
    \A m \in Muxers : todo[m] # <<>> =>
        \/ pc[m] = "loop" /\ \A j \in DOMAIN todo[m] : todo[m][j].op # "count"
        \/ pc[m] = "cleanup" /\ Len(todo[m]) = 1 /\ todo[m][1].op = "count"

MuxesGone == {m \in Muxers : pc[m] = "cleanup" /\ todo[m] = <<>>}

MuxesCounted == nb_mux_done = Cardinality(MuxesGone)

MuxInv == MuxThreads /\ MuxBusy /\ MuxesCounted

\* The steps of a muxer's own thread that change what it has yet to do.
LEMMA MuxActs ==
    ASSUME TypeInv, [Next]_vars, NEW m \in Muxers, todo'[m] # todo[m]
    PROVE  MuxUpdate(m) \/ MuxItem(m) \/ MuxHangUp(m) \/ MuxDone(m) \/ MuxCount(m)
<1>1. m \in Tasks /\ TodoType
  BY DEF Tasks, Consumers, TypeInv
<1>2. PICK t \in Tasks : Acts(t)
  BY ActsAside
<1>3. \E n : \E I \in SUBSET DOMAIN todo[t] : Moves(t, n, I)
  BY <1>2, ActsMoves DEF TypeInv, PcType, PosIs
<1>4. t = m
  BY <1>1, <1>3, MovedFrom
<1>5. m \notin Demuxers /\ m \notin Decoders /\ m \notin Encoders /\ m \notin Filters
        /\ m \notin Sources
  BY KindsDiffer DEF Sources
<1>6. ~At(m, "send") /\ ~At(m, "init") /\ ~At(m, "finish") /\ ~At(m, "ready") /\ ~At(m, "exit")
  BY <1>1, <1>5, NextOp
<1>7. ~EncOpen(m) /\ ~StreamReady(m) /\ ~PreMux(m) /\ ~PreMuxFull(m) /\ ~PreMuxEndLost(m)
  BY <1>6 DEF EncOpen, StreamReady, PreMux, PreMuxFull, PreMuxEndLost
<1>8. ~SendItem(m) /\ ~SendEof(m) /\ ~Finish(m) /\ ~FinishFilterInput(m)
  BY <1>6 DEF SendItem, SendEof, CallsSend, Sendable, Finish, FinishFilterInput
<1>9. ~Cleanup(m) /\ ~TaskExited(m)
  BY <1>6 DEF Cleanup, TaskExited
<1> QED BY <1>2, <1>4, <1>5, <1>7, <1>8, <1>9 DEF Acts

\* A task that has been cleaned up does nothing more.
LEMMA DoneStays ==
    ASSUME TypeInv, [Next]_vars, NEW t \in Tasks \ Muxers, pc[t] = "cleanup", todo[t] = <<>>
    PROVE  pc'[t] = "cleanup" /\ todo'[t] = <<>>
<1>1. \A op : ~At(t, op)
  BY DEF At
<1>2. \A l : l # "cleanup" => ~Idle(t, l)
  BY DEF Idle
<1>3. ~Acts(t)
  <2>1. ~EncOpen(t) /\ ~StreamReady(t) /\ ~PreMux(t) /\ ~PreMuxFull(t) /\ ~PreMuxEndLost(t)
    BY <1>1 DEF EncOpen, StreamReady, PreMux, PreMuxFull, PreMuxEndLost
  <2>2. ~SendItem(t) /\ ~SendEof(t) /\ ~Finish(t) /\ ~FinishFilterInput(t) /\ ~MuxUpdate(t)
    BY <1>1 DEF SendItem, SendEof, CallsSend, Sendable, Finish, FinishFilterInput, MuxUpdate
  <2>3. ~Cleanup(t) /\ ~TaskExited(t) /\ ~NoEndTs(t)
    BY <1>1, <1>2 DEF Cleanup, TaskExited, NoEndTs
  <2>4. ~DemuxSend(t) /\ ~DemuxFlush(t) /\ ~FlushSend(t) /\ ~FlushAwait(t) /\ ~FlushEof(t)
    BY <1>1, <1>2 DEF DemuxSend, DemuxFlush, FlushSend, FlushAwait, FlushEof
  <2>5. ~CodecItem(t) /\ ~CodecEnd(t)
    BY <1>2 DEF CodecItem, CodecEnd
  <2>6. ~FilterItem(t) /\ ~ChokeInputs(t) /\ ~CloseInput(t) /\ ~FilterFrame(t)
    BY <1>1, <1>2 DEF FilterItem, Receiving, ChokeInputs, CloseInput, FilterFrame
  <2>7. ~CloseOutput(t) /\ ~FilterRequest(t)
    BY <1>2 DEF CloseOutput, FilterRequest, NoMoreFrames
  <2> QED BY <2>1, <2>2, <2>3, <2>4, <2>5, <2>6, <2>7 DEF Acts
<1>4. todo'[t] = <<>>
  <2>1. CASE \E u \in Tasks : Acts(u)
    <3>1. PICK u \in Tasks : Acts(u)
      BY <2>1
    <3>2. \E n : \E I \in SUBSET DOMAIN todo[u] : Moves(u, n, I)
      BY <3>1, ActsMoves DEF TypeInv, PcType, PosIs
    <3> QED BY <1>3, <3>1, <3>2, MovedFrom DEF TypeInv
  <2> QED BY <2>1, ActsAside
<1>5. pc'[t] = "cleanup"
  <2>1. CASE UNCHANGED pc
    BY <2>1
  <2>2. CASE \E x, v : Goes(x, v)
    <3>1. PICK x, v : Goes(x, v)
      BY <2>2
    <3>2. x # t
      BY <3>1 DEF Goes
    <3> QED BY <3>1, <3>2 DEF Goes, TypeInv, PcType
  <2> QED BY <2>1, <2>2, PcGoes DEF TypeInv
<1> QED BY <1>4, <1>5

\* The thread of a muxer is started once, before anything else happens to it.
LEMMA StartsOnce ==
    ASSUME TypeInv, ReadyInv, MuxThreads, NEW t \in Tasks, StreamReady(t)
    PROVE  To(t).task \in Muxers /\ pc[To(t).task] = "unstarted"
<1> DEFINE m == To(t).task
<1>1. At(t, "ready") /\ TodoType
  BY DEF StreamReady, TypeInv
<1>2. t \in Filters /\ t \notin Muxers /\ To(t) \in Edges /\ m \in Muxers
  BY <1>1, NextOp, KindsDiffer
<1>3. 1 \in DOMAIN todo[t] /\ todo[t][1].op = "ready" /\ todo[t][1].to = To(t)
  BY <1>1, HeadIs
<1>4. MuxStream(To(t)) \notin ready /\ todo[t] # <<>>
  BY <1>3 DEF Reported, ReadyInv, ReadyOpen
<1>5. To(t).in \in Inputs(m) /\ MuxStream(To(t)) = [task |-> m, in |-> To(t).in]
  BY <1>2, DstIs DEF MuxStream, Edges
<1>6. ~(\A i \in Inputs(m) : [task |-> m, in |-> i] \in ready)
  BY <1>4, <1>5
<1>7. ~(\A u \in Tasks \ Muxers : pc[u] = "cleanup" /\ todo[u] = <<>>)
  BY <1>2, <1>4
<1> QED BY <1>2, <1>6, <1>7 DEF MuxThreads

\* What happens to the place of a muxer.
LEMMA MuxPlace ==
    ASSUME TypeInv, ReadyInv, MuxThreads, [Next]_vars, NEW m \in Muxers, pc'[m] # pc[m]
    PROVE  \/ pc[m] = "loop" /\ todo[m] = <<>> /\ pc'[m] = "returned"
           \/ MuxDone(m) /\ pc'[m] = "cleanup"
           \/ /\ pc[m] = "unstarted" /\ pc'[m] = "loop"
              /\ \A i \in Inputs(m) : [task |-> m, in |-> i] \in ready'
<1>1. PICK x, v : Goes(x, v)
  BY PcGoes DEF TypeInv
<1>2. pc' = [pc EXCEPT ![x] = v] /\ pc = [u \in Tasks |-> pc[u]] /\ m \in Tasks
  BY <1>1 DEF Goes, TypeInv, PcType, Tasks, Consumers
<1>3. x = m /\ pc'[m] = v
  BY <1>2
<1>4. m \notin Filters /\ m \notin Demuxers \cup Decoders \cup Encoders
  BY KindsDiffer
<1>5. /\ v \in {"returned", "cleanup", "loop"}
      /\ v = "returned" => pc[m] = "loop" /\ todo[m] = <<>>
      /\ v = "cleanup" => MuxDone(m)
      /\ v = "loop" => \E t \in Tasks : StreamReady(t) /\ To(t).task = m
  BY <1>1, <1>3, <1>4 DEF Goes
<1>6. ASSUME NEW t \in Tasks, StreamReady(t), To(t).task = m
      PROVE  pc[m] = "unstarted" /\ \A i \in Inputs(m) : [task |-> m, in |-> i] \in ready'
  <2>1. pc[m] = "unstarted"
    BY <1>6, StartsOnce
  <2>2. \/ \A i \in Inputs(m) : [task |-> m, in |-> i] \in ready'
        \/ UNCHANGED pc
    BY <1>6 DEF StreamReady
  <2> QED BY <2>1, <2>2
<1> QED BY <1>3, <1>5, <1>6

LEMMA MuxThreadsNext ==
    ASSUME TypeInv, ReadyInv, MuxThreads, [Next]_vars
    PROVE  MuxThreads'
<1> SUFFICES ASSUME NEW m \in Muxers, pc'[m] # "unstarted"
             PROVE  \/ \A i \in Inputs(m) : [task |-> m, in |-> i] \in ready'
                    \/ \A t \in Tasks \ Muxers : pc'[t] = "cleanup" /\ todo'[t] = <<>>
  BY DEF MuxThreads
<1>1. ready \subseteq ready'
  <2>1. \A t \in Tasks : StreamReady(t) => ready \subseteq ready'
    BY DEF StreamReady
  <2> QED BY <2>1, ReportsAside DEF Reports
<1>2. CASE pc[m] # "unstarted"
  BY <1>1, <1>2, DoneStays DEF MuxThreads
<1>3. CASE pc[m] = "unstarted"
  <2>1. CASE MuxDone(m)
    <3>1. ~Idle(m, "returned")
      BY <1>3 DEF Idle
    <3>2. \A t \in Tasks \ Muxers : pc[t] = "cleanup" /\ todo[t] = <<>>
      BY <2>1, <3>1 DEF MuxDone, OtherTasksDone, Done, Idle
    <3> QED BY <3>2, DoneStays
  <2>2. CASE ~MuxDone(m)
    BY <1>3, <2>2, MuxPlace
  <2> QED BY <2>1, <2>2
<1> QED BY <1>2, <1>3

LEMMA TailIs ==
    ASSUME NEW S, NEW s \in Seq(S), s # <<>>
    PROVE  Tail(s) \in Seq(S) /\ Len(Tail(s)) = Len(s) - 1
OBVIOUS

LEMMA TailOfOne ==
    ASSUME NEW S, NEW s \in Seq(S), Len(s) = 1
    PROVE  Tail(s) = <<>>
<1>1. s # <<>>
  OBVIOUS
<1>2. Tail(s) \in Seq(S) /\ Len(Tail(s)) = 0
  BY <1>1, TailIs
<1>3. \A q \in Seq(S) : Len(q) = 0 => q = <<>>
  OBVIOUS
<1> QED BY <1>2, <1>3

\* What a muxer does to what it has yet to do.
LEMMA MuxBusyNext ==
    ASSUME TypeInv, ReadyInv, MuxThreads, MuxBusy, [Next]_vars
    PROVE  MuxBusy'
<1> SUFFICES ASSUME NEW m \in Muxers, todo'[m] # <<>>
             PROVE  \/ pc'[m] = "loop" /\ \A j \in DOMAIN todo'[m] : todo'[m][j].op # "count"
                    \/ pc'[m] = "cleanup" /\ Len(todo'[m]) = 1 /\ todo'[m][1].op = "count"
  BY DEF MuxBusy
<1>1. m \in Tasks /\ TodoType /\ pc = [u \in Tasks |-> pc[u]] /\ todo[m] \in Seq(Ops) /\ m \in DOMAIN todo
  BY DEF Tasks, Consumers, TypeInv, TodoType, PcType
<1>2. CASE MuxDone(m)
  <2>1. Counts(m) /\ pc'[m] = "cleanup"
    BY <1>1, <1>2, MuxDoneCounts DEF MuxDone, GoTo
  <2>2. todo'[m] = <<Op("count", m, 0)>> /\ Op("count", m, 0).op = "count"
    BY <2>1 DEF Counts
  <2>3. Len(todo'[m]) = 1 /\ todo'[m][1].op = "count"
    BY <2>2
  <2> QED BY <2>1, <2>3
<1>3. CASE todo'[m] = todo[m] /\ ~MuxDone(m)
  <2>1. pc'[m] = pc[m]
    BY <1>3, MuxPlace DEF MuxBusy
  <2> QED BY <1>3, <2>1 DEF MuxBusy
<1>4. CASE MuxItem(m)
  <2>1. Idle(m, "loop") /\ UNCHANGED pc /\ todo[m] = <<>>
    BY <1>4 DEF MuxItem, Idle
  <2>2. pc'[m] = "loop"
    BY <2>1 DEF Idle
  <2>3. \E x : todo' = [todo EXCEPT ![m] = <<Op("hangup", x, 0)>>]
    BY <1>4, <2>1 DEF MuxItem
  <2>4. PICK x : todo'[m] = <<Op("hangup", x, 0)>>
    BY <1>1, <2>3
  <2>5. Op("hangup", x, 0).op = "hangup"
    BY DEF Op
  <2>6. DOMAIN todo'[m] = {1} /\ todo'[m][1].op = "hangup"
    BY <2>4, <2>5
  <2> QED BY <2>2, <2>6
<1>5. CASE MuxHangUp(m) \/ MuxUpdate(m)
  <2>1. /\ At(m, "hangup") \/ At(m, "update")
        /\ UNCHANGED pc
    BY <1>5 DEF MuxHangUp, MuxUpdate
  <2>2. todo[m] # <<>> /\ todo[m][1].op # "count" /\ 1 \in DOMAIN todo[m]
    BY <1>1, <2>1, HeadIs DEF At
  <2>3. pc[m] = "loop" /\ \A j \in DOMAIN todo[m] : todo[m][j].op # "count"
    BY <2>2 DEF MuxBusy
  <2>4. DOMAIN todo[m] = 1 .. Len(todo[m]) /\ Len(todo[m]) \in Nat
          /\ Tail(todo[m]) \in Seq(Ops) /\ Len(Tail(todo[m])) = Len(todo[m]) - 1
          /\ DOMAIN Tail(todo[m]) = 1 .. Len(todo[m]) - 1
          /\ \A j \in 1 .. Len(todo[m]) - 1 : Tail(todo[m])[j] = todo[m][j + 1]
    BY <1>1, <2>2
  <2>5. \A j \in DOMAIN Tail(todo[m]) : Tail(todo[m])[j].op # "count"
    <3>1. \A j \in 1 .. Len(todo[m]) - 1 : j + 1 \in DOMAIN todo[m]
      BY <2>4
    <3> QED BY <2>3, <2>4, <3>1
  <2>6. CASE MuxUpdate(m)
    <3>1. todo'[m] = Tail(todo[m])
      BY <1>1, <2>6 DEF MuxUpdate, Proceed
    <3> QED BY <2>1, <2>3, <2>5, <3>1
  <2>7. CASE MuxHangUp(m)
    <3> DEFINE x == Op("update", To(m), 0)
    <3>1. todo'[m] = <<x>> \o Tail(todo[m])
      BY <1>1, <2>7 DEF MuxHangUp, ProceedWith
    <3>2. x.op = "update" /\ x \in Ops
      <4>1. To(m) \in Places
        BY <1>1, <2>1, HeadIs
      <4> QED BY <4>1, OpIs DEF OpNames
    <3> HIDE DEF x
    <3>3. \A j \in DOMAIN todo'[m] : todo'[m][j] = x \/ \E i \in DOMAIN Tail(todo[m]) : todo'[m][j] = Tail(todo[m])[i]
      <4> DEFINE r == Tail(todo[m])
      <4>1. r \in Seq(Ops)
        BY <2>4
      <4> HIDE DEF r
      <4>2. \A j \in DOMAIN (<<x>> \o r) : (<<x>> \o r)[j] = x \/ \E i \in DOMAIN r : (<<x>> \o r)[j] = r[i]
        <5>1. DOMAIN (<<x>> \o r) = 1 .. Len(r) + 1 /\ (<<x>> \o r)[1] = x /\ Len(r) \in Nat
          BY <3>2, <4>1
        <5>2. \A j \in 2 .. Len(r) + 1 : j - 1 \in DOMAIN r /\ (<<x>> \o r)[j] = r[j - 1]
          BY <3>2, <4>1
        <5>3. \A j \in 1 .. Len(r) + 1 : j = 1 \/ j \in 2 .. Len(r) + 1
          BY <5>1
        <5> QED BY <5>1, <5>2, <5>3
      <4> QED BY <3>1, <4>2 DEF r
    <3>4. \A j \in DOMAIN todo'[m] : todo'[m][j].op # "count"
      <4>1. x.op # "count"
        BY <3>2
      <4> QED BY <2>5, <3>3, <4>1
    <3> QED BY <2>1, <2>3, <3>4
  <2> QED BY <1>5, <2>6, <2>7
<1>6. CASE MuxCount(m)
  <2>1. At(m, "count") /\ todo'[m] = Tail(todo[m])
    BY <1>1, <1>6 DEF MuxCount, Proceed
  <2>2. todo[m] # <<>> /\ todo[m][1].op = "count" /\ 1 \in DOMAIN todo[m]
    BY <1>1, <2>1, HeadIs DEF At
  <2>3. Len(todo[m]) = 1
    BY <2>2 DEF MuxBusy
  <2>4. Tail(todo[m]) = <<>>
    BY <1>1, <2>3, TailOfOne
  <2> QED BY <2>1, <2>4
<1> QED BY <1>2, <1>3, <1>4, <1>5, <1>6, MuxActs

LEMMA CountIs ==
    ASSUME TypeInv, MuxBusy, NEW m \in Muxers, MuxCount(m)
    PROVE  /\ pc[m] = "cleanup" /\ todo[m] # <<>> /\ UNCHANGED pc
           /\ nb_mux_done' = nb_mux_done + 1
           /\ todo'[m] = <<>> /\ \A u \in Tasks \ {m} : todo'[u] = todo[u]
<1>1. m \in Tasks /\ TodoType /\ todo[m] \in Seq(Ops) /\ m \in DOMAIN todo
  BY DEF Tasks, Consumers, TypeInv, TodoType
<1>2. /\ At(m, "count") /\ todo' = [todo EXCEPT ![m] = Tail(@)]
      /\ nb_mux_done' = nb_mux_done + 1 /\ UNCHANGED pc
  BY DEF MuxCount, Proceed
<1>3. todo[m] # <<>> /\ todo[m][1].op = "count" /\ 1 \in DOMAIN todo[m]
  BY <1>1, <1>2, HeadIs DEF At
<1>4. pc[m] = "cleanup" /\ Len(todo[m]) = 1
  BY <1>3 DEF MuxBusy
<1>5. Tail(todo[m]) = <<>>
  BY <1>1, <1>4, TailOfOne
<1> QED BY <1>1, <1>2, <1>3, <1>4, <1>5 DEF TodoType

\* nb_mux_done is the number of the muxers that are done.
LEMMA MuxesCountedNext ==
    ASSUME TypeInv, ReadyInv, MuxThreads, MuxBusy, MuxesCounted, [Next]_vars
    PROVE  MuxesCounted'
<1>1. IsFiniteSet(Muxers) /\ MuxesGone \subseteq Muxers /\ IsFiniteSet(MuxesGone)
  <2>1. IsFiniteSet(Muxers) /\ MuxesGone \subseteq Muxers
    BY SchedulerGraphAssumption DEF MuxesGone
  <2> QED BY <2>1, FS_Subset
<1>2. \A m \in Muxers : m \in Tasks
  BY DEF Tasks, Consumers
<1>3. ASSUME NEW m \in Muxers, MuxCount(m) PROVE MuxesCounted'
  <2>1. /\ pc[m] = "cleanup" /\ todo[m] # <<>> /\ UNCHANGED pc
        /\ nb_mux_done' = nb_mux_done + 1
        /\ todo'[m] = <<>> /\ \A u \in Tasks \ {m} : todo'[u] = todo[u]
    BY <1>3, CountIs
  <2>2. MuxesGone' = MuxesGone \cup {m} /\ m \notin MuxesGone
    BY <1>2, <2>1 DEF MuxesGone
  <2>3. Cardinality(MuxesGone \cup {m}) = Cardinality(MuxesGone) + 1
    BY <1>1, <2>2, FS_AddElement
  <2> QED BY <2>1, <2>2, <2>3 DEF MuxesCounted
<1>4. CASE ~(\E m \in Muxers : MuxCount(m))
  <2>1. UNCHANGED nb_mux_done
    BY <1>4, CountsMuxAside DEF CountsMux
  <2>2. ASSUME NEW m \in Muxers, m \in MuxesGone PROVE m \in MuxesGone'
    <3>1. pc[m] = "cleanup" /\ todo[m] = <<>>
      BY <2>2 DEF MuxesGone
    <3>2. ~MuxDone(m) /\ ~MuxItem(m)
      BY <3>1 DEF MuxDone, MuxItem, Idle
    <3>3. ~MuxUpdate(m) /\ ~MuxHangUp(m)
      BY <3>1 DEF MuxUpdate, MuxHangUp, At
    <3>4. todo'[m] = todo[m]
      BY <1>4, <3>2, <3>3, MuxActs
    <3>5. pc'[m] = pc[m]
      BY <3>1, <3>2, MuxPlace
    <3> QED BY <3>1, <3>4, <3>5 DEF MuxesGone
  <2>3. ASSUME NEW m \in Muxers, m \in MuxesGone' PROVE m \in MuxesGone
    <3>1. pc'[m] = "cleanup" /\ todo'[m] = <<>>
      BY <2>3 DEF MuxesGone
    <3>2. ~MuxDone(m)
      <4> SUFFICES ASSUME MuxDone(m) PROVE FALSE
        OBVIOUS
      <4>1. Counts(m)
        BY MuxDoneCounts DEF TypeInv
      <4> QED BY <3>1, <4>1 DEF Counts
    <3>3. pc[m] = "cleanup"
      BY <3>1, <3>2, MuxPlace
    <3>4. CASE todo[m] # <<>>
      <4>1. todo[m][1].op = "count" /\ 1 \in DOMAIN todo[m] /\ todo[m] \in Seq(Ops)
        BY <1>2, <3>3, <3>4 DEF MuxBusy, TypeInv, TodoType
      <4>2. ~At(m, "update") /\ ~At(m, "hangup")
        BY <1>2, <4>1, HeadIs DEF TypeInv
      <4>3. ~MuxUpdate(m) /\ ~MuxHangUp(m) /\ ~MuxItem(m)
        BY <3>4, <4>2 DEF MuxUpdate, MuxHangUp, MuxItem, Idle
      <4>4. todo'[m] = todo[m]
        BY <1>4, <3>2, <4>3, MuxActs
      <4> QED BY <3>1, <3>4, <4>4
    <3>5. CASE todo[m] = <<>>
      BY <3>3, <3>5 DEF MuxesGone
    <3> QED BY <3>4, <3>5
  <2>4. MuxesGone' = MuxesGone
    <3>1. MuxesGone' \subseteq Muxers
      BY DEF MuxesGone
    <3> QED BY <1>1, <2>2, <2>3, <3>1
  <2> QED BY <2>1, <2>4 DEF MuxesCounted
<1> QED BY <1>3, <1>4

LEMMA MuxInit ==
    ASSUME Init
    PROVE  ReadyInv /\ MuxInv
<1>1. \A t \in Tasks : todo[t] = <<>> /\ DOMAIN todo[t] = {}
  BY DEF Init
<1>2. \A m \in Muxers : m \in Tasks
  BY DEF Tasks, Consumers
<1>3. ReadyOpen /\ ReadyOnce
  BY <1>1 DEF ReadyOpen, ReadyOnce, Reported
<1>4. ReadyLater
  <2> SUFFICES ASSUME NEW e \in Encoders, NEW n \in Targets(e), MuxStream(n) \in ready
               PROVE  FALSE
    BY DEF ReadyLater
  <2>1. e \in Tasks /\ e \notin Demuxers
    BY KindsDiffer DEF Tasks, Consumers
  <2>2. SrcTask(n.task, n.in) \in Demuxers
    BY DEF Init, MuxStream
  <2>3. \E u \in Tasks : \E o \in Targets(u) : o.task = n.task /\ o.in = n.in
    BY <2>1
  <2>4. PICK u \in Tasks : u = SrcTask(n.task, n.in) /\ \E o \in Targets(u) : o.task = n.task /\ o.in = n.in
    BY <2>3 DEF SrcTask
  <2>5. u = e
    BY <2>1, <2>4, OneSource
  <2> QED BY <2>1, <2>2, <2>4, <2>5
<1>5. MuxThreads
  <2> SUFFICES ASSUME NEW m \in Muxers, pc[m] # "unstarted", NEW i \in Inputs(m)
               PROVE  [task |-> m, in |-> i] \in ready
    BY DEF MuxThreads
  <2>1. m \in mux_started
    BY <1>2 DEF Init
  <2>2. SrcTask(m, i) \in Demuxers
    BY <2>1 DEF Init
  <2> QED BY <2>2, MuxStreamsAre DEF Init
<1>6. MuxBusy
  BY <1>1, <1>2 DEF MuxBusy
<1>7. MuxesCounted
  <2>1. \A m \in Muxers : pc[m] # "cleanup"
    BY <1>2 DEF Init
  <2>2. MuxesGone = {}
    BY <2>1 DEF MuxesGone
  <2> QED BY <2>2, FS_EmptySet DEF Init, MuxesCounted
<1> QED BY <1>3, <1>4, <1>5, <1>6, <1>7 DEF ReadyInv, MuxInv

LEMMA MuxInvNext ==
    ASSUME TypeInv, ReadyInv, MuxInv, [Next]_vars
    PROVE  ReadyInv' /\ MuxInv'
BY ReadyNext, MuxThreadsNext, MuxBusyNext, MuxesCountedNext DEF MuxInv

LEMMA TypesOK ==
    ASSUME TypeInv, MuxInv
    PROVE  TypeOK
<1>1. choked \in [Sources -> BOOLEAN] /\ frozen \in [Consumers -> BOOLEAN]
  BY DEF TypeInv, WaiterType
<1>2. \A c \in Consumers :
          /\ send_fin[c] \cup recv_fin[c] \subseteq QueueStreams(c)
          /\ \A i \in QueueStreams(c) : Cardinality(Queued(c, i)) \in 0 .. QueueSize
  BY DEF TypeInv, FinType, QueueInv, QueueBound
<1>3. \A ms \in MuxStreams : Len(pre_mux[ms]) \in 0 .. PreMuxSize
  BY DEF TypeInv, MuxType
<1>4. source_finished \cup ready \cup init_eof \subseteq MuxStreams
  BY DEF TypeInv, MuxType, StreamType
<1>5. mux_started \subseteq Muxers /\ Cardinality(flusher) <= 1
  <2>1. \A x, y \in flusher : x = y
    BY DEF TypeInv, MuxType
  <2>2. CASE flusher = {}
    BY <2>2, FS_EmptySet DEF TypeInv, MuxType
  <2>3. CASE flusher # {}
    <3>1. PICK x : flusher = {x}
      BY <2>1, <2>3
    <3>2. Cardinality({x}) = 1
      BY FS_Singleton
    <3> QED BY <3>1, <3>2 DEF TypeInv, MuxType
  <2> QED BY <2>2, <2>3
<1>6. /\ \A f \in Filters : best_input[f] \in 0 .. NbInputs[f]
      /\ receive_finished \cup send_finished \subseteq FilterInputs
      /\ task_exited \subseteq Sources /\ opened \subseteq Encoders
  BY DEF TypeInv, StreamType
<1>7. nb_mux_done \in 0 .. Cardinality(Muxers)
  <2>1. IsFiniteSet(Muxers) /\ MuxesGone \subseteq Muxers
    BY SchedulerGraphAssumption DEF MuxesGone
  <2>2. Cardinality(MuxesGone) <= Cardinality(Muxers) /\ IsFiniteSet(MuxesGone)
    BY <2>1, FS_Subset
  <2>3. Cardinality(MuxesGone) \in Nat /\ Cardinality(Muxers) \in Nat
    BY <2>1, <2>2, FS_CardinalityType
  <2> QED BY <2>2, <2>3 DEF MuxInv, MuxesCounted
<1> QED BY <1>1, <1>2, <1>3, <1>4, <1>5, <1>6, <1>7 DEF TypeOK

\* The types and the lengths of all queues, and no more muxers are counted as
\* done than there are.
THEOREM TypesHold == Spec => []TypeOK
<1>1. Init => TypeInv /\ ReadyInv /\ MuxInv
  BY TypeInit, MuxInit
<1>2. TypeInv /\ ReadyInv /\ MuxInv /\ [Next]_vars => (TypeInv /\ ReadyInv /\ MuxInv)'
  BY TypeNext, MuxInvNext
<1>3. TypeInv /\ ReadyInv /\ MuxInv => TypeOK
  BY TypesOK
<1> QED BY <1>1, <1>2, <1>3, PTL DEF Spec

--------------------------------------------------------------------------------
(* The end of a decoder's frames comes before the end of its stream. *)

\* The filtergraph behind n will find the end in its queue, or has it, or
\* takes no more from there.
EndTold(n) ==
    \/ n.in \in recv_fin[n.task]
    \/ n.in \in fg[n.task].eof
    \/ \E j \in DOMAIN queue[n.task] : queue[n.task][j] = [in |-> n.in, k |-> 0]

\* The end as a frame is what a task has yet to send there.
EndToCome(t, n) == \E j \in DOMAIN todo[t] : todo[t][j] = Op("send", n, 0)

EndsTold ==
    \A t \in Decoders : \A n \in Targets(t) :
        /\ n \in dst_finished[t] \/ Finishing(t, n) => EndTold(n)
        /\ pc[t] = "returned" => EndTold(n) \/ EndToCome(t, n)

EndFrameInv == failed = {} => EndsTold

\* A failure is not forgotten.
LEMMA FailuresStay ==
    ASSUME [Next]_vars
    PROVE  failed \subseteq failed'
<1>1. ASSUME NEW t \in Tasks, TaskStep(t) \/ Fail(t) PROVE failed \subseteq failed'
  <2>1. CASE \/ EncOpen(t) \/ StreamReady(t) \/ FlushStep(t)
            \/ FlushEnd(t) \/ MuxStarted(t)
    BY <2>1 DEF EncOpen, StreamReady, FlushStep, FlushEnd, MuxStarted, ending
  <2>2. CASE \/ PreMux(t) \/ PreMuxFull(t) \/ PreMuxEndLost(t)
            \/ SendItem(t) \/ SendEof(t)
    BY <2>2 DEF PreMux, PreMuxFull, PreMuxEndLost, SendItem, SendEof, ending
  <2>3. CASE Finish(t) \/ FinishFilterInput(t) \/ MuxUpdate(t)
    BY <2>3 DEF Finish, FinishFilterInput, MuxUpdate, ending
  <2>4. CASE Cleanup(t) \/ TaskExited(t) \/ Fail(t)
    BY <2>4 DEF Cleanup, TaskExited, Fail, ending
  <2>5. CASE \/ DemuxSend(t) \/ DemuxSkip(t) \/ DemuxReturn(t)
            \/ DemuxFlush(t) \/ FlushSend(t)
    BY <2>5 DEF DemuxSend, DemuxSkip, DemuxReturn, DemuxFlush, FlushSend,
              ending
  <2>6. CASE FlushAwait(t) \/ FlushEof(t)
    BY <2>6 DEF FlushAwait, FlushEof, ending
  <2>7. CASE \/ CodecItem(t) \/ CodecEnd(t) \/ DecoderStop(t)
            \/ DecoderFlush(t) \/ DecoderEndTs(t)
    BY <2>7 DEF CodecItem, CodecEnd, DecoderStop, DecoderFlush, DecoderEndTs,
              ending
  <2>8. CASE NoEndTs(t)
    BY <2>8 DEF NoEndTs, ending
  <2>9. CASE \/ MuxItem(t) \/ MuxHangUp(t) \/ MuxEnd(t)
            \/ MuxReturn(t) \/ MuxDone(t) \/ MuxCount(t)
    BY <2>9 DEF MuxItem, MuxHangUp, MuxEnd, MuxReturn, MuxDone, MuxCount, ending
  <2>10. CASE \/ FilterPrefer(t) \/ FilterItem(t) \/ ChokeInputs(t)
            \/ CloseInput(t) \/ FilterStreamEnd(t)
    BY <2>10 DEF FilterPrefer, FilterItem, ChokeInputs, CloseInput,
              FilterStreamEnd, ending
  <2>11. CASE \/ FilterNothing(t) \/ FilterTurn(t) \/ FilterUnconfigured(t)
            \/ FilterRead(t) \/ FilterFrame(t)
    BY <2>11 DEF FilterNothing, FilterTurn, FilterUnconfigured, FilterRead,
              FilterFrame, ending
  <2>12. CASE \/ FilterConsumersDone(t) \/ CloseOutput(t) \/ FilterRequest(t)
            \/ FilterReturn(t)
    BY <2>12 DEF FilterConsumersDone, CloseOutput, FilterRequest, FilterReturn,
              ending
  <2> QED
    BY <1>1, <2>1, <2>2, <2>3, <2>4, <2>5, <2>6, <2>7, <2>8, <2>9, <2>10, <2>11,
       <2>12
    DEF TaskStep, Continue, DemuxStep, CodecStep, DecoderStep, MuxStep, FilterStep
<1>2. CASE MainStep \/ Interrupt
  BY <1>2 DEF MainStart, MainTerminate, Interrupt, MainChokeAll, MainJoined,
              MainStep, ending
<1>3. CASE UNCHANGED vars
  BY <1>3 DEF vars, ending
<1> QED BY <1>1, <1>2, <1>3 DEF Next, Run

\* What a filtergraph knows to be at its end stays so.
LEMMA EndsStay ==
    ASSUME TypeInv, [Next]_vars, NEW f \in Filters
    PROVE  fg[f].eof \subseteq fg'[f].eof
<1>1. f \in DOMAIN fg /\ fg[f] \in Graph(f)
  BY DEF TypeInv, GraphType, GraphIs
<1>2. CASE ~(\E t \in Tasks : FeedsGraph(t))
  BY <1>2, FeedsGraphAside
<1>3. CASE \E t \in Tasks : FeedsGraph(t)
  <2>1. PICK t \in Tasks : FeedsGraph(t)
    BY <1>3
  <2>2. CASE SendItem(t) \/ SendEof(t)
    BY <1>1, <2>2 DEF SendItem, SendEof, Graph
  <2>3. CASE t \in Filters /\ FilterItem(t)
    <3>1. fg' = fg \/ fg' = [fg EXCEPT ![t] = Fed(t, Head(queue[t]))]
      BY <2>3 DEF FilterItem
    <3>2. fg[t] \in Graph(t)
      BY <2>3 DEF TypeInv, GraphType, GraphIs
    <3>3. fg[t].eof \subseteq Fed(t, Head(queue[t])).eof
      BY <3>2 DEF Fed, Graph
    <3> QED BY <1>1, <3>1, <3>3
  <2>4. CASE t \in Filters /\ (FilterUnconfigured(t) \/ FilterFrame(t))
    BY <1>1, <2>4 DEF FilterUnconfigured, FilterFrame, Graph
  <2>5. CASE t \in Filters /\ CloseOutput(t)
    BY <1>1, <2>5 DEF CloseOutput, Graph
  <2>6. CASE t \in Filters /\ FilterRequest(t)
    BY <1>1, <2>6 DEF FilterRequest, Graph
  <2> QED BY <2>1, <2>2, <2>3, <2>4, <2>5, <2>6 DEF FeedsGraph
<1> QED BY <1>2, <1>3

\* What has been refused stays refused.
LEMMA RefusalsStay ==
    ASSUME TypeInv, [Next]_vars, NEW c \in Consumers
    PROVE  recv_fin[c] \subseteq recv_fin'[c]
<1>1. recv_fin' = recv_fin \/ \E d \in Consumers : \E S \in SUBSET QueueStreams(d) :
          recv_fin' = [recv_fin EXCEPT ![d] = @ \cup S]
  BY HearsEndType, HearsEndAside DEF TypeInv
<1> QED BY <1>1 DEF TypeInv, FinType

\* Hanging up drops the items of the streams that are refused from then on,
\* and no others.
LEMMA HangUpKeeps ==
    ASSUME TypeInv, NEW c \in Consumers, NEW S, HangUp(c, S), NEW j \in DOMAIN queue[c]
    PROVE  \/ queue[c][j].in \in recv_fin'[c]
           \/ \E l \in DOMAIN queue'[c] : queue'[c][l] = queue[c][j]
<1> DEFINE I == {l \in DOMAIN queue[c] : queue[c][l].in \notin S}
           q == Subsequence(queue[c], I)
<1>1. queue[c] \in Seq(Items) /\ queue' = [queue EXCEPT ![c] = q]
  BY DEF HangUp, TypeInv, QueueInv, QueueType
<1>2. queue'[c] = q
  BY <1>1 DEF TypeInv, QueueInv, QueueType
<1>3. recv_fin'[c] = recv_fin[c] \cup S
  BY DEF HangUp, TypeInv, FinType
<1>4. CASE queue[c][j].in \notin S
  <2>1. j \in I /\ I \in SUBSET DOMAIN queue[c]
    BY <1>4
  <2> HIDE DEF I
  <2>2. q \in Seq(Items) /\ Len(q) = Cardinality(I)
    BY <1>1, <2>1, SubsequenceIs
  <2>3. PICK at : Picks(at, q, queue[c], I)
    BY <1>1, <2>1, SubsequenceIs
  <2> HIDE DEF q
  <2>4. PICK l \in 1 .. Cardinality(I) : at[l] = j
    BY <2>1, <2>3 DEF Picks
  <2>5. q[l] = queue[c][j] /\ l \in DOMAIN q
    BY <2>2, <2>3, <2>4 DEF Picks
  <2> QED BY <1>2, <2>5
<1> QED BY <1>3, <1>4

\* An end in the queue of a filtergraph stays there until the graph has it or
\* takes no more from that input.
LEMMA QueuedEndStays ==
    ASSUME TypeInv, [Next]_vars, NEW f \in Filters, NEW j \in DOMAIN queue[f],
           queue[f][j].k = 0
    PROVE  \/ queue[f][j].in \in recv_fin'[f]
           \/ queue[f][j].in \in fg'[f].eof
           \/ \E l \in DOMAIN queue'[f] : queue'[f][l] = queue[f][j]
<1> DEFINE Stays == \/ queue[f][j].in \in recv_fin'[f]
                    \/ queue[f][j].in \in fg'[f].eof
                    \/ \E l \in DOMAIN queue'[f] : queue'[f][l] = queue[f][j]
<1> SUFFICES Stays
  OBVIOUS
<1>1. f \in Consumers /\ queue \in [Consumers -> Seq(Items)] /\ queue[f] \in Seq(Items)
  BY FiltersAre DEF TypeInv, QueueInv, QueueType
<1>2. ASSUME queue'[f] = queue[f] PROVE Stays
  BY <1>2
<1>3. ASSUME NEW S, HangUp(f, S) PROVE Stays
  BY <1>1, <1>3, HangUpKeeps
<1>4. CASE \E t \in Tasks : MovesItems(t)
  <2>1. PICK t \in Tasks : MovesItems(t)
    BY <1>4
  <2>2. CASE FlushStep(t)
    <3>1. PICK x \in flusher : \E ms \in EarliestPreMuxed(x.mux) :
            queue' = queue \/ queue' = Enqueue(ms, Head(pre_mux[ms]))
      BY <2>2 DEF FlushStep
    <3>2. PICK ms \in EarliestPreMuxed(x.mux) :
            queue' = queue \/ queue' = Enqueue(ms, Head(pre_mux[ms]))
      BY <3>1
    <3>3. ms.task # f
      BY <3>2, EarliestIs, KindsDiffer DEF TypeInv
    <3>4. queue'[f] = queue[f]
      BY <1>1, <3>2, <3>3 DEF Enqueue
    <3> QED BY <1>2, <3>4
  <2>3. CASE SendItem(t)
    <3> DEFINE x == [in |-> To(t).in, k |-> Item(t)]
    <3>1. queue'[f] = queue[f] \/ queue'[f] = Append(queue[f], x)
      BY <1>1, <2>3 DEF SendItem, Enqueue
    <3> HIDE DEF x
    <3>2. j \in DOMAIN Append(queue[f], x) /\ Append(queue[f], x)[j] = queue[f][j]
      BY <1>1
    <3> QED BY <1>2, <3>1, <3>2
  <2>4. CASE Cleanup(t)
    <3>1. CASE t = f
      BY <1>1, <1>3, <2>4, <3>1 DEF Cleanup
    <3>2. CASE t # f
      <4>1. queue'[f] = queue[f]
        BY <1>1, <2>4, <3>2 DEF Cleanup, HangUp
      <4> QED BY <1>2, <4>1
    <3> QED BY <3>1, <3>2
  <2>5. CASE t \in Demuxers /\ FlushSend(t)
    <3>1. To(t).task \in Decoders /\ queue' = Enqueue(To(t), Flush)
      BY <2>5, NextOp DEF FlushSend, TypeInv
    <3>2. queue'[f] = queue[f]
      BY <1>1, <3>1, KindsDiffer DEF Enqueue
    <3> QED BY <1>2, <3>2
  <2>6. CASE t \in Decoders \cup Encoders /\ (CodecItem(t) \/ (t \in Decoders /\ DecoderFlush(t)))
    <3>1. t # f /\ queue' = [queue EXCEPT ![t] = Tail(@)]
      BY <2>6, KindsDiffer DEF CodecItem, DecoderFlush, TakeItem
    <3>2. queue'[f] = queue[f]
      BY <1>1, <3>1
    <3> QED BY <1>2, <3>2
  <2>7. CASE t \in Muxers /\ (MuxItem(t) \/ MuxHangUp(t) \/ MuxDone(t))
    <3>1. t # f
      BY <2>7, KindsDiffer
    <3>2. queue'[f] = queue[f]
      BY <1>1, <2>7, <3>1 DEF MuxItem, MuxHangUp, MuxDone, TakeItem, HangUp
    <3> QED BY <1>2, <3>2
  <2>8. CASE t \in Filters /\ FilterItem(t)
    <3>1. CASE t # f
      <4>1. queue'[f] = queue[f]
        BY <1>1, <2>8, <3>1 DEF FilterItem, TakeItem
      <4> QED BY <1>2, <4>1
    <3>2. CASE t = f /\ j = 1
      <4>1. Head(queue[f]) = queue[f][j] /\ Head(queue[f]).k = 0
        BY <1>1, <3>2
      <4>2. fg' = [fg EXCEPT ![f] = Fed(f, Head(queue[f]))]
        BY <2>8, <3>2, <4>1 DEF FilterItem
      <4>3. f \in DOMAIN fg /\ fg[f] \in Graph(f)
        BY DEF TypeInv, GraphType, GraphIs
      <4>4. Head(queue[f]).in \in Fed(f, Head(queue[f])).eof
        BY <4>1, <4>3 DEF Fed, Graph
      <4> QED BY <4>1, <4>2, <4>3, <4>4
    <3>3. CASE t = f /\ j # 1
      <4>1. queue'[f] = Tail(queue[f])
        BY <1>1, <2>8, <3>3 DEF FilterItem, TakeItem
      <4>2. j - 1 \in DOMAIN Tail(queue[f]) /\ Tail(queue[f])[j - 1] = queue[f][j]
        BY <1>1, <3>3
      <4> QED BY <4>1, <4>2
    <3> QED BY <3>1, <3>2, <3>3
  <2>9. CASE t \in Filters /\ CloseInput(t)
    <3>1. PICK S : HangUp(t, S)
      BY <2>9 DEF CloseInput
    <3>2. CASE t = f
      BY <1>3, <3>1, <3>2
    <3>3. CASE t # f
      <4>1. queue'[f] = queue[f]
        BY <1>1, <3>1, <3>3 DEF HangUp
      <4> QED BY <1>2, <4>1
    <3> QED BY <3>2, <3>3
  <2> QED BY <2>1, <2>2, <2>3, <2>4, <2>5, <2>6, <2>7, <2>8, <2>9 DEF MovesItems
<1>5. CASE ~(\E t \in Tasks : MovesItems(t))
  BY <1>2, <1>5, MovesItemsAside
<1> QED BY <1>4, <1>5

\* What has been told stays told.
LEMMA ToldStays ==
    ASSUME TypeInv, [Next]_vars, NEW t \in Decoders, NEW n \in Targets(t), EndTold(n)
    PROVE  EndTold(n)'
<1>1. t \in Tasks /\ n.task \in Filters /\ n.task \in Consumers
  <2>1. t \in Tasks
    BY TasksAre
  <2> QED BY <2>1, TargetKinds, FiltersAre
<1>2. CASE n.in \in recv_fin[n.task]
  BY <1>1, <1>2, RefusalsStay DEF EndTold
<1>3. CASE n.in \in fg[n.task].eof
  BY <1>1, <1>3, EndsStay DEF EndTold
<1>4. CASE \E j \in DOMAIN queue[n.task] : queue[n.task][j] = [in |-> n.in, k |-> 0]
  <2>1. PICK j \in DOMAIN queue[n.task] : queue[n.task][j] = [in |-> n.in, k |-> 0]
    BY <1>4
  <2>2. queue[n.task][j].in = n.in /\ queue[n.task][j].k = 0
    BY <2>1
  <2> QED BY <1>1, <2>1, <2>2, QueuedEndStays DEF EndTold
<1> QED BY <1>2, <1>3, <1>4 DEF EndTold

\* What a decoder does inside a sch_*() call, and where it begins one.
LEMMA DecoderActs ==
    ASSUME TypeInv, NEW t \in Decoders, Acts(t)
    PROVE  \/ Proceed(t) /\ (SendItem(t) \/ FinishFilterInput(t) \/ MuxUpdate(t)
                               \/ TaskExited(t) \/ NoEndTs(t))
           \/ SendEof(t) \/ CodecItem(t) \/ CodecEnd(t) \/ Cleanup(t)
<1>1. t \in Tasks /\ t \notin Demuxers \cup Filters \cup Encoders \cup Muxers
  BY TasksAre, KindsDiffer
<1>2. At(t, "send") \/ At(t, "init") \/ At(t, "finish") => To(t).task \in Filters
  BY <1>1, NextOp, TargetKinds DEF TypeInv
<1>3. ~At(t, "ready")
  BY <1>1, NextOp DEF TypeInv
<1>4. \A n \in Filters : n \notin Muxers /\ n \notin Encoders /\ n \notin Decoders
  BY KindsDiffer
<1>5. ~EncOpen(t) /\ ~StreamReady(t) /\ ~PreMux(t)
  BY <1>2, <1>3, <1>4 DEF EncOpen, StreamReady, PreMux, Parking
<1>6. ~PreMuxFull(t) /\ ~PreMuxEndLost(t)
  BY <1>2, <1>4 DEF PreMuxFull, PreMuxEndLost, Parking
<1>7. ~Finish(t)
  <2>1. mux_started \subseteq Muxers
    BY DEF TypeInv, MuxType
  <2> QED BY <1>2, <1>4, <2>1 DEF Finish
<1>8. SendItem(t) => Proceed(t)
  BY <1>2, <1>4 DEF SendItem, CallsSend, Sendable
<1>9. FinishFilterInput(t) \/ MuxUpdate(t) \/ TaskExited(t) \/ NoEndTs(t) => Proceed(t)
  BY DEF FinishFilterInput, MuxUpdate, TaskExited, NoEndTs
<1> QED BY <1>1, <1>5, <1>6, <1>7, <1>8, <1>9 DEF Acts

\* A step in which a task begins or goes on with nothing leaves it what it
\* has to do, and what it noted.
LEMMA OthersAct ==
    ASSUME TypeInv, [Next]_vars, NEW t \in Tasks, ~Acts(t)
    PROVE  todo'[t] = todo[t] /\ dst_finished'[t] = dst_finished[t]
<1>1. todo'[t] = todo[t]
  <2>1. CASE \E u \in Tasks : Acts(u)
    <3>1. PICK u \in Tasks : Acts(u)
      BY <2>1
    <3>2. \E n : \E I \in SUBSET DOMAIN todo[u] : Moves(u, n, I)
      BY <3>1, ActsMoves DEF TypeInv, PcType, PosIs
    <3> QED BY <3>1, <3>2, MovedFrom DEF TypeInv
  <2> QED BY <2>1, ActsAside
<1>2. dst_finished'[t] = dst_finished[t]
  <2>1. CASE \E u \in Tasks : Notes(u)
    <3>1. PICK u \in Tasks : Notes(u)
      BY <2>1
    <3>2. u # t
      BY <3>1 DEF Notes, Acts
    <3> QED BY <3>1, <3>2, NotesIs DEF Finishes, TypeInv, DstType
  <2> QED BY <2>1, NotesAside
<1> QED BY <1>1, <1>2

\* A decoder that did not fail returns when its input has ended, or all its
\* consumers are done.
LEMMA DecoderReturns ==
    ASSUME TypeInv, [Next]_vars, NEW t \in Decoders, pc[t] # "returned", pc'[t] = "returned",
           failed' = {}
    PROVE  CodecEnd(t) \/ DecoderStop(t)
<1>1. t \in Tasks /\ t \notin Muxers /\ pc = [u \in Tasks |-> pc[u]]
  BY TasksAre, KindsDiffer DEF TypeInv, PcType
<1>2. PICK u \in Tasks : Leads(u)
  BY LeadsAside
<1>3. ~StreamReady(u)
  <2> SUFFICES ASSUME StreamReady(u) PROVE FALSE
    OBVIOUS
  <2>1. To(u).task \in Muxers
    BY NextOp DEF StreamReady, TypeInv
  <2>2. pc' = pc \/ pc' = [pc EXCEPT ![To(u).task] = "loop"]
    BY DEF StreamReady
  <2> QED BY <1>1, <2>1, <2>2
<1>4. u = t
  <2>1. pc' = pc \/ \E v : pc' = [pc EXCEPT ![u] = v]
    <3>1. CASE PreMuxFull(u) \/ Cleanup(u) \/ Fail(u)
      BY <3>1 DEF PreMuxFull, Cleanup, Fail, GoTo
    <3>2. CASE DemuxReturn(u) \/ FlushEof(u) \/ CodecEnd(u) \/ DecoderStop(u)
      BY <3>2 DEF DemuxReturn, FlushEof, CodecEnd, DecoderStop, GoTo
    <3>3. CASE DecoderFlush(u) \/ DecoderEndTs(u) \/ MuxReturn(u) \/ MuxDone(u)
      BY <3>3 DEF DecoderFlush, DecoderEndTs, MuxReturn, MuxDone, GoTo
    <3>4. CASE FilterItem(u) \/ FilterStreamEnd(u) \/ FilterNothing(u) \/ FilterTurn(u)
      BY <3>4 DEF FilterItem, FilterStreamEnd, FilterNothing, FilterTurn, GoTo
    <3>5. CASE FilterUnconfigured(u) \/ FilterRead(u) \/ FilterConsumersDone(u)
      BY <3>5 DEF FilterUnconfigured, FilterRead, FilterConsumersDone, GoTo
    <3>6. CASE FilterRequest(u) \/ FilterReturn(u)
      BY <3>6 DEF FilterRequest, FilterReturn, GoTo
    <3> QED BY <1>2, <1>3, <3>1, <3>2, <3>3, <3>4, <3>5, <3>6 DEF Leads
  <2> QED BY <1>1, <2>1
<1>5. ~PreMuxFull(t) /\ ~Fail(t)
  BY DEF PreMuxFull, Fail
<1>6. ~Cleanup(t)
  BY <1>1 DEF Cleanup, GoTo
<1>7. ~DecoderFlush(t) /\ ~DecoderEndTs(t)
  BY <1>1 DEF DecoderFlush, DecoderEndTs, GoTo
<1> QED BY <1>2, <1>3, <1>4, <1>5, <1>6, <1>7, KindsDiffer, TasksAre DEF Leads

Has(q, o) == \E j \in DOMAIN q : q[j] = o

\* An operation for each of some destinations leaves none of them out.
LEMMA ForEachCovers ==
    ASSUME NEW t \in Tasks, NEW N, NEW op, NEW k, NEW n \in Targets(t), n \in N
    PROVE  Has(ForEach(DstWith(t, N), op, k), Op(op, n, k))
<1> DEFINE I == {j \in DOMAIN Dst[t] : Dst[t][j] \in N}
           d == Subsequence(Dst[t], I)
<1>1. Dst[t] \in Seq(EdgeRecords)
  BY DstIs
<1>2. d \in Seq(EdgeRecords) /\ Len(d) = Cardinality(I)
  BY <1>1, SubsequenceIs
<1>3. PICK at : Picks(at, d, Dst[t], I)
  BY <1>1, SubsequenceIs
<1>4. PICK i \in I : Dst[t][i] = n
  BY DEF Targets
<1> HIDE DEF I, d
<1>5. PICK j \in 1 .. Cardinality(I) : at[j] = i
  BY <1>3, <1>4 DEF Picks
<1>6. j \in DOMAIN d /\ d[j] = n
  BY <1>2, <1>3, <1>4, <1>5 DEF Picks
<1>7. DstWith(t, N) = d
  BY DEF DstWith, d, I
<1> QED BY <1>6, <1>7 DEF ForEach, Has

\* The end to come stays to come in a step that goes on, or is told by it.
LEMMA ComingProceeds ==
    ASSUME TypeInv, NEW t \in Decoders, NEW n \in Targets(t), EndToCome(t, n), Proceed(t),
           \/ SendItem(t) \/ FinishFilterInput(t) \/ MuxUpdate(t) \/ TaskExited(t) \/ NoEndTs(t)
    PROVE  EndToCome(t, n)' \/ EndTold(n)'
<1>1. t \in Tasks /\ todo[t] \in Seq(Ops) /\ todo'[t] = Tail(todo[t])
  BY TasksAre DEF Proceed, TypeInv, TodoType
<1>2. PICK j \in DOMAIN todo[t] : todo[t][j] = Op("send", n, 0)
  BY DEF EndToCome
<1>3. CASE j # 1
  <2>1. j - 1 \in DOMAIN Tail(todo[t]) /\ Tail(todo[t])[j - 1] = todo[t][j]
    BY <1>1, <1>2, <1>3
  <2> QED BY <1>1, <1>2, <2>1 DEF EndToCome
<1>4. CASE j = 1
  <2>1. Head(todo[t]) = Op("send", n, 0)
    BY <1>1, <1>2, <1>4
  <2>2. Head(todo[t]).op = "send" /\ To(t) = n /\ Item(t) = 0
    BY <2>1 DEF To, Item, Op
  <2>3. SendItem(t)
    BY <2>2 DEF FinishFilterInput, MuxUpdate, TaskExited, NoEndTs, At
  <2>4. queue' = Enqueue(n, 0)
    BY <2>2, <2>3 DEF SendItem
  <2>5. n.task \in Consumers /\ queue \in [Consumers -> Seq(Items)]
    BY <1>1, DstIs DEF TypeInv, QueueInv, QueueType
  <2> DEFINE x == [in |-> n.in, k |-> 0]
  <2>6. queue'[n.task] = Append(queue[n.task], x)
    BY <2>4, <2>5 DEF Enqueue
  <2> HIDE DEF x
  <2>7. /\ Len(queue[n.task]) + 1 \in DOMAIN queue'[n.task]
        /\ queue'[n.task][Len(queue[n.task]) + 1] = x
    BY <2>5, <2>6
  <2> QED BY <2>7 DEF EndTold, x
<1> QED BY <1>3, <1>4

\* Going over to the end of one stream leaves the others what they have.
LEMMA TurnKeeps ==
    ASSUME TypeInv, NEW t \in Decoders, NEW n \in Targets(t), SendEof(t), n # To(t)
    PROVE  /\ EndToCome(t, n) => EndToCome(t, n)'
           /\ Finishing(t, n)' => Finishing(t, n)
<1> DEFINE I == {j \in DOMAIN todo[t] : todo[t][j].to # To(t)}
           r == Subsequence(todo[t], I)
           x == Op("finish", To(t), 0)
<1>1. t \in Tasks /\ todo[t] \in Seq(Ops) /\ todo'[t] = <<x>> \o r
  BY TasksAre DEF SendEof, TypeInv, TodoType
<1>2. I \in SUBSET DOMAIN todo[t] /\ x.to = To(t)
  BY DEF Op
<1>3. r \in Seq(Ops) /\ Len(r) = Cardinality(I)
  BY <1>1, <1>2, SubsequenceIs
<1>4. PICK at : Picks(at, r, todo[t], I)
  BY <1>1, <1>2, SubsequenceIs
<1>5. ASSUME EndToCome(t, n) PROVE EndToCome(t, n)'
  <2>1. PICK j \in DOMAIN todo[t] : todo[t][j] = Op("send", n, 0)
    BY <1>5 DEF EndToCome
  <2>2. j \in I
    BY <2>1 DEF Op
  <2> HIDE DEF I, r, x
  <2>3. PICK l \in 1 .. Cardinality(I) : at[l] = j
    BY <1>4, <2>2 DEF Picks
  <2>4. r[l] = todo[t][j] /\ l \in 1 .. Len(r)
    BY <1>3, <1>4, <2>3 DEF Picks
  <2>5. l + 1 \in DOMAIN todo'[t] /\ todo'[t][l + 1] = r[l]
    BY <1>1, <1>3, <2>4
  <2> QED BY <2>1, <2>4, <2>5 DEF EndToCome
<1>6. ASSUME Finishing(t, n)' PROVE Finishing(t, n)
  <2>1. PICK j \in DOMAIN todo'[t] : todo'[t][j].op = "finish" /\ todo'[t][j].to = n
    BY <1>6 DEF Finishing
  <2> HIDE DEF r
  <2>2. j # 1
    <3>1. todo'[t][1] = x
      BY <1>1, <1>3
    <3> HIDE DEF x
    <3> QED BY <1>2, <2>1, <3>1
  <2> HIDE DEF I, x
  <2>3. j - 1 \in 1 .. Len(r) /\ todo'[t][j] = r[j - 1]
    BY <1>1, <1>3, <2>1, <2>2
  <2>4. at[j - 1] \in I /\ r[j - 1] = todo[t][at[j - 1]]
    BY <1>3, <1>4, <2>3 DEF Picks
  <2> QED BY <1>2, <2>1, <2>3, <2>4 DEF Finishing
<1> QED BY <1>5, <1>6

LEMMA EndsToldNext ==
    ASSUME TypeInv, EndsTold, [Next]_vars, failed' = {}
    PROVE  EndsTold'
<1> SUFFICES ASSUME NEW t \in Decoders, NEW n \in Targets(t)
             PROVE  /\ n \in dst_finished'[t] \/ Finishing(t, n)' => EndTold(n)'
                    /\ pc'[t] = "returned" => EndTold(n)' \/ EndToCome(t, n)'
  BY DEF EndsTold
<1>1. t \in Tasks /\ EndTold(n) => EndTold(n)'
  BY ToldStays
<1>2. n \in dst_finished[t] \/ Finishing(t, n) => EndTold(n)
  BY DEF EndsTold
<1>3. pc[t] = "returned" => EndTold(n) \/ EndToCome(t, n)
  BY DEF EndsTold
<1>4. t \in Tasks /\ pc = [u \in Tasks |-> pc[u]] /\ dst_finished \in [Tasks -> SUBSET Edges]
        /\ todo \in [Tasks -> Seq(Ops)]
  BY TasksAre DEF TypeInv, PcType, DstType, TodoType
<1>5. CASE ~Acts(t)
  <2>1. todo'[t] = todo[t] /\ dst_finished'[t] = dst_finished[t]
    BY <1>4, <1>5, OthersAct
  <2>2. n \in dst_finished'[t] \/ Finishing(t, n)' => EndTold(n)'
    BY <1>2, <2>1, ToldStays DEF Finishing
  <2>3. ASSUME pc'[t] = "returned", pc[t] # "returned" PROVE EndTold(n)'
    <3>1. ~CodecEnd(t)
      BY <1>5 DEF Acts
    <3>2. Targets(t) \subseteq dst_finished[t]
      BY <2>3, <3>1, DecoderReturns DEF DecoderStop, ConsumersDone
    <3> QED BY <1>2, <3>2, ToldStays
  <2>4. ASSUME pc[t] = "returned" PROVE EndTold(n)' \/ EndToCome(t, n)'
    <3>1. CASE EndToCome(t, n)
      BY <2>1, <3>1 DEF EndToCome
    <3> QED BY <1>3, <2>4, <3>1, ToldStays
  <2> QED BY <2>2, <2>3, <2>4
<1>6. CASE Acts(t)
  <2>1. CASE Proceed(t) /\ (SendItem(t) \/ FinishFilterInput(t) \/ MuxUpdate(t)
                              \/ TaskExited(t) \/ NoEndTs(t))
    <3>1. pc' = pc
      BY <2>1 DEF SendItem, FinishFilterInput, MuxUpdate, TaskExited, NoEndTs
    <3>2. todo'[t] = Tail(todo[t])
      BY <1>4, <2>1 DEF Proceed
    <3>3. todo[t] # <<>> /\ Head(todo[t]) = todo[t][1] /\ 1 \in DOMAIN todo[t]
      <4>1. todo[t] # <<>>
        BY <2>1 DEF SendItem, CallsSend, Sendable, FinishFilterInput, MuxUpdate, TaskExited,
                    NoEndTs, At
      <4> QED BY <1>4, <4>1
    <3>4. Finishing(t, n)' => Finishing(t, n)
      <4> SUFFICES ASSUME Finishing(t, n)' PROVE Finishing(t, n)
        OBVIOUS
      <4>1. PICK j \in DOMAIN Tail(todo[t]) : /\ Tail(todo[t])[j].op = "finish"
                                              /\ Tail(todo[t])[j].to = n
        BY <3>2 DEF Finishing
      <4>2. j + 1 \in DOMAIN todo[t] /\ Tail(todo[t])[j] = todo[t][j + 1]
        BY <1>4, <3>3, <4>1
      <4> QED BY <4>1, <4>2 DEF Finishing
    <3>5. ASSUME n \in dst_finished'[t], n \notin dst_finished[t] PROVE Finishing(t, n)
      <4>1. FinishFilterInput(t)
        BY <2>1, <3>5 DEF SendItem, MuxUpdate, TaskExited, NoEndTs
      <4>2. At(t, "finish") /\ To(t) = n
        BY <1>4, <3>5, <4>1 DEF FinishFilterInput
      <4> QED BY <3>3, <4>2 DEF At, To, Finishing
    <3>6. pc[t] = "returned" => EndTold(n)' \/ EndToCome(t, n)'
      BY <1>3, <2>1, ComingProceeds, ToldStays
    <3> QED BY <1>2, <3>1, <3>4, <3>5, <3>6, ToldStays
  <2>2. CASE SendEof(t)
    <3>1. pc' = pc /\ dst_finished' = dst_finished
      BY <2>2 DEF SendEof
    <3>2. CASE n = To(t)
      <4>1. n.task \notin Muxers
        <5>1. t \in Tasks
          BY TasksAre
        <5>2. n.task \in Filters
          BY <5>1, TargetKinds
        <5> QED BY <5>2, KindsDiffer
      <4>2. Refused(n)
        BY <2>2, <3>2, <4>1 DEF SendEof, CallsSend
      <4>3. EndTold(n)
        BY <4>2 DEF Refused, EndTold
      <4> QED BY <4>3, ToldStays
    <3>3. CASE n # To(t)
      BY <1>2, <1>3, <2>2, <3>1, <3>3, TurnKeeps, ToldStays
    <3> QED BY <3>2, <3>3
  <2>3. CASE CodecItem(t) \/ CodecEnd(t)
    <3>1. PICK k \in Int : todo' = [todo EXCEPT ![t] = ForEach(OpenDst(t), "send", k)]
                             /\ (CodecEnd(t) => k = 0)
      <4>1. CASE CodecItem(t)
        <5>1. Head(queue[t]).k \in Int
          BY <4>1, HeadItem DEF CodecItem, TakeItem, HasItem, TypeInv, Items, Consumers
        <5>2. Idle(t, "loop") /\ todo' = [todo EXCEPT ![t] = ForEach(OpenDst(t), "send", Head(queue[t]).k)]
          BY <4>1 DEF CodecItem
        <5>3. ~CodecEnd(t)
          BY <4>1 DEF CodecItem, CodecEnd, TakeItem, HasItem, TakeEnd, Ends
        <5> QED BY <5>1, <5>2, <5>3
      <4>2. CASE CodecEnd(t)
        <5>1. todo' = [todo EXCEPT ![t] = ForEach(OpenDst(t), "send", 0)]
          BY <4>2 DEF CodecEnd
        <5>2. 0 \in Int
          OBVIOUS
        <5> QED BY <5>1, <5>2
      <4> QED BY <2>3, <4>1, <4>2
    <3> DEFINE N == Targets(t) \ dst_finished[t]
               q == ForEach(DstWith(t, N), "send", k)
    <3>2. todo'[t] = q
      BY <1>4, <3>1 DEF OpenDst
    <3>3. \A j \in DOMAIN q : q[j].op = "send"
      BY <1>4, ForEachIs DEF OpNames
    <3>4. dst_finished' = dst_finished /\ pc[t] = "loop"
      BY <2>3 DEF CodecItem, CodecEnd, Idle
    <3>5. ~Finishing(t, n)'
      <4> HIDE DEF q
      <4> QED BY <3>2, <3>3 DEF Finishing
    <3>6. ASSUME pc'[t] = "returned", n \notin dst_finished[t] PROVE EndToCome(t, n)'
      <4>1. CodecEnd(t)
        <5>1. ~CodecItem(t)
          BY <3>4, <3>6 DEF CodecItem
        <5> QED BY <2>3, <5>1
      <4>2. k = 0 /\ n \in N
        BY <3>1, <3>6, <4>1
      <4>3. Has(q, Op("send", n, k))
        BY <1>4, <4>2, ForEachCovers
      <4> HIDE DEF q
      <4> QED BY <3>2, <4>2, <4>3 DEF EndToCome, Has
    <3> QED BY <1>2, <3>4, <3>5, <3>6, ToldStays
  <2>4. CASE Cleanup(t)
    <3>1. pc[t] = "returned" /\ todo[t] = <<>>
      BY <2>4 DEF Cleanup, Idle
    <3>2. ~EndToCome(t, n)
      BY <3>1 DEF EndToCome
    <3> QED BY <1>3, <3>1, <3>2, ToldStays
  <2> QED BY <1>6, <2>1, <2>2, <2>3, <2>4, DecoderActs
<1> QED BY <1>5, <1>6

LEMMA EndFrameInit ==
    ASSUME Init
    PROVE  EndFrameInv
<1> SUFFICES ASSUME NEW t \in Decoders, NEW n \in Targets(t)
             PROVE  n \notin dst_finished[t] /\ ~Finishing(t, n) /\ pc[t] # "returned"
  BY DEF EndFrameInv, EndsTold
<1>1. t \in Tasks
  BY TasksAre
<1>2. dst_finished[t] = {} /\ todo[t] = <<>> /\ pc[t] # "returned"
  BY <1>1 DEF Init
<1> QED BY <1>2 DEF Finishing

LEMMA EndFrameNext ==
    ASSUME TypeInv, EndFrameInv, [Next]_vars
    PROVE  EndFrameInv'
BY FailuresStay, EndsToldNext DEF EndFrameInv

LEMMA EndFrameSafe ==
    ASSUME TypeInv, EndsInv, EndFrameInv,
           \A f \in Filters : \A i \in Inputs(f) : SrcTask(f, i) \in Decoders
    PROVE  EndFrameComesFirst
<1> SUFFICES ASSUME failed = {}, NEW f \in Filters, NEW i \in Ends(f) \cap Inputs(f)
             PROVE  i \in fg[f].eof
  BY DEF EndFrameComesFirst
<1>1. f \in Consumers /\ queue[f] = <<>> /\ i \in send_fin[f] /\ i \notin recv_fin[f]
  BY FiltersAre DEF Ends
<1> DEFINE t == SrcTask(f, i)
<1>2. t \in Decoders /\ t \in Tasks
  BY TasksAre
<1>3. PICK n \in Targets(t) : n.task = f /\ n.in = i
  <2>1. \E u \in Tasks : \E n \in Targets(u) : n.task = f /\ n.in = i
    <3>1. PICK u \in Tasks : \E j \in DOMAIN Dst[u] :
            \A v \in Tasks : \A k \in DOMAIN Dst[v] :
                Dst[v][k].task = f /\ Dst[v][k].in = i <=> v = u /\ k = j
      BY <1>1, SchedulerGraphAssumption
    <3>2. PICK j \in DOMAIN Dst[u] : Dst[u][j].task = f /\ Dst[u][j].in = i
      BY <3>1
    <3> QED BY <3>2 DEF Targets
  <2> QED BY <2>1 DEF SrcTask
<1> HIDE DEF t
<1>4. n \in dst_finished[t] \/ Finishing(t, n)
  <2>1. Closing(t, n)
    BY <1>1, <1>2, <1>3, KindsDiffer DEF EndsInv, EndsKnown
  <2>2. CASE todo[t] # <<>> /\ todo[t][1].op = "finish" /\ todo[t][1].to = n
    <3>1. 1 \in DOMAIN todo[t]
      BY <1>2, <2>2 DEF TypeInv, TodoType
    <3> QED BY <2>2, <3>1 DEF Finishing
  <2> QED BY <2>1, <2>2 DEF Closing
<1>5. EndTold(n)
  BY <1>2, <1>4 DEF EndFrameInv, EndsTold
<1> QED BY <1>1, <1>3, <1>5 DEF EndTold

\* When nothing fails, a filtergraph that finds the end of an input fed by a
\* decoder has had the frame that says so, as sch_filter_receive() takes for
\* granted.  A filtergraph that feeds another need not send such a frame.
THEOREM DecodersEndWithAFrame ==
    ASSUME \A f \in Filters : \A i \in Inputs(f) : SrcTask(f, i) \in Decoders
    PROVE  Spec => []EndFrameComesFirst
<1>1. Init => TypeInv /\ EndsInv /\ EndFrameInv
  BY TypeInit, EndsInit, EndFrameInit
<1>2. TypeInv /\ EndsInv /\ EndFrameInv /\ [Next]_vars => (TypeInv /\ EndsInv /\ EndFrameInv)'
  BY TypeNext, EndsNext, EndFrameNext
<1>3. TypeInv /\ EndsInv /\ EndFrameInv => EndFrameComesFirst
  BY EndFrameSafe
<1> QED BY <1>1, <1>2, <1>3, PTL DEF Spec
================================================================================
