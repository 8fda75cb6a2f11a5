------------------------------- MODULE Scheduler -------------------------------
(***************************************************************************)
(* fftools/ffmpeg_sched.c with the loops of the task threads it runs        *)
(* (input_thread, decoder_thread, filter_thread, encoder_thread,            *)
(* muxer_thread).  Every task is a thread; it blocks while the queue it     *)
(* sends to is full, while its own queue is empty or frozen, and - demuxers *)
(* and filtergraphs - while the scheduler has choked it.                    *)
(*                                                                          *)
(* A step is one critical section: one tq_*() call, or one update of the    *)
(* schedule under schedule_lock.  What a thread has yet to do inside a      *)
(* sch_*() call is kept in todo, so that other threads run in between.  The *)
(* queues are those of ThreadQueue, here as their effect only: waiting is   *)
(* a disabled step, justified by the wakeup properties proved there.        *)
(*                                                                          *)
(* A packet or frame is its number k within its stream; number 0 is the     *)
(* frame without data that marks the end.  Decoders, filtergraphs and       *)
(* encoders turn item k into item k.                                        *)
(***************************************************************************)
EXTENDS SchedulerGraph

CONSTANTS
    QueueSize,      \* places per stream of every thread queue
    PreMuxSize,     \* max_packets of the pre-muxing queues
    Script,         \* per demuxer: the sequence of [out, k] it reads; a looping
                    \* input starts over at a packet with out = -1
    EndTs,          \* decoders that tell where a pass of their input ends
    Lead,           \* per muxer stream: what is added to k to give the dts
    OwnFrames,      \* per filtergraph: frames its internal sources make
    InputLimit,     \* per filtergraph: frames after which an input is closed
    CopyLimit,      \* per muxer stream: packets after which it is closed
    Whole,          \* per muxer stream: packets it gets if nothing goes wrong
    MayFail,        \* tasks that may fail
    Interrupts      \* TRUE: the user may stop the transcoding at any time

ASSUME SchedulerAssumption ==
    /\ QueueSize \in Nat \ {0}
    /\ PreMuxSize \in Nat \ {0}
    /\ Script \in [Demuxers -> Seq([out : Int, k : Int])]
    /\ \A d \in Demuxers : \A i \in DOMAIN Script[d] :    \* k counts the stream's packets
          Script[d][i].out # -1 =>
              Script[d][i].k = Cardinality({j \in 1 .. i : Script[d][j].out = Script[d][i].out})
    /\ MayFail \in SUBSET Tasks
    /\ EndTs \in SUBSET Decoders
    /\ Interrupts \in BOOLEAN

VARIABLES
    choked,             \* SchWaiter.choked of every source
    queue,              \* items in the queue of every consumer: [in, k]
    send_fin, recv_fin, \* its streams finished by either side
    frozen,             \* tq->choked
    last_dts,           \* SchMuxStream.last_dts
    source_finished,    \* muxer streams with source_finished
    pre_mux,            \* SchMuxStream.pre_mux_queue: items, 0 for the end
    init_eof,           \* muxer streams with init_eof
    ready,              \* muxer streams that called sch_mux_stream_ready()
    mux_started,        \* muxers with mux_started
    flusher,            \* {[task, mux, empty]} while task holds mux_ready_lock
                        \* to start mux, {} otherwise; empty: all is flushed
    best_input,         \* SchFilterGraph.best_input
    send_finished,      \* SchFilterIn.send_finished
    receive_finished,   \* SchFilterIn.receive_finished
    task_exited,        \* sources whose task has exited
    opened,             \* encoders that have been opened
    end_ts,             \* SchDec.queue_end_ts: "ts" in it, "eof" as error
    dst_finished,       \* per task: destinations that take no more
    pc, todo,           \* per task: where it is, the rest of its sch_*() call
    pos,                \* per demuxer: packets read
    fg,                 \* per filtergraph: state of filter_thread
    written,            \* per muxer stream: last item written to the file
    nb_mux_done, failed, terminate, main

queues == <<queue, send_fin, recv_fin>>
muxing == <<pre_mux, init_eof, ready, mux_started, flusher>>
streams == <<last_dts, source_finished>>
inputs == <<best_input, send_finished, receive_finished>>
schedule == <<choked, frozen, streams, inputs, task_exited>>
codecs == <<opened, end_ts>>
local == <<pos, fg, written>>
ending == <<nb_mux_done, failed, terminate, main>>
vars == <<queues, muxing, schedule, codecs, dst_finished, pc, todo, local, ending>>

\* The streams of a task's queue; a filtergraph has a control stream more.
QueueStreams(c) == IF c \in Filters THEN 0 .. NbInputs[c] ELSE Inputs(c)

\* A packet without data: the decoder shall flush.
Flush == -1

Op(op, to, k) == [op |-> op, to |-> to, k |-> k]
MuxStream(n) == [task |-> n.task, in |-> n.in]

Init ==
    /\ choked = [s \in Sources |-> FALSE]
    /\ queue = [c \in Consumers |-> <<>>]
    /\ send_fin = [c \in Consumers |-> {}]
    /\ recv_fin = [c \in Consumers |-> {}]
    /\ frozen = [c \in Consumers |-> FALSE]
    /\ last_dts = [ms \in MuxStreams |-> NOPTS]
    /\ source_finished = {}
    /\ pre_mux = [ms \in MuxStreams |-> <<>>]
    /\ init_eof = {}
    /\ ready = {ms \in MuxStreams : SrcTask(ms.task, ms.in) \in Demuxers}
    /\ mux_started = {m \in Muxers : \A i \in Inputs(m) : SrcTask(m, i) \in Demuxers}
    /\ flusher = {}
    /\ best_input = [f \in Filters |-> 0]
    /\ send_finished = {}
    /\ receive_finished = {}
    /\ task_exited = {}
    /\ opened = {}
    /\ end_ts = [t \in EndTs |-> {}]
    /\ dst_finished = [t \in Tasks |-> {}]
    /\ pc = [t \in Tasks |-> IF t \in Muxers \ mux_started THEN "unstarted" ELSE "loop"]
    /\ todo = [t \in Tasks |-> <<>>]
    /\ pos = [d \in Demuxers |-> 0]
    /\ fg = [f \in Filters |->
                [next |-> 0, got |-> [i \in 0 .. NbInputs[f] |-> 0], eof |-> {},
                 configured |-> NbInputs[f] = 0, made |-> 0, out_eof |-> {},
                 consumers_done |-> {}, got_frame |-> FALSE]]
    /\ written = [ms \in MuxStreams |-> 0]
    /\ nb_mux_done = 0
    /\ failed = {}
    /\ terminate = FALSE
    /\ main = "starting"

--------------------------------------------------------------------------------
(* schedule_update_locked(): part of every step that changes what it reads. *)
(* fz is frozen[] as the rest of the step leaves it.                        *)

MayRun ==
    Unchoked(last_dts', source_finished', best_input',
             receive_finished' \ send_finished', task_exited')

SetWaitersForGood(run, fz) ==                                  \* mutant
    /\ choked' = [s \in Sources |-> s \notin run]
    /\ frozen' = [c \in Consumers |->
                    fz[c] \/ \E d \in Demuxers : c \in FrozenWith[d] /\ d \notin run]

SetWaiters(run, fz) ==
    /\ choked' = [s \in Sources |-> s \notin run]
    /\ frozen' = [c \in Consumers |->
          IF \E d \in Demuxers : c \in FrozenWith[d] /\ choked[d] # (d \notin run)
            THEN \E d \in Demuxers : c \in FrozenWith[d] /\ d \notin run
            ELSE fz[c]]

ScheduleIgnoresTerminate(fz) == \E run \in {MayRun} : SetWaiters(run, fz)   \* mutant

schedule_update_locked(fz) ==
    IF terminate THEN choked' = choked /\ frozen' = fz
                 ELSE \E run \in {MayRun} : SetWaiters(run, fz)

--------------------------------------------------------------------------------
(* The thread queues. *)

Queued(c, i) == {j \in DOMAIN queue[c] : queue[c][j].in = i}

RoomOneMore(c, i) == Cardinality(Queued(c, i)) <= QueueSize    \* mutant

Room(c, i) == Cardinality(Queued(c, i)) < QueueSize

Enqueue(n, k) == [queue EXCEPT ![n.task] = Append(@, [in |-> n.in, k |-> k])]

\* tq_receive() has an item; the end of a stream; the end of all streams.
HasItem(c) == ~frozen[c] /\ queue[c] # <<>>
EndsBeforeItems(c) == IF frozen[c] THEN {} ELSE send_fin[c] \ recv_fin[c]    \* mutant

Ends(c) == IF frozen[c] \/ queue[c] # <<>> THEN {} ELSE send_fin[c] \ recv_fin[c]

AllDone(c) ==
    /\ ~frozen[c]
    /\ queue[c] = <<>>
    /\ Ends(c) = {}
    /\ QueueStreams(c) \subseteq recv_fin[c]

\* The receiving side has closed the stream: tq_send() says EOF.
Refused(n) == n.in \in recv_fin[n.task]

LowestEnd(c) == CHOOSE i \in Ends(c) : \A j \in Ends(c) : i <= j

\* tq_receive_finish(): what is queued for these streams will be dropped.  Several
\* calls, one per stream, are one step: a task that comes between two of them still
\* finds its own stream open, its item is dropped a moment later, and it learns of the
\* end with its next one, as if it had sent before the first call.
HangUp(c, S) ==
    /\ recv_fin' = [recv_fin EXCEPT ![c] = @ \cup S]
    /\ queue' = [queue EXCEPT ![c] = Subsequence(@, {j \in DOMAIN @ : @[j].in \notin S})]

--------------------------------------------------------------------------------
(* The rest of a sch_*() call: the head of todo[t]. *)

Flushing(t) == \E x \in flusher : x.task = t
At(t, op) == ~Flushing(t) /\ todo[t] # <<>> /\ Head(todo[t]).op = op
To(t) == Head(todo[t]).to
Item(t) == Head(todo[t]).k

Proceed(t) == todo' = [todo EXCEPT ![t] = Tail(@)]
ProceedWith(t, ops) == todo' = [todo EXCEPT ![t] = ops \o Tail(@)]

\* send_to_enc(): the first frame opens the encoder, which makes its muxer
\* streams ready; a frame without data does no more than that.
EncOpen(t) ==
    /\ At(t, "send") \/ At(t, "init")
    /\ To(t).task \in Encoders \ opened
    /\ opened' = opened \cup {To(t).task}
    /\ todo' = [todo EXCEPT ![t] =
          [j \in DOMAIN Dst[To(t).task] |-> Op("ready", Dst[To(t).task][j], 0)] \o
          (IF At(t, "init") THEN Tail(@) ELSE @)]
    /\ UNCHANGED <<queues, muxing, schedule, end_ts, dst_finished, pc, local, ending>>

\* sch_mux_stream_ready(): the last stream starts the muxer's thread; the
\* flush of the pre-muxing queues follows under mux_ready_lock.
StreamReady(t) ==
    LET m == To(t).task IN
    /\ At(t, "ready")
    /\ flusher = {}
    /\ ready' = ready \cup {MuxStream(To(t))}
    /\ IF \A i \in Inputs(m) : [task |-> m, in |-> i] \in ready'
         THEN /\ flusher' = {[task |-> t, mux |-> m, empty |-> FALSE]}
              /\ pc' = [pc EXCEPT ![m] = "loop"]
         ELSE UNCHANGED <<flusher, pc>>
    /\ Proceed(t)
    /\ UNCHANGED <<queues, pre_mux, init_eof, mux_started, schedule, codecs,
                   dst_finished, local, ending>>

PreMuxed(m) == {ms \in MuxStreams : ms.task = m /\ pre_mux[ms] # <<>>}

\* mux_task_start() picks the stream whose queue ends first, else the one
\* with the earliest dts.
EarliestPreMuxed(m) ==
    LET eofs == {ms \in PreMuxed(m) : Head(pre_mux[ms]) = 0}
        dts(ms) == Head(pre_mux[ms]) + Lead[ms]
        pool == IF eofs # {} THEN eofs
                ELSE {ms \in PreMuxed(m) : \A o \in PreMuxed(m) : dts(ms) <= dts(o)}
    IN {ms \in pool : \A o \in pool : ms.in <= o.in}

\* The packet at the head of the queue goes to tq_send(), unless that said EOF before.
FlushSends(ms) == Head(pre_mux[ms]) # 0 /\ ms \notin init_eof

\* One packet or end of the flush.
FlushStep(t) ==
    /\ \E x \in flusher : x.task = t /\ \E ms \in EarliestPreMuxed(x.mux) :
          LET finish == [send_fin EXCEPT ![ms.task] = @ \cup {ms.in}] IN
          /\ pre_mux' = [pre_mux EXCEPT ![ms] = Tail(@)]
          /\ \/ /\ Head(pre_mux[ms]) = 0
                /\ send_fin' = finish
                /\ UNCHANGED <<queue, init_eof>>
             \/ /\ Head(pre_mux[ms]) # 0 /\ ms \in init_eof
                /\ UNCHANGED <<queue, send_fin, init_eof>>
             \/ /\ FlushSends(ms) /\ Refused(ms)
                /\ send_fin' = finish
                /\ init_eof' = init_eof \cup {ms}
                /\ UNCHANGED queue
             \/ /\ FlushSends(ms) /\ ~Refused(ms) /\ Room(ms.task, ms.in)
                /\ queue' = Enqueue(ms, Head(pre_mux[ms]))
                /\ UNCHANGED <<send_fin, init_eof>>
    /\ UNCHANGED <<recv_fin, ready, mux_started, flusher, schedule, codecs, dst_finished,
                   pc, todo, local, ending>>

\* The queues were found empty; only then does mux_started become visible.
FlushEnd(t) ==
    /\ \E x \in flusher :
          /\ x.task = t /\ PreMuxed(x.mux) = {} /\ ~x.empty
          /\ flusher' = {[task |-> t, mux |-> x.mux, empty |-> TRUE]}
    /\ UNCHANGED <<queues, pre_mux, init_eof, ready, mux_started, schedule, codecs,
                   dst_finished, pc, todo, local, ending>>

MuxStarted(t) ==
    /\ \E x \in flusher :
          x.task = t /\ x.empty /\ mux_started' = mux_started \cup {x.mux}
    /\ flusher' = {}
    /\ UNCHANGED <<queues, pre_mux, init_eof, ready, schedule, codecs, dst_finished, pc,
                   todo, local, ending>>

\* mux_started is read again under mux_ready_lock, which the thread that
\* flushes the queues holds until it has set mux_started.
ParkingUnlocked(t) == To(t).task \in Muxers \ mux_started       \* mutant

Parking(t) == To(t).task \in Muxers \ mux_started /\ flusher = {}

\* The muxer is not started: park the item (or the end).
PreMux(t) ==
    LET ms == MuxStream(To(t)) IN
    /\ At(t, "send") \/ At(t, "finish")
    /\ Parking(t)
    /\ Len(pre_mux[ms]) < PreMuxSize
    /\ pre_mux' = [pre_mux EXCEPT ![ms] = Append(@, IF At(t, "send") THEN Item(t) ELSE 0)]
    /\ ProceedWith(t, <<Op("update", To(t), IF At(t, "send") THEN Item(t) ELSE 0)>>)
    /\ dst_finished' = IF At(t, "send") THEN dst_finished
                       ELSE [dst_finished EXCEPT ![t] = @ \cup {To(t)}]
    /\ UNCHANGED <<queues, init_eof, ready, mux_started, flusher, schedule, codecs,
                   pc, local, ending>>

\* "Too many packets buffered for output stream": the call fails.
PreMuxFull(t) ==
    /\ At(t, "send")
    /\ Parking(t)
    /\ Len(pre_mux[MuxStream(To(t))]) >= PreMuxSize
    /\ todo' = [todo EXCEPT ![t] = <<>>]
    /\ pc' = [pc EXCEPT ![t] = "returned"]
    /\ failed' = failed \cup {t}
    /\ UNCHANGED <<queues, muxing, schedule, codecs, dst_finished, local, nb_mux_done,
                   terminate, main>>

\* The end itself may find no place: nobody looks at that error.
PreMuxEndLost(t) ==
    /\ At(t, "finish")
    /\ Parking(t)
    /\ Len(pre_mux[MuxStream(To(t))]) >= PreMuxSize
    /\ Proceed(t)
    /\ dst_finished' = [dst_finished EXCEPT ![t] = @ \cup {To(t)}]
    /\ UNCHANGED <<queues, muxing, schedule, codecs, pc, local, ending>>

\* The muxer has started, the encoder is open.
SendableAtOnce(t) ==                                           \* mutant
    /\ At(t, "send")
    /\ pc[To(t).task] # "unstarted"
    /\ To(t).task \notin Encoders \ opened

Sendable(t) ==
    /\ At(t, "send")
    /\ To(t).task \notin (Muxers \ mux_started) \cup (Encoders \ opened)

CallsSendAnyway(t) == Sendable(t)                              \* mutant

\* tq_send() is called, unless mux_task_start() found the stream closed: init_eof
\* stands for the EOF that was said then.
CallsSend(t) == Sendable(t) /\ (To(t).task \in Muxers => MuxStream(To(t)) \notin init_eof)

SendItem(t) ==
    LET n == To(t) IN
    /\ CallsSend(t)
    /\ ~Refused(n)
    /\ Room(n.task, n.in)
    /\ queue' = Enqueue(n, Item(t))
    /\ IF n.task \in Muxers THEN ProceedWith(t, <<Op("update", n, Item(t))>>)
                            ELSE Proceed(t)
    /\ fg' = IF t \in Filters THEN [fg EXCEPT ![t].got_frame = @ \/ Item(t) # 0] ELSE fg
    /\ UNCHANGED <<send_fin, recv_fin, muxing, schedule, codecs, dst_finished, pc,
                   pos, written, ending>>

\* EOF from the other side, now or in mux_task_start(): send the end back, and for a
\* filtergraph note that the consumers of this output are done.
SendEof(t) ==
    LET n == To(t) IN
    /\ Sendable(t)
    /\ CallsSend(t) => Refused(n)
    /\ send_fin' = [send_fin EXCEPT ![n.task] = @ \cup {n.in}]
    /\ fg' = IF t \in Filters
               THEN [fg EXCEPT ![t].out_eof = @ \cup {n.out},
                               ![t].consumers_done = @ \cup {n.out}]
               ELSE fg
    /\ todo' = [todo EXCEPT ![t] =
          <<Op("finish", n, 0)>> \o Subsequence(@, {j \in DOMAIN @ : @[j].to # n})]
    /\ UNCHANGED <<queue, recv_fin, muxing, schedule, codecs, dst_finished, pc, pos,
                   written, ending>>

\* tq_send_finish() for a decoder, an encoder, a muxer that has started.
Finish(t) ==
    LET n == To(t) IN
    /\ At(t, "finish")
    /\ n.task \in Decoders \cup Encoders \cup mux_started
    /\ send_fin' = [send_fin EXCEPT ![n.task] = @ \cup {n.in}]
    /\ frozen' = [frozen EXCEPT ![n.task] = FALSE]
    /\ IF n.task \in Muxers THEN ProceedWith(t, <<Op("update", n, 0)>>) ELSE Proceed(t)
    /\ dst_finished' = [dst_finished EXCEPT ![t] = @ \cup {n}]
    /\ UNCHANGED <<queue, recv_fin, muxing, choked, streams, inputs, task_exited, codecs,
                   pc, local, ending>>

\* send_to_filter(NULL), once per input: the last one closes the control
\* stream as well.
FinishFilterInput(t) ==
    LET n == To(t)
        f == n.task
        fi == [task |-> f, in |-> n.in] IN
    /\ At(t, "finish")
    /\ f \in Filters
    /\ dst_finished' = [dst_finished EXCEPT ![t] = @ \cup {n}]
    /\ send_finished' = send_finished \cup {fi}
    /\ send_fin' = [send_fin EXCEPT ![f] = @ \cup {n.in} \cup
          (IF \A i \in Inputs(f) : [task |-> f, in |-> i] \in send_finished'
             THEN {NbInputs[f]} ELSE {})]
    /\ Proceed(t)
    /\ UNCHANGED <<streams, best_input, receive_finished, task_exited>>
    /\ schedule_update_locked([frozen EXCEPT ![f] = FALSE])
    /\ UNCHANGED <<queue, recv_fin, muxing, codecs, pc, local, ending>>

\* The end of send_to_mux(): tell the scheduler how far the stream is.
MuxUpdate(t) ==
    LET ms == MuxStream(To(t)) IN
    /\ At(t, "update")
    /\ IF Item(t) = 0
         THEN source_finished' = source_finished \cup {ms} /\ UNCHANGED last_dts
         ELSE last_dts' = [last_dts EXCEPT ![ms] = Item(t) + Lead[ms]]
                /\ UNCHANGED source_finished
    /\ Proceed(t)
    /\ UNCHANGED <<inputs, task_exited>>
    /\ schedule_update_locked(frozen)
    /\ UNCHANGED <<queues, muxing, codecs, dst_finished, pc, local, ending>>

Continue(t) ==
    \/ EncOpen(t) \/ StreamReady(t) \/ FlushStep(t) \/ FlushEnd(t)  \/ MuxStarted(t)
    \/ PreMux(t)      \/ PreMuxFull(t) \/ PreMuxEndLost(t) \/ SendItem(t)
    \/ SendEof(t)     \/ Finish(t)  \/ FinishFilterInput(t) \/ MuxUpdate(t)

--------------------------------------------------------------------------------
(* The loops of the task threads, at a point where no sch_*() call is under *)
(* way.  pc is "loop" in the loop, "returned" when the thread function has  *)
(* returned and "cleanup" in task_cleanup(); filter_thread has some more.   *)

Idle(t, label) == pc[t] = label /\ todo[t] = <<>> /\ ~Flushing(t)
GoTo(t, label) == pc' = [pc EXCEPT ![t] = label]

\* One operation for each of the destinations.
ForEach(dsts, op, k) == [j \in DOMAIN dsts |-> Op(op, dsts[j], k)]

DstWith(t, N) == Subsequence(Dst[t], {j \in DOMAIN Dst[t] : Dst[t][j] \in N})

\* Those that have not said EOF (dst_finished[]).
EveryDst(t) == Dst[t]                                          \* mutant

OpenDst(t) == DstWith(t, Targets(t) \ dst_finished[t])

OpenDecoders(d) == DstWith(d, {n \in Targets(d) \ dst_finished[d] : n.task \in Decoders})

StreamsDone(d) == {o \in {n.out : n \in Targets(d)} :
                     \A n \in Targets(d) : n.out = o => n \in dst_finished[d]}
ConsumersDone(t) == Targets(t) \subseteq dst_finished[t]

\* The destinations of one of its streams.
OpenDstOf(d, out) == DstWith(d, {n \in Targets(d) \ dst_finished[d] : n.out = out})

NextPacket(d) == Script[d][pos[d] + 1]
Looping(d) == NextPacket(d).out = -1
AtEnd(d) == pos[d] = Len(Script[d])

DemuxSend(d) ==
    /\ Idle(d, "loop")
    /\ ~AtEnd(d) /\ ~Looping(d) /\ ~ConsumersDone(d)
    /\ NextPacket(d).out \notin StreamsDone(d)
    /\ ~choked[d]                            \* waiter_wait()
    /\ pos' = [pos EXCEPT ![d] = @ + 1]
    /\ todo' = [todo EXCEPT ![d] =
          ForEach(OpenDstOf(d, NextPacket(d).out), "send", NextPacket(d).k)]
    /\ UNCHANGED <<queues, muxing, schedule, codecs, dst_finished, pc, fg, written, ending>>

\* A packet of a stream all of whose consumers are done.
DemuxSkip(d) ==
    /\ Idle(d, "loop")
    /\ ~AtEnd(d) /\ ~ConsumersDone(d)
    /\ NextPacket(d).out \in StreamsDone(d)
    /\ pos' = [pos EXCEPT ![d] = @ + 1]
    /\ UNCHANGED <<queues, muxing, schedule, codecs, dst_finished, pc, todo, fg, written,
                   ending>>

\* The end of a looping input: demux_flush() sends a flush packet to each
\* decoder and waits for the time at which those of audio streams end.
DemuxFlush(d) ==
    /\ Idle(d, "loop")
    /\ ~AtEnd(d) /\ ~ConsumersDone(d)
    /\ Looping(d)
    /\ ~choked[d]                            \* waiter_wait()
    /\ pos' = [pos EXCEPT ![d] = @ + 1]
    /\ todo' = [todo EXCEPT ![d] = ForEach(OpenDecoders(d), "flush", Flush)]
    /\ UNCHANGED <<queues, muxing, schedule, codecs, dst_finished, pc, fg, written, ending>>

FlushSend(d) ==
    /\ At(d, "flush")
    /\ ~Refused(To(d))
    /\ Room(To(d).task, To(d).in)
    /\ queue' = Enqueue(To(d), Flush)
    /\ ProceedWith(d, IF To(d).task \in EndTs THEN <<Op("await", To(d), 0)>> ELSE <<>>)
    /\ UNCHANGED <<send_fin, recv_fin, muxing, schedule, codecs, dst_finished, pc, local,
                   ending>>

\* The message is taken before the error is looked at.
FlushAwait(d) ==
    /\ At(d, "await")
    /\ "ts" \in end_ts[To(d).task]
    /\ end_ts' = [end_ts EXCEPT ![To(d).task] = @ \ {"ts"}]
    /\ Proceed(d)
    /\ UNCHANGED <<queues, muxing, schedule, opened, dst_finished, pc, local, ending>>

\* A decoder that has finished ends the call, and with it the input.
FlushEof(d) ==
    /\ \/ /\ At(d, "flush") /\ Refused(To(d))
          /\ send_fin' = [send_fin EXCEPT ![To(d).task] = @ \cup {To(d).in}]
       \/ /\ At(d, "await") /\ end_ts[To(d).task] = {"eof"}
          /\ UNCHANGED send_fin
    /\ todo' = [todo EXCEPT ![d] = <<>>]
    /\ GoTo(d, "returned")
    /\ UNCHANGED <<queue, recv_fin, muxing, schedule, codecs, dst_finished, local, ending>>

\* waiter_wait() says "terminate" also when it was woken for another reason
\* and sch_stop() came before it looked: choked does not matter.
DemuxReturn(d) ==
    /\ Idle(d, "loop")
    /\ AtEnd(d) \/ ConsumersDone(d) \/ terminate
    /\ GoTo(d, "returned")
    /\ UNCHANGED <<queues, muxing, schedule, codecs, dst_finished, todo, local, ending>>

\* The tq_receive() of a task, for an item and for the end of a stream.
TakeItem(c) ==
    /\ HasItem(c)
    /\ queue' = [queue EXCEPT ![c] = Tail(@)]
    /\ UNCHANGED <<send_fin, recv_fin>>

TakeEnd(c) ==
    /\ Ends(c) # {}
    /\ recv_fin' = [recv_fin EXCEPT ![c] = @ \cup {LowestEnd(c)}]
    /\ UNCHANGED <<queue, send_fin>>

\* decoder_thread and encoder_thread: an item in, an item out.
CodecItem(t) ==
    /\ Idle(t, "loop")
    /\ t \in Encoders \/ ~ConsumersDone(t)
    /\ TakeItem(t)
    /\ Head(queue[t]).k # Flush
    /\ todo' = [todo EXCEPT ![t] = ForEach(OpenDst(t), "send", Head(queue[t]).k)]
    /\ UNCHANGED <<muxing, schedule, codecs, dst_finished, pc, local, ending>>

\* The decoder is flushed; nothing is delayed in it.
DecoderFlush(t) ==
    /\ Idle(t, "loop")
    /\ ~ConsumersDone(t)
    /\ TakeItem(t)
    /\ Head(queue[t]).k = Flush
    /\ pc' = IF t \in EndTs THEN [pc EXCEPT ![t] = "flushed"] ELSE pc
    /\ UNCHANGED <<muxing, schedule, codecs, dst_finished, todo, local, ending>>

\* The next sch_dec_receive() first sends the time (expect_end_ts).
DecoderEndTs(t) ==
    /\ Idle(t, "flushed")
    /\ "ts" \notin end_ts[t]
    /\ end_ts' = [end_ts EXCEPT ![t] = @ \cup {"ts"}]
    /\ GoTo(t, "loop")
    /\ UNCHANGED <<queues, muxing, schedule, opened, dst_finished, todo, local, ending>>

\* A decoder stops when all its consumers said EOF; an encoder does not care.
DecoderStop(t) ==
    /\ Idle(t, "loop")
    /\ ConsumersDone(t)
    /\ GoTo(t, "returned")
    /\ UNCHANGED <<queues, muxing, schedule, codecs, dst_finished, todo, local, ending>>

CodecEndSilent(t) ==                                           \* mutant
    /\ Idle(t, "loop")
    /\ t \in Encoders \/ ~ConsumersDone(t)
    /\ TakeEnd(t)
    /\ GoTo(t, "returned")
    /\ failed' = IF t \in Encoders \ opened THEN failed \cup {t} ELSE failed
    /\ UNCHANGED <<muxing, schedule, codecs, dst_finished, todo, local, nb_mux_done, terminate,
                   main>>

\* The end of the input: a decoder sends the end on as a frame of its own.
CodecEnd(t) ==
    /\ Idle(t, "loop")
    /\ t \in Encoders \/ ~ConsumersDone(t)
    /\ TakeEnd(t)
    /\ GoTo(t, "returned")
    /\ todo' = [todo EXCEPT ![t] = IF t \in Decoders THEN ForEach(OpenDst(t), "send", 0) ELSE @]
    /\ failed' = IF t \in Encoders \ opened THEN failed \cup {t} ELSE failed
    /\ UNCHANGED <<muxing, schedule, codecs, dst_finished, local, nb_mux_done, terminate, main>>

\* muxer_thread
MuxItem(m) ==
    LET x == Head(queue[m])
        ms == [task |-> m, in |-> x.in] IN
    /\ Idle(m, "loop")
    /\ TakeItem(m)
    /\ IF written[ms] >= CopyLimit[ms]
         THEN /\ todo' = [todo EXCEPT ![m] = <<Op("hangup", ms, 0)>>]
              /\ UNCHANGED written
         ELSE written' = [written EXCEPT ![ms] = x.k] /\ UNCHANGED todo
    /\ UNCHANGED <<muxing, schedule, codecs, dst_finished, pc, pos, fg, ending>>

\* sch_mux_receive_finish(), first and second half.
MuxHangUp(m) ==
    LET ms == To(m) IN
    /\ At(m, "hangup")
    /\ HangUp(m, {ms.in})
    /\ ProceedWith(m, <<Op("update", ms, 0)>>)
    /\ UNCHANGED <<send_fin, muxing, schedule, codecs, dst_finished, pc, local, ending>>

MuxEnd(m) ==
    /\ Idle(m, "loop")
    /\ TakeEnd(m)
    /\ UNCHANGED <<muxing, schedule, codecs, dst_finished, pc, todo, local, ending>>

MuxReturn(m) ==
    /\ Idle(m, "loop")
    /\ AllDone(m)
    /\ GoTo(m, "returned")
    /\ UNCHANGED <<queues, muxing, schedule, codecs, dst_finished, todo, local, ending>>

\* Any task may fail between two calls.
Fail(t) ==
    /\ t \in MayFail
    /\ Idle(t, "loop")
    /\ GoTo(t, "returned")
    /\ failed' = failed \cup {t}
    /\ UNCHANGED <<queues, muxing, schedule, codecs, dst_finished, todo, local, nb_mux_done,
                   terminate, main>>

--------------------------------------------------------------------------------
(* filter_thread.  libavfilter is what it looks like from here: frame j can *)
(* be had once every input still open has given j frames; when none is open *)
(* the graph runs to the end of the longest.  Index nb_inputs stands for    *)
(* the graph's internal source.                                             *)

Limit(f, i) == IF i = NbInputs[f] THEN OwnFrames[f] ELSE InputLimit[f]
OpenInputs(f, g) == {i \in 0 .. NbInputs[f] : i \notin g.eof /\ g.got[i] < Limit(f, i)}

Producible(f, g) ==
    IF OpenInputs(f, g) = {}
      THEN CHOOSE n \in {g.got[i] : i \in DOMAIN g.got} :
              \A i \in DOMAIN g.got : g.got[i] <= n
      ELSE CHOOSE n \in {g.got[i] : i \in OpenInputs(f, g)} :
              \A i \in OpenInputs(f, g) : n <= g.got[i]

Outputs(f) == {n.out : n \in Targets(f)}
Lowest(S) == CHOOSE i \in S : \A j \in S : i <= j

\* ifilter_has_all_input_formats(), with the fallback an ended input has.
HasAllFormats(f, g) == \A i \in Inputs(f) : g.got[i] > 0 \/ i \in g.eof

\* The graph as an item leaves it: the end of input i, or a frame more.
Fed(f, x) ==
    LET g == IF x.k = 0 THEN [fg[f] EXCEPT !.eof = @ \cup {x.in}]
                        ELSE [fg[f] EXCEPT !.got[x.in] = @ + 1]
    IN [g EXCEPT !.configured = HasAllFormats(f, g)]

\* sch_filter_receive(): the wanted input changed.
FilterPrefer(f) ==
    /\ Idle(f, "loop")
    /\ fg[f].next # best_input[f]
    /\ best_input' = [best_input EXCEPT ![f] = fg[f].next]
    /\ UNCHANGED <<send_finished, receive_finished, streams, task_exited>>
    /\ schedule_update_locked(frozen)
    /\ UNCHANGED <<queues, muxing, codecs, dst_finished, pc, todo, local, ending>>

Receiving(f) == Idle(f, "loop") /\ fg[f].next = best_input[f]

\* A frame or the end of an input.  A frame for an input that takes no more
\* closes it; the one that makes the formats complete configures the graph,
\* with all inputs choked meanwhile.
FilterItem(f) ==
    LET x == Head(queue[f])
        enough == x.k # 0 /\ fg[f].got[x.in] >= Limit(f, x.in) IN
    /\ Receiving(f)
    /\ TakeItem(f)
    /\ fg' = IF enough THEN fg ELSE [fg EXCEPT ![f] = Fed(f, x)]
    /\ pc' = IF enough THEN pc ELSE [pc EXCEPT ![f] = "read"]
    /\ todo' = [todo EXCEPT ![f] =
          IF enough THEN <<Op("close", [task |-> f, in |-> x.in], 0)>>
          ELSE IF x.k # 0 /\ fg'[f].configured /\ ~fg[f].configured
            THEN <<Op("choke_inputs", x, 0)>> ELSE <<>>]
    /\ UNCHANGED <<muxing, schedule, codecs, dst_finished, pos, written, ending>>

\* sch_filter_choke_inputs()
ChokeInputs(f) ==
    /\ At(f, "choke_inputs")
    /\ best_input' = [best_input EXCEPT ![f] = NbInputs[f]]
    /\ Proceed(f)
    /\ UNCHANGED <<send_finished, receive_finished, streams, task_exited>>
    /\ schedule_update_locked(frozen)
    /\ UNCHANGED <<queues, muxing, codecs, dst_finished, pc, local, ending>>

\* sch_filter_receive_finish()
CloseInput(f) ==
    /\ At(f, "close")
    /\ To(f) \notin receive_finished
    /\ receive_finished' = receive_finished \cup {To(f)}
    /\ HangUp(f, {To(f).in} \cup
          (IF \A i \in Inputs(f) : [task |-> f, in |-> i] \in receive_finished'
             THEN {NbInputs[f]} ELSE {}))
    /\ Proceed(f)
    /\ UNCHANGED <<send_finished, best_input, streams, task_exited>>
    /\ schedule_update_locked(frozen)
    /\ UNCHANGED <<send_fin, muxing, codecs, dst_finished, pc, local, ending>>

\* The end of a stream without a frame before it: a blocking receive goes on
\* to wait; with no input wanted the thread waits for its turn.
FilterStreamEnd(f) ==
    /\ Receiving(f)
    /\ TakeEnd(f)
    /\ pc' = IF fg[f].next = NbInputs[f] THEN [pc EXCEPT ![f] = "rated"] ELSE pc
    /\ UNCHANGED <<muxing, schedule, codecs, dst_finished, todo, local, ending>>

\* Nothing (more) to receive.
FilterNothing(f) ==
    /\ Receiving(f)
    /\ queue[f] = <<>> /\ Ends(f) = {}
    /\ \/ fg[f].next = NbInputs[f] /\ GoTo(f, "rated")
       \/ fg[f].next # NbInputs[f] /\ AllDone(f) /\ GoTo(f, "end")
    /\ UNCHANGED <<queues, muxing, schedule, codecs, dst_finished, todo, local, ending>>

\* waiter_wait()
FilterTurn(f) ==
    /\ Idle(f, "rated")
    /\ \/ ~choked[f] /\ GoTo(f, "read")
       \/ terminate /\ GoTo(f, "end")
    /\ UNCHANGED <<queues, muxing, schedule, codecs, dst_finished, todo, local, ending>>

\* read_frames() before the graph is configured: ask for the first input
\* without a format.
FilterUnconfigured(f) ==
    /\ Idle(f, "read")
    /\ ~fg[f].configured
    /\ fg' = [fg EXCEPT ![f].next =
                Lowest({i \in Inputs(f) : fg[f].got[i] = 0 /\ i \notin fg[f].eof})]
    /\ GoTo(f, "loop")
    /\ UNCHANGED <<queues, muxing, schedule, codecs, dst_finished, todo, pos, written, ending>>

FilterRead(f) ==
    /\ Idle(f, "read")
    /\ fg[f].configured
    /\ Outputs(f) \ fg[f].consumers_done # {}
    /\ GoTo(f, "frames")
    /\ UNCHANGED <<queues, muxing, schedule, codecs, dst_finished, todo, local, ending>>

\* Every frame to be had goes to every output still open.
FilterFrame(f) ==
    /\ Idle(f, "frames")
    /\ fg[f].made < Producible(f, fg[f])
    /\ fg' = [fg EXCEPT ![f].made = @ + 1]
    /\ todo' = [todo EXCEPT ![f] =
          ForEach(DstWith(f, {n \in Targets(f) : n.out \notin fg[f].out_eof}), "send",
                  fg[f].made + 1)]
    /\ UNCHANGED <<queues, muxing, schedule, codecs, dst_finished, pc, pos, written, ending>>

NoMoreFrames(f) == Idle(f, "frames") /\ fg[f].made = Producible(f, fg[f])

\* "All consumers returned EOF"
FilterConsumersDone(f) ==
    /\ Idle(f, "read")
    /\ fg[f].configured
    /\ Outputs(f) \ fg[f].consumers_done = {}
    /\ GoTo(f, "end")
    /\ UNCHANGED <<queues, muxing, schedule, codecs, dst_finished, todo, local, ending>>

\* close_output(), at the end of the graph or of the thread: an output that
\* never had a frame sends an empty one first, for the encoder's sake.
CloseOutput(f) ==
    /\ \/ NoMoreFrames(f) /\ OpenInputs(f, fg[f]) = {}
       \/ Idle(f, "end") /\ fg[f].configured
    /\ \E n \in Targets(f) :
          /\ n.out \notin fg[f].out_eof
          /\ fg' = [fg EXCEPT ![f].out_eof = @ \cup {n.out}]
          /\ todo' = [todo EXCEPT ![f] =
                (IF fg[f].got_frame THEN <<>>
                 ELSE <<Op(IF n.task \in Encoders THEN "init" ELSE "send", n, 0)>>)
                \o <<Op("finish", n, 0)>>]
    /\ UNCHANGED <<queues, muxing, schedule, codecs, dst_finished, pc, pos, written, ending>>

\* avfilter_graph_request_oldest(): the graph is at its end, or wants an
\* input, or ran its own source.  Inputs that had enough are closed then.
FilterRequest(f) ==
    LET open == OpenInputs(f, fg[f])
        want == Lowest({i \in open : fg[f].got[i] = fg[f].made})
        ops == [j \in 1 .. NbInputs[f] |-> Op("close", [task |-> f, in |-> j - 1], 0)]
        full == {j \in DOMAIN ops : fg[f].got[j - 1] >= InputLimit[f]
                                      /\ ops[j].to \notin receive_finished} IN
    /\ NoMoreFrames(f)
    /\ IF open = {}
         THEN /\ Outputs(f) \subseteq fg[f].out_eof
              /\ GoTo(f, "end")
              /\ UNCHANGED <<fg, todo>>
         ELSE /\ fg' = [fg EXCEPT ![f].next = want,
                                  ![f].got[NbInputs[f]] = IF want = NbInputs[f] THEN @ + 1 ELSE @]
              /\ todo' = [todo EXCEPT ![f] = Subsequence(ops, full)]
              /\ GoTo(f, "loop")
    /\ UNCHANGED <<queues, muxing, schedule, codecs, dst_finished, pos, written, ending>>

FilterReturn(f) ==
    /\ Idle(f, "end")
    /\ Outputs(f) \subseteq fg[f].out_eof \/ ~fg[f].configured
    /\ GoTo(f, "returned")
    /\ UNCHANGED <<queues, muxing, schedule, codecs, dst_finished, todo, local, ending>>

--------------------------------------------------------------------------------
(* task_cleanup(), in the thread itself. *)

\* dec_done, enc_done, filter_done, demux_done: refuse what still comes, say
\* the end to all destinations; sources note that they are gone.
Cleanup(t) ==
    /\ Idle(t, "returned")
    /\ t \notin Muxers
    /\ IF t \in Consumers THEN HangUp(t, QueueStreams(t)) ELSE UNCHANGED <<recv_fin, queue>>
    /\ todo' = [todo EXCEPT ![t] =
          (IF t \in EndTs THEN <<Op("no_end_ts", t, 0)>> ELSE <<>>) \o
          ForEach(OpenDst(t), "finish", 0) \o
          (IF t \in Sources THEN <<Op("exit", t, 0)>> ELSE <<>>)]
    /\ GoTo(t, "cleanup")
    /\ UNCHANGED <<send_fin, muxing, schedule, codecs, dst_finished, local, ending>>

NoEndTsForgotten(t) ==                                         \* mutant
    /\ At(t, "no_end_ts")
    /\ Proceed(t)
    /\ UNCHANGED <<queues, muxing, schedule, codecs, dst_finished, pc, local, ending>>

\* "make sure our source does not get stuck waiting for end timestamps that
\* will never arrive"
NoEndTs(t) ==
    /\ At(t, "no_end_ts")
    /\ end_ts' = [end_ts EXCEPT ![t] = @ \cup {"eof"}]
    /\ Proceed(t)
    /\ UNCHANGED <<queues, muxing, schedule, opened, dst_finished, pc, local, ending>>

TaskExited(t) ==
    /\ At(t, "exit")
    /\ task_exited' = task_exited \cup {t}
    /\ Proceed(t)
    /\ UNCHANGED <<inputs, streams>>
    /\ schedule_update_locked(frozen)
    /\ UNCHANGED <<queues, muxing, codecs, dst_finished, pc, local, ending>>

Done(t) == Idle(t, "cleanup")
OtherTasksDone(m) == \A t \in Tasks \ Muxers : Done(t)

\* mux_done; a muxer that never started is cleaned up by sch_stop(), after
\* every other task.
MuxDone(m) ==
    /\ Idle(m, "returned") \/ (pc[m] = "unstarted" /\ main = "joining" /\ OtherTasksDone(m))
    /\ HangUp(m, Inputs(m))
    /\ source_finished' = source_finished \cup {ms \in MuxStreams : ms.task = m}
    /\ todo' = [todo EXCEPT ![m] = <<Op("count", m, 0)>>]
    /\ GoTo(m, "cleanup")
    /\ UNCHANGED <<last_dts, inputs, task_exited>>
    /\ schedule_update_locked(frozen)
    /\ UNCHANGED <<send_fin, muxing, codecs, dst_finished, local, ending>>

MuxCount(m) ==
    /\ At(m, "count")
    /\ nb_mux_done' = nb_mux_done + 1
    /\ Proceed(m)
    /\ UNCHANGED <<queues, muxing, schedule, codecs, dst_finished, pc, local, failed,
                   terminate, main>>

--------------------------------------------------------------------------------
(* The main thread: sch_start(), sch_wait(), sch_stop(). *)

MainStart ==
    /\ main = "starting"
    /\ main' = "waiting"
    /\ UNCHANGED <<streams, inputs, task_exited>>
    /\ schedule_update_locked(frozen)
    /\ UNCHANGED <<queues, muxing, codecs, dst_finished, pc, todo, local, nb_mux_done, failed,
                   terminate>>

MainTerminate ==
    /\ main = "waiting"
    /\ nb_mux_done = Cardinality(Muxers) \/ \E t \in failed : Done(t)
    /\ terminate' = TRUE
    /\ main' = "stopping"
    /\ UNCHANGED <<queues, muxing, schedule, codecs, dst_finished, pc, todo, local,
                   nb_mux_done, failed>>

\* The user stops the transcoding: sch_stop() is called before its end.
Interrupt ==
    /\ Interrupts
    /\ main = "waiting"
    /\ terminate' = TRUE
    /\ main' = "stopping"
    /\ UNCHANGED <<queues, muxing, schedule, codecs, dst_finished, pc, todo, local,
                   nb_mux_done, failed>>

MainChokeAll ==
    /\ main = "stopping"
    /\ main' = "joining"
    /\ choked' = [s \in Sources |-> TRUE]
    /\ frozen' = [c \in Consumers |->
                    frozen[c] /\ c \notin UNION {FrozenWith[d] : d \in Demuxers}]
    /\ UNCHANGED <<queues, muxing, streams, inputs, task_exited, codecs, dst_finished, pc,
                   todo, local, nb_mux_done, failed, terminate>>

MainJoined ==
    /\ main = "joining"
    /\ \A t \in Tasks : Done(t)
    /\ main' = "stopped"
    /\ UNCHANGED <<queues, muxing, schedule, codecs, dst_finished, pc, todo, local,
                   nb_mux_done, failed, terminate>>

--------------------------------------------------------------------------------
DemuxStep(d) ==
    \/ DemuxSend(d)  \/ DemuxSkip(d)  \/ DemuxReturn(d)
    \/ DemuxFlush(d) \/ FlushSend(d) \/ FlushAwait(d) \/ FlushEof(d)
DecoderStep(t) == DecoderStop(t) \/ DecoderFlush(t) \/ DecoderEndTs(t) \/ NoEndTs(t)
CodecStep(t) == CodecItem(t) \/ CodecEnd(t) \/ (t \in Decoders /\ DecoderStep(t))
MuxStep(m) == MuxItem(m) \/ MuxHangUp(m) \/ MuxEnd(m) \/ MuxReturn(m) \/ MuxDone(m) \/ MuxCount(m)
FilterStep(f) ==
    \/ FilterPrefer(f)  \/ FilterItem(f)   \/ ChokeInputs(f)  \/ CloseInput(f)
    \/ FilterStreamEnd(f) \/ FilterNothing(f) \/ FilterTurn(f) \/ FilterUnconfigured(f)
    \/ FilterRead(f)    \/ FilterFrame(f) \/ FilterConsumersDone(f) \/ CloseOutput(f)
    \/ FilterRequest(f) \/ FilterReturn(f)

\* What the thread of t does when it runs.
TaskStep(t) ==
    \/ Continue(t) \/ Cleanup(t) \/ TaskExited(t)
    \/ t \in Demuxers /\ DemuxStep(t)
    \/ t \in Decoders \cup Encoders /\ CodecStep(t)
    \/ t \in Filters /\ FilterStep(t)
    \/ t \in Muxers /\ MuxStep(t)

MainStep == MainStart \/ MainTerminate \/ MainChokeAll \/ MainJoined

Run == MainStep \/ \E t \in Tasks : TaskStep(t)

Next == Run \/ Interrupt \/ \E t \in Tasks : Fail(t)

Spec == Init /\ [][Next]_vars

\* While some thread can run, one does; no task has to fail and no user to
\* interrupt.  This is less than fairness to every thread, and enough.
FairSpec == Spec /\ WF_vars(Run)

--------------------------------------------------------------------------------
(* Properties. *)

\* Types, and how long the queues can get.
TypeOK ==
    /\ choked \in [Sources -> BOOLEAN] /\ frozen \in [Consumers -> BOOLEAN]
    /\ \A c \in Consumers :
          /\ send_fin[c] \cup recv_fin[c] \subseteq QueueStreams(c)
          /\ \A i \in QueueStreams(c) :
                Cardinality(Queued(c, i)) \in 0 .. QueueSize
    /\ \A ms \in MuxStreams : Len(pre_mux[ms]) \in 0 .. PreMuxSize
    /\ source_finished \cup ready \cup init_eof \subseteq MuxStreams
    /\ mux_started \subseteq Muxers /\ Cardinality(flusher) <= 1
    /\ \A f \in Filters : best_input[f] \in 0 .. NbInputs[f]
    /\ receive_finished \cup send_finished \subseteq FilterInputs
    /\ task_exited \subseteq Sources /\ opened \subseteq Encoders
    /\ nb_mux_done \in 0 .. Cardinality(Muxers)

\* Every stream is written in order, without a gap and without a repetition,
\* although its packets take turns through the pre-muxing queue, the thread
\* that flushes it and the queue of the muxer.
InOrder ==
    [][\A ms \in MuxStreams : written'[ms] \in {written[ms], written[ms] + 1}]_written

\* sch_stop() after a transcoding without failure or interrupt leaves nothing
\* in a queue: every stream has been written to its end.
Complete ==
    main = "stopped" /\ failed = {} /\ ~Interrupts => written = Whole

\* mux_started becomes visible only when no packet is left in the pre-muxing
\* queues, and none is parked there afterwards (send_to_mux() looks again
\* under the lock).
NothingLeftPreMuxed == \A m \in mux_started : PreMuxed(m) = {}

\* tq_send() is never called on a stream whose sending side is finished, which would be
\* EINVAL and fail the task: not by a task that has closed it, nor by one that cannot know
\* that mux_task_start() was told EOF (init_eof), by demux_flush() or by mux_task_start().
NoSendAfterEnd ==
    /\ \A t \in Tasks :
          CallsSend(t) \/ At(t, "flush") => To(t).in \notin send_fin[To(t).task]
    /\ \A x \in flusher : \A ms \in EarliestPreMuxed(x.mux) :
          FlushSends(ms) => ms.in \notin send_fin[ms.task]

\* Once sch_stop() has choked the sources no decoder queue is frozen again, by
\* an update of the schedule that comes late: all decoders can drain.
StopUnfreezes == main \in {"joining", "stopped"} => \A c \in Consumers : ~frozen[c]

\* A stream whose source feeds nothing else stays within the tolerance of the
\* trailing one, but for what is under way from that source to the muxer.
UnderWay(ms) == IF SrcTask(ms.task, ms.in) \in Demuxers THEN 0 ELSE QueueSize + 1

NoRunaway ==
    LET dts == trailing_dts(last_dts, source_finished) IN
    main = "waiting" => \A ms \in MuxStreams \ source_finished :
        \/ Cardinality(Targets(SourceAbove[ms.task][ms.in])) > 1
        \/ last_dts[ms] = NOPTS
        \/ last_dts[ms] <= (IF dts = NOPTS THEN 1 ELSE dts + Tolerance) + UnderWay(ms)

\* sch_filter_receive() disregards the end of a stream, "they should always be
\* preceded by an EOF frame": when all goes well an input that ends has ended
\* in the filtergraph before.
EndFrameComesFirst ==
    failed = {} => \A f \in Filters : Receiving(f) =>
        \A i \in Ends(f) \cap Inputs(f) :
            i \in fg[f].eof \/ [task |-> f, in |-> i] \in receive_finished

\* The end of a stream found no place in the pre-muxing queue and was lost:
\* the muxer will wait for it (see the run sched_premux_full).
EndLost ==
    \E t \in Tasks : \E n \in dst_finished[t] :
        /\ n.task \in Muxers
        /\ n.in \notin send_fin[n.task]
        /\ \A i \in DOMAIN pre_mux[MuxStream(n)] : pre_mux[MuxStream(n)][i] # 0

\* There is always a thread that can go on, without a failure or an interrupt
\* to help: tasks that wait for a place, an item or their turn never form a
\* circle, before, during and after sch_stop().  A lost end is set aside.
SomeoneRuns == main # "stopped" /\ ~EndLost => ENABLED Run

\* Transcoding comes to an end: no two tasks wait for each other for ever, no
\* source stays choked while what it has is needed, and after an interrupt
\* or a failure every thread can be joined.
Terminates == <>(main = "stopped")
================================================================================
