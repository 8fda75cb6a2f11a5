---------------------------- MODULE SchedulerProofs ----------------------------
(***************************************************************************)
(* Theorems about the scheduler, for every graph that                       *)
(* SchedulerGraphAssumption allows, every script and queue size.            *)
(*                                                                          *)
(* After sch_stop() has choked the sources no decoder queue is frozen.      *)
(* What makes that inductive: only queues that follow a demuxer are ever    *)
(* frozen, so that choke_demux(0) for all demuxers reaches every one; and   *)
(* terminate is set before, so that no update of the schedule, however      *)
(* late, freezes one again.                                                 *)
(*                                                                          *)
(* When mux_started becomes visible nothing is left in the pre-muxing       *)
(* queues of the muxer, nor later.  What makes that inductive: the thread   *)
(* that starts a muxer has seen the queues empty, and holds mux_ready_lock, *)
(* without which nothing is parked.                                         *)
(*                                                                          *)
(* A muxer writes every stream in order.  Start from the file and go back   *)
(* to the source: what has been written, what is in the muxer's queue, what *)
(* is parked in the pre-muxing queue and what is yet to be sent join without*)
(* a gap, and end with what the demuxer has read or the encoder has got.    *)
(* An encoder in turn has what its filtergraph has made.  This is claimed   *)
(* for the streams that the muxer still takes; once it has hung up, packets *)
(* are dropped.  It is inductive with two facts: a task has at most one     *)
(* packet yet to send to a place, and no queue holds anything of a stream   *)
(* that its consumer refuses.                                               *)
(*                                                                          *)
(* Nothing is sent on a stream whose sending side is finished.  A task that *)
(* sends knows of every end but the one mux_task_start() was told, and then *)
(* init_eof stops it (EndsInv).  mux_task_start() itself has two ends to    *)
(* fear: one it took from the same pre-muxing queue, behind which nothing   *)
(* is parked, and EOF, after which it drops the rest (ParkedOver).          *)
(***************************************************************************)
EXTENDS SchedulerProtocolProofs

FrozenType == frozen \in [Consumers -> BOOLEAN]

FrozenByDemuxer == \A c \in Consumers : frozen[c] => \E d \in Demuxers : c \in FrozenWith[d]

TerminateFirst == main \in {"stopping", "joining", "stopped"} => terminate

StopInv == FrozenType /\ FrozenByDemuxer /\ TerminateFirst /\ StopUnfreezes

--------------------------------------------------------------------------------
(* The kinds of steps, as far as frozen queues and the end are concerned.   *)

Quiet == UNCHANGED <<frozen, main, terminate>>

\* fz are the queues still frozen when the schedule is updated.
Thawed(fz) == fz \in [Consumers -> BOOLEAN] /\ \A c \in Consumers : fz[c] => frozen[c]

Thaws == Thawed(frozen') /\ UNCHANGED <<main, terminate>>

Updates ==
    /\ \E fz \in [Consumers -> BOOLEAN] : Thawed(fz) /\ schedule_update_locked(fz)
    /\ UNCHANGED terminate
    /\ UNCHANGED main \/ MainStart

Stops == MainTerminate \/ Interrupt \/ MainChokeAll \/ MainJoined

\* Thawing one queue, whichever, leaves a state of the queues as Thawed says.
LEMMA ThawOne ==
    ASSUME FrozenType, NEW x
    PROVE  Thawed([frozen EXCEPT ![x] = FALSE])
BY DEF FrozenType, Thawed

LEMMA ThawNone == ASSUME FrozenType PROVE Thawed(frozen)
BY DEF FrozenType, Thawed

\* An update of the schedule in a step with nothing thawed.
LEMMA UpdateOnly ==
    ASSUME FrozenType, schedule_update_locked(frozen), UNCHANGED <<main, terminate>>
    PROVE  Updates
BY ThawNone DEF Updates, Thawed

--------------------------------------------------------------------------------
(* Every step is of one of these kinds. *)

LEMMA ContinueKinds ==
    ASSUME FrozenType, NEW t \in Tasks, Continue(t)
    PROVE  Quiet \/ Thaws \/ Updates
<1>1. CASE EncOpen(t)
  BY <1>1 DEF EncOpen, Quiet, schedule, ending
<1>2. CASE StreamReady(t)
  BY <1>2 DEF StreamReady, Quiet, schedule, ending
<1>3. CASE FlushStep(t)
  BY <1>3 DEF FlushStep, Quiet, schedule, ending
<1>4. CASE FlushEnd(t)
  BY <1>4 DEF FlushEnd, Quiet, schedule, ending
<1>5. CASE MuxStarted(t)
  BY <1>5 DEF MuxStarted, Quiet, schedule, ending
<1>6. CASE PreMux(t)
  BY <1>6 DEF PreMux, Quiet, schedule, ending
<1>7. CASE PreMuxFull(t)
  BY <1>7 DEF PreMuxFull, Quiet, schedule
<1>8. CASE PreMuxEndLost(t)
  BY <1>8 DEF PreMuxEndLost, Quiet, schedule, ending
<1>9. CASE SendItem(t)
  BY <1>9 DEF SendItem, Quiet, schedule, ending
<1>10. CASE SendEof(t)
  BY <1>10 DEF SendEof, Quiet, schedule, ending
<1>11. CASE Finish(t)
  <2>1. frozen' = [frozen EXCEPT ![To(t).task] = FALSE] /\ UNCHANGED <<main, terminate>>
    BY <1>11 DEF Finish, ending
  <2> QED BY <2>1, ThawOne DEF Thaws, Thawed
<1>12. CASE FinishFilterInput(t)
  <2>1. schedule_update_locked([frozen EXCEPT ![To(t).task] = FALSE])
          /\ UNCHANGED <<main, terminate>>
    BY <1>12 DEF FinishFilterInput, ending
  <2>2. Thawed([frozen EXCEPT ![To(t).task] = FALSE])
    BY ThawOne
  <2> QED BY <2>1, <2>2 DEF Updates, Thawed
<1>13. CASE MuxUpdate(t)
  <2>1. schedule_update_locked(frozen) /\ UNCHANGED <<main, terminate>>
    BY <1>13 DEF MuxUpdate, ending
  <2> QED BY <2>1, UpdateOnly
<1> QED
  BY <1>1, <1>2, <1>3, <1>4, <1>5, <1>6, <1>7, <1>8, <1>9, <1>10, <1>11, <1>12, <1>13
  DEF Continue

LEMMA FilterKinds ==
    ASSUME FrozenType, NEW f \in Filters, FilterStep(f)
    PROVE  Quiet \/ Updates
<1>1. CASE FilterPrefer(f) \/ ChokeInputs(f) \/ CloseInput(f)
  <2>1. schedule_update_locked(frozen) /\ UNCHANGED <<main, terminate>>
    BY <1>1 DEF FilterPrefer, ChokeInputs, CloseInput, ending
  <2> QED BY <2>1, UpdateOnly
<1>2. CASE FilterItem(f) \/ FilterStreamEnd(f) \/ FilterNothing(f) \/ FilterTurn(f)
  BY <1>2 DEF FilterItem, FilterStreamEnd, FilterNothing, FilterTurn, Quiet, schedule, ending
<1>3. CASE FilterUnconfigured(f) \/ FilterRead(f) \/ FilterFrame(f) \/ FilterConsumersDone(f)
  BY <1>3 DEF FilterUnconfigured, FilterRead, FilterFrame, FilterConsumersDone, Quiet,
              schedule, ending
<1>4. CASE CloseOutput(f) \/ FilterRequest(f) \/ FilterReturn(f)
  BY <1>4 DEF CloseOutput, FilterRequest, FilterReturn, Quiet, schedule, ending
<1> QED BY <1>1, <1>2, <1>3, <1>4 DEF FilterStep

LEMMA TaskKinds ==
    ASSUME FrozenType, NEW t \in Tasks, TaskStep(t) \/ Fail(t)
    PROVE  Quiet \/ Thaws \/ Updates
<1>1. CASE Continue(t)
  BY <1>1, ContinueKinds
<1>2. CASE Cleanup(t) \/ Fail(t)
  BY <1>2 DEF Cleanup, Fail, Quiet, schedule, ending
<1>3. CASE TaskExited(t) \/ MuxDone(t)
  <2>1. schedule_update_locked(frozen) /\ UNCHANGED <<main, terminate>>
    BY <1>3 DEF TaskExited, MuxDone, ending
  <2> QED BY <2>1, UpdateOnly
<1>4. CASE DemuxStep(t)
  BY <1>4 DEF DemuxStep, DemuxSend, DemuxSkip, DemuxReturn, DemuxFlush, FlushSend,
              FlushAwait, FlushEof, Quiet, schedule, ending
<1>5. CASE CodecStep(t)
  BY <1>5 DEF CodecStep, CodecItem, CodecEnd, DecoderStep, DecoderStop, DecoderFlush,
              DecoderEndTs, NoEndTs, Quiet, schedule, ending
<1>6. CASE MuxItem(t) \/ MuxHangUp(t) \/ MuxEnd(t) \/ MuxReturn(t) \/ MuxCount(t)
  BY <1>6 DEF MuxItem, MuxHangUp, MuxEnd, MuxReturn, MuxCount, Quiet, schedule, ending
<1>7. CASE t \in Filters /\ FilterStep(t)
  BY <1>7, FilterKinds
<1> QED BY <1>1, <1>2, <1>3, <1>4, <1>5, <1>6, <1>7 DEF TaskStep, MuxStep

LEMMA NextKinds ==
    ASSUME FrozenType, Next
    PROVE  Quiet \/ Thaws \/ Updates \/ Stops
<1>1. CASE \E t \in Tasks : TaskStep(t) \/ Fail(t)
  BY <1>1, TaskKinds
<1>2. CASE MainStart
  BY <1>2, ThawNone DEF MainStart, Updates, Thawed
<1> QED BY <1>1, <1>2 DEF Next, Run, MainStep, Stops

--------------------------------------------------------------------------------
(* What each kind does to the invariant. *)

\* schedule_update_locked() freezes only queues that follow a demuxer, and
\* none at all once terminate is set.
LEMMA UpdateFreezes ==
    ASSUME FrozenByDemuxer, NEW fz, Thawed(fz), schedule_update_locked(fz)
    PROVE  /\ FrozenType' /\ FrozenByDemuxer'
           /\ terminate => \A c \in Consumers : frozen'[c] => frozen[c]
<1>1. CASE terminate
  BY <1>1 DEF schedule_update_locked, Thawed, FrozenType, FrozenByDemuxer
<1>2. CASE ~terminate
  <2>1. PICK run : SetWaiters(run, fz)
    BY <1>2 DEF schedule_update_locked
  <2>2. frozen' = [c \in Consumers |->
            IF \E d \in Demuxers : c \in FrozenWith[d] /\ choked[d] # (d \notin run)
              THEN \E d \in Demuxers : c \in FrozenWith[d] /\ d \notin run
              ELSE fz[c]]
    BY <2>1 DEF SetWaiters
  <2>3. FrozenType'
    BY <2>2 DEF Thawed, FrozenType
  <2>4. ASSUME NEW c \in Consumers, frozen'[c]
        PROVE  \E d \in Demuxers : c \in FrozenWith[d]
    BY <2>2, <2>4 DEF Thawed, FrozenByDemuxer
  <2> QED BY <1>2, <2>3, <2>4 DEF FrozenByDemuxer
<1> QED BY <1>1, <1>2

LEMMA StopInvInit == Init => StopInv
BY DEF Init, StopInv, FrozenType, FrozenByDemuxer, TerminateFirst, StopUnfreezes

LEMMA StopInvNext == StopInv /\ [Next]_vars => StopInv'
<1> SUFFICES ASSUME StopInv, [Next]_vars PROVE StopInv'
  OBVIOUS
<1> USE DEF StopInv
<1>1. CASE Quiet
  BY <1>1 DEF Quiet, FrozenType, FrozenByDemuxer, TerminateFirst, StopUnfreezes
<1>2. CASE Thaws
  BY <1>2 DEF Thaws, Thawed, FrozenType, FrozenByDemuxer, TerminateFirst, StopUnfreezes
<1>3. CASE Updates
  <2>1. /\ FrozenType' /\ FrozenByDemuxer'
        /\ terminate => \A c \in Consumers : frozen'[c] => frozen[c]
    BY <1>3, UpdateFreezes DEF Updates
  <2>2. CASE UNCHANGED main
    BY <1>3, <2>1, <2>2 DEF Updates, TerminateFirst, StopUnfreezes
  <2>3. CASE MainStart
    BY <2>1, <2>3 DEF MainStart, TerminateFirst, StopUnfreezes
  <2> QED BY <1>3, <2>2, <2>3 DEF Updates
<1>4. CASE MainTerminate \/ Interrupt
  BY <1>4 DEF MainTerminate, Interrupt, schedule, FrozenType, FrozenByDemuxer,
              TerminateFirst, StopUnfreezes
<1>5. CASE MainChokeAll
  <2>1. /\ frozen' = [c \in Consumers |->
                         frozen[c] /\ c \notin UNION {FrozenWith[d] : d \in Demuxers}]
        /\ main = "stopping" /\ UNCHANGED terminate
    BY <1>5 DEF MainChokeAll
  <2>2. \A c \in Consumers : ~frozen'[c]
    BY <2>1 DEF FrozenByDemuxer
  <2>3. FrozenType'
    BY <2>1 DEF FrozenType
  <2> QED BY <2>1, <2>2, <2>3 DEF FrozenByDemuxer, TerminateFirst, StopUnfreezes
<1>6. CASE MainJoined
  BY <1>6 DEF MainJoined, schedule, FrozenType, FrozenByDemuxer, TerminateFirst,
              StopUnfreezes
<1>7. CASE UNCHANGED vars
  BY <1>7 DEF vars, schedule, ending, FrozenType, FrozenByDemuxer, TerminateFirst,
              StopUnfreezes
<1> QED BY <1>1, <1>2, <1>3, <1>4, <1>5, <1>6, <1>7, NextKinds DEF Stops

--------------------------------------------------------------------------------
\* Once sch_stop() has choked the sources no queue is frozen, in any such graph and
\* whatever fails: choke_demux(0) reaches every frozen queue, and
\* schedule_update_locked() returns early from then on.
THEOREM NothingFrozenAfterStop == Spec => []StopUnfreezes
<1>1. StopInv => StopUnfreezes
  BY DEF StopInv
<1> QED BY <1>1, StopInvInit, StopInvNext, PTL DEF Spec

--------------------------------------------------------------------------------
PreMuxType == pre_mux = [ms \in MuxStreams |-> pre_mux[ms]]

EmptyMeansEmpty == \A x \in flusher : x.empty => PreMuxed(x.mux) = {}

FlushInv == PreMuxType /\ EmptyMeansEmpty /\ NothingLeftPreMuxed

\* Steps that touch neither the queues nor the lock.
Aside == UNCHANGED <<pre_mux, init_eof, mux_started, flusher>>

LEMMA FilterAside ==
    ASSUME NEW f \in Filters, FilterStep(f)
    PROVE  Aside
<1>1. CASE FilterPrefer(f) \/ ChokeInputs(f) \/ CloseInput(f)
  BY <1>1 DEF FilterPrefer, ChokeInputs, CloseInput, Aside, muxing
<1>2. CASE FilterItem(f) \/ FilterStreamEnd(f) \/ FilterNothing(f) \/ FilterTurn(f)
  BY <1>2 DEF FilterItem, FilterStreamEnd, FilterNothing, FilterTurn, Aside, muxing
<1>3. CASE FilterUnconfigured(f) \/ FilterRead(f) \/ FilterFrame(f) \/ FilterConsumersDone(f)
  BY <1>3 DEF FilterUnconfigured, FilterRead, FilterFrame, FilterConsumersDone, Aside, muxing
<1>4. CASE CloseOutput(f) \/ FilterRequest(f) \/ FilterReturn(f)
  BY <1>4 DEF CloseOutput, FilterRequest, FilterReturn, Aside, muxing
<1> QED BY <1>1, <1>2, <1>3, <1>4 DEF FilterStep

Muxing(t) == StreamReady(t) \/ FlushStep(t) \/ FlushEnd(t) \/ MuxStarted(t) \/ PreMux(t)

\* A task that does not start a muxer and parks nothing leaves both alone.
LEMMA TaskAside ==
    ASSUME NEW t \in Tasks, TaskStep(t) \/ Fail(t), ~Muxing(t)
    PROVE  Aside
<1>1. CASE EncOpen(t)
  BY <1>1 DEF EncOpen, Aside, muxing
<1>2. CASE PreMuxFull(t) \/ PreMuxEndLost(t)
  BY <1>2 DEF PreMuxFull, PreMuxEndLost, Aside, muxing
<1>3. CASE SendItem(t) \/ SendEof(t)
  BY <1>3 DEF SendItem, SendEof, Aside, muxing
<1>4. CASE Finish(t) \/ FinishFilterInput(t) \/ MuxUpdate(t)
  BY <1>4 DEF Finish, FinishFilterInput, MuxUpdate, Aside, muxing
<1>5. CASE Cleanup(t) \/ TaskExited(t) \/ Fail(t)
  BY <1>5 DEF Cleanup, TaskExited, Fail, Aside, muxing
<1>6. CASE DemuxStep(t)
  BY <1>6 DEF DemuxStep, DemuxSend, DemuxSkip, DemuxReturn, DemuxFlush, FlushSend,
              FlushAwait, FlushEof, Aside, muxing
<1>7. CASE CodecStep(t)
  BY <1>7 DEF CodecStep, CodecItem, CodecEnd, DecoderStep, DecoderStop, DecoderFlush,
              DecoderEndTs, NoEndTs, Aside, muxing
<1>8. CASE MuxStep(t)
  BY <1>8 DEF MuxStep, MuxItem, MuxHangUp, MuxEnd, MuxReturn, MuxDone, MuxCount, Aside, muxing
<1>9. CASE t \in Filters /\ FilterStep(t)
  BY <1>9, FilterAside
<1> QED
  BY <1>1, <1>2, <1>3, <1>4, <1>5, <1>6, <1>7, <1>8, <1>9 DEF TaskStep, Continue, Muxing

LEMMA NextAside ==
    ASSUME [Next]_vars, ~(\E t \in Tasks : Muxing(t))
    PROVE  Aside
<1>1. CASE \E t \in Tasks : TaskStep(t) \/ Fail(t)
  BY <1>1, TaskAside
<1>2. CASE MainStep \/ Interrupt
  BY <1>2 DEF MainStep, MainStart, MainTerminate, Interrupt, MainChokeAll, MainJoined,
              Aside, muxing
<1>3. CASE UNCHANGED vars
  BY <1>3 DEF vars, Aside, muxing
<1> QED BY <1>1, <1>2, <1>3 DEF Next, Run

LEMMA FlushInvInit == Init => FlushInv
BY DEF Init, FlushInv, PreMuxType, EmptyMeansEmpty, NothingLeftPreMuxed, PreMuxed

\* Empty queues of a muxer stay empty while those of another one are flushed.
LEMMA FlushKeepsEmpty ==
    ASSUME PreMuxType, NEW t \in Tasks, FlushStep(t), NEW m, PreMuxed(m) = {}
    PROVE  PreMuxType' /\ PreMuxed(m)' = {}
<1>1. PICK x \in flusher : \E ms \in EarliestPreMuxed(x.mux) :
          pre_mux' = [pre_mux EXCEPT ![ms] = Tail(@)]
  BY DEF FlushStep
<1>2. PICK ms \in EarliestPreMuxed(x.mux) : pre_mux' = [pre_mux EXCEPT ![ms] = Tail(@)]
  BY <1>1
<1>3. ms.task # m
  BY <1>2 DEF EarliestPreMuxed, PreMuxed
<1>4. PreMuxType'
  BY <1>2 DEF PreMuxType
<1>5. ASSUME NEW o \in MuxStreams, o.task = m PROVE pre_mux'[o] = <<>>
  <2>1. pre_mux[o] = <<>>
    BY <1>5 DEF PreMuxed
  <2>2. o # ms
    BY <1>3, <1>5
  <2> QED BY <1>2, <2>1, <2>2 DEF PreMuxType
<1> QED BY <1>4, <1>5 DEF PreMuxed

LEMMA FlushInvNext == FlushInv /\ [Next]_vars => FlushInv'
<1> SUFFICES ASSUME FlushInv, [Next]_vars PROVE FlushInv'
  OBVIOUS
<1> USE DEF FlushInv
<1>1. CASE Aside
  BY <1>1 DEF Aside, PreMuxType, EmptyMeansEmpty, NothingLeftPreMuxed, PreMuxed
<1>2. ASSUME NEW t \in Tasks, StreamReady(t) PROVE FlushInv'
  <2>1. UNCHANGED <<pre_mux, mux_started>>
    BY <1>2 DEF StreamReady
  <2>2. flusher' = flusher
          \/ flusher' = {[task |-> t, mux |-> To(t).task, empty |-> FALSE]}
    BY <1>2 DEF StreamReady
  <2>3. EmptyMeansEmpty'
    BY <2>1, <2>2 DEF EmptyMeansEmpty, PreMuxed
  <2> QED BY <2>1, <2>3 DEF PreMuxType, NothingLeftPreMuxed, PreMuxed
<1>3. ASSUME NEW t \in Tasks, FlushStep(t) PROVE FlushInv'
  <2>1. UNCHANGED <<mux_started, flusher>>
    BY <1>3 DEF FlushStep
  <2>2. \A m : PreMuxed(m) = {} => PreMuxed(m)' = {}
    BY <1>3, FlushKeepsEmpty
  <2>3. PreMuxType'
    <3>1. PICK ms : pre_mux' = [pre_mux EXCEPT ![ms] = Tail(@)]
      BY <1>3 DEF FlushStep
    <3> QED BY <3>1 DEF PreMuxType
  <2> QED BY <2>1, <2>2, <2>3 DEF EmptyMeansEmpty, NothingLeftPreMuxed
<1>4. ASSUME NEW t \in Tasks, FlushEnd(t) PROVE FlushInv'
  <2>1. UNCHANGED <<pre_mux, mux_started>>
    BY <1>4 DEF FlushEnd
  <2>2. PICK x \in flusher :
          PreMuxed(x.mux) = {} /\ flusher' = {[task |-> t, mux |-> x.mux, empty |-> TRUE]}
    BY <1>4 DEF FlushEnd
  <2>3. EmptyMeansEmpty'
    BY <2>1, <2>2 DEF EmptyMeansEmpty, PreMuxed
  <2> QED BY <2>1, <2>3 DEF PreMuxType, NothingLeftPreMuxed, PreMuxed
<1>5. ASSUME NEW t \in Tasks, MuxStarted(t) PROVE FlushInv'
  <2>1. PICK x \in flusher : x.empty /\ mux_started' = mux_started \cup {x.mux}
    BY <1>5 DEF MuxStarted
  <2>2. UNCHANGED pre_mux /\ flusher' = {}
    BY <1>5 DEF MuxStarted
  <2>3. PreMuxed(x.mux) = {}
    BY <2>1 DEF EmptyMeansEmpty
  <2> QED BY <2>1, <2>2, <2>3 DEF PreMuxType, EmptyMeansEmpty, NothingLeftPreMuxed, PreMuxed
<1>6. ASSUME NEW t \in Tasks, PreMux(t) PROVE FlushInv'
  <2>1. /\ UNCHANGED <<mux_started, flusher>> /\ flusher = {}
        /\ To(t).task \notin mux_started
    BY <1>6 DEF PreMux, Parking
  <2>2. PICK q : pre_mux' = [pre_mux EXCEPT ![MuxStream(To(t))] = q]
    BY <1>6 DEF PreMux
  <2>3. ASSUME NEW m \in mux_started, NEW o \in MuxStreams, o.task = m
        PROVE  pre_mux'[o] = <<>>
    <3>1. pre_mux[o] = <<>>
      BY <2>3 DEF NothingLeftPreMuxed, PreMuxed
    <3>2. o # MuxStream(To(t))
      BY <2>1, <2>3 DEF MuxStream
    <3> QED BY <2>2, <3>1, <3>2 DEF PreMuxType
  <2>4. PreMuxType'
    BY <2>2 DEF PreMuxType
  <2> QED BY <2>1, <2>3, <2>4 DEF EmptyMeansEmpty, NothingLeftPreMuxed, PreMuxed
<1> QED BY <1>1, <1>2, <1>3, <1>4, <1>5, <1>6, NextAside DEF Muxing

--------------------------------------------------------------------------------
\* mux_started is set only when the pre-muxing queues are empty and nothing is
\* parked afterwards: send_to_mux() looks again under mux_ready_lock, which
\* mux_task_start() is called with.
THEOREM NothingParkedForGood == Spec => []NothingLeftPreMuxed
<1>1. FlushInv => NothingLeftPreMuxed
  BY DEF FlushInv
<1> QED BY <1>1, FlushInvInit, FlushInvNext, PTL DEF Spec

--------------------------------------------------------------------------------
(* The order in which packets get to the muxers. *)

\* The items of stream i in the queue q are numbered a + 1 to b, in this order.
Numbered(q, i, a, b) ==
    /\ a \in Nat /\ b \in Nat /\ a <= b
    /\ \A j \in DOMAIN q : q[j].in = i => q[j].k \in a + 1 .. b
    /\ \A j, l \in DOMAIN q : q[j].in = i /\ q[l].in = i /\ j < l => q[j].k < q[l].k
    /\ \A x \in a + 1 .. b : \E j \in DOMAIN q : q[j].in = i /\ q[j].k = x

LEMMA NumberedNone ==
    ASSUME NEW q \in Seq(Items), NEW i, NEW a \in Nat, \A j \in DOMAIN q : q[j].in # i
    PROVE  Numbered(q, i, a, a)
BY DEF Numbered

LEMMA NumberedAppend ==
    ASSUME NEW q \in Seq(Items), NEW i, NEW a, NEW b, Numbered(q, i, a, b),
           NEW x \in Items, x.in = i => x.k = b + 1
    PROVE  Numbered(Append(q, x), i, a, IF x.in = i THEN b + 1 ELSE b)
<1> DEFINE r == Append(q, x)
<1>1. /\ Len(q) \in Nat /\ DOMAIN q = 1 .. Len(q) /\ DOMAIN r = 1 .. Len(q) + 1
      /\ r[Len(q) + 1] = x /\ \A j \in DOMAIN q : r[j] = q[j]
  OBVIOUS
<1> HIDE DEF r
<1>2. CASE x.in = i
  <2>1. a \in Nat /\ b \in Nat /\ a <= b + 1
    BY DEF Numbered
  <2>2. \A j \in DOMAIN r : r[j].in = i => r[j].k \in a + 1 .. b + 1
    BY <1>1, <1>2 DEF Numbered
  <2>3. \A j, l \in DOMAIN r : r[j].in = i /\ r[l].in = i /\ j < l => r[j].k < r[l].k
    BY <1>1, <1>2 DEF Numbered
  <2>4. \A y \in a + 1 .. b + 1 : \E j \in DOMAIN r : r[j].in = i /\ r[j].k = y
    <3> SUFFICES ASSUME NEW y \in a + 1 .. b + 1
                 PROVE  \E j \in DOMAIN r : r[j].in = i /\ r[j].k = y
      OBVIOUS
    <3>1. CASE y = b + 1
      BY <1>1, <1>2, <3>1
    <3>2. CASE y # b + 1
      <4>1. y \in a + 1 .. b
        BY <2>1, <3>2
      <4>2. PICK j \in DOMAIN q : q[j].in = i /\ q[j].k = y
        BY <4>1 DEF Numbered
      <4> QED BY <1>1, <4>2
    <3> QED BY <3>1, <3>2
  <2> QED BY <1>2, <2>1, <2>2, <2>3, <2>4 DEF Numbered, r
<1>3. CASE x.in # i
  <2>1. \A j \in DOMAIN r : r[j].in = i => j \in DOMAIN q
    BY <1>1, <1>3
  <2>2. \A y \in a + 1 .. b : \E j \in DOMAIN r : r[j].in = i /\ r[j].k = y
    BY <1>1 DEF Numbered
  <2>3. \A j, l \in DOMAIN r : r[j].in = i /\ r[l].in = i /\ j < l => r[j].k < r[l].k
    BY <1>1, <2>1 DEF Numbered
  <2>4. \A j \in DOMAIN r : r[j].in = i => r[j].k \in a + 1 .. b
    BY <1>1, <2>1 DEF Numbered
  <2> QED BY <1>3, <2>2, <2>3, <2>4 DEF Numbered, r
<1> QED BY <1>2, <1>3

LEMMA NumberedTail ==
    ASSUME NEW q \in Seq(Items), q # <<>>, NEW i, NEW a, NEW b, Numbered(q, i, a, b)
    PROVE  IF Head(q).in = i THEN Head(q).k = a + 1 /\ Numbered(Tail(q), i, a + 1, b)
                             ELSE Numbered(Tail(q), i, a, b)
<1> DEFINE r == Tail(q)  h == Head(q)
<1>1. /\ Len(q) \in Nat /\ DOMAIN q = 1 .. Len(q) /\ DOMAIN r = 1 .. Len(q) - 1 /\ Len(q) > 0
      /\ h = q[1] /\ \A j \in DOMAIN r : r[j] = q[j + 1]
  OBVIOUS
<1>2. a \in Nat /\ b \in Nat /\ a <= b
  BY DEF Numbered
<1> HIDE DEF r, h
<1>3. \A j, l \in DOMAIN r : r[j].in = i /\ r[l].in = i /\ j < l => r[j].k < r[l].k
  <2> SUFFICES ASSUME NEW j \in DOMAIN r, NEW l \in DOMAIN r, r[j].in = i, r[l].in = i, j < l
               PROVE  r[j].k < r[l].k
    OBVIOUS
  <2>1. j + 1 \in DOMAIN q /\ l + 1 \in DOMAIN q /\ j + 1 < l + 1
    BY <1>1
  <2> QED BY <1>1, <2>1 DEF Numbered
<1>4. \A j \in DOMAIN r : j + 1 \in DOMAIN q /\ j + 1 > 1 /\ 1 \in DOMAIN q
  BY <1>1
<1>5. \A j \in DOMAIN q : j # 1 => j - 1 \in DOMAIN r /\ r[j - 1] = q[j]
  <2> SUFFICES ASSUME NEW j \in DOMAIN q, j # 1 PROVE j - 1 \in DOMAIN r /\ r[j - 1] = q[j]
    OBVIOUS
  <2>1. j - 1 \in DOMAIN r /\ (j - 1) + 1 = j
    BY <1>1
  <2> QED BY <1>1, <2>1
<1>6. CASE h.in = i
  <2>1. h.k \in a + 1 .. b
    BY <1>1, <1>6 DEF Numbered
  <2>2. h.k = a + 1
    <3>1. PICK j \in DOMAIN q : q[j].in = i /\ q[j].k = a + 1
      BY <1>2, <2>1 DEF Numbered
    <3>2. CASE j # 1
      <4>1. 1 < j /\ 1 \in DOMAIN q
        BY <1>1, <3>2
      <4>2. h.k < a + 1
        BY <1>1, <1>6, <3>1, <4>1 DEF Numbered
      <4> QED BY <1>2, <2>1, <4>2
    <3> QED BY <1>1, <3>1, <3>2
  <2>3. \A j \in DOMAIN r : r[j].in = i => r[j].k \in (a + 1) + 1 .. b
    <3> SUFFICES ASSUME NEW j \in DOMAIN r, r[j].in = i PROVE r[j].k \in (a + 1) + 1 .. b
      OBVIOUS
    <3>1. h.k < q[j + 1].k /\ q[j + 1].k \in a + 1 .. b
      BY <1>1, <1>4, <1>6 DEF Numbered
    <3> QED BY <1>1, <1>2, <2>2, <3>1
  <2>4. \A y \in (a + 1) + 1 .. b : \E j \in DOMAIN r : r[j].in = i /\ r[j].k = y
    <3> SUFFICES ASSUME NEW y \in (a + 1) + 1 .. b
                 PROVE  \E j \in DOMAIN r : r[j].in = i /\ r[j].k = y
      OBVIOUS
    <3>1. y \in a + 1 .. b /\ y # a + 1
      BY <1>2
    <3>2. PICK j \in DOMAIN q : q[j].in = i /\ q[j].k = y
      BY <3>1 DEF Numbered
    <3>3. j # 1
      BY <1>1, <2>2, <3>1, <3>2
    <3> QED BY <1>5, <3>2, <3>3
  <2>5. a + 1 \in Nat /\ a + 1 <= b
    BY <1>2, <2>1
  <2>6. Numbered(r, i, a + 1, b)
    BY <1>2, <1>3, <2>3, <2>4, <2>5 DEF Numbered
  <2> QED BY <1>6, <2>2, <2>6 DEF r, h
<1>7. CASE h.in # i
  <2>1. \A j \in DOMAIN r : r[j].in = i => r[j].k \in a + 1 .. b
    BY <1>1, <1>4 DEF Numbered
  <2>2. \A y \in a + 1 .. b : \E j \in DOMAIN r : r[j].in = i /\ r[j].k = y
    <3> SUFFICES ASSUME NEW y \in a + 1 .. b
                 PROVE  \E j \in DOMAIN r : r[j].in = i /\ r[j].k = y
      OBVIOUS
    <3>1. PICK j \in DOMAIN q : q[j].in = i /\ q[j].k = y
      BY DEF Numbered
    <3>2. j # 1
      BY <1>1, <1>7, <3>1
    <3> QED BY <1>5, <3>1, <3>2
  <2>3. Numbered(r, i, a, b)
    BY <1>2, <1>3, <2>1, <2>2 DEF Numbered
  <2> QED BY <1>7, <2>3 DEF r, h
<1> QED BY <1>6, <1>7 DEF h

\* Other streams stay when the items of some are dropped.
LEMMA NumberedKept ==
    ASSUME NEW q \in Seq(Items), NEW i, NEW a, NEW b, Numbered(q, i, a, b), NEW S, i \notin S
    PROVE  Numbered(Subsequence(q, {j \in DOMAIN q : q[j].in \notin S}), i, a, b)
<1> DEFINE I == {j \in DOMAIN q : q[j].in \notin S}
           r == Subsequence(q, I)
<1>1. r \in Seq(Items) /\ Len(r) = Cardinality(I)
  BY SubsequenceIs
<1>2. PICK at : Picks(at, r, q, I)
  BY SubsequenceIs
<1> HIDE DEF r
<1>3. /\ \A k \in DOMAIN r : at[k] \in DOMAIN q /\ r[k] = q[at[k]]
      /\ \A k, l \in DOMAIN r : k < l => at[k] < at[l]
  BY <1>1, <1>2 DEF Picks
<1>4. \A j \in DOMAIN q : q[j].in = i => \E k \in DOMAIN r : at[k] = j
  <2>1. \A j \in DOMAIN q : q[j].in = i => j \in I
    OBVIOUS
  <2>2. DOMAIN r = 1 .. Cardinality(I)
    BY <1>1
  <2> HIDE DEF I
  <2> QED BY <1>2, <2>1, <2>2 DEF Picks
<1> HIDE DEF I
<1>5. \A j \in DOMAIN r : r[j].in = i => r[j].k \in a + 1 .. b
  BY <1>3 DEF Numbered
<1>6. \A j, l \in DOMAIN r : r[j].in = i /\ r[l].in = i /\ j < l => r[j].k < r[l].k
  BY <1>3 DEF Numbered
<1>7. \A x \in a + 1 .. b : \E j \in DOMAIN r : r[j].in = i /\ r[j].k = x
  BY <1>3, <1>4 DEF Numbered
<1>8. Numbered(r, i, a, b)
  BY <1>5, <1>6, <1>7 DEF Numbered
<1> QED BY <1>8 DEF r, I

\* So are the packets in the pre-muxing queue q.
Parked(q, a, b) ==
    /\ a \in Nat /\ b \in Nat /\ a <= b
    /\ \A j \in DOMAIN q : q[j] # 0 => q[j] \in a + 1 .. b
    /\ \A j, l \in DOMAIN q : q[j] # 0 /\ q[l] # 0 /\ j < l => q[j] < q[l]
    /\ \A x \in a + 1 .. b : \E j \in DOMAIN q : q[j] = x

LEMMA ParkedNone ==
    /\ \A a \in Nat : Parked(<<>>, a, a)
    /\ \A a, b : Parked(<<>>, a, b) => a = b
<1>1. \A j \in DOMAIN <<>> : FALSE
  OBVIOUS
<1>2. \A a \in Nat : Parked(<<>>, a, a)
  BY <1>1 DEF Parked
<1>3. ASSUME NEW a, NEW b, Parked(<<>>, a, b) PROVE a = b
  <2>1. a \in Nat /\ b \in Nat /\ a <= b /\ ~(a + 1 \in a + 1 .. b)
    BY <1>1, <1>3 DEF Parked
  <2> QED BY <2>1
<1> QED BY <1>2, <1>3

LEMMA ParkedAppend ==
    ASSUME NEW q \in Seq(Int), NEW a, NEW b, Parked(q, a, b), NEW x \in Int, x # 0 => x = b + 1
    PROVE  Parked(Append(q, x), a, IF x = 0 THEN b ELSE b + 1)
<1> DEFINE r == Append(q, x)
<1>1. /\ Len(q) \in Nat /\ DOMAIN q = 1 .. Len(q) /\ DOMAIN r = 1 .. Len(q) + 1
      /\ r[Len(q) + 1] = x /\ \A j \in DOMAIN q : r[j] = q[j]
  OBVIOUS
<1>2. a \in Nat /\ b \in Nat /\ a <= b
  BY DEF Parked
<1> HIDE DEF r
<1>3. CASE x # 0
  <2>1. \A j \in DOMAIN r : r[j] # 0 => r[j] \in a + 1 .. b + 1
    BY <1>1, <1>2, <1>3 DEF Parked
  <2>2. \A j, l \in DOMAIN r : r[j] # 0 /\ r[l] # 0 /\ j < l => r[j] < r[l]
    <3> SUFFICES ASSUME NEW j \in DOMAIN r, NEW l \in DOMAIN r, r[j] # 0, r[l] # 0, j < l
                 PROVE  r[j] < r[l]
      OBVIOUS
    <3>1. j \in DOMAIN q /\ r[j] = q[j] /\ q[j] \in a + 1 .. b
      BY <1>1 DEF Parked
    <3>2. CASE l \in DOMAIN q
      BY <1>1, <3>1, <3>2 DEF Parked
    <3>3. CASE l \notin DOMAIN q
      <4>1. r[l] = b + 1
        BY <1>1, <1>3, <3>3
      <4> QED BY <1>2, <3>1, <4>1
    <3> QED BY <3>2, <3>3
  <2>3. \A y \in a + 1 .. b + 1 : \E j \in DOMAIN r : r[j] = y
    <3> SUFFICES ASSUME NEW y \in a + 1 .. b + 1 PROVE \E j \in DOMAIN r : r[j] = y
      OBVIOUS
    <3>1. CASE y = b + 1
      BY <1>1, <1>3, <3>1
    <3>2. CASE y # b + 1
      <4>1. y \in a + 1 .. b
        BY <1>2, <3>2
      <4>2. PICK j \in DOMAIN q : q[j] = y
        BY <4>1 DEF Parked
      <4> QED BY <1>1, <4>2
    <3> QED BY <3>1, <3>2
  <2>4. b + 1 \in Nat /\ a <= b + 1
    BY <1>2
  <2>5. Parked(r, a, b + 1)
    BY <1>2, <2>1, <2>2, <2>3, <2>4 DEF Parked
  <2> QED BY <1>3, <2>5 DEF r
<1>4. CASE x = 0
  <2>1. \A j \in DOMAIN r : r[j] # 0 => j \in DOMAIN q
    BY <1>1, <1>4
  <2>2. \A j \in DOMAIN r : r[j] # 0 => r[j] \in a + 1 .. b
    BY <1>1, <2>1 DEF Parked
  <2>3. \A j, l \in DOMAIN r : r[j] # 0 /\ r[l] # 0 /\ j < l => r[j] < r[l]
    BY <1>1, <2>1 DEF Parked
  <2>4. \A y \in a + 1 .. b : \E j \in DOMAIN r : r[j] = y
    BY <1>1 DEF Parked
  <2> QED BY <1>2, <1>4, <2>2, <2>3, <2>4 DEF Parked, r
<1> QED BY <1>3, <1>4

LEMMA ParkedTail ==
    ASSUME NEW q \in Seq(Int), q # <<>>, NEW a, NEW b, Parked(q, a, b)
    PROVE  IF Head(q) # 0 THEN Head(q) = a + 1 /\ Parked(Tail(q), a + 1, b)
                          ELSE Parked(Tail(q), a, b)
<1> DEFINE r == Tail(q)  h == Head(q)
<1>1. /\ Len(q) \in Nat /\ DOMAIN q = 1 .. Len(q) /\ DOMAIN r = 1 .. Len(q) - 1 /\ Len(q) > 0
      /\ h = q[1] /\ \A j \in DOMAIN r : r[j] = q[j + 1]
  OBVIOUS
<1>2. a \in Nat /\ b \in Nat /\ a <= b
  BY DEF Parked
<1> HIDE DEF r, h
<1>3. \A j, l \in DOMAIN r : r[j] # 0 /\ r[l] # 0 /\ j < l => r[j] < r[l]
  <2> SUFFICES ASSUME NEW j \in DOMAIN r, NEW l \in DOMAIN r, r[j] # 0, r[l] # 0, j < l
               PROVE  r[j] < r[l]
    OBVIOUS
  <2>1. j + 1 \in DOMAIN q /\ l + 1 \in DOMAIN q /\ j + 1 < l + 1
    BY <1>1
  <2> QED BY <1>1, <2>1 DEF Parked
<1>4. \A j \in DOMAIN r : j + 1 \in DOMAIN q /\ j + 1 > 1 /\ 1 \in DOMAIN q
  BY <1>1
<1>5. \A j \in DOMAIN q : j # 1 => j - 1 \in DOMAIN r /\ r[j - 1] = q[j]
  <2> SUFFICES ASSUME NEW j \in DOMAIN q, j # 1 PROVE j - 1 \in DOMAIN r /\ r[j - 1] = q[j]
    OBVIOUS
  <2>1. j - 1 \in DOMAIN r /\ (j - 1) + 1 = j
    BY <1>1
  <2> QED BY <1>1, <2>1
<1>6. CASE h # 0
  <2>1. h \in a + 1 .. b
    BY <1>1, <1>6 DEF Parked
  <2>2. h = a + 1
    <3>1. PICK j \in DOMAIN q : q[j] = a + 1
      BY <1>2, <2>1 DEF Parked
    <3>2. CASE j # 1
      <4>1. 1 < j /\ 1 \in DOMAIN q /\ q[j] # 0
        BY <1>1, <1>2, <3>1, <3>2
      <4>2. h < a + 1
        BY <1>1, <1>6, <3>1, <4>1 DEF Parked
      <4> QED BY <1>2, <2>1, <4>2
    <3> QED BY <1>1, <3>1, <3>2
  <2>3. \A j \in DOMAIN r : r[j] # 0 => r[j] \in (a + 1) + 1 .. b
    <3> SUFFICES ASSUME NEW j \in DOMAIN r, r[j] # 0 PROVE r[j] \in (a + 1) + 1 .. b
      OBVIOUS
    <3>1. h < q[j + 1] /\ q[j + 1] \in a + 1 .. b
      BY <1>1, <1>4, <1>6 DEF Parked
    <3> QED BY <1>1, <1>2, <2>2, <3>1
  <2>4. \A y \in (a + 1) + 1 .. b : \E j \in DOMAIN r : r[j] = y
    <3> SUFFICES ASSUME NEW y \in (a + 1) + 1 .. b PROVE \E j \in DOMAIN r : r[j] = y
      OBVIOUS
    <3>1. y \in a + 1 .. b /\ y # a + 1
      BY <1>2
    <3>2. PICK j \in DOMAIN q : q[j] = y
      BY <3>1 DEF Parked
    <3>3. j # 1
      BY <1>1, <2>2, <3>1, <3>2
    <3> QED BY <1>5, <3>2, <3>3
  <2>5. a + 1 \in Nat /\ a + 1 <= b
    BY <1>2, <2>1
  <2>6. Parked(r, a + 1, b)
    BY <1>2, <1>3, <2>3, <2>4, <2>5 DEF Parked
  <2> QED BY <1>6, <2>2, <2>6 DEF r, h
<1>7. CASE h = 0
  <2>1. \A j \in DOMAIN r : r[j] # 0 => r[j] \in a + 1 .. b
    BY <1>1, <1>4 DEF Parked
  <2>2. \A y \in a + 1 .. b : \E j \in DOMAIN r : r[j] = y
    <3> SUFFICES ASSUME NEW y \in a + 1 .. b PROVE \E j \in DOMAIN r : r[j] = y
      OBVIOUS
    <3>1. PICK j \in DOMAIN q : q[j] = y
      BY DEF Parked
    <3>2. y # 0
      BY <1>2
    <3>3. j # 1
      BY <1>1, <1>7, <3>1, <3>2
    <3> QED BY <1>5, <3>1, <3>3
  <2>3. Parked(r, a, b)
    BY <1>2, <1>3, <2>1, <2>2 DEF Parked
  <2> QED BY <1>7, <2>3 DEF r, h
<1> QED BY <1>6, <1>7 DEF h

--------------------------------------------------------------------------------
(* What a task has yet to send. *)

IsSend(o, n) == o.op = "send" /\ o.to = n

\* The numbers of what the operations q send to n ...
Sending(q, n) == {q[j].k : j \in {i \in DOMAIN q : IsSend(q[i], n)}}

\* ... of which there is never more than one.
SentOnce(q) ==
    \A j, l \in DOMAIN q :
        q[j].op = "send" /\ q[l].op = "send" /\ q[j].to = q[l].to => j = l

ToSend(t, n) == Sending(todo[t], n)

LEMMA SendingNone ==
    ASSUME NEW q, \A j \in DOMAIN q : q[j].op # "send"
    PROVE  SentOnce(q) /\ \A n : Sending(q, n) = {}
BY DEF SentOnce, Sending, IsSend

LEMMA SendingNothing == SentOnce(<<>>) /\ \A n : Sending(<<>>, n) = {}
<1>1. \A j \in DOMAIN <<>> : FALSE
  OBVIOUS
<1> QED BY <1>1 DEF SentOnce, Sending, IsSend

LEMMA SendingJoined ==
    ASSUME NEW pre \in Seq(Ops), NEW s \in Seq(Ops), NEW n, \A j \in DOMAIN pre : pre[j].op # "send"
    PROVE  Sending(pre \o s, n) = Sending(s, n)
<1> DEFINE r == pre \o s
<1>1. /\ Len(pre) \in Nat /\ Len(s) \in Nat
      /\ DOMAIN pre = 1 .. Len(pre) /\ DOMAIN s = 1 .. Len(s) /\ DOMAIN r = 1 .. Len(pre) + Len(s)
  OBVIOUS
<1>2. \A j \in DOMAIN pre : r[j] = pre[j]
  BY <1>1
<1>3. \A j \in DOMAIN s : Len(pre) + j \in DOMAIN r /\ r[Len(pre) + j] = s[j]
  BY <1>1
<1> HIDE DEF r
<1>4. \A l \in DOMAIN r : l \notin DOMAIN pre => l - Len(pre) \in DOMAIN s /\ r[l] = s[l - Len(pre)]
  <2> SUFFICES ASSUME NEW l \in DOMAIN r, l \notin DOMAIN pre
               PROVE  l - Len(pre) \in DOMAIN s /\ r[l] = s[l - Len(pre)]
    OBVIOUS
  <2>1. l - Len(pre) \in DOMAIN s /\ Len(pre) + (l - Len(pre)) = l
    BY <1>1
  <2> QED BY <1>3, <2>1
<1>5. ASSUME NEW l \in DOMAIN r, IsSend(r[l], n) PROVE r[l].k \in Sending(s, n)
  BY <1>2, <1>4, <1>5 DEF Sending, IsSend
<1>6. ASSUME NEW j \in DOMAIN s, IsSend(s[j], n) PROVE s[j].k \in Sending(r, n)
  BY <1>3, <1>6 DEF Sending
<1>7. Sending(r, n) = Sending(s, n)
  BY <1>5, <1>6 DEF Sending
<1> QED BY <1>7 DEF r

LEMMA SendingTail ==
    ASSUME NEW q \in Seq(Ops), q # <<>>, NEW n
    PROVE  IF IsSend(q[1], n)
             THEN SentOnce(q) => Sending(q, n) = {q[1].k} /\ Sending(Tail(q), n) = {}
             ELSE Sending(Tail(q), n) = Sending(q, n)
<1> DEFINE r == Tail(q)
<1>1. /\ Len(q) \in Nat /\ DOMAIN q = 1 .. Len(q) /\ DOMAIN r = 1 .. Len(q) - 1 /\ 1 \in DOMAIN q
      /\ \A j \in DOMAIN r : r[j] = q[j + 1] /\ j + 1 \in DOMAIN q /\ j + 1 # 1
  OBVIOUS
<1> HIDE DEF r
<1>2. \A j \in DOMAIN q : j # 1 => j - 1 \in DOMAIN r /\ r[j - 1] = q[j]
  <2> SUFFICES ASSUME NEW j \in DOMAIN q, j # 1 PROVE j - 1 \in DOMAIN r /\ r[j - 1] = q[j]
    OBVIOUS
  <2>1. j - 1 \in DOMAIN r /\ (j - 1) + 1 = j
    BY <1>1
  <2> QED BY <1>1, <2>1
<1>3. ASSUME IsSend(q[1], n), SentOnce(q) PROVE Sending(q, n) = {q[1].k} /\ Sending(r, n) = {}
  <2>1. \A j \in DOMAIN q : IsSend(q[j], n) => j = 1
    BY <1>1, <1>3 DEF SentOnce, IsSend
  <2>2. \A j \in DOMAIN r : ~IsSend(r[j], n)
    BY <1>1, <2>1
  <2> QED BY <1>1, <1>3, <2>1, <2>2 DEF Sending
<1>4. ASSUME ~IsSend(q[1], n) PROVE Sending(r, n) = Sending(q, n)
  <2>1. ASSUME NEW j \in DOMAIN q, IsSend(q[j], n) PROVE q[j].k \in Sending(r, n)
    BY <1>2, <1>4, <2>1 DEF Sending
  <2>2. ASSUME NEW j \in DOMAIN r, IsSend(r[j], n) PROVE r[j].k \in Sending(q, n)
    BY <1>1, <2>2 DEF Sending
  <2> QED BY <2>1, <2>2 DEF Sending
<1> QED BY <1>3, <1>4 DEF r

LEMMA SendingApart ==
    ASSUME NEW q \in Seq(Ops), NEW x \in Ops, x.op # "send", NEW n,
           NEW I \in SUBSET DOMAIN q, \A j \in DOMAIN q : IsSend(q[j], n) => j \in I
    PROVE  Sending(<<x>> \o Subsequence(q, I), n) = Sending(q, n)
<1> DEFINE r == Subsequence(q, I)
<1>1. r \in Seq(Ops) /\ Len(r) = Cardinality(I)
  BY SubsequenceIs
<1>2. PICK at : Picks(at, r, q, I)
  BY SubsequenceIs
<1>3. <<x>> \in Seq(Ops) /\ \A j \in DOMAIN <<x>> : <<x>>[j].op # "send"
  OBVIOUS
<1>4. \A j \in DOMAIN q : IsSend(q[j], n) => j \in I
  OBVIOUS
<1>5. \A j \in I : j \in DOMAIN q
  OBVIOUS
<1> HIDE DEF r
<1>6. DOMAIN r = 1 .. Cardinality(I)
  BY <1>1
<1>7. ASSUME NEW j \in DOMAIN q, IsSend(q[j], n) PROVE q[j].k \in Sending(r, n)
  <2>1. PICK l \in DOMAIN r : at[l] = j
    BY <1>2, <1>4, <1>6, <1>7 DEF Picks
  <2>2. r[l] = q[j]
    BY <1>2, <1>6, <2>1 DEF Picks
  <2> QED BY <1>7, <2>2 DEF Sending
<1>8. ASSUME NEW l \in DOMAIN r, IsSend(r[l], n) PROVE r[l].k \in Sending(q, n)
  <2>1. at[l] \in DOMAIN q /\ r[l] = q[at[l]]
    BY <1>2, <1>5, <1>6 DEF Picks
  <2> QED BY <1>8, <2>1 DEF Sending
<1>9. Sending(r, n) = Sending(q, n)
  BY <1>7, <1>8 DEF Sending
<1>10. Sending(<<x>> \o r, n) = Sending(r, n)
  BY <1>1, <1>3, SendingJoined
<1> QED BY <1>9, <1>10 DEF r

\* A packet goes once to each of the destinations.
LEMMA SendingEach ==
    ASSUME NEW t \in Tasks, NEW N, NEW k \in Int
    PROVE  LET q == ForEach(DstWith(t, N), "send", k) IN
           /\ SentOnce(q)
           /\ \A n \in Targets(t) : Sending(q, n) = IF n \in N THEN {k} ELSE {}
<1> DEFINE I == {j \in DOMAIN Dst[t] : Dst[t][j] \in N}
           d == Subsequence(Dst[t], I)
           q == ForEach(DstWith(t, N), "send", k)
<1>1. q = [j \in DOMAIN d |-> [op |-> "send", to |-> d[j], k |-> k]]
  BY DEF ForEach, DstWith, Op
<1>2. Dst[t] \in Seq(EdgeRecords)
  BY DstIs
<1>3. d \in Seq(EdgeRecords) /\ Len(d) = Cardinality(I)
  BY <1>2, SubsequenceIs
<1>4. PICK at : Picks(at, d, Dst[t], I)
  BY <1>2, SubsequenceIs
<1>5. \A j \in I : j \in DOMAIN Dst[t] /\ Dst[t][j] \in N
  OBVIOUS
<1>6. \A n \in Targets(t) : n \in N => \E j \in I : Dst[t][j] = n
  BY DEF Targets
<1>7. Cardinality(I) \in Nat
  BY <1>3
<1> HIDE DEF d, I, q
<1>8. DOMAIN d = 1 .. Cardinality(I)
  BY <1>3
<1>9. /\ DOMAIN q = DOMAIN d
      /\ \A j \in DOMAIN q : q[j].op = "send" /\ q[j].to = d[j] /\ q[j].k = k
  BY <1>1
<1>10. \A j \in DOMAIN d : d[j] = Dst[t][at[j]] /\ at[j] \in I
  BY <1>4, <1>8 DEF Picks
<1>11. SentOnce(q)
  <2> SUFFICES ASSUME NEW j \in DOMAIN q, NEW l \in DOMAIN q, q[j].to = q[l].to PROVE j = l
    BY DEF SentOnce
  <2>1. at[j] = at[l]
    BY <1>5, <1>9, <1>10, OnePlace
  <2>2. j \in Nat /\ l \in Nat /\ ~(j < l) /\ ~(l < j)
    <3>1. j \in 1 .. Cardinality(I) /\ l \in 1 .. Cardinality(I)
      BY <1>8, <1>9
    <3>2. j < l => at[j] < at[l]
      BY <1>4, <3>1 DEF Picks
    <3>3. l < j => at[l] < at[j]
      BY <1>4, <3>1 DEF Picks
    <3>4. at[j] \in Nat
      BY <1>2, <1>5, <1>9, <1>10
    <3> QED BY <1>7, <2>1, <3>1, <3>2, <3>3, <3>4
  <2> QED BY <2>2
<1>12. ASSUME NEW n \in Targets(t) PROVE Sending(q, n) = IF n \in N THEN {k} ELSE {}
  <2>1. CASE n \in N
    <3>1. PICK i \in I : Dst[t][i] = n
      BY <1>6, <2>1
    <3>2. PICK j \in DOMAIN d : at[j] = i
      BY <1>4, <1>8, <3>1 DEF Picks
    <3>3. j \in DOMAIN q /\ IsSend(q[j], n)
      BY <1>9, <1>10, <3>1, <3>2 DEF IsSend
    <3> QED BY <1>9, <2>1, <3>3 DEF Sending
  <2>2. CASE n \notin N
    <3>1. \A j \in DOMAIN q : ~IsSend(q[j], n)
      BY <1>5, <1>9, <1>10, <2>2 DEF IsSend
    <3> QED BY <2>2, <3>1 DEF Sending
  <2> QED BY <2>1, <2>2
<1> QED BY <1>11, <1>12 DEF q

\* Operations that go on stay apart.
LEMMA OnceMoves ==
    ASSUME TodoType, NEW t \in Tasks, NEW n, NEW I \in SUBSET DOMAIN todo[t], Moves(t, n, I),
           SentOnce(todo[t]), \A j \in 1 .. n : todo'[t][j].op # "send"
    PROVE  SentOnce(todo'[t])
<1> DEFINE r == todo'[t]  q == todo[t]
<1>1. Len(r) \in Nat /\ DOMAIN r = 1 .. Len(r) /\ n \in 0 .. Len(r)
  BY DEF Moves
<1>2. PICK at \in [n + 1 .. Len(r) -> I] :
        /\ \A k \in n + 1 .. Len(r) : r[k] = q[at[k]]
        /\ \A k, l \in n + 1 .. Len(r) : k < l => at[k] < at[l]
  BY DEF Moves, Follows
<1>3. \A j \in I : j \in DOMAIN q /\ j \in Nat
  BY DEF TodoType
<1> HIDE DEF r
<1>4. ASSUME NEW j \in DOMAIN r, NEW l \in DOMAIN r, r[j].op = "send", r[l].op = "send",
             r[j].to = r[l].to
      PROVE  j = l
  <2>1. j \in n + 1 .. Len(r) /\ l \in n + 1 .. Len(r)
    BY <1>1, <1>4 DEF r
  <2>2. at[j] = at[l]
    BY <1>2, <1>3, <1>4, <2>1 DEF SentOnce
  <2>3. ~(j < l) /\ ~(l < j)
    BY <1>2, <1>3, <2>1, <2>2
  <2> QED BY <1>1, <2>3
<1>5. SentOnce(r)
  BY <1>4 DEF SentOnce
<1> QED BY <1>5 DEF r

\* When one task goes on the others have to do what they had.
LEMMA OneActs ==
    ASSUME TypeInv, NEW t \in Tasks, Acts(t), NEW u \in Tasks, u # t
    PROVE  todo'[u] = todo[u]
<1>1. \E n : \E I \in SUBSET DOMAIN todo[t] : Moves(t, n, I)
  BY ActsMoves DEF TypeInv, PcType, PosIs
<1> QED BY <1>1, MovedFrom DEF TypeInv

SendsOnce == \A t \in Tasks : SentOnce(todo[t])

LEMMA EntryIs ==
    ASSUME NEW S, NEW s \in Seq(S), NEW j \in DOMAIN s
    PROVE  s[j] \in S
OBVIOUS

\* What a task begins with goes once to each destination.
LEMMA BeginsOnce ==
    ASSUME TypeInv, NEW t \in Tasks, Begins(t)
    PROVE  SentOnce(todo'[t])
<1>1. todo \in [Tasks -> Seq(Ops)] /\ TodoType /\ QueueInv /\ GraphType /\ PosIs
  BY DEF TypeInv, TodoType
<1>2. ASSUME NEW N, NEW k \in Int, todo' = [todo EXCEPT ![t] = ForEach(DstWith(t, N), "send", k)]
      PROVE  SentOnce(todo'[t])
  BY <1>1, <1>2, SendingEach
<1>3. CASE t \in Demuxers /\ DemuxSend(t)
  <2>1. NextPacket(t).k \in Int
    <3>1. Script[t] \in Seq([out : Int, k : Int]) /\ pos[t] \in 0 .. Len(Script[t])
      BY <1>1, <1>3, SchedulerAssumption DEF PosIs, PosType
    <3>2. pos[t] + 1 \in DOMAIN Script[t]
      BY <1>3, <3>1 DEF DemuxSend, AtEnd
    <3>3. Script[t][pos[t] + 1] \in [out : Int, k : Int]
      BY <3>1, <3>2, EntryIs
    <3> QED BY <3>3 DEF NextPacket
  <2> QED BY <1>2, <1>3, <2>1 DEF DemuxSend, OpenDstOf
<1>4. CASE t \in Decoders \cup Encoders /\ CodecItem(t)
  <2>1. queue[t] # <<>> /\ t \in Consumers
    BY <1>4 DEF CodecItem, TakeItem, HasItem, Consumers
  <2>2. Head(queue[t]).k \in Int
    BY <1>1, <2>1, HeadItem DEF Items
  <2> QED BY <1>2, <1>4, <2>2 DEF CodecItem, OpenDst
<1>5. CASE t \in Decoders /\ CodecEnd(t)
  <2> DEFINE N == Targets(t) \ dst_finished[t]
             k == 0
  <2>1. k \in Int /\ todo' = [todo EXCEPT ![t] = ForEach(DstWith(t, N), "send", k)]
    BY <1>5 DEF CodecEnd, OpenDst
  <2> HIDE DEF N, k
  <2> QED BY <1>2, <2>1
<1>6. CASE t \in Filters /\ FilterFrame(t)
  <2>1. fg[t].made + 1 \in Int
    BY <1>1, <1>6 DEF GraphType, GraphIs, Graph
  <2> QED BY <1>2, <1>6, <2>1 DEF FilterFrame
<1>7. CASE t \in Filters /\ CloseOutput(t)
  BY <1>1, <1>7, FreshClose DEF SentOnce
<1>8. CASE Cleanup(t)
  BY <1>1, <1>8, FreshCleanup DEF SentOnce, SendOps, TypeInv, PcType
<1>9. CASE t \in Demuxers /\ DemuxFlush(t)
  BY <1>1, <1>9, FreshFlush DEF SentOnce
<1> QED BY <1>3, <1>4, <1>5, <1>6, <1>7, <1>8, <1>9 DEF Begins

LEMMA SendsOnceNext ==
    ASSUME TypeInv, SendsOnce, [Next]_vars
    PROVE  SendsOnce'
<1>1. TodoType
  BY DEF TypeInv
<1> SUFFICES ASSUME NEW t \in Tasks, Acts(t) PROVE SentOnce(todo'[t])
  BY OthersAct DEF SendsOnce
<1>2. SentOnce(todo[t])
  BY DEF SendsOnce
<1>3. CASE Neutral(t)
  <2>1. PICK n : \E I \in SUBSET DOMAIN todo[t] :
          Moves(t, n, I) /\ \A j \in 1 .. n : Other(todo'[t][j].op)
    BY <1>3 DEF Neutral
  <2> QED BY <1>1, <1>2, <2>1, OnceMoves DEF Other, SendOps
<1>4. CASE Opens(t)
  <2>1. PICK e \in Encoders, I \in SUBSET DOMAIN todo[t] :
          /\ Moves(t, Len(Dst[e]), I)
          /\ \A j \in 1 .. Len(Dst[e]) : todo'[t][j] = Op("ready", Dst[e][j], 0)
    BY <1>4 DEF Opens
  <2>2. \A j \in 1 .. Len(Dst[e]) : todo'[t][j].op # "send"
    <3>1. \A n : Op("ready", n, 0).op # "send"
      BY DEF Op
    <3> QED BY <2>1, <3>1
  <2> QED BY <1>1, <1>2, <2>1, <2>2, OnceMoves
<1>5. CASE Counts(t)
  <2>1. todo'[t] = <<Op("count", t, 0)>>
    BY <1>5 DEF Counts
  <2>2. \A j \in DOMAIN <<Op("count", t, 0)>> : j = 1
    OBVIOUS
  <2> QED BY <2>1, <2>2 DEF SentOnce
<1>6. CASE Finishes(t)
  <2>1. PICK n : Moves(t, n, 2 .. Len(todo[t])) /\ \A j \in 1 .. n : Other(todo'[t][j].op)
    BY <1>6 DEF Finishes
  <2>2. 2 .. Len(todo[t]) \in SUBSET DOMAIN todo[t]
    BY <1>1 DEF TodoType
  <2> QED BY <1>1, <1>2, <2>1, <2>2, OnceMoves DEF Other, SendOps
<1>7. CASE Turns(t)
  <2>1. {j \in DOMAIN todo[t] : todo[t][j].to # To(t)} \in SUBSET DOMAIN todo[t]
    OBVIOUS
  <2>2. todo'[t][1].op = "finish" /\ Moves(t, 1, {j \in DOMAIN todo[t] : todo[t][j].to # To(t)})
    BY <1>7 DEF Turns
  <2>3. \A j \in 1 .. 1 : todo'[t][j].op # "send"
    BY <2>2
  <2> QED BY <1>1, <1>2, <2>1, <2>2, <2>3, OnceMoves
<1>8. CASE Begins(t)
  BY <1>8, BeginsOnce
<1> QED BY <1>3, <1>4, <1>5, <1>6, <1>7, <1>8, ActsKinds DEF TypeInv, PcType, PosIs

--------------------------------------------------------------------------------
(* Who changes the queue of an encoder or a muxer, the pre-muxing queues,   *)
(* the file, and the frames a filtergraph has made.                         *)

Writes(t) == t \in Muxers /\ MuxItem(t)

\* The steps that write nothing to a file.
LEMMA WritesAside ==
    ASSUME [Next]_vars, ~(\E t \in Tasks : Writes(t))
    PROVE  UNCHANGED written
<1>1. ASSUME NEW t \in Tasks, TaskStep(t) \/ Fail(t), ~Writes(t) PROVE UNCHANGED written
  <2>1. CASE \/ EncOpen(t) \/ StreamReady(t) \/ FlushStep(t)
            \/ FlushEnd(t) \/ MuxStarted(t)
    BY <2>1 DEF EncOpen, StreamReady, FlushStep, FlushEnd, MuxStarted, local
  <2>2. CASE \/ PreMux(t) \/ PreMuxFull(t) \/ PreMuxEndLost(t)
            \/ SendItem(t) \/ SendEof(t)
    BY <2>2 DEF PreMux, PreMuxFull, PreMuxEndLost, SendItem, SendEof, local
  <2>3. CASE Finish(t) \/ FinishFilterInput(t) \/ MuxUpdate(t)
    BY <2>3 DEF Finish, FinishFilterInput, MuxUpdate, local
  <2>4. CASE Cleanup(t) \/ TaskExited(t) \/ Fail(t)
    BY <2>4 DEF Cleanup, TaskExited, Fail, local
  <2>5. CASE \/ DemuxSend(t) \/ DemuxSkip(t) \/ DemuxReturn(t)
            \/ DemuxFlush(t) \/ FlushSend(t)
    BY <2>5 DEF DemuxSend, DemuxSkip, DemuxReturn, DemuxFlush, FlushSend,
              local
  <2>6. CASE FlushAwait(t) \/ FlushEof(t)
    BY <2>6 DEF FlushAwait, FlushEof, local
  <2>7. CASE \/ CodecItem(t) \/ CodecEnd(t) \/ DecoderStop(t)
            \/ DecoderFlush(t) \/ DecoderEndTs(t)
    BY <2>7 DEF CodecItem, CodecEnd, DecoderStop, DecoderFlush, DecoderEndTs,
              local
  <2>8. CASE NoEndTs(t)
    BY <2>8 DEF NoEndTs, local
  <2>9. CASE \/ MuxCount(t) \/ MuxHangUp(t) \/ MuxEnd(t)
            \/ MuxReturn(t) \/ MuxDone(t)
    BY <2>9 DEF MuxCount, MuxHangUp, MuxEnd, MuxReturn, MuxDone, local
  <2>10. CASE \/ FilterPrefer(t) \/ FilterItem(t) \/ ChokeInputs(t)
            \/ CloseInput(t) \/ FilterStreamEnd(t)
    BY <2>10 DEF FilterPrefer, FilterItem, ChokeInputs, CloseInput,
              FilterStreamEnd, local
  <2>11. CASE \/ FilterNothing(t) \/ FilterTurn(t) \/ FilterUnconfigured(t)
            \/ FilterRead(t) \/ FilterFrame(t)
    BY <2>11 DEF FilterNothing, FilterTurn, FilterUnconfigured, FilterRead,
              FilterFrame, local
  <2>12. CASE \/ FilterConsumersDone(t) \/ CloseOutput(t) \/ FilterRequest(t)
            \/ FilterReturn(t)
    BY <2>12 DEF FilterConsumersDone, CloseOutput, FilterRequest, FilterReturn,
              local
  <2> QED
    BY <1>1, <2>1, <2>2, <2>3, <2>4, <2>5, <2>6, <2>7, <2>8, <2>9, <2>10, <2>11,
       <2>12
    DEF Writes, TaskStep, Continue, DemuxStep, CodecStep, DecoderStep,
        MuxStep, FilterStep
<1>2. CASE MainStep \/ Interrupt
  BY <1>2 DEF MainStart, MainTerminate, Interrupt, MainChokeAll, MainJoined,
              MainStep, local
<1>3. CASE UNCHANGED vars
  BY <1>3 DEF vars, local
<1> QED BY <1>1, <1>2, <1>3 DEF Next, Run

LEMMA ParksAside ==
    ASSUME [Next]_vars, pre_mux' # pre_mux
    PROVE  \E t \in Tasks : FlushStep(t) \/ PreMux(t)
<1>1. PICK t \in Tasks : StartsMux(t)
  BY StartsMuxAside
<1>2. ~StreamReady(t) /\ ~FlushEnd(t) /\ ~MuxStarted(t)
  BY DEF StreamReady, FlushEnd, MuxStarted
<1> QED BY <1>1, <1>2 DEF StartsMux

LEMMA QueueOf ==
    ASSUME TypeInv, [Next]_vars, NEW c \in Encoders \cup Muxers, queue'[c] # queue[c]
    PROVE  \/ \E t \in Tasks : FlushStep(t) \/ SendItem(t)
           \/ c \in Encoders /\ (CodecItem(c) \/ Cleanup(c))
           \/ c \in Muxers /\ (MuxItem(c) \/ MuxHangUp(c) \/ MuxDone(c))
<1>1. /\ c \in Tasks /\ c \notin Decoders /\ c \notin Filters
      /\ c \in Encoders => c \notin Muxers
      /\ queue \in [Consumers -> Seq(Items)] /\ c \in Consumers
  BY KindsDiffer DEF Tasks, Consumers, TypeInv, QueueInv, QueueType
<1>2. PICK t \in Tasks : MovesItems(t)
  BY MovesItemsAside
<1>3. ASSUME t \in Demuxers, FlushSend(t) PROVE FALSE
  <2>1. To(t).task \in Decoders
    BY <1>3, NextOp DEF FlushSend, TypeInv
  <2> QED BY <1>1, <1>3, <2>1 DEF FlushSend, Enqueue
<1>4. ASSUME NEW q, queue' = [queue EXCEPT ![t] = q] PROVE t = c
  BY <1>1, <1>4
<1>5. ASSUME CodecItem(t) \/ DecoderFlush(t) \/ MuxItem(t) \/ FilterItem(t) PROVE t = c
  BY <1>4, <1>5 DEF CodecItem, DecoderFlush, MuxItem, FilterItem, TakeItem
<1>6. ASSUME Cleanup(t) \/ MuxHangUp(t) \/ MuxDone(t) \/ CloseInput(t) PROVE t = c
  BY <1>4, <1>6 DEF Cleanup, MuxHangUp, MuxDone, CloseInput, HangUp
<1> QED BY <1>1, <1>2, <1>3, <1>5, <1>6 DEF MovesItems, Cleanup

LEMMA MadeStays ==
    ASSUME TypeInv, [Next]_vars, NEW f \in Filters, ~FilterFrame(f)
    PROVE  fg'[f].made = fg[f].made
<1>1. f \in DOMAIN fg /\ fg[f] \in Graph(f) /\ fg = [h \in Filters |-> fg[h]]
  BY DEF TypeInv, GraphType, GraphIs
<1>2. CASE ~(\E t \in Tasks : FeedsGraph(t))
  BY <1>2, FeedsGraphAside
<1>3. CASE \E t \in Tasks : FeedsGraph(t)
  <2>1. PICK t \in Tasks : FeedsGraph(t)
    BY <1>3
  <2>2. CASE SendItem(t) \/ SendEof(t)
    BY <1>1, <2>2 DEF SendItem, SendEof, Graph
  <2>3. CASE t \in Filters /\ FilterItem(t)
    <3>1. fg' = fg \/ fg' = [fg EXCEPT ![t] = Fed(t, Head(queue[t]))]
      BY <2>3 DEF FilterItem
    <3>2. fg[t] \in Graph(t)
      BY <2>3 DEF TypeInv, GraphType, GraphIs
    <3>3. fg[t].made = Fed(t, Head(queue[t])).made
      BY <3>2 DEF Fed, Graph
    <3> QED BY <1>1, <3>1, <3>3
  <2>4. CASE t \in Filters /\ FilterUnconfigured(t)
    BY <1>1, <2>4 DEF FilterUnconfigured, Graph
  <2>5. CASE t \in Filters /\ FilterFrame(t)
    <3>1. t # f
      BY <2>5
    <3> QED BY <1>1, <2>5, <3>1 DEF FilterFrame
  <2>6. CASE t \in Filters /\ CloseOutput(t)
    BY <1>1, <2>6 DEF CloseOutput, Graph
  <2>7. CASE t \in Filters /\ FilterRequest(t)
    BY <1>1, <2>7 DEF FilterRequest, Graph
  <2> QED BY <2>1, <2>2, <2>3, <2>4, <2>5, <2>6, <2>7 DEF FeedsGraph
<1> QED BY <1>2, <1>3

--------------------------------------------------------------------------------
(* Nothing is queued for a stream that is refused. *)

NoneRefused == \A c \in Consumers : \A j \in DOMAIN queue[c] : queue[c][j].in \notin recv_fin[c]

LEMMA EnqueueKeeps ==
    ASSUME TypeInv, NoneRefused, NEW n, n.task \in Consumers, ~Refused(n), NEW k,
           queue' = Enqueue(n, k), UNCHANGED recv_fin
    PROVE  NoneRefused'
<1> DEFINE q == queue[n.task]  x == [in |-> n.in, k |-> k]
<1>1. queue \in [Consumers -> Seq(Items)] /\ q \in Seq(Items)
  BY DEF TypeInv, QueueInv, QueueType
<1>2. queue'[n.task] = Append(q, x) /\ \A c \in Consumers \ {n.task} : queue'[c] = queue[c]
  BY <1>1 DEF Enqueue
<1>3. \A j \in DOMAIN Append(q, x) : Append(q, x)[j] = x \/ (j \in DOMAIN q /\ Append(q, x)[j] = q[j])
  BY <1>1
<1>4. x.in \notin recv_fin[n.task]
  BY DEF Refused
<1> HIDE DEF q, x
<1>5. \A j \in DOMAIN queue'[n.task] : queue'[n.task][j].in \notin recv_fin[n.task]
  BY <1>2, <1>3, <1>4 DEF NoneRefused, q
<1> QED BY <1>2, <1>5 DEF NoneRefused

LEMMA TakeKeeps ==
    ASSUME TypeInv, NoneRefused, NEW c \in Consumers, TakeItem(c)
    PROVE  NoneRefused'
<1>1. queue \in [Consumers -> Seq(Items)] /\ queue[c] \in Seq(Items) /\ queue[c] # <<>>
  BY DEF TypeInv, QueueInv, QueueType, TakeItem, HasItem
<1>2. queue'[c] = Tail(queue[c]) /\ \A d \in Consumers \ {c} : queue'[d] = queue[d]
  BY <1>1 DEF TakeItem
<1>3. \A j \in DOMAIN Tail(queue[c]) : j + 1 \in DOMAIN queue[c] /\ Tail(queue[c])[j] = queue[c][j + 1]
  BY <1>1
<1>4. UNCHANGED recv_fin
  BY DEF TakeItem
<1>5. \A j \in DOMAIN queue'[c] : queue'[c][j].in \notin recv_fin[c]
  BY <1>2, <1>3 DEF NoneRefused
<1> QED BY <1>2, <1>4, <1>5 DEF NoneRefused

LEMMA HangUpKeepsOut ==
    ASSUME TypeInv, NoneRefused, NEW c \in Consumers, NEW S, HangUp(c, S)
    PROVE  NoneRefused'
<1> DEFINE I == {j \in DOMAIN queue[c] : queue[c][j].in \notin S}
           q == Subsequence(queue[c], I)
<1>1. queue \in [Consumers -> Seq(Items)] /\ queue[c] \in Seq(Items)
        /\ recv_fin \in [Consumers -> SUBSET Nat]
  BY DEF TypeInv, QueueInv, QueueType, FinType
<1>2. /\ queue'[c] = q /\ recv_fin'[c] = recv_fin[c] \cup S
      /\ \A d \in Consumers \ {c} : queue'[d] = queue[d] /\ recv_fin'[d] = recv_fin[d]
  BY <1>1 DEF HangUp
<1>3. \A k \in DOMAIN q : \E j \in I : q[k] = queue[c][j]
  <2>1. I \in SUBSET DOMAIN queue[c]
    OBVIOUS
  <2> HIDE DEF I
  <2> QED BY <1>1, <2>1, OfSubsequence
<1> HIDE DEF q
<1>4. \A j \in DOMAIN queue'[c] : queue'[c][j].in \notin recv_fin'[c]
  BY <1>2, <1>3 DEF NoneRefused
<1> QED BY <1>2, <1>4 DEF NoneRefused

LEMMA EndKeeps ==
    ASSUME TypeInv, NoneRefused, NEW c \in Consumers, TakeEnd(c)
    PROVE  NoneRefused'
<1>1. queue[c] = <<>> /\ UNCHANGED queue
  BY DEF TakeEnd, Ends
<1>2. \A d \in Consumers \ {c} : recv_fin'[d] = recv_fin[d]
  BY DEF TakeEnd, TypeInv, FinType
<1>3. \A j \in DOMAIN queue[c] : FALSE
  BY <1>1
<1> QED BY <1>1, <1>2, <1>3 DEF NoneRefused

LEMMA NoneRefusedNext ==
    ASSUME TypeInv, NoneRefused, [Next]_vars
    PROVE  NoneRefused'
<1>1. TodoType /\ MuxType
  BY DEF TypeInv
<1>2. ASSUME NEW t \in Tasks, MovesItems(t) PROVE NoneRefused'
  <2>1. CASE FlushStep(t)
    <3>1. PICK x \in flusher : \E ms \in EarliestPreMuxed(x.mux) :
            /\ queue' = queue \/ (~Refused(ms) /\ queue' = Enqueue(ms, Head(pre_mux[ms])))
            /\ UNCHANGED recv_fin
      BY <2>1, FlushStepIs DEF FlushStep, Flushed
    <3>2. PICK ms \in EarliestPreMuxed(x.mux) :
            /\ queue' = queue \/ (~Refused(ms) /\ queue' = Enqueue(ms, Head(pre_mux[ms])))
            /\ UNCHANGED recv_fin
      BY <3>1
    <3>3. ms.task \in Consumers
      BY <1>1, EarliestIs DEF Consumers
    <3> QED BY <3>2, <3>3, EnqueueKeeps DEF NoneRefused
  <2>2. CASE SendItem(t)
    <3>1. To(t) \in Targets(t)
      BY <1>1, <2>2, NextOp DEF SendItem, CallsSend, Sendable
    <3>2. To(t).task \in Consumers
      BY <3>1, DstIs
    <3> QED BY <2>2, <3>2, EnqueueKeeps DEF SendItem
  <2>3. CASE t \in Demuxers /\ FlushSend(t)
    <3>1. To(t) \in Targets(t)
      BY <1>1, <2>3, NextOp DEF FlushSend
    <3>2. To(t).task \in Consumers
      BY <3>1, DstIs
    <3> QED BY <2>3, <3>2, EnqueueKeeps DEF FlushSend
  <2>4. CASE Cleanup(t)
    BY <2>4, HangUpKeepsOut DEF Cleanup, NoneRefused
  <2>5. CASE \/ t \in Decoders \cup Encoders /\ CodecItem(t)
             \/ t \in Decoders /\ DecoderFlush(t)
             \/ t \in Muxers /\ MuxItem(t)
             \/ t \in Filters /\ FilterItem(t)
    <3>1. t \in Consumers /\ TakeItem(t)
      BY <2>5 DEF Consumers, CodecItem, DecoderFlush, MuxItem, FilterItem
    <3> QED BY <3>1, TakeKeeps
  <2>6. CASE \/ t \in Muxers /\ (MuxHangUp(t) \/ MuxDone(t))
             \/ t \in Filters /\ CloseInput(t)
    <3>1. t \in Consumers /\ \E S : HangUp(t, S)
      BY <2>6 DEF Consumers, MuxHangUp, MuxDone, CloseInput
    <3> QED BY <3>1, HangUpKeepsOut
  <2> QED BY <1>2, <2>1, <2>2, <2>3, <2>4, <2>5, <2>6 DEF MovesItems
<1>3. ASSUME NEW t \in Tasks, HearsEnd(t), ~MovesItems(t) PROVE NoneRefused'
  <2>1. \/ t \in Decoders \cup Encoders /\ CodecEnd(t)
        \/ t \in Muxers /\ MuxEnd(t)
        \/ t \in Filters /\ FilterStreamEnd(t)
    BY <1>3 DEF HearsEnd, MovesItems
  <2>2. t \in Consumers /\ TakeEnd(t)
    BY <2>1 DEF Consumers, CodecEnd, MuxEnd, FilterStreamEnd
  <2> QED BY <2>2, EndKeeps
<1>4. CASE ~(\E t \in Tasks : MovesItems(t) \/ HearsEnd(t))
  <2>1. UNCHANGED <<queue, recv_fin>>
    BY <1>4, MovesItemsAside, HearsEndAside
  <2> QED BY <2>1 DEF NoneRefused
<1> QED BY <1>2, <1>3, <1>4

\* mux_task_start() was told EOF for streams that the muxer has refused.
ToldAreRefused == \A ms \in init_eof : ms.task \in Consumers /\ Refused(ms)

LEMMA ToldAreRefusedNext ==
    ASSUME TypeInv, ToldAreRefused, [Next]_vars
    PROVE  ToldAreRefused'
<1>1. ASSUME NEW ms \in init_eof' \ init_eof PROVE ms.task \in Consumers /\ Refused(ms)
  <2>1. PICK t \in Tasks : FlushStep(t)
    BY <1>1, NextAside DEF Aside, Muxing, StreamReady, FlushEnd, MuxStarted, PreMux
  <2>2. PICK x \in flusher : \E o \in EarliestPreMuxed(x.mux) : Flushed(o)
    BY <2>1, FlushStepIs
  <2>3. PICK o \in EarliestPreMuxed(x.mux) : Flushed(o)
    BY <2>2
  <2>4. o = ms /\ Refused(o)
    BY <1>1, <2>3 DEF Flushed
  <2>5. o.task \in Consumers
    BY EarliestIs DEF TypeInv, Consumers
  <2> QED BY <2>4, <2>5
<1>2. \A ms \in init_eof' : ms.task \in Consumers /\ Refused(ms)
  BY <1>1 DEF ToldAreRefused
<1> QED BY <1>2, RefusalsStay DEF ToldAreRefused, Refused

--------------------------------------------------------------------------------
(* What becomes of it: it is sent or parked, or its task ends before.       *)

Passes(t, n) == At(t, "send") /\ To(t) = n /\ (SendItem(t) \/ PreMux(t))

LEMMA SendsPast ==
    ASSUME TypeInv, NEW t \in Tasks, todo[t] # <<>>, NEW n,
           Proceed(t) \/ \E x \in Ops : x.op # "send" /\ ProceedWith(t, <<x>>)
    PROVE  IF IsSend(todo[t][1], n)
             THEN SentOnce(todo[t]) => ToSend(t, n) = {todo[t][1].k} /\ ToSend(t, n)' = {}
             ELSE ToSend(t, n)' = ToSend(t, n)
<1>1. todo[t] \in Seq(Ops) /\ Tail(todo[t]) \in Seq(Ops) /\ t \in DOMAIN todo
  BY TailIs DEF TypeInv, TodoType
<1>2. Sending(todo'[t], n) = Sending(Tail(todo[t]), n)
  <2>1. CASE Proceed(t)
    BY <1>1, <2>1 DEF Proceed
  <2>2. CASE \E x \in Ops : x.op # "send" /\ ProceedWith(t, <<x>>)
    <3>1. PICK x \in Ops : x.op # "send" /\ ProceedWith(t, <<x>>)
      BY <2>2
    <3>2. todo'[t] = <<x>> \o Tail(todo[t])
      BY <1>1, <3>1 DEF ProceedWith
    <3> DEFINE pre == <<x>>
    <3>3. pre \in Seq(Ops) /\ \A j \in DOMAIN pre : pre[j].op # "send"
      BY <3>1
    <3> HIDE DEF pre
    <3>4. Sending(pre \o Tail(todo[t]), n) = Sending(Tail(todo[t]), n)
      BY <1>1, <3>3, SendingJoined
    <3> QED BY <3>2, <3>4 DEF pre
  <2> QED BY <2>1, <2>2
<1> QED BY <1>1, <1>2, SendingTail DEF ToSend

LEMMA UpdateIs ==
    ASSUME TypeInv, NEW t \in Tasks, NEW op, At(t, op), NEW k \in Int
    PROVE  \A o \in {"update", "await"} : LET x == Op(o, To(t), k) IN x \in Ops /\ x.op # "send"
<1>1. To(t) \in Places
  BY HeadIs DEF TypeInv
<1>2. "update" \in OpNames /\ "await" \in OpNames
  BY DEF OpNames
<1> QED BY <1>1, <1>2, OpIs

LEMMA SendItemGoes ==
    ASSUME TypeInv, NEW t \in Tasks,
           SendItem(t) \/ PreMux(t) \/ Finish(t) \/ (t \in Demuxers /\ FlushSend(t))
    PROVE  /\ todo[t] # <<>>
           /\ Proceed(t) \/ \E x \in Ops : x.op # "send" /\ ProceedWith(t, <<x>>)
<1>1. PICK op \in {"send", "finish", "flush"} : At(t, op)
  BY DEF SendItem, CallsSend, Sendable, PreMux, Finish, FlushSend
<1>2. todo[t] # <<>> /\ Item(t) \in Int /\ 0 \in Int
  BY <1>1, HeadIs DEF TypeInv, At
<1>3. \A k \in Int : \A o \in {"update", "await"} :
          LET x == Op(o, To(t), k) IN x \in Ops /\ x.op # "send"
  BY <1>1, UpdateIs
<1>4. CASE SendItem(t)
  BY <1>2, <1>3, <1>4 DEF SendItem
<1>5. CASE PreMux(t)
  <2> DEFINE k == IF At(t, "send") THEN Item(t) ELSE 0
  <2>1. k \in Int
    BY <1>2
  <2>2. ProceedWith(t, <<Op("update", To(t), k)>>)
    BY <1>5 DEF PreMux
  <2> HIDE DEF k
  <2> QED BY <1>2, <1>3, <2>1, <2>2
<1>6. CASE Finish(t)
  BY <1>2, <1>3, <1>6 DEF Finish
<1>7. CASE t \in Demuxers /\ FlushSend(t)
  <2>1. CASE To(t).task \in EndTs
    <3>1. ProceedWith(t, <<Op("await", To(t), 0)>>)
      BY <1>7, <2>1 DEF FlushSend
    <3> QED BY <1>2, <1>3, <3>1
  <2>2. CASE To(t).task \notin EndTs
    <3>1. ProceedWith(t, <<>>)
      BY <1>7, <2>2 DEF FlushSend
    <3>2. <<>> \o Tail(todo[t]) = Tail(todo[t])
      <4>1. Tail(todo[t]) \in Seq(Ops)
        BY <1>2, TailIs DEF TypeInv, TodoType
      <4> QED BY <4>1
    <3>3. Proceed(t)
      BY <3>1, <3>2 DEF ProceedWith, Proceed
    <3> QED BY <1>2, <3>3
  <2> QED BY <2>1, <2>2
<1> QED BY <1>4, <1>5, <1>6, <1>7

LEMMA PassSends ==
    ASSUME TypeInv, SendsOnce, NEW t \in Tasks, NEW n, Passes(t, n)
    PROVE  ToSend(t, n) = {Item(t)} /\ ToSend(t, n)' = {}
<1>1. todo[t] # <<>> /\ IsSend(todo[t][1], n) /\ Item(t) = todo[t][1].k
  BY HeadIs DEF Passes, At, IsSend, TypeInv
<1>2. Proceed(t) \/ \E x \in Ops : x.op # "send" /\ ProceedWith(t, <<x>>)
  BY SendItemGoes DEF Passes
<1> QED BY <1>1, <1>2, SendsPast DEF SendsOnce

LEMMA SendsStay ==
    ASSUME TypeInv, [Next]_vars, NEW t \in Demuxers \cup Encoders \cup Filters,
           NEW n \in Targets(t), n.task \in Encoders \cup Muxers,
           ~Passes(t, n), ~(SendEof(t) /\ To(t) = n),
           ~(t \in Demuxers /\ DemuxSend(t)), ~(t \in Encoders /\ CodecItem(t)),
           ~(t \in Filters /\ FilterFrame(t))
    PROVE  \/ ToSend(t, n)' = ToSend(t, n)
           \/ ToSend(t, n)' = {} /\ t \notin Filters /\ pc'[t] = "returned"
<1> DEFINE Same == ToSend(t, n)' = ToSend(t, n)
<1>1. t \in Tasks /\ t \notin Muxers /\ t \notin Decoders
  BY KindsDiffer DEF Tasks, Consumers
<1>2. TodoType /\ todo[t] \in Seq(Ops) /\ t \in DOMAIN todo
  BY <1>1 DEF TypeInv, TodoType
<1>3. CASE ~Acts(t)
  BY <1>1, <1>3, OthersAct DEF ToSend
<1>4. CASE EncOpen(t)
  <2>1. PICK pre \in Seq(Ops) :
          /\ \A j \in DOMAIN pre : pre[j].op # "send"
          /\ todo'[t] = pre \o (IF At(t, "init") THEN Tail(todo[t]) ELSE todo[t])
    BY <1>1, <1>2, <1>4, EncOpenOpens DEF SendOps
  <2>2. CASE At(t, "init")
    <3>1. Tail(todo[t]) \in Seq(Ops) /\ todo[t] # <<>> /\ ~IsSend(todo[t][1], n)
      BY <1>1, <1>2, <2>2, HeadIs DEF At, IsSend
    <3>2. Sending(todo'[t], n) = Sending(Tail(todo[t]), n)
      BY <2>1, <2>2, <3>1, SendingJoined, ZenonT(60)
    <3> QED BY <1>2, <3>1, <3>2, SendingTail DEF ToSend
  <2>3. CASE ~At(t, "init")
    BY <1>2, <2>1, <2>3, SendingJoined DEF ToSend
  <2> QED BY <2>2, <2>3
<1>5. ASSUME todo[t] # <<>>, Proceed(t) \/ \E x \in Ops : x.op # "send" /\ ProceedWith(t, <<x>>),
             ~IsSend(todo[t][1], n)
      PROVE  Same
  BY <1>1, <1>5, SendsPast
<1>6. ASSUME NEW op, At(t, op), op # "send" PROVE todo[t] # <<>> /\ ~IsSend(todo[t][1], n)
  BY <1>1, <1>2, <1>6, HeadIs DEF At, IsSend
<1>7. CASE \/ StreamReady(t) \/ MuxUpdate(t) \/ TaskExited(t) \/ FinishFilterInput(t)
           \/ PreMuxEndLost(t)
           \/ t \in Demuxers /\ FlushAwait(t)
           \/ t \in Filters /\ (ChokeInputs(t) \/ CloseInput(t))
  <2>1. Proceed(t)
    BY <1>7 DEF StreamReady, MuxUpdate, TaskExited, FinishFilterInput, PreMuxEndLost,
                FlushAwait, ChokeInputs, CloseInput
  <2>2. PICK op \in {"ready", "update", "exit", "finish", "await", "choke_inputs", "close"} :
          At(t, op)
    BY <1>7 DEF StreamReady, MuxUpdate, TaskExited, FinishFilterInput, PreMuxEndLost,
                FlushAwait, ChokeInputs, CloseInput
  <2> QED BY <1>5, <1>6, <2>1, <2>2
<1>8. CASE SendItem(t) \/ PreMux(t) \/ Finish(t) \/ (t \in Demuxers /\ FlushSend(t))
  <2>1. todo[t] # <<>> /\ (Proceed(t) \/ \E x \in Ops : x.op # "send" /\ ProceedWith(t, <<x>>))
    BY <1>1, <1>8, SendItemGoes
  <2>2. ~IsSend(todo[t][1], n)
    <3>1. PICK op \in {"send", "finish", "flush"} :
            At(t, op) /\ (op = "send" => SendItem(t) \/ PreMux(t))
      BY <1>8 DEF SendItem, CallsSend, Sendable, PreMux, Finish, FlushSend
    <3>2. CASE op = "send"
      BY <1>1, <1>2, <3>1, <3>2, HeadIs DEF Passes, IsSend
    <3>3. CASE op # "send"
      BY <1>6, <3>1, <3>3
    <3> QED BY <3>2, <3>3
  <2> QED BY <1>5, <2>1, <2>2
<1>9. CASE SendEof(t)
  <2> DEFINE x == Op("finish", To(t), 0)
  <2>1. At(t, "send") /\ n # To(t)
    BY <1>9 DEF SendEof, Sendable
  <2>2. x \in Ops /\ x.op # "send"
    BY <1>1, <1>2, <2>1, HeadIs, OpIs DEF OpNames
  <2>3. todo'[t] = <<x>> \o Subsequence(todo[t], {j \in DOMAIN todo[t] : todo[t][j].to # To(t)})
    BY <1>2, <1>9 DEF SendEof
  <2> HIDE DEF x
  <2> DEFINE I == {j \in DOMAIN todo[t] : todo[t][j].to # To(t)}
  <2>4. I \in SUBSET DOMAIN todo[t] /\ \A j \in DOMAIN todo[t] : IsSend(todo[t][j], n) => j \in I
    BY <2>1 DEF IsSend
  <2>5. todo'[t] = <<x>> \o Subsequence(todo[t], I)
    BY <2>3
  <2> HIDE DEF I
  <2>6. Sending(<<x>> \o Subsequence(todo[t], I), n) = Sending(todo[t], n)
    BY <1>2, <2>1, <2>2, <2>4, SendingApart
  <2> QED BY <2>5, <2>6 DEF ToSend
<1>10. CASE PreMuxFull(t) \/ (t \in Demuxers /\ FlushEof(t))
  <2>1. todo'[t] = <<>> /\ pc'[t] = "returned"
    BY <1>1, <1>2, <1>10 DEF PreMuxFull, FlushEof, GoTo, TypeInv, PcType
  <2>2. t \notin Filters
    <3>1. PreMuxFull(t) => To(t) \in Targets(t) /\ To(t).task \in Muxers
      BY <1>1, <1>2, NextOp DEF PreMuxFull, Parking
    <3> QED BY <1>1, <1>10, <3>1, TargetKinds, KindsDiffer
  <2> QED BY <2>1, <2>2, SendingNothing DEF ToSend
<1>11. ASSUME todo[t] = <<>>, \A j \in DOMAIN todo'[t] : todo'[t][j].op # "send" PROVE Same
  BY <1>11, SendingNone, SendingNothing DEF ToSend
<1>17. CASE t \in Demuxers /\ DemuxFlush(t)
  <2>1. todo[t] = <<>>
    BY <1>17 DEF DemuxFlush, Idle
  <2> QED BY <1>2, <1>11, <1>17, <2>1, FreshFlush
<1>12. CASE t \in Filters /\ (FilterItem(t) \/ FilterRequest(t))
  <2>1. Neutral(t)
    BY <1>2, <1>12, NeutralFilter DEF TypeInv
  <2>2. todo[t] = <<>>
    BY <1>12 DEF FilterItem, Receiving, FilterRequest, NoMoreFrames, Idle
  <2>3. PICK m : \E I \in SUBSET DOMAIN todo[t] :
          Moves(t, m, I) /\ \A j \in 1 .. m : Other(todo'[t][j].op)
    BY <2>1 DEF Neutral
  <2>4. PICK I \in SUBSET DOMAIN todo[t] :
          Moves(t, m, I) /\ \A j \in 1 .. m : Other(todo'[t][j].op)
    BY <2>3
  <2>5. \A j \in I : FALSE
    BY <2>2
  <2>6. DOMAIN todo'[t] = 1 .. Len(todo'[t]) /\ m \in 0 .. Len(todo'[t]) /\ Len(todo'[t]) \in Nat
    BY <2>4 DEF Moves
  <2>7. \A j \in m + 1 .. Len(todo'[t]) : FALSE
    BY <2>4, <2>5 DEF Moves, Follows
  <2>8. \A j \in DOMAIN todo'[t] : todo'[t][j].op # "send"
    BY <2>4, <2>6, <2>7 DEF Other, SendOps
  <2> QED BY <1>11, <2>2, <2>8
<1>13. CASE t \in Encoders /\ CodecEnd(t)
  <2>1. todo'[t] = todo[t]
    BY <1>1, <1>2, <1>13 DEF CodecEnd
  <2> QED BY <2>1 DEF ToSend
<1>14. CASE Cleanup(t)
  <2>1. todo[t] = <<>>
    BY <1>14 DEF Cleanup, Idle
  <2> QED BY <1>1, <1>2, <1>11, <1>14, <2>1, FreshCleanup DEF TypeInv, PcType, SendOps
<1>15. CASE t \in Filters /\ CloseOutput(t)
  <2>1. todo[t] = <<>>
    BY <1>15 DEF CloseOutput, NoMoreFrames, Idle
  <2>2. \A j \in DOMAIN todo'[t] : todo'[t][j].op = "send" => todo'[t][j].k = 0
    BY <1>2, <1>15, FreshClose DEF TypeInv
  <2>3. TodoType'
    BY TypeNext DEF TypeInv
  <2>4. \A j \in DOMAIN todo'[t] : IsSend(todo'[t][j], n) => todo'[t][j].k # 0
    BY <1>1, <2>3 DEF TodoType, OpOK, IsSend
  <2>5. Sending(todo'[t], n) = {}
    BY <2>2, <2>4 DEF Sending, IsSend
  <2> QED BY <2>1, <2>5, SendingNothing DEF ToSend
<1>16. t \in Encoders => t \notin Demuxers /\ t \notin Filters
  BY KindsDiffer
<1> QED
  BY <1>1, <1>3, <1>4, <1>7, <1>8, <1>9, <1>10, <1>12, <1>13, <1>14, <1>15, <1>17
  DEF Acts

--------------------------------------------------------------------------------
(* What a filtergraph, an encoder and a demuxer have sent.                  *)

\* Number b is the last that p, which leads out of the filtergraph f, was sent.
MadeUpTo(f, p, b) ==
    \/ ToSend(f, p) = {} /\ (p.out \in fg[f].out_eof \/ fg[f].made = b)
    \/ ToSend(f, p) = {b + 1} /\ fg[f].made = b + 1

\* Number b is the last that u, a demuxer or an encoder, has taken for n.
TakenUpTo(u, n, b) ==
    \/ u \in Demuxers /\ ReadOf(u, n.out, pos[u]) = b
    \/ /\ u \in Encoders
       /\ \E f \in Filters : \E p \in Targets(f) : \E c \in Nat :
             /\ p.task = u /\ p.in = 0
             /\ Numbered(queue[u], 0, b, c) /\ MadeUpTo(f, p, c)

\* It takes nothing more for n.
Over(u, n) ==
    \/ n \in dst_finished[u]
    \/ pc[u] # "loop"
    \/ u \in Encoders /\ 0 \in recv_fin[u]

\* Number b is the last that n was sent.
SentUpTo(u, n, b) ==
    \/ ToSend(u, n) = {} /\ (Over(u, n) \/ TakenUpTo(u, n, b))
    \/ ToSend(u, n) = {b + 1} /\ (Over(u, n) \/ TakenUpTo(u, n, b + 1))

LEMMA PassesAct ==
    ASSUME NEW t, NEW n, Passes(t, n)
    PROVE  /\ Acts(t) /\ todo[t] # <<>>
           /\ n.task \notin Muxers => SendItem(t)
BY DEF Passes, Acts, At, PreMux, Parking

LEMMA MadeNext ==
    ASSUME TypeInv, SendsOnce, [Next]_vars, NEW f \in Filters, NEW p \in Targets(f),
           p.task \in Encoders, NEW b \in Nat, MadeUpTo(f, p, b), ~(SendEof(f) /\ To(f) = p)
    PROVE  IF Passes(f, p) THEN Item(f) = b + 1 /\ MadeUpTo(f, p, b + 1)'
                           ELSE MadeUpTo(f, p, b)'
<1>1. f \in Tasks /\ f \notin Demuxers /\ f \notin Encoders /\ fg[f] \in Graph(f) /\ f \in DOMAIN fg
        /\ fg[f].made \in Nat
  BY FiltersAre, KindsDiffer DEF TypeInv, GraphType, GraphIs, Graph
<1>2. CASE Passes(f, p)
  <2>1. ToSend(f, p) = {Item(f)} /\ ToSend(f, p)' = {}
    BY <1>1, <1>2, PassSends
  <2>2. Item(f) = b + 1 /\ fg[f].made = b + 1
    BY <2>1 DEF MadeUpTo
  <2>3. fg'[f].made = fg[f].made
    BY <1>1, <1>2, PassesAct, MadeStays DEF FilterFrame, Idle
  <2> QED BY <1>2, <2>1, <2>2, <2>3 DEF MadeUpTo
<1>3. CASE FilterFrame(f)
  <2> DEFINE N == {n \in Targets(f) : n.out \notin fg[f].out_eof}
             k == fg[f].made + 1
  <2>1. todo[f] = <<>> /\ ~Passes(f, p)
    BY <1>3, PassesAct DEF FilterFrame, Idle
  <2>2. ToSend(f, p) = {}
    BY <2>1, SendingNothing DEF ToSend
  <2>3. fg'[f].made = k /\ fg'[f].out_eof = fg[f].out_eof
    BY <1>1, <1>3 DEF FilterFrame, Graph
  <2>4. todo'[f] = ForEach(DstWith(f, N), "send", k)
    BY <1>1, <1>3 DEF FilterFrame, TypeInv, TodoType
  <2>5. k \in Int /\ (p \in N <=> p.out \notin fg[f].out_eof)
    BY <1>1
  <2> HIDE DEF N, k
  <2>6. ToSend(f, p)' = IF p \in N THEN {k} ELSE {}
    BY <1>1, <2>4, <2>5, SendingEach DEF ToSend
  <2>7. fg[f].made = b \/ p.out \in fg[f].out_eof
    BY <2>2 DEF MadeUpTo
  <2> QED BY <2>1, <2>3, <2>5, <2>6, <2>7 DEF MadeUpTo, k
<1>4. CASE ~Passes(f, p) /\ ~FilterFrame(f)
  <2>1. ToSend(f, p)' = ToSend(f, p)
    BY <1>1, <1>4, SendsStay
  <2>2. fg'[f].made = fg[f].made /\ fg[f].out_eof \subseteq fg'[f].out_eof
    BY <1>4, MadeStays, OutputsStay
  <2> QED BY <1>4, <2>1, <2>2 DEF MadeUpTo
<1> QED BY <1>2, <1>3, <1>4, PassesAct DEF FilterFrame, Idle

LEMMA EncoderIs ==
    ASSUME NEW e \in Encoders
    PROVE  /\ e \in Tasks /\ e \in Consumers /\ Inputs(e) = {0} /\ QueueStreams(e) = {0}
           /\ e \notin Filters /\ e \notin Demuxers /\ e \notin Muxers /\ e \notin Decoders
<1>1. e \in Tasks /\ e \in Consumers /\ e \notin Filters /\ e \notin Demuxers /\ e \notin Muxers
        /\ e \notin Decoders
  BY KindsDiffer DEF Tasks, Consumers
<1>2. NbInputs[e] = 1
  BY SchedulerGraphAssumption
<1> QED BY <1>1, <1>2 DEF Inputs, QueueStreams

LEMMA EncoderTakes ==
    ASSUME TypeInv, SendsOnce, [Next]_vars, NEW e \in Encoders, NEW n, NEW b,
           TakenUpTo(e, n, b), 0 \notin recv_fin'[e]
    PROVE  IF CodecItem(e) THEN Head(queue[e]).k = b + 1 /\ TakenUpTo(e, n, b + 1)'
                           ELSE TakenUpTo(e, n, b)'
<1>1. /\ e \in Tasks /\ e \in Consumers /\ Inputs(e) = {0} /\ QueueStreams(e) = {0}
      /\ e \notin Filters /\ e \notin Demuxers /\ e \notin Muxers
  BY EncoderIs
<1>11. PICK f \in Filters : \E p \in Targets(f) : \E c \in Nat :
          p.task = e /\ p.in = 0 /\ Numbered(queue[e], 0, b, c) /\ MadeUpTo(f, p, c)
  BY <1>1 DEF TakenUpTo
<1>12. PICK p \in Targets(f) : \E c \in Nat :
          p.task = e /\ p.in = 0 /\ Numbered(queue[e], 0, b, c) /\ MadeUpTo(f, p, c)
  BY <1>11
<1>2. PICK c \in Nat :
          p.task = e /\ p.in = 0 /\ Numbered(queue[e], 0, b, c) /\ MadeUpTo(f, p, c)
  BY <1>12
<1>3. queue \in [Consumers -> Seq(Items)] /\ queue[e] \in Seq(Items) /\ f \in Tasks
  BY <1>1, FiltersAre DEF TypeInv, QueueInv, QueueType
<1>4. ~(SendEof(f) /\ To(f) = p)
  BY <1>1, <1>2, RefusalsStay DEF SendEof, CallsSend, Refused
<1>5. IF Passes(f, p) THEN Item(f) = c + 1 /\ MadeUpTo(f, p, c + 1)' ELSE MadeUpTo(f, p, c)'
  BY <1>2, <1>4, MadeNext
<1>6. CASE CodecItem(e)
  <2>1. queue[e] # <<>> /\ queue'[e] = Tail(queue[e])
    BY <1>1, <1>3, <1>6 DEF CodecItem, TakeItem, HasItem
  <2>2. Head(queue[e]).in = 0
    BY <1>1, <2>1, HeadItem DEF TypeInv
  <2>3. Head(queue[e]).k = b + 1 /\ Numbered(queue'[e], 0, b + 1, c)
    BY <1>2, <1>3, <2>1, <2>2, NumberedTail
  <2>4. ~Passes(f, p)
    <3>1. SUFFICES ASSUME Passes(f, p) PROVE FALSE
      OBVIOUS
    <3>2. todo'[f] = todo[f]
      BY <1>1, <1>3, <1>6, OneActs DEF Acts
    <3>3. ToSend(f, p) = {Item(f)} /\ ToSend(f, p)' = {}
      BY <1>3, <3>1, PassSends
    <3> QED BY <3>2, <3>3 DEF ToSend
  <2>5. TakenUpTo(e, n, b + 1)'
    BY <1>2, <1>5, <2>3, <2>4 DEF TakenUpTo
  <2> QED BY <1>6, <2>3, <2>5
<1>7. CASE Passes(f, p)
  <2> DEFINE x == [in |-> 0, k |-> c + 1]
  <2>1. SendItem(f) /\ Item(f) = c + 1 /\ To(f) = p
    BY <1>1, <1>2, <1>5, <1>7, PassesAct DEF Passes
  <2>2. queue'[e] = Append(queue[e], x)
    BY <1>1, <1>2, <1>3, <2>1 DEF SendItem, Enqueue
  <2>3. x \in Items /\ x.in = 0 /\ x.k = c + 1
    BY DEF Items
  <2> HIDE DEF x
  <2>4. Numbered(queue'[e], 0, b, c + 1)
    BY <1>2, <1>3, <2>2, <2>3, NumberedAppend
  <2>5. ~CodecItem(e)
    BY <1>6, <1>7, <2>2, <1>3, <2>3 DEF CodecItem, TakeItem, HasItem
  <2>6. c + 1 \in Nat
    OBVIOUS
  <2> QED BY <1>1, <1>2, <1>5, <1>7, <2>4, <2>5, <2>6 DEF TakenUpTo
<1>8. CASE ~CodecItem(e) /\ ~Passes(f, p)
  <2>1. queue'[e] = queue[e]
    <3>1. ASSUME NEW t \in Tasks, FlushStep(t) PROVE queue'[e] = queue[e]
      <4>1. PICK x \in flusher : \E ms \in EarliestPreMuxed(x.mux) :
              queue' = queue \/ queue' = Enqueue(ms, Head(pre_mux[ms]))
        BY <3>1, FlushStepIs DEF Flushed
      <4>2. PICK ms \in EarliestPreMuxed(x.mux) :
              queue' = queue \/ queue' = Enqueue(ms, Head(pre_mux[ms]))
        BY <4>1
      <4>3. ms.task # e
        BY <1>1, EarliestIs DEF TypeInv
      <4> QED BY <1>1, <1>3, <4>2, <4>3 DEF Enqueue
    <3>2. ASSUME NEW t \in Tasks, SendItem(t) PROVE queue'[e] = queue[e]
      <4>1. To(t) \in Targets(t) /\ At(t, "send")
        BY <3>2, NextOp DEF SendItem, CallsSend, Sendable, TypeInv
      <4>2. CASE To(t).task = e
        <5>1. To(t).in = 0
          BY <1>1, <4>1, <4>2, DstIs
        <5>2. t = f /\ To(t) = p
          BY <1>2, <1>3, <4>1, <4>2, <5>1, OneSource
        <5> QED BY <1>8, <3>2, <4>1, <5>2 DEF Passes
      <4>3. CASE To(t).task # e
        BY <1>1, <1>3, <3>2, <4>3 DEF SendItem, Enqueue
      <4> QED BY <4>2, <4>3
    <3>3. ~Cleanup(e)
      BY <1>1 DEF Cleanup, HangUp, TypeInv, FinType
    <3> QED BY <1>1, <1>8, <3>1, <3>2, <3>3, QueueOf
  <2> QED BY <1>1, <1>2, <1>5, <1>8, <2>1 DEF TakenUpTo
<1> QED BY <1>6, <1>7, <1>8

LEMMA DemuxerTakes ==
    ASSUME TypeInv, [Next]_vars, NEW d \in Demuxers, NEW n \in Targets(d), NEW b,
           TakenUpTo(d, n, b), n \notin dst_finished'[d]
    PROVE  IF DemuxSend(d) /\ NextPacket(d).out = n.out
             THEN NextPacket(d).k = b + 1 /\ TakenUpTo(d, n, b + 1)'
             ELSE TakenUpTo(d, n, b)'
<1>1. /\ d \in Tasks /\ d \notin Encoders /\ n.out \in Nat /\ dst_finished[d] \subseteq dst_finished'[d]
      /\ pos = [x \in Demuxers |-> pos[x]] /\ pos[d] \in 0 .. Len(Script[d]) /\ Len(Script[d]) \in Nat
      /\ DOMAIN Script[d] = 1 .. Len(Script[d]) /\ pos[d] \in Nat
  <2>1. d \in Tasks /\ d \notin Encoders
    BY KindsDiffer DEF Tasks
  <2>2. n.out \in Nat /\ dst_finished[d] \subseteq dst_finished'[d]
    BY <2>1, DstIs, DstGrows DEF EdgeRecords
  <2>3. Len(Script[d]) \in Nat /\ DOMAIN Script[d] = 1 .. Len(Script[d])
    BY SchedulerAssumption
  <2> QED BY <2>1, <2>2, <2>3 DEF TypeInv, PosIs, PosType
<1>2. ReadOf(d, n.out, pos[d]) = b
  BY <1>1 DEF TakenUpTo
<1>3. ASSUME pos'[d] = pos[d] PROVE TakenUpTo(d, n, b)'
  BY <1>2, <1>3 DEF TakenUpTo
<1>4. ASSUME ~AtEnd(d), pos' = [pos EXCEPT ![d] = @ + 1]
      PROVE  /\ pos[d] + 1 \in DOMAIN Script[d]
             /\ IF NextPacket(d).out = n.out THEN TakenUpTo(d, n, b + 1)'
                                             ELSE TakenUpTo(d, n, b)'
  <2>1. pos[d] + 1 \in DOMAIN Script[d] /\ pos'[d] = pos[d] + 1
    BY <1>1, <1>4 DEF AtEnd
  <2>2. ReadOf(d, n.out, pos[d] + 1)
          = ReadOf(d, n.out, pos[d]) + (IF NextPacket(d).out = n.out THEN 1 ELSE 0)
    BY <1>1, ReadOne DEF NextPacket
  <2>3. ReadOf(d, n.out, pos[d]) \in Nat
    BY <1>1, ReadOne
  <2> QED BY <1>2, <2>1, <2>2, <2>3 DEF TakenUpTo
<1>5. CASE DemuxSend(d)
  <2>1. ~AtEnd(d) /\ pos' = [pos EXCEPT ![d] = @ + 1] /\ NextPacket(d).out # -1
    BY <1>5 DEF DemuxSend, Looping
  <2>2. NextPacket(d).k = ReadOf(d, NextPacket(d).out, pos[d]) + 1
    BY <1>1, <1>4, <2>1, ScriptIs DEF NextPacket
  <2> QED BY <1>2, <1>4, <1>5, <2>1, <2>2
<1>6. CASE DemuxSkip(d) /\ ~DemuxSend(d)
  <2>1. ~AtEnd(d) /\ pos' = [pos EXCEPT ![d] = @ + 1] /\ NextPacket(d).out \in StreamsDone(d)
    BY <1>6 DEF DemuxSkip
  <2>2. NextPacket(d).out # n.out
    BY <1>1, <2>1 DEF StreamsDone
  <2> QED BY <1>4, <1>6, <2>1, <2>2
<1>7. CASE DemuxFlush(d) /\ ~DemuxSend(d)
  <2>1. ~AtEnd(d) /\ pos' = [pos EXCEPT ![d] = @ + 1] /\ NextPacket(d).out = -1
    BY <1>7 DEF DemuxFlush, Looping
  <2> QED BY <1>1, <1>4, <1>7, <2>1
<1>8. CASE ~DemuxSend(d) /\ ~DemuxSkip(d) /\ ~DemuxFlush(d)
  <2>1. pos'[d] = pos[d]
    <3>1. CASE \E t \in Tasks : Reads(t)
      <4>1. PICK t \in Tasks : Reads(t)
        BY <3>1
      <4>2. t # d /\ pos' = [pos EXCEPT ![t] = @ + 1]
        BY <1>8, <4>1 DEF Reads, DemuxSend, DemuxSkip, DemuxFlush
      <4> QED BY <1>1, <4>2
    <3> QED BY <3>1, ReadsAside
  <2> QED BY <1>3, <1>8, <2>1
<1> QED BY <1>5, <1>6, <1>7, <1>8

--------------------------------------------------------------------------------
(* What a demuxer or an encoder has sent. *)

LEMMA LoopIsLeft ==
    ASSUME TypeInv, [Next]_vars, NEW u \in Demuxers \cup Encoders, pc'[u] # pc[u]
    PROVE  pc'[u] \in {"returned", "cleanup"}
<1>1. /\ u \in Tasks /\ u \notin Muxers /\ u \notin Filters /\ u \notin Decoders
      /\ pc = [x \in Tasks |-> pc[x]] /\ TodoType
  BY KindsDiffer DEF Tasks, Consumers, TypeInv, PcType
<1>2. PICK t \in Tasks : Leads(t)
  BY LeadsAside
<1>3. ASSUME NEW x, NEW v, pc' = [pc EXCEPT ![x] = v] PROVE x = u /\ v = pc'[u]
  BY <1>1, <1>3
<1>4. ~StreamReady(t)
  <2>1. StreamReady(t) => To(t).task \in Muxers
    BY <1>1, NextOp DEF StreamReady
  <2>2. StreamReady(t) => pc' = [pc EXCEPT ![To(t).task] = "loop"]
    BY DEF StreamReady
  <2> QED BY <1>1, <1>3, <2>1, <2>2
<1>5. CASE PreMuxFull(t) \/ Cleanup(t) \/ Fail(t)
  BY <1>3, <1>5 DEF PreMuxFull, Cleanup, Fail, GoTo
<1>6. CASE \/ t \in Demuxers /\ (DemuxReturn(t) \/ FlushEof(t))
           \/ t \in Decoders \cup Encoders /\ CodecEnd(t)
  BY <1>3, <1>6 DEF DemuxReturn, FlushEof, CodecEnd, GoTo
<1>7. ASSUME t \in Decoders, DecoderStop(t) \/ DecoderFlush(t) \/ DecoderEndTs(t) PROVE FALSE
  BY <1>1, <1>3, <1>7 DEF DecoderStop, DecoderFlush, DecoderEndTs, GoTo
<1>8. ASSUME t \in Muxers, MuxReturn(t) \/ MuxDone(t) PROVE FALSE
  BY <1>1, <1>3, <1>8 DEF MuxReturn, MuxDone, GoTo
<1>9. t \notin Filters
  <2>1. SUFFICES ASSUME t \in Filters, ~(PreMuxFull(t) \/ Cleanup(t) \/ Fail(t)) PROVE FALSE
    <3>1. ASSUME t \in Filters, PreMuxFull(t) PROVE FALSE
      <4>1. To(t) \in Targets(t) /\ To(t).task \in Muxers
        BY <1>1, <3>1, NextOp DEF PreMuxFull, Parking
      <4> QED BY <3>1, <4>1, TargetKinds, KindsDiffer
    <3>2. ASSUME t \in Filters, Cleanup(t) \/ Fail(t) PROVE FALSE
      BY <1>1, <1>3, <3>2 DEF Cleanup, Fail, GoTo
    <3> QED BY <3>1, <3>2
  <2>2. t \notin Demuxers /\ t \notin Decoders /\ t \notin Encoders /\ t \notin Muxers
    BY <2>1, KindsDiffer
  <2>3. CASE FilterItem(t) \/ FilterStreamEnd(t) \/ FilterNothing(t) \/ FilterTurn(t)
               \/ FilterUnconfigured(t)
    <3>1. \E v : pc' = [pc EXCEPT ![t] = v]
      BY <2>3 DEF FilterItem, FilterStreamEnd, FilterNothing, FilterTurn, FilterUnconfigured, GoTo
    <3> QED BY <1>1, <1>3, <2>1, <3>1
  <2>4. CASE FilterRead(t) \/ FilterConsumersDone(t) \/ FilterRequest(t) \/ FilterReturn(t)
    <3>1. \E v : pc' = [pc EXCEPT ![t] = v]
      BY <2>4 DEF FilterRead, FilterConsumersDone, FilterRequest, FilterReturn, GoTo
    <3> QED BY <1>1, <1>3, <2>1, <3>1
  <2> QED BY <1>2, <1>4, <2>1, <2>2, <2>3, <2>4 DEF Leads
<1> QED BY <1>2, <1>4, <1>5, <1>6, <1>7, <1>8, <1>9 DEF Leads

LEMMA OverStays ==
    ASSUME TypeInv, [Next]_vars, NEW u \in Demuxers \cup Encoders, NEW n, Over(u, n)
    PROVE  Over(u, n)'
<1>1. u \in Tasks /\ (u \in Encoders => u \in Consumers)
  BY DEF Tasks, Consumers
<1>2. dst_finished[u] \subseteq dst_finished'[u]
  BY <1>1, DstGrows
<1>3. u \in Encoders => recv_fin[u] \subseteq recv_fin'[u]
  BY <1>1, RefusalsStay
<1>4. pc[u] # "loop" => pc'[u] # "loop"
  BY LoopIsLeft
<1> QED BY <1>2, <1>3, <1>4 DEF Over

\* It takes a packet or a frame that is for n ...
Takes(u, n) ==
    \/ u \in Demuxers /\ DemuxSend(u) /\ NextPacket(u).out = n.out
    \/ u \in Encoders /\ CodecItem(u)

\* ... with this number.
Number(u) == IF u \in Demuxers THEN NextPacket(u).k ELSE Head(queue[u]).k

LEMMA TakenNext ==
    ASSUME TypeInv, SendsOnce, [Next]_vars, NEW u \in Demuxers \cup Encoders,
           NEW n \in Targets(u), NEW b, TakenUpTo(u, n, b), ~Over(u, n)'
    PROVE  IF Takes(u, n) THEN Number(u) = b + 1 /\ TakenUpTo(u, n, b + 1)'
                          ELSE TakenUpTo(u, n, b)'
<1>1. CASE u \in Demuxers
  <2>1. u \notin Encoders
    BY <1>1, KindsDiffer
  <2>2. n \notin dst_finished'[u]
    BY DEF Over
  <2> QED BY <1>1, <2>1, <2>2, DemuxerTakes DEF Takes, Number
<1>2. CASE u \in Encoders
  <2>1. u \notin Demuxers
    BY <1>2, KindsDiffer
  <2>2. 0 \notin recv_fin'[u]
    BY <1>2 DEF Over
  <2> QED BY <1>2, <2>1, <2>2, EncoderTakes DEF Takes, Number
<1> QED BY <1>1, <1>2

LEMMA TakesSends ==
    ASSUME TypeInv, NEW u \in Demuxers \cup Encoders, NEW n \in Targets(u), Takes(u, n)
    PROVE  /\ todo[u] = <<>> /\ pc[u] = "loop"
           /\ UNCHANGED <<pc, dst_finished, recv_fin>>
           /\ ToSend(u, n)' = IF n \in dst_finished[u] THEN {} ELSE {Number(u)}
<1>1. u \in Tasks /\ TodoType /\ u \in DOMAIN todo
  BY DEF Tasks, Consumers, TypeInv, TodoType
<1>2. CASE u \in Demuxers
  <2> DEFINE N == {x \in Targets(u) \ dst_finished[u] : x.out = NextPacket(u).out}
             k == NextPacket(u).k
  <2>1. DemuxSend(u) /\ NextPacket(u).out = n.out /\ Number(u) = k
    BY <1>2, KindsDiffer DEF Takes, Number
  <2>2. k \in Int
    <3>1. Script[u] \in Seq([out : Int, k : Int]) /\ pos[u] \in 0 .. Len(Script[u])
      BY <1>2, SchedulerAssumption DEF TypeInv, PosIs, PosType
    <3>2. pos[u] + 1 \in DOMAIN Script[u]
      BY <2>1, <3>1 DEF DemuxSend, AtEnd
    <3>3. Script[u][pos[u] + 1] \in [out : Int, k : Int]
      BY <3>1, <3>2, EntryIs
    <3> QED BY <3>3 DEF NextPacket
  <2>3. todo'[u] = ForEach(DstWith(u, N), "send", k)
    BY <1>1, <2>1 DEF DemuxSend, OpenDstOf
  <2>4. n \in N <=> n \notin dst_finished[u]
    BY <2>1
  <2> HIDE DEF N, k
  <2>5. ToSend(u, n)' = IF n \in N THEN {k} ELSE {}
    BY <1>1, <2>2, <2>3, SendingEach DEF ToSend
  <2>6. todo[u] = <<>> /\ pc[u] = "loop" /\ UNCHANGED <<pc, dst_finished, recv_fin>>
    BY <2>1 DEF DemuxSend, Idle, queues
  <2> QED BY <2>1, <2>4, <2>5, <2>6
<1>3. CASE u \in Encoders
  <2> DEFINE N == Targets(u) \ dst_finished[u]
             k == Head(queue[u]).k
  <2>1. CodecItem(u) /\ Number(u) = k /\ u \in Consumers
    BY <1>3, KindsDiffer DEF Takes, Number, Consumers
  <2>2. k \in Int
    <3>1. queue[u] # <<>>
      BY <2>1 DEF CodecItem, TakeItem, HasItem
    <3> QED BY <2>1, <3>1, HeadItem DEF TypeInv, Items
  <2>3. todo'[u] = ForEach(DstWith(u, N), "send", k)
    BY <1>1, <2>1 DEF CodecItem, OpenDst
  <2>4. n \in N <=> n \notin dst_finished[u]
    OBVIOUS
  <2> HIDE DEF N, k
  <2>5. ToSend(u, n)' = IF n \in N THEN {k} ELSE {}
    BY <1>1, <2>2, <2>3, SendingEach DEF ToSend
  <2>6. todo[u] = <<>> /\ pc[u] = "loop" /\ UNCHANGED <<pc, dst_finished, recv_fin>>
    BY <2>1 DEF CodecItem, Idle, TakeItem
  <2> QED BY <2>1, <2>4, <2>5, <2>6
<1> QED BY <1>2, <1>3

\* A packet of another stream.
LEMMA TakesOther ==
    ASSUME TypeInv, NEW d \in Demuxers, NEW n \in Targets(d), DemuxSend(d),
           NextPacket(d).out # n.out
    PROVE  ToSend(d, n) = {} /\ ToSend(d, n)' = {}
<1> DEFINE N == {x \in Targets(d) \ dst_finished[d] : x.out = NextPacket(d).out}
           k == NextPacket(d).k
<1>1. d \in Tasks /\ todo[d] = <<>> /\ d \in DOMAIN todo
  BY DEF Tasks, DemuxSend, Idle, TypeInv, TodoType
<1>2. k \in Int
  <2>1. Script[d] \in Seq([out : Int, k : Int]) /\ pos[d] \in 0 .. Len(Script[d])
    BY SchedulerAssumption DEF TypeInv, PosIs, PosType
  <2>2. pos[d] + 1 \in DOMAIN Script[d]
    BY <2>1 DEF DemuxSend, AtEnd
  <2>3. Script[d][pos[d] + 1] \in [out : Int, k : Int]
    BY <2>1, <2>2, EntryIs
  <2> QED BY <2>3 DEF NextPacket
<1>3. todo'[d] = ForEach(DstWith(d, N), "send", k) /\ n \notin N
  BY <1>1 DEF DemuxSend, OpenDstOf
<1> HIDE DEF N, k
<1> QED BY <1>1, <1>2, <1>3, SendingEach, SendingNothing DEF ToSend

LEMMA SentNext ==
    ASSUME TypeInv, SendsOnce, NoneRefused, [Next]_vars, NEW u \in Demuxers \cup Encoders,
           NEW n \in Targets(u), n.task \in Muxers, NEW b \in Nat, SentUpTo(u, n, b),
           ~(SendEof(u) /\ To(u) = n)
    PROVE  IF Passes(u, n) THEN Item(u) = b + 1 /\ SentUpTo(u, n, b + 1)'
                           ELSE SentUpTo(u, n, b)'
<1>1. u \in Tasks /\ u \notin Filters /\ (u \in Encoders => u \in Consumers /\ u \notin Demuxers)
  BY KindsDiffer DEF Tasks, Consumers
<1>2. ~Over(u, n)' => ~Over(u, n)
  BY OverStays
<1>3. Passes(u, n) => ~Takes(u, n)
  BY TakesSends, PassesAct
<1>4. CASE Passes(u, n)
  <2>1. ToSend(u, n) = {Item(u)} /\ ToSend(u, n)' = {}
    BY <1>1, <1>4, PassSends
  <2>2. Item(u) = b + 1 /\ (Over(u, n) \/ TakenUpTo(u, n, b + 1))
    BY <2>1 DEF SentUpTo
  <2>3. Over(u, n)' \/ TakenUpTo(u, n, b + 1)'
    BY <1>2, <1>3, <1>4, <2>2, TakenNext
  <2> QED BY <1>4, <2>1, <2>2, <2>3 DEF SentUpTo
<1>5. CASE Takes(u, n)
  <2>1. /\ todo[u] = <<>> /\ pc[u] = "loop" /\ UNCHANGED <<pc, dst_finished, recv_fin>>
        /\ ToSend(u, n)' = IF n \in dst_finished[u] THEN {} ELSE {Number(u)}
    BY <1>5, TakesSends
  <2>2. CASE n \in dst_finished[u]
    BY <1>3, <1>5, <2>1, <2>2 DEF SentUpTo, Over
  <2>3. CASE n \notin dst_finished[u]
    <3>1. u \in Encoders => 0 \notin recv_fin[u]
      <4> SUFFICES ASSUME u \in Encoders PROVE 0 \notin recv_fin[u]
        OBVIOUS
      <4>1. queue[u] # <<>> /\ queue[u] \in Seq(Items)
        BY <1>1, <1>5 DEF Takes, CodecItem, TakeItem, HasItem, TypeInv, QueueInv, QueueType
      <4>2. Head(queue[u]).in = 0
        BY <1>1, <4>1, HeadItem, EncoderIs DEF TypeInv
      <4>3. 1 \in DOMAIN queue[u] /\ queue[u][1].in = 0
        BY <4>1, <4>2
      <4> QED BY <1>1, <4>3 DEF NoneRefused
    <3>2. ~Over(u, n) /\ ~Over(u, n)'
      BY <2>1, <2>3, <3>1 DEF Over
    <3>3. TakenUpTo(u, n, b)
      <4>1. ToSend(u, n) = {}
        BY <2>1, SendingNothing DEF ToSend
      <4> QED BY <3>2, <4>1 DEF SentUpTo
    <3>4. Number(u) = b + 1 /\ TakenUpTo(u, n, b + 1)'
      BY <1>5, <3>2, <3>3, TakenNext
    <3> QED BY <1>3, <1>5, <2>1, <2>3, <3>4 DEF SentUpTo
  <2> QED BY <2>2, <2>3
<1>6. CASE ~Passes(u, n) /\ ~Takes(u, n)
  <2>1. ToSend(u, n)' = ToSend(u, n) \/ (ToSend(u, n)' = {} /\ pc'[u] = "returned")
    <3>1. CASE u \in Demuxers /\ DemuxSend(u)
      <4>1. NextPacket(u).out # n.out
        BY <1>6, <3>1 DEF Takes
      <4> QED BY <3>1, <4>1, TakesOther
    <3>2. CASE ~(u \in Demuxers /\ DemuxSend(u))
      <4>1. ~(u \in Encoders /\ CodecItem(u))
        BY <1>6 DEF Takes
      <4> QED BY <1>1, <1>6, <3>2, <4>1, SendsStay
    <3> QED BY <3>1, <3>2
  <2>2. CASE Over(u, n)'
    BY <1>6, <2>1, <2>2 DEF SentUpTo
  <2>3. CASE ~Over(u, n)'
    <3>1. ToSend(u, n)' = ToSend(u, n) /\ ~Over(u, n)
      BY <1>2, <2>1, <2>3 DEF Over
    <3>2. ASSUME NEW x, TakenUpTo(u, n, x) PROVE TakenUpTo(u, n, x)'
      BY <1>6, <2>3, <3>2, TakenNext
    <3> QED BY <1>6, <3>1, <3>2 DEF SentUpTo
  <2> QED BY <2>2, <2>3
<1> QED BY <1>4, <1>5, <1>6

--------------------------------------------------------------------------------
(* Which streams a muxer still takes. *)

\* It has not refused the stream behind n and is not about to.
Wanted(n) ==
    /\ n.in \notin recv_fin[n.task]
    /\ \A j \in DOMAIN todo[n.task] :
          todo[n.task][j].op = "hangup" => todo[n.task][j].to.in # n.in

LEMMA LaterOps ==
    ASSUME NEW q \in Seq(Ops), q # <<>>, NEW x \in Ops, NEW j \in DOMAIN q, j # 1
    PROVE  /\ j - 1 \in DOMAIN Tail(q) /\ Tail(q)[j - 1] = q[j]
           /\ j \in DOMAIN (<<x>> \o Tail(q)) /\ (<<x>> \o Tail(q))[j] = q[j]
<1> DEFINE r == Tail(q)
<1>1. /\ Len(q) \in Nat /\ j \in 2 .. Len(q)
      /\ r \in Seq(Ops) /\ Len(r) = Len(q) - 1 /\ \A k \in 1 .. Len(q) - 1 : r[k] = q[k + 1]
  OBVIOUS
<1>2. j - 1 \in 1 .. Len(q) - 1 /\ (j - 1) + 1 = j
  BY <1>1
<1> HIDE DEF r
<1>3. j - 1 \in DOMAIN r /\ r[j - 1] = q[j]
  BY <1>1, <1>2
<1>4. j \in DOMAIN (<<x>> \o r) /\ (<<x>> \o r)[j] = r[j - 1]
  BY <1>1, <1>2
<1> QED BY <1>3, <1>4 DEF r

LEMMA WantedBefore ==
    ASSUME TypeInv, [Next]_vars, NEW u \in Tasks, NEW n \in Targets(u), n.task \in Muxers,
           Wanted(n)'
    PROVE  Wanted(n)
<1> DEFINE m == n.task
<1>1. /\ m \in Muxers /\ m \in Tasks /\ m \in Consumers /\ n.in \in Inputs(m)
      /\ TodoType /\ todo[m] \in Seq(Ops) /\ m \in DOMAIN todo
  BY DstIs DEF Tasks, Consumers, TypeInv, TodoType
<1>2. recv_fin[m] \subseteq recv_fin'[m] /\ n.in \notin recv_fin'[m]
  BY <1>1, RefusalsStay DEF Wanted
<1> SUFFICES ASSUME NEW j \in DOMAIN todo[m], todo[m][j].op = "hangup", todo[m][j].to.in = n.in
             PROVE  FALSE
  BY <1>2 DEF Wanted
<1>3. todo'[m] # todo[m] /\ ~(\E k \in DOMAIN todo'[m] : todo'[m][k] = todo[m][j])
  BY DEF Wanted
<1> HIDE DEF m
<1>4. todo[m] # <<>>
  BY <1>1
<1>5. ASSUME Proceed(m) \/ \E x \in Ops : ProceedWith(m, <<x>>) PROVE j = 1
  <2>1. CASE Proceed(m)
    <3>1. todo'[m] = Tail(todo[m])
      BY <1>1, <2>1 DEF Proceed
    <3>2. todo[m][j] \in Ops
      BY <1>1, EntryIs
    <3>3. j # 1 => Tail(todo[m])[j - 1] = todo[m][j] /\ j - 1 \in DOMAIN Tail(todo[m])
      BY <1>1, <1>4, <3>2, LaterOps
    <3> QED BY <1>3, <3>1, <3>3
  <2>2. CASE \E x \in Ops : ProceedWith(m, <<x>>)
    <3>1. PICK x \in Ops : todo'[m] = <<x>> \o Tail(todo[m])
      BY <1>1, <2>2 DEF ProceedWith
    <3> QED BY <1>1, <1>3, <1>4, <3>1, LaterOps, ZenonT(60)
  <2> QED BY <1>5, <2>1, <2>2
<1>6. CASE MuxUpdate(m) \/ MuxCount(m)
  <2>1. Proceed(m) /\ todo[m][1].op # "hangup"
    BY <1>1, <1>6, HeadIs DEF MuxUpdate, MuxCount, At
  <2> QED BY <1>5, <2>1
<1>7. CASE MuxHangUp(m)
  <2>1. At(m, "hangup") /\ To(m) = todo[m][1].to /\ todo[m][1].to \in Places
    BY <1>1, <1>7, HeadIs DEF MuxHangUp
  <2>2. ProceedWith(m, <<Op("update", To(m), 0)>>) /\ Op("update", To(m), 0) \in Ops
    BY <1>7, <2>1, OpIs DEF MuxHangUp, OpNames
  <2>3. j = 1
    BY <1>5, <2>2
  <2>4. recv_fin' = [recv_fin EXCEPT ![m] = @ \cup {n.in}]
    BY <1>7, <2>1, <2>3 DEF MuxHangUp, HangUp
  <2> QED BY <1>1, <1>2, <2>4 DEF TypeInv, FinType
<1>8. CASE MuxDone(m)
  <2>1. recv_fin' = [recv_fin EXCEPT ![m] = @ \cup Inputs(m)]
    BY <1>8 DEF MuxDone, HangUp
  <2> QED BY <1>1, <1>2, <2>1 DEF TypeInv, FinType
<1>9. ~MuxItem(m)
  BY <1>4 DEF MuxItem, Idle
<1> QED BY <1>1, <1>3, <1>6, <1>7, <1>8, <1>9, MuxActs

--------------------------------------------------------------------------------
(* From the file back to the source: no packet is missing on the way. *)

WrittenType == written = [ms \in MuxStreams |-> written[ms]]

\* Queued and parked for n is what follows the file, up to b and then to c.
Way(n, b, c) ==
    /\ Numbered(queue[n.task], n.in, written[MuxStream(n)], b)
    /\ Parked(pre_mux[MuxStream(n)], b, c)

WayTo(n, c) == \E b \in Nat : Way(n, b, c)

\* A packet that passes is on its way then.
GoesOn(u, n, c) == IF Passes(u, n) THEN WayTo(n, c + 1)' ELSE WayTo(n, c)'

\* The number follows, and nothing of the stream is being refused.
Flows(u, n, b, c) ==
    /\ Way(n, b, c) /\ c \in Nat /\ b \in Nat
    /\ Passes(u, n) => Item(u) = c + 1
    /\ Wanted(n) /\ Wanted(n)'

LEMMA PassesAlone ==
    ASSUME TypeInv, SendsOnce, NEW u \in Tasks, NEW n, Passes(u, n), NEW t \in Tasks, Acts(t)
    PROVE  t = u
<1>1. ToSend(u, n) = {Item(u)} /\ ToSend(u, n)' = {}
  BY PassSends
<1>2. u # t => todo'[u] = todo[u]
  BY OneActs
<1> QED BY <1>1, <1>2 DEF ToSend

LEMMA StreamIs ==
    ASSUME TypeInv, WrittenType, NEW u \in Tasks, NEW n \in Targets(u), n.task \in Muxers
    PROVE  /\ MuxStream(n) \in MuxStreams /\ MuxStream(n) = [task |-> n.task, in |-> n.in]
           /\ MuxStream(n).task = n.task /\ MuxStream(n).in = n.in
           /\ n.task \in Tasks /\ n.task \in Consumers /\ n.in \in Inputs(n.task)
           /\ queue \in [Consumers -> Seq(Items)] /\ queue[n.task] \in Seq(Items)
           /\ pre_mux \in [MuxStreams -> Seq(Int)] /\ pre_mux[MuxStream(n)] \in Seq(Int)
           /\ MuxStream(n) \in DOMAIN written /\ u \notin Muxers
BY DstIs, TargetKinds, MuxStreamsAre
   DEF TypeInv, QueueInv, QueueType, MuxType, WrittenType, MuxStream, Tasks, Consumers

\* A task sends a packet to a muxer that has started, or elsewhere.
LEMMA WaySends ==
    ASSUME TypeInv, SendsOnce, WrittenType, NothingLeftPreMuxed, NEW u \in Tasks,
           NEW n \in Targets(u), n.task \in Muxers, NEW b, NEW c, Flows(u, n, b, c),
           NEW t \in Tasks, SendItem(t)
    PROVE  GoesOn(u, n, c)
<1> DEFINE m == n.task  i == n.in  ms == MuxStream(n)  x == [in |-> To(t).in, k |-> Item(t)]
<1>1. /\ queue \in [Consumers -> Seq(Items)] /\ queue[m] \in Seq(Items) /\ m \in Consumers
      /\ ms \in MuxStreams /\ ms.task = m
  BY StreamIs
<1>2. UNCHANGED <<pre_mux, written>> /\ Sendable(t) /\ At(t, "send")
        /\ queue' = [queue EXCEPT ![To(t).task] = Append(@, x)]
  BY DEF SendItem, muxing, Enqueue, CallsSend, Sendable
<1>3. To(t) \in Targets(t) /\ To(t).in \in Nat /\ Item(t) \in Int
  BY <1>2, NextOp, HeadIs, DstIs DEF TypeInv, EdgeRecords
<1>4. Acts(t)
  BY DEF Acts
<1>5. Numbered(queue[m], i, written[ms], b) /\ Parked(pre_mux[ms], b, c) /\ b \in Nat /\ c \in Nat
  BY DEF Flows, Way
<1>6. x \in Items /\ x.in = To(t).in /\ x.k = Item(t)
  BY <1>3 DEF Items
<1> HIDE DEF x
<1>7. CASE To(t) = n
  <2>1. t = u
    BY <1>3, <1>7, OneSource
  <2>2. Passes(u, n) /\ Item(t) = c + 1
    BY <1>2, <1>7, <2>1 DEF Passes, Flows
  <2>3. b = c
    <3>1. m \in mux_started
      BY <1>2, <1>7 DEF Sendable
    <3>2. pre_mux[ms] = <<>>
      BY <1>1, <3>1 DEF NothingLeftPreMuxed, PreMuxed
    <3> QED BY <1>5, <3>2, ParkedNone
  <2>4. queue'[m] = Append(queue[m], x)
    BY <1>1, <1>2, <1>7
  <2>5. Numbered(queue'[m], i, written[ms], b + 1)
    BY <1>1, <1>5, <1>6, <1>7, <2>2, <2>3, <2>4, NumberedAppend
  <2>6. pre_mux[ms] = <<>> /\ c + 1 \in Nat
    BY <1>1, <1>2, <1>5, <1>7 DEF Sendable, NothingLeftPreMuxed, PreMuxed
  <2>7. Parked(pre_mux[ms], c + 1, c + 1)
    BY <2>6, ParkedNone
  <2>8. Way(n, c + 1, c + 1)'
    BY <1>2, <2>3, <2>5, <2>7 DEF Way
  <2> QED BY <2>2, <2>6, <2>8 DEF GoesOn, WayTo
<1>8. CASE To(t) # n
  <2>1. ~Passes(u, n)
    BY <1>4, <1>8, PassesAlone DEF Passes
  <2>2. Numbered(queue'[m], i, written[ms], b)
    <3>1. CASE To(t).task = m
      <4>1. x.in # i
        BY <1>3, <1>6, <1>8, <3>1, OneSource
      <4>2. queue'[m] = Append(queue[m], x)
        BY <1>1, <1>2, <3>1
      <4> QED BY <1>1, <1>5, <1>6, <4>1, <4>2, NumberedAppend
    <3>2. CASE To(t).task # m
      BY <1>1, <1>2, <1>5, <3>2
    <3> QED BY <3>1, <3>2
  <2>3. Way(n, b, c)'
    BY <1>2, <1>5, <2>2 DEF Way
  <2> QED BY <1>5, <2>1, <2>3 DEF GoesOn, WayTo
<1> QED BY <1>7, <1>8

\* It parks a packet, or the end.
LEMMA WayParks ==
    ASSUME TypeInv, SendsOnce, WrittenType, NEW u \in Tasks, NEW n \in Targets(u),
           n.task \in Muxers, NEW b, NEW c, Flows(u, n, b, c), NEW t \in Tasks, PreMux(t)
    PROVE  GoesOn(u, n, c)
<1> DEFINE ms == MuxStream(n)  k == IF At(t, "send") THEN Item(t) ELSE 0
<1>1. pre_mux \in [MuxStreams -> Seq(Int)] /\ pre_mux[ms] \in Seq(Int) /\ ms \in MuxStreams
  BY StreamIs
<1>2. /\ UNCHANGED <<queue, written>> /\ (At(t, "send") \/ At(t, "finish"))
      /\ pre_mux' = [pre_mux EXCEPT ![MuxStream(To(t))] = Append(@, k)]
  BY DEF PreMux, queues, local
<1>3. To(t) \in Targets(t) /\ k \in Int /\ Acts(t)
  BY <1>2, NextOp, HeadIs DEF TypeInv, Acts
<1>4. Numbered(queue[n.task], n.in, written[ms], b) /\ Parked(pre_mux[ms], b, c)
        /\ b \in Nat /\ c \in Nat
  BY DEF Flows, Way
<1>5. CASE MuxStream(To(t)) = ms /\ At(t, "send")
  <2>1. t = u /\ To(t) = n
    BY <1>3, <1>5, SameStream
  <2>2. Passes(u, n) /\ k = c + 1
    BY <1>5, <2>1 DEF Passes, Flows
  <2>3. pre_mux'[ms] = Append(pre_mux[ms], k)
    BY <1>1, <1>2, <1>5
  <2> HIDE DEF k
  <2>4. Parked(pre_mux'[ms], b, c + 1)
    BY <1>1, <1>3, <1>4, <2>2, <2>3, ParkedAppend
  <2>5. Way(n, b, c + 1)'
    BY <1>2, <1>4, <2>4 DEF Way
  <2> QED BY <1>4, <2>2, <2>5 DEF GoesOn, WayTo
<1>6. CASE MuxStream(To(t)) = ms /\ At(t, "finish")
  <2>1. t = u /\ k = 0
    <3>1. ~At(t, "send")
      BY <1>6 DEF At
    <3> QED BY <1>3, <1>6, <3>1, SameStream
  <2>2. ~Passes(u, n)
    BY <1>6, <2>1 DEF Passes, At
  <2>3. pre_mux'[ms] = Append(pre_mux[ms], k)
    BY <1>1, <1>2, <1>6
  <2> HIDE DEF k
  <2>4. Parked(pre_mux'[ms], b, c)
    BY <1>1, <1>3, <1>4, <2>1, <2>3, ParkedAppend
  <2>5. Way(n, b, c)'
    BY <1>2, <1>4, <2>4 DEF Way
  <2> QED BY <1>4, <2>2, <2>5 DEF GoesOn, WayTo
<1>7. CASE MuxStream(To(t)) # ms
  <2>1. ~Passes(u, n)
    BY <1>3, <1>7, PassesAlone DEF Passes
  <2>2. pre_mux'[ms] = pre_mux[ms]
    BY <1>1, <1>2, <1>7
  <2>3. Way(n, b, c)'
    BY <1>2, <1>4, <2>2 DEF Way
  <2> QED BY <1>4, <2>1, <2>3 DEF GoesOn, WayTo
<1> QED BY <1>2, <1>5, <1>6, <1>7

\* The thread that starts a muxer takes a packet from what is parked.
LEMMA WayFlushes ==
    ASSUME TypeInv, SendsOnce, WrittenType, NEW u \in Tasks, NEW n \in Targets(u),
           n.task \in Muxers, NEW b, NEW c, Flows(u, n, b, c), NEW t \in Tasks, FlushStep(t),
           ToldAreRefused
    PROVE  GoesOn(u, n, c)
<1> DEFINE m == n.task  i == n.in  ms == MuxStream(n)
<1>1. /\ queue \in [Consumers -> Seq(Items)] /\ queue[m] \in Seq(Items) /\ m \in Consumers
      /\ pre_mux \in [MuxStreams -> Seq(Int)] /\ pre_mux[ms] \in Seq(Int)
      /\ ms \in MuxStreams /\ ms = [task |-> m, in |-> i] /\ ms.task = m /\ ms.in = i
  BY StreamIs
<1>2. PICK f \in flusher : \E o \in EarliestPreMuxed(f.mux) :
          /\ pre_mux' = [pre_mux EXCEPT ![o] = Tail(@)]
          /\ queue' = IF Head(pre_mux[o]) = 0 \/ Refused(o) THEN queue
                      ELSE Enqueue(o, Head(pre_mux[o]))
  BY FlushStepIs DEF Flushed, FlushSends, ToldAreRefused, Refused
<1>3. PICK o \in EarliestPreMuxed(f.mux) :
          /\ pre_mux' = [pre_mux EXCEPT ![o] = Tail(@)]
          /\ queue' = IF Head(pre_mux[o]) = 0 \/ Refused(o) THEN queue
                      ELSE Enqueue(o, Head(pre_mux[o]))
  BY <1>2
<1> DEFINE k == Head(pre_mux[o])  x == [in |-> o.in, k |-> k]
<1>4. /\ o \in MuxStreams /\ o.task \in Muxers /\ o.in \in Inputs(o.task)
      /\ pre_mux[o] \in Seq(Int) /\ pre_mux[o] # <<>> /\ k \in Int
      /\ o = [task |-> o.task, in |-> o.in] /\ o.in \in Nat
  <2>1. o.task \in Consumers /\ o.in \in Inputs(o.task)
    BY EarliestIs DEF TypeInv, Consumers
  <2> QED BY <2>1, EarliestIs, MuxStreamsAre, InputsAre DEF TypeInv
<1>5. Numbered(queue[m], i, written[ms], b) /\ Parked(pre_mux[ms], b, c) /\ b \in Nat /\ c \in Nat
  BY DEF Flows, Way
<1>6. UNCHANGED <<todo, written>>
  BY DEF FlushStep, local
<1>7. ~Passes(u, n)
  <2>1. Passes(u, n) => ToSend(u, n) = {Item(u)} /\ ToSend(u, n)' = {}
    BY PassSends
  <2>2. ToSend(u, n)' = ToSend(u, n)
    BY <1>6 DEF ToSend
  <2> QED BY <2>1, <2>2
<1>8. x \in Items /\ x.in = o.in /\ x.k = k
  BY <1>4 DEF Items
<1>9. queue' = IF k = 0 \/ Refused(o) THEN queue ELSE [queue EXCEPT ![o.task] = Append(@, x)]
  BY <1>3 DEF Enqueue
<1> HIDE DEF x
<1>10. CASE o = ms
  <2>1. pre_mux'[ms] = Tail(pre_mux[ms]) /\ ~Refused(o)
    BY <1>1, <1>3, <1>10 DEF Flows, Wanted, Refused
  <2>2. CASE k = 0
    <3>1. Parked(pre_mux'[ms], b, c)
      BY <1>1, <1>4, <1>5, <1>10, <2>1, <2>2, ParkedTail
    <3>2. Way(n, b, c)'
      BY <1>5, <1>6, <1>9, <2>2, <3>1 DEF Way
    <3> QED BY <1>5, <1>7, <3>2 DEF GoesOn, WayTo
  <2>3. CASE k # 0
    <3>1. k = b + 1 /\ Parked(pre_mux'[ms], b + 1, c)
      BY <1>1, <1>4, <1>5, <1>10, <2>1, <2>3, ParkedTail
    <3>2. queue'[m] = Append(queue[m], x)
      BY <1>1, <1>9, <1>10, <2>1, <2>3
    <3> HIDE DEF k
    <3>3. Numbered(queue'[m], i, written[ms], b + 1)
      BY <1>1, <1>5, <1>8, <1>10, <3>1, <3>2, NumberedAppend, ZenonT(60)
    <3>4. Way(n, b + 1, c)' /\ b + 1 \in Nat
      BY <1>5, <1>6, <3>1, <3>3 DEF Way
    <3> QED BY <1>7, <3>4 DEF GoesOn, WayTo
  <2> QED BY <2>2, <2>3
<1>11. CASE o # ms
  <2>1. pre_mux'[ms] = pre_mux[ms]
    BY <1>1, <1>3, <1>11
  <2>2. Numbered(queue'[m], i, written[ms], b)
    <3>1. CASE queue' # queue /\ o.task = m
      <4>1. x.in # i
        BY <1>1, <1>4, <1>8, <1>11, <3>1
      <4>2. queue'[m] = Append(queue[m], x)
        BY <1>1, <1>9, <3>1
      <4> QED BY <1>1, <1>5, <1>8, <4>1, <4>2, NumberedAppend
    <3>2. CASE queue' = queue \/ o.task # m
      <4>1. queue'[m] = queue[m]
        BY <1>1, <1>9, <3>2
      <4> QED BY <1>5, <4>1
    <3> QED BY <3>1, <3>2
  <2>3. Way(n, b, c)'
    BY <1>5, <1>6, <2>1, <2>2 DEF Way
  <2> QED BY <1>5, <1>7, <2>3 DEF GoesOn, WayTo
<1> QED BY <1>10, <1>11

\* The muxer writes a packet, or drops what is queued of a stream.
LEMMA WayWrites ==
    ASSUME TypeInv, SendsOnce, WrittenType, NEW u \in Tasks, NEW n \in Targets(u),
           n.task \in Muxers, NEW b, NEW c, Flows(u, n, b, c),
           MuxItem(n.task) \/ MuxHangUp(n.task) \/ MuxDone(n.task)
    PROVE  GoesOn(u, n, c)
<1> DEFINE m == n.task  i == n.in  ms == MuxStream(n)  q == queue[m]
<1>1. /\ queue \in [Consumers -> Seq(Items)] /\ q \in Seq(Items) /\ m \in Consumers
      /\ m \in Tasks /\ ms \in DOMAIN written /\ ms = [task |-> m, in |-> i] /\ u # m
      /\ i \in Inputs(m) /\ recv_fin \in [Consumers -> SUBSET Nat]
      /\ todo \in [Tasks -> Seq(Ops)]
  BY StreamIs DEF TypeInv, FinType, TodoType
<1>2. UNCHANGED pre_mux
  BY DEF MuxItem, MuxHangUp, MuxDone, muxing
<1>3. ~Passes(u, n)
  <2>1. Acts(m)
    BY DEF Acts
  <2> QED BY <1>1, <2>1, PassesAlone
<1>4. Numbered(q, i, written[ms], b) /\ Parked(pre_mux[ms], b, c) /\ b \in Nat /\ c \in Nat
  BY DEF Flows, Way
<1>5. i \notin recv_fin'[m] /\ \A j \in DOMAIN todo'[m] : todo'[m][j].op = "hangup" =>
                                                          todo'[m][j].to.in # i
  BY DEF Flows, Wanted
<1>6. ASSUME NEW w, Numbered(queue'[m], i, w, b), written'[ms] = w PROVE GoesOn(u, n, c)
  <2>1. Way(n, b, c)'
    BY <1>2, <1>4, <1>6 DEF Way
  <2> QED BY <1>3, <1>4, <2>1 DEF GoesOn, WayTo
<1>7. CASE MuxItem(m)
  <2> DEFINE x == Head(q)  o == [task |-> m, in |-> x.in]
  <2>1. /\ q # <<>> /\ queue'[m] = Tail(q)
        /\ IF written[o] >= CopyLimit[o]
             THEN todo' = [todo EXCEPT ![m] = <<Op("hangup", o, 0)>>] /\ UNCHANGED written
             ELSE written' = [written EXCEPT ![o] = x.k]
    BY <1>1, <1>7 DEF MuxItem, TakeItem, HasItem
  <2>2. IF x.in = i THEN x.k = written[ms] + 1 /\ Numbered(Tail(q), i, written[ms] + 1, b)
                    ELSE Numbered(Tail(q), i, written[ms], b)
    BY <1>1, <1>4, <2>1, NumberedTail
  <2>3. CASE x.in = i
    <3>1. ~(written[o] >= CopyLimit[o])
      <4>1. SUFFICES ASSUME written[o] >= CopyLimit[o] PROVE FALSE
        OBVIOUS
      <4>2. todo'[m] = <<Op("hangup", o, 0)>>
        BY <1>1, <2>1, <4>1
      <4>3. 1 \in DOMAIN todo'[m] /\ todo'[m][1].op = "hangup" /\ todo'[m][1].to.in = i
        BY <2>3, <4>2 DEF Op
      <4> QED BY <1>5, <4>3
    <3>2. written'[ms] = written[ms] + 1
      <4>1. o = ms /\ written' = [written EXCEPT ![o] = x.k]
        BY <1>1, <2>1, <2>3, <3>1
      <4>2. x.k = written[ms] + 1
        BY <2>2, <2>3
      <4> HIDE DEF x, o
      <4> QED BY <1>1, <4>1, <4>2
    <3> QED BY <1>6, <2>1, <2>2, <2>3, <3>2
  <2>4. CASE x.in # i
    <3>1. written'[ms] = written[ms]
      BY <1>1, <2>1, <2>4
    <3> QED BY <1>6, <2>1, <2>2, <2>4, <3>1
  <2> QED BY <2>3, <2>4
<1>8. CASE MuxHangUp(m) \/ MuxDone(m)
  <2>1. PICK S : HangUp(m, S) /\ UNCHANGED written
    BY <1>8 DEF MuxHangUp, MuxDone, local
  <2>2. i \notin S
    BY <1>1, <1>5, <2>1 DEF HangUp
  <2>3. queue'[m] = Subsequence(q, {j \in DOMAIN q : q[j].in \notin S})
    BY <1>1, <2>1 DEF HangUp
  <2>4. Numbered(queue'[m], i, written[ms], b)
    <3> DEFINE w == written[ms]
    <3>1. q \in Seq(Items) /\ Numbered(q, i, w, b) /\ i \notin S
      BY <1>1, <1>4, <2>2
    <3> HIDE DEF q, i, w
    <3>2. Numbered(Subsequence(q, {j \in DOMAIN q : q[j].in \notin S}), i, w, b)
      BY <3>1, NumberedKept
    <3> QED BY <2>3, <3>2 DEF q, i, w
  <2> QED BY <1>6, <2>1, <2>4
<1> QED BY <1>7, <1>8

LEMMA WayNext ==
    ASSUME TypeInv, SendsOnce, WrittenType, NothingLeftPreMuxed, ToldAreRefused, [Next]_vars, NEW u \in Tasks,
           NEW n \in Targets(u), n.task \in Muxers, NEW b, NEW c, Flows(u, n, b, c)
    PROVE  GoesOn(u, n, c)
<1> DEFINE m == n.task  ms == MuxStream(n)
<1>1. CASE \/ \E t \in Tasks : SendItem(t) \/ PreMux(t) \/ FlushStep(t)
           \/ MuxItem(m) \/ MuxHangUp(m) \/ MuxDone(m)
  BY <1>1, WaySends, WayParks, WayFlushes, WayWrites
<1>2. CASE ~(\/ \E t \in Tasks : SendItem(t) \/ PreMux(t) \/ FlushStep(t)
             \/ MuxItem(m) \/ MuxHangUp(m) \/ MuxDone(m))
  <2>1. queue'[m] = queue[m]
    <3>1. m \notin Encoders
      BY KindsDiffer
    <3> QED BY <1>2, <3>1, QueueOf
  <2>2. pre_mux' = pre_mux
    BY <1>2, ParksAside
  <2>3. written'[ms] = written[ms]
    <3>1. CASE \E t \in Tasks : Writes(t)
      <4>1. PICK t \in Tasks : Writes(t)
        BY <3>1
      <4>2. t # m
        BY <1>2, <4>1 DEF Writes
      <4>3. \/ UNCHANGED written
            \/ \E i, v : written' = [written EXCEPT ![[task |-> t, in |-> i]] = v]
        BY <4>1 DEF Writes, MuxItem
      <4>4. ms.task = m /\ ms \in DOMAIN written
        BY StreamIs
      <4>5. \A i : [task |-> t, in |-> i] # ms
        BY <4>2, <4>4
      <4> QED BY <4>3, <4>4, <4>5
    <3> QED BY <3>1, WritesAside
  <2>4. ~Passes(u, n)
    BY <1>2 DEF Passes
  <2> QED BY <2>1, <2>2, <2>3, <2>4 DEF GoesOn, WayTo, Flows, Way
<1> QED BY <1>1, <1>2

Line(u, n) == \E c \in Nat : WayTo(n, c) /\ SentUpTo(u, n, c)

LEMMA LineNext ==
    ASSUME TypeInv, SendsOnce, NoneRefused, WrittenType, NothingLeftPreMuxed, ToldAreRefused,
           [Next]_vars, NEW u \in Demuxers \cup Encoders, NEW n \in Targets(u), n.task \in Muxers,
           Line(u, n), Wanted(n)'
    PROVE  Line(u, n)'
<1>1. PICK c \in Nat : WayTo(n, c) /\ SentUpTo(u, n, c)
  BY DEF Line
<1>2. PICK b \in Nat : Way(n, b, c)
  BY <1>1 DEF WayTo
<1>3. u \in Tasks
  BY DEF Tasks, Consumers
<1>4. Wanted(n)
  BY <1>3, WantedBefore
<1>5. ~(SendEof(u) /\ To(u) = n)
  <2>1. MuxStream(n) \in init_eof => Refused(n)
    BY DEF ToldAreRefused, Refused, MuxStream
  <2> QED BY <1>4, <2>1 DEF SendEof, CallsSend, Refused, Wanted
<1>6. IF Passes(u, n) THEN Item(u) = c + 1 /\ SentUpTo(u, n, c + 1)' ELSE SentUpTo(u, n, c)'
  BY <1>1, <1>5, SentNext
<1>7. Flows(u, n, b, c)
  BY <1>1, <1>2, <1>4, <1>6 DEF Flows
<1>8. GoesOn(u, n, c)
  BY <1>3, <1>7, WayNext
<1>9. c + 1 \in Nat
  OBVIOUS
<1> QED BY <1>1, <1>6, <1>8, <1>9 DEF GoesOn, Line

--------------------------------------------------------------------------------
Lines ==
    \A u \in Demuxers \cup Encoders : \A n \in Targets(u) :
        n.task \in Muxers /\ Wanted(n) => Line(u, n)

OrderInv == SendsOnce /\ NoneRefused /\ ToldAreRefused /\ WrittenType /\ Lines

LEMMA FedBy ==
    ASSUME NEW c \in Consumers, NEW i \in Inputs(c)
    PROVE  \E t \in Tasks : \E n \in Targets(t) : n.task = c /\ n.in = i
<1>1. PICK t \in Tasks : \E j \in DOMAIN Dst[t] : Dst[t][j].task = c /\ Dst[t][j].in = i
  BY SchedulerGraphAssumption
<1> QED BY <1>1 DEF Targets

LEMMA OrderInit ==
    ASSUME Init
    PROVE  OrderInv
<1>1. \A j \in DOMAIN <<>> : FALSE
  OBVIOUS
<1>2. SendsOnce /\ \A t \in Tasks : \A n : ToSend(t, n) = {}
  BY SendingNothing DEF Init, SendsOnce, ToSend
<1>3. NoneRefused
  BY <1>1 DEF Init, NoneRefused
<1>4. WrittenType
  BY DEF Init, WrittenType
<1>5. <<>> \in Seq(Items) /\ \A i : Numbered(<<>>, i, 0, 0)
  <2>1. <<>> \in Seq(Items) /\ 0 \in Nat
    OBVIOUS
  <2> QED BY <1>1, <2>1, NumberedNone
<1>6. Parked(<<>>, 0, 0)
  BY ParkedNone
<1>7. ASSUME NEW u \in Demuxers \cup Encoders, NEW n \in Targets(u), n.task \in Muxers
      PROVE  Line(u, n)
  <2>1. u \in Tasks /\ n.out \in Int /\ n.task \in Consumers /\ MuxStream(n) \in MuxStreams
    <3>1. u \in Tasks
      BY DEF Tasks, Consumers
    <3> QED BY <1>7, <3>1, DstIs, MuxStreamsAre DEF EdgeRecords
  <2>2. WayTo(n, 0)
    <3>1. Way(n, 0, 0)
      BY <1>5, <1>6, <2>1 DEF Init, Way
    <3> QED BY <3>1 DEF WayTo
  <2>3. TakenUpTo(u, n, 0)
    <3>1. CASE u \in Demuxers
      <4>1. ReadOf(u, n.out, 0) = 0
        BY <2>1, <3>1, ReadOne
      <4> QED BY <3>1, <4>1 DEF Init, TakenUpTo
    <3>2. CASE u \in Encoders
      <4>1. u \in Consumers /\ 0 \in Inputs(u)
        BY <3>2, EncoderIs
      <4>2. PICK f \in Tasks : \E p \in Targets(f) : p.task = u /\ p.in = 0
        BY <4>1, FedBy
      <4>3. PICK p \in Targets(f) : p.task = u /\ p.in = 0
        BY <4>2
      <4>4. f \in Filters
        BY <3>2, <4>3, TargetKinds, TasksAre, KindsDiffer
      <4>5. MadeUpTo(f, p, 0)
        BY <1>2, <4>4 DEF Init, MadeUpTo
      <4>6. Numbered(queue[u], 0, 0, 0)
        BY <1>5, <4>1 DEF Init
      <4> QED BY <3>2, <4>3, <4>4, <4>5, <4>6 DEF TakenUpTo
    <3> QED BY <3>1, <3>2
  <2>4. SentUpTo(u, n, 0)
    BY <1>2, <2>1, <2>3 DEF SentUpTo
  <2> QED BY <2>2, <2>4 DEF Line
<1>8. ToldAreRefused
  BY DEF Init, ToldAreRefused
<1> QED BY <1>2, <1>3, <1>4, <1>7, <1>8 DEF OrderInv, Lines

LEMMA OrderNext ==
    ASSUME TypeInv, NothingLeftPreMuxed, OrderInv, [Next]_vars
    PROVE  OrderInv'
<1>1. SendsOnce /\ NoneRefused /\ ToldAreRefused /\ WrittenType /\ Lines
  BY DEF OrderInv
<1>2. SendsOnce' /\ NoneRefused' /\ ToldAreRefused'
  BY <1>1, SendsOnceNext, NoneRefusedNext, ToldAreRefusedNext
<1>3. WrittenType'
  <2>1. \A t : Writes(t) => \/ UNCHANGED written
                            \/ \E o, v : written' = [written EXCEPT ![o] = v]
    BY DEF Writes, MuxItem
  <2> QED BY <1>1, <2>1, WritesAside DEF WrittenType
<1>4. ASSUME NEW u \in Demuxers \cup Encoders, NEW n \in Targets(u), n.task \in Muxers,
             Wanted(n)'
      PROVE  Line(u, n)'
  <2>1. Wanted(n)
    <3>1. u \in Tasks
      BY DEF Tasks, Consumers
    <3> QED BY <1>4, <3>1, WantedBefore
  <2>2. Line(u, n)
    BY <1>1, <1>4, <2>1 DEF Lines
  <2> QED BY <1>1, <1>4, <2>2, LineNext
<1> QED BY <1>2, <1>3, <1>4 DEF OrderInv, Lines

LEMMA OrderStep ==
    ASSUME TypeInv, OrderInv, [Next]_vars, written' # written
    PROVE  \A ms \in MuxStreams : written'[ms] \in {written[ms], written[ms] + 1}
<1>1. PICK t \in Muxers : MuxItem(t)
  BY WritesAside DEF Writes
<1> DEFINE x == Head(queue[t])  o == [task |-> t, in |-> x.in]
<1>2. written' = [written EXCEPT ![o] = x.k] /\ queue[t] # <<>> /\ todo[t] = <<>>
  BY <1>1 DEF MuxItem, TakeItem, HasItem, Idle
<1>3. t \in Tasks /\ t \in Consumers /\ queue[t] \in Seq(Items)
  BY DEF Tasks, Consumers, TypeInv, QueueInv, QueueType
<1>4. x.in \in Inputs(t) /\ x = queue[t][1] /\ 1 \in DOMAIN queue[t]
  BY <1>2, <1>3, HeadItem DEF TypeInv
<1>5. PICK u \in Tasks : \E n \in Targets(u) : n.task = t /\ n.in = x.in
  BY <1>3, <1>4, FedBy
<1>6. PICK n \in Targets(u) : n.task = t /\ n.in = x.in
  BY <1>5
<1> HIDE DEF x
<1>7. u \in Demuxers \cup Encoders
  BY <1>6, TargetKinds, TasksAre, KindsDiffer
<1>8. Wanted(n)
  BY <1>2, <1>3, <1>4, <1>6 DEF OrderInv, NoneRefused, Wanted
<1>9. Line(u, n)
  BY <1>6, <1>7, <1>8 DEF OrderInv, Lines
<1>10. PICK b : Numbered(queue[t], x.in, written[MuxStream(n)], b)
  BY <1>6, <1>9 DEF Line, WayTo, Way
<1>11. MuxStream(n) = o
  BY <1>6 DEF MuxStream
<1>12. x.k = written[o] + 1
  BY <1>2, <1>3, <1>10, <1>11, NumberedTail DEF x
<1> HIDE DEF o
<1> QED BY <1>2, <1>12 DEF OrderInv, WrittenType

--------------------------------------------------------------------------------
\* What a muxer writes of a stream follows what it has written before, in any
\* graph: from sch_demux_send() or sch_enc_send() on no packet is passed by
\* another one or lost, also while send_to_mux() parks packets and
\* mux_task_start() moves them to the queue, until sch_mux_receive_finish()
\* or mux_done() closes the stream.
THEOREM WrittenInOrder == Spec => InOrder
<1>1. TypeInv /\ OrderInv /\ [Next]_vars =>
        [\A ms \in MuxStreams : written'[ms] \in {written[ms], written[ms] + 1}]_written
  BY OrderStep
<1>2. Init => OrderInv
  BY OrderInit
<1>3. TypeInv /\ NothingLeftPreMuxed /\ OrderInv /\ [Next]_vars => OrderInv'
  BY OrderNext
<1> QED BY <1>1, <1>2, <1>3, TypesAlways, NothingParkedForGood, PTL DEF Spec, InOrder
--------------------------------------------------------------------------------
(* Nothing is sent on a stream that is finished. *)

\* Nothing is parked behind an end.
EndsLast ==
    \A ms \in MuxStreams : \A i, j \in DOMAIN pre_mux[ms] :
        i < j /\ pre_mux[ms][i] = 0 => pre_mux[ms][j] = 0

\* Of a stream that is finished nothing is left to be sent, unless mux_task_start()
\* knows that it is refused.
FinishedIsSent ==
    \A ms \in MuxStreams : ms.in \in send_fin[ms.task] /\ ms \notin init_eof =>
        \A j \in DOMAIN pre_mux[ms] : pre_mux[ms][j] = 0

ParkedOver == EndsLast /\ FinishedIsSent

\* Who is about to send has not closed the stream, so that mux_task_start() was
\* told, if it is finished.
LEMMA FinishedByFlush ==
    ASSUME TypeInv, EndsInv, NEW t \in Tasks, NEW op \in SendOps, At(t, op),
           To(t).in \in send_fin[To(t).task]
    PROVE  op = "send" /\ To(t).task \in Muxers /\ MuxStream(To(t)) \in init_eof
<1>1. /\ To(t) \in Targets(t) /\ 1 \in DOMAIN todo[t] /\ todo[t][1].op = op
      /\ To(t) = todo[t][1].to /\ op \in {"send", "flush"}
      /\ op = "flush" => To(t).task \in Decoders
  BY NextOp, HeadIs DEF TypeInv, SendOps
<1>2. To(t) \notin dst_finished[t]
  BY <1>1 DEF EndsInv, NotOver
<1>3. ~Closing(t, To(t))
  BY <1>1, <1>2 DEF Closing
<1>4. t \in Demuxers => pc[t] = "loop"
  BY <1>1 DEF EndsInv, NoLateSends
<1>5. To(t).task \in Muxers /\ MuxStream(To(t)) \in init_eof
  BY <1>1, <1>3, <1>4 DEF EndsInv, EndsKnown
<1> QED BY <1>1, <1>5, KindsDiffer

\* What a step parks or takes from what is parked.
Parks(ms, k) ==
    /\ k \in Int /\ pre_mux'[ms] = Append(pre_mux[ms], k)
    /\ UNCHANGED <<send_fin, init_eof>>
    /\ k # 0 => /\ ~EndParked(ms)
                /\ ms.in \notin send_fin[ms.task] \/ ms \in init_eof

LEMMA ParkedChanges ==
    ASSUME TypeInv, EndsInv, [Next]_vars, NEW ms \in MuxStreams, pre_mux'[ms] # pre_mux[ms]
    PROVE  (pre_mux[ms] # <<>> /\ Flushed(ms)) \/ \E k : Parks(ms, k)
<1>1. pre_mux \in [MuxStreams -> Seq(Int)] /\ MuxType /\ TodoType
  BY DEF TypeInv, MuxType
<1>2. CASE \E t \in Tasks : FlushStep(t)
  <2>1. PICK t \in Tasks : FlushStep(t)
    BY <1>2
  <2>2. PICK x \in flusher : \E o \in EarliestPreMuxed(x.mux) : Flushed(o)
    BY <2>1, FlushStepIs
  <2>3. PICK o \in EarliestPreMuxed(x.mux) : Flushed(o)
    BY <2>2
  <2>4. pre_mux[o] # <<>>
    BY <1>1, <2>3, EarliestIs
  <2>5. o = ms
    BY <1>1, <2>3 DEF Flushed
  <2> QED BY <2>3, <2>4, <2>5
<1>3. CASE \E t \in Tasks : PreMux(t)
  <2>1. PICK t \in Tasks : PreMux(t)
    BY <1>3
  <2> DEFINE k == IF At(t, "send") THEN Item(t) ELSE 0
             n == To(t)
  <2>2. /\ pre_mux' = [pre_mux EXCEPT ![MuxStream(n)] = Append(@, k)]
        /\ UNCHANGED <<send_fin, init_eof>> /\ (At(t, "send") \/ At(t, "finish"))
        /\ n.task \in Muxers
    BY <2>1 DEF PreMux, Parking, queues
  <2>3. ms = MuxStream(n) /\ n \in Targets(t) /\ k \in Int
    BY <1>1, <2>2, NextOp, HeadIs
  <2>4. ms.task = n.task /\ ms.in = n.in
    BY <2>3 DEF MuxStream
  <2>5. ASSUME k # 0 PROVE ~EndParked(ms) /\ (ms.in \notin send_fin[ms.task] \/ ms \in init_eof)
    <3>1. At(t, "send") /\ "send" \in SendOps
      BY <2>5 DEF SendOps
    <3>2. 1 \in DOMAIN todo[t] /\ todo[t][1].op = "send" /\ n = todo[t][1].to
      BY <1>1, <3>1, HeadIs
    <3>3. n \notin dst_finished[t]
      BY <3>1, <3>2 DEF EndsInv, NotOver
    <3>4. ~EndParked(ms)
      BY <2>2, <2>3, <3>3 DEF EndsInv, ParkedEnds
    <3>5. n.in \in send_fin[n.task] => MuxStream(n) \in init_eof
      BY <3>1, FinishedByFlush
    <3> QED BY <2>3, <2>4, <3>4, <3>5
  <2>6. pre_mux'[ms] = Append(pre_mux[ms], k)
    BY <1>1, <2>2, <2>3
  <2> HIDE DEF k
  <2> QED BY <2>2, <2>3, <2>5, <2>6 DEF Parks
<1> QED BY <1>2, <1>3, ParksAside

\* A stream is finished when nothing of it is parked, or by mux_task_start().
LEMMA FinishedChanges ==
    ASSUME TypeInv, NothingLeftPreMuxed, [Next]_vars, NEW ms \in MuxStreams,
           ms.in \in send_fin'[ms.task], ms.in \notin send_fin[ms.task]
    PROVE  pre_mux[ms] # <<>> => Flushed(ms)
<1>1. /\ send_fin \in [Consumers -> SUBSET Nat] /\ ms.task \in Muxers /\ ms.task \in Consumers
      /\ ms.task \notin Filters /\ ms.task \notin Decoders /\ MuxType /\ TodoType
      /\ ms = [task |-> ms.task, in |-> ms.in]
  BY MuxStreamsAre, KindsDiffer DEF TypeInv, FinType, Consumers
<1>2. PICK t \in Tasks : SaysEnd(t)
  BY SaysEndAside
<1>3. CASE FlushStep(t)
  <2>1. PICK x \in flusher : \E o \in EarliestPreMuxed(x.mux) : Flushed(o)
    BY <1>3, FlushStepIs
  <2>2. PICK o \in EarliestPreMuxed(x.mux) : Flushed(o)
    BY <2>1
  <2>3. o \in MuxStreams /\ o = [task |-> o.task, in |-> o.in] /\ o.task \in Consumers
    BY <1>1, EarliestIs, MuxStreamsAre DEF Consumers
  <2>4. o.task = ms.task /\ o.in = ms.in
    BY <1>1, <2>2, <2>3 DEF Flushed
  <2> QED BY <1>1, <2>2, <2>3, <2>4
<1>4. CASE SendEof(t) \/ Finish(t)
  <2>1. send_fin' = [send_fin EXCEPT ![To(t).task] = @ \cup {To(t).in}]
    BY <1>4 DEF SendEof, Finish
  <2>2. To(t).task = ms.task
    BY <1>1, <2>1
  <2>3. ms.task \in mux_started
    BY <1>1, <1>4, <2>2, KindsDiffer DEF SendEof, Sendable, Finish
  <2> QED BY <2>3 DEF NothingLeftPreMuxed, PreMuxed
<1>5. CASE FinishFilterInput(t)
  <2>1. \E S : send_fin' = [send_fin EXCEPT ![To(t).task] = S] /\ To(t).task \in Filters
    BY <1>5 DEF FinishFilterInput
  <2> QED BY <1>1, <2>1
<1>6. CASE t \in Demuxers /\ FlushEof(t)
  <2>1. send_fin' = send_fin \/ (At(t, "flush")
          /\ send_fin' = [send_fin EXCEPT ![To(t).task] = @ \cup {To(t).in}])
    BY <1>6 DEF FlushEof
  <2>2. At(t, "flush") => To(t).task \in Decoders
    BY <1>1, NextOp
  <2> QED BY <1>1, <2>1, <2>2
<1> QED BY <1>2, <1>3, <1>4, <1>5, <1>6 DEF SaysEnd

LEMMA EndsLastNext ==
    ASSUME TypeInv, EndsInv, EndsLast, [Next]_vars
    PROVE  EndsLast'
<1> SUFFICES ASSUME NEW ms \in MuxStreams, NEW i \in DOMAIN pre_mux'[ms],
                    NEW j \in DOMAIN pre_mux'[ms], i < j, pre_mux'[ms][i] = 0
             PROVE  pre_mux'[ms][j] = 0
  BY DEF EndsLast
<1> DEFINE q == pre_mux[ms]
           r == pre_mux'[ms]
<1>1. q \in Seq(Int) /\ pre_mux \in [MuxStreams -> Seq(Int)]
  BY DEF TypeInv, MuxType
<1>2. \A k, l \in DOMAIN q : k < l /\ q[k] = 0 => q[l] = 0
  BY DEF EndsLast
<1>3. CASE r = q
  BY <1>2, <1>3
<1>4. CASE q # <<>> /\ Flushed(ms)
  <2>1. r = Tail(q)
    BY <1>1, <1>4 DEF Flushed
  <2> HIDE DEF q, r
  <2>2. /\ i + 1 \in DOMAIN q /\ j + 1 \in DOMAIN q /\ r[i] = q[i + 1] /\ r[j] = q[j + 1]
        /\ i + 1 < j + 1
    BY <1>1, <1>4, <2>1 DEF r
  <2> QED BY <1>2, <2>2 DEF r
<1>5. CASE \E k : Parks(ms, k)
  <2>1. PICK k : Parks(ms, k)
    BY <1>5
  <2>2. r = Append(q, k) /\ k \in Int /\ (k # 0 => ~EndParked(ms))
    BY <2>1 DEF Parks
  <2>3. k # 0 => \A l \in DOMAIN q : q[l] # 0
    BY <2>2 DEF EndParked
  <2> HIDE DEF q, r
  <2>4. i \in DOMAIN q /\ r[i] = q[i] /\ ((j \in DOMAIN q /\ r[j] = q[j]) \/ r[j] = k)
    BY <1>1, <2>2 DEF r
  <2> QED BY <1>2, <2>3, <2>4 DEF r
<1> QED BY <1>3, <1>4, <1>5, ParkedChanges

LEMMA FinishedIsSentNext ==
    ASSUME TypeInv, EndsInv, NothingLeftPreMuxed, ParkedOver, [Next]_vars
    PROVE  FinishedIsSent'
<1> SUFFICES ASSUME NEW ms \in MuxStreams, ms.in \in send_fin'[ms.task], ms \notin init_eof'
             PROVE  \A j \in DOMAIN pre_mux'[ms] : pre_mux'[ms][j] = 0
  BY DEF FinishedIsSent
<1> DEFINE q == pre_mux[ms]
           r == pre_mux'[ms]
<1>1. q \in Seq(Int) /\ pre_mux \in [MuxStreams -> Seq(Int)] /\ ms \notin init_eof
  BY ToldEofStays DEF TypeInv, MuxType
<1>2. q = <<>> => \A j \in DOMAIN q : q[j] = 0
  OBVIOUS
<1>3. CASE ms.in \in send_fin[ms.task]
  <2>1. \A j \in DOMAIN q : q[j] = 0
    BY <1>1, <1>3 DEF ParkedOver, FinishedIsSent
  <2>2. CASE q # <<>> /\ Flushed(ms)
    <3>1. r = Tail(q)
      BY <1>1, <2>2 DEF Flushed
    <3> HIDE DEF q, r
    <3>2. \A j \in DOMAIN r : j + 1 \in DOMAIN q /\ r[j] = q[j + 1]
      BY <1>1, <2>2, <3>1
    <3> QED BY <2>1, <3>2 DEF r
  <2>3. CASE \E k : Parks(ms, k)
    <3>1. PICK k : Parks(ms, k)
      BY <2>3
    <3>2. r = Append(q, k) /\ k = 0
      BY <1>1, <1>3, <3>1 DEF Parks
    <3> HIDE DEF q, r
    <3>3. \A j \in DOMAIN r : (j \in DOMAIN q /\ r[j] = q[j]) \/ r[j] = 0
      BY <1>1, <3>2
    <3> QED BY <2>1, <3>3 DEF r
  <2> QED BY <2>1, <2>2, <2>3, ParkedChanges
<1>4. CASE ms.in \notin send_fin[ms.task]
  <2>1. CASE q = <<>>
    <3>1. ~(\E k : k # 0 /\ Parks(ms, k)) /\ ~(\E k : Parks(ms, k))
      BY <1>4 DEF Parks
    <3>2. r = q
      BY <2>1, <3>1, ParkedChanges
    <3> QED BY <1>2, <2>1, <3>2
  <2>2. CASE q # <<>>
    <3>1. Flushed(ms)
      BY <1>4, <2>2, FinishedChanges
    <3>2. r = Tail(q) /\ q[1] = 0
      BY <1>1, <1>4, <2>2, <3>1 DEF Flushed
    <3>3. \A j \in DOMAIN q : 1 < j => q[j] = 0
      BY <1>1, <2>2, <3>2 DEF ParkedOver, EndsLast
    <3> HIDE DEF q, r
    <3>4. \A j \in DOMAIN r : j + 1 \in DOMAIN q /\ r[j] = q[j + 1] /\ 1 < j + 1
      BY <1>1, <2>2, <3>2
    <3> QED BY <3>3, <3>4 DEF r
  <2> QED BY <2>1, <2>2
<1> QED BY <1>3, <1>4

LEMMA EndsSafe ==
    ASSUME TypeInv, EndsInv, ParkedOver
    PROVE  NoSendAfterEnd
<1>1. ASSUME NEW t \in Tasks, CallsSend(t) \/ At(t, "flush")
      PROVE  To(t).in \notin send_fin[To(t).task]
  <2>1. "send" \in SendOps /\ "flush" \in SendOps /\ "flush" # "send"
    BY DEF SendOps
  <2>2. CASE CallsSend(t)
    BY <2>1, <2>2, FinishedByFlush DEF CallsSend, Sendable
  <2>3. CASE At(t, "flush")
    BY <2>1, <2>3, FinishedByFlush
  <2> QED BY <1>1, <2>2, <2>3
<1>2. ASSUME NEW x \in flusher, NEW ms \in EarliestPreMuxed(x.mux), FlushSends(ms)
      PROVE  ms.in \notin send_fin[ms.task]
  <2>1. ms \in MuxStreams /\ pre_mux[ms] \in Seq(Int) /\ pre_mux[ms] # <<>>
    BY EarliestIs DEF TypeInv
  <2>2. 1 \in DOMAIN pre_mux[ms] /\ pre_mux[ms][1] # 0 /\ ms \notin init_eof
    BY <1>2, <2>1 DEF FlushSends
  <2> QED BY <2>1, <2>2 DEF ParkedOver, FinishedIsSent
<1> QED BY <1>1, <1>2 DEF NoSendAfterEnd

\* tq_send() is not called on a stream whose sending side is finished, by whatever
\* call: a task has not closed the stream and sends again; one that cannot know that
\* mux_task_start() was told EOF is kept from sending by init_eof; demux_flush() is
\* followed by the end of the demuxer when a decoder says EOF; and mux_task_start()
\* finds no packet parked behind an end.
THEOREM NeverSendsAfterEnd == Spec => []NoSendAfterEnd
<1>1. Init => ParkedOver
  <2>1. \A j \in DOMAIN <<>> : FALSE
    OBVIOUS
  <2> QED BY <2>1 DEF Init, ParkedOver, EndsLast, FinishedIsSent
<1>2. TypeInv /\ EndsInv /\ NothingLeftPreMuxed /\ ParkedOver /\ [Next]_vars => ParkedOver'
  BY EndsLastNext, FinishedIsSentNext DEF ParkedOver
<1>3. TypeInv /\ EndsInv /\ ParkedOver => NoSendAfterEnd
  BY EndsSafe
<1> QED BY <1>1, <1>2, <1>3, TypesAlways, EndsAlways, NothingParkedForGood, PTL DEF Spec
================================================================================
