# TLA+ models and proofs for mobipeg

mobipeg is a tree of FFmpeg (`libavutil`, `libavcodec`, `libavformat`, `libavfilter`,
`fftools`) with codecs and containers for Nintendo handhelds (Mobiclip, Moflex, VX/Actimagine,
MODS) and two Python front ends.  Most of its two million lines are sequential signal
processing, which a model checker has nothing to say about.  What is hard to get right and
hard to test is the machinery that moves frames and packets between threads, and the state
machines that decide when a stream is over.  That machinery is what is modelled here.

## 1. Inventory

### 1.1 The transcoder (`fftools/ffmpeg*`): one thread per task

`ffmpeg` runs every demuxer, decoder, filtergraph, encoder and muxer as a *task* with a thread
of its own.  The tasks form a graph: demuxer -> decoder -> filtergraph -> encoder -> muxer, with
stream copies that go from the demuxer to the muxer directly.

| component | state it keeps | operations | what is hard |
|---|---|---|---|
| **thread queue** `fftools/thread_queue.c` | one fifo of items, a parallel fifo of stream indices, per stream a count and two end flags, one mutex, two condition variables, the choke flag | `tq_send`, `tq_send_finish`, `tq_receive`, `tq_receive_finish`, `tq_choke` | wakeups on both condition variables, per-stream limits with several senders, ends of streams in order with the items, allocation failures between the two fifos |
| **scheduler** `fftools/ffmpeg_sched.c` | the graph; per task a queue, per source a *waiter* (choked/unchoked with a condition variable), per muxer stream the last dts and the pre-mux queue, end flags, the global schedule lock, the "muxers ready" lock, termination flags | `sch_start`, `sch_stop`, `sch_wait`, `sch_demux_send`, `sch_dec_receive/send`, `sch_filter_receive/send/receive_finish/choke_inputs/command`, `sch_enc_receive/send`, `sch_mux_receive/receive_finish/stream_ready/sub_heartbeat_add`, `sch_sdp_filename` | all tasks wait for one another through bounded queues; sources are choked to keep streams together; muxers start late; ends travel downstream (finish) and upstream (receive_finish) at the same time; failures stop everything |
| **sync queue** `fftools/sync_queue.c` | per stream a fifo, its head timestamp, end flag, frame limits; head stream and finished head stream of the queue | `sq_send`, `sq_receive`, `sq_add_stream`, `sq_limit_frames`, `sq_frame_samples` | no stream may overtake a limiting one, a lagging stream must not block the others for ever (overflow heartbeat), `-shortest` |
| **task bodies** `ffmpeg_demux.c`, `ffmpeg_dec.c`, `ffmpeg_filter.c`, `ffmpeg_enc.c`, `ffmpeg_mux.c` | loop position, timestamps, codec and filter contexts | the thread functions called by the scheduler | each is a loop "receive, work, send" whose ends must be propagated in both directions |
| **option parsing, logging, hardware setup** `ffmpeg_opt.c`, `ffmpeg_mux_init.c`, `cmdutils.c`, `opt_common.c`, `ffmpeg_hw.c`, `graph/`, `textformat/` | option tables | run once before the threads start | sequential |

### 1.2 Shared containers (`libavutil`)

| component | state | operations | what is hard |
|---|---|---|---|
| **fifo** `fifo.c` | ring buffer with read and write offsets, `is_empty`, growth limit | write, read, peek, drain, grow, reset | wrap-around when it grows; empty and full have equal offsets |
| **container fifo** `container_fifo.c` | a fifo of objects drawn from a pool | write, read, peek, drain | an object moved out on one path, referenced on another |
| **message queue** `threadmessage.c` | a fifo, one mutex, two condition variables, two sticky error codes | send, recv, set_err_send, set_err_recv, flush | wakeups, errors that arrive while someone waits |
| **slice threads, executor** `slicethread.c`, `executor.c` | worker states, counters of jobs | execute, run | lost wakeups, a job executed twice or never |
| **reference counts** `buffer.c`, `refstruct.c` | atomic counters, pool free lists | ref, unref, pool get, pool uninit | the pool freed while buffers are still out |

### 1.3 Codec threading (`libavcodec`)

| component | state | operations | what is hard |
|---|---|---|---|
| **frame threads** `pthread_frame.c` | per thread a state INPUT_READY / SETTING_UP / SETUP_FINISHED, packet, ring of threads, per-frame progress | submit, receive, flush, `ff_thread_finish_setup`, progress report/await | hand-over of the context, order of the output, draining, progress awaited for ever |
| **frame-threaded encoding** `frame_thread_encoder.c` | ring of tasks, task index, finished count | encode, worker, free | order of packets, drain, shutdown |
| **send/receive state machines** `decode.c`, `encode.c`, `bsf.c` | one buffered packet/frame, draining flags | send, receive | EAGAIN on both sides, draining, flush |
| **codecs** incl. `mobiclip.c`, `vx*.c`, `gba_vx*` | bit-exact decoders and encoders | decode, encode | arithmetic, no concurrency |

### 1.4 Input/output and filters

| component | state | operations | what is hard |
|---|---|---|---|
| **fifo muxer** `libavformat/fifo.c` | message queue, worker context, recovery state | write packet, worker loop, recovery | recovery racing with the end, dropped packets until a key frame |
| **async protocol** `libavformat/async.c` | ring buffer, seek request, EOF flags, background thread | read, seek, abort | seek racing with the background reader |
| **interleaving, cache, muxers** `mux.c`, `cache.c`, `moflexenc.c`, `modsenc.c`, `vxenc.c` | packet list ordered by dts, cache tree | write, interleave | order across streams |
| **filter graph** `avfilter.c`, `framequeue.c`, `framesync.c` | link status in/out, frame queues, frame-wanted flags, sync levels | activate, request, acknowledge status | starving or spinning graphs |

### 1.5 Players and front ends

`ffplay.c` (packet and frame queues with serial numbers, four threads), `ffplay_list.c`,
`ffplay_dir.c`, `ffprobe.c`, `encode.py`, `encode_gui.py`.

### 1.6 How the components interact

The scheduler owns one thread queue per decoder, encoder and filtergraph and one per muxer.  A task
blocks in `tq_send()` while its stream of a queue is full and in `tq_receive()` while nothing can be
delivered; sources (demuxers and filtergraphs) block in `waiter_wait()` while the scheduler has
choked them.  Every packet sent to a muxer updates that stream's last dts; whoever does that takes
the schedule lock and recomputes which sources may run.  Muxers are opened when all of their
streams are ready; until then the packets are parked in pre-mux queues.

### 1.7 What makes each component correct, and what is hard

| component | properties |
|---|---|
| thread queue | no sleeping thread whose condition holds; per stream a bounded FIFO channel; ends after the items, once |
| scheduler | some thread can always go on until everything has ended; streams are written completely and in order whenever the muxer starts; nothing is parked for ever; no stream runs away; after a stop or a failure every thread can be joined |
| sync queue | output in order of head timestamps; a frame is held only as long as a limiting stream lacks one |
| message queue, slice threads | no lost wakeup, each job once, errors seen by whoever waits |
| frame threads | output order is input order; contexts handed over only after set-up; draining returns every frame |
| reference counts | freed once, after the last user; a pool outlives its buffers |
| send/receive machines | never EAGAIN on both sides; everything buffered comes out before EOF |
| fifo muxer, async protocol | packets written in order or dropped up to a key frame; a seek never returns stale bytes |
| fifo | a sequence, through growth and wrap-around |

The hazards behind these are listed, with the line where each bites, in `PROJECT.json`.

## 2. Modules

| module | what it models | uses |
|---|---|---|
| `ThreadQueue` | `fftools/thread_queue.c`, every operation, at the granularity of its mutex: a call is the step up to `pthread_cond_wait()` or return, and a woken thread continues with the loop's test | `StreamChannels` (instance) |
| `StreamChannels` | what a thread queue promises: one bounded FIFO channel per stream, closed from either end | |
| `Subsequence` | the entries of a sequence at a set of its places, in order: `SelectSeq` in a form that can be proved about | |
| `SchedulerGraph` | the transcoding graph and the pure part of `schedule_update_locked()`: which sources may run | `Subsequence` |
| `Scheduler` | `fftools/ffmpeg_sched.c` and the loops of the task threads | `SchedulerGraph` |
| `SyncQueue` | `fftools/sync_queue.c` with `send_to_enc_sq()`, which calls it | |
| `Fifo` | the ring buffer of `libavutil/fifo.c` as a record and operators on it | |
| `MessageQueue` | `libavutil/threadmessage.c` on top of a ring, with any number of senders and receivers | `Fifo`, `MessageChannel` (instance) |
| `MessageChannel` | what a message queue promises: a bounded FIFO channel whose messages are received once or freed once | |
| `FrameThreads` | `libavcodec/pthread_frame.c` under `avcodec_send_packet()` and `avcodec_receive_frame()` | |
| `MC*` | values for TLC: `MCThreadQueue`, `MCScheduler` (graphs and scripts named after command lines), `MCSyncQueue`, `MCMessageQueue`, `MCFrameThreads` | the module of that name |
| `*Proofs` | proofs: `ThreadQueueProofs`, `SchedulerProofs`, `SchedulerProtocolProofs`, `SubsequenceProofs`, `SyncQueueProofs`, `FifoProofs`, `MessageQueueProofs`, `FrameThreadsProofs` | the module of that name; `SchedulerProtocolProofs` is about `Scheduler` and uses `SubsequenceProofs`; `MessageQueueProofs` uses `FifoProofs` |

### 2.1 ThreadQueue

State: `fifo_stream_index` and `fifo` are the two parallel fifos; an item is a record `[stream, seq]`, so
that order and ownership can be told.  `stream_count` and `finished` are the per-stream fields, `choked`
is the choke flag.  Threads are the senders (each sends to one stream) and the one receiver; a thread
parked on a condition variable is in a wait set, and a broadcast moves all of them to the set of
threads that must test their condition again.  Spurious wakeups are allowed.  The model counts what was
sent and received per stream (history variables) and gives up sending after `MaxSend` items, a bound
of its own for each stream.  `av_container_fifo_write()` may fail when `AllocOutcomes` contains `FALSE`.
`tq_receive_finish()` is called by the receiving thread only, as in the scheduler.

### 2.2 SchedulerGraph

Constants: the tasks by kind, `NbInputs`, `Dst` (the destinations of each task, in the order in which
the code sends to them) and `Tolerance` (`SCHEDULE_TOLERANCE`).  `SchedulerGraphAssumption` is what
`sch_connect()` and `start_prepare()` guarantee: a node has one kind, muxers have no destinations, and to every input
leads one place in the destinations of one task (`SchMuxStream.src` and the like are single, and are set once); decoders and
encoders have one input (`queue_alloc(..., 1, ...)`, `ffmpeg_sched.c:802`, `:846`).  It is narrower than `sch_connect()` in two
respects: a decoder of subtitles may feed an encoder there, and an encoder a decoder (`-dec`, loopback); neither link is modelled,
and what is checked and proved of the scheduler is about graphs without them.  `trailing_dts`, `Wanting`, `SourceOf`
(`unchoke_for_stream()`), `WithDownstream` (`unchoke_downstream()`, called for every demuxer that is
unchoked), `UnchokeOnce` and `Unchoked` compute the next choice; the mutual recursion of the C functions
is a closure, because `choked_next` only ever goes from 1 to 0 during one update.  `FrozenWith` is
`choke_demux()`: the decoder queues frozen along with a demuxer.  (Its `ENC` and `FILTER_IN` cases are
dead: a demuxer's destinations are decoders and muxers.)

### 2.3 Scheduler

Every task is a thread.  A step is one critical section: one `tq_*()` call, one update of the schedule
under `schedule_lock`, one step under `mux_ready_lock`.  What a thread has yet to do within a
`sch_*()` call is a list `todo[t]` of operations (`send`, `finish`, `update`, `ready`, `init`, `close`,
...), so that all other threads may run in between; `pc[t]` is the place in the thread function.

| code | model |
|---|---|
| `SchWaiter.choked`, `tq->choked` | `choked`, `frozen` |
| thread queues | `queue`, `send_fin`, `recv_fin`: the abstract channels that `ThreadQueue` is proved to implement; a thread that would wait is a disabled step, which the wakeup properties of `ThreadQueue` justify |
| `pre_mux_queue`, `init_eof`, `nb_streams_ready`, `mux_started`, `mux_ready_lock` | `pre_mux`, `init_eof`, `ready`, `mux_started`, `flusher` |
| `last_dts`, `source_finished`, `best_input`, `send_finished`, `receive_finished`, `task_exited` | variables of the same names |
| `send_to_enc()`, `enc_open()` | `EncOpen`: the first frame opens the encoder, which makes its muxer streams ready |
| `sch_mux_stream_ready()`, `mux_task_start()` | `StreamReady`, `FlushStep` (`FlushSends`: the packet is given to `tq_send()`; told EOF, it sets `init_eof`), `FlushEnd`, `MuxStarted` |
| `send_to_mux()`, `mux_queue_packet()` | `PreMux`, `PreMuxFull`, `PreMuxEndLost`, `Sendable`, `CallsSend` (false when `init_eof` stands for the EOF), `SendItem`, `SendEof`, `Finish`, `MuxUpdate` |
| `demux_stream_send_to_dst()`, `dec_send_to_dst()`, `send_to_filter()`, `enc_send_to_dst()` | the same actions and `FinishFilterInput` |
| `input_thread` | `DemuxSend`, `DemuxSkip`, `DemuxReturn` |
| `decoder_thread`, `encoder_thread` | `CodecItem`, `CodecEnd`, `DecoderStop` |
| `filter_thread`, `read_frames()`, `close_output()`, `sch_filter_receive()` ... | `FilterStep` |
| `muxer_thread` | `MuxItem`, `MuxHangUp`, `MuxEnd`, `MuxReturn` |
| `task_cleanup()`, `task_wrapper()` | `Cleanup`, `TaskExited`, `MuxDone`, `MuxCount`; a failed task has `failed` |
| `demux_flush()`, `expect_end_ts`, `queue_end_ts` | `DemuxFlush`, `FlushSend`, `FlushAwait`, `FlushEof`; `DecoderFlush`, `DecoderEndTs`, `NoEndTs`; `end_ts` is the message queue of one place and its error |
| `sch_start()`, `sch_wait()`, `sch_stop()` | `MainStart`, `MainTerminate`, `Interrupt` (the user's), `MainChokeAll`, `MainJoined` |

Abstractions.  A packet or frame is its number within its stream; number 0 is the frame without data
that marks an end.  A codec and a filtergraph turn item *k* into item *k*; a frame *j* can be had from a
graph once each of its open inputs has given *j* frames, an internal source (index `nb_inputs`) counting
as an input.  An input takes `InputLimit` frames and a muxer stream `CopyLimit` packets, after which they
are closed from below (`-shortest`-like filters, `-frames`, `-t`).  The script of an input that loops
(`-stream_loop`) is one pass after another with a packet of stream -1 in between, as in the code; the
decoders in `EndTs` are those of audio, which answer the flush with the time at which the pass ends.  `PreMuxSize` is the size at which
the pre-muxing queue refuses to grow.  After `terminate` a source may stop even when it is not choked:
`waiter_wait()` reads `terminate` again after it has been woken.  An encoder that stops by itself
(`-t`) is not modelled.  A `tq_send()` that says EOF counts the stream as finished by its sender (`send_fin`), whoever the caller was:
a task, `demux_flush()` or `mux_task_start()`.  A task that hangs up several streams (`HangUp`, `CloseInput`, `Cleanup`) does so in one
step, the code with one lock after the other: a sender that comes in between finds its own stream open still, its item is dropped a moment
later, and it learns of the end with its next one, as if it had come before the first.

Not modelled here: sync queues (a module of their own), SDP output (all muxers start together), subtitle
decoders that feed encoders, encoder-to-decoder loopback, filter commands, subtitle heartbeats,
`DEMUX_SEND_STREAMCOPY_EOF`.

### 2.4 SyncQueue

State: `fifo` (the frames of each stream) and `sq` (`head_ts`, `finished`, `head_stream`, `head_finished_stream`); beside
them the call under way, the outputs that have ended and the encoders that were closed, and history
variables of what was sent and given out.  A stream that limits may have any index.  A call of
`send_to_enc_sq()` holds the lock of the queue from its `sq_send()` to the last `sq_receive()`; a step is one
`sq_send()`, one frame received and passed on, or one stream's share of the heartbeat.  What the code does within
these is part of the step: `finish_stream()` and `queue_head_update()` close streams, `receive_samples()` cuts frames of
`FrameSamples` samples out of the queued ones, and an encoder that refuses a frame finishes its stream.

Simplifications: one time base for all streams (so that the maximum of a heartbeat with `head_ts + 1` never
bites), timestamps from 0, untimed frames last nothing, `FramesMax` at least 1 (`-frames 0` would finish
the queue at set-up), no failed allocations and no error but EOF from an encoder.

### 2.5 Fifo, MessageQueue

A ring is `[buffer, offset_r, offset_w, is_empty]`; `Contents` is the sequence it stands for.  `Write`, `Drain`
and `Grow` are `av_fifo_write()`, `av_fifo_drain2()` and `av_fifo_grow2()` with its three cases (no wrap, the
wrapped part fits behind, only some of it does).

A message is its number in the order of writing.  Each sender and receiver is idle, waiting on a condition
variable, or woken; a signal wakes any one waiter, a broadcast all, and spurious wakeups are possible.
Errors are set and unset at any time, `AV_THREAD_MESSAGE_NONBLOCK` may be given, and `flush` hands every
message to the free function.  Without one it empties nothing, although `threadmessage.h` does not say so; the
model starts with and without.  Not modelled: callbacks of `av_fifo_*_to_cb` that stop half way, failing
reallocations, the size of an element in bytes.

### 2.6 FrameThreads

Threads are the user (who calls `avcodec_send_packet()`, `avcodec_receive_frame()` and
`avcodec_flush_buffers()` and closes the decoder) and `thread_count` workers.  A step goes from one place where a thread
may block to the next: conditions and what they are about change under one mutex, so that a test and the wait
after it are one step.  A worker stands at `pc` and has `state`, `die`, `fctx` (its frames and its result),
`thread` (its packet, its context and its flags) and a hwaccel `hw`; the user stands at `at` in `call` and has
`next_decoding`, `next_finished`, `prev_thread`, its packet and frame buffers (`internal`), the stash and the
async lock.  `Inputs` are pairs of a codec and a stream of packets that give one or two frames, or an error, or a frame and an
error; a codec may have a delay, may have `update_thread_context()`, and a hwaccel of any
capabilities.  Copies of packets and contexts may fail (`copies_fail`), and workers may run out of frames, up to `frames_fail` times
(`nomem` counts them): `decoded_frames_get_free()` fails for the first frame (`SetupFails`), where set-up is not finished unless
the worker itself had done so, or for a later one (`NextFrameFails`).  Then what the codec has
not given out stays in it or is lost, and no claim is made about the packets that follow (`SameAsOneThread`, `AgainMeansHungry` are about
runs with `nomem = 0`).  A hwaccel that is not thread-safe is wiped by the worker (`WorkerWipe`) whether it was handed on or not; after
one has been lost a codec may ask for another or go on without (`GetFormat`).  Spurious wakeups are left out: conditions are shared by several waits, so that a thread is often
woken for nothing anyway.

`history` has the packets submitted and what was returned since the last flush; `Drained` and `Sequential` are what one
thread would have made of these packets: `OneByOne` decodes them with the same `Decode` as the workers (a recursive
function, not a fold, so that it can be proved about).  That a codec finishes set-up once and reports all progress before it
returns, and neither finishes set-up early while it drains nor for a bad packet, is taken from the codecs; that a
hwaccel implies `update_thread_context` is the comment at lines 260-265, and that a delay does is so in every decoder with
`AV_CODEC_CAP_FRAME_THREADS` and `AV_CODEC_CAP_DELAY` (`FrameThreadsAssumption`).  Not modelled:
sending after the end (EOF at once), a frame that `frame_validate()` or `apply_cropping()` makes `avcodec_receive_frame()` drop (with one
thread as with many), a decoder that fails without reporting the progress of its picture, failures while threads are created, `get_buffer()` and its mutex, progress in
several levels and fields, hwaccels replaced in mid-stream, the stash given to the user at close,
`threadprogress.c`.

## 3. Runs

| run | instance | question | result |
|---|---|---|---|
| `tq_safety` | 2 streams of 2 places; 2 senders share one and send 3 items, another sends 1 on the other | lost wakeups, order, counts, ends; refinement of `StreamChannels`; a waiting sender gets through, an end is reported, unless choked for ever | holds |
| `tq_alloc_failure` | the same senders, 1 place, 2 items each, any allocation may fail | what is left of this: types, an index for every item | holds |
| `tq_mispaired` | 2 senders | "`*stream_idx` contains [the] index of the stream" after a failed allocation | violated |
| `sched_transcode` | 1 file that loops once, a copied stream and one transcoded by a graph with a source of its own; 6 and 2 packets | all written, in order, nothing left parked; everything ends although no output asks for the graph | holds |
| `sched_stop` | 1 file that loops, a transcoded and a copied stream; 4 packets of the latter are parked before the encoder opens; interrupt or failure of the encoder at any moment; the graph closes its input, the muxer its streams, after 1 frame, so that `mux_task_start()` is told EOF while packets are still parked | no queue is frozen again; all threads can be joined, nobody waits for a failed task nor for the end time of a decoder that has gone; no send is met with EINVAL, to the stream that was closed during the flush either | holds |
| `sched_overlay` | 2 files into one graph, one loops | some thread can always go on, the graph learns of each end | holds |
| `sched_lavfi` | a graph without inputs beside two copied files; the muxer closes one stream after 3 packets | nobody runs ahead, no send after an end | holds |
| `sched_premux_full` | a transcoded and a copied stream, 2 places in the pre-muxing queues | everything ends | violated |
| `sched_tee` | as `sched_transcode`, the copied stream is the filtered one | some thread can always go on | violated |
| `sync_queue` | video with a limit of 2 frames whose encoder may hang up, audio in frames of 3 samples cut from frames of 1 or 4, a third stream that limits nothing and may have no timestamps; times up to 5 | no stream gets ahead, nothing is lost, repeated or kept back without reason, buffering is bounded, every encoder is closed once | holds |
| `message_queue` | 2 senders, 2 receivers, a ring of 3, 5 messages, errors, flushes, spurious wakeups | no signal is missed; a bounded FIFO channel; growing keeps the contents; once an error stays set every call returns | holds |
| `frame_threads` | 3 threads; seven inputs: still pictures, where one frame may be missing; a codec without delay; with delay and a hwaccel that is not async-safe, or safe in no way; one whose copies fail; one that loses its hwaccel for want of a frame; 2 or 3 packets each; 875 k states | the user gets what one thread would return, and EAGAIN means that the decoder wants a packet, as long as no worker ran out of frames; hwaccels are used as their capabilities allow, never two of one kind that is not thread-safe, and none is lost otherwise; every call returns | holds |

`SomeoneRuns` sets aside only states in which an end has been lost as in finding 2 (`EndLost`): from there not
even `sch_stop()` comes back, because the muxer's thread cannot be joined.

**Bounds and why they suffice.**  `tq_safety` has two places per stream, so that the order within a stream can go wrong, and sends three
items on one of them, so that its senders wait.  In the runs of the scheduler thread queues have one place per stream (the code's default is a
constant of the same nature; with fewer places a task blocks more often and circles of waiting tasks
are shorter).  Streams have 1 to 7 packets: enough to fill every queue on a path, to have the muxer start
in between, to lead by more than the tolerance, and to end on either side first.  The graphs are the
smallest in which each mechanism is needed: late start (an encoder), two sources (two files, or a file
and an internal source), a graph with two inputs, two consumers of one stream, a pass of a looping input that
ends while its decoder may be gone.  The sync queue's times and lengths let a head be passed by one and by
several frames, let an audio frame be cut from one, from two and from the rest of a queued frame, and let each
stream be the first to end.  A ring of 3 with 5 messages wraps around with every distance of its offsets, and
`GrowthKeepsContents` then tries every growth up to its size, so that each case of `av_fifo_grow2()` occurs.  Three
frame threads are the fewest with which the previous and the next thread of one are different, and 3
packets make the ring come round.  One failed allocation of a frame is enough to lose a hwaccel and make a second one (both
happen in the run); that more failures lose no more than one each is proved.

**Deadlock.**  A transcoding stops and a codec is closed, so the scheduler's configurations and
`frame_threads` say `CHECK_DEADLOCK FALSE`; that they stop only where they should is the invariant `SomeoneRuns`
(`ENABLED Run`, which counts on neither a failure nor the user's interrupt) and the liveness property `CallsReturn`.

**Fairness.**  `ThreadQueue`: weak fairness of the receiver, strong fairness of a sender that has been
woken (the mutex is not held for ever and the operating system schedules a runnable thread).
`Scheduler`: only that *some* thread runs while one can (`WF_vars(Run)`), less than what threads get.
`MessageQueue`: weak fairness of a woken thread; nobody need send or receive, so `CallsReturn` is about queues on
which an error is set and stays.
`FrameThreads`: weak fairness of each worker and of the user within a call; the user need not make another one.

## 4. Proofs

`tlapm` checks all of them; they hold for every value of the constants that satisfies the named
assumptions.

*Thread queue* (`ThreadQueueProofs`).  `TypeCorrect` and `ReceiverNeverForgotten` hold whatever
allocations do: the assertion in `receive_locked()` cannot fire, and a receiver never sleeps on a queue
that has something for it.  Under the hypothesis that no allocation fails, `QueueCorrect`,
`SendersNeverForgotten` and `QueueImplementsChannels` follow from one inductive invariant
(`TypeOK`, `StreamsStayPaired`, `StreamsKeepOrder`, `NothingDropped`): that `stream_count[]` is the number of
queued items of a stream is not inductive alone, one has to know that both fifos hold the same streams
in the same order.  `QueueImplementsChannels` is a refinement: every step is a step of `StreamChannels` or
a stutter.  `tq_mispaired` shows the hypothesis is needed.

*Scheduler* (`SchedulerProofs`).  `NothingFrozenAfterStop` (`StopUnfreezes`): inductive with the facts that
only queues that follow a demuxer are ever frozen, so that `choke_demux(0)` for all demuxers reaches
all of them, and that `terminate` is set before, so that a late `schedule_update_locked()` returns early.
Every action is first sorted into one of four kinds (quiet, thaws a queue, updates the schedule, stops).
`NothingParkedForGood` (`NothingLeftPreMuxed`): inductive with the fact that the thread about to set
`mux_started` has seen the queues empty and still holds `mux_ready_lock`, without which nothing is parked.
These two proofs use nothing about the graph but its parts.

*Scheduler, the order of packets* (`SchedulerProofs`, which builds on the invariants of `SchedulerProtocolProofs` below).
`WrittenInOrder` (`InOrder`): what a muxer writes of a stream is the packet after the last one written.  On its way a packet may
be queued by one thread, or parked by it and moved to the queue by another one, while the muxer is being started and other
streams are hung up.  `InOrder` speaks of one step only; `OrderInv` says why the step is right, in three parts:

- `Lines`: for every stream that the muxer still takes (`Wanted`) the packets from the file back to the source join without a
  gap.  `Numbered` is the muxer's queue, `Parked` the pre-muxing queue, `ToSend` what the sender has begun with, and
  `SentUpTo` says where that ends: at what the demuxer has read of the stream, or at what the encoder has taken (`TakenUpTo`), whose
  queue in turn ends at the frames its filtergraph has made (`MadeUpTo`).  A filtergraph that has closed an output makes no more of it.
  For streams that are not wanted any more it is false, because what is sent there is dropped.
- `SendsOnce`: a task has at most one packet yet to send to a destination, however many other operations stand before it.
- `NoneRefused`: no queue holds anything of a stream its consumer refuses, so that what a muxer takes out is from a wanted stream.
- `ToldAreRefused`: a stream with `init_eof` is one the muxer refuses, so that the packets dropped for it are not wanted.

It is proved action by action on top of three facts: who changes a queue, the pre-muxing queues and the file (`WritesAside` and
its neighbours), that whatever a task has yet to send is sent, parked or given up with the stream, and that `mux_started` means that
nothing is parked (`NothingLeftPreMuxed`), without which a packet queued directly could pass a parked one.  From the constants it needs
that one place leads to every input, that encoders have one input, and that `k` in `Script` counts the packets of a stream, which
is what `k` is for.  TLC evaluates these assumptions in every scheduler run.

*Scheduler, the protocol* (`SchedulerProtocolProofs`).  `TypesHold` holds in every graph that satisfies
`SchedulerGraphAssumption` (section 2.2 says which that `sch_connect()` accepts do not), for all scripts, limits and failures, and
so does `NeverSendsAfterEnd`, which `SchedulerProofs` takes from here.  Nearly every action rewrites `todo[t]`, what is left of a
`sch_*()` call, so the proofs look at that first: `Moves` says that a task puts some operations before some of those it had,
and `ActsKinds` that each action is one of six kinds of such moves.

- `NeverSendsAfterEnd` is inductive with `EndsInv` and `ParkedOver`.  A stream is closed in one of three ways (`EndsKnown`): by its
  sender, who knows it or is about to note it; by `mux_task_start()`, which was told EOF and has set `init_eof`; or by `demux_flush()`,
  which was told EOF by a decoder, after which the demuxer has left its loop and sends no more (`NoLateSends`).  An end
  that waits in a pre-muxing queue is known to its sender (`EndParked`, `ParkedEnds`);
  what is yet to be sent goes to nothing that is closed before it (`NotOver`); a filtergraph has no frames for an output it has
  closed (`OutputsOver`).  For `mux_task_start()` itself: behind an end nothing is parked (`EndsLast`), and of a stream that is
  closed without its knowledge nothing (`FinishedIsSent`).  Without `init_eof` in `CallsSend` or in `FlushSends` the property fails
  (`sched_stop` finds it).  That every input has one place that leads to it is needed: two senders could not know of each other.
- `TypesHold` has a part that is no type: `nb_mux_done` never passes the number of muxers, so that `sch_wait()` is not woken too
  early.  A muxer counts as done once per thread, so it must be started once.  `ReadyInv` says that an encoder reports its
  streams once, when it opens, and that streams are reported later only by those who can; `MuxInv` that a muxer that has a thread
  has all its streams, or was ended by `sch_stop()` when no task is left that could report one.
- `DecodersEndWithAFrame` (`EndFrameComesFirst`) is for graphs in which decoders feed every input of a filtergraph; a filtergraph
  that feeds another may end without the frame (section 5).  `EndFrameInv`: as long as nothing has failed, a decoder that has closed
  the way to a filtergraph, or has yet to, has told it the end (`EndTold`: the frame is in the queue, or the graph has had it, or
  takes no more from there), and one that has returned has told it or has that frame yet to send (`EndToCome`).  A decoder that fails
  closes its streams without: `failed = {}` is needed.

They need what picking entries of a sequence returns.  `SubsequenceIs` (`SubsequenceProofs`) proves it: induction over the
naturals is stated for sets (`NatInduct`), so that no operator is a parameter, and the model uses `Subsequence(s, I)` where
`SelectSeq`, which is recursive, could not be reasoned about.

*Thread queue, more.*  `ItemsHaveIndices` and `DoneStaysDone` hold with any failures, `ItemsKeepTheirIndex` without.

*Sync queue* (`SyncQueueProofs`).  `IInv` is `TypeOK`, `HeadIsBehind` (the head is the limiting stream furthest behind, whoever
moved last), `EndHolds` (the streams that are as far as the one that ended first are finished), `NoneAhead` and
`EndsAreKnown`.  `NoneAhead` alone is not inductive: a frame is given out because the head says so, and the head must still
be furthest behind after a heartbeat moved it or a limiting stream ended.  `NoStreamGetsAhead`,
`LateStreamsAreFinished`, `EncodersAreClosed` and `NothingAfterTheEnd` follow.  `FramesStayInOrder` has an invariant of its own,
`AllInSequence`: the frames of a queue join from what was given out to what was sent; that their numbers never
fall is what lets the cut of an audio frame, which may span several, be found.
`BufferingIsBounded` adds `Buffered`: the head is known once every limiting stream has a timestamp (`HeadKnown`), the
earliest end is no later than any limiting stream's (`EndIsFirst`), and what a heartbeat has reached so far (`Reached`).  When it
is through, every stream still running, hence the head, is past the frame held back, or some limiting stream ended before it, and then
all have ended.  The proof attempt refuted an earlier `Bounded` without `Fragment` (section 5).
`NothingIsMissing` is about `Complete`: when the queue has ended, what was held back or refused ends after some limiting stream.
`Accounted` says why, as long as no heartbeat was forced and no encoder hung up: a stream that is finished was ended by its own source or
is as far as the limiting stream that ended first (`WhyFinished`); the last thing offered is what the queue knows of the stream, or was
refused beyond that end (`WhatIsOffered`); and what is queued, or else the last thing received, ends where the queue says the stream is
(`EndsAt`).  The latter needs timestamps on all audio frames and no gaps between them (`Contiguous`), because audio is cut by counting samples:
with a gap `receive_samples()` gives a frame an end that is too early.  It is claimed while no stream but a limiting one has sent
as many frames as it may (`LimitsAreLimiting`): such a limit is a reason of its own.  The instance of `sync_queue` satisfies both.

*Fifo and message queue* (`FifoProofs`, `MessageQueueProofs`).  `FifoProofs` shows that the operators on a ring are
those on the sequence `Contents`: a write appends, a drain removes, a growth changes nothing, with all cases
of wrap-around.  Above that `IInv` (types, the size of the ring, contents are numbers) gives `TypeCorrect` and, with the facts about
the ring, `QueueImplementsChannel`: every step of the detailed queue is a step of `MessageChannel` or a stutter.
`NoWakeupIsLost` is a counting argument, inductive with `IInv`: while anybody sleeps on a condition, as many
others have been woken as there are messages (free slots) to be had.  `GrowthIsSafe` is about every amount of growth.

*Frame threads* (`FrameThreadsProofs`).  `HwaccelStaysExclusive` needs where everybody stands, because the hwaccel is
handed on without a lock: `IInv` is `TypeOK`, `Stages` (where a worker is tells its state), `Turns` (those at work are the
ones from `next_finished` to `next_decoding` round the ring, and only the last of them sets up), `Locks` (who may use a
hwaccel has the lock that it needs) and `Handover` (the one hwaccel is stashed or with the thread that sets up, unless it was the last to be
lost, and a thread without a packet has none; what was made is numbered, and `made <= nomem + 1`: another is made only for one that a
worker lost when it ran out of frames).  `TypeCorrect` needs all of it as well.  These two hold with any number of failed allocations.

`ThreadsMakeNoDifference` (`SameAsOneThread`) and `AgainOnlyWhenHungry` (`AgainMeansHungry`) rest on a second invariant, `DInv`, about
what the threads work on.  Number the submissions since the last flush, the empty ones of draining included.  `ContextAt`, `ResultAt`
and `OutAt` say in which context one thread would be after submission *o*, what it would make of that submission, and what it would have returned
by then.  If `taken` results have been taken, the thread at distance *g* from the one whose turn it is has submission
`taken + 1 + g`:

- `Working`: it has that submission and the context of the one before in front of it, or the result of one thread behind it; a
  thread whose turn is not to come has neither frames nor an error left over;
- `Ahead`: the thread that got the last submission is, once its set-up is done, in the context that one thread would be in.  *Alike*
  is enough: a codec without `update_thread_context()` may differ in what its frames do not depend on, and
  what differs after draining is not looked at again;
- `Given`, `Shows`: how many were submitted, and that what the user has, is being given, and what is kept in `buffer_frame` and in
  `FrameThreadContext` for later calls joins to exactly `OutAt` of the results taken.

`DInv` holds as long as no worker has run out of frames: `WhileMemoryLasts` is `IInv /\ (nomem = 0 => DInv)`, and `nomem` never falls
(`NeverMoreMemory`).  `taken` is not a variable of the code; the invariant says that there is such a number.  `Data` and `CallState` are what goes with it at
each place of a call: where nothing may be kept (`NothingKept`), and when AGAIN and EOF can be on their way.  `SameAsOneThread` alone
is not inductive: it does not say that what is yet to be taken from the ring is what comes next.
The proof is one lemma per action (`...Shows`), above three layers: what `OneByOne` computes step by step (`OneByOneIs`, by
`NatInduct`), what one thread makes of a job (`JobDecodes`, `OutGrows`, `OutEnds`), and distances on the ring (`GapFacts`, `RingFacts`).

*Only model-checked*: liveness, and `SomeoneRuns`, which is stated with `ENABLED`, are out of the prover's reach.
`Complete` and `NoRunaway` of the scheduler are checked on the graphs of section 3: that nothing is missing at the end (`Complete`) depends on
what every task makes of its input, and how far a source runs ahead (`NoRunaway`) on the graph and its queue sizes.

## 5. Findings

1. `tq_mispaired`: `tq_send()` queues the stream index before the item and leaves it behind when the item
   cannot be allocated; the next item is handed out under the wrong stream
   (`thread_queue.c:170-179`, against `thread_queue.h:79,86-87`).
2. `sched_premux_full`: when a pre-muxing queue is full as the end of its stream arrives,
   `mux_queue_packet()` refuses the end, `demux_stream_send_to_dst()` and `enc_send_to_dst()` ignore that
   (`ffmpeg_sched.c:2095`, `:2493`), and once started the muxer waits for the stream for ever: a hang where
   `ffmpeg_sched.h:68-71` promises "eventual transcoding failure".
3. `sched_tee`: `unchoke_for_stream()` looks at the first destination of a demuxed stream only
   (`ffmpeg_sched.c:1365`), so that a filtergraph with a source of its own, below a decoder that is
   the *second* destination, is not unchoked "to prevent [the demuxer] from getting stuck"; all threads
   wait.  Decoder outputs have the same shape (l. 1325).

Also noticed, without a run of their own:

- **Looping inputs.**  When one decoder has finished and the demuxer does not know yet, `demux_flush()` gets EOF from
  `tq_send()` or from the message queue and returns it (`ffmpeg_sched.c:2155`, `:2161`); `input_thread()` then ends the input
  (`ffmpeg_demux.c:890-901`), though its other streams are still wanted: with `-stream_loop` (`ffmpeg.texi:799`) a copied
  stream may stop after a pass because the filtergraph beside it has had enough.  In the model this is `FlushEof`.
- `close_output()` of a graph that feeds another graph sends an end without the "EOF frame" that `sch_filter_receive()`
  (l. 2597) relies on, so the second graph does not learn of it through `send_eof()`; `EndFrameComesFirst` holds in the
  graphs checked because decoders send one.
- **Sync queue.**  A limiting stream that ends without a timestamp leaves `head_stream` at -1, and `overflow_heartbeat()`
  skips finished streams: the others are buffered without bound until they end, against the comments at
  `sync_queue.c:611-613` and `sync_queue.h:51`.  Hence the condition in `Bounded`.  A heartbeat moves
  the others to the end of the *queued* frame (`sync_queue.c:299-309`), but `receive_for_stream()` asks for the end of the frame the
  *encoder* wants (l. 514-522): when that spans queued frames, the heartbeat frees nothing and is not repeated, and an audio stream
  is held beyond `buf_size_us` until the others move by themselves (encoder frames of 3 samples, queued ones of 1 and 4).  Hence
  `Fragment` in `Bounded`.  Samples left over at the end make one frame
  more than the limit (`sync_queue.c:375` against `sync_queue.h:68-69`).
- **Decoding.**  A packet that stays in `buffer_pkt` makes the next send return EAGAIN, and the receive that consumes it
  may say EAGAIN as well (`decode.c:756` against `avcodec.h:158-161`, `171-173`).  A packet whose submission fails (ENOMEM)
  is lost, and its error is returned ahead of earlier frames.  When `decoded_frames_get_free()` fails in a worker that holds the one
  instance of a hwaccel, `ff_thread_finish_setup()` is skipped and the worker wipes the pointers: the hwaccel is not stashed, the next
  thread has to make another or go without, and the private data of the first are leaked, against the comment at `pthread_frame.c:302-305` ("so nothing is
  leaked").  The model has it (`SetupFails`, `WorkerWipe`), `HwaccelIsExclusive` says that it is so nowhere else.  `ff_thread_flush()` copies the last thread's
  context to the first; after draining a codec without `AV_CODEC_CAP_DELAY` that one is stale.

## 6. Plan

1. Runs for which there is no room yet: looping inputs with a consumer that ends early, a sync queue whose limiting
   stream has no timestamps, EAGAIN on both sides.
2. `EncoderThreads` (`frame_thread_encoder.c`), `SliceThreads`, `Executor`, `RefCounts`; then `AsyncProtocol`, `FifoMuxer`
   (on `MessageQueue`), ffplay's queues, `framesync`.
3. Scheduler: subtitle heartbeats and the composition with `SyncQueue` as further actions; loopback decoders; graphs
   below graphs.
4. `FrameThreads`: progress in levels and fields, `get_buffer()`, send after the end.

## 7. Not modelled, and why

Codecs and containers (arithmetic and byte layout, no concurrency), option parsing and reporting
(sequential set-up), the Python front ends (they build command lines), third-party and platform
code.  Slice threads, the executor, reference-counted buffers, frame-threaded encoding, the fifo muxer, the async
protocol, the player's queues and the filter graph are state machines that can be modelled and are left for
section 6.  Most of the tree's lines are codecs, tables and containers, so that the modelled part is small as a
share of it; it is the part in which threads meet.
