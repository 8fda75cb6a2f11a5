----------------------------- MODULE FrameThreads ------------------------------
(***************************************************************************)
(* libavcodec/pthread_frame.c: frame-threaded decoding, under               *)
(* avcodec_send_packet() and avcodec_receive_frame() of decode.c.  The user *)
(* gives packets to worker threads in turn and takes their frames in the    *)
(* same turn; each worker starts from the context the one before it had     *)
(* when its set-up was finished.                                            *)
(*                                                                          *)
(* A step goes from one place where a thread may block to the next.  Conds  *)
(* and the state, progress and packets under them change under the mutex    *)
(* that belongs to them, so that a test and the wait after it are one step. *)
(* A frame that avcodec_receive_frame() drops because frame_validate() or    *)
(* apply_cropping() fails is left out: it is dropped with one thread as well. *)
(***************************************************************************)
EXTENDS Integers, Sequences, FiniteSets, SequencesExt

CONSTANTS
    thread_count,
    Inputs      \* codecs with what their packets hold, in order: "ok", "two" frames,
                \* "bad", or "torn", a frame and an error after it.  A codec has or has
                \* not update_thread_context(); a number of frames it delays
                \* (AV_CODEC_CAP_DELAY if any); and a set of hwaccels, at most one, each
                \* the set of its caps_internal.  Copies of packets and of its context may
                \* fail, and so may as many allocations of frames in its threads

\* A decoder with a hwaccel has update_thread_context() (frame_worker_thread()), and
\* so has one with frames that wait for later packets (h264, mpeg4, rv30 and rv40).
ASSUME FrameThreadsAssumption ==
    /\ thread_count \in Nat /\ thread_count > 1
    /\ \A input \in Inputs :
          /\ input.codec.update \in BOOLEAN /\ input.codec.delay \in Nat
          /\ input.codec.hwaccels # {} \/ input.codec.delay > 0 => input.codec.update
          /\ input.codec.copies_fail \in BOOLEAN /\ input.codec.frames_fail \in Nat
          /\ input.stream \in Seq({"ok", "two", "bad", "torn"})

Threads == 1 .. thread_count
User == 0
Nobody == -1

\* Return values; the error that packet n causes is n.
AGAIN == -1
EOF == -2
NOMEM == -3

VARIABLES
    codec, stream,
    at, call,   \* where the user stands in which call
    u,          \* the thread the call deals with (p)
    user,       \* the packet to submit, the frame to return, what the last call returned
    internal,   \* AVCodecInternal and DecodeContext of the user: the packets sent so
                \* far, buffer_pkt, buffer_frame and how far draining is
    next_decoding, next_finished, prev_thread,
    fctx,       \* df and result of the FrameThreadContext
    pc,         \* where each worker stands
    state,      \* of each PerThreadContext
    die,        \* the threads that have it set
    thread,     \* the rest of each PerThreadContext and its AVCodecContext
    asleep,     \* the condition each thread waits for, Awake if none
    async_lock, \* who has it: the user unless in a call, a worker, Nobody
    hwaccel_mutex,
    hw,         \* avctx->hwaccel of each worker, 0 if none: those that are not
                \* thread-safe are numbered as they are made, others are 1
    stash_hwaccel,
    made,       \* how many hwaccels that are not thread-safe were made
    nomem,      \* how often a worker has run out of memory between two frames
    owner,      \* the thread that decodes each packet (ThreadFrame.owner), 0 before
    reported,   \* packets whose pictures are complete (ff_thread_report_progress())
    history     \* the packets submitted and what was returned since the last flush,
                \* and the codec's context at that time

locks == <<async_lock, hwaccel_mutex>>
hwaccels == <<hw, stash_hwaccel, made>>
caller == <<at, call, u>>
turns == <<next_decoding, next_finished, prev_thread>>
vars == <<codec, stream, caller, user, internal, turns, fctx, pc, state, die, thread, asleep,
          locks, hwaccels, nomem, owner, reported, history>>

Awake == <<>>
Cond(c, p) == <<c, p>>

\* The codec's hwaccel, if it has one, may be used by one thread at a time; only
\* while the user is in a call.
OneThread == \E caps \in codec.hwaccels : "THREAD_SAFE" \notin caps
InCallOnly == \E caps \in codec.hwaccels : "ASYNC_SAFE" \notin caps

SerialIfNotAsync(p) == hw[p] # 0 /\ InCallOnly                  \* mutant

hwaccel_serial(p) == hw[p] # 0 /\ OneThread
NeedsAsync(p) == hw[p] # 0 /\ InCallOnly

CapDelay == codec.delay > 0

Successor(p) == IF p = thread_count THEN 1 ELSE p + 1

--------------------------------------------------------------------------------
(* What a codec c does with the packets s, whichever thread runs it. *)

NewContext == [seen |-> 0, delayed |-> <<>>]

\* Frame i of packet n, as decoded after packet `seen`.
Frame(c, n, i, seen) == <<n, i, IF c.update THEN seen ELSE 0>>

FramesOf(c, s, n, seen) ==
    [i \in 1 .. (IF s[n] = "two" THEN 2 ELSE 1) |-> Frame(c, n, i, seen)]

Decode(c, s, ctx, n) ==
    IF s[n] = "bad"
      THEN [ctx |-> ctx, df |-> <<>>, result |-> n]
      ELSE LET all == ctx.delayed \o FramesOf(c, s, n, ctx.seen)
               k == IF Len(all) > c.delay THEN Len(all) - c.delay ELSE 0
           IN  [ctx |-> [seen |-> n, delayed |-> SubSeq(all, k + 1, Len(all))],
                df |-> SubSeq(all, 1, k),
                result |-> IF s[n] = "torn" THEN n ELSE 0]

\* The decoder is called with an empty packet until it has no frame left.
Drain(ctx) == [ctx |-> [ctx EXCEPT !.delayed = <<>>], df |-> ctx.delayed, result |-> EOF]

\* What the user sees of a result: the error of a packet.
Error(result) == IF result > 0 THEN <<<<result, 0, 0>>>> ELSE <<>>

\* One thread that decodes one more packet; some packets, starting with a context.
DecodeNext(c, s, done, n) ==
    LET d == Decode(c, s, done.ctx, n) IN
    [ctx |-> d.ctx, out |-> done.out \o d.df \o Error(d.result)]

OneByOne(c, s, start, packets) ==
    LET done[i \in 0 .. Len(packets)] ==
            IF i = 0 THEN [ctx |-> start, out |-> <<>>]
                     ELSE DecodeNext(c, s, done[i - 1], packets[i])
    IN  done[Len(packets)]

--------------------------------------------------------------------------------
Init ==
    /\ \E input \in Inputs : codec = input.codec /\ stream = input.stream
    /\ at = "out" /\ call = "none" /\ u = 1
    /\ user = [pkt |-> 0, ret |-> 0, frame |-> <<>>]
    /\ internal = [sent |-> 0, buffer_pkt |-> 0, buffer_frame |-> <<>>,
                   draining_started |-> FALSE, draining |-> FALSE]
    /\ next_decoding = 1 /\ next_finished = 1 /\ prev_thread = 0
    /\ fctx = [df |-> <<>>, result |-> 0]
    /\ pc = [p \in Threads |-> "input"]
    /\ state = [p \in Threads |-> "INPUT_READY"]
    /\ die = {}
    /\ thread = [p \in Threads |->
          [avpkt |-> 0, draining |-> FALSE, ref |-> 0, ctx |-> NewContext,
           df |-> <<>>, result |-> 0]]
    /\ asleep = [t \in Threads \cup {User} |-> Awake]
    /\ async_lock = User
    /\ hwaccel_mutex = Nobody
    /\ hw = [p \in Threads |-> 0]
    /\ stash_hwaccel = 0
    /\ made = 0
    /\ nomem = 0
    /\ owner = [n \in DOMAIN stream |-> 0]
    /\ reported = {}
    /\ history = [start |-> NewContext, fed |-> <<>>, returned |-> <<>>]

\* pthread_cond_broadcast() of some conditions.
Woken(conds) == [t \in DOMAIN asleep |-> IF asleep[t] \in conds THEN Awake ELSE asleep[t]]

Wake(conds) == asleep' = Woken(conds)
Sleep(t, cond) == asleep' = [asleep EXCEPT ![t] = cond]

--------------------------------------------------------------------------------
(* frame_worker_thread() *)

\* submit_packet() holds p->mutex while it waits for the thread before.
UserHolds(p) == at = "copy" /\ u = p

Goto(p, where) == pc' = [pc EXCEPT ![p] = where]

\* Waits for a packet: at "input" a worker does not have p->mutex, elsewhere it has.
WorkerInput(p) ==
    /\ pc[p] = "input" /\ asleep[p] = Awake /\ ~UserHolds(p)
    /\ IF p \in die THEN Goto(p, "dead") /\ UNCHANGED asleep
       ELSE IF state[p] = "INPUT_READY"
         THEN Sleep(p, Cond("input", p)) /\ UNCHANGED pc
         ELSE Goto(p, IF codec.update THEN "setup" ELSE "finish") /\ UNCHANGED asleep
    /\ UNCHANGED <<state, thread, locks, hwaccels, owner, reported>>

HasPicture(p) == ~thread[p].draining /\ stream[thread[p].avpkt] # "bad"

\* What the thread's context makes of its packet.
Decoded(p) ==
    LET t == thread[p] IN
    IF t.draining THEN Drain(t.ctx) ELSE Decode(codec, stream, t.ctx, t.avpkt)

\* A worker that is handed a hwaccel that is not thread-safe: the thread before is
\* using it.
Serialize(p) ==
    IF hwaccel_serial(p)
      THEN hwaccel_mutex = Nobody /\ hwaccel_mutex' = p
      ELSE UNCHANGED hwaccel_mutex

\* get_format(), called by a codec that has no hwaccel.  Codecs call it when the format
\* changes, so one whose hwaccel was lost for want of memory may go on without.
GetFormat(p) ==
    IF codec.hwaccels # {} /\ hw[p] = 0
      THEN \/ /\ made' = (IF OneThread THEN made + 1 ELSE 1)
              /\ hw' = [hw EXCEPT ![p] = made']
           \/ nomem > 0 /\ UNCHANGED <<made, hw>>
      ELSE UNCHANGED <<made, hw>>

\* The codec up to where it calls ff_thread_finish_setup(), and what it will have
\* decoded.
WorkerSetup(p) ==
    LET t == thread[p]
        d == Decoded(p)
    IN
    /\ pc[p] = "setup"
    /\ Serialize(p)
    /\ thread' = [thread EXCEPT ![p].ctx = d.ctx, ![p].df = t.df \o d.df,
                                ![p].result = d.result, ![p].ref = t.ctx.seen]
    /\ IF HasPicture(p)
         THEN owner' = [owner EXCEPT ![t.avpkt] = p] /\ GetFormat(p)
         ELSE UNCHANGED <<owner, made, hw>>
    /\ Goto(p, IF codec.update THEN "finish" ELSE "ready")
    /\ UNCHANGED <<state, asleep, async_lock, stash_hwaccel, reported>>

KeepsLocks(p) == "ready"                                        \* mutant

\* After decoding, what ff_thread_finish_setup() took is released.
After(p) == IF hwaccel_serial(p) \/ NeedsAsync(p) THEN "release" ELSE "ready"

\* ff_thread_finish_setup(): called by the codec, or for it if it cannot, or at the
\* end if it did not get that far.
FinishSerialize(p) ==
    /\ pc[p] = "finish"
    /\ hwaccel_serial(p) /\ hwaccel_mutex = Nobody
    /\ hwaccel_mutex' = p
    /\ UNCHANGED <<state, pc, thread, asleep, async_lock, hwaccels, owner, reported>>

InFinish(p) == pc[p] = "finish" /\ asleep[p] = Awake /\ (hwaccel_serial(p) => hwaccel_mutex = p)

FinishAwaitsAsync(p) ==
    /\ InFinish(p)
    /\ NeedsAsync(p) /\ async_lock # Nobody
    /\ Sleep(p, Cond("async", 0))
    /\ UNCHANGED <<state, pc, thread, locks, hwaccels, owner, reported>>

FinishSetup(p) ==
    /\ InFinish(p)
    /\ IF NeedsAsync(p)
         THEN async_lock = Nobody /\ async_lock' = p
         ELSE UNCHANGED async_lock
    /\ stash_hwaccel' = IF hwaccel_serial(p) THEN hw[p] ELSE stash_hwaccel
    /\ state' = [state EXCEPT ![p] = "SETUP_FINISHED"]
    /\ Wake({Cond("progress", p)})
    /\ Goto(p, IF ~codec.update THEN "setup"
               ELSE IF HasPicture(p) THEN "decode" ELSE After(p))
    /\ UNCHANGED <<thread, hwaccel_mutex, hw, made, owner, reported>>

\* The picture is predicted from the one before: ff_thread_await_progress().
AwaitProgress(p) ==
    LET ref == thread[p].ref IN
    /\ pc[p] = "decode" /\ asleep[p] = Awake
    /\ ref \notin reported \cup {0}
    /\ Sleep(p, Cond("progress", owner[ref]))
    /\ UNCHANGED <<state, pc, thread, locks, hwaccels, owner, reported>>

PictureDone(p) ==
    /\ pc[p] = "decode" /\ asleep[p] = Awake
    /\ thread[p].ref \in reported \cup {0}
    /\ reported' = reported \cup {thread[p].avpkt}
    /\ Wake({Cond("progress", p)})
    /\ Goto(p, After(p))
    /\ UNCHANGED <<state, locks, hwaccels, owner>>

ReportProgress(p) == PictureDone(p) /\ UNCHANGED thread

\* decoded_frames_get_free() has no frame for the codec, which has not finished the
\* set-up: neither does the worker, which keeps the frames that it has when it drains or
\* when the codec leaves the set-up to it.
SetupFails(p) ==
    LET t == thread[p]
        d == Decoded(p)
    IN
    /\ nomem < codec.frames_fail
    /\ pc[p] = "setup"
    /\ Serialize(p)
    /\ \E k \in 0 .. Len(d.df) :
          /\ codec.update /\ ~t.draining => k = 0
          /\ LET ctx == IF t.draining THEN [t.ctx EXCEPT !.delayed = SubSeq(@, k + 1, Len(@))]
                        ELSE IF k = 0 THEN t.ctx ELSE d.ctx
             IN  thread' = [thread EXCEPT ![p].ctx = ctx, ![p].df = t.df \o SubSeq(d.df, 1, k),
                                          ![p].result = NOMEM]
    /\ Goto(p, After(p))
    /\ UNCHANGED <<state, asleep, async_lock, hwaccels, owner, reported>>

\* It has none for a frame after the first.
NextFrameFails(p) ==
    /\ nomem < codec.frames_fail
    /\ PictureDone(p)
    /\ \E k \in 1 .. Len(thread[p].df) :
          thread' = [thread EXCEPT ![p].df = SubSeq(@, 1, k), ![p].result = NOMEM]

WorkerWipe(p) ==
    /\ pc[p] = "release"
    /\ hwaccel_mutex = p /\ hwaccel_mutex' = Nobody
    /\ hw' = [hw EXCEPT ![p] = 0]
    /\ UNCHANGED <<state, pc, thread, asleep, async_lock, stash_hwaccel, made, owner, reported>>

WorkerRelease(p) ==
    /\ pc[p] = "release" /\ hwaccel_mutex # p
    /\ IF async_lock = p
         THEN async_lock' = Nobody /\ Wake({Cond("async", 0)})
         ELSE UNCHANGED <<async_lock, asleep>>
    /\ Goto(p, "ready")
    /\ UNCHANGED <<state, thread, hwaccel_mutex, hwaccels, owner, reported>>

\* Goes back to wait, which gives up p->mutex.
WorkerReady(p) ==
    /\ pc[p] = "ready"
    /\ state' = [state EXCEPT ![p] = "INPUT_READY"]
    /\ asleep' = [Woken({Cond("progress", p), Cond("output", p)}) EXCEPT ![p] = Cond("input", p)]
    /\ Goto(p, "input")
    /\ UNCHANGED <<thread, locks, hwaccels, owner, reported>>

frame_worker_thread(p) ==
    /\ \/ /\ \/ WorkerInput(p) \/ WorkerSetup(p)
             \/ FinishSerialize(p) \/ FinishAwaitsAsync(p) \/ FinishSetup(p)
             \/ AwaitProgress(p) \/ ReportProgress(p)
             \/ WorkerWipe(p) \/ WorkerRelease(p) \/ WorkerReady(p)
          /\ UNCHANGED nomem
       \/ (SetupFails(p) \/ NextFrameFails(p)) /\ nomem' = nomem + 1
    /\ UNCHANGED <<codec, stream, caller, user, internal, turns, fctx, die, history>>

--------------------------------------------------------------------------------
(* Calls of the user. *)

Outside == at = "out"

Go(where) == at' = where /\ UNCHANGED <<call, u>>
With(where, p) == at' = where /\ u' = p /\ UNCHANGED call

ReturnValue(ret) == user' = [user EXCEPT !.ret = ret]

\* The call returns at once.
Return(ret) == call' = "other" /\ ReturnValue(ret) /\ UNCHANGED <<at, u, async_lock, asleep>>

\* Into ff_thread_receive_frame() or park_frame_worker_threads(): async_unlock().
Enter(c, where) ==
    /\ call' = c /\ at' = where /\ u' = 1
    /\ user' = [user EXCEPT !.frame = <<>>]
    /\ async_lock' = Nobody
    /\ Wake({Cond("async", 0)})

avcodec_send_packet ==
    /\ Outside
    /\ ~internal.draining_started /\ internal.sent < Len(stream)
    /\ IF internal.buffer_pkt # 0
         THEN Return(AGAIN) /\ UNCHANGED internal
         ELSE /\ internal' = [internal EXCEPT !.sent = @ + 1, !.buffer_pkt = internal.sent + 1]
              /\ IF internal.buffer_frame = <<>> THEN Enter("send", "loop") ELSE Return(0)
    /\ UNCHANGED history

\* With an empty packet.
avcodec_send_end ==
    /\ Outside
    /\ ~internal.draining_started
    /\ internal' = [internal EXCEPT !.draining_started = TRUE]
    /\ Return(0)
    /\ UNCHANGED history

\* "sync" with AV_CODEC_RECEIVE_FRAME_FLAG_SYNCHRONOUS.
avcodec_receive_frame ==
    /\ Outside
    /\ IF internal.buffer_frame # <<>>
         THEN /\ Return(0)
              /\ internal' = [internal EXCEPT !.buffer_frame = <<>>]
              /\ history' = [history EXCEPT !.returned = @ \o internal.buffer_frame]
         ELSE /\ \E c \in {"receive", "sync"} : Enter(c, "loop")
              /\ UNCHANGED <<internal, history>>

\* avcodec_flush_buffers(), and ff_frame_thread_free() when the decoder is closed.
ParkAll ==
    /\ Outside
    /\ \E c \in {"flush", "close"} : Enter(c, "park")
    /\ UNCHANGED <<internal, history>>

Calls ==
    /\ avcodec_send_packet \/ avcodec_send_end \/ avcodec_receive_frame \/ ParkAll
    /\ UNCHANGED <<codec, stream, turns, fctx, pc, state, die, thread, hwaccel_mutex,
                   hwaccels, nomem, owner, reported>>

--------------------------------------------------------------------------------
(* ff_thread_receive_frame().  The steps of a call leave alone what is not   *)
(* the user's; most leave these alone too.                                   *)

shared == <<state, die, async_lock, asleep, hw, stash_hwaccel>>

Pending == fctx.df # <<>> \/ fctx.result # 0

InFlightUnknown == FALSE                                        \* mutant

InFlight == next_decoding # next_finished

\* Ends the loop with a frame first, and the error once there are none.
Finish ==
    /\ at = "loop" /\ Pending
    /\ Go("relock")
    /\ IF fctx.df # <<>>
         THEN /\ user' = [user EXCEPT !.ret = 0, !.frame = <<Head(fctx.df)>>]
              /\ fctx' = [fctx EXCEPT !.df = Tail(@)]
         ELSE ReturnValue(fctx.result) /\ fctx' = [fctx EXCEPT !.result = 0]
    /\ UNCHANGED <<internal, turns, thread, shared, history>>

WaitAtOnce ==
    /\ at = "loop" /\ ~Pending
    /\ call = "sync" /\ InFlight
    /\ With("wait", next_finished)
    /\ next_finished' = Successor(next_finished)
    /\ UNCHANGED <<user, internal, next_decoding, prev_thread, fctx, thread, shared, history>>

\* ff_decode_get_packet(): the packet sent last, or an empty one for EOF.
GetPacket ==
    /\ at = "loop" /\ ~Pending
    /\ ~(call = "sync" /\ InFlight)
    /\ IF internal.buffer_pkt = 0 /\ ~internal.draining_started
         THEN Go("relock") /\ ReturnValue(AGAIN) /\ UNCHANGED internal
         ELSE /\ With("submit", next_decoding)
              /\ user' = [user EXCEPT !.pkt = internal.buffer_pkt]
              /\ internal' = [internal EXCEPT !.buffer_pkt = 0,
                                              !.draining = @ \/ internal.buffer_pkt = 0]
    /\ UNCHANGED <<turns, fctx, thread, shared, history>>

\* submit_packet() gets p->mutex, gives p the packet and what the user has set.
SubmitPacket ==
    /\ at = "submit"
    /\ pc[u] = "input"
    /\ thread' = [thread EXCEPT ![u].avpkt = user.pkt,
                                ![u].draining = @ \/ user.pkt = 0]
    /\ \/ Go("copy") /\ UNCHANGED user
       \/ codec.copies_fail /\ Go("relock") /\ ReturnValue(NOMEM)
    /\ UNCHANGED <<internal, turns, fctx, shared, history>>

SetUpAny(p) == TRUE                                             \* mutant

\* p is past its set-up.
SetUp(p) == state[p] # "SETTING_UP"

SubmitAwaitsSetup ==
    /\ at = "copy" /\ asleep[User] = Awake
    /\ prev_thread # 0 /\ ~SetUp(prev_thread)
    /\ Sleep(User, Cond("progress", prev_thread))
    /\ UNCHANGED <<caller, user, internal, turns, fctx, state, die, thread, async_lock, hw,
                   stash_hwaccel, history>>

\* update_context_from_thread(): with a thread-safe hwaccel dst gets one like src.
Updates == prev_thread # 0 /\ codec.update /\ (~thread[u].draining \/ CapDelay)

Updated(src, dst) == [thread EXCEPT ![dst].ctx = thread[src].ctx]

UpdatedHw(src, dst) == IF OneThread THEN hw ELSE [hw EXCEPT ![dst] = hw[src]]

CanCopy ==
    /\ at = "copy" /\ asleep[User] = Awake
    /\ prev_thread # 0 => SetUp(prev_thread)

CopyFails ==
    /\ CanCopy
    /\ codec.copies_fail /\ Updates
    /\ Go("relock") /\ ReturnValue(NOMEM)
    /\ UNCHANGED <<internal, turns, fctx, thread, shared, history>>

\* The hwaccel that all threads share goes to the next one with the context.
Submit ==
    /\ CanCopy
    /\ IF Updates THEN thread' = Updated(prev_thread, u) ELSE UNCHANGED thread
    /\ IF OneThread
         THEN hw' = [hw EXCEPT ![u] = stash_hwaccel] /\ stash_hwaccel' = hw[u]
         ELSE /\ hw' = IF Updates THEN UpdatedHw(prev_thread, u) ELSE hw
              /\ UNCHANGED stash_hwaccel
    /\ state' = [state EXCEPT ![u] = "SETTING_UP"]
    /\ Wake({Cond("input", u)})
    /\ prev_thread' = u
    /\ next_decoding' = Successor(next_decoding)
    /\ IF next_decoding' # next_finished /\ ~internal.draining
         THEN Go("loop") /\ UNCHANGED next_finished
         ELSE With("wait", next_finished) /\ next_finished' = Successor(next_finished)
    /\ history' = IF user.pkt = 0 THEN history
                  ELSE [history EXCEPT !.fed = Append(@, user.pkt)]
    /\ UNCHANGED <<user, internal, fctx, die, async_lock>>

\* The user waits until a thread is done with its packet.
AwaitOutput ==
    /\ at \in {"wait", "park"} /\ asleep[User] = Awake
    /\ u \in Threads /\ state[u] # "INPUT_READY"
    /\ Sleep(User, Cond("output", u))
    /\ UNCHANGED <<caller, user, internal, turns, fctx, state, die, thread, async_lock, hw,
                   stash_hwaccel, history>>

TakeResult ==
    /\ at = "wait" /\ asleep[User] = Awake
    /\ state[u] = "INPUT_READY"
    /\ fctx' = [fctx EXCEPT !.result = thread[u].result,
                            !.df = IF thread[u].df # <<>> THEN thread[u].df ELSE @]
    /\ thread' = [thread EXCEPT ![u].result = 0,
                                ![u].df = IF @ # <<>> THEN fctx.df ELSE @]
    /\ Go("loop")
    /\ UNCHANGED <<user, internal, turns, shared, history>>

\* park_frame_worker_threads()
Park ==
    /\ at = "park" /\ asleep[User] = Awake
    /\ IF u \in Threads
         THEN state[u] = "INPUT_READY" /\ With("park", u + 1)
         ELSE Go("relock")
    /\ UNCHANGED <<user, internal, turns, fctx, thread, shared, history>>

--------------------------------------------------------------------------------
(* async_lock(), and what the call does with the lock. *)

AwaitAsync ==
    /\ at = "relock" /\ asleep[User] = Awake
    /\ async_lock # Nobody
    /\ Sleep(User, Cond("async", 0))
    /\ UNCHANGED <<caller, user, internal, turns, fctx, state, die, thread, async_lock, hw,
                   stash_hwaccel, history>>

Relock ==
    /\ at = "relock" /\ asleep[User] = Awake
    /\ async_lock = Nobody /\ async_lock' = User
    /\ UNCHANGED <<state, die, asleep, stash_hwaccel>>

\* avcodec_send_packet() keeps the frame, and returns nothing but errors.
SendReturns ==
    /\ call = "send" /\ Relock /\ Go("out")
    /\ internal' = [internal EXCEPT !.buffer_frame = user.frame]
    /\ ReturnValue(IF user.ret \in {AGAIN, EOF} THEN 0 ELSE user.ret)
    /\ history' = [history EXCEPT !.returned = @ \o Error(user.ret)]
    /\ UNCHANGED <<turns, fctx, thread, hw>>

ReceiveReturns ==
    /\ call \in {"receive", "sync"} /\ Relock /\ Go("out")
    /\ history' = [history EXCEPT !.returned = @ \o user.frame \o Error(user.ret)]
    /\ UNCHANGED <<user, internal, turns, fctx, thread, hw>>

\* ff_thread_flush(): the first thread goes on from the last one's context, and
\* avcodec_flush_buffers() of each ends its draining and drops what it delays.
Flush ==
    LET copies == prev_thread \notin {0, 1} /\ codec.update
        th == IF copies THEN Updated(prev_thread, 1) ELSE thread
        stale == internal.draining /\ ~CapDelay
        ctx == IF stale THEN th[1].ctx ELSE OneByOne(codec, stream, history.start, history.fed).ctx
    IN
    /\ call = "flush" /\ Relock /\ Go("out")
    /\ thread' = [p \in Threads |->
          [th[p] EXCEPT !.ctx.delayed = <<>>, !.draining = FALSE, !.df = <<>>, !.result = 0]]
    /\ hw' = IF copies THEN UpdatedHw(prev_thread, 1) ELSE hw
    /\ next_decoding' = 1 /\ next_finished' = 1 /\ prev_thread' = 0
    /\ fctx' = [df |-> <<>>, result |-> 0]
    /\ internal' = [internal EXCEPT !.buffer_pkt = 0, !.buffer_frame = <<>>,
                                    !.draining_started = FALSE, !.draining = FALSE]
    /\ history' = [start |-> [ctx EXCEPT !.delayed = <<>>], fed |-> <<>>, returned |-> <<>>]
    /\ ReturnValue(0)

\* ff_frame_thread_free(): the threads are told to end one by one, and joined.
Free ==
    /\ call = "close" /\ Relock /\ With("die", 1)
    /\ UNCHANGED <<user, internal, turns, fctx, thread, hw, history>>

Die ==
    /\ at = "die"
    /\ pc[u] = "input"
    /\ die' = die \cup {u}
    /\ Wake({Cond("input", u)})
    /\ Go("join")
    /\ UNCHANGED <<user, internal, turns, fctx, state, thread, async_lock, hw, stash_hwaccel,
                   history>>

Join ==
    /\ at = "join"
    /\ pc[u] = "dead"
    /\ IF u < thread_count THEN With("die", u + 1) ELSE Go("closed")
    /\ UNCHANGED <<user, internal, turns, fctx, thread, shared, history>>

InCall ==
    /\ \/ Finish \/ WaitAtOnce \/ GetPacket
       \/ SubmitPacket \/ SubmitAwaitsSetup \/ CopyFails \/ Submit
       \/ AwaitOutput \/ TakeResult \/ Park
       \/ AwaitAsync \/ SendReturns \/ ReceiveReturns \/ Flush \/ Free \/ Die \/ Join
    /\ UNCHANGED <<codec, stream, pc, hwaccel_mutex, made, nomem, owner, reported>>

--------------------------------------------------------------------------------
Next ==
    \/ \E p \in Threads : frame_worker_thread(p)
    \/ Calls
    \/ InCall

Spec == Init /\ [][Next]_vars

\* Threads run, and the user's call goes on; the user need not make calls.
FairSpec ==
    /\ Spec
    /\ \A p \in Threads : WF_vars(frame_worker_thread(p))
    /\ WF_vars(InCall)

--------------------------------------------------------------------------------
(* Properties. *)

States == {"INPUT_READY", "SETTING_UP", "SETUP_FINISHED"}

\* The part of the state that decides who runs.
TypeOK ==
    /\ codec.hwaccels # {} => codec.update
    /\ at \in {"out", "loop", "submit", "copy", "wait", "park", "relock", "die", "join", "closed"}
    /\ call \in {"none", "other", "send", "receive", "sync", "flush", "close"}
    /\ u \in 1 .. thread_count + 1
    /\ next_decoding \in Threads /\ next_finished \in Threads /\ prev_thread \in Threads \cup {0}
    /\ pc \in [Threads -> {"input", "setup", "finish", "decode", "release", "ready", "dead"}]
    /\ state \in [Threads -> States]
    /\ async_lock \in Threads \cup {User, Nobody} /\ hwaccel_mutex \in Threads \cup {Nobody}
    /\ hw \in [Threads -> Nat] /\ stash_hwaccel \in Nat /\ made \in Nat /\ nomem \in Nat

Sequential(packets) == OneByOne(codec, stream, history.start, packets)

Drained(packets) == Sequential(packets).out \o Sequential(packets).ctx.delayed

\* Whatever the threads do, the user is returned what a single thread would have
\* returned: each frame once, in the order of the packets, decoded from the context
\* the packet before left, each error after the frames of its packet; and once
\* ff_thread_receive_frame() has returned EOF nothing is missing.  A worker that runs
\* out of memory gives up its packet, and nothing is said of what comes after.
SameAsOneThread ==
    nomem = 0 =>
        /\ IsPrefix(history.returned, Drained(history.fed))
        /\ Outside /\ user.ret = EOF => history.returned = Drained(history.fed)

\* AVERROR(EAGAIN) of avcodec_receive_frame() means that a packet is needed: the
\* next one will be accepted, and no more packets are on their way than
\* AVCodecContext.delay says, none if the call was synchronous.
AgainMeansHungry ==
    nomem = 0 /\ Outside /\ user.ret = AGAIN /\ call \in {"receive", "sync"} =>
        LET late == IF call = "sync" THEN 0 ELSE thread_count - 1 IN
        /\ internal.buffer_pkt = 0 /\ internal.buffer_frame = <<>>
        /\ IsPrefix(Sequential(SubSeq(history.fed, 1, Len(history.fed) - late)).out,
                    history.returned)

\* Once its set-up is finished a worker may call its hwaccel.
InHwaccel(p) ==
    hw[p] # 0 /\ pc[p] \in {"decode", "release"} /\ state[p] = "SETUP_FINISHED"

\* A hwaccel that is not async-safe is never used while the user is outside the
\* decoder; one that is not thread-safe is used by one thread at a time, and is handed
\* on to a thread that has none (the assertions of update_context_from_thread(),
\* submit_packet(), ff_thread_finish_setup() and frame_worker_thread()).  Two are never
\* about, and one is lost, and another made, only when a worker runs out of memory.
HwaccelIsExclusive ==
    /\ InCallOnly /\ Outside => \A p \in Threads : ~InHwaccel(p)
    /\ OneThread =>
          /\ \A p, q \in Threads : InHwaccel(p) /\ InHwaccel(q) => p = q
          /\ {hw[p] : p \in Threads} \cup {stash_hwaccel} \subseteq {0, made}
          /\ made <= nomem + 1
          /\ made > nomem => stash_hwaccel = made \/ \E p \in Threads : hw[p] = made
          /\ CanCopy => hw[u] = 0
          /\ \A p \in Threads : InFinish(p) => stash_hwaccel = 0
          /\ \A p \in Threads : pc[p] = "ready" => hw[p] = 0

\* No thread waits for ever for another, for progress, for a lock or for the user:
\* every call returns, and closing the decoder ends all threads.
CallsReturn == []<>(at \in {"out", "closed"})
================================================================================
