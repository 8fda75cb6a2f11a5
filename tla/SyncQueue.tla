------------------------------- MODULE SyncQueue -------------------------------
(***************************************************************************)
(* fftools/sync_queue.c as send_to_enc_sq() of ffmpeg_sched.c uses it: the  *)
(* frames of several filtergraph outputs are held back so that no stream    *)
(* gets ahead of a limiting one (-shortest, -frames), and audio is cut into *)
(* frames of the size its encoder wants.                                    *)
(*                                                                          *)
(* Stream s feeds encoder s.  A call of send_to_enc_sq() holds the lock of  *)
(* the queue from its sq_send() to the last sq_receive(); a step is one     *)
(* sq_send(), one frame received and passed on, or one stream's share of    *)
(* the overflow heartbeat.                                                  *)
(*                                                                          *)
(* All streams have one time base.  A sample lasts one unit of time.        *)
(***************************************************************************)
EXTENDS Integers, Sequences, FiniteSets

CONSTANTS
    NbStreams,      \* sq->nb_streams, when everything is set up
    Limiting,       \* the streams added with limiting != 0
    FrameSamples,   \* sq_frame_samples(): samples the encoder wants, 0 for video
    FramesMax,      \* sq_limit_frames(): the most frames to output
    BufSize,        \* sq->buf_size_us, the longest duration to be buffered
    NOPTS,          \* AV_NOPTS_VALUE
    Lengths,        \* durations a frame of the stream may have
    Gaps,           \* what may be missing between two frames of a stream
    MaxTime,        \* bound: no frame ends after this
    Untimed,        \* streams that may have frames without a timestamp
    MayHangUp       \* encoders that may refuse frames at any time

Streams == 0 .. NbStreams - 1
Frame == {f \in [pts : Nat \cup {NOPTS}, len : Nat, at : Nat] : f.pts = NOPTS => f.len = 0}

ASSUME SyncQueueAssumption ==
    /\ NbStreams \in Nat \ {0}
    /\ Limiting \subseteq Streams
    /\ FrameSamples \in [Streams -> Nat]
    /\ FramesMax \in [Streams -> Nat \ {0}]
    /\ BufSize \in Nat \ {0}
    /\ NOPTS \in Int /\ NOPTS < 0
    /\ \A s \in Streams : Lengths[s] \subseteq Nat
    /\ Gaps \subseteq Nat
    /\ MaxTime \in Nat

VARIABLES
    fifo,       \* the frames of each stream; "at" counts the frames or samples before
    sq,         \* the rest of the queue's state
    sent,       \* frames or, of audio, samples accepted: st->frames_sent, samples_sent
    caller,     \* the stream whose call holds the lock, and where it is
    ended,      \* streams whose filtergraph got EOF or sent the end
    offered,    \* end of the last frame offered to sq_send()
    gone,       \* encoders that take no more frames
    closed,     \* encoders told that no more frames come
    out,        \* frames or samples received
    longest,    \* the largest end of a frame received
    forced      \* a heartbeat was needed

vars == <<fifo, sq, sent, caller, ended, offered, gone, closed, out, longest, forced>>

Idle == [pc |-> "idle", next |-> 0, ts |-> 0, from |-> 0]
At(pc) == caller.pc = pc
GoTo(pc) == caller' = [Idle EXCEPT !.pc = pc]

Init ==
    /\ fifo = [s \in Streams |-> <<>>]
    /\ sq = [head_ts |-> [s \in Streams |-> NOPTS], finished |-> {},
             head_stream |-> -1, head_finished_stream |-> -1]
    /\ sent = [s \in Streams |-> 0]
    /\ caller = Idle
    /\ ended = {} /\ gone = {} /\ closed = {}
    /\ offered = [s \in Streams |-> NOPTS]
    /\ out = [s \in Streams |-> 0]
    /\ longest = [s \in Streams |-> NOPTS]
    /\ forced = FALSE

--------------------------------------------------------------------------------
(* Heads and ends.  q is the queue. *)

Timed(q) == {s \in Streams : q.head_ts[s] # NOPTS}

LimitingFinished(q) == Limiting \subseteq q.finished           \* mutant

\* sq->finished is set when the last stream is.
Finished(q) == q.finished = Streams

\* mutant: only the stream itself is finished
finish_this_only(q, s) ==
    [q EXCEPT !.finished = @ \cup {s},
              !.head_finished_stream = IF s \in Limiting \cap Timed(q) THEN s ELSE @]

\* mutant: the end of a limiting stream is the end of all
finish_all(q, s) ==
    IF s \in Limiting \cap Timed(q)
      THEN [q EXCEPT !.finished = Streams, !.head_finished_stream = s]
      ELSE [q EXCEPT !.finished = @ \cup {s}]

\* mutant: only limiting streams end
finish_limiting(q, s) ==
    IF s \in Limiting \cap Timed(q)
      THEN [q EXCEPT !.finished = @ \cup {s}, !.head_finished_stream = s] ELSE q

\* finish_stream(): a limiting stream that ends takes the streams with it that are ahead of
\* the one that ended first.
finish_stream(q, s) ==
    LET first == IF \/ q.head_finished_stream < 0
                    \/ q.head_ts[s] < q.head_ts[q.head_finished_stream]
                   THEN s ELSE q.head_finished_stream
        ahead == {t \in Timed(q) : q.head_ts[first] <= q.head_ts[t]} IN
    IF s \in Limiting \cap Timed(q)
      THEN [q EXCEPT !.finished = @ \cup {s} \cup ahead, !.head_finished_stream = first]
      ELSE [q EXCEPT !.finished = @ \cup {s}]

\* mutant: any stream may become the head
queue_head_any(q) ==
    IF ~(Limiting \subseteq Timed(q)) THEN q
    ELSE [q EXCEPT !.head_stream = CHOOSE s \in Timed(q) :
                \A t \in Timed(q) : q.head_ts[s] <= q.head_ts[t]]

\* mutant: the head is looked for only once
queue_head_first(q) ==
    IF q.head_stream >= 0 \/ ~(Limiting \subseteq Timed(q)) THEN q
    ELSE [q EXCEPT !.head_stream = CHOOSE s \in Limiting :
                \A t \in Limiting : q.head_ts[s] <= q.head_ts[t]]

\* The head is the limiting stream furthest behind; it does not change among
\* equals.  There is none until every limiting stream has a timestamp.
queue_head_update(q) ==
    LET timed == Limiting \cap Timed(q)
        behind == {s \in timed : \A t \in timed : q.head_ts[s] <= q.head_ts[t]} IN
    IF q.head_stream < 0 /\ ~(Limiting \subseteq Timed(q)) THEN q
    ELSE IF q.head_stream \in behind THEN q
    ELSE [q EXCEPT !.head_stream = CHOOSE s \in behind : \A t \in behind : s <= t]

stream_update_ts(q, s, ts) ==
    LET moved == [q EXCEPT !.head_ts[s] = ts]
        late == /\ q.head_finished_stream >= 0
                /\ moved.head_ts[q.head_finished_stream] <= ts
        over == IF late THEN finish_stream(moved, s) ELSE moved IN
    IF ts = NOPTS \/ (q.head_ts[s] # NOPTS /\ q.head_ts[s] >= ts) THEN q
    ELSE IF s \in Limiting /\ (q.head_stream < 0 \/ q.head_stream = s)
      THEN queue_head_update(over) ELSE over

--------------------------------------------------------------------------------
(* sq_send(). *)

Units(s, f) == IF FrameSamples[s] = 0 THEN 1 ELSE f.len
frame_end(f) == f.pts + f.len
FramesSent(s, n) == IF FrameSamples[s] = 0 THEN n ELSE n \div FrameSamples[s]

NextFrames(s) ==
    LET from == IF offered[s] = NOPTS THEN 0 ELSE offered[s] IN
    {f \in [pts : {from + g : g \in Gaps}, len : Lengths[s], at : {sent[s]}] :
        frame_end(f) <= MaxTime}
    \cup {f \in {[pts |-> NOPTS, len |-> 0, at |-> sent[s]]} :
                s \in Untimed /\ sent[s] <= MaxTime}

OfferedEnd(s, f) == IF f.pts = NOPTS THEN offered[s] ELSE frame_end(f)

SendFrame(s) ==
    /\ At("idle")
    /\ s \notin ended \cup sq.finished
    /\ \E f \in NextFrames(s) :
        LET n == sent[s] + Units(s, f)
            q == stream_update_ts(sq, s, frame_end(f)) IN
        /\ fifo' = [fifo EXCEPT ![s] = Append(@, f)]
        /\ sent' = [sent EXCEPT ![s] = n]
        /\ offered' = [offered EXCEPT ![s] = OfferedEnd(s, f)]
        /\ sq' = IF FramesSent(s, n) >= FramesMax[s] THEN finish_stream(q, s) ELSE q
    /\ GoTo("receive")
    /\ UNCHANGED <<ended, gone, closed, out, longest, forced>>

\* The stream takes no more frames: the filtergraph gets EOF and will send
\* the end.
SendRefused(s) ==
    /\ At("idle")
    /\ s \in sq.finished \ ended
    /\ \E f \in NextFrames(s) : offered' = [offered EXCEPT ![s] = OfferedEnd(s, f)]
    /\ ended' = ended \cup {s}
    /\ UNCHANGED <<fifo, sq, sent, caller, gone, closed, out, longest, forced>>

\* The end, by a filtergraph output that is closed, and again when its thread
\* is.
SendEnd(s) ==
    /\ At("idle")
    /\ sq' = finish_stream(sq, s)
    /\ ended' = ended \cup {s}
    /\ GoTo("receive")
    /\ UNCHANGED <<fifo, sent, offered, gone, closed, out, longest, forced>>

--------------------------------------------------------------------------------
(* sq_receive(). *)

\* st->samples_queued of an audio stream
SamplesQueued(s) ==
    IF fifo[s] = <<>> THEN 0
    ELSE sent[s] - Head(fifo[s]).at

WholeFramesOnly(s) == FrameSamples[s]                          \* mutant

\* Samples of the frame that comes next; 0: the frame as it is queued.
NbSamples(s) ==
    IF s \in sq.finished /\ SamplesQueued(s) < FrameSamples[s]
      THEN SamplesQueued(s) ELSE FrameSamples[s]

\* When the frame that comes next ends.
TailEnd(s) ==
    LET f == Head(fifo[s]) IN
    IF FrameSamples[s] = 0 THEN frame_end(f) ELSE f.pts + NbSamples(s)

\* receive_for_stream() gives a frame that does not end after the queue's head.
Ready(s) ==
    /\ fifo[s] # <<>>
    /\ FrameSamples[s] <= SamplesQueued(s) \/ s \in sq.finished
    /\ \/ Limiting = {}
       \/ TailEnd(s) = NOPTS
       \/ sq.head_stream >= 0 /\ TailEnd(s) <= sq.head_ts[sq.head_stream]

\* receive_samples(): n samples off the front of the frames q.
Without(q, n) ==
    LET kept == {i \in 1 .. Len(q) : q[i].at + q[i].len > q[1].at + n}
        k == CHOOSE i \in kept : \A j \in kept : i <= j
        cut == IF q[1].at + n > q[k].at THEN q[1].at + n - q[k].at ELSE 0 IN
    IF kept = {} THEN <<>>
    ELSE <<[pts |-> q[k].pts + cut, len |-> q[k].len - cut, at |-> q[k].at + cut]>>
            \o SubSeq(q, k + 1, Len(q))

Receive(s) ==
    /\ At("receive") \/ At("retry")
    /\ Ready(s)
    /\ \A t \in Streams : t < s => ~Ready(t)
    /\ fifo' = [fifo EXCEPT ![s] = IF FrameSamples[s] = 0 THEN Tail(@) ELSE Without(@, NbSamples(s))]
    /\ longest' = [longest EXCEPT ![s] = IF TailEnd(s) > @ THEN TailEnd(s) ELSE @]
    /\ out' = [out EXCEPT ![s] = @ + (IF FrameSamples[s] = 0 THEN 1 ELSE NbSamples(s))]
    /\ sq' = IF s \in gone THEN finish_stream(sq, s) ELSE sq    \* tq_send() says EOF
    /\ GoTo("receive")
    /\ UNCHANGED <<sent, ended, offered, gone, closed, forced>>

NothingReady == \A s \in Streams : ~Ready(s)

\* EOF for all streams: every encoder is told.
ReceiveEof ==
    /\ At("receive") \/ At("retry")
    /\ NothingReady
    /\ Finished(sq)
    /\ closed' = Streams
    /\ GoTo("idle")
    /\ UNCHANGED <<fifo, sq, sent, ended, offered, gone, out, longest, forced>>

\* The end of the first frame with a timestamp.
TailTs(s) ==
    LET timed == {i \in 1 .. Len(fifo[s]) : frame_end(fifo[s][i]) # NOPTS} IN
    IF timed = {} THEN NOPTS
    ELSE frame_end(fifo[s][CHOOSE i \in timed : \A j \in timed : i <= j])

\* s is the stream most ahead, the first of them, and holds too much.
Overflows(s) ==
    /\ s \in Timed(sq)
    /\ \A t \in Timed(sq) :
          sq.head_ts[s] > sq.head_ts[t] \/ (sq.head_ts[s] = sq.head_ts[t] /\ s <= t)
    /\ TailTs(s) # NOPTS
    /\ TailTs(s) < sq.head_ts[s]
    /\ sq.head_ts[s] - TailTs(s) >= BufSize

Overflow == \E s \in Streams : Overflows(s)

ReceiveAgain ==
    /\ At("retry") \/ (At("receive") /\ ~Overflow)
    /\ NothingReady
    /\ ~Finished(sq)
    /\ GoTo("idle")
    /\ UNCHANGED <<fifo, sq, sent, ended, offered, gone, closed, out, longest, forced>>

OverflowStart(s) ==
    /\ At("receive")
    /\ NothingReady
    /\ ~Finished(sq)
    /\ Overflows(s)
    /\ caller' = [pc |-> "heartbeat", next |-> 0, ts |-> TailTs(s) + 1, from |-> s]
    /\ forced' = TRUE
    /\ UNCHANGED <<fifo, sq, sent, ended, offered, gone, closed, out, longest>>

LagsIfTimed(s) ==                                              \* mutant
    s \in Timed(sq) \ sq.finished /\ s # caller.from /\ caller.ts > sq.head_ts[s]

\* overflow_heartbeat() moves the streams that hold the tail back.
Lags(s) ==
    /\ s # caller.from
    /\ s \notin sq.finished
    /\ sq.head_ts[s] = NOPTS \/ caller.ts > sq.head_ts[s]

Heartbeat ==
    LET s == caller.next IN
    /\ At("heartbeat")
    /\ sq' = IF Lags(s) THEN stream_update_ts(sq, s, caller.ts) ELSE sq
    /\ caller' = IF s = NbStreams - 1 THEN [Idle EXCEPT !.pc = "retry"]
                 ELSE [caller EXCEPT !.next = s + 1]
    /\ UNCHANGED <<fifo, sent, ended, offered, gone, closed, out, longest, forced>>

--------------------------------------------------------------------------------
\* An encoder finishes early, or fails.
HangUp(s) ==
    /\ s \in MayHangUp \ gone
    /\ gone' = gone \cup {s}
    /\ UNCHANGED <<fifo, sq, sent, caller, ended, offered, closed, out, longest, forced>>

Next ==
    \/ \E s \in Streams : SendFrame(s) \/ SendRefused(s) \/ SendEnd(s)
    \/ \E s \in Streams : Receive(s) \/ OverflowStart(s) \/ HangUp(s)
    \/ ReceiveEof \/ ReceiveAgain \/ Heartbeat

Spec == Init /\ [][Next]_vars

--------------------------------------------------------------------------------
(* Properties. *)

\* The types of the queue; a head is always a limiting stream, which lets
\* receive_for_stream() read the head's timestamp without a check.
TypeOK ==
    /\ fifo \in [Streams -> Seq(Frame)]
    /\ sq \in [head_ts : [Streams -> Nat \cup {NOPTS}], finished : SUBSET Streams,
               head_stream : Limiting \cup {-1}, head_finished_stream : Limiting \cup {-1}]
    /\ sent \in [Streams -> Nat]
    /\ caller \in [pc : {"idle", "receive", "retry", "heartbeat"}, next : Streams,
                   ts : Nat, from : Streams]
    /\ ended \subseteq Streams /\ gone \subseteq Streams /\ closed \subseteq Streams
    /\ offered \in [Streams -> Nat \cup {NOPTS}] /\ longest \in [Streams -> Int]
    /\ out \in [Streams -> Int]
    /\ forced \in BOOLEAN

\* sq_add_stream(): no stream gets ahead of a limiting one.  Nothing that was
\* received ends after the last thing known of any limiting stream.
NoneAhead ==
    \A s \in Streams, l \in Limiting :
        longest[s] = NOPTS \/ (sq.head_ts[l] # NOPTS /\ longest[s] <= sq.head_ts[l])

\* Once a limiting stream has ended, every stream that is known to have got as
\* far as it is finished, also one that gets there later or by a heartbeat.
LateStreamsFinished ==
    sq.head_finished_stream >= 0 =>
        \A s \in Timed(sq) :
            sq.head_ts[sq.head_finished_stream] <= sq.head_ts[s] => s \in sq.finished

\* What an audio encoder wants next is not all there, or ends later than where
\* overflow_heartbeat() moves the others: it looks at the frame as it is queued.
Fragment(s) == SamplesQueued(s) < NbSamples(s) \/ TailEnd(s) > TailTs(s) + 1

\* sq_alloc(): buf_size_us is the most that is buffered.  A call returns with
\* the stream most ahead holding less than that, however the others behave,
\* unless what comes next is a fragment; and except after a limiting stream
\* ended without ever having a timestamp: it gets no heartbeat, and holds the
\* others back until they end.
Bounded ==
    At("idle") /\ ~Finished(sq) /\ Limiting \cap sq.finished \subseteq Timed(sq) =>
        \A s \in Streams : Overflows(s) => Fragment(s)

\* What comes out of a stream and what is left of it are the frames and samples
\* that went in, in that order: cutting audio loses and repeats nothing.
InOrder ==
    \A s \in Streams :
        IF fifo[s] = <<>> THEN out[s] = sent[s]
        ELSE /\ Head(fifo[s]).at = out[s]
             /\ \A i \in 2 .. Len(fifo[s]) :
                   fifo[s][i].at = fifo[s][i - 1].at + Units(s, fifo[s][i - 1])

\* At the end, when no heartbeat was forced and no encoder hung up, a frame was
\* held back or refused only because it ends after some limiting stream does.
Complete ==
    closed # {} /\ ~forced /\ gone = {} /\ Limiting # {} /\ Limiting \subseteq Timed(sq) =>
        \A s \in Streams :
            /\ fifo[s] # <<>> => \E l \in Limiting : TailEnd(s) > sq.head_ts[l]
            /\ offered[s] > longest[s] => \E l \in Limiting : offered[s] > sq.head_ts[l]

\* Once every filtergraph output has ended all encoders have been told so; the
\* end of one is held back only while another may still send.
AllClosed == At("idle") /\ ended = Streams => closed = Streams

\* After the end of the queue was reported no frame is received: no encoder
\* gets a frame after its end.
NoFrameAfterEnd == [][closed # {} => out' = out]_vars
================================================================================
