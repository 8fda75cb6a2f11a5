---------------------------- MODULE MCFrameThreads -----------------------------
(* Instances of FrameThreads for TLC. *)
EXTENDS FrameThreads

Input(update, delay, accels, packets) ==
    [codec |-> [update |-> update, delay |-> delay, hwaccels |-> accels,
                copies_fail |-> FALSE, frames_fail |-> 0],
     stream |-> packets]

NoCopies(input) == [input EXCEPT !.codec.copies_fail = TRUE]
NoFrames(input, number) == [input EXCEPT !.codec.frames_fail = number]

\* A codec of still pictures, which may be short of one frame; one without delay whose hwaccel is safe in every way; one
\* that reorders frames, with a hwaccel that is not thread-safe and with one that is
\* safe in no way; one that cannot be given a packet or a context; and one whose hwaccel
\* is lost, once, for want of a frame.
MCInputs ==
    LET packets == <<"two", "torn", "ok">> IN
    {NoFrames(Input(FALSE, 0, {}, <<"two", "torn">>), 1),
     Input(TRUE, 0, {{"ASYNC_SAFE", "THREAD_SAFE"}}, packets),
     Input(TRUE, 1, {{"ASYNC_SAFE"}}, packets),
     Input(TRUE, 1, {{}}, packets),
     Input(TRUE, 1, {{}}, <<"bad", "ok">>),
     NoCopies(Input(TRUE, 1, {{"ASYNC_SAFE"}}, <<"ok", "ok">>)),
     NoFrames(Input(TRUE, 1, {{}}, <<"ok", "ok", "ok">>), 1)}
================================================================================
