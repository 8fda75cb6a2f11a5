--------------------------------- MODULE Fifo ---------------------------------
(***************************************************************************)
(* libavutil/fifo.c: a ring buffer of elements.  Read and write offsets     *)
(* chase each other; where they meet is_empty tells full from empty.        *)
(*                                                                          *)
(* A ring is a record, each call an operator on it.  What the ring holds is *)
(* Contents; FifoProofs shows that the calls do to it what their names say. *)
(***************************************************************************)
EXTENDS Integers, Sequences

CONSTANT Junk       \* what memory holds that nothing was written to

Least(a, b) == IF a <= b THEN a ELSE b

\* f is a ring in a state av_fifo calls leave it in; it holds elements of S.
IsRing(f, S) ==
    /\ f \in [buffer : [0 .. f.nb_elems - 1 -> S \cup {Junk}], nb_elems : Nat,
               offset_r : Nat, offset_w : Nat, is_empty : {0, 1}]
    /\ f.is_empty = 1 => f.offset_r = f.offset_w
    /\ IF f.nb_elems = 0
         THEN f.is_empty = 1 /\ f.offset_r = 0
         ELSE f.offset_r < f.nb_elems /\ f.offset_w < f.nb_elems

alloc2(n) ==
    [buffer |-> [i \in 0 .. n - 1 |-> Junk], nb_elems |-> n,
     offset_r |-> 0, offset_w |-> 0, is_empty |-> 1]

\* The data runs to the end of the buffer and on from its start.
Wraps(f) == f.offset_w <= f.offset_r /\ f.is_empty = 0

can_read(f) ==
    IF Wraps(f) THEN f.nb_elems - f.offset_r + f.offset_w ELSE f.offset_w - f.offset_r

can_write(f) == f.nb_elems - can_read(f)

\* Offset o moved on by n <= nb_elems, as the copy loops and drain2() do it.
Moved(f, o, n) == IF o >= f.nb_elems - n THEN o - (f.nb_elems - n) ELSE o + n

\* What the ring holds, the oldest element first.
Contents(f) == [i \in 1 .. can_read(f) |-> f.buffer[Moved(f, f.offset_r, i - 1)]]

\* mutant: the data that wraps around stays where it is
grow2_in_place(f, inc) ==
    [f EXCEPT !.nb_elems = @ + inc,
              !.buffer = [i \in 0 .. f.nb_elems + inc - 1 |->
                            IF i < f.nb_elems THEN f.buffer[i] ELSE Junk]]

\* The part at the start of the buffer continues in the new space; what does
\* not fit there moves to the start.
grow2(f, inc) ==
    LET n == f.nb_elems
        copy == IF Wraps(f) THEN Least(inc, f.offset_w) ELSE 0 IN
    [f EXCEPT
        !.nb_elems = n + inc,
        !.buffer = [i \in 0 .. n + inc - 1 |->
                        IF Wraps(f) /\ i < f.offset_w - copy THEN f.buffer[i + copy]
                        ELSE IF i < n THEN f.buffer[i]
                        ELSE IF i < n + copy THEN f.buffer[i - n] ELSE Junk],
        !.offset_w = IF ~Wraps(f) THEN @
                     ELSE IF copy < @ THEN @ - copy
                     ELSE IF copy = inc THEN 0 ELSE n + copy]

\* av_fifo_write() of the elements buf, which there must be room for.
write(f, buf) ==
    [f EXCEPT
        !.buffer = [i \in 0 .. f.nb_elems - 1 |->
                        IF i >= f.offset_w /\ i - f.offset_w < Len(buf)
                          THEN buf[i - f.offset_w + 1]
                        ELSE IF i < f.offset_w /\ i + f.nb_elems - f.offset_w < Len(buf)
                          THEN buf[i + f.nb_elems - f.offset_w + 1]
                        ELSE f.buffer[i]],
        !.offset_w = Moved(f, @, Len(buf)),
        !.is_empty = IF buf = <<>> THEN @ ELSE 0]

\* av_fifo_peek() of n elements from offset on, which must be there.
peek(f, n, offset) ==
    [i \in 1 .. n |-> f.buffer[Moved(f, Moved(f, f.offset_r, offset), i - 1)]]

drain2_unmarked(f, n) == [f EXCEPT !.offset_r = Moved(f, @, n)]   \* mutant

drain2(f, n) ==
    [f EXCEPT !.is_empty = IF can_read(f) = n THEN 1 ELSE @, !.offset_r = Moved(f, @, n)]

reset2(f) == [f EXCEPT !.offset_r = 0, !.offset_w = 0, !.is_empty = 1]

--------------------------------------------------------------------------------
(* Growing by itself. *)

\* fifo_check_space(): by how much the ring grows to take n more elements when
\* it may hold limit, or -1: it may not.
Growth(f, n, limit) ==
    LET need == n - can_write(f)
        can == IF limit > f.nb_elems THEN limit - f.nb_elems ELSE 0 IN
    IF need <= 0 THEN 0
    ELSE IF need > can THEN -1
    ELSE IF need < can \div 2 THEN need * 2 ELSE can

\* av_fifo_write() with AV_FIFO_FLAG_AUTO_GROW, where it does not fail.
write_grow(f, buf, limit) ==
    write(IF Growth(f, Len(buf), limit) = 0 THEN f
          ELSE grow2(f, Growth(f, Len(buf), limit)), buf)
================================================================================
