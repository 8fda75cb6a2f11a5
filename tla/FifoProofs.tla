------------------------------ MODULE FifoProofs -------------------------------
(***************************************************************************)
(* The calls on a ring of any size, at any offsets, do to its contents what *)
(* their names say.                                                         *)
(***************************************************************************)
EXTENDS Fifo, TLAPS

LEMMA RingFields ==
    ASSUME NEW S, NEW f, IsRing(f, S)
    PROVE  /\ f.nb_elems \in Nat /\ f.offset_r \in Nat /\ f.offset_w \in Nat
           /\ f.is_empty \in {0, 1}
           /\ f.buffer \in [0 .. f.nb_elems - 1 -> S \cup {Junk}]
           /\ f = [buffer |-> f.buffer, nb_elems |-> f.nb_elems, offset_r |-> f.offset_r,
                   offset_w |-> f.offset_w, is_empty |-> f.is_empty]
BY DEF IsRing

\* Where the offsets of a ring are and what av_fifo_can_read() makes of them.
LEMMA RingWraps ==
    ASSUME NEW S, NEW f, IsRing(f, S), Wraps(f)
    PROVE  /\ f.offset_w <= f.offset_r /\ f.offset_r < f.nb_elems
           /\ can_read(f) = f.nb_elems - f.offset_r + f.offset_w
           /\ f.is_empty = 0
<1>1. f.offset_w <= f.offset_r /\ f.is_empty = 0
    BY DEF Wraps
<1>2. f.offset_r < f.nb_elems
    BY <1>1 DEF IsRing
<1>3. can_read(f) = f.nb_elems - f.offset_r + f.offset_w
    BY DEF can_read
<1> QED
    BY <1>1, <1>2, <1>3

LEMMA RingInOnePiece ==
    ASSUME NEW S, NEW f, IsRing(f, S), ~Wraps(f)
    PROVE  /\ f.offset_r <= f.offset_w /\ f.offset_w <= f.nb_elems
           /\ can_read(f) = f.offset_w - f.offset_r
           /\ f.nb_elems # 0 => f.offset_w < f.nb_elems
<1>1. f.offset_r <= f.offset_w
    BY DEF Wraps, IsRing
<1>2. f.offset_w <= f.nb_elems /\ (f.nb_elems # 0 => f.offset_w < f.nb_elems)
    BY DEF IsRing
<1>3. can_read(f) = f.offset_w - f.offset_r
    BY DEF can_read
<1> QED
    BY <1>1, <1>2, <1>3

LEMMA RingCounts ==
    ASSUME NEW S, NEW f, IsRing(f, S)
    PROVE  /\ can_read(f) \in 0 .. f.nb_elems
           /\ can_write(f) \in 0 .. f.nb_elems
           /\ can_read(f) + can_write(f) = f.nb_elems
<1>1. CASE Wraps(f)
    <2>1. can_read(f) \in 0 .. f.nb_elems
        BY <1>1, RingFields, RingWraps
    <2> QED
        BY <2>1, RingFields DEF can_write
<1>2. CASE ~Wraps(f)
    <2>1. can_read(f) \in 0 .. f.nb_elems
        BY <1>2, RingFields, RingInOnePiece
    <2> QED
        BY <2>1, RingFields DEF can_write
<1> QED
    BY <1>1, <1>2

\* Contents is a sequence as long as av_fifo_can_read() says.
LEMMA ContentsType ==
    ASSUME NEW S, NEW f, IsRing(f, S)
    PROVE  /\ Contents(f) \in Seq(S \cup {Junk})
           /\ Len(Contents(f)) = can_read(f)
           /\ \A i \in 1 .. can_read(f) :
                 Contents(f)[i] = f.buffer[Moved(f, f.offset_r, i - 1)]
<1>1. can_read(f) \in Nat /\ f.nb_elems \in Nat
    BY RingCounts, RingFields
<1>2. ASSUME NEW i \in 1 .. can_read(f)
      PROVE  Moved(f, f.offset_r, i - 1) \in 0 .. f.nb_elems - 1
    <2>1. CASE Wraps(f)
        BY <1>1, <2>1, RingFields, RingWraps DEF Moved
    <2>2. CASE ~Wraps(f)
        BY <1>1, <2>2, RingFields, RingInOnePiece DEF Moved
    <2> QED
        BY <2>1, <2>2
<1>3. \A i \in 1 .. can_read(f) : f.buffer[Moved(f, f.offset_r, i - 1)] \in S \cup {Junk}
    BY <1>2, RingFields
<1> QED
    BY <1>1, <1>3 DEF Contents

\* av_fifo_alloc2() gives an empty ring with room for n elements.
LEMMA AllocIsEmpty ==
    ASSUME NEW S, NEW n \in Nat
    PROVE  /\ IsRing(alloc2(n), S)
           /\ alloc2(n).nb_elems = n
           /\ can_read(alloc2(n)) = 0
           /\ Contents(alloc2(n)) = <<>>
<1>1. IsRing(alloc2(n), S) /\ can_read(alloc2(n)) = 0 /\ alloc2(n).nb_elems = n
    BY DEF IsRing, can_read, Wraps, alloc2
<1>2. Contents(alloc2(n)) \in Seq(S \cup {Junk}) /\ Len(Contents(alloc2(n))) = 0
    BY <1>1, ContentsType
<1> QED
    BY <1>1, <1>2

\* av_fifo_reset2() empties a ring.
LEMMA ResetEmpties ==
    ASSUME NEW S, NEW f, IsRing(f, S)
    PROVE  /\ IsRing(reset2(f), S)
           /\ reset2(f).nb_elems = f.nb_elems
           /\ Contents(reset2(f)) = <<>>
<1>1. reset2(f) = [buffer |-> f.buffer, nb_elems |-> f.nb_elems, offset_r |-> 0,
                   offset_w |-> 0, is_empty |-> 1]
    <2>1. f = [buffer |-> f.buffer, nb_elems |-> f.nb_elems, offset_r |-> f.offset_r,
               offset_w |-> f.offset_w, is_empty |-> f.is_empty]
        BY RingFields
    <2> DEFINE g == reset2(f)
    <2>2. g = [f EXCEPT !.offset_r = 0, !.offset_w = 0, !.is_empty = 1]
        BY DEF reset2
    <2> HIDE DEF g
    <2>3. g = [buffer |-> f.buffer, nb_elems |-> f.nb_elems, offset_r |-> 0,
               offset_w |-> 0, is_empty |-> 1]
        BY <2>1, <2>2
    <2> QED
        BY <2>3 DEF g
<1>2. IsRing(reset2(f), S) /\ can_read(reset2(f)) = 0
    BY <1>1, RingFields DEF IsRing, can_read, Wraps
<1>3. Contents(reset2(f)) \in Seq(S \cup {Junk}) /\ Len(Contents(reset2(f))) = 0
    BY <1>2, ContentsType
<1> QED
    BY <1>1, <1>2, <1>3

\* av_fifo_drain2() of n elements drops the n oldest ones.
LEMMA DrainDrops ==
    ASSUME NEW S, NEW f, IsRing(f, S), NEW n \in 0 .. can_read(f)
    PROVE  /\ IsRing(drain2(f, n), S)
           /\ drain2(f, n).nb_elems = f.nb_elems
           /\ can_read(f) = can_read(drain2(f, n)) + n
           /\ \A i \in 1 .. can_read(drain2(f, n)) :
                 Contents(drain2(f, n))[i] = Contents(f)[i + n]
<1> DEFINE g == drain2(f, n)
           r == Moved(f, f.offset_r, n)
<1>1. n \in Nat /\ can_read(f) \in Nat /\ f.nb_elems \in Nat /\ f.offset_r \in Nat
      /\ f.offset_w \in Nat /\ n <= can_read(f) /\ can_read(f) <= f.nb_elems
    BY RingFields, RingCounts
<1>2. /\ g = [buffer |-> f.buffer, nb_elems |-> f.nb_elems, offset_r |-> r,
              offset_w |-> f.offset_w, is_empty |-> IF can_read(f) = n THEN 1 ELSE f.is_empty]
    <2> HIDE DEF r
    <2>1. g = [f EXCEPT !.is_empty = IF can_read(f) = n THEN 1 ELSE @, !.offset_r = r]
        BY DEF drain2, r
    <2>2. f = [buffer |-> f.buffer, nb_elems |-> f.nb_elems, offset_r |-> f.offset_r,
               offset_w |-> f.offset_w, is_empty |-> f.is_empty]
        BY RingFields
    <2> HIDE DEF g
    <2> QED
        BY <2>1, <2>2
<1>3. /\ r \in Nat
      /\ f.nb_elems = 0 => r = 0
      /\ f.nb_elems # 0 => r < f.nb_elems
      /\ can_read(f) = n => r = f.offset_w
      /\ n = 0 => r = f.offset_r
    <2>1. CASE Wraps(f)
        BY <1>1, <2>1, RingWraps DEF Moved
    <2>2. CASE ~Wraps(f)
        <3>1. r = IF f.offset_r + n >= f.nb_elems THEN f.offset_r + n - f.nb_elems
                  ELSE f.offset_r + n
            BY <1>1 DEF Moved
        <3>2. f.offset_r + n <= f.offset_w
            BY <1>1, <2>2, RingInOnePiece
        <3>3. f.nb_elems # 0 => f.offset_w < f.nb_elems
            BY <2>2, RingInOnePiece
        <3>4. can_read(f) = f.offset_w - f.offset_r
            BY <2>2, RingInOnePiece
        <3> HIDE DEF r
        <3>5. CASE f.nb_elems = 0
            BY <1>1, <3>1, <3>2, <3>4, <3>5, <2>2, RingInOnePiece
        <3>6. CASE f.nb_elems # 0
            BY <1>1, <3>1, <3>2, <3>3, <3>4, <3>6
        <3> QED
            BY <3>5, <3>6
    <2> QED
        BY <2>1, <2>2
<1>4. IsRing(g, S)
    <2>1. f.is_empty = 1 => can_read(f) = 0
        BY DEF IsRing, can_read, Wraps
    <2>2. g.is_empty = 1 => can_read(f) = n
        BY <1>1, <1>2, <2>1
    <2> HIDE DEF r
    <2>3. /\ g \in [buffer : [0 .. g.nb_elems - 1 -> S \cup {Junk}], nb_elems : Nat,
                    offset_r : Nat, offset_w : Nat, is_empty : {0, 1}]
        <3>1. g.is_empty \in {0, 1}
            BY <1>2, RingFields
        <3>2. g.buffer \in [0 .. g.nb_elems - 1 -> S \cup {Junk}]
            BY <1>2, RingFields
        <3> QED
            BY <1>1, <1>2, <1>3, <3>1, <3>2
    <2>4. f.nb_elems = 0 => f.is_empty = 1
        BY DEF IsRing
    <2>5. f.nb_elems # 0 => f.offset_w < f.nb_elems
        BY DEF IsRing
    <2> QED
        <3>1. g.is_empty = 1 => g.offset_r = g.offset_w
            BY <1>2, <1>3, <2>2
        <3>2. f.nb_elems = 0 => g.is_empty = 1
            BY <1>2, <2>4
        <3>3. g.nb_elems = f.nb_elems /\ g.offset_r = r /\ g.offset_w = f.offset_w
            BY <1>2
        <3> HIDE DEF g
        <3> QED
            BY <1>3, <2>3, <2>5, <3>1, <3>2, <3>3 DEF IsRing
<1>5. can_read(f) = can_read(g) + n
    <2>1. CASE f.is_empty = 1 \/ can_read(f) = n
        <3>1. can_read(f) = n
            BY <1>1, <2>1 DEF IsRing, can_read, Wraps
        <3>2. ~Wraps(g) /\ g.offset_w = g.offset_r
            BY <1>2, <1>3, <2>1, <3>1 DEF Wraps
        <3>3. can_read(g) = 0
            BY <1>1, <1>2, <3>2 DEF can_read
        <3> QED
            BY <1>1, <3>1, <3>3
    <2>2. CASE f.is_empty = 0 /\ can_read(f) # n
        <3> HIDE DEF r
        <3>1. Wraps(g) <=> f.offset_w <= r
            <4>1. g.is_empty = 0 /\ g.offset_w = f.offset_w /\ g.offset_r = r
                BY <1>2, <2>2
            <4> HIDE DEF g
            <4> QED
                BY <4>1 DEF Wraps
        <3>2. can_read(g) = IF f.offset_w <= r THEN f.nb_elems - r + f.offset_w
                            ELSE f.offset_w - r
            BY <1>2, <3>1 DEF can_read
        <3>3. CASE Wraps(f)
            BY <1>1, <2>2, <3>2, <3>3, RingWraps DEF Moved, r
        <3>4. CASE ~Wraps(f)
            BY <1>1, <2>2, <3>2, <3>4, RingInOnePiece DEF Moved, r
        <3> QED
            BY <3>3, <3>4
    <2> QED
        BY <2>1, <2>2, RingFields
<1>6. ASSUME NEW i \in 1 .. can_read(g)
      PROVE  Contents(g)[i] = Contents(f)[i + n]
    <2>1. can_read(g) \in Nat
        BY <1>4, RingCounts
    <2> HIDE DEF g
    <2>2. i + n \in 1 .. can_read(f) /\ i + n - 1 = n + (i - 1) /\ i + n <= f.nb_elems
        BY <1>1, <1>5, <2>1
    <2>3. Moved(g, r, i - 1) = Moved(f, f.offset_r, i + n - 1)
        <3>1. g.nb_elems = f.nb_elems
            BY <1>2
        <3>2. CASE Wraps(f)
            BY <1>1, <2>2, <3>1, <3>2, RingWraps DEF Moved
        <3>3. CASE ~Wraps(f)
            BY <1>1, <2>2, <3>1, <3>3, RingInOnePiece DEF Moved
        <3> QED
            BY <3>2, <3>3
    <2>4. Contents(g)[i] = g.buffer[Moved(g, g.offset_r, i - 1)]
        BY <1>4, ContentsType
    <2>5. Contents(f)[i + n] = f.buffer[Moved(f, f.offset_r, i + n - 1)]
        <3>1. \A k \in 1 .. can_read(f) : Contents(f)[k] = f.buffer[Moved(f, f.offset_r, k - 1)]
            BY ContentsType
        <3> QED
            BY <2>2, <3>1
    <2> QED
        BY <1>2, <2>3, <2>4, <2>5
<1> QED
    BY <1>2, <1>4, <1>5, <1>6

\* av_fifo_peek() reads n elements from an offset on, across the end of the buffer.
LEMMA PeekReads ==
    ASSUME NEW S, NEW f, IsRing(f, S), NEW offset \in 0 .. can_read(f),
           NEW n \in 0 .. can_read(f) - offset
    PROVE  \A i \in 1 .. n : peek(f, n, offset)[i] = Contents(f)[i + offset]
<1>1. n \in Nat /\ offset \in Nat /\ can_read(f) \in Nat /\ can_read(f) <= f.nb_elems
    BY RingCounts, RingFields
<1> SUFFICES ASSUME NEW i \in 1 .. n
             PROVE  peek(f, n, offset)[i] = Contents(f)[i + offset]
    OBVIOUS
<1>2. i + offset \in 1 .. can_read(f)
    BY <1>1
<1> DEFINE o == Moved(f, f.offset_r, offset)
<1>3. Moved(f, o, i - 1) = Moved(f, f.offset_r, i + offset - 1)
    <2>1. CASE Wraps(f)
        <3>1. /\ i + offset <= f.nb_elems /\ f.offset_r < f.nb_elems
              /\ f.offset_r \in Nat /\ f.nb_elems \in Nat
            BY <1>1, <1>2, <2>1, RingFields, RingWraps
        <3>2. o = IF f.offset_r + offset >= f.nb_elems THEN f.offset_r + offset - f.nb_elems
                  ELSE f.offset_r + offset
            BY <1>1, <3>1 DEF Moved
        <3> HIDE DEF o
        <3>3. Moved(f, o, i - 1) = IF o + (i - 1) >= f.nb_elems THEN o + (i - 1) - f.nb_elems
                                   ELSE o + (i - 1)
            BY <1>1, <3>1, <3>2 DEF Moved
        <3>4. Moved(f, f.offset_r, i + offset - 1) =
                  IF f.offset_r + (i + offset - 1) >= f.nb_elems
                    THEN f.offset_r + (i + offset - 1) - f.nb_elems
                    ELSE f.offset_r + (i + offset - 1)
            BY <1>1, <3>1 DEF Moved
        <3> QED
            BY <1>1, <3>1, <3>2, <3>3, <3>4
    <2>2. CASE ~Wraps(f)
        <3>1. f.offset_r + (i + offset) <= f.offset_w /\ f.offset_w <= f.nb_elems
            BY <1>1, <1>2, <2>2, RingFields, RingInOnePiece
        <3>2. o = f.offset_r + offset
            BY <1>1, <3>1, RingFields DEF Moved
        <3> HIDE DEF o
        <3>3. Moved(f, o, i - 1) = f.offset_r + (i + offset - 1)
            BY <1>1, <3>1, <3>2, RingFields DEF Moved
        <3>4. Moved(f, f.offset_r, i + offset - 1) = f.offset_r + (i + offset - 1)
            BY <1>1, <1>2, <3>1, RingFields DEF Moved
        <3> QED
            BY <3>3, <3>4
    <2> QED
        BY <2>1, <2>2
<1>4. peek(f, n, offset)[i] = f.buffer[Moved(f, o, i - 1)]
    BY DEF peek
<1>5. \A k \in 1 .. can_read(f) : Contents(f)[k] = f.buffer[Moved(f, f.offset_r, k - 1)]
    BY ContentsType
<1> HIDE DEF o
<1> QED
    BY <1>2, <1>3, <1>4, <1>5

LEMMA MovedIs ==
    ASSUME NEW f, f.nb_elems \in Nat, NEW o \in Nat, NEW n \in Nat
    PROVE  Moved(f, o, n) = IF o + n >= f.nb_elems THEN o + n - f.nb_elems ELSE o + n
BY DEF Moved

\* The offsets, taken round the end of the buffer, are can_read elements apart.
LEMMA OffsetsApart ==
    ASSUME NEW S, NEW f, IsRing(f, S), f.nb_elems # 0
    PROVE  /\ f.offset_r < f.nb_elems
           /\ f.offset_w = IF f.offset_r + can_read(f) >= f.nb_elems
                             THEN f.offset_r + can_read(f) - f.nb_elems
                             ELSE f.offset_r + can_read(f)
<1>1. CASE Wraps(f)
    BY <1>1, RingFields, RingWraps
<1>2. CASE ~Wraps(f)
    BY <1>2, RingFields, RingInOnePiece
<1> QED
    BY <1>1, <1>2

\* and offsets so far apart make a ring that can be read so far.
LEMMA ApartIsReadable ==
    ASSUME NEW S, NEW g, IsRing(g, S), g.nb_elems # 0, NEW c \in 0 .. g.nb_elems,
           g.offset_w = IF g.offset_r + c >= g.nb_elems THEN g.offset_r + c - g.nb_elems
                        ELSE g.offset_r + c,
           g.is_empty = 1 <=> c = 0
    PROVE  can_read(g) = c
<1>1. g.offset_r < g.nb_elems
    BY OffsetsApart
<1>2. c \in Nat /\ c <= g.nb_elems /\ g.nb_elems \in Nat /\ g.offset_r \in Nat
    BY RingFields
<1>3. CASE Wraps(g)
    BY <1>1, <1>2, <1>3, RingWraps
<1>4. CASE ~Wraps(g)
    <2>1. g.offset_w > g.offset_r \/ g.is_empty = 1
        BY <1>4, RingFields DEF Wraps
    <2> QED
        BY <1>1, <1>2, <1>4, <2>1, RingInOnePiece
<1> QED
    BY <1>3, <1>4

\* The elements of the ring, their places counted round the end of the buffer.
LEMMA ContentsAt ==
    ASSUME NEW S, NEW f, IsRing(f, S), NEW i \in 1 .. can_read(f)
    PROVE  Contents(f)[i] =
               f.buffer[IF f.offset_r + (i - 1) >= f.nb_elems
                          THEN f.offset_r + (i - 1) - f.nb_elems
                          ELSE f.offset_r + (i - 1)]
<1>1. i - 1 \in Nat
    BY RingCounts, RingFields
<1>2. Contents(f)[i] = f.buffer[Moved(f, f.offset_r, i - 1)]
    BY ContentsType
<1>3. Moved(f, f.offset_r, i - 1) =
          IF f.offset_r + (i - 1) >= f.nb_elems THEN f.offset_r + (i - 1) - f.nb_elems
          ELSE f.offset_r + (i - 1)
    BY <1>1, RingFields, MovedIs
<1> QED
    BY <1>2, <1>3

\* av_fifo_write() of as many elements as there is room for appends them.
LEMMA WriteAppends ==
    ASSUME NEW S, NEW f, IsRing(f, S), NEW buf \in Seq(S), Len(buf) <= can_write(f)
    PROVE  /\ IsRing(write(f, buf), S)
           /\ write(f, buf).nb_elems = f.nb_elems
           /\ can_read(write(f, buf)) = can_read(f) + Len(buf)
           /\ Contents(write(f, buf)) = Contents(f) \o buf
<1> DEFINE g == write(f, buf)
           b == Len(buf)
           n == f.nb_elems
           r == f.offset_r
           w == f.offset_w
           c == can_read(f)
           v == Moved(f, w, b)
           data == [i \in 0 .. n - 1 |->
                        IF i >= w /\ i - w < b THEN buf[i - w + 1]
                        ELSE IF i < w /\ i + n - w < b THEN buf[i + n - w + 1]
                        ELSE f.buffer[i]]
<1>1. /\ b \in Nat /\ n \in Nat /\ r \in Nat /\ w \in Nat /\ c \in Nat
      /\ c + b <= n /\ f.is_empty \in {0, 1}
    BY RingFields, RingCounts
<1>2. /\ n # 0 => r < n /\ w = IF r + c >= n THEN r + c - n ELSE r + c
      /\ n = 0 => r = 0 /\ w = 0 /\ f.is_empty = 1
    BY OffsetsApart DEF IsRing
<1>3. f.is_empty = 1 => r = w /\ c = 0
    BY DEF IsRing, can_read, Wraps
<1>4. v = IF w + b >= n THEN w + b - n ELSE w + b
    BY <1>1, MovedIs
<1>5. g = [buffer |-> data, nb_elems |-> n, offset_r |-> r, offset_w |-> v,
           is_empty |-> IF b = 0 THEN f.is_empty ELSE 0]
    <2>1. f = [buffer |-> f.buffer, nb_elems |-> n, offset_r |-> r,
               offset_w |-> w, is_empty |-> f.is_empty]
        BY RingFields
    <2>2. buf = <<>> <=> b = 0
        OBVIOUS
    <2> HIDE DEF v
    <2>3. g = [f EXCEPT !.buffer = data, !.offset_w = v,
                        !.is_empty = IF b = 0 THEN @ ELSE 0]
        BY <2>2 DEF write, v
    <2> HIDE DEF g, data
    <2> QED
        BY <2>1, <2>3
<1>6. /\ f.buffer \in [0 .. n - 1 -> S \cup {Junk}]
      /\ buf \in [1 .. b -> S]
    BY RingFields
<1> HIDE DEF b, n, r, w, c, v, g
<1>7. ASSUME NEW i \in 0 .. n - 1
      PROVE  /\ i >= w /\ i - w < b =>
                    data[i] = buf[i - w + 1] /\ i - w + 1 \in 1 .. b
             /\ i < w /\ i + n - w < b =>
                    data[i] = buf[i + n - w + 1] /\ i + n - w + 1 \in 1 .. b
             /\ ~(i >= w /\ i - w < b) /\ ~(i < w /\ i + n - w < b) => data[i] = f.buffer[i]
    <2>1. i \in Int /\ i >= 0 /\ i < n /\ w <= n
        BY <1>1, <1>2
    <2>2. /\ i >= w /\ i - w < b => i - w + 1 \in 1 .. b
          /\ i < w /\ i + n - w < b => i + n - w + 1 \in 1 .. b /\ ~(i >= w)
        BY <1>1, <2>1
    <2>3. data[i] = IF i >= w /\ i - w < b THEN buf[i - w + 1]
                    ELSE IF i < w /\ i + n - w < b THEN buf[i + n - w + 1]
                    ELSE f.buffer[i]
        OBVIOUS
    <2> HIDE DEF data
    <2> QED
        BY <2>2, <2>3
<1>8. data \in [0 .. n - 1 -> S \cup {Junk}]
    <2>1. ASSUME NEW i \in 0 .. n - 1
          PROVE  data[i] \in S \cup {Junk}
        <3> HIDE DEF data
        <3> QED
            BY <1>6, <1>7
    <2>2. data = [i \in 0 .. n - 1 |-> data[i]]
        OBVIOUS
    <2> HIDE DEF data
    <2> QED
        BY <2>1, <2>2
<1> HIDE DEF data
<1>9. /\ v \in Nat
      /\ n = 0 => v = 0 /\ b = 0 /\ c = 0
      /\ n # 0 => v < n /\ v = IF r + (c + b) >= n THEN r + (c + b) - n ELSE r + (c + b)
      /\ b = 0 => v = w
    <2>1. CASE n = 0
        BY <1>1, <1>2, <1>4, <2>1
    <2>2. CASE n # 0 /\ r + c >= n
        BY <1>1, <1>2, <1>4, <2>2
    <2>3. CASE n # 0 /\ r + c < n
        BY <1>1, <1>2, <1>4, <2>3
    <2> QED
        BY <1>1, <2>1, <2>2, <2>3
<1>10. /\ g.buffer = data /\ g.nb_elems = n /\ g.offset_r = r /\ g.offset_w = v
       /\ g.is_empty = IF b = 0 THEN f.is_empty ELSE 0
    BY <1>5
<1>11. IsRing(g, S)
    <2>1. g \in [buffer : [0 .. g.nb_elems - 1 -> S \cup {Junk}], nb_elems : Nat,
                 offset_r : Nat, offset_w : Nat, is_empty : {0, 1}]
        BY <1>1, <1>5, <1>8, <1>9
    <2> QED
        BY <1>1, <1>2, <1>3, <1>9, <1>10, <2>1 DEF IsRing
<1>12. can_read(g) = c + b
    <2>1. CASE n = 0
        <3>1. can_read(g) \in 0 .. 0
            BY <1>10, <1>11, <2>1, RingCounts
        <3> QED
            BY <1>9, <2>1, <3>1
    <2>2. CASE n # 0
        <3>1. g.is_empty = 1 <=> c + b = 0
            <4>1. c = 0 /\ f.is_empty # 1 => FALSE
                BY <1>1, <2>2, RingWraps, RingInOnePiece, RingFields DEF Wraps, c, n
            <4> QED
                BY <1>1, <1>3, <1>10, <4>1
        <3>2. c + b \in 0 .. n
            BY <1>1
        <3> QED
            BY <1>9, <1>10, <1>11, <2>2, <3>1, <3>2, ApartIsReadable
    <2> QED
        BY <2>1, <2>2
<1> DEFINE At(i) == IF r + i >= n THEN r + i - n ELSE r + i
<1>13. \A i \in 1 .. c : Contents(f)[i] = f.buffer[At(i - 1)]
    <2> SUFFICES ASSUME NEW i \in 1 .. c
                 PROVE  Contents(f)[i] = f.buffer[At(i - 1)]
        OBVIOUS
    <2>1. i \in 1 .. can_read(f)
        BY DEF c
    <2> QED
        BY <2>1, ContentsAt DEF n, r
<1>14. \A i \in 1 .. c + b : Contents(g)[i] = data[At(i - 1)]
    <2> SUFFICES ASSUME NEW i \in 1 .. c + b
                 PROVE  Contents(g)[i] = data[At(i - 1)]
        OBVIOUS
    <2>1. i \in 1 .. can_read(g)
        BY <1>12
    <2> QED
        BY <1>10, <1>11, <2>1, ContentsAt
<1>15. ASSUME NEW i \in 1 .. c
       PROVE  Contents(g)[i] = Contents(f)[i]
    <2> DEFINE k == At(i - 1)
    <2>1. i \in Nat /\ i >= 1 /\ i <= c /\ i \in 1 .. c + b /\ n # 0
        BY <1>1
    <2>2. k \in 0 .. n - 1 /\ ~(k >= w /\ k - w < b) /\ ~(k < w /\ k + n - w < b)
        <3>1. CASE r + c >= n
            BY <1>1, <1>2, <2>1, <3>1
        <3>2. CASE r + c < n
            BY <1>1, <1>2, <2>1, <3>2
        <3> QED
            BY <1>1, <3>1, <3>2
    <2>3. Contents(g)[i] = data[k] /\ Contents(f)[i] = f.buffer[k]
        BY <1>13, <1>14, <2>1
    <2> HIDE DEF k
    <2> QED
        BY <1>7, <2>2, <2>3
<1>16. ASSUME NEW i \in 1 .. b
       PROVE  Contents(g)[i + c] = buf[i]
    <2> DEFINE j == i + c
               k == At(j - 1)
    <2>1. i \in Nat /\ i >= 1 /\ i <= b /\ j \in 1 .. c + b /\ n # 0
        BY <1>1
    <2>2. /\ k \in 0 .. n - 1
          /\ \/ k >= w /\ k - w < b /\ k - w + 1 = i
             \/ k < w /\ k + n - w < b /\ k + n - w + 1 = i
        <3>1. CASE r + c >= n
            BY <1>1, <1>2, <2>1, <3>1
        <3>2. CASE r + c < n
            BY <1>1, <1>2, <2>1, <3>2
        <3> QED
            BY <1>1, <3>1, <3>2
    <2>3. Contents(g)[j] = data[k]
        <3> HIDE DEF j
        <3> QED
            BY <1>14, <2>1
    <2> HIDE DEF k
    <2>4. data[k] = buf[i]
        BY <1>7, <2>2
    <2> QED
        BY <2>3, <2>4
<1>17. Contents(g) = Contents(f) \o buf
    <2> DEFINE q == Contents(f) \o buf
    <2>1. /\ Contents(f) \in Seq(S \cup {Junk}) /\ Len(Contents(f)) = c
          /\ Contents(g) \in Seq(S \cup {Junk}) /\ Len(Contents(g)) = c + b
        BY <1>11, <1>12, ContentsType DEF c
    <2>2. buf \in Seq(S \cup {Junk}) /\ Len(buf) = b
        BY DEF b
    <2>3. /\ q \in Seq(S \cup {Junk}) /\ Len(q) = c + b
          /\ \A i \in 1 .. c : q[i] = Contents(f)[i]
          /\ \A i \in 1 .. b : q[i + c] = buf[i]
        <3>1. /\ q \in Seq(S \cup {Junk}) /\ Len(q) = c + b
              /\ \A i \in 1 .. c : q[i] = Contents(f)[i]
              /\ \A j \in c + 1 .. c + b : q[j] = buf[j - c]
            <4> DEFINE a == Contents(f)
            <4> HIDE DEF a
            <4>1. a \in Seq(S \cup {Junk}) /\ Len(a) = c
                BY <2>1 DEF a
            <4>2. /\ a \o buf \in Seq(S \cup {Junk}) /\ Len(a \o buf) = Len(a) + Len(buf)
                  /\ \A i \in 1 .. Len(a) : (a \o buf)[i] = a[i]
                  /\ \A j \in Len(a) + 1 .. Len(a) + Len(buf) : (a \o buf)[j] = buf[j - Len(a)]
                BY <2>2, <4>1
            <4> QED
                BY <2>2, <4>1, <4>2 DEF a
        <3> HIDE DEF q
        <3>2. ASSUME NEW i \in 1 .. b
              PROVE  q[i + c] = buf[i]
            <4> DEFINE j == i + c
            <4>1. j \in c + 1 .. c + b /\ j - c = i
                BY <1>1
            <4> HIDE DEF j
            <4>2. q[j] = buf[i]
                BY <3>1, <4>1
            <4> QED
                BY <4>2 DEF j
        <3> QED
            BY <3>1, <3>2
    <2> HIDE DEF q
    <2>4. ASSUME NEW i \in 1 .. c + b
          PROVE  Contents(g)[i] = q[i]
        <3>1. CASE i \in 1 .. c
            BY <1>15, <2>3, <3>1
        <3>2. CASE i \notin 1 .. c
            <4> DEFINE j == i - c
            <4>1. j \in 1 .. b /\ i = j + c
                BY <1>1, <3>2
            <4> HIDE DEF j
            <4> QED
                BY <1>16, <2>3, <4>1
        <3> QED
            BY <3>1, <3>2
    <2>5. Contents(g) = q
        BY <2>1, <2>3, <2>4
    <2> QED
        BY <2>5 DEF q
<1> QED
    BY <1>10, <1>11, <1>12, <1>17 DEF g, b, c, n

\* av_fifo_grow2() adds room and keeps the contents, wrapped around or not.
LEMMA GrowKeeps ==
    ASSUME NEW S, NEW f, IsRing(f, S), NEW inc \in Nat
    PROVE  /\ IsRing(grow2(f, inc), S)
           /\ grow2(f, inc).nb_elems = f.nb_elems + inc
           /\ can_read(grow2(f, inc)) = can_read(f)
           /\ Contents(grow2(f, inc)) = Contents(f)
<1> DEFINE g == grow2(f, inc)
           n == f.nb_elems
           r == f.offset_r
           w == f.offset_w
           c == can_read(f)
           W == Wraps(f)
           copy == IF W THEN Least(inc, w) ELSE 0
           v == IF ~W THEN w ELSE IF copy < w THEN w - copy
                ELSE IF copy = inc THEN 0 ELSE n + copy
           data == [i \in 0 .. n + inc - 1 |->
                        IF W /\ i < w - copy THEN f.buffer[i + copy]
                        ELSE IF i < n THEN f.buffer[i]
                        ELSE IF i < n + copy THEN f.buffer[i - n] ELSE Junk]
<1>1. /\ inc \in Nat /\ n \in Nat /\ r \in Nat /\ w \in Nat /\ c \in Nat /\ c <= n
      /\ f.is_empty \in {0, 1}
    BY RingFields, RingCounts
<1>2. /\ n # 0 => r < n /\ w < n
      /\ n = 0 => r = 0 /\ w = 0 /\ f.is_empty = 1
      /\ f.is_empty = 1 => r = w /\ c = 0 /\ ~W
    BY DEF IsRing, can_read, Wraps
<1>3. /\ W => w <= r /\ r < n /\ c = n - r + w /\ f.is_empty = 0
      /\ ~W => r <= w /\ c = w - r
    BY RingWraps, RingInOnePiece
<1>4. f.is_empty = 1 <=> c = 0
    BY <1>1, <1>2, <1>3, RingFields DEF Wraps
<1>5. g = [buffer |-> data, nb_elems |-> n + inc, offset_r |-> r, offset_w |-> v,
           is_empty |-> f.is_empty]
    <2>1. f = [buffer |-> f.buffer, nb_elems |-> n, offset_r |-> r,
               offset_w |-> w, is_empty |-> f.is_empty]
        BY RingFields
    <2>2. g = [f EXCEPT !.nb_elems = n + inc, !.buffer = data, !.offset_w = v]
        BY DEF grow2
    <2> HIDE DEF g, data, v
    <2> QED
        BY <2>1, <2>2
<1>6. f.buffer \in [0 .. n - 1 -> S \cup {Junk}]
    BY RingFields
<1> HIDE DEF n, r, w, c, W, g
<1>7. /\ copy \in Nat
      /\ ~W => copy = 0 /\ v = w
      /\ W => \/ copy = inc /\ inc < w /\ v = w - inc
              \/ copy = w /\ inc = w /\ v = 0
              \/ copy = w /\ w < inc /\ v = n + w
    BY <1>1 DEF Least
<1>8. copy <= w
    BY <1>1, <1>7
<1> HIDE DEF copy, v
<1>9. ASSUME NEW i \in 0 .. n + inc - 1
      PROVE  /\ W /\ i < w - copy => data[i] = f.buffer[i + copy] /\ i + copy \in 0 .. n - 1
             /\ ~(W /\ i < w - copy) /\ i < n => data[i] = f.buffer[i] /\ i \in 0 .. n - 1
             /\ i >= n /\ i < n + copy => data[i] = f.buffer[i - n] /\ i - n \in 0 .. n - 1
             /\ data[i] = Junk \/ i < n + copy
    <2>1. i \in Nat /\ i < n + inc /\ w <= n
        BY <1>1, <1>2
    <2>2. /\ i < w - copy => i + copy \in 0 .. n - 1 /\ i < n
          /\ i < n => i \in 0 .. n - 1
          /\ i >= n /\ i < n + copy => i - n \in 0 .. n - 1
          /\ i >= n => ~(i < w - copy) /\ ~(i < n)
        BY <1>1, <1>2, <1>7, <1>8, <2>1
    <2>3. data[i] = IF W /\ i < w - copy THEN f.buffer[i + copy]
                    ELSE IF i < n THEN f.buffer[i]
                    ELSE IF i < n + copy THEN f.buffer[i - n] ELSE Junk
        OBVIOUS
    <2>4. i >= n \/ i < n
        BY <1>1, <2>1
    <2>5. i < n => i < n + copy
        BY <1>1, <1>7, <2>1
    <2> HIDE DEF data
    <2> QED
        BY <2>2, <2>3, <2>4, <2>5
<1>10. data \in [0 .. n + inc - 1 -> S \cup {Junk}]
    <2>1. ASSUME NEW i \in 0 .. n + inc - 1
          PROVE  data[i] \in S \cup {Junk}
        <3>1. i \in Nat
            BY <1>1
        <3>2. i < n \/ i >= n
            BY <1>1, <3>1
        <3> HIDE DEF data
        <3> QED
            BY <1>6, <1>9, <3>2
    <2>2. data = [i \in 0 .. n + inc - 1 |-> data[i]]
        OBVIOUS
    <2> HIDE DEF data
    <2> QED
        BY <2>1, <2>2
<1> HIDE DEF data
<1>11. /\ g.buffer = data /\ g.nb_elems = n + inc /\ g.offset_r = r /\ g.offset_w = v
       /\ g.is_empty = f.is_empty
    BY <1>5
<1>12. /\ n + inc = 0 => c = 0 /\ v = 0
       /\ n + inc # 0 =>
             /\ v \in Nat /\ v < n + inc
             /\ v = IF r + c >= n + inc THEN r + c - (n + inc) ELSE r + c
       /\ f.is_empty = 1 => v = r
    <2>1. CASE W
        BY <1>1, <1>3, <1>7, <2>1
    <2>2. CASE ~W
        BY <1>1, <1>2, <1>3, <1>7, <2>2
    <2> QED
        BY <2>1, <2>2
<1>13. IsRing(g, S)
    <2>1. g \in [buffer : [0 .. g.nb_elems - 1 -> S \cup {Junk}], nb_elems : Nat,
                 offset_r : Nat, offset_w : Nat, is_empty : {0, 1}]
        BY <1>1, <1>5, <1>10, <1>12
    <2>2. n + inc = 0 => f.is_empty = 1 /\ r = 0
        BY <1>1, <1>2
    <2>3. n + inc # 0 => r < n + inc
        BY <1>1, <1>2
    <2> QED
        BY <1>11, <1>12, <2>1, <2>2, <2>3 DEF IsRing
<1>14. can_read(g) = c
    <2>1. CASE n + inc = 0
        <3>1. can_read(g) \in 0 .. 0
            BY <1>11, <1>13, <2>1, RingCounts
        <3> QED
            BY <1>12, <2>1, <3>1
    <2>2. CASE n + inc # 0
        <3>1. c \in 0 .. n + inc
            BY <1>1
        <3> QED
            BY <1>4, <1>11, <1>12, <1>13, <2>2, <3>1, ApartIsReadable
    <2> QED
        BY <2>1, <2>2
<1>15. ASSUME NEW i \in 1 .. c
       PROVE  Contents(g)[i] = Contents(f)[i]
    <2> DEFINE k == r + (i - 1)
               a == IF k >= n + inc THEN k - (n + inc) ELSE k
               z == IF k >= n THEN k - n ELSE k
    <2>1. Contents(f)[i] = f.buffer[z]
        <3>1. i \in 1 .. can_read(f)
            BY DEF c
        <3>2. Contents(f)[i] = f.buffer[IF r + (i - 1) >= n THEN r + (i - 1) - n ELSE r + (i - 1)]
            BY <3>1, ContentsAt DEF n, r
        <3> QED
            BY <1>1, <3>2
    <2>2. Contents(g)[i] = data[a]
        <3>1. i \in 1 .. can_read(g)
            BY <1>14
        <3>2. Contents(g)[i] = data[IF r + (i - 1) >= n + inc THEN r + (i - 1) - (n + inc)
                                    ELSE r + (i - 1)]
            BY <1>11, <1>13, <3>1, ContentsAt
        <3> QED
            BY <1>1, <3>2
    <2>3. k \in Nat /\ k < r + c /\ i - 1 \in Nat /\ k >= r /\ n # 0
        BY <1>1
    <2> HIDE DEF k
    <2>4. CASE W
        <3>1. k < n + w
            BY <1>1, <1>3, <2>3, <2>4
        <3>2. CASE k < n
            <4>1. a = k /\ z = k /\ k \in 0 .. n + inc - 1 /\ ~(k < w - copy)
                BY <1>1, <1>3, <1>7, <2>3, <2>4, <3>2
            <4> HIDE DEF a, z
            <4> QED
                BY <1>9, <2>1, <2>2, <3>2, <4>1
        <3>3. CASE k >= n /\ k < n + inc
            <4>1. a = k /\ z = k - n /\ k \in 0 .. n + inc - 1 /\ k < n + copy
                BY <1>1, <1>7, <2>3, <2>4, <3>1, <3>3
            <4> HIDE DEF a, z
            <4> QED
                BY <1>9, <2>1, <2>2, <3>3, <4>1
        <3>4. CASE k >= n + inc
            <4>1. copy = inc
                BY <1>1, <1>7, <2>3, <2>4, <3>1, <3>4
            <4>2. a = k - (n + inc) /\ z = k - n /\ a \in 0 .. n + inc - 1
                  /\ a < w - copy /\ a + copy = z
                BY <1>1, <1>2, <2>3, <3>1, <3>4, <4>1
            <4> HIDE DEF a, z
            <4> QED
                BY <1>9, <2>1, <2>2, <2>4, <4>2
        <3> QED
            BY <1>1, <2>3, <3>2, <3>3, <3>4
    <2>5. CASE ~W
        <3>1. k < w /\ k < n
            BY <1>1, <1>2, <1>3, <2>3, <2>5
        <3>2. a = k /\ z = k /\ k \in 0 .. n + inc - 1
            BY <1>1, <2>3, <3>1
        <3> HIDE DEF a, z
        <3> QED
            BY <1>9, <2>1, <2>2, <2>5, <3>1, <3>2
    <2> QED
        BY <2>4, <2>5
<1>16. Contents(g) = Contents(f)
    <2>1. /\ Contents(g) \in Seq(S \cup {Junk}) /\ Len(Contents(g)) = c
          /\ Contents(f) \in Seq(S \cup {Junk}) /\ Len(Contents(f)) = c
        BY <1>13, <1>14, ContentsType DEF c
    <2> QED
        BY <1>15, <2>1
<1> QED
    BY <1>11, <1>13, <1>14, <1>16 DEF g, n, c
================================================================================
