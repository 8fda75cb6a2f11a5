---------------------------- MODULE SyncQueueProofs ----------------------------
(***************************************************************************)
(* Proofs about SyncQueue for any number of streams, any of them limiting,  *)
(* and any frames.                                                          *)
(***************************************************************************)
EXTENDS SyncQueue, WellFoundedInduction, TLAPS

Time == Nat \cup {NOPTS}

QueueType ==
    [head_ts : [Streams -> Time], finished : SUBSET Streams,
     head_stream : Limiting \cup {-1}, head_finished_stream : Limiting \cup {-1}]

\* The head is the limiting stream furthest behind.
HeadIsBehind(q) ==
    q.head_stream >= 0 =>
        \A l \in Limiting : l \in Timed(q) /\ q.head_ts[q.head_stream] <= q.head_ts[l]

\* The streams as far as the one that ended first are finished.
EndHolds(q) ==
    q.head_finished_stream >= 0 =>
        /\ q.head_finished_stream \in Timed(q) \cap q.finished
        /\ \A s \in Timed(q) :
              q.head_ts[q.head_finished_stream] <= q.head_ts[s] => s \in q.finished

\* Timestamps only grow, and a stream that is finished stays so.
Later(p, q) ==
    /\ p.finished \subseteq q.finished
    /\ \A s \in Timed(p) : s \in Timed(q) /\ p.head_ts[s] <= q.head_ts[s]

LEMMA ConstantTypes ==
    /\ NOPTS \in Int /\ NOPTS < 0 /\ NOPTS \notin Nat
    /\ Limiting \subseteq Streams
    /\ Streams \subseteq Nat
    /\ 0 \in Streams
    /\ -1 \notin Streams
    /\ FrameSamples \in [Streams -> Nat]
BY SyncQueueAssumption DEF SyncQueueAssumption, Streams

LEMMA SomethingIsSmallest ==
    ASSUME NEW S \in SUBSET Nat, S # {}
    PROVE  \E i \in S : \A j \in S : i <= j
<1>1. PICK i \in S : \A j \in S : ~(<<j, i>> \in OpToRel(<, Nat))
    BY NatLessThanWellFounded, WFMin
<1>2. \A j \in S : ~(j < i)
    BY <1>1 DEF OpToRel
<1> QED
    BY <1>2

LEMMA SmallestIndex ==
    ASSUME NEW S \in SUBSET Nat, S # {}
    PROVE  LET k == CHOOSE i \in S : \A j \in S : i <= j IN
           k \in S /\ \A j \in S : k <= j
BY SomethingIsSmallest

LEMMA HeadTypes ==
    ASSUME NEW q \in QueueType
    PROVE  /\ q.head_stream \in Int /\ q.head_finished_stream \in Int
           /\ q.head_stream >= 0 => q.head_stream \in Limiting
           /\ q.head_finished_stream >= 0 => q.head_finished_stream \in Limiting
<1>1. Limiting \cup {-1} \subseteq Int
    BY ConstantTypes
<1>2. q.head_stream \in Limiting \cup {-1} /\ q.head_finished_stream \in Limiting \cup {-1}
    BY DEF QueueType
<1> QED
    BY <1>1, <1>2

(***************************************************************************)
(* The operations on the heads and ends.                                    *)
(***************************************************************************)

LEMMA FinishStream ==
    ASSUME NEW q \in QueueType, NEW s \in Streams, EndHolds(q)
    PROVE  LET p == finish_stream(q, s) IN
           /\ p \in QueueType
           /\ p.head_ts = q.head_ts /\ p.head_stream = q.head_stream
           /\ q.finished \cup {s} \subseteq p.finished
           /\ EndHolds(p)
<1> DEFINE p == finish_stream(q, s)
           first == IF \/ q.head_finished_stream < 0
                       \/ q.head_ts[s] < q.head_ts[q.head_finished_stream]
                      THEN s ELSE q.head_finished_stream
           ahead == {t \in Timed(q) : q.head_ts[first] <= q.head_ts[t]}
<1>1. CASE s \in Limiting \cap Timed(q)
    <2>1. p = [q EXCEPT !.finished = @ \cup {s} \cup ahead, !.head_finished_stream = first]
        BY <1>1 DEF finish_stream
    <2>2. first \in Limiting /\ first \in Timed(q)
        BY <1>1, HeadTypes DEF EndHolds
    <2>3. /\ p.head_ts = q.head_ts /\ p.head_stream = q.head_stream
          /\ p.finished = q.finished \cup {s} \cup ahead
          /\ p.head_finished_stream = first
          /\ p \in QueueType
        <3> HIDE DEF first
        <3>1. ahead \subseteq Streams
            BY DEF Timed
        <3> QED
            BY <2>1, <2>2, <3>1 DEF QueueType
    <2>4. Timed(p) = Timed(q)
        BY <2>3 DEF Timed
    <2>5. q.head_ts[first] \in Nat
        BY <2>2, ConstantTypes DEF Timed, QueueType, Time
    <2>6. first \in ahead
        BY <2>2, <2>5
    <2>7. EndHolds(p)
        BY <2>2, <2>3, <2>4, <2>6 DEF EndHolds
    <2> QED
        BY <2>3, <2>7
<1>2. CASE s \notin Limiting \cap Timed(q)
    <2>1. p = [q EXCEPT !.finished = @ \cup {s}]
        BY <1>2 DEF finish_stream
    <2>2. /\ p.head_ts = q.head_ts /\ p.head_stream = q.head_stream
          /\ p.finished = q.finished \cup {s}
          /\ p.head_finished_stream = q.head_finished_stream
          /\ p \in QueueType
        BY <2>1 DEF QueueType
    <2>3. Timed(p) = Timed(q)
        BY <2>2 DEF Timed
    <2> QED
        BY <2>2, <2>3 DEF EndHolds
<1> QED
    BY <1>1, <1>2

\* Of limiting streams with timestamps one is furthest behind.
LEMMA SomeoneIsBehind ==
    ASSUME NEW q \in QueueType, NEW T \in SUBSET Timed(q), T # {}
    PROVE  \E s \in T : \A t \in T : q.head_ts[s] <= q.head_ts[t]
<1> DEFINE ends == {q.head_ts[t] : t \in T}
<1>1. \A t \in T : q.head_ts[t] \in Nat
    BY DEF Timed, QueueType, Time
<1>2. ends \in SUBSET Nat /\ ends # {}
    BY <1>1
<1>3. PICK e \in ends : \A f \in ends : e <= f
    <2> HIDE DEF ends
    <2> QED
        BY <1>2, SomethingIsSmallest
<1> QED
    BY <1>3

LEMMA HeadUpdate ==
    ASSUME NEW q \in QueueType, Limiting # {},
           q.head_stream >= 0 => Limiting \subseteq Timed(q)
    PROVE  LET p == queue_head_update(q) IN
           /\ p \in QueueType
           /\ p.head_ts = q.head_ts /\ p.finished = q.finished
           /\ p.head_finished_stream = q.head_finished_stream
           /\ HeadIsBehind(p)
<1> DEFINE p == queue_head_update(q)
           timed == Limiting \cap Timed(q)
           behind == {s \in timed : \A t \in timed : q.head_ts[s] <= q.head_ts[t]}
<1>1. CASE q.head_stream < 0 /\ ~(Limiting \subseteq Timed(q))
    <2>1. p = q
        BY <1>1 DEF queue_head_update
    <2> QED
        BY <1>1, <2>1, HeadTypes DEF HeadIsBehind
<1>2. CASE ~(q.head_stream < 0 /\ ~(Limiting \subseteq Timed(q)))
    <2>1. timed = Limiting
        BY <1>2, HeadTypes
    <2>2. CASE q.head_stream \in behind
        <3>1. p = q
            BY <1>2, <2>2 DEF queue_head_update
        <3> QED
            BY <2>1, <2>2, <3>1 DEF HeadIsBehind
    <2>3. CASE q.head_stream \notin behind
        <3> DEFINE h == CHOOSE s \in behind : \A t \in behind : s <= t
        <3>1. p = [q EXCEPT !.head_stream = h]
            BY <1>2, <2>3 DEF queue_head_update
        <3>2. behind # {} /\ behind \in SUBSET Nat
            BY <2>1, SomeoneIsBehind, ConstantTypes
        <3>3. h \in behind
            <4> HIDE DEF behind
            <4> QED
                BY <3>2, SmallestIndex
        <3>4. /\ h \in Limiting
              /\ \A l \in Limiting : l \in Timed(q) /\ q.head_ts[h] <= q.head_ts[l]
            BY <2>1, <3>3
        <3> HIDE DEF h
        <3>5. /\ p.head_ts = q.head_ts /\ p.finished = q.finished /\ p.head_stream = h
              /\ p.head_finished_stream = q.head_finished_stream /\ p \in QueueType
            BY <3>1, <3>4 DEF QueueType
        <3>6. Timed(p) = Timed(q)
            BY <3>5 DEF Timed
        <3> QED
            BY <3>4, <3>5, <3>6 DEF HeadIsBehind
    <2> QED
        BY <2>2, <2>3
<1> QED
    BY <1>1, <1>2

LEMMA StreamUpdateTs ==
    ASSUME NEW q \in QueueType, HeadIsBehind(q), EndHolds(q),
           NEW s \in Streams \ q.finished, NEW ts \in Time
    PROVE  LET p == stream_update_ts(q, s, ts) IN
           /\ p \in QueueType
           /\ HeadIsBehind(p) /\ EndHolds(p)
           /\ Later(q, p)
<1> DEFINE moved == [q EXCEPT !.head_ts[s] = ts]
           late == /\ q.head_finished_stream >= 0
                   /\ moved.head_ts[q.head_finished_stream] <= ts
           over == IF late THEN finish_stream(moved, s) ELSE moved
           p == stream_update_ts(q, s, ts)
<1>1. CASE ts = NOPTS \/ (q.head_ts[s] # NOPTS /\ q.head_ts[s] >= ts)
    <2>1. p = q
        BY <1>1 DEF stream_update_ts
    <2>2. \A t \in Timed(q) : q.head_ts[t] \in Nat
        BY DEF Timed, QueueType, Time
    <2> QED
        BY <2>1, <2>2 DEF Later
<1>2. CASE ~(ts = NOPTS \/ (q.head_ts[s] # NOPTS /\ q.head_ts[s] >= ts))
    <2>1. ts \in Nat
        BY <1>2 DEF Time
    <2>2. \A t \in Timed(q) : q.head_ts[t] \in Nat
        BY DEF Timed, QueueType, Time
    <2>3. /\ moved \in QueueType
          /\ moved.finished = q.finished /\ moved.head_stream = q.head_stream
          /\ moved.head_finished_stream = q.head_finished_stream
          /\ moved.head_ts = [q.head_ts EXCEPT ![s] = ts]
        BY DEF QueueType
    <2>4. Timed(moved) = Timed(q) \cup {s}
        BY <2>1, <2>3, ConstantTypes DEF Timed, QueueType
    <2>5. \A t \in Timed(q) : q.head_ts[t] <= moved.head_ts[t]
        BY <1>2, <2>1, <2>2, <2>3 DEF QueueType, Timed
    <2>6. /\ over \in QueueType
          /\ over.head_ts = moved.head_ts /\ over.head_stream = q.head_stream
          /\ q.finished \subseteq over.finished
          /\ EndHolds(over)
        <3>1. CASE q.head_finished_stream < 0
            <4>1. ~late /\ over = moved
                BY <3>1, HeadTypes
            <4> QED
                BY <2>3, <3>1, <4>1, HeadTypes DEF EndHolds
        <3>2. CASE q.head_finished_stream >= 0
            <4> DEFINE e == q.head_finished_stream
            <4>1. e \in Timed(q) \cap q.finished /\ e # s
                BY <3>2 DEF EndHolds
            <4>2. moved.head_ts[e] = q.head_ts[e]
                BY <2>3, <4>1 DEF QueueType, Timed
            <4>3. \A t \in Timed(q) \ {s} : moved.head_ts[t] = q.head_ts[t]
                BY <2>3 DEF QueueType, Timed
            <4>4. moved.head_ts[s] = ts
                BY <2>3 DEF QueueType
            <4>5. CASE late
                <5>1. over = finish_stream(moved, s)
                    BY <4>5
                <5> QED
                    <6>1. CASE s \in Limiting
                        <7> DEFINE ahead == {t \in Timed(moved) : moved.head_ts[e] <= moved.head_ts[t]}
                        <7>1. ~(moved.head_finished_stream < 0) /\ ~(moved.head_ts[s] < moved.head_ts[e])
                            BY <2>1, <2>2, <2>3, <3>2, <4>1, <4>2, <4>4, <4>5, HeadTypes
                        <7>2. over = [moved EXCEPT !.finished = @ \cup {s} \cup ahead,
                                                   !.head_finished_stream = e]
                            BY <2>3, <2>4, <5>1, <6>1, <7>1 DEF finish_stream
                        <7> HIDE DEF moved
                        <7>3. /\ over.head_ts = moved.head_ts /\ over.head_stream = moved.head_stream
                              /\ over.head_finished_stream = e
                              /\ over.finished = q.finished \cup {s} \cup ahead
                              /\ over \in QueueType
                            BY <2>3, <7>2 DEF QueueType, Timed
                        <7>4. Timed(over) = Timed(moved)
                            BY <7>3 DEF Timed
                        <7> QED
                            BY <2>3, <2>4, <4>1, <7>3, <7>4 DEF EndHolds
                    <6>2. CASE s \notin Limiting
                        <7>1. over = [moved EXCEPT !.finished = @ \cup {s}]
                            BY <5>1, <6>2 DEF finish_stream
                        <7> HIDE DEF moved
                        <7>2. /\ over.head_ts = moved.head_ts /\ over.head_stream = moved.head_stream
                              /\ over.head_finished_stream = e
                              /\ over.finished = q.finished \cup {s}
                              /\ over \in QueueType
                            BY <2>3, <7>1 DEF QueueType
                        <7>3. Timed(over) = Timed(moved)
                            BY <7>2 DEF Timed
                        <7> QED
                            BY <2>3, <2>4, <4>1, <4>2, <4>3, <7>2, <7>3 DEF EndHolds
                    <6> QED
                        BY <6>1, <6>2
            <4>6. CASE ~late
                <5>1. over = moved
                    BY <4>6
                <5>2. ~(moved.head_ts[e] <= ts)
                    BY <3>2, <4>6
                <5>3. EndHolds(moved)
                    BY <2>3, <2>4, <4>1, <4>2, <4>3, <4>4, <5>2 DEF EndHolds
                <5> QED
                    BY <2>3, <5>1, <5>3
            <4> QED
                BY <4>5, <4>6
        <3> QED
            BY <3>1, <3>2, HeadTypes
    <2>7. p = IF s \in Limiting /\ (q.head_stream < 0 \/ q.head_stream = s)
                THEN queue_head_update(over) ELSE over
        BY <1>2 DEF stream_update_ts
    <2> HIDE DEF over
    <2>8. Timed(over) = Timed(q) \cup {s}
        BY <2>4, <2>6 DEF Timed
    <2>9. /\ p \in QueueType /\ p.head_ts = over.head_ts /\ p.finished = over.finished
          /\ p.head_finished_stream = over.head_finished_stream
          /\ HeadIsBehind(p)
        <3>1. CASE s \in Limiting /\ (q.head_stream < 0 \/ q.head_stream = s)
            <4>1. over.head_stream >= 0 => Limiting \subseteq Timed(over)
                BY <2>6, <2>8 DEF HeadIsBehind
            <4> QED
                BY <2>6, <2>7, <3>1, <4>1, HeadUpdate
        <3>2. CASE ~(s \in Limiting /\ (q.head_stream < 0 \/ q.head_stream = s))
            <4>1. p = over
                BY <2>7, <3>2
            <4>2. HeadIsBehind(over)
                <5> SUFFICES ASSUME q.head_stream >= 0, NEW l \in Limiting
                             PROVE  /\ l \in Timed(over)
                                    /\ over.head_ts[q.head_stream] <= over.head_ts[l]
                    BY <2>6 DEF HeadIsBehind
                <5>1. l \in Timed(q) /\ q.head_ts[q.head_stream] <= q.head_ts[l]
                    BY DEF HeadIsBehind
                <5>2. q.head_stream \in Limiting /\ q.head_stream \in Timed(q)
                    BY ConstantTypes, HeadTypes DEF HeadIsBehind
                <5>3. q.head_stream # s
                    BY <3>2, <5>2
                <5>4. over.head_ts[q.head_stream] = q.head_ts[q.head_stream]
                    BY <2>3, <2>6, <5>2, <5>3, ConstantTypes DEF QueueType
                <5>5. q.head_ts[l] <= over.head_ts[l] /\ over.head_ts[l] \in Nat
                    BY <2>1, <2>2, <2>3, <2>5, <2>6, <5>1 DEF QueueType, Timed
                <5> QED
                    BY <2>2, <2>8, <5>1, <5>2, <5>4, <5>5
            <4> QED
                BY <2>6, <4>1, <4>2
        <3> QED
            BY <3>1, <3>2
    <2>10. Timed(p) = Timed(over)
        BY <2>9 DEF Timed
    <2>11. EndHolds(p)
        BY <2>6, <2>9, <2>10 DEF EndHolds
    <2>12. Later(q, p)
        BY <2>5, <2>6, <2>8, <2>9, <2>10 DEF Later
    <2> QED
        BY <2>9, <2>11, <2>12
<1> QED
    BY <1>1, <1>2

(***************************************************************************)
(* Frames.                                                                  *)
(***************************************************************************)

LEMMA FrameEnd == \A f \in Frame : frame_end(f) \in Time
BY ConstantTypes DEF Frame, Time, frame_end

LEMMA NextFramesType ==
    ASSUME TypeOK, NEW s \in Streams
    PROVE  \A f \in NextFrames(s) : f \in Frame /\ OfferedEnd(s, f) \in Time
<1> DEFINE from == IF offered[s] = NOPTS THEN 0 ELSE offered[s]
<1> SUFFICES ASSUME NEW f \in NextFrames(s)
             PROVE  f \in Frame /\ OfferedEnd(s, f) \in Time
    OBVIOUS
<1>1. from \in Nat /\ offered[s] \in Time /\ sent[s] \in Nat
    BY DEF TypeOK, Time
<1>2. Lengths[s] \subseteq Nat /\ Gaps \subseteq Nat
    BY SyncQueueAssumption DEF SyncQueueAssumption
<1>3. \/ f \in [pts : {from + g : g \in Gaps}, len : Lengths[s], at : {sent[s]}]
      \/ f = [pts |-> NOPTS, len |-> 0, at |-> sent[s]]
    BY DEF NextFrames
<1>4. f \in Frame
    <2> HIDE DEF from
    <2>1. CASE f \in [pts : {from + g : g \in Gaps}, len : Lengths[s], at : {sent[s]}]
        <3>1. f \in [pts : Nat, len : Nat, at : Nat]
            BY <1>1, <1>2, <2>1
        <3> QED
            BY <3>1, ConstantTypes DEF Frame
    <2>2. CASE f = [pts |-> NOPTS, len |-> 0, at |-> sent[s]]
        BY <1>1, <2>2 DEF Frame
    <2> QED
        BY <1>3, <2>1, <2>2
<1> QED
    BY <1>1, <1>4, FrameEnd DEF OfferedEnd

LEMMA WithoutType ==
    ASSUME NEW q \in Seq(Frame), q # <<>>, NEW n \in Int
    PROVE  Without(q, n) \in Seq(Frame)
<1> DEFINE kept == {i \in 1 .. Len(q) : q[i].at + q[i].len > q[1].at + n}
           k == CHOOSE i \in kept : \A j \in kept : i <= j
           cut == IF q[1].at + n > q[k].at THEN q[1].at + n - q[k].at ELSE 0
           f == [pts |-> q[k].pts + cut, len |-> q[k].len - cut, at |-> q[k].at + cut]
<1>1. CASE kept = {}
    <2>1. Without(q, n) = <<>>
        BY <1>1, Zenon DEF Without
    <2> QED
        BY <2>1
<1>2. CASE kept # {}
    <2>1. Without(q, n) = <<f>> \o SubSeq(q, k + 1, Len(q))
        BY <1>2 DEF Without
    <2>2. k \in kept
        <3> HIDE DEF kept
        <3>1. kept \in SUBSET Nat
            BY DEF kept
        <3> QED
            BY <1>2, <3>1, SmallestIndex
    <2> HIDE DEF k
    <2>3. k \in 1 .. Len(q) /\ q[k].at + q[k].len > q[1].at + n
        BY <2>2
    <2> HIDE DEF kept
    <2>4. q[1] \in Frame /\ q[k] \in Frame
        BY <2>3
    <2>5. /\ q[1].at \in Nat /\ q[k].at \in Nat /\ q[k].len \in Nat
          /\ q[k].pts \in Time /\ (q[k].pts = NOPTS => q[k].len = 0)
        BY <2>4 DEF Frame, Time
    <2>6. /\ cut \in Nat /\ q[k].len - cut \in Nat /\ q[k].at + cut \in Nat
          /\ q[k].pts = NOPTS => cut = 0
        <3>1. CASE q[1].at + n > q[k].at
            <4>1. cut = q[1].at + n - q[k].at
                BY <3>1
            <4>2. \A a, b, l \in Nat : a + n > b /\ b + l > a + n =>
                     /\ a + n - b \in Nat /\ l - (a + n - b) \in Nat
                     /\ b + (a + n - b) \in Nat /\ l # 0
                OBVIOUS
            <4> HIDE DEF cut
            <4> QED
                BY <2>3, <2>5, <3>1, <4>1, <4>2
        <3>2. CASE ~(q[1].at + n > q[k].at)
            BY <2>5, <3>2
        <3> QED
            BY <3>1, <3>2
    <2> HIDE DEF cut
    <2>7. q[k].pts + cut \in Time
        <3>1. CASE q[k].pts = NOPTS
            BY <2>6, <3>1, ConstantTypes DEF Time
        <3>2. CASE q[k].pts \in Nat
            BY <2>6, <3>2 DEF Time
        <3> QED
            BY <2>5, <3>1, <3>2 DEF Time
    <2>8. q[k].pts + cut = NOPTS => q[k].len - cut = 0
        BY <2>5, <2>6, ConstantTypes DEF Time
    <2>9. f \in Frame
        BY <2>6, <2>7, <2>8 DEF Frame, Time
    <2>10. SubSeq(q, k + 1, Len(q)) \in Seq(Frame)
        BY <2>3
    <2> QED
        BY <2>1, <2>9, <2>10
<1> QED
    BY <1>1, <1>2

LEMMA SampleTypes ==
    ASSUME TypeOK, NEW s \in Streams, fifo[s] # <<>>
    PROVE  /\ Head(fifo[s]) \in Frame /\ Tail(fifo[s]) \in Seq(Frame)
           /\ NbSamples(s) \in Int
           /\ TailEnd(s) \in Int
<1>1. fifo[s] \in Seq(Frame) /\ sent[s] \in Nat /\ FrameSamples[s] \in Nat
    BY ConstantTypes DEF TypeOK
<1>2. Head(fifo[s]) \in Frame /\ Tail(fifo[s]) \in Seq(Frame)
    BY <1>1
<1>3. Head(fifo[s]).at \in Nat /\ Head(fifo[s]).pts \in Int
    BY <1>2, ConstantTypes DEF Frame
<1>4. SamplesQueued(s) \in Int
    BY <1>1, <1>3 DEF SamplesQueued
<1>5. NbSamples(s) \in Int
    BY <1>1, <1>4 DEF NbSamples
<1>6. frame_end(Head(fifo[s])) \in Int
    BY <1>2, FrameEnd, ConstantTypes DEF Time
<1> QED
    BY <1>2, <1>3, <1>5, <1>6 DEF TailEnd

LEMMA TailTsType ==
    ASSUME TypeOK, NEW s \in Streams
    PROVE  TailTs(s) \in Time
<1> DEFINE timed == {i \in 1 .. Len(fifo[s]) : frame_end(fifo[s][i]) # NOPTS}
<1>1. CASE timed = {}
    BY <1>1 DEF TailTs, Time
<1>2. CASE timed # {}
    <2> DEFINE k == CHOOSE i \in timed : \A j \in timed : i <= j
    <2>1. k \in timed
        <3> HIDE DEF timed
        <3>1. timed \in SUBSET Nat
            BY DEF timed
        <3> QED
            BY <1>2, <3>1, SmallestIndex
    <2>2. TailTs(s) = frame_end(fifo[s][k])
        BY <1>2 DEF TailTs
    <2> HIDE DEF k
    <2>3. fifo[s][k] \in Frame
        BY <2>1 DEF TypeOK
    <2> QED
        BY <2>2, <2>3, FrameEnd
<1> QED
    BY <1>1, <1>2

(***************************************************************************)
(* The invariant.  To the heads and ends it adds how far a stream's end has *)
(* got: the queue knows of it, tells the encoders in the call that finished *)
(* the last stream, and then has nothing left to give.                      *)
(***************************************************************************)

HeadsAndEnds == TypeOK /\ HeadIsBehind(sq) /\ EndHolds(sq)

EndsAreKnown ==
    /\ ended \subseteq sq.finished
    /\ At("idle") /\ Finished(sq) => closed = Streams
    /\ closed # {} => Finished(sq) /\ NothingReady

IInv == HeadsAndEnds /\ NoneAhead /\ EndsAreKnown

LEMMA QueueTypeOfSq == TypeOK => sq \in QueueType
BY DEF TypeOK, QueueType, Time

LEMMA InitIInv == Init => IInv
<1> SUFFICES ASSUME Init PROVE IInv
    OBVIOUS
<1>1. sq.head_stream = -1 /\ sq.head_finished_stream = -1 /\ sq.finished = {}
    BY DEF Init
<1>2. TypeOK
    <2>1. caller \in [pc : {"idle", "receive", "retry", "heartbeat"}, next : Streams,
                      ts : Nat, from : Streams]
        BY ConstantTypes DEF Init, Idle
    <2>2. fifo \in [Streams -> Seq(Frame)]
        BY DEF Init
    <2>3. sq \in [head_ts : [Streams -> Nat \cup {NOPTS}], finished : SUBSET Streams,
                  head_stream : Limiting \cup {-1}, head_finished_stream : Limiting \cup {-1}]
        BY DEF Init
    <2>4. out \in [Streams -> Int]
        BY DEF Init
    <2> QED
        BY <2>1, <2>2, <2>3, <2>4, ConstantTypes DEF Init, TypeOK
<1>3. HeadIsBehind(sq) /\ EndHolds(sq)
    BY <1>1 DEF HeadIsBehind, EndHolds
<1>4. NoneAhead
    BY DEF Init, NoneAhead
<1>5. EndsAreKnown
    BY <1>1, ConstantTypes DEF Init, EndsAreKnown, Finished
<1> QED
    BY <1>2, <1>3, <1>4, <1>5 DEF IInv, HeadsAndEnds

\* What an operation on the queue's heads and ends must give.
Good(p, q) == q \in QueueType /\ HeadIsBehind(q) /\ EndHolds(q) /\ Later(p, q)

LEMMA GoodItself == HeadsAndEnds => Good(sq, sq)
<1> SUFFICES ASSUME HeadsAndEnds PROVE Good(sq, sq)
    OBVIOUS
<1>1. sq \in QueueType
    BY QueueTypeOfSq DEF HeadsAndEnds
<1>2. \A s \in Timed(sq) : sq.head_ts[s] \in Nat
    BY <1>1 DEF Timed, QueueType, Time
<1> QED
    BY <1>1, <1>2 DEF Good, HeadsAndEnds, Later

LEMMA GoodFinish ==
    ASSUME NEW q \in QueueType, HeadIsBehind(q), EndHolds(q), NEW s \in Streams
    PROVE  Good(q, finish_stream(q, s)) /\ s \in finish_stream(q, s).finished
<1> DEFINE p == finish_stream(q, s)
<1>1. /\ p \in QueueType /\ EndHolds(p)
      /\ p.head_ts = q.head_ts /\ p.head_stream = q.head_stream
      /\ q.finished \cup {s} \subseteq p.finished
    BY FinishStream
<1> HIDE DEF p
<1>2. Timed(p) = Timed(q)
    BY <1>1 DEF Timed
<1>3. HeadIsBehind(p)
    BY <1>1, <1>2 DEF HeadIsBehind
<1>4. \A t \in Timed(q) : q.head_ts[t] \in Nat
    BY DEF Timed, QueueType, Time
<1>5. Good(q, p) /\ s \in p.finished
    BY <1>1, <1>2, <1>3, <1>4 DEF Good, Later
<1> QED
    BY <1>5 DEF p

LEMMA GoodUpdate ==
    ASSUME NEW q \in QueueType, HeadIsBehind(q), EndHolds(q),
           NEW s \in Streams \ q.finished, NEW ts \in Time
    PROVE  Good(q, stream_update_ts(q, s, ts))
BY StreamUpdateTs DEF Good

LEMMA LaterTransitive ==
    ASSUME NEW p \in QueueType, NEW q \in QueueType, NEW r \in QueueType,
           Later(p, q), Later(q, r)
    PROVE  Later(p, r)
<1>1. \A u \in QueueType : \A t \in Timed(u) : u.head_ts[t] \in Nat
    BY DEF Timed, QueueType, Time
<1> QED
    BY <1>1 DEF Later

\* Every step treats the heads and ends well.
LEMMA HeadsStep ==
    ASSUME HeadsAndEnds, [Next]_vars
    PROVE  Good(sq, sq')
<1>1. sq \in QueueType /\ HeadIsBehind(sq) /\ EndHolds(sq)
    BY QueueTypeOfSq DEF HeadsAndEnds
<1>2. ASSUME NEW s \in Streams, SendFrame(s)
      PROVE  Good(sq, sq')
    <2>1. PICK f \in NextFrames(s) :
             sq' = IF FramesSent(s, sent[s] + Units(s, f)) >= FramesMax[s]
                     THEN finish_stream(stream_update_ts(sq, s, frame_end(f)), s)
                     ELSE stream_update_ts(sq, s, frame_end(f))
        BY <1>2, Zenon DEF SendFrame
    <2> DEFINE q == stream_update_ts(sq, s, frame_end(f))
    <2>2. frame_end(f) \in Time
        BY NextFramesType, FrameEnd DEF HeadsAndEnds
    <2>3. s \in Streams \ sq.finished
        BY <1>2 DEF SendFrame
    <2>4. Good(sq, q)
        BY <1>1, <2>2, <2>3, GoodUpdate
    <2> HIDE DEF q
    <2>5. Good(q, finish_stream(q, s))
        BY <2>4, GoodFinish DEF Good
    <2>6. Good(sq, finish_stream(q, s))
        BY <1>1, <2>4, <2>5, LaterTransitive DEF Good
    <2> QED
        BY <2>1, <2>4, <2>6 DEF q
<1>3. ASSUME NEW s \in Streams, SendEnd(s) \/ Receive(s)
      PROVE  Good(sq, sq')
    <2>1. sq' = finish_stream(sq, s) \/ sq' = sq
        BY <1>3, Zenon DEF SendEnd, Receive
    <2> QED
        BY <1>1, <2>1, GoodFinish, GoodItself
<1>4. ASSUME Heartbeat
      PROVE  Good(sq, sq')
    <2> DEFINE s == caller.next
    <2>1. s \in Streams /\ caller.ts \in Time
        BY DEF HeadsAndEnds, TypeOK, Time
    <2>2. CASE Lags(s)
        <3>1. sq' = stream_update_ts(sq, s, caller.ts)
            BY <1>4, <2>2, Zenon DEF Heartbeat
        <3>2. s \notin sq.finished
            BY <2>2 DEF Lags
        <3> QED
            BY <1>1, <2>1, <3>1, <3>2, GoodUpdate
    <2>3. CASE ~Lags(s)
        <3>1. sq' = sq
            BY <1>4, <2>3, Zenon DEF Heartbeat
        <3> QED
            BY <3>1, GoodItself
    <2> QED
        BY <2>2, <2>3
<1>5. ASSUME NEW s \in Streams, SendRefused(s) \/ HangUp(s) \/ OverflowStart(s)
      PROVE  Good(sq, sq')
    <2>1. sq' = sq
        BY <1>5, Zenon DEF SendRefused, HangUp, OverflowStart
    <2> QED
        BY <2>1, GoodItself
<1>6. ASSUME ReceiveEof \/ ReceiveAgain \/ UNCHANGED vars
      PROVE  Good(sq, sq')
    <2>1. sq' = sq
        BY <1>6, Zenon DEF ReceiveEof, ReceiveAgain, vars
    <2> QED
        BY <2>1, GoodItself
<1> QED
    BY <1>2, <1>3, <1>4, <1>5, <1>6 DEF Next

LEMMA TypeStep ==
    ASSUME HeadsAndEnds, [Next]_vars
    PROVE  TypeOK'
<1>1. Good(sq, sq')
    BY HeadsStep
<1>2. sq' \in [head_ts : [Streams -> Nat \cup {NOPTS}], finished : SUBSET Streams,
               head_stream : Limiting \cup {-1}, head_finished_stream : Limiting \cup {-1}]
    BY <1>1 DEF Good, QueueType, Time
<1>3. TypeOK
    BY DEF HeadsAndEnds
<1>4. /\ Idle \in [pc : {"idle", "receive", "retry", "heartbeat"}, next : Streams,
                   ts : Nat, from : Streams]
      /\ \A pc \in {"idle", "receive", "retry", "heartbeat"} :
           [Idle EXCEPT !.pc = pc] \in
              [pc : {"idle", "receive", "retry", "heartbeat"}, next : Streams,
               ts : Nat, from : Streams]
    BY ConstantTypes DEF Idle
<1>5. ASSUME NEW s \in Streams, SendFrame(s)
      PROVE  TypeOK'
    <2>1. PICK f \in NextFrames(s) :
             /\ fifo' = [fifo EXCEPT ![s] = Append(@, f)]
             /\ sent' = [sent EXCEPT ![s] = sent[s] + Units(s, f)]
             /\ offered' = [offered EXCEPT ![s] = OfferedEnd(s, f)]
        BY <1>5, Zenon DEF SendFrame
    <2>2. f \in Frame /\ OfferedEnd(s, f) \in Time
        BY <1>3, NextFramesType
    <2>3. Units(s, f) \in Nat
        BY <2>2 DEF Units, Frame
    <2>4. fifo[s] \in Seq(Frame) /\ Append(fifo[s], f) \in Seq(Frame)
        BY <1>3, <2>2 DEF TypeOK
    <2>5. fifo' \in [Streams -> Seq(Frame)]
        BY <1>3, <2>1, <2>4 DEF TypeOK
    <2>6. sent' \in [Streams -> Nat] /\ offered' \in [Streams -> Nat \cup {NOPTS}]
        <3>1. sent \in [Streams -> Nat] /\ offered \in [Streams -> Nat \cup {NOPTS}]
            BY <1>3 DEF TypeOK
        <3>2. sent[s] + Units(s, f) \in Nat
            BY <2>3, <3>1
        <3> QED
            BY <2>1, <2>2, <3>1, <3>2 DEF Time
    <2>7. /\ caller' = [Idle EXCEPT !.pc = "receive"]
          /\ UNCHANGED <<ended, gone, closed, out, longest, forced>>
        BY <1>5 DEF SendFrame, GoTo
    <2> QED
        BY <1>2, <1>3, <1>4, <2>5, <2>6, <2>7 DEF TypeOK
<1>6. ASSUME NEW s \in Streams, SendRefused(s)
      PROVE  TypeOK'
    <2>1. PICK f \in NextFrames(s) : offered' = [offered EXCEPT ![s] = OfferedEnd(s, f)]
        BY <1>6 DEF SendRefused
    <2>2. OfferedEnd(s, f) \in Nat \cup {NOPTS}
        BY <1>3, NextFramesType DEF Time
    <2>3. /\ ended' = ended \cup {s}
          /\ UNCHANGED <<fifo, sent, caller, gone, closed, out, longest, forced>>
        BY <1>6 DEF SendRefused
    <2> QED
        BY <1>2, <1>3, <2>1, <2>2, <2>3 DEF TypeOK
<1>7. ASSUME NEW s \in Streams, SendEnd(s)
      PROVE  TypeOK'
    <2>1. /\ caller' = [Idle EXCEPT !.pc = "receive"] /\ ended' = ended \cup {s}
          /\ UNCHANGED <<fifo, sent, offered, gone, closed, out, longest, forced>>
        BY <1>7 DEF SendEnd, GoTo
    <2> QED
        BY <1>2, <1>3, <1>4, <2>1 DEF TypeOK
<1>8. ASSUME NEW s \in Streams, Receive(s)
      PROVE  TypeOK'
    <2> DEFINE rest == IF FrameSamples[s] = 0 THEN Tail(fifo[s])
                       ELSE Without(fifo[s], NbSamples(s))
               units == out[s] + (IF FrameSamples[s] = 0 THEN 1 ELSE NbSamples(s))
    <2>1. fifo[s] # <<>>
        BY <1>8 DEF Receive, Ready
    <2>2. /\ NbSamples(s) \in Int /\ TailEnd(s) \in Int
          /\ fifo[s] \in Seq(Frame) /\ Tail(fifo[s]) \in Seq(Frame)
        BY <1>3, <2>1, SampleTypes DEF TypeOK
    <2>3. rest \in Seq(Frame)
        BY <2>1, <2>2, WithoutType
    <2>4. fifo' = [fifo EXCEPT ![s] = rest]
        BY <1>8 DEF Receive
    <2>5. units \in Int
        <3>1. out[s] \in Int
            BY <1>3 DEF TypeOK
        <3> QED
            BY <2>2, <3>1
    <2>6. out' = [out EXCEPT ![s] = units]
        BY <1>8 DEF Receive
    <2>7. longest' = [longest EXCEPT ![s] = IF TailEnd(s) > @ THEN TailEnd(s) ELSE @]
        BY <1>8 DEF Receive
    <2>8. /\ caller' = [Idle EXCEPT !.pc = "receive"]
          /\ UNCHANGED <<sent, ended, offered, gone, closed, forced>>
        BY <1>8 DEF Receive, GoTo
    <2> HIDE DEF rest, units
    <2>9. /\ fifo' \in [Streams -> Seq(Frame)]
          /\ out' \in [Streams -> Int]
          /\ longest' \in [Streams -> Int]
        BY <1>3, <2>2, <2>3, <2>4, <2>5, <2>6, <2>7 DEF TypeOK
    <2> QED
        BY <1>2, <1>3, <1>4, <2>8, <2>9 DEF TypeOK
<1>9. ASSUME NEW s \in Streams, OverflowStart(s)
      PROVE  TypeOK'
    <2>1. TailTs(s) \in Nat
        BY <1>3, <1>9, TailTsType DEF OverflowStart, Overflows, Time
    <2>2. /\ caller' = [pc |-> "heartbeat", next |-> 0, ts |-> TailTs(s) + 1, from |-> s]
          /\ forced' = TRUE
          /\ UNCHANGED <<fifo, sent, ended, offered, gone, closed, out, longest>>
        BY <1>9 DEF OverflowStart
    <2>3. caller' \in [pc : {"idle", "receive", "retry", "heartbeat"}, next : Streams,
                       ts : Nat, from : Streams]
        BY <2>1, <2>2, ConstantTypes
    <2> QED
        BY <1>2, <1>3, <2>2, <2>3 DEF TypeOK
<1>10. ASSUME NEW s \in Streams, HangUp(s)
       PROVE  TypeOK'
    <2>1. /\ gone' = gone \cup {s}
          /\ UNCHANGED <<fifo, sent, caller, ended, offered, closed, out, longest, forced>>
        BY <1>10 DEF HangUp
    <2> QED
        BY <1>2, <1>3, <2>1 DEF TypeOK
<1>11. ASSUME ReceiveEof \/ ReceiveAgain
       PROVE  TypeOK'
    <2>1. /\ caller' = [Idle EXCEPT !.pc = "idle"]
          /\ closed' = closed \/ closed' = Streams
          /\ UNCHANGED <<fifo, sent, ended, offered, gone, out, longest, forced>>
        BY <1>11 DEF ReceiveEof, ReceiveAgain, GoTo
    <2> QED
        BY <1>2, <1>3, <1>4, <2>1 DEF TypeOK
<1>12. ASSUME Heartbeat
       PROVE  TypeOK'
    <2>1. \/ caller' = [Idle EXCEPT !.pc = "retry"]
          \/ /\ caller.next # NbStreams - 1
             /\ caller' = [caller EXCEPT !.next = caller.next + 1]
        BY <1>12 DEF Heartbeat
    <2>2. caller.next # NbStreams - 1 => caller.next + 1 \in Streams
        <3>1. caller.next \in Streams
            BY <1>3 DEF TypeOK
        <3> QED
            BY <3>1, SyncQueueAssumption DEF Streams, SyncQueueAssumption
    <2>3. caller' \in [pc : {"idle", "receive", "retry", "heartbeat"}, next : Streams,
                       ts : Nat, from : Streams]
        BY <1>3, <1>4, <2>1, <2>2 DEF TypeOK
    <2>4. UNCHANGED <<fifo, sent, ended, offered, gone, closed, out, longest, forced>>
        BY <1>12 DEF Heartbeat
    <2> QED
        BY <1>2, <1>3, <2>3, <2>4 DEF TypeOK
<1>13. ASSUME UNCHANGED vars
       PROVE  TypeOK'
    BY <1>3, <1>13 DEF TypeOK, vars
<1> QED
    BY <1>5, <1>6, <1>7, <1>8, <1>9, <1>10, <1>11, <1>12, <1>13 DEF Next

LEMMA NoneAheadStep ==
    ASSUME HeadsAndEnds, NoneAhead, [Next]_vars
    PROVE  NoneAhead'
<1> SUFFICES ASSUME NEW s \in Streams, NEW l \in Limiting, longest'[s] # NOPTS
             PROVE  l \in Timed(sq') /\ longest'[s] <= sq'.head_ts[l]
    BY DEF NoneAhead, Timed
<1>1. sq \in QueueType /\ sq' \in QueueType /\ Later(sq, sq') /\ l \in Streams
    BY HeadsStep, QueueTypeOfSq, ConstantTypes DEF HeadsAndEnds, Good
<1>2. /\ \A t \in Timed(sq) : sq.head_ts[t] \in Nat
      /\ \A t \in Timed(sq') : sq'.head_ts[t] \in Nat
    BY <1>1 DEF Timed, QueueType, Time
<1>3. longest[s] \in Int /\ longest \in [Streams -> Int]
    BY DEF HeadsAndEnds, TypeOK
<1>4. CASE longest'[s] = longest[s]
    <2>1. l \in Timed(sq) /\ longest[s] <= sq.head_ts[l]
        BY <1>1, <1>4 DEF NoneAhead, Timed
    <2> QED
        BY <1>1, <1>2, <1>3, <1>4, <2>1 DEF Later
<1>5. CASE longest'[s] # longest[s]
    <2>1. Receive(s) /\ longest' = [longest EXCEPT ![s] = IF TailEnd(s) > @ THEN TailEnd(s) ELSE @]
        <3>1. PICK r \in Streams : Receive(r)
            BY <1>5 DEF Next, vars, SendFrame, SendRefused, SendEnd, HangUp, OverflowStart,
                        ReceiveEof, ReceiveAgain, Heartbeat
        <3>2. longest' = [longest EXCEPT ![r] = IF TailEnd(r) > @ THEN TailEnd(r) ELSE @]
            BY <3>1 DEF Receive
        <3>3. r = s
            BY <1>3, <1>5, <3>2
        <3> QED
            BY <3>1, <3>2, <3>3
    <2>2. longest'[s] = TailEnd(s)
        BY <1>3, <1>5, <2>1
    <2>3. sq.head_stream >= 0 /\ TailEnd(s) <= sq.head_ts[sq.head_stream]
        BY <2>1, <2>2 DEF Receive, Ready
    <2>4. /\ l \in Timed(sq) /\ sq.head_ts[sq.head_stream] <= sq.head_ts[l]
          /\ sq.head_stream \in Timed(sq)
        BY <1>1, <2>3, HeadTypes DEF HeadsAndEnds, HeadIsBehind
    <2>5. TailEnd(s) \in Int
        BY <2>1, SampleTypes DEF HeadsAndEnds, Receive, Ready
    <2> QED
        BY <1>1, <1>2, <2>2, <2>3, <2>4, <2>5 DEF Later
<1> QED
    BY <1>4, <1>5

LEMMA EndsStep ==
    ASSUME HeadsAndEnds, EndsAreKnown, [Next]_vars
    PROVE  EndsAreKnown'
<1>1. /\ sq \in QueueType /\ sq' \in QueueType
      /\ sq.finished \subseteq sq'.finished
    BY HeadsStep, QueueTypeOfSq DEF HeadsAndEnds, Good, Later
<1>2. sq'.finished \subseteq Streams /\ sq.finished \subseteq Streams
    BY <1>1 DEF QueueType
<1>3. ended' \subseteq sq'.finished
    <2>1. ASSUME NEW s \in Streams, SendRefused(s) \/ SendEnd(s)
          PROVE  ended' \subseteq sq'.finished
        <3>1. ended' = ended \cup {s}
            BY <2>1 DEF SendRefused, SendEnd
        <3>2. CASE SendRefused(s)
            BY <1>1, <3>1, <3>2 DEF SendRefused, EndsAreKnown
        <3>3. CASE SendEnd(s)
            <4>1. s \in sq'.finished
                BY <3>3, <1>1, GoodFinish DEF SendEnd, HeadsAndEnds
            <4> QED
                BY <1>1, <3>1, <4>1 DEF EndsAreKnown
        <3> QED
            BY <2>1, <3>2, <3>3
    <2>2. ASSUME ended' = ended
          PROVE  ended' \subseteq sq'.finished
        BY <1>1, <2>2 DEF EndsAreKnown
    <2> QED
        BY <2>1, <2>2 DEF Next, vars, SendFrame, Receive, HangUp, OverflowStart,
                          ReceiveEof, ReceiveAgain, Heartbeat
<1>4. ASSUME caller'.pc = "idle", Finished(sq')
      PROVE  closed' = Streams
    <2>1. ASSUME NEW s \in Streams, SendFrame(s) \/ SendEnd(s) \/ Receive(s)
          PROVE  FALSE
        <3>1. caller' = [Idle EXCEPT !.pc = "receive"]
            BY <2>1 DEF SendFrame, SendEnd, Receive, GoTo
        <3> QED
            BY <1>4, <3>1 DEF Idle
    <2>2. ASSUME NEW s \in Streams, SendRefused(s) \/ HangUp(s) \/ UNCHANGED vars
          PROVE  closed' = Streams
        <3>1. caller' = caller /\ sq' = sq /\ closed' = closed
            BY <2>2 DEF SendRefused, HangUp, vars
        <3> QED
            BY <1>4, <3>1 DEF EndsAreKnown, At
    <2>3. ASSUME NEW s \in Streams, OverflowStart(s)
          PROVE  FALSE
        BY <1>4, <2>3 DEF OverflowStart
    <2>4. CASE ReceiveEof
        BY <2>4 DEF ReceiveEof
    <2>5. CASE ReceiveAgain
        BY <1>4, <2>5 DEF ReceiveAgain
    <2>6. CASE Heartbeat
        <3>1. caller'.pc = "retry" \/ caller'.pc = "heartbeat"
            <4>1. \/ caller' = [Idle EXCEPT !.pc = "retry"]
                  \/ caller' = [caller EXCEPT !.next = caller.next + 1]
                BY <2>6 DEF Heartbeat
            <4>2. caller.pc = "heartbeat"
                BY <2>6 DEF Heartbeat, At
            <4>3. caller \in [pc : {"idle", "receive", "retry", "heartbeat"}, next : Streams,
                              ts : Nat, from : Streams]
                BY DEF HeadsAndEnds, TypeOK
            <4> QED
                BY <4>1, <4>2, <4>3 DEF Idle
        <3> QED
            BY <1>4, <3>1
    <2> QED
        BY <2>1, <2>2, <2>3, <2>4, <2>5, <2>6, ConstantTypes DEF Next
<1>5. ASSUME closed' # {}
      PROVE  Finished(sq') /\ NothingReady'
    <2>1. CASE closed' # closed
        <3>1. ReceiveEof
            BY <2>1 DEF Next, vars, SendFrame, SendRefused, SendEnd, Receive, HangUp,
                        OverflowStart, ReceiveAgain, Heartbeat
        <3>2. /\ Finished(sq) /\ NothingReady
              /\ sq' = sq /\ fifo' = fifo /\ sent' = sent
            BY <3>1 DEF ReceiveEof
        <3> QED
            BY <3>2 DEF NothingReady, Ready, SamplesQueued, NbSamples, TailEnd
    <2>2. CASE closed' = closed
        <3>1. Finished(sq) /\ NothingReady
            BY <1>5, <2>2 DEF EndsAreKnown
        <3>2. Finished(sq')
            BY <1>1, <1>2, <3>1 DEF Finished
        <3>3. fifo' = fifo /\ sent' = sent
            <4>1. ASSUME NEW s \in Streams, SendFrame(s) \/ Receive(s)
                  PROVE  FALSE
                BY <3>1, <4>1 DEF SendFrame, Receive, NothingReady, Finished
            <4> QED
                BY <4>1 DEF Next, vars, SendRefused, SendEnd, HangUp, OverflowStart,
                            ReceiveEof, ReceiveAgain, Heartbeat
        <3>4. /\ sq'.finished = sq.finished /\ sq'.head_stream = sq.head_stream
              /\ sq'.head_ts = sq.head_ts
            <4>1. sq'.finished = sq.finished
                BY <3>1, <3>2 DEF Finished
            <4>2. \/ sq' = sq
                  \/ \E s \in Streams : sq' = finish_stream(sq, s)
                <5>1. ASSUME NEW s \in Streams, SendFrame(s)
                      PROVE  FALSE
                    BY <3>1, <5>1 DEF SendFrame, Finished
                <5>2. ASSUME Heartbeat
                      PROVE  sq' = sq
                    <6>1. caller.next \in sq.finished
                        BY <3>1 DEF HeadsAndEnds, TypeOK, Finished
                    <6>2. ~Lags(caller.next)
                        BY <6>1 DEF Lags
                    <6> QED
                        BY <5>2, <6>2, Zenon DEF Heartbeat
                <5>3. ASSUME NEW s \in Streams, SendEnd(s) \/ Receive(s)
                      PROVE  sq' = sq \/ sq' = finish_stream(sq, s)
                    BY <5>3, Zenon DEF SendEnd, Receive
                <5> QED
                    BY <5>1, <5>2, <5>3, Zenon DEF Next, vars, SendRefused, HangUp,
                                         OverflowStart, ReceiveEof, ReceiveAgain
            <4>3. \A s \in Streams : /\ finish_stream(sq, s).head_ts = sq.head_ts
                                     /\ finish_stream(sq, s).head_stream = sq.head_stream
                BY <1>1, FinishStream DEF HeadsAndEnds
            <4> QED
                BY <4>1, <4>2, <4>3
        <3> QED
            BY <3>1, <3>2, <3>3, <3>4 DEF NothingReady, Ready, SamplesQueued, NbSamples, TailEnd
    <2> QED
        BY <2>1, <2>2
<1> QED
    BY <1>3, <1>4, <1>5 DEF EndsAreKnown, At

LEMMA IInvStep == IInv /\ [Next]_vars => IInv'
<1> SUFFICES ASSUME IInv, [Next]_vars PROVE IInv'
    OBVIOUS
<1>1. TypeOK' /\ NoneAhead' /\ EndsAreKnown'
    BY TypeStep, NoneAheadStep, EndsStep DEF IInv
<1>2. HeadIsBehind(sq') /\ EndHolds(sq')
    BY HeadsStep DEF IInv, Good
<1>3. (HeadIsBehind(sq))' /\ (EndHolds(sq))'
    BY <1>2 DEF HeadIsBehind, EndHolds, Timed
<1> QED
    BY <1>1, <1>3 DEF IInv, HeadsAndEnds

(***************************************************************************)
(* Theorems.                                                                *)
(***************************************************************************)

\* Types hold; in particular a head is a limiting stream whenever it is read.
THEOREM TypeCorrect == Spec => []TypeOK
<1>1. IInv => TypeOK
    BY DEF IInv, HeadsAndEnds
<1> QED
    BY InitIInv, IInvStep, <1>1, PTL DEF Spec

\* No stream gets ahead of a limiting one, however many there are.
THEOREM NoStreamGetsAhead == Spec => []NoneAhead
<1>1. IInv => NoneAhead
    BY DEF IInv
<1> QED
    BY InitIInv, IInvStep, <1>1, PTL DEF Spec

\* Streams that reach the end of a limiting one are finished.
THEOREM LateStreamsAreFinished == Spec => []LateStreamsFinished
<1>1. IInv => LateStreamsFinished
    BY DEF IInv, HeadsAndEnds, EndHolds, LateStreamsFinished
<1> QED
    BY InitIInv, IInvStep, <1>1, PTL DEF Spec

\* When all filtergraph outputs have ended every encoder has been told.
THEOREM EncodersAreClosed == Spec => []AllClosed
<1>1. IInv => AllClosed
    <2> SUFFICES ASSUME IInv, At("idle"), ended = Streams PROVE closed = Streams
        BY DEF AllClosed
    <2>1. Finished(sq)
        BY DEF IInv, HeadsAndEnds, TypeOK, EndsAreKnown, Finished
    <2> QED
        BY <2>1 DEF IInv, EndsAreKnown
<1> QED
    BY InitIInv, IInvStep, <1>1, PTL DEF Spec

\* No frame follows the end of the queue.
THEOREM NothingAfterTheEnd == Spec => NoFrameAfterEnd
<1>1. IInv /\ [Next]_vars => (closed # {} => out' = out)
    <2> SUFFICES ASSUME IInv, [Next]_vars, closed # {} PROVE out' = out
        OBVIOUS
    <2>1. ASSUME NEW s \in Streams, Receive(s)
          PROVE  FALSE
        BY <2>1 DEF IInv, EndsAreKnown, NothingReady, Receive
    <2> QED
        BY <2>1 DEF Next, vars, SendFrame, SendRefused, SendEnd, HangUp, OverflowStart,
                    ReceiveEof, ReceiveAgain, Heartbeat
<1>2. IInv /\ [Next]_vars => [closed # {} => out' = out]_vars
    BY <1>1
<1> QED
    BY InitIInv, IInvStep, <1>2, PTL DEF Spec, NoFrameAfterEnd

(***************************************************************************)
(* Order.  The frames q of a stream follow each other from what was given   *)
(* out to what was sent; that numbers never fall is what lets the cut of an *)
(* audio frame, which may span several, be found.                           *)
(***************************************************************************)

InSequence(s, q, given, n) ==
    /\ q = <<>> => given = n
    /\ q # <<>> => q[1].at = given /\ q[Len(q)].at + Units(s, q[Len(q)]) = n
    /\ \A i \in 2 .. Len(q) : q[i].at = q[i - 1].at + Units(s, q[i - 1])
    /\ \A i, j \in 1 .. Len(q) : i <= j => q[i].at <= q[j].at

AllInSequence == \A s \in Streams : InSequence(s, fifo[s], out[s], sent[s])

LEMMA UnitsType ==
    ASSUME NEW s, NEW f \in Frame
    PROVE  Units(s, f) \in Nat /\ f.at \in Nat /\ f.len \in Nat
BY DEF Units, Frame

LEMMA AppendInSequence ==
    ASSUME NEW s \in Streams, NEW q \in Seq(Frame), NEW given \in Int, NEW n \in Nat,
           InSequence(s, q, given, n), NEW f \in Frame, f.at = n
    PROVE  InSequence(s, Append(q, f), given, n + Units(s, f))
<1> DEFINE r == Append(q, f)
<1>1. /\ Len(q) \in Nat /\ Len(r) = Len(q) + 1 /\ r[Len(r)] = f /\ r # <<>>
      /\ \A i \in 1 .. Len(q) : r[i] = q[i] /\ q[i] \in Frame
      /\ q # <<>> => Len(q) > 0
    OBVIOUS
<1> HIDE DEF r
<1>2. Units(s, f) \in Nat /\ \A i \in 1 .. Len(q) : q[i].at \in Nat /\ Units(s, q[i]) \in Nat
    BY <1>1, UnitsType
<1>3. r[1].at = given
    BY <1>1 DEF InSequence
<1>4. \A i \in 1 .. Len(q) : q[i].at <= n
    <2> SUFFICES ASSUME NEW i \in 1 .. Len(q) PROVE q[i].at <= n
        OBVIOUS
    <2>1. q # <<>> /\ Len(q) \in 1 .. Len(q) /\ i <= Len(q)
        BY <1>1
    <2>2. q[i].at <= q[Len(q)].at /\ q[Len(q)].at + Units(s, q[Len(q)]) = n
        BY <2>1 DEF InSequence
    <2>3. q[Len(q)].at \in Nat /\ Units(s, q[Len(q)]) \in Nat /\ q[i].at \in Nat
        BY <1>2, <2>1
    <2> QED
        BY <2>2, <2>3
<1>5. \A i \in 2 .. Len(r) : r[i].at = r[i - 1].at + Units(s, r[i - 1])
    <2> SUFFICES ASSUME NEW i \in 2 .. Len(r)
                 PROVE  r[i].at = r[i - 1].at + Units(s, r[i - 1])
        OBVIOUS
    <2>1. CASE i = Len(r)
        <3>1. i - 1 = Len(q) /\ q # <<>> /\ r[i - 1] = q[Len(q)] /\ r[i] = f
            BY <1>1, <2>1
        <3> QED
            BY <3>1 DEF InSequence
    <2>2. CASE i # Len(r)
        <3>1. i \in 2 .. Len(q) /\ r[i] = q[i] /\ r[i - 1] = q[i - 1]
            BY <1>1, <2>2
        <3> QED
            BY <3>1 DEF InSequence
    <2> QED
        BY <2>1, <2>2
<1>6. \A i, j \in 1 .. Len(r) : i <= j => r[i].at <= r[j].at
    <2> SUFFICES ASSUME NEW i \in 1 .. Len(r), NEW j \in 1 .. Len(r), i <= j
                 PROVE  r[i].at <= r[j].at
        OBVIOUS
    <2>1. CASE j = Len(r)
        BY <1>1, <1>4, <2>1
    <2>2. CASE j # Len(r)
        <3>1. i \in 1 .. Len(q) /\ j \in 1 .. Len(q)
            BY <1>1, <2>2
        <3> QED
            BY <1>1, <3>1 DEF InSequence
    <2> QED
        BY <2>1, <2>2
<1> QED
    BY <1>1, <1>3, <1>5, <1>6 DEF InSequence, r

\* What is left from frame k on, with c samples of it taken.
LEMMA RestInSequence ==
    ASSUME NEW s \in Streams, NEW q \in Seq(Frame), NEW given, NEW n,
           InSequence(s, q, given, n), NEW k \in 1 .. Len(q),
           NEW f \in Frame, q[k].at <= f.at, f.at + Units(s, f) = q[k].at + Units(s, q[k])
    PROVE  InSequence(s, <<f>> \o SubSeq(q, k + 1, Len(q)), f.at, n)
<1> DEFINE t == SubSeq(q, k + 1, Len(q))
           r == <<f>> \o t
           d == k - 1
<1>1. /\ Len(q) \in Nat /\ Len(t) = Len(q) - k
      /\ \A i \in 1 .. Len(q) - k : t[i] = q[i + k]
      /\ t \in Seq(Frame)
    OBVIOUS
<1> HIDE DEF t
<1>2. /\ Len(r) = Len(q) - d /\ Len(r) \in Nat \ {0} /\ d \in Nat
      /\ r[1] = f /\ r # <<>>
      /\ \A i \in 2 .. Len(r) : r[i] = q[i + d]
    <2>1. /\ Len(r) = 1 + Len(t) /\ r[1] = f /\ r # <<>>
          /\ \A i \in 2 .. Len(r) : r[i] = t[i - 1]
        BY <1>1
    <2>2. Len(r) = Len(q) - d /\ Len(r) \in Nat \ {0} /\ d \in Nat
        BY <1>1, <2>1
    <2> HIDE DEF r
    <2>3. ASSUME NEW i \in 2 .. Len(r)
          PROVE  r[i] = q[i + d]
        <3>1. i - 1 \in 1 .. Len(q) - k /\ i - 1 + k = i + d
            BY <1>1, <2>1, <2>2
        <3> QED
            BY <1>1, <2>1, <3>1
    <2> QED
        BY <2>1, <2>2, <2>3
<1> HIDE DEF r
<1>3. /\ k \in Nat /\ 1 <= k /\ k <= Len(q) /\ Len(q) \in Nat /\ d \in Nat /\ k = d + 1
      /\ Len(q) = Len(r) + d /\ Len(r) \in Nat
    BY <1>1, <1>2
<1> HIDE DEF d
<1>4. \A i \in 1 .. Len(q) : q[i] \in Frame /\ q[i].at \in Nat /\ Units(s, q[i]) \in Nat
    <2> SUFFICES ASSUME NEW i \in 1 .. Len(q)
                 PROVE  q[i] \in Frame /\ q[i].at \in Nat /\ Units(s, q[i]) \in Nat
        OBVIOUS
    <2>1. q[i] \in Frame
        OBVIOUS
    <2> QED
        BY <2>1, UnitsType
<1>5. f.at \in Nat /\ Units(s, f) \in Nat
    BY UnitsType
<1>6. r[Len(r)].at + Units(s, r[Len(r)]) = n
    <2>1. q # <<>> /\ q[Len(q)].at + Units(s, q[Len(q)]) = n
        BY <1>1 DEF InSequence
    <2>2. CASE Len(r) = 1
        <3>1. Len(q) = k
            BY <1>3, <2>2
        <3> QED
            BY <1>2, <2>1, <2>2, <3>1
    <2>3. CASE Len(r) # 1
        <3>1. r[Len(r)] = q[Len(q)]
            <4>1. Len(r) \in 2 .. Len(r) /\ Len(r) + d = Len(q)
                BY <1>2, <1>3, <2>3
            <4> QED
                BY <1>2, <4>1
        <3> QED
            BY <2>1, <3>1
    <2> QED
        BY <2>2, <2>3
<1>7. \A i \in 2 .. Len(r) : r[i].at = r[i - 1].at + Units(s, r[i - 1])
    <2> SUFFICES ASSUME NEW i \in 2 .. Len(r)
                 PROVE  r[i].at = r[i - 1].at + Units(s, r[i - 1])
        OBVIOUS
    <2> DEFINE m == i + d
    <2>1. r[i] = q[m] /\ m \in 2 .. Len(q)
        BY <1>2, <1>3
    <2>2. i = 2 => m - 1 = k
        BY <1>3
    <2>3. i # 2 => i - 1 \in 2 .. Len(r) /\ r[i - 1] = q[m - 1]
        <3>1. i # 2 => i - 1 \in 2 .. Len(r) /\ i - 1 + d = m - 1
            BY <1>3
        <3> QED
            BY <1>2, <3>1
    <2> HIDE DEF m
    <2>4. q[m].at = q[m - 1].at + Units(s, q[m - 1])
        BY <2>1 DEF InSequence
    <2>5. CASE i = 2
        <3>1. r[i - 1] = f
            BY <1>2, <2>5
        <3> QED
            BY <2>1, <2>2, <2>4, <2>5, <3>1
    <2>6. CASE i # 2
        BY <2>1, <2>3, <2>4, <2>6
    <2> QED
        BY <2>5, <2>6
<1>8. \A i, j \in 1 .. Len(r) : i <= j => r[i].at <= r[j].at
    <2> SUFFICES ASSUME NEW i \in 1 .. Len(r), NEW j \in 1 .. Len(r), i <= j
                 PROVE  r[i].at <= r[j].at
        OBVIOUS
    <2>1. CASE j = 1
        <3>1. i = 1
            BY <1>2, <2>1
        <3> QED
            BY <1>2, <1>5, <2>1, <3>1
    <2>2. CASE i = 1 /\ j # 1
        <3> DEFINE m == j + d
                   next == k + 1
        <3>1. j \in 2 .. Len(r)
            BY <1>3, <2>2
        <3>2. /\ r[j] = q[m] /\ m \in 1 .. Len(q) /\ next \in 2 .. Len(q) /\ next <= m
              /\ next \in 1 .. Len(q) /\ next - 1 = k
            BY <1>2, <1>3, <3>1
        <3> HIDE DEF m, next
        <3>3. q[next].at = q[k].at + Units(s, q[k])
            BY <3>2 DEF InSequence
        <3>4. q[next].at <= q[m].at
            BY <3>2 DEF InSequence
        <3>5. q[m].at \in Nat /\ q[next].at \in Nat
            BY <1>4, <3>2
        <3>6. f.at <= q[next].at
            BY <1>5, <3>3, <3>5
        <3>7. f.at <= q[m].at
            BY <1>5, <3>4, <3>5, <3>6
        <3> QED
            BY <1>2, <2>2, <3>2, <3>7
    <2>3. CASE i # 1 /\ j # 1
        <3>1. /\ r[i] = q[i + d] /\ r[j] = q[j + d] /\ i + d <= j + d
              /\ i + d \in 1 .. Len(q) /\ j + d \in 1 .. Len(q)
            <4>1. i \in 2 .. Len(r) /\ j \in 2 .. Len(r)
                BY <1>3, <2>3
            <4>2. i + d \in 1 .. Len(q) /\ j + d \in 1 .. Len(q) /\ i + d <= j + d
                BY <1>3, <4>1
            <4> QED
                BY <1>2, <4>1, <4>2
        <3> DEFINE a == i + d
                   b == j + d
        <3>2. a \in 1 .. Len(q) /\ b \in 1 .. Len(q) /\ a <= b /\ r[i] = q[a] /\ r[j] = q[b]
            BY <3>1
        <3> HIDE DEF a, b
        <3> QED
            BY <3>2 DEF InSequence
    <2> QED
        BY <1>2, <2>1, <2>2, <2>3
<1> QED
    BY <1>2, <1>6, <1>7, <1>8 DEF InSequence, r, t

LEMMA TailInSequence ==
    ASSUME NEW s \in Streams, NEW q \in Seq(Frame), q # <<>>, NEW given, NEW n,
           InSequence(s, q, given, n)
    PROVE  InSequence(s, Tail(q), given + Units(s, q[1]), n)
<1> DEFINE r == Tail(q)
<1>1. /\ Len(q) \in Nat \ {0} /\ Len(r) = Len(q) - 1 /\ r \in Seq(Frame)
      /\ \A i \in 1 .. Len(r) : r[i] = q[i + 1]
    OBVIOUS
<1> HIDE DEF r
<1>2. CASE Len(q) = 1
    <2>1. r = <<>> /\ Len(r) = 0
        BY <1>1, <1>2
    <2>2. given + Units(s, q[1]) = n
        BY <1>2 DEF InSequence
    <2> QED
        BY <2>1, <2>2 DEF InSequence, r
<1>3. CASE Len(q) # 1
    <2>1. r # <<>> /\ r[1] = q[2] /\ r[Len(r)] = q[Len(q)]
        BY <1>1, <1>3
    <2>2. r[1].at = given + Units(s, q[1])
        <3>1. 2 \in 2 .. Len(q) /\ 2 - 1 = 1
            BY <1>1, <1>3
        <3> QED
            BY <2>1, <3>1 DEF InSequence
    <2>3. \A i \in 2 .. Len(r) : r[i].at = r[i - 1].at + Units(s, r[i - 1])
        <3> SUFFICES ASSUME NEW i \in 2 .. Len(r)
                     PROVE  r[i].at = r[i - 1].at + Units(s, r[i - 1])
            OBVIOUS
        <3>1. i + 1 \in 2 .. Len(q) /\ r[i] = q[i + 1] /\ r[i - 1] = q[i] /\ i + 1 - 1 = i
            BY <1>1
        <3> QED
            BY <3>1 DEF InSequence
    <2>4. \A i, j \in 1 .. Len(r) : i <= j => r[i].at <= r[j].at
        <3> SUFFICES ASSUME NEW i \in 1 .. Len(r), NEW j \in 1 .. Len(r), i <= j
                     PROVE  r[i].at <= r[j].at
            OBVIOUS
        <3>1. /\ i + 1 \in 1 .. Len(q) /\ j + 1 \in 1 .. Len(q) /\ i + 1 <= j + 1
              /\ r[i] = q[i + 1] /\ r[j] = q[j + 1]
            BY <1>1
        <3> QED
            BY <3>1 DEF InSequence
    <2>5. r[Len(r)].at + Units(s, r[Len(r)]) = n
        BY <2>1 DEF InSequence
    <2> QED
        BY <2>1, <2>2, <2>3, <2>4, <2>5 DEF InSequence, r
<1> QED
    BY <1>1, <1>2, <1>3

\* m samples, of the frames that are there, are taken off the front.
LEMMA WithoutInSequence ==
    ASSUME NEW s \in Streams, FrameSamples[s] # 0, NEW q \in Seq(Frame), q # <<>>,
           NEW given \in Int, NEW n \in Nat, InSequence(s, q, given, n),
           NEW m \in Nat, m <= n - q[1].at
    PROVE  InSequence(s, Without(q, m), given + m, n)
<1> DEFINE kept == {i \in 1 .. Len(q) : q[i].at + q[i].len > q[1].at + m}
           k == CHOOSE i \in kept : \A j \in kept : i <= j
           cut == IF q[1].at + m > q[k].at THEN q[1].at + m - q[k].at ELSE 0
           f == [pts |-> q[k].pts + cut, len |-> q[k].len - cut, at |-> q[k].at + cut]
<1>1. Len(q) \in Nat \ {0} /\ 1 \in 1 .. Len(q) /\ Len(q) \in 1 .. Len(q)
    OBVIOUS
<1>2. \A i \in 1 .. Len(q) : /\ q[i] \in Frame /\ q[i].at \in Nat /\ q[i].len \in Nat
                             /\ Units(s, q[i]) = q[i].len
    BY UnitsType DEF Units
<1>3. q[1].at = given /\ q[Len(q)].at + q[Len(q)].len = n
    BY <1>1, <1>2 DEF InSequence
<1>4. CASE kept = {}
    <2>1. Without(q, m) = <<>>
        BY <1>4, Zenon DEF Without
    <2>2. ~(q[Len(q)].at + q[Len(q)].len > q[1].at + m)
        BY <1>1, <1>4
    <2>3. given + m = n
        BY <1>1, <1>2, <1>3, <2>2
    <2> QED
        BY <2>1, <2>3 DEF InSequence
<1>5. CASE kept # {}
    <2>1. Without(q, m) = <<f>> \o SubSeq(q, k + 1, Len(q))
        BY <1>5 DEF Without
    <2>2. k \in kept /\ \A j \in kept : k <= j
        <3> HIDE DEF kept
        <3>1. kept \in SUBSET Nat
            BY DEF kept
        <3> QED
            BY <1>5, <3>1, SmallestIndex
    <2> HIDE DEF k
    <2>3. k \in 1 .. Len(q) /\ q[k].at + q[k].len > q[1].at + m
        BY <2>2
    <2>4. q[1].at + m >= q[k].at
        <3>1. CASE k = 1
            BY <1>1, <1>2, <3>1
        <3>2. CASE k # 1
            <4>1. k - 1 \in 1 .. Len(q) /\ k \in 2 .. Len(q)
                BY <1>1, <2>3, <3>2
            <4>2. k - 1 \notin kept
                BY <2>2, <4>1
            <4>3. ~(q[k - 1].at + q[k - 1].len > q[1].at + m)
                BY <4>1, <4>2
            <4>4. q[k].at = q[k - 1].at + q[k - 1].len
                BY <1>2, <4>1 DEF InSequence
            <4> QED
                BY <1>1, <1>2, <2>3, <4>1, <4>3, <4>4
        <3> QED
            BY <3>1, <3>2
    <2> HIDE DEF kept
    <2>5. q[k].at \in Nat /\ q[k].len \in Nat /\ q[1].at \in Nat /\ q[k] \in Frame
        BY <1>1, <1>2, <2>3
    <2>6. cut = q[1].at + m - q[k].at
        <3>1. CASE q[1].at + m > q[k].at
            BY <3>1
        <3>2. CASE ~(q[1].at + m > q[k].at)
            <4>1. \A a, b \in Nat : a + m >= b /\ ~(a + m > b) => 0 = a + m - b
                OBVIOUS
            <4>2. 0 = q[1].at + m - q[k].at
                BY <2>4, <2>5, <3>2, <4>1
            <4> QED
                BY <3>2, <4>2
        <3> QED
            BY <3>1, <3>2
    <2> HIDE DEF cut
    <2>7. cut \in Nat /\ q[k].len - cut \in Nat /\ q[k].at + cut = given + m
        <3>1. \A a, b, l \in Nat : a + m >= b /\ b + l > a + m =>
                a + m - b \in Nat /\ l - (a + m - b) \in Nat /\ b + (a + m - b) = a + m
            OBVIOUS
        <3> QED
            BY <1>3, <2>3, <2>4, <2>5, <2>6, <3>1
    <2>8. Without(q, m) \in Seq(Frame)
        BY WithoutType
    <2>9. f \in Frame
        <3>1. SubSeq(q, k + 1, Len(q)) \in Seq(Frame)
            BY <1>1, <2>3
        <3>2. Without(q, m)[1] = f /\ Len(Without(q, m)) >= 1
            BY <2>1, <3>1
        <3> QED
            BY <2>8, <3>2
    <2>10. /\ f.at = given + m /\ q[k].at <= f.at
           /\ f.at + Units(s, f) = q[k].at + Units(s, q[k])
        <3>1. f.at = q[k].at + cut /\ f.len = q[k].len - cut /\ Units(s, f) = f.len
            BY DEF Units
        <3>2. Units(s, q[k]) = q[k].len
            BY <1>2, <2>3
        <3> DEFINE a == q[k].at
                   l == q[k].len
        <3>3. a <= a + cut /\ a + cut + (l - cut) = a + l
            <4>1. a \in Nat /\ l \in Nat /\ cut \in Nat
                BY <2>5, <2>7
            <4> HIDE DEF a, l
            <4> QED
                BY <4>1
        <3> HIDE DEF f
        <3>4. f.at + Units(s, f) = q[k].at + cut + (q[k].len - cut)
            BY <3>1
        <3> QED
            BY <2>7, <3>1, <3>2, <3>3, <3>4
    <2> HIDE DEF f
    <2>11. InSequence(s, <<f>> \o SubSeq(q, k + 1, Len(q)), f.at, n)
        BY <2>3, <2>9, <2>10, RestInSequence
    <2> QED
        BY <2>1, <2>10, <2>11
<1> QED
    BY <1>4, <1>5

\* NbSamples() is what is there: it neither runs past what was sent nor back.
LEMMA NbSamplesBounded ==
    ASSUME TypeOK, NEW s \in Streams, FrameSamples[s] # 0, Ready(s),
           InSequence(s, fifo[s], out[s], sent[s])
    PROVE  NbSamples(s) \in Nat /\ NbSamples(s) <= sent[s] - fifo[s][1].at
<1> DEFINE q == fifo[s]
<1>1. /\ q \in Seq(Frame) /\ q # <<>> /\ Len(q) \in Nat \ {0}
      /\ 1 \in 1 .. Len(q) /\ Len(q) \in 1 .. Len(q) /\ Head(q) = q[1]
    <2>1. q \in Seq(Frame) /\ q # <<>>
        BY DEF TypeOK, Ready
    <2> HIDE DEF q
    <2> QED
        BY <2>1
<1>2. q[1].at \in Nat /\ q[Len(q)].at \in Nat /\ Units(s, q[Len(q)]) \in Nat
    <2>1. q[1] \in Frame /\ q[Len(q)] \in Frame
        <3> HIDE DEF q
        <3> QED
            BY <1>1
    <2> QED
        BY <2>1, UnitsType
<1>3. q[1].at <= q[Len(q)].at /\ q[Len(q)].at + Units(s, q[Len(q)]) = sent[s]
    BY <1>1 DEF InSequence
<1>4. SamplesQueued(s) = sent[s] - q[1].at
    BY <1>1 DEF SamplesQueued
<1>5. SamplesQueued(s) \in Nat
    BY <1>2, <1>3, <1>4
<1>6. FrameSamples[s] \in Nat
    BY ConstantTypes
<1>7. FrameSamples[s] <= SamplesQueued(s) \/ s \in sq.finished
    BY DEF Ready
<1> HIDE DEF q
<1>8. NbSamples(s) \in Nat /\ NbSamples(s) <= SamplesQueued(s)
    BY <1>5, <1>6, <1>7 DEF NbSamples
<1> QED
    BY <1>4, <1>8 DEF q

LEMMA SequenceStep ==
    ASSUME TypeOK, AllInSequence, [Next]_vars
    PROVE  AllInSequence'
<1> SUFFICES ASSUME NEW t \in Streams
             PROVE  InSequence(t, fifo'[t], out'[t], sent'[t])
    BY DEF AllInSequence, InSequence, Units
<1>1. InSequence(t, fifo[t], out[t], sent[t])
    BY DEF AllInSequence
<1>2. /\ fifo[t] \in Seq(Frame) /\ sent[t] \in Nat /\ out[t] \in Int
      /\ fifo \in [Streams -> Seq(Frame)] /\ sent \in [Streams -> Nat]
      /\ out \in [Streams -> Int]
    BY DEF TypeOK
<1>3. ASSUME NEW s \in Streams, SendFrame(s)
      PROVE  InSequence(t, fifo'[t], out'[t], sent'[t])
    <2>1. PICK f \in NextFrames(s) :
             /\ fifo' = [fifo EXCEPT ![s] = Append(@, f)]
             /\ sent' = [sent EXCEPT ![s] = sent[s] + Units(s, f)]
        BY <1>3, Zenon DEF SendFrame
    <2>2. f \in Frame /\ f.at = sent[s] /\ out' = out
        BY <1>3, NextFramesType DEF SendFrame, NextFrames
    <2>3. CASE t = s
        <3>1. fifo'[t] = Append(fifo[t], f) /\ sent'[t] = sent[t] + Units(t, f)
            BY <1>2, <2>1, <2>3
        <3> QED
            BY <1>1, <1>2, <2>2, <2>3, <3>1, AppendInSequence
    <2>4. CASE t # s
        BY <1>1, <1>2, <2>1, <2>2, <2>4
    <2> QED
        BY <2>3, <2>4
<1>4. ASSUME NEW s \in Streams, Receive(s)
      PROVE  InSequence(t, fifo'[t], out'[t], sent'[t])
    <2> DEFINE rest == IF FrameSamples[s] = 0 THEN Tail(fifo[s])
                       ELSE Without(fifo[s], NbSamples(s))
               units == out[s] + (IF FrameSamples[s] = 0 THEN 1 ELSE NbSamples(s))
    <2>1. /\ fifo' = [fifo EXCEPT ![s] = rest] /\ sent' = sent
          /\ out' = [out EXCEPT ![s] = units]
          /\ Ready(s) /\ fifo[s] # <<>>
        BY <1>4 DEF Receive, Ready
    <2>2. CASE t = s
        <3>1. fifo'[t] = rest /\ out'[t] = units
            BY <1>2, <2>1, <2>2
        <3>2. fifo[t][1].at = out[t]
            BY <1>1, <2>1, <2>2 DEF InSequence
        <3>3. CASE FrameSamples[s] = 0
            <4>1. rest = Tail(fifo[t]) /\ units = out[t] + 1 /\ Units(t, fifo[t][1]) = 1
                BY <2>2, <3>3 DEF Units
            <4>2. InSequence(t, Tail(fifo[t]), out[t] + 1, sent[t])
                BY <1>1, <1>2, <2>1, <2>2, <4>1, TailInSequence
            <4> QED
                BY <2>1, <3>1, <4>1, <4>2
        <3>4. CASE FrameSamples[s] # 0
            <4>1. rest = Without(fifo[t], NbSamples(t)) /\ units = out[t] + NbSamples(t)
                BY <2>2, <3>4
            <4>2. NbSamples(t) \in Nat /\ NbSamples(t) <= sent[t] - fifo[t][1].at
                BY <1>1, <2>1, <2>2, <3>4, NbSamplesBounded
            <4>3. InSequence(t, Without(fifo[t], NbSamples(t)), out[t] + NbSamples(t), sent[t])
                BY <1>1, <1>2, <2>1, <2>2, <3>4, <4>2, WithoutInSequence
            <4> QED
                BY <2>1, <3>1, <4>1, <4>3
        <3> QED
            BY <3>3, <3>4
    <2>3. CASE t # s
        BY <1>1, <1>2, <2>1, <2>3
    <2> QED
        BY <2>2, <2>3
<1>5. ASSUME fifo' = fifo, sent' = sent, out' = out
      PROVE  InSequence(t, fifo'[t], out'[t], sent'[t])
    BY <1>1, <1>5
<1> QED
    BY <1>3, <1>4, <1>5 DEF Next, vars, SendRefused, SendEnd, HangUp, OverflowStart,
                            ReceiveEof, ReceiveAgain, Heartbeat

\* Nothing sent is lost, repeated or reordered, however audio is cut.
THEOREM FramesStayInOrder == Spec => []InOrder
<1>1. Init => AllInSequence
    BY DEF Init, AllInSequence, InSequence
<1>2. TypeOK /\ AllInSequence /\ [Next]_vars => AllInSequence'
    BY SequenceStep
<1>3. TypeOK /\ AllInSequence => InOrder
    <2> SUFFICES ASSUME TypeOK, AllInSequence, NEW s \in Streams
                 PROVE  IF fifo[s] = <<>> THEN out[s] = sent[s]
                        ELSE /\ Head(fifo[s]).at = out[s]
                             /\ \A i \in 2 .. Len(fifo[s]) :
                                   fifo[s][i].at = fifo[s][i - 1].at + Units(s, fifo[s][i - 1])
        BY DEF InOrder
    <2>1. InSequence(s, fifo[s], out[s], sent[s])
        BY DEF AllInSequence
    <2>2. fifo[s] \in Seq(Frame) /\ (fifo[s] # <<>> => Head(fifo[s]) = fifo[s][1])
        BY DEF TypeOK
    <2> QED
        BY <2>1, <2>2 DEF InSequence
<1> QED
    BY <1>1, <1>2, <1>3, TypeCorrect, PTL DEF Spec

(***************************************************************************)
(* Buffering.  A heartbeat gets every stream that still runs as far as the  *)
(* frame that is held back, and with them the head of the queue, so that    *)
(* the frame comes out: the head is known once every limiting stream has a  *)
(* timestamp, and one that ended further back has ended them all.           *)
(***************************************************************************)

HeadKnown(q) == Limiting # {} /\ Limiting \subseteq Timed(q) => q.head_stream >= 0

EndIsFirst(q) ==
    \A l \in Limiting \cap q.finished \cap Timed(q) :
        /\ q.head_finished_stream >= 0
        /\ q.head_ts[q.head_finished_stream] <= q.head_ts[l]

Found(q) == HeadKnown(q) /\ EndIsFirst(q)

\* from was most ahead and held too much; the streams before n have got to ts.
Reached(from, ts, n) ==
    /\ from \in Timed(sq)
    /\ TailTs(from) \in Nat /\ ts = TailTs(from) + 1 /\ ts <= sq.head_ts[from]
    /\ \A t \in Timed(sq) :
          /\ sq.head_ts[t] <= sq.head_ts[from]
          /\ t < from /\ sq.head_ts[t] = sq.head_ts[from] => sq.head_ts[t] = ts
    /\ \A t \in Streams :
          t < n => t \in sq.finished \/ (t \in Timed(sq) /\ ts <= sq.head_ts[t])

Heartbeats ==
    /\ At("heartbeat") => Reached(caller.from, caller.ts, caller.next)
    /\ At("retry") => \E from \in Streams, ts \in Nat : Reached(from, ts, NbStreams)

Buffered == Found(sq) /\ Heartbeats /\ Bounded

LEMMA FinishFound ==
    ASSUME NEW q \in QueueType, EndHolds(q), Found(q), NEW s \in Streams
    PROVE  Found(finish_stream(q, s))
<1> DEFINE p == finish_stream(q, s)
           first == IF \/ q.head_finished_stream < 0
                       \/ q.head_ts[s] < q.head_ts[q.head_finished_stream]
                      THEN s ELSE q.head_finished_stream
           ahead == {t \in Timed(q) : q.head_ts[first] <= q.head_ts[t]}
<1>1. \A t \in Timed(q) : q.head_ts[t] \in Nat
    BY DEF Timed, QueueType, Time
<1>2. p.head_ts = q.head_ts /\ p.head_stream = q.head_stream
    BY FinishStream
<1>3. Timed(p) = Timed(q)
    BY <1>2 DEF Timed
<1>4. HeadKnown(p)
    BY <1>2, <1>3 DEF Found, HeadKnown
<1>5. CASE s \in Limiting \cap Timed(q)
    <2>1. p.finished = q.finished \cup {s} \cup ahead /\ p.head_finished_stream = first
        <3>1. p = [q EXCEPT !.finished = @ \cup {s} \cup ahead, !.head_finished_stream = first]
            BY <1>5 DEF finish_stream
        <3> HIDE DEF ahead, first
        <3> QED
            BY <3>1 DEF QueueType
    <2>2. first \in Limiting /\ first \in Timed(q)
        BY <1>5, HeadTypes DEF EndHolds
    <2>3. first >= 0
        <3>1. first \in Nat
            BY <2>2, ConstantTypes, Zenon
        <3> HIDE DEF first
        <3> QED
            BY <3>1
    <2>4. q.head_ts[first] <= q.head_ts[s]
        <3>1. q.head_finished_stream >= 0 => q.head_finished_stream \in Timed(q)
            BY DEF EndHolds
        <3>2. q.head_ts[s] \in Nat
            BY <1>1, <1>5
        <3> QED
            BY <1>1, <3>1, <3>2, HeadTypes
    <2>5. q.head_finished_stream >= 0 =>
            q.head_ts[first] <= q.head_ts[q.head_finished_stream]
        BY <1>1, <1>5, HeadTypes DEF EndHolds
    <2>6. \A l \in Limiting \cap q.finished \cap Timed(q) : q.head_ts[first] <= q.head_ts[l]
        <3> HIDE DEF first
        <3> SUFFICES ASSUME NEW l \in Limiting \cap q.finished \cap Timed(q)
                     PROVE  q.head_ts[first] <= q.head_ts[l]
            OBVIOUS
        <3>1. /\ q.head_finished_stream >= 0
              /\ q.head_ts[q.head_finished_stream] <= q.head_ts[l]
            BY DEF Found, EndIsFirst
        <3>2. q.head_finished_stream \in Timed(q)
            BY <3>1 DEF EndHolds
        <3>3. /\ q.head_ts[first] \in Nat /\ q.head_ts[l] \in Nat
              /\ q.head_ts[q.head_finished_stream] \in Nat
            BY <1>1, <2>2, <3>2
        <3> QED
            BY <2>5, <3>1, <3>3
    <2>7. EndIsFirst(p)
        <3> HIDE DEF first, p
        <3> QED
            BY <1>2, <1>3, <2>1, <2>3, <2>4, <2>6 DEF EndIsFirst
    <2> QED
        BY <1>4, <2>7 DEF Found
<1>6. CASE s \notin Limiting \cap Timed(q)
    <2>1. p.finished = q.finished \cup {s} /\ p.head_finished_stream = q.head_finished_stream
        <3>1. p = [q EXCEPT !.finished = @ \cup {s}]
            BY <1>6 DEF finish_stream
        <3> QED
            BY <3>1 DEF QueueType
    <2>2. EndIsFirst(p)
        <3> HIDE DEF p
        <3> QED
            BY <1>2, <1>3, <1>6, <2>1 DEF Found, EndIsFirst
    <2> QED
        BY <1>4, <2>2 DEF Found
<1> QED
    BY <1>5, <1>6

LEMMA HeadUpdateKnown ==
    ASSUME NEW q \in QueueType
    PROVE  HeadKnown(queue_head_update(q))
<1> DEFINE p == queue_head_update(q)
           timed == Limiting \cap Timed(q)
           behind == {s \in timed : \A t \in timed : q.head_ts[s] <= q.head_ts[t]}
           h == CHOOSE s \in behind : \A t \in behind : s <= t
<1> SUFFICES ASSUME Limiting # {}, Limiting \subseteq Timed(p)
             PROVE  p.head_stream >= 0
    BY DEF HeadKnown
<1>1. p = q \/ p = [q EXCEPT !.head_stream = h]
    BY DEF queue_head_update
<1>2. Timed(p) = Timed(q)
    <2>1. p.head_ts = q.head_ts
        <3> HIDE DEF h
        <3> QED
            BY <1>1 DEF QueueType
    <2> QED
        BY <2>1 DEF Timed
<1>3. timed = Limiting /\ behind \subseteq Nat
    BY <1>2, ConstantTypes
<1>4. CASE q.head_stream \in behind
    <2>1. p = q
        BY <1>2, <1>4 DEF queue_head_update
    <2> QED
        BY <1>3, <1>4, <2>1
<1>5. CASE q.head_stream \notin behind
    <2>1. p = [q EXCEPT !.head_stream = h]
        BY <1>2, <1>5 DEF queue_head_update
    <2>2. behind # {}
        BY <1>2, <1>3, SomeoneIsBehind
    <2>3. h \in behind
        <3> HIDE DEF behind
        <3> QED
            BY <1>3, <2>2, SmallestIndex
    <2> HIDE DEF h
    <2>4. p.head_stream = h
        BY <2>1 DEF QueueType
    <2> QED
        BY <1>3, <2>3, <2>4
<1> QED
    BY <1>4, <1>5

\* A stream that has not ended gets to ts, unless it is there, and no other moves.
LEMMA UpdateFound ==
    ASSUME NEW q \in QueueType, HeadIsBehind(q), EndHolds(q), Found(q),
           NEW s \in Streams \ q.finished, NEW ts \in Time
    PROVE  LET p == stream_update_ts(q, s, ts) IN
           /\ Found(p)
           /\ \/ p = q
              \/ /\ ts # NOPTS
                 /\ p.head_ts = [q.head_ts EXCEPT ![s] = ts]
           /\ ts # NOPTS /\ (q.head_ts[s] = NOPTS \/ ts > q.head_ts[s]) =>
                p.head_ts = [q.head_ts EXCEPT ![s] = ts]
<1> DEFINE moved == [q EXCEPT !.head_ts[s] = ts]
           late == /\ q.head_finished_stream >= 0
                   /\ moved.head_ts[q.head_finished_stream] <= ts
           over == IF late THEN finish_stream(moved, s) ELSE moved
           p == stream_update_ts(q, s, ts)
<1>1. CASE ts = NOPTS \/ (q.head_ts[s] # NOPTS /\ q.head_ts[s] >= ts)
    <2>1. p = q
        BY <1>1 DEF stream_update_ts
    <2>2. ~(ts # NOPTS /\ (q.head_ts[s] = NOPTS \/ ts > q.head_ts[s]))
        BY <1>1 DEF QueueType, Time
    <2> QED
        BY <2>1, <2>2
<1>2. CASE ~(ts = NOPTS \/ (q.head_ts[s] # NOPTS /\ q.head_ts[s] >= ts))
    <2>1. ts \in Nat /\ ts # NOPTS
        BY <1>2 DEF Time
    <2>2. /\ moved \in QueueType
          /\ moved.finished = q.finished /\ moved.head_stream = q.head_stream
          /\ moved.head_finished_stream = q.head_finished_stream
          /\ moved.head_ts = [q.head_ts EXCEPT ![s] = ts]
        BY DEF QueueType
    <2>3. Timed(moved) = Timed(q) \cup {s}
        BY <2>1, <2>2 DEF Timed, QueueType
    <2>4. \A t \in Timed(q) \ {s} : moved.head_ts[t] = q.head_ts[t]
        BY <2>2 DEF QueueType, Timed
    <2>5. p = IF s \in Limiting /\ (q.head_stream < 0 \/ q.head_stream = s)
                THEN queue_head_update(over) ELSE over
        BY <1>2 DEF stream_update_ts
    <2>6. EndIsFirst(moved)
        <3> SUFFICES ASSUME NEW l \in Limiting \cap q.finished \cap Timed(moved)
                     PROVE  /\ q.head_finished_stream >= 0
                            /\ moved.head_ts[q.head_finished_stream] <= moved.head_ts[l]
            BY <2>2 DEF EndIsFirst
        <3>1. l # s /\ l \in Timed(q)
            BY <2>3
        <3>2. /\ q.head_finished_stream >= 0
              /\ q.head_ts[q.head_finished_stream] <= q.head_ts[l]
            BY <3>1 DEF Found, EndIsFirst
        <3>3. q.head_finished_stream \in Timed(q) \ {s}
            BY <3>2 DEF EndHolds
        <3> QED
            BY <2>4, <3>1, <3>2, <3>3
    <2> HIDE DEF moved
    <2>7. /\ over \in QueueType
          /\ over.head_ts = moved.head_ts /\ over.head_stream = q.head_stream
          /\ EndIsFirst(over)
        <3>1. CASE late
            <4>1. over = finish_stream(moved, s)
                BY <3>1
            <4>2. q.head_finished_stream >= 0 /\ moved.head_ts[q.head_finished_stream] <= ts
                BY <3>1
            <4> DEFINE e == q.head_finished_stream
            <4>3. e \in Timed(q) \cap q.finished /\ e # s /\ e \in Timed(moved)
                BY <2>3, <4>2 DEF EndHolds
            <4>4. CASE s \in Limiting
                <5> DEFINE ahead == {t \in Timed(moved) : moved.head_ts[e] <= moved.head_ts[t]}
                <5>1. ~(moved.head_finished_stream < 0) /\ ~(moved.head_ts[s] < moved.head_ts[e])
                    <6>1. moved.head_ts[s] = ts /\ moved.head_ts[e] \in Nat
                        BY <2>2, <4>3 DEF QueueType, Timed, Time
                    <6> QED
                        BY <2>1, <2>2, <4>2, <6>1, HeadTypes
                <5>2. over = [moved EXCEPT !.finished = @ \cup {s} \cup ahead,
                                           !.head_finished_stream = e]
                    BY <2>2, <2>3, <4>1, <4>4, <5>1 DEF finish_stream
                <5>3. /\ over.head_ts = moved.head_ts /\ over.head_stream = moved.head_stream
                      /\ over.head_finished_stream = e
                      /\ over.finished = q.finished \cup {s} \cup ahead
                      /\ over \in QueueType
                    BY <2>2, <5>2 DEF QueueType, Timed
                <5>4. Timed(over) = Timed(moved)
                    BY <5>3 DEF Timed
                <5>5. moved.head_ts[s] = ts
                    BY <2>2 DEF QueueType
                <5> QED
                    BY <2>2, <2>6, <4>2, <5>3, <5>4, <5>5 DEF EndIsFirst
            <4>5. CASE s \notin Limiting
                <5>1. over = [moved EXCEPT !.finished = @ \cup {s}]
                    BY <4>1, <4>5 DEF finish_stream
                <5>2. /\ over.head_ts = moved.head_ts /\ over.head_stream = moved.head_stream
                      /\ over.head_finished_stream = moved.head_finished_stream
                      /\ over.finished = moved.finished \cup {s}
                      /\ over \in QueueType
                    BY <2>2, <5>1 DEF QueueType
                <5>3. Timed(over) = Timed(moved)
                    BY <5>2 DEF Timed
                <5> QED
                    BY <2>2, <2>6, <4>5, <5>2, <5>3 DEF EndIsFirst
            <4> QED
                BY <4>4, <4>5
        <3>2. CASE ~late
            BY <2>2, <2>6, <3>2
        <3> QED
            BY <3>1, <3>2
    <2> HIDE DEF over
    <2>8. Timed(over) = Timed(q) \cup {s}
        BY <2>3, <2>7 DEF Timed
    <2>9. CASE s \in Limiting /\ (q.head_stream < 0 \/ q.head_stream = s)
        <3>1. p = queue_head_update(over)
            BY <2>5, <2>9
        <3>2. over.head_stream >= 0 => Limiting \subseteq Timed(over)
            BY <2>7, <2>8 DEF HeadIsBehind
        <3>3. /\ p.head_ts = over.head_ts /\ p.finished = over.finished
              /\ p.head_finished_stream = over.head_finished_stream
            BY <2>7, <2>9, <3>1, <3>2, HeadUpdate
        <3>4. HeadKnown(p)
            BY <2>7, <3>1, HeadUpdateKnown
        <3>5. Timed(p) = Timed(over)
            BY <3>3 DEF Timed
        <3>6. EndIsFirst(p)
            BY <2>7, <3>3, <3>5 DEF EndIsFirst
        <3> QED
            BY <2>1, <2>2, <2>7, <3>3, <3>4, <3>6 DEF Found
    <2>10. CASE ~(s \in Limiting /\ (q.head_stream < 0 \/ q.head_stream = s))
        <3>1. p = over
            BY <2>5, <2>10
        <3>2. HeadKnown(over)
            <4> SUFFICES ASSUME Limiting # {}, Limiting \subseteq Timed(over), q.head_stream < 0
                         PROVE  FALSE
                BY <2>7, HeadTypes DEF HeadKnown
            <4>1. s \notin Limiting
                BY <2>10
            <4>2. Limiting \subseteq Timed(q)
                BY <2>8, <4>1
            <4> QED
                BY <4>2, HeadTypes DEF Found, HeadKnown
        <3> QED
            BY <2>1, <2>2, <2>7, <3>1, <3>2 DEF Found
    <2> QED
        BY <2>9, <2>10
<1> QED
    BY <1>1, <1>2

LEMMA InitBuffered == Init => Buffered
<1> SUFFICES ASSUME Init PROVE Buffered
    OBVIOUS
<1>1. /\ sq.head_ts = [s \in Streams |-> NOPTS] /\ sq.finished = {}
      /\ caller.pc = "idle"
    BY DEF Init, Idle
<1>2. Timed(sq) = {}
    BY <1>1 DEF Timed
<1>3. Found(sq)
    BY <1>1, <1>2 DEF Found, HeadKnown, EndIsFirst
<1>4. Heartbeats
    BY <1>1 DEF Heartbeats, At
<1>5. Bounded
    BY <1>2 DEF Bounded, Overflows
<1> QED
    BY <1>3, <1>4, <1>5 DEF Buffered

LEMMA FoundStep ==
    ASSUME HeadsAndEnds, Found(sq), [Next]_vars
    PROVE  Found(sq')
<1>1. sq \in QueueType /\ HeadIsBehind(sq) /\ EndHolds(sq)
    BY QueueTypeOfSq DEF HeadsAndEnds
<1>2. ASSUME NEW s \in Streams, SendFrame(s)
      PROVE  Found(sq')
    <2>1. PICK f \in NextFrames(s) :
             sq' = IF FramesSent(s, sent[s] + Units(s, f)) >= FramesMax[s]
                     THEN finish_stream(stream_update_ts(sq, s, frame_end(f)), s)
                     ELSE stream_update_ts(sq, s, frame_end(f))
        BY <1>2, Zenon DEF SendFrame
    <2> DEFINE q == stream_update_ts(sq, s, frame_end(f))
    <2>2. frame_end(f) \in Time
        BY NextFramesType, FrameEnd DEF HeadsAndEnds
    <2>3. s \in Streams \ sq.finished
        BY <1>2 DEF SendFrame
    <2>4. Found(q)
        BY <1>1, <2>2, <2>3, UpdateFound
    <2>5. q \in QueueType /\ EndHolds(q)
        BY <1>1, <2>2, <2>3, GoodUpdate DEF Good
    <2> HIDE DEF q
    <2>6. Found(finish_stream(q, s))
        BY <2>4, <2>5, FinishFound
    <2> QED
        BY <2>1, <2>4, <2>6 DEF q
<1>3. ASSUME NEW s \in Streams, SendEnd(s) \/ Receive(s)
      PROVE  Found(sq')
    <2>1. sq' = finish_stream(sq, s) \/ sq' = sq
        BY <1>3, Zenon DEF SendEnd, Receive
    <2> QED
        BY <1>1, <2>1, FinishFound
<1>4. ASSUME Heartbeat
      PROVE  Found(sq')
    <2>1. caller.next \in Streams /\ caller.ts \in Time
        BY DEF HeadsAndEnds, TypeOK, Time
    <2>2. CASE Lags(caller.next)
        <3>1. sq' = stream_update_ts(sq, caller.next, caller.ts)
            BY <1>4, <2>2, Zenon DEF Heartbeat
        <3>2. caller.next \notin sq.finished
            BY <2>2 DEF Lags
        <3> QED
            BY <1>1, <2>1, <3>1, <3>2, UpdateFound
    <2>3. CASE ~Lags(caller.next)
        <3>1. sq' = sq
            BY <1>4, <2>3, Zenon DEF Heartbeat
        <3> QED
            BY <3>1
    <2> QED
        BY <2>2, <2>3
<1>5. ASSUME NEW s \in Streams, SendRefused(s) \/ HangUp(s) \/ OverflowStart(s)
      PROVE  Found(sq')
    <2>1. sq' = sq
        BY <1>5, Zenon DEF SendRefused, HangUp, OverflowStart
    <2> QED
        BY <2>1
<1>6. ASSUME ReceiveEof \/ ReceiveAgain \/ UNCHANGED vars
      PROVE  Found(sq')
    <2>1. sq' = sq
        BY <1>6, Zenon DEF ReceiveEof, ReceiveAgain, vars
    <2> QED
        BY <2>1
<1> QED
    BY <1>2, <1>3, <1>4, <1>5, <1>6 DEF Next

\* One stream's share of a heartbeat.
LEMMA ReachedStep ==
    ASSUME HeadsAndEnds, Found(sq), Heartbeat,
           Reached(caller.from, caller.ts, caller.next),
           NEW from, from = caller.from, NEW ts, ts = caller.ts, NEW n, n = caller.next
    PROVE  Reached(from, ts, n + 1)'
<1>1. /\ sq \in QueueType /\ HeadIsBehind(sq) /\ EndHolds(sq)
      /\ n \in Streams /\ n \in Nat /\ from \in Streams /\ ts \in Nat /\ ts # NOPTS
    BY QueueTypeOfSq, ConstantTypes DEF HeadsAndEnds, TypeOK
<1>2. fifo' = fifo /\ TailTs(from)' = TailTs(from)
    BY DEF Heartbeat, TailTs
<1>3. \A t \in Timed(sq) : sq.head_ts[t] \in Nat
    BY <1>1 DEF Timed, QueueType, Time
<1>4. sq.finished \subseteq sq'.finished
    BY HeadsStep DEF Good, Later, Next
<1>5. Reached(from, ts, n)
    OBVIOUS
<1>6. \A t \in Streams : t < n + 1 <=> t < n \/ t = n
    BY <1>1, ConstantTypes
<1>7. CASE Lags(n)
    <2>1. sq' = stream_update_ts(sq, n, ts)
        BY <1>7, Zenon DEF Heartbeat
    <2>2. n # from /\ n \notin sq.finished /\ (sq.head_ts[n] = NOPTS \/ ts > sq.head_ts[n])
        BY <1>7 DEF Lags
    <2>3. sq'.head_ts = [sq.head_ts EXCEPT ![n] = ts]
        <3>1. n \in Streams \ sq.finished /\ ts \in Time
            BY <1>1, <2>2 DEF Time
        <3> QED
            BY <1>1, <2>1, <2>2, <3>1, UpdateFound
    <2>4. /\ sq'.head_ts[n] = ts
          /\ \A t \in Streams \ {n} : sq'.head_ts[t] = sq.head_ts[t]
        BY <1>1, <2>3 DEF QueueType
    <2>5. Timed(sq') = Timed(sq) \cup {n}
        BY <1>1, <2>4 DEF Timed
    <2>6. /\ from \in Timed(sq) /\ sq'.head_ts[from] = sq.head_ts[from]
          /\ TailTs(from) \in Nat /\ ts = TailTs(from) + 1 /\ ts <= sq.head_ts[from]
        BY <1>5, <2>2, <2>4 DEF Reached, Timed
    <2>7. ASSUME NEW t \in Timed(sq')
          PROVE  /\ sq'.head_ts[t] <= sq'.head_ts[from]
                 /\ t < from /\ sq'.head_ts[t] = sq'.head_ts[from] => sq'.head_ts[t] = ts
        <3>1. CASE t = n
            BY <2>4, <2>6, <3>1
        <3>2. CASE t # n
            <4>1. t \in Timed(sq) /\ sq'.head_ts[t] = sq.head_ts[t]
                BY <2>4, <2>5, <2>7, <3>2 DEF Timed
            <4> QED
                BY <1>5, <2>6, <4>1 DEF Reached
        <3> QED
            BY <3>1, <3>2
    <2>8. ASSUME NEW t \in Streams, t < n + 1
          PROVE  t \in sq'.finished \/ (t \in Timed(sq') /\ ts <= sq'.head_ts[t])
        <3>1. CASE t = n
            BY <1>1, <2>4, <2>5, <3>1
        <3>2. CASE t # n
            BY <1>4, <1>5, <1>6, <2>4, <2>5, <2>8, <3>2 DEF Reached
        <3> QED
            BY <3>1, <3>2
    <2>9. Timed(sq)' = Timed(sq')
        BY DEF Timed
    <2> QED
        BY <1>2, <2>5, <2>6, <2>7, <2>8, <2>9 DEF Reached
<1>8. CASE ~Lags(n)
    <2>1. sq' = sq
        BY <1>8, Zenon DEF Heartbeat
    <2>2. n \in sq.finished \/ (n \in Timed(sq) /\ ts <= sq.head_ts[n])
        <3>1. CASE n = from
            BY <1>5, <3>1 DEF Reached
        <3>2. CASE n # from
            <4>1. n \in sq.finished \/ (sq.head_ts[n] # NOPTS /\ ~(ts > sq.head_ts[n]))
                BY <1>8, <3>2 DEF Lags
            <4>2. n \in sq.finished \/ n \in Timed(sq)
                BY <1>1, <4>1 DEF Timed
            <4> QED
                BY <1>1, <1>3, <4>1, <4>2
        <3> QED
            BY <3>1, <3>2
    <2>3. Timed(sq)' = Timed(sq)
        BY <2>1 DEF Timed
    <2> QED
        BY <1>2, <1>5, <1>6, <2>1, <2>2, <2>3 DEF Reached
<1> QED
    BY <1>7, <1>8

LEMMA HeartbeatsStep ==
    ASSUME HeadsAndEnds, Found(sq), Heartbeats, [Next]_vars
    PROVE  Heartbeats'
<1>1. ASSUME NEW s \in Streams, SendFrame(s) \/ SendEnd(s) \/ Receive(s)
      PROVE  Heartbeats'
    <2>1. caller'.pc = "receive"
        BY <1>1 DEF SendFrame, SendEnd, Receive, GoTo, Idle
    <2> QED
        BY <2>1 DEF Heartbeats, At
<1>2. ASSUME ReceiveEof \/ ReceiveAgain
      PROVE  Heartbeats'
    <2>1. caller'.pc = "idle"
        BY <1>2 DEF ReceiveEof, ReceiveAgain, GoTo, Idle
    <2> QED
        BY <2>1 DEF Heartbeats, At
<1>3. ASSUME NEW s \in Streams, SendRefused(s) \/ HangUp(s) \/ UNCHANGED vars
      PROVE  Heartbeats'
    <2>1. caller' = caller /\ sq' = sq /\ fifo' = fifo
        BY <1>3, Zenon DEF SendRefused, HangUp, vars
    <2>2. Timed(sq)' = Timed(sq) /\ \A t \in Streams : TailTs(t)' = TailTs(t)
        BY <2>1 DEF Timed, TailTs
    <2>3. ASSUME NEW from \in Streams, NEW ts, NEW n, Reached(from, ts, n)
          PROVE  Reached(from, ts, n)'
        BY <2>1, <2>2, <2>3 DEF Reached
    <2>4. ASSUME At("heartbeat")
          PROVE  Reached(caller.from, caller.ts, caller.next)'
        <3>1. caller.from \in Streams
            BY DEF HeadsAndEnds, TypeOK
        <3>2. TailTs(caller.from)' = TailTs(caller.from)
            BY <2>1 DEF TailTs
        <3> QED
            BY <2>1, <2>2, <2>4, <3>1, <3>2 DEF Heartbeats, Reached
    <2> QED
        BY <2>1, <2>3, <2>4 DEF Heartbeats, At
<1>4. ASSUME NEW s \in Streams, OverflowStart(s)
      PROVE  Heartbeats'
    <2>1. /\ caller' = [pc |-> "heartbeat", next |-> 0, ts |-> TailTs(s) + 1, from |-> s]
          /\ sq' = sq /\ fifo' = fifo /\ Overflows(s)
        BY <1>4 DEF OverflowStart
    <2>2. TailTs(s) \in Nat
        BY <2>1, TailTsType DEF HeadsAndEnds, Overflows, Time
    <2>3. \A t \in Timed(sq) : sq.head_ts[t] \in Nat
        BY QueueTypeOfSq DEF HeadsAndEnds, Timed, QueueType, Time
    <2>4. \A t \in Streams : ~(t < 0)
        BY ConstantTypes
    <2>5. s \in Timed(sq) /\ TailTs(s) + 1 <= sq.head_ts[s]
        BY <2>1, <2>2, <2>3 DEF Overflows
    <2>6. \A t \in Timed(sq) : /\ sq.head_ts[t] <= sq.head_ts[s]
                               /\ ~(t < s /\ sq.head_ts[t] = sq.head_ts[s])
        <3> SUFFICES ASSUME NEW t \in Timed(sq)
                     PROVE  /\ sq.head_ts[t] <= sq.head_ts[s]
                            /\ ~(t < s /\ sq.head_ts[t] = sq.head_ts[s])
            OBVIOUS
        <3>1. sq.head_ts[s] > sq.head_ts[t] \/ (sq.head_ts[s] = sq.head_ts[t] /\ s <= t)
            BY <2>1 DEF Overflows
        <3>2. t \in Nat /\ s \in Nat
            BY ConstantTypes DEF Timed
        <3> QED
            BY <2>3, <2>5, <3>1, <3>2
    <2>7. Reached(s, TailTs(s) + 1, 0)
        BY <2>2, <2>4, <2>5, <2>6 DEF Reached
    <2>8. /\ caller'.pc = "heartbeat" /\ caller'.from = s /\ caller'.next = 0
          /\ caller'.ts = TailTs(s) + 1
        BY <2>1
    <2>9. Timed(sq)' = Timed(sq) /\ TailTs(s)' = TailTs(s)
        BY <2>1 DEF Timed, TailTs
    <2>10. TailTs(caller.from)' = TailTs(s)
        BY <2>1, <2>8 DEF TailTs
    <2>11. Reached(caller.from, caller.ts, caller.next)'
        BY <2>1, <2>7, <2>8, <2>9, <2>10 DEF Reached
    <2> QED
        BY <2>8, <2>11 DEF Heartbeats, At
<1>5. ASSUME Heartbeat
      PROVE  Heartbeats'
    <2> DEFINE n == caller.next
               ts == caller.ts
               from == caller.from
    <2>1. /\ caller \in [pc : {"idle", "receive", "retry", "heartbeat"}, next : Streams,
                         ts : Nat, from : Streams]
          /\ At("heartbeat")
          /\ \/ n = NbStreams - 1 /\ caller' = [Idle EXCEPT !.pc = "retry"]
             \/ caller' = [caller EXCEPT !.next = n + 1]
        BY <1>5 DEF Heartbeat, HeadsAndEnds, TypeOK
    <2>2. Reached(from, ts, n)
        BY <2>1 DEF Heartbeats
    <2>3. PICK a, b, c : a = from /\ b = ts /\ c = n
        OBVIOUS
    <2>4. Reached(a, b, c + 1)'
        BY <1>5, <2>2, <2>3, ReachedStep
    <2>5. a \in Streams /\ b \in Nat
        BY <2>1, <2>3
    <2>6. CASE n = NbStreams - 1 /\ caller' = [Idle EXCEPT !.pc = "retry"]
        <3>1. caller'.pc = "retry"
            BY <2>6 DEF Idle
        <3>2. c + 1 = NbStreams
            BY <2>3, <2>6, SyncQueueAssumption DEF SyncQueueAssumption
        <3>3. Reached(a, b, NbStreams)'
            BY <2>4, <3>2
        <3> QED
            BY <2>5, <3>1, <3>3 DEF Heartbeats, At
    <2>7. CASE caller' = [caller EXCEPT !.next = n + 1]
        <3>1. caller'.pc = "heartbeat" /\ caller'.from = a /\ caller'.ts = b /\ caller'.next = c + 1
            BY <2>1, <2>3, <2>7 DEF At
        <3>2. TailTs(caller.from)' = TailTs(a)'
            BY <3>1 DEF TailTs
        <3>3. Reached(caller.from, caller.ts, caller.next)'
            BY <2>4, <3>1, <3>2 DEF Reached
        <3> QED
            BY <3>1, <3>3 DEF Heartbeats, At
    <2> QED
        BY <2>1, <2>6, <2>7
<1> QED
    BY <1>1, <1>2, <1>3, <1>4, <1>5, ConstantTypes DEF Next

\* After a heartbeat the stream most ahead gives its frame, unless it holds a fragment.
LEMMA HeartbeatReleases ==
    ASSUME HeadsAndEnds, Found(sq), NEW from \in Streams, NEW ts \in Nat,
           Reached(from, ts, NbStreams), ~Finished(sq), Limiting \cap sq.finished \subseteq Timed(sq),
           NEW s \in Streams, Overflows(s), ~Fragment(s)
    PROVE  Ready(s)
<1>1. sq \in QueueType /\ HeadIsBehind(sq) /\ EndHolds(sq)
    BY QueueTypeOfSq DEF HeadsAndEnds
<1>2. \A t \in Timed(sq) : sq.head_ts[t] \in Nat
    BY <1>1 DEF Timed, QueueType, Time
<1>3. /\ s \in Timed(sq) /\ TailTs(s) # NOPTS /\ TailTs(s) < sq.head_ts[s]
      /\ s \in Nat /\ from \in Nat
    BY ConstantTypes DEF Overflows
<1>4. TailTs(s) \in Nat
    BY <1>3, TailTsType DEF HeadsAndEnds, Time
<1>5. fifo[s] # <<>>
    <2>1. CASE fifo[s] = <<>>
        <3>1. {i \in 1 .. Len(fifo[s]) : frame_end(fifo[s][i]) # NOPTS} = {}
            BY <2>1
        <3>2. TailTs(s) = NOPTS
            BY <3>1, Zenon DEF TailTs
        <3> QED
            BY <1>3, <3>2
    <2> QED
        BY <2>1
<1>6. TailEnd(s) \in Int /\ TailEnd(s) <= TailTs(s) + 1
    BY <1>4, <1>5, SampleTypes DEF HeadsAndEnds, Fragment
<1>7. FrameSamples[s] <= SamplesQueued(s) \/ s \in sq.finished
    <2>1. FrameSamples[s] \in Nat /\ SamplesQueued(s) \in Int
        <3>1. sent[s] \in Nat /\ Head(fifo[s]) \in Frame
            BY <1>5, SampleTypes DEF HeadsAndEnds, TypeOK
        <3> QED
            BY <1>5, <3>1, ConstantTypes DEF SamplesQueued, Frame
    <2>2. ~(SamplesQueued(s) < NbSamples(s))
        BY DEF Fragment
    <2> QED
        BY <2>1, <2>2 DEF NbSamples
<1>8. TailTs(s) + 1 <= ts
    <2>1. /\ from \in Timed(sq) /\ ts = TailTs(from) + 1
          /\ sq.head_ts[s] <= sq.head_ts[from]
          /\ s < from /\ sq.head_ts[s] = sq.head_ts[from] => sq.head_ts[s] = ts
        BY <1>3 DEF Reached
    <2>2. /\ sq.head_ts[s] = sq.head_ts[from] /\ s <= from
        BY <1>2, <1>3, <2>1 DEF Overflows
    <2>3. CASE s = from
        BY <1>4, <2>1, <2>3
    <2>4. CASE s < from
        BY <1>2, <1>3, <1>4, <2>1, <2>2, <2>4
    <2> QED
        BY <1>3, <2>2, <2>3, <2>4
<1>9. \A t \in Streams : t \in sq.finished \/ (t \in Timed(sq) /\ ts <= sq.head_ts[t])
    BY SyncQueueAssumption DEF Reached, SyncQueueAssumption, Streams
<1>10. ASSUME NEW l \in Limiting
       PROVE  l \in Timed(sq) /\ ts <= sq.head_ts[l]
    <2>1. l \in Streams
        BY ConstantTypes
    <2>2. CASE l \notin sq.finished
        BY <1>9, <2>1, <2>2
    <2>3. CASE l \in sq.finished
        <3> DEFINE e == sq.head_finished_stream
        <3>1. l \in Timed(sq)
            BY <2>3
        <3>2. e >= 0 /\ sq.head_ts[e] <= sq.head_ts[l]
            BY <2>3, <3>1 DEF Found, EndIsFirst
        <3>3. /\ e \in Timed(sq)
              /\ \A t \in Timed(sq) : sq.head_ts[e] <= sq.head_ts[t] => t \in sq.finished
            BY <1>1, <3>2 DEF EndHolds
        <3>4. PICK t \in Streams : t \notin sq.finished
            BY <1>1 DEF Finished, QueueType
        <3>5. t \in Timed(sq) /\ ts <= sq.head_ts[t]
            BY <1>9, <3>4
        <3>6. ~(sq.head_ts[e] <= sq.head_ts[t])
            BY <3>3, <3>4, <3>5
        <3> HIDE DEF e
        <3> QED
            BY <1>2, <3>1, <3>2, <3>3, <3>5, <3>6
    <2> QED
        BY <2>2, <2>3
<1>11. CASE Limiting = {}
    BY <1>5, <1>7, <1>11 DEF Ready
<1>12. CASE Limiting # {}
    <2>1. sq.head_stream >= 0
        BY <1>10, <1>12 DEF Found, HeadKnown
    <2>2. sq.head_stream \in Limiting
        BY <1>1, <2>1, HeadTypes
    <2>3. sq.head_stream \in Timed(sq) /\ ts <= sq.head_ts[sq.head_stream]
        BY <1>10, <2>2
    <2>4. TailEnd(s) <= sq.head_ts[sq.head_stream]
        BY <1>2, <1>4, <1>6, <1>8, <2>3
    <2> QED
        BY <1>5, <1>7, <2>1, <2>4 DEF Ready
<1> QED
    BY <1>11, <1>12

\* What a stream holds and lacks depends on the queue alone.
LEMMA SameQueue ==
    ASSUME sq' = sq, fifo' = fifo, sent' = sent
    PROVE  /\ Timed(sq)' = Timed(sq)
           /\ \A s \in Streams : /\ Overflows(s)' <=> Overflows(s)
                                 /\ Fragment(s)' <=> Fragment(s)
<1>1. Timed(sq)' = Timed(sq)
    BY DEF Timed
<1> SUFFICES ASSUME NEW s \in Streams
             PROVE  (Overflows(s)' <=> Overflows(s)) /\ (Fragment(s)' <=> Fragment(s))
    BY <1>1
<1>2. TailTs(s)' = TailTs(s) /\ SamplesQueued(s)' = SamplesQueued(s)
    BY DEF TailTs, SamplesQueued
<1>3. NbSamples(s)' = NbSamples(s)
    BY <1>2 DEF NbSamples
<1>4. TailEnd(s)' = TailEnd(s)
    BY <1>3 DEF TailEnd
<1> QED
    BY <1>1, <1>2, <1>3, <1>4 DEF Overflows, Fragment

LEMMA BoundedStep ==
    ASSUME HeadsAndEnds, Buffered, [Next]_vars
    PROVE  Bounded'
<1>1. ASSUME NEW s \in Streams, SendFrame(s) \/ SendEnd(s) \/ Receive(s)
      PROVE  Bounded'
    <2>1. caller'.pc = "receive"
        BY <1>1 DEF SendFrame, SendEnd, Receive, GoTo, Idle
    <2> QED
        BY <2>1 DEF Bounded, At
<1>2. ASSUME NEW s \in Streams, SendRefused(s) \/ HangUp(s) \/ UNCHANGED vars
      PROVE  Bounded'
    <2>1. caller' = caller /\ sq' = sq /\ fifo' = fifo /\ sent' = sent
        BY <1>2, Zenon DEF SendRefused, HangUp, vars
    <2> QED
        BY <2>1, SameQueue DEF Buffered, Bounded, At, Finished
<1>3. ASSUME NEW s \in Streams, OverflowStart(s)
      PROVE  Bounded'
    BY <1>3 DEF OverflowStart, Bounded, At
<1>4. ASSUME Heartbeat
      PROVE  Bounded'
    <2>1. caller'.pc = "retry" \/ caller'.pc = "heartbeat"
        <3>1. \/ caller' = [Idle EXCEPT !.pc = "retry"]
              \/ caller' = [caller EXCEPT !.next = caller.next + 1]
            BY <1>4 DEF Heartbeat
        <3>2. caller.pc = "heartbeat"
            BY <1>4 DEF Heartbeat, At
        <3>3. caller \in [pc : {"idle", "receive", "retry", "heartbeat"}, next : Streams,
                          ts : Nat, from : Streams]
            BY DEF HeadsAndEnds, TypeOK
        <3> QED
            BY <3>1, <3>2, <3>3 DEF Idle
    <2> QED
        BY <2>1 DEF Bounded, At
<1>5. ASSUME ReceiveEof
      PROVE  Bounded'
    BY <1>5 DEF ReceiveEof, Bounded, Finished
<1>6. ASSUME ReceiveAgain
      PROVE  Bounded'
    <2>1. /\ sq' = sq /\ fifo' = fifo /\ sent' = sent /\ NothingReady /\ ~Finished(sq)
          /\ At("retry") \/ ~Overflow
        BY <1>6 DEF ReceiveAgain
    <2>2. ASSUME Limiting \cap sq.finished \subseteq Timed(sq), NEW s \in Streams, Overflows(s)
          PROVE  Fragment(s)
        <3>1. At("retry")
            BY <2>1, <2>2 DEF Overflow
        <3>2. PICK from \in Streams, ts \in Nat : Reached(from, ts, NbStreams)
            BY <3>1 DEF Buffered, Heartbeats
        <3>3. ~Ready(s)
            BY <2>1 DEF NothingReady
        <3> QED
            BY <2>1, <2>2, <3>2, <3>3, HeartbeatReleases DEF Buffered
    <2> QED
        BY <2>1, <2>2, SameQueue DEF Bounded
<1> QED
    BY <1>1, <1>2, <1>3, <1>4, <1>5, <1>6, ConstantTypes DEF Next

\* A heartbeat brings out what the stream most ahead holds too much of, unless it is a
\* fragment: sq_receive() returns with no more than the queue may hold.
THEOREM BufferingIsBounded == Spec => []Bounded
<1>1. Init => IInv /\ Buffered
    BY InitIInv, InitBuffered
<1>2. IInv /\ Buffered /\ [Next]_vars => IInv' /\ Buffered'
    <2> SUFFICES ASSUME IInv, Buffered, [Next]_vars PROVE IInv' /\ Buffered'
        OBVIOUS
    <2>1. IInv' /\ HeadsAndEnds
        BY IInvStep DEF IInv
    <2>2. Found(sq') /\ Heartbeats' /\ Bounded'
        BY <2>1, FoundStep, HeartbeatsStep, BoundedStep DEF Buffered
    <2>3. (Found(sq))'
        BY <2>2 DEF Found, HeadKnown, EndIsFirst, Timed
    <2> QED
        BY <2>1, <2>2, <2>3 DEF Buffered
<1>3. Buffered => Bounded
    BY DEF Buffered
<1> QED
    BY <1>1, <1>2, <1>3, PTL DEF Spec

(***************************************************************************)
(* Completeness.  Why a stream was finished before its end was sent: it was *)
(* as far as a limiting stream that had ended.  What it offers is what the  *)
(* queue knows of it, or was refused beyond that end; and what it has not   *)
(* given yet ends where the offers do.                                      *)
(***************************************************************************)

\* Audio, which is cut by its timestamps, has one on every frame, and no gaps.
Contiguous ==
    \A s \in Streams : FrameSamples[s] # 0 => s \notin Untimed /\ Gaps \subseteq {0}

LimitMet(s) == FramesSent(s, sent[s]) >= FramesMax[s]

\* No stream but a limiting one has sent the most it may.
LimitsAreLimiting == \A s \in Streams \ Limiting : ~LimitMet(s)

Unforced == ~forced /\ gone = {} /\ LimitsAreLimiting

\* Stream s is as far as the limiting one that ended first.
Covered(q, s) ==
    /\ q.head_finished_stream >= 0
    /\ s \in Timed(q) /\ q.head_ts[q.head_finished_stream] <= q.head_ts[s]

\* Limiting streams that ended without ever having a timestamp.
NeverTimed(q) == (Limiting \cap q.finished) \ Timed(q)

\* A stream that is finished was ended by its own source, or is covered.
WhyFinished == \A s \in sq.finished : s \in ended \cup NeverTimed(sq) \/ Covered(sq, s)

\* The last thing offered is what the queue knows of the stream, or was refused
\* beyond the first end.
WhatIsOffered ==
    \A s \in Streams :
        \/ offered[s] = sq.head_ts[s]
        \/ s \in ended \cap NeverTimed(sq)
        \/ /\ s \in ended
           /\ sq.head_finished_stream >= 0
           /\ sq.head_ts[sq.head_finished_stream] < offered[s]

\* The frames q of stream s end at end, where the longest received does if
\* nothing is left; n is what was sent.
EndsAt(s, q, n, end, last) ==
    IF FrameSamples[s] = 0
      THEN /\ \A i \in 1 .. Len(q) : frame_end(q[i]) <= end
           /\ last >= end \/ \E i \in 1 .. Len(q) : frame_end(q[i]) = end
      ELSE /\ \A i \in 1 .. Len(q) : q[i].pts \in Nat /\ q[i].pts + (n - q[i].at) = end
           /\ q = <<>> => last >= end

Accounted ==
    /\ At("heartbeat") => forced
    /\ Unforced => /\ WhyFinished
                   /\ WhatIsOffered
                   /\ \A s \in Streams : EndsAt(s, fifo[s], sent[s], sq.head_ts[s], longest[s])

LEMMA FinishCovers ==
    ASSUME NEW q \in QueueType, EndHolds(q), NEW s \in Streams
    PROVE  LET p == finish_stream(q, s) IN
           /\ p.head_ts = q.head_ts
           /\ \A t \in Streams : Covered(q, t) => Covered(p, t)
           /\ \A t \in p.finished : \/ t \in q.finished \/ Covered(p, t)
                                    \/ t = s /\ s \notin Limiting \cap Timed(q)
<1> DEFINE p == finish_stream(q, s)
           first == IF \/ q.head_finished_stream < 0
                       \/ q.head_ts[s] < q.head_ts[q.head_finished_stream]
                      THEN s ELSE q.head_finished_stream
           ahead == {t \in Timed(q) : q.head_ts[first] <= q.head_ts[t]}
<1>1. p.head_ts = q.head_ts
    BY FinishStream
<1>2. Timed(p) = Timed(q)
    BY <1>1 DEF Timed
<1>3. \A t \in Timed(q) : q.head_ts[t] \in Nat
    BY DEF Timed, QueueType, Time
<1>4. CASE s \in Limiting \cap Timed(q)
    <2>1. p.finished = q.finished \cup {s} \cup ahead /\ p.head_finished_stream = first
        <3>1. p = [q EXCEPT !.finished = @ \cup {s} \cup ahead, !.head_finished_stream = first]
            BY <1>4 DEF finish_stream
        <3> HIDE DEF ahead, first
        <3> QED
            BY <3>1 DEF QueueType
    <2>2. /\ first \in Limiting /\ first \in Timed(q) /\ q.head_ts[first] <= q.head_ts[s]
          /\ q.head_finished_stream >= 0 =>
                q.head_ts[first] <= q.head_ts[q.head_finished_stream]
        BY <1>3, <1>4, HeadTypes DEF EndHolds
    <2>3. first \in Nat
        BY <2>2, ConstantTypes, Zenon
    <2> HIDE DEF first, p
    <2>4. \A t \in Timed(q) : q.head_ts[first] <= q.head_ts[t] => Covered(p, t)
        BY <1>1, <1>2, <2>1, <2>3 DEF Covered
    <2>5. \A t \in Streams : Covered(q, t) => Covered(p, t)
        <3> SUFFICES ASSUME NEW t \in Streams, Covered(q, t) PROVE Covered(p, t)
            OBVIOUS
        <3>1. q.head_finished_stream \in Timed(q) /\ t \in Timed(q)
            BY DEF Covered, EndHolds
        <3>2. /\ q.head_ts[first] \in Nat /\ q.head_ts[t] \in Nat
              /\ q.head_ts[q.head_finished_stream] \in Nat
            BY <1>3, <2>2, <3>1
        <3>3. q.head_ts[first] <= q.head_ts[t]
            BY <2>2, <3>2 DEF Covered
        <3> QED
            BY <2>4, <3>1, <3>3
    <2> QED
        BY <1>1, <1>4, <2>1, <2>2, <2>4, <2>5 DEF p
<1>5. CASE s \notin Limiting \cap Timed(q)
    <2>1. p.finished = q.finished \cup {s} /\ p.head_finished_stream = q.head_finished_stream
        <3>1. p = [q EXCEPT !.finished = @ \cup {s}]
            BY <1>5 DEF finish_stream
        <3> QED
            BY <3>1 DEF QueueType
    <2> HIDE DEF p
    <2>2. \A t \in Streams : Covered(q, t) => Covered(p, t)
        BY <1>1, <1>2, <2>1 DEF Covered
    <2> QED
        BY <1>1, <1>5, <2>1, <2>2 DEF p
<1> QED
    BY <1>4, <1>5

LEMMA UpdateCovers ==
    ASSUME NEW q \in QueueType, HeadIsBehind(q), EndHolds(q), Found(q),
           NEW s \in Streams \ q.finished, NEW ts \in Time
    PROVE  LET p == stream_update_ts(q, s, ts) IN
           /\ \A t \in Streams : Covered(q, t) => Covered(p, t)
           /\ \A t \in p.finished : t \in q.finished \/ Covered(p, t)
<1> DEFINE moved == [q EXCEPT !.head_ts[s] = ts]
           late == /\ q.head_finished_stream >= 0
                   /\ moved.head_ts[q.head_finished_stream] <= ts
           over == IF late THEN finish_stream(moved, s) ELSE moved
           p == stream_update_ts(q, s, ts)
<1>1. CASE ts = NOPTS \/ (q.head_ts[s] # NOPTS /\ q.head_ts[s] >= ts)
    <2>1. p = q
        BY <1>1 DEF stream_update_ts
    <2> QED
        BY <2>1
<1>2. CASE ~(ts = NOPTS \/ (q.head_ts[s] # NOPTS /\ q.head_ts[s] >= ts))
    <2>1. ts \in Nat /\ ts # NOPTS
        BY <1>2 DEF Time
    <2>2. /\ moved \in QueueType
          /\ moved.finished = q.finished /\ moved.head_stream = q.head_stream
          /\ moved.head_finished_stream = q.head_finished_stream
          /\ moved.head_ts = [q.head_ts EXCEPT ![s] = ts]
          /\ moved.head_ts[s] = ts
        BY DEF QueueType
    <2>3. Timed(moved) = Timed(q) \cup {s}
        BY <2>1, <2>2 DEF Timed, QueueType
    <2>4. \A t \in Timed(q) \ {s} : moved.head_ts[t] = q.head_ts[t]
        BY <2>2 DEF QueueType, Timed
    <2>5. p = IF s \in Limiting /\ (q.head_stream < 0 \/ q.head_stream = s)
                THEN queue_head_update(over) ELSE over
        BY <1>2 DEF stream_update_ts
    <2>6. \A t \in Streams : Covered(q, t) => Covered(moved, t)
        <3> SUFFICES ASSUME NEW t \in Streams, Covered(q, t) PROVE Covered(moved, t)
            OBVIOUS
        <3>1. /\ q.head_finished_stream >= 0 /\ q.head_finished_stream \in Timed(q) \ {s}
              /\ t \in Timed(q) \ {s}
            BY DEF Covered, EndHolds
        <3> QED
            BY <2>2, <2>3, <2>4, <3>1 DEF Covered
    <2> HIDE DEF moved
    <2>7. /\ over \in QueueType /\ over.head_ts = moved.head_ts
          /\ over.head_stream = q.head_stream
          /\ \A t \in Streams : Covered(q, t) => Covered(over, t)
          /\ \A t \in over.finished : t \in q.finished \/ Covered(over, t)
        <3>1. CASE ~late
            BY <2>2, <2>6, <3>1
        <3>2. CASE late
            <4>1. over = finish_stream(moved, s) /\ Covered(moved, s)
                BY <2>2, <2>3, <3>2 DEF Covered
            <4> DEFINE e == q.head_finished_stream
            <4>2. e >= 0 /\ e \in Timed(q) \cap q.finished /\ e # s /\ moved.head_ts[e] <= ts
                BY <3>2 DEF EndHolds
            <4>3. /\ e \in Timed(moved) /\ moved.head_ts[e] \in Nat
                BY <2>2, <2>3, <4>2 DEF QueueType, Timed, Time
            <4> HIDE DEF over, late
            <4>4. CASE s \in Limiting
                <5> DEFINE ahead == {t \in Timed(moved) : moved.head_ts[e] <= moved.head_ts[t]}
                <5>1. ~(moved.head_finished_stream < 0) /\ ~(moved.head_ts[s] < moved.head_ts[e])
                    BY <2>1, <2>2, <4>2, <4>3, HeadTypes
                <5>2. over = [moved EXCEPT !.finished = @ \cup {s} \cup ahead,
                                           !.head_finished_stream = e]
                    BY <2>2, <2>3, <4>1, <4>4, <5>1 DEF finish_stream
                <5>3. /\ over.head_ts = moved.head_ts /\ over.head_stream = moved.head_stream
                      /\ over.head_finished_stream = e
                      /\ over.finished = q.finished \cup {s} \cup ahead
                      /\ over \in QueueType
                    BY <2>2, <5>2 DEF QueueType, Timed
                <5>4. Timed(over) = Timed(moved)
                    BY <5>3 DEF Timed
                <5> QED
                    BY <2>2, <2>6, <4>1, <4>2, <5>3, <5>4 DEF Covered
            <4>5. CASE s \notin Limiting
                <5>1. over = [moved EXCEPT !.finished = @ \cup {s}]
                    BY <4>1, <4>5 DEF finish_stream
                <5>2. /\ over.head_ts = moved.head_ts /\ over.head_stream = moved.head_stream
                      /\ over.head_finished_stream = moved.head_finished_stream
                      /\ over.finished = moved.finished \cup {s}
                      /\ over \in QueueType
                    BY <2>2, <5>1 DEF QueueType
                <5>3. Timed(over) = Timed(moved)
                    BY <5>2 DEF Timed
                <5> QED
                    BY <2>2, <2>6, <4>1, <5>2, <5>3 DEF Covered
            <4> QED
                BY <4>4, <4>5
        <3> QED
            BY <3>1, <3>2
    <2> HIDE DEF over
    <2>8. CASE s \in Limiting /\ (q.head_stream < 0 \/ q.head_stream = s)
        <3>1. p = queue_head_update(over)
            BY <2>5, <2>8
        <3>2. Timed(over) = Timed(q) \cup {s}
            BY <2>3, <2>7 DEF Timed
        <3>3. over.head_stream >= 0 => Limiting \subseteq Timed(over)
            BY <2>7, <3>2 DEF HeadIsBehind
        <3>4. /\ p.head_ts = over.head_ts /\ p.finished = over.finished
              /\ p.head_finished_stream = over.head_finished_stream
            BY <2>7, <2>8, <3>1, <3>3, HeadUpdate
        <3>5. Timed(p) = Timed(over)
            BY <3>4 DEF Timed
        <3> QED
            BY <2>7, <3>4, <3>5 DEF Covered
    <2>9. CASE ~(s \in Limiting /\ (q.head_stream < 0 \/ q.head_stream = s))
        BY <2>5, <2>7, <2>9
    <2> QED
        BY <2>8, <2>9
<1> QED
    BY <1>1, <1>2

\* How a step treats the heads and ends: what was covered stays so, the first
\* end only comes nearer, and a stream is finished for one of these reasons.
LEMMA CoverStep ==
    ASSUME HeadsAndEnds, Found(sq), [Next]_vars
    PROVE  /\ \A t \in Streams : Covered(sq, t) => Covered(sq', t)
           /\ \A t \in sq'.finished \ sq.finished :
                 \/ Covered(sq', t) \/ t \in ended' \/ t \in gone
                 \/ LimitMet(t)' /\ t \notin Limiting \cap Timed(sq')
<1> DEFINE Reason(q, t) ==
             \/ Covered(q, t) \/ t \in ended' \/ t \in gone
             \/ LimitMet(t)' /\ t \notin Limiting \cap Timed(q)
           Fine(q) == /\ \A t \in Streams : Covered(sq, t) => Covered(q, t)
                      /\ \A t \in q.finished \ sq.finished : Reason(q, t)
<1>1. sq \in QueueType /\ HeadIsBehind(sq) /\ EndHolds(sq)
    BY QueueTypeOfSq DEF HeadsAndEnds
<1>2. ASSUME NEW s \in Streams, SendFrame(s)
      PROVE  Fine(sq')
    <2>1. PICK f \in NextFrames(s) :
             /\ sq' = IF FramesSent(s, sent[s] + Units(s, f)) >= FramesMax[s]
                        THEN finish_stream(stream_update_ts(sq, s, frame_end(f)), s)
                        ELSE stream_update_ts(sq, s, frame_end(f))
             /\ sent' = [sent EXCEPT ![s] = sent[s] + Units(s, f)]
        BY <1>2, Zenon DEF SendFrame
    <2> DEFINE q == stream_update_ts(sq, s, frame_end(f))
    <2>2. frame_end(f) \in Time
        BY NextFramesType, FrameEnd DEF HeadsAndEnds
    <2>3. s \in Streams \ sq.finished
        BY <1>2 DEF SendFrame
    <2>4. /\ \A t \in Streams : Covered(sq, t) => Covered(q, t)
          /\ \A t \in q.finished : t \in sq.finished \/ Covered(q, t)
        BY <1>1, <2>2, <2>3, UpdateCovers
    <2>5. q \in QueueType /\ EndHolds(q)
        BY <1>1, <2>2, <2>3, GoodUpdate DEF Good
    <2> HIDE DEF q
    <2>6. CASE FramesSent(s, sent[s] + Units(s, f)) >= FramesMax[s]
        <3> DEFINE p == finish_stream(q, s)
        <3>1. sq' = p
            BY <2>1, <2>6 DEF q
        <3>2. LimitMet(s)'
            <4>1. sent'[s] = sent[s] + Units(s, f)
                BY <2>1 DEF HeadsAndEnds, TypeOK
            <4> QED
                BY <2>6, <4>1 DEF LimitMet, FramesSent
        <3>3. /\ p.head_ts = q.head_ts
              /\ \A t \in Streams : Covered(q, t) => Covered(p, t)
              /\ \A t \in p.finished : \/ t \in q.finished \/ Covered(p, t)
                                       \/ t = s /\ s \notin Limiting \cap Timed(q)
            BY <2>5, FinishCovers
        <3> HIDE DEF p
        <3>4. Timed(p) = Timed(q)
            BY <3>3 DEF Timed
        <3>5. q.finished \subseteq Streams
            BY <2>5 DEF QueueType
        <3> QED
            BY <2>4, <3>1, <3>2, <3>3, <3>4, <3>5
    <2>7. CASE ~(FramesSent(s, sent[s] + Units(s, f)) >= FramesMax[s])
        <3>1. sq' = q
            BY <2>1, <2>7 DEF q
        <3> QED
            BY <2>4, <3>1
    <2> QED
        BY <2>6, <2>7
<1>3. ASSUME NEW s \in Streams, SendEnd(s) \/ (Receive(s) /\ s \in gone)
      PROVE  Fine(sq')
    <2>1. sq' = finish_stream(sq, s) /\ (s \in ended' \/ s \in gone)
        BY <1>3, Zenon DEF SendEnd, Receive
    <2> DEFINE p == finish_stream(sq, s)
    <2>2. /\ \A t \in Streams : Covered(sq, t) => Covered(p, t)
          /\ \A t \in p.finished : t \in sq.finished \/ Covered(p, t) \/ t = s
        BY <1>1, FinishCovers
    <2> HIDE DEF p
    <2> QED
        BY <2>1, <2>2 DEF p
<1>4. ASSUME Heartbeat, Lags(caller.next)
      PROVE  Fine(sq')
    <2>1. sq' = stream_update_ts(sq, caller.next, caller.ts)
        BY <1>4, Zenon DEF Heartbeat
    <2>2. caller.next \in Streams \ sq.finished /\ caller.ts \in Time
        BY <1>4 DEF HeadsAndEnds, TypeOK, Time, Lags
    <2>3. /\ \A t \in Streams : Covered(sq, t) => Covered(sq', t)
          /\ \A t \in sq'.finished : t \in sq.finished \/ Covered(sq', t)
        BY <1>1, <2>1, <2>2, UpdateCovers
    <2> QED
        BY <2>3
<1>5. ASSUME sq' = sq
      PROVE  Fine(sq')
    BY <1>5
<1>6. \/ \E s \in Streams : SendFrame(s)
      \/ \E s \in Streams : SendEnd(s) \/ (Receive(s) /\ s \in gone)
      \/ Heartbeat /\ Lags(caller.next)
      \/ sq' = sq
    BY Zenon DEF Next, vars, SendRefused, HangUp, OverflowStart, ReceiveEof, ReceiveAgain,
                 Heartbeat, Receive
<1> HIDE DEF Fine
<1>7. Fine(sq')
    BY <1>2, <1>3, <1>4, <1>5, <1>6
<1> QED
    BY <1>7 DEF Fine

\* A stream that ended without a timestamp never gets one.
LEMMA NeverTimedStep ==
    ASSUME HeadsAndEnds, Found(sq), [Next]_vars
    PROVE  NeverTimed(sq) \subseteq NeverTimed(sq')
<1>1. sq \in QueueType /\ HeadIsBehind(sq) /\ EndHolds(sq)
    BY QueueTypeOfSq DEF HeadsAndEnds
<1>2. sq.finished \subseteq sq'.finished
    BY HeadsStep DEF Good, Later
<1> SUFFICES ASSUME NEW t \in sq.finished PROVE sq'.head_ts[t] = sq.head_ts[t]
    BY <1>2 DEF NeverTimed, Timed
<1>3. t \in Streams
    BY <1>1 DEF QueueType
<1>4. ASSUME NEW s \in Streams, SendFrame(s)
      PROVE  sq'.head_ts[t] = sq.head_ts[t]
    <2>1. PICK f \in NextFrames(s) :
             sq' = IF FramesSent(s, sent[s] + Units(s, f)) >= FramesMax[s]
                     THEN finish_stream(stream_update_ts(sq, s, frame_end(f)), s)
                     ELSE stream_update_ts(sq, s, frame_end(f))
        BY <1>4, Zenon DEF SendFrame
    <2> DEFINE q == stream_update_ts(sq, s, frame_end(f))
    <2>2. frame_end(f) \in Time
        BY NextFramesType, FrameEnd DEF HeadsAndEnds
    <2>3. s \in Streams \ sq.finished
        BY <1>4 DEF SendFrame
    <2>4. q = sq \/ q.head_ts = [sq.head_ts EXCEPT ![s] = frame_end(f)]
        BY <1>1, <2>2, <2>3, UpdateFound
    <2>5. q \in QueueType /\ EndHolds(q)
        BY <1>1, <2>2, <2>3, GoodUpdate DEF Good
    <2>6. q.head_ts[t] = sq.head_ts[t]
        BY <1>1, <1>3, <2>3, <2>4 DEF QueueType
    <2> HIDE DEF q
    <2>7. finish_stream(q, s).head_ts = q.head_ts
        BY <2>5, FinishStream
    <2> QED
        BY <2>1, <2>6, <2>7 DEF q
<1>5. ASSUME NEW s \in Streams, SendEnd(s) \/ Receive(s)
      PROVE  sq'.head_ts[t] = sq.head_ts[t]
    <2>1. sq' = finish_stream(sq, s) \/ sq' = sq
        BY <1>5, Zenon DEF SendEnd, Receive
    <2> QED
        BY <1>1, <2>1, FinishStream
<1>6. ASSUME Heartbeat, Lags(caller.next)
      PROVE  sq'.head_ts[t] = sq.head_ts[t]
    <2>1. sq' = stream_update_ts(sq, caller.next, caller.ts)
        BY <1>6, Zenon DEF Heartbeat
    <2>2. caller.next \in Streams \ sq.finished /\ caller.ts \in Time
        BY <1>6 DEF HeadsAndEnds, TypeOK, Time, Lags
    <2>3. sq' = sq \/ sq'.head_ts = [sq.head_ts EXCEPT ![caller.next] = caller.ts]
        BY <1>1, <2>1, <2>2, UpdateFound
    <2> QED
        BY <1>1, <1>3, <2>2, <2>3 DEF QueueType
<1>7. \/ \E s \in Streams : SendFrame(s)
      \/ \E s \in Streams : SendEnd(s) \/ Receive(s)
      \/ Heartbeat /\ Lags(caller.next)
      \/ sq' = sq
    BY Zenon DEF Next, vars, SendRefused, HangUp, OverflowStart, ReceiveEof, ReceiveAgain,
                 Heartbeat
<1> QED
    BY <1>4, <1>5, <1>6, <1>7

\* Once something went wrong, it went wrong.
LEMMA UnforcedBefore ==
    ASSUME TypeOK, [Next]_vars, Unforced'
    PROVE  Unforced
<1>1. forced => forced'
    BY Zenon DEF Next, vars, SendFrame, SendRefused, SendEnd, Receive, HangUp,
                 OverflowStart, ReceiveEof, ReceiveAgain, Heartbeat
<1>2. gone \subseteq gone'
    <2>1. gone' = gone \/ \E s \in Streams : gone' = gone \cup {s}
        BY Zenon DEF Next, vars, SendFrame, SendRefused, SendEnd, Receive, HangUp,
                     OverflowStart, ReceiveEof, ReceiveAgain, Heartbeat
    <2> QED
        BY <2>1
<1>3. ASSUME NEW t \in Streams, LimitMet(t)
      PROVE  LimitMet(t)'
    <2>1. CASE sent' = sent
        BY <1>3, <2>1 DEF LimitMet, FramesSent
    <2>2. ASSUME NEW s \in Streams, SendFrame(s)
          PROVE  LimitMet(t)'
        <3>1. PICK f \in NextFrames(s) : sent' = [sent EXCEPT ![s] = sent[s] + Units(s, f)]
            BY <2>2, Zenon DEF SendFrame
        <3>2. f \in Frame /\ Units(s, f) \in Nat
            BY NextFramesType, UnitsType
        <3>3. sent[t] \in Nat /\ sent'[t] \in Nat /\ sent[t] <= sent'[t]
            <4> DEFINE n == Units(s, f)
            <4>1. /\ sent \in [Streams -> Nat] /\ n \in Nat
                  /\ sent' = [sent EXCEPT ![s] = sent[s] + n]
                BY <3>1, <3>2 DEF TypeOK
            <4> HIDE DEF n
            <4>2. CASE t = s
                BY <4>1, <4>2
            <4>3. CASE t # s
                BY <4>1, <4>3
            <4> QED
                BY <4>2, <4>3
        <3>4. FrameSamples[t] \in Nat /\ FramesMax[t] \in Nat
            BY SyncQueueAssumption DEF SyncQueueAssumption
        <3>5. FramesSent(t, sent[t]) <= FramesSent(t, sent'[t])
            BY <3>3, <3>4 DEF FramesSent
        <3>6. FramesSent(t, sent[t]) \in Int /\ FramesSent(t, sent'[t]) \in Int
            BY <3>3, <3>4 DEF FramesSent
        <3> QED
            BY <1>3, <3>4, <3>5, <3>6 DEF LimitMet
    <2>3. sent' = sent \/ \E s \in Streams : SendFrame(s)
        BY Zenon DEF Next, vars, SendRefused, SendEnd, Receive, HangUp, OverflowStart,
                     ReceiveEof, ReceiveAgain, Heartbeat
    <2> QED
        BY <2>1, <2>2, <2>3
<1> QED
    BY <1>1, <1>2, <1>3 DEF Unforced, LimitsAreLimiting

LEMMA WhyStep ==
    ASSUME HeadsAndEnds, Found(sq), WhyFinished, [Next]_vars, Unforced, Unforced'
    PROVE  WhyFinished'
<1> SUFFICES ASSUME NEW t \in sq'.finished
             PROVE  t \in ended' \cup NeverTimed(sq') \/ Covered(sq', t)
    BY DEF WhyFinished, NeverTimed, Timed, Covered
<1>1. t \in Streams
    BY HeadsStep DEF Good, QueueType
<1>2. ended \subseteq ended'
    <2>1. ended' = ended \/ \E s \in Streams : ended' = ended \cup {s}
        BY Zenon DEF Next, vars, SendFrame, SendRefused, SendEnd, Receive, HangUp,
                     OverflowStart, ReceiveEof, ReceiveAgain, Heartbeat
    <2> QED
        BY <2>1
<1>3. CASE t \in sq.finished
    BY <1>1, <1>2, <1>3, CoverStep, NeverTimedStep DEF WhyFinished
<1>4. CASE t \notin sq.finished
    <2>1. gone = {} /\ (LimitMet(t)' => t \in Limiting)
        BY <1>1 DEF Unforced, LimitsAreLimiting
    <2>2. \/ Covered(sq', t) \/ t \in ended'
          \/ LimitMet(t)' /\ t \notin Limiting \cap Timed(sq')
        BY <1>4, <2>1, CoverStep
    <2> QED
        BY <2>1, <2>2 DEF NeverTimed
<1> QED
    BY <1>3, <1>4

\* What becomes of the timestamps when a stream that goes on sends a frame: what is
\* offered is what the queue knows.
LEMMA SendHeads ==
    ASSUME IInv, Found(sq), NEW s \in Streams, SendFrame(s), offered[s] = sq.head_ts[s]
    PROVE  \E f \in NextFrames(s) :
             /\ f \in Frame /\ f.at = sent[s]
             /\ fifo' = [fifo EXCEPT ![s] = Append(fifo[s], f)]
             /\ sent' = [sent EXCEPT ![s] = sent[s] + Units(s, f)]
             /\ offered' = [offered EXCEPT ![s] = OfferedEnd(s, f)]
             /\ sq'.head_ts = [sq.head_ts EXCEPT ![s] = OfferedEnd(s, f)]
             /\ f.pts # NOPTS => frame_end(f) \in Nat /\ frame_end(f) >= sq.head_ts[s]
<1>1. /\ sq \in QueueType /\ HeadIsBehind(sq) /\ EndHolds(sq) /\ TypeOK
    BY QueueTypeOfSq DEF IInv, HeadsAndEnds
<1>2. PICK f \in NextFrames(s) :
         /\ fifo' = [fifo EXCEPT ![s] = Append(fifo[s], f)]
         /\ sent' = [sent EXCEPT ![s] = sent[s] + Units(s, f)]
         /\ offered' = [offered EXCEPT ![s] = OfferedEnd(s, f)]
         /\ sq' = IF FramesSent(s, sent[s] + Units(s, f)) >= FramesMax[s]
                    THEN finish_stream(stream_update_ts(sq, s, frame_end(f)), s)
                    ELSE stream_update_ts(sq, s, frame_end(f))
    BY Zenon DEF SendFrame
<1> DEFINE q == stream_update_ts(sq, s, frame_end(f))
<1>3. f \in Frame /\ frame_end(f) \in Time /\ s \in Streams \ sq.finished
    BY <1>1, NextFramesType, FrameEnd DEF SendFrame
<1>4. f.at = sent[s]
    BY DEF NextFrames
<1>5. sq.head_ts[s] \in Time /\ sq.head_ts \in [Streams -> Time]
    BY <1>1 DEF QueueType
<1>6. f.pts # NOPTS => frame_end(f) \in Nat /\ frame_end(f) >= sq.head_ts[s]
    <2> SUFFICES ASSUME f.pts # NOPTS
                 PROVE  frame_end(f) \in Nat /\ frame_end(f) >= sq.head_ts[s]
        OBVIOUS
    <2> DEFINE from == IF offered[s] = NOPTS THEN 0 ELSE offered[s]
    <2>1. f \in [pts : {from + g : g \in Gaps}, len : Lengths[s], at : {sent[s]}]
        BY DEF NextFrames
    <2>2. Gaps \subseteq Nat /\ Lengths[s] \subseteq Nat /\ from \in Nat /\ from >= sq.head_ts[s]
        BY <1>5, SyncQueueAssumption, ConstantTypes DEF SyncQueueAssumption, Time
    <2> HIDE DEF from
    <2>3. PICK g \in Gaps : f.pts = from + g /\ f.len \in Nat
        BY <2>1, <2>2
    <2> QED
        BY <1>5, <2>2, <2>3, ConstantTypes DEF frame_end, Time
<1>7. f.pts = NOPTS => frame_end(f) = NOPTS
    BY <1>3, ConstantTypes DEF Frame, frame_end
<1>8. /\ q \in QueueType /\ EndHolds(q)
      /\ \/ q = sq
         \/ frame_end(f) # NOPTS /\ q.head_ts = [sq.head_ts EXCEPT ![s] = frame_end(f)]
      /\ frame_end(f) # NOPTS /\ (sq.head_ts[s] = NOPTS \/ frame_end(f) > sq.head_ts[s]) =>
           q.head_ts = [sq.head_ts EXCEPT ![s] = frame_end(f)]
    BY <1>1, <1>3, UpdateFound, GoodUpdate DEF IInv, HeadsAndEnds, Good
<1> HIDE DEF q
<1>9. q.head_ts = [sq.head_ts EXCEPT ![s] = OfferedEnd(s, f)]
    <2>1. CASE f.pts = NOPTS
        BY <1>5, <1>7, <1>8, <2>1 DEF OfferedEnd
    <2>2. CASE f.pts # NOPTS
        <3>1. OfferedEnd(s, f) = frame_end(f) /\ frame_end(f) # NOPTS
            BY <1>6, <2>2, ConstantTypes DEF OfferedEnd
        <3>2. CASE sq.head_ts[s] = NOPTS \/ frame_end(f) > sq.head_ts[s]
            BY <1>8, <3>1, <3>2
        <3>3. CASE ~(sq.head_ts[s] = NOPTS \/ frame_end(f) > sq.head_ts[s])
            <4>1. frame_end(f) = sq.head_ts[s]
                BY <1>5, <1>6, <2>2, <3>3, ConstantTypes DEF Time
            <4> QED
                BY <1>5, <1>8, <3>1, <4>1
        <3> QED
            BY <3>2, <3>3
    <2> QED
        BY <2>1, <2>2
<1>10. finish_stream(q, s).head_ts = q.head_ts
    BY <1>8, FinishStream
<1> QED
    BY <1>2, <1>3, <1>4, <1>6, <1>9, <1>10 DEF q

\* Only frames move the heads, as long as no heartbeat does.
LEMMA HeadsStay ==
    ASSUME IInv, ~At("heartbeat"), [Next]_vars, \A s \in Streams : ~SendFrame(s)
    PROVE  sq'.head_ts = sq.head_ts /\ sent' = sent
<1>1. sq \in QueueType /\ EndHolds(sq)
    BY QueueTypeOfSq DEF IInv, HeadsAndEnds
<1>2. sq' = sq \/ \E s \in Streams : sq' = finish_stream(sq, s)
    BY Zenon DEF Next, vars, SendRefused, SendEnd, Receive, HangUp, OverflowStart,
                 ReceiveEof, ReceiveAgain, Heartbeat
<1>3. sent' = sent
    BY Zenon DEF Next, vars, SendRefused, SendEnd, Receive, HangUp, OverflowStart,
                 ReceiveEof, ReceiveAgain, Heartbeat
<1> QED
    BY <1>1, <1>2, <1>3, FinishStream

LEMMA OfferStep ==
    ASSUME IInv, Found(sq), ~At("heartbeat"), [Next]_vars,
           WhyFinished, WhatIsOffered, Unforced, Unforced'
    PROVE  WhatIsOffered'
<1>1. sq \in QueueType /\ sq' \in QueueType /\ EndHolds(sq) /\ HeadsAndEnds /\ TypeOK
    BY QueueTypeOfSq, HeadsStep DEF IInv, HeadsAndEnds, Good
<1>2. ended \subseteq ended' /\ ended \subseteq sq.finished
    <2>1. ended' = ended \/ \E s \in Streams : ended' = ended \cup {s}
        BY Zenon DEF Next, vars, SendFrame, SendRefused, SendEnd, Receive, HangUp,
                     OverflowStart, ReceiveEof, ReceiveAgain, Heartbeat
    <2> QED
        BY <2>1 DEF IInv, EndsAreKnown
<1> DEFINE e == sq.head_finished_stream
<1>3. ASSUME e >= 0
      PROVE  /\ e \in Timed(sq) /\ e \in sq.finished /\ sq'.head_finished_stream \in Timed(sq')
             /\ sq'.head_finished_stream >= 0
             /\ sq'.head_ts[sq'.head_finished_stream] <= sq'.head_ts[e]
    <2>1. e \in Timed(sq) /\ e \in sq.finished /\ e \in Streams
        BY <1>1, <1>3 DEF EndHolds, Timed
    <2>2. sq.head_ts[e] \in Nat
        BY <1>1, <2>1 DEF Timed, QueueType, Time
    <2>3. Covered(sq, e)
        BY <1>3, <2>1, <2>2 DEF Covered
    <2>4. Covered(sq', e)
        BY <1>1, <2>1, <2>3, CoverStep
    <2>5. EndHolds(sq')
        BY <1>1, HeadsStep DEF Good
    <2> QED
        BY <2>1, <2>4, <2>5 DEF Covered, EndHolds
<1>4. \A t \in Streams : sq.head_ts[t] \in Int /\ sq'.head_ts[t] \in Int
    BY <1>1, ConstantTypes DEF QueueType, Time
<1>5. ASSUME NEW t \in Streams, offered'[t] = offered[t],
             t \in sq.finished => sq'.head_ts[t] = sq.head_ts[t],
             \A u \in sq.finished : sq'.head_ts[u] = sq.head_ts[u],
             offered[t] # sq.head_ts[t] \/ sq'.head_ts[t] = sq.head_ts[t]
      PROVE  \/ offered'[t] = sq'.head_ts[t]
             \/ t \in ended' \cap NeverTimed(sq')
             \/ /\ t \in ended'
                /\ sq'.head_finished_stream >= 0
                /\ sq'.head_ts[sq'.head_finished_stream] < offered'[t]
    <2>1. CASE offered[t] = sq.head_ts[t]
        BY <1>5, <2>1
    <2>2. CASE t \in ended \cap NeverTimed(sq)
        BY <1>1, <1>2, <2>2, NeverTimedStep
    <2>3. CASE /\ t \in ended
               /\ sq.head_finished_stream >= 0
               /\ sq.head_ts[sq.head_finished_stream] < offered[t]
        <3>1. sq'.head_ts[e] = sq.head_ts[e]
            BY <1>3, <1>5, <2>3
        <3>2. offered[t] \in Int
            BY <1>1, ConstantTypes DEF TypeOK
        <3>3. e \in Streams /\ sq'.head_finished_stream \in Streams
            BY <1>3, <2>3 DEF Timed
        <3> QED
            BY <1>2, <1>3, <1>4, <1>5, <2>3, <3>1, <3>2, <3>3
    <2> QED
        BY <2>1, <2>2, <2>3 DEF WhatIsOffered
<1> SUFFICES ASSUME NEW t \in Streams
             PROVE  \/ offered'[t] = sq'.head_ts[t]
                    \/ t \in ended' \cap NeverTimed(sq')
                    \/ /\ t \in ended'
                       /\ sq'.head_finished_stream >= 0
                       /\ sq'.head_ts[sq'.head_finished_stream] < offered'[t]
    BY DEF WhatIsOffered, NeverTimed, Timed
<1>6. ASSUME NEW s \in Streams, SendFrame(s)
      PROVE  \/ offered'[t] = sq'.head_ts[t]
             \/ t \in ended' \cap NeverTimed(sq')
             \/ /\ t \in ended'
                /\ sq'.head_finished_stream >= 0
                /\ sq'.head_ts[sq'.head_finished_stream] < offered'[t]
    <2>1. s \notin ended /\ s \notin sq.finished
        BY <1>6 DEF SendFrame
    <2>2. offered[s] = sq.head_ts[s]
        BY <2>1 DEF WhatIsOffered
    <2>3. PICK f \in NextFrames(s) :
             /\ offered' = [offered EXCEPT ![s] = OfferedEnd(s, f)]
             /\ sq'.head_ts = [sq.head_ts EXCEPT ![s] = OfferedEnd(s, f)]
        BY <1>6, <2>2, SendHeads
    <2>4. CASE t = s
        BY <1>1, <2>3, <2>4 DEF QueueType, TypeOK
    <2>5. CASE t # s
        <3>1. offered'[t] = offered[t] /\ sq'.head_ts[t] = sq.head_ts[t]
            BY <1>1, <2>3, <2>5 DEF QueueType, TypeOK
        <3>2. \A u \in sq.finished : sq'.head_ts[u] = sq.head_ts[u]
            BY <1>1, <2>1, <2>3 DEF QueueType
        <3> QED
            BY <1>5, <3>1, <3>2
    <2> QED
        BY <2>4, <2>5
<1>7. ASSUME NEW s \in Streams, SendRefused(s), t = s
      PROVE  \/ offered'[t] = sq'.head_ts[t]
             \/ t \in ended' \cap NeverTimed(sq')
             \/ /\ t \in ended'
                /\ sq'.head_finished_stream >= 0
                /\ sq'.head_ts[sq'.head_finished_stream] < offered'[t]
    <2>1. s \in sq.finished /\ s \notin ended /\ s \in ended' /\ sq' = sq
        BY <1>7, Zenon DEF SendRefused
    <2>2. offered[s] = sq.head_ts[s]
        BY <2>1 DEF WhatIsOffered
    <2>3. PICK f \in NextFrames(s) : offered' = [offered EXCEPT ![s] = OfferedEnd(s, f)]
        BY <1>7 DEF SendRefused
    <2>4. s \in NeverTimed(sq) \/ Covered(sq, s)
        BY <2>1 DEF WhyFinished
    <2>5. CASE s \in NeverTimed(sq)
        BY <1>7, <2>1, <2>5
    <2>6. CASE Covered(sq, s)
        <3>1. /\ e >= 0 /\ sq.head_ts[e] <= sq.head_ts[s] /\ e \in Streams
              /\ offered'[s] = OfferedEnd(s, f)
            BY <1>1, <1>3, <2>3, <2>6 DEF Covered, TypeOK, Timed
        <3>2. CASE f.pts = NOPTS
            BY <1>7, <2>1, <2>2, <3>1, <3>2 DEF OfferedEnd
        <3>3. CASE f.pts # NOPTS
            <4> DEFINE from == IF offered[s] = NOPTS THEN 0 ELSE offered[s]
            <4>1. f \in [pts : {from + g : g \in Gaps}, len : Lengths[s], at : {sent[s]}]
                BY <3>3 DEF NextFrames
            <4>2. /\ Gaps \subseteq Nat /\ Lengths[s] \subseteq Nat
                  /\ from \in Nat /\ from = sq.head_ts[s]
                <5>1. offered[s] # NOPTS /\ offered[s] \in Nat
                    BY <1>1, <2>2, <2>6 DEF Covered, Timed, TypeOK
                <5> QED
                    BY <2>2, <5>1, SyncQueueAssumption DEF SyncQueueAssumption
            <4> HIDE DEF from
            <4>3. PICK g \in Gaps : f.pts = from + g /\ f.len \in Nat
                BY <4>1, <4>2
            <4>4. OfferedEnd(s, f) = f.pts + f.len
                BY <3>3 DEF OfferedEnd, frame_end
            <4>5. offered'[s] \in Int /\ offered'[s] >= sq.head_ts[s]
                BY <3>1, <4>2, <4>3, <4>4
            <4> QED
                BY <1>4, <1>7, <2>1, <3>1, <4>5
        <3> QED
            BY <3>2, <3>3
    <2> QED
        BY <2>4, <2>5, <2>6
<1>8. ASSUME \A s \in Streams : ~SendFrame(s), ~SendRefused(t)
      PROVE  \/ offered'[t] = sq'.head_ts[t]
             \/ t \in ended' \cap NeverTimed(sq')
             \/ /\ t \in ended'
                /\ sq'.head_finished_stream >= 0
                /\ sq'.head_ts[sq'.head_finished_stream] < offered'[t]
    <2>1. sq'.head_ts = sq.head_ts
        BY <1>8, HeadsStay
    <2>2. offered'[t] = offered[t]
        <3>1. offered' = offered \/ \E s \in Streams \ {t} : SendRefused(s)
            BY <1>8, Zenon DEF Next, vars, SendEnd, Receive, HangUp, OverflowStart,
                               ReceiveEof, ReceiveAgain, Heartbeat
        <3>2. ASSUME NEW s \in Streams \ {t}, SendRefused(s)
              PROVE  offered'[t] = offered[t]
            <4>1. PICK f \in NextFrames(s) : offered' = [offered EXCEPT ![s] = OfferedEnd(s, f)]
                BY <3>2 DEF SendRefused
            <4> QED
                BY <1>1, <4>1 DEF TypeOK
        <3> QED
            BY <3>1, <3>2
    <2> QED
        BY <1>5, <2>1, <2>2
<1> QED
    BY <1>6, <1>7, <1>8

LEMMA AppendIs ==
    ASSUME NEW q \in Seq(Frame), NEW f \in Frame
    PROVE  LET r == Append(q, f) IN
           /\ Len(q) \in Nat /\ Len(r) = Len(q) + 1 /\ r[Len(r)] = f /\ r # <<>>
           /\ \A i \in 1 .. Len(q) : r[i] = q[i] /\ q[i] \in Frame
           /\ q # <<>> => Len(q) > 0
OBVIOUS

\* A sample's end, seen from where the stream ends, when l more are sent.
LEMMA LaterEnd ==
    ASSUME NEW p \in Nat, NEW a \in Nat, NEW l \in Nat, NEW n \in Nat, NEW end,
           p + (n - a) = end
    PROVE  p + ((n + l) - a) = end + l
OBVIOUS

\* The first c samples of a frame are cut off.
LEMMA CutEnd ==
    ASSUME NEW p \in Nat, NEW a \in Nat, NEW c \in Nat, NEW n \in Nat
    PROVE  p + c + (n - (a + c)) = p + (n - a)
OBVIOUS

LEMMA CutIsNat ==
    ASSUME NEW a \in Nat, NEW b \in Nat, NEW m \in Nat
    PROVE  (IF a + m > b THEN a + m - b ELSE 0) \in Nat
OBVIOUS

LEMMA AppendEndsAt ==
    ASSUME NEW s \in Streams, NEW q \in Seq(Frame), NEW n \in Nat, NEW end \in Time,
           NEW given \in Int, NEW last \in Int,
           InSequence(s, q, given, n), EndsAt(s, q, n, end, last),
           NEW f \in Frame, f.at = n, NEW next \in Time,
           next = IF f.pts = NOPTS THEN end ELSE frame_end(f), next >= end,
           FrameSamples[s] # 0 => f.pts \in Nat /\ (end # NOPTS => f.pts = end)
    PROVE  EndsAt(s, Append(q, f), n + Units(s, f), next, last)
<1> DEFINE r == Append(q, f)
<1>1. /\ Len(q) \in Nat /\ Len(r) = Len(q) + 1 /\ r[Len(r)] = f /\ r # <<>>
      /\ \A i \in 1 .. Len(q) : r[i] = q[i] /\ q[i] \in Frame
      /\ q # <<>> => Len(q) > 0
    BY AppendIs
<1> HIDE DEF r
<1>0. \A i \in 1 .. Len(r) : i \in 1 .. Len(q) \/ i = Len(r)
    BY <1>1
<1>2. end \in Int /\ next \in Int /\ frame_end(f) \in Int
    BY FrameEnd, ConstantTypes DEF Time
<1>3. \A i \in 1 .. Len(q) : frame_end(q[i]) \in Int
    BY <1>1, FrameEnd, ConstantTypes DEF Time
<1>4. CASE FrameSamples[s] = 0
    <2>1. frame_end(f) <= next
        <3>1. CASE f.pts = NOPTS
            <4>1. frame_end(f) = NOPTS /\ NOPTS <= end
                BY <3>1, ConstantTypes DEF Frame, frame_end, Time
            <4> QED
                BY <3>1, <4>1
        <3>2. CASE f.pts # NOPTS
            BY <1>2, <3>2
        <3> QED
            BY <3>1, <3>2
    <2>2. \A i \in 1 .. Len(r) : frame_end(r[i]) <= next
        <3> SUFFICES ASSUME NEW i \in 1 .. Len(r) PROVE frame_end(r[i]) <= next
            OBVIOUS
        <3>1. CASE i = Len(r)
            BY <1>1, <2>1, <3>1
        <3>2. CASE i \in 1 .. Len(q)
            <4>1. frame_end(q[i]) <= end /\ r[i] = q[i] /\ frame_end(q[i]) \in Int
                BY <1>1, <1>3, <1>4, <3>2 DEF EndsAt
            <4> QED
                BY <1>2, <4>1
        <3> QED
            BY <1>0, <3>1, <3>2
    <2>3. last >= next \/ \E i \in 1 .. Len(r) : frame_end(r[i]) = next
        <3>1. CASE f.pts = NOPTS
            <4>1. \A i \in 1 .. Len(q) : i \in 1 .. Len(r)
                BY <1>1
            <4>2. last >= end \/ \E i \in 1 .. Len(q) : frame_end(q[i]) = end
                BY <1>4 DEF EndsAt
            <4> QED
                BY <1>1, <3>1, <4>1, <4>2
        <3>2. CASE f.pts # NOPTS
            <4>1. Len(r) \in 1 .. Len(r) /\ frame_end(r[Len(r)]) = next
                BY <1>1, <3>2
            <4> QED
                BY <4>1
        <3> QED
            BY <3>1, <3>2
    <2> QED
        BY <1>4, <2>2, <2>3 DEF EndsAt, r
<1>5. CASE FrameSamples[s] # 0
    <2>1. f.pts \in Nat /\ f.len \in Nat /\ Units(s, f) = f.len /\ next = f.pts + f.len
        BY <1>5, ConstantTypes DEF Frame, Units, frame_end
    <2>2. f.pts + ((n + f.len) - f.at) = next
        BY <2>1
    <2>3. ASSUME NEW i \in 1 .. Len(q)
          PROVE  q[i].pts \in Nat /\ q[i].pts + ((n + f.len) - q[i].at) = next
        <3>1. q[i].pts \in Nat /\ q[i].pts + (n - q[i].at) = end
            BY <1>5, <2>3 DEF EndsAt
        <3>2. q[i].at \in Nat /\ q[i].at <= n
            <4>1. q # <<>> /\ Len(q) \in 1 .. Len(q) /\ i \in 1 .. Len(q) /\ i <= Len(q)
                BY <1>1
            <4>2. q[i].at <= q[Len(q)].at /\ q[Len(q)].at + Units(s, q[Len(q)]) = n
                BY <4>1 DEF InSequence
            <4>3. q[Len(q)].at \in Nat /\ Units(s, q[Len(q)]) \in Nat /\ q[i].at \in Nat
                BY <1>1, <4>1, UnitsType
            <4> QED
                BY <4>2, <4>3
        <3>3. end \in Nat
            BY <3>1, <3>2
        <3>4. f.pts = end
            BY <1>5, <3>3, ConstantTypes
        <3>5. q[i].pts \in Nat /\ q[i].at \in Nat /\ f.len \in Nat
            BY <2>1, <3>1, <3>2
        <3>6. q[i].pts + ((n + f.len) - q[i].at) = end + f.len
            BY <3>1, <3>5, LaterEnd
        <3> QED
            BY <2>1, <3>1, <3>4, <3>6
    <2>4. \A i \in 1 .. Len(r) :
             r[i].pts \in Nat /\ r[i].pts + ((n + Units(s, f)) - r[i].at) = next
        BY <1>0, <1>1, <2>1, <2>2, <2>3
    <2>5. EndsAt(s, r, n + Units(s, f), next, last)
        BY <1>1, <1>5, <2>4 DEF EndsAt
    <2> QED
        BY <2>5 DEF r
<1> QED
    BY <1>4, <1>5

LEMMA TailEndsAt ==
    ASSUME NEW s \in Streams, NEW q \in Seq(Frame), q # <<>>, NEW n, NEW end \in Time,
           NEW last \in Int, NEW most \in Int, EndsAt(s, q, n, end, last),
           FrameSamples[s] = 0, last <= most, frame_end(q[1]) <= most
    PROVE  EndsAt(s, Tail(q), n, end, most)
<1> DEFINE r == Tail(q)
<1>1. /\ Len(q) \in Nat \ {0} /\ Len(r) = Len(q) - 1
      /\ \A i \in 1 .. Len(r) : r[i] = q[i + 1] /\ i + 1 \in 1 .. Len(q)
      /\ \A i \in 1 .. Len(q) : i = 1 \/ (i - 1 \in 1 .. Len(r) /\ r[i - 1] = q[i])
    OBVIOUS
<1> HIDE DEF r
<1>2. end \in Int
    BY ConstantTypes DEF Time
<1>3. \A i \in 1 .. Len(r) : frame_end(r[i]) <= end
    BY <1>1 DEF EndsAt
<1>4. most >= end \/ \E i \in 1 .. Len(r) : frame_end(r[i]) = end
    <2>1. CASE last >= end
        BY <1>2, <2>1
    <2>2. ASSUME NEW i \in 1 .. Len(q), frame_end(q[i]) = end
          PROVE  most >= end \/ \E j \in 1 .. Len(r) : frame_end(r[j]) = end
        <3>1. CASE i = 1
            BY <1>2, <2>2, <3>1
        <3>2. CASE i # 1
            BY <1>1, <2>2, <3>2
        <3> QED
            BY <3>1, <3>2
    <2> QED
        BY <2>1, <2>2 DEF EndsAt
<1> QED
    BY <1>3, <1>4 DEF EndsAt, r

\* The m samples taken may be the last ones.
LEMMA WithoutEndsAt ==
    ASSUME NEW s \in Streams, FrameSamples[s] # 0, NEW q \in Seq(Frame), q # <<>>,
           NEW given \in Int, NEW n \in Nat, InSequence(s, q, given, n),
           NEW m \in Nat, m <= n - q[1].at, NEW end \in Time,
           NEW last \in Int, NEW most \in Int, EndsAt(s, q, n, end, last),
           q[1].pts + m <= most
    PROVE  EndsAt(s, Without(q, m), n, end, most)
<1> DEFINE kept == {i \in 1 .. Len(q) : q[i].at + q[i].len > q[1].at + m}
           k == CHOOSE i \in kept : \A j \in kept : i <= j
           cut == IF q[1].at + m > q[k].at THEN q[1].at + m - q[k].at ELSE 0
           f == [pts |-> q[k].pts + cut, len |-> q[k].len - cut, at |-> q[k].at + cut]
           t == SubSeq(q, k + 1, Len(q))
<1>1. Len(q) \in Nat \ {0} /\ 1 \in 1 .. Len(q) /\ Len(q) \in 1 .. Len(q)
    OBVIOUS
<1>2. \A i \in 1 .. Len(q) : /\ q[i].at \in Nat /\ q[i].len \in Nat
                             /\ Units(s, q[i]) = q[i].len
                             /\ q[i].pts \in Nat /\ q[i].pts + (n - q[i].at) = end
    BY UnitsType DEF Units, EndsAt
<1>3. CASE kept = {}
    <2>1. Without(q, m) = <<>>
        BY <1>3, Zenon DEF Without
    <2>2. ~(q[Len(q)].at + q[Len(q)].len > q[1].at + m)
        BY <1>1, <1>3
    <2>3. q[Len(q)].at + q[Len(q)].len = n
        BY <1>1, <1>2 DEF InSequence
    <2>4. most >= end
        BY <1>1, <1>2, <2>2, <2>3
    <2> QED
        BY <2>1, <2>4 DEF EndsAt
<1>4. CASE kept # {}
    <2>1. Without(q, m) = <<f>> \o t
        BY <1>4 DEF Without
    <2>2. k \in 1 .. Len(q)
        <3> HIDE DEF kept
        <3>1. kept \in SUBSET Nat /\ kept \subseteq 1 .. Len(q)
            BY DEF kept
        <3> QED
            BY <1>4, <3>1, SmallestIndex
    <2> HIDE DEF k, kept
    <2>3. cut \in Nat
        <3>1. q[1].at \in Nat /\ q[k].at \in Nat
            BY <1>1, <1>2, <2>2
        <3> QED
            BY <3>1, CutIsNat
    <2> HIDE DEF cut
    <2>4. f.pts \in Nat /\ f.pts + (n - f.at) = end
        <3> DEFINE p == q[k].pts
                   a == q[k].at
        <3>1. p \in Nat /\ a \in Nat /\ p + (n - a) = end
            BY <1>2, <2>2
        <3>2. f.pts = p + cut /\ f.at = a + cut
            OBVIOUS
        <3> HIDE DEF f, p, a
        <3>3. p + cut \in Nat /\ p + cut + (n - (a + cut)) = end
            BY <2>3, <3>1, CutEnd
        <3> QED
            BY <3>2, <3>3
    <2>5. \A i \in 1 .. Len(t) : t[i] = q[i + k] /\ i + k \in 1 .. Len(q)
        <3>1. Len(t) = Len(q) - k /\ \A i \in 1 .. Len(q) - k : t[i] = q[i + k]
            BY <2>2
        <3> HIDE DEF t
        <3> QED
            BY <1>1, <2>2, <3>1
    <2>6. t \in Seq(Frame)
        BY <1>1, <2>2
    <2> HIDE DEF f, t
    <2> DEFINE r == <<f>> \o t
    <2>7. /\ r # <<>>
          /\ \A i \in 1 .. Len(r) : r[i] = f \/ (i - 1 \in 1 .. Len(t) /\ r[i] = t[i - 1])
        BY <2>6
    <2> HIDE DEF r
    <2>8. \A i \in 1 .. Len(r) : r[i].pts \in Nat /\ r[i].pts + (n - r[i].at) = end
        <3> SUFFICES ASSUME NEW i \in 1 .. Len(r)
                     PROVE  r[i].pts \in Nat /\ r[i].pts + (n - r[i].at) = end
            OBVIOUS
        <3>1. CASE r[i] = f
            BY <2>4, <3>1
        <3>2. CASE i - 1 \in 1 .. Len(t) /\ r[i] = t[i - 1]
            <4>1. r[i] = q[i - 1 + k] /\ i - 1 + k \in 1 .. Len(q)
                BY <2>5, <3>2
            <4> HIDE DEF r
            <4> QED
                BY <1>2, <4>1
        <3> QED
            BY <2>7, <3>1, <3>2
    <2> QED
        BY <2>1, <2>7, <2>8 DEF EndsAt, r
<1> QED
    BY <1>3, <1>4

LEMMA EndsAtStep ==
    ASSUME IInv, Found(sq), AllInSequence, Contiguous, ~At("heartbeat"), [Next]_vars,
           WhatIsOffered, NEW t \in Streams,
           EndsAt(t, fifo[t], sent[t], sq.head_ts[t], longest[t])
    PROVE  EndsAt(t, fifo'[t], sent'[t], sq'.head_ts[t], longest'[t])
<1>1. TypeOK /\ sq \in QueueType
    BY QueueTypeOfSq DEF IInv, HeadsAndEnds
<1>2. /\ fifo[t] \in Seq(Frame) /\ sent[t] \in Nat /\ out[t] \in Int /\ longest[t] \in Int
      /\ fifo \in [Streams -> Seq(Frame)] /\ sent \in [Streams -> Nat]
      /\ longest \in [Streams -> Int] /\ offered \in [Streams -> Time]
      /\ sq.head_ts \in [Streams -> Time] /\ sq.head_ts[t] \in Time
    BY <1>1 DEF TypeOK, QueueType, Time
<1>3. InSequence(t, fifo[t], out[t], sent[t])
    BY DEF AllInSequence
<1>4. ASSUME NEW s \in Streams, SendFrame(s)
      PROVE  EndsAt(t, fifo'[t], sent'[t], sq'.head_ts[t], longest'[t])
    <2>1. offered[s] = sq.head_ts[s]
        <3>1. s \notin ended
            BY <1>4 DEF SendFrame
        <3> QED
            BY <3>1 DEF WhatIsOffered
    <2>2. PICK f \in NextFrames(s) :
             /\ f \in Frame /\ f.at = sent[s]
             /\ fifo' = [fifo EXCEPT ![s] = Append(fifo[s], f)]
             /\ sent' = [sent EXCEPT ![s] = sent[s] + Units(s, f)]
             /\ sq'.head_ts = [sq.head_ts EXCEPT ![s] = OfferedEnd(s, f)]
             /\ f.pts # NOPTS => frame_end(f) \in Nat /\ frame_end(f) >= sq.head_ts[s]
        BY <1>4, <2>1, SendHeads
    <2>3. longest' = longest
        BY <1>4 DEF SendFrame
    <2>4. CASE t = s
        <3> DEFINE next == OfferedEnd(t, f)
        <3>1. next = IF f.pts = NOPTS THEN sq.head_ts[t] ELSE frame_end(f)
            BY <2>1, <2>4 DEF OfferedEnd
        <3>2. next \in Time /\ next >= sq.head_ts[t]
            <4>1. \A ts \in Time : ts \in Int
                BY ConstantTypes DEF Time
            <4>2. sq.head_ts[t] \in Time /\ sq.head_ts[t] \in Int
                BY <1>2, <4>1
            <4>3. f.pts # NOPTS => frame_end(f) \in Time /\ frame_end(f) >= sq.head_ts[t]
                BY <2>2, <2>4 DEF Time
            <4> HIDE DEF next
            <4> QED
                BY <3>1, <4>2, <4>3
        <3>3. FrameSamples[t] # 0 =>
                f.pts \in Nat /\ (sq.head_ts[t] # NOPTS => f.pts = sq.head_ts[t])
            <4> SUFFICES ASSUME FrameSamples[t] # 0
                         PROVE  f.pts \in Nat /\ (sq.head_ts[t] # NOPTS => f.pts = sq.head_ts[t])
                OBVIOUS
            <4> DEFINE from == IF offered[t] = NOPTS THEN 0 ELSE offered[t]
            <4>1. t \notin Untimed /\ Gaps \subseteq {0}
                BY DEF Contiguous
            <4>2. f.pts \in {from + g : g \in Gaps}
                BY <2>4, <4>1 DEF NextFrames
            <4>3. from \in Nat /\ (sq.head_ts[t] # NOPTS => from = sq.head_ts[t])
                BY <1>2, <2>1, <2>4 DEF Time
            <4> HIDE DEF from
            <4>4. f.pts = from
                BY <4>1, <4>2, <4>3
            <4> QED
                BY <4>3, <4>4
        <3>4. /\ fifo'[t] = Append(fifo[t], f) /\ sent'[t] = sent[t] + Units(t, f)
              /\ sq'.head_ts[t] = next /\ longest'[t] = longest[t]
            BY <1>2, <2>2, <2>3, <2>4
        <3> HIDE DEF next
        <3>5. EndsAt(t, Append(fifo[t], f), sent[t] + Units(t, f), next, longest[t])
            BY <1>2, <1>3, <2>2, <2>4, <3>1, <3>2, <3>3, AppendEndsAt
        <3> QED
            BY <3>4, <3>5
    <2>5. CASE t # s
        <3>1. /\ fifo'[t] = fifo[t] /\ sent'[t] = sent[t]
              /\ sq'.head_ts[t] = sq.head_ts[t] /\ longest'[t] = longest[t]
            BY <1>2, <2>2, <2>3, <2>5
        <3> QED
            BY <3>1
    <2> QED
        BY <2>4, <2>5
<1>5. ASSUME NEW s \in Streams, Receive(s), \A u \in Streams : ~SendFrame(u)
      PROVE  EndsAt(t, fifo'[t], sent'[t], sq'.head_ts[t], longest'[t])
    <2>1. sq'.head_ts = sq.head_ts /\ sent' = sent
        BY <1>5, HeadsStay
    <2> DEFINE rest == IF FrameSamples[s] = 0 THEN Tail(fifo[s])
                       ELSE Without(fifo[s], NbSamples(s))
               most == IF TailEnd(s) > longest[s] THEN TailEnd(s) ELSE longest[s]
    <2>2. /\ fifo' = [fifo EXCEPT ![s] = rest] /\ longest' = [longest EXCEPT ![s] = most]
          /\ Ready(s) /\ fifo[s] # <<>>
        BY <1>5 DEF Receive, Ready
    <2>3. CASE t = s
        <3>1. fifo'[t] = rest /\ longest'[t] = most
            BY <1>2, <2>2, <2>3
        <3>2. TailEnd(t) \in Int /\ Head(fifo[t]) = fifo[t][1] /\ 1 \in 1 .. Len(fifo[t])
            <4>1. TailEnd(t) \in Int
                BY <1>1, <2>2, <2>3, SampleTypes
            <4> QED
                BY <1>2, <2>2, <2>3, <4>1
        <3>3. most \in Int /\ longest[t] <= most /\ TailEnd(t) <= most
            BY <1>2, <2>3, <3>2
        <3> HIDE DEF most
        <3>4. CASE FrameSamples[t] = 0
            <4>1. rest = Tail(fifo[t]) /\ frame_end(fifo[t][1]) <= most
                BY <2>3, <3>2, <3>3, <3>4 DEF TailEnd
            <4>2. EndsAt(t, Tail(fifo[t]), sent[t], sq.head_ts[t], most)
                BY <1>2, <2>2, <2>3, <3>3, <3>4, <4>1, TailEndsAt
            <4> QED
                BY <2>1, <3>1, <4>1, <4>2
        <3>5. CASE FrameSamples[t] # 0
            <4>1. rest = Without(fifo[t], NbSamples(t)) /\ fifo[t][1].pts + NbSamples(t) <= most
                BY <2>3, <3>2, <3>3, <3>5 DEF TailEnd
            <4>2. NbSamples(t) \in Nat /\ NbSamples(t) <= sent[t] - fifo[t][1].at
                BY <1>1, <1>3, <2>2, <2>3, <3>5, NbSamplesBounded
            <4>3. EndsAt(t, Without(fifo[t], NbSamples(t)), sent[t], sq.head_ts[t], most)
                BY <1>2, <1>3, <2>2, <2>3, <3>3, <3>5, <4>1, <4>2, WithoutEndsAt
            <4> QED
                BY <2>1, <3>1, <4>1, <4>3
        <3> QED
            BY <3>4, <3>5
    <2>4. CASE t # s
        BY <1>2, <2>1, <2>2, <2>4
    <2> QED
        BY <2>3, <2>4
<1>6. ASSUME \A u \in Streams : ~SendFrame(u), \A u \in Streams : ~Receive(u)
      PROVE  EndsAt(t, fifo'[t], sent'[t], sq'.head_ts[t], longest'[t])
    <2>1. sq'.head_ts = sq.head_ts /\ sent' = sent
        BY <1>6, HeadsStay
    <2>2. fifo' = fifo /\ longest' = longest
        BY <1>6, Zenon DEF Next, vars, SendRefused, SendEnd, HangUp, OverflowStart,
                           ReceiveEof, ReceiveAgain, Heartbeat
    <2> QED
        BY <2>1, <2>2
<1> QED
    BY <1>4, <1>5, <1>6

LEMMA InitAccounted == Init => Accounted
<1> SUFFICES ASSUME Init PROVE Accounted
    OBVIOUS
<1>1. ~At("heartbeat")
    BY DEF Init, Idle, At
<1>2. WhyFinished /\ WhatIsOffered
    BY DEF Init, WhyFinished, WhatIsOffered
<1>3. ASSUME NEW s \in Streams
      PROVE  EndsAt(s, fifo[s], sent[s], sq.head_ts[s], longest[s])
    <2>1. /\ fifo[s] = <<>> /\ Len(fifo[s]) = 0 /\ sq.head_ts[s] = NOPTS
          /\ longest[s] = NOPTS /\ NOPTS \in Int
        BY ConstantTypes DEF Init
    <2> QED
        BY <2>1 DEF EndsAt
<1> QED
    BY <1>1, <1>2, <1>3 DEF Accounted

LEMMA AccountedStep ==
    ASSUME IInv, Found(sq), AllInSequence, Contiguous, Accounted, [Next]_vars
    PROVE  Accounted'
<1>1. HeadsAndEnds /\ TypeOK
    BY DEF IInv, HeadsAndEnds
<1>2. At("heartbeat")' => forced'
    <2> SUFFICES ASSUME caller'.pc = "heartbeat" PROVE forced'
        BY DEF At
    <2>1. caller'.pc # "heartbeat" \/ (\E s \in Streams : OverflowStart(s))
          \/ Heartbeat \/ caller' = caller
        BY DEF Next, vars, SendFrame, SendRefused, SendEnd, Receive, HangUp, ReceiveEof,
               ReceiveAgain, GoTo, Idle
    <2>2. (\E s \in Streams : OverflowStart(s)) => forced'
        BY DEF OverflowStart
    <2>3. Heartbeat => At("heartbeat") /\ forced' = forced
        BY DEF Heartbeat
    <2>4. forced => forced'
        BY Zenon DEF Next, vars, SendFrame, SendRefused, SendEnd, Receive, HangUp,
                     OverflowStart, ReceiveEof, ReceiveAgain, Heartbeat
    <2> QED
        BY <2>1, <2>2, <2>3, <2>4 DEF Accounted, At
<1>3. ASSUME Unforced'
      PROVE  /\ WhyFinished' /\ WhatIsOffered'
             /\ \A s \in Streams : EndsAt(s, fifo'[s], sent'[s], sq'.head_ts[s], longest'[s])
    <2>1. Unforced /\ ~At("heartbeat")
        BY <1>1, <1>3, UnforcedBefore DEF Unforced, Accounted
    <2>2. WhyFinished'
        BY <1>1, <1>3, <2>1, WhyStep DEF Accounted
    <2>3. WhatIsOffered'
        BY <1>3, <2>1, OfferStep DEF Accounted
    <2>4. ASSUME NEW s \in Streams
          PROVE  EndsAt(s, fifo'[s], sent'[s], sq'.head_ts[s], longest'[s])
        BY <2>1, EndsAtStep DEF Accounted
    <2> QED
        BY <2>2, <2>3, <2>4
<1>4. \A s \in Streams :
        EndsAt(s, fifo'[s], sent'[s], sq'.head_ts[s], longest'[s]) =>
            (EndsAt(s, fifo[s], sent[s], sq.head_ts[s], longest[s]))'
    BY DEF EndsAt, frame_end
<1> QED
    BY <1>2, <1>3, <1>4 DEF Accounted

\* What is held back or refused at the end is due to a limiting stream.
LEMMA AccountedIsComplete ==
    ASSUME IInv, Found(sq), AllInSequence, Accounted, LimitsAreLimiting
    PROVE  Complete
<1> SUFFICES ASSUME closed # {}, ~forced, gone = {}, Limiting # {}, Limiting \subseteq Timed(sq),
                    NEW s \in Streams
             PROVE  /\ fifo[s] # <<>> => \E l \in Limiting : TailEnd(s) > sq.head_ts[l]
                    /\ offered[s] > longest[s] => \E l \in Limiting : offered[s] > sq.head_ts[l]
    BY DEF Complete
<1>1. TypeOK /\ sq \in QueueType /\ s \in sq.finished /\ ~Ready(s)
    BY QueueTypeOfSq DEF IInv, HeadsAndEnds, EndsAreKnown, Finished, NothingReady
<1>2. /\ fifo[s] \in Seq(Frame) /\ offered[s] \in Int /\ longest[s] \in Int
      /\ sent[s] \in Nat /\ \A l \in Streams : sq.head_ts[l] \in Int
    BY <1>1, ConstantTypes DEF TypeOK, QueueType, Time
<1> DEFINE h == sq.head_stream
<1>3. h \in Limiting /\ h >= 0 /\ h \in Streams
    BY <1>1, HeadTypes, ConstantTypes DEF Found, HeadKnown
<1>4. ASSUME fifo[s] # <<>>
      PROVE  TailEnd(s) \in Int /\ TailEnd(s) > sq.head_ts[h]
    <2>1. TailEnd(s) \in Int
        BY <1>1, <1>4, SampleTypes
    <2>2. ~(TailEnd(s) <= sq.head_ts[h])
        BY <1>1, <1>3, <1>4 DEF Ready
    <2> QED
        BY <1>2, <1>3, <2>1, <2>2
<1>5. ASSUME offered[s] > longest[s]
      PROVE  \E l \in Limiting : offered[s] > sq.head_ts[l]
    <2>1. CASE s \in NeverTimed(sq)
        BY <2>1 DEF NeverTimed
    <2>2. CASE /\ sq.head_finished_stream >= 0
               /\ sq.head_ts[sq.head_finished_stream] < offered[s]
        <3>1. sq.head_finished_stream \in Limiting /\ sq.head_finished_stream \in Streams
            BY <1>1, <2>2, HeadTypes, ConstantTypes
        <3> QED
            BY <1>2, <2>2, <3>1
    <2>3. CASE offered[s] = sq.head_ts[s]
        <3>1. EndsAt(s, fifo[s], sent[s], sq.head_ts[s], longest[s])
            BY DEF Accounted, Unforced
        <3>2. fifo[s] # <<>>
            <4> SUFFICES ASSUME fifo[s] = <<>> PROVE FALSE
                OBVIOUS
            <4>1. Len(fifo[s]) = 0
                OBVIOUS
            <4> QED
                BY <1>2, <1>5, <2>3, <3>1, <4>1 DEF EndsAt
        <3>3. Head(fifo[s]) = fifo[s][1] /\ 1 \in 1 .. Len(fifo[s])
            BY <1>2, <3>2
        <3>4. TailEnd(s) <= sq.head_ts[s]
            <4>1. CASE FrameSamples[s] = 0
                BY <3>1, <3>3, <4>1 DEF EndsAt, TailEnd
            <4>2. CASE FrameSamples[s] # 0
                <5>1. /\ fifo[s][1].pts \in Nat
                      /\ fifo[s][1].pts + (sent[s] - fifo[s][1].at) = sq.head_ts[s]
                    BY <3>1, <3>3, <4>2 DEF EndsAt
                <5>2. fifo[s][1].at \in Nat
                    BY <1>2, <3>3 DEF Frame
                <5>3. SamplesQueued(s) = sent[s] - fifo[s][1].at
                    BY <3>2, <3>3 DEF SamplesQueued
                <5>4. FrameSamples[s] \in Nat
                    BY ConstantTypes
                <5>5. NbSamples(s) \in Int /\ NbSamples(s) <= SamplesQueued(s)
                    BY <1>1, <1>2, <5>2, <5>3, <5>4 DEF NbSamples
                <5>6. TailEnd(s) = fifo[s][1].pts + NbSamples(s)
                    BY <3>3, <4>2 DEF TailEnd
                <5> QED
                    BY <1>2, <5>1, <5>2, <5>3, <5>5, <5>6
            <4> QED
                BY <4>1, <4>2
        <3> QED
            BY <1>2, <1>3, <1>4, <2>3, <3>2, <3>4
    <2> QED
        BY <2>1, <2>2, <2>3 DEF Accounted, Unforced, WhatIsOffered
<1> QED
    BY <1>3, <1>4, <1>5

\* When the queue has ended, and no heartbeat was forced, no encoder hung up and no other
\* stream than a limiting one reached its limit, a frame is missing at the encoders only
\* because it ends after a limiting stream: finish_stream() ends no stream too early, and
\* sq_receive() keeps nothing back that it may give.
THEOREM NothingIsMissing == Contiguous /\ Spec => [](LimitsAreLimiting => Complete)
<1>1. Init => IInv /\ Found(sq) /\ AllInSequence /\ Accounted
    <2>1. Init => AllInSequence
        BY DEF Init, AllInSequence, InSequence
    <2> QED
        BY <2>1, InitIInv, InitBuffered, InitAccounted DEF Buffered
<1>2. /\ Contiguous /\ IInv /\ Found(sq) /\ AllInSequence /\ Accounted /\ [Next]_vars
      => IInv' /\ Found(sq)' /\ AllInSequence' /\ Accounted'
    <2> SUFFICES ASSUME Contiguous, IInv, Found(sq), AllInSequence, Accounted, [Next]_vars
                 PROVE  IInv' /\ Found(sq)' /\ AllInSequence' /\ Accounted'
        OBVIOUS
    <2>1. HeadsAndEnds /\ TypeOK
        BY DEF IInv, HeadsAndEnds
    <2>2. Found(sq') /\ AllInSequence' /\ Accounted' /\ IInv'
        BY <2>1, FoundStep, SequenceStep, AccountedStep, IInvStep
    <2> QED
        BY <2>2 DEF Found, HeadKnown, EndIsFirst, Timed
<1>3. IInv /\ Found(sq) /\ AllInSequence /\ Accounted => (LimitsAreLimiting => Complete)
    BY AccountedIsComplete
<1>4. Contiguous => Contiguous'
    BY DEF Contiguous
<1> QED
    BY <1>1, <1>2, <1>3, <1>4, PTL DEF Spec
================================================================================
