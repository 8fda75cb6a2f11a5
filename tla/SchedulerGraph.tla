---------------------------- MODULE SchedulerGraph ----------------------------
(***************************************************************************)
(* fftools/ffmpeg_sched.c: the transcoding graph and the decision which     *)
(* sources of data may run.  Tasks are demuxers, decoders, filtergraphs,    *)
(* encoders and muxers.  Only the sources - demuxers and filtergraphs - are *)
(* ever choked; the rest follows from full and empty queues.                *)
(***************************************************************************)
EXTENDS Subsequence

CONSTANTS
    demux,      \* sch->demux: the demuxers, in order
    filters,    \* sch->filters: the filtergraphs, in order
    Decoders, Encoders, Muxers,
    NbInputs,   \* inputs of a filtergraph, streams of a muxer, 1 for the rest
    Dst,        \* per task, its destinations in order: [out, task, in] leads
                \* from output out of the task to input in of another one
    Tolerance   \* SCHEDULE_TOLERANCE in units of the timestamps

Demuxers == {demux[i] : i \in DOMAIN demux}
Filters == {filters[i] : i \in DOMAIN filters}
Sources == Demuxers \cup Filters
Consumers == Filters \cup Decoders \cup Encoders \cup Muxers
Tasks == Demuxers \cup Consumers

Targets(t) == {Dst[t][i] : i \in DOMAIN Dst[t]}
Inputs(t) == 0 .. NbInputs[t] - 1
Edges == UNION {Targets(t) : t \in Tasks}
MuxStreams == {[task |-> n.task, in |-> n.in] : n \in {e \in Edges : e.task \in Muxers}}
FilterInputs == {[task |-> f, in |-> i] : f \in Filters,
                    i \in UNION {Inputs(g) : g \in Filters}}

\* The task at the other end of an input.
SrcTask(t, i) == CHOOSE u \in Tasks : \E n \in Targets(u) : n.task = t /\ n.in = i

Kinds == <<Demuxers, Filters, Decoders, Encoders, Muxers>>

\* What sch_connect() and start_prepare() accept, without the two links that are not
\* modelled: a decoder of subtitles that feeds an encoder, and an encoder that feeds a
\* decoder (-dec, loopback).
ASSUME SchedulerGraphAssumption ==
    /\ \A i, j \in DOMAIN Kinds : i # j => Kinds[i] \cap Kinds[j] = {}
    /\ IsFiniteSet(Muxers)
    /\ NbInputs \in [Consumers -> Nat]
    /\ \A t \in Decoders \cup Encoders : NbInputs[t] = 1
    /\ \A t \in Tasks : Dst[t] \in Seq([out : Nat, task : Consumers, in : Nat])
    /\ \A m \in Muxers : Dst[m] = <<>>
    /\ \A t \in Tasks : \A n \in Targets(t) : n.task \in Consumers /\ n.in \in Inputs(n.task)
    /\ \A t \in Consumers : \A i \in Inputs(t) :    \* one place leads to it
          \E u \in Tasks : \E j \in DOMAIN Dst[u] :
              \A v \in Tasks : \A k \in DOMAIN Dst[v] :
                  Dst[v][k].task = t /\ Dst[v][k].in = i <=> v = u /\ k = j
    /\ \A d \in Demuxers : \A n \in Targets(d) : n.task \in Decoders \cup Muxers
    /\ \A t \in Decoders : \A n \in Targets(t) : n.task \in Filters
    /\ \A t \in Encoders : \A n \in Targets(t) : n.task \in Muxers
    /\ \A t \in Filters : \A n \in Targets(t) : n.task \in Filters \cup Encoders
    /\ Tolerance \in Nat \ {0}

NOPTS == -1     \* AV_NOPTS_VALUE

--------------------------------------------------------------------------------
(* Which output streams ask for data.  last is last_dts, fin the streams    *)
(* whose source is finished.                                                *)

trailing_dts(last, fin) ==
    LET open == {last[ms] : ms \in MuxStreams \ fin} IN
    IF open = {} \/ NOPTS \in open THEN NOPTS
                                   ELSE CHOOSE d \in open : \A e \in open : d <= e

NotTooFarAheadNever(ms, last, dts) == TRUE                     \* mutant

NotTooFarAhead(ms, last, dts) ==
    IF dts = NOPTS THEN last[ms] = NOPTS ELSE last[ms] - dts < Tolerance

Wanting(last, fin) ==
    LET dts == trailing_dts(last, fin) IN
    {ms \in MuxStreams \ fin : NotTooFarAhead(ms, last, dts)}

--------------------------------------------------------------------------------
(* Which source brings that data.  best is best_input: the input a          *)
(* filtergraph wants, or nb_inputs when it wants to run by itself.          *)

\* The source next above an input, through the decoders and encoders.
SourceAbove ==
    [t \in Consumers |-> [i \in Inputs(t) |->
        LET up[k \in Nat] == IF k = 0 THEN SrcTask(t, i)
                             ELSE LET u == up[k - 1] IN
                                  IF u \in Sources THEN u ELSE SrcTask(u, 0)
        IN up[2]]]

\* unchoke_for_stream(): from source s follow the graph upstream, through the
\* filtergraphs by the input they want.
SourceOf(s, best) ==
    LET up[k \in 0 .. Len(filters)] ==
            IF k = 0 THEN s
            ELSE LET u == up[k - 1] IN
                 IF u \in Filters /\ best[u] < NbInputs[u] THEN SourceAbove[u][best[u]] ELSE u
    IN up[Len(filters)]

\* The tasks unchoke_downstream() looks at next: the first destination of
\* every stream of a demuxer or output of a decoder.
NextDownstream(u) ==
    {Dst[u][i].task : i \in {j \in DOMAIN Dst[u] :
        u \in Encoders \/ \A k \in 1 .. j - 1 : Dst[u][k].out # Dst[u][j].out}}

\* The filtergraphs a demuxer reaches through decoders and encoders.
FiltersBelow ==
    [d \in Demuxers |->
        LET reach[k \in 0 .. Cardinality(Tasks)] ==
                IF k = 0 THEN NextDownstream(d)
                ELSE reach[k - 1] \cup UNION {NextDownstream(u) :
                        u \in reach[k - 1] \cap (Decoders \cup Encoders)}
        IN reach[Cardinality(Tasks)] \cap Filters]

ClosureNone(S, best) == S                                      \* mutant

\* unchoke_downstream(): with a demuxer goes whatever the filtergraphs below
\* it wait for, or they would not take its data.
WithDownstream(S, best) ==
    LET grow[k \in 0 .. Cardinality(Sources)] ==
            IF k = 0 THEN S
            ELSE grow[k - 1] \cup {SourceOf(f, best) :
                    f \in UNION {FiltersBelow[d] : d \in grow[k - 1] \cap Demuxers}}
    IN grow[Cardinality(Sources)]

FirstOf(list, set) ==
    {list[i] : i \in {j \in DOMAIN list : list[j] \in set
                        /\ \A k \in 1 .. j - 1 : list[k] \notin set}}

\* UNCHOKE_ONCE: the first demuxer, else the first filtergraph, still there.
UnchokeOnce(exited) ==
    IF Demuxers \ exited # {} THEN FirstOf(demux, Demuxers \ exited)
                              ELSE FirstOf(filters, Filters \ exited)

\* The sources that may run.  closed are the filtergraph inputs that were
\* closed downstream but whose source does not know yet.
Unchoked(last, fin, best, closed, exited) ==
    LET want == Wanting(last, fin)
        wanted == {SourceOf(SourceAbove[n.task][n.in], best) : n \in want \cup closed}
    IN WithDownstream(wanted, best)
         \cup (IF want = {} THEN UnchokeOnce(exited) ELSE {})

\* choke_demux(): the decoder queues that are frozen along with a demuxer.
FrozenWith == [d \in Demuxers |-> NextDownstream(d) \cap Decoders]
================================================================================
