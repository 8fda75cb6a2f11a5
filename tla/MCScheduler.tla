------------------------------ MODULE MCScheduler ------------------------------
(***************************************************************************)
(* Transcoding graphs for TLC, named after what a command line does.  Tasks *)
(* are strings; "a" and "b" are the demuxers of two input files.            *)
(***************************************************************************)
EXTENDS Scheduler

\* From an output of a task to an input of another; the only destination.
Edge(out, task, in) == [out |-> out, task |-> task, in |-> in]
Only(task, in) == <<Edge(0, task, in)>>

\* Packets 1..n of one stream; of two streams in turn.
Packets(n) == [i \in 1 .. n |-> [out |-> 0, k |-> i]]
InTurn(n) == [i \in 1 .. 2 * n |-> [out |-> (i + 1) % 2, k |-> (i + 1) \div 2]]

\* -stream_loop: the input is at its end and starts over.
Rewind == <<[out |-> -1, k |-> 0]>>

--------------------------------------------------------------------------------
(* -c:v codec -c:a copy: one file, one stream transcoded, the other copied. *)

CopyDemux == <<"a">>
CopyFilters == <<"fg">>
CopyNbInputs == [dec |-> 1, fg |-> 1, enc |-> 1, mux |-> 2]
CopyDst == [a |-> <<Edge(0, "dec", 0), Edge(1, "mux", 1)>>, dec |-> Only("fg", 0),
            fg |-> Only("enc", 0), enc |-> Only("mux", 0), mux |-> <<>>]
CopyScript == [a |-> InTurn(2)]
Copied(n) == [i \in 1 .. n |-> [out |-> 1, k |-> i]]
EarlyScript == [a |-> Copied(4) \o Packets(2) \o Rewind \o <<[out |-> 1, k |-> 5]>>]

--------------------------------------------------------------------------------
(* -i a -filter_complex "color,overlay" -map 0:a -c:a copy: the graph has   *)
(* one input and a source of its own; its stream is ahead of the copied one.*)

MixedScript == [a |-> InTurn(2) \o Rewind \o SubSeq(Packets(6), 3, 6)]
MixedFrames == [fg |-> 2]
MixedLead == [ms \in MuxStreams |-> IF ms.in = 0 THEN 5 ELSE 0]
MixedWhole == [ms \in MuxStreams |-> IF ms.in = 0 THEN 6 ELSE 2]

--------------------------------------------------------------------------------
(* -i a -i b -filter_complex overlay: two files, one filtergraph.           *)

OverlayDemux == <<"a", "b">>
OverlayNbInputs == [deca |-> 1, decb |-> 1, fg |-> 2, enc |-> 1, mux |-> 1]
OverlayDst == [a |-> Only("deca", 0), b |-> Only("decb", 0), deca |-> Only("fg", 0),
               decb |-> Only("fg", 1), fg |-> Only("enc", 0), enc |-> Only("mux", 0),
               mux |-> <<>>]
OverlayScript == [a |-> Packets(1) \o Rewind \o <<[out |-> 0, k |-> 2]>>, b |-> Packets(1)]

--------------------------------------------------------------------------------
(* -f lavfi -i testsrc -i a -i b -c:a copy: a graph with a source of its    *)
(* own beside two copied streams of two files.                              *)

LavfiNbInputs == [fg |-> 0, enc |-> 1, mux |-> 3]
LavfiDst == [a |-> Only("mux", 1), b |-> Only("mux", 2), fg |-> Only("enc", 0),
             enc |-> Only("mux", 0), mux |-> <<>>]
LavfiScript == [a |-> Packets(2), b |-> Packets(4)]
LavfiFrames == [fg |-> 7]
LavfiLimit == [ms \in MuxStreams |-> IF ms.in = 0 THEN 3 ELSE 99]

--------------------------------------------------------------------------------
(* As in the mixed graph, but the copied stream is also the one filtered:   *)
(* its packets go to the muxer and, as second destination, to a decoder.    *)

TeeDst == [a |-> <<Edge(0, "mux", 1), Edge(0, "dec", 0)>>, dec |-> Only("fg", 0),
           fg |-> Only("enc", 0), enc |-> Only("mux", 0), mux |-> <<>>]
TeeScript == [a |-> Packets(6)]
TeeLead == [ms \in MuxStreams |-> IF ms.in = 0 THEN 8 ELSE 0]

--------------------------------------------------------------------------------
AllZero == [ms \in MuxStreams |-> 0]
NoCopyLimit == [ms \in MuxStreams |-> 99]
CopyOne == [ms \in MuxStreams |-> 1]
NoOwnFrames == [f \in Filters |-> 0]
NoInputLimit == [f \in Filters |-> 99]
OneFrame == [f \in Filters |-> 1]
Each2 == [ms \in MuxStreams |-> 2]
Each6 == [ms \in MuxStreams |-> 6]
================================================================================
