------------------------------ MODULE Subsequence ------------------------------
(***************************************************************************)
(* The entries of a sequence at some of its places, in their order.  This   *)
(* is SelectSeq() with the places given as a set; it is not recursive, so   *)
(* that what it returns can be proved.                                      *)
(***************************************************************************)
EXTENDS Integers, Sequences, FiniteSets

Rank(I, j) == Cardinality({i \in I : i <= j})

Subsequence(s, I) ==
    [k \in 1 .. Cardinality(I) |-> s[CHOOSE j \in I : Rank(I, j) = k]]
================================================================================
