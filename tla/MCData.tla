------------------------------- MODULE MCData -------------------------------
(* Instances of Data for TLC: who is whose friend, where records are put, and *)
(* the order of hashes.                                                       *)
EXTENDS Data

CONSTANTS a, b, c, v, w, t, u, k, m, g, h

\* Friends in a line: what a writes reaches c through b.
Pair == {<<a, b>>, <<b, a>>}
Line == Pair \cup {<<b, c>>, <<c, b>>}

\* Either is a tree with a, the writer, at its root (DataProofs).
Up == [n \in Node |-> IF n = c THEN b ELSE a]
ASSUME TreeAssumption == Tree(Up)

\* Two records of one topic, which may have the same value.
TwoKeys == {<<t, k>>, <<t, m>>}
\* Three records of two topics that may share a blob.
ThreePlaces == {<<t, k>>, <<t, m>>, <<u, k>>}

\* v is the smaller hash.
VFirst == [x \in Blob |-> IF x = v THEN 0 ELSE 1]
=============================================================================
