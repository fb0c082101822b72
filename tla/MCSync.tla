------------------------------- MODULE MCSync -------------------------------
(* Instances of Sync for TLC: who puts records to which topics.            *)
EXTENDS Sync

CONSTANTS a, b

\* One node puts to the topics users subscribe to; the other only listens.
OneWriter == [n \in Node |-> IF n = a THEN Topic ELSE {}]

\* Sequence numbers a and b may assign.
Bound(i, j) == [n \in Node |-> IF n = a THEN i ELSE j]
Seq23 == Bound(2, 3)
Seq31 == Bound(3, 1)
=============================================================================
