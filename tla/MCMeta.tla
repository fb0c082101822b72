------------------------------- MODULE MCMeta -------------------------------
(* Instances of Meta for TLC: who is whose friend, and the order of values. *)
EXTENDS Meta

CONSTANTS a, b, c, v, w, k

Pair == {<<a, b>>, <<b, a>>}
\* Friends in a line: what a puts reaches c through b.
Line == {<<a, b>>, <<b, a>>, <<b, c>>, <<c, b>>}

\* Either is a tree, with b next to everybody (MetaProofs).
Hop == [x \in Node |-> [n \in Node |-> IF n = x THEN n ELSE IF n = b THEN x ELSE b]]
ASSUME FriendsAssumption == Tree(Hop)

VFirst == [x \in Value |-> IF x = v THEN 0 ELSE 1]
=============================================================================
