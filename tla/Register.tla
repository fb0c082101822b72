------------------------------ MODULE Register ------------------------------
(***************************************************************************)
(* What the meta layer promises, without permissions, messages or tables:  *)
(* every node has, for each name, at most one version; a version is made   *)
(* once, and a node only ever exchanges its version for one that somebody  *)
(* made and that outranks it.                                              *)
(***************************************************************************)
EXTENDS Integers

CONSTANTS Node, Name, Value, ValueRank(_)

VARIABLES made,   \* the versions made so far
          has     \* has[n]: the versions n has, one for each name at most

vars == <<made, has>>

Version == [name : Name, pri : Nat, val : Value]

Outranks(r, q) == r.pri > q.pri \/ (r.pri = q.pri /\ ValueRank(r.val) > ValueRank(q.val))

Init == made = {} /\ has = [n \in Node |-> {}]

\* n takes r for its version of r.name.
Take(n, r) ==
    LET old == {q \in has[n] : q.name = r.name}
    IN  /\ \A q \in old : Outranks(r, q)
        /\ has' = [has EXCEPT ![n] = (@ \ old) \cup {r}]

\* A new version has a priority that no other version of its name has.
Make(n, r) ==
    /\ r \in Version /\ \A q \in made : q.name = r.name => q.pri < r.pri
    /\ made' = made \cup {r}
    /\ Take(n, r)

Learn(n, r) == r \in made /\ Take(n, r) /\ UNCHANGED made

Next == \E n \in Node :
          \/ \E r \in made' \ made : Make(n, r)
          \/ \E r \in made : Learn(n, r)

Spec == Init /\ [][Next]_vars
=============================================================================
