------------------------------- MODULE MCLink -------------------------------
(* Instances of Link for TLC: which addresses friends may get. *)
EXTENDS Link

CONSTANTS f, x, y, p, q

\* Each friend moves among all addresses.
Anywhere == [h \in Friend |-> Addr]
=============================================================================
