-------------------------------- MODULE Feed --------------------------------
(***************************************************************************)
(* What the sync layer promises, without tables, batches, calls or         *)
(* retries: every node publishes a log of named records, a later record of *)
(* a name supersedes the earlier ones, and a friend is handed records of   *)
(* that log so that, topic by topic, nothing current is ever skipped.      *)
(***************************************************************************)
EXTENDS Naturals, Sequences

CONSTANTS Node, Topics,
          Names   \* triples <<type, topic, key>>

VARIABLES log,    \* log[n]: the names n published, by sequence number
          got,    \* got[n][f]: pairs <<seqno, name>> that f was handed by n
          quit    \* <<f,n,t>>: f has given up topic t of n at some time

vars == <<log, got, quit>>

TopicOf(name) == name[2]

\* Record i of n is the last one of its name.
Current(n, i) == \A j \in i + 1 .. Len(log[n]) : log[n][j] # log[n][i]

TypeOK == /\ log \in [Node -> Seq(Names)]
          /\ got \in [Node -> [Node -> SUBSET (Nat \X Names)]]
          /\ quit \subseteq Node \X Node \X Topics

Init == /\ log = [n \in Node |-> <<>>]
        /\ got = [n \in Node |-> [f \in Node |-> {}]]
        /\ quit = {}

Publish(n) == /\ \E name \in Names : log' = [log EXCEPT ![n] = Append(@, name)]
              /\ UNCHANGED <<got, quit>>

\* Record s may be handed over once every current record before it, of the same
\* topic, has been; to a friend that has given the topic up, at any time.  A record
\* handed over again is no step of this module.
Deliver(n, f, s) ==
    /\ <<f, n, TopicOf(log[n][s])>> \notin quit =>
         \A i \in 1 .. s - 1 :
           TopicOf(log[n][i]) = TopicOf(log[n][s]) /\ Current(n, i)
             => <<i, log[n][i]>> \in got[n][f]
    /\ got' = [got EXCEPT ![n][f] = @ \cup {<<s, log[n][s]>>}]
    /\ UNCHANGED <<log, quit>>

\* f unsubscribes from a topic of n, or removes n.
Unsubscribe(f, n, t) == quit' = quit \cup {<<f, n, t>>} /\ UNCHANGED <<log, got>>
Remove(f, n) == quit' = quit \cup {<<f, n, t>> : t \in Topics} /\ UNCHANGED <<log, got>>

Next == \/ \E n \in Node : Publish(n)
        \/ \E n, f \in Node :
             \/ \E s \in 1 .. Len(log[n]) : Deliver(n, f, s)
             \/ \E t \in Topics : Unsubscribe(f, n, t)
             \/ Remove(f, n)

Spec == Init /\ [][Next]_vars

\* A friend that was handed a record has every current record before it of the
\* same topic, unless it has given the topic up.
NoGap ==
    \A n, f \in Node : \A d \in got[n][f] : <<f, n, TopicOf(d[2])>> \notin quit =>
      \A i \in 1 .. d[1] - 1 :
        TopicOf(log[n][i]) = TopicOf(d[2]) /\ Current(n, i)
          => <<i, log[n][i]>> \in got[n][f]

\* What is handed over was published, under that number.
Genuine ==
    \A n, f \in Node : \A d \in got[n][f] :
      d[1] \in 1 .. Len(log[n]) /\ d[2] = log[n][d[1]]
=============================================================================
