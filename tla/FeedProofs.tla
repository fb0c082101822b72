----------------------------- MODULE FeedProofs -----------------------------
(***************************************************************************)
(* What the abstract feed guarantees: records handed over are those that   *)
(* were published, and leave no gap.                                       *)
(***************************************************************************)
EXTENDS Feed, TLAPS

\* Publish adds at the end, under the next number, and makes nothing current of what
\* was superseded.
LEMMA Published ==
    ASSUME TypeOK, NEW n \in Node, Publish(n), NEW m \in Node
    PROVE  /\ Len(log[m]) \in Nat /\ Len(log'[m]) \in Nat /\ Len(log[m]) <= Len(log'[m])
           /\ \A i \in 1 .. Len(log[m]) : log'[m][i] = log[m][i]
           /\ \A i \in 1 .. Len(log[m]) : Current(m, i)' => Current(m, i)
<1>1. PICK name \in Names : log' = [log EXCEPT ![n] = Append(log[n], name)]
  BY DEF Publish
<1>2. log \in [Node -> Seq(Names)]
  BY DEF TypeOK
<1>3. /\ Len(log[m]) \in Nat /\ Len(log'[m]) \in Nat /\ Len(log[m]) <= Len(log'[m])
      /\ \A i \in 1 .. Len(log[m]) : log'[m][i] = log[m][i]
  <2>1. CASE m = n
    <3>1. log'[m] = Append(log[m], name) /\ log[m] \in Seq(Names)
      BY <1>1, <1>2, <2>1
    <3> QED
      BY <3>1
  <2>2. CASE m # n
    <3>1. log'[m] = log[m] /\ log[m] \in Seq(Names)
      BY <1>1, <1>2, <2>2
    <3> QED
      BY <3>1
  <2> QED
    BY <2>1, <2>2
<1>4. ASSUME NEW i \in 1 .. Len(log[m]), Current(m, i)'
      PROVE  Current(m, i)
  <2>1. \A j \in i + 1 .. Len(log'[m]) : log'[m][j] # log'[m][i]
    BY <1>4 DEF Current
  <2>2. ASSUME NEW j \in i + 1 .. Len(log[m])
        PROVE  log[m][j] # log[m][i]
    <3>1. j \in i + 1 .. Len(log'[m]) /\ j \in 1 .. Len(log[m])
      BY <1>3
    <3> QED
      BY <1>3, <2>1, <3>1
  <2> QED
    BY <2>2 DEF Current
<1> QED
  BY <1>3, <1>4

\* Every step keeps the types.
LEMMA StepTypes == TypeOK /\ [Next]_vars => TypeOK'
<1> SUFFICES ASSUME TypeOK, [Next]_vars PROVE TypeOK'
  OBVIOUS
<1> USE DEF TypeOK
<1>1. ASSUME NEW n \in Node, Publish(n) PROVE TypeOK'
  <2>1. PICK name \in Names : log' = [log EXCEPT ![n] = Append(log[n], name)]
    BY <1>1 DEF Publish
  <2>2. log' \in [Node -> Seq(Names)]
    BY <2>1
  <2> QED
    BY <1>1, <2>2 DEF Publish
<1>2. ASSUME NEW n \in Node, NEW f \in Node, NEW s \in 1 .. Len(log[n]), Deliver(n, f, s)
      PROVE  TypeOK'
  <2>1. log[n] \in Seq(Names) /\ log[n][s] \in Names /\ s \in Nat
    OBVIOUS
  <2>2. PICK d \in Nat \X Names : d = <<s, log[n][s]>>
    BY <2>1
  <2>3. got' = [got EXCEPT ![n][f] = got[n][f] \cup {d}]
    BY <1>2, <2>2 DEF Deliver
  <2>4. got' \in [Node -> [Node -> SUBSET (Nat \X Names)]]
    BY <2>3
  <2> QED
    BY <1>2, <2>4 DEF Deliver
<1>3. ASSUME NEW n \in Node, NEW f \in Node,
             (\E t \in Topics : Unsubscribe(f, n, t)) \/ Remove(f, n)
      PROVE  TypeOK'
  BY <1>3 DEF Unsubscribe, Remove
<1>4. CASE UNCHANGED vars
  BY <1>4 DEF vars
<1> QED
  BY <1>1, <1>2, <1>3, <1>4 DEF Next

\* A record that was handed over stays in the log under its number.
LEMMA StepGenuine == TypeOK /\ Genuine /\ [Next]_vars => Genuine'
<1> SUFFICES ASSUME TypeOK, Genuine, [Next]_vars,
                    NEW m \in Node, NEW g \in Node, NEW d \in got'[m][g]
             PROVE  d[1] \in 1 .. Len(log'[m]) /\ d[2] = log'[m][d[1]]
  BY DEF Genuine
<1>1. d \in got[m][g] => d[1] \in 1 .. Len(log[m]) /\ d[2] = log[m][d[1]]
  BY DEF Genuine
<1>2. ASSUME NEW n \in Node, Publish(n)
      PROVE  d[1] \in 1 .. Len(log'[m]) /\ d[2] = log'[m][d[1]]
  <2>1. d \in got[m][g]
    BY <1>2 DEF Publish
  <2>2. /\ Len(log[m]) \in Nat /\ Len(log'[m]) \in Nat /\ Len(log[m]) <= Len(log'[m])
        /\ \A i \in 1 .. Len(log[m]) : log'[m][i] = log[m][i]
    BY <1>2, Published
  <2> QED
    BY <1>1, <2>1, <2>2
<1>3. ASSUME NEW n \in Node, NEW f \in Node, NEW s \in 1 .. Len(log[n]), Deliver(n, f, s)
      PROVE  d[1] \in 1 .. Len(log'[m]) /\ d[2] = log'[m][d[1]]
  <2>1. d \in got[m][g] \/ (m = n /\ d = <<s, log[n][s]>>)
    BY <1>3 DEF Deliver, TypeOK
  <2>2. log' = log
    BY <1>3 DEF Deliver
  <2> QED
    BY <1>1, <2>1, <2>2
<1>4. CASE UNCHANGED <<log, got>>
  BY <1>1, <1>4
<1> QED
  BY <1>2, <1>3, <1>4 DEF Next, Unsubscribe, Remove, vars

\* Deliver closes no gap late, and Publish and superseding open none.
LEMMA StepNoGap == TypeOK /\ Genuine /\ NoGap /\ [Next]_vars => NoGap'
<1> SUFFICES ASSUME TypeOK, Genuine, NoGap, [Next]_vars,
                    NEW m \in Node, NEW g \in Node, NEW d \in got'[m][g],
                    NEW i \in 1 .. d[1] - 1, <<g, m, TopicOf(d[2])>> \notin quit',
                    TopicOf(log'[m][i]) = TopicOf(d[2]), Current(m, i)'
             PROVE  <<i, log'[m][i]>> \in got'[m][g]
  BY DEF NoGap
<1> DEFINE Goal == <<i, log'[m][i]>> \in got'[m][g]
<1>1. d \in got[m][g] =>
        /\ d[1] \in 1 .. Len(log[m]) /\ d[2] = log[m][d[1]]
        /\ (/\ <<g, m, TopicOf(d[2])>> \notin quit
            /\ TopicOf(log[m][i]) = TopicOf(d[2]) /\ Current(m, i))
           => <<i, log[m][i]>> \in got[m][g]
  BY DEF Genuine, NoGap
<1>2. ASSUME NEW n \in Node, Publish(n)
      PROVE  Goal
  <2>1. got' = got /\ quit' = quit
    BY <1>2 DEF Publish
  <2>2. /\ Len(log[m]) \in Nat
        /\ \A k \in 1 .. Len(log[m]) : log'[m][k] = log[m][k]
        /\ \A k \in 1 .. Len(log[m]) : Current(m, k)' => Current(m, k)
    BY <1>2, Published
  <2>3. i \in 1 .. Len(log[m])
    BY <1>1, <2>1, <2>2
  <2> QED
    BY <1>1, <2>1, <2>2, <2>3
<1>3. ASSUME NEW n \in Node, NEW f \in Node, NEW s \in 1 .. Len(log[n]), Deliver(n, f, s)
      PROVE  Goal
  <2>1. /\ log' = log /\ quit' = quit
        /\ got' = [got EXCEPT ![n][f] = got[n][f] \cup {<<s, log[n][s]>>}]
    BY <1>3 DEF Deliver
  <2>2. Current(m, i) /\ got[m][g] \subseteq got'[m][g]
    BY <2>1 DEF Current, TypeOK
  <2>3. CASE d \in got[m][g]
    BY <1>1, <2>1, <2>2, <2>3
  <2>4. CASE d \notin got[m][g]
    <3>1. m = n /\ g = f /\ d = <<s, log[n][s]>>
      BY <2>1, <2>4 DEF TypeOK
    <3>2. <<i, log[n][i]>> \in got[n][f]
      BY <1>3, <2>1, <2>2, <3>1 DEF Deliver
    <3> QED
      BY <2>1, <2>2, <3>1, <3>2
  <2> QED
    BY <2>3, <2>4
<1>4. CASE UNCHANGED <<log, got>> /\ quit \subseteq quit'
  BY <1>1, <1>4 DEF Current
<1> QED
  BY <1>2, <1>3, <1>4 DEF Next, Unsubscribe, Remove, vars

\* A feed hands over what was published, under its number, and topic by topic without
\* a gap until the friend gives the topic up: the sense of "the sync layer delivers
\* every record of a topic in order" that survives a record being superseded.
THEOREM FeedCorrect == Spec => [](TypeOK /\ Genuine /\ NoGap)
<1> DEFINE IInv == TypeOK /\ Genuine /\ NoGap
<1>1. Init => IInv
  BY DEF Init, TypeOK, Genuine, NoGap
<1>2. IInv /\ [Next]_vars => IInv'
  BY StepTypes, StepGenuine, StepNoGap
<1> HIDE DEF IInv
<1>3. Spec => []IInv
  BY <1>1, <1>2, PTL DEF Spec
<1> QED
  BY <1>3, PTL DEF IInv
=============================================================================
