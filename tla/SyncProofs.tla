----------------------------- MODULE SyncProofs -----------------------------
(***************************************************************************)
(* Theorems about Sync for every set of nodes, topics and keys and every   *)
(* value of the bounds: types, cursors and wakeups first, then what is     *)
(* delivered.  No record is skipped that the friend has wanted all along,  *)
(* Sync implements Feed, and without crashes and abandoned handlers        *)
(* records come once and in order.                                         *)
(***************************************************************************)
EXTENDS Sync, FiniteSetTheorems, TLAPS

Triples == {"sub", "data"} \X AllTopic \X (Key \cup Topic)

\* The topics nodes derive are topics.
LEMMA DerivedTopics ==
    ASSUME NEW n \in Node, NEW f \in Node
    PROVE  Box(n, f) \in AllTopic /\ Profile(n) \in AllTopic
BY DEF AllTopic

\* The topics of users are topics.
LEMMA UserTopics == ASSUME NEW t \in Topic PROVE t \in AllTopic
BY DEF AllTopic

\* So are those a node writes to.
LEMMA WritableTopics ==
    ASSUME NEW n \in Node, NEW t \in Writable[n] PROVE t \in AllTopic
BY TopicAssumption

-----------------------------------------------------------------------------
(* Put: the sequence number of a new row, and the table after it.          *)

\* What Store does to the table, the history and the loopers (Put).
LEMMA StoreTypes ==
    ASSUME TypeOK, TableIsLatest, NEW n \in Node, NEW r \in Row, Store(n, r)
    PROVE  /\ obj' \in [Node -> SUBSET Row]
           /\ log' \in [Node -> Seq(Triples)]
           /\ looper' \in [Node -> [Node -> {"none", "run", "sleep", "sent"}]]
           /\ \A m \in Node : Len(log[m]) \in Nat /\ Len(log[m]) <= Len(log'[m])
<1> DEFINE new == [r EXCEPT !.seq = LastSeq(n) + 1]
<1>1. LastSeq(n) \in Nat
  BY DEF TypeOK, TableIsLatest
<1>2. new \in Row /\ Name(r) \in Triples
  BY <1>1 DEF Row, Name, Triples
<1>3. obj' = [obj EXCEPT ![n] = {q \in @ : Name(q) # Name(r)} \cup {new}]
  BY DEF Store
<1>4. obj' \in [Node -> SUBSET Row]
  BY <1>2, <1>3 DEF TypeOK
<1>5. log \in [Node -> Seq(Triples)]
  BY DEF TypeOK, Triples
<1>6. log' = [log EXCEPT ![n] = Append(@, Name(r))]
  BY DEF Store
<1>7. /\ log' \in [Node -> Seq(Triples)]
      /\ \A m \in Node : Len(log[m]) \in Nat /\ Len(log[m]) <= Len(log'[m])
  BY <1>2, <1>5, <1>6
<1>8. looper' \in [Node -> [Node -> {"none", "run", "sleep", "sent"}]]
  BY DEF Store, TypeOK, Wake
<1> QED
  BY <1>4, <1>7, <1>8

\* A new row gets a number above every other, and the table stays the last Put of
\* every primary key.
LEMMA StoreTable ==
    ASSUME TypeOK, TableIsLatest, NEW n \in Node, NEW r \in Row, Store(n, r)
    PROVE  TableIsLatest'
<1> DEFINE new == [r EXCEPT !.seq = LastSeq(n) + 1]
           L == Len(log[n])
<1>1. L \in Nat /\ LastSeq(n) = L /\ log \in [Node -> Seq(Triples)]
  BY DEF TypeOK, TableIsLatest, Triples
<1>2. /\ obj' = [obj EXCEPT ![n] = {q \in obj[n] : Name(q) # Name(r)} \cup {new}]
      /\ log' = [log EXCEPT ![n] = Append(log[n], Name(r))]
      /\ obj \in [Node -> SUBSET Row]
  BY DEF Store, TypeOK
<1>3. new.seq = L + 1 /\ Name(new) = Name(r) /\ Name(r) \in Triples
  BY <1>1 DEF Row, Name, Triples
<1>4. /\ obj'[n] = {q \in obj[n] : Name(q) # Name(r)} \cup {new}
      /\ log'[n] = Append(log[n], Name(r))
      /\ Len(log'[n]) = L + 1
      /\ log'[n][L + 1] = Name(r)
      /\ \A i \in 1 .. L : log'[n][i] = log[n][i]
  BY <1>1, <1>2, <1>3
<1>5. \A q \in obj[n] : q.seq \in 1 .. L /\ log[n][q.seq] = Name(q)
  BY DEF TableIsLatest
<1>13. new.seq \in 1 .. L + 1 /\ L + 1 \in Nat /\ L <= L + 1
  BY <1>1, <1>3
<1> HIDE DEF L, new
<1>6. LastSeq(n)' = L + 1
  <2> DEFINE S == {0} \cup {q.seq : q \in obj'[n]}
  <2>1. L + 1 \in S /\ \A k \in S : k \in Nat /\ k <= L + 1
    <3>1. \A q \in obj'[n] : q.seq \in Nat /\ q.seq <= L + 1
      BY <1>1, <1>3, <1>4, <1>5, <1>13
    <3>2. L + 1 \in {q.seq : q \in obj'[n]}
      BY <1>3, <1>4
    <3> QED
      BY <1>1, <3>1, <3>2
  <2>2. \A m \in S : (\A k \in S : k <= m) => m = L + 1
    BY <1>1, <2>1
  <2>3. (CHOOSE m \in S : \A k \in S : k <= m) = L + 1
    BY <2>1, <2>2
  <2> QED
    BY <2>3 DEF LastSeq
<1>7. \A q \in obj'[n] : q.seq \in 1 .. L + 1 /\ log'[n][q.seq] = Name(q)
  <2>1. ASSUME NEW q \in obj[n]
        PROVE  q.seq \in 1 .. L + 1 /\ log'[n][q.seq] = Name(q)
    BY <1>1, <1>4, <1>5
  <2>2. new.seq \in 1 .. L + 1 /\ log'[n][new.seq] = Name(new)
    BY <1>3, <1>4, <1>13
  <2> QED
    BY <1>4, <2>1, <2>2
<1>8. \A i \in 1 .. L + 1 :
        (\A j \in i + 1 .. L + 1 : log'[n][j] # log'[n][i])
          <=> (\E q \in obj'[n] : q.seq = i)
  <2> SUFFICES ASSUME NEW i \in 1 .. L + 1
               PROVE  (\A j \in i + 1 .. L + 1 : log'[n][j] # log'[n][i])
                        <=> (\E q \in obj'[n] : q.seq = i)
    OBVIOUS
  <2>1. CASE i = L + 1
    <3>1. \E q \in obj'[n] : q.seq = i
      BY <1>3, <1>4, <2>1
    <3>2. i + 1 .. L + 1 = {}
      BY <1>1, <2>1
    <3> QED
      BY <3>1, <3>2
  <2>2. CASE i # L + 1
    <3>1. i \in 1 .. L /\ new.seq # i
      BY <1>1, <1>3, <2>2
    <3>2. (\A j \in i + 1 .. L : log[n][j] # log[n][i]) <=> (\E q \in obj[n] : q.seq = i)
      BY <3>1 DEF TableIsLatest, L
    <3>3. (\A j \in i + 1 .. L + 1 : log'[n][j] # log'[n][i])
            <=> (\A j \in i + 1 .. L : log[n][j] # log[n][i]) /\ Name(r) # log[n][i]
      <4>0. log'[n][i] = log[n][i]
        BY <1>4, <3>1
      <4>1. i + 1 .. L + 1 = (i + 1 .. L) \cup {L + 1}
        BY <1>1, <3>1
      <4>2. \A j \in i + 1 .. L : log'[n][j] = log[n][j]
        BY <1>1, <1>4, <3>1
      <4> QED
        BY <1>4, <4>0, <4>1, <4>2
    <3>4. (\E q \in obj'[n] : q.seq = i)
            <=> (\E q \in obj[n] : q.seq = i) /\ Name(r) # log[n][i]
      BY <1>4, <1>5, <3>1
    <3> QED
      BY <3>2, <3>3, <3>4
  <2> QED
    BY <2>1, <2>2
<1>9. \A m \in Node \ {n} : obj'[m] = obj[m] /\ log'[m] = log[m]
  BY <1>1, <1>2
<1>10. \A m \in Node \ {n} : LastSeq(m)' = LastSeq(m)
  BY <1>9 DEF LastSeq
<1>11. ASSUME NEW m \in Node \ {n}
       PROVE  /\ LastSeq(m)' = Len(log'[m])
              /\ \A q \in obj'[m] : q.seq \in 1 .. Len(log'[m]) /\ log'[m][q.seq] = Name(q)
              /\ \A i \in 1 .. Len(log'[m]) :
                   (\A j \in i + 1 .. Len(log'[m]) : log'[m][j] # log'[m][i])
                     <=> (\E q \in obj'[m] : q.seq = i)
  BY <1>9, <1>10 DEF TableIsLatest
<1>12. Len(log'[n]) = L + 1
  BY <1>4
<1> QED
  BY <1>6, <1>7, <1>8, <1>11, <1>12, SMTT(40) DEF TableIsLatest

-----------------------------------------------------------------------------
(* Types, and the table invariant the type of acked rests on.              *)

\* The acked value of an answer is that of the row, or the number of a row sent.
LEMMA AckOfRow ==
    ASSUME TypeOK, NEW n \in Node, NEW f \in Node, NEW t \in AllTopic
    PROVE  /\ AckOf(n, f, t) \in Nat
           /\ AckOf(n, f, t) = acked[n][f][t] \/ \E r \in batch[n][f] : AckOf(n, f, t) = r.seq
<1> DEFINE A == {r \in Tops(batch[n][f]) : r.topic = t}
<1>1. A \subseteq batch[n][f] /\ batch[n][f] \subseteq Row /\ acked[n][f][t] \in Nat
  BY DEF TypeOK, Tops
<1>2. \A r \in Row : r.seq \in Nat
  BY DEF Row
<1>3. AckOf(n, f, t) = IF A = {} THEN acked[n][f][t] ELSE (CHOOSE r \in A : TRUE).seq
  BY DEF AckOf
<1> HIDE DEF A
<1>4. CASE A = {}
  BY <1>1, <1>3, <1>4
<1>5. CASE A # {}
  <2>1. (CHOOSE r \in A : TRUE) \in A
    BY <1>5
  <2> QED
    BY <1>1, <1>2, <1>3, <1>5, <2>1
<1> QED
  BY <1>4, <1>5

\* A handler that advances keeps its type.
LEMMA AdvanceTypes ==
    ASSUME TypeOK, NEW f \in Node, NEW n \in Node, NEW s \in Slot,
           NEW r \in First(hnd[f][n][s].todo), Advance(f, n, s, r)
    PROVE  hnd' \in [Node -> [Node -> [Slot -> Handler]]]
<1>1. hnd[f][n][s] \in Handler
  BY DEF TypeOK
<1>2. hnd[f][n][s].todo \ {r} \in SUBSET Row
  BY <1>1 DEF Handler
<1> QED
  BY <1>2 DEF Advance, TypeOK, Handler, Idle, At

\* What is abandoned is a handler.
LEMMA AbandonedTypes ==
    ASSUME TypeOK, NEW n \in Node, NEW f \in Node
    PROVE  Abandoned(n, f) \in [Slot -> Handler]
BY DEF Abandoned, TypeOK, Handler, Idle, At, Slot

\* Rows at the head of a handler are rows.
LEMMA FirstRow ==
    ASSUME TypeOK, NEW f \in Node, NEW n \in Node, NEW s \in Slot,
           NEW r \in First(hnd[f][n][s].todo)
    PROVE  /\ r \in Row /\ r \in hnd[f][n][s].todo
           /\ r.seq \in Nat /\ r.topic \in AllTopic /\ r.priority \in Nat
           /\ r.value \in BOOLEAN /\ Name(r) \in Triples
<1>1. hnd[f][n][s] \in Handler
  BY DEF TypeOK
<1>2. r \in Row /\ r \in hnd[f][n][s].todo
  BY <1>1 DEF First, Handler
<1> QED
  BY <1>2 DEF Row, Name, Triples

\* At the start every table is empty.
LEMMA InitTypes == Init => TypeOK /\ TableIsLatest
<1> SUFFICES ASSUME Init PROVE TypeOK /\ TableIsLatest
  OBVIOUS
<1>1. TypeOK
  BY DEF Init, TypeOK, Handler, Idle, At
<1>2. TableIsLatest
  <2> SUFFICES ASSUME NEW n \in Node
               PROVE  /\ LastSeq(n) = 0
                      /\ log[n] = <<>> /\ obj[n] = {}
    BY DEF TableIsLatest
  <2>1. log[n] = <<>> /\ obj[n] = {}
    BY DEF Init
  <2>2. {0} \cup {r.seq : r \in obj[n]} = {0}
    BY <2>1
  <2>3. (CHOOSE m \in {0} : \A k \in {0} : k <= m) = 0
    OBVIOUS
  <2> QED
    BY <2>1, <2>2, <2>3 DEF LastSeq
<1> QED
  BY <1>1, <1>2

\* TableIsLatest depends on the table and the history alone.
LEMMA TableUnchanged ==
    ASSUME TableIsLatest, UNCHANGED <<obj, log>> PROVE TableIsLatest'
BY DEF TableIsLatest, LastSeq

\* Every step keeps types, and tables the latest records.
LEMMA StepTypes == TypeOK /\ TableIsLatest /\ [Next]_vars => TypeOK' /\ TableIsLatest'
<1> SUFFICES ASSUME TypeOK, TableIsLatest, [Next]_vars
             PROVE  TypeOK' /\ TableIsLatest'
  OBVIOUS
<1> USE DEF tables
<1>1. ASSUME NEW n \in Node, NEW t \in Writable[n], NEW k \in Key, Put(n, t, k)
      PROVE  TypeOK' /\ TableIsLatest'
  <2> DEFINE row == [type |-> "data", topic |-> t, key |-> k, seq |-> 0,
                     value |-> TRUE, priority |-> 0]
  <2>1. row \in Row
    BY WritableTopics DEF Row
  <2>2. Store(n, row)
    BY <1>1 DEF Put
  <2> HIDE DEF row
  <2> QED
    BY <1>1, <2>1, <2>2, StoreTypes, StoreTable DEF Put, TypeOK, Triples
<1>2. ASSUME NEW n \in Node, NEW f \in Node, NEW c \in Caller, NEW t \in Topic,
             NEW e \in Enables, SubLookup(n, c, f, t, e)
      PROVE  TypeOK' /\ TableIsLatest'
  <2>1. e \in BOOLEAN
    BY EnablesAssumption
  <2>2. calls' \subseteq Call
    BY <1>2, <2>1 DEF SubLookup, Call, TypeOK
  <2> QED
    BY <1>2, <2>2, TableUnchanged DEF SubLookup, TypeOK
<1>3. ASSUME NEW c \in calls, SubRow(c)
      PROVE  TypeOK' /\ TableIsLatest'
  <2>1. c \in Call
    BY DEF TypeOK
  <2>2. c.at \in Node /\ c.peer \in Node /\ c.topic \in AllTopic /\ c.enable \in BOOLEAN
    BY <2>1, UserTopics DEF Call
  <2>3. heard[c.at][c.peer][c.topic] \in Nat
    BY <2>2 DEF TypeOK
  <2>4. calls' \subseteq Call
    BY <1>3, <2>1, <2>3 DEF SubRow, Call, TypeOK
  <2>5. desired' \in [Node -> [Node -> [AllTopic -> BOOLEAN]]]
    BY <1>3, <2>2 DEF SubRow, TypeOK
  <2>6. quit' \subseteq Node \X Node \X AllTopic
    <3>1. <<c.at, c.peer, c.topic>> \in Node \X Node \X AllTopic
      BY <2>2
    <3>2. quit' = quit \cup (IF c.enable THEN {} ELSE {<<c.at, c.peer, c.topic>>})
      BY <1>3 DEF SubRow
    <3> QED
      BY <3>1, <3>2 DEF TypeOK
  <2> QED
    BY <1>3, <2>4, <2>5, <2>6, TableUnchanged DEF SubRow, TypeOK
<1>4. ASSUME NEW c \in calls, SubPut(c)
      PROVE  TypeOK' /\ TableIsLatest'
  <2> DEFINE row == [type |-> "sub", topic |-> Box(c.at, c.peer), key |-> c.topic,
                     seq |-> 0, value |-> c.enable, priority |-> c.heard]
  <2>1. c \in Call
    BY DEF TypeOK
  <2>2. row \in Row /\ c.at \in Node
    BY <2>1, DerivedTopics DEF Row, Call
  <2>3. Store(c.at, row)
    BY <1>4 DEF SubPut
  <2> HIDE DEF row
  <2> QED
    BY <1>4, <2>2, <2>3, StoreTypes, StoreTable DEF SubPut, TypeOK, Triples
<1>5. ASSUME NEW n \in Node, NEW f \in Node, Scan(n, f)
      PROVE  TypeOK' /\ TableIsLatest'
  <2>1. Fetch(n, f) \subseteq Row
    BY DEF Fetch, Pending, TypeOK
  <2>2. looper' \in [Node -> [Node -> {"none", "run", "sleep", "sent"}]]
    <3>1. \/ looper' = [looper EXCEPT ![n][f] = "sleep"]
          \/ looper' = [looper EXCEPT ![n][f] = "sent"]
      BY <1>5 DEF Scan
    <3>2. looper \in [Node -> [Node -> {"none", "run", "sleep", "sent"}]]
      BY DEF TypeOK
    <3> QED
      BY <3>1, <3>2
  <2>3. batch' \in [Node -> [Node -> SUBSET Row]]
    <3>1. batch' = batch \/ batch' = [batch EXCEPT ![n][f] = Fetch(n, f)]
      BY <1>5 DEF Scan
    <3>2. batch \in [Node -> [Node -> SUBSET Row]]
      BY DEF TypeOK
    <3> QED
      BY <2>1, <3>1, <3>2
  <2>4. UNCHANGED <<obj, desired, requested, acked, heard, hnd, calls, removing,
                    log, handed, quit, spent>>
    BY <1>5 DEF Scan
  <2> QED
    BY <2>2, <2>3, <2>4, TableUnchanged DEF TypeOK
<1>6. ASSUME NEW n \in Node, NEW f \in Node, Reply(n, f)
      PROVE  TypeOK' /\ TableIsLatest'
  <2>1. acked' \in [Node -> [Node -> [AllTopic -> Nat]]]
    BY <1>6, AckOfRow DEF Reply, AckBatch, TypeOK
  <2>2. hnd' \in [Node -> [Node -> [Slot -> Handler]]]
    BY <1>6 DEF Reply, TypeOK, Handler, Idle, At
  <2> QED
    BY <1>6, <2>1, <2>2, TableUnchanged DEF Reply, Finish, TypeOK
<1>7. ASSUME NEW n \in Node, NEW f \in Node, Refuse(n, f)
      PROVE  TypeOK' /\ TableIsLatest'
  BY <1>7, TableUnchanged DEF Refuse, Finish, TypeOK
<1>8. ASSUME NEW n \in Node, NEW f \in Node, Fail(n, f)
      PROVE  TypeOK' /\ TableIsLatest'
  <2>1. hnd' \in [Node -> [Node -> [Slot -> Handler]]]
    BY <1>8, AbandonedTypes DEF Fail, TypeOK
  <2>2. spent' \in [{"fail", "restart", "unfriend"} -> Nat]
    BY <1>8 DEF Fail, TypeOK
  <2> QED
    BY <1>8, <2>1, <2>2, TableUnchanged DEF Fail, Finish, TypeOK
<1>9. ASSUME NEW n \in Node, NEW f \in Node, Receive(f, n)
      PROVE  TypeOK' /\ TableIsLatest'
  <2>1. hnd' \in [Node -> [Node -> [Slot -> Handler]]]
    <3>1. At("check", batch[n][f]) \in Handler /\ "live" \in Slot
      BY DEF TypeOK, Handler, At, Slot
    <3> QED
      BY <1>9, <3>1 DEF Receive, TypeOK
  <2> QED
    BY <1>9, <2>1, TableUnchanged DEF Receive, TypeOK
<1>10. ASSUME NEW n \in Node, NEW f \in Node, NEW s \in Slot, Check(f, n, s)
       PROVE  TypeOK' /\ TableIsLatest'
  <2>1. hnd' \in [Node -> [Node -> [Slot -> Handler]]]
    <3> PICK r \in First(hnd[f][n][s].todo) :
          IF desired[f][n][r.topic] /\ heard[f][n][r.topic] < r.seq
          THEN hnd' = [hnd EXCEPT ![f][n][s] = At("sink", @.todo)]
          ELSE Advance(f, n, s, r)
      BY <1>10 DEF Check
    <3>1. At("sink", hnd[f][n][s].todo) \in Handler
      BY DEF TypeOK, Handler, At
    <3>2. CASE Advance(f, n, s, r)
      BY <3>2, AdvanceTypes
    <3>3. CASE hnd' = [hnd EXCEPT ![f][n][s] = At("sink", @.todo)]
      BY <3>1, <3>3 DEF TypeOK
    <3> QED
      BY <3>2, <3>3
  <2> QED
    BY <1>10, <2>1, TableUnchanged DEF Check, TypeOK
<1>11. ASSUME NEW n \in Node, NEW f \in Node, NEW s \in Slot, Sink(f, n, s)
       PROVE  TypeOK' /\ TableIsLatest'
  <2> PICK r \in First(hnd[f][n][s].todo) :
         /\ IF r.type = "sub" THEN OnSubscribe(f, n, r)
                              ELSE UNCHANGED <<requested, acked, looper>>
         /\ handed' = [handed EXCEPT ![f] = @ \cup
                         {[from |-> n, name |-> Name(r), seq |-> r.seq]}]
    BY <1>11 DEF Sink
  <2>1. hnd' \in [Node -> [Node -> [Slot -> Handler]]]
    BY <1>11 DEF Sink, TypeOK, Handler, At
  <2>2. /\ requested' \in [Node -> [Node -> [AllTopic -> BOOLEAN]]]
        /\ acked' \in [Node -> [Node -> [AllTopic -> Nat]]]
        /\ looper' \in [Node -> [Node -> {"none", "run", "sleep", "sent"}]]
    <3>1. /\ r.value \in BOOLEAN /\ r.priority \in Nat
          /\ requested \in [Node -> [Node -> [AllTopic -> BOOLEAN]]]
          /\ acked \in [Node -> [Node -> [AllTopic -> Nat]]]
          /\ looper \in [Node -> [Node -> {"none", "run", "sleep", "sent"}]]
      BY FirstRow DEF TypeOK
    <3>2. CASE UNCHANGED <<requested, acked, looper>>
      BY <3>1, <3>2
    <3>3. CASE OnSubscribe(f, n, r)
      <4>1. Wake(looper[f][n]) \in {"none", "run", "sleep", "sent"}
        BY <3>1 DEF Wake
      <4>2. looper' \in [Node -> [Node -> {"none", "run", "sleep", "sent"}]]
        BY <3>1, <3>3, <4>1 DEF OnSubscribe
      <4>3. requested' \in [Node -> [Node -> [AllTopic -> BOOLEAN]]]
        BY <3>1, <3>3 DEF OnSubscribe
      <4>4. acked' \in [Node -> [Node -> [AllTopic -> Nat]]]
        BY <3>1, <3>3 DEF OnSubscribe
      <4> QED
        BY <4>2, <4>3, <4>4
    <3> QED
      BY <3>2, <3>3
  <2>3. handed' \in [Node -> SUBSET [from : Node, seq : Nat, name : Triples]]
    <3>1. [from |-> n, name |-> Name(r), seq |-> r.seq]
            \in [from : Node, seq : Nat, name : Triples]
      BY FirstRow
    <3>2. handed \in [Node -> SUBSET [from : Node, seq : Nat, name : Triples]]
      BY DEF TypeOK, Triples
    <3> QED
      BY <3>1, <3>2
  <2> QED
    BY <1>11, <2>1, <2>2, <2>3, TableUnchanged DEF Sink, TypeOK, Triples
<1>12. ASSUME NEW n \in Node, NEW f \in Node, NEW s \in Slot, Mark(f, n, s)
       PROVE  TypeOK' /\ TableIsLatest'
  <2> PICK r \in First(hnd[f][n][s].todo) :
         /\ heard' = [heard EXCEPT ![f][n][r.topic] = r.seq]
         /\ Advance(f, n, s, r)
    BY <1>12 DEF Mark
  <2>1. heard' \in [Node -> [Node -> [AllTopic -> Nat]]]
    BY FirstRow DEF TypeOK
  <2> QED
    BY <1>12, <2>1, AdvanceTypes, TableUnchanged DEF Mark, TypeOK
<1>13. ASSUME NEW n \in Node, NEW f \in Node, AddFriend(n, f)
       PROVE  TypeOK' /\ TableIsLatest'
  BY <1>13, TableUnchanged DEF AddFriend, TypeOK
<1>14. ASSUME NEW n \in Node, NEW f \in Node, RemoveBegin(n, f)
       PROVE  TypeOK' /\ TableIsLatest'
  <2>1. spent' \in [{"fail", "restart", "unfriend"} -> Nat]
    BY <1>14 DEF RemoveBegin, TypeOK
  <2>2. removing' \subseteq Node \X Node
    <3>1. <<n, f>> \in Node \X Node /\ removing \subseteq Node \X Node
      BY DEF TypeOK
    <3> QED
      BY <1>14, <3>1 DEF RemoveBegin
  <2>3. UNCHANGED <<obj, desired, requested, acked, heard, looper, batch, hnd, calls,
                    log, handed, quit>>
    BY <1>14 DEF RemoveBegin
  <2> QED
    BY <2>1, <2>2, <2>3, TableUnchanged DEF TypeOK
<1>15. ASSUME NEW n \in Node, NEW f \in Node, RemoveEnd(n, f)
       PROVE  TypeOK' /\ TableIsLatest'
  <2>1. /\ desired' \in [Node -> [Node -> [AllTopic -> BOOLEAN]]]
        /\ requested' \in [Node -> [Node -> [AllTopic -> BOOLEAN]]]
        /\ acked' \in [Node -> [Node -> [AllTopic -> Nat]]]
        /\ heard' \in [Node -> [Node -> [AllTopic -> Nat]]]
    BY <1>15 DEF RemoveEnd, TypeOK
  <2>2. /\ looper' \in [Node -> [Node -> {"none", "run", "sleep", "sent"}]]
        /\ removing' \subseteq Node \X Node
        /\ quit' \subseteq Node \X Node \X AllTopic
    BY <1>15 DEF RemoveEnd, TypeOK
  <2>3. UNCHANGED <<obj, batch, hnd, calls, log, handed, spent>>
    BY <1>15 DEF RemoveEnd
  <2> QED
    BY <2>1, <2>2, <2>3, TableUnchanged DEF TypeOK
<1>16. ASSUME NEW n \in Node, Restart(n)
       PROVE  TypeOK' /\ TableIsLatest'
  <2>1. hnd' \in [Node -> [Node -> [Slot -> Handler]]]
    BY <1>16, AbandonedTypes DEF Restart, TypeOK, Handler, Idle, At
  <2>2. spent' \in [{"fail", "restart", "unfriend"} -> Nat]
    BY <1>16 DEF Restart, TypeOK
  <2> QED
    <3>1. looper' \in [Node -> [Node -> {"none", "run", "sleep", "sent"}]]
      BY <1>16 DEF Restart, TypeOK
    <3>2. batch' \in [Node -> [Node -> SUBSET Row]]
      BY <1>16 DEF Restart, TypeOK
    <3>3. calls' \subseteq calls /\ removing' \subseteq removing
          /\ UNCHANGED <<obj, tables, log, handed, quit>>
      BY <1>16 DEF Restart
    <3> QED
      BY <2>1, <2>2, <3>1, <3>2, <3>3, TableUnchanged DEF TypeOK
<1>17. CASE UNCHANGED vars
  BY <1>17, TableUnchanged DEF vars, TypeOK
<1> QED
  BY <1>1, <1>2, <1>3, <1>4, <1>5, <1>6, <1>7, <1>8, <1>9, <1>10, <1>11, <1>12,
     <1>13, <1>14, <1>15, <1>16, <1>17 DEF Next, Looper, Handle

\* Every variable keeps its type in every behaviour of the sync layer.
THEOREM TypeCorrect == Spec => []TypeOK
<1>1. Spec => [](TypeOK /\ TableIsLatest)
  BY InitTypes, StepTypes, PTL DEF Spec
<1> QED
  BY <1>1, PTL

\* The table always holds the last Put of every key under a number of its own,
\* though Put takes the next number from rows it replaces.
THEOREM TableCorrect == Spec => []TableIsLatest
<1>1. Spec => [](TypeOK /\ TableIsLatest)
  BY InitTypes, StepTypes, PTL DEF Spec
<1> QED
  BY <1>1, PTL
-----------------------------------------------------------------------------
(* CursorsBehind: acked and heard come from rows and priorities that travel   *)
(* through batches, handlers and calls, so nothing in flight may be ahead of  *)
(* the table it speaks of either.                                             *)

\* What n may send f: a row of its own table, and with a subscription the place
\* n has heard f's table to.
Sendable(n, f, r) == /\ r.seq <= Len(log[n])
                     /\ r.type = "sub" => r.priority <= Len(log[f])

AckedBehind == \A n, f \in Node, t \in AllTopic : acked[n][f][t] <= Len(log[n])
HeardBehind == \A n, f \in Node, t \in AllTopic : heard[f][n][t] <= Len(log[n])
CallsBehind == \A c \in calls : c.heard <= Len(log[c.peer])
BatchBehind == \A n, f \in Node : \A r \in batch[n][f] : Sendable(n, f, r)
HandlerBehind ==
    \A n, f \in Node, s \in Slot : \A r \in hnd[f][n][s].todo : Sendable(n, f, r)

\* A subscription is addressed to the node whose table its priority speaks of,
RowsAddressed ==
    \A n \in Node : \A r \in obj[n] :
      r.type = "sub" => \E g \in Node : r.topic = Box(n, g) /\ r.priority <= Len(log[g])

\* and is sent to no other: n desires the outbox to g with g alone.
OutboxOfPeer == \A n, f, g \in Node : desired[n][f][Box(n, g)] => g = f

Behind == /\ AckedBehind /\ HeardBehind /\ CallsBehind
          /\ BatchBehind /\ HandlerBehind
          /\ RowsAddressed /\ OutboxOfPeer
\* The topics nodes derive differ from each other and from those of users.
LEMMA DistinctTopics ==
    ASSUME NEW n \in Node, NEW f \in Node
    PROVE  /\ \A m, g \in Node : Box(n, f) = Box(m, g) => n = m /\ f = g
           /\ \A m \in Node : Box(n, f) # Profile(m)
           /\ \A t \in Topic : Box(n, f) # t
<1>1. \A m \in Node : Box(n, f)[1] = "box" /\ Profile(m)[1] = "profile"
  BY DEF Box, Profile
<1> QED
  BY <1>1, TopicAssumption DEF Box

\* Histories only grow, and what was behind them stays behind them.
LEMMA Grown ==
    ASSUME TypeOK, TypeOK', Behind,
           \A m \in Node : Len(log[m]) \in Nat /\ Len(log'[m]) \in Nat
                             /\ Len(log[m]) <= Len(log'[m])
    PROVE  /\ UNCHANGED acked => AckedBehind'
           /\ UNCHANGED heard => HeardBehind'
           /\ calls' \subseteq calls => CallsBehind'
           /\ UNCHANGED batch => BatchBehind'
           /\ UNCHANGED hnd => HandlerBehind'
           /\ UNCHANGED obj => RowsAddressed'
           /\ UNCHANGED desired => OutboxOfPeer'
           /\ \A n, f \in Node : \A r \in Row : Sendable(n, f, r) => Sendable(n, f, r)'
<1>1. \A n, f \in Node : \A r \in Row : Sendable(n, f, r) => Sendable(n, f, r)'
  BY DEF Sendable, Row
<1>2. UNCHANGED acked => AckedBehind'
  <2> SUFFICES ASSUME UNCHANGED acked, NEW n \in Node, NEW f \in Node, NEW t \in AllTopic
               PROVE  acked[n][f][t] <= Len(log'[n])
    BY DEF AckedBehind
  <2>1. acked[n][f][t] \in Nat /\ acked[n][f][t] <= Len(log[n])
    BY DEF TypeOK, AckedBehind, Behind
  <2> QED
    BY <2>1
<1>3. UNCHANGED heard => HeardBehind'
  <2> SUFFICES ASSUME UNCHANGED heard, NEW n \in Node, NEW f \in Node, NEW t \in AllTopic
               PROVE  heard[f][n][t] <= Len(log'[n])
    BY DEF HeardBehind
  <2>1. heard[f][n][t] \in Nat /\ heard[f][n][t] <= Len(log[n])
    BY DEF TypeOK, HeardBehind, Behind
  <2> QED
    BY <2>1
<1>4. calls' \subseteq calls => CallsBehind'
  BY DEF CallsBehind, Behind, TypeOK, Call
<1>5. UNCHANGED batch => BatchBehind'
  BY <1>1 DEF BatchBehind, Behind, TypeOK
<1>6. UNCHANGED hnd => HandlerBehind'
  <2> SUFFICES ASSUME UNCHANGED hnd, NEW n \in Node, NEW f \in Node, NEW s \in Slot,
                      NEW r \in hnd[f][n][s].todo
               PROVE  Sendable(n, f, r)'
    BY DEF HandlerBehind
  <2>1. hnd[f][n][s] \in Handler
    BY DEF TypeOK
  <2>2. r \in Row
    BY <2>1 DEF Handler
  <2> QED
    BY <1>1, <2>2 DEF HandlerBehind, Behind
<1>7. UNCHANGED obj => RowsAddressed'
  <2> SUFFICES ASSUME UNCHANGED obj, NEW n \in Node, NEW r \in obj[n], r.type = "sub"
               PROVE  \E g \in Node : r.topic = Box(n, g) /\ r.priority <= Len(log'[g])
    BY DEF RowsAddressed
  <2>1. r \in Row
    BY DEF TypeOK
  <2> QED
    BY <2>1 DEF RowsAddressed, Behind, Row
<1>8. UNCHANGED desired => OutboxOfPeer'
  BY DEF OutboxOfPeer, Behind
<1> QED
  BY <1>1, <1>2, <1>3, <1>4, <1>5, <1>6, <1>7, <1>8

\* What the notify query selects for f may be sent to f.
LEMMA PendingSendable ==
    ASSUME TypeOK, TableIsLatest, Behind, NEW n \in Node, NEW f \in Node,
           NEW r \in Pending(n, f)
    PROVE  Sendable(n, f, r)
<1>1. r \in obj[n] /\ r \in Row /\ desired[n][f][r.topic]
  BY DEF Pending, TypeOK
<1>2. r.seq <= Len(log[n])
  BY <1>1 DEF TableIsLatest
<1>3. ASSUME r.type = "sub" PROVE r.priority <= Len(log[f])
  <2>1. PICK g \in Node : r.topic = Box(n, g) /\ r.priority <= Len(log[g])
    BY <1>1, <1>3 DEF Behind, RowsAddressed
  <2>2. g = f
    BY <1>1, <2>1 DEF Behind, OutboxOfPeer
  <2> QED
    BY <2>1, <2>2
<1> QED
  BY <1>2, <1>3 DEF Sendable

\* The rows a handler still has to handle, in its next state, are rows it had.
LEMMA AdvanceBehind ==
    ASSUME TypeOK, Behind, UNCHANGED log, NEW f \in Node, NEW n \in Node,
           NEW s \in Slot, NEW r, Advance(f, n, s, r)
    PROVE  HandlerBehind'
<1> DEFINE h == IF hnd[f][n][s].todo \ {r} # {} THEN At("check", hnd[f][n][s].todo \ {r})
                ELSE IF s = "live" THEN At("done", {}) ELSE Idle
<1>1. hnd' = [hnd EXCEPT ![f][n][s] = h]
  BY DEF Advance
<1>2. h.todo \subseteq hnd[f][n][s].todo
  <2>1. /\ At("check", hnd[f][n][s].todo \ {r}).todo = hnd[f][n][s].todo \ {r}
        /\ At("done", {}).todo = {} /\ Idle.todo = {}
    BY DEF At, Idle
  <2> QED
    BY <2>1
<1> HIDE DEF h
<1>3. \A g, m \in Node, u \in Slot : hnd'[g][m][u].todo \subseteq hnd[g][m][u].todo
  <2>1. hnd \in [Node -> [Node -> [Slot -> Handler]]]
    BY DEF TypeOK
  <2>2. \A g, m \in Node, u \in Slot : hnd'[g][m][u] = hnd[g][m][u] \/
           (g = f /\ m = n /\ u = s /\ hnd'[g][m][u] = h)
    BY <1>1, <2>1
  <2> QED
    BY <1>2, <2>2
<1> QED
  BY <1>3 DEF Behind, HandlerBehind, Sendable

\* What a caller leaves behind is what it had sent.
LEMMA AbandonedBehind ==
    ASSUME TypeOK, NEW n \in Node, NEW f \in Node, NEW s \in Slot
    PROVE  \/ Abandoned(n, f)[s].todo = {}
           \/ Abandoned(n, f)[s].todo = hnd[f][n]["live"].todo
           \/ Abandoned(n, f)[s].todo = hnd[f][n][s].todo
BY DEF Abandoned, Idle, At

\* At the start every cursor is 0.
LEMMA InitBehind == Init /\ TypeOK => Behind
<1> SUFFICES ASSUME Init, TypeOK PROVE Behind
  OBVIOUS
<1>1. \A n \in Node : Len(log[n]) = 0 /\ obj[n] = {}
  BY DEF Init
<1>2. AckedBehind /\ HeardBehind
  BY <1>1 DEF Init, AckedBehind, HeardBehind
<1>3. CallsBehind /\ BatchBehind /\ HandlerBehind /\ RowsAddressed
  BY <1>1 DEF Init, CallsBehind, BatchBehind, HandlerBehind, RowsAddressed, Idle, At
<1>4. OutboxOfPeer
  <2> SUFFICES ASSUME NEW n \in Node, NEW f \in Node, NEW g \in Node,
                      desired[n][f][Box(n, g)]
               PROVE  g = f
    BY DEF OutboxOfPeer
  <2>1. n # f /\ Box(n, g) \in Exchanged(n, f)
    BY DerivedTopics DEF Init
  <2> QED
    BY <2>1, DistinctTopics DEF Exchanged
<1> QED
  BY <1>2, <1>3, <1>4 DEF Behind

\* Every step keeps cursors behind the histories.
LEMMA StepBehind ==
    TypeOK /\ TableIsLatest /\ Behind /\ TypeOK' /\ [Next]_vars => Behind'
<1> SUFFICES ASSUME TypeOK, TableIsLatest, Behind, TypeOK', [Next]_vars
             PROVE  Behind'
  OBVIOUS
<1> USE DEF tables
<1> DEFINE Grows == \A m \in Node : Len(log[m]) \in Nat /\ Len(log'[m]) \in Nat
                                      /\ Len(log[m]) <= Len(log'[m])
<1>a. UNCHANGED log => Grows
  BY DEF TypeOK
<1>b. ASSUME NEW n \in Node, NEW r \in Row, Store(n, r) PROVE Grows
  <2>1. \A m \in Node : Len(log[m]) \in Nat /\ Len(log[m]) <= Len(log'[m])
    BY <1>b, StoreTypes
  <2>2. \A m \in Node : Len(log'[m]) \in Nat
    BY DEF TypeOK
  <2> QED
    BY <2>1, <2>2
<1>c. \A f \in Node : \A t \in Topic : \A n \in Node : Box(n, f) # t
  BY DistinctTopics
<1>1. ASSUME NEW n \in Node, NEW t \in Writable[n], NEW k \in Key, Put(n, t, k)
      PROVE  Behind'
  <2> DEFINE row == [type |-> "data", topic |-> t, key |-> k, seq |-> 0,
                     value |-> TRUE, priority |-> 0]
             new == [row EXCEPT !.seq = LastSeq(n) + 1]
  <2>1. row \in Row /\ Store(n, row)
    BY <1>1, WritableTopics DEF Put, Row
  <2>2. Grows
    BY <1>b, <2>1
  <2>3. obj' = [obj EXCEPT ![n] = {q \in @ : Name(q) # Name(row)} \cup {new}]
    BY <2>1 DEF Store
  <2>4. new.type = "data"
    OBVIOUS
  <2> HIDE DEF row, new
  <2>5. RowsAddressed'
    <3> SUFFICES ASSUME NEW m \in Node, NEW r \in obj'[m], r.type = "sub"
                 PROVE  \E g \in Node : r.topic = Box(m, g) /\ r.priority <= Len(log'[g])
      BY DEF RowsAddressed
    <3>1. r \in obj[m] /\ r \in Row
      BY <2>3, <2>4 DEF TypeOK
    <3> QED
      BY <2>2, <3>1 DEF RowsAddressed, Behind, Row
  <2> HIDE DEF Grows
  <2>6. UNCHANGED <<acked, heard, calls, batch, hnd, desired>>
    BY <1>1 DEF Put
  <2> QED
    BY <2>2, <2>5, <2>6, Grown DEF Behind, Grows
<1>2. ASSUME NEW n \in Node, NEW f \in Node, NEW c \in Caller, NEW t \in Topic,
             NEW e \in Enables, SubLookup(n, c, f, t, e)
      PROVE  Behind'
  <2>1. UNCHANGED <<obj, acked, heard, batch, hnd, desired, log>>
    BY <1>2 DEF SubLookup
  <2>2. CallsBehind'
    <3>1. \A d \in calls' : d \in calls \/ (d.heard = 0 /\ d.peer = f)
      BY <1>2 DEF SubLookup
    <3> QED
      BY <1>a, <2>1, <3>1 DEF CallsBehind, Behind
  <2> HIDE DEF Grows
  <2> QED
    BY <1>a, <2>1, <2>2, Grown DEF Behind, Grows
<1>3. ASSUME NEW c \in calls, SubRow(c)
      PROVE  Behind'
  <2>1. /\ c \in Call /\ c.at \in Node /\ c.peer \in Node
        /\ c.topic \in Topic /\ c.topic \in AllTopic
    BY UserTopics DEF TypeOK, Call
  <2>2. UNCHANGED <<obj, acked, heard, batch, hnd, log>>
    BY <1>3 DEF SubRow
  <2>3. CallsBehind'
    <3>1. heard[c.at][c.peer][c.topic] <= Len(log[c.peer])
      BY <2>1 DEF Behind, HeardBehind
    <3>2. \A d \in calls' : d \in calls \/
                            (d.heard = heard[c.at][c.peer][c.topic] /\ d.peer = c.peer)
      BY <1>3, <2>1 DEF SubRow, Call
    <3> QED
      BY <2>2, <3>1, <3>2 DEF CallsBehind, Behind
  <2>4. OutboxOfPeer'
    <3> SUFFICES ASSUME NEW n \in Node, NEW f \in Node, NEW g \in Node,
                        desired'[n][f][Box(n, g)]
                 PROVE  g = f
      BY DEF OutboxOfPeer
    <3>1. desired' = [desired EXCEPT ![c.at][c.peer][c.topic] = c.enable]
      BY <1>3 DEF SubRow
    <3>2. Box(n, g) # c.topic
      BY <1>c, <2>1
    <3>3. desired'[n][f][Box(n, g)] = desired[n][f][Box(n, g)]
      <4>1. desired \in [Node -> [Node -> [AllTopic -> BOOLEAN]]]
        BY DEF TypeOK
      <4>2. CASE n = c.at /\ f = c.peer
        <5>1. desired[n][f] \in [AllTopic -> BOOLEAN]
          BY <4>1
        <5>2. desired'[n][f] = [desired[n][f] EXCEPT ![c.topic] = c.enable]
          BY <3>1, <4>1, <4>2
        <5>3. Box(n, g) \in AllTopic
          BY DerivedTopics
        <5> QED
          BY <3>2, <5>1, <5>2, <5>3
      <4>3. CASE ~(n = c.at /\ f = c.peer)
        BY <2>1, <3>1, <4>1, <4>3
      <4> QED
        BY <4>2, <4>3
    <3> QED
      BY <3>3 DEF Behind, OutboxOfPeer
  <2> HIDE DEF Grows
  <2> QED
    BY <1>a, <2>2, <2>3, <2>4, Grown DEF Behind, Grows
<1>4. ASSUME NEW c \in calls, SubPut(c)
      PROVE  Behind'
  <2> DEFINE row == [type |-> "sub", topic |-> Box(c.at, c.peer), key |-> c.topic,
                     seq |-> 0, value |-> c.enable, priority |-> c.heard]
             new == [row EXCEPT !.seq = LastSeq(c.at) + 1]
  <2>1. c \in Call /\ c.at \in Node /\ c.peer \in Node /\ c.heard \in Nat
    BY DEF TypeOK, Call
  <2>2. row \in Row /\ Store(c.at, row)
    BY <1>4, <2>1, DerivedTopics DEF SubPut, Row, Call
  <2>3. Grows
    BY <1>b, <2>1, <2>2
  <2>4. obj' = [obj EXCEPT ![c.at] = {q \in @ : Name(q) # Name(row)} \cup {new}]
    BY <2>2 DEF Store
  <2>5. new.topic = Box(c.at, c.peer) /\ new.priority = c.heard
    OBVIOUS
  <2>6. c.heard <= Len(log[c.peer])
    BY DEF Behind, CallsBehind
  <2> HIDE DEF row, new
  <2>7. RowsAddressed'
    <3> SUFFICES ASSUME NEW m \in Node, NEW r \in obj'[m], r.type = "sub"
                 PROVE  \E g \in Node : r.topic = Box(m, g) /\ r.priority <= Len(log'[g])
      BY DEF RowsAddressed
    <3>1. CASE r \in obj[m]
      <4>1. r \in Row
        BY <3>1 DEF TypeOK
      <4> QED
        BY <2>3, <3>1, <4>1 DEF RowsAddressed, Behind, Row
    <3>2. CASE r = new /\ m = c.at
      BY <2>1, <2>3, <2>5, <2>6, <3>2
    <3> QED
      BY <2>4, <3>1, <3>2 DEF TypeOK
  <2>8. UNCHANGED <<acked, heard, batch, hnd, desired>> /\ calls' \subseteq calls
    BY <1>4 DEF SubPut
  <2> HIDE DEF Grows
  <2> QED
    BY <2>3, <2>7, <2>8, Grown DEF Behind, Grows
<1>5. ASSUME NEW n \in Node, NEW f \in Node, Scan(n, f)
      PROVE  Behind'
  <2>1. UNCHANGED <<obj, acked, heard, calls, hnd, desired, log>>
    BY <1>5 DEF Scan
  <2>2. batch' = batch \/ batch' = [batch EXCEPT ![n][f] = Fetch(n, f)]
    BY <1>5 DEF Scan
  <2>3. \A r \in Fetch(n, f) : Sendable(n, f, r)
    BY PendingSendable DEF Fetch
  <2>4. BatchBehind'
    <3> SUFFICES ASSUME NEW m \in Node, NEW g \in Node, NEW r \in batch'[m][g]
                 PROVE  Sendable(m, g, r)'
      BY DEF BatchBehind
    <3>1. Sendable(m, g, r)
      <4>1. r \in batch[m][g] \/ (m = n /\ g = f /\ r \in Fetch(n, f))
        BY <2>2, SMTT(40) DEF TypeOK
      <4> QED
        BY <2>3, <4>1 DEF BatchBehind, Behind
    <3> QED
      BY <2>1, <3>1 DEF Sendable
  <2> HIDE DEF Grows
  <2> QED
    BY <1>a, <2>1, <2>4, Grown DEF Behind, Grows
<1>6. ASSUME NEW n \in Node, NEW f \in Node, Finish(n, f), UNCHANGED log
      PROVE  BatchBehind'
  <2> SUFFICES ASSUME NEW m \in Node, NEW g \in Node, NEW r \in batch'[m][g]
               PROVE  Sendable(m, g, r)'
    BY DEF BatchBehind
  <2>1. r \in batch[m][g]
    BY <1>6 DEF Finish, TypeOK
  <2> QED
    BY <1>6, <2>1 DEF BatchBehind, Behind, Sendable
<1>7. ASSUME NEW n \in Node, NEW f \in Node, Reply(n, f)
      PROVE  Behind'
  <2>1. UNCHANGED <<obj, heard, calls, desired, log>> /\ BatchBehind'
    BY <1>6, <1>7 DEF Reply
  <2>2. AckedBehind'
    <3> SUFFICES ASSUME NEW m \in Node, NEW g \in Node, NEW t \in AllTopic
                 PROVE  acked'[m][g][t] <= Len(log[m])
      BY <2>1 DEF AckedBehind
    <3>1. acked[m][g][t] <= Len(log[m])
      BY DEF Behind, AckedBehind
    <3>2. AckOf(n, f, t) <= Len(log[n])
      BY AckOfRow DEF Behind, AckedBehind, BatchBehind, Sendable
    <3>3. acked'[m][g][t] = IF m = n /\ g = f THEN AckOf(n, f, t) ELSE acked[m][g][t]
      BY <1>7 DEF Reply, AckBatch, TypeOK
    <3> QED
      BY <3>1, <3>2, <3>3
  <2>3. HandlerBehind'
    <3>1. \A g, m \in Node, u \in Slot : hnd'[g][m][u] = hnd[g][m][u] \/ hnd'[g][m][u] = Idle
      BY <1>7 DEF Reply, TypeOK
    <3> QED
      BY <2>1, <3>1 DEF Behind, HandlerBehind, Sendable, Idle, At
  <2> HIDE DEF Grows
  <2> QED
    BY <1>a, <2>1, <2>2, <2>3, Grown DEF Behind, Grows
<1>8. ASSUME NEW n \in Node, NEW f \in Node, Refuse(n, f)
      PROVE  Behind'
  <2>1. UNCHANGED <<obj, acked, heard, calls, desired, hnd, log>> /\ BatchBehind'
    BY <1>6, <1>8 DEF Refuse
  <2> HIDE DEF Grows
  <2> QED
    BY <1>a, <2>1, Grown DEF Behind, Grows
<1>9. ASSUME NEW n \in Node, NEW f \in Node, Fail(n, f)
      PROVE  Behind'
  <2>1. UNCHANGED <<obj, acked, heard, calls, desired, log>> /\ BatchBehind'
    BY <1>6, <1>9 DEF Fail
  <2>2. HandlerBehind'
    <3> SUFFICES ASSUME NEW m \in Node, NEW g \in Node, NEW s \in Slot,
                        NEW r \in hnd'[g][m][s].todo
                 PROVE  Sendable(m, g, r)
      BY <2>1 DEF HandlerBehind, Sendable
    <3>1. hnd'[g][m][s] = IF g = f /\ m = n THEN Abandoned(n, f)[s] ELSE hnd[g][m][s]
      BY <1>9 DEF Fail, TypeOK
    <3>2. r \in hnd[g][m]["live"].todo \/ r \in hnd[g][m][s].todo
      BY <3>1, AbandonedBehind
    <3> QED
      BY <3>2 DEF Behind, HandlerBehind, Slot
  <2> HIDE DEF Grows
  <2> QED
    BY <1>a, <2>1, <2>2, Grown DEF Behind, Grows
<1>10. ASSUME NEW n \in Node, NEW f \in Node, Receive(f, n)
      PROVE  Behind'
  <2>1. UNCHANGED <<obj, acked, heard, calls, batch, desired, log>>
    BY <1>10 DEF Receive
  <2>2. HandlerBehind'
    <3> SUFFICES ASSUME NEW m \in Node, NEW g \in Node, NEW s \in Slot,
                        NEW r \in hnd'[g][m][s].todo
                 PROVE  Sendable(m, g, r)
      BY <2>1 DEF HandlerBehind, Sendable
    <3>1. hnd' = [hnd EXCEPT ![f][n]["live"] = At("check", batch[n][f])]
      BY <1>10 DEF Receive
    <3>2. r \in hnd[g][m][s].todo \/ (g = f /\ m = n /\ r \in batch[n][f])
      BY <3>1 DEF At, TypeOK
    <3> QED
      BY <3>2 DEF Behind, HandlerBehind, BatchBehind
  <2> HIDE DEF Grows
  <2> QED
    BY <1>a, <2>1, <2>2, Grown DEF Behind, Grows
<1>11. ASSUME NEW f \in Node, NEW n \in Node, NEW s \in Slot, NEW pc, UNCHANGED log,
              hnd' = [hnd EXCEPT ![f][n][s] = At(pc, @.todo)]
       PROVE  HandlerBehind'
  <2> SUFFICES ASSUME NEW m \in Node, NEW g \in Node, NEW u \in Slot,
                      NEW r \in hnd'[g][m][u].todo
               PROVE  Sendable(m, g, r)
    BY <1>11 DEF HandlerBehind, Sendable
  <2>1. r \in hnd[g][m][u].todo
    BY <1>11 DEF At, TypeOK
  <2> QED
    BY <2>1 DEF Behind, HandlerBehind
<1>12. ASSUME NEW n \in Node, NEW f \in Node, NEW s \in Slot, Check(f, n, s)
       PROVE  Behind'
  <2>1. UNCHANGED <<obj, acked, heard, calls, batch, desired, log>>
    BY <1>12 DEF Check
  <2>2. HandlerBehind'
    BY <1>11, <1>12, <2>1, AdvanceBehind DEF Check
  <2> HIDE DEF Grows
  <2> QED
    BY <1>a, <2>1, <2>2, Grown DEF Behind, Grows
<1>13. ASSUME NEW n \in Node, NEW f \in Node, NEW s \in Slot, Sink(f, n, s)
       PROVE  Behind'
  <2>1. UNCHANGED <<obj, heard, calls, batch, desired, log>>
    BY <1>13 DEF Sink
  <2>2. HandlerBehind'
    BY <1>11, <1>13, <2>1 DEF Sink
  <2>3. AckedBehind'
    <3> PICK r \in First(hnd[f][n][s].todo) :
          IF r.type = "sub" THEN OnSubscribe(f, n, r)
                            ELSE UNCHANGED <<requested, acked, looper>>
      BY <1>13 DEF Sink
    <3> SUFFICES ASSUME NEW m \in Node, NEW g \in Node, NEW t \in AllTopic
                 PROVE  acked'[m][g][t] <= Len(log[m])
      BY <2>1 DEF AckedBehind
    <3>1. acked[m][g][t] <= Len(log[m])
      BY DEF Behind, AckedBehind
    <3>2. r.type = "sub" => r.priority <= Len(log[f])
      BY FirstRow DEF Behind, HandlerBehind, Sendable
    <3>3. CASE UNCHANGED acked
      BY <3>1, <3>3
    <3>4. CASE r.type = "sub" /\ OnSubscribe(f, n, r)
      <4>1. acked' = [acked EXCEPT ![f][n][r.key] = r.priority]
        BY <3>4 DEF OnSubscribe
      <4>2. acked'[m][g][t] = acked[m][g][t] \/ (m = f /\ acked'[m][g][t] = r.priority)
        <5>1. acked \in [Node -> [Node -> [AllTopic -> Nat]]]
          BY DEF TypeOK
        <5>2. CASE m = f /\ g = n
          BY <4>1, <5>1, <5>2
        <5>3. CASE ~(m = f /\ g = n)
          BY <4>1, <5>1, <5>3
        <5> QED
          BY <5>2, <5>3
      <4> QED
        BY <3>1, <3>2, <3>4, <4>2
    <3> QED
      BY <3>3, <3>4
  <2> HIDE DEF Grows
  <2> QED
    BY <1>a, <2>1, <2>2, <2>3, Grown DEF Behind, Grows
<1>14. ASSUME NEW n \in Node, NEW f \in Node, NEW s \in Slot, Mark(f, n, s)
       PROVE  Behind'
  <2>1. UNCHANGED <<obj, acked, calls, batch, desired, log>>
    BY <1>14 DEF Mark
  <2> PICK r \in First(hnd[f][n][s].todo) :
         /\ heard' = [heard EXCEPT ![f][n][r.topic] = r.seq]
         /\ Advance(f, n, s, r)
    BY <1>14 DEF Mark
  <2>2. HandlerBehind'
    BY <2>1, AdvanceBehind
  <2>3. HeardBehind'
    <3> SUFFICES ASSUME NEW m \in Node, NEW g \in Node, NEW t \in AllTopic
                 PROVE  heard'[g][m][t] <= Len(log[m])
      BY <2>1 DEF HeardBehind
    <3>1. heard[g][m][t] <= Len(log[m])
      BY DEF Behind, HeardBehind
    <3>2. r.seq <= Len(log[n])
      BY FirstRow DEF Behind, HandlerBehind, Sendable
    <3>3. heard'[g][m][t] = heard[g][m][t] \/ (m = n /\ heard'[g][m][t] = r.seq)
      <4>1. heard \in [Node -> [Node -> [AllTopic -> Nat]]]
        BY DEF TypeOK
      <4>2. CASE m = n /\ g = f
        BY <4>1, <4>2
      <4>3. CASE ~(m = n /\ g = f)
        BY <4>1, <4>3
      <4> QED
        BY <4>2, <4>3
    <3> QED
      BY <3>1, <3>2, <3>3
  <2> HIDE DEF Grows
  <2> QED
    BY <1>a, <2>1, <2>2, <2>3, Grown DEF Behind, Grows
<1>15. ASSUME NEW n \in Node, NEW f \in Node, AddFriend(n, f)
       PROVE  Behind'
  <2>1. UNCHANGED <<obj, acked, heard, calls, batch, hnd, log>>
    BY <1>15 DEF AddFriend
  <2>2. OutboxOfPeer'
    <3> SUFFICES ASSUME NEW m \in Node, NEW h \in Node, NEW g \in Node,
                        desired'[m][h][Box(m, g)]
                 PROVE  g = h
      BY DEF OutboxOfPeer
    <3>1. desired[m][h][Box(m, g)] \/ (m = n /\ h = f /\ Box(m, g) \in Exchanged(n, f))
      BY <1>15, DerivedTopics DEF AddFriend, TypeOK
    <3>2. CASE desired[m][h][Box(m, g)]
      BY <3>2 DEF Behind, OutboxOfPeer
    <3>3. CASE m = n /\ h = f /\ Box(n, g) \in Exchanged(n, f)
      BY <3>3, DistinctTopics DEF Exchanged
    <3> QED
      BY <3>1, <3>2, <3>3
  <2> HIDE DEF Grows
  <2> QED
    BY <1>a, <2>1, <2>2, Grown DEF Behind, Grows
<1>16. ASSUME NEW n \in Node, NEW f \in Node, RemoveBegin(n, f)
       PROVE  Behind'
  <2>1. UNCHANGED <<obj, acked, heard, calls, batch, hnd, desired, log>>
    BY <1>16 DEF RemoveBegin
  <2> HIDE DEF Grows
  <2> QED
    BY <1>a, <2>1, Grown DEF Behind, Grows
<1>17. ASSUME NEW n \in Node, NEW f \in Node, RemoveEnd(n, f)
       PROVE  Behind'
  <2>1. UNCHANGED <<obj, calls, batch, hnd, log>>
    BY <1>17 DEF RemoveEnd
  <2>2. Grows
    BY <1>a, <2>1
  <2>3. AckedBehind'
    <3> SUFFICES ASSUME NEW m \in Node, NEW g \in Node, NEW t \in AllTopic
                 PROVE  acked'[m][g][t] <= Len(log'[m])
      BY DEF AckedBehind
    <3>1. acked'[m][g][t] = acked[m][g][t] \/ acked'[m][g][t] = 0
      BY <1>17 DEF RemoveEnd, TypeOK
    <3> QED
      BY <2>1, <2>2, <3>1 DEF Behind, AckedBehind
  <2>4. HeardBehind'
    <3> SUFFICES ASSUME NEW m \in Node, NEW g \in Node, NEW t \in AllTopic
                 PROVE  heard'[g][m][t] <= Len(log'[m])
      BY DEF HeardBehind
    <3>1. heard'[g][m][t] = heard[g][m][t] \/ heard'[g][m][t] = 0
      BY <1>17 DEF RemoveEnd, TypeOK
    <3> QED
      BY <2>1, <2>2, <3>1 DEF Behind, HeardBehind
  <2>5. OutboxOfPeer'
    <3>1. \A m, g \in Node, t \in AllTopic : desired'[m][g][t] => desired[m][g][t]
      BY <1>17 DEF RemoveEnd, TypeOK
    <3> QED
      BY <3>1, DerivedTopics DEF Behind, OutboxOfPeer
  <2> HIDE DEF Grows
  <2> QED
    BY <2>1, <2>2, <2>3, <2>4, <2>5, Grown DEF Behind, Grows
<1>18. ASSUME NEW n \in Node, Restart(n)
       PROVE  Behind'
  <2>1. UNCHANGED <<obj, acked, heard, desired, log>> /\ calls' \subseteq calls
    BY <1>18 DEF Restart
  <2>2. BatchBehind'
    <3> SUFFICES ASSUME NEW m \in Node, NEW g \in Node, NEW r \in batch'[m][g]
                 PROVE  Sendable(m, g, r)
      BY <2>1 DEF BatchBehind, Sendable
    <3>1. r \in batch[m][g]
      BY <1>18 DEF Restart
    <3> QED
      BY <3>1 DEF Behind, BatchBehind
  <2>3. HandlerBehind'
    <3> SUFFICES ASSUME NEW m \in Node, NEW g \in Node, NEW s \in Slot,
                        NEW r \in hnd'[g][m][s].todo
                 PROVE  Sendable(m, g, r)
      BY <2>1 DEF HandlerBehind, Sendable
    <3>1. hnd'[g][m][s] = IF g = n THEN Idle
                          ELSE IF m = n THEN Abandoned(n, g)[s] ELSE hnd[g][m][s]
      BY <1>18 DEF Restart
    <3>2. r \in hnd[g][m]["live"].todo \/ r \in hnd[g][m][s].todo
      BY <3>1, AbandonedBehind DEF Idle, At
    <3> QED
      BY <3>2 DEF Behind, HandlerBehind, Slot
  <2> HIDE DEF Grows
  <2> QED
    BY <1>a, <2>1, <2>2, <2>3, Grown DEF Behind, Grows
<1>19. CASE UNCHANGED vars
  <2>1. UNCHANGED <<obj, acked, heard, calls, batch, hnd, desired, log>>
    BY <1>19 DEF vars
  <2> HIDE DEF Grows
  <2> QED
    BY <1>a, <2>1, Grown DEF Behind, Grows
<1> QED
  BY <1>1, <1>2, <1>3, <1>4, <1>5, <1>7, <1>8, <1>9, <1>10, <1>12, <1>13, <1>14,
     <1>15, <1>16, <1>17, <1>18, <1>19 DEF Next, Looper, Handle

\* acked and heard never pass the table they point into, so that no record put
\* later is taken for one already sent or already heard.
THEOREM CursorsCorrect == Spec => []CursorsBehind
<1> DEFINE IInv == TypeOK /\ TableIsLatest /\ Behind
<1>1. Init => IInv
  BY InitTypes, InitBehind
<1>2. IInv /\ [Next]_vars => IInv'
  BY StepTypes, StepBehind
<1>3. IInv => CursorsBehind
  BY DEF Behind, AckedBehind, HeardBehind, TableIsLatest, CursorsBehind
<1> HIDE DEF IInv
<1> QED
  BY <1>1, <1>2, <1>3, PTL DEF Spec
-----------------------------------------------------------------------------
(* NoLostWakeup: whatever adds to Pending(n, f) wakes the looper of n for f,  *)
(* or is the first half of a Subscribe whose second half will.                *)

Waking(n, f) == \E c \in calls : c.at = n /\ c.peer = f /\ c.pc = "rowed"

\* A pair of which a step changes nothing but adds calls stays as it is.
LEMMA Undisturbed ==
    ASSUME NoLostWakeup, NEW n \in Node, NEW f \in Node,
           looper'[n][f] = "sleep" => looper[n][f] = "sleep",
           looper'[n][f] = "sleep" =>
             /\ obj'[n] = obj[n] /\ desired'[n][f] = desired[n][f]
             /\ requested'[n][f] = requested[n][f] /\ acked'[n][f] = acked[n][f]
             /\ \A c \in calls : c.at = n /\ c.peer = f /\ c.pc = "rowed" => c \in calls'
    PROVE  looper'[n][f] = "sleep" /\ Pending(n, f)' # {} => Waking(n, f)'
<1> SUFFICES ASSUME looper'[n][f] = "sleep", Pending(n, f)' # {}
             PROVE  Waking(n, f)'
  OBVIOUS
<1>1. Pending(n, f)' = Pending(n, f)
  BY DEF Pending
<1>2. Waking(n, f)
  BY <1>1 DEF NoLostWakeup, Waking
<1> QED
  BY <1>2 DEF Waking

\* Put wakes every looper of its node and touches no other's table.
LEMMA StoreWakes ==
    ASSUME TypeOK, NEW m \in Node, NEW r, Store(m, r), NEW n \in Node, NEW f \in Node
    PROVE  /\ n = m => looper'[n][f] # "sleep"
           /\ n # m => looper'[n][f] = looper[n][f] /\ obj'[n] = obj[n]
<1>1. looper' = [looper EXCEPT ![m] = [g \in Node |-> Wake(@[g])]]
  BY DEF Store
<1>2. CASE n = m
  <2>1. looper'[n][f] = Wake(looper[n][f])
    BY <1>1, <1>2 DEF TypeOK
  <2> QED
    BY <1>2, <2>1 DEF Wake
<1>3. CASE n # m
  BY <1>1, <1>3 DEF Store, TypeOK
<1> QED
  BY <1>2, <1>3

\* Every step that leaves something to do for a looper wakes it.
LEMMA StepWakeup == TypeOK /\ NoLostWakeup /\ [Next]_vars => NoLostWakeup'
<1> SUFFICES ASSUME TypeOK, NoLostWakeup, [Next]_vars, NEW n \in Node, NEW f \in Node
             PROVE  looper'[n][f] = "sleep" /\ Pending(n, f)' # {} => Waking(n, f)'
  BY DEF NoLostWakeup, Waking
<1> DEFINE Goal == looper'[n][f] = "sleep" /\ Pending(n, f)' # {} => Waking(n, f)'
           Same == /\ obj'[n] = obj[n] /\ desired'[n][f] = desired[n][f]
                   /\ requested'[n][f] = requested[n][f] /\ acked'[n][f] = acked[n][f]
                   /\ \A c \in calls : c.at = n /\ c.peer = f /\ c.pc = "rowed" => c \in calls'
<1> USE DEF tables
<1>0. ASSUME looper'[n][f] = "sleep" => looper[n][f] = "sleep" /\ Same PROVE Goal
  BY <1>0, Undisturbed
<1> HIDE DEF Goal
<1>1. ASSUME NEW m \in Node, NEW t \in Writable[m], NEW k \in Key, Put(m, t, k)
      PROVE  Goal
  BY <1>0, <1>1, StoreWakes DEF Put
<1>2. ASSUME NEW m \in Node, NEW g \in Node, NEW c \in Caller, NEW t \in Topic,
             NEW e \in Enables, SubLookup(m, c, g, t, e)
      PROVE  Goal
  BY <1>0, <1>2 DEF SubLookup
<1>3. ASSUME NEW c \in calls, SubRow(c)
      PROVE  Goal
  <2>1. CASE c.at = n /\ c.peer = f
    <3> DEFINE d == [c EXCEPT !.pc = "rowed", !.heard = heard[c.at][c.peer][c.topic]]
    <3>1. d \in calls'
      BY <1>3 DEF SubRow
    <3>2. d.at = n /\ d.peer = f /\ d.pc = "rowed"
      BY <2>1 DEF TypeOK, Call
    <3> HIDE DEF d
    <3> QED
      BY <3>1, <3>2 DEF Goal, Waking
  <2>2. CASE ~(c.at = n /\ c.peer = f)
    <3>1. desired'[n][f] = desired[n][f]
      BY <1>3, <2>2 DEF SubRow, TypeOK
    <3>2. \A d \in calls : d.pc = "rowed" => d \in calls'
      BY <1>3 DEF SubRow
    <3>3. UNCHANGED <<obj, requested, acked, looper>>
      BY <1>3 DEF SubRow
    <3> QED
      BY <1>0, <3>1, <3>2, <3>3
  <2> QED
    BY <2>1, <2>2
<1>4. ASSUME NEW c \in calls, SubPut(c)
      PROVE  Goal
  <2>1. c.at \in Node
    BY DEF TypeOK, Call
  <2>2. PICK r : Store(c.at, r)
    BY <1>4 DEF SubPut
  <2>3. UNCHANGED <<desired, requested, acked>> /\ calls' = calls \ {c}
    BY <1>4 DEF SubPut
  <2>4. n = c.at => looper'[n][f] # "sleep"
    BY <2>1, <2>2, StoreWakes
  <2>5. n # c.at => looper'[n][f] = looper[n][f] /\ obj'[n] = obj[n]
    BY <2>1, <2>2, StoreWakes
  <2> QED
    BY <1>0, <2>3, <2>4, <2>5
<1>5. ASSUME NEW m \in Node, NEW g \in Node, Scan(m, g)
      PROVE  Goal
  <2>1. UNCHANGED <<obj, desired, requested, acked, calls>>
    BY <1>5 DEF Scan
  <2>2. Pending(n, f)' = Pending(n, f)
    BY <2>1 DEF Pending
  <2>3. CASE m = n /\ g = f
    <3>1. CASE Pending(n, f) = {}
      BY <2>2, <3>1 DEF Goal
    <3>2. CASE Pending(n, f) # {}
      <4>1. looper' = [looper EXCEPT ![n][f] = "sent"]
        BY <1>5, <2>3, <3>2 DEF Scan
      <4> QED
        BY <1>0, <4>1 DEF TypeOK
    <3> QED
      BY <3>1, <3>2
  <2>4. CASE ~(m = n /\ g = f)
    <3>1. looper'[n][f] = looper[n][f]
      <4>1. \/ looper' = [looper EXCEPT ![m][g] = "sleep"]
            \/ looper' = [looper EXCEPT ![m][g] = "sent"]
        BY <1>5 DEF Scan
      <4>2. looper \in [Node -> [Node -> {"none", "run", "sleep", "sent"}]]
        BY DEF TypeOK
      <4> QED
        BY <2>4, <4>1, <4>2
    <3> QED
      BY <1>0, <2>1, <3>1
  <2> QED
    BY <2>3, <2>4
<1>6. ASSUME NEW m \in Node, NEW g \in Node, Finish(m, g),
             UNCHANGED <<obj, desired, requested, calls>>,
             ~(m = n /\ g = f) => acked'[n][f] = acked[n][f]
      PROVE  Goal
  <2>1. looper'[n][f] = IF m = n /\ g = f THEN "run" ELSE looper[n][f]
    BY <1>6 DEF Finish, TypeOK
  <2> QED
    BY <1>0, <1>6, <2>1
<1>7. ASSUME NEW m \in Node, NEW g \in Node, Reply(m, g)
      PROVE  Goal
  <2>1. ~(m = n /\ g = f) => acked'[n][f] = acked[n][f]
    BY <1>7 DEF Reply, AckBatch, TypeOK
  <2> QED
    BY <1>6, <1>7, <2>1 DEF Reply
<1>8. ASSUME NEW m \in Node, NEW g \in Node, Refuse(m, g)
      PROVE  Goal
  BY <1>6, <1>8 DEF Refuse
<1>9. ASSUME NEW m \in Node, NEW g \in Node, Fail(m, g)
      PROVE  Goal
  BY <1>6, <1>9 DEF Fail
<1>10. ASSUME UNCHANGED <<obj, desired, requested, acked, looper, calls>>
       PROVE  Goal
  BY <1>0, <1>10
<1>11. ASSUME NEW m \in Node, NEW g \in Node, Receive(g, m)
       PROVE  Goal
  BY <1>10, <1>11 DEF Receive
<1>12. ASSUME NEW m \in Node, NEW g \in Node, NEW s \in Slot, Handle(g, m, s)
       PROVE  Goal
  <2>1. CASE Check(g, m, s)
    BY <1>10, <2>1 DEF Check
  <2>2. CASE Mark(g, m, s)
    BY <1>10, <2>2 DEF Mark
  <2>3. CASE Sink(g, m, s)
    <3>1. UNCHANGED <<obj, desired, calls>>
      BY <2>3 DEF Sink
    <3> PICK r \in First(hnd[g][m][s].todo) :
          IF r.type = "sub" THEN OnSubscribe(g, m, r)
                            ELSE UNCHANGED <<requested, acked, looper>>
      BY <2>3 DEF Sink
    <3>2. CASE UNCHANGED <<requested, acked, looper>>
      BY <1>10, <3>1, <3>2
    <3>3. CASE OnSubscribe(g, m, r)
      <4>1. CASE g = n /\ m = f
        <5>1. looper'[n][f] = Wake(looper[n][f])
          BY <3>3, <4>1 DEF OnSubscribe, TypeOK
        <5> QED
          BY <1>0, <5>1 DEF Wake
      <4>2. CASE ~(g = n /\ m = f)
        <5>1. /\ looper \in [Node -> [Node -> {"none", "run", "sleep", "sent"}]]
              /\ requested \in [Node -> [Node -> [AllTopic -> BOOLEAN]]]
              /\ acked \in [Node -> [Node -> [AllTopic -> Nat]]]
          BY DEF TypeOK
        <5>2. looper'[n][f] = looper[n][f]
          BY <3>3, <4>2, <5>1 DEF OnSubscribe
        <5>3. requested'[n][f] = requested[n][f]
          BY <3>3, <4>2, <5>1 DEF OnSubscribe
        <5>4. acked'[n][f] = acked[n][f]
          BY <3>3, <4>2, <5>1 DEF OnSubscribe
        <5> QED
          BY <1>0, <3>1, <5>2, <5>3, <5>4
      <4> QED
        BY <4>1, <4>2
    <3> QED
      BY <3>2, <3>3
  <2> QED
    BY <1>12, <2>1, <2>2, <2>3 DEF Handle
<1>13. ASSUME NEW m \in Node, NEW g \in Node, AddFriend(m, g)
       PROVE  Goal
  <2>1. /\ looper'[n][f] = IF m = n /\ g = f THEN "run" ELSE looper[n][f]
        /\ UNCHANGED <<obj, acked, calls>>
    BY <1>13 DEF AddFriend, TypeOK
  <2>2. ~(m = n /\ g = f) =>
          desired'[n][f] = desired[n][f] /\ requested'[n][f] = requested[n][f]
    BY <1>13 DEF AddFriend, TypeOK
  <2> QED
    BY <1>0, <2>1, <2>2
<1>14. ASSUME NEW m \in Node, NEW g \in Node, RemoveBegin(m, g)
       PROVE  Goal
  BY <1>10, <1>14 DEF RemoveBegin
<1>15. ASSUME NEW m \in Node, NEW g \in Node, RemoveEnd(m, g)
       PROVE  Goal
  <2>1. /\ looper'[n][f] = IF m = n /\ g = f THEN "none" ELSE looper[n][f]
        /\ UNCHANGED <<obj, calls>>
    BY <1>15 DEF RemoveEnd, TypeOK
  <2>2. ~(m = n /\ g = f) =>
          /\ desired'[n][f] = desired[n][f] /\ requested'[n][f] = requested[n][f]
          /\ acked'[n][f] = acked[n][f]
    BY <1>15 DEF RemoveEnd, TypeOK
  <2> QED
    BY <1>0, <2>1, <2>2
<1>16. ASSUME NEW m \in Node, Restart(m)
       PROVE  Goal
  <2>1. UNCHANGED <<obj, desired, requested, acked>> /\ calls' = {c \in calls : c.at # m}
    BY <1>16 DEF Restart
  <2>2. looper'[n][f]
          = IF Broken(m, n, f) /\ looper[n][f] # "none" THEN "run" ELSE looper[n][f]
    BY <1>16 DEF Restart
  <2>3. m = n => looper'[n][f] # "sleep"
    BY <2>2 DEF Broken
  <2> QED
    BY <1>0, <2>1, <2>2, <2>3
<1>17. ASSUME UNCHANGED vars
       PROVE  Goal
  BY <1>10, <1>17 DEF vars
<1>18. Goal
  BY <1>1, <1>2, <1>3, <1>4, <1>5, <1>7, <1>8, <1>9, <1>11, <1>12, <1>13, <1>14,
     <1>15, <1>16, <1>17 DEF Next, Looper
<1> QED
  BY <1>18 DEF Goal

\* A looper that waits has nothing to send, or is about to be woken: every writer
\* of what it waits for broadcasts in the critical section of its write.
THEOREM WakeupCorrect == Spec => []NoLostWakeup
<1> DEFINE IInv == TypeOK /\ TableIsLatest /\ NoLostWakeup
<1>1. Init => IInv
  <2>1. Init => NoLostWakeup
    BY DEF Init, NoLostWakeup
  <2> QED
    BY <2>1, InitTypes
<1>2. IInv /\ [Next]_vars => IInv'
  BY StepTypes, StepWakeup
<1> HIDE DEF NoLostWakeup, TypeOK, TableIsLatest
<1> QED
  BY <1>1, <1>2, PTL DEF Spec

-----------------------------------------------------------------------------
(* NothingSkipped: what is known of records on their way.                  *)

Kept(f, n, t) == <<f, n, t>> \notin quit

\* f has been handed row q of n.
Got(n, f, q) == [from |-> n, name |-> Name(q), seq |-> q.seq] \in handed[f]

\* f has been handed what n's table has of t up to p.
Given(n, f, t, p) ==
    /\ p <= Len(log[n])
    /\ Kept(f, n, t) => \A q \in obj[n] : q.topic = t /\ q.seq <= p => Got(n, f, q)

\* f wants t from n.
Wanted(n, f, t) == Kept(f, n, t) => desired[f][n][t]

\* A subscription that n sends f speaks of what n has wanted and heard of f since.
Tells(n, f, r) ==
    r.type = "sub" /\ r.topic = Box(n, f) =>
      r.key \in Topic /\ Wanted(f, n, r.key) /\ Given(f, n, r.key, r.priority)

\* r is a row of n, or was: its number is nobody else's.
Own(n, r) ==
    /\ r.seq \in 1 .. Len(log[n]) /\ log[n][r.seq] = Name(r)
    /\ \A q \in obj[n] : q.seq = r.seq => q = r

\* Rows S of n are on their way to f, who wants them, and nothing current of their
\* topics before them is missing.
Fit(n, f, S) ==
    \A r \in S :
      /\ Own(n, r) /\ Wanted(n, f, r.topic) /\ Tells(n, f, r)
      /\ r.type = "sub" => r.topic = Box(n, f)
      /\ Kept(f, n, r.topic) => \A q \in obj[n] : q.topic = r.topic /\ q.seq < r.seq =>
                                  q \in S \/ Got(n, f, q)

\* A handler of f for n: what it has been through was handed over or refused.
Placed(n, f, h) ==
    /\ Fit(n, f, h.todo)
    /\ ~Running(h) => h.todo = {}
    /\ h.pc = "mark" => \A r \in First(h.todo) : Got(n, f, r)

RowsRight ==
    \A n \in Node : /\ IsFiniteSet(obj[n])
                    /\ \A r \in obj[n] : Own(n, r) /\ \A f \in Node : Tells(n, f, r)
AckedGiven == \A n, f \in Node, t \in AllTopic : Given(n, f, t, acked[n][f][t])
HeardGiven == \A n, f \in Node, t \in AllTopic : Given(n, f, t, heard[f][n][t])
CallsTell ==
    \A c \in calls : c.pc = "rowed" =>
      Wanted(c.peer, c.at, c.topic) /\ Given(c.peer, c.at, c.topic, c.heard)

\* A request is a wish of the friend, and friends want each other's derived topics.
RequestsWanted ==
    \A n, f \in Node, t \in AllTopic : requested[n][f][t] => Wanted(n, f, t)
DerivedWanted ==
    \A n, f \in Node : n # f => \A t \in Exchanged(n, f) : Wanted(n, f, t)

BatchFit == \A n, f \in Node : Fit(n, f, batch[n][f])
HandlersPlaced == \A n, f \in Node, s \in Slot : Placed(n, f, hnd[f][n][s])

\* What has left the handler of a call that is awaited was handed over, ...
Passed(n, f, B, T) ==
    \A q \in B : q \in obj[n] /\ Kept(f, n, q.topic) => q \in T \/ Got(n, f, q)

\* ... so that an answer acknowledges nothing else.
Waits(n, f) ==
    hnd[f][n]["live"].pc # "idle" =>
      looper[n][f] = "sent" /\ Passed(n, f, batch[n][f], hnd[f][n]["live"].todo)
Awaited == \A n, f \in Node : Waits(n, f)

Delivery ==
    /\ RowsRight /\ AckedGiven /\ HeardGiven /\ CallsTell
    /\ RequestsWanted /\ DerivedWanted
    /\ BatchFit /\ HandlersPlaced /\ Awaited

-----------------------------------------------------------------------------
(* What no step undoes.                                                    *)

\* Logs and what was handed over grow, new rows get new numbers, and a wish ends only
\* by giving up.
Forward ==
    /\ \A m \in Node :
         /\ Len(log[m]) \in Nat /\ Len(log'[m]) \in Nat /\ Len(log[m]) <= Len(log'[m])
         /\ \A i \in 1 .. Len(log[m]) : log'[m][i] = log[m][i]
         /\ \A q \in obj'[m] : q \in obj[m] \/ q.seq > Len(log[m])
         /\ handed[m] \subseteq handed'[m]
    /\ quit \subseteq quit'
    /\ \A n, f \in Node, t \in AllTopic :
         desired[f][n][t] => desired'[f][n][t] \/ <<f, n, t>> \in quit'

\* The row that Put adds.
Numbered(n, r) == [r EXCEPT !.seq = LastSeq(n) + 1]

\* Put goes forward.
LEMMA StoreForward ==
    ASSUME TypeOK, TableIsLatest, NEW n \in Node, NEW r \in Row, Store(n, r),
           UNCHANGED <<handed, quit, desired>>
    PROVE  /\ Forward
           /\ Numbered(n, r) \in Row /\ Numbered(n, r).seq = Len(log[n]) + 1
           /\ Len(log'[n]) = Len(log[n]) + 1 /\ log'[n][Len(log[n]) + 1] = Name(r)
           /\ obj'[n] = {q \in obj[n] : Name(q) # Name(r)} \cup {Numbered(n, r)}
           /\ \A m \in Node : m # n => obj'[m] = obj[m] /\ log'[m] = log[m]
<1>1. log \in [Node -> Seq(Triples)] /\ obj \in [Node -> SUBSET Row]
  BY DEF TypeOK, Triples
<1>2. Name(r) \in Triples
  BY DEF Row, Name, Triples
<1>3. LastSeq(n) = Len(log[n]) /\ Len(log[n]) \in Nat
  BY <1>1 DEF TableIsLatest
<1>4. Numbered(n, r) \in Row /\ Numbered(n, r).seq = Len(log[n]) + 1
  BY <1>3 DEF Row, Numbered
<1>5. obj' = [obj EXCEPT ![n] = {q \in obj[n] : Name(q) # Name(r)} \cup {Numbered(n, r)}]
  BY DEF Store, Numbered
<1>6. log' = [log EXCEPT ![n] = Append(log[n], Name(r))]
  BY DEF Store
<1>7. /\ obj'[n] = {q \in obj[n] : Name(q) # Name(r)} \cup {Numbered(n, r)}
      /\ \A m \in Node : m # n => obj'[m] = obj[m]
  BY <1>1, <1>5
<1>8. log'[n] = Append(log[n], Name(r)) /\ \A m \in Node : m # n => log'[m] = log[m]
  BY <1>1, <1>6
<1>9. /\ Len(log'[n]) = Len(log[n]) + 1 /\ log'[n][Len(log[n]) + 1] = Name(r)
      /\ \A i \in 1 .. Len(log[n]) : log'[n][i] = log[n][i]
  BY <1>1, <1>2, <1>8
<1>10. ASSUME NEW m \in Node
       PROVE  /\ Len(log[m]) \in Nat /\ Len(log'[m]) \in Nat /\ Len(log[m]) <= Len(log'[m])
              /\ \A i \in 1 .. Len(log[m]) : log'[m][i] = log[m][i]
              /\ \A q \in obj'[m] : q \in obj[m] \/ q.seq > Len(log[m])
  <2>1. CASE m = n
    BY <1>3, <1>4, <1>7, <1>9, <2>1
  <2>2. CASE m # n
    BY <1>1, <1>7, <1>8, <2>2
  <2> QED
    BY <2>1, <2>2
<1>11. Forward
  BY <1>10 DEF Forward
<1> QED
  BY <1>4, <1>7, <1>8, <1>9, <1>11

\* A step that puts nothing goes forward if it takes no wish back unnoticed.
LEMMA QuietForward ==
    ASSUME TypeOK, UNCHANGED <<obj, log>>, \A m \in Node : handed[m] \subseteq handed'[m],
           quit \subseteq quit',
           \A n, f \in Node, t \in AllTopic :
             desired[f][n][t] => desired'[f][n][t] \/ <<f, n, t>> \in quit'
    PROVE  Forward
BY DEF Forward, TypeOK

\* Every step goes forward.
LEMMA StepForward == TypeOK /\ TableIsLatest /\ [Next]_vars => Forward
<1> SUFFICES ASSUME TypeOK, TableIsLatest, [Next]_vars
             PROVE  Forward
  OBVIOUS
<1> USE DEF tables
<1>1. ASSUME NEW n \in Node, NEW t \in Writable[n], NEW k \in Key, Put(n, t, k)
      PROVE  Forward
  <2> DEFINE row == [type |-> "data", topic |-> t, key |-> k, seq |-> 0,
                     value |-> TRUE, priority |-> 0]
  <2>1. row \in Row /\ Store(n, row)
    BY <1>1, WritableTopics DEF Put, Row
  <2> HIDE DEF row
  <2> QED
    BY <1>1, <2>1, StoreForward DEF Put
<1>2. ASSUME NEW c \in calls, SubPut(c)
      PROVE  Forward
  <2> DEFINE row == [type |-> "sub", topic |-> Box(c.at, c.peer), key |-> c.topic,
                     seq |-> 0, value |-> c.enable, priority |-> c.heard]
  <2>1. row \in Row /\ c.at \in Node /\ Store(c.at, row)
    BY <1>2, DerivedTopics DEF SubPut, Row, Call, TypeOK
  <2> HIDE DEF row
  <2> QED
    BY <1>2, <2>1, StoreForward DEF SubPut
<1>3. ASSUME NEW c \in calls, SubRow(c)
      PROVE  Forward
  <2>1. c.at \in Node /\ c.peer \in Node /\ c.enable \in BOOLEAN
    BY DEF TypeOK, Call
  <2>2. ASSUME NEW n \in Node, NEW f \in Node, NEW t \in AllTopic, desired[f][n][t]
        PROVE  desired'[f][n][t] \/ <<f, n, t>> \in quit'
    <3>1. desired' = [desired EXCEPT ![c.at][c.peer][c.topic] = c.enable]
      BY <1>3 DEF SubRow
    <3>2. desired \in [Node -> [Node -> [AllTopic -> BOOLEAN]]]
      BY DEF TypeOK
    <3>3. CASE f = c.at /\ n = c.peer /\ t = c.topic
      <4>1. CASE c.enable
        BY <3>1, <3>2, <3>3, <4>1
      <4>2. CASE ~c.enable
        BY <1>3, <3>3, <4>2 DEF SubRow
      <4> QED
        BY <4>1, <4>2
    <3>4. CASE ~(f = c.at /\ n = c.peer /\ t = c.topic)
      <4>1. desired'[f][n][t] = desired[f][n][t]
        BY <2>1, <3>1, <3>2, <3>4
      <4> QED
        BY <2>2, <4>1
    <3> QED
      BY <3>3, <3>4
  <2>3. UNCHANGED <<obj, log, handed>> /\ quit \subseteq quit'
    BY <1>3 DEF SubRow
  <2> QED
    BY <2>2, <2>3, QuietForward
<1>4. ASSUME NEW n \in Node, NEW f \in Node, AddFriend(n, f)
      PROVE  Forward
  <2>1. ASSUME NEW m \in Node, NEW g \in Node, NEW t \in AllTopic, desired[g][m][t]
        PROVE  desired'[g][m][t]
    <3>1. desired' = [desired EXCEPT ![n][f] =
                        [u \in AllTopic |-> desired[n][f][u] \/ u \in Exchanged(n, f)]]
      BY <1>4 DEF AddFriend
    <3>2. desired \in [Node -> [Node -> [AllTopic -> BOOLEAN]]]
      BY DEF TypeOK
    <3> QED
      BY <2>1, <3>1, <3>2
  <2>2. UNCHANGED <<obj, log, handed, quit>>
    BY <1>4 DEF AddFriend
  <2> QED
    BY <2>1, <2>2, QuietForward
<1>5. ASSUME NEW n \in Node, NEW f \in Node, RemoveEnd(n, f)
      PROVE  Forward
  <2>1. ASSUME NEW m \in Node, NEW g \in Node, NEW t \in AllTopic, desired[g][m][t]
        PROVE  desired'[g][m][t] \/ <<g, m, t>> \in quit'
    <3>1. desired' = [desired EXCEPT ![n][f] = [u \in AllTopic |-> FALSE]]
      BY <1>5 DEF RemoveEnd
    <3>2. desired \in [Node -> [Node -> [AllTopic -> BOOLEAN]]]
      BY DEF TypeOK
    <3>3. CASE g = n /\ m = f
      BY <1>5, <3>3 DEF RemoveEnd
    <3>4. CASE ~(g = n /\ m = f)
      BY <2>1, <3>1, <3>2, <3>4
    <3> QED
      BY <3>3, <3>4
  <2>2. UNCHANGED <<obj, log, handed>> /\ quit \subseteq quit'
    BY <1>5 DEF RemoveEnd
  <2> QED
    BY <2>1, <2>2, QuietForward
<1>6. ASSUME NEW f \in Node, NEW n \in Node, NEW s \in Slot, Sink(f, n, s)
      PROVE  Forward
  <2>1. PICK r \in First(hnd[f][n][s].todo) :
          handed' = [handed EXCEPT ![f] = @ \cup
                       {[from |-> n, name |-> Name(r), seq |-> r.seq]}]
    BY <1>6 DEF Sink
  <2>2. \A m \in Node : handed[m] \subseteq handed'[m]
    BY <2>1 DEF TypeOK
  <2>3. UNCHANGED <<obj, log, desired, quit>>
    BY <1>6 DEF Sink
  <2> QED
    BY <2>2, <2>3, QuietForward
<1>7. ASSUME UNCHANGED <<obj, log, handed, desired, quit>>
      PROVE  Forward
  BY <1>7, QuietForward
<1>8. ASSUME NEW n \in Node, NEW f \in Node, Looper(n, f) \/ Fail(n, f) \/ Receive(f, n)
      PROVE  UNCHANGED <<obj, log, handed, desired, quit>>
  BY <1>8 DEF Looper, Scan, Reply, Refuse, Fail, Receive
<1>9. ASSUME NEW n \in Node, NEW f \in Node, NEW s \in Slot, Check(f, n, s) \/ Mark(f, n, s)
      PROVE  UNCHANGED <<obj, log, handed, desired, quit>>
  BY <1>9 DEF Check, Mark
<1>10. ASSUME NEW n \in Node, NEW f \in Node, NEW c \in Caller, NEW t \in Topic,
              NEW e \in Enables, SubLookup(n, c, f, t, e)
       PROVE  UNCHANGED <<obj, log, handed, desired, quit>>
  BY <1>10 DEF SubLookup
<1>11. ASSUME NEW n \in Node, (\E f \in Node : RemoveBegin(n, f)) \/ Restart(n)
       PROVE  UNCHANGED <<obj, log, handed, desired, quit>>
  BY <1>11 DEF RemoveBegin, Restart
<1>12. CASE UNCHANGED vars
  BY <1>7, <1>12 DEF vars
<1> QED
  BY <1>1, <1>2, <1>3, <1>4, <1>5, <1>6, <1>7, <1>8, <1>9, <1>10, <1>11, <1>12
  DEF Next, Handle

-----------------------------------------------------------------------------
(* What stays true of rows, cursors and handlers while a step goes forward. *)

\* A hand-over stays, and so does what was given up.
LEMMA GotStays ==
    ASSUME Forward, NEW n \in Node, NEW f \in Node, NEW q, Got(n, f, q)
    PROVE  Got(n, f, q)'
BY DEF Forward, Got

\* What is not given up now was never.
LEMMA KeptBefore ==
    ASSUME Forward, NEW n, NEW f, NEW t, Kept(f, n, t)'
    PROVE  Kept(f, n, t)
BY DEF Forward, Kept

\* Nothing new appears at or below a number that was assigned.
LEMMA OldRow ==
    ASSUME TypeOK, TypeOK', Forward, NEW n \in Node, NEW q \in obj'[n], NEW p \in Nat,
           p <= Len(log[n]), q.seq <= p
    PROVE  q \in obj[n]
BY DEF Forward, TypeOK, Row

\* What was given of a topic up to an assigned number stays given: later rows are above.
LEMMA GivenStays ==
    ASSUME TypeOK, TypeOK', Forward, NEW n \in Node, NEW f \in Node, NEW t, NEW p \in Nat,
           Given(n, f, t, p)
    PROVE  Given(n, f, t, p)'
<1>1. (p <= Len(log[n]))'
  BY DEF Forward, Given
<1>2. ASSUME Kept(f, n, t)', NEW q \in obj'[n], q.topic = t, q.seq <= p
      PROVE  Got(n, f, q)'
  <2>1. q \in obj[n]
    BY <1>2, OldRow DEF Given
  <2>2. Got(n, f, q)
    BY <1>2, <2>1, KeptBefore DEF Given
  <2> QED
    BY <2>2, GotStays
<1> QED
  BY <1>1, <1>2 DEF Given

\* A wish stays until it is given up.
LEMMA WantedStays ==
    ASSUME Forward, NEW n \in Node, NEW f \in Node, NEW t \in AllTopic, Wanted(n, f, t)
    PROVE  Wanted(n, f, t)'
BY DEF Forward, Wanted, Kept

\* A subscription goes on telling the truth about its sender.
LEMMA TellsStays ==
    ASSUME TypeOK, TypeOK', Forward, NEW n \in Node, NEW f \in Node, NEW r \in Row,
           Tells(n, f, r)
    PROVE  Tells(n, f, r)'
<1> SUFFICES ASSUME r.type = "sub", r.topic = Box(n, f)
             PROVE  r.key \in Topic /\ Wanted(f, n, r.key)' /\ Given(f, n, r.key, r.priority)'
  BY DEF Tells
<1>1. r.key \in Topic /\ Wanted(f, n, r.key) /\ Given(f, n, r.key, r.priority)
  BY DEF Tells
<1>2. r.key \in AllTopic /\ r.priority \in Nat
  BY <1>1, UserTopics DEF Row
<1> QED
  BY <1>1, <1>2, WantedStays, GivenStays

\* A row keeps its number, and nobody else gets it.
LEMMA OwnStays ==
    ASSUME TypeOK, TypeOK', Forward, NEW n \in Node, NEW r, Own(n, r)
    PROVE  Own(n, r)'
<1>1. r.seq \in 1 .. Len(log[n]) /\ log[n][r.seq] = Name(r)
  BY DEF Own
<1>2. (r.seq \in 1 .. Len(log[n]))' /\ log'[n][r.seq] = Name(r)
  BY <1>1 DEF Forward
<1>3. ASSUME NEW q \in obj'[n], q.seq = r.seq PROVE q = r
  <2>1. r.seq \in Nat /\ r.seq <= Len(log[n])
    BY <1>1 DEF Forward
  <2>2. q \in obj[n]
    BY <1>3, <2>1, OldRow
  <2> QED
    BY <1>3, <2>2 DEF Own
<1> QED
  BY <1>2, <1>3 DEF Own

\* Rows on their way stay the next ones due.
LEMMA FitStays ==
    ASSUME TypeOK, TypeOK', Forward, NEW n \in Node, NEW f \in Node, NEW S \in SUBSET Row,
           Fit(n, f, S)
    PROVE  Fit(n, f, S)'
<1> SUFFICES ASSUME NEW r \in S
             PROVE  /\ Own(n, r)' /\ Wanted(n, f, r.topic)' /\ Tells(n, f, r)'
                    /\ r.type = "sub" => r.topic = Box(n, f)
                    /\ Kept(f, n, r.topic)' =>
                         \A q \in obj'[n] : q.topic = r.topic /\ q.seq < r.seq =>
                           q \in S \/ Got(n, f, q)'
  BY DEF Fit
<1>1. /\ Own(n, r) /\ Wanted(n, f, r.topic) /\ Tells(n, f, r)
      /\ r.type = "sub" => r.topic = Box(n, f)
      /\ Kept(f, n, r.topic) =>
           \A q \in obj[n] : q.topic = r.topic /\ q.seq < r.seq => q \in S \/ Got(n, f, q)
  BY DEF Fit
<1>2. r \in Row /\ r.topic \in AllTopic
  BY DEF Row
<1>3. ASSUME Kept(f, n, r.topic)', NEW q \in obj'[n], q.topic = r.topic, q.seq < r.seq
      PROVE  q \in S \/ Got(n, f, q)'
  <2>1. r.seq \in Nat /\ r.seq <= Len(log[n])
    BY <1>1 DEF Own, Forward
  <2>2. q.seq <= r.seq
    <3>1. q.seq \in Nat
      BY DEF TypeOK, Row
    <3> QED
      BY <1>3, <2>1, <3>1
  <2>3. q \in obj[n]
    BY <2>1, <2>2, OldRow
  <2>4. q \in S \/ Got(n, f, q)
    BY <1>1, <1>3, <2>3, KeptBefore
  <2> QED
    BY <2>4, GotStays
<1>4. Own(n, r)' /\ Wanted(n, f, r.topic)' /\ Tells(n, f, r)'
  BY <1>1, <1>2, OwnStays, WantedStays, TellsStays
<1> QED
  BY <1>1, <1>3, <1>4

\* A handler that does not move stays well placed.
LEMMA PlacedStays ==
    ASSUME TypeOK, TypeOK', Forward, NEW n \in Node, NEW f \in Node, NEW h \in Handler,
           Placed(n, f, h)
    PROVE  Placed(n, f, h)'
<1>1. h.todo \in SUBSET Row
  BY DEF Handler
<1>2. Fit(n, f, h.todo)'
  BY <1>1, FitStays DEF Placed
<1>3. ASSUME h.pc = "mark", NEW r \in First(h.todo)
      PROVE  Got(n, f, r)'
  BY <1>3, GotStays DEF Placed
<1> QED
  BY <1>2, <1>3 DEF Placed


\* A pair of nodes that a step leaves alone, but for a broadcast.
LEMMA WaitsStays ==
    ASSUME TypeOK, TypeOK', TableIsLatest, Forward, BatchFit, NEW n \in Node, NEW f \in Node,
           Waits(n, f), hnd'[f][n]["live"] = hnd[f][n]["live"], batch'[n][f] = batch[n][f],
           looper[n][f] = "sent" => looper'[n][f] = "sent"
    PROVE  Waits(n, f)'
<1> SUFFICES ASSUME hnd[f][n]["live"].pc # "idle"
             PROVE  looper'[n][f] = "sent"
                    /\ Passed(n, f, batch[n][f], hnd[f][n]["live"].todo)'
  BY DEF Waits
<1>1. looper[n][f] = "sent" /\ Passed(n, f, batch[n][f], hnd[f][n]["live"].todo)
  BY DEF Waits
<1>2. PICK B, T : B = batch[n][f] /\ T = hnd[f][n]["live"].todo
  OBVIOUS
<1>3. /\ B \in SUBSET Row /\ \A r \in B : Own(n, r)
      /\ Passed(n, f, B, T)
  BY <1>1, <1>2 DEF TypeOK, BatchFit, Fit
<1>4. B = batch'[n][f] /\ T = hnd'[f][n]["live"].todo
  BY <1>2
<1>5. \A q \in B : q \in obj'[n] /\ Kept(f, n, q.topic)' => q \in T \/ Got(n, f, q)'
  <2> SUFFICES ASSUME NEW q \in B, q \in obj'[n], Kept(f, n, q.topic)'
               PROVE  q \in T \/ Got(n, f, q)'
    OBVIOUS
  <2>1. q.seq \in Nat /\ q.seq <= Len(log[n])
    BY <1>3 DEF Own, Forward
  <2>2. q \in obj[n]
    BY <2>1, OldRow
  <2> QED
    BY <1>3, <2>2, KeptBefore, GotStays DEF Passed
<1> QED
  BY <1>1, <1>4, <1>5 DEF Passed

\* What a step does not touch stays right.
LEMMA Rests ==
    ASSUME TypeOK, TypeOK', TableIsLatest, Forward, Delivery
    PROVE  /\ UNCHANGED obj => RowsRight'
           /\ UNCHANGED acked => AckedGiven'
           /\ UNCHANGED heard => HeardGiven'
           /\ calls' \subseteq calls => CallsTell'
           /\ UNCHANGED requested => RequestsWanted'
           /\ DerivedWanted'
           /\ UNCHANGED batch => BatchFit'
           /\ UNCHANGED hnd => HandlersPlaced'
           /\ UNCHANGED <<hnd, batch>>
                /\ (\A n, f \in Node : looper[n][f] = "sent" => looper'[n][f] = "sent")
                => Awaited'
<1>1. ASSUME UNCHANGED obj
      PROVE  RowsRight'
  <2> SUFFICES ASSUME NEW n \in Node
               PROVE  /\ IsFiniteSet(obj'[n])
                      /\ \A r \in obj'[n] : Own(n, r)' /\ \A f \in Node : Tells(n, f, r)'
    BY DEF RowsRight
  <2>1. \A r \in obj[n] : r \in Row /\ Own(n, r) /\ \A f \in Node : Tells(n, f, r)
    BY DEF Delivery, RowsRight, TypeOK
  <2>2. IsFiniteSet(obj'[n])
    BY <1>1 DEF Delivery, RowsRight
  <2> QED
    BY <1>1, <2>1, <2>2, OwnStays, TellsStays
<1>2. ASSUME UNCHANGED acked
      PROVE  AckedGiven'
  <2> SUFFICES ASSUME NEW n \in Node, NEW f \in Node, NEW t \in AllTopic
               PROVE  Given(n, f, t, acked[n][f][t])'
    BY DEF AckedGiven
  <2>1. PICK p \in Nat : p = acked[n][f][t]
    BY DEF TypeOK
  <2>2. Given(n, f, t, p)
    BY <2>1 DEF Delivery, AckedGiven
  <2>3. Given(n, f, t, p)'
    BY <2>2, GivenStays
  <2> QED
    BY <1>2, <2>1, <2>3
<1>3. ASSUME UNCHANGED heard
      PROVE  HeardGiven'
  <2> SUFFICES ASSUME NEW n \in Node, NEW f \in Node, NEW t \in AllTopic
               PROVE  Given(n, f, t, heard[f][n][t])'
    BY DEF HeardGiven
  <2>1. PICK p \in Nat : p = heard[f][n][t]
    BY DEF TypeOK
  <2>2. Given(n, f, t, p)
    BY <2>1 DEF Delivery, HeardGiven
  <2>3. Given(n, f, t, p)'
    BY <2>2, GivenStays
  <2> QED
    BY <1>3, <2>1, <2>3
<1>4. ASSUME calls' \subseteq calls
      PROVE  CallsTell'
  <2> SUFFICES ASSUME NEW c \in calls', c.pc = "rowed"
               PROVE  /\ Wanted(c.peer, c.at, c.topic)'
                      /\ Given(c.peer, c.at, c.topic, c.heard)'
    BY DEF CallsTell
  <2>1. /\ c.at \in Node /\ c.peer \in Node /\ c.topic \in AllTopic /\ c.heard \in Nat
        /\ c \in calls
    BY <1>4, UserTopics DEF TypeOK, Call
  <2>2. Wanted(c.peer, c.at, c.topic) /\ Given(c.peer, c.at, c.topic, c.heard)
    BY <2>1 DEF Delivery, CallsTell
  <2> QED
    BY <2>1, <2>2, WantedStays, GivenStays
<1>5. ASSUME UNCHANGED requested
      PROVE  RequestsWanted'
  <2> SUFFICES ASSUME NEW n \in Node, NEW f \in Node, NEW t \in AllTopic, requested'[n][f][t]
               PROVE  Wanted(n, f, t)'
    BY DEF RequestsWanted
  <2> QED
    BY <1>5, WantedStays DEF Delivery, RequestsWanted
<1>6. DerivedWanted'
  <2> SUFFICES ASSUME NEW n \in Node, NEW f \in Node, n # f, NEW t \in Exchanged(n, f)
               PROVE  Wanted(n, f, t)'
    BY DEF DerivedWanted, Exchanged
  <2>1. t \in AllTopic
    BY DerivedTopics DEF Exchanged
  <2> QED
    BY <2>1, WantedStays DEF Delivery, DerivedWanted
<1>7. ASSUME UNCHANGED batch
      PROVE  BatchFit'
  <2> SUFFICES ASSUME NEW n \in Node, NEW f \in Node
               PROVE  Fit(n, f, batch[n][f])'
    BY DEF BatchFit
  <2>1. PICK B \in SUBSET Row : B = batch[n][f]
    BY DEF TypeOK
  <2>2. Fit(n, f, B)
    BY <2>1 DEF Delivery, BatchFit
  <2>3. Fit(n, f, B)'
    BY <2>2, FitStays
  <2> QED
    BY <1>7, <2>1, <2>3
<1>8. ASSUME UNCHANGED hnd
      PROVE  HandlersPlaced'
  <2> SUFFICES ASSUME NEW n \in Node, NEW f \in Node, NEW s \in Slot
               PROVE  Placed(n, f, hnd[f][n][s])'
    BY DEF HandlersPlaced
  <2>1. PICK h \in Handler : h = hnd[f][n][s]
    BY DEF TypeOK
  <2>2. Placed(n, f, h)
    BY <2>1 DEF Delivery, HandlersPlaced
  <2>3. Placed(n, f, h)'
    BY <2>2, PlacedStays
  <2> QED
    BY <1>8, <2>1, <2>3
<1>9. ASSUME UNCHANGED <<hnd, batch>>,
             \A n, f \in Node : looper[n][f] = "sent" => looper'[n][f] = "sent"
      PROVE  Awaited'
  <2> SUFFICES ASSUME NEW n \in Node, NEW f \in Node
               PROVE  Waits(n, f)'
    BY DEF Awaited
  <2> QED
    BY <1>9, WaitsStays DEF Delivery, Awaited
<1> QED
  BY <1>1, <1>2, <1>3, <1>4, <1>5, <1>6, <1>7, <1>8, <1>9

\* Rows that a call has passed stay passed, its batch being the same.
LEMMA PassedStays ==
    ASSUME TypeOK, TypeOK', TableIsLatest, Forward, BatchFit, UNCHANGED batch,
           NEW n \in Node, NEW f \in Node, NEW T, Passed(n, f, batch[n][f], T)
    PROVE  Passed(n, f, batch[n][f], T)'
<1> SUFFICES ASSUME NEW q \in batch[n][f], q \in obj'[n], Kept(f, n, q.topic)'
             PROVE  q \in T \/ Got(n, f, q)'
  BY DEF Passed
<1>1. q.seq \in Nat /\ q.seq <= Len(log[n])
  BY DEF BatchFit, Fit, Own, Forward
<1>2. q \in obj[n]
  BY <1>1, OldRow
<1> QED
  BY <1>2, KeptBefore, GotStays DEF Passed

-----------------------------------------------------------------------------
(* Every step keeps the invariant.  First Put and Subscribe.               *)

\* What the lemmas about single steps assume.
Proper == /\ TypeOK /\ TableIsLatest /\ Behind /\ Delivery
          /\ TypeOK' /\ Forward

\* The row that is put is the only one of its number.
LEMMA StoreRight ==
    ASSUME Proper, NEW n \in Node, NEW r \in Row, Store(n, r),
           UNCHANGED <<handed, quit, desired>>, \A f \in Node : Tells(n, f, r)
    PROVE  RowsRight'
<1>1. /\ TypeOK /\ TypeOK' /\ TableIsLatest /\ Forward /\ Delivery
  BY DEF Proper
<1>a. PICK new : new = Numbered(n, r)
  OBVIOUS
<1>2. /\ new \in Row /\ new.seq = Len(log[n]) + 1
      /\ Len(log'[n]) = Len(log[n]) + 1 /\ log'[n][Len(log[n]) + 1] = Name(r)
      /\ obj'[n] = {q \in obj[n] : Name(q) # Name(r)} \cup {new}
      /\ \A m \in Node : m # n => obj'[m] = obj[m] /\ log'[m] = log[m]
  BY <1>1, <1>a, StoreForward
<1>3. /\ new.type = r.type /\ new.topic = r.topic /\ new.key = r.key
      /\ new.priority = r.priority /\ Name(new) = Name(r)
  BY <1>a DEF Numbered, Name, Row
<1>4. ASSUME NEW m \in Node, NEW q \in obj[m]
      PROVE  Own(m, q)' /\ \A f \in Node : Tells(m, f, q)'
  <2>1. q \in Row /\ Own(m, q) /\ \A f \in Node : Tells(m, f, q)
    BY <1>1 DEF TypeOK, Delivery, RowsRight
  <2> QED
    BY <1>1, <2>1, OwnStays, TellsStays
<1>5. Own(n, new)'
  <2>1. Len(log[n]) \in Nat
    BY <1>1 DEF Forward
  <2>2. ASSUME NEW q \in obj'[n], q.seq = new.seq PROVE q = new
    <3>1. q \in obj[n] => q.seq <= Len(log[n]) /\ q.seq \in Nat
      BY <1>1 DEF Delivery, RowsRight, Own
    <3> QED
      BY <1>2, <2>1, <2>2, <3>1
  <2> QED
    BY <1>2, <1>3, <2>1, <2>2 DEF Own
<1>6. \A f \in Node : Tells(n, f, new)'
  <2>1. \A f \in Node : Tells(n, f, r)'
    BY <1>1, TellsStays
  <2> QED
    BY <1>3, <2>1 DEF Tells
<1>7. ASSUME NEW m \in Node
      PROVE  IsFiniteSet(obj'[m])
  <2>1. IsFiniteSet(obj[m])
    BY <1>1 DEF Delivery, RowsRight
  <2>2. CASE m = n
    <3>1. IsFiniteSet({q \in obj[n] : Name(q) # Name(r)})
      BY <2>1, <2>2, FS_Subset
    <3> QED
      BY <1>2, <2>2, <3>1, FS_AddElement, SMTT(40)
  <2>3. CASE m # n
    BY <1>2, <2>1, <2>3
  <2> QED
    BY <2>2, <2>3
<1>8. ASSUME NEW m \in Node, NEW q \in obj'[m]
      PROVE  Own(m, q)' /\ \A f \in Node : Tells(m, f, q)'
  <2>1. q \in obj[m] \/ (m = n /\ q = new)
    BY <1>2
  <2> QED
    BY <1>4, <1>5, <1>6, <2>1
<1> QED
  BY <1>7, <1>8 DEF RowsRight

\* Put wakes loopers, and changes nothing else that the rest speaks of.
LEMMA StoreDelivers ==
    ASSUME Proper, NEW n \in Node, NEW r \in Row, Store(n, r), \A f \in Node : Tells(n, f, r),
           UNCHANGED <<desired, requested, acked, heard, batch, hnd, handed, quit>>,
           calls' \subseteq calls
    PROVE  Delivery'
<1>1. RowsRight'
  BY StoreRight
<1>2. TypeOK /\ TypeOK' /\ TableIsLatest /\ Forward /\ Delivery
  BY DEF Proper
<1>3. \A m, f \in Node : looper[m][f] = "sent" => looper'[m][f] = "sent"
  <2>1. looper' = [looper EXCEPT ![n] = [f \in Node |-> Wake(looper[n][f])]]
    BY DEF Store
  <2>2. looper \in [Node -> [Node -> {"none", "run", "sleep", "sent"}]]
    BY <1>2 DEF TypeOK
  <2> QED
    BY <2>1, <2>2 DEF Wake
<1> QED
  BY <1>1, <1>2, <1>3, Rests DEF Delivery

\* Put adds a row that no cursor has passed.
LEMMA PutDelivers ==
    ASSUME Proper, NEW n \in Node, NEW t \in Writable[n], NEW k \in Key, Put(n, t, k)
    PROVE  Delivery'
<1> DEFINE row == [type |-> "data", topic |-> t, key |-> k, seq |-> 0,
                   value |-> TRUE, priority |-> 0]
<1>1. row \in Row /\ Store(n, row) /\ row.type = "data"
  BY WritableTopics DEF Put, Row
<1>2. UNCHANGED <<desired, requested, acked, heard, batch, hnd, calls, handed, quit>>
  BY DEF Put, tables
<1> HIDE DEF row
<1>3. \A f \in Node : Tells(n, f, row)
  BY <1>1 DEF Tells
<1> QED
  BY <1>1, <1>2, <1>3, StoreDelivers

\* The record of Subscribe says what the call read under the lock.
LEMMA SubPutDelivers ==
    ASSUME Proper, NEW c \in calls, SubPut(c)
    PROVE  Delivery'
<1> DEFINE row == [type |-> "sub", topic |-> Box(c.at, c.peer), key |-> c.topic,
                   seq |-> 0, value |-> c.enable, priority |-> c.heard]
<1>1. /\ c \in Call /\ c.at \in Node /\ c.peer \in Node /\ c.topic \in Topic
      /\ c.pc = "rowed"
  BY DEF Proper, TypeOK, Call, SubPut
<1>2. row \in Row /\ Store(c.at, row)
  BY <1>1, DerivedTopics DEF SubPut, Row, Call
<1>3. /\ row.topic = Box(c.at, c.peer) /\ row.key = c.topic /\ row.priority = c.heard
  OBVIOUS
<1>4. /\ UNCHANGED <<desired, requested, acked, heard, batch, hnd, handed, quit>>
      /\ calls' \subseteq calls
  BY DEF SubPut, tables
<1> HIDE DEF row
<1>5. ASSUME NEW f \in Node PROVE Tells(c.at, f, row)
  <2>1. Box(c.at, c.peer) = Box(c.at, f) => f = c.peer
    BY <1>1, DistinctTopics
  <2>2. Wanted(c.peer, c.at, c.topic) /\ Given(c.peer, c.at, c.topic, c.heard)
    BY <1>1 DEF Proper, Delivery, CallsTell
  <2> QED
    BY <1>1, <1>3, <2>1, <2>2 DEF Tells
<1> QED
  BY <1>1, <1>2, <1>4, <1>5, StoreDelivers

\* Looking the client up promises nothing yet.
LEMMA SubLookupDelivers ==
    ASSUME Proper, NEW n \in Node, NEW f \in Node, NEW c \in Caller, NEW t \in Topic,
           NEW e \in Enables, SubLookup(n, c, f, t, e)
    PROVE  Delivery'
<1>1. TypeOK /\ TypeOK' /\ TableIsLatest /\ Forward /\ Delivery
  BY DEF Proper
<1>2. UNCHANGED <<obj, desired, requested, acked, heard, looper, batch, hnd>>
  BY DEF SubLookup, tables
<1>3. CallsTell'
  <2> SUFFICES ASSUME NEW d \in calls', d.pc = "rowed"
               PROVE  /\ Wanted(d.peer, d.at, d.topic)'
                      /\ Given(d.peer, d.at, d.topic, d.heard)'
    BY DEF CallsTell
  <2>1. d \in calls
    BY DEF SubLookup
  <2>2. d.at \in Node /\ d.peer \in Node /\ d.topic \in AllTopic /\ d.heard \in Nat
    BY <1>1, <2>1, UserTopics DEF TypeOK, Call
  <2>3. Wanted(d.peer, d.at, d.topic) /\ Given(d.peer, d.at, d.topic, d.heard)
    BY <1>1, <2>1 DEF Delivery, CallsTell
  <2> QED
    BY <1>1, <2>2, <2>3, WantedStays, GivenStays
<1> QED
  BY <1>1, <1>2, <1>3, Rests DEF Delivery

\* Subscribe tells how far the friend has been heard, which is as far as it was given.
LEMMA SubRowDelivers ==
    ASSUME Proper, NEW c \in calls, SubRow(c)
    PROVE  Delivery'
<1>1. TypeOK /\ TypeOK' /\ TableIsLatest /\ Forward /\ Delivery
  BY DEF Proper
<1>2. UNCHANGED <<obj, requested, acked, heard, looper, batch, hnd>>
  BY DEF SubRow
<1>3. /\ c \in Call /\ c.at \in Node /\ c.peer \in Node /\ c.topic \in AllTopic
      /\ c.enable \in BOOLEAN
  BY <1>1, UserTopics DEF TypeOK, Call
<1>4. Wanted(c.peer, c.at, c.topic)'
  <2>1. CASE c.enable
    <3>1. desired' = [desired EXCEPT ![c.at][c.peer][c.topic] = c.enable]
      BY DEF SubRow
    <3>2. desired \in [Node -> [Node -> [AllTopic -> BOOLEAN]]]
      BY <1>1 DEF TypeOK
    <3>3. desired'[c.at][c.peer][c.topic] = c.enable
      BY <1>3, <3>1, <3>2
    <3> QED
      BY <2>1, <3>3 DEF Wanted
  <2>2. CASE ~c.enable
    BY <2>2 DEF SubRow, Wanted, Kept
  <2> QED
    BY <2>1, <2>2
<1>5. CallsTell'
  <2> SUFFICES ASSUME NEW d \in calls', d.pc = "rowed"
               PROVE  /\ Wanted(d.peer, d.at, d.topic)'
                      /\ Given(d.peer, d.at, d.topic, d.heard)'
    BY DEF CallsTell
  <2>1. CASE d \in calls
    <3>1. d.at \in Node /\ d.peer \in Node /\ d.topic \in AllTopic /\ d.heard \in Nat
      BY <1>1, <2>1, UserTopics DEF TypeOK, Call
    <3>2. Wanted(d.peer, d.at, d.topic) /\ Given(d.peer, d.at, d.topic, d.heard)
      BY <1>1, <2>1 DEF Delivery, CallsTell
    <3> QED
      BY <1>1, <3>1, <3>2, WantedStays, GivenStays
  <2>2. CASE d \notin calls
    <3>1. /\ d.at = c.at /\ d.peer = c.peer /\ d.topic = c.topic
          /\ d.heard = heard[c.at][c.peer][c.topic]
      BY <1>3, <2>2 DEF SubRow, Call
    <3>2. PICK p \in Nat : p = heard[c.at][c.peer][c.topic]
      <4>1. heard \in [Node -> [Node -> [AllTopic -> Nat]]]
        BY <1>1 DEF TypeOK
      <4> QED
        BY <1>3, <4>1
    <3>3. Given(c.peer, c.at, c.topic, p)
      BY <1>1, <1>3, <3>2 DEF Delivery, HeardGiven
    <3>4. Given(c.peer, c.at, c.topic, p)'
      BY <1>1, <1>3, <3>3, GivenStays
    <3> QED
      BY <1>4, <3>1, <3>2, <3>4
  <2> QED
    BY <2>1, <2>2
<1> QED
  BY <1>1, <1>2, <1>5, Rests DEF Delivery

-----------------------------------------------------------------------------
(* The notify loop.                                                        *)

\* The parts of Proper, for citing at once.
LEMMA ProperParts ==
    Proper => /\ TypeOK /\ TypeOK' /\ TableIsLatest /\ Behind /\ Forward /\ Delivery
              /\ RowsRight /\ AckedGiven /\ HeardGiven /\ CallsTell
              /\ RequestsWanted /\ DerivedWanted /\ BatchFit /\ HandlersPlaced /\ Awaited
BY DEF Proper, Delivery

\* A batch that is cut at Limit rows leaves out later rows only.
LEMMA FetchFit ==
    ASSUME Proper, NEW n \in Node, NEW f \in Node
    PROVE  Fetch(n, f) \in SUBSET Row /\ Fit(n, f, Fetch(n, f))
<1> USE ProperParts
<1>1. Fetch(n, f) \subseteq Pending(n, f) /\ Pending(n, f) \subseteq obj[n]
      /\ obj[n] \subseteq Row
  BY DEF Fetch, Pending, TypeOK
<1> SUFFICES ASSUME NEW r \in Fetch(n, f)
             PROVE  /\ Own(n, r) /\ Wanted(n, f, r.topic) /\ Tells(n, f, r)
                    /\ r.type = "sub" => r.topic = Box(n, f)
                    /\ Kept(f, n, r.topic) =>
                         \A q \in obj[n] : q.topic = r.topic /\ q.seq < r.seq =>
                           q \in Fetch(n, f) \/ Got(n, f, q)
  BY <1>1 DEF Fit
<1>2. /\ r \in obj[n] /\ r.topic \in AllTopic /\ r.seq \in Nat
      /\ desired[n][f][r.topic] /\ requested[n][f][r.topic]
      /\ r.seq > acked[n][f][r.topic]
  BY <1>1 DEF Pending, Row
<1>3. Own(n, r) /\ Wanted(n, f, r.topic) /\ Tells(n, f, r)
  BY <1>2 DEF RowsRight, RequestsWanted
<1>4. r.type = "sub" => r.topic = Box(n, f)
  BY <1>2 DEF Behind, RowsAddressed, OutboxOfPeer
<1>5. ASSUME Kept(f, n, r.topic), NEW q \in obj[n], q.topic = r.topic, q.seq < r.seq
      PROVE  q \in Fetch(n, f) \/ Got(n, f, q)
  <2>1. q.seq \in Nat /\ acked[n][f][r.topic] \in Nat
    BY <1>1, <1>2 DEF Row, TypeOK
  <2>2. CASE q.seq <= acked[n][f][r.topic]
    BY <1>2, <1>5, <2>2 DEF AckedGiven, Given
  <2>3. CASE q.seq > acked[n][f][r.topic]
    <3>1. q \in Pending(n, f)
      BY <1>2, <1>5, <2>3 DEF Pending
    <3> DEFINE S == {x \in Pending(n, f) : x.seq < r.seq}
               T == {x \in Pending(n, f) : x.seq < q.seq}
    <3>2. T \subseteq S
      <4>1. \A x \in Pending(n, f) : x.seq \in Nat
        BY <1>1 DEF Row
      <4> QED
        BY <1>2, <1>5, <2>1, <4>1
    <3>3. IsFiniteSet(S)
      <4>1. IsFiniteSet(obj[n]) /\ S \subseteq obj[n]
        BY <1>1 DEF RowsRight
      <4> QED
        BY <4>1, FS_Subset
    <3>4. Cardinality(S) < Limit
      BY DEF Fetch
    <3> HIDE DEF S, T
    <3>5. Cardinality(T) <= Cardinality(S) /\ Cardinality(T) \in Nat /\ Cardinality(S) \in Nat
      BY <3>2, <3>3, FS_Subset, FS_CardinalityType
    <3>6. Cardinality(T) < Limit
      BY <3>4, <3>5, BoundAssumption
    <3> QED
      BY <3>1, <3>6 DEF Fetch, T
  <2> QED
    BY <2>1, <2>2, <2>3
<1> QED
  BY <1>3, <1>4, <1>5

\* One batch changes.
LEMMA BatchAt ==
    ASSUME Proper, NEW n \in Node, NEW f \in Node, NEW S \in SUBSET Row, Fit(n, f, S),
           batch' = [batch EXCEPT ![n][f] = S]
    PROVE  BatchFit'
<1> USE ProperParts
<1> SUFFICES ASSUME NEW m \in Node, NEW g \in Node
             PROVE  Fit(m, g, batch[m][g])'
  BY DEF BatchFit
<1>1. PICK B \in SUBSET Row : B = batch'[m][g] /\ Fit(m, g, B)
  <2>1. batch \in [Node -> [Node -> SUBSET Row]]
    BY DEF TypeOK
  <2>2. CASE m = n /\ g = f
    BY <2>1, <2>2
  <2>3. CASE ~(m = n /\ g = f)
    BY <2>1, <2>3 DEF BatchFit
  <2> QED
    BY <2>2, <2>3
<1>2. Fit(m, g, B)'
  BY <1>1, FitStays
<1> QED
  BY <1>1, <1>2

\* One handler changes.
LEMMA HandlerAt ==
    ASSUME Proper, NEW n \in Node, NEW f \in Node, NEW s \in Slot, NEW h,
           Placed(n, f, h)', hnd' = [hnd EXCEPT ![f][n][s] = h]
    PROVE  HandlersPlaced'
<1> USE ProperParts
<1> SUFFICES ASSUME NEW m \in Node, NEW g \in Node, NEW z \in Slot
             PROVE  Placed(m, g, hnd[g][m][z])'
  BY DEF HandlersPlaced
<1>1. hnd \in [Node -> [Node -> [Slot -> Handler]]]
  BY DEF TypeOK
<1>2. CASE m = n /\ g = f /\ z = s
  BY <1>1, <1>2
<1>3. CASE ~(m = n /\ g = f /\ z = s)
  <2>1. PICK i \in Handler : i = hnd[g][m][z]
    BY <1>1
  <2>2. hnd'[g][m][z] = i
    BY <1>1, <1>3, <2>1
  <2>3. Placed(m, g, i)'
    BY <2>1, PlacedStays DEF HandlersPlaced
  <2> QED
    BY <2>2, <2>3
<1> QED
  BY <1>2, <1>3

\* One pair is not as it was.
LEMMA OthersWait ==
    ASSUME Proper, NEW n \in Node, NEW f \in Node, Waits(n, f)',
           \A m, g \in Node : ~(m = n /\ g = f) =>
             /\ hnd'[g][m]["live"] = hnd[g][m]["live"] /\ batch'[m][g] = batch[m][g]
             /\ looper[m][g] = "sent" => looper'[m][g] = "sent"
    PROVE  Awaited'
<1> USE ProperParts
<1> SUFFICES ASSUME NEW m \in Node, NEW g \in Node
             PROVE  Waits(m, g)'
  BY DEF Awaited
<1>1. CASE m = n /\ g = f
  BY <1>1
<1>2. CASE ~(m = n /\ g = f)
  BY <1>2, WaitsStays DEF Awaited
<1> QED
  BY <1>1, <1>2

\* Nothing to do is done.
LEMMA EmptyFit ==
    /\ \A n, f \in Node : Fit(n, f, {}) /\ Placed(n, f, Idle) /\ Placed(n, f, At("done", {}))
    /\ \A n, f \in Node : (Fit(n, f, {}) /\ Placed(n, f, Idle) /\ Placed(n, f, At("done", {})))'
BY DEF Fit, Placed, Idle, At, Running

\* The notify query fetches what is due, in order.
LEMMA ScanDelivers ==
    ASSUME Proper, NEW n \in Node, NEW f \in Node, Scan(n, f)
    PROVE  Delivery'
<1> USE ProperParts
<1>1. UNCHANGED <<obj, desired, requested, acked, heard, hnd, calls>>
  BY DEF Scan, tables
<1>2. hnd[f][n]["live"].pc = "idle"
  BY DEF Scan, Awaited, Waits
<1>3. BatchFit'
  <2>1. CASE UNCHANGED batch
    BY <2>1, Rests
  <2>2. CASE batch' = [batch EXCEPT ![n][f] = Fetch(n, f)]
    BY <2>2, FetchFit, BatchAt
  <2> QED
    BY <2>1, <2>2 DEF Scan
<1>4. Awaited'
  <2>1. Waits(n, f)'
    BY <1>1, <1>2 DEF Waits
  <2>2. ASSUME NEW m \in Node, NEW g \in Node, ~(m = n /\ g = f)
        PROVE  batch'[m][g] = batch[m][g] /\ looper'[m][g] = looper[m][g]
    <3>1. batch' = batch \/ batch' = [batch EXCEPT ![n][f] = Fetch(n, f)]
      BY DEF Scan
    <3>2. looper' = [looper EXCEPT ![n][f] = "sleep"] \/ looper' = [looper EXCEPT ![n][f] = "sent"]
      BY DEF Scan
    <3>3. /\ batch \in [Node -> [Node -> SUBSET Row]]
          /\ looper \in [Node -> [Node -> {"none", "run", "sleep", "sent"}]]
      BY DEF TypeOK
    <3>4. batch'[m][g] = batch[m][g]
      BY <2>2, <3>1, <3>3
    <3>5. looper'[m][g] = looper[m][g]
      BY <2>2, <3>2, <3>3
    <3> QED
      BY <3>4, <3>5
  <2> QED
    BY <1>1, <2>1, <2>2, OthersWait
<1> QED
  BY <1>1, <1>3, <1>4, Rests DEF Delivery

\* What an answer acknowledges has been given.
LEMMA AckGiven ==
    ASSUME Proper, NEW n \in Node, NEW f \in Node, NEW t \in AllTopic,
           Passed(n, f, batch[n][f], {})
    PROVE  AckOf(n, f, t) \in Nat /\ Given(n, f, t, AckOf(n, f, t))
<1> USE ProperParts
<1> DEFINE A == {r \in Tops(batch[n][f]) : r.topic = t}
<1>1. A \subseteq batch[n][f] /\ batch[n][f] \subseteq Row
  BY DEF Tops, TypeOK
<1>2. CASE A = {}
  BY <1>2 DEF AckOf, AckedGiven, TypeOK
<1>3. CASE A # {}
  <2>1. PICK r \in A : AckOf(n, f, t) = r.seq
    BY <1>3 DEF AckOf
  <2>2. r \in batch[n][f] /\ r.topic = t /\ r.seq \in Nat
    BY <1>1 DEF Row
  <2>3. Own(n, r)
    BY <2>2 DEF BatchFit, Fit
  <2>4. ASSUME Kept(f, n, t), NEW q \in obj[n], q.topic = t, q.seq <= r.seq
        PROVE  Got(n, f, q)
    <3>1. CASE q.seq = r.seq
      <4>1. q = r
        BY <2>3, <3>1 DEF Own
      <4> QED
        BY <2>2, <2>4, <4>1 DEF Passed
    <3>2. CASE q.seq < r.seq
      <4>1. q \in batch[n][f] \/ Got(n, f, q)
        BY <2>2, <2>4, <3>2 DEF BatchFit, Fit
      <4> QED
        BY <2>4, <4>1 DEF Passed
    <3>3. q.seq \in Nat
      BY DEF TypeOK, Row
    <3> QED
      BY <2>2, <2>4, <3>1, <3>2, <3>3
  <2>5. r.seq <= Len(log[n])
    BY <2>3 DEF Own, Forward
  <2> QED
    BY <2>1, <2>2, <2>4, <2>5 DEF Given
<1> QED
  BY <1>2, <1>3

\* The call is over: nothing is awaited, no batch is kept.
LEMMA FinishAt ==
    ASSUME Proper, NEW n \in Node, NEW f \in Node, Finish(n, f),
           hnd'[f][n]["live"].pc = "idle",
           \A m, g \in Node : ~(m = n /\ g = f) => hnd'[g][m]["live"] = hnd[g][m]["live"]
    PROVE  BatchFit' /\ Awaited'
<1> USE ProperParts
<1>1. BatchFit'
  BY EmptyFit, BatchAt DEF Finish
<1>2. Waits(n, f)'
  BY DEF Waits
<1>3. ASSUME NEW m \in Node, NEW g \in Node, ~(m = n /\ g = f)
      PROVE  batch'[m][g] = batch[m][g] /\ looper'[m][g] = looper[m][g]
  <2>1. /\ batch \in [Node -> [Node -> SUBSET Row]]
        /\ looper \in [Node -> [Node -> {"none", "run", "sleep", "sent"}]]
    BY DEF TypeOK
  <2> QED
    BY <1>3, <2>1 DEF Finish
<1> QED
  BY <1>1, <1>2, <1>3, OthersWait

\* An answer moves acked over what the handler has been through.
LEMMA ReplyDelivers ==
    ASSUME Proper, NEW n \in Node, NEW f \in Node, Reply(n, f)
    PROVE  Delivery'
<1> USE ProperParts
<1>1. UNCHANGED <<obj, desired, requested, heard, calls>>
  BY DEF Reply
<1>2. hnd[f][n]["live"].pc = "done"
  BY DEF Reply
<1>3. Passed(n, f, batch[n][f], {})
  <2>1. "live" \in Slot
    BY DEF Slot
  <2>2. hnd[f][n]["live"].todo = {}
    BY <1>2, <2>1 DEF HandlersPlaced, Placed, Running
  <2> QED
    BY <1>2, <2>2 DEF Awaited, Waits
<1>4. AckedGiven'
  <2> SUFFICES ASSUME NEW m \in Node, NEW g \in Node, NEW t \in AllTopic
               PROVE  Given(m, g, t, acked[m][g][t])'
    BY DEF AckedGiven
  <2>1. acked \in [Node -> [Node -> [AllTopic -> Nat]]]
    BY DEF TypeOK
  <2>2. acked' = [acked EXCEPT ![n][f] = [u \in AllTopic |-> AckOf(n, f, u)]]
    BY DEF Reply, AckBatch
  <2>3. PICK p \in Nat : p = acked'[m][g][t] /\ Given(m, g, t, p)
    <3>1. CASE m = n /\ g = f
      <4>1. acked'[m][g][t] = AckOf(n, f, t)
        BY <2>1, <2>2, <3>1
      <4> QED
        BY <1>3, <3>1, <4>1, AckGiven
    <3>2. CASE ~(m = n /\ g = f)
      BY <2>1, <2>2, <3>2 DEF AckedGiven
    <3> QED
      BY <3>1, <3>2
  <2>4. Given(m, g, t, p)'
    BY <2>3, GivenStays
  <2> QED
    BY <2>3, <2>4
<1>5. hnd' = [hnd EXCEPT ![f][n]["live"] = Idle]
  BY DEF Reply
<1>6. HandlersPlaced'
  BY <1>5, EmptyFit, HandlerAt DEF Slot
<1>7. /\ hnd'[f][n]["live"].pc = "idle"
      /\ \A m, g \in Node : ~(m = n /\ g = f) => hnd'[g][m]["live"] = hnd[g][m]["live"]
  <2>1. hnd \in [Node -> [Node -> [Slot -> Handler]]] /\ "live" \in Slot
    BY DEF TypeOK, Slot
  <2> QED
    BY <1>5, <2>1 DEF Idle, At
<1>8. BatchFit' /\ Awaited'
  BY <1>7, FinishAt DEF Reply
<1> QED
  BY <1>1, <1>4, <1>6, <1>8, Rests DEF Delivery

\* A refused call moves nothing.
LEMMA RefuseDelivers ==
    ASSUME Proper, NEW n \in Node, NEW f \in Node, Refuse(n, f)
    PROVE  Delivery'
<1> USE ProperParts
<1>1. UNCHANGED <<obj, desired, requested, acked, heard, hnd, calls>>
  BY DEF Refuse, tables
<1>2. BatchFit' /\ Awaited'
  BY <1>1, FinishAt DEF Refuse
<1> QED
  BY <1>1, <1>2, Rests DEF Delivery

\* A handler that is abandoned goes on where it was.
LEMMA AbandonedPlaced ==
    ASSUME Proper, NEW n \in Node, NEW f \in Node, NEW s \in Slot
    PROVE  \E h \in Handler : h = Abandoned(n, f)[s] /\ Placed(n, f, h)
<1> USE ProperParts
<1>1. Abandoned(n, f)[s] \in {Idle, hnd[f][n]["live"], hnd[f][n][s]}
  BY DEF Abandoned
<1>2. {hnd[f][n]["live"], hnd[f][n][s]} \subseteq Handler /\ Idle \in Handler
  BY DEF TypeOK, Slot, Handler, Idle, At
<1>3. Placed(n, f, hnd[f][n]["live"]) /\ Placed(n, f, hnd[f][n][s]) /\ Placed(n, f, Idle)
  BY EmptyFit DEF HandlersPlaced, Slot
<1> QED
  BY <1>1, <1>2, <1>3

\* A failed call moves no cursor, and its handler stays where it was.
LEMMA FailDelivers ==
    ASSUME Proper, NEW n \in Node, NEW f \in Node, Fail(n, f)
    PROVE  Delivery'
<1> USE ProperParts
<1>1. UNCHANGED <<obj, desired, requested, acked, heard, calls>>
  BY DEF Fail, tables
<1>2. hnd' = [hnd EXCEPT ![f][n] = Abandoned(n, f)]
  BY DEF Fail
<1>3. hnd \in [Node -> [Node -> [Slot -> Handler]]] /\ "live" \in Slot
  BY DEF TypeOK, Slot
<1>4. HandlersPlaced'
  <2> SUFFICES ASSUME NEW m \in Node, NEW g \in Node, NEW z \in Slot
               PROVE  Placed(m, g, hnd[g][m][z])'
    BY DEF HandlersPlaced
  <2>1. PICK h \in Handler : h = hnd'[g][m][z] /\ Placed(m, g, h)
    <3>1. CASE m = n /\ g = f
      BY <1>2, <1>3, <3>1, AbandonedPlaced
    <3>2. CASE ~(m = n /\ g = f)
      BY <1>2, <1>3, <3>2 DEF HandlersPlaced
    <3> QED
      BY <3>1, <3>2
  <2>2. Placed(m, g, h)'
    BY <2>1, PlacedStays
  <2> QED
    BY <2>1, <2>2
<1>5. /\ hnd'[f][n]["live"].pc = "idle"
      /\ \A m, g \in Node : ~(m = n /\ g = f) => hnd'[g][m]["live"] = hnd[g][m]["live"]
  BY <1>2, <1>3 DEF Abandoned, Idle, At
<1>6. BatchFit' /\ Awaited'
  BY <1>5, FinishAt DEF Fail
<1> QED
  BY <1>1, <1>4, <1>6, Rests DEF Delivery

\* A handler starts with the whole batch of its call.
LEMMA ReceiveDelivers ==
    ASSUME Proper, NEW n \in Node, NEW f \in Node, Receive(f, n)
    PROVE  Delivery'
<1> USE ProperParts
<1>1. UNCHANGED <<obj, desired, requested, acked, heard, looper, batch, calls>>
  BY DEF Receive, tables
<1>2. PICK B \in SUBSET Row : B = batch[n][f]
  BY DEF TypeOK
<1>3. hnd' = [hnd EXCEPT ![f][n]["live"] = At("check", B)]
  BY <1>2 DEF Receive
<1>4. hnd \in [Node -> [Node -> [Slot -> Handler]]] /\ "live" \in Slot
  BY DEF TypeOK, Slot
<1>5. Placed(n, f, At("check", B))'
  <2>1. Fit(n, f, B)'
    BY <1>2, FitStays DEF BatchFit
  <2> QED
    BY <2>1 DEF Placed, At, Running
<1>6. HandlersPlaced'
  BY <1>3, <1>4, <1>5, HandlerAt
<1>7. Awaited'
  <2>1. Waits(n, f)'
    <3>1. hnd'[f][n]["live"].todo = batch'[n][f] /\ looper'[n][f] = "sent"
      BY <1>1, <1>2, <1>3, <1>4 DEF Receive, At
    <3> QED
      BY <3>1 DEF Waits, Passed
  <2>2. \A m, g \in Node : ~(m = n /\ g = f) => hnd'[g][m]["live"] = hnd[g][m]["live"]
    BY <1>3, <1>4
  <2> QED
    BY <1>1, <2>1, <2>2, OthersWait
<1> QED
  BY <1>1, <1>6, <1>7, Rests DEF Delivery

-----------------------------------------------------------------------------
(* The handler.                                                            *)

\* What a handler is at.
LEMMA AtFirst ==
    ASSUME Proper, NEW n \in Node, NEW f \in Node, NEW s \in Slot,
           NEW r \in First(hnd[f][n][s].todo)
    PROVE  /\ hnd[f][n][s] \in Handler /\ hnd[f][n][s].todo \in SUBSET Row
           /\ r \in hnd[f][n][s].todo /\ r \in Row /\ r.topic \in AllTopic
           /\ r.seq \in Nat /\ r.priority \in Nat
           /\ \A q \in hnd[f][n][s].todo : r.seq <= q.seq /\ q.seq \in Nat
           /\ Own(n, r) /\ Wanted(n, f, r.topic) /\ Tells(n, f, r)
           /\ r.type = "sub" => r.topic = Box(n, f)
           /\ Kept(f, n, r.topic) =>
                \A q \in obj[n] : q.topic = r.topic /\ q.seq < r.seq => Got(n, f, q)
<1> USE ProperParts
<1>1. hnd[f][n][s] \in Handler
  BY DEF TypeOK
<1>2. hnd[f][n][s].todo \in SUBSET Row
  BY <1>1 DEF Handler
<1>3. r \in hnd[f][n][s].todo /\ \A q \in hnd[f][n][s].todo : r.seq <= q.seq
  BY DEF First
<1>4. /\ r \in Row /\ r.topic \in AllTopic /\ r.seq \in Nat /\ r.priority \in Nat
      /\ \A q \in hnd[f][n][s].todo : q.seq \in Nat
  BY <1>2, <1>3 DEF Row
<1>5. Fit(n, f, hnd[f][n][s].todo)
  BY DEF HandlersPlaced, Placed
<1>6. /\ Own(n, r) /\ Wanted(n, f, r.topic) /\ Tells(n, f, r)
      /\ r.type = "sub" => r.topic = Box(n, f)
  BY <1>3, <1>5 DEF Fit
<1>7. ASSUME Kept(f, n, r.topic), NEW q \in obj[n], q.topic = r.topic, q.seq < r.seq
      PROVE  Got(n, f, q)
  <2>1. q \in hnd[f][n][s].todo \/ Got(n, f, q)
    BY <1>3, <1>5, <1>7 DEF Fit
  <2>2. q \notin hnd[f][n][s].todo
    BY <1>3, <1>4, <1>7
  <2> QED
    BY <2>1, <2>2
<1> QED
  BY <1>1, <1>2, <1>3, <1>4, <1>6, <1>7

\* A handler moves on within its row.
LEMMA SamePlace ==
    ASSUME Proper, NEW n \in Node, NEW f \in Node, NEW s \in Slot, NEW pc,
           Running(hnd[f][n][s]), pc \in {"sink", "mark"},
           hnd' = [hnd EXCEPT ![f][n][s] = At(pc, hnd[f][n][s].todo)],
           pc = "mark" => \A r \in First(hnd[f][n][s].todo) : Got(n, f, r)',
           UNCHANGED batch,
           \A m, g \in Node : looper[m][g] = "sent" => looper'[m][g] = "sent"
    PROVE  HandlersPlaced' /\ Awaited'
<1> USE ProperParts
<1>1. hnd \in [Node -> [Node -> [Slot -> Handler]]] /\ "live" \in Slot
  BY DEF TypeOK, Slot
<1>2. PICK T \in SUBSET Row : T = hnd[f][n][s].todo
  BY <1>1 DEF Handler
<1>3. Fit(n, f, T)'
  BY <1>2, FitStays DEF HandlersPlaced, Placed
<1>4. Placed(n, f, At(pc, T))'
  BY <1>2, <1>3 DEF Placed, At, Running
<1>5. HandlersPlaced'
  BY <1>2, <1>4, HandlerAt
<1>6. Awaited'
  <2> SUFFICES ASSUME NEW m \in Node, NEW g \in Node
               PROVE  Waits(m, g)'
    BY DEF Awaited
  <2>1. CASE m = n /\ g = f /\ s = "live"
    <3>1. looper[n][f] = "sent" /\ Passed(n, f, batch[n][f], T)
      BY <1>2, <2>1 DEF Awaited, Waits, Running
    <3>2. hnd'[f][n]["live"].todo = T
      BY <1>1, <1>2, <2>1 DEF At
    <3>3. Passed(n, f, batch[n][f], T)'
      BY <3>1, PassedStays
    <3> QED
      BY <2>1, <3>1, <3>2, <3>3 DEF Waits
  <2>2. CASE ~(m = n /\ g = f /\ s = "live")
    <3>1. hnd'[g][m]["live"] = hnd[g][m]["live"]
      BY <1>1, <2>2
    <3> QED
      BY <3>1, WaitsStays DEF Awaited
  <2> QED
    BY <2>1, <2>2
<1> QED
  BY <1>5, <1>6

\* A handler is done with its row, which was handed over or need not be.
LEMMA NextPlace ==
    ASSUME Proper, NEW n \in Node, NEW f \in Node, NEW s \in Slot, Running(hnd[f][n][s]),
           NEW r \in First(hnd[f][n][s].todo), Advance(f, n, s, r),
           r \in obj[n] /\ Kept(f, n, r.topic) => Got(n, f, r),
           UNCHANGED <<batch, looper>>
    PROVE  HandlersPlaced' /\ Awaited'
<1> USE ProperParts
<1>1. hnd \in [Node -> [Node -> [Slot -> Handler]]] /\ "live" \in Slot
  BY DEF TypeOK, Slot
<1>2. PICK T \in SUBSET Row : T = hnd[f][n][s].todo \ {r}
  BY AtFirst
<1>3. Fit(n, f, T)
  <2>1. Fit(n, f, hnd[f][n][s].todo)
    BY DEF HandlersPlaced, Placed
  <2> SUFFICES ASSUME NEW x \in T
               PROVE  /\ Own(n, x) /\ Wanted(n, f, x.topic) /\ Tells(n, f, x)
                      /\ x.type = "sub" => x.topic = Box(n, f)
                      /\ Kept(f, n, x.topic) =>
                           \A q \in obj[n] : q.topic = x.topic /\ q.seq < x.seq =>
                             q \in T \/ Got(n, f, q)
    BY DEF Fit
  <2>2. x \in hnd[f][n][s].todo
    BY <1>2
  <2>3. ASSUME Kept(f, n, x.topic), NEW q \in obj[n], q.topic = x.topic, q.seq < x.seq
        PROVE  q \in T \/ Got(n, f, q)
    <3>1. q \in hnd[f][n][s].todo \/ Got(n, f, q)
      BY <2>1, <2>2, <2>3 DEF Fit
    <3> QED
      BY <1>2, <2>3, <3>1
  <2> QED
    BY <2>1, <2>2, <2>3 DEF Fit
<1>4. Fit(n, f, T)'
  BY <1>3, FitStays
<1> DEFINE h == IF T # {} THEN At("check", T) ELSE IF s = "live" THEN At("done", {}) ELSE Idle
<1>5. hnd' = [hnd EXCEPT ![f][n][s] = h]
  BY <1>2 DEF Advance
<1>6. Placed(n, f, h)' /\ h.todo = T
  BY <1>4, EmptyFit DEF Placed, At, Idle, Running
<1> HIDE DEF h
<1>7. HandlersPlaced'
  BY <1>5, <1>6, HandlerAt
<1>8. Awaited'
  <2> SUFFICES ASSUME NEW m \in Node, NEW g \in Node
               PROVE  Waits(m, g)'
    BY DEF Awaited
  <2>1. CASE m = n /\ g = f /\ s = "live"
    <3>1. looper[n][f] = "sent" /\ Passed(n, f, batch[n][f], hnd[f][n]["live"].todo)
      BY <2>1 DEF Awaited, Waits, Running
    <3>2. Passed(n, f, batch[n][f], T)
      BY <1>2, <2>1, <3>1 DEF Passed
    <3>3. hnd'[f][n]["live"].todo = T
      BY <1>1, <1>5, <1>6, <2>1
    <3>4. Passed(n, f, batch[n][f], T)'
      BY <3>2, PassedStays
    <3> QED
      BY <2>1, <3>1, <3>3, <3>4 DEF Waits
  <2>2. CASE ~(m = n /\ g = f /\ s = "live")
    <3>1. hnd'[g][m]["live"] = hnd[g][m]["live"]
      BY <1>1, <1>5, <2>2
    <3> QED
      BY <3>1, WaitsStays DEF Awaited
  <2> QED
    BY <2>1, <2>2
<1> QED
  BY <1>7, <1>8

\* A record that is refused was heard before, or is not wanted any more.
LEMMA CheckDelivers ==
    ASSUME Proper, NEW f \in Node, NEW n \in Node, NEW s \in Slot, Check(f, n, s)
    PROVE  Delivery'
<1> USE ProperParts
<1>1. UNCHANGED <<obj, desired, requested, acked, heard, looper, batch, calls>>
  BY DEF Check, tables
<1>2. Running(hnd[f][n][s])
  BY DEF Check, Running
<1>3. PICK r \in First(hnd[f][n][s].todo) :
        IF desired[f][n][r.topic] /\ heard[f][n][r.topic] < r.seq
        THEN hnd' = [hnd EXCEPT ![f][n][s] = At("sink", hnd[f][n][s].todo)]
        ELSE Advance(f, n, s, r)
  BY DEF Check
<1>4. CASE desired[f][n][r.topic] /\ heard[f][n][r.topic] < r.seq
  <2>1. HandlersPlaced' /\ Awaited'
    BY <1>1, <1>2, <1>3, <1>4, SamePlace
  <2> QED
    BY <1>1, <2>1, Rests DEF Delivery
<1>5. CASE ~(desired[f][n][r.topic] /\ heard[f][n][r.topic] < r.seq)
  <2>1. ASSUME r \in obj[n], Kept(f, n, r.topic)
        PROVE  Got(n, f, r)
    <3>1. /\ r.topic \in AllTopic /\ r.seq \in Nat /\ Wanted(n, f, r.topic)
      BY AtFirst
    <3>2. heard[f][n][r.topic] \in Nat /\ Given(n, f, r.topic, heard[f][n][r.topic])
      BY <3>1 DEF TypeOK, HeardGiven
    <3>3. r.seq <= heard[f][n][r.topic]
      BY <1>5, <2>1, <3>1, <3>2 DEF Wanted
    <3> QED
      BY <2>1, <3>2, <3>3 DEF Given
  <2>2. HandlersPlaced' /\ Awaited'
    BY <1>1, <1>2, <1>3, <1>5, <2>1, NextPlace
  <2> QED
    BY <1>1, <2>2, Rests DEF Delivery
<1> QED
  BY <1>4, <1>5

\* The sink of a subscription believes what it says, which is so.
LEMMA SubscribeDelivers ==
    ASSUME Proper, NEW f \in Node, NEW n \in Node, NEW s \in Slot,
           NEW r \in First(hnd[f][n][s].todo), r.type = "sub", OnSubscribe(f, n, r)
    PROVE  /\ RequestsWanted' /\ AckedGiven'
           /\ \A m, g \in Node : looper[m][g] = "sent" => looper'[m][g] = "sent"
<1> USE ProperParts
<1>1. /\ r.priority \in Nat /\ r.key \in Topic /\ r.key \in AllTopic
      /\ Wanted(f, n, r.key) /\ Given(f, n, r.key, r.priority)
  BY AtFirst, UserTopics DEF Tells
<1>2. RequestsWanted'
  <2> SUFFICES ASSUME NEW m \in Node, NEW g \in Node, NEW t \in AllTopic, requested'[m][g][t]
               PROVE  Wanted(m, g, t)'
    BY DEF RequestsWanted
  <2>1. requested' = [requested EXCEPT ![f][n][r.key] = r.value]
    BY DEF OnSubscribe
  <2>2. requested \in [Node -> [Node -> [AllTopic -> BOOLEAN]]]
    BY DEF TypeOK
  <2>3. (m = f /\ g = n /\ t = r.key) \/ requested[m][g][t]
    BY <2>1, <2>2
  <2>4. Wanted(m, g, t)
    BY <1>1, <2>3 DEF RequestsWanted
  <2> QED
    BY <2>4, WantedStays
<1>3. AckedGiven'
  <2> SUFFICES ASSUME NEW m \in Node, NEW g \in Node, NEW t \in AllTopic
               PROVE  Given(m, g, t, acked[m][g][t])'
    BY DEF AckedGiven
  <2>1. acked' = [acked EXCEPT ![f][n][r.key] = r.priority]
    BY DEF OnSubscribe
  <2>2. acked \in [Node -> [Node -> [AllTopic -> Nat]]]
    BY DEF TypeOK
  <2>3. PICK p \in Nat : p = acked'[m][g][t] /\ Given(m, g, t, p)
    <3>1. CASE m = f /\ g = n /\ t = r.key
      BY <1>1, <2>1, <2>2, <3>1
    <3>2. CASE ~(m = f /\ g = n /\ t = r.key)
      <4>1. acked'[m][g][t] = acked[m][g][t] /\ acked[m][g][t] \in Nat
        BY <2>1, <2>2, <3>2
      <4> QED
        BY <4>1 DEF AckedGiven
    <3> QED
      BY <3>1, <3>2
  <2>4. Given(m, g, t, p)'
    BY <2>3, GivenStays
  <2> QED
    BY <2>3, <2>4
<1>4. \A m, g \in Node : looper[m][g] = "sent" => looper'[m][g] = "sent"
  <2>1. looper' = [looper EXCEPT ![f][n] = Wake(looper[f][n])]
    BY DEF OnSubscribe
  <2>2. looper \in [Node -> [Node -> {"none", "run", "sleep", "sent"}]]
    BY DEF TypeOK
  <2> QED
    BY <2>1, <2>2 DEF Wake
<1> QED
  BY <1>2, <1>3, <1>4

\* A record that is handed over is given.
LEMMA SinkDelivers ==
    ASSUME Proper, NEW f \in Node, NEW n \in Node, NEW s \in Slot, Sink(f, n, s)
    PROVE  Delivery'
<1> USE ProperParts
<1>1. UNCHANGED <<obj, desired, heard, batch, calls>>
  BY DEF Sink
<1>2. Running(hnd[f][n][s])
  BY DEF Sink, Running
<1>3. PICK r \in First(hnd[f][n][s].todo) :
        /\ IF r.type = "sub" THEN OnSubscribe(f, n, r)
                             ELSE UNCHANGED <<requested, acked, looper>>
        /\ handed' = [handed EXCEPT ![f] = handed[f] \cup
                        {[from |-> n, name |-> Name(r), seq |-> r.seq]}]
  BY DEF Sink
<1>4. hnd' = [hnd EXCEPT ![f][n][s] = At("mark", hnd[f][n][s].todo)]
  BY DEF Sink
<1>5. /\ RequestsWanted' /\ AckedGiven'
      /\ \A m, g \in Node : looper[m][g] = "sent" => looper'[m][g] = "sent"
  <2>1. CASE r.type = "sub"
    BY <1>3, <2>1, SubscribeDelivers
  <2>2. CASE r.type # "sub"
    BY <1>3, <2>2, Rests
  <2> QED
    BY <2>1, <2>2
<1>6. ASSUME NEW x \in First(hnd[f][n][s].todo)
      PROVE  Got(n, f, x)'
  <2>1. x.seq = r.seq
    <3>1. r.seq \in Nat /\ x.seq \in Nat /\ r.seq <= x.seq /\ x.seq <= r.seq
      BY AtFirst
    <3> QED
      BY <3>1
  <2>2. Name(x) = Name(r)
    <3>1. Own(n, x) /\ Own(n, r)
      BY AtFirst
    <3> QED
      BY <2>1, <3>1 DEF Own
  <2>3. [from |-> n, name |-> Name(r), seq |-> r.seq] \in handed'[f]
    BY <1>3 DEF TypeOK
  <2> QED
    BY <2>1, <2>2, <2>3 DEF Got, Name
<1>7. HandlersPlaced' /\ Awaited'
  BY <1>1, <1>2, <1>4, <1>5, <1>6, SamePlace
<1> QED
  BY <1>1, <1>5, <1>7, Rests DEF Delivery

\* Marking moves heard over what was handed over.
LEMMA MarkDelivers ==
    ASSUME Proper, NEW f \in Node, NEW n \in Node, NEW s \in Slot, Mark(f, n, s)
    PROVE  Delivery'
<1> USE ProperParts
<1>1. UNCHANGED <<obj, desired, requested, acked, looper, batch, calls>>
  BY DEF Mark
<1>2. Running(hnd[f][n][s]) /\ hnd[f][n][s].pc = "mark"
  BY DEF Mark, Running
<1>3. PICK r \in First(hnd[f][n][s].todo) :
        /\ heard' = [heard EXCEPT ![f][n][r.topic] = r.seq]
        /\ Advance(f, n, s, r)
  BY DEF Mark
<1>4. Got(n, f, r)
  BY <1>2 DEF HandlersPlaced, Placed
<1>5. r.seq \in Nat /\ Given(n, f, r.topic, r.seq)
  <2>1. r.seq \in Nat /\ Own(n, r)
    BY AtFirst
  <2>2. ASSUME Kept(f, n, r.topic), NEW q \in obj[n], q.topic = r.topic, q.seq <= r.seq
        PROVE  Got(n, f, q)
    <3>1. q.seq \in Nat
      BY DEF TypeOK, Row
    <3>2. CASE q.seq = r.seq
      BY <1>4, <2>1, <3>2 DEF Own
    <3>3. CASE q.seq < r.seq
      BY <2>2, <3>3, AtFirst
    <3> QED
      BY <2>1, <2>2, <3>1, <3>2, <3>3
  <2>3. r.seq <= Len(log[n])
    BY <2>1 DEF Own, Forward
  <2> QED
    BY <2>1, <2>2, <2>3 DEF Given
<1>6. HeardGiven'
  <2> SUFFICES ASSUME NEW m \in Node, NEW g \in Node, NEW t \in AllTopic
               PROVE  Given(m, g, t, heard[g][m][t])'
    BY DEF HeardGiven
  <2>1. heard \in [Node -> [Node -> [AllTopic -> Nat]]]
    BY DEF TypeOK
  <2>2. PICK p \in Nat : p = heard'[g][m][t] /\ Given(m, g, t, p)
    <3>1. CASE m = n /\ g = f /\ t = r.topic
      BY <1>3, <1>5, <2>1, <3>1
    <3>2. CASE ~(m = n /\ g = f /\ t = r.topic)
      <4>1. heard'[g][m][t] = heard[g][m][t] /\ heard[g][m][t] \in Nat
        BY <1>3, <2>1, <3>2
      <4> QED
        BY <4>1 DEF HeardGiven
    <3> QED
      BY <3>1, <3>2
  <2>3. Given(m, g, t, p)'
    BY <2>2, GivenStays
  <2> QED
    BY <2>2, <2>3
<1>7. HandlersPlaced' /\ Awaited'
  BY <1>1, <1>2, <1>3, <1>4, NextPlace
<1> QED
  BY <1>1, <1>6, <1>7, Rests DEF Delivery

-----------------------------------------------------------------------------
(* Friends come and go, and nodes crash.                                   *)

\* The topics that a new friendship requests are those the friend wants.
LEMMA AddFriendDelivers ==
    ASSUME Proper, NEW n \in Node, NEW f \in Node, AddFriend(n, f)
    PROVE  Delivery'
<1> USE ProperParts
<1>1. UNCHANGED <<obj, acked, heard, batch, hnd, calls>>
  BY DEF AddFriend
<1>2. RequestsWanted'
  <2> SUFFICES ASSUME NEW m \in Node, NEW g \in Node, NEW t \in AllTopic, requested'[m][g][t]
               PROVE  Wanted(m, g, t)'
    BY DEF RequestsWanted
  <2>1. requested' = [requested EXCEPT ![n][f] =
                        [u \in AllTopic |-> requested[n][f][u] \/ u \in Exchanged(n, f)]]
    BY DEF AddFriend
  <2>2. requested \in [Node -> [Node -> [AllTopic -> BOOLEAN]]]
    BY DEF TypeOK
  <2>3. requested[m][g][t] \/ (m = n /\ g = f /\ t \in Exchanged(n, f))
    BY <2>1, <2>2
  <2>4. Wanted(m, g, t)
    BY <2>3 DEF AddFriend, RequestsWanted, DerivedWanted
  <2> QED
    BY <2>4, WantedStays
<1>3. \A m, g \in Node : looper[m][g] = "sent" => looper'[m][g] = "sent"
  <2>1. looper' = [looper EXCEPT ![n][f] = "run"] /\ looper[n][f] = "none"
    BY DEF AddFriend
  <2>2. looper \in [Node -> [Node -> {"none", "run", "sleep", "sent"}]]
    BY DEF TypeOK
  <2> QED
    BY <2>1, <2>2
<1> QED
  BY <1>1, <1>2, <1>3, Rests DEF Delivery

\* A removal that waits has changed no table.
LEMMA RemoveBeginDelivers ==
    ASSUME Proper, NEW n \in Node, NEW f \in Node, RemoveBegin(n, f)
    PROVE  Delivery'
<1>1. UNCHANGED <<obj, desired, requested, acked, heard, looper, batch, hnd, calls>>
  BY DEF RemoveBegin, tables
<1> QED
  BY <1>1, ProperParts, Rests DEF Delivery

\* The cursors that a removal clears speak of nothing.
LEMMA RemoveEndDelivers ==
    ASSUME Proper, NEW n \in Node, NEW f \in Node, RemoveEnd(n, f)
    PROVE  Delivery'
<1> USE ProperParts
<1>1. UNCHANGED <<obj, batch, hnd, calls>>
  BY DEF RemoveEnd
<1>2. ASSUME NEW m \in Node, NEW g \in Node, NEW t PROVE Given(m, g, t, 0)
  <2>1. \A q \in obj[m] : q.seq \in Nat /\ q.seq >= 1
    BY DEF RowsRight, Own, Forward
  <2>2. Len(log[m]) \in Nat
    BY DEF Forward
  <2> QED
    BY <2>1, <2>2 DEF Given
<1>3. AckedGiven'
  <2> SUFFICES ASSUME NEW m \in Node, NEW g \in Node, NEW t \in AllTopic
               PROVE  Given(m, g, t, acked[m][g][t])'
    BY DEF AckedGiven
  <2>1. acked \in [Node -> [Node -> [AllTopic -> Nat]]]
    BY DEF TypeOK
  <2>2. acked' = [acked EXCEPT ![n][f] = [u \in AllTopic |-> 0]]
    BY DEF RemoveEnd
  <2>3. PICK p \in Nat : p = acked'[m][g][t] /\ Given(m, g, t, p)
    <3>1. CASE m = n /\ g = f
      BY <1>2, <2>1, <2>2, <3>1
    <3>2. CASE ~(m = n /\ g = f)
      BY <2>1, <2>2, <3>2 DEF AckedGiven
    <3> QED
      BY <3>1, <3>2
  <2>4. Given(m, g, t, p)'
    BY <2>3, GivenStays
  <2> QED
    BY <2>3, <2>4
<1>4. HeardGiven'
  <2> SUFFICES ASSUME NEW m \in Node, NEW g \in Node, NEW t \in AllTopic
               PROVE  Given(m, g, t, heard[g][m][t])'
    BY DEF HeardGiven
  <2>1. heard \in [Node -> [Node -> [AllTopic -> Nat]]]
    BY DEF TypeOK
  <2>2. heard' = [heard EXCEPT ![n][f] = [u \in AllTopic |-> 0]]
    BY DEF RemoveEnd
  <2>3. PICK p \in Nat : p = heard'[g][m][t] /\ Given(m, g, t, p)
    <3>1. CASE g = n /\ m = f
      BY <1>2, <2>1, <2>2, <3>1
    <3>2. CASE ~(g = n /\ m = f)
      BY <2>1, <2>2, <3>2 DEF HeardGiven
    <3> QED
      BY <3>1, <3>2
  <2>4. Given(m, g, t, p)'
    BY <2>3, GivenStays
  <2> QED
    BY <2>3, <2>4
<1>5. RequestsWanted'
  <2> SUFFICES ASSUME NEW m \in Node, NEW g \in Node, NEW t \in AllTopic, requested'[m][g][t]
               PROVE  Wanted(m, g, t)'
    BY DEF RequestsWanted
  <2>1. requested' = [requested EXCEPT ![n][f] = [u \in AllTopic |-> FALSE]]
    BY DEF RemoveEnd
  <2>2. requested \in [Node -> [Node -> [AllTopic -> BOOLEAN]]]
    BY DEF TypeOK
  <2>3. requested[m][g][t]
    BY <2>1, <2>2
  <2> QED
    BY <2>3, WantedStays DEF RequestsWanted
<1>6. \A m, g \in Node : looper[m][g] = "sent" => looper'[m][g] = "sent"
  <2>1. looper' = [looper EXCEPT ![n][f] = "none"] /\ looper[n][f] # "sent"
    BY DEF RemoveEnd
  <2>2. looper \in [Node -> [Node -> {"none", "run", "sleep", "sent"}]]
    BY DEF TypeOK
  <2> QED
    BY <2>1, <2>2
<1> QED
  BY <1>1, <1>3, <1>4, <1>5, <1>6, Rests DEF Delivery

\* A crash breaks calls whole: no answer of theirs is awaited any more.
LEMMA RestartDelivers ==
    ASSUME Proper, NEW n \in Node, Restart(n)
    PROVE  Delivery'
<1> USE ProperParts
<1>1. UNCHANGED <<obj, desired, requested, acked, heard>> /\ calls' \subseteq calls
  BY DEF Restart, tables
<1>2. hnd' = [g \in Node |-> [m \in Node |->
                 IF g = n THEN [s \in Slot |-> Idle]
                 ELSE IF m = n THEN Abandoned(n, g) ELSE hnd[g][m]]]
  BY DEF Restart
<1>3. "live" \in Slot /\ Idle.pc = "idle" /\ \A g \in Node : Abandoned(n, g)["live"] = Idle
  BY DEF Slot, Abandoned, Idle, At
<1>4. BatchFit'
  <2> SUFFICES ASSUME NEW m \in Node, NEW g \in Node
               PROVE  Fit(m, g, batch[m][g])'
    BY DEF BatchFit
  <2>1. batch'[m][g] = {} \/ batch'[m][g] = batch[m][g]
    BY DEF Restart
  <2>2. PICK B \in SUBSET Row : B = batch'[m][g] /\ Fit(m, g, B)
    <3>1. batch[m][g] \in SUBSET Row
      BY DEF TypeOK
    <3> QED
      BY <2>1, <3>1, EmptyFit DEF BatchFit
  <2>3. Fit(m, g, B)'
    BY <2>2, FitStays
  <2> QED
    BY <2>2, <2>3
<1>5. HandlersPlaced'
  <2> SUFFICES ASSUME NEW m \in Node, NEW g \in Node, NEW z \in Slot
               PROVE  Placed(m, g, hnd[g][m][z])'
    BY DEF HandlersPlaced
  <2>1. PICK h \in Handler : h = hnd'[g][m][z] /\ Placed(m, g, h)
    <3>1. CASE g = n
      <4>1. hnd'[g][m][z] = Idle /\ Idle \in Handler
        BY <1>2, <3>1 DEF Handler, Idle, At
      <4> QED
        BY <4>1, EmptyFit
    <3>2. CASE g # n /\ m = n
      <4>1. hnd'[g][m][z] = Abandoned(n, g)[z]
        BY <1>2, <3>2
      <4> QED
        BY <3>2, <4>1, AbandonedPlaced
    <3>3. CASE g # n /\ m # n
      <4>1. hnd'[g][m][z] = hnd[g][m][z] /\ hnd[g][m][z] \in Handler
        BY <1>2, <3>3 DEF TypeOK
      <4> QED
        BY <4>1 DEF HandlersPlaced
    <3> QED
      BY <3>1, <3>2, <3>3
  <2>2. Placed(m, g, h)'
    BY <2>1, PlacedStays
  <2> QED
    BY <2>1, <2>2
<1>6. Awaited'
  <2> SUFFICES ASSUME NEW m \in Node, NEW g \in Node
               PROVE  Waits(m, g)'
    BY DEF Awaited
  <2>1. CASE g = n \/ m = n
    <3>1. hnd'[g][m]["live"] = Idle
      BY <1>2, <1>3, <2>1
    <3> QED
      BY <1>3, <3>1 DEF Waits
  <2>2. CASE g # n /\ m # n
    <3>1. hnd'[g][m]["live"] = hnd[g][m]["live"]
      BY <1>2, <2>2
    <3>2. batch'[m][g] = batch[m][g] /\ looper'[m][g] = looper[m][g]
      BY <2>2 DEF Restart, Broken
    <3> QED
      BY <3>1, <3>2, WaitsStays DEF Awaited
  <2> QED
    BY <2>1, <2>2
<1> QED
  BY <1>1, <1>4, <1>5, <1>6, Rests DEF Delivery

\* Nothing happens.
LEMMA StutterDelivers ==
    ASSUME Proper, UNCHANGED vars
    PROVE  Delivery'
<1>1. UNCHANGED <<obj, desired, requested, acked, heard, looper, batch, hnd, calls>>
  BY DEF vars, tables
<1> QED
  BY <1>1, ProperParts, Rests DEF Delivery

-----------------------------------------------------------------------------
(* The invariant holds, and with it nothing is skipped.                    *)

\* At first nothing was put, and friends request what each other wants.
LEMMA InitDelivery == Init => Delivery
<1> SUFFICES ASSUME Init PROVE Delivery
  OBVIOUS
<1>1. RowsRight
  BY FS_EmptySet DEF Init, RowsRight
<1>2. \A n, f \in Node, t \in AllTopic : Given(n, f, t, 0)
  BY DEF Init, Given
<1>3. \A n, f \in Node, t \in AllTopic : acked[n][f][t] = 0 /\ heard[f][n][t] = 0
  BY DEF Init
<1>4. AckedGiven
  BY <1>2, <1>3 DEF AckedGiven
<1>5. HeardGiven
  BY <1>2, <1>3 DEF HeardGiven
<1>6. CallsTell
  BY DEF Init, CallsTell
<1>7. ASSUME NEW n \in Node, NEW f \in Node, NEW t \in AllTopic
      PROVE  /\ desired[f][n][t] = (n # f /\ t \in Exchanged(n, f))
             /\ requested[n][f][t] = desired[f][n][t]
  <2>1. \A u : u \in Exchanged(n, f) <=> u \in Exchanged(f, n)
    BY DEF Exchanged
  <2>2. desired[f][n][t] = (f # n /\ t \in Exchanged(f, n))
    BY DEF Init
  <2>3. requested[n][f][t] = (n # f /\ t \in Exchanged(n, f))
    BY DEF Init
  <2> QED
    BY <2>1, <2>2, <2>3
<1>8. RequestsWanted
  BY <1>7 DEF RequestsWanted, Wanted
<1>9. DerivedWanted
  <2> SUFFICES ASSUME NEW n \in Node, NEW f \in Node, n # f, NEW t \in Exchanged(n, f)
               PROVE  Wanted(n, f, t)
    BY DEF DerivedWanted
  <2>1. t \in AllTopic
    BY DerivedTopics DEF Exchanged
  <2> QED
    BY <1>7, <2>1 DEF Wanted
<1>10. BatchFit
  BY EmptyFit DEF Init, BatchFit
<1>11. HandlersPlaced
  BY EmptyFit DEF Init, HandlersPlaced
<1>12. Awaited
  BY DEF Init, Awaited, Waits, Idle, At, Slot
<1> QED
  BY <1>1, <1>4, <1>5, <1>6, <1>8, <1>9, <1>10, <1>11, <1>12 DEF Delivery

\* Every step keeps the invariant, given the numbering and the cursors' bounds.
LEMMA StepDelivery ==
    TypeOK /\ TableIsLatest /\ Behind /\ Delivery /\ [Next]_vars => Delivery'
<1> SUFFICES ASSUME TypeOK, TableIsLatest, Behind, Delivery, [Next]_vars
             PROVE  Delivery'
  OBVIOUS
<1> Proper
  BY StepTypes, StepForward DEF Proper
<1>1. ASSUME NEW n \in Node, NEW t \in Writable[n], NEW k \in Key, Put(n, t, k)
      PROVE  Delivery'
  BY <1>1, PutDelivers
<1>2. ASSUME NEW n \in Node, NEW f \in Node, NEW c \in Caller, NEW t \in Topic,
             NEW e \in Enables, SubLookup(n, c, f, t, e)
      PROVE  Delivery'
  BY <1>2, SubLookupDelivers
<1>3. ASSUME NEW c \in calls, SubRow(c) \/ SubPut(c)
      PROVE  Delivery'
  BY <1>3, SubRowDelivers, SubPutDelivers
<1>4. ASSUME NEW n \in Node, NEW f \in Node, Looper(n, f) \/ Fail(n, f) \/ Receive(f, n)
      PROVE  Delivery'
  BY <1>4, ScanDelivers, ReplyDelivers, RefuseDelivers, FailDelivers, ReceiveDelivers
  DEF Looper
<1>5. ASSUME NEW n \in Node, NEW f \in Node, NEW s \in Slot, Handle(f, n, s)
      PROVE  Delivery'
  BY <1>5, CheckDelivers, SinkDelivers, MarkDelivers DEF Handle
<1>6. ASSUME NEW n \in Node, NEW f \in Node,
             AddFriend(n, f) \/ RemoveBegin(n, f) \/ RemoveEnd(n, f)
      PROVE  Delivery'
  BY <1>6, AddFriendDelivers, RemoveBeginDelivers, RemoveEndDelivers
<1>7. ASSUME NEW n \in Node, Restart(n)
      PROVE  Delivery'
  BY <1>7, RestartDelivers
<1>8. CASE UNCHANGED vars
  BY <1>8, StutterDelivers
<1> QED
  BY <1>1, <1>2, <1>3, <1>4, <1>5, <1>6, <1>7, <1>8 DEF Next

\* All of it is invariant.
LEMMA AllDelivers == Spec => [](TypeOK /\ TableIsLatest /\ Behind /\ Delivery)
<1> DEFINE IInv == TypeOK /\ TableIsLatest /\ Behind /\ Delivery
<1>1. Init => IInv
  BY InitTypes, InitBehind, InitDelivery
<1>2. IInv /\ [Next]_vars => IInv'
  BY StepTypes, StepBehind, StepDelivery
<1> HIDE DEF IInv
<1>3. Spec => []IInv
  BY <1>1, <1>2, PTL DEF Spec
<1>4. IInv => TypeOK /\ TableIsLatest /\ Behind /\ Delivery
  BY DEF IInv
<1> QED
  BY <1>3, <1>4, PTL

\* What notifyLoop will not send again has reached the friend's sinks, whatever was
\* lost, sent twice, cut by LIMIT, abandoned or crashed on the way: a record at or
\* below acked_seqno was handed over, unless the friend has given up the topic or the
\* publisher (notifyLoop, onNotify, onSubscribe, Subscribe, onFriendChange).
THEOREM DeliveryCorrect == Spec => []NothingSkipped
<1>1. TypeOK /\ Delivery => NothingSkipped
  <2> SUFFICES ASSUME TypeOK, Delivery, NEW n \in Node, NEW f \in Node, NEW r \in obj[n],
                      <<f, n, r.topic>> \notin quit, r.seq <= acked[n][f][r.topic]
               PROVE  Got(n, f, r)
    BY DEF NothingSkipped, Got
  <2>1. r.topic \in AllTopic
    BY DEF TypeOK, Row
  <2> QED
    BY <2>1 DEF Delivery, AckedGiven, Given, Kept
<1> QED
  BY <1>1, AllDelivers, PTL

-----------------------------------------------------------------------------
(* Sync implements Feed: every step maps to a step of Feed, or to none.    *)

\* The refinement mapping: what n's feed has handed f.
Fed == [n \in Node |-> [f \in Node |->
          {<<d.seq, d.name>> : d \in {e \in handed[f] : e.from = n}}]]

\* The mapping loses nothing.
LEMMA FedIsGot ==
    ASSUME TypeOK, NEW n \in Node, NEW f \in Node, NEW q, Got(n, f, q)
    PROVE  <<q.seq, Name(q)>> \in Fed[n][f]
<1> DEFINE d == [from |-> n, name |-> Name(q), seq |-> q.seq]
<1>1. d \in {e \in handed[f] : e.from = n}
  BY DEF Got
<1>2. d.seq = q.seq /\ d.name = Name(q)
  OBVIOUS
<1> QED
  BY <1>1, <1>2 DEF Fed

\* A step that hands nothing over leaves Feed's got alone.
LEMMA FedStays == ASSUME UNCHANGED handed PROVE Fed' = Fed
BY DEF Fed

\* Put is Publish.
LEMMA StorePublishes ==
    ASSUME Proper, NEW n \in Node, NEW r \in Row, Store(n, r), UNCHANGED <<handed, quit>>
    PROVE  Promise!Next
<1>1. Name(r) \in {"sub", "data"} \X AllTopic \X (Key \cup Topic)
  BY DEF Row, Name
<1>2. log' = [log EXCEPT ![n] = Append(log[n], Name(r))]
  BY DEF Store
<1>3. UNCHANGED Fed
  BY FedStays
<1>4. Promise!Publish(n)
  BY <1>1, <1>2, <1>3 DEF Promise!Publish, Fed
<1> QED
  BY <1>4 DEF Promise!Next

\* A record that a handler's sink is given is the next one due.
LEMMA SinkInOrder ==
    ASSUME Proper, NEW f \in Node, NEW n \in Node, NEW s \in Slot,
           NEW r \in First(hnd[f][n][s].todo), <<f, n, Promise!TopicOf(log[n][r.seq])>> \notin quit,
           NEW i \in 1 .. r.seq - 1,
           Promise!TopicOf(log[n][i]) = Promise!TopicOf(log[n][r.seq]), Promise!Current(n, i)
    PROVE  <<i, log[n][i]>> \in Fed[n][f]
<1> USE ProperParts
<1>1. /\ Own(n, r) /\ r.seq \in Nat
      /\ Kept(f, n, r.topic) =>
           \A q \in obj[n] : q.topic = r.topic /\ q.seq < r.seq => Got(n, f, q)
  BY AtFirst
<1>2. r.seq \in 1 .. Len(log[n]) /\ log[n][r.seq] = Name(r) /\ Len(log[n]) \in Nat
  BY <1>1 DEF Own, Forward
<1>3. i \in 1 .. Len(log[n]) /\ i < r.seq
  BY <1>1, <1>2
<1>4. PICK q \in obj[n] : q.seq = i
  BY <1>3 DEF TableIsLatest, Promise!Current
<1>5. log[n][i] = Name(q)
  BY <1>4 DEF TableIsLatest
<1>6. Kept(f, n, r.topic) /\ q.topic = r.topic
  BY <1>2, <1>5 DEF Promise!TopicOf, Name, Kept
<1>7. Got(n, f, q)
  BY <1>1, <1>3, <1>4, <1>6
<1> QED
  BY <1>4, <1>5, <1>7, FedIsGot

\* The sink is Deliver.
LEMMA SinkFeeds ==
    ASSUME Proper, NEW f \in Node, NEW n \in Node, NEW s \in Slot, Sink(f, n, s)
    PROVE  Promise!Next
<1> USE ProperParts
<1>1. UNCHANGED <<log, quit>>
  BY DEF Sink
<1>2. PICK r \in First(hnd[f][n][s].todo) :
        handed' = [handed EXCEPT ![f] = handed[f] \cup
                     {[from |-> n, name |-> Name(r), seq |-> r.seq]}]
  BY DEF Sink
<1>3. r.seq \in 1 .. Len(log[n]) /\ log[n][r.seq] = Name(r)
  BY AtFirst DEF Own
<1>4. PICK d : d = [from |-> n, name |-> Name(r), seq |-> r.seq]
  OBVIOUS
<1>5. d.from = n /\ <<d.seq, d.name>> = <<r.seq, log[n][r.seq]>>
  BY <1>3, <1>4
<1>6. ASSUME NEW m \in Node, NEW g \in Node
      PROVE  Fed'[m][g] = IF m = n /\ g = f THEN Fed[n][f] \cup {<<r.seq, log[n][r.seq]>>}
                                           ELSE Fed[m][g]
  <2> DEFINE E == {e \in handed[g] : e.from = m}
             D == {e \in handed'[g] : e.from = m}
  <2>0. Fed'[m][g] = {<<e.seq, e.name>> : e \in D} /\ Fed[m][g] = {<<e.seq, e.name>> : e \in E}
    BY DEF Fed
  <2>1. handed'[g] = IF g = f THEN handed[f] \cup {d} ELSE handed[g]
    BY <1>2, <1>4 DEF TypeOK
  <2>2. CASE m = n /\ g = f
    <3>1. D = E \cup {d}
      BY <1>5, <2>1, <2>2
    <3> HIDE DEF D, E
    <3>2. {<<e.seq, e.name>> : e \in D} = {<<e.seq, e.name>> : e \in E} \cup {<<d.seq, d.name>>}
      BY <3>1
    <3> QED
      BY <1>5, <2>0, <2>2, <3>2
  <2>3. CASE ~(m = n /\ g = f)
    <3>1. D = E
      BY <1>5, <2>1, <2>3
    <3> QED
      BY <2>0, <2>3, <3>1
  <2> QED
    BY <2>2, <2>3
<1>7. Fed' = [Fed EXCEPT ![n][f] = Fed[n][f] \cup {<<r.seq, log[n][r.seq]>>}]
  <2> DEFINE X == Fed[n][f] \cup {<<r.seq, log[n][r.seq]>>}
  <2>1. Fed' = [m \in Node |-> [g \in Node |-> Fed'[m][g]]]
    BY DEF Fed
  <2>2. Fed = [m \in Node |-> [g \in Node |-> Fed[m][g]]]
    BY DEF Fed
  <2> HIDE DEF X
  <2>3. [Fed EXCEPT ![n][f] = X] =
          [m \in Node |-> [g \in Node |-> IF m = n /\ g = f THEN X ELSE Fed[m][g]]]
    BY <2>2
  <2>4. Fed' = [m \in Node |-> [g \in Node |-> IF m = n /\ g = f THEN X ELSE Fed[m][g]]]
    BY <1>6, <2>1 DEF X
  <2> QED
    BY <2>3, <2>4 DEF X
<1>8. <<f, n, Promise!TopicOf(log[n][r.seq])>> \notin quit =>
        \A i \in 1 .. r.seq - 1 :
          Promise!TopicOf(log[n][i]) = Promise!TopicOf(log[n][r.seq]) /\ Promise!Current(n, i)
            => <<i, log[n][i]>> \in Fed[n][f]
  BY SinkInOrder
<1>9. Promise!Deliver(n, f, r.seq)
  BY <1>1, <1>7, <1>8 DEF Promise!Deliver, Fed
<1> QED
  BY <1>3, <1>9 DEF Promise!Next

\* Steps that put nothing, hand nothing over and give nothing up are none of Feed's.
LEMMA QuietFeeds == ASSUME UNCHANGED <<log, handed, quit>> PROVE UNCHANGED Promise!vars
BY FedStays DEF Promise!vars, Fed

\* Every step is one of Feed, or none.
LEMMA StepFeeds ==
    TypeOK /\ TableIsLatest /\ Behind /\ Delivery /\ [Next]_vars
      => [Promise!Next]_(Promise!vars)
<1> SUFFICES ASSUME TypeOK, TableIsLatest, Behind, Delivery, [Next]_vars
             PROVE  Promise!Next \/ UNCHANGED Promise!vars
  OBVIOUS
<1>p. Proper
  BY StepTypes, StepForward DEF Proper
<1> USE DEF tables
<1>1. ASSUME NEW n \in Node, NEW t \in Writable[n], NEW k \in Key, Put(n, t, k)
      PROVE  Promise!Next
  <2> DEFINE row == [type |-> "data", topic |-> t, key |-> k, seq |-> 0,
                     value |-> TRUE, priority |-> 0]
  <2>1. row \in Row /\ Store(n, row)
    BY <1>1, WritableTopics DEF Put, Row
  <2> HIDE DEF row
  <2> QED
    BY <1>p, <1>1, <2>1, StorePublishes DEF Put
<1>2. ASSUME NEW c \in calls, SubPut(c)
      PROVE  Promise!Next
  <2> DEFINE row == [type |-> "sub", topic |-> Box(c.at, c.peer), key |-> c.topic,
                     seq |-> 0, value |-> c.enable, priority |-> c.heard]
  <2>1. row \in Row /\ c.at \in Node /\ Store(c.at, row)
    BY <1>2, DerivedTopics DEF SubPut, Row, Call, TypeOK
  <2> HIDE DEF row
  <2> QED
    BY <1>p, <1>2, <2>1, StorePublishes DEF SubPut
<1>3. ASSUME NEW c \in calls, SubRow(c)
      PROVE  Promise!Next \/ UNCHANGED Promise!vars
  <2>1. c.at \in Node /\ c.peer \in Node /\ c.topic \in AllTopic
    BY UserTopics DEF TypeOK, Call
  <2>2. UNCHANGED <<log, handed>>
    BY <1>3 DEF SubRow
  <2>3. CASE c.enable
    BY <1>3, <2>2, <2>3, QuietFeeds DEF SubRow
  <2>4. CASE ~c.enable
    <3>1. quit' = quit \cup {<<c.at, c.peer, c.topic>>}
      BY <1>3, <2>4 DEF SubRow
    <3>2. Promise!Unsubscribe(c.at, c.peer, c.topic)
      BY <2>2, <3>1, FedStays DEF Promise!Unsubscribe, Fed
    <3> QED
      BY <2>1, <3>2 DEF Promise!Next
  <2> QED
    BY <2>3, <2>4
<1>4. ASSUME NEW n \in Node, NEW f \in Node, RemoveEnd(n, f)
      PROVE  Promise!Next
  <2>1. UNCHANGED <<log, handed>> /\ quit' = quit \cup {<<n, f, t>> : t \in AllTopic}
    BY <1>4 DEF RemoveEnd
  <2>2. Promise!Remove(n, f)
    BY <2>1, FedStays DEF Promise!Remove, Fed
  <2> QED
    BY <2>2 DEF Promise!Next
<1>5. ASSUME NEW f \in Node, NEW n \in Node, NEW s \in Slot, Sink(f, n, s)
      PROVE  Promise!Next
  BY <1>p, <1>5, SinkFeeds
<1>6. ASSUME NEW n \in Node, NEW f \in Node, Looper(n, f) \/ Fail(n, f) \/ Receive(f, n)
      PROVE  UNCHANGED Promise!vars
  BY <1>6, QuietFeeds DEF Looper, Scan, Reply, Refuse, Fail, Receive
<1>7. ASSUME NEW n \in Node, NEW f \in Node, NEW s \in Slot, Check(f, n, s) \/ Mark(f, n, s)
      PROVE  UNCHANGED Promise!vars
  BY <1>7, QuietFeeds DEF Check, Mark
<1>8. ASSUME NEW n \in Node, NEW f \in Node, NEW c \in Caller, NEW t \in Topic,
             NEW e \in Enables, SubLookup(n, c, f, t, e)
      PROVE  UNCHANGED Promise!vars
  BY <1>8, QuietFeeds DEF SubLookup
<1>9. ASSUME NEW n \in Node, NEW f \in Node, AddFriend(n, f) \/ RemoveBegin(n, f)
      PROVE  UNCHANGED Promise!vars
  BY <1>9, QuietFeeds DEF AddFriend, RemoveBegin
<1>10. ASSUME NEW n \in Node, Restart(n)
       PROVE  UNCHANGED Promise!vars
  BY <1>10, QuietFeeds DEF Restart
<1>11. CASE UNCHANGED vars
  BY <1>11, QuietFeeds DEF vars
<1> QED
  BY <1>1, <1>2, <1>3, <1>4, <1>5, <1>6, <1>7, <1>8, <1>9, <1>10, <1>11 DEF Next, Handle

\* Empty tables are an empty feed.
LEMMA InitFeeds == Init => Promise!Init
BY DEF Init, Promise!Init

\* Sync implements Feed: Put publishes, the sink of a handler delivers, and what a
\* friend's sinks are given of a topic has, at that moment, nothing current before it
\* that they were not given, until the friend gives up the topic or the publisher.
THEOREM FeedImplemented == Spec => ImplementsFeed
<1> DEFINE IInv == TypeOK /\ TableIsLatest /\ Behind /\ Delivery
<1>1. IInv /\ [Next]_vars => [Promise!Next]_(Promise!vars)
  BY StepFeeds
<1>2. Spec => []IInv
  BY AllDelivers
<1> HIDE DEF IInv
<1> QED
  BY <1>1, <1>2, InitFeeds, PTL DEF Spec, ImplementsFeed, Promise!Spec

\* The theorems about Feed, under the refinement mapping.
PromiseProofs == INSTANCE FeedProofs WITH
    Topics <- AllTopic,
    Names <- {"sub", "data"} \X AllTopic \X (Key \cup Topic),
    got <- Fed

\* So the sinks of a friend are given what was put, under the number it was given by
\* Put, and of a topic that the friend has not given up all that is current before it.
THEOREM SinksCorrect == Spec => [](Promise!Genuine /\ Promise!NoGap)
<1>1. PromiseProofs!Spec => [](PromiseProofs!TypeOK /\ PromiseProofs!Genuine /\ PromiseProofs!NoGap)
  BY PromiseProofs!FeedCorrect
<1>2. Promise!Init => PromiseProofs!Init
  BY DEF Promise!Init, PromiseProofs!Init, Fed
<1>3. [Promise!Next]_(Promise!vars) => [PromiseProofs!Next]_(PromiseProofs!vars)
  BY DEF Promise!Next, Promise!vars, Promise!Publish, Promise!Deliver, Promise!Unsubscribe,
    Promise!Remove, Promise!Current, Promise!TopicOf,
    PromiseProofs!Next, PromiseProofs!vars, PromiseProofs!Publish, PromiseProofs!Deliver,
    PromiseProofs!Unsubscribe, PromiseProofs!Remove, PromiseProofs!Current,
    PromiseProofs!TopicOf, Fed
<1>4. PromiseProofs!Genuine => Promise!Genuine
  BY DEF PromiseProofs!Genuine, Promise!Genuine, Fed
<1>5. PromiseProofs!NoGap => Promise!NoGap
  BY DEF PromiseProofs!NoGap, Promise!NoGap, Fed, PromiseProofs!Current, Promise!Current,
    PromiseProofs!TopicOf, Promise!TopicOf
<1> QED
  BY <1>1, <1>2, <1>3, <1>4, <1>5, FeedImplemented, PTL
  DEF ImplementsFeed, Promise!Spec, PromiseProofs!Spec

-----------------------------------------------------------------------------
(* While nothing crashes, no friend is removed and no handler is abandoned, *)
(* records come once and in order.                                         *)

Calm == /\ spent["restart"] = 0 /\ spent["unfriend"] = 0
        /\ \A f, n \in Node : hnd[f][n]["orphan"] = Idle

\* The row a handler hands over or has just handed over is above what is marked, ...
NewToSink(f, n) ==
    hnd[f][n]["live"].pc \in {"sink", "mark"} =>
      \A r \in First(hnd[f][n]["live"].todo) : heard[f][n][r.topic] < r.seq

\* ... and what was handed over is marked, or about to be.
MarkedBy(f, n, d) ==
    \/ d.seq <= heard[f][n][d.name[2]]
    \/ /\ hnd[f][n]["live"].pc = "mark"
       /\ \E r \in First(hnd[f][n]["live"].todo) : r.seq = d.seq /\ r.topic = d.name[2]
HandedMarked(f, n) == \A d \in handed[f] : d.from = n => MarkedBy(f, n, d)

InOrder == /\ removing = {}
           /\ \A f, n \in Node : NewToSink(f, n) /\ HandedMarked(f, n)

\* A pair of nodes that a step leaves alone, ...
LEMMA OrderStays ==
    ASSUME InOrder, NEW f \in Node, NEW n \in Node,
           hnd'[f][n]["live"] = hnd[f][n]["live"], heard'[f][n] = heard[f][n],
           \A d \in handed'[f] : d.from = n => d \in handed[f]
    PROVE  NewToSink(f, n)' /\ HandedMarked(f, n)'
BY DEF InOrder, NewToSink, HandedMarked, MarkedBy

\* ... and one whose handler is between two rows.
LEMMA OrderBetween ==
    ASSUME InOrder, NEW f \in Node, NEW n \in Node, hnd[f][n]["live"].pc # "mark",
           hnd'[f][n]["live"].pc \notin {"sink", "mark"}, heard'[f][n] = heard[f][n],
           handed' = handed
    PROVE  NewToSink(f, n)' /\ HandedMarked(f, n)'
BY DEF InOrder, NewToSink, HandedMarked, MarkedBy

\* The rows a handler may be at are one row, as far as this goes.
LEMMA FirstsAgree ==
    ASSUME Proper, NEW n \in Node, NEW f \in Node, NEW s \in Slot,
           NEW r \in First(hnd[f][n][s].todo), NEW x \in First(hnd[f][n][s].todo)
    PROVE  r.seq \in Nat /\ x.seq = r.seq /\ x.topic = r.topic /\ Name(r)[2] = r.topic
<1>1. r.seq \in Nat /\ x.seq \in Nat /\ r.seq <= x.seq /\ x.seq <= r.seq
  BY AtFirst
<1>2. x.seq = r.seq
  BY <1>1
<1>3. Own(n, x) /\ Own(n, r)
  BY AtFirst
<1>4. Name(x) = Name(r)
  BY <1>2, <1>3 DEF Own
<1>5. x.topic = r.topic
  BY <1>4 DEF Name
<1> QED
  BY <1>1, <1>2, <1>5 DEF Name

\* The handler of a pair moves on to the next row, or is done.
LEMMA AdvancePc ==
    ASSUME TypeOK, NEW f \in Node, NEW n \in Node, NEW r, Advance(f, n, "live", r)
    PROVE  /\ hnd'[f][n]["live"].pc \in {"check", "done"}
           /\ \A g, m \in Node : ~(g = f /\ m = n) => hnd'[g][m] = hnd[g][m]
<1>1. hnd \in [Node -> [Node -> [Slot -> Handler]]] /\ "live" \in Slot
  BY DEF TypeOK, Slot
<1> QED
  BY <1>1 DEF Advance, At

\* What was handed over has a number and a topic.
LEMMA HandedTyped ==
    ASSUME TypeOK, NEW f \in Node, NEW d \in handed[f]
    PROVE  d.seq \in Nat /\ d.name[2] \in AllTopic
<1>1. handed \in [Node -> SUBSET [from : Node, seq : Nat, name : Triples]]
  BY DEF TypeOK, Triples
<1>2. d.seq \in Nat /\ d.name \in Triples
  BY <1>1
<1> QED
  BY <1>2 DEF Triples

\* A record is passed to the sink only if it is above what is marked.
LEMMA CheckOrder ==
    ASSUME Proper, InOrder, NEW g \in Node, NEW m \in Node, Check(g, m, "live"),
           NEW f \in Node, NEW n \in Node
    PROVE  NewToSink(f, n)' /\ HandedMarked(f, n)'
<1> USE ProperParts
<1>1. hnd \in [Node -> [Node -> [Slot -> Handler]]] /\ "live" \in Slot
  BY DEF TypeOK, Slot
<1>2. UNCHANGED <<heard, handed>> /\ hnd[g][m]["live"].pc = "check"
  BY DEF Check, tables
<1>3. PICK r \in First(hnd[g][m]["live"].todo) :
        IF desired[g][m][r.topic] /\ heard[g][m][r.topic] < r.seq
        THEN hnd' = [hnd EXCEPT ![g][m]["live"] = At("sink", hnd[g][m]["live"].todo)]
        ELSE Advance(g, m, "live", r)
  BY DEF Check
<1>4. CASE ~(f = g /\ n = m)
  <2>1. hnd'[f][n] = hnd[f][n]
    <3>1. CASE Advance(g, m, "live", r)
      BY <1>4, <3>1, AdvancePc
    <3>2. CASE hnd' = [hnd EXCEPT ![g][m]["live"] = At("sink", hnd[g][m]["live"].todo)]
      BY <1>1, <1>4, <3>2
    <3> QED
      BY <1>3, <3>1, <3>2
  <2> QED
    BY <1>2, <2>1, OrderStays
<1>5. CASE f = g /\ n = m /\ Advance(g, m, "live", r)
  BY <1>2, <1>5, AdvancePc, OrderBetween
<1>6. CASE f = g /\ n = m /\ heard[g][m][r.topic] < r.seq
           /\ hnd' = [hnd EXCEPT ![g][m]["live"] = At("sink", hnd[g][m]["live"].todo)]
  <2>1. hnd'[f][n]["live"] = At("sink", hnd[f][n]["live"].todo)
    BY <1>1, <1>6
  <2>2. \A x \in First(hnd[f][n]["live"].todo) : heard[f][n][x.topic] < x.seq
    BY <1>1, <1>6, FirstsAgree
  <2>3. NewToSink(f, n)'
    BY <1>2, <2>1, <2>2 DEF NewToSink, At
  <2>4. HandedMarked(f, n)'
    BY <1>2, <1>6 DEF InOrder, HandedMarked, MarkedBy
  <2> QED
    BY <2>3, <2>4
<1> QED
  BY <1>3, <1>4, <1>5, <1>6

\* The record handed over is the one about to be marked.
LEMMA SinkOrder ==
    ASSUME Proper, InOrder, NEW g \in Node, NEW m \in Node, Sink(g, m, "live"),
           NEW f \in Node, NEW n \in Node
    PROVE  NewToSink(f, n)' /\ HandedMarked(f, n)'
<1> USE ProperParts
<1>1. hnd \in [Node -> [Node -> [Slot -> Handler]]] /\ "live" \in Slot
  BY DEF TypeOK, Slot
<1>2. /\ UNCHANGED heard /\ hnd[g][m]["live"].pc = "sink"
      /\ hnd' = [hnd EXCEPT ![g][m]["live"] = At("mark", hnd[g][m]["live"].todo)]
  BY DEF Sink
<1>3. PICK r \in First(hnd[g][m]["live"].todo) :
        handed' = [handed EXCEPT ![g] = handed[g] \cup
                     {[from |-> m, name |-> Name(r), seq |-> r.seq]}]
  BY DEF Sink
<1>4. CASE ~(f = g /\ n = m)
  <2>1. hnd'[f][n] = hnd[f][n]
    BY <1>1, <1>2, <1>4
  <2>2. \A d \in handed'[f] : d.from = n => d \in handed[f]
    BY <1>3, <1>4 DEF TypeOK
  <2> QED
    BY <1>2, <2>1, <2>2, OrderStays
<1>5. CASE f = g /\ n = m
  <2>1. hnd'[f][n]["live"] = At("mark", hnd[f][n]["live"].todo)
    BY <1>1, <1>2, <1>5
  <2>2. NewToSink(f, n)'
    BY <1>2, <1>5, <2>1 DEF InOrder, NewToSink, At
  <2>3. ASSUME NEW d \in handed'[f], d.from = n
        PROVE  MarkedBy(f, n, d)'
    <3>1. CASE d \in handed[f]
      <4>1. d.seq <= heard[f][n][d.name[2]]
        BY <1>2, <1>5, <2>3, <3>1 DEF InOrder, HandedMarked, MarkedBy
      <4> QED
        BY <1>2, <4>1 DEF MarkedBy
    <3>2. CASE d \notin handed[f]
      <4>1. d = [from |-> m, name |-> Name(r), seq |-> r.seq]
        BY <1>3, <1>5, <3>2 DEF TypeOK
      <4>2. d.seq = r.seq /\ d.name[2] = r.topic
        BY <4>1 DEF Name
      <4> QED
        BY <1>5, <2>1, <4>2 DEF MarkedBy, At
    <3> QED
      BY <3>1, <3>2
  <2> QED
    BY <2>2, <2>3 DEF HandedMarked
<1> QED
  BY <1>4, <1>5

\* Marking the record leaves nothing handed over unmarked.
LEMMA MarkOrder ==
    ASSUME Proper, InOrder, NEW g \in Node, NEW m \in Node, Mark(g, m, "live"),
           NEW f \in Node, NEW n \in Node
    PROVE  NewToSink(f, n)' /\ HandedMarked(f, n)'
<1> USE ProperParts
<1>1. heard \in [Node -> [Node -> [AllTopic -> Nat]]] /\ "live" \in Slot
  BY DEF TypeOK, Slot
<1>2. UNCHANGED handed /\ hnd[g][m]["live"].pc = "mark"
  BY DEF Mark
<1>3. PICK r \in First(hnd[g][m]["live"].todo) :
        /\ heard' = [heard EXCEPT ![g][m][r.topic] = r.seq]
        /\ Advance(g, m, "live", r)
  BY DEF Mark
<1>4. CASE ~(f = g /\ n = m)
  <2>1. hnd'[f][n] = hnd[f][n]
    BY <1>3, <1>4, AdvancePc
  <2>2. heard'[f][n] = heard[f][n]
    BY <1>1, <1>3, <1>4
  <2> QED
    BY <1>2, <2>1, <2>2, OrderStays
<1>5. CASE f = g /\ n = m
  <2>1. hnd'[f][n]["live"].pc \in {"check", "done"}
    BY <1>3, <1>5, AdvancePc
  <2>2. NewToSink(f, n)'
    BY <2>1 DEF NewToSink
  <2>3. ASSUME NEW d \in handed'[f], d.from = n
        PROVE  d.seq <= heard'[f][n][d.name[2]]
    <3>1. d \in handed[f] /\ d.name[2] \in AllTopic /\ d.seq \in Nat
      BY <1>2, HandedTyped
    <3>2. r.seq \in Nat /\ r.topic \in AllTopic /\ heard[f][n][r.topic] < r.seq
      BY <1>1, <1>2, <1>5, AtFirst DEF InOrder, NewToSink
    <3>3. MarkedBy(f, n, d)
      BY <2>3, <3>1 DEF InOrder, HandedMarked
    <3>4. CASE d.seq <= heard[f][n][d.name[2]]
      <4>1. heard'[f][n][d.name[2]] =
              IF d.name[2] = r.topic THEN r.seq ELSE heard[f][n][d.name[2]]
        BY <1>1, <1>3, <1>5, <3>1, <3>2
      <4>2. heard[f][n][d.name[2]] \in Nat
        BY <1>1, <3>1
      <4> QED
        BY <3>1, <3>2, <3>4, <4>1, <4>2
    <3>5. CASE \E x \in First(hnd[f][n]["live"].todo) : x.seq = d.seq /\ x.topic = d.name[2]
      <4>1. d.seq = r.seq /\ d.name[2] = r.topic
        BY <1>1, <1>5, <3>5, FirstsAgree
      <4>2. heard'[f][n][r.topic] = r.seq
        BY <1>1, <1>3, <1>5, <3>2
      <4> QED
        BY <3>2, <4>1, <4>2
    <3> QED
      BY <3>3, <3>4, <3>5 DEF MarkedBy
  <2> QED
    BY <2>2, <2>3 DEF HandedMarked, MarkedBy
<1> QED
  BY <1>4, <1>5

\* The caller's end of a call: it begins, is answered, or fails with nobody running.
LEMMA CallOrder ==
    ASSUME Proper, InOrder, Calm, Calm', NEW m \in Node, NEW g \in Node,
           Reply(m, g) \/ Fail(m, g) \/ Receive(g, m), NEW f \in Node, NEW n \in Node
    PROVE  NewToSink(f, n)' /\ HandedMarked(f, n)'
<1> USE ProperParts
<1>1. hnd \in [Node -> [Node -> [Slot -> Handler]]] /\ "live" \in Slot /\ "orphan" \in Slot
  BY DEF TypeOK, Slot
<1>2. UNCHANGED <<heard, handed>>
  BY DEF Reply, Fail, Receive, tables
<1>3. /\ hnd[g][m]["live"].pc # "mark"
      /\ hnd'[g][m]["live"].pc \notin {"sink", "mark"}
      /\ \A h, i \in Node : ~(h = g /\ i = m) => hnd'[h][i] = hnd[h][i]
  <2>1. CASE Reply(m, g)
    BY <1>1, <2>1 DEF Reply, Idle, At
  <2>2. CASE Receive(g, m)
    BY <1>1, <2>2 DEF Receive, At
  <2>3. CASE Fail(m, g)
    <3>1. hnd' = [hnd EXCEPT ![g][m] = Abandoned(m, g)]
      BY <2>3 DEF Fail
    <3>2. hnd'[g][m] = Abandoned(m, g)
      BY <1>1, <3>1
    <3>3. ~Running(hnd[g][m]["live"])
      <4>1. Abandoned(m, g)["orphan"] = Idle
        BY <3>2 DEF Calm
      <4>2. Running(hnd[g][m]["live"]) => Abandoned(m, g)["orphan"] = hnd[g][m]["live"]
        BY <1>1 DEF Abandoned
      <4> QED
        BY <4>1, <4>2 DEF Running, Idle, At
    <3>4. Abandoned(m, g)["live"] = Idle
      BY <1>1 DEF Abandoned
    <3> QED
      BY <1>1, <3>1, <3>2, <3>3, <3>4 DEF Running, Idle, At
  <2> QED
    BY <2>1, <2>2, <2>3
<1>4. CASE ~(f = g /\ n = m)
  BY <1>2, <1>3, <1>4, OrderStays
<1>5. CASE f = g /\ n = m
  BY <1>2, <1>3, <1>5, OrderBetween
<1> QED
  BY <1>4, <1>5

\* Every step keeps the order while nothing crashes and nobody is removed.
LEMMA StepOrder ==
    /\ TypeOK /\ TableIsLatest /\ Behind /\ Delivery /\ Calm
    /\ InOrder /\ [Next]_vars /\ Calm'
    => InOrder'
<1> SUFFICES ASSUME TypeOK, TableIsLatest, Behind, Delivery, Calm, InOrder,
                    [Next]_vars, Calm'
             PROVE  InOrder'
  OBVIOUS
<1>p. Proper
  BY StepTypes, StepForward DEF Proper
<1>1. ASSUME UNCHANGED <<hnd, heard, handed, removing>>
      PROVE  InOrder'
  BY <1>1 DEF InOrder, NewToSink, HandedMarked, MarkedBy
<1>2. ASSUME NEW n \in Node, NEW t \in Writable[n], NEW k \in Key, Put(n, t, k)
      PROVE  InOrder'
  BY <1>1, <1>2 DEF Put, tables
<1>3. ASSUME NEW n \in Node, NEW f \in Node, NEW c \in Caller, NEW t \in Topic,
             NEW e \in Enables, SubLookup(n, c, f, t, e)
      PROVE  InOrder'
  BY <1>1, <1>3 DEF SubLookup, tables
<1>4. ASSUME NEW c \in calls, SubRow(c) \/ SubPut(c)
      PROVE  InOrder'
  BY <1>1, <1>4 DEF SubRow, SubPut, tables
<1>5. ASSUME NEW m \in Node, NEW g \in Node, Scan(m, g) \/ Refuse(m, g) \/ AddFriend(m, g)
      PROVE  InOrder'
  BY <1>1, <1>5 DEF Scan, Refuse, AddFriend, tables
<1>6. ASSUME NEW m \in Node, NEW g \in Node, Reply(m, g) \/ Fail(m, g) \/ Receive(g, m)
      PROVE  InOrder'
  <2>1. UNCHANGED removing
    BY <1>6 DEF Reply, Fail, Receive
  <2> QED
    BY <1>p, <1>6, <2>1, CallOrder DEF InOrder
<1>7. ASSUME NEW g \in Node, NEW m \in Node, NEW s \in Slot, Handle(g, m, s)
      PROVE  InOrder'
  <2>1. UNCHANGED removing
    BY <1>7 DEF Handle, Check, Sink, Mark
  <2>2. s = "live"
    BY <1>7 DEF Handle, Check, Sink, Mark, Slot, Calm, Idle, At
  <2> QED
    BY <1>p, <1>7, <2>1, <2>2, CheckOrder, SinkOrder, MarkOrder DEF InOrder, Handle
<1>8. ASSUME NEW m \in Node, NEW g \in Node, RemoveBegin(m, g) \/ RemoveEnd(m, g)
      PROVE  InOrder'
  BY <1>8 DEF RemoveBegin, RemoveEnd, InOrder, Calm, TypeOK
<1>9. ASSUME NEW n \in Node, Restart(n)
      PROVE  InOrder'
  BY <1>9 DEF Restart, Calm, TypeOK
<1>10. CASE UNCHANGED vars
  BY <1>1, <1>10 DEF vars, tables
<1> QED
  BY <1>2, <1>3, <1>4, <1>5, <1>6, <1>7, <1>8, <1>9, <1>10 DEF Next, Looper

\* As long as nothing crashes, no friend is removed and no handler goes on without its
\* caller, the sinks are given each record of a friend once and those of a topic in the
\* order they were put, though whole batches are sent again when an answer is lost and
\* batches of newer rows follow those that failed (heard_seqno in onNotify).
THEOREM OrderCorrect == Spec /\ []Calm => ExactlyOnceInOrder
<1> DEFINE IInv == TypeOK /\ TableIsLatest /\ Behind /\ Delivery
           Sinks == \A f, n \in Node :
             hnd[f][n]["live"].pc = "sink" =>
               \A r \in First(hnd[f][n]["live"].todo) : \A d \in handed[f] :
                 d.from = n /\ d.name[2] = r.topic => d.seq < r.seq
<1>1. Init => InOrder
  BY DEF Init, InOrder, NewToSink, HandedMarked, Idle, At, Slot
<1>2. IInv /\ Calm /\ InOrder /\ [Next]_vars /\ Calm' => InOrder'
  BY StepOrder
<1>3. Spec => []IInv
  BY AllDelivers
<1>4. IInv /\ InOrder => Sinks
  <2> SUFFICES ASSUME TypeOK, InOrder, NEW f \in Node, NEW n \in Node,
                      hnd[f][n]["live"].pc = "sink",
                      NEW r \in First(hnd[f][n]["live"].todo), NEW d \in handed[f],
                      d.from = n, d.name[2] = r.topic
               PROVE  d.seq < r.seq
    OBVIOUS
  <2>1. heard[f][n][r.topic] < r.seq /\ d.seq <= heard[f][n][r.topic]
    BY DEF InOrder, NewToSink, HandedMarked, MarkedBy
  <2>2. r.seq \in Nat /\ r.topic \in AllTopic
    <3>1. r \in Row
      BY FirstRow DEF Slot
    <3> QED
      BY <3>1 DEF Row
  <2>3. d.seq \in Nat
    BY HandedTyped
  <2>4. heard[f][n][r.topic] \in Nat
    <3>1. heard \in [Node -> [Node -> [AllTopic -> Nat]]]
      BY DEF TypeOK
    <3> QED
      BY <2>2, <3>1
  <2> QED
    BY <2>1, <2>2, <2>3, <2>4
<1>5. Sinks => [\A f, n \in Node :
         hnd[f][n]["live"].pc = "sink" /\ hnd'[f][n]["live"].pc = "mark" =>
           \A r \in First(hnd[f][n]["live"].todo) : \A d \in handed[f] :
             d.from = n /\ d.name[2] = r.topic => d.seq < r.seq]_vars
  OBVIOUS
<1> HIDE DEF IInv, Sinks
<1> QED
  BY <1>1, <1>2, <1>3, <1>4, <1>5, PTL DEF Spec, ExactlyOnceInOrder

\* Where nothing of the kind can happen, it does not.
LEMMA StepCalm ==
    ASSUME Orphans = FALSE, MaxRestart = 0, MaxUnfriend = 0,
           TypeOK, Calm, [Next]_vars
    PROVE  Calm'
<1>1. ASSUME UNCHANGED <<hnd, spent>>
      PROVE  Calm'
  BY <1>1 DEF Calm
<1>2. /\ hnd \in [Node -> [Node -> [Slot -> Handler]]]
      /\ spent \in [{"fail", "restart", "unfriend"} -> Nat]
      /\ "live" \in Slot /\ "orphan" \in Slot
  BY DEF TypeOK, Slot
<1>3. ASSUME NEW n \in Node, NEW t \in Writable[n], NEW k \in Key, Put(n, t, k)
      PROVE  Calm'
  BY <1>1, <1>3 DEF Put
<1>4. ASSUME NEW n \in Node, NEW f \in Node, NEW c \in Caller, NEW t \in Topic,
             NEW e \in Enables, SubLookup(n, c, f, t, e)
      PROVE  Calm'
  BY <1>1, <1>4 DEF SubLookup
<1>5. ASSUME NEW c \in calls, SubRow(c) \/ SubPut(c)
      PROVE  Calm'
  BY <1>1, <1>5 DEF SubRow, SubPut
<1>6. ASSUME NEW m \in Node, NEW g \in Node,
             Scan(m, g) \/ Refuse(m, g) \/ AddFriend(m, g) \/ RemoveEnd(m, g)
      PROVE  Calm'
  BY <1>1, <1>6 DEF Scan, Refuse, AddFriend, RemoveEnd
<1>7. ASSUME NEW m \in Node, NEW g \in Node, NEW h,
             hnd' = [hnd EXCEPT ![g][m]["live"] = h], UNCHANGED spent
      PROVE  Calm'
  BY <1>2, <1>7 DEF Calm
<1>8. ASSUME NEW m \in Node, NEW g \in Node, Reply(m, g) \/ Receive(g, m)
      PROVE  Calm'
  BY <1>7, <1>8 DEF Reply, Receive
<1>9. ASSUME NEW m \in Node, NEW g \in Node, Fail(m, g)
      PROVE  Calm'
  <2>1. hnd' = [hnd EXCEPT ![g][m] = Abandoned(m, g)]
    BY <1>9 DEF Fail
  <2>2. Abandoned(m, g)["orphan"] = Idle
    BY <1>2, <1>9 DEF Fail, CanAbandon, Abandoned, Calm
  <2>3. spent' = [spent EXCEPT !["fail"] = spent["fail"] + 1]
    BY <1>9 DEF Fail
  <2>4. \A f, n \in Node : hnd'[f][n]["orphan"] = Idle
    BY <1>2, <2>1, <2>2 DEF Calm
  <2>5. spent'["restart"] = 0 /\ spent'["unfriend"] = 0
    BY <1>2, <2>3 DEF Calm
  <2> QED
    BY <2>4, <2>5 DEF Calm
<1>10. ASSUME NEW g \in Node, NEW m \in Node, NEW s \in Slot, Handle(g, m, s)
       PROVE  Calm'
  <2>1. s = "live"
    BY <1>10 DEF Handle, Check, Sink, Mark, Slot, Calm, Idle, At
  <2>2. \E h : hnd' = [hnd EXCEPT ![g][m]["live"] = h]
    BY <1>10, <2>1 DEF Handle, Check, Sink, Mark, Advance
  <2>3. UNCHANGED spent
    BY <1>10 DEF Handle, Check, Sink, Mark
  <2> QED
    BY <1>7, <2>2, <2>3
<1>11. ASSUME NEW m \in Node, (\E g \in Node : RemoveBegin(m, g)) \/ Restart(m)
       PROVE  FALSE
  BY <1>2, <1>11 DEF RemoveBegin, Restart, Spare
<1>12. CASE UNCHANGED vars
  BY <1>1, <1>12 DEF vars
<1> QED
  BY <1>3, <1>4, <1>5, <1>6, <1>8, <1>9, <1>10, <1>11, <1>12 DEF Next, Looper

\* The same for instances without crashes, removals and orphans, which are those that
\* the runs of ExactlyOnceInOrder check.
THEOREM UndisturbedOrder ==
    ASSUME Orphans = FALSE, MaxRestart = 0, MaxUnfriend = 0
    PROVE  Spec => ExactlyOnceInOrder
<1>1. Init => Calm
  BY DEF Init, Calm, Slot
<1>2. TypeOK /\ Calm /\ [Next]_vars => Calm'
  BY StepCalm
<1>3. Spec => []Calm
  BY <1>1, <1>2, TypeCorrect, PTL DEF Spec
<1> QED
  BY <1>3, OrderCorrect, PTL
=============================================================================
