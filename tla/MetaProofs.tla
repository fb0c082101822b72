----------------------------- MODULE MetaProofs -----------------------------
(***************************************************************************)
(* Theorems about the meta layer, for every set of nodes, keys and values, *)
(* every graph of friends and every value of the bounds.                   *)
(***************************************************************************)
EXTENDS Meta, WellFoundedInduction, TLAPS

-----------------------------------------------------------------------------
(* Maxima.                                                                 *)

\* A set of integers with an upper bound has a largest one.
LEMMA MaxOf ==
    ASSUME NEW S \in SUBSET Int, S # {}, NEW b \in Int, \A x \in S : x <= b
    PROVE  Max(S) \in S /\ \A x \in S : x <= Max(S)
<1> DEFINE T == {b - x : x \in S}
<1>1. \A x \in S : b - x \in Nat
  OBVIOUS
<1>2. T \subseteq Nat /\ T # {}
  BY <1>1, Zenon
<1> DEFINE R == {ss \in Nat \X Nat : ss[1] < ss[2]}
<1>3. IsWellFoundedOn(R, Nat)
  BY NatLessThanWellFounded, Zenon DEF OpToRel
<1>4. PICK d \in T : \A y \in T : <<y, d>> \notin R
  <2> HIDE DEF T, R
  <2> QED
    BY <1>2, <1>3, WFMin
<1>5. PICK m \in S : d = b - m
  BY <1>4
<1>6. ASSUME NEW x \in S PROVE m >= x
  <2>1. b - x \in T /\ b - x \in Nat /\ b - m \in Nat
    BY <1>1
  <2>2. ~ (b - x < b - m)
    BY <1>4, <1>5, <2>1
  <2>3. x \in Int /\ m \in Int
    OBVIOUS
  <2> HIDE DEF R, T
  <2> QED
    BY <2>2, <2>3
<1>7. Max(S) \in S /\ \A x \in S : Max(S) >= x
  BY <1>6 DEF Max
<1>8. \A x \in S : x <= Max(S)
  <2> SUFFICES ASSUME NEW x \in S PROVE x <= Max(S)
    OBVIOUS
  <2>1. Max(S) >= x /\ Max(S) \in Int /\ x \in Int
    BY <1>7
  <2> HIDE DEF R, T
  <2> QED
    BY <2>1
<1> QED
  BY <1>7, <1>8

-----------------------------------------------------------------------------
(* The inductive invariant.                                                *)

\* The node that makes the records of a name.
Author(name) == name[2]

\* n has the basis and a record of writer w.
Known(n, w) == Rows(n, Basis) # {} /\ Rows(n, Writer(w)) # {}

\* Numbers and priorities of a table are bounded, so that the largest ones exist.
Bounded == \A n \in Node : \E b \in Nat : \A r \in obj[n] : r.seq <= b /\ r.pri <= b

\* What is in a table or on its way into one was made.
Sourced == \A n, f \in Node : \A r \in obj[n] \cup handling[n][f] : Bare(r) \in made

\* A priority of a name is given once, ...
MadeOnce == \A p, q \in made : p.name = q.name /\ p.pri = q.pri => p = q

\* ... by a node that has the newest record it made, ...
AuthorHas == \A q \in made : \E r \in Rows(Author(q.name), q.name) : q.pri <= r.pri

\* ... and newer ones to put.
Fresh(r) == \A q \in made : q.name = r.name => q.pri < r.pri
PuttingNew ==
    \A n \in Node : \A r \in putting[n] :
      /\ Author(r.name) = n /\ Fresh(r)
      /\ IF r.name[1] = "data" THEN Known(n, n) ELSE r.name = Writer(Owner) /\ r.pri = 0

\* Nothing is made before the basis.
BasisFirst == made # {} \/ (\E n \in Node : putting[n] # {}) => Rows(Owner, Basis) # {}

\* No node accepts a record of its own from a friend, nor one of an unknown writer.
HandlingOther ==
    \A n, f \in Node : \A r \in handling[n][f] :
      /\ Author(r.name) # n
      /\ r.name[1] = "data" => Known(n, Author(r.name))

Inv == /\ TypeOK /\ Bounded /\ Sourced /\ MadeOnce /\ AuthorHas
       /\ PuttingNew /\ BasisFirst /\ HandlingOther /\ WritersKnown

\* No two handlers of a node are about to put records of one name.
NoRace ==
    \A n, f, g \in Node : \A r \in handling[n][f], q \in handling[n][g] :
      r.name = q.name => f = g

\* Without such a race what was accepted is still news when it is put.
HandlingNewer ==
    \A n, f \in Node : \A r \in handling[n][f] : Newer(n, r)

-----------------------------------------------------------------------------
(* Names, and what putting a record does to a table.                       *)

\* The names the code uses are names, and tell who makes their records.
LEMMA Names ==
    /\ Basis \in Name /\ Author(Basis) = Owner /\ Basis[1] = "basis"
    /\ \A w \in Node : /\ Writer(w) \in Name /\ Author(Writer(w)) = Owner
                       /\ Writer(w)[1] = "writer" /\ Writer(w)[3] = w
    /\ \A n \in Node, k \in Key : /\ <<"data", n, k>> \in Name
                                  /\ Author(<<"data", n, k>>) = n
    /\ \A x \in Name :
         /\ Author(x) \in Node
         /\ x = Basis \/ (\E w \in Node : x = Writer(w)) \/ x[1] = "data"
         /\ x[1] = "basis" => x = Basis
         /\ x[1] = "writer" => \E w \in Node : x = Writer(w)
         /\ x[1] # "data" => Author(x) = Owner
BY NodeAssumption DEF Name, Basis, Writer, Author

\* Ranks of values are numbers.
LEMMA ValueRanks == \A x \in Content : ValueRank(x) \in Nat
BY RankAssumption DEF ValueRank, Content

\* The bare record of a row.
LEMMA BareParts ==
    /\ \A r : Bare(r).name = r.name /\ Bare(r).pri = r.pri /\ Bare(r).val = r.val
    /\ \A r \in Record : Bare(r) = r
    /\ \A r \in Row : Bare(r) \in Record
BY DEF Bare, Record, Row

\* What putting r at n does: the rows of r's name give way to one that says what r says.
Stored(n, r) ==
    /\ \A m \in Node : \A q \in obj[m] : q \in obj'[m] \/ (m = n /\ q.name = r.name)
    /\ \A m \in Node : \A q \in obj'[m] :
         \/ q \in obj[m] /\ (m = n => q.name # r.name)
         \/ m = n /\ q.name = r.name /\ q.pri = r.pri /\ q.val = r.val
    /\ \E x \in obj'[n] : x.name = r.name /\ x.pri = r.pri /\ x.val = r.val

\* Putting r takes its row, if there is one, for another with the next number.
LEMMA StoreRow ==
    ASSUME TypeOK, Bounded, NEW n \in Node, NEW r, r.name \in Name, r.pri \in Nat,
           r.val \in Content, Store(n, r)
    PROVE  \E x \in Row :
             /\ x.name = r.name /\ x.pri = r.pri /\ x.val = r.val
             /\ obj' = [obj EXCEPT ![n] = (obj[n] \ Rows(n, r.name)) \cup {x}]
<1>1. LastSeq(n) \in Nat
  <2> DEFINE S == {q.seq : q \in obj[n]} \cup {0}
  <2>1. \A q \in obj[n] : q.seq \in Nat
    BY DEF TypeOK, Row
  <2>2. S \in SUBSET Int /\ S # {} /\ \A x \in S : x \in Nat
    BY <2>1
  <2>3. PICK b \in Nat : \A q \in obj[n] : q.seq <= b
    BY DEF Bounded
  <2>4. \A x \in S : x <= b
    BY <2>3
  <2>5. LastSeq(n) = Max(S)
    BY DEF LastSeq
  <2> HIDE DEF S
  <2>6. Max(S) \in S
    BY <2>2, <2>3, <2>4, MaxOf
  <2> QED
    BY <2>2, <2>5, <2>6
<1> DEFINE x == [name |-> r.name, pri |-> r.pri, val |-> r.val, seq |-> LastSeq(n) + 1]
<1>2. x \in Row
  BY <1>1 DEF Row
<1>3. obj' = [obj EXCEPT ![n] = (obj[n] \ Rows(n, r.name)) \cup {x}]
  BY DEF Store
<1> QED
  BY <1>2, <1>3

\* A table keeps one row for a name, and its numbers their bound.
LEMMA StoreStored ==
    ASSUME TypeOK, Bounded, NEW n \in Node, NEW r, r.name \in Name, r.pri \in Nat,
           r.val \in Content, Store(n, r)
    PROVE  /\ obj' \in [Node -> SUBSET Row]
           /\ \A m \in Node : \A p, q \in obj'[m] : p.name = q.name => p = q
           /\ Bounded' /\ Stored(n, r)
<1>1. PICK x \in Row :
        /\ x.name = r.name /\ x.pri = r.pri /\ x.val = r.val
        /\ obj' = [obj EXCEPT ![n] = (obj[n] \ Rows(n, r.name)) \cup {x}]
  BY StoreRow
<1>2. /\ obj \in [Node -> SUBSET Row]
      /\ \A m \in Node : \A p, q \in obj[m] : p.name = q.name => p = q
  BY DEF TypeOK
<1>3. /\ obj' \in [Node -> SUBSET Row]
      /\ obj'[n] = (obj[n] \ Rows(n, r.name)) \cup {x}
      /\ \A m \in Node : m # n => obj'[m] = obj[m]
  BY <1>1, <1>2
<1>4. \A q \in obj'[n] : (q \in obj[n] /\ q.name # r.name) \/ q = x
  BY <1>3 DEF Rows
<1>5. \A m \in Node : \A p, q \in obj'[m] : p.name = q.name => p = q
  BY <1>1, <1>2, <1>3, <1>4
<1>6. Bounded'
  <2> SUFFICES ASSUME NEW m \in Node
               PROVE  \E b \in Nat : \A q \in obj'[m] : q.seq <= b /\ q.pri <= b
    BY DEF Bounded
  <2>1. PICK b \in Nat : \A q \in obj[m] : q.seq <= b /\ q.pri <= b
    BY DEF Bounded
  <2>2. CASE m = n
    <3>1. b + x.seq + x.pri \in Nat /\ x.seq \in Nat /\ x.pri \in Nat
      BY DEF Row
    <3>2. \A q \in obj[n] : q.seq \in Nat /\ q.pri \in Nat
      BY <1>2 DEF Row
    <3>3. \A q \in obj'[n] : q.seq <= b + x.seq + x.pri /\ q.pri <= b + x.seq + x.pri
      BY <1>4, <2>1, <2>2, <3>1, <3>2
    <3> QED
      BY <2>2, <3>1, <3>3
  <2>3. CASE m # n
    BY <1>3, <2>1, <2>3
  <2> QED
    BY <2>2, <2>3
<1>7. Stored(n, r)
  <2>1. \A m \in Node : \A q \in obj[m] : q \in obj'[m] \/ (m = n /\ q.name = r.name)
    BY <1>3 DEF Rows
  <2>2. \A m \in Node : \A q \in obj'[m] :
         \/ q \in obj[m] /\ (m = n => q.name # r.name)
         \/ m = n /\ q.name = r.name /\ q.pri = r.pri /\ q.val = r.val
    BY <1>1, <1>3, <1>4
  <2>3. x \in obj'[n]
    BY <1>3
  <2> QED
    BY <1>1, <2>1, <2>2, <2>3 DEF Stored
<1> QED
  BY <1>3, <1>5, <1>6, <1>7

\* A name that a table has it keeps.
LEMMA KnownStays ==
    ASSUME NEW n \in Node, NEW r, Stored(n, r), NEW m \in Node, NEW w, Known(m, w)
    PROVE  Known(m, w)'
<1>1. ASSUME NEW name, Rows(m, name) # {} PROVE Rows(m, name)' # {}
  BY <1>1 DEF Rows, Stored
<1> QED
  BY <1>1 DEF Known

\* The author of a record that is put keeps its newest ones.
LEMMA AuthorKeeps ==
    ASSUME TypeOK, NEW n \in Node, NEW r, Stored(n, r), AuthorHas, r.pri \in Nat,
           \A q \in made : q.name = r.name /\ Author(r.name) = n => q.pri < r.pri,
           NEW q \in made
    PROVE  (\E x \in Rows(Author(q.name), q.name) : q.pri <= x.pri)'
<1>1. PICK x \in obj[Author(q.name)] : x.name = q.name /\ q.pri <= x.pri
  BY DEF AuthorHas, Rows
<1>2. q.pri \in Nat /\ Author(q.name) \in Node
  BY Names DEF TypeOK, Record
<1>3. CASE Author(q.name) = n /\ q.name = r.name
  <2>1. PICK y \in obj'[n] : y.name = r.name /\ y.pri = r.pri
    BY DEF Stored
  <2>2. q.pri <= y.pri
    BY <1>2, <1>3, <2>1
  <2> QED
    BY <1>3, <2>1, <2>2 DEF Rows
<1>4. CASE ~(Author(q.name) = n /\ q.name = r.name)
  <2>1. x \in obj'[Author(q.name)]
    BY <1>1, <1>2, <1>4 DEF Stored
  <2> QED
    BY <1>1, <2>1 DEF Rows
<1> QED
  BY <1>3, <1>4

-----------------------------------------------------------------------------
(* A new record.                                                           *)

\* Putting a new record at its author keeps everything but what is said of calls.
LEMMA Making ==
    ASSUME Inv, NEW n \in Node, NEW r \in Record, Author(r.name) = n, Fresh(r),
           Store(n, r), made' = made \cup {r}, handling' = handling,
           r.name[1] = "data" => Known(n, n),
           r.name = Basis \/ Rows(Owner, Basis) # {}
    PROVE  /\ obj' \in [Node -> SUBSET Row]
           /\ \A m \in Node : \A p, q \in obj'[m] : p.name = q.name => p = q
           /\ Bounded' /\ Stored(n, r)
           /\ Sourced' /\ MadeOnce' /\ AuthorHas' /\ HandlingOther' /\ WritersKnown'
           /\ Rows(Owner, Basis)' # {}
<1>1. /\ TypeOK /\ Bounded /\ r.name \in Name /\ r.pri \in Nat /\ r.val \in Content
      /\ made \subseteq Record
  BY DEF Inv, Record, TypeOK
<1>2. /\ obj' \in [Node -> SUBSET Row]
      /\ \A m \in Node : \A p, q \in obj'[m] : p.name = q.name => p = q
      /\ Bounded' /\ Stored(n, r)
  BY <1>1, StoreStored
<1>3. Sourced'
  <2>1. SUFFICES ASSUME NEW m \in Node, NEW f \in Node, NEW q \in obj'[m] \cup handling'[m][f]
                 PROVE  Bare(q) \in made'
    BY DEF Sourced, Bare
  <2>2. CASE q \in obj[m] \cup handling[m][f]
    BY <2>2 DEF Inv, Sourced
  <2>3. CASE q.name = r.name /\ q.pri = r.pri /\ q.val = r.val
    <3>1. Bare(q) = Bare(r) /\ Bare(r) = r
      BY <2>3, BareParts DEF Bare
    <3> QED
      BY <3>1
  <2> QED
    BY <1>2, <2>1, <2>2, <2>3 DEF Stored
<1>4. MadeOnce'
  <2>1. \A q \in made : q.pri \in Nat
    BY <1>1 DEF Record
  <2> QED
    BY <1>1, <2>1 DEF Inv, MadeOnce, Fresh
<1>5. AuthorHas'
  <2>1. SUFFICES ASSUME NEW q \in made'
                 PROVE  (\E x \in Rows(Author(q.name), q.name) : q.pri <= x.pri)'
    BY DEF AuthorHas, Author, Rows
  <2>2. CASE q \in made
    <3>1. AuthorHas /\ \A p \in made : p.name = r.name /\ Author(r.name) = n => p.pri < r.pri
      BY DEF Inv, Fresh
    <3> QED
      BY <1>1, <1>2, <2>2, <3>1, AuthorKeeps
  <2>3. CASE q = r
    <3>1. PICK x \in obj'[n] : x.name = r.name /\ x.pri = r.pri
      BY <1>2 DEF Stored
    <3>2. r.pri <= x.pri
      BY <1>1, <3>1
    <3> QED
      BY <2>3, <3>1, <3>2 DEF Rows
  <2> QED
    BY <2>1, <2>2, <2>3
<1>6. HandlingOther'
  <2>1. SUFFICES ASSUME NEW m \in Node, NEW f \in Node, NEW q \in handling[m][f]
                 PROVE  /\ Author(q.name) # m
                        /\ q.name[1] = "data" => Known(m, Author(q.name))'
    BY DEF HandlingOther, Author, Known
  <2>2. Author(q.name) # m /\ (q.name[1] = "data" => Known(m, Author(q.name)))
    BY DEF Inv, HandlingOther
  <2>3. PICK w : w = Author(q.name)
    OBVIOUS
  <2>4. ASSUME Known(m, w) PROVE Known(m, w)'
    BY <1>2, <2>4, KnownStays
  <2> QED
    BY <2>2, <2>3, <2>4
<1>7. WritersKnown'
  <2>1. SUFFICES ASSUME NEW m \in Node, NEW q \in obj'[m], q.name[1] = "data"
                 PROVE  Known(m, Author(q.name))'
    BY DEF WritersKnown, Author, Known
  <2>2. PICK w : w = Author(q.name)
    OBVIOUS
  <2>3. Known(m, w)
    <3>1. CASE q \in obj[m]
      BY <2>1, <2>2, <3>1 DEF Inv, WritersKnown, Known, Author
    <3>2. CASE m = n /\ q.name = r.name
      BY <2>1, <2>2, <3>2
    <3> QED
      BY <1>2, <3>1, <3>2 DEF Stored
  <2>4. Known(m, w)'
    BY <1>2, <2>3, KnownStays
  <2> QED
    BY <2>2, <2>4
<1>8. Rows(Owner, Basis)' # {}
  <2>1. CASE r.name = Basis
    <3>1. n = Owner
      BY <2>1, Names
    <3> QED
      BY <1>2, <2>1, <3>1 DEF Stored, Rows
  <2>2. CASE r.name # Basis
    <3>1. Rows(Owner, Basis) # {} /\ Owner \in Node
      BY <2>2, NodeAssumption
    <3> QED
      BY <1>2, <2>2, <3>1 DEF Stored, Rows
  <2> QED
    BY <2>1, <2>2
<1> QED
  BY <1>2, <1>3, <1>4, <1>5, <1>6, <1>7, <1>8

\* A pending record stays new while others are made.
LEMMA StillNew ==
    ASSUME Inv, NEW n \in Node, NEW r \in Record, Author(r.name) = n,
           Stored(n, r), made' = made \cup {r},
           NEW m \in Node, NEW q \in putting[m], q.name # r.name
    PROVE  (/\ Author(q.name) = m /\ Fresh(q)
            /\ IF q.name[1] = "data" THEN Known(m, m) ELSE q.name = Writer(Owner) /\ q.pri = 0)'
<1>1. /\ Author(q.name) = m /\ Fresh(q)
      /\ IF q.name[1] = "data" THEN Known(m, m) ELSE q.name = Writer(Owner) /\ q.pri = 0
  BY DEF Inv, PuttingNew
<1>2. Fresh(q)'
  BY <1>1 DEF Fresh
<1>3. Known(m, m) => Known(m, m)'
  BY KnownStays
<1> QED
  BY <1>1, <1>2, <1>3 DEF Author, Writer

-----------------------------------------------------------------------------
(* The steps.                                                              *)

\* The invariant holds at the start.
LEMMA InitInv == Init => Inv
<1> SUFFICES ASSUME Init PROVE Inv
  OBVIOUS
<1>1. TypeOK
  BY DEF Init, TypeOK
<1>2. Bounded
  BY DEF Init, Bounded
<1>3. Sourced /\ MadeOnce /\ AuthorHas
  BY DEF Init, Sourced, MadeOnce, AuthorHas
<1>4. PuttingNew /\ BasisFirst /\ HandlingOther /\ WritersKnown
  BY DEF Init, PuttingNew, BasisFirst, HandlingOther, WritersKnown
<1> QED
  BY <1>1, <1>2, <1>3, <1>4 DEF Inv

\* Creating the collection.
LEMMA StepCreate ==
    ASSUME Inv, Create
    PROVE  Inv'
<1> DEFINE r == [name |-> Basis, pri |-> 0, val |-> "key"]
           q0 == [name |-> Writer(Owner), pri |-> 0, val |-> "key"]
<1>1. /\ Owner \in Node /\ r \in Record /\ q0 \in Record /\ r.name = Basis
      /\ q0.name = Writer(Owner) /\ q0.pri = 0 /\ q0.name[1] = "writer"
      /\ Author(q0.name) = Owner /\ Author(r.name) = Owner /\ r.name[1] = "basis"
  BY NodeAssumption, Names DEF Record, Content
<1>2. /\ Store(Owner, r) /\ made' = made \cup {r}
      /\ putting' = [putting EXCEPT ![Owner] = {q0}]
      /\ handling' = handling /\ heard' = heard /\ spent' = spent
      /\ Rows(Owner, Basis) = {}
  BY DEF Create
<1>3. made = {} /\ \A n \in Node : putting[n] = {}
  BY <1>2 DEF Inv, BasisFirst
<1>4. Fresh(r)
  BY <1>3 DEF Fresh
<1> HIDE DEF r, q0
<1>5. /\ obj' \in [Node -> SUBSET Row]
      /\ \A m \in Node : \A p, q \in obj'[m] : p.name = q.name => p = q
      /\ Bounded' /\ Stored(Owner, r)
      /\ Sourced' /\ MadeOnce' /\ AuthorHas' /\ HandlingOther' /\ WritersKnown'
      /\ Rows(Owner, Basis)' # {}
  BY <1>1, <1>2, <1>4, Making
<1>6. putting \in [Node -> SUBSET Record]
  BY DEF Inv, TypeOK
<1>7. TypeOK'
  <2>1. putting' \in [Node -> SUBSET Record] /\ made' \subseteq Record
    BY <1>1, <1>2, <1>6 DEF Inv, TypeOK
  <2> QED
    BY <1>2, <1>5, <2>1 DEF Inv, TypeOK
<1>8. PuttingNew'
  <2>1. SUFFICES ASSUME NEW n \in Node, NEW q \in putting'[n]
                 PROVE  (/\ Author(q.name) = n /\ Fresh(q)
                         /\ IF q.name[1] = "data" THEN Known(n, n)
                            ELSE q.name = Writer(Owner) /\ q.pri = 0)'
    BY DEF PuttingNew, Author, Fresh, Known, Rows, Writer
  <2>2. n = Owner /\ q = q0
    BY <1>1, <1>2, <1>3, <1>6, <2>1
  <2>3. Fresh(q)'
    <3>1. r.name # q0.name
      BY <1>1
    <3> QED
      BY <1>2, <1>3, <2>2, <3>1 DEF Fresh
  <2> QED
    BY <1>1, <2>2, <2>3 DEF Author, Writer
<1>9. BasisFirst'
  BY <1>5 DEF BasisFirst
<1> QED
  BY <1>5, <1>7, <1>8, <1>9 DEF Inv

\* The owner's next record of a writer.
LEMMA NextWriter ==
    ASSUME Inv, NEW w \in Node,
           NEW pri, pri = Max({q.pri + 1 : q \in Rows(Owner, Writer(w))} \cup {0})
    PROVE  /\ pri \in Nat
           /\ \A q \in made : q.name = Writer(w) => q.pri < pri
           /\ \A q \in Rows(Owner, Writer(w)) : q.pri < pri
<1> DEFINE S == {q.pri + 1 : q \in Rows(Owner, Writer(w))} \cup {0}
<1>1. Owner \in Node /\ \A q \in Rows(Owner, Writer(w)) : q \in obj[Owner] /\ q.pri \in Nat
  BY NodeAssumption DEF Inv, TypeOK, Row, Rows
<1>2. PICK b \in Nat : \A q \in obj[Owner] : q.pri <= b
  BY <1>1 DEF Inv, Bounded
<1>3. \A q \in Rows(Owner, Writer(w)) : q.pri + 1 \in Nat /\ q.pri + 1 <= b + 1
  BY <1>1, <1>2
<1>4. \A x \in S : x \in Nat /\ x <= b + 1
  BY <1>3
<1>5. S \in SUBSET Int /\ S # {} /\ b + 1 \in Int
  BY <1>4
<1>6. pri = Max(S)
  OBVIOUS
<1>7. \A q \in Rows(Owner, Writer(w)) : q.pri + 1 \in S
  OBVIOUS
<1> HIDE DEF S
<1>8. pri \in S /\ \A x \in S : x <= pri
  BY <1>4, <1>5, <1>6, MaxOf
<1>9. pri \in Nat /\ \A q \in Rows(Owner, Writer(w)) : q.pri < pri
  <2>1. pri \in Nat
    BY <1>4, <1>8
  <2>2. SUFFICES ASSUME NEW q \in Rows(Owner, Writer(w)) PROVE q.pri < pri
    BY <2>1
  <2>3. q.pri + 1 <= pri /\ q.pri \in Nat
    BY <1>1, <1>7, <1>8
  <2> QED
    BY <2>1, <2>3
<1>10. ASSUME NEW q \in made, q.name = Writer(w) PROVE q.pri < pri
  <2>1. Author(q.name) = Owner /\ q.pri \in Nat
    BY <1>10, Names DEF Inv, TypeOK, Record
  <2>2. PICK x \in Rows(Owner, Writer(w)) : q.pri <= x.pri
    BY <1>10, <2>1 DEF Inv, AuthorHas
  <2> QED
    BY <1>1, <1>9, <2>1, <2>2
<1> QED
  BY <1>9, <1>10

\* A writer's record is put.
LEMMA StepSetWriter ==
    ASSUME Inv, NEW w \in Node, NEW v \in {"key", "empty"}, SetWriter(w, v),
           Rows(Owner, Basis) # {}, \A q \in putting[Owner] : q.name # Writer(w),
           UNCHANGED <<heard, handling, putting>>,
           spent' \in [{"put", "admin", "remove", "restart"} -> Nat]
    PROVE  Inv'
<1>1. PICK pri : pri = Max({q.pri + 1 : q \in Rows(Owner, Writer(w))} \cup {0})
  OBVIOUS
<1> DEFINE r == [name |-> Writer(w), pri |-> pri, val |-> v]
<1>2. /\ pri \in Nat
      /\ \A q \in made : q.name = Writer(w) => q.pri < pri
  BY <1>1, NextWriter
<1>3. Store(Owner, r) /\ made' = made \cup {r}
  BY <1>1 DEF SetWriter
<1>4. /\ Owner \in Node /\ r \in Record /\ r.name = Writer(w) /\ r.name[1] = "writer"
      /\ Author(r.name) = Owner /\ r.pri = pri
  BY <1>2, NodeAssumption, Names DEF Record, Content
<1>5. Fresh(r)
  BY <1>2, <1>4 DEF Fresh
<1> HIDE DEF r
<1>6. /\ obj' \in [Node -> SUBSET Row]
      /\ \A m \in Node : \A p, q \in obj'[m] : p.name = q.name => p = q
      /\ Bounded' /\ Stored(Owner, r)
      /\ Sourced' /\ MadeOnce' /\ AuthorHas' /\ HandlingOther' /\ WritersKnown'
      /\ Rows(Owner, Basis)' # {}
  BY <1>3, <1>4, <1>5, Making
<1>7. TypeOK'
  BY <1>3, <1>4, <1>6 DEF Inv, TypeOK
<1>8. PuttingNew'
  <2>1. SUFFICES ASSUME NEW n \in Node, NEW q \in putting[n]
                 PROVE  (/\ Author(q.name) = n /\ Fresh(q)
                         /\ IF q.name[1] = "data" THEN Known(n, n)
                            ELSE q.name = Writer(Owner) /\ q.pri = 0)'
    BY DEF PuttingNew, Author, Fresh, Known, Rows, Writer
  <2>2. q.name # r.name
    <3>1. Author(q.name) = n
      BY DEF Inv, PuttingNew
    <3>2. CASE n = Owner
      BY <1>4, <3>2
    <3>3. CASE n # Owner
      BY <1>4, <3>1, <3>3
    <3> QED
      BY <3>2, <3>3
  <2> QED
    BY <1>3, <1>4, <1>6, <2>2, StillNew
<1>9. BasisFirst'
  BY <1>6 DEF BasisFirst
<1> QED
  BY <1>6, <1>7, <1>8, <1>9 DEF Inv

\* Adding a writer, whose record is not pending.
LEMMA StepAddWriter ==
    ASSUME Inv, NEW w \in Node, AddWriter(w)
    PROVE  Inv'
<1>1. /\ SetWriter(w, "key") /\ Rows(Owner, Basis) # {}
      /\ UNCHANGED <<heard, handling, putting>>
      /\ \A q \in putting[Owner] : q.name # Writer(Owner)
  BY DEF AddWriter
<1>2. spent' \in [{"put", "admin", "remove", "restart"} -> Nat]
  BY DEF AddWriter, Inv, TypeOK
<1>3. \A q \in putting[Owner] : q.name # Writer(w)
  <2> SUFFICES ASSUME NEW q \in putting[Owner], q.name = Writer(w)
               PROVE  FALSE
    OBVIOUS
  <2>1. q.name[1] = "data" \/ q.name = Writer(Owner)
    BY NodeAssumption DEF Inv, PuttingNew
  <2> QED
    BY <1>1, <2>1, Names
<1> QED
  BY <1>1, <1>2, <1>3, StepSetWriter

\* A writer who has a record can be removed, whose record is not pending then.
LEMMA StepRemoveWriter ==
    ASSUME Inv, NEW w \in Node, RemoveWriter(w)
    PROVE  Inv'
<1>1. /\ SetWriter(w, "empty") /\ UNCHANGED <<heard, handling, putting>>
  BY DEF RemoveWriter
<1>2. PICK r \in obj[Owner] : r.name = Writer(w)
  BY DEF RemoveWriter, Rows
<1>3. spent' \in [{"put", "admin", "remove", "restart"} -> Nat]
  <2>1. spent \in [{"put", "admin", "remove", "restart"} -> Nat]
    BY DEF Inv, TypeOK
  <2>2. spent' = [spent EXCEPT !["admin"] = @ + 1, !["remove"] = @ + 1]
    BY DEF RemoveWriter
  <2> QED
    BY <2>1, <2>2
<1>4. Bare(r) \in made /\ Bare(r).name = Writer(w) /\ Bare(r).pri \in Nat
  <2>1. Bare(r) \in made
    BY NodeAssumption DEF Inv, Sourced
  <2>2. Bare(r) \in Record
    BY <2>1 DEF Inv, TypeOK
  <2> QED
    BY <1>2, <2>1, <2>2, BareParts DEF Record
<1>5. Rows(Owner, Basis) # {}
  BY <1>4 DEF Inv, BasisFirst
<1>6. \A q \in putting[Owner] : q.name # Writer(w)
  <2> SUFFICES ASSUME NEW q \in putting[Owner], q.name = Writer(w)
               PROVE  FALSE
    OBVIOUS
  <2>1. Fresh(q) /\ (q.name[1] = "data" \/ q.pri = 0)
    BY NodeAssumption DEF Inv, PuttingNew
  <2>2. q.pri = 0
    BY <2>1, Names
  <2>3. Bare(r).pri < q.pri
    BY <1>4, <2>1 DEF Fresh
  <2> QED
    BY <1>4, <2>2, <2>3
<1> QED
  BY <1>1, <1>3, <1>5, <1>6, StepSetWriter

\* The number after the largest one of a key is above every one of the author's.
LEMMA StepPut ==
    ASSUME Inv, NEW n \in Node, NEW k \in Key, NEW v \in Value, Put(n, k, v)
    PROVE  Inv'
<1>1. PICK top : top = Newest(n, k)
  OBVIOUS
<1> DEFINE r == [name |-> <<"data", n, k>>, pri |-> top + 1, val |-> v]
           S == {q.pri : q \in {p \in obj[n] : p.name[1] = "data" /\ p.name[3] = k}} \cup {-1}
<1>2. /\ putting' = [putting EXCEPT ![n] = {r}]
      /\ UNCHANGED <<obj, heard, handling, made>>
      /\ Rows(n, Basis) # {} /\ Rows(n, Writer(n)) # {}
  BY <1>1 DEF Put
<1>3. \A q \in obj[n] : q.pri \in Nat
  BY DEF Inv, TypeOK, Row
<1>4. top \in S /\ \A x \in S : x <= top
  <2>1. PICK b \in Nat : \A q \in obj[n] : q.pri <= b
    BY DEF Inv, Bounded
  <2>2. \A x \in S : x \in Int /\ x <= b
    BY <1>3, <2>1
  <2>3. S \in SUBSET Int /\ S # {} /\ b \in Int
    BY <2>2
  <2>4. top = Max(S)
    BY <1>1 DEF Newest
  <2> HIDE DEF S
  <2> QED
    BY <2>2, <2>3, <2>4, MaxOf
<1>5. top + 1 \in Nat
  <2>1. \A x \in S : x \in Nat \/ x = -1
    BY <1>3
  <2>2. top \in Nat \/ top = -1
    BY <1>4, <2>1
  <2> QED
    BY <2>2
<1>6. \A q \in obj[n] : q.name = <<"data", n, k>> => q.pri <= top
  BY <1>4
<1>7. /\ r \in Record /\ r.name = <<"data", n, k>> /\ r.pri = top + 1
      /\ Author(r.name) = n /\ r.name[1] = "data"
  BY <1>5, Names DEF Record, Content
<1> HIDE DEF r, S
<1>8. Fresh(r)
  <2> SUFFICES ASSUME NEW q \in made, q.name = r.name PROVE q.pri < r.pri
    BY DEF Fresh
  <2>1. PICK x \in obj[n] : x.name = r.name /\ q.pri <= x.pri
    BY <1>7 DEF Inv, AuthorHas, Rows
  <2>2. x.pri <= top /\ x.pri \in Nat /\ q.pri \in Nat
    BY <1>3, <1>6, <1>7, <2>1 DEF Inv, TypeOK, Record
  <2>3. top \in Int
    <3>1. \A x1 \in S : x1 \in Int
      BY <1>3 DEF S
    <3> QED
      BY <1>4, <3>1
  <2> QED
    BY <1>7, <2>1, <2>2, <2>3
<1>9. TypeOK'
  <2>1. putting' \in [Node -> SUBSET Record]
    BY <1>2, <1>7 DEF Inv, TypeOK
  <2>2. spent' \in [{"put", "admin", "remove", "restart"} -> Nat]
    BY DEF Put, Inv, TypeOK
  <2> QED
    BY <1>2, <2>1, <2>2 DEF Inv, TypeOK
<1>10. Bounded' /\ Sourced' /\ MadeOnce' /\ AuthorHas' /\ HandlingOther' /\ WritersKnown'
  BY <1>2 DEF Inv, Bounded, Sourced, MadeOnce, AuthorHas, HandlingOther, WritersKnown,
              Rows, Known
<1>11. BasisFirst'
  <2>1. PICK x \in obj[n] : x.name = Basis
    BY <1>2 DEF Rows
  <2>2. Bare(x) \in made
    BY DEF Inv, Sourced
  <2> QED
    BY <1>2, <2>2 DEF Inv, BasisFirst, Rows
<1>12. PuttingNew'
  <2>1. SUFFICES ASSUME NEW m \in Node, NEW q \in putting'[m]
                 PROVE  /\ Author(q.name) = m /\ Fresh(q)
                        /\ IF q.name[1] = "data" THEN Known(m, m)
                           ELSE q.name = Writer(Owner) /\ q.pri = 0
    BY <1>2 DEF PuttingNew, Author, Fresh, Known, Rows, Writer
  <2>2. CASE m = n
    <3>1. q = r
      BY <1>2, <2>1, <2>2 DEF Inv, TypeOK
    <3> QED
      BY <1>2, <1>7, <1>8, <2>2, <3>1 DEF Known
  <2>3. CASE m # n
    <3>1. q \in putting[m]
      BY <1>2, <2>1, <2>3 DEF Inv, TypeOK
    <3> QED
      BY <3>1 DEF Inv, PuttingNew
  <2> QED
    BY <2>2, <2>3
<1> QED
  BY <1>9, <1>10, <1>11, <1>12 DEF Inv

\* The second half of Put and Create.
LEMMA StepPutStore ==
    ASSUME Inv, NEW n \in Node, NEW r \in putting[n], PutStore(n, r)
    PROVE  Inv'
<1>1. /\ Store(n, r) /\ made' = made \cup {r} /\ putting' = [putting EXCEPT ![n] = {}]
      /\ UNCHANGED <<heard, handling, spent>>
  BY DEF PutStore
<1>2. /\ r \in Record /\ Author(r.name) = n /\ Fresh(r)
      /\ r.name[1] = "data" => Known(n, n)
      /\ r.name = Basis \/ Rows(Owner, Basis) # {}
  BY DEF Inv, TypeOK, PuttingNew, BasisFirst
<1>3. /\ obj' \in [Node -> SUBSET Row]
      /\ \A m \in Node : \A p, q \in obj'[m] : p.name = q.name => p = q
      /\ Bounded' /\ Stored(n, r)
      /\ Sourced' /\ MadeOnce' /\ AuthorHas' /\ HandlingOther' /\ WritersKnown'
      /\ Rows(Owner, Basis)' # {}
  BY <1>1, <1>2, Making
<1>4. TypeOK'
  <2>1. putting' \in [Node -> SUBSET Record] /\ made' \subseteq Record
    BY <1>1, <1>2 DEF Inv, TypeOK
  <2> QED
    BY <1>1, <1>3, <2>1 DEF Inv, TypeOK
<1>5. PuttingNew'
  <2>1. SUFFICES ASSUME NEW m \in Node, NEW q \in putting'[m]
                 PROVE  (/\ Author(q.name) = m /\ Fresh(q)
                         /\ IF q.name[1] = "data" THEN Known(m, m)
                            ELSE q.name = Writer(Owner) /\ q.pri = 0)'
    BY DEF PuttingNew, Author, Fresh, Known, Rows, Writer
  <2>2. m # n /\ q \in putting[m]
    BY <1>1, <2>1 DEF Inv, TypeOK
  <2>3. q.name # r.name
    BY <1>2, <2>2 DEF Inv, PuttingNew
  <2> QED
    BY <1>1, <1>2, <1>3, <2>2, <2>3, StillNew
<1>6. BasisFirst'
  BY <1>3 DEF BasisFirst
<1> QED
  BY <1>3, <1>4, <1>5, <1>6 DEF Inv

\* What a node made itself is no news to it.
LEMMA NotOwn ==
    ASSUME Inv, NEW n \in Node, NEW f \in Node, NEW r \in obj[f], Accepts(n, r)
    PROVE  Author(r.name) # n
<1> SUFFICES ASSUME Author(r.name) = n PROVE FALSE
  OBVIOUS
<1>1. /\ r \in Row /\ Bare(r) \in made
      /\ r.name \in Name /\ r.pri \in Nat /\ r.val \in Content
  BY DEF Inv, TypeOK, Row, Sourced
<1>2. PICK x \in obj[n] : x.name = r.name /\ r.pri <= x.pri
  BY <1>1, BareParts DEF Inv, AuthorHas, Rows
<1>3. /\ x \in Row /\ Bare(x) \in made /\ x.pri \in Nat /\ x.val \in Content
  BY DEF Inv, TypeOK, Row, Sourced
<1>4. CASE r.name[1] = "basis"
  <2>1. r.name = Basis /\ Rows(n, Basis) = {}
    BY <1>1, <1>4, Names DEF Accepts
  <2> QED
    BY <1>2, <2>1 DEF Rows
<1>5. CASE r.name[1] # "basis"
  <2>1. Newer(n, r)
    BY <1>5 DEF Accepts
  <2>2. Outranks(r, x)
    BY <1>2, <2>1 DEF Newer, Rows
  <2>3. r.pri = x.pri /\ ValueRank(r.val) > ValueRank(x.val)
    BY <1>1, <1>2, <1>3, <2>2 DEF Outranks
  <2>4. Bare(r) = Bare(x)
    BY <1>1, <1>2, <1>3, <2>3, BareParts DEF Inv, MadeOnce
  <2>5. r.val = x.val
    BY <2>4, BareParts
  <2>6. ValueRank(r.val) \in Nat /\ ValueRank(x.val) \in Nat
    BY <1>1, <1>3, ValueRanks
  <2> QED
    BY <2>3, <2>5, <2>6
<1> QED
  BY <1>4, <1>5

\* Only a writer's data are accepted.
LEMMA AcceptsKnown ==
    ASSUME NEW n, NEW r, Accepts(n, r), r.name[1] = "data"
    PROVE  Known(n, Author(r.name))
BY DEF Accepts, Known, Author

\* Accepting a record of a friend.
LEMMA StepReceive ==
    ASSUME Inv, NEW n \in Node, NEW f \in Node, Receive(n, f)
    PROVE  Inv'
<1>1. UNCHANGED <<obj, putting, made, spent>>
  BY DEF Receive
<1>2. PICK r \in obj[f] :
        IF Accepts(n, r)
        THEN handling' = [handling EXCEPT ![n][f] = {r}] /\ UNCHANGED heard
        ELSE heard' = [heard EXCEPT ![n][f] = r.seq] /\ UNCHANGED handling
  BY DEF Receive
<1>3. handling \in [Node -> [Node -> SUBSET Row]] /\ heard \in [Node -> [Node -> Nat]]
  BY DEF Inv, TypeOK
<1>4. r \in Row /\ r.seq \in Nat /\ Bare(r) \in made
  BY DEF Inv, TypeOK, Row, Sourced
<1>5. \/ handling' = handling
      \/ Accepts(n, r) /\ handling' = [handling EXCEPT ![n][f] = {r}]
  BY <1>2
<1>6. handling' \in [Node -> [Node -> SUBSET Row]] /\ heard' \in [Node -> [Node -> Nat]]
  <2>1. handling' \in [Node -> [Node -> SUBSET Row]]
    <3>1. CASE handling' = handling
      BY <1>3, <3>1
    <3>2. CASE handling' = [handling EXCEPT ![n][f] = {r}]
      BY <1>3, <1>4, <3>2
    <3> QED
      BY <1>5, <3>1, <3>2
  <2>2. heard' = heard \/ heard' = [heard EXCEPT ![n][f] = r.seq]
    BY <1>2
  <2>3. heard' \in [Node -> [Node -> Nat]]
    <3>1. CASE heard' = heard
      BY <1>3, <3>1
    <3>2. CASE heard' = [heard EXCEPT ![n][f] = r.seq]
      BY <1>3, <1>4, <3>2
    <3> QED
      BY <2>2, <3>1, <3>2
  <2> QED
    BY <2>1, <2>3
<1>7. \A m, g \in Node : \A q \in handling'[m][g] :
        q \in handling[m][g] \/ (m = n /\ g = f /\ q = r /\ Accepts(n, r))
  <2>1. CASE handling' = handling
    BY <2>1
  <2>2. CASE Accepts(n, r) /\ handling' = [handling EXCEPT ![n][f] = {r}]
    BY <1>3, <2>2
  <2> QED
    BY <1>5, <2>1, <2>2
<1>8. TypeOK'
  BY <1>1, <1>6 DEF Inv, TypeOK
<1>9. Sourced'
  <2>1. SUFFICES ASSUME NEW m \in Node, NEW g \in Node, NEW q \in obj[m] \cup handling'[m][g]
                 PROVE  Bare(q) \in made
    BY <1>1 DEF Sourced, Bare
  <2>2. q \in obj[m] \cup handling[m][g] \/ q = r
    BY <1>7, <2>1
  <2> QED
    BY <1>4, <2>2 DEF Inv, Sourced
<1>10. HandlingOther'
  <2>1. SUFFICES ASSUME NEW m \in Node, NEW g \in Node, NEW q \in handling'[m][g]
                 PROVE  /\ Author(q.name) # m
                        /\ q.name[1] = "data" => Known(m, Author(q.name))
    BY <1>1 DEF HandlingOther, Author, Known, Rows
  <2>2. CASE q \in handling[m][g]
    BY <2>2 DEF Inv, HandlingOther
  <2>3. CASE m = n /\ q = r /\ Accepts(n, r)
    BY <2>3, NotOwn, AcceptsKnown
  <2> QED
    BY <1>7, <2>1, <2>2, <2>3
<1>11. Bounded' /\ MadeOnce' /\ AuthorHas' /\ WritersKnown' /\ PuttingNew' /\ BasisFirst'
  BY <1>1 DEF Inv, Bounded, MadeOnce, AuthorHas, WritersKnown, PuttingNew, BasisFirst,
              Rows, Known, Fresh
<1> QED
  BY <1>8, <1>9, <1>10, <1>11 DEF Inv

\* Putting it, which makes nothing new.
LEMMA StepFinish ==
    ASSUME Inv, NEW n \in Node, NEW f \in Node, Finish(n, f)
    PROVE  Inv'
<1>1. PICK r \in handling[n][f] :
        /\ Store(n, r)
        /\ heard' = [heard EXCEPT ![n][f] = r.seq]
        /\ handling' = [handling EXCEPT ![n][f] = {}]
        /\ UNCHANGED <<putting, made, spent>>
  BY DEF Finish
<1>2. /\ r \in Row /\ r.name \in Name /\ r.pri \in Nat /\ r.val \in Content /\ r.seq \in Nat
      /\ Author(r.name) # n /\ Bare(r) \in made
      /\ r.name[1] = "data" => Known(n, Author(r.name))
  BY DEF Inv, TypeOK, Row, HandlingOther, Sourced
<1>3. /\ obj' \in [Node -> SUBSET Row]
      /\ \A m \in Node : \A p, q \in obj'[m] : p.name = q.name => p = q
      /\ Bounded' /\ Stored(n, r)
  BY <1>1, <1>2, StoreStored DEF Inv
<1>4. handling \in [Node -> [Node -> SUBSET Row]] /\ heard \in [Node -> [Node -> Nat]]
  BY DEF Inv, TypeOK
<1>5. handling' \in [Node -> [Node -> SUBSET Row]] /\ heard' \in [Node -> [Node -> Nat]]
  BY <1>1, <1>2, <1>4
<1>6. \A m, g \in Node : \A q \in handling'[m][g] : q \in handling[m][g]
  BY <1>1, <1>4
<1>7. TypeOK'
  BY <1>1, <1>3, <1>5 DEF Inv, TypeOK
<1>8. Sourced'
  <2>1. SUFFICES ASSUME NEW m \in Node, NEW g \in Node, NEW q \in obj'[m] \cup handling'[m][g]
                 PROVE  Bare(q) \in made
    BY <1>1 DEF Sourced, Bare
  <2>2. CASE q \in obj[m] \cup handling[m][g]
    BY <2>2 DEF Inv, Sourced
  <2>3. CASE q.name = r.name /\ q.pri = r.pri /\ q.val = r.val
    BY <1>2, <2>3 DEF Bare
  <2> QED
    BY <1>3, <1>6, <2>1, <2>2, <2>3 DEF Stored
<1>9. MadeOnce'
  BY <1>1 DEF Inv, MadeOnce
<1>10. AuthorHas'
  <2>1. SUFFICES ASSUME NEW q \in made
                 PROVE  (\E x \in Rows(Author(q.name), q.name) : q.pri <= x.pri)'
    BY <1>1 DEF AuthorHas, Author, Rows
  <2>2. \A p \in made : p.name = r.name /\ Author(r.name) = n => p.pri < r.pri
    BY <1>2
  <2> QED
    BY <1>2, <1>3, <2>2, AuthorKeeps DEF Inv
<1>11. \A m \in Node : \A w : Known(m, w) => Known(m, w)'
  BY <1>3, KnownStays
<1>12. PuttingNew'
  <2>1. SUFFICES ASSUME NEW m \in Node, NEW q \in putting[m]
                 PROVE  (/\ Author(q.name) = m /\ Fresh(q)
                         /\ IF q.name[1] = "data" THEN Known(m, m)
                            ELSE q.name = Writer(Owner) /\ q.pri = 0)'
    BY <1>1 DEF PuttingNew, Author, Fresh, Known, Rows, Writer
  <2>2. /\ Author(q.name) = m /\ Fresh(q)
        /\ IF q.name[1] = "data" THEN Known(m, m) ELSE q.name = Writer(Owner) /\ q.pri = 0
    BY DEF Inv, PuttingNew
  <2>3. Fresh(q)'
    BY <1>1, <2>2 DEF Fresh
  <2>4. Known(m, m) => Known(m, m)'
    BY <1>3, KnownStays
  <2> QED
    BY <2>2, <2>3, <2>4 DEF Author, Writer
<1>13. BasisFirst'
  <2>1. Rows(Owner, Basis) # {} => Rows(Owner, Basis)' # {}
    <3>1. Owner \in Node
      BY NodeAssumption
    <3> QED
      BY <1>3, <3>1 DEF Stored, Rows
  <2> QED
    BY <1>1, <2>1 DEF Inv, BasisFirst
<1>14. HandlingOther'
  <2>1. SUFFICES ASSUME NEW m \in Node, NEW g \in Node, NEW q \in handling[m][g]
                 PROVE  /\ Author(q.name) # m
                        /\ q.name[1] = "data" => Known(m, Author(q.name))'
    BY <1>6 DEF HandlingOther, Author, Known
  <2>2. Author(q.name) # m /\ (q.name[1] = "data" => Known(m, Author(q.name)))
    BY DEF Inv, HandlingOther
  <2>3. PICK w : w = Author(q.name)
    OBVIOUS
  <2>4. ASSUME Known(m, w) PROVE Known(m, w)'
    BY <1>3, <2>4, KnownStays
  <2> QED
    BY <2>2, <2>3, <2>4
<1>15. WritersKnown'
  <2>1. SUFFICES ASSUME NEW m \in Node, NEW q \in obj'[m], q.name[1] = "data"
                 PROVE  Known(m, Author(q.name))'
    BY DEF WritersKnown, Author, Known
  <2>2. PICK w : w = Author(q.name)
    OBVIOUS
  <2>3. Known(m, w)
    <3>1. CASE q \in obj[m]
      BY <2>1, <2>2, <3>1 DEF Inv, WritersKnown, Known, Author
    <3>2. CASE m = n /\ q.name = r.name
      BY <1>2, <2>1, <2>2, <3>2
    <3> QED
      BY <1>3, <3>1, <3>2 DEF Stored
  <2>4. Known(m, w)'
    BY <1>3, <2>3, KnownStays
  <2> QED
    BY <2>2, <2>4
<1> QED
  BY <1>3, <1>7, <1>8, <1>9, <1>10, <1>12, <1>13, <1>14, <1>15 DEF Inv

\* A crash only gives up what is pending.
LEMMA StepRestart ==
    ASSUME Inv, NEW n \in Node, Restart(n)
    PROVE  Inv'
<1>1. /\ handling' = [handling EXCEPT ![n] = [f \in Node |-> {}]]
      /\ putting' = [putting EXCEPT ![n] = {}]
      /\ UNCHANGED <<obj, heard, made>>
  BY DEF Restart
<1>2. /\ handling \in [Node -> [Node -> SUBSET Row]] /\ putting \in [Node -> SUBSET Record]
  BY DEF Inv, TypeOK
<1>3. /\ handling' \in [Node -> [Node -> SUBSET Row]] /\ putting' \in [Node -> SUBSET Record]
      /\ \A m, g \in Node : \A q \in handling'[m][g] : q \in handling[m][g]
      /\ \A m \in Node : \A q \in putting'[m] : q \in putting[m]
  BY <1>1, <1>2
<1>4. spent' \in [{"put", "admin", "remove", "restart"} -> Nat]
  BY DEF Restart, Inv, TypeOK
<1>5. TypeOK'
  BY <1>1, <1>3, <1>4 DEF Inv, TypeOK
<1>6. Sourced'
  BY <1>1, <1>3 DEF Inv, Sourced
<1>7. PuttingNew'
  BY <1>1, <1>3 DEF Inv, PuttingNew, Known, Rows, Fresh
<1>8. BasisFirst'
  BY <1>1, <1>3 DEF Inv, BasisFirst, Rows
<1>9. HandlingOther'
  BY <1>1, <1>3 DEF Inv, HandlingOther, Known, Rows
<1>10. Bounded' /\ MadeOnce' /\ AuthorHas' /\ WritersKnown'
  BY <1>1 DEF Inv, Bounded, MadeOnce, AuthorHas, WritersKnown, Rows
<1> QED
  BY <1>5, <1>6, <1>7, <1>8, <1>9, <1>10 DEF Inv

\* Every step keeps the invariant.
LEMMA StepInv == Inv /\ [Next]_vars => Inv'
<1> SUFFICES ASSUME Inv, [Next]_vars PROVE Inv'
  OBVIOUS
<1>1. CASE Create
  BY <1>1, StepCreate
<1>2. ASSUME NEW w \in Node, AddWriter(w) \/ RemoveWriter(w) PROVE Inv'
  BY <1>2, StepAddWriter, StepRemoveWriter
<1>3. ASSUME NEW n \in Node, NEW k \in Key, NEW v \in Value, Put(n, k, v) PROVE Inv'
  BY <1>3, StepPut
<1>4. ASSUME NEW n \in Node, NEW r \in putting[n], PutStore(n, r) PROVE Inv'
  BY <1>4, StepPutStore
<1>5. ASSUME NEW n \in Node, Restart(n) PROVE Inv'
  BY <1>5, StepRestart
<1>6. ASSUME NEW n \in Node, NEW f \in Node, Receive(n, f) \/ Finish(n, f) PROVE Inv'
  BY <1>6, StepReceive, StepFinish
<1>7. CASE UNCHANGED vars
  BY <1>7 DEF vars, Inv, TypeOK, Bounded, Sourced, MadeOnce, AuthorHas, PuttingNew, BasisFirst,
              HandlingOther, WritersKnown, Known, Rows, Fresh
<1> QED
  BY <1>1, <1>2, <1>3, <1>4, <1>5, <1>6, <1>7 DEF Next

\* The invariant holds in every behaviour.
LEMMA Invariant == Spec => []Inv
<1> QED
  BY InitInv, StepInv, PTL DEF Spec

\* Every variable has its type, and a table has one row for a name, whatever handlers
\* and calls put at once.
THEOREM TypeCorrect == Spec => []TypeOK
<1>1. Inv => TypeOK
  BY DEF Inv
<1> QED
  BY <1>1, Invariant, PTL

\* No node has data of a writer it does not know, in whatever order the records of
\* the basis, the writers and their data arrive (onData and Put look the writer up, and
\* a writer's record only ever gives way to another one).
THEOREM WritersCorrect == Spec => []WritersKnown
<1>1. Inv => WritersKnown
  BY DEF Inv
<1> QED
  BY <1>1, Invariant, PTL

-----------------------------------------------------------------------------
(* Newer versions only.                                                    *)

\* y is r's version of its name, or a newer one; m has such a one.
AtLeast(y, r) == Outranks(y, r) \/ (y.pri = r.pri /\ y.val = r.val)
Covers(m, r) == \E y \in Rows(m, r.name) : AtLeast(y, r)

\* The call that puts a new record at its author.
New(n, r) ==
    /\ Author(r.name) = n /\ Fresh(r)
    /\ Store(n, r) /\ made' = made \cup {r} /\ UNCHANGED handling

\* In a tree records come from where their author is, where versions are newer.
Downstream(hop) ==
    /\ \A n \in Node : \A x \in obj[n] :
         Author(x.name) = n \/ Covers(hop[Author(x.name)][n], x)
    /\ \A n, f \in Node : \A r \in handling[n][f] :
         f = hop[Author(r.name)][n] /\ Covers(f, r)

\* A step puts a new record, puts an accepted one, accepts one, or gives some up.
LEMMA StepKinds ==
    ASSUME Inv, [Next]_vars
    PROVE  \/ \E n \in Node, r \in Record : New(n, r)
           \/ \E n, f \in Node : Finish(n, f)
           \/ \E n, f \in Node : Receive(n, f)
           \/ /\ UNCHANGED <<obj, made>>
              /\ \A m, g \in Node : \A q \in handling'[m][g] : q \in handling[m][g]
<1>1. CASE Create
  <2> DEFINE r == [name |-> Basis, pri |-> 0, val |-> "key"]
  <2>1. Owner \in Node /\ r \in Record /\ Author(r.name) = Owner
    BY NodeAssumption, Names DEF Record, Content
  <2>2. made = {}
    BY <1>1 DEF Create, Inv, BasisFirst
  <2>3. Store(Owner, r) /\ made' = made \cup {r} /\ UNCHANGED handling
    BY <1>1 DEF Create
  <2> HIDE DEF r
  <2>4. New(Owner, r)
    BY <2>1, <2>2, <2>3 DEF New, Fresh
  <2> QED
    BY <2>1, <2>4
<1>2. ASSUME NEW w \in Node, NEW v \in {"key", "empty"}, SetWriter(w, v), UNCHANGED handling
      PROVE  \E r \in Record : New(Owner, r)
  <2>1. PICK pri : pri = Max({q.pri + 1 : q \in Rows(Owner, Writer(w))} \cup {0})
    OBVIOUS
  <2> DEFINE r == [name |-> Writer(w), pri |-> pri, val |-> v]
  <2>2. pri \in Nat /\ \A q \in made : q.name = Writer(w) => q.pri < pri
    BY <2>1, NextWriter
  <2>3. r \in Record /\ Author(r.name) = Owner /\ r.name = Writer(w) /\ r.pri = pri
    BY <2>2, Names DEF Record, Content
  <2>4. Store(Owner, r) /\ made' = made \cup {r}
    BY <1>2, <2>1 DEF SetWriter
  <2> HIDE DEF r
  <2>5. New(Owner, r)
    BY <1>2, <2>2, <2>3, <2>4 DEF New, Fresh
  <2> QED
    BY <2>3, <2>5
<1>3. ASSUME NEW w \in Node, AddWriter(w) \/ RemoveWriter(w)
      PROVE  \E n \in Node, r \in Record : New(n, r)
  <2>1. UNCHANGED handling /\ \E v \in {"key", "empty"} : SetWriter(w, v)
    BY <1>3 DEF AddWriter, RemoveWriter
  <2> QED
    BY <1>2, <2>1, NodeAssumption
<1>4. ASSUME NEW n \in Node, NEW r \in putting[n], PutStore(n, r)
      PROVE  r \in Record /\ New(n, r)
  BY <1>4 DEF PutStore, Inv, TypeOK, PuttingNew, New
<1>5. ASSUME NEW n \in Node, NEW k \in Key, NEW v \in Value, Put(n, k, v)
      PROVE  UNCHANGED <<obj, made, handling>>
  BY <1>5 DEF Put
<1>6. ASSUME NEW n \in Node, Restart(n)
      PROVE  /\ UNCHANGED <<obj, made>>
             /\ \A m, g \in Node : \A q \in handling'[m][g] : q \in handling[m][g]
  <2>1. handling' = [handling EXCEPT ![n] = [f \in Node |-> {}]] /\ UNCHANGED <<obj, made>>
    BY <1>6 DEF Restart
  <2>2. handling \in [Node -> [Node -> SUBSET Row]]
    BY DEF Inv, TypeOK
  <2> QED
    BY <2>1, <2>2
<1>7. CASE UNCHANGED vars
  BY <1>7 DEF vars
<1> QED
  BY <1>1, <1>3, <1>4, <1>5, <1>6, <1>7 DEF Next

\* A new record is newer than what its author has.
LEMMA NewIsNewer ==
    ASSUME Inv, NEW n \in Node, NEW r \in Record, New(n, r)
    PROVE  Newer(n, r) /\ r \notin made
<1>1. ASSUME NEW q \in Rows(n, r.name) PROVE Outranks(r, q)
  <2>1. Bare(q) \in made /\ q.name = r.name
    BY DEF Inv, Sourced, Rows
  <2>2. q.pri < r.pri
    BY <2>1, BareParts DEF New, Fresh
  <2>3. q.pri \in Nat /\ r.pri \in Nat
    BY DEF Inv, TypeOK, Row, Rows, Record
  <2> QED
    BY <2>2, <2>3 DEF Outranks
<1>2. r \notin made
  BY DEF New, Fresh, Record
<1> QED
  BY <1>1, <1>2 DEF Newer

\* What was accepted stays news when no other handler puts a record of its name.
LEMMA StepNewer ==
    ASSUME Inv, HandlingNewer, NoRace, [Next]_vars
    PROVE  HandlingNewer'
<1>1. SUFFICES ASSUME NEW m \in Node, NEW g \in Node, NEW q \in handling'[m][g]
               PROVE  Newer(m, q)'
  BY DEF HandlingNewer, Newer, Rows, Outranks
<1>2. ASSUME q \in handling[m][g],
             \A x \in obj'[m] : x.name = q.name => x \in obj[m]
      PROVE  Newer(m, q)'
  BY <1>2 DEF HandlingNewer, Newer, Rows, Outranks
<1>3. ASSUME NEW n \in Node, NEW r \in Record, New(n, r) PROVE Newer(m, q)'
  <2>1. Stored(n, r)
    BY <1>3, StoreStored DEF Inv, New, Record
  <2>2. q \in handling[m][g] /\ Author(q.name) # m /\ Author(r.name) = n
    BY <1>1, <1>3 DEF New, Inv, HandlingOther
  <2>3. \A x \in obj'[m] : x.name = q.name => x \in obj[m]
    BY <2>1, <2>2 DEF Stored
  <2> QED
    BY <1>2, <2>2, <2>3
<1>4. ASSUME NEW n \in Node, NEW f \in Node, Finish(n, f) PROVE Newer(m, q)'
  <2>1. PICK r \in handling[n][f] :
          Store(n, r) /\ handling' = [handling EXCEPT ![n][f] = {}]
    BY <1>4 DEF Finish
  <2>2. handling \in [Node -> [Node -> SUBSET Row]]
    BY DEF Inv, TypeOK
  <2>3. q \in handling[m][g] /\ ~(m = n /\ g = f)
    BY <1>1, <2>1, <2>2
  <2>4. r.name \in Name /\ r.pri \in Nat /\ r.val \in Content
    BY <2>2 DEF Row
  <2>5. Stored(n, r)
    BY <2>1, <2>4, StoreStored DEF Inv
  <2>6. m = n => q.name # r.name
    BY <2>3 DEF NoRace
  <2>7. \A x \in obj'[m] : x.name = q.name => x \in obj[m]
    BY <2>5, <2>6 DEF Stored
  <2> QED
    BY <1>2, <2>3, <2>7
<1>5. ASSUME NEW n \in Node, NEW f \in Node, Receive(n, f) PROVE Newer(m, q)'
  <2>1. PICK r \in obj[f] :
          /\ UNCHANGED obj
          /\ IF Accepts(n, r)
             THEN handling' = [handling EXCEPT ![n][f] = {r}]
             ELSE UNCHANGED handling
    BY <1>5 DEF Receive
  <2>2. handling \in [Node -> [Node -> SUBSET Row]]
    BY DEF Inv, TypeOK
  <2>3. CASE q \in handling[m][g]
    BY <1>2, <2>1, <2>3
  <2>4. CASE q \notin handling[m][g]
    <3>1. Accepts(n, r) /\ handling' = [handling EXCEPT ![n][f] = {r}]
      BY <1>1, <2>1, <2>4
    <3>2. m = n /\ q = r
      BY <1>1, <2>2, <2>4, <3>1
    <3>3. r.name \in Name
      BY DEF Inv, TypeOK, Row
    <3>4. Newer(n, r)
      BY <3>1, <3>3, Names DEF Accepts, Newer
    <3> QED
      BY <2>1, <3>2, <3>4 DEF Newer, Rows, Outranks
  <2> QED
    BY <2>3, <2>4
<1>6. ASSUME UNCHANGED <<obj, made>>,
             \A i, j \in Node : \A p \in handling'[i][j] : p \in handling[i][j]
      PROVE  Newer(m, q)'
  BY <1>1, <1>2, <1>6
<1> QED
  BY <1>3, <1>4, <1>5, <1>6, StepKinds

\* Versions of records are ordered.
LEMMA Transitive ==
    ASSUME NEW x, NEW y, NEW z,
           x.pri \in Nat, x.val \in Content, y.pri \in Nat, y.val \in Content,
           z.pri \in Nat, z.val \in Content, Outranks(x, y), AtLeast(y, z)
    PROVE  Outranks(x, z)
<1>1. ValueRank(x.val) \in Nat /\ ValueRank(y.val) \in Nat /\ ValueRank(z.val) \in Nat
  BY ValueRanks
<1>2. CASE y.pri = z.pri /\ y.val = z.val
  BY <1>2 DEF Outranks
<1>3. CASE Outranks(y, z)
  BY <1>1, <1>3 DEF Outranks
<1> QED
  BY <1>2, <1>3 DEF AtLeast

\* A table that takes only newer versions covers what it covered.
LEMMA CoversStays ==
    ASSUME Inv, NEW n \in Node, NEW r, r.pri \in Nat, r.val \in Content,
           Stored(n, r), Newer(n, r), NEW m \in Node,
           NEW x, x.pri \in Nat, x.val \in Content, Covers(m, x)
    PROVE  \E y \in obj'[m] : y.name = x.name /\ AtLeast(y, x)
<1>1. PICK y \in obj[m] : y.name = x.name /\ AtLeast(y, x)
  BY DEF Covers, Rows
<1>2. CASE y \in obj'[m]
  BY <1>1, <1>2
<1>3. CASE m = n /\ y.name = r.name
  <2>1. Outranks(r, y) /\ y.pri \in Nat /\ y.val \in Content
    BY <1>1, <1>3 DEF Newer, Rows, Inv, TypeOK, Row
  <2>2. Outranks(r, x)
    BY <1>1, <2>1, Transitive
  <2>3. PICK z \in obj'[n] : z.name = r.name /\ z.pri = r.pri /\ z.val = r.val
    BY DEF Stored
  <2>4. AtLeast(z, x)
    BY <2>2, <2>3 DEF AtLeast, Outranks
  <2> QED
    BY <1>1, <1>3, <2>3, <2>4
<1> QED
  BY <1>1, <1>2, <1>3 DEF Stored

\* Putting a newer version keeps what is downstream of what.
LEMMA StoreDownstream ==
    ASSUME Inv, NEW hop, Tree(hop), Downstream(hop),
           NEW n \in Node, NEW r, r.name \in Name, r.pri \in Nat, r.val \in Content,
           Store(n, r), Newer(n, r),
           Author(r.name) = n \/ Covers(hop[Author(r.name)][n], r),
           \A m, g \in Node : \A q \in handling'[m][g] : q \in handling[m][g]
    PROVE  Downstream(hop)'
<1>1. Stored(n, r)
  BY StoreStored DEF Inv
<1>2. ASSUME NEW m \in Node, NEW x, x.pri \in Nat, x.val \in Content, Covers(m, x)
      PROVE  \E y \in obj'[m] : y.name = x.name /\ AtLeast(y, x)
  BY <1>1, <1>2, CoversStays
<1>3. /\ \A w, m \in Node : hop[w][m] \in Node
      /\ \A name \in Name : Author(name) \in Node
  BY Names DEF Tree
<1>4. ASSUME NEW m \in Node, NEW x \in obj'[m]
      PROVE  Author(x.name) = m \/ Covers(hop[Author(x.name)][m], x)'
  <2>1. CASE x \in obj[m]
    <3>1. x.name \in Name /\ x.pri \in Nat /\ x.val \in Content
      BY <2>1 DEF Inv, TypeOK, Row
    <3>2. Author(x.name) = m \/ Covers(hop[Author(x.name)][m], x)
      BY <2>1 DEF Downstream
    <3>3. PICK h \in Node : h = hop[Author(x.name)][m]
      BY <1>3, <3>1
    <3>4. Covers(h, x) => \E y \in obj'[h] : y.name = x.name /\ AtLeast(y, x)
      BY <1>2, <3>1
    <3> QED
      BY <3>2, <3>3, <3>4 DEF Covers, Rows, AtLeast, Outranks
  <2>2. CASE m = n /\ x.name = r.name /\ x.pri = r.pri /\ x.val = r.val
    <3>1. PICK h \in Node : h = hop[Author(r.name)][n]
      BY <1>3
    <3>2. Covers(h, r) => \E y \in obj'[h] : y.name = r.name /\ AtLeast(y, r)
      BY <1>2
    <3>3. \A y : AtLeast(y, r) => AtLeast(y, x)
      BY <2>2 DEF AtLeast, Outranks
    <3> QED
      BY <2>2, <3>1, <3>2, <3>3 DEF Covers, Rows, AtLeast, Outranks
  <2> QED
    BY <1>1, <1>4, <2>1, <2>2 DEF Stored
<1>5. ASSUME NEW m \in Node, NEW g \in Node, NEW q \in handling'[m][g]
      PROVE  g = hop[Author(q.name)][m] /\ Covers(g, q)'
  <2>1. q \in handling[m][g]
    BY <1>5
  <2>2. q.pri \in Nat /\ q.val \in Content
    BY <2>1 DEF Inv, TypeOK, Row
  <2>3. g = hop[Author(q.name)][m] /\ Covers(g, q)
    BY <2>1 DEF Downstream
  <2>4. \E y \in obj'[g] : y.name = q.name /\ AtLeast(y, q)
    BY <1>2, <2>2, <2>3
  <2> QED
    BY <2>3, <2>4 DEF Covers, Rows, AtLeast, Outranks
<1> QED
  BY <1>4, <1>5 DEF Downstream, Author

\* What a node has is no news downstream of it.
LEMMA CoveredNotNews ==
    ASSUME Inv, NEW n \in Node, NEW r, r.name \in Name, r.pri \in Nat, r.val \in Content,
           Covers(n, r)
    PROVE  ~Accepts(n, r)
<1> SUFFICES ASSUME Accepts(n, r) PROVE FALSE
  OBVIOUS
<1>1. PICK y \in obj[n] : y.name = r.name /\ AtLeast(y, r)
  BY DEF Covers, Rows
<1>2. CASE r.name[1] = "basis"
  BY <1>1, <1>2, Names DEF Accepts, Rows
<1>3. CASE r.name[1] # "basis"
  <2>1. Outranks(r, y)
    BY <1>1, <1>3 DEF Accepts, Newer, Rows
  <2>2. y.pri \in Nat /\ y.val \in Content
    BY DEF Inv, TypeOK, Row
  <2>3. Outranks(r, r)
    BY <1>1, <2>1, <2>2, Transitive
  <2>4. ValueRank(r.val) \in Nat
    BY ValueRanks
  <2> QED
    BY <2>3, <2>4 DEF Outranks
<1> QED
  BY <1>2, <1>3

\* Records do not go back to where they come from.
LEMMA StepDownstream ==
    ASSUME Inv, HandlingNewer, NEW hop, Tree(hop), Downstream(hop), [Next]_vars
    PROVE  Downstream(hop)'
<1>1. ASSUME NEW n \in Node, NEW r \in Record, New(n, r) PROVE Downstream(hop)'
  <2>1. Newer(n, r)
    BY <1>1, NewIsNewer
  <2>2. /\ r.name \in Name /\ r.pri \in Nat /\ r.val \in Content
        /\ Store(n, r) /\ Author(r.name) = n /\ handling' = handling
    BY <1>1 DEF New, Record
  <2>3. \A m, g \in Node : \A q \in handling'[m][g] : q \in handling[m][g]
    BY <2>2
  <2> QED
    BY <2>1, <2>2, <2>3, StoreDownstream
<1>2. ASSUME NEW n \in Node, NEW f \in Node, Finish(n, f) PROVE Downstream(hop)'
  <2>1. PICK r \in handling[n][f] :
          Store(n, r) /\ handling' = [handling EXCEPT ![n][f] = {}]
    BY <1>2 DEF Finish
  <2>2. handling \in [Node -> [Node -> SUBSET Row]]
    BY DEF Inv, TypeOK
  <2>3. \A m, g \in Node : \A q \in handling'[m][g] : q \in handling[m][g]
    BY <2>1, <2>2
  <2>4. r.name \in Name /\ r.pri \in Nat /\ r.val \in Content
    BY <2>2 DEF Row
  <2>5. Newer(n, r)
    BY DEF HandlingNewer
  <2>6. Covers(hop[Author(r.name)][n], r)
    BY DEF Downstream
  <2> QED
    BY <2>1, <2>3, <2>4, <2>5, <2>6, StoreDownstream
<1>3. ASSUME NEW n \in Node, NEW f \in Node, Receive(n, f) PROVE Downstream(hop)'
  <2>1. PICK r \in obj[f] :
          /\ <<n, f>> \in Friends /\ UNCHANGED obj
          /\ IF Accepts(n, r)
             THEN handling' = [handling EXCEPT ![n][f] = {r}]
             ELSE UNCHANGED handling
    BY <1>3 DEF Receive
  <2>2. handling \in [Node -> [Node -> SUBSET Row]]
    BY DEF Inv, TypeOK
  <2>3. r.name \in Name /\ r.pri \in Nat /\ r.val \in Content /\ Author(r.name) \in Node
    BY Names DEF Inv, TypeOK, Row
  <2>4. Covers(f, r)
    BY DEF Covers, Rows, AtLeast
  <2>5. ASSUME Accepts(n, r) PROVE f = hop[Author(r.name)][n]
    <3>1. PICK w \in Node : w = Author(r.name)
      BY <2>3
    <3>2. w # n
      BY <2>5, <3>1, NotOwn
    <3>3. hop[w][n] = f \/ hop[w][f] = n
      BY <2>1 DEF Tree
    <3>4. ASSUME hop[w][f] = n, w # f PROVE FALSE
      <4>1. Covers(n, r)
        BY <3>1, <3>4 DEF Downstream
      <4> QED
        BY <2>3, <2>5, <4>1, CoveredNotNews
    <3>5. hop[w][w] = w
      BY DEF Tree
    <3> QED
      BY <3>1, <3>2, <3>3, <3>4, <3>5
  <2>6. ASSUME NEW m \in Node, NEW g \in Node, NEW q \in handling'[m][g]
        PROVE  g = hop[Author(q.name)][m] /\ Covers(g, q)
    <3>1. CASE q \in handling[m][g]
      BY <3>1 DEF Downstream
    <3>2. CASE q \notin handling[m][g]
      <4>1. Accepts(n, r) /\ handling' = [handling EXCEPT ![n][f] = {r}]
        BY <2>1, <2>6, <3>2
      <4>2. m = n /\ g = f /\ q = r
        BY <2>2, <2>6, <3>2, <4>1
      <4> QED
        BY <2>4, <2>5, <4>1, <4>2
    <3> QED
      BY <3>1, <3>2
  <2> QED
    BY <2>1, <2>6 DEF Downstream, Covers, Rows, AtLeast, Outranks
<1>4. ASSUME UNCHANGED <<obj, made>>,
             \A i, j \in Node : \A p \in handling'[i][j] : p \in handling[i][j]
      PROVE  Downstream(hop)'
  BY <1>4 DEF Downstream, Covers, Rows, AtLeast, Outranks
<1> QED
  BY <1>1, <1>2, <1>3, <1>4, StepKinds

\* In a tree no two friends bring records of one name.
LEMMA TreeNoRace ==
    ASSUME NEW hop, Downstream(hop)
    PROVE  NoRace
BY DEF Downstream, NoRace, Author

-----------------------------------------------------------------------------
(* The register.                                                           *)

\* Putting a newer version is taking it.
LEMMA StoreTakes ==
    ASSUME Inv, NEW n \in Node, NEW r, r.name \in Name, r.pri \in Nat, r.val \in Content,
           Store(n, r), Newer(n, r)
    PROVE  Reg!Take(n, Bare(r))
<1> DEFINE has == [m \in Node |-> {Bare(q) : q \in obj[m]}]
           old == {q \in has[n] : q.name = Bare(r).name}
<1>1. PICK x \in Row :
        /\ x.name = r.name /\ x.pri = r.pri /\ x.val = r.val
        /\ obj' = [obj EXCEPT ![n] = (obj[n] \ Rows(n, r.name)) \cup {x}]
  BY StoreRow DEF Inv
<1>2. obj \in [Node -> SUBSET Row]
  BY DEF Inv, TypeOK
<1>3. Bare(x) = Bare(r) /\ Bare(r).name = r.name /\ Bare(r).pri = r.pri /\ Bare(r).val = r.val
  BY <1>1, BareParts DEF Bare
<1>4. /\ obj'[n] = (obj[n] \ Rows(n, r.name)) \cup {x}
      /\ \A m \in Node : m # n => obj'[m] = obj[m]
  BY <1>1, <1>2
<1>5. \A q \in obj[n] : q \in Rows(n, r.name) <=> Bare(q).name = r.name
  BY BareParts DEF Rows
<1>6. has[n] = {Bare(q) : q \in obj[n]}
  OBVIOUS
<1>7. {Bare(q) : q \in obj'[n]} = (has[n] \ old) \cup {Bare(r)}
  <2>1. ASSUME NEW b \in {Bare(q) : q \in obj'[n]} PROVE b \in (has[n] \ old) \cup {Bare(r)}
    <3>1. PICK q \in obj'[n] : b = Bare(q)
      BY <2>1
    <3>2. CASE q = x
      BY <1>3, <3>1, <3>2
    <3>3. CASE q \in obj[n] /\ q \notin Rows(n, r.name)
      <4>1. Bare(q) \in has[n] /\ Bare(q).name # r.name
        BY <1>5, <1>6, <3>3
      <4> QED
        BY <1>3, <3>1, <4>1
    <3> QED
      BY <1>4, <3>1, <3>2, <3>3
  <2>2. ASSUME NEW b \in (has[n] \ old) \cup {Bare(r)} PROVE b \in {Bare(q) : q \in obj'[n]}
    <3>1. CASE b = Bare(r)
      BY <1>3, <1>4, <3>1
    <3>2. CASE b \in has[n] /\ b \notin old
      <4>1. PICK q \in obj[n] : b = Bare(q)
        BY <1>6, <3>2
      <4>2. q \notin Rows(n, r.name)
        BY <1>3, <1>5, <3>2, <4>1
      <4> QED
        BY <1>4, <4>1, <4>2
    <3> QED
      BY <2>2, <3>1, <3>2
  <2> QED
    BY <2>1, <2>2
<1>8. [m \in Node |-> {Bare(q) : q \in obj'[m]}]
        = [has EXCEPT ![n] = (has[n] \ old) \cup {Bare(r)}]
  <2>1. \A m \in Node : m # n => {Bare(q) : q \in obj'[m]} = has[m]
    BY <1>4
  <2> QED
    BY <1>7, <2>1
<1>9. \A q \in old : Reg!Outranks(Bare(r), q)
  <2>1. SUFFICES ASSUME NEW q \in old PROVE Reg!Outranks(Bare(r), q)
    OBVIOUS
  <2>2. PICK y \in obj[n] : q = Bare(y)
    BY <1>6, <2>1
  <2>3. y \in Rows(n, r.name)
    BY <1>3, <1>5, <2>1, <2>2
  <2>4. Outranks(r, y)
    BY <2>3 DEF Newer
  <2>5. q.pri = y.pri /\ q.val = y.val
    BY <2>2, BareParts
  <2> QED
    BY <1>3, <2>4, <2>5 DEF Outranks, Reg!Outranks
<1> QED
  BY <1>8, <1>9 DEF Reg!Take, Bare

\* A new record is a version that is made.
LEMMA NewMakes ==
    ASSUME Inv, NEW n \in Node, NEW r \in Record, New(n, r)
    PROVE  Reg!Next
<1>1. Newer(n, r) /\ r \notin made
  BY NewIsNewer
<1>2. /\ r.name \in Name /\ r.pri \in Nat /\ r.val \in Content
      /\ Store(n, r) /\ made' = made \cup {r} /\ Fresh(r) /\ Bare(r) = r
  BY BareParts DEF New, Record
<1>3. Reg!Take(n, Bare(r))
  BY <1>1, <1>2, StoreTakes
<1>4. r \in Reg!Version
  BY DEF Reg!Version, Record
<1>5. Reg!Make(n, r)
  BY <1>2, <1>3, <1>4 DEF Reg!Make, Fresh
<1>6. r \in made' \ made
  BY <1>1, <1>2
<1> QED
  BY <1>5, <1>6 DEF Reg!Next

\* An accepted record that is still news is a version that is learnt.
LEMMA FinishLearns ==
    ASSUME Inv, HandlingNewer, NEW n \in Node, NEW f \in Node, Finish(n, f)
    PROVE  Reg!Next
<1>1. PICK r \in handling[n][f] : Store(n, r) /\ UNCHANGED made
  BY DEF Finish
<1>2. /\ r.name \in Name /\ r.pri \in Nat /\ r.val \in Content
      /\ Bare(r) \in made /\ Newer(n, r)
  BY DEF Inv, TypeOK, Row, Sourced, HandlingNewer
<1>3. Reg!Take(n, Bare(r))
  BY <1>1, <1>2, StoreTakes
<1> QED
  BY <1>1, <1>2, <1>3 DEF Reg!Learn, Reg!Next

\* Steps that put nothing change nothing there.
LEMMA OthersStutter ==
    ASSUME UNCHANGED <<obj, made>>
    PROVE  UNCHANGED Reg!vars
BY DEF Reg!vars

\* Every step of Meta is one of the register.
LEMMA StepRegister ==
    ASSUME Inv, HandlingNewer, [Next]_vars
    PROVE  [Reg!Next]_(Reg!vars)
<1>1. ASSUME NEW n \in Node, NEW r \in Record, New(n, r) PROVE Reg!Next
  BY <1>1, NewMakes
<1>2. ASSUME NEW n \in Node, NEW f \in Node, Finish(n, f) PROVE Reg!Next
  BY <1>2, FinishLearns
<1>3. ASSUME NEW n \in Node, NEW f \in Node, Receive(n, f) PROVE UNCHANGED Reg!vars
  BY <1>3, OthersStutter DEF Receive
<1>4. ASSUME UNCHANGED <<obj, made>> PROVE UNCHANGED Reg!vars
  BY <1>4, OthersStutter
<1> QED
  BY <1>1, <1>2, <1>3, <1>4, StepKinds

\* In the beginning nobody has a version.
LEMMA InitRegister == Init => Reg!Init
BY DEF Init, Reg!Init

\* Every table is a register of the versions that were made, as long as no two handlers
\* of a node are about to put records of one name: verifyUpdate compares what it found
\* before the lock, and the later Put does not compare again.
THEOREM RegisterImplemented == Spec /\ []NoRace => ImplementsRegister
<1>1. Init => HandlingNewer
  BY DEF Init, HandlingNewer
<1>2. Inv /\ HandlingNewer /\ NoRace /\ [Next]_vars => HandlingNewer'
  BY StepNewer
<1>3. Inv /\ HandlingNewer /\ [Next]_vars => [Reg!Next]_(Reg!vars)
  BY StepRegister
<1> QED
  BY <1>1, <1>2, <1>3, Invariant, InitRegister, PTL DEF Spec, ImplementsRegister, Reg!Spec

\* In a tree of friends there is no such race: a record comes from one of them only, and
\* a node that sends a record back has an older version.
THEOREM TreeRegister ==
    ASSUME NEW hop, Tree(hop)
    PROVE  Spec => [](NoRace /\ HandlingNewer) /\ ImplementsRegister
<1>1. Init => HandlingNewer /\ Downstream(hop)
  BY DEF Init, HandlingNewer, Downstream
<1>2. Downstream(hop) => NoRace
  BY TreeNoRace
<1>3. Inv /\ HandlingNewer /\ NoRace /\ [Next]_vars => HandlingNewer'
  BY StepNewer
<1>4. Inv /\ HandlingNewer /\ Downstream(hop) /\ [Next]_vars => Downstream(hop)'
  BY StepDownstream
<1>5. Spec => [](Inv /\ HandlingNewer /\ Downstream(hop))
  BY <1>1, <1>2, <1>3, <1>4, Invariant, PTL DEF Spec
<1> QED
  BY <1>2, <1>5, RegisterImplemented, PTL
=============================================================================
