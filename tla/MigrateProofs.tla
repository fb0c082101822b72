---------------------------- MODULE MigrateProofs ----------------------------
(***************************************************************************)
(* Theorems about Migrate, for all schemas that are as its assumptions     *)
(* say, any releases, starts, crashes and failures to commit.              *)
(***************************************************************************)
EXTENDS Migrate, NaturalsInduction, SequenceTheorems, WellFoundedInduction, TLAPS

-----------------------------------------------------------------------------
(* Statements one after the other.                                         *)

\* A set of numbers that begins at a and goes on up to b has them all.
LEMMA Counting ==
    ASSUME NEW a \in Int, NEW b \in Int, NEW S, a \in S,
           \A i \in a .. b - 1 : i \in S => i + 1 \in S
    PROVE  a .. b \subseteq S
<1> DEFINE B == {d \in Nat : a + d <= b /\ a + d \notin S}
           R == {ss \in Nat \X Nat : ss[1] < ss[2]}
<1>1. IsWellFoundedOn(R, Nat)
  BY NatLessThanWellFounded, Zenon DEF OpToRel
<1>2. SUFFICES ASSUME B # {} PROVE FALSE
  <2>1. ASSUME NEW i \in a .. b, B = {} PROVE i \in S
    <3>1. PICK d \in Nat : d = i - a
      OBVIOUS
    <3>2. a + d = i /\ a + d <= b
      BY <3>1
    <3>3. d \notin B
      BY <2>1
    <3> QED
      BY <3>2, <3>3
  <2> QED
    BY <2>1
<1>3. PICK d \in B : \A y \in B : <<y, d>> \notin R
  <2>1. B \subseteq Nat
    OBVIOUS
  <2> HIDE DEF B, R
  <2> QED
    BY <1>1, <1>2, <2>1, WFMin
<1>4. d # 0
  OBVIOUS
<1>5. d - 1 \in Nat /\ d - 1 < d /\ a + (d - 1) \in a .. b - 1
  BY <1>4
<1>6. d - 1 \notin B
  BY <1>3, <1>5
<1>7. a + (d - 1) \in S
  BY <1>5, <1>6
<1>8. a + (d - 1) + 1 \in S /\ a + (d - 1) + 1 = a + d
  BY <1>5, <1>7
<1> QED
  BY <1>8

\* What Ran is defined by.
LEMMA RanDef ==
    ASSUME NEW D, NEW q, Len(q) \in Nat
    PROVE  Ran(D, q) = [i \in 0 .. Len(q) |-> IF i = 0 THEN D ELSE Exec(Ran(D, q)[i - 1], q[i])]
<1> DEFINE Is(g, n) == g = [i \in 0 .. n |-> IF i = 0 THEN D ELSE Exec(g[i - 1], q[i])]
           S == {n \in Nat : \E g : Is(g, n)}
<1>1. 0 \in S
  <2>1. Is([i \in 0 .. 0 |-> D], 0)
    OBVIOUS
  <2> QED
    BY <2>1
<1>2. ASSUME NEW n \in 0 .. Len(q) - 1, n \in S PROVE n + 1 \in S
  <2>1. PICK g : Is(g, n)
    BY <1>2
  <2> DEFINE h == [i \in 0 .. n + 1 |-> IF i = 0 THEN D ELSE Exec(g[i - 1], q[i])]
  <2>2. \A i \in 0 .. n : h[i] = g[i]
    BY <2>1
  <2>3. Is(h, n + 1)
    <3>1. \A i \in 0 .. n + 1 : i # 0 => i - 1 \in 0 .. n
      OBVIOUS
    <3> QED
      BY <2>2, <3>1
  <2>4. n + 1 \in Nat
    OBVIOUS
  <2> HIDE DEF Is, h
  <2> QED
    BY <2>3, <2>4
<1>3. Len(q) \in S
  <2>1. Len(q) \in 0 .. Len(q) /\ 0 \in Int /\ Len(q) \in Int
    OBVIOUS
  <2> HIDE DEF S
  <2>2. 0 .. Len(q) \subseteq S
    BY <1>1, <1>2, <2>1, Counting
  <2> QED
    BY <2>1, <2>2
<1>4. \E g : Is(g, Len(q))
  BY <1>3
<1>5. Ran(D, q) = CHOOSE g : Is(g, Len(q))
  BY Zenon DEF Ran
<1>6. Is(Ran(D, q), Len(q))
  <2> HIDE DEF Is
  <2> QED
    BY <1>4, <1>5
<1> QED
  BY <1>6

\* The first step of a run, and every other one.
LEMMA RanSteps ==
    ASSUME NEW D, NEW q, Len(q) \in Nat
    PROVE  /\ Ran(D, q)[0] = D
           /\ \A i \in 1 .. Len(q) : Ran(D, q)[i] = Exec(Ran(D, q)[i - 1], q[i])
<1> DEFINE g == Ran(D, q)
<1>1. g = [i \in 0 .. Len(q) |-> IF i = 0 THEN D ELSE Exec(g[i - 1], q[i])]
  BY RanDef
<1>2. 0 \in 0 .. Len(q) /\ \A i \in 1 .. Len(q) : i \in 0 .. Len(q) /\ i # 0
  OBVIOUS
<1> HIDE DEF g
<1>3. g[0] = D /\ \A i \in 1 .. Len(q) : g[i] = Exec(g[i - 1], q[i])
  BY <1>1, <1>2
<1> QED
  BY <1>3 DEF g

\* What Migrated is defined by.
LEMMA MigratedDef ==
    ASSUME NEW D, NEW s, NEW v \in Nat, v <= Newest(s), Newest(s) \in Nat
    PROVE  Migrated(D, s, v) =
             [k \in v .. Newest(s) |->
               IF k = v THEN D
               ELSE Ran(Migrated(D, s, v)[k - 1], Steps(s, k))[Len(Steps(s, k))]]
<1> DEFINE Do(E, k) == Ran(E, Steps(s, k))[Len(Steps(s, k))]
           Is(g, n) == g = [k \in v .. n |-> IF k = v THEN D ELSE Do(g[k - 1], k)]
           S == {n \in Nat : \E g : Is(g, n)}
<1> HIDE DEF Do
<1>1. v \in S
  <2>1. Is([k \in v .. v |-> D], v)
    OBVIOUS
  <2> HIDE DEF Is
  <2> QED
    BY <2>1
<1>2. ASSUME NEW n \in v .. Newest(s) - 1, n \in S PROVE n + 1 \in S
  <2>1. PICK g : Is(g, n)
    BY <1>2
  <2> DEFINE h == [k \in v .. n + 1 |-> IF k = v THEN D ELSE Do(g[k - 1], k)]
  <2>2. \A k \in v .. n : h[k] = g[k]
    BY <2>1
  <2>3. Is(h, n + 1)
    <3>1. \A k \in v .. n + 1 : k # v => k - 1 \in v .. n
      OBVIOUS
    <3> QED
      BY <2>2, <3>1
  <2>4. n + 1 \in Nat
    OBVIOUS
  <2> HIDE DEF Is, h
  <2> QED
    BY <2>3, <2>4
<1>3. Newest(s) \in S
  <2>1. Newest(s) \in v .. Newest(s) /\ v \in Int /\ Newest(s) \in Int
    OBVIOUS
  <2> HIDE DEF S
  <2>2. v .. Newest(s) \subseteq S
    BY <1>1, <1>2, <2>1, Counting
  <2> QED
    BY <2>1, <2>2
<1>4. \E g : Is(g, Newest(s))
  BY <1>3
<1>5. Migrated(D, s, v) = CHOOSE g : Is(g, Newest(s))
  BY Zenon DEF Migrated, Do
<1>6. Is(Migrated(D, s, v), Newest(s))
  <2> HIDE DEF Is
  <2> QED
    BY <1>4, <1>5
<1> QED
  BY <1>6 DEF Do

\* The first file of a series of migrations, and every other one.
LEMMA MigratedSteps ==
    ASSUME NEW D, NEW s, NEW v \in Nat, v <= Newest(s), Newest(s) \in Nat
    PROVE  /\ Migrated(D, s, v)[v] = D
           /\ \A k \in v + 1 .. Newest(s) :
                Migrated(D, s, v)[k] = Ran(Migrated(D, s, v)[k - 1], Steps(s, k))[Len(Steps(s, k))]
<1> DEFINE Do(E, k) == Ran(E, Steps(s, k))[Len(Steps(s, k))]
           g == Migrated(D, s, v)
<1>1. g = [k \in v .. Newest(s) |-> IF k = v THEN D ELSE Do(g[k - 1], k)]
  BY MigratedDef
<1>2. v \in v .. Newest(s) /\ \A k \in v + 1 .. Newest(s) : k \in v .. Newest(s) /\ k # v
  OBVIOUS
<1> HIDE DEF g, Do
<1>3. g[v] = D /\ \A k \in v + 1 .. Newest(s) : g[k] = Do(g[k - 1], k)
  BY <1>1, <1>2
<1> QED
  BY <1>3 DEF g, Do

-----------------------------------------------------------------------------
(* What the statements of a schema do to a file.                           *)

\* The file is given version k.
LEMMA ExecVersion ==
    ASSUME NEW D, D.used = TRUE, NEW k
    PROVE  Exec(D, Version(k)) = [things |-> D.things, version |-> k, used |-> TRUE]
BY DEF Exec, Version

\* The statements of a schema leave the version alone, ...
LEMMA RanVersion ==
    ASSUME NEW D, NEW q, Len(q) \in Nat, NEW m \in 0 .. Len(q),
           \A i \in 1 .. m : q[i].do # "version"
    PROVE  Ran(D, q)[m].version = D.version
<1> DEFINE S == {i \in Nat : Ran(D, q)[i].version = D.version}
<1>1. 0 \in S
  BY RanSteps
<1>2. ASSUME NEW i \in 0 .. m - 1, i \in S PROVE i + 1 \in S
  <2>1. i + 1 \in 1 .. m /\ i + 1 \in 1 .. Len(q) /\ i + 1 \in Nat /\ (i + 1) - 1 = i
    OBVIOUS
  <2>2. PICK E, st : E = Ran(D, q)[i] /\ st = q[i + 1]
    OBVIOUS
  <2>3. Ran(D, q)[i + 1] = Exec(E, st) /\ st.do # "version"
    BY <2>1, <2>2, RanSteps
  <2>4. Exec(E, st).version = E.version
    BY <2>3 DEF Exec
  <2> QED
    BY <1>2, <2>1, <2>2, <2>3, <2>4
<1>3. 0 .. m \subseteq S
  <2>1. m \in Int /\ 0 \in Int
    OBVIOUS
  <2> HIDE DEF S
  <2> QED
    BY <1>1, <1>2, <2>1, Counting
<1> QED
  BY <1>3

\* ... and the file is used.
LEMMA RanUsed ==
    ASSUME NEW D, NEW q, Len(q) \in Nat, NEW m \in 1 .. Len(q),
           \A i \in 1 .. m : q[i].do # "version"
    PROVE  Ran(D, q)[m].used = TRUE
<1>1. m \in 1 .. Len(q) /\ q[m].do # "version"
  OBVIOUS
<1>2. Ran(D, q)[m] = Exec(Ran(D, q)[m - 1], q[m])
  BY RanSteps
<1>3. PICK E, st : E = Ran(D, q)[m - 1] /\ st = q[m]
  OBVIOUS
<1> QED
  <2>1. Exec(E, st).used = TRUE
    BY <1>1, <1>3 DEF Exec
  <2> QED
    BY <1>2, <1>3, <2>1

\* What is left of a sequence after its first j elements.
LEMMA Rest ==
    ASSUME NEW X, NEW q \in Seq(X), NEW j \in 0 .. Len(q) - 1, NEW t,
           t = SubSeq(q, j + 1, Len(q))
    PROVE  /\ t # <<>> /\ Len(t) = Len(q) - j /\ Head(t) = q[j + 1]
           /\ Len(t) # 1 => Tail(t) = SubSeq(q, j + 2, Len(q))
           /\ Len(t) = 1 => Tail(t) = <<>>
<1>1. Len(q) \in Nat /\ j + 1 \in 1 .. Len(q) /\ Len(q) \in j + 1 .. Len(q)
      /\ j + 1 \in Int /\ Len(q) \in Int /\ j + 1 <= Len(q)
  OBVIOUS
<1>2. PICK m : m = j + 1
  OBVIOUS
<1>3. Head(t) = q[m] /\ Tail(t) = SubSeq(q, m + 1, Len(q))
  BY <1>1, <1>2, HeadTailOfSubSeq
<1>4. Len(t) = Len(q) - m + 1 /\ t \in Seq(X)
  <2>1. \A i \in m .. Len(q) : q[i] \in X
    BY <1>1, <1>2
  <2> QED
    BY <1>1, <1>2, <2>1, SubSeqProperties
<1>5. Len(t) = Len(q) - j /\ m + 1 = j + 2 /\ Len(t) # 0
  <2>1. PICK l \in Nat : l = Len(q)
    BY <1>1
  <2>2. PICK e : e = Len(t)
    OBVIOUS
  <2>3. e = l - m + 1 /\ j \in 0 .. l - 1
    BY <1>4, <2>1, <2>2
  <2> QED
    BY <1>2, <2>1, <2>2, <2>3
<1>7. t # <<>>
  BY <1>5
<1>6. ASSUME Len(t) = 1 PROVE Tail(t) = <<>>
  BY <1>4, <1>6
<1> QED
  BY <1>2, <1>3, <1>5, <1>6, <1>7

\* A migration ends with its version, and has something else before it.
LEMMA StepsForm ==
    ASSUME NEW s \in Schema, NEW k \in 1 .. Newest(s)
    PROVE  /\ Steps(s, k) \in Seq(Statement \cup {Version(k)})
           /\ Len(Steps(s, k)) \in Nat \ {0, 1}
           /\ \A i \in 1 .. Len(Steps(s, k)) - 1 : Steps(s, k)[i].do # "version"
           /\ Steps(s, k)[Len(Steps(s, k))] = Version(k)
<1> DEFINE q == Migration[s][k]
<1>1. q \in Seq(Statement) \ {<<>>}
  BY ReleaseAssumption DEF Newest
<1>2. Len(q) \in Nat \ {0} /\ \A i \in 1 .. Len(q) : q[i] \in Statement
  BY <1>1
<1>3. \A st \in Statement : st.do # "version"
  BY DEF Statement
<1> HIDE DEF q
<1>4. PICK e : e = Version(k)
  OBVIOUS
<1>5. /\ q \o <<e>> \in Seq(Statement \cup {e})
      /\ Len(q \o <<e>>) = Len(q) + 1
      /\ \A i \in 1 .. Len(q) : (q \o <<e>>)[i] = q[i]
      /\ (q \o <<e>>)[Len(q) + 1] = e
  BY <1>1
<1>6. Steps(s, k) = q \o <<e>>
  BY <1>4 DEF Steps, q
<1> QED
  BY <1>2, <1>3, <1>4, <1>5, <1>6

\* A migration leads to its version.
LEMMA StepsEnd ==
    ASSUME NEW s \in Schema, NEW k \in 1 .. Newest(s), NEW D, NEW E,
           E = Ran(D, Steps(s, k))[Len(Steps(s, k))]
    PROVE  E = [things |-> E.things, version |-> k, used |-> TRUE]
<1> DEFINE q == Steps(s, k)
           m == Len(q) - 1
<1>1. /\ Len(q) \in Nat \ {0, 1} /\ q[Len(q)] = Version(k)
      /\ \A i \in 1 .. m : q[i].do # "version"
  BY StepsForm
<1> HIDE DEF q
<1>2. m \in 1 .. Len(q) /\ Len(q) \in Nat /\ Len(q) \in 1 .. Len(q)
  <2>1. PICK l \in Nat \ {0, 1} : l = Len(q)
    BY <1>1
  <2> QED
    BY <2>1
<1>3. Ran(D, q)[m].used = TRUE
  <2> HIDE DEF m
  <2> QED
    BY <1>1, <1>2, RanUsed
<1>4. E = Exec(Ran(D, q)[m], Version(k))
  BY <1>1, <1>2, RanSteps DEF q
<1> HIDE DEF m
<1>5. E = [things |-> Ran(D, q)[m].things, version |-> k, used |-> TRUE]
  BY <1>3, <1>4, ExecVersion
<1> QED
  BY <1>5

\* The releases of a schema, and what they install.
LEMMA ReleaseForm ==
    ASSUME NEW s \in Schema
    PROVE  /\ Newest(s) \in Nat \ {0}
           /\ \A r \in Release[s] :
                /\ r \in 2 .. Newest(s)
                /\ Latest[s][r] \in Seq(Statement) /\ Len(Latest[s][r]) \in Nat \ {0}
                /\ \A i \in 1 .. Len(Latest[s][r]) : Latest[s][r][i].do # "version"
<1>1. /\ Migration[s] \in Seq(Seq(Statement) \ {<<>>}) \ {<<>>}
      /\ Release[s] \subseteq 2 .. Newest(s)
      /\ \A r \in Release[s] : Latest[s][r] \in Seq(Statement) \ {<<>>}
  BY ReleaseAssumption
<1>2. Newest(s) \in Nat \ {0}
  <2>1. PICK q : q = Migration[s]
    OBVIOUS
  <2>2. Len(q) \in Nat \ {0}
    BY <1>1, <2>1
  <2> QED
    BY <2>1, <2>2 DEF Newest
<1>3. \A st \in Statement : st.do # "version"
  BY DEF Statement
<1>4. ASSUME NEW r \in Release[s]
      PROVE  /\ r \in 2 .. Newest(s)
             /\ Latest[s][r] \in Seq(Statement) /\ Len(Latest[s][r]) \in Nat \ {0}
             /\ \A i \in 1 .. Len(Latest[s][r]) : Latest[s][r][i].do # "version"
  <2>1. PICK q : q = Latest[s][r]
    OBVIOUS
  <2>2. q \in Seq(Statement) \ {<<>>}
    BY <1>1, <2>1
  <2>3. Len(q) \in Nat \ {0} /\ \A i \in 1 .. Len(q) : q[i] \in Statement
    BY <2>2
  <2> QED
    BY <1>1, <1>3, <2>1, <2>2, <2>3
<1> QED
  BY <1>2, <1>4

\* The file of a version.
LEMMA WholeForm ==
    ASSUME NEW s \in Schema, NEW k \in 1 .. Newest(s)
    PROVE  Whole(s, k) = [things |-> Shape(s, k), version |-> k, used |-> TRUE]
<1>1. Newest(s) \in Nat
  BY ReleaseForm
<1>2. k \in 0 + 1 .. Newest(s) /\ 0 \in Nat /\ 0 <= Newest(s)
  BY <1>1
<1>3. PICK E : E = Whole(s, k)
  OBVIOUS
<1>4. E = Ran(Migrated(Unused, s, 0)[k - 1], Steps(s, k))[Len(Steps(s, k))]
  BY <1>1, <1>2, <1>3, MigratedSteps DEF Whole
<1>5. E = [things |-> E.things, version |-> k, used |-> TRUE]
  BY <1>4, StepsEnd
<1> QED
  BY <1>3, <1>5 DEF Shape

\* A version after the first is made by a migration from the one before.
LEMMA WholeNext ==
    ASSUME NEW s \in Schema, NEW k \in 2 .. Newest(s)
    PROVE  /\ Whole(s, k) = Ran(Whole(s, k - 1), Steps(s, k))[Len(Steps(s, k))]
           /\ Accepts(Whole(s, k - 1), Steps(s, k))
<1>1. Newest(s) \in Nat
  BY ReleaseForm
<1>2. k \in 0 + 1 .. Newest(s) /\ 0 \in Nat /\ 0 <= Newest(s)
  BY <1>1
<1>3. Whole(s, k) = Ran(Migrated(Unused, s, 0)[k - 1], Steps(s, k))[Len(Steps(s, k))]
  BY <1>1, <1>2, MigratedSteps DEF Whole
<1> QED
  BY <1>3, MigrationAssumption DEF Whole

\* An install that is complete makes the file of the release, ...
LEMMA InstallEnd ==
    ASSUME NEW s \in Schema, NEW r \in Release[s]
    PROVE  Exec(Ran(Unused, Latest[s][r])[Len(Latest[s][r])], Version(r)) = Whole(s, r)
<1> DEFINE q == Latest[s][r]
           D == Ran(Unused, q)[Len(q)]
           E == Exec(D, Version(r))
<1>1. /\ r \in 1 .. Newest(s) /\ Len(q) \in Nat \ {0}
      /\ \A i \in 1 .. Len(q) : q[i].do # "version"
  BY ReleaseForm
<1>2. D.used = TRUE
  <2>1. Len(q) \in 1 .. Len(q) /\ Len(q) \in Nat
    BY <1>1
  <2> HIDE DEF q
  <2> QED
    BY <1>1, <2>1, RanUsed
<1>3. D.things = Shape(s, r)
  BY LatestAssumption
<1>4. E = [things |-> Shape(s, r), version |-> r, used |-> TRUE]
  BY <1>2, <1>3, ExecVersion
<1> QED
  BY <1>1, <1>4, WholeForm

\* ... and one that is not has no version, until it is declared to have one.
LEMMA TornForm ==
    ASSUME NEW s \in Schema, NEW r \in Release[s], NEW n \in 1 .. Len(Latest[s][r])
    PROVE  /\ Torn(s, r, n).version = 0 /\ Torn(s, r, n).used = TRUE
           /\ Declared(s, r, n).version = 1 /\ Declared(s, r, n).used = TRUE
<1> DEFINE q == Latest[s][r]
           D == Ran(Unused, q)[n]
<1>1. Len(q) \in Nat /\ n \in 0 .. Len(q) /\ n \in 1 .. Len(q)
      /\ \A i \in 1 .. n : q[i].do # "version"
  BY ReleaseForm
<1> HIDE DEF q
<1>2. Unused.version = 0
  BY DEF Unused
<1>3. D.version = 0 /\ D.used = TRUE
  <2>1. D.version = Unused.version
    BY <1>1, RanVersion
  <2>2. D.used = TRUE
    BY <1>1, RanUsed
  <2> QED
    BY <1>2, <2>1, <2>2
<1> HIDE DEF D
<1>4. Exec(D, Version(1)).version = 1 /\ Exec(D, Version(1)).used = TRUE
  <2>1. PICK E : E = Exec(D, Version(1))
    OBVIOUS
  <2>2. E = [things |-> D.things, version |-> 1, used |-> TRUE]
    BY <1>3, <2>1, ExecVersion
  <2> QED
    BY <2>1, <2>2
<1>5. Torn(s, r, n) = D
  BY DEF Torn, D, q
<1> QED
  BY <1>3, <1>4, <1>5 DEF Declared

-----------------------------------------------------------------------------
(* The inductive invariant.                                                *)

Typed == /\ schema \in Schema /\ cut \in BOOLEAN
         /\ pc \in {"down", "install", "migrate", "tx", "open"}
         /\ release \in Release[schema] \/ pc = "down"
         /\ spent \in [{"start", "crash", "fail"} -> Nat]

\* Only a transaction tells the memory from the file.
MemFits == pc # "tx" => mem = disk

\* An install has executed the statements that are not left to do.
InstallFits ==
    pc = "install" =>
      /\ ~cut
      /\ \E n \in 0 .. Len(Latest[schema][release]) :
           /\ disk = Torn(schema, release, n)
           /\ todo = SubSeq(Append(Latest[schema][release], Version(release)),
                            n + 1, Len(Latest[schema][release]) + 1)

\* The first part of a schema, which has no version or was given one.
HalfInstalled ==
    \E r \in Release[schema] : \E n \in 1 .. Len(Latest[schema][r]) :
      disk \in {Torn(schema, r, n), Declared(schema, r, n)}

\* A file is as it was found, or as a version has it, or half installed.
FileFits ==
    pc # "install" =>
      \/ cut /\ HalfInstalled
      \/ ~cut /\ disk = Unused /\ pc = "down"
      \/ ~cut /\ disk = [Whole(schema, 1) EXCEPT !.version = 0] /\ pc \in {"down", "migrate"}
      \/ ~cut /\ \E v \in 1 .. Newest(schema) : disk = Whole(schema, v)

\* A program runs on a file of its version or a later one, unless a transaction failed.
OpenFits ==
    pc = "open" => ~cut /\ disk.version # 0 /\ (disk.version >= release \/ spent["fail"] > 0)

\* What the migrations make of the file.
Stage(k) == IF cut THEN Migrated(disk, schema, 1)[k] ELSE Whole(schema, k)

\* A transaction has executed the migrations up to k, none of them refused, ...
Past(k) == \A i \in disk.version + 1 .. k : Accepts(Stage(i - 1), Steps(schema, i))

\* ... and the first j statements of the next one.
Amid(k, j) == /\ mem = Ran(Stage(k), Steps(schema, k + 1))[j]
              /\ todo = SubSeq(Steps(schema, k + 1), j + 1, Len(Steps(schema, k + 1)))
              /\ \A i \in 1 .. j : ~Refused(Ran(Stage(k), Steps(schema, k + 1))[i - 1],
                                            Steps(schema, k + 1)[i])

TxFits ==
    pc = "tx" =>
      /\ disk.version # 0
      /\ \E k \in 1 .. Newest(schema) :
           /\ k >= disk.version /\ Past(k)
           /\ \/ todo = <<>> /\ k >= release /\ mem = Stage(k)
              \/ /\ k < release
                 /\ \E j \in 0 .. Len(Steps(schema, k + 1)) - 1 : Amid(k, j)

IInv == Typed /\ MemFits /\ InstallFits /\ FileFits /\ OpenFits /\ TxFits

-----------------------------------------------------------------------------
(* What the invariant says of the file.                                    *)

\* The version of a file, and which kind of file has one.
LEMMA FileForm ==
    ASSUME Typed, FileFits, pc \notin {"install", "down"}
    PROVE  /\ disk.used = TRUE
           /\ ~cut => \/ disk = [Whole(schema, 1) EXCEPT !.version = 0] /\ disk.version = 0
                      \/ /\ disk.version \in 1 .. Newest(schema)
                         /\ disk = Whole(schema, disk.version)
           /\ cut => \E r \in Release[schema] : \E n \in 1 .. Len(Latest[schema][r]) :
                \/ disk = Torn(schema, r, n) /\ disk.version = 0
                \/ disk = Declared(schema, r, n) /\ disk.version = 1
<1>1. /\ schema \in Schema /\ Newest(schema) \in Nat
      /\ \A r \in Release[schema] : r \in 2 .. Newest(schema)
  BY ReleaseForm DEF Typed
<1>2. release \in Release[schema]
  BY DEF Typed
<1>3. 1 \in 1 .. Newest(schema)
  BY <1>1, <1>2
<1>4. CASE cut /\ HalfInstalled
  <2>0. HalfInstalled
    BY <1>4
  <2>1a. PICK r \in Release[schema] : \E n \in 1 .. Len(Latest[schema][r]) :
          disk \in {Torn(schema, r, n), Declared(schema, r, n)}
    BY <2>0, Zenon DEF HalfInstalled
  <2>1. PICK n \in 1 .. Len(Latest[schema][r]) :
          disk \in {Torn(schema, r, n), Declared(schema, r, n)}
    BY <2>1a
  <2>2. /\ Torn(schema, r, n).version = 0 /\ Torn(schema, r, n).used = TRUE
        /\ Declared(schema, r, n).version = 1 /\ Declared(schema, r, n).used = TRUE
    BY <1>1, TornForm
  <2> QED
    BY <1>4, <2>1, <2>2
<1>5. CASE ~cut /\ disk = [Whole(schema, 1) EXCEPT !.version = 0]
  <2>1. Whole(schema, 1) = [things |-> Shape(schema, 1), version |-> 1, used |-> TRUE]
    BY <1>1, <1>3, WholeForm
  <2>2. disk = [things |-> Shape(schema, 1), version |-> 0, used |-> TRUE]
    <3>1. PICK W, T : W = Whole(schema, 1) /\ T = Shape(schema, 1)
      OBVIOUS
    <3>2. W = [things |-> T, version |-> 1, used |-> TRUE] /\ disk = [W EXCEPT !.version = 0]
      BY <1>5, <2>1, <3>1
    <3>3. disk = [things |-> T, version |-> 0, used |-> TRUE]
      BY <3>2
    <3> QED
      BY <3>1, <3>3
  <2> QED
    BY <1>5, <2>2
<1>6. CASE ~cut /\ \E v \in 1 .. Newest(schema) : disk = Whole(schema, v)
  <2>1. PICK v \in 1 .. Newest(schema) : disk = Whole(schema, v)
    BY <1>6
  <2>2. disk = [things |-> Shape(schema, v), version |-> v, used |-> TRUE]
    BY <1>1, <2>1, WholeForm
  <2>3. disk.version = v /\ disk.used = TRUE
    BY <2>2
  <2> QED
    BY <1>6, <2>1, <2>3
<1> QED
  BY <1>4, <1>5, <1>6 DEF FileFits

\* The file is where the stages begin, ...
LEMMA StageFirst ==
    ASSUME Typed, FileFits, pc \notin {"install", "down"}, disk.version # 0
    PROVE  disk.version \in 1 .. Newest(schema) /\ Stage(disk.version) = disk
<1>1. /\ schema \in Schema /\ Newest(schema) \in Nat
      /\ \A r \in Release[schema] : r \in 2 .. Newest(schema)
  BY ReleaseForm DEF Typed
<1>2. CASE ~cut
  BY <1>2, FileForm DEF Stage
<1>3. CASE cut
  <2>1. disk.version = 1 /\ 1 \in Nat /\ 1 <= Newest(schema)
    BY <1>1, <1>3, FileForm
  <2>2. Migrated(disk, schema, 1)[1] = disk
    BY <1>1, <2>1, MigratedSteps
  <2> QED
    BY <1>1, <1>3, <2>1, <2>2 DEF Stage
<1> QED
  BY <1>2, <1>3

\* ... and a migration leads from one to the next.
LEMMA StageNext ==
    ASSUME Typed, FileFits, pc \notin {"install", "down"}, disk.version # 0,
           NEW k \in 1 .. Newest(schema) - 1, k >= disk.version
    PROVE  /\ k + 1 \in 1 .. Newest(schema)
           /\ Stage(k + 1) = Ran(Stage(k), Steps(schema, k + 1))[Len(Steps(schema, k + 1))]
<1>1. schema \in Schema /\ Newest(schema) \in Nat
  BY ReleaseForm DEF Typed
<1>2. k + 1 \in 2 .. Newest(schema) /\ k + 1 \in 1 .. Newest(schema) /\ (k + 1) - 1 = k
  BY <1>1
<1>3. PICK m : m = k + 1
  OBVIOUS
<1>4. m \in 2 .. Newest(schema) /\ m \in 1 + 1 .. Newest(schema) /\ m - 1 = k
  BY <1>2, <1>3
<1>5. CASE ~cut
  <2>1. Whole(schema, m) = Ran(Whole(schema, m - 1), Steps(schema, m))[Len(Steps(schema, m))]
    BY <1>1, <1>4, WholeNext
  <2> QED
    BY <1>2, <1>3, <1>4, <1>5, <2>1 DEF Stage
<1>6. CASE cut
  <2>1. 1 \in Nat /\ 1 <= Newest(schema)
    BY <1>1
  <2>2. Migrated(disk, schema, 1)[m]
          = Ran(Migrated(disk, schema, 1)[m - 1], Steps(schema, m))[Len(Steps(schema, m))]
    BY <1>1, <1>4, <2>1, MigratedSteps
  <2> QED
    BY <1>2, <1>3, <1>4, <1>6, <2>2 DEF Stage
<1> QED
  BY <1>5, <1>6

\* A file that was half installed is never migrated all the way.
LEMMA NeverThrough ==
    ASSUME Typed, FileFits, pc \notin {"install", "down"}, disk.version # 0,
           NEW k \in 1 .. Newest(schema), Past(k), k >= release
    PROVE  ~cut
<1> SUFFICES ASSUME cut PROVE FALSE
  OBVIOUS
<1>1. schema \in Schema /\ release \in Release[schema]
  BY DEF Typed
<1>2a. PICK r \in Release[schema] : \E n \in 1 .. Len(Latest[schema][r]) :
        disk = Declared(schema, r, n) /\ disk.version = 1
  BY FileForm
<1>2. PICK n \in 1 .. Len(Latest[schema][r]) :
        disk = Declared(schema, r, n) /\ disk.version = 1
  BY <1>2a
<1>3. PICK i \in 2 .. release :
        ~Accepts(Migrated(Declared(schema, r, n), schema, 1)[i - 1], Steps(schema, i))
  BY <1>1, TornAssumption
<1>4. release \in 2 .. Newest(schema)
  BY <1>1, ReleaseForm
<1>5. i \in disk.version + 1 .. k
  BY <1>2, <1>4
<1>6. Accepts(Stage(i - 1), Steps(schema, i))
  BY <1>5 DEF Past
<1> QED
  BY <1>2, <1>3, <1>6 DEF Stage

-----------------------------------------------------------------------------
(* Every step keeps it.                                                    *)

LEMMA InitFits == Init => IInv
<1> SUFFICES ASSUME Init PROVE IInv
  OBVIOUS
<1>1. schema \in Schema /\ pc = "down" /\ cut = FALSE /\ mem = disk
  BY DEF Init
<1>2. Typed
  BY DEF Init, Typed
<1>3. FileFits
  BY DEF Init, FileFits
<1> QED
  BY <1>1, <1>2, <1>3 DEF IInv, MemFits, InstallFits, OpenFits, TxFits

\* A file that nobody has used gets the latest schema, any other one is migrated.
LEMMA StartFits ==
    ASSUME IInv, NEW r \in Release[schema], Start(r)
    PROVE  IInv'
<1>1. Typed /\ MemFits /\ FileFits
  BY DEF IInv
<1>2. /\ pc = "down" /\ schema \in Schema
      /\ release' = r /\ UNCHANGED <<schema, disk, mem, cut>>
      /\ spent' = [spent EXCEPT !["start"] = @ + 1]
  BY <1>1 DEF Start, Typed
<1>3. pc' \in {"install", "migrate"} /\ Typed'
  BY <1>1, <1>2 DEF Start, Typed
<1>4. MemFits' /\ OpenFits' /\ TxFits'
  BY <1>1, <1>2, <1>3 DEF MemFits, OpenFits, TxFits
<1>5. Unused.used = FALSE
  BY DEF Unused
<1>6. ASSUME disk # Unused PROVE disk.used = TRUE
  <2>1. CASE HalfInstalled
    <3>1a. PICK t \in Release[schema] : \E n \in 1 .. Len(Latest[schema][t]) :
            disk \in {Torn(schema, t, n), Declared(schema, t, n)}
      BY <2>1, Zenon DEF HalfInstalled
    <3>1. PICK n \in 1 .. Len(Latest[schema][t]) :
            disk \in {Torn(schema, t, n), Declared(schema, t, n)}
      BY <3>1a
    <3> QED
      BY <1>2, <3>1, TornForm
  <2>2. CASE disk = [Whole(schema, 1) EXCEPT !.version = 0]
    <3>1. Newest(schema) \in Nat /\ r \in 2 .. Newest(schema)
      BY <1>2, ReleaseForm
    <3>2. 1 \in 1 .. Newest(schema)
      BY <3>1
    <3>3. Whole(schema, 1) = [things |-> Shape(schema, 1), version |-> 1, used |-> TRUE]
      BY <1>2, <3>2, WholeForm
    <3> QED
      BY <2>2, <3>3
  <2>3. CASE \E v \in 1 .. Newest(schema) : disk = Whole(schema, v)
    <3>1. PICK v \in 1 .. Newest(schema) : disk = Whole(schema, v)
      BY <2>3
    <3>2. disk = [things |-> Shape(schema, v), version |-> v, used |-> TRUE]
      BY <1>2, <3>1, WholeForm
    <3> QED
      BY <3>2
  <2> QED
    BY <1>1, <1>2, <1>6, <2>1, <2>2, <2>3 DEF FileFits
<1>7. CASE disk = Unused
  <2>1. pc' = "install" /\ todo' = Append(Latest[schema][r], Version(r))
    BY <1>5, <1>7 DEF Start
  <2>2. ~cut
    <3>1. ~(cut /\ HalfInstalled)
      <4> SUFFICES ASSUME HalfInstalled PROVE FALSE
        OBVIOUS
      <4>1a. PICK t \in Release[schema] : \E n \in 1 .. Len(Latest[schema][t]) :
              disk \in {Torn(schema, t, n), Declared(schema, t, n)}
        BY Zenon DEF HalfInstalled
      <4>1. PICK n \in 1 .. Len(Latest[schema][t]) :
              disk \in {Torn(schema, t, n), Declared(schema, t, n)}
        BY <4>1a
      <4> QED
        BY <1>2, <1>5, <1>7, <4>1, TornForm
    <3> QED
      BY <1>1, <1>2, <3>1 DEF FileFits
  <2>3. FileFits'
    BY <2>1 DEF FileFits
  <2>4. InstallFits'
    <3>1. PICK q : q = Latest[schema][r]
      OBVIOUS
    <3>2. q \in Seq(Statement) /\ Len(q) \in Nat
      BY <1>2, <3>1, ReleaseForm
    <3>3. PICK e : e = Version(r)
      OBVIOUS
    <3>4. SubSeq(Append(q, e), 1, Len(q) + 1) = Append(q, e)
      <4>1. Append(q, e) \in Seq(Statement \cup {e}) /\ Len(Append(q, e)) = Len(q) + 1
        BY <3>2
      <4> QED
        BY <4>1, SubSeqFull
    <3>5. Torn(schema, r, 0) = Unused
      BY <3>1, <3>2, RanSteps DEF Torn
    <3>6. 0 \in 0 .. Len(q) /\ 0 + 1 = 1
      BY <3>2
    <3>7. todo' = SubSeq(Append(q, e), 0 + 1, Len(q) + 1)
      BY <2>1, <3>1, <3>3, <3>4, <3>6
    <3>8. \E n \in 0 .. Len(q) :
            disk = Torn(schema, r, n) /\ todo' = SubSeq(Append(q, e), n + 1, Len(q) + 1)
      BY <1>7, <3>5, <3>6, <3>7
    <3> QED
      BY <1>2, <2>2, <3>1, <3>3, <3>8 DEF InstallFits
  <2> QED
    BY <1>3, <1>4, <2>3, <2>4 DEF IInv
<1>8. CASE disk # Unused
  <2>1. pc' = "migrate"
    BY <1>6, <1>8 DEF Start
  <2>2. HalfInstalled' <=> HalfInstalled
    BY <1>2 DEF HalfInstalled
  <2>3. FileFits'
    BY <1>1, <1>2, <1>8, <2>1, <2>2 DEF FileFits
  <2>4. InstallFits'
    BY <2>1 DEF InstallFits
  <2> QED
    BY <1>3, <1>4, <2>3, <2>4 DEF IInv
<1> QED
  BY <1>7, <1>8

\* What is installed is not refused, and the last statement makes the file of the release.
LEMMA InstallFitsNext ==
    ASSUME IInv, Install
    PROVE  IInv'
<1>1. Typed /\ MemFits /\ InstallFits /\ pc = "install"
  BY DEF IInv, Install
<1>2. schema \in Schema /\ release \in Release[schema] /\ ~cut /\ mem = disk
      /\ UNCHANGED <<schema, release, cut, spent>>
  BY <1>1 DEF Typed, InstallFits, MemFits, Install
<1> DEFINE L == Latest[schema][release]
           e == Version(release)
           q == Append(L, e)
<1>3. PICK n \in 0 .. Len(L) : disk = Torn(schema, release, n)
                               /\ todo = SubSeq(q, n + 1, Len(L) + 1)
  BY <1>1 DEF InstallFits
<1>4. L \in Seq(Statement) /\ Len(L) \in Nat \ {0}
  BY <1>2, ReleaseForm
<1>5. Ran(Unused, L)[n] = disk
  BY <1>3 DEF Torn
<1>6. Accepts(Unused, L) /\ Exec(Ran(Unused, L)[Len(L)], e) = Whole(schema, release)
  BY <1>2, LatestAssumption, InstallEnd
<1>7. ~Refused(disk, e)
  BY DEF Refused, Missing, Version
<1> HIDE DEF L, e
<1>8. q \in Seq(Statement \cup {e}) /\ Len(q) = Len(L) + 1 /\ n \in 0 .. Len(q) - 1
      /\ q[Len(L) + 1] = e /\ \A i \in 1 .. Len(L) : q[i] = L[i]
  BY <1>4
<1> HIDE DEF q
<1>9. /\ todo # <<>> /\ Len(todo) = Len(q) - n /\ Head(todo) = q[n + 1]
      /\ Len(todo) # 1 => Tail(todo) = SubSeq(q, n + 2, Len(q))
      /\ Len(todo) = 1 => Tail(todo) = <<>>
  BY <1>3, <1>8, Rest
<1>10. CASE n = Len(L)
  <2>1. Head(todo) = e /\ Len(todo) = 1
    BY <1>4, <1>8, <1>9, <1>10
  <2>2. mem' = Exec(disk, e) /\ disk' = mem' /\ pc' = "open"
    BY <1>2, <1>7, <1>9, <2>1 DEF Install
  <2>3. disk' = Whole(schema, release)
    BY <1>5, <1>6, <1>10, <2>2
  <2>4. release \in 2 .. Newest(schema) /\ Newest(schema) \in Nat
    BY <1>2, ReleaseForm
  <2>5. release \in 1 .. Newest(schema) /\ release >= release /\ release # 0
    BY <2>4
  <2>6. disk'.version = release
    <3>1. disk' = [things |-> Shape(schema, release), version |-> release, used |-> TRUE]
      BY <1>2, <2>3, <2>5, WholeForm
    <3> QED
      BY <3>1
  <2>7. Typed'
    BY <1>1, <1>2, <2>2 DEF Typed
  <2>8. FileFits'
    BY <1>2, <2>2, <2>3, <2>5 DEF FileFits
  <2>9. OpenFits'
    BY <1>2, <2>5, <2>6 DEF OpenFits
  <2> QED
    BY <2>2, <2>7, <2>8, <2>9 DEF IInv, MemFits, InstallFits, TxFits
<1>11. CASE n # Len(L)
  <2>1. n + 1 \in 1 .. Len(L) /\ (n + 1) - 1 = n /\ Len(q) - n # 1
    BY <1>4, <1>8, <1>11
  <2>2. Head(todo) = L[n + 1] /\ Len(todo) # 1 /\ q[n + 1] = L[n + 1]
    BY <1>8, <1>9, <2>1
  <2>3. ~Refused(disk, L[n + 1])
    BY <1>5, <1>6, <2>1 DEF Accepts
  <2>4. Ran(Unused, L)[n + 1] = Exec(disk, L[n + 1])
    BY <1>4, <1>5, <2>1, RanSteps
  <2>5. Tail(todo) # <<>>
    <3>1. n + 1 \in 0 .. Len(q) - 1 /\ (n + 1) + 1 = n + 2
      BY <1>8, <2>1
    <3>2. PICK j : j = n + 1
      OBVIOUS
    <3>3. Tail(todo) = SubSeq(q, j + 1, Len(q)) /\ j \in 0 .. Len(q) - 1
      BY <1>9, <2>2, <3>1, <3>2
    <3> QED
      BY <1>8, <3>3, Rest
  <2>6. mem' = Exec(disk, L[n + 1]) /\ disk' = mem' /\ pc' = "install" /\ todo' = Tail(todo)
    BY <1>2, <1>9, <2>2, <2>3, <2>5 DEF Install
  <2>7. Typed'
    BY <1>1, <1>2, <2>6 DEF Typed
  <2>8. InstallFits'
    <3>1. PICK j : j = n + 1
      OBVIOUS
    <3>2. j \in 0 .. Len(L) /\ j + 1 = n + 2 /\ Len(q) = Len(L) + 1
      BY <1>4, <1>8, <2>1, <3>1
    <3>3. disk' = Torn(schema, release, j)
      BY <2>4, <2>6, <3>1 DEF Torn, L
    <3>4. todo' = SubSeq(q, j + 1, Len(L) + 1)
      BY <1>9, <2>2, <2>6, <3>2
    <3>5. \E i \in 0 .. Len(L) :
            disk' = Torn(schema, release, i) /\ todo' = SubSeq(q, i + 1, Len(L) + 1)
      BY <3>2, <3>3, <3>4
    <3> QED
      BY <1>2, <3>5 DEF InstallFits, L, q, e
  <2> QED
    BY <2>6, <2>7, <2>8 DEF IInv, MemFits, FileFits, OpenFits, TxFits
<1> QED
  BY <1>10, <1>11

LEMMA CurrentFits ==
    ASSUME IInv, Current
    PROVE  IInv'
<1>1. /\ Typed /\ MemFits /\ FileFits /\ pc = "migrate" /\ pc' = "open"
      /\ disk.version = release
      /\ UNCHANGED <<schema, disk, mem, release, todo, cut, spent>>
  BY DEF IInv, Current
<1>2. schema \in Schema /\ release \in Release[schema]
  BY <1>1 DEF Typed
<1>3. release \in 2 .. Newest(schema) /\ Newest(schema) \in Nat
  BY <1>2, ReleaseForm
<1>4. release # 0 /\ release # 1 /\ release >= release
  BY <1>3
<1>5. ~cut /\ \E v \in 1 .. Newest(schema) : disk = Whole(schema, v)
  <2>1. pc \notin {"install", "down"}
    BY <1>1
  <2> QED
    BY <1>1, <1>4, <2>1, FileForm
<1>6. Typed' /\ MemFits'
  BY <1>1, <1>2 DEF Typed, MemFits
<1>7. FileFits'
  BY <1>1, <1>5 DEF FileFits
<1>8. OpenFits'
  BY <1>1, <1>4, <1>5 DEF OpenFits
<1> QED
  BY <1>1, <1>6, <1>7, <1>8 DEF IInv, InstallFits, TxFits

\* An old file becomes the one of version 1, and a half installed one seems to.
LEMMA PartyFits ==
    ASSUME IInv, Party
    PROVE  IInv'
<1>1. /\ Typed /\ MemFits /\ FileFits /\ pc = "migrate"
      /\ disk.version = 0 /\ mem' = Exec(mem, Version(1)) /\ disk' = mem'
      /\ UNCHANGED <<schema, pc, release, todo, cut, spent>>
  BY DEF IInv, Party
<1>2. schema \in Schema /\ release \in Release[schema] /\ mem = disk
  BY <1>1 DEF Typed, MemFits
<1>3. Newest(schema) \in Nat /\ release \in 2 .. Newest(schema)
  BY <1>2, ReleaseForm
<1>4. 1 \in 1 .. Newest(schema)
  BY <1>3
<1>5. pc \notin {"install", "down"}
  BY <1>1
<1>6. FileFits'
  <2>1. CASE cut
    <3>1a. PICK r \in Release[schema] : \E n \in 1 .. Len(Latest[schema][r]) :
            \/ disk = Torn(schema, r, n) /\ disk.version = 0
            \/ disk = Declared(schema, r, n) /\ disk.version = 1
      BY <1>1, <1>5, <2>1, FileForm
    <3>1. PICK n \in 1 .. Len(Latest[schema][r]) :
            \/ disk = Torn(schema, r, n) /\ disk.version = 0
            \/ disk = Declared(schema, r, n) /\ disk.version = 1
      BY <3>1a
    <3>2. disk' = Declared(schema, r, n)
      BY <1>1, <1>2, <3>1 DEF Declared
    <3>3. HalfInstalled'
      <4>1. disk' \in {Torn(schema, r, n), Declared(schema, r, n)}
        BY <3>2
      <4> QED
        BY <1>1, <4>1 DEF HalfInstalled
    <3> QED
      BY <1>1, <2>1, <3>3 DEF FileFits
  <2>2. CASE ~cut
    <3>1. disk = [Whole(schema, 1) EXCEPT !.version = 0]
      <4>1. 0 \notin 1 .. Newest(schema)
        BY <1>3
      <4> QED
        BY <1>1, <1>5, <2>2, <4>1, FileForm
    <3>2. Whole(schema, 1) = [things |-> Shape(schema, 1), version |-> 1, used |-> TRUE]
      BY <1>2, <1>4, WholeForm
    <3>3. disk.used = TRUE /\ disk.things = Shape(schema, 1)
      BY <3>1, <3>2
    <3>4. disk' = Whole(schema, 1)
      <4>1. Exec(disk, Version(1)) = [things |-> disk.things, version |-> 1, used |-> TRUE]
        BY <3>3, ExecVersion
      <4> QED
        BY <1>1, <1>2, <3>2, <3>3, <4>1
    <3> QED
      BY <1>1, <1>4, <2>2, <3>4 DEF FileFits
  <2> QED
    BY <2>1, <2>2
<1>7. Typed' /\ MemFits'
  BY <1>1, <1>2 DEF Typed, MemFits
<1> QED
  BY <1>1, <1>6, <1>7 DEF IInv, InstallFits, OpenFits, TxFits

\* Nothing is migrated when the release is not newer, or else the first statement
\* of the next migration is to come.
LEMMA UpcomingFits ==
    ASSUME Typed, release \in Release[schema], NEW k \in 1 .. Newest(schema),
           NEW D, D.version = k, D = Stage(k)
    PROVE  \/ k >= release /\ Upcoming(D, release) = <<>>
           \/ /\ k < release /\ k + 1 \in 1 .. Newest(schema)
              /\ 0 \in 0 .. Len(Steps(schema, k + 1)) - 1
              /\ D = Ran(Stage(k), Steps(schema, k + 1))[0]
              /\ Upcoming(D, release) =
                   SubSeq(Steps(schema, k + 1), 0 + 1, Len(Steps(schema, k + 1)))
<1>1. schema \in Schema /\ Newest(schema) \in Nat /\ release \in 2 .. Newest(schema)
  BY ReleaseForm DEF Typed
<1>2. CASE k >= release
  BY <1>1, <1>2 DEF Upcoming
<1>3. CASE k < release
  <2>1. PICK m : m = k + 1
    OBVIOUS
  <2>2. m \in 1 .. Newest(schema)
    BY <1>1, <1>3, <2>1
  <2>3. PICK q : q = Steps(schema, m)
    OBVIOUS
  <2>4. q \in Seq(Statement \cup {Version(m)}) /\ Len(q) \in Nat \ {0, 1}
    BY <1>1, <2>2, <2>3, StepsForm
  <2>5. SubSeq(q, 1, Len(q)) = q
    BY <2>4, SubSeqFull
  <2>6. Ran(Stage(k), q)[0] = Stage(k)
    BY <2>4, RanSteps
  <2>7. 0 \in 0 .. Len(q) - 1 /\ 0 + 1 = 1
    BY <2>4
  <2>8. Upcoming(D, release) = q
    BY <1>3, <2>1, <2>3 DEF Upcoming
  <2> QED
    BY <1>3, <2>1, <2>2, <2>3, <2>5, <2>6, <2>7, <2>8
<1> QED
  BY <1>1, <1>2, <1>3

LEMMA BeginFits ==
    ASSUME IInv, Begin
    PROVE  IInv'
<1>1. /\ Typed /\ MemFits /\ FileFits /\ pc = "migrate" /\ pc' = "tx"
      /\ disk.version # 0 /\ todo' = Upcoming(disk, release)
      /\ UNCHANGED <<schema, disk, mem, release, cut, spent>>
  BY DEF IInv, Begin
<1>2. schema \in Schema /\ release \in Release[schema] /\ mem = disk
  BY <1>1 DEF Typed, MemFits
<1>3. pc \notin {"install", "down"}
  BY <1>1
<1>4. PICK k : k = disk.version
  OBVIOUS
<1>5. k \in 1 .. Newest(schema) /\ Stage(k) = disk /\ k >= disk.version
  <2>1. Newest(schema) \in Nat
    BY <1>2, ReleaseForm
  <2>2. k \in 1 .. Newest(schema) /\ Stage(k) = disk
    BY <1>1, <1>3, <1>4, StageFirst
  <2> QED
    BY <1>4, <2>1, <2>2
<1>6. \A i : Stage(i)' = Stage(i)
  BY <1>1 DEF Stage
<1>7. Past(k)'
  <2>1. Newest(schema) \in Nat
    BY <1>2, ReleaseForm
  <2>2. \A i \in disk.version + 1 .. k : FALSE
    BY <1>4, <1>5, <2>1
  <2> QED
    BY <1>1, <2>2 DEF Past
<1>8. TxFits'
  <2>1. \/ k >= release /\ todo' = <<>>
        \/ /\ k < release /\ k + 1 \in 1 .. Newest(schema)
           /\ 0 \in 0 .. Len(Steps(schema, k + 1)) - 1
           /\ mem = Ran(Stage(k), Steps(schema, k + 1))[0]
           /\ todo' = SubSeq(Steps(schema, k + 1), 0 + 1, Len(Steps(schema, k + 1)))
    <3>1. disk.version = k /\ disk = Stage(k)
      BY <1>4, <1>5
    <3> QED
      BY <1>1, <1>2, <1>5, <3>1, UpcomingFits
  <2>2. CASE k >= release /\ todo' = <<>>
    <3>1. mem' = Stage(k)'
      BY <1>1, <1>2, <1>5, <1>6
    <3> QED
      BY <1>1, <1>5, <1>7, <2>2, <3>1 DEF TxFits
  <2>3. CASE /\ k < release
             /\ 0 \in 0 .. Len(Steps(schema, k + 1)) - 1
             /\ mem = Ran(Stage(k), Steps(schema, k + 1))[0]
             /\ todo' = SubSeq(Steps(schema, k + 1), 0 + 1, Len(Steps(schema, k + 1)))
    <3>1. Amid(k, 0)'
      BY <1>1, <1>6, <2>3 DEF Amid
    <3>2. \E j \in 0 .. Len(Steps(schema, k + 1)) - 1 : Amid(k, j)'
      BY <2>3, <3>1
    <3>3. k < release'
      BY <1>1, <2>3
    <3> QED
      BY <1>1, <1>5, <1>7, <3>2, <3>3 DEF TxFits
  <2> QED
    BY <2>1, <2>2, <2>3
<1>9. Typed'
  BY <1>1, <1>2 DEF Typed
<1>10. FileFits'
  <2>1. HalfInstalled' <=> HalfInstalled
    BY <1>1 DEF HalfInstalled
  <2>2. ~cut => \E v \in 1 .. Newest(schema) : disk = Whole(schema, v)
    BY <1>1, <1>3, FileForm
  <2> QED
    BY <1>1, <1>3, <2>1, <2>2 DEF FileFits
<1> QED
  BY <1>1, <1>8, <1>9, <1>10 DEF IInv, MemFits, InstallFits, OpenFits

\* A migration that is refused is rolled back; otherwise the next statement is to
\* come, or the next migration.
LEMMA MigrateFits ==
    ASSUME IInv, Migrate
    PROVE  IInv'
<1>1. /\ Typed /\ MemFits /\ FileFits /\ TxFits /\ pc = "tx" /\ todo # <<>>
      /\ UNCHANGED <<schema, release, cut, spent, disk>>
  <2>1. Typed /\ MemFits /\ FileFits /\ TxFits /\ pc = "tx" /\ todo # <<>>
        /\ UNCHANGED <<schema, release, cut, spent>>
    BY DEF IInv, Migrate
  <2>2. disk' = disk
    BY DEF Migrate, Stop
  <2> QED
    BY <2>1, <2>2
<1>2. schema \in Schema /\ release \in Release[schema] /\ pc \notin {"install", "down"}
      /\ disk.version # 0
  BY <1>1 DEF Typed, TxFits
<1>3. HalfInstalled' <=> HalfInstalled
  BY <1>1 DEF HalfInstalled
<1>4. CASE Refused(mem, Head(todo))
  <2>1. mem' = disk /\ pc' = "down" /\ disk' = disk
    BY <1>1, <1>4 DEF Migrate, Stop
  <2>2. Typed'
    BY <1>1, <1>2, <2>1 DEF Typed
  <2>3. FileFits'
    BY <1>1, <1>3, <2>1 DEF FileFits
  <2> QED
    BY <2>1, <2>2, <2>3 DEF IInv, MemFits, InstallFits, OpenFits, TxFits
<1>5. CASE ~Refused(mem, Head(todo))
  <2>1. /\ mem' = Exec(mem, Head(todo)) /\ pc' = "tx"
        /\ todo' = IF Len(todo) = 1 THEN Upcoming(mem', release) ELSE Tail(todo)
    BY <1>1, <1>5 DEF Migrate
  <2>2. Typed' /\ FileFits'
    BY <1>1, <1>2, <1>3, <2>1 DEF Typed, FileFits
  <2>3. PICK k \in 1 .. Newest(schema) :
          /\ k >= disk.version /\ Past(k) /\ k < release
          /\ \E j \in 0 .. Len(Steps(schema, k + 1)) - 1 : Amid(k, j)
    BY <1>1 DEF TxFits
  <2> DEFINE q == Steps(schema, k + 1)
  <2>4. PICK j \in 0 .. Len(q) - 1 : Amid(k, j)
    BY <2>3
  <2>5. Newest(schema) \in Nat /\ release \in 2 .. Newest(schema)
    BY <1>2, ReleaseForm
  <2>6. k \in 1 .. Newest(schema) - 1 /\ k + 1 \in 1 .. Newest(schema)
    BY <2>3, <2>5
  <2>7. q \in Seq(Statement \cup {Version(k + 1)}) /\ Len(q) \in Nat \ {0, 1}
    BY <1>2, <2>6, StepsForm
  <2>8. mem = Ran(Stage(k), q)[j] /\ todo = SubSeq(q, j + 1, Len(q))
        /\ \A i \in 1 .. j : ~Refused(Ran(Stage(k), q)[i - 1], q[i])
    BY <2>4 DEF Amid
  <2>9. \A i : Stage(i)' = Stage(i)
    BY <1>1 DEF Stage
  <2> HIDE DEF q
  <2>10. /\ Len(todo) = Len(q) - j /\ Head(todo) = q[j + 1]
         /\ Len(todo) # 1 => Tail(todo) = SubSeq(q, j + 2, Len(q))
    BY <2>7, <2>8, Rest
  <2>11. PICK m : m = j + 1
    OBVIOUS
  <2>12. m \in 1 .. Len(q) /\ m - 1 = j /\ m + 1 = j + 2
    <3>1. PICK l \in Nat : l = Len(q)
      BY <2>7
    <3> QED
      BY <2>11, <3>1
  <2>13. mem' = Ran(Stage(k), q)[m]
    <3>1. Ran(Stage(k), q)[m] = Exec(Ran(Stage(k), q)[m - 1], q[m])
      BY <2>7, <2>12, RanSteps
    <3> QED
      BY <2>1, <2>8, <2>10, <2>11, <2>12, <3>1
  <2>14. \A i \in 1 .. m : ~Refused(Ran(Stage(k), q)[i - 1], q[i])
    <3> SUFFICES ASSUME NEW i \in 1 .. m PROVE ~Refused(Ran(Stage(k), q)[i - 1], q[i])
      OBVIOUS
    <3>1. CASE i = m
      BY <1>5, <2>8, <2>10, <2>11, <2>12, <3>1
    <3>2. CASE i # m
      <4>1. i \in 1 .. j
        BY <2>11, <3>2
      <4> QED
        BY <2>8, <4>1
    <3> QED
      BY <3>1, <3>2
  <2>15. CASE m # Len(q)
    <3>1. m \in 0 .. Len(q) - 1 /\ Len(todo) # 1
      <4>1. PICK l \in Nat : l = Len(q)
        BY <2>7
      <4> QED
        BY <2>10, <2>11, <2>15, <4>1
    <3>2. todo' = SubSeq(q, m + 1, Len(q))
      BY <2>1, <2>10, <2>12, <3>1
    <3>3. Amid(k, m)'
      BY <1>1, <2>9, <2>13, <2>14, <3>2 DEF Amid, q
    <3>4. \E i \in 0 .. Len(Steps(schema, k + 1)) - 1 : Amid(k, i)'
      BY <3>1, <3>3 DEF q
    <3>5. Past(k)'
      BY <1>1, <2>3, <2>9 DEF Past
    <3>6. TxFits'
      BY <1>1, <1>2, <2>3, <3>4, <3>5 DEF TxFits
    <3> QED
      BY <2>1, <2>2, <3>6 DEF IInv, MemFits, InstallFits, OpenFits
  <2>16. CASE m = Len(q)
    <3>1. PICK g : g = k + 1
      OBVIOUS
    <3>2. g \in 1 .. Newest(schema) /\ g - 1 = k /\ g >= disk.version
      <4>1. disk.version \in 1 .. Newest(schema)
        BY <1>1, <1>2, StageFirst
      <4> QED
        BY <2>3, <2>5, <2>6, <3>1, <4>1
    <3>3. Len(todo) = 1
      <4>1. PICK l \in Nat : l = Len(q)
        BY <2>7
      <4> QED
        BY <2>10, <2>11, <2>16, <4>1
    <3>4. mem' = Stage(g)
      <4>1. Stage(k + 1) = Ran(Stage(k), q)[Len(q)]
        BY <1>1, <1>2, <2>3, <2>6, StageNext DEF q
      <4> QED
        BY <2>13, <2>16, <3>1, <4>1
    <3>5. mem'.version = g
      <4>1. mem' = Ran(Stage(k), Steps(schema, g))[Len(Steps(schema, g))]
        BY <2>13, <2>16, <3>1 DEF q
      <4>2. PICK D : D = mem'
        OBVIOUS
      <4>3. PICK F : F = Stage(k)
        OBVIOUS
      <4>4. D = Ran(F, Steps(schema, g))[Len(Steps(schema, g))]
        BY <4>1, <4>2, <4>3
      <4>5. schema \in Schema /\ g \in 1 .. Newest(schema)
        BY <1>2, <3>2
      <4>6. D = [things |-> D.things, version |-> g, used |-> TRUE]
        BY ONLY <4>4, <4>5, StepsEnd
      <4>7. D.version = g
        BY <4>6
      <4> QED
        BY <4>2, <4>7
    <3>6. Past(g)
      <4>1. Accepts(Stage(g - 1), Steps(schema, g))
        BY <2>14, <2>16, <3>1, <3>2 DEF Accepts, q
      <4>2. SUFFICES ASSUME NEW i \in disk.version + 1 .. g
                     PROVE  Accepts(Stage(i - 1), Steps(schema, i))
        BY DEF Past
      <4>3. CASE i = g
        BY <4>1, <4>3
      <4>4. CASE i # g
        <5>1. disk.version \in 1 .. Newest(schema)
          BY <1>1, <1>2, StageFirst
        <5>2. i \in disk.version + 1 .. k
          BY <3>1, <4>4, <5>1
        <5> QED
          BY <2>3, <5>2 DEF Past
      <4> QED
        BY <4>3, <4>4
    <3>7. Past(g)'
      BY <1>1, <2>9, <3>6 DEF Past
    <3>8. \/ g >= release /\ todo' = <<>>
          \/ /\ g < release /\ g + 1 \in 1 .. Newest(schema)
             /\ 0 \in 0 .. Len(Steps(schema, g + 1)) - 1
             /\ mem' = Ran(Stage(g), Steps(schema, g + 1))[0]
             /\ todo' = SubSeq(Steps(schema, g + 1), 0 + 1, Len(Steps(schema, g + 1)))
      <4>1. PICK D : D = mem'
        OBVIOUS
      <4>2. D.version = g /\ D = Stage(g) /\ todo' = Upcoming(D, release)
        BY <2>1, <3>3, <3>4, <3>5, <4>1
      <4> QED
        BY <1>1, <1>2, <3>2, <4>1, <4>2, UpcomingFits
    <3>9. TxFits'
      <4>1. CASE g >= release /\ todo' = <<>>
        <5>1. mem' = Stage(g)'
          BY <2>9, <3>4
        <5> QED
          BY <1>1, <1>2, <3>2, <3>7, <4>1, <5>1 DEF TxFits
      <4>2. CASE /\ g < release
                 /\ 0 \in 0 .. Len(Steps(schema, g + 1)) - 1
                 /\ mem' = Ran(Stage(g), Steps(schema, g + 1))[0]
                 /\ todo' = SubSeq(Steps(schema, g + 1), 0 + 1, Len(Steps(schema, g + 1)))
        <5>1. Amid(g, 0)'
          BY <1>1, <2>9, <4>2 DEF Amid
        <5>2. \E i \in 0 .. Len(Steps(schema, g + 1)) - 1 : Amid(g, i)'
          BY <4>2, <5>1
        <5> QED
          BY <1>1, <1>2, <3>2, <3>7, <4>2, <5>2 DEF TxFits
      <4> QED
        BY <3>8, <4>1, <4>2
    <3> QED
      BY <2>1, <2>2, <3>9 DEF IInv, MemFits, InstallFits, OpenFits
  <2> QED
    BY <2>15, <2>16
<1> QED
  BY <1>4, <1>5

\* What is committed is the file of a version, of the release or a later one.
LEMMA CommitFits ==
    ASSUME IInv, Commit \/ CommitFails
    PROVE  IInv'
<1>1. /\ Typed /\ MemFits /\ FileFits /\ TxFits /\ pc = "tx" /\ todo = <<>> /\ pc' = "open"
      /\ UNCHANGED <<schema, release, todo, cut>>
  BY DEF IInv, Commit, CommitFails
<1>2. schema \in Schema /\ release \in Release[schema] /\ pc \notin {"install", "down"}
      /\ disk.version # 0
  BY <1>1 DEF Typed, TxFits
<1>3. Newest(schema) \in Nat /\ \A i \in 1 .. Newest(schema) : i \in Nat
  BY <1>2, ReleaseForm
<1>4. PICK k \in 1 .. Newest(schema) : Past(k) /\ k >= release /\ mem = Stage(k)
  <2>1. PICK k \in 1 .. Newest(schema) :
          /\ k >= disk.version /\ Past(k)
          /\ \/ k >= release /\ mem = Stage(k)
             \/ \E j \in 0 .. Len(Steps(schema, k + 1)) - 1 : k < release /\ Amid(k, j)
    BY <1>1 DEF TxFits
  <2>2. ASSUME NEW j \in 0 .. Len(Steps(schema, k + 1)) - 1, k < release, Amid(k, j)
        PROVE  FALSE
    <3>1. release \in 2 .. Newest(schema)
      BY <1>2, ReleaseForm
    <3>2. PICK g : g = k + 1
      OBVIOUS
    <3>3. g \in 1 .. Newest(schema)
      BY <1>3, <2>2, <3>1, <3>2
    <3>4. Steps(schema, g) \in Seq(Statement \cup {Version(g)})
      BY <1>2, <3>3, StepsForm
    <3>5. todo # <<>>
      BY <2>2, <3>2, <3>4, Rest DEF Amid
    <3> QED
      BY <1>1, <3>5
  <2> QED
    BY <2>1, <2>2
<1>5. ~cut
  BY <1>1, <1>2, <1>4, NeverThrough
<1>6. mem = Whole(schema, k)
  BY <1>4, <1>5 DEF Stage
<1>7. CASE Commit
  <2>1. disk' = Whole(schema, k) /\ mem' = disk' /\ spent' = spent
    BY <1>6, <1>7 DEF Commit
  <2>2. disk'.version = k
    <3>1. disk' = [things |-> Shape(schema, k), version |-> k, used |-> TRUE]
      BY <1>2, <2>1, WholeForm
    <3> QED
      BY <3>1
  <2>3. k # 0
    BY <1>3
  <2>4. Typed'
    BY <1>1, <1>2, <2>1 DEF Typed
  <2>5. FileFits'
    BY <1>1, <1>5, <2>1 DEF FileFits
  <2>6. OpenFits'
    BY <1>1, <1>4, <1>5, <2>2, <2>3 DEF OpenFits
  <2> QED
    BY <1>1, <2>1, <2>4, <2>5, <2>6 DEF IInv, MemFits, InstallFits, TxFits
<1>8. CASE CommitFails
  <2>1. disk' = disk /\ mem' = disk /\ spent' = [spent EXCEPT !["fail"] = @ + 1]
    BY <1>8 DEF CommitFails
  <2>2. Typed'
    BY <1>1, <1>2, <2>1 DEF Typed
  <2>3. FileFits'
    BY <1>1, <1>5, <2>1 DEF FileFits
  <2>4. spent'["fail"] > 0
    BY <1>1, <2>1 DEF Typed
  <2>5. OpenFits'
    BY <1>1, <1>2, <1>5, <2>1, <2>4 DEF OpenFits
  <2> QED
    BY <1>1, <2>1, <2>2, <2>3, <2>5 DEF IInv, MemFits, InstallFits, TxFits
<1> QED
  BY <1>7, <1>8

LEMMA CloseFits ==
    ASSUME IInv, Close
    PROVE  IInv'
<1>1. /\ Typed /\ FileFits /\ pc = "open" /\ pc' = "down" /\ disk' = disk /\ mem' = disk
      /\ UNCHANGED <<schema, release, cut, spent>>
  BY DEF IInv, Close, Stop
<1>2. HalfInstalled' <=> HalfInstalled
  BY <1>1 DEF HalfInstalled
<1>3. Typed'
  BY <1>1 DEF Typed
<1>4. FileFits'
  BY <1>1, <1>2 DEF FileFits
<1> QED
  BY <1>1, <1>3, <1>4 DEF IInv, MemFits, InstallFits, OpenFits, TxFits

\* A crash keeps what an install has executed, and nothing else.
LEMMA CrashFits ==
    ASSUME IInv, Crash
    PROVE  IInv'
<1>1. /\ Typed /\ InstallFits /\ FileFits /\ pc \in {"install", "migrate", "tx"}
      /\ pc' = "down" /\ disk' = disk /\ mem' = disk
      /\ cut' = (cut \/ (pc = "install" /\ disk.used))
      /\ spent' = [spent EXCEPT !["crash"] = @ + 1]
      /\ UNCHANGED <<schema, release>>
  BY DEF IInv, Crash, Stop
<1>2. schema \in Schema /\ release \in Release[schema]
  BY <1>1 DEF Typed
<1>3. HalfInstalled' <=> HalfInstalled
  BY <1>1 DEF HalfInstalled
<1>4. Typed'
  BY <1>1 DEF Typed
<1>5. FileFits'
  <2>1. CASE pc # "install"
    <3>1. cut' <=> cut
      BY <1>1, <2>1
    <3> QED
      BY <1>1, <1>3, <2>1, <3>1 DEF FileFits
  <2>2. CASE pc = "install"
    <3>1. PICK n \in 0 .. Len(Latest[schema][release]) : disk = Torn(schema, release, n)
      BY <1>1, <2>2 DEF InstallFits
    <3>2. ~cut /\ Len(Latest[schema][release]) \in Nat
      BY <1>1, <1>2, <2>2, ReleaseForm DEF InstallFits
    <3>3. CASE n = 0
      <4>1. PICK q : q = Latest[schema][release]
        OBVIOUS
      <4>2. disk = Unused
        BY <3>1, <3>2, <3>3, <4>1, RanSteps DEF Torn
      <4>3. ~disk.used
        BY <4>2 DEF Unused
      <4> QED
        BY <1>1, <3>2, <4>2, <4>3 DEF FileFits
    <3>4. CASE n # 0
      <4>1. n \in 1 .. Len(Latest[schema][release])
        BY <3>2, <3>4
      <4>2. disk.used = TRUE
        BY <1>2, <3>1, <4>1, TornForm
      <4>3. HalfInstalled
        <5>1. disk \in {Torn(schema, release, n), Declared(schema, release, n)}
          BY <3>1
        <5> QED
          BY <1>2, <4>1, <5>1 DEF HalfInstalled
      <4>4. cut'
        BY <1>1, <2>2, <4>2
      <4> QED
        BY <1>1, <1>3, <4>3, <4>4 DEF FileFits
    <3> QED
      BY <3>3, <3>4
  <2> QED
    BY <2>1, <2>2
<1> QED
  BY <1>1, <1>4, <1>5 DEF IInv, MemFits, InstallFits, OpenFits, TxFits

LEMMA StepFits == IInv /\ [Next]_vars => IInv'
<1> SUFFICES ASSUME IInv, [Next]_vars PROVE IInv'
  OBVIOUS
<1>1. CASE \E r \in Release[schema] : Start(r)
  BY <1>1, StartFits
<1>2. CASE Open
  BY <1>2, InstallFitsNext, CurrentFits, PartyFits, BeginFits, MigrateFits, CommitFits DEF Open
<1>3. CASE Close
  BY <1>3, CloseFits
<1>4. CASE Crash
  BY <1>4, CrashFits
<1>5. CASE UNCHANGED vars
  <2>1. UNCHANGED <<schema, disk, mem, pc, release, todo, cut, spent>>
    BY <1>5 DEF vars
  <2>2. Typed' /\ MemFits' /\ InstallFits' /\ OpenFits'
    BY <2>1 DEF IInv, Typed, MemFits, InstallFits, OpenFits
  <2>3. FileFits'
    BY <2>1 DEF IInv, FileFits, HalfInstalled
  <2>4. TxFits'
    BY <2>1 DEF IInv, TxFits, Past, Amid, Stage
  <2> QED
    BY <2>2, <2>3, <2>4 DEF IInv
<1> QED
  BY <1>1, <1>2, <1>3, <1>4, <1>5 DEF Next

\* What is known of the file, the program's view of it and what it has yet to execute.
THEOREM FitsCorrect == Spec => []IInv
<1>1. Init => IInv
  BY InitFits
<1>2. IInv /\ [Next]_vars => IInv'
  BY StepFits
<1> QED
  BY <1>1, <1>2, PTL DEF Spec

\* user_version tells what is in the file, wherever releases of the program have
\* crashed, but for an install cut short.
THEOREM VersionCorrect == Spec => []VersionTellsTables
<1>1. IInv => VersionTellsTables
  <2> SUFFICES ASSUME IInv, pc # "install", disk.used, ~cut
               PROVE  disk.things = Shape(schema, IF disk.version = 0 THEN 1 ELSE disk.version)
    BY DEF VersionTellsTables
  <2>1. schema \in Schema /\ FileFits
    BY DEF IInv, Typed
  <2>2. disk # Unused
    BY DEF Unused
  <2>3. CASE disk = [Whole(schema, 1) EXCEPT !.version = 0] /\ 1 \in 1 .. Newest(schema)
    <3>1. PICK W, T : W = Whole(schema, 1) /\ T = Shape(schema, 1)
      OBVIOUS
    <3>2. W = [things |-> T, version |-> 1, used |-> TRUE] /\ disk = [W EXCEPT !.version = 0]
      BY <2>1, <2>3, <3>1, WholeForm
    <3>3. disk = [things |-> T, version |-> 0, used |-> TRUE]
      BY <3>2
    <3> QED
      BY <3>1, <3>3
  <2>4. CASE \E v \in 1 .. Newest(schema) : disk = Whole(schema, v)
    <3>1. PICK v \in 1 .. Newest(schema) : disk = Whole(schema, v)
      BY <2>4
    <3>2. disk = [things |-> Shape(schema, v), version |-> v, used |-> TRUE]
      BY <2>1, <3>1, WholeForm
    <3>3. v # 0
      <4>1. Newest(schema) \in Nat
        BY <2>1, ReleaseForm
      <4> QED
        BY <4>1
    <3> QED
      BY <3>2, <3>3
  <2>5. 1 \in 1 .. Newest(schema)
    BY <2>1, ReleaseForm
  <2> QED
    BY <2>1, <2>2, <2>3, <2>4, <2>5 DEF FileFits
<1> QED
  BY <1>1, FitsCorrect, PTL

\* A program that runs has the tables of its release or of a later one, unless a
\* transaction could not be committed; a half installed file is never run on.
THEOREM OpenCorrect == Spec => []OpenIsCurrent
<1>1. IInv => OpenIsCurrent
  <2> SUFFICES ASSUME IInv, pc = "open"
               PROVE  /\ mem = disk
                      /\ disk.version >= release \/ spent["fail"] > 0
                      /\ disk.things = Shape(schema, disk.version)
    BY DEF OpenIsCurrent
  <2>1. schema \in Schema /\ Typed /\ MemFits /\ FileFits /\ OpenFits
        /\ pc \notin {"install", "down"}
    BY DEF IInv, Typed
  <2>2. mem = disk /\ ~cut /\ disk.version # 0
        /\ (disk.version >= release \/ spent["fail"] > 0)
    BY <2>1 DEF MemFits, OpenFits
  <2>3. PICK v : v = disk.version
    OBVIOUS
  <2>4. v \in 1 .. Newest(schema) /\ disk = Whole(schema, v)
    BY <2>1, <2>2, <2>3, FileForm
  <2>5. disk = [things |-> Shape(schema, v), version |-> v, used |-> TRUE]
    BY <2>1, <2>4, WholeForm
  <2>6. disk.things = Shape(schema, v)
    BY <2>5
  <2> QED
    BY <2>2, <2>3, <2>6
<1> QED
  BY <1>1, FitsCorrect, PTL

\* A statement that is refused makes the program panic, and every later start with it.
NothingRefused ==
    pc \in {"install", "tx"} /\ todo # <<>> /\ ~cut => ~Refused(mem, Head(todo))

\* Of all files only one that was half installed makes it do so.
THEOREM RefusalCorrect == Spec => []NothingRefused
<1>1. IInv => NothingRefused
  <2> SUFFICES ASSUME IInv, pc \in {"install", "tx"}, todo # <<>>, ~cut
               PROVE  ~Refused(mem, Head(todo))
    BY DEF NothingRefused
  <2>1. schema \in Schema /\ release \in Release[schema] /\ InstallFits /\ TxFits /\ MemFits
    BY DEF IInv, Typed
  <2>2. CASE pc = "install"
    <3>1. PICK L : L = Latest[schema][release]
      OBVIOUS
    <3>2. PICK e : e = Version(release)
      OBVIOUS
    <3>3. PICK q : q = Append(L, e)
      OBVIOUS
    <3>4. PICK n \in 0 .. Len(L) : disk = Ran(Unused, L)[n] /\ todo = SubSeq(q, n + 1, Len(L) + 1)
      BY <2>1, <2>2, <3>1, <3>2, <3>3 DEF InstallFits, Torn
    <3>5. L \in Seq(Statement) /\ Len(L) \in Nat \ {0}
      BY <2>1, <3>1, ReleaseForm
    <3>6. q \in Seq(Statement \cup {e}) /\ Len(q) = Len(L) + 1 /\ n \in 0 .. Len(q) - 1
          /\ q[Len(L) + 1] = e /\ \A i \in 1 .. Len(L) : q[i] = L[i]
      BY <3>3, <3>5
    <3>7. Head(todo) = q[n + 1]
      BY <3>4, <3>6, Rest
    <3>8. CASE n = Len(L)
      <4>1. Head(todo) = e
        BY <3>6, <3>7, <3>8
      <4>2. ~Refused(mem, e)
        BY <3>2 DEF Refused, Missing, Version
      <4> QED
        BY <4>1, <4>2
    <3>9. CASE n # Len(L)
      <4>1. n + 1 \in 1 .. Len(L) /\ (n + 1) - 1 = n
        BY <3>5, <3>9
      <4>2. ~Refused(Ran(Unused, L)[n], L[n + 1])
        BY <2>1, <3>1, <4>1, LatestAssumption DEF Accepts
      <4> QED
        BY <2>1, <2>2, <3>4, <3>6, <3>7, <4>1, <4>2 DEF MemFits
    <3> QED
      BY <3>8, <3>9
  <2>3. CASE pc = "tx"
    <3>1. PICK k \in 1 .. Newest(schema) :
            k < release /\ \E j \in 0 .. Len(Steps(schema, k + 1)) - 1 : Amid(k, j)
      BY <2>1, <2>3 DEF TxFits
    <3>2. PICK m : m = k + 1
      OBVIOUS
    <3>3. PICK q : q = Steps(schema, m)
      OBVIOUS
    <3>4. PICK j \in 0 .. Len(q) - 1 :
            mem = Ran(Whole(schema, k), q)[j] /\ todo = SubSeq(q, j + 1, Len(q))
      BY <3>1, <3>2, <3>3 DEF Amid, Stage
    <3>5. m \in 2 .. Newest(schema) /\ m \in 1 .. Newest(schema) /\ m - 1 = k
      <4>1. release \in 2 .. Newest(schema) /\ Newest(schema) \in Nat
        BY <2>1, ReleaseForm
      <4> QED
        BY <3>1, <3>2, <4>1
    <3>6. q \in Seq(Statement \cup {Version(m)}) /\ Len(q) \in Nat
      BY <2>1, <3>3, <3>5, StepsForm
    <3>7. Head(todo) = q[j + 1] /\ j + 1 \in 1 .. Len(q) /\ (j + 1) - 1 = j
      <4>1. PICK l \in Nat : l = Len(q)
        BY <3>6
      <4> QED
        BY <3>4, <3>6, <4>1, Rest
    <3>8. Accepts(Whole(schema, k), q)
      BY <2>1, <3>3, <3>5, WholeNext
    <3> QED
      BY <3>4, <3>7, <3>8 DEF Accepts
  <2> QED
    BY <2>2, <2>3
<1> QED
  BY <1>1, FitsCorrect, PTL
=============================================================================
