------------------------------ MODULE WireProofs ------------------------------
(***************************************************************************)
(* Theorems about numbers and strings on the wire, for words of any width, *)
(* and about Wire, for all calls and bodies of whose objects its           *)
(* assumptions say how they are written and read one by one.               *)
(***************************************************************************)
EXTENDS Wire, Varint, NaturalsInduction, SequenceTheorems, WellFoundedInduction, TLAPS

-----------------------------------------------------------------------------
\* A set of numbers that begins at a and goes on up to b has them all.
LEMMA Counting ==
    ASSUME NEW a \in Int, NEW b \in Int, NEW S, a \in S,
           \A i \in a .. b - 1 : i \in S => i + 1 \in S
    PROVE  a .. b \subseteq S
<1> DEFINE B == {d \in Nat : a + d <= b /\ a + d \notin S}
           R == {ss \in Nat \X Nat : ss[1] < ss[2]}
<1>1. IsWellFoundedOn(R, Nat)
  BY NatLessThanWellFounded, Zenon DEF OpToRel
<1>2. SUFFICES ASSUME B # {} PROVE FALSE
  <2>1. ASSUME NEW i \in a .. b, B = {} PROVE i \in S
    <3>1. PICK d \in Nat : d = i - a
      OBVIOUS
    <3>2. a + d = i /\ a + d <= b
      BY <3>1
    <3>3. d \notin B
      BY <2>1
    <3> QED
      BY <3>2, <3>3
  <2> QED
    BY <2>1
<1>3. PICK d \in B : \A y \in B : <<y, d>> \notin R
  <2>1. B \subseteq Nat
    OBVIOUS
  <2> HIDE DEF B, R
  <2> QED
    BY <1>1, <1>2, <2>1, WFMin
<1>4. d # 0
  OBVIOUS
<1>5. d - 1 \in Nat /\ d - 1 < d /\ a + (d - 1) \in a .. b - 1
  BY <1>4
<1>6. d - 1 \notin B
  BY <1>3, <1>5
<1>7. a + (d - 1) \in S
  BY <1>5, <1>6
<1>8. a + (d - 1) + 1 \in S /\ a + (d - 1) + 1 = a + d
  BY <1>5, <1>7
<1> QED
  BY <1>8

-----------------------------------------------------------------------------
(* Prefixes of sequences of bytes.                                         *)

\* What a sequence begins with.
LEMMA Beginning ==
    ASSUME NEW s \in Seq(Nat), NEW t \in Seq(Nat)
    PROVE  Len(s) \in 0 .. Len(s \o t) /\ SubSeq(s \o t, 1, Len(s)) = s
<1>1. PICK u \in Seq(Nat) : u = s \o t
  BY ConcatProperties
<1>2. PICK l \in Nat : l = Len(s)
  BY LenProperties
<1>3. PICK m \in Nat : m = Len(u)
  BY LenProperties
<1>4. l \in 0 .. m /\ \A i \in 1 .. l : u[i] = s[i]
  <2>1. m = l + Len(t) /\ Len(t) \in Nat
    BY <1>1, <1>2, <1>3, ConcatProperties, LenProperties
  <2>2. \A i \in 1 .. l + Len(t) : u[i] = IF i <= l THEN s[i] ELSE t[i - l]
    BY <1>1, <1>2, ConcatProperties
  <2>3. l \in 0 .. m
    BY <2>1
  <2>4. ASSUME NEW i \in 1 .. l PROVE u[i] = s[i]
    <3>1. i \in 1 .. l + Len(t) /\ i <= l
      BY <2>1
    <3> QED
      BY <2>2, <3>1
  <2> QED
    BY <2>3, <2>4
<1>5. \A i \in 1 .. l : u[i] \in Nat
  BY <1>2, <1>4, ElementOfSeq
<1>6. /\ SubSeq(u, 1, l) \in Seq(Nat)
      /\ Len(SubSeq(u, 1, l)) = IF 1 <= l THEN l - 1 + 1 ELSE 0
      /\ \A i \in 1 .. l - 1 + 1 : SubSeq(u, 1, l)[i] = u[1 + i - 1]
  BY <1>5, SubSeqProperties
<1>7. Len(SubSeq(u, 1, l)) = l
  BY <1>6
<1>8. \A i \in 1 .. l : SubSeq(u, 1, l)[i] = s[i]
  BY <1>4, <1>6
<1>9. SubSeq(u, 1, l) = s
  BY <1>2, <1>6, <1>7, <1>8, SeqEqual
<1> QED
  BY <1>1, <1>2, <1>3, <1>4, <1>9

\* It is one of its prefixes.
LEMMA PrefixOfWhole ==
    ASSUME NEW s \in Seq(Nat), NEW t \in Seq(Nat)
    PROVE  s \in Prefixes(s \o t)
  BY Beginning DEF Prefixes

LEMMA BeginsWith ==
    ASSUME NEW s \in Seq(Nat), NEW t \in Seq(Nat), NEW u \in Seq(Nat), s \o t = u
    PROVE  IsPrefix(s, u)
<1>1. Len(s) \in Nat /\ Len(u) \in Nat
  BY LenProperties
<1>2. Len(s) <= Len(u) /\ SubSeq(u, 1, Len(s)) = s
  BY <1>1, Beginning
<1>3. SubSeq(s, 1, Len(s)) = s
  BY SubSeqFull
<1> QED
  BY <1>2, <1>3 DEF IsPrefix

\* A prefix of a sequence is followed by the rest of it.
LEMMA RestOfPrefix ==
    ASSUME NEW u \in Seq(Nat), NEW s \in Prefixes(u)
    PROVE  s \in Seq(Nat) /\ \E t \in Seq(Nat) : s \o t = u
<1>1. PICK m \in Nat : m = Len(u)
  BY LenProperties
<1>2. PICK l \in 0 .. m : s = SubSeq(u, 1, l)
  BY <1>1 DEF Prefixes
<1>3. \A i \in 1 .. m : u[i] \in Nat
  BY <1>1, ElementOfSeq
<1>4. s \in Seq(Nat)
  BY <1>2, <1>3, SubSeqProperties
<1>5. SubSeq(u, l + 1, m) \in Seq(Nat)
  BY <1>2, <1>3, SubSeqProperties
<1>6. SubSeq(u, 1, l) \o SubSeq(u, l + 1, m) = SubSeq(u, 1, m)
  <2>1. 1 \in 1 .. Len(u) + 1 /\ l \in 1 - 1 .. Len(u) /\ m \in l .. Len(u)
    BY <1>1, <1>2
  <2> QED
    BY <2>1, ConcatAdjacentSubSeq
<1>7. SubSeq(u, 1, m) = u
  BY <1>1, SubSeqFull
<1> QED
  BY <1>2, <1>4, <1>5, <1>6, <1>7

\* What a sequence has beyond the length of another one.
Beyond(a, c) == SubSeq(a, Len(c) + 1, Len(a))

\* a and then b make u.
Joined(a, b, u) == a \o b = u

\* Two ways to take a sequence apart: the longer first part goes on where the shorter
\* one ends.
LEMMA LongerPart ==
    ASSUME NEW a \in Seq(Nat), NEW b \in Seq(Nat), NEW c \in Seq(Nat), NEW d \in Seq(Nat),
           NEW u, Joined(a, b, u), Joined(c, d, u), Len(c) <= Len(a)
    PROVE  /\ Beyond(a, c) \in Seq(Nat)
           /\ Joined(c, Beyond(a, c), a) /\ Joined(Beyond(a, c), b, d)
<1>1. PICK l \in Nat : l = Len(a)
  BY LenProperties
<1>2. PICK k \in Nat : k = Len(c)
  BY LenProperties
<1>3. k \in 0 .. l
  BY <1>1, <1>2
<1>4. \A i \in 1 .. k : a[i] = c[i]
  <2>0. a \o b = c \o d
    BY DEF Joined
  <2>1. \A i \in 1 .. l + Len(b) : (a \o b)[i] = IF i <= l THEN a[i] ELSE b[i - l]
    BY <1>1, ConcatProperties
  <2>2. \A i \in 1 .. k + Len(d) : (c \o d)[i] = IF i <= k THEN c[i] ELSE d[i - k]
    BY <1>2, ConcatProperties
  <2>3. Len(b) \in Nat /\ Len(d) \in Nat
    BY LenProperties
  <2>4. ASSUME NEW i \in 1 .. k PROVE a[i] = c[i]
    <3>1. i \in 1 .. l + Len(b) /\ i <= l /\ i \in 1 .. k + Len(d) /\ i <= k
      BY <1>3, <2>3
    <3>2. (a \o b)[i] = a[i] /\ (c \o d)[i] = c[i]
      BY <2>1, <2>2, <3>1
    <3> QED
      BY <2>0, <3>2
  <2> QED
    BY <2>4
<1>5. \A i \in 1 .. l : a[i] \in Nat
  BY <1>1, ElementOfSeq
<1>6. PICK q : q = SubSeq(a, 1, k)
  OBVIOUS
<1>7. PICK p : p = SubSeq(a, k + 1, l)
  OBVIOUS
<1>8. p \in Seq(Nat) /\ q \in Seq(Nat)
  BY <1>3, <1>5, <1>6, <1>7, SubSeqProperties
<1>9. q = c
  <2>1. /\ Len(q) = IF 1 <= k THEN k - 1 + 1 ELSE 0
        /\ \A i \in 1 .. k - 1 + 1 : q[i] = a[1 + i - 1]
    <3>1. \A i \in 1 .. k : a[i] \in Nat
      BY <1>3, <1>5
    <3> QED
      BY <1>6, <3>1, SubSeqProperties
  <2>2. Len(q) = k
    BY <2>1
  <2>3. \A i \in 1 .. k : q[i] = c[i]
    BY <1>4, <2>1
  <2> QED
    BY <1>2, <1>8, <2>2, <2>3, SeqEqual
<1>10. q \o p = a
  <2>1. 1 \in 1 .. Len(a) + 1 /\ k \in 1 - 1 .. Len(a) /\ l \in k .. Len(a)
    BY <1>1, <1>3
  <2>2. SubSeq(a, 1, k) \o SubSeq(a, k + 1, l) = SubSeq(a, 1, l)
    BY <2>1, ConcatAdjacentSubSeq
  <2>3. SubSeq(a, 1, l) = a
    BY <1>1, SubSeqFull
  <2> QED
    BY <1>6, <1>7, <2>2, <2>3
<1>11. c \o (p \o b) = c \o d
  <2>1. (c \o p) \o b = c \o (p \o b)
    BY ONLY <1>8, b \in Seq(Nat), c \in Seq(Nat), ConcatAssociative, SMTT(60)
  <2> QED
    BY <1>9, <1>10, <2>1 DEF Joined
<1>12. p \o b = d
  <2>1. p \o b \in Seq(Nat)
    BY <1>8, ConcatProperties
  <2>2. \A x, y, z \in Seq(Nat) : x \o y = x \o z => y = z
    BY ConcatSimplifications, Zenon
  <2> QED
    BY ONLY <1>11, <2>1, <2>2, c \in Seq(Nat), d \in Seq(Nat)
<1> QED
  BY <1>1, <1>2, <1>7, <1>8, <1>9, <1>10, <1>12 DEF Beyond, Joined

-----------------------------------------------------------------------------
(* The sign of an integer survives its move to the lowest bit.             *)

\* A number that fits is its own remainder.
LEMMA ModSmall ==
    ASSUME NEW m \in Nat \ {0}, NEW x \in 0 .. m - 1
    PROVE  x % m = x
  BY SMT

\* One that is too large by less than m loses m.
LEMMA ModOnce ==
    ASSUME NEW m \in Nat \ {0}, NEW x \in m .. 2 * m - 1
    PROVE  x % m = x - m
  BY SMT

\* A word keeps its value, a signed one too.
LEMMA Fits ==
    /\ \A x \in Word : Uint64(x) = x
    /\ \A x \in Signed : Int64(x) = x
  <1>1. ASSUME NEW x \in Word PROVE Uint64(x) = x
    BY <1>1, ModSmall, HalfAssumption, SMT DEF Word, Uint64
  <1>2. ASSUME NEW x \in Signed PROVE Int64(x) = x
    <2>1. x + Half \in 0 .. 2 * Half - 1
      BY <1>2, HalfAssumption, SMT DEF Signed
    <2>2. (x + Half) % (2 * Half) = x + Half
      BY <2>1, ModSmall, HalfAssumption, SMT
    <2> QED
      BY <2>2, <1>2, HalfAssumption, SMT DEF Int64, Signed
  <1> QED
    BY <1>1, <1>2

\* uint64(-s) of a negative s: the least integer is its own negation, and the bits
\* of that are those of Half.
LEMMA Negation ==
    ASSUME NEW s \in Signed, s < 0
    PROVE  Uint64(Int64(-s)) = -s
  <1>1. CASE s = -Half
    <2>1. (-s + Half) % (2 * Half) = 0
      <3>1. -s + Half = 2 * Half
        BY <1>1, HalfAssumption, SMT
      <3>2. (2 * Half) % (2 * Half) = 2 * Half - 2 * Half
        BY ModOnce, HalfAssumption, SMT
      <3> QED
        BY <3>1, <3>2, HalfAssumption, SMT
    <2>2. Int64(-s) = -Half
      BY <2>1, HalfAssumption, SMT DEF Int64
    <2>3. (-Half) % (2 * Half) = Half
      BY HalfAssumption, SMT
    <2> QED
      BY <2>2, <2>3, <1>1, HalfAssumption, SMT DEF Uint64
  <1>2. CASE s # -Half
    <2>1. -s \in Signed /\ -s \in Word
      BY <1>2, HalfAssumption, SMT DEF Signed, Word
    <2> QED
      BY <2>1, Fits
  <1> QED
    BY <1>1, <1>2

\* writeInt writes a word, and readInt of it is the integer that was written
\* (transfer.go: "keep the full range of int64 intact").
THEOREM SignKept ==
    ASSUME NEW s \in Signed
    PROVE  SignLast(s) \in Word /\ SignFirst(SignLast(s)) = s
  <1>1. CASE s < 0
    <2>1. SignLast(s) = Uint64(2 * (-s - 1) + 1)
      BY <1>1, Negation DEF SignLast
    <2>2. 2 * (-s - 1) + 1 \in Word
      BY <1>1, HalfAssumption, SMT DEF Signed, Word
    <2>3. SignLast(s) = 2 * (-s - 1) + 1
      BY <2>1, <2>2, Fits
    <2>4. SignLast(s) % 2 # 0 /\ SignLast(s) \div 2 = -s - 1
      BY <2>3, <1>1, HalfAssumption, SMT DEF Signed
    <2>5. -s - 1 \in Signed /\ -(-s - 1) - 1 = s
      BY <1>1, HalfAssumption, SMT DEF Signed
    <2>6. SignFirst(SignLast(s)) = Int64(-Int64(-s - 1) - 1)
      BY <2>4 DEF SignFirst
    <2> QED
      BY <2>2, <2>3, <2>5, <2>6, Fits
  <1>2. CASE s >= 0
    <2>1. s \in Word /\ 2 * s \in Word
      BY <1>2, HalfAssumption, SMT DEF Signed, Word
    <2>2. ~(s < 0)
      BY <1>2, HalfAssumption, SMT DEF Signed
    <2>3. SignLast(s) = 2 * s
      BY <2>1, <2>2, Fits DEF SignLast
    <2>4. SignLast(s) % 2 = 0 /\ SignLast(s) \div 2 = s
      BY <2>3, <1>2, HalfAssumption, SMT DEF Signed
    <2> QED
      BY <2>1, <2>3, <2>4, Fits DEF SignFirst
  <1> QED
    BY <1>1, <1>2, HalfAssumption, SMT DEF Signed

\* So no two integers are written alike.
THEOREM SignLastInjective ==
    ASSUME NEW r \in Signed, NEW s \in Signed, SignLast(r) = SignLast(s)
    PROVE  r = s
  BY SignKept

-----------------------------------------------------------------------------
(* Division.                                                               *)

\* x is q times m and r more.
Divided(x, m, q, r) == x = q * m + r /\ r < m

LEMMA Quotient ==
    ASSUME NEW m \in Nat \ {0}, NEW q \in Nat, NEW r \in Nat, NEW x, Divided(x, m, q, r)
    PROVE  x \div m = q /\ x % m = r
<1>0. x = q * m + r /\ r < m
  BY DEF Divided
<1>1. x \in Nat
  BY <1>0
<1>2. PICK d \in Int : d = x \div m
  BY <1>1
<1>3. PICK e \in Nat : e = x % m
  BY <1>1
<1>4. x = d * m + e /\ e < m
  BY <1>1, <1>2, <1>3
<1>5. (q - d) * m = e - r
  BY <1>0, <1>4
<1>6. CASE q - d >= 1
  <2>1. (q - d) * m >= m
    BY <1>6
  <2> QED
    BY <1>0, <1>4, <1>5, <2>1
<1>7. CASE q - d <= -1
  <2>1. (q - d) * m <= -m
    BY <1>7
  <2> QED
    BY <1>0, <1>4, <1>5, <2>1
<1>8. CASE q - d = 0
  BY <1>0, <1>2, <1>3, <1>4, <1>5, <1>8
<1> QED
  BY <1>6, <1>7, <1>8

\* What division by m leaves of a number, and how often m goes into it.
LEMMA Division ==
    ASSUME NEW m \in Nat \ {0}, NEW x \in Nat
    PROVE  /\ x \div m \in Nat /\ x % m \in Nat /\ x % m < m
           /\ x = (x \div m) * m + (x % m)
  BY SMT

\* The next group: what is left of v after it is what was left before, and the group in
\* its place.
LEMMA NextGroup ==
    ASSUME NEW v \in Nat, NEW p \in Nat \ {0}
    PROVE  v % (Base * p) = (v % p) + ((v \div p) % Base) * p
<1>1. PICK a \in Nat : a = v \div p
  BY Division
<1>2. PICK r \in Nat : r = v % p
  BY Division
<1>3. v = a * p + r /\ r < p
  BY <1>1, <1>2, Division
<1>4. Base \in Nat \ {0}
  BY BaseAssumption
<1>5. PICK c \in Nat : c = a \div Base
  BY <1>4, Division
<1>6. PICK d \in Nat : d = a % Base
  BY <1>4, Division
<1>7. a = c * Base + d /\ d < Base
  BY <1>4, <1>5, <1>6, Division
<1>8. d * p + r \in Nat /\ d * p + r < Base * p
  <2>1. d * p \in Nat
    OBVIOUS
  <2>2. d * p + p = (d + 1) * p
    OBVIOUS
  <2>3. PICK k \in Nat : Base = (d + 1) + k
    <3>1. Base - (d + 1) \in Nat
      BY <1>4, <1>7
    <3> QED
      BY <1>4, <3>1
  <2>4. Base * p = (d + 1) * p + k * p /\ k * p \in Nat
    BY <2>3
  <2> QED
    BY <1>3, <2>1, <2>2, <2>4
<1>9. v = c * (Base * p) + (d * p + r)
  <2>1. v = (c * Base + d) * p + r
    BY <1>3, <1>7
  <2>2. (c * Base + d) * p = c * (Base * p) + d * p
    BY <1>4
  <2> QED
    BY <2>1, <2>2, <1>4
<1>10. Base * p \in Nat \ {0}
  BY <1>4
<1>11. v % (Base * p) = d * p + r
  <2>1. PICK m \in Nat \ {0} : m = Base * p
    BY <1>10
  <2>2. PICK y \in Nat : y = d * p + r
    BY <1>8
  <2>3. Divided(v, m, c, y)
    BY <1>8, <1>9, <2>1, <2>2 DEF Divided
  <2>4. v % m = y
    BY <2>3, Quotient
  <2> QED
    BY <2>1, <2>2, <2>4
<1> QED
  BY <1>1, <1>2, <1>6, <1>11

-----------------------------------------------------------------------------
(* The places of groups.                                                   *)

\* Every place is Base times the one before.
LEMMA PlaceSteps ==
    /\ Place[0] = 1
    /\ \A i \in Nat : Place[i] \in Nat \ {0} /\ Place[i + 1] = Base * Place[i]
<1> DEFINE Is(g, n) == g = [i \in 0 .. n |-> IF i = 0 THEN 1 ELSE Base * g[i - 1]]
           All(g) == g = [i \in Nat |-> IF i = 0 THEN 1 ELSE Base * g[i - 1]]
           S == {n \in Nat : \E g : Is(g, n)}
           G(n) == CHOOSE g : Is(g, n)
           f == [n \in Nat |-> G(n)[n]]
<1>1. Place = CHOOSE g : All(g)
  BY Zenon DEF Place
<1>2. ASSUME NEW n \in Nat PROVE n \in S
  <2>1. 0 \in S
    <3>1. Is([i \in 0 .. 0 |-> 1], 0)
      OBVIOUS
    <3> QED
      BY <3>1
  <2>2. ASSUME NEW k \in 0 .. n - 1, k \in S PROVE k + 1 \in S
    <3>1. PICK g : Is(g, k)
      BY <2>2
    <3> DEFINE h == [i \in 0 .. k + 1 |-> IF i = 0 THEN 1 ELSE Base * g[i - 1]]
    <3>2. \A i \in 0 .. k : h[i] = g[i]
      BY <3>1
    <3>3. Is(h, k + 1)
      <4>1. \A i \in 0 .. k + 1 : i # 0 => i - 1 \in 0 .. k
        OBVIOUS
      <4> QED
        BY <3>2, <4>1
    <3>4. k + 1 \in Nat
      OBVIOUS
    <3> HIDE DEF Is, h
    <3> QED
      BY <3>3, <3>4
  <2>3. n \in 0 .. n /\ 0 \in Int /\ n \in Int
    OBVIOUS
  <2> HIDE DEF S
  <2>4. 0 .. n \subseteq S
    BY <2>1, <2>2, <2>3, Counting
  <2> QED
    BY <2>3, <2>4
<1>3. ASSUME NEW n \in Nat PROVE Is(G(n), n)
  <2>1. \E g : Is(g, n)
    BY <1>2
  <2> HIDE DEF Is
  <2> QED
    BY <2>1
<1>4. ASSUME NEW n \in Nat
      PROVE  G(n)[0] = 1 /\ \A i \in 1 .. n : G(n)[i] = Base * G(n)[i - 1]
  <2>1. PICK g : g = G(n)
    OBVIOUS
  <2>2. Is(g, n)
    <3> HIDE DEF Is, G
    <3> QED
      BY <1>3, <2>1
  <2> HIDE DEF G
  <2>3. g[0] = 1 /\ \A i \in 1 .. n : g[i] = Base * g[i - 1]
    BY <2>2
  <2> QED
    BY <2>1, <2>3
<1>5. ASSUME NEW n \in Nat PROVE G(n + 1)[n] = G(n)[n]
  <2> DEFINE T == {i \in 0 .. n : G(n + 1)[i] = G(n)[i]}
  <2>1. n + 1 \in Nat
    OBVIOUS
  <2>2. /\ G(n)[0] = 1 /\ G(n + 1)[0] = 1
        /\ \A i \in 1 .. n : G(n)[i] = Base * G(n)[i - 1]
        /\ \A i \in 1 .. n + 1 : G(n + 1)[i] = Base * G(n + 1)[i - 1]
    BY <1>4, <2>1
  <2> HIDE DEF G
  <2>3. 0 \in T
    BY <2>2
  <2>4. ASSUME NEW i \in 0 .. n - 1, i \in T PROVE i + 1 \in T
    <3>1. i + 1 \in 1 .. n /\ i + 1 \in 1 .. n + 1 /\ (i + 1) - 1 = i /\ i + 1 \in 0 .. n
      OBVIOUS
    <3>2. G(n)[i + 1] = Base * G(n)[i] /\ G(n + 1)[i + 1] = Base * G(n + 1)[i]
      BY <2>2, <3>1
    <3> QED
      BY <2>4, <3>1, <3>2
  <2>5. n \in 0 .. n /\ 0 \in Int /\ n \in Int
    OBVIOUS
  <2>6. 0 .. n \subseteq T
    <3> HIDE DEF T
    <3> QED
      BY <2>3, <2>4, <2>5, Counting
  <2> QED
    BY <2>5, <2>6
<1>6. f[0] = 1
  BY <1>4
<1>7. ASSUME NEW n \in Nat \ {0} PROVE f[n] = Base * f[n - 1]
  <2>1. n - 1 \in Nat /\ (n - 1) + 1 = n /\ n \in 1 .. n
    OBVIOUS
  <2>2. G(n)[n] = Base * G(n)[n - 1]
    BY <1>4, <2>1
  <2>3. G(n)[n - 1] = G(n - 1)[n - 1]
    BY <1>5, <2>1
  <2> HIDE DEF G
  <2> QED
    BY <2>1, <2>2, <2>3
<1>8. All(f)
  <2> HIDE DEF G
  <2> DEFINE h == [i \in Nat |-> IF i = 0 THEN 1 ELSE Base * f[i - 1]]
  <2>1. \A i \in Nat : f[i] = h[i]
    BY <1>6, <1>7
  <2> QED
    BY <2>1
<1>9. All(Place)
  <2> HIDE DEF All, f
  <2> QED
    BY <1>1, <1>8
<1>10. Place[0] = 1 /\ \A i \in Nat : Place[i + 1] = Base * Place[i]
  <2>1. \A i \in Nat : i + 1 \in Nat /\ i + 1 # 0 /\ (i + 1) - 1 = i
    OBVIOUS
  <2> QED
    BY <1>9, <2>1
<1>11. ASSUME NEW n \in Nat PROVE Place[n] \in Nat \ {0}
  <2> DEFINE T == {i \in Nat : Place[i] \in Nat \ {0}}
  <2>1. 0 \in T
    BY <1>10
  <2>2. ASSUME NEW i \in 0 .. n - 1, i \in T PROVE i + 1 \in T
    <3>1. i \in Nat /\ i + 1 \in Nat
      OBVIOUS
    <3>2. PICK p \in Nat \ {0} : p = Place[i]
      BY <2>2
    <3>3. Base * p \in Nat \ {0}
      BY BaseAssumption
    <3> QED
      BY <1>10, <3>1, <3>2, <3>3
  <2>3. n \in 0 .. n /\ 0 \in Int /\ n \in Int
    OBVIOUS
  <2> HIDE DEF T
  <2>4. 0 .. n \subseteq T
    BY <2>1, <2>2, <2>3, Counting
  <2> QED
    BY <2>3, <2>4 DEF T
<1> QED
  BY <1>10, <1>11

\* There is a place for every number.
LEMMA PlaceGrows == \A n \in Nat : n < Place[n]
<1> SUFFICES ASSUME NEW n \in Nat PROVE n < Place[n]
  OBVIOUS
<1> DEFINE T == {i \in Nat : i < Place[i]}
<1>1. 0 \in T
  BY PlaceSteps
<1>2. ASSUME NEW i \in 0 .. n - 1, i \in T PROVE i + 1 \in T
  <2>1. i \in Nat /\ i + 1 \in Nat
    OBVIOUS
  <2>2. PICK p \in Nat \ {0} : p = Place[i]
    BY <2>1, PlaceSteps
  <2>3. Place[i + 1] = Base * p
    BY <2>1, <2>2, PlaceSteps
  <2>4. i < p
    BY <1>2, <2>2
  <2>5. PICK k \in Nat : Base = 2 + k
    <3>1. Base - 2 \in Nat
      BY BaseAssumption
    <3> QED
      BY <3>1, BaseAssumption
  <2>6. Base * p = p + p + k * p /\ k * p \in Nat
    BY <2>5
  <2>7. i + 1 < Base * p
    BY <2>4, <2>6
  <2> QED
    BY <2>1, <2>3, <2>7
<1>3. n \in 0 .. n /\ 0 \in Int /\ n \in Int
  OBVIOUS
<1> HIDE DEF T
<1>4. 0 .. n \subseteq T
  BY <1>1, <1>2, <1>3, Counting
<1> QED
  BY <1>3, <1>4 DEF T

\* The groups hold the number, and one less does not.
LEMMA GroupsDef ==
    ASSUME NEW v \in Nat
    PROVE  /\ Groups(v) \in Nat \ {0}
           /\ v < Place[Groups(v)]
           /\ \A k \in 1 .. Groups(v) - 1 : v >= Place[k]
<1> DEFINE N == {n \in 1 .. v + 1 : v < Place[n]}
           R == {ss \in Nat \X Nat : ss[1] < ss[2]}
<1>1. IsWellFoundedOn(R, Nat)
  BY NatLessThanWellFounded, Zenon DEF OpToRel
<1>2. N \subseteq Nat
  OBVIOUS
<1>3. N # {}
  <2>1. v + 1 \in Nat /\ v + 1 \in 1 .. v + 1
    OBVIOUS
  <2>2. v + 1 < Place[v + 1] /\ Place[v + 1] \in Nat
    BY <2>1, PlaceGrows, PlaceSteps
  <2>3. v < Place[v + 1]
    BY <2>2
  <2> QED
    BY <2>1, <2>3
<1>4. PICK n \in N : \A y \in N : <<y, n>> \notin R
  <2> HIDE DEF N, R
  <2> QED
    BY <1>1, <1>2, <1>3, WFMin
<1>5. \A k \in 1 .. n - 1 : v >= Place[k]
  <2>1. ASSUME NEW k \in 1 .. n - 1, ~(v >= Place[k]) PROVE FALSE
    <3>1. k \in Nat /\ n \in Nat /\ k < n /\ k \in 1 .. v + 1
      OBVIOUS
    <3>2. <<k, n>> \in R
      BY <3>1
    <3>3. v < Place[k]
      BY <2>1, <3>1, PlaceSteps
    <3>4. k \in N
      BY <3>1, <3>3
    <3> QED
      BY <1>4, <3>2, <3>4
  <2> QED
    BY <2>1
<1> DEFINE Fits1(m) == v < Place[m] /\ \A k \in 1 .. m - 1 : v >= Place[k]
<1>6. n \in 1 .. v + 1 /\ Fits1(n)
  BY <1>5
<1>7. Groups(v) = CHOOSE m \in 1 .. v + 1 : Fits1(m)
  BY DEF Groups
<1>8. Groups(v) \in 1 .. v + 1 /\ Fits1(Groups(v))
  <2> HIDE DEF Fits1
  <2> QED
    BY <1>6, <1>7
<1> QED
  BY <1>8

-----------------------------------------------------------------------------
(* Numbers on the wire.                                                    *)

\* The bytes of a number: its groups, and all but the last one say that more follow.
LEMMA BytesOfNumber ==
    ASSUME NEW v \in Nat
    PROVE  /\ WriteUint(v) \in Seq(Nat) /\ Len(WriteUint(v)) = Groups(v)
           /\ \A i \in 1 .. Groups(v) :
                /\ WriteUint(v)[i] % Base = (v \div Place[i - 1]) % Base
                /\ WriteUint(v)[i] < Base <=> i = Groups(v)
<1>1. PICK n \in Nat \ {0} : n = Groups(v)
  BY GroupsDef
<1>2. Base \in Nat \ {0}
  BY BaseAssumption
<1>3. PICK w : w = WriteUint(v)
  OBVIOUS
<1>4. w = [i \in 1 .. n |-> ((v \div Place[i - 1]) % Base) + (IF i < n THEN Base ELSE 0)]
  BY <1>1, <1>3 DEF WriteUint
<1>5. ASSUME NEW i \in 1 .. n
      PROVE  /\ w[i] \in Nat /\ w[i] % Base = (v \div Place[i - 1]) % Base
             /\ w[i] < Base <=> i = n
  <2>1. i - 1 \in Nat
    OBVIOUS
  <2>2. PICK p \in Nat \ {0} : p = Place[i - 1]
    BY <2>1, PlaceSteps
  <2>3. PICK a \in Nat : a = v \div p
    BY Division
  <2>4. PICK d \in Nat : d = a % Base /\ d < Base
    BY <1>2, Division
  <2>5. w[i] = d + (IF i < n THEN Base ELSE 0)
    BY <1>4, <2>2, <2>3, <2>4
  <2>6. CASE i < n
    <3>1. Divided(w[i], Base, 1, d)
      BY <1>2, <2>4, <2>5, <2>6 DEF Divided
    <3>2. w[i] % Base = d
      BY <1>2, <3>1, Quotient
    <3> QED
      BY <1>2, <2>2, <2>3, <2>4, <2>5, <2>6, <3>2
  <2>7. CASE i = n
    <3>1. Divided(w[i], Base, 0, d)
      BY <1>2, <2>4, <2>5, <2>7 DEF Divided
    <3>2. w[i] % Base = d
      BY <1>2, <3>1, Quotient
    <3> QED
      BY <1>2, <2>2, <2>3, <2>4, <2>5, <2>7, <3>2
  <2> QED
    BY <2>6, <2>7
<1>6. w \in Seq(Nat) /\ Len(w) = n
  <2>1. w \in [1 .. n -> Nat]
    BY <1>4, <1>5
  <2> QED
    BY <2>1
<1> QED
  BY <1>1, <1>3, <1>5, <1>6

\* What ReadUint adds up.
LEMMA Summed ==
    ASSUME NEW s, Len(s) \in Nat
    PROVE  \E sum : /\ sum[0] = 0
                    /\ \A i \in 1 .. Len(s) :
                         sum[i] = sum[i - 1] + Uint64((s[i] % Base) * Place[i - 1])
                    /\ sum[Len(s)] = ReadUint(s)
<1> DEFINE Add(x, i) == x + Uint64((s[i] % Base) * Place[i - 1])
           Is(g, n) == g = [i \in 0 .. n |-> IF i = 0 THEN 0 ELSE Add(g[i - 1], i)]
           S == {n \in Nat : \E g : Is(g, n)}
           sum == CHOOSE g : Is(g, Len(s))
<1>1. ReadUint(s) = sum[Len(s)]
  BY Zenon DEF ReadUint
<1> HIDE DEF Add
<1>2. 0 \in S
  <2>1. Is([i \in 0 .. 0 |-> 0], 0)
    OBVIOUS
  <2> QED
    BY <2>1
<1>3. ASSUME NEW n \in 0 .. Len(s) - 1, n \in S PROVE n + 1 \in S
  <2>1. PICK g : Is(g, n)
    BY <1>3
  <2> DEFINE h == [i \in 0 .. n + 1 |-> IF i = 0 THEN 0 ELSE Add(g[i - 1], i)]
  <2>2. \A i \in 0 .. n : h[i] = g[i]
    BY <2>1
  <2>3. Is(h, n + 1)
    <3>1. \A i \in 0 .. n + 1 : i # 0 => i - 1 \in 0 .. n
      OBVIOUS
    <3> QED
      BY <2>2, <3>1
  <2>4. n + 1 \in Nat
    OBVIOUS
  <2> HIDE DEF Is, h
  <2> QED
    BY <2>3, <2>4
<1>4. Len(s) \in S
  <2>1. Len(s) \in 0 .. Len(s) /\ 0 \in Int /\ Len(s) \in Int
    OBVIOUS
  <2> HIDE DEF S
  <2>2. 0 .. Len(s) \subseteq S
    BY <1>2, <1>3, <2>1, Counting
  <2> QED
    BY <2>1, <2>2
<1>5. Is(sum, Len(s))
  <2>1. \E g : Is(g, Len(s))
    BY <1>4
  <2> HIDE DEF Is
  <2> QED
    BY <2>1
<1>6. PICK f : f = sum
  OBVIOUS
<1>7. f[0] = 0 /\ \A i \in 1 .. Len(s) : f[i] = Add(f[i - 1], i)
  <2>1. Is(f, Len(s))
    BY <1>5, <1>6
  <2> QED
    BY <2>1
<1>8. f[Len(s)] = ReadUint(s)
  BY <1>1, <1>6
<1> QED
  BY <1>7, <1>8 DEF Add

\* The number in the bytes of a word is that word: nothing of it is shifted out.
LEMMA ReadBack ==
    ASSUME NEW v \in Word
    PROVE  ReadUint(WriteUint(v)) = v
<1>1. v \in Nat /\ v < 2 * Half
  BY HalfAssumption DEF Word
<1>2. PICK n \in Nat \ {0} : n = Groups(v)
  BY <1>1, GroupsDef
<1>3. PICK w : w = WriteUint(v)
  OBVIOUS
<1>4. Len(w) = n /\ \A i \in 1 .. n : w[i] % Base = (v \div Place[i - 1]) % Base
  BY <1>1, <1>2, <1>3, BytesOfNumber
<1>5. PICK sum : /\ sum[0] = 0
                 /\ \A i \in 1 .. n : sum[i] = sum[i - 1] + Uint64((w[i] % Base) * Place[i - 1])
                 /\ sum[n] = ReadUint(w)
  BY <1>4, Summed
<1> DEFINE S == {i \in Nat : sum[i] = v % Place[i]}
<1>6. 0 \in S
  <2>1. Divided(v, 1, v, 0)
    BY <1>1 DEF Divided
  <2>2. v % 1 = 0
    BY <1>1, <2>1, Quotient
  <2> QED
    BY <1>5, <2>2, PlaceSteps
<1>7. ASSUME NEW i \in 0 .. n - 1, i \in S PROVE i + 1 \in S
  <2>1. i \in Nat /\ i + 1 \in 1 .. n /\ (i + 1) - 1 = i /\ i + 1 \in Nat
    OBVIOUS
  <2>2. PICK p \in Nat \ {0} : p = Place[i]
    BY <2>1, PlaceSteps
  <2>3. Place[i + 1] = Base * p
    BY <2>1, <2>2, PlaceSteps
  <2>4. PICK a \in Nat : a = v \div p
    BY <1>1, Division
  <2>5. PICK d \in Nat : d = a % Base
    BY BaseAssumption, Division
  <2>6. w[i + 1] % Base = d
    BY <1>4, <2>1, <2>2, <2>4, <2>5
  <2>7. v % (Base * p) = (v % p) + d * p
    BY <1>1, <2>4, <2>5, NextGroup
  <2>8. Uint64(d * p) = d * p
    <3>1. PICK m \in Nat \ {0} : m = Base * p
      BY BaseAssumption
    <3>2. PICK r \in Nat : r = v % p
      BY <1>1, Division
    <3>3. PICK k \in Nat : k = d * p
      OBVIOUS
    <3>4. v % m <= v
      <4>1. v \div m \in Nat /\ v % m \in Nat /\ v = (v \div m) * m + (v % m)
        BY <1>1, Division
      <4>2. (v \div m) * m \in Nat
        BY <4>1
      <4> QED
        BY <4>1, <4>2
    <3>5. v % m = r + k
      BY <2>7, <3>1, <3>2, <3>3
    <3>6. k \in Word
      BY <1>1, <3>4, <3>5, HalfAssumption DEF Word
    <3> QED
      BY <3>3, <3>6, Fits
  <2>9. sum[i + 1] = sum[i] + Uint64(d * p)
    BY <1>5, <2>1, <2>2, <2>6
  <2>10. sum[i] = v % p
    BY <1>7, <2>2
  <2> QED
    BY <2>1, <2>3, <2>7, <2>8, <2>9, <2>10
<1>8. n \in S
  <2>1. n \in 0 .. n /\ 0 \in Int /\ n \in Int
    OBVIOUS
  <2> HIDE DEF S
  <2>2. 0 .. n \subseteq S
    BY <1>6, <1>7, <2>1, Counting
  <2> QED
    BY <2>1, <2>2
<1>9. v % Place[n] = v
  <2>1. PICK p \in Nat \ {0} : p = Place[n]
    BY PlaceSteps
  <2>2. Divided(v, p, 0, v)
    BY <1>1, <1>2, <2>1, GroupsDef DEF Divided
  <2>3. v % p = v
    BY <1>1, <2>2, Quotient
  <2> QED
    BY <2>1, <2>3
<1> QED
  BY <1>3, <1>5, <1>8, <1>9

\* A reader that finds a byte which nothing follows, and none before it, stops there.
LEMMA LastByte ==
    ASSUME NEW s \in Seq(Nat), NEW n \in 1 .. Len(s), s[n] < Base,
           \A i \in 1 .. n - 1 : ~(s[i] < Base)
    PROVE  UintLen(s) = n
<1>1. PICK l \in Nat : l = Len(s)
  BY LenProperties
<1> DEFINE last == {i \in 1 .. l : s[i] < Base}
           Least(i) == \A j \in last : i <= j
<1>2. n \in last
  BY <1>1
<1>3. Least(n)
  <2>1. ASSUME NEW j \in last, ~(n <= j) PROVE FALSE
    <3>1. j \in 1 .. n - 1
      BY <1>1, <2>1
    <3> QED
      BY <2>1, <3>1
  <2> QED
    BY <2>1
<1>4. \A i \in last : Least(i) => i = n
  <2>1. ASSUME NEW i \in last, Least(i) PROVE i = n
    <3>1. i <= n
      BY <1>2, <2>1
    <3>2. n <= i
      BY <1>3, <2>1
    <3> QED
      BY <1>1, <3>1, <3>2
  <2> QED
    BY <2>1
<1>5. UintLen(s) = IF last = {} THEN 0 ELSE CHOOSE i \in last : Least(i)
  BY <1>1 DEF UintLen
<1>6. last # {}
  BY <1>2
<1>7. (CHOOSE i \in last : Least(i)) = n
  <2> HIDE DEF last, Least
  <2> QED
    BY <1>2, <1>3, <1>4
<1> QED
  BY <1>5, <1>6, <1>7

\* Any word can be read from its bytes, however many bits it has and whatever follows
\* them, and the reader takes not one byte more.
THEOREM NumberKept ==
    ASSUME NEW v \in Word, NEW p \in Seq(Nat)
    PROVE  Number(WriteUint(v) \o p) = Done(v, p)
<1>1. v \in Nat
  BY HalfAssumption DEF Word
<1>2. PICK n \in Nat \ {0} : n = Groups(v)
  BY <1>1, GroupsDef
<1>3. PICK w \in Seq(Nat) : w = WriteUint(v)
  BY <1>1, BytesOfNumber
<1>4. Len(w) = n /\ \A i \in 1 .. n : w[i] < Base <=> i = n
  BY <1>1, <1>2, <1>3, BytesOfNumber
<1>5. PICK k \in Nat : k = Len(p)
  BY LenProperties
<1>6. PICK s \in Seq(Nat) : s = w \o p
  BY ConcatProperties
<1>7. Len(s) = n + k /\ \A i \in 1 .. n : s[i] = w[i]
  <2>1. Len(s) = Len(w) + Len(p)
    BY <1>6, ConcatProperties
  <2>2. \A i \in 1 .. Len(w) + Len(p) : s[i] = IF i <= Len(w) THEN w[i] ELSE p[i - Len(w)]
    BY <1>6, ConcatProperties
  <2>3. \A i \in 1 .. n : i \in 1 .. n + k /\ i <= n
    OBVIOUS
  <2> QED
    BY <1>4, <1>5, <2>1, <2>2, <2>3
<1>8. UintLen(s) = n
  <2>1. n \in 1 .. Len(s) /\ n \in 1 .. n
    BY <1>7
  <2>2. s[n] < Base /\ \A i \in 1 .. n - 1 : ~(s[i] < Base)
    BY <1>4, <1>7, <2>1
  <2> QED
    BY <2>1, <2>2, LastByte
<1>9. SubSeq(s, 1, n) = w
  BY <1>3, <1>4, <1>6, Beginning
<1>10. SubSeq(s, n + 1, Len(s)) = p
  <2>1. PICK r : r = SubSeq(s, n + 1, n + k)
    OBVIOUS
  <2>2. /\ r \in Seq(Nat)
        /\ Len(r) = IF n + 1 <= n + k THEN n + k - (n + 1) + 1 ELSE 0
        /\ \A i \in 1 .. n + k - (n + 1) + 1 : r[i] = s[n + 1 + i - 1]
    <3>1. \A i \in n + 1 .. n + k : s[i] \in Nat
      <4>1. \A i \in n + 1 .. n + k : i \in 1 .. Len(s)
        BY <1>7
      <4> QED
        BY <4>1, ElementOfSeq
    <3> QED
      BY <2>1, <3>1, SubSeqProperties
  <2>3. Len(r) = k
    BY <2>2
  <2>4. ASSUME NEW i \in 1 .. k PROVE r[i] = p[i]
    <3>1. i \in 1 .. n + k - (n + 1) + 1 /\ n + 1 + i - 1 = n + i
      OBVIOUS
    <3>2. r[i] = s[n + i]
      BY <2>2, <3>1
    <3>3. n + i \in 1 .. n + k /\ ~(n + i <= n) /\ (n + i) - n = i
      OBVIOUS
    <3>4. (w \o p)[n + i] = p[(n + i) - n]
      <4>1. \A j \in 1 .. Len(w) + Len(p) :
              (w \o p)[j] = IF j <= Len(w) THEN w[j] ELSE p[j - Len(w)]
        BY ConcatProperties
      <4> QED
        BY <1>4, <1>5, <3>3, <4>1
    <3> QED
      BY <1>6, <3>2, <3>3, <3>4
  <2>5. r = p
    BY <1>5, <2>2, <2>3, <2>4, SeqEqual
  <2> QED
    BY <1>7, <2>1, <2>5
<1>11. ReadUint(w) = v
  BY <1>3, ReadBack
<1>12. Number(s) = Done(v, p)
  BY <1>8, <1>9, <1>10, <1>11 DEF Number
<1> QED
  BY <1>3, <1>6, <1>12

\* And none can be read from less than its bytes.
THEOREM NumberWhole ==
    ASSUME NEW v \in Word, NEW s \in Prefixes(WriteUint(v)), s # WriteUint(v)
    PROVE  Number(s) = Short
<1>1. v \in Nat
  BY HalfAssumption DEF Word
<1>2. PICK n \in Nat \ {0} : n = Groups(v)
  BY <1>1, GroupsDef
<1>3. PICK w \in Seq(Nat) : w = WriteUint(v)
  BY <1>1, BytesOfNumber
<1>4. Len(w) = n /\ \A i \in 1 .. n : w[i] < Base <=> i = n
  BY <1>1, <1>2, <1>3, BytesOfNumber
<1>5. PICK k \in 0 .. n : s = SubSeq(w, 1, k)
  BY <1>3, <1>4 DEF Prefixes
<1>6. k # n
  BY <1>3, <1>4, <1>5, SubSeqFull
<1>7. Len(s) = k /\ \A i \in 1 .. k : s[i] = w[i]
  <2>1. \A i \in 1 .. k : w[i] \in Nat
    <3>1. \A i \in 1 .. k : i \in 1 .. Len(w)
      BY <1>4
    <3> QED
      BY <3>1, ElementOfSeq
  <2>2. /\ Len(SubSeq(w, 1, k)) = IF 1 <= k THEN k - 1 + 1 ELSE 0
        /\ \A i \in 1 .. k - 1 + 1 : SubSeq(w, 1, k)[i] = w[1 + i - 1]
    BY <2>1, SubSeqProperties
  <2>3. Len(s) = k
    BY <1>5, <2>2
  <2>4. \A i \in 1 .. k : s[i] = w[i]
    BY <1>5, <2>2
  <2> QED
    BY <2>3, <2>4
<1>8. \A i \in 1 .. k : ~(s[i] < Base)
  <2>1. \A i \in 1 .. k : i \in 1 .. n /\ i # n
    BY <1>6
  <2> QED
    BY <1>4, <1>7, <2>1
<1>9. {i \in 1 .. Len(s) : s[i] < Base} = {}
  BY <1>7, <1>8
<1>10. UintLen(s) = 0
  BY <1>9 DEF UintLen
<1> QED
  BY <1>10 DEF Number

\* An integer of either sign, the least one too, is read from its bytes.
THEOREM IntegerKept ==
    ASSUME NEW s \in Signed, NEW p \in Seq(Nat)
    PROVE  /\ Number(WriteUint(SignLast(s)) \o p).ok
           /\ SignFirst(Number(WriteUint(SignLast(s)) \o p).v) = s
           /\ Number(WriteUint(SignLast(s)) \o p).rest = p
<1>1. PICK v \in Word : v = SignLast(s)
  BY SignKept
<1>2. SignFirst(v) = s
  BY <1>1, SignKept
<1>3. Number(WriteUint(v) \o p) = Done(v, p)
  BY NumberKept
<1>4. /\ Number(WriteUint(v) \o p).ok /\ Number(WriteUint(v) \o p).v = v
      /\ Number(WriteUint(v) \o p).rest = p
  BY <1>3 DEF Done
<1> QED
  BY <1>1, <1>2, <1>4

\* The bytes of a string that stand behind their number are read, and what follows them
\* is left.
THEOREM StringKept ==
    ASSUME NEW s \in Seq(Nat), Len(s) \in Word, NEW p \in Seq(Nat)
    PROVE  /\ Number(WriteUint(Len(s)) \o (s \o p)) = Done(Len(s), s \o p)
           /\ Take(Len(s), s \o p) = Done(s, p)
<1>1. PICK l \in Nat : l = Len(s)
  BY LenProperties
<1>2. PICK k \in Nat : k = Len(p)
  BY LenProperties
<1>3. PICK u \in Seq(Nat) : u = s \o p
  BY ConcatProperties
<1>4. Len(u) = l + k
  BY <1>1, <1>2, <1>3, ConcatProperties
<1>5. Number(WriteUint(l) \o u) = Done(l, u)
  BY <1>1, NumberKept
<1>6. SubSeq(u, 1, l) = s
  BY <1>1, <1>3, Beginning
<1>7. Joined(SubSeq(u, 1, l), SubSeq(u, l + 1, l + k), u)
  <2>1. 1 \in 1 .. Len(u) + 1 /\ l \in 1 - 1 .. Len(u) /\ l + k \in l .. Len(u)
    BY <1>4
  <2>2. SubSeq(u, 1, l) \o SubSeq(u, l + 1, l + k) = SubSeq(u, 1, l + k)
    BY <2>1, ConcatAdjacentSubSeq
  <2>3. SubSeq(u, 1, l + k) = u
    BY <1>4, SubSeqFull
  <2> QED
    BY <2>2, <2>3 DEF Joined
<1>8. PICK r \in Seq(Nat) : r = SubSeq(u, l + 1, l + k)
  <2>1. \A i \in l + 1 .. l + k : i \in 1 .. Len(u)
    BY <1>4
  <2>2. \A i \in l + 1 .. l + k : u[i] \in Nat
    BY <2>1, ElementOfSeq
  <2>3. l + 1 \in Int /\ l + k \in Int
    OBVIOUS
  <2>4. SubSeq(u, l + 1, l + k) \in Seq(Nat)
    BY <2>2, <2>3, SubSeqProperties, Zenon
  <2> QED
    BY <2>4
<1>9. s \o r = s \o p
  BY <1>3, <1>6, <1>7, <1>8 DEF Joined
<1>10. r = p
  <2>1. \A x, y, z \in Seq(Nat) : x \o y = x \o z => y = z
    BY ConcatSimplifications, Zenon
  <2> QED
    BY ONLY <1>9, <2>1, s \in Seq(Nat), r \in Seq(Nat), p \in Seq(Nat)
<1>11. Take(l, u) = Done(s, p)
  <2>1. ~(l > Len(u))
    BY <1>4
  <2> QED
    BY <1>4, <1>6, <1>8, <1>10, <2>1 DEF Take
<1> QED
  BY <1>1, <1>3, <1>5, <1>11

\* A string of which a byte is missing is not read at all.
THEOREM StringWhole ==
    ASSUME NEW s \in Seq(Nat), Len(s) \in Word,
           NEW in \in Prefixes(WriteUint(Len(s)) \o s), in # WriteUint(Len(s)) \o s
    PROVE  Number(in) = Short \/ Take(Number(in).v, Number(in).rest) = Short
<1>1. PICK l \in Nat : l = Len(s)
  BY LenProperties
<1>2. PICK w \in Seq(Nat) : w = WriteUint(l)
  BY BytesOfNumber
<1>3. PICK u \in Seq(Nat) : u = w \o s
  BY ConcatProperties
<1>4. in \in Prefixes(u) /\ in # u
  BY <1>1, <1>2, <1>3
<1>5. PICK t \in Seq(Nat) : in \o t = u
  BY <1>4, RestOfPrefix
<1>6. in \in Seq(Nat)
  BY <1>4, RestOfPrefix
<1>7. Joined(in, t, u) /\ Joined(w, s, u)
  BY <1>3, <1>5 DEF Joined
<1>8. CASE Len(in) < Len(w)
  <2>1. Len(in) <= Len(w)
    BY <1>8, <1>6, LenProperties
  <2>2. Beyond(w, in) \in Seq(Nat) /\ Joined(in, Beyond(w, in), w)
    BY <1>6, <1>7, <2>1, LongerPart
  <2>3. PICK p \in Seq(Nat) : in \o p = w
    BY <2>2 DEF Joined
  <2>4. in \in Prefixes(w)
    BY <1>6, <2>3, PrefixOfWhole
  <2>5. in # w
    BY <1>8, <1>6, LenProperties
  <2> QED
    BY <1>1, <1>2, <2>4, <2>5, NumberWhole
<1>9. CASE ~(Len(in) < Len(w))
  <2>1. Len(w) <= Len(in)
    BY <1>9, <1>6, LenProperties
  <2>2. Beyond(in, w) \in Seq(Nat) /\ Joined(w, Beyond(in, w), in) /\ Joined(Beyond(in, w), t, s)
    BY <1>6, <1>7, <2>1, LongerPart
  <2>3. PICK p \in Seq(Nat) : w \o p = in /\ p \o t = s
    BY <2>2 DEF Joined
  <2>4. Number(in) = Done(l, p)
    BY <1>1, <1>2, <2>3, NumberKept
  <2>5. t # <<>>
    BY <1>4, <1>5, <1>6, ConcatEmptySeq
  <2>6. Len(p) < l
    <3>1. Len(p) \in Nat /\ Len(t) \in Nat \ {0}
      BY <2>5, LenProperties, EmptySeq
    <3>2. Len(s) = Len(p) + Len(t)
      BY <2>3, ConcatProperties
    <3> QED
      BY <1>1, <3>1, <3>2
  <2>7. Len(p) \in Nat
    BY LenProperties
  <2>8. Take(l, p) = Short
    BY <2>6, <2>7 DEF Take
  <2>9. Number(in).v = l /\ Number(in).rest = p
    BY <2>4 DEF Done
  <2> QED
    BY <2>8, <2>9
<1> QED
  BY <1>8, <1>9

-----------------------------------------------------------------------------
(* What is on the stream.                                                  *)

\* After the last object comes the body; before that an object and what follows it, or
\* nothing where it panics.
LEMMA SentSteps ==
    ASSUME NEW os, NEW b, Len(os) \in Nat
    PROVE  /\ Sent(os, b)[0] = b
           /\ \A i \in 1 .. Len(os) :
                Sent(os, b)[Len(os) - i + 1] =
                  IF Panics(os[i]) THEN Bytes(os[i]) ELSE Bytes(os[i]) \o Sent(os, b)[Len(os) - i]
<1> DEFINE Then(s, k) == LET x == os[Len(os) - k + 1]
                         IN IF Panics(x) THEN Bytes(x) ELSE Bytes(x) \o s
           Is(g, n) == g = [k \in 0 .. n |-> IF k = 0 THEN b ELSE Then(g[k - 1], k)]
           S == {n \in Nat : \E g : Is(g, n)}
<1>5. Sent(os, b) = CHOOSE g : Is(g, Len(os))
  BY Zenon DEF Sent
<1> HIDE DEF Then
<1>1. 0 \in S
  <2>1. Is([i \in 0 .. 0 |-> b], 0)
    OBVIOUS
  <2> QED
    BY <2>1
<1>2. ASSUME NEW n \in 0 .. Len(os) - 1, n \in S PROVE n + 1 \in S
  <2>1. PICK g : Is(g, n)
    BY <1>2
  <2> DEFINE h == [k \in 0 .. n + 1 |-> IF k = 0 THEN b ELSE Then(g[k - 1], k)]
  <2>2. \A i \in 0 .. n : h[i] = g[i]
    BY <2>1
  <2>3. Is(h, n + 1)
    <3>1. \A i \in 0 .. n + 1 : i # 0 => i - 1 \in 0 .. n
      OBVIOUS
    <3> QED
      BY <2>2, <3>1
  <2>4. n + 1 \in Nat
    OBVIOUS
  <2> HIDE DEF Is, h
  <2> QED
    BY <2>3, <2>4
<1>3. Len(os) \in S
  <2>1. Len(os) \in 0 .. Len(os) /\ 0 \in Int /\ Len(os) \in Int
    OBVIOUS
  <2> HIDE DEF S
  <2>2. 0 .. Len(os) \subseteq S
    BY <1>1, <1>2, <2>1, Counting
  <2> QED
    BY <2>1, <2>2
<1>4. \E g : Is(g, Len(os))
  BY <1>3
<1>6. Is(Sent(os, b), Len(os))
  <2> HIDE DEF Is
  <2> QED
    BY <1>4, <1>5
<1>7. PICK n \in Nat : n = Len(os)
  OBVIOUS
<1>8. PICK f : f = Sent(os, b)
  OBVIOUS
<1>9. f = [k \in 0 .. n |-> IF k = 0 THEN b ELSE Then(f[k - 1], k)]
  BY <1>6, <1>7, <1>8
<1>10. f[0] = b
  BY <1>9
<1>11. ASSUME NEW i \in 1 .. n
       PROVE  f[n - i + 1] = IF Panics(os[i]) THEN Bytes(os[i]) ELSE Bytes(os[i]) \o f[n - i]
  <2>1. PICK k \in 1 .. n : k = n - i + 1
    OBVIOUS
  <2>2. k \in 0 .. n /\ k # 0 /\ n - k + 1 = i /\ k - 1 = n - i
    BY <2>1
  <2>3. f[k] = Then(f[k - 1], k)
    BY <1>9, <2>2
  <2>4. Then(f[k - 1], k) = IF Panics(os[n - k + 1]) THEN Bytes(os[n - k + 1])
                            ELSE Bytes(os[n - k + 1]) \o f[k - 1]
    BY <1>7 DEF Then
  <2> QED
    BY <2>1, <2>2, <2>3, <2>4
<1> QED
  BY <1>7, <1>8, <1>10, <1>11

\* It is bytes.
LEMMA SentBytes ==
    ASSUME NEW c \in Call, NEW b \in Body
    PROVE  \A k \in 0 .. Len(c) : Sent(c, b)[k] \in Seq(Nat)
<1> DEFINE S == {k \in Nat : Sent(c, b)[k] \in Seq(Nat)}
<1>1. PICK n \in Nat : n = Len(c)
  BY ObjectAssumption
<1>2. \A i \in 1 .. n : Bytes(c[i]) \in Seq(Nat)
  BY <1>1, ObjectAssumption
<1>3. PICK f : f = Sent(c, b)
  OBVIOUS
<1>4. /\ f[0] = b
      /\ \A i \in 1 .. n :
           f[n - i + 1] = IF Panics(c[i]) THEN Bytes(c[i]) ELSE Bytes(c[i]) \o f[n - i]
  BY <1>1, <1>3, SentSteps
<1>5. 0 \in S
  BY <1>3, <1>4, ObjectAssumption
<1>6. ASSUME NEW k \in 0 .. n - 1, k \in S PROVE k + 1 \in S
  <2>1. PICK i \in 1 .. n : i = n - k
    OBVIOUS
  <2>2. n - i = k /\ n - i + 1 = k + 1 /\ k + 1 \in Nat
    BY <2>1
  <2>3. f[k + 1] = IF Panics(c[i]) THEN Bytes(c[i]) ELSE Bytes(c[i]) \o f[k]
    BY <1>4, <2>2
  <2>4. f[k] \in Seq(Nat) /\ Bytes(c[i]) \in Seq(Nat)
    BY <1>2, <1>3, <1>6
  <2>5. Bytes(c[i]) \o f[k] \in Seq(Nat)
    BY <2>4, ConcatProperties
  <2>6. f[k + 1] \in Seq(Nat)
    BY <2>3, <2>4, <2>5
  <2> QED
    BY <1>3, <2>2, <2>6
<1>7. 0 .. n \subseteq S
  <2>1. 0 \in Int /\ n \in Int
    OBVIOUS
  <2> HIDE DEF S
  <2> QED
    BY <1>5, <1>6, <2>1, Counting
<1> QED
  BY <1>1, <1>7

\* The reader at object i, of which and of what follows it in has arrived: if it reads a
\* value it is the right one and it leaves what belongs to the next one.  And it does
\* when everything has arrived.
LEMMA ReadsOne ==
    ASSUME NEW c \in Call, NEW b \in Body, NEW i \in 1 .. Len(c),
           NEW in \in Seq(Nat), NEW out \in Seq(Nat),
           Joined(in, out, Sent(c, b)[Len(c) - i + 1])
    PROVE  /\ Reader(c[i][1], in).ok =>
                /\ ~Panics(c[i])
                /\ Reader(c[i][1], in).v = Value(c[i])
                /\ Reader(c[i][1], in).rest \in Seq(Nat)
                /\ Joined(Reader(c[i][1], in).rest, out, Sent(c, b)[Len(c) - i])
           /\ out = <<>> /\ ~Panics(c[i]) => Reader(c[i][1], in).ok
<1>1. PICK n \in Nat : n = Len(c)
  BY ObjectAssumption
<1>2. PICK x : x = c[i]
  OBVIOUS
<1>3. PICK m : m = Bytes(x)
  OBVIOUS
<1>4. m \in Seq(Nat)
  BY <1>2, <1>3, ObjectAssumption
<1>5. PICK s : s = Sent(c, b)[n - i]
  OBVIOUS
<1>6. s \in Seq(Nat)
  <2>1. n - i \in 0 .. n
    BY <1>1
  <2> QED
    BY <1>1, <1>5, <2>1, SentBytes
<1>7. in \o out = IF Panics(x) THEN m ELSE m \o s
  BY <1>1, <1>2, <1>3, <1>5, SentSteps DEF Joined
<1>8. CASE Panics(x)
  <2>1. in \in Prefixes(m)
    BY <1>7, <1>8, PrefixOfWhole
  <2>2. ~Reader(x[1], in).ok
    BY <1>2, <1>3, <1>8, <2>1, CodeAssumption
  <2> QED
    BY <1>2, <1>8, <2>2
<1>9. CASE ~Panics(x)
  <2>1. PICK w : Joined(in, out, w) /\ Joined(m, s, w)
    BY <1>7, <1>9 DEF Joined
  <2>2. CASE Len(in) < Len(m)
    <3>1. Len(in) <= Len(m)
      BY <2>2, LenProperties, <1>4
    <3>2. PICK p \in Seq(Nat) : in \o p = m /\ p \o s = out
      <4>1. /\ Beyond(m, in) \in Seq(Nat)
            /\ Joined(in, Beyond(m, in), m) /\ Joined(Beyond(m, in), s, out)
        BY <1>4, <1>6, <2>1, <3>1, LongerPart
      <4> QED
        BY <4>1 DEF Joined
    <3>3. in \in Prefixes(m)
      BY <3>2, PrefixOfWhole
    <3>4. in # m
      BY <2>2, <1>4, LenProperties
    <3>5. ~Reader(x[1], in).ok
      BY <1>2, <1>3, <1>9, <3>3, <3>4, CodeAssumption
    <3>6. out # <<>>
      <4>1. ASSUME out = <<>> PROVE FALSE
        <5>1. p = <<>>
          BY <3>2, <4>1, <1>6, ConcatSimplifications!concIsEmpty
        <5>2. m = in
          BY <3>2, <5>1, ConcatEmptySeq
        <5> QED
          BY <3>4, <5>2
      <4> QED
        BY <4>1
    <3> QED
      BY <1>2, <3>5, <3>6
  <2>3. CASE ~(Len(in) < Len(m))
    <3>1. Len(m) <= Len(in)
      BY <2>3, LenProperties, <1>4
    <3>2. PICK p \in Seq(Nat) : m \o p = in /\ p \o out = s
      <4>1. /\ Beyond(in, m) \in Seq(Nat)
            /\ Joined(m, Beyond(in, m), in) /\ Joined(Beyond(in, m), out, s)
        BY <1>4, <1>6, <2>1, <3>1, LongerPart
      <4> QED
        BY <4>1 DEF Joined
    <3>3. p \in Prefixes(Sent(c, b)[Len(c) - i])
      BY <1>1, <1>5, <3>2, PrefixOfWhole
    <3>4. /\ Reader(c[i][1], Bytes(c[i]) \o p).ok
          /\ Reader(c[i][1], Bytes(c[i]) \o p).v = Value(c[i])
          /\ Reader(c[i][1], Bytes(c[i]) \o p).rest = p
      <4>1. \A q \in Prefixes(Sent(c, b)[Len(c) - i]) :
              LET r == Reader(c[i][1], Bytes(c[i]) \o q)
              IN r.ok /\ r.v = Value(c[i]) /\ r.rest = q
        BY <1>2, <1>9, CodeAssumption, Zenon
      <4> QED
        BY <3>3, <4>1, Zenon
    <3>5. /\ Reader(x[1], in).ok
          /\ Reader(x[1], in).v = Value(x)
          /\ Reader(x[1], in).rest = p
      BY <1>2, <1>3, <3>2, <3>4
    <3> QED
      BY <1>1, <1>2, <1>5, <1>9, <3>2, <3>5 DEF Joined
  <2> QED
    BY <2>2, <2>3
<1> QED
  BY <1>8, <1>9

-----------------------------------------------------------------------------
(* The invariant.                                                          *)

Typed ==
    /\ objs \in Call /\ body \in Body
    /\ pc \in {"encode", "decode", "ok", "error"}
    /\ flight \in Seq(Nat) /\ inbox \in Seq(Nat) /\ cut \in BOOLEAN
    /\ got \in Seq({Value(objs[i]) : i \in 1 .. Len(objs)})
    /\ Len(got) \in 0 .. Len(objs)

\* What has been read could be written, and is what was written.
GotFits == \A i \in 1 .. Len(got) : ~Panics(objs[i]) /\ got[i] = Value(objs[i])

\* What has arrived and what is on its way are all that remains of the message, or the
\* connection broke and a first part of it is all there will ever be.
StreamFits ==
    LET rest == Sent(objs, body)[Len(objs) - Len(got)]
    IN pc # "encode" => IF cut THEN flight = <<>> /\ inbox \in Prefixes(rest)
                        ELSE inbox \o flight = rest

\* How far Decode has come.
PcFits ==
    /\ pc = "encode" => got = <<>> /\ flight = <<>> /\ inbox = <<>> /\ cut = FALSE
    /\ pc = "decode" => Len(got) < Len(objs)
    /\ pc = "ok" => Len(got) = Len(objs)
    /\ pc = "error" => cut \/ ~Sendable

IInv == Typed /\ GotFits /\ StreamFits /\ PcFits

LEMMA Initially == Init => IInv
<1> SUFFICES ASSUME Init PROVE IInv
  OBVIOUS
<1>1. <<>> \in Seq(Nat) /\ <<>> \in Seq({Value(objs[i]) : i \in 1 .. Len(objs)}) /\ Len(<<>>) = 0
  BY EmptySeq
<1>2. Len(objs) \in Nat \ {0}
  BY ObjectAssumption DEF Init
<1>3. Typed
  <2>1. flight \in Seq(Nat) /\ inbox \in Seq(Nat)
    BY <1>1 DEF Init
  <2>2. got \in Seq({Value(objs[i]) : i \in 1 .. Len(objs)})
    BY <1>1 DEF Init
  <2>3. Len(got) \in 0 .. Len(objs)
    BY <1>1, <1>2 DEF Init
  <2> QED
    BY <2>1, <2>2, <2>3 DEF Init, Typed
<1>4. GotFits
  BY <1>1 DEF Init, GotFits
<1>5. StreamFits
  BY DEF Init, StreamFits
<1>6. PcFits
  BY DEF Init, PcFits
<1> QED
  BY <1>3, <1>4, <1>5, <1>6 DEF IInv

\* The message is in flight.
LEMMA EncodeKeeps == IInv /\ Encode => IInv'
<1> SUFFICES ASSUME IInv, Encode PROVE IInv'
  OBVIOUS
<1>1. Typed /\ GotFits /\ PcFits
  BY DEF IInv
<1>2. objs' = objs /\ body' = body /\ inbox' = inbox /\ cut' = cut /\ got' = got
  BY DEF Encode
<1>3. pc = "encode" /\ pc' = "decode"
  BY DEF Encode
<1>4. got = <<>> /\ inbox = <<>> /\ cut = FALSE /\ Len(got) = 0
  BY <1>1, <1>3 DEF PcFits
<1>5. PICK n \in Nat \ {0} : n = Len(objs)
  BY <1>1, ObjectAssumption DEF Typed
<1>6. flight' = Sent(objs, body)[n] /\ flight' \in Seq(Nat)
  <2>1. n \in 0 .. Len(objs)
    BY <1>5
  <2>2. Sent(objs, body)[n] \in Seq(Nat)
    BY <1>1, <2>1, SentBytes DEF Typed
  <2> QED
    BY <1>5, <2>2 DEF Encode
<1>7. Typed'
  BY <1>1, <1>2, <1>3, <1>6 DEF Typed
<1>8. GotFits'
  BY <1>1, <1>2 DEF GotFits
<1>9. StreamFits'
  <2>1. inbox \o flight' = flight'
    BY <1>4, <1>6, ConcatEmptySeq
  <2>2. Len(objs) - Len(got) = n
    BY <1>4, <1>5
  <2> QED
    BY <1>2, <1>4, <1>6, <2>1, <2>2 DEF StreamFits
<1>10. PcFits'
  BY <1>2, <1>3, <1>4, <1>5 DEF PcFits
<1> QED
  BY <1>7, <1>8, <1>9, <1>10 DEF IInv

\* Bytes change places.
LEMMA DeliverKeeps == IInv /\ Deliver => IInv'
<1> SUFFICES ASSUME IInv, Deliver PROVE IInv'
  OBVIOUS
<1>1. Typed /\ GotFits /\ StreamFits /\ PcFits
  BY DEF IInv
<1>2. PICK l \in Nat : l = Len(flight)
  BY <1>1, LenProperties DEF Typed
<1>3. PICK n \in 1 .. l : /\ inbox' = inbox \o SubSeq(flight, 1, n)
                          /\ flight' = SubSeq(flight, n + 1, l)
  BY <1>2 DEF Deliver
<1>4. objs' = objs /\ body' = body /\ pc' = pc /\ cut' = cut /\ got' = got
  BY DEF Deliver
<1>5. flight # <<>>
  <2>1. l # 0
    OBVIOUS
  <2> QED
    BY <1>2, <2>1, EmptySeq
<1>6. pc # "encode" /\ cut = FALSE
  BY <1>1, <1>5 DEF PcFits, StreamFits, Typed
<1>7. PICK p : p = SubSeq(flight, 1, n)
  OBVIOUS
<1>8. PICK q : q = SubSeq(flight, n + 1, l)
  OBVIOUS
<1>9. p \in Seq(Nat) /\ q \in Seq(Nat)
  <2>1. \A i \in 1 .. l : flight[i] \in Nat
    BY <1>1, <1>2, ElementOfSeq DEF Typed
  <2> QED
    BY <1>7, <1>8, <2>1, SubSeqProperties
<1>10. p \o q = flight
  <2>1. 1 \in 1 .. Len(flight) + 1 /\ n \in 1 - 1 .. Len(flight) /\ l \in n .. Len(flight)
    BY <1>2
  <2>2. SubSeq(flight, 1, n) \o SubSeq(flight, n + 1, l) = SubSeq(flight, 1, l)
    BY <1>1, <2>1, ConcatAdjacentSubSeq DEF Typed
  <2>3. SubSeq(flight, 1, l) = flight
    BY <1>1, <1>2, SubSeqFull DEF Typed
  <2> QED
    BY <1>7, <1>8, <2>2, <2>3
<1>11. inbox' = inbox \o p /\ flight' = q
  BY <1>3, <1>7, <1>8
<1>12. inbox' \in Seq(Nat)
  BY <1>1, <1>9, <1>11, ConcatProperties DEF Typed
<1>13. inbox' \o flight' = inbox \o flight
  <2>1. (inbox \o p) \o q = inbox \o (p \o q)
    <3>1. inbox \in Seq(Nat)
      BY <1>1 DEF Typed
    <3> QED
      BY ONLY <1>9, <3>1, ConcatAssociative, SMTT(60)
  <2> QED
    BY <1>10, <1>11, <2>1
<1>14. Typed'
  BY <1>1, <1>4, <1>9, <1>11, <1>12 DEF Typed
<1>15. GotFits'
  BY <1>1, <1>4 DEF GotFits
<1>16. StreamFits'
  BY <1>1, <1>4, <1>6, <1>13 DEF StreamFits
<1>17. Sendable' <=> Sendable
  BY <1>4 DEF Sendable
<1>18. PcFits'
  BY <1>1, <1>4, <1>6, <1>17 DEF PcFits
<1> QED
  BY <1>14, <1>15, <1>16, <1>18 DEF IInv

\* What has arrived stays a first part of what remains.
LEMMA CutKeeps == IInv /\ Cut => IInv'
<1> SUFFICES ASSUME IInv, Cut PROVE IInv'
  OBVIOUS
<1>1. Typed /\ GotFits /\ StreamFits /\ PcFits
  BY DEF IInv
<1>2. flight' = <<>> /\ cut' = TRUE /\ flight # <<>>
  BY DEF Cut
<1>3. objs' = objs /\ body' = body /\ pc' = pc /\ inbox' = inbox /\ got' = got
  BY DEF Cut
<1>4. pc # "encode" /\ cut = FALSE
  BY <1>1, <1>2 DEF PcFits, StreamFits, Typed
<1>5. PICK rest : rest = Sent(objs, body)[Len(objs) - Len(got)]
  OBVIOUS
<1>6. inbox \o flight = rest
  BY <1>1, <1>4, <1>5 DEF StreamFits
<1>7. inbox \in Prefixes(rest)
  BY <1>1, <1>6, PrefixOfWhole DEF Typed
<1>8. flight' \in Seq(Nat) /\ cut' \in BOOLEAN
  BY <1>2, EmptySeq
<1>9. Typed'
  BY <1>1, <1>3, <1>8 DEF Typed
<1>10. GotFits'
  BY <1>1, <1>3 DEF GotFits
<1>11. StreamFits'
  BY <1>2, <1>3, <1>5, <1>7 DEF StreamFits
<1>12. Sendable' <=> Sendable
  BY <1>3 DEF Sendable
<1>13. PcFits'
  BY <1>1, <1>2, <1>3, <1>4, <1>12 DEF PcFits
<1> QED
  BY <1>9, <1>10, <1>11, <1>13 DEF IInv

\* While Decode works at an object, what has arrived and something more are what remains
\* of the message, and nothing more when the connection holds.
LEMMA StillToCome ==
    ASSUME Typed, StreamFits, pc = "decode"
    PROVE  \E lost \in Seq(Nat) :
             /\ inbox \o (flight \o lost) = Sent(objs, body)[Len(objs) - Len(got)]
             /\ cut = FALSE => lost = <<>>
             /\ cut = TRUE => flight = <<>>
<1>1. PICK rest : rest = Sent(objs, body)[Len(objs) - Len(got)]
  OBVIOUS
<1>2. rest \in Seq(Nat)
  <2>1. Len(objs) - Len(got) \in 0 .. Len(objs)
    BY ObjectAssumption DEF Typed
  <2> QED
    BY <1>1, <2>1, SentBytes DEF Typed
<1>3. <<>> \in Seq(Nat) /\ flight \o <<>> = flight
  BY EmptySeq, ConcatEmptySeq DEF Typed
<1>4. CASE cut = TRUE
  <2>1. flight = <<>> /\ inbox \in Prefixes(rest)
    BY <1>1, <1>4 DEF StreamFits
  <2>2. PICK t \in Seq(Nat) : inbox \o t = rest
    BY <1>2, <2>1, RestOfPrefix
  <2>3. flight \o t = t
    BY <2>1, ConcatEmptySeq
  <2> QED
    BY <1>1, <1>4, <2>1, <2>2, <2>3
<1>5. CASE cut = FALSE
  <2>1. inbox \o flight = rest
    BY <1>1, <1>5 DEF StreamFits
  <2> QED
    BY <1>1, <1>3, <1>5, <2>1
<1> QED
  BY <1>4, <1>5 DEF Typed

\* One object less remains.
LEMMA DecodeKeeps == IInv /\ Decode => IInv'
<1> SUFFICES ASSUME IInv, Decode PROVE IInv'
  OBVIOUS
<1>1. Typed /\ GotFits /\ StreamFits /\ PcFits
  BY DEF IInv
<1>2. pc = "decode" /\ First.ok
  BY DEF Decode
<1>3. objs' = objs /\ body' = body /\ flight' = flight /\ cut' = cut
  BY DEF Decode
<1>4. PICK lost \in Seq(Nat) :
        /\ inbox \o (flight \o lost) = Sent(objs, body)[Len(objs) - Len(got)]
        /\ cut = FALSE => lost = <<>>
        /\ cut = TRUE => flight = <<>>
  BY <1>1, <1>2, StillToCome
<1>5. PICK out \in Seq(Nat) : out = flight \o lost
  BY <1>1, ConcatProperties DEF Typed
<1>6. PICK l \in Nat : l = Len(got)
  BY <1>1, ObjectAssumption DEF Typed
<1>7. PICK n \in Nat \ {0} : n = Len(objs)
  BY <1>1, ObjectAssumption DEF Typed
<1>8. PICK i \in 1 .. n : i = l + 1
  <2>1. l < n
    BY <1>1, <1>2, <1>6, <1>7 DEF PcFits
  <2> QED
    BY <2>1
<1>9. n - i + 1 = n - l /\ n - i = n - (l + 1) /\ i \in 1 .. Len(objs)
  BY <1>7, <1>8
<1>10. PICK r : r = Reader(objs[i][1], inbox)
  OBVIOUS
<1>11. First = r
  BY <1>6, <1>8, <1>10 DEF First
<1>12. Joined(inbox, out, Sent(objs, body)[Len(objs) - i + 1])
  BY <1>4, <1>5, <1>6, <1>7, <1>9 DEF Joined
<1>13. /\ ~Panics(objs[i]) /\ r.v = Value(objs[i]) /\ r.rest \in Seq(Nat)
       /\ r.rest \o out = Sent(objs, body)[Len(objs) - i]
  <2>1. objs \in Call /\ body \in Body /\ inbox \in Seq(Nat)
    BY <1>1 DEF Typed
  <2>2. Reader(objs[i][1], inbox).ok
    BY <1>2, <1>10, <1>11
  <2> QED
    <3>1. out \in Seq(Nat) /\ i \in 1 .. Len(objs)
      BY <1>9
    <3>2. /\ ~Panics(objs[i])
          /\ Reader(objs[i][1], inbox).v = Value(objs[i])
          /\ Reader(objs[i][1], inbox).rest \in Seq(Nat)
          /\ Joined(Reader(objs[i][1], inbox).rest, out, Sent(objs, body)[Len(objs) - i])
      BY <1>12, <2>1, <2>2, <3>1, ReadsOne
    <3> QED
      BY <1>10, <3>2 DEF Joined
<1>14. inbox' = r.rest /\ got' = Append(got, Value(objs[i]))
  BY <1>11, <1>13 DEF Decode
<1> DEFINE V == {Value(objs[j]) : j \in 1 .. Len(objs)}
<1>15. got \in Seq(V) /\ Value(objs[i]) \in V
  BY <1>1, <1>9 DEF Typed
<1>16. /\ got' \in Seq(V) /\ Len(got') = l + 1
       /\ \A j \in 1 .. l : got'[j] = got[j]
       /\ got'[l + 1] = Value(objs[i])
  <2> HIDE DEF V
  <2> QED
    BY <1>6, <1>14, <1>15, AppendProperties
<1>17. Len(got') = i
  BY <1>8, <1>16
<1>18. pc' = IF i = n THEN "ok" ELSE "decode"
  BY <1>3, <1>7, <1>17 DEF Decode
<1>19. Typed'
  <2>1. Len(got') \in 0 .. Len(objs)
    BY <1>7, <1>17
  <2>2. got' \in Seq({Value(objs[j]) : j \in 1 .. Len(objs)})
    BY <1>16
  <2> QED
    BY <1>1, <1>3, <1>13, <1>14, <1>18, <2>1, <2>2 DEF Typed
<1>20. GotFits'
  <2>1. ASSUME NEW j \in 1 .. i PROVE ~Panics(objs[j]) /\ got'[j] = Value(objs[j])
    <3>1. CASE j = i
      BY <1>8, <1>13, <1>16, <3>1
    <3>2. CASE j # i
      <4>1. j \in 1 .. l
        BY <1>8, <3>2
      <4> QED
        BY <1>1, <1>6, <1>16, <4>1 DEF GotFits
    <3> QED
      BY <3>1, <3>2
  <2> QED
    BY <1>3, <1>17, <2>1 DEF GotFits
<1>21. StreamFits'
  <2>1. PICK s : s = Sent(objs, body)[Len(objs) - i]
    OBVIOUS
  <2>2. inbox' \o out = s /\ inbox' \in Seq(Nat)
    BY <1>13, <1>14, <2>1
  <2>3. CASE cut = TRUE
    <3>1. inbox' \in Prefixes(s)
      BY <2>2, PrefixOfWhole
    <3> QED
      BY <1>3, <1>4, <1>17, <2>1, <2>3, <3>1 DEF StreamFits
  <2>4. CASE cut = FALSE
    <3>1. out = flight
      BY <1>1, <1>4, <1>5, <2>4, ConcatEmptySeq DEF Typed
    <3> QED
      BY <1>3, <1>17, <2>1, <2>2, <2>4, <3>1 DEF StreamFits
  <2> QED
    BY <1>1, <2>3, <2>4 DEF Typed
<1>22. PcFits'
  BY <1>3, <1>7, <1>8, <1>17, <1>18 DEF PcFits
<1> QED
  BY <1>19, <1>20, <1>21, <1>22 DEF IInv

\* Nothing more comes, and the object is not there: it could not be written, or the
\* connection broke.
LEMMA DecodeFailsKeeps == IInv /\ DecodeFails => IInv'
<1> SUFFICES ASSUME IInv, DecodeFails PROVE IInv'
  OBVIOUS
<1>1. Typed /\ GotFits /\ StreamFits /\ PcFits
  BY DEF IInv
<1>2. pc = "decode" /\ ~First.ok /\ flight = <<>> /\ pc' = "error"
  BY DEF DecodeFails
<1>3. /\ objs' = objs /\ body' = body /\ flight' = flight /\ inbox' = inbox
      /\ cut' = cut /\ got' = got
  BY DEF DecodeFails
<1>4. ASSUME cut = FALSE, Sendable PROVE FALSE
  <2>1. PICK l \in Nat : l = Len(got)
    BY <1>1, ObjectAssumption DEF Typed
  <2>2. PICK n \in Nat \ {0} : n = Len(objs)
    BY <1>1, ObjectAssumption DEF Typed
  <2>3. PICK i \in 1 .. n : i = l + 1
    <3>1. l < n
      BY <1>1, <1>2, <2>1, <2>2 DEF PcFits
    <3> QED
      BY <3>1
  <2>4. n - i + 1 = n - l /\ i \in 1 .. Len(objs)
    BY <2>2, <2>3
  <2>5. Joined(inbox, flight, Sent(objs, body)[Len(objs) - i + 1])
    BY <1>1, <1>2, <1>4, <2>1, <2>2, <2>4 DEF StreamFits, Joined
  <2>6. ~Panics(objs[i])
    BY <1>4, <2>4 DEF Sendable
  <2>7. objs \in Call /\ body \in Body /\ inbox \in Seq(Nat) /\ flight \in Seq(Nat)
    BY <1>1 DEF Typed
  <2>8. Reader(objs[i][1], inbox).ok
    BY <1>2, <2>4, <2>5, <2>6, <2>7, ReadsOne
  <2>9. First = Reader(objs[i][1], inbox)
    BY <2>1, <2>3 DEF First
  <2> QED
    BY <1>2, <2>8, <2>9
<1>5. Typed'
  BY <1>1, <1>2, <1>3 DEF Typed
<1>6. GotFits'
  BY <1>1, <1>3 DEF GotFits
<1>7. StreamFits'
  BY <1>1, <1>2, <1>3 DEF StreamFits
<1>8. Sendable' <=> Sendable
  BY <1>3 DEF Sendable
<1>9. PcFits'
  BY <1>1, <1>2, <1>3, <1>4, <1>8 DEF PcFits, Typed
<1> QED
  BY <1>5, <1>6, <1>7, <1>9 DEF IInv

LEMMA Inductive == IInv /\ [Next]_vars => IInv'
<1>1. ASSUME IInv, UNCHANGED vars PROVE IInv'
  <2>1. /\ objs' = objs /\ body' = body /\ pc' = pc /\ flight' = flight
        /\ inbox' = inbox /\ cut' = cut /\ got' = got
    BY <1>1 DEF vars
  <2>2. Typed'
    BY <1>1, <2>1 DEF IInv, Typed
  <2>3. GotFits'
    BY <1>1, <2>1 DEF IInv, GotFits
  <2>4. StreamFits'
    BY <1>1, <2>1 DEF IInv, StreamFits
  <2>5. Sendable' <=> Sendable
    BY <2>1 DEF Sendable
  <2>6. PcFits'
    BY <1>1, <2>1, <2>5 DEF IInv, PcFits
  <2> QED
    BY <2>2, <2>3, <2>4, <2>6 DEF IInv
<1> QED
  BY <1>1, EncodeKeeps, DeliverKeeps, CutKeeps, DecodeKeeps, DecodeFailsKeeps
  DEF Next, Returned

LEMMA Invariant == Spec => []IInv
<1>1. Init => IInv
  BY Initially
<1>2. IInv /\ [Next]_vars => IInv'
  BY Inductive
<1> QED
  BY <1>1, <1>2, PTL DEF Spec

\* Every value that Decode has read, when it goes on, succeeds or fails, is the one that
\* was written.
THEOREM ReadsCorrect == Spec => []ReadsWhatWasWritten
<1>1. IInv => ReadsWhatWasWritten
  BY DEF IInv, GotFits, ReadsWhatWasWritten
<1> QED
  BY <1>1, Invariant, PTL

\* Decode that succeeds has read every object and left all that follows them, and one
\* that fails has a reason.
THEOREM EndCorrect == Spec => []EndIsNoticed
<1>1. ASSUME IInv, pc = "ok"
      PROVE  /\ Len(got) = Len(objs) /\ Sendable
             /\ IF cut THEN IsPrefix(inbox, body) ELSE inbox \o flight = body
  <2>1. Typed /\ GotFits /\ StreamFits /\ PcFits
    BY <1>1 DEF IInv
  <2>2. PICK n \in Nat \ {0} : n = Len(objs)
    BY <2>1, ObjectAssumption DEF Typed
  <2>3. Len(got) = n
    BY <1>1, <2>1, <2>2 DEF PcFits
  <2>4. Sendable
    BY <2>1, <2>2, <2>3 DEF GotFits, Sendable
  <2>5. Sent(objs, body)[Len(objs) - Len(got)] = body
    <3>1. Len(objs) - Len(got) = 0
      BY <2>2, <2>3
    <3>2. Sent(objs, body)[0] = body
      BY <2>2, SentSteps
    <3> QED
      BY <3>1, <3>2
  <2>6. CASE cut = TRUE
    <3>1. inbox \in Prefixes(body)
      BY <1>1, <2>1, <2>5, <2>6 DEF StreamFits
    <3>2. body \in Seq(Nat)
      BY <2>1, ObjectAssumption DEF Typed
    <3>3. PICK t \in Seq(Nat) : inbox \o t = body
      BY <3>1, <3>2, RestOfPrefix
    <3>4. IsPrefix(inbox, body)
      BY <2>1, <3>2, <3>3, BeginsWith DEF Typed
    <3> QED
      BY <2>2, <2>3, <2>4, <2>6, <3>4
  <2>7. CASE cut = FALSE
    <3>1. inbox \o flight = body
      BY <1>1, <2>1, <2>5, <2>7 DEF StreamFits
    <3> QED
      BY <2>2, <2>3, <2>4, <2>7, <3>1
  <2> QED
    BY <2>1, <2>6, <2>7 DEF Typed
<1>2. ASSUME IInv, pc = "error" PROVE cut \/ ~Sendable
  BY <1>2 DEF IInv, PcFits
<1>3. IInv => EndIsNoticed
  BY <1>1, <1>2 DEF EndIsNoticed
<1> QED
  BY <1>3, Invariant, PTL

=============================================================================
