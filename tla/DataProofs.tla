------------------------------ MODULE DataProofs ------------------------------
(***************************************************************************)
(* Proofs about Data, for any nodes, blobs, collections and goroutines and *)
(* every bound, restarts included: what is being read or put is on disk,   *)
(* holds are counted until the first crash, a node has what it offers, the *)
(* download loop does not sleep through work, and files are whole blobs    *)
(* while disks are.  Then what Tracking counts: as long as the calls for   *)
(* one record take turns, the records with a blob as their value, so that  *)
(* none of them loses it.                                                  *)
(***************************************************************************)
EXTENDS Data, FiniteSetTheorems, TLAPS

-----------------------------------------------------------------------------
(* The inductive invariant.                                                *)

\* What the holds of a blob stand for.
InUse(n, k) == Cardinality(Holders(n, k)) + Cardinality(Putting(n, k))
                 + IF Downloading(n, k) THEN 1 ELSE 0

FiniteUse == IsFiniteSet(jobs) /\ \A n \in Node : IsFiniteSet(using[n])

\* A goroutine runs one call at a time, and only PutData waits for Put or drops a hold.
JobsApart ==
    /\ \A i, j \in jobs : i.at = j.at /\ i.by = j.by => i = j
    /\ \A j \in jobs : j.pc \in {"get", "release"} => j.by \in Putter

\* A download loop downloads one blob between its two critical sections, none before.
LoopWants ==
    \A n \in Node : IF dl[n] \in {"run", "sleep"} THEN want[n] = {}
                    ELSE \E k \in Blob, f \in Node : want[n] = {<<k, f>>}

\* An object without its row waits for nothing and is not local.
AbsentEmpty ==
    \A n \in Node, k \in Blob :
      ~Present(row[n][k]) => row[n][k].state = "not" /\ ~row[n][k].loading

\* The column needs_download is what writeObj computes.
NeedsTrue ==
    \A n \in Node, k \in Blob :
      row[n][k].needs <=> row[n][k].state = "ready" /\ ~row[n][k].loading

\* A blob waits for a download only while somebody advertises it.
ReadyHeard ==
    \A n \in Node, k \in Blob : row[n][k].state = "ready" => Advertised(n, k)

\* The directory holds what the table calls local.
OnDisk == \A n \in Node, k \in Blob : file[n][k] # "none" <=> row[n][k].state = "local"

\* What a node advertises it has, and tracks.
OffersHad ==
    \A n \in Node, k \in Blob, t \in Topic :
      adv[n][k][t] => row[n][k].state = "local" /\ t \in row[n][k].topics

\* The map has no entry for a topic only if its count is zero.
CountedTopics ==
    \A n \in Node, k \in Blob, t \in Topic :
      t \notin row[n][k].topics => row[n][k].count[t] = 0

ObjectsRight == AbsentEmpty /\ NeedsTrue /\ ReadyHeard /\ OnDisk /\ OffersHad /\ CountedTopics

\* Whatever is in progress holds its blob, a crash or not, ...
HoldsEnough ==
    \A n \in Node, k \in Blob : row[n][k].holds >= InUse(n, k)
LoadingSet ==
    \A n \in Node, k \in Blob : Downloading(n, k) => row[n][k].loading

\* ... it was local when it began and stays so, ...
UsedLocal == \A n \in Node : \A u \in using[n] : row[n][u[2]].state = "local"

\* ... and before a crash there is no other hold.
HoldsExact ==
    spent["restart"] = 0 => HoldsCounted /\ DownloadingIsTrue

\* No part of a blob has been received or written, unless a disk failed.
NoParts ==
    spent["disk"] = 0 =>
      \A n \in Node : dl[n] # "part" /\ \A k \in Blob : file[n][k] # "part"

Inv ==
    /\ TypeOK /\ FiniteUse /\ JobsApart /\ LoopWants
    /\ ObjectsRight /\ HoldsEnough /\ LoadingSet /\ UsedLocal /\ HoldsExact
    /\ NoParts /\ NoLostDownload

\* While no value is taken back more often than it came ...
NeverBelow == \A n \in Node, k \in Blob, t \in Topic : row[n][k].count[t] >= 0

\* ... topics are tracked exactly while they count.
TopicsCount ==
    \A n \in Node, k \in Blob, t \in Topic :
      t \in row[n][k].topics <=> row[n][k].count[t] > 0

Told == TopicsCount /\ AdvertsTrue /\ ReadyIfAdvertised

-----------------------------------------------------------------------------
(* Counting.                                                               *)

\* The users of k among those of S.
UsersIn(S, k) == {u \in S : u[2] = k}

\* One more user, or one less, of a blob.
LEMMA UserMore ==
    ASSUME NEW S, NEW x, IsFiniteSet(S), x \notin S, NEW k
    PROVE  /\ IsFiniteSet(S \cup {x})
           /\ Cardinality(UsersIn(S, k)) \in Nat
           /\ Cardinality(UsersIn(S \cup {x}, k))
                = Cardinality(UsersIn(S, k)) + IF x[2] = k THEN 1 ELSE 0
<1> DEFINE H == UsersIn(S, k)
<1>1. IsFiniteSet(S \cup {x})
  BY FS_AddElement
<1>2. IsFiniteSet(H) /\ Cardinality(H) \in Nat
  BY FS_Subset, FS_CardinalityType DEF UsersIn
<1>3. CASE x[2] = k
  <2>1. UsersIn(S \cup {x}, k) = H \cup {x} /\ x \notin H
    BY <1>3 DEF UsersIn
  <2>2. Cardinality(H \cup {x}) = Cardinality(H) + 1
    BY <1>2, <2>1, FS_AddElement
  <2> QED
    BY <1>1, <1>2, <1>3, <2>1, <2>2
<1>4. CASE x[2] # k
  <2>1. UsersIn(S \cup {x}, k) = H
    BY <1>4 DEF UsersIn
  <2> QED
    BY <1>1, <1>2, <1>4, <2>1
<1> QED
  BY <1>3, <1>4

\* ... and one less.
LEMMA UserLess ==
    ASSUME NEW S, NEW x \in S, IsFiniteSet(S), NEW k
    PROVE  /\ IsFiniteSet(S \ {x})
           /\ Cardinality(UsersIn(S, k)) \in Nat
           /\ Cardinality(UsersIn(S \ {x}, k)) \in Nat
           /\ Cardinality(UsersIn(S \ {x}, k))
                = Cardinality(UsersIn(S, k)) - IF x[2] = k THEN 1 ELSE 0
<1> DEFINE R == S \ {x}
           d == IF x[2] = k THEN 1 ELSE 0
<1>1. IsFiniteSet(R) /\ x \notin R /\ S = R \cup {x}
  BY FS_Subset
<1>2. /\ Cardinality(UsersIn(R, k)) \in Nat
      /\ Cardinality(UsersIn(R \cup {x}, k)) = Cardinality(UsersIn(R, k)) + d
  BY <1>1, UserMore
<1>3. Cardinality(UsersIn(S, k)) = Cardinality(UsersIn(R, k)) + d
  BY <1>1, <1>2
<1>4. d \in Nat
  OBVIOUS
<1>5. \A p, q \in Nat : q = p + d => p = q - d
  BY <1>4
<1> HIDE DEF R, d
<1>6. Cardinality(UsersIn(S, k)) \in Nat
  BY <1>2, <1>3, <1>4
<1> QED
  BY <1>1, <1>2, <1>3, <1>5, <1>6 DEF R, d

\* The calls of PutData at n for k among the calls S.
PutsIn(S, n, k) == {j \in S : j.at = n /\ j.by \in Putter /\ j.blob = k}

\* One more call of PutData that holds a blob, or one less.
LEMMA PutMore ==
    ASSUME NEW S, NEW x, IsFiniteSet(S), x \notin S, NEW n, NEW k
    PROVE  /\ IsFiniteSet(S \cup {x})
           /\ Cardinality(PutsIn(S, n, k)) \in Nat
           /\ Cardinality(PutsIn(S \cup {x}, n, k))
                = Cardinality(PutsIn(S, n, k))
                    + IF x.at = n /\ x.by \in Putter /\ x.blob = k THEN 1 ELSE 0
<1> DEFINE H == PutsIn(S, n, k)
<1>1. IsFiniteSet(S \cup {x})
  BY FS_AddElement
<1>2. IsFiniteSet(H) /\ Cardinality(H) \in Nat
  BY FS_Subset, FS_CardinalityType DEF PutsIn
<1>3. CASE x.at = n /\ x.by \in Putter /\ x.blob = k
  <2>1. PutsIn(S \cup {x}, n, k) = H \cup {x} /\ x \notin H
    BY <1>3 DEF PutsIn
  <2>2. Cardinality(H \cup {x}) = Cardinality(H) + 1
    BY <1>2, <2>1, FS_AddElement
  <2> QED
    BY <1>1, <1>2, <1>3, <2>1, <2>2
<1>4. CASE ~(x.at = n /\ x.by \in Putter /\ x.blob = k)
  <2>1. PutsIn(S \cup {x}, n, k) = H
    BY <1>4 DEF PutsIn
  <2> QED
    BY <1>1, <1>2, <1>4, <2>1
<1> QED
  BY <1>3, <1>4

\* ... and one less.
LEMMA PutLess ==
    ASSUME NEW S, NEW x \in S, IsFiniteSet(S), NEW n, NEW k
    PROVE  /\ IsFiniteSet(S \ {x})
           /\ Cardinality(PutsIn(S, n, k)) \in Nat
           /\ Cardinality(PutsIn(S \ {x}, n, k)) \in Nat
           /\ Cardinality(PutsIn(S \ {x}, n, k))
                = Cardinality(PutsIn(S, n, k))
                    - IF x.at = n /\ x.by \in Putter /\ x.blob = k THEN 1 ELSE 0
<1> DEFINE R == S \ {x}
<1> DEFINE d == IF x.at = n /\ x.by \in Putter /\ x.blob = k THEN 1 ELSE 0
<1>1. IsFiniteSet(R) /\ x \notin R /\ S = R \cup {x}
  BY FS_Subset
<1>2. /\ Cardinality(PutsIn(R, n, k)) \in Nat
      /\ Cardinality(PutsIn(R \cup {x}, n, k)) = Cardinality(PutsIn(R, n, k)) + d
  <2> HIDE DEF R
  <2> QED
    BY <1>1, PutMore, SMTT(30)
<1>3. Cardinality(PutsIn(S, n, k)) = Cardinality(PutsIn(R, n, k)) + d
  BY <1>1, <1>2
<1>4. d \in Nat
  OBVIOUS
<1>5. \A p, q \in Nat : q = p + d => p = q - d
  BY <1>4
<1> HIDE DEF R, d
<1>6. Cardinality(PutsIn(S, n, k)) \in Nat
  BY <1>2, <1>3, <1>4
<1> QED
  BY <1>1, <1>2, <1>3, <1>5, <1>6 DEF R, d

\* A call that goes on still counts as it did.
LEMMA PutStep ==
    ASSUME NEW S, NEW j \in S, IsFiniteSet(S), NEW i, i \notin S \ {j},
           i.at = j.at, i.by = j.by, i.blob = j.blob, NEW n, NEW k,
           NEW T, T = (S \ {j}) \cup {i}
    PROVE  IsFiniteSet(T) /\ Cardinality(PutsIn(T, n, k)) = Cardinality(PutsIn(S, n, k))
<1> DEFINE R == S \ {j}
           d == IF j.at = n /\ j.by \in Putter /\ j.blob = k THEN 1 ELSE 0
<1>1. /\ IsFiniteSet(R) /\ Cardinality(PutsIn(S, n, k)) \in Nat
      /\ Cardinality(PutsIn(R, n, k)) \in Nat
      /\ Cardinality(PutsIn(R, n, k)) = Cardinality(PutsIn(S, n, k)) - d
  BY PutLess
<1>2. d = IF i.at = n /\ i.by \in Putter /\ i.blob = k THEN 1 ELSE 0
  OBVIOUS
<1>3. /\ IsFiniteSet(R \cup {i})
      /\ Cardinality(PutsIn(R \cup {i}, n, k)) = Cardinality(PutsIn(R, n, k)) + d
  <2>1. i \notin R
    OBVIOUS
  <2>a. IsFiniteSet(R)
    BY <1>1
  <2> HIDE DEF R, d
  <2>2. /\ IsFiniteSet(R \cup {i})
        /\ Cardinality(PutsIn(R \cup {i}, n, k)) = Cardinality(PutsIn(R, n, k))
             + IF i.at = n /\ i.by \in Putter /\ i.blob = k THEN 1 ELSE 0
    BY <2>1, <2>a, PutMore
  <2> QED
    BY <1>2, <2>2
<1>4. d \in Nat
  OBVIOUS
<1> HIDE DEF R, d
<1>5. Cardinality(PutsIn(R \cup {i}, n, k)) = Cardinality(PutsIn(S, n, k))
  BY <1>1, <1>3, <1>4
<1> QED
  BY <1>3, <1>5 DEF R

-----------------------------------------------------------------------------
(* Uses of a blob, and steps that take or drop one.                        *)

\* One blob is used d times more, the others as often as before.
UseChanges(n, k, d) ==
    \A m \in Node, i \in Blob : InUse(m, i)' = InUse(m, i) + IF m = n /\ i = k THEN d ELSE 0

\* The numbers of uses, and what they say.
UsesAreNumbers ==
    \A n \in Node, k \in Blob :
      /\ Cardinality(Holders(n, k)) \in Nat /\ Cardinality(Putting(n, k)) \in Nat
      /\ InUse(n, k) \in Nat
      /\ Downloading(n, k) => InUse(n, k) >= 1
      /\ InUse(n, k) = 0 => Holders(n, k) = {} /\ Putting(n, k) = {}
      /\ Holders(n, k) # {} => InUse(n, k) >= 1
      /\ Putting(n, k) # {} => InUse(n, k) >= 1

\* Uses are numbers: sets of users are finite.
LEMMA UsesTypes == FiniteUse => UsesAreNumbers
<1> SUFFICES ASSUME FiniteUse, NEW n \in Node, NEW k \in Blob
             PROVE  /\ Cardinality(Holders(n, k)) \in Nat /\ Cardinality(Putting(n, k)) \in Nat
                    /\ InUse(n, k) \in Nat
                    /\ Downloading(n, k) => InUse(n, k) >= 1
                    /\ InUse(n, k) = 0 => Holders(n, k) = {} /\ Putting(n, k) = {}
                    /\ Holders(n, k) # {} => InUse(n, k) >= 1
                    /\ Putting(n, k) # {} => InUse(n, k) >= 1
  BY DEF UsesAreNumbers
<1>1. IsFiniteSet(Holders(n, k)) /\ IsFiniteSet(Putting(n, k))
  BY FS_Subset DEF Holders, Putting, FiniteUse
<1>2. /\ Cardinality(Holders(n, k)) \in Nat
      /\ Cardinality(Holders(n, k)) = 0 <=> Holders(n, k) = {}
  BY <1>1, FS_CardinalityType, FS_EmptySet
<1>3. /\ Cardinality(Putting(n, k)) \in Nat
      /\ Cardinality(Putting(n, k)) = 0 <=> Putting(n, k) = {}
  BY <1>1, FS_CardinalityType, FS_EmptySet
<1> QED
  BY <1>2, <1>3 DEF InUse

\* ... and stay so in every step.
LEMMA UsesTypesNext == FiniteUse' => UsesAreNumbers'
BY UsesTypes, PTL

\* A step that leaves calls, copies and downloads alone, or their kinds.
LEMMA UseSame ==
    ASSUME FiniteUse, FiniteUse',
           \A m \in Node, i \in Blob : /\ Cardinality(Holders(m, i))' = Cardinality(Holders(m, i))
                                       /\ Cardinality(Putting(m, i))' = Cardinality(Putting(m, i))
                                       /\ Downloading(m, i)' <=> Downloading(m, i)
    PROVE  \A n \in Node, k \in Blob : UseChanges(n, k, 0)
BY UsesTypes DEF UseChanges, InUse, UsesAreNumbers

\* A copy begins.
LEMMA UseCopy ==
    ASSUME TypeOK, FiniteUse, NEW n \in Node, NEW x \in Node, NEW k \in Blob,
           <<x, k>> \notin using[n], using' = [using EXCEPT ![n] = @ \cup {<<x, k>>}],
           UNCHANGED <<jobs, want>>
    PROVE  FiniteUse' /\ UseChanges(n, k, 1)
<1>1. /\ using'[n] = using[n] \cup {<<x, k>>}
      /\ \A m \in Node : m # n => using'[m] = using[m]
  BY DEF TypeOK
<1>2. FiniteUse'
  BY <1>1, FS_AddElement, SMTT(40) DEF FiniteUse
<1>3. ASSUME NEW m \in Node, NEW i \in Blob
      PROVE  InUse(m, i)' = InUse(m, i) + IF m = n /\ i = k THEN 1 ELSE 0
  <2>1. Putting(m, i)' = Putting(m, i) /\ (Downloading(m, i)' <=> Downloading(m, i))
    BY DEF Putting, Downloading
  <2>2. Cardinality(Holders(m, i))'
          = Cardinality(Holders(m, i)) + IF m = n /\ i = k THEN 1 ELSE 0
    <3>1. CASE m # n
      <4>1. Holders(m, i)' = Holders(m, i)
        BY <1>1, <3>1 DEF Holders
      <4>2. Cardinality(Holders(m, i))' = Cardinality(Holders(m, i))
        BY <4>1
      <4> QED
        BY <3>1, <4>2, UsesTypes DEF UsesAreNumbers
    <3>2. CASE m = n
      <4>1. /\ Cardinality(UsersIn(using[n] \cup {<<x, k>>}, i))
                 = Cardinality(UsersIn(using[n], i)) + IF <<x, k>>[2] = i THEN 1 ELSE 0
        BY UserMore DEF FiniteUse
      <4>2. /\ UsersIn(using[n] \cup {<<x, k>>}, i) = Holders(m, i)'
            /\ UsersIn(using[n], i) = Holders(m, i)
        BY <1>1, <3>2 DEF UsersIn, Holders
      <4>3. Cardinality(Holders(m, i))' = Cardinality(UsersIn(using[n] \cup {<<x, k>>}, i))
        BY <4>2
      <4> QED
        BY <3>2, <4>1, <4>2, <4>3
    <3> QED
      BY <3>1, <3>2
  <2>3. Cardinality(Putting(m, i))' = Cardinality(Putting(m, i))
    BY <2>1
  <2> QED
    BY <2>1, <2>2, <2>3, UsesTypes DEF InUse, UsesAreNumbers
<1> QED
  BY <1>2, <1>3 DEF UseChanges

\* A copy ends.
LEMMA UseCopied ==
    ASSUME TypeOK, FiniteUse, NEW n \in Node, NEW x \in Node, NEW k \in Blob,
           <<x, k>> \in using[n], using' = [using EXCEPT ![n] = @ \ {<<x, k>>}],
           UNCHANGED <<jobs, want>>
    PROVE  FiniteUse' /\ UseChanges(n, k, -1)
<1>1. /\ using'[n] = using[n] \ {<<x, k>>}
      /\ \A m \in Node : m # n => using'[m] = using[m]
  BY DEF TypeOK
<1>2. FiniteUse'
  BY <1>1, FS_RemoveElement DEF FiniteUse
<1>3. ASSUME NEW m \in Node, NEW i \in Blob
      PROVE  InUse(m, i)' = InUse(m, i) + IF m = n /\ i = k THEN -1 ELSE 0
  <2>1. Putting(m, i)' = Putting(m, i) /\ (Downloading(m, i)' <=> Downloading(m, i))
    BY DEF Putting, Downloading
  <2>2. Cardinality(Holders(m, i))'
          = Cardinality(Holders(m, i)) - IF m = n /\ i = k THEN 1 ELSE 0
    <3>1. CASE m # n
      <4>1. Holders(m, i)' = Holders(m, i)
        BY <1>1, <3>1 DEF Holders
      <4>2. Cardinality(Holders(m, i))' = Cardinality(Holders(m, i))
        BY <4>1
      <4> QED
        BY <3>1, <4>2, UsesTypes DEF UsesAreNumbers
    <3>2. CASE m = n
      <4>1. /\ Cardinality(UsersIn(using[n] \ {<<x, k>>}, i))
                 = Cardinality(UsersIn(using[n], i)) - IF <<x, k>>[2] = i THEN 1 ELSE 0
        BY UserLess DEF FiniteUse
      <4>2. /\ UsersIn(using[n] \ {<<x, k>>}, i) = Holders(m, i)'
            /\ UsersIn(using[n], i) = Holders(m, i)
        BY <1>1, <3>2 DEF UsersIn, Holders
      <4>3. Cardinality(Holders(m, i))' = Cardinality(UsersIn(using[n] \ {<<x, k>>}, i))
        BY <4>2
      <4> QED
        BY <3>2, <4>1, <4>2, <4>3
    <3> QED
      BY <3>1, <3>2
  <2>3. Cardinality(Putting(m, i))' = Cardinality(Putting(m, i))
    BY <2>1
  <2> QED
    BY <2>1, <2>2, <2>3, UsesTypes DEF InUse, UsesAreNumbers
<1> QED
  BY <1>2, <1>3 DEF UseChanges

\* PutData begins, and ends.
LEMMA UsePut ==
    ASSUME TypeOK, FiniteUse, NEW j, j \notin jobs, j.at \in Node, j.by \in Putter,
           jobs' = jobs \cup {j}, UNCHANGED <<using, want>>
    PROVE  FiniteUse' /\ UseChanges(j.at, j.blob, 1)
<1>1. FiniteUse'
  BY FS_AddElement DEF FiniteUse
<1>2. ASSUME NEW m \in Node, NEW i \in Blob
      PROVE  InUse(m, i)' = InUse(m, i) + IF m = j.at /\ i = j.blob THEN 1 ELSE 0
  <2>1. Holders(m, i)' = Holders(m, i) /\ (Downloading(m, i)' <=> Downloading(m, i))
    BY DEF Holders, Downloading
  <2>2. /\ Putting(m, i) = PutsIn(jobs, m, i)
        /\ Putting(m, i)' = PutsIn(jobs \cup {j}, m, i)
    BY DEF Putting, PutsIn
  <2>3. Cardinality(PutsIn(jobs \cup {j}, m, i))
          = Cardinality(PutsIn(jobs, m, i))
              + IF j.at = m /\ j.by \in Putter /\ j.blob = i THEN 1 ELSE 0
    <3>1. IsFiniteSet(jobs)
      BY DEF FiniteUse
    <3> QED
      BY ONLY <3>1, PutMore, j \notin jobs
  <2>4. Cardinality(Putting(m, i))'
          = Cardinality(Putting(m, i)) + IF m = j.at /\ i = j.blob THEN 1 ELSE 0
    BY <2>2, <2>3
  <2>5. Cardinality(Holders(m, i))' = Cardinality(Holders(m, i))
    BY <2>1
  <2> QED
    BY <2>1, <2>4, <2>5, UsesTypes DEF InUse, UsesAreNumbers
<1> QED
  BY <1>1, <1>2 DEF UseChanges

\* ... and gives up its hold.
LEMMA UseReleased ==
    ASSUME TypeOK, FiniteUse, NEW j \in jobs, j.by \in Putter,
           jobs' = jobs \ {j}, UNCHANGED <<using, want>>
    PROVE  FiniteUse' /\ UseChanges(j.at, j.blob, -1)
<1>1. FiniteUse'
  BY FS_RemoveElement DEF FiniteUse
<1>2. ASSUME NEW m \in Node, NEW i \in Blob
      PROVE  InUse(m, i)' = InUse(m, i) + IF m = j.at /\ i = j.blob THEN -1 ELSE 0
  <2>1. Holders(m, i)' = Holders(m, i) /\ (Downloading(m, i)' <=> Downloading(m, i))
    BY DEF Holders, Downloading
  <2>2. /\ Putting(m, i) = PutsIn(jobs, m, i)
        /\ Putting(m, i)' = PutsIn(jobs \ {j}, m, i)
    BY DEF Putting, PutsIn
  <2>3. Cardinality(PutsIn(jobs \ {j}, m, i))
          = Cardinality(PutsIn(jobs, m, i))
              - IF j.at = m /\ j.by \in Putter /\ j.blob = i THEN 1 ELSE 0
    <3>1. IsFiniteSet(jobs)
      BY DEF FiniteUse
    <3>2. /\ Cardinality(PutsIn(jobs, m, i)) \in Nat
          /\ Cardinality(PutsIn(jobs \ {j}, m, i)) \in Nat
          /\ Cardinality(PutsIn(jobs \ {j}, m, i))
               = Cardinality(PutsIn(jobs, m, i))
                   - IF j.at = m /\ j.by \in Putter /\ j.blob = i THEN 1 ELSE 0
      BY ONLY <3>1, j \in jobs, PutLess, SMTT(40)
    <3> QED
      BY <3>2
  <2>4. Cardinality(Putting(m, i))'
          = Cardinality(Putting(m, i)) - IF m = j.at /\ i = j.blob THEN 1 ELSE 0
    BY <2>2, <2>3
  <2>5. Cardinality(Holders(m, i))' = Cardinality(Holders(m, i))
    BY <2>1
  <2> QED
    BY <2>1, <2>4, <2>5, UsesTypes DEF InUse, UsesAreNumbers
<1> QED
  BY <1>1, <1>2 DEF UseChanges

\* A call of onData is over: it never held anything.
LEMMA UseHandled ==
    ASSUME TypeOK, FiniteUse, NEW j \in jobs, j.by \notin Putter,
           jobs' = jobs \ {j}, UNCHANGED <<using, want>>
    PROVE  FiniteUse' /\ \A n \in Node, k \in Blob : UseChanges(n, k, 0)
<1>1. FiniteUse'
  BY FS_RemoveElement DEF FiniteUse
<1>2. \A m \in Node, i \in Blob : /\ Holders(m, i)' = Holders(m, i)
                                  /\ Putting(m, i)' = Putting(m, i)
                                  /\ Downloading(m, i)' <=> Downloading(m, i)
  BY DEF Holders, Downloading, Putting
<1> QED
  BY <1>1, <1>2, UseSame

\* A call of onData begins.
LEMMA UseHandling ==
    ASSUME TypeOK, FiniteUse, NEW j, j.by \notin Putter,
           jobs' = jobs \cup {j}, UNCHANGED <<using, want>>
    PROVE  FiniteUse' /\ \A n \in Node, k \in Blob : UseChanges(n, k, 0)
<1>1. FiniteUse'
  BY FS_AddElement DEF FiniteUse
<1>2. \A m \in Node, i \in Blob : /\ Holders(m, i)' = Holders(m, i)
                                  /\ Putting(m, i)' = Putting(m, i)
                                  /\ Downloading(m, i)' <=> Downloading(m, i)
  BY DEF Holders, Downloading, Putting
<1> QED
  BY <1>1, <1>2, UseSame

\* A call goes on.
LEMMA UseStep ==
    ASSUME TypeOK, FiniteUse, JobsApart, NEW j \in jobs, NEW i, Step(j, i),
           i.at = j.at, i.by = j.by, i.blob = j.blob, UNCHANGED <<using, want>>
    PROVE  FiniteUse' /\ \A n \in Node, k \in Blob : UseChanges(n, k, 0)
<1>1. i \notin jobs \ {j}
  BY DEF JobsApart
<1>2. FiniteUse'
  BY FS_AddElement, FS_RemoveElement DEF FiniteUse, Step
<1>3. ASSUME NEW n \in Node, NEW k \in Blob
      PROVE  /\ Cardinality(Holders(n, k))' = Cardinality(Holders(n, k))
             /\ Cardinality(Putting(n, k))' = Cardinality(Putting(n, k))
             /\ Downloading(n, k)' <=> Downloading(n, k)
  <2>1. Holders(n, k)' = Holders(n, k) /\ (Downloading(n, k)' <=> Downloading(n, k))
    BY DEF Holders, Downloading
  <2>2. /\ Putting(n, k) = PutsIn(jobs, n, k)
        /\ Putting(n, k)' = PutsIn(jobs', n, k)
    BY DEF Putting, PutsIn, Step
  <2>3. Cardinality(PutsIn(jobs', n, k)) = Cardinality(PutsIn(jobs, n, k))
    <3>1. IsFiniteSet(jobs) /\ jobs' = (jobs \ {j}) \cup {i}
      BY DEF FiniteUse, Step
    <3> QED
      BY <1>1, <3>1, PutStep
  <2>4. Cardinality(Putting(n, k))' = Cardinality(Putting(n, k))
    BY <2>2, <2>3
  <2>5. Cardinality(Holders(n, k))' = Cardinality(Holders(n, k))
    BY <2>1
  <2> QED
    BY <2>1, <2>4, <2>5
<1> QED
  BY <1>2, <1>3, UseSame

\* A download begins, and ends.
LEMMA UseLoop ==
    ASSUME TypeOK, FiniteUse, NEW n \in Node, NEW k \in Blob, NEW f, want[n] = {},
           want' = [want EXCEPT ![n] = {<<k, f>>}], UNCHANGED <<jobs, using>>
    PROVE  /\ FiniteUse' /\ UseChanges(n, k, 1) /\ Downloading(n, k)'
           /\ \A m \in Node, i \in Blob :
                ~(m = n /\ i = k) => (Downloading(m, i)' <=> Downloading(m, i))
<1>1. want'[n] = {<<k, f>>} /\ \A m \in Node : m # n => want'[m] = want[m]
  BY DEF TypeOK
<1>2. FiniteUse'
  BY DEF FiniteUse
<1>3. ASSUME NEW m \in Node, NEW i \in Blob
      PROVE  /\ Downloading(m, i)' <=> Downloading(m, i) \/ (m = n /\ i = k)
             /\ Downloading(m, i) => ~(m = n /\ i = k)
  <2>1. CASE m # n
    BY <1>1, <2>1 DEF Downloading
  <2>2. CASE m = n
    <3>1. <<k, f>>[1] = k
      OBVIOUS
    <3>2. ~Downloading(m, i)
      BY <2>2 DEF Downloading
    <3>3. Downloading(m, i)' <=> i = k
      BY <1>1, <2>2, <3>1 DEF Downloading
    <3> QED
      BY <2>2, <3>2, <3>3
  <2> QED
    BY <2>1, <2>2
<1>4. ASSUME NEW m \in Node, NEW i \in Blob
      PROVE  InUse(m, i)' = InUse(m, i) + IF m = n /\ i = k THEN 1 ELSE 0
  <2>1. Holders(m, i)' = Holders(m, i) /\ Putting(m, i)' = Putting(m, i)
    BY DEF Holders, Putting
  <2>2. /\ Cardinality(Holders(m, i))' = Cardinality(Holders(m, i))
        /\ Cardinality(Putting(m, i))' = Cardinality(Putting(m, i))
    BY <2>1
  <2> QED
    BY <1>3, <2>2, UsesTypes DEF InUse, UsesAreNumbers
<1> QED
  BY <1>2, <1>3, <1>4 DEF UseChanges

\* ... and ends.
LEMMA UseLoopEnds ==
    ASSUME TypeOK, FiniteUse, NEW n \in Node, NEW k \in Blob, NEW f, want[n] = {<<k, f>>},
           want' = [want EXCEPT ![n] = {}], UNCHANGED <<jobs, using>>
    PROVE  /\ FiniteUse' /\ UseChanges(n, k, -1) /\ ~Downloading(n, k)'
           /\ \A m \in Node, i \in Blob :
                ~(m = n /\ i = k) => (Downloading(m, i)' <=> Downloading(m, i))
<1>1. want'[n] = {} /\ \A m \in Node : m # n => want'[m] = want[m]
  BY DEF TypeOK
<1>2. FiniteUse'
  BY DEF FiniteUse
<1>3. ASSUME NEW m \in Node, NEW i \in Blob
      PROVE  /\ Downloading(m, i) <=> Downloading(m, i)' \/ (m = n /\ i = k)
             /\ Downloading(m, i)' => ~(m = n /\ i = k)
  <2>1. CASE m # n
    BY <1>1, <2>1 DEF Downloading
  <2>2. CASE m = n
    <3>1. <<k, f>>[1] = k
      OBVIOUS
    <3>2. ~Downloading(m, i)'
      BY <1>1, <2>2 DEF Downloading
    <3>3. Downloading(m, i) <=> i = k
      BY <2>2, <3>1 DEF Downloading
    <3> QED
      BY <2>2, <3>2, <3>3
  <2> QED
    BY <2>1, <2>2
<1>4. ASSUME NEW m \in Node, NEW i \in Blob
      PROVE  InUse(m, i)' = InUse(m, i) + IF m = n /\ i = k THEN -1 ELSE 0
  <2>1. Holders(m, i)' = Holders(m, i) /\ Putting(m, i)' = Putting(m, i)
    BY DEF Holders, Putting
  <2>2. /\ Cardinality(Holders(m, i))' = Cardinality(Holders(m, i))
        /\ Cardinality(Putting(m, i))' = Cardinality(Putting(m, i))
    BY <2>1
  <2> QED
    BY <1>3, <2>2, UsesTypes DEF InUse, UsesAreNumbers
<1> QED
  BY <1>2, <1>3, <1>4 DEF UseChanges

-----------------------------------------------------------------------------
(* What writeObj does.                                                     *)

\* The sets the parts of an object are from.
State == {"not", "ready", "local"}
Contents == {"none", "part", "whole"}

\* An object whose column is what writeObj computes.
Sound(o) == o \in Obj /\ (o.needs <=> o.state = "ready" /\ ~o.loading)

\* An object is a row with a file, counts and adverts.
LEMMA ObjectIs ==
    ASSUME NEW h \in Nat, NEW s \in State, NEW l \in BOOLEAN, NEW c \in [Topic -> Int],
           NEW T \in SUBSET Topic
    PROVE  /\ Object(h, s, l, c, T) \in Obj
           /\ Object(h, s, l, c, T).holds = h /\ Object(h, s, l, c, T).state = s
           /\ Object(h, s, l, c, T).loading = l /\ Object(h, s, l, c, T).count = c
           /\ Object(h, s, l, c, T).topics = T
           /\ Object(h, s, l, c, T).needs = (s = "ready" /\ ~l)
           /\ Present(Object(h, s, l, c, T)) <=> T # {} \/ h # 0
           /\ Sound(Object(h, s, l, c, T))
BY DEF Object, Obj, State, Present, Sound

\* What an absent object is made of.
LEMMA AbsentIs ==
    /\ Absent \in Obj /\ Absent.holds = 0 /\ Absent.state = "not" /\ Absent.loading = FALSE
    /\ Absent.count = [t \in Topic |-> 0] /\ Absent.topics = {} /\ Absent.needs = FALSE
    /\ ~Present(Absent)
<1> DEFINE z == [t \in Topic |-> 0]
           o == Object(0, "not", FALSE, z, {})
<1>1. z \in [Topic -> Int]
  OBVIOUS
<1>2. 0 \in Nat /\ "not" \in State /\ FALSE \in BOOLEAN /\ {} \in SUBSET Topic
  BY DEF State
<1> HIDE DEF z
<1>3. /\ o \in Obj /\ o.holds = 0 /\ o.state = "not" /\ o.loading = FALSE /\ o.count = z
      /\ o.topics = {} /\ o.needs = FALSE /\ ~Present(o)
  BY <1>1, <1>2 DEF Object, Obj, Present
<1>4. Absent = o
  BY DEF Absent, z
<1> HIDE DEF o
<1> QED
  BY <1>3, <1>4 DEF z

\* The object written: nothing is left of one that nothing tracks or holds.
LEMMA WriteRow ==
    ASSUME TypeOK, NEW n \in Node, NEW k \in Blob, NEW o, Sound(o), NEW f, NEW up, NEW down,
           Write(n, k, o, f, up, down)
    PROVE  /\ row' \in [Node -> [Blob -> Obj]]
           /\ \A m \in Node, i \in Blob : ~(m = n /\ i = k) => row'[m][i] = row[m][i]
           /\ row'[n][k] = IF Present(o) THEN o ELSE Absent
           /\ row'[n][k].holds = o.holds /\ row'[n][k].topics = o.topics
           /\ Present(row'[n][k]) <=> Present(o)
           /\ row'[n][k].state = IF Present(o) THEN o.state ELSE "not"
           /\ row'[n][k].loading <=> o.loading /\ Present(o)
           /\ row'[n][k].needs <=> o.needs /\ Present(o)
           /\ \A t \in Topic : row'[n][k].count[t] = IF Present(o) THEN o.count[t] ELSE 0
<1> DEFINE x == IF Present(o) THEN o ELSE Absent
<1>1. row' = [row EXCEPT ![n][k] = x]
  BY DEF Write
<1>2. /\ x \in Obj
      /\ x.holds = o.holds /\ x.topics = o.topics /\ (Present(x) <=> Present(o))
      /\ x.state = IF Present(o) THEN o.state ELSE "not"
      /\ x.loading <=> o.loading /\ Present(o)
      /\ x.needs <=> o.needs /\ Present(o)
      /\ \A t \in Topic : x.count[t] = IF Present(o) THEN o.count[t] ELSE 0
  <2>1. CASE Present(o)
    BY <2>1 DEF Sound
  <2>2. CASE ~Present(o)
    BY <2>2, AbsentIs DEF Present, Sound
  <2> QED
    BY <2>1, <2>2
<1>3. x = IF Present(o) THEN o ELSE Absent
  OBVIOUS
<1> HIDE DEF x
<1>4. row'[n][k] = x
  BY <1>1 DEF TypeOK
<1>5. \A m \in Node, i \in Blob : ~(m = n /\ i = k) => row'[m][i] = row[m][i]
  BY <1>1 DEF TypeOK
<1>6. row' \in [Node -> [Blob -> Obj]]
  BY <1>1, <1>2 DEF TypeOK
<1> QED
  BY <1>2, <1>3, <1>4, <1>5, <1>6

\* The file and the adverts.
LEMMA WriteFile ==
    ASSUME TypeOK, NEW n \in Node, NEW k \in Blob, NEW o, NEW f \in Contents, NEW up, NEW down,
           Write(n, k, o, f, up, down)
    PROVE  /\ file' \in [Node -> [Blob -> Contents]]
           /\ adv' \in [Node -> [Blob -> [Topic -> BOOLEAN]]]
           /\ \A m \in Node, i \in Blob :
                ~(m = n /\ i = k) => file'[m][i] = file[m][i] /\ adv'[m][i] = adv[m][i]
           /\ file'[n][k] = IF ~Present(o) /\ o.state = "local" THEN "none" ELSE f
           /\ \A t \in Topic : adv'[n][k][t] <=> t \in up \/ (adv[n][k][t] /\ t \notin down)
<1> DEFINE x == IF ~Present(o) /\ o.state = "local" THEN "none" ELSE f
           A == [t \in Topic |-> t \in up \/ (adv[n][k][t] /\ t \notin down)]
<1>1. file' = [file EXCEPT ![n][k] = x]
  BY DEF Write
<1>2. adv' = [adv EXCEPT ![n][k] = A]
  BY DEF Write, TypeOK
<1>3. x \in Contents /\ x = IF ~Present(o) /\ o.state = "local" THEN "none" ELSE f
  BY DEF Contents
<1>4. /\ A \in [Topic -> BOOLEAN]
      /\ \A t \in Topic : A[t] <=> t \in up \/ (adv[n][k][t] /\ t \notin down)
  BY DEF TypeOK
<1> HIDE DEF x, A
<1>5. /\ file'[n][k] = x /\ adv'[n][k] = A
      /\ \A m \in Node, i \in Blob :
           ~(m = n /\ i = k) => file'[m][i] = file[m][i] /\ adv'[m][i] = adv[m][i]
  BY <1>1, <1>2 DEF TypeOK
<1>6. file' \in [Node -> [Blob -> Contents]]
  BY <1>1, <1>3 DEF TypeOK, Contents
<1>7. adv' \in [Node -> [Blob -> [Topic -> BOOLEAN]]]
  BY <1>2, <1>4 DEF TypeOK
<1> QED
  BY <1>3, <1>4, <1>5, <1>6, <1>7

\* A step that writes the object of k: what it must see to, so that objects stay right.
LEMMA WriteObjects ==
    ASSUME TypeOK, ObjectsRight, NEW n \in Node, NEW k \in Blob,
           NEW o, Sound(o), NEW f \in Contents, NEW up, NEW down, Write(n, k, o, f, up, down),
           \A m \in Node, i \in Blob : ~(m = n /\ i = k) => advert'[m][i] = advert[m][i],
           o.state = "ready" => advert'[n][k] # {},
           o.state = "local" <=> f # "none",
           \A t \in Topic : t \in up \/ (adv[n][k][t] /\ t \notin down) => o.state = "local" /\ t \in o.topics,
           \A t \in Topic \ o.topics : o.count[t] = 0
    PROVE  ObjectsRight'
<1>1. /\ \A m \in Node, i \in Blob : ~(m = n /\ i = k) => row'[m][i] = row[m][i]
      /\ row'[n][k].holds = o.holds /\ row'[n][k].topics = o.topics
      /\ Present(row'[n][k]) <=> Present(o)
      /\ row'[n][k].state = IF Present(o) THEN o.state ELSE "not"
      /\ row'[n][k].loading <=> o.loading /\ Present(o)
      /\ row'[n][k].needs <=> o.needs /\ Present(o)
      /\ \A t \in Topic : row'[n][k].count[t] = IF Present(o) THEN o.count[t] ELSE 0
  BY WriteRow
<1>2. /\ \A m \in Node, i \in Blob :
           ~(m = n /\ i = k) => file'[m][i] = file[m][i] /\ adv'[m][i] = adv[m][i]
      /\ file'[n][k] = IF ~Present(o) /\ o.state = "local" THEN "none" ELSE f
      /\ \A t \in Topic : adv'[n][k][t] <=> t \in up \/ (adv[n][k][t] /\ t \notin down)
  BY WriteFile
<1>3. AbsentEmpty'
  <2> SUFFICES ASSUME NEW m \in Node, NEW i \in Blob, ~Present(row'[m][i])
               PROVE  row'[m][i].state = "not" /\ ~row'[m][i].loading
    BY DEF AbsentEmpty
  <2>1. CASE m = n /\ i = k
    BY <1>1, <2>1
  <2>2. CASE ~(m = n /\ i = k)
    BY <1>1, <2>2 DEF ObjectsRight, AbsentEmpty
  <2> QED
    BY <2>1, <2>2
<1>4. NeedsTrue'
  <2> SUFFICES ASSUME NEW m \in Node, NEW i \in Blob
               PROVE  row'[m][i].needs <=> row'[m][i].state = "ready" /\ ~row'[m][i].loading
    BY DEF NeedsTrue
  <2>1. CASE m = n /\ i = k
    BY <1>1, <2>1 DEF Sound
  <2>2. CASE ~(m = n /\ i = k)
    BY <1>1, <2>2 DEF ObjectsRight, NeedsTrue
  <2> QED
    BY <2>1, <2>2
<1>5. ReadyHeard'
  <2> SUFFICES ASSUME NEW m \in Node, NEW i \in Blob, row'[m][i].state = "ready"
               PROVE  advert'[m][i] # {}
    BY DEF ReadyHeard, Advertised
  <2>1. CASE m = n /\ i = k
    BY <1>1, <2>1 DEF State
  <2>2. CASE ~(m = n /\ i = k)
    BY <1>1, <2>2 DEF ObjectsRight, ReadyHeard, Advertised
  <2> QED
    BY <2>1, <2>2
<1>6. OnDisk'
  <2> SUFFICES ASSUME NEW m \in Node, NEW i \in Blob
               PROVE  file'[m][i] # "none" <=> row'[m][i].state = "local"
    BY DEF OnDisk
  <2>1. CASE m = n /\ i = k
    BY <1>1, <1>2, <2>1
  <2>2. CASE ~(m = n /\ i = k)
    BY <1>1, <1>2, <2>2 DEF ObjectsRight, OnDisk
  <2> QED
    BY <2>1, <2>2
<1>7. OffersHad'
  <2> SUFFICES ASSUME NEW m \in Node, NEW i \in Blob, NEW t \in Topic, adv'[m][i][t]
               PROVE  row'[m][i].state = "local" /\ t \in row'[m][i].topics
    BY DEF OffersHad
  <2>1. CASE m = n /\ i = k
    BY <1>1, <1>2, <2>1 DEF Present
  <2>2. CASE ~(m = n /\ i = k)
    BY <1>1, <1>2, <2>2 DEF ObjectsRight, OffersHad
  <2> QED
    BY <2>1, <2>2
<1>8. CountedTopics'
  <2> SUFFICES ASSUME NEW m \in Node, NEW i \in Blob, NEW t \in Topic, t \notin row'[m][i].topics
               PROVE  row'[m][i].count[t] = 0
    BY DEF CountedTopics
  <2>1. CASE m = n /\ i = k
    BY <1>1, <2>1
  <2>2. CASE ~(m = n /\ i = k)
    BY <1>1, <2>2 DEF ObjectsRight, CountedTopics
  <2> QED
    BY <2>1, <2>2
<1> QED
  BY <1>3, <1>4, <1>5, <1>6, <1>7, <1>8 DEF ObjectsRight

\* Holds follow uses.
LEMMA HoldsFollow ==
    ASSUME TypeOK, FiniteUse, FiniteUse', HoldsEnough, NEW n \in Node, NEW k \in Blob, NEW d \in Int,
           UseChanges(n, k, d), row'[n][k].holds = row[n][k].holds + d,
           \A m \in Node, i \in Blob : ~(m = n /\ i = k) => row'[m][i] = row[m][i]
    PROVE  /\ HoldsEnough'
           /\ HoldsCounted => HoldsCounted'
<1>1. ASSUME NEW m \in Node, NEW i \in Blob
      PROVE  /\ row[m][i].holds \in Nat /\ InUse(m, i) \in Nat
             /\ row'[m][i].holds = row[m][i].holds + IF m = n /\ i = k THEN d ELSE 0
             /\ InUse(m, i)' = InUse(m, i) + IF m = n /\ i = k THEN d ELSE 0
  <2>1. row[m][i] \in Obj
    BY DEF TypeOK
  <2>2. row[m][i].holds \in Nat
    BY <2>1 DEF Obj
  <2>3. InUse(m, i) \in Nat
    BY UsesTypes DEF UsesAreNumbers
  <2>4. InUse(m, i)' = InUse(m, i) + IF m = n /\ i = k THEN d ELSE 0
    BY DEF UseChanges
  <2>5. row'[m][i].holds = row[m][i].holds + IF m = n /\ i = k THEN d ELSE 0
    BY <2>2
  <2> QED
    BY <2>2, <2>3, <2>4, <2>5
<1>2. HoldsEnough'
  BY <1>1 DEF HoldsEnough
<1>3. HoldsCounted <=> \A m \in Node, i \in Blob : row[m][i].holds = InUse(m, i)
  BY DEF HoldsCounted, InUse
<1>4. HoldsCounted' <=> \A m \in Node, i \in Blob : row'[m][i].holds = InUse(m, i)'
  BY DEF HoldsCounted, InUse
<1>5. HoldsCounted => HoldsCounted'
  BY <1>1, <1>3, <1>4
<1> QED
  BY <1>2, <1>5

\* A step that writes no part leaves none.
LEMMA WriteWhole ==
    ASSUME TypeOK, NEW n \in Node, NEW k \in Blob,
           NEW o, NEW f \in Contents, NEW up, NEW down, Write(n, k, o, f, up, down),
           f # "part", \A m \in Node, i \in Blob : file[m][i] # "part"
    PROVE  \A m \in Node, i \in Blob : file'[m][i] # "part"
<1>1. \A m \in Node, i \in Blob : ~(m = n /\ i = k) => file'[m][i] = file[m][i]
  BY DEF Write, TypeOK
<1>2. file'[n][k] \in {"none", f}
  BY DEF Write, TypeOK
<1> QED
  BY <1>1, <1>2

\* The object written is local if it was, and if a copy of it begins.
UsesLocal(n, k, o) ==
    /\ row[n][k].state = "local" => o.state = "local"
    /\ \A m \in Node : \A u \in using'[m] :
         u \in using[m] \/ (m = n /\ u[2] = k /\ o.state = "local")

\* What a step that writes the object of k must see to, so that the rest holds as well.
LEMMA WriteInv ==
    ASSUME Inv, FiniteUse', NEW n \in Node, NEW k \in Blob,
           NEW o, Sound(o), NEW f \in Contents, NEW up, NEW down, Write(n, k, o, f, up, down),
           NEW d \in Int, UseChanges(n, k, d), o.holds = row[n][k].holds + d,
           \A m \in Node, i \in Blob :
             ~(m = n /\ i = k) => (Downloading(m, i)' <=> Downloading(m, i)),
           Downloading(n, k)' => o.loading,
           UsesLocal(n, k, o),
           spent'["restart"] = spent["restart"],
           spent["restart"] = 0 /\ o.loading => Downloading(n, k)',
           \A m \in Node : dl'[m] = "sleep" => dl[m] = "sleep",
           o.state = "ready" /\ ~o.loading /\ dl'[n] = "sleep" => row[n][k].needs,
           spent'["disk"] = 0 => /\ spent["disk"] = 0 /\ f # "part"
                                 /\ \A m \in Node : dl'[m] # "part"
    PROVE  HoldsEnough' /\ LoadingSet' /\ UsedLocal' /\ HoldsExact' /\ NoParts' /\ NoLostDownload'
<1>1. /\ \A m \in Node, i \in Blob : ~(m = n /\ i = k) => row'[m][i] = row[m][i]
      /\ row'[n][k].holds = o.holds
      /\ row'[n][k].state = IF Present(o) THEN o.state ELSE "not"
      /\ row'[n][k].loading <=> o.loading /\ Present(o)
      /\ row'[n][k].needs <=> o.needs /\ Present(o)
  BY WriteRow DEF Inv
<1>3. HoldsEnough' /\ (HoldsCounted => HoldsCounted')
  BY <1>1, HoldsFollow DEF Inv
<1>4. ASSUME NEW m \in Node, NEW i \in Blob, Downloading(m, i)'
      PROVE  row'[m][i].loading
  <2>1. CASE m = n /\ i = k
    <3>1. InUse(n, k)' >= 1 /\ InUse(n, k)' \in Nat
      BY <1>4, <2>1, UsesTypesNext DEF UsesAreNumbers
    <3>2. row'[n][k].holds >= InUse(n, k)'
      BY <1>3 DEF HoldsEnough
    <3>3. Present(o)
      BY <1>1, <3>1, <3>2 DEF Present
    <3> QED
      BY <1>1, <1>4, <2>1, <3>3
  <2>2. CASE ~(m = n /\ i = k)
    BY <1>1, <1>4, <2>2 DEF Inv, LoadingSet
  <2> QED
    BY <2>1, <2>2
<1>5. LoadingSet'
  BY <1>4 DEF LoadingSet
<1>6. HoldsExact'
  <2> SUFFICES ASSUME spent["restart"] = 0
               PROVE  HoldsCounted' /\ DownloadingIsTrue'
    BY DEF HoldsExact
  <2>1. HoldsCounted /\ DownloadingIsTrue
    BY DEF Inv, HoldsExact
  <2>2. ASSUME NEW m \in Node, NEW i \in Blob, row'[m][i].loading
        PROVE  Downloading(m, i)'
    BY <1>1, <2>1, <2>2 DEF DownloadingIsTrue
  <2> QED
    BY <1>3, <1>4, <2>1, <2>2 DEF DownloadingIsTrue
<1>7. NoParts'
  <2> SUFFICES ASSUME spent'["disk"] = 0, NEW m \in Node
               PROVE  dl'[m] # "part" /\ \A i \in Blob : file'[m][i] # "part"
    BY DEF NoParts
  <2>1. TypeOK /\ \A x \in Node, i \in Blob : file[x][i] # "part"
    BY DEF Inv, NoParts
  <2>2. \A x \in Node, i \in Blob : file'[x][i] # "part"
    BY <2>1, WriteWhole
  <2> QED
    BY <2>2
<1>8. NoLostDownload'
  <2> SUFFICES ASSUME NEW m \in Node, NEW i \in Blob, dl'[m] = "sleep", row'[m][i].needs
               PROVE  FALSE
    BY DEF NoLostDownload
  <2>1. dl[m] = "sleep" /\ ~row[m][i].needs
    BY DEF Inv, NoLostDownload
  <2> QED
    BY <1>1, <2>1 DEF Sound
<1>9. UsedLocal'
  <2> SUFFICES ASSUME NEW m \in Node, NEW u \in using'[m]
               PROVE  row'[m][u[2]].state = "local"
    BY DEF UsedLocal
  <2>1. row[m][u[2]].state = "local" \/ (m = n /\ u[2] = k)
    BY DEF Inv, UsedLocal, UsesLocal
  <2>2. CASE m = n /\ u[2] = k
    <3>1. o.state = "local"
      BY <2>2 DEF Inv, UsedLocal, UsesLocal
    <3>2. Holders(n, k)' # {}
      BY <2>2 DEF Holders
    <3>3. InUse(n, k)' >= 1 /\ InUse(n, k)' \in Nat
      BY <3>2, UsesTypesNext DEF UsesAreNumbers
    <3>4. row'[n][k].holds >= InUse(n, k)'
      BY <1>3 DEF HoldsEnough
    <3>5. Present(o)
      BY <1>1, <3>3, <3>4 DEF Present
    <3> QED
      BY <1>1, <2>2, <3>1, <3>5
  <2>3. CASE ~(m = n /\ u[2] = k)
    <3>1. u \in using[m]
      BY <2>3 DEF UsesLocal
    <3>2. u[2] \in Blob
      BY <3>1 DEF Inv, TypeOK
    <3> QED
      BY <1>1, <2>1, <2>3, <3>2
  <2> QED
    BY <2>2, <2>3
<1> QED
  BY <1>3, <1>5, <1>6, <1>7, <1>8, <1>9

\* The parts of the invariant that speak of objects, and what steps must see to so
\* that files and loops stay as the rest says.
Objects ==
    /\ ObjectsRight /\ HoldsEnough /\ LoadingSet /\ UsedLocal
    /\ HoldsExact /\ NoParts /\ NoLostDownload
ObjectTypes ==
    /\ row \in [Node -> [Blob -> Obj]] /\ file \in [Node -> [Blob -> Contents]]
    /\ adv \in [Node -> [Blob -> [Topic -> BOOLEAN]]]
Careful ==
    /\ spent'["restart"] = spent["restart"]
    /\ \A m \in Node : dl'[m] = "sleep" => dl[m] = "sleep"
    /\ spent'["disk"] = 0 => spent["disk"] = 0 /\ \A m \in Node : dl'[m] # "part"

\* The columns of a row.
LEMMA RowTypes ==
    ASSUME TypeOK, NEW n \in Node, NEW k \in Blob
    PROVE  /\ row[n][k] \in Obj /\ row[n][k].holds \in Nat /\ row[n][k].state \in State
           /\ row[n][k].loading \in BOOLEAN /\ row[n][k].count \in [Topic -> Int]
           /\ row[n][k].topics \in SUBSET Topic /\ row[n][k].needs \in BOOLEAN
           /\ file[n][k] \in Contents
<1>1. row[n][k] \in Obj /\ file[n][k] \in Contents
  BY DEF TypeOK, Contents
<1> QED
  BY <1>1 DEF Obj, State

\* What the invariant says of one object.
LEMMA ObjectFacts ==
    ASSUME Inv, NEW n \in Node, NEW k \in Blob
    PROVE  /\ row[n][k].needs <=> row[n][k].state = "ready" /\ ~row[n][k].loading
           /\ row[n][k].state = "ready" => advert[n][k] # {}
           /\ row[n][k].state = "local" <=> file[n][k] # "none"
           /\ \A t \in Topic : adv[n][k][t] => row[n][k].state = "local" /\ t \in row[n][k].topics
           /\ \A t \in Topic : t \notin row[n][k].topics => row[n][k].count[t] = 0
           /\ Downloading(n, k) => row[n][k].loading
           /\ spent["restart"] = 0 /\ row[n][k].loading => Downloading(n, k)
           /\ spent["disk"] = 0 => file[n][k] # "part"
           /\ dl[n] = "sleep" => ~row[n][k].needs
           /\ ~Present(row[n][k]) => row[n][k].state = "not" /\ ~row[n][k].loading
           /\ row[n][k].holds >= InUse(n, k) /\ InUse(n, k) \in Nat
<1>1. ObjectsRight /\ FiniteUse
  BY DEF Inv
<1>2. /\ row[n][k].needs <=> row[n][k].state = "ready" /\ ~row[n][k].loading
      /\ row[n][k].state = "ready" => advert[n][k] # {}
      /\ row[n][k].state = "local" <=> file[n][k] # "none"
      /\ \A t \in Topic : adv[n][k][t] => row[n][k].state = "local" /\ t \in row[n][k].topics
      /\ \A t \in Topic : t \notin row[n][k].topics => row[n][k].count[t] = 0
      /\ ~Present(row[n][k]) => row[n][k].state = "not" /\ ~row[n][k].loading
  BY <1>1 DEF ObjectsRight, NeedsTrue, ReadyHeard, Advertised, OnDisk, OffersHad,
              CountedTopics, AbsentEmpty
<1>3. /\ Downloading(n, k) => row[n][k].loading
      /\ spent["restart"] = 0 /\ row[n][k].loading => Downloading(n, k)
      /\ spent["disk"] = 0 => file[n][k] # "part"
      /\ dl[n] = "sleep" => ~row[n][k].needs
  BY DEF Inv, LoadingSet, HoldsExact, DownloadingIsTrue, NoParts, NoLostDownload
<1>4. row[n][k].holds >= InUse(n, k) /\ InUse(n, k) \in Nat
  BY <1>1, UsesTypes DEF Inv, HoldsEnough, UsesAreNumbers
<1> QED
  BY <1>2, <1>3, <1>4

\* A step in which uses of a blob do not change, or by one, and its object is written.
LEMMA ChangeInv ==
    ASSUME Inv, FiniteUse', NEW n \in Node, NEW k \in Blob,
           NEW o, Sound(o), NEW f \in Contents, NEW up, NEW down, Write(n, k, o, f, up, down),
           NEW d \in {0, 1, -1}, UseChanges(n, k, d), o.holds = row[n][k].holds + d,
           \A m \in Node, i \in Blob :
             ~(m = n /\ i = k) => (Downloading(m, i)' <=> Downloading(m, i)),
           Downloading(n, k)' => o.loading,
           spent["restart"] = 0 /\ o.loading => Downloading(n, k)',
           UsesLocal(n, k, o), Careful,
           o.state = "ready" /\ ~o.loading /\ dl'[n] = "sleep" => row[n][k].needs,
           spent["disk"] = 0 => f # "part",
           \A m \in Node, i \in Blob : ~(m = n /\ i = k) => advert'[m][i] = advert[m][i],
           o.state = "ready" => advert'[n][k] # {},
           o.state = "local" <=> f # "none",
           \A t \in Topic : t \in up \/ (adv[n][k][t] /\ t \notin down) => o.state = "local" /\ t \in o.topics,
           \A t \in Topic : t \notin o.topics => o.count[t] = 0
    PROVE  Objects' /\ ObjectTypes'
<1>1. TypeOK /\ ObjectsRight
  BY DEF Inv
<1>2. ObjectsRight'
  BY <1>1, WriteObjects
<1>3. HoldsEnough' /\ LoadingSet' /\ UsedLocal' /\ HoldsExact' /\ NoParts' /\ NoLostDownload'
  <2>1. d \in Int
    OBVIOUS
  <2>2. spent'["disk"] = 0 => /\ spent["disk"] = 0 /\ f # "part"
                              /\ \A m \in Node : dl'[m] # "part"
    BY DEF Careful
  <2> QED
    BY <2>1, <2>2, WriteInv DEF Careful
<1>4. ObjectTypes'
  BY <1>1, WriteRow, WriteFile DEF ObjectTypes
<1> QED
  BY <1>2, <1>3, <1>4 DEF Objects

\* One more hold, or one less.
LEMMA HoldInv ==
    ASSUME Inv, FiniteUse', NEW n \in Node, NEW k \in Blob, NEW d \in {1, -1}, Hold(n, k, d),
           UseChanges(n, k, d), UNCHANGED <<advert, want>>, Careful, UsesLocal(n, k, row[n][k])
    PROVE  Objects' /\ ObjectTypes'
<1> DEFINE r == row[n][k]
           o == Object(r.holds + d, r.state, r.loading, r.count, r.topics)
<1>1. TypeOK
  BY DEF Inv
<1>2. /\ r.holds \in Nat /\ r.state \in State /\ r.loading \in BOOLEAN
      /\ r.count \in [Topic -> Int] /\ r.topics \in SUBSET Topic /\ file[n][k] \in Contents
  BY <1>1, RowTypes
<1>3. r.holds + d \in Nat
  <2>1. InUse(n, k)' \in Nat
    BY UsesTypesNext DEF UsesAreNumbers
  <2>2. InUse(n, k)' = InUse(n, k) + d
    BY DEF UseChanges
  <2>3. r.holds >= InUse(n, k) /\ InUse(n, k) \in Nat
    BY ObjectFacts
  <2> QED
    BY <1>2, <2>1, <2>2, <2>3
<1>4. /\ Sound(o) /\ o.holds = r.holds + d /\ o.state = r.state /\ o.loading = r.loading
      /\ o.count = r.count /\ o.topics = r.topics
  BY <1>2, <1>3, ObjectIs
<1>5. Write(n, k, o, file[n][k], {}, {})
  BY DEF Hold
<1>6. \A m \in Node, i \in Blob : Downloading(m, i)' <=> Downloading(m, i)
  BY DEF Downloading
<1>7. UsesLocal(n, k, o)
  BY <1>4 DEF UsesLocal
<1> HIDE DEF o
<1>8. /\ Downloading(n, k)' => o.loading
      /\ spent["restart"] = 0 /\ o.loading => Downloading(n, k)'
      /\ o.state = "ready" /\ ~o.loading /\ dl'[n] = "sleep" => row[n][k].needs
      /\ o.state = "ready" => advert'[n][k] # {}
      /\ o.state = "local" <=> file[n][k] # "none"
  BY <1>4, <1>6, ObjectFacts
<1>9. /\ \A t \in Topic : adv[n][k][t] => o.state = "local" /\ t \in o.topics
      /\ \A t \in Topic : t \notin o.topics => o.count[t] = 0
      /\ spent["disk"] = 0 => file[n][k] # "part"
  BY <1>4, ObjectFacts
<1> QED
  BY <1>2, <1>4, <1>5, <1>6, <1>7, <1>8, <1>9, ChangeInv

\* No object is written.
LEMMA StayInv ==
    ASSUME Inv, FiniteUse', UNCHANGED <<row, file, adv, advert>>,
           \A m \in Node : using'[m] \subseteq using[m],
           \A n \in Node, k \in Blob : /\ InUse(n, k)' = InUse(n, k)
                                       /\ Downloading(n, k)' <=> Downloading(n, k),
           spent'["restart"] = spent["restart"], spent'["disk"] = spent["disk"],
           \A m \in Node : dl'[m] = "part" => dl[m] = "part",
           \A m \in Node : dl'[m] = "sleep" /\ dl[m] # "sleep" => \A k \in Blob : ~row[m][k].needs
    PROVE  Objects' /\ ObjectTypes'
<1>1. ObjectsRight'
  BY DEF Inv, ObjectsRight, AbsentEmpty, NeedsTrue, ReadyHeard, Advertised, OnDisk,
         OffersHad, CountedTopics
<1>2. HoldsEnough' /\ LoadingSet' /\ UsedLocal'
  <2>1. HoldsEnough'
    BY DEF Inv, HoldsEnough
  <2>2. LoadingSet'
    BY DEF Inv, LoadingSet
  <2>3. UsedLocal'
    BY DEF Inv, UsedLocal
  <2> QED
    BY <2>1, <2>2, <2>3
<1>3. HoldsExact'
  <2> SUFFICES ASSUME spent["restart"] = 0
               PROVE  HoldsCounted' /\ DownloadingIsTrue'
    BY DEF HoldsExact
  <2>1. HoldsCounted /\ DownloadingIsTrue
    BY DEF Inv, HoldsExact
  <2>2. HoldsCounted <=> \A m \in Node, i \in Blob : row[m][i].holds = InUse(m, i)
    BY DEF HoldsCounted, InUse
  <2>3. HoldsCounted' <=> \A m \in Node, i \in Blob : row'[m][i].holds = InUse(m, i)'
    BY DEF HoldsCounted, InUse
  <2> QED
    BY <2>1, <2>2, <2>3 DEF DownloadingIsTrue
<1>4. NoParts'
  BY DEF Inv, NoParts
<1>5. NoLostDownload'
  BY DEF Inv, NoLostDownload
<1>6. ObjectTypes'
  BY DEF Inv, TypeOK, ObjectTypes, Contents
<1> QED
  BY <1>1, <1>2, <1>3, <1>4, <1>5, <1>6 DEF Objects

-----------------------------------------------------------------------------
(* The steps.                                                              *)

\* The parts that speak of calls and of the loop.
Control == FiniteUse /\ JobsApart /\ LoopWants
ControlTypes ==
    /\ rec \in [Node -> SUBSET Record] /\ jobs \subseteq Job
    /\ advert \in [Node -> [Blob -> SUBSET (Node \X Topic)]]
    /\ dl \in [Node -> {"run", "sleep", "asked", "served", "ok", "part", "failed"}]
    /\ want \in [Node -> SUBSET (Blob \X Node)]
    /\ using \in [Node -> SUBSET (Node \X Blob)]
    /\ spent \in [{"put", "read", "fail", "disk", "restart"} -> Nat]

\* The invariant, by what its parts are about.
LEMMA Parts == Inv <=> Control /\ ControlTypes /\ Objects /\ ObjectTypes
BY DEF Inv, Control, ControlTypes, Objects, ObjectTypes, TypeOK, Contents

\* ... and after a step.
LEMMA PartsNext == Control' /\ ControlTypes' /\ Objects' /\ ObjectTypes' => Inv'
BY Parts, PTL

\* What a job is.
LEMMA JobTypes ==
    ASSUME TypeOK, NEW j \in jobs
    PROVE  /\ j \in Job /\ j.at \in Node /\ j.by \in Putter \cup Node /\ j.place \in Place
           /\ j.author \in Node /\ j.pri \in Nat /\ j.blob \in Blob /\ j.old \in SUBSET Blob
           /\ j.place[1] \in Topic
<1>1. j \in Job
  BY DEF TypeOK
<1>2. j.place \in Place
  BY <1>1 DEF Job
<1> QED
  BY <1>1, <1>2, PlaceAssumption DEF Job

\* The bounds of the model.
LEMMA SpentTypes ==
    ASSUME TypeOK, NEW x \in {"put", "read", "fail", "disk", "restart"},
           spent' = [spent EXCEPT ![x] = @ + 1]
    PROVE  /\ spent' \in [{"put", "read", "fail", "disk", "restart"} -> Nat]
           /\ spent'[x] = spent[x] + 1 /\ spent[x] \in Nat
           /\ \A y \in {"put", "read", "fail", "disk", "restart"} \ {x} : spent'[y] = spent[y]
BY DEF TypeOK

\* GetData begins.
LEMMA GetDataInv ==
    ASSUME Inv, NEW n \in Node, NEW k \in Blob, GetData(n, k)
    PROVE  Inv'
<1>1. TypeOK /\ FiniteUse /\ JobsApart /\ LoopWants
  BY DEF Inv
<1>2. /\ <<n, k>> \notin using[n] /\ using' = [using EXCEPT ![n] = @ \cup {<<n, k>>}]
      /\ Hold(n, k, 1) /\ UNCHANGED <<rec, jobs, advert, dl, want>>
      /\ spent' = [spent EXCEPT !["read"] = @ + 1]
  BY DEF GetData
<1>3. FiniteUse' /\ UseChanges(n, k, 1)
  BY <1>1, <1>2, UseCopy
<1>4. /\ spent' \in [{"put", "read", "fail", "disk", "restart"} -> Nat]
      /\ spent'["restart"] = spent["restart"] /\ spent'["disk"] = spent["disk"]
  BY <1>1, <1>2, SpentTypes
<1>5. Careful
  BY <1>2, <1>4 DEF Careful, Inv, NoParts
<1>a. UsesLocal(n, k, row[n][k])
  <2>1. row[n][k].state = "local"
    BY DEF GetData
  <2> QED
    BY <1>1, <1>2, <2>1 DEF UsesLocal, TypeOK
<1>6. Objects' /\ ObjectTypes'
  BY <1>2, <1>3, <1>5, <1>a, HoldInv
<1>7. Control'
  BY <1>1, <1>2, <1>3 DEF Control, JobsApart, LoopWants
<1>8. ControlTypes'
  BY <1>1, <1>2, <1>4 DEF TypeOK, ControlTypes
<1> QED
  BY <1>6, <1>7, <1>8, PartsNext

\* The end of a copy, whatever the loop that asked for it is told.
LEMMA EndsInv ==
    ASSUME Inv, NEW f \in Node, NEW n \in Node, NEW k \in Blob, <<n, k>> \in using[f],
           Hold(f, k, -1), using' = [using EXCEPT ![f] = @ \ {<<n, k>>}],
           UNCHANGED <<rec, jobs, advert, want>>,
           NEW end \in {"ok", "part", "failed"},
           dl' = [dl EXCEPT ![n] = IF Awaited(f, n, k) THEN end ELSE @],
           spent' \in [{"put", "read", "fail", "disk", "restart"} -> Nat],
           spent'["restart"] = spent["restart"],
           spent'["disk"] = 0 => spent["disk"] = 0 /\ end # "part"
    PROVE  Inv'
<1>1. TypeOK /\ FiniteUse /\ JobsApart /\ LoopWants
  BY DEF Inv
<1>2. FiniteUse' /\ UseChanges(f, k, -1)
  BY <1>1, UseCopied
<1>3. /\ dl'[n] = IF Awaited(f, n, k) THEN end ELSE dl[n]
      /\ \A m \in Node : m # n => dl'[m] = dl[m]
      /\ dl' \in [Node -> {"run", "sleep", "asked", "served", "ok", "part", "failed"}]
  BY <1>1 DEF TypeOK
<1>4. Careful
  BY <1>3 DEF Careful, Inv, NoParts
<1>a. UsesLocal(f, k, row[f][k])
  BY <1>1 DEF UsesLocal, TypeOK
<1>5. Objects' /\ ObjectTypes'
  BY <1>2, <1>4, <1>a, HoldInv
<1>6. LoopWants'
  <2> SUFFICES ASSUME NEW m \in Node
               PROVE  IF dl'[m] \in {"run", "sleep"} THEN want[m] = {}
                      ELSE \E i \in Blob, g \in Node : want[m] = {<<i, g>>}
    BY DEF LoopWants
  <2>1. IF dl[m] \in {"run", "sleep"} THEN want[m] = {}
        ELSE \E i \in Blob, g \in Node : want[m] = {<<i, g>>}
    BY <1>1 DEF LoopWants
  <2> QED
    BY <1>3, <2>1 DEF Awaited
<1>7. Control'
  BY <1>1, <1>2, <1>6 DEF Control, JobsApart
<1>8. ControlTypes'
  BY <1>1, <1>3 DEF TypeOK, ControlTypes
<1> QED
  BY <1>5, <1>7, <1>8, PartsNext

\* A copy ends.
LEMMA CopiedInv ==
    ASSUME Inv, NEW f \in Node, NEW n \in Node, NEW k \in Blob, Copied(f, n, k)
    PROVE  Inv'
<1>1. TypeOK
  BY DEF Inv
<1>2. /\ <<n, k>> \in using[f] /\ Hold(f, k, -1)
      /\ using' = [using EXCEPT ![f] = @ \ {<<n, k>>}]
      /\ dl' = [dl EXCEPT ![n] = IF Awaited(f, n, k) THEN Answer(f, k) ELSE @]
      /\ UNCHANGED <<rec, jobs, advert, want, spent>>
  BY DEF Copied
<1>3. Answer(f, k) \in {"ok", "part", "failed"}
  BY DEF Answer
<1>4. file[f][k] # "none"
  <2>1. row[f][k].state = "local"
    BY <1>2 DEF Inv, UsedLocal
  <2> QED
    BY <2>1 DEF Inv, ObjectsRight, OnDisk
<1>5. spent["disk"] = 0 => Answer(f, k) # "part"
  <2>1. file[f][k] \in Contents
    BY <1>1, RowTypes
  <2>2. spent["disk"] = 0 => file[f][k] # "part"
    BY DEF Inv, NoParts
  <2> QED
    BY <1>4, <2>1, <2>2 DEF Answer, Contents
<1> QED
  BY <1>1, <1>2, <1>3, <1>5, EndsInv DEF TypeOK

\* A file that cannot be read ends its copy.
LEMMA ReadFailsInv ==
    ASSUME Inv, NEW f \in Node, NEW n \in Node, NEW k \in Blob, ReadFails(f, n, k)
    PROVE  Inv'
<1>1. TypeOK
  BY DEF Inv
<1>2. PICK end \in {"part", "failed"} :
        dl' = [dl EXCEPT ![n] = IF Awaited(f, n, k) THEN end ELSE @]
  BY DEF ReadFails
<1>3. /\ <<n, k>> \in using[f] /\ Hold(f, k, -1)
      /\ using' = [using EXCEPT ![f] = @ \ {<<n, k>>}]
      /\ spent' = [spent EXCEPT !["disk"] = @ + 1]
      /\ UNCHANGED <<rec, jobs, advert, want>>
  BY DEF ReadFails
<1>4. /\ spent' \in [{"put", "read", "fail", "disk", "restart"} -> Nat]
      /\ spent'["restart"] = spent["restart"] /\ spent'["disk"] # 0
  BY <1>1, <1>3, SpentTypes
<1>5. end \in {"ok", "part", "failed"}
  OBVIOUS
<1> QED
  BY <1>2, <1>3, <1>4, <1>5, EndsInv

\* The friend who is asked copies the blob, or refuses.
LEMMA DataGetInv ==
    ASSUME Inv, NEW f \in Node, NEW n \in Node, NEW k \in Blob, DataGet(f, n, k)
    PROVE  Inv'
<1>1. TypeOK /\ FiniteUse /\ JobsApart /\ LoopWants
  BY DEF Inv
<1>2. /\ dl[n] = "asked" /\ want[n] = {<<k, f>>} /\ <<n, k>> \notin using[f]
      /\ UNCHANGED <<rec, jobs, advert, want, spent>>
  BY DEF DataGet
<1>3. ASSUME NEW x \in {"served", "failed"}, dl' = [dl EXCEPT ![n] = x]
      PROVE  /\ LoopWants' /\ Careful
             /\ dl' \in [Node -> {"run", "sleep", "asked", "served", "ok", "part", "failed"}]
             /\ \A m \in Node : m # n => dl'[m] = dl[m]
             /\ dl'[n] = x
  <2>1. /\ dl'[n] = x /\ \A m \in Node : m # n => dl'[m] = dl[m]
        /\ dl' \in [Node -> {"run", "sleep", "asked", "served", "ok", "part", "failed"}]
    BY <1>1, <1>3 DEF TypeOK
  <2>2. LoopWants'
    BY <1>1, <1>2, <2>1 DEF LoopWants
  <2>3. Careful
    BY <1>2, <2>1 DEF Careful, Inv, NoParts
  <2> QED
    BY <2>1, <2>2, <2>3
<1>4. CASE row[f][k].state = "local"
  <2>1. /\ Hold(f, k, 1) /\ using' = [using EXCEPT ![f] = @ \cup {<<n, k>>}]
        /\ dl' = [dl EXCEPT ![n] = "served"]
    BY <1>4 DEF DataGet
  <2>2. FiniteUse' /\ UseChanges(f, k, 1)
    BY <1>1, <1>2, <2>1, UseCopy
  <2>3. UsesLocal(f, k, row[f][k])
    BY <1>1, <1>4, <2>1 DEF UsesLocal, TypeOK
  <2>4. Objects' /\ ObjectTypes'
    BY <1>2, <1>3, <2>1, <2>2, <2>3, HoldInv
  <2>5. Control'
    BY <1>1, <1>2, <1>3, <2>1, <2>2 DEF Control, JobsApart
  <2>6. ControlTypes'
    BY <1>1, <1>2, <1>3, <2>1 DEF TypeOK, ControlTypes
  <2> QED
    BY <2>4, <2>5, <2>6, PartsNext
<1>5. CASE row[f][k].state # "local"
  <2>1. dl' = [dl EXCEPT ![n] = "failed"] /\ UNCHANGED <<row, file, adv, using>>
    BY <1>5 DEF DataGet
  <2>2. FiniteUse' /\ \A m \in Node, i \in Blob : /\ InUse(m, i)' = InUse(m, i)
                                                  /\ Downloading(m, i)' <=> Downloading(m, i)
    BY <1>1, <1>2, <2>1 DEF FiniteUse, InUse, Holders, Putting, Downloading
  <2>3. Objects' /\ ObjectTypes'
    BY <1>2, <1>3, <2>1, <2>2, StayInv
  <2>4. Control'
    BY <1>1, <1>2, <1>3, <2>1, <2>2 DEF Control, JobsApart
  <2>5. ControlTypes'
    BY <1>1, <1>2, <1>3, <2>1 DEF TypeOK, ControlTypes
  <2> QED
    BY <2>3, <2>4, <2>5, PartsNext
<1> QED
  BY <1>4, <1>5

\* The loop waits, its call fails.
LEMMA QuietInv ==
    ASSUME Inv, NEW n \in Node, NEW x \in {"sleep", "failed"}, dl' = [dl EXCEPT ![n] = x],
           x = "sleep" <=> dl[n] \in {"run", "sleep"},
           x = "sleep" => \A k \in Blob : ~row[n][k].needs,
           UNCHANGED <<rec, jobs, row, file, adv, advert, want, using>>,
           spent' \in [{"put", "read", "fail", "disk", "restart"} -> Nat],
           spent'["restart"] = spent["restart"], spent'["disk"] = spent["disk"]
    PROVE  Inv'
<1>1. TypeOK /\ FiniteUse /\ JobsApart /\ LoopWants
  BY DEF Inv
<1>2. /\ dl'[n] = x /\ \A m \in Node : m # n => dl'[m] = dl[m]
      /\ dl' \in [Node -> {"run", "sleep", "asked", "served", "ok", "part", "failed"}]
  BY <1>1 DEF TypeOK
<1>3. FiniteUse' /\ \A m \in Node, i \in Blob : /\ InUse(m, i)' = InUse(m, i)
                                                /\ Downloading(m, i)' <=> Downloading(m, i)
  BY <1>1 DEF FiniteUse, InUse, Holders, Putting, Downloading
<1>4. Objects' /\ ObjectTypes'
  BY <1>2, <1>3, StayInv
<1>5. LoopWants'
  BY <1>1, <1>2 DEF LoopWants
<1>6. Control'
  BY <1>1, <1>3, <1>5 DEF Control, JobsApart
<1>7. ControlTypes'
  BY <1>1, <1>2 DEF TypeOK, ControlTypes
<1> QED
  BY <1>4, <1>6, <1>7, PartsNext

\* The loop waits.
LEMMA LoopWaitInv ==
    ASSUME Inv, NEW n \in Node, LoopWait(n)
    PROVE  Inv'
BY QuietInv DEF LoopWait, Inv, TypeOK

\* A call of the loop fails.
LEMMA CallFailsInv ==
    ASSUME Inv, NEW n \in Node, CallFails(n)
    PROVE  Inv'
<1>1. TypeOK
  BY DEF Inv
<1>2. /\ dl' = [dl EXCEPT ![n] = "failed"] /\ dl[n] \in {"asked", "served"}
      /\ UNCHANGED <<rec, jobs, row, file, adv, advert, want, using>>
      /\ spent' = [spent EXCEPT !["fail"] = @ + 1]
  BY DEF CallFails
<1>3. /\ spent' \in [{"put", "read", "fail", "disk", "restart"} -> Nat]
      /\ spent'["restart"] = spent["restart"] /\ spent'["disk"] = spent["disk"]
  BY <1>1, <1>2, SpentTypes
<1> QED
  BY <1>2, <1>3, QuietInv

\* The loop takes a blob up.
LEMMA LoopPickInv ==
    ASSUME Inv, NEW n \in Node, NEW k \in Blob, LoopPick(n, k)
    PROVE  Inv'
<1> DEFINE r == row[n][k]
           o == Object(r.holds + 1, r.state, TRUE, r.count, r.topics)
<1>1. TypeOK /\ FiniteUse /\ JobsApart /\ LoopWants
  BY DEF Inv
<1>2. dl[n] = "run" /\ r.needs /\ UNCHANGED <<rec, jobs, advert, using, spent>>
  BY DEF LoopPick
<1>3. r.state = "ready" /\ advert[n][k] # {}
  BY <1>2, ObjectFacts
<1>4. /\ \E a \in advert[n][k] : want' = [want EXCEPT ![n] = {<<k, a[1]>>}]
      /\ dl' = [dl EXCEPT ![n] = "asked"]
      /\ Write(n, k, o, file[n][k], {}, {})
  BY <1>3 DEF LoopPick, Advertised
<1>5. PICK f \in Node : want' = [want EXCEPT ![n] = {<<k, f>>}]
  <2>1. PICK a \in advert[n][k] : want' = [want EXCEPT ![n] = {<<k, a[1]>>}]
    BY <1>4
  <2>2. a[1] \in Node
    BY <1>1 DEF TypeOK
  <2> QED
    BY <2>1, <2>2
<1>6. want[n] = {}
  BY <1>1, <1>2 DEF LoopWants
<1>7. /\ FiniteUse' /\ UseChanges(n, k, 1) /\ Downloading(n, k)'
      /\ \A m \in Node, i \in Blob :
           ~(m = n /\ i = k) => (Downloading(m, i)' <=> Downloading(m, i))
  BY <1>1, <1>2, <1>5, <1>6, UseLoop
<1>8. /\ r.holds \in Nat /\ r.state \in State /\ r.loading \in BOOLEAN
      /\ r.count \in [Topic -> Int] /\ r.topics \in SUBSET Topic /\ file[n][k] \in Contents
  BY <1>1, RowTypes
<1>9. /\ Sound(o) /\ o.holds = r.holds + 1 /\ o.state = r.state /\ o.loading = TRUE
      /\ o.count = r.count /\ o.topics = r.topics
  <2> HIDE DEF r
  <2>1. r.holds + 1 \in Nat
    BY <1>8
  <2>2. o \in Obj
    BY <1>8, <2>1 DEF Object, Obj, State
  <2> QED
    BY <2>2 DEF Object, Sound
<1>10. UsesLocal(n, k, o)
  BY <1>2, <1>9 DEF UsesLocal
<1> HIDE DEF o
<1>11. /\ dl'[n] = "asked" /\ \A m \in Node : m # n => dl'[m] = dl[m]
       /\ dl' \in [Node -> {"run", "sleep", "asked", "served", "ok", "part", "failed"}]
  BY <1>1, <1>4 DEF TypeOK
<1>12. Careful
  BY <1>2, <1>11 DEF Careful, Inv, NoParts
<1>13. /\ \A t \in Topic : adv[n][k][t] => o.state = "local" /\ t \in o.topics
       /\ \A t \in Topic : t \notin o.topics => o.count[t] = 0
       /\ spent["disk"] = 0 => file[n][k] # "part"
       /\ o.state = "local" <=> file[n][k] # "none"
  BY <1>9, ObjectFacts
<1>14. Objects' /\ ObjectTypes'
  BY <1>2, <1>3, <1>4, <1>7, <1>8, <1>9, <1>10, <1>12, <1>13, ChangeInv
<1>15. want'[n] = {<<k, f>>} /\ (\A m \in Node : m # n => want'[m] = want[m])
       /\ want' \in [Node -> SUBSET (Blob \X Node)]
  BY <1>1, <1>5 DEF TypeOK
<1>16. LoopWants'
  BY <1>1, <1>11, <1>15 DEF LoopWants
<1>17. Control'
  BY <1>1, <1>2, <1>7, <1>16 DEF Control, JobsApart
<1>18. ControlTypes'
  BY <1>1, <1>2, <1>11, <1>15 DEF TypeOK, ControlTypes
<1> QED
  BY <1>14, <1>17, <1>18, PartsNext

\* The loop puts down what it has taken up.
LEMMA LoopFinishInv ==
    ASSUME Inv, NEW n \in Node, NEW k \in Blob, LoopFinish(n, k)
    PROVE  Inv'
<1> DEFINE r == row[n][k]
           new == dl[n] \in {"ok", "part"} /\ r.state # "local"
           s == IF new THEN "local" ELSE r.state
           o == Object(r.holds - 1, s, FALSE, r.count, r.topics)
           x == IF new THEN Fetched(n) ELSE file[n][k]
           up == IF new THEN r.topics ELSE {}
<1>1. TypeOK /\ FiniteUse /\ JobsApart /\ LoopWants
  BY DEF Inv
<1>2. /\ dl[n] \in {"ok", "part", "failed"} /\ Downloading(n, k)
      /\ UNCHANGED <<rec, jobs, advert, using, spent>>
      /\ Write(n, k, o, x, up, {})
      /\ dl' = [dl EXCEPT ![n] = "run"] /\ want' = [want EXCEPT ![n] = {}]
  BY DEF LoopFinish, Downloading
<1>3. PICK f \in Node : want[n] = {<<k, f>>}
  <2>1. PICK i \in Blob, f \in Node : want[n] = {<<i, f>>}
    BY <1>1, <1>2 DEF LoopWants
  <2>2. <<i, f>>[1] = i
    OBVIOUS
  <2> QED
    BY <1>2, <2>1, <2>2 DEF Downloading
<1>4. /\ FiniteUse' /\ UseChanges(n, k, -1) /\ ~Downloading(n, k)'
      /\ \A m \in Node, i \in Blob :
           ~(m = n /\ i = k) => (Downloading(m, i)' <=> Downloading(m, i))
  BY <1>1, <1>2, <1>3, UseLoopEnds
<1>5. /\ r.holds \in Nat /\ r.state \in State /\ r.loading \in BOOLEAN
      /\ r.count \in [Topic -> Int] /\ r.topics \in SUBSET Topic /\ file[n][k] \in Contents
  BY <1>1, RowTypes
<1>6. r.holds - 1 \in Nat
  <2>1. InUse(n, k) \in Nat /\ InUse(n, k) >= 1
    BY <1>1, <1>2, UsesTypes DEF UsesAreNumbers
  <2>2. r.holds >= InUse(n, k)
    BY ObjectFacts
  <2> QED
    BY <1>5, <2>1, <2>2
<1>7. s \in State /\ x \in Contents
  BY <1>5 DEF State, Contents, Fetched
<1>8. /\ Sound(o) /\ o.holds = r.holds - 1 /\ o.state = s /\ o.loading = FALSE
      /\ o.count = r.count /\ o.topics = r.topics
  <2> HIDE DEF s
  <2> QED
    BY <1>5, <1>6, <1>7 DEF Object, Obj, Sound, State
<1>9. UsesLocal(n, k, o)
  BY <1>2, <1>8 DEF UsesLocal
<1>10. /\ dl'[n] = "run" /\ \A m \in Node : m # n => dl'[m] = dl[m]
       /\ dl' \in [Node -> {"run", "sleep", "asked", "served", "ok", "part", "failed"}]
  BY <1>1, <1>2 DEF TypeOK
<1>11. Careful
  BY <1>2, <1>10 DEF Careful, Inv, NoParts
<1>12. /\ \A t \in Topic : t \in up \/ adv[n][k][t] => s = "local" /\ t \in r.topics
       /\ \A t \in Topic : t \notin r.topics => r.count[t] = 0
       /\ s = "local" <=> x # "none"
       /\ s = "ready" => advert[n][k] # {}
  BY ObjectFacts DEF Fetched
<1>13. spent["disk"] = 0 => x # "part"
  <2>1. spent["disk"] = 0 => dl[n] # "part" /\ file[n][k] # "part"
    BY DEF Inv, NoParts
  <2> QED
    BY <1>2, <2>1 DEF Fetched
<1> HIDE DEF o, x, s, up
<1>14. Objects' /\ ObjectTypes'
  BY <1>2, <1>4, <1>5, <1>7, <1>8, <1>9, <1>10, <1>11, <1>12, <1>13, ChangeInv
<1>15. want'[n] = {} /\ (\A m \in Node : m # n => want'[m] = want[m])
       /\ want' \in [Node -> SUBSET (Blob \X Node)]
  BY <1>1, <1>2 DEF TypeOK
<1>16. LoopWants'
  BY <1>1, <1>10, <1>15 DEF LoopWants
<1>17. Control'
  BY <1>1, <1>2, <1>4, <1>16 DEF Control, JobsApart
<1>18. ControlTypes'
  BY <1>1, <1>2, <1>10, <1>15 DEF TypeOK, ControlTypes
<1> QED
  BY <1>14, <1>17, <1>18, PartsNext

-----------------------------------------------------------------------------
(* The calls of PutData and onData, and the callbacks.                     *)

\* The loop goes on as it was, or wakes up.
LEMMA WokenInv ==
    ASSUME Inv, NEW n \in Node, dl' \in {dl, Woken(n)}, UNCHANGED <<want, spent>>
    PROVE  /\ Careful /\ LoopWants'
           /\ dl' \in [Node -> {"run", "sleep", "asked", "served", "ok", "part", "failed"}]
           /\ dl' = Woken(n) => dl'[n] # "sleep"
<1>1. TypeOK /\ LoopWants
  BY DEF Inv
<1>2. /\ Woken(n) \in [Node -> {"run", "sleep", "asked", "served", "ok", "part", "failed"}]
      /\ Woken(n)[n] = IF dl[n] = "sleep" THEN "run" ELSE dl[n]
      /\ \A m \in Node : m # n => Woken(n)[m] = dl[m]
  BY <1>1 DEF Woken, TypeOK
<1>3. /\ \A m \in Node : dl'[m] = dl[m] \/ (dl[m] = "sleep" /\ dl'[m] = "run")
      /\ dl' \in [Node -> {"run", "sleep", "asked", "served", "ok", "part", "failed"}]
  BY <1>1, <1>2 DEF TypeOK
<1>4. Careful
  BY <1>3 DEF Careful, Inv, NoParts
<1>5. LoopWants'
  BY <1>1, <1>3 DEF LoopWants
<1> QED
  BY <1>2, <1>3, <1>4, <1>5

\* A value comes.
LEMMA MetaUpInv ==
    ASSUME Inv, FiniteUse', NEW n \in Node, NEW k \in Blob, NEW t \in Topic, MetaUp(n, k, t),
           UseChanges(n, k, 0), UNCHANGED <<advert, want, using, spent>>
    PROVE  /\ Objects' /\ ObjectTypes' /\ LoopWants'
           /\ dl' \in [Node -> {"run", "sleep", "asked", "served", "ok", "part", "failed"}]
<1> DEFINE r == row[n][k]
           tracking == [r.count EXCEPT ![t] = @ + 1]
           found == r.state = "not" /\ Advertised(n, k)
           s == IF found THEN "ready" ELSE r.state
           T == r.topics \cup {t}
           o == Object(r.holds, s, r.loading, tracking, T)
           up == IF r.state = "local" /\ tracking[t] = 1 THEN {t} ELSE {}
<1>1. Write(n, k, o, file[n][k], up, {}) /\ dl' = IF found THEN Woken(n) ELSE dl
  BY DEF MetaUp
<1>2. /\ r.holds \in Nat /\ r.state \in State /\ r.loading \in BOOLEAN
      /\ r.count \in [Topic -> Int] /\ r.topics \in SUBSET Topic /\ file[n][k] \in Contents
  BY RowTypes DEF Inv
<1>3. /\ tracking \in [Topic -> Int] /\ s \in State /\ T \in SUBSET Topic
      /\ \A i \in Topic : i # t => tracking[i] = r.count[i]
  BY <1>2 DEF State
<1>4. /\ Careful /\ LoopWants'
      /\ dl' \in [Node -> {"run", "sleep", "asked", "served", "ok", "part", "failed"}]
      /\ found => dl'[n] # "sleep"
  BY <1>1, WokenInv
<1>5. \A m \in Node, i \in Blob : Downloading(m, i)' <=> Downloading(m, i)
  BY DEF Downloading
<1>6. /\ \A i \in Topic : i \in up \/ adv[n][k][i] => s = "local" /\ i \in T
      /\ \A i \in Topic : i \notin T => tracking[i] = 0
      /\ s = "local" <=> file[n][k] # "none"
      /\ s = "ready" => advert[n][k] # {}
      /\ spent["disk"] = 0 => file[n][k] # "part"
  <2> HIDE DEF tracking
  <2> QED
    BY <1>3, ObjectFacts DEF Advertised
<1>7. /\ Downloading(n, k) => r.loading
      /\ spent["restart"] = 0 /\ r.loading => Downloading(n, k)
      /\ s = "ready" /\ ~r.loading /\ dl'[n] = "sleep" => row[n][k].needs
  BY <1>4, ObjectFacts
<1> HIDE DEF tracking, s, T, up
<1>8. /\ Sound(o) /\ o.holds = r.holds /\ o.state = s /\ o.loading = r.loading
      /\ o.count = tracking /\ o.topics = T
  BY <1>2, <1>3, ObjectIs
<1>9. UsesLocal(n, k, o)
  BY <1>8 DEF UsesLocal, s
<1> HIDE DEF o
<1>10. o.holds = row[n][k].holds + 0
  BY <1>2, <1>8
<1>11. Objects' /\ ObjectTypes'
  BY <1>1, <1>2, <1>4, <1>5, <1>6, <1>7, <1>8, <1>9, <1>10, ChangeInv
<1> QED
  BY <1>4, <1>11

\* A value goes.
LEMMA MetaDownInv ==
    ASSUME Inv, FiniteUse', NEW n \in Node, NEW k \in Blob, NEW t \in Topic, MetaDown(n, k, t),
           UseChanges(n, k, 0), UNCHANGED <<advert, want, using, spent>>
    PROVE  /\ Objects' /\ ObjectTypes' /\ LoopWants'
           /\ dl' \in [Node -> {"run", "sleep", "asked", "served", "ok", "part", "failed"}]
<1> DEFINE r == row[n][k]
           tracking == [r.count EXCEPT ![t] = @ - 1]
           gone == tracking[t] = 0
           T == IF gone THEN r.topics \ {t} ELSE r.topics \cup {t}
           o == Object(r.holds, r.state, r.loading, tracking, T)
           down == IF gone /\ r.state = "local" THEN {t} ELSE {}
<1>1. Write(n, k, o, file[n][k], {}, down) /\ dl' = dl
  BY DEF MetaDown
<1>2. /\ r.holds \in Nat /\ r.state \in State /\ r.loading \in BOOLEAN
      /\ r.count \in [Topic -> Int] /\ r.topics \in SUBSET Topic /\ file[n][k] \in Contents
  BY RowTypes DEF Inv
<1>3. /\ tracking \in [Topic -> Int] /\ T \in SUBSET Topic
      /\ \A i \in Topic : i # t => tracking[i] = r.count[i]
  BY <1>2
<1>4. /\ Careful /\ LoopWants'
      /\ dl' \in [Node -> {"run", "sleep", "asked", "served", "ok", "part", "failed"}]
  BY <1>1, WokenInv
<1>5. \A m \in Node, i \in Blob : Downloading(m, i)' <=> Downloading(m, i)
  BY DEF Downloading
<1>6. /\ \A i \in Topic : adv[n][k][i] /\ i \notin down => r.state = "local" /\ i \in T
      /\ \A i \in Topic : i \notin T => tracking[i] = 0
      /\ r.state = "local" <=> file[n][k] # "none"
      /\ r.state = "ready" => advert[n][k] # {}
      /\ spent["disk"] = 0 => file[n][k] # "part"
  <2> HIDE DEF tracking
  <2> QED
    BY <1>3, ObjectFacts
<1>7. /\ Downloading(n, k) => r.loading
      /\ spent["restart"] = 0 /\ r.loading => Downloading(n, k)
      /\ r.state = "ready" /\ ~r.loading /\ dl'[n] = "sleep" => row[n][k].needs
  BY ObjectFacts
<1> HIDE DEF tracking, T, down
<1>8. /\ Sound(o) /\ o.holds = r.holds /\ o.state = r.state /\ o.loading = r.loading
      /\ o.count = tracking /\ o.topics = T
  BY <1>2, <1>3, ObjectIs
<1>9. UsesLocal(n, k, o)
  BY <1>8 DEF UsesLocal
<1> HIDE DEF o
<1>10. o.holds = row[n][k].holds + 0
  BY <1>2, <1>8
<1>11. Objects' /\ ObjectTypes'
  BY <1>1, <1>2, <1>4, <1>5, <1>6, <1>7, <1>8, <1>9, <1>10, ChangeInv
<1> QED
  BY <1>4, <1>11

\* A call that goes on to another place is still the one call of its goroutine.
LEMMA JobStep ==
    ASSUME Inv, NEW j \in jobs, NEW i \in Job, Step(j, i), i.at = j.at, i.by = j.by,
           i.blob = j.blob, i.pc \in {"get", "release"} => i.by \in Putter,
           UNCHANGED <<using, want>>
    PROVE  /\ FiniteUse' /\ JobsApart' /\ jobs' \subseteq Job
           /\ \A n \in Node, k \in Blob : /\ UseChanges(n, k, 0)
                                          /\ InUse(n, k)' = InUse(n, k)
                                          /\ Downloading(n, k)' <=> Downloading(n, k)
<1>1. TypeOK /\ FiniteUse /\ JobsApart
  BY DEF Inv
<1>2. FiniteUse' /\ \A n \in Node, k \in Blob : UseChanges(n, k, 0)
  BY <1>1, UseStep
<1>3. \A n \in Node, k \in Blob : InUse(n, k) \in Nat
  BY <1>1, UsesTypes DEF UsesAreNumbers
<1>4. \A n \in Node, k \in Blob : InUse(n, k)' = InUse(n, k)
  BY <1>2, <1>3 DEF UseChanges
<1>5. \A n \in Node, k \in Blob : Downloading(n, k)' <=> Downloading(n, k)
  BY DEF Downloading
<1>6. JobsApart'
  BY <1>1 DEF JobsApart, Step
<1>7. jobs' \subseteq Job
  BY <1>1 DEF TypeOK, Step
<1> QED
  BY <1>2, <1>4, <1>5, <1>6, <1>7

\* PutData, or onData, has read the old record.
LEMMA PutGetInv ==
    ASSUME Inv, NEW j \in jobs, PutGet(j)
    PROVE  Inv'
<1>1. TypeOK /\ JobsApart /\ LoopWants
  BY DEF Inv
<1>2. j \in Job /\ j.at \in Node /\ j.by \in Putter
  BY <1>1, JobTypes DEF PutGet, JobsApart
<1>3. UNCHANGED <<rec, row, file, adv, advert, dl, want, using, spent>>
  BY DEF PutGet
<1>4. \E i \in Job : Step(j, i) /\ i.at = j.at /\ i.by = j.by /\ i.blob = j.blob
  <2>1. CASE Step(j, [j EXCEPT !.pc = "release"])
    <3>1. [j EXCEPT !.pc = "release"] \in Job
      BY <1>2 DEF Job
    <3> QED
      BY <2>1, <3>1, <1>2 DEF Job
  <2>2. CASE Step(j, [j EXCEPT !.pc = "put"])
    <3>1. [j EXCEPT !.pc = "put"] \in Job
      BY <1>2 DEF Job
    <3> QED
      BY <2>2, <3>1, <1>2 DEF Job
  <2>3. CASE \E r \in Newest(j.at, j.place) :
               Step(j, [j EXCEPT !.pc = "down", !.pri = r.pri + 1, !.old = {r.blob}])
    <3>1. PICK r \in Newest(j.at, j.place) :
                Step(j, [j EXCEPT !.pc = "down", !.pri = r.pri + 1, !.old = {r.blob}])
      BY <2>3
    <3>2. r \in Record
      BY <1>1, <1>2 DEF Newest, TypeOK
    <3>3. r.pri + 1 \in Nat /\ {r.blob} \in SUBSET Blob
      BY <3>2 DEF Record
    <3>4. [j EXCEPT !.pc = "down", !.pri = r.pri + 1, !.old = {r.blob}] \in Job
      BY <1>2, <3>3 DEF Job
    <3> QED
      BY <3>1, <3>4, <1>2 DEF Job
  <2> QED
    BY <2>1, <2>2, <2>3 DEF PutGet
<1>5. PICK i \in Job : Step(j, i) /\ i.at = j.at /\ i.by = j.by /\ i.blob = j.blob
  BY <1>4
<1>6. /\ FiniteUse' /\ JobsApart' /\ jobs' \subseteq Job
      /\ \A n \in Node, k \in Blob : /\ InUse(n, k)' = InUse(n, k)
                                     /\ Downloading(n, k)' <=> Downloading(n, k)
  BY <1>2, <1>3, <1>5, JobStep
<1>7. Objects' /\ ObjectTypes'
  BY <1>3, <1>6, StayInv
<1>8. Control'
  BY <1>1, <1>3, <1>6 DEF Control, LoopWants
<1>9. ControlTypes'
  BY <1>1, <1>3, <1>6 DEF ControlTypes, TypeOK
<1> QED
  BY <1>7, <1>8, <1>9, PartsNext

\* It writes its record.
LEMMA PutRecordInv ==
    ASSUME Inv, NEW j \in jobs, PutRecord(j)
    PROVE  Inv'
<1> DEFINE i == [j EXCEPT !.pc = "up"]
           new == [place |-> j.place, author |-> j.author, pri |-> j.pri, blob |-> j.blob]
<1>1. TypeOK /\ JobsApart /\ LoopWants
  BY DEF Inv
<1>2. /\ j \in Job /\ j.at \in Node /\ j.place \in Place /\ j.author \in Node /\ j.pri \in Nat
      /\ j.blob \in Blob
  BY <1>1, JobTypes
<1>3. Step(j, i) /\ UNCHANGED <<row, file, adv, advert, dl, want, using, spent>>
  BY DEF PutRecord
<1>4. i \in Job /\ i.at = j.at /\ i.by = j.by /\ i.blob = j.blob /\ i.pc = "up"
  BY <1>2 DEF Job
<1> HIDE DEF i
<1>5. /\ FiniteUse' /\ JobsApart' /\ jobs' \subseteq Job
      /\ \A n \in Node, k \in Blob : /\ InUse(n, k)' = InUse(n, k)
                                     /\ Downloading(n, k)' <=> Downloading(n, k)
  BY <1>3, <1>4, JobStep
<1>6. new \in Record
  BY <1>2 DEF Record
<1>7. rec' \in [Node -> SUBSET Record]
  BY <1>1, <1>6 DEF PutRecord, TypeOK
<1>8. Objects' /\ ObjectTypes'
  BY <1>3, <1>5, StayInv
<1>9. Control'
  BY <1>1, <1>3, <1>5 DEF Control, LoopWants
<1>10. ControlTypes'
  BY <1>1, <1>3, <1>5, <1>7 DEF ControlTypes, TypeOK
<1> QED
  BY <1>8, <1>9, <1>10, PartsNext

\* It calls back for the value that goes.
LEMMA CallDownInv ==
    ASSUME Inv, NEW j \in jobs, CallDown(j)
    PROVE  Inv'
<1> DEFINE i == [j EXCEPT !.pc = "put"]
<1>1. TypeOK /\ JobsApart
  BY DEF Inv
<1>2. /\ j \in Job /\ j.at \in Node /\ j.old \in SUBSET Blob /\ j.place[1] \in Topic
  BY <1>1, JobTypes
<1>3. Step(j, i) /\ UNCHANGED <<rec, advert, want, using, spent>>
  BY DEF CallDown
<1>4. PICK k \in Blob : MetaDown(j.at, k, j.place[1])
  BY <1>2 DEF CallDown
<1>5. i \in Job /\ i.at = j.at /\ i.by = j.by /\ i.blob = j.blob /\ i.pc = "put"
  BY <1>2 DEF Job
<1> HIDE DEF i
<1>6. /\ FiniteUse' /\ JobsApart' /\ jobs' \subseteq Job
      /\ \A n \in Node, x \in Blob : UseChanges(n, x, 0)
  BY <1>3, <1>5, JobStep
<1>7. /\ Objects' /\ ObjectTypes' /\ LoopWants'
      /\ dl' \in [Node -> {"run", "sleep", "asked", "served", "ok", "part", "failed"}]
  BY <1>2, <1>3, <1>4, <1>6, MetaDownInv
<1>8. Control'
  BY <1>6, <1>7 DEF Control
<1>9. ControlTypes'
  BY <1>1, <1>3, <1>6, <1>7 DEF ControlTypes, TypeOK
<1> QED
  BY <1>7, <1>8, <1>9, PartsNext

\* It calls back for the value that comes.
LEMMA CallUpInv ==
    ASSUME Inv, NEW j \in jobs, CallUp(j)
    PROVE  Inv'
<1> DEFINE i == [j EXCEPT !.pc = "release"]
<1>1. TypeOK /\ JobsApart /\ FiniteUse
  BY DEF Inv
<1>2. /\ j \in Job /\ j.at \in Node /\ j.blob \in Blob /\ j.place[1] \in Topic
  BY <1>1, JobTypes
<1>3. /\ MetaUp(j.at, j.blob, j.place[1])
      /\ UNCHANGED <<rec, advert, want, using, spent>>
      /\ IF j.by \in Putter THEN Step(j, i) ELSE jobs' = jobs \ {j}
  BY DEF CallUp
<1>4. /\ FiniteUse' /\ JobsApart' /\ jobs' \subseteq Job
      /\ \A n \in Node, x \in Blob : UseChanges(n, x, 0)
  <2>1. CASE j.by \in Putter
    <3>1. i \in Job /\ i.at = j.at /\ i.by = j.by /\ i.blob = j.blob
      BY <1>2 DEF Job
    <3> HIDE DEF i
    <3> QED
      BY <1>3, <2>1, <3>1, JobStep
  <2>2. CASE j.by \notin Putter
    <3>1. jobs' = jobs \ {j}
      BY <1>3, <2>2
    <3>2. FiniteUse' /\ \A n \in Node, x \in Blob : UseChanges(n, x, 0)
      BY <1>1, <1>3, <2>2, <3>1, UseHandled
    <3>3. JobsApart' /\ jobs' \subseteq Job
      BY <1>1, <3>1 DEF JobsApart, TypeOK
    <3> QED
      BY <3>2, <3>3
  <2> QED
    BY <2>1, <2>2
<1>5. /\ Objects' /\ ObjectTypes' /\ LoopWants'
      /\ dl' \in [Node -> {"run", "sleep", "asked", "served", "ok", "part", "failed"}]
  BY <1>2, <1>3, <1>4, MetaUpInv
<1>6. Control'
  BY <1>4, <1>5 DEF Control
<1>7. ControlTypes'
  BY <1>1, <1>3, <1>4, <1>5 DEF ControlTypes, TypeOK
<1> QED
  BY <1>5, <1>6, <1>7, PartsNext

\* PutData drops its hold.
LEMMA ReleaseInv ==
    ASSUME Inv, NEW j \in jobs, Release(j)
    PROVE  Inv'
<1>1. TypeOK /\ JobsApart /\ FiniteUse /\ LoopWants
  BY DEF Inv
<1>2. j.at \in Node /\ j.blob \in Blob /\ j.by \in Putter
  BY <1>1, JobTypes DEF Release, JobsApart
<1>3. /\ Hold(j.at, j.blob, -1) /\ jobs' = jobs \ {j}
      /\ UNCHANGED <<rec, advert, dl, want, using, spent>>
  BY DEF Release
<1>4. FiniteUse' /\ UseChanges(j.at, j.blob, -1)
  BY <1>1, <1>2, <1>3, UseReleased
<1>5. Careful /\ UsesLocal(j.at, j.blob, row[j.at][j.blob])
  BY <1>3 DEF Careful, UsesLocal, Inv, NoParts
<1>6. Objects' /\ ObjectTypes'
  BY <1>2, <1>3, <1>4, <1>5, HoldInv
<1>7. Control'
  BY <1>1, <1>3, <1>4 DEF Control, JobsApart, LoopWants
<1>8. ControlTypes'
  BY <1>1, <1>3 DEF ControlTypes, TypeOK
<1> QED
  BY <1>6, <1>7, <1>8, PartsNext

\* A file is put, and held while the record is.
LEMMA PutDataInv ==
    ASSUME Inv, NEW n \in Node, NEW g \in Putter, NEW p \in Place, NEW k \in Blob, PutData(n, g, p, k)
    PROVE  Inv'
<1> DEFINE r == row[n][k]
           o == Object(r.holds + 1, "local", r.loading, r.count, r.topics)
           f == IF r.state = "local" THEN file[n][k] ELSE "whole"
           up == IF r.state = "local" THEN {} ELSE r.topics
           j == [at |-> n, by |-> g, place |-> p, author |-> n, pri |-> 0,
                 blob |-> k, old |-> {}, pc |-> "get"]
<1>1. TypeOK /\ JobsApart /\ FiniteUse /\ LoopWants
  BY DEF Inv
<1>2. /\ \A i \in jobs : ~(i.at = n /\ i.by = g)
      /\ Write(n, k, o, f, up, {})
      /\ jobs' = jobs \cup {j} /\ spent' = [spent EXCEPT !["put"] = @ + 1]
      /\ UNCHANGED <<rec, advert, dl, want, using>>
  BY DEF PutData
<1>3. j \in Job /\ j.at = n /\ j.by = g /\ j.blob = k
  BY DEF Job
<1> HIDE DEF j
<1>4. FiniteUse' /\ UseChanges(n, k, 1)
  <2>1. j \notin jobs
    BY <1>2, <1>3
  <2>2. FiniteUse' /\ UseChanges(j.at, j.blob, 1)
    BY <1>1, <1>2, <1>3, <2>1, UsePut
  <2> QED
    BY <1>3, <2>2
<1>5. JobsApart' /\ jobs' \subseteq Job
  BY <1>1, <1>2, <1>3 DEF JobsApart, TypeOK
<1>6. /\ spent' \in [{"put", "read", "fail", "disk", "restart"} -> Nat]
      /\ spent'["restart"] = spent["restart"] /\ spent'["disk"] = spent["disk"]
  BY <1>1, <1>2, SpentTypes
<1>7. Careful
  BY <1>2, <1>6 DEF Careful, Inv, NoParts
<1>8. /\ r.holds \in Nat /\ r.state \in State /\ r.loading \in BOOLEAN
      /\ r.count \in [Topic -> Int] /\ r.topics \in SUBSET Topic /\ file[n][k] \in Contents
  BY <1>1, RowTypes
<1>9. /\ Sound(o) /\ o.holds = r.holds + 1 /\ o.state = "local" /\ o.loading = r.loading
      /\ o.count = r.count /\ o.topics = r.topics
  <2>1. r.holds + 1 \in Nat /\ "local" \in State
    BY <1>8 DEF State
  <2> QED
    BY <1>8, <2>1, ObjectIs
<1>10. UsesLocal(n, k, o)
  BY <1>2, <1>9 DEF UsesLocal
<1> HIDE DEF o
<1>11. f \in Contents
  BY <1>8 DEF Contents
<1>12. /\ \A t \in Topic : t \in up \/ adv[n][k][t] => t \in r.topics
       /\ \A t \in Topic : t \notin r.topics => r.count[t] = 0
       /\ f # "none" /\ (spent["disk"] = 0 => f # "part")
       /\ Downloading(n, k) => r.loading
       /\ spent["restart"] = 0 /\ r.loading => Downloading(n, k)
  BY ObjectFacts
<1>13. \A m \in Node, i \in Blob : Downloading(m, i)' <=> Downloading(m, i)
  BY <1>2 DEF Downloading
<1> HIDE DEF f, up
<1>14. Objects' /\ ObjectTypes'
  <2>1. \A m \in Node, i \in Blob : ~(m = n /\ i = k) => advert'[m][i] = advert[m][i]
    BY <1>2
  <2>2. \A t \in Topic : t \in up \/ (adv[n][k][t] /\ t \notin {}) => o.state = "local" /\ t \in o.topics
    BY <1>9, <1>12
  <2>3. /\ Downloading(n, k)' => o.loading
        /\ spent["restart"] = 0 /\ o.loading => Downloading(n, k)'
        /\ o.state = "local" <=> f # "none"
        /\ o.state # "ready"
        /\ \A t \in Topic : t \notin o.topics => o.count[t] = 0
    BY <1>9, <1>12, <1>13
  <2> QED
    BY <1>2, <1>4, <1>7, <1>9, <1>10, <1>11, <1>12, <1>13, <2>1, <2>2, <2>3, ChangeInv
<1>15. Control'
  BY <1>1, <1>2, <1>4, <1>5 DEF Control, LoopWants
<1>16. ControlTypes'
  BY <1>1, <1>2, <1>5, <1>6 DEF ControlTypes, TypeOK
<1> QED
  BY <1>14, <1>15, <1>16, PartsNext

\* A friend's record is accepted.
LEMMA OnDataInv ==
    ASSUME Inv, NEW n \in Node, NEW f \in Node, NEW r \in rec[f], OnData(n, f, r)
    PROVE  Inv'
<1> DEFINE cur == {q \in rec[n] : q.place = r.place /\ q.author = r.author}
           j == [at |-> n, by |-> f, place |-> r.place, author |-> r.author, pri |-> r.pri,
                 blob |-> r.blob, old |-> {q.blob : q \in cur},
                 pc |-> IF cur = {} THEN "put" ELSE "down"]
<1>1. TypeOK /\ JobsApart /\ FiniteUse /\ LoopWants
  BY DEF Inv
<1>2. /\ \A i \in jobs : ~(i.at = n /\ i.by = f)
      /\ jobs' = jobs \cup {j} /\ UNCHANGED <<rec, row, file, adv, advert, dl, want, using, spent>>
  BY DEF OnData
<1>3. r \in Record /\ cur \subseteq Record
  BY <1>1 DEF TypeOK
<1>4. /\ r.place \in Place /\ r.author \in Node /\ r.pri \in Nat /\ r.blob \in Blob
      /\ {q.blob : q \in cur} \in SUBSET Blob
  BY <1>3 DEF Record
<1>5. j \in Job /\ j.at = n /\ j.by = f /\ j.pc \in {"put", "down"}
  <2> HIDE DEF cur
  <2> QED
    BY <1>4 DEF Job
<1>6. j.by \notin Putter
  BY <1>5, PutterAssumption
<1> HIDE DEF j
<1>7. FiniteUse' /\ \A m \in Node, k \in Blob : UseChanges(m, k, 0)
  BY <1>1, <1>2, <1>6, UseHandling
<1>8. \A m \in Node, k \in Blob : /\ InUse(m, k)' = InUse(m, k)
                                  /\ Downloading(m, k)' <=> Downloading(m, k)
  BY <1>1, <1>2, <1>7, UsesTypes DEF UseChanges, UsesAreNumbers, Downloading
<1>9. JobsApart' /\ jobs' \subseteq Job
  BY <1>1, <1>2, <1>5, <1>6 DEF JobsApart, TypeOK
<1>10. Objects' /\ ObjectTypes'
  BY <1>2, <1>7, <1>8, StayInv
<1>11. Control'
  BY <1>1, <1>2, <1>7, <1>9 DEF Control, LoopWants
<1>12. ControlTypes'
  BY <1>1, <1>2, <1>9 DEF ControlTypes, TypeOK
<1> QED
  BY <1>10, <1>11, <1>12, PartsNext

\* An advert comes, or its end.
LEMMA OnAdvertInv ==
    ASSUME Inv, NEW n \in Node, NEW f \in Node, NEW k \in Blob, NEW t \in Topic, OnAdvert(n, f, k, t)
    PROVE  Inv'
<1> DEFINE r == row[n][k]
           rows == IF adv[f][k][t] THEN advert[n][k] \cup {<<f, t>>}
                                   ELSE advert[n][k] \ {<<f, t>>}
           up == adv[f][k][t] /\ Present(r) /\ r.state = "not"
           down == ~adv[f][k][t] /\ Present(r) /\ r.state = "ready" /\ rows = {}
           s == IF up THEN "ready" ELSE IF down THEN "not" ELSE r.state
           o == Object(r.holds, s, r.loading, r.count, r.topics)
<1>1. TypeOK /\ JobsApart /\ FiniteUse /\ LoopWants
  BY DEF Inv
<1>2. /\ advert' = [advert EXCEPT ![n][k] = rows]
      /\ Write(n, k, o, file[n][k], {}, {})
      /\ dl' = IF up THEN Woken(n) ELSE dl
      /\ UNCHANGED <<rec, jobs, want, using, spent>>
  BY DEF OnAdvert
<1>3. rows \in SUBSET (Node \X Topic)
  BY <1>1 DEF TypeOK
<1>4. /\ advert' \in [Node -> [Blob -> SUBSET (Node \X Topic)]] /\ advert'[n][k] = rows
      /\ \A m \in Node, i \in Blob : ~(m = n /\ i = k) => advert'[m][i] = advert[m][i]
  <2> HIDE DEF rows
  <2> QED
    BY <1>1, <1>2, <1>3 DEF TypeOK
<1>5. /\ r.holds \in Nat /\ r.state \in State /\ r.loading \in BOOLEAN
      /\ r.count \in [Topic -> Int] /\ r.topics \in SUBSET Topic /\ file[n][k] \in Contents
  BY <1>1, RowTypes
<1>6. /\ Careful /\ LoopWants'
      /\ dl' \in [Node -> {"run", "sleep", "asked", "served", "ok", "part", "failed"}]
      /\ up => dl'[n] # "sleep"
  BY <1>2, WokenInv
<1>7. FiniteUse' /\ (\A m \in Node, i \in Blob : Downloading(m, i)' <=> Downloading(m, i))
  BY <1>1, <1>2 DEF FiniteUse, Downloading
<1>8. UseChanges(n, k, 0)
  <2>1. \A m \in Node, i \in Blob : InUse(m, i)' = InUse(m, i)
    BY <1>2 DEF InUse, Holders, Putting, Downloading
  <2> QED
    BY <1>1, <2>1, UsesTypes DEF UseChanges, UsesAreNumbers
<1>9. s = "ready" => rows # {}
  <2>1. r.state = "ready" => Present(r) /\ advert[n][k] # {}
    BY ObjectFacts
  <2> QED
    BY <2>1
<1>10. /\ s = "local" <=> r.state = "local"
       /\ s = "ready" /\ ~r.loading /\ dl'[n] = "sleep" => r.needs
       /\ s \in State
  BY <1>5, <1>6, ObjectFacts DEF State
<1> HIDE DEF s, rows, up, down
<1>11. /\ Sound(o) /\ o.holds = r.holds /\ o.state = s /\ o.loading = r.loading
       /\ o.count = r.count /\ o.topics = r.topics
  BY <1>5, <1>10, ObjectIs
<1>12. UsesLocal(n, k, o)
  BY <1>2, <1>10, <1>11 DEF UsesLocal
<1> HIDE DEF o
<1>13. /\ \A x \in Topic : adv[n][k][x] => o.state = "local" /\ x \in o.topics
       /\ \A x \in Topic : x \notin o.topics => o.count[x] = 0
       /\ spent["disk"] = 0 => file[n][k] # "part"
       /\ o.state = "local" <=> file[n][k] # "none"
       /\ Downloading(n, k)' => o.loading
       /\ spent["restart"] = 0 /\ o.loading => Downloading(n, k)'
       /\ o.holds = row[n][k].holds + 0
  BY <1>5, <1>7, <1>10, <1>11, ObjectFacts
<1>14. Objects' /\ ObjectTypes'
  BY <1>2, <1>4, <1>5, <1>6, <1>7, <1>8, <1>9, <1>10, <1>11, <1>12, <1>13, ChangeInv, SMTT(40)
<1>15. Control'
  BY <1>1, <1>2, <1>6, <1>7 DEF Control, JobsApart
<1>16. ControlTypes'
  BY <1>1, <1>2, <1>4, <1>6 DEF ControlTypes, TypeOK
<1> QED
  BY <1>14, <1>15, <1>16, PartsNext

\* A crash: what was in progress is gone, and its holds stay.
LEMMA RestartInv ==
    ASSUME Inv, NEW n \in Node, Restart(n)
    PROVE  Inv'
<1>1. TypeOK /\ JobsApart /\ FiniteUse /\ LoopWants
  BY DEF Inv
<1>2. /\ jobs' = {j \in jobs : j.at # n}
      /\ UNCHANGED <<rec, row, file, adv, advert>>
      /\ spent' = [spent EXCEPT !["restart"] = @ + 1]
      /\ using' = [using EXCEPT ![n] = {}] /\ want' = [want EXCEPT ![n] = {}]
  BY DEF Restart
<1>3. /\ using'[n] = {} /\ want'[n] = {}
      /\ \A m \in Node : m # n => using'[m] = using[m] /\ want'[m] = want[m]
      /\ using' \in [Node -> SUBSET (Node \X Blob)] /\ want' \in [Node -> SUBSET (Blob \X Node)]
  BY <1>1, <1>2 DEF TypeOK
<1>4. /\ \A m \in Node : dl'[m] = IF m = n THEN "run"
                           ELSE IF dl[m] = "served" /\ \E k \in Blob : want[m] = {<<k, n>>}
                           THEN "failed" ELSE dl[m]
      /\ dl' \in [Node -> {"run", "sleep", "asked", "served", "ok", "part", "failed"}]
  BY <1>1 DEF TypeOK, Restart
<1>5. /\ spent' \in [{"put", "read", "fail", "disk", "restart"} -> Nat]
      /\ spent'["disk"] = spent["disk"] /\ spent'["restart"] # 0
  BY <1>1, <1>2, SpentTypes
<1>6. FiniteUse'
  <2>1. IsFiniteSet(jobs')
    BY <1>1, <1>2, FS_Subset DEF FiniteUse
  <2>2. \A m \in Node : IsFiniteSet(using'[m])
    BY <1>1, <1>3, FS_EmptySet DEF FiniteUse
  <2> QED
    BY <2>1, <2>2 DEF FiniteUse
<1>7. ASSUME NEW m \in Node, NEW k \in Blob
      PROVE  /\ row[m][k].holds >= InUse(m, k)'
             /\ Downloading(m, k)' => Downloading(m, k)
  <2>1. row[m][k].holds \in Nat /\ row[m][k].holds >= InUse(m, k) /\ InUse(m, k) \in Nat
    BY <1>1, RowTypes, ObjectFacts
  <2>2. CASE m = n
    <3>1. Holders(m, k)' = {} /\ Putting(m, k)' = {} /\ ~Downloading(m, k)'
      BY <1>2, <1>3, <2>2 DEF Holders, Putting, Downloading
    <3>2. InUse(m, k)' = 0
      <4>1. Cardinality(Holders(m, k))' = 0 /\ Cardinality(Putting(m, k))' = 0
        BY <3>1, FS_EmptySet
      <4> QED
        BY <3>1, <4>1 DEF InUse
    <3> QED
      BY <2>1, <3>1, <3>2
  <2>3. CASE m # n
    <3>1. /\ Holders(m, k)' = Holders(m, k) /\ Putting(m, k)' = Putting(m, k)
          /\ Downloading(m, k)' <=> Downloading(m, k)
      BY <1>2, <1>3, <2>3 DEF Holders, Putting, Downloading
    <3>2. InUse(m, k)' = InUse(m, k)
      <4>1. /\ Cardinality(Holders(m, k))' = Cardinality(Holders(m, k))
            /\ Cardinality(Putting(m, k))' = Cardinality(Putting(m, k))
        BY <3>1
      <4> QED
        BY <3>1, <4>1 DEF InUse
    <3> QED
      BY <2>1, <3>1, <3>2
  <2> QED
    BY <2>2, <2>3
<1>8. ObjectsRight'
  BY <1>2 DEF Inv, ObjectsRight, AbsentEmpty, NeedsTrue, ReadyHeard, Advertised, OnDisk,
              OffersHad, CountedTopics
<1>9. HoldsEnough' /\ LoadingSet'
  <2>1. HoldsEnough'
    BY <1>2, <1>7 DEF HoldsEnough
  <2>2. LoadingSet'
    BY <1>2, <1>7 DEF LoadingSet, Inv
  <2> QED
    BY <2>1, <2>2
<1>10. UsedLocal'
  BY <1>2, <1>3 DEF UsedLocal, Inv
<1>11. HoldsExact' /\ NoParts'
  BY <1>2, <1>4, <1>5 DEF HoldsExact, NoParts, Inv
<1>12. NoLostDownload'
  BY <1>2, <1>4 DEF NoLostDownload, Inv
<1>13. LoopWants'
  <2> SUFFICES ASSUME NEW m \in Node
               PROVE  IF dl'[m] \in {"run", "sleep"} THEN want'[m] = {}
                      ELSE \E i \in Blob, g \in Node : want'[m] = {<<i, g>>}
    BY DEF LoopWants
  <2>1. IF dl[m] \in {"run", "sleep"} THEN want[m] = {}
        ELSE \E i \in Blob, g \in Node : want[m] = {<<i, g>>}
    BY <1>1 DEF LoopWants
  <2> QED
    BY <1>3, <1>4, <2>1
<1>14. JobsApart'
  BY <1>1, <1>2 DEF JobsApart
<1>15. Objects' /\ ObjectTypes'
  BY <1>1, <1>2, <1>8, <1>9, <1>10, <1>11, <1>12 DEF Objects, ObjectTypes, TypeOK, Contents
<1>16. Control' /\ ControlTypes'
  BY <1>1, <1>2, <1>3, <1>4, <1>5, <1>6, <1>13, <1>14 DEF Control, ControlTypes, TypeOK
<1> QED
  BY <1>15, <1>16, PartsNext

-----------------------------------------------------------------------------
(* The invariant.                                                          *)

\* The program starts with nothing to hold and nothing held.
LEMMA InitInv == Init => Inv
<1> SUFFICES ASSUME Init
             PROVE  Inv
  OBVIOUS
<1>1. /\ \A n \in Node, k \in Blob : row[n][k] = Absent /\ file[n][k] = "none"
      /\ \A n \in Node, k \in Blob, t \in Topic : ~adv[n][k][t]
      /\ \A n \in Node : dl[n] = "run" /\ want[n] = {} /\ using[n] = {}
      /\ jobs = {}
  BY DEF Init
<1>2. ControlTypes
  BY DEF Init, ControlTypes
<1>3. ObjectTypes
  BY AbsentIs DEF Init, ObjectTypes, Contents
<1>4. Control
  BY <1>1, FS_EmptySet DEF Control, FiniteUse, JobsApart, LoopWants
<1>5. \A n \in Node, k \in Blob : /\ Holders(n, k) = {} /\ Putting(n, k) = {}
                                  /\ ~Downloading(n, k)
  BY <1>1 DEF Holders, Putting, Downloading
<1>6. HoldsCounted
  <2> SUFFICES ASSUME NEW n \in Node, NEW k \in Blob
               PROVE  row[n][k].holds = Cardinality(Holders(n, k)) + Cardinality(Putting(n, k))
                                          + IF Downloading(n, k) THEN 1 ELSE 0
    BY DEF HoldsCounted
  <2>1. Cardinality(Holders(n, k)) = 0 /\ Cardinality(Putting(n, k)) = 0
    BY <1>5, FS_EmptySet
  <2> QED
    BY <1>1, <1>5, <2>1, AbsentIs
<1>7. HoldsEnough
  <2>1. \A n \in Node, k \in Blob : row[n][k].holds = InUse(n, k)
    BY <1>6 DEF HoldsCounted, InUse
  <2>2. \A n \in Node, k \in Blob : row[n][k].holds = 0
    BY <1>1, AbsentIs
  <2> QED
    BY <2>1, <2>2 DEF HoldsEnough
<1>8. LoadingSet /\ HoldsExact
  BY <1>1, <1>5, <1>6, AbsentIs DEF LoadingSet, HoldsExact, DownloadingIsTrue
<1>9. ObjectsRight
  BY <1>1, AbsentIs DEF ObjectsRight, AbsentEmpty, NeedsTrue, ReadyHeard, OnDisk, OffersHad,
                        CountedTopics
<1>10. UsedLocal /\ NoParts /\ NoLostDownload
  BY <1>1, AbsentIs DEF UsedLocal, NoParts, NoLostDownload
<1> QED
  BY <1>2, <1>3, <1>4, <1>7, <1>8, <1>9, <1>10, Parts DEF Objects

\* Nothing happens.
LEMMA SameInv == ASSUME Inv, UNCHANGED vars PROVE Inv'
<1>1. UNCHANGED <<rec, jobs, row, file, adv, advert, dl, want, using, spent>>
  BY DEF vars
<1>2. Control'
  BY <1>1 DEF Inv, Control, FiniteUse, JobsApart, LoopWants
<1>3. ControlTypes'
  BY <1>1 DEF Inv, ControlTypes, TypeOK
<1>4. \A n \in Node, k \in Blob : /\ InUse(n, k)' = InUse(n, k)
                                  /\ Downloading(n, k)' <=> Downloading(n, k)
  BY <1>1 DEF InUse, Holders, Putting, Downloading
<1>5. FiniteUse'
  BY <1>2 DEF Control
<1>6. Objects' /\ ObjectTypes'
  BY <1>1, <1>4, <1>5, StayInv
<1> QED
  BY <1>2, <1>3, <1>6, PartsNext

\* Every step keeps the invariant.
LEMMA StepInv == Inv /\ [Next]_vars => Inv'
<1> SUFFICES ASSUME Inv, [Next]_vars
             PROVE  Inv'
  OBVIOUS
<1>1. ASSUME NEW n \in Node, NEW g \in Putter, NEW p \in Place, NEW k \in Blob, PutData(n, g, p, k)
      PROVE  Inv'
  BY <1>1, PutDataInv
<1>2. ASSUME NEW j \in jobs, Work(j)
      PROVE  Inv'
  BY <1>2, PutGetInv, CallDownInv, PutRecordInv, CallUpInv, ReleaseInv DEF Work
<1>3. ASSUME NEW n \in Node, NEW f \in Node, Receive(n, f)
      PROVE  Inv'
  BY <1>3, OnDataInv, OnAdvertInv DEF Receive
<1>4. ASSUME NEW n \in Node, Loop(n) \/ CallFails(n) \/ Restart(n)
      PROVE  Inv'
  BY <1>4, LoopWaitInv, LoopPickInv, LoopFinishInv, CallFailsInv, RestartInv DEF Loop
<1>5. ASSUME NEW n \in Node, NEW f \in Node, NEW k \in Blob,
             DataGet(f, n, k) \/ Copied(f, n, k) \/ ReadFails(f, n, k)
      PROVE  Inv'
  BY <1>5, DataGetInv, CopiedInv, ReadFailsInv
<1>6. ASSUME NEW n \in Node, NEW k \in Blob, GetData(n, k)
      PROVE  Inv'
  BY <1>6, GetDataInv
<1>7. CASE UNCHANGED vars
  BY <1>7, SameInv
<1> QED
  BY <1>1, <1>2, <1>3, <1>4, <1>5, <1>6, <1>7 DEF Next

\* The invariant holds in every state.
LEMMA Invariant == Spec => []Inv
<1> QED
  BY InitInv, StepInv, PTL DEF Spec

-----------------------------------------------------------------------------
(* What follows from it.                                                   *)

\* The types: in particular Holds is never negative, whatever is taken, dropped,
\* deleted in between and lost in a crash.
THEOREM TypeCorrect == Spec => []TypeOK
<1>1. Inv => TypeOK
  BY DEF Inv
<1> QED
  BY <1>1, Invariant, PTL

\* What is being copied or put is on disk until it is done, and the directory holds
\* what the table calls local: across crashes as well (writeObj, onDataGet, GetData).
THEOREM HeldStays == Spec => []HeldIsOnDisk
<1>1. Inv => HeldIsOnDisk
  BY DEF Inv, HeldIsOnDisk, ObjectsRight, OnDisk, UsedLocal, TypeOK
<1> QED
  BY <1>1, Invariant, PTL

\* Whatever is in progress holds its blob, once, and until the first crash nothing
\* else does; a crash can leave holds behind, never lose one that is needed.
THEOREM HoldsCorrect == Spec => [](HoldsEnough /\ (spent["restart"] = 0 => HoldsCounted))
<1>1. Inv => HoldsEnough /\ (spent["restart"] = 0 => HoldsCounted)
  BY DEF Inv, HoldsExact
<1> QED
  BY <1>1, Invariant, PTL

\* Downloading is set while the loop downloads a blob, and until the first crash
\* only then; a crash can leave it set (downloadLoop).
THEOREM DownloadsCorrect ==
    Spec => [](LoadingSet /\ (spent["restart"] = 0 => DownloadingIsTrue))
<1>1. Inv => LoadingSet /\ (spent["restart"] = 0 => DownloadingIsTrue)
  BY DEF Inv, HoldsExact
<1> QED
  BY <1>1, Invariant, PTL

\* A part of a blob is never kept as the blob, unless a disk has failed.
THEOREM FilesCorrect == Spec => []FilesWhole
<1>1. Inv => FilesWhole
  BY DEF Inv, NoParts, FilesWhole
<1> QED
  BY <1>1, Invariant, PTL

\* The download loop does not sleep while a blob needs a download.
THEOREM LoopAwake == Spec => []NoLostDownload
<1>1. Inv => NoLostDownload
  BY DEF Inv
<1> QED
  BY <1>1, Invariant, PTL

\* A node has and tracks what it offers, and a blob waits for a download only while
\* a friend offers it, however often values come and go.
THEOREM OffersCorrect == Spec => [](OffersHad /\ ReadyHeard)
<1>1. Inv => OffersHad /\ ReadyHeard
  BY DEF Inv, ObjectsRight
<1> QED
  BY <1>1, Invariant, PTL

\* Nothing that is being read, put or downloaded is deleted.
InUseKept ==
    [][\A n \in Node, k \in Blob :
         file[n][k] # "none" /\ file'[n][k] = "none" =>
           Holders(n, k)' = {} /\ Putting(n, k)' = {} /\ ~Downloading(n, k)']_vars

\* Files go only with their objects, ...
GoesWhole == \A n \in Node, k \in Blob :
               file[n][k] # "none" /\ file'[n][k] = "none" => ~Present(row'[n][k])

\* A step that writes one object deletes at most its file.
LEMMA WriteDeletes ==
    ASSUME TypeOK, NEW n \in Node, NEW k \in Blob, NEW o,
           NEW f, NEW up, NEW down, Write(n, k, o, f, up, down),
           f = "none" => file[n][k] = "none"
    PROVE  GoesWhole
<1>1. /\ \A x \in Node, y \in Blob : ~(x = n /\ y = k) => file'[x][y] = file[x][y]
      /\ file'[n][k] = IF ~Present(o) /\ o.state = "local" THEN "none" ELSE f
      /\ row'[n][k] = IF Present(o) THEN o ELSE Absent
  BY DEF Write, TypeOK
<1> QED
  BY <1>1, AbsentIs DEF GoesWhole

\* So does a change of holds.
LEMMA HoldDeletes ==
    ASSUME TypeOK, NEW n \in Node, NEW k \in Blob, NEW d, Hold(n, k, d)
    PROVE  GoesWhole
BY WriteDeletes DEF Hold

\* A step that leaves files alone deletes none.
LEMMA KeptAll == ASSUME UNCHANGED file PROVE GoesWhole
BY DEF GoesWhole

\* ... in every step.
LEMMA StepDeletes == TypeOK /\ [Next]_vars => GoesWhole
<1> SUFFICES ASSUME TypeOK, [Next]_vars
             PROVE  GoesWhole
  OBVIOUS
<1>1. ASSUME NEW n \in Node, NEW g \in Putter, NEW p \in Place, NEW k \in Blob, PutData(n, g, p, k)
      PROVE  GoesWhole
  BY <1>1, WriteDeletes DEF PutData
<1>2. ASSUME NEW j \in jobs, Work(j)
      PROVE  GoesWhole
  <2>1. j.at \in Node /\ j.blob \in Blob /\ j.old \in SUBSET Blob
    BY JobTypes
  <2>2. CASE PutGet(j) \/ PutRecord(j)
    BY <2>2, KeptAll DEF PutGet, PutRecord
  <2>3. CASE CallDown(j)
    <3>1. PICK k \in Blob : MetaDown(j.at, k, j.place[1])
      BY <2>1, <2>3 DEF CallDown
    <3> QED
      BY <2>1, <3>1, WriteDeletes DEF MetaDown
  <2>4. CASE CallUp(j)
    <3>1. MetaUp(j.at, j.blob, j.place[1])
      BY <2>4 DEF CallUp
    <3> QED
      BY <2>1, <3>1, WriteDeletes DEF MetaUp
  <2>5. CASE Release(j)
    BY <2>1, <2>5, HoldDeletes DEF Release
  <2> QED
    BY <1>2, <2>2, <2>3, <2>4, <2>5 DEF Work
<1>3. ASSUME NEW n \in Node, NEW f \in Node, Receive(n, f)
      PROVE  GoesWhole
  <2>1. ASSUME NEW r \in rec[f], OnData(n, f, r)
        PROVE  GoesWhole
    BY <2>1, KeptAll DEF OnData
  <2>2. ASSUME NEW k \in Blob, NEW t \in Topic, OnAdvert(n, f, k, t)
        PROVE  GoesWhole
    BY <2>2, WriteDeletes DEF OnAdvert
  <2> QED
    BY <1>3, <2>1, <2>2 DEF Receive
<1>4. ASSUME NEW n \in Node, Loop(n) \/ CallFails(n) \/ Restart(n)
      PROVE  GoesWhole
  <2>1. CASE LoopWait(n) \/ CallFails(n) \/ Restart(n)
    BY <2>1, KeptAll DEF LoopWait, CallFails, Restart
  <2>2. ASSUME NEW k \in Blob, LoopPick(n, k)
        PROVE  GoesWhole
    <3>1. CASE Advertised(n, k)
      BY <2>2, <3>1, WriteDeletes DEF LoopPick
    <3>2. CASE ~Advertised(n, k)
      BY <2>2, <3>2, KeptAll DEF LoopPick
    <3> QED
      BY <3>1, <3>2
  <2>3. ASSUME NEW k \in Blob, LoopFinish(n, k)
        PROVE  GoesWhole
    <3> DEFINE r == row[n][k]
               new == dl[n] \in {"ok", "part"} /\ r.state # "local"
               f == IF new THEN Fetched(n) ELSE file[n][k]
               o == Object(r.holds - 1, IF new THEN "local" ELSE r.state, FALSE, r.count, r.topics)
               up == IF new THEN r.topics ELSE {}
    <3>1. Write(n, k, o, f, up, {})
      BY <2>3 DEF LoopFinish
    <3>2. f = "none" => file[n][k] = "none"
      BY DEF Fetched
    <3> HIDE DEF o, f, up
    <3> QED
      BY <3>1, <3>2, WriteDeletes
  <2> QED
    BY <1>4, <2>1, <2>2, <2>3 DEF Loop
<1>5. ASSUME NEW n \in Node, NEW f \in Node, NEW k \in Blob,
             DataGet(f, n, k) \/ Copied(f, n, k) \/ ReadFails(f, n, k)
      PROVE  GoesWhole
  <2>1. CASE Copied(f, n, k) \/ ReadFails(f, n, k)
    BY <2>1, HoldDeletes DEF Copied, ReadFails
  <2>2. CASE DataGet(f, n, k)
    BY <2>2, HoldDeletes, KeptAll DEF DataGet
  <2> QED
    BY <1>5, <2>1, <2>2
<1>6. ASSUME NEW n \in Node, NEW k \in Blob, GetData(n, k)
      PROVE  GoesWhole
  BY <1>6, HoldDeletes DEF GetData
<1>7. CASE UNCHANGED vars
  BY <1>7, KeptAll DEF vars
<1> QED
  BY <1>1, <1>2, <1>3, <1>4, <1>5, <1>6, <1>7 DEF Next

\* A blob is deleted in no step that leaves an operation on it in progress, although
\* every operation drops its hold in a critical section of its own (DeletedWhenUnused
\* adds that no record has it as its value).
THEOREM DeletionCorrect == Spec => InUseKept
<1>1. Inv /\ Inv' /\ [Next]_vars =>
        [\A n \in Node, k \in Blob :
           file[n][k] # "none" /\ file'[n][k] = "none" =>
             Holders(n, k)' = {} /\ Putting(n, k)' = {} /\ ~Downloading(n, k)']_vars
  <2> SUFFICES ASSUME Inv, Inv', [Next]_vars, NEW n \in Node, NEW k \in Blob,
                      file[n][k] # "none", file'[n][k] = "none"
               PROVE  Holders(n, k)' = {} /\ Putting(n, k)' = {} /\ ~Downloading(n, k)'
    OBVIOUS
  <2>1. ~Present(row'[n][k])
    BY StepDeletes DEF Inv, GoesWhole
  <2>2. row'[n][k].holds = 0
    BY <2>1 DEF Present
  <2>3. InUse(n, k)' <= 0
    BY <2>2 DEF Inv, HoldsEnough
  <2> QED
    BY <2>3, UsesTypesNext DEF Inv, UsesAreNumbers
<1> QED
  BY <1>1, Invariant, PTL DEF Spec, InUseKept

-----------------------------------------------------------------------------
(* Adverts, as long as counts are right.                                   *)

\* What a step that writes the object of k must see to, so that adverts stay true.
LEMMA WriteTold ==
    ASSUME TypeOK, Told, NEW n \in Node, NEW k \in Blob, NEW o, NEW f, NEW up, NEW down,
           Write(n, k, o, f, up, down), o.topics \in SUBSET Topic,
           \A m \in Node, i \in Blob : ~(m = n /\ i = k) => advert'[m][i] = advert[m][i],
           Present(o) => \A t \in Topic : t \in o.topics <=> o.count[t] > 0,
           \A t \in Topic : t \in up \/ (adv[n][k][t] /\ t \notin down)
                              <=> o.state = "local" /\ t \in o.topics,
           Present(o) /\ o.state # "local" => (o.state = "ready" <=> advert'[n][k] # {})
    PROVE  Told'
<1>1. /\ \A m \in Node, i \in Blob : ~(m = n /\ i = k) => row'[m][i] = row[m][i]
      /\ row'[n][k] = IF Present(o) THEN o ELSE Absent
  BY DEF Write, TypeOK
<1>2. /\ \A m \in Node, i \in Blob : ~(m = n /\ i = k) => adv'[m][i] = adv[m][i]
      /\ \A t \in Topic : adv'[n][k][t] <=> t \in up \/ (adv[n][k][t] /\ t \notin down)
  BY DEF Write, TypeOK
<1>3. ~Present(o) => o.topics = {}
  BY DEF Present
<1>4. TopicsCount'
  <2> SUFFICES ASSUME NEW m \in Node, NEW i \in Blob, NEW t \in Topic
               PROVE  t \in row'[m][i].topics <=> row'[m][i].count[t] > 0
    BY DEF TopicsCount
  <2>1. CASE m = n /\ i = k
    <3>1. CASE Present(o)
      BY <1>1, <2>1, <3>1
    <3>2. CASE ~Present(o)
      BY <1>1, <2>1, <3>2, AbsentIs
    <3> QED
      BY <3>1, <3>2
  <2>2. CASE ~(m = n /\ i = k)
    BY <1>1, <2>2 DEF Told, TopicsCount
  <2> QED
    BY <2>1, <2>2
<1>5. AdvertsTrue'
  <2> SUFFICES ASSUME NEW m \in Node, NEW i \in Blob, NEW t \in Topic
               PROVE  adv'[m][i][t] <=> row'[m][i].state = "local" /\ t \in row'[m][i].topics
    BY DEF AdvertsTrue
  <2>1. CASE m = n /\ i = k
    <3>1. CASE Present(o)
      BY <1>1, <1>2, <2>1, <3>1
    <3>2. CASE ~Present(o)
      BY <1>1, <1>2, <1>3, <2>1, <3>2, AbsentIs
    <3> QED
      BY <3>1, <3>2
  <2>2. CASE ~(m = n /\ i = k)
    BY <1>1, <1>2, <2>2 DEF Told, AdvertsTrue
  <2> QED
    BY <2>1, <2>2
<1>6. ReadyIfAdvertised'
  <2> SUFFICES ASSUME NEW m \in Node, NEW i \in Blob,
                      Present(row'[m][i]), row'[m][i].state # "local"
               PROVE  row'[m][i].state = "ready" <=> advert'[m][i] # {}
    BY DEF ReadyIfAdvertised, Advertised
  <2>1. CASE m = n /\ i = k
    BY <1>1, <2>1, AbsentIs
  <2>2. CASE ~(m = n /\ i = k)
    BY <1>1, <2>2 DEF Told, ReadyIfAdvertised, Advertised
  <2> QED
    BY <2>1, <2>2
<1> QED
  BY <1>4, <1>5, <1>6 DEF Told

\* What adverts and counts say of one object.
LEMMA ToldFacts ==
    ASSUME Inv, Told, NeverBelow, NEW n \in Node, NEW k \in Blob
    PROVE  /\ \A t \in Topic : /\ t \in row[n][k].topics <=> row[n][k].count[t] > 0
                               /\ row[n][k].count[t] \in Nat
                               /\ adv[n][k][t] <=> row[n][k].state = "local" /\ t \in row[n][k].topics
           /\ row[n][k].state = "ready" => Advertised(n, k)
           /\ Present(row[n][k]) /\ row[n][k].state = "not" => ~Advertised(n, k)
           /\ row[n][k].topics \in SUBSET Topic /\ row[n][k].holds \in Nat
           /\ row[n][k].count \in [Topic -> Int] /\ row[n][k].state \in State
<1>1. /\ row[n][k].topics \in SUBSET Topic /\ row[n][k].holds \in Nat
      /\ row[n][k].count \in [Topic -> Int] /\ row[n][k].state \in State
  BY RowTypes DEF Inv
<1>2. \A t \in Topic : /\ t \in row[n][k].topics <=> row[n][k].count[t] > 0
                       /\ adv[n][k][t] <=> row[n][k].state = "local" /\ t \in row[n][k].topics
  BY DEF Told, TopicsCount, AdvertsTrue
<1>3. \A t \in Topic : row[n][k].count[t] \in Nat
  BY <1>1 DEF NeverBelow
<1>4. /\ row[n][k].state = "ready" => Advertised(n, k)
      /\ Present(row[n][k]) /\ row[n][k].state = "not" => ~Advertised(n, k)
  <2>1. row[n][k].state = "ready" => Advertised(n, k)
    BY ObjectFacts DEF Advertised
  <2>2. Present(row[n][k]) /\ row[n][k].state = "not" => ~Advertised(n, k)
    BY DEF Told, ReadyIfAdvertised
  <2> QED
    BY <2>1, <2>2
<1> QED
  BY <1>1, <1>2, <1>3, <1>4

\* Holds change.
LEMMA HoldTold ==
    ASSUME Inv, Told, NeverBelow, NEW n \in Node, NEW k \in Blob, NEW d \in Int, Hold(n, k, d),
           UNCHANGED advert, Present(row[n][k])
    PROVE  Told'
<1> DEFINE r == row[n][k]
           o == Object(r.holds + d, r.state, r.loading, r.count, r.topics)
<1>1. Write(n, k, o, file[n][k], {}, {})
  BY DEF Hold
<1>2. o.state = r.state /\ o.topics = r.topics /\ o.count = r.count
  BY DEF Object
<1> HIDE DEF o
<1>3. /\ \A t \in Topic : t \in o.topics <=> o.count[t] > 0
      /\ \A t \in Topic : adv[n][k][t] <=> o.state = "local" /\ t \in o.topics
      /\ o.topics \in SUBSET Topic
      /\ o.state # "local" => (o.state = "ready" <=> advert'[n][k] # {})
  BY <1>2, ToldFacts DEF Advertised, State
<1> QED
  BY <1>1, <1>3, WriteTold DEF Inv

\* A value comes.
LEMMA MetaUpTold ==
    ASSUME Inv, Told, NeverBelow, NEW n \in Node, NEW k \in Blob, NEW t \in Topic, MetaUp(n, k, t),
           UNCHANGED advert
    PROVE  Told'
<1> DEFINE r == row[n][k]
           tracking == [r.count EXCEPT ![t] = @ + 1]
           found == r.state = "not" /\ Advertised(n, k)
           s == IF found THEN "ready" ELSE r.state
           T == r.topics \cup {t}
           o == Object(r.holds, s, r.loading, tracking, T)
           up == IF r.state = "local" /\ tracking[t] = 1 THEN {t} ELSE {}
<1>1. Write(n, k, o, file[n][k], up, {})
  BY DEF MetaUp
<1>2. /\ tracking[t] = r.count[t] + 1 /\ (\A i \in Topic : i # t => tracking[i] = r.count[i])
      /\ T \in SUBSET Topic
  BY ToldFacts
<1>3. o.state = s /\ o.topics = T /\ o.count = tracking
  BY DEF Object
<1> HIDE DEF o, tracking
<1>4. \A i \in Topic : i \in T <=> tracking[i] > 0
  BY <1>2, ToldFacts
<1>5. \A i \in Topic : i \in up \/ adv[n][k][i] <=> s = "local" /\ i \in T
  BY <1>2, ToldFacts
<1>6. s # "local" => (s = "ready" <=> advert'[n][k] # {})
  BY ToldFacts DEF Advertised, State
<1> HIDE DEF s, T, up
<1> QED
  BY <1>1, <1>2, <1>3, <1>4, <1>5, <1>6, WriteTold DEF Inv

\* A value goes.
LEMMA MetaDownTold ==
    ASSUME Inv, Told, NeverBelow, NeverBelow', NEW n \in Node, NEW k \in Blob, NEW t \in Topic,
           MetaDown(n, k, t), UNCHANGED advert
    PROVE  Told'
<1> DEFINE r == row[n][k]
           tracking == [r.count EXCEPT ![t] = @ - 1]
           gone == tracking[t] = 0
           T == IF gone THEN r.topics \ {t} ELSE r.topics \cup {t}
           o == Object(r.holds, r.state, r.loading, tracking, T)
           down == IF gone /\ r.state = "local" THEN {t} ELSE {}
<1>1. Write(n, k, o, file[n][k], {}, down)
  BY DEF MetaDown
<1>2. /\ tracking[t] = r.count[t] - 1 /\ (\A i \in Topic : i # t => tracking[i] = r.count[i])
      /\ T \in SUBSET Topic
  BY ToldFacts
<1>3. o.state = r.state /\ o.topics = T /\ o.count = tracking
  BY DEF Object
<1> HIDE DEF o, tracking
<1>4. t \in r.topics
  <2> SUFFICES ASSUME t \notin r.topics
               PROVE  FALSE
    OBVIOUS
  <2>1. tracking[t] = -1
    BY <1>2, ToldFacts
  <2>2. Present(o)
    BY <1>3, <2>1 DEF Present
  <2>3. row'[n][k] = o
    BY <1>1, <2>2 DEF Write, Inv, TypeOK
  <2> QED
    BY <1>3, <2>1, <2>3 DEF NeverBelow
<1>5. \A i \in Topic : i \in T <=> tracking[i] > 0
  BY <1>2, <1>4, ToldFacts
<1>6. \A i \in Topic : adv[n][k][i] /\ i \notin down <=> r.state = "local" /\ i \in T
  BY <1>2, <1>4, ToldFacts
<1>7. r.state # "local" => (r.state = "ready" <=> advert'[n][k] # {})
  BY <1>4, ToldFacts DEF Advertised, State, Present
<1> HIDE DEF T, down
<1> QED
  BY <1>1, <1>2, <1>3, <1>5, <1>6, <1>7, WriteTold DEF Inv

\* A file is put.
LEMMA PutDataTold ==
    ASSUME Inv, Told, NeverBelow, NEW n \in Node, NEW g \in Putter, NEW p \in Place, NEW k \in Blob,
           PutData(n, g, p, k)
    PROVE  Told'
<1> DEFINE r == row[n][k]
           o == Object(r.holds + 1, "local", r.loading, r.count, r.topics)
           f == IF r.state = "local" THEN file[n][k] ELSE "whole"
           up == IF r.state = "local" THEN {} ELSE r.topics
<1>1. Write(n, k, o, f, up, {}) /\ UNCHANGED advert
  BY DEF PutData
<1>2. o.state = "local" /\ o.topics = r.topics /\ o.count = r.count
  BY DEF Object
<1> HIDE DEF o, f
<1>3. /\ \A t \in Topic : t \in o.topics <=> o.count[t] > 0
      /\ \A t \in Topic : t \in up \/ adv[n][k][t] <=> o.state = "local" /\ t \in o.topics
      /\ o.topics \in SUBSET Topic
  BY <1>2, ToldFacts
<1> HIDE DEF up
<1> QED
  BY <1>1, <1>2, <1>3, WriteTold DEF Inv

\* An advert comes, or its end.
LEMMA OnAdvertTold ==
    ASSUME Inv, Told, NeverBelow, NEW n \in Node, NEW f \in Node, NEW k \in Blob, NEW t \in Topic,
           OnAdvert(n, f, k, t)
    PROVE  Told'
<1> DEFINE r == row[n][k]
           rows == IF adv[f][k][t] THEN advert[n][k] \cup {<<f, t>>}
                                   ELSE advert[n][k] \ {<<f, t>>}
           up == adv[f][k][t] /\ Present(r) /\ r.state = "not"
           down == ~adv[f][k][t] /\ Present(r) /\ r.state = "ready" /\ rows = {}
           s == IF up THEN "ready" ELSE IF down THEN "not" ELSE r.state
           o == Object(r.holds, s, r.loading, r.count, r.topics)
<1>1. /\ advert' = [advert EXCEPT ![n][k] = rows]
      /\ Write(n, k, o, file[n][k], {}, {})
      /\ (<<f, t>> \in advert[n][k]) # adv[f][k][t]
  BY DEF OnAdvert
<1>2. /\ advert'[n][k] = rows
      /\ \A m \in Node, i \in Blob : ~(m = n /\ i = k) => advert'[m][i] = advert[m][i]
  <2> HIDE DEF rows
  <2> QED
    BY <1>1 DEF Inv, TypeOK
<1>3. /\ o.state = s /\ o.topics = r.topics /\ o.count = r.count
      /\ Present(o) <=> Present(r)
  BY DEF Object, Present
<1> HIDE DEF o
<1>4. /\ s = "local" <=> r.state = "local"
      /\ Present(r) /\ s # "local" => (s = "ready" <=> rows # {})
  <2>1. /\ adv[f][k][t] \in BOOLEAN
        /\ ~adv[f][k][t] => <<f, t>> \in advert[n][k]
    BY <1>1 DEF Inv, TypeOK
  <2>2. /\ Present(r) /\ r.state = "not" => adv[f][k][t]
        /\ r.state \in State
    BY <2>1, ToldFacts DEF Advertised
  <2> QED
    BY <2>1, <2>2 DEF State
<1> HIDE DEF s, rows
<1>5. /\ \A i \in Topic : i \in o.topics <=> o.count[i] > 0
      /\ \A i \in Topic : adv[n][k][i] <=> o.state = "local" /\ i \in o.topics
      /\ o.topics \in SUBSET Topic
      /\ Present(o) /\ o.state # "local" => (o.state = "ready" <=> advert'[n][k] # {})
  BY <1>2, <1>3, <1>4, ToldFacts
<1> QED
  BY <1>1, <1>2, <1>5, WriteTold DEF Inv

\* The loop takes a blob up.
LEMMA LoopPickTold ==
    ASSUME Inv, Told, NeverBelow, NEW n \in Node, NEW k \in Blob, LoopPick(n, k)
    PROVE  Told'
<1> DEFINE r == row[n][k]
           o == Object(r.holds + 1, r.state, TRUE, r.count, r.topics)
<1>1. r.needs /\ r.state = "ready" /\ Advertised(n, k)
  BY ObjectFacts DEF LoopPick, Advertised
<1>2. Write(n, k, o, file[n][k], {}, {}) /\ UNCHANGED advert
  BY <1>1 DEF LoopPick
<1>3. o.state = "ready" /\ o.topics = r.topics /\ o.count = r.count
  BY <1>1 DEF Object
<1> HIDE DEF o
<1>4. /\ \A i \in Topic : i \in o.topics <=> o.count[i] > 0
      /\ \A i \in Topic : adv[n][k][i] <=> o.state = "local" /\ i \in o.topics
      /\ o.topics \in SUBSET Topic
  BY <1>1, <1>3, ToldFacts
<1> QED
  BY <1>1, <1>2, <1>3, <1>4, WriteTold DEF Inv, Advertised

\* The loop puts it down.
LEMMA LoopFinishTold ==
    ASSUME Inv, Told, NeverBelow, NEW n \in Node, NEW k \in Blob, LoopFinish(n, k)
    PROVE  Told'
<1> DEFINE r == row[n][k]
           new == dl[n] \in {"ok", "part"} /\ r.state # "local"
           s == IF new THEN "local" ELSE r.state
           o == Object(r.holds - 1, s, FALSE, r.count, r.topics)
           x == IF new THEN Fetched(n) ELSE file[n][k]
           up == IF new THEN r.topics ELSE {}
<1>1. Write(n, k, o, x, up, {}) /\ UNCHANGED advert /\ Downloading(n, k)
  BY DEF LoopFinish, Downloading
<1>2. o.state = s /\ o.topics = r.topics /\ o.count = r.count
  BY DEF Object
<1> HIDE DEF o, x
<1>3. Present(r)
  <2>1. r.loading
    BY <1>1, ObjectFacts
  <2> QED
    BY <2>1, ObjectFacts
<1>4. /\ \A t \in Topic : t \in o.topics <=> o.count[t] > 0
      /\ \A t \in Topic : t \in up \/ adv[n][k][t] <=> o.state = "local" /\ t \in o.topics
      /\ o.topics \in SUBSET Topic
      /\ o.state # "local" => (o.state = "ready" <=> advert'[n][k] # {})
  BY <1>1, <1>2, <1>3, ToldFacts DEF Advertised, State
<1> HIDE DEF s, up
<1> QED
  BY <1>1, <1>4, WriteTold DEF Inv

\* A hold is dropped by whoever has one.
LEMMA UsedPresent ==
    ASSUME Inv, NEW n \in Node, NEW k \in Blob,
           Holders(n, k) # {} \/ Putting(n, k) # {} \/ row[n][k].state = "local"
    PROVE  Present(row[n][k])
<1>1. CASE row[n][k].state = "local"
  BY <1>1, ObjectFacts
<1>2. CASE Holders(n, k) # {} \/ Putting(n, k) # {}
  <2>1. FiniteUse
    BY DEF Inv
  <2>2. InUse(n, k) >= 1
    BY <1>2, <2>1, UsesTypes DEF UsesAreNumbers
  <2>3. row[n][k].holds # 0
    BY <2>2, ObjectFacts
  <2> QED
    BY <2>3 DEF Present
<1> QED
  BY <1>1, <1>2

\* No object is written.
LEMMA KeptTold ==
    ASSUME Told, UNCHANGED <<row, adv, advert>>
    PROVE  Told'
BY DEF Told, TopicsCount, AdvertsTrue, ReadyIfAdvertised, Advertised

\* Every step keeps what is told true, while counts do not go below zero.
LEMMA StepTold == Inv /\ Told /\ NeverBelow /\ NeverBelow' /\ [Next]_vars => Told'
<1> SUFFICES ASSUME Inv, Told, NeverBelow, NeverBelow', [Next]_vars
             PROVE  Told'
  OBVIOUS
<1>0. TypeOK /\ JobsApart
  BY DEF Inv
<1>1. ASSUME NEW n \in Node, NEW g \in Putter, NEW p \in Place, NEW k \in Blob, PutData(n, g, p, k)
      PROVE  Told'
  BY <1>1, PutDataTold
<1>2. ASSUME NEW j \in jobs, Work(j)
      PROVE  Told'
  <2>1. j.at \in Node /\ j.blob \in Blob /\ j.old \in SUBSET Blob /\ j.place[1] \in Topic
    BY <1>0, JobTypes
  <2>2. CASE PutGet(j) \/ PutRecord(j)
    BY <2>2, KeptTold DEF PutGet, PutRecord
  <2>3. CASE CallDown(j)
    <3>1. PICK k \in Blob : MetaDown(j.at, k, j.place[1])
      BY <2>1, <2>3 DEF CallDown
    <3> QED
      BY <2>1, <2>3, <3>1, MetaDownTold DEF CallDown
  <2>4. CASE CallUp(j)
    BY <2>1, <2>4, MetaUpTold DEF CallUp
  <2>5. CASE Release(j)
    <3>1. j.by \in Putter /\ Hold(j.at, j.blob, -1) /\ UNCHANGED advert
      BY <1>0, <2>5 DEF Release, JobsApart
    <3>2. Present(row[j.at][j.blob])
      BY <2>1, <3>1, UsedPresent DEF Putting
    <3> QED
      BY <2>1, <3>1, <3>2, HoldTold
  <2> QED
    BY <1>2, <2>2, <2>3, <2>4, <2>5 DEF Work
<1>3. ASSUME NEW n \in Node, NEW f \in Node, Receive(n, f)
      PROVE  Told'
  <2>1. ASSUME NEW r \in rec[f], OnData(n, f, r)
        PROVE  Told'
    BY <2>1, KeptTold DEF OnData
  <2>2. ASSUME NEW k \in Blob, NEW t \in Topic, OnAdvert(n, f, k, t)
        PROVE  Told'
    BY <2>2, OnAdvertTold
  <2> QED
    BY <1>3, <2>1, <2>2 DEF Receive
<1>4. ASSUME NEW n \in Node, Loop(n) \/ CallFails(n) \/ Restart(n)
      PROVE  Told'
  <2>1. CASE LoopWait(n) \/ CallFails(n) \/ Restart(n)
    BY <2>1, KeptTold DEF LoopWait, CallFails, Restart
  <2> QED
    BY <1>4, <2>1, LoopPickTold, LoopFinishTold DEF Loop
<1>5. ASSUME NEW n \in Node, NEW f \in Node, NEW k \in Blob,
             DataGet(f, n, k) \/ Copied(f, n, k) \/ ReadFails(f, n, k)
      PROVE  Told'
  <2>1. CASE Copied(f, n, k) \/ ReadFails(f, n, k)
    <3>1. <<n, k>> \in using[f] /\ Hold(f, k, -1) /\ UNCHANGED advert
      BY <2>1 DEF Copied, ReadFails
    <3>2. Present(row[f][k])
      BY <3>1, UsedPresent DEF Holders
    <3> QED
      BY <3>1, <3>2, HoldTold
  <2>2. CASE DataGet(f, n, k)
    <3>1. CASE row[f][k].state = "local"
      <4>1. Hold(f, k, 1) /\ UNCHANGED advert
        BY <2>2, <3>1 DEF DataGet
      <4> QED
        BY <3>1, <4>1, HoldTold, UsedPresent
    <3>2. CASE row[f][k].state # "local"
      BY <2>2, <3>2, KeptTold DEF DataGet
    <3> QED
      BY <3>1, <3>2
  <2> QED
    BY <1>5, <2>1, <2>2
<1>6. ASSUME NEW n \in Node, NEW k \in Blob, GetData(n, k)
      PROVE  Told'
  <2>1. Hold(n, k, 1) /\ UNCHANGED advert /\ row[n][k].state = "local"
    BY <1>6 DEF GetData
  <2> QED
    BY <2>1, HoldTold, UsedPresent
<1>7. CASE UNCHANGED vars
  BY <1>7, KeptTold DEF vars
<1> QED
  BY <1>1, <1>2, <1>3, <1>4, <1>5, <1>6, <1>7 DEF Next

\* What is told is true in every state before counts go below zero.
LEMMA ToldTrue == Spec /\ []NeverBelow => []Told
<1>1. Init => Told
  <2> SUFFICES ASSUME Init
               PROVE  Told
    OBVIOUS
  <2>1. /\ \A n \in Node, k \in Blob : row[n][k] = Absent /\ advert[n][k] = {}
        /\ \A n \in Node, k \in Blob, t \in Topic : ~adv[n][k][t]
    BY DEF Init
  <2>2. TopicsCount
    BY <2>1, AbsentIs DEF TopicsCount
  <2> QED
    BY <2>1, <2>2, AbsentIs DEF Told, AdvertsTrue, ReadyIfAdvertised
<1> QED
  BY <1>1, StepTold, Invariant, PTL DEF Spec

\* As long as the callbacks of the meta layer take no value back more often than they
\* gave it, a node advertises exactly what it has and tracks (metaUp, metaDown,
\* finishDownload).
THEOREM AdvertsCorrect == Spec /\ []NeverBelow => []AdvertsTrue
<1>1. Told => AdvertsTrue
  BY DEF Told
<1> QED
  BY <1>1, ToldTrue, PTL

\* Under the same condition a blob that a node refers to and does not have waits for a
\* download exactly while a friend advertises it, in whichever order adverts and
\* callbacks come (metaUp, metaDown, onAdvert).
THEOREM ReadyCorrect == Spec /\ []NeverBelow => []ReadyIfAdvertised
<1>1. Told => ReadyIfAdvertised
  BY DEF Told
<1> QED
  BY <1>1, ToldTrue, PTL

-----------------------------------------------------------------------------
(* Counts, while callbacks for one record do not overlap.                  *)

\* Of one place.
RecordsAt(n, p) == {r \in rec[n] : r.place = p}

\* A call is between its look at the record it replaces and its last callback.
Working(j) == j.pc \in {"down", "put", "up"}

\* No two calls replace the record of one place at a node.
Apart ==
    \A i, j \in jobs :
      i.at = j.at /\ i.place = j.place /\ Working(i) /\ Working(j) => i = j

\* ... before a crash loses the second callback of one.
Orderly == Apart /\ spent["restart"] = 0

OneWriter == \A x, y \in Writer : x = y

\* The value of the record at p has been called down, or not been called up yet.
Pending(n, p) == \E j \in jobs : j.at = n /\ j.place = p /\ j.pc \in {"put", "up"}

Counted(n, k, t) == {r \in Uses(n, k, t) : ~Pending(n, r.place)}

\* Tracking is always the number of records whose values are not in between.
CountsTrue ==
    \A n \in Node, k \in Blob, t \in Topic :
      row[n][k].count[t] = Cardinality(Counted(n, k, t))

\* Tables are finite, records are the writers', and a place has one.
RecordsRight ==
    \A n \in Node :
      /\ IsFiniteSet(rec[n])
      /\ \A r \in rec[n] : r.author \in Writer
      /\ \A r, q \in rec[n] : r.place = q.place => r = q

\* The value a call has found is that of the record at its place until it puts its own.
JobRight(j) ==
    /\ j.pc = "get" => j.author = j.at
    /\ Working(j) => j.author \in Writer
    /\ j.pc = "down" => RecordsAt(j.at, j.place) # {}
    /\ j.pc \in {"down", "put"} => \A r \in RecordsAt(j.at, j.place) : j.old = {r.blob}
    /\ j.pc = "up" => \E r \in RecordsAt(j.at, j.place) : r.blob = j.blob

JobsRight == \A j \in jobs : JobRight(j)

\* A step that gives no record another value, and writes an object with its counts.
LEMMA CountsKept ==
    ASSUME Inv, CountsTrue, NEW n \in Node, NEW k \in Blob, NEW o, NEW f, NEW up, NEW down,
           Write(n, k, o, f, up, down), o.count = row[n][k].count, o.topics = row[n][k].topics,
           \A m \in Node, i \in Blob, t \in Topic : Counted(m, i, t)' = Counted(m, i, t)
    PROVE  CountsTrue'
<1>1. /\ \A m \in Node, i \in Blob : ~(m = n /\ i = k) => row'[m][i] = row[m][i]
      /\ row'[n][k] = IF Present(o) THEN o ELSE Absent
  BY DEF Write, Inv, TypeOK
<1>2. \A t \in Topic : row'[n][k].count[t] = row[n][k].count[t]
  <2>1. CASE Present(o)
    BY <1>1, <2>1
  <2>2. CASE ~Present(o)
    <3>1. row[n][k].topics = {}
      BY <2>2 DEF Present
    <3>2. \A t \in Topic : row[n][k].count[t] = 0
      BY <3>1, ObjectFacts
    <3> QED
      BY <1>1, <2>2, <3>2, AbsentIs
  <2> QED
    BY <2>1, <2>2
<1>3. \A m \in Node, i \in Blob, t \in Topic : row'[m][i].count[t] = row[m][i].count[t]
  BY <1>1, <1>2
<1> QED
  BY <1>3 DEF CountsTrue

\* A step that writes no object.
LEMMA CountsStay ==
    ASSUME CountsTrue, UNCHANGED row,
           \A m \in Node, i \in Blob, t \in Topic : Counted(m, i, t)' = Counted(m, i, t)
    PROVE  CountsTrue'
BY DEF CountsTrue

\* Values of records that are neither put nor in between are counted as before.
LEMMA CountedStays ==
    ASSUME UNCHANGED rec,
           \A m \in Node : \A r \in rec[m] : Pending(m, r.place)' <=> Pending(m, r.place)
    PROVE  \A m \in Node, i \in Blob, t \in Topic : Counted(m, i, t)' = Counted(m, i, t)
BY DEF Counted, Uses

\* Calls that come and go without callbacks leave nothing in between.
LEMMA PendingStays ==
    ASSUME NEW S, NEW T, jobs' = (jobs \ S) \cup T,
           \A j \in S \cup T : j.pc \notin {"put", "up"}
    PROVE  \A m, p : Pending(m, p)' <=> Pending(m, p)
BY DEF Pending

\* The numbers are numbers.
LEMMA CountedTypes ==
    ASSUME RecordsRight, NEW n \in Node, NEW k, NEW t
    PROVE  IsFiniteSet(Counted(n, k, t)) /\ Cardinality(Counted(n, k, t)) \in Nat
<1>1. Counted(n, k, t) \subseteq rec[n] /\ IsFiniteSet(rec[n])
  BY DEF Counted, Uses, RecordsRight
<1> QED
  BY <1>1, FS_Subset, FS_CardinalityType

\* Counts that are true are not below zero.
LEMMA CountsAbove ==
    ASSUME RecordsRight, CountsTrue
    PROVE  NeverBelow
<1> SUFFICES ASSUME NEW n \in Node, NEW k \in Blob, NEW t \in Topic
             PROVE  row[n][k].count[t] >= 0
  BY DEF NeverBelow
<1>1. Cardinality(Counted(n, k, t)) \in Nat /\ row[n][k].count[t] = Cardinality(Counted(n, k, t))
  BY CountedTypes DEF CountsTrue
<1> QED
  BY <1>1

\* Finding the record at a place.
LEMMA FoundAt ==
    ASSUME TypeOK, RecordsRight, NEW n \in Node, NEW r \in rec[n]
    PROVE  /\ RecordsAt(n, r.place) = {r} /\ Newest(n, r.place) = {r}
           /\ r.place \in Place /\ r.place[1] \in Topic /\ r.blob \in Blob /\ r.pri \in Nat
<1>1. r \in Record
  BY DEF TypeOK
<1>2. /\ r.place \in Place /\ r.place[1] \in Topic /\ r.blob \in Blob /\ r.pri \in Nat
  BY <1>1, PlaceAssumption DEF Record
<1>3. \A q \in rec[n] : q.place = r.place => q = r
  BY DEF RecordsRight
<1>4. RecordsAt(n, r.place) = {r}
  BY <1>3 DEF RecordsAt
<1>5. r.pri <= r.pri
  BY <1>2
<1>6. Newest(n, r.place) = {r}
  BY <1>3, <1>5 DEF Newest
<1> QED
  BY <1>2, <1>4, <1>6

\* ... or none.
LEMMA NoneAt ==
    ASSUME TypeOK, RecordsRight, NEW n \in Node, NEW p, Newest(n, p) = {}
    PROVE  RecordsAt(n, p) = {}
<1> SUFFICES ASSUME NEW r \in rec[n], r.place = p PROVE FALSE
  BY DEF RecordsAt
<1> QED
  BY FoundAt

\* Calls that are left alone, or new ones that are right.
LEMMA JobsStay ==
    ASSUME JobsRight, RecordsRight, UNCHANGED rec,
           \A j \in jobs' : j \in jobs \/ JobRight(j)
    PROVE  RecordsRight' /\ JobsRight'
<1>1. RecordsRight'
  BY DEF RecordsRight
<1>2. \A j \in jobs' : JobRight(j)
  BY DEF JobsRight
<1>3. JobsRight'
  BY <1>2 DEF JobsRight, JobRight, RecordsAt, Working
<1> QED
  BY <1>1, <1>3

\* The record a friend's record replaces is the one at its place.
LEMMA CurrentIs ==
    ASSUME OneWriter, RecordsRight, NEW n \in Node, NEW f \in Node, NEW r \in rec[f]
    PROVE  {q \in rec[n] : q.place = r.place /\ q.author = r.author} = RecordsAt(n, r.place)
BY DEF OneWriter, RecordsRight, RecordsAt

\* Put finds the record it replaces.
LEMMA PutGetRight ==
    ASSUME TypeOK, RecordsRight, JobsRight, NEW j \in jobs, PutGet(j)
    PROVE  RecordsRight' /\ JobsRight'
<1>1. j \in Job /\ j.at \in Node /\ j.author = j.at
  BY DEF TypeOK, Job, PutGet, JobsRight, JobRight
<1>2. UNCHANGED rec
  BY DEF PutGet
<1>3. CASE j.at \notin Writer /\ Step(j, [j EXCEPT !.pc = "release"])
  <2> DEFINE i == [j EXCEPT !.pc = "release"]
  <2>1. i.pc = "release"
    BY <1>1 DEF Job
  <2>2. JobRight(i)
    BY <2>1 DEF JobRight, Working
  <2> QED
    BY <1>2, <1>3, <2>2, JobsStay DEF Step
<1>4. CASE j.at \in Writer /\ Newest(j.at, j.place) = {} /\ Step(j, [j EXCEPT !.pc = "put"])
  <2> DEFINE i == [j EXCEPT !.pc = "put"]
  <2>1. i.pc = "put" /\ i.author = j.author /\ i.at = j.at /\ i.place = j.place
    BY <1>1 DEF Job
  <2>2. RecordsAt(j.at, j.place) = {}
    BY <1>1, <1>4, NoneAt
  <2>3. JobRight(i)
    BY <1>1, <1>4, <2>1, <2>2 DEF JobRight
  <2> QED
    BY <1>2, <1>4, <2>3, JobsStay DEF Step
<1>5. ASSUME j.at \in Writer, NEW r \in Newest(j.at, j.place),
             Step(j, [j EXCEPT !.pc = "down", !.pri = r.pri + 1, !.old = {r.blob}])
      PROVE  RecordsRight' /\ JobsRight'
  <2> DEFINE i == [j EXCEPT !.pc = "down", !.pri = r.pri + 1, !.old = {r.blob}]
  <2>1. /\ i.pc = "down" /\ i.author = j.author /\ i.at = j.at /\ i.place = j.place
        /\ i.old = {r.blob}
    BY <1>1 DEF Job
  <2>2. r \in rec[j.at] /\ r.place = j.place
    BY DEF Newest
  <2>3. RecordsAt(j.at, j.place) = {r}
    BY <1>1, <2>2, FoundAt
  <2>4. JobRight(i)
    BY <1>1, <1>5, <2>1, <2>3 DEF JobRight
  <2> QED
    BY <1>2, <1>5, <2>4, JobsStay DEF Step
<1> QED
  BY <1>3, <1>4, <1>5 DEF PutGet

\* So does a handler that accepts a friend's record.
LEMMA OnDataRight ==
    ASSUME TypeOK, OneWriter, RecordsRight, JobsRight,
           NEW n \in Node, NEW f \in Node, NEW r \in rec[f], OnData(n, f, r)
    PROVE  RecordsRight' /\ JobsRight'
<1> DEFINE cur == RecordsAt(n, r.place)
           i == [at |-> n, by |-> f, place |-> r.place, author |-> r.author, pri |-> r.pri,
                 blob |-> r.blob, old |-> {q.blob : q \in cur},
                 pc |-> IF cur = {} THEN "put" ELSE "down"]
<1>1. jobs' = jobs \cup {i} /\ UNCHANGED rec
  BY CurrentIs DEF OnData
<1>2. /\ i.at = n /\ i.place = r.place /\ i.author = r.author /\ i.old = {q.blob : q \in cur}
      /\ i.pc = IF cur = {} THEN "put" ELSE "down"
  OBVIOUS
<1>3. r.author \in Writer
  BY DEF RecordsRight
<1>4. \A q \in cur : {p.blob : p \in cur} = {q.blob}
  <2> SUFFICES ASSUME NEW q \in cur PROVE {p.blob : p \in cur} = {q.blob}
    OBVIOUS
  <2>1. q \in rec[n] /\ q.place = r.place
    BY DEF RecordsAt
  <2>2. cur = {q}
    BY <2>1, FoundAt
  <2> HIDE DEF cur
  <2> QED
    BY <2>2
<1> HIDE DEF i
<1>5. JobRight(i)
  BY <1>2, <1>3, <1>4 DEF JobRight
<1> QED
  BY <1>1, <1>5, JobsStay

\* The record takes its place, and no other call has found the one that was there.
LEMMA PutRecordRight ==
    ASSUME TypeOK, OneWriter, Apart, RecordsRight, JobsRight, NEW j \in jobs, PutRecord(j)
    PROVE  /\ RecordsRight' /\ JobsRight'
           /\ \E r \in rec'[j.at] : /\ r.place = j.place /\ r.pri = j.pri /\ r.blob = j.blob
                                    /\ r.author = j.author
                                    /\ rec' = [rec EXCEPT ![j.at] =
                                                 (rec[j.at] \ RecordsAt(j.at, j.place)) \cup {r}]
<1> DEFINE n == j.at
           r == [place |-> j.place, author |-> j.author, pri |-> j.pri, blob |-> j.blob]
           i == [j EXCEPT !.pc = "up"]
<1>1. j \in Job /\ n \in Node /\ j.pc = "put" /\ j.author \in Writer /\ Working(j)
  BY DEF TypeOK, Job, PutRecord, JobsRight, JobRight, Working
<1>2. /\ rec' = [rec EXCEPT ![n] =
                   {q \in rec[n] : ~(q.place = j.place /\ q.author = j.author)} \cup {r}]
      /\ jobs' = (jobs \ {j}) \cup {i}
  BY DEF PutRecord, Step
<1>3. {q \in rec[n] : ~(q.place = j.place /\ q.author = j.author)}
        = rec[n] \ RecordsAt(n, j.place)
  BY <1>1 DEF RecordsRight, RecordsAt, OneWriter
<1>4. rec' = [rec EXCEPT ![n] = (rec[n] \ RecordsAt(n, j.place)) \cup {r}]
  BY <1>2, <1>3
<1>5. /\ i.pc = "up" /\ i.at = n /\ i.place = j.place /\ i.author = j.author /\ i.blob = j.blob
      /\ r.place = j.place /\ r.author = j.author /\ r.blob = j.blob /\ r.pri = j.pri
  BY <1>1 DEF Job
<1> HIDE DEF i, r
<1>6. /\ rec'[n] = (rec[n] \ RecordsAt(n, j.place)) \cup {r}
      /\ \A m \in Node : m # n => rec'[m] = rec[m]
  BY <1>1, <1>4 DEF TypeOK
<1>7. RecordsRight'
  <2>1. SUFFICES ASSUME NEW m \in Node
                 PROVE  /\ IsFiniteSet(rec'[m])
                        /\ \A q \in rec'[m] : q.author \in Writer
                        /\ \A p, q \in rec'[m] : p.place = q.place => p = q
    BY DEF RecordsRight
  <2>2. CASE m # n
    BY <1>6, <2>2 DEF RecordsRight
  <2>3. CASE m = n
    <3>1. IsFiniteSet(rec[n])
      BY <1>1 DEF RecordsRight
    <3>2. IsFiniteSet(rec[n] \ RecordsAt(n, j.place))
      BY <3>1, FS_Subset
    <3>3. IsFiniteSet(rec'[n])
      BY <1>6, <3>2, FS_AddElement
    <3>4. \A q \in rec'[n] : q = r \/ (q \in rec[n] /\ q.place # r.place)
      BY <1>5, <1>6 DEF RecordsAt
    <3>5. \A q \in rec'[n] : q.author \in Writer
      BY <1>1, <1>5, <3>4 DEF RecordsRight
    <3>6. \A x, q \in rec'[n] : x.place = q.place => x = q
      BY <1>1, <3>4 DEF RecordsRight
    <3> QED
      BY <2>3, <3>3, <3>5, <3>6
  <2> QED
    BY <2>2, <2>3
<1>8. JobsRight'
  <2>1. SUFFICES ASSUME NEW x \in jobs' PROVE JobRight(x)'
    BY DEF JobsRight, JobRight, RecordsAt, Working
  <2>2. CASE x = i
    <3>1. r \in RecordsAt(n, j.place)'
      BY <1>5, <1>6 DEF RecordsAt
    <3> QED
      BY <1>1, <1>5, <2>2, <3>1 DEF JobRight, Working
  <2>3. CASE x \in jobs /\ x # j
    <3>1. JobRight(x) /\ x.at \in Node
      BY <2>3 DEF JobsRight, TypeOK, Job
    <3>2. CASE ~Working(x)
      BY <3>1, <3>2 DEF JobRight, Working
    <3>3. CASE Working(x)
      <4>1. x.at # n \/ x.place # j.place
        BY <1>1, <2>3, <3>3 DEF Apart
      <4>2. RecordsAt(x.at, x.place)' = RecordsAt(x.at, x.place)
        BY <1>5, <1>6, <3>1, <4>1 DEF RecordsAt
      <4> QED
        BY <3>1, <4>2 DEF JobRight, Working
    <3> QED
      BY <3>2, <3>3
  <2> QED
    BY <1>2, <2>1, <2>2, <2>3
<1> QED
  BY <1>4, <1>5, <1>6, <1>7, <1>8

\* Every step leaves one record at a place, and calls that know it.
LEMMA StepRecords ==
    ASSUME Inv, OneWriter, Apart, RecordsRight, JobsRight, [Next]_vars
    PROVE  RecordsRight' /\ JobsRight'
<1>0. TypeOK
  BY DEF Inv
<1>1. ASSUME NEW n \in Node, NEW g \in Putter, NEW p \in Place, NEW k \in Blob, PutData(n, g, p, k)
      PROVE  RecordsRight' /\ JobsRight'
  <2> DEFINE i == [at |-> n, by |-> g, place |-> p, author |-> n, pri |-> 0,
                   blob |-> k, old |-> {}, pc |-> "get"]
  <2>1. jobs' = jobs \cup {i} /\ UNCHANGED rec
    BY <1>1 DEF PutData
  <2>2. i.pc = "get" /\ i.author = i.at
    OBVIOUS
  <2> HIDE DEF i
  <2>3. JobRight(i)
    BY <2>2 DEF JobRight, Working
  <2> QED
    BY <2>1, <2>3, JobsStay
<1>2. ASSUME NEW j \in jobs, Work(j)
      PROVE  RecordsRight' /\ JobsRight'
  <2>0. j \in Job
    BY <1>0 DEF TypeOK
  <2>1. CASE PutGet(j)
    BY <1>0, <2>1, PutGetRight
  <2>2. CASE PutRecord(j)
    BY <1>0, <2>2, PutRecordRight
  <2>3. CASE CallDown(j)
    <3> DEFINE i == [j EXCEPT !.pc = "put"]
    <3>1. jobs' = (jobs \ {j}) \cup {i} /\ UNCHANGED rec /\ j.pc = "down"
      BY <2>3 DEF CallDown, Step
    <3>2. i.pc = "put" /\ i.author = j.author /\ i.at = j.at /\ i.place = j.place /\ i.old = j.old
      BY <2>0 DEF Job
    <3> HIDE DEF i
    <3>3. JobRight(j)
      BY DEF JobsRight
    <3>4. JobRight(i)
      BY <3>1, <3>2, <3>3 DEF JobRight, Working
    <3> QED
      BY <3>1, <3>4, JobsStay
  <2>4. CASE CallUp(j)
    <3> DEFINE i == [j EXCEPT !.pc = "release"]
    <3>1. jobs' \subseteq (jobs \ {j}) \cup {i} /\ UNCHANGED rec
      BY <2>4 DEF CallUp, Step
    <3>2. i.pc = "release"
      BY <2>0 DEF Job
    <3> HIDE DEF i
    <3>3. JobRight(i)
      BY <3>2 DEF JobRight, Working
    <3> QED
      BY <3>1, <3>3, JobsStay
  <2>5. CASE Release(j)
    BY <2>5, JobsStay DEF Release
  <2> QED
    BY <1>2, <2>1, <2>2, <2>3, <2>4, <2>5 DEF Work
<1>3. ASSUME NEW n \in Node, NEW f \in Node, Receive(n, f)
      PROVE  RecordsRight' /\ JobsRight'
  <2>1. ASSUME NEW r \in rec[f], OnData(n, f, r)
        PROVE  RecordsRight' /\ JobsRight'
    BY <1>0, <2>1, OnDataRight
  <2>2. ASSUME NEW k \in Blob, NEW t \in Topic, OnAdvert(n, f, k, t)
        PROVE  RecordsRight' /\ JobsRight'
    BY <2>2, JobsStay DEF OnAdvert
  <2> QED
    BY <1>3, <2>1, <2>2 DEF Receive
<1>4. ASSUME NEW n \in Node, Loop(n) \/ CallFails(n) \/ Restart(n)
      PROVE  RecordsRight' /\ JobsRight'
  <2>1. UNCHANGED rec /\ jobs' \subseteq jobs
    BY <1>4 DEF Loop, LoopWait, LoopPick, LoopFinish, CallFails, Restart
  <2> QED
    BY <2>1, JobsStay
<1>5. ASSUME NEW n \in Node, NEW f \in Node, NEW k \in Blob,
             DataGet(f, n, k) \/ Copied(f, n, k) \/ ReadFails(f, n, k)
      PROVE  RecordsRight' /\ JobsRight'
  BY <1>5, JobsStay DEF DataGet, Copied, ReadFails
<1>6. ASSUME NEW n \in Node, NEW k \in Blob, GetData(n, k)
      PROVE  RecordsRight' /\ JobsRight'
  BY <1>6, JobsStay DEF GetData
<1>7. CASE UNCHANGED vars
  BY <1>7, JobsStay DEF vars
<1> QED
  BY <1>1, <1>2, <1>3, <1>4, <1>5, <1>6, <1>7 DEF Next

\* What a call that a value comes does to the counts.
LEMMA UpCounts ==
    ASSUME TypeOK, NEW n \in Node, NEW k \in Blob, NEW t \in Topic, MetaUp(n, k, t)
    PROVE  /\ row'[n][k].count[t] = row[n][k].count[t] + 1
           /\ \A m \in Node, i \in Blob, x \in Topic :
                ~(m = n /\ i = k /\ x = t) => row'[m][i].count[x] = row[m][i].count[x]
<1> DEFINE r == row[n][k]
           tracking == [r.count EXCEPT ![t] = @ + 1]
           s == IF r.state = "not" /\ Advertised(n, k) THEN "ready" ELSE r.state
           o == Object(r.holds, s, r.loading, tracking, r.topics \cup {t})
           up == IF r.state = "local" /\ tracking[t] = 1 THEN {t} ELSE {}
<1>1. Write(n, k, o, file[n][k], up, {})
  BY DEF MetaUp
<1>2. tracking[t] = r.count[t] + 1 /\ \A i \in Topic : i # t => tracking[i] = r.count[i]
  BY RowTypes
<1>3. o.count = tracking /\ t \in o.topics
  BY DEF Object
<1> HIDE DEF o, tracking
<1>4. Present(o)
  BY <1>3 DEF Present
<1>5. /\ row'[n][k] = o
      /\ \A m \in Node, i \in Blob : ~(m = n /\ i = k) => row'[m][i] = row[m][i]
  BY <1>1, <1>4 DEF Write, TypeOK
<1> QED
  BY <1>2, <1>3, <1>5

\* What a call that a value goes does, when the value was counted.
LEMMA DownCounts ==
    ASSUME Inv, Told, NeverBelow, NEW n \in Node, NEW k \in Blob, NEW t \in Topic,
           MetaDown(n, k, t), row[n][k].count[t] > 0
    PROVE  /\ row'[n][k].count[t] = row[n][k].count[t] - 1
           /\ \A m \in Node, i \in Blob, x \in Topic :
                ~(m = n /\ i = k /\ x = t) => row'[m][i].count[x] = row[m][i].count[x]
<1> DEFINE r == row[n][k]
           tracking == [r.count EXCEPT ![t] = @ - 1]
           gone == tracking[t] = 0
           T == IF gone THEN r.topics \ {t} ELSE r.topics \cup {t}
           o == Object(r.holds, r.state, r.loading, tracking, T)
           down == IF gone /\ r.state = "local" THEN {t} ELSE {}
<1>1. Write(n, k, o, file[n][k], {}, down)
  BY DEF MetaDown
<1>2. tracking[t] = r.count[t] - 1 /\ \A i \in Topic : i # t => tracking[i] = r.count[i]
  BY ToldFacts
<1>3. o.count = tracking /\ o.topics = T
  BY DEF Object
<1>4. T = {} => \A i \in Topic : tracking[i] = 0
  BY <1>2, ToldFacts
<1> HIDE DEF o, tracking, T
<1>5. ~Present(o) => \A i \in Topic : tracking[i] = 0
  BY <1>3, <1>4 DEF Present
<1>6. /\ row'[n][k] = IF Present(o) THEN o ELSE Absent
      /\ \A m \in Node, i \in Blob : ~(m = n /\ i = k) => row'[m][i] = row[m][i]
  BY <1>1 DEF Write, Inv, TypeOK
<1>7. \A i \in Topic : row'[n][k].count[i] = tracking[i]
  BY <1>3, <1>5, <1>6, AbsentIs
<1> QED
  BY <1>2, <1>6, <1>7

\* A record whose value goes, ...
LEMMA CountedLess ==
    ASSUME RecordsRight, NEW n \in Node, NEW k, NEW t, NEW S, NEW r,
           r \in Counted(n, k, t), S = Counted(n, k, t) \ {r}
    PROVE  Cardinality(S) = Cardinality(Counted(n, k, t)) - 1 /\ Cardinality(Counted(n, k, t)) > 0
<1>1. IsFiniteSet(Counted(n, k, t)) /\ Cardinality(Counted(n, k, t)) \in Nat
  BY CountedTypes
<1>2. Cardinality(S) = Cardinality(Counted(n, k, t)) - 1 /\ IsFiniteSet(S)
  BY <1>1, FS_RemoveElement, FS_Subset
<1>3. Cardinality(S) \in Nat
  BY <1>2, FS_CardinalityType
<1> QED
  BY <1>1, <1>2, <1>3
\* ... comes.
LEMMA CountedMore ==
    ASSUME RecordsRight, NEW n \in Node, NEW k, NEW t, NEW S, NEW r,
           r \notin Counted(n, k, t), S = Counted(n, k, t) \cup {r}
    PROVE  Cardinality(S) = Cardinality(Counted(n, k, t)) + 1
BY CountedTypes, FS_AddElement

\* The value at a place is called down.
LEMMA CallDownCounts ==
    ASSUME Inv, Told, Apart, RecordsRight, JobsRight, CountsTrue, NEW j \in jobs, CallDown(j)
    PROVE  CountsTrue'
<1> DEFINE n == j.at
           p == j.place
           i == [j EXCEPT !.pc = "put"]
<1>0. TypeOK /\ NeverBelow
  BY CountsAbove DEF Inv
<1>1. j \in Job /\ n \in Node /\ j.pc = "down" /\ j.old \in SUBSET Blob /\ JobRight(j)
  BY <1>0 DEF TypeOK, Job, CallDown, JobsRight
<1>2. PICK r : r \in RecordsAt(n, p)
  BY <1>1 DEF JobRight
<1>3. r \in rec[n] /\ r.place = p
  BY <1>2 DEF RecordsAt
<1>4. RecordsAt(n, p) = {r} /\ p[1] \in Topic /\ r.blob \in Blob
  BY <1>0, <1>1, <1>3, FoundAt
<1>5. PICK t : t = p[1]
  OBVIOUS
<1>6. PICK k : k = r.blob
  OBVIOUS
<1>7. MetaDown(n, k, t) /\ jobs' = (jobs \ {j}) \cup {i} /\ UNCHANGED rec
  BY <1>1, <1>2, <1>5, <1>6 DEF JobRight, CallDown, Step
<1>8. i.pc = "put" /\ i.at = n /\ i.place = p
  BY <1>1 DEF Job
<1> HIDE DEF i
<1>9. ~Pending(n, p)
  BY <1>1 DEF Pending, Apart, Working
<1>10. \A m \in Node : \A q : Pending(m, q)' <=> Pending(m, q) \/ (m = n /\ q = p)
  BY <1>1, <1>7, <1>8 DEF Pending
<1>11. r \in Counted(n, k, t)
  BY <1>3, <1>5, <1>6, <1>9 DEF Counted, Uses
<1>12. \A q \in rec[n] : q.place = p => q = r
  BY <1>4 DEF RecordsAt
<1>13. \A m \in Node, b \in Blob, x \in Topic :
         Counted(m, b, x)' = IF m = n /\ b = k /\ x = t THEN Counted(n, k, t) \ {r}
                             ELSE Counted(m, b, x)
  <2> SUFFICES ASSUME NEW m \in Node, NEW b \in Blob, NEW x \in Topic, NEW q
               PROVE  q \in Counted(m, b, x)' <=>
                        q \in Counted(m, b, x) /\ ~(m = n /\ b = k /\ x = t /\ q = r)
    OBVIOUS
  <2>1. q \in Counted(m, b, x)' <=> q \in Counted(m, b, x) /\ ~(m = n /\ q.place = p)
    BY <1>7, <1>10 DEF Counted, Uses
  <2>2. q \in Counted(n, b, x) => q \in rec[n] /\ q.blob = b /\ q.place[1] = x
    BY DEF Counted, Uses
  <2> QED
    BY <1>3, <1>5, <1>6, <1>12, <2>1, <2>2
<1>14. row[n][k].count[t] = Cardinality(Counted(n, k, t)) /\ k \in Blob /\ t \in Topic
  BY <1>1, <1>4, <1>5, <1>6 DEF CountsTrue
<1>15. /\ Cardinality(Counted(n, k, t)') = Cardinality(Counted(n, k, t)) - 1
       /\ Cardinality(Counted(n, k, t)) > 0
  <2>1. Counted(n, k, t)' = Counted(n, k, t) \ {r}
    BY <1>1, <1>13, <1>14
  <2> QED
    BY <1>1, <1>11, <2>1, CountedLess
<1>16. /\ row'[n][k].count[t] = row[n][k].count[t] - 1
       /\ \A m \in Node, b \in Blob, x \in Topic :
            ~(m = n /\ b = k /\ x = t) => row'[m][b].count[x] = row[m][b].count[x]
  BY <1>0, <1>1, <1>7, <1>14, <1>15, DownCounts
<1> SUFFICES ASSUME NEW m \in Node, NEW b \in Blob, NEW x \in Topic
             PROVE  row'[m][b].count[x] = Cardinality(Counted(m, b, x)')
  BY DEF CountsTrue
<1>17. CASE m = n /\ b = k /\ x = t
  BY <1>14, <1>15, <1>16, <1>17
<1>18. CASE ~(m = n /\ b = k /\ x = t)
  <2>1. Counted(m, b, x)' = Counted(m, b, x)
    BY <1>13, <1>18
  <2> QED
    BY <1>16, <1>18, <2>1 DEF CountsTrue
<1> QED
  BY <1>17, <1>18

\* The record is put between the two.
LEMMA PutRecordCounts ==
    ASSUME Inv, OneWriter, Apart, RecordsRight, JobsRight, CountsTrue, NEW j \in jobs, PutRecord(j)
    PROVE  CountsTrue'
<1> DEFINE n == j.at
           p == j.place
           i == [j EXCEPT !.pc = "up"]
<1>0. TypeOK
  BY DEF Inv
<1>1. j \in Job /\ n \in Node /\ j.pc = "put"
  BY <1>0 DEF TypeOK, Job, PutRecord
<1>2. PICK r : r \in rec'[n] /\ r.place = p /\ rec' = [rec EXCEPT ![n] =
                                                        (rec[n] \ RecordsAt(n, p)) \cup {r}]
  BY <1>0, PutRecordRight
<1>3. jobs' = (jobs \ {j}) \cup {i} /\ UNCHANGED row
  BY DEF PutRecord, Step
<1>4. i.pc = "up" /\ i.at = n /\ i.place = p
  BY <1>1 DEF Job
<1> HIDE DEF i
<1>5. Pending(n, p) /\ \A m, q : Pending(m, q)' <=> Pending(m, q)
  BY <1>1, <1>3, <1>4 DEF Pending
<1>6. \A m \in Node : \A q : q.place # p \/ m # n => (q \in rec'[m] <=> q \in rec[m])
  <2>1. /\ rec'[n] = (rec[n] \ RecordsAt(n, p)) \cup {r}
        /\ \A m \in Node : m # n => rec'[m] = rec[m]
    BY <1>0, <1>1, <1>2 DEF TypeOK
  <2> QED
    BY <1>2, <2>1 DEF RecordsAt
<1>7. \A m \in Node, b \in Blob, x \in Topic : Counted(m, b, x)' = Counted(m, b, x)
  <2> SUFFICES ASSUME NEW m \in Node, NEW b \in Blob, NEW x \in Topic, NEW q
               PROVE  q \in Counted(m, b, x)' <=> q \in Counted(m, b, x)
    OBVIOUS
  <2>1. CASE m = n /\ q.place = p
    BY <1>5, <2>1 DEF Counted
  <2>2. CASE q.place # p \/ m # n
    BY <1>5, <1>6, <2>2 DEF Counted, Uses
  <2> QED
    BY <2>1, <2>2
<1> QED
  BY <1>3, <1>7, CountsStay

\* Its value is called up.
LEMMA CallUpCounts ==
    ASSUME Inv, Apart, RecordsRight, JobsRight, CountsTrue, NEW j \in jobs, CallUp(j)
    PROVE  CountsTrue'
<1> DEFINE n == j.at
           p == j.place
           i == [j EXCEPT !.pc = "release"]
<1>0. TypeOK
  BY DEF Inv
<1>1. j \in Job /\ n \in Node /\ j.pc = "up" /\ JobRight(j)
  BY <1>0 DEF TypeOK, Job, CallUp, JobsRight
<1>2. PICK r : r \in RecordsAt(n, p) /\ r.blob = j.blob
  BY <1>1 DEF JobRight
<1>3. r \in rec[n] /\ r.place = p
  BY <1>2 DEF RecordsAt
<1>4. RecordsAt(n, p) = {r} /\ p[1] \in Topic /\ r.blob \in Blob
  BY <1>0, <1>1, <1>3, FoundAt
<1>5. PICK t : t = p[1]
  OBVIOUS
<1>6. PICK k : k = r.blob
  OBVIOUS
<1>7. /\ MetaUp(n, k, t) /\ UNCHANGED rec
      /\ jobs' = (jobs \ {j}) \cup {i} \/ jobs' = jobs \ {j}
  BY <1>2, <1>5, <1>6 DEF CallUp, Step
<1>8. i.pc = "release"
  BY <1>1 DEF Job
<1> HIDE DEF i
<1>9. Pending(n, p)
  BY <1>1 DEF Pending
<1>10. \A m \in Node : \A q : Pending(m, q)' <=> Pending(m, q) /\ ~(m = n /\ q = p)
  <2> SUFFICES ASSUME NEW m \in Node, NEW q
               PROVE  Pending(m, q)' <=> Pending(m, q) /\ ~(m = n /\ q = p)
    OBVIOUS
  <2>1. \A x \in jobs : x.at = n /\ x.place = p /\ x.pc \in {"put", "up"} => x = j
    BY <1>1 DEF Apart, Working
  <2>2. \A x \in jobs : x # j => x \in jobs'
    BY <1>7
  <2>3. \A x \in jobs' : x.pc \in {"put", "up"} => x \in jobs /\ x # j
    BY <1>7, <1>8
  <2>4. CASE m = n /\ q = p
    BY <2>1, <2>3, <2>4 DEF Pending
  <2>5. CASE ~(m = n /\ q = p)
    BY <2>2, <2>3, <2>5 DEF Pending
  <2> QED
    BY <2>4, <2>5
<1>11. r \notin Counted(n, k, t)
  BY <1>3, <1>9 DEF Counted
<1>12. \A q \in rec[n] : q.place = p => q = r
  BY <1>4 DEF RecordsAt
<1>13. \A m \in Node, b \in Blob, x \in Topic :
         Counted(m, b, x)' = IF m = n /\ b = k /\ x = t THEN Counted(n, k, t) \cup {r}
                             ELSE Counted(m, b, x)
  <2> SUFFICES ASSUME NEW m \in Node, NEW b \in Blob, NEW x \in Topic, NEW q
               PROVE  q \in Counted(m, b, x)' <=>
                        q \in Counted(m, b, x) \/ (m = n /\ b = k /\ x = t /\ q = r)
    OBVIOUS
  <2>1. q \in Counted(m, b, x)' <=>
          q \in Uses(m, b, x) /\ (~Pending(m, q.place) \/ (m = n /\ q.place = p))
    BY <1>7, <1>10 DEF Counted, Uses
  <2>2. q \in Uses(m, b, x) <=> q \in rec[m] /\ q.blob = b /\ q.place[1] = x
    BY DEF Uses
  <2>3. q \in Counted(m, b, x) <=> q \in Uses(m, b, x) /\ ~Pending(m, q.place)
    BY DEF Counted
  <2> QED
    BY <1>3, <1>5, <1>6, <1>9, <1>12, <2>1, <2>2, <2>3
<1>14. row[n][k].count[t] = Cardinality(Counted(n, k, t)) /\ k \in Blob /\ t \in Topic
  BY <1>1, <1>4, <1>5, <1>6 DEF CountsTrue
<1>15. Cardinality(Counted(n, k, t)') = Cardinality(Counted(n, k, t)) + 1
  <2>1. Counted(n, k, t)' = Counted(n, k, t) \cup {r}
    BY <1>1, <1>13, <1>14
  <2> QED
    BY <1>1, <1>11, <2>1, CountedMore
<1>16. /\ row'[n][k].count[t] = row[n][k].count[t] + 1
       /\ \A m \in Node, b \in Blob, x \in Topic :
            ~(m = n /\ b = k /\ x = t) => row'[m][b].count[x] = row[m][b].count[x]
  BY <1>0, <1>1, <1>7, <1>14, UpCounts
<1> SUFFICES ASSUME NEW m \in Node, NEW b \in Blob, NEW x \in Topic
             PROVE  row'[m][b].count[x] = Cardinality(Counted(m, b, x)')
  BY DEF CountsTrue
<1>17. CASE m = n /\ b = k /\ x = t
  BY <1>14, <1>15, <1>16, <1>17
<1>18. CASE ~(m = n /\ b = k /\ x = t)
  <2>1. Counted(m, b, x)' = Counted(m, b, x)
    BY <1>13, <1>18
  <2> QED
    BY <1>16, <1>18, <2>1 DEF CountsTrue
<1> QED
  BY <1>17, <1>18

\* A call that finds no record to replace, and so has nothing to call down.
LEMMA NoneCounted ==
    ASSUME CountsTrue, UNCHANGED <<rec, row>>, NEW n, NEW p, RecordsAt(n, p) = {},
           NEW S, NEW i, i.at = n, i.place = p, jobs' = (jobs \ S) \cup {i},
           \A j \in S : j.pc \notin {"put", "up"}
    PROVE  CountsTrue'
<1>1. \A m \in Node : \A q : ~(m = n /\ q = p) => (Pending(m, q)' <=> Pending(m, q))
  BY DEF Pending
<1>2. \A m \in Node : \A r \in rec[m] : Pending(m, r.place)' <=> Pending(m, r.place)
  BY <1>1 DEF RecordsAt
<1>3. \A m \in Node, b \in Blob, t \in Topic : Counted(m, b, t)' = Counted(m, b, t)
  BY <1>2, CountedStays
<1> QED
  BY <1>3, CountsStay

\* Put has found the record it replaces, or none.
LEMMA PutGetCounts ==
    ASSUME Inv, RecordsRight, CountsTrue, NEW j \in jobs, PutGet(j)
    PROVE  CountsTrue'
<1>0. TypeOK
  BY DEF Inv
<1>1. j \in Job /\ j.at \in Node /\ j.pc = "get"
  BY <1>0 DEF TypeOK, Job, PutGet
<1>2. UNCHANGED <<rec, row>>
  BY DEF PutGet
<1>3. CASE j.at \in Writer /\ Newest(j.at, j.place) = {} /\ Step(j, [j EXCEPT !.pc = "put"])
  <2> DEFINE i == [j EXCEPT !.pc = "put"]
  <2>1. i.at = j.at /\ i.place = j.place
    BY <1>1 DEF Job
  <2>2. jobs' = (jobs \ {j}) \cup {i}
    BY <1>3 DEF Step
  <2> HIDE DEF i
  <2>3. RecordsAt(j.at, j.place) = {}
    BY <1>0, <1>1, <1>3, NoneAt
  <2>4. \A x \in {j} : x.pc \notin {"put", "up"}
    BY <1>1
  <2>5. PICK n, p, S : n = j.at /\ p = j.place /\ S = {j}
    OBVIOUS
  <2>6. /\ i.at = n /\ i.place = p /\ jobs' = (jobs \ S) \cup {i} /\ RecordsAt(n, p) = {}
        /\ \A x \in S : x.pc \notin {"put", "up"}
    BY <2>1, <2>2, <2>3, <2>4, <2>5
  <2> QED
    BY <1>2, <2>6, NoneCounted
<1>4. ASSUME NEW i, i.pc \in {"release", "down"}, jobs' = (jobs \ {j}) \cup {i}
      PROVE  CountsTrue'
  <2>1. \A x \in {j} \cup {i} : x.pc \notin {"put", "up"}
    BY <1>1, <1>4
  <2>2. \A m, p : Pending(m, p)' <=> Pending(m, p)
    BY <1>4, <2>1, PendingStays
  <2>3. \A m \in Node, b \in Blob, t \in Topic : Counted(m, b, t)' = Counted(m, b, t)
    BY <1>2, <2>2, CountedStays
  <2> QED
    BY <1>2, <2>3, CountsStay
<1>5. CASE Step(j, [j EXCEPT !.pc = "release"])
  <2> DEFINE i == [j EXCEPT !.pc = "release"]
  <2>1. i.pc = "release"
    BY <1>1 DEF Job
  <2>2. jobs' = (jobs \ {j}) \cup {i}
    BY <1>5 DEF Step
  <2> HIDE DEF i
  <2> QED
    BY <1>4, <2>1, <2>2
<1>6. ASSUME NEW r, Step(j, [j EXCEPT !.pc = "down", !.pri = r.pri + 1, !.old = {r.blob}])
      PROVE  CountsTrue'
  <2> DEFINE i == [j EXCEPT !.pc = "down", !.pri = r.pri + 1, !.old = {r.blob}]
  <2>1. i.pc = "down"
    BY <1>1 DEF Job
  <2>2. jobs' = (jobs \ {j}) \cup {i}
    BY <1>6 DEF Step
  <2> HIDE DEF i
  <2> QED
    BY <1>4, <2>1, <2>2
<1> QED
  BY <1>3, <1>5, <1>6 DEF PutGet

\* A friend's record is accepted.
LEMMA OnDataCounts ==
    ASSUME OneWriter, RecordsRight, CountsTrue,
           NEW n \in Node, NEW f \in Node, NEW r \in rec[f], OnData(n, f, r)
    PROVE  CountsTrue'
<1> DEFINE cur == RecordsAt(n, r.place)
           i == [at |-> n, by |-> f, place |-> r.place, author |-> r.author, pri |-> r.pri,
                 blob |-> r.blob, old |-> {q.blob : q \in cur},
                 pc |-> IF cur = {} THEN "put" ELSE "down"]
<1>1. jobs' = jobs \cup {i} /\ UNCHANGED <<rec, row>>
  BY CurrentIs DEF OnData
<1>2. /\ i.at = n /\ i.place = r.place
      /\ i.pc = IF cur = {} THEN "put" ELSE "down"
  OBVIOUS
<1> HIDE DEF i
<1>3. CASE cur = {}
  <2>1. jobs' = (jobs \ {}) \cup {i}
    BY <1>1
  <2> QED
    BY <1>1, <1>2, <1>3, <2>1, NoneCounted
<1>4. CASE cur # {}
  <2>1. i.pc = "down" /\ jobs' = (jobs \ {}) \cup {i}
    BY <1>1, <1>2, <1>4
  <2>2. \A x \in {} \cup {i} : x.pc \notin {"put", "up"}
    BY <2>1
  <2>3. \A m, p : Pending(m, p)' <=> Pending(m, p)
    BY <2>1, <2>2, PendingStays
  <2>4. \A m \in Node, b \in Blob, t \in Topic : Counted(m, b, t)' = Counted(m, b, t)
    BY <1>1, <2>3, CountedStays
  <2> QED
    BY <1>1, <2>4, CountsStay
<1> QED
  BY <1>3, <1>4

\* A step that leaves the records and the calls between callbacks alone, and writes an
\* object with its counts or none.
LEMMA RestCounts ==
    ASSUME Inv, CountsTrue, UNCHANGED rec, NEW S, NEW T, jobs' = (jobs \ S) \cup T,
           \A j \in S \cup T : j.pc \notin {"put", "up"},
           \/ UNCHANGED row
           \/ \E n \in Node, k \in Blob : \E h, s, l, f, up, down :
                Write(n, k, Object(h, s, l, row[n][k].count, row[n][k].topics), f, up, down)
    PROVE  CountsTrue'
<1>1. \A m, p : Pending(m, p)' <=> Pending(m, p)
  BY PendingStays
<1>2. \A m \in Node, b \in Blob, t \in Topic : Counted(m, b, t)' = Counted(m, b, t)
  BY <1>1, CountedStays
<1>3. CASE UNCHANGED row
  BY <1>2, <1>3, CountsStay
<1>4. ASSUME NEW n \in Node, NEW k \in Blob, NEW h, NEW s, NEW l, NEW f, NEW up, NEW down,
             Write(n, k, Object(h, s, l, row[n][k].count, row[n][k].topics), f, up, down)
      PROVE  CountsTrue'
  <2> DEFINE o == Object(h, s, l, row[n][k].count, row[n][k].topics)
  <2>1. Write(n, k, o, f, up, down)
    BY <1>4
  <2>2. o.count = row[n][k].count /\ o.topics = row[n][k].topics
    BY DEF Object
  <2> HIDE DEF o
  <2> QED
    BY <1>2, <2>1, <2>2, CountsKept
<1> QED
  BY <1>3, <1>4

\* Every step but a crash keeps the counts.
LEMMA StepCounts ==
    ASSUME Inv, Told, OneWriter, Apart, RecordsRight, JobsRight, CountsTrue, [Next]_vars,
           spent'["restart"] = spent["restart"]
    PROVE  CountsTrue'
<1> DEFINE Wrote == \/ UNCHANGED row
                    \/ \E n \in Node, k \in Blob : \E h, s, l, f, up, down :
                         Write(n, k, Object(h, s, l, row[n][k].count, row[n][k].topics),
                               f, up, down)
<1>0. TypeOK
  BY DEF Inv
<1>a. ASSUME UNCHANGED <<rec, jobs>>, Wrote
      PROVE  CountsTrue'
  <2>1. jobs' = (jobs \ {}) \cup {} /\ \A j \in {} \cup {} : j.pc \notin {"put", "up"}
    BY <1>a
  <2> QED
    BY <1>a, <2>1, RestCounts
<1>b. ASSUME NEW n \in Node, NEW k \in Blob, NEW d, Hold(n, k, d)
      PROVE  Wrote
  BY <1>b DEF Hold
<1>1. ASSUME NEW n \in Node, NEW g \in Putter, NEW p \in Place, NEW k \in Blob, PutData(n, g, p, k)
      PROVE  CountsTrue'
  <2> DEFINE i == [at |-> n, by |-> g, place |-> p, author |-> n, pri |-> 0,
                   blob |-> k, old |-> {}, pc |-> "get"]
             o == row[n][k]
             f == IF o.state = "local" THEN file[n][k] ELSE "whole"
             up == IF o.state = "local" THEN {} ELSE o.topics
  <2>1. /\ jobs' = (jobs \ {}) \cup {i} /\ UNCHANGED rec
        /\ Write(n, k, Object(o.holds + 1, "local", o.loading, o.count, o.topics), f, up, {})
    BY <1>1 DEF PutData
  <2>2. \A j \in {} \cup {i} : j.pc \notin {"put", "up"}
    OBVIOUS
  <2> HIDE DEF i, f, up
  <2>3. Wrote
    BY <2>1
  <2> QED
    BY <2>1, <2>2, <2>3, RestCounts
<1>2. ASSUME NEW j \in jobs, Work(j)
      PROVE  CountsTrue'
  <2>1. CASE PutGet(j)
    BY <2>1, PutGetCounts
  <2>2. CASE CallDown(j)
    BY <2>2, CallDownCounts
  <2>3. CASE PutRecord(j)
    BY <2>3, PutRecordCounts
  <2>4. CASE CallUp(j)
    BY <2>4, CallUpCounts
  <2>5. CASE Release(j)
    <3>1. j.at \in Node /\ j.blob \in Blob /\ Hold(j.at, j.blob, -1) /\ UNCHANGED rec
      BY <1>0, <2>5, JobTypes DEF Release
    <3>2. Wrote
      BY <3>1, <1>b
    <3>3. jobs' = (jobs \ {j}) \cup {} /\ \A x \in {j} \cup {} : x.pc \notin {"put", "up"}
      BY <2>5 DEF Release
    <3> QED
      BY <3>1, <3>2, <3>3, RestCounts
  <2> QED
    BY <1>2, <2>1, <2>2, <2>3, <2>4, <2>5 DEF Work
<1>3. ASSUME NEW n \in Node, NEW f \in Node, Receive(n, f)
      PROVE  CountsTrue'
  <2>1. ASSUME NEW r \in rec[f], OnData(n, f, r)
        PROVE  CountsTrue'
    BY <2>1, OnDataCounts
  <2>2. ASSUME NEW k \in Blob, NEW t \in Topic, OnAdvert(n, f, k, t)
        PROVE  CountsTrue'
    <3> DEFINE r == row[n][k]
               rows == IF adv[f][k][t] THEN advert[n][k] \cup {<<f, t>>}
                                       ELSE advert[n][k] \ {<<f, t>>}
               up == adv[f][k][t] /\ Present(r) /\ r.state = "not"
               down == ~adv[f][k][t] /\ Present(r) /\ r.state = "ready" /\ rows = {}
               s == IF up THEN "ready" ELSE IF down THEN "not" ELSE r.state
    <3>1. /\ Write(n, k, Object(r.holds, s, r.loading, r.count, r.topics), file[n][k], {}, {})
          /\ UNCHANGED <<rec, jobs>>
      BY <2>2 DEF OnAdvert
    <3> HIDE DEF s
    <3> QED
      BY <3>1, <1>a
  <2> QED
    BY <1>3, <2>1, <2>2 DEF Receive
<1>4. ASSUME NEW n \in Node, Loop(n) \/ CallFails(n) \/ Restart(n)
      PROVE  CountsTrue'
  <2>1. CASE LoopWait(n) \/ CallFails(n)
    BY <2>1, <1>a DEF LoopWait, CallFails
  <2>2. ASSUME NEW k \in Blob, LoopPick(n, k)
        PROVE  CountsTrue'
    <3> DEFINE r == row[n][k]
    <3>1. r.needs /\ r.state = "ready" /\ Advertised(n, k)
      BY <2>2, ObjectFacts DEF LoopPick, Advertised
    <3>2. /\ Write(n, k, Object(r.holds + 1, r.state, TRUE, r.count, r.topics), file[n][k], {}, {})
          /\ UNCHANGED <<rec, jobs>>
      BY <2>2, <3>1 DEF LoopPick
    <3> QED
      BY <3>2, <1>a
  <2>3. ASSUME NEW k \in Blob, LoopFinish(n, k)
        PROVE  CountsTrue'
    <3> DEFINE r == row[n][k]
               new == dl[n] \in {"ok", "part"} /\ r.state # "local"
               s == IF new THEN "local" ELSE r.state
               x == IF new THEN Fetched(n) ELSE file[n][k]
               up == IF new THEN r.topics ELSE {}
    <3>1. /\ Write(n, k, Object(r.holds - 1, s, FALSE, r.count, r.topics), x, up, {})
          /\ UNCHANGED <<rec, jobs>>
      BY <2>3 DEF LoopFinish
    <3> HIDE DEF s, x, up
    <3> QED
      BY <3>1, <1>a
  <2>4. CASE Restart(n)
    <3>1. spent'["restart"] = spent["restart"] + 1 /\ spent["restart"] \in Nat
      BY <1>0, <2>4, SpentTypes DEF Restart, TypeOK
    <3> QED
      BY <3>1
  <2> QED
    BY <1>4, <2>1, <2>2, <2>3, <2>4 DEF Loop
<1>5. ASSUME NEW n \in Node, NEW f \in Node, NEW k \in Blob,
             DataGet(f, n, k) \/ Copied(f, n, k) \/ ReadFails(f, n, k)
      PROVE  CountsTrue'
  <2>1. CASE Hold(f, k, -1) \/ Hold(f, k, 1)
    <3>1. UNCHANGED <<rec, jobs>>
      BY <1>5 DEF DataGet, Copied, ReadFails
    <3> QED
      BY <2>1, <3>1, <1>a, <1>b
  <2>2. CASE UNCHANGED row
    <3>1. UNCHANGED <<rec, jobs>>
      BY <1>5 DEF DataGet, Copied, ReadFails
    <3> QED
      BY <2>2, <3>1, <1>a
  <2>3. Hold(f, k, -1) \/ Hold(f, k, 1) \/ UNCHANGED row
    BY <1>5 DEF DataGet, Copied, ReadFails
  <2> QED
    BY <2>1, <2>2, <2>3
<1>6. ASSUME NEW n \in Node, NEW k \in Blob, GetData(n, k)
      PROVE  CountsTrue'
  <2>1. Hold(n, k, 1) /\ UNCHANGED <<rec, jobs>>
    BY <1>6 DEF GetData
  <2> QED
    BY <2>1, <1>a, <1>b
<1>7. CASE UNCHANGED vars
  BY <1>7, <1>a DEF vars
<1> QED
  BY <1>1, <1>2, <1>3, <1>4, <1>5, <1>6, <1>7 DEF Next

\* What holds while calls take turns.
Kept == Inv /\ Told /\ RecordsRight /\ JobsRight /\ CountsTrue

\* It does, from the start.
LEMMA KeptTrue ==
    ASSUME OneWriter
    PROVE  Spec /\ []Orderly => []Kept
<1>1. Init => Kept
  <2> SUFFICES ASSUME Init
               PROVE  Kept
    OBVIOUS
  <2>1. Inv
    BY InitInv
  <2>2. /\ \A n \in Node, k \in Blob : row[n][k] = Absent /\ advert[n][k] = {}
        /\ \A n \in Node, k \in Blob, t \in Topic : ~adv[n][k][t]
        /\ jobs = {} /\ \A n \in Node : rec[n] = {}
    BY DEF Init
  <2>3. Told
    <3>1. TopicsCount
      BY <2>2, AbsentIs DEF TopicsCount
    <3> QED
      BY <2>2, <3>1, AbsentIs DEF Told, AdvertsTrue, ReadyIfAdvertised
  <2>4. RecordsRight /\ JobsRight
    BY <2>2, FS_EmptySet DEF RecordsRight, JobsRight
  <2>5. CountsTrue
    <3> SUFFICES ASSUME NEW n \in Node, NEW k \in Blob, NEW t \in Topic
                 PROVE  row[n][k].count[t] = Cardinality(Counted(n, k, t))
      BY DEF CountsTrue
    <3>1. Counted(n, k, t) = {}
      BY <2>2 DEF Counted, Uses
    <3>2. row[n][k].count[t] = 0
      BY <2>2, AbsentIs
    <3> QED
      BY <3>1, <3>2, FS_EmptySet
  <2> QED
    BY <2>1, <2>3, <2>4, <2>5 DEF Kept
<1>2. Kept /\ Orderly /\ Orderly' /\ [Next]_vars => Kept'
  <2> SUFFICES ASSUME Kept, Orderly, Orderly', [Next]_vars
               PROVE  Kept'
    OBVIOUS
  <2>1. /\ Inv /\ Told /\ RecordsRight /\ JobsRight /\ CountsTrue /\ Apart
        /\ spent'["restart"] = spent["restart"]
    BY DEF Kept, Orderly
  <2>2. Inv' /\ RecordsRight' /\ JobsRight'
    BY <2>1, StepInv, StepRecords
  <2>3. CountsTrue'
    BY <2>1, StepCounts
  <2>4. NeverBelow
    BY <2>1, CountsAbove
  <2>5. NeverBelow'
    <3>1. \A n \in Node, k \in Blob, t \in Topic :
            Cardinality(Counted(n, k, t)') \in Nat
      BY <2>2, FS_Subset, FS_CardinalityType DEF RecordsRight, Counted, Uses
    <3> QED
      BY <2>3, <3>1 DEF CountsTrue, NeverBelow
  <2>6. Told'
    BY <2>1, <2>4, <2>5, StepTold
  <2> QED
    BY <2>2, <2>3, <2>6 DEF Kept
<1> QED
  BY <1>1, <1>2, PTL DEF Spec

\* While the calls for a record take turns and no process crashes, Tracking counts the
\* records that have a blob as their value (metaUp, metaDown), so a node advertises what
\* it has and tracks, and waits for what a friend has.
THEOREM TrackingCorrect ==
    ASSUME OneWriter
    PROVE  Spec /\ []Orderly => [](TrackingCounts /\ AdvertsTrue /\ ReadyIfAdvertised)
<1>1. Kept => TrackingCounts /\ AdvertsTrue /\ ReadyIfAdvertised
  <2> SUFFICES ASSUME Kept
               PROVE  TrackingCounts /\ AdvertsTrue /\ ReadyIfAdvertised
    OBVIOUS
  <2>1. ASSUME NEW n \in Node, NEW k \in Blob, NEW t \in Topic, Quiet(n)
        PROVE  row[n][k].count[t] = Cardinality(Uses(n, k, t))
    <3>1. Counted(n, k, t) = Uses(n, k, t)
      BY <2>1 DEF Counted, Quiet, Pending
    <3> QED
      BY <3>1 DEF Kept, CountsTrue
  <2> QED
    BY <2>1 DEF TrackingCounts, Kept, Told
<1> QED
  BY <1>1, KeptTrue, PTL

\* Under the same conditions a blob is deleted only when nothing uses it and no record
\* has it as its value but one that is being put (writeObj).
THEOREM DeletionUnused ==
    ASSUME OneWriter
    PROVE  Spec /\ []Orderly => DeletedWhenUnused
<1>1. Kept /\ Kept' /\ [Next]_vars =>
        [\A n \in Node, k \in Blob :
           file[n][k] # "none" /\ file'[n][k] = "none" =>
             /\ Holders(n, k)' = {} /\ Putting(n, k)' = {}
             /\ \A r \in rec'[n] : r.blob = k =>
                  \E j \in jobs' : j.at = n /\ j.pc \in {"put", "up"} /\ j.place = r.place]_vars
  <2> SUFFICES ASSUME Kept, Kept', [Next]_vars, NEW n \in Node, NEW k \in Blob,
                      file[n][k] # "none", file'[n][k] = "none"
               PROVE  /\ Holders(n, k)' = {} /\ Putting(n, k)' = {}
                      /\ \A r \in rec'[n] : r.blob = k =>
                           \E j \in jobs' : j.at = n /\ j.pc \in {"put", "up"} /\ j.place = r.place
    OBVIOUS
  <2>1. ~Present(row'[n][k])
    BY StepDeletes DEF Kept, Inv, GoesWhole
  <2>2. row'[n][k].holds = 0 /\ row'[n][k].topics = {}
    BY <2>1 DEF Present
  <2>3. Holders(n, k)' = {} /\ Putting(n, k)' = {}
    <3>1. InUse(n, k)' <= 0
      BY <2>2 DEF Kept, Inv, HoldsEnough
    <3> QED
      BY <3>1, UsesTypesNext DEF Kept, Inv, UsesAreNumbers
  <2>4. ASSUME NEW r \in rec'[n], r.blob = k
        PROVE  Pending(n, r.place)'
    <3>1. r.place[1] \in Topic
      <4>1. r \in Record
        BY DEF Kept, Inv, TypeOK
      <4> QED
        BY <4>1, PlaceAssumption DEF Record
    <3>2. PICK t \in Topic : t = r.place[1]
      BY <3>1
    <3>3. row'[n][k].count[t] = 0
      BY <2>2 DEF Kept, Inv, ObjectsRight, CountedTopics
    <3>4. Cardinality(Counted(n, k, t)') = 0
      BY <3>3 DEF Kept, CountsTrue
    <3>5. IsFiniteSet(Counted(n, k, t)')
      BY FS_Subset DEF Kept, RecordsRight, Counted, Uses
    <3>6. Counted(n, k, t)' = {}
      BY <3>4, <3>5, FS_EmptySet
    <3> QED
      BY <2>4, <3>2, <3>6 DEF Counted, Uses
  <2> QED
    BY <2>3, <2>4 DEF Pending
<1> QED
  BY <1>1, KeptTrue, PTL DEF Spec, DeletedWhenUnused

-----------------------------------------------------------------------------
(* Where callbacks cannot overlap: one goroutine puts, and friends form a tree. *)

OnePutter == \A x, y \in Putter : x = y

\* m has the record that x gives a version of, and no older one.
Newer(m, x) == \E q \in rec[m] : q.place = x.place /\ ~Outranks(x, q)

\* Nobody is ahead of the friend above him.
Behind(up) ==
    /\ \A n \in Node \ Writer : \A r \in rec[n] : Newer(up[n], r)
    /\ \A j \in jobs : j.by \in Node => Newer(j.by, j)

\* The writer puts and accepts nothing; the others put nothing, and accept what the
\* friend above them has.
Sides(up) ==
    \A j \in jobs :
      /\ j.by \in Node => j.at \notin Writer /\ j.by = up[j.at]
      /\ j.by \in Putter /\ Working(j) => j.at \in Writer

\* What is about to be put is newer than what it replaces.
PutsAbove ==
    \A j \in jobs :
      j.pc \in {"down", "put"} => \A r \in RecordsAt(j.at, j.place) : Outranks(j, r)

Downward(up) == RecordsRight /\ JobsRight /\ Behind(up) /\ Sides(up) /\ PutsAbove

\* Then calls for one record take turns.
LEMMA DownwardApart ==
    ASSUME OnePutter, TypeOK, JobsApart, NEW up, Sides(up)
    PROVE  Apart
<1> SUFFICES ASSUME NEW i \in jobs, NEW j \in jobs, i.at = j.at, Working(i), Working(j)
             PROVE  i = j
  BY DEF Apart
<1>1. /\ i.by \in Putter \cup Node /\ j.by \in Putter \cup Node
      /\ i.at \in Node /\ j.at \in Node
  BY DEF TypeOK, Job
<1>2. i.by = j.by
  <2>1. CASE i.at \in Writer
    BY <1>1, <2>1 DEF Sides, OnePutter
  <2>2. CASE i.at \notin Writer
    BY <1>1, <2>2 DEF Sides
  <2> QED
    BY <2>1, <2>2
<1> QED
  BY <1>2 DEF JobsApart

\* Calls that are left alone, or new ones of which all this is true.
LEMMA DownwardStays ==
    ASSUME NEW up, Behind(up), Sides(up), PutsAbove, UNCHANGED rec,
           \A i \in jobs' :
             \/ i \in jobs
             \/ /\ i.by \in Node => i.at \notin Writer /\ i.by = up[i.at] /\ Newer(i.by, i)
                /\ i.by \in Putter /\ Working(i) => i.at \in Writer
                /\ i.pc \in {"down", "put"} =>
                     \A r \in RecordsAt(i.at, i.place) : Outranks(i, r)
    PROVE  Behind(up)' /\ Sides(up)' /\ PutsAbove'
<1>1. \A i \in jobs' :
        /\ i.by \in Node => i.at \notin Writer /\ i.by = up[i.at] /\ Newer(i.by, i)
        /\ i.by \in Putter /\ Working(i) => i.at \in Writer
        /\ i.pc \in {"down", "put"} => \A r \in RecordsAt(i.at, i.place) : Outranks(i, r)
  BY DEF Behind, Sides, PutsAbove
<1>2. \A m, x : Newer(m, x)' <=> Newer(m, x)
  BY DEF Newer
<1>3. Behind(up)'
  BY <1>1, <1>2 DEF Behind
<1>4. Sides(up)'
  BY <1>1 DEF Sides, Working
<1>5. PutsAbove'
  BY <1>1 DEF PutsAbove, RecordsAt
<1> QED
  BY <1>3, <1>4, <1>5

\* Versions of a record are ordered: one that is not newer than another is not newer
\* than what replaces that.
LEMMA RankFacts ==
    ASSUME NEW x, NEW q, NEW r, {x.pri, q.pri, r.pri} \subseteq Nat,
           {x.blob, q.blob, r.blob} \subseteq Blob
    PROVE  ~Outranks(r, r) /\ (~Outranks(x, q) /\ Outranks(r, q) => ~Outranks(x, r))
<1>1. {Rank[x.blob], Rank[q.blob], Rank[r.blob]} \subseteq Nat
  BY RankAssumption
<1> QED
  BY <1>1 DEF Outranks

\* A record is accepted from the friend above only.
LEMMA FromAbove ==
    ASSUME OneWriter, RecordsRight, NEW up, Tree(up), Behind(up),
           NEW n \in Node, NEW f \in Node, NEW r \in rec[f], OnData(n, f, r)
    PROVE  n \notin Writer /\ f = up[n]
<1>1. CASE n \notin Writer /\ up[n] = f
  BY <1>1
<1>2. CASE f \notin Writer /\ up[f] = n
  <2>1. PICK q \in rec[n] : q.place = r.place /\ ~Outranks(r, q)
    BY <1>2 DEF Behind, Newer
  <2>2. q.author = r.author
    BY DEF RecordsRight, OneWriter
  <2> QED
    BY <2>1, <2>2 DEF OnData
<1>3. <<n, f>> \in Friends
  BY DEF OnData
<1> QED
  BY <1>1, <1>2, <1>3 DEF Tree

\* The record is put.
LEMMA PutRecordDownward ==
    ASSUME OnePutter, OneWriter, TypeOK, JobsApart, NEW up, Tree(up), Downward(up),
           NEW j \in jobs, PutRecord(j)
    PROVE  Behind(up)' /\ Sides(up)' /\ PutsAbove'
<1> DEFINE n == j.at
           p == j.place
           i == [j EXCEPT !.pc = "up"]
<1>0. RecordsRight /\ JobsRight /\ Behind(up) /\ Sides(up) /\ PutsAbove /\ Apart
  BY DownwardApart DEF Downward
<1>1. j \in Job /\ n \in Node /\ j.pc = "put" /\ Working(j) /\ j.pri \in Nat
      /\ j.by \in Putter \cup Node /\ j.blob \in Blob
  BY DEF TypeOK, Job, PutRecord, Working
<1>2. PICK r : /\ r \in rec'[n] /\ r.place = p /\ r.pri = j.pri /\ r.blob = j.blob
               /\ rec' = [rec EXCEPT ![n] = (rec[n] \ RecordsAt(n, p)) \cup {r}]
  BY <1>0, PutRecordRight
<1>3. jobs' = (jobs \ {j}) \cup {i}
  BY DEF PutRecord, Step
<1>4. /\ i.pc = "up" /\ i.at = n /\ i.place = p /\ i.by = j.by /\ i.pri = j.pri
      /\ i.blob = j.blob
  BY <1>1 DEF Job
<1> HIDE DEF i
<1>5. /\ rec'[n] = (rec[n] \ RecordsAt(n, p)) \cup {r}
      /\ \A m \in Node : m # n => rec'[m] = rec[m]
  BY <1>1, <1>2 DEF TypeOK
<1>6. \A x : (x.pri = j.pri /\ x.blob = j.blob) => \A q : Outranks(x, q) <=> Outranks(j, q)
  BY DEF Outranks
<1>7. \A m \in Node : \A q \in rec[m] : q.pri \in Nat /\ q.blob \in Blob
  BY DEF TypeOK, Record
<1>8. ASSUME NEW m \in Node, NEW x, x.pri \in Nat, x.blob \in Blob, Newer(m, x)
      PROVE  Newer(m, x)'
  <2> SUFFICES \E q \in rec'[m] : q.place = x.place /\ ~Outranks(x, q)
    BY DEF Newer
  <2>2. PICK q \in rec[m] : q.place = x.place /\ ~Outranks(x, q)
    BY <1>8 DEF Newer
  <2>3. CASE m # n \/ q.place # p
    <3>1. q \in rec'[m]
      BY <1>5, <2>3 DEF RecordsAt
    <3> QED
      BY <2>2, <3>1
  <2>4. CASE m = n /\ q.place = p
    <3>1. Outranks(j, q)
      BY <1>0, <1>1, <2>4 DEF PutsAbove, RecordsAt
    <3>2. Outranks(r, q)
      BY <1>2, <1>6, <3>1
    <3>3. ~Outranks(x, r)
      BY <1>1, <1>2, <1>7, <1>8, <2>2, <3>2, RankFacts
    <3> QED
      BY <1>2, <2>2, <2>4, <3>3
  <2> QED
    BY <2>3, <2>4
<1>9. ASSUME n \notin Writer PROVE Newer(up[n], r)'
  <2>1. j.by \in Node /\ j.by = up[n]
    BY <1>0, <1>1, <1>9 DEF Sides
  <2>2. Newer(up[n], j)
    BY <1>0, <2>1 DEF Behind
  <2>3. Newer(up[n], j)'
    BY <1>1, <1>8, <2>1, <2>2
  <2> QED
    BY <1>2, <1>6, <2>3 DEF Newer
<1>10. Behind(up)'
  <2>1. ASSUME NEW m \in Node \ Writer, NEW x \in rec'[m] PROVE Newer(up[m], x)'
    <3>0. up[m] \in Node
      BY DEF Tree
    <3>1. CASE x \in rec[m]
      <4>1. Newer(up[m], x)
        BY <1>0, <3>1 DEF Behind
      <4>2. x.pri \in Nat /\ x.blob \in Blob
        BY <1>7, <3>1
      <4> QED
        BY <1>8, <3>0, <4>1, <4>2
    <3>2. CASE x = r /\ m = n
      BY <1>9, <3>2
    <3> QED
      BY <1>5, <3>1, <3>2
  <2>2. ASSUME NEW x \in jobs', x.by \in Node PROVE Newer(x.by, x)'
    <3>1. CASE x = i
      <4>1. Newer(j.by, j)'
        BY <1>0, <1>1, <1>4, <1>8, <2>2, <3>1 DEF Behind
      <4> QED
        BY <1>4, <1>6, <3>1, <4>1 DEF Newer
    <3>2. CASE x \in jobs
      <4>1. x.pri \in Nat /\ x.blob \in Blob
        BY <3>2 DEF TypeOK, Job
      <4> QED
        BY <1>0, <1>8, <2>2, <3>2, <4>1 DEF Behind
    <3> QED
      BY <1>3, <3>1, <3>2
  <2> QED
    BY <2>1, <2>2 DEF Behind
<1>11. Sides(up)'
  BY <1>0, <1>1, <1>3, <1>4 DEF Sides, Working
<1>12. PutsAbove'
  <2> SUFFICES ASSUME NEW x \in jobs', x.pc \in {"down", "put"}
               PROVE  \A q \in RecordsAt(x.at, x.place)' : Outranks(x, q)
    BY DEF PutsAbove
  <2>1. x \in jobs /\ x # j /\ x.at \in Node
    BY <1>3, <1>4 DEF TypeOK, Job
  <2>2. x.at # n \/ x.place # p
    BY <1>0, <1>1, <2>1 DEF Apart, Working
  <2>3. RecordsAt(x.at, x.place)' = RecordsAt(x.at, x.place)
    BY <1>2, <1>5, <2>1, <2>2 DEF RecordsAt
  <2> QED
    BY <1>0, <2>1, <2>3 DEF PutsAbove
<1> QED
  BY <1>10, <1>11, <1>12

\* Every step keeps everybody behind the friend above him.
LEMMA StepDownward ==
    ASSUME OnePutter, OneWriter, Inv, NEW up, Tree(up), Downward(up), [Next]_vars
    PROVE  Downward(up)'
<1>0. /\ TypeOK /\ JobsApart /\ RecordsRight /\ JobsRight /\ Behind(up) /\ Sides(up) /\ PutsAbove
      /\ Apart /\ Putter \cap Node = {}
  BY DownwardApart, PutterAssumption DEF Inv, Downward
<1>a. RecordsRight' /\ JobsRight'
  BY <1>0, StepRecords
<1> SUFFICES Behind(up)' /\ Sides(up)' /\ PutsAbove'
  BY <1>a DEF Downward
<1>1. ASSUME NEW n \in Node, NEW g \in Putter, NEW p \in Place, NEW k \in Blob, PutData(n, g, p, k)
      PROVE  Behind(up)' /\ Sides(up)' /\ PutsAbove'
  <2> DEFINE i == [at |-> n, by |-> g, place |-> p, author |-> n, pri |-> 0,
                   blob |-> k, old |-> {}, pc |-> "get"]
  <2>1. jobs' = jobs \cup {i} /\ UNCHANGED rec
    BY <1>1 DEF PutData
  <2>2. i.pc = "get" /\ i.by = g
    OBVIOUS
  <2> HIDE DEF i
  <2>3. g \notin Node
    BY <1>0
  <2>4. ~Working(i) /\ i.pc \notin {"down", "put"}
    BY <2>2 DEF Working
  <2> QED
    BY <1>0, <2>1, <2>2, <2>3, <2>4, DownwardStays
<1>2. ASSUME NEW j \in jobs, Work(j)
      PROVE  Behind(up)' /\ Sides(up)' /\ PutsAbove'
  <2>0. j \in Job /\ j.at \in Node
    BY <1>0 DEF TypeOK, Job
  <2>1. CASE PutGet(j)
    <3>1. UNCHANGED rec /\ j.by \in Putter /\ j.by \notin Node
      BY <1>0, <2>1 DEF PutGet, JobsApart
    <3>2. ASSUME NEW i, i.by = j.by, jobs' = (jobs \ {j}) \cup {i},
                 Working(i) => i.at \in Writer,
                 i.pc \in {"down", "put"} => \A q \in RecordsAt(i.at, i.place) : Outranks(i, q)
          PROVE  Behind(up)' /\ Sides(up)' /\ PutsAbove'
      BY <1>0, <3>1, <3>2, DownwardStays
    <3>3. CASE Step(j, [j EXCEPT !.pc = "release"])
      <4> DEFINE i == [j EXCEPT !.pc = "release"]
      <4>1. i.pc = "release" /\ i.by = j.by
        BY <2>0 DEF Job
      <4>2. jobs' = (jobs \ {j}) \cup {i}
        BY <3>3 DEF Step
      <4> HIDE DEF i
      <4>3. ~Working(i) /\ i.pc \notin {"down", "put"}
        BY <4>1 DEF Working
      <4> QED
        BY <3>2, <4>1, <4>2, <4>3
    <3>4. CASE j.at \in Writer /\ Newest(j.at, j.place) = {} /\ Step(j, [j EXCEPT !.pc = "put"])
      <4> DEFINE i == [j EXCEPT !.pc = "put"]
      <4>1. i.by = j.by /\ i.at = j.at /\ i.place = j.place
        BY <2>0 DEF Job
      <4>2. jobs' = (jobs \ {j}) \cup {i}
        BY <3>4 DEF Step
      <4> HIDE DEF i
      <4>3. RecordsAt(j.at, j.place) = {}
        BY <1>0, <2>0, <3>4, NoneAt
      <4> QED
        BY <3>2, <3>4, <4>1, <4>2, <4>3
    <3>5. ASSUME j.at \in Writer, NEW r \in Newest(j.at, j.place),
                 Step(j, [j EXCEPT !.pc = "down", !.pri = r.pri + 1, !.old = {r.blob}])
          PROVE  Behind(up)' /\ Sides(up)' /\ PutsAbove'
      <4> DEFINE i == [j EXCEPT !.pc = "down", !.pri = r.pri + 1, !.old = {r.blob}]
      <4>1. i.by = j.by /\ i.at = j.at /\ i.place = j.place /\ i.pri = r.pri + 1
        BY <2>0 DEF Job
      <4>2. jobs' = (jobs \ {j}) \cup {i}
        BY <3>5 DEF Step
      <4> HIDE DEF i
      <4>3. r \in rec[j.at] /\ r.place = j.place
        BY DEF Newest
      <4>4. RecordsAt(j.at, j.place) = {r} /\ r.pri \in Nat
        BY <1>0, <2>0, <4>3, FoundAt
      <4>5. \A q \in RecordsAt(i.at, i.place) : Outranks(i, q)
        BY <4>1, <4>4 DEF Outranks
      <4> QED
        BY <3>2, <3>5, <4>1, <4>2, <4>5
    <3> QED
      BY <2>1, <3>3, <3>4, <3>5 DEF PutGet
  <2>2. CASE PutRecord(j)
    BY <1>0, <2>2, PutRecordDownward DEF Downward
  <2>3. CASE CallDown(j)
    <3> DEFINE i == [j EXCEPT !.pc = "put"]
    <3>1. jobs' = (jobs \ {j}) \cup {i} /\ UNCHANGED rec /\ j.pc = "down"
      BY <2>3 DEF CallDown, Step
    <3>2. /\ i.by = j.by /\ i.at = j.at /\ i.place = j.place /\ i.pri = j.pri
          /\ i.blob = j.blob
      BY <2>0 DEF Job
    <3> HIDE DEF i
    <3>3. Newer(j.by, j) => Newer(i.by, i)
      BY <3>2 DEF Newer, Outranks
    <3>4. /\ i.by \in Node => i.at \notin Writer /\ i.by = up[i.at] /\ Newer(i.by, i)
          /\ i.by \in Putter => i.at \in Writer
          /\ \A r \in RecordsAt(i.at, i.place) : Outranks(i, r)
      <4>1. i.by \in Node => i.at \notin Writer /\ i.by = up[i.at] /\ Newer(i.by, i)
        BY <1>0, <3>2, <3>3 DEF Behind, Sides
      <4>2. i.by \in Putter => i.at \in Writer
        BY <1>0, <3>1, <3>2 DEF Sides, Working
      <4>3. \A r \in RecordsAt(i.at, i.place) : Outranks(i, r)
        <5>1. \A r \in RecordsAt(j.at, j.place) : Outranks(j, r)
          BY <1>0, <3>1 DEF PutsAbove
        <5> QED
          BY <3>2, <5>1 DEF Outranks
      <4> QED
        BY <4>1, <4>2, <4>3
    <3> QED
      BY <1>0, <3>1, <3>4, DownwardStays
  <2>4. CASE CallUp(j)
    <3> DEFINE i == [j EXCEPT !.pc = "release"]
    <3>1. /\ UNCHANGED rec
          /\ jobs' = jobs \ {j} \/ (j.by \in Putter /\ jobs' = (jobs \ {j}) \cup {i})
      BY <2>4 DEF CallUp, Step
    <3>2. i.pc = "release" /\ i.by = j.by
      BY <2>0 DEF Job
    <3> HIDE DEF i
    <3>3. j.by \in Putter => i.by \notin Node /\ ~Working(i)
      BY <1>0, <3>2 DEF Working
    <3> QED
      BY <1>0, <3>1, <3>2, <3>3, DownwardStays
  <2>5. CASE Release(j)
    BY <1>0, <2>5, DownwardStays DEF Release
  <2> QED
    BY <1>2, <2>1, <2>2, <2>3, <2>4, <2>5 DEF Work
<1>3. ASSUME NEW n \in Node, NEW f \in Node, Receive(n, f)
      PROVE  Behind(up)' /\ Sides(up)' /\ PutsAbove'
  <2>1. ASSUME NEW r \in rec[f], OnData(n, f, r)
        PROVE  Behind(up)' /\ Sides(up)' /\ PutsAbove'
    <3> DEFINE cur == RecordsAt(n, r.place)
               i == [at |-> n, by |-> f, place |-> r.place, author |-> r.author, pri |-> r.pri,
                     blob |-> r.blob, old |-> {q.blob : q \in cur},
                     pc |-> IF cur = {} THEN "put" ELSE "down"]
    <3>1. jobs' = jobs \cup {i} /\ UNCHANGED rec /\ \A q \in cur : Outranks(r, q)
      BY <1>0, <2>1, CurrentIs DEF OnData
    <3>2. i.at = n /\ i.by = f /\ i.place = r.place /\ i.pri = r.pri /\ i.blob = r.blob
      OBVIOUS
    <3> HIDE DEF i
    <3>3. n \notin Writer /\ f = up[n] /\ f \notin Putter
      BY <1>0, <2>1, FromAbove
    <3>4. ~Outranks(r, r)
      <4>1. r \in Record
        BY <1>0 DEF TypeOK
      <4> QED
        BY <4>1, RankAssumption DEF Record, Outranks
    <3>5. Newer(f, i)
      BY <3>2, <3>4 DEF Newer, Outranks
    <3>6. \A q \in RecordsAt(i.at, i.place) : Outranks(i, q)
      BY <3>1, <3>2 DEF Outranks
    <3> QED
      BY <1>0, <3>1, <3>2, <3>3, <3>5, <3>6, DownwardStays
  <2>2. ASSUME NEW k \in Blob, NEW t \in Topic, OnAdvert(n, f, k, t)
        PROVE  Behind(up)' /\ Sides(up)' /\ PutsAbove'
    BY <1>0, <2>2, DownwardStays DEF OnAdvert
  <2> QED
    BY <1>3, <2>1, <2>2 DEF Receive
<1>4. ASSUME NEW n \in Node, Loop(n) \/ CallFails(n) \/ Restart(n)
      PROVE  Behind(up)' /\ Sides(up)' /\ PutsAbove'
  <2>1. UNCHANGED rec /\ jobs' \subseteq jobs
    BY <1>4 DEF Loop, LoopWait, LoopPick, LoopFinish, CallFails, Restart
  <2> QED
    BY <1>0, <2>1, DownwardStays
<1>5. ASSUME NEW n \in Node, NEW f \in Node, NEW k \in Blob,
             DataGet(f, n, k) \/ Copied(f, n, k) \/ ReadFails(f, n, k)
      PROVE  Behind(up)' /\ Sides(up)' /\ PutsAbove'
  BY <1>0, <1>5, DownwardStays DEF DataGet, Copied, ReadFails
<1>6. ASSUME NEW n \in Node, NEW k \in Blob, GetData(n, k)
      PROVE  Behind(up)' /\ Sides(up)' /\ PutsAbove'
  BY <1>0, <1>6, DownwardStays DEF GetData
<1>7. CASE UNCHANGED vars
  BY <1>0, <1>7, DownwardStays DEF vars
<1> QED
  BY <1>1, <1>2, <1>3, <1>4, <1>5, <1>6, <1>7 DEF Next

\* When the friends form a tree, one of whom writes, with one goroutine that puts, the
\* calls for a record take turns: it is accepted from the friend on the way to the writer
\* only, because nobody accepts back what he has passed on (verifyUpdate).
THEOREM TreeTakesTurns ==
    ASSUME OnePutter, OneWriter, NEW up, Tree(up)
    PROVE  Spec => []Apart
<1>1. Init => Downward(up)
  <2> SUFFICES ASSUME Init
               PROVE  Downward(up)
    OBVIOUS
  <2>1. jobs = {} /\ \A n \in Node : rec[n] = {}
    BY DEF Init
  <2> QED
    BY <2>1, FS_EmptySet DEF Downward, RecordsRight, JobsRight, Behind, Sides, PutsAbove
<1>2. Inv /\ Downward(up) /\ [Next]_vars => Downward(up)'
  BY StepDownward
<1>3. Inv /\ Downward(up) => Apart
  BY DownwardApart DEF Inv, Downward
<1> QED
  BY <1>1, <1>2, <1>3, Invariant, PTL DEF Spec

\* So, until the first crash, what one friend writes is counted, offered, fetched and
\* deleted right at all of them, however callbacks, adverts, downloads and reads
\* interleave (what the run blobs checks on a small instance).
THEOREM TreeCorrect ==
    ASSUME OnePutter, OneWriter, NEW up, Tree(up)
    PROVE  Spec /\ [](spent["restart"] = 0) =>
             [](TrackingCounts /\ AdvertsTrue /\ ReadyIfAdvertised) /\ DeletedWhenUnused
<1>1. Apart /\ spent["restart"] = 0 => Orderly
  BY DEF Orderly
<1> QED
  BY <1>1, TreeTakesTurns, TrackingCorrect, DeletionUnused, PTL
=============================================================================
