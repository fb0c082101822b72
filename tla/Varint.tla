-------------------------------- MODULE Varint --------------------------------
(***************************************************************************)
(* How the transfer package writes integers: groups of bits, the least     *)
(* first, each in a byte whose high bit says that another one follows; and *)
(* the sign moved to the lowest bit.                                       *)
(***************************************************************************)
EXTENDS Integers, Sequences, SequencesExt

CONSTANTS
    Base,  \* values of a group (128)
    Half   \* non-negative values of a signed word (2^63)

ASSUME BaseAssumption == Base \in Nat /\ Base > 1
ASSUME HalfAssumption == Half \in Nat /\ Half > 0

Word == 0 .. 2 * Half - 1     \* uint64
Signed == -Half .. Half - 1   \* int64
Byte == 0 .. 2 * Base - 1

\* Go's conversions, which keep the bits, and its arithmetic, which wraps.
Uint64(x) == x % (2 * Half)
Int64(x) == ((x + Half) % (2 * Half)) - Half

-----------------------------------------------------------------------------

\* What a number is worth that i groups come before: Base to the i.
Place[i \in Nat] == IF i = 0 THEN 1 ELSE Base * Place[i - 1]

\* The groups of v: as few as hold it, but at least one.
Groups(v) == CHOOSE n \in 1 .. v + 1 : /\ v < Place[n]
                                       /\ \A k \in 1 .. n - 1 : v >= Place[k]

\* writeUint.
WriteUint(v) ==
    [i \in 1 .. Groups(v) |->
       ((v \div Place[i - 1]) % Base) + (IF i < Groups(v) THEN Base ELSE 0)]

\* The length of the number at the head of in, or 0 when its last byte is missing.
UintLen(in) ==
    LET last == {i \in 1 .. Len(in) : in[i] < Base}
    IN IF last = {} THEN 0 ELSE CHOOSE i \in last : \A j \in last : i <= j

\* The number in these bytes.  Bits that are shifted out of the word are lost.
ReadUint(bytes) ==
    LET sum[i \in 0 .. Len(bytes)] ==
          IF i = 0 THEN 0 ELSE sum[i - 1] + Uint64((bytes[i] % Base) * Place[i - 1])
    IN sum[Len(bytes)]

-----------------------------------------------------------------------------

\* writeInt: the number whose lowest bit is the sign of s.
SignLast(s) == IF s < 0 THEN Uint64(2 * (Uint64(Int64(-s)) - 1) + 1)
               ELSE Uint64(2 * Uint64(s))

\* readInt: back again.
SignFirst(v) == IF v % 2 = 0 THEN Int64(v \div 2) ELSE Int64(-Int64(v \div 2) - 1)
-----------------------------------------------------------------------------

\* What a read returns: a value and the bytes after it.
Done(v, rest) == [ok |-> TRUE, v |-> v, rest |-> rest]
\* The bytes do not suffice.
Short == [ok |-> FALSE, v |-> <<>>, rest |-> <<>>]

Number(in) == LET n == UintLen(in)
              IN IF n = 0 THEN Short
                 ELSE Done(ReadUint(SubSeq(in, 1, n)), SubSeq(in, n + 1, Len(in)))

\* readBytes.
Take(n, in) == IF n > Len(in) THEN Short
               ELSE Done(SubSeq(in, 1, n), SubSeq(in, n + 1, Len(in)))
=============================================================================
