--------------------------------- MODULE Wire ---------------------------------
(***************************************************************************)
(* Encode and Decode of the transfer package, of several objects one after *)
(* the other, over a stream that delivers the bytes in pieces and may end  *)
(* early.  Nothing on the stream says where an object or a message ends.   *)
(* How one object is written and read is left to the constants; Codec has  *)
(* it for every kind of value.                                             *)
(***************************************************************************)
EXTENDS Integers, Sequences, SequencesExt

CONSTANTS
    Call,          \* what Encode is called with: sequences of <<type, value>>
    Body,          \* what the sender writes after them: sequences of bytes
    Bytes(_),      \* what is written of an object, up to a panic if there is one
    Panics(_),     \* writing the object panics
    Reader(_, _),  \* of a type, off a stream: [ok, v, rest]
    Value(_)       \* what the reader of an object can tell of it

\* Fault: an object that cannot be written is left out.
SentOthers(os, b) ==
    LET from[k \in 0 .. Len(os)] ==
          IF k = 0 THEN b ELSE Bytes(os[Len(os) - k + 1]) \o from[k - 1]
    IN from

\* What is on the stream from the last k objects of os on: Encode stops where it
\* panics, and its callers send what there is (sync.go, data.go); a body follows when
\* all went well.
Sent(os, b) ==
    LET from[k \in 0 .. Len(os)] ==
          IF k = 0 THEN b
          ELSE LET x == os[Len(os) - k + 1]
               IN IF Panics(x) THEN Bytes(x) ELSE Bytes(x) \o from[k - 1]
    IN from

ASSUME ObjectAssumption ==
    /\ Body \subseteq Seq(Nat)
    /\ \A c \in Call : /\ Len(c) \in Nat \ {0}
                       /\ \A i \in 1 .. Len(c) : Bytes(c[i]) \in Seq(Nat)

\* An object alone is read back from its bytes, whatever has arrived of what follows
\* them here, and from no part of them; from what was written of one that panics
\* nothing is read.
ASSUME CodeAssumption ==
    \A c \in Call : \A b \in Body : \A i \in 1 .. Len(c) :
      IF Panics(c[i])
      THEN \A p \in Prefixes(Bytes(c[i])) : ~Reader(c[i][1], p).ok
      ELSE /\ \A p \in Prefixes(Bytes(c[i])) :
                p # Bytes(c[i]) => ~Reader(c[i][1], p).ok
           /\ \A p \in Prefixes(Sent(c, b)[Len(c) - i]) :
                LET r == Reader(c[i][1], Bytes(c[i]) \o p)
                IN r.ok /\ r.v = Value(c[i]) /\ r.rest = p

VARIABLES
    objs,    \* the objects
    body,    \* what follows them
    pc,      \* "encode", "decode", and then what Decode returns: "ok" or "error"
    flight,  \* bytes on their way
    inbox,   \* bytes that have arrived and are not read yet
    cut,     \* the connection broke
    got      \* the values read

vars == <<objs, body, pc, flight, inbox, cut, got>>

-----------------------------------------------------------------------------

Encode ==
    /\ pc = "encode" /\ pc' = "decode"
    /\ flight' = Sent(objs, body)[Len(objs)]
    /\ UNCHANGED <<objs, body, inbox, cut, got>>

\* Bytes arrive in pieces.
Deliver ==
    \E n \in 1 .. Len(flight) :
      /\ inbox' = inbox \o SubSeq(flight, 1, n)
      /\ flight' = SubSeq(flight, n + 1, Len(flight))
      /\ UNCHANGED <<objs, body, pc, cut, got>>

\* The connection breaks.
Cut ==
    /\ flight # <<>> /\ flight' = <<>> /\ cut' = TRUE
    /\ UNCHANGED <<objs, body, pc, inbox, got>>

\* The object that Decode is at.
First == Reader(objs[Len(got) + 1][1], inbox)

\* Decode of one object, once its bytes are there.
Decode ==
    /\ pc = "decode" /\ First.ok
    /\ got' = Append(got, First.v) /\ inbox' = First.rest
    /\ pc' = IF Len(got') = Len(objs) THEN "ok" ELSE "decode"
    /\ UNCHANGED <<objs, body, flight, cut>>

\* Fault: what has arrived is taken for all there is.
DecodeGivesUp ==
    /\ pc = "decode" /\ ~First.ok
    /\ pc' = "error"
    /\ UNCHANGED <<objs, body, flight, inbox, cut, got>>

\* The stream ends before the object does.
DecodeFails ==
    /\ pc = "decode" /\ ~First.ok /\ flight = <<>>
    /\ pc' = "error"
    /\ UNCHANGED <<objs, body, flight, inbox, cut, got>>

Init ==
    /\ objs \in Call /\ body \in Body
    /\ pc = "encode" /\ flight = <<>> /\ inbox = <<>> /\ cut = FALSE /\ got = <<>>

Returned == pc \in {"ok", "error"} /\ UNCHANGED vars

Next == Encode \/ Deliver \/ Cut \/ Decode \/ DecodeFails \/ Returned

Spec == Init /\ [][Next]_vars
-----------------------------------------------------------------------------
(* What must hold.                                                         *)

\* What is read is what was written, object by object, wherever the connection breaks:
\* an early end never makes a value of a part of one.
ReadsWhatWasWritten ==
    \A i \in 1 .. Len(got) : got[i] = Value(objs[i])

\* Every object could be written.
Sendable == \A i \in 1 .. Len(objs) : ~Panics(objs[i])

\* Decode succeeds having read all the objects and not one byte of what follows, and
\* fails only when the connection broke or Encode had failed, though nobody told it.
EndIsNoticed ==
    /\ pc = "ok" => /\ Len(got) = Len(objs) /\ Sendable
                    /\ IF cut THEN IsPrefix(inbox, body) ELSE inbox \o flight = body
    /\ pc = "error" => cut \/ ~Sendable
=============================================================================
