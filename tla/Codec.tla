--------------------------------- MODULE Codec ---------------------------------
(***************************************************************************)
(* Every kind of value that the transfer package writes and reads.  A type *)
(* is a record with its kind and the types it is made of.  A value is a    *)
(* number, a truth value, or a sequence: the bytes of a string, the        *)
(* elements of a slice or an array, the fields of a struct, what a pointer *)
(* points to or <<>> for nil, the <<key, value>> pairs of a map in the     *)
(* order MapKeys has them.  An object is a type and a value of it.         *)
(***************************************************************************)
EXTENDS Varint

\* Where Encode panics.  Not a byte.
Panic == 2 * Base

\* The fields of a struct that are exported.
Visible(t, v) == SelectSeq([i \in 1 .. Len(v) |-> <<t.of[i], v[i]>>],
                           LAMBDA part : part[1].kind # "hidden")

\* What a value is made of, as <<type, value>>.
Parts(t, v) ==
    CASE t.kind = "struct" -> Visible(t, v)
      [] t.kind = "map" -> [i \in 1 .. 2 * Len(v) |->
                              <<t.of[2 - (i % 2)], v[(i + 1) \div 2][2 - (i % 2)]>>]
      [] t.kind \in {"slice", "array", "ptr"} -> [i \in 1 .. Len(v) |-> <<t.of[1], v[i]>>]

-----------------------------------------------------------------------------
(* Encode.                                                                 *)

\* writeAny.  A nil pointer and a kind it does not know make it panic.
RECURSIVE Write(_, _)
Write(t, v) ==
    LET parts == FlattenSeq([i \in DOMAIN Parts(t, v) |->
                               Write(Parts(t, v)[i][1], Parts(t, v)[i][2])])
    IN CASE t.kind = "uint" -> WriteUint(v)
         [] t.kind = "int" -> WriteUint(SignLast(v))
         [] t.kind = "bool" -> WriteUint(IF v THEN 1 ELSE 0)
         [] t.kind = "string" -> WriteUint(Len(v)) \o v
         [] t.kind \in {"slice", "map"} -> WriteUint(Len(v)) \o parts
         [] t.kind \in {"struct", "array"} -> parts
         [] t.kind = "ptr" /\ v # <<>> -> parts
         [] OTHER -> <<Panic>>

\* What is written of an object, and whether Encode panics on it.
BytesOf(x) == LET w == Write(x[1], x[2])
              IN SubSeq(w, 1, SelectInSeq(w \o <<Panic>>, LAMBDA b : b = Panic) - 1)
PanicsOf(x) == Contains(Write(x[1], x[2]), Panic)

-----------------------------------------------------------------------------
(* Decode.                                                                 *)

\* A map made of keys and values that come in turn.
Pairs(v) == {<<v[2 * i - 1], v[2 * i]>> : i \in 1 .. Len(v) \div 2}

\* readAny, and a number of them one after the other.
RECURSIVE Read(_, _), ReadEach(_, _)
Read(t, in) ==
    LET n == Number(in)
        Times(k) == [i \in 1 .. k |-> t.of[1 + ((i - 1) % Len(t.of))]]
    IN CASE t.kind \in {"uint", "int", "bool", "string", "slice", "map"} /\ ~n.ok -> Short
         [] t.kind = "uint" -> n
         [] t.kind = "int" -> Done(SignFirst(n.v), n.rest)
         [] t.kind = "bool" -> Done(n.v # 0, n.rest)
         [] t.kind = "string" -> Take(n.v, n.rest)
         [] t.kind = "slice" -> ReadEach(Times(n.v), n.rest)
         [] t.kind = "map" -> LET r == ReadEach(Times(2 * n.v), n.rest)
                              IN IF r.ok THEN Done(Pairs(r.v), r.rest) ELSE Short
         [] t.kind = "struct" ->
              ReadEach(SelectSeq(t.of, LAMBDA field : field.kind # "hidden"), in)
         [] t.kind = "array" -> ReadEach(Times(t.size), in)
         [] t.kind = "ptr" -> ReadEach(t.of, in)
         [] OTHER -> Short

ReadEach(types, in) ==
    IF types = <<>> THEN Done(<<>>, in)
    ELSE LET first == Read(Head(types), in)
             others == ReadEach(Tail(types), first.rest)
         IN IF first.ok /\ others.ok THEN Done(<<first.v>> \o others.v, others.rest)
            ELSE Short

-----------------------------------------------------------------------------

\* What the reader of a value can tell: not the order of a map, not what is hidden,
\* not that there was a pointer.
RECURSIVE Meaning(_, _)
Meaning(t, v) ==
    LET parts == [i \in DOMAIN Parts(t, v) |->
                    Meaning(Parts(t, v)[i][1], Parts(t, v)[i][2])]
    IN CASE t.kind \in {"uint", "int", "bool", "string"} -> v
         [] t.kind = "map" -> Pairs(parts)
         [] OTHER -> parts

MeaningOf(x) == Meaning(x[1], x[2])
=============================================================================
