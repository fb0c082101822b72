-------------------------------- MODULE MCWire --------------------------------
(* Values of every kind, of words of five bits in groups of two.              *)
EXTENDS Wire, Codec

Plain(kind) == [kind |-> kind, of |-> <<>>, size |-> 0]
Of(kind, types) == [kind |-> kind, of |-> types, size |-> 2]

UInt == Plain("uint")
SInt == Plain("int")
Bool == Plain("bool")
Str == Plain("string")
Field == Of("struct", <<SInt, Plain("hidden"), Str>>)

Numbers == ({UInt} \X Word) \cup ({SInt} \X Signed) \cup ({Bool} \X BOOLEAN)
Strings == {Str} \X {<<>>, <<0>>, <<7, 3, 5>>, <<1, 2, 3, 4, 5>>}
Others == {
    <<Of("slice", <<UInt>>), <<31, 0, 4>>>>, <<Of("slice", <<Str>>), <<>>>>,
    <<Of("slice", <<Of("slice", <<SInt>>)>>), <<<<>>, <<-16, 15>>, <<-1>>>>>>,
    <<Of("array", <<SInt>>), <<-3, 9>>>>, <<Of("ptr", <<UInt>>), <<17>>>>,
    <<Of("ptr", <<UInt>>), <<>>>>, <<Plain("float"), 1>>,
    <<Field, <<-16, 3, <<6, 6>>>>>>, <<Of("ptr", <<Field>>), <<<<5, 0, <<>>>>>>>>,
    <<Of("slice", <<Of("ptr", <<SInt>>)>>), <<<<7>>, <<>>>>>>,
    <<Of("map", <<UInt, SInt>>), <<>>>>, <<Of("map", <<UInt, SInt>>), <<<<9, -9>>, <<2, 8>>>>>>,
    <<Of("map", <<UInt, SInt>>), <<<<2, 8>>, <<9, -9>>>>>>,
    <<Of("map", <<Str, Of("slice", <<UInt>>)>>), <<<<<<1>>, <<4, 4>>>>, <<<<>>, <<>>>>>>>>}

Single == {<<x>> : x \in Numbers \cup Strings \cup Others}
Double == {<<x, y>> : x \in Others \cup Strings, y \in Others \cup Strings}
Calls == Single \cup Double
Bodies == {<<>>, <<7, 0>>}
=============================================================================
