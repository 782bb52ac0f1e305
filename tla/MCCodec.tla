-------------------------------- MODULE MCCodec --------------------------------
(***************************************************************************)
(* Types like those of src/protopuffer/src/tests.rs and tests/basic_test.rs   *)
(* and their values, with bytes of four bits, u32 and i32 of four bits and     *)
(* u64 and i64 of eight.  The sint32 are those that ZigZag reads right: it        *)
(* shifts a signed number, so that those of more bits come out wrong.          *)
(***************************************************************************)
EXTENDS CodecWire

Numbers(k) == CASE k = "bool" -> {0, 1}
                [] k = "u32" -> {0, 1, Msb - 1, Msb, 2^Width32 - 1}
                [] k = "u64" -> {0, Msb, 2^Width64 - 1}
                [] k = "i32" -> {-(2^(Width32 - 1)), -1, 0, 2^(Width32 - 1) - 1}
                [] k = "i64" -> {-(2^(Width64 - 1)), -1, 0, 1}
                [] k = "zigzag32" -> -(2^(Width32 - 2)) .. 2^(Width32 - 2) - 1
                [] k = "sfixed32" -> {-(2^(FixedBits("i32") - 1)), -1, 0, 1}
                [] k = "f32" -> {0, 1, 2^FixedBits("i32") - 1}
                [] k = "f64" -> {0, 2^FixedBits("i64") - 1}

RECURSIVE ValuesOf(_)
\* the values of the first n slots
RECURSIVE SlotValues(_, _)
SlotValues(slots, n) == IF n = 0 THEN {<<>>}
                        ELSE {Append(v, x) : v \in SlotValues(slots, n - 1),
                                             x \in ValuesOf(slots[n].ty)}
OneTaken(T, i) == {[j \in DOMAIN T.slots |-> IF j = i THEN <<x>> ELSE <<>>] :
                      x \in ValuesOf(T.slots[i].ty)}
ValuesOf(T) ==
    CASE T.k = "vec" -> LET of == ValuesOf(T.of)
                        IN {<<>>} \cup {<<x>> : x \in of} \cup {<<x, y>> : x, y \in of}
      [] T.k = "option" -> {<<>>} \cup {<<x>> : x \in ValuesOf(T.of)}
      [] T.k = "map" -> LET of == ValuesOf(T.of)
                        IN {<<>>} \cup {<<x>> : x \in of}
                           \cup {<<p[1], p[2]>> : p \in {q \in of \X of : q[1][1] # q[2][1]}}
      [] T.k = "struct" -> SlotValues(T.slots, Len(T.slots))
      [] T.k = "oneof" -> UNION {OneTaken(T, i) : i \in DOMAIN T.slots}
      [] T.k = "enum" -> T.nums
      [] T.k = "unit" -> {<<>>}
      [] T.k = "bytes" -> {<<>>, <<Msb>>, <<0, 1>>}
      [] T.k = "array" -> {[i \in 1 .. T.len |-> b] : b \in {0, Msb}}
      [] OTHER -> Numbers(T.k)

U32 == Leaf("u32")
I32 == Leaf("i32")
Text == Leaf("bytes")

\* the types of basic_test.rs
Test3 == Oneof(<<Slot(1, Text), Slot(2, Unit)>>, 2)
Test4 == Enum({0, 2})
Test2 == Struct(<<Slot(1, Vec(Leaf("bool"))), Slot(2, Test3), Slot(6, HashMap(Leaf("bool"), Test4)),
                  Slot(25, Test4)>>)

Vecs == <<Vec(U32), Vec(I32), Vec(Text), Vec(Vec(Leaf("u64"))), Vec(Opt(Leaf("bool"))),
          Vec(Leaf("f32")), Vec(Leaf("sfixed32")), Vec(Test3)>>
Options == <<Opt(I32), Opt(Opt(U32)), Opt(Vec(U32)), Opt(Text), Opt(Test3)>>
Maps == <<HashMap(Leaf("bool"), Text), HashMap(Text, Test4), HashMap(Leaf("bool"), Vec(Leaf("f64")))>>
Structs == <<Struct(<<>>), Tuple(<<U32, Leaf("u64"), I32>>), Test2,
             Struct(<<Slot(1, Leaf("zigzag32")), Slot(8, ByteArray(2)), Slot(2, Vec(Leaf("bool")))>>),
             Struct(<<Slot(3, Tuple(<<Leaf("bool"), Vec(Leaf("u64"))>>)), Slot(4, Leaf("f64")),
                      Slot(1, Opt(Leaf("i64")))>>)>>
Oneofs == <<Test3, Oneof(<<Slot(1, U32), Slot(5, Text), Slot(9, Test3)>>, 1),
            Oneof(<<Slot(1, Unit), Slot(2, Struct(<<Slot(1, Vec(U32))>>))>>, 1)>>

\* of a variant whose field may be empty
EmptyPayloads == <<Oneof(<<Slot(1, Unit), Slot(2, Vec(U32))>>, 1),
                   Oneof(<<Slot(1, Unit), Slot(2, Opt(U32))>>, 1)>>

Of(types) == FoldLeft(LAMBDA ms, T : Append(ms, [ty |-> T, values |-> ValuesOf(T)]), <<>>, types)
MCMessages == Of(Vecs \o Options \o Maps \o Structs \o Oneofs)
EmptyMessages == Of(EmptyPayloads)

MCUnknownFields == {ChunkOf(7, "varint", <<Msb, 1>>), ChunkOf(30, "len", <<1, Msb>>),
                    ChunkOf(7, "i64", LittleEndian(Msb, Bytes64))}
=============================================================================
