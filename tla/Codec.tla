--------------------------------- MODULE Codec ---------------------------------
(***************************************************************************)
(* The protobuf encoding of protopuffer and of the impls its derive macros   *)
(* generate: varints, fields, the size that is computed before a field is     *)
(* written, and merging fields into a value.  A type is a record, a value is  *)
(* a number (bool, integers, floats by their bits), a sequence of bytes, of   *)
(* elements, of slots; an Option is a sequence of at most one, an enum with    *)
(* fields a slot per variant of which one is taken.  A Result is a sequence:   *)
(* Ok(x) of one, Err of none.                                                *)
(***************************************************************************)
EXTENDS Integers, Sequences, SequencesExt, FiniteSetsExt

CONSTANTS GroupBits,            \* 7: bits of a number in one byte of a varint
          Width32, Width64,     \* bits of the integers
          Bytes32, Bytes64      \* bytes of the fixed wire types

ASSUME WidthAssumption == /\ {GroupBits, Width32, Width64, Bytes32, Bytes64} \subseteq Nat \ {0}
                          /\ GroupBits >= 3 /\ Width32 < Width64

Ok(x) == <<x>>
Err == <<>>
Try(r, Then(_)) == IF r = Err THEN Err ELSE Then(r[1])          \* the ? operator

Total(sizes) == FoldLeft(LAMBDA sum, n : sum + n, 0, sizes)
Rest(bytes, n) == SubSeq(bytes, n + 1, Len(bytes))

-----------------------------------------------------------------------------
(* Varints: least significant group first, all but the last with the high bit *)

Msb == 2^GroupBits
Groups == (Width64 + GroupBits - 1) \div GroupBits              \* 10

RECURSIVE Varint(_)
Varint(n) == IF n < Msb THEN <<n>> ELSE <<Msb + (n % Msb)>> \o Varint(n \div Msb)

BitsOf(n) == CHOOSE b \in 0 .. Width64 : n < 2^b /\ (b = 0 \/ n >= 2^(b - 1))
\* mutant: rounded down
SizeRoundedDown(n) == Max({1, BitsOf(n) \div GroupBits})
\* The quotient in f32 is exact for multiples of 7 and else a seventh or more from the next
\* integer, for up to 64 bits: its ceil is that of the division in integers.
VarintSize(n) == Max({1, (BitsOf(n) + GroupBits - 1) \div GroupBits})

\* Ok(<<the number, the bytes behind it>>); bits over the width are shifted out
ReadVarint(bytes) ==
    LET ends == {i \in 1 .. Groups : i <= Len(bytes) /\ bytes[i] < Msb}
        n == Min(ends)
        value == Total([i \in 1 .. n |-> (bytes[i] % Msb) * Msb^(i - 1)])
    IN IF ends = {} THEN Err ELSE Ok(<<value % 2^Width64, Rest(bytes, n)>>)

LittleEndian(n, count) == [i \in 1 .. count |-> (n \div (2 * Msb)^(i - 1)) % (2 * Msb)]
FromLittleEndian(bytes) == Total([i \in 1 .. Len(bytes) |-> bytes[i] * (2 * Msb)^(i - 1)])

-----------------------------------------------------------------------------
(* Types *)

Leaf(k) == [k |-> k]
ByteArray(len) == [k |-> "array", len |-> len]
Vec(T) == [k |-> "vec", of |-> T]
Opt(T) == [k |-> "option", of |-> T]
Slot(num, T) == [num |-> num, ty |-> T]
Struct(slots) == [k |-> "struct", slots |-> slots]
\* a tuple behaves the same way as a struct, with fields counted from 0
Tuple(types) == Struct([i \in 1 .. Len(types) |-> Slot(i - 1, types[i])])
HashMap(K, V) == [k |-> "map", of |-> Tuple(<<K, V>>)]
Enum(nums) == [k |-> "enum", nums |-> nums]
Oneof(slots, default) == [k |-> "oneof", slots |-> slots, default |-> default]

\* a variant without a field, written as an empty field
Unit == Leaf("unit")

VarintKinds == {"bool", "u32", "i32", "u64", "i64", "enum", "zigzag32"}
WireType(T) == CASE T.k \in VarintKinds -> "varint"
                 [] T.k \in {"f32", "sfixed32"} -> "i32"
                 [] T.k = "f64" -> "i64"
                 [] OTHER -> "len"
AsNum(wire) == CASE wire = "varint" -> 0 [] wire = "i64" -> 1
                 [] wire = "len" -> 2    [] wire = "i32" -> 5
CanBePacked(T) == WireType(T) # "len"
Repeats(T) == T.k \in {"vec", "option", "map"}

FixedBits(wire) == (GroupBits + 1) * (IF wire = "i32" THEN Bytes32 ELSE Bytes64)
NegativeZero(T) == 2^(FixedBits(WireType(T)) - 1)               \* of a float: -0.0 == 0.0

IsDefault(T, v) ==
    CASE T.k \in {"f32", "f64"} -> v \in {0, NegativeZero(T)}
      [] CanBePacked(T) -> v = 0
      [] Repeats(T) \/ T.k \in {"bytes", "array"} -> v = <<>>
      [] OTHER -> FALSE

\* the cast of an i32 to u64 extends its sign
AsU64(v) == v % 2^Width64
Signed(n, width) == LET m == n % 2^width IN IF m < 2^(width - 1) THEN m ELSE m - 2^width

\* sint32, as protobuf defines it: protopuffer only decodes it (ZigZag), as it does
\* sfixed32 (Fixed); their encoders below are another writer's
ToZigZag(v) == IF v >= 0 THEN 2 * v ELSE -2 * v - 1
\* (num >> 1) ^ -(num & 1), on a signed number
FromZigZag(n, width) ==
    LET num == Signed(n, width)
    IN IF num % 2 = 0 THEN num \div 2 ELSE -(num \div 2) - 1

-----------------------------------------------------------------------------
(* encoded_size: SizeBuilder counts what encode will write *)

NoField == [num |-> -1, is_nested |-> FALSE]
FieldOpt(num) == [num |-> num, is_nested |-> FALSE]
NestedField(num) == [num |-> num, is_nested |-> TRUE]
FieldOr1(f) == IF f = NoField THEN FieldOpt(1) ELSE f

TagSize(num) == VarintSize(num * 8)
LenField(num, size) == TagSize(num) + VarintSize(size) + size

IsPacked(T, v) == T.k = "vec" /\ CanBePacked(T.of) /\ Len(v) > 1

RECURSIVE EncodedSize(_, _, _)

\* [V], HashMap, Option: a field per element, or one packed, or as a message in a field
SizeRepeated(T, v, f) ==
    LET field == FieldOr1(f)
    IN IF field.is_nested
         THEN LenField(field.num, EncodedSize(T, v, NoField))
       ELSE IF IsPacked(T, v)
         THEN LenField(field.num, Total([i \in DOMAIN v |-> EncodedSize(T.of, v[i], NoField)]))
       ELSE Total([i \in DOMAIN v |-> EncodedSize(T.of, v[i], NestedField(field.num))])

SizeStruct(T, v, f) ==
    LET slot(i) == IF IsDefault(T.slots[i].ty, v[i]) THEN 0
                   ELSE EncodedSize(T.slots[i].ty, v[i], FieldOpt(T.slots[i].num))
        fields_size == Total([i \in DOMAIN v |-> slot(i)])
    IN IF f = NoField THEN fields_size ELSE LenField(f.num, fields_size)

Taken(v) == CHOOSE i \in DOMAIN v : v[i] # <<>>
SizeOneof(T, v, f) ==
    LET s == T.slots[Taken(v)]
        size == EncodedSize(s.ty, v[Taken(v)][1], FieldOpt(s.num))
    IN IF f = NoField THEN size ELSE LenField(f.num, size)

SizeBytes(v, f) == IF f = NoField THEN Len(v) ELSE LenField(f.num, Len(v))

SizeNumber(T, v, f) ==
    (IF f = NoField THEN 0 ELSE TagSize(f.num))
    + (CASE WireType(T) = "i32" -> Bytes32
         [] WireType(T) = "i64" -> Bytes64
         [] T.k = "zigzag32" -> VarintSize(ToZigZag(v))
         [] OTHER -> VarintSize(AsU64(v)))

EncodedSize(T, v, f) ==
    CASE Repeats(T) -> SizeRepeated(T, v, f)
      [] T.k = "struct" -> SizeStruct(T, v, f)
      [] T.k = "oneof" -> SizeOneof(T, v, f)
      [] T.k \in {"bytes", "array", "unit"} -> SizeBytes(v, f)
      [] OTHER -> SizeNumber(T, v, f)

-----------------------------------------------------------------------------
(* encode: what MessageEncoder writes *)

Tag(num, wire) == Varint((num * 8 + AsNum(wire)) % 2^Width64)
LenHeader(num, size) == Tag(num, "len") \o Varint(size)

RECURSIVE Encode(_, _, _)

EncodeRepeated(T, v, f) ==
    LET field == FieldOr1(f)
    IN IF field.is_nested
         THEN LenHeader(field.num, EncodedSize(T, v, NoField)) \o Encode(T, v, NoField)
       ELSE IF IsPacked(T, v)
         THEN LenHeader(field.num, Total([i \in DOMAIN v |-> EncodedSize(T.of, v[i], NoField)]))
              \o FlattenSeq([i \in DOMAIN v |-> Encode(T.of, v[i], NoField)])
       ELSE FlattenSeq([i \in DOMAIN v |-> Encode(T.of, v[i], NestedField(field.num))])

EncodeStruct(T, v, f) ==
    LET slot(i) == IF IsDefault(T.slots[i].ty, v[i]) THEN <<>>
                   ELSE Encode(T.slots[i].ty, v[i], FieldOpt(T.slots[i].num))
    IN (IF f = NoField THEN <<>> ELSE LenHeader(f.num, SizeStruct(T, v, NoField)))
       \o FlattenSeq([i \in DOMAIN v |-> slot(i)])

EncodeOneof(T, v, f) ==
    LET s == T.slots[Taken(v)]
    IN (IF f = NoField THEN <<>> ELSE LenHeader(f.num, SizeOneof(T, v, NoField)))
       \o Encode(s.ty, v[Taken(v)][1], FieldOpt(s.num))

EncodeBytes(v, f) == (IF f = NoField THEN <<>> ELSE LenHeader(f.num, Len(v))) \o v

EncodeNumber(T, v, f) ==
    (IF f = NoField THEN <<>> ELSE Tag(f.num, WireType(T)))
    \o (CASE WireType(T) = "i32" -> LittleEndian(v, Bytes32)
          [] WireType(T) = "i64" -> LittleEndian(v, Bytes64)
          [] T.k = "zigzag32" -> Varint(ToZigZag(v))
          [] OTHER -> Varint(AsU64(v)))

Encode(T, v, f) ==
    CASE Repeats(T) -> EncodeRepeated(T, v, f)
      [] T.k = "struct" -> EncodeStruct(T, v, f)
      [] T.k = "oneof" -> EncodeOneof(T, v, f)
      [] T.k \in {"bytes", "array", "unit"} -> EncodeBytes(v, f)
      [] OTHER -> EncodeNumber(T, v, f)

-----------------------------------------------------------------------------
(* MessageDecoder: fields, and kinds of one wire type behind one another *)

NumberKind(wire, n) == [wire |-> wire, n |-> n, bytes |-> <<>>]
LenKind(bytes) == [wire |-> "len", n |-> 0, bytes |-> bytes]

\* mutant: as many as there are
ReadBytesThere(bytes, n) == LET m == Min({n, Len(bytes)})
                            IN Ok(<<SubSeq(bytes, 1, m), Rest(bytes, m)>>)
ReadBytes(bytes, n) == IF n > Len(bytes) THEN Err
                       ELSE Ok(<<SubSeq(bytes, 1, n), Rest(bytes, n)>>)

\* Ok(<<kind, the bytes behind it>>)
NextKind(wire, bytes) ==
    LET fixed(n) == Try(ReadBytes(bytes, n),
                        LAMBDA r : Ok(<<NumberKind(wire, FromLittleEndian(r[1])), r[2]>>))
    IN CASE wire = "varint" -> Try(ReadVarint(bytes),
                                   LAMBDA r : Ok(<<NumberKind(wire, r[1]), r[2]>>))
         [] wire = "i32" -> fixed(Bytes32)
         [] wire = "i64" -> fixed(Bytes64)
         [] wire = "len" -> Try(ReadVarint(bytes),
                                LAMBDA r : Try(ReadBytes(r[2], r[1]),
                                LAMBDA b : Ok(<<LenKind(b[1]), b[2]>>)))

FromTag(tag) == LET of == {w \in {"varint", "i32", "i64", "len"} : AsNum(w) = tag % 8}
                IN IF of = {} THEN Err ELSE Ok(CHOOSE w \in of : TRUE)

NextField(bytes) ==
    Try(ReadVarint(bytes), LAMBDA t :
    Try(FromTag(t[1]), LAMBDA wire :
    Try(NextKind(wire, t[2]), LAMBDA k :
        Ok(<<[num |-> t[1] \div 8, kind |-> k[1]], k[2]>>))))

\* all fields of a message, or an error: that the code merges a field before it reads the
\* next one shows only in which of two errors it returns
RECURSIVE Fields(_)
Fields(bytes) ==
    IF bytes = <<>> THEN Ok(<<>>)
    ELSE Try(NextField(bytes), LAMBDA r :
         Try(Fields(r[2]), LAMBDA more : Ok(<<r[1]>> \o more)))

RECURSIVE PackedKinds(_, _)
PackedKinds(wire, bytes) ==
    IF bytes = <<>> THEN Ok(<<>>)
    ELSE Try(NextKind(wire, bytes), LAMBDA r :
         Try(PackedKinds(wire, r[2]), LAMBDA more : Ok(<<r[1]>> \o more)))

UnwrapLen(kind) == IF kind.wire = "len" THEN Ok(kind.bytes) ELSE Err

-----------------------------------------------------------------------------
(* DecodeMessage: merging a kind into a value *)

RECURSIVE DecodeDefault(_)
DecodeDefault(T) ==
    CASE T.k = "struct" -> [i \in DOMAIN T.slots |-> DecodeDefault(T.slots[i].ty)]
      [] T.k = "oneof" -> [i \in DOMAIN T.slots |-> IF i = T.default
                             THEN <<DecodeDefault(T.slots[i].ty)>> ELSE <<>>]
      [] T.k = "array" -> [i \in 1 .. T.len |-> 0]
      [] CanBePacked(T) -> 0
      [] OTHER -> <<>>

MergeAll(items, v, Step(_, _)) ==
    FoldLeft(LAMBDA acc, x : Try(acc, LAMBDA w : Step(w, x)), Ok(v), items)
MergeFields(kind, v, Step(_, _)) ==
    Try(UnwrapLen(kind), LAMBDA b : Try(Fields(b), LAMBDA fs : MergeAll(fs, v, Step)))

MergeNumber(T, kind) ==
    IF kind.wire # WireType(T) THEN Err
    ELSE Ok(CASE T.k = "bool" -> IF kind.n = 0 THEN 0 ELSE 1
              [] T.k = "u32" -> kind.n % 2^Width32
              [] T.k = "i32" -> Signed(kind.n, Width32)
              [] T.k = "i64" -> Signed(kind.n, Width64)
              [] T.k = "enum" -> IF kind.n \in T.nums THEN kind.n ELSE 0
              [] T.k = "zigzag32" -> FromZigZag(kind.n, Width32)
              [] T.k = "sfixed32" -> Signed(kind.n, FixedBits("i32"))
              [] OTHER -> kind.n)

RECURSIVE Merge(_, _, _, _)

\* mutant: an element per field
MergeVecElement(T, v, kind) == Try(Merge(T.of, DecodeDefault(T.of), kind, FALSE),
                                   LAMBDA x : Ok(Append(v, x)))
MergeVec(T, v, kind) ==
    LET push(w, k) == Try(Merge(T.of, DecodeDefault(T.of), k, FALSE),
                          LAMBDA x : Ok(Append(w, x)))
    IN IF kind.wire = "len" /\ CanBePacked(T.of)
         THEN Try(PackedKinds(WireType(T.of), kind.bytes), LAMBDA ks : MergeAll(ks, v, push))
         ELSE push(v, kind)

\* HashMap::insert replaces the value of a key that is there
MergeMap(T, v, kind) ==
    Try(Merge(T.of, DecodeDefault(T.of), kind, FALSE),
        LAMBDA e : Ok(Append(SelectSeq(v, LAMBDA x : x[1] # e[1]), e)))

MergeOption(T, v, kind) ==
    Try(Merge(T.of, IF v = <<>> THEN DecodeDefault(T.of) ELSE v[1], kind, FALSE),
        LAMBDA x : Ok(<<x>>))

\* outside of a field: a message of which field 1 repeats
MergeRepeated(T, v, kind, is_field) ==
    CASE ~is_field -> MergeFields(kind, v, LAMBDA w, f :
                          IF f.num # 1 THEN Ok(w) ELSE Merge(T, w, f.kind, TRUE))
      [] T.k = "vec" -> MergeVec(T, v, kind)
      [] T.k = "map" -> MergeMap(T, v, kind)
      [] T.k = "option" -> MergeOption(T, v, kind)

SlotsOf(T, num) == {i \in DOMAIN T.slots : T.slots[i].num = num}

MergeStruct(T, v, kind) ==
    MergeFields(kind, v, LAMBDA w, f :
        IF SlotsOf(T, f.num) = {} THEN Ok(w)
        ELSE LET i == CHOOSE s \in SlotsOf(T, f.num) : TRUE
             IN Try(Merge(T.slots[i].ty, w[i], f.kind, TRUE),
                    LAMBDA x : Ok([w EXCEPT ![i] = x])))

\* of another variant it takes Default::default(), which is decode_default of these types
MergeOneof(T, v, kind) ==
    MergeFields(kind, v, LAMBDA w, f :
        IF SlotsOf(T, f.num) = {} THEN Ok(w)
        ELSE LET i == CHOOSE s \in SlotsOf(T, f.num) : TRUE
                 sub == T.slots[i].ty
                 old == IF w[i] # <<>> THEN w[i][1] ELSE DecodeDefault(sub)
             IN Try(IF sub = Unit THEN Ok(<<>>) ELSE Merge(sub, old, f.kind, TRUE),
                    LAMBDA x : Ok([j \in DOMAIN w |-> IF j = i THEN <<x>> ELSE <<>>])))

Merge(T, v, kind, is_field) ==
    CASE Repeats(T) -> MergeRepeated(T, v, kind, is_field)
      [] T.k = "struct" -> MergeStruct(T, v, kind)
      [] T.k = "oneof" -> MergeOneof(T, v, kind)
      [] T.k = "bytes" -> UnwrapLen(kind)
      [] T.k = "array" -> Try(UnwrapLen(kind), LAMBDA b : IF Len(b) = T.len THEN Ok(b) ELSE Err)
      [] OTHER -> MergeNumber(T, kind)

ParseFromBytes(T, bytes) == Merge(T, DecodeDefault(T), LenKind(bytes), FALSE)
WriteToBytes(T, v) == Encode(T, v, NoField)
================================================================================
