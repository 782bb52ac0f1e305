------------------------------- MODULE CodecWire -------------------------------
(***************************************************************************)
(* A message between its writer and its reader.  It is written by             *)
(* write_to_bytes; what the protobuf format leaves to the writer may differ   *)
(* when it arrives, as if another version or another implementation had        *)
(* written it: fields the reader does not know, another order of the fields,   *)
(* elements that were not packed, an older value of a field before its last.   *)
(* That writer is not in the repository: its steps are bounded by MaxChanges.  *)
(***************************************************************************)
EXTENDS Codec

CONSTANTS Messages,       \* a sequence of [ty |-> a type, values |-> its values]
          UnknownFields,  \* fields of numbers no type has
          MaxChanges

VARIABLES type, 
          val,      \* the value that was written
          wire,     \* the bytes of every field of the message
          changes

vars == <<type, val, wire, changes>>

Bytes == FlattenSeq(wire)

\* the bytes of every field, for the outermost message
RECURSIVE SplitFields(_)
SplitFields(bytes) ==
    IF bytes = <<>> THEN <<>>
    ELSE LET rest == NextField(bytes)[1][2]
         IN <<SubSeq(bytes, 1, Len(bytes) - Len(rest))>> \o SplitFields(rest)

FieldOf(chunk) == NextField(chunk)[1][1]
NumOf(chunk) == FieldOf(chunk).num
ChunkOf(num, wiretype, bytes) == Tag(num, wiretype) \o bytes

Init == /\ \E i \in DOMAIN Messages : LET m == Messages[i] IN type = m.ty /\ val \in m.values
        /\ wire = SplitFields(WriteToBytes(type, val))
        /\ changes = 0

Change(w) == /\ changes < MaxChanges
             /\ wire' = w
             /\ changes' = changes + 1
             /\ UNCHANGED <<type, val>>

Extend(i, chunk) == Change(InsertAt(wire, i, chunk))

Swap(i) == /\ i < Len(wire) /\ NumOf(wire[i]) # NumOf(wire[i + 1])
           /\ Change([wire EXCEPT ![i] = wire[i + 1], ![i + 1] = wire[i]])

\* a packed field, written as a field for each of its elements
PackedType(num) ==
    IF type.k = "vec" THEN type
    ELSE IF type.k \in {"struct", "oneof"} /\ SlotsOf(type, num) # {}
      THEN type.slots[CHOOSE i \in SlotsOf(type, num) : TRUE].ty
    ELSE Unit
Elements(chunk) ==
    LET T == PackedType(NumOf(chunk)).of
        kinds == PackedKinds(WireType(T), FieldOf(chunk).kind.bytes)[1]
        element(k) == CASE k.wire = "varint" -> Varint(k.n)
                        [] k.wire = "i32" -> LittleEndian(k.n, Bytes32)
                        [] k.wire = "i64" -> LittleEndian(k.n, Bytes64)
    IN [i \in DOMAIN kinds |-> ChunkOf(NumOf(chunk), WireType(T), element(kinds[i]))]
Unpack(i) == LET T == PackedType(NumOf(wire[i]))
             IN /\ T.k = "vec" /\ CanBePacked(T.of) /\ FieldOf(wire[i]).kind.wire = "len"
                /\ Change(SubSeq(wire, 1, i - 1) \o Elements(wire[i])
                          \o SubSeq(wire, i + 1, Len(wire)))

\* an older value of a field, or an older variant, before the one that holds
OlderValues(T) == CASE CanBePacked(T) -> {0, 1}
                    [] T.k = "bytes" -> {<<>>, <<Msb>>}
                    [] T.k \in {"array", "unit"} -> {DecodeDefault(T)}
                    [] OTHER -> {}
Supersede(slot, x) ==
    /\ \/ type.k = "oneof" /\ wire # <<>>
       \/ \E j \in DOMAIN wire : NumOf(wire[j]) = slot.num
    /\ Change(<<Encode(slot.ty, x, FieldOpt(slot.num))>> \o wire)

Next == \/ \E i \in 1 .. Len(wire) + 1, chunk \in UnknownFields : Extend(i, chunk)
        \/ \E i \in DOMAIN wire : Swap(i) \/ Unpack(i)
        \/ /\ type.k \in {"struct", "oneof"}
           /\ \E i \in DOMAIN type.slots :
                 \E x \in OlderValues(type.slots[i].ty) : Supersede(type.slots[i], x)

Spec == Init /\ [][Next]_vars

-----------------------------------------------------------------------------
(* Whoever wrote it, in whatever order: parse_from_bytes of the message is the
   value write_to_bytes was called on. *)
ReadsBack == ParseFromBytes(type, Bytes) = Ok(val)

(* encoded_size is the length of what encode then writes, for a message, a field and a
   nested field: "the size that get's computed in encoded_size must be the same as we get
   here" (encode.rs).  The size stands in the header of a field before its bytes: one that
   is wrong moves every field behind it. *)
SizeExact ==
    changes = 0 => \A f \in {NoField, FieldOpt(1), NestedField(1)} :
        EncodedSize(type, val, f) = Len(Encode(type, val, f))

(* A message that was cut is not taken for a shorter one, except between two fields. *)
CutIsAnError ==
    \A n \in 0 .. Len(Bytes) :
        ParseFromBytes(type, SubSeq(Bytes, 1, n)) # Err
            => \E i \in 0 .. Len(wire) : Len(FlattenSeq(SubSeq(wire, 1, i))) = n
================================================================================
