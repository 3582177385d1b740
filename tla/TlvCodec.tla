----------------------------- MODULE TlvCodec -----------------------------
(***************************************************************************)
(* The payload encoding, byte by byte: a CBOR map of indefinite length.    *)
(* The firmware builds payloads with ykp_tlv_builder (ykp_packet.c and     *)
(* ykp_cbor.h, a caller's buffer of Cap bytes) and the server reads them   *)
(* with parseTlv and findTlv; the server builds with TlvBuilder, which     *)
(* grows as needed, and the firmware reads with ykp_tlv_find.              *)
(*                                                                         *)
(* A float is its 16 half-precision bits: the rounding of float32 values   *)
(* is not modelled, and neither are signed and 64-bit numbers. Both        *)
(* builders begin with 0xBF, so the branch of ykp_tlv_find for maps of     *)
(* definite length, which neither side sends, is left out.                 *)
(***************************************************************************)
EXTENDS Integers, Sequences, FiniteSetsExt

CONSTANTS Cap,        \* sizeof(tlv_buf) of the firmware's caller
          Types,      \* TLV types used
          Uints, Floats, Texts,  \* values added: numbers, float bits, byte strings
          MaxFields   \* bound: fields of a payload

Byte == 0 .. 255

ASSUME CodecAssumption ==
    /\ Cap \in Nat /\ Cap > 1
    /\ Types \subseteq 1 .. 254
    /\ MaxFields \in Nat

\* Numbers have 32 bits, floats 16; strings are bytes.
ASSUME ValueAssumption ==
    /\ Uints \subseteq Nat /\ \A v \in Uints : v \div 2^24 \in Byte
    /\ Floats \subseteq Nat /\ \A v \in Floats : v < 65536
    /\ Texts \subseteq Seq(Byte)

VARIABLES builder,  \* which side builds: "firmware" or "server"
          buf,      \* the bytes written so far
          fields,   \* history: the fields added, where each starts, what add returned
          sealed    \* has the break byte been written?

vars == <<builder, buf, fields, sealed>>

Break == 255
MapStart == 191   \* 0xBF

-----------------------------------------------------------------------------
(* Encoding.                                                               *)

EncodeKey(type) == IF type < 24 THEN <<type>> ELSE <<24, type>>

EncodeUint(v) ==
    CASE v < 24 -> <<v>>
      [] v >= 24 /\ v <= 255 -> <<24, v>>
      [] v > 255 /\ v <= 65535 -> <<25, v \div 256, v % 256>>
      [] v > 65535 -> <<26, v \div 2^24, (v \div 2^16) % 256, (v \div 256) % 256, v % 256>>

EncodeFloat16(bits) == <<249, bits \div 256, bits % 256>>

\* Header of a byte string (major 64) or text string (major 96) of n bytes.
StringHeader(major, n) == IF n < 24 THEN <<major + n>> ELSE <<major + 24, n % 256>>

\* A field: the bytes of its value's header (or of all of a number), its data.
HeaderOf(kind, v) ==
    CASE kind = "uint" -> EncodeUint(v)
      [] kind = "float" -> EncodeFloat16(v)
      [] kind = "bytes" -> StringHeader(64, Len(v))
      [] kind = "string" -> StringHeader(96, Len(v))

DataOf(kind, v) == IF kind \in {"bytes", "string"} THEN v ELSE <<>>

Room(b) == Cap - Len(b)

\* cbor_write_byte for each byte of s: those that do not fit are dropped.
WriteBytes(b, s) == b \o SubSeq(s, 1, Min({Len(s), Room(b)}))

\* cbor_write_bytes: all of the data or nothing.
WriteData(b, d) == IF Len(d) <= Room(b) THEN b \o d ELSE b

\* ykp_tlv_add_*: key, header and data, each as far as it fits.
ykp_tlv_add(b, type, kind, v) ==
    WriteData(WriteBytes(WriteBytes(b, EncodeKey(type)), HeaderOf(kind, v)), DataOf(kind, v))

\* The same field as TlvBuilder appends it.
Encoding(type, kind, v) == EncodeKey(type) \o HeaderOf(kind, v) \o DataOf(kind, v)

\* ykp_tlv_builder_len: a full buffer loses its last byte to the break.
ykp_tlv_builder_len(b) ==
    IF Len(b) < Cap THEN Append(b, Break) ELSE [b EXCEPT ![Cap] = Break]

-----------------------------------------------------------------------------
(* Decoding.                                                               *)

\* A byte past the end of the buffer counts as zero (undefined & x in the
\* server's code; the firmware never meets it in a payload of TlvBuilder).
At(b, i) == IF i <= Len(b) THEN b[i] ELSE 0

\* Bytes that follow a header with the given additional information.
Following == [info \in 0 .. 31 |->
    CASE info = 24 -> 1 [] info = 25 -> 2 [] info = 26 -> 4 [] info = 27 -> 8
      [] OTHER -> 0]

\* Fault: the length byte of a long string is not counted.
SpanShort(b, i) ==
    LET major == At(b, i) \div 32   info == At(b, i) % 32 IN
    CASE major \in {2, 3} /\ info < 24 -> 1 + info
      [] major \in {2, 3} /\ info = 24 -> 1 + At(b, i + 1)
      [] OTHER -> 1 + Following[info]

\* Size of the value whose header is byte i.
Span(b, i) ==
    LET major == At(b, i) \div 32   info == At(b, i) % 32 IN
    CASE major \in {2, 3} /\ info < 24 -> 1 + info
      [] major \in {2, 3} /\ info = 24 -> 2 + At(b, i + 1)
      [] major \in {2, 3} /\ info = 25 -> 3 + 256 * At(b, i + 1) + At(b, i + 2)
      [] major \in {0, 1} -> 1 + Following[info]
      [] major = 7 /\ info \in {25, 26, 27} -> 1 + Following[info]
      [] OTHER -> 1

\* Where the value of the field at byte i starts, and where the next field does.
ValueAt(b, i) == IF b[i] < 24 THEN i + 1 ELSE i + 2
NextAt(b, i) == ValueAt(b, i) + Span(b, ValueAt(b, i))

\* The field at byte i: its value begins with the header of the value.
Entry(b, i) ==
    [type |-> IF b[i] < 24 THEN b[i] ELSE At(b, i + 1),
     value |-> SubSeq(b, ValueAt(b, i), Min({NextAt(b, i) - 1, Len(b)}))]

\* Fault: only the end of the buffer stops the reader.
StopsAtEnd(b, i) == i > Len(b)

\* Reading stops at the break, at a byte that is no key, or at the end.
Stops(b, i) == i > Len(b) \/ At(b, i) = Break \/ At(b, i) > 24

\* The server's reader: all fields in order.
parseTlv(b) ==
    LET from[i \in 2 .. Len(b) + 1] ==
          IF Stops(b, i) THEN <<>>
          ELSE <<Entry(b, i)>> \o from[Min({NextAt(b, i), Len(b) + 1})]
    IN  IF Len(b) < 2 THEN <<>> ELSE from[2]

findTlv(b, type) ==
    LET tlvs == parseTlv(b)
        hits == {k \in DOMAIN tlvs : tlvs[k].type = type}
    IN  IF hits = {} THEN <<>> ELSE tlvs[Min(hits)].value

\* The firmware's reader: the first field of the type, <<>> if there is none.
ykp_tlv_find(b, type) ==
    LET from[i \in 2 .. Len(b) + 1] ==
          IF Stops(b, i) THEN <<>>
          ELSE IF Entry(b, i).type = type THEN Entry(b, i).value
          ELSE from[Min({NextAt(b, i), Len(b) + 1})]
    IN  IF Len(b) < 2 \/ b[1] # MapStart THEN <<>> ELSE from[2]

\* The number a value stands for (tlvReadUInt32, ykp_tlv_read_uint32).
ReadUint(value) ==
    LET info == value[1] % 32 IN
    CASE info < 24 -> info
      [] info = 24 -> value[2]
      [] info = 25 -> 256 * value[2] + value[3]
      [] info = 26 -> 2^24 * value[2] + 2^16 * value[3] + 256 * value[4] + value[5]
      [] OTHER -> 0

\* The text of a value (tlvReadString).
ReadString(value) ==
    LET info == value[1] % 32
        start == 2 + Following[info]
        n == CASE info < 24 -> info [] info = 24 -> value[2]
               [] info = 25 -> 256 * value[2] + value[3] [] OTHER -> 0
    IN  SubSeq(value, start, Min({start + n - 1, Len(value)}))

-----------------------------------------------------------------------------

Init ==
    /\ builder \in {"firmware", "server"}
    /\ buf = <<MapStart>>
    /\ fields = <<>>
    /\ sealed = FALSE

Field(type, kind, v, ok) ==
    [type |-> type, kind |-> kind, v |-> v, at |-> Len(buf) + 1, ok |-> ok]

FirmwareAdd(type, kind, v) ==
    /\ builder = "firmware" /\ ~ sealed /\ Len(fields) < MaxFields
    /\ buf' = ykp_tlv_add(buf, type, kind, v)
    /\ fields' = Append(fields, Field(type, kind, v, Len(Encoding(type, kind, v)) <= Room(buf)))
    /\ UNCHANGED <<builder, sealed>>

ServerAdd(type, kind, v) ==
    /\ builder = "server" /\ ~ sealed /\ Len(fields) < MaxFields
    /\ buf' = buf \o Encoding(type, kind, v)
    /\ fields' = Append(fields, Field(type, kind, v, TRUE))
    /\ UNCHANGED <<builder, sealed>>

Add(type, kind, v) == FirmwareAdd(type, kind, v) \/ ServerAdd(type, kind, v)

Seal ==
    /\ ~ sealed
    /\ buf' = IF builder = "firmware" THEN ykp_tlv_builder_len(buf) ELSE Append(buf, Break)
    /\ sealed' = TRUE
    /\ UNCHANGED <<builder, fields>>

Next ==
    \/ \E type \in Types :
         \/ \E v \in Uints : Add(type, "uint", v)
         \/ \E v \in Floats : Add(type, "float", v)
         \/ \E v \in Texts : Add(type, "bytes", v) \/ Add(type, "string", v)
    \/ Seal

Spec == Init /\ [][Next]_vars

-----------------------------------------------------------------------------
(* Properties.                                                             *)

TypeOK ==
    /\ builder \in {"firmware", "server"}
    /\ buf \in Seq(Byte)
    /\ builder = "firmware" => Len(buf) <= Cap
    /\ sealed \in BOOLEAN

\* A field both its builder and the break byte left whole: every add up to it
\* returned true, and the break does not overwrite its last byte.
Whole(k) ==
    /\ \A j \in 1 .. k : fields[j].ok
    /\ LET f == fields[k] IN f.at + Len(Encoding(f.type, f.kind, f.v)) - 1 < Len(buf)

FirstOfItsType(k) == \A j \in 1 .. k - 1 : fields[j].type # fields[k].type

Value(f) == HeaderOf(f.kind, f.v) \o DataOf(f.kind, f.v)

\* What the side that did not build the payload finds under a type.
Found(type) ==
    IF builder = "firmware" THEN findTlv(buf, type) ELSE ykp_tlv_find(buf, type)

\* Every whole field that is the first of its type is found by the other side
\* with exactly its own bytes, even when a later field did not fit the
\* firmware's buffer, and numbers and texts decode to what the builder was given.
WholeFieldsSurvive ==
    sealed => \A k \in 1 .. Len(fields) : Whole(k) /\ FirstOfItsType(k) =>
        LET f == fields[k] IN
        /\ Found(f.type) = Value(f)
        /\ f.kind = "uint" => ReadUint(Found(f.type)) = f.v
        /\ f.kind = "string" => ReadString(Found(f.type)) = f.v

\* A payload whose adds all succeeded and that kept room for the break is read
\* as its fields in order and nothing else (the health and sensor services
\* identify repeated types by their order).
ReadsAsBuilt ==
    sealed /\ (\A k \in 1 .. Len(fields) : Whole(k)) =>
        parseTlv(buf) = [k \in 1 .. Len(fields) |->
                            [type |-> fields[k].type, value |-> Value(fields[k])]]
=============================================================================
