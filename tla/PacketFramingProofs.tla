------------------------ MODULE PacketFramingProofs ------------------------
(***************************************************************************)
(* Lengths are right for every payload, buffer size and claimed length:    *)
(* nothing is stored behind a buffer or read behind a frame, and the       *)
(* server takes every frame the device sends.  The readers, recursive      *)
(* functions of the position in the buffer, give back what was built.      *)
(***************************************************************************)
EXTENDS PacketFraming, SequenceTheorems, WellFoundedInduction, TLAPS

-----------------------------------------------------------------------------
(* The builders.                                                           *)

LEMMA CodecConstants ==
  /\ Cap \in Nat /\ Cap > 1 /\ Types \subseteq 1 .. 254
  /\ \A v \in Uints : v \in Nat /\ v \div 2^24 \in Byte
  /\ \A v \in Floats : v \in Nat /\ v < 65536
  /\ \A v \in Texts : v \in Seq(Byte)
<1>1. Cap \in Nat /\ Cap > 1 /\ Types \subseteq 1 .. 254
  BY CodecAssumption
<1>2. \A v \in Uints : v \in Nat /\ v \div 2^24 \in Byte
  BY ValueAssumption
<1>3. \A v \in Floats : v \in Nat /\ v < 65536
  BY ValueAssumption
<1>4. \A v \in Texts : v \in Seq(Byte)
  BY ValueAssumption
<1> QED BY <1>1, <1>2, <1>3, <1>4

LEMMA MinOfTwo ==
  ASSUME NEW a \in Int, NEW b \in Int
  PROVE  Min({a, b}) = IF a <= b THEN a ELSE b
<1>1. CASE a <= b
  BY <1>1 DEF Min
<1>2. CASE ~ (a <= b)
  BY <1>2 DEF Min
<1> QED BY <1>1, <1>2

LEMMA NoBytes == <<>> \in Seq(Byte) /\ Len(<<>>) = 0
BY EmptySeq, Zenon

\* What fits of s is appended, byte by byte.
LEMMA WriteBytesFits ==
  ASSUME NEW b \in Seq(Byte), NEW s \in Seq(Byte), Len(b) <= Cap
  PROVE  WriteBytes(b, s) \in Seq(Byte) /\ Len(WriteBytes(b, s)) <= Cap
<1> DEFINE n == IF Len(s) <= Cap - Len(b) THEN Len(s) ELSE Cap - Len(b)
<1>1. Len(b) \in Nat /\ Len(s) \in Nat /\ Cap \in Nat
  BY LenProperties, CodecConstants
<1>2. Min({Len(s), Room(b)}) = n
  BY <1>1, MinOfTwo DEF Room
<1>3. n \in Nat /\ n <= Len(s) /\ Len(b) + n <= Cap
  BY <1>1
<1> HIDE DEF n
<1>4. \A i \in 1 .. n : s[i] \in Byte
  BY <1>1, <1>3, ElementOfSeq
<1>5. SubSeq(s, 1, n) \in Seq(Byte) /\ Len(SubSeq(s, 1, n)) = IF 1 <= n THEN n - 1 + 1 ELSE 0
  BY <1>3, <1>4, SubSeqProperties
<1>6. Len(SubSeq(s, 1, n)) = n
  BY <1>3, <1>5
<1>7. /\ b \o SubSeq(s, 1, n) \in Seq(Byte)
      /\ Len(b \o SubSeq(s, 1, n)) = Len(b) + Len(SubSeq(s, 1, n))
  BY <1>5, ConcatProperties
<1> QED BY <1>2, <1>3, <1>6, <1>7 DEF WriteBytes

LEMMA WriteDataFits ==
  ASSUME NEW b \in Seq(Byte), NEW d \in Seq(Byte), Len(b) <= Cap
  PROVE  WriteData(b, d) \in Seq(Byte) /\ Len(WriteData(b, d)) <= Cap
<1>1. Len(b) \in Nat /\ Len(d) \in Nat /\ Cap \in Nat
  BY LenProperties, CodecConstants
<1>2. b \o d \in Seq(Byte) /\ Len(b \o d) = Len(b) + Len(d)
  BY ConcatProperties
<1> QED BY <1>1, <1>2 DEF WriteData, Room

\* The fields a payload is built from.
Values(kind) == CASE kind = "uint" -> Uints [] kind = "float" -> Floats
                  [] kind \in {"bytes", "string"} -> Texts
Kinds == {"uint", "float", "bytes", "string"}

LEMMA KeyBytes == \A type \in Types : EncodeKey(type) \in Seq(Byte)
<1> TAKE type \in Types
<1>1. type \in Byte /\ 24 \in Byte
  BY CodecConstants DEF Byte
<1>2. CASE type < 24
  BY <1>1, <1>2 DEF EncodeKey
<1>3. CASE ~ (type < 24)
  BY <1>1, <1>3 DEF EncodeKey
<1> QED BY <1>2, <1>3

LEMMA UintBytes == \A v \in Uints : EncodeUint(v) \in Seq(Byte)
<1> TAKE v \in Uints
<1>1. v \in Nat /\ v \div 2^24 \in Byte
  BY CodecConstants
<1>2. CASE v < 24
  <2>1. v \in Byte
    BY <1>1, <1>2 DEF Byte
  <2>2. EncodeUint(v) = <<v>>
    BY <1>1, <1>2 DEF EncodeUint
  <2> QED BY <2>1, <2>2
<1>3. CASE v >= 24 /\ v <= 255
  <2>1. v \in Byte /\ 24 \in Byte
    BY <1>1, <1>3 DEF Byte
  <2>2. EncodeUint(v) = <<24, v>>
    BY <1>1, <1>3 DEF EncodeUint
  <2> QED BY <2>1, <2>2
<1>4. CASE v > 255 /\ v <= 65535
  <2>1. v \div 256 \in Byte /\ v % 256 \in Byte /\ 25 \in Byte
    BY <1>1, <1>4 DEF Byte
  <2>2. EncodeUint(v) = <<25, v \div 256, v % 256>>
    BY <1>1, <1>4 DEF EncodeUint
  <2> QED BY <2>1, <2>2
<1>5. CASE v > 65535
  <2>1. /\ v \div 2^24 \in Byte /\ (v \div 2^16) % 256 \in Byte
        /\ (v \div 256) % 256 \in Byte /\ v % 256 \in Byte /\ 26 \in Byte
    BY <1>1 DEF Byte
  <2>2. EncodeUint(v) = <<26, v \div 2^24, (v \div 2^16) % 256, (v \div 256) % 256, v % 256>>
    BY <1>1, <1>5 DEF EncodeUint
  <2> QED BY <2>1, <2>2
<1> QED BY <1>1, <1>2, <1>3, <1>4, <1>5

LEMMA FloatBytes == \A v \in Floats : EncodeFloat16(v) \in Seq(Byte)
<1> TAKE v \in Floats
<1>1. v \in Nat /\ v < 65536
  BY CodecConstants
<1>2. v \div 256 \in Byte /\ v % 256 \in Byte /\ 249 \in Byte
  BY <1>1 DEF Byte
<1> QED BY <1>2 DEF EncodeFloat16

LEMMA HeaderBytes ==
  ASSUME NEW n \in Nat
  PROVE  StringHeader(64, n) \in Seq(Byte) /\ StringHeader(96, n) \in Seq(Byte)
<1>1. CASE n < 24
  <2>1. 64 + n \in Byte /\ 96 + n \in Byte
    BY <1>1 DEF Byte
  <2> QED BY <1>1, <2>1 DEF StringHeader
<1>2. CASE ~ (n < 24)
  <2>1. 64 + 24 \in Byte /\ 96 + 24 \in Byte /\ n % 256 \in Byte
    BY DEF Byte
  <2> QED BY <1>2, <2>1 DEF StringHeader
<1> QED BY <1>1, <1>2

LEMMA StringBytes ==
  \A v \in Texts : StringHeader(64, Len(v)) \in Seq(Byte) /\ StringHeader(96, Len(v)) \in Seq(Byte)
<1> TAKE v \in Texts
<1>1. Len(v) \in Nat
  BY CodecConstants, LenProperties
<1> QED BY <1>1, HeaderBytes, Zenon

LEMMA FieldBytes ==
  ASSUME NEW kind \in Kinds, NEW v \in Values(kind)
  PROVE  HeaderOf(kind, v) \in Seq(Byte) /\ DataOf(kind, v) \in Seq(Byte)
<1>1. CASE kind = "uint"
  BY <1>1, UintBytes, NoBytes DEF Values, HeaderOf, DataOf
<1>2. CASE kind = "float"
  BY <1>2, FloatBytes, NoBytes DEF Values, HeaderOf, DataOf
<1>3. CASE kind \in {"bytes", "string"}
  BY <1>3, StringBytes, CodecConstants DEF Values, HeaderOf, DataOf
<1> QED BY <1>1, <1>2, <1>3 DEF Kinds

\* A field the firmware adds, whole or cut off, stays in its buffer.
LEMMA AddFits ==
  ASSUME NEW b \in Seq(Byte), Len(b) <= Cap,
         NEW type \in Types, NEW kind \in Kinds, NEW v \in Values(kind)
  PROVE  ykp_tlv_add(b, type, kind, v) \in Seq(Byte) /\ Len(ykp_tlv_add(b, type, kind, v)) <= Cap
<1> DEFINE b1 == WriteBytes(b, EncodeKey(type))
           b2 == WriteBytes(b1, HeaderOf(kind, v))
<1>1. b1 \in Seq(Byte) /\ Len(b1) <= Cap
  BY KeyBytes, WriteBytesFits
<1>2. b2 \in Seq(Byte) /\ Len(b2) <= Cap
  <2> HIDE DEF b1
  <2> QED BY <1>1, FieldBytes, WriteBytesFits
<1>3. WriteData(b2, DataOf(kind, v)) \in Seq(Byte) /\ Len(WriteData(b2, DataOf(kind, v))) <= Cap
  <2> HIDE DEF b2
  <2> QED BY <1>2, FieldBytes, WriteDataFits
<1> QED BY <1>3 DEF ykp_tlv_add

\* ... and so does the break that ends the payload.
LEMMA BreakFits ==
  ASSUME NEW b \in Seq(Byte), Len(b) <= Cap
  PROVE  ykp_tlv_builder_len(b) \in Seq(Byte) /\ Len(ykp_tlv_builder_len(b)) <= Cap
<1>1. Len(b) \in Nat /\ Cap \in Nat /\ Cap > 1 /\ Break \in Byte
  BY LenProperties, CodecConstants DEF Break, Byte
<1>2. CASE Len(b) < Cap
  <2>1. Append(b, Break) \in Seq(Byte) /\ Len(Append(b, Break)) = Len(b) + 1
    BY <1>1, AppendProperties
  <2> QED BY <1>1, <1>2, <2>1 DEF ykp_tlv_builder_len
<1>3. CASE ~ (Len(b) < Cap)
  <2>1. Cap \in 1 .. Len(b)
    BY <1>1, <1>3
  <2>2. [b EXCEPT ![Cap] = Break] \in Seq(Byte) /\ Len([b EXCEPT ![Cap] = Break]) = Len(b)
    BY <1>1, <2>1, ExceptSeq
  <2> QED BY <1>3, <2>2 DEF ykp_tlv_builder_len
<1> QED BY <1>2, <1>3

LEMMA AppendBytes ==
  ASSUME NEW b \in Seq(Byte), NEW type \in Types, NEW kind \in Kinds, NEW v \in Values(kind)
  PROVE  b \o Encoding(type, kind, v) \in Seq(Byte)
<1>1. EncodeKey(type) \o HeaderOf(kind, v) \in Seq(Byte)
  BY KeyBytes, FieldBytes, ConcatProperties
<1>2. Encoding(type, kind, v) \in Seq(Byte)
  <2>1. (EncodeKey(type) \o HeaderOf(kind, v)) \o DataOf(kind, v) \in Seq(Byte)
    BY <1>1, FieldBytes, ConcatProperties
  <2> QED BY <2>1 DEF Encoding
<1> QED BY <1>2, ConcatProperties

LEMMA TypeInit == Init => TypeOK
<1> SUFFICES ASSUME Init PROVE TypeOK
  OBVIOUS
<1>1. <<MapStart>> \in Seq(Byte) /\ Len(<<MapStart>>) = 1
  BY DEF MapStart, Byte
<1>2. 1 <= Cap
  BY CodecConstants
<1>3. buf = <<MapStart>> /\ builder \in {"firmware", "server"} /\ sealed = FALSE
  BY Zenon DEF Init
<1> QED BY <1>1, <1>2, <1>3, Zenon DEF TypeOK

LEMMA TypeStep == TypeOK /\ Next => TypeOK'
<1> SUFFICES ASSUME TypeOK, Next PROVE TypeOK'
  OBVIOUS
<1>1. ASSUME NEW type \in Types, NEW kind \in Kinds, NEW v \in Values(kind), Add(type, kind, v)
      PROVE  TypeOK'
  <2>1. CASE FirmwareAdd(type, kind, v)
    BY <2>1, AddFits DEF FirmwareAdd, TypeOK
  <2>2. CASE ServerAdd(type, kind, v)
    BY <2>2, AppendBytes DEF ServerAdd, TypeOK
  <2> QED BY <1>1, <2>1, <2>2 DEF Add
<1>2. CASE Seal
  <2>1. CASE builder = "firmware"
    BY <1>2, <2>1, BreakFits DEF Seal, TypeOK
  <2>2. CASE builder = "server"
    <3>1. Append(buf, Break) \in Seq(Byte)
      BY AppendProperties DEF TypeOK, Break, Byte
    <3> QED BY <1>2, <2>2, <3>1 DEF Seal, TypeOK
  <2> QED BY <2>1, <2>2 DEF TypeOK
<1>3. /\ Values("uint") = Uints /\ Values("float") = Floats
      /\ Values("bytes") = Texts /\ Values("string") = Texts
  BY DEF Values
<1>4. "uint" \in Kinds /\ "float" \in Kinds /\ "bytes" \in Kinds /\ "string" \in Kinds
  BY DEF Kinds
<1> QED BY <1>1, <1>2, <1>3, <1>4, Zenon DEF Next

\* A payload, once begun, is a string of bytes, and the firmware's fits in the
\* buffer its caller gave: every operation of the two builders keeps it so.
THEOREM PayloadTyped == Spec => []TypeOK
<1>1. TypeOK /\ UNCHANGED vars => TypeOK'
  BY DEF TypeOK, vars
<1> QED BY TypeInit, TypeStep, <1>1, PTL DEF Spec

-----------------------------------------------------------------------------
(* The packet.                                                             *)

LEMMA FramingConstants ==
  /\ HeaderSize \in Nat /\ TagSize \in Nat /\ RawSize \in Nat
  /\ StaticBuf \in Nat /\ StackBuf \in Nat
  /\ HeaderSize + Cap + TagSize < 65536 /\ HeaderSize + StaticBuf + TagSize < 65536
  /\ \A n \in Claims \cup Sizes : n \in Nat /\ n < 65536
BY FramingAssumption

\* Up to the largest payload either side holds, the 16-bit sum is the sum.
LEMMA TotalExact ==
  ASSUME NEW n \in Nat, n <= Cap \/ n <= StaticBuf
  PROVE  Total(n) = HeaderSize + n + TagSize
<1>1. Cap \in Nat /\ HeaderSize \in Nat /\ TagSize \in Nat /\ StaticBuf \in Nat
  BY CodecConstants, FramingConstants
<1>2. HeaderSize + n + TagSize \in Nat /\ HeaderSize + n + TagSize < 65536
  BY <1>1, FramingConstants
<1> DEFINE m == HeaderSize + n + TagSize
<1>3. m % 65536 = m
  <2>1. m \in Nat /\ m < 65536
    BY <1>2
  <2> HIDE DEF m
  <2> QED BY <2>1
<1> QED BY <1>3 DEF Total, U16

Stages == {"build", "framed", "received", "open", "dropped"}

\* A frame of the device: its length is that of the payload it carries, which
\* was built in full or left out, and the size agrees with the length.
FromDevice ==
    frame.from = "firmware" =>
        /\ stage \in {"framed", "open"}
        /\ builder = "firmware" /\ sealed
        /\ frame.payload \in {buf, <<>>}
        /\ frame.claims = Len(frame.payload) /\ frame.claims \in Nat
        /\ frame.size = HeaderSize + frame.claims + TagSize
        /\ stage = "open" => got = frame.payload

FrameTyped ==
    /\ stage \in Stages
    /\ frame.claims \in Nat
    /\ stage = "build" => frame.from = "nobody"
    /\ written \in Nat /\ written <= RawSize
    /\ copied \in Nat /\ copied <= StackBuf

FramingInv == TypeOK /\ FrameTyped /\ FromDevice /\ ReadsInside

LEMMA FramingStart == FramingInit => FramingInv
<1> SUFFICES ASSUME FramingInit PROVE FramingInv
  OBVIOUS
<1>1. TypeOK
  BY TypeInit DEF FramingInit
<1>2. /\ stage = "build" /\ frame = NoFrame /\ written = 0 /\ copied = 0
  BY Zenon DEF FramingInit
<1>3. FrameTyped
  BY <1>2, FramingConstants DEF FrameTyped, NoFrame, Stages
<1>4. FromDevice /\ ReadsInside
  BY <1>2 DEF FromDevice, ReadsInside, NoFrame
<1> QED BY <1>1, <1>3, <1>4 DEF FramingInv

LEMMA KeepsPayload == TypeOK /\ UNCHANGED vars => TypeOK'
BY DEF TypeOK, vars

LEMMA StepBuild == FramingInv /\ stage = "build" /\ Next /\ UNCHANGED framingVars => FramingInv'
<1> SUFFICES ASSUME FramingInv, stage = "build", Next, UNCHANGED framingVars PROVE FramingInv'
  OBVIOUS
<1>1. TypeOK'
  BY TypeStep DEF FramingInv
<1>2. UNCHANGED <<stage, frame, written, got, copied>>
  BY Zenon DEF framingVars
<1>3. FrameTyped'
  BY <1>2, Zenon DEF FramingInv, FrameTyped
<1>4. FromDevice' /\ ReadsInside'
  BY <1>2 DEF FramingInv, FrameTyped, FromDevice, ReadsInside
<1> QED BY <1>1, <1>3, <1>4 DEF FramingInv

LEMMA StepSerialise == FramingInv /\ ykp_packet_serialise => FramingInv'
<1> SUFFICES ASSUME FramingInv, ykp_packet_serialise PROVE FramingInv'
  OBVIOUS
<1>1. TypeOK'
  BY KeepsPayload, Zenon DEF FramingInv, ykp_packet_serialise
<1>2. PICK mem \in BOOLEAN :
        LET payload == ykp_packet_set_payload(mem)  n == Len(payload) IN
        IF Total(n) > RawSize
        THEN stage' = "dropped" /\ UNCHANGED <<frame, written>>
        ELSE /\ stage' = "framed"
             /\ written' = HeaderSize + n + TagSize
             /\ frame' = [from |-> "firmware", claims |-> n, size |-> Total(n), payload |-> payload]
  BY Zenon DEF ykp_packet_serialise
<1> DEFINE payload == ykp_packet_set_payload(mem)
           n == Len(payload)
<1>3. /\ UNCHANGED <<builder, buf, fields, sealed>> /\ UNCHANGED <<got, copied>>
      /\ stage = "build" /\ sealed /\ builder = "firmware"
  BY Zenon DEF ykp_packet_serialise, vars
<1>4. payload \in {buf, <<>>} /\ n \in Nat /\ n <= Cap
  <2>1. Len(buf) \in Nat /\ Len(buf) <= Cap /\ Cap \in Nat
    BY <1>3, LenProperties, CodecConstants DEF FramingInv, TypeOK
  <2>2. payload \in {buf, <<>>}
    BY Zenon DEF ykp_packet_set_payload
  <2> HIDE DEF payload
  <2>3. CASE payload = buf
    BY <2>1, <2>3
  <2>4. CASE payload = <<>>
    BY <2>1, <2>4, NoBytes
  <2> QED BY <2>2, <2>3, <2>4
<1>5. Total(n) = HeaderSize + n + TagSize
  <2> HIDE DEF n
  <2> QED BY <1>4, TotalExact
<1> HIDE DEF payload, n
<1>6. CASE Total(n) > RawSize
  <2>1. stage' = "dropped" /\ UNCHANGED <<frame, written>>
    BY <1>2, <1>6 DEF payload, n
  <2>2. FrameTyped'
    BY <1>3, <2>1 DEF FramingInv, FrameTyped, Stages
  <2>3. FromDevice' /\ ReadsInside'
    BY <1>3, <2>1 DEF FramingInv, FrameTyped, FromDevice, ReadsInside
  <2> QED BY <1>1, <2>2, <2>3 DEF FramingInv
<1>7. CASE ~ (Total(n) > RawSize)
  <2>1. /\ stage' = "framed" /\ written' = HeaderSize + n + TagSize
        /\ frame' = [from |-> "firmware", claims |-> n, size |-> Total(n), payload |-> payload]
    BY <1>2, <1>7 DEF payload, n
  <2>2. written' \in Nat /\ written' <= RawSize
    BY <1>4, <1>5, <1>7, <2>1, FramingConstants
  <2>3. FrameTyped'
    BY <1>3, <1>4, <2>1, <2>2 DEF FramingInv, FrameTyped, Stages
  <2>4. FromDevice'
    BY <1>3, <1>4, <1>5, <2>1 DEF FromDevice, n
  <2>5. ReadsInside'
    BY <2>1 DEF ReadsInside
  <2> QED BY <1>1, <2>3, <2>4, <2>5 DEF FramingInv
<1> QED BY <1>6, <1>7

LEMMA StepOthersFrame == FramingInv /\ (buildPacket \/ Stray) => FramingInv'
<1> SUFFICES ASSUME FramingInv, buildPacket \/ Stray PROVE FramingInv'
  OBVIOUS
<1>1. TypeOK'
  BY KeepsPayload, Zenon DEF FramingInv, buildPacket, Stray
<1>2. stage' = "framed" /\ UNCHANGED <<written, copied>>
  BY Zenon DEF buildPacket, Stray
<1>3. frame'.from # "firmware" /\ frame'.claims \in Nat
  <2>1. CASE buildPacket
    <3>1. Len(buf) \in Nat
      BY LenProperties DEF FramingInv, TypeOK
    <3> QED BY <2>1, <3>1 DEF buildPacket
  <2>2. CASE Stray
    <3>1. PICK claims \in Claims, size \in Sizes :
            frame' = [from |-> "stranger", claims |-> claims, size |-> size, payload |-> <<>>]
      BY <2>2, Zenon DEF Stray
    <3>2. claims \in Nat
      BY FramingConstants
    <3> QED BY <3>1, <3>2
  <2> QED BY <2>1, <2>2
<1>4. FrameTyped'
  BY <1>2, <1>3 DEF FramingInv, FrameTyped, Stages
<1>5. FromDevice' /\ ReadsInside'
  BY <1>2, <1>3 DEF FromDevice, ReadsInside
<1> QED BY <1>1, <1>4, <1>5 DEF FramingInv

\* Actions that leave the frame alone and do not take it as received.
LEMMA KeepsFrame ==
  ASSUME FramingInv, UNCHANGED <<vars, frame, written>>, stage' \in Stages \ {"build", "received"},
         copied' \in Nat, copied' <= StackBuf, frame.from # "firmware"
  PROVE  FramingInv'
<1>1. TypeOK'
  BY KeepsPayload, Zenon DEF FramingInv
<1>2. FrameTyped'
  BY DEF FramingInv, FrameTyped, Stages
<1>3. FromDevice' /\ ReadsInside'
  BY DEF FromDevice, ReadsInside
<1> QED BY <1>1, <1>2, <1>3 DEF FramingInv

LEMMA StepParse == FramingInv /\ ykp_packet_parse => FramingInv'
<1> SUFFICES ASSUME FramingInv, ykp_packet_parse PROVE FramingInv'
  OBVIOUS
<1>1. UNCHANGED <<vars, frame, written, copied>> /\ stage = "framed" /\ frame.from # "firmware"
  BY Zenon DEF ykp_packet_parse
<1>2. copied \in Nat /\ copied <= StackBuf /\ frame.claims \in Nat
  BY Zenon DEF FramingInv, FrameTyped
<1>3. CASE validate_header /\ frame.size >= Total(frame.claims) /\ FitsStatic
  <2>1. stage' = "received"
    BY <1>3, Zenon DEF ykp_packet_parse
  <2>2. frame.claims <= StaticBuf
    BY <1>3 DEF FitsStatic
  <2>3. Total(frame.claims) = HeaderSize + frame.claims + TagSize
    BY <1>2, <2>2, TotalExact
  <2>4. HeaderSize + frame.claims + TagSize <= frame.size
    BY <1>3, <2>3
  <2>5. TypeOK'
    BY <1>1, KeepsPayload, Zenon DEF FramingInv
  <2>6. FrameTyped'
    BY <1>1, <2>1 DEF FramingInv, FrameTyped, Stages
  <2>7. FromDevice' /\ ReadsInside'
    BY <1>1, <2>1, <2>2, <2>4 DEF FromDevice, ReadsInside
  <2> QED BY <2>5, <2>6, <2>7 DEF FramingInv
<1>4. CASE ~ (validate_header /\ frame.size >= Total(frame.claims) /\ FitsStatic)
  <2>1. stage' = "dropped"
    BY <1>4, Zenon DEF ykp_packet_parse
  <2>2. copied' \in Nat /\ copied' <= StackBuf
    BY <1>1, <1>2
  <2> QED BY <1>1, <2>1, <2>2, KeepsFrame DEF Stages
<1> QED BY <1>3, <1>4

\* The server's length checks pass on every frame of the device.
LEMMA StepServer == FramingInv /\ parsePacket => FramingInv'
<1> SUFFICES ASSUME FramingInv, parsePacket PROVE FramingInv'
  OBVIOUS
<1>1. UNCHANGED <<vars, frame, written, copied>> /\ stage = "framed" /\ frame.from = "firmware"
  BY Zenon DEF parsePacket
<1>2. frame.claims \in Nat /\ frame.size = HeaderSize + frame.claims + TagSize
  BY <1>1, Zenon DEF FramingInv, FromDevice
<1>3. frame.size >= HeaderSize + TagSize /\ frame.size >= HeaderSize + frame.claims + TagSize
  BY <1>2, FramingConstants
<1>4. stage' = "open" /\ got' = frame.payload
  BY <1>3, Zenon DEF parsePacket
<1>5. TypeOK'
  BY <1>1, KeepsPayload, Zenon DEF FramingInv
<1>6. FrameTyped'
  BY <1>1, <1>4 DEF FramingInv, FrameTyped, Stages
<1>7. FromDevice' /\ ReadsInside'
  BY <1>1, <1>4 DEF FramingInv, FromDevice, ReadsInside, vars
<1> QED BY <1>5, <1>6, <1>7 DEF FramingInv

LEMMA StepReceived == FramingInv /\ (ykp_security_decrypt \/ Plain) => FramingInv'
<1> SUFFICES ASSUME FramingInv, ykp_security_decrypt \/ Plain PROVE FramingInv'
  OBVIOUS
<1>1. UNCHANGED <<vars, frame, written>> /\ stage = "received"
  BY Zenon DEF ykp_security_decrypt, Plain
<1>2. frame.from # "firmware"
  BY <1>1 DEF FramingInv, FromDevice
<1>3. stage' \in Stages \ {"build", "received"}
  BY DEF ykp_security_decrypt, Plain, Stages
<1>4. copied' \in Nat /\ copied' <= StackBuf
  <2>1. copied \in Nat /\ copied <= StackBuf /\ frame.claims \in Nat
    BY Zenon DEF FramingInv, FrameTyped
  <2>2. CASE StackHolds(frame.claims) /\ copied' = frame.claims + TagSize
    BY <2>1, <2>2, FramingConstants DEF StackHolds
  <2>3. CASE UNCHANGED copied
    BY <2>1, <2>3
  <2> QED BY <2>2, <2>3, Zenon DEF ykp_security_decrypt, Plain
<1> QED BY <1>1, <1>2, <1>3, <1>4, KeepsFrame

LEMMA FramingStep == FramingInv /\ [FramingNext]_<<vars, framingVars>> => FramingInv'
<1> SUFFICES ASSUME FramingInv, [FramingNext]_<<vars, framingVars>> PROVE FramingInv'
  OBVIOUS
<1>1. CASE UNCHANGED <<vars, framingVars>>
  <2>1. UNCHANGED vars /\ UNCHANGED <<stage, frame, written, got, copied>>
    BY <1>1, Zenon DEF framingVars
  <2>2. TypeOK'
    BY <2>1, KeepsPayload, Zenon DEF FramingInv
  <2>3. FrameTyped' /\ FromDevice' /\ ReadsInside'
    BY <2>1, Zenon DEF FramingInv, FrameTyped, FromDevice, ReadsInside, vars
  <2> QED BY <2>2, <2>3 DEF FramingInv
<1> QED BY <1>1, StepBuild, StepSerialise, StepOthersFrame, StepParse, StepServer, StepReceived,
           Zenon DEF FramingNext

LEMMA FramingInductive == FramingSpec => []FramingInv
BY FramingStart, FramingStep, PTL DEF FramingSpec

\* Whatever is added to a payload and whatever length a received header claims,
\* the device stores nothing behind the payload buffer, the raw buffer of
\* ykp_packet_serialise or the stack buffer of ykp_security_decrypt, for any
\* sizes of these buffers.
THEOREM BuffersNeverOverrun == FramingSpec => []BuffersHold
<1>1. FramingInv => BuffersHold
  BY DEF FramingInv, TypeOK, FrameTyped, BuffersHold
<1> QED BY <1>1, FramingInductive, PTL

\* A frame ykp_packet_parse accepts holds everything its header announces,
\* although the sum it compares has 16 bits: where that sum wraps, the check
\* against the static buffer refuses the frame.
THEOREM ParserReadsInside == FramingSpec => []ReadsInside
<1>1. FramingInv => ReadsInside
  BY DEF FramingInv
<1> QED BY <1>1, FramingInductive, PTL

LEMMA NothingParsed == parseTlv(<<>>) = <<>>
<1>1. Len(<<>>) = 0 /\ 0 < 2
  BY EmptySeq
<1> QED BY <1>1, Zenon DEF parseTlv

\* The server refuses no frame of the device for its length, and reads in it the
\* fields the device built, or none when set_payload had no memory.
THEOREM ServerReadsEveryFrame == FramingSpec => []ServerReadsDevice
<1>1. FramingInv => ServerReadsDevice
  <2> SUFFICES ASSUME FramingInv, frame.from = "firmware", stage \in {"open", "dropped"}
               PROVE  stage = "open" /\ parseTlv(got) \in {parseTlv(buf), <<>>}
    BY DEF ServerReadsDevice
  <2>1. stage = "open" /\ got = frame.payload /\ frame.payload \in {buf, <<>>}
    BY DEF FramingInv, FromDevice
  <2> QED BY <2>1, NothingParsed, Zenon
<1> QED BY <1>1, FramingInductive, PTL

-----------------------------------------------------------------------------
(* Recursive readers.  Induction is over the least counterexample.         *)

LEMMA Least ==
  ASSUME NEW T \in SUBSET Nat, T # {}
  PROVE  \E n \in T : \A m \in T : n <= m
<1>1. PICK n \in T : \A m \in T : ~ (<<m, n>> \in OpToRel(<, Nat))
  BY NatLessThanWellFounded, WFMin, Zenon
<1>2. \A m \in T : ~ (m < n)
  BY <1>1 DEF OpToRel
<1> QED BY <1>2

LEMMA ByteParts == \A x \in Byte : x \in Nat /\ x \div 32 \in Nat /\ x % 32 \in 0 .. 31
<1> TAKE x \in Byte
<1>1. x \in Nat
  BY DEF Byte
<1> QED BY <1>1

\* Nothing of the buffer is needed behind b[i]: a value is at least one byte.
LEMMA SpanPositive ==
  ASSUME NEW b \in Seq(Byte), NEW i \in Nat \ {0}
  PROVE  Span(b, i) \in Nat /\ Span(b, i) >= 1
<1> DEFINE major == At(b, i) \div 32
           info == At(b, i) % 32
<1>1. \A j \in Nat \ {0} : At(b, j) \in Byte
  BY ElementOfSeq, LenProperties DEF At, Byte
<1>2. At(b, i) \in Byte /\ At(b, i + 1) \in Byte /\ At(b, i + 2) \in Byte
  BY <1>1
<1>3. major \in Nat /\ info \in 0 .. 31
  BY <1>2, ByteParts
<1>4. \A n \in 0 .. 31 : Following[n] \in Nat
  BY DEF Following
<1>5. Following[info] \in Nat
  BY <1>3, <1>4
<1> DEFINE x == At(b, i + 1)  y == At(b, i + 2)  w == Following[info]
<1>6. x \in Nat /\ y \in Nat /\ w \in Nat
  BY <1>2, <1>5, ByteParts
<1>7. Span(b, i) = CASE major \in {2, 3} /\ info < 24 -> 1 + info
      [] major \in {2, 3} /\ info = 24 -> 2 + x
      [] major \in {2, 3} /\ info = 25 -> 3 + 256 * x + y
      [] major \in {0, 1} -> 1 + w
      [] major = 7 /\ info \in {25, 26, 27} -> 1 + w
      [] OTHER -> 1
  BY DEF Span
<1> HIDE DEF major, info, x, y, w
<1>8. Span(b, i) \in {1 + info, 2 + x, 3 + 256 * x + y, 1 + w, 1}
  BY <1>3, <1>7
<1>9. info \in Nat
  BY <1>3
<1> QED BY <1>6, <1>8, <1>9

LEMMA NextFurther ==
  ASSUME NEW b \in Seq(Byte), NEW i \in Nat \ {0}
  PROVE  ValueAt(b, i) \in Nat \ {0} /\ NextAt(b, i) \in Nat /\ NextAt(b, i) > i
<1>1. ValueAt(b, i) \in {i + 1, i + 2}
  BY DEF ValueAt
<1>2. ValueAt(b, i) \in Nat \ {0} /\ ValueAt(b, i) > i
  BY <1>1
<1>3. Span(b, ValueAt(b, i)) \in Nat /\ Span(b, ValueAt(b, i)) >= 1
  BY <1>2, SpanPositive
<1> QED BY <1>2, <1>3 DEF NextAt

\* Where the readers go from byte i.
Onward(b, i) == Min({NextAt(b, i), Len(b) + 1})

LEMMA OnwardFurther ==
  ASSUME NEW b \in Seq(Byte), NEW i \in 2 .. Len(b)
  PROVE  Onward(b, i) \in i + 1 .. Len(b) + 1
<1>1. i \in Nat \ {0} /\ Len(b) \in Nat /\ i <= Len(b)
  BY LenProperties
<1>2. NextAt(b, i) \in Nat /\ NextAt(b, i) > i
  BY <1>1, NextFurther
<1>3. Onward(b, i) = IF NextAt(b, i) <= Len(b) + 1 THEN NextAt(b, i) ELSE Len(b) + 1
  BY <1>1, <1>2, MinOfTwo DEF Onward
<1> QED BY <1>1, <1>2, <1>3

\* The two readers as functions of the byte they are at.
ParseStep(b, f, i) == IF Stops(b, i) THEN <<>> ELSE <<Entry(b, i)>> \o f[Onward(b, i)]
ParseFrom(b) == CHOOSE f : f = [i \in 2 .. Len(b) + 1 |-> ParseStep(b, f, i)]

FindStep(b, type, f, i) ==
    IF Stops(b, i) THEN <<>>
    ELSE IF Entry(b, i).type = type THEN Entry(b, i).value ELSE f[Onward(b, i)]
FindFrom(b, type) == CHOOSE f : f = [i \in 2 .. Len(b) + 1 |-> FindStep(b, type, f, i)]

LEMMA ParseIsFrom == \A b : parseTlv(b) = IF Len(b) < 2 THEN <<>> ELSE ParseFrom(b)[2]
BY Zenon DEF parseTlv, ParseFrom, ParseStep, Onward

LEMMA FindIsFrom ==
  \A b, type : ykp_tlv_find(b, type) =
                 IF Len(b) < 2 \/ b[1] # MapStart THEN <<>> ELSE FindFrom(b, type)[2]
BY Zenon DEF ykp_tlv_find, FindFrom, FindStep, Onward

\* A function that is defined by recursion to higher positions exists.
Step(stop, val, pre, plain, onward, f, i) ==
    IF stop[i] THEN val[i] ELSE IF plain THEN f[onward[i]] ELSE pre[i] \o f[onward[i]]

Climbs(L, stop, onward) == \A i \in 2 .. L : stop[i] \/ onward[i] \in i + 1 .. L

Defines(f, L, stop, val, pre, plain, onward) ==
    f = [i \in 2 .. L |-> Step(stop, val, pre, plain, onward, f, i)]

LEMMA UpwardRecursion ==
  ASSUME NEW L \in Nat, NEW stop, NEW val, NEW pre, NEW plain, NEW onward,
         Climbs(L, stop, onward)
  PROVE  \E f : Defines(f, L, stop, val, pre, plain, onward)
<1> SUFFICES \E f : f = [i \in 2 .. L |-> Step(stop, val, pre, plain, onward, f, i)]
  BY Zenon DEF Defines
<1>0. \A i \in 2 .. L : stop[i] \/ onward[i] \in i + 1 .. L
  BY Zenon DEF Climbs
<1> DEFINE S(f, i) == Step(stop, val, pre, plain, onward, f, i)
           Good(d) == \E f : f = [i \in L - d .. L |-> S(f, i)]
           Bad == {d \in Nat : L - d >= 2 /\ ~ Good(d)}
<1>1. ASSUME L >= 2, Bad # {} PROVE FALSE
  <2>1. PICK d \in Bad : \A e \in Bad : d <= e
    BY <1>1, Least
  <2>2. d \in Nat /\ L - d >= 2 /\ ~ Good(d)
    BY <2>1
  <2>3. CASE d = 0
    <3> DEFINE f == [i \in L .. L |-> val[L]]
    <3>1. stop[L]
      BY <1>0, <1>1
    <3>2. \A i \in L .. L : S(f, i) = val[L]
      <4>1. \A i \in L .. L : i = L
        OBVIOUS
      <4> QED BY <3>1, <4>1 DEF Step
    <3>3. f = [i \in L .. L |-> S(f, i)]
      BY <3>2
    <3>4. Good(0)
      <4>1. L - 0 = L
        OBVIOUS
      <4> HIDE DEF f, S
      <4> QED BY <3>3, <4>1
    <3> QED BY <2>2, <2>3, <3>4
  <2>4. CASE d # 0
    <3> DEFINE n == L - d
    <3>1. d - 1 \in Nat /\ L - (d - 1) = n + 1 /\ n \in 2 .. L - 1 /\ L - (d - 1) >= 2
      BY <2>2, <2>4
    <3>2. d - 1 \notin Bad
      <4>1. \A e \in Bad : ~ (e < d)
        BY <2>1, <2>2
      <4>2. d - 1 < d
        BY <2>2
      <4> HIDE DEF Bad
      <4> QED BY <4>1, <4>2
    <3>3. Good(d - 1)
      BY <3>1, <3>2
    <3>4. PICK g : g = [i \in n + 1 .. L |-> S(g, i)]
      BY <3>1, <3>3
    <3> DEFINE f == [i \in n .. L |-> IF i = n THEN S(g, n) ELSE g[i]]
    <3>5. ASSUME NEW i \in n .. L PROVE f[i] = S(f, i)
      <4>1. S(f, i) = S(g, i)
        <5>1. CASE stop[i]
          BY <5>1 DEF Step
        <5>2. CASE ~ stop[i]
          <6>1. i \in 2 .. L
            BY <3>1
          <6>2. onward[i] \in n + 1 .. L
            BY <1>0, <3>1, <5>2, <6>1
          <6>3. f[onward[i]] = g[onward[i]]
            BY <3>1, <6>2
          <6> HIDE DEF f
          <6> QED BY <6>3 DEF Step
        <5> QED BY <5>1, <5>2
      <4>2. CASE i = n
        <5> HIDE DEF S
        <5> QED BY <4>1, <4>2
      <4>3. CASE i # n
        <5>1. i \in n + 1 .. L
          BY <3>1, <4>3
        <5>2. f[i] = g[i]
          BY <4>3
        <5> HIDE DEF S, f
        <5> QED BY <3>4, <4>1, <5>1, <5>2
      <4> QED BY <4>2, <4>3
    <3>6. f = [i \in n .. L |-> f[i]]
      OBVIOUS
    <3>7. f = [i \in n .. L |-> S(f, i)]
      <4> HIDE DEF f, S
      <4> QED BY <3>5, <3>6
    <3>8. Good(d)
      <4> HIDE DEF f, S
      <4> QED BY <3>7
    <3> QED BY <2>2, <3>8
  <2> QED BY <2>3, <2>4
<1>2. CASE L >= 2
  <2>1. L - 2 \in Nat /\ L - (L - 2) = 2 /\ L - (L - 2) >= 2
    BY <1>2
  <2>2. L - 2 \notin Bad
    BY <1>1, <1>2, Zenon
  <2>3. Good(L - 2)
    <3> HIDE DEF Good
    <3> QED BY <2>1, <2>2
  <2> QED BY <2>1, <2>3
<1>3. CASE ~ (L >= 2)
  <2> DEFINE f == [i \in 2 .. L |-> <<>>]
  <2>1. 2 .. L = {}
    BY <1>3
  <2>2. f = [i \in 2 .. L |-> S(f, i)]
    BY <2>1
  <2> HIDE DEF f
  <2> QED BY <2>2
<1> QED BY <1>2, <1>3

LEMMA OnwardOrStop ==
  ASSUME NEW b \in Seq(Byte), NEW i \in 2 .. Len(b) + 1
  PROVE  Stops(b, i) \/ Onward(b, i) \in i + 1 .. Len(b) + 1
<1>1. Len(b) \in Nat
  BY LenProperties
<1>2. CASE i = Len(b) + 1
  BY <1>1, <1>2 DEF Stops
<1>3. CASE i # Len(b) + 1
  BY <1>1, <1>3, OnwardFurther
<1> QED BY <1>2, <1>3

LEMMA ParseUnfolds ==
  ASSUME NEW b \in Seq(Byte)
  PROVE  ParseFrom(b) = [i \in 2 .. Len(b) + 1 |-> ParseStep(b, ParseFrom(b), i)]
<1> DEFINE L == Len(b) + 1
           stop == [i \in 2 .. L |-> Stops(b, i)]
           val == [i \in 2 .. L |-> <<>>]
           pre == [i \in 2 .. L |-> <<Entry(b, i)>>]
           onward == [i \in 2 .. L |-> Onward(b, i)]
<1>1. L \in Nat
  BY LenProperties
<1>2. Climbs(L, stop, onward)
  BY OnwardOrStop DEF Climbs
<1>3. \A f : \A i \in 2 .. L : Step(stop, val, pre, FALSE, onward, f, i) = ParseStep(b, f, i)
  BY DEF Step, ParseStep
<1> HIDE DEF L, stop, val, pre, onward
<1>4. PICK f : Defines(f, L, stop, val, pre, FALSE, onward)
  BY <1>1, <1>2, UpwardRecursion, Zenon
<1>5. f = [i \in 2 .. L |-> ParseStep(b, f, i)]
  BY <1>3, <1>4 DEF Defines
<1> QED BY <1>5, Zenon DEF ParseFrom, L

LEMMA FindUnfolds ==
  ASSUME NEW b \in Seq(Byte), NEW type
  PROVE  FindFrom(b, type) = [i \in 2 .. Len(b) + 1 |-> FindStep(b, type, FindFrom(b, type), i)]
<1> DEFINE L == Len(b) + 1
           stop == [i \in 2 .. L |-> Stops(b, i) \/ Entry(b, i).type = type]
           val == [i \in 2 .. L |-> IF Stops(b, i) THEN <<>> ELSE Entry(b, i).value]
           onward == [i \in 2 .. L |-> Onward(b, i)]
<1>1. L \in Nat
  BY LenProperties
<1>2. Climbs(L, stop, onward)
  BY OnwardOrStop DEF Climbs
<1>3. \A f : \A i \in 2 .. L : Step(stop, val, val, TRUE, onward, f, i) = FindStep(b, type, f, i)
  BY DEF Step, FindStep
<1> HIDE DEF L, stop, val, onward
<1>4. PICK f : Defines(f, L, stop, val, val, TRUE, onward)
  BY <1>1, <1>2, UpwardRecursion, Zenon
<1>5. f = [i \in 2 .. L |-> FindStep(b, type, f, i)]
  BY <1>3, <1>4 DEF Defines
<1> QED BY <1>5, Zenon DEF FindFrom, L

-----------------------------------------------------------------------------
(* Both readers visit the fields that lie one behind the other.            *)

\* at gives n fields that follow each other from the first on, and the byte
\* behind the last of them.
Visits(b, at, n) ==
    /\ at[1] = 2
    /\ \A k \in 1 .. n + 1 : at[k] \in 2 .. Len(b) + 1
    /\ \A k \in 1 .. n : ~ Stops(b, at[k]) /\ Onward(b, at[k]) = at[k + 1]

Entries(b) == {Entry(b, i) : i \in 2 .. Len(b) + 1}

LEMMA ParseTyped ==
  ASSUME NEW b \in Seq(Byte)
  PROVE  \A i \in 2 .. Len(b) + 1 : ParseFrom(b)[i] \in Seq(Entries(b))
<1> DEFINE L == Len(b) + 1
           P == ParseFrom(b)
           Bad == {d \in Nat : L - d \in 2 .. L /\ P[L - d] \notin Seq(Entries(b))}
<1>1. Len(b) \in Nat /\ L \in Nat
  BY LenProperties
<1>2. ASSUME Bad # {} PROVE FALSE
  <2>1. PICK d \in Bad : \A e \in Bad : d <= e
    BY <1>2, Least
  <2> DEFINE i == L - d
  <2>2. d \in Nat /\ i \in 2 .. L /\ P[i] \notin Seq(Entries(b))
    BY <2>1
  <2>3. P[i] = ParseStep(b, P, i)
    BY <2>2, ParseUnfolds
  <2>4. CASE Stops(b, i)
    <3>1. P[i] = <<>>
      BY <2>3, <2>4, Zenon DEF ParseStep
    <3> QED BY <2>2, <3>1, EmptySeq, Zenon
  <2>5. CASE ~ Stops(b, i)
    <3> DEFINE j == Onward(b, i)
    <3>1. j \in i + 1 .. L
      BY <2>2, <2>5, OnwardOrStop
    <3>2. L - j \in Nat /\ L - j < d /\ L - (L - j) = j /\ j \in 2 .. L
      BY <1>1, <2>2, <3>1
    <3>3. L - j \notin Bad
      <4> HIDE DEF Bad, j
      <4> QED BY <2>1, <2>2, <3>2
    <3>4. P[j] \in Seq(Entries(b))
      <4> HIDE DEF j, P
      <4> QED BY <3>2, <3>3
    <3>5. Entry(b, i) \in Entries(b)
      BY <2>2 DEF Entries
    <3>6. <<Entry(b, i)>> \o P[j] \in Seq(Entries(b))
      <4>1. <<Entry(b, i)>> \in Seq(Entries(b))
        BY <3>5
      <4> HIDE DEF j, P
      <4> QED BY <3>4, <4>1, ConcatProperties
    <3>7. P[i] = <<Entry(b, i)>> \o P[j]
      BY <2>3, <2>5, Zenon DEF ParseStep
    <3> QED BY <2>2, <3>6, <3>7
  <2> QED BY <2>4, <2>5
<1>3. ASSUME NEW i \in 2 .. L PROVE P[i] \in Seq(Entries(b))
  <2>1. L - i \in Nat /\ L - (L - i) = i
    BY <1>1
  <2>2. L - i \notin Bad
    BY <1>2, Zenon
  <2> HIDE DEF P
  <2> QED BY <2>1, <2>2
<1> QED BY <1>3

LEMMA ParseVisits ==
  ASSUME NEW b \in Seq(Byte), NEW n \in Nat, NEW at, Visits(b, at, n)
  PROVE  /\ ParseFrom(b)[2] \in Seq(Entries(b))
         /\ Len(ParseFrom(b)[2]) = n + Len(ParseFrom(b)[at[n + 1]])
         /\ \A k \in 1 .. n : ParseFrom(b)[2][k] = Entry(b, at[k])
<1> DEFINE P == ParseFrom(b)
           E == Entries(b)
           \* the last d fields have been read
           Good(d) == /\ Len(P[at[n + 1 - d]]) = d + Len(P[at[n + 1]])
                      /\ \A k \in 1 .. d : P[at[n + 1 - d]][k] = Entry(b, at[n - d + k])
           Bad == {d \in 0 .. n : ~ Good(d)}
<1>1. Len(b) \in Nat /\ at[1] = 2
  BY LenProperties DEF Visits
<1>2. \A k \in 1 .. n + 1 : at[k] \in 2 .. Len(b) + 1 /\ P[at[k]] \in Seq(E)
  BY ParseTyped DEF Visits
<1>3. ASSUME Bad # {} PROVE FALSE
  <2>1. PICK d \in Bad : \A e \in Bad : d <= e
    <3>1. Bad \in SUBSET Nat
      OBVIOUS
    <3> QED BY <1>3, <3>1, Least, Zenon
  <2>2. d \in 0 .. n /\ ~ Good(d)
    BY <2>1
  <2>3. CASE d = 0
    <3>1. n + 1 - 0 = n + 1 /\ n + 1 \in 1 .. n + 1
      OBVIOUS
    <3>2. P[at[n + 1]] \in Seq(E)
      BY <1>2, <3>1
    <3>3. Len(P[at[n + 1]]) \in Nat
      BY <3>2, LenProperties
    <3>4. Good(0)
      <4> HIDE DEF P
      <4> QED BY <3>1, <3>3
    <3> QED BY <2>2, <2>3, <3>4
  <2>4. CASE d # 0
    <3>1. d - 1 \in 0 .. n /\ d - 1 < d
      BY <2>2, <2>4
    <3>2. d - 1 \notin Bad
      <4>1. \A e \in Bad : ~ (e < d)
        BY <2>1, <2>2
      <4> HIDE DEF Bad
      <4> QED BY <3>1, <4>1
    <3>3. Good(d - 1)
      BY <3>1, <3>2
    <3> DEFINE j == n + 1 - d
    <3>4. j \in 1 .. n /\ j + 1 = n + 1 - (d - 1) /\ j + 1 \in 1 .. n + 1
      BY <2>2, <2>4
    <3>5. P[at[j]] = <<Entry(b, at[j])>> \o P[at[j + 1]]
      <4>1. at[j] \in 2 .. Len(b) + 1 /\ ~ Stops(b, at[j]) /\ Onward(b, at[j]) = at[j + 1]
        BY <3>4 DEF Visits
      <4>2. P[at[j]] = ParseStep(b, P, at[j])
        BY <4>1, ParseUnfolds
      <4> QED BY <4>1, <4>2, Zenon DEF ParseStep
    <3> DEFINE s == P[at[j + 1]]
               e == Entry(b, at[j])
    <3>6. s \in Seq(E) /\ P[at[j]] \in Seq(E)
      BY <1>2, <3>4
    <3>7. e \in E
      <4>1. at[j] \in 2 .. Len(b) + 1
        BY <1>2, <3>4
      <4> QED BY <4>1, Zenon DEF Entries
    <3>8. /\ Len(s) = d - 1 + Len(P[at[n + 1]])
          /\ \A k \in 1 .. d - 1 : s[k] = Entry(b, at[n - (d - 1) + k])
      BY <3>3, <3>4
    <3>9. Len(P[at[n + 1]]) \in Nat
      BY <1>2, LenProperties
    <3> HIDE DEF s, e, E
    <3>10. /\ Len(<<e>> \o s) = 1 + Len(s) /\ (<<e>> \o s)[1] = e
           /\ \A k \in 1 .. Len(s) : (<<e>> \o s)[k + 1] = s[k]
      BY <3>6, <3>7
    <3>11. Len(P[at[j]]) = d + Len(P[at[n + 1]])
      <4> HIDE DEF P, j
      <4> QED BY <2>2, <3>5, <3>8, <3>9, <3>10 DEF s, e
    <3>12. ASSUME NEW k \in 1 .. d PROVE P[at[j]][k] = Entry(b, at[n - d + k])
      <4>1. CASE k = 1
        <5>1. n - d + k = j
          BY <2>2, <4>1
        <5> QED BY <3>5, <3>10, <4>1, <5>1 DEF s, e
      <4>2. CASE k # 1
        <5>1. k - 1 \in 1 .. d - 1 /\ k - 1 + 1 = k /\ n - (d - 1) + (k - 1) = n - d + k
          <6>1. d \in Nat /\ k \in Nat /\ 1 <= k /\ k <= d
            BY <2>2
          <6> HIDE DEF P, Bad
          <6> QED BY <6>1, <4>2
        <5>2. k - 1 \in 1 .. Len(s)
          BY <2>2, <3>8, <3>9, <5>1
        <5>3. (<<e>> \o s)[k] = s[k - 1]
          BY <3>10, <5>1, <5>2
        <5>4. s[k - 1] = Entry(b, at[n - d + k])
          BY <3>8, <5>1
        <5> QED BY <3>5, <5>3, <5>4 DEF s, e
      <4> QED BY <4>1, <4>2
    <3>13. Good(d)
      <4> HIDE DEF P
      <4> QED BY <3>11, <3>12
    <3> QED BY <2>2, <3>13
  <2> QED BY <2>3, <2>4
<1>4. n \notin Bad
  BY <1>3, Zenon
<1>5. Good(n)
  BY <1>4
<1>6. n + 1 - n = 1 /\ \A k \in 1 .. n : n - n + k = k
  OBVIOUS
<1>7. P[2] \in Seq(E)
  BY <1>1, <1>2
<1> HIDE DEF P
<1>8. Len(P[2]) = n + Len(P[at[n + 1]]) /\ \A k \in 1 .. n : P[2][k] = Entry(b, at[k])
  BY <1>1, <1>5, <1>6
<1> QED BY <1>7, <1>8 DEF P

LEMMA FindVisits ==
  ASSUME NEW b \in Seq(Byte), NEW n \in Nat, NEW at, Visits(b, at, n), NEW type,
         n > 0, Entry(b, at[n]).type = type,
         \A k \in 1 .. n - 1 : Entry(b, at[k]).type # type
  PROVE  FindFrom(b, type)[2] = Entry(b, at[n]).value
<1> DEFINE F == FindFrom(b, type)
           Good(d) == F[at[n - d]] = Entry(b, at[n]).value
           Bad == {d \in 0 .. n - 1 : ~ Good(d)}
<1>1. \A k \in 1 .. n : F[at[k]] = IF Entry(b, at[k]).type = type THEN Entry(b, at[k]).value
                                   ELSE F[at[k + 1]]
  <2> TAKE k \in 1 .. n
  <2>1. at[k] \in 2 .. Len(b) + 1 /\ ~ Stops(b, at[k]) /\ Onward(b, at[k]) = at[k + 1]
    BY DEF Visits
  <2>2. F[at[k]] = FindStep(b, type, F, at[k])
    BY <2>1, FindUnfolds
  <2> QED BY <2>1, <2>2, Zenon DEF FindStep
<1> HIDE DEF F
<1>2. ASSUME Bad # {} PROVE FALSE
  <2>1. PICK d \in Bad : \A e \in Bad : d <= e
    <3>1. Bad \in SUBSET Nat
      OBVIOUS
    <3> QED BY <1>2, <3>1, Least, Zenon
  <2>2. d \in 0 .. n - 1 /\ ~ Good(d)
    BY <2>1
  <2>3. CASE d = 0
    <3>1. n - 0 = n /\ n \in 1 .. n
      OBVIOUS
    <3>2. Good(0)
      BY <1>1, <3>1
    <3> QED BY <2>2, <2>3, <3>2
  <2>4. CASE d # 0
    <3>1. d - 1 \in 0 .. n - 1 /\ d - 1 < d /\ n - d \in 1 .. n - 1 /\ n - d \in 1 .. n
          /\ n - d + 1 = n - (d - 1)
      BY <2>2, <2>4
    <3>2. d - 1 \notin Bad
      <4>1. \A e \in Bad : ~ (e < d)
        BY <2>1, <2>2
      <4> HIDE DEF Bad
      <4> QED BY <3>1, <4>1
    <3>3. Good(d - 1)
      BY <3>1, <3>2
    <3>4. F[at[n - d]] = F[at[n - d + 1]]
      BY <1>1, <3>1
    <3> QED BY <2>2, <3>1, <3>3, <3>4
  <2> QED BY <2>3, <2>4
<1>3. n - 1 \in 0 .. n - 1 /\ n - (n - 1) = 1
  OBVIOUS
<1>4. n - 1 \notin Bad
  BY <1>2, Zenon
<1>5. Good(n - 1)
  BY <1>3, <1>4
<1> QED BY <1>3, <1>5 DEF F, Visits

-----------------------------------------------------------------------------
(* A field that lies in the buffer is read as what it encodes.             *)

Lies(b, i, w) == i + Len(w) - 1 <= Len(b) /\ \A j \in 1 .. Len(w) : b[i + j - 1] = w[j]

LEMMA ConcatBytes ==
  ASSUME NEW s \in Seq(Byte), NEW t \in Seq(Byte)
  PROVE  /\ s \o t \in Seq(Byte) /\ Len(s \o t) = Len(s) + Len(t)
         /\ Len(s) \in Nat /\ Len(t) \in Nat
         /\ \A j \in 1 .. Len(s) : (s \o t)[j] = s[j]
         /\ \A j \in 1 .. Len(t) : (s \o t)[Len(s) + j] = t[j]
OBVIOUS

LEMMA ConcatBytesAssociative ==
  ASSUME NEW s \in Seq(Byte), NEW t \in Seq(Byte), NEW u \in Seq(Byte)
  PROVE  (s \o t) \o u = s \o (t \o u)
OBVIOUS

LEMMA LiesParts ==
  ASSUME NEW b \in Seq(Byte), NEW i \in Nat, NEW s \in Seq(Byte), NEW t \in Seq(Byte),
         Lies(b, i, s \o t)
  PROVE  Lies(b, i, s) /\ Lies(b, i + Len(s), t)
<1>1. Len(b) \in Nat /\ Len(s) \in Nat /\ Len(t) \in Nat /\ Len(s \o t) = Len(s) + Len(t)
  BY LenProperties, ConcatBytes
<1>2. \A j \in 1 .. Len(s) : b[i + j - 1] = s[j]
  <2> TAKE j \in 1 .. Len(s)
  <2>1. j \in 1 .. Len(s \o t) /\ (s \o t)[j] = s[j]
    BY <1>1, ConcatBytes
  <2> QED BY <2>1 DEF Lies
<1>3. \A j \in 1 .. Len(t) : b[i + Len(s) + j - 1] = t[j]
  <2> TAKE j \in 1 .. Len(t)
  <2>1. Len(s) + j \in 1 .. Len(s \o t) /\ (s \o t)[Len(s) + j] = t[j]
    BY <1>1, ConcatBytes
  <2>2. b[i + (Len(s) + j) - 1] = t[j]
    BY <2>1 DEF Lies
  <2>3. i + (Len(s) + j) - 1 = i + Len(s) + j - 1
    BY <1>1
  <2> QED BY <2>2, <2>3
<1>4. i + Len(s) + Len(t) - 1 <= Len(b)
  BY <1>1 DEF Lies
<1>5. i + Len(s) - 1 <= Len(b)
  BY <1>1, <1>4
<1> QED BY <1>1, <1>2, <1>3, <1>4, <1>5 DEF Lies

LEMMA LiesCut ==
  ASSUME NEW b \in Seq(Byte), NEW p \in Nat \ {0}, NEW w \in Seq(Byte), Lies(b, p, w)
  PROVE  SubSeq(b, p, p + Len(w) - 1) = w
<1> DEFINE m == Len(w)  q == p + m - 1  c == SubSeq(b, p, q)
<1>1. Len(b) \in Nat /\ m \in Nat /\ q <= Len(b) /\ \A j \in 1 .. m : b[p + j - 1] = w[j]
  BY LenProperties DEF Lies
<1>2. q \in Int /\ \A j \in p .. q : j \in 1 .. Len(b)
  BY <1>1
<1>3. \A j \in p .. q : b[j] \in Byte
  BY <1>2, ElementOfSeq
<1> HIDE DEF m
<1>4. Len(c) = m /\ \A j \in 1 .. m : c[j] = b[p + j - 1]
  BY <1>1, <1>2
<1>5. c \in Seq(Byte)
  BY <1>1, <1>2, <1>3, SubSeqProperties
<1> HIDE DEF c
<1>6. \A j \in 1 .. m : c[j] = w[j]
  BY <1>1, <1>4
<1>7. c = w
  BY <1>4, <1>5, <1>6, SeqEqual DEF m
<1> QED BY <1>7 DEF c, m

LEMMA KeyReads ==
  ASSUME NEW b \in Seq(Byte), NEW i \in Nat \ {0}, NEW type \in Types, Lies(b, i, EncodeKey(type))
  PROVE  /\ ValueAt(b, i) = i + Len(EncodeKey(type))
         /\ (IF b[i] < 24 THEN b[i] ELSE At(b, i + 1)) = type
         /\ ~ Stops(b, i)
         /\ Len(EncodeKey(type)) \in {1, 2}
<1>1. type \in 1 .. 254 /\ Len(b) \in Nat
  BY CodecConstants, LenProperties
<1>2. CASE type < 24
  <2>1. EncodeKey(type) = <<type>> /\ Len(<<type>>) = 1 /\ <<type>>[1] = type
    BY <1>2 DEF EncodeKey
  <2>2. i <= Len(b) /\ b[i] = type
    BY <1>1, <2>1 DEF Lies
  <2> QED BY <1>1, <1>2, <2>1, <2>2 DEF ValueAt, Stops, At, Break
<1>3. CASE ~ (type < 24)
  <2>1. /\ EncodeKey(type) = <<24, type>> /\ Len(<<24, type>>) = 2
        /\ <<24, type>>[1] = 24 /\ <<24, type>>[2] = type
    BY <1>3 DEF EncodeKey
  <2>2. i + 1 <= Len(b) /\ b[i] = 24 /\ b[i + 1] = type
    BY <1>1, <2>1 DEF Lies
  <2> QED BY <1>1, <1>3, <2>1, <2>2 DEF ValueAt, Stops, At, Break
<1> QED BY <1>2, <1>3

LEMMA UintShape ==
  ASSUME NEW v \in Nat
  PROVE  /\ v < 24 => EncodeUint(v) = <<v>>
         /\ v >= 24 /\ v <= 255 => EncodeUint(v) = <<24, v>>
         /\ v > 255 /\ v <= 65535 => EncodeUint(v) = <<25, v \div 256, v % 256>>
         /\ v > 65535 => EncodeUint(v) =
                <<26, v \div 2^24, (v \div 2^16) % 256, (v \div 256) % 256, v % 256>>
<1>1. CASE v < 24
  BY <1>1 DEF EncodeUint
<1>2. CASE v >= 24 /\ v <= 255
  BY <1>2 DEF EncodeUint
<1>3. CASE v > 255 /\ v <= 65535
  BY <1>3 DEF EncodeUint
<1>4. CASE v > 65535
  BY <1>4 DEF EncodeUint
<1> QED BY <1>1, <1>2, <1>3, <1>4

LEMMA FollowingBytes ==
  /\ \A n \in 0 .. 23 : Following[n] = 0
  /\ Following[24] = 1 /\ Following[25] = 2 /\ Following[26] = 4
<1>1. \A n \in 0 .. 23 : Following[n] = 0
  BY DEF Following
<1>2. Following[24] = 1 /\ Following[25] = 2 /\ Following[26] = 4
  BY DEF Following
<1> QED BY <1>1, <1>2

LEMMA SmallLength == \A n \in Nat : n < 24 => n \in 0 .. 23
OBVIOUS

\* The header of a value tells how long the value is.
LEMMA SpanUint ==
  ASSUME NEW b \in Seq(Byte), NEW p \in Nat \ {0}, NEW v \in Uints, Lies(b, p, EncodeUint(v))
  PROVE  Span(b, p) = Len(EncodeUint(v))
<1>1. v \in Nat /\ Len(b) \in Nat
  BY CodecConstants, LenProperties
<1>2. ASSUME NEW h \in Byte, NEW n \in Nat, EncodeUint(v)[1] = h, Len(EncodeUint(v)) = 1 + n,
             h \div 32 = 0, Following[h % 32] = n
      PROVE  Span(b, p) = Len(EncodeUint(v))
  <2>1. At(b, p) = h
    BY <1>1, <1>2 DEF Lies, At
  <2> QED BY <1>2, <2>1 DEF Span
<1>3. CASE v < 24
  <2>1. EncodeUint(v) = <<v>>
    BY <1>1, <1>3, UintShape
  <2>2. v \in Byte /\ v \div 32 = 0 /\ v % 32 = v
    BY <1>1, <1>3 DEF Byte
  <2>3. Following[v] = 0
    BY <1>1, <1>3, SmallLength, FollowingBytes
  <2> QED BY <1>2, <2>1, <2>2, <2>3
<1>4. CASE v >= 24 /\ v <= 255
  <2>1. EncodeUint(v) = <<24, v>>
    BY <1>1, <1>4, UintShape
  <2>2. 24 \in Byte /\ 24 \div 32 = 0 /\ 24 % 32 = 24
    BY DEF Byte
  <2>3. Following[24] = 1
    BY FollowingBytes
  <2> QED BY <1>2, <2>1, <2>2, <2>3
<1>5. CASE v > 255 /\ v <= 65535
  <2>1. EncodeUint(v) = <<25, v \div 256, v % 256>>
    BY <1>1, <1>5, UintShape
  <2>2. 25 \in Byte /\ 25 \div 32 = 0 /\ 25 % 32 = 25
    BY DEF Byte
  <2>3. Following[25] = 2
    BY FollowingBytes
  <2> QED BY <1>2, <2>1, <2>2, <2>3
<1>6. CASE v > 65535
  <2>1. EncodeUint(v) = <<26, v \div 2^24, (v \div 2^16) % 256, (v \div 256) % 256, v % 256>>
    BY <1>1, <1>6, UintShape
  <2>2. 26 \in Byte /\ 26 \div 32 = 0 /\ 26 % 32 = 26
    BY DEF Byte
  <2>3. Following[26] = 4
    BY FollowingBytes
  <2> QED BY <1>2, <2>1, <2>2, <2>3
<1> QED BY <1>1, <1>3, <1>4, <1>5, <1>6

LEMMA SpanFloat ==
  ASSUME NEW b \in Seq(Byte), NEW p \in Nat \ {0}, NEW v \in Floats, Lies(b, p, EncodeFloat16(v))
  PROVE  Span(b, p) = Len(EncodeFloat16(v))
<1>1. Len(b) \in Nat
  BY LenProperties
<1>2. EncodeFloat16(v)[1] = 249 /\ Len(EncodeFloat16(v)) = 3
  BY DEF EncodeFloat16
<1>3. At(b, p) = 249
  BY <1>1, <1>2 DEF Lies, At
<1>4. 249 \div 32 = 7 /\ 249 % 32 = 25
  OBVIOUS
<1>5. Following[25] = 2
  BY FollowingBytes
<1> QED BY <1>2, <1>3, <1>4, <1>5 DEF Span

LEMMA SpanText ==
  ASSUME NEW b \in Seq(Byte), NEW p \in Nat \ {0}, NEW v \in Seq(Byte), Len(v) < 256,
         NEW major \in {64, 96}, Lies(b, p, StringHeader(major, Len(v)))
  PROVE  Span(b, p) = Len(StringHeader(major, Len(v))) + Len(v)
<1> DEFINE n == Len(v)
<1>1. Len(b) \in Nat /\ n \in Nat /\ n < 256
  BY LenProperties
<1> HIDE DEF n
<1>2. CASE n < 24
  <2>1. StringHeader(major, n) = <<major + n>>
    BY <1>2 DEF StringHeader
  <2>2. At(b, p) = major + n
    BY <1>1, <2>1 DEF Lies, At, n
  <2>3. (major + n) \div 32 \in {2, 3} /\ (major + n) % 32 = n
    BY <1>1, <1>2
  <2> QED BY <1>2, <2>1, <2>2, <2>3 DEF Span, n
<1>3. CASE ~ (n < 24)
  <2>1. StringHeader(major, n) = <<major + 24, n>>
    BY <1>1, <1>3 DEF StringHeader
  <2>2. At(b, p) = major + 24 /\ At(b, p + 1) = n
    BY <1>1, <2>1 DEF Lies, At, n
  <2>3. (major + 24) \div 32 \in {2, 3} /\ (major + 24) % 32 = 24
    OBVIOUS
  <2> QED BY <1>1, <1>3, <2>1, <2>2, <2>3 DEF Span, n
<1> QED BY <1>2, <1>3

LEMMA DivMod ==
  ASSUME NEW x \in Nat
  PROVE  x \div 256 \in Nat /\ x % 256 \in 0 .. 255 /\ x = 256 * (x \div 256) + (x % 256)
<1>1. x \div 256 \in Nat /\ x % 256 \in 0 .. 255
  OBVIOUS
<1>2. x - 256 * (x \div 256) = x % 256
  OBVIOUS
<1> DEFINE q == x \div 256  r == x % 256
<1> HIDE DEF q, r
<1>3. q \in Nat /\ r \in Nat /\ x - 256 * q = r
  BY <1>1, <1>2 DEF q, r
<1>4. x = 256 * q + r
  BY <1>3
<1> QED BY <1>1, <1>4 DEF q, r

\* The four bytes of a number make up the number.
LEMMA FourBytes ==
  ASSUME NEW v \in Nat
  PROVE  v = 2^24 * (v \div 2^24) + 2^16 * ((v \div 2^16) % 256) + 256 * ((v \div 256) % 256) + (v % 256)
<1>1. 2^24 = 16777216 /\ 2^16 = 65536
  BY SMT
<1>2. PICK a \in Nat, r \in Nat : a = v \div 256 /\ r = v % 256 /\ v = 256 * a + r
  BY DivMod
<1>3. PICK b \in Nat, s \in Nat : b = a \div 256 /\ s = a % 256 /\ a = 256 * b + s
  BY DivMod
<1>4. PICK c \in Nat, t \in Nat : c = b \div 256 /\ t = b % 256 /\ b = 256 * c + t
  BY DivMod
<1>5. v \div 65536 = b
  BY <1>2, <1>3, SMT
<1>6. v \div 16777216 = c
  BY <1>2, <1>3, <1>4, SMT
<1>7. v = 256 * (256 * (256 * c + t) + s) + r
  BY ONLY <1>2, <1>3, <1>4, SMT
<1>8. v = 16777216 * c + 65536 * t + 256 * s + r
  BY <1>7, SMT
<1> QED BY <1>1, <1>2, <1>3, <1>4, <1>5, <1>6, <1>8, SMT

LEMMA ReadTwo ==
  ASSUME NEW p \in Nat, NEW q \in Nat
  PROVE  ReadUint(<<25, p, q>>) = 256 * p + q
<1>1. 25 % 32 = 25
  OBVIOUS
<1> QED BY <1>1 DEF ReadUint

LEMMA ReadFour ==
  ASSUME NEW p \in Nat, NEW q \in Nat, NEW r \in Nat, NEW s \in Nat
  PROVE  ReadUint(<<26, p, q, r, s>>) = 2^24 * p + 2^16 * q + 256 * r + s
<1>1. 26 % 32 = 26
  OBVIOUS
<1> QED BY <1>1 DEF ReadUint

LEMMA ReadUintBack == ASSUME NEW v \in Uints PROVE ReadUint(EncodeUint(v)) = v
<1>1. v \in Nat
  BY CodecConstants
<1>2. CASE v < 24
  <2>1. EncodeUint(v) = <<v>> /\ v % 32 = v
    BY <1>1, <1>2, UintShape
  <2> QED BY <1>1, <1>2, <2>1 DEF ReadUint
<1>3. CASE v >= 24 /\ v <= 255
  <2>1. EncodeUint(v) = <<24, v>> /\ 24 % 32 = 24
    BY <1>1, <1>3, UintShape
  <2> QED BY <2>1 DEF ReadUint
<1>4. CASE v > 255 /\ v <= 65535
  <2>1. PICK p \in Nat, q \in Nat : p = v \div 256 /\ q = v % 256 /\ v = 256 * p + q
    BY <1>1, DivMod
  <2>2. EncodeUint(v) = <<25, p, q>>
    BY <1>1, <1>4, <2>1, UintShape
  <2>3. ReadUint(<<25, p, q>>) = 256 * p + q
    BY ReadTwo
  <2> QED BY <2>1, <2>2, <2>3
<1>5. CASE v > 65535
  <2>1. PICK p \in Nat, q \in Nat, r \in Nat, s \in Nat :
          p = v \div 2^24 /\ q = (v \div 2^16) % 256 /\ r = (v \div 256) % 256 /\ s = v % 256
    BY <1>1
  <2>2. EncodeUint(v) = <<26, p, q, r, s>>
    BY <1>1, <1>5, <2>1, UintShape
  <2>3. v = 2^24 * p + 2^16 * q + 256 * r + s
    BY <1>1, <2>1, FourBytes
  <2>4. ReadUint(<<26, p, q, r, s>>) = 2^24 * p + 2^16 * q + 256 * r + s
    BY ReadFour
  <2> QED BY <2>2, <2>3, <2>4
<1> QED BY <1>1, <1>2, <1>3, <1>4, <1>5

LEMMA ReadStringBack ==
  ASSUME NEW v \in Seq(Byte), Len(v) < 256
  PROVE  ReadString(StringHeader(96, Len(v)) \o v) = v
<1> DEFINE h == StringHeader(96, Len(v))
           w == h \o v
           info == w[1] % 32
           start == 2 + Following[info]
           n == CASE info < 24 -> info [] info = 24 -> w[2]
                  [] info = 25 -> 256 * w[2] + w[3] [] OTHER -> 0
<1>1. Len(v) \in Nat /\ h \in Seq(Byte)
  BY LenProperties, HeaderBytes
<1>2. /\ w \in Seq(Byte) /\ Len(w) = Len(h) + Len(v) /\ Len(h) \in Nat
      /\ \A j \in 1 .. Len(h) : w[j] = h[j]
      /\ \A j \in 1 .. Len(v) : w[Len(h) + j] = v[j]
  <2> HIDE DEF h
  <2> QED BY <1>1, ConcatBytes
<1>3. start = Len(h) + 1 /\ n = Len(v)
  <2>1. CASE Len(v) < 24
    <3>1. h = <<96 + Len(v)>> /\ Len(h) = 1 /\ h[1] = 96 + Len(v)
      BY <2>1 DEF StringHeader
    <3>2. w[1] = 96 + Len(v)
      BY <1>2, <3>1
    <3> HIDE DEF w, h
    <3>3. info = Len(v)
      BY <1>1, <2>1, <3>2
    <3>4. Following[info] = 0
      <4>1. Len(v) \in 0 .. 23
        <5>1. Len(v) \in Nat
          BY LenProperties
        <5> QED BY <5>1, <2>1, SmallLength, Zenon
      <4> HIDE DEF info
      <4> QED BY <3>3, <4>1, FollowingBytes
    <3> HIDE DEF info
    <3>5. info < 24
      BY <2>1, <3>3
    <3>6. n = info
      BY <3>5
    <3>7. start = 2
      BY <3>4
    <3> HIDE DEF n, start
    <3> QED BY <3>1, <3>3, <3>6, <3>7
  <2>2. CASE ~ (Len(v) < 24)
    <3>1. h = <<96 + 24, Len(v)>> /\ Len(h) = 2 /\ h[1] = 120 /\ h[2] = Len(v)
      BY <1>1, <2>2 DEF StringHeader
    <3>2. w[1] = 120 /\ w[2] = Len(v)
      BY <1>2, <3>1
    <3> HIDE DEF w, h
    <3>3. info = 24
      BY <3>2
    <3>4. Following[info] = 1
      BY <3>3, FollowingBytes
    <3> HIDE DEF info
    <3> QED BY <3>1, <3>2, <3>3, <3>4
  <2> QED BY <2>1, <2>2
<1>4. ReadString(w) = SubSeq(w, start, Min({start + n - 1, Len(w)}))
  BY DEF ReadString
<1> HIDE DEF w, start, n, h
<1>5. Min({start + n - 1, Len(w)}) = Len(w)
  BY <1>1, <1>2, <1>3, MinOfTwo
<1>6. ReadString(w) = SubSeq(w, Len(h) + 1, Len(h) + Len(v))
  BY <1>2, <1>3, <1>4, <1>5
<1>7. SubSeq(w, Len(h) + 1, Len(h) + Len(v)) = v
  BY <1>1, <1>2
<1> QED BY <1>6, <1>7 DEF w, h

\* Text lengths fit the one byte that announces them.
ShortTexts == \A v \in Texts : Len(v) < 256

LEMMA ValueReads ==
  ASSUME ShortTexts, NEW b \in Seq(Byte), NEW p \in Nat \ {0}, NEW kind \in Kinds, NEW v \in Values(kind),
         Lies(b, p, HeaderOf(kind, v) \o DataOf(kind, v))
  PROVE  Span(b, p) = Len(HeaderOf(kind, v) \o DataOf(kind, v))
<1>1. /\ Lies(b, p, HeaderOf(kind, v))
      /\ Len(HeaderOf(kind, v) \o DataOf(kind, v)) = Len(HeaderOf(kind, v)) + Len(DataOf(kind, v))
  BY FieldBytes, LiesParts, ConcatBytes
<1>2. Len(HeaderOf(kind, v)) \in Nat
  BY FieldBytes, LenProperties
<1>3. CASE kind = "uint"
  <2>1. v \in Uints /\ HeaderOf(kind, v) = EncodeUint(v) /\ Len(DataOf(kind, v)) = 0
    BY <1>3, NoBytes DEF Values, HeaderOf, DataOf
  <2> QED BY <1>1, <1>2, <2>1, SpanUint
<1>4. CASE kind = "float"
  <2>1. v \in Floats /\ HeaderOf(kind, v) = EncodeFloat16(v) /\ Len(DataOf(kind, v)) = 0
    BY <1>4, NoBytes DEF Values, HeaderOf, DataOf
  <2> QED BY <1>1, <1>2, <2>1, SpanFloat
<1>5. CASE kind \in {"bytes", "string"}
  <2>1. PICK major \in {64, 96} : HeaderOf(kind, v) = StringHeader(major, Len(v))
    BY <1>5 DEF HeaderOf
  <2>2. v \in Texts /\ v \in Seq(Byte) /\ Len(v) < 256 /\ DataOf(kind, v) = v
    BY <1>5, CodecConstants DEF Values, DataOf, ShortTexts
  <2> QED BY <1>1, <2>1, <2>2, SpanText
<1> QED BY <1>3, <1>4, <1>5 DEF Kinds

LEMMA FieldReads ==
  ASSUME ShortTexts, NEW b \in Seq(Byte), NEW i \in Nat \ {0}, NEW type \in Types,
         NEW kind \in Kinds, NEW v \in Values(kind), Lies(b, i, Encoding(type, kind, v))
  PROVE  /\ ~ Stops(b, i)
         /\ NextAt(b, i) = i + Len(Encoding(type, kind, v))
         /\ Entry(b, i) = [type |-> type, value |-> HeaderOf(kind, v) \o DataOf(kind, v)]
<1> DEFINE key == EncodeKey(type)
           w == HeaderOf(kind, v) \o DataOf(kind, v)
           p == i + Len(key)
<1>1. key \in Seq(Byte) /\ w \in Seq(Byte) /\ Len(key) \in Nat /\ Len(w) \in Nat /\ Len(b) \in Nat
  BY KeyBytes, FieldBytes, ConcatBytes, LenProperties
<1>2. Encoding(type, kind, v) = key \o w
  BY KeyBytes, FieldBytes, ConcatBytesAssociative DEF Encoding
<1>3. Len(Encoding(type, kind, v)) = Len(key) + Len(w)
  <2> HIDE DEF key, w
  <2> QED BY <1>1, <1>2, ConcatBytes
<1>4. Lies(b, i, key) /\ Lies(b, p, w)
  <2> HIDE DEF key, w
  <2> QED BY <1>1, <1>2, LiesParts
<1>5. p \in Nat \ {0}
  <2> HIDE DEF key
  <2> QED BY <1>1
<1>6. Span(b, p) = Len(w)
  <2> HIDE DEF p
  <2> QED BY <1>4, <1>5, ValueReads
<1>7. /\ ValueAt(b, i) = p /\ ~ Stops(b, i)
      /\ (IF b[i] < 24 THEN b[i] ELSE At(b, i + 1)) = type
  BY <1>4, KeyReads
<1> HIDE DEF key, w, p
<1>8. NextAt(b, i) = p + Len(w)
  BY <1>6, <1>7 DEF NextAt
<1>9. p + Len(w) - 1 <= Len(b) /\ \A j \in 1 .. Len(w) : b[p + j - 1] = w[j]
  BY <1>4 DEF Lies
<1>10. Min({NextAt(b, i) - 1, Len(b)}) = p + Len(w) - 1
  <2>1. p + Len(w) - 1 \in Int /\ Len(b) \in Int
    BY <1>1, <1>5
  <2>2. Min({p + Len(w) - 1, Len(b)}) = p + Len(w) - 1
    BY <1>9, <2>1, MinOfTwo
  <2>3. NextAt(b, i) - 1 = p + Len(w) - 1
    BY <1>1, <1>5, <1>8
  <2> QED BY <2>2, <2>3
<1>11. SubSeq(b, p, p + Len(w) - 1) = w
  BY <1>1, <1>4, <1>5, LiesCut
<1>12. Entry(b, i) = [type |-> type, value |-> w]
  BY <1>7, <1>10, <1>11 DEF Entry
<1>13. p + Len(w) = i + Len(Encoding(type, kind, v))
  BY <1>1, <1>3 DEF p
<1> QED BY <1>7, <1>8, <1>12, <1>13 DEF w

-----------------------------------------------------------------------------
(* What is in the buffer while a payload is built and when it is sealed.   *)

FieldRecords ==
    {f \in [type : Types, kind : Kinds, v : Uints \union Floats \union Texts, at : Nat, ok : BOOLEAN] :
        f.v \in Values(f.kind)}

Enc(f) == Encoding(f.type, f.kind, f.v)

AllOk(fs, k) == \A j \in 1 .. k : fs[j].ok

\* The last byte of field k; byte 1 opens the map.
End(fs, k) == IF k = 0 THEN 1 ELSE fs[k].at + Len(Enc(fs[k])) - 1

\* Fields are laid one behind the other, as long as every add succeeded; the
\* break may have taken the last byte of the last.
Consecutive(fs) == \A k \in 1 .. Len(fs) :
    /\ AllOk(fs, k - 1) => fs[k].at = End(fs, k - 1) + 1
    /\ \A j \in 1 .. k - 1 : AllOk(fs, j) => End(fs, j) < fs[k].at

Laid(fs, b, sl) == \A k \in 1 .. Len(fs) : AllOk(fs, k) =>
    /\ End(fs, k) <= Len(b)
    /\ \A j \in 1 .. Len(Enc(fs[k])) :
        ~ sl \/ fs[k].at + j <= Len(b) => b[fs[k].at + j - 1] = Enc(fs[k])[j]

Framed(fs, b, sl) ==
    /\ Len(b) >= 1 /\ b[1] = MapStart
    /\ AllOk(fs, Len(fs)) => /\ ~ sl => Len(b) = End(fs, Len(fs))
                             /\ sl => Len(b) \in {End(fs, Len(fs)), End(fs, Len(fs)) + 1}
    /\ sl => Len(b) >= 2 /\ b[Len(b)] = Break

Built(fs, b, sl) ==
    fs \in Seq(FieldRecords) /\ Consecutive(fs) /\ Laid(fs, b, sl) /\ Framed(fs, b, sl)

LEMMA EncBytes ==
  ASSUME NEW f \in FieldRecords
  PROVE  Enc(f) \in Seq(Byte) /\ Len(Enc(f)) \in Nat /\ Len(Enc(f)) >= 1
<1>1. f.type \in Types /\ f.kind \in Kinds /\ f.v \in Values(f.kind)
  BY DEF FieldRecords
<1>2. /\ EncodeKey(f.type) \in Seq(Byte)
      /\ HeaderOf(f.kind, f.v) \in Seq(Byte) /\ DataOf(f.kind, f.v) \in Seq(Byte)
  BY <1>1, KeyBytes, FieldBytes
<1>3. Len(EncodeKey(f.type)) >= 1
  BY <1>1 DEF EncodeKey
<1> DEFINE key == EncodeKey(f.type)  head == HeaderOf(f.kind, f.v)  data == DataOf(f.kind, f.v)
<1> HIDE DEF key, head, data
<1>4. /\ key \o head \in Seq(Byte) /\ Len(key \o head) = Len(key) + Len(head)
      /\ Len(key) \in Nat /\ Len(head) \in Nat
  BY <1>2, ConcatBytes DEF key, head
<1>5. /\ (key \o head) \o data \in Seq(Byte) /\ Len(data) \in Nat
      /\ Len((key \o head) \o data) = Len(key \o head) + Len(data)
  BY <1>2, <1>4, ConcatBytes DEF data
<1>6. Len((key \o head) \o data) >= 1 /\ Len((key \o head) \o data) \in Nat
  BY <1>3, <1>4, <1>5 DEF key
<1> QED BY <1>5, <1>6 DEF Enc, Encoding, key, head, data

LEMMA FieldStarts ==
  ASSUME NEW fs \in Seq(FieldRecords), Consecutive(fs), NEW k \in 1 .. Len(fs), AllOk(fs, k)
  PROVE  /\ fs[k].at \in Nat /\ fs[k].at >= 2
         /\ Len(Enc(fs[k])) \in Nat /\ Len(Enc(fs[k])) >= 1
         /\ End(fs, k) = fs[k].at + Len(Enc(fs[k])) - 1
<1>1. Len(fs) \in Nat
  BY LenProperties
<1>2. \A j \in 1 .. Len(fs) : fs[j].at \in Nat /\ Len(Enc(fs[j])) \in Nat /\ Len(Enc(fs[j])) >= 1
  <2> TAKE j \in 1 .. Len(fs)
  <2>1. fs[j] \in FieldRecords
    BY ElementOfSeq
  <2> QED BY <2>1, EncBytes DEF FieldRecords
<1>3. 1 \in 1 .. Len(fs) /\ 1 - 1 = 0
  BY <1>1
<1>4. fs[1].at = 2
  <2>1. AllOk(fs, 0) /\ End(fs, 0) = 1
    BY DEF AllOk, End
  <2>2. AllOk(fs, 1 - 1) => fs[1].at = End(fs, 1 - 1) + 1
    BY <1>3 DEF Consecutive
  <2> QED BY <1>3, <2>1, <2>2
<1>5. fs[k].at >= 2
  <2>1. CASE k = 1
    BY <1>4, <2>1
  <2>2. CASE k # 1
    <3>1. 1 \in 1 .. k - 1 /\ \A j \in 1 .. 1 : j \in 1 .. k
      BY <1>1, <2>2
    <3>2. AllOk(fs, 1)
      BY <3>1 DEF AllOk
    <3>3. End(fs, 1) < fs[k].at
      BY <3>1, <3>2 DEF Consecutive
    <3>4. End(fs, 1) = 2 + Len(Enc(fs[1])) - 1
      BY <1>4 DEF End
    <3> QED BY <1>2, <1>3, <3>3, <3>4
  <2> QED BY <2>1, <2>2
<1>6. End(fs, k) = fs[k].at + Len(Enc(fs[k])) - 1
  BY <1>1 DEF End
<1> QED BY <1>2, <1>5, <1>6

\* A longer buffer and one more field, at its end: Add.
LEMMA BuiltAdd ==
  ASSUME NEW fs, NEW b \in Seq(Byte), Built(fs, b, FALSE), NEW c \in Seq(Byte), NEW f \in FieldRecords,
         Len(c) >= Len(b), \A i \in 1 .. Len(b) : c[i] = b[i],
         f.at = Len(b) + 1, f.ok => c = b \o Enc(f)
  PROVE  Built(Append(fs, f), c, FALSE)
<1> DEFINE n == Len(fs)  gs == Append(fs, f)
<1>1. fs \in Seq(FieldRecords) /\ n \in Nat /\ Len(b) \in Nat /\ Len(c) \in Nat
  BY LenProperties DEF Built
<1>2. /\ gs \in Seq(FieldRecords) /\ Len(gs) = n + 1 /\ gs[n + 1] = f
      /\ \A k \in 1 .. n : gs[k] = fs[k]
  BY <1>1
<1>3. \A k \in 1 .. n : fs[k] \in FieldRecords
  BY <1>1
<1> HIDE DEF gs, n
<1>4. \A k \in 0 .. n : (AllOk(gs, k) <=> AllOk(fs, k)) /\ End(gs, k) = End(fs, k)
  <2> TAKE k \in 0 .. n
  <2>1. \A j \in 1 .. k : gs[j] = fs[j]
    <3>1. \A j \in 1 .. k : j \in 1 .. n
      BY <1>1
    <3> QED BY <1>2, <3>1
  <2>2. AllOk(gs, k) <=> AllOk(fs, k)
    BY <2>1 DEF AllOk
  <2>3. k = 0 \/ gs[k] = fs[k]
    BY <1>1, <1>2
  <2>4. End(gs, k) = End(fs, k)
    BY <2>3 DEF End
  <2> QED BY <2>2, <2>4
<1>5. AllOk(gs, n + 1) => AllOk(fs, n) /\ f.ok
  BY <1>1, <1>2 DEF AllOk
<1>6. \A k \in 1 .. n : AllOk(fs, k) => End(fs, k) \in Int /\ End(fs, k) <= Len(b)
  <2> TAKE k \in 1 .. n
  <2>1. fs[k].at \in Nat /\ Len(Enc(fs[k])) \in Nat
    BY <1>3, EncBytes DEF FieldRecords
  <2>2. End(fs, k) \in Int
    BY <1>1, <2>1 DEF End
  <2> QED BY <2>2 DEF Built, Laid, n
<1>7. Consecutive(gs)
  <2>1. ASSUME NEW k \in 1 .. n
        PROVE  /\ AllOk(gs, k - 1) => gs[k].at = End(gs, k - 1) + 1
               /\ \A j \in 1 .. k - 1 : AllOk(gs, j) => End(gs, j) < gs[k].at
    <3>1. k - 1 \in 0 .. n /\ \A j \in 1 .. k - 1 : j \in 0 .. n
      BY <1>1
    <3>2. /\ AllOk(fs, k - 1) => fs[k].at = End(fs, k - 1) + 1
          /\ \A j \in 1 .. k - 1 : AllOk(fs, j) => End(fs, j) < fs[k].at
      BY DEF Built, Consecutive, n
    <3> QED BY <1>2, <1>4, <3>1, <3>2
  <2>2. AllOk(gs, n) => f.at = End(gs, n) + 1
    <3>1. n \in 0 .. n
      BY <1>1
    <3>2. AllOk(fs, n) => Len(b) = End(fs, n)
      BY DEF Built, Framed, n
    <3> QED BY <1>4, <3>1, <3>2
  <2>3. \A j \in 1 .. n : AllOk(gs, j) => End(gs, j) < f.at
    <3> TAKE j \in 1 .. n
    <3>1. j \in 0 .. n
      BY <1>1
    <3>2. AllOk(fs, j) => End(fs, j) \in Int /\ End(fs, j) <= Len(b)
      BY <1>6
    <3> QED BY <1>1, <1>4, <3>1, <3>2
  <2>4. \A k \in 1 .. n + 1 : k \in 1 .. n \/ k = n + 1
    BY <1>1
  <2>5. n + 1 - 1 = n
    BY <1>1
  <2>6. ASSUME NEW k \in 1 .. n + 1
        PROVE  /\ AllOk(gs, k - 1) => gs[k].at = End(gs, k - 1) + 1
               /\ \A j \in 1 .. k - 1 : AllOk(gs, j) => End(gs, j) < gs[k].at
    <3>1. CASE k \in 1 .. n
      BY <2>1, <3>1
    <3>2. CASE k = n + 1
      <4>1. gs[k] = f /\ k - 1 = n
        <5>1. gs[k] = f
          BY <1>2, <3>2, Zenon
        <5>2. k - 1 = n
          BY <1>1, <3>2
        <5> QED BY <5>1, <5>2
      <4> QED BY <2>2, <2>3, <4>1
    <3> QED BY <2>4, <3>1, <3>2
  <2> QED BY <1>2, <2>6 DEF Consecutive
<1>8. Laid(gs, c, FALSE)
  <2>1. ASSUME NEW k \in 1 .. n, AllOk(fs, k)
        PROVE  /\ End(fs, k) <= Len(c)
               /\ \A j \in 1 .. Len(Enc(fs[k])) : c[fs[k].at + j - 1] = Enc(fs[k])[j]
    <3>1. End(fs, k) <= Len(c)
      BY <1>1, <1>6, <2>1
    <3>2. ASSUME NEW j \in 1 .. Len(Enc(fs[k])) PROVE c[fs[k].at + j - 1] = Enc(fs[k])[j]
      <4>1. b[fs[k].at + j - 1] = Enc(fs[k])[j]
        BY <2>1 DEF Built, Laid, n
      <4>2. fs[k].at \in Nat /\ Len(Enc(fs[k])) \in Nat /\ fs[k].at >= 2
        BY <2>1, FieldStarts DEF Built, n
      <4>3. fs[k].at + j - 1 \in 1 .. Len(b)
        <5>1. End(fs, k) = fs[k].at + Len(Enc(fs[k])) - 1
          BY <1>1 DEF End
        <5> QED BY <1>1, <1>6, <2>1, <4>2, <5>1
      <4> QED BY <4>1, <4>3
    <3> QED BY <3>1, <3>2
  <2>2. ASSUME AllOk(gs, n + 1)
        PROVE  /\ End(gs, n + 1) <= Len(c)
               /\ \A j \in 1 .. Len(Enc(f)) : c[f.at + j - 1] = Enc(f)[j]
    <3>1. c = b \o Enc(f)
      BY <1>5, <2>2
    <3>2. Enc(f) \in Seq(Byte) /\ Len(Enc(f)) \in Nat
      BY EncBytes
    <3>3. Len(c) = Len(b) + Len(Enc(f)) /\ \A j \in 1 .. Len(Enc(f)) : c[Len(b) + j] = Enc(f)[j]
      BY <3>1, <3>2, ConcatBytes
    <3>4. End(gs, n + 1) = f.at + Len(Enc(f)) - 1
      <4>1. n + 1 # 0
        BY <1>1
      <4> QED BY <1>2, <4>1 DEF End
    <3>5. \A j \in 1 .. Len(Enc(f)) : f.at + j - 1 = Len(b) + j
      BY <1>1, <3>2
    <3> QED BY <1>1, <3>2, <3>3, <3>4, <3>5
  <2>3. \A k \in 1 .. n + 1 : k \in 1 .. n \/ k = n + 1
    BY <1>1
  <2>4. \A k \in 1 .. n : k \in 0 .. n
    BY <1>1
  <2> QED BY <1>2, <1>4, <2>1, <2>2, <2>3, <2>4 DEF Laid
<1>9. Framed(gs, c, FALSE)
  <2>1. Len(b) >= 1 /\ b[1] = MapStart
    BY DEF Built, Framed
  <2>2. Len(c) >= 1 /\ c[1] = MapStart
    BY <1>1, <2>1
  <2>3. ASSUME AllOk(gs, n + 1) PROVE Len(c) = End(gs, n + 1)
    <3>1. c = b \o Enc(f)
      BY <1>5, <2>3
    <3>2. Enc(f) \in Seq(Byte) /\ Len(Enc(f)) \in Nat
      BY EncBytes
    <3>3. Len(c) = Len(b) + Len(Enc(f))
      BY <3>1, <3>2, ConcatBytes
    <3>4. End(gs, n + 1) = f.at + Len(Enc(f)) - 1
      <4>1. n + 1 # 0
        BY <1>1
      <4> QED BY <1>2, <4>1 DEF End
    <3> QED BY <1>1, <3>2, <3>3, <3>4
  <2> QED BY <1>2, <2>2, <2>3 DEF Framed
<1> QED BY <1>2, <1>7, <1>8, <1>9 DEF Built, gs

\* The break: Seal.
LEMMA BuiltSeal ==
  ASSUME NEW fs, NEW b \in Seq(Byte), Built(fs, b, FALSE), NEW c,
         c = Append(b, Break) \/ (Len(b) >= 2 /\ c = [b EXCEPT ![Len(b)] = Break])
  PROVE  Built(fs, c, TRUE)
<1> DEFINE n == Len(fs)
<1>1. fs \in Seq(FieldRecords) /\ n \in Nat /\ Len(b) \in Nat /\ Len(b) >= 1 /\ b[1] = MapStart
  BY LenProperties DEF Built, Framed
<1>2. /\ Len(c) \in {Len(b), Len(b) + 1} /\ Len(c) >= 2 /\ c[Len(c)] = Break
      /\ \A i \in 1 .. Len(b) : i < Len(c) => c[i] = b[i]
  <2>1. CASE c = Append(b, Break)
    <3>1. Len(c) = Len(b) + 1 /\ c[Len(b) + 1] = Break /\ \A i \in 1 .. Len(b) : c[i] = b[i]
      BY <2>1 DEF Break, Byte
    <3> QED BY <1>1, <3>1
  <2>2. CASE Len(b) >= 2 /\ c = [b EXCEPT ![Len(b)] = Break]
    <3>1. Len(b) \in 1 .. Len(b)
      BY <1>1
    <3>2. Len(c) = Len(b)
      BY <2>2, <3>1, ExceptSeq DEF Break, Byte
    <3>3. c[Len(b)] = Break /\ \A i \in 1 .. Len(b) : i # Len(b) => c[i] = b[i]
      BY <1>1, <2>2, <3>1
    <3>4. \A i \in 1 .. Len(b) : i < Len(c) => i # Len(b)
      BY <1>1, <3>2
    <3>5. Len(c) >= 2
      BY <2>2, <3>2
    <3>6. c[Len(c)] = Break
      BY <3>2, <3>3
    <3>7. \A i \in 1 .. Len(b) : i < Len(c) => c[i] = b[i]
      BY <3>3, <3>4
    <3>8. Len(c) \in {Len(b), Len(b) + 1}
      BY <3>2
    <3> QED BY <3>5, <3>6, <3>7, <3>8
  <2> QED BY <2>1, <2>2
<1>3. \A k \in 1 .. n : fs[k] \in FieldRecords
  BY <1>1
<1> HIDE DEF n
<1>4. Laid(fs, c, TRUE)
  <2> SUFFICES ASSUME NEW k \in 1 .. n, AllOk(fs, k)
               PROVE  /\ End(fs, k) <= Len(c)
                      /\ \A j \in 1 .. Len(Enc(fs[k])) : fs[k].at + j <= Len(c)
                            => c[fs[k].at + j - 1] = Enc(fs[k])[j]
    BY DEF Laid, n
  <2>1. /\ End(fs, k) <= Len(b)
        /\ \A j \in 1 .. Len(Enc(fs[k])) : b[fs[k].at + j - 1] = Enc(fs[k])[j]
    BY DEF Built, Laid, n
  <2>2. fs[k].at \in Nat /\ Len(Enc(fs[k])) \in Nat /\ fs[k].at >= 2
    BY FieldStarts DEF Built, n
  <2>3. End(fs, k) = fs[k].at + Len(Enc(fs[k])) - 1
    BY <1>1 DEF End
  <2>4. End(fs, k) <= Len(c)
    BY <1>1, <1>2, <2>1, <2>2, <2>3
  <2>5. ASSUME NEW j \in 1 .. Len(Enc(fs[k])), fs[k].at + j <= Len(c)
        PROVE  c[fs[k].at + j - 1] = Enc(fs[k])[j]
    <3> DEFINE a == fs[k].at  m == Len(Enc(fs[k]))  y == Len(b)  z == Len(c)
    <3>0. /\ a \in Nat /\ a >= 2 /\ m \in Nat /\ y \in Nat /\ z \in Nat /\ j \in 1 .. m
          /\ a + m - 1 <= y /\ a + j <= z
      BY <1>1, <1>2, <2>1, <2>2, <2>3, <2>5
    <3>1. a + j - 1 \in 1 .. y /\ a + j - 1 < z
      <4> HIDE DEF a, m, y, z
      <4> QED BY <3>0
    <3> QED BY <1>2, <2>1, <3>1
  <2> QED BY <2>4, <2>5
<1>5. Framed(fs, c, TRUE)
  <2>1. c[1] = b[1]
    BY <1>1, <1>2
  <2>2. AllOk(fs, n) => Len(b) = End(fs, n)
    BY DEF Built, Framed, n
  <2> QED BY <1>1, <1>2, <2>1, <2>2 DEF Framed, n
<1> QED BY <1>4, <1>5 DEF Built

\* What the firmware adds goes behind what was there ...
LEMMA WriteBytesKeeps ==
  ASSUME NEW b \in Seq(Byte), NEW s \in Seq(Byte), Len(b) <= Cap
  PROVE  /\ Len(WriteBytes(b, s)) >= Len(b) /\ \A i \in 1 .. Len(b) : WriteBytes(b, s)[i] = b[i]
         /\ Len(s) <= Room(b) => WriteBytes(b, s) = b \o s
<1> DEFINE n == IF Len(s) <= Cap - Len(b) THEN Len(s) ELSE Cap - Len(b)
<1>1. Len(b) \in Nat /\ Len(s) \in Nat /\ Cap \in Nat
  BY LenProperties, CodecConstants
<1>2. Min({Len(s), Room(b)}) = n
  BY <1>1, MinOfTwo DEF Room
<1>3. n \in Nat /\ n <= Len(s)
  BY <1>1
<1>4. Len(s) <= Room(b) => n = Len(s)
  BY <1>1 DEF Room
<1> HIDE DEF n
<1> DEFINE t == SubSeq(s, 1, n)
<1>5. t \in Seq(Byte) /\ (n = Len(s) => t = s)
  BY <1>1, <1>3
<1>6. WriteBytes(b, s) = b \o t
  BY <1>2 DEF WriteBytes
<1> HIDE DEF t
<1>7. Len(b \o t) = Len(b) + Len(t) /\ Len(t) \in Nat /\ \A i \in 1 .. Len(b) : (b \o t)[i] = b[i]
  BY <1>5, ConcatBytes
<1>8. Len(b \o t) >= Len(b)
  BY <1>1, <1>7
<1> QED BY <1>4, <1>5, <1>6, <1>7, <1>8

LEMMA WriteDataKeeps ==
  ASSUME NEW b \in Seq(Byte), NEW d \in Seq(Byte)
  PROVE  /\ Len(WriteData(b, d)) >= Len(b) /\ \A i \in 1 .. Len(b) : WriteData(b, d)[i] = b[i]
         /\ Len(d) <= Room(b) => WriteData(b, d) = b \o d
<1>1. /\ Len(b \o d) = Len(b) + Len(d) /\ Len(d) \in Nat /\ Len(b) \in Nat
      /\ \A i \in 1 .. Len(b) : (b \o d)[i] = b[i]
  BY ConcatBytes
<1>2. Len(b \o d) >= Len(b) /\ Len(b) >= Len(b)
  BY <1>1
<1>3. CASE Len(d) <= Room(b)
  BY <1>1, <1>2, <1>3 DEF WriteData
<1>4. CASE ~ (Len(d) <= Room(b))
  BY <1>2, <1>4 DEF WriteData
<1> QED BY <1>3, <1>4

\* ... and a field that has room is added whole.
LEMMA AddKeeps ==
  ASSUME NEW b \in Seq(Byte), Len(b) <= Cap,
         NEW type \in Types, NEW kind \in Kinds, NEW v \in Values(kind)
  PROVE  LET c == ykp_tlv_add(b, type, kind, v) IN
         /\ Len(c) >= Len(b) /\ \A i \in 1 .. Len(b) : c[i] = b[i]
         /\ Len(Encoding(type, kind, v)) <= Room(b) => c = b \o Encoding(type, kind, v)
<1> DEFINE key == EncodeKey(type)
           head == HeaderOf(kind, v)
           data == DataOf(kind, v)
           b1 == WriteBytes(b, key)
           b2 == WriteBytes(b1, head)
           c == WriteData(b2, data)
<1>1. key \in Seq(Byte) /\ head \in Seq(Byte) /\ data \in Seq(Byte)
  BY KeyBytes, FieldBytes
<1> HIDE DEF key, head, data
<1>2. /\ b1 \in Seq(Byte) /\ Len(b1) <= Cap /\ Len(b1) >= Len(b) /\ \A i \in 1 .. Len(b) : b1[i] = b[i]
      /\ Len(key) <= Room(b) => b1 = b \o key
  BY <1>1, WriteBytesFits, WriteBytesKeeps
<1> HIDE DEF b1
<1>3. /\ b2 \in Seq(Byte) /\ Len(b2) <= Cap /\ Len(b2) >= Len(b1) /\ \A i \in 1 .. Len(b1) : b2[i] = b1[i]
      /\ Len(head) <= Room(b1) => b2 = b1 \o head
  BY <1>1, <1>2, WriteBytesFits, WriteBytesKeeps
<1> HIDE DEF b2
<1>4. /\ Len(c) >= Len(b2) /\ \A i \in 1 .. Len(b2) : c[i] = b2[i]
      /\ Len(data) <= Room(b2) => c = b2 \o data
  <2>1. WriteData(b2, data) \in Seq(Byte)
    BY <1>1, <1>3, WriteDataFits
  <2> QED BY <1>1, <1>3, WriteDataKeeps
<1>5. c \in Seq(Byte)
  BY <1>1, <1>3, WriteDataFits
<1> HIDE DEF c
<1>6. /\ Len(b) \in Nat /\ Len(b1) \in Nat /\ Len(b2) \in Nat /\ Len(c) \in Nat /\ Cap \in Nat
      /\ Len(key) \in Nat /\ Len(head) \in Nat /\ Len(data) \in Nat
  BY <1>1, <1>2, <1>3, <1>5, LenProperties, CodecConstants
<1>7. Len(c) >= Len(b)
  BY <1>2, <1>3, <1>4, <1>6
<1>8. \A i \in 1 .. Len(b) : c[i] = b[i]
  <2> TAKE i \in 1 .. Len(b)
  <2>1. i \in 1 .. Len(b1) /\ i \in 1 .. Len(b2)
    BY <1>2, <1>3, <1>6
  <2> QED BY <1>2, <1>3, <1>4, <2>1
<1>9. ASSUME Len((key \o head) \o data) <= Room(b) PROVE c = b \o ((key \o head) \o data)
  <2>1. key \o head \in Seq(Byte) /\ Len(key \o head) = Len(key) + Len(head)
    BY <1>1, ConcatBytes
  <2>2. Len((key \o head) \o data) = Len(key \o head) + Len(data)
    BY <1>1, <2>1, ConcatBytes
  <2>3. Len(key) + Len(head) + Len(data) <= Cap - Len(b)
    BY <1>9, <2>1, <2>2 DEF Room
  <2>4. b1 = b \o key /\ Len(b1) = Len(b) + Len(key)
    <3>1. Len(key) <= Room(b)
      BY <1>6, <2>3 DEF Room
    <3>2. b1 = b \o key
      BY <1>2, <3>1
    <3> QED BY <1>1, <3>2, ConcatBytes
  <2>5. b2 = b1 \o head /\ Len(b2) = Len(b1) + Len(head)
    <3>1. Len(head) <= Room(b1)
      BY <1>6, <2>3, <2>4 DEF Room
    <3>2. b2 = b1 \o head
      BY <1>3, <3>1
    <3> QED BY <1>1, <1>2, <3>2, ConcatBytes
  <2>6. c = b2 \o data
    <3>1. Len(data) <= Room(b2)
      BY <1>6, <2>3, <2>4, <2>5 DEF Room
    <3> QED BY <1>4, <3>1
  <2>7. (b \o key) \o head = b \o (key \o head)
    BY <1>1, ConcatBytesAssociative
  <2>8. (b \o (key \o head)) \o data = b \o ((key \o head) \o data)
    BY <1>1, <2>1, ConcatBytesAssociative
  <2> QED BY <2>4, <2>5, <2>6, <2>7, <2>8
<1>10. ykp_tlv_add(b, type, kind, v) = c /\ Encoding(type, kind, v) = (key \o head) \o data
  BY DEF ykp_tlv_add, Encoding, key, head, data, b1, b2, c
<1> QED BY <1>7, <1>8, <1>9, <1>10

LEMMA FieldRecord ==
  ASSUME NEW type \in Types, NEW kind \in Kinds, NEW v \in Values(kind), NEW a \in Nat, NEW ok \in BOOLEAN
  PROVE  [type |-> type, kind |-> kind, v |-> v, at |-> a, ok |-> ok] \in FieldRecords
<1>1. v \in Uints \union Floats \union Texts
  BY DEF Values, Kinds
<1> QED BY <1>1 DEF FieldRecords

BuiltNow == TypeOK /\ Built(fields, buf, sealed)

LEMMA BuiltInit == Init => BuiltNow
<1> SUFFICES ASSUME Init PROVE BuiltNow
  OBVIOUS
<1>1. TypeOK
  BY TypeInit
<1>2. fields = <<>> /\ sealed = FALSE /\ buf = <<MapStart>>
  BY Zenon DEF Init
<1>3. fields \in Seq(FieldRecords) /\ Len(fields) = 0
  BY <1>2, EmptySeq, Zenon
<1>4. Len(buf) = 1 /\ buf[1] = MapStart
  BY <1>2
<1>5. Consecutive(fields) /\ Laid(fields, buf, FALSE)
  BY <1>3 DEF Consecutive, Laid
<1>6. Framed(fields, buf, FALSE)
  BY <1>3, <1>4 DEF Framed, End
<1> QED BY <1>1, <1>2, <1>3, <1>5, <1>6, Zenon DEF BuiltNow, Built

LEMMA BuiltStep == BuiltNow /\ Next => BuiltNow'
<1> SUFFICES ASSUME BuiltNow, Next PROVE BuiltNow'
  OBVIOUS
<1>1. TypeOK /\ TypeOK' /\ Built(fields, buf, sealed) /\ Len(buf) \in Nat
  BY TypeStep, LenProperties DEF BuiltNow, TypeOK
<1>2. ASSUME NEW type \in Types, NEW kind \in Kinds, NEW v \in Values(kind), Add(type, kind, v)
      PROVE  Built(fields', buf', sealed')
  <2> DEFINE e == Encoding(type, kind, v)
             rec(ok) == Field(type, kind, v, ok)
  <2>1. ~ sealed /\ sealed' = sealed
    BY <1>2 DEF Add, FirmwareAdd, ServerAdd
  <2>2. sealed = FALSE /\ sealed' = FALSE
    BY <1>1, <2>1 DEF TypeOK
  <2>3. \A ok \in BOOLEAN : /\ rec(ok) \in FieldRecords /\ rec(ok).at = Len(buf) + 1
                            /\ rec(ok).ok = ok /\ Enc(rec(ok)) = e
    <3> TAKE ok \in BOOLEAN
    <3>1. Len(buf) + 1 \in Nat
      BY <1>1
    <3>2. rec(ok) \in FieldRecords
      BY <3>1, FieldRecord, Zenon DEF Field
    <3> QED BY <3>2 DEF Field, Enc
  <2>4. Built(fields, buf, FALSE) /\ buf \in Seq(Byte) /\ buf' \in Seq(Byte)
    BY <1>1, <2>2 DEF TypeOK
  <2>5. CASE FirmwareAdd(type, kind, v)
    <3> DEFINE ok == Len(e) <= Room(buf)
    <3>1. fields' = Append(fields, rec(ok)) /\ buf' = ykp_tlv_add(buf, type, kind, v)
      BY <2>5, Zenon DEF FirmwareAdd
    <3>2. Len(buf) <= Cap
      BY <1>1, <2>5 DEF FirmwareAdd, TypeOK
    <3>3. Len(buf') >= Len(buf) /\ (\A i \in 1 .. Len(buf) : buf'[i] = buf[i]) /\ (ok => buf' = buf \o e)
      BY <2>4, <3>1, <3>2, AddKeeps
    <3>4. ok \in BOOLEAN
      OBVIOUS
    <3> HIDE DEF ok, rec, e
    <3>5. PICK f \in FieldRecords : /\ fields' = Append(fields, f) /\ f.at = Len(buf) + 1
                                    /\ f.ok => buf' = buf \o Enc(f)
      BY <2>3, <3>1, <3>3, <3>4
    <3>6. Built(Append(fields, f), buf', FALSE)
      BY <2>4, <3>3, <3>5, BuiltAdd
    <3> QED BY <2>2, <3>5, <3>6
  <2>6. CASE ServerAdd(type, kind, v)
    <3>1. fields' = Append(fields, rec(TRUE)) /\ buf' = buf \o e
      BY <2>6, Zenon DEF ServerAdd
    <3>2. e \in Seq(Byte)
      BY <2>3, EncBytes
    <3> HIDE DEF e, rec
    <3>3. Len(buf') >= Len(buf) /\ (\A i \in 1 .. Len(buf) : buf'[i] = buf[i])
      BY <1>1, <2>4, <3>1, <3>2, ConcatBytes
    <3>4. PICK f \in FieldRecords : /\ fields' = Append(fields, f) /\ f.at = Len(buf) + 1
                                    /\ f.ok => buf' = buf \o Enc(f)
      BY <2>3, <3>1
    <3>5. Built(Append(fields, f), buf', FALSE)
      BY <2>4, <3>3, <3>4, BuiltAdd
    <3> QED BY <2>2, <3>4, <3>5
  <2> QED BY <1>2, <2>5, <2>6 DEF Add
<1>3. CASE Seal
  <2>1. sealed = FALSE /\ sealed' = TRUE /\ fields' = fields
    BY <1>1, <1>3 DEF Seal, TypeOK
  <2>2. buf' = Append(buf, Break) \/ (Len(buf) >= 2 /\ buf' = [buf EXCEPT ![Len(buf)] = Break])
    <3>1. CASE builder = "firmware"
      <4>1. buf' = ykp_tlv_builder_len(buf) /\ Len(buf) <= Cap
        BY <1>1, <1>3, <3>1 DEF Seal, TypeOK
      <4>2. Cap \in Nat /\ Cap > 1
        BY CodecConstants
      <4>3. CASE Len(buf) < Cap
        BY <4>1, <4>3 DEF ykp_tlv_builder_len
      <4>4. CASE ~ (Len(buf) < Cap)
        <5>1. Len(buf) = Cap /\ Len(buf) >= 2
          BY <1>1, <4>1, <4>2, <4>4
        <5> QED BY <4>1, <4>4, <5>1 DEF ykp_tlv_builder_len
      <4> QED BY <4>3, <4>4
    <3>2. CASE builder # "firmware"
      BY <1>3, <3>2 DEF Seal
    <3> QED BY <3>1, <3>2
  <2>3. buf \in Seq(Byte) /\ Built(fields, buf, FALSE)
    BY <1>1, <2>1 DEF TypeOK
  <2>4. Built(fields, buf', TRUE)
    BY <2>2, <2>3, BuiltSeal
  <2> QED BY <1>1, <2>1, <2>4 DEF BuiltNow
<1>4. /\ Values("uint") = Uints /\ Values("float") = Floats
      /\ Values("bytes") = Texts /\ Values("string") = Texts
  BY DEF Values
<1>5. "uint" \in Kinds /\ "float" \in Kinds /\ "bytes" \in Kinds /\ "string" \in Kinds
  BY DEF Kinds
<1>6. Seal \/ Built(fields', buf', sealed')
  BY <1>2, <1>4, <1>5, Zenon DEF Next
<1> QED BY <1>1, <1>3, <1>6 DEF BuiltNow

LEMMA BuiltInductive == FramingSpec => []BuiltNow
<1>1. FramingInit => BuiltNow
  BY BuiltInit DEF FramingInit
<1>2. BuiltNow /\ UNCHANGED vars => BuiltNow'
  BY DEF BuiltNow, TypeOK, vars
<1>3. BuiltNow /\ [FramingNext]_<<vars, framingVars>> => BuiltNow'
  <2>1. CASE Next
    BY <2>1, BuiltStep
  <2>2. CASE UNCHANGED vars
    BY <1>2, <2>2
  <2>3. [FramingNext]_<<vars, framingVars>> => Next \/ UNCHANGED vars
    BY Zenon DEF FramingNext, ykp_packet_serialise, buildPacket, Stray, ykp_packet_parse, parsePacket,
       ykp_security_decrypt, Plain
  <2> QED BY <2>1, <2>2, <2>3
<1> QED BY <1>1, <1>3, PTL DEF FramingSpec

-----------------------------------------------------------------------------
(* What the readers make of a sealed payload.                              *)

Starts(fs, n) == [j \in 1 .. n + 1 |-> End(fs, j - 1) + 1]

\* The first n fields, if all are whole, are visited one after the other.
LEMMA FieldsVisited ==
  ASSUME ShortTexts, NEW fs, NEW b \in Seq(Byte), Built(fs, b, TRUE),
         NEW n \in 0 .. Len(fs), AllOk(fs, n), End(fs, n) < Len(b)
  PROVE  /\ Visits(b, Starts(fs, n), n)
         /\ \A j \in 1 .. n : Entry(b, Starts(fs, n)[j]) =
              [type |-> fs[j].type, value |-> Value(fs[j])]
<1> DEFINE at == Starts(fs, n)
<1>1. fs \in Seq(FieldRecords) /\ Len(fs) \in Nat /\ Len(b) \in Nat /\ Len(b) >= 2
  BY LenProperties DEF Built, Framed
<1>2. Consecutive(fs) /\ Laid(fs, b, TRUE)
  BY DEF Built
<1>3. \A j \in 1 .. n + 1 : at[j] = End(fs, j - 1) + 1
  BY DEF Starts
<1>4. at[1] = 2
  BY <1>1, <1>3 DEF End
<1>5. ASSUME NEW j \in 1 .. n
      PROVE  /\ fs[j].at = at[j] /\ at[j] \in 2 .. Len(b) + 1
             /\ at[j + 1] = at[j] + Len(Enc(fs[j])) /\ at[j + 1] \in 2 .. Len(b) + 1
             /\ Len(Enc(fs[j])) \in Nat
             /\ Lies(b, at[j], Enc(fs[j]))
             /\ fs[j].type \in Types /\ fs[j].kind \in Kinds /\ fs[j].v \in Values(fs[j].kind)
  <2>1. j \in 1 .. Len(fs) /\ j \in 1 .. n + 1 /\ j + 1 \in 1 .. n + 1 /\ (j + 1) - 1 = j
    BY <1>1
  <2>2. AllOk(fs, j) /\ AllOk(fs, j - 1)
    BY <1>1 DEF AllOk
  <2>3. /\ fs[j].at \in Nat /\ fs[j].at >= 2 /\ Len(Enc(fs[j])) \in Nat /\ Len(Enc(fs[j])) >= 1
        /\ End(fs, j) = fs[j].at + Len(Enc(fs[j])) - 1
    BY <1>1, <1>2, <2>1, <2>2, FieldStarts
  <2>4. fs[j].at = at[j]
    BY <1>2, <1>3, <2>1, <2>2 DEF Consecutive
  <2>5. at[j + 1] = at[j] + Len(Enc(fs[j]))
    BY <1>3, <2>1, <2>3, <2>4
  <2>6. End(fs, j) < Len(b)
    <3>1. CASE j = n
      BY <3>1
    <3>2. CASE j # n
      <4>1. n \in 1 .. Len(fs) /\ j \in 1 .. n - 1
        BY <1>1, <3>2
      <4>2. End(fs, j) < fs[n].at
        BY <1>2, <2>2, <4>1 DEF Consecutive
      <4>3. /\ fs[n].at \in Nat /\ Len(Enc(fs[n])) \in Nat /\ Len(Enc(fs[n])) >= 1
            /\ End(fs, n) = fs[n].at + Len(Enc(fs[n])) - 1
        BY <1>1, <1>2, <4>1, FieldStarts
      <4> QED BY <1>1, <2>3, <4>2, <4>3
    <3> QED BY <3>1, <3>2
  <2>7. at[j] \in 2 .. Len(b) + 1 /\ at[j + 1] \in 2 .. Len(b) + 1
    BY <1>1, <2>3, <2>4, <2>5, <2>6
  <2>8. Lies(b, at[j], Enc(fs[j]))
    <3>1. at[j] + Len(Enc(fs[j])) - 1 <= Len(b)
      BY <1>1, <2>3, <2>4, <2>6
    <3>2. ASSUME NEW m \in 1 .. Len(Enc(fs[j])) PROVE b[at[j] + m - 1] = Enc(fs[j])[m]
      <4>1. fs[j].at + m <= Len(b)
        <5> DEFINE a == fs[j].at  e == Len(Enc(fs[j]))  z == Len(b)
        <5>1. a \in Nat /\ e \in Nat /\ z \in Nat /\ m \in 1 .. e /\ a + e - 1 < z
          BY <1>1, <2>3, <2>6
        <5> HIDE DEF a, e, z
        <5>2. a + m <= z
          BY <5>1
        <5> QED BY <5>2 DEF a, z
      <4>2. b[fs[j].at + m - 1] = Enc(fs[j])[m]
        BY <1>2, <2>1, <2>2, <4>1 DEF Laid
      <4> QED BY <2>4, <4>2
    <3> QED BY <3>1, <3>2 DEF Lies
  <2>9. fs[j] \in FieldRecords
    BY <1>1, <2>1, ElementOfSeq
  <2> QED BY <2>3, <2>4, <2>5, <2>7, <2>8, <2>9 DEF FieldRecords
<1> HIDE DEF at
<1>6. ASSUME NEW j \in 1 .. n
      PROVE  /\ ~ Stops(b, at[j]) /\ Onward(b, at[j]) = at[j + 1]
             /\ Entry(b, at[j]) = [type |-> fs[j].type, value |-> Value(fs[j])]
  <2>0. /\ at[j] \in 2 .. Len(b) + 1 /\ at[j + 1] \in 2 .. Len(b) + 1
        /\ fs[j].type \in Types /\ fs[j].kind \in Kinds /\ fs[j].v \in Values(fs[j].kind)
    BY <1>5, Zenon
  <2>1. at[j] \in Nat \ {0}
    BY <1>1, <2>0
  <2>2. Lies(b, at[j], Encoding(fs[j].type, fs[j].kind, fs[j].v))
    BY <1>5 DEF Enc
  <2>3. /\ ~ Stops(b, at[j])
        /\ NextAt(b, at[j]) = at[j] + Len(Encoding(fs[j].type, fs[j].kind, fs[j].v))
        /\ Entry(b, at[j]) = [type |-> fs[j].type,
                              value |-> HeaderOf(fs[j].kind, fs[j].v) \o DataOf(fs[j].kind, fs[j].v)]
    BY <2>0, <2>1, <2>2, FieldReads
  <2>4. NextAt(b, at[j]) = at[j + 1]
    BY <1>5, <2>3 DEF Enc
  <2>5. at[j + 1] \in Int /\ Len(b) + 1 \in Int /\ at[j + 1] <= Len(b) + 1
    BY <1>1, <2>0
  <2>6. Onward(b, at[j]) = at[j + 1]
    BY <2>4, <2>5, MinOfTwo DEF Onward
  <2> QED BY <2>3, <2>6 DEF Value
<1>7. \A k \in 1 .. n + 1 : at[k] \in 2 .. Len(b) + 1
  <2> TAKE k \in 1 .. n + 1
  <2>1. CASE k = 1
    BY <1>1, <1>4, <2>1
  <2>2. CASE k # 1
    <3>1. k - 1 \in 1 .. n /\ (k - 1) + 1 = k
      BY <2>2
    <3>2. at[(k - 1) + 1] \in 2 .. Len(b) + 1
      BY <1>5, <3>1
    <3> QED BY <3>1, <3>2
  <2> QED BY <2>1, <2>2
<1> QED BY <1>4, <1>6, <1>7 DEF Visits, at

\* The whole payload, in order.
LEMMA WholePayload ==
  ASSUME ShortTexts, NEW fs, NEW b \in Seq(Byte), Built(fs, b, TRUE),
         AllOk(fs, Len(fs)), End(fs, Len(fs)) < Len(b)
  PROVE  parseTlv(b) = [k \in 1 .. Len(fs) |-> [type |-> fs[k].type, value |-> Value(fs[k])]]
<1> DEFINE n == Len(fs)
           at == Starts(fs, n)
           P == ParseFrom(b)[2]
<1>1. n \in Nat /\ n \in 0 .. n /\ Len(b) \in Nat /\ Len(b) >= 2 /\ b[Len(b)] = Break
  BY LenProperties DEF Built, Framed
<1>2. /\ Visits(b, at, n)
      /\ \A j \in 1 .. n : Entry(b, at[j]) = [type |-> fs[j].type, value |-> Value(fs[j])]
  BY <1>1, FieldsVisited
<1>3. at[n + 1] = Len(b)
  <2>1. Len(b) = End(fs, n) + 1
    BY DEF Built, Framed
  <2>2. n + 1 \in 1 .. n + 1 /\ (n + 1) - 1 = n
    BY <1>1
  <2>3. at[n + 1] = End(fs, n) + 1
    BY <2>2 DEF Starts
  <2> QED BY <2>1, <2>3
<1>4. ParseFrom(b)[Len(b)] = <<>>
  <2>1. Stops(b, Len(b))
    BY <1>1 DEF Stops, At
  <2>2. Len(b) \in 2 .. Len(b) + 1
    BY <1>1
  <2>3. ParseFrom(b)[Len(b)] = ParseStep(b, ParseFrom(b), Len(b))
    BY <2>2, ParseUnfolds
  <2> QED BY <2>1, <2>3, Zenon DEF ParseStep
<1> HIDE DEF at
<1>5. /\ P \in Seq(Entries(b)) /\ Len(P) = n + Len(ParseFrom(b)[at[n + 1]])
      /\ \A k \in 1 .. n : P[k] = Entry(b, at[k])
  BY <1>1, <1>2, ParseVisits
<1>6. Len(P) = n
  BY <1>1, <1>3, <1>4, <1>5, NoBytes
<1>7. P = [k \in 1 .. n |-> [type |-> fs[k].type, value |-> Value(fs[k])]]
  <2>1. P = [k \in 1 .. n |-> P[k]]
    <3> HIDE DEF P, n
    <3> QED BY <1>5, <1>6
  <2> HIDE DEF P, n
  <2> QED BY <1>2, <1>5, <2>1
<1> QED BY <1>1, <1>7, ParseIsFrom

\* The first field of its type, whatever comes behind it.
LEMMA FirstOfType ==
  ASSUME ShortTexts, NEW fs, NEW b \in Seq(Byte), Built(fs, b, TRUE),
         NEW n \in 1 .. Len(fs), AllOk(fs, n), End(fs, n) < Len(b),
         \A j \in 1 .. n - 1 : fs[j].type # fs[n].type
  PROVE  findTlv(b, fs[n].type) = Value(fs[n]) /\ ykp_tlv_find(b, fs[n].type) = Value(fs[n])
<1> DEFINE at == Starts(fs, n)
           P == parseTlv(b)
           type == fs[n].type
<1>1. n \in Nat /\ n > 0 /\ n \in 0 .. Len(fs) /\ Len(b) \in Nat /\ Len(b) >= 2 /\ b[1] = MapStart
  BY LenProperties DEF Built, Framed
<1>2. /\ Visits(b, at, n)
      /\ \A j \in 1 .. n : Entry(b, at[j]) = [type |-> fs[j].type, value |-> Value(fs[j])]
  BY <1>1, FieldsVisited
<1> HIDE DEF at
<1>3. \A j \in 1 .. n : Entry(b, at[j]).type = fs[j].type /\ Entry(b, at[j]).value = Value(fs[j])
  <2> TAKE j \in 1 .. n
  <2>1. Entry(b, at[j]) = [type |-> fs[j].type, value |-> Value(fs[j])]
    BY <1>2
  <2> QED BY <2>1
<1>4. n \in 1 .. n /\ \A j \in 1 .. n - 1 : j \in 1 .. n
  BY <1>1
<1>5. ykp_tlv_find(b, type) = Value(fs[n])
  <2>1. Entry(b, at[n]).type = type /\ \A j \in 1 .. n - 1 : Entry(b, at[j]).type # type
    BY <1>3, <1>4
  <2>2. FindFrom(b, type)[2] = Entry(b, at[n]).value
    <3> HIDE DEF type
    <3> QED BY <1>1, <1>2, <2>1, FindVisits
  <2>3. ykp_tlv_find(b, type) = FindFrom(b, type)[2]
    BY <1>1, FindIsFrom
  <2> QED BY <1>3, <1>4, <2>2, <2>3
<1>6. findTlv(b, type) = Value(fs[n])
  <2>1. P = ParseFrom(b)[2]
    BY <1>1, ParseIsFrom
  <2>2. /\ ParseFrom(b)[2] \in Seq(Entries(b))
        /\ Len(ParseFrom(b)[2]) = n + Len(ParseFrom(b)[at[n + 1]])
        /\ \A k \in 1 .. n : ParseFrom(b)[2][k] = Entry(b, at[k])
    BY <1>1, <1>2, ParseVisits
  <2>3. Len(ParseFrom(b)[at[n + 1]]) \in Nat
    <3>1. at[n + 1] \in 2 .. Len(b) + 1
      BY <1>1, <1>2 DEF Visits
    <3>2. ParseFrom(b)[at[n + 1]] \in Seq(Entries(b))
      BY <3>1, ParseTyped
    <3> QED BY <3>2, LenProperties
  <2> HIDE DEF P
  <2>4. DOMAIN P = 1 .. Len(P) /\ Len(P) \in Nat /\ Len(P) >= n
    BY <1>1, <2>1, <2>2, <2>3, LenProperties
  <2> DEFINE hits == {k \in DOMAIN P : P[k].type = type}
  <2>5. n \in hits
    <3>1. n \in DOMAIN P
      BY <1>1, <2>4
    <3>2. P[n] = Entry(b, at[n])
      BY <1>4, <2>1, <2>2
    <3>3. P[n].type = type
      BY <1>3, <1>4, <3>2
    <3> QED BY <3>1, <3>3
  <2>6. \A k \in hits : k \in Nat /\ n <= k
    <3> SUFFICES ASSUME NEW k \in hits, ~ (n <= k) PROVE FALSE
      BY <2>4
    <3>1. k \in 1 .. n - 1 /\ k \in 1 .. n
      BY <1>1, <2>4
    <3>2. P[k].type = fs[k].type
      BY <1>3, <2>1, <2>2, <3>1
    <3> QED BY <3>1, <3>2
  <2>7. Min(hits) = n
    <3>1. \A x \in hits : (\A y \in hits : x <= y) <=> x = n
      <4> HIDE DEF hits
      <4> QED BY <1>1, <2>5, <2>6
    <3> HIDE DEF hits
    <3> QED BY <1>1, <2>5, <2>6, <3>1 DEF Min
  <2>8. findTlv(b, type) = IF hits = {} THEN <<>> ELSE P[Min(hits)].value
    BY Zenon DEF findTlv, P
  <2>9. P[n].value = Value(fs[n])
    BY <1>3, <1>4, <2>1, <2>2
  <2> HIDE DEF hits
  <2> QED BY <2>5, <2>7, <2>8, <2>9
<1> QED BY <1>5, <1>6

LEMMA SealedReadsAsBuilt == ASSUME ShortTexts, BuiltNow PROVE ReadsAsBuilt
<1> SUFFICES ASSUME sealed, \A k \in 1 .. Len(fields) : Whole(k)
             PROVE  parseTlv(buf) = [k \in 1 .. Len(fields) |->
                                      [type |-> fields[k].type, value |-> Value(fields[k])]]
  BY DEF ReadsAsBuilt
<1> DEFINE n == Len(fields)
<1>1. sealed = TRUE /\ buf \in Seq(Byte)
  BY DEF BuiltNow, TypeOK
<1>2. Built(fields, buf, TRUE)
  BY <1>1 DEF BuiltNow
<1>3. n \in Nat /\ fields \in Seq(FieldRecords) /\ Len(buf) \in Nat /\ Len(buf) >= 2
  BY <1>1, <1>2, LenProperties DEF Built, Framed
<1>4. AllOk(fields, n) /\ End(fields, n) < Len(buf)
  <2>1. CASE n = 0
    BY <1>3, <2>1 DEF AllOk, End
  <2>2. CASE n # 0
    <3>1. n \in 1 .. n
      BY <1>3, <2>2
    <3>2. Whole(n)
      BY <3>1
    <3> QED BY <2>2, <3>2 DEF Whole, AllOk, End, Enc
  <2> QED BY <2>1, <2>2
<1> QED BY <1>1, <1>2, <1>4, WholePayload

LEMMA SealedFieldsSurvive == ASSUME ShortTexts, BuiltNow PROVE WholeFieldsSurvive
<1> SUFFICES ASSUME sealed, NEW k \in 1 .. Len(fields), Whole(k), FirstOfItsType(k)
             PROVE  /\ Found(fields[k].type) = Value(fields[k])
                    /\ fields[k].kind = "uint" => ReadUint(Found(fields[k].type)) = fields[k].v
                    /\ fields[k].kind = "string" => ReadString(Found(fields[k].type)) = fields[k].v
  BY DEF WholeFieldsSurvive
<1>1. sealed = TRUE /\ buf \in Seq(Byte)
  BY DEF BuiltNow, TypeOK
<1>2. Built(fields, buf, TRUE)
  BY <1>1 DEF BuiltNow
<1>3. Len(fields) \in Nat /\ fields[k] \in FieldRecords
  BY <1>2, LenProperties, ElementOfSeq DEF Built
<1>4. AllOk(fields, k) /\ End(fields, k) < Len(buf)
  <2>1. k # 0
    BY <1>3
  <2> QED BY <2>1 DEF Whole, AllOk, End, Enc
<1>5. \A j \in 1 .. k - 1 : fields[j].type # fields[k].type
  BY DEF FirstOfItsType
<1>6. Found(fields[k].type) = Value(fields[k])
  BY <1>1, <1>2, <1>4, <1>5, FirstOfType DEF Found
<1>7. fields[k].kind \in Kinds /\ fields[k].v \in Values(fields[k].kind)
  BY <1>3 DEF FieldRecords
<1>8. ASSUME fields[k].kind = "uint" PROVE ReadUint(Value(fields[k])) = fields[k].v
  <2>1. fields[k].v \in Uints
    BY <1>7, <1>8 DEF Values
  <2>2. Value(fields[k]) = EncodeUint(fields[k].v) \o <<>>
    BY <1>8 DEF Value, HeaderOf, DataOf
  <2>3. EncodeUint(fields[k].v) \in Seq(Byte)
    BY <2>1, UintBytes
  <2>4. EncodeUint(fields[k].v) \o <<>> = EncodeUint(fields[k].v)
    BY <2>3, ConcatEmptySeq
  <2> QED BY <2>1, <2>2, <2>4, ReadUintBack
<1>9. ASSUME fields[k].kind = "string" PROVE ReadString(Value(fields[k])) = fields[k].v
  <2>1. fields[k].v \in Texts
    BY <1>7, <1>9 DEF Values
  <2>2. Value(fields[k]) = StringHeader(96, Len(fields[k].v)) \o fields[k].v
    BY <1>9 DEF Value, HeaderOf, DataOf
  <2>3. fields[k].v \in Seq(Byte) /\ Len(fields[k].v) < 256
    BY <2>1, CodecConstants DEF ShortTexts
  <2> QED BY <2>2, <2>3, ReadStringBack
<1> QED BY <1>6, <1>8, <1>9

\* ReadsAsBuilt, for payloads of any fields in any buffer: a payload whose adds
\* all succeeded and that kept room for the break is read by parseTlv as its
\* fields in order and nothing else.  Texts must be shorter than 256 bytes:
\* cbor_encode_str and addString announce longer ones with a length cut to one byte.
THEOREM PayloadReadsAsBuilt == ASSUME ShortTexts PROVE FramingSpec => []ReadsAsBuilt
<1>1. BuiltNow => ReadsAsBuilt
  BY SealedReadsAsBuilt
<1> QED BY <1>1, BuiltInductive, PTL

\* WholeFieldsSurvive, likewise: findTlv and ykp_tlv_find return the bytes of the
\* first field of a type, even when a later field was cut off, and numbers and
\* texts decode to what the builder was given.
THEOREM PayloadFieldsSurvive == ASSUME ShortTexts PROVE FramingSpec => []WholeFieldsSurvive
<1>1. BuiltNow => WholeFieldsSurvive
  BY SealedFieldsSurvive
<1> QED BY <1>1, BuiltInductive, PTL
=============================================================================
