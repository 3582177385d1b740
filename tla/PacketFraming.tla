--------------------------- MODULE PacketFraming ---------------------------
(***************************************************************************)
(* The packet around a payload: a header that says how long the payload    *)
(* is, the payload, and the authentication tag.  One payload is built      *)
(* (TlvCodec), put in a packet and read by the other side; the device also *)
(* receives frames nobody here built, cut short or with any length in      *)
(* their header.  The device computes lengths in 16 bits.                  *)
(*                                                                         *)
(* Of the header only the length is kept.  Frames carry the bytes of the   *)
(* payload, or none when the sender is not known.                          *)
(***************************************************************************)
EXTENDS TlvCodec

CONSTANTS HeaderSize, TagSize,
          RawSize,    \* sizeof(raw) of the firmware's caller
          StaticBuf,  \* YKP_STATIC_PAYLOAD_BUF
          StackBuf,   \* sizeof(stack_buf) of ykp_security_decrypt
          Claims, Sizes  \* lengths and sizes of frames of unknown origin

ASSUME FramingAssumption ==
    /\ {HeaderSize, TagSize, RawSize, StaticBuf, StackBuf} \subseteq Nat
    /\ HeaderSize + Cap + TagSize < 65536 /\ HeaderSize + StaticBuf + TagSize < 65536
    /\ Claims \cup Sizes \subseteq Nat /\ \A n \in Claims \cup Sizes : n < 65536

VARIABLES stage,   \* "build", "framed", "received", "open" or "dropped"
          frame,   \* the packet on its way
          written, \* bytes the firmware stored in the caller's raw buffer
          got,     \* the payload its receiver works on
          copied   \* bytes ykp_security_decrypt stored in its stack buffer

framingVars == <<stage, frame, written, got, copied>>

U16(n) == n % 65536

NoFrame == [from |-> "nobody", claims |-> 0, size |-> 0, payload |-> <<>>]

-----------------------------------------------------------------------------
(* Sending.                                                                *)

\* The device leaves out the length of a payload it has no memory to copy.
ykp_packet_set_payload(mem) == IF mem THEN buf ELSE <<>>

\* Fault: the tag is not counted.
TotalWithoutTag(n) == U16(HeaderSize + n)
Total(n) == U16(HeaderSize + n + TagSize)

\* ykp_packet_serialise: nothing when the caller's buffer is too small.
ykp_packet_serialise ==
    /\ stage = "build" /\ sealed /\ builder = "firmware"
    /\ \E mem \in BOOLEAN :
        LET payload == ykp_packet_set_payload(mem)  n == Len(payload) IN
        IF Total(n) > RawSize
        THEN stage' = "dropped" /\ UNCHANGED <<frame, written>>
        ELSE /\ stage' = "framed"
             /\ written' = HeaderSize + n + TagSize
             /\ frame' = [from |-> "firmware", claims |-> n, size |-> Total(n), payload |-> payload]
    /\ UNCHANGED <<vars, got, copied>>

buildPacket ==
    /\ stage = "build" /\ sealed /\ builder = "server"
    /\ stage' = "framed"
    /\ frame' = [from |-> "server", claims |-> Len(buf),
                 size |-> HeaderSize + Len(buf) + TagSize, payload |-> buf]
    /\ UNCHANGED <<vars, written, got, copied>>

\* Something else arrives at the device, before the server built anything.
Stray ==
    /\ stage = "build" /\ builder = "server" /\ fields = <<>>
    /\ \E claims \in Claims, size \in Sizes :
        frame' = [from |-> "stranger", claims |-> claims, size |-> size, payload |-> <<>>]
    /\ stage' = "framed"
    /\ UNCHANGED <<vars, written, got, copied>>

-----------------------------------------------------------------------------
(* Receiving.                                                              *)

validate_header == frame.size >= HeaderSize + TagSize

\* Fault: any payload is taken to fit the receive buffer.
FitsAlways == TRUE
FitsStatic == frame.claims <= StaticBuf

ykp_packet_parse ==
    /\ stage = "framed" /\ frame.from # "firmware"
    /\ IF validate_header /\ frame.size >= Total(frame.claims) /\ FitsStatic
       THEN stage' = "received" /\ got' = frame.payload
       ELSE stage' = "dropped" /\ UNCHANGED got
    /\ UNCHANGED <<vars, frame, written, copied>>

parsePacket ==
    /\ stage = "framed" /\ frame.from = "firmware"
    /\ IF frame.size >= HeaderSize + TagSize /\ frame.size >= HeaderSize + frame.claims + TagSize
       THEN stage' = "open" /\ got' = frame.payload
       ELSE stage' = "dropped" /\ UNCHANGED got
    /\ UNCHANGED <<vars, frame, written, copied>>

\* Fault: the tag that is joined to the ciphertext is not counted.
StackHoldsCiphertext(n) == n <= StackBuf
StackHolds(n) == n + TagSize <= StackBuf

\* ykp_security_decrypt of a packet marked as encrypted, in place: refused with
\* no key, no room or a wrong tag.
ykp_security_decrypt ==
    /\ stage = "received"
    /\ \/ StackHolds(frame.claims) /\ copied' = frame.claims + TagSize /\ stage' \in {"open", "dropped"}
       \/ stage' = "dropped" /\ UNCHANGED copied
    /\ UNCHANGED <<vars, frame, written, got>>

\* A packet that is not encrypted is used as it is.
Plain ==
    /\ stage = "received" /\ stage' = "open"
    /\ UNCHANGED <<vars, frame, written, got, copied>>

FramingInit ==
    /\ Init
    /\ stage = "build" /\ frame = NoFrame /\ written = 0 /\ got = <<>> /\ copied = 0

FramingNext ==
    \/ stage = "build" /\ Next /\ UNCHANGED framingVars
    \/ ykp_packet_serialise \/ buildPacket \/ Stray
    \/ ykp_packet_parse \/ parsePacket \/ ykp_security_decrypt \/ Plain

FramingSpec == FramingInit /\ [][FramingNext]_<<vars, framingVars>>

-----------------------------------------------------------------------------
(* Properties.                                                             *)

\* The device stores nothing behind the buffers it was given: neither the one a
\* payload is built in, nor the raw buffer of the caller of ykp_packet_serialise,
\* nor the stack buffer of ykp_security_decrypt.
BuffersHold ==
    /\ builder = "firmware" => Len(buf) <= Cap
    /\ written <= RawSize
    /\ copied <= StackBuf

\* A frame the device accepts holds all that its header announces, also when the
\* announced length makes the 16-bit sum of ykp_packet_parse wrap around: the
\* check against the static buffer, made after that sum, keeps the parser from
\* reading behind the frame.
ReadsInside ==
    stage = "received" => /\ HeaderSize + frame.claims + TagSize <= frame.size
                          /\ frame.claims <= StaticBuf

\* A frame the device sent is never refused by the server, and its fields are
\* those the device built (or none, when it had no memory for them).
ServerReadsDevice ==
    frame.from = "firmware" /\ stage \in {"open", "dropped"} =>
        stage = "open" /\ parseTlv(got) \in {parseTlv(buf), <<>>}
=============================================================================
