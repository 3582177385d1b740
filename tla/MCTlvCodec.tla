---------------------------- MODULE MCTlvCodec ----------------------------
EXTENDS PacketFraming

\* n bytes that look like a break (255), a long key (24) or a field (4).
Filled(n, byte) == [i \in 1 .. n |-> byte]

MCTexts == {<<>>} \union {Filled(n, b) : n \in {24, 30}, b \in {4, 255}}

\* Lengths that wrap the 16-bit sums, and their neighbours.
MCClaims == {0, 90, 91, 65486, 65487, 65500, 65535}
MCSizes == {48, 49, 60, 139, 140}
=============================================================================
