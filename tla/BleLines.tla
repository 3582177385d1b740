------------------------------ MODULE BleLines ------------------------------
(***************************************************************************)
(* From BLE writes to commands: gatt_svr_chr_access and json_task of       *)
(* esp32-firmware config/ble_provision.c.  Writes cut the phone's lines    *)
(* anywhere.  A byte is the number of the write it came in, or NL.         *)
(***************************************************************************)
EXTENDS Integers, Sequences

CONSTANTS MAX_CHUNK_SIZE,  \* 513: one more than a write keeps
          RX_BUF_SIZE,     \* 4096
          RX_SLOTS,        \* 4, of rx_queue
          MaxWrites        \* bound

ASSUME BleLinesAssumption ==
    /\ {MAX_CHUNK_SIZE, RX_BUF_SIZE, RX_SLOTS, MaxWrites} \subseteq Nat
    /\ MAX_CHUNK_SIZE > 0 /\ RX_BUF_SIZE > 1

NL == 0

VARIABLES
    chunks,      \* rx_queue
    rx_buffer,   \* its first rx_accumulation_len bytes
    lines,       \* what process_json_command was called with, an NL after each
    stream,      \* bytes taken from the queue
    writes       \* writes so far

bleVars == <<chunks, rx_buffer, lines, stream, writes>>

Bytes == 0 .. MaxWrites

BleTypeOK ==
    /\ chunks \in Seq(Seq(Bytes)) /\ Len(chunks) <= RX_SLOTS
    /\ \A i \in DOMAIN chunks : Len(chunks[i]) < MAX_CHUNK_SIZE
    /\ rx_buffer \in Seq(Bytes) /\ Len(rx_buffer) <= RX_BUF_SIZE - 2
    /\ lines \in Seq(Bytes) /\ stream \in Seq(Bytes)
    /\ writes \in 0 .. MaxWrites

BleInit == chunks = <<>> /\ rx_buffer = <<>> /\ lines = <<>> /\ stream = <<>> /\ writes = 0

-----------------------------------------------------------------------------

Clamp(data) == SubSeq(data, 1, IF Len(data) >= MAX_CHUNK_SIZE THEN MAX_CHUNK_SIZE - 1
                               ELSE Len(data))

\* What does not fit into the queue is lost; the write itself is accepted.
gatt_svr_chr_access(data) ==
    /\ writes < MaxWrites /\ writes' = writes + 1
    /\ chunks' = IF Len(chunks) < RX_SLOTS THEN Append(chunks, Clamp(data)) ELSE chunks
    /\ UNCHANGED <<rx_buffer, lines, stream>>

Overflows(data) == Len(rx_buffer) + Len(data) >= RX_BUF_SIZE - 1

\* What does not fit resets the buffer, the half line in it included.
RxOverflow ==
    /\ chunks # <<>> /\ Overflows(Head(chunks))
    /\ chunks' = Tail(chunks)
    /\ rx_buffer' = <<>> /\ stream' = <<>> /\ lines' = <<>>
    /\ UNCHANGED writes

\* Fault: the newline stays in the buffer.
RemainingOffByOne(buffer, newline) == SubSeq(buffer, newline, Len(buffer))

\* memmove of what is behind the line.
Remaining(buffer, newline) == SubSeq(buffer, newline + 1, Len(buffer))

\* A chunk is appended, and the first line in the buffer, if there is one, is
\* executed: one line a chunk.
json_task ==
    /\ chunks # <<>> /\ ~ Overflows(Head(chunks))
    /\ chunks' = Tail(chunks)
    /\ stream' = stream \o Head(chunks)
    /\ LET buffer   == rx_buffer \o Head(chunks)
           newlines == {i \in DOMAIN buffer : buffer[i] = NL}
       IN  \/ /\ newlines = {}
              /\ rx_buffer' = buffer
              /\ UNCHANGED lines
           \/ \E newline \in newlines :
              /\ \A other \in newlines : newline <= other
              /\ lines' = lines \o Append(SubSeq(buffer, 1, newline - 1), NL)
              /\ rx_buffer' = Remaining(buffer, newline)
    /\ UNCHANGED writes

\* Some ways to cut lines into writes.
Writes(k) == {<<k>>, <<NL>>, <<k, NL>>, <<NL, k>>, <<k, NL, k, NL>>}

BleNext ==
    \/ \E data \in Writes(writes + 1) : gatt_svr_chr_access(data)
    \/ RxOverflow
    \/ json_task

BleSpec == BleInit /\ [][BleNext]_bleVars

-----------------------------------------------------------------------------

\* The lines executed, in order, and what is left in the buffer are exactly
\* the bytes received since the buffer last overflowed: however the writes cut
\* them, no byte is lost, executed twice or moved to another line.
LinesAreTheStream == lines \o rx_buffer = stream
=============================================================================
