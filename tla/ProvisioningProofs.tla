------------------------- MODULE ProvisioningProofs -------------------------
(***************************************************************************)
(* A power loss at any point of confirm_provision or of the first boot     *)
(* leaves a configuration the device can be trusted to run with, for any   *)
(* number of phones, tasks, commands and power losses; and the certificate *)
(* of a handshake is not replaced under it.                                *)
(***************************************************************************)
EXTENDS Provisioning, SequenceTheorems, TLAPS

LEMMA Numbers ==
  /\ CERT_CHUNKS \in Nat /\ RX_QUEUE \in Nat /\ RX_BUFFER \in Nat
  /\ MaxCommands \in Nat /\ MaxFaults \in Nat
BY ProvisioningAssumption, Zenon

LEMMA NoneIsNothing == None \notin Strings /\ None \notin Keys /\ None \notin Tasks
BY ProvisioningAssumption, Zenon DEF Strings, Keys

-----------------------------------------------------------------------------
(* Values of the right kind.                                               *)

LEMMA FaultTyped ==
  ASSUME faults \in 0 .. MaxFaults, Fault
  PROVE  faults' \in 0 .. MaxFaults
BY Numbers DEF Fault

FlashTyped == nvs \in Flash /\ excused \in BOOLEAN /\ faults \in 0 .. MaxFaults

LEMMA SetString ==
  ASSUME FlashTyped, NEW v \in Stored,
         NEW field \in {"wifi_ssid", "wifi_password", "server_url"}, nvs_config_set(field, v)
  PROVE  FlashTyped'
<1>1. CASE nvs' = [nvs EXCEPT ![field] = v] /\ UNCHANGED <<excused, faults>>
  BY <1>1 DEF FlashTyped, Flash
<1>2. CASE Fault /\ excused' = TRUE /\ UNCHANGED nvs
  BY <1>2, FaultTyped DEF FlashTyped
<1> QED BY <1>1, <1>2 DEF nvs_config_set

LEMMA SetKey ==
  ASSUME FlashTyped, NEW v \in Keys,
         NEW field \in {"private_key", "public_key"}, nvs_config_set(field, v)
  PROVE  FlashTyped'
<1>1. CASE nvs' = [nvs EXCEPT ![field] = v] /\ UNCHANGED <<excused, faults>>
  BY <1>1 DEF FlashTyped, Flash
<1>2. CASE Fault /\ excused' = TRUE /\ UNCHANGED nvs
  BY <1>2, FaultTyped DEF FlashTyped
<1> QED BY <1>1, <1>2 DEF nvs_config_set

LEMMA SetPublicKey ==
  ASSUME FlashTyped, NEW v \in Keys \cup {None}, nvs_config_set("public_key", v)
  PROVE  FlashTyped'
<1>1. CASE nvs' = [nvs EXCEPT !["public_key"] = v] /\ UNCHANGED <<excused, faults>>
  BY <1>1 DEF FlashTyped, Flash
<1>2. CASE Fault /\ excused' = TRUE /\ UNCHANGED nvs
  BY <1>2, FaultTyped DEF FlashTyped
<1> QED BY <1>1, <1>2 DEF nvs_config_set

LEMMA SetCertificate ==
  ASSUME FlashTyped, NEW v \in Certs, nvs_config_set("ssl_cert", v)
  PROVE  FlashTyped'
<1>1. CASE nvs' = [nvs EXCEPT !["ssl_cert"] = v] /\ UNCHANGED <<excused, faults>>
  BY <1>1 DEF FlashTyped, Flash
<1>2. CASE Fault /\ excused' = TRUE /\ UNCHANGED nvs
  BY <1>2, FaultTyped DEF FlashTyped
<1> QED BY <1>1, <1>2 DEF nvs_config_set

LEMMA AppendedTyped ==
  ASSUME NEW chunks \in Certs, NEW data \in Chunks
  PROVE  Appended(chunks, data) \in Certs
<1>1. CASE Len(chunks) < CERT_CHUNKS
  <2>1. chunks \in Seq(Chunks) /\ Len(chunks) \in Nat
    BY LenProperties DEF Certs
  <2>2. Append(chunks, data) \in Seq(Chunks) /\ Len(Append(chunks, data)) = Len(chunks) + 1
    BY <2>1, AppendProperties
  <2> QED BY <1>1, <2>1, <2>2, Numbers DEF Certs, Appended
<1>2. CASE ~ (Len(chunks) < CERT_CHUNKS)
  BY <1>2 DEF Appended
<1> QED BY <1>1, <1>2

LEMMA NoCert == <<>> \in Certs
<1>1. <<>> \in Seq(Chunks) /\ Len(<<>>) = 0
  BY EmptySeq, Zenon
<1>2. 0 <= CERT_CHUNKS
  BY Numbers
<1> QED BY <1>1, <1>2, Zenon DEF Certs

LinesTyped ==
    /\ rx_queue \in Seq(Writes) /\ Len(rx_queue) <= RX_QUEUE
    /\ rx_buffer \in Seq(Pieces) /\ Len(rx_buffer) <= RX_BUFFER

LEMMA NoWrites ==
  /\ <<>> \in Seq(Writes) /\ <<>> \in Seq(Pieces) /\ Len(<<>>) = 0
  /\ 0 <= RX_QUEUE /\ 0 <= RX_BUFFER
<1>1. <<>> \in Seq(Writes) /\ <<>> \in Seq(Pieces) /\ Len(<<>>) = 0
  BY EmptySeq, Zenon
<1>2. 0 <= RX_QUEUE /\ 0 <= RX_BUFFER
  BY Numbers
<1> QED BY <1>1, <1>2

LEMMA WriteIsSeq ==
  ASSUME NEW data \in Writes PROVE data \in Seq(Pieces)
<1>1. CASE \E m \in Pieces : data = <<m>>
  BY <1>1
<1>2. CASE \E m \in Commands, n \in Pieces : data = <<m, n>>
  <2>1. PICK m \in Commands, n \in Pieces : data = <<m, n>>
    BY <1>2
  <2>2. m \in Pieces
    BY Zenon DEF Pieces
  <2> QED BY <2>1, <2>2
<1>3. \/ \E m \in Pieces : data = <<m>>
      \/ \E m \in Commands, n \in Pieces : data = <<m, n>>
  <2> HIDE DEF Pieces, Commands
  <2> QED BY DEF Writes
<1> QED BY <1>1, <1>2, <1>3, Zenon

LEMMA ReceivedTyped ==
  ASSUME LinesTyped, Receives
  PROVE  /\ Received \in Seq(Pieces)
         /\ rx_queue' \in Seq(Writes) /\ Len(rx_queue') <= RX_QUEUE
<1>1. rx_queue \in Seq(Writes) /\ rx_queue # <<>> /\ rx_queue' = Tail(rx_queue)
  BY Zenon DEF LinesTyped, Receives
<1>2. /\ Head(rx_queue) \in Writes
      /\ Tail(rx_queue) \in Seq(Writes) /\ Len(Tail(rx_queue)) = Len(rx_queue) - 1
  BY <1>1, HeadTailProperties, Zenon
<1>3. Len(rx_queue) \in Nat
  BY <1>1, LenProperties
<1>4. rx_buffer \in Seq(Pieces) /\ Head(rx_queue) \in Seq(Pieces)
  BY <1>2, WriteIsSeq, Zenon DEF LinesTyped
<1>5. Received \in Seq(Pieces)
  BY <1>4, ConcatProperties, Zenon DEF Received
<1>6. Len(rx_queue) <= RX_QUEUE
  BY DEF LinesTyped
<1> QED BY <1>1, <1>2, <1>3, <1>5, <1>6, Numbers

LEMMA TakeTyped ==
  ASSUME LinesTyped, NEW m, Take(m)
  PROVE  LinesTyped'
<1>1. Receives /\ Len(Received) <= RX_BUFFER
  BY Zenon DEF Take
<1>2. Received \in Seq(Pieces) /\ Len(Received) \in Nat
  BY <1>1, ReceivedTyped, LenProperties
<1>3. PICK i \in DOMAIN Received : rx_buffer' = SubSeq(Received, i + 1, Len(Received))
  BY Zenon DEF Take
<1>4. i \in 1 .. Len(Received)
  BY <1>2, LenProperties
<1>5. i + 1 \in 1 .. Len(Received) + 1 /\ Len(Received) \in (i + 1) - 1 .. Len(Received)
  BY <1>2, <1>4
<1>6. /\ rx_buffer' \in Seq(Pieces)
      /\ Len(rx_buffer') = Len(Received) - (i + 1) + 1
  BY <1>2, <1>3, <1>5, SubSeqProperties
<1>7. Len(rx_buffer') <= RX_BUFFER
  BY <1>1, <1>2, <1>4, <1>6, Numbers
<1> QED BY <1>1, <1>6, <1>7, ReceivedTyped, Zenon DEF LinesTyped

LEMMA WriteTyped ==
  ASSUME LinesTyped, NEW data \in Writes, UNCHANGED rx_buffer,
         rx_queue' = IF Len(rx_queue) < RX_QUEUE THEN Append(rx_queue, data) ELSE rx_queue
  PROVE  LinesTyped'
<1>1. CASE Len(rx_queue) < RX_QUEUE
  <2>1. rx_queue \in Seq(Writes) /\ Len(rx_queue) \in Nat
    BY LenProperties DEF LinesTyped
  <2>2. Append(rx_queue, data) \in Seq(Writes) /\ Len(Append(rx_queue, data)) = Len(rx_queue) + 1
    BY <2>1, AppendProperties
  <2>3. Len(rx_queue') <= RX_QUEUE
    BY <1>1, <2>1, <2>2, Numbers
  <2> QED BY <1>1, <2>2, <2>3, Zenon DEF LinesTyped
<1>2. CASE ~ (Len(rx_queue) < RX_QUEUE)
  BY <1>2, Zenon DEF LinesTyped
<1> QED BY <1>1, <1>2

LEMMA StartTyped ==
  ASSUME tasks \in [Tasks -> Works], NEW pc \in Pcs, Start(pc)
  PROVE  tasks' \in [Tasks -> Works]
<1>1. [pc |-> pc, result |-> ""] \in Works
  BY DEF Works, SslResults
<1>2. CASE \E t \in Tasks : tasks' = [tasks EXCEPT ![t] = [pc |-> pc, result |-> ""]]
  <2>1. PICK t \in Tasks : tasks' = [tasks EXCEPT ![t] = [pc |-> pc, result |-> ""]]
    BY <1>2, Zenon
  <2> HIDE DEF Works
  <2> QED BY <1>1, <2>1
<1> QED BY <1>2, Zenon DEF Start

LEMMA GotoTyped ==
  ASSUME tasks \in [Tasks -> Works], NEW t \in Tasks, NEW pc \in Pcs
  PROVE  Goto(t, pc) \in Works
BY DEF Goto, Works

LEMMA Empties ==
  /\ Cleared \in Sessions /\ Idle \in Confirmations /\ NoTask \in Works
BY DEF Cleared, Sessions, Idle, Confirmations, NoTask, Works, Strings, States, SslResults,
       Snapshots, Pcs

LEMMA RamTyped ==
  ASSUME RamCleared
  PROVE  /\ s_session' \in Sessions /\ cert' \in Certs /\ cert_mutex' \in Tasks \cup {None}
         /\ s_scan_ack_received' \in BOOLEAN /\ LinesTyped'
         /\ phone' \in {"away", "connected", "subscribed"} /\ host' \in {"idle", "clearing"}
         /\ json' \in Confirmations /\ tasks' \in [Tasks -> Works] /\ commit_ok' \in BOOLEAN
<1>1. LinesTyped' /\ cert' \in Certs
  BY NoWrites, NoCert, Zenon DEF RamCleared, LinesTyped
<1>2. s_session' \in Sessions /\ json' \in Confirmations /\ tasks' \in [Tasks -> Works]
  BY Empties, Zenon DEF RamCleared
<1> QED BY <1>1, <1>2, Zenon DEF RamCleared

LEMMA TypeInit == Init => TypeOK
<1> SUFFICES ASSUME Init PROVE TypeOK
  OBVIOUS
<1>1. cert \in Certs /\ s_session \in Sessions /\ json \in Confirmations
      /\ tasks \in [Tasks -> Works]
  BY NoCert, Empties, Zenon DEF Init
<1>2. nvs \in Flash
  <2>1. PICK id \in BOOLEAN, wifi \in Creds \cup {None}, key \in {"key1", None} :
          nvs = [device_id |-> id, wifi_ssid |-> wifi, wifi_password |-> wifi,
                 server_url |-> None, ssl_cert |-> <<>>,
                 private_key |-> key, public_key |-> key]
    BY Zenon DEF Init
  <2> HIDE DEF Certs
  <2> QED BY <2>1, NoCert DEF Flash, Stored, Strings, Keys
<1>3. LinesTyped
  BY NoWrites, Zenon DEF Init, LinesTyped
<1>4. commands \in 0 .. MaxCommands /\ faults \in 0 .. MaxFaults
  BY Numbers DEF Init
<1> QED BY <1>1, <1>2, <1>3, <1>4, Zenon DEF Init, TypeOK, LinesTyped

LEMMA TypeBoot == TypeOK /\ Boot => TypeOK'
<1> SUFFICES ASSUME TypeOK, Boot PROVE TypeOK'
  OBVIOUS
<1>t. FlashTyped
  BY Zenon DEF TypeOK, FlashTyped
<1>1. CASE BootProvisioned
  BY <1>1, Zenon DEF TypeOK, BootProvisioned, ram
<1>2. CASE BootBle
  BY <1>2, Zenon DEF TypeOK, BootBle, ram
<1>3. CASE BootBleFails
  <2>1. faults' \in 0 .. MaxFaults
    BY <1>3, FaultTyped, Zenon DEF TypeOK, BootBleFails
  <2> QED BY <1>3, <2>1, Zenon DEF TypeOK, BootBleFails, ram
<1>4. CASE BootErases
  <2>1. faults' \in 0 .. MaxFaults
    BY <1>4, FaultTyped, Zenon DEF TypeOK, BootErases
  <2>2. nvs' \in Flash
    BY <1>4, NoCert DEF BootErases, Flash, Stored
  <2> QED BY <1>4, <2>1, <2>2, Zenon DEF TypeOK, BootErases, ram
<1>5. CASE SecurityInit
  BY <1>5, Zenon DEF TypeOK, SecurityInit, ram
<1>6. CASE GenerateKey
  <2>1. pair' \in Keys /\ nvs_config_set("private_key", pair')
    BY <1>6, Zenon DEF GenerateKey, NewPair
  <2>2. FlashTyped'
    BY <1>t, <2>1, SetKey
  <2> QED BY <1>6, <2>1, <2>2, Zenon DEF TypeOK, GenerateKey, NewPair, ram, FlashTyped
<1>7. CASE StorePublicKey
  <2>1. FlashTyped' /\ pair' \in Keys \cup {None}
    <3>1. pair' = None /\ nvs_config_set("public_key", pair)
      BY <1>7, Zenon DEF StorePublicKey
    <3>2. pair \in Keys \cup {None}
      BY Zenon DEF TypeOK
    <3> QED BY <1>t, <3>1, <3>2, SetPublicKey, Zenon
  <2> QED BY <1>7, <2>1, Zenon DEF TypeOK, StorePublicKey, ram, FlashTyped
<1>10. CASE ReplaceKey
  <2>1. pair' \in Keys /\ nvs' = [nvs EXCEPT !.private_key = pair'] /\ excused' = TRUE
    BY <1>10, Zenon DEF ReplaceKey, NewPair
  <2>2. nvs' \in Flash
    BY <1>t, <2>1 DEF FlashTyped, Flash
  <2>3. faults' \in 0 .. MaxFaults
    BY <1>10, FaultTyped, Zenon DEF TypeOK, ReplaceKey
  <2> QED BY <1>10, <2>1, <2>2, <2>3, Zenon DEF TypeOK, ReplaceKey, NewPair, ram
<1>11. CASE GenerateKeyUnexported
  <2>1. faults' \in 0 .. MaxFaults
    BY <1>11, FaultTyped, Zenon DEF TypeOK, GenerateKeyUnexported
  <2> QED BY <1>11, <2>1, Zenon DEF TypeOK, GenerateKeyUnexported, NewPair, ram
<1>8. CASE SecurityInitFails
  <2>1. faults' \in 0 .. MaxFaults
    BY <1>8, FaultTyped, Zenon DEF TypeOK, SecurityInitFails
  <2> QED BY <1>8, <2>1, RamTyped, Zenon DEF TypeOK, SecurityInitFails, LinesTyped
<1>9. CASE WsInit
  <2>1. FlashTyped'
    <3>1. CASE UNCHANGED <<nvs, excused, faults>>
      BY <1>t, <3>1, Zenon DEF FlashTyped
    <3>2. CASE nvs_config_set("ssl_cert", <<>>)
      BY <1>t, <3>2, SetCertificate, NoCert, Zenon
    <3> QED BY <1>9, <3>1, <3>2, Zenon DEF WsInit
  <2> QED BY <1>9, <2>1, Zenon DEF TypeOK, WsInit, ram, FlashTyped
<1> QED BY <1>1, <1>2, <1>3, <1>4, <1>5, <1>6, <1>7, <1>8, <1>9, <1>10, <1>11,
           Zenon DEF Boot

LEMMA TypeHost == TypeOK /\ Host => TypeOK'
<1> SUFFICES ASSUME TypeOK, Host PROVE TypeOK'
  OBVIOUS
<1>1. CASE GapConnect
  BY <1>1, Zenon DEF TypeOK, GapConnect
<1>2. CASE GapSubscribe
  <2>1. s_session' \in Sessions
    BY <1>2 DEF GapSubscribe, TypeOK, Sessions, States
  <2>2. "scan_start" \in Pcs
    BY DEF Pcs
  <2>3. tasks' \in [Tasks -> Works]
    BY <1>2, <2>2, StartTyped, Zenon DEF GapSubscribe, TypeOK
  <2> QED BY <1>2, <2>1, <2>3, Zenon DEF TypeOK, GapSubscribe
<1>3. CASE GapDisconnect
  <2>1. faults' \in 0 .. MaxFaults
    BY <1>3, FaultTyped, Zenon DEF TypeOK, GapDisconnect
  <2> QED BY <1>3, <2>1, Empties, Zenon DEF TypeOK, GapDisconnect
<1>4. CASE ClearCert
  BY <1>4, NoCert, Zenon DEF TypeOK, ClearCert
<1>5. ASSUME NEW data \in Writes, Write(data) PROVE TypeOK'
  <2>1. commands' \in 0 .. MaxCommands
    <3>1. Len(data) \in Nat
      BY WriteIsSeq, LenProperties
    <3> QED BY <1>5, <3>1, Numbers DEF TypeOK, Write
  <2>2. LinesTyped'
    BY <1>5, WriteTyped, Zenon DEF TypeOK, Write, LinesTyped
  <2> QED BY <1>5, <2>1, <2>2, Zenon DEF TypeOK, Write, LinesTyped
<1> QED BY <1>1, <1>2, <1>3, <1>4, <1>5, Zenon DEF Host

\* What a command of the phone changes besides the queue.
LEMMA TypeTake ==
  ASSUME TypeOK, NEW m, Take(m),
         FlashTyped', s_session' \in Sessions, cert' \in Certs, s_scan_ack_received' \in BOOLEAN,
         json' \in Confirmations, tasks' \in [Tasks -> Works]
  PROVE  TypeOK'
<1>1. LinesTyped'
  BY TakeTyped, Zenon DEF TypeOK, LinesTyped
<1> QED BY <1>1, Zenon DEF Take, TypeOK, LinesTyped, FlashTyped

\* A write that runs no line.
LEMMA TypeReceives ==
  ASSUME TypeOK, RxOverflow \/ Accumulate
  PROVE  TypeOK'
<1>t. LinesTyped /\ Receives
  BY Zenon DEF TypeOK, LinesTyped, RxOverflow, Accumulate
<1>1. LinesTyped'
  <2>1. CASE RxOverflow
    BY <1>t, <2>1, ReceivedTyped, NoWrites, Zenon DEF RxOverflow, LinesTyped
  <2>2. CASE Accumulate
    BY <1>t, <2>2, ReceivedTyped, Zenon DEF Accumulate, LinesTyped
  <2> QED BY <2>1, <2>2
<1> QED BY <1>1, Zenon DEF TypeOK, LinesTyped, RxOverflow, Accumulate

LEMMA TypeConfirmStep ==
  ASSUME TypeOK, NEW pc, NEW next \in {"psk", "url", "cert", "ack", "restart"},
         ConfirmStep(pc, next), FlashTyped', commit_ok' \in BOOLEAN
  PROVE  TypeOK'
<1>1. json' \in Confirmations
  BY DEF ConfirmStep, TypeOK, Confirmations
<1> QED BY <1>1, Zenon DEF ConfirmStep, TypeOK, FlashTyped

LEMMA TypeJson == TypeOK /\ Json => TypeOK'
<1> SUFFICES ASSUME TypeOK, Json PROVE TypeOK'
  OBVIOUS
<1>t. FlashTyped /\ s_session \in Sessions /\ json \in Confirmations
      /\ tasks \in [Tasks -> Works] /\ cert \in Certs /\ s_scan_ack_received \in BOOLEAN
  BY Zenon DEF TypeOK, FlashTyped
<1>p. "scan_start" \in Pcs /\ "wifi_start" \in Pcs /\ "val_start" \in Pcs
  BY DEF Pcs
<1>u. ASSUME UNCHANGED <<nvs, excused, faults>> PROVE FlashTyped'
  BY <1>t, <1>u, Zenon DEF FlashTyped
<1>1. CASE Answer
  BY <1>1, <1>t, <1>u, TypeTake, Zenon DEF Answer
<1>2. CASE ScanAck
  BY <1>2, <1>t, <1>u, TypeTake, Zenon DEF ScanAck
<1>0. CASE RxOverflow \/ Accumulate
  BY <1>0, TypeReceives
<1>3. ASSUME NEW c \in Creds, SendWifi(c) PROVE TypeOK'
  <2>1. s_session' \in Sessions
    BY <1>3, <1>t DEF SendWifi, Sessions, Strings
  <2>2. tasks' \in [Tasks -> Works]
    BY <1>3, <1>t, <1>p, StartTyped, Zenon DEF SendWifi
  <2> QED BY <1>3, <1>t, <1>u, <2>1, <2>2, TypeTake, Zenon DEF SendWifi
<1>4. ASSUME NEW c \in Creds, SendServer(c) PROVE TypeOK'
  <2>1. s_session' \in Sessions
    BY <1>4, <1>t DEF SendServer, Sessions, Strings
  <2> QED BY <1>4, <1>t, <1>u, <2>1, TypeTake, Zenon DEF SendServer
<1>5. ASSUME NEW c \in Creds, SendCreds(c) PROVE TypeOK'
  <2>1. s_session' \in Sessions
    BY <1>5, <1>t DEF SendCreds, Sessions, Strings
  <2> QED BY <1>5, <1>t, <1>u, <2>1, TypeTake, Zenon DEF SendCreds
<1>6. CASE Rescan
  <2>1. tasks' \in [Tasks -> Works]
    BY <1>6, <1>t, <1>p, StartTyped, Zenon DEF Rescan
  <2> QED BY <1>6, <1>t, <1>u, <2>1, TypeTake, Zenon DEF Rescan
<1>7. CASE Commit
  <2>1. tasks' \in [Tasks -> Works]
    BY <1>7, <1>t, <1>p, StartTyped, Zenon DEF Commit
  <2> QED BY <1>7, <1>t, <1>u, <2>1, TypeTake, Zenon DEF Commit
<1>8. ASSUME NEW first \in BOOLEAN, NEW data \in Chunks, SetCert(first, data) PROVE TypeOK'
  <2>1. (IF first THEN <<>> ELSE cert) \in Certs
    BY <1>t, NoCert, Zenon
  <2>2. cert' \in Certs
    BY <1>8, <2>1, AppendedTyped, Zenon DEF SetCert
  <2> QED BY <1>8, <1>t, <1>u, <2>2, TypeTake, Zenon DEF SetCert
<1>9. CASE Confirm
  <2>1. s_session' \in Sessions /\ json' \in Confirmations
    BY <1>9, <1>t DEF Confirm, Sessions, States, Confirmations, Snapshots
  <2> QED BY <1>9, <1>t, <1>u, <2>1, TypeTake, Zenon DEF Confirm
<1>10. CASE StoreSsid
  <2>1. json.t.ssid \in Stored
    BY <1>t DEF Confirmations, Snapshots, Stored
  <2>2. FlashTyped' /\ commit_ok' \in BOOLEAN
    BY <1>10, <1>t, <2>1, SetString, Zenon DEF StoreSsid, TypeOK
  <2> QED BY <1>10, <2>2, TypeConfirmStep, Zenon DEF StoreSsid
<1>11. CASE StorePsk
  <2>1. json.t.psk \in Stored
    BY <1>t DEF Confirmations, Snapshots, Stored
  <2>2. FlashTyped' /\ commit_ok' \in BOOLEAN
    BY <1>11, <1>t, <2>1, SetString, Zenon DEF StorePsk, TypeOK
  <2> QED BY <1>11, <2>2, TypeConfirmStep, Zenon DEF StorePsk
<1>12. CASE StoreUrl
  <2>1. json.t.host \in Stored
    BY <1>t DEF Confirmations, Snapshots, Stored
  <2>2. FlashTyped' /\ commit_ok' \in BOOLEAN
    BY <1>12, <1>t, <2>1, SetString, Zenon DEF StoreUrl, TypeOK
  <2> QED BY <1>12, <2>2, TypeConfirmStep, Zenon DEF StoreUrl
<1>13. CASE StoreCert
  <2>1. FlashTyped' /\ commit_ok' \in BOOLEAN
    BY <1>13, <1>t, <1>u, SetCertificate, Zenon DEF StoreCert, TypeOK
  <2> QED BY <1>13, <2>1, TypeConfirmStep, Zenon DEF StoreCert
<1>14. CASE ConfirmAck
  <2>1. commit_ok' \in BOOLEAN
    BY <1>14, Zenon DEF ConfirmAck
  <2> QED BY <1>14, <1>u, <2>1, TypeConfirmStep, Zenon DEF ConfirmAck
<1>15. CASE ConfirmRestart
  BY <1>15, RamTyped, Zenon DEF TypeOK, ConfirmRestart, LinesTyped
<1> QED BY <1>0, <1>1, <1>2, <1>3, <1>4, <1>5, <1>6, <1>7, <1>8, <1>9, <1>10, <1>11, <1>12,
           <1>13, <1>14, <1>15, Zenon DEF Json

\* A step of a background task, given where it goes next.
LEMMA TypeStep ==
  ASSUME TypeOK, NEW t \in Tasks, NEW task \in Works, NEW st \in States \cup {None},
         Step(t, task, st), cert_mutex' \in Tasks \cup {None}, s_scan_ack_received' \in BOOLEAN
  PROVE  TypeOK'
<1>1. s_session' \in Sessions
  <2>1. CASE st = None
    BY <2>1, Zenon DEF Step, TypeOK
  <2>2. CASE st # None
    BY <2>2 DEF Step, TypeOK, Sessions
  <2> QED BY <2>1, <2>2
<1>2. tasks' \in [Tasks -> Works]
  BY DEF Step, TypeOK
<1> QED BY <1>1, <1>2, Zenon DEF Step, TypeOK

LEMMA TypeBackground == \A t \in Tasks : TypeOK /\ Background(t) => TypeOK'
<1> SUFFICES ASSUME NEW t \in Tasks, TypeOK, Background(t) PROVE TypeOK'
  OBVIOUS
<1>m. NoTask \in Works
  BY Empties
<1>g. \A pc \in Pcs : Goto(t, pc) \in Works
  BY GotoTyped, Zenon DEF TypeOK
<1>k. cert_mutex \in Tasks \cup {None} /\ s_scan_ack_received \in BOOLEAN
  BY Zenon DEF TypeOK
<1>s. /\ "WIFI_CONNECT" \in States /\ "CREDS_RECV" \in States /\ "FAULT" \in States
      /\ "SSL_VALIDATE" \in States /\ "UDP_PROBE" \in States /\ "REPORT_WAIT" \in States
  BY DEF States
<1>p. /\ "wifi_connect" \in Pcs /\ "scan_wait" \in Pcs /\ "val_wifi" \in Pcs
      /\ "val_cert" \in Pcs /\ "val_ssl" \in Pcs /\ "val_result" \in Pcs
      /\ "val_fault" \in Pcs /\ "val_probe" \in Pcs /\ "val_bind" \in Pcs
      /\ "val_report" \in Pcs
  BY DEF Pcs
<1>1. CASE wifi_connect_task(t)
  BY <1>1, <1>m, <1>g, <1>k, <1>s, <1>p, TypeStep, Zenon DEF wifi_connect_task
<1>2. CASE wifi_scan_task(t)
  <2>1. (IF s_scan_ack_received THEN "CREDS_RECV" ELSE "FAULT") \in States
    BY <1>s, Zenon
  <2> QED BY <1>2, <1>m, <1>g, <1>k, <2>1, <1>p, TypeStep, Zenon DEF wifi_scan_task
<1>3. CASE ValidateWifi(t)
  BY <1>3, <1>m, <1>g, <1>k, <1>s, <1>p, TypeStep, Zenon DEF ValidateWifi
<1>4. CASE ValidateLock(t)
  BY <1>4, <1>g, <1>k, <1>p, TypeStep, Zenon DEF ValidateLock
<1>5. CASE ValidateSsl(t)
  <2>1. PICK result \in SslResults : Step(t, [pc |-> "val_result", result |-> result], None)
    BY <1>5, Zenon DEF ValidateSsl
  <2>2. [pc |-> "val_result", result |-> result] \in Works
    BY <1>p DEF Works
  <2> QED BY <1>5, <1>k, <2>1, <2>2, TypeStep, Zenon DEF ValidateSsl
<1>6. CASE ValidateResult(t)
  <2>1. tasks' \in [Tasks -> Works]
    <3>1. tasks' = [tasks EXCEPT ![t].pc = IF tasks[t].result = "ca_failed_fallback_failed"
                                           THEN "val_fault" ELSE "val_probe",
                                 ![t].result = ""]
      BY <1>6, Zenon DEF ValidateResult
    <3>2. tasks \in [Tasks -> Works]
      BY Zenon DEF TypeOK
    <3>3. "" \in SslResults
      BY DEF SslResults
    <3> QED BY <1>p, <3>1, <3>2, <3>3 DEF Works
  <2>2. s_session' \in Sessions
    BY <1>6 DEF ValidateResult, TypeOK, Works, Sessions
  <2> QED BY <1>6, <2>1, <2>2, Zenon DEF ValidateResult, TypeOK
<1>7. CASE ValidateProbe(t)
  BY <1>7, <1>m, <1>g, <1>k, <1>s, <1>p, TypeStep, Zenon DEF ValidateProbe
<1> QED BY <1>1, <1>2, <1>3, <1>4, <1>5, <1>6, <1>7, Zenon DEF Background

LEMMA TypePowerLoss == TypeOK /\ PowerLoss => TypeOK'
<1> SUFFICES ASSUME TypeOK, PowerLoss PROVE TypeOK'
  OBVIOUS
<1>1. faults' \in 0 .. MaxFaults
  BY FaultTyped, Zenon DEF TypeOK, PowerLoss
<1> QED BY <1>1, RamTyped, Zenon DEF TypeOK, PowerLoss, LinesTyped

\* Whatever phones send and whenever the power goes, flash, session,
\* certificate, queue and tasks keep their shape: in particular neither the
\* certificate buffer nor the queue of writes nor rx_buffer grows past its end.
THEOREM ProvisioningTyped == SafetySpec => []TypeOK
<1>1. TypeOK /\ [Next]_vars => TypeOK'
  <2> SUFFICES ASSUME TypeOK, [Next]_vars PROVE TypeOK'
    OBVIOUS
  <2>1. CASE UNCHANGED vars
    BY <2>1, Zenon DEF vars, ram, TypeOK
  <2> QED BY <2>1, TypeBoot, TypeHost, TypeJson, TypePowerLoss, TypeBackground, Zenon DEF Next
<1> QED BY <1>1, TypeInit, PTL DEF SafetySpec

-----------------------------------------------------------------------------
(* The configuration: what json_task has copied, written and answered.     *)

\* A name and its password come from one command and are cleared together.
SentTogether == s_session.ssid = s_session.psk /\ json.t.ssid = json.t.psk

\* json_task runs under BLE only, and answers when everything is written.
OnlyInBle ==
    /\ mode # "ble" => json.pc = "idle"
    /\ commit_ok => json.pc = "restart"

\* Behind each write flash holds the copy.
WrittenSoFar ==
    /\ json.pc \in {"psk", "url", "cert", "ack", "restart"} => nvs.wifi_ssid = json.t.ssid
    /\ json.pc \in {"url", "cert", "ack", "restart"} => nvs.wifi_password = json.t.psk
    /\ json.pc \in {"cert", "ack", "restart"} => nvs.server_url = json.t.host

\* The password is written last of the two, and never over another: a device
\* with an identity and a password does not come up under BLE.
NotHalf ==
    /\ nvs.device_id /\ nvs.wifi_password # None => nvs.wifi_ssid = nvs.wifi_password
    /\ mode \notin {"off", "ble"} => nvs.device_id /\ nvs.wifi_password # None
    /\ mode = "ble" /\ nvs.device_id /\ json.pc \in {"idle", "ssid", "psk"} =>
         nvs.wifi_password = None

ConfirmInv == SentTogether /\ OnlyInBle /\ (~ excused => WrittenSoFar /\ NotHalf)

\* What other steps leave alone.
LEMMA ConfirmQuiet ==
  ASSUME ConfirmInv, UNCHANGED <<mode, nvs, json, commit_ok, excused>>,
         s_session'.ssid = s_session'.psk
  PROVE  ConfirmInv'
BY DEF ConfirmInv, SentTogether, OnlyInBle, WrittenSoFar, NotHalf

\* After a restart only flash is left.
LEMMA ConfirmRestarts ==
  ASSUME ConfirmInv, UNCHANGED <<nvs, excused>>, mode' = "off", RamCleared
  PROVE  ConfirmInv'
<1>1. s_session' = Cleared /\ json' = Idle /\ commit_ok' = FALSE
  BY DEF RamCleared
<1> QED BY <1>1 DEF ConfirmInv, SentTogether, OnlyInBle, WrittenSoFar, NotHalf, Cleared, Idle

\* Boot steps that write neither the WiFi configuration nor the session.
LEMMA ConfirmBoots ==
  ASSUME ConfirmInv, UNCHANGED <<s_session, json, commit_ok>>,
         mode # "ble", mode' \notin {"off", "ble"},
         nvs'.device_id = nvs.device_id, nvs'.wifi_ssid = nvs.wifi_ssid,
         nvs'.wifi_password = nvs.wifi_password, excused => excused',
         ~ excused' => nvs.device_id /\ nvs.wifi_password # None
  PROVE  ConfirmInv'
BY DEF ConfirmInv, SentTogether, OnlyInBle, WrittenSoFar, NotHalf

\* Writing another field, or failing to.
LEMMA OtherFields ==
  ASSUME FlashTyped, NEW v, NEW field \in {"private_key", "public_key", "ssl_cert"},
         nvs_config_set(field, v)
  PROVE  /\ nvs'.device_id = nvs.device_id /\ nvs'.wifi_ssid = nvs.wifi_ssid
         /\ nvs'.wifi_password = nvs.wifi_password /\ nvs'.server_url = nvs.server_url
         /\ excused => excused'
<1>1. CASE nvs' = [nvs EXCEPT ![field] = v] /\ UNCHANGED <<excused, faults>>
  BY <1>1 DEF FlashTyped, Flash
<1>2. CASE Fault /\ excused' = TRUE /\ UNCHANGED nvs
  BY <1>2
<1> QED BY <1>1, <1>2 DEF nvs_config_set

LEMMA ConfirmInit == Init => ConfirmInv
<1> SUFFICES ASSUME Init PROVE ConfirmInv
  OBVIOUS
<1>1. PICK id \in BOOLEAN, wifi \in Creds \cup {None}, key \in {"key1", None} :
        nvs = [device_id |-> id, wifi_ssid |-> wifi, wifi_password |-> wifi,
               server_url |-> None, ssl_cert |-> <<>>,
               private_key |-> key, public_key |-> key]
  BY Zenon DEF Init
<1>2. nvs.wifi_ssid = nvs.wifi_password
  BY <1>1
<1>3. mode = "off" /\ s_session = Cleared /\ json = Idle /\ commit_ok = FALSE
  BY Zenon DEF Init
<1> QED BY <1>2, <1>3 DEF ConfirmInv, SentTogether, OnlyInBle, WrittenSoFar, NotHalf, Cleared, Idle

LEMMA ConfirmBoot == TypeOK /\ ConfirmInv /\ Boot => ConfirmInv'
<1> SUFFICES ASSUME TypeOK, ConfirmInv, Boot PROVE ConfirmInv'
  OBVIOUS
<1>t. FlashTyped
  BY Zenon DEF TypeOK, FlashTyped
<1>1. CASE BootProvisioned
  BY <1>1, ConfirmBoots DEF BootProvisioned, is_provisioned, ram
<1>2. CASE BootBle
  <2>1. /\ UNCHANGED <<s_session, nvs, json, commit_ok, excused>> /\ mode = "off" /\ mode' = "ble"
        /\ ~ (nvs.device_id /\ nvs.wifi_ssid # None /\ nvs.wifi_password # None)
    BY <1>2, Zenon DEF BootBle, is_provisioned, ram
  <2> QED BY <2>1 DEF ConfirmInv, SentTogether, OnlyInBle, WrittenSoFar, NotHalf
<1>3. CASE BootBleFails
  BY <1>3, ConfirmBoots DEF BootBleFails, ram
<1>4. CASE BootErases
  <2>1. /\ UNCHANGED <<s_session, mode, json, commit_ok, excused>> /\ mode = "off"
        /\ nvs' = [device_id |-> FALSE, wifi_ssid |-> None, wifi_password |-> None,
                   server_url |-> None, ssl_cert |-> <<>>,
                   private_key |-> None, public_key |-> None]
    BY <1>4, Zenon DEF BootErases, ram
  <2>2. ~ nvs'.device_id
    BY <2>1
  <2> QED BY <2>1, <2>2 DEF ConfirmInv, SentTogether, OnlyInBle, WrittenSoFar, NotHalf
<1>k. mode \notin {"off", "ble"} => (~ excused => nvs.device_id /\ nvs.wifi_password # None)
  BY DEF ConfirmInv, NotHalf
<1>5. CASE SecurityInit
  BY <1>5, <1>k, ConfirmBoots DEF SecurityInit, ram
<1>6. CASE GenerateKey
  BY <1>6, <1>k, <1>t, OtherFields, ConfirmBoots DEF GenerateKey, NewPair, ram
<1>10. CASE ReplaceKey
  <2>1. nvs' = [nvs EXCEPT !.private_key = pair'] /\ excused'
    BY <1>10 DEF ReplaceKey
  <2>2. /\ nvs'.device_id = nvs.device_id /\ nvs'.wifi_ssid = nvs.wifi_ssid
        /\ nvs'.wifi_password = nvs.wifi_password
    BY <1>t, <2>1 DEF FlashTyped, Flash
  <2> QED BY <1>10, <2>1, <2>2, ConfirmBoots DEF ReplaceKey, NewPair, ram
<1>11. CASE GenerateKeyUnexported
  BY <1>11, ConfirmBoots DEF GenerateKeyUnexported, NewPair, ram
<1>7. CASE StorePublicKey
  <2>1. PICK v : nvs_config_set("public_key", v)
    BY <1>7, Zenon DEF StorePublicKey
  <2> QED BY <1>7, <1>k, <1>t, <2>1, OtherFields, ConfirmBoots DEF StorePublicKey, ram
<1>8. CASE SecurityInitFails
  BY <1>8, ConfirmRestarts, Zenon DEF SecurityInitFails
<1>9. CASE WsInit
  <2>1. CASE UNCHANGED <<nvs, excused, faults>>
    BY <1>9, <1>k, <2>1, ConfirmBoots DEF WsInit, ram
  <2>2. CASE nvs_config_set("ssl_cert", <<>>)
    BY <1>9, <1>k, <1>t, <2>2, OtherFields, ConfirmBoots DEF WsInit, ram
  <2> QED BY <1>9, <2>1, <2>2, Zenon DEF WsInit
<1> QED BY <1>1, <1>2, <1>3, <1>4, <1>5, <1>6, <1>7, <1>8, <1>9, <1>10, <1>11,
           Zenon DEF Boot

LEMMA ConfirmHost == TypeOK /\ ConfirmInv /\ Host => ConfirmInv'
<1> SUFFICES ASSUME TypeOK, ConfirmInv, Host PROVE ConfirmInv'
  OBVIOUS
<1>s. s_session.ssid = s_session.psk /\ s_session \in Sessions
  BY DEF ConfirmInv, SentTogether, TypeOK
<1>1. CASE GapConnect
  BY <1>1, <1>s, ConfirmQuiet, Zenon DEF GapConnect
<1>2. CASE GapSubscribe
  <2>1. s_session'.ssid = s_session'.psk
    BY <1>2, <1>s DEF GapSubscribe, Sessions
  <2> QED BY <1>2, <2>1, ConfirmQuiet, Zenon DEF GapSubscribe
<1>3. CASE GapDisconnect
  <2>1. s_session'.ssid = s_session'.psk
    BY <1>3 DEF GapDisconnect, Cleared
  <2> QED BY <1>3, <2>1, ConfirmQuiet, Zenon DEF GapDisconnect
<1>4. CASE ClearCert
  BY <1>4, <1>s, ConfirmQuiet, Zenon DEF ClearCert
<1>5. ASSUME NEW data \in Writes, Write(data) PROVE ConfirmInv'
  BY <1>5, <1>s, ConfirmQuiet, Zenon DEF Write
<1> QED BY <1>1, <1>2, <1>3, <1>4, <1>5, Zenon DEF Host

LEMMA ConfirmJson == TypeOK /\ ConfirmInv /\ Json => ConfirmInv'
<1> SUFFICES ASSUME TypeOK, ConfirmInv, Json PROVE ConfirmInv'
  OBVIOUS
<1>s. s_session.ssid = s_session.psk /\ s_session \in Sessions
  BY DEF ConfirmInv, SentTogether, TypeOK
<1>t. FlashTyped /\ json \in Confirmations
  BY Zenon DEF TypeOK, FlashTyped
<1>0. CASE RxOverflow \/ Accumulate
  BY <1>0, <1>s, ConfirmQuiet, Zenon DEF RxOverflow, Accumulate
<1>1. CASE Answer
  BY <1>1, <1>s, ConfirmQuiet, Zenon DEF Answer, Take
<1>2. CASE ScanAck
  BY <1>2, <1>s, ConfirmQuiet, Zenon DEF ScanAck, Take
<1>3. ASSUME NEW c \in Creds, SendWifi(c) \/ SendServer(c) \/ SendCreds(c) PROVE ConfirmInv'
  <2>1. \/ s_session' = [s_session EXCEPT !.ssid = c, !.psk = c]
        \/ s_session' = [s_session EXCEPT !.host = c]
        \/ s_session' = [s_session EXCEPT !.ssid = c, !.psk = c, !.host = c]
    BY <1>3, Zenon DEF SendWifi, SendServer, SendCreds
  <2>2. s_session'.ssid = s_session'.psk
    BY <1>s, <2>1 DEF Sessions
  <2> QED BY <1>3, <2>2, ConfirmQuiet, Zenon DEF SendWifi, SendServer, SendCreds, Take
<1>6. CASE Rescan
  BY <1>6, <1>s, ConfirmQuiet, Zenon DEF Rescan, Take
<1>7. CASE Commit
  BY <1>7, <1>s, ConfirmQuiet, Zenon DEF Commit, Take
<1>8. ASSUME NEW first, NEW data, SetCert(first, data) PROVE ConfirmInv'
  BY <1>8, <1>s, ConfirmQuiet, Zenon DEF SetCert, Take
<1>9. CASE Confirm
  <2>1. /\ UNCHANGED <<mode, nvs, commit_ok, excused>> /\ mode = "ble" /\ json.pc = "idle"
        /\ json'.pc = "ssid" /\ json'.t.ssid = s_session.ssid /\ json'.t.psk = s_session.psk
    <3>1. /\ UNCHANGED <<mode, nvs, commit_ok, excused>> /\ mode = "ble" /\ json.pc = "idle"
          /\ json' = [pc |-> "ssid",
                      t  |-> [ssid |-> s_session.ssid, psk |-> s_session.psk,
                              host |-> s_session.host, ssl_result |-> s_session.ssl_result]]
      BY <1>9, Zenon DEF Confirm, Take, Receives
    <3> QED BY <3>1
  <2>2. s_session'.ssid = s_session'.psk
    BY <1>9, <1>s DEF Confirm, Sessions
  <2> QED BY <1>s, <2>1, <2>2
        DEF ConfirmInv, SentTogether, OnlyInBle, WrittenSoFar, NotHalf
<1>j. ASSUME NEW pc, NEW next, ConfirmStep(pc, next)
      PROVE  /\ UNCHANGED <<mode, s_session>> /\ mode = "ble"
             /\ json.pc = pc /\ json'.pc = next /\ json'.t = json.t
  BY <1>j, <1>t DEF ConfirmStep, Confirmations
<1> HIDE DEF ConfirmStep
<1>10. CASE StoreSsid
  <2>1. /\ UNCHANGED <<mode, s_session, commit_ok>> /\ mode = "ble"
        /\ json.pc = "ssid" /\ json'.pc = "psk" /\ json'.t = json.t
    BY <1>10, <1>j DEF StoreSsid
  <2>2. CASE nvs' = [nvs EXCEPT !["wifi_ssid"] = json.t.ssid] /\ UNCHANGED excused
    <3>1. /\ nvs'.wifi_ssid = json.t.ssid /\ nvs'.device_id = nvs.device_id
          /\ nvs'.wifi_password = nvs.wifi_password
      BY <1>t, <2>2 DEF FlashTyped, Flash
    <3> QED BY <2>1, <2>2, <3>1
          DEF ConfirmInv, SentTogether, OnlyInBle, WrittenSoFar, NotHalf
  <2>3. CASE excused'
    BY <2>1, <2>3 DEF ConfirmInv, SentTogether, OnlyInBle
  <2> QED BY <1>10, <2>2, <2>3 DEF StoreSsid, nvs_config_set
<1>11. CASE StorePsk
  <2>1. /\ UNCHANGED <<mode, s_session, commit_ok>> /\ mode = "ble"
        /\ json.pc = "psk" /\ json'.pc = "url" /\ json'.t = json.t
    BY <1>11, <1>j DEF StorePsk
  <2>2. CASE nvs' = [nvs EXCEPT !["wifi_password"] = json.t.psk] /\ UNCHANGED excused
    <3>1. /\ nvs'.wifi_password = json.t.psk /\ nvs'.device_id = nvs.device_id
          /\ nvs'.wifi_ssid = nvs.wifi_ssid
      BY <1>t, <2>2 DEF FlashTyped, Flash
    <3> QED BY <2>1, <2>2, <3>1
          DEF ConfirmInv, SentTogether, OnlyInBle, WrittenSoFar, NotHalf
  <2>3. CASE excused'
    BY <2>1, <2>3 DEF ConfirmInv, SentTogether, OnlyInBle
  <2> QED BY <1>11, <2>2, <2>3 DEF StorePsk, nvs_config_set
<1>12. CASE StoreUrl
  <2>1. /\ UNCHANGED <<mode, s_session, commit_ok>> /\ mode = "ble"
        /\ json.pc = "url" /\ json'.pc \in {"cert", "ack"} /\ json'.t = json.t
    BY <1>12, <1>j DEF StoreUrl
  <2>2. CASE nvs' = [nvs EXCEPT !["server_url"] = json.t.host] /\ UNCHANGED excused
    <3>1. /\ nvs'.server_url = json.t.host /\ nvs'.device_id = nvs.device_id
          /\ nvs'.wifi_ssid = nvs.wifi_ssid /\ nvs'.wifi_password = nvs.wifi_password
      BY <1>t, <2>2 DEF FlashTyped, Flash
    <3> QED BY <2>1, <2>2, <3>1
          DEF ConfirmInv, SentTogether, OnlyInBle, WrittenSoFar, NotHalf
  <2>3. CASE excused'
    BY <2>1, <2>3 DEF ConfirmInv, SentTogether, OnlyInBle
  <2> QED BY <1>12, <2>2, <2>3 DEF StoreUrl, nvs_config_set
<1>13. CASE StoreCert
  <2>1. /\ UNCHANGED <<mode, s_session, commit_ok>> /\ mode = "ble"
        /\ json.pc = "cert" /\ json'.pc = "ack" /\ json'.t = json.t
    BY <1>13, <1>j DEF StoreCert
  <2>2. /\ nvs'.device_id = nvs.device_id /\ nvs'.wifi_ssid = nvs.wifi_ssid
        /\ nvs'.wifi_password = nvs.wifi_password /\ nvs'.server_url = nvs.server_url
        /\ excused => excused'
    <3>1. CASE nvs_config_set("ssl_cert", cert)
      BY <1>t, <3>1, OtherFields
    <3>2. CASE UNCHANGED <<nvs, excused, faults>>
      BY <3>2
    <3> QED BY <1>13, <3>1, <3>2, Zenon DEF StoreCert
  <2> QED BY <2>1, <2>2 DEF ConfirmInv, SentTogether, OnlyInBle, WrittenSoFar, NotHalf
<1>14. CASE ConfirmAck
  <2>1. /\ UNCHANGED <<mode, s_session, nvs, excused>> /\ mode = "ble"
        /\ json.pc = "ack" /\ json'.pc = "restart" /\ json'.t = json.t
    BY <1>14, <1>j DEF ConfirmAck
  <2> QED BY <2>1 DEF ConfirmInv, SentTogether, OnlyInBle, WrittenSoFar, NotHalf
<1>15. CASE ConfirmRestart
  BY <1>15, ConfirmRestarts, Zenon DEF ConfirmRestart
<1> QED BY <1>0, <1>1, <1>2, <1>3, <1>6, <1>7, <1>8, <1>9, <1>10, <1>11, <1>12,
           <1>13, <1>14, <1>15, Zenon DEF Json

\* No background task writes flash, or a name or a password.
LEMMA ConfirmBackground ==
  \A t \in Tasks : TypeOK /\ ConfirmInv /\ Background(t) => ConfirmInv'
<1> SUFFICES ASSUME NEW t \in Tasks, TypeOK, ConfirmInv, Background(t) PROVE ConfirmInv'
  OBVIOUS
<1>s. s_session.ssid = s_session.psk /\ s_session \in Sessions
  BY DEF ConfirmInv, SentTogether, TypeOK
<1>1. ASSUME NEW task, NEW st, Step(t, task, st) PROVE ConfirmInv'
  <2>1. s_session'.ssid = s_session'.psk
    BY <1>1, <1>s DEF Step, Sessions
  <2> QED BY <1>1, <2>1, ConfirmQuiet, Zenon DEF Step
<1>2. CASE ValidateResult(t)
  <2>1. s_session'.ssid = s_session'.psk
    BY <1>2, <1>s DEF ValidateResult, Sessions
  <2> QED BY <1>2, <2>1, ConfirmQuiet, Zenon DEF ValidateResult
<1> QED BY <1>1, <1>2, Zenon DEF Background, wifi_connect_task, wifi_scan_task, ValidateWifi,
           ValidateLock, ValidateSsl, ValidateProbe

LEMMA ConfirmStepped == TypeOK /\ ConfirmInv /\ [Next]_vars => ConfirmInv'
<1> SUFFICES ASSUME TypeOK, ConfirmInv, [Next]_vars PROVE ConfirmInv'
  OBVIOUS
<1>1. CASE UNCHANGED vars
  <2>1. s_session'.ssid = s_session'.psk
    BY <1>1 DEF vars, ram, ConfirmInv, SentTogether
  <2> QED BY <1>1, <2>1, ConfirmQuiet, Zenon DEF vars, ram
<1>2. CASE PowerLoss
  BY <1>2, ConfirmRestarts, Zenon DEF PowerLoss
<1> QED BY <1>1, <1>2, ConfirmBoot, ConfirmHost, ConfirmJson, ConfirmBackground, Zenon DEF Next

LEMMA ConfirmAlways == SafetySpec => []ConfirmInv
BY ConfirmInit, ConfirmStepped, ProvisioningTyped, PTL DEF SafetySpec

\* A device runs with a WiFi name and a password that one phone sent together,
\* wherever between the two writes of confirm_provision the power went.
THEOREM CredentialsPaired == SafetySpec => []PairedCredentials
<1>1. TypeOK /\ ConfirmInv => PairedCredentials
  BY DEF TypeOK, ConfirmInv, NotHalf, PairedCredentials
<1> QED BY <1>1, ConfirmAlways, ProvisioningTyped, PTL

\* A phone that was told commit_ok finds in flash what confirm_provision copied.
THEOREM CommitStored == SafetySpec => []CommitOkIsStored
<1>1. ConfirmInv => CommitOkIsStored
  BY DEF ConfirmInv, OnlyInBle, WrittenSoFar, CommitOkIsStored
<1> QED BY <1>1, ConfirmAlways, PTL

-----------------------------------------------------------------------------
(* The key pair.                                                           *)

\* Between the two writes of a new pair the private key is in flash.
KeyInv ==
    ~ excused =>
       /\ nvs.public_key # None => nvs.public_key = nvs.private_key
       /\ mode = "public_key" => pair = nvs.private_key /\ nvs.public_key = None

LEMMA KeyQuiet ==
  ASSUME KeyInv, UNCHANGED <<mode, pair>>, nvs'.private_key = nvs.private_key,
         nvs'.public_key = nvs.public_key, excused => excused'
  PROVE  KeyInv'
BY DEF KeyInv

\* Steps that begin or end a phase of app_main and write no key.
LEMMA KeyModes ==
  ASSUME KeyInv, mode' # "public_key", nvs'.private_key = nvs.private_key,
         nvs'.public_key = nvs.public_key, excused => excused'
  PROVE  KeyInv'
BY DEF KeyInv

LEMMA NoKeyWritten ==
  ASSUME FlashTyped, NEW v,
         NEW field \in {"wifi_ssid", "wifi_password", "server_url", "ssl_cert"},
         nvs_config_set(field, v)
  PROVE  /\ nvs'.private_key = nvs.private_key /\ nvs'.public_key = nvs.public_key
         /\ excused => excused'
<1>1. CASE nvs' = [nvs EXCEPT ![field] = v] /\ UNCHANGED <<excused, faults>>
  BY <1>1 DEF FlashTyped, Flash
<1>2. CASE Fault /\ excused' = TRUE /\ UNCHANGED nvs
  BY <1>2
<1> QED BY <1>1, <1>2 DEF nvs_config_set

LEMMA KeyBoot == TypeOK /\ KeyInv /\ Boot => KeyInv'
<1> SUFFICES ASSUME TypeOK, KeyInv, Boot PROVE KeyInv'
  OBVIOUS
<1>t. FlashTyped
  BY Zenon DEF TypeOK, FlashTyped
<1>1. CASE BootProvisioned
  BY <1>1, KeyModes DEF BootProvisioned
<1>2. CASE BootBle
  BY <1>2, KeyModes DEF BootBle
<1>3. CASE BootBleFails
  BY <1>3, KeyModes DEF BootBleFails
<1>4. CASE BootErases
  <2>1. mode' = "off" /\ nvs'.public_key = None
    BY <1>4 DEF BootErases
  <2> QED BY <2>1 DEF KeyInv
<1>5. CASE SecurityInit
  BY <1>5, KeyModes DEF SecurityInit
<1>6. CASE GenerateKey
  <2>1. /\ nvs_config_set("private_key", pair') /\ nvs.private_key = None
        /\ mode' = "public_key"
    BY <1>6, Zenon DEF GenerateKey, NewPair
  <2>2. CASE nvs' = [nvs EXCEPT !["private_key"] = pair'] /\ UNCHANGED excused
    <3>1. nvs'.private_key = pair' /\ nvs'.public_key = nvs.public_key
      BY <1>t, <2>2 DEF FlashTyped, Flash
    <3> QED BY <2>1, <2>2, <3>1 DEF KeyInv
  <2>3. CASE excused'
    BY <2>3 DEF KeyInv
  <2> QED BY <2>1, <2>2, <2>3 DEF nvs_config_set
<1>7. CASE StorePublicKey
  <2>1. /\ mode = "public_key" /\ mode' = "ws_init"
        /\ nvs_config_set("public_key", pair)
    BY <1>7, Zenon DEF StorePublicKey
  <2>2. CASE nvs' = [nvs EXCEPT !["public_key"] = pair] /\ UNCHANGED excused
    <3>1. nvs'.private_key = nvs.private_key /\ nvs'.public_key = pair
      BY <1>t, <2>2 DEF FlashTyped, Flash
    <3> QED BY <2>1, <2>2, <3>1 DEF KeyInv
  <2>3. CASE excused'
    BY <2>3 DEF KeyInv
  <2> QED BY <2>1, <2>2, <2>3 DEF nvs_config_set
<1>10. CASE ReplaceKey
  BY <1>10 DEF ReplaceKey, KeyInv
<1>11. CASE GenerateKeyUnexported
  BY <1>11 DEF GenerateKeyUnexported, KeyInv
<1>8. CASE SecurityInitFails
  BY <1>8, KeyModes DEF SecurityInitFails
<1>9. CASE WsInit
  <2>1. CASE UNCHANGED <<nvs, excused, faults>>
    BY <1>9, <2>1, KeyModes DEF WsInit
  <2>2. CASE nvs_config_set("ssl_cert", <<>>)
    BY <1>9, <1>t, <2>2, NoKeyWritten, KeyModes DEF WsInit
  <2> QED BY <1>9, <2>1, <2>2, Zenon DEF WsInit
<1> QED BY <1>1, <1>2, <1>3, <1>4, <1>5, <1>6, <1>7, <1>8, <1>9, <1>10, <1>11,
           Zenon DEF Boot

LEMMA KeyJson == TypeOK /\ KeyInv /\ Json => KeyInv'
<1> SUFFICES ASSUME TypeOK, KeyInv, Json PROVE KeyInv'
  OBVIOUS
<1>t. FlashTyped
  BY Zenon DEF TypeOK, FlashTyped
<1>q. ASSUME UNCHANGED <<mode, pair, nvs, excused>> PROVE KeyInv'
  BY <1>q, KeyQuiet
<1>w. ASSUME NEW field \in {"wifi_ssid", "wifi_password", "server_url", "ssl_cert"}, NEW v,
             nvs_config_set(field, v), UNCHANGED <<mode, pair>>
      PROVE  KeyInv'
  BY <1>w, <1>t, NoKeyWritten, KeyQuiet
<1>0. CASE RxOverflow \/ Accumulate
  BY <1>0, <1>q, Zenon DEF RxOverflow, Accumulate
<1>1. CASE Answer \/ ScanAck \/ Rescan \/ Commit
  BY <1>1, <1>q, Zenon DEF Take, Answer, ScanAck, Rescan, Commit
<1>6. ASSUME NEW c \in Creds, SendWifi(c) \/ SendServer(c) \/ SendCreds(c) PROVE KeyInv'
  BY <1>6, <1>q, Zenon DEF Take, SendWifi, SendServer, SendCreds
<1>7. ASSUME NEW first, NEW data, SetCert(first, data) PROVE KeyInv'
  BY <1>7, <1>q, Zenon DEF Take, SetCert
<1>2. CASE Confirm \/ ConfirmAck
  BY <1>2, <1>q, Zenon DEF Take, Confirm, ConfirmAck, ConfirmStep
<1>3. CASE StoreSsid \/ StorePsk \/ StoreUrl
  BY <1>3, <1>w, Zenon DEF ConfirmStep, StoreSsid, StorePsk, StoreUrl
<1>4. CASE StoreCert
  BY <1>4, <1>q, <1>w, Zenon DEF ConfirmStep, StoreCert
<1>5. CASE ConfirmRestart
  BY <1>5, KeyModes DEF ConfirmRestart
<1> QED BY <1>0, <1>1, <1>2, <1>3, <1>4, <1>5, <1>6, <1>7, Zenon DEF Json

LEMMA KeyStepped == TypeOK /\ KeyInv /\ [Next]_vars => KeyInv'
<1> SUFFICES ASSUME TypeOK, KeyInv, [Next]_vars PROVE KeyInv'
  OBVIOUS
<1>q. ASSUME UNCHANGED <<mode, pair, nvs, excused>> PROVE KeyInv'
  BY <1>q, KeyQuiet
<1>1. CASE UNCHANGED vars
  BY <1>1, <1>q, Zenon DEF vars
<1>2. CASE PowerLoss
  BY <1>2, KeyModes DEF PowerLoss
<1>3. CASE Host
  BY <1>3, <1>q, Zenon DEF Host, GapConnect, GapSubscribe, GapDisconnect, ClearCert, Write
<1>4. ASSUME NEW t \in Tasks, Background(t) PROVE KeyInv'
  BY <1>4, <1>q, Zenon DEF Background, wifi_connect_task, wifi_scan_task, ValidateWifi,
     ValidateLock, ValidateSsl, ValidateResult, ValidateProbe, Step
<1> QED BY <1>1, <1>2, <1>3, <1>4, KeyBoot, KeyJson, Zenon DEF Next

\* The key the device announces is the one it signs with, wherever between the
\* two writes of a new pair the power goes.
THEOREM KeysBelongTogether == SafetySpec => []PublicKeyHasPrivate
<1>1. Init => KeyInv
  <2> SUFFICES ASSUME Init PROVE KeyInv
    OBVIOUS
  <2>1. mode = "off" /\ nvs.public_key = nvs.private_key
    BY DEF Init
  <2> QED BY <2>1 DEF KeyInv
<1>2. KeyInv => PublicKeyHasPrivate
  BY DEF KeyInv, PublicKeyHasPrivate
<1> QED BY <1>1, <1>2, KeyStepped, ProvisioningTyped, PTL DEF SafetySpec

-----------------------------------------------------------------------------
(* The certificate.                                                        *)

\* cert_mutex is held by the task whose handshake runs, and by no other.
LockInv == \A t \in Tasks : tasks[t].pc = "val_ssl" <=> cert_mutex = t

LEMMA LockQuiet ==
  ASSUME LockInv, UNCHANGED <<tasks, cert_mutex>> PROVE LockInv'
BY DEF LockInv

LEMMA LockCleared ==
  ASSUME RamCleared PROVE LockInv'
BY NoneIsNothing DEF RamCleared, LockInv, NoTask

LEMMA LockStart ==
  ASSUME LockInv, tasks \in [Tasks -> Works], UNCHANGED cert_mutex,
         NEW pc, pc # "val_ssl", Start(pc)
  PROVE  LockInv'
<1>1. ASSUME NEW t \in Tasks, tasks[t].pc = "none",
             tasks' = [tasks EXCEPT ![t] = [pc |-> pc, result |-> ""]]
      PROVE  LockInv'
  BY <1>1 DEF LockInv
<1>2. CASE UNCHANGED tasks
  BY <1>2, LockQuiet
<1> QED BY <1>1, <1>2, Zenon DEF Start

\* A task that neither begins nor ends its handshake.
LEMMA LockMove ==
  ASSUME LockInv, tasks \in [Tasks -> Works], UNCHANGED cert_mutex, NEW t \in Tasks,
         tasks[t].pc # "val_ssl", NEW task, task.pc # "val_ssl", tasks' = [tasks EXCEPT ![t] = task]
  PROVE  LockInv'
BY DEF LockInv

LEMMA GotoPc ==
  ASSUME tasks \in [Tasks -> Works], NEW t \in Tasks, NEW pc
  PROVE  Goto(t, pc).pc = pc
BY DEF Goto, Works

LEMMA LockBackground == \A t \in Tasks : TypeOK /\ LockInv /\ Background(t) => LockInv'
<1> SUFFICES ASSUME NEW t \in Tasks, TypeOK, LockInv, Background(t) PROVE LockInv'
  OBVIOUS
<1>t. tasks \in [Tasks -> Works]
  BY Zenon DEF TypeOK
<1>g. \A pc : Goto(t, pc).pc = pc
  BY <1>t, GotoPc, Zenon
<1>n. NoTask.pc = "none"
  BY DEF NoTask
<1>m. ASSUME NEW from, At(t, from), from # "val_ssl", NEW task, task.pc # "val_ssl",
             NEW st, Step(t, task, st), UNCHANGED cert_mutex
      PROVE  LockInv'
  BY <1>m, <1>t, LockMove DEF At, Step
<1>1. CASE wifi_connect_task(t)
  BY <1>1, <1>g, <1>n, <1>m DEF wifi_connect_task
<1>2. CASE wifi_scan_task(t)
  BY <1>2, <1>g, <1>n, <1>m DEF wifi_scan_task
<1>3. CASE ValidateWifi(t)
  BY <1>3, <1>g, <1>n, <1>m DEF ValidateWifi
<1>4. CASE ValidateLock(t)
  <2>1. /\ cert_mutex = None /\ cert_mutex' = t
        /\ tasks' = [tasks EXCEPT ![t] = Goto(t, "val_ssl")]
    BY <1>4, Zenon DEF ValidateLock, Step
  <2> QED BY <1>t, <1>g, <2>1, NoneIsNothing DEF LockInv
<1>5. CASE ValidateSsl(t)
  <2>1. PICK result : tasks' = [tasks EXCEPT ![t] = [pc |-> "val_result", result |-> result]]
    BY <1>5, Zenon DEF ValidateSsl, Step
  <2>2. tasks[t].pc = "val_ssl" /\ cert_mutex' = None
    BY <1>5, Zenon DEF ValidateSsl, At
  <2> QED BY <1>t, <2>1, <2>2, NoneIsNothing DEF LockInv
<1>6. CASE ValidateResult(t)
  <2>1. /\ tasks' = [tasks EXCEPT ![t].pc = IF tasks[t].result = "ca_failed_fallback_failed"
                                            THEN "val_fault" ELSE "val_probe",
                                  ![t].result = ""]
        /\ tasks[t].pc = "val_result" /\ UNCHANGED cert_mutex
    BY <1>6, Zenon DEF ValidateResult, At
  <2>2. /\ tasks'[t].pc \in {"val_fault", "val_probe"}
        /\ \A u \in Tasks : u # t => tasks'[u] = tasks[u]
    BY <1>t, <2>1 DEF Works
  <2> QED BY <2>1, <2>2, Zenon DEF LockInv
<1>7. CASE ValidateProbe(t)
  BY <1>7, <1>g, <1>n, <1>m DEF ValidateProbe
<1> QED BY <1>1, <1>2, <1>3, <1>4, <1>5, <1>6, <1>7, Zenon DEF Background

LEMMA LockStepped == TypeOK /\ LockInv /\ [Next]_vars => LockInv'
<1> SUFFICES ASSUME TypeOK, LockInv, [Next]_vars PROVE LockInv'
  OBVIOUS
<1>t. tasks \in [Tasks -> Works]
  BY Zenon DEF TypeOK
<1>p. "scan_start" # "val_ssl" /\ "wifi_start" # "val_ssl" /\ "val_start" # "val_ssl"
  OBVIOUS
<1>1. CASE UNCHANGED vars
  BY <1>1, LockQuiet, Zenon DEF vars, ram
<1>2. CASE PowerLoss
  BY <1>2, LockCleared, Zenon DEF PowerLoss
<1>3. CASE Boot
  BY <1>3, LockQuiet, LockCleared, Zenon DEF Boot, BootProvisioned, BootBle, BootBleFails,
     BootErases, SecurityInit, GenerateKey, ReplaceKey, GenerateKeyUnexported, NewPair,
     StorePublicKey, SecurityInitFails, WsInit, ram
<1>4. CASE GapConnect \/ GapDisconnect \/ ClearCert \/ \E data \in Writes : Write(data)
  BY <1>4, LockQuiet, Zenon DEF GapConnect, GapDisconnect, ClearCert, Write
<1>5. CASE GapSubscribe
  BY <1>5, <1>t, <1>p, LockStart, Zenon DEF GapSubscribe
<1>6. CASE Rescan \/ Commit \/ \E c \in Creds : SendWifi(c)
  BY <1>6, <1>t, <1>p, LockStart, Zenon DEF SendWifi, Rescan, Commit, Take
<1>7. CASE Answer \/ ScanAck \/ Confirm \/ RxOverflow \/ Accumulate
  BY <1>7, LockQuiet, Zenon DEF Answer, ScanAck, Confirm, RxOverflow, Accumulate, Take
<1>10. CASE \E c \in Creds : SendServer(c) \/ SendCreds(c)
  BY <1>10, LockQuiet, Zenon DEF SendServer, SendCreds, Take
<1>11. ASSUME NEW first, NEW data, SetCert(first, data) PROVE LockInv'
  BY <1>11, LockQuiet, Zenon DEF SetCert, Take
<1>8. CASE StoreSsid \/ StorePsk \/ StoreUrl \/ StoreCert \/ ConfirmAck
  BY <1>8, LockQuiet, Zenon
     DEF StoreSsid, StorePsk, StoreUrl, StoreCert, ConfirmAck, ConfirmStep
<1>9. CASE ConfirmRestart
  BY <1>9, LockCleared, Zenon DEF ConfirmRestart
<1> QED BY <1>1, <1>2, <1>3, <1>4, <1>5, <1>6, <1>7, <1>8, <1>9, <1>10, <1>11,
           LockBackground, Zenon DEF Next, Host, Json

LEMMA LockInit == Init => LockInv
<1> SUFFICES ASSUME Init PROVE LockInv
  OBVIOUS
<1>1. tasks = [t \in Tasks |-> NoTask] /\ cert_mutex = None
  BY Zenon DEF Init
<1> QED BY <1>1, NoneIsNothing DEF LockInv, NoTask

\* A step that changes the certificate finds cert_mutex free, or is a restart.
LEMMA CertStep ==
  ASSUME TypeOK, LockInv, [Next]_vars, NEW t \in Tasks,
         At(t, "val_ssl"), tasks'[t].pc = "val_ssl"
  PROVE  cert' = cert
<1>1. cert_mutex = t /\ cert_mutex # None
  BY NoneIsNothing DEF At, LockInv
<1>2. ~ RamCleared
  <2>1. NoTask.pc # "val_ssl"
    BY DEF NoTask
  <2> QED BY <2>1, Zenon DEF RamCleared
<1>3. CASE Json
  BY <1>1, <1>2, <1>3, Zenon DEF Json, RxOverflow, Accumulate, Answer, ScanAck, SendWifi,
     SendServer, SendCreds, Rescan, Commit, SetCert, Confirm, StoreSsid, StorePsk, StoreUrl, StoreCert, ConfirmAck,
     ConfirmRestart, ConfirmStep, Take
<1>4. CASE Host
  BY <1>1, <1>4, Zenon DEF Host, GapConnect, GapSubscribe, GapDisconnect, ClearCert, Write
<1>5. CASE Boot \/ PowerLoss \/ UNCHANGED vars
  BY <1>2, <1>5, Zenon DEF Boot, BootProvisioned, BootBle, BootBleFails, BootErases, SecurityInit,
     GenerateKey, ReplaceKey, GenerateKeyUnexported, NewPair, StorePublicKey, SecurityInitFails,
     WsInit, PowerLoss, vars, ram
<1>6. ASSUME NEW u \in Tasks, Background(u) PROVE cert' = cert
  BY <1>6, Zenon DEF Background, wifi_connect_task, wifi_scan_task, ValidateWifi,
     ValidateLock, ValidateSsl, ValidateResult, ValidateProbe, Step
<1> QED BY <1>3, <1>4, <1>5, <1>6, Zenon DEF Next

\* No set_cert, disconnection or second validation touches the certificate of
\* a handshake that runs.
THEOREM HandshakeKeepsCert == SafetySpec => CertUnderHandshake
<1> DEFINE Kept == \A t \in Tasks : At(t, "val_ssl") /\ tasks'[t].pc = "val_ssl" => cert' = cert
<1>1. TypeOK /\ LockInv /\ [Next]_vars => Kept
  BY CertStep, Zenon
<1>2. TypeOK /\ LockInv /\ [Next]_vars => [Kept]_vars
  BY <1>1
<1> HIDE DEF Kept
<1>3. SafetySpec => [][Kept]_vars
  BY <1>2, LockInit, LockStepped, ProvisioningTyped, PTL DEF SafetySpec
<1> QED BY <1>3 DEF Kept, CertUnderHandshake
=============================================================================
