---------------------------- MODULE Provisioning ----------------------------
(***************************************************************************)
(* How a device gets its configuration: config/ble_provision.c,            *)
(* config/nvs_config.c, and the boot that reads it (app_main,              *)
(* ykp_security_init and ykp_ws_init).                                     *)
(*                                                                         *)
(* The NimBLE host runs the GAP callbacks, json_task the phone's commands, *)
(* and every scan, WiFi attempt and validation is a task of its own: the   *)
(* tasks of one phone outlive its connection.  The critical sections of    *)
(* session_mutex are short and never nested, so each is one step;          *)
(* cert_mutex is held through TLS handshakes and is a variable.  What      *)
(* WiFi, TLS and the UDP probe answer is anything.  Fields the firmware    *)
(* writes and never reads (stages, CRC, heartbeat) are left out: the       *)
(* watchdog that would read them is not started.                           *)
(***************************************************************************)
EXTENDS Naturals, Sequences, FiniteSets

CONSTANTS Creds,        \* what a phone may send: a WiFi name, password, server
          Tasks,        \* memory for background tasks; without it none starts
          Chunks,       \* pieces of a certificate
          CERT_CHUNKS,  \* chunks that fit into cert_buffer
          RX_QUEUE,     \* slots of rx_queue
          RX_BUFFER,    \* pieces of lines that fit into rx_buffer
          None,
          MaxCommands,  \* bound: lines, or parts of lines, phones send
          MaxFaults     \* bound: power losses and failures

ASSUME ProvisioningAssumption ==
    /\ CERT_CHUNKS \in Nat /\ RX_QUEUE \in Nat /\ RX_BUFFER \in Nat
    /\ MaxCommands \in Nat /\ MaxFaults \in Nat
    /\ None \notin Creds \cup Tasks \cup {"", "key1", "key2", "key3"}

VARIABLES
    mode,          \* what app_main is doing
    nvs,           \* what is in flash
    pair,          \* the key pair ykp_security_init has just generated
    s_session, cert, cert_mutex, s_scan_ack_received,
    rx_queue,      \* writes json_task has not looked at
    rx_buffer,     \* what it has not run yet of those it has
    phone,
    host,          \* the NimBLE host task
    json,          \* json_task
    tasks,
    commit_ok,     \* the phone has been told
    excused,       \* a write failed, BLE could not start, or a key could not
                   \* be read or exported
    commands, faults

ram == <<s_session, cert, cert_mutex, s_scan_ack_received, rx_queue, rx_buffer, phone,
         host, json, tasks, commit_ok>>
vars == <<mode, nvs, pair, ram, excused, commands, faults>>

Strings == Creds \cup {""}
Stored  == Strings \cup {None}
Keys    == {"key1", "key2", "key3"}
Certs   == {c \in Seq(Chunks) : Len(c) <= CERT_CHUNKS}
Flash   == [device_id : BOOLEAN, wifi_ssid : Stored, wifi_password : Stored,
            server_url : Stored, ssl_cert : Certs,
            private_key : Keys \cup {None}, public_key : Keys \cup {None}]

Commands ==
    [cmd : {"answer", "scan_ack", "rescan", "commit", "confirm_provision"}]
        \cup [cmd : {"send_wifi", "send_server", "send_creds"}, c : Creds]
        \cup [cmd : {"set_cert"}, first : BOOLEAN, data : Chunks]

\* What a write is made of: lines that end in it, and bytes without a newline.
Part   == [cmd |-> "part"]
Pieces == Commands \cup {Part}
Writes == {<<m>> : m \in Pieces} \cup {<<m, n>> : m \in Commands, n \in Pieces}

States == {"IDLE", "SCAN", "CREDS_RECV", "WIFI_CONNECT", "SSL_VALIDATE", "UDP_PROBE",
           "REPORT_WAIT", "NVS_COMMIT", "FAULT"}
SslResults == {"", "ca_ok", "ca_failed_fallback_ok", "ca_failed_fallback_failed"}

Sessions == [state : States, ssid : Strings, psk : Strings, host : Strings,
             ssl_result : SslResults]
Snapshots == [ssid : Strings, psk : Strings, host : Strings, ssl_result : SslResults]
Pcs == {"none", "wifi_start", "wifi_connect", "scan_start", "scan_wait", "val_start",
        "val_wifi", "val_cert", "val_ssl", "val_result", "val_fault", "val_probe", "val_bind",
        "val_report"}
Works == [pc : Pcs, result : SslResults]
Confirmations == [pc : {"idle", "ssid", "psk", "url", "cert", "ack", "restart"}, t : Snapshots]

TypeOK ==
    /\ mode \in {"off", "ble", "security", "public_key", "ws_init", "run"}
    /\ nvs \in Flash
    /\ s_session \in Sessions
    /\ cert \in Certs
    /\ cert_mutex \in Tasks \cup {None}
    /\ s_scan_ack_received \in BOOLEAN
    /\ pair \in Keys \cup {None}
    /\ rx_queue \in Seq(Writes) /\ Len(rx_queue) <= RX_QUEUE
    /\ rx_buffer \in Seq(Pieces) /\ Len(rx_buffer) <= RX_BUFFER
    /\ phone \in {"away", "connected", "subscribed"}
    /\ host \in {"idle", "clearing"}
    /\ json \in Confirmations
    /\ tasks \in [Tasks -> Works]
    /\ commit_ok \in BOOLEAN /\ excused \in BOOLEAN
    /\ commands \in 0 .. MaxCommands /\ faults \in 0 .. MaxFaults

-----------------------------------------------------------------------------
(* Memory and flash.                                                       *)

Cleared == [state |-> "IDLE", ssid |-> "", psk |-> "", host |-> "", ssl_result |-> ""]
Idle    == [pc |-> "idle", t |-> [ssid |-> "", psk |-> "", host |-> "", ssl_result |-> ""]]
NoTask  == [pc |-> "none", result |-> ""]

RamCleared ==
    /\ s_session' = Cleared /\ cert' = <<>> /\ cert_mutex' = None
    /\ s_scan_ack_received' = FALSE /\ rx_queue' = <<>> /\ rx_buffer' = <<>>
    /\ phone' = "away" /\ host' = "idle" /\ json' = Idle /\ tasks' = [t \in Tasks |-> NoTask]
    /\ commit_ok' = FALSE

\* A device has its identity from the factory or not, and never half a WiFi
\* configuration.  One that is provisioned may have run before, and then has
\* its key pair.
Init ==
    /\ mode = "off"
    /\ \E id \in BOOLEAN, wifi \in Creds \cup {None}, key \in {"key1", None} :
          /\ key # None => id /\ wifi # None
          /\ nvs = [device_id |-> id, wifi_ssid |-> wifi, wifi_password |-> wifi,
                    server_url |-> None, ssl_cert |-> <<>>,
                    private_key |-> key, public_key |-> key]
    /\ pair = None
    /\ s_session = Cleared /\ cert = <<>> /\ cert_mutex = None
    /\ s_scan_ack_received = FALSE /\ rx_queue = <<>> /\ rx_buffer = <<>>
    /\ phone = "away" /\ host = "idle" /\ json = Idle /\ tasks = [t \in Tasks |-> NoTask]
    /\ commit_ok = FALSE /\ excused = FALSE
    /\ commands = MaxCommands /\ faults = MaxFaults

Fault == faults > 0 /\ faults' = faults - 1

\* nvs_config_set_str and nvs_config_set_blob: set and commit are one write,
\* and no caller looks at the result.
nvs_config_set(key, value) ==
    \/ nvs' = [nvs EXCEPT ![key] = value] /\ UNCHANGED <<excused, faults>>
    \/ Fault /\ excused' = TRUE /\ UNCHANGED nvs

\* A power loss, at any time.
PowerLoss ==
    /\ mode # "off" /\ Fault
    /\ mode' = "off" /\ RamCleared /\ pair' = None
    /\ UNCHANGED <<nvs, excused, commands>>

-----------------------------------------------------------------------------
(* app_main.                                                               *)

\* Fault: a device with an identity and a WiFi name counts as provisioned.
ProvisionedWithoutPassword == nvs.device_id /\ nvs.wifi_ssid # None

is_provisioned == nvs.device_id /\ nvs.wifi_ssid # None /\ nvs.wifi_password # None

BootProvisioned ==
    /\ mode = "off" /\ is_provisioned
    /\ mode' = "security"
    /\ UNCHANGED <<nvs, pair, ram, excused, commands, faults>>

\* ykp_ble_provision_start: the memory is as RamCleared left it.
BootBle ==
    /\ mode = "off" /\ ~ is_provisioned
    /\ mode' = "ble"
    /\ UNCHANGED <<nvs, pair, ram, excused, commands, faults>>

\* Without memory or NimBLE it returns false, and app_main goes on.
BootBleFails ==
    /\ mode = "off" /\ ~ is_provisioned /\ Fault
    /\ mode' = "security" /\ excused' = TRUE
    /\ UNCHANGED <<nvs, pair, ram, commands>>

\* nvs_config_init finds no usable page and erases the partition.
BootErases ==
    /\ mode = "off" /\ Fault
    /\ nvs' = [device_id |-> FALSE, wifi_ssid |-> None, wifi_password |-> None,
               server_url |-> None, ssl_cert |-> <<>>,
               private_key |-> None, public_key |-> None]
    /\ UNCHANGED <<mode, pair, ram, excused, commands>>

\* ykp_security_init, with a private key in flash.
SecurityInit ==
    /\ mode = "security" /\ nvs.private_key # None
    /\ mode' = "ws_init"
    /\ UNCHANGED <<nvs, pair, ram, excused, commands, faults>>

\* A new pair, which takes the place of a private key that cannot be read.
NewPair ==
    /\ mode = "security" /\ mode' = "public_key"
    /\ pair' \in Keys \ {nvs.private_key, nvs.public_key}
    /\ UNCHANGED <<ram, commands>>

\* Fault: the public key is stored before the private one.
GenerateKeyPublicFirst ==
    /\ NewPair
    /\ nvs.private_key = None /\ nvs_config_set("public_key", pair')

\* The private key goes first.
GenerateKey ==
    /\ NewPair
    /\ nvs.private_key = None /\ nvs_config_set("private_key", pair')

\* nvs_config_get_blob fails although there is a private key.
ReplaceKey ==
    /\ NewPair
    /\ nvs.private_key # None /\ Fault /\ excused' = TRUE
    /\ nvs' = [nvs EXCEPT !.private_key = pair']

\* psa_export_key fails: no private key is stored, and the public one is
\* stored all the same.
GenerateKeyUnexported ==
    /\ NewPair
    /\ nvs.private_key = None /\ Fault /\ excused' = TRUE
    /\ UNCHANGED nvs

\* That the private key was not stored is not noticed.
StorePublicKey ==
    /\ mode = "public_key" /\ mode' = "ws_init"
    /\ nvs_config_set("public_key", pair) /\ pair' = None
    /\ UNCHANGED <<ram, commands>>

SecurityInitFails ==
    /\ mode = "security" /\ Fault
    /\ mode' = "off" /\ RamCleared
    /\ UNCHANGED <<nvs, pair, excused, commands>>

\* ykp_ws_init: a stored certificate that does not parse is erased; one that
\* is cut off is only ignored.
WsInit ==
    /\ mode = "ws_init"
    /\ mode' = "run"
    /\ UNCHANGED <<pair, ram, commands>>
    /\ \/ UNCHANGED <<nvs, excused, faults>>
       \/ nvs.ssl_cert # <<>> /\ nvs_config_set("ssl_cert", <<>>)

-----------------------------------------------------------------------------
(* The NimBLE host: GAP events and writes.                                 *)

\* xTaskCreatePinnedToCore: where no memory is left nothing is started, and
\* nobody notices.
Start(pc) ==
    \/ \E t \in Tasks :
          /\ tasks[t].pc = "none"
          /\ tasks' = [tasks EXCEPT ![t] = [pc |-> pc, result |-> ""]]
    \/ (\A t \in Tasks : tasks[t].pc # "none") /\ UNCHANGED tasks

GapConnect ==
    /\ mode = "ble" /\ host = "idle" /\ phone = "away"
    /\ phone' = "connected"
    /\ UNCHANGED <<mode, nvs, pair, s_session, cert, cert_mutex, s_scan_ack_received, rx_queue,
                   rx_buffer, host, json, tasks, commit_ok, excused, commands, faults>>

GapSubscribe ==
    /\ mode = "ble" /\ host = "idle" /\ phone = "connected"
    /\ phone' = "subscribed"
    /\ s_session' = [s_session EXCEPT !.state = "SCAN"]
    /\ Start("scan_start")
    /\ UNCHANGED <<mode, nvs, pair, cert, cert_mutex, s_scan_ack_received, rx_queue, rx_buffer,
                   host, json, commit_ok, excused, commands, faults>>

\* prov_session_clear's first half; the second waits for cert_mutex.
GapDisconnect ==
    /\ mode = "ble" /\ host = "idle" /\ phone # "away"
    /\ Fault
    /\ phone' = "away"
    /\ s_session' = Cleared
    /\ host' = "clearing"
    /\ UNCHANGED <<mode, nvs, pair, cert, cert_mutex, s_scan_ack_received, rx_queue, rx_buffer,
                   json, tasks, commit_ok, excused, commands>>

\* Fault: the certificate is cleared without cert_mutex.
ClearCertUnlocked ==
    /\ mode = "ble" /\ host = "clearing"
    /\ cert' = <<>> /\ host' = "idle"
    /\ UNCHANGED <<mode, nvs, pair, s_session, cert_mutex, s_scan_ack_received, rx_queue,
                   rx_buffer, phone, json, tasks, commit_ok, excused, commands, faults>>

ClearCert ==
    /\ mode = "ble" /\ host = "clearing" /\ cert_mutex = None
    /\ cert' = <<>> /\ host' = "idle"
    /\ UNCHANGED <<mode, nvs, pair, s_session, cert_mutex, s_scan_ack_received, rx_queue,
                   rx_buffer, phone, json, tasks, commit_ok, excused, commands, faults>>

\* gatt_svr_chr_access: a write into a full queue is lost.
Write(data) ==
    /\ mode = "ble" /\ host = "idle" /\ phone # "away"
    /\ Len(data) <= commands /\ commands' = commands - Len(data)
    /\ rx_queue' = IF Len(rx_queue) < RX_QUEUE THEN Append(rx_queue, data) ELSE rx_queue
    /\ UNCHANGED <<mode, nvs, pair, s_session, cert, cert_mutex, s_scan_ack_received, rx_buffer,
                   phone, host, json, tasks, commit_ok, excused, faults>>

-----------------------------------------------------------------------------
(* json_task: the lines it runs.                                           *)

Received == rx_buffer \o Head(rx_queue)

Receives ==
    /\ mode = "ble" /\ json.pc = "idle"
    /\ rx_queue # <<>> /\ rx_queue' = Tail(rx_queue)

\* Bytes that do not fit reset the buffer, the lines waiting in it included.
RxOverflow ==
    /\ Receives /\ Len(Received) > RX_BUFFER
    /\ rx_buffer' = <<>>
    /\ UNCHANGED <<mode, nvs, pair, s_session, cert, cert_mutex, s_scan_ack_received, phone,
                   host, json, tasks, commit_ok, excused, commands, faults>>

\* No newline yet.
Accumulate ==
    /\ Receives /\ Len(Received) <= RX_BUFFER
    /\ \A i \in DOMAIN Received : Received[i] = Part
    /\ rx_buffer' = Received
    /\ UNCHANGED <<mode, nvs, pair, s_session, cert, cert_mutex, s_scan_ack_received, phone,
                   host, json, tasks, commit_ok, excused, commands, faults>>

\* The first line is run: one line a write.  Those behind it wait for the next
\* write, of whatever phone, and a line that another one began may be no
\* command any more.
Take(m) ==
    /\ Receives /\ Len(Received) <= RX_BUFFER
    /\ \E i \in DOMAIN Received :
          /\ Received[i] # Part /\ \A j \in 1 .. i - 1 : Received[j] = Part
          /\ m = Received[i] \/ (i > 1 /\ m.cmd = "answer")
          /\ rx_buffer' = SubSeq(Received, i + 1, Len(Received))
    /\ UNCHANGED <<mode, pair, phone, host, cert_mutex, commit_ok, commands>>

\* ping, query_state and report_ack only answer.
Answer ==
    /\ Take([cmd |-> "answer"])
    /\ UNCHANGED <<nvs, s_session, cert, s_scan_ack_received, json, tasks, excused, faults>>

ScanAck ==
    /\ Take([cmd |-> "scan_ack"])
    /\ s_scan_ack_received' = TRUE
    /\ UNCHANGED <<nvs, s_session, cert, json, tasks, excused, faults>>

SendWifi(c) ==
    /\ Take([cmd |-> "send_wifi", c |-> c])
    /\ s_session' = [s_session EXCEPT !.ssid = c, !.psk = c]
    /\ Start("wifi_start")
    /\ UNCHANGED <<nvs, cert, s_scan_ack_received, json, excused, faults>>

SendServer(c) ==
    /\ Take([cmd |-> "send_server", c |-> c])
    /\ s_session' = [s_session EXCEPT !.host = c]
    /\ UNCHANGED <<nvs, cert, s_scan_ack_received, json, tasks, excused, faults>>

SendCreds(c) ==
    /\ Take([cmd |-> "send_creds", c |-> c])
    /\ s_session' = [s_session EXCEPT !.ssid = c, !.psk = c, !.host = c]
    /\ UNCHANGED <<nvs, cert, s_scan_ack_received, json, tasks, excused, faults>>

\* A new task each time, whatever is running already.
Rescan ==
    /\ Take([cmd |-> "rescan"]) /\ Start("scan_start")
    /\ UNCHANGED <<nvs, s_session, cert, s_scan_ack_received, json, excused, faults>>

Commit ==
    /\ Take([cmd |-> "commit"]) /\ Start("val_start")
    /\ UNCHANGED <<nvs, s_session, cert, s_scan_ack_received, json, excused, faults>>

\* Fault: room for the last chunk is not left.
AppendedUnbounded(chunks, data) == Append(chunks, data)

Appended(chunks, data) ==
    IF Len(chunks) < CERT_CHUNKS THEN Append(chunks, data) ELSE chunks

\* The first chunk starts the certificate again; one that does not fit is
\* refused.
SetCert(first, data) ==
    /\ Take([cmd |-> "set_cert", first |-> first, data |-> data])
    /\ cert_mutex = None
    /\ cert' = Appended(IF first THEN <<>> ELSE cert, data)
    /\ UNCHANGED <<nvs, s_session, s_scan_ack_received, json, tasks, excused, faults>>

\* confirm_provision copies the session under its mutex and writes, one key
\* after the other.
Confirm ==
    /\ Take([cmd |-> "confirm_provision"])
    /\ s_session' = [s_session EXCEPT !.state = "NVS_COMMIT"]
    /\ json' = [pc |-> "ssid",
                t  |-> [ssid |-> s_session.ssid, psk |-> s_session.psk,
                        host |-> s_session.host, ssl_result |-> s_session.ssl_result]]
    /\ UNCHANGED <<nvs, cert, s_scan_ack_received, tasks, excused, faults>>

ConfirmStep(pc, next) ==
    /\ mode = "ble" /\ json.pc = pc
    /\ json' = [json EXCEPT !.pc = next]
    /\ UNCHANGED <<mode, pair, s_session, cert, cert_mutex, s_scan_ack_received, rx_queue,
                   rx_buffer, phone, host, tasks, commands>>

StoreSsid ==
    /\ ConfirmStep("ssid", "psk")
    /\ nvs_config_set("wifi_ssid", json.t.ssid) /\ UNCHANGED commit_ok

StorePsk ==
    /\ ConfirmStep("psk", "url")
    /\ nvs_config_set("wifi_password", json.t.psk) /\ UNCHANGED commit_ok

\* Fault: the server is read from the session, not from the copy.
StoreUrlFromSession ==
    /\ ConfirmStep("url", IF json.t.ssl_result = "ca_ok" THEN "cert" ELSE "ack")
    /\ nvs_config_set("server_url", s_session.host) /\ UNCHANGED commit_ok

\* ... and control_port, which nothing reads.
StoreUrl ==
    /\ ConfirmStep("url", IF json.t.ssl_result = "ca_ok" THEN "cert" ELSE "ack")
    /\ nvs_config_set("server_url", json.t.host) /\ UNCHANGED commit_ok

StoreCert ==
    /\ cert_mutex = None
    /\ ConfirmStep("cert", "ack")
    /\ \/ cert # <<>> /\ nvs_config_set("ssl_cert", cert)
       \/ cert = <<>> /\ UNCHANGED <<nvs, excused, faults>>
    /\ UNCHANGED commit_ok

\* commit_ok reaches the phone if it is there and the queue has room.
ConfirmAck ==
    /\ ConfirmStep("ack", "restart")
    /\ commit_ok' \in {FALSE, phone = "subscribed"}
    /\ UNCHANGED <<nvs, excused, faults>>

\* esp_restart.
ConfirmRestart ==
    /\ mode = "ble" /\ json.pc = "restart"
    /\ mode' = "off" /\ RamCleared
    /\ UNCHANGED <<nvs, pair, excused, commands, faults>>

-----------------------------------------------------------------------------
(* The background tasks.                                                   *)

At(t, pc) == mode = "ble" /\ tasks[t].pc = pc

Step(t, task, state) ==
    /\ tasks' = [tasks EXCEPT ![t] = task]
    /\ s_session' = IF state = None THEN s_session ELSE [s_session EXCEPT !.state = state]
    /\ UNCHANGED <<mode, nvs, pair, cert, rx_queue, rx_buffer, phone, host, json, commit_ok,
                   excused, commands, faults>>

Goto(t, pc) == [tasks[t] EXCEPT !.pc = pc]

wifi_connect_task(t) ==
    /\ \/ At(t, "wifi_start") /\ Step(t, Goto(t, "wifi_connect"), "WIFI_CONNECT")
       \/ /\ At(t, "wifi_connect")
          /\ \E state \in {"CREDS_RECV", "FAULT"} : Step(t, NoTask, state)
    /\ UNCHANGED <<cert_mutex, s_scan_ack_received>>

\* An acknowledgement that came before the results is forgotten; without
\* one the task gives up after 30 s.
wifi_scan_task(t) ==
    /\ \/ /\ At(t, "scan_start")
          /\ Step(t, Goto(t, "scan_wait"), None)
          /\ s_scan_ack_received' = FALSE
       \/ /\ At(t, "scan_wait")
          /\ Step(t, NoTask, IF s_scan_ack_received THEN "CREDS_RECV" ELSE "FAULT")
          /\ UNCHANGED s_scan_ack_received
    /\ UNCHANGED cert_mutex

\* Without WiFi the validation ends, and leaves the state as it is.
ValidateWifi(t) ==
    /\ \/ At(t, "val_start") /\ Step(t, Goto(t, "val_wifi"), "SSL_VALIDATE")
       \/ At(t, "val_wifi") /\ Step(t, Goto(t, "val_cert"), None)
       \/ At(t, "val_wifi") /\ Step(t, NoTask, None)
    /\ UNCHANGED <<cert_mutex, s_scan_ack_received>>

\* The handshakes, with the phone's certificate if there is one and with the
\* built-in one if that fails, hold cert_mutex.
ValidateLock(t) ==
    /\ At(t, "val_cert") /\ cert_mutex = None
    /\ Step(t, Goto(t, "val_ssl"), None)
    /\ cert_mutex' = t
    /\ UNCHANGED s_scan_ack_received

\* Fault: the lock is released only by a handshake that succeeds.
ValidateSslKeepsLock(t) ==
    /\ At(t, "val_ssl")
    /\ \E result \in SslResults \ {""} :
          /\ result = "ca_ok" => cert # <<>>
          /\ Step(t, [pc |-> "val_result", result |-> result], None)
          /\ cert_mutex' = IF result = "ca_failed_fallback_failed" THEN cert_mutex ELSE None
    /\ UNCHANGED s_scan_ack_received

ValidateSsl(t) ==
    /\ At(t, "val_ssl")
    /\ \E result \in SslResults \ {""} :
          /\ result = "ca_ok" => cert # <<>>
          /\ Step(t, [pc |-> "val_result", result |-> result], None)
    /\ cert_mutex' = None
    /\ UNCHANGED s_scan_ack_received

\* The result goes into the session there is now.
ValidateResult(t) ==
    /\ At(t, "val_result")
    /\ tasks' = [tasks EXCEPT ![t].pc = IF tasks[t].result = "ca_failed_fallback_failed"
                                        THEN "val_fault" ELSE "val_probe",
                              ![t].result = ""]
    /\ s_session' = [s_session EXCEPT !.ssl_result = tasks[t].result]
    /\ UNCHANGED <<mode, nvs, pair, cert, cert_mutex, s_scan_ack_received, rx_queue, rx_buffer,
                   phone, host, json, commit_ok, excused, commands, faults>>

\* The probe is answered with the session's nonce, or not.
ValidateProbe(t) ==
    /\ \/ At(t, "val_fault") /\ Step(t, NoTask, "FAULT")
       \/ At(t, "val_probe") /\ Step(t, Goto(t, "val_bind"), "UDP_PROBE")
       \/ /\ At(t, "val_bind")
          /\ \/ Step(t, Goto(t, "val_report"), None)
             \/ Step(t, Goto(t, "val_fault"), None)
       \/ At(t, "val_report") /\ Step(t, NoTask, "REPORT_WAIT")
    /\ UNCHANGED <<cert_mutex, s_scan_ack_received>>

-----------------------------------------------------------------------------
Boot ==
    \/ BootProvisioned \/ BootBle \/ BootBleFails \/ BootErases \/ SecurityInit
    \/ GenerateKey \/ ReplaceKey \/ GenerateKeyUnexported \/ StorePublicKey
    \/ SecurityInitFails \/ WsInit

Host ==
    \/ GapConnect \/ GapSubscribe \/ GapDisconnect \/ ClearCert
    \/ \E data \in Writes : Write(data)

Json ==
    \/ RxOverflow \/ Accumulate
    \/ Answer \/ ScanAck \/ Rescan \/ Commit \/ Confirm
    \/ \E c \in Creds : SendWifi(c) \/ SendServer(c) \/ SendCreds(c)
    \/ \E first \in BOOLEAN, data \in Chunks : SetCert(first, data)
    \/ StoreSsid \/ StorePsk \/ StoreUrl \/ StoreCert \/ ConfirmAck \/ ConfirmRestart

Background(t) ==
    \/ wifi_connect_task(t) \/ wifi_scan_task(t) \/ ValidateWifi(t) \/ ValidateLock(t)
    \/ ValidateSsl(t) \/ ValidateResult(t) \/ ValidateProbe(t)

Next == Boot \/ Host \/ Json \/ PowerLoss \/ \E t \in Tasks : Background(t)

\* FreeRTOS runs every ready task; handshakes, scans and receives time out.
\* The mutex goes to the waiter of the highest priority, and the host and
\* json_task rank above the validations they wait for.
Fairness ==
    /\ SF_vars(Json)
    /\ SF_vars(ClearCert)
    /\ \A t \in Tasks : WF_vars(Background(t))

SafetySpec == Init /\ [][Next]_vars

Spec == SafetySpec /\ Fairness
-----------------------------------------------------------------------------
(* Properties.                                                             *)

\* The WiFi name and the password a device runs with were sent together,
\* although they are written one after the other and the power may go in
\* between: app_main takes a device with half of them back to BLE, and
\* confirm_provision writes a copy of the session that a disconnection cannot
\* empty.  Unless a write failed, which nobody notices, or BLE did not start.
PairedCredentials ==
    mode \notin {"off", "ble"} /\ ~ excused => nvs.wifi_ssid = nvs.wifi_password

\* A phone that was told commit_ok can rely on it: what confirm_provision
\* copied from the session is in flash, unless a write failed.
CommitOkIsStored ==
    commit_ok /\ ~ excused =>
        /\ nvs.wifi_ssid = json.t.ssid
        /\ nvs.wifi_password = json.t.psk
        /\ nvs.server_url = json.t.host

\* The key pair survives a power loss between its two writes: there is never
\* a public key in flash that does not belong to the private key, which would
\* make the device announce one key and sign with another (ykp_security_init
\* makes a new pair only when it finds no private key).  Unless a write failed,
\* psa_export_key failed, after which the public key is stored alone, or a
\* private key that could not be read was replaced under its public key: three
\* failures ykp_security_init goes on after.
PublicKeyHasPrivate ==
    nvs.public_key # None /\ ~ excused => nvs.public_key = nvs.private_key

\* The certificate a handshake runs with is not replaced, extended or
\* cleared while it runs: set_cert, the disconnection and a second validation
\* wait for cert_mutex.
CertUnderHandshake ==
    [][\A t \in Tasks : At(t, "val_ssl") /\ tasks'[t].pc = "val_ssl" => cert' = cert]_vars

\* A disconnected phone's session is cleared in the end, and the host can
\* take the next connection, although it may wait behind handshakes that fail.
DisconnectCompletes == host = "clearing" ~> host = "idle"

\* json_task takes every write from its queue, although set_cert and
\* confirm_provision may wait for cert_mutex behind every validation started:
\* until the queue is empty with the device still in BLE mode, or the device
\* comes to the restart of confirm_provision, or loses power.  A write runs one
\* line: that the second one of a write is ever run is not said, it waits in
\* rx_buffer until somebody writes again.
WritesTaken ==
    rx_queue # <<>> ~>
        \/ mode = "ble" /\ rx_queue = <<>>
        \/ json.pc = "restart"
        \/ mode = "off"
=============================================================================
