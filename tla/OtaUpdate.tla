----------------------------- MODULE OtaUpdate -----------------------------
(***************************************************************************)
(* Firmware update: esp32-firmware services/ota_service.c.  The handler    *)
(* runs in the WebSocket task, one message at a time, and the messages may *)
(* be lost, repeated or reordered: the server here sends anything.  The    *)
(* device may lose power at every step.                                    *)
(*                                                                         *)
(* A chunk is the encoded data field, for ykp_tlv_find returns it with its *)
(* CBOR header: an image that can be written is a sequence of such fields, *)
(* and its SHA-256 is the image itself.  The partitions, esp_ota_* and the *)
(* boot loader, with the rollback that sdkconfig.defaults enables, are the *)
(* part of ESP-IDF the service relies on.  Nothing in the firmware marks   *)
(* an image valid, so a new one runs once.                                 *)
(***************************************************************************)
EXTENDS Integers, Sequences

CONSTANTS Chunk,      \* encoded data fields, header included
          Magic,      \* those whose first byte is the one images begin with
          Images,     \* the images that esp_image_verify accepts
          Announced,  \* those whose SHA-256 is itself an encoded field of 32 bytes
          NoHash,     \* the zeros of an absent hash field, the hash of nothing
          Size        \* bound: chunks that fit into a partition

ASSUME OtaAssumption ==
    /\ Size \in Nat
    /\ Images \subseteq Seq(Chunk) \ {<<>>}
    /\ Images # {}
    /\ \A img \in Images : Len(img) <= Size /\ img[1] \in Magic
    /\ Announced \subseteq Images
    /\ NoHash \notin Seq(Chunk)

Parts == {"ota_0", "ota_1"}
Other(p) == IF p = "ota_0" THEN "ota_1" ELSE "ota_0"

VARIABLES
    s_state,     \* active, next_expected_chunk and sha256 of ota_state_t
    target,      \* s_ota_partition, "none" until the first BEGIN
    open,        \* does s_ota_handle name a write in progress?
    s_sha_ctx,   \* the chunks hashed so far
    hashing,     \* is the hash operation set up and not finished?
    hash_failed, \* history: did psa_hash_* fail since BEGIN, unnoticed?
    reply,       \* what the last handled message was answered with
    flash,       \* contents of the partitions
    running,     \* the partition the firmware runs from
    entry,       \* otadata: what is noted of each partition
    newest,      \* the partition of the newest entry
    rebooting    \* esp_restart is under way

ram == <<s_state, target, open, s_sha_ctx, hashing, hash_failed>>
otadata == <<entry, newest>>
otaVars == <<ram, reply, flash, running, otadata, rebooting>>

Idle == [active |-> FALSE, next |-> 0, sha256 |-> NoHash]

OtaTypeOK ==
    /\ s_state \in [active : BOOLEAN, next : 0 .. Size, sha256 : Announced \union {NoHash}]
    /\ target \in Parts \union {"none"}
    /\ open \in BOOLEAN
    /\ s_sha_ctx \in Seq(Chunk)
    /\ hashing \in BOOLEAN
    /\ hash_failed \in BOOLEAN
    /\ reply \in {"none", "OTA_FAIL", "OTA_MISSING", "OTA_VERIFY", "OTA_REBOOT"}
    /\ flash \in [Parts -> [1 .. Size -> Chunk]]
    /\ running \in Parts
    /\ entry \in [Parts -> {"none", "new", "pending", "valid", "aborted"}]
    /\ newest \in Parts
    /\ rebooting \in BOOLEAN

\* The partition starts with the image; what follows it does not count.
Holds(p, img) == \A k \in 1 .. Len(img) : flash[p][k] = img[k]
Bootable(p) == \E img \in Images : Holds(p, img)

\* The partition the boot loader turns to first.  An image that is still
\* pending did not confirm itself, an aborted one is not started again, and
\* when no entry is left the loader begins with ota_0: there is no factory
\* partition (partitions.csv).
LoaderChoice(e) ==
    LET usable == {p \in Parts : e[p] \in {"new", "valid"}}
    IN CASE newest \in usable -> newest
         [] usable = {Other(newest)} -> Other(newest)
         [] OTHER -> "ota_0"

\* The device as flashed: ota_0 has an image, which the loader notes as valid.
OtaInit ==
    /\ s_state = Idle /\ target = "none" /\ open = FALSE
    /\ s_sha_ctx = <<>> /\ hashing = FALSE /\ hash_failed = FALSE
    /\ reply = "none"
    /\ rebooting = FALSE
    /\ running = "ota_0"
    /\ entry = [p \in Parts |-> IF p = "ota_0" THEN "valid" ELSE "none"]
    /\ newest = "ota_0"
    /\ flash \in [Parts -> [1 .. Size -> Chunk]]
    /\ Bootable("ota_0")

-----------------------------------------------------------------------------

\* Fault: the image is written over the one the device runs.
OtaBeginRunningPartition(hash) ==
    /\ ~ rebooting
    /\ entry[running] # "pending"
    /\ s_state' = [active |-> TRUE, next |-> 0, sha256 |-> hash]
    /\ target' = running
    /\ open' = TRUE /\ s_sha_ctx' = <<>> /\ hashing' = TRUE /\ hash_failed' = FALSE
    /\ reply' = "none"
    /\ UNCHANGED <<flash, running, otadata, rebooting>>

\* BEGIN.  An earlier update that is under way is given up, its handle is not
\* closed.  esp_ota_begin asks that the running image is confirmed.  Sequential
\* writes: nothing is erased before it is written.  That psa_hash_setup failed is
\* not noticed.
OtaBegin(hash) ==
    /\ ~ rebooting
    /\ entry[running] # "pending"
    /\ s_state' = [active |-> TRUE, next |-> 0, sha256 |-> hash]
    /\ target' = Other(running)
    /\ open' = TRUE
    /\ s_sha_ctx' = <<>>
    /\ hashing' \in BOOLEAN /\ hash_failed' = ~ hashing'
    /\ reply' = "none"
    /\ UNCHANGED <<flash, running, otadata, rebooting>>

\* BEGIN with a hash field that is not 32 bytes with its header, as a SHA-256 is
\* not: s_state has been cleared, the partition, the handle and the hash operation
\* are those of the earlier update.
OtaBeginBadHash ==
    /\ ~ rebooting
    /\ s_state' = Idle
    /\ reply' = "OTA_FAIL"
    /\ UNCHANGED <<target, open, s_sha_ctx, hashing, hash_failed, flash, running, otadata, rebooting>>

\* BEGIN when esp_ota_begin fails, as it does when the running image is pending;
\* s_ota_partition has been chosen before.
OtaBeginFails(hash) ==
    /\ ~ rebooting
    /\ s_state' = [Idle EXCEPT !.sha256 = hash]
    /\ target' = Other(running)
    /\ reply' = "OTA_FAIL"
    /\ UNCHANGED <<open, s_sha_ctx, hashing, hash_failed, flash, running, otadata, rebooting>>

\* CHUNK with another index than the one expected (an absent index is 0).
OtaChunkMissing(idx) ==
    /\ ~ rebooting /\ s_state.active
    /\ idx # s_state.next
    /\ reply' = "OTA_MISSING"
    /\ UNCHANGED <<ram, flash, running, otadata, rebooting>>

\* Fault: the counter is advanced although the message has no data.
OtaChunkNoDataCounts(idx) ==
    /\ ~ rebooting /\ s_state.active
    /\ idx = s_state.next
    /\ idx < Size
    /\ s_state' = [s_state EXCEPT !.next = @ + 1]
    /\ reply' = "none"
    /\ UNCHANGED <<target, open, s_sha_ctx, hashing, hash_failed, flash, running, otadata, rebooting>>

\* CHUNK with the expected index and no data field.
OtaChunkNoData(idx) ==
    /\ ~ rebooting /\ s_state.active
    /\ idx = s_state.next
    /\ reply' = "none"
    /\ UNCHANGED <<ram, flash, running, otadata, rebooting>>

\* psa_hash_update, whose failure ends the operation unnoticed.
Hashed(data) ==
    \/ /\ hashing
       /\ s_sha_ctx' = Append(s_sha_ctx, data)
       /\ UNCHANGED <<hashing, hash_failed>>
    \/ /\ hashing' = FALSE
       /\ hash_failed' = (hash_failed \/ hashing)
       /\ UNCHANGED s_sha_ctx

\* CHUNK that esp_ota_write takes: the first one has to begin like an image.
OtaChunk(idx, data) ==
    /\ ~ rebooting /\ s_state.active
    /\ idx = s_state.next
    /\ open /\ idx < Size
    /\ idx = 0 => data \in Magic
    /\ flash' = [flash EXCEPT ![target][idx + 1] = data]
    /\ Hashed(data)
    /\ s_state' = [s_state EXCEPT !.next = @ + 1]
    /\ reply' = "none"
    /\ UNCHANGED <<target, open, running, otadata, rebooting>>

\* CHUNK that esp_ota_write refuses (a handle that was ended, a full partition, a
\* first field that does not begin like an image) or that fails in the flash, with
\* the sector erased or half written.
OtaChunkWriteFails(idx) ==
    /\ ~ rebooting /\ s_state.active
    /\ idx = s_state.next
    /\ \/ flash' = flash
       \/ open /\ idx < Size /\ \E c \in Chunk : flash' = [flash EXCEPT ![target][idx + 1] = c]
    /\ s_state' = [s_state EXCEPT !.active = FALSE]
    /\ reply' = "OTA_FAIL"
    /\ UNCHANGED <<target, open, s_sha_ctx, hashing, hash_failed, running, otadata, rebooting>>

\* psa_hash_finish and memcmp.  When the operation is not active, or fails, the
\* buffer is not written and holds what the stack held before.
HashMatches(equal) ==
    /\ hashing' = FALSE
    /\ \/ /\ hashing
          /\ equal = (s_sha_ctx = s_state.sha256)
          /\ UNCHANGED hash_failed
       \/ hash_failed' = (hash_failed \/ hashing)

\* esp_ota_end: something was written through the handle, and it is an image.
Ended == open /\ s_state.next > 0 /\ Bootable(target)

\* COMPLETE with a hash other than the announced one.
OtaCompleteMismatch ==
    /\ ~ rebooting /\ s_state.active
    /\ HashMatches(FALSE)
    /\ open' = FALSE
    /\ s_state' = [s_state EXCEPT !.active = FALSE]
    /\ reply' = "OTA_FAIL"
    /\ UNCHANGED <<target, s_sha_ctx, flash, running, otadata, rebooting>>

\* COMPLETE with the announced hash, when esp_ota_end does not know the handle
\* or does not accept the image.
OtaCompleteRefused ==
    /\ ~ rebooting /\ s_state.active
    /\ HashMatches(TRUE)
    /\ ~ Ended
    /\ open' = FALSE
    /\ s_state' = [s_state EXCEPT !.active = FALSE]
    /\ reply' = "OTA_FAIL"
    /\ UNCHANGED <<target, s_sha_ctx, flash, running, otadata, rebooting>>

\* Fault: the computed hash is not compared.
OtaCompleteUnchecked ==
    /\ ~ rebooting /\ s_state.active
    /\ Ended
    /\ hashing' = FALSE /\ open' = FALSE
    /\ reply' = "OTA_VERIFY"
    /\ UNCHANGED <<s_state, target, s_sha_ctx, hash_failed, flash, running, otadata, rebooting>>

\* COMPLETE of a verified image.  s_state stays active.
OtaComplete ==
    /\ ~ rebooting /\ s_state.active
    /\ HashMatches(TRUE)
    /\ Ended
    /\ open' = FALSE
    /\ reply' = "OTA_VERIFY"
    /\ UNCHANGED <<s_state, target, s_sha_ctx, flash, running, otadata, rebooting>>

\* INSTALL.  Whether COMPLETE has verified the image is not asked:
\* esp_ota_set_boot_partition accepts every partition it can boot.  The power may
\* fail after the entry is erased and before it is written.
OtaInstall ==
    /\ ~ rebooting
    /\ target # "none" /\ Bootable(target)
    /\ \/ entry' = [entry EXCEPT ![target] = "new"] /\ newest' = target
       \/ entry' = [entry EXCEPT ![target] = "none"] /\ UNCHANGED newest
    /\ rebooting' = TRUE
    /\ reply' = "OTA_REBOOT"
    /\ UNCHANGED <<ram, flash, running>>

OtaInstallFails ==
    /\ ~ rebooting
    /\ ~ (target # "none" /\ Bootable(target))
    /\ reply' = "OTA_FAIL"
    /\ UNCHANGED <<ram, flash, running, otadata, rebooting>>

\* The boot loader aborts a pending image, starts its choice (or the other
\* partition when that one is not whole) and notes a new image as pending.
Load(e) ==
    LET p == LoaderChoice(e)
    IN /\ running' = IF Bootable(p) THEN p ELSE Other(p)
       /\ entry' = [q \in Parts |-> CASE e[q] = "pending" -> "aborted"
                                      [] e[q] = "new" /\ q = p -> "pending"
                                      [] OTHER -> e[q]]

\* esp_restart, or a power failure at any time; one in the loader, while it
\* rewrites an entry, loses that entry.
OtaRestart ==
    /\ \/ Load(entry)
       \/ \E q \in Parts : entry[q] \in {"new", "pending"} /\ Load([entry EXCEPT ![q] = "none"])
    /\ s_state' = Idle /\ target' = "none" /\ open' = FALSE
    /\ s_sha_ctx' = <<>> /\ hashing' = FALSE /\ hash_failed' = FALSE
    /\ reply' = "none"
    /\ rebooting' = FALSE
    /\ UNCHANGED <<flash, newest>>

OtaNext ==
    \/ \E hash \in Announced \union {NoHash} : OtaBegin(hash) \/ OtaBeginFails(hash)
    \/ OtaBeginBadHash
    \/ \E idx \in 0 .. Size :
         \/ OtaChunkMissing(idx) \/ OtaChunkNoData(idx) \/ OtaChunkWriteFails(idx)
         \/ \E data \in Chunk : OtaChunk(idx, data)
    \/ OtaCompleteMismatch \/ OtaCompleteRefused \/ OtaComplete
    \/ OtaInstall \/ OtaInstallFails \/ OtaRestart

OtaSpec == OtaInit /\ [][OtaNext]_otaVars

-----------------------------------------------------------------------------
(* Properties.                                                             *)

\* What OTA_VERIFY tells the server is true: the partition holds the image whose
\* hash BEGIN announced, whatever was lost, repeated, reordered or begun again on
\* the way.  The exception is a psa_hash_* call that failed since BEGIN: the code
\* looks at none of their results (ota_service.c:96,144,159) and compares what
\* the stack held.
VerifyIsTrue ==
    reply = "OTA_VERIFY" /\ ~ hash_failed =>
        s_state.sha256 # NoHash /\ Holds(target, s_state.sha256)

\* At every instant, in the middle of an update, after a refused one, between the
\* entries of INSTALL and while an image waits to be rolled back, a power failure
\* leaves a device that starts: the partition the boot loader turns to first holds
\* a whole image.
AlwaysBoots ==
    /\ Bootable(LoaderChoice(entry))
    /\ \A q \in Parts : entry[q] \in {"new", "pending"} =>
         Bootable(LoaderChoice([entry EXCEPT ![q] = "none"]))

\* While an update is under way the expected index, the running hash and the
\* flash describe the same prefix of the image, so asking for the expected index
\* (OTA_MISSING) resumes it.
PrefixAgrees ==
    s_state.active /\ hashing =>
        /\ s_state.next = Len(s_sha_ctx)
        /\ Holds(target, s_sha_ctx)
=============================================================================
