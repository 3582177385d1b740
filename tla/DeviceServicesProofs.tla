------------------------ MODULE DeviceServicesProofs ------------------------
(***************************************************************************)
(* Four services of the device, each for every value of its constants:     *)
(* firmware update is safe for every set of images, size of the partitions *)
(* and sequence of messages, failures and power losses; retransmission is  *)
(* bounded for every number of slots, retries and packets, although nothing*)
(* locks the slots; the earlier app's UDP protocol executes a datagram at  *)
(* most once in a session for every rate limit, session life and range of  *)
(* counters, and any number of restarts; BLE writes become lines exactly   *)
(* for every size of chunk, queue and buffer.                              *)
(*                                                                         *)
(* And the server's record of the device: presence, for any number of      *)
(* sockets, which may overlap, handshakes and requests under way.          *)
(***************************************************************************)
EXTENDS OtaUpdate, QosEngine, LegacyUdp, BleLines, PresenceEngine, SequenceTheorems, TLAPS

-----------------------------------------------------------------------------
(* Firmware update: types.                                                 *)

LEMMA OtherPart == \A p \in Parts : Other(p) \in Parts /\ Other(p) # p
  BY DEF Parts, Other

\* The loader turns to ota_1 only for an entry that is new or valid, and to a new
\* one whenever it is the newest.
LEMMA Choice ==
  ASSUME NEW e, newest \in Parts
  PROVE  /\ LoaderChoice(e) \in Parts
         /\ LoaderChoice(e) = "ota_1" => e["ota_1"] \in {"new", "valid"}
         /\ newest = "ota_1" /\ e["ota_1"] = "new" => LoaderChoice(e) = "ota_1"
<1> DEFINE usable == {p \in Parts : e[p] \in {"new", "valid"}}
<1>1. CASE newest \in usable
  <2>1. LoaderChoice(e) = newest
    BY <1>1, OtherPart DEF LoaderChoice
  <2> QED BY <1>1, <2>1
<1>2. CASE newest \notin usable /\ usable = {Other(newest)}
  <2>1. LoaderChoice(e) = Other(newest)
    BY <1>2 DEF LoaderChoice
  <2> QED BY <1>2, <2>1, OtherPart DEF Parts
<1>3. CASE newest \notin usable /\ usable # {Other(newest)}
  <2>1. LoaderChoice(e) = "ota_0"
    BY <1>3 DEF LoaderChoice
  <2> QED BY <1>3, <2>1 DEF Parts
<1> QED BY <1>1, <1>2, <1>3

Notes == {"none", "new", "pending", "valid", "aborted"}

LEMMA LoadTyped ==
  ASSUME newest \in Parts, NEW e \in [Parts -> Notes], Load(e)
  PROVE  running' \in Parts /\ entry' \in [Parts -> Notes]
BY Choice, OtherPart DEF Load, Notes

LEMMA OtaInitTypes == OtaInit => OtaTypeOK
<1> SUFFICES ASSUME OtaInit PROVE OtaTypeOK
    OBVIOUS
<1>1. s_state \in [active : BOOLEAN, next : 0 .. Size, sha256 : Announced \union {NoHash}]
    BY OtaAssumption DEF OtaInit, Idle
<1>2. s_sha_ctx \in Seq(Chunk)
    BY DEF OtaInit
<1> QED BY <1>1, <1>2 DEF OtaInit, OtaTypeOK, Parts

\* Every message, failure and restart keeps the state of ota_service.c and of
\* the flash within its types; a chunk is written only below Size.
THEOREM OtaTypeCorrect == OtaSpec => []OtaTypeOK
<1>1. OtaInit => OtaTypeOK
  BY OtaInitTypes
<1>2. OtaTypeOK /\ [OtaNext]_otaVars => OtaTypeOK'
  <2> SUFFICES ASSUME OtaTypeOK, [OtaNext]_otaVars PROVE OtaTypeOK'
    OBVIOUS
  <2> DEFINE State == [active : BOOLEAN, next : 0 .. Size, sha256 : Announced \union {NoHash}]
  <2>a. Size \in Nat /\ 0 \in 0 .. Size
    BY OtaAssumption
  <2>b. Idle \in State /\ <<>> \in Seq(Chunk)
    BY <2>a DEF Idle
  <2>c. s_state \in State
    BY DEF OtaTypeOK
  <2>d. [s_state EXCEPT !.active = FALSE] \in State
    BY <2>c
  <2>e. ASSUME NEW idx \in 0 .. Size, NEW data \in Chunk
        PROVE  [flash EXCEPT ![target][idx + 1] = data] \in [Parts -> [1 .. Size -> Chunk]]
    <3>1. CASE target \in Parts
      BY <3>1 DEF OtaTypeOK
    <3>2. CASE target \notin Parts
      BY <3>2 DEF OtaTypeOK
    <3> QED BY <3>1, <3>2
  <2>g. entry \in [Parts -> Notes] /\ newest \in Parts
    BY DEF OtaTypeOK, Notes
  <2> HIDE DEF State
  <2>f. ASSUME s_state' \in State, flash' \in [Parts -> [1 .. Size -> Chunk]], s_sha_ctx' \in Seq(Chunk),
               target' \in Parts \union {"none"}, open' \in BOOLEAN, hashing' \in BOOLEAN,
               hash_failed' \in BOOLEAN,
               reply' \in {"none", "OTA_FAIL", "OTA_MISSING", "OTA_VERIFY", "OTA_REBOOT"},
               running' \in Parts, entry' \in [Parts -> Notes], newest' \in Parts,
               rebooting' \in BOOLEAN
        PROVE  OtaTypeOK'
    BY <2>f DEF OtaTypeOK, State, Notes
  <2>1. ASSUME NEW hash \in Announced \union {NoHash}, OtaBegin(hash) PROVE OtaTypeOK'
    <3>1. s_state' \in State
      BY <2>1, <2>a DEF OtaBegin, State
    <3> QED BY <2>1, <2>b, <2>f, <2>g, <3>1, OtherPart DEF OtaBegin, OtaTypeOK, otadata
  <2>2. ASSUME NEW hash \in Announced \union {NoHash}, OtaBeginFails(hash) PROVE OtaTypeOK'
    <3>1. s_state' \in State
      BY <2>2, <2>b DEF OtaBeginFails, State
    <3> QED BY <2>2, <2>f, <2>g, <3>1, OtherPart DEF OtaBeginFails, OtaTypeOK, otadata
  <2>3. CASE OtaBeginBadHash
    BY <2>3, <2>b, <2>f, <2>g DEF OtaBeginBadHash, OtaTypeOK, otadata
  <2>4. ASSUME NEW idx \in 0 .. Size, OtaChunkMissing(idx) \/ OtaChunkNoData(idx) PROVE OtaTypeOK'
    BY <2>4, <2>c, <2>f, <2>g DEF OtaChunkMissing, OtaChunkNoData, ram, OtaTypeOK, otadata
  <2>5. ASSUME NEW idx \in 0 .. Size, OtaChunkWriteFails(idx) PROVE OtaTypeOK'
    <3>1. flash' \in [Parts -> [1 .. Size -> Chunk]]
      <4>1. CASE flash' = flash
        BY <4>1 DEF OtaTypeOK
      <4>2. CASE \E c \in Chunk : flash' = [flash EXCEPT ![target][idx + 1] = c]
        <5>1. PICK c \in Chunk : flash' = [flash EXCEPT ![target][idx + 1] = c]
          BY <4>2
        <5>2. [flash EXCEPT ![target][idx + 1] = c] \in [Parts -> [1 .. Size -> Chunk]]
          BY <2>e
        <5> QED BY <5>1, <5>2
      <4> QED BY <2>5, <4>1, <4>2 DEF OtaChunkWriteFails
    <3> QED BY <2>5, <2>d, <2>f, <2>g, <3>1 DEF OtaChunkWriteFails, OtaTypeOK, otadata
  <2>6. ASSUME NEW idx \in 0 .. Size, NEW data \in Chunk, OtaChunk(idx, data) PROVE OtaTypeOK'
    <3>1. s_state' \in State
      <4>1. s_state.next + 1 \in 0 .. Size
        BY <2>6, <2>a DEF OtaChunk
      <4> QED BY <2>6, <2>c, <4>1 DEF OtaChunk, State
    <3>2. flash' \in [Parts -> [1 .. Size -> Chunk]]
      BY <2>6, <2>e DEF OtaChunk
    <3>3. s_sha_ctx' \in Seq(Chunk) /\ hashing' \in BOOLEAN /\ hash_failed' \in BOOLEAN
      <4>1. Hashed(data)
        BY <2>6 DEF OtaChunk
      <4>2. s_sha_ctx \in Seq(Chunk) /\ hashing \in BOOLEAN /\ hash_failed \in BOOLEAN
        BY DEF OtaTypeOK
      <4>3. s_sha_ctx' \in Seq(Chunk)
        BY <4>1, <4>2 DEF Hashed
      <4>4. hashing' \in BOOLEAN /\ hash_failed' \in BOOLEAN
        BY <4>1, <4>2, Zenon DEF Hashed
      <4> QED BY <4>3, <4>4
    <3> QED BY <2>6, <2>f, <2>g, <3>1, <3>2, <3>3 DEF OtaChunk, OtaTypeOK, otadata
  <2>7. CASE OtaCompleteMismatch
    BY <2>7, <2>d, <2>f, <2>g DEF OtaCompleteMismatch, HashMatches, OtaTypeOK, otadata
  <2>8. CASE OtaCompleteRefused
    BY <2>8, <2>d, <2>f, <2>g DEF OtaCompleteRefused, HashMatches, OtaTypeOK, otadata
  <2>9. CASE OtaComplete
    BY <2>9, <2>c, <2>f, <2>g DEF OtaComplete, HashMatches, OtaTypeOK, otadata
  <2>10. CASE OtaInstall
    <3>1. entry' \in [Parts -> Notes] /\ newest' \in Parts
      BY <2>10, <2>g DEF OtaInstall, Notes, OtaTypeOK
    <3> QED BY <2>10, <2>c, <2>f, <3>1 DEF OtaInstall, ram, OtaTypeOK
  <2>11. CASE OtaInstallFails
    BY <2>11, <2>c, <2>f, <2>g DEF OtaInstallFails, ram, OtaTypeOK, otadata
  <2>12. CASE OtaRestart
    <3>1. PICK e \in [Parts -> Notes] : Load(e)
      <4>1. \A q \in Parts : [entry EXCEPT ![q] = "none"] \in [Parts -> Notes]
        BY <2>g DEF Notes
      <4> QED BY <2>12, <2>g, <4>1 DEF OtaRestart
    <3>2. running' \in Parts /\ entry' \in [Parts -> Notes]
      BY <2>g, <3>1, LoadTyped
    <3> QED BY <2>12, <2>b, <2>f, <2>g, <3>2 DEF OtaRestart, OtaTypeOK
  <2>13. CASE UNCHANGED otaVars
    BY <2>13, <2>c, <2>f, <2>g DEF otaVars, ram, OtaTypeOK, otadata
  <2> QED
    BY <2>1, <2>2, <2>3, <2>4, <2>5, <2>6, <2>7, <2>8, <2>9, <2>10, <2>11, <2>12, <2>13 DEF OtaNext
<1> QED BY <1>1, <1>2, PTL DEF OtaSpec

-----------------------------------------------------------------------------
(* The boot loader's choice.                                               *)

\* An image that nobody confirms runs once, as pending, and esp_ota_begin refuses
\* while it does.  So an update is only ever written from ota_0 into ota_1, and an
\* entry that would start ota_1 is there only from INSTALL to the end of that run.
Targets ==
    /\ target \in {"none", Other(running)}
    /\ s_state.active => running = "ota_0" /\ target = "ota_1"

Entries ==
    /\ running = "ota_1" => entry["ota_1"] = "pending"
    /\ entry["ota_1"] # "valid"
    /\ entry["ota_1"] = "new" => newest = "ota_1" /\ rebooting
    /\ entry["ota_1"] = "pending" => running = "ota_1"

Whole ==
    /\ Bootable("ota_0")
    /\ entry["ota_1"] \in {"new", "pending"} => Bootable("ota_1")

LoaderInv == OtaTypeOK /\ Targets /\ Entries /\ Whole

\* Whatever entry is lost, the loader's choice is whole.
LEMMA ChoiceIsWhole ==
  ASSUME newest \in Parts, Whole, NEW e,
         e["ota_1"] # "valid", e["ota_1"] = "new" => entry["ota_1"] = "new"
  PROVE  Bootable(LoaderChoice(e))
<1>1. CASE LoaderChoice(e) = "ota_1"
  BY <1>1, Choice DEF Whole
<1>2. CASE LoaderChoice(e) = "ota_0"
  BY <1>2 DEF Whole
<1> QED BY <1>1, <1>2, Choice DEF Parts

LEMMA LosesEntry ==
  ASSUME OtaTypeOK, Entries, NEW q \in Parts, NEW e, e = [entry EXCEPT ![q] = "none"]
  PROVE  /\ e["ota_1"] \in {entry["ota_1"], "none"}
         /\ e["ota_1"] # "valid"
BY DEF OtaTypeOK, Entries, Parts

LEMMA WhatIsWholeStays ==
  ASSUME Whole, UNCHANGED <<flash, entry>> PROVE Whole'
BY DEF Whole, Bootable, Holds

\* A write to the target leaves ota_0 as it was, and no entry names ota_1.
LEMMA WriteElsewhere ==
  ASSUME LoaderInv, ~ rebooting, s_state.active, UNCHANGED entry,
         NEW idx \in 0 .. Size, NEW data \in Chunk,
         flash' = [flash EXCEPT ![target][idx + 1] = data]
  PROVE  Whole'
<1>1. flash'["ota_0"] = flash["ota_0"]
  BY DEF LoaderInv, Targets, OtaTypeOK, Parts
<1>2. entry["ota_1"] \notin {"new", "pending"}
  BY DEF LoaderInv, Targets, Entries
<1> QED BY <1>1, <1>2 DEF LoaderInv, Whole, Bootable, Holds

LEMMA LoadKeeps ==
  ASSUME LoaderInv, NEW e \in [Parts -> Notes], Load(e), UNCHANGED <<flash, newest>>,
         e["ota_1"] \in {entry["ota_1"], "none"}
  PROVE  Entries' /\ Whole'
<1>1. /\ newest \in Parts
      /\ e["ota_1"] # "valid"
      /\ e["ota_1"] = "new" => newest = "ota_1" /\ entry["ota_1"] = "new"
  BY DEF LoaderInv, OtaTypeOK, Entries
<1> DEFINE p == LoaderChoice(e)
<1>2. /\ p \in Parts
      /\ p = "ota_1" <=> e["ota_1"] = "new"
      /\ Bootable(p)
  BY <1>1, Choice, ChoiceIsWhole DEF LoaderInv
<1>3. /\ running' = p
      /\ entry'["ota_1"] = CASE e["ota_1"] = "pending" -> "aborted"
                             [] e["ota_1"] = "new" /\ "ota_1" = p -> "pending"
                             [] OTHER -> e["ota_1"]
  BY <1>2 DEF Load, Parts
<1> HIDE DEF p
<1>4. CASE e["ota_1"] = "new"
  <2>1. running' = "ota_1" /\ entry'["ota_1"] = "pending"
    BY <1>2, <1>3, <1>4
  <2> QED BY <1>1, <1>4, <2>1 DEF LoaderInv, Entries, Whole, Bootable, Holds
<1>5. CASE e["ota_1"] # "new"
  <2>1. running' = "ota_0" /\ entry'["ota_1"] \notin {"new", "pending", "valid"}
    BY <1>1, <1>2, <1>3, <1>5 DEF Parts
  <2> QED BY <2>1 DEF LoaderInv, Entries, Whole, Bootable, Holds
<1> QED BY <1>4, <1>5

LEMMA OtaMessageKeeps ==
  ASSUME LoaderInv, UNCHANGED <<flash, running, otadata, rebooting>>,
         target' \in {target, Other(running)},
         s_state'.active => s_state.active /\ target' = target
  PROVE  Targets' /\ Entries' /\ Whole'
<1>1. Targets'
  BY DEF LoaderInv, Targets
<1>2. Entries'
  BY DEF LoaderInv, Entries, otadata
<1>3. Whole'
  BY WhatIsWholeStays DEF LoaderInv, otadata
<1> QED BY <1>1, <1>2, <1>3

LEMMA LoaderStep == LoaderInv /\ OtaTypeOK' /\ [OtaNext]_otaVars => LoaderInv'
<1> SUFFICES ASSUME LoaderInv, OtaTypeOK', [OtaNext]_otaVars PROVE Targets' /\ Entries' /\ Whole'
  BY DEF LoaderInv
<1>0. OtaTypeOK /\ Targets /\ Entries /\ Whole
  BY DEF LoaderInv
<1>1. ASSUME NEW hash \in Announced \union {NoHash}, OtaBegin(hash)
      PROVE  Targets' /\ Entries' /\ Whole'
  <2>1. running = "ota_0" /\ Other(running) = "ota_1"
    BY <1>0, <1>1 DEF OtaBegin, Entries, OtaTypeOK, Parts, Other
  <2>2. Targets'
    BY <1>1, <2>1 DEF OtaBegin, Targets
  <2>3. Entries'
    BY <1>0, <1>1 DEF OtaBegin, Entries, otadata
  <2>4. Whole'
    BY <1>0, <1>1, WhatIsWholeStays DEF OtaBegin, otadata
  <2> QED BY <2>2, <2>3, <2>4
<1>2. ASSUME NEW hash \in Announced \union {NoHash}, OtaBeginFails(hash)
      PROVE  Targets' /\ Entries' /\ Whole'
  BY <1>2, OtaMessageKeeps DEF OtaBeginFails, Idle
<1>3. CASE OtaBeginBadHash
  BY <1>3, OtaMessageKeeps DEF OtaBeginBadHash, Idle
<1>4. ASSUME NEW idx \in 0 .. Size, OtaChunkMissing(idx) \/ OtaChunkNoData(idx)
      PROVE  Targets' /\ Entries' /\ Whole'
  BY <1>4, OtaMessageKeeps DEF OtaChunkMissing, OtaChunkNoData, ram
<1>5. ASSUME NEW idx \in 0 .. Size, OtaChunkWriteFails(idx) PROVE Targets' /\ Entries' /\ Whole'
  <2>1. Targets' /\ Entries'
    BY <1>0, <1>5 DEF OtaChunkWriteFails, Targets, Entries, OtaTypeOK, otadata
  <2>2. CASE flash' = flash
    BY <1>0, <1>5, <2>1, <2>2, WhatIsWholeStays DEF OtaChunkWriteFails, otadata
  <2>3. CASE \E c \in Chunk : flash' = [flash EXCEPT ![target][idx + 1] = c]
    <3>1. PICK c \in Chunk : flash' = [flash EXCEPT ![target][idx + 1] = c]
      BY <2>3
    <3>2. ~ rebooting /\ s_state.active /\ UNCHANGED entry
      BY <1>5 DEF OtaChunkWriteFails, otadata
    <3> QED BY <2>1, <3>1, <3>2, WriteElsewhere
  <2> QED BY <1>5, <2>1, <2>2, <2>3 DEF OtaChunkWriteFails
<1>6. ASSUME NEW idx \in 0 .. Size, NEW data \in Chunk, OtaChunk(idx, data)
      PROVE  Targets' /\ Entries' /\ Whole'
  <2>1. Targets' /\ Entries'
    BY <1>0, <1>6 DEF OtaChunk, Targets, Entries, OtaTypeOK, otadata
  <2>2. ~ rebooting /\ s_state.active /\ UNCHANGED entry
        /\ flash' = [flash EXCEPT ![target][idx + 1] = data]
    BY <1>6 DEF OtaChunk, otadata
  <2> QED BY <2>1, <2>2, WriteElsewhere
<1>7. CASE OtaCompleteMismatch
  BY <1>0, <1>7, OtaMessageKeeps DEF OtaCompleteMismatch, OtaTypeOK
<1>8. CASE OtaCompleteRefused
  BY <1>0, <1>8, OtaMessageKeeps DEF OtaCompleteRefused, OtaTypeOK
<1>9. CASE OtaComplete
  BY <1>9, OtaMessageKeeps DEF OtaComplete
<1>10. CASE OtaInstall
  <2>1. /\ target \in Parts /\ target = Other(running) /\ Bootable(target) /\ ~ rebooting
        /\ rebooting' = TRUE /\ UNCHANGED <<ram, flash, running>>
        /\ \/ entry' = [entry EXCEPT ![target] = "new"] /\ newest' = target
           \/ entry' = [entry EXCEPT ![target] = "none"] /\ UNCHANGED newest
    BY <1>0, <1>10 DEF OtaInstall, Targets, OtaTypeOK
  <2>2. Targets'
    BY <1>0, <2>1 DEF Targets, ram
  <2>3. CASE target = "ota_1"
    <3>1. (entry'["ota_1"] = "new" /\ newest' = "ota_1") \/ entry'["ota_1"] = "none"
      BY <1>0, <2>1, <2>3 DEF OtaTypeOK
    <3>2. running = "ota_0"
      BY <1>0, <2>1, <2>3 DEF OtaTypeOK, Parts, Other
    <3> QED BY <1>0, <2>1, <2>2, <2>3, <3>1, <3>2 DEF Entries, Whole, Bootable, Holds
  <2>4. CASE target = "ota_0"
    <3>1. entry'["ota_1"] = entry["ota_1"]
      BY <1>0, <2>1, <2>4 DEF OtaTypeOK, Parts
    <3> QED BY <1>0, <2>1, <2>2, <2>4, <3>1 DEF Entries, Whole, Bootable, Holds
  <2> QED BY <2>1, <2>3, <2>4 DEF Parts
<1>11. CASE OtaInstallFails
  BY <1>11, OtaMessageKeeps DEF OtaInstallFails, ram
<1>12. CASE OtaRestart
  <2>1. entry \in [Parts -> Notes]
    BY <1>0 DEF OtaTypeOK, Notes
  <2>2. \A q \in Parts : [entry EXCEPT ![q] = "none"] \in [Parts -> Notes]
    BY <2>1 DEF Notes
  <2>3. PICK e \in [Parts -> Notes] : Load(e) /\ e["ota_1"] \in {entry["ota_1"], "none"}
    BY <1>0, <1>12, <2>1, <2>2, LosesEntry DEF OtaRestart
  <2>4. Entries' /\ Whole'
    BY <1>12, <2>3, LoadKeeps DEF OtaRestart
  <2> QED BY <1>12, <2>4 DEF OtaRestart, Targets, Idle
<1>13. CASE UNCHANGED otaVars
  BY <1>13, OtaMessageKeeps DEF otaVars, ram
<1> QED
  BY <1>1, <1>2, <1>3, <1>4, <1>5, <1>6, <1>7, <1>8, <1>9, <1>10, <1>11, <1>12, <1>13 DEF OtaNext

\* A power failure at any instant leaves a device that starts at the loader's
\* first choice, although INSTALL never asks whether COMPLETE has verified the image
\* and every installed image is rolled back after one run.
THEOREM OtaAlwaysBoots == OtaSpec => []AlwaysBoots
<1>1. OtaInit => LoaderInv
  <2> SUFFICES ASSUME OtaInit PROVE LoaderInv
    OBVIOUS
  <2>1. OtaTypeOK
    BY OtaInitTypes
  <2>2. running = "ota_0" /\ entry["ota_1"] = "none"
    BY DEF OtaInit, Parts
  <2> QED BY <2>1, <2>2 DEF OtaInit, Idle, LoaderInv, Targets, Entries, Whole
<1>2. LoaderInv => AlwaysBoots
  <2> SUFFICES ASSUME LoaderInv PROVE AlwaysBoots
    OBVIOUS
  <2>0. OtaTypeOK /\ Entries /\ Whole /\ newest \in Parts
    BY DEF LoaderInv, OtaTypeOK
  <2>1. Bootable(LoaderChoice(entry))
    BY <2>0, ChoiceIsWhole DEF Entries
  <2>2. ASSUME NEW q \in Parts PROVE Bootable(LoaderChoice([entry EXCEPT ![q] = "none"]))
    <3>1. PICK e : e = [entry EXCEPT ![q] = "none"]
      OBVIOUS
    <3> QED BY <2>0, <3>1, LosesEntry, ChoiceIsWhole
  <2> QED BY <2>1, <2>2 DEF AlwaysBoots
<1> QED BY <1>1, <1>2, LoaderStep, OtaTypeCorrect, PTL DEF OtaSpec

-----------------------------------------------------------------------------
(* The image.                                                              *)

\* A handle that can be written has a hash operation that runs along with it, or
\* one that failed, so only after a failure is the hash compared with what the
\* stack happens to hold when the partition could still be accepted.
HashFollows == open => hashing \/ hash_failed

ImageInv == /\ HashFollows
            /\ s_state.active => target # "none"
            /\ PrefixAgrees
            /\ VerifyIsTrue

\* Writing the next chunk extends the prefix that flash and hash share.
LEMMA ChunkExtends ==
  ASSUME OtaTypeOK, s_state.active, target # "none",
         NEW idx \in 0 .. Size, NEW data \in Chunk, idx < Size,
         idx = Len(s_sha_ctx), Holds(target, s_sha_ctx),
         flash' = [flash EXCEPT ![target][idx + 1] = data],
         s_sha_ctx' = Append(s_sha_ctx, data), UNCHANGED target
  PROVE  Holds(target, s_sha_ctx)'
<1> SUFFICES ASSUME NEW k \in 1 .. Len(s_sha_ctx') PROVE flash'[target][k] = s_sha_ctx'[k]
  BY DEF Holds
<1>1. target \in Parts /\ s_sha_ctx \in Seq(Chunk) /\ flash \in [Parts -> [1 .. Size -> Chunk]]
  BY DEF OtaTypeOK
<1>2. Len(s_sha_ctx') = idx + 1 /\ Size \in Nat
  BY <1>1, OtaAssumption
<1>3. CASE k = idx + 1
  BY <1>1, <1>2, <1>3
<1>4. CASE k \in 1 .. idx
  <2>1. flash'[target][k] = flash[target][k]
    BY <1>1, <1>2, <1>4
  <2>2. s_sha_ctx'[k] = s_sha_ctx[k]
    BY <1>1, <1>2, <1>4
  <2> QED BY <1>4, <2>1, <2>2 DEF Holds
<1> QED BY <1>2, <1>3, <1>4

LEMMA ImageStep == ImageInv /\ OtaTypeOK /\ OtaTypeOK' /\ [OtaNext]_otaVars => ImageInv'
<1> SUFFICES ASSUME ImageInv, OtaTypeOK, OtaTypeOK', [OtaNext]_otaVars PROVE ImageInv'
  OBVIOUS
<1> USE DEF ImageInv, HashFollows, PrefixAgrees, VerifyIsTrue
<1>1. ASSUME NEW hash \in Announced \union {NoHash}, OtaBegin(hash) PROVE ImageInv'
  <2>1. hashing' \/ hash_failed'
    BY <1>1, Zenon DEF OtaBegin
  <2>2. s_state'.next = 0 /\ s_sha_ctx' = <<>> /\ target' \in Parts /\ reply' = "none"
    BY <1>1, OtherPart DEF OtaBegin, OtaTypeOK
  <2> QED BY <2>1, <2>2 DEF Holds, Parts
<1>2. ASSUME NEW hash \in Announced \union {NoHash}, OtaBeginFails(hash) PROVE ImageInv'
  BY <1>2 DEF OtaBeginFails, Idle
<1>3. CASE OtaBeginBadHash
  BY <1>3 DEF OtaBeginBadHash, Idle
<1>4. ASSUME NEW idx \in 0 .. Size, OtaChunkMissing(idx) \/ OtaChunkNoData(idx) PROVE ImageInv'
  BY <1>4 DEF OtaChunkMissing, OtaChunkNoData, ram, Holds
<1>5. ASSUME NEW idx \in 0 .. Size, OtaChunkWriteFails(idx) PROVE ImageInv'
  BY <1>5 DEF OtaChunkWriteFails, OtaTypeOK
<1>6. ASSUME NEW idx \in 0 .. Size, NEW data \in Chunk, OtaChunk(idx, data) PROVE ImageInv'
  <2>0. /\ s_state'.active = s_state.active /\ s_state'.next = s_state.next + 1
        /\ reply' = "none" /\ target' = target /\ open' = open
    BY <1>6 DEF OtaChunk, OtaTypeOK
  <2>1. CASE hashing'
    <3>1. hashing /\ s_sha_ctx' = Append(s_sha_ctx, data)
      BY <1>6, <2>1 DEF OtaChunk, Hashed
    <3>2. idx = Len(s_sha_ctx) /\ Holds(target, s_sha_ctx)
      BY <1>6, <3>1 DEF OtaChunk
    <3>3. Holds(target, s_sha_ctx)'
      BY <1>6, <3>1, <3>2, ChunkExtends DEF OtaChunk
    <3>4. s_state'.next = Len(s_sha_ctx')
      BY <1>6, <2>0, <3>1, <3>2 DEF OtaChunk, OtaTypeOK
    <3> QED BY <2>0, <2>1, <3>3, <3>4
  <2>2. CASE ~ hashing'
    BY <1>6, <2>0, <2>2 DEF OtaChunk, Hashed, OtaTypeOK
  <2> QED BY <2>1, <2>2
<1>7. CASE OtaCompleteMismatch
  BY <1>7 DEF OtaCompleteMismatch, HashMatches, OtaTypeOK
<1>8. CASE OtaCompleteRefused
  BY <1>8 DEF OtaCompleteRefused, HashMatches, OtaTypeOK
<1>9. CASE OtaComplete
  <2>1. open /\ open' = FALSE /\ hashing' = FALSE /\ UNCHANGED <<s_state, target, s_sha_ctx, flash>>
    BY <1>9 DEF OtaComplete, HashMatches, Ended
  <2>2. CASE hash_failed'
    BY <2>1, <2>2
  <2>3. CASE ~ hash_failed'
    <3>1. hashing /\ s_sha_ctx = s_state.sha256
      BY <1>9, <2>1, <2>3 DEF OtaComplete, HashMatches, OtaTypeOK
    <3>2. Holds(target, s_state.sha256) /\ s_state.active
      BY <1>9, <3>1 DEF OtaComplete
    <3>3. s_state.sha256 # NoHash
      BY <3>1, OtaAssumption DEF OtaTypeOK
    <3> QED BY <2>1, <3>2, <3>3 DEF Holds
  <2> QED BY <2>2, <2>3
<1>10. CASE OtaInstall
  BY <1>10 DEF OtaInstall, ram, Holds
<1>11. CASE OtaInstallFails
  BY <1>11 DEF OtaInstallFails, ram, Holds
<1>12. CASE OtaRestart
  BY <1>12 DEF OtaRestart, Idle
<1>13. CASE UNCHANGED otaVars
  BY <1>13 DEF otaVars, ram, Holds
<1> QED
  BY <1>1, <1>2, <1>3, <1>4, <1>5, <1>6, <1>7, <1>8, <1>9, <1>10, <1>11, <1>12, <1>13 DEF OtaNext

LEMMA ImageInvariant == OtaSpec => []ImageInv
<1>1. OtaInit => ImageInv
  BY DEF OtaInit, ImageInv, HashFollows, PrefixAgrees, VerifyIsTrue, Idle
<1> QED BY <1>1, ImageStep, OtaTypeCorrect, PTL DEF OtaSpec

\* When the device answers COMPLETE with OTA_VERIFY the partition holds the image
\* whose hash BEGIN announced, unless the hash library failed unnoticed.
THEOREM OtaVerifyIsTrue == OtaSpec => []VerifyIsTrue
<1>1. ImageInv => VerifyIsTrue
  BY DEF ImageInv
<1> QED BY <1>1, ImageInvariant, PTL

\* While an update is under way index, hash and flash describe the same prefix,
\* so OTA_MISSING names the chunk with which the server can go on.
THEOREM OtaPrefixAgrees == OtaSpec => []PrefixAgrees
<1>1. ImageInv => PrefixAgrees
  BY DEF ImageInv
<1> QED BY <1>1, ImageInvariant, PTL

-----------------------------------------------------------------------------
(* Retransmission.                                                         *)

\* Transmissions that ykp_qos_enqueue itself has made of packet p, at most.
Own(p) == IF p = issued /\ app.at # "idle" THEN 0 ELSE 1

Filling(i)  == app.at = "fill" /\ app.slot = i
Sending(i)  == tick.at = "send" /\ tick.slot = i
Counting(i) == tick.at = "count" /\ tick.slot = i

\* A packet is in one slot, and a slot is not given away while enqueue fills it.
SlotIds ==
    /\ \A i \in Slots : /\ slots[i].packet_id <= issued
                        /\ slots[i].active => slots[i].packet_id # 0
    /\ \A i, j \in Slots :
         slots[i].packet_id = slots[j].packet_id /\ slots[i].packet_id # 0 => i = j
    /\ app.at # "idle" => slots[app.slot].packet_id = issued /\ issued > 0
    /\ app.at = "fill" => ~ slots[app.slot].active /\ issued \notin acked

\* A tick that is about to send was found below the limit, and still is: who
\* takes the slot over in between leaves the count or clears it.
RetriesLeft ==
    tick.at \in {"send", "count"} => slots[tick.slot].retries < QOS_MAX_RETRIES

\* The count in the slot follows the transmissions of the packet in it.  The
\* one that may escape it is made between the claim of the slot and its fill.
Attempts ==
    /\ \A p \in Packets : p > issued => sent[p] = 0
    /\ \A p \in 1 .. issued : sent[p] <= QOS_MAX_RETRIES + 1 + Own(p)
    /\ \A i \in Slots :
        /\ Filling(i) => sent[issued] <= 1 /\ (Sending(i) => sent[issued] = 0)
        /\ slots[i].packet_id # 0 /\ ~ Filling(i) =>
             LET tries == slots[i].retries + 1 + Own(slots[i].packet_id)
             IN  /\ sent[slots[i].packet_id] <= tries + 1
                 /\ ~ Counting(i) => sent[slots[i].packet_id] <= tries

\* The slot of an acknowledged packet stays inactive until another takes it.  What
\* is sent after the acknowledgement is enqueue's own transmission, counted by Own,
\* and the one of a tick that is past its test.
Quiet ==
    /\ acked \subseteq 1 .. issued
    /\ \A p \in Packets : late[p] <= 1 + Own(p) /\ (p \notin acked => late[p] = 0)
    /\ \A i \in Slots : slots[i].packet_id \in acked =>
         ~ slots[i].active /\ (Sending(i) => late[slots[i].packet_id] <= Own(slots[i].packet_id))

SlotInv == SlotIds /\ RetriesLeft /\ Attempts /\ Quiet
QosInv == QosTypeOK /\ SlotInv

LEMMA QosNumbers ==
  QOS_MAX_PENDING \in Nat \ {0} /\ QOS_MAX_RETRIES \in Nat /\ MaxPackets \in Nat
BY QosAssumption

LEMMA OwnBit == \A p : Own(p) \in {0, 1}
BY DEF Own

\* What one more transmission does to a table of them.
LEMMA Bump ==
  ASSUME NEW f \in [Packets -> Nat], NEW p
  PROVE  /\ [f EXCEPT ![p] = @ + 1] \in [Packets -> Nat]
         /\ \A q \in Packets : [f EXCEPT ![p] = @ + 1][q] = IF q = p THEN f[q] + 1 ELSE f[q]
<1>1. CASE p \in Packets
  BY <1>1
<1>2. CASE p \notin Packets
  BY <1>2
<1> QED BY <1>1, <1>2

LEMMA QosInitInv == QosInit => QosInv
<1> SUFFICES ASSUME QosInit PROVE QosInv
  OBVIOUS
<1>1. Free \in SlotStates /\ Rest \in AppStates /\ Rest \in TickStates /\ Free.packet_id = 0
      /\ Free.active = FALSE /\ Rest.at = "idle"
  BY QosNumbers DEF Free, Rest, SlotStates, AppStates, TickStates, Slots
<1>2. QosTypeOK
  <2>1. slots \in [Slots -> SlotStates] /\ app \in AppStates /\ tick \in TickStates
    BY <1>1, Zenon DEF QosInit
  <2>2. issued \in 0 .. MaxPackets /\ sent \in [Packets -> Nat] /\ late \in [Packets -> Nat]
    BY QosNumbers DEF QosInit
  <2> QED BY <2>1, <2>2, Zenon DEF QosInit, QosTypeOK
<1>3. SlotInv
  BY <1>1, OwnBit, QosNumbers DEF QosInit, SlotInv, SlotIds, RetriesLeft, Attempts, Quiet, Filling,
     Sending, Counting, Packets
<1> QED BY <1>2, <1>3 DEF QosInv

\* The timer task looks at a slot without sending or counting.
LEMMA QosLooks ==
  ASSUME QosInv, UNCHANGED <<slots, app, issued, sent, acked, late>>,
         tick' = tick \/ (tick.at \notin {"send", "count"} /\ tick'.at \notin {"send", "count"})
  PROVE  SlotInv'
<1>1. CASE tick' = tick
  BY <1>1 DEF QosInv, SlotInv, SlotIds, RetriesLeft, Attempts, Quiet, Own, Filling, Sending,
     Counting
<1>2. CASE tick.at \notin {"send", "count"} /\ tick'.at \notin {"send", "count"}
  <2>1. SlotIds'
    BY DEF QosInv, SlotInv, SlotIds
  <2>2. RetriesLeft'
    BY <1>2 DEF RetriesLeft
  <2>3. Attempts'
    BY <1>2 DEF QosInv, SlotInv, Attempts, Own, Filling, Sending, Counting
  <2>4. Quiet'
    BY <1>2 DEF QosInv, SlotInv, Quiet, Own, Sending
  <2> QED BY <2>1, <2>2, <2>3, <2>4 DEF SlotInv
<1> QED BY <1>1, <1>2

LEMMA QosDue ==
  ASSUME QosInv, TickDue PROVE SlotInv'
<1>0. /\ tick \in TickStates /\ slots \in [Slots -> SlotStates]
      /\ UNCHANGED <<slots, app, issued, sent, acked, late>>
      /\ tick.at = "check" /\ slots[tick.slot].active
      /\ tick' = GoTo(IF slots[tick.slot].retries >= QOS_MAX_RETRIES THEN "drop" ELSE "send")
  BY DEF TickDue, QosInv, QosTypeOK
<1>1. /\ tick'.slot = tick.slot /\ tick.slot \in Slots
      /\ tick'.at = IF slots[tick.slot].retries >= QOS_MAX_RETRIES THEN "drop" ELSE "send"
  BY <1>0 DEF GoTo, TickStates
<1>2. slots[tick.slot].retries \in 0 .. QOS_MAX_RETRIES
  BY <1>0, <1>1 DEF SlotStates
<1>3. SlotIds'
  BY <1>0 DEF QosInv, SlotInv, SlotIds
<1>4. RetriesLeft'
  BY <1>0, <1>1, <1>2, QosNumbers DEF RetriesLeft
<1>5. Attempts'
  <2>1. ~ Filling(tick.slot)
    BY <1>0 DEF QosInv, SlotInv, SlotIds, Filling
  <2> QED BY <1>0, <1>1, <2>1 DEF QosInv, SlotInv, Attempts, Own, Filling, Sending, Counting
<1>6. Quiet'
  BY <1>0, <1>1 DEF QosInv, SlotInv, Quiet, Own, Sending
<1> QED BY <1>3, <1>4, <1>5, <1>6 DEF SlotInv

LEMMA QosSend ==
  ASSUME QosInv, TickSend PROVE SlotInv' /\ sent' \in [Packets -> Nat] /\ late' \in [Packets -> Nat]
<1> DEFINE i == tick.slot
           p == slots[i].packet_id
<1>0. /\ tick \in TickStates /\ slots \in [Slots -> SlotStates] /\ tick.at = "send"
      /\ UNCHANGED <<slots, app, issued, acked>> /\ tick' = GoTo("count")
      /\ sent \in [Packets -> Nat] /\ late \in [Packets -> Nat] /\ issued \in 0 .. MaxPackets
      /\ sent' = [sent EXCEPT ![p] = @ + 1]
      /\ late' = IF p \in acked THEN [late EXCEPT ![p] = @ + 1] ELSE late
  BY Zenon DEF TickSend, Transmit, QosInv, QosTypeOK
<1>1. tick'.slot = i /\ i \in Slots /\ tick'.at = "count"
  BY <1>0 DEF GoTo, TickStates
<1>2. slots[i].retries \in 0 .. QOS_MAX_RETRIES /\ p \in 0 .. MaxPackets
  BY <1>0, <1>1 DEF SlotStates
<1>3. SlotIds'
  BY <1>0 DEF QosInv, SlotInv, SlotIds
<1>4. RetriesLeft'
  BY <1>0, <1>1 DEF QosInv, SlotInv, RetriesLeft
<1>a. /\ sent' \in [Packets -> Nat]
      /\ \A q \in Packets : sent'[q] = IF q = p THEN sent[q] + 1 ELSE sent[q]
  <2> HIDE DEF p
  <2> QED BY <1>0, Bump, Zenon
<1>b. /\ late' \in [Packets -> Nat]
      /\ \A q \in Packets : late'[q] = IF q = p /\ p \in acked THEN late[q] + 1 ELSE late[q]
  <2> HIDE DEF p
  <2>1. CASE p \in acked
    BY <1>0, <2>1, Bump
  <2>2. CASE p \notin acked
    BY <1>0, <2>2
  <2> QED BY <2>1, <2>2
<1> HIDE DEF p, i
<1>c. /\ \A j \in Slots : slots[j].packet_id \in 0 .. issued
      /\ \A j \in Slots : slots[j].packet_id = p /\ p # 0 => i = j
      /\ p \in 0 .. issued /\ slots[i].retries < QOS_MAX_RETRIES
  BY <1>0, <1>1, <1>2 DEF QosInv, SlotInv, SlotIds, RetriesLeft, p, i, SlotStates
<1>5. Attempts'
  <2>1. \A q \in Packets : q > issued' => sent'[q] = 0
    BY <1>0, <1>a, <1>c DEF QosInv, SlotInv, Attempts, Packets
  <2>2. Filling(i) => p = issued /\ sent[issued] = 0
    BY <1>0, <1>1 DEF QosInv, SlotInv, Attempts, SlotIds, Filling, Sending, p, i
  <2>3. p # 0 /\ ~ Filling(i) => sent[p] <= slots[i].retries + 1 + Own(p)
    BY <1>0, <1>1 DEF QosInv, SlotInv, Attempts, Counting, p, i
  <2>4. \A q : Own(q)' = Own(q) /\ Own(q) \in {0, 1}
    BY <1>0 DEF Own
  <2>5. \A j \in Slots : Filling(j)' = Filling(j)
    BY <1>0 DEF Filling
  <2>6. p # 0 => p \in Packets
    BY <1>2 DEF Packets
  <2>7. p # 0 => sent'[p] <= QOS_MAX_RETRIES + 1 + Own(p)
    <3>1. CASE Filling(i)
      BY <3>1, <1>a, <1>0, <2>2, <2>4, <2>6, QosNumbers DEF Packets
    <3>2. CASE ~ Filling(i)
      BY <3>2, <1>0, <1>a, <1>c, <1>2, <2>3, <2>4, <2>6, QosNumbers
    <3> QED BY <3>1, <3>2
  <2>8. \A q \in 1 .. issued' : sent'[q] <= QOS_MAX_RETRIES + 1 + Own(q)'
    BY <1>0, <1>a, <2>4, <2>7 DEF QosInv, SlotInv, Attempts, Packets
  <2>9. ASSUME NEW j \in Slots
        PROVE  Filling(j)' => sent'[issued'] <= 1 /\ ~ Sending(j)'
    <3>1. ~ Sending(j)'
      BY <1>1 DEF Sending
    <3>2. Filling(j) => slots[j].packet_id = issued /\ issued \in Packets
      BY <1>0 DEF QosInv, SlotInv, SlotIds, Filling, Packets
    <3>3. CASE j = i
      BY <3>1, <3>2, <3>3, <1>0, <1>a, <2>2, <2>5
    <3>4. CASE j # i
      <4>1. Filling(j) => p # issued
        BY <1>0, <1>c, <3>2, <3>4 DEF Packets
      <4>2. Filling(j) => sent[issued] <= 1
        BY <1>0 DEF QosInv, SlotInv, Attempts, Sending
      <4> QED BY <3>1, <3>2, <4>1, <4>2, <1>0, <1>a, <2>5
    <3> QED BY <3>3, <3>4
  <2>10. ASSUME NEW j \in Slots, slots[j].packet_id # 0, ~ Filling(j)
         PROVE  LET tries == slots[j].retries + 1 + Own(slots[j].packet_id)
                IN  /\ sent'[slots[j].packet_id] <= tries + 1
                    /\ ~ Counting(j)' => sent'[slots[j].packet_id] <= tries
    <3>1. slots[j].packet_id \in Packets /\ slots[j].retries \in Nat /\ sent[slots[j].packet_id] \in Nat
      BY <1>0, <2>10 DEF SlotStates, Packets
    <3>2. CASE j = i
      <4>1. Counting(j)'
        BY <3>2, <1>1 DEF Counting
      <4>2. slots[j].packet_id = p /\ p # 0
        BY <2>10, <3>1, <3>2 DEF p
      <4> QED BY <3>1, <3>2, <4>1, <4>2, <2>10, <2>3, <2>4, <1>a
    <3>3. CASE j # i
      <4>1. slots[j].packet_id # p
        BY <3>3, <3>1, <2>10, <1>c
      <4>2. ~ Counting(j) /\ ~ Counting(j)'
        BY <3>3, <1>0, <1>1 DEF Counting, i
      <4>3. sent[slots[j].packet_id] <= slots[j].retries + 1 + Own(slots[j].packet_id)
        BY <2>10, <4>2 DEF QosInv, SlotInv, Attempts
      <4> QED BY <3>1, <4>1, <4>2, <4>3, <2>4, <1>a
    <3> QED BY <3>2, <3>3
  <2> QED BY <2>1, <2>4, <2>5, <2>8, <2>9, <2>10, <1>0 DEF Attempts
<1>6. Quiet'
  <2>0. \A q : Own(q)' = Own(q) /\ Own(q) \in {0, 1}
    BY <1>0 DEF Own
  <2>1. p \in acked => late[p] <= Own(p) /\ p \in Packets
    BY <1>0, <1>1, <1>2 DEF QosInv, SlotInv, Quiet, Sending, p, i, Packets
  <2>2. ASSUME NEW q \in Packets
        PROVE  late'[q] <= 1 + Own(q)' /\ (q \notin acked' => late'[q] = 0)
    <3>1. late[q] \in Nat /\ late[q] <= 1 + Own(q) /\ (q \notin acked => late[q] = 0)
      BY <1>0 DEF QosInv, SlotInv, Quiet
    <3>2. CASE q = p /\ p \in acked
      BY <3>1, <3>2, <2>0, <2>1, <1>0, <1>b
    <3>3. CASE ~ (q = p /\ p \in acked)
      BY <3>1, <3>3, <2>0, <1>0, <1>b
    <3> QED BY <3>2, <3>3
  <2>3. \A j \in Slots : ~ Sending(j)'
    BY <1>1 DEF Sending
  <2> QED BY <2>2, <2>3, <1>0 DEF QosInv, SlotInv, Quiet
<1> QED BY <1>3, <1>4, <1>5, <1>6, <1>a, <1>b DEF SlotInv

LEMMA NextSlotTyped ==
  ASSUME tick \in TickStates
  PROVE  NextSlot \in TickStates /\ NextSlot.at \notin {"send", "count"}
BY QosNumbers DEF NextSlot, TickStates, Rest, Slots

LEMMA QosCount ==
  ASSUME QosInv, TickCount PROVE SlotInv' /\ slots' \in [Slots -> SlotStates]
<1> DEFINE i == tick.slot
<1>0. /\ tick \in TickStates /\ slots \in [Slots -> SlotStates] /\ tick.at = "count"
      /\ UNCHANGED <<app, issued, sent, acked, late>> /\ tick' = NextSlot
      /\ sent \in [Packets -> Nat] /\ issued \in 0 .. MaxPackets
      /\ slots' = [slots EXCEPT ![i].retries = @ + 1]
  BY Zenon DEF TickCount, QosInv, QosTypeOK
<1>1. i \in Slots /\ tick'.at \notin {"send", "count"}
  BY <1>0, NextSlotTyped DEF TickStates
<1>2. slots[i].retries \in 0 .. QOS_MAX_RETRIES /\ slots[i].retries < QOS_MAX_RETRIES
  BY <1>0, <1>1 DEF SlotStates, QosInv, SlotInv, RetriesLeft
<1>3. /\ \A j \in Slots : slots'[j].packet_id = slots[j].packet_id
                          /\ slots'[j].active = slots[j].active
      /\ \A j \in Slots : slots'[j].retries = IF j = i THEN slots[j].retries + 1 ELSE slots[j].retries
  BY <1>0, <1>1 DEF SlotStates
<1>4. slots' \in [Slots -> SlotStates]
  <2>1. [slots[i] EXCEPT !.retries = @ + 1] \in SlotStates
    BY <1>0, <1>1, <1>2, QosNumbers DEF SlotStates
  <2>2. slots' = [slots EXCEPT ![i] = [slots[i] EXCEPT !.retries = @ + 1]]
    BY <1>0, <1>1
  <2> QED BY <1>0, <2>1, <2>2
<1>5. SlotIds'
  <2>1. app \in AppStates
    BY DEF QosInv, QosTypeOK
  <2> QED BY <1>0, <1>3, <2>1 DEF QosInv, SlotInv, SlotIds, AppStates
<1>6. RetriesLeft'
  BY <1>1 DEF RetriesLeft
<1> HIDE DEF i
<1>7. Attempts'
  <2>1. \A j \in Slots : ~ Counting(j)' /\ ~ Sending(j)' /\ (Filling(j)' = Filling(j))
                         /\ (Counting(j) <=> j = i)
    BY <1>0, <1>1 DEF Counting, Sending, Filling, i
  <2>2. \A q : Own(q)' = Own(q) /\ Own(q) \in {0, 1}
    BY <1>0 DEF Own
  <2>3. ASSUME NEW j \in Slots, slots[j].packet_id # 0, ~ Filling(j)
        PROVE  sent[slots[j].packet_id] <= slots'[j].retries + 1 + Own(slots[j].packet_id)
    <3>1. sent[slots[j].packet_id] \in Nat /\ slots[j].retries \in Nat
      BY <1>0, <2>3 DEF SlotStates, Packets
    <3>2. CASE j = i
      BY <2>3, <3>1, <3>2, <1>3, <2>2 DEF QosInv, SlotInv, Attempts
    <3>3. CASE j # i
      BY <2>3, <3>1, <3>3, <1>3, <2>1, <2>2 DEF QosInv, SlotInv, Attempts
    <3> QED BY <3>2, <3>3
  <2>4. ASSUME NEW j \in Slots, slots[j].packet_id # 0, ~ Filling(j)
        PROVE  sent[slots[j].packet_id] <= slots'[j].retries + 1 + Own(slots[j].packet_id) + 1
    <3>1. sent[slots[j].packet_id] \in Nat /\ slots'[j].retries \in Nat
      BY <1>0, <1>4, <2>4 DEF SlotStates, Packets
    <3> QED BY <2>3, <2>4, <3>1, <2>2
  <2> QED BY <2>1, <2>2, <2>3, <2>4, <1>0, <1>3 DEF QosInv, SlotInv, Attempts
<1>8. Quiet'
  <2>1. \A q : Own(q)' = Own(q)
    BY <1>0 DEF Own
  <2> QED BY <2>1, <1>0, <1>1, <1>3 DEF QosInv, SlotInv, Quiet, Sending
<1> QED BY <1>4, <1>5, <1>6, <1>7, <1>8 DEF SlotInv

\* A slot becomes inactive or, without more, waits for PUBCOMP.
LEMMA QosFrees ==
  ASSUME QosInv, NEW i \in Slots, UNCHANGED <<app, issued, sent, late>>,
         slots' \in [Slots -> SlotStates],
         \A j \in Slots : /\ slots'[j].packet_id = slots[j].packet_id
                          /\ slots'[j].retries = slots[j].retries
                          /\ slots'[j].active => slots[j].active,
         \/ UNCHANGED tick
         \/ tick.at \notin {"send", "count"} /\ tick'.at \notin {"send", "count"},
         \/ UNCHANGED acked
         \/ /\ acked' = acked \union {slots[i].packet_id}
            /\ slots[i].active /\ ~ slots'[i].active
  PROVE  SlotInv'
<1>0. /\ slots \in [Slots -> SlotStates] /\ app \in AppStates /\ tick \in TickStates
      /\ issued \in 0 .. MaxPackets /\ acked \subseteq Packets
      /\ sent \in [Packets -> Nat] /\ late \in [Packets -> Nat]
  BY DEF QosInv, QosTypeOK
<1>a. /\ \A j \in Slots : slots[j].packet_id \in 0 .. issued
      /\ slots[i].active => slots[i].packet_id # 0 /\ slots[i].packet_id \notin acked
  BY <1>0 DEF QosInv, SlotInv, SlotIds, Quiet, SlotStates
<1>b. \A j \in Slots : (Sending(j)' => Sending(j)) /\ (Counting(j)' = Counting(j))
                       /\ (Filling(j)' = Filling(j))
  BY DEF Sending, Counting, Filling
<1>c. \A q : Own(q)' = Own(q)
  BY DEF Own
<1>1. SlotIds'
  <2>1. app.at # "idle" => app.slot \in Slots
    BY <1>0 DEF AppStates
  <2>2. app.at = "fill" => issued \notin acked'
    BY <1>0, <1>a DEF QosInv, SlotInv, SlotIds, AppStates
  <2> QED BY <2>1, <2>2 DEF QosInv, SlotInv, SlotIds
<1>2. RetriesLeft'
  BY <1>0 DEF QosInv, SlotInv, RetriesLeft, TickStates
<1>3. Attempts'
  BY <1>0, <1>a, <1>b, <1>c DEF QosInv, SlotInv, Attempts
<1>4. Quiet'
  <2>0. slots[i].active => slots[i].packet_id \in 1 .. issued /\ slots[i].packet_id \in Packets
    BY <1>0, <1>a, QosNumbers DEF Packets
  <2>1. acked' \subseteq 1 .. issued'
    <3>1. acked \subseteq 1 .. issued
      BY DEF QosInv, SlotInv, Quiet
    <3> QED BY <2>0, <3>1
  <2>2. \A p \in Packets : late'[p] <= 1 + Own(p)' /\ (p \notin acked' => late'[p] = 0)
    BY <1>0, <1>c DEF QosInv, SlotInv, Quiet
  <2>3. ASSUME NEW j \in Slots, slots[j].packet_id \in acked'
        PROVE  ~ slots'[j].active
               /\ (Sending(j)' => late[slots[j].packet_id] <= Own(slots[j].packet_id))
    <3>1. CASE slots[j].packet_id \in acked
      BY <3>1, <1>b DEF QosInv, SlotInv, Quiet
    <3>2. CASE slots[j].packet_id \notin acked
      <4>1. /\ slots[j].packet_id = slots[i].packet_id
            /\ slots[i].active /\ ~ slots'[i].active
        BY <2>3, <3>2
      <4>2. j = i /\ slots[i].packet_id \in Packets
        <5>1. \A k, l \in Slots :
                slots[k].packet_id = slots[l].packet_id /\ slots[k].packet_id # 0 => k = l
          BY DEF QosInv, SlotInv, SlotIds
        <5> QED BY <4>1, <5>1, <1>a, <2>0, Zenon
      <4> QED BY <3>2, <4>1, <4>2, OwnBit DEF QosInv, SlotInv, Quiet
    <3> QED BY <3>1, <3>2
  <2> QED BY <2>1, <2>2, <2>3, <1>c DEF Quiet
<1> QED BY <1>1, <1>2, <1>3, <1>4 DEF SlotInv

\* The records those steps leave in a slot.
LEMMA SlotSet ==
  ASSUME slots \in [Slots -> SlotStates], NEW i \in Slots, NEW v \in BOOLEAN,
         \/ slots' = [slots EXCEPT ![i].active = v] /\ v = FALSE
         \/ slots' = [slots EXCEPT ![i].waiting_pubcomp = v]
  PROVE  /\ slots' \in [Slots -> SlotStates]
         /\ \A j \in Slots : /\ slots'[j].packet_id = slots[j].packet_id
                             /\ slots'[j].retries = slots[j].retries
                             /\ slots'[j].active => slots[j].active
<1>1. CASE slots' = [slots EXCEPT ![i].active = v] /\ v = FALSE
  BY <1>1 DEF SlotStates
<1>2. CASE slots' = [slots EXCEPT ![i].waiting_pubcomp = v]
  BY <1>2 DEF SlotStates
<1> QED BY <1>1, <1>2

\* A packet that no slot gets, transmitted once or not at all.
LEMMA QosNoSlot ==
  ASSUME QosInv, app.at = "idle", issued < MaxPackets, issued' = issued + 1,
         UNCHANGED <<slots, app, tick, acked, late>>,
         sent' = sent \/ sent' = [sent EXCEPT ![issued + 1] = @ + 1]
  PROVE  SlotInv' /\ sent' \in [Packets -> Nat]
<1>0. /\ slots \in [Slots -> SlotStates] /\ issued \in 0 .. MaxPackets
      /\ sent \in [Packets -> Nat] /\ late \in [Packets -> Nat]
  BY DEF QosInv, QosTypeOK
<1>a. /\ sent' \in [Packets -> Nat]
      /\ \A q \in Packets : q # issued + 1 => sent'[q] = sent[q]
      /\ \A q \in Packets : q = issued + 1 => sent'[q] <= sent[q] + 1
  <2>1. CASE sent' = sent
    BY <2>1, <1>0
  <2>2. CASE sent' = [sent EXCEPT ![issued + 1] = @ + 1]
    BY <2>2, <1>0, Bump
  <2> QED BY <2>1, <2>2
<1>b. \A j \in Slots : slots[j].packet_id \in 0 .. issued /\ slots[j].retries \in Nat
  BY <1>0 DEF QosInv, SlotInv, SlotIds, SlotStates
<1>c. \A q : Own(q)' = 1 /\ Own(q) = 1
  BY DEF Own
<1>1. SlotIds'
  BY <1>0, <1>b DEF QosInv, SlotInv, SlotIds
<1>2. RetriesLeft'
  BY DEF QosInv, SlotInv, RetriesLeft
<1>3. Attempts'
  <2>1. \A q \in Packets : q > issued' => sent'[q] = 0
    BY <1>0, <1>a DEF QosInv, SlotInv, Attempts, Packets
  <2>2. \A q \in 1 .. issued' : sent'[q] <= QOS_MAX_RETRIES + 1 + Own(q)'
    <3> TAKE q \in 1 .. issued'
    <3>1. q \in Packets /\ sent[q] \in Nat
      BY <1>0, QosNumbers DEF Packets
    <3>2. CASE q = issued + 1
      <4>1. sent[q] = 0
        BY <3>1, <3>2, <1>0 DEF QosInv, SlotInv, Attempts, Packets
      <4> QED BY <3>1, <3>2, <4>1, <1>a, <1>c, QosNumbers
    <3>3. CASE q # issued + 1
      <4>1. q \in 1 .. issued
        BY <3>3, <1>0
      <4>2. sent[q] <= QOS_MAX_RETRIES + 1 + Own(q)
        BY <4>1 DEF QosInv, SlotInv, Attempts
      <4> QED BY <3>1, <3>3, <4>2, <1>a, <1>c
    <3> QED BY <3>2, <3>3
  <2>3. \A j \in Slots : ~ Filling(j)' /\ ~ Filling(j) /\ (Counting(j)' = Counting(j))
    BY DEF Filling, Counting
  <2>4. \A j \in Slots : slots[j].packet_id # 0 =>
            sent'[slots[j].packet_id] = sent[slots[j].packet_id]
    <3> TAKE j \in Slots
    <3>1. slots[j].packet_id # 0 => slots[j].packet_id \in 1 .. MaxPackets
                                   /\ slots[j].packet_id # issued + 1
      BY <1>0, <1>b, QosNumbers
    <3> QED BY <3>1, <1>a DEF Packets
  <2>5. \A j \in Slots : slots[j].packet_id # 0 =>
             LET tries == slots[j].retries + 1 + 1
             IN  /\ sent[slots[j].packet_id] <= tries + 1
                 /\ ~ Counting(j) => sent[slots[j].packet_id] <= tries
    BY <1>c, <2>3 DEF QosInv, SlotInv, Attempts
  <2>6. \A j \in Slots : slots[j].packet_id # 0 =>
             LET tries == slots[j].retries + 1 + 1
             IN  /\ sent'[slots[j].packet_id] <= tries + 1
                 /\ ~ Counting(j)' => sent'[slots[j].packet_id] <= tries
    BY <2>3, <2>4, <2>5
  <2> QED BY <2>1, <2>2, <2>3, <2>6, <1>c DEF Attempts
<1>4. Quiet'
  <2>1. acked' \subseteq 1 .. issued'
    BY <1>0 DEF QosInv, SlotInv, Quiet
  <2>2. \A q : Own(q)' = 1 /\ Own(q) = 1
    BY DEF Own
  <2> QED BY <2>1, <2>2 DEF QosInv, SlotInv, Quiet, Sending
<1> QED BY <1>1, <1>2, <1>3, <1>4, <1>a DEF SlotInv

\* A slot changes hands: a tick that had found its old packet due may now send
\* the new one.
LEMMA QosClaim ==
  ASSUME QosInv, NEW i \in Slots, EnqueueClaim(i)
  PROVE  SlotInv' /\ slots' \in [Slots -> SlotStates] /\ app' \in AppStates
<1>0. /\ slots \in [Slots -> SlotStates] /\ issued \in 0 .. MaxPackets /\ issued < MaxPackets
      /\ sent \in [Packets -> Nat] /\ late \in [Packets -> Nat] /\ tick \in TickStates
      /\ app.at = "idle" /\ ~ slots[i].active /\ issued' = issued + 1
      /\ slots' = [slots EXCEPT ![i].packet_id = issued + 1]
      /\ app' = [at |-> "fill", slot |-> i] /\ UNCHANGED <<tick, sent, acked, late>>
  BY DEF EnqueueClaim, QosInv, QosTypeOK
<1>a. /\ \A j \in Slots : slots'[j].retries = slots[j].retries
                          /\ slots'[j].active = slots[j].active
      /\ \A j \in Slots : slots'[j].packet_id = IF j = i THEN issued + 1 ELSE slots[j].packet_id
  BY <1>0 DEF SlotStates
<1>b. slots' \in [Slots -> SlotStates] /\ app' \in AppStates
  <2>1. [slots[i] EXCEPT !.packet_id = issued + 1] \in SlotStates
    BY <1>0, QosNumbers DEF SlotStates
  <2>2. slots' = [slots EXCEPT ![i] = [slots[i] EXCEPT !.packet_id = issued + 1]]
    BY <1>0
  <2>3. app' \in AppStates
    BY <1>0 DEF AppStates
  <2> QED BY <1>0, <2>1, <2>2, <2>3
<1>c. app'.at = "fill" /\ app'.slot = i
  BY <1>0
<1>d. /\ \A j \in Slots : slots[j].packet_id \in 0 .. issued /\ slots[j].retries \in Nat
      /\ acked \subseteq 1 .. issued /\ sent[issued + 1] = 0 /\ issued + 1 \in Packets
  <2>1. issued + 1 \in Packets /\ issued + 1 > issued
    BY <1>0, QosNumbers DEF Packets
  <2>2. sent[issued + 1] = 0 /\ acked \subseteq 1 .. issued
    BY <2>1 DEF QosInv, SlotInv, Attempts, Quiet
  <2>3. \A j \in Slots : slots[j].packet_id \in 0 .. issued /\ slots[j].retries \in Nat
    BY <1>0, QosNumbers DEF QosInv, SlotInv, SlotIds, SlotStates
  <2> QED BY <2>1, <2>2, <2>3
<1>1. SlotIds'
  <2>1. \A j \in Slots : slots'[j].packet_id <= issued' /\ (slots'[j].active => slots'[j].packet_id # 0)
    BY <1>0, <1>a, <1>d DEF QosInv, SlotInv, SlotIds
  <2>2. \A j, k \in Slots :
          slots'[j].packet_id = slots'[k].packet_id /\ slots'[j].packet_id # 0 => j = k
    BY <1>0, <1>a, <1>d DEF QosInv, SlotInv, SlotIds
  <2>3. slots'[i].packet_id = issued' /\ issued' > 0 /\ ~ slots'[i].active /\ issued' \notin acked'
    BY <1>0, <1>a, <1>d
  <2> QED BY <2>1, <2>2, <2>3, <1>c DEF SlotIds
<1>2. RetriesLeft'
  BY <1>0, <1>a DEF QosInv, SlotInv, RetriesLeft, TickStates
<1>e. \A q : q # issued + 1 => Own(q)' = 1 /\ Own(q) = 1
  BY <1>0, <1>c DEF Own
<1>f. \A q : q = issued + 1 => Own(q)' = 0
  BY <1>0, <1>c DEF Own
<1>3. Attempts'
  <2>1. \A q \in Packets : q > issued' => sent'[q] = 0
    BY <1>0 DEF QosInv, SlotInv, Attempts, Packets
  <2>2. \A q \in 1 .. issued' : sent'[q] <= QOS_MAX_RETRIES + 1 + Own(q)'
    <3> TAKE q \in 1 .. issued'
    <3>1. CASE q = issued + 1
      BY <3>1, <1>0, <1>d, <1>f, QosNumbers
    <3>2. CASE q # issued + 1
      <4>1. q \in 1 .. issued
        BY <3>2, <1>0
      <4>2. sent[q] <= QOS_MAX_RETRIES + 1 + Own(q)
        BY <4>1 DEF QosInv, SlotInv, Attempts
      <4> QED BY <3>2, <4>2, <1>0, <1>e
    <3> QED BY <3>1, <3>2
  <2>3. \A j \in Slots : (Filling(j)' <=> j = i) /\ ~ Filling(j) /\ (Counting(j)' = Counting(j))
    BY <1>0, <1>c DEF Filling, Counting
  <2>5. \A j \in Slots : slots[j].packet_id # 0 =>
             LET tries == slots[j].retries + 1 + 1
             IN  /\ sent[slots[j].packet_id] <= tries + 1
                 /\ ~ Counting(j) => sent[slots[j].packet_id] <= tries
    <3> TAKE j \in Slots
    <3>1. Own(slots[j].packet_id) = 1
      BY <1>0 DEF Own
    <3> QED BY <3>1, <2>3 DEF QosInv, SlotInv, Attempts
  <2>6. \A j \in Slots : slots'[j].packet_id # 0 /\ ~ Filling(j)' =>
             LET tries == slots'[j].retries + 1 + 1
             IN  /\ sent'[slots'[j].packet_id] <= tries + 1
                 /\ ~ Counting(j)' => sent'[slots'[j].packet_id] <= tries
    BY <2>3, <2>5, <1>0, <1>a
  <2>7. \A j \in Slots : ~ Filling(j)' => Own(slots[j].packet_id)' = 1
    BY <2>3, <1>a, <1>0, <1>c, <1>d DEF Own
  <2>8. sent'[issued'] = 0
    BY <1>0, <1>d
  <2> QED BY <2>1, <2>2, <2>6, <2>7, <2>8, <1>0 DEF Attempts
<1>4. Quiet'
  <2>1. acked' \subseteq 1 .. issued'
    BY <1>0, <1>d
  <2>2. \A j \in Slots : slots'[j].packet_id \in acked' => j # i
    BY <1>0, <1>a, <1>d
  <2>3. \A q : /\ Own(q) = 1
               /\ Own(q)' \in {0, 1}
               /\ q \in acked => Own(q)' = 1
    BY <1>0, <1>d DEF Own
  <2>4. \A q \in Packets : late[q] <= 1 + Own(q)'
    BY <2>3, <1>0 DEF QosInv, SlotInv, Quiet
  <2> QED BY <2>1, <2>2, <2>3, <2>4, <1>0, <1>a DEF QosInv, SlotInv, Quiet, Sending
<1> QED BY <1>1, <1>2, <1>3, <1>4, <1>b DEF SlotInv

LEMMA QosFill ==
  ASSUME QosInv, NEW qos \in 1 .. 2, EnqueueFill(qos)
  PROVE  SlotInv' /\ slots' \in [Slots -> SlotStates] /\ app' \in AppStates
<1> DEFINE i == app.slot
<1>0. /\ slots \in [Slots -> SlotStates] /\ issued \in 0 .. MaxPackets /\ app \in AppStates
      /\ sent \in [Packets -> Nat] /\ late \in [Packets -> Nat] /\ tick \in TickStates
      /\ app.at = "fill" /\ app' = [app EXCEPT !.at = "send"]
      /\ slots' = [slots EXCEPT ![i] = [@ EXCEPT !.qos = qos, !.retries = 0,
                                                 !.waiting_pubcomp = FALSE, !.active = TRUE]]
      /\ UNCHANGED <<tick, issued, sent, acked, late>>
  BY DEF EnqueueFill, QosInv, QosTypeOK
<1>1. i \in Slots /\ app'.at = "send" /\ app'.slot = i /\ app' \in AppStates
  BY <1>0 DEF AppStates
<1>2. slots' \in [Slots -> SlotStates]
  <2>1. [slots[i] EXCEPT !.qos = qos, !.retries = 0, !.waiting_pubcomp = FALSE, !.active = TRUE]
          \in SlotStates
    <3>1. slots[i] \in SlotStates /\ qos \in 0 .. 2 /\ 0 \in 0 .. QOS_MAX_RETRIES
      BY <1>0, <1>1, QosNumbers
    <3> HIDE DEF i
    <3> QED BY <3>1 DEF SlotStates
  <2> HIDE DEF i
  <2> QED BY <1>0, <1>1, <2>1
<1>3. /\ \A j \in Slots : slots'[j].packet_id = slots[j].packet_id
      /\ \A j \in Slots : slots'[j].retries = IF j = i THEN 0 ELSE slots[j].retries
      /\ \A j \in Slots : slots'[j].active <=> (j = i \/ slots[j].active)
  BY <1>0, <1>1 DEF SlotStates
<1>4. slots[i].packet_id = issued /\ issued > 0 /\ issued \notin acked
  BY <1>0 DEF QosInv, SlotInv, SlotIds
<1> HIDE DEF i
<1>5. SlotIds'
  <2>1. \A j \in Slots : slots'[j].packet_id <= issued' /\ (slots'[j].active => slots'[j].packet_id # 0)
    BY <1>0, <1>3, <1>4 DEF QosInv, SlotInv, SlotIds
  <2>2. \A j, k \in Slots :
          slots'[j].packet_id = slots'[k].packet_id /\ slots'[j].packet_id # 0 => j = k
    BY <1>3 DEF QosInv, SlotInv, SlotIds
  <2> QED BY <2>1, <2>2, <1>0, <1>1, <1>3, <1>4 DEF SlotIds
<1>6. RetriesLeft'
  <2>1. tick.slot \in Slots
    BY <1>0 DEF TickStates
  <2>2. tick.at \in {"send", "count"} =>
          slots[tick.slot].retries \in Nat /\ slots[tick.slot].retries < QOS_MAX_RETRIES
    BY <1>0, <2>1 DEF QosInv, SlotInv, RetriesLeft, SlotStates
  <2> QED BY <1>0, <1>3, <2>1, <2>2, QosNumbers DEF RetriesLeft
<1>7. Attempts'
  <2>1. \A q : Own(q)' = Own(q) /\ Own(q) \in {0, 1}
    BY <1>0, <1>1 DEF Own
  <2>2. \A j \in Slots : ~ Filling(j)' /\ (Filling(j) <=> j = i) /\ (Counting(j)' = Counting(j))
    BY <1>0, <1>1 DEF Filling, Counting, i
  <2>3. Own(issued) = 0 /\ sent[issued] <= 1 /\ sent[issued] \in Nat
    BY <1>0, <1>1, <1>4, <2>2 DEF QosInv, SlotInv, Attempts, Own, Packets
  <2>4. ASSUME NEW j \in Slots, slots[j].packet_id # 0
        PROVE  LET tries == slots'[j].retries + 1 + Own(slots[j].packet_id)
               IN  /\ sent[slots[j].packet_id] <= tries + 1
                   /\ ~ Counting(j) => sent[slots[j].packet_id] <= tries
    <3>1. CASE j = i
      BY <3>1, <1>3, <1>4, <2>3
    <3>2. CASE j # i
      BY <3>2, <1>3, <2>2, <2>4 DEF QosInv, SlotInv, Attempts
    <3> QED BY <3>1, <3>2
  <2>5. \A q \in Packets : q > issued => sent[q] = 0
    BY DEF QosInv, SlotInv, Attempts
  <2>6. \A q \in 1 .. issued : sent[q] <= QOS_MAX_RETRIES + 1 + Own(q)
    BY DEF QosInv, SlotInv, Attempts
  <2> QED BY <1>0, <1>3, <2>1, <2>2, <2>4, <2>5, <2>6 DEF Attempts
<1>8. Quiet'
  <2>1. \A j \in Slots : slots[j].packet_id \in acked => j # i
    BY <1>4
  <2>2. \A q : Own(q)' = Own(q)
    BY <1>0, <1>1 DEF Own
  <2> QED BY <2>1, <2>2, <1>0, <1>3 DEF QosInv, SlotInv, Quiet, Sending
<1> QED BY <1>1, <1>2, <1>5, <1>6, <1>7, <1>8 DEF SlotInv

LEMMA QosFirst ==
  ASSUME QosInv, EnqueueSend
  PROVE  /\ SlotInv' /\ sent' \in [Packets -> Nat] /\ late' \in [Packets -> Nat]
         /\ app' \in AppStates
<1>0. /\ slots \in [Slots -> SlotStates] /\ issued \in 0 .. MaxPackets /\ app \in AppStates
      /\ sent \in [Packets -> Nat] /\ late \in [Packets -> Nat]
      /\ app.at = "send" /\ app' = Rest /\ sent' = [sent EXCEPT ![issued] = @ + 1]
      /\ late' = IF issued \in acked THEN [late EXCEPT ![issued] = @ + 1] ELSE late
      /\ UNCHANGED <<slots, tick, issued, acked>>
  BY DEF EnqueueSend, Transmit, QosInv, QosTypeOK
<1>a. /\ late' \in [Packets -> Nat]
      /\ \A q \in Packets :
           late'[q] = IF q = issued /\ issued \in acked THEN late[q] + 1 ELSE late[q]
  <2>1. CASE issued \in acked
    BY <1>0, <2>1, Bump
  <2>2. CASE issued \notin acked
    BY <1>0, <2>2
  <2> QED BY <2>1, <2>2
<1>1. app'.at = "idle" /\ app' \in AppStates
  BY <1>0, QosNumbers DEF Rest, AppStates, Slots
<1>2. /\ sent' \in [Packets -> Nat]
      /\ \A q \in Packets : sent'[q] = IF q = issued THEN sent[q] + 1 ELSE sent[q]
  BY <1>0, Bump
<1>3. \A q : Own(q)' = 1 /\ (q # issued => Own(q) = 1) /\ (q = issued => Own(q) = 0)
  BY <1>0, <1>1 DEF Own
<1>4. SlotIds'
  BY <1>0, <1>1 DEF QosInv, SlotInv, SlotIds
<1>5. RetriesLeft'
  BY <1>0 DEF QosInv, SlotInv, RetriesLeft
<1>6. Attempts'
  <2>1. \A q \in Packets : q > issued' => sent'[q] = 0
    BY <1>0, <1>2 DEF QosInv, SlotInv, Attempts
  <2>2. \A q \in 1 .. issued' : sent'[q] <= QOS_MAX_RETRIES + 1 + Own(q)'
    <3> TAKE q \in 1 .. issued'
    <3>1. q \in Packets /\ sent[q] \in Nat
      BY <1>0, QosNumbers DEF Packets
    <3>2. sent[q] <= QOS_MAX_RETRIES + 1 + Own(q)
      BY <1>0 DEF QosInv, SlotInv, Attempts
    <3> QED BY <3>1, <3>2, <1>2, <1>3, QosNumbers
  <2>3. \A j \in Slots : ~ Filling(j)' /\ ~ Filling(j) /\ (Counting(j)' = Counting(j))
    BY <1>0, <1>1 DEF Filling, Counting
  <2>4. ASSUME NEW j \in Slots, slots[j].packet_id # 0
        PROVE  LET tries == slots[j].retries + 1 + 1
               IN  /\ sent'[slots[j].packet_id] <= tries + 1
                   /\ ~ Counting(j)' => sent'[slots[j].packet_id] <= tries
    <3>1. slots[j].packet_id \in Packets /\ sent[slots[j].packet_id] \in Nat
          /\ slots[j].retries \in Nat
      BY <1>0, <2>4, QosNumbers DEF SlotStates, Packets
    <3>2. LET tries == slots[j].retries + 1 + Own(slots[j].packet_id)
          IN  /\ sent[slots[j].packet_id] <= tries + 1
              /\ ~ Counting(j) => sent[slots[j].packet_id] <= tries
      BY <2>3, <2>4 DEF QosInv, SlotInv, Attempts
    <3> QED BY <3>1, <3>2, <2>3, <1>2, <1>3
  <2> QED BY <2>1, <2>2, <2>3, <2>4, <1>0, <1>3 DEF Attempts
<1>7. Quiet'
  <2>1. acked' \subseteq 1 .. issued' /\ acked' \subseteq Packets
    BY <1>0 DEF QosInv, SlotInv, Quiet, QosTypeOK
  <2>2. \A q \in Packets : late[q] \in Nat /\ late[q] <= 1 + Own(q) /\ (q \notin acked => late[q] = 0)
    BY <1>0 DEF QosInv, SlotInv, Quiet
  <2>3. \A q \in Packets : late'[q] <= 1 + Own(q)' /\ (q \notin acked' => late'[q] = 0)
    BY <2>2, <1>0, <1>3, <1>a
  <2>4. ASSUME NEW j \in Slots, slots[j].packet_id \in acked
        PROVE  ~ slots[j].active
               /\ (Sending(j)' => late'[slots[j].packet_id] <= Own(slots[j].packet_id)')
    <3>1. /\ ~ slots[j].active
          /\ Sending(j) => late[slots[j].packet_id] <= Own(slots[j].packet_id)
      BY <2>4 DEF QosInv, SlotInv, Quiet
    <3>2. Sending(j)' = Sending(j) /\ slots[j].packet_id \in Packets
      BY <1>0, <2>1, <2>4 DEF Sending
    <3> QED BY <3>1, <3>2, <2>2, <2>4, <1>0, <1>3, <1>a
  <2> QED BY <2>1, <2>3, <2>4, <1>0 DEF Quiet
<1> QED BY <1>1, <1>2, <1>4, <1>5, <1>6, <1>7, <1>a DEF SlotInv

\* The types the steps do not name.
LEMMA QosTyped ==
  ASSUME QosTypeOK, SlotInv', slots' \in [Slots -> SlotStates], app' \in AppStates,
         tick' \in TickStates, timer' \in BOOLEAN, ws' \in {"idle", "scan", "stop"},
         issued' \in 0 .. MaxPackets, sent' \in [Packets -> Nat], late' \in [Packets -> Nat],
         acked' \subseteq Packets
  PROVE  QosInv'
BY Zenon DEF QosInv, QosTypeOK

LEMMA QosStep == QosInv /\ [QosNext]_qosVars => QosInv'
<1> SUFFICES ASSUME QosInv, [QosNext]_qosVars PROVE QosInv'
  OBVIOUS
<1>t. /\ QosTypeOK /\ slots \in [Slots -> SlotStates] /\ app \in AppStates
      /\ tick \in TickStates /\ timer \in BOOLEAN /\ ws \in {"idle", "scan", "stop"}
      /\ issued \in 0 .. MaxPackets /\ sent \in [Packets -> Nat] /\ late \in [Packets -> Nat]
      /\ acked \subseteq Packets
  BY DEF QosInv, QosTypeOK
<1>i. issued < MaxPackets => issued + 1 \in 0 .. MaxPackets
  BY <1>t, QosNumbers
<1>g. \A l \in {"check", "send", "count", "drop", "scan", "stop"} :
        GoTo(l) \in TickStates /\ GoTo(l).at = l
  BY <1>t DEF GoTo, TickStates
<1>n. NextSlot \in TickStates /\ NextSlot.at \notin {"send", "count"}
  BY <1>t, NextSlotTyped
<1>a. \A j \in Slots : slots[j].active => slots[j].packet_id \in Packets
  BY <1>t, QosNumbers DEF QosInv, SlotInv, SlotIds, SlotStates, Packets
<1>1. CASE EnqueueQos0 \/ EnqueueFull
  <2>1. SlotInv' /\ sent' \in [Packets -> Nat]
    BY <1>1, QosNoSlot DEF EnqueueQos0, EnqueueFull
  <2> QED BY <1>1, <1>t, <1>i, <2>1, QosTyped, Zenon DEF EnqueueQos0, EnqueueFull
<1>2. ASSUME NEW i \in Slots, EnqueueClaim(i) PROVE QosInv'
  BY <1>2, <1>t, <1>i, QosClaim, QosTyped, Zenon DEF EnqueueClaim
<1>3. ASSUME NEW qos \in 1 .. 2, EnqueueFill(qos) PROVE QosInv'
  BY <1>3, <1>t, QosFill, QosTyped, Zenon DEF EnqueueFill
<1>4. CASE EnqueueSend
  <2>1. /\ SlotInv' /\ sent' \in [Packets -> Nat] /\ late' \in [Packets -> Nat]
        /\ app' \in AppStates
    BY <1>4, QosFirst
  <2> QED BY <1>4, <1>t, <2>1, QosTyped, Zenon DEF EnqueueSend
<1>5. ASSUME NEW i \in Slots, ykp_qos_ack(i) \/ ykp_qos_pubcomp(i) PROVE QosInv'
  <2>1. /\ slots' = [slots EXCEPT ![i].active = FALSE] /\ slots[i].active
        /\ acked' = acked \union {slots[i].packet_id} /\ ws' = "scan"
        /\ UNCHANGED <<timer, app, tick, issued, sent, late>>
    BY <1>5 DEF ykp_qos_ack, ykp_qos_pubcomp
  <2>2. /\ slots' \in [Slots -> SlotStates]
        /\ \A j \in Slots : /\ slots'[j].packet_id = slots[j].packet_id
                            /\ slots'[j].retries = slots[j].retries
                            /\ slots'[j].active => slots[j].active
    BY <1>t, <2>1, SlotSet
  <2>3. ~ slots'[i].active
    BY <1>t, <2>1 DEF SlotStates
  <2>4. SlotInv'
    BY <2>1, <2>2, <2>3, QosFrees
  <2>5. acked' \subseteq Packets
    BY <1>a, <1>t, <2>1
  <2> QED BY <1>t, <2>1, <2>2, <2>4, <2>5, QosTyped, Zenon
<1>6. ASSUME NEW i \in Slots, ykp_qos_pubrec(i) PROVE QosInv'
  <2>1. /\ slots' = [slots EXCEPT ![i].waiting_pubcomp = TRUE]
        /\ UNCHANGED <<timer, app, ws, tick, issued, sent, acked, late>>
    BY <1>6 DEF ykp_qos_pubrec
  <2>2. /\ slots' \in [Slots -> SlotStates]
        /\ \A j \in Slots : /\ slots'[j].packet_id = slots[j].packet_id
                            /\ slots'[j].retries = slots[j].retries
                            /\ slots'[j].active => slots[j].active
    BY <1>t, <2>1, SlotSet
  <2>3. SlotInv'
    BY <2>1, <2>2, QosFrees
  <2> QED BY <1>t, <2>1, <2>2, <2>3, QosTyped, Zenon
<1>7. CASE TickDrop
  <2>1. /\ slots' = [slots EXCEPT ![tick.slot].active = FALSE] /\ tick.slot \in Slots
        /\ tick.at = "drop" /\ tick' = GoTo("scan")
        /\ UNCHANGED <<timer, app, ws, issued, sent, acked, late>>
    BY <1>7, <1>t DEF TickDrop, TickStates
  <2>2. /\ slots' \in [Slots -> SlotStates]
        /\ \A j \in Slots : /\ slots'[j].packet_id = slots[j].packet_id
                            /\ slots'[j].retries = slots[j].retries
                            /\ slots'[j].active => slots[j].active
    BY <1>t, <2>1, SlotSet
  <2>3. SlotInv'
    BY <1>g, <2>1, <2>2, QosFrees
  <2> QED BY <1>t, <1>g, <2>1, <2>2, <2>3, QosTyped, Zenon
<1>8. CASE AckScan \/ AckStop
  <2>1. SlotInv'
    BY <1>8, QosLooks, Zenon DEF AckScan, AckStop
  <2> QED BY <1>8, <1>t, <2>1, QosTyped, Zenon DEF AckScan, AckStop
<1>9. CASE TickStart \/ TickSkip \/ TickScan \/ TickStop
  <2>1. /\ tick.at \notin {"send", "count"} /\ tick'.at \notin {"send", "count"}
        /\ tick' \in TickStates /\ timer' \in BOOLEAN
        /\ UNCHANGED <<slots, app, ws, issued, sent, acked, late>>
    BY <1>9, <1>t, <1>g, <1>n DEF TickStart, TickSkip, TickScan, TickStop
  <2>2. SlotInv'
    BY <2>1, QosLooks, Zenon
  <2> QED BY <1>t, <2>1, <2>2, QosTyped, Zenon
<1>10. CASE TickDue
  <2>1. tick' \in TickStates
    BY <1>10, <1>g, Zenon DEF TickDue
  <2> QED BY <1>10, <1>t, <2>1, QosDue, QosTyped, Zenon DEF TickDue
<1>11. CASE TickSend
  BY <1>11, <1>t, <1>g, QosSend, QosTyped, Zenon DEF TickSend
<1>12. CASE TickCount
  BY <1>12, <1>t, <1>n, QosCount, QosTyped, Zenon DEF TickCount
<1>13. CASE UNCHANGED qosVars
  <2>1. SlotInv'
    BY <1>13, QosLooks, Zenon DEF qosVars
  <2> QED BY <1>13, <1>t, <2>1, QosTyped, Zenon DEF qosVars
<1> QED BY <1>1, <1>2, <1>3, <1>4, <1>5, <1>6, <1>7, <1>8, <1>9, <1>10, <1>11, <1>12, <1>13,
           Zenon DEF QosNext

LEMMA QosInvariant == QosSpec => []QosInv
BY QosInitInv, QosStep, PTL DEF QosSpec

\* The retry count of a slot never passes QOS_MAX_RETRIES, though no lock
\* protects it, and the slot, tick and send bookkeeping keep their shape.
THEOREM QosTypeCorrect == QosSpec => []QosTypeOK
<1>1. QosInv => QosTypeOK
  BY DEF QosInv
<1> QED BY <1>1, QosInvariant, PTL

\* However ykp_qos_tick, ykp_qos_enqueue and the acknowledgements interleave on
\* the unlocked slots, no packet is transmitted more than QOS_MAX_RETRIES + 2
\* times.
THEOREM QosTransmissionsBounded == QosSpec => []TransmissionsBounded
<1>1. QosInv => TransmissionsBounded
  <2> SUFFICES ASSUME QosInv, NEW p \in Packets PROVE sent[p] <= QOS_MAX_RETRIES + 2
    BY DEF TransmissionsBounded
  <2>1. issued \in 0 .. MaxPackets /\ sent[p] \in Nat
    BY DEF QosInv, QosTypeOK
  <2>2. CASE p > issued
    BY <2>2, QosNumbers DEF QosInv, SlotInv, Attempts
  <2>3. CASE p <= issued
    <3>1. p \in 1 .. issued
      BY <2>1, <2>3 DEF Packets
    <3>2. sent[p] <= QOS_MAX_RETRIES + 1 + Own(p)
      BY <3>1 DEF QosInv, SlotInv, Attempts
    <3> QED BY <2>1, <3>2, OwnBit, QosNumbers
  <2> QED BY <2>1, <2>2, <2>3 DEF Packets
<1> QED BY <1>1, QosInvariant, PTL

\* After its acknowledgement a packet is transmitted at most twice more, once by a
\* tick and once by the enqueue that had made its slot active.
THEOREM QosQuietAfterAck == QosSpec => []QuietAfterAck
<1>1. QosInv => QuietAfterAck
  <2> SUFFICES ASSUME QosInv, NEW p \in Packets PROVE late[p] <= 2
    BY DEF QuietAfterAck
  <2>1. late[p] \in Nat /\ late[p] <= 1 + Own(p)
    BY DEF QosInv, QosTypeOK, SlotInv, Quiet
  <2> QED BY <2>1, OwnBit
<1> QED BY <1>1, QosInvariant, PTL

-----------------------------------------------------------------------------
(* The UDP server of the earlier app.                                      *)

\* The clock bounds the sessions: each one was drawn at a later time.
UdpClock ==
    /\ now \in 0 .. MaxTime
    /\ last_activity \in 0 .. now
    /\ drawn \in 0 .. last_activity
    /\ current_session_id \in 0 .. drawn
    /\ last_app_rx_counter \in Counters

\* What was executed lies in the past: nothing in a session to come, and in the
\* current session nothing above the last counter but counter 0.
UdpPast ==
    /\ executed \in [Sessions -> [Counters -> Nat]]
    /\ \A s \in Sessions, c \in Counters : s > drawn => executed[s][c] = 0
    /\ \A c \in Counters \ {0} :
         c > last_app_rx_counter => executed[current_session_id][c] = 0

\* The sessions that have ended were begun, and the current one is not among them.
UdpOver ==
    /\ over \subseteq 0 .. drawn
    /\ current_session_id \notin over

UdpInv == UdpClock /\ UdpPast /\ UdpOver /\ ExecutedOnce

LEMMA UdpNumbers == MaxTime \in Nat /\ MaxCounter \in Nat /\ SessionLife \in Nat
  BY LegacyAssumption

\* Replacing an idle session, or not, keeps what is known of it.
LEMMA SessionStep ==
  ASSUME UdpInv
  PROVE  /\ SessionNow \in 0 .. now /\ SessionNow \in Sessions
         /\ ActivityNow \in 0 .. now
         /\ LastCounterNow \in Counters
         /\ \A c \in Counters \ {0} : c > LastCounterNow => executed[SessionNow][c] = 0
<1> USE UdpNumbers DEF UdpInv, UdpClock, UdpPast, Sessions, Counters, SessionNow, ActivityNow, LastCounterNow
<1>1. CASE Expired
  <2>1. drawn + 1 <= now /\ drawn + 1 > drawn
    BY <1>1 DEF Expired
  <2> QED BY <1>1, <2>1
<1>2. CASE ~ Expired
  BY <1>2
<1> QED BY <1>1, <1>2

LEMMA ReplaceStep ==
  ASSUME UdpInv, Replace
  PROVE  /\ drawn' \in 0 .. ActivityNow /\ SessionNow \in 0 .. drawn' /\ drawn' >= drawn
         /\ over' \subseteq 0 .. drawn' /\ SessionNow \notin over'
<1>0. /\ now \in Nat /\ last_activity \in 0 .. now /\ drawn \in 0 .. last_activity
      /\ current_session_id \in 0 .. drawn /\ over \subseteq 0 .. drawn
      /\ current_session_id \notin over
  BY UdpNumbers DEF UdpInv, UdpClock, UdpOver
<1>1. CASE Expired
  <2>1. drawn' = drawn + 1 /\ over' = over \union {current_session_id}
        /\ SessionNow = drawn + 1 /\ ActivityNow = now /\ drawn < now
    BY <1>0, <1>1, UdpNumbers DEF Replace, SessionNow, ActivityNow, Expired
  <2>2. drawn + 1 \notin 0 .. drawn
    BY <1>0
  <2> QED BY <1>0, <2>1, <2>2
<1>2. CASE ~ Expired
  <2>1. drawn' = drawn /\ over' = over /\ SessionNow = current_session_id
        /\ ActivityNow = last_activity
    BY <1>2 DEF Replace, SessionNow, ActivityNow
  <2> QED BY <1>0, <2>1
<1> QED BY <1>1, <1>2

LEMMA UdpInvInit == UdpInit => UdpInv
  BY UdpNumbers DEF UdpInit, UdpInv, UdpClock, UdpPast, UdpOver, ExecutedOnce, Sessions, Counters

\* A datagram that is not executed.
LEMMA IgnoredKeeps ==
  ASSUME UdpInv, Replace, UNCHANGED <<now, executed>>,
         current_session_id' = SessionNow, last_app_rx_counter' = LastCounterNow,
         last_activity' \in {now, ActivityNow}
  PROVE  UdpInv'
<1>1. UdpClock'
  BY SessionStep, ReplaceStep, UdpNumbers DEF UdpInv, UdpClock
<1>2. UdpPast'
  <2>1. \A s \in Sessions, c \in Counters : s > drawn' => executed[s][c] = 0
    BY ReplaceStep, UdpNumbers DEF UdpInv, UdpPast, UdpClock, Sessions
  <2> QED BY <2>1, SessionStep DEF UdpInv, UdpPast
<1>3. UdpOver'
  BY ReplaceStep DEF UdpOver
<1> QED BY <1>1, <1>2, <1>3 DEF UdpInv, ExecutedOnce

\* A datagram that is executed has not been executed before.
LEMMA ExecuteKeeps ==
  ASSUME UdpInv, NEW session \in 0 .. drawn, NEW counter \in Counters,
         NEW op \in Opcodes, NEW encrypted \in BOOLEAN,
         Execute(session, counter, op, encrypted)
  PROVE  UdpInv'
<1>1. /\ session = SessionNow
      /\ counter > LastCounterNow \/ LastCounterNow = 0
      /\ current_session_id' = SessionNow /\ last_app_rx_counter' = counter
      /\ last_activity' = now /\ now' = now /\ Replace
      /\ executed' = [executed EXCEPT ![session][counter] = @ + 1]
  BY DEF Execute, Fresh
<1>2. UdpClock'
  BY <1>1, SessionStep, ReplaceStep, UdpNumbers DEF UdpInv, UdpClock
<1>3. session \in Sessions /\ executed \in [Sessions -> [Counters -> Nat]]
  BY <1>1, SessionStep DEF UdpInv, UdpPast
<1>4. \A s \in Sessions, c \in Counters :
        executed'[s][c] = IF s = session /\ c = counter THEN executed[s][c] + 1 ELSE executed[s][c]
  BY <1>1, <1>3
<1>5. executed' \in [Sessions -> [Counters -> Nat]]
  BY <1>1, <1>3
<1>6. counter # 0 => executed[session][counter] = 0
  <2>1. LastCounterNow = 0 => (counter # 0 => counter > LastCounterNow)
    BY UdpNumbers DEF Counters
  <2> QED BY <1>1, <2>1, SessionStep
<1>7. \A s \in Sessions, c \in Counters : s > drawn' => executed'[s][c] = 0
  <2> SUFFICES ASSUME NEW s \in Sessions, NEW c \in Counters, s > drawn'
               PROVE  executed'[s][c] = 0
    OBVIOUS
  <2>1. s > drawn /\ s # session
    BY <1>1, ReplaceStep, UdpNumbers DEF UdpInv, UdpClock, Sessions
  <2> QED BY <1>4, <2>1 DEF UdpInv, UdpPast
<1>8. \A c \in Counters \ {0} : c > counter => executed'[SessionNow][c] = 0
  <2> SUFFICES ASSUME NEW c \in Counters \ {0}, c > counter PROVE executed'[SessionNow][c] = 0
    OBVIOUS
  <2>1. c > LastCounterNow /\ c # counter
    BY <1>1, SessionStep, UdpNumbers DEF Counters
  <2> QED BY <1>1, <1>3, <1>4, <2>1, SessionStep
<1>9. ExecutedOnce'
  <2> SUFFICES ASSUME NEW s \in Sessions, NEW c \in Counters \ {0} PROVE executed'[s][c] <= 1
    BY DEF ExecutedOnce
  <2>1. executed[s][c] <= 1
    BY DEF UdpInv, ExecutedOnce
  <2>2. CASE s = session /\ c = counter
    <3>1. executed'[s][c] = 0 + 1
      BY <1>4, <1>6, <2>2
    <3> QED BY <3>1
  <2>3. CASE ~ (s = session /\ c = counter)
    BY <1>4, <2>1, <2>3
  <2> QED BY <2>2, <2>3
<1>10. UdpOver'
  BY <1>1, ReplaceStep DEF UdpOver
<1> QED BY <1>1, <1>2, <1>5, <1>7, <1>8, <1>9, <1>10 DEF UdpInv, UdpPast

\* A restart begins session 0 anew: nothing of it has been executed in this boot.
LEMMA RestartKeeps ==
  ASSUME UdpInv, UdpRestart PROVE UdpInv'
<1>1. /\ current_session_id' = 0 /\ last_app_rx_counter' = 0 /\ last_activity' = now
      /\ over' = (over \union {current_session_id}) \ {0} /\ UNCHANGED <<now, drawn>>
      /\ executed' = [executed EXCEPT ![0] = [c \in Counters |-> 0]]
  BY DEF UdpRestart
<1>2. UdpClock'
  BY <1>1, UdpNumbers DEF UdpInv, UdpClock, Counters
<1>3. UdpOver'
  BY <1>1 DEF UdpInv, UdpOver, UdpClock
<1>4. executed \in [Sessions -> [Counters -> Nat]] /\ 0 \in Sessions
  BY UdpNumbers DEF UdpInv, UdpPast, Sessions
<1>5. /\ executed' \in [Sessions -> [Counters -> Nat]]
      /\ \A s \in Sessions, c \in Counters :
           executed'[s][c] = IF s = 0 THEN 0 ELSE executed[s][c]
  BY <1>1, <1>4
<1>6. UdpPast'
  BY <1>1, <1>4, <1>5 DEF UdpInv, UdpPast
<1>7. ExecutedOnce'
  BY <1>5 DEF UdpInv, ExecutedOnce
<1> QED BY <1>2, <1>3, <1>6, <1>7 DEF UdpInv

LEMMA UdpInvStep == UdpInv /\ [UdpNext]_udpVars => UdpInv'
<1> SUFFICES ASSUME UdpInv, [UdpNext]_udpVars PROVE UdpInv'
  OBVIOUS
<1>1. CASE Tick
  BY <1>1, UdpNumbers DEF Tick, udpHistory, UdpInv, UdpClock, UdpPast, UdpOver, ExecutedOnce
<1>2. CASE RateLimited \/ UNCHANGED udpVars
  BY <1>2 DEF RateLimited, udpVars, UdpInv, UdpClock, UdpPast, UdpOver, ExecutedOnce
<1>3. CASE Ping
  BY <1>3, IgnoredKeeps DEF Ping
<1>4. CASE Ignore
  BY <1>4, IgnoredKeeps DEF Ignore
<1>5. ASSUME NEW session \in 0 .. drawn, NEW counter \in Counters,
             NEW op \in Opcodes, NEW encrypted \in BOOLEAN,
             Execute(session, counter, op, encrypted)
      PROVE  UdpInv'
  BY <1>5, ExecuteKeeps
<1>6. CASE UdpRestart
  BY <1>6, RestartKeeps
<1> QED BY <1>1, <1>2, <1>3, <1>4, <1>5, <1>6 DEF UdpNext

LEMMA UdpInvariant == UdpSpec => []UdpInv
  BY UdpInvInit, UdpInvStep, PTL DEF UdpSpec

\* udp_server_task executes no datagram of a session it drew twice, and none of
\* session 0 twice in a boot, whatever the network repeats, delays or reorders and
\* however often the session is replaced or the device restarts in between
\* (counter 0 excepted, as in the property).
THEOREM UdpExecutesOnce == UdpSpec => []ExecutedOnce
<1>1. UdpInv => ExecutedOnce
  BY DEF UdpInv
<1> QED BY <1>1, UdpInvariant, PTL

\* The datagram that arrives after the idle time is compared with the new
\* session, and no session but 0 comes back, so it is not executed.
THEOREM UdpNoneStale == UdpSpec => []NoneExecutedStale
<1>1. UdpInit => NoneExecutedStale
  BY DEF UdpInit, NoneExecutedStale
<1>2. UdpInv /\ NoneExecutedStale /\ [UdpNext]_udpVars => NoneExecutedStale'
  <2> SUFFICES ASSUME UdpInv, NoneExecutedStale, [UdpNext]_udpVars PROVE NoneExecutedStale'
    OBVIOUS
  <2>1. ASSUME NEW session \in 0 .. drawn, NEW counter \in Counters,
               NEW op \in Opcodes, NEW encrypted \in BOOLEAN,
               Execute(session, counter, op, encrypted)
        PROVE  NoneExecutedStale'
    <3>1. session = SessionNow /\ Replace /\ stale' = (stale \/ session \in over')
      BY <2>1 DEF Execute, Fresh
    <3>2. session \notin over'
      BY <3>1, ReplaceStep
    <3> QED BY <3>1, <3>2 DEF NoneExecutedStale
  <2>2. CASE Tick \/ UdpRestart \/ RateLimited \/ Ping \/ Ignore \/ UNCHANGED udpVars
    BY <2>2 DEF Tick, UdpRestart, RateLimited, Ping, Ignore, udpHistory, udpVars, NoneExecutedStale
  <2> QED BY <2>1, <2>2 DEF UdpNext
<1> QED BY <1>1, <1>2, UdpInvariant, PTL DEF UdpSpec

-----------------------------------------------------------------------------
(* BLE command lines: for every size of chunk, queue and buffer.            *)

LEMMA ThreeRuns ==
  ASSUME NEW s \in Seq(Bytes), NEW t \in Seq(Bytes), NEW u \in Seq(Bytes)
  PROVE  (s \o t) \o u = s \o (t \o u)
OBVIOUS

LEMMA BleSizes ==
  /\ MAX_CHUNK_SIZE \in Nat /\ RX_BUF_SIZE \in Nat /\ RX_SLOTS \in Nat /\ MaxWrites \in Nat
  /\ MAX_CHUNK_SIZE > 0 /\ RX_BUF_SIZE > 1
BY BleLinesAssumption

\* The inductive invariant: the history of the lines beside the bounds.
BleInv == BleTypeOK /\ LinesAreTheStream

\* What is kept of a write is shorter than a chunk.
LEMMA ClampFits ==
  ASSUME NEW data \in Seq(Bytes)
  PROVE  Clamp(data) \in Seq(Bytes) /\ Len(Clamp(data)) < MAX_CHUNK_SIZE
<1> DEFINE n == IF Len(data) >= MAX_CHUNK_SIZE THEN MAX_CHUNK_SIZE - 1 ELSE Len(data)
<1>1. n \in Nat /\ n <= Len(data) /\ n < MAX_CHUNK_SIZE /\ Len(data) \in Nat
  BY BleSizes, LenProperties
<1>2. Clamp(data) = SubSeq(data, 1, n)
  BY DEF Clamp
<1> HIDE DEF n
<1>3. \A i \in 1 .. n : data[i] \in Bytes
  BY <1>1, ElementOfSeq
<1>4. SubSeq(data, 1, n) \in Seq(Bytes) /\ Len(SubSeq(data, 1, n)) = IF 1 <= n THEN n - 1 + 1 ELSE 0
  BY <1>1, <1>3, SubSeqProperties
<1> QED BY <1>1, <1>2, <1>4

\* A buffer is its first line, the newline and the rest.
LEMMA LineAndRest ==
  ASSUME NEW b \in Seq(Bytes), NEW n \in 1 .. Len(b), b[n] = NL
  PROVE  /\ SubSeq(b, 1, n - 1) \in Seq(Bytes)
         /\ Append(SubSeq(b, 1, n - 1), NL) \in Seq(Bytes)
         /\ Remaining(b, n) \in Seq(Bytes) /\ Len(Remaining(b, n)) < Len(b)
         /\ Append(SubSeq(b, 1, n - 1), NL) \o Remaining(b, n) = b
<1>1. Len(b) \in Nat /\ n \in Nat /\ n >= 1 /\ n <= Len(b)
  BY LenProperties
<1>2. \A i \in 1 .. Len(b) : b[i] \in Bytes
  BY ElementOfSeq
<1>3. SubSeq(b, 1, n - 1) \in Seq(Bytes)
  BY <1>1, <1>2, SubSeqProperties
<1>4. /\ SubSeq(b, n + 1, Len(b)) \in Seq(Bytes)
      /\ Len(SubSeq(b, n + 1, Len(b))) = IF n + 1 <= Len(b) THEN Len(b) - (n + 1) + 1 ELSE 0
  BY <1>1, <1>2, SubSeqProperties
<1>5. Len(SubSeq(b, n + 1, Len(b))) < Len(b)
  BY <1>1, <1>4
<1>6. SubSeq(b, 1, n) = SubSeq(b, 1, n - 1) \o <<b[n]>>
  BY <1>1, SubSeqRecursiveSecond
<1>7. SubSeq(b, 1, n - 1) \o <<b[n]>> = Append(SubSeq(b, 1, n - 1), NL)
  BY <1>3
<1>8. Append(SubSeq(b, 1, n - 1), NL) \in Seq(Bytes)
  <2>1. NL \in Bytes
    BY <1>1, <1>2
  <2> QED BY <1>3, <2>1, AppendProperties
<1>9. SubSeq(b, 1, n) \o SubSeq(b, n + 1, Len(b)) = SubSeq(b, 1, Len(b))
  BY <1>1, ConcatAdjacentSubSeq
<1>10. SubSeq(b, 1, Len(b)) = b
  BY SubSeqFull
<1> QED BY <1>3, <1>4, <1>5, <1>6, <1>7, <1>8, <1>9, <1>10 DEF Remaining

\* The queue takes a chunk that fits and gives its first one away.
ChunksFit ==
    /\ chunks \in Seq(Seq(Bytes)) /\ Len(chunks) <= RX_SLOTS
    /\ \A i \in DOMAIN chunks : Len(chunks[i]) < MAX_CHUNK_SIZE

LEMMA QueuePuts ==
  ASSUME ChunksFit, NEW data \in Seq(Bytes),
         chunks' = IF Len(chunks) < RX_SLOTS THEN Append(chunks, Clamp(data)) ELSE chunks
  PROVE  ChunksFit'
<1>1. CASE Len(chunks) < RX_SLOTS
  <2>1. /\ Append(chunks, Clamp(data)) \in Seq(Seq(Bytes))
        /\ Len(Append(chunks, Clamp(data))) = Len(chunks) + 1
        /\ \A i \in 1 .. Len(chunks) : Append(chunks, Clamp(data))[i] = chunks[i]
        /\ Append(chunks, Clamp(data))[Len(chunks) + 1] = Clamp(data)
    BY ClampFits, AppendProperties DEF ChunksFit
  <2>2. DOMAIN chunks = 1 .. Len(chunks) /\ Len(chunks) \in Nat
    BY LenProperties DEF ChunksFit
  <2>3. DOMAIN Append(chunks, Clamp(data)) = 1 .. Len(chunks) + 1
    BY <2>1, LenProperties
  <2>4. \A i \in 1 .. Len(chunks) + 1 : Len(Append(chunks, Clamp(data))[i]) < MAX_CHUNK_SIZE
    <3> TAKE i \in 1 .. Len(chunks) + 1
    <3>1. CASE i = Len(chunks) + 1
      BY <2>1, <3>1, ClampFits
    <3>2. CASE i # Len(chunks) + 1
      <4>1. i \in 1 .. Len(chunks)
        BY <2>2, <3>2
      <4> QED BY <2>1, <2>2, <4>1 DEF ChunksFit
    <3> QED BY <3>1, <3>2
  <2>5. Len(chunks) + 1 <= RX_SLOTS
    BY <1>1, <2>2, BleSizes
  <2> QED BY <1>1, <2>1, <2>3, <2>4, <2>5 DEF ChunksFit
<1>2. CASE ~ (Len(chunks) < RX_SLOTS)
  BY <1>2 DEF ChunksFit
<1> QED BY <1>1, <1>2

LEMMA QueueGives ==
  ASSUME ChunksFit, chunks # <<>>, chunks' = Tail(chunks)
  PROVE  ChunksFit' /\ Head(chunks) \in Seq(Bytes)
<1>1. /\ Head(chunks) \in Seq(Bytes) /\ Tail(chunks) \in Seq(Seq(Bytes))
      /\ Len(Tail(chunks)) = Len(chunks) - 1
      /\ \A i \in 1 .. Len(Tail(chunks)) : Tail(chunks)[i] = chunks[i + 1]
  BY HeadTailProperties DEF ChunksFit
<1>2. DOMAIN chunks = 1 .. Len(chunks) /\ Len(chunks) \in Nat
  BY LenProperties DEF ChunksFit
<1>3. DOMAIN Tail(chunks) = 1 .. Len(Tail(chunks))
  BY <1>1, LenProperties
<1>4. \A i \in 1 .. Len(Tail(chunks)) : Len(Tail(chunks)[i]) < MAX_CHUNK_SIZE
  <2> TAKE i \in 1 .. Len(Tail(chunks))
  <2>1. i + 1 \in 1 .. Len(chunks)
    BY <1>1, <1>2
  <2> QED BY <1>1, <1>2, <2>1 DEF ChunksFit
<1>5. Len(Tail(chunks)) <= RX_SLOTS
  BY <1>1, <1>2, BleSizes DEF ChunksFit
<1> QED BY <1>1, <1>3, <1>4, <1>5 DEF ChunksFit

LEMMA BleParts == BleTypeOK <=> /\ ChunksFit
                               /\ rx_buffer \in Seq(Bytes) /\ Len(rx_buffer) <= RX_BUF_SIZE - 2
                               /\ lines \in Seq(Bytes) /\ stream \in Seq(Bytes)
                               /\ writes \in 0 .. MaxWrites
BY Zenon DEF BleTypeOK, ChunksFit

LEMMA EmptyBuffer ==
  /\ <<>> \in Seq(Bytes) /\ Len(<<>>) = 0 /\ Len(<<>>) <= RX_BUF_SIZE - 2 /\ <<>> \o <<>> = <<>>
<1>1. <<>> \in Seq(Bytes) /\ Len(<<>>) = 0
  BY EmptySeq, Zenon
<1>2. <<>> \o <<>> = <<>>
  BY <1>1, ConcatEmptySeq, Zenon
<1>3. 0 <= RX_BUF_SIZE - 2
  BY BleSizes
<1> QED BY <1>1, <1>2, <1>3, Zenon

\* Any write of the phone, however it cuts the lines.
LEMMA WriteKeeps ==
  ASSUME BleInv, NEW data \in Seq(Bytes), gatt_svr_chr_access(data)
  PROVE  BleInv'
<1>1. ChunksFit'
  BY QueuePuts, BleParts DEF BleInv, gatt_svr_chr_access
<1>2. writes' \in 0 .. MaxWrites
  BY BleSizes DEF BleInv, BleTypeOK, gatt_svr_chr_access
<1>3. UNCHANGED <<rx_buffer, lines, stream>>
  BY Zenon DEF gatt_svr_chr_access
<1> QED BY <1>1, <1>2, <1>3, Zenon DEF BleInv, BleTypeOK, ChunksFit, LinesAreTheStream

LEMMA OverflowKeeps == BleInv /\ RxOverflow => BleInv'
<1> SUFFICES ASSUME BleInv, RxOverflow PROVE BleInv'
  OBVIOUS
<1>1. ChunksFit'
  BY QueueGives, BleParts DEF BleInv, RxOverflow
<1>2. rx_buffer' = <<>> /\ stream' = <<>> /\ lines' = <<>> /\ UNCHANGED writes
  BY Zenon DEF RxOverflow
<1> QED BY <1>1, <1>2, EmptyBuffer, Zenon DEF BleInv, BleTypeOK, ChunksFit, LinesAreTheStream

LEMMA JsonTaskKeeps == BleInv /\ json_task => BleInv'
<1> SUFFICES ASSUME BleInv, json_task PROVE BleInv'
  OBVIOUS
<1> DEFINE head == Head(chunks)
           buffer == rx_buffer \o head
           newlines == {i \in DOMAIN buffer : buffer[i] = NL}
<1>1. ChunksFit' /\ head \in Seq(Bytes)
  BY QueueGives, BleParts DEF BleInv, json_task
<1>2. /\ rx_buffer \in Seq(Bytes) /\ lines \in Seq(Bytes) /\ stream \in Seq(Bytes)
      /\ lines \o rx_buffer = stream
  BY Zenon DEF BleInv, BleTypeOK, LinesAreTheStream
<1>3. /\ ~ Overflows(head) /\ stream' = stream \o head /\ UNCHANGED writes
      /\ \/ newlines = {} /\ rx_buffer' = buffer /\ UNCHANGED lines
         \/ \E newline \in newlines :
            /\ lines' = lines \o Append(SubSeq(buffer, 1, newline - 1), NL)
            /\ rx_buffer' = Remaining(buffer, newline)
  BY Zenon DEF json_task
<1> HIDE DEF head
<1>4. buffer \in Seq(Bytes) /\ Len(buffer) = Len(rx_buffer) + Len(head)
  BY <1>1, <1>2, ConcatProperties
<1>5. Len(buffer) <= RX_BUF_SIZE - 2 /\ Len(buffer) \in Nat
  <2>1. Len(rx_buffer) \in Nat /\ Len(head) \in Nat
    BY <1>1, <1>2, LenProperties
  <2>2. ~ (Len(rx_buffer) + Len(head) >= RX_BUF_SIZE - 1)
    BY <1>3 DEF Overflows
  <2> QED BY <1>4, <2>1, <2>2, BleSizes
<1>6. stream' = lines \o buffer /\ stream' \in Seq(Bytes)
  <2>1. (lines \o rx_buffer) \o head = lines \o (rx_buffer \o head)
    BY <1>1, <1>2, ThreeRuns, Zenon
  <2>2. stream \o head \in Seq(Bytes)
    BY <1>1, <1>2, ConcatProperties
  <2> QED BY <1>2, <1>3, <2>1, <2>2
<1>7. DOMAIN buffer = 1 .. Len(buffer)
  BY <1>4, LenProperties
<1> HIDE DEF buffer
<1>8. CASE newlines = {} /\ rx_buffer' = buffer /\ UNCHANGED lines
  BY <1>1, <1>2, <1>3, <1>4, <1>5, <1>6, <1>8, Zenon DEF BleInv, BleTypeOK, ChunksFit, LinesAreTheStream
<1>9. CASE \E newline \in newlines :
           /\ lines' = lines \o Append(SubSeq(buffer, 1, newline - 1), NL)
           /\ rx_buffer' = Remaining(buffer, newline)
  <2> PICK newline \in newlines :
        /\ lines' = lines \o Append(SubSeq(buffer, 1, newline - 1), NL)
        /\ rx_buffer' = Remaining(buffer, newline)
    BY <1>9
  <2>1. newline \in 1 .. Len(buffer) /\ buffer[newline] = NL
    BY <1>7
  <2> DEFINE line == Append(SubSeq(buffer, 1, newline - 1), NL)
             rest == Remaining(buffer, newline)
  <2>2. line \in Seq(Bytes) /\ rest \in Seq(Bytes) /\ Len(rest) < Len(buffer) /\ line \o rest = buffer
    BY <1>4, <2>1, LineAndRest
  <2>3. lines' = lines \o line /\ rx_buffer' = rest
    OBVIOUS
  <2> HIDE DEF line, rest
  <2>4. (lines \o line) \o rest = lines \o (line \o rest)
    BY <1>2, <2>2, ThreeRuns, Zenon
  <2>5. lines \o line \in Seq(Bytes)
    BY <1>2, <2>2, ConcatProperties
  <2>6. Len(rest) <= RX_BUF_SIZE - 2
    <3>1. Len(rest) \in Nat
      BY <2>2, LenProperties
    <3> QED BY <1>5, <2>2, <3>1, BleSizes
  <2>7. LinesAreTheStream'
    BY <1>6, <2>2, <2>3, <2>4, Zenon DEF LinesAreTheStream
  <2> QED BY <1>1, <1>3, <1>6, <2>2, <2>3, <2>5, <2>6, <2>7, Zenon
          DEF BleInv, BleTypeOK, ChunksFit
<1> QED BY <1>3, <1>8, <1>9, Zenon

LEMMA WritesAreBytes ==
  ASSUME writes \in 0 .. MaxWrites, writes < MaxWrites
  PROVE  Writes(writes + 1) \subseteq Seq(Bytes)
<1>1. writes + 1 \in Bytes /\ NL \in Bytes
  BY BleSizes DEF Bytes, NL
<1> DEFINE k == writes + 1
<1> HIDE DEF k
<1>2. k \in Bytes
  BY <1>1 DEF k
<1>3. Writes(k) \subseteq Seq(Bytes)
  BY <1>1, <1>2 DEF Writes
<1> QED BY <1>3 DEF k

LEMMA BleStep == BleInv /\ [BleNext]_bleVars => BleInv'
<1> SUFFICES ASSUME BleInv, [BleNext]_bleVars PROVE BleInv'
  OBVIOUS
<1>1. ASSUME NEW data \in Writes(writes + 1), gatt_svr_chr_access(data) PROVE BleInv'
  <2>1. data \in Seq(Bytes)
    BY <1>1, WritesAreBytes DEF BleInv, BleTypeOK, gatt_svr_chr_access
  <2> QED BY <1>1, <2>1, WriteKeeps
<1>2. CASE UNCHANGED bleVars
  BY <1>2, Zenon DEF BleInv, BleTypeOK, LinesAreTheStream, bleVars
<1> QED BY <1>1, <1>2, OverflowKeeps, JsonTaskKeeps, Zenon DEF BleNext

LEMMA BleStarts == BleInit => BleInv
<1> SUFFICES ASSUME BleInit PROVE BleInv
  OBVIOUS
<1>1. chunks \in Seq(Seq(Bytes)) /\ Len(chunks) = 0 /\ DOMAIN chunks = {}
  BY EmptySeq DEF BleInit
<1>2. 0 <= RX_SLOTS /\ writes \in 0 .. MaxWrites
  BY BleSizes DEF BleInit
<1>3. ChunksFit
  BY <1>1, <1>2, Zenon DEF ChunksFit
<1> QED BY <1>2, <1>3, EmptyBuffer, Zenon DEF BleInit, BleInv, BleTypeOK, ChunksFit, LinesAreTheStream

\* However the phone cuts its lines into writes, the queue never holds more
\* than its slots, no entry is longer than a slot, and rx_buffer has room for
\* the terminating zero: gatt_svr_chr_access and json_task overrun nothing.
THEOREM BleTyped == BleSpec => []BleTypeOK
<1>1. BleInv => BleTypeOK
  BY DEF BleInv
<1> QED BY BleStarts, BleStep, <1>1, PTL DEF BleSpec

\* For every size of chunk, queue and buffer json_task hands over exactly the
\* bytes received since the last overflow, line by line and in order.
THEOREM BleLinesExact == BleSpec => []LinesAreTheStream
<1>1. BleInv => LinesAreTheStream
  BY DEF BleInv
<1> QED BY BleStarts, BleStep, <1>1, PTL DEF BleSpec

-----------------------------------------------------------------------------
(* Presence: types.                                                        *)

Requests == [origin : {"markOnline", "markOffline", "interval"},
             n : Sockets \union Timers, online : BOOLEAN, applied : BOOLEAN]

\* A markOnline is numbered like the interval it will start, so that the map
\* only ever names intervals.
MarksAreTimers == \A r \in requests : r.origin = "markOnline" => r.n \in Timers

PresenceTypes == TypeOK /\ MarksAreTimers

LEMMA RequestTyped ==
  ASSUME NEW origin \in {"markOnline", "markOffline", "interval"}, NEW n \in Sockets \union Timers
  PROVE  Request(origin, n) \in Requests /\ Request(origin, n).origin = origin /\ Request(origin, n).n = n
BY DEF Request, Requests

LEMMA AppliedTyped ==
  ASSUME NEW r \in Requests
  PROVE  /\ [r EXCEPT !.applied = TRUE] \in Requests
         /\ [r EXCEPT !.applied = TRUE].origin = r.origin /\ [r EXCEPT !.applied = TRUE].n = r.n
         /\ r.online \in BOOLEAN
BY DEF Requests

LEMMA PresenceTypesStart == Init => PresenceTypes
<1> SUFFICES ASSUME Init PROVE PresenceTypes
  OBVIOUS
<1>1. marks \in 0 .. MaxMarks
  BY PresenceAssumption DEF Init
<1>2. sock \in [Sockets -> {"new", "open", "closed"}]
  BY DEF Init
<1> QED BY <1>1, <1>2, Zenon DEF Init, PresenceTypes, MarksAreTimers, TypeOK

LEMMA PresenceTypesStep == PresenceTypes /\ [Next]_vars => PresenceTypes'
<1> SUFFICES ASSUME PresenceTypes, [Next]_vars PROVE PresenceTypes'
  OBVIOUS
<1>0. MaxSockets \in Nat /\ MaxMarks \in Nat /\ marks \in Nat /\ requests \subseteq Requests
  BY PresenceAssumption DEF PresenceTypes, TypeOK, Requests
<1>a. ASSUME sock' \in [Sockets -> {"new", "open", "closed"}], present' \subseteq Sockets,
             marks' \in 0 .. MaxMarks, heartbeats' \in {0} \union Timers, timers' \subseteq Timers,
             requests' \subseteq Requests, is_online' \in BOOLEAN,
             \A r \in requests' : r.origin = "markOnline" => r.n \in Timers
      PROVE  PresenceTypes'
  BY <1>a DEF PresenceTypes, MarksAreTimers, TypeOK, Requests
<1>1. ASSUME NEW s \in Sockets, Open(s) PROVE PresenceTypes'
  BY <1>0, <1>a, <1>1 DEF Open, PresenceTypes, MarksAreTimers, TypeOK
<1>2. ASSUME NEW s \in Sockets, markOnline(s) PROVE PresenceTypes'
  <2>1. marks + 1 \in Timers /\ marks' \in 0 .. MaxMarks
    BY <1>0, <1>2 DEF markOnline, Timers
  <2>2. requests' \subseteq Requests /\ \A r \in requests' : r.origin = "markOnline" => r.n \in Timers
    BY <1>0, <1>2, <2>1, RequestTyped DEF markOnline, PresenceTypes, MarksAreTimers
  <2> QED BY <1>a, <1>2, <2>1, <2>2 DEF markOnline, PresenceTypes, TypeOK
<1>3. ASSUME NEW s \in Sockets, markOffline(s) PROVE PresenceTypes'
  <2>1. requests' \subseteq Requests /\ \A r \in requests' : r.origin = "markOnline" => r.n \in Timers
    BY <1>0, <1>3, RequestTyped DEF markOffline, PresenceTypes, MarksAreTimers
  <2> QED BY <1>a, <1>3, <2>1 DEF markOffline, PresenceTypes, TypeOK
<1>4. ASSUME NEW r \in requests, setDeviceOnline(r) PROVE PresenceTypes'
  <2>1. /\ requests' \subseteq Requests /\ is_online' \in BOOLEAN
        /\ \A q \in requests' : q.origin = "markOnline" => q.n \in Timers
    BY <1>0, <1>4, AppliedTyped DEF setDeviceOnline, PresenceTypes, MarksAreTimers
  <2> QED BY <1>a, <1>4, <2>1 DEF setDeviceOnline, PresenceTypes, TypeOK
<1>5. ASSUME NEW r \in requests, ResumeMarkOnline(r) PROVE PresenceTypes'
  <2>1. r.n \in Timers
    BY <1>5 DEF ResumeMarkOnline, PresenceTypes, MarksAreTimers
  <2> QED BY <1>0, <1>a, <1>5, <2>1 DEF ResumeMarkOnline, PresenceTypes, MarksAreTimers, TypeOK
<1>6. ASSUME NEW r \in requests, Return(r) PROVE PresenceTypes'
  BY <1>0, <1>a, <1>6 DEF Return, PresenceTypes, MarksAreTimers, TypeOK
<1>7. ASSUME NEW t \in Timers, Heartbeat(t) PROVE PresenceTypes'
  <2>1. requests' \subseteq Requests /\ \A r \in requests' : r.origin = "markOnline" => r.n \in Timers
    BY <1>0, <1>7, RequestTyped DEF Heartbeat, PresenceTypes, MarksAreTimers
  <2> QED BY <1>a, <1>7, <2>1 DEF Heartbeat, PresenceTypes, TypeOK
<1>8. CASE UNCHANGED vars
  BY <1>0, <1>a, <1>8 DEF vars, PresenceTypes, MarksAreTimers, TypeOK
<1> QED BY <1>1, <1>2, <1>3, <1>4, <1>5, <1>6, <1>7, <1>8 DEF Next

\* The map, the timers and the requests of PresenceEngine keep their types; in
\* particular the map only names intervals that a markOnline started.
THEOREM PresenceTyped == Spec => []TypeOK
<1>1. PresenceTypes => TypeOK
  BY DEF PresenceTypes
<1> QED BY <1>1, PresenceTypesStart, PresenceTypesStep, PTL DEF Spec

-----------------------------------------------------------------------------
(* Presence: the heartbeat of a connection.                                *)

\* A markOnline that has not been resumed is under way.
Marking == \E r \in requests : r.origin = "markOnline"

\* Since the last close event the device has either made no handshake, or has its
\* interval in the map, or a markOnline that will put one there.
HeartbeatComes == present # {} => Marking \/ heartbeats \in timers

PresenceInv == PresenceTypes /\ HeartbeatComes

\* Steps that complete no handshake, stop no interval that is in the map, and
\* keep a markOnline under way or resume it.
LEMMA KeepsHeartbeat ==
  ASSUME HeartbeatComes, UNCHANGED present,
         Marking => Marking' \/ heartbeats' \in timers',
         heartbeats \in timers => heartbeats' \in timers'
  PROVE  HeartbeatComes'
BY DEF HeartbeatComes

LEMMA PresenceStart == Init => PresenceInv
BY PresenceTypesStart DEF Init, PresenceInv, HeartbeatComes

LEMMA PresenceStep == PresenceInv /\ [Next]_vars => PresenceInv'
<1> SUFFICES ASSUME PresenceInv, [Next]_vars PROVE PresenceInv'
  OBVIOUS
<1>0. PresenceTypes' /\ HeartbeatComes
  BY PresenceTypesStep DEF PresenceInv
<1>1. ASSUME NEW s \in Sockets, Open(s) PROVE HeartbeatComes'
  <2>1. Marking => Marking'
    BY <1>1 DEF Open, Marking
  <2> QED BY <1>0, <1>1, <2>1, KeepsHeartbeat DEF Open
<1>2. ASSUME NEW s \in Sockets, markOnline(s) PROVE HeartbeatComes'
  <2>1. Request("markOnline", marks + 1).origin = "markOnline"
    BY DEF Request
  <2>2. Marking'
    BY <1>2, <2>1 DEF markOnline, Marking
  <2> QED BY <2>2 DEF HeartbeatComes
<1>3. ASSUME NEW s \in Sockets, markOffline(s) PROVE HeartbeatComes'
  BY <1>3 DEF markOffline, HeartbeatComes
<1>4. ASSUME NEW r \in requests, setDeviceOnline(r) PROVE HeartbeatComes'
  <2>1. /\ UNCHANGED <<present, heartbeats, timers>>
        /\ requests' = (requests \ {r}) \union {[r EXCEPT !.applied = TRUE]}
    BY <1>4 DEF setDeviceOnline
  <2>2. [r EXCEPT !.applied = TRUE].origin = r.origin
    BY AppliedTyped DEF PresenceInv, PresenceTypes, TypeOK, Requests
  <2>3. Marking => Marking'
    BY <2>1, <2>2 DEF Marking
  <2> QED BY <1>0, <2>1, <2>3, KeepsHeartbeat
<1>5. ASSUME NEW r \in requests, ResumeMarkOnline(r) PROVE HeartbeatComes'
  BY <1>0, <1>5, KeepsHeartbeat DEF ResumeMarkOnline
<1>6. ASSUME NEW r \in requests, Return(r) PROVE HeartbeatComes'
  <2>1. Marking => Marking'
    BY <1>6 DEF Return, Marking
  <2> QED BY <1>0, <1>6, <2>1, KeepsHeartbeat DEF Return
<1>7. ASSUME NEW t \in Timers, Heartbeat(t) PROVE HeartbeatComes'
  <2>1. Marking => Marking'
    BY <1>7 DEF Heartbeat, Marking
  <2> QED BY <1>0, <1>7, <2>1, KeepsHeartbeat DEF Heartbeat
<1>8. ASSUME UNCHANGED vars PROVE HeartbeatComes'
  <2>1. UNCHANGED <<present, heartbeats, timers, requests>>
    BY <1>8 DEF vars
  <2>2. Marking' <=> Marking
    BY <2>1 DEF Marking
  <2> QED BY <1>0, <2>1, <2>2, KeepsHeartbeat, Zenon
<1>9. HeartbeatComes'
  BY <1>1, <1>2, <1>3, <1>4, <1>5, <1>6, <1>7, <1>8, Zenon DEF Next
<1> QED BY <1>0, <1>9 DEF PresenceInv

\* Whatever sockets overlap and in whatever order the database answers, once the
\* requests are answered a connection whose handshake came after the last close
\* event of the device has an interval that runs and that is in the map
\* (presence-engine.ts).
THEOREM ConnectedKeepsHeartbeat == Spec => []ConnectedHasHeartbeat
<1>1. PresenceInv => ConnectedHasHeartbeat
  <2> SUFFICES ASSUME PresenceInv, Connected, requests = {} PROVE heartbeats \in timers
    BY DEF ConnectedHasHeartbeat
  <2>1. present # {} /\ ~ Marking
    BY DEF Connected, Marking
  <2> QED BY <2>1 DEF PresenceInv, HeartbeatComes
<1> QED BY <1>1, PresenceStart, PresenceStep, PTL DEF Spec
=============================================================================
