---------------------------- MODULE ReplayProofs ----------------------------
(***************************************************************************)
(* Replay protection for every window size and every range of packet ids.  *)
(* The firmware's window (ReplayWindow) and the server's guard             *)
(* (ReplayGuard) keep an exact record of the accepted ids, each implements *)
(* the abstract replay protection (ReplaySpec), and side by side           *)
(* (ReplayAgreement) they answer every stream of ids alike.                *)
(***************************************************************************)
EXTENDS ReplayAgreement, TLAPS

-----------------------------------------------------------------------------
(* The firmware's window.                                                  *)

\* The inductive invariant: types, and the mask read against the history.
WindowInv == TypeOK /\ WindowExact

\* An empty context is recognised as such exactly when nothing was accepted,
\* although ykp_replay_check looks only at highest_id and window_bits.
LEMMA FirstPacketIsEmptyHistory ==
    ASSUME WindowInv
    PROVE  FirstPacket(highest_id, window_bits) <=> accepted = {}
  BY WindowSizeAssumption, MaxIdAssumption
  DEF WindowInv, TypeOK, WindowExact, FirstPacket, Ids, Bits

\* The code's test (Admits) and the specification's test (Fresh) coincide.
LEMMA AdmitsIsFresh ==
    ASSUME WindowInv, NEW id \in Ids
    PROVE  Admits(highest_id, window_bits, id) <=> Abstract!Fresh(accepted, id)
<1>1. CASE accepted = {}
  BY <1>1, FirstPacketIsEmptyHistory DEF Admits, Abstract!Fresh
<1>2. CASE accepted # {}
  <2>1. /\ highest_id \in accepted
        /\ ~ FirstPacket(highest_id, window_bits)
        /\ \A a \in accepted : a \in Ids /\ a <= highest_id
    BY <1>2, FirstPacketIsEmptyHistory DEF WindowInv, WindowExact, TypeOK
  <2>2. CASE id > highest_id
    BY <2>1, <2>2, WindowSizeAssumption, MaxIdAssumption
    DEF Admits, Abstract!Fresh, Ids, WindowInv, TypeOK
  <2>3. CASE id <= highest_id
    <3>1. (\A a \in accepted : a - id < WindowSize) <=> highest_id - id < WindowSize
      BY <2>1, <2>3, WindowSizeAssumption, MaxIdAssumption DEF Ids, WindowInv, TypeOK
    <3>2. highest_id - id < WindowSize
             => (highest_id - id \in window_bits <=> id \in accepted)
      <4> SUFFICES ASSUME highest_id - id < WindowSize
                   PROVE  highest_id - id \in window_bits <=> id \in accepted
        OBVIOUS
      <4>1. highest_id - id \in Bits /\ highest_id - (highest_id - id) = id
        BY <2>3, WindowSizeAssumption, MaxIdAssumption DEF Ids, Bits, WindowInv, TypeOK
      <4>2. QED BY <4>1 DEF WindowInv, WindowExact
    <3>3. QED
      BY <2>1, <2>3, <3>1, <3>2, WindowSizeAssumption, MaxIdAssumption
      DEF Admits, Abstract!Fresh, Ids, WindowInv, TypeOK
  <2>4. QED BY <2>2, <2>3, MaxIdAssumption DEF Ids, WindowInv, TypeOK
<1>3. QED BY <1>1, <1>2

\* Registering an admitted id keeps the record exact, whether the id opens the
\* window, moves it up, clears it with a large jump, or fills a late gap.
LEMMA WindowAccept ==
    ASSUME WindowInv, NEW id \in Ids, CheckAccept(id)
    PROVE  WindowInv'
<1> USE WindowSizeAssumption, MaxIdAssumption
<1>0. /\ id \in Nat /\ id # 0 /\ id <= MaxId /\ highest_id \in Nat /\ highest_id <= MaxId
      /\ accepted' = accepted \union {id}
      /\ highest_id' = Raise(highest_id, id)
      /\ window_bits' = Register(highest_id, window_bits, id)
  BY DEF CheckAccept, Admits, Ids, WindowInv, TypeOK
<1>1. \A a \in accepted : a \in Ids /\ 0 < a /\ a <= highest_id
  BY DEF WindowInv, TypeOK, WindowExact
<1>2. \A a \in accepted' : 0 < a /\ a <= highest_id'
  BY <1>0, <1>1 DEF Raise, Ids
<1>3. highest_id' \in accepted' /\ highest_id' # 0 /\ highest_id' \in Ids
  BY <1>0, <1>1 DEF Raise, Ids, WindowInv, WindowExact
<1>4. \A d \in Bits : d \in window_bits' <=> highest_id' - d \in accepted'
  <2> SUFFICES ASSUME NEW d \in Bits
               PROVE  d \in window_bits' <=> highest_id' - d \in accepted'
    OBVIOUS
  <2>0. d \in Nat /\ d < WindowSize
    BY DEF Bits
  <2>1. CASE FirstPacket(highest_id, window_bits)
    <3>1. accepted = {} /\ highest_id = 0
      BY <2>1, FirstPacketIsEmptyHistory DEF FirstPacket
    <3>2. window_bits' = {0} /\ highest_id' = id
      BY <1>0, <2>1, <3>1 DEF Register, Raise
    <3>3. QED BY <1>0, <2>0, <3>1, <3>2
  <2>2. CASE ~ FirstPacket(highest_id, window_bits) /\ id > highest_id
    <3>1. highest_id' = id /\ window_bits' = AdvanceBy(window_bits, id - highest_id)
      BY <1>0, <2>2 DEF Register, Raise
    <3>2. CASE id - highest_id >= WindowSize
      <4>1. window_bits' = {0}
        BY <3>1, <3>2 DEF AdvanceBy
      <4>2. \A a \in accepted : a # id - d
        BY <1>0, <1>1, <2>0, <3>2 DEF Ids
      <4>3. QED BY <1>0, <2>0, <3>1, <4>1, <4>2
    <3>3. CASE id - highest_id < WindowSize
      <4>1. d \in window_bits' <=> d = 0 \/ d - (id - highest_id) \in window_bits
        BY <1>0, <3>1, <3>3 DEF AdvanceBy
      <4>2. CASE d < id - highest_id
        <5>1. d - (id - highest_id) \notin window_bits
          BY <1>0, <2>0, <4>2 DEF WindowInv, TypeOK, Bits
        <5>2. id - d \notin accepted
          BY <1>0, <1>1, <2>0, <4>2 DEF Ids
        <5>3. QED BY <1>0, <2>0, <3>1, <4>1, <5>1, <5>2
      <4>3. CASE d >= id - highest_id
        <5>1. d - (id - highest_id) \in Bits
              /\ highest_id - (d - (id - highest_id)) = id - d
          BY <1>0, <2>0, <2>2, <4>3 DEF Bits
        <5>2. d - (id - highest_id) \in window_bits <=> id - d \in accepted
          BY <5>1 DEF WindowInv, WindowExact
        <5>3. d # 0 /\ id - d # id
          BY <1>0, <2>0, <2>2, <4>3
        <5>4. QED BY <1>0, <3>1, <4>1, <5>2, <5>3
      <4>4. QED BY <1>0, <2>0, <4>2, <4>3
    <3>4. QED BY <1>0, <3>2, <3>3
  <2>3. CASE ~ FirstPacket(highest_id, window_bits) /\ id <= highest_id
    <3>1. highest_id' = highest_id /\ window_bits' = window_bits \union {highest_id - id}
      BY <1>0, <2>3 DEF Register, Raise
    <3>2. d = highest_id - id <=> highest_id - d = id
      BY <1>0, <2>0
    <3>3. d \in window_bits <=> highest_id - d \in accepted
      BY DEF WindowInv, WindowExact
    <3>4. QED BY <1>0, <3>1, <3>2, <3>3
  <2>4. QED BY <1>0, <2>1, <2>2, <2>3
<1>5. window_bits' \subseteq Bits
  <2>1. CASE FirstPacket(highest_id, window_bits)
    BY <1>0, <2>1 DEF Register, Bits
  <2>2. CASE ~ FirstPacket(highest_id, window_bits) /\ id > highest_id
    BY <1>0, <2>2 DEF Register, AdvanceBy, Bits
  <2>3. CASE ~ FirstPacket(highest_id, window_bits) /\ id <= highest_id
    <3>1. highest_id - id < WindowSize
      BY <1>0, <2>3 DEF CheckAccept, Admits
    <3>2. highest_id - id \in Bits
      BY <1>0, <2>3, <3>1 DEF Bits
    <3>3. window_bits' = window_bits \union {highest_id - id}
      BY <1>0, <2>3 DEF Register
    <3>4. QED BY <3>2, <3>3 DEF WindowInv, TypeOK
  <2>4. QED BY <1>0, <2>1, <2>2, <2>3
<1>6. accepted' \subseteq Ids /\ accepted' # {} /\ verdict' = "accept"
  BY <1>0 DEF CheckAccept, WindowInv, TypeOK, Ids
<1>7. QED
  BY <1>2, <1>3, <1>4, <1>5, <1>6 DEF WindowInv, TypeOK, WindowExact

LEMMA WindowInitEstablishes == Init => WindowInv
  BY WindowSizeAssumption, MaxIdAssumption
  DEF Init, WindowInv, TypeOK, WindowExact, Ids, Bits

LEMMA WindowStepPreserves == WindowInv /\ [Next]_vars => WindowInv'
<1> SUFFICES ASSUME WindowInv, [Next]_vars
             PROVE  WindowInv'
  OBVIOUS
<1>1. CASE \E id \in Ids : CheckAccept(id)
  BY <1>1, WindowAccept
<1>2. CASE \E id \in Ids : CheckReject(id)
  BY <1>2 DEF CheckReject, WindowInv, TypeOK, WindowExact
<1>3. CASE ykp_replay_reset
  BY <1>3, WindowSizeAssumption, MaxIdAssumption
  DEF ykp_replay_reset, WindowInv, TypeOK, WindowExact, Ids, Bits
<1>4. CASE UNCHANGED vars
  BY <1>4 DEF vars, WindowInv, TypeOK, WindowExact
<1>5. QED
  BY <1>1, <1>2, <1>3, <1>4 DEF Next, ykp_replay_check

\* Type correctness of the firmware's replay context.
THEOREM TypeCorrect == Spec => []TypeOK
<1>1. WindowInv => TypeOK
  BY DEF WindowInv
<1>2. QED BY WindowInitEstablishes, WindowStepPreserves, <1>1, PTL DEF Spec

\* The 64-bit mask always tells exactly which of the last WindowSize ids were
\* accepted (ykp_replay_check), for every window size.
THEOREM WindowIsExact == Spec => []WindowExact
<1>1. WindowInv => WindowExact
  BY DEF WindowInv
<1>2. QED BY WindowInitEstablishes, WindowStepPreserves, <1>1, PTL DEF Spec

\* The firmware's window implements the abstract replay protection: no id is
\* accepted twice in a session and none is refused without cause.
THEOREM WindowImplementsReplaySpec == Spec => ImplementsReplaySpec
<1>1. Init => Abstract!Init
  BY DEF Init, Abstract!Init
<1>2. WindowInv /\ [Next]_vars => [Abstract!Next]_(Abstract!vars)
  <2> SUFFICES ASSUME WindowInv, [Next]_vars
               PROVE  [Abstract!Next]_(Abstract!vars)
    OBVIOUS
  <2>1. ASSUME NEW id \in Ids, CheckAccept(id)
        PROVE  Abstract!Accept(id)
    BY <2>1, AdmitsIsFresh DEF CheckAccept, Abstract!Accept
  <2>2. ASSUME NEW id \in Ids, CheckReject(id)
        PROVE  Abstract!Reject(id)
    BY <2>2, AdmitsIsFresh DEF CheckReject, Abstract!Reject
  <2>3. ASSUME ykp_replay_reset
        PROVE  Abstract!Reset
    BY <2>3 DEF ykp_replay_reset, Abstract!Reset
  <2>4. CASE UNCHANGED vars
    BY <2>4 DEF vars, Abstract!vars
  <2>5. QED
    BY <2>1, <2>2, <2>3, <2>4
    DEF Next, ykp_replay_check, Abstract!Next, Abstract!Ids, Ids
<1>3. QED
  BY WindowInitEstablishes, WindowStepPreserves, <1>1, <1>2, PTL
  DEF Spec, ImplementsReplaySpec, Abstract!Spec

-----------------------------------------------------------------------------
(* The server's guard: its unbounded BigInt mask and its `initialised` flag *)

GuardInv == Guard!TypeOK /\ Guard!GuardExact

\* What the guard's tests mean for the history, once it holds some id.
LEMMA LateTestIsExact ==
    ASSUME GuardInv, initialised, NEW id \in Guard!Ids, id <= highestId
    PROVE  /\ (\A a \in guardAccepted : a - id < WindowSize) <=> highestId - id < WindowSize
           /\ highestId - id < WindowSize => (highestId - id \in windowBits <=> id \in guardAccepted)
<1> USE WindowSizeAssumption, MaxIdAssumption
<1>1. highestId \in guardAccepted /\ highestId \in Guard!Ids
      /\ \A a \in guardAccepted : a \in Guard!Ids /\ a <= highestId
  BY DEF GuardInv, Guard!TypeOK, Guard!GuardExact
<1>2. (\A a \in guardAccepted : a - id < WindowSize) <=> highestId - id < WindowSize
  BY <1>1 DEF Guard!Ids
<1>3. highestId - id \in Guard!Ids /\ highestId - (highestId - id) = id
  BY <1>1 DEF Guard!Ids
<1>4. highestId - id < WindowSize => (highestId - id \in windowBits <=> id \in guardAccepted)
  BY <1>3 DEF GuardInv, Guard!GuardExact
<1>5. QED BY <1>2, <1>4

\* The accepting branches of check admit fresh ids only.
LEMMA AcceptsOnlyFresh ==
    ASSUME GuardInv, NEW id \in Guard!Ids,
           Guard!CheckFirst(id) \/ Guard!CheckAdvance(id) \/ Guard!CheckLate(id)
    PROVE  Guard!Abstract!Fresh(guardAccepted, id)
<1> USE WindowSizeAssumption, MaxIdAssumption
<1>1. CASE Guard!CheckFirst(id)
  BY <1>1 DEF Guard!CheckFirst, Guard!Abstract!Fresh, GuardInv, Guard!GuardExact
<1>2. CASE Guard!CheckAdvance(id)
  <2>1. /\ id # 0 /\ id > highestId /\ highestId \in Guard!Ids
        /\ \A a \in guardAccepted : a \in Guard!Ids /\ a <= highestId
    BY <1>2 DEF Guard!CheckAdvance, GuardInv, Guard!TypeOK, Guard!GuardExact
  <2>2. QED BY <2>1 DEF Guard!Abstract!Fresh, Guard!Ids
<1>3. CASE Guard!CheckLate(id)
  BY <1>3, LateTestIsExact DEF Guard!CheckLate, Guard!Abstract!Fresh
<1>4. QED BY <1>1, <1>2, <1>3

\* The refusing branch refuses no fresh id.
LEMMA RejectsOnlyStale ==
    ASSUME GuardInv, NEW id \in Guard!Ids, Guard!CheckReject(id)
    PROVE  ~ Guard!Abstract!Fresh(guardAccepted, id)
<1>1. CASE id = 0
  BY <1>1 DEF Guard!Abstract!Fresh
<1>2. CASE initialised /\ id <= highestId
           /\ (highestId - id >= WindowSize \/ highestId - id \in windowBits)
  <2>1. highestId \in Guard!Ids
    BY DEF GuardInv, Guard!TypeOK
  <2>2. CASE highestId - id >= WindowSize
    <3>1. ~ (highestId - id < WindowSize)
      BY <2>1, <2>2, WindowSizeAssumption, MaxIdAssumption DEF Guard!Ids
    <3>2. QED BY <1>2, <3>1, LateTestIsExact DEF Guard!Abstract!Fresh
  <2>3. CASE highestId - id < WindowSize
    BY <1>2, <2>1, <2>3, LateTestIsExact, WindowSizeAssumption, MaxIdAssumption
    DEF Guard!Abstract!Fresh, Guard!Ids
  <2>4. QED BY <2>1, <2>2, <2>3, WindowSizeAssumption, MaxIdAssumption DEF Guard!Ids
<1>3. QED BY <1>1, <1>2 DEF Guard!CheckReject

LEMMA GuardFirst ==
    ASSUME GuardInv, NEW id \in Guard!Ids, Guard!CheckFirst(id)
    PROVE  GuardInv'
<1> USE WindowSizeAssumption, MaxIdAssumption
<1>1. /\ guardAccepted = {} /\ guardAccepted' = {id} /\ highestId' = id /\ windowBits' = {0}
      /\ initialised' /\ guardVerdict' = "accept" /\ id # 0
      /\ initialised' \in BOOLEAN
  BY DEF Guard!CheckFirst, Guard!Accepts, GuardInv, Guard!GuardExact
<1>2. Guard!TypeOK'
  BY <1>1 DEF Guard!TypeOK, Guard!Ids
<1>3. \A d \in Guard!Ids : d \in windowBits' <=> highestId' - d \in guardAccepted'
  BY <1>1 DEF Guard!Ids
<1>4. \A d \in windowBits' : highestId' - d \in guardAccepted'
  BY <1>1 DEF Guard!Ids
<1>5. QED BY <1>1, <1>2, <1>3, <1>4 DEF GuardInv, Guard!GuardExact, Guard!Ids

LEMMA GuardAdvance ==
    ASSUME GuardInv, NEW id \in Guard!Ids, Guard!CheckAdvance(id)
    PROVE  GuardInv'
<1> USE WindowSizeAssumption, MaxIdAssumption
<1> DEFINE n == id - highestId
<1>1. /\ highestId \in Nat /\ highestId <= MaxId /\ id \in Nat /\ id <= MaxId
      /\ n \in Nat /\ n > 0
      /\ id = highestId + n
  BY DEF Guard!CheckAdvance, GuardInv, Guard!TypeOK, Guard!Ids
<1>2. /\ guardAccepted' = guardAccepted \union {id} /\ highestId' = id
      /\ windowBits' = Guard!ShiftIn(windowBits, n)
      /\ initialised /\ initialised' = initialised /\ guardVerdict' = "accept"
  BY DEF Guard!CheckAdvance, Guard!Accepts
<1>3. \A a \in guardAccepted : a \in Nat /\ 0 < a /\ a <= highestId
  BY DEF GuardInv, Guard!TypeOK, Guard!GuardExact, Guard!Ids
<1>4. \A d \in windowBits : d \in Nat /\ highestId - d \in guardAccepted
  BY DEF GuardInv, Guard!TypeOK, Guard!GuardExact, Guard!Ids
<1> HIDE DEF n
<1>5. windowBits' \subseteq Guard!Ids
  BY <1>2 DEF Guard!ShiftIn, Guard!Ids
<1>6. ASSUME NEW d \in windowBits'
      PROVE  highestId' - d \in guardAccepted'
  <2>1. CASE n >= WindowSize
    <3>1. d = 0
      BY <1>2, <1>6, <2>1 DEF Guard!ShiftIn
    <3>2. QED BY <1>1, <1>2, <3>1
  <2>2. CASE ~(n >= WindowSize)
    <3>1. d \in Guard!Ids /\ (d = 0 \/ d - n \in windowBits)
      BY <1>2, <1>6, <2>2 DEF Guard!ShiftIn
    <3>2. CASE d = 0
      BY <1>1, <1>2, <3>2
    <3>3. CASE d - n \in windowBits
      <4>1. highestId - (d - n) \in guardAccepted
        BY <3>3, <1>4
      <4>2. highestId - (d - n) = id - d
        BY <1>1, <3>1 DEF Guard!Ids
      <4>3. QED BY <1>2, <4>1, <4>2
    <3>4. QED BY <3>1, <3>2, <3>3
  <2>3. QED BY <2>1, <2>2
<1>7. ASSUME NEW d \in Guard!Ids, d < WindowSize, highestId' - d \in guardAccepted'
      PROVE  d \in windowBits'
  <2>0. d \in Nat /\ (id - d = id \/ id - d \in guardAccepted)
    BY <1>2, <1>7 DEF Guard!Ids
  <2>1. CASE n >= WindowSize
    <3>1. id - d \notin guardAccepted
      BY <1>1, <1>3, <1>7, <2>0, <2>1
    <3>2. d = 0
      BY <1>1, <2>0, <3>1
    <3>3. QED BY <1>2, <2>1, <3>2 DEF Guard!ShiftIn
  <2>2. CASE ~(n >= WindowSize)
    <3>1. CASE id - d = id
      <4>1. d = 0
        BY <1>1, <2>0, <3>1
      <4>2. QED BY <1>2, <1>7, <2>2, <4>1 DEF Guard!ShiftIn
    <3>2. CASE id - d \in guardAccepted
      <4>1. d >= n
        BY <1>1, <1>3, <2>0, <3>2
      <4>2. d - n \in Guard!Ids /\ d - n < WindowSize /\ highestId - (d - n) = id - d
        BY <1>1, <1>7, <2>0, <4>1 DEF Guard!Ids
      <4>3. d - n \in windowBits
        BY <3>2, <4>2 DEF GuardInv, Guard!GuardExact
      <4>4. QED BY <1>2, <1>7, <2>2, <4>3 DEF Guard!ShiftIn
    <3>3. QED BY <2>0, <3>1, <3>2
  <2>3. QED BY <2>1, <2>2
<1>8. \A a \in guardAccepted' : 0 < a /\ a <= highestId'
  BY <1>1, <1>2, <1>3
<1>9. Guard!TypeOK'
  BY <1>1, <1>2, <1>5 DEF Guard!TypeOK, GuardInv, Guard!Ids
<1>10. QED
  BY <1>2, <1>6, <1>7, <1>8, <1>9 DEF GuardInv, Guard!GuardExact

LEMMA GuardLate ==
    ASSUME GuardInv, NEW id \in Guard!Ids, Guard!CheckLate(id)
    PROVE  GuardInv'
<1> USE WindowSizeAssumption, MaxIdAssumption
<1>1. /\ guardAccepted' = guardAccepted \union {id} /\ highestId' = highestId
      /\ windowBits' = windowBits \union {highestId - id}
      /\ initialised /\ initialised' = initialised /\ guardVerdict' = "accept"
      /\ id # 0 /\ id <= highestId
  BY DEF Guard!CheckLate, Guard!Accepts
<1>2. highestId \in Nat /\ highestId <= MaxId /\ id \in Nat /\ highestId - id \in Guard!Ids
  BY <1>1 DEF GuardInv, Guard!TypeOK, Guard!Ids
<1>3. Guard!TypeOK'
  BY <1>1, <1>2 DEF Guard!TypeOK, GuardInv
<1>4. \A d \in Guard!Ids : d < WindowSize => (d \in windowBits' <=> highestId' - d \in guardAccepted')
  <2> SUFFICES ASSUME NEW d \in Guard!Ids, d < WindowSize
               PROVE  d \in windowBits' <=> highestId' - d \in guardAccepted'
    OBVIOUS
  <2>1. d \in windowBits <=> highestId - d \in guardAccepted
    BY DEF GuardInv, Guard!GuardExact
  <2>2. d = highestId - id <=> highestId - d = id
    BY <1>2 DEF Guard!Ids
  <2>3. QED BY <1>1, <2>1, <2>2
<1>5. \A d \in windowBits' : highestId' - d \in guardAccepted'
  <2>1. highestId - (highestId - id) = id
    BY <1>2
  <2>2. QED BY <1>1, <2>1 DEF GuardInv, Guard!GuardExact
<1>6. \A a \in guardAccepted' : 0 < a /\ a <= highestId'
  BY <1>1, <1>2 DEF GuardInv, Guard!GuardExact
<1>7. QED
  BY <1>1, <1>3, <1>4, <1>5, <1>6 DEF GuardInv, Guard!GuardExact

\* A guard with an empty history, as constructed and as left by reset.
LEMMA EmptyGuardIsExact ==
    ASSUME highestId = 0, windowBits = {}, initialised = FALSE, guardAccepted = {},
           guardVerdict = "none"
    PROVE  GuardInv
<1>1. highestId \in Guard!Ids
  BY MaxIdAssumption DEF Guard!Ids
<1>2. Guard!TypeOK
  BY <1>1 DEF Guard!TypeOK
<1>3. Guard!GuardExact
  BY Zenon DEF Guard!GuardExact
<1>4. QED BY <1>2, <1>3 DEF GuardInv

LEMMA GuardInitEstablishes == Guard!Init => GuardInv
  BY EmptyGuardIsExact DEF Guard!Init

LEMMA GuardStepPreserves == GuardInv /\ [Guard!Next]_(Guard!vars) => GuardInv'
<1> SUFFICES ASSUME GuardInv, [Guard!Next]_(Guard!vars)
             PROVE  GuardInv'
  OBVIOUS
<1>1. CASE \E id \in Guard!Ids : Guard!CheckFirst(id)
  BY <1>1, GuardFirst
<1>2. CASE \E id \in Guard!Ids : Guard!CheckAdvance(id)
  BY <1>2, GuardAdvance
<1>3. CASE \E id \in Guard!Ids : Guard!CheckLate(id)
  BY <1>3, GuardLate
<1>4. CASE \E id \in Guard!Ids : Guard!CheckReject(id)
  BY <1>4 DEF Guard!CheckReject, GuardInv, Guard!TypeOK, Guard!GuardExact
<1>5. CASE Guard!reset
  <2>1. highestId' \in Guard!Ids
    BY <1>5, MaxIdAssumption DEF Guard!reset, Guard!Ids
  <2>2. Guard!TypeOK'
    BY <1>5, <2>1 DEF Guard!reset, Guard!TypeOK
  <2>3. Guard!GuardExact'
    BY <1>5, Zenon DEF Guard!reset, Guard!GuardExact
  <2>4. QED BY <2>2, <2>3 DEF GuardInv
<1>6. CASE UNCHANGED Guard!vars
  BY <1>6 DEF Guard!vars, GuardInv, Guard!TypeOK, Guard!GuardExact
<1>7. QED
  BY <1>1, <1>2, <1>3, <1>4, <1>5, <1>6 DEF Guard!Next, Guard!check

\* The BigInt mask is an exact record of the accepted ids inside the window and
\* never claims an id that was not accepted (ReplayGuard.check), for every
\* window size.
THEOREM GuardIsExact == Guard!Spec => []Guard!GuardExact
<1>1. GuardInv => Guard!GuardExact
  BY DEF GuardInv
<1>2. QED BY GuardInitEstablishes, GuardStepPreserves, <1>1, PTL DEF Guard!Spec

\* The server's guard implements the same abstract replay protection as the
\* firmware's window, so both ends agree on every stream of ids.
THEOREM GuardImplementsReplaySpec == Guard!Spec => Guard!ImplementsReplaySpec
<1>1. Guard!Init => Guard!Abstract!Init
  BY DEF Guard!Init, Guard!Abstract!Init
<1>2. GuardInv /\ [Guard!Next]_(Guard!vars) => [Guard!Abstract!Next]_(Guard!Abstract!vars)
  <2> SUFFICES ASSUME GuardInv, [Guard!Next]_(Guard!vars)
               PROVE  [Guard!Abstract!Next]_(Guard!Abstract!vars)
    OBVIOUS
  <2>1. ASSUME NEW id \in Guard!Ids, Guard!CheckFirst(id) \/ Guard!CheckAdvance(id) \/ Guard!CheckLate(id)
        PROVE  Guard!Abstract!Accept(id)
    <3>1. Guard!Abstract!Fresh(guardAccepted, id)
      BY <2>1, AcceptsOnlyFresh
    <3>2. guardAccepted' = guardAccepted \union {id} /\ guardVerdict' = "accept"
      BY <2>1 DEF Guard!CheckFirst, Guard!CheckAdvance, Guard!CheckLate, Guard!Accepts
    <3>3. QED BY <3>1, <3>2 DEF Guard!Abstract!Accept
  <2>2. ASSUME NEW id \in Guard!Ids, Guard!CheckReject(id)
        PROVE  Guard!Abstract!Reject(id)
    BY <2>2, RejectsOnlyStale DEF Guard!CheckReject, Guard!Abstract!Reject
  <2>3. ASSUME Guard!reset
        PROVE  Guard!Abstract!Reset
    BY <2>3 DEF Guard!reset, Guard!Abstract!Reset
  <2>4. CASE UNCHANGED Guard!vars
    BY <2>4 DEF Guard!vars, Guard!Abstract!vars
  <2>5. QED
    BY <2>1, <2>2, <2>3, <2>4 DEF Guard!Next, Guard!check, Guard!Abstract!Next, Guard!Abstract!Ids, Guard!Ids
<1>3. QED
  BY GuardInitEstablishes, GuardStepPreserves, <1>1, <1>2, PTL
  DEF Guard!Spec, Guard!ImplementsReplaySpec, Guard!Abstract!Spec

-----------------------------------------------------------------------------
(* Both on one stream.                                                     *)

SameHistory == accepted = guardAccepted

PairInv == WindowInv /\ GuardInv /\ SameHistory /\ SameVerdict

\* On the same history one id gets the same answer from both and enters both
\* histories or neither.
LEMMA CheckAgrees ==
    ASSUME PairInv, NEW id \in Ids, Check(id)
    PROVE  SameHistory' /\ SameVerdict'
<1>1. Admits(highest_id, window_bits, id) <=> Abstract!Fresh(accepted, id)
  BY AdmitsIsFresh DEF PairInv
<1>2. Abstract!Fresh(accepted, id) <=> Guard!Abstract!Fresh(guardAccepted, id)
  BY DEF PairInv, SameHistory, Abstract!Fresh, Guard!Abstract!Fresh
<1>3. id \in Guard!Ids
  BY DEF Ids, Guard!Ids
<1>4. Guard!CheckFirst(id) \/ Guard!CheckAdvance(id) \/ Guard!CheckLate(id) \/ Guard!CheckReject(id)
  BY DEF Check, Guard!check
<1>5. CASE Guard!CheckFirst(id) \/ Guard!CheckAdvance(id) \/ Guard!CheckLate(id)
  <2>1. Guard!Abstract!Fresh(guardAccepted, id)
    BY <1>3, <1>5, AcceptsOnlyFresh DEF PairInv
  <2>2. CheckAccept(id)
    BY <1>1, <1>2, <2>1 DEF Check, ykp_replay_check, CheckReject
  <2>3. guardAccepted' = guardAccepted \union {id} /\ guardVerdict' = "accept"
    BY <1>5 DEF Guard!CheckFirst, Guard!CheckAdvance, Guard!CheckLate, Guard!Accepts
  <2>4. QED BY <2>2, <2>3 DEF CheckAccept, PairInv, SameHistory, SameVerdict
<1>6. CASE Guard!CheckReject(id)
  <2>1. ~ Guard!Abstract!Fresh(guardAccepted, id)
    BY <1>3, <1>6, RejectsOnlyStale DEF PairInv
  <2>2. CheckReject(id)
    BY <1>1, <1>2, <2>1 DEF Check, ykp_replay_check, CheckAccept
  <2>3. QED BY <2>2, <1>6 DEF CheckReject, Guard!CheckReject, PairInv, SameHistory, SameVerdict
<1>7. QED BY <1>4, <1>5, <1>6

LEMMA PairStepPreserves == PairInv /\ [PairNext]_pairVars => PairInv'
<1> SUFFICES ASSUME PairInv, [PairNext]_pairVars
             PROVE  PairInv'
  OBVIOUS
<1>1. [Next]_vars
  BY DEF PairNext, pairVars, Check, NewSession, Next
<1>2. [Guard!Next]_(Guard!vars)
  BY DEF PairNext, pairVars, Check, NewSession, Guard!Next, Guard!Ids, Ids
<1>3. WindowInv' /\ GuardInv'
  BY <1>1, <1>2, WindowStepPreserves, GuardStepPreserves DEF PairInv
<1>4. SameHistory' /\ SameVerdict'
  <2>1. CASE \E id \in Ids : Check(id)
    BY <2>1, CheckAgrees
  <2>2. CASE NewSession
    BY <2>2 DEF NewSession, ykp_replay_reset, Guard!reset, SameHistory, SameVerdict
  <2>3. CASE UNCHANGED pairVars
    BY <2>3 DEF pairVars, vars, Guard!vars, PairInv, SameHistory, SameVerdict
  <2>4. QED BY <2>1, <2>2, <2>3 DEF PairNext
<1>5. QED BY <1>3, <1>4 DEF PairInv

LEMMA PairInitEstablishes == PairInit => PairInv
<1> SUFFICES ASSUME PairInit PROVE PairInv
  OBVIOUS
<1>1. WindowInv
  BY WindowInitEstablishes DEF PairInit
<1>2. GuardInv
  BY GuardInitEstablishes DEF PairInit
<1>3. SameHistory /\ SameVerdict
  BY DEF PairInit, Init, Guard!Init, SameHistory, SameVerdict
<1>4. QED BY <1>1, <1>2, <1>3 DEF PairInv

\* ykp_replay_check and ReplayGuard.check answer every stream of ids and
\* resets alike, for every window size and id range.
THEOREM VerdictsAgree == PairSpec => []SameVerdict
<1>1. PairInv => SameVerdict
  BY DEF PairInv
<1>2. QED BY <1>1, PairInitEstablishes, PairStepPreserves, PTL DEF PairSpec

\* Beside the device's window the server's BigInt mask stays an exact record of
\* what ReplayGuard.check accepted, for every window size and id range.
THEOREM GuardExactBesideWindow == PairSpec => []GuardExact
<1>1. PairInv => GuardExact
  BY DEF PairInv, GuardInv, GuardExact
<1>2. QED BY <1>1, PairInitEstablishes, PairStepPreserves, PTL DEF PairSpec
=============================================================================
