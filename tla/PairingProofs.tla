---------------------------- MODULE PairingProofs ----------------------------
(***************************************************************************)
(* Theorems about pairing, for all starters, sync words, windows and       *)
(* faults that satisfy the assumptions of Pairing.                         *)
(***************************************************************************)
EXTENDS Pairing, TLAPS

-----------------------------------------------------------------------------
(* Types.                                                                  *)

\* The bytes of a sync word are bytes.
LEMMA SyncWordBytes == \A s \in Starters : SyncWord[s] \in Byte \X Byte
<1> SUFFICES ASSUME NEW s \in Starters PROVE SyncWord[s] \in Byte \X Byte
  OBVIOUS
<1>1. SyncWord[s][1] \in Byte /\ SyncWord[s][2] \in Byte
  BY DEF Byte
<1>2. SyncWord[s] = <<SyncWord[s][1], SyncWord[s][2]>>
  BY StarterAssumption
<1>3. QED
  BY <1>1, <1>2

\* A counter that stops at its bound stays in range.
LEMMA UpToRange ==
  ASSUME NEW bnd \in Nat, NEW n \in 0..bnd
  PROVE  UpTo(n + 1, bnd) \in 0..bnd
BY DEF UpTo

\* What is loaded from EEPROM is a pair of bytes, and so are the constants.
LEMMA LoadType ==
  ASSUME TypeOK, NEW old \in Byte \X Byte
  PROVE  loadOperSyncWord(old) \in Byte \X Byte
BY DEF TypeOK, loadOperSyncWord

LEMMA ConstantTypes ==
  /\ DefaultSync \in Byte \X Byte /\ PairChannel \in Byte \X Byte /\ FF \in Byte
  /\ AllEnabled \in [Keys -> BOOLEAN]
BY DEF DefaultSync, PairChannel, Byte, AllEnabled

LEMMA LoadAndGoType ==
  ASSUME TypeOK, LoadAndGoOperational
  PROVE  /\ chan' \in Byte \X Byte /\ gSync' \in Byte \X Byte
         /\ tx' \in {"NONE", "REQ", "DONE", "CMD", "PING"}
<1>1. gSync \in Byte \X Byte
  BY DEF TypeOK
<1>2. gSync' \in Byte \X Byte
  BY <1>1, LoadType DEF LoadAndGoOperational
<1>3. QED
  BY <1>2 DEF LoadAndGoOperational

\* A command, or its end, leaves a flag for every key.
LEMMA CommandTypes ==
  ASSUME TypeOK, NEW enabled \in [Keys -> BOOLEAN], StartCommand(enabled) \/ EndCommand
  PROVE  buttonEn' \in [Keys -> BOOLEAN] /\ tries' \in 0..MAX_RETRY /\ msgTxd' \in BOOLEAN
<1>1. 0 \in 0..MAX_RETRY
  BY BoundAssumption
<1>2. QED
  BY <1>1 DEF TypeOK, StartCommand, EndCommand, AllEnabled

LEMMA TypeInit == Init => TypeOK
<1> SUFFICES ASSUME Init PROVE TypeOK
  OBVIOUS
<1>1. /\ 0 \in 0..MaxBoots /\ 0 \in 0..DONE_RETRIES /\ 0 \in 0..BEACON_INTERVAL
      /\ 0 \in 0..(DONE_WAIT + DONE_RETRY) /\ 0 \in 0..SCAN_TIMEOUT /\ 0 \in 0..MAX_RETRY
  BY BoundAssumption
<1>2. buttonEn \in [Keys -> BOOLEAN]
  BY DEF Init, AllEnabled
<1>3. msb \in Byte /\ lsb \in Byte
  BY ConstantTypes DEF Init, Byte
<1>4. bound \in [Starters -> BOOLEAN]
  BY DEF Init
<1>5. QED
  BY <1>1, <1>2, <1>3, <1>4, ConstantTypes DEF Init, TypeOK, Stages, PairState

\* Power comes and goes.
LEMMA TypePower ==
  ASSUME TypeOK, PowerOff \/ \E combo \in BOOLEAN : PowerOn(combo)
  PROVE  TypeOK'
<1>1. CASE PowerOff
  <2>1. /\ peer' \in Starters \cup {"NONE", "TORN"} /\ msb' \in Byte /\ lsb' \in Byte
        /\ sentinel' \in BOOLEAN
    BY <1>1, ConstantTypes DEF PowerOff, TornWrite, TypeOK, eeprom
  <2>2. QED
    BY <1>1, <2>1
    DEF PowerOff, TypeOK, Stages, PairState, timers, cached, shots, radio, link, air
<1>2. CASE \E combo \in BOOLEAN : PowerOn(combo)
  <2>1. PICK combo \in BOOLEAN : PowerOn(combo)
    BY <1>2
  <2>2. gSync' \in Byte \X Byte
    BY <2>1, LoadType, ConstantTypes DEF PowerOn
  <2>3. chan' \in Byte \X Byte
    BY <2>1, <2>2, ConstantTypes DEF PowerOn
  <2>4. buttonEn' \in [Keys -> BOOLEAN]
    BY <2>1 DEF PowerOn, AllEnabled
  <2>5. boots' \in 0..MaxBoots
    BY <2>1, BoundAssumption DEF PowerOn, TypeOK
  <2>6. /\ beaconAge' \in 0..BEACON_INTERVAL /\ doneAge' \in 0..(DONE_WAIT + DONE_RETRY)
        /\ scanAge' \in 0..SCAN_TIMEOUT /\ tries' \in 0..MAX_RETRY
        /\ doneRetries' \in 0..DONE_RETRIES
    BY <2>1, BoundAssumption DEF PowerOn
  <2>7. QED
    BY <2>1, <2>2, <2>3, <2>4, <2>5, <2>6
    DEF PowerOn, TypeOK, Stages, PairState, eeprom
<1>3. QED
  BY <1>1, <1>2

\* The stages button, radio and rest, and the air.
LEMMA TypeQuiet ==
  ASSUME TypeOK, NoPress \/ Listen \/ AckPass \/ Transmit \/ HearConfirm
  PROVE  TypeOK'
BY DEF TypeOK, Stages, PairState, Frame, NoFrame, NoPress, Listen, AckPass, Transmit,
       HearConfirm, Receives, power, machine, timers, cached, shots, radio, link, eeprom, air

\* A command starts.
LEMMA TypeCommand ==
  ASSUME TypeOK, (\E key \in Keys : Press(key)) \/ SleepAndWake \/ OneShots
  PROVE  TypeOK'
<1>1. 0 \in 0..MAX_RETRY
  BY BoundAssumption
<1>2. CASE \E key \in Keys : Press(key)
  <2>1. StartCommand(buttonEn) /\ buttonEn \in [Keys -> BOOLEAN]
    BY <1>2 DEF Press, TypeOK
  <2>2. buttonEn' \in [Keys -> BOOLEAN] /\ tries' \in 0..MAX_RETRY /\ msgTxd' \in BOOLEAN
    BY <2>1, CommandTypes
  <2>3. tx' \in {"NONE", "REQ", "DONE", "CMD", "PING"}
    BY <2>1 DEF StartCommand
  <2>4. QED
    BY <1>2, <2>2, <2>3
    DEF Press, TypeOK, Stages, power, machine, timers, cached, shots, eeprom, air
<1>3. CASE SleepAndWake
  <2>1. gSync' \in Byte \X Byte
    BY <1>3, LoadType DEF SleepAndWake, TypeOK
  <2>2. StartCommand(AllEnabled)
    BY <1>3 DEF SleepAndWake
  <2>3. buttonEn' \in [Keys -> BOOLEAN] /\ tries' \in 0..MAX_RETRY /\ msgTxd' \in BOOLEAN
    BY <2>2, CommandTypes, ConstantTypes
  <2>4. tx' \in {"NONE", "REQ", "DONE", "CMD", "PING"}
    BY <2>2 DEF StartCommand
  <2>5. QED
    BY <1>3, <2>1, <2>3, <2>4
    DEF SleepAndWake, TypeOK, Stages, power, machine, timers, cached, shots, eeprom, air
<1>4. CASE OneShots
  <2>1. /\ buttonEn' \in [Keys -> BOOLEAN] /\ tries' \in 0..MAX_RETRY
        /\ msgTxd' \in BOOLEAN /\ confirmStatus' \in BOOLEAN
    BY <1>4, CommandTypes DEF OneShots, TypeOK, link
  <2>2. tx' \in {"NONE", "REQ", "DONE", "CMD", "PING"}
    BY <1>4 DEF OneShots, StartCommand, TypeOK
  <2>3. /\ pc' = "pair" /\ bootPrime' \in BOOLEAN
        /\ UNCHANGED <<power, machine, timers, cached, chan, gSync, eeprom, air>>
    BY <1>4 DEF OneShots
  <2>4. QED
    BY <2>1, <2>2, <2>3
    DEF TypeOK, Stages, power, machine, timers, cached, eeprom, air
<1>5. QED
  BY <1>2, <1>3, <1>4

\* A frame of the pairing or an answer is received.
LEMMA TypeReception ==
  ASSUME TypeOK, HearAck \/ HearRsp
  PROVE  TypeOK'
<1>1. CASE HearAck
  <2>1. downlink.kind = "ACK"
    BY <1>1 DEF HearAck, Receives
  <2>2. downlink.from \in Starters
    BY <2>1 DEF TypeOK, Frame, NoFrame
  <2>3. gSync' \in Byte \X Byte /\ staged' \in Starters \cup {"NONE"}
    BY <1>1, <2>2, SyncWordBytes DEF HearAck, TypeOK
  <2>4. donePending' \in BOOLEAN /\ pairState' \in PairState
    BY <1>1 DEF HearAck, TypeOK, PairState
  <2>5. downlink' \in Frame \cup {NoFrame}
    BY <1>1 DEF HearAck, Receives
  <2>6. QED
    BY <1>1, <2>3, <2>4, <2>5
    DEF HearAck, TypeOK, Stages, power, timers, cached, shots, link, eeprom
<1>2. CASE HearRsp
  <2>1. buttonEn' \in [Keys -> BOOLEAN] /\ tries' \in 0..MAX_RETRY /\ msgTxd' \in BOOLEAN
    BY <1>2, CommandTypes, ConstantTypes DEF HearRsp
  <2>2. QED
    BY <1>2, <2>1
    DEF HearRsp, TypeOK, Stages, power, machine, timers, cached, shots, radio, eeprom, air
<1>3. QED
  BY <1>1, <1>2

\* The commit.
LEMMA TypeCommit ==
  ASSUME TypeOK, SavePeer \/ SaveMsb \/ SaveLsb \/ Join
  PROVE  TypeOK'
<1>1. CASE SavePeer
  BY <1>1
  DEF SavePeer, TypeOK, Stages, PairState, power, machine, timers, cached, shots, radio,
      link, air
<1>2. CASE SaveMsb \/ SaveLsb
  BY <1>2
  DEF SaveMsb, SaveLsb, TypeOK, Stages, PairState, power, machine, timers, cached, shots,
      radio, link, air
<1>3. CASE Join
  <2>1. /\ chan' \in Byte \X Byte /\ gSync' \in Byte \X Byte
        /\ tx' \in {"NONE", "REQ", "DONE", "CMD", "PING"}
    BY <1>3, LoadAndGoType DEF Join
  <2>2. UNCHANGED <<boots, bootRepair, staged, donePending, doneRetries, timers,
                    bootPrime, msgTxd, tries, peer, msb, lsb, air>>
    BY <1>3 DEF Join
  <2>3. /\ pc' \in Stages /\ sentinel' \in BOOLEAN /\ torn' \in BOOLEAN
        /\ peerCached' \in {-1, 0, 1} /\ initDone' \in BOOLEAN
        /\ confirmStatus' \in BOOLEAN /\ pairState' \in PairState
    BY <1>3 DEF Join, Stages, PairState
  <2>4. buttonEn' \in [Keys -> BOOLEAN]
    BY <1>3, ConstantTypes DEF Join
  <2>5. QED
    BY <2>1, <2>2, <2>3, <2>4 DEF TypeOK, timers, air
<1>4. QED
  BY <1>1, <1>2, <1>3

\* Retries, give-ups and resets of the radio.
LEMMA TypeLink ==
  ASSUME TypeOK, RadioWatchdog \/ Resend \/ GiveUp
  PROVE  TypeOK'
<1>1. CASE RadioWatchdog
  BY <1>1, LoadAndGoType
  DEF RadioWatchdog, TypeOK, Stages, power, machine, timers, cached, shots, link, eeprom, air
<1>2. CASE Resend
  BY <1>2, BoundAssumption
  DEF Resend, TypeOK, Stages, power, machine, timers, cached, shots, eeprom, air
<1>3. CASE GiveUp
  <2>1. buttonEn' \in [Keys -> BOOLEAN] /\ tries' \in 0..MAX_RETRY /\ msgTxd' \in BOOLEAN
    BY <1>3, CommandTypes, ConstantTypes DEF GiveUp
  <2>2. QED
    BY <1>3, <2>1, LoadAndGoType
    DEF GiveUp, TypeOK, Stages, power, machine, timers, cached, shots, eeprom, air
<1>4. QED
  BY <1>1, <1>2, <1>3

\* The switch of pairRemNodeTick().
LEMMA TypePair ==
  ASSUME TypeOK,
         Idle \/ ScanTimeout \/ Beacon \/ WaitTxDone \/ RetryDone \/ ConfirmTimeout
  PROVE  TypeOK'
<1>1. /\ 0 \in 0..DONE_RETRIES /\ 0 \in 0..BEACON_INTERVAL /\ 0 \in 0..SCAN_TIMEOUT
      /\ 0 \in 0..(DONE_WAIT + DONE_RETRY) /\ BEACON_INTERVAL \in 0..BEACON_INTERVAL
  BY BoundAssumption
<1>2. CASE Idle
  <2>1. /\ pairState' \in PairState /\ donePending' \in BOOLEAN
        /\ beaconAge' \in 0..BEACON_INTERVAL /\ scanAge' \in 0..SCAN_TIMEOUT
    BY <1>1, <1>2 DEF Idle, enterRemNodePairMode, TypeOK, PairState
  <2>2. /\ chan' \in Byte \X Byte /\ gSync' \in Byte \X Byte
        /\ tx' \in {"NONE", "REQ", "DONE", "CMD", "PING"}
    BY <1>2, ConstantTypes DEF Idle, enterRemNodePairMode, switchToPairChannel, TypeOK, radio
  <2>3. /\ peerCached' \in {-1, 0, 1} /\ initDone' \in BOOLEAN /\ bootPrime' \in BOOLEAN
        /\ buttonEn' \in [Keys -> BOOLEAN]
    BY <1>2, ConstantTypes DEF Idle, TypeOK
  <2>4. QED
    BY <1>2, <2>1, <2>2, <2>3 DEF Idle, TypeOK, Stages, power, eeprom, air
<1>3. CASE ScanTimeout \/ ConfirmTimeout
  <2>1. pairRemNodeRevert /\ pc' = "rest" /\ UNCHANGED <<power, shots, msgTxd, tries, eeprom, air>>
    BY <1>3 DEF ScanTimeout, ConfirmTimeout
  <2>2. QED
    BY <2>1, LoadAndGoType, ConstantTypes
    DEF pairRemNodeRevert, TypeOK, Stages, PairState, power, timers, shots, eeprom, air
<1>4. CASE Beacon
  BY <1>1, <1>4
  DEF Beacon, TypeOK, Stages, PairState, power, machine, cached, shots, link, eeprom, air
<1>5. CASE WaitTxDone
  <2>1. /\ pairState' \in PairState /\ donePending' \in BOOLEAN
        /\ doneRetries' \in 0..DONE_RETRIES /\ doneAge' \in 0..(DONE_WAIT + DONE_RETRY)
        /\ tx' \in {"NONE", "REQ", "DONE", "CMD", "PING"}
    BY <1>1, <1>5 DEF WaitTxDone, TypeOK, PairState
  <2>2. QED
    BY <1>5, <2>1 DEF WaitTxDone, TypeOK, Stages, power, cached, shots, link, eeprom, air
<1>6. CASE RetryDone
  <2>1. doneRetries' \in 0..DONE_RETRIES
    BY <1>6, BoundAssumption DEF RetryDone, RetriesLeft, TypeOK
  <2>2. QED
    BY <1>1, <1>6, <2>1
    DEF RetryDone, TypeOK, Stages, PairState, power, cached, shots, link, eeprom, air
<1>7. QED
  BY <1>2, <1>3, <1>4, <1>5, <1>6

LEMMA TypeRest ==
  ASSUME TypeOK, Rest
  PROVE  TypeOK'
<1>1. BEACON_INTERVAL \in Nat /\ DONE_WAIT + DONE_RETRY \in Nat /\ SCAN_TIMEOUT \in Nat
  BY BoundAssumption
<1>2. /\ beaconAge' \in 0..BEACON_INTERVAL /\ doneAge' \in 0..(DONE_WAIT + DONE_RETRY)
      /\ scanAge' \in 0..SCAN_TIMEOUT
  BY <1>1, UpToRange DEF Rest, TypeOK
<1>3. QED
  BY <1>2
  DEF Rest, TypeOK, Stages, power, machine, cached, shots, radio, link, eeprom, air

LEMMA TypeAir ==
  ASSUME TypeOK, Starter \/ \E f \in Frame : ForeignFrame(f)
  PROVE  TypeOK'
<1>1. CASE Starter
  <2>1. PICK s \in Starters : StarterAcks(s) \/ StarterConfirms(s)
    BY <1>1 DEF Starter
  <2>2. downlink' \in Frame \cup {NoFrame}
    BY <2>1 DEF StarterAcks, StarterConfirms, Frame
  <2>3. bound' \in [Starters -> BOOLEAN]
    BY <2>1 DEF StarterAcks, StarterConfirms, TypeOK
  <2>4. /\ uplink' = "NONE"
        /\ UNCHANGED <<pc, power, machine, timers, cached, shots, radio, link, eeprom>>
    BY <2>1 DEF StarterAcks, StarterConfirms
  <2>5. QED
    BY <2>2, <2>3, <2>4
    DEF TypeOK, power, machine, timers, cached, shots, radio, link, eeprom
<1>2. CASE \E f \in Frame : ForeignFrame(f)
  BY <1>2
  DEF ForeignFrame, TypeOK, power, machine, timers, cached, shots, radio, link, eeprom
<1>3. QED
  BY <1>1, <1>2

LEMMA TypeStep == TypeOK /\ [Next]_vars => TypeOK'
<1> SUFFICES ASSUME TypeOK, [Next]_vars PROVE TypeOK'
  OBVIOUS
<1>1. CASE UNCHANGED vars
  BY <1>1
  DEF TypeOK, vars, power, machine, timers, cached, shots, radio, link, eeprom, air
<1>2. CASE Next
  <2>1. CASE Loop
    BY <2>1, TypeQuiet, TypeCommand, TypeCommit, TypeLink, TypePair, TypeRest DEF Loop
  <2>2. CASE Reception
    BY <2>2, TypeQuiet, TypeReception DEF Reception
  <2>3. CASE User
    BY <2>3, TypeCommand, TypePower DEF User
  <2>4. CASE PowerOff
    BY <2>4, TypePower
  <2>5. CASE RadioWatchdog
    BY <2>5, TypeLink
  <2>6. CASE Starter \/ \E f \in Frame : ForeignFrame(f)
    BY <2>6, TypeAir
  <2>7. QED
    BY <1>2, <2>1, <2>2, <2>3, <2>4, <2>5, <2>6 DEF Next
<1>3. QED
  BY <1>1, <1>2

\* The variables keep their types, and the retry and time counters their bounds.
THEOREM TypeCorrect == Spec => []TypeOK
BY TypeInit, TypeStep, PTL DEF Spec

-----------------------------------------------------------------------------
(* The records and the channel.                                            *)
(*                                                                         *)
(* That the stored sync word is the peer's rests on the handshake: a       *)
(* confirmation is only heard on the pairing channel, and whatever loads   *)
(* another word into g_operSync* in the meantime tunes the radio away from *)
(* that channel for good.  That a paired remote is on its channel rests in *)
(* turn on the records.  IInv says both at once.                           *)

Waiting == {"WAIT_TX_DONE", "WAIT_CONFIRM"}

\* Every starter sends its sync word, and no two of them make up the pairing channel
\* from a byte each, as a commit that is cut short may.
SeparateWords ==
  /\ Legacy = {}
  /\ \A s, t \in Starters : <<SyncWord[s][1], SyncWord[t][2]>> # PairChannel

\* No word that can be loaded is the pairing channel.
Words ==
  /\ msb \in {FF} \cup {SyncWord[s][1] : s \in Starters}
  /\ lsb \in {FF} \cup {SyncWord[s][2] : s \in Starters}
  /\ gSync # PairChannel

\* A remote on the pairing channel holds the word of the starter it has staged, and
\* a commit has written the records up to where it is.
Handshake ==
  /\ pairState \in Waiting =>
       /\ staged \in Starters
       /\ chan = PairChannel => gSync = SyncWord[staged]
  /\ pc \in Saving => pairState \in Waiting /\ chan = PairChannel
  /\ pc \in {"saveMsb", "saveLsb", "join"} => peer = staged
  /\ pc \in {"saveLsb", "join"} => msb = gSync[1]
  /\ pc = "join" => lsb = gSync[2]

Records == (peer = "TORN" => torn) /\ StoredSyncIsPeers

\* What the program remembers of having a peer is so.
Cache ==
  pc # "off" =>
    /\ peerCached = 0 => pairState = "IDLE" /\ peer = "NONE"
    /\ peerCached = 1 => peer # "NONE"
    /\ pairState = "IDLE" /\ peer # "NONE" => initDone

IInv == TypeOK /\ Words /\ Handshake /\ Records /\ Cache /\ PairedIsOperational

\* A consistent record names the two bytes that are stored, and neither is erased.
LEMMA StoredWord ==
  ASSUME TypeOK, Records, peer # "NONE", ~torn, pc \notin Saving
  PROVE  /\ peer \in Starters /\ <<msb, lsb>> = SyncWord[peer]
         /\ msb # FF /\ lsb # FF
<1>1. peer \in Starters
  BY DEF TypeOK, Records
<1>2. <<msb, lsb>> = SyncWord[peer]
  BY <1>1 DEF Records, StoredSyncIsPeers
<1>3. SyncWord[peer][1] # FF /\ SyncWord[peer][2] # FF
  BY <1>1, StarterAssumption
<1>4. QED
  BY <1>1, <1>2, <1>3

\* What is loaded is never the pairing channel, and is what is stored if that is whole.
LEMMA Loaded ==
  ASSUME SeparateWords, Words, NEW old, old # PairChannel
  PROVE  /\ loadOperSyncWord(old) # PairChannel
         /\ msb # FF /\ lsb # FF => loadOperSyncWord(old) = <<msb, lsb>>
<1>1. CASE FF \in {msb, lsb}
  BY <1>1 DEF loadOperSyncWord
<1>2. CASE msb # FF /\ lsb # FF
  <2>1. PICK s \in Starters, t \in Starters : msb = SyncWord[s][1] /\ lsb = SyncWord[t][2]
    BY <1>2 DEF Words
  <2>2. <<msb, lsb>> # PairChannel
    BY <2>1 DEF SeparateWords
  <2>3. QED
    BY <1>2, <2>2 DEF loadOperSyncWord
<1>3. QED
  BY <1>1, <1>2

\* Going operational leaves the pairing channel, for the stored one if it is whole.
LEMMA GoneOperational ==
  ASSUME SeparateWords, IInv, pc \notin Saving, LoadAndGoOperational
  PROVE  /\ gSync' # PairChannel /\ chan' # PairChannel
         /\ peer # "NONE" /\ ~torn => chan' = <<msb, lsb>>
<1>1. /\ gSync' = loadOperSyncWord(gSync) /\ chan' = gSync'
      /\ gSync # PairChannel /\ Words
  BY DEF LoadAndGoOperational, IInv, Words
<1>2. /\ gSync' # PairChannel
      /\ msb # FF /\ lsb # FF => gSync' = <<msb, lsb>>
  BY <1>1, Loaded
<1>3. peer # "NONE" /\ ~torn => msb # FF /\ lsb # FF
  BY StoredWord DEF IInv
<1>4. QED
  BY <1>1, <1>2, <1>3

LEMMA InvInit == Init => IInv
<1> SUFFICES ASSUME Init PROVE IInv
  OBVIOUS
<1>1. TypeOK
  BY TypeInit
<1>2. /\ pc = "off" /\ pairState = "IDLE" /\ gSync = DefaultSync
  BY DEF Init
<1>3. Handshake /\ Cache /\ PairedIsOperational
  BY <1>2 DEF Handshake, Cache, PairedIsOperational, Waiting, Saving
<1>4. CASE peer = "NONE" /\ msb = FF /\ lsb = FF
  <2>1. Words
    BY <1>2, <1>4 DEF Words, DefaultSync, PairChannel
  <2>2. Records
    BY <1>4, StarterAssumption DEF Records, StoredSyncIsPeers
  <2>3. QED
    BY <1>1, <1>3, <2>1, <2>2 DEF IInv
<1>5. CASE peer \in Starters /\ msb = SyncWord[peer][1] /\ lsb = SyncWord[peer][2]
  <2>1. Words
    BY <1>2, <1>5 DEF Words, DefaultSync, PairChannel
  <2>2. Records
    BY <1>5, StarterAssumption DEF Records, StoredSyncIsPeers
  <2>3. QED
    BY <1>1, <1>3, <2>1, <2>2 DEF IInv
<1>6. QED
  BY <1>4, <1>5 DEF Init

\* A step that touches neither the records nor the channel, outside a commit or
\* leaving it where it is.
LEMMA InvQuiet ==
  ASSUME IInv, TypeOK',
         UNCHANGED <<torn, pairState, staged, peerCached, initDone, chan, gSync,
                     peer, msb, lsb>>,
         buttonEn["M1_OFF"] => buttonEn'["M1_OFF"],
         \/ pc' = pc
         \/ pc \notin Saving \cup {"off"} /\ pc' \notin Saving \cup {"off"}
  PROVE  IInv'
<1>1. Words'
  BY DEF IInv, Words
<1>2. Handshake'
  BY DEF IInv, Handshake, Saving
<1>3. Records'
  BY DEF IInv, Records, StoredSyncIsPeers
<1>4. Cache'
  BY DEF IInv, Cache
<1>5. PairedIsOperational'
  BY DEF IInv, PairedIsOperational
<1>6. QED
  BY <1>1, <1>2, <1>3, <1>4, <1>5 DEF IInv

\* Keys, frames and retries that leave the pairing alone.
LEMMA InvLink ==
  ASSUME IInv, TypeOK',
         \/ NoPress \/ (\E key \in Keys : Press(key)) \/ Transmit \/ Listen \/ HearRsp
         \/ AckPass \/ Resend \/ OneShots \/ Beacon \/ RetryDone \/ Rest
  PROVE  IInv'
<1>1. UNCHANGED <<torn, pairState, staged, peerCached, initDone, chan, gSync, peer, msb, lsb>>
  BY DEF NoPress, Press, Transmit, Listen, HearRsp, AckPass, Resend, OneShots, Beacon,
         RetryDone, Rest, StartCommand, EndCommand, power, machine, cached, radio, eeprom
<1>2. pc \notin Saving \cup {"off"} /\ pc' \notin Saving \cup {"off"}
  BY DEF NoPress, Press, Transmit, Listen, HearRsp, AckPass, Resend, OneShots, Beacon,
         RetryDone, Rest, Saving
<1>3. buttonEn["M1_OFF"] => buttonEn'["M1_OFF"]
  <2>1. \/ UNCHANGED link \/ StartCommand(buttonEn) \/ EndCommand
        \/ buttonEn' = buttonEn
    BY DEF NoPress, Press, Transmit, Listen, HearRsp, AckPass, Resend, OneShots, Beacon,
           RetryDone, Rest
  <2>2. buttonEn \in [Keys -> BOOLEAN] /\ "M1_OFF" \in Keys
    BY DEF IInv, TypeOK, Keys
  <2>3. QED
    BY <2>1, <2>2 DEF link, StartCommand, EndCommand, AllEnabled
<1>4. QED
  BY <1>1, <1>2, <1>3, InvQuiet

LEMMA InvAir ==
  ASSUME IInv, TypeOK', Starter \/ (\E f \in Frame : ForeignFrame(f)) \/ UNCHANGED vars
  PROVE  IInv'
<1>1. /\ UNCHANGED <<torn, pairState, staged, peerCached, initDone, chan, gSync, peer, msb, lsb>>
      /\ pc' = pc /\ buttonEn' = buttonEn
  BY DEF Starter, StarterAcks, StarterConfirms, ForeignFrame, vars, power, machine, cached,
         radio, link, eeprom
<1>2. QED
  BY <1>1, InvQuiet

\* Power fails only in Saving with a torn record, and comes back on the right channel.
LEMMA InvPower ==
  ASSUME SeparateWords, IInv, TypeOK',
         PowerOff \/ \E combo \in BOOLEAN : PowerOn(combo)
  PROVE  IInv'
<1>1. CASE PowerOff
  <2>1. /\ pc' = "off" /\ pairState' = "IDLE" /\ UNCHANGED <<gSync, sentinel>>
        /\ torn' = (torn \/ pc \in Saving)
        /\ peer' \in {peer, "NONE", "TORN"} /\ msb' \in {msb, FF} /\ lsb' \in {lsb, FF}
        /\ pc \notin Saving => UNCHANGED <<peer, msb, lsb>>
    BY <1>1 DEF PowerOff, TornWrite, Saving, eeprom, radio
  <2>2. Words'
    BY <2>1 DEF IInv, Words
  <2>3. Handshake' /\ Cache' /\ PairedIsOperational'
    BY <2>1 DEF Handshake, Cache, PairedIsOperational, Waiting, Saving
  <2>4. Records'
    BY <2>1 DEF IInv, Records, StoredSyncIsPeers
  <2>5. QED
    BY <2>2, <2>3, <2>4 DEF IInv
<1>2. CASE \E combo \in BOOLEAN : PowerOn(combo)
  <2>1. PICK combo \in BOOLEAN : PowerOn(combo)
    BY <1>2
  <2>2. /\ pc = "off" /\ pc' = "button" /\ UNCHANGED <<torn, peer, msb, lsb>>
        /\ gSync' = loadOperSyncWord(DefaultSync)
        /\ pairState' \in {"IDLE", "BEACONING"}
    BY <2>1 DEF PowerOn, eeprom
  <2>3. /\ gSync' # PairChannel
        /\ msb # FF /\ lsb # FF => gSync' = <<msb, lsb>>
    BY <2>2, Loaded DEF IInv, DefaultSync, PairChannel
  <2>4. Words'
    BY <2>2, <2>3 DEF IInv, Words
  <2>5. Handshake'
    BY <2>2 DEF Handshake, Waiting, Saving
  <2>6. Records'
    BY <2>2 DEF IInv, Records, StoredSyncIsPeers, Saving
  <2>7. Cache'
    BY <2>1, <2>2 DEF PowerOn, Cache
  <2>8. PairedIsOperational'
    <3>1. SUFFICES ASSUME pairState' = "IDLE", peer # "NONE"
                   PROVE  (~torn => chan' = <<msb, lsb>>) /\ buttonEn'["M1_OFF"]
      BY <2>2 DEF PairedIsOperational
    <3>2. chan' = gSync' /\ buttonEn' = AllEnabled
      BY <2>1, <3>1 DEF PowerOn
    <3>3. ~torn => msb # FF /\ lsb # FF
      BY <2>2, <3>1, StoredWord DEF IInv, Saving
    <3>4. QED
      BY <2>3, <3>2, <3>3 DEF AllEnabled, Keys
  <2>9. QED
    BY <2>4, <2>5, <2>6, <2>7, <2>8 DEF IInv
<1>3. QED
  BY <1>1, <1>2

\* The frames of the pairing.
LEMMA InvHear ==
  ASSUME SeparateWords, IInv, TypeOK', HearAck \/ HearConfirm
  PROVE  IInv'
<1>1. CASE HearAck /\ pairState = "BEACONING"
  <2>1. downlink.kind = "ACK"
    BY <1>1 DEF HearAck, Receives
  <2>2. downlink.from \in Starters
    BY <2>1 DEF IInv, TypeOK, Frame, NoFrame
  <2>3. /\ staged' = downlink.from /\ gSync' = SyncWord[downlink.from]
        /\ pairState' = "WAIT_TX_DONE" /\ pc = "radio" /\ pc' = "ack"
        /\ UNCHANGED <<torn, peer, msb, lsb, chan, peerCached, initDone>>
    BY <1>1 DEF HearAck, Receives, SeparateWords, power, cached, eeprom
  <2>4. Words'
    BY <2>2, <2>3, StarterAssumption DEF IInv, Words
  <2>5. Handshake'
    BY <2>2, <2>3 DEF Handshake, Saving
  <2>6. Records' /\ PairedIsOperational'
    BY <2>3 DEF IInv, Records, StoredSyncIsPeers, PairedIsOperational, Saving
  <2>7. Cache'
    BY <1>1, <2>3 DEF IInv, Cache
  <2>8. QED
    BY <2>4, <2>5, <2>6, <2>7 DEF IInv
<1>2. CASE HearAck /\ pairState # "BEACONING"
  <2>1. /\ UNCHANGED <<torn, pairState, staged, peerCached, initDone, chan, gSync,
                       peer, msb, lsb, buttonEn>>
        /\ pc = "radio" /\ pc' = "ack"
    BY <1>2 DEF HearAck, Receives, power, cached, link, eeprom
  <2>2. QED
    BY <2>1, InvQuiet DEF Saving
<1>3. CASE HearConfirm
  <2>1. /\ UNCHANGED <<torn, pairState, staged, peerCached, initDone, chan, gSync,
                       peer, msb, lsb, buttonEn>>
        /\ pc = "radio" /\ chan = PairChannel
        /\ pc' = IF pairState \in Waiting THEN "savePeer" ELSE "ack"
    BY <1>3 DEF HearConfirm, Receives, Waiting, power, machine, cached, radio, link, eeprom
  <2>2. CASE pairState \notin Waiting
    BY <2>1, <2>2, InvQuiet DEF Saving
  <2>3. CASE pairState \in Waiting
    <3>1. Words' /\ Records'
      BY <2>1, <2>3 DEF IInv, Words, Records, StoredSyncIsPeers, Saving
    <3>2. Handshake'
      BY <2>1, <2>3 DEF IInv, Handshake, Saving
    <3>3. Cache' /\ PairedIsOperational'
      BY <2>1, <2>3 DEF IInv, Cache, PairedIsOperational
    <3>4. QED
      BY <3>1, <3>2, <3>3 DEF IInv
  <2>4. QED
    BY <2>2, <2>3
<1>4. QED
  BY <1>1, <1>2, <1>3

\* The records are written from what was staged, the operational channel comes last.
LEMMA InvCommit ==
  ASSUME SeparateWords, IInv, TypeOK', SavePeer \/ SaveMsb \/ SaveLsb \/ Join
  PROVE  IInv'
<1>1. /\ pc \in Saving /\ pairState \in Waiting /\ staged \in Starters
      /\ gSync = SyncWord[staged]
  BY DEF SavePeer, SaveMsb, SaveLsb, Join, Saving, IInv, Handshake
<1>2. /\ pairState # "IDLE" /\ staged # "NONE" /\ staged # "TORN"
  BY <1>1, StarterAssumption DEF Waiting
<1>3. gSync = <<gSync[1], gSync[2]>> /\ gSync[1] # FF /\ gSync[2] # FF
  BY <1>1, StarterAssumption
<1>4. CASE SavePeer \/ SaveMsb \/ SaveLsb
  <2>1. /\ UNCHANGED <<torn, pairState, staged, peerCached, initDone, chan, gSync>>
        /\ pc' \in Saving
    BY <1>4
    DEF SavePeer, SaveMsb, SaveLsb, power, machine, cached, radio, Saving
  <2>2. Words'
    BY <1>1, <1>4, <2>1 DEF SavePeer, SaveMsb, SaveLsb, IInv, Words
  <2>3. Handshake'
    BY <1>4, <2>1 DEF SavePeer, SaveMsb, SaveLsb, IInv, Handshake, Saving
  <2>4. Records'
    BY <1>2, <1>4, <2>1
    DEF SavePeer, SaveMsb, SaveLsb, IInv, Records, StoredSyncIsPeers
  <2>5. Cache' /\ PairedIsOperational'
    BY <1>2, <1>4, <2>1
    DEF SavePeer, SaveMsb, SaveLsb, IInv, Cache, PairedIsOperational
  <2>6. QED
    BY <2>2, <2>3, <2>4, <2>5 DEF IInv
<1>5. CASE Join
  <2>1. /\ pc' = "ack" /\ pairState' = "IDLE" /\ initDone' /\ peerCached' = 1
        /\ buttonEn' = AllEnabled /\ UNCHANGED <<staged, peer, msb, lsb>>
        /\ LoadAndGoOperational
    BY <1>5 DEF Join
  <2>2. peer = staged /\ <<msb, lsb>> = gSync
    BY <1>3, <1>5 DEF Join, IInv, Handshake
  <2>3. gSync' = gSync /\ chan' = gSync
    BY <1>3, <2>1, <2>2 DEF LoadAndGoOperational, loadOperSyncWord
  <2>4. Words'
    BY <2>1, <2>3 DEF IInv, Words
  <2>5. Handshake'
    BY <2>1 DEF Handshake, Waiting, Saving
  <2>6. Records'
    BY <1>1, <1>2, <2>1, <2>2 DEF Records, StoredSyncIsPeers
  <2>7. Cache'
    BY <1>2, <2>1, <2>2 DEF Cache
  <2>8. PairedIsOperational'
    BY <2>1, <2>2, <2>3 DEF PairedIsOperational, AllEnabled, Keys
  <2>9. QED
    BY <2>4, <2>5, <2>6, <2>7, <2>8 DEF IInv
<1>6. QED
  BY <1>4, <1>5

\* Whatever tunes the radio to the stored channel: a reset or a give-up, in a pairing or
\* not, the end of an attempt, and a wake-up.
LEMMA InvOperational ==
  ASSUME SeparateWords, IInv, TypeOK', LoadAndGoOperational,
         pc \notin Saving \cup {"off"}, pc' \notin Saving \cup {"off"},
         UNCHANGED <<torn, staged, peerCached, peer, msb, lsb>>,
         UNCHANGED <<pairState, initDone>> \/ (pairState' = "IDLE" /\ initDone' /\ peerCached # 0),
         buttonEn' = AllEnabled \/ (pairState' = pairState /\ buttonEn' = buttonEn)
  PROVE  IInv'
<1>1. /\ gSync' # PairChannel /\ chan' # PairChannel
      /\ peer # "NONE" /\ ~torn => chan' = <<msb, lsb>>
  BY GoneOperational
<1>2. Words'
  BY <1>1 DEF IInv, Words
<1>3. Handshake'
  BY <1>1 DEF IInv, Handshake, Waiting, Saving
<1>4. Records'
  BY DEF IInv, Records, StoredSyncIsPeers
<1>5. Cache'
  BY DEF IInv, Cache
<1>6. PairedIsOperational'
  BY <1>1 DEF IInv, PairedIsOperational, AllEnabled, Keys
<1>7. QED
  BY <1>2, <1>3, <1>4, <1>5, <1>6 DEF IInv

LEMMA InvResets ==
  ASSUME SeparateWords, IInv, TypeOK', RadioWatchdog \/ GiveUp \/ ScanTimeout \/ ConfirmTimeout
  PROVE  IInv'
<1>1. CASE RadioWatchdog \/ GiveUp
  <2>1. /\ LoadAndGoOperational
        /\ UNCHANGED <<torn, pairState, staged, peerCached, initDone, peer, msb, lsb>>
        /\ pc \in {"radio", "ack"} /\ pc' \in {"ack", "tick"}
        /\ buttonEn' \in {AllEnabled, buttonEn}
    BY <1>1 DEF RadioWatchdog, GiveUp, EndCommand, power, machine, cached, link, eeprom
  <2>2. QED
    BY <2>1, InvOperational DEF Saving
<1>2. CASE ScanTimeout \/ ConfirmTimeout
  <2>1. /\ LoadAndGoOperational
        /\ UNCHANGED <<torn, staged, peerCached, peer, msb, lsb>>
        /\ pc = "pair" /\ pc' = "rest"
        /\ pairState # "IDLE" /\ pairState' = "IDLE" /\ initDone'
        /\ buttonEn' = AllEnabled
    BY <1>2 DEF ScanTimeout, ConfirmTimeout, pairRemNodeRevert, power, eeprom
  <2>2. peerCached # 0
    BY <2>1 DEF IInv, Cache
  <2>3. QED
    BY <2>1, <2>2, InvOperational DEF Saving
<1>3. QED
  BY <1>1, <1>2

LEMMA InvWake ==
  ASSUME SeparateWords, IInv, TypeOK', SleepAndWake
  PROVE  IInv'
<1>1. /\ pc = "button" /\ pc' = "radio" /\ gSync' = loadOperSyncWord(gSync) /\ chan' = gSync'
      /\ UNCHANGED <<torn, pairState, staged, peerCached, initDone, peer, msb, lsb>>
      /\ pairState = "IDLE" /\ buttonEn'["M1_OFF"]
  BY DEF SleepAndWake, StartCommand, AllEnabled, Keys, power, machine, cached, eeprom
<1>2. /\ gSync' # PairChannel
      /\ msb # FF /\ lsb # FF => gSync' = <<msb, lsb>>
  BY <1>1, Loaded DEF IInv, Words
<1>3. peer # "NONE" /\ ~torn => msb # FF /\ lsb # FF
  BY <1>1, StoredWord DEF IInv, Saving
<1>4. Words' /\ Records' /\ Cache'
  BY <1>1, <1>2 DEF IInv, Words, Records, StoredSyncIsPeers, Cache, Saving
<1>5. Handshake'
  BY <1>1 DEF Handshake, Waiting, Saving
<1>6. PairedIsOperational'
  BY <1>1, <1>2, <1>3 DEF PairedIsOperational
<1>7. QED
  BY <1>4, <1>5, <1>6 DEF IInv

\* The switch of pairRemNodeTick().
LEMMA InvSwitch ==
  ASSUME IInv, TypeOK', Idle \/ WaitTxDone
  PROVE  IInv'
<1>1. CASE WaitTxDone
  <2>1. /\ UNCHANGED <<torn, staged, peerCached, initDone, chan, gSync, buttonEn, peer, msb, lsb>>
        /\ pc = "pair" /\ pc' = "rest" /\ pairState \in Waiting /\ pairState' \in Waiting
    BY <1>1 DEF WaitTxDone, Waiting, power, cached, link, eeprom
  <2>2. Words' /\ Records' /\ Cache' /\ PairedIsOperational'
    BY <2>1
    DEF IInv, Words, Records, StoredSyncIsPeers, Cache, PairedIsOperational, Waiting, Saving
  <2>3. Handshake'
    BY <2>1 DEF IInv, Handshake, Saving
  <2>4. QED
    BY <2>2, <2>3 DEF IInv
<1>2. CASE Idle
  <2>1. /\ pc = "pair" /\ pc' = "rest" /\ pairState = "IDLE"
        /\ UNCHANGED <<torn, staged, peer, msb, lsb>>
    BY <1>2 DEF Idle, power, eeprom
  <2>2. (HasPeer <=> peer # "NONE") /\ (HasPeer => initDone)
    BY <2>1 DEF IInv, TypeOK, Cache, HasPeer
  <2>3. \/ /\ MustPair /\ peerCached' = -1 /\ pairState' = "BEACONING"
           /\ UNCHANGED <<gSync, initDone>>
        \/ /\ ~MustPair /\ peerCached' = IF HasPeer THEN 1 ELSE 0
           /\ UNCHANGED <<pairState, chan, gSync, initDone, buttonEn>>
    BY <1>2, <2>2 DEF Idle, enterRemNodePairMode, switchToPairChannel, radio
  <2>4. Words' /\ Records'
    BY <2>1, <2>3 DEF IInv, Words, Records, StoredSyncIsPeers, Saving
  <2>5. Handshake'
    BY <2>1, <2>3 DEF Handshake, Waiting, Saving
  <2>6. Cache'
    BY <2>1, <2>2, <2>3 DEF IInv, Cache
  <2>7. PairedIsOperational'
    BY <2>1, <2>3 DEF IInv, PairedIsOperational
  <2>8. QED
    BY <2>4, <2>5, <2>6, <2>7 DEF IInv
<1>3. QED
  BY <1>1, <1>2

LEMMA InvStep == SeparateWords /\ IInv /\ [Next]_vars => IInv'
<1> SUFFICES ASSUME SeparateWords, IInv, [Next]_vars PROVE IInv'
  OBVIOUS
<1>1. TypeOK'
  BY TypeStep DEF IInv
<1>2. CASE Loop
  BY <1>1, <1>2, InvLink, InvCommit, InvResets, InvSwitch DEF Loop
<1>3. CASE Reception
  BY <1>1, <1>3, InvLink, InvHear DEF Reception
<1>4. CASE User
  BY <1>1, <1>4, InvLink, InvWake, InvPower DEF User
<1>5. CASE PowerOff \/ RadioWatchdog
  BY <1>1, <1>5, InvPower, InvResets
<1>6. CASE Starter \/ (\E f \in Frame : ForeignFrame(f)) \/ UNCHANGED vars
  BY <1>1, <1>6, InvAir
<1>7. QED
  BY <1>2, <1>3, <1>4, <1>5, <1>6 DEF Next

LEMMA Inductive ==
  ASSUME SeparateWords
  PROVE  Spec => []IInv
<1>1. IInv /\ [Next]_vars => IInv'
  BY InvStep
<1>2. QED
  BY <1>1, InvInit, PTL DEF Spec

\* Unless power failed in the last commit, the stored sync word is that of the stored
\* peer, whatever give-ups, resets, reverts and stray frames came between.
THEOREM RecordsAgree ==
  ASSUME SeparateWords
  PROVE  Spec => []StoredSyncIsPeers
<1>1. IInv => StoredSyncIsPeers
  BY DEF IInv, Records
<1>2. QED
  BY <1>1, Inductive, PTL

\* A paired remote that is not pairing is on its channel, with the stop key alive.
THEOREM PairedRemoteWorks ==
  ASSUME SeparateWords
  PROVE  Spec => []PairedIsOperational
<1>1. IInv => PairedIsOperational
  BY DEF IInv
<1>2. QED
  BY <1>1, Inductive, PTL

-----------------------------------------------------------------------------
(* The steps that change what the remote is bound to.                      *)

\* Pairing is left to the remote only by a boot with the combo, or by the switch of
\* pairRemNodeTick() without the sentinel.
THEOREM PairingNeedsCause == Spec => PairingIsDeliberate
<1>1. [Next]_vars => [pairState = "IDLE" /\ pairState' # "IDLE" => bootRepair' \/ ~sentinel]_vars
  <2> SUFFICES ASSUME Next, pairState = "IDLE", pairState' # "IDLE"
               PROVE  bootRepair' \/ ~sentinel
    OBVIOUS
  <2>1. CASE Loop
    <3>1. Idle
      BY <2>1
      DEF Loop, NoPress, Transmit, Listen, SavePeer, SaveMsb, SaveLsb, Join, AckPass,
          Resend, GiveUp, OneShots, ScanTimeout, Beacon, WaitTxDone, RetryDone,
          ConfirmTimeout, Rest, pairRemNodeRevert, machine
    <3>2. QED
      BY <3>1 DEF Idle, MustPair
  <2>2. CASE Reception
    BY <2>2 DEF Reception, HearAck, HearConfirm, HearRsp, machine
  <2>3. CASE User
    BY <2>3 DEF User, Press, SleepAndWake, PowerOn, machine
  <2>4. CASE PowerOff \/ RadioWatchdog \/ Starter \/ \E f \in Frame : ForeignFrame(f)
    BY <2>4
    DEF PowerOff, RadioWatchdog, Starter, StarterAcks, StarterConfirms, ForeignFrame, machine
  <2>5. QED
    BY <2>1, <2>2, <2>3, <2>4 DEF Next
<1>2. QED
  BY <1>1, PTL DEF Spec, PairingIsDeliberate

=============================================================================
