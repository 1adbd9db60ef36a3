------------------------------- MODULE Pairing -------------------------------
(***************************************************************************)
(* Pairing a remote with a starter: the state machine of pairRemoteNode.h, *)
(* the records it keeps in EEPROM (eeprom.h), the channel the radio is     *)
(* tuned to (sx1268Main.h), and the boot that puts the three together.     *)
(*                                                                         *)
(*   remote  0x0D REQ     --> starter     every PAIR_BEACON_INTERVAL       *)
(*   remote <--  0x0E ACK     starter     its serial and its sync word     *)
(*   remote  0x0F DONE    --> starter     repeated until confirmed         *)
(*   remote <--  0x10 CONFIRM starter     now the remote writes EEPROM     *)
(*                                                                         *)
(* `pc` walks through loop() as in CommandLink: button, radio, ack, tick   *)
(* (the one-shots of pairRemNodeTick()), pair (its switch), rest; a commit *)
(* interrupts the radio stage to write EEPROM piece by piece.  The radio   *)
(* is reduced to the frame queued for it: it transmits that in one pass    *)
(* and listens in every other.  A pending command is reduced to what       *)
(* CommandSession says of it.                                              *)
(*                                                                         *)
(* One time unit is one pass of the loop.                                  *)
(***************************************************************************)
EXTENDS Integers, FiniteSets, RBP

CONSTANTS
  Starters,          \* the starters that exist
  Answering,         \* those of them that are in pairing mode
  Legacy,            \* those that send the 26-byte ACK without a sync word
  SyncWord,          \* SyncWord[s] = <<msb, lsb>>, the channel of starter s
  BEACON_INTERVAL,   \* PAIR_BEACON_INTERVAL_MS
  DONE_WAIT,         \* the 1000 ms of WAIT_TX_DONE
  DONE_RETRY,        \* PAIR_DONE_RETRY_MS
  DONE_RETRIES,      \* PAIR_DONE_MAX_RETRIES
  SCAN_TIMEOUT,      \* PAIR_REMNODE_SCAN_TIMEOUT_MS
  MAX_RETRY,         \* the 3 of ackReception()
  MaxBoots,          \* bound: how often the battery is inserted
  Faults             \* what may happen, see FaultKinds

\* "keys": the user presses keys; "hang": the chip falls silent until the radio
\* watchdog resets it; "foreign": frames meant for other remotes are received;
\* "crash": power may fail while EEPROM is written.
FaultKinds == {"keys", "hang", "foreign", "crash"}

\* An erased EEPROM byte; 0x3444 and 0x1234.
FF          == "FF"
DefaultSync == <<"34", "44">>
PairChannel == <<"12", "34">>

Byte == {"12", "34", "44", FF} \cup {SyncWord[s][1] : s \in Starters}
                               \cup {SyncWord[s][2] : s \in Starters}

\* No operational channel is the pairing channel, and no byte of a sync word is
\* one loadOperSyncWord() takes for erased.
ASSUME StarterAssumption ==
  /\ IsFiniteSet(Starters) /\ "NONE" \notin Starters /\ "TORN" \notin Starters
  /\ Answering \subseteq Starters /\ Legacy \subseteq Starters
  /\ DOMAIN SyncWord = Starters
  /\ \A s \in Starters :
       /\ SyncWord[s] = <<SyncWord[s][1], SyncWord[s][2]>>
       /\ SyncWord[s] # PairChannel
       /\ SyncWord[s][1] # FF /\ SyncWord[s][2] # FF
       /\ s \in Legacy => SyncWord[s] = DefaultSync

ASSUME BoundAssumption ==
  /\ BEACON_INTERVAL \in Nat \ {0} /\ DONE_WAIT \in Nat \ {0}
  /\ DONE_RETRY \in Nat \ {0} /\ SCAN_TIMEOUT \in Nat \ {0}
  /\ DONE_RETRIES \in Nat /\ MAX_RETRY \in Nat /\ MaxBoots \in Nat
  /\ Faults \subseteq FaultKinds

VARIABLES
  pc,                  \* the stage that runs next, "off" without power
  boots,               \* how often the remote was switched on
  bootRepair,          \* the boot combo was completed
  torn,                \* (history) power failed in a commit, none was completed since
  \* pairRemoteNode.h
  pairState,           \* pairRemNodeState
  staged,              \* pairRemNodeStarterId
  donePending, doneRetries,
  beaconAge, doneAge, scanAge,      \* time since ...BeaconMs, ...DoneTxMs, ...ScanStartMs
  peerCached, initDone,             \* peerSerialCached, pairBootInitDone
  confirmStatus, bootPrime,         \* the one-shots
  \* sx1268Main.h
  chan,                \* the sync word in the chip; PairChannel iff pairing_mode
  gSync,               \* g_operSyncMsb, g_operSyncLsb
  tx,                  \* the frame queued for transmission
  \* states.h
  msgTxd, tries, buttonEn,
  \* EEPROM
  peer,                \* bytes 0-20: a starter, "TORN", or "NONE" if the first is erased
  msb, lsb, sentinel,  \* bytes 22, 23, and whether byte 21 is 0xA5
  \* the starters and the air
  uplink, downlink,    \* the frame the starters, the remote can receive now
  bound                \* bound[s]: s has recorded this remote

power   == <<boots, bootRepair, torn>>
machine == <<pairState, staged, donePending, doneRetries>>
timers  == <<beaconAge, doneAge, scanAge>>
cached  == <<peerCached, initDone>>
shots   == <<confirmStatus, bootPrime>>
radio   == <<chan, gSync, tx>>
link    == <<msgTxd, tries, buttonEn>>
eeprom  == <<peer, msb, lsb, sentinel>>
air     == <<uplink, downlink, bound>>

vars == <<pc, power, machine, timers, cached, shots, radio, link, eeprom, air>>

PairState == {"IDLE", "BEACONING", "WAIT_TX_DONE", "WAIT_CONFIRM"}
Stages    == {"off", "button", "radio", "savePeer", "saveMsb", "saveLsb", "join",
              "ack", "tick", "pair", "rest"}
Saving    == {"savePeer", "saveMsb", "saveLsb", "join"}
Frame     == [kind : {"ACK", "CONFIRM"}, from : Starters]
NoFrame   == [kind |-> "NONE", from |-> "NONE"]

UpTo(n, bnd) == IF n < bnd THEN n ELSE bnd

-----------------------------------------------------------------------------
(* Operations the stages are made of.                                      *)

\* loadOperSyncWord(): an erased byte leaves the variables as they are.
loadOperSyncWord(old) == IF FF \in {msb, lsb} THEN old ELSE <<msb, lsb>>

\* Every channel switch puts the radio state machine back to IDLE.
switchToPairChannel == chan' = PairChannel /\ tx' = "NONE" /\ UNCHANGED gSync

\* sx1268Init() or a revert loads the sync word, then the radio is tuned to it.
LoadAndGoOperational ==
  /\ gSync' = loadOperSyncWord(gSync)
  /\ chan' = gSync'
  /\ tx' = "NONE"

\* Another command: remTxButtonCmd(), with these keys enabled.
StartCommand(enabled) ==
  /\ tx' = "CMD"
  /\ msgTxd' = TRUE /\ tries' = 0
  /\ buttonEn' = [enabled EXCEPT !["M1_ON"] = FALSE, !["STA"] = FALSE]

\* The retry count of a command that has ended is never read again.
EndCommand == msgTxd' = FALSE /\ tries' = 0 /\ buttonEn' = AllEnabled

enterRemNodePairMode ==
  /\ switchToPairChannel
  /\ pairState' = "BEACONING"
  /\ donePending' = FALSE
  /\ beaconAge' = BEACON_INTERVAL     \* the first beacon is due
  /\ scanAge' = 0

\* Mutant: the sync word of the failed attempt is left in place.
pairRemNodeRevert_NoLoad ==
  /\ chan' = gSync /\ tx' = "NONE" /\ UNCHANGED gSync
  /\ buttonEn' = AllEnabled
  /\ initDone' = TRUE
  /\ pairState' = "IDLE"
  /\ UNCHANGED <<staged, donePending, doneRetries, timers, peerCached>>

pairRemNodeRevert ==
  /\ LoadAndGoOperational
  /\ buttonEn' = AllEnabled
  /\ initDone' = TRUE
  /\ pairState' = "IDLE"
  /\ UNCHANGED <<staged, donePending, doneRetries, timers, peerCached>>

-----------------------------------------------------------------------------
(* Power.  setup() reads the records; a remote that has a peer, whole or   *)
(* not, starts on its channel.                                             *)

PowerOn(combo) ==
  /\ pc = "off" /\ boots < MaxBoots
  /\ boots' = boots + 1
  /\ pc' = "button"
  /\ bootRepair' = combo
  /\ staged' = "NONE" /\ donePending' = FALSE /\ doneRetries' = 0
  /\ doneAge' = 0 /\ tx' = "NONE"
  /\ beaconAge' = BEACON_INTERVAL /\ scanAge' = 0
  /\ confirmStatus' = FALSE
  /\ msgTxd' = FALSE /\ tries' = 0
  /\ gSync' = loadOperSyncWord(DefaultSync)
  /\ \/ /\ combo
        /\ pairState' = "BEACONING" /\ chan' = PairChannel
        /\ peerCached' = -1 /\ initDone' = FALSE /\ bootPrime' = FALSE
        /\ buttonEn' = [AllEnabled EXCEPT !["M1_ON"] = FALSE, !["M1_OFF"] = FALSE]
     \/ /\ ~combo /\ peer # "NONE"
        /\ pairState' = "IDLE" /\ chan' = gSync'
        /\ peerCached' = 1 /\ initDone' = TRUE /\ bootPrime' = TRUE
        /\ buttonEn' = AllEnabled
     \/ /\ ~combo /\ peer = "NONE"
        /\ pairState' = "IDLE" /\ chan' = PairChannel
        /\ peerCached' = -1 /\ initDone' = FALSE /\ bootPrime' = FALSE
        /\ buttonEn' = [AllEnabled EXCEPT !["M1_ON"] = FALSE, !["M1_OFF"] = FALSE]
  /\ downlink' = NoFrame /\ uplink' = "NONE"
  /\ UNCHANGED <<torn, eeprom, bound>>

\* A byte that is being written when power fails may be left erased, a serial may
\* be left half written.  EEPROM.update() does not write what is already there.
TornWrite ==
  \/ /\ pc = "savePeer" /\ peer # staged
     /\ peer' \in {"NONE", "TORN"} /\ UNCHANGED <<msb, lsb, sentinel>>
  \/ /\ pc = "saveMsb" /\ msb # gSync[1]
     /\ msb' = FF /\ UNCHANGED <<peer, lsb, sentinel>>
  \/ /\ pc = "saveLsb" /\ lsb # gSync[2]
     /\ lsb' = FF /\ UNCHANGED <<peer, msb, sentinel>>
  \/ UNCHANGED eeprom

\* What RAM held is gone.  The battery of the last boot stays in.
PowerOff ==
  /\ pc # "off" /\ pc' = "off"
  /\ boots < MaxBoots
  /\ pc \in Saving => "crash" \in Faults
  /\ TornWrite
  /\ torn' = (torn \/ pc \in Saving)
  /\ pairState' = "IDLE"
  /\ UNCHANGED <<boots, bootRepair, staged, donePending, doneRetries, timers, cached, shots,
                 radio, link, air>>

-----------------------------------------------------------------------------
(* button: hwbuttonFunc() and, before it, lowPowerPoll().                  *)

NoPress ==
  /\ pc = "button" /\ pc' = "radio"
  /\ UNCHANGED <<power, machine, timers, cached, shots, radio, link, eeprom, air>>

\* STOP pre-empts, the other keys want an idle link.
Press(key) ==
  /\ pc = "button" /\ pc' = "radio"
  /\ "keys" \in Faults
  /\ buttonEn[key]
  /\ key # "M1_OFF" => ~msgTxd
  /\ StartCommand(buttonEn)
  /\ UNCHANGED <<power, machine, timers, cached, shots, chan, gSync, eeprom, air>>

\* Nothing pends and no pairing keeps the remote awake (it has looked for its
\* peer, so it is not about to pair): it sleeps.  The STA key wakes it, and the
\* STATUS that the wake owes follows at once.
SleepAndWake ==
  /\ pc = "button" /\ pc' = "radio"
  /\ "keys" \in Faults
  /\ pairState = "IDLE" /\ peerCached # -1 /\ ~msgTxd
  /\ gSync' = loadOperSyncWord(gSync) /\ chan' = gSync'
  /\ StartCommand(AllEnabled)
  /\ UNCHANGED <<power, machine, timers, cached, shots, eeprom, air>>

-----------------------------------------------------------------------------
(* radio: sx1268Func().  While it transmits, the remote hears nothing.     *)

Transmit ==
  /\ pc = "radio" /\ pc' = "ack"
  /\ tx # "NONE" /\ tx' = "NONE"
  /\ uplink' = IF chan = PairChannel THEN tx ELSE "NONE"
  /\ downlink' = NoFrame
  /\ UNCHANGED <<power, machine, timers, cached, shots, chan, gSync, link, eeprom,
                 bound>>

Listen ==
  /\ pc = "radio" /\ pc' = "ack"
  /\ tx = "NONE"
  /\ UNCHANGED <<power, machine, timers, cached, shots, radio, link, eeprom, air>>

Receives(kind) ==
  /\ pc = "radio" /\ tx = "NONE"
  /\ chan = PairChannel
  /\ downlink.kind = kind /\ downlink' = NoFrame

\* pairRemNodeHandleAck(): staged in RAM only.
HearAck ==
  /\ Receives("ACK") /\ pc' = "ack"
  /\ IF pairState = "BEACONING"
     THEN /\ staged' = downlink.from
          /\ gSync' = IF downlink.from \in Legacy THEN gSync
                                                  ELSE SyncWord[downlink.from]
          /\ donePending' = TRUE
          /\ pairState' = "WAIT_TX_DONE"
     ELSE UNCHANGED <<staged, gSync, donePending, pairState>>
  /\ UNCHANGED <<power, doneRetries, timers, cached, shots, chan, tx, link, eeprom,
                 uplink, bound>>

\* dispatchPairPkt(): the commit begins.
HearConfirm ==
  /\ Receives("CONFIRM")
  /\ pc' = IF pairState \in {"WAIT_TX_DONE", "WAIT_CONFIRM"} THEN "savePeer" ELSE "ack"
  /\ UNCHANGED <<power, machine, timers, cached, shots, radio, link, eeprom,
                 uplink, bound>>

\* An answer needs a starter that knows the remote, on the channel it listens to.
HearRsp ==
  /\ pc = "radio" /\ pc' = "ack"
  /\ tx = "NONE" /\ msgTxd
  /\ \E s \in Starters : bound[s] /\ chan = SyncWord[s]
  /\ EndCommand
  /\ UNCHANGED <<power, machine, timers, cached, shots, radio, eeprom, air>>

\* After 60 s without an interrupt, whatever the pairing is doing.
RadioWatchdog ==
  /\ pc = "radio" /\ pc' = "ack"
  /\ "hang" \in Faults
  /\ LoadAndGoOperational
  /\ UNCHANGED <<power, machine, timers, cached, shots, link, eeprom, air>>

-----------------------------------------------------------------------------
(* pairRemNodeCommit(): EEPROM is written in this order.                   *)

\* Mutant: the radio is initialised, which loads the old sync word, first.
SavePeer_ReinitFirst ==
  /\ pc = "savePeer" /\ pc' = "saveMsb"
  /\ peer' = staged
  /\ gSync' = loadOperSyncWord(gSync)
  /\ UNCHANGED <<power, machine, timers, cached, shots, chan, tx, link,
                 msb, lsb, sentinel, air>>

SavePeer ==
  /\ pc = "savePeer" /\ pc' = "saveMsb"
  /\ peer' = staged
  /\ UNCHANGED <<power, machine, timers, cached, shots, radio, link,
                 msb, lsb, sentinel, air>>

SaveMsb ==
  /\ pc = "saveMsb" /\ pc' = "saveLsb"
  /\ msb' = gSync[1]
  /\ UNCHANGED <<power, machine, timers, cached, shots, radio, link,
                 peer, lsb, sentinel, air>>

SaveLsb ==
  /\ pc = "saveLsb" /\ pc' = "join"
  /\ lsb' = gSync[2]
  /\ UNCHANGED <<power, machine, timers, cached, shots, radio, link,
                 peer, msb, sentinel, air>>

\* The sentinel, then the operational channel.
Join ==
  /\ pc = "join" /\ pc' = "ack"
  /\ sentinel' = TRUE
  /\ torn' = FALSE
  /\ peerCached' = 1 /\ initDone' = TRUE
  /\ LoadAndGoOperational
  /\ buttonEn' = AllEnabled
  /\ confirmStatus' = TRUE
  /\ pairState' = "IDLE"
  /\ UNCHANGED <<boots, bootRepair, staged, donePending, doneRetries, timers,
                 bootPrime, msgTxd, tries, peer, msb, lsb, air>>

-----------------------------------------------------------------------------
(* ack: ackReception(), by its outcome for the pending command.            *)

AckPass ==
  /\ pc = "ack" /\ pc' = "tick"
  /\ UNCHANGED <<power, machine, timers, cached, shots, radio, link, eeprom, air>>

Resend ==
  /\ pc = "ack" /\ pc' = "tick"
  /\ msgTxd /\ tries < MAX_RETRY
  /\ tries' = tries + 1
  /\ tx' = "CMD"
  /\ UNCHANGED <<power, machine, timers, cached, shots, chan, gSync, msgTxd,
                 buttonEn, eeprom, air>>

GiveUp ==
  /\ pc = "ack" /\ pc' = "tick"
  /\ msgTxd /\ tries = MAX_RETRY
  /\ LoadAndGoOperational
  /\ EndCommand
  /\ UNCHANGED <<power, machine, timers, cached, shots, eeprom, air>>

-----------------------------------------------------------------------------
(* tick: the one-shots of pairRemNodeTick().                               *)

OneShots ==
  /\ pc = "tick" /\ pc' = "pair"
  /\ bootPrime' = FALSE
  /\ IF confirmStatus /\ ~msgTxd
     THEN confirmStatus' = FALSE /\ StartCommand(buttonEn)
     ELSE /\ tx' = IF bootPrime /\ ~msgTxd THEN "PING" ELSE tx
          /\ UNCHANGED <<confirmStatus, link>>
  /\ UNCHANGED <<power, machine, timers, cached, chan, gSync, eeprom, air>>

-----------------------------------------------------------------------------
(* pair: the switch of pairRemNodeTick().                                  *)

HasPeer == IF peerCached = -1 THEN peer # "NONE" ELSE peerCached = 1

\* Mutant: a missing peer is enough to start pairing.
MustPair_NoSentinel == ~HasPeer

\* Without a peer, the sentinel decides between pairing and the alert.
MustPair == ~HasPeer /\ ~sentinel

Idle ==
  /\ pc = "pair" /\ pc' = "rest"
  /\ pairState = "IDLE"
  /\ \/ /\ MustPair
        /\ peerCached' = -1
        /\ enterRemNodePairMode
        /\ UNCHANGED <<initDone, bootPrime, buttonEn>>
     \/ /\ HasPeer /\ ~initDone        \* a fallback: setup() has done it
        /\ peerCached' = 1 /\ initDone' = TRUE
        /\ chan' = gSync /\ tx' = "NONE"
        /\ bootPrime' = TRUE
        /\ buttonEn' = AllEnabled
        /\ UNCHANGED <<pairState, donePending, beaconAge, scanAge, gSync>>
     \/ /\ ~MustPair /\ (HasPeer => initDone)
        /\ peerCached' = IF HasPeer THEN 1 ELSE 0
        /\ UNCHANGED <<pairState, donePending, beaconAge, scanAge, radio,
                       initDone, bootPrime, buttonEn>>
  /\ UNCHANGED <<power, staged, doneRetries, doneAge, confirmStatus, msgTxd, tries,
                 eeprom, air>>

ScanTimedOut == sentinel /\ scanAge >= SCAN_TIMEOUT

ScanTimeout ==
  /\ pc = "pair" /\ pc' = "rest"
  /\ pairState = "BEACONING" /\ ScanTimedOut
  /\ pairRemNodeRevert
  /\ UNCHANGED <<power, shots, msgTxd, tries, eeprom, air>>

\* Mutant: the beacon clock is not restarted.
Beacon_NoReset ==
  /\ pc = "pair" /\ pc' = "rest"
  /\ pairState = "BEACONING" /\ ~ScanTimedOut
  /\ IF beaconAge >= BEACON_INTERVAL
     THEN tx' = "REQ"
     ELSE UNCHANGED tx
  /\ UNCHANGED <<power, machine, timers, cached, shots, chan, gSync,
                 link, eeprom, air>>

Beacon ==
  /\ pc = "pair" /\ pc' = "rest"
  /\ pairState = "BEACONING" /\ ~ScanTimedOut
  /\ IF beaconAge >= BEACON_INTERVAL
     THEN tx' = "REQ" /\ beaconAge' = 0
     ELSE UNCHANGED <<tx, beaconAge>>
  /\ UNCHANGED <<power, machine, doneAge, scanAge, cached, shots, chan, gSync,
                 link, eeprom, air>>

\* Mutant: committed on a timer, whatever the starter says.
WaitTxDone_Commits ==
  /\ pc = "pair"
  /\ pairState = "WAIT_TX_DONE"
  /\ pc' = IF ~donePending /\ doneAge >= DONE_WAIT THEN "savePeer" ELSE "rest"
  /\ IF donePending
     THEN tx' = "DONE" /\ donePending' = FALSE /\ doneAge' = 0
     ELSE UNCHANGED <<tx, donePending, doneAge>>
  /\ UNCHANGED <<power, pairState, staged, doneRetries, beaconAge, scanAge, cached,
                 shots, chan, gSync, link, eeprom, air>>

WaitTxDone ==
  /\ pc = "pair" /\ pc' = "rest"
  /\ pairState = "WAIT_TX_DONE"
  /\ \/ /\ donePending
        /\ tx' = "DONE" /\ donePending' = FALSE /\ doneAge' = 0
        /\ UNCHANGED <<pairState, doneRetries>>
     \/ /\ ~donePending /\ doneAge >= DONE_WAIT
        /\ pairState' = "WAIT_CONFIRM" /\ doneRetries' = 0 /\ doneAge' = 0
        /\ UNCHANGED <<tx, donePending>>
     \/ /\ ~donePending /\ doneAge < DONE_WAIT
        /\ UNCHANGED <<pairState, tx, donePending, doneRetries, doneAge>>
  /\ UNCHANGED <<power, staged, beaconAge, scanAge, cached, shots, chan, gSync,
                 link, eeprom, air>>

\* Mutant: one repetition too many.
RetriesLeft_OffByOne == doneRetries <= DONE_RETRIES

RetriesLeft == doneRetries < DONE_RETRIES

\* Mutant: the repetitions are not counted.
RetryDone_NoCount ==
  /\ pc = "pair" /\ pc' = "rest"
  /\ pairState = "WAIT_CONFIRM"
  /\ IF doneAge >= DONE_RETRY /\ RetriesLeft
     THEN tx' = "DONE" /\ doneAge' = 0
     ELSE UNCHANGED <<tx, doneAge>>
  /\ UNCHANGED <<power, machine, beaconAge, scanAge, cached, shots, chan, gSync,
                 link, eeprom, air>>

RetryDone ==
  /\ pc = "pair" /\ pc' = "rest"
  /\ pairState = "WAIT_CONFIRM"
  /\ doneAge >= DONE_RETRY => RetriesLeft
  /\ IF doneAge >= DONE_RETRY
     THEN tx' = "DONE" /\ doneRetries' = doneRetries + 1 /\ doneAge' = 0
     ELSE UNCHANGED <<tx, doneRetries, doneAge>>
  /\ UNCHANGED <<power, pairState, staged, donePending, beaconAge, scanAge, cached,
                 shots, chan, gSync, link, eeprom, air>>

ConfirmTimeout ==
  /\ pc = "pair" /\ pc' = "rest"
  /\ pairState = "WAIT_CONFIRM"
  /\ doneAge >= DONE_RETRY /\ ~RetriesLeft
  /\ pairRemNodeRevert
  /\ UNCHANGED <<power, shots, msgTxd, tries, eeprom, air>>

Rest ==
  /\ pc = "rest" /\ pc' = "button"
  /\ beaconAge' = UpTo(beaconAge + 1, BEACON_INTERVAL)
  /\ doneAge' = UpTo(doneAge + 1, DONE_WAIT + DONE_RETRY)
  /\ scanAge' = UpTo(scanAge + 1, SCAN_TIMEOUT)
  /\ UNCHANGED <<power, machine, cached, shots, radio, link, eeprom, air>>

-----------------------------------------------------------------------------
(* The starters.  A starter in pairing mode answers each frame it receives *)
(* once, if at all; an ACK names it, but neither ACK nor CONFIRM names the *)
(* remote in a way the remote looks at.                                    *)

StarterAcks(s) ==
  /\ uplink = "REQ" /\ uplink' = "NONE"
  /\ s \in Answering
  /\ downlink' = [kind |-> "ACK", from |-> s]
  /\ UNCHANGED <<pc, power, machine, timers, cached, shots, radio, link, eeprom, bound>>

StarterConfirms(s) ==
  /\ uplink = "DONE" /\ uplink' = "NONE"
  /\ s \in Answering
  /\ bound' = [bound EXCEPT ![s] = TRUE]
  /\ downlink' = [kind |-> "CONFIRM", from |-> s]
  /\ UNCHANGED <<pc, power, machine, timers, cached, shots, radio, link, eeprom>>

\* A starter pairs with somebody else's remote next door.
ForeignFrame(f) ==
  /\ "foreign" \in Faults
  /\ downlink = NoFrame /\ downlink' = f
  /\ UNCHANGED <<pc, power, machine, timers, cached, shots, radio, link, eeprom,
                 uplink, bound>>

-----------------------------------------------------------------------------
\* A new remote, or one that was paired before with any of the starters.
Init ==
  /\ pc = "off" /\ boots = 0 /\ bootRepair = FALSE /\ torn = FALSE
  /\ pairState = "IDLE" /\ staged = "NONE"
  /\ donePending = FALSE /\ doneRetries = 0
  /\ beaconAge = 0 /\ doneAge = 0 /\ scanAge = 0
  /\ peerCached = -1 /\ initDone = FALSE
  /\ confirmStatus = FALSE /\ bootPrime = FALSE
  /\ chan = PairChannel /\ gSync = DefaultSync /\ tx = "NONE"
  /\ msgTxd = FALSE /\ tries = 0
  /\ buttonEn = [AllEnabled EXCEPT !["M1_ON"] = FALSE, !["M1_OFF"] = FALSE]
  /\ uplink = "NONE" /\ downlink = NoFrame
  /\ \/ /\ peer = "NONE" /\ msb = FF /\ lsb = FF /\ sentinel = FALSE
        /\ bound = [s \in Starters |-> FALSE]
     \/ /\ peer \in Starters /\ sentinel = TRUE
        /\ msb = SyncWord[peer][1] /\ lsb = SyncWord[peer][2]
        /\ bound = [s \in Starters |-> s = peer]

\* The single-threaded program.
Loop ==
  \/ NoPress
  \/ Transmit \/ Listen
  \/ SavePeer \/ SaveMsb \/ SaveLsb \/ Join
  \/ AckPass \/ Resend \/ GiveUp
  \/ OneShots
  \/ Idle \/ ScanTimeout \/ Beacon \/ WaitTxDone \/ RetryDone \/ ConfirmTimeout
  \/ Rest

Reception == HearAck \/ HearConfirm \/ HearRsp

User ==
  \/ \E key \in Keys : Press(key)
  \/ SleepAndWake
  \/ \E combo \in BOOLEAN : PowerOn(combo)

Starter == \E s \in Starters : StarterAcks(s) \/ StarterConfirms(s)

Next ==
  \/ Loop \/ Reception \/ User \/ PowerOff \/ RadioWatchdog \/ Starter
  \/ \E f \in Frame : ForeignFrame(f)

Spec == Init /\ [][Next]_vars

\* The loop runs as long as there is power.
LoopSpec == Spec /\ WF_vars(Loop)

\* Moreover somebody switches the remote on, a starter in pairing mode answers
\* some of the frames sent to it before the remote's next one is due, and some of
\* the answers arrive while the remote still waits for them.
AirSpec ==
  /\ LoopSpec
  /\ WF_vars(\E combo \in BOOLEAN : PowerOn(combo))
  /\ SF_vars(tx = "NONE" /\ beaconAge < BEACON_INTERVAL /\ \E s \in Starters : StarterAcks(s))
  /\ SF_vars(tx = "NONE" /\ doneAge < DONE_RETRY /\ \E s \in Starters : StarterConfirms(s))
  /\ SF_vars(pairState = "BEACONING" /\ HearAck)
  /\ SF_vars(pairState # "BEACONING" /\ HearConfirm)

-----------------------------------------------------------------------------
\* Types and ranges of the variables, and the bounds of the counters.
TypeOK ==
  /\ pc \in Stages
  /\ boots \in 0..MaxBoots /\ bootRepair \in BOOLEAN /\ torn \in BOOLEAN
  /\ pairState \in PairState
  /\ staged \in Starters \cup {"NONE"}
  /\ donePending \in BOOLEAN /\ doneRetries \in 0..DONE_RETRIES
  /\ beaconAge \in 0..BEACON_INTERVAL /\ doneAge \in 0..(DONE_WAIT + DONE_RETRY)
  /\ scanAge \in 0..SCAN_TIMEOUT
  /\ peerCached \in {-1, 0, 1} /\ initDone \in BOOLEAN
  /\ confirmStatus \in BOOLEAN /\ bootPrime \in BOOLEAN
  /\ chan \in Byte \X Byte /\ gSync \in Byte \X Byte
  /\ tx \in {"NONE", "REQ", "DONE", "CMD", "PING"}
  /\ msgTxd \in BOOLEAN /\ tries \in 0..MAX_RETRY
  /\ buttonEn \in [Keys -> BOOLEAN]
  /\ peer \in Starters \cup {"NONE", "TORN"}
  /\ msb \in Byte /\ lsb \in Byte /\ sentinel \in BOOLEAN
  /\ uplink \in {"NONE", "REQ", "DONE", "CMD", "PING"}
  /\ downlink \in Frame \cup {NoFrame}
  /\ bound \in [Starters -> BOOLEAN]

\* The sync word in EEPROM is the one of the peer in EEPROM, although the two
\* reach EEPROM by different variables (the staged serial; g_operSync*, which
\* give-ups, reverts and watchdog resets load anew in the middle of a pairing),
\* unless power failed in the last commit.
StoredSyncIsPeers ==
  peer \in Starters /\ ~torn /\ pc \notin Saving => <<msb, lsb>> = SyncWord[peer]

\* A paired remote that is not pairing is on the channel of its records, with
\* the stop key alive ("once paired, the stop key must always work"): after
\* boots, commits, aborted attempts, give-ups, resets and sleeps alike.
PairedIsOperational ==
  pc # "off" /\ pairState = "IDLE" /\ peer # "NONE" =>
    /\ ~torn => chan = <<msb, lsb>>
    /\ buttonEn["M1_OFF"]

\* "a loose battery or unexpected reset must never silently put a field-deployed
\* remote into pairing mode" (pairRemoteNode.h:252-253), whatever a power
\* failure has left in EEPROM.
PairingIsDeliberate ==
  [][pairState = "IDLE" /\ pairState' # "IDLE" => bootRepair' \/ ~sentinel]_vars

\* A remote takes a starter for its peer only if that starter has recorded the
\* remote: "Starter confirmed our 0x0F" (pairRemoteNode.h:365).  It needs a single
\* starter in pairing mode within reach and no other pairing next door: the
\* remote compares neither who confirms nor whom.
CommitIsMutual ==
  [][peer' # peer /\ peer' \in Starters => bound[peer']]_vars

\* "Cannot affect pairing: ackReception() returns immediately unless msgTxd is
\* set" (Naren_atttiny_sx_RMT_V1.ino:147): a pairing stays on its channel.
PairingOnPairChannel ==
  pc # "off" /\ pairState # "IDLE" => chan = PairChannel

\* "Sentinel absent -> device has never completed a successful pairing ...
\* Auto-enter pairing" (pairRemoteNode.h:244-245): no remote works as paired
\* without its sentinel.
OperatesOnlyCommitted == peerCached = 1 /\ pc \notin {"off", "join"} => sentinel

\* A remote that was paired before does not pair for ever, under all faults.
RepairEnds == pairState # "IDLE" /\ sentinel ~> pairState = "IDLE"

\* A new remote near a starter in pairing mode is paired in the end, if frames
\* get through now and then.
NewRemotePairs == <>(peer \in Starters /\ sentinel)

=============================================================================
