------------------------------ MODULE RadioLoop ------------------------------
(***************************************************************************)
(* The main loop as the radio chip and the watchdog timer see it: which    *)
(* transactions every handler makes (Sx126x), how long it blocks, and      *)
(* where it resets the watchdog timer.  CommandLink and Pairing say when   *)
(* commands and pairings make progress; here only that they do matters.    *)
(*                                                                         *)
(* The fault is a BUSY line that stays high: at any transaction of any     *)
(* handler, up to MaxStalls times.                                         *)
(*                                                                         *)
(* A pass of loop() goes through the stages in the order of Place; a stage *)
(* where nothing is due is passed over without a step.                     *)
(***************************************************************************)
EXTENDS Sx126x

CONSTANTS
  Profile,      \* the LoRa profile the firmware is built for
  Bindings,     \* what EEPROM may hold at first: see binding
  MaxStalls,    \* bound: transactions that stall
  MAX_RETRY     \* the 3 of ackReception()

ASSUME LoopAssumption ==
  /\ Profile \in Profiles
  /\ Bindings \subseteq {"fresh", "torn", "lost", "paired"}
  /\ MaxStalls \in Nat /\ MAX_RETRY \in Nat

\* What the two timeouts leave room for: a handler's pauses (a give-up's are the longest)
\* next to one stalled transaction, and the low-battery alert, which makes none.
\* A commit's pauses do not fit.
ASSUME WatchdogAssumption ==
  /\ BUSY_TIMEOUT_MS + 960 <= WDT_PERIOD_MS
  /\ 2190 <= WDT_PERIOD_MS
  /\ WDT_PERIOD_MS < BUSY_TIMEOUT_MS + 1596

VARIABLES
  stage,
  \* the chip, and whether a transaction was lost since it was last reset
  chip, cut,
  dog,             \* the watchdog timer
  handler,         \* what ran last
  stalls,
  \* sx1268Main.h
  radio_state, pairing_mode, tx_length,
  quiet,           \* a window has passed without an interrupt: last_radio_activity is old
  \* button.h, lowPow.h
  msgTxd, tries, wkup,
  \* pairRemoteNode.h, eeprom.h
  pairState,       \* WAIT stands for WAIT_TX_DONE and WAIT_CONFIRM
  binding,         \* what EEPROM holds: "fresh" nothing, "torn" only a peer's serial,
                   \* "lost" only the sentinel, "paired" both
  shots            \* the one-shots: subset of {"status", "prime"}

hardware == <<chip, cut, dog, stalls>>
radio    == <<radio_state, pairing_mode, tx_length, quiet>>
command  == <<msgTxd, tries, wkup>>
pairing  == <<pairState, binding, shots>>
vars     == <<stage, hardware, handler, radio, command, pairing>>

\* lowPowerPoll() and hwbuttonFunc(); sx1268Func(), which ends with the radio watchdog;
\* ackReception(); pairRemNodeTick(); the battery check and watchdogReset().
Place ==
  [button |-> 1, radio |-> 2, watch |-> 3, ack |-> 4, pair |-> 5, rest |-> 6]
Stages      == {"boot", "asleep"} \cup DOMAIN Place
RadioStates == {"IDLE", "TX_SETUP", "TX_WAIT", "RX_SETUP", "RX_WAIT"}

-----------------------------------------------------------------------------
(* Programs: what the handlers do to the chip.                             *)

\* static inline: value is 0 if the read fails, and is written all the same.
radioApplyIqWorkaroundOverride ==
  Call(<<[op |-> "local"], Read("iqPolarity")>>) \o Call(<<Modify({2}, {}), Write("iqPolarity")>>)

PairPkt(len) == [pre |-> 8, len |-> len]
OperPkt      == [pre |-> 12, len |-> 5]

Packets(pkt) == set_lora_pkt_params(pkt) \o radioApplyIqWorkaroundOverride

SwitchTo(mod, pkt, sync, dbm) ==
  set_standby \o set_lora_mod_params(mod) \o Packets(pkt)
  \o write_sync(sync) \o set_tx_params(dbm) \o clear_irq_status
switchToPairChannel        == SwitchTo(PairMod, PairPkt(32), "PAIR", 14)
switchToOperationalChannel == SwitchTo(OperMod(Profile), OperPkt, "OPER", 22)

startClock == set_standby \o set_dio3_as_tcxo_ctrl \o cal
frontEnd(f1, f2) ==
  set_standby \o set_reg_mode \o cal_img(f1, f2) \o set_dio2_as_rf_sw \o set_pkt_type
  \o set_rf_freq(867100000) \o set_pa_cfg \o set_ocp_value(56)
pairChannel ==
  set_tx_params(14) \o set_lora_mod_params(PairMod) \o Packets(PairPkt(32)) \o write_sync("PAIR")
buffersAndInterrupts ==
  set_buffer_base(0, 128) \o cfg_tx_clamp \o write_rx_gain(150) \o init_retention_list
  \o set_dio_irq_params \o get_device_errors \o clear_device_errors

\* Mutant: the image calibration band of the 900 MHz modules.
sx1268Init_Band900 ==
  reset \o Wait(10) \o startClock \o Wait(50) \o frontEnd(225, 233) \o pairChannel
  \o buffersAndInterrupts

\* The TCXO settles for 50 ms before the chip calibrates.
sx1268Init ==
  reset \o Wait(10) \o startClock \o Wait(50) \o frontEnd(215, 219) \o pairChannel
  \o buffersAndInterrupts

\* buz.h: notes of 62, 62 and 125 ms, each with a pause of a fifth.
noNetworkTone == Wait(62 + 12) \o Wait(62 + 12) \o Wait(125 + 25)
\* buz.h: five notes, each with a pause of three tenths.
motorOnTone   ==
  Wait(71 + 21) \o Wait(71 + 21) \o Wait(83 + 24) \o Wait(83 + 24) \o Wait(111 + 33)
\* led.h and the beeps of the caller.
lowBattAlert  == Wait(5 * (200 + 150)) \o Wait(80 + 100 + 80 + 100 + 80)

\* EEPROM.update() takes 4 ms for each of the 24 bytes that changes.
EepromMs == 24 * 4

-----------------------------------------------------------------------------
(* Running one.                                                            *)

Alive == ~dog.expired

\* The handler `name` runs its program on the chip `from`; a transaction may stall.
RunOn(name, program, from) ==
  /\ Alive
  /\ handler' = name
  /\ \E at \in 0..(IF stalls < MaxStalls THEN Size(program) ELSE 0) :
       LET d == Execute(program, [chip |-> from, cut |-> cut, buf |-> {}, skip |-> FALSE,
                                  n |-> 0, at |-> at, dog |-> dog])
       IN
       /\ at > 0 => d.n >= at
       /\ chip' = d.chip /\ cut' = d.cut /\ dog' = d.dog
       /\ stalls' = IF at > 0 THEN stalls + 1 ELSE stalls

Run(name, program) == RunOn(name, program, chip)

\* Where nothing need be due.
MayPass(s) ==
  CASE s = "button" -> ~wkup
    [] s = "radio"  -> radio_state \notin {"TX_SETUP", "RX_SETUP"}
    [] s = "pair"   -> /\ shots \subseteq (IF msgTxd THEN {"status"} ELSE {})
                       /\ ~(pairState = "IDLE" /\ binding = "fresh")
    [] OTHER        -> TRUE

Reached(s) ==
  \/ stage = s
  \/ /\ stage \in DOMAIN Place /\ s \in DOMAIN Place /\ Place[stage] < Place[s]
     /\ \A q \in DOMAIN Place : Place[q] \in Place[stage]..(Place[s] - 1) => MayPass(q)

Goes(from, to) == Reached(from) /\ stage' = to

\* send_lora_data(): the frame replaces whatever the radio was about to do.
send_lora_data(len) == radio_state' = "TX_SETUP" /\ tx_length' = len

\* remTxButtonCmd().
StartCommand ==
  /\ send_lora_data(5)
  /\ msgTxd' = TRUE /\ tries' = 0

Tuned(pairMode) == radio_state' = "IDLE" /\ pairing_mode' = pairMode

\* Both records of EEPROM.  A commit that power cut off leaves the serial alone.
HasPeer           == binding \in {"torn", "paired"}
isPairSentinelSet == binding \in {"lost", "paired"}

-----------------------------------------------------------------------------
(* setup(), with the watchdog timer off until its end.                     *)

Boot(combo) ==
  LET start == IF combo THEN switchToPairChannel \o Wait(300)
               ELSE IF HasPeer THEN switchToOperationalChannel
               ELSE <<>>
  IN
  /\ Goes("boot", "button")
  /\ Run("setup", watchdogDisable \o sx1268Init \o start \o watchdogInit)
  /\ Tuned(combo) /\ tx_length' = 32 /\ quiet' = FALSE
  /\ msgTxd' = FALSE /\ tries' = 0 /\ wkup' = FALSE
  /\ pairState' = IF combo THEN "BEACONING" ELSE "IDLE"
  /\ shots' = IF ~combo /\ HasPeer THEN {"prime"} ELSE {}
  /\ UNCHANGED binding

\* The watchdog timer has expired: the MCU starts again.
Reset ==
  /\ ~Alive
  /\ stage' = "boot"
  /\ dog' = [on |-> FALSE, ms |-> 0, stalls |-> 0, expired |-> FALSE]
  /\ UNCHANGED <<chip, cut, stalls, handler, radio, command, pairing>>

-----------------------------------------------------------------------------
(* button: lowPowerPoll(), then hwbuttonFunc().                            *)

\* 30 s after the last kick: ackReception() and pairRemNodeTick() kick.
SleepDue == Goes("button", "asleep") /\ ~msgTxd /\ ~wkup /\ pairState = "IDLE"

Sleep ==
  /\ SleepDue
  /\ Run("enterSleep", set_sleep \o watchdogDisable)
  /\ UNCHANGED <<radio, command, pairing>>

WakeUp ==
  watchdogInit \o watchdogReset \o sx1268Init \o watchdogReset
  \o switchToOperationalChannel \o watchdogReset

Wake ==
  /\ Goes("asleep", "button")
  /\ Run("enterSleep", WakeUp)
  /\ Tuned(FALSE) /\ wkup' = TRUE
  /\ UNCHANGED <<tx_length, quiet, msgTxd, tries, pairing>>

\* The STATUS that a wake-up owes.  The timer is reset only while STA is held.
WakeStatus ==
  /\ Goes("button", "radio")
  /\ wkup /\ wkup' = FALSE
  /\ Run("wake_STATUS", Wait(50) \o Wait(50))
  /\ StartCommand
  /\ UNCHANGED <<pairing_mode, quiet, pairing>>

\* A key held for long, with the timer reset meanwhile, makes the radio's last
\* interrupt look old.
KeyCommand ==
  /\ Run("key", watchdogReset \o Wait(50))
  /\ quiet' \in {quiet, TRUE}
  /\ StartCommand
  /\ UNCHANGED <<pairing_mode, wkup, pairing>>

Press == Goes("button", "radio") /\ ~wkup /\ ~msgTxd /\ KeyCommand

\* OFF while a command is pending: the retries and their timer start afresh.
\* (Which command is pending is not modelled: never a light command.)
PreemptDue == Goes("button", "radio") /\ ~wkup /\ msgTxd

Preempt == PreemptDue /\ KeyCommand

-----------------------------------------------------------------------------
(* radio: the switch of sx1268Func().                                      *)

IdleEnds ==
  /\ Goes("radio", "watch") /\ Alive
  /\ radio_state = "IDLE" /\ radio_state' = "RX_SETUP"
  /\ UNCHANGED <<hardware, handler, pairing_mode, tx_length, quiet, command, pairing>>

\* Mutant: the packet parameters are not armed again.
TxProgram_NotRearmed ==
  set_standby \o set_buffer_base(0, 128) \o write_buffer(tx_length) \o clear_irq_status
  \o set_tx(0)

TxProgram ==
  set_standby \o Packets(IF pairing_mode THEN PairPkt(tx_length) ELSE OperPkt)
  \o set_buffer_base(0, 128) \o write_buffer(tx_length) \o clear_irq_status \o set_tx(0)

TxSetup ==
  /\ Goes("radio", "watch")
  /\ radio_state = "TX_SETUP" /\ radio_state' = "TX_WAIT"
  /\ Run("TX_SETUP", TxProgram)
  /\ UNCHANGED <<pairing_mode, tx_length, quiet, command, pairing>>

\* DIO1 rises when the chip raises an interrupt that is unmasked and none was raised.
Interrupts == chip.mode \in {"TX", "RX"} /\ chip.irqMask /\ ~chip.irqs
\* (Its buffer is written before it is read again: nothing depends on what it holds.)
Raised == [chip EXCEPT !.mode = "STDBY", !.irqs = TRUE, !.timer = 0, !.fifo = 0]

TxDone ==
  /\ Goes("radio", "watch")
  /\ radio_state = "TX_WAIT" /\ radio_state' = "RX_SETUP"
  /\ Interrupts
  /\ RunOn("TX_WAIT", clear_irq_status, Raised)
  /\ quiet' = FALSE
  /\ UNCHANGED <<pairing_mode, tx_length, command, pairing>>

\* A chip that transmits ends within TX_TIMEOUT_MS (AirtimeFits), heard or not.
TxTimedOut ==
  /\ Goes("radio", "watch")
  /\ radio_state = "TX_WAIT" /\ radio_state' = "IDLE"
  /\ ~Interrupts
  /\ RunOn("TX_WAIT", clear_irq_status,
           IF chip.mode = "TX" THEN [chip EXCEPT !.mode = "STDBY"] ELSE chip)
  /\ quiet' = TRUE
  /\ UNCHANGED <<pairing_mode, tx_length, command, pairing>>

RxSetup ==
  /\ Goes("radio", "watch")
  /\ radio_state = "RX_SETUP" /\ radio_state' = "RX_WAIT"
  /\ Run("RX_SETUP", set_standby \o set_buffer_base(0, 128) \o clear_irq_status
                      \o write_rx_gain(150) \o set_rx(RX_TIMEOUT_MS(Profile)))
  /\ UNCHANGED <<pairing_mode, tx_length, quiet, command, pairing>>

\* Chip and MCU time the same RX_TIMEOUT_MS: the interrupt of a healthy chip may come
\* just too late to be seen.
RxTimedOut ==
  /\ Goes("radio", "watch")
  /\ radio_state = "RX_WAIT" /\ radio_state' = "IDLE"
  /\ RunOn("RX_WAIT", clear_irq_status, IF Interrupts THEN Raised ELSE chip)
  /\ quiet' = TRUE
  /\ UNCHANGED <<pairing_mode, tx_length, command, pairing>>

\* An interrupt that brings no frame: TIMEOUT, or a CRC or header error ("rx_error").
RxNothing(name) ==
  /\ Goes("radio", "watch")
  /\ radio_state = "RX_WAIT" /\ radio_state' = "IDLE"
  /\ Interrupts
  /\ RunOn(name, get_irq_status \o clear_irq_status, Raised)
  /\ quiet' = FALSE
  /\ UNCHANGED <<pairing_mode, tx_length, command, pairing>>

\* One that brings a frame, and what the handler of the frame does to the chip.
\* The frame is what the stack held if one of the two reads was lost.
RxFrame(name, program) ==
  /\ Goes("radio", "watch")
  /\ radio_state = "RX_WAIT" /\ radio_state' = "IDLE"
  /\ Interrupts /\ chip.mode = "RX"
  /\ RunOn(name, get_irq_status \o get_rx_buffer_status \o stop_rtc \o read_buffer
                 \o program \o clear_irq_status, Raised)
  /\ quiet' = FALSE

\* remHandleRsp(): ON chimes; of the others a voltage fault blocks longest.
RxRsp ==
  /\ \/ RxFrame("remHandleRsp", watchdogReset \o motorOnTone)
     \/ RxFrame("remHandleRsp", Wait(300 + 100 + 300))
  /\ msgTxd' = FALSE /\ tries' = 0
  /\ UNCHANGED <<pairing_mode, tx_length, wkup, pairing>>

RxIgnored ==
  /\ RxFrame("RX_WAIT", <<>>)
  /\ UNCHANGED <<pairing_mode, tx_length, command, pairing>>

\* pairRemNodeHandleAck().
RxAck ==
  /\ pairing_mode /\ pairState = "BEACONING"
  /\ RxFrame("pairRemNodeHandleAck", Wait(100))
  /\ pairState' = "WAIT"
  /\ UNCHANGED <<pairing_mode, tx_length, command, binding, shots>>

CommitProgram ==
  watchdogReset \o Wait(EepromMs) \o Wait(1000) \o Wait(500)
  \o sx1268Init \o switchToOperationalChannel

\* pairRemNodeCommit().
RxConfirm ==
  /\ pairing_mode /\ pairState = "WAIT"
  /\ RxFrame("pairRemNodeCommit", CommitProgram)
  /\ pairing_mode' = FALSE
  /\ pairState' = "IDLE" /\ binding' = "paired" /\ shots' = shots \cup {"status"}
  /\ UNCHANGED <<tx_length, command>>

-----------------------------------------------------------------------------
(* watch: 60 s without an interrupt.                                       *)

RadioWatchdog ==
  /\ Goes("watch", "ack")
  /\ quiet /\ quiet' = FALSE
  /\ Run("radio_watchdog", sx1268Init \o switchToOperationalChannel)
  /\ Tuned(FALSE)
  /\ UNCHANGED <<tx_length, command, pairing>>

-----------------------------------------------------------------------------
(* ack: ackReception().                                                    *)

\* The wait has passed: a command whose own frame is sent in this pass is not due.
AckIsDue ==
  /\ Goes("ack", "pair") /\ msgTxd
  /\ stage = "watch" /\ radio_state = "TX_WAIT" => pairing_mode

\* Mutant: one retry too many.
RetryDue_OffByOne == AckIsDue /\ tries <= MAX_RETRY /\ tries' = tries + 1

RetryDue == AckIsDue /\ tries < MAX_RETRY /\ tries' = tries + 1

Retry ==
  /\ RetryDue
  /\ Run("retry", Wait(300))
  /\ send_lora_data(5)
  /\ UNCHANGED <<pairing_mode, quiet, msgTxd, wkup, pairing>>

\* Mutant: the watchdog timer is not reset after the tone.
GiveUpProgram_OnePet ==
  watchdogReset \o noNetworkTone \o Wait(900)
  \o sx1268Init \o switchToOperationalChannel

GiveUpProgram ==
  watchdogReset \o noNetworkTone \o watchdogReset \o Wait(300) \o Wait(300) \o Wait(300)
  \o sx1268Init \o switchToOperationalChannel

GiveUpDue == AckIsDue /\ tries >= MAX_RETRY /\ msgTxd' = FALSE /\ tries' = 0

GiveUp ==
  /\ GiveUpDue
  /\ Run("give_up", GiveUpProgram)
  /\ Tuned(FALSE)
  /\ UNCHANGED <<tx_length, quiet, wkup, pairing>>

-----------------------------------------------------------------------------
(* pair: pairRemNodeTick().                                                *)

\* The one-shots.  (Both are only ever due on a paired, idle remote.)
ConfirmStatus ==
  /\ Goes("pair", "rest") /\ Alive
  /\ handler' = "pairRemNodeTick"
  /\ "status" \in shots /\ ~msgTxd /\ shots' = shots \ {"status"}
  /\ StartCommand
  /\ UNCHANGED <<hardware, pairing_mode, quiet, wkup, pairState, binding>>

BootPrime ==
  /\ Goes("pair", "rest") /\ Alive
  /\ handler' = "pairRemNodeTick"
  /\ "prime" \in shots /\ shots' = shots \ {"prime"}
  /\ IF msgTxd THEN UNCHANGED radio
     ELSE send_lora_data(1) /\ UNCHANGED <<pairing_mode, quiet>>
  /\ UNCHANGED <<hardware, command, pairState, binding>>

EnterPair ==
  /\ Goes("pair", "rest")
  /\ pairState = "IDLE" /\ pairState' = "BEACONING"
  /\ binding = "fresh"
  /\ Run("enterRemNodePairMode", switchToPairChannel \o Wait(300))
  /\ Tuned(TRUE)
  /\ UNCHANGED <<tx_length, quiet, command, binding, shots>>

\* The alert of a remote that has lost its peer: three beeps.
NoPeerAlert ==
  /\ Goes("pair", "rest")
  /\ pairState = "IDLE" /\ binding = "lost"
  /\ Run("no_peer_alert", Wait(3 * (100 + 150)))
  /\ UNCHANGED <<radio, command, pairing>>

\* REQ and DONE frames.
PairSend ==
  /\ Goes("pair", "rest") /\ Alive
  /\ handler' = "pairRemNodeTick"
  /\ \/ pairState = "BEACONING" /\ send_lora_data(21)
     \/ pairState = "WAIT" /\ send_lora_data(5)
  /\ UNCHANGED <<hardware, pairing_mode, quiet, command, pairing>>

\* Mutant: the state machine keeps beaconing.
pairRemNodeRevert_Stays == UNCHANGED pairState

pairRemNodeRevert == pairState' = "IDLE"

\* A scan that found nobody, or no confirmation: the previous peer is restored.
\* Without the sentinel a scan has no end.
RevertDue ==
  /\ Goes("pair", "rest")
  /\ \/ pairState = "BEACONING" /\ isPairSentinelSet
     \/ pairState = "WAIT"
  /\ pairRemNodeRevert

Revert ==
  /\ RevertDue
  /\ Run("pairRemNodeRevert",
         watchdogReset \o switchToOperationalChannel \o Wait(150 + 120 + 150))
  /\ Tuned(FALSE)
  /\ UNCHANGED <<tx_length, quiet, command, binding, shots>>

-----------------------------------------------------------------------------
(* rest: the battery, then watchdogReset() and delay(5).                   *)

EndOfPass == watchdogReset \o Wait(5)

NoCheck ==
  /\ Goes("rest", "button")
  /\ Run("loop", EndOfPass)
  /\ UNCHANGED <<radio, command, pairing>>

\* ADC readings of the 1.1 V reference: of a full battery, and below the minimum,
\* which a flat battery, one under the load of the transmitter, and up to two
\* disturbed reads of three show.
Full == 400
Low  == 520
Readings(flat) ==
  IF flat \/ chip.mode = "TX" THEN {<<Low, Low, Low>>}
  ELSE {r \in [1..3 -> {Full, Low}] : \E i \in 1..3 : r[i] = Full}

\* Mutant: the check does not wait for the transmission to end.
MayCheck_Always == TRUE

MayCheck == radio_state \notin {"TX_SETUP", "TX_WAIT"}

BatteryCheck ==
  /\ Goes("rest", "button")
  /\ MayCheck
  /\ \E flat \in BOOLEAN : \E ok \in {battCheck(r) : r \in Readings(flat)} :
       IF ok THEN Run("loop", EndOfPass)
       ELSE Run(IF flat THEN "loop" ELSE "false_alert",
                watchdogReset \o lowBattAlert \o EndOfPass)
  /\ UNCHANGED <<radio, command, pairing>>

-----------------------------------------------------------------------------
Init ==
  /\ stage = "boot" /\ chip = ResetChip /\ cut = FALSE
  /\ dog = [on |-> FALSE, ms |-> 0, stalls |-> 0, expired |-> FALSE]
  /\ handler = "setup" /\ stalls = 0
  /\ radio_state = "IDLE" /\ pairing_mode = FALSE /\ tx_length = 32 /\ quiet = FALSE
  /\ msgTxd = FALSE /\ tries = 0 /\ wkup = FALSE
  /\ pairState = "IDLE" /\ shots = {}
  /\ binding \in Bindings

Loop ==
  \/ \E combo \in BOOLEAN : Boot(combo)
  \/ Reset
  \/ Sleep \/ WakeStatus \/ Press \/ Preempt
  \/ IdleEnds \/ TxSetup \/ TxDone \/ TxTimedOut
  \/ RxSetup \/ RxTimedOut \/ RxNothing("RX_WAIT") \/ RxNothing("rx_error")
  \/ RxRsp \/ RxIgnored \/ RxAck \/ RxConfirm
  \/ RadioWatchdog \/ Retry \/ GiveUp
  \/ ConfirmStatus \/ BootPrime \/ EnterPair \/ NoPeerAlert \/ PairSend \/ Revert
  \/ NoCheck \/ BatteryCheck

Next == Loop \/ Wake

\* The loop runs on unless the remote sleeps (the user need not wake it).  Nothing a
\* program does can disable a step, so fairness need only look at the guards.
Moves == stage # "asleep" /\ stage' \in Stages \ {stage}

\* What sets the timer of a pending command again: OFF, and a corrupted frame, which puts
\* the retry FAST_RETRY into the future.  Nothing in the code limits either.
KeepsPostponing ==
  []<><<PreemptDue>>_stage \/ []<>(msgTxd /\ handler = "rx_error")

\* The remaining timers expire unless they are set again for ever: that of a pending
\* command, unless commands end without it; that of falling asleep, which a pending
\* command and a pairing keep setting; that of a revert.
Fairness ==
  /\ WF_stage(Moves)
  /\ SF_stage(RetryDue \/ GiveUpDue) \/ []<>(~msgTxd) \/ KeepsPostponing
  /\ SF_stage(SleepDue) \/ []<>(msgTxd \/ pairState # "IDLE")
  /\ SF_stage(RevertDue)

Spec == Init /\ [][Next]_vars /\ Fairness
-----------------------------------------------------------------------------
(* Properties.                                                             *)

TypeOK ==
  /\ stage \in Stages
  /\ DOMAIN chip = DOMAIN ResetChip
  /\ chip.mode \in {"STDBY", "SLEEP", "TX", "RX"}
  /\ \A r \in {"iqPolarity", "txModulation", "txClamp"} : chip[r] \subseteq 0..7
  /\ Cardinality(chip.retained) <= MAX_NB_REG_IN_RETENTION
  /\ cut \in BOOLEAN
  /\ dog \in [on : BOOLEAN, ms : Nat, stalls : 0..MaxStalls, expired : BOOLEAN]
  /\ stalls \in 0..MaxStalls
  /\ radio_state \in RadioStates /\ pairing_mode \in BOOLEAN
  /\ tx_length \in {1, 5, 21, 32} /\ quiet \in BOOLEAN
  /\ msgTxd \in BOOLEAN /\ tries \in 0..MAX_RETRY /\ wkup \in BOOLEAN
  /\ pairState \in {"IDLE", "BEACONING", "WAIT"}
  /\ binding \in {"fresh", "torn", "lost", "paired"}
  /\ shots \subseteq {"status", "prime"}

\* The carrier lies in the band the image rejection is calibrated for, given in 4 MHz.
InImageBand(c) ==
  LET Pll(mhz) == convert_freq_in_hz_to_pll_step(1000000 * mhz)
  IN  Pll(4 * c.image[1]) <= c.freq /\ c.freq <= Pll(4 * c.image[2])

\* What sx1268Init() owes the chip, and what the channel the program believes in does.
Initialised(c) ==
  /\ c.type = "LORA" /\ c.regulator = "DCDC" /\ c.tcxo /\ c.calibrated /\ c.rfSwitch
  /\ InImageBand(c)
  /\ c.pa /\ c.ocp = 56 /\ c.base = <<0, 128>> /\ c.irqMask /\ c.rxGain = 150
  /\ 2 \in c.txModulation /\ 2 \notin c.iqPolarity /\ 1..4 \subseteq c.txClamp
  /\ {"rxGain", "txModulation", "iqPolarity"} = c.retained

OnChannel(c) ==
  IF pairing_mode
  THEN c.mod = PairMod /\ c.pkt.pre = 8 /\ c.sync = "PAIR" /\ c.pwr = 14
  ELSE c.mod = OperMod(Profile) /\ c.pkt = OperPkt /\ c.sync = "OPER" /\ c.pwr = 22

Configured(c) == Initialised(c) /\ OnChannel(c)

\* A remote that knows a channel: with a peer, or looking for a starter.
Bonded == HasPeer \/ pairing_mode
OnAir  == chip.mode \in {"TX", "RX"}

\* Unless BUSY cost a transaction since the chip was last reset, the chip is on the
\* air only with every setting of sx1268Init() and of the channel switch in effect:
\* in whichever order boot, wake-up, give-up, watchdog, pairing, commit, revert and
\* the two SETUP states have touched it.  A frame of the pairing has its own length.
OnAirAsIntended ==
  OnAir /\ ~cut /\ Bonded =>
    /\ Configured(chip)
    /\ chip.mode = "TX" /\ pairing_mode => chip.pkt.len = chip.fifo

\* What is on the air fits the time the program gives it, in every profile: a frame
\* ends within OPER_TOA_MS, and the timed RX outlasts the longest wait for an answer,
\* fits the chip's 24-bit timer and interrupts well before the radio watchdog
\* ("fires a TIMEOUT IRQ via DIO1 every cycle").  The low data rate optimisation is
\* on exactly where zSettings.h requires it.
AirtimeFits ==
  ~cut /\ Bonded =>
    /\ chip.mode = "TX" =>
         /\ time_on_air_in_ms(chip.pkt, chip.mod) <= OPER_TOA_MS(Profile)
         /\ (chip.mod.ldro = 1) = LdroRequired(chip.mod)
    /\ chip.mode = "RX" =>
         /\ chip.timer > 64 * ACK_WAIT_ON_MS(Profile)
         /\ chip.timer <= MAX_TIMEOUT_IN_RTC_STEP
         /\ chip.timer + 64 * IDLE_DURATION_MS < 64 * REMOTE_WATCHDOG_MS

\* Whatever was lost before, a frame that is started without a stall goes out with
\* the header, preamble, length and IQ polarity of its channel: STATE_TX_SETUP arms
\* them again each time.
FrameIsRearmed ==
  [][ radio_state = "TX_SETUP" /\ radio_state' = "TX_WAIT" /\ stalls' = stalls =>
        /\ chip'.mode = "TX"
        /\ chip'.pkt = IF pairing_mode THEN PairPkt(tx_length) ELSE OperPkt
        /\ chip'.fifo = tx_length
        /\ 2 \notin chip'.iqPolarity ]_vars

\* The watchdog timer never expires in a fault-free remote, and one stalled
\* transaction aborts "before the watchdog resets the MCU" (sx126x_hal.cpp, 33) in every
\* handler except three: a commit blocks for 1.6 s itself, and so do a give-up's blinks
\* followed, in the same pass, by the alert of a remote without a peer or by a new scan.
OneStallIsSurvived ==
  dog.expired =>
    /\ dog.stalls > 0
    /\ dog.stalls = 1 => handler \in {"pairRemNodeCommit", "no_peer_alert", "enterRemNodePairMode"}

\* The low-battery alert is for low batteries: a check is never made while the
\* transmitter pulls the voltage down (the comment in loop()), and one good read of
\* three is enough.
AlertMeansFlat == handler = "false_alert" => cut

\* A paired remote whose chip has lost a setting gets it back, or gets an answer all
\* the same, or sleeps, and then gets it back when it wakes.  The radio watchdog does
\* not see to it: the timed RX keeps interrupting on a wrong channel too.  It is the
\* give-up that does, so it is not promised to a user who presses OFF for ever, or
\* while corrupted frames never stop.
DeafnessEnds ==
  \/ (binding = "paired" /\ ~Configured(chip))
       ~> (Configured(chip) \/ stage = "asleep" \/ handler = "remHandleRsp")
  \/ KeepsPostponing
=============================================================================
