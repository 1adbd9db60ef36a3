# Verification of the remote control firmware

TLA+ models, TLC runs and TLAPS proofs for the firmware of the hand-held remote
(ATtiny1606 + SX1262 LoRa radio) that switches a motor and a light through a
*starter*. The starter and its firmware are not in the repository; they are
part of the environment here.

## 1. The system

### Parts, state, operations

| Part (file) | State it keeps | Operations | What makes it correct |
|---|---|---|---|
| Command link (`button.h`, `remProto.h`, `states.h`) | `msgTxd`, `lastTxCmdCode`, `ackFailAtmp`, `ackTimerMillis`, `buttonEn[]` | `remTxButtonCmd`, `ackReception`, `remHandleRsp` | a command ends, by an answer that belongs to it or by the no-network tone; STOP wins; no key stays dead |
| Radio state machine (`sx1268Main.h`) | `radio_state`, `state_start_time`, `radioBuf`, `dio1_triggered`, `rxCrcError`, `rxHdrError`, `last_radio_activity` | `sx1268Func`, `send_lora_data`, `sx1268Init`, channel switches, DIO1 ISR | no interrupt is lost, no frame of its own is cut off, the receiver always comes back, a hung chip is reset |
| Keypad (`button.h`) | debounce arrays, `staActive`, `staConsumed` | `hwbuttonFunc` | light commands only under STA, motor commands only without, STOP never swallowed |
| Low power (`lowPow.h`) | `lp_last_activity`, `lp_wakeup_flag`, `lp_wkup_stbTx` | `lowPowerPoll`, `enterSleep`, PORTC ISR | never sleeps on a pending command; the press that wakes is served |
| Pairing (`pairRemoteNode.h`) | `pairRemNodeState`, timers, staged starter and sync word, one-shots | `enterRemNodePairMode`, `pairRemNodeTick`, `dispatchPairPkt`, commit, revert | commit only after the starter's confirm; a failed attempt changes nothing |
| Stored records (`eeprom.h`) | peer serial, sync word, sentinel, in EEPROM | save / load, byte by byte | a crash between two bytes leaves a usable device |
| Boot and loop (`.ino`) | `wdtEnabled`, `bootRepair`, `lastBatCheck` | `setup`, `loop` | the order of the stages; re-pairing only after the combo |
| Radio HAL and driver (`src/`) | the chip's registers | SPI transactions behind a BUSY wait, workarounds as read-modify-write | a stuck chip does not stall longer than the watchdog; what is on the air is configured as intended, whatever came before |
| Cipher (`src/aes.c`, `aesMain.h`, `devId.h`) | none | AES-128-CTR, serial to key | encryption and decryption are inverse |
| Battery (`batVol.h`) | none | `readVdd`, `battCheck` | a healthy battery raises no alert |
| Watchdog, buzzer, LEDs (`watDog.h`, `buz.h`, `led.h`) | the timer itself | enable, disable, reset; blocking tones and blinks | no handler blocks for longer than the timer's period |

### How they interact

Everything runs in one thread: `loop()` calls `lowPowerPoll`, `hwbuttonFunc`,
`sx1268Func`, `ackReception`, `pairRemNodeTick` and the battery check, and rests
5 ms. Concurrency comes from

* the SX1262, which finishes transmissions, receives frames and times out on
  its own, and reports through its IRQ status register and the DIO1 line;
* the two interrupt handlers, which set `dio1_triggered` and `lp_wakeup_flag`
  at any instruction, in particular in the blocking parts of a stage (a key
  held down, 300 ms of LED, a tone);
* the user and the starter.

The parts share variables freely: `remTxButtonCmd`, the retry, the warm-up ping,
the post-pairing STATUS and the pairing frames all write the one `radioBuf` and
set `radio_state`; `buttonEn[]` is written in six places; the retry counter and
the answer timer belong to whatever command came last. Messages are lost,
delayed and corrupted, and the reply format has neither sequence number nor
echo. The hard behaviours are therefore: a reply that crosses a retry or a
pre-empting STOP, error flags and timers that outlive the command they belong
to, edge-triggered interrupts, blocking delays, sleep and wake, and power loss
during a commit. `PROJECT.json` lists each under `hazards`, at its line.

## 2. Modules

| Module | Contents |
|---|---|
| `RBP` | commands, statuses and keys (`zSettings.h`, `states.h`) |
| `CommandSession` | what the link promises, without radio, timers and interrupts |
| `CommandLink`, `MCCommandLink` | the operational link: loop stages, radio state machine, chip, DIO1, retries, pre-emption, sleep, radio watchdog, warm-up ping and post-pairing STATUS |
| `CommandLinkProofs` | theorems about `CommandLink` for all constants |
| `Pairing`, `MCPairing` | the pairing handshake, the EEPROM records and their commit, the channel the radio is tuned to, boot and power loss |
| `PairingProofs` | theorems about `Pairing` for all constants |
| `Keypad` | the keys: boot combo, debouncing, STA as modifier, the blocking wait for a release, falling asleep and waking |
| `KeypadProofs` | theorems about `Keypad` |
| `Airtime` | the numbers: LoRa profiles, windows, time on air, PLL and RTC steps, battery conversion |
| `AirtimeProofs` | theorems about them, for every profile and every carrier |
| `Sx126x` | the driver and its HAL: calls as transactions, BUSY stalls, the watchdog timer |
| `Sx126xProofs` | what each step and call of the driver does to the chip and the watchdog timer, and how the parts of a program compose |
| `RadioLoop` | every handler of `loop()` and `setup()` as a program of such calls and pauses |
| `RadioProgramProofs` | what each of these programs does to the chip, and how long it takes |
| `RadioLoopProofs` | theorems about `RadioLoop` for all constants |

All four state machines are views of the same `loop()`, each with the detail its
properties need.
`CommandLink` is a remote that is paired and on its channel; `Pairing` is how it
gets there and what leads it astray; `Keypad` is where commands come from;
`RadioLoop` is what all of them do to the chip. They meet in shared vocabulary
(`RBP`, `Airtime`) and in what each assumes of the others: `Pairing` sees a
pending command as `CommandSession` describes it; `CommandLink` sleeps only
without a pending command, which `Keypad` shows; it assumes an order of the
windows, which `AirtimeProofs` shows of every profile; and `RadioLoop`
takes the progress of commands and pairings from the other two.

### CommandLink

`pc` names the next stage of `loop()`; a stage is one action, or one action per
case of its `switch`. A stage that blocks is cut where it blocks, so that the
chip and the interrupt act in between: `hold` (a key is down), `wdt` (the
watchdog has found silence and re-initialises), `blink` (the 300 ms LED before a
retry), `tone` (the no-network tone before the give-up).

| Code | Model |
|---|---|
| `lowPowerPoll`, `enterSleep` | `StayAwake`, `enterSleep` |
| `hwbuttonFunc` from its decision on | `MayPress`, `PressAndHold`, `Holding`, `Release`, `TapSta`, `NoPress` |
| `remTxButtonCmd`, `send_lora_data` | the operators of the same names |
| `sx1268Func`, by case | `Idle`, `TxSetup`, `TxWait`, `RxSetup`, `RxWait` (with `ReadIrq`), `RadioWatchdog` |
| `remHandleRsp` | `Answers`, `Settle`, `remHandleRsp` |
| `sx1268Init` + `switchToOperationalChannel` | `RadioReinit` |
| `ackReception` | `AckPass`, `AckWait` (with `AckClock`), `Resend`, `GiveUp` |
| one-shots of `pairRemNodeTick` | `pairRemNodeTick`, `WarmUpDue` |
| `delay(5)` | `Rest`: the only place, with `Holding`, where time passes |
| `PORTA_PORT_vect` | `RaiseIrq`: sets `dio1_triggered` on the rising edge only |
| SX1262, starter, air (external) | `ChipGoes`, `ChipTxDone`, `ChipRxTimeout`, `RspBegins`, `RspArrives`, `RspCorrupted`, `RspFades`, `ChipHangs` |

Abstractions, and why they keep what the properties tell apart:

* *Time.* A unit is one pass of the loop, and a frame is a few units long. A
  `millis()` difference is a counter that stops at the largest value any
  comparison distinguishes. Delays shorter than a unit (LED, tones) take no
  time, but every chip event may happen in them. `Overdue` stops time while a
  finished transmission or an expired timed RX is due.
* *Frames.* A received frame is its status and whether its transmission began
  after the pending command was issued (`fresh`, a history variable). A frame
  the program drops for its type, length or magic is `FOREIGN`. A transmitted
  frame is the command it carries, or the warm-up `PING`.
* *The starter* answers whenever and whatever it likes, also unasked: the
  properties hold of the remote alone. Its deferred answers and deduplication
  need not be assumed.
* *The chip* returns to standby by itself after TxDone, RxDone, a header error
  and a timeout; a hung chip ignores commands and shows no flag until the
  hardware reset.
* *The answer clock* `ackAge` has a meaning only while `msgTxd` and is reset to 0
  where the command ends.
* *Sleep* with its wake is one step. The guard `~msgTxd` stands for the idle
  clock: `ackReception` and every press restart it in each pass with a pending
  command. `Keypad` models that clock, and its `SleepDropsNothing` is this guard
  (with the one exception stated there).
* *The keypad's* debouncing, chord and wake path are in `Keypad`; here a press is
  any command the gates of `hwbuttonFunc` let through.
* *The chip's registers* and the transactions that set them are in `RadioLoop`.
* The battery check, feedback tones and LED colours change no state of the link.

### Pairing

`pc` again walks through `loop()`. A commit interrupts the radio stage and is cut
into its EEPROM records (`savePeer`, `saveMsb`, `saveLsb`, `join`), because power
may fail between them.

| Code | Model |
|---|---|
| `setup` | `PowerOn(combo)`: with the boot combo, with a stored peer, without one |
| battery, reset | `PowerOff`, and `TornWrite` for the byte being written |
| `hwbuttonFunc`, `enterSleep` with the STATUS of the wake-up | `NoPress`, `Press`, `SleepAndWake` |
| `sx1268Func` | `Transmit`, `Listen`, `Receives`, `RadioWatchdog` |
| `pairRemNodeHandleAck`, `dispatchPairPkt` | `HearAck`, `HearConfirm` |
| `pairRemNodeCommit` | `SavePeer`, `SaveMsb`, `SaveLsb`, `Join` |
| `pairRemNodeRevert`, `enterRemNodePairMode` | the operators of the same names |
| `switchToPairChannel`, `switchToOperationalChannel` | `switchToPairChannel`, `LoadAndGoOperational` |
| `loadOperSyncWord` | the operator of the same name: an erased byte leaves the variables alone |
| `remHandleRsp`, `ackReception` | `HearRsp`, `AckPass`, `Resend`, `GiveUp` |
| one-shots of `pairRemNodeTick` | `OneShots` |
| its `switch` | `Idle`, `ScanTimeout`, `Beacon`, `WaitTxDone`, `RetryDone`, `ConfirmTimeout` |
| starters, other remotes (external) | `StarterAcks`, `StarterConfirms`, `ForeignFrame` |

Abstractions:

* *The radio* is the frame queued in it and the sync word it is tuned to.
  `pairing_mode` is set and cleared with the sync word, so it is `chan =
  PairChannel`. Every channel switch drops a queued frame, as the code's return to
  `STATE_IDLE` does. A frame takes one pass, in which nothing is heard.
* *A sync word* is a pair of symbolic bytes, so that a word of which one byte was
  written and one was not is neither the old nor the new one.
* *A serial* is a starter, `NONE` (its first byte erased: the test of `setup` and
  `pairRemNodeTick`), or `TORN`.
* *A record* that is rewritten with what it holds is not written at all
  (`EEPROM.update`); otherwise power loss leaves the old byte, the new, or 0xFF.
* *A pending command* has no kind here. STOP pre-empts any, although the code
  lets a light command finish first: `CommandLink` has that rule.
* *The answer timer* of a command may expire in any pass.
* *`StarterAssumption`*: no starter uses the pairing channel's sync word or one
  with a byte 0xFF. The code cannot tell the latter from erased EEPROM.

### Keypad

The user moves the three keys at any time, the program's stages run in between.

| Code | Model |
|---|---|
| boot combo in `setup` | `BootCombo`, `LetGoEarly`, `Held5s`, `ConfirmPress`, `ConfirmTimeout`, `Confirmed`, `Start` |
| `lowPowerPoll`, `enterSleep`, PORTC interrupt | `StayAwake`, `enterSleep`, `SleepCpu`, `WakeUp`, and `Key` for the edge that wakes |
| `hwbuttonFunc` | `WakeScan` (the STATUS a wake-up owes), `Scan` with `Given` and `MotorKeys` |
| `while` the key is down, then the command | `pc = "hold"`, `HoldEnds` |
| what answers, give-ups and pairings do to the keys | `Radio`, `ackReception`, `pairRemNodeTick` |

* *Debouncing.* A key that reads as in the pass before has done so for
  `debounceDelay`, or not: `Scan(old)` takes any set of them.
* *Time* is one bit: `late`, that `LP_TIMEOUT_MS` have passed since the last
  `lowPowerKick`. It may become true in any idle pass and in any wait for a
  release.
* *The sleep race.* `enterSleep` is the decision, `SleepCpu` the instruction; a
  STA edge in between has had its interrupt before and wakes nothing.
* *History variables* `letGo`, `missed`, `chord` remember what the user did.

### Airtime

Constants of `zSettings.h` and `sx1268Main.h` as functions of the profile
(`OperMod`, `OPER_TOA_MS`, `ACK_WAIT_*_MS`, `RX_TIMEOUT_MS`, ...), and the pure
functions of `sx126x.c` under their own names
(`time_on_air_in_ms`, `convert_freq_in_hz_to_pll_step`, ...), `readVdd` and
`battCheck`. The formula's branch for SF5 and SF6 is left out; the firmware asks
for SF7 to SF12.

### Sx126x

A program is a sequence of steps: `Set`, `Read`, `Modify`, `Write` and a few more for the
transactions of a call and the arithmetic on the byte read, `"call"` where a call of the
driver starts, pauses, and what is done to the watchdog timer. Calls are programs, and
programs are joined with `\o`. `Execute` runs one on a chip, step by step (`Do`), as a
recursive function of the step number, in stretches of ten (TLC's stack is not deep enough for
the hundred steps of a commit in one; `ExecuteTrace` shows that it makes no difference). Before each transaction the HAL waits for BUSY; at one of
them (`at`) it may wait in vain, and then the transaction is not made, the steps up to the
next `"call"` are skipped, and the program goes on, because no caller looks at the error.
`reset` alone goes on all the same, as `sx126x_hal_reset` does.
The watchdog timer `dog` adds up pauses and waits since it was last reset.
A chip is a record of settings; the three workaround registers and the TX clamp
are sets of bits, because the code sets, clears and re-sets single bits of them.

Left out: the functions nothing calls (GFSK, BPSK, CAD, duty cycle, statistics),
opcodes and byte order.

### RadioLoop

| Code | Model |
|---|---|
| `sx1268Init`, `switchTo*Channel`, `radioApplyIqWorkaroundOverride` | programs of the same names |
| `setup`, reset by the watchdog timer | `Boot(combo)`, `Reset` |
| `enterSleep` | `Sleep`, `Wake` |
| `hwbuttonFunc` | `WakeStatus`, `Press`, `Preempt` (an OFF over a pending command: the retries start afresh) |
| `sx1268Func`, by case and outcome | `IdleEnds`, `TxSetup`, `TxDone`, `TxTimedOut`, `RxSetup`, `RxTimedOut`, `RxNothing`, `RxRsp`, `RxIgnored`, `RxAck`, `RxConfirm`, `RadioWatchdog` |
| `ackReception` | `Retry`, `GiveUp` |
| `pairRemNodeTick` | `ConfirmStatus`, `BootPrime`, `EnterPair`, `NoPeerAlert`, `PairSend`, `Revert` |
| battery check, end of `loop` | `BatteryCheck`, `NoCheck` |

* A stage of the loop in which nothing happens is passed over (`Reached`,
  `MayPass`), so that a run is a sequence of handlers that do something, in the
  order of the loop and with the watchdog timer's account between them.
* Timers may expire whenever their state is entered; the order of windows that
  the chip's own timer imposes is in `AirtimeFits`.
* Pauses are those of the code in milliseconds (`delay`, tones, EEPROM writes);
  instructions and SPI clocks take no time.
* The interrupt edge is simplified to "the chip interrupts, or the software
  timeout comes": what happens between edge and flag is `CommandLink`'s subject.
* A stalled read leaves the caller's variable as it was: unknown. A frame that
  was not read may be any frame a handler can take.
* Registers no setting depends on are left out: each access of `sx126x_stop_rtc` to the
  timer's is a transaction that may stall and changes nothing (`Exchange`). What the data
  buffer holds is forgotten when the chip has raised its interrupt (`Raised`): `TX_SETUP`
  writes it before the chip reads it again.
* Which command is pending is not modelled: `Preempt` is possible over any of them,
  although the code lets a light command finish first (`CommandLink` has that rule).
* Chip and program time the same `RX_TIMEOUT_MS`: `RxTimedOut` may overtake the interrupt
  of a healthy chip, which is then cleared unseen.
* `binding` is what EEPROM holds: both serial and sentinel, one of them (`torn`, `lost`), or
  nothing (`fresh`). A scan ends only with the sentinel (`RevertDue`).
* Corrupted frames (`RxNothing("rx_error")`) are told apart from the end of the timed RX,
  because they postpone the retry.

### CommandSession and the refinement

`CommandSession` is the contract: at most one pending command, transmitted once
and repeated at most `MaxRetries` times; ended by an answer that began after the
key press or by the no-network tone after the last repetition; STOP may replace
a motor or status command, nothing but STOP replaces STOP. `CommandLink`
implements it under the mapping at its end (`Session`, `ImplementsSession`):
`pending` is `lastTxCmdCode` while `msgTxd`, `tries` is `ackFailAtmp`, `reply` is
the intact fresh reply that waits in the radio.

## 3. Runs

Runs `link_*` are of `MCCommandLink`, `pairing_*` of `MCPairing`, `keypad_*` of
`Keypad`, `radio_safety` of `RadioLoop`.

| Run | Checks | Shows |
|---|---|---|
| `link_safety` | `TypeOK`, `NoLostEdge`, `TxNotCut`, `FrameIsPending`, `OnlyFreshReplies`, `NoDeadKeys`, `OnlyStopPreempts`, `AnswerIsForThisCommand`, `ImplementsSession`, no deadlock | 1.25 million states with three retries, four kinds of key, all faults |
| `link_liveness` | `EveryCommandEnds`, `AlwaysListensAgain`, `ChipRecovers` | under `FairSpec` |
| `pairing_safety` | `TypeOK`, `StoredSyncIsPeers`, `PairedIsOperational`, `PairingIsDeliberate`, `RepairEnds`, no deadlock | 1.7 million states under `LoopSpec`: two boots, keys, foreign frames, watchdog resets and power lost at any write, together |
| `pairing_new` | `NewRemotePairs`, `CommitIsMutual` | under `AirSpec`, with a legacy starter that answers |
| `keypad_safety` | `TypeOK`, `ChordMeansHeld`, `ChordOrTap`, `SleepDropsNothing`, `WakeAnswers`, no deadlock | 0.54 million states; no bound at all, the module is finite |
| `radio_safety` | `TypeOK`, `OnAirAsIntended`, `AirtimeFits`, `OneStallIsSurvived`, `AlertMeansFlat`, `FrameIsRearmed`, `DeafnessEnds`, no deadlock | 0.12 million states: every handler of a remote that is new, half-bound or paired, with BUSY stalled at every one of its transactions |
| `link_retry_over_reply`, `link_stale_crc`, `pairing_key_press`, `pairing_torn_commit`, `keypad_stop`, `keypad_boot` | one property each | violated, see below |

*Bounds of the link.* The time constants keep the order of the code's (`TimingAssumption`):
pause < frame < TX timeout < STATUS window < OFF window < ON window < RX window <
radio watchdog, with the fast retry shorter than a frame, as on the active
profile (500 ms against 1319 ms). The safety run uses the code's three retries
and every kind of command (motor on, motor off, light, status); one light command
stands for both, they are never told apart. The liveness run uses one retry and
shorter windows: the retry loop is the same at each count, and the counting
itself is in the safety run and in the proofs.

*Fairness of the link.* `WF(Loop)`: the MCU runs nothing else. `WF(Radio)`: the chip reports
TxDone and the end of a timed RX (unless it hangs, which disables both).
`WF(Release)`: a user lets go of a key at last. Nothing is assumed of the
starter, the air, or the user's next press. The two escapes in the liveness
properties are real: a user who presses STOP for ever restarts its retries for
ever, and each corrupted frame postpones the retry.

*Bounds of pairing.* Two starters are what it takes to confuse one with the other;
one of them answers, and the foreign frames speak for the other.
The windows keep the order of the code's: the 1 s of `WAIT_TX_DONE` is less than
`PAIR_BEACON_INTERVAL_MS`, the scan window holds several beacons. One repetition
of 0x0F and one of a command show the loop, its end and its reset (the counts are
bounds of `TypeOK`, proved for all values). `MaxBoots`
counts battery insertions: two for what one interrupted attempt leaves behind;
the proofs have no such bound. The battery of the last boot stays in. `Faults`
names what may go wrong in a run: `keys` lets the user press any enabled key,
`hang` lets the radio watchdog strike at any time, `foreign` delivers frames of
other pairings, `crash` lets power fail during a commit. `StoredSyncIsPeers` is
checked with `Legacy = {}`; a legacy starter after a newer one inherits its sync
word (a hazard in `PROJECT.json`).

*Fairness of pairing.* `LoopSpec`: the loop runs while there is power; nothing is
assumed of starters, so `RepairEnds` holds in silence. `AirSpec` adds that
somebody inserts the battery, that a starter answers some of the beacons and
confirmations before the next one is due, and that some answers are heard while
the remote waits for them (strong fairness, because each may be lost many times).
An earlier form without "before the next one is due" was refuted: answers that
are always late collide with the next beacon for ever.

*Keypad* has no bounds. *Fairness*: the loop runs; the user lets go of each key,
and of a key that the program waits for long enough for the program to see it
(strong fairness of `HoldEnds`: without it, a user who hammers the key between
any two reads of the pin keeps the program in the loop for ever).

*Bounds of the radio.* One transaction stalls per run (`MaxStalls`); two within
one handler wait for 6 s, which is beyond a 4 s timer by arithmetic. The profile
is the active one. One retry, as above. All three are bounds of the run only: the
theorems of `RadioLoopProofs` hold of every profile, any number of stalls and of retries,
and every set of `Bindings`. The run starts with each of the four contents of EEPROM (`Bindings`).

*Fairness of the radio*: the loop runs on unless the remote sleeps (`WF` of `Moves`), and the
timers expire unless something sets them again for ever. Each strong fairness condition
names that something:

* a command's next retry or its give-up (`RetryDue`, `GiveUpDue`) comes, unless commands
  keep ending without it, or `KeepsPostponing`: OFF is pressed again and again over a pending
  command, which starts its retries and their timer afresh, or corrupted frames never
  stop while one is pending, each of which puts the retry 500 ms into the future;
* the remote falls asleep (`SleepDue`), unless commands or a pairing keep it awake for ever;
* a scan or a wait for confirmation ends (`RevertDue`).

Fairness is written on guards: a program always runs to its end or to the watchdog
reset, so it cannot disable the action, and TLC need not execute it to know that it is
enabled.

*What some radio properties leave out.* `OnAirAsIntended` and `AirtimeFits` speak of a
remote that knows a channel (`Bonded`). A remote whose serial is lost but whose
sentinel is set boots with `pairing_mode` false and the chip on the pairing
channel's settings: it alerts and does nothing else. `AirtimeFits` speaks of a
receiver that was started; that the driver never refuses a timeout follows from its
constants (10.7 s against the 262 s of the chip's timer). `DeafnessEnds` is about a
paired remote. It is the give-up that restores a lost setting, so it has the two
escapes of `EveryCommandEnds`, joined in `KeepsPostponing`, and is refuted without
either. A factory-fresh remote whose channel switch was cut by a stall beacons on the
wrong settings until the next re-initialisation, which nothing in the program brings
about. `OneStallIsSurvived` names its three exceptions.

### Disagreements between comments and code

With a run:

1. `link_retry_over_reply` - `button.h:172` promises that no retransmission starts
   over an unserviced interrupt. The check (175) and the transmission (209) are
   300 ms of LED apart, and a reply that arrives between them is discarded.
2. `link_stale_crc` - `button.h:179` takes `rxCrcError`/`rxHdrError` for "a reply
   reached us". A corrupted frame on an *idle* link sets them too and nothing
   clears them at a new command, so its first retry is due 500 ms after the press,
   in the middle of its own 1.3 s transmission, and cuts it off.
3. `pairing_key_press` - the comment at `Naren_atttiny_sx_RMT_V1.ino:147` says that
   `ackReception` cannot affect pairing, because nothing in the handshake sets
   `msgTxd`. The STA key does, it is enabled while pairing; the command is given up
   and the give-up (`button.h:198`) tunes the radio to the operational channel. A
   new remote then beacons there until its battery is taken out. The radio watchdog
   (`sx1268Main.h:527`) does the same to a pairing.
4. `pairing_torn_commit` - "Sentinel absent -> device has never completed a successful
   pairing" and pairs automatically (`pairRemoteNode.h:244`): the serial is written
   first, and `setup` looks only at the serial, so a first commit cut short starts
   as a paired remote on a wrong channel and never pairs without the combo.
5. `keypad_stop` - "stop always wins" (`button.h:106`): when the edges of ON and OFF
   are debounced in the same pass, ON is sent, and `break` (153) drops the edge of
   OFF, which is not seen again until the key is pressed anew.
6. `keypad_boot` - "release both buttons, then press STA"
   (`Naren_atttiny_sx_RMT_V1.ino:32`): the confirmation reads the level of STA, so
   the STA still held from the first step confirms.

Without a run, noticed while modelling:

* `pairRemoteNode.h:365` - "Starter confirmed our 0x0F": nothing of a 0x10 is compared (366-367),
  so one that a starter next door sends to its own remote commits a pairing of which the
  starter has heard no 0x0F. `CommitIsMutual`, which `pairing_new` checks without such
  frames, does not hold with them (`Faults = {"foreign"}` in `Pairing_new.cfg`).
* `lowPow.h:57-58` - "sei + sleep_cpu is effectively atomic (no race on pending interrupt
  flag)": interrupts are enabled long before, so a STA that goes down between the last scan
  and `sleep_cpu` has its interrupt too early; `lp_wakeup_flag`, which it sets, is read
  nowhere, and the remote sleeps with the key held. `Keypad` has this behaviour (`SleepCpu`).
* `sx1268Main.h:373` - 60 s of silence are taken for a lock-up. `hwbuttonFunc` blocks the
  loop while a key is held; after 60 s the radio watchdog resets a healthy chip in the pass
  that has just started to transmit the released key's command (its retry then
  delivers it).
* `sx126x_hal.cpp:33` - a stuck BUSY "aborts the transfer before the watchdog
  resets the MCU": not in a commit (1.6 s of its own since the timer was last reset),
  nor in a give-up whose 0.9 s of blinks are followed, in the same pass, by the
  no-peer alert or the start of a scan. `OneStallIsSurvived` shows that these three are all.
* `pairRemoteNode.h:265` - "Buttons stay DISABLED": until the next wake-up or give-up
  enables them.
* `pairRemoteNode.h:107` - a legacy starter's ACK keeps the previous peer's sync word,
  which is then committed.
* `eeprom.h:61` - a sync word with a byte 0xFF reads as erased; the model assumes there is none.

Comments that earlier values of the code have left behind:

* `sx1268Main.h:21-22` - an operational channel of SF11/BW125/CR4-5 on 910 MHz; the active
  profile is SF11/BW62.5/CR4-8 (`zSettings.h:71-77`) on 867.1 MHz (273).
  Line 182 has the old coding rate, too.
* `zSettings.h:45-48` - times on air of 1.7 s, 3.4 s and 0.26 s for the other profiles; by
  the driver's formula they are within the `OPER_TOA_MS` of 720, 1150 and 200 ms
  (`FramesFitProfiles`).
* `sx1268Main.h:109-112` - 2.6 s per packet, 3 s of slack, and timeouts of 6.5 s and 13.5 s at
  SF12; lines 113-114 give 400 ms of slack, and 1.55 s and 10.2 s.
* `zSettings.h:149` - a STATUS window of 2.34 s at `OPER_TOA_MS` 720; with the 1500 ms of
  line 161 it is 2.94 s.
* `sx1268Main.h:316` - gain 0x94 "currently selected"; `OPER_RX_GAIN` is 0x96.
* `pairRemoteNode.h:92-94` - the staged peer is committed after the transmission of 0x0F; it
  is committed at 0x10 (123-125).

## 4. Proofs

All theorems hold for every value of the constants that satisfies the modules'
assumptions and those named here.

### CommandLinkProofs

`TypeCorrect`, `EdgesAreSeen`, `TransmissionsComplete`, `FramesAreCurrent`,
`RepliesAreFresh`, `KeysStayAlive` (the six invariants of `link_safety`),
`StopWins` and `AnswersMatch` (its action properties) and `Refinement`
(`Spec => ImplementsSession`), from `TimingAssumption` and `InputAssumption`.

The inductive invariant `IInv` joins the six invariants with two facts none of
them has by itself:

* `TxClock`: while the chip transmits in `TX_WAIT`, the driver's clock and the
  chip's advance together, so that `OPER_TOA < TX_TIMEOUT` puts TxDone before the
  software timeout; without it `TxNotCut` is not inductive.
* `Blocked`: at `blink` and `tone` a command is pending and its counter leaves
  room for a retry (or not); at `hold` the key held passed `MayPress`. The chip
  acts in these stages, but nothing that ends or replaces a command can.

`NextStep` has one case per action of `Next`, each a lemma of its own;
`Invariance` draws the temporal conclusion. `StopWins` and `AnswersMatch` follow
from `IInv` and lemmas on the steps that change the pending command;
`Refinement` maps each step to a step of `CommandSession` or a stutter.

### PairingProofs

* `TypeCorrect`, under all faults and for any number of boots.
* `RecordsAgree` (`StoredSyncIsPeers`) and `PairedRemoteWorks`
  (`PairedIsOperational`) from `SeparateWords`: no legacy starter, and no two sync
  words that make up the pairing channel from a byte each (a commit cut between
  the two bytes stores such a mixture, and the next boot would tune to it). They
  are proved together: that the stored word is the peer's rests on
  `Handshake` - a remote on the pairing channel holds the word of the starter it
  has staged, because whatever reloads `g_operSync*` tunes the radio away from
  that channel for good - and that a paired remote is on its channel rests on the
  records.
* `PairingNeedsCause` (`PairingIsDeliberate`), without an invariant: only
  `PowerOn(TRUE)` and `MustPair` leave IDLE for pairing.

### KeypadProofs

`TypeCorrect`, `LightsNeedSta` (`ChordMeansHeld`), `ChordsAreNoTaps` (`ChordOrTap`),
`SleepWaits` (`SleepDropsNothing`). `Modifier` says that the program's idea of STA lags
behind the key only by debouncing or a missed edge, and that a press that gave a
light command is used up; `Awake` that `ackReception` has restarted the sleep timer
wherever a command is pending, except for the STATUS that starts after it.

### AirtimeProofs

* `ProfilesMeetTiming`: the windows of all four profiles satisfy what
  `CommandLinkProofs` assumes of its constants, so its theorems hold of every build.
* `FramesFitProfiles`: in every profile a command's frame is no longer on the air than the
  hand-written `OPER_TOA_MS`.
* `PllStepIsNearest`: for any carrier below 2 GHz no intermediate value leaves
  32 bits and the result is within half a step.

### Sx126xProofs, RadioProgramProofs, RadioLoopProofs

`TypeCorrect`, `OnAirIsAsIntended` (`OnAirAsIntended`), `AirtimeAlwaysFits` (`AirtimeFits`),
`StallsAreSurvived` (`OneStallIsSurvived`), `AlertsMeanFlat` (`AlertMeansFlat`) and
`FramesAreRearmed` (`FrameIsRearmed`): all safety properties of `radio_safety`, for each
profile, any `Bindings`, for any number of stalls, retries, and any pair of timeouts that satisfies
`WatchdogAssumption`. That assumption is what the code's 3 s (`RADIO_BUSY_TIMEOUT_MS`) and
4 s (`WDT_PERIOD_4KCLK`) are chosen for: one stall fits next to the longest pauses of a
give-up, but not next to those of a commit, and the low-battery alert fits alone.

*Programs.* The three modules go from a step to the loop.

1. `Sx126xProofs`: what `Do` does (`Machine` is the type of a run; `Bus` says what
   transactions do to a run: only a stall costs one of them, and costs the timer one wait;
   `Failed` says that one was lost). `Composition` takes the
   execution of `p \o q` apart into those of `p` and `q`. It is an induction over the steps
   of `q`; `Induction` derives what it needs from the well-foundedness of `<` on `Nat`,
   for a set in place of a predicate. With it each call has a lemma that says which
   fields it changes (`Changed`, `Sets`), or that it failed.
2. `RadioProgramProofs`: the same of the handlers' programs, from those of their parts -
   what `sx1268Init` leaves behind, what the channel switches do to any chip, what is on the
   air after either SETUP state - and separately how much the watchdog timer may have
   counted after them, with at most one stall (`Kept`) or with none (`Spared`).
3. `RadioLoopProofs`: `RunOnRuns` turns a step of the loop into an execution; there is a
   lemma for each action.

*The inductive invariant* `IInv` is `Hardware /\ Software` (types; the stalls that the
watchdog timer remembers are stalls there were), `OneStallIsSurvived`, `AlertMeansFlat` and

* `ChipInv`: unless a transaction was lost, the chip has all that `sx1268Init` and the
  channel switch set (`Settles`), whether it is on the air or not - `OnAirAsIntended` alone
  is not inductive, because a chip in standby has to be in order before it is sent on the
  air. The exception is a chip that waits for `setup` to initialise it.
* `DogInv`: `Budget(stage)`, what the watchdog timer may have counted when the loop is at that
  stage, besides one stall. The loop passes over stages without a step, so a stage's
  budget covers those before it. Two cases exceed the plain count and rest on a relation
  between parts: the feedback of an answer takes up to 700 ms, but clears `msgTxd`, so that
  no retry and no give-up adds to it in the same pass; a commit takes 1.6 s, but no stall
  survives it, and it leaves the remote paired and idle (`Committed`), so that neither alert
  nor scan follows.

`FrameIsRearmed` follows from `IInv` and what the program of `TX_SETUP` does to *any* chip,
which is the point of the property.

### Only model-checked

* `CommitIsMutual`, which rests on who else is on the air.
* Liveness (`EveryCommandEnds`, `AlwaysListensAgain`, `ChipRecovers`, `NewRemotePairs`,
  `RepairEnds`, `WakeAnswers`, `DeafnessEnds`): it rests on fairness, which is out of the
  prover's reach.
* The absence of deadlock, which is a statement about `ENABLED`.

## 5. Not modelled

* *AES-128-CTR, hexadecimal serials* (`src/aes.c`, `aesMain.h`, `devId.h`): pure functions of
  bytes. All the rest needs of them is that a frame under a foreign key shows a
  wrong magic, which `CommandLink` has as the frame `FOREIGN`.
* *Driver functions nothing calls*, and the HAL's `wakeup`, which nothing reaches.
* *LED colours, melodies, logging, pin numbers* (`led.h`, `buz.h`, `debug.h`,
  `hwPins.h`): output without effect on state; the time they block is modelled.
* *Archived protocol v1* (`archive/`): included by nothing.
* *The starter*: not in the repository; it answers as it likes.
* *Wrap-around of `millis()`*: every comparison is a difference of unsigned
  32-bit values, which is right for windows below 49 days.
* *EEPROM bytes within a serial*: a serial is whole, torn or absent, which is all
  that the code tells apart.
