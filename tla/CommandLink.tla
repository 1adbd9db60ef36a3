----------------------------- MODULE CommandLink -----------------------------
(***************************************************************************)
(* The operational command link of a paired remote: what happens between a *)
(* key press and the answer of the starter.                                *)
(*                                                                         *)
(* loop() (the .ino) runs the stages below in this order, again and again; *)
(* `pc` names the stage that runs next:                                    *)
(*                                                                         *)
(*   poll     lowPowerPoll()      lowPow.h                                  *)
(*   button   hwbuttonFunc()      button.h    -> hold while a key is down   *)
(*   radio    sx1268Func()        sx1268Main.h -> wdt when radio is silent  *)
(*   ack      ackReception()      button.h    -> blink, then a retry        *)
(*                                            -> tone, then give-up         *)
(*   tick     pairRemNodeTick()   pairRemoteNode.h (its one-shots)          *)
(*   rest     delay(5)                                                      *)
(*                                                                         *)
(* The SX1262 and the DIO1 interrupt act between any two stages, and in    *)
(* the blocking delays inside a stage.  Which keys produce which command   *)
(* (debounce, the STA chord) is the subject of Keypad; here a press is the *)
(* command hwbuttonFunc() has decided on.                                  *)
(*                                                                         *)
(* Time: one unit is one pass of the loop; millis() differences are the    *)
(* counters stateAge, ackAge and actAge, which stop at the largest value   *)
(* any comparison tells apart.  Delays below one unit take no time, but    *)
(* every radio event may happen in them.                                   *)
(***************************************************************************)
EXTENDS Integers, FiniteSets, RBP

CONSTANTS
  OPER_TOA,           \* air time of one frame
  TX_TIMEOUT,         \* TX_TIMEOUT_MS
  IDLE_DURATION,      \* IDLE_DURATION_MS
  RX_TIMEOUT,         \* RX_TIMEOUT_MS, of the timed RX and of the software
  REMOTE_WATCHDOG,    \* REMOTE_WATCHDOG_MS
  ACK_WAIT_STATUS,    \* ACK_WAIT_*_MS
  ACK_WAIT_OFF,
  ACK_WAIT_ON,
  FAST_RETRY,         \* the 500 ms of a retry after a corrupted reply
  MAX_RETRY,          \* the 3 of ackReception()
  UserCmds,           \* what the user presses
  Replies,            \* the statuses the starter sends
  Faults              \* what may go wrong, see FaultKinds

\* "crc", "header": a frame arrives corrupted; "fade": its tail is lost;
\* "hang": the chip stops until it is reset.
FaultKinds == {"crc", "header", "fade", "hang"}

ASSUME TimingAssumption ==
  /\ OPER_TOA \in Nat \ {0} /\ TX_TIMEOUT \in Nat \ {0}
  /\ IDLE_DURATION \in Nat \ {0} /\ RX_TIMEOUT \in Nat \ {0}
  /\ REMOTE_WATCHDOG \in Nat \ {0} /\ FAST_RETRY \in Nat \ {0}
  /\ ACK_WAIT_STATUS \in Nat \ {0} /\ ACK_WAIT_OFF \in Nat \ {0}
  /\ ACK_WAIT_ON \in Nat \ {0}
  /\ OPER_TOA < TX_TIMEOUT
  /\ TX_TIMEOUT <= RX_TIMEOUT /\ IDLE_DURATION <= RX_TIMEOUT
  /\ FAST_RETRY < ACK_WAIT_STATUS
  /\ ACK_WAIT_STATUS <= ACK_WAIT_OFF /\ ACK_WAIT_OFF <= ACK_WAIT_ON
  /\ ACK_WAIT_ON < RX_TIMEOUT

ASSUME InputAssumption ==
  /\ MAX_RETRY \in Nat
  /\ UserCmds \subseteq Cmd
  /\ Replies \subseteq Status
  /\ Faults \subseteq FaultKinds

VARIABLES
  pc,                       \* the stage of loop() that runs next
  key,                      \* the command whose key is held down in "hold"
  \* sx1268Main.h
  radio_state, stateAge,    \* the radio state and millis() - state_start_time
  actAge,                   \* millis() - last_radio_activity
  radioBuf,                 \* bufferRadio: the frame to send next
  dio1_triggered, rxCrcError, rxHdrError,
  \* states.h, button.h
  msgTxd, lastTxCmdCode, ackFailAtmp,
  ackAge,                   \* millis() - ackTimerMillis, while msgTxd
  buttonEn,
  \* pairRemoteNode.h
  pairConfirmStatusPending, bootPrimePending,
  \* the SX1262
  chipMode, chipAge,        \* its mode, and the time since it was entered
  chipIrq,                  \* IRQ status register; DIO1 is high iff non-empty
  chipLock,                 \* the frame being received, or NoFrame
  chipRx,                   \* the frame in the receive buffer
  chipTx                    \* the frame in the transmit buffer

loopVars == <<pc, key>>
timers   == <<stateAge, actAge, ackAge, chipAge>>
flags    == <<rxCrcError, rxHdrError>>
command  == <<msgTxd, lastTxCmdCode, ackFailAtmp>>
oneShots == <<pairConfirmStatusPending, bootPrimePending>>
driver   == <<radio_state, radioBuf, dio1_triggered>>
chip     == <<chipMode, chipIrq, chipLock, chipRx, chipTx>>

vars == <<loopVars, timers, flags, command, buttonEn, oneShots, driver, chip>>

-----------------------------------------------------------------------------
(* Frames.  A received frame is the status it carries and whether its      *)
(* transmission began after the pending command was issued (`fresh`, a     *)
(* history variable no code reads).  "FOREIGN" is a frame remHandleRsp()   *)
(* or the dispatch before it drops: another type, length or key.           *)

NoFrame  == [status |-> "NONE", fresh |-> FALSE]
RxStatus == Status \cup {"FOREIGN", "NONE"}
RxFrame  == [status : RxStatus, fresh : BOOLEAN]
TxFrame  == Cmd \cup {"PING", "NONE"}

Stages   == {"poll", "button", "hold", "radio", "wdt", "ack", "blink", "tone",
             "tick", "rest"}
RadioState == {"IDLE", "TX_SETUP", "TX_WAIT", "RX_SETUP", "RX_WAIT"}
Irq      == {"TX_DONE", "RX_DONE", "CRC_ERROR", "HEADER_ERROR", "TIMEOUT"}

\* ackWaitFor(): the answer window of a command.
ackWaitFor(c) == CASE c = "M1_ON"  -> ACK_WAIT_ON
                   [] c = "M1_OFF" -> ACK_WAIT_OFF
                   [] OTHER        -> ACK_WAIT_STATUS

UpTo(n, bound) == IF n < bound THEN n ELSE bound

-----------------------------------------------------------------------------
(* Operations the stages are made of.                                      *)

\* A driver command that puts the chip in mode m; a hung chip ignores it.
ChipGoes(m) ==
  /\ chipMode' = IF chipMode = "dead" THEN "dead" ELSE m
  /\ chipAge' = 0
  /\ chipLock' = NoFrame
  /\ chipIrq' = {}

\* Mutant: a re-initialisation that skips the hardware reset.
RadioReinit_NoReset ==
  /\ ChipGoes("stdby")
  /\ radio_state' = "IDLE" /\ stateAge' = 0
  /\ dio1_triggered' = FALSE
  /\ UNCHANGED <<chipRx, chipTx, radioBuf>>

\* sx1268Init() with its hardware reset, then switchToOperationalChannel().
RadioReinit ==
  /\ chipMode' = "stdby" /\ chipAge' = 0
  /\ chipLock' = NoFrame /\ chipIrq' = {}
  /\ radio_state' = "IDLE" /\ stateAge' = 0
  /\ dio1_triggered' = FALSE
  /\ UNCHANGED <<chipRx, chipTx, radioBuf>>

\* Mutant: lets the radio deliver a waiting packet before it transmits.
send_lora_data_Polite(frame) ==
  /\ radioBuf' = frame
  /\ radio_state' = IF radio_state = "RX_WAIT" /\ dio1_triggered
                    THEN "RX_WAIT" ELSE "TX_SETUP"
  /\ stateAge' = 0

send_lora_data(frame) ==
  /\ radioBuf' = frame
  /\ radio_state' = "TX_SETUP"
  /\ stateAge' = 0

\* From here on, what has been or is being received answers an older command.
AgeReplies ==
  /\ chipLock' = [chipLock EXCEPT !.fresh = FALSE]
  /\ chipRx'   = [chipRx EXCEPT !.fresh = FALSE]

\* Mutant: a pre-empting command inherits the retries of the one it replaces.
remTxButtonCmd_KeepsCount(c) ==
  /\ buttonEn' = [buttonEn EXCEPT !["M1_ON"] = FALSE, !["STA"] = FALSE]
  /\ lastTxCmdCode' = c
  /\ send_lora_data(c)
  /\ msgTxd' = TRUE
  /\ ackAge' = 0
  /\ AgeReplies
  /\ UNCHANGED ackFailAtmp

remTxButtonCmd(c) ==
  /\ buttonEn' = [buttonEn EXCEPT !["M1_ON"] = FALSE, !["STA"] = FALSE]
  /\ lastTxCmdCode' = c
  /\ send_lora_data(c)
  /\ msgTxd' = TRUE
  /\ ackFailAtmp' = 0
  /\ ackAge' = 0
  /\ AgeReplies

\* Mutant: the STATUS key is not enabled again.
Settle_StaForgotten ==
  /\ msgTxd' = FALSE /\ ackAge' = 0
  /\ buttonEn' = [buttonEn EXCEPT !["M1_ON"] = TRUE, !["M1_OFF"] = TRUE]

\* The pending command is over.
Settle ==
  /\ msgTxd' = FALSE /\ ackAge' = 0
  /\ buttonEn' = AllEnabled

\* Mutant: without the guard against the crossed answer of a pre-empted ON.
Answers_Any(frame) == frame.status \in Status

\* remHandleRsp(): a reply that still says ON does not answer a pending OFF;
\* every other reply of the starter ends whatever is pending.
Answers(frame) ==
  /\ frame.status \in Status
  /\ ~(msgTxd /\ lastTxCmdCode = "M1_OFF" /\ frame.status = "ON")

remHandleRsp(frame) ==
  IF Answers(frame)
  THEN Settle
  ELSE UNCHANGED <<msgTxd, ackAge, buttonEn>>

-----------------------------------------------------------------------------
(* Time.  A finished transmission and an expired timed RX do not wait.     *)

Overdue ==
  \/ chipMode = "tx" /\ chipAge >= OPER_TOA
  \/ chipMode = "rx" /\ chipAge >= RX_TIMEOUT /\ chipLock = NoFrame

Tick ==
  /\ ~Overdue
  /\ stateAge' = UpTo(stateAge + 1, RX_TIMEOUT)
  /\ actAge' = UpTo(actAge + 1, REMOTE_WATCHDOG + 1)
  /\ ackAge' = IF msgTxd THEN UpTo(ackAge + 1, ACK_WAIT_ON + 1) ELSE ackAge
  /\ chipAge' = IF chipMode \in {"tx", "rx"}
                THEN UpTo(chipAge + 1, RX_TIMEOUT) ELSE chipAge

-----------------------------------------------------------------------------
(* poll: lowPowerPoll().  ackReception() and every press restart the idle  *)
(* clock, so only an idle link sleeps; the sleep itself ends with the STA  *)
(* wake and is one step here.                                              *)

StayAwake ==
  /\ pc = "poll" /\ pc' = "button"
  /\ UNCHANGED <<key, timers, flags, command, buttonEn, oneShots, driver, chip>>

enterSleep ==
  /\ pc = "poll" /\ pc' = "button"
  /\ ~msgTxd
  /\ rxCrcError' = FALSE
  /\ RadioReinit
  /\ Settle
  /\ UNCHANGED <<key, actAge, rxHdrError, lastTxCmdCode, ackFailAtmp, oneShots>>

-----------------------------------------------------------------------------
(* button: hwbuttonFunc(), from the decision on.                           *)

\* Mutant: STOP pre-empts a light command too.
MayPress_StopAlways(c) ==
  CASE c = "M1_OFF"     -> buttonEn["M1_OFF"]
    [] c = "M1_ON"      -> ~msgTxd /\ buttonEn["M1_ON"]
    [] c = "STATUS"     -> ~msgTxd /\ buttonEn["STA"]
    [] c \in LightCmd   -> ~msgTxd

\* ON and STATUS want an idle link and an enabled key, a light chord an idle
\* link; STOP may pre-empt a motor or status command.
MayPress(c) ==
  CASE c = "M1_OFF"     -> /\ buttonEn["M1_OFF"]
                           /\ ~msgTxd \/ lastTxCmdCode \in MotorCmd \cup {"STATUS"}
    [] c = "M1_ON"      -> ~msgTxd /\ buttonEn["M1_ON"]
    [] c = "STATUS"     -> ~msgTxd /\ buttonEn["STA"]
    [] c \in LightCmd   -> ~msgTxd

NoPress ==
  /\ pc = "button" /\ pc' = "radio"
  /\ UNCHANGED <<key, timers, flags, command, buttonEn, oneShots, driver, chip>>

\* A motor or light command waits for its key to be released ...
PressAndHold(c) ==
  /\ pc = "button" /\ pc' = "hold"
  /\ c # "STATUS" /\ MayPress(c)
  /\ key' = c
  /\ UNCHANGED <<timers, flags, command, buttonEn, oneShots, driver, chip>>

Holding ==
  /\ pc = "hold"
  /\ Tick
  /\ UNCHANGED <<loopVars, flags, command, buttonEn, oneShots, driver, chip>>

\* ... and the loop, with the radio, waits with it.
Release ==
  /\ pc = "hold" /\ pc' = "radio"
  /\ remTxButtonCmd(key)
  /\ key' = "NONE"
  /\ UNCHANGED <<actAge, chipAge, flags, oneShots, dio1_triggered,
                 chipMode, chipIrq, chipTx>>

\* STATUS is sent on the release of a lone STA tap.
TapSta ==
  /\ pc = "button" /\ pc' = "radio"
  /\ "STATUS" \in UserCmds /\ MayPress("STATUS")
  /\ remTxButtonCmd("STATUS")
  /\ UNCHANGED <<key, actAge, chipAge, flags, oneShots, dio1_triggered,
                 chipMode, chipIrq, chipTx>>

-----------------------------------------------------------------------------
(* radio: sx1268Func(), one action per case of its switch.                 *)

\* The check that follows the switch: 60 s without an interrupt.
WatchdogNext(age) == pc' = IF age > REMOTE_WATCHDOG THEN "wdt" ELSE "ack"

Enter(s) == radio_state' = s /\ stateAge' = 0

\* Mutant: the interrupt is acknowledged in the program but not in the chip.
ServiceIrq_FlagOnly == dio1_triggered' = FALSE /\ UNCHANGED chipIrq

\* An interrupt is serviced: the chip's flags and the program's.
ServiceIrq == dio1_triggered' = FALSE /\ chipIrq' = {}

\* Mutant: the transmission gets no longer than the idle pause.
TxTimedOut_Early == stateAge >= IDLE_DURATION

TxTimedOut == stateAge >= TX_TIMEOUT

\* Mutant: every pass restarts the idle pause.
Idle_Restarts ==
  /\ pc = "radio" /\ radio_state = "IDLE"
  /\ IF stateAge >= IDLE_DURATION THEN Enter("RX_SETUP") ELSE Enter("IDLE")
  /\ WatchdogNext(actAge)
  /\ UNCHANGED <<key, actAge, ackAge, chipAge, flags, command, buttonEn,
                 oneShots, radioBuf, dio1_triggered, chip>>

Idle ==
  /\ pc = "radio" /\ radio_state = "IDLE"
  /\ IF stateAge >= IDLE_DURATION
     THEN Enter("RX_SETUP")
     ELSE UNCHANGED <<radio_state, stateAge>>
  /\ WatchdogNext(actAge)
  /\ UNCHANGED <<key, actAge, ackAge, chipAge, flags, command, buttonEn,
                 oneShots, radioBuf, dio1_triggered, chip>>

TxSetup ==
  /\ pc = "radio" /\ radio_state = "TX_SETUP"
  /\ Enter("TX_WAIT")
  /\ dio1_triggered' = FALSE
  /\ ChipGoes("tx") /\ chipTx' = radioBuf
  /\ WatchdogNext(actAge)
  /\ UNCHANGED <<key, actAge, ackAge, flags, command, buttonEn, oneShots,
                 radioBuf, chipRx>>

TxWait ==
  /\ pc = "radio" /\ radio_state = "TX_WAIT"
  /\ CASE dio1_triggered ->
            /\ Enter("RX_SETUP")
            /\ actAge' = 0
            /\ ServiceIrq
       [] ~dio1_triggered /\ TxTimedOut ->
            /\ Enter("IDLE")
            /\ chipIrq' = {}
            /\ UNCHANGED <<actAge, dio1_triggered>>
       [] OTHER -> UNCHANGED <<radio_state, stateAge, actAge, dio1_triggered, chipIrq>>
  /\ WatchdogNext(actAge')
  /\ UNCHANGED <<key, ackAge, chipAge, flags, command, buttonEn, oneShots,
                 radioBuf, chipMode, chipLock, chipRx, chipTx>>

RxSetup ==
  /\ pc = "radio" /\ radio_state = "RX_SETUP"
  /\ Enter("RX_WAIT")
  /\ dio1_triggered' = FALSE
  /\ ChipGoes("rx")
  /\ WatchdogNext(actAge)
  /\ UNCHANGED <<key, actAge, ackAge, flags, command, buttonEn, oneShots,
                 radioBuf, chipRx, chipTx>>

\* What the IRQ status says of the packet.
ReadIrq ==
  CASE "RX_DONE" \in chipIrq /\ "CRC_ERROR" \notin chipIrq ->
         remHandleRsp(chipRx) /\ UNCHANGED flags
    [] "CRC_ERROR" \in chipIrq ->
         rxCrcError' = TRUE /\ UNCHANGED <<rxHdrError, msgTxd, ackAge, buttonEn>>
    [] "CRC_ERROR" \notin chipIrq /\ "RX_DONE" \notin chipIrq
       /\ "HEADER_ERROR" \in chipIrq ->
         rxHdrError' = TRUE /\ UNCHANGED <<rxCrcError, msgTxd, ackAge, buttonEn>>
    [] OTHER -> UNCHANGED <<flags, msgTxd, ackAge, buttonEn>>

RxWait ==
  /\ pc = "radio" /\ radio_state = "RX_WAIT"
  /\ IF dio1_triggered
     THEN /\ ReadIrq
          /\ Enter("IDLE")
          /\ actAge' = 0
          /\ ServiceIrq
     ELSE /\ IF stateAge >= RX_TIMEOUT
             THEN Enter("IDLE") /\ chipIrq' = {}
             ELSE UNCHANGED <<radio_state, stateAge, chipIrq>>
          /\ UNCHANGED <<actAge, dio1_triggered, flags, msgTxd, ackAge, buttonEn>>
  /\ WatchdogNext(actAge')
  /\ UNCHANGED <<key, lastTxCmdCode, ackFailAtmp, chipAge, oneShots, radioBuf,
                 chipMode, chipLock, chipRx, chipTx>>

RadioWatchdog ==
  /\ pc = "wdt" /\ pc' = "ack"
  /\ RadioReinit
  /\ actAge' = 0
  /\ UNCHANGED <<key, ackAge, flags, command, buttonEn, oneShots>>

-----------------------------------------------------------------------------
(* ack: ackReception().                                                    *)

\* Nothing pending, or an unserviced interrupt: not this time.
AckPass ==
  /\ pc = "ack" /\ pc' = "tick"
  /\ ~msgTxd \/ dio1_triggered
  /\ UNCHANGED <<key, timers, flags, command, buttonEn, oneShots, driver, chip>>

\* A corrupted reply moves the clock to FAST_RETRY before the deadline.
AckClock == IF rxCrcError \/ rxHdrError
            THEN ackWaitFor(lastTxCmdCode) - FAST_RETRY
            ELSE ackAge

\* Mutant: one retry too many.
AckWait_OffByOne ==
  /\ pc = "ack"
  /\ msgTxd /\ ~dio1_triggered
  /\ rxCrcError' = FALSE /\ rxHdrError' = FALSE
  /\ ackAge' = AckClock
  /\ pc' = CASE AckClock <= ackWaitFor(lastTxCmdCode) -> "tick"
             [] AckClock > ackWaitFor(lastTxCmdCode) ->
                  IF ackFailAtmp > MAX_RETRY THEN "tone" ELSE "blink"
  /\ UNCHANGED <<key, stateAge, actAge, chipAge, command, buttonEn, oneShots,
                 driver, chip>>

AckWait ==
  /\ pc = "ack"
  /\ msgTxd /\ ~dio1_triggered
  /\ rxCrcError' = FALSE /\ rxHdrError' = FALSE
  /\ ackAge' = AckClock
  /\ pc' = CASE AckClock <= ackWaitFor(lastTxCmdCode) -> "tick"
             [] AckClock > ackWaitFor(lastTxCmdCode) ->
                  IF ackFailAtmp >= MAX_RETRY THEN "tone" ELSE "blink"
  /\ UNCHANGED <<key, stateAge, actAge, chipAge, command, buttonEn, oneShots,
                 driver, chip>>

\* Mutant: a retry is not counted.
Resend_NoCount ==
  /\ pc = "blink" /\ pc' = "tick"
  /\ send_lora_data(lastTxCmdCode)
  /\ ackAge' = 0
  /\ UNCHANGED <<key, actAge, chipAge, flags, command, buttonEn, oneShots,
                 dio1_triggered, chip>>

\* After the 300 ms blue LED.
Resend ==
  /\ pc = "blink" /\ pc' = "tick"
  /\ send_lora_data(lastTxCmdCode)
  /\ ackFailAtmp' = ackFailAtmp + 1
  /\ ackAge' = 0
  /\ UNCHANGED <<key, actAge, chipAge, flags, msgTxd, lastTxCmdCode, buttonEn,
                 oneShots, dio1_triggered, chip>>

\* After the no-network tone.
GiveUp ==
  /\ pc = "tone" /\ pc' = "tick"
  /\ RadioReinit
  /\ Settle
  /\ UNCHANGED <<key, actAge, flags, lastTxCmdCode, ackFailAtmp, oneShots>>

-----------------------------------------------------------------------------
(* tick: the one-shots of pairRemNodeTick(); on a paired, idle pairing     *)
(* machine the rest of it changes nothing.                                 *)

\* Mutant: the warm-up frame is sent whatever is in flight.
WarmUpDue_Always == bootPrimePending

\* "a real command already in flight needs no priming"
WarmUpDue == bootPrimePending /\ ~msgTxd

pairRemNodeTick ==
  /\ pc = "tick" /\ pc' = "rest"
  /\ bootPrimePending' = FALSE
  /\ IF pairConfirmStatusPending /\ ~msgTxd
     THEN /\ pairConfirmStatusPending' = FALSE
          /\ remTxButtonCmd("STATUS")
     ELSE /\ IF WarmUpDue
             THEN send_lora_data("PING")
             ELSE UNCHANGED <<radioBuf, radio_state, stateAge>>
          /\ UNCHANGED <<pairConfirmStatusPending, command, ackAge, buttonEn,
                         chipLock, chipRx>>
  /\ UNCHANGED <<key, actAge, chipAge, flags, dio1_triggered, chipMode, chipIrq,
                 chipTx>>

Rest ==
  /\ pc = "rest" /\ pc' = "poll"
  /\ Tick
  /\ UNCHANGED <<key, flags, command, buttonEn, oneShots, driver, chip>>

-----------------------------------------------------------------------------
(* The SX1262, its DIO1 line and the air.  PORTA_PORT_vect fires on the    *)
(* rising edge: an event raises nothing while an older one is still set.   *)

RaiseIrq(events) ==
  /\ chipIrq' = chipIrq \cup events
  /\ dio1_triggered' = (dio1_triggered \/ chipIrq = {})

\* The chip is back in standby by itself after TxDone, RxDone and Timeout.
ChipStops(events) ==
  /\ chipMode' = "stdby" /\ chipAge' = 0 /\ chipLock' = NoFrame
  /\ RaiseIrq(events)
  /\ UNCHANGED <<loopVars, stateAge, actAge, ackAge, flags, command, buttonEn,
                 oneShots, radio_state, radioBuf, chipTx>>

ChipTxDone ==
  /\ chipMode = "tx" /\ chipAge >= OPER_TOA
  /\ ChipStops({"TX_DONE"})
  /\ UNCHANGED chipRx

ChipRxTimeout ==
  /\ chipMode = "rx" /\ chipAge >= RX_TIMEOUT
  /\ ChipStops({"TIMEOUT"})
  /\ UNCHANGED chipRx

\* A frame begins to arrive: the starter answers when it likes.
RspBegins(s) ==
  /\ chipMode = "rx" /\ chipLock = NoFrame
  /\ chipLock' = [status |-> s, fresh |-> TRUE]
  /\ UNCHANGED <<loopVars, timers, flags, command, buttonEn, oneShots, driver,
                 chipMode, chipIrq, chipRx, chipTx>>

RspArrives ==
  /\ chipLock # NoFrame
  /\ chipRx' = chipLock
  /\ ChipStops({"RX_DONE"})

RspCorrupted(fault) ==
  /\ chipLock # NoFrame
  /\ ChipStops(IF fault = "crc" THEN {"RX_DONE", "CRC_ERROR"}
                                ELSE {"HEADER_ERROR"})
  /\ UNCHANGED chipRx

RspFades ==
  /\ chipLock # NoFrame
  /\ chipLock' = NoFrame
  /\ UNCHANGED <<loopVars, timers, flags, command, buttonEn, oneShots, driver,
                 chipMode, chipIrq, chipRx, chipTx>>

ChipHangs ==
  /\ chipMode # "dead" /\ chipMode' = "dead"
  /\ chipAge' = 0 /\ chipLock' = NoFrame /\ chipIrq' = {}
  /\ UNCHANGED <<loopVars, stateAge, actAge, ackAge, flags, command, buttonEn,
                 oneShots, driver, chipRx, chipTx>>

-----------------------------------------------------------------------------
(* setup() of a paired remote leaves bootPrimePending; a pairing that has  *)
(* just been committed leaves pairConfirmStatusPending, in the radio stage *)
(* it was committed from.                                                  *)

Init ==
  /\ \/ pc = "poll" /\ bootPrimePending = TRUE /\ pairConfirmStatusPending = FALSE
     \/ pc = "ack" /\ bootPrimePending = FALSE /\ pairConfirmStatusPending = TRUE
  /\ key = "NONE"
  /\ radio_state = "IDLE" /\ stateAge = 0 /\ actAge = 0
  /\ radioBuf = "NONE" /\ dio1_triggered = FALSE
  /\ rxCrcError = FALSE /\ rxHdrError = FALSE
  /\ msgTxd = FALSE /\ lastTxCmdCode = "NONE" /\ ackFailAtmp = 0 /\ ackAge = 0
  /\ buttonEn = AllEnabled
  /\ chipMode = "stdby" /\ chipAge = 0 /\ chipIrq = {}
  /\ chipLock = NoFrame /\ chipRx = NoFrame /\ chipTx = "NONE"

\* The single-threaded program.
Loop ==
  \/ StayAwake
  \/ NoPress \/ Holding
  \/ Idle \/ TxSetup \/ TxWait \/ RxSetup \/ RxWait \/ RadioWatchdog
  \/ AckPass \/ AckWait \/ Resend \/ GiveUp
  \/ pairRemNodeTick \/ Rest

User ==
  \/ TapSta
  \/ \E c \in UserCmds : PressAndHold(c)

\* What the chip does by itself when its time has come.
Radio == ChipTxDone \/ ChipRxTimeout

Air ==
  \/ \E s \in Replies \cup {"FOREIGN"} : RspBegins(s)
  \/ RspArrives
  \/ \E f \in Faults \cap {"crc", "header"} : RspCorrupted(f)
  \/ "fade" \in Faults /\ RspFades
  \/ "hang" \in Faults /\ ChipHangs

Next == Loop \/ Release \/ User \/ enterSleep \/ Radio \/ Air

Spec == Init /\ [][Next]_vars

\* The loop never stops by itself (the MCU has nothing else to run), the chip
\* meets its deadlines, and a user lets go of a key at last.  Nothing is
\* assumed of the starter or the air.
Fairness == WF_vars(Loop) /\ WF_vars(Radio) /\ WF_vars(Release)

FairSpec == Spec /\ Fairness

-----------------------------------------------------------------------------
(* Invariants.                                                             *)

\* Types and ranges of the variables, and the bounds of the counters.
TypeOK ==
  /\ pc \in Stages
  /\ key \in Cmd \cup {"NONE"}
  /\ radio_state \in RadioState
  /\ stateAge \in 0..RX_TIMEOUT /\ chipAge \in 0..RX_TIMEOUT
  /\ actAge \in 0..(REMOTE_WATCHDOG + 1) /\ ackAge \in 0..(ACK_WAIT_ON + 1)
  /\ radioBuf \in TxFrame /\ chipTx \in TxFrame
  /\ dio1_triggered \in BOOLEAN /\ rxCrcError \in BOOLEAN /\ rxHdrError \in BOOLEAN
  /\ msgTxd \in BOOLEAN
  /\ lastTxCmdCode \in Cmd \cup {"NONE"}
  /\ ackFailAtmp \in 0..MAX_RETRY
  /\ buttonEn \in [Keys -> BOOLEAN]
  /\ pairConfirmStatusPending \in BOOLEAN /\ bootPrimePending \in BOOLEAN
  /\ chipMode \in {"stdby", "tx", "rx", "dead"}
  /\ chipIrq \in SUBSET Irq
  /\ chipLock \in RxFrame /\ chipRx \in RxFrame

\* DIO1 interrupts on a rising edge only, so an IRQ flag that is set while
\* dio1_triggered is clear would mask every later event: the remote would be
\* deaf until the software timeout.  No order of stages and events gets there.
NoLostEdge == chipIrq # {} => dio1_triggered

\* The receiver never cuts off a transmission of its own: while the chip
\* transmits, the driver waits for it or is about to send something newer.
\* A stale interrupt taken for TxDone would break it.
TxNotCut == chipMode = "tx" => radio_state \in {"TX_SETUP", "TX_WAIT"}

\* A command is on its way as long as its frame has not been sent: bufferRadio
\* is shared by retries, pre-emption, the boot ping and the post-pairing STATUS,
\* and none of them puts another frame in the place of the pending command.
FrameIsPending ==
  msgTxd =>
    /\ radio_state = "TX_SETUP" => radioBuf = lastTxCmdCode
    /\ chipMode = "tx" /\ radio_state # "TX_SETUP" => chipTx = lastTxCmdCode

\* Whatever the radio holds or receives while a command is pending began after
\* the command was issued, unless the transmission about to start discards it:
\* without sequence numbers this is all that ties an answer to a command.
OnlyFreshReplies ==
  msgTxd /\ radio_state # "TX_SETUP" =>
    /\ chipLock # NoFrame => chipLock.fresh
    /\ "RX_DONE" \in chipIrq /\ "CRC_ERROR" \notin chipIrq => chipRx.fresh

\* remTxButtonCmd() disables keys and four other places enable them again:
\* an idle link never has a dead key, and STOP is never dead at all.
NoDeadKeys ==
  /\ buttonEn["M1_OFF"]
  /\ ~msgTxd => buttonEn = AllEnabled

-----------------------------------------------------------------------------
(* Action properties.                                                      *)

\* Only STOP takes the place of a pending command, never of a light command,
\* and nothing takes the place of a pending STOP ("stop always wins").
OnlyStopPreempts ==
  [][msgTxd /\ msgTxd' /\ lastTxCmdCode' # lastTxCmdCode
       => lastTxCmdCode' = "M1_OFF" /\ lastTxCmdCode \notin LightCmd]_vars

\* A reply ends a command only if it began after the command was issued, and
\* a STOP only if it does not say that the motor runs.
AnswerIsForThisCommand ==
  [][(pc = "radio" /\ msgTxd /\ ~msgTxd') =>
       /\ chipRx.fresh
       /\ ~(lastTxCmdCode = "M1_OFF" /\ chipRx.status = "ON")]_vars

\* ackReception(): "never start a retransmit while DIO1 still has an
\* unserviced interrupt" (button.h:172-175).
RetryNeverTalksOverReply == [][Resend => ~dio1_triggered]_vars

\* "A reply reached us but failed CRC" (button.h:179): the fast retry follows
\* a reply to the pending command, so the command itself has left the antenna.
FastRetryFollowsReply == [][Resend => chipMode # "tx"]_vars

-----------------------------------------------------------------------------
(* Liveness, under FairSpec.                                               *)

\* Every command ends, by answer or by the no-network tone, unless the user
\* presses STOP again and again (each press restarts its retries), or corrupted
\* frames never stop: each of them moves the retry FAST_RETRY into the future,
\* so that a retry is put off for as long as they come faster than that.
EveryCommandEnds ==
  []<>(~msgTxd) \/ []<><<key = "M1_OFF" /\ Release>>_vars
                \/ []<>(rxCrcError \/ rxHdrError)

\* The remote always comes back to listening, whatever is lost or corrupted,
\* unless the user keeps the transmitter busy.
AlwaysListensAgain ==
  []<>(radio_state = "RX_WAIT") \/ []<><<Release \/ TapSta>>_vars
                                \/ []<><<enterSleep>>_vars

\* A hung chip is reset in the end, by the radio watchdog or by a give-up.
ChipRecovers == chipMode = "dead" ~> chipMode # "dead"

-----------------------------------------------------------------------------
(* CommandLink implements CommandSession.                                  *)

WaitingReply ==
  IF /\ "RX_DONE" \in chipIrq /\ "CRC_ERROR" \notin chipIrq
     /\ chipRx.fresh /\ chipRx.status \in Status
  THEN chipRx.status ELSE "NONE"

Session == INSTANCE CommandSession WITH
  MaxRetries <- MAX_RETRY,
  pending    <- IF msgTxd THEN lastTxCmdCode ELSE "NONE",
  tries      <- IF msgTxd THEN ackFailAtmp ELSE 0,
  reply      <- WaitingReply

ImplementsSession == Session!SessionSpec

=============================================================================
