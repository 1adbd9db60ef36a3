--------------------------- MODULE CommandLinkProofs ---------------------------
(***************************************************************************)
(* Theorems about the command link, for every choice of timings, commands, *)
(* replies and faults that satisfies the assumptions of CommandLink.       *)
(*                                                                         *)
(* The invariants are not inductive one by one: that a transmission is not *)
(* cut off depends on the driver's clock agreeing with the chip's while it *)
(* waits for TxDone, that a reply is fresh on what the interrupt flags may *)
(* say, and the retry counter on the stage the loop is blocked in.  IInv   *)
(* collects what they need from each other.                                *)
(***************************************************************************)
EXTENDS CommandLink, TLAPS

\* The stages in which loop() is blocked belong to a command the keypad let
\* through, or to a pending command that may, or may no longer, be repeated.
Blocked ==
  /\ msgTxd => lastTxCmdCode \in Cmd
  /\ pc = "hold" =>
       /\ key \in Cmd
       /\ msgTxd => key = "M1_OFF" /\ lastTxCmdCode \notin LightCmd
  /\ pc = "blink" => msgTxd /\ ackFailAtmp < MAX_RETRY
  /\ pc = "tone" => msgTxd /\ ackFailAtmp = MAX_RETRY

\* While the driver waits for a transmission, its clock is the chip's, the
\* air time is not over, and no interrupt is pending that could be taken for
\* TxDone.
TxClock ==
  chipMode = "tx" =>
    /\ chipAge <= OPER_TOA
    /\ radio_state = "TX_WAIT" => stateAge = chipAge /\ chipIrq = {} /\ ~dio1_triggered

IInv ==
  /\ TypeOK /\ Blocked /\ TxClock
  /\ NoLostEdge /\ TxNotCut /\ FrameIsPending /\ OnlyFreshReplies /\ NoDeadKeys

-----------------------------------------------------------------------------
(* Helpers.                                                                *)

\* A counter that stops at its bound stays in range.
LEMMA UpToRange ==
  ASSUME NEW bound \in Nat, NEW n \in 0..bound
  PROVE  /\ UpTo(n + 1, bound) \in 0..bound
         /\ n < bound => UpTo(n + 1, bound) = n + 1
BY DEF UpTo

\* An answer window is one of the three, so a fast retry stays within it.
LEMMA AckWindow ==
  ASSUME NEW c
  PROVE  /\ ackWaitFor(c) \in 1..ACK_WAIT_ON
         /\ ackWaitFor(c) - FAST_RETRY \in 0..(ACK_WAIT_ON + 1)
<1>1. /\ ACK_WAIT_STATUS \in 1..ACK_WAIT_ON /\ ACK_WAIT_OFF \in 1..ACK_WAIT_ON
      /\ ACK_WAIT_ON \in 1..ACK_WAIT_ON
  BY TimingAssumption
<1>2. ackWaitFor(c) \in {ACK_WAIT_ON, ACK_WAIT_OFF, ACK_WAIT_STATUS}
  BY DEF ackWaitFor
<1>3. /\ FAST_RETRY \in Nat /\ FAST_RETRY < ACK_WAIT_STATUS
      /\ ACK_WAIT_STATUS <= ACK_WAIT_OFF /\ ACK_WAIT_OFF <= ACK_WAIT_ON
      /\ ACK_WAIT_STATUS \in Nat /\ ACK_WAIT_OFF \in Nat /\ ACK_WAIT_ON \in Nat
  BY TimingAssumption
<1>4. QED
  BY <1>1, <1>2, <1>3

\* One unit of time keeps the counters in range.
LEMMA TickTypes ==
  ASSUME TypeOK, Tick
  PROVE  /\ stateAge' \in 0..RX_TIMEOUT /\ chipAge' \in 0..RX_TIMEOUT
         /\ actAge' \in 0..(REMOTE_WATCHDOG + 1)
         /\ ackAge' \in 0..(ACK_WAIT_ON + 1)
<1>1. RX_TIMEOUT \in Nat /\ REMOTE_WATCHDOG + 1 \in Nat /\ ACK_WAIT_ON + 1 \in Nat
  BY TimingAssumption
<1>2. stateAge' \in 0..RX_TIMEOUT
  BY <1>1, UpToRange DEF TypeOK, Tick
<1>3. chipAge' \in 0..RX_TIMEOUT
  BY <1>1, UpToRange DEF TypeOK, Tick
<1>4. actAge' \in 0..(REMOTE_WATCHDOG + 1)
  BY <1>1, UpToRange DEF TypeOK, Tick
<1>5. ackAge' \in 0..(ACK_WAIT_ON + 1)
  BY <1>1, UpToRange DEF TypeOK, Tick
<1>6. QED
  BY <1>2, <1>3, <1>4, <1>5

\* Time that passes keeps the two clocks of a transmission together.
LEMMA TickTxClock ==
  ASSUME TypeOK, TxClock, Tick, UNCHANGED <<chipMode, chipIrq, radio_state, dio1_triggered>>
  PROVE  TxClock'
<1>1. SUFFICES ASSUME chipMode = "tx"
               PROVE  /\ chipAge' <= OPER_TOA
                      /\ radio_state = "TX_WAIT" =>
                           stateAge' = chipAge' /\ chipIrq = {} /\ ~dio1_triggered
  BY DEF TxClock
<1>2. OPER_TOA < RX_TIMEOUT /\ OPER_TOA \in Nat /\ RX_TIMEOUT \in Nat
  BY TimingAssumption
<1>3. chipAge < OPER_TOA
  BY <1>1, <1>2 DEF Tick, Overdue, TypeOK
<1>4. chipAge' = chipAge + 1
  BY <1>1, <1>2, <1>3, UpToRange DEF Tick, TypeOK
<1>5. radio_state = "TX_WAIT" => stateAge' = chipAge'
  <2>1. SUFFICES ASSUME radio_state = "TX_WAIT" PROVE stateAge' = chipAge'
    OBVIOUS
  <2>2. stateAge = chipAge
    BY <1>1, <2>1 DEF TxClock
  <2>3. QED
    BY <1>2, <1>3, <1>4, <2>2, UpToRange DEF Tick, TypeOK
<1>6. QED
  BY <1>1, <1>2, <1>3, <1>4, <1>5 DEF TxClock, TypeOK

-----------------------------------------------------------------------------
(* The inductive invariant.                                                *)

LEMMA InitIInv == Init => IInv
<1> SUFFICES ASSUME Init PROVE IInv
  OBVIOUS
<1>1. TypeOK
  <2>1. NoFrame \in RxFrame
    BY DEF NoFrame, RxFrame, RxStatus
  <2>2. AllEnabled \in [Keys -> BOOLEAN]
    BY DEF AllEnabled
  <2>3. /\ 0 \in 0..RX_TIMEOUT /\ 0 \in 0..(REMOTE_WATCHDOG + 1)
        /\ 0 \in 0..(ACK_WAIT_ON + 1) /\ 0 \in 0..MAX_RETRY
    BY TimingAssumption, InputAssumption
  <2>4. QED
    BY <2>1, <2>2, <2>3 DEF Init, TypeOK, Stages, RadioState, TxFrame
<1>2. NoDeadKeys
  BY DEF Init, NoDeadKeys, AllEnabled, Keys
<1>3. QED
  BY <1>1, <1>2 DEF Init, IInv, Blocked, TxClock, NoLostEdge, TxNotCut,
                    FrameIsPending, OnlyFreshReplies

\* The stages in which nothing but the program counter and the one-shots move.
LEMMA QuietStep ==
  ASSUME IInv, StayAwake \/ NoPress \/ AckPass
  PROVE  IInv'
<1>1. TypeOK'
  BY DEF IInv, TypeOK, Stages, StayAwake, NoPress, AckPass, timers, flags, command,
         oneShots, driver, chip
<1>2. Blocked'
  BY DEF IInv, Blocked, StayAwake, NoPress, AckPass, command
<1>3. QED
  BY <1>1, <1>2
  DEF IInv, StayAwake, NoPress, AckPass, timers, command, driver, chip, TxClock,
      NoLostEdge, TxNotCut, FrameIsPending, OnlyFreshReplies, NoDeadKeys

\* A press leaves the radio alone and notes what it may replace.
LEMMA PressStep ==
  ASSUME IInv, NEW c \in UserCmds, PressAndHold(c)
  PROVE  IInv'
<1>1. c \in Cmd
  BY InputAssumption
<1>2. TypeOK'
  BY <1>1 DEF IInv, TypeOK, Stages, PressAndHold, timers, flags, command,
              oneShots, driver, chip
<1>3. msgTxd => c = "M1_OFF" /\ lastTxCmdCode \notin LightCmd
  BY <1>1 DEF PressAndHold, MayPress, Cmd, MotorCmd, LightCmd
<1>4. Blocked'
  BY <1>1, <1>3 DEF IInv, Blocked, PressAndHold, command
<1>5. QED
  BY <1>2, <1>4
  DEF IInv, PressAndHold, timers, command, driver, chip, TxClock,
      NoLostEdge, TxNotCut, FrameIsPending, OnlyFreshReplies, NoDeadKeys

\* Time passes in the delay of the loop and while a key is held.
LEMMA TimeStep ==
  ASSUME IInv, Holding \/ Rest
  PROVE  IInv'
<1>1. Tick
  BY DEF Holding, Rest
<1>2. UNCHANGED <<chipMode, chipIrq, radio_state, dio1_triggered>>
  BY DEF Holding, Rest, chip, driver
<1>3. TxClock'
  BY <1>1, <1>2, TickTxClock DEF IInv
<1>4. TypeOK'
  BY <1>1, TickTypes DEF IInv, TypeOK, Stages, Holding, Rest, loopVars, flags,
                         command, oneShots, driver, chip
<1>5. Blocked'
  BY DEF IInv, Blocked, Holding, Rest, loopVars, command
<1>6. QED
  BY <1>3, <1>4, <1>5
  DEF IInv, Holding, Rest, command, driver, chip,
      NoLostEdge, TxNotCut, FrameIsPending, OnlyFreshReplies, NoDeadKeys

\* Types of what remTxButtonCmd() writes.
LEMMA CommandTypes ==
  ASSUME TypeOK, NEW c \in Cmd, remTxButtonCmd(c)
  PROVE  /\ buttonEn' \in [Keys -> BOOLEAN]
         /\ lastTxCmdCode' \in Cmd \cup {"NONE"}
         /\ radioBuf' \in TxFrame /\ radio_state' \in RadioState
         /\ stateAge' \in 0..RX_TIMEOUT /\ ackAge' \in 0..(ACK_WAIT_ON + 1)
         /\ msgTxd' \in BOOLEAN /\ ackFailAtmp' \in 0..MAX_RETRY
         /\ chipLock' \in RxFrame /\ chipRx' \in RxFrame
<1>1. chipLock' \in RxFrame /\ chipRx' \in RxFrame
  BY DEF TypeOK, remTxButtonCmd, AgeReplies, RxFrame
<1>2. buttonEn' \in [Keys -> BOOLEAN]
  BY DEF TypeOK, remTxButtonCmd
<1>3. 0 \in 0..RX_TIMEOUT /\ 0 \in 0..(ACK_WAIT_ON + 1) /\ 0 \in 0..MAX_RETRY
  BY TimingAssumption, InputAssumption
<1>4. QED
  BY <1>1, <1>2, <1>3 DEF remTxButtonCmd, send_lora_data, TxFrame, RadioState

\* A new command: what the radio holds or is sending is discarded by the
\* transmission that is now due.
LEMMA CommandStep ==
  ASSUME IInv, NEW c \in Cmd, remTxButtonCmd(c),
         pc' \in {"radio", "rest"}, key' \in Cmd \cup {"NONE"},
         bootPrimePending' \in BOOLEAN, pairConfirmStatusPending' \in BOOLEAN,
         UNCHANGED <<actAge, chipAge, flags, dio1_triggered, chipMode, chipIrq, chipTx>>
  PROVE  IInv'
<1>1. TypeOK'
  BY CommandTypes DEF IInv, TypeOK, Stages, flags
<1>2. Blocked' /\ TxClock'
  BY DEF IInv, Blocked, TxClock, remTxButtonCmd, send_lora_data
<1>3. NoDeadKeys'
  <2>1. buttonEn \in [Keys -> BOOLEAN]
    BY DEF IInv, TypeOK
  <2>2. QED
    BY <2>1 DEF IInv, NoDeadKeys, remTxButtonCmd, Keys
<1>4. NoLostEdge' /\ TxNotCut' /\ FrameIsPending' /\ OnlyFreshReplies'
  BY DEF IInv, NoLostEdge, TxNotCut, FrameIsPending, OnlyFreshReplies,
         remTxButtonCmd, send_lora_data
<1>5. QED
  BY <1>1, <1>2, <1>3, <1>4 DEF IInv

LEMMA ReleaseStep ==
  ASSUME IInv, Release
  PROVE  IInv'
<1>1. key \in Cmd
  BY DEF IInv, Blocked, Release
<1>2. remTxButtonCmd(key)
  BY DEF Release
<1>3. QED
  BY <1>1, <1>2, CommandStep DEF Release, IInv, TypeOK, oneShots

LEMMA TapStep ==
  ASSUME IInv, TapSta
  PROVE  IInv'
<1>1. "STATUS" \in Cmd /\ remTxButtonCmd("STATUS")
  BY DEF TapSta, Cmd
<1>2. QED
  BY <1>1, CommandStep DEF TapSta, IInv, TypeOK, oneShots

\* The post-pairing STATUS, the warm-up frame, or nothing.
LEMMA PairTickStep ==
  ASSUME IInv, pairRemNodeTick
  PROVE  IInv'
<1>1. CASE pairConfirmStatusPending /\ ~msgTxd
  <2>1. "STATUS" \in Cmd /\ remTxButtonCmd("STATUS")
    BY <1>1 DEF pairRemNodeTick, Cmd
  <2>2. QED
    BY <1>1, <2>1, CommandStep DEF pairRemNodeTick, IInv, TypeOK
<1>2. CASE ~(pairConfirmStatusPending /\ ~msgTxd)
  <2>1. TypeOK'
    <3>1. 0 \in 0..RX_TIMEOUT
      BY TimingAssumption
    <3>2. radioBuf' \in TxFrame /\ radio_state' \in RadioState
          /\ stateAge' \in 0..RX_TIMEOUT
      BY <1>2, <3>1 DEF IInv, TypeOK, pairRemNodeTick, send_lora_data,
                        TxFrame, RadioState
    <3>3. UNCHANGED <<msgTxd, lastTxCmdCode, ackFailAtmp, ackAge, buttonEn,
                      chipLock, chipRx, rxCrcError, rxHdrError>>
      BY <1>2 DEF pairRemNodeTick, command, flags
    <3>4. QED
      BY <3>2, <3>3 DEF IInv, TypeOK, pairRemNodeTick, Stages
  <2>2. Blocked'
    BY <1>2 DEF IInv, Blocked, pairRemNodeTick, command
  <2>3. QED
    BY <1>2, <2>1, <2>2
    DEF IInv, pairRemNodeTick, send_lora_data, WarmUpDue, command, TxClock,
        NoLostEdge, TxNotCut, FrameIsPending, OnlyFreshReplies, NoDeadKeys
<1>3. QED
  BY <1>1, <1>2

-----------------------------------------------------------------------------
(* The radio stage.                                                        *)

LEMMA ZeroAges == /\ 0 \in 0..RX_TIMEOUT /\ 0 \in 0..(REMOTE_WATCHDOG + 1)
                  /\ 0 \in 0..(ACK_WAIT_ON + 1)
BY TimingAssumption

\* The watchdog check only chooses the next stage.
LEMMA WatchdogStage ==
  ASSUME NEW age, WatchdogNext(age)
  PROVE  pc' \in {"wdt", "ack"}
BY DEF WatchdogNext

LEMMA IdleStep ==
  ASSUME IInv, Idle
  PROVE  IInv'
<1>1. pc' \in {"wdt", "ack"}
  BY WatchdogStage DEF Idle
<1>2. TypeOK'
  BY <1>1, ZeroAges DEF IInv, TypeOK, Stages, RadioState, Idle, Enter, flags,
                        command, oneShots, chip
<1>3. Blocked'
  BY <1>1 DEF IInv, Blocked, Idle, command
<1>4. QED
  BY <1>2, <1>3
  DEF IInv, Idle, Enter, command, chip, TxClock,
      NoLostEdge, TxNotCut, FrameIsPending, OnlyFreshReplies, NoDeadKeys

LEMMA TxSetupStep ==
  ASSUME IInv, TxSetup
  PROVE  IInv'
<1>1. pc' \in {"wdt", "ack"}
  BY WatchdogStage DEF TxSetup
<1>2. NoFrame \in RxFrame
  BY DEF NoFrame, RxFrame, RxStatus
<1>3. TypeOK'
  BY <1>1, <1>2, ZeroAges DEF IInv, TypeOK, Stages, RadioState, TxSetup, Enter,
                              ChipGoes, flags, command, oneShots
<1>4. Blocked'
  BY <1>1 DEF IInv, Blocked, TxSetup, command
<1>5. TxClock'
  BY TimingAssumption DEF TxClock, TxSetup, Enter, ChipGoes
<1>6. FrameIsPending'
  BY DEF IInv, FrameIsPending, TxSetup, Enter, ChipGoes, command
<1>7. QED
  BY <1>3, <1>4, <1>5, <1>6
  DEF IInv, TxSetup, Enter, ChipGoes, command,
      NoLostEdge, TxNotCut, OnlyFreshReplies, NoDeadKeys

LEMMA TxWaitStep ==
  ASSUME IInv, TxWait
  PROVE  IInv'
<1>1. pc' \in {"wdt", "ack"}
  BY WatchdogStage DEF TxWait
\* Neither way out of TX_WAIT is open while the chip still transmits.
<1>2. chipMode = "tx" => ~dio1_triggered /\ ~TxTimedOut
  BY TimingAssumption DEF IInv, TypeOK, TxClock, TxWait, TxTimedOut
<1>3. /\ radio_state' \in {"TX_WAIT", "RX_SETUP", "IDLE"}
      /\ stateAge' \in 0..RX_TIMEOUT /\ actAge' \in 0..(REMOTE_WATCHDOG + 1)
      /\ dio1_triggered' \in BOOLEAN /\ chipIrq' \in SUBSET Irq
      /\ chipIrq' \in {{}, chipIrq}
      /\ chipIrq' # {} => dio1_triggered'
      /\ chipMode = "tx" => UNCHANGED <<radio_state, stateAge, dio1_triggered, chipIrq>>
  BY <1>2, ZeroAges DEF IInv, TypeOK, NoLostEdge, TxWait, Enter, ServiceIrq
<1>4. TypeOK'
  BY <1>1, <1>3 DEF IInv, TypeOK, Stages, RadioState, TxWait, flags, command, oneShots
<1>5. Blocked'
  BY <1>1 DEF IInv, Blocked, TxWait, command
<1>6. TxClock'
  BY <1>3 DEF IInv, TxClock, TxWait
<1>7. QED
  BY <1>3, <1>4, <1>5, <1>6
  DEF IInv, TxWait, command,
      NoLostEdge, TxNotCut, FrameIsPending, OnlyFreshReplies, NoDeadKeys

LEMMA RxSetupStep ==
  ASSUME IInv, RxSetup
  PROVE  IInv'
<1>1. pc' \in {"wdt", "ack"}
  BY WatchdogStage DEF RxSetup
<1>2. NoFrame \in RxFrame
  BY DEF NoFrame, RxFrame, RxStatus
<1>3. TypeOK'
  BY <1>1, <1>2, ZeroAges DEF IInv, TypeOK, Stages, RadioState, RxSetup, Enter,
                              ChipGoes, flags, command, oneShots
<1>4. Blocked'
  BY <1>1 DEF IInv, Blocked, RxSetup, command
<1>5. QED
  BY <1>3, <1>4
  DEF IInv, RxSetup, Enter, ChipGoes, command, TxClock,
      NoLostEdge, TxNotCut, FrameIsPending, OnlyFreshReplies, NoDeadKeys

\* Reading a packet at most ends the pending command and opens every key.
LEMMA ReadIrqEffect ==
  ASSUME IInv, ReadIrq
  PROVE  /\ rxCrcError' \in BOOLEAN /\ rxHdrError' \in BOOLEAN
         /\ \/ UNCHANGED <<msgTxd, ackAge, buttonEn>>
            \/ ~msgTxd' /\ msgTxd' \in BOOLEAN /\ ackAge' = 0 /\ buttonEn' = AllEnabled
BY DEF IInv, TypeOK, ReadIrq, remHandleRsp, Settle, flags

LEMMA RxWaitStep ==
  ASSUME IInv, RxWait
  PROVE  IInv'
<1>1. pc' \in {"wdt", "ack"}
  BY WatchdogStage DEF RxWait
<1>2. /\ rxCrcError' \in BOOLEAN /\ rxHdrError' \in BOOLEAN
      /\ \/ UNCHANGED <<msgTxd, ackAge, buttonEn>>
         \/ ~msgTxd' /\ msgTxd' \in BOOLEAN /\ ackAge' = 0 /\ buttonEn' = AllEnabled
  BY ReadIrqEffect DEF IInv, TypeOK, RxWait, flags
<1>3. /\ radio_state' \in {"RX_WAIT", "IDLE"}
      /\ stateAge' \in 0..RX_TIMEOUT /\ actAge' \in 0..(REMOTE_WATCHDOG + 1)
      /\ dio1_triggered' \in BOOLEAN
      /\ chipIrq' \in {{}, chipIrq}
      /\ chipIrq' # {} => dio1_triggered'
  BY ZeroAges DEF IInv, TypeOK, NoLostEdge, RxWait, Enter, ServiceIrq
<1>4. AllEnabled \in [Keys -> BOOLEAN] /\ AllEnabled["M1_OFF"]
  BY DEF AllEnabled, Keys
<1>5. chipMode # "tx"
  BY DEF IInv, TxNotCut, RxWait
<1>6. TypeOK'
  BY <1>1, <1>2, <1>3, <1>4, ZeroAges
  DEF IInv, TypeOK, Stages, RadioState, RxWait, oneShots
<1>7. Blocked'
  BY <1>1, <1>2 DEF IInv, Blocked, RxWait
<1>8. NoDeadKeys'
  BY <1>2, <1>4 DEF IInv, NoDeadKeys
<1>9. FrameIsPending' /\ TxClock' /\ TxNotCut' /\ NoLostEdge'
  BY <1>3, <1>5 DEF FrameIsPending, TxClock, TxNotCut, NoLostEdge, RxWait
<1>10. OnlyFreshReplies'
  BY <1>2, <1>3 DEF IInv, OnlyFreshReplies, RxWait
<1>11. QED
  BY <1>6, <1>7, <1>8, <1>9, <1>10 DEF IInv

-----------------------------------------------------------------------------
(* Re-initialisation, retry and give-up.                                   *)

\* After a reset of the chip nothing is sent, received or pending in it.
LEMMA ReinitStep ==
  ASSUME IInv, RadioReinit,
         pc' \in {"button", "ack", "tick"}, UNCHANGED key,
         actAge' \in 0..(REMOTE_WATCHDOG + 1), ackAge' \in 0..(ACK_WAIT_ON + 1),
         rxCrcError' \in BOOLEAN, rxHdrError' \in BOOLEAN,
         UNCHANGED <<lastTxCmdCode, ackFailAtmp>>, UNCHANGED oneShots,
         \/ UNCHANGED <<msgTxd, buttonEn>>
         \/ msgTxd' = FALSE /\ buttonEn' = AllEnabled
  PROVE  IInv'
<1>1. AllEnabled \in [Keys -> BOOLEAN] /\ AllEnabled["M1_OFF"]
  BY DEF AllEnabled, Keys
<1>2. NoFrame \in RxFrame
  BY DEF NoFrame, RxFrame, RxStatus
<1>3. TypeOK'
  BY <1>1, <1>2, ZeroAges DEF IInv, TypeOK, Stages, RadioState, RadioReinit, oneShots
<1>4. Blocked'
  BY DEF IInv, Blocked
<1>5. NoDeadKeys'
  BY <1>1 DEF IInv, NoDeadKeys
<1>6. QED
  BY <1>3, <1>4, <1>5
  DEF IInv, RadioReinit, TxClock, NoLostEdge, TxNotCut, FrameIsPending, OnlyFreshReplies

LEMMA SleepStep ==
  ASSUME IInv, enterSleep
  PROVE  IInv'
BY ReinitStep, ZeroAges DEF enterSleep, Settle, IInv, TypeOK

LEMMA WatchdogStep ==
  ASSUME IInv, RadioWatchdog
  PROVE  IInv'
BY ReinitStep, ZeroAges DEF RadioWatchdog, IInv, TypeOK, flags, command

LEMMA GiveUpStep ==
  ASSUME IInv, GiveUp
  PROVE  IInv'
BY ReinitStep, ZeroAges DEF GiveUp, Settle, IInv, TypeOK, flags

LEMMA AckWaitStep ==
  ASSUME IInv, AckWait
  PROVE  IInv'
<1>1. ackAge' \in 0..(ACK_WAIT_ON + 1)
  BY AckWindow DEF IInv, TypeOK, AckWait, AckClock
<1>2. ackWaitFor(lastTxCmdCode) \in Nat /\ AckClock \in Int
  BY <1>1, AckWindow, TimingAssumption DEF AckWait
<1>3. /\ pc' \in {"tick", "tone", "blink"}
      /\ pc' = "tone" => ackFailAtmp >= MAX_RETRY
      /\ pc' = "blink" => ~(ackFailAtmp >= MAX_RETRY)
  BY <1>2 DEF AckWait
<1>4. TypeOK'
  BY <1>1, <1>3 DEF IInv, TypeOK, Stages, AckWait, command, oneShots, driver, chip
<1>5. Blocked'
  <2>1. msgTxd /\ UNCHANGED <<msgTxd, lastTxCmdCode, ackFailAtmp>>
    BY DEF AckWait, command
  <2>2. /\ ackFailAtmp >= MAX_RETRY => ackFailAtmp = MAX_RETRY
        /\ ~(ackFailAtmp >= MAX_RETRY) => ackFailAtmp < MAX_RETRY
    BY InputAssumption DEF IInv, TypeOK
  <2>3. QED
    BY <1>3, <2>1, <2>2 DEF IInv, Blocked
<1>6. QED
  BY <1>4, <1>5
  DEF IInv, AckWait, command, driver, chip, TxClock,
      NoLostEdge, TxNotCut, FrameIsPending, OnlyFreshReplies, NoDeadKeys

LEMMA ResendStep ==
  ASSUME IInv, Resend
  PROVE  IInv'
<1>1. lastTxCmdCode \in Cmd /\ ackFailAtmp + 1 \in 0..MAX_RETRY
  BY InputAssumption DEF IInv, TypeOK, Blocked, Resend
<1>2. TypeOK'
  BY <1>1, ZeroAges DEF IInv, TypeOK, Stages, RadioState, TxFrame, Resend,
                        send_lora_data, flags, oneShots, chip
<1>3. Blocked'
  BY DEF IInv, Blocked, Resend
<1>4. QED
  BY <1>2, <1>3
  DEF IInv, Resend, send_lora_data, chip, TxClock,
      NoLostEdge, TxNotCut, FrameIsPending, OnlyFreshReplies, NoDeadKeys

-----------------------------------------------------------------------------
(* The chip and the air.                                                   *)

\* An event leaves the chip in standby with its flags up and DIO1 noticed.
LEMMA ChipStopsStep ==
  ASSUME IInv, NEW events \in SUBSET Irq, ChipStops(events), chipRx' \in RxFrame,
         (/\ msgTxd /\ radio_state # "TX_SETUP"
          /\ "RX_DONE" \in chipIrq \cup events /\ "CRC_ERROR" \notin chipIrq \cup events)
           => chipRx'.fresh
  PROVE  IInv'
<1>1. NoFrame \in RxFrame
  BY DEF NoFrame, RxFrame, RxStatus
<1>2. /\ chipIrq' = chipIrq \cup events
      /\ dio1_triggered' \in BOOLEAN
      /\ chipIrq # {} => dio1_triggered'
      /\ chipIrq = {} => dio1_triggered'
  BY DEF IInv, TypeOK, NoLostEdge, ChipStops, RaiseIrq
<1>3. TypeOK'
  BY <1>1, <1>2, ZeroAges DEF IInv, TypeOK, ChipStops, loopVars, flags, command, oneShots
<1>4. Blocked'
  BY DEF IInv, Blocked, ChipStops, loopVars, command
<1>5. OnlyFreshReplies'
  BY <1>2 DEF IInv, OnlyFreshReplies, ChipStops, command
<1>6. QED
  BY <1>2, <1>3, <1>4, <1>5
  DEF IInv, ChipStops, command, TxClock, NoLostEdge, TxNotCut, FrameIsPending, NoDeadKeys

LEMMA RadioStep ==
  ASSUME IInv, Radio
  PROVE  IInv'
<1>1. CASE ChipTxDone
  BY <1>1, ChipStopsStep DEF ChipTxDone, Irq, IInv, TypeOK, OnlyFreshReplies
<1>2. CASE ChipRxTimeout
  BY <1>2, ChipStopsStep DEF ChipRxTimeout, Irq, IInv, TypeOK, OnlyFreshReplies
<1>3. QED
  BY <1>1, <1>2 DEF Radio

LEMMA AirStep ==
  ASSUME IInv, Air
  PROVE  IInv'
<1>1. ASSUME NEW s \in Replies \cup {"FOREIGN"}, RspBegins(s)
      PROVE  IInv'
  <2>1. [status |-> s, fresh |-> TRUE] \in RxFrame
    BY InputAssumption DEF RxFrame, RxStatus
  <2>2. TypeOK'
    BY <1>1, <2>1 DEF IInv, TypeOK, RspBegins, loopVars, timers, flags, command,
                      oneShots, driver
  <2>3. QED
    BY <1>1, <2>2
    DEF IInv, Blocked, RspBegins, loopVars, timers, command, driver, TxClock,
        NoLostEdge, TxNotCut, FrameIsPending, OnlyFreshReplies, NoDeadKeys
<1>2. CASE RspArrives
  BY <1>2, ChipStopsStep DEF RspArrives, Irq, IInv, TypeOK, OnlyFreshReplies
<1>3. ASSUME NEW f \in Faults, RspCorrupted(f)
      PROVE  IInv'
  <2>1. CASE f = "crc"
    BY <1>3, <2>1, ChipStopsStep DEF RspCorrupted, Irq, IInv, TypeOK
  <2>2. CASE f # "crc"
    BY <1>3, <2>2, ChipStopsStep DEF RspCorrupted, Irq, IInv, TypeOK, OnlyFreshReplies
  <2>3. QED
    BY <2>1, <2>2
<1>4. CASE RspFades
  <2>1. NoFrame \in RxFrame
    BY DEF NoFrame, RxFrame, RxStatus
  <2>2. TypeOK'
    BY <1>4, <2>1 DEF IInv, TypeOK, RspFades, loopVars, timers, flags, command,
                      oneShots, driver
  <2>3. QED
    BY <1>4, <2>2
    DEF IInv, Blocked, RspFades, loopVars, timers, command, driver, TxClock,
        NoLostEdge, TxNotCut, FrameIsPending, OnlyFreshReplies, NoDeadKeys
<1>5. CASE ChipHangs
  <2>1. NoFrame \in RxFrame
    BY DEF NoFrame, RxFrame, RxStatus
  <2>2. TypeOK'
    BY <1>5, <2>1, ZeroAges DEF IInv, TypeOK, ChipHangs, loopVars, flags, command,
                                oneShots, driver
  <2>3. QED
    BY <1>5, <2>2
    DEF IInv, Blocked, ChipHangs, loopVars, command, driver, TxClock,
        NoLostEdge, TxNotCut, FrameIsPending, OnlyFreshReplies, NoDeadKeys
<1>6. QED
  BY <1>1, <1>2, <1>3, <1>4, <1>5 DEF Air

-----------------------------------------------------------------------------
(* The theorems.                                                           *)

LEMMA StutterStep == IInv /\ UNCHANGED vars => IInv'
BY DEF IInv, TypeOK, Blocked, TxClock, NoLostEdge, TxNotCut, FrameIsPending,
       OnlyFreshReplies, NoDeadKeys, vars, loopVars, timers, flags, command,
       oneShots, driver, chip

LEMMA NextStep == IInv /\ [Next]_vars => IInv'
<1> SUFFICES ASSUME IInv, [Next]_vars PROVE IInv'
  OBVIOUS
<1>1. CASE Loop
  BY <1>1, QuietStep, TimeStep, IdleStep, TxSetupStep, TxWaitStep, RxSetupStep,
     RxWaitStep, WatchdogStep, AckWaitStep, ResendStep, GiveUpStep, PairTickStep
  DEF Loop
<1>2. CASE Release
  BY <1>2, ReleaseStep
<1>3. CASE User
  BY <1>3, TapStep, PressStep DEF User
<1>4. CASE enterSleep
  BY <1>4, SleepStep
<1>5. CASE Radio
  BY <1>5, RadioStep
<1>6. CASE Air
  BY <1>6, AirStep
<1>7. CASE UNCHANGED vars
  BY <1>7, StutterStep
<1>8. QED
  BY <1>1, <1>2, <1>3, <1>4, <1>5, <1>6, <1>7 DEF Next

LEMMA Invariance == Spec => []IInv
<1>1. Init => IInv
  BY InitIInv
<1>2. IInv /\ [Next]_vars => IInv'
  BY NextStep
<1>3. QED
  BY <1>1, <1>2, PTL DEF Spec

\* The variables keep their types, and the counters their bounds: no command
\* is ever repeated more than MAX_RETRY times.
THEOREM TypeCorrect == Spec => []TypeOK
BY Invariance, PTL DEF IInv

\* No interrupt of the chip is ever left behind a DIO1 line that cannot rise.
THEOREM EdgesAreSeen == Spec => []NoLostEdge
BY Invariance, PTL DEF IInv

\* The remote never cuts off its own transmission to listen.
THEOREM TransmissionsComplete == Spec => []TxNotCut
BY Invariance, PTL DEF IInv

\* The frame that is sent while a command is pending is that command.
THEOREM FramesAreCurrent == Spec => []FrameIsPending
BY Invariance, PTL DEF IInv

\* No reply to an older command survives in the radio once a command is sent.
THEOREM RepliesAreFresh == Spec => []OnlyFreshReplies
BY Invariance, PTL DEF IInv

\* STOP is always live, and every key is whenever the link is idle.
THEOREM KeysStayAlive == Spec => []NoDeadKeys
BY Invariance, PTL DEF IInv

-----------------------------------------------------------------------------
(* Action properties.                                                      *)

\* What a step may do to the pending command.
LEMMA PendingSteps ==
  ASSUME IInv, [Next]_vars
  PROVE  \/ UNCHANGED <<msgTxd, lastTxCmdCode>>
         \/ /\ lastTxCmdCode' \in Cmd
            /\ msgTxd => lastTxCmdCode' = "M1_OFF" /\ lastTxCmdCode \notin LightCmd
         \/ ~msgTxd'
<1>1. CASE Release
  BY <1>1 DEF Release, IInv, Blocked, remTxButtonCmd
<1>2. CASE User
  <2>1. CASE TapSta
    BY <2>1 DEF TapSta, MayPress, remTxButtonCmd, Cmd, LightCmd, MotorCmd
  <2>2. CASE \E c \in UserCmds : PressAndHold(c)
    BY <2>2 DEF PressAndHold, command
  <2>3. QED
    BY <1>2, <2>1, <2>2 DEF User
<1>3. CASE pairRemNodeTick
  BY <1>3 DEF pairRemNodeTick, remTxButtonCmd, Cmd, command
<1>4. CASE RxWait
  BY <1>4 DEF RxWait, ReadIrq, remHandleRsp, Settle
<1>5. CASE StayAwake \/ NoPress \/ Holding \/ AckPass \/ AckWait \/ Resend \/ Rest
  BY <1>5 DEF StayAwake, NoPress, Holding, AckPass, AckWait, Resend, Rest, command
<1>6. CASE Idle \/ TxSetup \/ TxWait \/ RxSetup \/ RadioWatchdog
  BY <1>6 DEF Idle, TxSetup, TxWait, RxSetup, RadioWatchdog, command
<1>7. CASE GiveUp \/ enterSleep
  BY <1>7 DEF GiveUp, enterSleep, Settle
<1>8. CASE Radio \/ Air
  BY <1>8 DEF Radio, ChipTxDone, ChipRxTimeout, Air, RspBegins, RspArrives,
              RspCorrupted, RspFades, ChipHangs, ChipStops, command
<1>9. CASE UNCHANGED vars
  BY <1>9 DEF vars, command
<1>10. QED
  BY <1>1, <1>2, <1>3, <1>4, <1>5, <1>6, <1>7, <1>8, <1>9 DEF Next, Loop

\* "Stop always wins": only STOP replaces a pending command, no light command
\* is replaced, and a pending STOP is replaced by nothing else.
THEOREM StopWins == Spec => OnlyStopPreempts
<1>1. IInv /\ [Next]_vars =>
        [msgTxd /\ msgTxd' /\ lastTxCmdCode' # lastTxCmdCode
           => lastTxCmdCode' = "M1_OFF" /\ lastTxCmdCode \notin LightCmd]_vars
  BY PendingSteps
<1>2. QED
  BY <1>1, Invariance, PTL DEF Spec, OnlyStopPreempts

\* In the radio stage only the receive handler ends a command, and it has
\* just read a reply that is fresh and no stale "running".
LEMMA AnswerStep ==
  ASSUME IInv, [Next]_vars, pc = "radio", msgTxd, ~msgTxd'
  PROVE  /\ RxWait /\ dio1_triggered
         /\ "RX_DONE" \in chipIrq /\ "CRC_ERROR" \notin chipIrq
         /\ chipRx.fresh /\ chipRx.status \in Status
         /\ ~(lastTxCmdCode = "M1_OFF" /\ chipRx.status = "ON")
         /\ chipIrq' = {} /\ UNCHANGED chipRx
<1>1. RxWait
  <2>1. ~(UNCHANGED vars)
    BY DEF vars, command
  <2>2. ~(Radio \/ Air)
    BY DEF Radio, ChipTxDone, ChipRxTimeout, Air, RspBegins, RspArrives,
           RspCorrupted, RspFades, ChipHangs, ChipStops, command
  <2>3. ~(Release \/ User \/ enterSleep)
    BY DEF Release, User, TapSta, PressAndHold, enterSleep
  <2>4. ~(Idle \/ TxSetup \/ TxWait \/ RxSetup)
    BY DEF Idle, TxSetup, TxWait, RxSetup, command
  <2>5. ~(StayAwake \/ NoPress \/ Holding \/ RadioWatchdog \/ AckPass \/ AckWait
          \/ Resend \/ GiveUp \/ pairRemNodeTick \/ Rest)
    BY DEF StayAwake, NoPress, Holding, RadioWatchdog, AckPass, AckWait, Resend,
           GiveUp, pairRemNodeTick, Rest
  <2>6. QED
    BY <2>1, <2>2, <2>3, <2>4, <2>5 DEF Next, Loop
<1>2. dio1_triggered /\ ReadIrq /\ chipIrq' = {} /\ UNCHANGED chipRx
  BY <1>1 DEF RxWait, ServiceIrq
<1>3. "RX_DONE" \in chipIrq /\ "CRC_ERROR" \notin chipIrq /\ remHandleRsp(chipRx)
  BY <1>2 DEF ReadIrq
<1>4. Answers(chipRx)
  BY <1>3 DEF remHandleRsp
<1>5. radio_state # "TX_SETUP"
  BY <1>1 DEF RxWait
<1>6. chipRx.fresh
  BY <1>3, <1>5 DEF IInv, OnlyFreshReplies
<1>7. QED
  BY <1>1, <1>2, <1>3, <1>4, <1>6 DEF Answers

\* A command is answered only by a reply that began after it was issued, and
\* STOP never by one that reports a running motor.
THEOREM AnswersMatch == Spec => AnswerIsForThisCommand
<1>1. IInv /\ [Next]_vars =>
        [(pc = "radio" /\ msgTxd /\ ~msgTxd') =>
           /\ chipRx.fresh
           /\ ~(lastTxCmdCode = "M1_OFF" /\ chipRx.status = "ON")]_vars
  BY AnswerStep
<1>2. QED
  BY <1>1, Invariance, PTL DEF Spec, AnswerIsForThisCommand

-----------------------------------------------------------------------------
(* The command link implements the command session.                        *)

Pending == IF msgTxd THEN lastTxCmdCode ELSE "NONE"
Tries   == IF msgTxd THEN ackFailAtmp ELSE 0

\* A step that leaves the command alone can only gain or lose a reply.
LEMMA ReplyStep ==
  ASSUME UNCHANGED <<Pending, Tries>>
  PROVE  [Session!SessionNext]_Session!session
<1>1. WaitingReply' = "NONE" \/ WaitingReply' \in Status
  BY DEF WaitingReply
<1>2. CASE WaitingReply' = "NONE"
  BY <1>2 DEF Pending, Tries, Session!SessionNext, Session!Lose, Session!session
<1>3. CASE WaitingReply' \in Status
  BY <1>3 DEF Pending, Tries, Session!SessionNext, Session!Hear, Session!Status, Status
<1>4. QED
  BY <1>1, <1>2, <1>3

\* Sending a command starts it in the session: older replies no longer count.
LEMMA StartStep ==
  ASSUME NEW c \in Cmd, remTxButtonCmd(c), UNCHANGED chipIrq,
         msgTxd => c = "M1_OFF" /\ lastTxCmdCode \notin LightCmd
  PROVE  [Session!SessionNext]_Session!session
<1>1. msgTxd' /\ lastTxCmdCode' = c /\ ackFailAtmp' = 0
  BY DEF remTxButtonCmd
<1>2. chipRx' = [chipRx EXCEPT !.fresh = FALSE]
  BY DEF remTxButtonCmd, AgeReplies
<1>3. WaitingReply' = "NONE"
  BY <1>2 DEF WaitingReply
<1>4. Session!MayStart(c)
  BY DEF Session!MayStart, Session!LightCmd, LightCmd
<1>5. Session!Start(c)
  BY <1>1, <1>3, <1>4 DEF Session!Start
<1>6. QED
  BY <1>5 DEF Session!SessionNext, Session!Cmd, Cmd, MotorCmd, LightCmd, Session!MotorCmd, Session!LightCmd

\* The reply the receive handler accepts ends the command in the session.
LEMMA AnswerRefines ==
  ASSUME IInv, RxWait
  PROVE  [Session!SessionNext]_Session!session
<1>1. UNCHANGED <<lastTxCmdCode, ackFailAtmp>>
  BY DEF RxWait
<1>2. msgTxd' = msgTxd \/ msgTxd' = FALSE
  BY DEF RxWait, ReadIrq, remHandleRsp, Settle
<1>3. CASE msgTxd /\ ~msgTxd'
  <2>1. pc = "radio" /\ [Next]_vars
    BY DEF RxWait, Next, Loop
  <2>2. /\ "RX_DONE" \in chipIrq /\ "CRC_ERROR" \notin chipIrq
        /\ chipRx.fresh /\ chipRx.status \in Status
        /\ ~(lastTxCmdCode = "M1_OFF" /\ chipRx.status = "ON")
        /\ chipIrq' = {}
    BY <1>3, <2>1, AnswerStep
  <2>3. WaitingReply = chipRx.status /\ WaitingReply' = "NONE"
    BY <2>2 DEF WaitingReply
  <2>4. "NONE" \notin Cmd /\ "NONE" \notin Status
    BY DEF Cmd, MotorCmd, LightCmd, Status
  <2>5. lastTxCmdCode \in Cmd
    BY <1>3 DEF IInv, Blocked
  <2>6. Session!Answered
    BY <1>3, <2>2, <2>3, <2>4, <2>5 DEF Session!Answered, Session!Ends
  <2>7. QED
    BY <2>6 DEF Session!SessionNext
<1>4. CASE ~(msgTxd /\ ~msgTxd')
  <2>1. UNCHANGED <<Pending, Tries>>
    BY <1>1, <1>2, <1>4 DEF Pending, Tries, IInv, TypeOK
  <2>2. QED
    BY <2>1, ReplyStep
<1>5. QED
  BY <1>3, <1>4

LEMMA PairTickRefines ==
  ASSUME IInv, pairRemNodeTick
  PROVE  [Session!SessionNext]_Session!session
<1>1. CASE pairConfirmStatusPending /\ ~msgTxd
  <2>1. "STATUS" \in Cmd /\ remTxButtonCmd("STATUS") /\ UNCHANGED chipIrq
    BY <1>1 DEF pairRemNodeTick, Cmd
  <2>2. QED
    BY <1>1, <2>1, StartStep
<1>2. CASE ~(pairConfirmStatusPending /\ ~msgTxd)
  <2>1. UNCHANGED <<Pending, Tries>>
    BY <1>2 DEF pairRemNodeTick, command, Pending, Tries
  <2>2. QED
    BY <2>1, ReplyStep
<1>3. QED
  BY <1>1, <1>2

\* Every step of the link is a step of the session or leaves it unchanged.
LEMMA StepRefines ==
  ASSUME IInv, [Next]_vars
  PROVE  [Session!SessionNext]_Session!session
<1>1. CASE Release
  <2>1. key \in Cmd /\ remTxButtonCmd(key) /\ UNCHANGED chipIrq
        /\ (msgTxd => key = "M1_OFF" /\ lastTxCmdCode \notin LightCmd)
    BY <1>1 DEF Release, IInv, Blocked
  <2>2. QED
    BY <2>1, StartStep
<1>2. CASE TapSta
  BY <1>2, StartStep DEF TapSta, MayPress, Cmd, MotorCmd, LightCmd
<1>3. CASE pairRemNodeTick
  BY <1>3, PairTickRefines
<1>4. CASE RxWait
  BY <1>4, AnswerRefines
<1>5. CASE Resend
  <2>1. msgTxd /\ ackFailAtmp < MAX_RETRY /\ lastTxCmdCode \in Cmd
    BY <1>5 DEF Resend, IInv, Blocked
  <2>2. UNCHANGED WaitingReply
    BY <1>5 DEF Resend, chip, WaitingReply
  <2>3. Session!Repeat
    BY <1>5, <2>1, <2>2 DEF Resend, Session!Repeat, Cmd, MotorCmd, LightCmd
  <2>4. QED
    BY <2>3 DEF Session!SessionNext
<1>6. CASE GiveUp
  <2>1. msgTxd /\ ackFailAtmp = MAX_RETRY /\ lastTxCmdCode \in Cmd /\ ~msgTxd'
    BY <1>6 DEF GiveUp, Settle, IInv, Blocked
  <2>2. WaitingReply' = "NONE"
    BY <1>6 DEF GiveUp, RadioReinit, WaitingReply
  <2>3. Session!NoNetwork
    BY <2>1, <2>2 DEF Session!NoNetwork, Cmd, MotorCmd, LightCmd
  <2>4. QED
    BY <2>3 DEF Session!SessionNext
<1>7. CASE enterSleep
  <2>1. ~msgTxd /\ ~msgTxd'
    BY <1>7 DEF enterSleep, Settle
  <2>2. QED
    BY <2>1, ReplyStep DEF Pending, Tries
<1>8. CASE \/ \E c \in UserCmds : PressAndHold(c)
           \/ StayAwake \/ NoPress \/ Holding \/ AckPass \/ AckWait \/ Rest
  <2>1. UNCHANGED command
    BY <1>8 DEF PressAndHold, StayAwake, NoPress, Holding, AckPass, AckWait, Rest
  <2>2. QED
    BY <2>1, ReplyStep DEF command, Pending, Tries
<1>9. CASE Idle \/ TxSetup \/ TxWait \/ RxSetup \/ RadioWatchdog
  <2>1. UNCHANGED command
    BY <1>9 DEF Idle, TxSetup, TxWait, RxSetup, RadioWatchdog
  <2>2. QED
    BY <2>1, ReplyStep DEF command, Pending, Tries
<1>10. CASE Radio \/ Air
  <2>1. UNCHANGED command
    BY <1>10 DEF Radio, ChipTxDone, ChipRxTimeout, Air, RspBegins, RspArrives,
                 RspCorrupted, RspFades, ChipHangs, ChipStops
  <2>2. QED
    BY <2>1, ReplyStep DEF command, Pending, Tries
<1>11. CASE UNCHANGED vars
  BY <1>11, ReplyStep DEF vars, command, Pending, Tries
<1>12. QED
  BY <1>1, <1>2, <1>3, <1>4, <1>5, <1>6, <1>7, <1>8, <1>9, <1>10, <1>11
  DEF Next, Loop, User

\* Refinement: at most one command is pending, repeated at most MAX_RETRY
\* times, and it ends by an answer sent after the press or by a give-up after
\* the last repetition; STOP pre-empts, and nothing pre-empts STOP.
THEOREM Refinement == Spec => ImplementsSession
<1>1. Init => Session!SessionInit
  BY DEF Init, Session!SessionInit, WaitingReply
<1>2. IInv /\ [Next]_vars => [Session!SessionNext]_Session!session
  BY StepRefines
<1>3. QED
  BY <1>1, <1>2, Invariance, PTL DEF Spec, ImplementsSession, Session!SessionSpec

=============================================================================
