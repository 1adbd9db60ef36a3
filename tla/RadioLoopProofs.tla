--------------------------- MODULE RadioLoopProofs --------------------------
(***************************************************************************)
(* The safety properties of RadioLoop, from an inductive invariant.  It    *)
(* bounds, for each stage of the loop, what the watchdog timer may have    *)
(* counted, and says which settings the chip has while no transaction has  *)
(* been lost.                                                              *)
(***************************************************************************)
EXTENDS RadioProgramProofs, AirtimeProofs

-----------------------------------------------------------------------------
(* The inductive invariant.                                                *)

\* The chip, the fault and the timer: a stall the timer has counted is one there was.
Hardware ==
  /\ ChipOK(chip) /\ cut \in BOOLEAN /\ dog \in Dogs
  /\ stalls \in 0..MaxStalls /\ dog.stalls <= stalls

\* What the program's variables hold.
Software ==
  /\ stage \in Stages
  /\ radio_state \in RadioStates /\ pairing_mode \in BOOLEAN
  /\ tx_length \in {1, 5, 21, 32} /\ quiet \in BOOLEAN
  /\ msgTxd \in BOOLEAN /\ tries \in 0..MAX_RETRY /\ wkup \in BOOLEAN
  /\ pairState \in {"IDLE", "BEACONING", "WAIT"}
  /\ binding \in {"fresh", "torn", "lost", "paired"}
  /\ shots \subseteq {"status", "prime"}

\* The states of the radio in which a frame is on its way.
TxStates == {"TX_SETUP", "TX_WAIT"}

\* A chip c that has everything, with the radio in state rs, on the channel of the pairing
\* or of the peer; with `bonded` FALSE the channel does not matter.
Settles(c, rs, pairs, bonded) ==
  /\ Initialised(c)
  /\ bonded => IF pairs
               THEN c.mod = PairMod /\ c.pkt.pre = 8 /\ c.sync = "PAIR" /\ c.pwr = 14
               ELSE OnChan(c, OperMod(Profile), OperPkt, "OPER", 22)
  /\ c.mode = "TX" => /\ rs \in TxStates
                      /\ c.fifo \in {1, 5, 21, 32}
                      /\ c.pkt = IF pairs THEN PairPkt(c.fifo) ELSE OperPkt
  /\ c.mode = "RX" => c.timer = 64 * RX_TIMEOUT_MS(Profile)

\* The chip is in order unless a transaction was lost, or it still has to be initialised: before
\* setup() has run, or after the MCU was reset, it is not on the air.
ChipInv ==
  ~cut => \/ ~OnAir /\ (~Alive \/ stage = "boot")
          \/ Settles(chip, radio_state, pairing_mode, Bonded)

\* A commit is behind: the remote is paired and idle, and nothing has stalled since the
\* timer was reset before it, at most ms ago.
Committed(ms) ==
  pairState = "IDLE" /\ binding = "paired" /\ dog.on /\ dog.stalls = 0 /\ dog.ms <= ms

\* What the timer may have counted when the loop is at stage s, besides one stall: the
\* longest that the handlers before it take since the timer was last reset.  A response
\* takes longer, but clears msgTxd, so that neither a retry nor a give-up is due; and a
\* commit, next to which no stall is survived, clears quiet, so that the radio watchdog is
\* not.
Budget(s) ==
  CASE s = "button" -> Kept(dog, 5)
    [] s = "radio"  -> Kept(dog, 105)
    [] s = "watch"  -> Kept(dog, 205) \/ (~msgTxd /\ Kept(dog, 805)) \/ (~quiet /\ Committed(1656))
    [] s = "ack"    -> Kept(dog, 265) \/ (~msgTxd /\ Kept(dog, 865)) \/ Committed(1656)
    [] s = "pair"   -> Kept(dog, 960) \/ Committed(1956)
    [] s = "rest"   -> dog.on
    [] OTHER        -> TRUE

\* The timer is within the bound of the stage, as long as it has not expired.
DogInv == Alive => Budget(stage)

\* The inductive invariant.
IInv ==
  /\ Hardware /\ Software
  /\ ChipInv /\ DogInv /\ OneStallIsSurvived /\ AlertMeansFlat

\* A handler has run from machine d to machine e.
Ran(name, p, from, d, e) ==
  /\ Machine(d) /\ d.chip = from /\ (d.cut <=> cut) /\ d.dog = dog /\ ~d.dog.expired
  /\ e = Execute(p, d)
  /\ chip' = e.chip /\ cut' = e.cut /\ dog' = e.dog /\ handler' = name
  /\ Flows(d, e) => Hardware' /\ e.cut \in BOOLEAN
  /\ stalls' = stalls => ~Hit(d, e)

\* A handler's step is an execution of its program.
LEMMA RunOnRuns ==
  ASSUME Hardware, NEW name, NEW p, NEW from, ChipOK(from), RunOn(name, p, from)
  PROVE  \E d, e : Ran(name, p, from, d, e)
<1>1. PICK at \in 0..(IF stalls < MaxStalls THEN Size(p) ELSE 0) :
         LET d == Execute(p, [chip |-> from, cut |-> cut, buf |-> {}, skip |-> FALSE,
                              n |-> 0, at |-> at, dog |-> dog])
         IN  /\ at > 0 => d.n >= at
             /\ chip' = d.chip /\ cut' = d.cut /\ dog' = d.dog
             /\ stalls' = IF at > 0 THEN stalls + 1 ELSE stalls
  BY DEF RunOn
<1> DEFINE d == [chip |-> from, cut |-> cut, buf |-> {}, skip |-> FALSE,
                 n |-> 0, at |-> at, dog |-> dog]
           e == Execute(p, d)
<1>2. at \in Nat
  OBVIOUS
<1>3. handler' = name /\ ~dog.expired
  BY DEF RunOn, Alive
<1>4. Machine(d) /\ d.n = 0 /\ d.at = at
  BY <1>2 DEF Machine, Hardware
<1>5. d.chip = from /\ (d.cut <=> cut) /\ d.dog = dog /\ ~d.dog.expired
  BY <1>3
<1> HIDE DEF d
<1>6. /\ chip' = e.chip /\ cut' = e.cut /\ dog' = e.dog
      /\ stalls' = IF at > 0 THEN stalls + 1 ELSE stalls
  BY <1>1 DEF d
<1>7. stalls \in Nat /\ MaxStalls \in Nat /\ stalls <= MaxStalls
  BY LoopAssumption DEF Hardware
<1>8. at > 0 => stalls < MaxStalls
  BY <1>2
<1> HIDE DEF e
<1>9. stalls' = stalls => ~Hit(d, e)
  BY <1>2, <1>4, <1>6, <1>7 DEF Hit
<1>10. ASSUME Flows(d, e)
       PROVE  Hardware' /\ e.cut \in BOOLEAN
  <2>1. ChipOK(e.chip) /\ e.cut \in BOOLEAN /\ e.dog \in Dogs
    BY <1>10 DEF Flows, Machine
  <2>2. e.dog.stalls <= stalls'
    <3>1. dog.stalls \in Nat /\ e.dog.stalls \in Nat /\ dog.stalls <= stalls
      BY <2>1 DEF Hardware, Dogs
    <3>2. e.dog.stalls <= dog.stalls + IF Hit(d, e) THEN 1 ELSE 0
      BY <1>5, <1>10 DEF Flows
    <3>3. QED
      BY <1>2, <1>4, <1>6, <1>7, <3>1, <3>2 DEF Hit
  <2>3. stalls' \in 0..MaxStalls
    BY <1>6, <1>7, <1>8
  <2>4. QED
    BY <1>6, <2>1, <2>2, <2>3 DEF Hardware
<1>11. Ran(name, p, from, d, e)
  BY <1>3, <1>4, <1>5, <1>6, <1>9, <1>10 DEF Ran, e
<1>12. QED
  BY <1>11

-----------------------------------------------------------------------------
(* What the steps start from, and what they leave to show.                 *)

\* The bounds on the timer fit its period.
LEMMA Bounds ==
  /\ BUSY_TIMEOUT_MS \in Nat /\ WDT_PERIOD_MS \in Nat
  /\ BUSY_TIMEOUT_MS + 960 <= WDT_PERIOD_MS /\ 2190 <= WDT_PERIOD_MS
  BY DriverAssumption, WatchdogAssumption

\* The bound of a stage covers those of the stages before it, which the pass may have
\* gone through without doing anything.
LEMMA BudgetReached ==
  ASSUME IInv, Alive, NEW s \in DOMAIN Place, Reached(s)
  PROVE  Budget(s)
<1>1. dog \in Dogs /\ Budget(stage)
  BY DEF IInv, DogInv, Hardware
<1>2. CASE stage = s
  BY <1>1, <1>2
<1>3. CASE stage # s
  <2>1. stage \in DOMAIN Place /\ Place[stage] < Place[s]
    BY <1>3 DEF Reached
  <2>2. /\ Kept(dog, 5) => Kept(dog, 105)
        /\ Kept(dog, 105) => Kept(dog, 205)
        /\ Kept(dog, 205) => Kept(dog, 265)
        /\ Kept(dog, 265) => Kept(dog, 960)
        /\ Kept(dog, 805) => Kept(dog, 865)
        /\ Kept(dog, 865) => Kept(dog, 960)
    BY <1>1, KeptMore
  <2>3. Committed(1656) => Committed(1956)
    BY <1>1 DEF Committed, Dogs
  <2>4. (\E b \in Nat : Kept(dog, b)) => dog.on
    BY DEF Kept
  <2>5. Kept(dog, 960) => dog.on
    BY DEF Kept
  <2>6. Committed(1956) => dog.on
    BY DEF Committed
  <2>7. DOMAIN Place = {"button", "radio", "watch", "ack", "pair", "rest"}
    BY DEF Place
  <2>8. Budget("button") => Budget("radio")
    BY <2>2 DEF Budget
  <2>9. Budget("radio") => Budget("watch")
    BY <2>2 DEF Budget
  <2>10. Budget("watch") => Budget("ack")
    BY <2>2 DEF Budget
  <2>11. Budget("ack") => Budget("pair")
    BY <2>2, <2>3 DEF Budget
  <2>12. Budget("pair") => Budget("rest")
    BY <2>5, <2>6 DEF Budget
  <2>13. QED
    BY <1>1, <2>1, <2>7, <2>8, <2>9, <2>10, <2>11, <2>12 DEF Place
<1>4. QED
  BY <1>2, <1>3

\* A stage of the loop is only reached from another.
LEMMA ReachedInLoop ==
  ASSUME NEW s \in DOMAIN Place, Reached(s)
  PROVE  stage \in DOMAIN Place /\ stage # "boot" /\ stage # "asleep"
  BY DEF Reached, Place

\* The chip of a remote in its loop has all it needs, unless a transaction was lost.
LEMMA InLoop ==
  ASSUME IInv, Alive, NEW s \in DOMAIN Place, Reached(s), ~cut
  PROVE  Settles(chip, radio_state, pairing_mode, Bonded)
  BY ReachedInLoop DEF IInv, ChipInv

\* The timer after a handler that kept it within b.
LEMMA KeptSurvives ==
  ASSUME Hardware', NEW b \in Nat, Kept(dog', b)
  PROVE  OneStallIsSurvived' /\ dog'.on
<1>1. dog'.stalls \in Nat
  BY DEF Hardware, Dogs
<1>2. dog'.on /\ (dog'.expired => dog'.stalls # 0 /\ dog'.stalls # 1)
  BY Zenon DEF Kept
<1>3. dog'.expired => dog'.stalls > 0 /\ ~(dog'.stalls = 1)
  BY <1>1, <1>2
<1>4. QED
  BY <1>2, <1>3, Zenon DEF OneStallIsSurvived

\* A handler that leaves the settings alone leaves the chip as the radio's state needs it.
LEMMA Carries ==
  ASSUME NEW c, NEW s, Same(c, s, Steady),
         NEW rs, NEW rs2, NEW pairs, NEW bonded, NEW bonded2,
         Settles(c, rs, pairs, bonded),
         bonded2 => bonded, c.mode = "TX" /\ rs \in TxStates => rs2 \in TxStates
  PROVE  Settles(s, rs2, pairs, bonded2)
<1>1. /\ Same(c, s, Untuned)
      /\ s.mode = c.mode /\ s.timer = c.timer /\ s.mod = c.mod /\ s.pkt = c.pkt
      /\ s.sync = c.sync /\ s.pwr = c.pwr /\ s.fifo = c.fifo
      /\ s.txModulation = c.txModulation /\ s.iqPolarity = c.iqPolarity
  BY DEF Same, Steady
<1>2. Initialised(s)
  BY <1>1, StillInitialised DEF Settles, Initialised
<1>3. QED
  BY <1>1, <1>2 DEF Settles, OnChan

\* The same of a chip in standby that is known to be initialised and on its channel.
LEMMA StandsBy ==
  ASSUME NEW c, Initialised(c), c.mode = "STDBY", NEW rs, NEW pairs \in BOOLEAN, NEW bonded,
         bonded => IF pairs THEN OnChan(c, PairMod, PairPkt(32), "PAIR", 14)
                   ELSE OnChan(c, OperMod(Profile), OperPkt, "OPER", 22)
  PROVE  Settles(c, rs, pairs, bonded)
  BY DEF Settles, OnChan, PairPkt

\* The chip is in standby, initialised and tuned to the operational channel, unless the MCU
\* was reset on the way.
InTune ==
  ~cut => /\ chip.mode = "STDBY"
          /\ \/ dog.expired
             \/ Initialised(chip) /\ OnChan(chip, OperMod(Profile), OperPkt, "OPER", 22)

\* What holds after a handler that tunes the remote to its operational channel.
LEMMA TunedIn ==
  ASSUME InTune', radio_state' = "IDLE", pairing_mode' = FALSE
  PROVE  ChipInv'
<1> SUFFICES ASSUME ~cut' PROVE (~OnAir /\ (~Alive \/ stage = "boot"))'
                              \/ Settles(chip', radio_state', pairing_mode', Bonded')
  BY DEF ChipInv
<1>1. /\ chip'.mode = "STDBY"
      /\ \/ dog'.expired
         \/ Initialised(chip') /\ OnChan(chip', OperMod(Profile), OperPkt, "OPER", 22)
  BY DEF InTune
<1>2. CASE dog'.expired
  BY <1>1, <1>2 DEF OnAir, Alive
<1>3. CASE ~dog'.expired
  BY <1>1, <1>3, StandsBy
<1>4. QED
  BY <1>2, <1>3

\* What the chip is like when it has raised its interrupt.
LEMMA RaisedChip ==
  ASSUME ChipOK(chip)
  PROVE  /\ ChipOK(Raised) /\ Raised.mode = "STDBY"
         /\ Same(chip, Raised, Steady \ {"mode", "timer", "fifo"})
<1>1. DOMAIN chip = DOMAIN ResetChip
  BY DEF ChipOK
<1>2. /\ DOMAIN Raised = DOMAIN ResetChip
      /\ \A r \in DOMAIN ResetChip \ {"mode", "irqs", "timer", "fifo"} : Raised[r] = chip[r]
  BY <1>1 DEF Raised
<1>3. Raised.mode = "STDBY"
  BY <1>1 DEF Raised, ResetChip
<1>4. Same(chip, Raised, (Steady \cup Registers \cup {"retained"}) \ {"mode", "timer", "fifo"})
  BY <1>2 DEF Same, Steady, Untuned, Registers, ResetChip
<1>5. ChipOK(Raised)
  BY <1>2, <1>3, <1>4 DEF ChipOK, Same, Modes, Steady, Untuned, Registers
<1>6. QED
  BY <1>3, <1>4, <1>5 DEF Same

\* It is still in order.
LEMMA RaisedSettles ==
  ASSUME ChipOK(chip), NEW rs, NEW rs2, NEW pairs, NEW bonded,
         Settles(chip, rs, pairs, bonded)
  PROVE  Settles(Raised, rs2, pairs, bonded)
<1>1. /\ Same(chip, Raised, Untuned) /\ Raised.mode = "STDBY"
      /\ Raised.mod = chip.mod /\ Raised.pkt = chip.pkt
      /\ Raised.sync = chip.sync /\ Raised.pwr = chip.pwr
      /\ Raised.txModulation = chip.txModulation /\ Raised.iqPolarity = chip.iqPolarity
  BY RaisedChip DEF Same, Steady, Untuned
<1>2. Initialised(Raised)
  BY <1>1, StillInitialised DEF Settles, Initialised
<1>3. QED
  BY <1>1, <1>2 DEF Settles, OnChan

-----------------------------------------------------------------------------
(* What the variables of the program hold.                                 *)

\* What the program remembers keeps its type in every step.
LEMMA SoftwareHolds ==
  ASSUME Software, [Next]_vars
  PROVE  Software'
<1> USE DEF Software
<1>1. {"boot", "asleep", "button", "radio", "watch", "ack", "pair", "rest"} \subseteq Stages
  BY DEF Stages, Place
<1>2. 0 \in 0..MAX_RETRY
  BY LoopAssumption
<1>3. ASSUME NEW combo \in BOOLEAN, Boot(combo)
      PROVE  Software'
  BY <1>1, <1>2, <1>3 DEF Goes, Boot, Tuned, RadioStates
<1>4. CASE Reset
  BY <1>1, <1>2, <1>4 DEF Reset, radio, command, pairing
<1>5. CASE Sleep
  BY <1>1, <1>2, <1>5 DEF Goes, Sleep, SleepDue, radio, command, pairing
<1>6. CASE Wake
  BY <1>1, <1>2, <1>6 DEF Goes, Wake, Tuned, pairing, RadioStates
<1>7. CASE WakeStatus
  BY <1>1, <1>2, <1>7 DEF Goes, WakeStatus, StartCommand, send_lora_data, pairing, RadioStates
<1>8. CASE Press \/ Preempt
  BY <1>1, <1>2, <1>8
  DEF Goes, Press, Preempt, PreemptDue, KeyCommand, StartCommand, send_lora_data, pairing,
      RadioStates
<1>9. CASE IdleEnds
  BY <1>1, <1>2, <1>9 DEF Goes, IdleEnds, command, pairing, RadioStates
<1>10. CASE TxSetup
  BY <1>1, <1>2, <1>10 DEF Goes, TxSetup, command, pairing, RadioStates
<1>11. CASE TxDone
  BY <1>1, <1>2, <1>11 DEF Goes, TxDone, command, pairing, RadioStates
<1>12. CASE TxTimedOut
  BY <1>1, <1>2, <1>12 DEF Goes, TxTimedOut, command, pairing, RadioStates
<1>13. CASE RxSetup
  BY <1>1, <1>2, <1>13 DEF Goes, RxSetup, command, pairing, RadioStates
<1>14. CASE RxTimedOut
  BY <1>1, <1>2, <1>14 DEF Goes, RxTimedOut, command, pairing, RadioStates
<1>15. CASE RxNothing("RX_WAIT") \/ RxNothing("rx_error")
  BY <1>1, <1>2, <1>15 DEF Goes, RxNothing, command, pairing, RadioStates
<1>16. CASE RxRsp
  <2>1. \E name, program : RxFrame(name, program)
    BY <1>16, Zenon DEF RxRsp
  <2>2. stage' = "watch" /\ radio_state' = "IDLE" /\ quiet' = FALSE
    BY <2>1, Zenon DEF RxFrame, Goes
  <2>3. msgTxd' = FALSE /\ tries' = 0 /\ UNCHANGED <<pairing_mode, tx_length, wkup, pairing>>
    BY <1>16, Zenon DEF RxRsp
  <2>4. QED
    BY <1>1, <1>2, <2>2, <2>3 DEF pairing, RadioStates
<1>17. CASE RxIgnored
  BY <1>1, <1>2, <1>17 DEF Goes, RxIgnored, RxFrame, command, pairing, RadioStates
<1>18. CASE RxAck
  BY <1>1, <1>2, <1>18 DEF Goes, RxAck, RxFrame, command, pairing, RadioStates
<1>19. CASE RxConfirm
  BY <1>1, <1>2, <1>19 DEF Goes, RxConfirm, RxFrame, command, RadioStates
<1>20. CASE RadioWatchdog
  BY <1>1, <1>2, <1>20 DEF Goes, RadioWatchdog, Tuned, RadioStates, command, pairing
<1>21. CASE Retry
  <2>1. tries' \in 0..MAX_RETRY
    BY <1>21, LoopAssumption DEF Retry, RetryDue
  <2>2. QED
    BY <1>1, <1>21, <2>1
    DEF Goes, Retry, RetryDue, AckIsDue, send_lora_data, RadioStates, pairing
<1>22. CASE GiveUp
  BY <1>1, <1>2, <1>22 DEF Goes, GiveUp, GiveUpDue, AckIsDue, Tuned, RadioStates, pairing
<1>23. CASE ConfirmStatus
  BY <1>1, <1>2, <1>23 DEF Goes, ConfirmStatus, StartCommand, send_lora_data, RadioStates
<1>24. CASE BootPrime
  BY <1>1, <1>2, <1>24 DEF Goes, BootPrime, send_lora_data, RadioStates, radio, command
<1>25. CASE EnterPair
  BY <1>1, <1>2, <1>25 DEF Goes, EnterPair, Tuned, RadioStates, command
<1>26. CASE NoPeerAlert
  BY <1>1, <1>2, <1>26 DEF Goes, NoPeerAlert, radio, command, pairing
<1>27. CASE PairSend
  BY <1>1, <1>2, <1>27 DEF Goes, PairSend, send_lora_data, RadioStates, command, pairing
<1>28. CASE Revert
  BY <1>1, <1>2, <1>28
  DEF Goes, Revert, RevertDue, pairRemNodeRevert, Tuned, RadioStates, command
<1>29. CASE NoCheck
  BY <1>1, <1>2, <1>29 DEF Goes, NoCheck, radio, command, pairing
<1>30. CASE BatteryCheck
  BY <1>1, <1>2, <1>30 DEF Goes, BatteryCheck, radio, command, pairing
<1>31. CASE UNCHANGED vars
  BY <1>31 DEF vars, radio, command, pairing
<1>32. QED
  BY <1>3, <1>4, <1>5, <1>6, <1>7, <1>8, <1>9, <1>10, <1>11, <1>12, <1>13, <1>14, <1>15,
     <1>16, <1>17, <1>18, <1>19, <1>20, <1>21, <1>22, <1>23, <1>24, <1>25, <1>26, <1>27,
     <1>28, <1>29, <1>30, <1>31
  DEF Next, Loop

-----------------------------------------------------------------------------
(* The chip and the timer: steps without an execution of their own.        *)

\* The part of the invariant that is about the chip and the timer.
MachineInv == Hardware /\ ChipInv /\ DogInv /\ OneStallIsSurvived /\ AlertMeansFlat

\* A handler that takes ms moves the timer's bound by as much.
LEMMA PauseStep ==
  ASSUME Hardware, NEW name, NEW p, NEW from, ChipOK(from), RunOn(name, p, from),
         NEW ms, Pauses(p, ms), NEW b \in Nat, Kept(dog, b),
         NEW c, c = b + ms, c + BUSY_TIMEOUT_MS <= WDT_PERIOD_MS
  PROVE  /\ Hardware' /\ handler' = name /\ Kept(dog', c)
         /\ ~cut' => ~cut /\ Same(from, chip', Steady)
<1>1. PICK d, e : Ran(name, p, from, d, e)
  BY RunOnRuns
<1>2. Machine(d) /\ d.chip = from /\ (d.cut <=> cut) /\ d.dog = dog /\ e = Execute(p, d)
  BY <1>1 DEF Ran
<1>3. Delays(d, e, ms) /\ Keeps(d, e) /\ ms \in Nat
  BY <1>2 DEF Pauses
<1>4. Flows(d, e)
  BY <1>3 DEF Delays
<1>5. Kept(e.dog, b + ms)
  BY <1>2, <1>3, Zenon DEF Delays
<1>6. chip' = e.chip /\ cut' = e.cut /\ dog' = e.dog /\ handler' = name /\ Hardware'
  BY <1>1, <1>4 DEF Ran
<1>7. ~cut' => ~cut /\ Same(from, chip', Steady)
  BY <1>2, <1>3, <1>6 DEF Keeps
<1>8. QED
  BY <1>5, <1>6, <1>7

\* One that resets the timer first.
LEMMA PetStep ==
  ASSUME Hardware, NEW name, NEW p, NEW from, ChipOK(from),
         RunOn(name, watchdogReset \o p, from),
         NEW ms, Pauses(p, ms), ms + BUSY_TIMEOUT_MS <= WDT_PERIOD_MS, dog.on
  PROVE  /\ Hardware' /\ handler' = name /\ Kept(dog', ms)
         /\ ~cut' => ~cut /\ Same(from, chip', Steady)
<1>1. PICK d, e : Ran(name, watchdogReset \o p, from, d, e)
  BY RunOnRuns
<1>2. /\ Machine(d) /\ d.chip = from /\ (d.cut <=> cut) /\ d.dog = dog /\ ~d.dog.expired
      /\ e = Execute(watchdogReset \o p, d)
  BY <1>1 DEF Ran
<1>3. Flows(d, e) /\ Keeps(d, e) /\ Kept(e.dog, ms)
  BY <1>2, PetThenPause
<1>4. chip' = e.chip /\ cut' = e.cut /\ dog' = e.dog /\ handler' = name /\ Hardware'
  BY <1>1, <1>3 DEF Ran
<1>5. ~cut' => ~cut /\ Same(from, chip', Steady)
  BY <1>2, <1>3, <1>4 DEF Keeps
<1>6. QED
  BY <1>3, <1>4, <1>5

\* A step that leaves the settings alone leaves the chip as the radio's state needs it.
LEMMA StaysSettled ==
  ASSUME IInv, Alive, NEW s \in DOMAIN Place, Reached(s),
         ~cut' => ~cut /\ Same(chip, chip', Steady),
         pairing_mode' = pairing_mode, Bonded' => Bonded,
         chip.mode = "TX" /\ radio_state \in TxStates => radio_state' \in TxStates
  PROVE  ChipInv'
<1> SUFFICES ASSUME ~cut' PROVE Settles(chip', radio_state', pairing_mode', Bonded')
  BY DEF ChipInv
<1>1. Settles(chip, radio_state, pairing_mode, Bonded)
  BY InLoop
<1>2. QED
  BY <1>1, Carries

\* A step in which the chip has raised its interrupt.
LEMMA RaisesSettled ==
  ASSUME IInv, Alive, NEW s \in DOMAIN Place, Reached(s),
         ~cut' => ~cut /\ Same(Raised, chip', Steady),
         pairing_mode' = pairing_mode, Bonded' => Bonded
  PROVE  ChipInv'
<1> SUFFICES ASSUME ~cut' PROVE Settles(chip', radio_state', pairing_mode', Bonded')
  BY DEF ChipInv
<1>1. Settles(chip, radio_state, pairing_mode, Bonded)
  BY InLoop
<1>2. ChipOK(chip)
  BY DEF IInv, Hardware
<1>3. Settles(Raised, radio_state', pairing_mode, Bonded) /\ Raised.mode = "STDBY"
  BY <1>1, <1>2, RaisedSettles, RaisedChip
<1>4. QED
  BY <1>3, Carries

\* Steps of the loop that do not touch the chip.
LEMMA ChipUntouched ==
  ASSUME IInv, Alive, NEW s \in DOMAIN Place, Reached(s), UNCHANGED hardware,
         handler' \in {handler, "pairRemNodeTick"},
         pairing_mode' = pairing_mode, Bonded' => Bonded,
         radio_state \in TxStates => radio_state' \in TxStates,
         Alive' => Budget(stage)'
  PROVE  MachineInv'
<1>1. chip' = chip /\ cut' = cut /\ dog' = dog /\ stalls' = stalls
  BY DEF hardware
<1>2. Hardware' /\ OneStallIsSurvived' /\ AlertMeansFlat'
  BY <1>1 DEF IInv, Hardware, Alive, OneStallIsSurvived, AlertMeansFlat
<1>3. Same(chip, chip', Steady)
  BY <1>1 DEF Same
<1>4. ChipInv'
  BY <1>1, <1>3, StaysSettled
<1>5. QED
  BY <1>2, <1>4 DEF MachineInv, DogInv

\* The idle period ends.
LEMMA IdleEndsStep ==
  ASSUME IInv, IdleEnds
  PROVE  MachineInv'
<1>1. Reached("radio") /\ "radio" \in DOMAIN Place /\ Alive /\ stage' = "watch"
  BY DEF IdleEnds, Goes, Place
<1>2. Kept(dog, 105)
  BY <1>1, BudgetReached DEF Budget
<1>3. Kept(dog', 205)
  <2>1. dog \in Dogs /\ dog' = dog
    BY DEF IInv, Hardware, IdleEnds, hardware
  <2>2. QED
    BY <1>2, <2>1, KeptMore
<1>4. Budget(stage)'
  BY <1>1, <1>3 DEF Budget
<1>5. radio_state \notin TxStates
  BY DEF IdleEnds, TxStates
<1>6. QED
  BY <1>1, <1>4, <1>5, ChipUntouched DEF IdleEnds, pairing, Bonded, HasPeer

\* The one-shots and the frames of the pairing only queue a frame.
LEMMA QueueStep ==
  ASSUME IInv, ConfirmStatus \/ BootPrime \/ PairSend
  PROVE  MachineInv'
<1>1. Reached("pair") /\ "pair" \in DOMAIN Place /\ Alive /\ stage' = "rest"
  BY DEF ConfirmStatus, BootPrime, PairSend, Goes, Place
<1>2. Budget("rest")
  <2>1. Budget("pair")
    BY <1>1, BudgetReached
  <2>2. QED
    BY <2>1 DEF Budget, Kept, Committed
<1>3. UNCHANGED hardware /\ handler' = "pairRemNodeTick" /\ pairing_mode' = pairing_mode
  BY DEF ConfirmStatus, BootPrime, PairSend, radio
<1>4. Budget(stage)'
  BY <1>1, <1>2, <1>3 DEF Budget, hardware
<1>5. radio_state' = "TX_SETUP" \/ radio_state' = radio_state
  BY DEF ConfirmStatus, BootPrime, PairSend, StartCommand, send_lora_data, radio
<1>6. Bonded' => Bonded
  BY <1>3 DEF ConfirmStatus, BootPrime, PairSend, pairing, Bonded, HasPeer
<1>7. QED
  BY <1>1, <1>3, <1>4, <1>5, <1>6, ChipUntouched DEF TxStates

\* A reset leaves the chip alone, which setup() will initialise.
LEMMA ExpiredStep ==
  ASSUME IInv, Reset
  PROVE  MachineInv'
<1>1. chip' = chip /\ cut' = cut /\ stalls' = stalls /\ handler' = handler /\ stage' = "boot"
  BY DEF Reset
<1>2. dog' = [on |-> FALSE, ms |-> 0, stalls |-> 0, expired |-> FALSE]
  BY DEF Reset
<1>3. Hardware' /\ OneStallIsSurvived' /\ AlertMeansFlat'
  <2>1. dog' \in Dogs /\ dog'.stalls = 0 /\ dog'.expired = FALSE
    <3>1. \A w : w = [on |-> FALSE, ms |-> 0, stalls |-> 0, expired |-> FALSE]
                 => w \in Dogs /\ w.stalls = 0 /\ w.expired = FALSE
      BY DEF Dogs
    <3>2. QED
      BY <1>2, <3>1
  <2>2. ChipOK(chip') /\ cut' \in BOOLEAN /\ stalls' \in 0..MaxStalls /\ 0 <= stalls'
    BY <1>1 DEF IInv, Hardware
  <2>3. AlertMeansFlat'
    BY <1>1 DEF IInv, AlertMeansFlat
  <2>4. QED
    BY <2>1, <2>2, <2>3 DEF Hardware, OneStallIsSurvived
<1>4. radio_state' = radio_state /\ pairing_mode' = pairing_mode /\ (Bonded' <=> Bonded)
  BY DEF Reset, radio, pairing, Bonded, HasPeer
<1>5. ChipInv'
  BY <1>1, <1>4 DEF IInv, ChipInv, OnAir, Bonded, HasPeer
<1>6. DogInv'
  BY <1>1, Zenon DEF DogInv, Budget
<1>7. QED
  BY <1>3, <1>5, <1>6 DEF MachineInv

\* Nothing happens.
LEMMA StutterStep ==
  ASSUME IInv, UNCHANGED vars
  PROVE  MachineInv'
<1>1. /\ chip' = chip /\ cut' = cut /\ dog' = dog /\ stalls' = stalls
      /\ handler' = handler /\ stage' = stage /\ radio_state' = radio_state
      /\ pairing_mode' = pairing_mode /\ quiet' = quiet /\ msgTxd' = msgTxd
      /\ pairState' = pairState /\ binding' = binding
  BY DEF vars, hardware, radio, command, pairing
<1>2. Hardware' /\ OneStallIsSurvived' /\ AlertMeansFlat'
  BY <1>1 DEF IInv, Hardware, OneStallIsSurvived, AlertMeansFlat
<1>3. ChipInv'
  BY <1>1 DEF IInv, ChipInv, OnAir, Alive, Bonded, HasPeer
<1>4. DogInv'
  BY <1>1 DEF IInv, DogInv, Budget, Alive, Committed
<1>5. QED
  BY <1>2, <1>3, <1>4 DEF MachineInv

-----------------------------------------------------------------------------
(* Keys and the radio.                                                     *)

\* What is left to show when a handler has kept the timer within a bound.
LEMMA KeptStep ==
  ASSUME Hardware', ChipInv', NEW b \in Nat, Kept(dog', b), handler' # "false_alert",
         Budget(stage)'
  PROVE  MachineInv'
  BY KeptSurvives DEF MachineInv, DogInv, AlertMeansFlat

\* The pauses and calls of the handlers that leave the settings alone.
LEMMA HandlerPauses ==
  /\ Pauses(Wait(50) \o Wait(50), 100) /\ Pauses(Wait(50), 50) /\ Pauses(Wait(5), 5)
  /\ Pauses(Wait(300), 300)
  /\ Pauses(clear_irq_status, 0) /\ Pauses(get_irq_status \o clear_irq_status, 0)
<1>1. Pauses(Wait(50), 50) /\ Pauses(Wait(5), 5) /\ Pauses(Wait(300), 300)
  BY WaitPauses
<1>2. 100 = 50 + 50 /\ 0 = 0 + 0
  OBVIOUS
<1>3. Pauses(Wait(50) \o Wait(50), 100)
  BY <1>1, <1>2, PausesConcat
<1>4. Pauses(get_irq_status \o clear_irq_status, 0)
  BY <1>2, QuietCalls, PausesConcat
<1>5. QED
  BY <1>1, <1>3, <1>4, QuietCalls

\* The STATUS that a wake-up owes.
LEMMA WakeStatusStep ==
  ASSUME IInv, WakeStatus
  PROVE  MachineInv'
<1>1. /\ Reached("button") /\ "button" \in DOMAIN Place /\ stage' = "radio" /\ Alive
      /\ RunOn("wake_STATUS", Wait(50) \o Wait(50), chip)
  BY DEF WakeStatus, Goes, Place, Run, RunOn
<1>2. Kept(dog, 5)
  BY <1>1, BudgetReached DEF Budget
<1>3. Hardware /\ ChipOK(chip)
  BY DEF IInv, Hardware
<1>4. /\ Hardware' /\ handler' = "wake_STATUS" /\ Kept(dog', 105)
      /\ ~cut' => ~cut /\ Same(chip, chip', Steady)
  <2> DEFINE c == 105
             b == 5
  <2>1. c = b + 100 /\ c + BUSY_TIMEOUT_MS <= WDT_PERIOD_MS /\ b \in Nat
    BY Bounds
  <2>2. Kept(dog, b)
    BY <1>2
  <2> HIDE DEF b, c
  <2>3. /\ Hardware' /\ handler' = "wake_STATUS" /\ Kept(dog', c)
        /\ ~cut' => ~cut /\ Same(chip, chip', Steady)
    <3>1. Pauses(Wait(50) \o Wait(50), 100)
      BY HandlerPauses
    <3>2. RunOn("wake_STATUS", Wait(50) \o Wait(50), chip)
      BY <1>1
    <3>3. QED
      BY <1>3, <2>1, <2>2, <3>1, <3>2, PauseStep, ZenonT(60)
  <2>4. QED
    BY <2>3 DEF c
<1>5. radio_state' = "TX_SETUP" /\ pairing_mode' = pairing_mode /\ (Bonded' <=> Bonded)
  BY DEF WakeStatus, StartCommand, send_lora_data, pairing, Bonded, HasPeer
<1>6. ChipInv'
  BY <1>1, <1>4, <1>5, StaysSettled DEF TxStates
<1>7. Budget(stage)'
  BY <1>1, <1>4 DEF Budget
<1>8. QED
  BY <1>4, <1>6, <1>7, KeptStep

\* A key, with or without a pending command.
LEMMA PressStep ==
  ASSUME IInv, Press \/ Preempt
  PROVE  MachineInv'
<1>1. /\ Reached("button") /\ "button" \in DOMAIN Place /\ stage' = "radio" /\ Alive
      /\ RunOn("key", watchdogReset \o Wait(50), chip)
  BY DEF Press, Preempt, PreemptDue, KeyCommand, Goes, Place, Run, RunOn
<1>2. dog.on
  BY <1>1, BudgetReached DEF Budget, Kept
<1>3. Hardware /\ ChipOK(chip)
  BY DEF IInv, Hardware
<1>4. /\ Hardware' /\ handler' = "key" /\ Kept(dog', 50)
      /\ ~cut' => ~cut /\ Same(chip, chip', Steady)
  <2>1. 50 + BUSY_TIMEOUT_MS <= WDT_PERIOD_MS
    BY Bounds
  <2>2. QED
    BY <1>1, <1>2, <1>3, <2>1, HandlerPauses, PetStep
<1>5. radio_state' = "TX_SETUP" /\ pairing_mode' = pairing_mode /\ (Bonded' <=> Bonded)
  <2>1. UNCHANGED <<pairing_mode, wkup, pairing>> /\ StartCommand
    BY Zenon DEF Press, Preempt, KeyCommand
  <2>2. pairing_mode' = pairing_mode /\ binding' = binding
    BY <2>1 DEF pairing
  <2>3. QED
    BY <2>1, <2>2 DEF StartCommand, send_lora_data, Bonded, HasPeer
<1>6. ChipInv'
  BY <1>1, <1>4, <1>5, StaysSettled DEF TxStates
<1>7. Kept(dog', 105)
  <2>1. dog' \in Dogs
    BY <1>4 DEF Hardware
  <2>2. QED
    BY <1>4, <2>1, KeptMore
<1>8. Budget(stage)'
  BY <1>1, <1>7 DEF Budget
<1>9. QED
  BY <1>4, <1>6, <1>7, <1>8, KeptStep

\* A handler of the radio that takes up to 100 ms fits next to a stall.
LEMMA Room ==
  ASSUME NEW ms \in Nat, ms <= 100
  PROVE  \E c \in Nat : c = 105 + ms /\ c <= 205 /\ c + BUSY_TIMEOUT_MS <= WDT_PERIOD_MS
  BY Bounds

\* What a step from the radio's stage starts from.
LEMMA AtRadio ==
  ASSUME IInv, Alive, Goes("radio", "watch")
  PROVE  /\ Reached("radio") /\ "radio" \in DOMAIN Place /\ stage' = "watch"
         /\ Kept(dog, 105) /\ Hardware /\ ChipOK(chip)
<1>1. Reached("radio") /\ "radio" \in DOMAIN Place /\ stage' = "watch"
  BY DEF Goes, Place
<1>2. Kept(dog, 105)
  BY <1>1, BudgetReached DEF Budget
<1>3. QED
  BY <1>1, <1>2 DEF IInv, Hardware

\* A handler of the radio that takes at most 100 ms.
LEMMA RadioPause ==
  ASSUME IInv, Goes("radio", "watch"), NEW name, name # "false_alert", NEW p, NEW from,
         ChipOK(from), RunOn(name, p, from), NEW ms \in Nat, ms <= 100, Pauses(p, ms),
         (~cut' => ~cut /\ Same(from, chip', Steady)) => ChipInv'
  PROVE  MachineInv'
<1>1. Alive
  BY DEF RunOn
<1>2. stage' = "watch" /\ Kept(dog, 105) /\ Hardware
  BY <1>1, AtRadio
<1>3. PICK c \in Nat : c = 105 + ms /\ c <= 205 /\ c + BUSY_TIMEOUT_MS <= WDT_PERIOD_MS
  BY Room
<1>4. /\ Hardware' /\ handler' = name /\ Kept(dog', c)
      /\ ~cut' => ~cut /\ Same(from, chip', Steady)
  BY <1>2, <1>3, 105 \in Nat, PauseStep, ZenonT(60)
<1>5. Kept(dog', 205)
  <2>1. dog' \in Dogs
    BY <1>4 DEF Hardware
  <2>2. QED
    BY <1>3, <1>4, <2>1, KeptMore
<1>6. Budget(stage)'
  BY <1>2, <1>5 DEF Budget
<1>7. QED
  BY <1>4, <1>5, <1>6, KeptStep

\* Facts about the handlers that take no time.
LEMMA Zero ==
  /\ 0 \in Nat /\ 0 <= 100 /\ "TX_WAIT" # "false_alert"
  /\ "RX_WAIT" # "false_alert" /\ "rx_error" # "false_alert"
  OBVIOUS

\* A frame has been sent.
LEMMA TxDoneStep ==
  ASSUME IInv, TxDone
  PROVE  MachineInv'
<1>1. Goes("radio", "watch") /\ RunOn("TX_WAIT", clear_irq_status, Raised) /\ Alive
  BY DEF TxDone, RunOn
<1>2. pairing_mode' = pairing_mode /\ (Bonded' <=> Bonded)
  BY DEF TxDone, pairing, Bonded, HasPeer
<1>3. (~cut' => ~cut /\ Same(Raised, chip', Steady)) => ChipInv'
  BY <1>1, <1>2, AtRadio, RaisesSettled
<1>4. ChipOK(Raised)
  BY <1>1, AtRadio, RaisedChip
<1>5. QED
  BY <1>1, <1>3, <1>4, HandlerPauses, Zero, RadioPause, Zenon

\* An interrupt without a frame.
LEMMA RxNothingStep ==
  ASSUME IInv, NEW name, name # "false_alert", RxNothing(name)
  PROVE  MachineInv'
<1>1. /\ Goes("radio", "watch") /\ RunOn(name, get_irq_status \o clear_irq_status, Raised)
      /\ Alive
  BY DEF RxNothing, RunOn
<1>2. pairing_mode' = pairing_mode /\ (Bonded' <=> Bonded)
  BY DEF RxNothing, pairing, Bonded, HasPeer
<1>3. (~cut' => ~cut /\ Same(Raised, chip', Steady)) => ChipInv'
  BY <1>1, <1>2, AtRadio, RaisesSettled
<1>4. ChipOK(Raised)
  BY <1>1, AtRadio, RaisedChip
<1>5. QED
  BY <1>1, <1>3, <1>4, HandlerPauses, Zero, RadioPause, Zenon

\* No interrupt in time.
LEMMA RxTimedOutStep ==
  ASSUME IInv, RxTimedOut
  PROVE  MachineInv'
<1>1. /\ Goes("radio", "watch") /\ Alive
      /\ RunOn("RX_WAIT", clear_irq_status, IF Interrupts THEN Raised ELSE chip)
  BY DEF RxTimedOut, RunOn
<1>2. pairing_mode' = pairing_mode /\ (Bonded' <=> Bonded) /\ radio_state \notin TxStates
  BY DEF RxTimedOut, pairing, Bonded, HasPeer, TxStates
<1>3. CASE Interrupts
  <2>1. RunOn("RX_WAIT", clear_irq_status, Raised)
    BY <1>1, <1>3
  <2>2. (~cut' => ~cut /\ Same(Raised, chip', Steady)) => ChipInv'
    BY <1>1, <1>2, AtRadio, RaisesSettled
  <2>3. ChipOK(Raised)
    BY <1>1, AtRadio, RaisedChip
  <2>4. QED
    BY <1>1, <2>1, <2>2, <2>3, HandlerPauses, Zero, RadioPause, Zenon
<1>4. CASE ~Interrupts
  <2>1. RunOn("RX_WAIT", clear_irq_status, chip)
    BY <1>1, <1>4
  <2>2. (~cut' => ~cut /\ Same(chip, chip', Steady)) => ChipInv'
    BY <1>1, <1>2, AtRadio, StaysSettled
  <2>3. ChipOK(chip)
    BY <1>1, AtRadio
  <2>4. QED
    BY <1>1, <2>1, <2>2, <2>3, HandlerPauses, Zero, RadioPause, Zenon
<1>5. QED
  BY <1>3, <1>4

\* The window of a transmission has passed, and so has the transmission.
LEMMA TxTimedOutStep ==
  ASSUME IInv, TxTimedOut
  PROVE  MachineInv'
<1> DEFINE from == IF chip.mode = "TX" THEN [chip EXCEPT !.mode = "STDBY"] ELSE chip
<1>1. Goes("radio", "watch") /\ RunOn("TX_WAIT", clear_irq_status, from) /\ Alive
  BY DEF TxTimedOut, RunOn
<1>2. pairing_mode' = pairing_mode /\ (Bonded' <=> Bonded)
  BY DEF TxTimedOut, pairing, Bonded, HasPeer
<1>3. ChipOK(chip) /\ Reached("radio") /\ "radio" \in DOMAIN Place
  BY <1>1, AtRadio
<1>4. /\ ChipOK(from) /\ from.mode # "TX" /\ Same(chip, from, Steady \ {"mode"})
      /\ from.mode = "RX" => chip.mode = "RX"
  BY <1>3 DEF ChipOK, ResetChip, Modes, Registers, Same, Steady, Untuned
<1> HIDE DEF from
<1>5. ASSUME ~cut' => ~cut /\ Same(from, chip', Steady)
      PROVE  ChipInv'
  <2> SUFFICES ASSUME ~cut' PROVE Settles(chip', radio_state', pairing_mode', Bonded')
    BY DEF ChipInv
  <2>1. Settles(chip, radio_state, pairing_mode, Bonded)
    BY <1>1, <1>3, <1>5, InLoop
  <2>2. /\ Same(chip, from, Untuned) /\ from.timer = chip.timer
        /\ from.mod = chip.mod /\ from.pkt = chip.pkt
        /\ from.sync = chip.sync /\ from.pwr = chip.pwr
        /\ from.txModulation = chip.txModulation /\ from.iqPolarity = chip.iqPolarity
    BY <1>4 DEF Same, Steady, Untuned
  <2>3. Initialised(from)
    BY <2>1, <2>2, StillInitialised DEF Settles, Initialised
  <2>4. Settles(from, radio_state', pairing_mode, Bonded)
    BY <1>4, <2>1, <2>2, <2>3 DEF Settles, OnChan
  <2>5. QED
    BY <1>2, <1>4, <1>5, <2>4, Carries
<1>6. QED
  BY <1>1, <1>4, <1>5, HandlerPauses, Zero, RadioPause, Zenon

-----------------------------------------------------------------------------
(* Frames.                                                                 *)

\* What the handlers of a frame start from, after the chip has raised its interrupt.
LEMMA AtFrame ==
  ASSUME IInv, NEW name, NEW program, RxFrame(name, program)
  PROVE  /\ Goes("radio", "watch") /\ Alive
         /\ RunOn(name, Received(program), Raised)
         /\ ChipOK(Raised) /\ radio_state' = "IDLE" /\ quiet' = FALSE
         /\ Reached("radio") /\ "radio" \in DOMAIN Place /\ stage' = "watch"
         /\ Kept(dog, 105) /\ Hardware
<1>1. Goes("radio", "watch") /\ radio_state' = "IDLE" /\ quiet' = FALSE
  BY DEF RxFrame
<1>2. RunOn(name, Received(program), Raised)
  BY Zenon DEF RxFrame, Reception, Received
<1>3. Alive
  BY <1>2 DEF RunOn
<1>4. QED
  BY <1>1, <1>2, <1>3, AtRadio, RaisedChip

\* A frame that is not for this remote.
LEMMA RxIgnoredStep ==
  ASSUME IInv, RxIgnored
  PROVE  MachineInv'
<1>1. RxFrame("RX_WAIT", <<>>)
  BY DEF RxIgnored
<1>2. /\ Goes("radio", "watch") /\ Alive /\ ChipOK(Raised)
      /\ RunOn("RX_WAIT", Received(<<>>), Raised)
      /\ Reached("radio") /\ "radio" \in DOMAIN Place
  BY <1>1, AtFrame, Zenon
<1>3. pairing_mode' = pairing_mode /\ (Bonded' <=> Bonded)
  BY DEF RxIgnored, pairing, Bonded, HasPeer
<1>4. (~cut' => ~cut /\ Same(Raised, chip', Steady)) => ChipInv'
  BY <1>2, <1>3, RaisesSettled
<1>5. Pauses(Received(<<>>), 0)
  BY EmptyProgram, FramePauses
<1>6. QED
  BY <1>2, <1>4, <1>5, Zero, RadioPause, Zenon

\* The starter's acknowledgement.
LEMMA RxAckStep ==
  ASSUME IInv, RxAck
  PROVE  MachineInv'
<1>1. RxFrame("pairRemNodeHandleAck", Wait(100))
  BY DEF RxAck
<1>2. /\ Goes("radio", "watch") /\ Alive /\ ChipOK(Raised)
      /\ RunOn("pairRemNodeHandleAck", Received(Wait(100)), Raised)
      /\ Reached("radio") /\ "radio" \in DOMAIN Place
  BY <1>1, AtFrame, Zenon
<1>3. pairing_mode' = pairing_mode /\ (Bonded' <=> Bonded)
  BY DEF RxAck, Bonded, HasPeer
<1>4. (~cut' => ~cut /\ Same(Raised, chip', Steady)) => ChipInv'
  BY <1>2, <1>3, RaisesSettled
<1>5. 100 \in Nat /\ 100 <= 100 /\ "pairRemNodeHandleAck" # "false_alert"
  OBVIOUS
<1>6. Pauses(Received(Wait(100)), 100)
  BY <1>5, WaitPauses, FramePauses
<1>7. QED
  BY <1>2, <1>4, <1>5, <1>6, RadioPause, Zenon

\* An answer: the chime resets the timer first, the blinks of a fault do not.
LEMMA RxRspStep ==
  ASSUME IInv, RxRsp
  PROVE  MachineInv'
<1>1. pairing_mode' = pairing_mode /\ (Bonded' <=> Bonded) /\ ~msgTxd'
  BY DEF RxRsp, pairing, Bonded, HasPeer
<1>2. ASSUME NEW p, RxFrame("remHandleRsp", p),
             Hardware', Kept(dog', 805), handler' = "remHandleRsp",
             ~cut' => ~cut /\ Same(Raised, chip', Steady)
      PROVE  MachineInv'
  <2>1. Alive /\ Reached("radio") /\ "radio" \in DOMAIN Place /\ stage' = "watch"
    BY <1>2, AtFrame, Zenon
  <2>2. ChipInv'
    BY <1>1, <1>2, <2>1, RaisesSettled
  <2>3. Budget(stage)'
    BY <1>1, <1>2, <2>1 DEF Budget
  <2>4. QED
    BY <1>2, <2>2, <2>3, KeptStep
<1>3. CASE RxFrame("remHandleRsp", watchdogReset \o motorOnTone)
  <2>1. /\ Alive /\ ChipOK(Raised)
        /\ RunOn("remHandleRsp", Received(watchdogReset \o motorOnTone), Raised)
        /\ Kept(dog, 105) /\ Hardware
    BY <1>3, AtFrame, Zenon
  <2>2. PICK d, e : Ran("remHandleRsp", Received(watchdogReset \o motorOnTone), Raised, d, e)
    BY <2>1, RunOnRuns, Zenon
  <2>3. /\ Machine(d) /\ d.chip = Raised /\ (d.cut <=> cut) /\ d.dog = dog
        /\ e = Execute(Received(watchdogReset \o motorOnTone), d)
    BY <2>2 DEF Ran
  <2>4. Pauses(motorOnTone, 542) /\ 542 + BUSY_TIMEOUT_MS <= WDT_PERIOD_MS
        /\ 105 + BUSY_TIMEOUT_MS <= WDT_PERIOD_MS /\ 105 \in Nat /\ 105 <= 542
        /\ 542 \in Nat /\ 805 \in Nat /\ 542 <= 805
    BY Tones, Bounds
  <2>5. Flows(d, e) /\ Keeps(d, e) /\ Kept(e.dog, 542)
    <3>1. Kept(d.dog, 105)
      BY <2>1, <2>3
    <3>2. /\ Machine(d)
          /\ e = Execute(Received(watchdogReset \o motorOnTone), d)
      BY <2>3
    <3>3. QED
      BY <2>4, <3>1, <3>2, FramePets
  <2>6. /\ chip' = e.chip /\ cut' = e.cut /\ dog' = e.dog /\ handler' = "remHandleRsp"
        /\ Hardware'
    BY <2>2, <2>5 DEF Ran
  <2>7. ~cut' => ~cut /\ Same(Raised, chip', Steady)
    BY <2>3, <2>5, <2>6 DEF Keeps
  <2>8. Kept(dog', 805)
    <3>1. dog' \in Dogs
      BY <2>6 DEF Hardware
    <3>2. QED
      BY <2>4, <2>5, <2>6, <3>1, KeptMore
  <2>9. QED
    BY <1>2, <1>3, <2>6, <2>7, <2>8
<1>4. CASE RxFrame("remHandleRsp", Wait(300 + 100 + 300))
  <2> DEFINE p == Wait(300 + 100 + 300)
  <2>1. Pauses(Received(p), 700)
    <3>1. Pauses(p, 700)
      BY WaitPauses
    <3>2. QED
      BY <3>1, FramePauses
  <2>2. RxFrame("remHandleRsp", p)
    BY <1>4
  <2> HIDE DEF p
  <2>3. /\ ChipOK(Raised) /\ Kept(dog, 105) /\ Hardware
        /\ RunOn("remHandleRsp", Received(p), Raised)
    BY <2>2, AtFrame
  <2>4. 105 \in Nat /\ 805 = 105 + 700 /\ 805 + BUSY_TIMEOUT_MS <= WDT_PERIOD_MS
    BY Bounds
  <2>5. /\ Hardware' /\ handler' = "remHandleRsp" /\ Kept(dog', 805)
        /\ ~cut' => ~cut /\ Same(Raised, chip', Steady)
    BY <2>1, <2>3, <2>4, PauseStep
  <2>6. QED
    BY <1>2, <2>2, <2>5
<1>5. QED
  BY <1>3, <1>4 DEF RxRsp

\* A confirmation: the commit blocks for more than a stalled transaction leaves room for,
\* so that the only timer that survives it is one without a stall.
LEMMA RxConfirmStep ==
  ASSUME IInv, RxConfirm
  PROVE  MachineInv'
<1>1. RxFrame("pairRemNodeCommit", CommitProgram)
  BY DEF RxConfirm
<1>2. /\ Alive /\ ChipOK(Raised) /\ RunOn("pairRemNodeCommit", Received(CommitProgram), Raised)
      /\ Kept(dog, 105) /\ Hardware /\ stage' = "watch"
      /\ radio_state' = "IDLE" /\ quiet' = FALSE
  BY <1>1, AtFrame, Zenon
<1>3. PICK d, e : Ran("pairRemNodeCommit", Received(CommitProgram), Raised, d, e)
  BY <1>2, RunOnRuns, Zenon
<1>4. /\ Machine(d) /\ d.chip = Raised /\ (d.cut <=> cut) /\ d.dog = dog
      /\ e = Execute(Received(CommitProgram), d)
  BY <1>3 DEF Ran
<1>5. Raised.mode = "STDBY"
  BY <1>2, RaisedChip DEF Hardware
<1>6. /\ Flows(d, e) /\ OperRenewed(e)
      /\ e.dog.expired => e.dog.stalls # 0
      /\ ~e.dog.expired => Strict(e.dog, 1656)
  <2>1. 105 \in Nat /\ 105 + BUSY_TIMEOUT_MS <= WDT_PERIOD_MS
    BY Bounds
  <2>2. d.chip.mode = "STDBY" /\ Kept(d.dog, 105)
    BY <1>2, <1>4, <1>5
  <2>3. QED
    <3>1. Machine(d) /\ e = Execute(Received(CommitProgram), d)
      BY <1>4
    <3>2. QED
      BY <2>1, <2>2, <3>1, CommitFrame
<1>7. /\ chip' = e.chip /\ cut' = e.cut /\ dog' = e.dog /\ handler' = "pairRemNodeCommit"
      /\ Hardware' /\ e.cut \in BOOLEAN
  BY <1>3, <1>6 DEF Ran
<1>8. pairing_mode' = FALSE /\ pairState' = "IDLE" /\ binding' = "paired"
  BY DEF RxConfirm
<1>9. ChipInv'
  <2>1. InTune'
    BY <1>6, <1>7 DEF InTune, OperRenewed, Renewed
  <2>2. QED
    BY <1>2, <1>8, <2>1, TunedIn
<1>10. dog'.stalls \in Nat
  BY <1>7 DEF Hardware, Dogs
<1>11. OneStallIsSurvived'
  <2>1. dog'.expired => dog'.stalls > 0
    BY <1>6, <1>7, <1>10
  <2>2. QED
    BY <1>7, <2>1 DEF OneStallIsSurvived
<1>12. ASSUME ~dog'.expired
       PROVE  Committed(1656)'
  <2>1. Strict(dog', 1656)
    BY <1>6, <1>7, <1>12
  <2>2. dog'.on /\ dog'.stalls = 0 /\ dog'.ms = 1656
    BY <1>12, <2>1 DEF Strict
  <2>3. QED
    BY <1>8, <2>2 DEF Committed
<1>13. DogInv'
  BY <1>2, <1>12 DEF DogInv, Budget, Alive
<1>14. AlertMeansFlat'
  BY <1>7 DEF AlertMeansFlat
<1>15. QED
  BY <1>7, <1>9, <1>11, <1>13, <1>14 DEF MachineInv

-----------------------------------------------------------------------------
(* The radio watchdog and the command.                                     *)

\* 60 s of silence: the chip is initialised again, which the rest of a pass leaves time for
\* (a commit is one of the interrupts, so that none has come before).
LEMMA RadioWatchdogStep ==
  ASSUME IInv, RadioWatchdog
  PROVE  MachineInv'
<1>1. /\ Reached("watch") /\ "watch" \in DOMAIN Place /\ stage' = "ack" /\ Alive /\ quiet
      /\ RunOn("radio_watchdog", sx1268Init \o switchToOperationalChannel, chip)
      /\ radio_state' = "IDLE" /\ pairing_mode' = FALSE /\ (msgTxd' <=> msgTxd)
  BY DEF RadioWatchdog, Goes, Place, Run, RunOn, Tuned, command
<1>2. Hardware /\ ChipOK(chip)
  BY DEF IInv, Hardware
<1>3. Kept(dog, 205) \/ (~msgTxd /\ Kept(dog, 805))
  <2>1. Budget("watch")
    BY <1>1, BudgetReached
  <2>2. Kept(dog, 205) \/ (~msgTxd /\ Kept(dog, 805)) \/ (~quiet /\ Committed(1656))
    BY <2>1 DEF Budget
  <2>3. quiet
    BY <1>1
  <2>4. QED
    BY <2>2, <2>3
<1>4. PICK d, e : Ran("radio_watchdog", sx1268Init \o switchToOperationalChannel, chip, d, e)
  BY <1>1, <1>2, RunOnRuns
<1>5. /\ Machine(d) /\ d.dog = dog /\ ~d.dog.expired
      /\ e = Execute(sx1268Init \o switchToOperationalChannel, d)
  BY <1>4 DEF Ran
<1>6. Delays(d, e, 60) /\ OperRenewed(e)
  BY <1>5, RadioWatchdogRuns
<1>7. /\ chip' = e.chip /\ cut' = e.cut /\ dog' = e.dog /\ handler' = "radio_watchdog"
      /\ Hardware'
  BY <1>4, <1>6 DEF Ran, Delays
<1>8. ChipInv'
  <2>1. InTune'
    BY <1>6, <1>7 DEF InTune, OperRenewed, Renewed
  <2>2. QED
    BY <1>1, <2>1, TunedIn, ZenonT(60)
<1>9. ASSUME NEW b \in Nat, b <= 805, Kept(dog, b)
      PROVE  Kept(dog', b + 60)
  <2>1. b + 60 + BUSY_TIMEOUT_MS <= WDT_PERIOD_MS
    BY <1>9, Bounds
  <2>2. QED
    BY <1>5, <1>6, <1>7, <1>9, <2>1, Zenon DEF Delays
<1>10. Kept(dog', 265) \/ (~msgTxd' /\ Kept(dog', 865))
  <2>1. 205 + 60 = 265 /\ 805 + 60 = 865 /\ 205 <= 805 /\ 805 <= 805 /\ 205 \in Nat /\ 805 \in Nat
    OBVIOUS
  <2>2. Kept(dog, 205) => Kept(dog', 265)
    <3>1. Kept(dog, 205) => Kept(dog', 205 + 60)
      BY <1>9, <2>1
    <3>2. QED
      BY <2>1, <3>1
  <2>3. Kept(dog, 805) => Kept(dog', 865)
    <3>1. Kept(dog, 805) => Kept(dog', 805 + 60)
      BY <1>9, <2>1
    <3>2. QED
      BY <2>1, <3>1
  <2>4. QED
    BY <1>1, <1>3, <2>2, <2>3
<1>11. Budget(stage)'
  <2>1. stage' = "ack"
    BY <1>1
  <2>2. QED
    BY <1>10, <2>1 DEF Budget
<1>12. \E b \in Nat : Kept(dog', b)
  <2>1. Kept(dog', 265) => \E b \in Nat : Kept(dog', b)
    OBVIOUS
  <2>2. Kept(dog', 865) => \E b \in Nat : Kept(dog', b)
    OBVIOUS
  <2>3. QED
    BY <1>10, <2>1, <2>2, Zenon
<1>13. QED
  BY <1>7, <1>8, <1>11, <1>12, KeptStep

\* What ackReception() starts from.
LEMMA AtAck ==
  ASSUME IInv, Alive, AckIsDue
  PROVE  /\ Reached("ack") /\ "ack" \in DOMAIN Place /\ stage' = "pair"
         /\ Kept(dog, 265) \/ Committed(1656)
         /\ dog.on /\ Hardware /\ ChipOK(chip)
<1>1. Reached("ack") /\ "ack" \in DOMAIN Place /\ stage' = "pair" /\ msgTxd
  BY DEF AckIsDue, Goes, Place
<1>2. Kept(dog, 265) \/ Committed(1656)
  <2>1. Budget("ack")
    BY <1>1, BudgetReached
  <2>2. QED
    BY <1>1, <2>1 DEF Budget
<1>3. dog.on
  BY <1>2 DEF Kept, Committed
<1>4. QED
  BY <1>1, <1>2, <1>3 DEF IInv, Hardware

\* A retry blinks for 300 ms, which a commit in the same pass still leaves room for.
LEMMA RetryStep ==
  ASSUME IInv, Retry
  PROVE  MachineInv'
<1>1. AckIsDue /\ Alive /\ RunOn("retry", Wait(300), chip)
  BY DEF Retry, RetryDue, Run, RunOn
<1>2. /\ Reached("ack") /\ "ack" \in DOMAIN Place /\ stage' = "pair"
      /\ Kept(dog, 265) \/ Committed(1656)
      /\ Hardware /\ ChipOK(chip)
  BY <1>1, AtAck
<1>3. /\ radio_state' = "TX_SETUP" /\ pairing_mode' = pairing_mode
      /\ pairState' = pairState /\ binding' = binding /\ (Bonded' <=> Bonded)
  BY DEF Retry, send_lora_data, pairing, Bonded, HasPeer
<1>4. PICK d, e : Ran("retry", Wait(300), chip, d, e)
  BY <1>1, <1>2, RunOnRuns
<1>5. /\ Machine(d) /\ d.chip = chip /\ (d.cut <=> cut) /\ d.dog = dog
      /\ e = Execute(Wait(300), d)
  BY <1>4 DEF Ran
<1>6. Pauses(Wait(300), 300)
  BY HandlerPauses
<1>7. Delays(d, e, 300) /\ Keeps(d, e)
  BY <1>5, <1>6 DEF Pauses
<1>8. /\ chip' = e.chip /\ cut' = e.cut /\ dog' = e.dog /\ handler' = "retry" /\ Hardware'
  BY <1>4, <1>7 DEF Ran, Delays
<1>9. ChipInv'
  <2>1. ~cut' => ~cut /\ Same(chip, chip', Steady)
    BY <1>5, <1>7, <1>8 DEF Keeps
  <2>2. QED
    BY <1>1, <1>2, <1>3, <2>1, StaysSettled DEF TxStates
<1>10. CASE Kept(dog, 265)
  <2>1. 960 \in Nat
    OBVIOUS
  <2>2. ASSUME NEW b \in Nat, b <= 660, Kept(dog, b)
        PROVE  Kept(dog', b + 300)
    <3>1. b + 300 + BUSY_TIMEOUT_MS <= WDT_PERIOD_MS
      BY <2>2, Bounds
    <3>2. QED
      BY <1>5, <1>7, <1>8, <2>2, <3>1, Zenon DEF Delays
  <2>3. Kept(dog', 265 + 300)
    BY <1>10, <2>2
  <2>4. dog' \in Dogs
    BY <1>8 DEF Hardware
  <2>5. Kept(dog', 960)
    BY <2>3, <2>4, KeptMore
  <2>6. Budget(stage)'
    BY <1>2, <2>5 DEF Budget
  <2>7. QED
    BY <1>8, <1>9, <2>1, <2>5, <2>6, KeptStep
<1>11. CASE Committed(1656)
  <2>1. 1656 \in Nat /\ 300 \in Nat /\ 1656 + 300 = 1956 /\ 1656 + 300 <= WDT_PERIOD_MS
    BY Bounds
  <2>2. Spared(d.dog, 1656)
    BY <1>1, <1>5, <1>11 DEF Committed, Spared, Alive
  <2>3. Flows(d, e) /\ ~Hit(d, e) /\ Spared(e.dog, 1656 + 300)
    BY <1>5, <2>1, <2>2, WaitDog
  <2>4. e.dog.stalls = 0
    <3>1. e.dog.stalls <= d.dog.stalls + 0 /\ d.dog.stalls = 0
      BY <1>5, <1>11, <2>3 DEF Flows, Committed
    <3>2. e.dog.stalls \in Nat
      BY <1>8 DEF Hardware, Dogs
    <3>3. QED
      BY <3>1, <3>2
  <2>5. dog'.on /\ ~dog'.expired /\ dog'.stalls = 0 /\ dog'.ms <= 1956
    BY <1>8, <2>1, <2>3, <2>4 DEF Spared
  <2>6. Committed(1956)'
    BY <1>3, <1>11, <2>5 DEF Committed
  <2>7. DogInv'
    BY <1>2, <2>6 DEF DogInv, Budget
  <2>8. OneStallIsSurvived' /\ AlertMeansFlat'
    BY <1>8, <2>5 DEF OneStallIsSurvived, AlertMeansFlat
  <2>9. QED
    BY <1>8, <1>9, <2>7, <2>8 DEF MachineInv
<1>12. QED
  BY <1>2, <1>10, <1>11

\* A give-up, after which the timer has counted at most 960 ms besides a stall.
LEMMA GiveUpStep ==
  ASSUME IInv, GiveUp
  PROVE  MachineInv'
<1>1. /\ AckIsDue /\ Alive /\ RunOn("give_up", GiveUpProgram, chip)
      /\ radio_state' = "IDLE" /\ pairing_mode' = FALSE
  BY DEF GiveUp, GiveUpDue, Run, RunOn, Tuned
<1>2. stage' = "pair" /\ dog.on /\ Hardware /\ ChipOK(chip)
  BY <1>1, AtAck
<1>3. PICK d, e : Ran("give_up", GiveUpProgram, chip, d, e)
  BY <1>1, <1>2, RunOnRuns
<1>4. /\ Machine(d) /\ d.dog = dog /\ ~d.dog.expired /\ e = Execute(GiveUpProgram, d)
  BY <1>3 DEF Ran
<1>5. Flows(d, e) /\ OperRenewed(e) /\ Kept(e.dog, 960)
  BY <1>2, <1>4, GiveUpRuns
<1>6. /\ chip' = e.chip /\ cut' = e.cut /\ dog' = e.dog /\ handler' = "give_up" /\ Hardware'
  BY <1>3, <1>5 DEF Ran
<1>7. ChipInv'
  <2>1. InTune'
    BY <1>5, <1>6 DEF InTune, OperRenewed, Renewed
  <2>2. QED
    BY <1>1, <2>1, TunedIn, ZenonT(60)
<1>8. Kept(dog', 960) /\ 960 \in Nat
  BY <1>5, <1>6
<1>9. Budget(stage)'
  BY <1>2, <1>8 DEF Budget
<1>10. QED
  BY <1>6, <1>7, <1>8, <1>9, KeptStep

-----------------------------------------------------------------------------
(* The pairing.                                                            *)

\* What pairRemNodeTick() starts from.
LEMMA AtPair ==
  ASSUME IInv, Alive, Goes("pair", "rest")
  PROVE  /\ Reached("pair") /\ "pair" \in DOMAIN Place /\ stage' = "rest"
         /\ Kept(dog, 960) \/ Committed(1956)
         /\ dog.on /\ Hardware /\ ChipOK(chip)
<1>1. Reached("pair") /\ "pair" \in DOMAIN Place /\ stage' = "rest"
  BY DEF Goes, Place
<1>2. Kept(dog, 960) \/ Committed(1956)
  <2>1. Budget("pair")
    BY <1>1, BudgetReached
  <2>2. QED
    BY <2>1 DEF Budget
<1>3. dog.on
  BY <1>2 DEF Kept, Committed
<1>4. QED
  BY <1>1, <1>2, <1>3 DEF IInv, Hardware

\* What is left to show of one that takes longer than a stalled transaction allows.
LEMMA SparedStep ==
  ASSUME Hardware', ChipInv', NEW b \in Nat, Spared(dog', b), stage' = "rest",
         handler' \in {"no_peer_alert", "enterRemNodePairMode"}
  PROVE  MachineInv'
<1>1. dog'.stalls \in Nat
  BY DEF Hardware, Dogs
<1>2. dog'.on /\ (dog'.expired => dog'.stalls # 0)
  BY Zenon DEF Spared
<1>3. dog'.expired => dog'.stalls > 0
  BY <1>1, <1>2
<1>4. OneStallIsSurvived' /\ AlertMeansFlat'
  BY <1>3 DEF OneStallIsSurvived, AlertMeansFlat
<1>5. DogInv'
  BY <1>2 DEF DogInv, Budget
<1> QED
  BY <1>4, <1>5 DEF MachineInv

\* The bound next to a stall holds without one.
LEMMA KeptIsSpared ==
  ASSUME NEW w, NEW b, Kept(w, b)
  PROVE  Spared(w, b)
  BY DEF Kept, Spared

\* The alert of a remote without a peer: 750 ms more than a give-up, too long for a stall.
LEMMA NoPeerAlertStep ==
  ASSUME IInv, NoPeerAlert
  PROVE  MachineInv'
<1> DEFINE p == Wait(3 * (100 + 150))
<1>1. /\ Goes("pair", "rest") /\ Alive /\ binding = "lost"
      /\ RunOn("no_peer_alert", p, chip)
  BY DEF NoPeerAlert, Run, RunOn
<1>2. radio_state' = radio_state /\ pairing_mode' = pairing_mode /\ (Bonded' <=> Bonded)
  BY DEF NoPeerAlert, radio, pairing, Bonded, HasPeer
<1>3. Pauses(p, 750)
  <2>1. 3 * (100 + 150) = 750 /\ 750 \in Nat
    OBVIOUS
  <2>2. QED
    BY <2>1, WaitPauses
<1> HIDE DEF p
<1>4. /\ Reached("pair") /\ "pair" \in DOMAIN Place /\ stage' = "rest"
      /\ Kept(dog, 960) \/ Committed(1956)
      /\ Hardware /\ ChipOK(chip)
  BY <1>1, AtPair
<1>5. Kept(dog, 960)
  BY <1>1, <1>4 DEF Committed
<1>6. PICK d, e : Ran("no_peer_alert", p, chip, d, e)
  BY <1>1, <1>4, RunOnRuns
<1>7. /\ Machine(d) /\ d.chip = chip /\ (d.cut <=> cut) /\ d.dog = dog
      /\ e = Execute(p, d)
  BY <1>6 DEF Ran
<1>8. Delays(d, e, 750) /\ Keeps(d, e)
  BY <1>7, <1>3 DEF Pauses
<1>9. /\ chip' = e.chip /\ cut' = e.cut /\ dog' = e.dog /\ handler' = "no_peer_alert"
      /\ Hardware'
  BY <1>6, <1>8 DEF Ran, Delays
<1>10. ChipInv'
  <2>1. ~cut' => ~cut /\ Same(chip, chip', Steady)
    BY <1>7, <1>8, <1>9 DEF Keeps
  <2>2. QED
    BY <1>1, <1>4, <1>2, <2>1, StaysSettled
<1>11. Spared(dog', 960 + 750)
  <2>1. Spared(d.dog, 960)
    BY <1>5, <1>7, KeptIsSpared
  <2>2. 960 \in Nat /\ 960 + 750 <= WDT_PERIOD_MS
    BY Bounds
  <2>3. QED
    BY <1>8, <1>9, <2>1, <2>2 DEF Delays
<1>12. QED
  BY <1>4, <1>9, <1>10, <1>11, SparedStep

\* A new scan: a chip that is in order is retuned.
LEMMA EnterPairStep ==
  ASSUME IInv, EnterPair
  PROVE  MachineInv'
<1>1. /\ Goes("pair", "rest") /\ Alive /\ binding = "fresh"
      /\ RunOn("enterRemNodePairMode", switchToPairChannel \o Wait(300), chip)
      /\ radio_state' = "IDLE" /\ pairing_mode' = TRUE
  BY DEF EnterPair, Run, RunOn, Tuned
<1>2. /\ Reached("pair") /\ "pair" \in DOMAIN Place /\ stage' = "rest"
      /\ Kept(dog, 960) \/ Committed(1956)
      /\ Hardware /\ ChipOK(chip)
  BY <1>1, AtPair
<1>3. Kept(dog, 960)
  BY <1>1, <1>2 DEF Committed
<1>4. PICK d, e : Ran("enterRemNodePairMode", switchToPairChannel \o Wait(300), chip, d, e)
  BY <1>1, <1>2, RunOnRuns
<1>5. /\ Machine(d) /\ d.chip = chip /\ (d.cut <=> cut) /\ d.dog = dog /\ ~d.dog.expired
      /\ e = Execute(switchToPairChannel \o Wait(300), d)
  BY <1>4 DEF Ran
<1>6. Delays(d, e, 300) /\ Retuned(d, e, PairMod, PairPkt(32), "PAIR", 14)
  BY <1>5, SwitchThenPause
<1>7. /\ chip' = e.chip /\ cut' = e.cut /\ dog' = e.dog /\ handler' = "enterRemNodePairMode"
      /\ Hardware'
  BY <1>4, <1>6 DEF Ran, Delays
<1>8. ChipInv'
  <2> SUFFICES ASSUME ~cut' PROVE Settles(chip', radio_state', pairing_mode', Bonded')
    BY DEF ChipInv
  <2>1. /\ ~cut /\ chip'.mode = "STDBY" /\ OnChan(chip', PairMod, PairPkt(32), "PAIR", 14)
        /\ 2 \in chip'.txModulation /\ 2 \notin chip'.iqPolarity
        /\ Same(chip, chip', Untuned)
    BY <1>5, <1>6, <1>7 DEF Retuned
  <2>2. Initialised(chip)
    BY <1>1, <1>2, <2>1, InLoop DEF Settles
  <2>3. Initialised(chip')
    BY <2>1, <2>2, StillInitialised
  <2>4. QED
    BY <1>1, <2>1, <2>3, StandsBy
<1>9. Spared(dog', 960 + 300)
  <2>1. Spared(d.dog, 960)
    BY <1>3, <1>5, KeptIsSpared
  <2>2. 960 \in Nat /\ 960 + 300 <= WDT_PERIOD_MS
    BY Bounds
  <2>3. QED
    BY <1>6, <1>7, <2>1, <2>2 DEF Delays
<1>10. QED
  BY <1>2, <1>7, <1>8, <1>9, SparedStep

\* A revert, which resets the timer first.
LEMMA RevertStep ==
  ASSUME IInv, Revert
  PROVE  MachineInv'
<1> DEFINE p == watchdogReset \o switchToOperationalChannel \o Wait(150 + 120 + 150)
<1>1. /\ Goes("pair", "rest") /\ Alive
      /\ RunOn("pairRemNodeRevert", p, chip)
      /\ radio_state' = "IDLE" /\ pairing_mode' = FALSE
  BY DEF Revert, RevertDue, Run, RunOn, Tuned
<1>2. /\ Reached("pair") /\ "pair" \in DOMAIN Place /\ stage' = "rest"
      /\ dog.on /\ Hardware /\ ChipOK(chip)
  BY <1>1, AtPair
<1>3. PICK d, e : Ran("pairRemNodeRevert", p, chip, d, e)
  BY <1>1, <1>2, RunOnRuns
<1>4. /\ Machine(d) /\ d.chip = chip /\ (d.cut <=> cut) /\ d.dog = dog /\ ~d.dog.expired
      /\ e = Execute(p, d)
  BY <1>3 DEF Ran
<1>5. /\ Flows(d, e) /\ e.dog.on /\ ~e.dog.expired
      /\ ~e.cut => /\ ~d.cut /\ e.chip.mode = "STDBY"
                   /\ OnChan(e.chip, OperMod(Profile), OperPkt, "OPER", 22)
                   /\ 2 \in e.chip.txModulation /\ 2 \notin e.chip.iqPolarity
                   /\ Same(d.chip, e.chip, Untuned)
  <2>1. 150 + 120 + 150 \in Nat /\ 150 + 120 + 150 + BUSY_TIMEOUT_MS <= WDT_PERIOD_MS
    BY Bounds
  <2>2. QED
    BY <1>2, <1>4, <2>1, RevertRuns
<1> HIDE DEF p
<1>6. /\ chip' = e.chip /\ cut' = e.cut /\ dog' = e.dog /\ handler' = "pairRemNodeRevert"
      /\ Hardware'
  BY <1>3, <1>5 DEF Ran
<1>7. ChipInv'
  <2> SUFFICES ASSUME ~cut' PROVE Settles(chip', radio_state', pairing_mode', Bonded')
    BY DEF ChipInv
  <2>1. /\ ~cut /\ chip'.mode = "STDBY" /\ OnChan(chip', OperMod(Profile), OperPkt, "OPER", 22)
        /\ 2 \in chip'.txModulation /\ 2 \notin chip'.iqPolarity
        /\ Same(chip, chip', Untuned)
    BY <1>4, <1>5, <1>6
  <2>2. Initialised(chip)
    BY <1>1, <1>2, <2>1, InLoop DEF Settles
  <2>3. Initialised(chip')
    BY <2>1, <2>2, StillInitialised
  <2>4. QED
    BY <1>1, <2>1, <2>3, StandsBy
<1>8. OneStallIsSurvived' /\ AlertMeansFlat'
  BY <1>5, <1>6 DEF OneStallIsSurvived, AlertMeansFlat
<1>9. DogInv'
  BY <1>2, <1>5, <1>6 DEF DogInv, Budget
<1>10. QED
  BY <1>6, <1>7, <1>8, <1>9 DEF MachineInv

-----------------------------------------------------------------------------
(* The end of a pass.                                                      *)

\* What the end of a pass starts from.
LEMMA AtRest ==
  ASSUME IInv, Alive, Goes("rest", "button")
  PROVE  /\ Reached("rest") /\ "rest" \in DOMAIN Place /\ stage' = "button"
         /\ dog.on /\ Hardware /\ ChipOK(chip)
<1>1. Reached("rest") /\ "rest" \in DOMAIN Place /\ stage' = "button"
  BY DEF Goes, Place
<1>2. dog.on
  BY <1>1, BudgetReached DEF Budget
<1>3. QED
  BY <1>1, <1>2 DEF IInv, Hardware

\* What is left to show at the end of a pass.
LEMMA EndStep ==
  ASSUME IInv, Alive, Goes("rest", "button"), UNCHANGED <<radio, command, pairing>>,
         Hardware', Kept(dog', 5), ~cut' => ~cut /\ Same(chip, chip', Steady),
         AlertMeansFlat'
  PROVE  MachineInv'
<1>1. Reached("rest") /\ "rest" \in DOMAIN Place /\ stage' = "button"
  BY AtRest
<1>2. ChipInv'
  <2>1. radio_state' = radio_state /\ pairing_mode' = pairing_mode /\ (Bonded' <=> Bonded)
    BY DEF radio, pairing, Bonded, HasPeer
  <2>2. QED
    BY <1>1, <2>1, StaysSettled
<1>3. OneStallIsSurvived'
  BY KeptSurvives
<1>4. DogInv'
  BY <1>1 DEF DogInv, Budget
<1>5. QED
  BY <1>2, <1>3, <1>4 DEF MachineInv

\* The pass ends without an alert.
LEMMA PlainEndStep ==
  ASSUME IInv, Goes("rest", "button"), Run("loop", EndOfPass),
         UNCHANGED <<radio, command, pairing>>
  PROVE  MachineInv'
<1>1. Alive /\ RunOn("loop", watchdogReset \o Wait(5), chip)
  BY DEF Run, RunOn, EndOfPass
<1>2. dog.on /\ Hardware /\ ChipOK(chip)
  BY <1>1, AtRest
<1>3. 5 + BUSY_TIMEOUT_MS <= WDT_PERIOD_MS
  BY Bounds
<1>4. Pauses(Wait(5), 5)
  BY HandlerPauses
<1>5. /\ Hardware' /\ handler' = "loop" /\ Kept(dog', 5)
      /\ ~cut' => ~cut /\ Same(chip, chip', Steady)
  BY <1>1, <1>2, <1>3, <1>4, PetStep
<1>6. AlertMeansFlat'
  BY <1>5 DEF AlertMeansFlat
<1>7. QED
  BY <1>1, <1>5, <1>6, EndStep

\* The alert of a battery that is not flat: only a transmitter explains it, and the check
\* waits for the transmission to end.
LEMMA FalseAlert ==
  ASSUME IInv, Alive, Goes("rest", "button"), MayCheck,
         NEW r \in Readings(FALSE), ~battCheck(r)
  PROVE  cut
<1>1. chip.mode = "TX"
  <2>1. CASE r \in {s \in [1..3 -> {Full, Low}] : \E i \in 1..3 : s[i] = Full}
    <3>1. PICK i \in 1..3 : r[i] = 400
      BY <2>1 DEF Full
    <3>2. (1100 * 1023) \div 400 = 2813 /\ 2813 % 65536 = 2813
      OBVIOUS
    <3>3. readVdd(400) = 2813
      BY <3>2 DEF readVdd
    <3>4. readVdd(r[i]) > BAT_VOL_MIN
      BY <3>1, <3>3 DEF BAT_VOL_MIN
    <3>5. QED
      BY <3>4 DEF battCheck
  <2>2. QED
    BY <2>1 DEF Readings
<1>2. Reached("rest") /\ "rest" \in DOMAIN Place
  BY AtRest
<1>3. ASSUME ~cut PROVE FALSE
  <2>1. Settles(chip, radio_state, pairing_mode, Bonded)
    BY <1>2, <1>3, InLoop
  <2>2. QED
    BY <1>1, <2>1 DEF Settles, MayCheck, TxStates
<1>4. QED
  BY <1>3

\* The low-battery alert, which resets the timer and stalls nowhere.
LEMMA AlertStep ==
  ASSUME IInv, Goes("rest", "button"), NEW name,
         Run(name, watchdogReset \o lowBattAlert \o EndOfPass),
         UNCHANGED <<radio, command, pairing>>, name = "false_alert" => cut
  PROVE  MachineInv'
<1> DEFINE p == watchdogReset \o lowBattAlert \o EndOfPass
<1>1. Alive /\ RunOn(name, p, chip)
  BY DEF Run, RunOn
<1>2. dog.on /\ Hardware /\ ChipOK(chip)
  BY <1>1, AtRest
<1>3. PICK d, e : Ran(name, p, chip, d, e)
  BY <1>1, <1>2, RunOnRuns
<1>4. /\ Machine(d) /\ d.chip = chip /\ (d.cut <=> cut) /\ d.dog = dog /\ ~d.dog.expired
      /\ e = Execute(p, d)
  BY <1>3 DEF Ran
<1>5. Flows(d, e) /\ Keeps(d, e) /\ Kept(e.dog, 5)
  BY <1>2, <1>4, AlertRuns
<1> HIDE DEF p
<1>6. /\ chip' = e.chip /\ cut' = e.cut /\ dog' = e.dog /\ handler' = name /\ Hardware'
  BY <1>3, <1>5 DEF Ran
<1>7. ~cut' => ~cut /\ Same(chip, chip', Steady)
  BY <1>4, <1>5, <1>6 DEF Keeps
<1>8. AlertMeansFlat'
  BY <1>6, <1>7 DEF AlertMeansFlat
<1>9. QED
  BY <1>1, <1>5, <1>6, <1>7, <1>8, EndStep

\* The battery check.
LEMMA BatteryCheckStep ==
  ASSUME IInv, BatteryCheck
  PROVE  MachineInv'
<1>1. Goes("rest", "button") /\ MayCheck /\ UNCHANGED <<radio, command, pairing>>
  BY DEF BatteryCheck
<1>2. PICK flat \in BOOLEAN :
        \E ok \in {battCheck(r) : r \in Readings(flat)} :
          IF ok THEN Run("loop", EndOfPass)
          ELSE Run(IF flat THEN "loop" ELSE "false_alert",
                   watchdogReset \o lowBattAlert \o EndOfPass)
  BY DEF BatteryCheck
<1>3. PICK r \in Readings(flat) :
        IF battCheck(r) THEN Run("loop", EndOfPass)
        ELSE Run(IF flat THEN "loop" ELSE "false_alert",
                 watchdogReset \o lowBattAlert \o EndOfPass)
  BY <1>2, Zenon
<1>4. CASE battCheck(r)
  BY <1>1, <1>3, <1>4, PlainEndStep
<1>5. CASE ~battCheck(r)
  <2> DEFINE name == IF flat THEN "loop" ELSE "false_alert"
  <2>1. Run(name, watchdogReset \o lowBattAlert \o EndOfPass)
    BY <1>3, <1>5
  <2>2. ASSUME name = "false_alert" PROVE cut
    <3>1. flat = FALSE
      BY <2>2
    <3>2. r \in Readings(FALSE)
      BY <3>1
    <3>3. Alive
      BY <2>1 DEF Run, RunOn
    <3>4. QED
      BY <1>1, <1>5, <3>2, <3>3, FalseAlert
  <2> HIDE DEF name
  <2>3. QED
    BY <1>1, <2>1, <2>2, AlertStep
<1>6. QED
  BY <1>4, <1>5

\* The end of a pass without one.
LEMMA NoCheckStep ==
  ASSUME IInv, NoCheck
  PROVE  MachineInv'
  BY PlainEndStep DEF NoCheck

-----------------------------------------------------------------------------
(* Sleep and boot.                                                         *)

\* Falling asleep turns the timer off: set_sleep alone may stall before that.
LEMMA SleepStep ==
  ASSUME IInv, Sleep
  PROVE  MachineInv'
<1>1. /\ Reached("button") /\ "button" \in DOMAIN Place /\ stage' = "asleep" /\ Alive
      /\ RunOn("enterSleep", set_sleep \o watchdogDisable, chip)
  BY DEF Sleep, SleepDue, Goes, Place, Run, RunOn
<1>2. radio_state' = radio_state /\ pairing_mode' = pairing_mode /\ (Bonded' <=> Bonded)
  BY DEF Sleep, radio, pairing, Bonded, HasPeer
<1>3. Hardware /\ ChipOK(chip)
  BY DEF IInv, Hardware
<1>4. Kept(dog, 5)
  BY <1>1, BudgetReached DEF Budget
<1>5. PICK d, e : Ran("enterSleep", set_sleep \o watchdogDisable, chip, d, e)
  BY <1>1, <1>3, RunOnRuns
<1>6. /\ Machine(d) /\ d.chip = chip /\ (d.cut <=> cut) /\ d.dog = dog /\ ~d.dog.expired
      /\ e = Execute(set_sleep \o watchdogDisable, d)
  BY <1>5 DEF Ran
<1>7. /\ Flows(d, e)
      /\ IF e.dog.expired THEN e.dog.stalls > 1 ELSE Off(e.dog)
      /\ ~e.cut => /\ ~d.cut /\ e.chip.mode = "SLEEP"
                   /\ Same(d.chip, e.chip, Steady \ {"mode"})
  <2>1. 5 + BUSY_TIMEOUT_MS <= WDT_PERIOD_MS
    BY Bounds
  <2>2. QED
    BY <1>4, <1>6, <2>1, SleepRuns
<1>8. /\ chip' = e.chip /\ cut' = e.cut /\ dog' = e.dog /\ handler' = "enterSleep" /\ Hardware'
  BY <1>5, <1>7 DEF Ran
<1>9. ChipInv'
  <2> SUFFICES ASSUME ~cut' PROVE Settles(chip', radio_state', pairing_mode', Bonded')
    BY DEF ChipInv
  <2>1. ~cut /\ chip'.mode = "SLEEP" /\ Same(chip, chip', Steady \ {"mode"})
    BY <1>6, <1>7, <1>8
  <2>2. Settles(chip, radio_state, pairing_mode, Bonded)
    BY <1>1, <2>1, InLoop
  <2>3. /\ Same(chip, chip', Untuned)
        /\ chip'.mod = chip.mod /\ chip'.pkt = chip.pkt
        /\ chip'.sync = chip.sync /\ chip'.pwr = chip.pwr
        /\ chip'.txModulation = chip.txModulation /\ chip'.iqPolarity = chip.iqPolarity
    BY <2>1 DEF Same, Steady, Untuned
  <2>4. Initialised(chip')
    BY <2>2, <2>3, StillInitialised DEF Settles, Initialised
  <2>5. QED
    BY <1>2, <2>1, <2>2, <2>3, <2>4 DEF Settles, OnChan
<1>10. OneStallIsSurvived' /\ AlertMeansFlat'
  <2>1. dog'.expired => dog'.stalls > 1
    BY <1>7, <1>8
  <2>2. dog'.stalls \in Nat
    BY <1>8 DEF Hardware, Dogs
  <2>3. dog'.expired => dog'.stalls > 0 /\ dog'.stalls # 1
    BY <2>1, <2>2
  <2>4. QED
    BY <1>8, <2>3 DEF OneStallIsSurvived, AlertMeansFlat
<1>11. DogInv'
  BY <1>1 DEF DogInv, Budget
<1>12. QED
  BY <1>8, <1>9, <1>10, <1>11 DEF MachineInv

\* What is left to show of a start, which leaves the timer just reset.
LEMMA StartStep ==
  ASSUME Hardware', Rested(dog', 0), stage' = "button", handler' # "false_alert",
         ChipInv'
  PROVE  MachineInv'
<1>1. Kept(dog', 0)
  BY DEF Rested, Kept
<1>2. Kept(dog', 5)
  <2>1. dog' \in Dogs /\ 0 \in Nat /\ 5 \in Nat /\ 0 <= 5
    BY DEF Hardware
  <2>2. QED
    BY <1>1, <2>1, KeptMore
<1>3. Budget(stage)'
  BY <1>2 DEF Budget
<1>4. QED
  BY <1>2, <1>3, KeptStep

\* A wake-up, after which the chip is set up and the timer has just been reset.
LEMMA WakeStep ==
  ASSUME IInv, Wake
  PROVE  MachineInv'
<1>1. /\ stage' = "button" /\ Alive /\ RunOn("enterSleep", WakeUp, chip)
      /\ radio_state' = "IDLE" /\ pairing_mode' = FALSE
  BY DEF Wake, Goes, Run, RunOn, Tuned
<1>2. Hardware /\ ChipOK(chip)
  BY DEF IInv, Hardware
<1>3. PICK d, e : Ran("enterSleep", WakeUp, chip, d, e)
  BY <1>1, <1>2, RunOnRuns
<1>4. Machine(d) /\ ~d.dog.expired /\ e = Execute(WakeUp, d)
  BY <1>3 DEF Ran
<1>5. /\ Flows(d, e) /\ Rested(e.dog, 0)
      /\ ~e.cut => /\ e.chip.mode = "STDBY" /\ Initialised(e.chip)
                   /\ OnChan(e.chip, OperMod(Profile), OperPkt, "OPER", 22)
  BY <1>4, WakeUpRuns
<1>6. /\ chip' = e.chip /\ cut' = e.cut /\ dog' = e.dog /\ handler' = "enterSleep" /\ Hardware'
  BY <1>3, <1>5 DEF Ran
<1>7. InTune'
  BY <1>5, <1>6 DEF InTune
<1>8. ChipInv'
  BY <1>1, <1>7, TunedIn, ZenonT(60)
<1>9. QED
  BY <1>1, <1>5, <1>6, <1>8, StartStep

\* setup(), after which the chip is on the channel that the remote knows, if it knows one.
LEMMA BootStep ==
  ASSUME IInv, NEW combo \in BOOLEAN, Boot(combo)
  PROVE  MachineInv'
<1> DEFINE start == IF combo THEN switchToPairChannel \o Wait(300)
                    ELSE IF HasPeer THEN switchToOperationalChannel
                    ELSE <<>>
           p == watchdogDisable \o sx1268Init \o start \o watchdogInit
<1>1. /\ stage' = "button" /\ Alive /\ RunOn("setup", p, chip)
      /\ radio_state' = "IDLE"
  BY DEF Boot, Goes, Run, RunOn, Tuned
<1>2. pairing_mode' = combo /\ binding' = binding
  BY DEF Boot, Tuned
<1>3. Hardware /\ ChipOK(chip)
  BY DEF IInv, Hardware
<1>4. PICK d, e : Ran("setup", p, chip, d, e)
  BY <1>1, <1>3, RunOnRuns
<1>5. Machine(d) /\ ~d.dog.expired /\ e = Execute(p, d)
  BY <1>4 DEF Ran
<1>6. /\ Flows(d, e) /\ Rested(e.dog, 0)
      /\ ~e.cut =>
           /\ e.chip.mode = "STDBY" /\ Initialised(e.chip)
           /\ combo => OnChan(e.chip, PairMod, PairPkt(32), "PAIR", 14)
           /\ ~combo /\ HasPeer =>
                OnChan(e.chip, OperMod(Profile), OperPkt, "OPER", 22)
  <2>1. CASE combo
    <3>1. e = Execute(watchdogDisable \o sx1268Init \o (switchToPairChannel \o Wait(300))
                      \o watchdogInit, d)
      BY <1>5, <2>1
    <3>2. QED
      BY <1>5, <2>1, <3>1, SetupPairs
  <2>2. CASE ~combo /\ HasPeer
    <3>1. e = Execute(watchdogDisable \o sx1268Init \o switchToOperationalChannel
                      \o watchdogInit, d)
      BY <1>5, <2>2
    <3>2. QED
      BY <1>5, <2>2, <3>1, SetupOperates
  <2>3. CASE ~combo /\ ~HasPeer
    <3>1. e = Execute(watchdogDisable \o sx1268Init \o <<>> \o watchdogInit, d)
      BY <1>5, <2>3
    <3>2. QED
      BY <1>5, <2>3, <3>1, SetupStays
  <2>4. QED
    BY <2>1, <2>2, <2>3
<1> HIDE DEF p
<1>7. /\ chip' = e.chip /\ cut' = e.cut /\ dog' = e.dog /\ handler' = "setup" /\ Hardware'
  BY <1>4, <1>6 DEF Ran
<1>8. ChipInv'
  <2> SUFFICES ASSUME ~cut' PROVE Settles(chip', radio_state', pairing_mode', Bonded')
    BY DEF ChipInv
  <2>1. /\ chip'.mode = "STDBY" /\ Initialised(chip')
        /\ combo => OnChan(chip', PairMod, PairPkt(32), "PAIR", 14)
        /\ ~combo /\ HasPeer =>
             OnChan(chip', OperMod(Profile), OperPkt, "OPER", 22)
    BY <1>6, <1>7
  <2>2. Bonded' => IF combo THEN OnChan(chip', PairMod, PairPkt(32), "PAIR", 14)
                   ELSE OnChan(chip', OperMod(Profile), OperPkt, "OPER", 22)
    BY <1>2, <2>1 DEF Bonded, HasPeer
  <2>3. QED
    BY <1>2, <2>1, <2>2, StandsBy
<1>9. QED
  BY <1>1, <1>6, <1>7, <1>8, StartStep

-----------------------------------------------------------------------------
(* The SETUP states.                                                       *)

\* A handler has run program p, all of it calls of the driver, from machine d to e.
Called(p, d, e) ==
  /\ Machine(d) /\ d.chip = chip /\ e = Execute(p, d) /\ Bus(d, e) /\ chip' = e.chip
  /\ ~cut' => ~cut /\ ~Failed(d, e)
  /\ stalls' = stalls => ~Failed(d, e)

\* What a program of such calls does to the machine.
IsBus(p) == \A d : Machine(d) => Bus(d, Execute(p, d))

\* The two SETUP states only call the driver.
LEMMA CallStep ==
  ASSUME Hardware, NEW name, NEW p, RunOn(name, p, chip), IsBus(p), Kept(dog, 105)
  PROVE  /\ Hardware' /\ handler' = name /\ Kept(dog', 205)
         /\ \E d, e : Called(p, d, e)
<1>1. PICK d, e : Ran(name, p, chip, d, e)
  BY RunOnRuns DEF Hardware
<1>2. /\ Machine(d) /\ d.chip = chip /\ (d.cut <=> cut) /\ d.dog = dog /\ ~d.dog.expired
      /\ e = Execute(p, d) /\ chip' = e.chip /\ cut' = e.cut /\ dog' = e.dog
      /\ handler' = name
  BY <1>1 DEF Ran
<1>3. Bus(d, e)
  BY <1>2 DEF IsBus
<1>4. Delays(d, e, 0)
  BY <1>2, <1>3, SilentDelays DEF Bus
<1>5. Hardware' /\ (stalls' = stalls => ~Hit(d, e))
  BY <1>1, <1>4 DEF Ran, Delays
<1>6. Kept(dog', 105)
  <2>1. 105 \in Nat /\ 105 + 0 = 105 /\ 105 + 0 + BUSY_TIMEOUT_MS <= WDT_PERIOD_MS
    BY Bounds
  <2>2. Kept(d.dog, 105)
    BY <1>2
  <2>3. Kept(e.dog, 105 + 0)
    BY <1>4, <2>1, <2>2 DEF Delays
  <2>4. QED
    BY <1>2, <2>1, <2>3
<1>7. Kept(dog', 205)
  <2>1. dog' \in Dogs
    BY <1>5 DEF Hardware
  <2>2. QED
    BY <1>6, <2>1, KeptMore
<1>8. ~cut' => ~cut /\ ~Failed(d, e)
  BY <1>2, <1>3, Unfailed
<1>9. Called(p, d, e)
  BY <1>2, <1>3, <1>5, <1>8 DEF Called, Failed
<1>10. QED
  BY <1>2, <1>5, <1>7, <1>9

\* The program of STATE_TX_SETUP, by its packet.
FramePkt == IF pairing_mode THEN PairPkt(tx_length) ELSE OperPkt

\* It is the program proved about above.
LEMMA TxProgramSends == TxProgram = Sending(FramePkt, tx_length)
  BY DEF TxProgram, Sending, FramePkt

\* STATE_TX_SETUP only calls the driver.
LEMMA SendingIsBus ==
  ASSUME NEW pkt, NEW len
  PROVE  IsBus(Sending(pkt, len))
  BY SendingRuns DEF IsBus

\* So does STATE_RX_SETUP.
LEMMA ListeningIsBus ==
  ASSUME NEW ms \in Nat, ms <= MAX_TIMEOUT_IN_MS
  PROVE  IsBus(Listening(ms))
  BY ListeningRuns DEF IsBus

\* A frame that has been sent without a stall.
LEMMA FrameSent ==
  ASSUME NEW pkt, NEW len, NEW d, NEW e, Called(Sending(pkt, len), d, e), ~Failed(d, e)
  PROVE  /\ chip'.mode = "TX" /\ chip'.pkt = pkt /\ chip'.fifo = len
         /\ 2 \notin chip'.iqPolarity /\ chip'.base = <<0, 128>>
         /\ Same(chip, chip', (Untuned \ {"base"}) \cup {"mod", "sync", "pwr", "txModulation"})
  BY SendingRuns DEF Called

\* The frame on the air is the one that was queued, on the channel of the radio's mode.
LEMMA TxSetupStep ==
  ASSUME IInv, TxSetup
  PROVE  MachineInv'
<1>1. Goes("radio", "watch") /\ RunOn("TX_SETUP", TxProgram, chip) /\ Alive
  BY DEF TxSetup, Run, RunOn
<1>2. /\ Reached("radio") /\ "radio" \in DOMAIN Place /\ stage' = "watch"
      /\ Kept(dog, 105) /\ Hardware /\ ChipOK(chip)
  BY <1>1, AtRadio
<1>3. /\ Hardware' /\ handler' = "TX_SETUP" /\ Kept(dog', 205)
      /\ \E d, e : Called(Sending(FramePkt, tx_length), d, e)
  <2>1. RunOn("TX_SETUP", Sending(FramePkt, tx_length), chip)
    BY <1>1, TxProgramSends
  <2>2. QED
    BY <1>2, <2>1, SendingIsBus, CallStep
<1>4. PICK d, e : Called(Sending(FramePkt, tx_length), d, e)
  BY <1>3
<1>5. radio_state' = "TX_WAIT" /\ pairing_mode' = pairing_mode /\ (Bonded' <=> Bonded)
  BY DEF TxSetup, pairing, Bonded, HasPeer
<1>6. ChipInv'
  <2> SUFFICES ASSUME ~cut' PROVE Settles(chip', radio_state', pairing_mode', Bonded')
    BY DEF ChipInv
  <2>1. ~cut /\ ~Failed(d, e)
    BY <1>4 DEF Called
  <2>2. /\ chip'.mode = "TX" /\ chip'.pkt = FramePkt /\ chip'.fifo = tx_length
        /\ 2 \notin chip'.iqPolarity /\ chip'.base = <<0, 128>>
        /\ Same(chip, chip', (Untuned \ {"base"}) \cup {"mod", "sync", "pwr", "txModulation"})
    BY <1>4, <2>1, FrameSent
  <2>3. Settles(chip, radio_state, pairing_mode, Bonded)
    BY <1>1, <1>2, <2>1, InLoop
  <2>4. /\ Same(chip, chip', Untuned)
        /\ chip'.mod = chip.mod /\ chip'.sync = chip.sync /\ chip'.pwr = chip.pwr
        /\ chip'.txModulation = chip.txModulation
    BY <2>2, <2>3 DEF Same, Untuned, Settles, Initialised
  <2>5. Initialised(chip')
    BY <2>2, <2>3, <2>4, StillInitialised DEF Settles, Initialised
  <2>6. tx_length \in {1, 5, 21, 32} /\ "TX_WAIT" \in TxStates
    BY DEF IInv, Software, TxStates
  <2>7. FramePkt = IF pairing_mode THEN [pre |-> 8, len |-> tx_length] ELSE OperPkt
    BY DEF FramePkt, PairPkt
  <2>8. Bonded' => IF pairing_mode
                   THEN /\ chip'.mod = PairMod /\ chip'.pkt.pre = 8
                        /\ chip'.sync = "PAIR" /\ chip'.pwr = 14
                   ELSE OnChan(chip', OperMod(Profile), OperPkt, "OPER", 22)
    BY <1>5, <2>2, <2>3, <2>4, <2>7 DEF Settles, OnChan
  <2>9. QED
    BY <1>5, <2>2, <2>5, <2>6, <2>8 DEF Settles, FramePkt
<1>7. Budget(stage)'
  BY <1>2, <1>3 DEF Budget
<1>8. QED
  BY <1>3, <1>6, <1>7, KeptStep

\* The timed RX is one the chip's timer can hold.
LEMMA Window == RX_TIMEOUT_MS(Profile) \in Nat /\ RX_TIMEOUT_MS(Profile) <= MAX_TIMEOUT_IN_MS
<1>1. OPER_TOA_MS(Profile) \in 200..1400
  BY LoopAssumption DEF OPER_TOA_MS, Profiles
<1>2. QED
  BY <1>1, SMTT(30)
  DEF RX_TIMEOUT_MS, ACK_WAIT_ON_MS, MAX_TIMEOUT_IN_MS, MAX_TIMEOUT_IN_RTC_STEP

\* The window that has been opened without a stall.
LEMMA WindowOpened ==
  ASSUME NEW d, NEW e, Called(Listening(RX_TIMEOUT_MS(Profile)), d, e), ~Failed(d, e)
  PROVE  /\ chip'.mode = "RX" /\ chip'.timer = 64 * RX_TIMEOUT_MS(Profile)
         /\ chip'.base = <<0, 128>> /\ chip'.rxGain = 150
         /\ Same(chip, chip', (Untuned \ {"base", "rxGain"})
                              \cup {"mod", "pkt", "sync", "pwr", "txModulation", "iqPolarity"})
  BY Window, ListeningRuns DEF Called

\* The window is opened on the channel of the radio's mode.
LEMMA RxSetupStep ==
  ASSUME IInv, RxSetup
  PROVE  MachineInv'
<1>1. /\ Goes("radio", "watch") /\ RunOn("RX_SETUP", Listening(RX_TIMEOUT_MS(Profile)), chip)
      /\ Alive
  BY DEF RxSetup, Run, RunOn, Listening
<1>2. /\ Reached("radio") /\ "radio" \in DOMAIN Place /\ stage' = "watch"
      /\ Kept(dog, 105) /\ Hardware /\ ChipOK(chip)
  BY <1>1, AtRadio
<1>3. /\ Hardware' /\ handler' = "RX_SETUP" /\ Kept(dog', 205)
      /\ \E d, e : Called(Listening(RX_TIMEOUT_MS(Profile)), d, e)
  BY <1>1, <1>2, Window, ListeningIsBus, CallStep
<1>4. PICK d, e : Called(Listening(RX_TIMEOUT_MS(Profile)), d, e)
  BY <1>3
<1>5. pairing_mode' = pairing_mode /\ (Bonded' <=> Bonded)
  BY DEF RxSetup, pairing, Bonded, HasPeer
<1>6. ChipInv'
  <2> SUFFICES ASSUME ~cut' PROVE Settles(chip', radio_state', pairing_mode', Bonded')
    BY DEF ChipInv
  <2>1. ~cut /\ ~Failed(d, e)
    BY <1>4 DEF Called
  <2>2. /\ chip'.mode = "RX" /\ chip'.timer = 64 * RX_TIMEOUT_MS(Profile)
        /\ chip'.base = <<0, 128>> /\ chip'.rxGain = 150
        /\ Same(chip, chip', (Untuned \ {"base", "rxGain"})
                             \cup {"mod", "pkt", "sync", "pwr", "txModulation", "iqPolarity"})
    BY <1>4, <2>1, WindowOpened
  <2>3. Settles(chip, radio_state, pairing_mode, Bonded)
    BY <1>1, <1>2, <2>1, InLoop
  <2>4. /\ Same(chip, chip', Untuned)
        /\ chip'.mod = chip.mod /\ chip'.pkt = chip.pkt
        /\ chip'.sync = chip.sync /\ chip'.pwr = chip.pwr
        /\ chip'.txModulation = chip.txModulation /\ chip'.iqPolarity = chip.iqPolarity
    BY <2>2, <2>3 DEF Same, Untuned, Settles, Initialised
  <2>5. Initialised(chip')
    BY <2>3, <2>4, StillInitialised DEF Settles, Initialised
  <2>6. QED
    BY <1>5, <2>2, <2>3, <2>4, <2>5 DEF Settles, OnChan
<1>7. Budget(stage)'
  BY <1>2, <1>3 DEF Budget
<1>8. QED
  BY <1>3, <1>6, <1>7, KeptStep

-----------------------------------------------------------------------------
(* The theorems.                                                           *)

\* The invariant holds when the power comes on.
LEMMA InitHolds ==
  ASSUME Init
  PROVE  IInv
<1>1. ChipOK(chip)
  BY ResetChipOK DEF Init
<1>2. dog \in Dogs /\ dog.stalls = 0 /\ dog.expired = FALSE
  <2>1. \A w : w = [on |-> FALSE, ms |-> 0, stalls |-> 0, expired |-> FALSE]
               => w \in Dogs /\ w.stalls = 0 /\ w.expired = FALSE
    BY DEF Dogs
  <2>2. QED
    BY <2>1 DEF Init
<1>3. Hardware /\ OneStallIsSurvived /\ AlertMeansFlat
  <2>1. stalls = 0 /\ cut = FALSE /\ handler = "setup" /\ MaxStalls \in Nat
    BY LoopAssumption DEF Init
  <2>2. stalls \in 0..MaxStalls /\ dog.stalls <= stalls
    BY <1>2, <2>1
  <2>3. QED
    BY <1>1, <1>2, <2>1, <2>2 DEF Hardware, OneStallIsSurvived, AlertMeansFlat
<1>4. Software
  <2>1. tries \in 0..MAX_RETRY
    BY LoopAssumption DEF Init
  <2>2. /\ stage = "boot" /\ radio_state = "IDLE" /\ pairing_mode = FALSE /\ tx_length = 32
        /\ quiet = FALSE /\ msgTxd = FALSE /\ wkup = FALSE /\ pairState = "IDLE" /\ shots = {}
        /\ binding \in {"fresh", "torn", "lost", "paired"}
    BY LoopAssumption DEF Init
  <2>3. QED
    BY <2>1, <2>2 DEF Software, Stages, RadioStates
<1>5. ChipInv
  BY DEF Init, ChipInv, OnAir, ResetChip
<1>6. DogInv
  BY Zenon DEF Init, DogInv, Budget
<1>7. QED
  BY <1>3, <1>4, <1>5, <1>6 DEF IInv

\* It is preserved by the steps of the radio's state machine.
LEMMA RadioSteps ==
  ASSUME IInv,
         \/ IdleEnds \/ TxSetup \/ TxDone \/ TxTimedOut
         \/ RxSetup \/ RxTimedOut \/ RxNothing("RX_WAIT") \/ RxNothing("rx_error")
         \/ RxRsp \/ RxIgnored \/ RxAck \/ RxConfirm
  PROVE  MachineInv'
  BY IdleEndsStep, TxSetupStep, TxDoneStep, TxTimedOutStep, RxSetupStep, RxTimedOutStep,
     RxNothingStep, RxRspStep, RxIgnoredStep, RxAckStep, RxConfirmStep, Zero

\* And by all others.
LEMMA OtherSteps ==
  ASSUME IInv,
         \/ \E combo \in BOOLEAN : Boot(combo)
         \/ Reset \/ Wake
         \/ Sleep \/ WakeStatus \/ Press \/ Preempt
         \/ RadioWatchdog \/ Retry \/ GiveUp
         \/ ConfirmStatus \/ BootPrime \/ EnterPair \/ NoPeerAlert \/ PairSend \/ Revert
         \/ NoCheck \/ BatteryCheck
  PROVE  MachineInv'
<1>1. CASE \E combo \in BOOLEAN : Boot(combo)
  BY <1>1, BootStep
<1>2. CASE Reset \/ Wake \/ Sleep \/ WakeStatus \/ Press \/ Preempt
  BY <1>2, ExpiredStep, WakeStep, SleepStep, WakeStatusStep, PressStep
<1>3. CASE RadioWatchdog \/ Retry \/ GiveUp
  BY <1>3, RadioWatchdogStep, RetryStep, GiveUpStep
<1>4. CASE ConfirmStatus \/ BootPrime \/ EnterPair \/ NoPeerAlert \/ PairSend \/ Revert
  BY <1>4, QueueStep, EnterPairStep, NoPeerAlertStep, RevertStep
<1>5. CASE NoCheck \/ BatteryCheck
  BY <1>5, NoCheckStep, BatteryCheckStep
<1>6. QED
  BY <1>1, <1>2, <1>3, <1>4, <1>5

\* It is inductive.
LEMMA NextHolds ==
  ASSUME IInv, [Next]_vars
  PROVE  IInv'
<1>1. Software'
  BY SoftwareHolds DEF IInv
<1>2. MachineInv'
  <2>1. CASE UNCHANGED vars
    BY <2>1, StutterStep
  <2>2. CASE Next
    BY <2>2, RadioSteps, OtherSteps DEF Next, Loop
  <2>3. QED
    BY <2>1, <2>2
<1>3. QED
  BY <1>1, <1>2 DEF IInv, MachineInv

\* The inductive invariant holds throughout: of any profile, any number of stalls and any number
\* of retries, provided the two timeouts leave room for the pauses (WatchdogAssumption).
THEOREM Invariance == Spec => []IInv
<1>1. Init => IInv
  BY InitHolds
<1>2. IInv /\ [Next]_vars => IInv'
  BY NextHolds
<1>3. QED
  BY <1>1, <1>2, PTL DEF Spec

\* The inductive invariant contains the type invariant.
LEMMA TypeHolds ==
  ASSUME IInv
  PROVE  TypeOK
<1>1. /\ DOMAIN chip = DOMAIN ResetChip /\ chip.mode \in {"STDBY", "SLEEP", "TX", "RX"}
      /\ \A r \in {"iqPolarity", "txModulation", "txClamp"} : chip[r] \subseteq 0..7
      /\ Cardinality(chip.retained) <= MAX_NB_REG_IN_RETENTION
  BY DEF IInv, Hardware, ChipOK, Modes, Registers
<1>2. dog \in [on : BOOLEAN, ms : Nat, stalls : 0..MaxStalls, expired : BOOLEAN]
  BY LoopAssumption DEF IInv, Hardware, Dogs
<1>3. QED
  BY <1>1, <1>2 DEF TypeOK, IInv, Hardware, Software

\* The type invariant of the main loop, for every bound: the radio's state, the chip's registers
\* and its retention list stay within their ranges in whatever order the handlers run.
THEOREM TypeCorrect == Spec => []TypeOK
<1>1. IInv => TypeOK
  BY TypeHolds
<1>2. QED
  BY <1>1, Invariance, PTL

\* What the inductive invariant says of a chip that is on the air.
LEMMA OnAirSettles ==
  ASSUME IInv, OnAir, ~cut
  PROVE  Settles(chip, radio_state, pairing_mode, Bonded)
  BY DEF IInv, ChipInv

\* Unless BUSY cost a transaction since the chip was last reset, it is on the air only with
\* everything sx1268Init() and the channel switch set: for every interleaving of boot, sleep,
\* give-up, radio watchdog, pairing, commit, revert and the SETUP states.
THEOREM OnAirIsAsIntended == Spec => []OnAirAsIntended
<1>1. ASSUME IInv PROVE OnAirAsIntended
  <2> SUFFICES ASSUME OnAir, ~cut, Bonded
               PROVE  /\ Configured(chip)
                      /\ chip.mode = "TX" /\ pairing_mode => chip.pkt.len = chip.fifo
    BY DEF OnAirAsIntended
  <2>1. Settles(chip, radio_state, pairing_mode, Bonded)
    BY <1>1, OnAirSettles
  <2>2. QED
    BY <2>1 DEF Settles, Configured, OnChannel, OnChan, PairPkt
<1>2. QED
  BY <1>1, Invariance, PTL

\* The frames of the pairing end sooner than the shortest command does.
LEMMA PairFramesFit ==
  ASSUME NEW len \in {1, 5, 21, 32}
  PROVE  time_on_air_in_ms(PairPkt(len), PairMod) <= OPER_TOA_MS(Profile)
<1>1. OPER_TOA_MS(Profile) \in 200..1400
  BY LoopAssumption DEF OPER_TOA_MS, Profiles
<1>2. Pow2[5] = 32 /\ lora_bw_in_hz["BW_125"] = 125000
  BY DEF Pow2, lora_bw_in_hz
<1>3. Symbols(PairPkt(len), PairMod) \in 0..80
  <2>1. CASE len = 1
    BY <2>1 DEF Symbols, PairPkt, PairMod, CeilDiv
  <2>2. CASE len = 5
    BY <2>2 DEF Symbols, PairPkt, PairMod, CeilDiv
  <2>3. CASE len = 21
    BY <2>3 DEF Symbols, PairPkt, PairMod, CeilDiv
  <2>4. CASE len = 32
    BY <2>4 DEF Symbols, PairPkt, PairMod, CeilDiv
  <2>5. QED
    BY <2>1, <2>2, <2>3, <2>4
<1>4. PICK n \in 0..80 : n = Symbols(PairPkt(len), PairMod)
  BY <1>3
<1>5. time_on_air_in_ms(PairPkt(len), PairMod)
        = (1000 * ((4 * n + 1) * 32) + 125000 - 1) \div 125000
  BY <1>2, <1>4 DEF time_on_air_in_ms, time_on_air_numerator, CeilDiv, PairMod
<1>6. (1000 * ((4 * n + 1) * 32) + 125000 - 1) \div 125000 <= 200
  OBVIOUS
<1>7. time_on_air_in_ms(PairPkt(len), PairMod) \in Int
  BY <1>5
<1>8. QED
  BY <1>1, <1>5, <1>6, <1>7

\* The low data rate optimisation is on where the symbols are longer than 16 ms.
LEMMA OptimisedAsRequired ==
  /\ (PairMod.ldro = 1) = LdroRequired(PairMod)
  /\ (OperMod(Profile).ldro = 1) = LdroRequired(OperMod(Profile))
<1>1. /\ Pow2[5] = 32 /\ Pow2[8] = 256 /\ Pow2[9] = 512 /\ Pow2[10] = 1024
      /\ lora_bw_in_hz["BW_125"] = 125000 /\ lora_bw_in_hz["BW_062"] = 62500
      /\ lora_bw_in_hz["BW_250"] = 250000
  BY DEF Pow2, lora_bw_in_hz
<1>2. (PairMod.ldro = 1) = LdroRequired(PairMod)
  BY <1>1 DEF PairMod, LdroRequired
<1>3. CASE Profile = "SF11_BW125"
  BY <1>1, <1>2, <1>3 DEF OperMod, LdroRequired
<1>4. CASE Profile = "SF12_BW125"
  BY <1>1, <1>2, <1>4 DEF OperMod, LdroRequired
<1>5. CASE Profile = "SF11_BW62"
  BY <1>1, <1>2, <1>5 DEF OperMod, LdroRequired
<1>6. CASE Profile = "SF10_BW250"
  BY <1>1, <1>2, <1>6 DEF OperMod, LdroRequired
<1>7. QED
  BY <1>3, <1>4, <1>5, <1>6, LoopAssumption DEF Profiles

\* The timed RX outlasts the wait for an ON, fits the chip's timer, and interrupts before the
\* radio watchdog.
LEMMA WindowFits ==
  /\ 64 * RX_TIMEOUT_MS(Profile) > 64 * ACK_WAIT_ON_MS(Profile)
  /\ 64 * RX_TIMEOUT_MS(Profile) <= MAX_TIMEOUT_IN_RTC_STEP
  /\ 64 * RX_TIMEOUT_MS(Profile) + 64 * IDLE_DURATION_MS < 64 * REMOTE_WATCHDOG_MS
<1>1. OPER_TOA_MS(Profile) \in 200..1400
  BY LoopAssumption DEF OPER_TOA_MS, Profiles
<1>2. QED
  BY <1>1 DEF RX_TIMEOUT_MS, ACK_WAIT_ON_MS, MAX_TIMEOUT_IN_RTC_STEP, IDLE_DURATION_MS,
             REMOTE_WATCHDOG_MS

\* Whatever is on the air fits the time the program gives it, in every profile: TX_TIMEOUT_MS
\* never passes during a transmission, and RX ends before the radio watchdog would step in.
THEOREM AirtimeAlwaysFits == Spec => []AirtimeFits
<1>1. ASSUME IInv PROVE AirtimeFits
  <2>1. ASSUME ~cut, Bonded, chip.mode = "TX"
        PROVE  /\ time_on_air_in_ms(chip.pkt, chip.mod) <= OPER_TOA_MS(Profile)
               /\ (chip.mod.ldro = 1) = LdroRequired(chip.mod)
    <3>1. Settles(chip, radio_state, pairing_mode, Bonded)
      BY <1>1, <2>1, OnAirSettles DEF OnAir
    <3>2. CASE pairing_mode
      <4>1. chip.mod = PairMod /\ chip.pkt = PairPkt(chip.fifo) /\ chip.fifo \in {1, 5, 21, 32}
        BY <2>1, <3>1, <3>2 DEF Settles
      <4>2. QED
        BY <4>1, PairFramesFit, OptimisedAsRequired
    <3>3. CASE ~pairing_mode
      <4>1. chip.mod = OperMod(Profile) /\ chip.pkt = OperPkt
        BY <2>1, <3>1, <3>3 DEF Settles, OnChan
      <4>2. OperPkt = CommandPacket
        BY DEF OperPkt, CommandPacket
      <4>3. QED
        BY <4>1, <4>2, FramesFitProfiles, OptimisedAsRequired, LoopAssumption
    <3>4. QED
      BY <3>2, <3>3
  <2>2. ASSUME ~cut, Bonded, chip.mode = "RX"
        PROVE  chip.timer = 64 * RX_TIMEOUT_MS(Profile)
    BY <1>1, <2>2, OnAirSettles DEF OnAir, Settles
  <2>3. QED
    BY <2>1, <2>2, WindowFits DEF AirtimeFits
<1>2. QED
  BY <1>1, Invariance, PTL

\* Without a stall the watchdog timer never expires, and with one only in the three handlers
\* that OneStallIsSurvived names: for every pair of timeouts that leaves room for the pauses.
THEOREM StallsAreSurvived == Spec => []OneStallIsSurvived
<1>1. IInv => OneStallIsSurvived
  BY DEF IInv
<1>2. QED
  BY <1>1, Invariance, PTL

\* A low-battery alert with a good battery takes a lost transaction: the check is never made
\* while the transmitter pulls the voltage down.
THEOREM AlertsMeanFlat == Spec => []AlertMeansFlat
<1>1. IInv => AlertMeansFlat
  BY DEF IInv
<1>2. QED
  BY <1>1, Invariance, PTL

\* Only STATE_TX_SETUP leads from TX_SETUP to TX_WAIT.
LEMMA OnlyTxSetup ==
  ASSUME [Next]_vars, radio_state = "TX_SETUP", radio_state' = "TX_WAIT"
  PROVE  TxSetup
<1>1. radio_state' # radio_state
  OBVIOUS
<1>2. radio' # radio
  BY <1>1 DEF radio
<1>3. Next
  BY <1>1 DEF vars, radio
<1>4. /\ ~Reset /\ ~Wake /\ ~Sleep /\ ~WakeStatus /\ ~Press /\ ~Preempt
      /\ \A combo \in BOOLEAN : ~Boot(combo)
  BY <1>1 DEF Reset, Wake, Sleep, WakeStatus, Press, Preempt, KeyCommand, Boot, StartCommand,
     send_lora_data, Tuned, radio
<1>5. /\ ~IdleEnds /\ ~TxDone /\ ~TxTimedOut /\ ~RxSetup /\ ~RxTimedOut
      /\ ~RxNothing("RX_WAIT") /\ ~RxNothing("rx_error")
      /\ ~RxRsp /\ ~RxIgnored /\ ~RxAck /\ ~RxConfirm
  BY <1>1 DEF IdleEnds, TxDone, TxTimedOut, RxSetup, RxTimedOut, RxNothing, RxRsp, RxIgnored,
              RxAck, RxConfirm, RxFrame
<1>6. ~RadioWatchdog /\ ~Retry /\ ~GiveUp
  BY <1>1 DEF RadioWatchdog, Retry, GiveUp, send_lora_data, Tuned
<1>7. /\ ~ConfirmStatus /\ ~BootPrime /\ ~EnterPair /\ ~NoPeerAlert /\ ~PairSend /\ ~Revert
      /\ ~NoCheck /\ ~BatteryCheck
  BY <1>1 DEF ConfirmStatus, BootPrime, EnterPair, NoPeerAlert, PairSend, Revert, NoCheck,
              BatteryCheck, StartCommand, send_lora_data, Tuned, radio
<1>8. QED
  BY <1>3, <1>4, <1>5, <1>6, <1>7 DEF Next, Loop

\* What STATE_TX_SETUP arms if nothing stalls, whatever was lost before.
LEMMA RearmingStep ==
  ASSUME IInv, TxSetup, stalls' = stalls
  PROVE  /\ chip'.mode = "TX"
         /\ chip'.pkt = IF pairing_mode THEN PairPkt(tx_length) ELSE OperPkt
         /\ chip'.fifo = tx_length
         /\ 2 \notin chip'.iqPolarity
<1>1. Goes("radio", "watch") /\ RunOn("TX_SETUP", Sending(FramePkt, tx_length), chip) /\ Alive
  BY TxProgramSends DEF TxSetup, Run, RunOn
<1>2. Kept(dog, 105) /\ Hardware
  BY <1>1, AtRadio
<1>3. PICK d, e : Called(Sending(FramePkt, tx_length), d, e)
  BY <1>1, <1>2, SendingIsBus, CallStep
<1>4. ~Failed(d, e)
  BY <1>3 DEF Called
<1>5. QED
  BY <1>3, <1>4, FrameSent DEF FramePkt

\* A frame that is started without a stall goes out with the packet parameters, the length and
\* the IQ polarity of its channel, even after transactions have been lost.
THEOREM FramesAreRearmed == Spec => FrameIsRearmed
<1> DEFINE Rearms ==
      radio_state = "TX_SETUP" /\ radio_state' = "TX_WAIT" /\ stalls' = stalls =>
        /\ chip'.mode = "TX"
        /\ chip'.pkt = IF pairing_mode THEN PairPkt(tx_length) ELSE OperPkt
        /\ chip'.fifo = tx_length
        /\ 2 \notin chip'.iqPolarity
<1>1. IInv /\ [Next]_vars => Rearms
  BY OnlyTxSetup, RearmingStep
<1>2. IInv /\ [Next]_vars => [Rearms]_vars
  BY <1>1
<1>3. QED
  BY <1>2, Invariance, PTL DEF Spec, FrameIsRearmed
=============================================================================
