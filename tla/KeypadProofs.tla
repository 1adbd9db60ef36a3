----------------------------- MODULE KeypadProofs -----------------------------
(***************************************************************************)
(* Theorems about the keys: STA as a modifier, and commands and sleep.     *)
(***************************************************************************)
EXTENDS Keypad, TLAPS

\* The program remembers STA as a modifier from the edge it has seen until the opposite
\* one; a STA that is down without being a modifier was missed; and one that has given a
\* light command is used up.
Modifier ==
  /\ staActive => "STA" \in stable
  /\ "STA" \in stable /\ ~staActive => missed
  /\ chord /\ staActive => staConsumed

\* ackReception() has kept a remote with a pending command awake, and only the STATUS
\* after a pairing starts between it and the decision to sleep.
Awake ==
  pc \in {"tick", "poll"} /\ msgTxd /\ late => lastTx = "STATUS"

IInv == TypeOK /\ Modifier /\ ChordMeansHeld /\ Awake

LEMMA InvInit == Init => IInv
<1> SUFFICES ASSUME Init PROVE IInv
  OBVIOUS
<1>1. TypeOK
  BY DEF Init, TypeOK, None, Keys, Cmds
<1>2. Modifier /\ Awake
  BY DEF Init, Modifier, Awake
<1>3. ChordMeansHeld
  BY DEF Init, ChordMeansHeld, None, Lights
<1>4. QED
  BY <1>1, <1>2, <1>3 DEF IInv

\* Steps in which neither the keys nor the awaited one change.
LEMMA InvOther ==
  ASSUME IInv,
         \/ \E k \in Keys : Key(k)
         \/ Setup \/ StayAwake \/ enterSleep \/ SleepCpu \/ WakeUp
         \/ Radio \/ ackReception \/ pairRemNodeTick \/ UNCHANGED vars
  PROVE  IInv'
<1>1. UNCHANGED <<keys, hold>>
  BY DEF Key, Setup, BootCombo, LetGoEarly, Held5s, ConfirmPress, ConfirmTimeout, Confirmed,
         BootStep, Start, StayAwake, enterSleep, SleepCpu, WakeUp, Radio, ackReception,
         pairRemNodeTick, vars
<1>2. Modifier' /\ ChordMeansHeld'
  BY <1>1 DEF IInv, Modifier, ChordMeansHeld, keys
<1>3. last' \subseteq Keys /\ stable' \subseteq Keys /\ staActive' \in BOOLEAN
      /\ staConsumed' \in BOOLEAN /\ missed' \in BOOLEAN /\ chord' \in BOOLEAN
      /\ hold' \in {None} \cup [key : Keys, cmd : Cmds]
  BY <1>1 DEF IInv, TypeOK, keys
<1>4. CASE \E k \in Keys : Key(k)
  BY <1>1, <1>2, <1>3, <1>4
  DEF Key, IInv, TypeOK, Awake, command, sleep, tick
<1>5. CASE Setup
  <2>1. CASE Start
    BY <1>1, <1>2, <1>3, <2>1
    DEF Start, Goes, lowPowerKick, IInv, TypeOK, Awake, Keys, boot
  <2>2. CASE ~Start
    <3>1. /\ pc \in {"boot", "hold5", "confirm", "confirmed"}
          /\ pc' \in {"hold5", "confirm", "confirmed", "start"}
          /\ UNCHANGED <<down, keys, hold, command, sleep, tick>>
      BY <1>5, <2>2
      DEF Setup, BootCombo, LetGoEarly, Held5s, ConfirmPress, ConfirmTimeout, Confirmed,
          BootStep, Goes
    <3>2. bootRepair' \in BOOLEAN /\ letGo' \in BOOLEAN
      BY <1>5, <2>2
      DEF Setup, BootCombo, LetGoEarly, Held5s, ConfirmPress, ConfirmTimeout, Confirmed,
          IInv, TypeOK, boot
    <3>3. hold' = None /\ pc' # "hold" /\ down' \subseteq Keys
      BY <1>1, <3>1 DEF IInv, TypeOK
    <3>4. /\ buttonEn' \subseteq Keys /\ msgTxd' \in BOOLEAN /\ lastTx' \in Cmds \cup {"NONE"}
          /\ late' \in BOOLEAN /\ wkup' \in BOOLEAN
          /\ pairing' \in BOOLEAN /\ confirm' \in BOOLEAN
      BY <3>1 DEF IInv, TypeOK, command, sleep, tick
    <3>5. TypeOK'
      BY <1>3, <3>1, <3>2, <3>3, <3>4 DEF TypeOK
    <3>6. Awake'
      BY <3>1 DEF Awake
    <3>7. QED
      BY <1>2, <3>5, <3>6 DEF IInv
  <2>3. QED
    BY <2>1, <2>2
<1>6. CASE StayAwake \/ enterSleep \/ SleepCpu \/ WakeUp
  <2>1. /\ pc \in {"poll", "dozing", "wake"} /\ pc' \in {"scan", "dozing", "asleep"}
        /\ UNCHANGED <<down, hold, lastTx, boot, tick>>
    BY <1>6 DEF StayAwake, enterSleep, SleepCpu, WakeUp, Goes, command
  <2>2. /\ buttonEn' \subseteq Keys /\ msgTxd' \in BOOLEAN
        /\ late' \in BOOLEAN /\ wkup' \in BOOLEAN
    BY <1>6
    DEF StayAwake, enterSleep, SleepCpu, WakeUp, OwesStatus, lowPowerKick, IInv, TypeOK,
        command, sleep
  <2>3. TypeOK'
    BY <1>3, <2>1, <2>2 DEF IInv, TypeOK, boot, tick
  <2>4. QED
    BY <1>2, <2>1, <2>3 DEF IInv, Awake
<1>7. CASE Radio \/ ackReception
  <2>1. /\ pc \in {"radio", "ack"} /\ pc' \in {"ack", "tick"}
        /\ UNCHANGED <<down, hold, lastTx, wkup, boot>>
    BY <1>7 DEF Radio, ackReception, Settled, Goes, command, sleep
  <2>2. /\ buttonEn' \subseteq Keys /\ msgTxd' \in BOOLEAN
        /\ pairing' \in BOOLEAN /\ confirm' \in BOOLEAN
    BY <1>7 DEF Radio, ackReception, Settled, IInv, TypeOK, command, tick
  <2>3. late' \in BOOLEAN
    BY <1>7 DEF Radio, ackReception, AckKick, lowPowerKick, IInv, TypeOK, sleep
  <2>4. TypeOK'
    BY <1>3, <2>1, <2>2, <2>3 DEF IInv, TypeOK, boot
  <2>5. Awake'
    <3>1. CASE Radio
      BY <3>1 DEF Radio, Goes, Awake
    <3>2. CASE ackReception
      BY <3>2 DEF ackReception, Settled, AckKick, lowPowerKick, IInv, TypeOK, command, Awake
    <3>3. QED
      BY <1>7, <3>1, <3>2
  <2>6. QED
    BY <1>2, <2>4, <2>5 DEF IInv
<1>8. CASE pairRemNodeTick
  <2>1. /\ pc = "tick" /\ pc' = "poll" /\ UNCHANGED <<down, hold, wkup, boot>>
        /\ late' \in {FALSE, late}
    BY <1>8 DEF pairRemNodeTick, lowPowerKick, Goes
  <2>2. /\ buttonEn' \subseteq Keys /\ msgTxd' \in BOOLEAN /\ lastTx' \in Cmds \cup {"NONE"}
        /\ pairing' \in BOOLEAN /\ confirm' \in BOOLEAN
    BY <1>8
    DEF pairRemNodeTick, ConfirmStatus, remTxButtonCmd, IInv, TypeOK, command, tick, Cmds
  <2>3. TypeOK'
    BY <1>3, <2>1, <2>2 DEF IInv, TypeOK, boot
  <2>4. msgTxd' /\ late' => lastTx' = "STATUS"
    <3>1. CASE ~pairing
      BY <1>8, <2>1, <3>1
      DEF pairRemNodeTick, ConfirmStatus, remTxButtonCmd, IInv, Awake, command
    <3>2. CASE pairing
      BY <1>8, <3>2 DEF pairRemNodeTick, lowPowerKick
    <3>3. QED
      BY <3>1, <3>2
  <2>5. QED
    BY <1>2, <2>3, <2>4 DEF IInv, Awake
<1>9. CASE UNCHANGED vars
  BY <1>1, <1>2, <1>3, <1>9 DEF vars, IInv, TypeOK, Awake, boot, command, sleep, tick
<1>10. QED
  BY <1>4, <1>5, <1>6, <1>7, <1>8, <1>9

\* A wake-up asks for a STATUS.
LEMMA InvWakeScan ==
  ASSUME IInv, WakeScan
  PROVE  IInv'
<1>1. hold' \in [key : Keys, cmd : Cmds] /\ hold' # None /\ hold'.cmd = "STATUS"
  BY DEF WakeScan, Keys, Cmds, None
<1>2. QED
  BY <1>1
  DEF WakeScan, WakeIsDue, Goes, lowPowerKick, IInv, TypeOK, Modifier, ChordMeansHeld, Awake,
      Lights, keys, command, boot, tick

\* The key has been let go, and its command is sent.
LEMMA InvHoldEnds ==
  ASSUME IInv, HoldEnds
  PROVE  IInv'
<1>1. /\ pc = "hold" /\ pc' = "radio" /\ hold' = None
      /\ hold \in [key : Keys, cmd : Cmds]
      /\ remTxButtonCmd(hold.cmd) /\ TimePasses
      /\ UNCHANGED <<down, wkup, boot, tick>>
  BY DEF HoldEnds, Released, Goes, IInv, TypeOK
<1>2. hold.cmd \in Cmds
  BY <1>1
<1>3. Modifier'
  BY DEF HoldEnds, KeysAfterWake, KeysAfterLight, IInv, Modifier, keys
<1>4. /\ last' \subseteq Keys /\ stable' \subseteq Keys /\ staActive' \in BOOLEAN
      /\ staConsumed' \in BOOLEAN /\ missed' \in BOOLEAN /\ chord' \in BOOLEAN
  BY DEF HoldEnds, KeysAfterWake, KeysAfterLight, IInv, TypeOK, keys
<1>5. ChordMeansHeld' /\ Awake'
  BY <1>1 DEF ChordMeansHeld, Awake, None, Lights
<1>6. QED
  BY <1>1, <1>2, <1>3, <1>4, <1>5
  DEF remTxButtonCmd, TimePasses, IInv, TypeOK, boot, tick

\* A light command needs the modifier, a motor command its absence.
LEMMA GivenMeans ==
  ASSUME NEW i \in {"ON", "OFF"}, NEW active, NEW pending, NEW cmd, NEW enabled,
         NEW c \in Given(i, active, pending, cmd, enabled)
  PROVE  /\ c \in Cmds
         /\ c \in Lights => active
         /\ c \in {"M1_ON", "M1_OFF"} => ~active
BY DEF Given, Light, Motor, Lights

LEMMA InvScan ==
  ASSUME IInv, NEW old \in SUBSET Keys, Scan(old)
  PROVE  IInv'
<1> DEFINE edge     == {k \in old : (k \in down) # (k \in stable)}
           edgeLow  == edge \cap down
           edgeHigh == edge \ down
           press    == "STA" \in edgeLow /\ "STA" \in buttonEn
           active   == staActive \/ press
           consumed == staConsumed /\ ~press
           up       == "STA" \in edgeHigh
           tap      == up /\ active /\ ~consumed /\ "STA" \in buttonEn /\ ~msgTxd
<1>1. /\ last' = down /\ stable' = (stable \ edgeHigh) \cup edgeLow
      /\ staActive' = (active /\ ~up) /\ staConsumed' = (consumed /\ ~up)
      /\ missed' = (~up /\ (missed \/ ("STA" \in edgeLow /\ ~press)))
      /\ chord' = (chord /\ "STA" \notin edgeLow)
      /\ pc = "scan" /\ wkup' = FALSE /\ UNCHANGED <<down, boot, tick>>
  BY DEF Scan
<1>2. IF tap THEN remTxButtonCmd("STATUS") ELSE UNCHANGED command
  BY DEF Scan
<1>3. MotorKeys(edgeLow, staActive', msgTxd', lastTx', buttonEn')
  BY DEF Scan
<1>4. late' \in BOOLEAN
  BY DEF Scan, lowPowerKick, TimePasses, IInv, TypeOK
<1>5. Modifier'
  BY <1>1 DEF IInv, Modifier
<1>6. /\ last' \subseteq Keys /\ stable' \subseteq Keys /\ staActive' \in BOOLEAN
      /\ staConsumed' \in BOOLEAN /\ missed' \in BOOLEAN /\ chord' \in BOOLEAN
  BY <1>1 DEF IInv, TypeOK
<1>7. buttonEn' \subseteq Keys /\ msgTxd' \in BOOLEAN /\ lastTx' \in Cmds \cup {"NONE"}
  BY <1>2 DEF remTxButtonCmd, command, IInv, TypeOK, Cmds
<1>8. \/ pc' = "radio" /\ UNCHANGED hold
      \/ /\ pc' = "hold"
         /\ \E i \in {"ON", "OFF"}, c \in Cmds :
              /\ c \in Given(i, staActive', msgTxd', lastTx', buttonEn')
              /\ hold' = [key |-> i, cmd |-> c]
  BY <1>3 DEF MotorKeys, Given
<1>9. CASE pc' = "radio" /\ UNCHANGED hold
  <2>1. hold' = None
    BY <1>1, <1>9 DEF IInv, TypeOK
  <2>2. ChordMeansHeld' /\ Awake'
    BY <1>9, <2>1 DEF ChordMeansHeld, Awake, None, Lights
  <2>3. QED
    BY <1>1, <1>4, <1>5, <1>6, <1>7, <1>9, <2>1, <2>2 DEF IInv, TypeOK, boot, tick
<1>10. CASE /\ pc' = "hold"
            /\ \E i \in {"ON", "OFF"}, c \in Cmds :
                 /\ c \in Given(i, staActive', msgTxd', lastTx', buttonEn')
                 /\ hold' = [key |-> i, cmd |-> c]
  <2>1. PICK i \in {"ON", "OFF"}, c \in Cmds :
          /\ c \in Given(i, staActive', msgTxd', lastTx', buttonEn')
          /\ hold' = [key |-> i, cmd |-> c]
    BY <1>10
  <2>2. hold' \in [key : Keys, cmd : Cmds] /\ hold' # None /\ hold'.cmd = c
    BY <2>1 DEF Keys, None, Cmds, Lights
  <2>3. /\ c \in Lights => staActive'
        /\ c \in {"M1_ON", "M1_OFF"} => ~staActive'
    BY <2>1, GivenMeans
  <2>4. ChordMeansHeld' /\ Awake'
    BY <1>5, <1>10, <2>2, <2>3 DEF ChordMeansHeld, Modifier, Awake
  <2>5. QED
    BY <1>1, <1>4, <1>5, <1>6, <1>7, <1>10, <2>2, <2>4 DEF IInv, TypeOK, boot, tick
<1>11. QED
  BY <1>8, <1>9, <1>10

LEMMA InvStep == IInv /\ [Next]_vars => IInv'
BY InvOther, InvWakeScan, InvHoldEnds, InvScan DEF Next, Loop

LEMMA Inductive == Spec => []IInv
BY InvInit, InvStep, PTL DEF Spec

\* The variables keep their types.
THEOREM TypeCorrect == Spec => []TypeOK
<1>1. IInv => TypeOK
  BY DEF IInv
<1>2. QED
  BY <1>1, Inductive, PTL

\* A light command is only given with STA down, a motor command only with STA up, or
\* down unseen.
THEOREM LightsNeedSta == Spec => []ChordMeansHeld
<1>1. IInv => ChordMeansHeld
  BY DEF IInv
<1>2. QED
  BY <1>1, Inductive, PTL

\* A press of STA that has given a light command gives no STATUS.
THEOREM ChordsAreNoTaps == Spec => ChordOrTap
<1>1. IInv /\ [Next]_vars => [pc = "scan" /\ ~msgTxd /\ msgTxd' => ~chord]_vars
  <2> SUFFICES ASSUME IInv, Next, pc = "scan", ~msgTxd, msgTxd'
               PROVE  ~chord
    OBVIOUS
  <2>1. PICK old \in SUBSET Keys : Scan(old)
    BY DEF Next, Loop, Key, Setup, BootCombo, LetGoEarly, Held5s, ConfirmPress,
           ConfirmTimeout, Confirmed, BootStep, Start, StayAwake, enterSleep, SleepCpu, WakeUp,
           WakeScan, HoldEnds, Radio, ackReception, pairRemNodeTick, Goes, command
  <2> DEFINE edge     == {k \in old : (k \in down) # (k \in stable)}
             edgeLow  == edge \cap down
             edgeHigh == edge \ down
             press    == "STA" \in edgeLow /\ "STA" \in buttonEn
  <2>2. "STA" \in edgeHigh /\ (staActive \/ press) /\ ~(staConsumed /\ ~press)
    BY <2>1 DEF Scan, command
  <2>3. "STA" \notin edgeLow
    BY <2>2
  <2>4. staActive /\ ~staConsumed
    BY <2>2, <2>3
  <2>5. QED
    BY <2>4 DEF IInv, Modifier
<1>2. QED
  BY <1>1, Inductive, PTL DEF Spec, ChordOrTap

\* The remote does not fall asleep over a motor or light command.
THEOREM SleepWaits == Spec => SleepDropsNothing
<1>1. IInv /\ [Next]_vars => [pc = "poll" /\ pc' = "dozing" => ~msgTxd \/ lastTx = "STATUS"]_vars
  <2> SUFFICES ASSUME IInv, Next, pc = "poll", pc' = "dozing"
               PROVE  ~msgTxd \/ lastTx = "STATUS"
    OBVIOUS
  <2>1. enterSleep
    BY DEF Next, Loop, Key, Setup, BootCombo, LetGoEarly, Held5s, ConfirmPress,
           ConfirmTimeout, Confirmed, BootStep, Start, StayAwake, SleepCpu, WakeUp,
           WakeScan, Scan, HoldEnds, Radio, ackReception, pairRemNodeTick, Goes
  <2>2. QED
    BY <2>1 DEF enterSleep, IInv, Awake
<1>2. QED
  BY <1>1, Inductive, PTL DEF Spec, SleepDropsNothing

=============================================================================
