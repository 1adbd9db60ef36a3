------------------------------- MODULE Keypad -------------------------------
(***************************************************************************)
(* The three keys: the boot combo of setup(), debouncing, STA as a         *)
(* modifier, the loops that wait for a key to be let go, and sleep.        *)
(* (button.h, lowPow.h, and setup() up to the start of the radio.)         *)
(*                                                                         *)
(* The user presses and releases keys at any time, also while the program  *)
(* blocks.  Sets of keys stand for the arrays of button.h.  A key that     *)
(* reads as it did in the previous pass may or may not have done so for    *)
(* debounceDelay.  How a command is answered is left to CommandLink, and   *)
(* how a pairing goes to Pairing.                                          *)
(***************************************************************************)
EXTENDS Naturals, FiniteSets

VARIABLES
  pc,
  down,              \* keys that are down
  \* button.h
  last, stable,      \* lastButtonStates, buttonStates: the keys read as LOW
  staActive, staConsumed,
  hold,              \* the key whose release is awaited, and the command it gives
  \* states.h
  buttonEn, msgTxd, lastTx,
  \* lowPow.h
  late,              \* LP_TIMEOUT_MS have passed since the last lowPowerKick()
  wkup,              \* lp_wkup_stbTx
  \* .ino, pairRemoteNode.h
  bootRepair, pairing, confirm,
  \* History: STA was up since the five seconds of the combo; STA went down while it was
  \* disabled; a light command was given since STA went down.
  letGo, missed, chord

keys    == <<last, stable, staActive, staConsumed, missed, chord>>
command == <<buttonEn, msgTxd, lastTx>>
sleep   == <<late, wkup>>
boot    == <<bootRepair, letGo>>
tick    == <<pairing, confirm>>
vars    == <<pc, down, keys, hold, command, sleep, boot, tick>>

Keys  == {"ON", "OFF", "STA"}
Motor == [ON |-> "M1_ON", OFF |-> "M1_OFF"]
Light == [ON |-> "RELAY_ON", OFF |-> "RELAY_OFF"]
Lights == {"RELAY_ON", "RELAY_OFF"}
Cmds  == {"M1_ON", "M1_OFF", "STATUS"} \cup Lights
None  == [key |-> "NONE", cmd |-> "NONE"]

Goes(from, to) == pc = from /\ pc' = to

lowPowerKick == late' = FALSE

\* A key may be held, and a remote left alone, for LP_TIMEOUT_MS.
TimePasses == late' \in {late, TRUE}

remTxButtonCmd(cmd) ==
  /\ buttonEn' = buttonEn \ {"ON", "STA"}
  /\ lastTx' = cmd /\ msgTxd' = TRUE

-----------------------------------------------------------------------------
(* The user.                                                               *)

\* Asleep, the falling edge of STA wakes the MCU; awake, its interrupt does nothing.
Key(k) ==
  /\ down' = IF k \in down THEN down \ {k} ELSE down \cup {k}
  /\ pc' = IF pc = "asleep" /\ k = "STA" /\ k \notin down THEN "wake" ELSE pc
  /\ letGo' = (letGo \/ (k = "STA" /\ k \in down))
  /\ UNCHANGED <<keys, hold, command, sleep, bootRepair, tick>>

-----------------------------------------------------------------------------
(* setup(): M1_OFF and STA for 5 s, then STA again within 3 s.             *)

Combo == {"OFF", "STA"} \subseteq down

BootStep(from, to) ==
  /\ Goes(from, to)
  /\ UNCHANGED <<down, keys, hold, command, sleep, tick>>

BootCombo == BootStep("boot", IF Combo THEN "hold5" ELSE "start") /\ UNCHANGED boot
LetGoEarly == ~Combo /\ BootStep("hold5", "start") /\ UNCHANGED boot
Held5s == Combo /\ BootStep("hold5", "confirm") /\ letGo' = FALSE /\ UNCHANGED bootRepair
ConfirmPress == "STA" \in down /\ BootStep("confirm", "confirmed") /\ UNCHANGED boot
ConfirmTimeout == BootStep("confirm", "start") /\ UNCHANGED boot
Confirmed ==
  /\ "STA" \notin down /\ BootStep("confirmed", "start")
  /\ bootRepair' = TRUE /\ UNCHANGED letGo

\* A paired remote has its keys enabled; a new one and one that re-pairs look for a
\* starter with STA alone.
Start ==
  /\ Goes("start", "poll")
  /\ pairing' \in {bootRepair, TRUE} /\ confirm' = FALSE
  /\ buttonEn' = IF pairing' THEN {"STA"} ELSE Keys
  /\ lowPowerKick
  /\ UNCHANGED <<down, keys, hold, msgTxd, lastTx, wkup, boot>>

-----------------------------------------------------------------------------
(* lowPowerPoll(), enterSleep().                                           *)

StayAwake ==
  /\ Goes("poll", "scan") /\ ~late
  /\ UNCHANGED <<down, keys, hold, command, sleep, boot, tick>>

\* Up to sleep_cpu().
enterSleep ==
  /\ Goes("poll", "dozing") /\ late
  /\ msgTxd' = FALSE /\ wkup' = FALSE
  /\ UNCHANGED <<down, keys, hold, buttonEn, lastTx, late, boot, tick>>

\* A STA that went down since the decision has already had its interrupt.
SleepCpu ==
  /\ Goes("dozing", "asleep")
  /\ UNCHANGED <<down, keys, hold, command, sleep, boot, tick>>

\* Mutant: the press that woke the remote is not remembered.
OwesStatus_No == wkup' = FALSE

OwesStatus == wkup' = TRUE

WakeUp ==
  /\ Goes("wake", "scan")
  /\ buttonEn' = Keys /\ OwesStatus /\ lowPowerKick
  /\ UNCHANGED <<down, keys, hold, msgTxd, lastTx, boot, tick>>

-----------------------------------------------------------------------------
(* hwbuttonFunc().                                                         *)

WakeIsDue == wkup /\ ~msgTxd /\ "STA" \in buttonEn

WakeScan ==
  /\ Goes("scan", "hold") /\ WakeIsDue
  /\ hold' = [key |-> "STA", cmd |-> "STATUS"]
  /\ wkup' = FALSE /\ lowPowerKick
  /\ UNCHANGED <<down, keys, command, boot, tick>>

\* The command that key i gives when its falling edge is seen, if any: with STA as a
\* modifier, a STOP that pre-empts all but a light command, a START on an idle link.
Given(i, active, pending, cmd, enabled) ==
  {c \in Cmds :
     \/ active /\ ~pending /\ c = Light[i]
     \/ /\ ~active /\ i \in enabled /\ c = Motor[i]
        /\ pending => i = "OFF" /\ cmd \notin Lights}

\* The first of ON, OFF that gives a command blocks until it is let go.  Then `break`:
\* the other's edge is lost.
MotorKeys(edgeLow, active, pending, cmd, enabled) ==
  LET Of(i) == IF i \in edgeLow THEN Given(i, active, pending, cmd, enabled) ELSE {}
      first == IF Of("ON") # {} THEN "ON" ELSE "OFF"
  IN  IF Of(first) = {} THEN pc' = "radio" /\ UNCHANGED hold
      ELSE pc' = "hold" /\ \E c \in Of(first) : hold' = [key |-> first, cmd |-> c]

\* Every key is debounced first.  `old` are the keys that have read the same for
\* debounceDelay.
Scan(old) ==
  LET edge     == {k \in old : (k \in down) # (k \in stable)}
      edgeLow  == edge \cap down
      edgeHigh == edge \ down
      press    == "STA" \in edgeLow /\ "STA" \in buttonEn
      active   == staActive \/ press
      consumed == staConsumed /\ ~press
      up       == "STA" \in edgeHigh
      tap      == up /\ active /\ ~consumed /\ "STA" \in buttonEn /\ ~msgTxd
  IN
  /\ pc = "scan" /\ ~WakeIsDue
  /\ old \subseteq {k \in Keys : (k \in down) = (k \in last)}
  /\ wkup' = FALSE
  /\ last' = down /\ stable' = (stable \ edgeHigh) \cup edgeLow
  /\ staActive' = (active /\ ~up) /\ staConsumed' = (consumed /\ ~up)
  /\ IF tap THEN remTxButtonCmd("STATUS") ELSE UNCHANGED command
  /\ MotorKeys(edgeLow, staActive', msgTxd', lastTx', buttonEn')
  /\ IF press \/ tap \/ pc' = "hold" THEN lowPowerKick
     ELSE IF msgTxd \/ pairing THEN UNCHANGED late ELSE TimePasses
  /\ missed' = (~up /\ (missed \/ ("STA" \in edgeLow /\ ~press)))
  /\ chord' = (chord /\ "STA" \notin edgeLow)
  /\ UNCHANGED <<down, boot, tick>>

\* Mutant: the modifier stays active over a sleep.
KeysAfterWake_Active == last' = {} /\ stable' = {} /\ UNCHANGED <<staActive, staConsumed>>

\* The STATUS of a wake-up forgets what the keys did.
KeysAfterWake == last' = {} /\ stable' = {} /\ staActive' = FALSE /\ staConsumed' = FALSE

\* Mutant: a light command does not use up the press of STA.
KeysAfterLight_Kept == UNCHANGED <<last, stable, staActive, staConsumed>>

KeysAfterLight == staConsumed' = TRUE /\ UNCHANGED <<last, stable, staActive>>

\* Mutant: the command stays behind after the key has been let go.
Released_Kept == hold.key \notin down /\ UNCHANGED hold

Released == hold.key \notin down /\ hold' = None

HoldEnds ==
  /\ Goes("hold", "radio") /\ Released
  /\ \/ /\ hold.cmd = "STATUS"
        /\ KeysAfterWake /\ missed' = FALSE /\ UNCHANGED chord
     \/ /\ hold.cmd \in Lights
        /\ KeysAfterLight /\ chord' = TRUE /\ UNCHANGED missed
     \/ /\ hold.cmd \in {"M1_ON", "M1_OFF"}
        /\ UNCHANGED keys
  /\ remTxButtonCmd(hold.cmd)
  /\ TimePasses
  /\ UNCHANGED <<down, wkup, boot, tick>>

-----------------------------------------------------------------------------
(* The rest of loop().                                                     *)

\* Any valid RSP re-opens the three keys, and so does the give-up.
Settled == msgTxd' = FALSE /\ buttonEn' = Keys /\ UNCHANGED lastTx

\* An answer, or the frame that completes a pairing (pairRemNodeCommit()).
Radio ==
  /\ Goes("radio", "ack")
  /\ \/ UNCHANGED <<command, tick>>
     \/ msgTxd /\ Settled /\ UNCHANGED tick
     \/ /\ pairing /\ pairing' = FALSE /\ confirm' = TRUE
        /\ buttonEn' = Keys /\ UNCHANGED <<msgTxd, lastTx>>
  /\ UNCHANGED <<down, keys, hold, sleep, boot>>

\* Mutant: a pending command does not keep the remote awake.
AckKick_Never == UNCHANGED late

AckKick == lowPowerKick

ackReception ==
  /\ Goes("ack", "tick")
  /\ IF ~msgTxd THEN UNCHANGED <<command, late>>
     ELSE AckKick /\ (UNCHANGED command \/ Settled)
  /\ UNCHANGED <<down, keys, hold, wkup, boot, tick>>

\* The STATUS that follows a pairing.
ConfirmStatus ==
  IF confirm /\ ~msgTxd THEN remTxButtonCmd("STATUS") /\ confirm' = FALSE
  ELSE UNCHANGED <<command, confirm>>

\* A pairing keeps the remote awake, until it goes back to the previous peer.
pairRemNodeTick ==
  /\ Goes("tick", "poll")
  /\ \/ ~pairing /\ ConfirmStatus /\ UNCHANGED <<late, pairing>>
     \/ pairing /\ lowPowerKick /\ UNCHANGED <<command, tick>>
     \/ /\ pairing /\ pairing' = FALSE /\ lowPowerKick
        /\ buttonEn' = Keys /\ UNCHANGED <<msgTxd, lastTx, confirm>>
  /\ UNCHANGED <<down, keys, hold, wkup, boot>>

-----------------------------------------------------------------------------
Init ==
  /\ pc = "boot" /\ down \in SUBSET Keys
  /\ last = {} /\ stable = {} /\ staActive = FALSE /\ staConsumed = FALSE
  /\ hold = None
  /\ buttonEn = {"STA"} /\ msgTxd = FALSE /\ lastTx = "NONE"
  /\ late = FALSE /\ wkup = FALSE
  /\ bootRepair = FALSE /\ pairing = FALSE /\ confirm = FALSE
  /\ letGo = TRUE /\ missed = FALSE /\ chord = FALSE

Setup ==
  \/ BootCombo \/ LetGoEarly \/ Held5s
  \/ ConfirmPress \/ ConfirmTimeout \/ Confirmed
  \/ Start

Loop ==
  \/ Setup
  \/ StayAwake \/ enterSleep \/ SleepCpu \/ WakeUp
  \/ WakeScan \/ (\E old \in SUBSET Keys : Scan(old)) \/ HoldEnds
  \/ Radio \/ ackReception \/ pairRemNodeTick

Next == Loop \/ \E k \in Keys : Key(k)

\* The program runs on; a key that it waits for is let go, for long enough to be seen.
Fairness ==
  /\ WF_vars(Loop) /\ SF_vars(HoldEnds)
  /\ \A k \in Keys : WF_vars(k \in down /\ Key(k))

Spec == Init /\ [][Next]_vars /\ Fairness
-----------------------------------------------------------------------------
(* Properties.                                                             *)

TypeOK ==
  /\ pc \in {"boot", "hold5", "confirm", "confirmed", "start", "poll", "scan", "hold",
             "radio", "ack", "tick", "dozing", "asleep", "wake"}
  /\ down \subseteq Keys /\ last \subseteq Keys /\ stable \subseteq Keys
  /\ staActive \in BOOLEAN /\ staConsumed \in BOOLEAN
  /\ hold \in {None} \cup [key : Keys, cmd : Cmds]
  /\ (hold # None) = (pc = "hold")
  /\ buttonEn \subseteq Keys /\ msgTxd \in BOOLEAN /\ lastTx \in Cmds \cup {"NONE"}
  /\ late \in BOOLEAN /\ wkup \in BOOLEAN
  /\ bootRepair \in BOOLEAN /\ pairing \in BOOLEAN /\ confirm \in BOOLEAN
  /\ letGo \in BOOLEAN /\ missed \in BOOLEAN /\ chord \in BOOLEAN

\* button.h, 18: "a motor STOP only ever fires when STA is NOT held, and a light action
\* only ever fires when STA IS held".  So it is, as far as debouncing can tell, with one
\* exception: a STA that went down while it was disabled does not count as held.
ChordMeansHeld ==
  /\ hold.cmd \in Lights => "STA" \in stable
  /\ hold.cmd \in {"M1_ON", "M1_OFF"} => "STA" \notin stable \/ missed

\* One press of STA gives light commands or, when it is released, a STATUS, and never
\* both ("A lone STA tap still sends STATUS").
ChordOrTap ==
  [][ pc = "scan" /\ ~msgTxd /\ msgTxd' => ~chord ]_vars

\* enterSleep() cancels no motor or light command: each keeps the remote awake until it is
\* settled, even one given by a key that was held for longer than LP_TIMEOUT_MS.  (The
\* STATUS after a pairing can be lost: it starts after ackReception(), and such a key may
\* have been let go in the same pass.)
SleepDropsNothing ==
  [][ pc = "poll" /\ pc' = "dozing" => ~msgTxd \/ lastTx = "STATUS" ]_vars

\* "the STATUS TX is never lost": a STA press that wakes the remote is answered with a
\* STATUS, whatever happens to the keys while the radio is initialised.
WakeAnswers == (pc = "wake") ~> (msgTxd /\ lastTx = "STATUS")

\* button.h, 106: "pressing OFF while an ON/STATUS awaits its ACK abandons that wait and
\* TXes M1_OFF immediately -- stop always wins".  An OFF that is seen to go down with STA
\* not held and no light command pending leads to a STOP.
StopAlwaysWins ==
  [][ /\ pc = "scan" /\ "OFF" \in stable' \ stable
      /\ ~staActive' /\ "OFF" \in buttonEn
      /\ ~(msgTxd' /\ lastTx' \in Lights)
      => pc' = "hold" /\ hold'.cmd = "M1_OFF" ]_vars

\* .ino, 36: "After the 5 s hold, release both buttons, then press STA once within 3 s to
\* CONFIRM"; "prevents a single unintended long-press ... from accidentally wiping the
\* pairing".  A re-pairing is entered only if STA was let go in between.
OneLongPressIsHarmless == pc = "confirmed" => letGo
=============================================================================
