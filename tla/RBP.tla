--------------------------------- MODULE RBP ---------------------------------
(***************************************************************************)
(* The vocabulary of the Remote Binary Protocol v2 (zSettings.h, and the   *)
(* keypad of states.h): what the remote can ask, what the starter can      *)
(* answer, and the three keys.  A frame carries no sequence number and no  *)
(* echo, so a reply is nothing but a status.                               *)
(***************************************************************************)

\* REM_CMD_* codes.
MotorCmd == {"M1_ON", "M1_OFF"}
LightCmd == {"RELAY_ON", "RELAY_OFF"}
Cmd      == MotorCmd \cup LightCmd \cup {"STATUS"}

\* REM_STA_* codes.
Status == {"OFF", "ON", "BLK_BYPASS", "BLK_VFAULT", "FAULT"}

\* The indices 0, 1, 2 of buttonEn[].
Keys == {"M1_ON", "M1_OFF", "STA"}

\* Every key enabled: what boot, pairing, an answer, a give-up and a wake all
\* write into buttonEn[].
AllEnabled == [k \in Keys |-> TRUE]

=============================================================================
