---------------------------- MODULE CommandSession ----------------------------
(***************************************************************************)
(* What the command link promises to the person holding the remote, free   *)
(* of radio states, timers and interrupts.                                 *)
(*                                                                         *)
(* At most one command is pending.  It is transmitted once and repeated at *)
(* most MaxRetries times; it ends either with an answer that was sent      *)
(* after the key was pressed, or with the no-network tone after the last   *)
(* repetition.  STOP may take the place of a pending motor or status       *)
(* command, nothing may take the place of STOP but STOP itself, and an     *)
(* answer that still says "running" does not end a STOP.                   *)
(***************************************************************************)
EXTENDS Integers, RBP

CONSTANT MaxRetries          \* repetitions of one command before giving up, in Nat

VARIABLES
  pending,   \* the command in flight, or "NONE"
  tries,     \* how often it has been repeated
  reply      \* the intact answer to it that waits in the radio, or "NONE"

session == <<pending, tries, reply>>

SessionInit == pending = "NONE" /\ tries = 0 /\ reply = "NONE"

\* A command may start on an idle link; STOP may also start over a pending
\* command, except a light command.
MayStart(c) ==
  \/ pending = "NONE"
  \/ c = "M1_OFF" /\ pending \notin LightCmd

Start(c) ==
  /\ MayStart(c)
  /\ pending' = c
  /\ tries' = 0
  /\ reply' = "NONE"

\* An answer is received, or the radio loses one nobody has read yet.
Hear(s) == reply' = s /\ UNCHANGED <<pending, tries>>
Lose    == reply' = "NONE" /\ UNCHANGED <<pending, tries>>

Ends(s) == ~(pending = "M1_OFF" /\ s = "ON")

Answered ==
  /\ pending # "NONE"
  /\ reply # "NONE" /\ Ends(reply)
  /\ pending' = "NONE" /\ tries' = 0 /\ reply' = "NONE"

Repeat ==
  /\ pending # "NONE"
  /\ tries < MaxRetries
  /\ tries' = tries + 1
  /\ UNCHANGED <<pending, reply>>

NoNetwork ==
  /\ pending # "NONE"
  /\ tries = MaxRetries
  /\ pending' = "NONE" /\ tries' = 0 /\ reply' = "NONE"

SessionNext ==
  \/ \E c \in Cmd : Start(c)
  \/ \E s \in Status : Hear(s)
  \/ Lose \/ Answered \/ Repeat \/ NoNetwork

SessionSpec == SessionInit /\ [][SessionNext]_session

=============================================================================
