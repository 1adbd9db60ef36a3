----------------------------- MODULE MCPairing -----------------------------
(***************************************************************************)
(* Pairing for TLC: two starters, whose sync words differ in both bytes,   *)
(* and windows that keep the order of the code's.                          *)
(***************************************************************************)
EXTENDS Pairing

MCSyncWord ==
  [s \in Starters |-> IF s \in Legacy THEN DefaultSync
                     ELSE IF s = "A" THEN <<"a1", "a2">> ELSE <<"b1", "b2">>]

=============================================================================
