--------------------------- MODULE MCCommandLink ---------------------------
(***************************************************************************)
(* CommandLink for TLC.  One time unit is half the air time of a frame     *)
(* (about 660 ms); the windows keep the order and, where it matters, the   *)
(* proportions of the code's.                                              *)
(***************************************************************************)
EXTENDS CommandLink

=============================================================================
