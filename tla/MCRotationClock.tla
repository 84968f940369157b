--------------------------- MODULE MCRotationClock ---------------------------
(* Instantiates RotationClock: three cores, one of them an indracore, a   *)
(* rotation every 3 blocks, an indracore period shorter than a rotation   *)
(* and an indrabase period longer than one, over 10 blocks.               *)
EXTENDS RotationClock
=============================================================================
