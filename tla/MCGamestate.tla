---------------------------- MODULE MCGamestate ----------------------------
(* Instances of Gamestate for TLC. *)
EXTENDS Gamestate

CONSTANT i1
MCIndices == {i1, CS_SYSTEMINFO}
=============================================================================
