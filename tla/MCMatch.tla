------------------------------- MODULE MCMatch -------------------------------
(***************************************************************************)
(* Rounds of two frames that are played, a timeout for each team, and one  *)
(* command typed by hand.                                                  *)
(***************************************************************************)
EXTENDS Match
=============================================================================
