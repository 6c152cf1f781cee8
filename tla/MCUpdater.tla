------------------------------ MODULE MCUpdater ------------------------------
(* Instances of Updater for TLC. *)
EXTENDS Updater

CONSTANTS exe, dll, updater

MCFiles == {exe, dll, updater}
MCInstalled == {exe, updater}
\* The first update adds a file, the second leaves it alone.
MCPackage == <<{exe, dll, updater}, {exe, updater}, {exe, dll, updater}>>
=============================================================================
