------------------------------ MODULE MCClients -----------------------------
(* Instances of Clients for TLC. *)
EXTENDS Clients

CONSTANTS a, b, home

\* Two players behind one router.
MCPlayers == {a, b}
MCIp == [p \in MCPlayers |-> home]
MCQport == [p \in MCPlayers |-> p]
MCPorts == 1 .. 2
MCInitialPort == [p \in MCPlayers |-> IF p = a THEN 1 ELSE 2]
=============================================================================
