------------------------------ MODULE Clients -------------------------------
(***************************************************************************)
(* The server's client slots: who gets one, whose packets reach which, and *)
(* when a slot is free again (server/sv_client.c, server/sv_main.c), with  *)
(* what the game is told of it.                                            *)
(*                                                                         *)
(* A player is one run of the client program: an address, the qport it     *)
(* drew, and a port on the address translating router, which may change.   *)
(* A packet is delivered at once or never.  Bots and a player on the       *)
(* server's own machine are left out; PRIMED stands for PRIMED and ACTIVE. *)
(***************************************************************************)
EXTENDS Integers, FiniteSets, FiniteSetsExt, Functions

CONSTANTS
  Players, Ip, Qport,  \* Ip[p], Qport[p]: the address and qport of player p
  Ports,               \* ports of an address translating router
  NoAddress,
  MaxClients,          \* sv.maxclients
  PrivateClients,      \* sv_privateClients
  Invited,             \* the players who know sv_privatePassword
  MaxClientsPerIP,     \* sv_maxclientsPerIP
  ReconnectLimit,      \* sv_reconnectlimit, in frames, as the next three
  ZombieTime,          \* sv_zombietime
  SilentTime,          \* the 4 seconds a new client has to answer
  Timeout,             \* sv_timeout
  TimeoutFrames,       \* the frames a client must be late before it is dropped
  InitialPort,         \* the ports the players start with
  MaxConnections,      \* bound: accepted connects
  MaxPackets,          \* bound: packets a player sends on one connection
  MaxUpsets            \* bound: router restarts, new maps and map_restarts

ASSUME ClientsAssumption ==
  /\ MaxClients \in Nat \ {0} /\ PrivateClients \in 0 .. MaxClients
  /\ {ReconnectLimit, ZombieTime, SilentTime, Timeout, TimeoutFrames} \subseteq Nat
  /\ {MaxConnections, MaxPackets, MaxUpsets} \subseteq Nat
  /\ InitialPort \in [Players -> Ports]
  /\ \A p, q \in Players : Ip[p] = Ip[q] /\ (Qport[p] = Qport[q] \/ InitialPort[p] = InitialPort[q])
                           => p = q

VARIABLES
  clients,  \* svs.clients
  game,     \* what this game was told last of a slot: n > 0, n connects;
            \* -n, n disconnects; 0, nothing
  players,
  history

vars == <<clients, game, players, history>>

Slots == 0 .. MaxClients - 1
Address(p) == [ip |-> Ip[p], port |-> players[p].port]
Forever == Max({ZombieTime, SilentTime, Timeout}) + 1

\* A slot set to zero and then given an address: lastConnectTime is 0, long ago.
\* holds: there may be queued fragments or an open download to free.
\* conn: the connection it was set up for (which of those accepted).
Zeroed(from, qport, conn) ==
  [ state |-> "FREE", address |-> from, qport |-> qport, conn |-> conn,
    justConnected |-> FALSE, silent |-> 0, sinceConnect |-> ReconnectLimit,
    timeoutCount |-> 0, incoming |-> 0, holds |-> FALSE ]

Live(cl) == cl.state \in {"CONNECTED", "PRIMED"}

Off(port) == [state |-> "off", port |-> port, challenge |-> 0, conn |-> 0, outgoing |-> 0]

Init ==
  /\ clients = [s \in Slots |-> Zeroed(NoAddress, NoAddress, 0)]
  /\ game = [s \in Slots |-> 0]
  /\ players = [p \in Players |-> Off(InitialPort[p])]
  /\ history = [ leaked |-> FALSE,  \* a slot was zeroed with something to free
                 ghosts |-> {},    \* connected by a new game after they were dropped
                 connects |-> 0, upsets |-> 0 ]

-----------------------------------------------------------------------------
(* Leaving *)

\* SV_FreeClient
FreeClient(cl) == [cl EXCEPT !.holds = FALSE]

\* SV_DropClient, of a client that is not a bot.
Drop(cl) == [FreeClient(cl) EXCEPT !.state = "ZOMBIE", !.justConnected = FALSE]

\* GAME_CLIENT_CONNECT, and n times GAME_CLIENT_DISCONNECT.
Connected(count) == IF count > 0 THEN count + 1 ELSE 1
Disconnected(count, n) == IF count > 0 THEN -n ELSE count - n

\* How often SV_DropClient tells the game that cl leaves.  The print and the
\* disconnect command it adds may fill the client's ring, which drops it again
\* inside (see ReliableCommands); a client without a gamestate is sent none.
Tellings(cl) == IF cl.state = "PRIMED" THEN {1, 2} ELSE {1}

\* All that is ever read of a free slot: its address and lastConnectTime.
Freed(cl) == [Zeroed(cl.address, cl.qport, 0) EXCEPT !.sinceConnect = cl.sinceConnect,
                                                     !.holds = cl.holds]

\* SV_DropClient for any reason of the server's or the game's, or because a
\* print that was for everyone fills the client's ring.
SV_DropClient(s) ==
  /\ Live(clients[s])
  /\ clients' = [clients EXCEPT ![s] = Drop(@)]
  /\ \E n \in Tellings(clients[s]) : game' = [game EXCEPT ![s] = Disconnected(@, n)]
  /\ UNCHANGED <<players, history>>

\* A new client that never sent a packet.
NoAnswer(cl) == cl.justConnected /\ cl.silent > SilentTime

\* Late for more than TimeoutFrames frames; this frame counts.
TimedOut(cl) == Live(cl) /\ cl.silent > Timeout /\ cl.timeoutCount >= TimeoutFrames

\* Mutant: the time of a zombie that was silent before is missed.
ZombieEndsExactly(cl) == cl.state = "ZOMBIE" /\ cl.silent = ZombieTime + 1

\* A zombie is heard no more: it ends ZombieTime after its last packet.
ZombieEnds(cl) == cl.state = "ZOMBIE" /\ cl.silent > ZombieTime

CheckTimeout(cl) ==
  IF ZombieEnds(cl) THEN Freed(cl)
  ELSE IF NoAnswer(cl) \/ TimedOut(cl) THEN Freed(Drop(cl))
  ELSE [cl EXCEPT !.timeoutCount = IF Live(cl) /\ cl.silent > Timeout THEN @ + 1 ELSE 0]

\* What the next frame finds.
Older(cl) ==
  [cl EXCEPT !.silent = IF cl.state = "FREE" \/ @ = Forever THEN @ ELSE @ + 1,
             !.sinceConnect = IF @ = ReconnectLimit THEN @ ELSE @ + 1]

\* svs.time grows by a frame, then SV_CheckTimeouts.
SV_Frame ==
  LET older == [s \in Slots |-> Older(clients[s])]
  IN  /\ clients' = [s \in Slots |-> CheckTimeout(older[s])]
      /\ \E n \in [Slots -> {1, 2}] :
           /\ \A s \in Slots : n[s] = 1 \/ (TimedOut(older[s]) /\ n[s] \in Tellings(older[s]))
           /\ game' = [s \in Slots |-> IF NoAnswer(older[s]) \/ TimedOut(older[s])
                                      THEN Disconnected(game[s], n[s]) ELSE game[s]]
      /\ UNCHANGED <<players, history>>

-----------------------------------------------------------------------------
(* Connecting *)

\* CL_Connect_f, then SV_GetChallenge and its answer.  The challenge is a
\* digest of the address with its port and of the period it was asked in.
SV_GetChallenge(p) ==
  /\ players[p].state \in {"off", "challenging"}
  /\ players' = [players EXCEPT ![p].state = "challenging", ![p].challenge = players[p].port]
  /\ UNCHANGED <<clients, game, history>>

\* A challenge of a period before the last is refused as well: here that is a
\* connect which does not arrive.
SV_VerifyChallenge(p) == players[p].challenge = players[p].port

TooManyConnections(p) ==
  Cardinality({s \in Slots : /\ clients[s].address # NoAddress
                             /\ clients[s].address.ip = Ip[p]
                             /\ Live(clients[s]) /\ ~clients[s].justConnected}) >= MaxClientsPerIP

SameAddress(p) == {s \in Slots : clients[s].address = Address(p)}

\* Only the first slot with the address counts.
TooSoon(p) ==
  SameAddress(p) # {} /\ clients[Min(SameAddress(p))].sinceConnect < ReconnectLimit

\* Mutant: the port alone tells reconnecting clients apart.
ReconnectingByAddress(p) == {s \in SameAddress(p) : clients[s].state # "FREE"}

\* Both qport and netport should match for a reconnecting client.
Reconnecting(p) == {s \in SameAddress(p) : clients[s].state # "FREE" /\ clients[s].qport = Qport[p]}

\* Where the player goes; nowhere when the server is full.  Of several free
\* slots the code takes the one free for longest, here it may be any.
SlotsFor(p) ==
  LET allowed == IF p \in Invited THEN Slots ELSE PrivateClients .. MaxClients - 1
      free == {s \in allowed : clients[s].state = "FREE"}
  IN  IF Reconnecting(p) # {} THEN {Min(Reconnecting(p))}
      ELSE IF SameAddress(p) # {} /\ Min(SameAddress(p)) \in free THEN {Min(SameAddress(p))}
      ELSE free

\* Mutant: the game is not told that the old connection is over.
ReconnectUntold(cl, count) == count

\* GAME_CLIENT_DISCONNECT of a slot that is connected again.
ReconnectTold(cl, count) == IF Live(cl) THEN Disconnected(count, 1) ELSE count

\* Mutant: what a connected client holds is forgotten.
ReconnectForgotten(cl) == cl

\* Nothing may be left to free when the slot is set to zero.
ReconnectFreed(cl) == IF Live(cl) THEN FreeClient(cl) ELSE cl

\* SV_DirectConnect; the game may deny, and connectResponse may be lost.
SV_DirectConnect(p) ==
  /\ players[p].state = "challenging" /\ history.connects < MaxConnections
  /\ ~TooManyConnections(p) /\ SV_VerifyChallenge(p) /\ ~TooSoon(p)
  /\ \E s \in SlotsFor(p), denied, answered \in BOOLEAN :
       LET told == ReconnectTold(clients[s], game[s])
           conn == history.connects + 1
           zeroed == Zeroed(Address(p), Qport[p], conn)
       IN  /\ history' = [history EXCEPT !.leaked = @ \/ ReconnectFreed(clients[s]).holds, !.connects = conn]
           /\ IF denied
              THEN /\ clients' = [clients EXCEPT ![s] = Freed(zeroed)]
                   /\ game' = [game EXCEPT ![s] = told]
                   /\ UNCHANGED players
              ELSE /\ clients' = [clients EXCEPT ![s] =
                        [zeroed EXCEPT !.state = "CONNECTED", !.sinceConnect = 0,
                                       !.justConnected = TRUE]]
                   /\ game' = [game EXCEPT ![s] = Connected(told)]
                   /\ players' = IF answered
                        THEN [players EXCEPT ![p].state = "connected", ![p].challenge = 0,
                                             ![p].conn = conn, ![p].outgoing = 0]
                        ELSE players

-----------------------------------------------------------------------------
(* Packets of connected players *)

\* The slots that would take a packet; Netchan_Process refuses old sequences.
Receivers(p, sequence) ==
  {s \in Slots : /\ clients[s].state # "FREE"
                 /\ clients[s].address.ip = Ip[p] /\ clients[s].qport = Qport[p]
                 /\ clients[s].incoming < sequence}

\* SV_ExecuteClientMessage.  The first message of a connected client brings the
\* gamestate, unless its rate is limited; commands are executed after that.
ExecuteClientMessage(cl, disconnect) ==
  LET heard == [cl EXCEPT !.silent = 0, !.justConnected = FALSE]
  IN  IF cl.state = "ZOMBIE" THEN {cl}
      ELSE IF cl.state = "CONNECTED" THEN {heard, [heard EXCEPT !.state = "PRIMED", !.holds = TRUE]}
      ELSE {IF disconnect THEN Drop(heard) ELSE heard}

Sent(p, sequence, over) ==
  players' = [players EXCEPT ![p] = IF over THEN Off(@.port) ELSE [@ EXCEPT !.outgoing = sequence]]

\* SV_PacketEvent.
SV_PacketEvent(p, disconnect) ==
  LET sequence == players[p].outgoing + 1
      receivers == Receivers(p, sequence)
      s == Min(receivers)
  IN  /\ players[p].state = "connected" /\ players[p].outgoing < MaxPackets
      /\ IF receivers = {}
         THEN \* an out of band disconnect; ignored by a client that has heard of the server
              /\ \E ignored \in BOOLEAN : Sent(p, sequence, disconnect \/ ~ignored)
              /\ UNCHANGED <<clients, game, history>>
         ELSE /\ \E cl \in ExecuteClientMessage(clients[s], disconnect) :
                   /\ clients' = [clients EXCEPT ![s] =
                        [cl EXCEPT !.incoming = sequence, !.address.port = players[p].port]]
                   /\ \E n \in Tellings(clients[s]) :
                        game' = [game EXCEPT ![s] = IF Live(clients[s]) /\ ~Live(cl)
                                                    THEN Disconnected(@, n) ELSE @]
              /\ Sent(p, sequence, disconnect)
              /\ UNCHANGED history

\* The client gives up, or dies, and nothing of it reaches the server.
Vanish(p) ==
  /\ players[p].state = "connected"
  /\ players' = [players EXCEPT ![p] = Off(@.port)]
  /\ UNCHANGED <<clients, game, history>>

\* The router restarts and assigns the ports of the players behind it anew.
Rebind(ip) ==
  /\ history.upsets < MaxUpsets
  /\ \E port \in [{p \in Players : Ip[p] = ip} -> Ports] :
       /\ IsInjective(port)
       /\ \E p \in DOMAIN port : port[p] # players[p].port
       /\ players' = [p \in Players |-> IF Ip[p] = ip THEN [players[p] EXCEPT !.port = port[p]]
                                        ELSE players[p]]
  /\ history' = [history EXCEPT !.upsets = @ + 1]
  /\ UNCHANGED <<clients, game>>

-----------------------------------------------------------------------------
(* A new game; to nobody connected it would make no difference *)

SomebodyLive == \E s \in Slots : Live(clients[s])

\* SV_SpawnServer: a new game connects the clients again, and may deny some.
SV_SpawnServer ==
  /\ history.upsets < MaxUpsets /\ SomebodyLive
  /\ \E denied \in SUBSET {s \in Slots : Live(clients[s])} :
     \E n \in [Slots -> {1, 2}] :
       /\ \A s \in Slots : n[s] = 1 \/ (s \in denied /\ n[s] \in Tellings(clients[s]))
       /\ clients' = [s \in Slots |->
            IF s \in denied THEN Drop(clients[s])
            ELSE IF Live(clients[s]) THEN [clients[s] EXCEPT !.state = "CONNECTED"]
            ELSE clients[s]]
       /\ game' = [s \in Slots |-> IF s \in denied THEN Disconnected(0, n[s])
                                  ELSE IF Live(clients[s]) THEN Connected(0) ELSE 0]
  /\ history' = [history EXCEPT !.upsets = @ + 1]
  /\ UNCHANGED players

\* SV_MapRestart_f: the clients stay as they are.  The command that tells a
\* client may overflow its ring, which drops it; the new game, which has just
\* been told so, is asked to connect it all the same.
SV_MapRestart_f ==
  /\ history.upsets < MaxUpsets /\ SomebodyLive
  /\ LET live == {s \in Slots : Live(clients[s])}
         sent == {s \in live : clients[s].state = "PRIMED"}
     IN  \E denied \in SUBSET live : \E overflowed \in SUBSET sent :
         \E n \in [Slots -> {1, 2}] :
           /\ \A s \in Slots : n[s] = 1 \/ s \in (denied \cap sent) \ overflowed
           /\ clients' = [s \in Slots |->
                IF s \in denied \cup overflowed THEN Drop(clients[s]) ELSE clients[s]]
           /\ game' = [s \in Slots |-> IF s \in live \ denied THEN Connected(0)
                                      ELSE IF s \in denied THEN Disconnected(0, n[s]) ELSE 0]
           /\ history' = [history EXCEPT !.upsets = @ + 1, !.ghosts = overflowed \ denied]
  /\ UNCHANGED players

\* SV_Shutdown, and a server that is started again: it knows no client and, its
\* secret being another, no challenge.
SV_Shutdown ==
  /\ history.upsets < MaxUpsets
  /\ history' = [history EXCEPT !.upsets = @ + 1, !.ghosts = {},
                  !.leaked = @ \/ \E s \in Slots : FreeClient(clients[s]).holds]
  /\ clients' = [s \in Slots |-> Zeroed(NoAddress, NoAddress, 0)]
  /\ game' = [s \in Slots |-> 0]
  /\ players' = [p \in Players |-> [players[p] EXCEPT !.challenge = 0]]

Next ==
  \/ SV_Frame \/ SV_SpawnServer \/ SV_MapRestart_f \/ SV_Shutdown
  \/ \E s \in Slots : SV_DropClient(s)
  \/ \E p \in Players : \/ SV_GetChallenge(p) \/ SV_DirectConnect(p)
                        \/ Vanish(p) \/ Rebind(Ip[p])
                        \/ \E disconnect \in BOOLEAN : SV_PacketEvent(p, disconnect)

Spec == Init /\ [][Next]_vars

\* The server runs its frames.
FairSpec == Spec /\ WF_vars(SV_Frame)

-----------------------------------------------------------------------------
(* Properties *)

Addresses == [ip : {Ip[p] : p \in Players}, port : Ports]
Client ==
  [ state : {"FREE", "ZOMBIE", "CONNECTED", "PRIMED"},
    address : Addresses \cup {NoAddress}, qport : {Qport[p] : p \in Players} \cup {NoAddress},
    conn : 0 .. MaxConnections, justConnected : BOOLEAN,
    silent : 0 .. Forever, sinceConnect : 0 .. ReconnectLimit, timeoutCount : 0 .. TimeoutFrames,
    incoming : 0 .. MaxPackets, holds : BOOLEAN ]

\* Every variable is what the code could hold, and only a client that is
\* connected is waited for or holds anything that has to be freed.
TypeOK ==
  /\ clients \in [Slots -> Client]
  /\ \A s \in Slots : clients[s].justConnected \/ clients[s].holds => Live(clients[s])
  /\ game \in [Slots -> Int]
  /\ players \in [Players -> [state : {"off", "challenging", "connected"}, port : Ports,
                               challenge : Ports \cup {0}, conn : 0 .. MaxConnections,
                               outgoing : 0 .. MaxPackets]]

\* The game knows exactly the clients that are connected: it was told of each
\* once, and of one that left no more than twice (a drop inside the drop).  No
\* path into or out of a slot forgets the game, but for a map_restart whose own
\* command overflows a client.
GameAgrees ==
  \A s \in Slots \ history.ghosts :
    IF Live(clients[s]) THEN game[s] = 1 ELSE game[s] \in -2 .. 0

\* When SV_DirectConnect sets a slot to zero, its queued fragments and its
\* download were freed before.
NothingLeaks == ~history.leaked

\* Types, and that what a slot holds is freed on every way out of it
\* (SV_FreeClient).
SlotsInv == TypeOK /\ NothingLeaks

\* A player who was given a slot and still sends is not pushed out of it by the
\* connect of another: while it is connected a slot changes its qport never.
NobodyIsPushedOut ==
  [][\A s \in Slots : Live(clients[s]) /\ Live(clients'[s]) =>
       clients'[s].qport = clients[s].qport /\ clients'[s].address.ip = clients[s].address.ip]_vars

\* The slot of a connection that has ended for either side.
Ended(s) ==
  /\ clients[s].state # "FREE"
  /\ clients[s].state = "ZOMBIE" \/ \A p \in Players : players[p].conn # clients[s].conn

\* The server always comes to a time without such slots, even when nobody told
\* it, when the answer to the connect was lost, and when a player goes on
\* sending to a zombie: slots do not run out for good.
SlotsComeFree == []<>(\A s \in Slots : ~Ended(s))
=============================================================================
