----------------------------- MODULE GameProofs -----------------------------
(***************************************************************************)
(* What is proved of the game's clients and of its matches.                *)
(*                                                                         *)
(* The clients, for any number of slots, players and routers: the game     *)
(* knows exactly who is connected, what a slot holds is freed on every way *)
(* out of it, and no connect takes a slot from a player who is in it.      *)
(*                                                                         *)
(* A match, for any lengths, however many timeouts and whatever is typed:  *)
(* its clock, the account of timeouts, their length, the recording of its  *)
(* round, and that no round begins after its countdown was given up.       *)
(***************************************************************************)
EXTENDS Clients, Match, SequenceTheorems, WellFoundedInduction, TLAPS

-----------------------------------------------------------------------------
(* Natural numbers *)

\* Every set of natural numbers has a least one; this stands for induction.
LEMMA LeastNatural ==
  ASSUME NEW S, S \subseteq Nat, S # {}
  PROVE  \E n \in S : \A m \in S : n <= m
<1>1. PICK n \in S : \A m \in S : ~(<<m, n>> \in OpToRel(<, Nat))
  BY NatLessThanWellFounded, WFMin
<1>2. \A m \in S : ~(m < n) BY <1>1 DEF OpToRel
<1> QED BY <1>2

-----------------------------------------------------------------------------
(* The inductive invariant *)

\* A slot.  Only a client that is connected holds anything; all but the free
\* slots have the address of a player.
ClientInv(cl) ==
  /\ cl \in Client
  /\ cl.justConnected \/ cl.holds => Live(cl)
  /\ cl.state # "FREE" => cl.address \in Addresses

Player ==
  [ state : {"off", "challenging", "connected"}, port : Ports,
    challenge : Ports \cup {0}, conn : 0 .. MaxConnections, outgoing : 0 .. MaxPackets ]

\* Nothing has leaked.
HistoryInv(h) ==
  h \in [leaked : {FALSE}, ghosts : SUBSET Slots, connects : 0 .. MaxConnections, upsets : Nat]

\* What the game was told of a slot agrees with the slot, unless it is a ghost's.
Told(cl, count) == IF Live(cl) THEN count = 1 ELSE count \in -2 .. 0

IInv ==
  /\ clients \in [Slots -> Client]
  /\ \A s \in Slots : ClientInv(clients[s])
  /\ game \in [Slots -> Int]
  /\ \A s \in Slots \ history.ghosts : Told(clients[s], game[s])
  /\ players \in [Players -> Player]
  /\ HistoryInv(history)

\* The player in a slot, as long as there is one.
Stays(cl, d) ==
  Live(cl) /\ Live(d) => d.qport = cl.qport /\ d.address.ip = cl.address.ip

-----------------------------------------------------------------------------
(* One slot *)

LEMMA ForeverType == Forever \in Nat /\ Forever # 0
<1> DEFINE S == {ZombieTime, SilentTime, Timeout}
<1>1. \E m \in S : \A n \in S : m >= n
  BY ClientsAssumption
<1>2. Max(S) \in S
  BY <1>1 DEF Max
<1> QED BY <1>2, ClientsAssumption DEF Forever

LEMMA MinOfSlots ==
  ASSUME NEW S, S \subseteq Slots, S # {}
  PROVE  Min(S) \in S
<1>1. S \subseteq Nat
  BY ClientsAssumption DEF Slots
<1>2. \E n \in S : \A m \in S : n <= m
  BY <1>1, LeastNatural
<1> QED BY <1>2 DEF Min

\* A slot that is set to zero.
LEMMA ZeroedInv ==
  ASSUME NEW from \in Addresses \cup {NoAddress},
         NEW qport \in {Qport[p] : p \in Players} \cup {NoAddress},
         NEW conn \in 0 .. MaxConnections
  PROVE  /\ ClientInv(Zeroed(from, qport, conn))
         /\ ~Live(Zeroed(from, qport, conn))
<1>1. 0 \in 0 .. Forever /\ 0 \in 0 .. TimeoutFrames /\ 0 \in 0 .. MaxPackets
      /\ ReconnectLimit \in 0 .. ReconnectLimit
  BY ForeverType, ClientsAssumption
<1> QED BY <1>1 DEF ClientInv, Client, Zeroed, Live

LEMMA DropInv ==
  ASSUME NEW cl, ClientInv(cl), Live(cl)
  PROVE  /\ ClientInv(Drop(cl)) /\ ~Live(Drop(cl)) /\ ~Drop(cl).holds
         /\ Drop(cl).address = cl.address /\ Drop(cl).qport = cl.qport
BY DEF ClientInv, Client, Drop, FreeClient, Live

LEMMA FreedInv ==
  ASSUME NEW cl \in Client, ~cl.holds
  PROVE  /\ ClientInv(Freed(cl)) /\ ~Live(Freed(cl))
         /\ Freed(cl).address = cl.address /\ Freed(cl).qport = cl.qport
<1>1. 0 \in 0 .. Forever /\ 0 \in 0 .. TimeoutFrames /\ 0 \in 0 .. MaxPackets
      /\ 0 \in 0 .. MaxConnections
  BY ForeverType, ClientsAssumption
<1> QED BY <1>1 DEF ClientInv, Client, Zeroed, Freed, Live

LEMMA OlderInv ==
  ASSUME NEW cl, ClientInv(cl)
  PROVE  /\ ClientInv(Older(cl)) /\ (Live(Older(cl)) <=> Live(cl))
         /\ Older(cl).address = cl.address /\ Older(cl).qport = cl.qport
<1> DEFINE n == IF cl.state = "FREE" \/ cl.silent = Forever THEN cl.silent ELSE cl.silent + 1
           m == IF cl.sinceConnect = ReconnectLimit THEN cl.sinceConnect ELSE cl.sinceConnect + 1
<1>1. cl.silent \in 0 .. Forever /\ cl.sinceConnect \in 0 .. ReconnectLimit
  BY DEF ClientInv, Client
<1>2. n \in 0 .. Forever /\ m \in 0 .. ReconnectLimit
  BY <1>1, ForeverType, ClientsAssumption
<1>3. cl \in Client
  BY DEF ClientInv
<1>4. Older(cl) = [cl EXCEPT !.silent = n, !.sinceConnect = m]
  BY <1>3 DEF Older, Client
<1> HIDE DEF n, m
<1>5. Older(cl) \in Client
  BY <1>2, <1>3, <1>4 DEF Client
<1> QED BY <1>3, <1>4, <1>5 DEF ClientInv, Live, Client

\* A slot that is let go was either a zombie's, which holds nothing, or has
\* been dropped before.
LEMMA CheckTimeoutInv ==
  ASSUME NEW cl, ClientInv(cl)
  PROVE  /\ ClientInv(CheckTimeout(cl))
         /\ Live(CheckTimeout(cl)) <=> Live(cl) /\ ~NoAnswer(cl) /\ ~TimedOut(cl)
         /\ CheckTimeout(cl).address = cl.address /\ CheckTimeout(cl).qport = cl.qport
<1> DEFINE n == IF Live(cl) /\ cl.silent > Timeout THEN cl.timeoutCount + 1 ELSE 0
<1>1. cl \in Client
  BY DEF ClientInv
<1>2. CASE ZombieEnds(cl)
  <2>1. ~Live(cl) /\ ~cl.holds
    BY <1>1, <1>2 DEF ZombieEnds, Live, ClientInv, Client
  <2> QED BY <1>1, <1>2, <2>1, FreedInv DEF CheckTimeout
<1>3. CASE ~ZombieEnds(cl) /\ (NoAnswer(cl) \/ TimedOut(cl))
  <2>1. Live(cl)
    BY <1>3 DEF NoAnswer, TimedOut, ClientInv
  <2>2. /\ Drop(cl) \in Client /\ ~Drop(cl).holds
        /\ Drop(cl).address = cl.address /\ Drop(cl).qport = cl.qport
    BY <2>1, DropInv DEF ClientInv
  <2> QED BY <1>3, <2>2, FreedInv DEF CheckTimeout
<1>4. CASE ~ZombieEnds(cl) /\ ~NoAnswer(cl) /\ ~TimedOut(cl)
  <2>1. cl.timeoutCount \in 0 .. TimeoutFrames /\ TimeoutFrames \in Nat
    BY <1>1, ClientsAssumption DEF Client
  <2>2. n \in 0 .. TimeoutFrames
    BY <1>4, <2>1 DEF TimedOut
  <2>3. CheckTimeout(cl) = [cl EXCEPT !.timeoutCount = n]
    BY <1>1, <1>4 DEF CheckTimeout, Client
  <2> HIDE DEF n
  <2>4. CheckTimeout(cl) \in Client
    BY <1>1, <2>2, <2>3 DEF Client
  <2> QED BY <1>1, <1>4, <2>3, <2>4 DEF ClientInv, Live, Client
<1> QED BY <1>2, <1>3, <1>4

\* A message of a client leaves it where it is, or drops it.
LEMMA ExecuteClientMessageInv ==
  ASSUME NEW cl, ClientInv(cl), cl.state # "FREE", NEW disconnect \in BOOLEAN,
         NEW d \in ExecuteClientMessage(cl, disconnect)
  PROVE  /\ ClientInv(d) /\ d.state # "FREE" /\ (Live(d) => Live(cl))
         /\ d.address = cl.address /\ d.qport = cl.qport
<1> DEFINE heard == [cl EXCEPT !.silent = 0, !.justConnected = FALSE]
<1>1. cl \in Client /\ 0 \in 0 .. Forever
  BY ForeverType DEF ClientInv
<1>2. /\ heard \in Client /\ heard.state = cl.state /\ heard.holds = cl.holds
      /\ heard.address = cl.address /\ heard.qport = cl.qport /\ ~heard.justConnected
  BY <1>1 DEF Client
<1>3. ClientInv(heard)
  BY <1>2 DEF ClientInv, Live
<1>4. \/ cl.state = "ZOMBIE" /\ d = cl
      \/ cl.state = "CONNECTED" /\ d = heard
      \/ cl.state = "CONNECTED" /\ d = [heard EXCEPT !.state = "PRIMED", !.holds = TRUE]
      \/ cl.state = "PRIMED" /\ d = Drop(heard)
      \/ cl.state = "PRIMED" /\ d = heard
  BY <1>1 DEF ExecuteClientMessage, Client
<1> HIDE DEF heard
<1>5. CASE cl.state = "ZOMBIE" /\ d = cl
  BY <1>5
<1>6. CASE cl.state \in {"CONNECTED", "PRIMED"} /\ d = heard
  BY <1>2, <1>3, <1>6 DEF Live
<1>7. CASE cl.state = "CONNECTED" /\ d = [heard EXCEPT !.state = "PRIMED", !.holds = TRUE]
  <2>1. /\ d \in Client /\ d.state = "PRIMED" /\ d.address = cl.address /\ d.qport = cl.qport
    BY <1>2, <1>7 DEF Client
  <2> QED BY <1>1, <1>7, <2>1 DEF ClientInv, Live
<1>8. CASE cl.state = "PRIMED" /\ d = Drop(heard)
  <2>1. Live(heard)
    BY <1>2, <1>8 DEF Live
  <2>2. d.state = "ZOMBIE"
    BY <1>2, <1>8 DEF Drop, FreeClient, Client
  <2> QED BY <1>2, <1>3, <1>8, <2>1, <2>2, DropInv DEF Live
<1> QED BY <1>4, <1>5, <1>6, <1>7, <1>8

-----------------------------------------------------------------------------
(* Every step *)

AllStay == \A s \in Slots : Stays(clients[s], clients'[s])

LEMMA AddressType ==
  ASSUME IInv, NEW p \in Players
  PROVE  /\ Address(p) \in Addresses /\ Address(p).ip = Ip[p]
         /\ Qport[p] \in {Qport[q] : q \in Players}
BY DEF IInv, Player, Address, Addresses

LEMMA InitInv == Init => IInv
<1> SUFFICES ASSUME Init PROVE IInv
  OBVIOUS
<1>1. 0 \in 0 .. MaxConnections /\ 0 \in 0 .. MaxPackets
  BY ClientsAssumption
<1>2. ClientInv(Zeroed(NoAddress, NoAddress, 0)) /\ ~Live(Zeroed(NoAddress, NoAddress, 0))
  BY <1>1, ZeroedInv
<1>3. players \in [Players -> Player]
  BY <1>1, ClientsAssumption DEF Init, Off, Player
<1>4. HistoryInv(history)
  BY <1>1 DEF Init, HistoryInv
<1> QED BY <1>2, <1>3, <1>4 DEF Init, IInv, ClientInv, Told

\* A router restart, a new map or a map_restart is counted.
LEMMA Upset ==
  ASSUME NEW h, HistoryInv(h), NEW ghosts \in SUBSET Slots
  PROVE  /\ HistoryInv([h EXCEPT !.upsets = @ + 1])
         /\ [h EXCEPT !.upsets = @ + 1].ghosts = h.ghosts
         /\ HistoryInv([h EXCEPT !.upsets = @ + 1, !.ghosts = ghosts])
         /\ [h EXCEPT !.upsets = @ + 1, !.ghosts = ghosts].ghosts = ghosts
<1> DEFINE n == h.upsets + 1
<1>1. h \in [leaked : {FALSE}, ghosts : SUBSET Slots, connects : 0 .. MaxConnections, upsets : Nat]
  BY DEF HistoryInv
<1>2. n \in Nat
  BY <1>1
<1>3. /\ [h EXCEPT !.upsets = @ + 1] = [h EXCEPT !.upsets = n]
      /\ [h EXCEPT !.upsets = @ + 1, !.ghosts = ghosts] = [h EXCEPT !.upsets = n, !.ghosts = ghosts]
  BY <1>1
<1> HIDE DEF n
<1> QED BY <1>1, <1>2, <1>3 DEF HistoryInv

\* A step that changes one slot and the game's count of it.
LEMMA OneSlot ==
  ASSUME IInv, NEW s \in Slots, NEW d, NEW count \in Int,
         ClientInv(d), Stays(clients[s], d), s \notin history.ghosts => Told(d, count),
         clients' = [clients EXCEPT ![s] = d], game' = [game EXCEPT ![s] = count],
         players' \in [Players -> Player],
         HistoryInv(history'), history'.ghosts = history.ghosts
  PROVE  IInv' /\ AllStay
<1>1. \A t \in Slots : /\ clients'[t] = IF t = s THEN d ELSE clients[t]
                       /\ game'[t] = IF t = s THEN count ELSE game[t]
  BY DEF IInv
<1>2. clients' \in [Slots -> Client] /\ game' \in [Slots -> Int]
  BY DEF IInv, ClientInv
<1>3. \A t \in Slots : ClientInv(clients'[t])
  BY <1>1 DEF IInv
<1>4. \A t \in Slots \ history'.ghosts : Told(clients'[t], game'[t])
  BY <1>1 DEF IInv
<1>5. AllStay
  BY <1>1 DEF AllStay, Stays
<1> QED BY <1>2, <1>3, <1>4, <1>5 DEF IInv

\* A step that changes neither the slots nor what the game knows of them.
LEMMA NoSlot ==
  ASSUME IInv, UNCHANGED <<clients, game>>, players' \in [Players -> Player],
         HistoryInv(history'), history'.ghosts = history.ghosts
  PROVE  IInv' /\ AllStay
BY DEF IInv, AllStay, Stays

\* GAME_CLIENT_DISCONNECT, once or twice, of a client the game knows.
LEMMA DisconnectedIs ==
  ASSUME NEW cl, NEW count \in Int, NEW n \in {1, 2}, Live(cl)
  PROVE  /\ Disconnected(count, n) \in Int /\ Disconnected(0, n) \in -2 .. 0
         /\ Told(cl, count) => Disconnected(count, n) \in -2 .. 0
BY DEF Disconnected, Told

LEMMA TellingsType ==
  ASSUME NEW cl, NEW n \in Tellings(cl)
  PROVE  n \in {1, 2}
BY DEF Tellings

LEMMA SV_DropClientStep ==
  ASSUME IInv, NEW s \in Slots, SV_DropClient(s)
  PROVE  IInv' /\ AllStay
<1>1. ClientInv(clients[s]) /\ Live(clients[s])
  BY DEF IInv, SV_DropClient
<1>2. ClientInv(Drop(clients[s])) /\ ~Live(Drop(clients[s]))
  BY <1>1, DropInv
<1>3. PICK n \in Tellings(clients[s]) :
        /\ clients' = [clients EXCEPT ![s] = Drop(clients[s])]
        /\ game' = [game EXCEPT ![s] = Disconnected(game[s], n)]
  BY DEF SV_DropClient, IInv
<1> DEFINE count == Disconnected(game[s], n)
<1>5. count \in Int /\ (s \notin history.ghosts => Told(Drop(clients[s]), count))
  BY <1>1, <1>2, DisconnectedIs, TellingsType DEF IInv, Told
<1> HIDE DEF count
<1>6. game' = [game EXCEPT ![s] = count]
  BY <1>3 DEF count
<1>4. players' \in [Players -> Player] /\ HistoryInv(history') /\ history' = history
  BY DEF SV_DropClient, IInv
<1> QED BY <1>2, <1>3, <1>4, <1>5, <1>6, OneSlot DEF Stays

LEMMA SV_FrameStep ==
  ASSUME IInv, SV_Frame
  PROVE  IInv' /\ AllStay
<1> DEFINE older == [s \in Slots |-> Older(clients[s])]
<1>1. \A s \in Slots :
        /\ ClientInv(older[s]) /\ (Live(older[s]) <=> Live(clients[s]))
        /\ older[s].address = clients[s].address /\ older[s].qport = clients[s].qport
  BY OlderInv DEF IInv
<1>2. PICK n \in [Slots -> {1, 2}] :
        /\ clients' = [s \in Slots |-> CheckTimeout(older[s])]
        /\ game' = [s \in Slots |-> IF NoAnswer(older[s]) \/ TimedOut(older[s])
                                    THEN Disconnected(game[s], n[s]) ELSE game[s]]
        /\ UNCHANGED <<players, history>>
  BY DEF SV_Frame
<1> HIDE DEF older
<1>3. \A s \in Slots :
        /\ ClientInv(clients'[s])
        /\ Live(clients'[s]) <=> Live(older[s]) /\ ~NoAnswer(older[s]) /\ ~TimedOut(older[s])
        /\ clients'[s].address = older[s].address /\ clients'[s].qport = older[s].qport
  BY <1>1, <1>2, CheckTimeoutInv
<1>4. ASSUME NEW s \in Slots
      PROVE  game'[s] \in Int /\ (s \notin history.ghosts => Told(clients'[s], game'[s]))
  <2>1. /\ game[s] \in Int /\ n[s] \in {1, 2}
        /\ s \notin history.ghosts => Told(clients[s], game[s])
    BY DEF IInv
  <2>2. CASE NoAnswer(older[s]) \/ TimedOut(older[s])
    <3>1. game'[s] = Disconnected(game[s], n[s])
      BY <1>2, <2>2
    <3>2. Live(older[s])
      BY <1>1, <2>2 DEF NoAnswer, TimedOut, ClientInv
    <3>3. Live(clients[s]) /\ ~Live(clients'[s])
      BY <1>1, <1>3, <2>2, <3>2
    <3> QED BY <2>1, <3>1, <3>3, DisconnectedIs DEF Told
  <2>3. CASE ~(NoAnswer(older[s]) \/ TimedOut(older[s]))
    <3>1. game'[s] = game[s] /\ (Live(clients'[s]) <=> Live(clients[s]))
      BY <1>1, <1>2, <1>3, <2>3
    <3> QED BY <2>1, <3>1 DEF Told
  <2> QED BY <2>2, <2>3
<1>5. clients' \in [Slots -> Client] /\ game' \in [Slots -> Int]
  BY <1>2, <1>3, <1>4 DEF ClientInv
<1>6. AllStay
  BY <1>1, <1>3 DEF AllStay, Stays
<1> QED BY <1>2, <1>3, <1>4, <1>5, <1>6 DEF IInv

LEMMA SV_GetChallengeStep ==
  ASSUME IInv, NEW p \in Players, SV_GetChallenge(p)
  PROVE  IInv' /\ AllStay
<1>1. players' \in [Players -> Player]
  BY DEF IInv, SV_GetChallenge, Player
<1> QED BY <1>1, NoSlot DEF SV_GetChallenge, IInv

LEMMA VanishStep ==
  ASSUME IInv, NEW p \in Players, Vanish(p)
  PROVE  IInv' /\ AllStay
<1>1. 0 \in 0 .. MaxConnections /\ 0 \in 0 .. MaxPackets
  BY ClientsAssumption
<1>2. players' \in [Players -> Player]
  BY <1>1 DEF IInv, Vanish, Off, Player
<1> QED BY <1>2, NoSlot DEF Vanish, IInv

LEMMA RebindStep ==
  ASSUME IInv, NEW ip, Rebind(ip)
  PROVE  IInv' /\ AllStay
<1>1. PICK port \in [{p \in Players : Ip[p] = ip} -> Ports] :
        players' = [p \in Players |-> IF Ip[p] = ip THEN [players[p] EXCEPT !.port = port[p]]
                                      ELSE players[p]]
  BY DEF Rebind
<1>2. \A p \in Players : players'[p] \in Player
  BY <1>1 DEF IInv, Player
<1>3. players' \in [Players -> Player]
  BY <1>1, <1>2
<1>4. HistoryInv(history') /\ history'.ghosts = history.ghosts
  BY Upset DEF IInv, Rebind
<1> QED BY <1>3, <1>4, NoSlot DEF Rebind

LEMMA SameAddressSlots ==
  ASSUME NEW p \in Players, SameAddress(p) # {}
  PROVE  Min(SameAddress(p)) \in SameAddress(p)
BY MinOfSlots DEF SameAddress

\* A connect gets a free slot, or one its own player is in.
LEMMA SlotsForFree ==
  ASSUME IInv, NEW p \in Players, NEW s \in SlotsFor(p)
  PROVE  /\ s \in Slots
         /\ Live(clients[s]) => clients[s].qport = Qport[p] /\ clients[s].address = Address(p)
<1> DEFINE allowed == IF p \in Invited THEN Slots ELSE PrivateClients .. MaxClients - 1
           free == {t \in allowed : clients[t].state = "FREE"}
<1>1. allowed \subseteq Slots
  BY ClientsAssumption DEF Slots
<1>2. CASE Reconnecting(p) # {}
  <2>1. Reconnecting(p) \subseteq Slots
    BY DEF Reconnecting, SameAddress
  <2>2. s = Min(Reconnecting(p)) /\ s \in Reconnecting(p)
    BY <1>2, <2>1, MinOfSlots DEF SlotsFor
  <2> QED BY <2>2 DEF Reconnecting, SameAddress
<1>3. CASE Reconnecting(p) = {}
  <2>1. s \in free
    BY <1>3 DEF SlotsFor
  <2> QED BY <1>1, <2>1 DEF Live
<1> QED BY <1>2, <1>3

LEMMA SV_DirectConnectStep ==
  ASSUME IInv, NEW p \in Players, SV_DirectConnect(p)
  PROVE  IInv' /\ AllStay
<1> DEFINE conn == history.connects + 1
           zeroed == Zeroed(Address(p), Qport[p], conn)
           joined == [zeroed EXCEPT !.state = "CONNECTED", !.sinceConnect = 0, !.justConnected = TRUE]
<1>1. PICK s \in SlotsFor(p), denied \in BOOLEAN, answered \in BOOLEAN :
        /\ history' = [history EXCEPT !.leaked = @ \/ ReconnectFreed(clients[s]).holds, !.connects = conn]
        /\ IF denied
           THEN /\ clients' = [clients EXCEPT ![s] = Freed(zeroed)]
                /\ game' = [game EXCEPT ![s] = ReconnectTold(clients[s], game[s])]
                /\ UNCHANGED players
           ELSE /\ clients' = [clients EXCEPT ![s] = joined]
                /\ game' = [game EXCEPT ![s] = Connected(ReconnectTold(clients[s], game[s]))]
                /\ players' = IF answered
                     THEN [players EXCEPT ![p].state = "connected", ![p].challenge = 0,
                                          ![p].conn = conn, ![p].outgoing = 0]
                     ELSE players
  BY DEF SV_DirectConnect
<1>2. /\ s \in Slots
      /\ Live(clients[s]) => clients[s].qport = Qport[p] /\ clients[s].address = Address(p)
  BY SlotsForFree
<1>3. ClientInv(clients[s]) /\ clients[s] \in Client
  BY <1>2 DEF IInv, ClientInv
<1>4. conn \in 0 .. MaxConnections
  BY ClientsAssumption DEF SV_DirectConnect, IInv, HistoryInv
<1>5. ~ReconnectFreed(clients[s]).holds
  BY <1>3 DEF ReconnectFreed, FreeClient, ClientInv, Client
<1>6. /\ HistoryInv(history') /\ history'.ghosts = history.ghosts
  <2>1. history \in [leaked : {FALSE}, ghosts : SUBSET Slots, connects : 0 .. MaxConnections, upsets : Nat]
    BY DEF IInv, HistoryInv
  <2>2. (history.leaked \/ ReconnectFreed(clients[s]).holds) = FALSE
    BY <1>5, <2>1
  <2>3. history' = [history EXCEPT !.leaked = FALSE, !.connects = conn]
    BY <1>1, <2>1, <2>2
  <2> HIDE DEF conn
  <2> QED BY <1>4, <2>1, <2>3 DEF HistoryInv
<1>7. ClientInv(zeroed) /\ ~Live(zeroed) /\ zeroed \in Client
      /\ zeroed.address = Address(p) /\ zeroed.qport = Qport[p] /\ ~zeroed.holds
  <2>1. ClientInv(zeroed) /\ ~Live(zeroed)
    BY <1>4, AddressType, ZeroedInv
  <2> QED BY <2>1 DEF ClientInv, Zeroed
<1>8. /\ players \in [Players -> Player]
      /\ players' \in [Players -> Player]
  <2>1. 0 \in 0 .. MaxPackets
    BY ClientsAssumption
  <2> HIDE DEF conn, zeroed
  <2> QED BY <1>1, <1>4, <2>1 DEF IInv, Player
<1>9. /\ ReconnectTold(clients[s], game[s]) \in Int
      /\ s \notin history.ghosts => ReconnectTold(clients[s], game[s]) \in -2 .. 0
  BY <1>2, DisconnectedIs DEF IInv, Told, ReconnectTold
<1> HIDE DEF zeroed, conn
<1>10. CASE denied
  <2>1. ClientInv(Freed(zeroed)) /\ ~Live(Freed(zeroed))
    BY <1>7, FreedInv
  <2> QED BY <1>1, <1>2, <1>6, <1>8, <1>9, <1>10, <2>1, OneSlot DEF Told, Stays
<1>11. CASE ~denied
  <2>1. 0 \in 0 .. ReconnectLimit
    BY ClientsAssumption
  <2>2. /\ joined \in Client /\ joined.state = "CONNECTED"
        /\ joined.address = Address(p) /\ joined.qport = Qport[p]
    BY <1>7, <2>1 DEF Client
  <2> HIDE DEF joined
  <2>3. ClientInv(joined) /\ Live(joined)
    BY <2>2, AddressType DEF ClientInv, Live
  <2>4. Stays(clients[s], joined)
    BY <1>2, <2>2 DEF Stays
  <2>5. /\ Connected(ReconnectTold(clients[s], game[s])) \in Int
        /\ s \notin history.ghosts => Told(joined, Connected(ReconnectTold(clients[s], game[s])))
    BY <1>9, <2>3 DEF Told, Connected
  <2> QED BY <1>1, <1>2, <1>6, <1>8, <1>9, <1>11, <2>3, <2>4, <2>5, OneSlot
<1> QED BY <1>10, <1>11

LEMMA SentType ==
  ASSUME IInv, NEW p \in Players, players[p].outgoing < MaxPackets, NEW over,
         Sent(p, players[p].outgoing + 1, over)
  PROVE  players' \in [Players -> Player]
<1>1. /\ 0 \in 0 .. MaxConnections /\ 0 \in 0 .. MaxPackets
      /\ players[p].outgoing + 1 \in 0 .. MaxPackets
  BY ClientsAssumption DEF IInv, Player
<1>2. players[p] \in Player
  BY DEF IInv
<1>3. [players[p] EXCEPT !.outgoing = players[p].outgoing + 1] \in Player /\ Off(players[p].port) \in Player
  BY <1>1, <1>2 DEF Off, Player
<1> QED BY <1>3 DEF Sent, IInv

\* A packet reaches a client at the address it was sent from; only the port of
\* the client can be another after it.
LEMMA SV_PacketEventStep ==
  ASSUME IInv, NEW p \in Players, NEW disconnect \in BOOLEAN, SV_PacketEvent(p, disconnect)
  PROVE  IInv' /\ AllStay
<1> DEFINE sequence == players[p].outgoing + 1
           receivers == Receivers(p, sequence)
           s == Min(receivers)
<1>1. players[p].outgoing < MaxPackets /\ players[p] \in Player
  BY DEF SV_PacketEvent, IInv
<1>2. players' \in [Players -> Player]
  BY <1>1, SentType DEF SV_PacketEvent
<1>3. HistoryInv(history') /\ history'.ghosts = history.ghosts
  BY DEF SV_PacketEvent, IInv
<1>4. CASE receivers = {}
  BY <1>2, <1>3, <1>4, NoSlot DEF SV_PacketEvent
<1>5. CASE receivers # {}
  <2>1. s \in receivers /\ s \in Slots /\ clients[s].state # "FREE"
    <3>1. receivers \subseteq Slots
      BY DEF Receivers
    <3>2. s \in receivers
      BY <1>5, <3>1, MinOfSlots
    <3> QED BY <3>1, <3>2 DEF Receivers
  <2>2. PICK cl \in ExecuteClientMessage(clients[s], disconnect), n \in Tellings(clients[s]) :
          /\ clients' = [clients EXCEPT ![s] =
               [cl EXCEPT !.incoming = sequence, !.address.port = players[p].port]]
          /\ game' = [game EXCEPT ![s] = IF Live(clients[s]) /\ ~Live(cl)
                                         THEN Disconnected(@, n) ELSE @]
    BY <1>5 DEF SV_PacketEvent
  <2> DEFINE d == [cl EXCEPT !.incoming = sequence, !.address.port = players[p].port]
             count == IF Live(clients[s]) /\ ~Live(cl) THEN Disconnected(game[s], n) ELSE game[s]
  <2>3. sequence \in 0 .. MaxPackets /\ players[p].port \in Ports
    BY <1>1, ClientsAssumption DEF Player
  <2> HIDE DEF s, sequence
  <2>4. /\ ClientInv(cl) /\ cl.state # "FREE" /\ (Live(cl) => Live(clients[s]))
        /\ cl.address = clients[s].address /\ cl.qport = clients[s].qport
    BY <2>1, <2>2, ExecuteClientMessageInv DEF IInv
  <2>5. cl \in Client /\ cl.address \in Addresses
    BY <2>4 DEF ClientInv
  <2>6. [cl.address EXCEPT !.port = players[p].port] \in Addresses
        /\ [cl.address EXCEPT !.port = players[p].port].ip = cl.address.ip
    BY <2>3, <2>5 DEF Addresses
  <2>7. d = [cl EXCEPT !.incoming = sequence, !.address = [cl.address EXCEPT !.port = players[p].port]]
    BY <2>5 DEF Client
  <2> DEFINE moved == [cl.address EXCEPT !.port = players[p].port]
  <2> HIDE DEF d, moved
  <2>8. /\ d \in Client /\ d.state = cl.state /\ d.holds = cl.holds
        /\ d.justConnected = cl.justConnected /\ d.address = moved /\ d.qport = cl.qport
    <3>1. moved \in Addresses
      BY <2>6 DEF moved
    <3>2. d = [cl EXCEPT !.incoming = sequence, !.address = moved]
      BY <2>7 DEF moved
    <3> QED BY <2>3, <2>5, <3>1, <3>2 DEF Client
  <2>9. ClientInv(d) /\ (Live(d) <=> Live(cl))
    BY <2>4, <2>6, <2>8 DEF ClientInv, Live, moved
  <2>10. Stays(clients[s], d)
    BY <2>4, <2>6, <2>8 DEF Stays, moved
  <2>11. count \in Int /\ (s \notin history.ghosts => Told(d, count))
    BY <2>1, <2>4, <2>9, DisconnectedIs, TellingsType DEF IInv, Told
  <2>12. clients' = [clients EXCEPT ![s] = d] /\ game' = [game EXCEPT ![s] = count]
    BY <2>2 DEF d, IInv
  <2> HIDE DEF count
  <2> QED BY <1>2, <1>3, <2>1, <2>9, <2>10, <2>11, <2>12, OneSlot
<1> QED BY <1>4, <1>5

LEMMA SV_SpawnServerStep ==
  ASSUME IInv, SV_SpawnServer
  PROVE  IInv' /\ AllStay
<1>1. PICK denied \in SUBSET {s \in Slots : Live(clients[s])}, n \in [Slots -> {1, 2}] :
        /\ clients' = [s \in Slots |->
             IF s \in denied THEN Drop(clients[s])
             ELSE IF Live(clients[s]) THEN [clients[s] EXCEPT !.state = "CONNECTED"]
             ELSE clients[s]]
        /\ game' = [s \in Slots |-> IF s \in denied THEN Disconnected(0, n[s])
                                    ELSE IF Live(clients[s]) THEN Connected(0) ELSE 0]
  BY DEF SV_SpawnServer
<1>2. ASSUME NEW s \in Slots
      PROVE  /\ ClientInv(clients'[s]) /\ Stays(clients[s], clients'[s])
             /\ Told(clients'[s], game'[s]) /\ game'[s] \in Int
  <2>1. ClientInv(clients[s])
    BY DEF IInv
  <2>2. CASE s \in denied
    <3>1. Live(clients[s]) /\ clients'[s] = Drop(clients[s]) /\ game'[s] = Disconnected(0, n[s])
      BY <1>1, <2>2
    <3>2. game'[s] \in -2 .. 0
      BY <3>1, DisconnectedIs
    <3> QED BY <2>1, <3>1, <3>2, DropInv DEF Stays, Told
  <2>3. CASE s \notin denied /\ Live(clients[s])
    <3> DEFINE d == [clients[s] EXCEPT !.state = "CONNECTED"]
    <3>1. clients'[s] = d /\ game'[s] = 1
      BY <1>1, <2>3 DEF Connected
    <3>2. /\ d \in Client /\ d.state = "CONNECTED"
          /\ d.address = clients[s].address /\ d.qport = clients[s].qport
      BY <2>1 DEF ClientInv, Client
    <3> HIDE DEF d
    <3>3. ClientInv(d) /\ Live(d)
      BY <2>1, <2>3, <3>2 DEF ClientInv, Live
    <3> QED BY <3>1, <3>2, <3>3 DEF Stays, Told
  <2>4. CASE s \notin denied /\ ~Live(clients[s])
    <3>1. clients'[s] = clients[s] /\ game'[s] = 0
      BY <1>1, <2>4
    <3> QED BY <2>1, <2>4, <3>1 DEF Stays, Told
  <2> QED BY <2>2, <2>3, <2>4
<1>3. clients' \in [Slots -> Client] /\ game' \in [Slots -> Int]
  BY <1>1, <1>2 DEF ClientInv
<1>4. HistoryInv(history') /\ history'.ghosts = history.ghosts
  BY Upset DEF SV_SpawnServer, IInv
<1>5. players' \in [Players -> Player]
  BY DEF SV_SpawnServer, IInv
<1> QED BY <1>2, <1>3, <1>4, <1>5 DEF IInv, AllStay

\* Who is dropped for the command that did not fit is a ghost, unless the new
\* game denied it: for the others the count is right.
LEMMA SV_MapRestart_fStep ==
  ASSUME IInv, SV_MapRestart_f
  PROVE  IInv' /\ AllStay
<1> DEFINE live == {s \in Slots : Live(clients[s])}
           sent == {s \in live : clients[s].state = "PRIMED"}
<1>1. PICK denied \in SUBSET live, overflowed \in SUBSET sent, n \in [Slots -> {1, 2}] :
        /\ clients' = [s \in Slots |->
             IF s \in denied \cup overflowed THEN Drop(clients[s]) ELSE clients[s]]
        /\ game' = [s \in Slots |-> IF s \in live \ denied THEN Connected(0)
                                    ELSE IF s \in denied THEN Disconnected(0, n[s]) ELSE 0]
        /\ history' = [history EXCEPT !.upsets = @ + 1, !.ghosts = overflowed \ denied]
  BY DEF SV_MapRestart_f
<1>2. /\ HistoryInv(history') /\ history'.ghosts = overflowed \ denied
  <2>1. HistoryInv(history) /\ overflowed \ denied \in SUBSET Slots
    BY DEF IInv
  <2> QED BY <1>1, <2>1, Upset
<1>3. ASSUME NEW s \in Slots
      PROVE  /\ ClientInv(clients'[s]) /\ Stays(clients[s], clients'[s])
             /\ s \notin overflowed \ denied => Told(clients'[s], game'[s])
             /\ game'[s] \in Int
  <2>1. ClientInv(clients[s])
    BY DEF IInv
  <2>2. CASE s \in denied \cup overflowed
    <3>1. Live(clients[s]) /\ clients'[s] = Drop(clients[s])
      BY <1>1, <2>2
    <3>2. /\ s \in denied => game'[s] \in -2 .. 0
          /\ game'[s] \in Int
      <4>1. n[s] \in {1, 2} BY <1>1
      <4>2. Disconnected(0, n[s]) \in -2 .. 0
        <5>1. 0 \in Int OBVIOUS
        <5> QED BY <3>1, <4>1, <5>1, DisconnectedIs
      <4>3. s \in denied => game'[s] = Disconnected(0, n[s]) BY <1>1, <3>1
      <4>4. s \notin denied => game'[s] = Connected(0) BY <1>1, <3>1
      <4> QED BY <4>2, <4>3, <4>4 DEF Connected
    <3> QED BY <2>1, <2>2, <3>1, <3>2, DropInv DEF Stays, Told
  <2>3. CASE s \notin denied \cup overflowed
    <3>1. clients'[s] = clients[s] /\ game'[s] = IF Live(clients[s]) THEN 1 ELSE 0
      BY <1>1, <2>3 DEF Connected
    <3> QED BY <2>1, <3>1 DEF Stays, Told
  <2> QED BY <2>2, <2>3
<1>4. clients' \in [Slots -> Client] /\ game' \in [Slots -> Int]
  BY <1>1, <1>3 DEF ClientInv
<1>5. players' \in [Players -> Player]
  BY DEF SV_MapRestart_f, IInv
<1> QED BY <1>2, <1>3, <1>4, <1>5 DEF IInv, AllStay

LEMMA SV_ShutdownStep ==
  ASSUME IInv, SV_Shutdown
  PROVE  IInv' /\ AllStay
<1> DEFINE zeroed == Zeroed(NoAddress, NoAddress, 0)
<1>1. 0 \in 0 .. MaxConnections
  BY ClientsAssumption
<1>2. ClientInv(zeroed) /\ ~Live(zeroed)
  BY <1>1, ZeroedInv
<1>3. clients' = [s \in Slots |-> zeroed] /\ game' = [s \in Slots |-> 0]
  BY DEF SV_Shutdown
<1> HIDE DEF zeroed
<1>4. \A s \in Slots : ~FreeClient(clients[s]).holds
  BY DEF IInv, FreeClient, Client
<1>5. HistoryInv(history')
  <2>1. history \in [leaked : {FALSE}, ghosts : SUBSET Slots, connects : 0 .. MaxConnections, upsets : Nat]
    BY DEF IInv, HistoryInv
  <2>2. (history.leaked \/ \E s \in Slots : FreeClient(clients[s]).holds) = FALSE
    BY <1>4, <2>1
  <2>3. history' = [history EXCEPT !.upsets = @ + 1, !.ghosts = {}]
    BY <2>1, <2>2 DEF SV_Shutdown
  <2> QED BY <2>3, Upset DEF IInv
<1>6. players' \in [Players -> Player]
  BY DEF SV_Shutdown, IInv, Player
<1>7. \A s \in Slots : ClientInv(clients'[s]) /\ ~Live(clients'[s]) /\ game'[s] = 0
  BY <1>2, <1>3
<1>8. clients' \in [Slots -> Client] /\ game' \in [Slots -> Int]
  BY <1>3, <1>7 DEF ClientInv
<1> QED BY <1>5, <1>6, <1>7, <1>8 DEF IInv, AllStay, Stays, Told

LEMMA NextStep ==
  ASSUME IInv, [Next]_vars
  PROVE  IInv' /\ AllStay
<1>1. CASE UNCHANGED vars
  BY <1>1 DEF vars, IInv, AllStay, Stays
<1>2. CASE Next
  BY <1>2, SV_FrameStep, SV_SpawnServerStep, SV_MapRestart_fStep, SV_ShutdownStep,
     SV_DropClientStep, SV_GetChallengeStep, SV_DirectConnectStep, VanishStep, RebindStep,
     SV_PacketEventStep DEF Next
<1> QED BY <1>1, <1>2

-----------------------------------------------------------------------------
(* Theorems *)

\* What is true of the slots, the game, the players and the challenges in
\* every state: the reason why the theorems below hold.
THEOREM ClientsInvariant == Spec => []IInv
<1>1. IInv /\ [Next]_vars => IInv'
  BY NextStep
<1> QED BY <1>1, InitInv, PTL DEF Spec

\* The game knows exactly the clients that are connected: it was told of each
\* once (GAME_CLIENT_CONNECT), and of one that left at most twice
\* (GAME_CLIENT_DISCONNECT), but for those a map_restart overflows.
THEOREM GameKnowsClients == Spec => []GameAgrees
<1>1. IInv => GameAgrees
  BY DEF IInv, GameAgrees, Told
<1> QED BY <1>1, ClientsInvariant, PTL

\* What a slot holds is freed on every way out of it (SV_FreeClient), and
\* SV_DirectConnect never sets a slot to zero that holds something.
THEOREM SlotsCorrect == Spec => []SlotsInv
<1>1. IInv => SlotsInv
  BY DEF IInv, SlotsInv, TypeOK, NothingLeaks, ClientInv, HistoryInv, Player
<1> QED BY <1>1, ClientsInvariant, PTL

\* The connect of another never takes a slot from a player who is in it.
THEOREM PlayersKeepTheirSlots == Spec => NobodyIsPushedOut
<1>1. IInv /\ [Next]_vars =>
        [\A s \in Slots : Live(clients[s]) /\ Live(clients'[s]) =>
           clients'[s].qport = clients[s].qport /\ clients'[s].address.ip = clients[s].address.ip]_vars
  BY NextStep DEF AllStay, Stays
<1> QED BY <1>1, ClientsInvariant, PTL DEF Spec, NobodyIsPushedOut

-----------------------------------------------------------------------------
(* The match: its inductive invariant *)

\* An entity of G_spawnPrintf, and what a game is.
Entity == [kind : {DP_PAUSEINFO, DP_UNPAUSING}, age : Nat, wait : Int]
GameStates == Recorded \cup {GS_WARMUP}
History ==
  [ called : [Teams -> Nat], refilled : SUBSET Teams, timeout : Nat, leftover : BOOLEAN,
    played : Nat, kept : Seq(Nat), typed : Nat ]
Game ==
  [ stopwatch : BOOLEAN, gamestate : GameStates, seen : GameStates, restarted : BOOLEAN,
    paused : Teams \cup {PAUSE_NONE, PAUSE_UNPAUSING}, entities : Seq(Entity),
    time : Nat, timeCurrent : Int, timeDelta : Int, levelStart : Int,
    queued : BOOLEAN, intermission : -1 .. ExitDelay, stopSignaled : BOOLEAN,
    countdown : 0 .. CountdownLength, timeouts : [Teams -> 0 .. TimeoutCount],
    players : SUBSET Teams, counted : SUBSET Teams, ready : SUBSET Teams,
    recorder : Nat, buffer : Seq(Commands), history : History ]

\* In a round the clock, what was played and the start told to the clients
\* agree; in a pause, all but the start.
ClockInv(s) ==
  s.gamestate = GS_PLAYING =>
    /\ s.timeCurrent = s.history.played
    /\ s.time - s.timeDelta = s.timeCurrent
    /\ s.paused = PAUSE_NONE => s.levelStart = s.timeDelta

KeptInv(s) ==
  s.gamestate = GS_PLAYING =>
    \A t \in Teams \ s.history.refilled : s.timeouts[t] + s.history.called[t] = TimeoutCount

\* No entity of a timeout is older than the timeout, but for those of the
\* timeout before.
PauseInv(s) ==
  s.paused \in Teams /\ ~s.history.leftover =>
    \A i \in DOMAIN s.entities : s.entities[i].kind = DP_PAUSEINFO => s.entities[i].age <= s.history.timeout

\* The copy of the cvar is a frame behind, and a round ends only in a round.
InRound(s) == s.gamestate \in {GS_PLAYING, GS_INTERMISSION}
SeenInv(s) ==
  /\ \/ s.seen = s.gamestate
     \/ s.seen = GS_WARMUP /\ s.gamestate = GS_WARMUP_COUNTDOWN
     \/ s.seen = GS_PLAYING /\ s.gamestate = GS_INTERMISSION
  /\ s.intermission >= 0 \/ s.queued => InRound(s)

StateInv(s) ==
  /\ s \in Game
  /\ s.ready \subseteq s.players
  /\ ClockInv(s) /\ KeptInv(s) /\ PauseInv(s) /\ SeenInv(s)

\* When the countdown was given up, that is the first command.
BufferInv(s) ==
  s.gamestate = GS_WARMUP_COUNTDOWN /\ (\E i \in DOMAIN s.buffer : s.buffer[i] = ToWarmup)
    => s.buffer[1] = ToWarmup

\* The recording of a round: it goes on, was kept, or was thrown away, and
\* then the level is about to be restarted.
Going(s, n) == s.recorder = 2 /\ ~s.stopSignaled /\ s.history.kept = <<>> /\ s.intermission < n
WasKept(s) == s.recorder = NotRecording /\ s.stopSignaled /\ s.history.kept = <<1>>
Thrown(s, n) ==
  /\ s.recorder = NotRecording /\ s.stopSignaled /\ s.history.kept = <<>>
  /\ s.intermission < n /\ \E i \in DOMAIN s.buffer : s.buffer[i] = ToWarmup

Holds(s, commands) == \A i \in DOMAIN s.buffer : s.buffer[i] \in commands

\* Unless a command was typed.
RecordIn(s, going, thrown) ==
  s.history.typed = 0 =>
    /\ s.gamestate = GS_WARMUP =>
         s.recorder = NotRecording /\ ~s.stopSignaled /\ s.history.kept = <<>> /\ s.buffer = <<>>
    /\ s.gamestate = GS_WARMUP_COUNTDOWN =>
         s.recorder = 1 /\ ~s.stopSignaled /\ s.history.kept = <<>> /\ Holds(s, {ToPlaying, ToWarmup})
    /\ s.gamestate = GS_PLAYING => Holds(s, {ToWarmup})
    /\ s.gamestate = GS_INTERMISSION => Holds(s, {ToWarmup, NextMap})
    /\ InRound(s) => Going(s, going) \/ WasKept(s) \/ Thrown(s, thrown)
    /\ s.history.kept = <<>> => ~\E i \in DOMAIN s.buffer : s.buffer[i] = NextMap

RecordInv(s) == RecordIn(s, StopDelay, StopDelay + 1)

MatchInv(s) == StateInv(s) /\ s.intermission < ExitDelay /\ BufferInv(s) /\ RecordInv(s)

-----------------------------------------------------------------------------
(* The stages of a frame *)

USE DEF NotRecording, GS_WARMUP, GS_WARMUP_COUNTDOWN, GS_PLAYING, GS_INTERMISSION,
        PAUSE_NONE, PAUSE_UNPAUSING, DP_PAUSEINFO, DP_UNPAUSING

Fields ==
  { "stopwatch", "gamestate", "seen", "restarted", "paused", "entities", "time", "timeCurrent",
    "timeDelta", "levelStart", "queued", "intermission", "stopSignaled", "countdown", "timeouts",
    "players", "counted", "ready", "recorder", "buffer", "history" }
HistoryFields == {"called", "refilled", "timeout", "leftover", "played", "kept", "typed"}

\* Of the game s only these fields have changed, and these of its history.
Changes(s, x, fields, remembered) ==
  /\ x \in Game
  /\ \A f \in Fields \ {"history"} : f \notin fields => x[f] = s[f]
  /\ \A f \in HistoryFields : f \notin remembered => x.history[f] = s.history[f]

LEMMA Bounds ==
  /\ TimeLimit \in Nat /\ TimeoutCount \in Nat /\ TimeoutLength \in Nat /\ FirstThink \in Nat
  /\ UnpauseLength \in Nat /\ CountdownLength \in Nat /\ StopDelay \in Nat /\ ExitDelay \in Nat
  /\ ExitDelay > StopDelay /\ StopDelay > 0 /\ PAUSE_NONE \notin Teams /\ PAUSE_UNPAUSING \notin Teams
<1>1. StopDelay \in Nat \ {0} BY MatchAssumption
<1>2. StopDelay \in Nat /\ StopDelay > 0 BY <1>1
<1> QED BY <1>2, MatchAssumption DEF Teams

LEMMA LogExitChanges ==
  ASSUME NEW s \in Game
  PROVE  Changes(s, LogExit(s), {"queued"}, {})
<1> DEFINE x == [s EXCEPT !.queued = TRUE]
<1>1. x \in Game BY DEF Game
<1>2. \A f \in Fields \ {"queued"} : x[f] = s[f] BY DEF Game, Fields
<1>3. x.history = s.history BY DEF Game
<1> QED BY <1>1, <1>2, <1>3 DEF Changes, LogExit, Fields, HistoryFields

LEMMA WTV_RecordStartChanges ==
  ASSUME NEW s \in Game, NEW x, x = WTV_RecordStart(s)
  PROVE  /\ Changes(s, x, {"recorder"}, {})
         /\ x.recorder = IF s.recorder # NotRecording THEN s.recorder
                         ELSE IF s.gamestate = GS_PLAYING THEN 2 ELSE 1
<1>1. CASE s.recorder # NotRecording
  BY <1>1 DEF WTV_RecordStart, Changes
<1>2. CASE s.recorder = NotRecording
  <2> DEFINE y == [s EXCEPT !.recorder = IF s.gamestate = GS_PLAYING THEN 2 ELSE 1]
  <2>1. y \in Game /\ y.recorder = IF s.gamestate = GS_PLAYING THEN 2 ELSE 1
    BY DEF Game
  <2>2. \A f \in Fields \ {"recorder"} : y[f] = s[f] BY DEF Game, Fields
  <2>3. y.history = s.history BY DEF Game
  <2> QED BY <1>2, <2>1, <2>2, <2>3 DEF WTV_RecordStart, Changes
<1> QED BY <1>1, <1>2

LEMMA WTV_RecordStopChanges ==
  ASSUME NEW s \in Game, NEW aborted \in BOOLEAN, NEW x, x = WTV_RecordStop(s, aborted)
  PROVE  /\ Changes(s, x, {"recorder"}, {"kept"})
         /\ x.recorder = NotRecording
         /\ x.history.kept = IF aborted \/ s.recorder = NotRecording THEN s.history.kept
                             ELSE Append(s.history.kept, s.recorder - 1)
<1> DEFINE k == IF aborted THEN s.history.kept ELSE Append(s.history.kept, s.recorder - 1)
           h == [s.history EXCEPT !.kept = k]
           y == [s EXCEPT !.recorder = NotRecording, !.history = h]
<1>1. CASE s.recorder = NotRecording
  BY <1>1 DEF WTV_RecordStop, Changes
<1>2. CASE s.recorder # NotRecording
  <2>1. k \in Seq(Nat)
    BY <1>2 DEF Game, History
  <2>2. h \in History /\ h.kept = k /\ \A f \in HistoryFields \ {"kept"} : h[f] = s.history[f]
    BY <2>1 DEF Game, History, HistoryFields
  <2>3. y \in Game /\ y.recorder = NotRecording
    BY <2>2 DEF Game
  <2>4. /\ \A f \in Fields \ {"recorder", "history"} : y[f] = s[f]
        /\ y.history = h
    BY DEF Fields, Game
  <2>5. x = y
    BY <1>2 DEF WTV_RecordStop
  <2> QED BY <1>2, <2>2, <2>3, <2>4, <2>5 DEF Changes
<1> QED BY <1>1, <1>2

LEMMA DiscardChanges ==
  ASSUME NEW s \in Game, NEW wanted, NEW x, x = Discard(s, wanted)
  PROVE  /\ Changes(s, x, {"recorder"}, {})
         /\ x.recorder = IF wanted = GS_PLAYING THEN s.recorder ELSE NotRecording
<1>1. CASE wanted = GS_PLAYING
  BY <1>1 DEF Discard, Changes
<1>2. CASE wanted # GS_PLAYING
  <2>1. x = WTV_RecordStop(s, TRUE) BY <1>2 DEF Discard
  <2>2. /\ Changes(s, x, {"recorder"}, {"kept"})
        /\ x.recorder = NotRecording
        /\ x.history.kept = s.history.kept
    BY <2>1, WTV_RecordStopChanges
  <2> QED BY <1>2, <2>2 DEF Changes
<1> QED BY <1>1, <1>2

LEMMA ChangesTwice ==
  ASSUME NEW s, NEW x, NEW y, NEW fields, NEW fields1, NEW remembered, NEW remembered1,
         Changes(s, x, fields, remembered), Changes(x, y, fields1, remembered1)
  PROVE  Changes(s, y, fields \cup fields1, remembered \cup remembered1)
BY DEF Changes

\* The history that a game starts with.
Nothing(h) ==
  /\ h.called = [t \in Teams |-> 0] /\ h.refilled = {}
  /\ h.timeout = 0 /\ h.leftover = FALSE /\ h.played = 0 /\ h.kept = <<>>

\* A game that starts: nothing of the last one goes on but for the recording.
Fresh(x) ==
  /\ x.restarted = FALSE /\ x.paused = PAUSE_NONE /\ x.entities = <<>>
  /\ x.time = 0 /\ x.timeCurrent = 0 /\ x.timeDelta = 0 /\ x.levelStart = 0
  /\ x.queued = FALSE /\ x.intermission = -1 /\ x.stopSignaled = FALSE
  /\ x.ready = {}
  /\ Nothing(x.history)

LEMMA NewLevelChanges ==
  ASSUME NEW s \in Game, NEW x, x = NewLevel(s)
  PROVE  /\ x \in Game /\ Fresh(x)
         /\ \A f \in {"gamestate", "seen", "recorder", "buffer", "players", "timeouts"} : x[f] = s[f]
         /\ x.history.typed = s.history.typed
<1> DEFINE h == [NothingYet EXCEPT !.typed = s.history.typed]
<1>1. NothingYet \in History /\ Nothing(NothingYet)
  <2>1. [t \in Teams |-> 0] \in [Teams -> Nat] OBVIOUS
  <2>2. <<>> \in Seq(Nat) OBVIOUS
  <2> QED BY <2>1, <2>2 DEF NothingYet, History, Nothing
<1>2. s.history.typed \in Nat
  BY DEF Game, History
<1>3. h \in History /\ Nothing(h) /\ h.typed = s.history.typed
  BY <1>1, <1>2 DEF History, Nothing
<1>4. 0 \in 0 .. CountdownLength /\ -1 \in -1 .. ExitDelay
  BY Bounds
<1>5. <<>> \in Seq(Entity) /\ 0 \in Int
  OBVIOUS
<1> HIDE DEF h
<1>6. x \in Game
  BY <1>3, <1>4, <1>5 DEF NewLevel, Game, h
<1>7. /\ x.restarted = FALSE /\ x.paused = PAUSE_NONE /\ x.entities = <<>>
      /\ x.time = 0 /\ x.timeCurrent = 0 /\ x.timeDelta = 0 /\ x.levelStart = 0
      /\ x.queued = FALSE /\ x.intermission = -1 /\ x.stopSignaled = FALSE
      /\ x.ready = {} /\ x.history = h
  BY DEF NewLevel, Game, h
<1>8. \A f \in {"gamestate", "seen", "recorder", "buffer", "players", "timeouts"} : x[f] = s[f]
  BY DEF NewLevel, Game
<1> QED BY <1>3, <1>6, <1>7, <1>8 DEF Fresh

LEMMA BeginRoundChanges ==
  ASSUME NEW s \in Game, s.gamestate = GS_PLAYING, NEW x, x = BeginRound(s)
  PROVE  /\ Changes(s, x, {"recorder", "timeouts"}, {})
         /\ x.timeouts = [t \in Teams |-> TimeoutCount]
         /\ x.recorder = IF s.recorder = NotRecording THEN 2 ELSE s.recorder + 1
<1> DEFINE r == IF s.recorder = NotRecording THEN NotRecording ELSE s.recorder + 1
           y == [s EXCEPT !.timeouts = Refill(s), !.recorder = r]
<1>1. Refill(s) \in [Teams -> 0 .. TimeoutCount] /\ r \in Nat
  BY Bounds DEF Refill, Game
<1>2. y \in Game
  BY <1>1 DEF Game
<1>3. /\ y.timeouts = Refill(s) /\ y.recorder = r /\ y.gamestate = GS_PLAYING
      /\ y.history = s.history
      /\ \A f \in Fields \ {"timeouts", "recorder"} : y[f] = s[f]
  BY DEF Game, Fields
<1>4. x = WTV_RecordStart(y)
  BY DEF BeginRound
<1>5. Changes(s, y, {"timeouts", "recorder"}, {})
  BY <1>2, <1>3 DEF Changes
<1>6. /\ Changes(y, x, {"recorder"}, {})
      /\ x.recorder = IF y.recorder # NotRecording THEN y.recorder
                      ELSE IF y.gamestate = GS_PLAYING THEN 2 ELSE 1
  BY <1>2, <1>4, WTV_RecordStartChanges
<1>7. x.timeouts = y.timeouts
  BY <1>6 DEF Changes, Fields
<1>8. s.recorder \in Nat BY DEF Game
<1> QED BY <1>3, <1>5, <1>6, <1>7, <1>8, ChangesTwice DEF Refill, Changes

\* The commands in the buffer, one after another: R[n] is where n of them lead.
LEMMA BufferExecuted ==
  ASSUME NEW run, run.match.buffer \in Seq(Commands), NEW R,
         [run EXCEPT !.match.buffer = <<>>] \in R[0],
         \A n \in 1 .. Len(run.match.buffer) : \A one \in R[n - 1] :
           ExecuteCommand(one, run.match.buffer[n]) \in R[n]
  PROVE  ExecuteBuffer(run) \subseteq R[Len(run.match.buffer)]
<1> DEFINE N == Len(run.match.buffer)
           base == [run EXCEPT !.match.buffer = <<>>]
           Step(f, n) == IF n = 0 THEN {base} ELSE {ExecuteCommand(one, run.match.buffer[n]) : one \in f[n - 1]}
<1>1. N \in Nat BY LenProperties
<1> HIDE DEF N, base
<1> DEFINE Lacking == {k \in 0 .. N : ~\E f : f = [n \in 0 .. k |-> Step(f, n)]}
<1>2. Lacking = {}
  <2>1. SUFFICES ASSUME Lacking # {} PROVE FALSE
    OBVIOUS
  <2>2. PICK k \in Lacking : \A j \in Lacking : k <= j
    <3>1. Lacking \subseteq Nat BY <1>1
    <3> HIDE DEF Lacking
    <3> QED BY <2>1, <3>1, LeastNatural
  <2>3. CASE k = 0
    <3> DEFINE h == [n \in 0 .. 0 |-> {base}]
    <3>1. \A n \in 0 .. 0 : n = 0 OBVIOUS
    <3>2. h = [n \in 0 .. 0 |-> Step(h, n)] BY <3>1
    <3> HIDE DEF h
    <3> QED BY <2>2, <2>3, <3>2
  <2>4. CASE k # 0
    <3>1. k \in Nat /\ k - 1 \in 0 .. N /\ ~(k <= k - 1) BY <1>1, <2>2, <2>4
    <3>2. k - 1 \notin Lacking BY <2>2, <3>1
    <3>3. PICK f : f = [n \in 0 .. k - 1 |-> Step(f, n)] BY <3>1, <3>2
    <3> HIDE DEF Step
    <3> DEFINE h == [n \in 0 .. k |-> IF n = k THEN Step(f, n) ELSE f[n]]
    <3>4. ASSUME NEW n \in 0 .. k PROVE h[n] = Step(h, n)
      <4>1. h[n] = Step(f, n)
        <5>1. CASE n = k BY <5>1
        <5>2. CASE n # k
          <6>1. n \in 0 .. k - 1 BY <3>1, <5>2
          <6>2. f[n] = Step(f, n) BY <3>3, <6>1
          <6> QED BY <5>2, <6>2
        <5> QED BY <5>1, <5>2
      <4>2. n = 0 \/ h[n - 1] = f[n - 1]
        <5>1. CASE n = 0 BY <5>1
        <5>2. CASE n # 0
          <6>1. n - 1 \in 0 .. k /\ n - 1 # k BY <3>1, <5>2
          <6> QED BY <6>1
        <5> QED BY <5>1, <5>2
      <4> HIDE DEF h
      <4> QED BY <4>1, <4>2 DEF Step
    <3>5. h = [n \in 0 .. k |-> Step(h, n)] BY <3>4
    <3> HIDE DEF h
    <3> QED BY <2>2, <3>5 DEF Step
  <2> QED BY <2>3, <2>4
<1> DEFINE after == CHOOSE f : f = [n \in 0 .. N |-> Step(f, n)]
<1>3. after = [n \in 0 .. N |-> Step(after, n)]
  <2> HIDE DEF Step
  <2>1. N \in 0 .. N /\ N \notin Lacking BY <1>1, <1>2
  <2>2. \E f : f = [n \in 0 .. N |-> Step(f, n)] BY <2>1
  <2> QED BY <2>2
<1>4. ExecuteBuffer(run) = after[N]
  BY DEF ExecuteBuffer, N, base
<1> HIDE DEF after, Step
<1> DEFINE Wrong == {k \in 0 .. N : ~(after[k] \subseteq R[k])}
<1>5. Wrong = {}
  <2>1. SUFFICES ASSUME Wrong # {} PROVE FALSE
    OBVIOUS
  <2>2. PICK k \in Wrong : \A j \in Wrong : k <= j
    <3>1. Wrong \subseteq Nat BY <1>1
    <3> HIDE DEF Wrong
    <3> QED BY <2>1, <3>1, LeastNatural
  <2>3. after[k] = Step(after, k) /\ k \in 0 .. N /\ ~(after[k] \subseteq R[k])
    BY <1>3, <2>2
  <2>4. CASE k = 0
    BY <2>3, <2>4 DEF Step, base
  <2>5. CASE k # 0
    <3>1. k \in 1 .. N /\ k - 1 \in 0 .. N /\ ~(k <= k - 1) BY <1>1, <2>3, <2>5
    <3>2. after[k - 1] \subseteq R[k - 1] BY <2>2, <3>1
    <3> QED BY <2>3, <2>5, <3>1, <3>2 DEF Step, N
  <2> QED BY <2>4, <2>5
<1>6. after[N] \subseteq R[N] BY <1>1, <1>5
<1> QED BY <1>4, <1>6 DEF N

\* The entities, one after another.
LEMMA EntitiesThought ==
  ASSUME NEW s, s.entities \in Seq(Entity), NEW R,
         [s EXCEPT !.entities = <<>>] \in R[0],
         \A n \in 1 .. Len(s.entities) : \A one \in R[n - 1] : G_RunThink(one, s.entities[n]) \in R[n]
  PROVE  RunEntities(s) \subseteq R[Len(s.entities)]
<1> DEFINE N == Len(s.entities)
           base == [s EXCEPT !.entities = <<>>]
           Step(f, n) == IF n = 0 THEN {base} ELSE {G_RunThink(one, s.entities[n]) : one \in f[n - 1]}
<1>1. N \in Nat BY LenProperties
<1> HIDE DEF N, base
<1> DEFINE Lacking == {k \in 0 .. N : ~\E f : f = [n \in 0 .. k |-> Step(f, n)]}
<1>2. Lacking = {}
  <2>1. SUFFICES ASSUME Lacking # {} PROVE FALSE
    OBVIOUS
  <2>2. PICK k \in Lacking : \A j \in Lacking : k <= j
    <3>1. Lacking \subseteq Nat BY <1>1
    <3> HIDE DEF Lacking
    <3> QED BY <2>1, <3>1, LeastNatural
  <2>3. CASE k = 0
    <3> DEFINE h == [n \in 0 .. 0 |-> {base}]
    <3>1. \A n \in 0 .. 0 : n = 0 OBVIOUS
    <3>2. h = [n \in 0 .. 0 |-> Step(h, n)] BY <3>1
    <3> HIDE DEF h
    <3> QED BY <2>2, <2>3, <3>2
  <2>4. CASE k # 0
    <3>1. k \in Nat /\ k - 1 \in 0 .. N /\ ~(k <= k - 1) BY <1>1, <2>2, <2>4
    <3>2. k - 1 \notin Lacking BY <2>2, <3>1
    <3>3. PICK f : f = [n \in 0 .. k - 1 |-> Step(f, n)] BY <3>1, <3>2
    <3> HIDE DEF Step
    <3> DEFINE h == [n \in 0 .. k |-> IF n = k THEN Step(f, n) ELSE f[n]]
    <3>4. ASSUME NEW n \in 0 .. k PROVE h[n] = Step(h, n)
      <4>1. h[n] = Step(f, n)
        <5>1. CASE n = k BY <5>1
        <5>2. CASE n # k
          <6>1. n \in 0 .. k - 1 BY <3>1, <5>2
          <6>2. f[n] = Step(f, n) BY <3>3, <6>1
          <6> QED BY <5>2, <6>2
        <5> QED BY <5>1, <5>2
      <4>2. n = 0 \/ h[n - 1] = f[n - 1]
        <5>1. CASE n = 0 BY <5>1
        <5>2. CASE n # 0
          <6>1. n - 1 \in 0 .. k /\ n - 1 # k BY <3>1, <5>2
          <6> QED BY <6>1
        <5> QED BY <5>1, <5>2
      <4> HIDE DEF h
      <4> QED BY <4>1, <4>2 DEF Step
    <3>5. h = [n \in 0 .. k |-> Step(h, n)] BY <3>4
    <3> HIDE DEF h
    <3> QED BY <2>2, <3>5 DEF Step
  <2> QED BY <2>3, <2>4
<1> DEFINE after == CHOOSE f : f = [n \in 0 .. N |-> Step(f, n)]
<1>3. after = [n \in 0 .. N |-> Step(after, n)]
  <2> HIDE DEF Step
  <2>1. N \in 0 .. N /\ N \notin Lacking BY <1>1, <1>2
  <2>2. \E f : f = [n \in 0 .. N |-> Step(f, n)] BY <2>1
  <2> QED BY <2>2
<1>4. RunEntities(s) = after[N]
  BY DEF RunEntities, N, base
<1> HIDE DEF after, Step
<1> DEFINE Wrong == {k \in 0 .. N : ~(after[k] \subseteq R[k])}
<1>5. Wrong = {}
  <2>1. SUFFICES ASSUME Wrong # {} PROVE FALSE
    OBVIOUS
  <2>2. PICK k \in Wrong : \A j \in Wrong : k <= j
    <3>1. Wrong \subseteq Nat BY <1>1
    <3> HIDE DEF Wrong
    <3> QED BY <2>1, <3>1, LeastNatural
  <2>3. after[k] = Step(after, k) /\ k \in 0 .. N /\ ~(after[k] \subseteq R[k])
    BY <1>3, <2>2
  <2>4. CASE k = 0
    BY <2>3, <2>4 DEF Step, base
  <2>5. CASE k # 0
    <3>1. k \in 1 .. N /\ k - 1 \in 0 .. N /\ ~(k <= k - 1) BY <1>1, <2>3, <2>5
    <3>2. after[k - 1] \subseteq R[k - 1] BY <2>2, <3>1
    <3> QED BY <2>3, <2>5, <3>1, <3>2 DEF Step, N
  <2> QED BY <2>4, <2>5
<1>6. after[N] \subseteq R[N] BY <1>1, <1>5
<1> QED BY <1>4, <1>6 DEF N

-----------------------------------------------------------------------------
(* What keeps the invariant *)

LEMMA ClockSame ==
  ASSUME NEW s, NEW x, NEW fields, NEW remembered, ClockInv(s), Changes(s, x, fields, remembered),
         fields \cap {"gamestate", "paused", "time", "timeCurrent", "timeDelta", "levelStart"} = {},
         "played" \notin remembered
  PROVE  ClockInv(x)
BY DEF Changes, ClockInv, Fields, HistoryFields

LEMMA KeptSame ==
  ASSUME NEW s, NEW x, NEW fields, NEW remembered, KeptInv(s), Changes(s, x, fields, remembered),
         fields \cap {"gamestate", "timeouts"} = {}, remembered \cap {"called", "refilled"} = {}
  PROVE  KeptInv(x)
<1>1. x.gamestate = s.gamestate /\ x.timeouts = s.timeouts BY DEF Changes, Fields
<1>2. x.history.called = s.history.called /\ x.history.refilled = s.history.refilled
  BY DEF Changes, HistoryFields
<1> QED BY <1>1, <1>2 DEF KeptInv

LEMMA PauseSame ==
  ASSUME NEW s, NEW x, NEW fields, NEW remembered, PauseInv(s), Changes(s, x, fields, remembered),
         fields \cap {"paused", "entities"} = {}, remembered \cap {"leftover", "timeout"} = {}
  PROVE  PauseInv(x)
<1>1. x.paused = s.paused /\ x.entities = s.entities BY DEF Changes, Fields
<1>2. x.history.leftover = s.history.leftover /\ x.history.timeout = s.history.timeout
  BY DEF Changes, HistoryFields
<1> QED BY <1>1, <1>2 DEF PauseInv

LEMMA SeenSame ==
  ASSUME NEW s, NEW x, NEW fields, NEW remembered, SeenInv(s), Changes(s, x, fields, remembered),
         fields \cap {"gamestate", "seen", "intermission", "queued"} = {}
  PROVE  SeenInv(x)
BY DEF Changes, SeenInv, InRound, Fields

\* Most of what happens touches none of it.
LEMMA StateSame ==
  ASSUME NEW s, NEW x, NEW fields, NEW remembered, StateInv(s), Changes(s, x, fields, remembered),
         fields \cap { "gamestate", "seen", "paused", "entities", "time", "timeCurrent", "timeDelta",
                       "levelStart", "queued", "intermission", "timeouts" } = {},
         remembered \cap {"called", "refilled", "timeout", "leftover", "played"} = {},
         x.ready \subseteq x.players
  PROVE  StateInv(x)
<1>1. ClockInv(x) BY ClockSame DEF StateInv
<1>2. KeptInv(x) BY KeptSame DEF StateInv
<1>3. PauseInv(x) BY PauseSame DEF StateInv
<1>4. SeenInv(x) BY SeenSame DEF StateInv
<1> QED BY <1>1, <1>2, <1>3, <1>4 DEF StateInv, Changes

LEMMA FreshState ==
  ASSUME NEW x \in Game, Fresh(x), x.seen = x.gamestate,
         x.gamestate = GS_PLAYING => x.timeouts = [t \in Teams |-> TimeoutCount]
  PROVE  StateInv(x)
<1>1. ClockInv(x) BY DEF Fresh, Nothing, ClockInv
<1>2. KeptInv(x)
  <2>1. SUFFICES ASSUME x.gamestate = GS_PLAYING, NEW t \in Teams
                 PROVE  x.timeouts[t] + x.history.called[t] = TimeoutCount
    BY DEF KeptInv
  <2>2. x.timeouts[t] = TimeoutCount /\ x.history.called[t] = 0 BY <2>1 DEF Fresh, Nothing
  <2> QED BY <2>2, Bounds
<1>3. PauseInv(x) BY Bounds DEF Fresh, PauseInv
<1>4. SeenInv(x) BY DEF Fresh, SeenInv
<1> QED BY <1>1, <1>2, <1>3, <1>4 DEF StateInv, Fresh

-----------------------------------------------------------------------------
(* Restarts and the command buffer *)

LEMMA BufferAppended ==
  ASSUME NEW b \in Seq(Commands), NEW c \in Commands
  PROVE  /\ Append(b, c) \in Seq(Commands) /\ Len(Append(b, c)) = Len(b) + 1 /\ Len(b) \in Nat
         /\ DOMAIN b = 1 .. Len(b) /\ DOMAIN Append(b, c) = 1 .. Len(b) + 1
         /\ \A i \in 1 .. Len(b) : Append(b, c)[i] = b[i]
         /\ Append(b, c)[Len(b) + 1] = c
BY AppendProperties, LenProperties

LEMMA RestartGameChanges ==
  ASSUME NEW s \in Game, NEW gamestate \in GameStates, NEW x, x = RestartGame(s, gamestate)
  PROVE  /\ x \in Game /\ Fresh(x) /\ x.gamestate = gamestate /\ x.seen = gamestate
         /\ x.buffer = s.buffer /\ x.players = s.players /\ x.history.typed = s.history.typed
         /\ x.recorder = IF gamestate # GS_PLAYING THEN s.recorder
                         ELSE IF s.recorder = NotRecording THEN 2 ELSE s.recorder + 1
         /\ StateInv(x)
<1> DEFINE level == NewLevel(s)
           new == [level EXCEPT !.gamestate = gamestate, !.seen = gamestate]
<1>1. /\ level \in Game /\ Fresh(level)
      /\ level.recorder = s.recorder /\ level.buffer = s.buffer /\ level.players = s.players
      /\ level.history.typed = s.history.typed
  BY NewLevelChanges
<1> HIDE DEF level
<1>2. new \in Game /\ new.gamestate = gamestate /\ new.seen = gamestate BY <1>1 DEF Game
<1>3. /\ \A f \in Fields \ {"gamestate", "seen"} : new[f] = level[f]
      /\ new.history = level.history
  BY <1>1 DEF Game, Fields
<1>4. /\ Fresh(new) /\ new.recorder = s.recorder /\ new.buffer = s.buffer
      /\ new.players = s.players /\ new.history.typed = s.history.typed
  BY <1>1, <1>3 DEF Fresh, Fields
<1>5. x = IF gamestate = GS_PLAYING THEN BeginRound(new) ELSE new
  BY DEF RestartGame, level
<1> HIDE DEF new
<1>6. CASE gamestate # GS_PLAYING
  BY <1>2, <1>4, <1>5, <1>6, FreshState
<1>7. CASE gamestate = GS_PLAYING
  <2>1. /\ Changes(new, x, {"recorder", "timeouts"}, {})
        /\ x.timeouts = [t \in Teams |-> TimeoutCount]
        /\ x.recorder = IF new.recorder = NotRecording THEN 2 ELSE new.recorder + 1
    BY <1>2, <1>5, <1>7, BeginRoundChanges
  <2>2. /\ x \in Game /\ \A f \in Fields \ {"recorder", "timeouts", "history"} : x[f] = new[f]
        /\ \A f \in HistoryFields : x.history[f] = new.history[f]
    BY <2>1 DEF Changes
  <2>3. Fresh(x) BY <1>4, <2>2 DEF Fresh, Nothing, Fields, HistoryFields
  <2>4. /\ x.gamestate = gamestate /\ x.seen = gamestate /\ x.buffer = s.buffer
        /\ x.players = s.players /\ x.history.typed = s.history.typed
    BY <1>2, <1>4, <2>2 DEF Fields, HistoryFields
  <2>5. StateInv(x) BY <2>1, <2>2, <2>3, <2>4, FreshState
  <2> QED BY <1>4, <1>7, <2>1, <2>2, <2>3, <2>4, <2>5
<1> QED BY <1>6, <1>7

LEMMA RefusedOnly ==
  ASSUME NEW s, NEW wanted \in {GS_WARMUP, GS_PLAYING}
  PROVE  Refused(s, wanted) <=> s.gamestate = GS_WARMUP /\ wanted = GS_WARMUP
BY DEF Refused, NewGamestate

\* A restart that is refused ends a recording, which there should not be.
LEMMA RestartRefused ==
  ASSUME NEW s \in Game, NEW x, x = RestartMap(s, GS_WARMUP), s.gamestate = GS_WARMUP
  PROVE  Changes(s, x, {"recorder"}, {}) /\ x.recorder = NotRecording
<1>1. Refused(s, GS_WARMUP) BY RefusedOnly
<1> QED BY <1>1, DiscardChanges DEF RestartMap

LEMMA RestartMapChanges ==
  ASSUME NEW s \in Game, NEW wanted \in {GS_WARMUP, GS_PLAYING}, NEW x, x = RestartMap(s, wanted),
         ~Refused(s, wanted)
  PROVE  /\ x \in Game /\ Fresh(x) /\ StateInv(x)
         /\ x.gamestate = IF s.gamestate = GS_INTERMISSION THEN GS_WARMUP ELSE wanted
         /\ x.seen = x.gamestate
         /\ x.buffer = s.buffer /\ x.history.typed = s.history.typed
         /\ x.gamestate = GS_WARMUP =>
              x.recorder = IF wanted = GS_PLAYING THEN s.recorder ELSE NotRecording
         /\ x.gamestate = GS_PLAYING =>
              x.recorder = IF s.recorder = NotRecording THEN 2 ELSE s.recorder + 1
<1> DEFINE d == Discard(s, wanted)
           g == NewGamestate(s, wanted)
<1>1. /\ Changes(s, d, {"recorder"}, {})
      /\ d.recorder = IF wanted = GS_PLAYING THEN s.recorder ELSE NotRecording
  BY DiscardChanges
<1>2. d \in Game /\ d.buffer = s.buffer /\ d.history.typed = s.history.typed
  BY <1>1 DEF Changes, Fields, HistoryFields
<1>3. g = IF s.gamestate = GS_INTERMISSION THEN GS_WARMUP ELSE wanted
  BY DEF NewGamestate
<1>4. g \in GameStates BY <1>3 DEF GameStates, Recorded
<1>5. x = RestartGame(d, g) BY DEF RestartMap
<1> HIDE DEF d, g
<1>6. /\ x \in Game /\ Fresh(x) /\ x.gamestate = g /\ x.seen = g
      /\ x.buffer = d.buffer /\ x.history.typed = d.history.typed
      /\ x.recorder = IF g # GS_PLAYING THEN d.recorder
                      ELSE IF d.recorder = NotRecording THEN 2 ELSE d.recorder + 1
      /\ StateInv(x)
  BY <1>2, <1>4, <1>5, RestartGameChanges
<1> QED BY <1>1, <1>2, <1>3, <1>6

LEMMA ResetMatchChanges ==
  ASSUME NEW s \in Game, NEW x, x = Svcmd_ResetMatch_f(s)
  PROVE  /\ Changes(s, x, {"recorder", "ready", "stopSignaled", "buffer"}, {})
         /\ x.ready = {} /\ x.buffer = Append(s.buffer, ToWarmup)
         /\ x.stopSignaled = (s.stopSignaled \/ s.seen = GS_PLAYING)
         /\ x.recorder = IF s.seen = GS_PLAYING /\ ~s.stopSignaled THEN NotRecording ELSE s.recorder
<1> DEFINE abort == s.seen = GS_PLAYING /\ ~s.stopSignaled
           stopped == IF abort THEN WTV_RecordStop(s, TRUE) ELSE s
           y == [stopped EXCEPT !.ready = {}, !.stopSignaled = stopped.stopSignaled \/ abort,
                                !.buffer = Append(stopped.buffer, ToWarmup)]
<1>1. /\ Changes(s, stopped, {"recorder"}, {})
      /\ stopped.recorder = IF abort THEN NotRecording ELSE s.recorder
  <2>1. CASE abort
    <3>1. /\ Changes(s, stopped, {"recorder"}, {"kept"}) /\ stopped.recorder = NotRecording
          /\ stopped.history.kept = s.history.kept
      BY <2>1, WTV_RecordStopChanges
    <3> QED BY <2>1, <3>1 DEF Changes
  <2>2. CASE ~abort BY <2>2 DEF Changes
  <2> QED BY <2>1, <2>2
<1>2. /\ stopped \in Game /\ stopped.buffer = s.buffer /\ stopped.stopSignaled = s.stopSignaled
      /\ stopped.seen = s.seen
  BY <1>1 DEF Changes, Fields
<1>3. x = y BY DEF Svcmd_ResetMatch_f
<1>4. s.stopSignaled \in BOOLEAN BY DEF Game
<1> HIDE DEF stopped
<1>5. Append(stopped.buffer, ToWarmup) \in Seq(Commands)
  BY <1>2, BufferAppended DEF Game, Commands
<1>6. y \in Game
  BY <1>2, <1>5 DEF Game
<1>7. /\ \A f \in Fields \ {"ready", "stopSignaled", "buffer"} : y[f] = stopped[f]
      /\ y.history = stopped.history /\ y.ready = {}
      /\ y.buffer = Append(stopped.buffer, ToWarmup)
      /\ y.stopSignaled = (stopped.stopSignaled \/ abort)
  BY <1>2 DEF Game, Fields
<1> HIDE DEF y
<1>8. Changes(stopped, y, {"ready", "stopSignaled", "buffer"}, {}) BY <1>6, <1>7 DEF Changes
<1>9. Changes(s, y, {"recorder", "ready", "stopSignaled", "buffer"}, {})
  BY <1>1, <1>8 DEF Changes
<1>10. y.recorder = stopped.recorder BY <1>7 DEF Fields
<1> QED BY <1>1, <1>2, <1>3, <1>4, <1>7, <1>9, <1>10

\* The game, and whether the map was restarted in this frame.
Run == [match : Game, restarted : BOOLEAN]

\* The timeout that was, or none.
SamePause(s, x) ==
  \/ x.paused = s.paused /\ x.history.timeout = s.history.timeout
  \/ x.paused = PAUSE_NONE /\ x.history.timeout = 0

Runs(r) == StateInv(r.match) /\ r.match.intermission < ExitDelay /\ Holds(r.match, {ToWarmup})

\* A command adds nothing but the restart to warmup, and once the map was
\* restarted the gamestate stays.
LEMMA CommandExecuted ==
  ASSUME NEW r \in Run, NEW command \in Commands, Runs(r), NEW y, y = ExecuteCommand(r, command)
  PROVE  /\ y \in Run /\ Runs(y) /\ SamePause(r.match, y.match)
         /\ y.match.history.typed = r.match.history.typed
         /\ command # ResetMatch => y.match.buffer = r.match.buffer
         /\ r.restarted => y.restarted /\ y.match.gamestate = r.match.gamestate
<1> DEFINE s == r.match
           x == y.match
<1>1. s \in Game /\ StateInv(s) /\ s.intermission < ExitDelay /\ r.restarted \in BOOLEAN
  BY DEF Run, Runs
<1>2. CASE command = ResetMatch
  <2>1. y \in Run /\ x = Svcmd_ResetMatch_f(s) /\ y.restarted = r.restarted
    <3>1. Svcmd_ResetMatch_f(s) \in Game BY <1>1, ResetMatchChanges DEF Changes
    <3> QED BY <1>2, <3>1 DEF ExecuteCommand, Run
  <2>2. /\ Changes(s, x, {"recorder", "ready", "stopSignaled", "buffer"}, {})
        /\ x.ready = {} /\ x.buffer = Append(s.buffer, ToWarmup)
    BY <1>1, <2>1, ResetMatchChanges
  <2>3. /\ x.paused = s.paused /\ x.gamestate = s.gamestate /\ x.intermission = s.intermission
        /\ x.history.timeout = s.history.timeout /\ x.history.typed = s.history.typed
    BY <2>2 DEF Changes, Fields, HistoryFields
  <2>4. StateInv(x) BY <1>1, <2>2, StateSame
  <2>5. Holds(x, {ToWarmup})
    <3>1. s.buffer \in Seq(Commands) /\ ToWarmup \in Commands BY <1>1 DEF Game, Commands
    <3>2. \A i \in 1 .. Len(s.buffer) : s.buffer[i] = ToWarmup
      BY <3>1, BufferAppended DEF Runs, Holds
    <3>3. \A i \in 1 .. Len(s.buffer) + 1 : x.buffer[i] = ToWarmup
      BY <2>2, <3>1, <3>2, BufferAppended
    <3> QED BY <2>2, <3>1, <3>3, BufferAppended DEF Holds
  <2> HIDE DEF x, s
  <2> QED BY <1>1, <1>2, <2>1, <2>3, <2>4, <2>5 DEF SamePause, Runs, x, s
<1>3. CASE command # ResetMatch /\ r.restarted
  <2>1. y = r BY <1>3 DEF ExecuteCommand, Ignored
  <2> QED BY <1>3, <2>1 DEF SamePause
<1>4. CASE command # ResetMatch /\ ~r.restarted
  <2> DEFINE wanted == Wanted(command)
  <2>1. wanted \in {GS_WARMUP, GS_PLAYING} BY DEF Wanted
  <2>2. y = [match |-> RestartMap(s, wanted), restarted |-> ~Refused(s, wanted)]
    BY <1>4 DEF ExecuteCommand, Ignored
  <2> HIDE DEF wanted
  <2>3. x = RestartMap(s, wanted) /\ y.restarted = ~Refused(s, wanted) BY <2>2
  <2>4. CASE Refused(s, wanted)
    <3>1. Changes(s, x, {"recorder"}, {}) BY <1>1, <2>1, <2>3, <2>4, RefusedOnly, RestartRefused
    <3>2. /\ x \in Game /\ x.paused = s.paused /\ x.intermission = s.intermission
          /\ x.buffer = s.buffer /\ x.ready = s.ready /\ x.players = s.players
          /\ x.history.timeout = s.history.timeout /\ x.history.typed = s.history.typed
      BY <3>1 DEF Changes, Fields, HistoryFields
    <3>3. StateInv(x) BY <1>1, <3>1, <3>2, StateSame DEF StateInv
    <3>4. y \in Run BY <2>2, <2>3, <3>2 DEF Run
    <3> QED BY <1>1, <1>4, <3>2, <3>3, <3>4 DEF SamePause, Runs, Holds
  <2>5. CASE ~Refused(s, wanted)
    <3>1. /\ x \in Game /\ Fresh(x) /\ StateInv(x)
          /\ x.buffer = s.buffer /\ x.history.typed = s.history.typed
      BY <1>1, <2>1, <2>3, <2>5, RestartMapChanges
    <3>2. x.paused = PAUSE_NONE /\ x.history.timeout = 0 /\ x.intermission = -1
      BY <3>1 DEF Fresh, Nothing
    <3>3. x.intermission < ExitDelay BY <3>2, Bounds
    <3>4. y \in Run BY <2>2, <2>3, <3>1 DEF Run
    <3> QED BY <1>4, <3>1, <3>2, <3>3, <3>4 DEF SamePause, Runs, Holds
  <2> QED BY <2>4, <2>5
<1> QED BY <1>2, <1>3, <1>4

\* Without its commands the game is as good as before.
LEMMA BufferEmptied ==
  ASSUME NEW s, StateInv(s), NEW x, x = [s EXCEPT !.buffer = <<>>]
  PROVE  /\ Changes(s, x, {"buffer"}, {}) /\ x.buffer = <<>> /\ StateInv(x) /\ Holds(x, {})
         /\ x.intermission = s.intermission /\ SamePause(s, x)
         /\ x.history = s.history
<1>1. s \in Game /\ <<>> \in Seq(Commands) BY DEF StateInv
<1>2. x \in Game /\ x.buffer = <<>> BY <1>1 DEF Game
<1>3. x.history = s.history /\ \A f \in Fields \ {"buffer"} : x[f] = s[f] BY <1>1 DEF Game, Fields
<1>4. Changes(s, x, {"buffer"}, {}) BY <1>2, <1>3 DEF Changes
<1>5. x.ready \subseteq x.players BY <1>3 DEF StateInv, Fields
<1>6. StateInv(x) BY <1>4, <1>5, StateSame
<1> QED BY <1>2, <1>3, <1>4, <1>6 DEF Holds, SamePause, Fields

\* What is left after the commands that were in the buffer.
LEMMA FirstCommands ==
  ASSUME NEW run \in Run, StateInv(run.match), run.match.intermission < ExitDelay,
         NEW x \in ExecuteBuffer(run)
  PROVE  /\ x \in Run /\ Runs(x) /\ SamePause(run.match, x.match)
         /\ x.match.history.typed = run.match.history.typed
         /\ Holds(run.match, {ToWarmup}) => x.match.buffer = <<>>
         /\ run.restarted => x.restarted /\ x.match.gamestate = run.match.gamestate
<1> DEFINE s == run.match
           N == Len(s.buffer)
           base == [run EXCEPT !.match.buffer = <<>>]
           Good(r) == /\ r \in Run /\ Runs(r) /\ SamePause(s, r.match)
                      /\ r.match.history.typed = s.history.typed
                      /\ Holds(s, {ToWarmup}) => r.match.buffer = <<>>
                      /\ run.restarted => r.restarted /\ r.match.gamestate = s.gamestate
           R == [n \in 0 .. N |-> {r \in Run : Good(r)}]
<1>1. s \in Game /\ s.buffer \in Seq(Commands) /\ N \in Nat /\ DOMAIN s.buffer = 1 .. N
  BY BufferAppended, LenProperties DEF Run, Game
<1>2. Good(base)
  <2>1. base \in Run /\ base.match = [s EXCEPT !.buffer = <<>>] /\ base.restarted = run.restarted
    <3>1. [s EXCEPT !.buffer = <<>>] \in Game BY BufferEmptied DEF Changes
    <3> QED BY <3>1 DEF Run
  <2> HIDE DEF base, s
  <2>2. /\ Changes(s, base.match, {"buffer"}, {}) /\ base.match.buffer = <<>> /\ StateInv(base.match)
        /\ Holds(base.match, {}) /\ base.match.intermission = s.intermission
        /\ SamePause(s, base.match) /\ base.match.history = s.history
    BY <2>1, BufferEmptied DEF s
  <2>3. base.match.gamestate = s.gamestate BY <2>2 DEF Changes, Fields
  <2> QED BY <2>1, <2>2, <2>3 DEF Runs, Holds, s
<1>3. ASSUME NEW n \in 1 .. N, NEW r, Good(r) PROVE Good(ExecuteCommand(r, s.buffer[n]))
  <2>1. s.buffer[n] \in Commands BY <1>1, ElementOfSeq
  <2>2. Holds(s, {ToWarmup}) => s.buffer[n] # ResetMatch
    BY <1>1 DEF Holds, ToWarmup, ResetMatch
  <2> DEFINE y == ExecuteCommand(r, s.buffer[n])
  <2> HIDE DEF y, s, N
  <2>3. /\ y \in Run /\ Runs(y) /\ SamePause(r.match, y.match)
        /\ y.match.history.typed = r.match.history.typed
        /\ s.buffer[n] # ResetMatch => y.match.buffer = r.match.buffer
        /\ r.restarted => y.restarted /\ y.match.gamestate = r.match.gamestate
    BY <1>3, <2>1, CommandExecuted DEF y
  <2>4. SamePause(s, y.match) BY <1>3, <2>3 DEF SamePause
  <2> QED BY <1>3, <2>2, <2>3, <2>4 DEF y
<1> HIDE DEF base, Good
<1>4. base \in R[0] BY <1>1, <1>2 DEF Good
<1>5. \A n \in 1 .. N : \A r \in R[n - 1] : ExecuteCommand(r, s.buffer[n]) \in R[n]
  <2>1. SUFFICES ASSUME NEW n \in 1 .. N, NEW r \in R[n - 1]
                 PROVE  ExecuteCommand(r, s.buffer[n]) \in R[n]
    OBVIOUS
  <2>2. n - 1 \in 0 .. N /\ n \in 0 .. N BY <1>1
  <2>3. Good(r) BY <2>1, <2>2
  <2>4. Good(ExecuteCommand(r, s.buffer[n])) BY <1>3, <2>3
  <2> QED BY <2>2, <2>4 DEF Good
<1> HIDE DEF R
<1>6. ExecuteBuffer(run) \subseteq R[N] BY <1>1, <1>4, <1>5, BufferExecuted DEF base
<1>7. N \in 0 .. N BY <1>1
<1> QED BY <1>6, <1>7 DEF R, Good

Started(s) == [match |-> s, restarted |-> FALSE]

LEMMA CbufTwice ==
  ASSUME NEW s, NEW x \in Cbuf_Execute(s)
  PROVE  \E one \in ExecuteBuffer(Started(s)) : \E two \in ExecuteBuffer(one) : x = two.match
BY DEF Cbuf_Execute, Started

\* The commands are executed, and leave none.
LEMMA Executed ==
  ASSUME NEW s, StateInv(s), s.intermission < ExitDelay, NEW x \in Cbuf_Execute(s)
  PROVE  /\ StateInv(x) /\ x.intermission < ExitDelay /\ x.buffer = <<>> /\ SamePause(s, x)
         /\ x.history.typed = s.history.typed
<1>0. PICK one \in ExecuteBuffer(Started(s)) : \E two \in ExecuteBuffer(one) : x = two.match
  BY CbufTwice
<1>1. PICK two \in ExecuteBuffer(one) : x = two.match
  BY <1>0
<1>2. Started(s) \in Run /\ Started(s).match = s BY DEF Run, Started, StateInv
<1>3. /\ one \in Run /\ Runs(one) /\ SamePause(s, one.match)
      /\ one.match.history.typed = s.history.typed
  BY <1>2, FirstCommands
<1>4. /\ two \in Run /\ Runs(two) /\ SamePause(one.match, two.match)
      /\ two.match.history.typed = one.match.history.typed /\ two.match.buffer = <<>>
  BY <1>1, <1>3, FirstCommands DEF Runs
<1> QED BY <1>1, <1>3, <1>4 DEF Runs, SamePause

\* When the countdown was given up the commands lead to warmup.
LEMMA GivenUp ==
  ASSUME NEW s, StateInv(s), s.intermission < ExitDelay, BufferInv(s),
         s.gamestate = GS_WARMUP_COUNTDOWN, NEW j \in DOMAIN s.buffer, s.buffer[j] = ToWarmup,
         NEW x \in Cbuf_Execute(s)
  PROVE  x.gamestate = GS_WARMUP
<1> DEFINE N == Len(s.buffer)
           run == Started(s)
           base == [run EXCEPT !.match.buffer = <<>>]
           Good(n, r) == /\ r \in Run /\ Runs(r)
                         /\ n = 0 => ~r.restarted /\ r.match.gamestate = GS_WARMUP_COUNTDOWN
                         /\ n # 0 => r.restarted /\ r.match.gamestate = GS_WARMUP
           R == [n \in 0 .. N |-> {r \in Run : Good(n, r)}]
<1>0. PICK one \in ExecuteBuffer(run) : \E two \in ExecuteBuffer(one) : x = two.match
  BY CbufTwice
<1>1. PICK two \in ExecuteBuffer(one) : x = two.match
  BY <1>0
<1>2. run \in Run /\ run.match = s /\ run.restarted = FALSE
  BY DEF Run, Started, StateInv
<1>3. /\ s.buffer \in Seq(Commands) /\ N \in Nat \ {0} /\ DOMAIN s.buffer = 1 .. N
      /\ s.buffer[1] = ToWarmup
  <2>1. s.buffer \in Seq(Commands) BY DEF StateInv, Game
  <2>2. N \in Nat /\ DOMAIN s.buffer = 1 .. N BY <2>1, LenProperties
  <2>3. N # 0 BY <2>2
  <2> QED BY <2>1, <2>2, <2>3 DEF BufferInv
<1>4. Good(0, base)
  <2>1. base \in Run /\ base.match = [s EXCEPT !.buffer = <<>>] /\ base.restarted = FALSE
    <3>1. [s EXCEPT !.buffer = <<>>] \in Game BY BufferEmptied DEF Changes
    <3> QED BY <1>2, <3>1 DEF Run
  <2> HIDE DEF base
  <2>2. /\ Changes(s, base.match, {"buffer"}, {}) /\ StateInv(base.match)
        /\ Holds(base.match, {}) /\ base.match.intermission = s.intermission
    BY <2>1, BufferEmptied
  <2>3. base.match.gamestate = s.gamestate /\ base.match \in Game BY <2>2 DEF Changes, Fields
  <2> QED BY <2>1, <2>2, <2>3 DEF Runs, Holds, Run
<1>5. ASSUME NEW r, Good(0, r) PROVE Good(1, ExecuteCommand(r, ToWarmup))
  <2> DEFINE y == ExecuteCommand(r, ToWarmup)
  <2>1. ~Refused(r.match, GS_WARMUP) BY <1>5, RefusedOnly
  <2>2. y.match = RestartMap(r.match, GS_WARMUP) /\ y.restarted
    BY <1>5, <2>1 DEF ExecuteCommand, Ignored, Wanted, ToWarmup, ResetMatch
  <2> HIDE DEF y
  <2>3. y.match.gamestate = GS_WARMUP BY <1>5, <2>1, <2>2, RestartMapChanges DEF Run
  <2>4. y \in Run /\ Runs(y) BY <1>5, CommandExecuted DEF y, Commands
  <2> QED BY <2>2, <2>3, <2>4 DEF y
<1>6. ASSUME NEW n \in Nat \ {0}, NEW r, Good(n, r), NEW command \in Commands
      PROVE  Good(n + 1, ExecuteCommand(r, command))
  <2> DEFINE y == ExecuteCommand(r, command)
  <2> HIDE DEF y
  <2>1. /\ y \in Run /\ Runs(y)
        /\ r.restarted => y.restarted /\ y.match.gamestate = r.match.gamestate
    BY <1>6, CommandExecuted DEF y
  <2>2. n + 1 # 0 BY <1>6
  <2> QED BY <1>6, <2>1, <2>2 DEF y
<1> HIDE DEF base, Good
<1>7. base \in R[0] BY <1>3, <1>4 DEF Good
<1>8. ASSUME NEW n \in 1 .. N, NEW r \in R[n - 1] PROVE ExecuteCommand(r, s.buffer[n]) \in R[n]
  <2>1. n \in 0 .. N /\ n - 1 \in 0 .. N /\ n - 1 \in Nat /\ n - 1 + 1 = n /\ s.buffer[n] \in Commands
    BY <1>3, ElementOfSeq
  <2>2. Good(n - 1, r) BY <1>8, <2>1
  <2>3. Good(n, ExecuteCommand(r, s.buffer[n]))
    <3>1. CASE n = 1
      <4>1. n - 1 = 0 BY <3>1
      <4> QED BY <1>3, <1>5, <2>2, <3>1, <4>1
    <3>2. CASE n # 1
      <4>1. n - 1 \in Nat \ {0} BY <2>1, <3>2
      <4> HIDE DEF N
      <4> QED BY <1>6, <2>1, <2>2, <4>1
    <3> QED BY <3>1, <3>2
  <2> QED BY <2>1, <2>3 DEF Good
<1> HIDE DEF R
<1>9. ExecuteBuffer(run) \subseteq R[N] BY <1>2, <1>3, <1>7, <1>8, BufferExecuted DEF base
<1>10. Good(N, one)
  <2>1. N \in 0 .. N BY <1>3
  <2> QED BY <1>1, <1>9, <2>1 DEF R
<1>11. one.restarted /\ one.match.gamestate = GS_WARMUP /\ one \in Run /\ Runs(one)
  BY <1>3, <1>10 DEF Good
<1>12. two.match.gamestate = one.match.gamestate BY <1>1, <1>11, FirstCommands DEF Runs
<1> QED BY <1>1, <1>11, <1>12

LEMMA RecordSame ==
  ASSUME NEW s, NEW x, NEW fields, NEW remembered, NEW going, NEW thrown, RecordIn(s, going, thrown),
         Changes(s, x, fields, remembered),
         fields \cap {"gamestate", "recorder", "stopSignaled", "buffer", "intermission"} = {},
         remembered \cap {"kept", "typed"} = {}
  PROVE  RecordIn(x, going, thrown)
<1>1. /\ x.gamestate = s.gamestate /\ x.recorder = s.recorder /\ x.stopSignaled = s.stopSignaled
      /\ x.buffer = s.buffer /\ x.intermission = s.intermission
      /\ x.history.kept = s.history.kept /\ x.history.typed = s.history.typed
  BY DEF Changes, Fields, HistoryFields
<1> QED BY <1>1 DEF RecordIn, InRound, Going, WasKept, Thrown, Holds

\* The restart that begins with a command of the game's own.
LEMMA RecordRestarted ==
  ASSUME NEW s, StateInv(s), NEW command, NEW x,
         s.history.typed = 0,
         s.gamestate # GS_WARMUP,
         s.gamestate = GS_WARMUP_COUNTDOWN => s.recorder = 1 /\ command \in {ToPlaying, ToWarmup},
         s.gamestate = GS_PLAYING => command = ToWarmup,
         s.gamestate = GS_INTERMISSION =>
           command = ToWarmup \/ (command = NextMap /\ s.recorder = NotRecording),
         x = RestartMap(s, Wanted(command)), s.buffer = <<>>
  PROVE  ~Refused(s, Wanted(command)) /\ x.buffer = <<>> /\ RecordIn(x, StopDelay, StopDelay)
<1> DEFINE wanted == Wanted(command)
<1>1. wanted \in {GS_WARMUP, GS_PLAYING} BY DEF Wanted
<1>2. ~Refused(s, wanted) BY <1>1, RefusedOnly
<1>3. s \in Game /\ s.gamestate \in {GS_WARMUP_COUNTDOWN, GS_PLAYING, GS_INTERMISSION}
  BY DEF StateInv, Game, GameStates, Recorded
<1>4. /\ Fresh(x)
      /\ x.gamestate = IF s.gamestate = GS_INTERMISSION THEN GS_WARMUP ELSE wanted
      /\ x.buffer = <<>> /\ x.history.typed = 0
      /\ x.gamestate = GS_WARMUP => x.recorder = IF wanted = GS_PLAYING THEN s.recorder ELSE NotRecording
      /\ x.gamestate = GS_PLAYING =>
           x.recorder = IF s.recorder = NotRecording THEN 2 ELSE s.recorder + 1
  BY <1>1, <1>2, <1>3, RestartMapChanges
<1>5. /\ x.stopSignaled = FALSE /\ x.history.kept = <<>> /\ x.intermission = -1
      /\ x.gamestate \in {GS_WARMUP, GS_PLAYING}
  BY <1>1, <1>4 DEF Fresh, Nothing
<1>6. x.gamestate = GS_WARMUP => x.recorder = NotRecording
  <2>1. CASE s.gamestate = GS_INTERMISSION
    BY <1>4, <2>1 DEF Wanted, ToWarmup
  <2>2. CASE s.gamestate # GS_INTERMISSION
    BY <1>4, <2>2
  <2> QED BY <2>1, <2>2
<1>7. x.gamestate = GS_PLAYING => x.recorder = 2
  <2>1. SUFFICES ASSUME x.gamestate = GS_PLAYING PROVE x.recorder = 2 OBVIOUS
  <2>2. wanted = GS_PLAYING /\ s.gamestate # GS_INTERMISSION BY <1>4, <2>1
  <2>3. s.gamestate = GS_WARMUP_COUNTDOWN BY <1>3, <2>2 DEF Wanted, ToWarmup
  <2> QED BY <1>4, <2>1, <2>3
<1>8. -1 < StopDelay BY Bounds
<1> HIDE DEF wanted
<1> QED BY <1>2, <1>4, <1>5, <1>6, <1>7, <1>8 DEF RecordIn, InRound, Going, Holds, wanted

\* With no command typed there is one restart at most, and the recording is
\* that of the new level.
LEMMA RecordExecuted ==
  ASSUME NEW s, StateInv(s), s.intermission < ExitDelay, RecordInv(s), s.history.typed = 0,
         NEW x \in Cbuf_Execute(s)
  PROVE  RecordIn(x, StopDelay, StopDelay)
<1> DEFINE N == Len(s.buffer)
           run == Started(s)
           bare == [s EXCEPT !.buffer = <<>>]
           base == [run EXCEPT !.match.buffer = <<>>]
           Good(n, r) == /\ r \in Run /\ Runs(r) /\ r.match.buffer = <<>> /\ r.match.history.typed = 0
                         /\ n = 0 => ~r.restarted /\ r.match = bare
                         /\ n # 0 => r.restarted /\ RecordIn(r.match, StopDelay, StopDelay)
           R == [n \in 0 .. N |-> {r \in Run : Good(n, r)}]
<1>0. PICK one \in ExecuteBuffer(run) : \E two \in ExecuteBuffer(one) : x = two.match
  BY CbufTwice
<1>1. PICK two \in ExecuteBuffer(one) : x = two.match
  BY <1>0
<1>2. run \in Run /\ run.match = s /\ run.restarted = FALSE
  BY DEF Run, Started, StateInv
<1>3. s.buffer \in Seq(Commands) /\ N \in Nat /\ DOMAIN s.buffer = 1 .. N
  <2>1. s.buffer \in Seq(Commands) BY DEF StateInv, Game
  <2> QED BY <2>1, LenProperties
<1>4. /\ Changes(s, bare, {"buffer"}, {}) /\ StateInv(bare) /\ Holds(bare, {})
      /\ bare.intermission = s.intermission /\ bare.history = s.history /\ bare.buffer = <<>>
  BY BufferEmptied
<1>5. bare \in Game /\ \A f \in Fields \ {"buffer", "history"} : bare[f] = s[f]
  BY <1>4 DEF Changes
<1> HIDE DEF bare
<1>6. Good(0, base)
  <2>1. base \in Run /\ base.match = bare /\ base.restarted = FALSE
    BY <1>2, <1>5 DEF Run, bare
  <2> HIDE DEF base
  <2> QED BY <1>4, <2>1 DEF Runs, Holds
<1>7. ASSUME N # 0, NEW r, Good(0, r) PROVE Good(1, ExecuteCommand(r, s.buffer[1]))
  <2> DEFINE y == ExecuteCommand(r, s.buffer[1])
             c == s.buffer[1]
  <2>1. 1 \in DOMAIN s.buffer /\ c \in Commands BY <1>3, <1>7, ElementOfSeq
  <2> HIDE DEF y, c, N
  <2>2. s.gamestate # GS_WARMUP
    <3>1. CASE s.gamestate = GS_WARMUP
      <4>1. s.buffer = <<>> BY <3>1 DEF RecordInv, RecordIn
      <4> QED BY <1>3, <1>7, <4>1 DEF N
    <3> QED BY <3>1
  <2>3. /\ s.gamestate = GS_WARMUP_COUNTDOWN => s.recorder = 1 /\ c \in {ToPlaying, ToWarmup}
        /\ s.gamestate = GS_PLAYING => c = ToWarmup
        /\ s.gamestate = GS_INTERMISSION => c \in {ToWarmup, NextMap}
    BY <2>1 DEF RecordInv, RecordIn, Holds, c
  <2>4. s.gamestate = GS_INTERMISSION /\ c = NextMap => s.recorder = NotRecording
    <3>1. SUFFICES ASSUME s.gamestate = GS_INTERMISSION, c = NextMap PROVE s.recorder = NotRecording
      OBVIOUS
    <3>2. s.history.kept # <<>> BY <2>1, <3>1 DEF RecordInv, RecordIn, c
    <3>3. Going(s, StopDelay) \/ WasKept(s) \/ Thrown(s, StopDelay + 1)
      BY <3>1 DEF RecordInv, RecordIn, InRound
    <3> QED BY <3>2, <3>3 DEF Going, WasKept, Thrown
  <2>5. r.match = bare /\ ~r.restarted /\ r \in Run BY <1>7
  <2>6. bare.gamestate = s.gamestate /\ bare.recorder = s.recorder BY <1>5 DEF Fields
  <2> DEFINE z == RestartMap(bare, Wanted(c))
  <2>7. bare.history.typed = 0 BY <1>4
  <2>8. ~Refused(bare, Wanted(c)) /\ z.buffer = <<>> /\ RecordIn(z, StopDelay, StopDelay)
    BY <1>4, <2>2, <2>3, <2>4, <2>6, <2>7, RecordRestarted
  <2>9. c # ResetMatch
    <3>1. s.gamestate \in {GS_WARMUP_COUNTDOWN, GS_PLAYING, GS_INTERMISSION}
      BY <2>2 DEF StateInv, Game, GameStates, Recorded
    <3> QED BY <2>3, <3>1 DEF ToPlaying, ToWarmup, NextMap, ResetMatch
  <2>10. y.match = z /\ y.restarted
    BY <2>5, <2>8, <2>9 DEF ExecuteCommand, Ignored, y, c
  <2>11. y \in Run /\ Runs(y) /\ y.match.history.typed = r.match.history.typed
    BY <1>7, <2>1, CommandExecuted DEF y, c
  <2> HIDE DEF z
  <2> QED BY <1>7, <2>8, <2>10, <2>11 DEF y
<1>8. ASSUME NEW n \in Nat \ {0}, NEW r, Good(n, r), NEW c \in Commands, c # ResetMatch
      PROVE  Good(n + 1, ExecuteCommand(r, c))
  <2>1. ExecuteCommand(r, c) = r BY <1>8 DEF ExecuteCommand, Ignored
  <2>2. n + 1 # 0 BY <1>8
  <2> QED BY <1>8, <2>1, <2>2
<1>9. \A n \in 1 .. N : s.buffer[n] \in Commands /\ s.buffer[n] # ResetMatch
  <2>1. SUFFICES ASSUME NEW n \in 1 .. N
                 PROVE  s.buffer[n] \in Commands /\ s.buffer[n] # ResetMatch
    OBVIOUS
  <2>2. s.buffer[n] \in Commands BY <1>3, ElementOfSeq
  <2>3. s.buffer # <<>> BY <1>3
  <2>4. s.gamestate \in {GS_WARMUP, GS_WARMUP_COUNTDOWN, GS_PLAYING, GS_INTERMISSION}
    BY DEF StateInv, Game, GameStates, Recorded
  <2>5. s.buffer[n] \in {ToPlaying, ToWarmup, NextMap}
    BY <1>3, <2>3, <2>4 DEF RecordInv, RecordIn, Holds
  <2> QED BY <2>2, <2>5 DEF ToPlaying, ToWarmup, NextMap, ResetMatch
<1> HIDE DEF base, Good
<1>10. base \in R[0] BY <1>3, <1>6 DEF Good
<1>11. ASSUME NEW n \in 1 .. N, NEW r \in R[n - 1] PROVE ExecuteCommand(r, s.buffer[n]) \in R[n]
  <2>1. n \in 0 .. N /\ n - 1 \in 0 .. N /\ n - 1 \in Nat /\ n - 1 + 1 = n /\ N # 0
    BY <1>3
  <2>2. Good(n - 1, r) BY <1>11, <2>1
  <2>3. Good(n, ExecuteCommand(r, s.buffer[n]))
    <3>1. CASE n = 1
      <4>1. n - 1 = 0 BY <3>1
      <4> QED BY <1>7, <2>1, <2>2, <3>1, <4>1
    <3>2. CASE n # 1
      <4>1. n - 1 \in Nat \ {0} BY <2>1, <3>2
      <4>2. s.buffer[n] \in Commands /\ s.buffer[n] # ResetMatch BY <1>9, <1>11
      <4> HIDE DEF N
      <4> QED BY <1>8, <2>1, <2>2, <4>1, <4>2
    <3> QED BY <3>1, <3>2
  <2> QED BY <2>1, <2>3 DEF Good
<1> HIDE DEF R
<1>12. ExecuteBuffer(run) \subseteq R[N] BY <1>2, <1>3, <1>10, <1>11, BufferExecuted DEF base
<1>13. Good(N, one)
  <2>1. N \in 0 .. N BY <1>3
  <2> QED BY <1>0, <1>12, <2>1 DEF R
<1>14. one \in Run /\ one.match.buffer = <<>> /\ RecordIn(one.match, StopDelay, StopDelay)
  <2>1. CASE N # 0 BY <1>13, <2>1 DEF Good
  <2>2. CASE N = 0
    <3>1. one \in Run /\ one.match.buffer = <<>> /\ one.match = bare BY <1>13, <2>2 DEF Good
    <3>2. s.buffer = <<>> BY <1>3, <2>2, EmptySeq
    <3>3. /\ bare.gamestate = s.gamestate /\ bare.recorder = s.recorder
          /\ bare.stopSignaled = s.stopSignaled /\ bare.intermission = s.intermission
          /\ bare.history = s.history /\ bare.buffer = <<>>
      BY <1>4, <1>5 DEF Fields
    <3>4. RecordIn(bare, StopDelay, StopDelay)
      BY <3>2, <3>3 DEF RecordInv, RecordIn, InRound, Going, WasKept, Thrown, Holds
    <3> QED BY <3>1, <3>4
  <2> QED BY <2>1, <2>2
<1>15. ExecuteBuffer(one) \subseteq {[one EXCEPT !.match.buffer = <<>>]}
  <2> DEFINE Q == [n \in {0} |-> {[one EXCEPT !.match.buffer = <<>>]}]
  <2>1. one.match.buffer \in Seq(Commands) /\ Len(one.match.buffer) = 0 BY <1>14
  <2>2. [one EXCEPT !.match.buffer = <<>>] \in Q[0] OBVIOUS
  <2> HIDE DEF Q
  <2>3. \A n \in 1 .. Len(one.match.buffer) : \A r \in Q[n - 1] :
          ExecuteCommand(r, one.match.buffer[n]) \in Q[n]
    BY <2>1
  <2>4. ExecuteBuffer(one) \subseteq Q[Len(one.match.buffer)] BY <2>1, <2>2, <2>3, BufferExecuted
  <2> QED BY <2>1, <2>4 DEF Q
<1>16. two.match = [one.match EXCEPT !.buffer = <<>>]
  <2>1. two = [one EXCEPT !.match.buffer = <<>>] BY <1>1, <1>15
  <2> QED BY <1>14, <2>1 DEF Run
<1>17. x = [one.match EXCEPT !.buffer = <<>>] /\ one.match \in Game BY <1>1, <1>14, <1>16 DEF Run
<1>18. /\ x.gamestate = one.match.gamestate /\ x.recorder = one.match.recorder
       /\ x.stopSignaled = one.match.stopSignaled /\ x.buffer = one.match.buffer
       /\ x.intermission = one.match.intermission /\ x.history = one.match.history
  BY <1>14, <1>17 DEF Game
<1> QED BY <1>14, <1>18 DEF RecordIn, InRound, Going, WasKept, Thrown, Holds

-----------------------------------------------------------------------------
(* The stages of a frame *)

\* In a frame: before the countdown ends there is nothing in the buffer but
\* the restart to warmup, and its end is the last command there.
BufferFrame(s) ==
  s.gamestate \in {GS_WARMUP, GS_WARMUP_COUNTDOWN} =>
    \A i \in DOMAIN s.buffer : s.buffer[i] = ToWarmup \/ (s.restarted /\ i = Len(s.buffer))

Stage(s, going, thrown) == StateInv(s) /\ BufferFrame(s) /\ RecordIn(s, going, thrown)

SameTimeout(s, x) ==
  /\ x.paused = s.paused /\ x.history.timeout = s.history.timeout
  /\ x.history.leftover = s.history.leftover

\* Entities that have not thought in this frame are younger than the timeout.
Younger(s) ==
  s.paused \in Teams /\ ~s.history.leftover =>
    \A i \in DOMAIN s.entities : s.entities[i].kind = DP_PAUSEINFO => s.entities[i].age < s.history.timeout

LEMMA ClockRuns ==
  ASSUME NEW s, StateInv(s), s.gamestate = GS_PLAYING, NEW x, x = Clock(s)
  PROVE  /\ Changes(s, x, {"time", "timeCurrent", "timeDelta", "levelStart"}, {"played"})
         /\ ClockInv(x)
<1> DEFINE running == s.paused = PAUSE_NONE
           delta == IF running THEN s.timeDelta ELSE s.time + 1 - s.timeCurrent
           current == IF running THEN Elapsed(s) ELSE s.timeCurrent
           start == IF ~running /\ s.time % TellEvery = 0 THEN delta ELSE s.levelStart
           played == IF running THEN s.history.played + 1 ELSE s.history.played
           h == [s.history EXCEPT !.played = played]
           y == [s EXCEPT !.time = s.time + 1, !.timeCurrent = current, !.timeDelta = delta,
                          !.levelStart = start, !.history = h]
<1>1. s \in Game /\ s.history \in History BY DEF StateInv, Game
<1>2. /\ s.time \in Nat /\ s.timeCurrent \in Int /\ s.timeDelta \in Int /\ s.levelStart \in Int
      /\ s.history.played \in Nat
  BY <1>1 DEF Game, History
<1>3. s.time + 1 \in Nat /\ delta \in Int /\ current \in Int /\ start \in Int /\ played \in Nat
  BY <1>2 DEF Elapsed
<1>4. x = y BY DEF Clock
<1>5. /\ s.timeCurrent = s.history.played /\ s.time - s.timeDelta = s.timeCurrent
      /\ running => s.levelStart = s.timeDelta
  BY DEF StateInv, ClockInv
<1>6. /\ current = played /\ s.time + 1 - delta = current
      /\ running => start = delta
  BY <1>2, <1>5 DEF Elapsed
<1> HIDE DEF delta, current, start, played
<1>7. h \in History /\ h.played = played /\ \A f \in HistoryFields \ {"played"} : h[f] = s.history[f]
  BY <1>1, <1>3 DEF History, HistoryFields
<1> HIDE DEF h
<1>8. y \in Game BY <1>1, <1>3, <1>7 DEF Game
<1>9. /\ y.time = s.time + 1 /\ y.timeCurrent = current /\ y.timeDelta = delta /\ y.levelStart = start
      /\ y.history = h
      /\ \A f \in Fields \ {"time", "timeCurrent", "timeDelta", "levelStart", "history"} : y[f] = s[f]
  BY <1>1 DEF Game, Fields
<1> HIDE DEF y
<1>10. Changes(s, y, {"time", "timeCurrent", "timeDelta", "levelStart"}, {"played"})
  BY <1>7, <1>8, <1>9 DEF Changes
<1>11. y.paused = s.paused BY <1>9 DEF Fields
<1>12. y.time - y.timeDelta = y.timeCurrent /\ y.timeCurrent = y.history.played
  BY <1>2, <1>3, <1>6, <1>7, <1>9
<1>13. y.paused = PAUSE_NONE => y.levelStart = y.timeDelta
  BY <1>6, <1>9, <1>11
<1>14. ClockInv(y) BY <1>12, <1>13 DEF ClockInv
<1> QED BY <1>4, <1>10, <1>14

\* How long the timeout is in the next frame.
TimeoutAge(s) ==
  CASE s.paused \in Teams -> s.history.timeout + 1
    [] s.paused = PAUSE_NONE -> 0
    [] OTHER -> s.history.timeout

LEMMA BeginFrameChanges ==
  ASSUME NEW s, StateInv(s), s.intermission < ExitDelay, NEW x, x = BeginFrame(s)
  PROVE  /\ Changes(s, x, {"seen", "intermission", "time", "timeCurrent", "timeDelta", "levelStart"},
                    {"timeout", "played"})
         /\ x.seen = s.gamestate
         /\ x.intermission = IF s.intermission >= 0 THEN s.intermission + 1 ELSE s.intermission
         /\ x.history.timeout = TimeoutAge(s)
         /\ ClockInv(x)
<1> DEFINE c == IF s.gamestate = GS_PLAYING THEN Clock(s) ELSE s
           i == IF s.intermission >= 0 THEN s.intermission + 1 ELSE s.intermission
           h == [c.history EXCEPT !.timeout = TimeoutAge(s)]
           y == [c EXCEPT !.seen = s.gamestate, !.intermission = i, !.history = h]
<1>1. s \in Game /\ ClockInv(s) BY DEF StateInv
<1>2. /\ Changes(s, c, {"time", "timeCurrent", "timeDelta", "levelStart"}, {"played"})
      /\ ClockInv(c)
  <2>1. CASE s.gamestate = GS_PLAYING BY <2>1, ClockRuns
  <2>2. CASE s.gamestate # GS_PLAYING BY <1>1, <2>2 DEF Changes
  <2> QED BY <2>1, <2>2
<1> HIDE DEF c
<1>3. /\ c \in Game /\ c.intermission = s.intermission /\ c.history.timeout = s.history.timeout
      /\ c.gamestate = s.gamestate
  BY <1>2 DEF Changes, Fields, HistoryFields
<1>4. s.intermission \in -1 .. ExitDelay /\ s.history.timeout \in Nat /\ s.gamestate \in GameStates
  BY <1>1 DEF Game, History
<1>5. i \in -1 .. ExitDelay BY <1>4, Bounds
<1>6. TimeoutAge(s) \in Nat BY <1>4 DEF TimeoutAge
<1>7. x = y BY <1>3 DEF BeginFrame, TimeoutAge, c
<1> HIDE DEF i
<1>8. /\ h \in History /\ h.timeout = TimeoutAge(s)
      /\ \A f \in HistoryFields \ {"timeout"} : h[f] = c.history[f]
  BY <1>3, <1>6 DEF Game, History, HistoryFields
<1> HIDE DEF h
<1>9. y \in Game BY <1>3, <1>4, <1>5, <1>8 DEF Game
<1>10. /\ y.seen = s.gamestate /\ y.intermission = i /\ y.history = h
       /\ \A f \in Fields \ {"seen", "intermission", "history"} : y[f] = c[f]
  BY <1>3 DEF Game, Fields
<1> HIDE DEF y
<1>11. Changes(c, y, {"seen", "intermission"}, {"timeout"}) BY <1>8, <1>9, <1>10 DEF Changes
<1>12. ClockInv(y) BY <1>2, <1>11, ClockSame
<1>13. Changes(s, y, {"seen", "intermission", "time", "timeCurrent", "timeDelta", "levelStart"},
               {"timeout", "played"})
  BY <1>2, <1>11 DEF Changes
<1> QED BY <1>7, <1>8, <1>10, <1>12, <1>13 DEF i

LEMMA BeginFrameStage ==
  ASSUME NEW s, StateInv(s), s.intermission < ExitDelay, BufferFrame(s), NEW x, x = BeginFrame(s),
         NEW t0, NEW t1, RecordIn(s, StopDelay, t0),
         (t0 = -1 /\ t1 = -1) \/ (t0 = StopDelay /\ t1 = StopDelay + 1)
  PROVE  /\ x \in Game /\ x.ready \subseteq x.players /\ x.seen = x.gamestate
         /\ ClockInv(x) /\ KeptInv(x) /\ Younger(x) /\ SeenInv(x)
         /\ BufferFrame(x) /\ RecordIn(x, StopDelay + 1, t1)
         /\ x.restarted = s.restarted /\ x.paused = s.paused /\ x.history.timeout = TimeoutAge(s)
         /\ x.history.leftover = s.history.leftover /\ x.history.typed = s.history.typed
<1>1. /\ Changes(s, x, {"seen", "intermission", "time", "timeCurrent", "timeDelta", "levelStart"},
                 {"timeout", "played"})
      /\ x.seen = s.gamestate
      /\ x.intermission = IF s.intermission >= 0 THEN s.intermission + 1 ELSE s.intermission
      /\ x.history.timeout = TimeoutAge(s)
      /\ ClockInv(x)
  BY BeginFrameChanges
<1>2. /\ x \in Game /\ x.gamestate = s.gamestate /\ x.restarted = s.restarted /\ x.paused = s.paused
      /\ x.entities = s.entities /\ x.queued = s.queued /\ x.ready = s.ready /\ x.players = s.players
      /\ x.buffer = s.buffer /\ x.recorder = s.recorder /\ x.stopSignaled = s.stopSignaled
      /\ x.history.leftover = s.history.leftover /\ x.history.typed = s.history.typed
      /\ x.history.kept = s.history.kept
  BY <1>1 DEF Changes, Fields, HistoryFields
<1>3. KeptInv(x) BY <1>1, KeptSame DEF StateInv
<1>4. Younger(x)
  <2>1. SUFFICES ASSUME x.paused \in Teams, ~x.history.leftover, NEW i \in DOMAIN x.entities,
                        x.entities[i].kind = DP_PAUSEINFO
                 PROVE  x.entities[i].age < x.history.timeout
    BY DEF Younger
  <2>2. s.entities[i].age <= s.history.timeout BY <1>2, <2>1 DEF StateInv, PauseInv
  <2>3. x.history.timeout = s.history.timeout + 1
    <3>1. s.paused \in Teams /\ s.paused # PAUSE_NONE BY <1>2, <2>1, Bounds
    <3>2. TimeoutAge(s) = s.history.timeout + 1 BY <3>1 DEF TimeoutAge
    <3> QED BY <1>1, <3>2
  <2>4. s.entities \in Seq(Entity) /\ s.history.timeout \in Nat BY DEF StateInv, Game, History
  <2>5. s.entities[i] \in Entity
    <3>1. i \in 1 .. Len(s.entities) BY <1>2, <2>1, <2>4, LenProperties
    <3> QED BY <2>4, <3>1, ElementOfSeq
  <2>6. s.entities[i].age \in Nat BY <2>5 DEF Entity
  <2> QED BY <1>2, <2>2, <2>3, <2>4, <2>6
<1>5. s.intermission \in -1 .. ExitDelay /\ StopDelay \in Nat BY Bounds DEF StateInv, Game
<1>6. SeenInv(x) BY <1>1, <1>2, <1>5 DEF StateInv, SeenInv, InRound
<1>7. BufferFrame(x) BY <1>2 DEF BufferFrame
<1>8. RecordIn(x, StopDelay + 1, t1)
  <2>1. s.intermission < StopDelay => x.intermission < StopDelay + 1 BY <1>1, <1>5
  <2>2. s.intermission < t0 => x.intermission < t1 BY <1>1, <1>5
  <2>3. Going(s, StopDelay) => Going(x, StopDelay + 1) BY <1>2, <2>1 DEF Going
  <2>4. Thrown(s, t0) => Thrown(x, t1) BY <1>2, <2>2 DEF Thrown
  <2> QED BY <1>2, <2>3, <2>4 DEF RecordIn, InRound, WasKept, Holds
<1> QED BY <1>1, <1>2, <1>3, <1>4, <1>6, <1>7, <1>8 DEF StateInv

LEMMA EntityAppended ==
  ASSUME NEW b \in Seq(Entity), NEW c \in Entity
  PROVE  /\ Append(b, c) \in Seq(Entity) /\ Len(b) \in Nat
         /\ DOMAIN b = 1 .. Len(b) /\ DOMAIN Append(b, c) = 1 .. Len(b) + 1
         /\ \A i \in 1 .. Len(b) : Append(b, c)[i] = b[i]
         /\ Append(b, c)[Len(b) + 1] = c
BY AppendProperties, LenProperties

\* An entity is freed, or thinks again a frame older, or ends the timeout, or
\* the wait after it.
ThinkOutcome(y, e, z) ==
  \/ z = y
  \/ \E d \in Entity : /\ d.kind = e.kind /\ d.age = e.age + 1
                       /\ z = [y EXCEPT !.entities = Append(y.entities, d)]
  \/ /\ y.paused \in Teams /\ e.kind = DP_PAUSEINFO /\ TimeoutLength - (e.age + 1) <= 1
     /\ z = TimeoutOver(y)
  \/ /\ y.paused = PAUSE_UNPAUSING
     /\ z = [y EXCEPT !.paused = PAUSE_NONE, !.levelStart = y.timeDelta]

LEMMA ThinkOutcomes ==
  ASSUME NEW y \in Game, NEW e \in Entity, NEW z, z = G_RunThink(y, e)
  PROVE  ThinkOutcome(y, e, z)
<1> DEFINE older == [e EXCEPT !.age = e.age + 1, !.wait = e.wait - 1]
           again == [older EXCEPT !.wait = 1]
<1>1. e.age \in Nat /\ e.wait \in Int /\ e.age + 1 \in Nat /\ e.wait - 1 \in Int /\ 1 \in Int
  BY DEF Entity
<1>2. older \in Entity /\ older.kind = e.kind /\ older.age = e.age + 1
  BY <1>1 DEF Entity
<1>3. z = IF older.wait > 0 THEN [y EXCEPT !.entities = Append(y.entities, older)]
          ELSE G_delayPrint(y, older)
  BY DEF G_RunThink
<1> HIDE DEF older
<1>4. again \in Entity /\ again.kind = e.kind /\ again.age = e.age + 1
  BY <1>1, <1>2 DEF Entity
<1>5. CASE older.wait > 0
  BY <1>2, <1>3, <1>5 DEF ThinkOutcome
<1>6. CASE ~(older.wait > 0)
  <2> DEFINE back == [y EXCEPT !.entities = Append(y.entities, again)]
  <2>1. z = G_delayPrint(y, older) BY <1>3, <1>6
  <2>2. CASE older.kind = DP_PAUSEINFO /\ y.paused \in Teams
    <3>1. z = IF TimeoutLeft(older) > 1 THEN back ELSE TimeoutOver(y)
      BY <2>1, <2>2 DEF G_delayPrint
    <3> HIDE DEF back
    <3>2. CASE TimeoutLeft(older) > 1 BY <1>4, <3>1, <3>2 DEF back, ThinkOutcome
    <3>3. CASE ~(TimeoutLeft(older) > 1)
      <4>1. TimeoutLength - (e.age + 1) <= 1 BY <1>1, <1>2, <3>3, Bounds DEF TimeoutLeft
      <4> QED BY <1>2, <2>2, <3>1, <3>3, <4>1 DEF ThinkOutcome
    <3> QED BY <3>2, <3>3
  <2>3. CASE older.kind = DP_UNPAUSING /\ y.paused = PAUSE_UNPAUSING
    <3>1. z = IF UnpauseLeft(older) > 1 THEN back
              ELSE [y EXCEPT !.paused = PAUSE_NONE, !.levelStart = y.timeDelta]
      BY <2>1, <2>3 DEF G_delayPrint
    <3> HIDE DEF back
    <3>2. CASE UnpauseLeft(older) > 1 BY <1>4, <3>1, <3>2 DEF back, ThinkOutcome
    <3>3. CASE ~(UnpauseLeft(older) > 1) BY <2>3, <3>1, <3>3 DEF ThinkOutcome
    <3> QED BY <3>2, <3>3
  <2>4. CASE /\ ~(older.kind = DP_PAUSEINFO /\ y.paused \in Teams)
             /\ ~(older.kind = DP_UNPAUSING /\ y.paused = PAUSE_UNPAUSING)
    BY <2>1, <2>4 DEF G_delayPrint, ThinkOutcome
  <2> QED BY <2>2, <2>3, <2>4
<1> QED BY <1>5, <1>6

\* How a pause may go on while the entities think.
Over(s, x) ==
  /\ s.paused = PAUSE_NONE => x.paused = PAUSE_NONE
  /\ s.paused \notin Teams => x.paused \notin Teams
  /\ s.paused \in Teams =>
       \/ x.paused = s.paused
       \/ x.paused \notin Teams /\ (s.history.timeout >= TimeoutLength - 1 \/ s.history.leftover)

Thinking(s, x) ==
  Changes(s, x, {"paused", "entities", "levelStart"}, {}) /\ ClockInv(x) /\ PauseInv(x) /\ Over(s, x)

LEMMA TimeoutOverChanges ==
  ASSUME NEW y \in Game, NEW z, z = TimeoutOver(y)
  PROVE  /\ Changes(y, z, {"paused", "entities"}, {}) /\ z.paused = PAUSE_UNPAUSING
<1>1. Spawned(DP_UNPAUSING, 1) \in Entity BY DEF Spawned, Entity
<1>2. Append(y.entities, Spawned(DP_UNPAUSING, 1)) \in Seq(Entity)
  BY <1>1, EntityAppended DEF Game
<1>3. z \in Game BY <1>2 DEF TimeoutOver, Game
<1>4. /\ z.paused = PAUSE_UNPAUSING /\ z.history = y.history
      /\ \A f \in Fields \ {"paused", "entities"} : z[f] = y[f]
  BY DEF TimeoutOver, Game, Fields
<1> QED BY <1>3, <1>4 DEF Changes

LEMMA EntityThinks ==
  ASSUME NEW s \in Game, NEW y, Thinking(s, y), NEW e \in Entity,
         s.paused \in Teams /\ ~s.history.leftover /\ e.kind = DP_PAUSEINFO
           => e.age < s.history.timeout,
         NEW z, z = G_RunThink(y, e)
  PROVE  Thinking(s, z)
<1>1. y \in Game /\ Changes(s, y, {"paused", "entities", "levelStart"}, {}) BY DEF Thinking, Changes
<1>2. y.history.timeout = s.history.timeout /\ y.history.leftover = s.history.leftover
  BY <1>1 DEF Changes, HistoryFields
<1>3. e.age \in Nat /\ s.history.timeout \in Nat BY DEF Entity, Game, History
<1>4. y.entities \in Seq(Entity) /\ y.timeDelta \in Int BY <1>1 DEF Game
<1>5. CASE z = y BY <1>5
<1>6. ASSUME NEW d \in Entity, d.kind = e.kind, d.age = e.age + 1,
             z = [y EXCEPT !.entities = Append(y.entities, d)]
      PROVE  Thinking(s, z)
  <2>1. Append(y.entities, d) \in Seq(Entity) BY <1>4, EntityAppended
  <2>2. z \in Game BY <1>1, <1>6, <2>1 DEF Game
  <2>3. /\ z.entities = Append(y.entities, d) /\ z.history = y.history
        /\ \A f \in Fields \ {"entities"} : z[f] = y[f]
    BY <1>1, <1>6 DEF Game, Fields
  <2>4. Changes(y, z, {"entities"}, {}) BY <2>2, <2>3 DEF Changes
  <2>5. Changes(s, z, {"paused", "entities", "levelStart"}, {}) BY <1>1, <2>4 DEF Changes
  <2>6. ClockInv(z) BY <2>4, ClockSame DEF Thinking
  <2>7. z.paused = y.paused BY <2>3 DEF Fields
  <2>8. PauseInv(z)
    <3>1. SUFFICES ASSUME z.paused \in Teams, ~z.history.leftover, NEW i \in DOMAIN z.entities,
                          z.entities[i].kind = DP_PAUSEINFO
                   PROVE  z.entities[i].age <= z.history.timeout
      BY DEF PauseInv
    <3>2. s.paused \in Teams /\ ~s.history.leftover BY <1>2, <2>3, <2>7, <3>1 DEF Thinking, Over
    <3>3. CASE i \in DOMAIN y.entities
      <4>1. z.entities[i] = y.entities[i] BY <1>4, <2>3, <3>3, EntityAppended
      <4> QED BY <2>3, <2>7, <3>1, <3>3, <4>1 DEF Thinking, PauseInv
    <3>4. CASE i \notin DOMAIN y.entities
      <4>1. i = Len(y.entities) + 1 BY <1>4, <2>3, <3>1, <3>4, EntityAppended
      <4>2. z.entities[i] = d BY <1>4, <2>3, <4>1, EntityAppended
      <4>3. e.age < s.history.timeout BY <1>6, <3>1, <3>2, <4>2
      <4> QED BY <1>2, <1>3, <1>6, <2>3, <4>2, <4>3
    <3> QED BY <3>3, <3>4
  <2>9. Over(s, z) BY <2>7 DEF Thinking, Over
  <2> QED BY <2>5, <2>6, <2>8, <2>9 DEF Thinking
<1>7. ASSUME y.paused \in Teams, e.kind = DP_PAUSEINFO, TimeoutLength - (e.age + 1) <= 1,
             z = TimeoutOver(y)
      PROVE  Thinking(s, z)
  <2>1. Changes(y, z, {"paused", "entities"}, {}) /\ z.paused = PAUSE_UNPAUSING
    BY <1>1, <1>7, TimeoutOverChanges
  <2>2. Changes(s, z, {"paused", "entities", "levelStart"}, {}) BY <1>1, <2>1 DEF Changes
  <2>3. ClockInv(z)
    <3>1. /\ z.gamestate = y.gamestate /\ z.time = y.time /\ z.timeCurrent = y.timeCurrent
          /\ z.timeDelta = y.timeDelta /\ z.history.played = y.history.played
      BY <2>1 DEF Changes, Fields, HistoryFields
    <3> QED BY <2>1, <3>1 DEF Thinking, ClockInv
  <2>4. PauseInv(z) BY <2>1, Bounds DEF PauseInv
  <2>5. Over(s, z)
    <3>1. s.paused \in Teams BY <1>7 DEF Thinking, Over
    <3>2. ~s.history.leftover => e.age < s.history.timeout BY <1>7, <3>1
    <3>3. s.history.timeout >= TimeoutLength - 1 \/ s.history.leftover
      BY <1>3, <1>7, <3>2, Bounds
    <3> QED BY <2>1, <3>1, <3>3, Bounds DEF Over
  <2> QED BY <2>2, <2>3, <2>4, <2>5 DEF Thinking
<1>8. ASSUME y.paused = PAUSE_UNPAUSING,
             z = [y EXCEPT !.paused = PAUSE_NONE, !.levelStart = y.timeDelta]
      PROVE  Thinking(s, z)
  <2>1. z \in Game BY <1>1, <1>4, <1>8 DEF Game
  <2>2. /\ z.paused = PAUSE_NONE /\ z.levelStart = y.timeDelta /\ z.history = y.history
        /\ \A f \in Fields \ {"paused", "levelStart"} : z[f] = y[f]
    BY <1>1, <1>8 DEF Game, Fields
  <2>3. Changes(y, z, {"paused", "levelStart"}, {}) BY <2>1, <2>2 DEF Changes
  <2>4. Changes(s, z, {"paused", "entities", "levelStart"}, {}) BY <1>1, <2>3 DEF Changes
  <2>5. ClockInv(z)
    <3>1. /\ z.gamestate = y.gamestate /\ z.time = y.time /\ z.timeCurrent = y.timeCurrent
          /\ z.timeDelta = y.timeDelta /\ z.history.played = y.history.played
      BY <2>2 DEF Fields
    <3> QED BY <2>2, <3>1 DEF Thinking, ClockInv
  <2>6. PauseInv(z) BY <2>2, Bounds DEF PauseInv
  <2>7. Over(s, z)
    <3>1. s.paused # PAUSE_NONE BY <1>8 DEF Thinking, Over
    <3>2. s.paused \in Teams => s.history.timeout >= TimeoutLength - 1 \/ s.history.leftover
      BY <1>8, Bounds DEF Thinking, Over
    <3> QED BY <2>2, <3>1, <3>2, Bounds DEF Over
  <2> QED BY <2>4, <2>5, <2>6, <2>7 DEF Thinking
<1>9. ThinkOutcome(y, e, z) BY <1>1, ThinkOutcomes
<1> QED BY <1>5, <1>6, <1>7, <1>8, <1>9 DEF ThinkOutcome

\* Whatever the order in which the entities think.
LEMMA EntitiesThink ==
  ASSUME NEW s \in Game, ClockInv(s), Younger(s), NEW x \in RunEntities(s)
  PROVE  Thinking(s, x)
<1> DEFINE N == Len(s.entities)
           base == [s EXCEPT !.entities = <<>>]
           R == [n \in 0 .. N |-> {y \in Game : Thinking(s, y)}]
<1>1. s.entities \in Seq(Entity) /\ N \in Nat /\ DOMAIN s.entities = 1 .. N
  <2>1. s.entities \in Seq(Entity) BY DEF Game
  <2> QED BY <2>1, LenProperties
<1>2. Thinking(s, base)
  <2>1. <<>> \in Seq(Entity) OBVIOUS
  <2>2. base \in Game BY <2>1 DEF Game
  <2>3. /\ base.entities = <<>> /\ base.history = s.history
        /\ \A f \in Fields \ {"entities"} : base[f] = s[f]
    BY DEF Game, Fields
  <2> HIDE DEF base
  <2>4. Changes(s, base, {"entities"}, {}) BY <2>2, <2>3 DEF Changes
  <2>5. Changes(s, base, {"paused", "entities", "levelStart"}, {}) BY <2>4 DEF Changes
  <2>6. ClockInv(base) BY <2>4, ClockSame
  <2>7. PauseInv(base) BY <2>3 DEF PauseInv
  <2>8. base.paused = s.paused BY <2>3 DEF Fields
  <2> QED BY <2>5, <2>6, <2>7, <2>8 DEF Thinking, Over
<1>3. base \in Game BY <1>2 DEF Thinking, Changes
<1> HIDE DEF base
<1>4. ASSUME NEW n \in 1 .. N, NEW y \in R[n - 1] PROVE G_RunThink(y, s.entities[n]) \in R[n]
  <2>1. n \in 0 .. N /\ n - 1 \in 0 .. N /\ n \in DOMAIN s.entities BY <1>1
  <2>2. Thinking(s, y) BY <1>4, <2>1
  <2>3. s.entities[n] \in Entity BY <1>1, <1>4, ElementOfSeq
  <2>4. s.paused \in Teams /\ ~s.history.leftover /\ s.entities[n].kind = DP_PAUSEINFO
          => s.entities[n].age < s.history.timeout
    BY <2>1 DEF Younger
  <2>5. Thinking(s, G_RunThink(y, s.entities[n])) BY <2>2, <2>3, <2>4, EntityThinks
  <2>6. G_RunThink(y, s.entities[n]) \in Game BY <2>5 DEF Thinking, Changes
  <2> QED BY <2>1, <2>5, <2>6
<1>5. base \in R[0] BY <1>1, <1>2, <1>3
<1> HIDE DEF R
<1>6. RunEntities(s) \subseteq R[N] BY <1>1, <1>4, <1>5, EntitiesThought DEF base
<1>7. N \in 0 .. N BY <1>1
<1> QED BY <1>6, <1>7 DEF R

\* What the game does after its entities leaves the timeout alone.
SameAge(s, x) == SameTimeout(s, x) /\ x.history.typed = s.history.typed

LEMMA LogExitKept ==
  ASSUME NEW s, StateInv(s), NEW going, NEW thrown, RecordIn(s, going, thrown),
         NEW x, x = LogExit(s)
  PROVE  /\ StateInv(x) /\ RecordIn(x, going, thrown)
         /\ Changes(s, x, {"queued"}, {}) /\ SameAge(s, x)
<1>1. s \in Game BY DEF StateInv
<1>2. Changes(s, x, {"queued"}, {}) BY <1>1, LogExitChanges
<1>3. /\ x \in Game /\ x.ready = s.ready /\ x.players = s.players
      /\ x.gamestate = s.gamestate /\ x.seen = s.seen /\ x.intermission = s.intermission
      /\ x.paused = s.paused
      /\ \A f \in HistoryFields : x.history[f] = s.history[f]
  BY <1>2 DEF Changes, Fields
<1>4. ClockInv(x) /\ KeptInv(x) /\ PauseInv(x)
  BY <1>2, ClockSame, KeptSame, PauseSame DEF StateInv
<1>5. SeenInv(x)
  <2>1. CASE s.seen = GS_PLAYING
    BY <1>3, <2>1 DEF StateInv, SeenInv, InRound
  <2>2. CASE s.seen # GS_PLAYING
    BY <2>2 DEF StateInv, LogExit
  <2> QED BY <2>1, <2>2
<1>6. RecordIn(x, going, thrown) BY <1>2, RecordSame
<1>7. x.ready \subseteq x.players BY <1>3 DEF StateInv
<1> QED BY <1>2, <1>3, <1>4, <1>5, <1>6, <1>7
     DEF StateInv, SameAge, SameTimeout, HistoryFields

LEMMA LogExitStage ==
  ASSUME NEW s, NEW going, NEW thrown, Stage(s, going, thrown), NEW x, x = LogExit(s)
  PROVE  /\ Stage(x, going, thrown) /\ Changes(s, x, {"queued"}, {}) /\ SameAge(s, x)
<1>1. /\ StateInv(x) /\ RecordIn(x, going, thrown)
      /\ Changes(s, x, {"queued"}, {}) /\ SameAge(s, x)
  BY LogExitKept DEF Stage
<1>2. x.gamestate = s.gamestate /\ x.buffer = s.buffer /\ x.restarted = s.restarted
  BY <1>1 DEF Changes, Fields
<1>3. BufferFrame(x) BY <1>2 DEF Stage, BufferFrame
<1> QED BY <1>1, <1>3 DEF Stage

\* What is at the end of a longer buffer.
LEMMA HoldsMore ==
  ASSUME NEW b \in Seq(Commands), NEW c \in Commands
  PROVE  /\ \A i \in DOMAIN Append(b, c) : Append(b, c)[i] = c \/ (i \in DOMAIN b /\ Append(b, c)[i] = b[i])
         /\ \A i \in DOMAIN b : i \in DOMAIN Append(b, c) /\ Append(b, c)[i] = b[i]
         /\ \A i \in DOMAIN Append(b, c) : i \in DOMAIN b \/ i = Len(Append(b, c))
         /\ \E i \in DOMAIN Append(b, c) : Append(b, c)[i] = c
<1>1. /\ DOMAIN b = 1 .. Len(b) /\ Len(b) \in Nat /\ DOMAIN Append(b, c) = 1 .. Len(b) + 1
      /\ \A i \in 1 .. Len(b) : Append(b, c)[i] = b[i]
      /\ Append(b, c)[Len(b) + 1] = c /\ Len(Append(b, c)) = Len(b) + 1
  BY BufferAppended
<1>2. \A i \in 1 .. Len(b) + 1 : i \in 1 .. Len(b) \/ i = Len(b) + 1 BY <1>1
<1>3. Len(b) + 1 \in 1 .. Len(b) + 1 /\ \A i \in 1 .. Len(b) : i \in 1 .. Len(b) + 1 BY <1>1
<1> QED BY <1>1, <1>2, <1>3

\* The game appends a command of its own.
LEMMA AppendChanges ==
  ASSUME NEW s \in Game, NEW c \in Commands, NEW x, x = [s EXCEPT !.buffer = Append(s.buffer, c)]
  PROVE  /\ Changes(s, x, {"buffer"}, {}) /\ x.buffer = Append(s.buffer, c)
<1>1. Append(s.buffer, c) \in Seq(Commands) BY BufferAppended DEF Game
<1>2. x \in Game BY <1>1 DEF Game
<1>3. /\ x.buffer = Append(s.buffer, c) /\ x.history = s.history
      /\ \A f \in Fields \ {"buffer"} : x[f] = s[f]
  BY DEF Game, Fields
<1> QED BY <1>2, <1>3 DEF Changes

LEMMA CheckGameStateStage ==
  ASSUME NEW s, NEW going, NEW thrown, Stage(s, going, thrown), s.seen = s.gamestate, ~s.restarted,
         NEW x, x = CheckGameState(s)
  PROVE  /\ Stage(x, going, thrown) /\ SameAge(s, x) /\ ~x.restarted
         /\ x.intermission >= 0 => x.gamestate = GS_INTERMISSION
<1>1. /\ s \in Game /\ s.ready \subseteq s.players /\ ClockInv(s) /\ KeptInv(s) /\ PauseInv(s)
      /\ SeenInv(s) /\ BufferFrame(s) /\ RecordIn(s, going, thrown) /\ StateInv(s)
  BY DEF Stage, StateInv
<1>2. s.intermission \in Int BY <1>1 DEF Game
<1>3. ASSUME s.intermission >= 0, s.gamestate # GS_INTERMISSION
      PROVE  /\ Stage(x, going, thrown) /\ SameAge(s, x) /\ ~x.restarted
             /\ x.gamestate = GS_INTERMISSION
  <2>1. x = [s EXCEPT !.gamestate = GS_INTERMISSION] BY <1>3 DEF CheckGameState
  <2>2. s.gamestate = GS_PLAYING /\ s.seen = GS_PLAYING BY <1>1, <1>3 DEF SeenInv, InRound
  <2>3. GS_INTERMISSION \in GameStates BY DEF GameStates, Recorded
  <2>4. x \in Game BY <1>1, <2>1, <2>3 DEF Game
  <2>5. /\ x.gamestate = GS_INTERMISSION /\ x.history = s.history
        /\ \A f \in Fields \ {"gamestate"} : x[f] = s[f]
    BY <1>1, <2>1 DEF Game, Fields
  <2>6. Changes(s, x, {"gamestate"}, {}) BY <2>4, <2>5 DEF Changes
  <2>7. ClockInv(x) /\ KeptInv(x) BY <2>5 DEF ClockInv, KeptInv
  <2>8. PauseInv(x) BY <1>1, <2>6, PauseSame
  <2>9. SeenInv(x)
    <3>1. x.seen = GS_PLAYING BY <2>2, <2>5 DEF Fields
    <3> QED BY <2>5, <3>1 DEF SeenInv, InRound
  <2>10. BufferFrame(x) BY <2>5 DEF BufferFrame
  <2>11. RecordIn(x, going, thrown)
    <3>1. /\ x.recorder = s.recorder /\ x.stopSignaled = s.stopSignaled
          /\ x.buffer = s.buffer /\ x.intermission = s.intermission
      BY <2>5 DEF Fields
    <3> QED BY <1>1, <2>2, <2>5, <3>1 DEF RecordIn, InRound, Going, WasKept, Thrown, Holds
  <2>12. x.ready \subseteq x.players /\ x.paused = s.paused /\ ~x.restarted
    BY <1>1, <2>5 DEF Fields
  <2> QED BY <2>4, <2>5, <2>7, <2>8, <2>9, <2>10, <2>11, <2>12 DEF Stage, StateInv, SameAge, SameTimeout
<1>4. ASSUME s.intermission < 0 \/ s.gamestate = GS_INTERMISSION,
             s.gamestate = GS_WARMUP, G_playersReady(s)
      PROVE  Stage(x, going, thrown) /\ SameAge(s, x) /\ ~x.restarted /\ x.intermission < 0
  <2> DEFINE y == [s EXCEPT !.gamestate = GS_WARMUP_COUNTDOWN, !.countdown = 0]
  <2>1. x = WTV_RecordStart(y) BY <1>2, <1>4 DEF CheckGameState
  <2>2. GS_WARMUP_COUNTDOWN \in GameStates /\ 0 \in 0 .. CountdownLength
    BY Bounds DEF GameStates, Recorded
  <2>3. y \in Game BY <1>1, <2>2 DEF Game
  <2>4. /\ y.gamestate = GS_WARMUP_COUNTDOWN /\ y.history = s.history
        /\ \A f \in Fields \ {"gamestate", "countdown"} : y[f] = s[f]
    BY <1>1 DEF Game, Fields
  <2> HIDE DEF y
  <2>5. Changes(s, y, {"gamestate", "countdown"}, {}) BY <2>3, <2>4 DEF Changes
  <2>6. /\ Changes(y, x, {"recorder"}, {})
        /\ x.recorder = IF y.recorder # NotRecording THEN y.recorder
                        ELSE IF y.gamestate = GS_PLAYING THEN 2 ELSE 1
    BY <2>1, <2>3, WTV_RecordStartChanges
  <2>7. Changes(s, x, {"gamestate", "countdown", "recorder"}, {}) BY <2>5, <2>6 DEF Changes
  <2>8. /\ x \in Game /\ x.gamestate = GS_WARMUP_COUNTDOWN /\ x.seen = GS_WARMUP
        /\ x.intermission = s.intermission /\ x.queued = s.queued /\ x.buffer = s.buffer
        /\ x.restarted = s.restarted /\ x.stopSignaled = s.stopSignaled
        /\ x.ready = s.ready /\ x.players = s.players /\ x.paused = s.paused
        /\ \A f \in HistoryFields : x.history[f] = s.history[f]
    BY <1>4, <2>4, <2>6, <2>7 DEF Changes, Fields
  <2>9. ClockInv(x) /\ KeptInv(x) BY <2>8 DEF ClockInv, KeptInv
  <2>10. PauseInv(x) BY <1>1, <2>7, PauseSame
  <2>11. ~(s.intermission >= 0 \/ s.queued) BY <1>1, <1>4 DEF SeenInv, InRound
  <2>12. SeenInv(x) BY <2>8, <2>11 DEF SeenInv
  <2>13. BufferFrame(x) BY <1>1, <1>4, <2>8 DEF BufferFrame
  <2>14. RecordIn(x, going, thrown)
    <3>1. SUFFICES ASSUME x.history.typed = 0 PROVE RecordIn(x, going, thrown) BY DEF RecordIn
    <3>2. /\ s.recorder = NotRecording /\ ~s.stopSignaled /\ s.history.kept = <<>> /\ s.buffer = <<>>
      BY <1>1, <1>4, <2>8, <3>1 DEF RecordIn, HistoryFields
    <3>3. x.recorder = 1 BY <2>4, <2>6, <3>2 DEF Fields
    <3> QED BY <2>8, <3>2, <3>3 DEF RecordIn, InRound, Holds, HistoryFields
  <2>15. x.intermission < 0 BY <1>4, <2>8
  <2> QED BY <1>1, <2>8, <2>9, <2>10, <2>12, <2>13, <2>14, <2>15
       DEF Stage, StateInv, SameAge, SameTimeout, HistoryFields
<1>5. ASSUME s.intermission < 0 \/ s.gamestate = GS_INTERMISSION,
             s.gamestate = GS_WARMUP_COUNTDOWN, ~G_playersReady(s)
      PROVE  Stage(x, going, thrown) /\ SameAge(s, x) /\ ~x.restarted /\ x.intermission < 0
  <2>1. x = [s EXCEPT !.buffer = Append(s.buffer, ToWarmup)]
    BY <1>2, <1>5 DEF CheckGameState
  <2>2. ToWarmup \in Commands /\ s.buffer \in Seq(Commands) BY <1>1 DEF Commands, Game
  <2>3. Changes(s, x, {"buffer"}, {}) /\ x.buffer = Append(s.buffer, ToWarmup)
    BY <1>1, <2>1, <2>2, AppendChanges
  <2>4. /\ x \in Game /\ x.gamestate = s.gamestate /\ x.restarted = s.restarted
        /\ x.recorder = s.recorder /\ x.stopSignaled = s.stopSignaled
        /\ x.intermission = s.intermission /\ x.paused = s.paused
        /\ x.ready = s.ready /\ x.players = s.players
        /\ \A f \in HistoryFields : x.history[f] = s.history[f]
    BY <2>3 DEF Changes, Fields
  <2>5. StateInv(x) BY <1>1, <2>3, <2>4, StateSame
  <2>6. BufferFrame(x)
    <3>1. \A i \in DOMAIN s.buffer : s.buffer[i] = ToWarmup BY <1>1, <1>5 DEF BufferFrame
    <3>2. \A i \in DOMAIN x.buffer : x.buffer[i] = ToWarmup BY <2>2, <2>3, <3>1, HoldsMore
    <3> QED BY <3>2 DEF BufferFrame
  <2>7. RecordIn(x, going, thrown)
    <3>1. SUFFICES ASSUME x.history.typed = 0 PROVE RecordIn(x, going, thrown) BY DEF RecordIn
    <3>2. /\ s.recorder = 1 /\ ~s.stopSignaled /\ s.history.kept = <<>>
          /\ Holds(s, {ToPlaying, ToWarmup})
      BY <1>1, <1>5, <2>4, <3>1 DEF RecordIn, HistoryFields
    <3>3. Holds(x, {ToPlaying, ToWarmup}) BY <2>2, <2>3, <3>2, HoldsMore DEF Holds
    <3>4. ~\E i \in DOMAIN x.buffer : x.buffer[i] = NextMap
      BY <3>3 DEF Holds, ToPlaying, ToWarmup, NextMap
    <3> QED BY <1>5, <2>4, <3>2, <3>3, <3>4 DEF RecordIn, InRound, HistoryFields
  <2> QED BY <1>1, <1>5, <2>4, <2>5, <2>6, <2>7 DEF Stage, SameAge, SameTimeout, HistoryFields
<1>6. ASSUME s.intermission < 0 \/ s.gamestate = GS_INTERMISSION, x = s
      PROVE  /\ Stage(x, going, thrown) /\ SameAge(s, x) /\ ~x.restarted
             /\ x.intermission >= 0 => x.gamestate = GS_INTERMISSION
  BY <1>2, <1>6 DEF SameAge, SameTimeout
<1>7. s.intermission < 0 \/ s.gamestate = GS_INTERMISSION
        => \/ s.gamestate = GS_WARMUP /\ G_playersReady(s)
           \/ s.gamestate = GS_WARMUP_COUNTDOWN /\ ~G_playersReady(s)
           \/ x = s
  BY <1>2 DEF CheckGameState
<1>8. ASSUME x.intermission < 0 PROVE x.intermission >= 0 => x.gamestate = GS_INTERMISSION
  <2>1. CASE x \in Game
    <3>1. x.intermission \in Int BY <2>1 DEF Game
    <3> QED BY <1>8, <3>1
  <2>2. CASE x \notin Game
    <3>1. FALSE BY <1>2, <1>3, <1>4, <1>5, <1>6, <1>7, <2>2 DEF Stage, StateInv
    <3> QED BY <3>1
  <2> QED BY <2>1, <2>2
<1> QED BY <1>2, <1>3, <1>4, <1>5, <1>6, <1>7, <1>8

\* No stage of a frame begins a round.
Plays(s, x) == x.gamestate = GS_PLAYING => s.gamestate = GS_PLAYING

LEMMA CheckGameStatePlays ==
  ASSUME NEW s \in Game, NEW x, x = CheckGameState(s)
  PROVE  Plays(s, x)
<1>1. s.intermission \in Int BY DEF Game
<1>2. CASE s.intermission >= 0 /\ s.gamestate # GS_INTERMISSION
  <2>1. x.gamestate = GS_INTERMISSION BY <1>2 DEF CheckGameState, Game
  <2> QED BY <2>1 DEF Plays
<1>3. CASE ~(s.intermission >= 0 /\ s.gamestate # GS_INTERMISSION)
  <2> DEFINE y == [s EXCEPT !.gamestate = GS_WARMUP_COUNTDOWN, !.countdown = 0]
  <2>1. CASE s.gamestate = GS_WARMUP /\ G_playersReady(s)
    <3>1. x = WTV_RecordStart(y) BY <1>3, <2>1 DEF CheckGameState
    <3>2. GS_WARMUP_COUNTDOWN \in GameStates /\ 0 \in 0 .. CountdownLength
      BY Bounds DEF GameStates, Recorded
    <3>3. y \in Game /\ y.gamestate = GS_WARMUP_COUNTDOWN BY <3>2 DEF Game
    <3> HIDE DEF y
    <3>4. x.gamestate = y.gamestate BY <3>1, <3>3, WTV_RecordStartChanges DEF Changes, Fields
    <3> QED BY <3>3, <3>4 DEF Plays
  <2>2. CASE s.gamestate = GS_WARMUP_COUNTDOWN /\ ~G_playersReady(s)
    <3>1. x = [s EXCEPT !.buffer = Append(s.buffer, ToWarmup)] BY <1>3, <2>2 DEF CheckGameState
    <3>2. x.gamestate = s.gamestate BY <3>1 DEF Game
    <3> QED BY <3>2 DEF Plays
  <2>3. CASE /\ ~(s.gamestate = GS_WARMUP /\ G_playersReady(s))
             /\ ~(s.gamestate = GS_WARMUP_COUNTDOWN /\ ~G_playersReady(s))
    <3>1. x = s BY <1>3, <2>3 DEF CheckGameState
    <3> QED BY <3>1 DEF Plays
  <2> QED BY <2>1, <2>2, <2>3
<1> QED BY <1>2, <1>3

\* The first half of a frame: the clock, and what thinks.
LEMMA ThoughtStage ==
  ASSUME NEW s, StateInv(s), s.intermission < ExitDelay, BufferFrame(s), ~s.restarted,
         NEW t0, NEW t1, RecordIn(s, StopDelay, t0),
         (t0 = -1 /\ t1 = -1) \/ (t0 = StopDelay /\ t1 = StopDelay + 1),
         NEW x \in RunEntities(BeginFrame(s))
  PROVE  /\ Stage(x, StopDelay + 1, t1) /\ x.seen = x.gamestate /\ ~x.restarted
         /\ x.gamestate = s.gamestate
         /\ Over(BeginFrame(s), x) /\ BeginFrame(s).paused = s.paused
         /\ BeginFrame(s).history.timeout = TimeoutAge(s) /\ x.history.timeout = TimeoutAge(s)
         /\ BeginFrame(s).history.leftover = s.history.leftover
         /\ x.history.leftover = s.history.leftover /\ x.history.typed = s.history.typed
<1> DEFINE b == BeginFrame(s)
<1>1. /\ b \in Game /\ b.ready \subseteq b.players /\ b.seen = b.gamestate
      /\ ClockInv(b) /\ KeptInv(b) /\ Younger(b) /\ SeenInv(b)
      /\ BufferFrame(b) /\ RecordIn(b, StopDelay + 1, t1)
      /\ b.restarted = s.restarted /\ b.paused = s.paused /\ b.history.timeout = TimeoutAge(s)
      /\ b.history.leftover = s.history.leftover /\ b.history.typed = s.history.typed
  BY BeginFrameStage
<1>2. b.gamestate = s.gamestate
  BY BeginFrameChanges DEF Changes, Fields
<1> HIDE DEF b
<1>3. Thinking(b, x)
  <2>1. x \in RunEntities(b) BY DEF b
  <2> QED BY <1>1, <2>1, EntitiesThink
<1>4. Changes(b, x, {"paused", "entities", "levelStart"}, {}) BY <1>3 DEF Thinking
<1>5. /\ x \in Game /\ x.ready = b.ready /\ x.players = b.players /\ x.seen = b.seen
      /\ x.gamestate = b.gamestate /\ x.restarted = b.restarted /\ x.buffer = b.buffer
      /\ \A f \in HistoryFields : x.history[f] = b.history[f]
  BY <1>4 DEF Changes, Fields
<1>6. KeptInv(x) /\ SeenInv(x) /\ RecordIn(x, StopDelay + 1, t1)
  BY <1>1, <1>4, KeptSame, SeenSame, RecordSame
<1>7. BufferFrame(x) BY <1>1, <1>5 DEF BufferFrame
<1> QED BY <1>1, <1>2, <1>3, <1>5, <1>6, <1>7 DEF Stage, StateInv, Thinking, HistoryFields, b

\* What the rules do before the end of an intermission, in a frame or between
\* two of them: a round is over, or its intermission begins.
RulesKept(s, x, going, thrown) ==
  /\ StateInv(x) /\ RecordIn(x, going, thrown) /\ SameAge(s, x)
  /\ x.gamestate = s.gamestate /\ x.restarted = s.restarted /\ x.buffer = s.buffer
  /\ x.intermission < ExitDelay

LEMMA Rules ==
  ASSUME NEW s, StateInv(s), s.intermission < ExitDelay,
         NEW going \in {StopDelay, StopDelay + 1}, NEW thrown,
         thrown = -1 \/ thrown = StopDelay + 1, RecordIn(s, going, thrown),
         NEW x \in CheckExitRules(s)
  PROVE  RulesKept(s, x, going, thrown)
<1>1. /\ s \in Game /\ s.ready \subseteq s.players /\ ClockInv(s) /\ KeptInv(s) /\ PauseInv(s)
      /\ SeenInv(s)
  BY DEF StateInv
<1>2. /\ s.intermission \in -1 .. ExitDelay /\ s.intermission \in Int
      /\ StopDelay \in Nat /\ ExitDelay \in Nat /\ ExitDelay > StopDelay /\ StopDelay > 0
      /\ 0 < going /\ 0 < ExitDelay
  BY <1>1, Bounds DEF Game
<1>3. CASE s.intermission < 0 /\ s.queued
  <2>1. x = [s EXCEPT !.queued = FALSE, !.intermission = 0]
    BY <1>2, <1>3 DEF CheckExitRules
  <2>2. 0 \in -1 .. ExitDelay BY <1>2
  <2>3. /\ x \in Game /\ x.intermission = 0 /\ x.history = s.history
        /\ \A f \in Fields \ {"intermission", "queued"} : x[f] = s[f]
    BY <1>1, <2>1, <2>2 DEF Game, Fields
  <2>4. Changes(s, x, {"queued", "intermission"}, {}) BY <2>3 DEF Changes
  <2>5. /\ x.gamestate = s.gamestate /\ x.seen = s.seen /\ x.restarted = s.restarted
        /\ x.recorder = s.recorder /\ x.stopSignaled = s.stopSignaled /\ x.buffer = s.buffer
        /\ x.paused = s.paused /\ x.ready = s.ready /\ x.players = s.players
    BY <2>3 DEF Fields
  <2>6. ClockInv(x) /\ KeptInv(x) /\ PauseInv(x)
    BY <1>1, <2>4, ClockSame, KeptSame, PauseSame
  <2>7. InRound(s) BY <1>1, <1>3 DEF SeenInv
  <2>8. SeenInv(x) BY <1>1, <2>5, <2>7 DEF SeenInv, InRound
  <2>9. RecordIn(x, going, thrown)
    <3>1. SUFFICES ASSUME x.history.typed = 0 PROVE RecordIn(x, going, thrown)
      BY DEF RecordIn
    <3>2. Going(s, going) \/ WasKept(s) \/ Thrown(s, thrown)
      BY <2>3, <2>7, <3>1 DEF RecordIn
    <3>3. Going(s, going) => Going(x, going)
      BY <1>2, <2>3, <2>5 DEF Going
    <3>4. WasKept(s) => WasKept(x) BY <2>3, <2>5 DEF WasKept
    <3>5. Thrown(s, thrown) => Thrown(x, thrown) BY <1>2, <1>3, <2>3, <2>5 DEF Thrown
    <3> QED BY <2>3, <2>5, <2>7, <3>1, <3>2, <3>3, <3>4, <3>5 DEF RecordIn, InRound, Holds
  <2> QED BY <1>1, <1>2, <2>3, <2>5, <2>6, <2>8, <2>9
       DEF RulesKept, StateInv, SameAge, SameTimeout
<1>4. CASE x = LogExit(s)
  <2>1. /\ StateInv(x) /\ RecordIn(x, going, thrown)
        /\ Changes(s, x, {"queued"}, {}) /\ SameAge(s, x)
    BY <1>4, LogExitKept
  <2>2. /\ x.gamestate = s.gamestate /\ x.restarted = s.restarted /\ x.buffer = s.buffer
        /\ x.intermission = s.intermission
    BY <2>1 DEF Changes, Fields
  <2> QED BY <2>1, <2>2 DEF RulesKept
<1>5. CASE x = s
  BY <1>5 DEF RulesKept, SameAge, SameTimeout
<1>6. ~(s.intermission >= ExitDelay) BY <1>2
<1>7. ~(s.intermission < 0 /\ s.queued) => x = LogExit(s) \/ x = s
  BY <1>6 DEF CheckExitRules, TimeIsUp
<1> QED BY <1>3, <1>4, <1>5, <1>7

\* The intermission is over once its time is: until then somebody who gave up
\* the round is not heard of.
LEMMA CheckExitRulesStage ==
  ASSUME NEW s, NEW thrown, thrown = -1 \/ thrown = StopDelay + 1,
         Stage(s, StopDelay + 1, thrown), s.intermission >= 0 => s.gamestate = GS_INTERMISSION,
         NEW x \in CheckExitRules(s)
  PROVE  /\ Stage(x, StopDelay + 1, thrown) /\ SameAge(s, x) /\ Plays(s, x)
         /\ x.restarted = s.restarted /\ x.intermission < ExitDelay
<1>1. /\ s \in Game /\ s.ready \subseteq s.players /\ ClockInv(s) /\ KeptInv(s) /\ PauseInv(s)
      /\ SeenInv(s) /\ BufferFrame(s) /\ RecordIn(s, StopDelay + 1, thrown) /\ StateInv(s)
  BY DEF Stage, StateInv
<1>2. /\ s.intermission \in -1 .. ExitDelay /\ s.intermission \in Int
      /\ StopDelay \in Nat /\ ExitDelay \in Nat /\ ExitDelay > StopDelay
  BY <1>1, Bounds DEF Game
<1>3. CASE s.intermission >= ExitDelay
  <2> DEFINE y == [s EXCEPT !.buffer = Append(s.buffer, NextMap)]
  <2>1. x = [y EXCEPT !.intermission = -1]
    BY <1>2, <1>3 DEF CheckExitRules, ExitLevel
  <2>2. NextMap \in Commands /\ s.buffer \in Seq(Commands) BY <1>1 DEF Commands, Game
  <2>3. Changes(s, y, {"buffer"}, {}) /\ y.buffer = Append(s.buffer, NextMap)
    BY <1>1, <2>2, AppendChanges
  <2> HIDE DEF y
  <2>4. y \in Game BY <2>3 DEF Changes
  <2>5. -1 \in -1 .. ExitDelay BY <1>2
  <2>6. /\ x \in Game /\ x.intermission = -1 /\ x.history = y.history
        /\ \A f \in Fields \ {"intermission"} : x[f] = y[f]
    BY <2>1, <2>4, <2>5 DEF Game, Fields
  <2>7. Changes(s, x, {"buffer", "intermission"}, {}) /\ x.buffer = Append(s.buffer, NextMap)
    BY <2>3, <2>6 DEF Changes, Fields
  <2>8. /\ x.gamestate = s.gamestate /\ x.seen = s.seen /\ x.restarted = s.restarted
        /\ x.recorder = s.recorder /\ x.stopSignaled = s.stopSignaled /\ x.queued = s.queued
        /\ x.paused = s.paused /\ x.ready = s.ready /\ x.players = s.players
        /\ \A f \in HistoryFields : x.history[f] = s.history[f]
    BY <2>7 DEF Changes, Fields
  <2>9. ClockInv(x) /\ KeptInv(x) /\ PauseInv(x)
    BY <1>1, <2>7, ClockSame, KeptSame, PauseSame
  <2>10. s.gamestate = GS_INTERMISSION /\ s.intermission >= 0 BY <1>2, <1>3
  <2>11. SeenInv(x) BY <1>1, <2>8, <2>10 DEF SeenInv, InRound
  <2>12. BufferFrame(x) BY <2>8, <2>10 DEF BufferFrame
  <2>13. RecordIn(x, StopDelay + 1, thrown)
    <3>1. SUFFICES ASSUME x.history.typed = 0 PROVE RecordIn(x, StopDelay + 1, thrown)
      BY DEF RecordIn
    <3>2. s.history.typed = 0 BY <2>8, <3>1 DEF HistoryFields
    <3>3. ~(s.intermission < StopDelay + 1) /\ ~(s.intermission < thrown)
      BY <1>2, <1>3
    <3>4. WasKept(s) /\ Holds(s, {ToWarmup, NextMap})
      BY <1>1, <2>10, <3>2, <3>3 DEF RecordIn, InRound, Going, Thrown
    <3>5. Holds(x, {ToWarmup, NextMap}) BY <2>2, <2>7, <3>4, HoldsMore DEF Holds
    <3>6. WasKept(x) /\ x.history.kept = <<1>> BY <2>8, <3>4 DEF WasKept, HistoryFields
    <3>7. x.history.kept # <<>>
      <4>1. Len(<<1>>) = 1 /\ Len(<<>>) = 0 OBVIOUS
      <4> QED BY <3>6, <4>1
    <3> QED BY <2>8, <2>10, <3>5, <3>6, <3>7 DEF RecordIn, InRound
  <2> QED BY <1>1, <1>2, <2>6, <2>8, <2>9, <2>11, <2>12, <2>13
       DEF Stage, StateInv, SameAge, SameTimeout, HistoryFields, Plays
<1>4. CASE s.intermission < ExitDelay
  <2>1. RulesKept(s, x, StopDelay + 1, thrown) BY <1>1, <1>2, <1>4, Rules
  <2>2. BufferFrame(x) BY <1>1, <2>1 DEF BufferFrame, RulesKept
  <2> QED BY <2>1, <2>2 DEF Stage, RulesKept, Plays
<1>5. ~(s.intermission >= ExitDelay) => s.intermission < ExitDelay BY <1>2
<1> QED BY <1>3, <1>4, <1>5

\* Afterwards no recording goes on that should be over.
LEMMA StopRecordingStage ==
  ASSUME NEW s, NEW thrown, Stage(s, StopDelay + 1, thrown), NEW x, x = StopRecording(s)
  PROVE  /\ Stage(x, StopDelay, thrown) /\ SameAge(s, x) /\ Plays(s, x)
         /\ x.restarted = s.restarted /\ x.intermission = s.intermission
<1>1. /\ s \in Game /\ s.ready \subseteq s.players /\ BufferFrame(s)
      /\ RecordIn(s, StopDelay + 1, thrown) /\ StateInv(s) /\ SeenInv(s)
  BY DEF Stage, StateInv
<1>2. s.intermission \in Int /\ StopDelay \in Nat BY <1>1, Bounds DEF Game
<1>3. CASE s.intermission >= StopDelay /\ ~s.stopSignaled
  <2> DEFINE y == [s EXCEPT !.stopSignaled = TRUE]
  <2>1. x = WTV_RecordStop(y, FALSE) BY <1>3 DEF StopRecording
  <2>2. /\ y \in Game /\ y.stopSignaled = TRUE /\ y.history = s.history
        /\ \A f \in Fields \ {"stopSignaled"} : y[f] = s[f]
    BY <1>1 DEF Game, Fields
  <2> HIDE DEF y
  <2>3. Changes(s, y, {"stopSignaled"}, {}) BY <2>2 DEF Changes
  <2>4. /\ Changes(y, x, {"recorder"}, {"kept"}) /\ x.recorder = NotRecording
        /\ x.history.kept = IF y.recorder = NotRecording THEN y.history.kept
                            ELSE Append(y.history.kept, y.recorder - 1)
    BY <2>1, <2>2, WTV_RecordStopChanges
  <2>5. Changes(s, x, {"stopSignaled", "recorder"}, {"kept"}) BY <2>3, <2>4 DEF Changes
  <2>6. /\ x.gamestate = s.gamestate /\ x.restarted = s.restarted /\ x.buffer = s.buffer
        /\ x.intermission = s.intermission /\ x.ready = s.ready /\ x.players = s.players
        /\ x.paused = s.paused /\ x.history.typed = s.history.typed
        /\ x.history.timeout = s.history.timeout /\ x.history.leftover = s.history.leftover
    BY <2>5 DEF Changes, Fields, HistoryFields
  <2>7. StateInv(x) BY <1>1, <2>5, <2>6, StateSame
  <2>8. BufferFrame(x) BY <1>1, <2>6 DEF BufferFrame
  <2>9. RecordIn(x, StopDelay, thrown)
    <3>1. SUFFICES ASSUME x.history.typed = 0 PROVE RecordIn(x, StopDelay, thrown)
      BY DEF RecordIn
    <3>2. InRound(s) BY <1>1, <1>2, <1>3 DEF SeenInv
    <3>3. Going(s, StopDelay + 1)
      BY <1>1, <1>3, <2>6, <3>1, <3>2 DEF RecordIn, WasKept, Thrown
    <3>4. x.history.kept = <<1>>
      <4>1. y.recorder = 2 /\ y.history.kept = <<>> BY <2>2, <3>3 DEF Going, Fields
      <4>2. x.history.kept = Append(<<>>, 1) BY <2>4, <4>1
      <4> QED BY <4>2
    <3>5. x.stopSignaled BY <2>2, <2>4 DEF Changes, Fields
    <3>6. x.history.kept # <<>>
      <4>1. Len(<<1>>) = 1 /\ Len(<<>>) = 0 OBVIOUS
      <4> QED BY <3>4, <4>1
    <3> QED BY <1>1, <2>4, <2>6, <3>1, <3>2, <3>4, <3>5, <3>6 DEF RecordIn, InRound, WasKept, Holds
  <2> QED BY <2>6, <2>7, <2>8, <2>9 DEF Stage, SameAge, SameTimeout, Plays
<1>4. CASE ~(s.intermission >= StopDelay /\ ~s.stopSignaled)
  <2>1. x = s BY <1>4 DEF StopRecording
  <2>2. Going(s, StopDelay + 1) => Going(s, StopDelay) BY <1>2, <1>4 DEF Going
  <2>3. RecordIn(s, StopDelay, thrown) BY <1>1, <2>2 DEF RecordIn
  <2> QED BY <1>1, <2>1, <2>3 DEF Stage, SameAge, SameTimeout, Plays
<1> QED BY <1>3, <1>4

\* The restart into the round is behind those that give it up.
LEMMA CountDownStage ==
  ASSUME NEW s, NEW going, NEW thrown, Stage(s, going, thrown), ~s.restarted, NEW x, x = CountDown(s)
  PROVE  /\ Stage(x, going, thrown) /\ SameAge(s, x) /\ Plays(s, x)
         /\ x.intermission = s.intermission
<1>1. /\ s \in Game /\ s.ready \subseteq s.players /\ BufferFrame(s)
      /\ RecordIn(s, going, thrown) /\ StateInv(s) /\ SeenInv(s)
  BY DEF Stage, StateInv
<1>2. CASE s.seen # GS_WARMUP_COUNTDOWN
  <2>1. x = s BY <1>2 DEF CountDown
  <2> QED BY <2>1 DEF SameAge, SameTimeout, Plays
<1>3. CASE s.seen = GS_WARMUP_COUNTDOWN /\ s.countdown < CountdownLength
  <2>1. x = [s EXCEPT !.countdown = s.countdown + 1] BY <1>3 DEF CountDown
  <2>2. s.countdown + 1 \in 0 .. CountdownLength BY <1>1, <1>3, Bounds DEF Game
  <2>3. /\ x \in Game /\ x.history = s.history
        /\ \A f \in Fields \ {"countdown"} : x[f] = s[f]
    BY <1>1, <2>1, <2>2 DEF Game, Fields
  <2>4. Changes(s, x, {"countdown"}, {}) BY <2>3 DEF Changes
  <2>5. /\ x.gamestate = s.gamestate /\ x.restarted = s.restarted /\ x.buffer = s.buffer
        /\ x.intermission = s.intermission /\ x.ready = s.ready /\ x.players = s.players
        /\ x.paused = s.paused
    BY <2>3 DEF Fields
  <2>6. StateInv(x) BY <1>1, <2>4, <2>5, StateSame
  <2>7. BufferFrame(x) BY <1>1, <2>5 DEF BufferFrame
  <2>8. RecordIn(x, going, thrown) BY <1>1, <2>4, RecordSame
  <2> QED BY <2>3, <2>5, <2>6, <2>7, <2>8 DEF Stage, SameAge, SameTimeout, Plays
<1>4. CASE s.seen = GS_WARMUP_COUNTDOWN /\ ~(s.countdown < CountdownLength)
  <2> DEFINE y == [s EXCEPT !.buffer = Append(s.buffer, ToPlaying)]
  <2>1. x = [y EXCEPT !.restarted = TRUE] BY <1>4 DEF CountDown, CountedDown
  <2>2. ToPlaying \in Commands /\ s.buffer \in Seq(Commands) BY <1>1 DEF Commands, Game
  <2>3. Changes(s, y, {"buffer"}, {}) /\ y.buffer = Append(s.buffer, ToPlaying)
    BY <1>1, <2>2, AppendChanges
  <2> HIDE DEF y
  <2>4. y \in Game BY <2>3 DEF Changes
  <2>5. /\ x \in Game /\ x.restarted = TRUE /\ x.history = y.history
        /\ \A f \in Fields \ {"restarted"} : x[f] = y[f]
    BY <2>1, <2>4 DEF Game, Fields
  <2>6. Changes(s, x, {"buffer", "restarted"}, {}) /\ x.buffer = Append(s.buffer, ToPlaying)
    BY <2>3, <2>5 DEF Changes, Fields
  <2>7. /\ x.gamestate = s.gamestate /\ x.recorder = s.recorder /\ x.stopSignaled = s.stopSignaled
        /\ x.intermission = s.intermission /\ x.ready = s.ready /\ x.players = s.players
        /\ x.paused = s.paused
        /\ \A f \in HistoryFields : x.history[f] = s.history[f]
    BY <2>6 DEF Changes, Fields
  <2>8. s.gamestate = GS_WARMUP_COUNTDOWN BY <1>1, <1>4 DEF SeenInv
  <2>9. StateInv(x) BY <1>1, <2>6, <2>7, StateSame
  <2>10. BufferFrame(x)
    <3>1. \A i \in DOMAIN s.buffer : s.buffer[i] = ToWarmup BY <1>1, <2>8 DEF BufferFrame
    <3>2. \A i \in DOMAIN x.buffer : x.buffer[i] = ToWarmup \/ i = Len(x.buffer)
      BY <2>2, <2>6, <3>1, HoldsMore
    <3> QED BY <2>5, <3>2 DEF BufferFrame
  <2>11. RecordIn(x, going, thrown)
    <3>1. SUFFICES ASSUME x.history.typed = 0 PROVE RecordIn(x, going, thrown) BY DEF RecordIn
    <3>2. /\ s.recorder = 1 /\ ~s.stopSignaled /\ s.history.kept = <<>>
          /\ Holds(s, {ToPlaying, ToWarmup})
      BY <1>1, <2>7, <2>8, <3>1 DEF RecordIn, HistoryFields
    <3>3. Holds(x, {ToPlaying, ToWarmup}) BY <2>2, <2>6, <3>2, HoldsMore DEF Holds
    <3>4. ~\E i \in DOMAIN x.buffer : x.buffer[i] = NextMap
      BY <3>3 DEF Holds, ToPlaying, ToWarmup, NextMap
    <3> QED BY <2>7, <2>8, <3>2, <3>3, <3>4 DEF RecordIn, InRound, HistoryFields
  <2> QED BY <2>7, <2>9, <2>10, <2>11 DEF Stage, SameAge, SameTimeout, HistoryFields, Plays
<1> QED BY <1>2, <1>3, <1>4

LEMMA SortedActivePlayersStage ==
  ASSUME NEW s, NEW going, NEW thrown, Stage(s, going, thrown), NEW x, x = SortedActivePlayers(s)
  PROVE  /\ Stage(x, going, thrown) /\ SameAge(s, x) /\ Plays(s, x)
         /\ x.intermission = s.intermission
<1>1. /\ s \in Game /\ s.ready \subseteq s.players /\ BufferFrame(s)
      /\ RecordIn(s, going, thrown) /\ StateInv(s)
  BY DEF Stage, StateInv
<1>2. /\ x \in Game /\ x.history = s.history
      /\ \A f \in Fields \ {"counted"} : x[f] = s[f]
  BY <1>1 DEF Game, Fields, SortedActivePlayers
<1>3. Changes(s, x, {"counted"}, {}) BY <1>2 DEF Changes
<1>4. /\ x.gamestate = s.gamestate /\ x.restarted = s.restarted /\ x.buffer = s.buffer
      /\ x.intermission = s.intermission /\ x.ready = s.ready /\ x.players = s.players
      /\ x.paused = s.paused
  BY <1>2 DEF Fields
<1>5. StateInv(x) BY <1>1, <1>3, <1>4, StateSame
<1>6. BufferFrame(x) BY <1>1, <1>4 DEF BufferFrame
<1>7. RecordIn(x, going, thrown) BY <1>1, <1>3, RecordSame
<1> QED BY <1>2, <1>4, <1>5, <1>6, <1>7 DEF Stage, SameAge, SameTimeout, Plays

\* A team is empty: it has its timeouts again, the account of the others is as
\* it was.
LEMMA RefilledChanges ==
  ASSUME NEW s, StateInv(s), NEW t \in Teams,
         NEW x, x = [s EXCEPT !.timeouts[t] = TimeoutCount, !.history.refilled = @ \cup {t}]
  PROVE  StateInv(x) /\ Changes(s, x, {"timeouts"}, {"refilled"})
<1> DEFINE v == [s.timeouts EXCEPT ![t] = TimeoutCount]
           h == [s.history EXCEPT !.refilled = s.history.refilled \cup {t}]
<1>1. s \in Game /\ s.ready \subseteq s.players /\ KeptInv(s) BY DEF StateInv
<1>2. /\ v \in [Teams -> 0 .. TimeoutCount]
      /\ \A u \in Teams \ {t} : v[u] = s.timeouts[u]
  <2>1. s.timeouts \in [Teams -> 0 .. TimeoutCount] BY <1>1 DEF Game
  <2>2. TimeoutCount \in 0 .. TimeoutCount BY Bounds
  <2> QED BY <2>1, <2>2
<1>3. /\ h \in History /\ h.refilled = s.history.refilled \cup {t}
      /\ \A f \in HistoryFields \ {"refilled"} : h[f] = s.history[f]
  BY <1>1 DEF Game, History, HistoryFields
<1>4. x = [s EXCEPT !.timeouts = v, !.history = h] OBVIOUS
<1> HIDE DEF v, h
<1>5. x \in Game BY <1>1, <1>2, <1>3, <1>4 DEF Game
<1>6. /\ x.timeouts = v /\ x.history = h
      /\ \A f \in Fields \ {"timeouts", "history"} : x[f] = s[f]
  BY <1>1, <1>4 DEF Game, Fields
<1>7. Changes(s, x, {"timeouts"}, {"refilled"}) BY <1>3, <1>5, <1>6 DEF Changes
<1>8. ClockInv(x) /\ PauseInv(x) /\ SeenInv(x)
  BY <1>7, ClockSame, PauseSame, SeenSame DEF StateInv
<1>9. KeptInv(x)
  <2>1. x.gamestate = s.gamestate BY <1>6 DEF Fields
  <2>2. x.history.called = s.history.called BY <1>3, <1>6 DEF HistoryFields
  <2> QED BY <1>1, <1>2, <1>3, <1>6, <2>1, <2>2 DEF KeptInv
<1>10. x.ready \subseteq x.players BY <1>1, <1>6 DEF Fields
<1> QED BY <1>5, <1>7, <1>8, <1>9, <1>10 DEF StateInv

LEMMA GaveUpStage ==
  ASSUME NEW s, StateInv(s), s.seen = GS_PLAYING, NEW t0, NEW t1, RecordIn(s, StopDelay, t0),
         \A n \in Int : n < t0 \/ n < StopDelay => n < t1,
         NEW x, x = Svcmd_ResetMatch_f(s)
  PROVE  /\ StateInv(x) /\ RecordIn(x, StopDelay, t1) /\ SameAge(s, x)
         /\ x.gamestate = s.gamestate /\ x.restarted = s.restarted
         /\ x.intermission = s.intermission
<1>1. s \in Game /\ SeenInv(s) BY DEF StateInv
<1>2. InRound(s) BY <1>1 DEF SeenInv, InRound
<1>3. /\ Changes(s, x, {"recorder", "ready", "stopSignaled", "buffer"}, {})
      /\ x.ready = {} /\ x.buffer = Append(s.buffer, ToWarmup)
      /\ x.stopSignaled = (s.stopSignaled \/ s.seen = GS_PLAYING)
      /\ x.recorder = IF s.seen = GS_PLAYING /\ ~s.stopSignaled THEN NotRecording ELSE s.recorder
  BY <1>1, ResetMatchChanges
<1>4. /\ x \in Game /\ x.gamestate = s.gamestate /\ x.restarted = s.restarted
      /\ x.intermission = s.intermission /\ x.players = s.players /\ x.paused = s.paused
      /\ \A f \in HistoryFields : x.history[f] = s.history[f]
  BY <1>3 DEF Changes, Fields
<1>5. StateInv(x) BY <1>3, StateSame
<1>6. RecordIn(x, StopDelay, t1)
  <2>1. SUFFICES ASSUME x.history.typed = 0 PROVE RecordIn(x, StopDelay, t1) BY DEF RecordIn
  <2>2. s.history.typed = 0 /\ x.history.kept = s.history.kept BY <1>4, <2>1 DEF HistoryFields
  <2>3. ToWarmup \in Commands /\ s.buffer \in Seq(Commands) BY <1>1 DEF Commands, Game
  <2>4. \E i \in DOMAIN x.buffer : x.buffer[i] = ToWarmup BY <1>3, <2>3, HoldsMore
  <2>5. s.gamestate = GS_PLAYING => Holds(x, {ToWarmup})
    <3>1. s.gamestate = GS_PLAYING => Holds(s, {ToWarmup}) BY <2>2 DEF RecordIn
    <3> QED BY <1>3, <2>3, <3>1, HoldsMore DEF Holds
  <2>6. s.gamestate = GS_INTERMISSION => Holds(x, {ToWarmup, NextMap})
    <3>1. s.gamestate = GS_INTERMISSION => Holds(s, {ToWarmup, NextMap}) BY <2>2 DEF RecordIn
    <3> QED BY <1>3, <2>3, <3>1, HoldsMore DEF Holds
  <2>7. s.history.kept = <<>> => ~\E i \in DOMAIN x.buffer : x.buffer[i] = NextMap
    <3>1. s.history.kept = <<>> => ~\E i \in DOMAIN s.buffer : s.buffer[i] = NextMap
      BY <2>2 DEF RecordIn
    <3>2. ToWarmup # NextMap BY DEF ToWarmup, NextMap
    <3> QED BY <1>3, <2>3, <3>1, <3>2, HoldsMore
  <2>8. x.stopSignaled /\ s.intermission \in Int
    <3>1. x.stopSignaled = TRUE BY <1>3
    <3>2. s.intermission \in Int BY <1>1, Bounds DEF Game
    <3> QED BY <3>1, <3>2
  <2>9. Going(s, StopDelay) => Thrown(x, t1)
    <3>1. Going(s, StopDelay) => x.recorder = NotRecording BY <1>3 DEF Going
    <3> QED BY <1>4, <2>2, <2>4, <2>8, <3>1 DEF Going, Thrown
  <2>10. WasKept(s) => WasKept(x)
    <3>1. WasKept(s) => x.recorder = NotRecording BY <1>3 DEF WasKept
    <3> QED BY <2>2, <2>8, <3>1 DEF WasKept
  <2>11. Thrown(s, t0) => Thrown(x, t1)
    <3>1. Thrown(s, t0) => x.recorder = NotRecording BY <1>3 DEF Thrown
    <3> QED BY <1>4, <2>2, <2>4, <2>8, <3>1 DEF Thrown
  <2>12. Going(x, StopDelay) \/ WasKept(x) \/ Thrown(x, t1)
    BY <1>2, <2>2, <2>9, <2>10, <2>11 DEF RecordIn
  <2> QED BY <1>2, <1>4, <2>2, <2>5, <2>6, <2>7, <2>12 DEF RecordIn, InRound
<1> QED BY <1>4, <1>5, <1>6 DEF SameAge, SameTimeout, HistoryFields

\* When a round is given up its recording is thrown away, and the level is
\* about to be restarted.
LEMMA TeamResetStage ==
  ASSUME NEW s, StateInv(s), NEW t0, NEW t1, RecordIn(s, StopDelay, t0),
         \A n \in Int : n < t0 \/ n < StopDelay => n < t1,
         NEW t \in Teams, NEW x, x = G_teamReset(s, t)
  PROVE  /\ StateInv(x) /\ RecordIn(x, StopDelay, t1) /\ SameAge(s, x)
         /\ x.gamestate = s.gamestate /\ x.restarted = s.restarted
         /\ x.intermission = s.intermission
         /\ s.gamestate \in {GS_WARMUP, GS_WARMUP_COUNTDOWN} => x.buffer = s.buffer
<1> DEFINE y == [s EXCEPT !.timeouts[t] = TimeoutCount, !.history.refilled = @ \cup {t}]
<1>1. StateInv(y) /\ Changes(s, y, {"timeouts"}, {"refilled"}) BY RefilledChanges
<1>2. x = IF y.paused = PAUSE_NONE /\ y.seen = GS_PLAYING THEN Svcmd_ResetMatch_f(y) ELSE y
  <2>1. y.paused = s.paused /\ y.seen = s.seen BY <1>1 DEF Changes, Fields
  <2> QED BY <2>1 DEF G_teamReset
<1> HIDE DEF y
<1>3. /\ y.gamestate = s.gamestate /\ y.restarted = s.restarted /\ y.intermission = s.intermission
      /\ y.paused = s.paused /\ y.seen = s.seen /\ y.buffer = s.buffer
      /\ y.history.timeout = s.history.timeout /\ y.history.leftover = s.history.leftover
      /\ y.history.typed = s.history.typed
  BY <1>1 DEF Changes, Fields, HistoryFields
<1>4. RecordIn(y, StopDelay, t0) BY <1>1, RecordSame
<1>5. CASE y.paused = PAUSE_NONE /\ y.seen = GS_PLAYING
  <2>1. x = Svcmd_ResetMatch_f(y) BY <1>2, <1>5
  <2>2. /\ StateInv(x) /\ RecordIn(x, StopDelay, t1) /\ SameAge(y, x)
        /\ x.gamestate = y.gamestate /\ x.restarted = y.restarted
        /\ x.intermission = y.intermission
    BY <1>1, <1>4, <1>5, <2>1, GaveUpStage
  <2>3. s.gamestate \notin {GS_WARMUP, GS_WARMUP_COUNTDOWN}
    BY <1>3, <1>5 DEF StateInv, SeenInv
  <2> QED BY <1>3, <2>2, <2>3 DEF SameAge, SameTimeout
<1>6. CASE ~(y.paused = PAUSE_NONE /\ y.seen = GS_PLAYING)
  <2>1. x = y BY <1>2, <1>6
  <2>2. RecordIn(y, StopDelay, t1)
    <3>1. y.intermission \in Int BY <1>1, Bounds DEF StateInv, Game
    <3>2. Thrown(y, t0) => Thrown(y, t1) BY <3>1 DEF Thrown
    <3> QED BY <1>4, <3>2 DEF RecordIn
  <2> QED BY <1>1, <1>3, <2>1, <2>2 DEF SameAge, SameTimeout
<1> QED BY <1>5, <1>6

LEMMA HandleEmptyTeamsStage ==
  ASSUME NEW s, StateInv(s), NEW t0, NEW t1, RecordIn(s, StopDelay, t0),
         \A n \in Int : n < t0 \/ n < StopDelay => n < t1,
         NEW x, x = HandleEmptyTeams(s)
  PROVE  /\ StateInv(x) /\ RecordIn(x, StopDelay, t1) /\ SameAge(s, x)
         /\ x.gamestate = s.gamestate /\ x.restarted = s.restarted
         /\ x.intermission = s.intermission
         /\ s.gamestate \in {GS_WARMUP, GS_WARMUP_COUNTDOWN} => x.buffer = s.buffer
<1>1. ASSUME NEW t \in Teams, x = G_teamReset(s, t)
      PROVE  /\ StateInv(x) /\ RecordIn(x, StopDelay, t1) /\ SameAge(s, x)
             /\ x.gamestate = s.gamestate /\ x.restarted = s.restarted
             /\ x.intermission = s.intermission
             /\ s.gamestate \in {GS_WARMUP, GS_WARMUP_COUNTDOWN} => x.buffer = s.buffer
  BY <1>1, TeamResetStage
<1>2. CASE x = s
  <2>1. RecordIn(s, StopDelay, t1)
    <3>1. s.intermission \in Int BY Bounds DEF StateInv, Game
    <3>2. Thrown(s, t0) => Thrown(s, t1) BY <3>1 DEF Thrown
    <3> QED BY <3>2 DEF RecordIn
  <2> QED BY <1>2, <2>1 DEF SameAge, SameTimeout
<1>3. x = s \/ x = G_teamReset(s, axis) \/ x = G_teamReset(s, allies)
  BY DEF HandleEmptyTeams
<1>4. axis \in Teams /\ allies \in Teams BY DEF Teams
<1> QED BY <1>1, <1>2, <1>3, <1>4

\* What a frame makes of a timeout.
FramePause(s, x) ==
  /\ s.paused \notin Teams =>
       x.paused \notin Teams /\ (x.history.timeout = 0 \/ x.history.timeout = s.history.timeout)
  /\ s.paused \in Teams =>
       \/ x.paused = s.paused
       \/ x.paused \notin Teams /\ (x.history.timeout >= TimeoutLength - 1 \/ x.history.leftover)
  /\ x.history.leftover = s.history.leftover

\* The stages of a frame, one after another.
LEMMA FrameParts ==
  ASSUME NEW s, ~s.restarted, NEW x \in G_RunFrame(s)
  PROVE  \E a \in RunEntities(BeginFrame(s)) : \E b \in {a, LogExit(a)} :
           \E d \in CheckExitRules(CheckGameState(b)) :
             x = HandleEmptyTeams(SortedActivePlayers(CountDown(StopRecording(d))))
BY DEF G_RunFrame

LEMMA FrameStage ==
  ASSUME NEW s, StateInv(s), s.intermission < ExitDelay, BufferFrame(s), ~s.restarted,
         NEW t0, NEW t2, RecordIn(s, StopDelay, t0),
         (t0 = -1 /\ t2 = StopDelay) \/ (t0 = StopDelay /\ t2 = StopDelay + 1),
         NEW x \in G_RunFrame(s)
  PROVE  /\ StateInv(x) /\ x.intermission < ExitDelay /\ BufferFrame(x) /\ RecordIn(x, StopDelay, t2)
         /\ FramePause(s, x) /\ Plays(s, x) /\ x.history.typed = s.history.typed
<1> DEFINE t1 == IF t0 = -1 THEN -1 ELSE StopDelay + 1
<1>1. /\ StopDelay \in Nat /\ ExitDelay \in Nat
      /\ (t0 = -1 /\ t1 = -1) \/ (t0 = StopDelay /\ t1 = StopDelay + 1)
      /\ t1 = -1 \/ t1 = StopDelay + 1
      /\ \A n \in Int : n < t1 \/ n < StopDelay => n < t2
  BY Bounds
<1> HIDE DEF t1
<1>2. PICK a \in RunEntities(BeginFrame(s)) : \E b \in {a, LogExit(a)} :
        \E d \in CheckExitRules(CheckGameState(b)) :
          x = HandleEmptyTeams(SortedActivePlayers(CountDown(StopRecording(d))))
  BY FrameParts
<1>3. PICK b \in {a, LogExit(a)} :
        \E d \in CheckExitRules(CheckGameState(b)) :
          x = HandleEmptyTeams(SortedActivePlayers(CountDown(StopRecording(d))))
  BY <1>2
<1>4. PICK d \in CheckExitRules(CheckGameState(b)) :
        x = HandleEmptyTeams(SortedActivePlayers(CountDown(StopRecording(d))))
  BY <1>3
<1> DEFINE c == CheckGameState(b)
           e == StopRecording(d)
           f == CountDown(e)
           g == SortedActivePlayers(f)
<1>5. /\ Stage(a, StopDelay + 1, t1) /\ a.seen = a.gamestate /\ ~a.restarted
      /\ a.gamestate = s.gamestate
      /\ Over(BeginFrame(s), a) /\ BeginFrame(s).paused = s.paused
      /\ BeginFrame(s).history.timeout = TimeoutAge(s) /\ a.history.timeout = TimeoutAge(s)
      /\ BeginFrame(s).history.leftover = s.history.leftover
      /\ a.history.leftover = s.history.leftover /\ a.history.typed = s.history.typed
  BY <1>1, ThoughtStage
<1>6. /\ Stage(b, StopDelay + 1, t1) /\ b.seen = b.gamestate /\ ~b.restarted
      /\ b.gamestate = a.gamestate /\ SameAge(a, b)
  <2>1. CASE b = a BY <1>5, <2>1 DEF SameAge, SameTimeout
  <2>2. CASE b = LogExit(a)
    <3>1. Stage(b, StopDelay + 1, t1) /\ Changes(a, b, {"queued"}, {}) /\ SameAge(a, b)
      BY <1>5, <2>2, LogExitStage
    <3> QED BY <1>5, <3>1 DEF Changes, Fields
  <2> QED BY <2>1, <2>2
<1>7. /\ Stage(c, StopDelay + 1, t1) /\ SameAge(b, c) /\ ~c.restarted
      /\ c.intermission >= 0 => c.gamestate = GS_INTERMISSION
  BY <1>6, CheckGameStateStage
<1>8. Plays(b, c) BY <1>6, CheckGameStatePlays DEF Stage, StateInv
<1>9. d \in CheckExitRules(c) OBVIOUS
<1> HIDE DEF c
<1>10. /\ Stage(d, StopDelay + 1, t1) /\ SameAge(c, d) /\ Plays(c, d) /\ ~d.restarted
      /\ d.intermission < ExitDelay
  BY <1>1, <1>7, <1>9, CheckExitRulesStage
<1>11. /\ Stage(e, StopDelay, t1) /\ SameAge(d, e) /\ Plays(d, e) /\ ~e.restarted
      /\ e.intermission = d.intermission
  BY <1>10, StopRecordingStage
<1> HIDE DEF e
<1>12. Stage(f, StopDelay, t1) /\ SameAge(e, f) /\ Plays(e, f) /\ f.intermission = e.intermission
  BY <1>11, CountDownStage
<1> HIDE DEF f
<1>13. Stage(g, StopDelay, t1) /\ SameAge(f, g) /\ Plays(f, g) /\ g.intermission = f.intermission
  BY <1>12, SortedActivePlayersStage
<1>14. x = HandleEmptyTeams(g) BY <1>4 DEF e, f, g
<1> HIDE DEF g
<1>15. /\ StateInv(x) /\ RecordIn(x, StopDelay, t2) /\ SameAge(g, x)
       /\ x.gamestate = g.gamestate /\ x.restarted = g.restarted
       /\ x.intermission = g.intermission
       /\ g.gamestate \in {GS_WARMUP, GS_WARMUP_COUNTDOWN} => x.buffer = g.buffer
  BY <1>1, <1>13, <1>14, HandleEmptyTeamsStage DEF Stage
<1>16. BufferFrame(x) BY <1>13, <1>15 DEF Stage, BufferFrame
<1>17. SameAge(a, x)
  BY <1>6, <1>7, <1>10, <1>11, <1>12, <1>13, <1>15 DEF SameAge, SameTimeout
<1>18. x.intermission < ExitDelay BY <1>10, <1>11, <1>12, <1>13, <1>15
<1>19. Plays(s, x)
  BY <1>5, <1>6, <1>8, <1>10, <1>11, <1>12, <1>13, <1>15 DEF Plays
<1>20. FramePause(s, x)
  <2>1. x.history.timeout = TimeoutAge(s) /\ x.paused = a.paused
        /\ x.history.leftover = s.history.leftover
    BY <1>5, <1>17 DEF SameAge, SameTimeout
  <2>2. CASE s.paused \notin Teams
    <3>1. x.history.timeout = 0 \/ x.history.timeout = s.history.timeout
      BY <2>1, <2>2 DEF TimeoutAge
    <3>2. x.paused \notin Teams BY <1>5, <2>1, <2>2 DEF Over
    <3> QED BY <2>1, <2>2, <3>1, <3>2 DEF FramePause
  <2>3. CASE s.paused \in Teams
    <3>1. \/ x.paused = s.paused
          \/ x.paused \notin Teams /\ (x.history.timeout >= TimeoutLength - 1 \/ x.history.leftover)
      BY <1>5, <2>1, <2>3 DEF Over
    <3> QED BY <2>1, <2>3, <3>1 DEF FramePause
  <2> QED BY <2>2, <2>3
<1>21. x.history.typed = s.history.typed BY <1>5, <1>17 DEF SameAge
<1> QED BY <1>15, <1>16, <1>18, <1>19, <1>20, <1>21

\* Also when the level waits for its restart, and nothing happens.
LEMMA RunFrameStage ==
  ASSUME NEW s, StateInv(s), s.intermission < ExitDelay, BufferFrame(s),
         NEW t0, NEW t2, RecordIn(s, StopDelay, t0),
         (t0 = -1 /\ t2 = StopDelay) \/ (t0 = StopDelay /\ t2 = StopDelay + 1),
         NEW x \in G_RunFrame(s)
  PROVE  /\ StateInv(x) /\ x.intermission < ExitDelay /\ BufferFrame(x) /\ RecordIn(x, StopDelay, t2)
         /\ FramePause(s, x) /\ Plays(s, x) /\ x.history.typed = s.history.typed
<1>1. CASE ~s.restarted BY <1>1, FrameStage
<1>2. CASE s.restarted
  <2>1. x = s BY <1>2 DEF G_RunFrame
  <2>2. s.intermission \in Int /\ StopDelay \in Nat BY Bounds DEF StateInv, Game
  <2>3. s.intermission < t0 => s.intermission < t2 BY <2>2
  <2>4. RecordIn(s, StopDelay, t2) BY <2>3 DEF RecordIn, Thrown
  <2> QED BY <2>1, <2>4 DEF FramePause, Plays
<1> QED BY <1>1, <1>2

LEMMA FramesBuffer ==
  ASSUME NEW s \in Game, BufferFrame(s)
  PROVE  BufferInv(s)
<1>1. SUFFICES ASSUME s.gamestate = GS_WARMUP_COUNTDOWN, NEW i \in DOMAIN s.buffer,
                      s.buffer[i] = ToWarmup
               PROVE  s.buffer[1] = ToWarmup
  BY DEF BufferInv
<1>2. Len(s.buffer) \in Nat /\ DOMAIN s.buffer = 1 .. Len(s.buffer)
  BY LenProperties DEF Game
<1>3. CASE i = 1 BY <1>1, <1>3
<1>4. CASE i # 1
  <2>1. 1 \in DOMAIN s.buffer /\ 1 # Len(s.buffer) BY <1>1, <1>2, <1>4
  <2> QED BY <1>1, <2>1 DEF BufferFrame
<1> QED BY <1>3, <1>4

\* A second frame leaves a game as the first one does.
LEMMA FramesKept ==
  ASSUME NEW s, StateInv(s), s.intermission < ExitDelay, BufferFrame(s), RecordIn(s, StopDelay, -1),
         NEW one \in G_RunFrame(s), NEW x \in {one} \cup G_RunFrame(one)
  PROVE  /\ MatchInv(x) /\ Plays(s, x) /\ FramePause(s, one)
         /\ x = one \/ FramePause(one, x)
<1>1. /\ StateInv(one) /\ one.intermission < ExitDelay /\ BufferFrame(one)
      /\ RecordIn(one, StopDelay, StopDelay) /\ FramePause(s, one) /\ Plays(s, one)
  BY RunFrameStage
<1>2. CASE x = one
  <2>1. one \in Game BY <1>1 DEF StateInv
  <2>2. one.intermission \in Int /\ StopDelay \in Nat BY <2>1, Bounds DEF Game
  <2>3. Thrown(one, StopDelay) => Thrown(one, StopDelay + 1) BY <2>2 DEF Thrown
  <2>4. RecordInv(one) BY <1>1, <2>3 DEF RecordIn, RecordInv
  <2>5. BufferInv(one) BY <1>1, <2>1, FramesBuffer
  <2> QED BY <1>1, <1>2, <2>4, <2>5 DEF MatchInv
<1>3. CASE x \in G_RunFrame(one)
  <2>1. /\ StateInv(x) /\ x.intermission < ExitDelay /\ BufferFrame(x)
        /\ RecordIn(x, StopDelay, StopDelay + 1) /\ FramePause(one, x) /\ Plays(one, x)
    BY <1>1, <1>3, RunFrameStage
  <2>2. BufferInv(x) BY <2>1, FramesBuffer DEF StateInv
  <2> QED BY <1>1, <2>1, <2>2 DEF MatchInv, RecordInv, Plays
<1> QED BY <1>2, <1>3

\* What is true of a step that runs frames.
TimeoutLasted(s, x) ==
  s.paused \in Teams /\ x.paused \notin Teams /\ x.history.timeout > s.history.timeout
    => x.history.timeout >= TimeoutLength - 1 \/ x.history.leftover
StartedReady(s, x) ==
  s.gamestate = GS_WARMUP_COUNTDOWN /\ x.gamestate = GS_PLAYING => ToWarmup \notin Range(s.buffer)

LEMMA FramesExecuted ==
  ASSUME NEW s, MatchInv(s), NEW e \in Cbuf_Execute(s), NEW one \in G_RunFrame(e),
         NEW x \in {one} \cup G_RunFrame(one)
  PROVE  MatchInv(x) /\ TimeoutLasted(s, x) /\ StartedReady(s, x)
<1>1. StateInv(s) /\ s.intermission < ExitDelay /\ BufferInv(s) /\ RecordInv(s)
  BY DEF MatchInv
<1>2. /\ StateInv(e) /\ e.intermission < ExitDelay /\ e.buffer = <<>> /\ SamePause(s, e)
      /\ e.history.typed = s.history.typed
  BY <1>1, Executed
<1>3. BufferFrame(e) BY <1>2 DEF BufferFrame
<1>4. RecordIn(e, StopDelay, -1)
  <2>1. SUFFICES ASSUME s.history.typed = 0 PROVE RecordIn(e, StopDelay, -1)
    BY <1>2 DEF RecordIn
  <2>2. RecordIn(e, StopDelay, StopDelay) BY <1>1, <2>1, RecordExecuted
  <2>3. ~Thrown(e, StopDelay) BY <1>2 DEF Thrown
  <2> QED BY <2>2, <2>3 DEF RecordIn
<1>5. MatchInv(x) /\ Plays(e, x) /\ FramePause(e, one) /\ (x = one \/ FramePause(one, x))
  BY <1>2, <1>3, <1>4, FramesKept
<1>6. TimeoutLasted(s, x)
  <2>1. SUFFICES ASSUME s.paused \in Teams, x.paused \notin Teams,
                        x.history.timeout > s.history.timeout
                 PROVE  x.history.timeout >= TimeoutLength - 1 \/ x.history.leftover
    BY DEF TimeoutLasted
  <2>2. s.history.timeout \in Nat BY <1>1 DEF StateInv, Game, History
  <2>3. CASE e.paused = PAUSE_NONE /\ e.history.timeout = 0
    <3>1. e.paused \notin Teams BY <2>3, Bounds
    <3>2. one.paused \notin Teams /\ one.history.timeout = 0 BY <1>5, <2>3, <3>1 DEF FramePause
    <3>3. x.history.timeout = 0 BY <1>5, <3>2 DEF FramePause
    <3> QED BY <2>1, <2>2, <3>3
  <2>4. CASE e.paused = s.paused /\ e.history.timeout = s.history.timeout
    <3>1. CASE one.paused \in Teams BY <1>5, <2>1, <3>1 DEF FramePause
    <3>2. CASE one.paused \notin Teams
      <4>1. one.history.timeout >= TimeoutLength - 1 \/ one.history.leftover
        BY <1>5, <2>1, <2>4, <3>2 DEF FramePause
      <4>2. \/ x.history = one.history
            \/ x.history.timeout = 0
            \/ /\ x.history.timeout = one.history.timeout
               /\ x.history.leftover = one.history.leftover
        BY <1>5, <3>2 DEF FramePause
      <4>3. x.history.timeout # 0 BY <2>1, <2>2
      <4> QED BY <4>1, <4>2, <4>3
    <3> QED BY <3>1, <3>2
  <2> QED BY <1>2, <2>3, <2>4 DEF SamePause
<1>7. StartedReady(s, x)
  <2>1. SUFFICES ASSUME s.gamestate = GS_WARMUP_COUNTDOWN, x.gamestate = GS_PLAYING,
                        ToWarmup \in Range(s.buffer)
                 PROVE  FALSE
    BY DEF StartedReady
  <2>2. PICK j \in DOMAIN s.buffer : s.buffer[j] = ToWarmup BY <2>1 DEF Range
  <2>3. e.gamestate = GS_WARMUP BY <1>1, <2>1, <2>2, GivenUp
  <2> QED BY <1>5, <2>1, <2>3 DEF Plays
<1> QED BY <1>5, <1>6, <1>7

LEMMA ComFrameKept ==
  ASSUME MatchInv(match), Com_Frame
  PROVE  MatchInv(match') /\ TimeoutLasted(match, match') /\ StartedReady(match, match')
<1>1. PICK e \in Cbuf_Execute(match) :
        \E one \in G_RunFrame(e) : match' \in {one} \cup G_RunFrame(one)
  BY DEF Com_Frame
<1>2. PICK one \in G_RunFrame(e) : match' \in {one} \cup G_RunFrame(one) BY <1>1
<1> QED BY <1>2, FramesExecuted

-----------------------------------------------------------------------------
(* The other actions *)

StepKept(s, x) == MatchInv(x) /\ TimeoutLasted(s, x) /\ StartedReady(s, x)

LEMMA SmallStep ==
  ASSUME NEW s, NEW x, MatchInv(x), x.gamestate = s.gamestate,
         s.paused \notin Teams \/ x.paused = s.paused \/ x.history.timeout = s.history.timeout,
         s.history.timeout \in Nat
  PROVE  StepKept(s, x)
<1>1. TimeoutLasted(s, x) BY DEF TimeoutLasted
<1>2. StartedReady(s, x) BY DEF StartedReady
<1> QED BY <1>1, <1>2 DEF StepKept

LEMMA PlayersSame ==
  ASSUME NEW s, MatchInv(s), NEW x, Changes(s, x, {"players", "ready"}, {}),
         x.ready \subseteq x.players
  PROVE  StepKept(s, x)
<1>1. /\ x.gamestate = s.gamestate /\ x.intermission = s.intermission /\ x.buffer = s.buffer
      /\ x.paused = s.paused
  BY DEF Changes, Fields
<1>2. StateInv(x) BY StateSame DEF MatchInv
<1>3. RecordInv(x) BY RecordSame DEF MatchInv, RecordInv
<1>4. BufferInv(x) BY <1>1 DEF MatchInv, BufferInv
<1>5. MatchInv(x) BY <1>1, <1>2, <1>3, <1>4 DEF MatchInv
<1>6. s.history.timeout \in Nat BY DEF MatchInv, StateInv, Game, History
<1> QED BY <1>1, <1>5, <1>6, SmallStep

With(s, in, ready) == [s EXCEPT !.players = in, !.ready = ready]

LEMMA PlayersChanged ==
  ASSUME NEW s \in Game, NEW in, NEW ready, in \subseteq Teams, ready \subseteq Teams,
         NEW x, x = With(s, in, ready)
  PROVE  Changes(s, x, {"players", "ready"}, {}) /\ x.players = in /\ x.ready = ready
<1>1. x \in Game BY DEF Game, With
<1>2. /\ x.history = s.history /\ x.players = in /\ x.ready = ready
      /\ \A f \in Fields \ {"players", "ready"} : x[f] = s[f]
  BY DEF Game, Fields, With
<1> QED BY <1>1, <1>2 DEF Changes

\* The rules between two frames, when the score or the players changed.
LEMMA RulesBetween ==
  ASSUME NEW s, MatchInv(s), NEW x \in CheckExitRules(s)
  PROVE  MatchInv(x) /\ SameAge(s, x) /\ x.gamestate = s.gamestate
<1>1. /\ StateInv(s) /\ s.intermission < ExitDelay /\ RecordIn(s, StopDelay, StopDelay + 1)
  BY DEF MatchInv, RecordInv
<1>2. RulesKept(s, x, StopDelay, StopDelay + 1) BY <1>1, Rules
<1>3. BufferInv(x) BY <1>2 DEF MatchInv, BufferInv, RulesKept
<1> QED BY <1>2, <1>3 DEF MatchInv, RecordInv, RulesKept

LEMMA RanksKept ==
  ASSUME MatchInv(match), CalculateRanks
  PROVE  StepKept(match, match')
<1>1. match' \in CheckExitRules(match) BY DEF CalculateRanks
<1>2. MatchInv(match') /\ SameAge(match, match') /\ match'.gamestate = match.gamestate
  BY <1>1, RulesBetween
<1>3. match.history.timeout \in Nat BY DEF MatchInv, StateInv, Game, History
<1> QED BY <1>2, <1>3, SmallStep DEF SameAge, SameTimeout

LEMMA JoinKept ==
  ASSUME MatchInv(match), NEW t \in Teams, Join(t)
  PROVE  StepKept(match, match')
<1> DEFINE y == With(match, match.players \cup {t}, match.ready)
<1>1. match \in Game /\ match.ready \subseteq match.players BY DEF MatchInv, StateInv
<1>2. match.players \cup {t} \subseteq Teams /\ match.ready \subseteq Teams BY <1>1 DEF Game
<1>3. y = [match EXCEPT !.players = @ \cup {t}]
  BY <1>1 DEF Game, With
<1>4. match' \in CheckExitRules(y) BY <1>3 DEF Join
<1>5. /\ Changes(match, y, {"players", "ready"}, {})
      /\ y.players = match.players \cup {t} /\ y.ready = match.ready
  BY <1>1, <1>2, PlayersChanged
<1> HIDE DEF y
<1>6. MatchInv(y) BY <1>1, <1>5, PlayersSame DEF StepKept
<1>7. /\ y.gamestate = match.gamestate /\ y.paused = match.paused
      /\ y.history.timeout = match.history.timeout
  BY <1>5 DEF Changes, Fields, HistoryFields
<1>8. MatchInv(match') /\ SameAge(y, match') /\ match'.gamestate = y.gamestate
  BY <1>4, <1>6, RulesBetween
<1>9. match.history.timeout \in Nat BY <1>1 DEF Game, History
<1> QED BY <1>7, <1>8, <1>9, SmallStep DEF SameAge, SameTimeout

LEMMA ReadyKept ==
  ASSUME MatchInv(match), NEW t \in Teams, NEW state \in BOOLEAN, G_ready_cmd(t, state)
  PROVE  StepKept(match, match')
<1> DEFINE ready == IF state THEN match.ready \cup {t} ELSE match.ready \ {t}
<1>1. match \in Game /\ match.ready \subseteq match.players /\ t \in match.players
  BY DEF MatchInv, StateInv, G_ready_cmd
<1>2. match.players \subseteq Teams /\ ready \subseteq Teams /\ ready \subseteq match.players
  BY <1>1 DEF Game
<1>3. match' = With(match, match.players, ready)
  BY <1>1 DEF G_ready_cmd, Game, With
<1> HIDE DEF ready
<1>4. /\ Changes(match, match', {"players", "ready"}, {})
      /\ match'.players = match.players /\ match'.ready = ready
  BY <1>1, <1>2, <1>3, PlayersChanged
<1> QED BY <1>2, <1>4, PlayersSame

LEMMA LeaveKept ==
  ASSUME MatchInv(match), NEW t \in Teams, Leave(t)
  PROVE  StepKept(match, match')
<1> DEFINE y == With(match, match.players \ {t}, match.ready \ {t})
           x == match'
<1>1. match \in Game /\ match.ready \subseteq match.players BY DEF MatchInv, StateInv
<1>2. match.players \ {t} \subseteq Teams /\ match.ready \ {t} \subseteq Teams BY <1>1 DEF Game
<1>3. /\ Changes(match, y, {"players", "ready"}, {})
      /\ y.players = match.players \ {t} /\ y.ready = match.ready \ {t}
  BY <1>1, <1>2, PlayersChanged
<1>4. PICK ranked \in CheckExitRules(y) : x = HandleEmptyTeams(ranked) BY DEF Leave, With
<1> HIDE DEF y, x
<1>5. y.ready \subseteq y.players BY <1>1, <1>3
<1>6. MatchInv(y) BY <1>3, <1>5, PlayersSame DEF StepKept
<1>7. /\ y.gamestate = match.gamestate /\ y.paused = match.paused
      /\ y.history.timeout = match.history.timeout
  BY <1>3 DEF Changes, Fields, HistoryFields
<1>8. \A n \in Int : n < StopDelay + 1 \/ n < StopDelay => n < StopDelay + 1 BY Bounds
<1>9. MatchInv(ranked) /\ SameAge(y, ranked) /\ ranked.gamestate = y.gamestate
  BY <1>6, RulesBetween
<1>10. /\ StateInv(x) /\ RecordIn(x, StopDelay, StopDelay + 1) /\ SameAge(ranked, x)
       /\ x.gamestate = ranked.gamestate /\ x.intermission = ranked.intermission
       /\ ranked.gamestate \in {GS_WARMUP, GS_WARMUP_COUNTDOWN} => x.buffer = ranked.buffer
  BY <1>4, <1>8, <1>9, HandleEmptyTeamsStage DEF MatchInv, RecordInv
<1>11. BufferInv(x) BY <1>9, <1>10 DEF MatchInv, BufferInv
<1>12. MatchInv(x) BY <1>9, <1>10, <1>11 DEF MatchInv, RecordInv
<1>13. x.paused = match.paused BY <1>7, <1>9, <1>10 DEF SameAge, SameTimeout
<1>14. match.history.timeout \in Nat BY <1>1 DEF Game, History
<1>15. StepKept(match, x) BY <1>7, <1>9, <1>10, <1>12, <1>13, <1>14, SmallStep
<1> QED BY <1>15 DEF x

LEMMA PauseKept ==
  ASSUME MatchInv(match), NEW t \in Teams, Pause(t)
  PROVE  StepKept(match, match')
<1> DEFINE left == \E i \in DOMAIN match.entities : match.entities[i].kind = DP_PAUSEINFO
           v == [match.timeouts EXCEPT ![t] = match.timeouts[t] - 1]
           called == [match.history.called EXCEPT ![t] = match.history.called[t] + 1]
           h == [match.history EXCEPT !.called = called, !.timeout = 0, !.leftover = left]
           new == Spawned(DP_PAUSEINFO, FirstThink)
           entities == Append(match.entities, new)
           x == match'
<1>1. /\ match \in Game /\ match.ready \subseteq match.players /\ KeptInv(match)
      /\ StateInv(match) /\ match.paused = PAUSE_NONE /\ match.timeouts[t] > 0
  BY DEF MatchInv, StateInv, Pause
<1>2. /\ new \in Entity /\ new.age = 0 /\ new.kind = DP_PAUSEINFO
  BY Bounds DEF Spawned, Entity
<1>3. /\ entities \in Seq(Entity) /\ Len(match.entities) \in Nat
      /\ DOMAIN match.entities = 1 .. Len(match.entities)
      /\ DOMAIN entities = 1 .. Len(match.entities) + 1
      /\ \A i \in 1 .. Len(match.entities) : entities[i] = match.entities[i]
      /\ entities[Len(match.entities) + 1] = new
  BY <1>1, <1>2, EntityAppended DEF Game
<1>4. /\ v \in [Teams -> 0 .. TimeoutCount] /\ v[t] = match.timeouts[t] - 1
      /\ \A u \in Teams \ {t} : v[u] = match.timeouts[u]
  <2>1. match.timeouts \in [Teams -> 0 .. TimeoutCount] BY <1>1 DEF Game
  <2>2. match.timeouts[t] - 1 \in 0 .. TimeoutCount BY <1>1, <2>1, Bounds
  <2> QED BY <2>1, <2>2
<1>5. /\ called \in [Teams -> Nat] /\ called[t] = match.history.called[t] + 1
      /\ \A u \in Teams \ {t} : called[u] = match.history.called[u]
      /\ match.history.called[t] \in Nat
  <2>1. match.history.called \in [Teams -> Nat] BY <1>1 DEF Game, History
  <2>2. match.history.called[t] + 1 \in Nat BY <2>1
  <2> QED BY <2>1, <2>2
<1>6. left \in BOOLEAN OBVIOUS
<1>7. x = [match EXCEPT !.timeouts = v, !.paused = t, !.entities = entities, !.history = h]
  BY DEF Pause
<1> HIDE DEF v, called, new, entities, left, x
<1>8. /\ h \in History /\ h.called = called /\ h.timeout = 0 /\ h.leftover = left
      /\ \A f \in HistoryFields \ {"called", "timeout", "leftover"} : h[f] = match.history[f]
  BY <1>1, <1>5, <1>6 DEF Game, History, HistoryFields
<1> HIDE DEF h
<1>9. x \in Game BY <1>1, <1>3, <1>4, <1>7, <1>8 DEF Game
<1>10. /\ x.timeouts = v /\ x.paused = t /\ x.entities = entities /\ x.history = h
       /\ \A f \in Fields \ {"timeouts", "paused", "entities", "history"} : x[f] = match[f]
  BY <1>1, <1>7 DEF Game, Fields
<1>11. Changes(match, x, {"timeouts", "paused", "entities"}, {"called", "timeout", "leftover"})
  BY <1>8, <1>9, <1>10 DEF Changes
<1>12. /\ x.gamestate = match.gamestate /\ x.intermission = match.intermission
       /\ x.buffer = match.buffer /\ x.ready = match.ready /\ x.players = match.players
       /\ x.time = match.time /\ x.timeCurrent = match.timeCurrent /\ x.timeDelta = match.timeDelta
       /\ x.history.played = match.history.played /\ x.history.refilled = match.history.refilled
  BY <1>11 DEF Changes, Fields, HistoryFields
<1>13. t # PAUSE_NONE BY Bounds
<1>14. ClockInv(x) BY <1>1, <1>10, <1>12, <1>13 DEF StateInv, ClockInv
<1>15. KeptInv(x)
  <2>1. SUFFICES ASSUME x.gamestate = GS_PLAYING, NEW u \in Teams \ x.history.refilled
                 PROVE  x.timeouts[u] + x.history.called[u] = TimeoutCount
    BY DEF KeptInv
  <2>2. match.timeouts[u] + match.history.called[u] = TimeoutCount
    BY <1>1, <1>12, <2>1 DEF KeptInv
  <2>3. match.timeouts[t] \in Int BY <1>1, Bounds DEF Game
  <2>4. CASE u = t BY <1>4, <1>5, <1>8, <1>10, <2>2, <2>3, <2>4
  <2>5. CASE u # t BY <1>4, <1>5, <1>8, <1>10, <2>2, <2>5
  <2> QED BY <2>4, <2>5
<1>16. PauseInv(x)
  <2>1. SUFFICES ASSUME ~left, NEW i \in DOMAIN entities, entities[i].kind = DP_PAUSEINFO
                 PROVE  entities[i].age <= 0
    BY <1>8, <1>10 DEF PauseInv
  <2>2. CASE i \in DOMAIN match.entities
    BY <1>3, <2>1, <2>2 DEF left
  <2>3. CASE i \notin DOMAIN match.entities
    <3>1. i = Len(match.entities) + 1 BY <1>3, <2>1, <2>3
    <3> QED BY <1>2, <1>3, <3>1
  <2> QED BY <2>2, <2>3
<1>17. SeenInv(x) BY <1>1, <1>11, SeenSame DEF StateInv
<1>18. RecordInv(x) BY <1>11, RecordSame DEF MatchInv, RecordInv
<1>19. BufferInv(x) BY <1>12 DEF MatchInv, BufferInv
<1>20. MatchInv(x)
  BY <1>1, <1>9, <1>12, <1>14, <1>15, <1>16, <1>17, <1>18, <1>19 DEF MatchInv, StateInv
<1>21. match.paused \notin Teams BY <1>1, Bounds
<1>22. match.history.timeout \in Nat BY <1>1 DEF Game, History
<1>23. StepKept(match, x) BY <1>12, <1>20, <1>21, <1>22, SmallStep
<1> QED BY <1>23 DEF x

LEMMA UnpauseKept ==
  ASSUME MatchInv(match), NEW t \in Teams, Unpause(t)
  PROVE  StepKept(match, match')
<1> DEFINE x == match'
<1>1. match \in Game /\ StateInv(match) /\ x = TimeoutOver(match)
  BY DEF MatchInv, StateInv, Unpause
<1> HIDE DEF x
<1>2. Changes(match, x, {"paused", "entities"}, {}) /\ x.paused = PAUSE_UNPAUSING
  BY <1>1, TimeoutOverChanges
<1>3. /\ x \in Game /\ x.gamestate = match.gamestate /\ x.intermission = match.intermission
      /\ x.buffer = match.buffer /\ x.ready = match.ready /\ x.players = match.players
      /\ x.time = match.time /\ x.timeCurrent = match.timeCurrent /\ x.timeDelta = match.timeDelta
      /\ x.history.played = match.history.played /\ x.history.timeout = match.history.timeout
  BY <1>2 DEF Changes, Fields, HistoryFields
<1>4. ClockInv(x) BY <1>1, <1>2, <1>3 DEF StateInv, ClockInv
<1>5. PauseInv(x) BY <1>2, Bounds DEF PauseInv
<1>6. KeptInv(x) /\ SeenInv(x) BY <1>1, <1>2, KeptSame, SeenSame DEF StateInv
<1>7. RecordInv(x) BY <1>2, RecordSame DEF MatchInv, RecordInv
<1>8. BufferInv(x) BY <1>3 DEF MatchInv, BufferInv
<1>9. MatchInv(x) BY <1>1, <1>3, <1>4, <1>5, <1>6, <1>7, <1>8 DEF MatchInv, StateInv
<1>10. match.history.timeout \in Nat BY <1>1 DEF Game, History
<1>11. StepKept(match, x) BY <1>3, <1>9, <1>10, SmallStep
<1> QED BY <1>11 DEF x

\* A command that somebody types is behind those of the game.
LEMMA ByHandKept ==
  ASSUME MatchInv(match), NEW command \in {ToPlaying, ResetMatch}, ByHand(command)
  PROVE  StepKept(match, match')
<1> DEFINE h == [match.history EXCEPT !.typed = match.history.typed + 1]
           y == [match EXCEPT !.buffer = Append(match.buffer, command)]
           x == match'
<1>1. match \in Game /\ match.ready \subseteq match.players /\ StateInv(match)
  BY DEF MatchInv, StateInv
<1>2. command \in Commands /\ command # ToWarmup /\ match.buffer \in Seq(Commands)
  BY <1>1 DEF Commands, ToPlaying, ToWarmup, ResetMatch, Game
<1>3. Changes(match, y, {"buffer"}, {}) /\ y.buffer = Append(match.buffer, command)
  BY <1>1, <1>2, AppendChanges
<1>4. match.history.typed \in Nat BY <1>1 DEF Game, History
<1>5. /\ h \in History /\ h.typed = match.history.typed + 1
      /\ \A f \in HistoryFields \ {"typed"} : h[f] = match.history[f]
  <2>1. match.history \in History /\ match.history.typed + 1 \in Nat BY <1>1, <1>4 DEF Game
  <2>2. h \in History BY <2>1 DEF History
  <2> QED BY <2>1, <2>2 DEF History, HistoryFields
<1>6. x = [y EXCEPT !.history = h]
  <2>1. x = [match EXCEPT !.buffer = Append(match.buffer, command), !.history = h] BY DEF ByHand
  <2> QED BY <1>1, <2>1 DEF Game
<1> HIDE DEF h, x, y
<1>7. y \in Game BY <1>3 DEF Changes
<1>8. /\ x \in Game /\ x.history = h
      /\ \A f \in Fields \ {"history"} : x[f] = y[f]
  BY <1>5, <1>6, <1>7 DEF Game, Fields
<1>9. Changes(match, x, {"buffer"}, {"typed"}) /\ x.buffer = Append(match.buffer, command)
  BY <1>3, <1>5, <1>8 DEF Changes, Fields
<1>10. /\ x.gamestate = match.gamestate /\ x.intermission = match.intermission
       /\ x.paused = match.paused /\ x.ready = match.ready /\ x.players = match.players
  BY <1>9 DEF Changes, Fields
<1>11. StateInv(x) BY <1>1, <1>9, <1>10, StateSame
<1>12. RecordInv(x)
  <2>1. x.history.typed # 0 BY <1>4, <1>5, <1>8
  <2> QED BY <2>1 DEF RecordInv, RecordIn
<1>13. BufferInv(x)
  <2>1. SUFFICES ASSUME x.gamestate = GS_WARMUP_COUNTDOWN, NEW i \in DOMAIN x.buffer,
                        x.buffer[i] = ToWarmup
                 PROVE  x.buffer[1] = ToWarmup
    BY DEF BufferInv
  <2>2. i \in DOMAIN match.buffer /\ match.buffer[i] = ToWarmup
    BY <1>2, <1>9, <2>1, HoldsMore
  <2>3. match.buffer[1] = ToWarmup BY <1>10, <2>1, <2>2 DEF MatchInv, BufferInv
  <2>4. 1 \in DOMAIN match.buffer
    <3>1. DOMAIN match.buffer = 1 .. Len(match.buffer) /\ Len(match.buffer) \in Nat
      BY <1>2, LenProperties
    <3> QED BY <2>2, <3>1
  <2> QED BY <1>2, <1>9, <2>3, <2>4, HoldsMore
<1>14. MatchInv(x) BY <1>10, <1>11, <1>12, <1>13 DEF MatchInv
<1>15. match.history.timeout \in Nat BY <1>1 DEF Game, History
<1>16. StepKept(match, x) BY <1>10, <1>14, <1>15, SmallStep
<1> QED BY <1>16 DEF x

LEMMA MatchInitKept ==
  ASSUME MatchInit
  PROVE  MatchInv(match)
<1>1. PICK stopwatch \in BOOLEAN :
        match = [ stopwatch |-> stopwatch, gamestate |-> GS_WARMUP, seen |-> GS_WARMUP,
                  restarted |-> FALSE, paused |-> PAUSE_NONE, entities |-> <<>>,
                  time |-> 0, timeCurrent |-> 0, timeDelta |-> 0, levelStart |-> 0,
                  queued |-> FALSE, intermission |-> -1, stopSignaled |-> FALSE, countdown |-> 0,
                  timeouts |-> [t \in Teams |-> 0], players |-> {}, counted |-> {}, ready |-> {},
                  recorder |-> NotRecording, buffer |-> <<>>, history |-> NothingYet ]
  BY DEF MatchInit
<1>2. NothingYet \in History /\ NothingYet.kept = <<>>
  <2>1. [t \in Teams |-> 0] \in [Teams -> Nat] OBVIOUS
  <2>2. <<>> \in Seq(Nat) OBVIOUS
  <2> QED BY <2>1, <2>2 DEF NothingYet, History
<1>3. [t \in Teams |-> 0] \in [Teams -> 0 .. TimeoutCount]
  <2>1. 0 \in 0 .. TimeoutCount BY Bounds
  <2> QED BY <2>1
<1>4. /\ 0 \in 0 .. CountdownLength /\ -1 \in -1 .. ExitDelay /\ -1 < ExitDelay
      /\ 0 \in Int /\ 0 \in Nat
  BY Bounds
<1>5. <<>> \in Seq(Entity) /\ <<>> \in Seq(Commands) OBVIOUS
<1>6. GS_WARMUP \in GameStates BY DEF GameStates, Recorded
<1>7. match \in Game BY <1>1, <1>2, <1>3, <1>4, <1>5, <1>6 DEF Game
<1>8. /\ match.gamestate = GS_WARMUP /\ match.seen = GS_WARMUP /\ match.paused = PAUSE_NONE
      /\ ~match.queued /\ match.intermission = -1 /\ match.ready = {} /\ match.players = {}
      /\ match.recorder = NotRecording /\ ~match.stopSignaled /\ match.buffer = <<>>
      /\ match.history = NothingYet
  BY <1>1
<1>9. ClockInv(match) /\ KeptInv(match) BY <1>8 DEF ClockInv, KeptInv
<1>10. PauseInv(match) BY <1>8, Bounds DEF PauseInv
<1>11. SeenInv(match) BY <1>8 DEF SeenInv
<1>12. BufferInv(match) BY <1>8 DEF BufferInv
<1>13. RecordInv(match) BY <1>2, <1>8 DEF RecordInv, RecordIn, InRound
<1> QED BY <1>4, <1>7, <1>8, <1>9, <1>10, <1>11, <1>12, <1>13 DEF MatchInv, StateInv

LEMMA MatchStep ==
  ASSUME MatchInv(match), [MatchNext]_matchVars
  PROVE  StepKept(match, match')
<1>1. CASE Com_Frame BY <1>1, ComFrameKept DEF StepKept
<1>2. CASE CalculateRanks BY <1>2, RanksKept
<1>3. ASSUME NEW t \in Teams,
             Join(t) \/ Leave(t) \/ Pause(t) \/ Unpause(t) \/ \E state \in BOOLEAN : G_ready_cmd(t, state)
      PROVE  StepKept(match, match')
  BY <1>3, JoinKept, LeaveKept, PauseKept, UnpauseKept, ReadyKept
<1>4. ASSUME NEW command \in {ToPlaying, ResetMatch}, ByHand(command)
      PROVE  StepKept(match, match')
  BY <1>4, ByHandKept
<1>5. CASE UNCHANGED matchVars
  <2>1. match' = match BY <1>5 DEF matchVars
  <2>2. match.history.timeout \in Nat BY DEF MatchInv, StateInv, Game, History
  <2> QED BY <2>1, <2>2, SmallStep
<1> QED BY <1>1, <1>3, <1>4, <1>5, <1>2 DEF MatchNext

-----------------------------------------------------------------------------
(* Theorems *)

\* The inductive invariant of the match.
THEOREM MatchInvariant == MatchSpec => []MatchInv(match)
<1>1. MatchInit => MatchInv(match) BY MatchInitKept
<1>2. MatchInv(match) /\ [MatchNext]_matchVars => MatchInv(match)' BY MatchStep DEF StepKept
<1> QED BY <1>1, <1>2, PTL DEF MatchSpec

\* The types, and that a team is never without a timeout it has not called,
\* nor with one it has (Cmd_Pause, G_teamReset), whatever the lengths.
THEOREM MatchTimeouts == MatchSpec => []TimeoutsInv
<1>1. MatchInv(match) => TimeoutsInv
  <2>1. SUFFICES ASSUME MatchInv(match) PROVE TimeoutsInv OBVIOUS
  <2>2. match \in Game /\ match.ready \subseteq match.players /\ KeptInv(match)
    BY <2>1 DEF MatchInv, StateInv
  <2>3. Range(match.buffer) \subseteq Commands
    <3>1. match.buffer \in Seq(Commands) BY <2>2 DEF Game
    <3>2. DOMAIN match.buffer = 1 .. Len(match.buffer) BY <3>1, LenProperties
    <3>3. \A i \in DOMAIN match.buffer : match.buffer[i] \in Commands
      BY <3>1, <3>2, ElementOfSeq
    <3> QED BY <3>3 DEF Range
  <2>4. MatchTypeOK BY <2>2, <2>3 DEF MatchTypeOK, Game, GameStates
  <2>5. TimeoutsKept BY <2>2 DEF KeptInv, TimeoutsKept
  <2> QED BY <2>4, <2>5 DEF TimeoutsInv
<1> QED BY <1>1, MatchInvariant, PTL

\* However often it was paused, the clock of a round (G_RunFrame) is what was
\* played, and the clients show the same.
THEOREM MatchClock == MatchSpec => []ClockCountsPlay
<1>1. MatchInv(match) => ClockCountsPlay
  <2>1. SUFFICES ASSUME MatchInv(match), match.gamestate = GS_PLAYING, match.paused = PAUSE_NONE
                 PROVE  /\ match.timeCurrent = match.history.played
                        /\ match.time - match.levelStart = match.timeCurrent
    BY DEF ClockCountsPlay
  <2> QED BY <2>1 DEF MatchInv, StateInv, ClockInv
<1> QED BY <1>1, MatchInvariant, PTL

\* Unless somebody types a command, a round that was played to its end is kept,
\* in one recording, and no other is (G_wtvAutoStop, Svcmd_ResetMatch_f).
THEOREM MatchRecords == MatchSpec => []RecordsTheRound
<1>1. MatchInv(match) => RecordsTheRound
  <2>1. SUFFICES ASSUME MatchInv(match), match.history.typed = 0
                 PROVE  /\ match.recorder # NotRecording
                             <=> match.gamestate \in Recorded /\ ~match.stopSignaled
                        /\ match.history.kept \in {<<>>, <<1>>}
                        /\ NextMap \in Range(match.buffer) => match.history.kept = <<1>>
    BY DEF RecordsTheRound
  <2>2. match.gamestate \in GameStates BY <2>1 DEF MatchInv, StateInv, Game
  <2>3. CASE match.gamestate = GS_WARMUP
    BY <2>1, <2>3 DEF MatchInv, RecordInv, RecordIn, Recorded, Range
  <2>4. CASE match.gamestate = GS_WARMUP_COUNTDOWN
    BY <2>1, <2>4 DEF MatchInv, RecordInv, RecordIn, Recorded, Range
  <2>5. CASE InRound(match)
    <3>1. \/ Going(match, StopDelay) \/ WasKept(match) \/ Thrown(match, StopDelay + 1)
      BY <2>1, <2>5 DEF MatchInv, RecordInv, RecordIn
    <3>2. match.history.kept = <<>> => NextMap \notin Range(match.buffer)
      BY <2>1 DEF MatchInv, RecordInv, RecordIn, Range
    <3>3. match.gamestate \in Recorded BY <2>5 DEF InRound, Recorded
    <3>4. CASE Going(match, StopDelay) BY <3>2, <3>3, <3>4 DEF Going
    <3>5. CASE WasKept(match) BY <3>3, <3>5 DEF WasKept
    <3>6. CASE Thrown(match, StopDelay + 1) BY <3>2, <3>3, <3>6 DEF Thrown
    <3> QED BY <3>1, <3>4, <3>5, <3>6
  <2> QED BY <2>2, <2>3, <2>4, <2>5 DEF GameStates, Recorded, InRound
<1> QED BY <1>1, MatchInvariant, PTL

\* A timeout that nobody ends is as long as it should be (G_delayPrint), but
\* for the one called while the last one's entity was still waiting.
THEOREM MatchTimeoutLasts == MatchSpec => TimeoutLasts
<1>1. MatchInv(match) /\ [MatchNext]_matchVars => TimeoutLasted(match, match')
  BY MatchStep DEF StepKept
<1>2. TimeoutLasted(match, match')
        => [ (/\ match.paused \in Teams /\ match'.paused \notin Teams
              /\ match'.history.timeout > match.history.timeout)
             => match'.history.timeout >= TimeoutLength - 1 \/ match'.history.leftover ]_matchVars
  BY DEF TimeoutLasted
<1> QED BY <1>1, <1>2, MatchInvariant, PTL DEF MatchSpec, TimeoutLasts

\* No round begins when its countdown was given up, whatever is in the command
\* buffer (Cbuf_Execute, SV_MapRestart_f).
THEOREM MatchStartsOnlyReady == MatchSpec => StartsOnlyReady
<1>1. MatchInv(match) /\ [MatchNext]_matchVars => StartedReady(match, match')
  BY MatchStep DEF StepKept
<1>2. StartedReady(match, match')
        => [ match.gamestate = GS_WARMUP_COUNTDOWN /\ match'.gamestate = GS_PLAYING
             => ToWarmup \notin Range(match.buffer) ]_matchVars
  BY DEF StartedReady
<1> QED BY <1>1, <1>2, MatchInvariant, PTL DEF MatchSpec, StartsOnlyReady
=============================================================================
