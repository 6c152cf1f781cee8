------------------------------ MODULE Gamestate ------------------------------
(***************************************************************************)
(* How a client gets into a map: the server's gamestate and its            *)
(* acknowledgement (server/sv_client.c), configstrings that change before, *)
(* during and after it (server/sv_init.c), downloads in between, and the   *)
(* client that loads the gamestate and executes configstring commands      *)
(* (client/cl_parse.c, client/cl_cgame.c).  sv_pure is off: no cp command. *)
(*                                                                         *)
(* A configstring is its number of changes, but CS_SYSTEMINFO is serverId: *)
(* that is where the client reads it. Reliable commands are what           *)
(* ReliableCommands checks them to be: a message tells the client of every *)
(* command issued before it. `commands` is the list of cs commands the     *)
(* server issued; other commands are left out. Below is a MessageChannel,  *)
(* with messages that wait in the server until their fragments are sent.   *)
(***************************************************************************)
EXTENDS Integers, Sequences, FiniteSets, SequencesExt

CONSTANTS
  Indices,                  \* configstring numbers
  CS_SYSTEMINFO,
  MAX_RELIABLE_COMMANDS,
  MaxChanges,               \* bound: changes of one configstring
  MaxMaps,                  \* bound: map changes and restarts
  MaxMessages,              \* bound: messages of the server
  MaxDownloads              \* bound: downloads of the client

ASSUME GamestateAssumption ==
  /\ IsFiniteSet(Indices) /\ CS_SYSTEMINFO \in Indices
  /\ MAX_RELIABLE_COMMANDS \in Nat \ {0}
  /\ {MaxChanges, MaxMaps, MaxMessages, MaxDownloads} \subseteq Nat

VARIABLES
  sv,         \* the server: its configstrings and its client_t
  toClient,   \* messages in flight, oldest first
  toServer,   \* the client message in flight: a set of at most one
  cl          \* the client

vars == <<sv, toClient, toServer, cl>>

CS_ZOMBIE == "CS_ZOMBIE"
CS_CONNECTED == "CS_CONNECTED"
CS_PRIMED == "CS_PRIMED"
CS_ACTIVE == "CS_ACTIVE"
GSA_INIT == "GSA_INIT"
GSA_SENT_ONCE == "GSA_SENT_ONCE"
GSA_SENT_MANY == "GSA_SENT_MANY"
GSA_ACKED == "GSA_ACKED"

NoStrings == [i \in Indices |-> 0]

\* CL_SystemInfoChanged: cl.serverId.
ServerId(c) == c.configstrings[CS_SYSTEMINFO]

Init ==
  /\ sv = [ serverId            |-> 1,
            map                 |-> 1,      \* history: which map this is
            configstrings       |-> [NoStrings EXCEPT ![CS_SYSTEMINFO] = 1],
            state               |-> CS_CONNECTED,
            gamestateAck        |-> GSA_INIT,
            gamestateMessageNum |-> -1,
            downloading         |-> FALSE,
            csUpdated           |-> {},
            reliableAcknowledge |-> 0,
            lastClientCommand   |-> 0,
            commands            |-> <<>>,   \* [index, value] of each cs
            outgoingSequence    |-> 1,
            unsent              |-> <<>>,   \* fragments and queue of netchan
            unconfirmed         |-> {} ]    \* history: see SendGamestate
  /\ toClient = <<>>
  /\ toServer = {}
  /\ cl = [ map                   |-> 0,      \* history: the map it loaded
            configstrings         |-> NoStrings,
            serverMessageSequence |-> 0,
            serverCommandSequence |-> 0,
            lastExecuted          |-> 0,
            loaded                |-> FALSE,  \* the cgame runs
            downloading           |-> FALSE,
            commands              |-> <<>>,   \* "download" and "donedl"
            overtaken             |-> {} ]    \* history: see ParseGamestate

-----------------------------------------------------------------------------
(* Server *)

\* The sequence the next message will have when its fragments are out.
NextSequence(s) == s.outgoingSequence + Len(s.unsent)

WithinBudget == NextSequence(sv) <= MaxMessages

\* The cs commands of a set of configstrings; too many pending drop the client.
SendConfigstrings(s, changed) ==
  LET cs(i)  == [index |-> i, value |-> s.configstrings[i]]
      issued == s.commands \o [k \in 1 .. Cardinality(changed) |->
                                 cs(SetToSeq(changed)[k])]
  IN  [s EXCEPT !.commands = issued,
                !.state = IF Len(issued) - s.reliableAcknowledge
                               > MAX_RELIABLE_COMMANDS
                          THEN CS_ZOMBIE ELSE @]

\* What the game may set.
Settable == {i \in Indices \ {CS_SYSTEMINFO} : sv.configstrings[i] < MaxChanges}

\* A change by the game, or by SV_Frame once sv_serverid has changed.
SV_SetConfigstring(i) ==
  LET new == [sv EXCEPT !.configstrings[i] =
                IF i = CS_SYSTEMINFO THEN sv.serverId ELSE @ + 1]
  IN  /\ \/ i \in Settable
         \/ i = CS_SYSTEMINFO /\ sv.configstrings[i] # sv.serverId
      /\ sv' = IF sv.state = CS_ACTIVE
               THEN SendConfigstrings(new, {i})
               ELSE [new EXCEPT !.csUpdated = @ \cup {i}]
      /\ UNCHANGED <<toClient, toServer, cl>>

\* The gamestate is numbered with the sequence the netchan has reached, its
\* message gets the sequence after everything still unsent.
SendGamestate(s) ==
  LET pending == Len(s.commands) - s.reliableAcknowledge
      resent  == s.gamestateAck # GSA_INIT
      many    == /\ resent /\ s.csUpdated # {}
                 /\ pending + Cardinality(s.csUpdated) >= MAX_RELIABLE_COMMANDS - 1
      cleared == IF many THEN s.csUpdated ELSE {}
      message == [ sequence         |-> NextSequence(s),
                   gamestate        |-> TRUE,
                   map              |-> s.map,
                   configstrings    |-> s.configstrings,
                   reliableSequence |-> Len(s.commands) ]
  IN  [s EXCEPT
         !.state = CS_PRIMED,
         !.downloading = FALSE,
         !.gamestateMessageNum = s.outgoingSequence,
         !.csUpdated = @ \ cleared,
         !.gamestateAck = IF ~resent \/ (@ # GSA_SENT_MANY /\ ~many)
                          THEN GSA_SENT_ONCE ELSE GSA_SENT_MANY,
         !.unsent = Append(@, message),
         !.unconfirmed = IF s.unsent = <<>> THEN @ ELSE @ \cup cleared]

\* At most one resend a second: whether it is time for one is not modelled.
ResendGamestate(s) == {s, SendGamestate(s)}

\* Mutant: the gamestate of another map is acknowledged.
SV_AcknowledgeGamestateAnyMap(s, m) ==
  IF m.messageAcknowledge >= s.gamestateMessageNum
  THEN [s EXCEPT !.gamestateAck = GSA_ACKED] ELSE s

SV_AcknowledgeGamestate(s, m) ==
  LET messageDelta == m.messageAcknowledge - s.gamestateMessageNum
  IN  IF /\ m.serverId = s.serverId
         /\ \/ messageDelta = 0
            \/ messageDelta > 0 /\ s.gamestateAck = GSA_SENT_ONCE
      THEN [s EXCEPT !.gamestateAck = GSA_ACKED]
      ELSE s

SV_BeginDownload_f(s) ==
  IF s.state = CS_ACTIVE THEN s
  ELSE [s EXCEPT !.state = CS_CONNECTED,
                 !.downloading = TRUE,
                 !.gamestateAck = IF @ = GSA_ACKED THEN GSA_SENT_ONCE ELSE @]

SV_DoneDownload_f(s) == IF s.state = CS_ACTIVE THEN s ELSE SendGamestate(s)

SV_ExecuteClientCommand(s, command) ==
  IF command = "download" THEN SV_BeginDownload_f(s) ELSE SV_DoneDownload_f(s)

\* The commands of m not executed before, in order.
ClientCommands(s, m) ==
  LET after[n \in 0 .. Len(m.commands)] ==
        IF n <= s.lastClientCommand
        THEN [s EXCEPT !.lastClientCommand = Len(m.commands)]
        ELSE SV_ExecuteClientCommand(after[n - 1], m.commands[n])
  IN  after[Len(m.commands)]

\* Mutant: what changed since the gamestate is not sent.
SV_ClientEnterWorldQuietly(s) ==
  [s EXCEPT !.state = CS_ACTIVE, !.gamestateAck = GSA_ACKED, !.csUpdated = {}]

SV_ClientEnterWorld(s) ==
  SendConfigstrings([s EXCEPT !.state = CS_ACTIVE, !.gamestateAck = GSA_ACKED,
                              !.csUpdated = {}], s.csUpdated)

\* The first move enters the world.
SV_UserMove(s, m) ==
  IF m.move /\ s.state = CS_PRIMED THEN SV_ClientEnterWorld(s) ELSE s

\* The rest of a message after its commands: the late acknowledgement.
AfterCommands(s, m) ==
  LET late == SV_AcknowledgeGamestate(s, m)
  IN  IF s.gamestateAck = GSA_ACKED THEN {SV_UserMove(s, m)}
      ELSE IF s.state # CS_PRIMED THEN {s}
      ELSE IF late.gamestateAck = GSA_ACKED THEN {SV_UserMove(late, m)}
      ELSE ResendGamestate(late)

ExecuteClientMessage(s, m) ==
  LET read  == [s EXCEPT !.reliableAcknowledge = m.reliableAcknowledge]
      early == IF read.state # CS_CONNECTED /\ read.gamestateAck # GSA_ACKED
               THEN SV_AcknowledgeGamestate(read, m) ELSE read
  IN  IF s.state = CS_CONNECTED /\ ~s.downloading
      THEN ResendGamestate(read)
      ELSE AfterCommands(ClientCommands(early, m), m)

SV_ExecuteClientMessage(m) ==
  /\ sv.state # CS_ZOMBIE /\ WithinBudget
  /\ sv' \in ExecuteClientMessage(sv, m)
  /\ toServer' = {}
  /\ UNCHANGED <<toClient, cl>>

SV_SendClientSnapshot ==
  /\ sv.state \in {CS_PRIMED, CS_ACTIVE} /\ sv.unsent = <<>> /\ WithinBudget
  /\ toClient' = Append(toClient,
       [ sequence         |-> sv.outgoingSequence,
         gamestate        |-> FALSE,
         map              |-> 0,
         configstrings    |-> NoStrings,
         reliableSequence |-> Len(sv.commands) ])
  /\ sv' = [sv EXCEPT !.outgoingSequence = @ + 1]
  /\ UNCHANGED <<toServer, cl>>

\* The last fragment of the oldest unsent message.
SV_Netchan_TransmitNextFragment ==
  /\ sv.unsent # <<>>
  /\ toClient' = Append(toClient, Head(sv.unsent))
  /\ sv' = [sv EXCEPT !.unsent = Tail(@), !.outgoingSequence = @ + 1]
  /\ UNCHANGED <<toServer, cl>>

\* A new serverId, and the strings the new game has changed.
NewGame(changed) ==
  [sv EXCEPT !.serverId = @ + 1,
             !.configstrings = [i \in Indices |->
                                  IF i \in changed THEN @[i] + 1 ELSE @[i]]]

\* A new map: what the game sets while it loads is not broadcast.
SV_SpawnServer ==
  /\ sv.state # CS_ZOMBIE /\ sv.serverId <= MaxMaps
  /\ \E changed \in SUBSET Settable :
       sv' = [NewGame(changed) EXCEPT !.map = @ + 1,
                                      !.configstrings[CS_SYSTEMINFO] = sv.serverId + 1,
                                      !.state = CS_CONNECTED,
                                      !.gamestateAck = GSA_INIT,
                                      !.unconfirmed = {}]
  /\ UNCHANGED <<toClient, toServer, cl>>

\* A restart of the map: what changes is broadcast, clients in the world stay
\* there, and CS_SYSTEMINFO is for the next SV_Frame to set.
SV_MapRestart_f ==
  /\ sv.state # CS_ZOMBIE /\ sv.serverId <= MaxMaps
  /\ \E changed \in SUBSET Settable :
       sv' = IF sv.state = CS_ACTIVE
             THEN SendConfigstrings(NewGame(changed), changed)
             ELSE [NewGame(changed) EXCEPT !.csUpdated = @ \cup changed]
  /\ UNCHANGED <<toClient, toServer, cl>>

-----------------------------------------------------------------------------
(* Client *)

\* CL_ParseGamestate, and CL_InitDownloads: the client loads the map, or first
\* asks for a file.  A cgame is initialised with the last command executed, so
\* the commands overtaken by the gamestate are executed after it.
ParseGamestate(c, m, download) ==
  [c EXCEPT !.map = m.map,
            !.configstrings = m.configstrings,
            !.loaded = ~download,
            !.downloading = download,
            !.commands = IF download THEN Append(@, "download") ELSE @,
            !.overtaken = {sv.commands[k].index :
                             k \in c.lastExecuted + 1 .. m.reliableSequence}]

CL_ParseServerMessage ==
  /\ toClient # <<>>
  /\ LET m == Head(toClient)
         c == [cl EXCEPT !.serverMessageSequence = m.sequence,
                         !.serverCommandSequence = m.reliableSequence]
     IN  IF m.gamestate
         THEN \E download \in BOOLEAN :
                /\ download => Len(cl.commands) < 2 * MaxDownloads
                /\ cl' = ParseGamestate(c, m, download)
         ELSE cl' = c
  /\ toClient' = Tail(toClient)
  /\ UNCHANGED <<sv, toServer>>

\* CL_DownloadsComplete: ask for the gamestate again before loading.
CL_DownloadsComplete ==
  /\ cl.downloading
  /\ cl' = [cl EXCEPT !.downloading = FALSE, !.commands = Append(@, "donedl")]
  /\ UNCHANGED <<sv, toClient, toServer>>

\* A packet of the client replaces the one on its way: that one is lost.
CL_WritePacket ==
  /\ toServer' = {[ serverId            |-> ServerId(cl),
                    messageAcknowledge  |-> cl.serverMessageSequence,
                    reliableAcknowledge |-> cl.serverCommandSequence,
                    commands            |-> cl.commands,
                    move                |-> cl.loaded ]}
  /\ toServer' # toServer
  /\ UNCHANGED <<sv, toClient, cl>>

\* CL_GetServerCommand and CL_ConfigstringModified.
CL_GetServerCommand ==
  LET n  == cl.lastExecuted + 1
      cs == sv.commands[n]
  IN  /\ cl.loaded /\ n <= cl.serverCommandSequence
      /\ cl' = [cl EXCEPT !.lastExecuted = n,
                          !.configstrings[cs.index] = cs.value]
      /\ UNCHANGED <<sv, toClient, toServer>>

\* Any message may be lost; nobody can tell before its turn has come.
LoseMessage ==
  /\ toClient # <<>>
  /\ toClient' = Tail(toClient)
  /\ UNCHANGED <<sv, toServer, cl>>

Next ==
  \/ \E i \in Indices : SV_SetConfigstring(i)
  \/ \E m \in toServer : SV_ExecuteClientMessage(m)
  \/ SV_SendClientSnapshot
  \/ SV_Netchan_TransmitNextFragment
  \/ SV_SpawnServer
  \/ SV_MapRestart_f
  \/ CL_ParseServerMessage
  \/ CL_DownloadsComplete
  \/ CL_WritePacket
  \/ CL_GetServerCommand
  \/ LoseMessage

Spec == Init /\ [][Next]_vars

-----------------------------------------------------------------------------
StringsType == [Indices -> Nat]
MessageType == [ sequence : Nat, gamestate : BOOLEAN, map : Nat,
                 configstrings : StringsType, reliableSequence : Nat ]

\* The values the state takes.
TypeOK ==
  /\ sv.serverId \in Nat /\ {sv.map, cl.map} \subseteq 0 .. sv.serverId
  /\ sv.configstrings \in StringsType
  /\ sv.state \in {CS_ZOMBIE, CS_CONNECTED, CS_PRIMED, CS_ACTIVE}
  /\ sv.gamestateAck \in {GSA_INIT, GSA_SENT_ONCE, GSA_SENT_MANY, GSA_ACKED}
  /\ sv.csUpdated \subseteq Indices /\ sv.unconfirmed \subseteq Indices
  /\ sv.commands \in Seq([index : Indices, value : Nat])
  /\ sv.unsent \in Seq(MessageType) /\ toClient \in Seq(MessageType)
  /\ sv.gamestateMessageNum \in -1 .. sv.outgoingSequence
  /\ sv.reliableAcknowledge \in 0 .. Len(sv.commands)
  /\ sv.lastClientCommand \in 0 .. Len(cl.commands)
  /\ cl.configstrings \in StringsType /\ cl.overtaken \subseteq Indices
  /\ cl.commands \in Seq({"download", "donedl"})

\* A client in the world, with every command executed: what it has seen of
\* the configstrings is all there is to see.
InWorld == sv.state = CS_ACTIVE /\ cl.loaded
CaughtUp == InWorld /\ cl.lastExecuted = Len(sv.commands)

\* SV_ClientEnterWorld: no client plays in a map it has not got a gamestate of.
PlaysTheMapItLoaded == sv.state = CS_ACTIVE => cl.map = sv.map

\* Types, and what lets a client into the world (SV_ExecuteClientMessage).
WorldInv == TypeOK /\ PlaysTheMapItLoaded

\* Whatever changed while the client was loading, downloading or retransmitted
\* to reaches it: its configstrings are the server's once it has caught up.
\* Two kinds of configstrings are excepted: those whose update a resent
\* gamestate stood in for although it was numbered as another message (it is
\* queued behind fragments, and the acknowledgement of the message before it is
\* taken for its own), and those with a command overtaken by the gamestate
\* (see ConfigstringsTransmitted).
ConfigstringsAgree ==
  CaughtUp => \A i \in Indices \ (sv.unconfirmed \cup cl.overtaken) :
                cl.configstrings[i] = sv.configstrings[i]

\* sv_init.c: any configstring change is reliably transmitted to all clients.
ConfigstringsTransmitted ==
  CaughtUp => \A i \in Indices \ sv.unconfirmed :
                cl.configstrings[i] = sv.configstrings[i]
=============================================================================
