-------------------------- MODULE ReliableCommands --------------------------
(***************************************************************************)
(* Reliable commands in both directions between the server and one client  *)
(* that has a gamestate.  Every message of a side repeats its commands the *)
(* other side has not acknowledged and acknowledges what it has received;  *)
(* the last MAX_RELIABLE_COMMANDS commands are kept in a ring, and the     *)
(* acknowledged command is the key the message is scrambled with.          *)
(*                                                                         *)
(* Below the commands is a channel as MessageChannel describes it: each    *)
(* direction is a queue from which any message may be lost.  The n-th      *)
(* command a side issues is the text n; 0 is the empty string of a slot    *)
(* never written.                                                          *)
(***************************************************************************)
EXTENDS Integers, Sequences

CONSTANTS
  MAX_RELIABLE_COMMANDS,
  MaxServerCommands,     \* bound: commands the game issues
  MaxClientCommands,     \* bound: commands the client issues
  MaxInFlight            \* bound: undelivered messages per direction

ASSUME ReliableCommandsAssumption ==
  /\ MAX_RELIABLE_COMMANDS \in Nat \ {0}
  /\ MaxServerCommands \in Nat /\ MaxClientCommands \in Nat
  /\ MaxInFlight \in Nat \ {0}

VARIABLES
  sv,          \* the client_t of the server
  cl,          \* clc of the client
  toClient,    \* messages in flight, oldest first
  toServer

vars == <<sv, cl, toClient, toServer>>

\* client_t::state, as far as commands tell states apart; CS_ACTIVE stands for
\* CS_PRIMED too.  And the life of the client's connection.
CS_ACTIVE == "CS_ACTIVE"
CS_ZOMBIE == "CS_ZOMBIE"
ClientStates == {"connected", "disconnected", "ERR_DROP"}

\* How far SV_DropClient is: it has to print its reason, or has done so and told
\* the game, which may add commands of its own before the disconnect command.
DropSteps == {"no", "print", "told"}

\* The text of the client's disconnect command, issued as its n-th.
DisconnectText(n) == -n
IsDisconnect(text) == text < 0

Slot(n) == n % MAX_RELIABLE_COMMANDS

EmptyRing == [s \in 0 .. MAX_RELIABLE_COMMANDS - 1 |-> 0]

\* The commands first .. last as a message carries them: whatever text their
\* slots hold now.
Pending(ring, first, last) ==
  [i \in 1 .. last - first + 1 |-> ring[Slot(first + i - 1)]]

Init ==
  /\ sv = [ state                   |-> CS_ACTIVE,
            drop                    |-> "no",
            reliableSequence        |-> 0,
            reliableAcknowledge     |-> 0,
            reliableCommands        |-> EmptyRing,
            lastClientCommand       |-> 0,
            lastClientCommandString |-> 0,
            overflowed              |-> 0,    \* the command that overflowed
            lostCommands            |-> FALSE,\* dropped for a gap in commands
            garbled                 |-> FALSE,\* a message decoded with another key
            executed                |-> <<>> ]
  /\ cl = [ state                     |-> "connected",
            reliableSequence          |-> 0,
            reliableAcknowledge       |-> 0,
            reliableCommands          |-> EmptyRing,
            serverCommandSequence     |-> 0,
            serverCommands            |-> EmptyRing,
            garbled                   |-> FALSE,
            executed                  |-> <<>> ]
  /\ toClient = <<>>
  /\ toServer = <<>>

\* A message decoded with another key than it was encoded with is noise, and
\* what parsing noise does is not modelled: such a side takes no more steps.
ServerRuns == ~sv.garbled
ClientRuns == cl.state = "connected" /\ ~cl.garbled

-----------------------------------------------------------------------------
(* The server's commands *)

\* The n-th command, after which a drop under way is at `next`.
Store(s, n, next) ==
  [s EXCEPT !.reliableSequence = n, !.reliableCommands[Slot(n)] = n, !.drop = next]

\* SV_DropClient with a reason, on a client that is no zombie, begins; it goes
\* on with SV_DropClientPrint.
DropClient(s) == [s EXCEPT !.drop = "print"]

\* The n-th command is counted but not stored, and drops the client; inside a
\* drop it begins another one.  What is left of the outer one then finds a
\* zombie, which is sent no command: it adds nothing to this.
Overflow(s, n) ==
  DropClient([s EXCEPT !.reliableSequence = n, !.overflowed = n])

\* Mutant: the overflow is noticed one command late.
AddCommandLate(s, next) ==
  LET n == s.reliableSequence + 1
  IN  IF n - s.reliableAcknowledge = MAX_RELIABLE_COMMANDS + 2
      THEN Overflow(s, n) ELSE Store(s, n, next)

\* SV_AddServerCommand on a client that is active.
AddCommand(s, next) ==
  LET n == s.reliableSequence + 1
  IN  IF n - s.reliableAcknowledge = MAX_RELIABLE_COMMANDS + 1
      THEN Overflow(s, n) ELSE Store(s, n, next)

\* A command of the game, also of its GAME_CLIENT_DISCONNECT.
SV_AddServerCommand ==
  /\ ServerRuns /\ sv.state # CS_ZOMBIE /\ sv.drop # "print"
  /\ sv.reliableSequence < MaxServerCommands
  /\ sv' = AddCommand(sv, sv.drop)
  /\ UNCHANGED <<cl, toClient, toServer>>

\* SV_CheckTimeouts, a kick, a bad cp: a drop that has nothing to do with
\* the commands.
SV_DropClient ==
  /\ ServerRuns /\ sv.state # CS_ZOMBIE /\ sv.drop = "no"
  /\ sv' = DropClient(sv)
  /\ UNCHANGED <<cl, toClient, toServer>>

\* The print to everyone, this client too; the game is told.
SV_DropClientPrint ==
  /\ ServerRuns /\ sv.drop = "print"
  /\ sv' = AddCommand(sv, "told")
  /\ UNCHANGED <<cl, toClient, toServer>>

\* The disconnect command, for which the client is active still, and the end.
SV_DropClientDisconnect ==
  LET s == AddCommand(sv, "no")
  IN  /\ ServerRuns /\ sv.drop = "told"
      /\ sv' = IF s.drop = "no" THEN [s EXCEPT !.state = CS_ZOMBIE] ELSE s
      /\ UNCHANGED <<cl, toClient, toServer>>

\* SV_SendClientSnapshot: a zombie still gets its last commands.  The key is
\* the last client command executed.
SV_SendClientSnapshot ==
  /\ ServerRuns /\ sv.drop = "no" /\ Len(toClient) < MaxInFlight
  /\ LET first == sv.reliableAcknowledge + 1
     IN  toClient' = Append(toClient,
           [ ack      |-> sv.lastClientCommand,
             first    |-> first,
             commands |-> Pending(sv.reliableCommands, first, sv.reliableSequence),
             key      |-> sv.lastClientCommandString ])
  /\ UNCHANGED <<sv, cl, toServer>>

\* Mutant: commands executed before are executed again.
ClientCommandsAgain(s, m, count) ==
  IF count = 0 THEN s
  ELSE [s EXCEPT !.lastClientCommand = m.first + count - 1,
                 !.lastClientCommandString = m.commands[count],
                 !.executed = @ \o SubSeq(m.commands, 1, count)]

\* The first `count` commands of m are looked at: the ones executed before are
\* skipped, a gap drops the client, the rest is executed in order up to a
\* disconnect.  Parsing stops early at a userinfo command over its rate limit,
\* which is left for the next message to repeat.
ClientCommands(s, m, count) ==
  LET from  == s.lastClientCommand + 2 - m.first
      gone  == {i \in from .. count : IsDisconnect(m.commands[i])}
      until == CHOOSE i \in gone \cup {count} : \A j \in gone : i <= j
      done  == [s EXCEPT !.lastClientCommand = m.first + until - 1,
                         !.lastClientCommandString = m.commands[until],
                         !.executed = @ \o SubSeq(m.commands, from, until)]
  IN  IF count = 0 \/ from > count THEN s
      ELSE IF from < 1 THEN DropClient([s EXCEPT !.lostCommands = TRUE])
      ELSE IF gone # {} THEN DropClient(done)
      ELSE done

\* SV_Netchan_Decode, then SV_ExecuteClientMessage.  The acknowledgement is in
\* the clear.  SV_PacketEvent drops what a zombie sends.
SV_ExecuteClientMessage ==
  /\ ServerRuns /\ sv.drop = "no" /\ toServer # <<>>
  /\ toServer' = Tail(toServer)
  /\ LET m == Head(toServer)
         unacknowledged == sv.reliableSequence - m.ack
         acked == [sv EXCEPT !.reliableAcknowledge = m.ack]
     IN  \/ /\ sv.state = CS_ZOMBIE \/ unacknowledged < 0
            /\ sv' = sv
         \/ /\ sv.state # CS_ZOMBIE /\ unacknowledged > MAX_RELIABLE_COMMANDS
            /\ sv' = [sv EXCEPT !.reliableAcknowledge = sv.reliableSequence]
         \/ /\ sv.state # CS_ZOMBIE
            /\ unacknowledged \in 0 .. MAX_RELIABLE_COMMANDS
            /\ IF m.key # sv.reliableCommands[Slot(m.ack)]
               THEN sv' = [acked EXCEPT !.garbled = TRUE]
               ELSE \E count \in 0 .. Len(m.commands) :
                      sv' = ClientCommands(acked, m, count)
  /\ UNCHANGED <<cl, toClient>>

-----------------------------------------------------------------------------
(* The client's commands *)

ClientStore(c, n, text) ==
  [c EXCEPT !.reliableSequence = n, !.reliableCommands[Slot(n)] = text]

CL_AddReliableCommand ==
  LET unacknowledged == cl.reliableSequence - cl.reliableAcknowledge
      n == cl.reliableSequence + 1
  IN  /\ ClientRuns /\ n <= MaxClientCommands
      /\ cl' = IF unacknowledged >= MAX_RELIABLE_COMMANDS
               THEN [cl EXCEPT !.state = "ERR_DROP"]  \* Client command overflow
               ELSE ClientStore(cl, n, n)
      /\ UNCHANGED <<sv, toClient, toServer>>

\* Mutant: the oldest command the server has not acknowledged is left out.
ClientMessageShort(c) ==
  [ ack      |-> c.serverCommandSequence,
    first    |-> c.reliableAcknowledge + 2,
    commands |-> Pending(c.reliableCommands, c.reliableAcknowledge + 2,
                         c.reliableSequence),
    key      |-> c.serverCommands[Slot(c.serverCommandSequence)] ]

\* Mutant: the key is the slot of the command awaited.
ClientMessageNextKey(c) ==
  [ ack      |-> c.serverCommandSequence,
    first    |-> c.reliableAcknowledge + 1,
    commands |-> Pending(c.reliableCommands, c.reliableAcknowledge + 1,
                         c.reliableSequence),
    key      |-> c.serverCommands[Slot(c.serverCommandSequence + 1)] ]

\* CL_WritePacket and CL_Netchan_Encode: the key is the server command the
\* message acknowledges.
ClientMessage(c) ==
  [ ack      |-> c.serverCommandSequence,
    first    |-> c.reliableAcknowledge + 1,
    commands |-> Pending(c.reliableCommands, c.reliableAcknowledge + 1,
                         c.reliableSequence),
    key      |-> c.serverCommands[Slot(c.serverCommandSequence)] ]

CL_WritePacket ==
  /\ ClientRuns /\ Len(toServer) < MaxInFlight
  /\ toServer' = Append(toServer, ClientMessage(cl))
  /\ UNCHANGED <<sv, cl, toClient>>

\* CL_Disconnect: one command more than the limit is allowed for, and sent.
CL_Disconnect ==
  LET unacknowledged == cl.reliableSequence - cl.reliableAcknowledge
      n    == cl.reliableSequence + 1
      last == [ClientStore(cl, n, DisconnectText(n)) EXCEPT !.state = "disconnected"]
  IN  /\ ClientRuns /\ Len(toServer) < MaxInFlight
      /\ unacknowledged <= MAX_RELIABLE_COMMANDS
      /\ cl' = last
      /\ toServer' = Append(toServer, ClientMessage(last))
      /\ UNCHANGED <<sv, toClient>>

\* CL_ParseCommandString for every command of m: commands seen before are
\* skipped, the others are stored.
ParseCommandStrings(c, m) ==
  LET last == m.first + Len(m.commands) - 1
      new  == {n \in m.first .. last : n > c.serverCommandSequence}
      InSlot(s) == {n \in new : Slot(n) = s}
      Latest(s) == CHOOSE n \in InSlot(s) : \A k \in InSlot(s) : k <= n
  IN  IF new = {} THEN c
      ELSE [c EXCEPT
              !.serverCommandSequence = last,
              !.serverCommands = [s \in DOMAIN @ |->
                 IF InSlot(s) = {} THEN @[s]
                 ELSE m.commands[Latest(s) - m.first + 1]]]

\* CL_Netchan_Decode, then CL_ParseServerMessage.
CL_ParseServerMessage ==
  /\ ClientRuns /\ toClient # <<>>
  /\ toClient' = Tail(toClient)
  /\ LET m == Head(toClient)
         unacknowledged == cl.reliableSequence - m.ack
         acked == [cl EXCEPT !.reliableAcknowledge =
                     IF unacknowledged > MAX_RELIABLE_COMMANDS
                     THEN cl.reliableSequence ELSE m.ack]
     IN  cl' = IF unacknowledged < 0 THEN [cl EXCEPT !.state = "ERR_DROP"]
               ELSE IF m.key # cl.reliableCommands[Slot(m.ack)]
                    THEN [acked EXCEPT !.garbled = TRUE]
                    ELSE ParseCommandStrings(acked, m)
  /\ UNCHANGED <<sv, toServer>>

\* Mutant: a command that was cycled out is not noticed.
CL_GetServerCommandUnchecked ==
  LET n == Len(cl.executed) + 1
  IN  /\ ClientRuns /\ n <= cl.serverCommandSequence
      /\ cl' = [cl EXCEPT !.executed = Append(@, cl.serverCommands[Slot(n)])]
      /\ UNCHANGED <<sv, toClient, toServer>>

\* CL_GetServerCommand, for the cgame, which asks for the commands in order.
CL_GetServerCommand ==
  LET n == Len(cl.executed) + 1
  IN  /\ ClientRuns /\ n <= cl.serverCommandSequence
      /\ cl' = IF n <= cl.serverCommandSequence - MAX_RELIABLE_COMMANDS
               THEN [cl EXCEPT !.state = "ERR_DROP"]  \* command was cycled out
               ELSE [cl EXCEPT !.executed = Append(@, cl.serverCommands[Slot(n)])]
      /\ UNCHANGED <<sv, toClient, toServer>>

-----------------------------------------------------------------------------
\* The channel may lose any message, and what reaches a client that is gone
\* is nobody's.
Without(q, i) == SubSeq(q, 1, i - 1) \o SubSeq(q, i + 1, Len(q))

LoseMessage ==
  \/ /\ \E i \in DOMAIN toClient : toClient' = Without(toClient, i)
     /\ UNCHANGED <<sv, cl, toServer>>
  \/ /\ \E i \in DOMAIN toServer : toServer' = Without(toServer, i)
     /\ UNCHANGED <<sv, cl, toClient>>

Next ==
  \/ SV_AddServerCommand
  \/ SV_DropClient
  \/ SV_DropClientPrint
  \/ SV_DropClientDisconnect
  \/ SV_SendClientSnapshot
  \/ SV_ExecuteClientMessage
  \/ CL_AddReliableCommand
  \/ CL_WritePacket
  \/ CL_Disconnect
  \/ CL_ParseServerMessage
  \/ CL_GetServerCommand
  \/ LoseMessage

Spec == Init /\ [][Next]_vars

-----------------------------------------------------------------------------
Texts == -(MaxClientCommands + 1) .. MaxServerCommands + MaxClientCommands + 4
Rings == [0 .. MAX_RELIABLE_COMMANDS - 1 -> Texts]
MessageType == [ack : Nat, first : Nat, commands : Seq(Texts), key : Texts]

\* The values the state takes.
TypeOK ==
  /\ sv \in [ state : {CS_ACTIVE, CS_ZOMBIE}, drop : DropSteps, reliableSequence : Nat,
              reliableAcknowledge : Nat, reliableCommands : Rings,
              lastClientCommand : Nat, lastClientCommandString : Texts,
              overflowed : Nat, lostCommands : BOOLEAN,
              garbled : BOOLEAN, executed : Seq(Texts) ]
  /\ cl \in [ state : ClientStates, reliableSequence : Nat,
              reliableAcknowledge : Nat, reliableCommands : Rings,
              serverCommandSequence : Nat, serverCommands : Rings,
              garbled : BOOLEAN, executed : Seq(Texts) ]
  /\ toClient \in Seq(MessageType)
  /\ toServer \in Seq(MessageType)

\* The cgame sees every command the server issued, once, in order and with its
\* own text, although commands are repeated in every message and their slots
\* are reused.  Only the command that overflowed was never stored: in its place
\* the client, about to be disconnected, gets the text its slot held before.
ServerCommandsInOrder ==
  \A i \in DOMAIN cl.executed :
    \/ cl.executed[i] = i
    \/ i = sv.overflowed /\ cl.executed[i] = i - MAX_RELIABLE_COMMANDS

\* The game executes the client's commands once, in order and with their own
\* text; only the disconnect that ends the connection may come early.
ClientCommandsInOrder ==
  \A i \in DOMAIN sv.executed :
    \/ sv.executed[i] = i
    \/ /\ i = Len(sv.executed)
       /\ cl.state = "disconnected"
       /\ sv.executed[i] = DisconnectText(cl.reliableSequence)

\* No side forgets a command before the other has it: what is acknowledged has
\* been received, and what has been received was issued.  Messages in flight
\* included, acknowledgements only move forward.
AcknowledgedIsReceived ==
  /\ sv.reliableAcknowledge <= cl.serverCommandSequence
  /\ cl.serverCommandSequence <= sv.reliableSequence
  /\ cl.reliableAcknowledge <= sv.lastClientCommand
  /\ sv.lastClientCommand <= cl.reliableSequence
  /\ \A i \in DOMAIN toServer :
       toServer[i].ack \in sv.reliableAcknowledge .. cl.serverCommandSequence
  /\ \A i \in DOMAIN toClient :
       toClient[i].ack \in cl.reliableAcknowledge .. sv.lastClientCommand

\* The next message never leaves a gap: a client is not dropped for "Lost
\* reliable commands", whatever the channel loses.
NoLostCommands == ~sv.lostCommands

\* No pending command loses its slot to a newer one: the server never has more
\* than MAX_RELIABLE_COMMANDS pending, a client that it drops included, until a
\* command overflows; nor has the client while it is connected.
PendingKeepTheirSlots ==
  /\ sv.overflowed = 0 =>
       \A n \in sv.reliableAcknowledge + 1 .. sv.reliableSequence :
         sv.reliableCommands[Slot(n)] = n
  /\ cl.state = "connected" =>
       \A n \in cl.reliableAcknowledge + 1 .. cl.reliableSequence :
         cl.reliableCommands[Slot(n)] = n

\* The state of both rings: types, what either side knows of the other, and that
\* everything pending is in its slot (SV_AddServerCommand, CL_AddReliableCommand).
RingsInv == TypeOK /\ AcknowledgedIsReceived /\ PendingKeepTheirSlots

\* Both sides scramble a message with the command it acknowledges.  A message is
\* decoded with another command than it was encoded with, and so lost, only if
\* the decoder's window was full: then the command's slot is the newest one's.
KeysAgree ==
  /\ sv.garbled =>
       sv.reliableSequence - sv.reliableAcknowledge = MAX_RELIABLE_COMMANDS
  /\ cl.garbled =>
       cl.reliableSequence - cl.reliableAcknowledge = MAX_RELIABLE_COMMANDS
=============================================================================
