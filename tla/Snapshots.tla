------------------------------ MODULE Snapshots ------------------------------
(***************************************************************************)
(* Snapshots from the server to one client (server/sv_snapshot.c), delta   *)
(* compressed against the last message the client acknowledged, and what   *)
(* the client rebuilds from them (client/cl_parse.c, client/cl_cgame.c).   *)
(*                                                                         *)
(* Three rings must agree without ever being compared: the frames of the   *)
(* client on the server, which point into the common snapshot storage, the *)
(* snapshots of the client, and the parsed entities they point into.       *)
(*                                                                         *)
(* An entity is its number and one state that stands for all its fields;   *)
(* the player state, delta compressed against the same frame, is one more  *)
(* entity.  Messages arrive as from a MessageChannel: in order, or never.  *)
(* Gamestates fit into one datagram here: Gamestate has the others.        *)
(***************************************************************************)
EXTENDS SnapshotStorage, FiniteSets

CONSTANTS
  Baselines,               \* by serverId: the entities of SV_CreateBaseline
  WorldCycle,              \* bound: the worlds of the frames, in turn
  Views,                   \* sets of entity numbers a client may see
  PACKET_BACKUP,
  MAX_SNAPSHOT_ENTITIES,
  MaxMaps,                 \* bound: map changes
  MaxMessages,             \* bound: messages of the server
  MaxPackets,              \* bound: packets of the client on their way
  Moves,                   \* bound: what packets carry once in a game
  cl_nodelta               \* the cvar, which may be set at any time

Numbers(entities) == {e.number : e \in entities}
UniqueNumbers(entities) ==
  \A e, f \in entities : e.number = f.number => e = f

ASSUME SnapshotsAssumption ==
  /\ {PACKET_BACKUP, MAX_SNAPSHOT_ENTITIES} \subseteq Nat \ {0}
  /\ EntityStates \subseteq [number : Nat, state : STRING]
  /\ NoEntity \notin EntityStates
  /\ \A world \in Worlds :
       /\ Len(world) <= MAX_SNAPSHOT_ENTITIES
       /\ UniqueNumbers({world[i] : i \in DOMAIN world})
  /\ WorldCycle \in Seq(Worlds) \ {<<>>}
  /\ Baselines \in [0 .. MaxMaps + 1 -> SUBSET EntityStates]
  /\ \A serverId \in 0 .. MaxMaps + 1 : UniqueNumbers(Baselines[serverId])
  /\ Moves \subseteq {"none", "clc_move", "clc_moveNoDelta"}
  /\ cl_nodelta \in BOOLEAN
  /\ {MaxMaps, MaxMessages, MaxPackets} \subseteq Nat

VARIABLES
  sv,         \* the server: its map and its client_t
  toClient,   \* the message on its way, if any
  toServer,   \* packets of the client on their way, oldest first
  cl,         \* the client
  sent        \* history: the entities of each message of the server

vars == <<storageVars, sv, toClient, toServer, cl, sent>>
connection == <<sv, toClient, toServer, cl, sent>>

CS_CONNECTED == "CS_CONNECTED"
CS_PRIMED == "CS_PRIMED"
CS_ACTIVE == "CS_ACTIVE"

Masked(n) == n % PACKET_BACKUP

NoSnapshot ==
  [valid |-> FALSE, messageNum |-> 0, parseEntitiesNum |-> 0, numEntities |-> 0]

ParsePositions == 0 .. PACKET_BACKUP * MAX_SNAPSHOT_ENTITIES - 1

\* CL_ClearState, then the serverId of the gamestate.
ClearState(serverId, messageNum) ==
  [ serverId              |-> serverId,
    serverMessageSequence |-> messageNum,
    snap                  |-> NoSnapshot,
    snapshots             |-> [i \in 0 .. PACKET_BACKUP - 1 |-> NoSnapshot],
    parseEntities         |-> [i \in ParsePositions |-> NoEntity],
    parseEntitiesNum      |-> 0 ]

Init ==
  /\ StorageInit
  /\ sv = [ serverId            |-> 1,
            state               |-> CS_CONNECTED,
            gamestateAcked      |-> FALSE,
            gamestateMessageNum |-> -1,
            deltaActive         |-> FALSE,
            deltaStart          |-> 0,
            messageAcknowledge  |-> 0,
            outgoingSequence    |-> 1,
            frames |-> [i \in 0 .. PACKET_BACKUP - 1 |->
                          [frameNum |-> 0, ents |-> {}]] ]
  /\ toClient = <<>>
  /\ toServer = <<>>
  /\ cl = ClearState(0, 0)
  /\ sent = <<>>

-----------------------------------------------------------------------------
(* Server *)

\* A message not read when the next one is sent is lost.
Transmit(message) == <<message>>

\* SV_Frame: the game runs and SV_IssueNewSnapshot asks for a new snapshot.
SV_Frame ==
  /\ currFrame # NoFrame
  /\ SV_IssueNewSnapshot
  /\ UNCHANGED <<sv, toClient, toServer, cl, sent>>

\* The entities linked in take turns, from frame to frame.
BuildNextWorld ==
  /\ snapshotFrame < MaxFrames
  /\ SV_BuildCommonSnapshot(WorldCycle[1 + (snapshotFrame % Len(WorldCycle))])

\* The first client of a server frame has the common snapshot built, the others
\* share it.
CommonSnapshot ==
  IF currFrame = NoFrame THEN BuildNextWorld ELSE UNCHANGED storageVars

\* Another client is the first of this frame to need the common snapshot.
OtherClient ==
  /\ currFrame = NoFrame /\ CommonSnapshot
  /\ UNCHANGED connection

\* Mutant: the number of the frame that is built next.
FrameNumberNext == snapshotFrame'

\* What a client remembers of the common snapshot, to know it when released.
FrameNumber == snapFrames'[currFrame'].frameNum

\* Mutant: the frame may have been released.
MayDeltaAnyFrame ==
  /\ sv.state = CS_ACTIVE /\ sv.deltaActive
  /\ sv.deltaStart <= sv.messageAcknowledge
  /\ sv.outgoingSequence - sv.messageAcknowledge < PACKET_BACKUP - 3

\* The message the client acknowledged can be the base of the next snapshot,
\* whose own entities are stored already.
MayDelta ==
  /\ sv.state = CS_ACTIVE /\ sv.deltaActive
  /\ sv.deltaStart <= sv.messageAcknowledge
  /\ sv.outgoingSequence - sv.messageAcknowledge < PACKET_BACKUP - 3
  /\ sv.frames[Masked(sv.messageAcknowledge)].frameNum >= lastValidFrame'

\* SV_EmitPacketEntities: entities that differ from the old ones; without an
\* old one, from the baseline, and then only what differs from the baseline.
PacketEntities(old, new) ==
  LET likeBaseline(e) == e.number \notin Numbers(old) /\ e \in Baselines[sv.serverId]
  IN  [ changed   |-> {e \in new \ old : ~likeBaseline(e)},
        baselines |-> Numbers({e \in new : likeBaseline(e)}),
        removed   |-> Numbers(old) \ Numbers(new) ]

\* Where the entities of the current frame are that a client sees.
VisibleEnts(seen) ==
  LET sf == snapFrames'[currFrame']
  IN  {p \in {Wrap(sf.start + i) : i \in 0 .. sf.count - 1} :
         snapshotEntities'[p].number \in seen}

\* SV_SendClientMessages has come to this client in this server frame.
SentThisFrame ==
  /\ currFrame # NoFrame /\ sv.outgoingSequence - 1 > sv.gamestateMessageNum
  /\ sv.frames[Masked(sv.outgoingSequence - 1)].frameNum = snapshotFrame - 1

\* SV_SendClientSnapshot: the frame is built first, from a common snapshot that
\* is new or shared with the clients before.
SV_SendClientSnapshot(seen) ==
  /\ sv.state \in {CS_PRIMED, CS_ACTIVE}
  /\ sv.outgoingSequence <= MaxMessages
  /\ ~SentThisFrame /\ CommonSnapshot
  /\ LET stored(ents) == {snapshotEntities'[p] : p \in ents}
         ents == VisibleEnts(seen)
         old == IF MayDelta
                THEN stored(sv.frames[Masked(sv.messageAcknowledge)].ents)
                ELSE {}
     IN  /\ toClient' = Transmit(
              [ sequence  |-> sv.outgoingSequence,
                type      |-> "svc_snapshot",
                serverId  |-> sv.serverId,
                lastframe |-> IF MayDelta
                              THEN sv.outgoingSequence - sv.messageAcknowledge
                              ELSE 0,
                entities  |-> PacketEntities(old, stored(ents)) ])
         /\ sv' = [sv EXCEPT
              !.frames[Masked(sv.outgoingSequence)] =
                 [frameNum |-> FrameNumber, ents |-> ents],
              !.deltaStart = IF MayDelta THEN sv.messageAcknowledge ELSE @,
              !.outgoingSequence = @ + 1]
         /\ sent' = Append(sent,
              [serverId |-> sv.serverId, entities |-> stored(ents)])
  /\ UNCHANGED <<toServer, cl>>

SV_SendClientGameState(s) ==
  /\ s.outgoingSequence <= MaxMessages
  /\ toClient' = Transmit(
       [ sequence |-> s.outgoingSequence, type |-> "svc_gamestate",
         serverId |-> s.serverId, lastframe |-> 0,
         entities |-> PacketEntities({}, {}) ])
  /\ sv' = [s EXCEPT !.state = CS_PRIMED,
                     !.gamestateAcked = FALSE,
                     !.gamestateMessageNum = s.outgoingSequence,
                     !.deltaStart = s.outgoingSequence,
                     !.outgoingSequence = @ + 1]
  /\ sent' = Append(sent, [serverId |-> s.serverId, entities |-> {NoEntity}])

\* SV_AcknowledgeGamestate, while the gamestates resent are identical.
Acknowledge(s, m) ==
  [s EXCEPT !.messageAcknowledge = m.messageAcknowledge,
            !.gamestateAcked = \/ @
                               \/ /\ s.state # CS_CONNECTED
                                  /\ m.serverId = s.serverId
                                  /\ m.messageAcknowledge >= s.gamestateMessageNum]

\* SV_UserMove; the first one enters the world without deltas.
SV_UserMove(s, m) ==
  IF m.move = "none" THEN s
  ELSE IF s.state = CS_PRIMED
  THEN [s EXCEPT !.state = CS_ACTIVE, !.deltaActive = FALSE]
  ELSE [s EXCEPT !.deltaActive = m.move = "clc_move"]

\* Packets overtaken by this one are not received.  A client without the
\* gamestate gets it (again), at most once a second.
SV_ExecuteClientMessage(k) ==
  LET m == toServer[k]
      s == Acknowledge(sv, m)
  IN  /\ toServer' = SubSeq(toServer, k + 1, Len(toServer))
      /\ IF s.gamestateAcked
         THEN sv' = SV_UserMove(s, m) /\ UNCHANGED <<toClient, sent>>
         ELSE \/ SV_SendClientGameState(s)
              \/ sv' = s /\ UNCHANGED <<toClient, sent>>
      /\ UNCHANGED <<storageVars, cl>>

SV_SpawnServer ==
  /\ sv.serverId <= MaxMaps
  /\ SV_InitSnapshotStorage
  /\ sv' = [sv EXCEPT !.serverId = @ + 1, !.state = CS_CONNECTED,
                      !.gamestateAcked = FALSE]
  /\ UNCHANGED <<toClient, toServer, cl, sent>>

\* A restart of the map: no delta from messages before it, and a client in the
\* world enters it again.  The new serverId matters to Gamestate only.  Bound:
\* only while the client takes deltas.
SV_MapRestart_f ==
  /\ sv.deltaActive
  /\ sv' = [sv EXCEPT !.deltaStart = sv.outgoingSequence,
                      !.deltaActive = @ /\ sv.state # CS_ACTIVE]
  /\ UNCHANGED <<storageVars, toClient, toServer, cl, sent>>

-----------------------------------------------------------------------------
(* Client *)

ParsePosition(n) == n % (PACKET_BACKUP * MAX_SNAPSHOT_ENTITIES)

\* The entities a snapshot of the client points to.
Parsed(snapshot) ==
  {cl.parseEntities[ParsePosition(snapshot.parseEntitiesNum + i)] :
     i \in 0 .. snapshot.numEntities - 1}

\* CL_ParsePacketEntities: the entities a delta makes of the old ones.
ParsePacketEntities(old, m) ==
  {e \in old : e.number \notin Numbers(m.changed) \cup m.baselines \cup m.removed}
    \cup m.changed
    \cup {e \in Baselines[cl.serverId] : e.number \in m.baselines}

\* The snapshot a delta needs is there, and its entities still are.
UsableBase(deltaNum) ==
  LET old == cl.snapshots[Masked(deltaNum)]
  IN  /\ old.valid /\ old.messageNum = deltaNum
      /\ cl.parseEntitiesNum - old.parseEntitiesNum
           <= (PACKET_BACKUP - 1) * MAX_SNAPSHOT_ENTITIES

\* Slots of the messages between the last snapshot and this one.
Skipped(messageNum) ==
  LET next  == cl.snap.messageNum + 1
      first == IF messageNum - next >= PACKET_BACKUP
               THEN messageNum - (PACKET_BACKUP - 1) ELSE next
  IN  {Masked(n) : n \in first .. messageNum - 1}

\* The entities of a snapshot are read in the order of their numbers.
Place(e, entities) == Cardinality({f \in entities : f.number < e.number})

\* CL_ParseSnapshot: an entity removed last is left in the slot after the
\* others, which the next entity takes.
CL_ParseSnapshot(m) ==
  LET deltaNum == m.sequence - m.lastframe
      whole    == m.lastframe = 0 \/ deltaNum <= 0
      valid    == whole \/ UsableBase(deltaNum)
      old      == IF whole THEN {} ELSE Parsed(cl.snapshots[Masked(deltaNum)])
      parsed   == ParsePacketEntities(old, m.entities)
      at(p)    == {e \in parsed :
                     ParsePosition(cl.parseEntitiesNum + Place(e, parsed)) = p}
      new      == [ valid            |-> TRUE,
                    messageNum       |-> m.sequence,
                    parseEntitiesNum |-> cl.parseEntitiesNum,
                    numEntities      |-> Cardinality(parsed) ]
      read     == [cl EXCEPT
                     !.serverMessageSequence = m.sequence,
                     !.parseEntitiesNum = @ + Cardinality(parsed),
                     !.parseEntities = [p \in ParsePositions |->
                        IF at(p) = {} THEN @[p] ELSE CHOOSE e \in at(p) : TRUE]]
  IN  IF ~valid THEN read
      ELSE [read EXCEPT
              !.snap = new,
              !.snapshots = [i \in DOMAIN @ |->
                 IF i = Masked(m.sequence) THEN new
                 ELSE IF i \in Skipped(m.sequence)
                 THEN [@[i] EXCEPT !.valid = FALSE]
                 ELSE @[i]]]

CL_ParseServerMessage ==
  LET m == toClient[1]
  IN  /\ toClient # <<>>
      /\ cl' = IF m.type = "svc_gamestate"
               THEN ClearState(m.serverId, m.sequence)
               ELSE CL_ParseSnapshot(m)
      /\ toClient' = <<>>
      /\ UNCHANGED <<storageVars, sv, toServer, sent>>

\* Mutant: deltas are asked for whatever the last message was.
DeltaAllowedAlways == TRUE

\* The last message was a snapshot, and it could be read.
DeltaAllowed == cl.snap.valid /\ cl.serverMessageSequence = cl.snap.messageNum

\* CL_WritePacket.  Without a new command there is no move.
CL_WritePacket(move) ==
  /\ Len(toServer) < MaxPackets
  /\ CASE move = "clc_move"        -> DeltaAllowed
       [] move = "clc_moveNoDelta" -> cl_nodelta \/ ~DeltaAllowed
       [] move = "none"            -> TRUE
  /\ toServer' = Append(toServer,
       [ serverId           |-> cl.serverId,
         messageAcknowledge |-> cl.serverMessageSequence,
         move               |-> move ])
  /\ UNCHANGED <<storageVars, sv, toClient, cl, sent>>

Next ==
  \/ SV_Frame
  \/ OtherClient
  \/ \E seen \in Views : SV_SendClientSnapshot(seen)
  \/ \E k \in DOMAIN toServer : SV_ExecuteClientMessage(k)
  \/ SV_SpawnServer
  \/ SV_MapRestart_f
  \/ CL_ParseServerMessage
  \/ \E move \in IF cl.serverId = 0 THEN {"none"} ELSE Moves : CL_WritePacket(move)

Spec == Init /\ [][Next]_vars

-----------------------------------------------------------------------------
SnapshotType == [ valid : BOOLEAN, messageNum : Nat, parseEntitiesNum : Nat,
                  numEntities : 0 .. MAX_SNAPSHOT_ENTITIES ]

\* The values the state takes.
TypeOK ==
  /\ StorageTypeOK
  /\ sv.state \in {CS_CONNECTED, CS_PRIMED, CS_ACTIVE}
  /\ sv.deltaStart \in 0 .. sv.outgoingSequence
  /\ sv.messageAcknowledge \in 0 .. sv.outgoingSequence - 1
  /\ \A i \in DOMAIN sv.frames : sv.frames[i].ents \subseteq Positions
  /\ cl.parseEntities \in [ParsePositions -> EntityStates \cup {NoEntity}]
  /\ cl.snap \in SnapshotType
  /\ cl.snapshots \in [0 .. PACKET_BACKUP - 1 -> SnapshotType]
  /\ Len(sent) = sv.outgoingSequence - 1

\* CL_GetSnapshot has this snapshot.
GetsSnapshot(n) ==
  LET snapshot == cl.snapshots[Masked(n)]
  IN  /\ cl.snap.messageNum - n < PACKET_BACKUP
      /\ snapshot.valid
      /\ cl.parseEntitiesNum - snapshot.parseEntitiesNum
           < PACKET_BACKUP * MAX_SNAPSHOT_ENTITIES

\* CL_GetSnapshot: every snapshot the cgame can still ask for holds exactly
\* the entities the server put into that message, whatever it was compressed
\* against and whatever was lost.  Excepted are snapshots of a map whose
\* gamestate the client does not have: it reads them with other baselines.
SnapshotsAgree ==
  \A n \in 1 .. cl.snap.messageNum :
    GetsSnapshot(n) /\ sent[n].serverId = cl.serverId
      => Parsed(cl.snapshots[Masked(n)]) = sent[n].entities

\* Types, and that what the client rebuilt is what SV_EmitPacketEntities wrote.
SnapshotsInv == TypeOK /\ SnapshotsAgree

\* cl_parse.c "Delta from invalid frame (not supposed to happen!)": no snapshot
\* that arrives is thrown away, because the server never compresses against a
\* message the client did not keep.
EverySnapshotUsable ==
  [][cl'.serverMessageSequence # cl.serverMessageSequence /\ cl'.serverId = cl.serverId
     /\ sent'[cl'.serverMessageSequence].entities # {NoEntity}
       => cl'.snap.messageNum = cl'.serverMessageSequence]_vars

\* What a client's frames point to is overwritten on behalf of others.  As long
\* as SV_WriteSnapshotToClient finds frameNum >= lastValidFrame, the storage
\* still holds exactly what was sent in that message, though the storage wraps,
\* frames are shared or skipped, and a map change restarts their numbers.
FramesStillHold ==
  sv.state # CS_CONNECTED =>
    \A n \in sv.gamestateMessageNum + 1 .. Len(sent) :
      LET frame == sv.frames[Masked(n)]
      IN  Len(sent) - n < PACKET_BACKUP /\ frame.frameNum >= lastValidFrame
            => {snapshotEntities[p] : p \in frame.ents} = sent[n].entities
=============================================================================
