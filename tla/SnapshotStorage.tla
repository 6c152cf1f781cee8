--------------------------- MODULE SnapshotStorage ---------------------------
(***************************************************************************)
(* The common snapshot storage of server/sv_snapshot.c.  Once per server   *)
(* frame, for the first client that needs it, the entities in the world    *)
(* are copied into a ring of entity states that all clients share; the     *)
(* snapshots of the clients only point into it.  A ring of frames tells    *)
(* which stretch of the storage each copy takes, and the oldest copies are *)
(* released when the storage or the ring of frames runs out.               *)
(*                                                                         *)
(* Nobody tells a client that its entities were overwritten: it compares   *)
(* its frame number with lastValidFrame, so every frame from there on must *)
(* still be intact.                                                        *)
(***************************************************************************)
EXTENDS Integers, Sequences

CONSTANTS
  NUM_SNAPSHOT_FRAMES,   \* slots of svs.snapFrames
  numSnapshotEntities,   \* entity states in svs.snapshotEntities
  EntityStates,          \* what an entityState_t may hold
  Worlds,                \* lists of entities that may be linked in a frame
  NoEntity,              \* storage nothing was written to
  NoFrame,               \* svs.currFrame = NULL
  MaxFrames              \* bound: common snapshots built on one map

ASSUME StorageAssumption ==
  /\ NUM_SNAPSHOT_FRAMES \in Nat \ {0}
  /\ numSnapshotEntities \in Nat \ {0}
  /\ Worlds \subseteq Seq(EntityStates)
  /\ \A world \in Worlds : Len(world) <= numSnapshotEntities
  /\ NoFrame \notin Nat
  /\ MaxFrames \in Nat

VARIABLES
  snapshotEntities, snapFrames, freeStorageEntities, currentStoragePosition,
  snapshotFrame, lastValidFrame, currentSnapshotFrame,
  currFrame,      \* slot of the frame built in this server frame, or NoFrame
  built           \* history: what each frame copied, and how much before it

storageVars ==
  <<snapshotEntities, snapFrames, freeStorageEntities, currentStoragePosition,
    snapshotFrame, lastValidFrame, currentSnapshotFrame, currFrame, built>>

Positions == 0 .. numSnapshotEntities - 1
Slots == 0 .. NUM_SNAPSHOT_FRAMES - 1

Slot(frameNum) == frameNum % NUM_SNAPSHOT_FRAMES

\* Mutant: positions run off the end of the storage.
WrapNever(position) == position

Wrap(position) == position % numSnapshotEntities

StorageInit ==
  /\ snapshotEntities = [p \in Positions |-> NoEntity]
  /\ snapFrames = [i \in Slots |-> [frameNum |-> 0, start |-> 0, count |-> 0]]
  /\ freeStorageEntities = numSnapshotEntities
  /\ currentStoragePosition = 0
  /\ snapshotFrame = 0
  /\ lastValidFrame = 0
  /\ currentSnapshotFrame = 0
  /\ currFrame = NoFrame
  /\ built = <<>>

\* A new map gets new storage from the hunk.
SV_InitSnapshotStorage ==
  /\ snapshotEntities' = [p \in Positions |-> NoEntity]
  /\ snapFrames' = [i \in Slots |-> [frameNum |-> 0, start |-> 0, count |-> 0]]
  /\ freeStorageEntities' = numSnapshotEntities
  /\ currentStoragePosition' = 0
  /\ snapshotFrame' = 0
  /\ lastValidFrame' = 0
  /\ currentSnapshotFrame' = 0
  /\ currFrame' = NoFrame
  /\ built' = <<>>

SV_IssueNewSnapshot ==
  /\ currFrame' = NoFrame
  /\ currentSnapshotFrame' = snapshotFrame
  /\ UNCHANGED <<snapshotEntities, snapFrames, freeStorageEntities,
                 currentStoragePosition, snapshotFrame, lastValidFrame, built>>

\* The slot about to be reused holds the oldest valid frame.
RingIsFull == snapshotFrame - lastValidFrame > NUM_SNAPSHOT_FRAMES - 1

\* Mutant: the slot is reused without releasing the frame it held.
OldestFrameKept == lastValidFrame

\* The oldest frame that may stay valid beside the new one.
OldestFrame ==
  IF RingIsFull THEN snapshotFrame - (NUM_SNAPSHOT_FRAMES - 1)
  ELSE lastValidFrame

\* freeStorageEntities when the frames before k are released.
Released ==
  LET freed[k \in lastValidFrame .. snapshotFrame] ==
        IF k = lastValidFrame THEN freeStorageEntities
        ELSE freed[k - 1] + snapFrames[Slot(k - 1)].count
  IN  freed

\* Mutant: one release is taken to be enough.
MakeRoomOnce(count, valid) ==
  valid \in {OldestFrame, OldestFrame + 1} /\ valid <= snapshotFrame

\* Frames are released, the oldest first, until count entities fit.
MakeRoom(count, valid) ==
  /\ valid \in OldestFrame .. snapshotFrame
  /\ valid = snapshotFrame \/ Released[valid] >= count
  /\ \A k \in OldestFrame .. valid - 1 : Released[k] < count

\* Entities copied on this map so far.
Total ==
  IF built = <<>> THEN 0
  ELSE LET last == built[Len(built)] IN last.first + Len(last.entities)

\* SV_BuildCommonSnapshot, for the entities linked in.
SV_BuildCommonSnapshot(world) ==
  \E valid \in lastValidFrame .. snapshotFrame :
    LET count == Len(world)
        start == currentStoragePosition
        slot  == Slot(snapshotFrame)
        freed == {Slot(k) : k \in lastValidFrame .. valid - 1}
        index == [i \in 1 .. count |-> Wrap(start + i - 1)]
    IN  /\ MakeRoom(count, valid) /\ Released[valid] >= count
        /\ lastValidFrame' = valid
        /\ freeStorageEntities' = Released[valid] - count
        /\ snapFrames' = [i \in Slots |->
             IF i = slot
             THEN [frameNum |-> snapshotFrame, start |-> start, count |-> count]
             ELSE IF i \in freed THEN [snapFrames[i] EXCEPT !.count = 0]
             ELSE snapFrames[i]]
        /\ currentStoragePosition' = Wrap(start + count)
        /\ snapshotFrame' = snapshotFrame + 1
        /\ currFrame' = slot
        /\ snapshotEntities' = [p \in Positions |->
             IF \E i \in DOMAIN index : index[i] = p
             THEN world[CHOOSE i \in DOMAIN index : index[i] = p]
             ELSE snapshotEntities[p]]
        /\ built' = Append(built, [entities |-> world, first |-> Total])
        /\ UNCHANGED currentSnapshotFrame

StorageNext ==
  \/ SV_InitSnapshotStorage
  \/ SV_IssueNewSnapshot
  \/ /\ currFrame = NoFrame /\ snapshotFrame < MaxFrames
     /\ \E world \in Worlds : SV_BuildCommonSnapshot(world)

StorageSpec == StorageInit /\ [][StorageNext]_storageVars

-----------------------------------------------------------------------------
LiveFrames == lastValidFrame .. snapshotFrame - 1

\* The position the entities of a frame would have in an endless storage.
FirstOf(f) == IF f = Len(built) THEN Total ELSE built[f + 1].first

\* The values the state takes.
StorageTypeOK ==
  /\ snapshotEntities \in [Positions -> EntityStates \cup {NoEntity}]
  /\ snapFrames \in [Slots -> [frameNum : Nat, start : Positions, count : Nat]]
  /\ freeStorageEntities \in 0 .. numSnapshotEntities
  /\ currentStoragePosition \in Positions
  /\ {snapshotFrame, lastValidFrame, currentSnapshotFrame} \subseteq Nat
  /\ currFrame \in Slots \cup {NoFrame}
  /\ built \in Seq([entities : Worlds, first : Nat])

\* What snapshots of clients may point to is still what was copied there:
\* neither the ring of frames nor the ring of entities overwrites a frame
\* from lastValidFrame on.
LiveFramesIntact ==
  \A f \in LiveFrames :
    LET sf == snapFrames[Slot(f)]
    IN  /\ sf.frameNum = f
        /\ sf.count = Len(built[f + 1].entities)
        /\ \A i \in 1 .. sf.count :
             snapshotEntities[Wrap(sf.start + i - 1)] = built[f + 1].entities[i]

\* "should never happen but anyway": releasing frames always makes room.
AlwaysRoom ==
  \A world \in Worlds :
    \E valid \in lastValidFrame .. snapshotFrame :
      MakeRoom(Len(world), valid) /\ Released[valid] >= Len(world)

\* Entities are laid end to end ...
LaidEndToEnd ==
  /\ currentStoragePosition = Wrap(Total)
  /\ \A f \in 0 .. snapshotFrame - 1 :
       FirstOf(f + 1) = FirstOf(f) + Len(built[f + 1].entities)
  /\ \A f, g \in 0 .. snapshotFrame : f <= g => FirstOf(f) <= FirstOf(g)

\* ... what is not free is what the live frames take ...
Accounted ==
  /\ snapshotFrame = Len(built)
  /\ lastValidFrame <= snapshotFrame
  /\ snapshotFrame - lastValidFrame <= NUM_SNAPSHOT_FRAMES
  /\ freeStorageEntities =
       numSnapshotEntities - (Total - FirstOf(lastValidFrame))

\* ... the slot of a live frame tells where it lies ...
FramesFound ==
  \A f \in LiveFrames :
    snapFrames[Slot(f)] = [ frameNum |-> f,
                            start    |-> Wrap(FirstOf(f)),
                            count    |-> Len(built[f + 1].entities) ]

\* ... and there it still is.
EntitiesKept ==
  \A f \in LiveFrames : \A i \in 1 .. Len(built[f + 1].entities) :
    snapshotEntities[Wrap(FirstOf(f) + i - 1)] = built[f + 1].entities[i]

\* The frame clients share is the last one.
LastShared ==
  currFrame # NoFrame =>
    snapshotFrame > lastValidFrame /\ currFrame = Slot(snapshotFrame - 1)

StorageLayout ==
  LaidEndToEnd /\ Accounted /\ FramesFound /\ EntitiesKept /\ LastShared

\* What LiveFramesIntact and AlwaysRoom follow from, types included: the frames
\* SV_BuildCommonSnapshot releases and the entities it counts as free are those
\* that are there.
StorageInv == StorageTypeOK /\ StorageLayout
=============================================================================
