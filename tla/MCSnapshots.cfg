SPECIFICATION Spec
CONSTANTS
  NoEntity = NoEntity
  NoFrame = NoFrame
  EntityStates <- MCEntityStates
  Worlds <- MCWorlds
  Baselines <- MCBaselines
  WorldCycle <- MCWorldCycle
  Views <- MCViews
  NUM_SNAPSHOT_FRAMES = 4
  numSnapshotEntities = 5
  MaxFrames = 5
  PACKET_BACKUP = 5
  MAX_SNAPSHOT_ENTITIES = 2
  MaxMaps = 1
  MaxMessages = 5
  cl_nodelta = TRUE
  Moves <- MCAllMoves
  MaxPackets = 1
INVARIANTS
  SnapshotsInv
  FramesStillHold
PROPERTIES
  EverySnapshotUsable
CHECK_DEADLOCK FALSE
