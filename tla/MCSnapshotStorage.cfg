SPECIFICATION StorageSpec
CONSTANTS
  a = a
  b = b
  NoEntity = NoEntity
  NoFrame = NoFrame
  EntityStates <- MCEntityStates
  Worlds <- MCWorlds
  NUM_SNAPSHOT_FRAMES = 4
  numSnapshotEntities = 5
  MaxFrames = 7
INVARIANTS
  LiveFramesIntact
  AlwaysRoom
  StorageInv
CHECK_DEADLOCK FALSE
