SPECIFICATION Spec
CONSTANTS
  MAX_RELIABLE_COMMANDS = 2
  MaxServerCommands = 4
  MaxClientCommands = 3
  MaxInFlight = 2
INVARIANTS
  ServerCommandsInOrder
  ClientCommandsInOrder
  NoLostCommands
  RingsInv
  KeysAgree
CHECK_DEADLOCK FALSE
