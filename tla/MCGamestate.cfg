SPECIFICATION Spec
CONSTANTS
  i1 = i1
  CS_SYSTEMINFO = CS_SYSTEMINFO
  Indices <- MCIndices
  MAX_RELIABLE_COMMANDS = 3
  MaxChanges = 1
  MaxMaps = 2
  MaxMessages = 4
  MaxDownloads = 1
INVARIANTS
  WorldInv
  ConfigstringsAgree
CHECK_DEADLOCK FALSE
