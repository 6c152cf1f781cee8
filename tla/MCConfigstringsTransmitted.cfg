SPECIFICATION Spec
CONSTANTS
  i1 = i1
  CS_SYSTEMINFO = CS_SYSTEMINFO
  Indices <- MCIndices
  MAX_RELIABLE_COMMANDS = 3
  MaxChanges = 2
  MaxMaps = 1
  MaxMessages = 4
  MaxDownloads = 0
INVARIANT ConfigstringsTransmitted
CHECK_DEADLOCK FALSE
