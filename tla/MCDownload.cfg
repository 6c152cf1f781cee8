SPECIFICATION FairSpec
CONSTANTS
  pakA = pakA
  pakB = pakB
  pakC = pakC
  pakD = pakD
  Files <- MCFiles
  DownloadLists <- MCLists
  Blocks <- MCBlocks
  NotDownloadable <- MCNotDownloadable
  NotPaks <- MCNotPaks
  EndOfFile = EndOfFile
  NoFile = NoFile
  MAX_DOWNLOAD_WINDOW = 3
  MAX_RELIABLE_COMMANDS = 4
  BLOCK_RANGE = 4
  MaxInFlight = 3
INVARIANTS
  WindowInv
  WritesTheFile
  NobodyGivesUp
PROPERTIES
  DownloadsComplete
CHECK_DEADLOCK FALSE
