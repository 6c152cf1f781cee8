SPECIFICATION FairMatchSpec
CONSTANTS
  axis = axis
  allies = allies
  TimeLimit = 2
  TimeoutCount = 1
  TimeoutLength = 4
  FirstThink = 2
  UnpauseLength = 2
  TellEvery = 2
  CountdownLength = 1
  StopDelay = 1
  ExitDelay = 2
  MaxOvertime = 1
  MaxTimeouts = 1
  MaxBuffer = 1
  MaxByHand = 1
INVARIANTS
  ClockCountsPlay
  TimeoutsInv
  RecordsTheRound
PROPERTIES
  TimeoutLasts
  StartsOnlyReady
  NothingHangs
