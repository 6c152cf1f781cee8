SPECIFICATION FairSpec
CONSTANTS
  exe = exe
  dll = dll
  updater = updater
  Files <- MCFiles
  Self = updater
  Installed <- MCInstalled
  Package <- MCPackage
  Absent = Absent
  MaxHandOffs = 3
INVARIANTS
  DiskInv
PROPERTIES
  ResultIsTrue
  MixtureIsReported
  PendingEnds
