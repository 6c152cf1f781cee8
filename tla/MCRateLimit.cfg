SPECIFICATION Spec
CONSTANTS
  near = near
  far = far
  zero = zero
  Addresses <- MCAddresses
  LocalAddresses = {}
  Hashes = {0, 1}
  Hash <- MCHash
  Burst = 1
  Period = 2
  MaxToxic = 2
  MAX_BUCKETS = 2
  RelinkBehind = 0
  NULL = NULL
  NoAddress = NoAddress
  Nothing = Nothing
  MaxPending = 1
INVARIANTS
  TableInv
  WithinBurst
  PenaltyCountsSlots
PROPERTIES
  ImplementsOwnRates
SYMMETRY MCSymmetry
