SPECIFICATION FairSpec
CONSTANTS
  FRAGMENT_SIZE = 2
  MAX_MSGLEN = 4
  MaxMessages = 4
  Payloads <- MCPayloads
INVARIANTS
  DeliveredIntact
  DeliveredInOrder
  ChannelInv
PROPERTIES
  EverythingSent
  ImplementsChannel
