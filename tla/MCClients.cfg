SPECIFICATION FairSpec
CONSTANTS
  a = a
  b = b
  home = home
  Players <- MCPlayers
  Ip <- MCIp
  Qport <- MCQport
  Ports <- MCPorts
  InitialPort <- MCInitialPort
  NoAddress = NoAddress
  MaxClients = 2
  PrivateClients = 0
  Invited = {}
  MaxClientsPerIP = 2
  ReconnectLimit = 1
  ZombieTime = 0
  SilentTime = 0
  Timeout = 1
  TimeoutFrames = 0
  MaxConnections = 3
  MaxPackets = 2
  MaxUpsets = 1
INVARIANTS
  GameAgrees
  SlotsInv
PROPERTIES
  NobodyIsPushedOut
  SlotsComeFree
