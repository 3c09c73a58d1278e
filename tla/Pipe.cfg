SPECIFICATION FairSpec
CONSTANTS
  Files = {"present", "missing"}
  Length = 2
  MaxChains = 2
  MaxReads = 3
  MaxWrites = 3
  FileSinks = {"fs"}
  SocketSinks = {"net"}
  Protocols = {"tcp", "udp"}
  Units = 2
  WriteMax = 2
  MaxFaults = 1
  MaxCalls = 2
  MaxTrouble = 3
CHECK_DEADLOCK FALSE
INVARIANTS ReadOnce  PipeInOrder Delivered
PROPERTY PipeCompletes
