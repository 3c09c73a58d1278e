SPECIFICATION FairSpec
CONSTANTS
  Kinds = {"tcp", "udp"}
  MaxChains = 2
  MaxChunks = 2
  MaxErrors = 1
  MaxConnects = 1
  MaxEmits = 3
CHECK_DEADLOCK FALSE
INVARIANTS ChainAccounting LosesNothing InOrder StreamResumeReads
PROPERTIES CloseSettles
