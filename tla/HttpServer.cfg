SPECIFICATION FairSpec
CONSTANTS
  Protocols = {"tcp", "http"}
  Sockets = {s1}
  MaxConns = 2
  MaxRequests = 2
  MaxSent = 3
  MaxChunks = 2
  MaxListens = 1
  MaxErrors = 1
  MaxSets = 1
  Parts = {"get", "post", "torn"}
CHECK_DEADLOCK FALSE
INVARIANTS ChunkOnce NeverDeaf Framing
PROPERTY FirstSettles
