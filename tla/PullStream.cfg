SPECIFICATION FairSpec
CONSTANTS
  Pivot = 2
  NUL = "nul"
  Text <- MCText
  Factors = {1, 2}
  Lengths = {0, 1, 3}
  Offsets <- MCOffsets
  BlockSize = 2
  MaxCalls = 5
CHECK_DEADLOCK FALSE
INVARIANTS ReadsFollowCursor ResumeWhole ReadProtected SameSizeConverted
PROPERTY CallsReturn
