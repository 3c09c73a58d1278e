SPECIFICATION FairSpec
CONSTANTS
  FileSystems <- MCFileSystems
  Invocations <- MCInvocations
  Specifiers <- MCSpecifiers
  Urls <- MCUrls
  MaxImports = 2
  MaxDynamic = 1
  MaxModules = 3
CHECK_DEADLOCK FALSE
INVARIANTS KeyDenotes  ExitHonest
PROPERTY LoadSettles
