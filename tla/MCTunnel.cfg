SPECIFICATION Spec
CONSTANTS
  Spellings <- SomeSpellings
  Standbys <- TwoStandbys
  Settings <- FewSettings
  Reloads <- FewSettings
  MaxConnections = 3
  Reserved = 1
  Filesystems <- TwoFilesystems
  OtherFilesystem = 9
  Tablespaces <- OneTablespace
  Mirrors <- EqualDirectories
  Databases <- TwoDatabases
  Tables <- OneTable
  StopAge <- StopSoon
  MaxAges <- OneAge
  Reloptions <- FewOptions
  MaxTuples = 2
  MaxMoves = 0
CHECK_DEADLOCK FALSE
INVARIANT TheServersDisks
