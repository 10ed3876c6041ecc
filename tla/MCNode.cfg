SPECIFICATION Spec
CONSTANTS
  Spellings <- SomeSpellings
  Standbys <- TwoStandbys
  Settings <- AllSettings
  Reloads <- FewSettings
  MaxConnections = 3
  Reserved = 1
  Filesystems <- TwoFilesystems
  OtherFilesystem = 9
  Tablespaces <- OneTablespace
  Mirrors <- OwnDirectories
  Databases <- TwoDatabases
  Tables <- OneTable
  StopAge <- StopSoon
  MaxAges <- OneAge
  Reloptions <- FewOptions
  MaxTuples = 2
  MaxMoves = 2
CHECK_DEADLOCK FALSE
INVARIANTS
  TypeOK
  ReadsTheSetting
  TablespaceHidesNothing
  StopIsSeen
PROPERTIES
  Answers
