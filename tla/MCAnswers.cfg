SPECIFICATION Spec
CONSTANTS
  HistoryMin = 3
  HistoryStep = 2
  Window = 6
  MinOlder = 2
  RefreshAfter = 2
  MaxTotal = 10
  MaxFaults = 1
  Spellings <- MCSpellings
  Lower <- MCLower
  AsciiLower <- MCAsciiLower
  Reads <- MCReads
  Amounts <- MCAmounts
  LowerWord <- MCLowerWord
  LowerRow <- MCLowerRow
  Stopwords <- MCStopwords
  MaxTerms = 2
  Years <- MCYears
  NoYear = "none"
  MaxCompared = 2
  MaxPhotos = 1
  SkillDirs <- MCSkillDirs
  Texts <- MCTexts
  Site <- MCSite
  StrainHits <- MCStrainHits
  OmdbKey = TRUE
  SearchLimit = 2
  DefaultCount = 2
  MaxCount = 3
  Here = "here"
  Tables <- MCTables
  Now = 31
  Day = 2
  DailyWindow = 14
  TopLimit = 3
  RoomTopPeople = 2
  BreakdownLimit = 2
  MaxSearched = 4
  Entries <- MCEntries
  Links <- MCLinks
  Skipped = {"x"}
  Disallowed = {"y"}
  PictureLinks = {"p"}
  MaxLinks = 2
  MaxPages = 2
  Lookback = 2
  Matters <- MCMatters
  Outages <- MCOutages
  MaxGathered = 3
INVARIANTS
  TypeOK
  CommandsAsGiven
  BestFound
  NothingFallsBetween
PROPERTY
  StableHistory
CHECK_DEADLOCK FALSE
