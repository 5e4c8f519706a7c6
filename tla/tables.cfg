SPECIFICATION PublishedSpec
CONSTANTS
  Scenarios = {"amend", "split", "overlap", "insider", "clusters", "crawl", "house", "senate", "lines", "pages"}
  f1 = f1  f2 = f2  f3 = f3  c1 = c1  c2 = c2  c3 = c3  s1 = s1  s2 = s2
  Filers = {f1, f2, f3}
  Ciks = {c1, c2, c3}
  Securities = {s1, s2}
  LastPeriod = 3
  Claims <- TheClaims
  Policies = {"successor", "sum"}
  Accessions <- TheAccessions
  FiledOrder <- TheOrder
  Parses <- TheParses
  CikOrder <- TheCikOrder
  NoFiler = NoFiler
  Unloaded = Unloaded
  NoPrice <- TheNoPrice
  PriceOf <- ThePrice
  SplitOf <- TheSplit
  Forms = {1, 2, 3, 4, 5}
  FiledOn <- FormsFiledOn
  OriginalOn <- FormsOriginalOn
  Amendments = {3, 4, 5}
  OwnersOf <- FormsOwnersOf
  Insiders = {"x", "y", "z"}
  TradeDays = {1, 2, 3, 4, 5}
  Histories <- TheHistories
  Filed <- TheFiled
  Grid <- TheGrid
  Ingests = {"run1", "run2"}
  Detects = {"shell"}
  LastDay = 4
  Weekend = {}
  Holidays = {3}
  QuarterStart = 3
  HandRanges <- LastTwoDays
  Crawlers = {"run1", "run2"}
  CrawlMishaps = {"fails", "killed", "lock lost"}
  Reports = {"h1"}
  Assets = {"stock", "scan"}
  Known = {"stock"}
  Meanings = {"a bond"}
  Runs = {"run"}
  Admins = {"admin"}
  LastReading = 2
  HousePtrs = {"h2", "h3", "h4"}
  SenatePtrs = {"s1", "s2", "s3"}
  PlaceOf <- ThePlaces
  DateOf <- TheDates
  IndexYear <- TheIndexYears
  DaysAYear = 2
  LookbackDays = 1
  LookbackYears = 1
  SearchPage = 1
  HouseRuns = {"run"}
  SenateRuns = {"run"}
  LastDate = 4
  Lines = {1, 2, 3}
  SortValues <- TheSortValues
  Keysets <- TheKeysets
  Limits = {1, 2}
  MostChanged = 2
INVARIANTS
  PublishedTypeOK SnapshotIsEffective OneBookPerPeriod DeltasAddUp
  AmendmentsInPlace ClustersFollow NothingSteppedOver
  NoneOverlooked PersonsWordStands WalkSeesOnce
PROPERTIES
  AnnouncesWhatChanged
  ImplementsFullRebuild
CHECK_DEADLOCK FALSE
