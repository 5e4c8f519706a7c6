SPECIFICATION Spec
CONSTANTS
  Parts = {"billing"}
  Subscriptions = {"sub1"}
  GracePeriod = 2
  RemindBefore = 1
  DeletionGrace = 3
  RetryFor = 2
  PaddleDoes = {"pause", "update", "cancel", "recover"}
  OperatorDoes = {"delete", "restore"}
  LastMoment = 5
  Cookies = {"cookie1", "cookie2"}
  LastPassword = 2
  Grants = {"free", "pro"}
  Requests = {"r1", "r2"}
  Forgetters = {"webhook"}
  GrantEvery = 1
  RequestTime = 1
  LastSecond = 2
  Quota = 2
  Calls = {"call1", "call2"}
  Flushers = {"api1", "api2"}
  MeterMishaps = {"redis loses", "postgres fails", "dies", "lock expires"}
  MostLosses = 1
  Messages = {"reset", "alert"}
  Alerts = {"alert"}
  Dashboard <- WholeDashboard
  MailMishaps = {"unlogged", "dies"}
  Savers = {"r1", "r2"}
  Asks <- RaceAsks
  Rules = {"digest", "filed", "change"}
  Digest = "digest"
  Presets <- RacePresets
  RuleLimit <- RaceRuleLimit
  FilterLimit <- RaceFilterLimit
  InstantPlans = {"pro"}
  Workers = {"worker"}
  Shells = {"shell"}
  Deliveries = {"m1", "m2"}
  MaxRetries = 1
  JobMishaps = {"kill", "drop", "unrecorded"}
  Readers = {"q1"}
  PageFor = 1
  CountFor = 1
  BuildTime = 1
  CacheMishaps = {"unreachable"}
  LastVersion = 1
  LastTick = 4
INVARIANTS
  PaidIsNotDunned
CHECK_DEADLOCK FALSE
