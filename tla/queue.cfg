SPECIFICATION Spec
CONSTANTS
  a1 = a1  a2 = a2  a3 = a3
  Filings = {a1, a2}
  Concurrency = 1
  People = {"discover", "backfill", "recompute", "refresh"}
  Mishaps = {"kill", "fail", "block", "exhaust"}
INVARIANTS
  TypeOK DoneIsLoaded
PROPERTIES
  ChainRefreshes
