SPECIFICATION FairSpec
CONSTANTS
  a1 = a1  a2 = a2  a3 = a3
  Filings = {a1, a2}
  Concurrency = 2
  People = {"ingest"}
  Mishaps = {"kill", "fail", "block", "exhaust"}
PROPERTIES
  Settles BlockedRunStartsNothing OnlyDiscoveryReopens
