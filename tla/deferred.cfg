SPECIFICATION Spec
CONSTANTS
  a1 = a1  a2 = a2  a3 = a3
  Filings = {a1}
  Concurrency = 1
  People = {"ingest"}
  Mishaps = {}
INVARIANTS
  NothingToAdd
