SPECIFICATION Spec
CONSTANTS
  i1 = i1  i2 = i2  d1 = d1  d2 = d2  r1 = r1  r2 = r2
  Instant = {i1}
  Season = {d1}
  Senders = {r1, r2}
  SlotsPerDay = 1
  DigestAt = 0
  BatchWindow = 0
  EmailsPerDay = 1
  KeepFor = 2
  FreshFor = 1
  Windows = {2, 4, 6}
  Zones = {0}
  Hours <- NoQuiet
  Edits = {"rule"}
  Amended = {i1}
  Settings <- NoSettings
  Mishaps = {"kill"}
  Prompt = FALSE
  LastTick = 5
INVARIANTS
  TypeOK CapHolds AtMostOnce
CHECK_DEADLOCK FALSE
SYMMETRY Swap
