SPECIFICATION Spec
CONSTANTS
  i1 = i1  i2 = i2  d1 = d1  d2 = d2  r1 = r1  r2 = r2
  Instant = {}
  Season = {d1}
  Senders = {r1}
  SlotsPerDay = 2
  DigestAt = 1
  BatchWindow = 0
  EmailsPerDay = 2
  KeepFor = 4
  FreshFor = 3
  Windows = {2, 3, 4, 5, 6}
  Zones = {0}
  Hours <- NoQuiet
  Edits = {}
  Amended = {d1}
  Settings <- NoSettings
  Mishaps = {}
  Prompt = FALSE
  LastTick = 11
INVARIANTS
  AtMostOnce
CHECK_DEADLOCK FALSE
