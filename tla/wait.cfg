SPECIFICATION Spec
CONSTANTS
  i1 = i1  i2 = i2  d1 = d1  d2 = d2  r1 = r1  r2 = r2
  Instant = {i1}
  Season = {d1, d2}
  Senders = {r1}
  SlotsPerDay = 4
  DigestAt = 2
  BatchWindow = 1
  EmailsPerDay = 2
  KeepFor = 99
  FreshFor = 1
  Windows = {2, 3, 4, 5}
  Zones = {0}
  Hours <- Quiets
  Edits = {}
  Amended = {}
  Settings <- NoSettings
  Mishaps = {}
  Prompt = TRUE
  LastTick = 17
INVARIANTS
  NoLongWait
CHECK_DEADLOCK FALSE
