SPECIFICATION Spec
CONSTANTS
  i1 = i1  i2 = i2  d1 = d1  d2 = d2  r1 = r1  r2 = r2
  Instant = {}
  Season = {d1, d2}
  Senders = {r1, r2}
  SlotsPerDay = 3
  DigestAt = 1
  BatchWindow = 1
  EmailsPerDay = 1
  KeepFor = 99
  FreshFor = 1
  Windows = {2, 3, 4, 5}
  Zones = {0, 1}
  Hours <- NoQuiet
  Edits = {"move", "account"}
  Amended = {}
  Settings <- OffOrBell
  Mishaps = {"refuse"}
  Prompt = FALSE
  LastTick = 7
INVARIANTS
  OneDigestAnEvening
CHECK_DEADLOCK FALSE
SYMMETRY Swap
