SPECIFICATION Spec
CONSTANTS
  None = None
  WindowSeconds = 3
  MaxControlCycle = 1
  Full = 2
  Gain = 1
  IntegralTime = 1
  ZoneSettings <- MCZone
  Seen <- MCSeen
  Delay = {1, 3}
  CycleSeconds = 1
  Comfort = 4
  Frost = 0
  Lookahead = 2
  Stages = {"normal", "ersatzquelle", "notbetrieb"}
  CommandsFail = FALSE
INVARIANTS
  RelayHeldMinimum
  SafeStartWaits
  ProtectionRunEnds
  FrostIsHeated
