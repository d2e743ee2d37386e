CONSTANTS
  c1 = c1
  c2 = c2
  Sessions = {c1, c2}
  Digits <- MCDigits
  Quick <- MCQuick
  Apps <- MCApps
  BufSize = 4
  MaxReloads = 1
SPECIFICATION FairSpec
INVARIANTS TypeOK TablesLive ControlsHeard
PROPERTIES LookupsEnd
CHECK_DEADLOCK FALSE
