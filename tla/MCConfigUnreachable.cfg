CONSTANTS
  dim = dim
  ring = ring
  onoff = onoff
  scene = scene
  NoControl = NoControl
  NumPositions = 2
  Controls = {dim, onoff}
  Gone = {}
  PositionOf <- MCPositionOf
  AppAddress <- MCAppAddress
  Enabled <- MCEnabled
  HA_ONLY_ADDRESS = 65279
  MAX_SILENT = 2
  MaxRounds = 3
  LateStatuses = FALSE
  Forgetful = FALSE
  MaxChanges = 2
  MaxMishaps = 2
SPECIFICATION Spec
INVARIANT StaysReachable
CHECK_DEADLOCK FALSE
