CONSTANTS
  dim = dim
  ring = ring
  onoff = onoff
  scene = scene
  NoControl = NoControl
  NumPositions = 2
  Controls = {dim, onoff}
  Gone = {scene}
  PositionOf <- MCPositionOf
  AppAddress <- MCAppAddress
  Enabled <- MCEnabled
  HA_ONLY_ADDRESS = 65279
  MAX_SILENT = 2
  MaxRounds = 2
  LateStatuses = FALSE
  Forgetful = FALSE
  MaxChanges = 2
  MaxMishaps = 2
SPECIFICATION FairSpec
INVARIANTS TypeOK ConfirmedIsApplied ReturnedIsSaved
PROPERTIES EventuallyApplied
CHECK_DEADLOCK FALSE
