CONSTANTS
  Capabilities = {"brightness"}
  MaxBrightness = 2
  Ratio = 3
  Levels = {0, 6}
  MaxCommands = 2
  MaxChanges = 1
  MaxAir = 2
SPECIFICATION Spec
INVARIANTS TurnOnLights
CHECK_DEADLOCK FALSE
