CONSTANTS
  Capabilities = {"color_temp", "hs", "brightness", "onoff"}
  MaxBrightness = 2
  Ratio = 3
  Levels = {0, 1, 6}
  MaxCommands = 2
  MaxChanges = 1
  MaxAir = 2
SPECIFICATION FairSpec
PROPERTIES SettlesOnLamp
CHECK_DEADLOCK FALSE
