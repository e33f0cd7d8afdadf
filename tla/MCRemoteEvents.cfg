CONSTANTS
  NumLights = 2
  Groups = {g}
  Member <- MemberOf
  EveryLight = every
  Sources = {centre, ring}
  HaOnly = haonly
  DEDUP_WINDOW = 2
  SPREAD = 1
  TidSpan = 1
  MaxPresses = 2
  MaxTime = 3
SPECIFICATION FairSpec
INVARIANTS OneEventPerPress PressIsQueued ShutdownIsFinal
PROPERTIES LightsArePolled
CHECK_DEADLOCK FALSE
