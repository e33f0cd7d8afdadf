CONSTANTS
  MaxCandidates = 2
SPECIFICATION FairSpec
INVARIANTS TypeOK OneLink FlagIsTemporary
PROPERTIES LinkComesBack AvailabilitySettles
CHECK_DEADLOCK FALSE
