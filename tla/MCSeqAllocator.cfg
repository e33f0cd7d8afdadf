CONSTANTS
  UnicastMax = 4
  RotationTop = 3
  SrcBase = 2
  NodeMargin = 1
  Exports <- SmallAndGrown
  LegacySrcs = {}
  SeqMax = 5
  SeedMin = 2
  RotateThreshold = 3
  RotatedStart = 0
  PersistBlock = 1
  StartupJump = 1
  Clock = {0}
  Configs <- Reconfigured
  RemoteStoreFails = TRUE
  LateCallers = FALSE
SPECIFICATION Spec
INVARIANTS TypeOK CeilingOnDisk RotationSurvivesCrash NodeAddressOnlyIfStuck ExhaustedOnlyIfStuck FirstStartStays
PROPERTIES KeepsPromise RotationIsFresh
