CONSTANTS
  HA_ONLY_ADDRESS = 99
  Others <- MCOthers
  PROXY_FILTER_MAX_ADDRESSES = 2
  Capacities = {3, 9}
  NarrowWindows = FALSE
  MaxRotations = 1
  MaxChanges = 2
SPECIFICATION Spec
INVARIANTS TypeOK NeverBlocks ModeIsTheProxys InterestingIsForwarded
