CONSTANTS
  brief = brief
  lasting = lasting
  Nodes = {brief, lasting}
  Groups = {g}
  MaxSegments = 2
  SeqZeroSpan = 2
  TIMEOUT = 1
  Life <- LifeOf
  MaxAuth = 2
  MaxSent = 2
  MaxTime = 2
  MaxRotations = 1
SPECIFICATION Spec
INVARIANTS AckedWhenDelivered
PROPERTIES DeliversOnce
CHECK_DEADLOCK FALSE
