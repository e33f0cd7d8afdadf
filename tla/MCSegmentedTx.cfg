CONSTANTS
  Nodes = {a}
  Others = {o}
  MaxSegments = 2
  SeqZeroSpan = 3
  SAR_RETRANSMISSIONS = 2
  ACK_COPIES = 2
  MaxTaken = 3
  MaxRotations = 1
SPECIFICATION FairSpec
INVARIANTS TypeOK AckIsForThisMessage FalseIsTrue
PROPERTIES SeqsInOrder EverySendEnds
CHECK_DEADLOCK FALSE
