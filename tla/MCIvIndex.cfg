CONSTANTS
  MaxJump = 2
  ConfigIvs = {1, 7}
  ForeignIvs = {0, 6}
  NetMax = 5
SPECIFICATION FairSpec
INVARIANTS TypeOK ConfirmedNeverAhead InStep DecryptsNodes
PROPERTIES TxNeverBack DiskNeverBack CatchesUp
