SPECIFICATION FairSpec
CONSTANTS
  MaxRequestSize = 8
  BufSize = 8
  DelimiterLength = 2
  MaxFailures = 2
  Streams <- MCStreams
INVARIANTS
  ReceiveInv
  TypeOK
  SuccessMeansWhole
  TerminatorKept
  RefusedMeansTooLong
  NeverBlocksOnWhole
PROPERTY
  CompleteIsReceived
CHECK_DEADLOCK FALSE
