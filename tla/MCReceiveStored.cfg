SPECIFICATION Spec
CONSTANTS
  MaxRequestSize = 8
  BufSize = 8
  DelimiterLength = 2
  MaxFailures = 0
  Streams <- MCStreams
INVARIANT
  StoredInsideDest
CHECK_DEADLOCK FALSE
