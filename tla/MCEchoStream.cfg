\* A stream that takes no write while two bytes wait in it.
CONSTANTS
  Bytes = {a, b}
  Chunks <- MCChunks
  MaxBytes = 5
  Threshold = 2
SPECIFICATION FairSpec
\* The client may have sent all it will send.
CHECK_DEADLOCK FALSE
INVARIANTS
  RefusedIsRetried
PROPERTIES
  Echoes
  EndNearer
  EndAnswered
