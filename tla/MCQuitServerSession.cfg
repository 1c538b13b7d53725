\* Three streams, of which two may be open, and one unidirectional stream
\* around one session on one connection.
CONSTANTS
  Streams = {s1, s2, s3}
  Sizes = {0, 2}
  MaxBytes = 2
  Threshold = 1
  MaxUni = 1
  SupportsWebTransport = TRUE
  MaxStreams = 2
  RstErrors = {cancelled}
  MaxResets = 2
SPECIFICATION SessionSpec
SYMMETRY Symmetry
\* The client may have done all it will do; a crash ends the program.
CHECK_DEADLOCK FALSE
INVARIANTS
  SessionTypeOK
  TransportReady
  EveryStreamAccepted
  OnlyEarlyBytesWait
  SendFindsStream
  OnlyClientFreesStreams
  ResetsCounted
