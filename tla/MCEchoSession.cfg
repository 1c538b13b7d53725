\* Three streams, with texts below, at and above what a stream buffers.
CONSTANTS
  Incoming = {i1, i2, i3}
  Sizes = {0, 1, 2}
  MaxBytes = 3
  Threshold = 2
  Grants = {1, 2}
  MaxCredit = 2
SPECIFICATION Spec
\* The client may have sent all it will send.
CHECK_DEADLOCK FALSE
INVARIANTS
  NoneWaitsWithCredit
  OnlyExtremesLackFin
PROPERTY
  EchoesTexts
