\* An edge-triggered loop.
CONSTANTS
  EdgeTriggered = TRUE
  SessionsPerEvent = 2
  SendBuffer = 2
  MaxChlos = 4
  MaxWrites = 4
  MaxStarts = 1
SPECIFICATION FairSpec
\* Nothing happens after the server is destroyed.
CHECK_DEADLOCK FALSE
PROPERTY
  WritesResume
