\* A level-triggered loop and a session that meets a full socket.
CONSTANTS
  EdgeTriggered = FALSE
  SessionsPerEvent = 2
  SendBuffer = 1
  MaxChlos = 2
  MaxWrites = 2
  MaxStarts = 1
SPECIFICATION FairSpec
\* Nothing happens after the server is destroyed.
CHECK_DEADLOCK FALSE
PROPERTY
  WritesResume
