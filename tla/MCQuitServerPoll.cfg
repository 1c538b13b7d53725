\* A level-triggered loop whose events disarm themselves, as poll's do.
CONSTANTS
  EdgeTriggered = FALSE
  SessionsPerEvent = 2
  SendBuffer = 2
  MaxChlos = 5
  MaxWrites = 3
  MaxStarts = 2
SPECIFICATION FairSpec
\* Nothing happens after the last server is destroyed.
CHECK_DEADLOCK FALSE
INVARIANTS
  TypeOK
  NoLostEvent
  ChlosKept
  FactoryUsable
PROPERTIES
  ChlosServed
  AdmitsInOrder
