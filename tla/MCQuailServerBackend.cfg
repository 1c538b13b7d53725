\* Directories of at most two files, two paths and two callbacks.
CONSTANTS
  Chars <- MCChars
  Files <- MCFiles
  MaxFiles = 2
  Requests <- MCRequests
  LocalKey <- MCLocalKey
  Paths = {p1, p2}
  Callbacks = {c1, c2}
  MaxCalls = 2
SYMMETRY Symmetry
SPECIFICATION Spec
\* Everything may have been registered and asked for.
CHECK_DEADLOCK FALSE
INVARIANTS
  FilesShadowOnlyAliases
  AllOrNothing
  ServedAsWritten
  SessionsGetFirstCallback
