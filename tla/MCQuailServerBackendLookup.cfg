\* A directory with one file, of another name than the one looked up.
CONSTANTS
  Chars <- MCChars
  Files <- MCFiles
  MaxFiles = 1
  Requests <- MCRequests
  LocalKey <- MCLocalKey
  Paths = {p1}
  Callbacks = {c1}
  MaxCalls = 1
SPECIFICATION Spec
\* Everything may have been registered and asked for.
CHECK_DEADLOCK FALSE
INVARIANT
  RetrievesGiven
