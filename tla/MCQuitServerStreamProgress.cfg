\* The backend refuses CONNECT and ends every other response it gives.
CONSTANTS
  Responses <- EndingResponses
  ConnectResponses <- MethodNotAllowed
  Async = TRUE
  Tunnel = FALSE
  Regions = {1, 2}
  MaxBody = 3
  ContentLengths <- MCContentLengths
  ConnectLengths <- MCContentLengths
  Paths <- MCPositivePaths
  ChunkSize = 2
SPECIFICATION FairSpec
\* A stream that is destroyed stays so.
CHECK_DEADLOCK FALSE
INVARIANT
  AnswerOwed
PROPERTY
  RequestAnswered
