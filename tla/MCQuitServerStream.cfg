\* Every kind of response, an asynchronous backend with a CONNECT tunnel.
CONSTANTS
  Responses <- AllResponses
  ConnectResponses <- TunnelResponses
  Async = TRUE
  Tunnel = TRUE
  Regions = {1, 2}
  MaxBody = 3
  ContentLengths <- MCContentLengths
  ConnectLengths <- MCContentLengths
  Paths <- MCPaths
  ChunkSize = 2
SPECIFICATION Spec
\* A stream that is destroyed stays so.
CHECK_DEADLOCK FALSE
INVARIANTS
  TypeOK
  OneResponse
  NothingAfterFin
  GeneratedBodyComplete
  BackendGetsWholeRequest
  PendingAnswerWanted
PROPERTIES
  AnswersOnce
  AnswerNearer
