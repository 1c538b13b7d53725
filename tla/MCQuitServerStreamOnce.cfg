\* The backend of the repository: regular responses, given at once.
CONSTANTS
  Responses <- RegularResponses
  ConnectResponses <- MethodNotAllowed
  Async = FALSE
  Tunnel = FALSE
  Regions = {1, 2}
  MaxBody = 3
  ContentLengths <- MCContentLengths
  ConnectLengths <- MCContentLengths
  Paths <- MCPaths
  ChunkSize = 2
SPECIFICATION Spec
\* A stream that is destroyed stays so.
CHECK_DEADLOCK FALSE
INVARIANT
  HeadersIffNotSent
