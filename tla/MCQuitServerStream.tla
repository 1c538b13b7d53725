------------------------ MODULE MCQuitServerStream ------------------------
(***************************************************************************)
(* Model-checking instances of QuitServerStream: the responses a backend   *)
(* may give in each run.                                                   *)
(***************************************************************************)
EXTENDS QuitServerStream

Answer(type, status, delayed, hints, hasBody, trailers) ==
  [type |-> type, status |-> status, delayed |-> delayed, hints |-> hints,
   body |-> hasBody, trailers |-> trailers]

(* Every kind of response, some of them delayed or after early hints.      *)
AllResponses ==
  { Answer("NULL", "final", FALSE, FALSE, FALSE, FALSE),
    Answer("REGULAR", "final", TRUE, TRUE, TRUE, TRUE),
    Answer("REGULAR", "final", FALSE, TRUE, FALSE, FALSE),
    Answer("REGULAR", "final", FALSE, FALSE, TRUE, FALSE),
    Answer("REGULAR", "final", FALSE, FALSE, FALSE, TRUE),
    Answer("REGULAR", "bad", FALSE, TRUE, TRUE, FALSE),
    Answer("INCOMPLETE", "100", FALSE, FALSE, FALSE, FALSE),
    Answer("INCOMPLETE", "final", FALSE, TRUE, TRUE, FALSE),
    Answer("INCOMPLETE", "final", TRUE, FALSE, FALSE, FALSE),
    Answer("GENERATE_BYTES", "final", FALSE, TRUE, FALSE, FALSE),
    Answer("GENERATE_BYTES", "final", TRUE, FALSE, FALSE, FALSE),
    Answer("CLOSE_CONNECTION", "final", FALSE, TRUE, FALSE, FALSE),
    Answer("IGNORE", "final", TRUE, FALSE, FALSE, FALSE),
    Answer("BACKEND_ERR", "final", FALSE, FALSE, FALSE, FALSE) }

(* The responses that end a request.                                       *)
EndingResponses ==
  { r \in AllResponses : r.type \notin {"IGNORE", "INCOMPLETE"} }

(* The 405 of QuicSimpleServerBackend::HandleConnectHeaders.               *)
MethodNotAllowed ==
  { Answer("REGULAR", "final", FALSE, FALSE, FALSE, FALSE) }

(* A tunnel accepts with 200 and no FIN, or refuses.                       *)
TunnelResponses ==
  MethodNotAllowed \cup
  { Answer("INCOMPLETE", "final", FALSE, FALSE, FALSE, FALSE),
    Answer("BACKEND_ERR", "final", FALSE, FALSE, FALSE, FALSE) }

(* No content-length, an empty body, a body of two bytes.                  *)
MCContentLengths == {NoLength, 0, 2}

(* What QuailServerBackend::FetchResponseFromBackend can answer.           *)
RegularResponses ==
  { Answer("NULL", "final", FALSE, FALSE, FALSE, FALSE),
    Answer("REGULAR", "final", FALSE, FALSE, TRUE, FALSE),
    Answer("REGULAR", "bad", FALSE, FALSE, TRUE, FALSE) }

(* Numbers of one and of several chunks, and paths that are no number, of  *)
(* which nothing or the digits in front have been read.                    *)
MCPaths == { [number |-> TRUE, value |-> n] : n \in {0, 2, 3} } \cup
           { [number |-> FALSE, value |-> n] : n \in {0, 1} }
MCPositivePaths == MCPaths \ {[number |-> TRUE, value |-> 0]}
============================================================================
