-------------------------- MODULE QuitServerStream --------------------------
(***************************************************************************)
(* One HTTP/3 request stream of the server: QuitServerStream together with *)
(* the backend that answers it (QuicSimpleServerBackend) and the part of   *)
(* the QUIC stream below it that its handlers read (the send side's FIN    *)
(* and reset, the receive side's FIN).                                     *)
(*                                                                         *)
(* The server runs on one thread, so every handler with all the calls it   *)
(* makes is one step.  What a handler writes is computed by operators on   *)
(* the record `stream', one per C++ member function, which are applied in  *)
(* the order of the calls.  The build modelled is the release build: a     *)
(* failed QUICHE_DCHECK or QUIC_BUG is recorded and execution continues.   *)
(***************************************************************************)
EXTENDS Integers, Sequences

CONSTANTS
  Responses,         \* what the backend may answer to an ordinary request
  ConnectResponses,  \* what it may answer to the headers of a CONNECT
  Async,             \* may the backend answer after the handler returned?
  Tunnel,            \* does the backend take CONNECT data, or refuse it?
  Regions,           \* sizes of the body regions the sequencer hands over
  MaxBody,           \* bound: bytes of request body in one run
  ContentLengths,    \* content-length of ordinary requests, -1 when absent
  ConnectLengths,    \* content-length of CONNECT requests, -1 when absent
  Paths,             \* what parsing the :path as a number returns and stores
  ChunkSize          \* kChunkSize of WriteGeneratedBytes

NotANumber == -1
NoLength == -1

(* A response of the backend.  "NULL" is the null pointer of a request the *)
(* backend does not know.                                                  *)
ResponseTypes == {"REGULAR", "INCOMPLETE", "GENERATE_BYTES",
                  "CLOSE_CONNECTION", "IGNORE", "BACKEND_ERR", "NULL"}

Response == [type : ResponseTypes, status : {"final", "100", "bad"},
             delayed : BOOLEAN, hints : BOOLEAN,
             body : BOOLEAN, trailers : BOOLEAN]

(* An interim 100 response is an INCOMPLETE one without body, after which  *)
(* the backend answers again; a null pointer carries no delay.             *)
LegalResponse(r) ==
  /\ r.status = "100" => r.type = "INCOMPLETE" /\ ~r.body
  /\ r.type = "NULL" => ~r.delayed

ASSUME ResponsesAssumption ==
  /\ Responses \subseteq Response
  /\ ConnectResponses \subseteq Response
  /\ \A r \in Responses \cup ConnectResponses : LegalResponse(r)

ASSUME FlagsAssumption == Async \in BOOLEAN /\ Tunnel \in BOOLEAN

ASSUME SizesAssumption ==
  /\ Regions \subseteq Nat \ {0}
  /\ MaxBody \in Nat
  /\ ContentLengths \subseteq Nat \cup {NoLength}
  /\ ConnectLengths \subseteq Nat \cup {NoLength}
  /\ Paths \subseteq [number : BOOLEAN, value : Nat]
  /\ Paths # {}
  /\ ChunkSize \in Nat \ {0}

NoAnswer == [type |-> "NULL", status |-> "final", delayed |-> FALSE,
             hints |-> FALSE, body |-> FALSE, trailers |-> FALSE]

VARIABLES
  req,      \* request_headers_ and content_length_
  body,     \* size of body_
  rcvd,     \* history: bytes of body handed to the stream
  eof,      \* has the FIN of the request been consumed?
  stream,   \* the response: what was written, what is left to write
  asked,    \* what the backend still owes: "no", "answer" or "stream"
  alarm,    \* delayed_response_alarm_: the response it carries
  fetched   \* history: size of the body given to the backend, -1 before

vars == <<req, body, rcvd, eof, stream, asked, alarm, fetched>>

(* req.target  does the request name what it is for?  Of an ordinary one:   *)
(*             is there an :authority and a :path; of a WebTransport       *)
(*             CONNECT: has the backend a callback for its :path           *)
Methods == {"none", "GET", "CONNECT", "WT"}
Sections == {"info", "head", "body", "trailers"}

(* stream.wire  what was written, one entry for consecutive DATA frames or *)
(*              interim headers                                            *)
(* stream.fin   fin_buffered()                                             *)
(* stream.side  "reset": write_side_closed(); "gone": stream destroyed     *)
(* stream.sent  response_sent_                                             *)
(* stream.gen   generate_bytes_length_                                     *)
(* stream.announced, stream.bytes  history: the content-length of a        *)
(*              generated response and the bytes written of it; NotANumber *)
(*              when a response was to be generated but the path is none   *)
(* stream.stopped  no more of the request is delivered                     *)
(* stream.failed   an assertion on response_sent_ has failed               *)
(* stream.late     something was written after the FIN                     *)
Stream == [wire : Seq(Sections), fin : BOOLEAN,
           side : {"open", "reset", "gone"}, sent : BOOLEAN,
           gen : Nat, announced : Nat \cup {NotANumber}, bytes : Nat,
           stopped : BOOLEAN, failed : BOOLEAN, late : BOOLEAN]

Delayed == {r \in Responses \cup ConnectResponses : r.delayed}

TypeOK ==
  /\ req \in [method : Methods, clen : Nat \cup {NoLength}, target : BOOLEAN]
  /\ body \in Nat
  /\ rcvd \in Nat
  /\ eof \in BOOLEAN
  /\ stream \in Stream
  /\ asked \in {"no", "answer", "stream"}
  /\ alarm \in Delayed \cup {NoAnswer}
  /\ fetched \in Nat \cup {-1}

Init ==
  /\ req = [method |-> "none", clen |-> NoLength, target |-> FALSE]
  /\ body = 0
  /\ rcvd = 0
  /\ eof = FALSE
  /\ stream = [wire |-> <<>>, fin |-> FALSE, side |-> "open", sent |-> FALSE,
               gen |-> 0, announced |-> 0, bytes |-> 0,
               stopped |-> FALSE, failed |-> FALSE, late |-> FALSE]
  /\ asked = "no"
  /\ alarm = NoAnswer
  /\ fetched = -1

----------------------------------------------------------------------------
(* The send side of the QUIC stream (external).  A write is dropped after  *)
(* the FIN (a QUIC_BUG) and after a reset (silently).  Consecutive interim *)
(* headers, and consecutive DATA frames, are one section; "fin" stands for *)
(* a FIN without data.                                                     *)
Continues(wire, section) ==
  /\ section \in {"info", "body"}
  /\ wire # <<>>
  /\ wire[Len(wire)] = section

Extend(wire, section) ==
  IF section = "fin" \/ Continues(wire, section) THEN wire
                                            ELSE Append(wire, section)

Write(s, section, fin) ==
  IF s.fin THEN [s EXCEPT !.late = TRUE]
  ELSE IF s.side # "open" THEN s
  ELSE [s EXCEPT !.wire = Extend(s.wire, section), !.fin = fin]

Reset(s) == [s EXCEPT !.side = IF @ = "open" THEN "reset" ELSE @]

Writable(s) == ~s.fin /\ s.side = "open"

(* "Headers should be sent iff not sent in a previous response."           *)
CheckHeaders(s, head) == [s EXCEPT !.failed = @ \/ head = s.sent]

SendHeadersAndBodyAndTrailers(s, head, hasBody, trailers) ==
  LET c == CheckHeaders(s, head)
      h == IF head
             THEN [Write(c, "head", ~hasBody /\ ~trailers) EXCEPT !.sent = TRUE]
             ELSE c
      b == IF hasBody \/ ~trailers
             THEN Write(h, IF hasBody THEN "body" ELSE "fin", ~trailers)
             ELSE h
  IN  IF head /\ ~hasBody /\ ~trailers THEN h
      ELSE IF trailers THEN Write(b, "trailers", TRUE) ELSE b

(* Mutant: the 100 response marks the response as sent.                    *)
SendIncompleteResponse_MarksContinue(s, head, status, hasBody) ==
  LET c == CheckHeaders(s, head)
      h == IF head
             THEN Write([c EXCEPT !.sent = TRUE],
                        IF status = "100" THEN "info" ELSE "head", FALSE)
             ELSE c
  IN  IF hasBody THEN Write(h, "body", FALSE) ELSE h

(* Mutant: an incomplete response ends the stream with its body.           *)
SendIncompleteResponse_Ends(s, head, status, hasBody) ==
  LET c == CheckHeaders(s, head)
      h == IF head
             THEN Write([c EXCEPT !.sent = @ \/ status # "100"],
                        IF status = "100" THEN "info" ELSE "head", FALSE)
             ELSE c
  IN  IF hasBody THEN Write(h, "body", TRUE) ELSE h

SendIncompleteResponse(s, head, status, hasBody) ==
  LET c == CheckHeaders(s, head)
      h == IF head
             THEN Write([c EXCEPT !.sent = @ \/ status # "100"],
                        IF status = "100" THEN "info" ELSE "head", FALSE)
             ELSE c
  IN  IF hasBody THEN Write(h, "body", FALSE) ELSE h

(* Mutant: reading goes on after an error response.                        *)
SendErrorResponse_KeepsReading(s) ==
  SendHeadersAndBodyAndTrailers(s, TRUE, TRUE, FALSE)

SendErrorResponse(s) ==
  SendHeadersAndBodyAndTrailers([s EXCEPT !.stopped = TRUE], TRUE, TRUE, FALSE)

SendNotFoundResponse(s) == SendHeadersAndBodyAndTrailers(s, TRUE, TRUE, FALSE)

(* Mutant: the last chunk is not cut to the bytes that are left.           *)
WriteGeneratedBytes_WholeChunks(s, chunks) ==
  LET n == IF s.gen = 0 THEN 0 ELSE chunks * ChunkSize
  IN  IF n = 0 THEN s
      ELSE [Write(s, "body", n = s.gen)
              EXCEPT !.gen = s.gen - n,
                     !.bytes = IF Writable(s) THEN s.bytes + n ELSE s.bytes]

(* Mutant: the FIN is decided before the bytes are subtracted.             *)
WriteGeneratedBytes_EarlyTest(s, chunks) ==
  LET n == IF chunks * ChunkSize < s.gen THEN chunks * ChunkSize ELSE s.gen
  IN  IF n = 0 THEN s
      ELSE [Write(s, "body", s.gen = 0)
              EXCEPT !.gen = s.gen - n,
                     !.bytes = IF Writable(s) THEN s.bytes + n ELSE s.bytes]

(* The loop writes chunks until the stream has buffered data; chunks is    *)
(* how many flow control let it write.                                     *)
WriteGeneratedBytes(s, chunks) ==
  LET n == IF chunks * ChunkSize < s.gen THEN chunks * ChunkSize ELSE s.gen
  IN  IF n = 0 THEN s
      ELSE [Write(s, "body", n = s.gen)
              EXCEPT !.gen = s.gen - n,
                     !.bytes = IF Writable(s) THEN s.bytes + n ELSE s.bytes]

(* SimpleAtoi parses into generate_bytes_length_ itself and leaves what it *)
(* has read there when the path is no number.                              *)
SendGeneratedResponse(s, path, chunks) ==
  IF path.number
    THEN WriteGeneratedBytes(
           [Write(s, "head", FALSE)
              EXCEPT !.failed = @ \/ s.sent, !.sent = TRUE,
                     !.gen = path.value, !.announced = path.value], chunks)
    ELSE [SendNotFoundResponse(s) EXCEPT !.gen = path.value,
                                         !.announced = NotANumber]

Respond(s, r, path, chunks) ==
  LET h == IF r.hints THEN Write(s, "info", FALSE) ELSE s
  IN  CASE r.type = "CLOSE_CONNECTION" -> [h EXCEPT !.side = "gone"]
        [] r.type = "IGNORE"           -> h
        [] r.type = "BACKEND_ERR"      -> SendErrorResponse(h)
        [] r.type \in {"REGULAR", "INCOMPLETE", "GENERATE_BYTES"} ->
             IF r.status = "bad" THEN SendErrorResponse(h)
             ELSE IF r.type = "INCOMPLETE"
               THEN SendIncompleteResponse(h, TRUE, r.status, r.body)
             ELSE IF r.type = "GENERATE_BYTES"
               THEN SendGeneratedResponse(h, path, chunks)
             ELSE SendHeadersAndBodyAndTrailers(h, TRUE, r.body, r.trailers)

(* What the backend still has to do once r was sent: answer again after a  *)
(* 100, stream the rest of an incomplete response.                         *)
Owed(r) == IF r.type # "INCOMPLETE" \/ r.status = "bad" THEN "no"
           ELSE IF r.status = "100" THEN "answer" ELSE "stream"

(* OnResponseBackendComplete and OnAlarm end in Respond, here with the     *)
(* path of the request and the flow control of the moment.                 *)
RespondWith(s, r) ==
  /\ \E path \in Paths : \E chunks \in 0..(path.value + 1) :
       stream' = Respond(s, r, path, chunks)
  /\ asked' = Owed(r)

(* s is the stream as the handler under way has left it.                   *)
OnResponseBackendComplete(s, r) ==
  \/ /\ r.type = "NULL"
     /\ stream' = SendNotFoundResponse(s)
     /\ asked' = "no"
     /\ UNCHANGED alarm
  \/ /\ r.type # "NULL"
     /\ ~r.delayed
     /\ RespondWith(s, r)
     /\ UNCHANGED alarm
  \/ /\ r.delayed
     /\ stream' = s
     /\ alarm' = r
     /\ asked' = "no"

(* The backend answers a request before it returns, or later.              *)
Ask(s, answers) ==
  \/ \E r \in answers : OnResponseBackendComplete(s, r)
  \/ /\ Async
     /\ stream' = s
     /\ asked' = "answer"
     /\ UNCHANGED alarm
----------------------------------------------------------------------------
(* The backend's side of a request (external).                             *)

(* Without a tunnel the backend resets the stream for any CONNECT data; a  *)
(* tunnel forwards the data and ignores what it was not asked to connect.  *)
HandleConnectData(s) == IF Tunnel THEN s ELSE Reset(s)

HandleConnectHeaders(s) == Ask(s, ConnectResponses)

FetchResponseFromBackend(size) ==
  /\ fetched' = size
  /\ Ask(stream, Responses)

BackendResponds(r) ==
  /\ asked = "answer"
  /\ stream.side # "gone"
  /\ r \in (IF req.method = "CONNECT" THEN ConnectResponses ELSE Responses)
  /\ OnResponseBackendComplete(stream, r)
  /\ UNCHANGED <<req, body, rcvd, eof, fetched>>

(* SendStreamData: more of an incomplete response, or the end of it, which *)
(* may carry data.                                                         *)
SendStreamData(closeStream, data) ==
  /\ asked = "stream"
  /\ stream.side # "gone"
  /\ data \/ closeStream
  /\ stream' = IF closeStream
                 THEN SendHeadersAndBodyAndTrailers(stream, FALSE, data, FALSE)
                 ELSE SendIncompleteResponse(stream, FALSE, "final", data)
  /\ asked' = IF closeStream THEN "no" ELSE asked
  /\ UNCHANGED <<req, body, rcvd, eof, alarm, fetched>>

TerminateStreamWithError ==
  /\ asked \in {"answer", "stream"}
  /\ stream.side # "gone"
  /\ stream' = Reset(stream)
  /\ asked' = "no"
  /\ UNCHANGED <<req, body, rcvd, eof, alarm, fetched>>

----------------------------------------------------------------------------
(* OnInitialHeadersComplete.  Over HTTP/3 its argument fin is always       *)
(* FALSE; when the FIN arrived with the headers, ConsumeHeaderList calls   *)
(* OnBodyAvailable, before the CONNECT branch below it is reached.         *)
Fresh == req.method = "none" /\ stream.side # "gone" /\ ~stream.stopped

(* The base class rejects the headers (OnInvalidHeaders, 400), or          *)
(* CopyAndValidateHeaders does (500).                                      *)
InvalidHeaders ==
  /\ Fresh
  /\ stream' = SendErrorResponse(stream)
  /\ UNCHANGED <<req, body, rcvd, eof, asked, alarm, fetched>>

(* Mutant: the announced content-length is not compared with the body.     *)
SendResponse_AnyLength(r, size) ==
  \/ /\ ~r.target
     /\ stream' = SendErrorResponse(stream)
     /\ UNCHANGED <<asked, alarm, fetched>>
  \/ /\ r.target
     /\ FetchResponseFromBackend(size)

(* SendResponse for a request that is complete with a body of this size.   *)
SendResponse(r, size) ==
  \/ /\ (r.clen > 0 /\ r.clen # size) \/ ~r.target
     /\ stream' = SendErrorResponse(stream)
     /\ UNCHANGED <<asked, alarm, fetched>>
  \/ /\ ~(r.clen > 0 /\ r.clen # size)
     /\ r.target
     /\ FetchResponseFromBackend(size)

RequestHeaders(target, clen) ==
  /\ Fresh
  /\ req' = [method |-> "GET", clen |-> clen, target |-> target]
  /\ UNCHANGED <<body, rcvd, eof, stream, asked, alarm, fetched>>

RequestHeadersAndFin(target, clen) ==
  /\ Fresh
  /\ req' = [method |-> "GET", clen |-> clen, target |-> target]
  /\ eof' = TRUE
  /\ \/ Writable(stream) /\ SendResponse(req', 0)
     \/ ~Writable(stream) /\ UNCHANGED <<stream, asked, alarm, fetched>>
  /\ UNCHANGED <<body, rcvd>>

ConnectHeaders(clen) ==
  /\ Fresh
  /\ req' = [method |-> "CONNECT", clen |-> clen, target |-> TRUE]
  /\ HandleConnectHeaders(stream)
  /\ UNCHANGED <<body, rcvd, eof, fetched>>

(* The end of the data reaches the backend before the headers do.          *)
ConnectHeadersAndFin(clen) ==
  /\ Fresh
  /\ req' = [method |-> "CONNECT", clen |-> clen, target |-> TRUE]
  /\ eof' = TRUE
  /\ HandleConnectHeaders(IF Writable(stream) THEN HandleConnectData(stream)
                                              ELSE stream)
  /\ UNCHANGED <<body, rcvd, fetched>>

(* A WebTransport CONNECT: 200 and an open stream, or an error and a FIN.  *)
(* response_sent_ is not touched.                                          *)
WebTransportHeaders(accepted) ==
  /\ Fresh
  /\ req' = [method |-> "WT", clen |-> NoLength, target |-> accepted]
  /\ stream' = Write(stream, "head", ~accepted)
  /\ UNCHANGED <<body, rcvd, eof, asked, alarm, fetched>>

(* The session answers the FIN of its CONNECT stream, or the capsule that  *)
(* closes the session, with a FIN (external).  The stream keeps            *)
(* web_transport_ when the backend has refused the session, so that this   *)
(* FIN may come behind that of the refusal.                                *)
EndSession(s) == Write(s, "fin", TRUE)

WebTransportHeadersAndFin(accepted) ==
  /\ Fresh
  /\ req' = [method |-> "WT", clen |-> NoLength, target |-> accepted]
  /\ eof' = TRUE
  /\ stream' = Write(EndSession(stream), "head", ~accepted)
  /\ UNCHANGED <<body, rcvd, asked, alarm, fetched>>

----------------------------------------------------------------------------
(* OnBodyAvailable, called with a region of n bytes; the capsules of a     *)
(* WebTransport stream are not delivered here.                             *)
Reading == /\ req.method \in {"GET", "CONNECT"}
           /\ ~eof
           /\ ~stream.stopped
           /\ stream.side # "gone"

TooLong(size) == req.clen >= 0 /\ size > req.clen

Receive(n) == /\ Reading
              /\ rcvd + n <= MaxBody
              /\ rcvd' = rcvd + n
              /\ UNCHANGED req

BodyTooLong(n) ==
  /\ Receive(n)
  /\ TooLong(body + n)
  /\ body' = body + n
  /\ stream' = SendErrorResponse(stream)
  /\ UNCHANGED <<eof, asked, alarm, fetched>>

BodyAvailable(n) ==
  /\ req.method = "GET"
  /\ Receive(n)
  /\ ~TooLong(body + n)
  /\ body' = body + n
  /\ UNCHANGED <<eof, stream, asked, alarm, fetched>>

ConnectDataAvailable(n) ==
  /\ req.method = "CONNECT"
  /\ Receive(n)
  /\ ~TooLong(body + n)
  /\ body' = 0
  /\ stream' = HandleConnectData(stream)
  /\ UNCHANGED <<eof, asked, alarm, fetched>>

(* The last region, or a bare FIN (n = 0).                                 *)
BodyComplete(n) ==
  /\ req.method = "GET"
  /\ Receive(n)
  /\ ~TooLong(body + n)
  /\ body' = body + n
  /\ eof' = TRUE
  /\ \/ Writable(stream) /\ SendResponse(req, body + n)
     \/ ~Writable(stream) /\ UNCHANGED <<stream, asked, alarm, fetched>>

ConnectDataComplete(n) ==
  /\ req.method = "CONNECT"
  /\ Receive(n)
  /\ ~TooLong(body + n)
  /\ eof' = TRUE
  /\ \/ /\ Writable(stream)
        /\ body' = 0
        /\ stream' = HandleConnectData(stream)
     \/ /\ ~Writable(stream)
        /\ body' = body + n
        /\ UNCHANGED stream
  /\ UNCHANGED <<asked, alarm, fetched>>

WebTransportFin ==
  /\ req.method = "WT"
  /\ ~eof
  /\ ~stream.stopped
  /\ stream.side # "gone"
  /\ eof' = TRUE
  /\ stream' = EndSession(stream)
  /\ UNCHANGED <<req, body, rcvd, asked, alarm, fetched>>

----------------------------------------------------------------------------
(* Mutant: the alarm is not cleared, and can fire again.                   *)
OnAlarm_StaysSet ==
  /\ alarm # NoAnswer
  /\ RespondWith(stream, alarm)
  /\ UNCHANGED <<req, body, rcvd, eof, alarm, fetched>>

(* DelayedResponseAlarm::OnAlarm                                           *)
OnAlarm ==
  /\ alarm # NoAnswer
  /\ RespondWith(stream, alarm)
  /\ alarm' = NoAnswer
  /\ UNCHANGED <<req, body, rcvd, eof, fetched>>

(* Mutant: OnCanWrite flushes and generates nothing more.                  *)
OnCanWrite_OnlyFlushes(chunks) ==
  /\ stream.gen > 0
  /\ stream.side = "open"
  /\ UNCHANGED vars

(* The session lets the stream write: flow control lets chunks more of it  *)
(* through, or data was lost and is sent again.                            *)
OnCanWrite(chunks) ==
  /\ stream.gen > 0
  /\ stream.side = "open"
  /\ stream' = WriteGeneratedBytes(stream, chunks)
  /\ UNCHANGED <<req, body, rcvd, eof, asked, alarm, fetched>>

(* The peer: STOP_SENDING resets the write side, RESET_STREAM ends the     *)
(* request without a FIN and leaves the write side alone (external).       *)
PeerStopSending ==
  /\ stream.side = "open"
  /\ stream' = Reset(stream)
  /\ UNCHANGED <<req, body, rcvd, eof, asked, alarm, fetched>>

PeerResetStream ==
  /\ ~eof
  /\ ~stream.stopped
  /\ stream.side # "gone"
  /\ stream' = [stream EXCEPT !.stopped = TRUE]
  /\ UNCHANGED <<req, body, rcvd, eof, asked, alarm, fetched>>

(* The destructor: the alarm is cancelled, CloseBackendResponseStream      *)
(* tells the backend that nobody waits any more.                           *)
Destroy ==
  /\ stream' = [stream EXCEPT !.side = "gone"]
  /\ asked' = "no"
  /\ alarm' = NoAnswer
  /\ UNCHANGED <<req, body, rcvd, eof, fetched>>

Headers ==
  \/ InvalidHeaders
  \/ \E target \in BOOLEAN, clen \in ContentLengths :
       RequestHeaders(target, clen) \/ RequestHeadersAndFin(target, clen)
  \/ \E clen \in ConnectLengths :
       ConnectHeaders(clen) \/ ConnectHeadersAndFin(clen)
  \/ \E accepted \in BOOLEAN :
       WebTransportHeaders(accepted) \/ WebTransportHeadersAndFin(accepted)

Body ==
  \/ \E n \in Regions :
       BodyTooLong(n) \/ BodyAvailable(n) \/ ConnectDataAvailable(n)
  \/ \E n \in Regions \cup {0} : BodyComplete(n) \/ ConnectDataComplete(n)
  \/ WebTransportFin

Backend ==
  \/ \E r \in Responses \cup ConnectResponses : BackendResponds(r)
  \/ \E closeStream, data \in BOOLEAN : SendStreamData(closeStream, data)
  \/ TerminateStreamWithError

Next ==
  \/ Headers
  \/ Body
  \/ Backend
  \/ OnAlarm
  \/ \E chunks \in 1..stream.gen : OnCanWrite(chunks)
  \/ PeerStopSending
  \/ PeerResetStream
  \/ Destroy

Spec == Init /\ [][Next]_vars

(* Fairness: an alarm that is set fires, an asynchronous backend answers,  *)
(* and the peer opens its flow control window.                             *)
Fairness ==
  /\ WF_vars(OnAlarm)
  /\ WF_vars(\E r \in Responses \cup ConnectResponses : BackendResponds(r))
  /\ WF_vars(\E chunks \in 1..stream.gen : OnCanWrite(chunks))

FairSpec == Spec /\ Fairness
----------------------------------------------------------------------------
(* A CONNECT that announced a content-length and delivered more in one go. *)
Overlong == req.method = "CONNECT" /\ TooLong(body)

(* "Headers should be sent iff not sent in a previous response."           *)
(* (quit_server_stream.cc:421 and 452, the assertions on the next line).   *)
HeadersIffNotSent == ~stream.failed

(* Whatever the order of body, FIN, backend, alarm and peer, the stream    *)
(* starts one response only: the assertions on response_sent_ can fail for *)
(* nothing but an overlong CONNECT, which gets an error response although  *)
(* it was answered when its headers came.                                  *)
OneResponse == stream.failed => Overlong

(* Nothing is written after the FIN, with four exceptions: that second     *)
(* response; a WebTransport CONNECT whose FIN came with its headers, where *)
(* the session has ended the stream before the headers are written; one    *)
(* that was refused, with a FIN (quit_server_stream.cc:89), and whose      *)
(* session answers the client's FIN with another; and the bytes a path     *)
(* that is no number leaves to be generated, which OnCanWrite writes after *)
(* the 404.  An accepted session whose FIN comes later is not among them.  *)
NothingAfterFin ==
  stream.late => \/ Overlong
                 \/ req.method = "WT" /\ eof /\ (stream.wire = <<>> \/ ~req.target)
                 \/ stream.announced = NotANumber

(* The stream as its client sees it.  An ordinary request can be answered  *)
(* when its FIN is in, a CONNECT when its headers are.                     *)
RequestState ==
  IF Overlong THEN "broken"
  ELSE IF req.method = "WT" THEN "session"
  ELSE IF req.method = "CONNECT" \/ (req.method = "GET" /\ eof) THEN "complete"
  ELSE IF stream.stopped THEN "aborted" ELSE "partial"

Http == INSTANCE HttpExchange WITH
          request <- RequestState, response <- stream.wire,
          ended <- stream.fin, cut <- stream.side # "open"

(* The stream implements one HTTP exchange, whatever the order of body,    *)
(* FIN, resets, alarm and backend: nothing is written before the request   *)
(* is complete or given up, interim headers go before the one final header *)
(* section, body and trailers behind it, and the end only with headers.    *)
AnswersOnce == Http!Exchange

(* A generated body is as long as the content-length it announced: what is *)
(* written and what is left add up to it until the stream is reset, and    *)
(* the FIN goes out with the last byte, neither before nor without it.     *)
GeneratedBodyComplete ==
  stream.side = "open" /\ ~Overlong /\ stream.announced # NotANumber =>
    /\ stream.bytes + stream.gen = stream.announced
    /\ stream.announced > 0 => (stream.fin <=> stream.gen = 0)

(* The backend is asked for a response only when the whole request has     *)
(* arrived, with all of its body, and the body is as long as announced:    *)
(* no early FIN, reset or short body reaches FetchResponseFromBackend.     *)
BackendGetsWholeRequest ==
  fetched # -1 => /\ req.method = "GET"
                  /\ eof
                  /\ fetched = rcvd
                  /\ req.clen # NoLength => fetched = req.clen

(* A late answer is still wanted: while the backend owes an answer or the  *)
(* alarm of a delayed one is set no final headers have been sent, while it *)
(* streams they have and the FIN has not.                                  *)
PendingAnswerWanted ==
  Overlong \/
  /\ asked = "answer" \/ alarm # NoAnswer => ~stream.sent
  /\ asked = "stream" => stream.sent /\ ~stream.fin
  /\ asked # "no" => alarm = NoAnswer

(* An ordinary request is complete with its FIN, a CONNECT with its        *)
(* headers; the response is over with its FIN, or when the stream is reset *)
(* or destroyed.                                                           *)
Complete == (req.method = "GET" /\ eof) \/ req.method = "CONNECT"
Over == stream.fin \/ stream.side # "open"

(* The answers that end no request: a backend that says IGNORE leaves the  *)
(* stream as it is, and of a body of zero bytes no write carries the FIN.  *)
EndlessAnswer ==
  \/ ~stream.sent /\ \E r \in Responses \cup ConnectResponses : r.type = "IGNORE"
  \/ stream.sent /\ [number |-> TRUE, value |-> 0] \in Paths

(* No complete request is forgotten: until its response is over, somebody  *)
(* is to go on with it, the backend that was asked, the alarm that is set, *)
(* or OnCanWrite, which is called while generated bytes are left.          *)
AnswerOwed ==
  Complete => \/ Over \/ EndlessAnswer
              \/ asked # "no" \/ alarm # NoAnswer \/ stream.gen > 0

(* And each of them brings the end nearer, for good: the backend's answer  *)
(* comes before the alarm of a delayed one, that before what is streamed   *)
(* or generated, of which less and less is left, and no step goes back.    *)
(* Only an interim 100 makes the backend answer again.                     *)
Stage == IF asked = "answer" THEN 3 ELSE IF alarm # NoAnswer THEN 2
         ELSE IF asked = "stream" THEN 1 ELSE 0

AnswerNearer ==
  [][Complete /\ ~Over =>
       \/ Over'
       \/ Stage' < Stage
       \/ Stage' = Stage /\ stream'.gen < stream.gen
       \/ UNCHANGED <<asked, alarm, stream.gen>>
       \/ alarm.status = "100" /\ alarm' = NoAnswer /\ asked' = "answer"]_vars

(* "on fin, send an HTTP response" (quit_server_stream.h:20): a complete   *)
(* request, and a CONNECT as soon as its headers are in, is answered up to *)
(* the FIN unless the stream is reset or destroyed.                        *)
RequestAnswered == Complete ~> Over
============================================================================
