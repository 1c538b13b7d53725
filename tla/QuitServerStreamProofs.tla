---------------------- MODULE QuitServerStreamProofs ----------------------
(***************************************************************************)
(* Theorems about one request stream.  Every operator on the record        *)
(* `stream' gets a lemma about what it returns; the theorems then go       *)
(* through the actions of Next, one step each.                             *)
(***************************************************************************)
EXTENDS QuitServerStream, SequenceTheorems, TLAPS

----------------------------------------------------------------------------
(* What is written stays a stream.                                         *)
LEMMA WriteType ==
  ASSUME NEW s \in Stream, NEW section \in Sections \cup {"fin"},
         NEW fin \in BOOLEAN
  PROVE  Write(s, section, fin) \in Stream
<1>1. Extend(s.wire, section) \in Seq(Sections)
  <2>1. s.wire \in Seq(Sections)
    BY DEF Stream
  <2>2. CASE section \in Sections
    <3>1. Append(s.wire, section) \in Seq(Sections)
      BY <2>1, <2>2, AppendProperties, Zenon
    <3>2. QED
      BY <2>1, <3>1 DEF Extend
  <2>3. CASE section = "fin"
    BY <2>1, <2>3 DEF Extend
  <2>4. QED
    BY <2>2, <2>3
<1>2. QED
  BY <1>1 DEF Write, Stream

(* A reset leaves the stream in its type.                                  *)
LEMMA ResetType ==
  ASSUME NEW s \in Stream
  PROVE  Reset(s) \in Stream
BY DEF Reset, Stream

(* Recording a failed assertion leaves the stream in its type.             *)
LEMMA CheckHeadersType ==
  ASSUME NEW s \in Stream, NEW head \in BOOLEAN
  PROVE  CheckHeaders(s, head) \in Stream
BY DEF CheckHeaders, Stream

(* So does SendHeadersAndBodyAndTrailers, whatever it is given.            *)
LEMMA SendAllType ==
  ASSUME NEW s \in Stream, NEW head \in BOOLEAN, NEW hasBody \in BOOLEAN,
         NEW trailers \in BOOLEAN
  PROVE  SendHeadersAndBodyAndTrailers(s, head, hasBody, trailers) \in Stream
<1> DEFINE c == CheckHeaders(s, head)
           w == Write(c, "head", ~hasBody /\ ~trailers)
           h == IF head THEN [w EXCEPT !.sent = TRUE] ELSE c
           b == IF hasBody \/ ~trailers
                  THEN Write(h, IF hasBody THEN "body" ELSE "fin", ~trailers)
                  ELSE h
<1>1. c \in Stream
  BY CheckHeadersType
<1>2. w \in Stream
  BY <1>1, WriteType DEF Sections
<1>3. h \in Stream
  BY <1>1, <1>2 DEF Stream
<1>4. b \in Stream
  BY <1>3, WriteType DEF Sections
<1>5. Write(b, "trailers", TRUE) \in Stream
  BY <1>4, WriteType DEF Sections
<1>6. QED
  BY <1>3, <1>4, <1>5 DEF SendHeadersAndBodyAndTrailers

(* And SendIncompleteResponse.                                             *)
LEMMA SendIncompleteType ==
  ASSUME NEW s \in Stream, NEW head \in BOOLEAN, NEW status,
         NEW hasBody \in BOOLEAN
  PROVE  SendIncompleteResponse(s, head, status, hasBody) \in Stream
<1> DEFINE c == CheckHeaders(s, head)
           d == [c EXCEPT !.sent = @ \/ status # "100"]
           w == Write(d, IF status = "100" THEN "info" ELSE "head", FALSE)
           h == IF head THEN w ELSE c
<1>1. c \in Stream
  BY CheckHeadersType
<1>2. d \in Stream
  BY <1>1 DEF Stream
<1>3. w \in Stream
  BY <1>2, WriteType DEF Sections
<1>4. h \in Stream
  BY <1>1, <1>3
<1>5. Write(h, "body", FALSE) \in Stream
  BY <1>4, WriteType DEF Sections
<1>6. QED
  BY <1>4, <1>5 DEF SendIncompleteResponse

(* And the error responses, which are whole responses.                     *)
LEMMA SendErrorType ==
  ASSUME NEW s \in Stream
  PROVE  /\ SendErrorResponse(s) \in Stream
         /\ SendNotFoundResponse(s) \in Stream
<1>1. [s EXCEPT !.stopped = TRUE] \in Stream
  BY DEF Stream
<1>2. QED
  BY <1>1, SendAllType DEF SendErrorResponse, SendNotFoundResponse

(* WriteGeneratedBytes never takes more than what is left: the unsigned    *)
(* counter generate_bytes_length_ does not wrap.                           *)
LEMMA GeneratedType ==
  ASSUME NEW s \in Stream, NEW chunks \in Nat
  PROVE  WriteGeneratedBytes(s, chunks) \in Stream
<1> DEFINE n == IF chunks * ChunkSize < s.gen THEN chunks * ChunkSize ELSE s.gen
<1>1. n \in Nat /\ n <= s.gen /\ s.gen - n \in Nat
  BY SizesAssumption DEF Stream
<1>2. Write(s, "body", n = s.gen) \in Stream
  BY WriteType DEF Sections
<1>3. (IF Writable(s) THEN s.bytes + n ELSE s.bytes) \in Nat
  BY <1>1 DEF Stream
<1>4. ASSUME NEW t \in Stream, NEW g \in Nat, NEW k \in Nat
      PROVE  [t EXCEPT !.gen = g, !.bytes = k] \in Stream
  BY <1>4 DEF Stream
<1>5. [Write(s, "body", n = s.gen)
         EXCEPT !.gen = s.gen - n,
                !.bytes = IF Writable(s) THEN s.bytes + n ELSE s.bytes] \in Stream
  BY <1>1, <1>2, <1>3, <1>4
<1>6. QED
  BY <1>5, Zenon DEF WriteGeneratedBytes

(* A generated response starts from what was read of the path.             *)
LEMMA SendGeneratedType ==
  ASSUME NEW s \in Stream, NEW path \in Paths, NEW chunks \in Nat
  PROVE  SendGeneratedResponse(s, path, chunks) \in Stream
<1> DEFINE w == Write(s, "head", FALSE)
           g == [w EXCEPT !.failed = @ \/ s.sent, !.sent = TRUE,
                          !.gen = path.value, !.announced = path.value]
           e == SendNotFoundResponse(s)
<1>1. path.number \in BOOLEAN /\ path.value \in Nat
  BY SizesAssumption
<1>2. CASE ~path.number
  <2>1. e \in Stream
    BY SendErrorType
  <2> HIDE DEF e
  <2>2. [e EXCEPT !.gen = path.value, !.announced = NotANumber] \in Stream
    BY <1>1, <2>1 DEF Stream
  <2>3. QED
    BY <1>2, <2>2 DEF SendGeneratedResponse, e
<1>3. CASE path.number
  <2>1. w \in Stream
    BY WriteType DEF Sections
  <2>2. g \in Stream
    BY <1>1, <2>1 DEF Stream
  <2>3. QED
    BY <1>3, <2>2, GeneratedType DEF SendGeneratedResponse
<1>4. QED
  BY <1>1, <1>2, <1>3

(* Respond, by the type of the response.                                   *)
LEMMA RespondType ==
  ASSUME NEW s \in Stream, NEW r \in Response, r.type # "NULL",
         NEW path \in Paths, NEW chunks \in Nat
  PROVE  Respond(s, r, path, chunks) \in Stream
<1> DEFINE h == IF r.hints THEN Write(s, "info", FALSE) ELSE s
<1>1. h \in Stream
  BY WriteType DEF Sections
<1>2. [h EXCEPT !.side = "gone"] \in Stream
  BY <1>1 DEF Stream
<1>3. SendErrorResponse(h) \in Stream
  BY <1>1, SendErrorType
<1>4. SendIncompleteResponse(h, TRUE, r.status, r.body) \in Stream
  BY <1>1, SendIncompleteType DEF Response
<1>5. SendGeneratedResponse(h, path, chunks) \in Stream
  BY <1>1, SendGeneratedType
<1>6. SendHeadersAndBodyAndTrailers(h, TRUE, r.body, r.trailers) \in Stream
  BY <1>1, SendAllType DEF Response
<1>7. r.type \in {"REGULAR", "INCOMPLETE", "GENERATE_BYTES",
                  "CLOSE_CONNECTION", "IGNORE", "BACKEND_ERR"}
  BY DEF Response, ResponseTypes
<1>8. QED
  BY <1>1, <1>2, <1>3, <1>4, <1>5, <1>6, <1>7 DEF Respond

(* A response keeps the types of the stream and of what is still owed.     *)
LEMMA RespondWithType ==
  ASSUME NEW s \in Stream, NEW r \in Responses \cup ConnectResponses,
         r.type # "NULL", RespondWith(s, r)
  PROVE  stream' \in Stream /\ asked' \in {"no", "answer", "stream"}
<1>1. r \in Response
  BY ResponsesAssumption
<1>2. PICK path \in Paths : \E chunks \in 0..(path.value + 1) :
        stream' = Respond(s, r, path, chunks)
  BY DEF RespondWith
<1>3. PICK chunks \in 0..(path.value + 1) : stream' = Respond(s, r, path, chunks)
  BY <1>2
<1>4. chunks \in Nat
  OBVIOUS
<1>5. QED
  BY <1>1, <1>3, <1>4, RespondType DEF RespondWith, Owed

(* OnResponseBackendComplete: no response, one at once, or an alarm.       *)
LEMMA BackendCompleteType ==
  ASSUME NEW s \in Stream, NEW r \in Responses \cup ConnectResponses,
         alarm \in Delayed \cup {NoAnswer}, OnResponseBackendComplete(s, r)
  PROVE  /\ stream' \in Stream
         /\ asked' \in {"no", "answer", "stream"}
         /\ alarm' \in Delayed \cup {NoAnswer}
<1>1. CASE r.type = "NULL" /\ stream' = SendNotFoundResponse(s)
                          /\ asked' = "no" /\ UNCHANGED alarm
  BY <1>1, SendErrorType
<1>2. CASE r.type # "NULL" /\ RespondWith(s, r) /\ UNCHANGED alarm
  BY <1>2, RespondWithType
<1>3. CASE r.delayed /\ stream' = s /\ alarm' = r /\ asked' = "no"
  BY <1>3 DEF Delayed
<1>4. QED
  BY <1>1, <1>2, <1>3 DEF OnResponseBackendComplete

(* A backend that is asked answers at once or owes its answer.             *)
LEMMA AskType ==
  ASSUME NEW s \in Stream, NEW answers, answers \subseteq Responses \cup ConnectResponses,
         alarm \in Delayed \cup {NoAnswer}, Ask(s, answers)
  PROVE  /\ stream' \in Stream
         /\ asked' \in {"no", "answer", "stream"}
         /\ alarm' \in Delayed \cup {NoAnswer}
BY BackendCompleteType DEF Ask

----------------------------------------------------------------------------
(* The constructor leaves every variable in its type.                      *)
LEMMA InitTypeOK == Init => TypeOK
<1> SUFFICES ASSUME Init
             PROVE  TypeOK
  OBVIOUS
<1>1. <<>> \in Seq(Sections)
  OBVIOUS
<1>2. stream \in Stream
  BY <1>1 DEF Init, Stream
<1>3. req \in [method : Methods, clen : Nat \cup {NoLength}, target : BOOLEAN]
  BY DEF Init, Methods
<1>4. body \in Nat /\ rcvd \in Nat /\ eof \in BOOLEAN
  BY DEF Init
<1>5. asked \in {"no", "answer", "stream"} /\ alarm \in Delayed \cup {NoAnswer}
  BY Zenon DEF Init
<1>6. fetched \in Nat \cup {-1}
  BY DEF Init
<1>7. QED
  BY <1>2, <1>3, <1>4, <1>5, <1>6 DEF TypeOK

(* Type correctness: the stream's state stays in its type over every       *)
(* handler; in particular generate_bytes_length_, which is unsigned, never *)
(* goes below zero.                                                        *)
THEOREM TypeCorrect == Spec => []TypeOK
<1>1. Init => TypeOK
  BY InitTypeOK
<1>2. TypeOK /\ [Next]_vars => TypeOK'
  <2> SUFFICES ASSUME TypeOK, [Next]_vars
               PROVE  TypeOK'
    OBVIOUS
  <2>t. /\ req \in [method : Methods, clen : Nat \cup {NoLength}, target : BOOLEAN]
        /\ body \in Nat /\ rcvd \in Nat /\ eof \in BOOLEAN /\ stream \in Stream
        /\ asked \in {"no", "answer", "stream"}
        /\ alarm \in Delayed \cup {NoAnswer} /\ fetched \in Nat \cup {-1}
    BY DEF TypeOK
  <2>l. /\ ContentLengths \subseteq Nat \cup {NoLength}
        /\ ConnectLengths \subseteq Nat \cup {NoLength}
        /\ Regions \cup {0} \subseteq Nat
    BY SizesAssumption
  <2>s. ASSUME NEW size \in Nat, NEW q, SendResponse(q, size)
        PROVE  /\ stream' \in Stream
               /\ asked' \in {"no", "answer", "stream"}
               /\ alarm' \in Delayed \cup {NoAnswer}
               /\ fetched' \in Nat \cup {-1}
    BY <2>s, <2>t, AskType, SendErrorType DEF SendResponse, FetchResponseFromBackend
  <2>1. CASE InvalidHeaders
    BY <2>1, <2>t, SendErrorType DEF InvalidHeaders, TypeOK
  <2>2. ASSUME NEW target \in BOOLEAN, NEW clen \in ContentLengths,
               RequestHeaders(target, clen)
        PROVE  TypeOK'
    BY <2>2, <2>t, <2>l DEF RequestHeaders, TypeOK, Methods
  <2>3. ASSUME NEW target \in BOOLEAN, NEW clen \in ContentLengths,
               RequestHeadersAndFin(target, clen)
        PROVE  TypeOK'
    <3>1. req' \in [method : Methods, clen : Nat \cup {NoLength}, target : BOOLEAN]
      BY <2>3, <2>l DEF RequestHeadersAndFin, Methods
    <3>2. CASE SendResponse(req', 0)
      BY <2>3, <3>1, <3>2, <2>t, <2>s DEF RequestHeadersAndFin, TypeOK
    <3>3. CASE UNCHANGED <<stream, asked, alarm, fetched>>
      BY <2>3, <3>1, <3>3, <2>t DEF RequestHeadersAndFin, TypeOK
    <3>4. QED
      BY <2>3, <3>2, <3>3 DEF RequestHeadersAndFin
  <2>4. ASSUME NEW clen \in ConnectLengths, ConnectHeaders(clen)
        PROVE  TypeOK'
    BY <2>4, <2>t, <2>l, AskType DEF ConnectHeaders, HandleConnectHeaders, TypeOK, Methods
  <2>5. ASSUME NEW clen \in ConnectLengths, ConnectHeadersAndFin(clen)
        PROVE  TypeOK'
    <3>1. (IF Writable(stream) THEN HandleConnectData(stream) ELSE stream) \in Stream
      BY <2>t, ResetType DEF HandleConnectData
    <3>2. req' \in [method : Methods, clen : Nat \cup {NoLength}, target : BOOLEAN]
      BY <2>5, <2>l DEF ConnectHeadersAndFin, Methods
    <3>3. QED
      BY <2>5, <3>1, <3>2, <2>t, AskType
      DEF ConnectHeadersAndFin, HandleConnectHeaders, TypeOK
  <2>6. ASSUME NEW accepted \in BOOLEAN, WebTransportHeaders(accepted)
        PROVE  TypeOK'
    BY <2>6, <2>t, WriteType DEF WebTransportHeaders, TypeOK, Methods, Sections
  <2>7. ASSUME NEW accepted \in BOOLEAN, WebTransportHeadersAndFin(accepted)
        PROVE  TypeOK'
    <3>1. EndSession(stream) \in Stream
      BY <2>t, WriteType DEF EndSession
    <3>2. Write(EndSession(stream), "head", ~accepted) \in Stream
      BY <3>1, WriteType DEF Sections
    <3>3. QED
      BY <2>7, <3>2, <2>t DEF WebTransportHeadersAndFin, TypeOK, Methods
  <2>8. ASSUME NEW n \in Regions \cup {0},
               \/ BodyTooLong(n) \/ BodyAvailable(n) \/ ConnectDataAvailable(n)
               \/ BodyComplete(n) \/ ConnectDataComplete(n)
        PROVE  TypeOK'
    <3>1. n \in Nat /\ body + n \in Nat /\ rcvd + n \in Nat
      BY <2>t, <2>l
    <3>2. HandleConnectData(stream) \in Stream /\ SendErrorResponse(stream) \in Stream
      BY <2>t, ResetType, SendErrorType DEF HandleConnectData
    <3>3. CASE BodyTooLong(n)
      BY <3>1, <3>2, <3>3, <2>t DEF BodyTooLong, Receive, TypeOK
    <3>4. CASE BodyAvailable(n)
      BY <3>1, <3>4, <2>t DEF BodyAvailable, Receive, TypeOK
    <3>5. CASE ConnectDataAvailable(n)
      BY <3>1, <3>2, <3>5, <2>t DEF ConnectDataAvailable, Receive, TypeOK
    <3>6. CASE BodyComplete(n)
      <4>1. CASE SendResponse(req, body + n)
        BY <3>1, <3>6, <4>1, <2>t, <2>s DEF BodyComplete, Receive, TypeOK
      <4>2. CASE UNCHANGED <<stream, asked, alarm, fetched>>
        BY <3>1, <3>6, <4>2, <2>t DEF BodyComplete, Receive, TypeOK
      <4>3. QED
        BY <3>6, <4>1, <4>2 DEF BodyComplete
    <3>7. CASE ConnectDataComplete(n)
      BY <3>1, <3>2, <3>7, <2>t DEF ConnectDataComplete, Receive, TypeOK
    <3>8. QED
      BY <2>8, <3>3, <3>4, <3>5, <3>6, <3>7
  <2>9. CASE WebTransportFin
    BY <2>9, <2>t, WriteType DEF WebTransportFin, EndSession, TypeOK
  <2>10. ASSUME NEW r \in Responses \cup ConnectResponses, BackendResponds(r)
         PROVE  TypeOK'
    BY <2>10, <2>t, BackendCompleteType DEF BackendResponds, TypeOK
  <2>11. ASSUME NEW closeStream \in BOOLEAN, NEW data \in BOOLEAN,
                SendStreamData(closeStream, data)
         PROVE  TypeOK'
    BY <2>11, <2>t, SendAllType, SendIncompleteType DEF SendStreamData, TypeOK
  <2>12. CASE TerminateStreamWithError
    BY <2>12, <2>t, ResetType DEF TerminateStreamWithError, TypeOK
  <2>13. CASE OnAlarm
    <3>1. alarm \in Responses \cup ConnectResponses /\ alarm.delayed
      BY <2>13, <2>t DEF OnAlarm, Delayed
    <3>2. alarm.type # "NULL"
      BY <3>1, ResponsesAssumption DEF LegalResponse
    <3>3. QED
      BY <2>13, <3>1, <3>2, <2>t, RespondWithType DEF OnAlarm, TypeOK
  <2>14. ASSUME NEW chunks \in 1..stream.gen, OnCanWrite(chunks)
         PROVE  TypeOK'
    <3>1. chunks \in Nat
      BY <2>t DEF Stream
    <3>2. QED
      BY <2>14, <3>1, <2>t, GeneratedType DEF OnCanWrite, TypeOK
  <2>15. CASE PeerStopSending
    BY <2>15, <2>t, ResetType DEF PeerStopSending, TypeOK
  <2>16. CASE PeerResetStream
    <3>1. [stream EXCEPT !.stopped = TRUE] \in Stream
      BY <2>t DEF Stream
    <3>2. QED
      BY <2>16, <3>1, <2>t DEF PeerResetStream, TypeOK
  <2>17. CASE Destroy
    <3>1. [stream EXCEPT !.side = "gone"] \in Stream
      BY <2>t DEF Stream
    <3>2. QED
      BY <2>17, <3>1, <2>t DEF Destroy, TypeOK
  <2>18. CASE UNCHANGED vars
    BY <2>18, <2>t DEF vars, TypeOK
  <2>19. QED
    BY <2>1, <2>2, <2>3, <2>4, <2>5, <2>6, <2>7, <2>8, <2>9, <2>10, <2>11, <2>12,
       <2>13, <2>14, <2>15, <2>16, <2>17, <2>18
    DEF Next, Headers, Body, Backend
<1>3. QED
  BY <1>1, <1>2, PTL DEF Spec

----------------------------------------------------------------------------
(* One response.  A stream is unanswered until its final headers are sent, *)
(* streams while the backend still owes the rest, and is sound all along:  *)
(* no assertion has failed, nothing was written after the FIN, and bytes   *)
(* left to generate mean that the headers are out and the FIN is not; when *)
(* the path was no number the last two may fail.                           *)
Garbled(s) == s.announced = NotANumber

Sound(s) == /\ ~s.failed
            /\ Garbled(s) => s.sent
            /\ s.late => Garbled(s)
            /\ s.fin => s.sent
            /\ s.gen > 0 => s.sent /\ (s.fin => Garbled(s))

Unanswered(s) == Sound(s) /\ ~s.sent
Streaming(s) == Sound(s) /\ s.sent /\ ~s.fin /\ s.gen = 0 /\ ~Garbled(s)

(* Who may still answer, in each phase of a request.                       *)
Control ==
  \/ /\ req.method = "WT"
     /\ ~stream.failed /\ stream.gen = 0
     /\ asked = "no" /\ alarm = NoAnswer
     /\ ~eof /\ req.target => ~stream.fin
     /\ stream.late => eof /\ (stream.wire = <<>> \/ ~req.target)
  \/ /\ req.method # "WT"
     /\ Sound(stream)
     /\ asked = "answer" => Unanswered(stream) /\ alarm = NoAnswer
     /\ asked = "stream" => Streaming(stream) /\ alarm = NoAnswer
     /\ alarm # NoAnswer => Unanswered(stream)
     /\ req.method = "none" =>
          /\ asked = "no" /\ alarm = NoAnswer
          /\ stream.stopped \/ (Unanswered(stream) /\ stream.wire = <<>>)
     /\ req.method = "GET" /\ ~eof =>
          /\ asked = "no" /\ alarm = NoAnswer
          /\ stream.stopped \/ Unanswered(stream)

ControlInv == TypeOK /\ (Overlong \/ Control)

(* What a write does to a stream that is open, and to one that is not.     *)
LEMMA WriteFacts ==
  ASSUME NEW s \in Stream, NEW section \in Sections \cup {"fin"},
         NEW fin \in BOOLEAN
  PROVE  LET w == Write(s, section, fin)
         IN  /\ w \in Stream
             /\ w.sent = s.sent /\ w.failed = s.failed /\ w.gen = s.gen
             /\ w.announced = s.announced /\ w.stopped = s.stopped
             /\ ~s.fin => w.late = s.late /\ (w.fin => fin)
<1>1. Write(s, section, fin) \in Stream
  BY WriteType
<1>2. QED
  BY <1>1 DEF Write, Stream

(* A write without FIN leaves the stream without FIN.                      *)
LEMMA WriteMoreFacts ==
  ASSUME NEW s \in Stream, ~s.fin, NEW section \in Sections \cup {"fin"}
  PROVE  LET w == Write(s, section, FALSE)
         IN  /\ w \in Stream
             /\ w.sent = s.sent /\ w.failed = s.failed /\ w.gen = s.gen
             /\ w.announced = s.announced /\ w.late = s.late /\ w.stopped = s.stopped
             /\ ~w.fin
BY WriteFacts

(* A reset keeps the stream sound.                                         *)
LEMMA ResetFacts ==
  ASSUME NEW s \in Stream
  PROVE  LET t == Reset(s)
         IN  /\ t \in Stream
             /\ t.sent = s.sent /\ t.failed = s.failed /\ t.gen = s.gen
             /\ t.announced = s.announced /\ t.stopped = s.stopped /\ t.late = s.late /\ t.fin = s.fin
             /\ t.wire = s.wire
<1>1. Reset(s) \in Stream
  BY ResetType
<1>2. QED
  BY <1>1 DEF Reset, Stream

(* The headers of a response go out on a stream without one.               *)
LEMMA SendHeadFacts ==
  ASSUME NEW s \in Stream, Unanswered(s), NEW fin \in BOOLEAN
  PROVE  LET h == [Write(CheckHeaders(s, TRUE), "head", fin) EXCEPT !.sent = TRUE]
         IN  /\ h \in Stream /\ h.sent /\ ~h.failed /\ ~h.late
             /\ h.announced # NotANumber /\ h.gen = 0
             /\ h.stopped = s.stopped
             /\ h.fin => fin
<1> DEFINE c == CheckHeaders(s, TRUE)
           w == Write(c, "head", fin)
<1>1. /\ c \in Stream /\ ~c.sent /\ ~c.fin /\ ~c.failed /\ ~c.late
      /\ c.announced # NotANumber /\ c.gen = 0
      /\ c.stopped = s.stopped
  BY DEF CheckHeaders, Stream, Unanswered, Sound, Garbled
<1>2. "head" \in Sections \cup {"fin"}
  BY DEF Sections
<1>3. /\ w \in Stream /\ ~w.failed /\ ~w.late
      /\ w.announced # NotANumber /\ w.gen = 0
      /\ w.stopped = s.stopped /\ (w.fin => fin)
  <2> HIDE DEF c
  <2>1. QED
    BY <1>1, <1>2, WriteFacts
<1>4. QED
  <2> HIDE DEF w
  <2>1. LET h == [w EXCEPT !.sent = TRUE]
        IN  /\ h \in Stream /\ h.sent /\ ~h.failed /\ ~h.late
            /\ h.announced # NotANumber /\ h.gen = 0
            /\ h.stopped = s.stopped
            /\ h.fin => fin
    BY <1>3 DEF Stream
  <2>2. QED
    BY <2>1 DEF w

(* A piece of the body, or the bare FIN, after the headers.                *)
LEMMA SendBodyFacts ==
  ASSUME NEW s \in Stream, Streaming(s), NEW section \in Sections \cup {"fin"},
         NEW fin \in BOOLEAN
  PROVE  LET b == Write(s, section, fin)
         IN  /\ b \in Stream /\ Sound(b) /\ b.sent /\ b.gen = 0 /\ b.announced # NotANumber
             /\ b.stopped = s.stopped
             /\ b.fin => fin
<1>1. /\ s.sent /\ ~s.fin /\ ~s.failed /\ ~s.late
      /\ s.announced # NotANumber /\ s.gen = 0
  BY DEF Streaming, Sound, Garbled
<1>2. QED
  BY <1>1, WriteFacts DEF Sound, Garbled

(* A whole response from a stream without one; the end of a streamed one.  *)
LEMMA SendAllFacts ==
  ASSUME NEW s \in Stream, Unanswered(s),
         NEW hasBody \in BOOLEAN, NEW trailers \in BOOLEAN
  PROVE  LET t == SendHeadersAndBodyAndTrailers(s, TRUE, hasBody, trailers)
         IN  Sound(t) /\ t.sent /\ t.stopped = s.stopped
<1>1. PICK only \in BOOLEAN, last \in BOOLEAN, section \in Sections \cup {"fin"} :
        /\ only = (~hasBody /\ ~trailers)
        /\ last = ~trailers
        /\ section = IF hasBody THEN "body" ELSE "fin"
  BY DEF Sections
<1> DEFINE h == [Write(CheckHeaders(s, TRUE), "head", only) EXCEPT !.sent = TRUE]
           b == Write(h, section, last)
           e == Write(b, "trailers", TRUE)
           e2 == Write(h, "trailers", TRUE)
<1>2. /\ h \in Stream /\ h.sent /\ ~h.failed /\ ~h.late
      /\ h.announced # NotANumber /\ h.gen = 0
      /\ h.stopped = s.stopped /\ (h.fin => only)
  BY SendHeadFacts
<1>3. "trailers" \in Sections \cup {"fin"}
  BY DEF Sections
<1>4. SendHeadersAndBodyAndTrailers(s, TRUE, hasBody, trailers) =
        IF only THEN h
        ELSE IF trailers THEN (IF hasBody THEN e ELSE e2) ELSE b
  <2>1. CASE trailers = TRUE
    BY <1>1, <2>1 DEF SendHeadersAndBodyAndTrailers
  <2>2. CASE trailers = FALSE
    BY <1>1, <2>2 DEF SendHeadersAndBodyAndTrailers
  <2>3. QED
    BY <2>1, <2>2
<1>5. CASE only
  <2> HIDE DEF h
  <2>1. SendHeadersAndBodyAndTrailers(s, TRUE, hasBody, trailers) = h
    BY <1>4, <1>5
  <2>2. Sound(h) /\ h.sent /\ h.stopped = s.stopped
    BY <1>2 DEF Sound, Garbled
  <2>3. QED
    BY <2>1, <2>2
<1>6. CASE ~only
  <2> HIDE DEF h
  <2>1. Streaming(h) /\ h \in Stream
    BY <1>2, <1>6 DEF Streaming, Sound, Garbled
  <2>2. b \in Stream /\ Sound(b) /\ b.sent /\ b.gen = 0 /\ b.announced # NotANumber
        /\ b.stopped = s.stopped /\ (b.fin => last)
    BY <2>1, <1>2, SendBodyFacts
  <2>3. CASE trailers = FALSE
    BY <2>2, <2>3, <1>4, <1>6
  <2>4. CASE trailers = TRUE /\ hasBody = FALSE
    <3>1. Sound(e2) /\ e2.sent /\ e2.stopped = s.stopped
      BY <2>1, <1>2, <1>3, SendBodyFacts
    <3>2. QED
      BY <3>1, <2>4, <1>4, <1>6
  <2>5. CASE trailers = TRUE /\ hasBody = TRUE
    <3> HIDE DEF b
    <3>1. Streaming(b) /\ b \in Stream
      BY <2>2, <2>5, <1>1 DEF Streaming, Garbled
    <3>2. Sound(e) /\ e.sent /\ e.stopped = s.stopped
      BY <3>1, <2>2, <1>3, SendBodyFacts
    <3>3. QED
      BY <3>2, <2>5, <1>4, <1>6
  <2>6. QED
    BY <2>3, <2>4, <2>5
<1>7. QED
  BY <1>5, <1>6

(* The end of a streamed response goes to a stream that has its headers.   *)
LEMMA SendLastFacts ==
  ASSUME NEW s \in Stream, Streaming(s), NEW hasBody \in BOOLEAN
  PROVE  LET t == SendHeadersAndBodyAndTrailers(s, FALSE, hasBody, FALSE)
         IN  Sound(t) /\ t.stopped = s.stopped
<1> DEFINE d == CheckHeaders(s, FALSE)
<1>1. PICK section \in Sections \cup {"fin"} :
        section = IF hasBody THEN "body" ELSE "fin"
  BY DEF Sections
<1>2. d \in Stream /\ Streaming(d) /\ d.stopped = s.stopped
  BY DEF CheckHeaders, Stream, Streaming, Sound, Garbled
<1>3. SendHeadersAndBodyAndTrailers(s, FALSE, hasBody, FALSE)
        = Write(d, section, TRUE)
  BY <1>1 DEF SendHeadersAndBodyAndTrailers
<1>4. QED
  <2> HIDE DEF d
  <2>1. Sound(Write(d, section, TRUE)) /\ Write(d, section, TRUE).stopped = d.stopped
    BY <1>2, SendBodyFacts
  <2>2. QED
    BY <1>2, <1>3, <2>1

(* An error response to a stream without one keeps it sound.               *)
LEMMA SendErrorFacts ==
  ASSUME NEW s \in Stream, Unanswered(s)
  PROVE  /\ Sound(SendErrorResponse(s)) /\ SendErrorResponse(s).stopped
         /\ Sound(SendNotFoundResponse(s)) /\ SendNotFoundResponse(s).sent
<1>1. LET t == [s EXCEPT !.stopped = TRUE]
      IN  t \in Stream /\ Unanswered(t) /\ t.stopped
  BY DEF Stream, Unanswered, Sound, Garbled
<1>2. QED
  BY <1>1, SendAllFacts DEF SendErrorResponse, SendNotFoundResponse

(* The start of an incomplete response: an interim 100 leaves the stream   *)
(* unanswered, any other one makes it stream; and more of its body.        *)
LEMMA SendIncompleteFacts ==
  ASSUME NEW s \in Stream, Unanswered(s), NEW status, NEW hasBody \in BOOLEAN
  PROVE  LET t == SendIncompleteResponse(s, TRUE, status, hasBody)
         IN  IF status = "100" THEN Unanswered(t) ELSE Streaming(t)
<1> DEFINE c == CheckHeaders(s, TRUE)
           e == [c EXCEPT !.sent = @ \/ status # "100"]
<1>1. PICK section \in Sections \cup {"fin"} :
        section = IF status = "100" THEN "info" ELSE "head"
  BY DEF Sections
<1> DEFINE w == Write(e, section, FALSE)
           b == Write(w, "body", FALSE)
<1>2. /\ c \in Stream /\ ~c.fin /\ ~c.failed /\ ~c.late
      /\ c.announced # NotANumber /\ c.gen = 0 /\ ~c.sent
  BY DEF CheckHeaders, Stream, Unanswered, Sound, Garbled
<1>3. /\ e \in Stream /\ ~e.fin /\ ~e.failed /\ ~e.late
      /\ e.announced # NotANumber /\ e.gen = 0
      /\ e.sent <=> status # "100"
  <2> HIDE DEF c
  <2>1. QED
    BY <1>2 DEF Stream
<1>4. /\ w \in Stream /\ ~w.fin /\ ~w.failed /\ ~w.late
      /\ w.announced # NotANumber /\ w.gen = 0
      /\ w.sent <=> status # "100"
  <2> HIDE DEF e
  <2>1. /\ w \in Stream /\ ~w.fin /\ w.sent = e.sent /\ w.failed = e.failed
        /\ w.late = e.late /\ w.gen = e.gen /\ w.announced = e.announced
    BY <1>3, WriteMoreFacts
  <2> HIDE DEF w
  <2>2. QED
    BY <1>3, <2>1
<1>5. /\ b \in Stream /\ ~b.fin /\ ~b.failed /\ ~b.late
      /\ b.announced # NotANumber /\ b.gen = 0
      /\ b.sent <=> status # "100"
  <2> HIDE DEF w
  <2>1. "body" \in Sections \cup {"fin"}
    BY DEF Sections
  <2>2. /\ b \in Stream /\ ~b.fin /\ b.sent = w.sent /\ b.failed = w.failed
        /\ b.late = w.late /\ b.gen = w.gen /\ b.announced = w.announced
    BY <1>4, <2>1, WriteMoreFacts
  <2> HIDE DEF b
  <2>3. QED
    BY <1>4, <2>2
<1>6. SendIncompleteResponse(s, TRUE, status, hasBody) = IF hasBody THEN b ELSE w
  BY <1>1 DEF SendIncompleteResponse
<1>7. QED
  <2> HIDE DEF b, w
  <2>1. PICK t \in Stream : t = IF hasBody THEN b ELSE w
    BY <1>4, <1>5
  <2>2. /\ ~t.fin /\ ~t.failed /\ ~t.late
        /\ t.announced # NotANumber /\ t.gen = 0
        /\ t.sent <=> status # "100"
    BY <1>4, <1>5, <2>1
  <2>3. IF status = "100" THEN Unanswered(t) ELSE Streaming(t)
    BY <2>2 DEF Unanswered, Streaming, Sound, Garbled
  <2>4. QED
    BY <1>6, <2>1, <2>3

(* More of a streamed response leaves the stream without FIN.              *)
LEMMA SendMoreFacts ==
  ASSUME NEW s \in Stream, Streaming(s), NEW hasBody \in BOOLEAN
  PROVE  LET t == SendIncompleteResponse(s, FALSE, "final", hasBody)
         IN  Streaming(t) /\ t.stopped = s.stopped
<1> DEFINE d == CheckHeaders(s, FALSE)
           b == Write(d, "body", FALSE)
<1>1. d \in Stream /\ Streaming(d) /\ d.stopped = s.stopped
  BY DEF CheckHeaders, Stream, Streaming, Sound, Garbled
<1>2. Streaming(b) /\ b.stopped = d.stopped
  <2> HIDE DEF d
  <2>1. "body" \in Sections \cup {"fin"}
    BY DEF Sections
  <2>2. /\ Sound(b) /\ b.sent /\ b.gen = 0 /\ b.stopped = d.stopped /\ ~b.fin
        /\ b.announced # NotANumber
    BY <1>1, <2>1, SendBodyFacts
  <2>3. QED
    BY <2>2 DEF Streaming, Garbled
<1>3. SendIncompleteResponse(s, FALSE, "final", hasBody) = IF hasBody THEN b ELSE d
  BY DEF SendIncompleteResponse
<1>4. QED
  <2> HIDE DEF b, d
  <2>1. QED
    BY <1>1, <1>2, <1>3

(* WriteGeneratedBytes writes nothing after the FIN of a generated         *)
(* response, which goes out with the last byte.                            *)
LEMMA GeneratedFacts ==
  ASSUME NEW s \in Stream, Sound(s), NEW chunks \in Nat
  PROVE  LET t == WriteGeneratedBytes(s, chunks)
         IN  Sound(t) /\ t.stopped = s.stopped /\ t.sent = s.sent
<1> DEFINE n == IF chunks * ChunkSize < s.gen THEN chunks * ChunkSize ELSE s.gen
<1>1. n \in Nat /\ n <= s.gen /\ s.gen \in Nat
  BY SizesAssumption DEF Stream
<1>2. PICK last \in BOOLEAN : last = (n = s.gen)
  OBVIOUS
<1>k. PICK k : k = IF Writable(s) THEN s.bytes + n ELSE s.bytes
  OBVIOUS
<1> DEFINE w == Write(s, "body", last)
           g == [w EXCEPT !.gen = s.gen - n, !.bytes = k]
<1>3. WriteGeneratedBytes(s, chunks) = IF n = 0 THEN s ELSE g
  BY <1>2, <1>k, Zenon DEF WriteGeneratedBytes
<1> HIDE DEF n
<1>4. CASE n = 0
  BY <1>3, <1>4
<1>5. ASSUME n # 0
      PROVE  Sound(g) /\ g.stopped = s.stopped /\ g.sent = s.sent
  <2>1. /\ s.sent /\ ~s.failed
        /\ ~Garbled(s) => ~s.fin /\ ~s.late
    BY <1>1, <1>5 DEF Sound
  <2>2. "body" \in Sections \cup {"fin"}
    BY DEF Sections
  <2>3. /\ w \in Stream /\ w.sent = s.sent /\ w.failed = s.failed
        /\ w.announced = s.announced /\ w.stopped = s.stopped
        /\ ~s.fin => w.late = s.late /\ (w.fin => last)
    BY <2>2, WriteFacts
  <2> HIDE DEF w
  <2>4. /\ g.sent = s.sent /\ g.failed = s.failed
        /\ g.announced = s.announced /\ g.stopped = s.stopped
        /\ ~s.fin => g.late = s.late /\ (g.fin => last)
        /\ g.gen = s.gen - n
    BY <2>3 DEF Stream
  <2> HIDE DEF g
  <2>5. last => g.gen = 0
    <3>1. last => n = s.gen
      BY <1>2, Zenon
    <3>2. n = s.gen => s.gen - n = 0
      BY <1>1
    <3>3. QED
      BY <2>4, <3>1, <3>2
  <2>6. QED
    BY <2>1, <2>4, <2>5 DEF Sound, Garbled
<1>6. QED
  <2> HIDE DEF g
  <2>1. QED
    BY <1>3, <1>4, <1>5

(* A generated response to a stream without one keeps it sound.            *)
LEMMA SendGeneratedFacts ==
  ASSUME NEW s \in Stream, Unanswered(s), NEW path \in Paths,
         NEW chunks \in Nat
  PROVE  Sound(SendGeneratedResponse(s, path, chunks))
<1> DEFINE w == Write(s, "head", FALSE)
           g == [w EXCEPT !.failed = @ \/ s.sent, !.sent = TRUE,
                          !.gen = path.value, !.announced = path.value]
           e == SendNotFoundResponse(s)
<1>1. path.number \in BOOLEAN /\ path.value \in Nat
  BY SizesAssumption
<1>2. CASE ~path.number
  <2>1. e \in Stream /\ Sound(e) /\ e.sent
    BY SendErrorType, SendErrorFacts
  <2> HIDE DEF e
  <2>2. Sound([e EXCEPT !.gen = path.value, !.announced = NotANumber])
    BY <1>1, <2>1 DEF Stream, Sound, Garbled
  <2>3. QED
    BY <1>2, <2>2 DEF SendGeneratedResponse, e
<1>3. CASE path.number
  <2>1. "head" \in Sections \cup {"fin"}
    BY DEF Sections
  <2>2. ~s.fin /\ ~s.sent /\ ~s.failed /\ ~s.late /\ s.announced # NotANumber
    BY DEF Unanswered, Sound, Garbled
  <2>3. w \in Stream /\ ~w.fin /\ w.failed = s.failed /\ w.late = s.late
    BY <2>1, <2>2, WriteMoreFacts
  <2>4. g \in Stream /\ Sound(g)
    <3> HIDE DEF w
    <3>1. QED
      BY <1>1, <2>2, <2>3 DEF Stream, Sound, Garbled
  <2>5. SendGeneratedResponse(s, path, chunks) = WriteGeneratedBytes(g, chunks)
    BY <1>3, Zenon DEF SendGeneratedResponse
  <2>6. QED
    <3> HIDE DEF g
    <3>1. QED
      BY <2>4, <2>5, GeneratedFacts
<1>4. QED
  BY <1>1, <1>2, <1>3

(* Whatever the backend answers to an unanswered stream leaves it sound,   *)
(* and in the state that what the backend still owes requires.             *)
LEMMA RespondFacts ==
  ASSUME NEW s \in Stream, Unanswered(s), NEW r \in Response, r.type # "NULL",
         NEW path \in Paths, NEW chunks \in Nat
  PROVE  LET t == Respond(s, r, path, chunks)
         IN  /\ Sound(t)
             /\ Owed(r) = "answer" => Unanswered(t)
             /\ Owed(r) = "stream" => Streaming(t)
<1> DEFINE h == IF r.hints THEN Write(s, "info", FALSE) ELSE s
           t == Respond(s, r, path, chunks)
<1>1. h \in Stream /\ Unanswered(h)
  <2>1. "info" \in Sections \cup {"fin"}
    BY DEF Sections
  <2>2. LET w == Write(s, "info", FALSE) IN w \in Stream /\ Unanswered(w)
    BY <2>1, WriteMoreFacts DEF Unanswered, Sound, Garbled
  <2>3. QED
    BY <2>2
<1>2. t = CASE r.type = "CLOSE_CONNECTION" -> [h EXCEPT !.side = "gone"]
            [] r.type = "IGNORE"           -> h
            [] r.type = "BACKEND_ERR"      -> SendErrorResponse(h)
            [] r.type \in {"REGULAR", "INCOMPLETE", "GENERATE_BYTES"} ->
                 IF r.status = "bad" THEN SendErrorResponse(h)
                 ELSE IF r.type = "INCOMPLETE"
                   THEN SendIncompleteResponse(h, TRUE, r.status, r.body)
                 ELSE IF r.type = "GENERATE_BYTES"
                   THEN SendGeneratedResponse(h, path, chunks)
                 ELSE SendHeadersAndBodyAndTrailers(h, TRUE, r.body, r.trailers)
  BY Zenon DEF Respond
<1> HIDE DEF h, t
<1>3. CASE r.type = "CLOSE_CONNECTION"
  <2>1. Sound([h EXCEPT !.side = "gone"])
    BY <1>1 DEF Stream, Unanswered, Sound, Garbled
  <2>2. QED
    BY <1>2, <1>3, <2>1 DEF t, Owed
<1>4. CASE r.type = "IGNORE"
  BY <1>1, <1>2, <1>4 DEF t, Owed, Unanswered, Garbled
<1>5. CASE r.type = "BACKEND_ERR"
  BY <1>1, <1>2, <1>5, SendErrorFacts DEF t, Owed
<1>6. CASE r.type \in {"REGULAR", "INCOMPLETE", "GENERATE_BYTES"}
  <2>1. CASE r.status = "bad"
    BY <1>1, <1>2, <1>6, <2>1, SendErrorFacts DEF t, Owed
  <2>2. CASE r.status # "bad" /\ r.type = "INCOMPLETE"
    <3>1. t = SendIncompleteResponse(h, TRUE, r.status, r.body)
      BY <1>2, <2>2
    <3>2. r.body \in BOOLEAN
      BY DEF Response
    <3>3. IF r.status = "100" THEN Unanswered(t) ELSE Streaming(t)
      BY <1>1, <3>1, <3>2, SendIncompleteFacts
    <3>4. QED
      BY <2>2, <3>3 DEF t, Owed, Unanswered, Streaming, Garbled
  <2>3. CASE r.status # "bad" /\ r.type = "GENERATE_BYTES"
    <3>1. t = SendGeneratedResponse(h, path, chunks)
      BY <1>2, <2>3
    <3>2. QED
      BY <1>1, <2>3, <3>1, SendGeneratedFacts DEF t, Owed
  <2>4. CASE r.status # "bad" /\ r.type = "REGULAR"
    <3>1. t = SendHeadersAndBodyAndTrailers(h, TRUE, r.body, r.trailers)
      BY <1>2, <2>4
    <3>2. r.body \in BOOLEAN /\ r.trailers \in BOOLEAN
      BY DEF Response
    <3>3. Sound(t)
      BY <1>1, <3>1, <3>2, SendAllFacts
    <3>4. QED
      BY <2>4, <3>3 DEF t, Owed
  <2>5. QED
    BY <1>6, <2>1, <2>2, <2>3, <2>4
<1>7. QED
  BY <1>3, <1>4, <1>5, <1>6 DEF Response, ResponseTypes

(* The answer of a backend, given while the stream s is unanswered.        *)
LEMMA RespondWithFacts ==
  ASSUME NEW s \in Stream, Unanswered(s),
         NEW r \in Responses \cup ConnectResponses, r.type # "NULL",
         RespondWith(s, r)
  PROVE  /\ stream' \in Stream /\ Sound(stream')
         /\ asked' = "answer" => Unanswered(stream')
         /\ asked' = "stream" => Streaming(stream')
<1>1. r \in Response
  BY ResponsesAssumption
<1>2. PICK path \in Paths : \E chunks \in 0..(path.value + 1) :
        stream' = Respond(s, r, path, chunks)
  BY DEF RespondWith
<1>3. PICK chunks \in 0..(path.value + 1) : stream' = Respond(s, r, path, chunks)
  BY <1>2
<1>4. chunks \in Nat
  OBVIOUS
<1>5. asked' = Owed(r)
  BY DEF RespondWith
<1>6. QED
  BY <1>1, <1>3, <1>4, <1>5, RespondType, RespondFacts

(* The answer of the backend, or the alarm of a delayed one, keeps what    *)
(* the invariant says of pending answers.                                  *)
LEMMA BackendCompleteFacts ==
  ASSUME NEW s \in Stream, Unanswered(s),
         NEW r \in Responses \cup ConnectResponses,
         alarm = NoAnswer, OnResponseBackendComplete(s, r)
  PROVE  /\ Sound(stream')
         /\ asked' = "answer" => Unanswered(stream') /\ alarm' = NoAnswer
         /\ asked' = "stream" => Streaming(stream') /\ alarm' = NoAnswer
         /\ alarm' # NoAnswer => Unanswered(stream')
<1>1. CASE stream' = SendNotFoundResponse(s) /\ asked' = "no" /\ UNCHANGED alarm
  BY <1>1, SendErrorFacts
<1>2. CASE r.type # "NULL" /\ RespondWith(s, r) /\ UNCHANGED alarm
  BY <1>2, RespondWithFacts
<1>3. CASE stream' = s /\ alarm' = r /\ asked' = "no"
  BY <1>3 DEF Unanswered, Garbled
<1>4. QED
  BY <1>1, <1>2, <1>3 DEF OnResponseBackendComplete

(* Asking the backend keeps it as well, whether it answers at once or not. *)
LEMMA AskFacts ==
  ASSUME NEW s \in Stream, Unanswered(s),
         NEW answers, answers \subseteq Responses \cup ConnectResponses,
         alarm = NoAnswer, Ask(s, answers)
  PROVE  /\ Sound(stream')
         /\ asked' = "answer" => Unanswered(stream') /\ alarm' = NoAnswer
         /\ asked' = "stream" => Streaming(stream') /\ alarm' = NoAnswer
         /\ alarm' # NoAnswer => Unanswered(stream')
<1>1. CASE \E r \in answers : OnResponseBackendComplete(s, r)
  BY <1>1, BackendCompleteFacts
<1>2. CASE stream' = s /\ asked' = "answer" /\ UNCHANGED alarm
  BY <1>2 DEF Unanswered, Garbled
<1>3. QED
  BY <1>1, <1>2 DEF Ask

(* The end of an ordinary request, with the stream unanswered.             *)
LEMMA SendResponseFacts ==
  ASSUME stream \in Stream, Unanswered(stream), asked = "no", alarm = NoAnswer,
         NEW q, NEW size, SendResponse(q, size)
  PROVE  /\ Sound(stream')
         /\ asked' = "answer" => Unanswered(stream') /\ alarm' = NoAnswer
         /\ asked' = "stream" => Streaming(stream') /\ alarm' = NoAnswer
         /\ alarm' # NoAnswer => Unanswered(stream')
<1>1. CASE stream' = SendErrorResponse(stream) /\ UNCHANGED <<asked, alarm, fetched>>
  BY <1>1, SendErrorFacts
<1>2. CASE Ask(stream, Responses)
  BY <1>2, AskFacts
<1>3. QED
  BY <1>1, <1>2 DEF SendResponse, FetchResponseFromBackend

(* The control invariant is inductive.                                     *)
LEMMA ControlStep == ControlInv /\ TypeOK' /\ [Next]_vars => ControlInv'
<1> SUFFICES ASSUME TypeOK, TypeOK', Overlong \/ Control, [Next]_vars
             PROVE  (Overlong \/ Control)'
  BY DEF ControlInv
<1>t. /\ stream \in Stream /\ body \in Nat /\ rcvd \in Nat /\ eof \in BOOLEAN
      /\ req \in [method : Methods, clen : Nat \cup {NoLength}, target : BOOLEAN]
  BY DEF TypeOK
<1>l. Regions \cup {0} \subseteq Nat
  BY SizesAssumption
<1>f. ASSUME Fresh, ~Overlong
      PROVE  /\ Unanswered(stream) /\ stream.wire = <<>>
             /\ asked = "no" /\ alarm = NoAnswer
  BY <1>f DEF Fresh, Control
<1>g. ASSUME Reading, req.method = "GET", ~Overlong
      PROVE  Unanswered(stream) /\ asked = "no" /\ alarm = NoAnswer
  BY <1>g DEF Reading, Control
<1>o. Fresh => ~Overlong
  BY DEF Fresh, Overlong
<1>1. CASE InvalidHeaders
  <2>1. Unanswered(stream) /\ asked = "no" /\ alarm = NoAnswer
    BY <1>1, <1>f, <1>o DEF InvalidHeaders
  <2>2. req.method = "none"
    BY <1>1 DEF InvalidHeaders, Fresh
  <2>3. QED
    BY <1>1, <1>t, <2>1, <2>2, SendErrorFacts DEF InvalidHeaders, Control
<1>2. ASSUME NEW target \in BOOLEAN, NEW clen \in ContentLengths,
             RequestHeaders(target, clen)
      PROVE  Control'
  <2>1. Unanswered(stream) /\ asked = "no" /\ alarm = NoAnswer
    BY <1>2, <1>f, <1>o DEF RequestHeaders
  <2>2. QED
    BY <1>2, <2>1 DEF RequestHeaders, Control, Unanswered, Garbled
<1>3. ASSUME NEW target \in BOOLEAN, NEW clen \in ContentLengths,
             RequestHeadersAndFin(target, clen)
      PROVE  Control'
  <2>1. Unanswered(stream) /\ asked = "no" /\ alarm = NoAnswer
    BY <1>3, <1>f, <1>o DEF RequestHeadersAndFin
  <2>2. req'.method = "GET" /\ eof'
    BY <1>3 DEF RequestHeadersAndFin
  <2>3. CASE SendResponse(req', 0)
    BY <2>1, <2>2, <2>3, <1>t, SendResponseFacts DEF Control
  <2>4. CASE UNCHANGED <<stream, asked, alarm, fetched>>
    BY <2>1, <2>2, <2>4 DEF Control, Unanswered, Garbled
  <2>5. QED
    BY <1>3, <2>3, <2>4 DEF RequestHeadersAndFin
<1>4. ASSUME NEW clen \in ConnectLengths, ConnectHeaders(clen)
      PROVE  Control'
  <2>1. Unanswered(stream) /\ asked = "no" /\ alarm = NoAnswer
    BY <1>4, <1>f, <1>o DEF ConnectHeaders
  <2>2. req'.method = "CONNECT" /\ Ask(stream, ConnectResponses)
    BY <1>4 DEF ConnectHeaders, HandleConnectHeaders
  <2>3. QED
    BY <2>1, <2>2, <1>t, AskFacts DEF Control
<1>5. ASSUME NEW clen \in ConnectLengths, ConnectHeadersAndFin(clen)
      PROVE  Control'
  <2>1. Unanswered(stream) /\ asked = "no" /\ alarm = NoAnswer
    BY <1>5, <1>f, <1>o DEF ConnectHeadersAndFin
  <2>2. PICK s \in Stream : /\ Unanswered(s)
                            /\ Ask(s, ConnectResponses)
    <3>1. LET s == IF Writable(stream) THEN HandleConnectData(stream) ELSE stream
          IN  s \in Stream /\ Unanswered(s)
      BY <1>t, <2>1, ResetFacts DEF HandleConnectData, Unanswered, Sound, Garbled
    <3>2. QED
      BY <1>5, <3>1 DEF ConnectHeadersAndFin, HandleConnectHeaders
  <2>3. req'.method = "CONNECT"
    BY <1>5 DEF ConnectHeadersAndFin
  <2>4. QED
    BY <2>1, <2>2, <2>3, AskFacts DEF Control
<1>6. ASSUME NEW accepted \in BOOLEAN, WebTransportHeaders(accepted)
      PROVE  Control'
  <2>1. Unanswered(stream) /\ asked = "no" /\ alarm = NoAnswer
    BY <1>6, <1>f, <1>o DEF WebTransportHeaders
  <2>2. PICK last \in BOOLEAN : last = ~accepted
    OBVIOUS
  <2>3. stream' = Write(stream, "head", last)
    BY <1>6, <2>2 DEF WebTransportHeaders
  <2>4. "head" \in Sections \cup {"fin"}
    BY DEF Sections
  <2>5. ~stream.fin /\ ~stream.failed /\ ~stream.late /\ stream.gen = 0
    BY <1>t, <2>1 DEF Unanswered, Sound, Stream, Garbled
  <2>6. ~stream'.failed /\ ~stream'.late /\ stream'.gen = 0
    BY <1>t, <2>3, <2>4, <2>5, WriteFacts
  <2>7. stream'.fin => last
    BY <1>t, <2>3, <2>4, <2>5, WriteFacts
  <2>8. req'.method = "WT" /\ req'.target = accepted
    BY <1>6 DEF WebTransportHeaders
  <2>9. req'.target => ~stream'.fin
    BY <2>2, <2>7, <2>8
  <2>10. QED
    BY <1>6, <2>1, <2>6, <2>8, <2>9 DEF WebTransportHeaders, Control
<1>7. ASSUME NEW accepted \in BOOLEAN, WebTransportHeadersAndFin(accepted)
      PROVE  Control'
  <2>1. /\ Unanswered(stream) /\ stream.wire = <<>>
        /\ asked = "no" /\ alarm = NoAnswer
    BY <1>7, <1>f, <1>o DEF WebTransportHeadersAndFin
  <2>2. ~stream.fin /\ ~stream.failed /\ stream.gen = 0
    BY <1>t, <2>1 DEF Unanswered, Sound, Stream, Garbled
  <2>3. /\ EndSession(stream) \in Stream
        /\ ~EndSession(stream).failed /\ EndSession(stream).gen = 0
        /\ EndSession(stream).wire = <<>>
        /\ EndSession(stream).fin \/ EndSession(stream).side # "open"
    <3>1. EndSession(stream) \in Stream
      BY <1>t, WriteFacts DEF EndSession
    <3>2. QED
      BY <3>1, <1>t, <2>1, <2>2 DEF EndSession, Write, Extend, Stream
  <2>4. PICK last \in BOOLEAN : last = ~accepted
    OBVIOUS
  <2>5. stream' = Write(EndSession(stream), "head", last)
    BY <1>7, <2>4 DEF WebTransportHeadersAndFin
  <2>6. ~stream'.failed /\ stream'.gen = 0 /\ stream'.wire = <<>>
    BY <2>3, <2>5 DEF Write, Stream
  <2>7. req'.method = "WT" /\ eof'
    BY <1>7 DEF WebTransportHeadersAndFin
  <2>8. QED
    BY <1>7, <2>1, <2>6, <2>7 DEF WebTransportHeadersAndFin, Control
<1>n. ASSUME NEW n \in Regions \cup {0}, Receive(n), ~TooLong(body + n)
      PROVE  ~Overlong
  <2>1. body \in Nat /\ n \in Nat /\ req.clen \in Int
    BY <1>t, <1>l DEF NoLength
  <2>2. req.clen >= 0 => ~(body + n > req.clen)
    BY <1>n DEF TooLong
  <2>3. req.clen >= 0 => ~(body > req.clen)
    BY <2>1, <2>2
  <2>4. QED
    BY <2>3 DEF Overlong, TooLong
<1>8. ASSUME NEW n \in Regions, BodyTooLong(n)
      PROVE  (Overlong \/ Control)'
  <2>1. CASE req.method = "CONNECT"
    BY <1>8, <2>1 DEF BodyTooLong, Receive, Overlong, TooLong
  <2>2. CASE req.method = "GET"
    <3>1. Reading /\ ~Overlong
      BY <1>8, <2>2 DEF BodyTooLong, Receive, Overlong
    <3>2. Unanswered(stream) /\ asked = "no" /\ alarm = NoAnswer
      BY <3>1, <2>2, <1>g
    <3>3. Sound(stream') /\ stream'.stopped
      BY <1>8, <3>2, <1>t, SendErrorFacts DEF BodyTooLong
    <3>4. QED
      BY <1>8, <2>2, <3>2, <3>3 DEF BodyTooLong, Receive, Control
  <2>3. QED
    BY <1>8, <2>1, <2>2 DEF BodyTooLong, Receive, Reading
<1>9. ASSUME NEW n \in Regions, BodyAvailable(n)
      PROVE  Control'
  <2>1. Unanswered(stream) /\ asked = "no" /\ alarm = NoAnswer
    BY <1>9, <1>g, <1>n DEF BodyAvailable, Receive
  <2>2. QED
    BY <1>9, <2>1 DEF BodyAvailable, Receive, Control, Unanswered, Garbled
<1>10. ASSUME NEW s \in Stream, Control, req.method = "CONNECT",
              stream' = s, UNCHANGED <<req, asked, alarm>>,
              s = stream \/ s = Reset(stream)
       PROVE  Control'
  <2>1. /\ s.sent = stream.sent /\ s.failed = stream.failed /\ s.gen = stream.gen
        /\ s.late = stream.late /\ s.fin = stream.fin
        /\ s.announced = stream.announced
    BY <1>10, <1>t, ResetFacts
  <2>2. QED
    BY <1>10, <2>1 DEF Control, Sound, Unanswered, Streaming, Garbled
<1>11. ASSUME NEW n \in Regions, ConnectDataAvailable(n)
       PROVE  Control'
  <2>1. Control /\ req.method = "CONNECT" /\ UNCHANGED <<req, asked, alarm>>
    BY <1>11, <1>n DEF ConnectDataAvailable, Receive
  <2>2. stream' = stream \/ stream' = Reset(stream)
    BY <1>11 DEF ConnectDataAvailable, HandleConnectData
  <2>3. stream' \in Stream
    BY DEF TypeOK
  <2>4. QED
    BY <2>1, <2>2, <2>3, <1>10
<1>12. ASSUME NEW n \in Regions \cup {0}, BodyComplete(n)
       PROVE  Control'
  <2>1. Unanswered(stream) /\ asked = "no" /\ alarm = NoAnswer
    BY <1>12, <1>g, <1>n DEF BodyComplete, Receive
  <2>2. req'.method = "GET" /\ eof'
    BY <1>12 DEF BodyComplete, Receive
  <2>3. CASE SendResponse(req, body + n)
    BY <2>1, <2>2, <2>3, <1>t, SendResponseFacts DEF Control
  <2>4. CASE UNCHANGED <<stream, asked, alarm, fetched>>
    BY <2>1, <2>2, <2>4 DEF Control, Unanswered, Garbled
  <2>5. QED
    BY <1>12, <2>3, <2>4 DEF BodyComplete
<1>13. ASSUME NEW n \in Regions \cup {0}, ConnectDataComplete(n)
       PROVE  Control'
  <2>1. Control /\ req.method = "CONNECT" /\ UNCHANGED <<req, asked, alarm>>
    BY <1>13, <1>n DEF ConnectDataComplete, Receive
  <2>2. stream' = stream \/ stream' = Reset(stream)
    BY <1>13 DEF ConnectDataComplete, HandleConnectData
  <2>3. stream' \in Stream
    BY DEF TypeOK
  <2>4. QED
    BY <2>1, <2>2, <2>3, <1>10
<1>14. CASE WebTransportFin
  <2>1. Control /\ req.method = "WT" /\ ~eof
    BY <1>14 DEF WebTransportFin, Overlong
  <2>2. /\ ~stream.failed /\ ~stream.late /\ stream.gen = 0
        /\ asked = "no" /\ alarm = NoAnswer
        /\ req.target => ~stream.fin
    BY <2>1, <1>t DEF Control, Stream
  <2>3. stream \in Stream /\ stream' = Write(stream, "fin", TRUE)
    BY <1>14, <1>t DEF WebTransportFin, EndSession
  <2>4. /\ ~stream'.failed /\ stream'.gen = 0
        /\ req.target => ~stream'.late
    BY <2>2, <2>3, WriteFacts
  <2>5. QED
    BY <1>14, <2>1, <2>2, <2>4 DEF WebTransportFin, Control
(* The remaining actions leave the request and its body alone.             *)
<1>u. ASSUME Overlong, UNCHANGED <<req, body>>
      PROVE  Overlong'
  BY <1>u DEF Overlong, TooLong
<1>15. ASSUME NEW r \in Responses \cup ConnectResponses, BackendResponds(r),
              Control
       PROVE  Control'
  <2>1. /\ req.method \notin {"WT", "none"} /\ (req.method = "GET" => eof)
        /\ Unanswered(stream) /\ alarm = NoAnswer
    BY <1>15, <1>t DEF BackendResponds, Control, Methods
  <2>2. OnResponseBackendComplete(stream, r) /\ UNCHANGED <<req, eof>>
    BY <1>15 DEF BackendResponds
  <2>3. QED
    BY <2>1, <2>2, <1>t, BackendCompleteFacts DEF Control
<1>16. ASSUME NEW closeStream \in BOOLEAN, NEW data \in BOOLEAN,
              SendStreamData(closeStream, data), Control
       PROVE  Control'
  <2>1. /\ req.method \notin {"WT", "none"} /\ (req.method = "GET" => eof)
        /\ Streaming(stream) /\ alarm = NoAnswer
    BY <1>16, <1>t DEF SendStreamData, Control, Methods
  <2>2. UNCHANGED <<req, eof, alarm>>
    BY <1>16 DEF SendStreamData
  <2>3. CASE closeStream
    <3>1. Sound(stream') /\ asked' = "no"
      BY <1>16, <2>1, <2>3, <1>t, SendLastFacts DEF SendStreamData
    <3>2. QED
      BY <2>1, <2>2, <3>1 DEF Control
  <2>4. CASE ~closeStream
    <3>1. Streaming(stream') /\ asked' = "stream"
      BY <1>16, <2>1, <2>4, <1>t, SendMoreFacts DEF SendStreamData
    <3>2. QED
      BY <2>1, <2>2, <3>1 DEF Control, Streaming, Garbled
  <2>5. QED
    BY <2>3, <2>4
<1>17. ASSUME Control, UNCHANGED <<req, eof>>, asked' \in {"no", asked},
              alarm' \in {NoAnswer, alarm},
              stream'.sent = stream.sent, stream'.failed = stream.failed,
              stream'.gen = stream.gen, stream'.late = stream.late,
              stream'.announced = stream.announced,
              stream'.fin = stream.fin, stream'.wire = stream.wire,
              stream.stopped => stream'.stopped
       PROVE  Control'
  BY <1>17 DEF Control, Sound, Unanswered, Streaming, Garbled
<1>18. ASSUME TerminateStreamWithError, Control
       PROVE  Control'
  BY <1>18, <1>17, <1>t, ResetFacts DEF TerminateStreamWithError
<1>19. ASSUME OnAlarm, Control
       PROVE  Control'
  <2>1. /\ req.method \notin {"WT", "none"} /\ (req.method = "GET" => eof)
        /\ Unanswered(stream)
    BY <1>19, <1>t DEF OnAlarm, Control, Methods
  <2>2. /\ RespondWith(stream, alarm) /\ alarm' = NoAnswer
        /\ UNCHANGED <<req, eof>> /\ alarm # NoAnswer
    BY <1>19 DEF OnAlarm
  <2>3. alarm \in Responses \cup ConnectResponses /\ alarm.delayed
    BY <2>2 DEF TypeOK, Delayed
  <2>4. alarm.type # "NULL"
    BY <2>3, ResponsesAssumption DEF LegalResponse
  <2>5. QED
    BY <2>1, <2>2, <2>3, <2>4, <1>t, RespondWithFacts DEF Control
<1>20. ASSUME NEW chunks \in 1..stream.gen, OnCanWrite(chunks), Control
       PROVE  Control'
  <2>1. stream.gen > 0 /\ chunks \in Nat
    BY <1>20, <1>t DEF OnCanWrite, Stream
  <2>2. /\ req.method \notin {"WT"} /\ Sound(stream) /\ stream.sent
        /\ asked = "no" /\ alarm = NoAnswer
    BY <1>20, <2>1, <1>t DEF Control, Sound, Unanswered, Streaming, TypeOK, Garbled
  <2>3. /\ req.method = "none" => stream.stopped
        /\ req.method = "GET" /\ ~eof => stream.stopped
    BY <1>20, <2>2 DEF Control, Unanswered, Garbled
  <2>4. Sound(stream') /\ stream'.stopped = stream.stopped
    BY <1>20, <2>1, <2>2, <1>t, GeneratedFacts DEF OnCanWrite
  <2>5. QED
    BY <1>20, <2>2, <2>3, <2>4 DEF OnCanWrite, Control
<1>21. ASSUME PeerStopSending, Control
       PROVE  Control'
  BY <1>21, <1>17, <1>t, ResetFacts DEF PeerStopSending
<1>22. ASSUME PeerResetStream, Control
       PROVE  Control'
  BY <1>22, <1>17, <1>t DEF PeerResetStream, Stream
<1>23. ASSUME Destroy, Control
       PROVE  Control'
  BY <1>23, <1>17, <1>t DEF Destroy, Stream
<1>24. ASSUME UNCHANGED vars, Control
       PROVE  Control'
  BY <1>24, <1>17 DEF vars
<1>25. CASE Backend \/ OnAlarm \/ PeerStopSending \/ PeerResetStream \/ Destroy
            \/ UNCHANGED vars \/ \E chunks \in 1..stream.gen : OnCanWrite(chunks)
  <2>1. UNCHANGED <<req, body>>
    BY <1>25 DEF Backend, BackendResponds, SendStreamData, TerminateStreamWithError,
                 OnAlarm, PeerStopSending, PeerResetStream, Destroy, vars, OnCanWrite
  <2>2. CASE Overlong
    BY <2>1, <2>2, <1>u
  <2>3. CASE Control
    BY <1>25, <2>3, <1>15, <1>16, <1>18, <1>19, <1>20, <1>21, <1>22, <1>23, <1>24
    DEF Backend
  <2>4. QED
    BY <2>2, <2>3
<1>26. QED
  BY <1>1, <1>2, <1>3, <1>4, <1>5, <1>6, <1>7, <1>8, <1>9, <1>11, <1>12, <1>13,
     <1>14, <1>25
  DEF Next, Headers, Body

(* The control invariant holds in every reachable state.                   *)
LEMMA ControlInvariant == Spec => []ControlInv
<1>1. Init => ControlInv
  <2>1. Init => TypeOK
    BY InitTypeOK
  <2>2. Init => Control
    BY DEF Init, Control, Unanswered, Sound, Garbled, NotANumber
  <2>3. QED
    BY <2>1, <2>2 DEF ControlInv
<1>2. QED
  BY <1>1, TypeCorrect, ControlStep, PTL DEF Spec

(* The assertions on response_sent_ (quit_server_stream.cc:344, 422, 453)  *)
(* hold in every run, whatever the backend answers and when, unless a      *)
(* CONNECT delivers more than its content-length at once.                  *)
THEOREM ResponseStartsOnce == Spec => []OneResponse
<1>1. ControlInv => OneResponse
  BY DEF ControlInv, Control, Sound, OneResponse, Garbled
<1>2. QED
  BY <1>1, ControlInvariant, PTL

(* No handler writes after the FIN, with the exceptions that               *)
(* NothingAfterFin names.                                                  *)
THEOREM FinIsLast == Spec => []NothingAfterFin
<1>1. ControlInv => NothingAfterFin
  BY DEF ControlInv, Control, Sound, NothingAfterFin, Garbled
<1>2. QED
  BY <1>1, ControlInvariant, PTL

(* An answer that is still to come, from the backend or from the alarm,    *)
(* finds the stream in the state it needs.                                 *)
THEOREM LateAnswerWanted == Spec => []PendingAnswerWanted
<1>1. ControlInv => PendingAnswerWanted
  <2> SUFFICES ASSUME ControlInv, ~Overlong
               PROVE  PendingAnswerWanted
    BY DEF PendingAnswerWanted
  <2>1. asked \in {"no", "answer", "stream"} /\ Control
    BY DEF ControlInv, TypeOK
  <2>2. QED
    BY <2>1 DEF Control, Unanswered, Streaming, PendingAnswerWanted, Garbled
<1>2. QED
  BY <1>1, ControlInvariant, PTL

----------------------------------------------------------------------------
(* The request that reaches the backend.  Until its FIN an ordinary        *)
(* request has collected every byte delivered and has not been passed on.  *)
RequestInv ==
  /\ TypeOK
  /\ BackendGetsWholeRequest
  /\ req.method = "none" => rcvd = 0 /\ body = 0 /\ fetched = -1 /\ ~eof
  /\ req.method = "GET" /\ ~eof => body = rcvd /\ fetched = -1

(* SendResponse passes on what was collected, or nothing.                  *)
LEMMA SendResponseFetches ==
  ASSUME NEW q \in [method : Methods, clen : Nat \cup {NoLength}, target : BOOLEAN],
         NEW size \in Nat, q.clen >= 0 => size <= q.clen,
         fetched = -1, SendResponse(q, size)
  PROVE  fetched' # -1 => /\ fetched' = size
                          /\ q.clen # NoLength => fetched' = q.clen
<1>1. CASE UNCHANGED <<asked, alarm, fetched>>
  BY <1>1
<1>2. CASE ~(q.clen > 0 /\ q.clen # size) /\ FetchResponseFromBackend(size)
  BY <1>2 DEF FetchResponseFromBackend, NoLength
<1>3. QED
  BY <1>1, <1>2 DEF SendResponse

(* What is known of the request is inductive.                              *)
LEMMA RequestStep == RequestInv /\ TypeOK' /\ [Next]_vars => RequestInv'
<1> SUFFICES ASSUME RequestInv, TypeOK', [Next]_vars
             PROVE  RequestInv'
  OBVIOUS
<1>t. /\ body \in Nat /\ rcvd \in Nat /\ eof \in BOOLEAN /\ fetched \in Nat \cup {-1}
      /\ req \in [method : Methods, clen : Nat \cup {NoLength}, target : BOOLEAN]
      /\ req' \in [method : Methods, clen : Nat \cup {NoLength}, target : BOOLEAN]
  BY DEF RequestInv, TypeOK
<1>l. Regions \cup {0} \subseteq Nat
  BY SizesAssumption
<1>1. ASSUME UNCHANGED <<req, body, rcvd, eof, fetched>>
      PROVE  RequestInv'
  BY <1>1 DEF RequestInv, BackendGetsWholeRequest
<1>3. ASSUME NEW target \in BOOLEAN, NEW clen \in ContentLengths,
             RequestHeadersAndFin(target, clen)
      PROVE  RequestInv'
  <2>1. rcvd = 0 /\ body = 0 /\ fetched = -1
    BY <1>3 DEF RequestHeadersAndFin, RequestInv, Fresh
  <2>2. req'.method = "GET" /\ eof' /\ rcvd' = 0 /\ body' = 0
    BY <1>3, <2>1 DEF RequestHeadersAndFin
  <2>3. CASE SendResponse(req', 0)
    BY <1>t, <2>1, <2>2, <2>3, SendResponseFetches
    DEF RequestInv, BackendGetsWholeRequest
  <2>4. CASE UNCHANGED <<stream, asked, alarm, fetched>>
    BY <2>1, <2>2, <2>4 DEF RequestInv, BackendGetsWholeRequest
  <2>5. QED
    BY <1>3, <2>3, <2>4 DEF RequestHeadersAndFin
<1>4. ASSUME NEW n \in Regions \cup {0}, BodyComplete(n)
      PROVE  RequestInv'
  <2>1. body = rcvd /\ fetched = -1 /\ n \in Nat
    BY <1>4, <1>l DEF BodyComplete, Receive, Reading, RequestInv
  <2>2. /\ req' = req /\ req.method = "GET" /\ eof'
        /\ rcvd' = body + n /\ body' = body + n
        /\ req.clen >= 0 => ~(body + n > req.clen)
    BY <1>4, <2>1 DEF BodyComplete, Receive, TooLong
  <2>3. CASE SendResponse(req, body + n)
    <3>1. req.clen >= 0 => body + n <= req.clen
      BY <1>t, <2>1, <2>2 DEF NoLength
    <3>2. fetched' # -1 => /\ fetched' = body + n
                           /\ req.clen # NoLength => fetched' = req.clen
      BY <1>t, <2>1, <2>3, <3>1, SendResponseFetches
    <3>3. QED
      BY <2>2, <3>2 DEF RequestInv, BackendGetsWholeRequest
  <2>4. CASE UNCHANGED <<stream, asked, alarm, fetched>>
    BY <2>1, <2>2, <2>4 DEF RequestInv, BackendGetsWholeRequest
  <2>5. QED
    BY <1>4, <2>3, <2>4 DEF BodyComplete
<1>5. ASSUME NEW n \in Regions \cup {0},
             BodyTooLong(n) \/ BodyAvailable(n) \/ ConnectDataAvailable(n)
             \/ ConnectDataComplete(n)
      PROVE  RequestInv'
  <2>1. /\ Reading /\ ~eof /\ fetched = -1 /\ fetched' = fetched
        /\ req' = req /\ rcvd' = rcvd + n
    BY <1>5, <1>t DEF BodyTooLong, BodyAvailable, ConnectDataAvailable,
       ConnectDataComplete, Receive, Reading, RequestInv, BackendGetsWholeRequest
  <2>2. req.method = "GET" => body' = body + n
    BY <1>5 DEF BodyTooLong, BodyAvailable, ConnectDataAvailable, ConnectDataComplete
  <2>3. req.method # "none"
    BY <2>1 DEF Reading
  <2>4. QED
    BY <2>1, <2>2, <2>3 DEF RequestInv, BackendGetsWholeRequest
<1>6. CASE InvalidHeaders \/ Backend \/ OnAlarm \/ PeerStopSending
           \/ PeerResetStream \/ Destroy \/ UNCHANGED vars
           \/ \E chunks \in 1..stream.gen : OnCanWrite(chunks)
  <2>1. UNCHANGED <<req, body, rcvd, eof, fetched>>
    BY <1>6 DEF InvalidHeaders, Backend, BackendResponds, SendStreamData,
       TerminateStreamWithError, OnAlarm, PeerStopSending, PeerResetStream,
       Destroy, vars, OnCanWrite
  <2>2. QED
    BY <2>1, <1>1
<1>7. ASSUME NEW target \in BOOLEAN, NEW clen \in ContentLengths,
             RequestHeaders(target, clen)
      PROVE  RequestInv'
  BY <1>7 DEF RequestHeaders, Fresh, RequestInv, BackendGetsWholeRequest
<1>8. ASSUME NEW clen \in ConnectLengths,
             ConnectHeaders(clen) \/ ConnectHeadersAndFin(clen)
      PROVE  RequestInv'
  BY <1>8 DEF ConnectHeaders, ConnectHeadersAndFin, Fresh, RequestInv,
              BackendGetsWholeRequest
<1>9. ASSUME NEW accepted \in BOOLEAN,
             WebTransportHeaders(accepted) \/ WebTransportHeadersAndFin(accepted)
      PROVE  RequestInv'
  BY <1>9 DEF WebTransportHeaders, WebTransportHeadersAndFin, Fresh, RequestInv,
              BackendGetsWholeRequest
<1>10. CASE WebTransportFin
  BY <1>10 DEF WebTransportFin, RequestInv, BackendGetsWholeRequest
<1>11. QED
  BY <1>3, <1>4, <1>5, <1>6, <1>7, <1>8, <1>9, <1>10 DEF Next, Headers, Body

(* FetchResponseFromBackend never sees part of a request: what it is given *)
(* is every byte the peer sent, as many as it announced.                   *)
THEOREM WholeRequestFetched == Spec => []BackendGetsWholeRequest
<1>1. Init => RequestInv
  BY InitTypeOK DEF Init, RequestInv, BackendGetsWholeRequest
<1>2. RequestInv => BackendGetsWholeRequest
  BY DEF RequestInv
<1>3. QED
  BY <1>1, <1>2, TypeCorrect, RequestStep, PTL DEF Spec

----------------------------------------------------------------------------
(* The order of what is written.  A wire is interim until the final        *)
(* headers, and open until the trailers.                                   *)
Interim(w) == \A i \in 1..Len(w) : w[i] = "info"
NoTrailers(w) == \A i \in 1..Len(w) : w[i] # "trailers"
Ordered(w) == Http!InOrder(w)
Headed(w) == Http!Headed(w)

(* A section that may follow the last one, and needs no headers that are   *)
(* not there, keeps the order; what was headed stays so.                   *)
LEMMA ExtendOrder ==
  ASSUME NEW w \in Seq(Sections), Ordered(w), NEW section \in Sections \cup {"fin"},
         section \in {"info", "head"} => Interim(w),
         section \in {"body", "trailers"} => Headed(w) /\ NoTrailers(w)
  PROVE  LET e == Extend(w, section)
         IN  /\ e \in Seq(Sections)
             /\ Ordered(e)
             /\ section = "head" \/ Headed(w) => Headed(e)
             /\ section \in {"info", "fin"} /\ Interim(w) => Interim(e)
             /\ section # "trailers" /\ NoTrailers(w) => NoTrailers(e)
             /\ section \in {"info", "head"} => NoTrailers(e)
             /\ Len(w) <= Len(e) /\ \A i \in 1..Len(w) : e[i] = w[i]
<1>1. CASE section = "fin" \/ Continues(w, section)
  <2>1. Extend(w, section) = w
    BY <1>1 DEF Extend
  <2>2. section # "head"
    BY <1>1 DEF Continues
  <2>3. section = "info" => NoTrailers(w)
    BY DEF Interim, NoTrailers
  <2>4. QED
    BY <2>1, <2>2, <2>3 
<1>2. CASE section \in Sections /\ ~Continues(w, section)
  <2> DEFINE e == Append(w, section)
  <2>1. /\ Extend(w, section) = e /\ e \in Seq(Sections) /\ Len(w) \in Nat
        /\ Len(e) = Len(w) + 1 /\ e[Len(w) + 1] = section
        /\ \A i \in 1..Len(w) : e[i] = w[i] /\ w[i] \in Sections
    BY <1>2, AppendProperties DEF Extend, Sections
  <2> HIDE DEF e
  <2>2. \A i \in 1..Len(w) : w[i] \in Http!Before(section)
    <3>1. CASE section \in {"info", "head"}
      <4>1. section = "info" => w = <<>>
        <5>1. ASSUME w # <<>>, section = "info" PROVE FALSE
          <6>1. Len(w) \in 1..Len(w)
            BY <5>1, <2>1, EmptySeq
          <6>2. QED
            BY <1>2, <3>1, <5>1, <6>1 DEF Continues, Interim
        <5>2. QED
          BY <5>1
      <4>2. QED
        BY <3>1, <4>1 DEF Interim, Http!Before
    <3>2. CASE section = "body"
      <4>1. \A i \in 1..Len(w) : w[i] # "body"
        <5>1. ASSUME NEW i \in 1..Len(w), w[i] = "body" PROVE FALSE
          <6>1. i = Len(w) => FALSE
            BY <5>1, <1>2, <3>2, <2>1 DEF Continues
          <6>2. i < Len(w) => w[i] \in Http!Before(w[Len(w)]) /\ w[Len(w)] # "trailers"
                              /\ w[Len(w)] \in Sections
            BY <5>1, <2>1, <3>2 DEF Ordered, Http!InOrder, NoTrailers
          <6>3. i < Len(w) => FALSE
            BY <5>1, <6>2 DEF Http!Before, Sections
          <6>4. QED
            BY <6>1, <6>3, <2>1
        <5>2. QED
          BY <5>1
      <4>2. QED
        BY <4>1, <3>2, <2>1 DEF NoTrailers, Http!Before, Sections
    <3>3. CASE section = "trailers"
      BY <3>3, <2>1 DEF NoTrailers, Http!Before, Sections
    <3>4. QED
      BY <1>2, <3>1, <3>2, <3>3 DEF Sections
  <2>3. section \in {"body", "trailers"} => \E i \in 1..Len(w) : w[i] = "head"
    BY DEF Headed, Http!Headed
  <2>4. Ordered(e)
    <3> SUFFICES ASSUME NEW j \in 1..Len(e)
                 PROVE  /\ \A i \in 1..(j - 1) : e[i] \in Http!Before(e[j])
                        /\ e[j] \in {"body", "trailers"} =>
                             \E i \in 1..(j - 1) : e[i] = "head"
      BY DEF Ordered, Http!InOrder
    <3>1. CASE j = Len(w) + 1
      BY <3>1, <2>1, <2>2, <2>3
    <3>2. CASE j \in 1..Len(w)
      <4>1. e[j] = w[j] /\ \A i \in 1..(j - 1) : e[i] = w[i]
        BY <3>2, <2>1
      <4>2. QED
        BY <3>2, <4>1 DEF Ordered, Http!InOrder
    <3>3. QED
      BY <3>1, <3>2, <2>1
  <2>5. section = "head" \/ Headed(w) => Headed(e)
    BY <2>1 DEF Headed, Http!Headed
  <2>6. section = "info" /\ Interim(w) => Interim(e)
    BY <2>1 DEF Interim
  <2>7. section # "trailers" /\ NoTrailers(w) => NoTrailers(e)
    BY <2>1 DEF NoTrailers
  <2>8. section \in {"info", "head"} => NoTrailers(e)
    BY <2>1 DEF Interim, NoTrailers
  <2>9. QED
    BY <2>1, <2>4, <2>5, <2>6, <2>7, <2>8, <1>2 DEF Sections
<1>3. QED
  BY <1>1, <1>2

(* What was written and what a generated response still owes.              *)
Proper(s) ==
  /\ Ordered(s.wire)
  /\ ~s.sent => /\ Interim(s.wire) /\ ~s.fin
                /\ s.gen = 0 /\ s.bytes = 0 /\ s.announced = 0
  /\ s.sent /\ s.side = "open" => Headed(s.wire)
  /\ s.fin => Headed(s.wire)
  /\ s.side = "open" /\ ~s.fin => NoTrailers(s.wire)
  /\ s.side = "open" /\ Garbled(s) => s.fin
  /\ s.side = "open" /\ ~Garbled(s) =>
       /\ s.bytes + s.gen = s.announced
       /\ s.announced > 0 => (s.fin <=> s.gen = 0)

(* A response that is under way and was not generated.                     *)
Flowing(s) == Proper(s) /\ s.sent /\ ~s.fin /\ s.announced = 0 /\ s.bytes = 0 /\ s.gen = 0

(* How t may follow s: nothing is taken back, nothing follows the end or a *)
(* reset.                                                                  *)
Follows(t, s) ==
  /\ Http!Extends(t.wire, s.wire)
  /\ s.fin => t.fin
  /\ s.side # "open" => t.side # "open"
  /\ s.stopped => t.stopped
  /\ s.fin \/ s.side # "open" => t.wire = s.wire /\ t.fin = s.fin

(* Following is transitive and ignores the fields it does not name.        *)
LEMMA FollowsTrans ==
  ASSUME NEW s \in Stream, NEW t \in Stream, NEW u \in Stream,
         Follows(t, s), Follows(u, t)
  PROVE  Follows(u, s)
<1>1. /\ Len(s.wire) \in Nat /\ Len(t.wire) \in Nat /\ Len(u.wire) \in Nat
      /\ s.fin \in BOOLEAN /\ t.fin \in BOOLEAN /\ u.fin \in BOOLEAN
  BY DEF Stream
<1>2. Http!Extends(u.wire, s.wire)
  BY <1>1 DEF Follows, Http!Extends
<1>3. QED
  BY <1>1, <1>2 DEF Follows

(* What is not touched follows itself.                                    *)
LEMMA FollowsSame ==
  ASSUME NEW s \in Stream, NEW t \in Stream,
         t.wire = s.wire, t.fin = s.fin,
         s.side # "open" => t.side # "open", s.stopped => t.stopped
  PROVE  Follows(t, s)
<1>1. Len(s.wire) \in Nat
  BY DEF Stream
<1>2. QED
  BY <1>1 DEF Follows, Http!Extends

(* Every write follows.                                                    *)
LEMMA WriteFollows ==
  ASSUME NEW s \in Stream, NEW section \in Sections \cup {"fin"},
         NEW fin \in BOOLEAN
  PROVE  /\ Write(s, section, fin) \in Stream
         /\ Follows(Write(s, section, fin), s)
<1> DEFINE w == Write(s, section, fin)
<1>1. w \in Stream /\ s.wire \in Seq(Sections) /\ Len(s.wire) \in Nat
  <2>1. w \in Stream
    BY WriteType
  <2>2. s.wire \in Seq(Sections) /\ Len(s.wire) \in Nat
    BY DEF Stream
  <2>3. QED
    BY <2>1, <2>2
<1>2. w.side = s.side /\ (s.stopped => w.stopped)
  BY <1>1 DEF Write, Stream
<1>3. CASE s.fin \/ s.side # "open"
  <2>1. w.wire = s.wire /\ w.fin = s.fin
    BY <1>3 DEF Write, Stream
  <2> HIDE DEF w
  <2>2. w \in Stream /\ Follows(w, s)
    BY <1>1, <1>2, <2>1, FollowsSame
  <2>3. QED
    BY <2>2 DEF w
<1>4. CASE ~s.fin /\ s.side = "open"
  <2>1. w.wire = Extend(s.wire, section)
    BY <1>4 DEF Write, Stream
  <2>2. Http!Extends(Extend(s.wire, section), s.wire)
    <3>1. CASE section \in Sections
      BY <1>1, <3>1, AppendProperties DEF Extend, Http!Extends
    <3>2. CASE section = "fin"
      BY <1>1, <3>2 DEF Extend, Http!Extends
    <3>3. QED
      BY <3>1, <3>2
  <2> HIDE DEF w
  <2>3. w \in Stream /\ Follows(w, s)
    BY <1>1, <1>2, <1>4, <2>1, <2>2 DEF Follows
  <2>4. QED
    BY <2>3 DEF w
<1>5. QED
  BY <1>3, <1>4

(* The check of the headers of the request writes nothing.                *)
LEMMA CheckHeadersFollows ==
  ASSUME NEW s \in Stream, NEW head \in BOOLEAN
  PROVE  CheckHeaders(s, head) \in Stream /\ Follows(CheckHeaders(s, head), s)
<1>1. /\ CheckHeaders(s, head) \in Stream
      /\ CheckHeaders(s, head).wire = s.wire /\ CheckHeaders(s, head).fin = s.fin
      /\ CheckHeaders(s, head).side = s.side
      /\ CheckHeaders(s, head).stopped = s.stopped
  BY DEF CheckHeaders, Stream
<1>2. QED
  BY <1>1, FollowsSame

(* A reset writes nothing and ends the stream.                            *)
LEMMA ResetFollows ==
  ASSUME NEW s \in Stream
  PROVE  Reset(s) \in Stream /\ Follows(Reset(s), s)
<1>1. /\ Reset(s) \in Stream /\ Reset(s).wire = s.wire /\ Reset(s).fin = s.fin
      /\ s.side # "open" => Reset(s).side # "open"
      /\ Reset(s).stopped = s.stopped
  BY ResetType DEF Reset, Stream
<1>2. QED
  BY <1>1, FollowsSame

(* A whole response, or the end of one, follows.                           *)
LEMMA SendAllFollows ==
  ASSUME NEW s \in Stream, NEW head \in BOOLEAN, NEW hasBody \in BOOLEAN,
         NEW trailers \in BOOLEAN
  PROVE  LET t == SendHeadersAndBodyAndTrailers(s, head, hasBody, trailers)
         IN  t \in Stream /\ Follows(t, s)
<1>1. PICK only \in BOOLEAN, last \in BOOLEAN, section \in Sections \cup {"fin"} :
        /\ only = (~hasBody /\ ~trailers)
        /\ last = ~trailers
        /\ section = IF hasBody THEN "body" ELSE "fin"
  BY DEF Sections
<1> DEFINE c == CheckHeaders(s, head)
           w == Write(c, "head", only)
           h == IF head THEN [w EXCEPT !.sent = TRUE] ELSE c
           b == IF hasBody \/ ~trailers THEN Write(h, section, last) ELSE h
           e == Write(b, "trailers", TRUE)
<1>2. c \in Stream /\ Follows(c, s)
  BY CheckHeadersFollows
<1>3. h \in Stream /\ Follows(h, s)
  <2> HIDE DEF c
  <2>1. w \in Stream /\ Follows(w, c)
    BY <1>2, WriteFollows DEF Sections
  <2>2. w \in Stream /\ Follows(w, s)
    BY <1>2, <2>1, FollowsTrans
  <2> HIDE DEF w
  <2>3. LET v == [w EXCEPT !.sent = TRUE]
        IN  v \in Stream /\ v.wire = w.wire /\ v.fin = w.fin /\ v.side = w.side /\ (w.stopped => v.stopped)
    BY <2>2 DEF Stream
  <2>4. [w EXCEPT !.sent = TRUE] \in Stream /\ Follows([w EXCEPT !.sent = TRUE], w)
    BY <2>2, <2>3, FollowsSame
  <2>5. Follows([w EXCEPT !.sent = TRUE], s)
    BY <2>2, <2>4, FollowsTrans
  <2>6. QED
    BY <1>2, <2>4, <2>5
<1>4. b \in Stream /\ Follows(b, s)
  <2> HIDE DEF h
  <2>1. Write(h, section, last) \in Stream /\ Follows(Write(h, section, last), h)
    BY <1>3, WriteFollows
  <2>2. Follows(Write(h, section, last), s)
    BY <1>3, <2>1, FollowsTrans
  <2>3. QED
    BY <1>3, <2>1, <2>2
<1>5. e \in Stream /\ Follows(e, s)
  <2> HIDE DEF b
  <2>1. e \in Stream /\ Follows(e, b)
    BY <1>4, WriteFollows DEF Sections
  <2> HIDE DEF e
  <2>2. QED
    BY <1>4, <2>1, FollowsTrans
<1>6. SendHeadersAndBodyAndTrailers(s, head, hasBody, trailers) =
        IF head /\ only THEN h ELSE IF trailers THEN e ELSE b
  <2>1. CASE hasBody = TRUE /\ trailers = TRUE
    BY <1>1, <2>1 DEF SendHeadersAndBodyAndTrailers
  <2>2. CASE hasBody = TRUE /\ trailers = FALSE
    BY <1>1, <2>2 DEF SendHeadersAndBodyAndTrailers
  <2>3. CASE hasBody = FALSE /\ trailers = TRUE
    BY <1>1, <2>3 DEF SendHeadersAndBodyAndTrailers
  <2>4. CASE hasBody = FALSE /\ trailers = FALSE
    BY <1>1, <2>4 DEF SendHeadersAndBodyAndTrailers
  <2>5. QED
    BY <2>1, <2>2, <2>3, <2>4
<1>7. QED
  <2> HIDE DEF h, b, e
  <2>1. QED
    BY <1>3, <1>4, <1>5, <1>6

(* So does a part of an incomplete one.                                    *)
LEMMA SendIncompleteFollows ==
  ASSUME NEW s \in Stream, NEW head \in BOOLEAN, NEW status, NEW hasBody \in BOOLEAN
  PROVE  LET t == SendIncompleteResponse(s, head, status, hasBody)
         IN  t \in Stream /\ Follows(t, s)
<1>1. PICK section \in Sections \cup {"fin"}, interim \in BOOLEAN :
        /\ section = IF status = "100" THEN "info" ELSE "head"
        /\ interim = (status = "100")
  BY DEF Sections
<1> DEFINE c == CheckHeaders(s, head)
           d == [c EXCEPT !.sent = @ \/ status # "100"]
           w == Write(d, section, FALSE)
           h == IF head THEN w ELSE c
           b == Write(h, "body", FALSE)
<1>2. c \in Stream /\ Follows(c, s)
  BY CheckHeadersFollows
<1>3. h \in Stream /\ Follows(h, s)
  <2> HIDE DEF c
  <2>1. d \in Stream /\ d.wire = c.wire /\ d.fin = c.fin /\ d.side = c.side /\ (c.stopped => d.stopped)
    BY <1>2 DEF Stream
  <2> HIDE DEF d
  <2>2. Follows(d, c)
    BY <1>2, <2>1, FollowsSame
  <2>3. Follows(d, s)
    BY <1>2, <2>1, <2>2, FollowsTrans
  <2>4. w \in Stream /\ Follows(w, d)
    BY <2>1, WriteFollows
  <2> HIDE DEF w
  <2>5. Follows(w, s)
    BY <2>1, <2>3, <2>4, FollowsTrans
  <2>6. QED
    BY <1>2, <2>4, <2>5
<1>4. b \in Stream /\ Follows(b, s)
  <2> HIDE DEF h
  <2>1. b \in Stream /\ Follows(b, h)
    BY <1>3, WriteFollows DEF Sections
  <2> HIDE DEF b
  <2>2. QED
    BY <1>3, <2>1, FollowsTrans
<1>5. SendIncompleteResponse(s, head, status, hasBody) = IF hasBody THEN b ELSE h
  BY <1>1 DEF SendIncompleteResponse
<1>6. QED
  <2> HIDE DEF h, b
  <2>1. QED
    BY <1>3, <1>4, <1>5

(* And an error response.                                                  *)
LEMMA SendErrorFollows ==
  ASSUME NEW s \in Stream
  PROVE  /\ SendErrorResponse(s) \in Stream /\ Follows(SendErrorResponse(s), s)
         /\ SendNotFoundResponse(s) \in Stream /\ Follows(SendNotFoundResponse(s), s)
<1> DEFINE d == [s EXCEPT !.stopped = TRUE]
<1>1. d \in Stream /\ d.wire = s.wire /\ d.fin = s.fin /\ d.side = s.side /\ (s.stopped => d.stopped)
  BY DEF Stream
<1>2. SendErrorResponse(s) = SendHeadersAndBodyAndTrailers(d, TRUE, TRUE, FALSE)
  BY DEF SendErrorResponse
<1> HIDE DEF d
<1>3. Follows(d, s)
  BY <1>1, FollowsSame
<1>4. SendErrorResponse(s) \in Stream /\ Follows(SendErrorResponse(s), d)
  BY <1>1, <1>2, SendAllFollows
<1>5. SendNotFoundResponse(s) \in Stream /\ Follows(SendNotFoundResponse(s), s)
  BY SendAllFollows DEF SendNotFoundResponse
<1>6. QED
  BY <1>1, <1>3, <1>4, <1>5, FollowsTrans

(* And generated bytes.                                                    *)
LEMMA GeneratedFollows ==
  ASSUME NEW s \in Stream, NEW chunks \in Nat
  PROVE  LET t == WriteGeneratedBytes(s, chunks)
         IN  t \in Stream /\ Follows(t, s)
<1>1. PICK last \in BOOLEAN, n \in Nat, k \in Nat :
        /\ n = IF chunks * ChunkSize < s.gen THEN chunks * ChunkSize ELSE s.gen
        /\ last = (n = s.gen)
        /\ k = IF Writable(s) THEN s.bytes + n ELSE s.bytes
        /\ s.gen - n \in Nat
  <2> DEFINE n == IF chunks * ChunkSize < s.gen THEN chunks * ChunkSize ELSE s.gen
  <2>1. n \in Nat /\ s.gen - n \in Nat
    BY SizesAssumption DEF Stream
  <2> HIDE DEF n
  <2>2. (IF Writable(s) THEN s.bytes + n ELSE s.bytes) \in Nat
    BY <2>1 DEF Stream
  <2>3. (n = s.gen) \in BOOLEAN
    OBVIOUS
  <2>4. QED
    BY <2>1, <2>2, <2>3 DEF n
<1> DEFINE w == Write(s, "body", last)
           t == [w EXCEPT !.gen = s.gen - n, !.bytes = k]
<1>2. w \in Stream /\ Follows(w, s)
  BY WriteFollows DEF Sections
<1>3. t \in Stream /\ Follows(t, s)
  <2> HIDE DEF w
  <2>1. t \in Stream /\ t.wire = w.wire /\ t.fin = w.fin /\ t.side = w.side /\ (w.stopped => t.stopped)
    BY <1>1, <1>2 DEF Stream
  <2> HIDE DEF t
  <2>2. Follows(t, w)
    BY <1>2, <2>1, FollowsSame
  <2>3. QED
    BY <1>2, <2>1, <2>2, FollowsTrans
<1>4. WriteGeneratedBytes(s, chunks) = IF n = 0 THEN s ELSE t
  BY <1>1, Zenon DEF WriteGeneratedBytes
<1>5. Follows(s, s)
  BY FollowsSame
<1>6. QED
  <2> HIDE DEF t
  <2>1. QED
    BY <1>3, <1>4, <1>5

(* And the start of a generated response.                                  *)
LEMMA SendGeneratedFollows ==
  ASSUME NEW s \in Stream, NEW path \in Paths, NEW chunks \in Nat
  PROVE  LET t == SendGeneratedResponse(s, path, chunks)
         IN  t \in Stream /\ Follows(t, s)
<1> DEFINE w == Write(s, "head", FALSE)
           g == [w EXCEPT !.failed = @ \/ s.sent, !.sent = TRUE,
                          !.gen = path.value, !.announced = path.value]
           e == SendNotFoundResponse(s)
           d == [e EXCEPT !.gen = path.value, !.announced = NotANumber]
<1>1. path.number \in BOOLEAN /\ path.value \in Nat
  BY SizesAssumption
<1>2. CASE ~path.number
  <2>1. e \in Stream /\ Follows(e, s)
    BY SendErrorFollows
  <2>2. SendGeneratedResponse(s, path, chunks) = d
    BY <1>2 DEF SendGeneratedResponse
  <2> HIDE DEF e
  <2>3. d \in Stream /\ d.wire = e.wire /\ d.fin = e.fin /\ d.side = e.side /\ (e.stopped => d.stopped)
    BY <1>1, <2>1 DEF Stream
  <2> HIDE DEF d
  <2>4. Follows(d, e)
    BY <2>1, <2>3, FollowsSame
  <2>5. QED
    BY <2>1, <2>2, <2>3, <2>4, FollowsTrans
<1>3. CASE path.number
  <2>1. w \in Stream /\ Follows(w, s)
    BY WriteFollows DEF Sections
  <2>2. SendGeneratedResponse(s, path, chunks) = WriteGeneratedBytes(g, chunks)
    BY <1>3, Zenon DEF SendGeneratedResponse
  <2> HIDE DEF w
  <2>3. g \in Stream /\ g.wire = w.wire /\ g.fin = w.fin /\ g.side = w.side /\ (w.stopped => g.stopped)
    BY <1>1, <2>1 DEF Stream
  <2> HIDE DEF g
  <2>4. Follows(g, w)
    BY <2>1, <2>3, FollowsSame
  <2>5. Follows(g, s)
    BY <2>1, <2>3, <2>4, FollowsTrans
  <2>6. WriteGeneratedBytes(g, chunks) \in Stream /\ Follows(WriteGeneratedBytes(g, chunks), g)
    BY <2>3, GeneratedFollows
  <2>7. QED
    BY <2>2, <2>3, <2>5, <2>6, FollowsTrans
<1>4. QED
  BY <1>1, <1>2, <1>3

(* Whatever the backend answers follows.                                   *)
LEMMA RespondFollows ==
  ASSUME NEW s \in Stream, NEW r \in Response, r.type # "NULL",
         NEW path \in Paths, NEW chunks \in Nat
  PROVE  LET t == Respond(s, r, path, chunks)
         IN  t \in Stream /\ Follows(t, s)
<1> DEFINE h == IF r.hints THEN Write(s, "info", FALSE) ELSE s
           gone == [h EXCEPT !.side = "gone"]
           t == Respond(s, r, path, chunks)
<1>1. h \in Stream /\ Follows(h, s)
  BY WriteFollows, FollowsSame DEF Sections
<1>2. t = CASE r.type = "CLOSE_CONNECTION" -> gone
            [] r.type = "IGNORE"           -> h
            [] r.type = "BACKEND_ERR"      -> SendErrorResponse(h)
            [] r.type \in {"REGULAR", "INCOMPLETE", "GENERATE_BYTES"} ->
                 IF r.status = "bad" THEN SendErrorResponse(h)
                 ELSE IF r.type = "INCOMPLETE"
                   THEN SendIncompleteResponse(h, TRUE, r.status, r.body)
                 ELSE IF r.type = "GENERATE_BYTES"
                   THEN SendGeneratedResponse(h, path, chunks)
                 ELSE SendHeadersAndBodyAndTrailers(h, TRUE, r.body, r.trailers)
  BY Zenon DEF Respond
<1> HIDE DEF h
<1>3. gone \in Stream /\ Follows(gone, h)
  <2>1. gone \in Stream /\ gone.wire = h.wire /\ gone.fin = h.fin /\ gone.side = "gone"
        /\ gone.stopped = h.stopped
    BY <1>1 DEF Stream
  <2>2. QED
    BY <1>1, <2>1, FollowsSame
<1>4. SendErrorResponse(h) \in Stream /\ Follows(SendErrorResponse(h), h)
  BY <1>1, SendErrorFollows
<1>5. LET u == SendIncompleteResponse(h, TRUE, r.status, r.body)
      IN  u \in Stream /\ Follows(u, h)
  BY <1>1, SendIncompleteFollows DEF Response
<1>6. LET u == SendGeneratedResponse(h, path, chunks)
      IN  u \in Stream /\ Follows(u, h)
  BY <1>1, SendGeneratedFollows
<1>7. LET u == SendHeadersAndBodyAndTrailers(h, TRUE, r.body, r.trailers)
      IN  u \in Stream /\ Follows(u, h)
  BY <1>1, SendAllFollows DEF Response
<1>8. r.type \in {"REGULAR", "INCOMPLETE", "GENERATE_BYTES",
                  "CLOSE_CONNECTION", "IGNORE", "BACKEND_ERR"}
  BY DEF Response, ResponseTypes
<1>9. Follows(h, h)
  BY <1>1, FollowsSame
<1> HIDE DEF t, gone
<1>10. t \in Stream /\ Follows(t, h)
  BY <1>1, <1>2, <1>3, <1>4, <1>5, <1>6, <1>7, <1>8, <1>9
<1>11. t \in Stream /\ Follows(t, s)
  BY <1>1, <1>10, FollowsTrans
<1>12. QED
  BY <1>11 DEF t

(* Whatever the backend answers extends the response.                     *)
LEMMA RespondWithFollows ==
  ASSUME NEW s \in Stream, NEW r \in Responses \cup ConnectResponses,
         r.type # "NULL", RespondWith(s, r)
  PROVE  stream' \in Stream /\ Follows(stream', s)
<1>1. r \in Response
  BY ResponsesAssumption
<1>2. PICK path \in Paths : \E chunks \in 0..(path.value + 1) :
        stream' = Respond(s, r, path, chunks)
  BY DEF RespondWith
<1>3. PICK chunks \in 0..(path.value + 1) : stream' = Respond(s, r, path, chunks)
  BY <1>2
<1>4. chunks \in Nat
  OBVIOUS
<1>5. QED
  BY <1>1, <1>3, <1>4, RespondFollows

(* Asking the backend extends the response.                               *)
LEMMA AskFollows ==
  ASSUME NEW s \in Stream,
         \/ \E r \in Responses \cup ConnectResponses : OnResponseBackendComplete(s, r)
         \/ \E answers \in SUBSET (Responses \cup ConnectResponses) : Ask(s, answers)
  PROVE  stream' \in Stream /\ Follows(stream', s)
<1>1. ASSUME NEW r \in Responses \cup ConnectResponses, OnResponseBackendComplete(s, r)
      PROVE  stream' \in Stream /\ Follows(stream', s)
  BY <1>1, SendErrorFollows, RespondWithFollows, FollowsSame DEF OnResponseBackendComplete
<1>2. QED
  BY <1>1, FollowsSame DEF Ask

(* Every step of the stream follows: nothing is taken back.                *)
LEMMA StepFollows ==
  ASSUME TypeOK, TypeOK', [Next]_vars
  PROVE  Follows(stream', stream)
<1>t. stream \in Stream /\ stream' \in Stream
  BY DEF TypeOK
<1>s. stream' = stream => Follows(stream', stream)
  BY <1>t, FollowsSame
<1>a. ASSUME NEW answers \in SUBSET (Responses \cup ConnectResponses), Ask(stream, answers)
      PROVE  Follows(stream', stream)
  BY <1>a, <1>t, AskFollows
<1>e. stream' = SendErrorResponse(stream) => Follows(stream', stream)
  BY <1>t, SendErrorFollows
<1>r. ASSUME NEW q, NEW size, SendResponse(q, size)
      PROVE  Follows(stream', stream)
  BY <1>r, <1>e, <1>a DEF SendResponse, FetchResponseFromBackend
<1>1. CASE Headers
  <2>1. CASE InvalidHeaders
    BY <2>1, <1>e DEF InvalidHeaders
  <2>2. ASSUME NEW target \in BOOLEAN, NEW clen \in ContentLengths,
               RequestHeaders(target, clen) \/ RequestHeadersAndFin(target, clen)
        PROVE  Follows(stream', stream)
    BY <2>2, <1>s, <1>r DEF RequestHeaders, RequestHeadersAndFin
  <2>3. ASSUME NEW clen \in ConnectLengths, ConnectHeaders(clen)
        PROVE  Follows(stream', stream)
    BY <2>3, <1>a DEF ConnectHeaders, HandleConnectHeaders
  <2>4. ASSUME NEW clen \in ConnectLengths, ConnectHeadersAndFin(clen)
        PROVE  Follows(stream', stream)
    <3> DEFINE s == IF Writable(stream) THEN HandleConnectData(stream) ELSE stream
    <3>1. s \in Stream /\ Follows(s, stream)
      BY <1>t, ResetFollows, FollowsSame DEF HandleConnectData
    <3>2. Ask(s, ConnectResponses)
      BY <2>4 DEF ConnectHeadersAndFin, HandleConnectHeaders
    <3> HIDE DEF s
    <3>3. Follows(stream', s)
      BY <3>1, <3>2, AskFollows
    <3>4. QED
      BY <1>t, <3>1, <3>3, FollowsTrans
  <2>5. ASSUME NEW accepted \in BOOLEAN,
               WebTransportHeaders(accepted) \/ WebTransportHeadersAndFin(accepted)
        PROVE  Follows(stream', stream)
    <3>1. PICK last \in BOOLEAN : last = ~accepted
      OBVIOUS
    <3>2. EndSession(stream) \in Stream /\ Follows(EndSession(stream), stream)
      BY <1>t, WriteFollows DEF EndSession
    <3>3. CASE stream' = Write(stream, "head", last)
      BY <1>t, <3>3, WriteFollows DEF Sections
    <3>4. CASE stream' = Write(EndSession(stream), "head", last)
      <4>1. Follows(stream', EndSession(stream))
        BY <3>2, <3>4, WriteFollows DEF Sections
      <4>2. QED
        BY <1>t, <3>2, <4>1, FollowsTrans
    <3>5. QED
      BY <2>5, <3>1, <3>3, <3>4 DEF WebTransportHeaders, WebTransportHeadersAndFin
  <2>6. QED
    BY <1>1, <2>1, <2>2, <2>3, <2>4, <2>5 DEF Headers
<1>2. CASE Body
  <2>1. ASSUME NEW n \in Regions \cup {0},
               \/ BodyTooLong(n) \/ BodyAvailable(n) \/ ConnectDataAvailable(n)
               \/ BodyComplete(n) \/ ConnectDataComplete(n)
        PROVE  Follows(stream', stream)
    <3>1. CASE stream' = HandleConnectData(stream)
      BY <3>1, <1>t, <1>s, ResetFollows DEF HandleConnectData
    <3>2. QED
      BY <2>1, <3>1, <1>s, <1>e, <1>r
      DEF BodyTooLong, BodyAvailable, ConnectDataAvailable, BodyComplete, ConnectDataComplete
  <2>2. CASE WebTransportFin
    BY <2>2, <1>t, WriteFollows DEF WebTransportFin, EndSession
  <2>3. QED
    BY <1>2, <2>1, <2>2 DEF Body
<1>3. CASE Backend
  <2>1. ASSUME NEW r \in Responses \cup ConnectResponses, BackendResponds(r)
        PROVE  Follows(stream', stream)
    BY <2>1, <1>t, AskFollows DEF BackendResponds
  <2>2. ASSUME NEW closeStream \in BOOLEAN, NEW data \in BOOLEAN,
               SendStreamData(closeStream, data)
        PROVE  Follows(stream', stream)
    BY <2>2, <1>t, SendAllFollows, SendIncompleteFollows DEF SendStreamData
  <2>3. CASE TerminateStreamWithError
    BY <2>3, <1>t, ResetFollows DEF TerminateStreamWithError
  <2>4. QED
    BY <1>3, <2>1, <2>2, <2>3 DEF Backend
<1>4. CASE OnAlarm
  <2>1. alarm \in Responses \cup ConnectResponses /\ alarm.delayed
    BY <1>4 DEF OnAlarm, TypeOK, Delayed
  <2>2. alarm.type # "NULL"
    BY <2>1, ResponsesAssumption DEF LegalResponse
  <2>3. QED
    BY <1>4, <1>t, <2>1, <2>2, RespondWithFollows DEF OnAlarm
<1>5. ASSUME NEW chunks \in 1..stream.gen, OnCanWrite(chunks)
      PROVE  Follows(stream', stream)
  <2>1. chunks \in Nat
    BY <1>t DEF Stream
  <2>2. QED
    BY <1>5, <1>t, <2>1, GeneratedFollows DEF OnCanWrite
<1>6. CASE PeerStopSending
  BY <1>6, <1>t, ResetFollows DEF PeerStopSending
<1>7. CASE PeerResetStream \/ Destroy
  <2>1. /\ stream'.wire = stream.wire /\ stream'.fin = stream.fin
        /\ stream.side # "open" => stream'.side # "open"
        /\ stream.stopped => stream'.stopped
    BY <1>7, <1>t DEF PeerResetStream, Destroy, Stream
  <2>2. QED
    BY <1>t, <2>1, FollowsSame
<1>8. CASE UNCHANGED vars
  BY <1>8, <1>s DEF vars
<1>9. QED
  BY <1>1, <1>2, <1>3, <1>4, <1>5, <1>6, <1>7, <1>8 DEF Next

----------------------------------------------------------------------------
(* Proper looks at some fields only.                                       *)
LEMMA ProperSame ==
  ASSUME NEW s \in Stream, NEW t \in Stream,
         t.wire = s.wire, t.fin = s.fin, t.sent = s.sent,
         t.gen = s.gen, t.announced = s.announced, t.bytes = s.bytes,
         t.side = s.side \/ t.side # "open"
  PROVE  /\ Proper(s) => Proper(t)
         /\ Flowing(s) => Flowing(t)
BY DEF Proper, Flowing, Garbled

(* What a write does to the fields that count.                             *)
LEMMA WriteEffect ==
  ASSUME NEW s \in Stream, ~s.fin, NEW section \in Sections \cup {"fin"},
         NEW fin \in BOOLEAN
  PROVE  LET w == Write(s, section, fin)
         IN  /\ w \in Stream
             /\ w.sent = s.sent /\ w.gen = s.gen /\ w.announced = s.announced
             /\ w.bytes = s.bytes /\ w.side = s.side /\ w.stopped = s.stopped
             /\ IF s.side = "open"
                  THEN w.wire = Extend(s.wire, section) /\ w.fin = fin
                  ELSE w.wire = s.wire /\ ~w.fin
<1>1. Write(s, section, fin) \in Stream
  BY WriteType
<1>2. QED
  BY <1>1 DEF Write, Stream

(* Interim headers on a stream that is unanswered.                         *)
LEMMA InfoProper ==
  ASSUME NEW s \in Stream, Proper(s), ~s.sent
  PROVE  LET w == Write(s, "info", FALSE)
         IN  w \in Stream /\ Proper(w) /\ ~w.sent
<1> DEFINE w == Write(s, "info", FALSE)
           e == Extend(s.wire, "info")
<1>1. ~s.fin /\ Ordered(s.wire) /\ Interim(s.wire) /\ s.wire \in Seq(Sections)
  <2>1. s.wire \in Seq(Sections)
    BY DEF Stream
  <2>2. QED
    BY <2>1 DEF Proper
<1>2. "info" \in Sections \cup {"fin"}
  BY DEF Sections
<1>3. Ordered(e) /\ Interim(e) /\ NoTrailers(e)
  BY <1>1, <1>2, ExtendOrder
<1>4. /\ w \in Stream
      /\ w.sent = s.sent /\ w.gen = s.gen /\ w.announced = s.announced
      /\ w.bytes = s.bytes /\ w.side = s.side
      /\ IF s.side = "open" THEN w.wire = e /\ ~w.fin ELSE w.wire = s.wire /\ ~w.fin
  BY <1>1, <1>2, WriteEffect
<1> HIDE DEF w, e
<1>5. w \in Stream /\ Proper(w) /\ ~w.sent
  BY <1>1, <1>3, <1>4 DEF Proper, Garbled
<1>6. QED
  BY <1>5 DEF w

(* The final headers: what is under way after them.                        *)
LEMMA HeadProper ==
  ASSUME NEW s \in Stream, Proper(s), ~s.sent, NEW fin \in BOOLEAN
  PROVE  LET w == Write(s, "head", fin)
         IN  /\ w \in Stream /\ Ordered(w.wire)
             /\ w.gen = 0 /\ w.announced = 0 /\ w.bytes = 0 /\ w.side = s.side
             /\ w.side = "open" => Headed(w.wire) /\ NoTrailers(w.wire) /\ w.fin = fin
             /\ w.side # "open" => ~w.fin
<1> DEFINE w == Write(s, "head", fin)
           e == Extend(s.wire, "head")
<1>1. ~s.fin /\ Ordered(s.wire) /\ Interim(s.wire) /\ s.wire \in Seq(Sections)
  <2>1. s.wire \in Seq(Sections)
    BY DEF Stream
  <2>2. QED
    BY <2>1 DEF Proper
<1>2. "head" \in Sections \cup {"fin"}
  BY DEF Sections
<1>3. Ordered(e) /\ Headed(e) /\ NoTrailers(e)
  BY <1>1, <1>2, ExtendOrder
<1>4. /\ w \in Stream
      /\ w.sent = s.sent /\ w.gen = s.gen /\ w.announced = s.announced
      /\ w.bytes = s.bytes /\ w.side = s.side
      /\ IF s.side = "open" THEN w.wire = e /\ w.fin = fin ELSE w.wire = s.wire /\ ~w.fin
  BY <1>1, <1>2, WriteEffect
<1>5. s.gen = 0 /\ s.announced = 0 /\ s.bytes = 0
  BY DEF Proper
<1> HIDE DEF w, e
<1>6. /\ w \in Stream /\ Ordered(w.wire)
      /\ w.gen = 0 /\ w.announced = 0 /\ w.bytes = 0 /\ w.side = s.side
      /\ w.side = "open" => Headed(w.wire) /\ NoTrailers(w.wire) /\ w.fin = fin
      /\ w.side # "open" => ~w.fin
  BY <1>1, <1>3, <1>4, <1>5
<1>7. QED
  BY <1>6 DEF w

(* More of a response that flows, or its end.                              *)
LEMMA MoreProper ==
  ASSUME NEW s \in Stream, Flowing(s), NEW section \in {"body", "trailers", "fin"},
         NEW fin \in BOOLEAN, section = "trailers" => fin
  PROVE  LET w == Write(s, section, fin)
         IN  /\ w \in Stream /\ Proper(w) /\ w.sent
             /\ w.gen = 0 /\ w.announced = 0 /\ w.bytes = 0 /\ w.side = s.side
             /\ w.side = "open" => w.fin = fin
             /\ ~fin => Flowing(w)
<1> DEFINE w == Write(s, section, fin)
           e == Extend(s.wire, section)
<1>1. /\ ~s.fin /\ s.sent /\ Ordered(s.wire) /\ s.wire \in Seq(Sections)
      /\ s.side = "open" => Headed(s.wire) /\ NoTrailers(s.wire)
      /\ s.gen = 0 /\ s.announced = 0 /\ s.bytes = 0
  <2>1. s.wire \in Seq(Sections)
    BY DEF Stream
  <2>2. QED
    BY <2>1 DEF Proper, Flowing
<1>2. section \in Sections \cup {"fin"}
  BY DEF Sections
<1>3. s.side = "open" =>
        Ordered(e) /\ Headed(e) /\ (section # "trailers" => NoTrailers(e))
  BY <1>1, <1>2, ExtendOrder
<1>4. /\ w \in Stream
      /\ w.sent = s.sent /\ w.gen = s.gen /\ w.announced = s.announced
      /\ w.bytes = s.bytes /\ w.side = s.side
      /\ IF s.side = "open" THEN w.wire = e /\ w.fin = fin ELSE w.wire = s.wire /\ ~w.fin
  BY <1>1, <1>2, WriteEffect
<1> HIDE DEF w, e
<1>5. Proper(w)
  BY <1>1, <1>3, <1>4 DEF Proper, Garbled, NotANumber
<1>6. /\ w \in Stream /\ Proper(w) /\ w.sent
      /\ w.gen = 0 /\ w.announced = 0 /\ w.bytes = 0 /\ w.side = s.side
      /\ w.side = "open" => w.fin = fin
      /\ ~fin => Flowing(w)
  BY <1>1, <1>4, <1>5 DEF Flowing
<1>7. QED
  BY <1>6 DEF w

(* Final headers, marked as sent.                                          *)
LEMMA SentHeadProper ==
  ASSUME NEW s \in Stream, Proper(s), ~s.sent, NEW fin \in BOOLEAN
  PROVE  LET h == [Write(CheckHeaders(s, TRUE), "head", fin) EXCEPT !.sent = TRUE]
         IN  /\ h \in Stream /\ Proper(h) /\ h.sent
             /\ h.gen = 0 /\ h.announced = 0 /\ h.bytes = 0 /\ h.side = s.side
             /\ h.side = "open" => h.fin = fin
             /\ ~fin => Flowing(h)
<1> DEFINE c == CheckHeaders(s, TRUE)
           w == Write(c, "head", fin)
           h == [w EXCEPT !.sent = TRUE]
<1>1. c \in Stream /\ Proper(c) /\ ~c.sent /\ c.side = s.side
  <2>1. /\ c \in Stream /\ c.wire = s.wire /\ c.fin = s.fin /\ c.sent = s.sent
        /\ c.gen = s.gen /\ c.announced = s.announced /\ c.bytes = s.bytes
        /\ c.side = s.side
    BY CheckHeadersType DEF CheckHeaders, Stream
  <2> HIDE DEF c
  <2>2. QED
    BY <2>1, ProperSame
<1> HIDE DEF c
<1>2. /\ w \in Stream /\ Ordered(w.wire)
      /\ w.gen = 0 /\ w.announced = 0 /\ w.bytes = 0 /\ w.side = c.side
      /\ w.side = "open" => Headed(w.wire) /\ NoTrailers(w.wire) /\ w.fin = fin
      /\ w.side # "open" => ~w.fin
  BY <1>1, HeadProper
<1> HIDE DEF w
<1>3. /\ h \in Stream /\ h.sent /\ h.wire = w.wire /\ h.fin = w.fin
      /\ h.gen = w.gen /\ h.announced = w.announced /\ h.bytes = w.bytes
      /\ h.side = w.side
  BY <1>2 DEF Stream
<1> HIDE DEF h
<1>4. /\ h \in Stream /\ Proper(h) /\ h.sent
      /\ h.gen = 0 /\ h.announced = 0 /\ h.bytes = 0 /\ h.side = s.side
      /\ h.side = "open" => h.fin = fin
      /\ ~fin => Flowing(h)
  BY <1>1, <1>2, <1>3 DEF Proper, Flowing, Garbled, NotANumber
<1>5. QED
  BY <1>4 DEF h, w, c

(* A whole response is in order, and ended unless the stream was reset.    *)
LEMMA SendAllProper ==
  ASSUME NEW s \in Stream, Proper(s), ~s.sent,
         NEW hasBody \in BOOLEAN, NEW trailers \in BOOLEAN
  PROVE  LET t == SendHeadersAndBodyAndTrailers(s, TRUE, hasBody, trailers)
         IN  /\ t \in Stream /\ Proper(t) /\ t.sent
             /\ t.gen = 0 /\ t.bytes = 0
             /\ t.side = "open" => t.fin
<1>1. PICK only \in BOOLEAN, last \in BOOLEAN, section \in {"body", "fin"} :
        /\ only = (~hasBody /\ ~trailers)
        /\ last = ~trailers
        /\ section = IF hasBody THEN "body" ELSE "fin"
  OBVIOUS
<1> DEFINE h == [Write(CheckHeaders(s, TRUE), "head", only) EXCEPT !.sent = TRUE]
           b == IF hasBody \/ ~trailers THEN Write(h, section, last) ELSE h
           e == Write(b, "trailers", TRUE)
           Good(t) == /\ t \in Stream /\ Proper(t) /\ t.sent
                      /\ t.gen = 0 /\ t.bytes = 0
                      /\ t.side = "open" => t.fin
<1>2. /\ h \in Stream /\ Proper(h) /\ h.sent
      /\ h.gen = 0 /\ h.announced = 0 /\ h.bytes = 0
      /\ h.side = "open" => h.fin = only
      /\ ~only => Flowing(h)
  BY SentHeadProper
<1>3. SendHeadersAndBodyAndTrailers(s, TRUE, hasBody, trailers) =
        IF only THEN h ELSE IF trailers THEN e ELSE b
  <2>1. CASE hasBody = TRUE /\ trailers = TRUE
    BY <1>1, <2>1 DEF SendHeadersAndBodyAndTrailers
  <2>2. CASE hasBody = TRUE /\ trailers = FALSE
    BY <1>1, <2>2 DEF SendHeadersAndBodyAndTrailers
  <2>3. CASE hasBody = FALSE /\ trailers = TRUE
    BY <1>1, <2>3 DEF SendHeadersAndBodyAndTrailers
  <2>4. CASE hasBody = FALSE /\ trailers = FALSE
    BY <1>1, <2>4 DEF SendHeadersAndBodyAndTrailers
  <2>5. QED
    BY <2>1, <2>2, <2>3, <2>4
<1> HIDE DEF h
<1>4. only => Good(h)
  BY <1>2
<1>5. ~only /\ last => Good(b)
  BY <1>1, <1>2, MoreProper
<1>6. ~only /\ ~last => b \in Stream /\ Flowing(b)
  BY <1>1, <1>2, MoreProper
<1> HIDE DEF b
<1>7. ~only /\ ~last => Good(e)
  BY <1>6, MoreProper
<1> HIDE DEF e
<1>8. QED
  BY <1>1, <1>3, <1>4, <1>5, <1>7

(* The end of a response that flows.                                       *)
LEMMA SendLastProper ==
  ASSUME NEW s \in Stream, Flowing(s), NEW hasBody \in BOOLEAN
  PROVE  LET t == SendHeadersAndBodyAndTrailers(s, FALSE, hasBody, FALSE)
         IN  t \in Stream /\ Proper(t)
<1> DEFINE d == CheckHeaders(s, FALSE)
<1>1. PICK section \in {"body", "fin"} :
        section = IF hasBody THEN "body" ELSE "fin"
  OBVIOUS
<1>2. d \in Stream /\ Flowing(d)
  <2>1. /\ d \in Stream /\ d.wire = s.wire /\ d.fin = s.fin /\ d.sent = s.sent
        /\ d.gen = s.gen /\ d.announced = s.announced /\ d.bytes = s.bytes
        /\ d.side = s.side
    BY CheckHeadersType DEF CheckHeaders, Stream
  <2> HIDE DEF d
  <2>2. QED
    BY <2>1, ProperSame
<1>3. SendHeadersAndBodyAndTrailers(s, FALSE, hasBody, FALSE)
        = Write(d, section, TRUE)
  BY <1>1 DEF SendHeadersAndBodyAndTrailers
<1> HIDE DEF d
<1>4. LET t == Write(d, section, TRUE) IN t \in Stream /\ Proper(t)
  BY <1>2, MoreProper
<1>5. QED
  BY <1>3, <1>4

(* An error response.                                                      *)
LEMMA SendErrorProper ==
  ASSUME NEW s \in Stream, Proper(s), ~s.sent
  PROVE  /\ Proper(SendErrorResponse(s))
         /\ LET t == SendNotFoundResponse(s)
            IN  /\ t \in Stream /\ Proper(t) /\ t.sent
                /\ t.gen = 0 /\ t.bytes = 0
                /\ t.side = "open" => t.fin
<1> DEFINE d == [s EXCEPT !.stopped = TRUE]
<1>1. SendErrorResponse(s) = SendHeadersAndBodyAndTrailers(d, TRUE, TRUE, FALSE)
  BY DEF SendErrorResponse
<1>2. d \in Stream /\ Proper(d) /\ ~d.sent
  <2>1. /\ d \in Stream /\ d.wire = s.wire /\ d.fin = s.fin /\ d.sent = s.sent
        /\ d.gen = s.gen /\ d.announced = s.announced /\ d.bytes = s.bytes
        /\ d.side = s.side
    BY DEF Stream
  <2> HIDE DEF d
  <2>2. QED
    BY <2>1, ProperSame
<1> HIDE DEF d
<1>3. Proper(SendErrorResponse(s))
  BY <1>1, <1>2, SendAllProper
<1>4. QED
  BY <1>3, SendAllProper DEF SendNotFoundResponse

(* The start of an incomplete response: after a 100 the stream is          *)
(* unanswered, else it flows.                                              *)
LEMMA SendIncompleteProper ==
  ASSUME NEW s \in Stream, Proper(s), ~s.sent, NEW status, NEW hasBody \in BOOLEAN,
         status = "100" => ~hasBody
  PROVE  LET t == SendIncompleteResponse(s, TRUE, status, hasBody)
         IN  IF status = "100" THEN Proper(t) ELSE Flowing(t)
<1> DEFINE c == CheckHeaders(s, TRUE)
           d == [c EXCEPT !.sent = @ \/ status # "100"]
<1>1. /\ c \in Stream /\ c.wire = s.wire /\ c.fin = s.fin /\ c.sent = s.sent
      /\ c.gen = s.gen /\ c.announced = s.announced /\ c.bytes = s.bytes
      /\ c.side = s.side
  BY CheckHeadersType DEF CheckHeaders, Stream
<1>2. CASE status = "100"
  <2> DEFINE w == Write(d, "info", FALSE)
  <2>1. SendIncompleteResponse(s, TRUE, status, hasBody) = w
    BY <1>2 DEF SendIncompleteResponse
  <2> HIDE DEF c
  <2>2. /\ d \in Stream /\ d.wire = s.wire /\ d.fin = s.fin /\ d.sent = s.sent
        /\ d.gen = s.gen /\ d.announced = s.announced /\ d.bytes = s.bytes
        /\ d.side = s.side
    BY <1>1, <1>2 DEF Stream
  <2> HIDE DEF d
  <2>3. Proper(d) /\ ~d.sent
    BY <2>2, ProperSame
  <2>4. QED
    BY <1>2, <2>1, <2>2, <2>3, InfoProper
<1>3. CASE status # "100"
  <2> DEFINE w == Write(d, "head", FALSE)
             b == Write(w, "body", FALSE)
             g == [Write(c, "head", FALSE) EXCEPT !.sent = TRUE]
  <2>1. SendIncompleteResponse(s, TRUE, status, hasBody) = IF hasBody THEN b ELSE w
    BY <1>3 DEF SendIncompleteResponse
  <2>2. g \in Stream /\ Flowing(g)
    BY SentHeadProper
  <2>3. w \in Stream /\ Flowing(w)
    <3> DEFINE v == Write(c, "head", FALSE)
    <3>1. "head" \in Sections \cup {"fin"} /\ ~c.fin
      BY <1>1 DEF Sections, Proper
    <3> HIDE DEF c
    <3>2. /\ d \in Stream /\ d.wire = c.wire /\ d.fin = c.fin /\ d.sent
          /\ d.gen = c.gen /\ d.announced = c.announced /\ d.bytes = c.bytes
          /\ d.side = c.side
      BY <1>1, <1>3 DEF Stream
    <3> HIDE DEF d
    <3>3. /\ w \in Stream /\ v \in Stream
          /\ w.wire = v.wire /\ w.fin = v.fin /\ w.sent
          /\ w.gen = v.gen /\ w.announced = v.announced /\ w.bytes = v.bytes
          /\ w.side = v.side
      <4>1. /\ v \in Stream /\ v.gen = c.gen /\ v.announced = c.announced
            /\ v.bytes = c.bytes /\ v.side = c.side
            /\ IF c.side = "open" THEN v.wire = Extend(c.wire, "head") /\ ~v.fin
                                  ELSE v.wire = c.wire /\ ~v.fin
        BY <1>1, <3>1, WriteEffect
      <4>2. /\ w \in Stream /\ w.gen = d.gen /\ w.announced = d.announced
            /\ w.bytes = d.bytes /\ w.side = d.side /\ w.sent = d.sent
            /\ IF d.side = "open" THEN w.wire = Extend(d.wire, "head") /\ ~w.fin
                                  ELSE w.wire = d.wire /\ ~w.fin
        BY <3>1, <3>2, WriteEffect
      <4> HIDE DEF v, w
      <4>3. QED
        BY <3>2, <4>1, <4>2 DEF Stream
    <3> HIDE DEF v, w
    <3>4. /\ g.wire = v.wire /\ g.fin = v.fin /\ g.sent
          /\ g.gen = v.gen /\ g.announced = v.announced /\ g.bytes = v.bytes
          /\ g.side = v.side
      BY <3>3 DEF g, v, Stream
    <3> HIDE DEF g
    <3>5. QED
      BY <2>2, <3>3, <3>4, ProperSame
  <2> HIDE DEF w, g
  <2>4. Flowing(b)
    BY <2>2, <2>3, MoreProper
  <2> HIDE DEF b
  <2>5. QED
    BY <1>3, <2>1, <2>2, <2>3, <2>4
<1>4. QED
  BY <1>2, <1>3

(* More of one.                                                            *)
LEMMA SendMoreProper ==
  ASSUME NEW s \in Stream, Flowing(s), NEW hasBody \in BOOLEAN
  PROVE  Flowing(SendIncompleteResponse(s, FALSE, "final", hasBody))
<1> DEFINE d == CheckHeaders(s, FALSE)
           b == Write(d, "body", FALSE)
<1>1. d \in Stream /\ Flowing(d)
  <2>1. /\ d \in Stream /\ d.wire = s.wire /\ d.fin = s.fin /\ d.sent = s.sent
        /\ d.gen = s.gen /\ d.announced = s.announced /\ d.bytes = s.bytes
        /\ d.side = s.side
    BY CheckHeadersType DEF CheckHeaders, Stream
  <2> HIDE DEF d
  <2>2. QED
    BY <2>1, ProperSame
<1>2. SendIncompleteResponse(s, FALSE, "final", hasBody) = IF hasBody THEN b ELSE d
  BY DEF SendIncompleteResponse
<1> HIDE DEF d
<1>3. Flowing(b)
  BY <1>1, MoreProper
<1> HIDE DEF b
<1>4. QED
  BY <1>1, <1>2, <1>3

(* Generated bytes: the FIN goes out with the last of them.                *)
LEMMA GeneratedProper ==
  ASSUME NEW s \in Stream, Proper(s), Sound(s), NEW chunks \in Nat
  PROVE  Proper(WriteGeneratedBytes(s, chunks))
<1>1. PICK last \in BOOLEAN, n \in Nat, k \in Nat :
        /\ n = IF chunks * ChunkSize < s.gen THEN chunks * ChunkSize ELSE s.gen
        /\ last = (n = s.gen)
        /\ k = IF Writable(s) THEN s.bytes + n ELSE s.bytes
        /\ s.gen - n \in Nat /\ n <= s.gen
  <2> DEFINE n == IF chunks * ChunkSize < s.gen THEN chunks * ChunkSize ELSE s.gen
  <2>1. n \in Nat /\ s.gen - n \in Nat /\ n <= s.gen
    BY SizesAssumption DEF Stream
  <2> HIDE DEF n
  <2>2. (IF Writable(s) THEN s.bytes + n ELSE s.bytes) \in Nat
    BY <2>1 DEF Stream
  <2>3. (n = s.gen) \in BOOLEAN
    OBVIOUS
  <2>4. QED
    BY <2>1, <2>2, <2>3 DEF n
<1> DEFINE w == Write(s, "body", last)
           t == [w EXCEPT !.gen = s.gen - n, !.bytes = k]
           e == Extend(s.wire, "body")
<1>2. WriteGeneratedBytes(s, chunks) = IF n = 0 THEN s ELSE t
  BY <1>1, Zenon DEF WriteGeneratedBytes
<1>3. ASSUME n # 0
      PROVE  Proper(t)
  <2>1. /\ s.sent /\ s.gen \in Nat /\ s.bytes \in Nat /\ s.gen > 0
        /\ s.fin => Garbled(s)
        /\ s.wire \in Seq(Sections) /\ Ordered(s.wire)
    <3>1. s.gen \in Nat /\ s.bytes \in Nat /\ s.wire \in Seq(Sections)
      BY DEF Stream
    <3>2. QED
      BY <1>1, <1>3, <3>1 DEF Sound, Proper
  <2>2. "body" \in Sections \cup {"fin"}
    BY DEF Sections
  <2>3. w \in Stream
    BY <2>2, WriteType
  <2>4. /\ t \in Stream /\ t.wire = w.wire /\ t.fin = w.fin /\ t.sent = w.sent
        /\ t.gen = s.gen - n /\ t.bytes = k /\ t.announced = w.announced
        /\ t.side = w.side
    <3> HIDE DEF w
    <3>1. QED
      BY <1>1, <2>3 DEF Stream
  <2>5. CASE ~Writable(s)
    <3>1. /\ w.wire = s.wire /\ w.fin = s.fin /\ w.sent = s.sent
          /\ w.announced = s.announced /\ w.side = s.side
      BY <2>3, <2>5 DEF Write, Writable, Stream
    <3>2. k = s.bytes
      BY <1>1, <2>5
    <3>3. s.side = "open" => Garbled(s) /\ s.fin
      BY <2>1, <2>5 DEF Writable
    <3> HIDE DEF w, t
    <3>4. QED
      BY <2>1, <2>4, <3>1, <3>2, <3>3 DEF Proper, Garbled
  <2>6. CASE Writable(s)
    <3>1. ~s.fin /\ s.side = "open" /\ Headed(s.wire) /\ NoTrailers(s.wire) /\ ~Garbled(s)
          /\ s.bytes + s.gen = s.announced
      BY <2>1, <2>6 DEF Writable, Proper
    <3>2. Ordered(e) /\ Headed(e) /\ NoTrailers(e)
      BY <2>1, <2>2, <3>1, ExtendOrder
    <3>3. /\ w.sent = s.sent /\ w.announced = s.announced /\ w.side = s.side
          /\ w.wire = e /\ w.fin = last
      BY <2>2, <3>1, WriteEffect
    <3>4. k = s.bytes + n /\ (last <=> s.gen - n = 0)
      <4>1. last <=> n = s.gen
        BY <1>1, Zenon
      <4>2. n = s.gen <=> s.gen - n = 0
        BY <2>1
      <4>3. QED
        BY <1>1, <2>6, <4>1, <4>2
    <3> HIDE DEF w, t, e
    <3>5. t.bytes + t.gen = t.announced
      BY <2>1, <2>4, <3>1, <3>3, <3>4
    <3>6. t.fin <=> t.gen = 0
      BY <2>4, <3>3, <3>4
    <3>7. QED
      BY <2>1, <2>4, <3>1, <3>2, <3>3, <3>5, <3>6 DEF Proper, Garbled
  <2>7. QED
    BY <2>5, <2>6
<1>4. QED
  <2> HIDE DEF t
  <2>1. QED
    BY <1>2, <1>3

(* The start of a generated response, or the 404 for a path that is no     *)
(* number.                                                                 *)
LEMMA SendGeneratedProper ==
  ASSUME NEW s \in Stream, Proper(s), Unanswered(s), NEW path \in Paths,
         NEW chunks \in Nat
  PROVE  Proper(SendGeneratedResponse(s, path, chunks))
<1> DEFINE w == Write(s, "head", FALSE)
           g == [w EXCEPT !.failed = @ \/ s.sent, !.sent = TRUE,
                          !.gen = path.value, !.announced = path.value]
           e == SendNotFoundResponse(s)
           d == [e EXCEPT !.gen = path.value, !.announced = NotANumber]
<1>1. path.number \in BOOLEAN /\ path.value \in Nat /\ ~s.sent
  BY SizesAssumption DEF Unanswered
<1>2. CASE ~path.number
  <2>1. /\ e \in Stream /\ Proper(e) /\ e.sent
        /\ e.gen = 0 /\ e.bytes = 0
        /\ e.side = "open" => e.fin
    BY <1>1, SendErrorProper
  <2>2. SendGeneratedResponse(s, path, chunks) = d
    BY <1>2 DEF SendGeneratedResponse
  <2> HIDE DEF e
  <2>3. /\ d.wire = e.wire /\ d.fin = e.fin /\ d.side = e.side /\ d.sent = e.sent
        /\ d.announced = NotANumber
    BY <2>1 DEF Stream
  <2> HIDE DEF d
  <2>4. Proper(d)
    BY <2>1, <2>3 DEF Proper, Garbled
  <2>5. QED
    BY <2>2, <2>4
<1>3. CASE path.number
  <2>1. /\ w \in Stream /\ Ordered(w.wire)
        /\ w.gen = 0 /\ w.announced = 0 /\ w.bytes = 0 /\ w.side = s.side
        /\ w.side = "open" => Headed(w.wire) /\ NoTrailers(w.wire) /\ w.fin = FALSE
        /\ w.side # "open" => ~w.fin
    BY <1>1, HeadProper
  <2>2. ~s.fin /\ ~s.sent /\ ~s.failed /\ ~s.late
    BY DEF Unanswered, Sound, Garbled
  <2>3. "head" \in Sections \cup {"fin"}
    BY DEF Sections
  <2>4. ~w.fin /\ w.failed = s.failed /\ w.late = s.late
    BY <2>2, <2>3, WriteMoreFacts
  <2>5. SendGeneratedResponse(s, path, chunks) = WriteGeneratedBytes(g, chunks)
    BY <1>3, Zenon DEF SendGeneratedResponse
  <2> HIDE DEF w
  <2>6. /\ g \in Stream /\ g.wire = w.wire /\ g.fin = w.fin /\ g.side = w.side
        /\ g.sent /\ g.gen = path.value /\ g.announced = path.value /\ g.bytes = w.bytes
        /\ ~g.failed /\ g.late = w.late
    BY <1>1, <2>1, <2>2, <2>4 DEF Stream
  <2> HIDE DEF g
  <2>7. Proper(g) /\ Sound(g)
    BY <1>1, <2>1, <2>2, <2>4, <2>6 DEF Proper, Sound, Garbled, NotANumber
  <2>8. QED
    BY <2>5, <2>6, <2>7, GeneratedProper
<1>4. QED
  BY <1>1, <1>2, <1>3

(* Whatever the backend answers to an unanswered stream is in order.       *)
LEMMA RespondProper ==
  ASSUME NEW s \in Stream, Proper(s), Unanswered(s),
         NEW r \in Response, LegalResponse(r), r.type # "NULL",
         NEW path \in Paths, NEW chunks \in Nat
  PROVE  LET t == Respond(s, r, path, chunks)
         IN  Proper(t) /\ (Owed(r) = "stream" => Flowing(t))
<1> DEFINE h == IF r.hints THEN Write(s, "info", FALSE) ELSE s
           gone == [h EXCEPT !.side = "gone"]
           t == Respond(s, r, path, chunks)
<1>1. h \in Stream /\ Proper(h) /\ Unanswered(h)
  <2>1. "info" \in Sections \cup {"fin"}
    BY DEF Sections
  <2>2. LET w == Write(s, "info", FALSE) IN w \in Stream /\ Unanswered(w)
    BY <2>1, WriteMoreFacts DEF Unanswered, Sound, Garbled
  <2>3. Proper(Write(s, "info", FALSE))
    BY InfoProper DEF Unanswered
  <2>4. QED
    BY <2>2, <2>3
<1>2. t = CASE r.type = "CLOSE_CONNECTION" -> gone
            [] r.type = "IGNORE"           -> h
            [] r.type = "BACKEND_ERR"      -> SendErrorResponse(h)
            [] r.type \in {"REGULAR", "INCOMPLETE", "GENERATE_BYTES"} ->
                 IF r.status = "bad" THEN SendErrorResponse(h)
                 ELSE IF r.type = "INCOMPLETE"
                   THEN SendIncompleteResponse(h, TRUE, r.status, r.body)
                 ELSE IF r.type = "GENERATE_BYTES"
                   THEN SendGeneratedResponse(h, path, chunks)
                 ELSE SendHeadersAndBodyAndTrailers(h, TRUE, r.body, r.trailers)
  BY Zenon DEF Respond
<1> HIDE DEF h
<1>3. Proper(gone)
  <2>1. /\ gone \in Stream /\ gone.wire = h.wire /\ gone.fin = h.fin /\ gone.side = "gone"
        /\ gone.sent = h.sent /\ gone.gen = h.gen /\ gone.announced = h.announced
        /\ gone.bytes = h.bytes
    BY <1>1 DEF Stream
  <2> HIDE DEF gone
  <2>2. QED
    BY <1>1, <2>1, ProperSame
<1>4. ~h.sent
  BY <1>1 DEF Unanswered
<1>5. Proper(SendErrorResponse(h))
  BY <1>1, <1>4, SendErrorProper
<1>6. /\ r.body \in BOOLEAN /\ r.trailers \in BOOLEAN
      /\ r.status = "100" => ~r.body
      /\ r.type \in {"REGULAR", "INCOMPLETE", "GENERATE_BYTES",
                     "CLOSE_CONNECTION", "IGNORE", "BACKEND_ERR"}
  BY DEF Response, ResponseTypes, LegalResponse
<1>7. LET u == SendIncompleteResponse(h, TRUE, r.status, r.body)
      IN  IF r.status = "100" THEN Proper(u) ELSE Flowing(u)
  BY <1>1, <1>4, <1>6, SendIncompleteProper
<1>8. Proper(SendGeneratedResponse(h, path, chunks))
  BY <1>1, SendGeneratedProper
<1>9. Proper(SendHeadersAndBodyAndTrailers(h, TRUE, r.body, r.trailers))
  BY <1>1, <1>4, <1>6, SendAllProper
<1> HIDE DEF t, gone
<1>10. Proper(t)
  BY <1>1, <1>2, <1>3, <1>5, <1>6, <1>7, <1>8, <1>9 DEF Flowing
<1>11. Owed(r) = "stream" => Flowing(t)
  BY <1>2, <1>6, <1>7 DEF Owed
<1>12. QED
  BY <1>10, <1>11 DEF t

(* The answer of the backend, at once, from the alarm, or asked for.       *)
LEMMA RespondWithProper ==
  ASSUME NEW s \in Stream, Proper(s), Unanswered(s),
         NEW r \in Responses \cup ConnectResponses, r.type # "NULL",
         RespondWith(s, r)
  PROVE  Proper(stream') /\ (asked' = "stream" => Flowing(stream'))
<1>1. r \in Response /\ LegalResponse(r)
  BY ResponsesAssumption
<1>2. PICK path \in Paths : \E chunks \in 0..(path.value + 1) :
        stream' = Respond(s, r, path, chunks)
  BY DEF RespondWith
<1>3. PICK chunks \in 0..(path.value + 1) : stream' = Respond(s, r, path, chunks)
  BY <1>2
<1>4. chunks \in Nat /\ asked' = Owed(r)
  BY DEF RespondWith
<1>5. QED
  BY <1>1, <1>3, <1>4, RespondProper

(* Asking the backend leaves a response in order.                         *)
LEMMA AskProper ==
  ASSUME NEW s \in Stream, Proper(s), Unanswered(s),
         \/ \E r \in Responses \cup ConnectResponses : OnResponseBackendComplete(s, r)
         \/ \E answers \in SUBSET (Responses \cup ConnectResponses) : Ask(s, answers)
  PROVE  Proper(stream') /\ (asked' = "stream" => Flowing(stream'))
<1>1. ASSUME NEW r \in Responses \cup ConnectResponses, OnResponseBackendComplete(s, r)
      PROVE  Proper(stream') /\ (asked' = "stream" => Flowing(stream'))
  <2>1. ~s.sent
    BY DEF Unanswered
  <2>2. QED
    BY <1>1, <2>1, SendErrorProper, RespondWithProper DEF OnResponseBackendComplete
<1>2. QED
  BY <1>1 DEF Ask

(* The control invariant and the order of what was written.                *)
ExchangeInv ==
  /\ ControlInv
  /\ req.method = "none" => body = 0
  /\ Overlong => stream.stopped
  /\ ~Overlong /\ req.method = "WT" =>
       Ordered(stream.wire) /\ stream.announced = 0 /\ stream.bytes = 0
  /\ ~Overlong /\ req.method # "WT" =>
       Proper(stream) /\ (asked = "stream" => Flowing(stream))

(* It is inductive.                                                        *)
LEMMA ExchangeStep == ExchangeInv /\ ControlInv' /\ [Next]_vars => ExchangeInv'
<1> SUFFICES ASSUME ExchangeInv, ControlInv', [Next]_vars
             PROVE  ExchangeInv'
  OBVIOUS
<1> DEFINE Good == Proper(stream) /\ (asked = "stream" => Flowing(stream))
           Session == Ordered(stream.wire) /\ stream.announced = 0 /\ stream.bytes = 0
<1>t. /\ stream \in Stream /\ stream' \in Stream /\ body \in Nat
      /\ req \in [method : Methods, clen : Nat \cup {NoLength}, target : BOOLEAN]
      /\ alarm \in Delayed \cup {NoAnswer}
  BY DEF ExchangeInv, ControlInv, TypeOK
<1>l. Regions \cup {0} \subseteq Nat
  BY SizesAssumption
<1>c. ~Overlong => Control
  BY DEF ExchangeInv, ControlInv
(* What has to be shown of a step, in three cases.                         *)
<1>k. ASSUME ~Overlong', IF req'.method = "WT" THEN Session' ELSE Good',
             req'.method = "none" => UNCHANGED <<req, body>>
      PROVE  ExchangeInv'
  BY <1>k DEF ExchangeInv
<1>w. Follows(stream', stream)
  BY StepFollows DEF ExchangeInv, ControlInv
<1>b. ASSUME Overlong, UNCHANGED <<req, body>>
      PROVE  ExchangeInv'
  <2>1. Overlong' /\ stream'.stopped
    BY <1>b, <1>w DEF ExchangeInv, Overlong, TooLong, Follows
  <2>2. QED
    BY <2>1 DEF ExchangeInv, Overlong
<1>u. ASSUME ~Overlong, UNCHANGED <<req, body>>
      PROVE  ~Overlong'
  BY <1>u DEF Overlong, TooLong
<1>f. ASSUME Fresh
      PROVE  /\ ~Overlong /\ Unanswered(stream) /\ stream.wire = <<>> /\ Good
             /\ asked = "no" /\ alarm = NoAnswer /\ ~stream.sent /\ ~stream.fin
  <2>1. ~Overlong /\ req.method # "WT" /\ req.method = "none" /\ ~stream.stopped
    BY <1>f DEF Fresh, Overlong
  <2>2. Unanswered(stream) /\ stream.wire = <<>> /\ asked = "no" /\ alarm = NoAnswer
    BY <1>c, <2>1 DEF Control
  <2>3. QED
    BY <2>1, <2>2 DEF ExchangeInv, Unanswered, Sound, Proper
<1>p. ASSUME Reading
      PROVE  /\ ~Overlong /\ req.method # "WT" /\ Good
             /\ req.method = "GET" => Unanswered(stream) /\ asked = "no" /\ ~stream.sent
  <2>1. ~Overlong /\ req.method # "WT" /\ ~stream.stopped /\ ~eof
    BY <1>p DEF Reading, ExchangeInv
  <2>2. QED
    BY <1>c, <2>1 DEF ExchangeInv, Control, Unanswered
<1>e. ASSUME Proper(stream), ~stream.sent, stream' = SendErrorResponse(stream)
      PROVE  Proper(stream')
  BY <1>e, <1>t, SendErrorProper
<1>r. ASSUME Proper(stream), Unanswered(stream), asked = "no", NEW q, NEW size,
             SendResponse(q, size)
      PROVE  Good'
  <2>1. ~stream.sent
    BY <1>r DEF Unanswered
  <2>2. CASE stream' = SendErrorResponse(stream) /\ UNCHANGED <<asked, alarm, fetched>>
    BY <1>r, <2>1, <2>2, <1>e
  <2>3. CASE Ask(stream, Responses)
    BY <1>r, <2>3, <1>t, AskProper
  <2>4. QED
    BY <1>r, <2>2, <2>3 DEF SendResponse, FetchResponseFromBackend
(* A change to fields that do not count.                                   *)
<1>i. ASSUME ~Overlong, req.method # "WT", UNCHANGED <<req, body>>, asked' \in {"no", asked},
             stream'.wire = stream.wire, stream'.fin = stream.fin,
             stream'.sent = stream.sent, stream'.gen = stream.gen,
             stream'.announced = stream.announced, stream'.bytes = stream.bytes,
             stream'.side = stream.side \/ stream'.side # "open"
      PROVE  ExchangeInv'
  <2>1. Proper(stream') /\ (Flowing(stream) => Flowing(stream'))
    BY <1>i, <1>t, ProperSame DEF ExchangeInv
  <2>2. QED
    BY <1>i, <1>u, <1>k, <2>1 DEF ExchangeInv
<1>j. ASSUME ~Overlong, req.method = "WT", UNCHANGED <<req, body>>,
             stream'.wire = stream.wire,
             stream'.announced = stream.announced, stream'.bytes = stream.bytes
      PROVE  ExchangeInv'
  BY <1>j, <1>u, <1>k DEF ExchangeInv
<1>1. CASE Headers
  <2>z. Fresh => ~Overlong /\ req.method = "none"
    BY DEF Fresh, Overlong
  <2>1. CASE InvalidHeaders
    <3>1. ~Overlong' /\ req'.method # "WT"
      BY <2>1, <2>z, <1>u DEF InvalidHeaders
    <3>2. Good'
      BY <2>1, <1>f, <1>e DEF InvalidHeaders
    <3>3. QED
      BY <2>1, <3>1, <3>2, <1>k DEF InvalidHeaders
  <2>2. ASSUME NEW target \in BOOLEAN, NEW clen \in ContentLengths,
               RequestHeaders(target, clen)
        PROVE  ExchangeInv'
    <3>1. ~Overlong' /\ req'.method = "GET"
      BY <2>2 DEF RequestHeaders, Overlong
    <3>2. Good'
      BY <2>2, <1>f DEF RequestHeaders
    <3>3. QED
      BY <3>1, <3>2, <1>k
  <2>3. ASSUME NEW target \in BOOLEAN, NEW clen \in ContentLengths,
               RequestHeadersAndFin(target, clen)
        PROVE  ExchangeInv'
    <3>1. ~Overlong' /\ req'.method = "GET"
      BY <2>3 DEF RequestHeadersAndFin, Overlong
    <3>2. Good'
      BY <2>3, <1>f, <1>r DEF RequestHeadersAndFin
    <3>3. QED
      BY <3>1, <3>2, <1>k
  <2>4. ASSUME NEW clen \in ConnectLengths,
               ConnectHeaders(clen) \/ ConnectHeadersAndFin(clen)
        PROVE  ExchangeInv'
    <3>1. /\ Fresh /\ body' = body
          /\ req' = [method |-> "CONNECT", clen |-> clen, target |-> TRUE]
      BY <2>4 DEF ConnectHeaders, ConnectHeadersAndFin
    <3>2. PICK s \in Stream : /\ Proper(s) /\ Unanswered(s)
                              /\ Ask(s, ConnectResponses)
      <4> DEFINE s == IF Writable(stream) THEN HandleConnectData(stream) ELSE stream
      <4>1. /\ Reset(stream).bytes = stream.bytes
            /\ Reset(stream).side = stream.side \/ Reset(stream).side # "open"
        BY <1>t DEF Reset, Stream
      <4>2. Reset(stream) \in Stream /\ Proper(Reset(stream)) /\ Unanswered(Reset(stream))
        BY <1>t, <3>1, <1>f, <4>1, ResetFacts, ProperSame DEF Unanswered, Sound, Garbled
      <4>3. s \in Stream /\ Proper(s) /\ Unanswered(s)
        BY <1>t, <3>1, <1>f, <4>2 DEF HandleConnectData
      <4>4. Ask(stream, ConnectResponses) \/ Ask(s, ConnectResponses)
        BY <2>4 DEF ConnectHeaders, ConnectHeadersAndFin, HandleConnectHeaders
      <4> HIDE DEF s
      <4>5. QED
        BY <1>t, <3>1, <1>f, <4>3, <4>4
    <3>3. Good'
      BY <3>2, AskProper
    <3>4. body = 0 /\ clen \in Int
      BY <3>1, <2>z, SizesAssumption DEF ExchangeInv, NoLength
    <3>5. ~Overlong'
      BY <3>1, <3>4 DEF Overlong, TooLong
    <3>6. QED
      BY <3>1, <3>3, <3>5, <1>k
  <2>5. ASSUME NEW accepted \in BOOLEAN,
               WebTransportHeaders(accepted) \/ WebTransportHeadersAndFin(accepted)
        PROVE  ExchangeInv'
    <3> DEFINE d == EndSession(stream)
    <3>1. PICK last \in BOOLEAN : last = ~accepted
      OBVIOUS
    <3>2. /\ Fresh /\ body' = body
          /\ req' = [method |-> "WT", clen |-> NoLength, target |-> accepted]
          /\ \/ stream' = Write(stream, "head", last)
             \/ stream' = Write(d, "head", last)
      BY <2>5, <3>1 DEF WebTransportHeaders, WebTransportHeadersAndFin
    <3>3. ~Overlong'
      BY <3>2 DEF Overlong
    <3>4. CASE stream' = Write(stream, "head", last)
      <4>1. Session'
        BY <3>2, <3>4, <1>t, <1>f, HeadProper
      <4>2. QED
        BY <3>2, <3>3, <4>1, <1>k
    <3>5. CASE stream' = Write(d, "head", last)
      <4>1. ~stream.fin /\ Proper(stream) /\ ~stream.sent /\ stream.wire \in Seq(Sections)
        <5>1. stream.wire \in Seq(Sections)
          BY <1>t DEF Stream
        <5>2. QED
          BY <5>1, <3>2, <1>f
      <4>2. /\ d \in Stream /\ d.announced = 0 /\ d.bytes = 0
            /\ d.wire = stream.wire /\ (d.fin \/ d.side # "open")
        <5>1. /\ d \in Stream /\ d.announced = stream.announced /\ d.bytes = stream.bytes
              /\ d.side = stream.side
              /\ IF stream.side = "open"
                   THEN d.wire = Extend(stream.wire, "fin") /\ d.fin = TRUE
                   ELSE d.wire = stream.wire /\ ~d.fin
          BY <1>t, <4>1, WriteEffect DEF EndSession
        <5> HIDE DEF d
        <5>2. QED
          BY <4>1, <5>1 DEF Extend, Proper
      <4> HIDE DEF d
      <4>3. /\ stream'.wire = d.wire /\ stream'.announced = d.announced
            /\ stream'.bytes = d.bytes
        BY <1>t, <3>5, <4>2 DEF Write, Stream
      <4>4. Session'
        BY <4>1, <4>2, <4>3 DEF Proper
      <4>5. QED
        BY <3>2, <3>3, <4>4, <1>k
    <3>6. QED
      BY <3>2, <3>4, <3>5
  <2>6. QED
    BY <1>1, <2>1, <2>2, <2>3, <2>4, <2>5 DEF Headers
<1>2. CASE Body
  <2>1. ASSUME NEW n \in Regions \cup {0},
               \/ BodyAvailable(n) \/ ConnectDataAvailable(n)
               \/ BodyComplete(n) \/ ConnectDataComplete(n)
        PROVE  ExchangeInv'
    <3>1. Reading /\ req' = req /\ req.method # "none" /\ ~TooLong(body + n)
      BY <2>1 DEF BodyAvailable, ConnectDataAvailable, BodyComplete,
                  ConnectDataComplete, Receive, Reading
    <3>2. ~Overlong'
      <4>1. body' = body + n \/ body' = 0 \/ req.method = "GET"
        BY <2>1 DEF BodyAvailable, ConnectDataAvailable, BodyComplete, ConnectDataComplete
      <4>2. ~(req.clen >= 0 /\ 0 > req.clen)
        BY <1>t DEF NoLength
      <4>3. QED
        BY <3>1, <4>1, <4>2 DEF Overlong, TooLong
    <3>3. Good'
      <4>1. /\ ~Overlong /\ req.method # "WT" /\ Good
            /\ req.method = "GET" => Unanswered(stream) /\ asked = "no"
        BY <3>1, <1>p
      <4>2. CASE UNCHANGED <<stream, asked>>
        BY <4>1, <4>2
      <4>3. CASE stream' = HandleConnectData(stream) /\ UNCHANGED asked
        <5>1. /\ Reset(stream).bytes = stream.bytes
              /\ Reset(stream).side = stream.side \/ Reset(stream).side # "open"
          BY <1>t DEF Reset, Stream
        <5>2. Reset(stream) \in Stream /\ Proper(Reset(stream))
              /\ (Flowing(stream) => Flowing(Reset(stream)))
          BY <1>t, <4>1, <5>1, ResetFacts, ProperSame
        <5>3. QED
          BY <4>1, <4>3, <5>2 DEF HandleConnectData
      <4>4. ASSUME req.method = "GET", NEW size, SendResponse(req, size)
            PROVE  Good'
        BY <4>1, <4>4, <1>r
      <4>5. QED
        BY <2>1, <4>2, <4>3, <4>4
        DEF BodyAvailable, ConnectDataAvailable, BodyComplete, ConnectDataComplete
    <3>4. QED
      BY <3>1, <3>2, <3>3, <1>p, <1>k
  <2>2. ASSUME NEW n \in Regions, BodyTooLong(n)
        PROVE  ExchangeInv'
    <3>1. Reading /\ req' = req /\ TooLong(body + n) /\ body' = body + n
      BY <2>2 DEF BodyTooLong, Receive
    <3>2. CASE req.method = "CONNECT"
      <4>1. Overlong'
        BY <3>1, <3>2 DEF Overlong, TooLong
      <4>2. stream'.stopped
        <5>1. LET d == [stream EXCEPT !.stopped = TRUE]
              IN  d \in Stream /\ d.stopped
          BY <1>t DEF Stream
        <5>2. QED
          BY <2>2, <5>1, SendAllFollows DEF BodyTooLong, SendErrorResponse, Follows
      <4>3. QED
        BY <3>1, <3>2, <4>1, <4>2 DEF ExchangeInv
    <3>3. CASE req.method = "GET"
      <4>1. ~Overlong' /\ Good'
        BY <2>2, <3>1, <3>3, <1>p, <1>e DEF BodyTooLong, Overlong
      <4>2. QED
        BY <3>1, <3>3, <4>1, <1>k
    <3>4. QED
      BY <3>1, <3>2, <3>3 DEF Reading
  <2>3. CASE WebTransportFin
    <3>1. req.method = "WT" /\ ~Overlong /\ UNCHANGED <<req, body>>
          /\ stream' = Write(stream, "fin", TRUE)
      BY <2>3 DEF WebTransportFin, EndSession, Overlong
    <3>2. /\ stream'.announced = stream.announced /\ stream'.bytes = stream.bytes
          /\ stream'.wire = stream.wire
      BY <1>t, <3>1 DEF Write, Extend, Stream
    <3>3. QED
      BY <3>1, <3>2, <1>j
  <2>4. QED
    BY <1>2, <2>1, <2>2, <2>3 DEF Body
<1>3. CASE Backend \/ OnAlarm
  <2>1. UNCHANGED <<req, body>>
    BY <1>3 DEF Backend, BackendResponds, SendStreamData, TerminateStreamWithError, OnAlarm
  <2>2. CASE Overlong
    BY <2>1, <2>2, <1>b
  <2>3. ASSUME ~Overlong, req.method # "WT"
        PROVE  ExchangeInv'
    <3>1. Control /\ Good /\ req.method # "WT"
      BY <2>3, <1>c DEF ExchangeInv
    <3>2. ASSUME NEW r \in Responses \cup ConnectResponses, BackendResponds(r)
          PROVE  Good'
      <4>1. Unanswered(stream) /\ OnResponseBackendComplete(stream, r)
        BY <3>1, <3>2 DEF BackendResponds, Control
      <4>2. QED
        BY <1>t, <3>1, <4>1, AskProper
    <3>3. ASSUME NEW closeStream \in BOOLEAN, NEW data \in BOOLEAN,
                 SendStreamData(closeStream, data)
          PROVE  Good'
      BY <1>t, <3>1, <3>3, SendLastProper, SendMoreProper DEF SendStreamData, Flowing
    <3>4. ASSUME TerminateStreamWithError
          PROVE  Good'
      <4>1. /\ Reset(stream).bytes = stream.bytes
            /\ Reset(stream).side = stream.side \/ Reset(stream).side # "open"
        BY <1>t DEF Reset, Stream
      <4>2. Proper(Reset(stream))
        BY <1>t, <3>1, <4>1, ResetFacts, ProperSame
      <4>3. QED
        BY <3>4, <4>2 DEF TerminateStreamWithError
    <3>5. ASSUME OnAlarm
          PROVE  Good'
      <4>1. alarm \in Responses \cup ConnectResponses /\ alarm.delayed
        BY <3>5, <1>t DEF OnAlarm, Delayed
      <4>2. alarm.type # "NULL"
        BY <4>1, ResponsesAssumption DEF LegalResponse
      <4>3. Unanswered(stream) /\ RespondWith(stream, alarm)
        BY <3>1, <3>5 DEF OnAlarm, Control
      <4>4. QED
        BY <1>t, <3>1, <4>1, <4>2, <4>3, RespondWithProper DEF OnAlarm
    <3>6. Good'
      BY <1>3, <3>2, <3>3, <3>4, <3>5 DEF Backend
    <3>7. QED
      BY <2>1, <2>3, <3>6, <1>u, <1>k
  <2>4. ASSUME ~Overlong, req.method = "WT"
        PROVE  ExchangeInv'
    <3>1. asked = "no" /\ alarm = NoAnswer
      BY <2>4, <1>c DEF Control
    <3>2. QED
      BY <1>3, <3>1 DEF Backend, BackendResponds, SendStreamData,
                        TerminateStreamWithError, OnAlarm
  <2>5. QED
    BY <2>2, <2>3, <2>4
<1>4. ASSUME NEW chunks \in 1..stream.gen, OnCanWrite(chunks)
      PROVE  ExchangeInv'
  <2>1. UNCHANGED <<req, body, asked>> /\ stream' = WriteGeneratedBytes(stream, chunks)
        /\ chunks \in Nat /\ stream.gen > 0
    BY <1>4, <1>t DEF OnCanWrite, Stream
  <2>2. CASE Overlong
    BY <2>1, <2>2, <1>b
  <2>3. CASE ~Overlong
    <3>1. req.method # "WT" /\ Sound(stream) /\ Good /\ asked # "stream"
      BY <2>1, <2>3, <1>c DEF Control, ExchangeInv, Streaming
    <3>2. Good'
      BY <1>t, <2>1, <3>1, GeneratedProper
    <3>3. QED
      BY <2>1, <2>3, <3>1, <3>2, <1>u, <1>k
  <2>4. QED
    BY <2>2, <2>3
<1>5. CASE PeerStopSending \/ PeerResetStream \/ Destroy \/ UNCHANGED vars
  <2>1. /\ UNCHANGED <<req, body>> /\ asked' \in {"no", asked}
        /\ stream'.wire = stream.wire /\ stream'.fin = stream.fin
        /\ stream'.sent = stream.sent /\ stream'.gen = stream.gen
        /\ stream'.announced = stream.announced /\ stream'.bytes = stream.bytes
        /\ stream'.side = stream.side \/ stream'.side # "open"
    BY <1>5, <1>t DEF PeerStopSending, PeerResetStream, Destroy, vars, Reset, Stream
  <2>2. QED
    BY <2>1, <1>b, <1>i, <1>j
<1>6. QED
  BY <1>1, <1>2, <1>3, <1>4, <1>5 DEF Next

(* What was written is in order in every reachable state.                  *)
LEMMA ExchangeInvariant == Spec => []ExchangeInv
<1>1. Init => ExchangeInv
  <2>1. Init => ControlInv
    BY InitTypeOK DEF ControlInv, Init, Control, Unanswered, Sound, Garbled, NotANumber
  <2>2. Init => ~Overlong /\ Proper(stream) /\ asked # "stream" /\ req.method = "none"
                /\ body = 0
    BY DEF Init, Overlong, Proper, Ordered, Http!InOrder, Interim, NoTrailers, Garbled,
           NotANumber
  <2>3. QED
    BY <2>1, <2>2 DEF ExchangeInv
<1>2. QED
  BY <1>1, ControlInvariant, ExchangeStep, PTL DEF Spec

(* The bytes of a generated response add up to what its content-length     *)
(* announced, and the FIN goes out with the last one.                      *)
THEOREM GeneratedInFull == Spec => []GeneratedBodyComplete
<1>1. ExchangeInv => GeneratedBodyComplete
  <2> SUFFICES ASSUME ExchangeInv, stream.side = "open", ~Overlong,
                      stream.announced # NotANumber
               PROVE  /\ stream.bytes + stream.gen = stream.announced
                      /\ stream.announced > 0 => (stream.fin <=> stream.gen = 0)
    BY DEF GeneratedBodyComplete
  <2>1. CASE req.method = "WT"
    BY <2>1 DEF ExchangeInv, ControlInv, Control
  <2>2. CASE req.method # "WT"
    BY <2>2 DEF ExchangeInv, Proper, Garbled
  <2>3. QED
    BY <2>1, <2>2
<1>2. QED
  BY <1>1, ExchangeInvariant, PTL

(* How much of the request there is only grows.                            *)
LEMMA RequestGrows ==
  ASSUME ExchangeInv, ExchangeInv', [Next]_vars
  PROVE  Http!Request
<1>t. /\ TypeOK /\ TypeOK' /\ Follows(stream', stream)
      /\ eof \in BOOLEAN /\ eof' \in BOOLEAN
      /\ req.method \in Methods /\ req'.method \in Methods
      /\ stream.stopped \in BOOLEAN /\ stream'.stopped \in BOOLEAN
      /\ req'.clen \in Nat \cup {NoLength}
  BY StepFollows DEF ExchangeInv, ControlInv, TypeOK, Stream
<1>s. stream.stopped => stream'.stopped
  BY <1>t DEF Follows
<1>1. CASE Headers
  <2>1. Fresh /\ body' = body
    BY <1>1 DEF Headers, InvalidHeaders, RequestHeaders, RequestHeadersAndFin,
       ConnectHeaders, ConnectHeadersAndFin, WebTransportHeaders,
       WebTransportHeadersAndFin
  <2>2. body' = 0 /\ RequestState = "partial"
    BY <2>1 DEF ExchangeInv, Fresh, RequestState, Overlong
  <2>3. ~Overlong'
    BY <1>t, <2>2 DEF Overlong, TooLong, NoLength
  <2>4. RequestState' \in {"partial", "complete", "session", "aborted"}
    BY <2>3 DEF RequestState
  <2>5. QED
    BY <2>2, <2>4 DEF Http!Request
<1>2. ASSUME UNCHANGED <<req, body, eof>>
      PROVE  Http!Request
  <2>1. Overlong' <=> Overlong
    BY <1>2 DEF Overlong, TooLong
  <2>2. QED
    BY <1>2, <1>s, <2>1 DEF RequestState, Http!Request
<1>3. CASE Body
  <2>1. ASSUME Reading, UNCHANGED req, eof => eof'
        PROVE  Http!Request
    <3>1. ~Overlong /\ ~stream.stopped /\ ~eof /\ req.method \in {"GET", "CONNECT"}
      BY <2>1 DEF Reading, ExchangeInv
    <3>2. CASE req.method = "GET"
      BY <2>1, <3>1, <3>2 DEF RequestState, Overlong, Http!Request
    <3>3. CASE req.method = "CONNECT"
      BY <2>1, <3>1, <3>3 DEF RequestState, Http!Request
    <3>4. QED
      BY <3>1, <3>2, <3>3
  <2>2. CASE WebTransportFin
    BY <2>2 DEF WebTransportFin, RequestState, Overlong, Http!Request
  <2>3. Body => WebTransportFin \/ (Reading /\ UNCHANGED req /\ (eof => eof'))
    BY <1>t DEF Body, BodyTooLong, BodyAvailable, ConnectDataAvailable, BodyComplete,
       ConnectDataComplete, Receive
  <2>4. QED
    BY <1>3, <2>1, <2>2, <2>3
<1>4. Next \/ UNCHANGED vars => Headers \/ Body \/ UNCHANGED <<req, body, eof>>
  BY DEF Next, Backend, BackendResponds, SendStreamData, TerminateStreamWithError,
     OnAlarm, OnCanWrite, PeerStopSending, PeerResetStream, Destroy, vars
<1>5. QED
  BY <1>1, <1>2, <1>3, <1>4

(* Nothing is written while more of the request is to come.                *)
LEMMA SilentUntilComplete ==
  ASSUME ExchangeInv, ExchangeInv', [Next]_vars, RequestState' = "partial"
  PROVE  stream'.wire = stream.wire /\ stream'.fin = stream.fin
<1>t. stream \in Stream /\ stream' \in Stream /\ req'.method \in Methods /\ TypeOK
  BY DEF ExchangeInv, ControlInv, TypeOK
<1>p. /\ ~Overlong' /\ ~stream'.stopped
      /\ req'.method = "none" \/ (req'.method = "GET" /\ ~eof')
  BY <1>t DEF RequestState, Methods
<1>s. ~stream.stopped
  BY <1>p, StepFollows DEF Follows, ExchangeInv, ControlInv
<1>e. stream' # SendErrorResponse(stream)
  <2>1. LET d == [stream EXCEPT !.stopped = TRUE] IN d \in Stream /\ d.stopped
    BY <1>t DEF Stream
  <2>2. QED
    BY <1>p, <2>1, SendAllFollows DEF SendErrorResponse, Follows
<1>1. CASE Headers \/ Body
  <2>1. stream' = stream
    BY <1>1, <1>p, <1>e
    DEF Headers, Body, InvalidHeaders, RequestHeaders, RequestHeadersAndFin,
        ConnectHeaders, ConnectHeadersAndFin, WebTransportHeaders,
        WebTransportHeadersAndFin, BodyTooLong, BodyAvailable, ConnectDataAvailable,
        BodyComplete, ConnectDataComplete, Receive, WebTransportFin
  <2>2. QED
    BY <2>1
<1>2. CASE ~(Headers \/ Body)
  <2>1. UNCHANGED <<req, body, eof>>
    BY <1>2 DEF Next, Backend, BackendResponds, SendStreamData,
       TerminateStreamWithError, OnAlarm, OnCanWrite, PeerStopSending,
       PeerResetStream, Destroy, vars
  <2>2. ~Overlong
    BY <1>p, <2>1 DEF Overlong, TooLong
  <2>3. asked = "no" /\ alarm = NoAnswer /\ ~(stream.gen > 0)
    <3>1. Control /\ stream.gen \in Nat
      BY <1>t, <2>2 DEF ExchangeInv, ControlInv, Stream
    <3>2. QED
      BY <3>1, <2>1, <1>p, <1>s DEF Control, Unanswered, Sound
  <2>4. PeerStopSending \/ PeerResetStream \/ Destroy \/ UNCHANGED vars
    BY <1>2, <2>3 DEF Next, Backend, BackendResponds, SendStreamData,
       TerminateStreamWithError, OnAlarm, OnCanWrite
  <2>5. QED
    BY <1>t, <2>4 DEF PeerStopSending, PeerResetStream, Destroy, vars, Reset, Stream
<1>3. QED
  BY <1>1, <1>2

(* Every step of the stream is a step of the exchange.                     *)
LEMMA StepAnswers ==
  ASSUME ExchangeInv, ExchangeInv', [Next]_vars
  PROVE  Http!Request /\ Http!Answer
<1>t. /\ stream \in Stream /\ stream' \in Stream /\ req'.method \in Methods
      /\ Follows(stream', stream)
  BY StepFollows DEF ExchangeInv, ControlInv, TypeOK
<1>1. Http!Request
  BY RequestGrows
<1>2. RequestState' # "broken" => Http!InOrder(stream'.wire)
  BY DEF RequestState, ExchangeInv, Proper, Ordered
<1>3. stream'.fin /\ RequestState' \in {"complete", "aborted"} => Http!Headed(stream'.wire)
  BY DEF RequestState, ExchangeInv, Proper, Headed
<1>4. RequestState' = "partial" => stream'.wire = stream.wire /\ stream'.fin = stream.fin
  BY SilentUntilComplete
<1>5. QED
  BY <1>t, <1>1, <1>2, <1>3, <1>4 DEF Http!Answer, Follows

(* The stream implements the HTTP exchange that its client expects, for    *)
(* every backend, every body and every order of events.                    *)
THEOREM StreamAnswersOnce == Spec => AnswersOnce
<1>1. Init => Http!Begin
  BY DEF Init, Http!Begin, RequestState, Overlong
<1>2. ExchangeInv /\ ExchangeInv' /\ [Next]_vars =>
        [Http!Request /\ Http!Answer]_(Http!exchange)
  BY StepAnswers
<1>3. QED
  BY <1>1, <1>2, ExchangeInvariant, PTL DEF Spec, AnswersOnce, Http!Exchange

----------------------------------------------------------------------------
(* Why a complete request is answered: somebody always is to go on with    *)
(* it, and who does brings its end nearer.                                 *)
Ended(s) == s.fin \/ s.side # "open"

Owing == \/ Over \/ EndlessAnswer
         \/ asked # "no" \/ alarm # NoAnswer \/ stream.gen > 0

OwedInv ==
  /\ ControlInv
  /\ AnswerOwed
  /\ Overlong => Over
  /\ req.method = "none" => body = 0 /\ ~eof

(* A write with FIN ends the stream, and no write opens it again.          *)
LEMMA WriteEnds ==
  ASSUME NEW s \in Stream, NEW section \in Sections \cup {"fin"},
         NEW fin \in BOOLEAN, fin \/ Ended(s)
  PROVE  Ended(Write(s, section, fin))
BY DEF Write, Ended, Stream

(* A response that is sent as a whole, and the last of a streamed one, end *)
(* the stream.                                                             *)
LEMMA SendAllEnds ==
  ASSUME NEW s \in Stream, NEW head \in BOOLEAN, NEW hasBody \in BOOLEAN,
         NEW trailers \in BOOLEAN
  PROVE  Ended(SendHeadersAndBodyAndTrailers(s, head, hasBody, trailers))
<1>1. PICK only \in BOOLEAN, last \in BOOLEAN, section \in Sections \cup {"fin"} :
        /\ only = (~hasBody /\ ~trailers)
        /\ last = ~trailers
        /\ section = IF hasBody THEN "body" ELSE "fin"
  BY DEF Sections
<1> DEFINE c == CheckHeaders(s, head)
           w == Write(c, "head", only)
           h == IF head THEN [w EXCEPT !.sent = TRUE] ELSE c
           b == IF hasBody \/ ~trailers THEN Write(h, section, last) ELSE h
           t == Write(b, "trailers", TRUE)
<1>2. c \in Stream
  BY CheckHeadersType
<1>3. w \in Stream /\ (only => Ended(w))
  <2> HIDE DEF c
  <2>1. QED
    BY <1>2, WriteType, WriteEnds DEF Sections
<1>4. h \in Stream /\ (head /\ only => Ended(h))
  <2> HIDE DEF w, c
  <2>1. QED
    BY <1>2, <1>3 DEF Stream, Ended
<1>5. b \in Stream /\ (~trailers => Ended(b))
  <2> HIDE DEF h
  <2>1. QED
    BY <1>1, <1>4, WriteType, WriteEnds
<1>6. Ended(t)
  <2> HIDE DEF b
  <2>1. QED
    BY <1>5, WriteEnds DEF Sections
<1>7. SendHeadersAndBodyAndTrailers(s, head, hasBody, trailers) =
        IF head /\ ~hasBody /\ ~trailers THEN h
        ELSE IF trailers THEN t ELSE b
  BY <1>1, Zenon DEF SendHeadersAndBodyAndTrailers
<1>8. QED
  <2> HIDE DEF h, b, t
  <2>1. QED
    BY <1>1, <1>4, <1>5, <1>6, <1>7

(* So do the error responses.                                              *)
LEMMA SendErrorEnds ==
  ASSUME NEW s \in Stream
  PROVE  Ended(SendErrorResponse(s)) /\ Ended(SendNotFoundResponse(s))
<1>1. [s EXCEPT !.stopped = TRUE] \in Stream
  BY DEF Stream
<1>2. QED
  BY <1>1, SendAllEnds DEF SendErrorResponse, SendNotFoundResponse

(* Generated bytes end the stream with the last of them, and each call     *)
(* that flow control lets write leaves fewer.                              *)
LEMMA GeneratedEnds ==
  ASSUME NEW s \in Stream, s.gen > 0, NEW chunks \in Nat
  PROVE  LET t == WriteGeneratedBytes(s, chunks)
         IN  /\ t.gen > 0 \/ Ended(t)
             /\ chunks > 0 => t.gen < s.gen
<1> DEFINE n == IF chunks * ChunkSize < s.gen THEN chunks * ChunkSize ELSE s.gen
<1>1. n \in Nat /\ n <= s.gen /\ s.gen \in Nat
  BY SizesAssumption DEF Stream
<1>2. chunks > 0 => n > 0
  <2>1. chunks > 0 => chunks * ChunkSize >= 1 /\ chunks * ChunkSize \in Nat
    BY SizesAssumption
  <2>2. QED
    BY <2>1, <1>1
<1>3. PICK last \in BOOLEAN : last = (n = s.gen)
  OBVIOUS
<1>4. PICK k : k = IF Writable(s) THEN s.bytes + n ELSE s.bytes
  OBVIOUS
<1> DEFINE w == Write(s, "body", last)
           g == [w EXCEPT !.gen = s.gen - n, !.bytes = k]
<1>5. WriteGeneratedBytes(s, chunks) = IF n = 0 THEN s ELSE g
  BY <1>3, <1>4, Zenon DEF WriteGeneratedBytes
<1>6. w \in Stream /\ (last => Ended(w))
  BY WriteType, WriteEnds DEF Sections
<1>7. g.gen = s.gen - n /\ (last => Ended(g))
  <2> HIDE DEF w, n
  <2>1. QED
    BY <1>6 DEF Stream, Ended
<1>8. QED
  <2> HIDE DEF g, n
  <2>1. n = s.gen \/ s.gen - n > 0
    BY <1>1
  <2>2. n > 0 => s.gen - n < s.gen
    BY <1>1
  <2>3. CASE n = 0
    BY <1>2, <1>5, <2>3
  <2>4. CASE n # 0
    <3>1. WriteGeneratedBytes(s, chunks) = g
      BY <1>5, <2>4
    <3>2. g.gen > 0 \/ Ended(g)
      BY <1>3, <1>7, <2>1
    <3>3. chunks > 0 => g.gen < s.gen
      BY <1>2, <1>7, <2>2
    <3>4. QED
      BY <3>1, <3>2, <3>3
  <2>5. QED
    BY <2>3, <2>4

(* A generated response ends, or has bytes left, or has none at all.       *)
LEMMA SendGeneratedEnds ==
  ASSUME NEW s \in Stream, NEW path \in Paths, NEW chunks \in Nat
  PROVE  LET t == SendGeneratedResponse(s, path, chunks)
         IN  \/ Ended(t) \/ t.gen > 0
             \/ t.sent /\ [number |-> TRUE, value |-> 0] \in Paths
<1> DEFINE w == Write(s, "head", FALSE)
           g == [w EXCEPT !.failed = @ \/ s.sent, !.sent = TRUE,
                          !.gen = path.value, !.announced = path.value]
           e == SendNotFoundResponse(s)
           t == SendGeneratedResponse(s, path, chunks)
<1>1. path.number \in BOOLEAN /\ path.value \in Nat
  BY SizesAssumption
<1>2. CASE ~path.number
  <2>1. e \in Stream /\ Ended(e)
    BY SendErrorType, SendErrorEnds
  <2> HIDE DEF e
  <2>2. Ended([e EXCEPT !.gen = path.value, !.announced = NotANumber])
    BY <2>1 DEF Stream, Ended
  <2>3. QED
    BY <1>2, <2>2 DEF SendGeneratedResponse, e
<1>3. CASE path.number
  <2>1. w \in Stream
    BY WriteType DEF Sections
  <2>2. g \in Stream /\ g.gen = path.value /\ g.sent
    <3> HIDE DEF w
    <3>1. QED
      BY <1>1, <2>1 DEF Stream
  <2>3. t = WriteGeneratedBytes(g, chunks)
    BY <1>3, Zenon DEF SendGeneratedResponse
  <2> HIDE DEF g
  <2>4. CASE path.value > 0
    <3>1. t.gen > 0 \/ Ended(t)
      BY <2>2, <2>3, <2>4, GeneratedEnds
    <3>2. QED
      BY <3>1
  <2>5. CASE path.value = 0
    <3>1. path = [number |-> TRUE, value |-> 0]
      BY <1>1, <1>3, <2>5, SizesAssumption
    <3>2. t = g
      <4>1. (IF chunks * ChunkSize < 0 THEN chunks * ChunkSize ELSE 0) = 0
        BY SizesAssumption
      <4>2. QED
        BY <2>2, <2>3, <2>5, <4>1 DEF WriteGeneratedBytes
    <3>3. t.sent /\ [number |-> TRUE, value |-> 0] \in Paths
      BY <2>2, <3>1, <3>2
    <3>4. QED
      BY <3>3
  <2>6. QED
    BY <1>1, <2>4, <2>5
<1>4. QED
  BY <1>1, <1>2, <1>3

(* An incomplete response generates nothing.                               *)
LEMMA SendIncompleteGenerates ==
  ASSUME NEW s \in Stream, NEW head \in BOOLEAN, NEW status,
         NEW hasBody \in BOOLEAN
  PROVE  SendIncompleteResponse(s, head, status, hasBody).gen = s.gen
<1> DEFINE c == CheckHeaders(s, head)
           d == [c EXCEPT !.sent = @ \/ status # "100"]
           w == Write(d, IF status = "100" THEN "info" ELSE "head", FALSE)
           h == IF head THEN w ELSE c
<1>1. c \in Stream /\ c.gen = s.gen
  BY CheckHeadersType DEF CheckHeaders, Stream
<1>2. d \in Stream /\ d.gen = s.gen
  <2> HIDE DEF c
  <2>1. QED
    BY <1>1 DEF Stream
<1>3. w \in Stream /\ w.gen = s.gen
  <2> HIDE DEF d
  <2>1. QED
    BY <1>2, WriteFacts DEF Sections
<1>4. h \in Stream /\ h.gen = s.gen
  <2> HIDE DEF w, c
  <2>1. QED
    BY <1>1, <1>3
<1>5. Write(h, "body", FALSE).gen = s.gen
  <2> HIDE DEF h
  <2>1. QED
    BY <1>4, WriteFacts DEF Sections
<1>6. QED
  BY <1>4, <1>5 DEF SendIncompleteResponse

(* Whatever the backend answers ends the stream, leaves bytes to generate, *)
(* or obliges the backend to more, but for an answer that ends nothing;    *)
(* what obliges it to answer again generates nothing.                      *)
LEMMA RespondGoesOn ==
  ASSUME NEW s \in Stream, NEW r \in Response, r.type # "NULL",
         NEW path \in Paths, NEW chunks \in Nat
  PROVE  LET t == Respond(s, r, path, chunks)
         IN  /\ \/ Ended(t) \/ t.gen > 0 \/ Owed(r) # "no"
                \/ r.type = "IGNORE" /\ t.sent = s.sent
                \/ t.sent /\ [number |-> TRUE, value |-> 0] \in Paths
             /\ Owed(r) = "answer" => t.gen = s.gen /\ r.status = "100"
<1> DEFINE h == IF r.hints THEN Write(s, "info", FALSE) ELSE s
           t == Respond(s, r, path, chunks)
<1>1. h \in Stream /\ h.sent = s.sent /\ h.gen = s.gen
  BY WriteFacts DEF Sections
<1>2. t = CASE r.type = "CLOSE_CONNECTION" -> [h EXCEPT !.side = "gone"]
            [] r.type = "IGNORE"           -> h
            [] r.type = "BACKEND_ERR"      -> SendErrorResponse(h)
            [] r.type \in {"REGULAR", "INCOMPLETE", "GENERATE_BYTES"} ->
                 IF r.status = "bad" THEN SendErrorResponse(h)
                 ELSE IF r.type = "INCOMPLETE"
                   THEN SendIncompleteResponse(h, TRUE, r.status, r.body)
                 ELSE IF r.type = "GENERATE_BYTES"
                   THEN SendGeneratedResponse(h, path, chunks)
                 ELSE SendHeadersAndBodyAndTrailers(h, TRUE, r.body, r.trailers)
  BY Zenon DEF Respond
<1> HIDE DEF h, t
<1>3. CASE r.type = "CLOSE_CONNECTION"
  <2>1. Ended([h EXCEPT !.side = "gone"])
    BY <1>1 DEF Stream, Ended
  <2>2. QED
    BY <1>2, <1>3, <2>1 DEF t, Owed
<1>4. CASE r.type = "IGNORE"
  BY <1>1, <1>2, <1>4 DEF t, Owed
<1>5. CASE r.type = "BACKEND_ERR"
  BY <1>1, <1>2, <1>5, SendErrorEnds DEF t, Owed
<1>6. CASE r.type \in {"REGULAR", "INCOMPLETE", "GENERATE_BYTES"}
  <2>1. CASE r.status = "bad"
    BY <1>1, <1>2, <1>6, <2>1, SendErrorEnds DEF t, Owed
  <2>2. CASE r.status # "bad" /\ r.type = "INCOMPLETE"
    <3>1. t = SendIncompleteResponse(h, TRUE, r.status, r.body)
      BY <1>2, <2>2
    <3>2. t.gen = s.gen
      BY <1>1, <3>1, SendIncompleteGenerates DEF Response
    <3>3. QED
      BY <2>2, <3>2 DEF t, Owed
  <2>3. CASE r.status # "bad" /\ r.type = "GENERATE_BYTES"
    <3>1. t = SendGeneratedResponse(h, path, chunks)
      BY <1>2, <2>3
    <3>2. QED
      BY <1>1, <2>3, <3>1, SendGeneratedEnds DEF t, Owed
  <2>4. CASE r.status # "bad" /\ r.type = "REGULAR"
    <3>1. t = SendHeadersAndBodyAndTrailers(h, TRUE, r.body, r.trailers)
      BY <1>2, <2>4
    <3>2. Ended(t)
      BY <1>1, <3>1, SendAllEnds DEF Response
    <3>3. QED
      BY <2>4, <3>2 DEF t, Owed
  <2>5. QED
    BY <1>6, <2>1, <2>2, <2>3, <2>4
<1>7. QED
  BY <1>3, <1>4, <1>5, <1>6 DEF Response, ResponseTypes

(* So does the answer of the backend, and that of the alarm.               *)
LEMMA RespondWithGoesOn ==
  ASSUME NEW s \in Stream, NEW r \in Responses \cup ConnectResponses,
         r.type # "NULL", RespondWith(s, r)
  PROVE  /\ ~s.sent => Owing'
         /\ asked' = "answer" => stream'.gen = s.gen /\ r.status = "100"
<1>1. r \in Response
  BY ResponsesAssumption
<1>2. PICK path \in Paths : \E chunks \in 0..(path.value + 1) :
        stream' = Respond(s, r, path, chunks)
  BY DEF RespondWith
<1>3. PICK chunks \in 0..(path.value + 1) : stream' = Respond(s, r, path, chunks)
  BY <1>2
<1>4. chunks \in Nat
  OBVIOUS
<1>5. asked' = Owed(r)
  BY DEF RespondWith
<1>6. /\ \/ Ended(stream') \/ stream'.gen > 0 \/ Owed(r) # "no"
         \/ r.type = "IGNORE" /\ stream'.sent = s.sent
         \/ stream'.sent /\ [number |-> TRUE, value |-> 0] \in Paths
      /\ Owed(r) = "answer" => stream'.gen = s.gen /\ r.status = "100"
  BY <1>1, <1>3, <1>4, RespondGoesOn
<1>7. QED
  BY <1>5, <1>6 DEF Owing, Over, Ended, EndlessAnswer

(* OnResponseBackendComplete leaves somebody to go on, or the end.         *)
LEMMA BackendCompleteGoesOn ==
  ASSUME NEW s \in Stream, ~s.sent, NEW r \in Responses \cup ConnectResponses,
         OnResponseBackendComplete(s, r)
  PROVE  Owing'
<1>1. CASE stream' = SendNotFoundResponse(s)
  BY <1>1, SendErrorEnds DEF Owing, Over, Ended
<1>2. CASE r.type # "NULL" /\ RespondWith(s, r)
  BY <1>2, RespondWithGoesOn
<1>3. CASE r.delayed /\ alarm' = r
  BY <1>3 DEF Owing, NoAnswer
<1>4. QED
  BY <1>1, <1>2, <1>3 DEF OnResponseBackendComplete

(* So does asking it.                                                      *)
LEMMA AskGoesOn ==
  ASSUME NEW s \in Stream, ~s.sent,
         NEW answers, answers \subseteq Responses \cup ConnectResponses,
         Ask(s, answers)
  PROVE  Owing'
<1>1. CASE \E r \in answers : OnResponseBackendComplete(s, r)
  BY <1>1, BackendCompleteGoesOn
<1>2. CASE asked' = "answer"
  BY <1>2 DEF Owing
<1>3. QED
  BY <1>1, <1>2 DEF Ask

(* And the end of an ordinary request.                                     *)
LEMMA SendResponseGoesOn ==
  ASSUME stream \in Stream, ~stream.sent, NEW q, NEW size, SendResponse(q, size)
  PROVE  Owing'
<1>1. CASE stream' = SendErrorResponse(stream)
  BY <1>1, SendErrorEnds DEF Owing, Over, Ended
<1>2. CASE Ask(stream, Responses)
  BY <1>2, AskGoesOn
<1>3. QED
  BY <1>1, <1>2 DEF SendResponse, FetchResponseFromBackend

(* Somebody goes on with every complete request: inductive, with what is   *)
(* known of the stream while its answer is pending.                        *)
LEMMA OwedStep == OwedInv /\ ControlInv' /\ [Next]_vars => OwedInv'
<1> SUFFICES ASSUME OwedInv, ControlInv', [Next]_vars
             PROVE  /\ Complete' => Owing'
                    /\ Overlong' => Over'
                    /\ req'.method = "none" => body' = 0 /\ ~eof'
  BY DEF OwedInv, AnswerOwed, Owing
<1>t. /\ TypeOK /\ stream \in Stream /\ stream' \in Stream /\ body \in Nat
      /\ req \in [method : Methods, clen : Nat \cup {NoLength}, target : BOOLEAN]
      /\ Overlong \/ Control
  BY DEF OwedInv, ControlInv, TypeOK
<1>l. Regions \cup {0} \subseteq Nat
  BY SizesAssumption
<1>o. Over => Over' /\ Owing'
  <2>1. Follows(stream', stream)
    BY StepFollows DEF OwedInv, ControlInv
  <2>2. QED
    BY <2>1 DEF Follows, Over, Owing
<1>w. ~Writable(stream) => Over
  BY DEF Writable, Over
<1>e. stream' = SendErrorResponse(stream) => Over' /\ Owing'
  BY <1>t, SendErrorEnds DEF Over, Ended, Owing
<1>f. Fresh \/ (Reading /\ req.method = "GET") => ~stream.sent \/ Over
  BY <1>t DEF Fresh, Reading, OwedInv, Control, Unanswered
<1>1. CASE Headers
  <2>1. Fresh /\ body = 0 /\ ~eof /\ body' = body
    BY <1>1
    DEF Headers, InvalidHeaders, RequestHeaders, RequestHeadersAndFin,
        ConnectHeaders, ConnectHeadersAndFin, WebTransportHeaders,
        WebTransportHeadersAndFin, Fresh, OwedInv
  <2>2. ~Overlong'
    <3>1. req' \in [method : Methods, clen : Nat \cup {NoLength}, target : BOOLEAN]
      BY DEF ControlInv, TypeOK
    <3>2. QED
      BY <2>1, <3>1 DEF Overlong, TooLong, NoLength
  <2>3. CASE InvalidHeaders
    BY <2>1, <2>2, <2>3 DEF InvalidHeaders, Fresh, Complete
  <2>4. ASSUME NEW target \in BOOLEAN, NEW clen \in ContentLengths,
               RequestHeaders(target, clen)
        PROVE  ~Complete' /\ req'.method # "none"
    BY <2>1, <2>4 DEF RequestHeaders, Complete
  <2>5. ASSUME NEW target \in BOOLEAN, NEW clen \in ContentLengths,
               RequestHeadersAndFin(target, clen)
        PROVE  Owing' /\ req'.method # "none"
    <3>1. CASE SendResponse(req', 0)
      BY <2>1, <2>5, <3>1, <1>f, <1>o, <1>t, SendResponseGoesOn
      DEF RequestHeadersAndFin
    <3>2. QED
      BY <2>5, <3>1, <1>o, <1>w DEF RequestHeadersAndFin
  <2>6. ASSUME NEW clen \in ConnectLengths, ConnectHeaders(clen)
        PROVE  Owing' /\ req'.method # "none"
    BY <2>1, <2>6, <1>f, <1>o, <1>t, AskGoesOn
    DEF ConnectHeaders, HandleConnectHeaders
  <2>7. ASSUME NEW clen \in ConnectLengths, ConnectHeadersAndFin(clen)
        PROVE  Owing' /\ req'.method # "none"
    <3> DEFINE s == IF Writable(stream) THEN HandleConnectData(stream) ELSE stream
    <3>1. s \in Stream /\ s.sent = stream.sent
      BY <1>t, ResetFacts DEF HandleConnectData
    <3>2. Ask(s, ConnectResponses) /\ req'.method # "none"
      BY <2>7 DEF ConnectHeadersAndFin, HandleConnectHeaders
    <3> HIDE DEF s
    <3>3. QED
      BY <2>1, <3>1, <3>2, <1>f, <1>o, AskGoesOn
  <2>8. ASSUME NEW accepted \in BOOLEAN,
               \/ WebTransportHeaders(accepted)
               \/ WebTransportHeadersAndFin(accepted)
        PROVE  ~Complete' /\ req'.method # "none"
    BY <2>8 DEF WebTransportHeaders, WebTransportHeadersAndFin, Complete
  <2>9. QED
    BY <1>1, <2>2, <2>3, <2>4, <2>5, <2>6, <2>7, <2>8 DEF Headers
<1>2. CASE Body
  <2>1. req'.method # "none"
    BY <1>2
    DEF Body, BodyTooLong, BodyAvailable, ConnectDataAvailable, BodyComplete,
        ConnectDataComplete, Receive, Reading, WebTransportFin
  <2>2. ASSUME NEW n \in Regions, BodyTooLong(n)
        PROVE  Owing' /\ Over'
    BY <2>2, <1>e DEF BodyTooLong
  <2>3. ASSUME NEW n \in Regions, BodyAvailable(n)
        PROVE  ~Complete' /\ ~Overlong'
    BY <2>3 DEF BodyAvailable, Receive, Reading, Complete, Overlong
  <2>4. ASSUME NEW n \in Regions, ConnectDataAvailable(n)
        PROVE  Owing' /\ ~Overlong'
    <3>1. Owing
      BY <2>4
      DEF ConnectDataAvailable, Receive, OwedInv, AnswerOwed, Complete, Owing
    <3>2. ASSUME stream' = stream PROVE Owing'
      BY <2>4, <3>1, <3>2
      DEF ConnectDataAvailable, Owing, Over, EndlessAnswer
    <3>3. ASSUME stream' = Reset(stream) PROVE Owing'
      BY <3>3, <1>t DEF Reset, Owing, Over, Stream
    <3>4. ~Overlong'
      BY <2>4, <1>t DEF ConnectDataAvailable, Receive, Overlong, TooLong, NoLength
    <3>5. QED
      BY <2>4, <3>2, <3>3, <3>4 DEF ConnectDataAvailable, HandleConnectData
  <2>5. ASSUME NEW n \in Regions \cup {0}, BodyComplete(n)
        PROVE  Owing' /\ ~Overlong'
    <3>1. Reading /\ req.method = "GET" /\ UNCHANGED req
      BY <2>5 DEF BodyComplete, Receive
    <3>2. ASSUME SendResponse(req, body + n) PROVE Owing'
      BY <3>1, <3>2, <1>f, <1>o, <1>t, SendResponseGoesOn
    <3>3. QED
      BY <2>5, <3>1, <3>2, <1>o, <1>w DEF BodyComplete, Overlong
  <2>6. ASSUME NEW n \in Regions \cup {0}, ConnectDataComplete(n)
        PROVE  Owing' /\ (Overlong' => Over')
    <3>1. Owing
      BY <2>6
      DEF ConnectDataComplete, Receive, OwedInv, AnswerOwed, Complete, Owing
    <3>2. ASSUME stream' = stream PROVE Owing'
      BY <2>6, <3>1, <3>2
      DEF ConnectDataComplete, Owing, Over, EndlessAnswer
    <3>3. ASSUME stream' = Reset(stream) PROVE Owing'
      BY <3>3, <1>t DEF Reset, Owing, Over, Stream
    <3>4. ~Overlong'
      BY <2>6, <1>t
      DEF ConnectDataComplete, Receive, Overlong, TooLong, NoLength
    <3>5. QED
      BY <2>6, <3>2, <3>3, <3>4 DEF ConnectDataComplete, HandleConnectData
  <2>7. CASE WebTransportFin
    BY <2>7 DEF WebTransportFin, Complete, Overlong
  <2>8. QED
    BY <1>2, <2>1, <2>2, <2>3, <2>4, <2>5, <2>6, <2>7 DEF Body
(* The remaining actions leave the request alone.                          *)
<1>r. ASSUME UNCHANGED <<req, body, eof>>, Complete /\ ~Over => Owing'
      PROVE  /\ Complete' => Owing'
             /\ Overlong' => Over'
             /\ req'.method = "none" => body' = 0 /\ ~eof'
  BY <1>r, <1>o DEF Complete, Overlong, TooLong, OwedInv
<1>a. Complete /\ ~Over /\ (asked = "answer" \/ alarm # NoAnswer) => ~stream.sent
  BY <1>t DEF OwedInv, Complete, Control, Unanswered
<1>3. ASSUME NEW r \in Responses \cup ConnectResponses, BackendResponds(r)
      PROVE  /\ UNCHANGED <<req, body, eof>>
             /\ Complete /\ ~Over => Owing'
  BY <1>3, <1>a, <1>t, BackendCompleteGoesOn DEF BackendResponds
<1>4. ASSUME NEW closeStream \in BOOLEAN, NEW data \in BOOLEAN,
             SendStreamData(closeStream, data)
      PROVE  /\ UNCHANGED <<req, body, eof>>
             /\ Owing'
  <2>1. closeStream => Ended(stream')
    BY <1>4, <1>t, SendAllEnds DEF SendStreamData
  <2>2. QED
    BY <1>4, <2>1 DEF SendStreamData, Owing, Over, Ended
<1>5. CASE OnAlarm
  <2>1. alarm \in Responses \cup ConnectResponses /\ alarm.delayed
    BY <1>5, <1>t DEF OnAlarm, TypeOK, Delayed
  <2>2. alarm.type # "NULL"
    BY <2>1, ResponsesAssumption DEF LegalResponse
  <2>3. QED
    BY <1>5, <1>r, <1>a, <1>t, <2>1, <2>2, RespondWithGoesOn DEF OnAlarm
<1>6. ASSUME NEW chunks \in 1..stream.gen, OnCanWrite(chunks)
      PROVE  /\ UNCHANGED <<req, body, eof>>
             /\ Owing'
  <2>1. chunks \in Nat /\ stream.gen > 0
    BY <1>6, <1>t DEF Stream, OnCanWrite
  <2>2. stream'.gen > 0 \/ Ended(stream')
    BY <1>6, <1>t, <2>1, GeneratedEnds DEF OnCanWrite
  <2>3. QED
    BY <1>6, <2>2 DEF OnCanWrite, Owing, Over, Ended
<1>7. CASE TerminateStreamWithError \/ PeerStopSending \/ Destroy
  <2>1. UNCHANGED <<req, body, eof>>
    BY <1>7 DEF TerminateStreamWithError, PeerStopSending, Destroy
  <2>2. Over'
    BY <1>7, <1>t
    DEF TerminateStreamWithError, PeerStopSending, Destroy, Reset, Over, Stream
  <2>3. QED
    BY <2>1, <2>2, <1>r DEF Owing
<1>8. CASE PeerResetStream \/ UNCHANGED vars
  <2>1. /\ UNCHANGED <<req, body, eof, asked, alarm>>
        /\ stream'.fin = stream.fin /\ stream'.side = stream.side
        /\ stream'.gen = stream.gen /\ stream'.sent = stream.sent
    BY <1>8, <1>t DEF PeerResetStream, vars, Stream
  <2>2. Complete => Owing'
    BY <2>1 DEF OwedInv, AnswerOwed, Owing, Over, EndlessAnswer
  <2>3. QED
    BY <2>1, <2>2, <1>r
<1>9. QED
  BY <1>1, <1>2, <1>3, <1>4, <1>5, <1>6, <1>7, <1>8, <1>r DEF Next, Backend

(* A complete request always has somebody to go on with it: the backend it *)
(* was passed to, the alarm, or the OnCanWrite that generates the rest.    *)
THEOREM NoRequestForgotten == Spec => []AnswerOwed
<1>1. Init => OwedInv
  <2>1. Init => ControlInv
    BY InitTypeOK DEF Init, ControlInv, Control, Unanswered, Sound, Garbled, NotANumber
  <2>2. Init => ~Complete /\ ~Overlong /\ body = 0 /\ ~eof
    BY DEF Init, Complete, Overlong
  <2>3. QED
    BY <2>1, <2>2 DEF OwedInv, AnswerOwed
<1>2. OwedInv => AnswerOwed
  BY DEF OwedInv
<1>3. QED
  BY <1>1, <1>2, ControlInvariant, OwedStep, PTL DEF Spec

(* An answer that comes is nearer to the end than the one that was owed.   *)
LEMMA AnswerComes ==
  ASSUME TypeOK, asked = "answer", NEW r \in Responses \cup ConnectResponses,
         OnResponseBackendComplete(stream, r)
  PROVE  \/ Over'
         \/ Stage' < Stage
         \/ UNCHANGED <<asked, alarm, stream.gen>>
<1>t. stream \in Stream
  BY DEF TypeOK
<1>1. CASE stream' = SendNotFoundResponse(stream)
  BY <1>1, <1>t, SendErrorEnds DEF Over, Ended
<1>2. CASE r.type # "NULL" /\ RespondWith(stream, r) /\ UNCHANGED alarm
  <2>1. asked' = "answer" => stream'.gen = stream.gen
    BY <1>2, <1>t, RespondWithGoesOn
  <2>2. asked' # "answer" => Stage' < Stage
    BY DEF Stage
  <2>3. QED
    BY <1>2, <2>1, <2>2
<1>3. CASE r.delayed /\ asked' = "no"
  BY <1>3 DEF Stage
<1>4. QED
  BY <1>1, <1>2, <1>3 DEF OnResponseBackendComplete

(* Every step at a complete request brings the end of its answer nearer,   *)
(* or leaves what is pending as it was.                                    *)
LEMMA NearerStep ==
  ASSUME TypeOK, TypeOK', [Next]_vars, Complete, ~Over
  PROVE  \/ Over'
         \/ Stage' < Stage
         \/ Stage' = Stage /\ stream'.gen < stream.gen
         \/ UNCHANGED <<asked, alarm, stream.gen>>
         \/ alarm.status = "100" /\ alarm' = NoAnswer /\ asked' = "answer"
<1> DEFINE Goal == \/ Over'
                   \/ Stage' < Stage
                   \/ Stage' = Stage /\ stream'.gen < stream.gen
                   \/ UNCHANGED <<asked, alarm, stream.gen>>
                   \/ alarm.status = "100" /\ alarm' = NoAnswer /\ asked' = "answer"
<1>t. stream \in Stream /\ stream' \in Stream
  BY DEF TypeOK
<1>c. stream' = stream \/ stream' = Reset(stream) =>
        stream'.gen = stream.gen
  BY <1>t DEF Reset, Stream
<1>1. ~Headers
  BY DEF Headers, InvalidHeaders, RequestHeaders, RequestHeadersAndFin,
         ConnectHeaders, ConnectHeadersAndFin, WebTransportHeaders,
         WebTransportHeadersAndFin, Fresh, Complete
<1>2. CASE Body
  <2>1. ASSUME NEW n \in Regions, BodyTooLong(n)
        PROVE  Over'
    BY <2>1, <1>t, SendErrorEnds DEF BodyTooLong, Over, Ended
  <2>2. ASSUME NEW n, \/ ConnectDataAvailable(n)
                      \/ ConnectDataComplete(n)
        PROVE  UNCHANGED <<asked, alarm, stream.gen>>
    BY <2>2, <1>c
    DEF ConnectDataAvailable, ConnectDataComplete, HandleConnectData
  <2>3. ASSUME NEW n PROVE ~BodyAvailable(n) /\ ~BodyComplete(n)
    BY DEF BodyAvailable, BodyComplete, Receive, Reading, Complete
  <2>4. ~WebTransportFin
    BY DEF WebTransportFin, Complete
  <2>5. QED
    BY <1>2, <2>1, <2>2, <2>3, <2>4 DEF Body
<1>3. ASSUME NEW r \in Responses \cup ConnectResponses, BackendResponds(r)
      PROVE  Goal
  BY <1>3, AnswerComes DEF BackendResponds
<1>4. ASSUME NEW closeStream \in BOOLEAN, NEW data \in BOOLEAN,
             SendStreamData(closeStream, data)
      PROVE  Goal
  <2>1. CASE closeStream
    BY <1>4, <2>1, <1>t, SendAllEnds DEF SendStreamData, Over, Ended
  <2>2. CASE ~closeStream
    BY <1>4, <2>2, <1>t, SendIncompleteGenerates DEF SendStreamData
  <2>3. QED
    BY <2>1, <2>2
<1>5. CASE OnAlarm
  <2>1. alarm \in Responses \cup ConnectResponses /\ alarm.delayed
    BY <1>5 DEF OnAlarm, TypeOK, Delayed
  <2>2. alarm.type # "NULL"
    BY <2>1, ResponsesAssumption DEF LegalResponse
  <2>3. asked' = "answer" => alarm.status = "100"
    BY <1>5, <1>t, <2>1, <2>2, RespondWithGoesOn DEF OnAlarm
  <2>4. asked' # "answer" => Stage' < Stage
    BY <1>5 DEF OnAlarm, Stage
  <2>5. QED
    BY <1>5, <2>3, <2>4 DEF OnAlarm
<1>6. ASSUME NEW chunks \in 1..stream.gen, OnCanWrite(chunks)
      PROVE  Goal
  <2>1. chunks \in Nat /\ chunks > 0 /\ stream.gen > 0
    BY <1>6, <1>t DEF Stream, OnCanWrite
  <2>2. stream'.gen < stream.gen
    BY <1>6, <1>t, <2>1, GeneratedEnds DEF OnCanWrite
  <2>3. Stage' = Stage
    BY <1>6 DEF OnCanWrite, Stage
  <2>4. QED
    BY <2>2, <2>3
<1>7. CASE TerminateStreamWithError \/ PeerStopSending \/ Destroy
  BY <1>7, <1>t
  DEF TerminateStreamWithError, PeerStopSending, Destroy, Reset, Over, Stream
<1>8. CASE PeerResetStream \/ UNCHANGED vars
  BY <1>8, <1>t DEF PeerResetStream, vars, Stream
<1>9. QED
  BY <1>1, <1>2, <1>3, <1>4, <1>5, <1>6, <1>7, <1>8 DEF Next, Backend

(* Every step at a complete request that changes what is pending brings    *)
(* the end of its answer nearer: the backend, the alarm and OnCanWrite     *)
(* cannot pass it back and forth, but for interim 100 responses.           *)
THEOREM AnswerComesNearer == Spec => AnswerNearer
<1>1. TypeOK /\ TypeOK' /\ [Next]_vars =>
        [Complete /\ ~Over =>
           \/ Over'
           \/ Stage' < Stage
           \/ Stage' = Stage /\ stream'.gen < stream.gen
           \/ UNCHANGED <<asked, alarm, stream.gen>>
           \/ alarm.status = "100" /\ alarm' = NoAnswer /\ asked' = "answer"]_vars
  BY NearerStep
<1>2. QED
  BY <1>1, TypeCorrect, PTL DEF Spec, AnswerNearer
============================================================================
