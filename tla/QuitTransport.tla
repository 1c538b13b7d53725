--------------------------- MODULE QuitTransport ---------------------------
(***************************************************************************)
(* One WebTransport session: QuitConverter accepts the streams the client  *)
(* opens, QuitTransportStream hands what is read from them to the          *)
(* application, and QuailTransport::Send writes what the application sends,*)
(* in reply to a message or at any other time.                             *)
(*                                                                         *)
(* Below them is QUICHE's WebTransportHttp3 (external): it keeps streams   *)
(* that come before the session, queues new streams and tells the visitor  *)
(* of each, and calls a stream's visitor when more of the stream arrives.  *)
(* A handler with all it calls, the application included, is one step.     *)
(***************************************************************************)
EXTENDS Integers, Sequences

CONSTANTS
  Streams,    \* bidirectional streams the client may open
  Sizes,      \* bytes one delivery adds to a stream
  MaxBytes,   \* bound: bytes the client sends on one stream
  Threshold,  \* replies a stream buffers before it takes no more
  MaxUni      \* bound: unidirectional streams, and credit for answers

ASSUME ConstantsAssumption ==
  /\ Sizes \subseteq Nat
  /\ MaxBytes \in Nat
  /\ Threshold \in Nat \ {0}
  /\ MaxUni \in Nat

VARIABLES
  session,    \* the session, as far as its visitor can tell
  transport,  \* has OnSessionReady set transport_?
  waiting,    \* streams that came before the session (buffered_streams_)
  incoming,   \* incoming_bidirectional_streams_
  stream,     \* the streams
  uni,        \* the unidirectional streams
  crashed     \* the call of the application that used a null or dead pointer

vars == <<session, transport, waiting, incoming, stream, uni, crashed>>

(* "refused": the path has no callback.  "closed": OnSessionClosed was     *)
(* called, the CONNECT stream is still there.                              *)
Sessions == {"none", "ready", "refused", "closed", "gone"}

(* "reply": Send from the callback of a message; "push": Send from         *)
(* anywhere else; "session": a call on a session that is deleted.          *)
Crashes == {"no", "reply", "push", "session"}

(* stream.phase    "held": not given to a visitor yet                      *)
(* stream.got      bytes received, stream.read  bytes given to the         *)
(*                 application                                             *)
(* stream.early    history: bytes received when the visitor was set        *)
(* stream.fin      the FIN of the client: received, read                   *)
(* stream.reset    the read side was closed without reading the FIN        *)
(* stream.stopped  write_side_closed()                                     *)
(* stream.told     has signal_message_ been emitted for it?                *)
(* stream.pending  replies that wait for flow control                      *)
Stream == [phase : {"idle", "held", "accepted"}, got : Nat, read : Nat,
           early : Nat, fin : {"no", "received", "read"},
           reset : BOOLEAN, stopped : BOOLEAN, told : BOOLEAN, pending : Nat]

(* uni.waiting  streams that came before the session                       *)
(* uni.credit   streams the client lets the server open                    *)
(* uni.blocked  opened streams whose text waits for flow control           *)
(* uni.copies   texts written on opened streams                            *)
Uni == [waiting : Nat, arrived : Nat, credit : Nat, opened : Nat,
        blocked : Nat, copies : Nat]

TypeOK ==
  /\ session \in Sessions
  /\ transport \in BOOLEAN
  /\ waiting \in Seq(Streams)
  /\ incoming \in Seq(Streams)
  /\ stream \in [Streams -> Stream]
  /\ uni \in Uni
  /\ crashed \in Crashes

Init ==
  /\ session = "none"
  /\ transport = FALSE
  /\ waiting = <<>>
  /\ incoming = <<>>
  /\ stream = [s \in Streams |->
                [phase |-> "idle", got |-> 0, read |-> 0, early |-> 0,
                 fin |-> "no", reset |-> FALSE, stopped |-> FALSE,
                 told |-> FALSE, pending |-> 0]]
  /\ uni = [waiting |-> 0, arrived |-> 0, credit |-> 0, opened |-> 0,
            blocked |-> 0, copies |-> 0]
  /\ crashed = "no"

----------------------------------------------------------------------------
ReadClosed(t) == t.fin = "read" \/ t.reset

(* A stream closed on both sides is gone: it cannot be looked up any more. *)
Closed(t) == ReadClosed(t) /\ t.stopped

Visited == session \in {"ready", "closed"}

(* SetVisitor; what the stream has received already stays unread, since    *)
(* OnCanRead is not called (the call is commented out).                    *)
SetVisitor(t) == [t EXCEPT !.phase = "accepted", !.early = t.got]

----------------------------------------------------------------------------
(* Mutant: a stream is opened without asking whether it can be.            *)
TrySendingUnidirectionalStreams_Unasked(u, n) ==
  uni' = [u EXCEPT !.credit = @ - n, !.opened = @ + n, !.copies = @ + n]

(* TrySendingUnidirectionalStreams, called n times: as many streams are    *)
(* opened as there is credit for, each with one text; some are blocked.    *)
TrySendingUnidirectionalStreams(u, n) ==
  LET opened == IF n < u.credit THEN n ELSE u.credit
  IN  \E blocked \in 0..opened :
        uni' = [u EXCEPT !.credit = @ - opened, !.opened = @ + opened,
                         !.copies = @ + opened, !.blocked = @ + blocked]

(* Mutant: HeadersReceived before SetVisitor.                              *)
HeadersReceived_BeforeVisitor ==
  /\ session = "none"
  /\ session' = "ready"
  /\ incoming' = incoming \o waiting
  /\ waiting' = <<>>
  /\ uni' = [uni EXCEPT !.waiting = 0]
  /\ UNCHANGED <<transport, stream, crashed>>

(* The session's first step: the CONNECT is answered with 200, the         *)
(* converter is set as visitor and HeadersReceived calls OnSessionReady,   *)
(* which gives the application its transport; then the streams that came   *)
(* early are associated, and each is accepted, if it is still there.       *)
HeadersReceived ==
  /\ session = "none"
  /\ session' = "ready"
  /\ transport' = TRUE
  /\ waiting' = <<>>
  /\ stream' = [s \in Streams |->
       IF stream[s].phase = "held" /\ ~Closed(stream[s])
         THEN SetVisitor(stream[s]) ELSE stream[s]]
  /\ TrySendingUnidirectionalStreams([uni EXCEPT !.waiting = 0], uni.waiting)
  /\ UNCHANGED <<incoming, crashed>>

(* No callback is registered for the path: 404, and no visitor.            *)
RefuseSession ==
  /\ session = "none"
  /\ session' = "refused"
  /\ UNCHANGED <<transport, waiting, incoming, stream, uni, crashed>>

(* AcceptIncomingBidirectionalStream: the first stream that is still there *)
(* (external).                                                             *)
Acceptable(queue) == {i \in 1..Len(queue) : ~Closed(stream[queue[i]])}

(* OnIncomingBidirectionalStreamAvailable, with t the state of the stream  *)
(* s that is new: one stream is accepted for each call.                    *)
OnIncomingBidirectionalStreamAvailable(s, t, queue) ==
  \E i \in Acceptable(queue) :
    /\ \A j \in Acceptable(queue) : i <= j
    /\ incoming' = SubSeq(queue, i + 1, Len(queue))
    /\ stream' = IF queue[i] = s
                   THEN [stream EXCEPT ![s] = SetVisitor(t)]
                   ELSE [stream EXCEPT ![s] = t,
                                       ![queue[i]] = SetVisitor(@)]

(* The first delivery of a stream: its header, perhaps with data and FIN.  *)
OpenStream(s, n, fin) ==
  LET t == [stream[s] EXCEPT !.phase = "held", !.got = n,
                             !.fin = IF fin THEN "received" ELSE "no"]
  IN  /\ stream[s].phase = "idle"
      /\ n <= MaxBytes
      /\ \/ /\ Visited
            /\ OnIncomingBidirectionalStreamAvailable(s, t, Append(incoming, s))
            /\ UNCHANGED waiting
         \/ /\ session = "refused"
            /\ incoming' = Append(incoming, s)
            /\ stream' = [stream EXCEPT ![s] = t]
            /\ UNCHANGED waiting
         \/ /\ session \in {"none", "gone"}
            /\ waiting' = Append(waiting, s)
            /\ stream' = [stream EXCEPT ![s] = t]
            /\ UNCHANGED incoming
      /\ UNCHANGED <<session, transport, uni, crashed>>

----------------------------------------------------------------------------
(* QuailTransport::Send, with t the state of stream s: a stream that is    *)
(* gone is not found and dereferenced all the same; a closed write side or *)
(* a full buffer refuses the data, which is dropped; else it is sent or    *)
(* waits for flow control.                                                 *)
Send(s, t, caller) ==
  \/ /\ Closed(t)
     /\ crashed' = caller
     /\ stream' = [stream EXCEPT ![s] = t]
  \/ /\ ~Closed(t)
     /\ t.stopped \/ t.pending >= Threshold
     /\ stream' = [stream EXCEPT ![s] = t]
     /\ UNCHANGED crashed
  \/ /\ ~Closed(t)
     /\ ~t.stopped
     /\ t.pending < Threshold
     /\ \E n \in (IF t.pending = 0 THEN 0..1 ELSE {1}) :
          stream' = [stream EXCEPT ![s] = [t EXCEPT !.pending = @ + n]]
     /\ UNCHANGED crashed

(* Mutant: a fixed-size buffer, one byte at a time.                        *)
Read_OneByte(t) ==
  [t EXCEPT !.read = IF t.read < t.got THEN t.read + 1 ELSE t.got,
            !.fin = IF @ = "received" /\ t.read + 1 >= t.got THEN "read" ELSE @,
            !.told = TRUE]

(* Everything that can be read is read; a FIN that is read closes the read *)
(* side before the message goes to the application.                        *)
Read(t) == [t EXCEPT !.read = t.got,
                     !.fin = IF @ = "received" THEN "read" ELSE @,
                     !.told = TRUE]

(* Mutant: the FIN of the client is answered, as the line that is          *)
(* commented out meant to.                                                 *)
OnCanRead_SendsFin(s, t) ==
  /\ stream' = [stream EXCEPT ![s] = [Read(t) EXCEPT
                  !.stopped = @ \/ t.fin = "received"]]
  /\ UNCHANGED crashed

(* QuitTransportStream::OnCanRead: the message is emitted, even an empty   *)
(* one when only the FIN came, and the application replies, or does not.   *)
OnCanRead(s, t) ==
  \/ Send(s, Read(t), "reply")
  \/ /\ stream' = [stream EXCEPT ![s] = Read(t)]
     /\ UNCHANGED crashed

(* More of a stream arrives; a visitor, if it has one, is called.          *)
DataArrives(s, n, fin) ==
  LET t == [stream[s] EXCEPT !.got = @ + n,
                             !.fin = IF fin THEN "received" ELSE "no"]
  IN  /\ stream[s].phase # "idle"
      /\ stream[s].fin = "no"
      /\ ~stream[s].reset
      /\ n > 0 \/ fin
      /\ stream[s].got + n <= MaxBytes
      /\ \/ /\ stream[s].phase = "accepted"
            /\ OnCanRead(s, t)
         \/ /\ stream[s].phase = "held"
            /\ stream' = [stream EXCEPT ![s] = t]
            /\ UNCHANGED crashed
      /\ UNCHANGED <<session, transport, waiting, incoming, uni>>

(* The application sends on a stream that it was told of, whenever it      *)
(* likes: it keeps the transport, and nothing tells it that a stream or    *)
(* the session has ended.  QUICHE deletes the session some time after its  *)
(* CONNECT stream is closed.                                               *)
Push(s) ==
  /\ stream[s].told
  /\ \/ Send(s, stream[s], "push")
     \/ session = "gone" /\ crashed' = "session" /\ UNCHANGED stream
  /\ UNCHANGED <<session, transport, waiting, incoming, uni>>

(* QuailTransport::SendDatagram; a session that is there queues it.        *)
SendDatagram ==
  /\ transport /\ session = "gone"
  /\ crashed' = "session"
  /\ UNCHANGED <<session, transport, waiting, incoming, stream, uni>>

(* The peer's STOP_SENDING and RESET_STREAM (external): the visitor's      *)
(* handlers log them.                                                      *)
OnStopSendingReceived(s) ==
  /\ stream[s].phase # "idle"
  /\ ~stream[s].stopped
  /\ stream' = [stream EXCEPT ![s].stopped = TRUE, ![s].pending = 0]
  /\ UNCHANGED <<session, transport, waiting, incoming, uni, crashed>>

(* Mutant: the application is told of a reset as of a message.             *)
OnResetStreamReceived_Relays(s) ==
  /\ stream[s].phase # "idle"
  /\ ~ReadClosed(stream[s])
  /\ Send(s, [stream[s] EXCEPT !.reset = TRUE, !.told = TRUE], "reply")
  /\ UNCHANGED <<session, transport, waiting, incoming, uni>>

OnResetStreamReceived(s) ==
  /\ stream[s].phase # "idle"
  /\ ~ReadClosed(stream[s])
  /\ stream' = [stream EXCEPT ![s].reset = TRUE]
  /\ UNCHANGED <<session, transport, waiting, incoming, uni, crashed>>

(* Flow control lets buffered replies go; OnCanWrite adds nothing.         *)
OnCanWrite(s) ==
  /\ stream[s].pending > 0
  /\ stream' = [stream EXCEPT ![s].pending = @ - 1]
  /\ UNCHANGED <<session, transport, waiting, incoming, uni, crashed>>

----------------------------------------------------------------------------
(* Unidirectional streams.  What the client sends on one is discarded.     *)
OnIncomingUnidirectionalStreamAvailable ==
  /\ uni.arrived < MaxUni
  /\ LET u == [uni EXCEPT !.arrived = @ + 1]
     IN  \/ Visited /\ TrySendingUnidirectionalStreams(u, 1)
         \/ session = "none" /\ uni' = [u EXCEPT !.waiting = @ + 1]
         \/ session \in {"refused", "gone"} /\ uni' = u
  /\ UNCHANGED <<session, transport, waiting, incoming, stream, crashed>>

(* More credit; OnCanCreateNewOutgoingUnidirectionalStream does nothing.   *)
OnCanCreateNewOutgoingUnidirectionalStream ==
  /\ uni.credit + uni.opened < MaxUni
  /\ uni' = [uni EXCEPT !.credit = @ + 1]
  /\ UNCHANGED <<session, transport, waiting, incoming, stream, crashed>>

(* QuitUniStreamWriteVisitor::OnCanWrite writes its text again.            *)
OnCanWriteUni ==
  /\ uni.blocked > 0
  /\ uni.copies < 2 * MaxUni
  /\ \E blocked \in 0..1 :
       uni' = [uni EXCEPT !.copies = @ + 1, !.blocked = @ - 1 + blocked]
  /\ UNCHANGED <<session, transport, waiting, incoming, stream, crashed>>

----------------------------------------------------------------------------
(* The client closes the session: OnSessionClosed.  Its streams live on    *)
(* until the CONNECT stream is closed, which resets them (external).       *)
OnSessionClosed ==
  /\ session = "ready"
  /\ session' = "closed"
  /\ UNCHANGED <<transport, waiting, incoming, stream, uni, crashed>>

ConnectStreamCloses ==
  /\ session \in {"ready", "refused", "closed"}
  /\ session' = "gone"
  /\ stream' = [s \in Streams |->
       IF stream[s].phase = "idle" \/ \E i \in 1..Len(waiting) : waiting[i] = s
         THEN stream[s]
         ELSE [stream[s] EXCEPT !.reset = TRUE, !.stopped = TRUE,
                                !.pending = 0]]
  /\ incoming' = <<>>
  /\ uni' = [uni EXCEPT !.blocked = 0]
  /\ UNCHANGED <<transport, waiting, crashed>>

(* The connection closes, and every stream with it (external).             *)
ConnectionCloses ==
  /\ session' = "gone"
  /\ stream' = [s \in Streams |->
       IF stream[s].phase = "idle" THEN stream[s]
         ELSE [stream[s] EXCEPT !.reset = TRUE, !.stopped = TRUE,
                                !.pending = 0]]
  /\ waiting' = <<>>
  /\ incoming' = <<>>
  /\ uni' = [uni EXCEPT !.waiting = 0, !.blocked = 0]
  /\ UNCHANGED <<transport, crashed>>

Session == \/ HeadersReceived
           \/ RefuseSession
           \/ OnSessionClosed
           \/ ConnectStreamCloses
           \/ ConnectionCloses
           \/ SendDatagram

Client(s) ==
  \/ \E n \in Sizes, fin \in BOOLEAN : OpenStream(s, n, fin)
  \/ \E n \in Sizes, fin \in BOOLEAN : DataArrives(s, n, fin)
  \/ OnStopSendingReceived(s)
  \/ OnResetStreamReceived(s)
  \/ OnCanWrite(s)
  \/ Push(s)

Unidirectional ==
  \/ OnIncomingUnidirectionalStreamAvailable
  \/ OnCanCreateNewOutgoingUnidirectionalStream
  \/ OnCanWriteUni

(* A program that has used a null or dead pointer stops.                   *)
Next == crashed = "no" /\ (Session \/ Unidirectional \/ \E s \in Streams : Client(s))

Spec == Init /\ [][Next]_vars
----------------------------------------------------------------------------
(* transport_ is set by OnSessionReady and used by the callback of every   *)
(* stream: no message is relayed before it is set, and none in a session   *)
(* that was refused, whatever came before the session.                     *)
TransportReady ==
  \A s \in Streams : stream[s].told =>
    transport /\ session \in {"ready", "closed", "gone"}

(* One stream is accepted for each notification: none is left in the queue *)
(* of a session with a visitor, and each stream has its visitor, unless it *)
(* was gone by then.                                                       *)
EveryStreamAccepted ==
  Visited => /\ incoming = <<>>
             /\ \A s \in Streams :
                  stream[s].phase = "held" => Closed(stream[s])

(* Bytes, or a FIN, wait unread only when nothing has arrived since the    *)
(* stream got its visitor: OnCanRead is not called for what came with the  *)
(* stream's header or before the session, and reads everything later.      *)
OnlyEarlyBytesWait ==
  \A s \in Streams :
    stream[s].phase = "accepted" /\ ~stream[s].reset =>
      \/ stream[s].read = stream[s].got /\ stream[s].fin # "received"
      \/ ~stream[s].told /\ stream[s].got = stream[s].early

(* A reply finds its stream, unless the client stopped sending on it and   *)
(* then finished it: the FIN that is read removes the stream before the    *)
(* application replies to the message that came with it.  What is sent at  *)
(* another time fails only on a stream that the client has closed on both  *)
(* sides or that went with its session; and a session that was never       *)
(* ready, or is still there, is never used dead.                           *)
SendFindsStream ==
  /\ crashed = "reply" => \E s \in Streams :
       stream[s].stopped /\ stream[s].fin = "read" /\ stream[s].told
  /\ crashed = "push" => \E s \in Streams :
       stream[s].told /\ Closed(stream[s])
  /\ crashed = "session" => transport /\ session = "gone"
=============================================================================
