----------------------------- MODULE EchoStream -----------------------------
(***************************************************************************)
(* WebTransportBidirectionalEchoVisitor: what it reads on a stream it      *)
(* writes back on it, and FIN after it.  Each handler is one step.  The    *)
(* stream below (external) takes a write whole, however large, while less  *)
(* than Threshold waits in it, and none otherwise; OnCanWrite comes when   *)
(* flow control has made room.                                             *)
(***************************************************************************)
EXTENDS Integers, Sequences

CONSTANTS
  Bytes,      \* what the client sends
  Chunks,     \* what one delivery adds: sequences of Bytes
  MaxBytes,   \* bound: bytes the client sends
  Threshold   \* bytes the stream buffers before it takes no write

ASSUME ConstantsAssumption ==
  /\ Chunks \subseteq Seq(Bytes)
  /\ MaxBytes \in Nat
  /\ Threshold \in Nat \ {0}

VARIABLES
  received,               \* history: the bytes the client has sent
  side,                   \* the client's side of the stream
  buffer,                 \* buffer_
  send_fin,               \* send_fin_
  fin_sent,               \* fin_sent_
  stop_sending_received,  \* stop_sending_received_
  written,                \* history: the bytes the stream has taken
  pending,                \* of these, the bytes that wait in it
  fin                     \* has it taken the FIN?

vars == <<received, side, buffer, send_fin, fin_sent, stop_sending_received,
          written, pending, fin>>

TypeOK ==
  /\ received \in Seq(Bytes)
  /\ side \in {"open", "fin", "reset"}
  /\ buffer \in Seq(Bytes)
  /\ send_fin \in BOOLEAN
  /\ fin_sent \in BOOLEAN
  /\ stop_sending_received \in BOOLEAN
  /\ written \in Seq(Bytes)
  /\ pending \in 0..Len(written)
  /\ fin \in BOOLEAN

Init ==
  /\ received = <<>>
  /\ side = "open"
  /\ buffer = <<>>
  /\ send_fin = FALSE
  /\ fin_sent = FALSE
  /\ stop_sending_received = FALSE
  /\ written = <<>>
  /\ pending = 0
  /\ fin = FALSE

----------------------------------------------------------------------------
(* The stream (external).  Of what it takes, flow control sends a part at  *)
(* once, unless something waits already.                                   *)
CanWriteNewData(p) == p < Threshold /\ ~fin

Waiting(p, n) == IF p = 0 THEN 0..n ELSE {p + n}

(* quiche::SendFinOnStream, with p bytes that wait in the stream.          *)
SendFinOnStream(wanted, p) ==
  IF wanted /\ ~fin_sent /\ CanWriteNewData(p)
    THEN fin' = TRUE /\ fin_sent' = TRUE
    ELSE UNCHANGED <<fin, fin_sent>>

(* Mutant: what was written stays in buffer_.                              *)
OnCanWrite_KeepsBuffer(data, wanted, p) ==
  \/ /\ stop_sending_received \/ (data # <<>> /\ ~CanWriteNewData(p))
     /\ buffer' = data
     /\ pending' = p
     /\ UNCHANGED <<written, fin, fin_sent>>
  \/ /\ ~stop_sending_received
     /\ data = <<>> \/ CanWriteNewData(p)
     /\ buffer' = data
     /\ written' = written \o data
     /\ \E q \in Waiting(p, Len(data)) :
          pending' = q /\ SendFinOnStream(wanted, q)

(* OnCanWrite, with data in buffer_, wanted in send_fin_ and p bytes that  *)
(* wait in the stream: nothing after STOP_SENDING; data the stream refuses *)
(* stays in buffer_, and FIN waits for it.                                 *)
OnCanWrite(data, wanted, p) ==
  \/ /\ stop_sending_received \/ (data # <<>> /\ ~CanWriteNewData(p))
     /\ buffer' = data
     /\ pending' = p
     /\ UNCHANGED <<written, fin, fin_sent>>
  \/ /\ ~stop_sending_received
     /\ data = <<>> \/ CanWriteNewData(p)
     /\ buffer' = <<>>
     /\ written' = written \o data
     /\ \E q \in Waiting(p, Len(data)) :
          pending' = q /\ SendFinOnStream(wanted, q)

----------------------------------------------------------------------------
(* Mutant: what is read replaces what buffer_ held.                        *)
OnCanRead_Overwrites(data, end) ==
  /\ side = "open"
  /\ data # <<>> \/ end
  /\ Len(received) + Len(data) <= MaxBytes
  /\ received' = received \o data
  /\ side' = IF end THEN "fin" ELSE "open"
  /\ send_fin' = (send_fin \/ end)
  /\ OnCanWrite(data, send_fin \/ end, pending)
  /\ UNCHANGED stop_sending_received

(* OnCanRead: what has arrived is read to the end of buffer_, and written. *)
OnCanRead(data, end) ==
  /\ side = "open"
  /\ data # <<>> \/ end
  /\ Len(received) + Len(data) <= MaxBytes
  /\ received' = received \o data
  /\ side' = IF end THEN "fin" ELSE "open"
  /\ send_fin' = (send_fin \/ end)
  /\ OnCanWrite(buffer \o data, send_fin \/ end, pending)
  /\ UNCHANGED stop_sending_received

(* Mutant: a reset is noted, and the next OnCanWrite left to answer it.    *)
OnResetStreamReceived_OnlyNotes ==
  /\ side = "open"
  /\ side' = "reset"
  /\ send_fin' = TRUE
  /\ UNCHANGED <<received, buffer, fin_sent, stop_sending_received, written,
                 pending, fin>>

(* A reset of the client's side is answered with FIN.                      *)
OnResetStreamReceived ==
  /\ side = "open"
  /\ side' = "reset"
  /\ send_fin' = TRUE
  /\ OnCanWrite(buffer, TRUE, pending)
  /\ UNCHANGED <<received, stop_sending_received>>

(* STOP_SENDING drops what waits in the stream.                            *)
OnStopSendingReceived ==
  /\ ~stop_sending_received
  /\ stop_sending_received' = TRUE
  /\ pending' = 0
  /\ UNCHANGED <<received, side, buffer, send_fin, fin_sent, written, fin>>

(* Flow control lets bytes go; when there is room for more, and no FIN     *)
(* behind them, OnCanWrite is called (external).                           *)
FlowControlOpens ==
  /\ pending > 0
  /\ \E p \in 0..(pending - 1) :
       \/ CanWriteNewData(p) /\ OnCanWrite(buffer, send_fin, p)
       \/ /\ ~CanWriteNewData(p)
          /\ pending' = p
          /\ UNCHANGED <<buffer, written, fin, fin_sent>>
  /\ UNCHANGED <<received, side, send_fin, stop_sending_received>>

Next ==
  \/ \E data \in Chunks, end \in BOOLEAN : OnCanRead(data, end)
  \/ OnResetStreamReceived
  \/ OnStopSendingReceived
  \/ FlowControlOpens

Spec == Init /\ [][Next]_vars

(* Fairness: the client reads, so that flow control opens again and again. *)
FairSpec == Spec /\ WF_vars(FlowControlOpens)

----------------------------------------------------------------------------
(* Nothing is written behind the FIN, and fin_sent_ and the stream agree   *)
(* on it: once it is set, nothing is left to write, although buffer_ may   *)
(* have been refused any number of times before.                           *)
NothingBehindFin ==
  /\ fin_sent = fin
  /\ fin => buffer = <<>> /\ side # "open"

(* Nobody waits for nobody: what the stream refused, data or FIN, is       *)
(* written by the OnCanWrite that comes because bytes wait in the stream.  *)
RefusedIsRetried ==
  ~stop_sending_received /\ (buffer # <<>> \/ (send_fin /\ ~fin_sent)) =>
    pending >= Threshold

(* The visitor is an echo.                                                 *)
E == INSTANCE Echo WITH
       input <- received, ended <- side # "open",
       cancelled <- stop_sending_received,
       output <- written, finished <- fin

Echoes == E!Spec

(* Once the client's side has ended, every step brings the end of the      *)
(* answer nearer: less is left in buffer_, or as much and less of what was *)
(* written waits in the stream, and nothing adds to either.                *)
EndNearer ==
  [][side # "open" /\ ~fin /\ ~stop_sending_received =>
       \/ fin' \/ stop_sending_received'
       \/ Len(buffer') < Len(buffer)
       \/ buffer' = buffer /\ pending' < pending]_vars

(* "Send FIN in response to a stream reset", and to FIN                    *)
(* (quit_web_transport_visitors.h:86), unless the client has stopped the   *)
(* answer.                                                                 *)
EndAnswered == side # "open" ~> fin \/ stop_sending_received
=============================================================================
