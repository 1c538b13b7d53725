----------------------------- MODULE EchoSession -----------------------------
(***************************************************************************)
(* EchoWebTransportSessionVisitor.  A unidirectional stream of the client  *)
(* is read to its end, its text queued, and sent back on a stream of the   *)
(* server's own, as soon as the client allows one.  One bidirectional      *)
(* stream is opened, as soon as that is allowed, to echo whatever comes on *)
(* it; it and the bidirectional streams of the client are EchoStream's.    *)
(***************************************************************************)
EXTENDS Integers, Sequences

CONSTANTS
  Incoming,   \* streams of the client
  Sizes,      \* bytes one delivery adds
  MaxBytes,   \* bound: bytes the client sends on a stream
  Threshold,  \* bytes a stream buffers before it takes no write
  Grants,     \* streams the client allows at a time
  MaxCredit   \* bound: streams it allows and the server has not opened

ASSUME ConstantsAssumption ==
  /\ Sizes \subseteq Nat
  /\ Grants \subseteq Nat
  /\ MaxBytes \in Nat /\ MaxCredit \in Nat
  /\ Threshold \in Nat \ {0}

VARIABLES
  incoming,              \* the client's streams, as their visitors see them
  streams_to_echo_back,  \* texts, each named by the stream it came on
  credit,                \* streams the session may open
  opened,                \* the streams it has opened
  finished,              \* history: the client's streams in the order of FIN
  ready,                 \* has OnSessionReady been called?
  echo_stream_opened_,   \* echo_stream_opened_
  bidirectional          \* bidirectional streams it may open, and has opened

vars == <<incoming, streams_to_echo_back, credit, opened, finished, ready,
          echo_stream_opened_, bidirectional>>

unidirectional == <<incoming, streams_to_echo_back, credit, opened, finished>>
session == <<ready, echo_stream_opened_, bidirectional>>

(* pending  bytes of the text that wait in the stream;  fin  it has taken  *)
(* the FIN.                                                                *)
Opened == [text : Incoming, pending : Nat, fin : BOOLEAN]

TypeOK ==
  /\ incoming \in [Incoming -> [size : Nat, side : {"open", "fin", "reset"}]]
  /\ streams_to_echo_back \in Seq(Incoming)
  /\ credit \in Nat
  /\ opened \in Seq(Opened)
  /\ finished \in Seq(Incoming)
  /\ ready \in BOOLEAN
  /\ echo_stream_opened_ \in BOOLEAN
  /\ bidirectional \in [credit : Nat, opened : Nat]

Init ==
  /\ incoming = [i \in Incoming |-> [size |-> 0, side |-> "open"]]
  /\ streams_to_echo_back = <<>>
  /\ credit = 0
  /\ opened = <<>>
  /\ finished = <<>>
  /\ ready = FALSE
  /\ echo_stream_opened_ = FALSE
  /\ bidirectional = [credit |-> 0, opened |-> 0]

----------------------------------------------------------------------------
(* Mutant: FIN only if the whole text has left the stream at once.         *)
OnCanWrite_FinIfSent(i, n) ==
  {[text |-> i, pending |-> p, fin |-> n > 0 /\ p = 0] : p \in 0..n}

(* WebTransportUnidirectionalEchoWriteVisitor::OnCanWrite on a new stream, *)
(* for a text of n bytes: an empty one writes nothing, not even FIN; any   *)
(* other is taken whole, and FIN if there is still room.  A later          *)
(* OnCanWrite finds data_ empty and does nothing.                          *)
OnCanWrite(i, n) ==
  {[text |-> i, pending |-> p, fin |-> n > 0 /\ p < Threshold] : p \in 0..n}

(* TrySendingUnidirectionalStreams, with queue in streams_to_echo_back_:   *)
(* as many texts as are allowed get their streams, the first ones first.   *)
TrySendingUnidirectionalStreams(sizes, queue, allowed) ==
  LET n == IF Len(queue) < allowed THEN Len(queue) ELSE allowed
  IN  /\ streams_to_echo_back' = SubSeq(queue, n + 1, Len(queue))
      /\ credit' = allowed - n
      /\ \E new \in [1..n -> UNION {OnCanWrite(queue[k], sizes[queue[k]]) :
                                    k \in 1..n}] :
           /\ \A k \in 1..n : new[k] \in OnCanWrite(queue[k], sizes[queue[k]])
           /\ opened' = opened \o new

----------------------------------------------------------------------------
(* Mutant: the text goes to the front.                                     *)
Finish_PushFront(i, size) ==
  /\ finished' = Append(finished, i)
  /\ TrySendingUnidirectionalStreams(
       [j \in Incoming |-> IF j = i THEN size ELSE incoming[j].size],
       <<i>> \o streams_to_echo_back, credit)

(* The callback: FIN has been read on stream i, its text is complete.      *)
Finish(i, size) ==
  /\ finished' = Append(finished, i)
  /\ TrySendingUnidirectionalStreams(
       [j \in Incoming |-> IF j = i THEN size ELSE incoming[j].size],
       Append(streams_to_echo_back, i), credit)

(* WebTransportUnidirectionalEchoReadVisitor::OnCanRead, for a new stream  *)
(* (its visitor is set and reads at once) as for one that goes on.         *)
OnCanRead(i, n, fin) ==
  LET size == incoming[i].size + n
  IN  /\ ready
      /\ incoming[i].side = "open"
      /\ size <= MaxBytes
      /\ incoming' = [incoming EXCEPT ![i] =
           [size |-> size, side |-> IF fin THEN "fin" ELSE "open"]]
      /\ \/ fin /\ Finish(i, size)
         \/ /\ ~fin
            /\ UNCHANGED <<streams_to_echo_back, credit, opened, finished>>
      /\ UNCHANGED session

(* A stream that is reset has no echo.                                     *)
OnResetStreamReceived(i) ==
  /\ ready
  /\ incoming[i].side = "open"
  /\ incoming' = [incoming EXCEPT ![i].side = "reset"]
  /\ UNCHANGED <<streams_to_echo_back, credit, opened, finished, session>>

(* Mutant: as QuitConverter's, which does nothing.                         *)
OnCanCreateNewOutgoingUnidirectionalStream_Nothing(n) ==
  /\ credit + n <= MaxCredit
  /\ credit' = credit + n
  /\ UNCHANGED <<incoming, streams_to_echo_back, opened, finished, session>>

(* The client allows n more streams.                                       *)
OnCanCreateNewOutgoingUnidirectionalStream(n) ==
  /\ credit + n <= MaxCredit
  /\ TrySendingUnidirectionalStreams(
       [j \in Incoming |-> incoming[j].size], streams_to_echo_back, credit + n)
  /\ UNCHANGED <<incoming, finished, session>>

(* Flow control lets bytes of the k-th stream go (external).               *)
FlowControlOpens(k) ==
  /\ opened[k].pending > 0
  /\ \E p \in 0..(opened[k].pending - 1) :
       opened' = [opened EXCEPT ![k].pending = p]
  /\ UNCHANGED <<incoming, streams_to_echo_back, credit, finished, session>>

----------------------------------------------------------------------------
(* QuitServerSession's, for the WebTransport session, which asks for a     *)
(* stream only when one is allowed.                                        *)
CreateOutgoingBidirectionalStream(allowed) ==
  [credit |-> allowed - 1, opened |-> bidirectional.opened + 1]

(* The visitor's OnCanCreateNewOutgoingBidirectionalStream, called when    *)
(* some stream is allowed: the first time, one is opened.                  *)
OpenEchoStream(allowed) ==
  /\ bidirectional' =
       IF echo_stream_opened_ THEN [bidirectional EXCEPT !.credit = allowed]
       ELSE CreateOutgoingBidirectionalStream(allowed)
  /\ echo_stream_opened_' = TRUE

(* The client's credit may come before the session is ready.               *)
OnSessionReady ==
  /\ ~ready
  /\ ready' = TRUE
  /\ \/ bidirectional.credit > 0 /\ OpenEchoStream(bidirectional.credit)
     \/ /\ bidirectional.credit = 0
        /\ UNCHANGED <<echo_stream_opened_, bidirectional>>
  /\ UNCHANGED unidirectional

OnCanCreateNewOutgoingBidirectionalStream ==
  /\ bidirectional.credit < MaxCredit
  /\ \/ ready /\ OpenEchoStream(bidirectional.credit + 1)
     \/ /\ ~ready
        /\ bidirectional' = [bidirectional EXCEPT !.credit = @ + 1]
        /\ UNCHANGED echo_stream_opened_
  /\ UNCHANGED <<ready, unidirectional>>

Next ==
  \/ \E i \in Incoming, n \in Sizes, fin \in BOOLEAN : OnCanRead(i, n, fin)
  \/ \E i \in Incoming : OnResetStreamReceived(i)
  \/ \E n \in Grants : OnCanCreateNewOutgoingUnidirectionalStream(n)
  \/ \E k \in 1..Len(opened) : FlowControlOpens(k)
  \/ OnSessionReady
  \/ OnCanCreateNewOutgoingBidirectionalStream

Spec == Init /\ [][Next]_vars

----------------------------------------------------------------------------
(* Every finished stream is echoed once, and in the order the streams were *)
(* finished in, however credit comes and goes: what is sent and what is    *)
(* queued are together what was finished.                                  *)
EchoedInOrder ==
  finished = [k \in 1..Len(opened) |-> opened[k].text] \o streams_to_echo_back

(* Nothing waits for a stream that could be opened: both the end of a text *)
(* and new credit try, and the bidirectional stream is opened once, with   *)
(* the first credit, whether that came before the session or after it.     *)
NoneWaitsWithCredit ==
  /\ streams_to_echo_back # <<>> => credit = 0
  /\ ready /\ bidirectional.credit > 0 => bidirectional.opened > 0
  /\ bidirectional.opened <= 1

(* Only an empty text, or one that can fill the stream's buffer, is left   *)
(* without the FIN that tells the client that its echo is whole, although  *)
(* QUICHE_DCHECK(fin_status.ok()) (quit_web_transport_visitors.h:166) takes*)
(* for granted that no FIN is refused.                                     *)
OnlyExtremesLackFin ==
  \A k \in 1..Len(opened) :
    LET n == incoming[opened[k].text].size
    IN  ~opened[k].fin => n = 0 \/ n >= Threshold

(* The echo as the client sees it; of a text, what no longer waits in the  *)
(* stream is sent.                                                         *)
Ended == [k \in 1..Len(finished) |->
            [name |-> finished[k], size |-> incoming[finished[k]].size]]

Echoed == [k \in 1..Len(opened) |->
             [name |-> opened[k].text,
              sent |-> incoming[opened[k].text].size - opened[k].pending,
              fin |-> opened[k].fin]]

Texts == INSTANCE EchoTexts WITH
           texts <- Ended, granted <- credit + Len(opened), echoes <- Echoed

(* However ends of streams, credit and flow control interleave, the session*)
(* echoes whole texts: a stream is opened for the next text as soon as it  *)
(* has ended and credit is there, and what was sent of it only grows.      *)
EchoesTexts == Texts!Spec
=============================================================================
