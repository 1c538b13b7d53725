-------------------------- MODULE QuitServerSession --------------------------
(***************************************************************************)
(* One connection: QuitServerSession over the WebTransport session that it *)
(* carries (QuitTransport), and the statistics QuitDispatcher keeps of it. *)
(* Frames of the client reach the session first.  It creates a             *)
(* QuitServerStream for each new stream of the client, and closes the      *)
(* connection of a client that writes on a stream of the server's own;     *)
(* the dispatcher counts a RST_STREAM before the stream is reset.          *)
(*                                                                         *)
(* A connection of a version without HTTP/3 carries no WebTransport; of    *)
(* its requests nothing is kept here.                                      *)
(***************************************************************************)
EXTENDS QuitTransport, FiniteSets

CONSTANTS
  SupportsWebTransport,  \* what the backend says
  MaxStreams,            \* streams a client may have open (QUICHE's limit)
  RstErrors,             \* the error codes of RST_STREAM
  MaxResets              \* bound: RST_STREAM frames of one code

ASSUME SessionAssumption ==
  /\ SupportsWebTransport \in BOOLEAN
  /\ MaxStreams \in Nat /\ MaxResets \in Nat
  /\ IsFiniteSet(Streams)

VARIABLES
  http3,           \* is the version one of HTTP/3?
  connection,      \* is it open, or why is it closed?
  rst_error_map_,  \* the dispatcher's: frames by error code
  stopped,         \* history: streams the client has sent STOP_SENDING for
  resetBy          \* history: the code of the RST_STREAM that reset a stream

own == <<http3, connection, rst_error_map_>>
history == <<stopped, resetBy>>
sessionVars == <<vars, own, history>>

SessionTypeOK ==
  /\ TypeOK
  /\ http3 \in BOOLEAN
  /\ connection \in {"open", "peer", "invalid_stream_id", "wrong_direction"}
  /\ \E known \in SUBSET RstErrors :
       rst_error_map_ \in [known -> Nat \ {0}]
  /\ stopped \subseteq Streams
  /\ resetBy \in [Streams -> {{}} \cup {{e} : e \in RstErrors}]

(* CreateQuicSession: a version of the client's choice, all are supported. *)
SessionInit ==
  /\ Init
  /\ http3 \in BOOLEAN
  /\ connection = "open"
  /\ rst_error_map_ = [e \in {} |-> 0]
  /\ stopped = {}
  /\ resetBy = [s \in Streams |-> {}]

WillNegotiateWebTransport == http3 /\ SupportsWebTransport

(* The streams that count for the limit.                                   *)
Live == {s \in Streams : stream[s].phase # "idle" /\ ~Closed(stream[s])}

----------------------------------------------------------------------------
(* CreateIncomingStream, for the first frame of a stream of the client,    *)
(* which keeps to its limit.                                               *)
CreateIncomingStream(s, n, fin) ==
  /\ Cardinality(Live) < MaxStreams
  /\ OpenStream(s, n, fin)

(* OnStreamFrame, for a stream of the client: a new one is created, and    *)
(* the data goes on to its stream.                                         *)
OnStreamFrame(s, n, fin) ==
  /\ WillNegotiateWebTransport
  /\ \/ CreateIncomingStream(s, n, fin)
     \/ DataArrives(s, n, fin)
  /\ UNCHANGED <<own, history>>

(* OnStreamFrame, for a stream of the server: it is refused here, unless   *)
(* the version has WebTransport; then QUICHE refuses it, since the server  *)
(* opens only streams that it alone writes on.                             *)
OnServerStreamFrame ==
  /\ connection' = IF WillNegotiateWebTransport THEN "wrong_direction"
                   ELSE "invalid_stream_id"
  /\ ConnectionCloses
  /\ UNCHANGED <<http3, rst_error_map_, history>>

(* The client, or a timeout, closes the connection (external).             *)
ClientCloses ==
  /\ connection' = "peer"
  /\ ConnectionCloses
  /\ UNCHANGED <<http3, rst_error_map_, history>>

----------------------------------------------------------------------------
(* GetRstErrorCount.                                                       *)
GetRstErrorCount(e) ==
  IF e \in DOMAIN rst_error_map_ THEN rst_error_map_[e] ELSE 0

(* Mutant: the first frame of a code makes an empty entry.                 *)
OnRstStreamReceived_FromZero(e) ==
  rst_error_map_' =
    [c \in DOMAIN rst_error_map_ \cup {e} |->
       IF c = e /\ e \in DOMAIN rst_error_map_ THEN rst_error_map_[c] + 1
       ELSE GetRstErrorCount(c)]

(* QuitDispatcher::OnRstStreamReceived.                                    *)
OnRstStreamReceived(e) ==
  rst_error_map_' =
    [c \in DOMAIN rst_error_map_ \cup {e} |->
       GetRstErrorCount(c) + (IF c = e THEN 1 ELSE 0)]

(* A RST_STREAM, the first of its stream or one that is repeated or late:  *)
(* the dispatcher counts it, and the stream's visitor hears of the first.  *)
OnRstStream(s, e) ==
  /\ stream[s].phase # "idle"
  /\ GetRstErrorCount(e) < MaxResets
  /\ OnRstStreamReceived(e)
  /\ \/ /\ OnResetStreamReceived(s)
        /\ resetBy' = [resetBy EXCEPT ![s] = {e}]
     \/ /\ ReadClosed(stream[s])
        /\ UNCHANGED <<vars, resetBy>>
  /\ UNCHANGED <<http3, connection, stopped>>

OnStopSending(s) ==
  /\ OnStopSendingReceived(s)
  /\ stopped' = stopped \cup {s}
  /\ UNCHANGED <<own, resetBy>>

(* What else goes on in the WebTransport session, and the application.     *)
Carried ==
  /\ WillNegotiateWebTransport
  /\ \/ HeadersReceived \/ RefuseSession
     \/ OnSessionClosed \/ ConnectStreamCloses
     \/ Unidirectional
     \/ \E s \in Streams : OnCanWrite(s)
  /\ UNCHANGED <<own, history>>

(* The application may act when the connection is closed, too.             *)
Application ==
  /\ SendDatagram \/ \E s \in Streams : Push(s)
  /\ UNCHANGED <<own, history>>

Connected ==
  \/ \E s \in Streams, n \in Sizes, fin \in BOOLEAN : OnStreamFrame(s, n, fin)
  \/ OnServerStreamFrame
  \/ ClientCloses
  \/ \E s \in Streams, e \in RstErrors : OnRstStream(s, e)
  \/ \E s \in Streams : OnStopSending(s)
  \/ Carried

SessionNext ==
  /\ crashed = "no"
  /\ \/ connection = "open" /\ Connected
     \/ Application

SessionSpec == SessionInit /\ [][SessionNext]_sessionVars

----------------------------------------------------------------------------
(* The server never finishes its side of a stream (the FIN that OnCanRead  *)
(* would send is commented out, quit_transport_stream.cc:24), and a stream *)
(* counts until both sides are closed: however long its session, however   *)
(* many messages are read and answered, and whatever the client finishes   *)
(* or resets, it can open MaxStreams streams and one more for each that it *)
(* has told the server to stop.                                            *)
OnlyClientFreesStreams ==
  session # "gone" =>
    Cardinality({s \in Streams : stream[s].phase # "idle"})
      <= MaxStreams + Cardinality(stopped)

(* The statistics miss no stream that was reset, under the code it was     *)
(* reset with, whatever became of the stream, its session and connection.  *)
ResetsCounted ==
  \A e \in RstErrors :
    Cardinality({s \in Streams : resetBy[s] = {e}}) <= GetRstErrorCount(e)
=============================================================================
