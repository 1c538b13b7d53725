---------------------- MODULE QuitServerSessionProofs ----------------------
(***************************************************************************)
(* Theorems about a connection, for every number of streams, every limit   *)
(* and every set of error codes.  What was proved of the WebTransport      *)
(* session alone holds of the one a connection carries, since each step of *)
(* the connection is a step of it or leaves it alone.                      *)
(***************************************************************************)
EXTENDS QuitServerSession, QuitTransportProofs, FiniteSetTheorems

----------------------------------------------------------------------------
(* A connection does to its WebTransport session nothing that the session  *)
(* would not do alone.                                                     *)
LEMMA CarriedStep == [SessionNext]_sessionVars => [Next]_vars
<1> SUFFICES ASSUME SessionNext
             PROVE  [Next]_vars
  BY DEF sessionVars
<1>1. crashed = "no"
  BY DEF SessionNext
<1>2. ASSUME NEW s \in Streams, NEW n \in Sizes, NEW fin \in BOOLEAN,
             OnStreamFrame(s, n, fin)
      PROVE  Next
  BY <1>1, <1>2 DEF OnStreamFrame, CreateIncomingStream, Next, Client
<1>3. ASSUME OnServerStreamFrame \/ ClientCloses
      PROVE  Next
  BY <1>1, <1>3 DEF OnServerStreamFrame, ClientCloses, Next, Session
<1>4. ASSUME NEW s \in Streams, NEW e \in RstErrors, OnRstStream(s, e)
      PROVE  [Next]_vars
  BY <1>1, <1>4 DEF OnRstStream, Next, Client
<1>5. ASSUME NEW s \in Streams, OnStopSending(s)
      PROVE  Next
  BY <1>1, <1>5 DEF OnStopSending, Next, Client
<1>6. ASSUME Carried
      PROVE  Next
  BY <1>1, <1>6 DEF Carried, Next, Session, Client
<1>7. ASSUME Application
      PROVE  Next
  BY <1>1, <1>7 DEF Application, Next, Session, Client
<1>8. QED
  BY <1>2, <1>3, <1>4, <1>5, <1>6, <1>7 DEF SessionNext, Connected

(* QuitServerSession and QuitDispatcher leave the WebTransport session the *)
(* behaviour that QuitTransport gives it.                                  *)
THEOREM SessionCarriesTransport == SessionSpec => Spec
<1>1. SessionInit => Init
  BY DEF SessionInit
<1>2. QED
  BY <1>1, CarriedStep, PTL DEF SessionSpec, Spec

LEMMA CarriedInvariant == SessionSpec => []TransportInv
BY SessionCarriesTransport, Inductive, PTL

----------------------------------------------------------------------------
(* What a step keeps of the streams, unless it opens one: an idle stream   *)
(* stays idle and a closed one closed.                                     *)
Keeps(s) ==
  /\ stream[s].phase = "idle" => stream'[s].phase = "idle"
  /\ Closed(stream[s]) => Closed(stream'[s])

(* The server's side of a stream stays open.                               *)
StaysOpen(s) == stream'[s].stopped => stream[s].stopped

(* The first delivery touches one stream that was idle, and perhaps the    *)
(* visitors of others.                                                     *)
LEMMA OpenKeeps ==
  ASSUME TransportInv, NEW s \in Streams, NEW n \in Sizes,
         NEW fin \in BOOLEAN, OpenStream(s, n, fin)
  PROVE  \A q \in Streams : (q # s => Keeps(q)) /\ StaysOpen(q)
<1> DEFINE f == IF fin THEN "received" ELSE "no"
           t == [stream[s] EXCEPT !.phase = "held", !.got = n, !.fin = f]
<1>1. \A q \in Streams : stream[q] \in Stream
  BY DEF TransportInv, TypeOK
<1>2. t.stopped = stream[s].stopped
  BY <1>1 DEF Stream
<1>3. ASSUME NEW r \in Stream
      PROVE  /\ SetVisitor(r).phase = "accepted"
             /\ SetVisitor(r).stopped = r.stopped
             /\ Closed(SetVisitor(r)) = Closed(r)
  BY DEF SetVisitor, Stream, Closed, ReadClosed
<1>4. t \in Stream
  BY <1>1, ConstantsAssumption DEF Stream
<1> HIDE DEF f, t
<1>5. CASE /\ Visited
           /\ OnIncomingBidirectionalStreamAvailable(s, t, Append(incoming, s))
  <2> DEFINE queue == Append(incoming, s)
  <2>1. incoming = <<>>
    BY <1>5 DEF TransportInv, SessionInv, Visited
  <2>2. Len(queue) = 1 /\ queue[1] = s
    BY <2>1
  <2>3. PICK i \in 1..Len(queue) :
          stream' = IF queue[i] = s
                      THEN [stream EXCEPT ![s] = SetVisitor(t)]
                      ELSE [stream EXCEPT ![s] = t,
                                          ![queue[i]] = SetVisitor(@)]
    BY <1>5 DEF OnIncomingBidirectionalStreamAvailable, Acceptable
  <2>4. stream' = [stream EXCEPT ![s] = SetVisitor(t)]
    BY <2>2, <2>3
  <2>5. SetVisitor(t).stopped = t.stopped
    BY <1>3, <1>4
  <2>6. QED
    BY <1>1, <1>2, <2>4, <2>5 DEF Keeps, StaysOpen, TransportInv, TypeOK
<1>6. CASE stream' = [stream EXCEPT ![s] = t]
  BY <1>1, <1>2, <1>6 DEF Keeps, StaysOpen, TransportInv, TypeOK
<1>7. QED
  BY <1>5, <1>6 DEF OpenStream, t, f

(* More data may close the client's side of its stream, no other.          *)
LEMMA DataKeeps ==
  ASSUME TransportInv, NEW s \in Streams, NEW n \in Sizes,
         NEW fin \in BOOLEAN, DataArrives(s, n, fin)
  PROVE  \A q \in Streams : Keeps(q) /\ StaysOpen(q)
<1> DEFINE f == IF fin THEN "received" ELSE "no"
           t == [stream[s] EXCEPT !.got = stream[s].got + n, !.fin = f]
<1>1. /\ stream[s] \in Stream /\ Good(stream[s]) /\ n \in Nat
      /\ f \in {"no", "received"} /\ stream[s].got + n \in Nat
  BY ConstantsAssumption DEF TransportInv, TypeOK, StreamsGood, Stream
<1>2. ~Closed(stream[s]) /\ stream[s].phase # "idle" /\ ~stream[s].reset
  BY DEF DataArrives, Closed, ReadClosed
<1> HIDE DEF f
<1>3. /\ t \in Stream /\ t.phase = stream[s].phase
      /\ t.reset = stream[s].reset /\ t.stopped = stream[s].stopped
  BY <1>1 DEF Stream
<1> HIDE DEF t
<1>4. ASSUME NEW r, stream' = [stream EXCEPT ![s] = r],
             r.stopped = t.stopped
      PROVE  \A q \in Streams : Keeps(q) /\ StaysOpen(q)
  BY <1>2, <1>3, <1>4 DEF Keeps, StaysOpen, TransportInv, TypeOK
<1>5. CASE stream[s].phase = "accepted" /\ OnCanRead(s, t)
  <2> DEFINE d == Read(t)
  <2>1. d \in Stream /\ Good(d)
    BY <1>2, <1>3, <1>5, ReadFacts
  <2>2. d.stopped = t.stopped
    BY <1>3 DEF Read, Stream
  <2> HIDE DEF d
  <2>3. CASE Send(s, d, "reply")
    <3>1. PICK r \in Stream :
            stream' = [stream EXCEPT ![s] = r] /\ r.stopped = d.stopped
      BY <2>1, <2>3, SendFacts
    <3>2. QED
      BY <1>4, <2>2, <3>1
  <2>4. CASE stream' = [stream EXCEPT ![s] = d]
    BY <1>4, <2>2, <2>4
  <2>5. QED
    BY <1>5, <2>3, <2>4 DEF OnCanRead, d
<1>6. CASE stream' = [stream EXCEPT ![s] = t]
  BY <1>4, <1>6
<1>7. QED
  BY <1>5, <1>6 DEF DataArrives, t, f

LEMMA PushKeeps ==
  ASSUME TransportInv, NEW s \in Streams, Push(s)
  PROVE  \A q \in Streams : Keeps(q) /\ StaysOpen(q)
<1>1. stream[s] \in Stream /\ Good(stream[s])
  BY DEF TransportInv, TypeOK, StreamsGood
<1>2. CASE Send(s, stream[s], "push")
  <2>1. PICK r \in Stream :
          /\ stream' = [stream EXCEPT ![s] = r]
          /\ r.phase = stream[s].phase /\ r.fin = stream[s].fin
          /\ r.stopped = stream[s].stopped /\ r.reset = stream[s].reset
    BY <1>1, <1>2, SendFacts
  <2>2. QED
    BY <2>1 DEF Keeps, StaysOpen, Closed, ReadClosed, TransportInv, TypeOK
<1>3. CASE UNCHANGED stream
  BY <1>3 DEF Keeps, StaysOpen, Closed, ReadClosed
<1>4. QED
  BY <1>2, <1>3 DEF Push

(* Both kinds of closing leave closed streams closed.                      *)
LEMMA ClosingKeeps ==
  ASSUME TransportInv, ConnectStreamCloses \/ ConnectionCloses
  PROVE  \A q \in Streams : Keeps(q)
<1>1. ASSUME NEW q \in Streams
      PROVE  Keeps(q)
  <2> DEFINE v == [stream[q] EXCEPT !.reset = TRUE, !.stopped = TRUE,
                                    !.pending = 0]
  <2>1. v.reset /\ v.stopped /\ v.phase = stream[q].phase
    BY DEF TransportInv, TypeOK, Stream
  <2>2. stream'[q] = stream[q] \/ stream'[q] = v
    BY DEF ConnectStreamCloses, ConnectionCloses
  <2> HIDE DEF v
  <2>3. QED
    BY <2>1, <2>2 DEF Keeps, Closed, ReadClosed
<1>2. QED
  BY <1>1

(* The rest of what the session does.                                      *)
LEMMA CarriedKeeps ==
  ASSUME TransportInv,
         \/ HeadersReceived \/ RefuseSession \/ OnSessionClosed
         \/ Unidirectional
         \/ \E s \in Streams : OnCanWrite(s)
         \/ SendDatagram
  PROVE  \A q \in Streams : Keeps(q) /\ StaysOpen(q)
<1>1. \A q \in Streams : stream[q] \in Stream
  BY DEF TransportInv, TypeOK
<1>2. CASE HeadersReceived
  <2>1. ASSUME NEW r \in Stream, r.phase = "held"
        PROVE  /\ SetVisitor(r).stopped = r.stopped
               /\ SetVisitor(r).fin = r.fin /\ SetVisitor(r).reset = r.reset
    BY DEF SetVisitor, Stream
  <2>2. \A q \in Streams :
          \/ stream'[q] = stream[q]
          \/ stream[q].phase = "held" /\ stream'[q] = SetVisitor(stream[q])
    BY <1>2 DEF HeadersReceived
  <2>3. QED
    BY <1>1, <2>1, <2>2 DEF Keeps, StaysOpen, Closed, ReadClosed
<1>3. CASE \/ RefuseSession \/ OnSessionClosed \/ Unidirectional
           \/ SendDatagram
  BY <1>3 DEF RefuseSession, OnSessionClosed, Unidirectional, SendDatagram,
    OnIncomingUnidirectionalStreamAvailable, OnCanWriteUni,
    OnCanCreateNewOutgoingUnidirectionalStream, Keeps, StaysOpen, Closed,
    ReadClosed
<1>4. ASSUME NEW s \in Streams, OnCanWrite(s)
      PROVE  \A q \in Streams : Keeps(q) /\ StaysOpen(q)
  <2> DEFINE r == [stream[s] EXCEPT !.pending = @ - 1]
  <2>1. /\ r.phase = stream[s].phase /\ r.fin = stream[s].fin
        /\ r.stopped = stream[s].stopped /\ r.reset = stream[s].reset
    BY <1>1 DEF Stream
  <2>2. stream' = [stream EXCEPT ![s] = r]
    BY <1>4 DEF OnCanWrite, TransportInv, TypeOK
  <2> HIDE DEF r
  <2>3. QED
    BY <2>1, <2>2 DEF Keeps, StaysOpen, Closed, ReadClosed, TransportInv, TypeOK
<1>5. QED
  BY <1>2, <1>3, <1>4

(* The peer's frames about one side of a stream.                           *)
LEMMA SideKeeps ==
  ASSUME TransportInv, NEW s \in Streams
  PROVE  /\ OnResetStreamReceived(s)
              => \A q \in Streams : Keeps(q) /\ StaysOpen(q)
         /\ OnStopSendingReceived(s)
              => \A q \in Streams : Keeps(q) /\ (q # s => StaysOpen(q))
<1>1. stream[s] \in Stream
  BY DEF TransportInv, TypeOK
<1>2. ASSUME OnResetStreamReceived(s)
      PROVE  \A q \in Streams : Keeps(q) /\ StaysOpen(q)
  <2> DEFINE r == [stream[s] EXCEPT !.reset = TRUE]
  <2>1. /\ r.phase = stream[s].phase /\ r.stopped = stream[s].stopped
        /\ r.reset
    BY <1>1 DEF Stream
  <2>2. stream' = [stream EXCEPT ![s] = r]
    BY <1>2 DEF OnResetStreamReceived, TransportInv, TypeOK
  <2> HIDE DEF r
  <2>3. QED
    BY <2>1, <2>2 DEF Keeps, StaysOpen, Closed, ReadClosed, TransportInv, TypeOK
<1>3. ASSUME OnStopSendingReceived(s)
      PROVE  \A q \in Streams : Keeps(q) /\ (q # s => StaysOpen(q))
  <2> DEFINE r == [stream[s] EXCEPT !.stopped = TRUE, !.pending = 0]
  <2>1. /\ r.phase = stream[s].phase /\ r.stopped
        /\ r.fin = stream[s].fin /\ r.reset = stream[s].reset
    BY <1>1 DEF Stream
  <2>2. stream' = [stream EXCEPT ![s] = r]
    BY <1>3 DEF OnStopSendingReceived, TransportInv, TypeOK
  <2> HIDE DEF r
  <2>3. QED
    BY <2>1, <2>2 DEF Keeps, StaysOpen, Closed, ReadClosed, TransportInv, TypeOK
<1>4. QED
  BY <1>2, <1>3

----------------------------------------------------------------------------
(* The limit counts the streams that are open on either side, and the      *)
(* server's side of one is closed by the client's STOP_SENDING only, until *)
(* the session ends.                                                       *)
WithinLimit == Cardinality(Live) <= MaxStreams
ClosedByClient ==
  session # "gone" => \A s \in Streams : stream[s].stopped => s \in stopped
ConnectionInv == SessionTypeOK /\ WithinLimit /\ ClosedByClient /\ ResetsCounted

LEMMA OneMore ==
  ASSUME NEW S, IsFiniteSet(S), NEW x
  PROVE  /\ IsFiniteSet(S \cup {x})
         /\ Cardinality(S \cup {x}) \in Nat
         /\ Cardinality(S \cup {x}) <= Cardinality(S) + 1
<1>1. /\ IsFiniteSet(S \cup {x})
      /\ Cardinality(S \cup {x}) = IF x \in S THEN Cardinality(S)
                                   ELSE Cardinality(S) + 1
  BY FS_AddElement
<1>2. Cardinality(S) \in Nat /\ Cardinality(S \cup {x}) \in Nat
  BY <1>1, FS_CardinalityType
<1> DEFINE m == Cardinality(S)
           n == Cardinality(S \cup {x})
<1> HIDE DEF m, n
<1>3. n = m \/ n = m + 1
  BY <1>1 DEF m, n
<1>4. n <= m + 1
  BY <1>2, <1>3 DEF m, n
<1>5. QED
  BY <1>1, <1>2, <1>4 DEF m, n

LEMMA LiveFinite == IsFiniteSet(Live) /\ Cardinality(Live) \in Nat
BY SessionAssumption, FS_Subset, FS_CardinalityType DEF Live

(* Only the opening of a stream makes one more count.                      *)
LEMMA LimitKept ==
  ASSUME WithinLimit, \A q \in Streams : Keeps(q)
  PROVE  WithinLimit'
<1>1. Live' \in SUBSET Live
  BY DEF Live, Keeps
<1>2. Cardinality(Live') <= Cardinality(Live)
  BY <1>1, LiveFinite, FS_Subset
<1>3. Cardinality(Live') \in Nat
  BY <1>1, LiveFinite, FS_Subset, FS_CardinalityType
<1>4. QED
  BY <1>2, <1>3, LiveFinite, SessionAssumption DEF WithinLimit

LEMMA LimitOnOpen ==
  ASSUME TransportInv, NEW s \in Streams, NEW n \in Sizes,
         NEW fin \in BOOLEAN, CreateIncomingStream(s, n, fin)
  PROVE  WithinLimit'
<1>1. \A q \in Streams : q # s => Keeps(q)
  BY OpenKeeps DEF CreateIncomingStream
<1>2. Live' \in SUBSET (Live \cup {s})
  BY <1>1 DEF Live, Keeps
<1>3. /\ IsFiniteSet(Live \cup {s})
      /\ Cardinality(Live \cup {s}) <= Cardinality(Live) + 1
  BY LiveFinite, OneMore
<1>4. /\ Cardinality(Live') <= Cardinality(Live \cup {s})
      /\ Cardinality(Live') \in Nat
  BY <1>2, <1>3, FS_Subset, FS_CardinalityType
<1>5. Cardinality(Live \cup {s}) \in Nat
  BY <1>3, FS_CardinalityType
<1>6. QED
  BY <1>3, <1>4, <1>5, LiveFinite, SessionAssumption
  DEF CreateIncomingStream, WithinLimit

(* One frame more in the statistics, one stream at most reset by it.       *)
LEMMA ResetStepCounted ==
  ASSUME ConnectionInv, NEW s \in Streams, NEW e \in RstErrors,
         OnRstStream(s, e)
  PROVE  /\ \E known \in SUBSET RstErrors :
              rst_error_map_' \in [known -> Nat \ {0}]
         /\ resetBy' \in [Streams -> {{}} \cup {{c} : c \in RstErrors}]
         /\ ResetsCounted'
<1>1. PICK known \in SUBSET RstErrors :
        rst_error_map_ \in [known -> Nat \ {0}]
  BY DEF ConnectionInv, SessionTypeOK
<1>2. \A c \in RstErrors : GetRstErrorCount(c) \in Nat
  BY <1>1 DEF GetRstErrorCount
<1>3. /\ rst_error_map_' \in [known \cup {e} -> Nat \ {0}]
      /\ known \cup {e} \in SUBSET RstErrors
      /\ \A c \in RstErrors : GetRstErrorCount(c)' =
           GetRstErrorCount(c) + (IF c = e THEN 1 ELSE 0)
  BY <1>1, <1>2 DEF OnRstStream, OnRstStreamReceived, GetRstErrorCount
<1>4. /\ resetBy \in [Streams -> {{}} \cup {{c} : c \in RstErrors}]
      /\ resetBy' \in [Streams -> {{}} \cup {{c} : c \in RstErrors}]
      /\ \A q \in Streams : q # s => resetBy'[q] = resetBy[q]
      /\ resetBy'[s] = resetBy[s] \/ resetBy'[s] = {e}
  <2>1. resetBy \in [Streams -> {{}} \cup {{c} : c \in RstErrors}]
    BY DEF ConnectionInv, SessionTypeOK
  <2>2. CASE resetBy' = [resetBy EXCEPT ![s] = {e}]
    BY <2>1, <2>2
  <2>3. CASE UNCHANGED resetBy
    BY <2>1, <2>3
  <2>4. QED
    BY <2>1, <2>2, <2>3 DEF OnRstStream
<1>5. ASSUME NEW c \in RstErrors
      PROVE  Cardinality({q \in Streams : resetBy'[q] = {c}})
               <= GetRstErrorCount(c)'
  <2> DEFINE S == {q \in Streams : resetBy[q] = {c}}
             T == {q \in Streams : resetBy'[q] = {c}}
  <2>1. /\ IsFiniteSet(S) /\ Cardinality(S) \in Nat
        /\ IsFiniteSet(T) /\ Cardinality(T) \in Nat
    BY SessionAssumption, FS_Subset, FS_CardinalityType
  <2>2. Cardinality(S) <= GetRstErrorCount(c)
    BY DEF ConnectionInv, ResetsCounted
  <2>3. CASE c = e
    <3>1. T \in SUBSET (S \cup {s})
      BY <1>4
    <3>2. /\ IsFiniteSet(S \cup {s})
          /\ Cardinality(S \cup {s}) <= Cardinality(S) + 1
          /\ Cardinality(S \cup {s}) \in Nat
      BY <2>1, OneMore
    <3>3. Cardinality(T) <= Cardinality(S \cup {s})
      BY <3>1, <3>2, FS_Subset
    <3> HIDE DEF S, T
    <3>4. Cardinality(T) <= GetRstErrorCount(c)'
      BY <1>2, <1>3, <2>1, <2>2, <2>3, <3>2, <3>3
    <3>5. QED
      BY <3>4 DEF T
  <2>4. CASE c # e
    <3>1. T \in SUBSET S
      BY <1>4, <2>4
    <3>2. Cardinality(T) <= Cardinality(S)
      BY <2>1, <3>1, FS_Subset
    <3> HIDE DEF S, T
    <3>3. Cardinality(T) <= GetRstErrorCount(c)'
      BY <1>2, <1>3, <2>1, <2>2, <2>4, <3>2
    <3>4. QED
      BY <3>3 DEF T
  <2>5. QED
    BY <2>3, <2>4
<1>6. QED
  BY <1>3, <1>4, <1>5 DEF ResetsCounted

(* The invariant is inductive, given that of the session it carries.       *)
LEMMA ConnectionInvStep ==
  ASSUME TransportInv, TransportInv', ConnectionInv, SessionNext
  PROVE  ConnectionInv'
<1>1. ASSUME UNCHANGED <<http3, rst_error_map_, history>>,
             connection' \in
               {"open", "peer", "invalid_stream_id", "wrong_direction"},
             session' = "gone" \/ \A q \in Streams : StaysOpen(q),
             session' # "gone" => session # "gone",
             WithinLimit'
      PROVE  ConnectionInv'
  <2>1. SessionTypeOK' /\ ResetsCounted'
    BY <1>1 DEF ConnectionInv, TransportInv, SessionTypeOK, ResetsCounted,
      GetRstErrorCount, history
  <2>2. ClosedByClient'
    BY <1>1 DEF ConnectionInv, ClosedByClient, StaysOpen, history
  <2>3. QED
    BY <1>1, <2>1, <2>2 DEF ConnectionInv
<1>2. ASSUME NEW s \in Streams, NEW n \in Sizes, NEW fin \in BOOLEAN,
             OnStreamFrame(s, n, fin)
      PROVE  ConnectionInv'
  <2>1. /\ UNCHANGED <<http3, rst_error_map_, history, session, connection>>
        /\ connection \in
             {"open", "peer", "invalid_stream_id", "wrong_direction"}
    BY <1>2 DEF OnStreamFrame, CreateIncomingStream, OpenStream, DataArrives,
      own, ConnectionInv, SessionTypeOK
  <2>2. WithinLimit' /\ \A q \in Streams : StaysOpen(q)
    <3>1. CASE CreateIncomingStream(s, n, fin)
      BY <3>1, LimitOnOpen, OpenKeeps DEF CreateIncomingStream
    <3>2. CASE DataArrives(s, n, fin)
      BY <3>2, DataKeeps, LimitKept DEF ConnectionInv
    <3>3. QED
      BY <1>2, <3>1, <3>2 DEF OnStreamFrame
  <2>3. QED
    BY <1>1, <2>1, <2>2
<1>3. ASSUME OnServerStreamFrame \/ ClientCloses
      PROVE  ConnectionInv'
  <2>1. ConnectionCloses /\ session' = "gone"
    BY <1>3 DEF OnServerStreamFrame, ClientCloses, ConnectionCloses
  <2>2. WithinLimit'
    BY <2>1, ClosingKeeps, LimitKept DEF ConnectionInv
  <2>3. QED
    BY <1>1, <1>3, <2>1, <2>2 DEF OnServerStreamFrame, ClientCloses
<1>4. ASSUME NEW s \in Streams, NEW e \in RstErrors, OnRstStream(s, e)
      PROVE  ConnectionInv'
  <2>1. (\A q \in Streams : Keeps(q) /\ StaysOpen(q)) /\ session' = session
    <3>1. CASE OnResetStreamReceived(s)
      BY <3>1, SideKeeps DEF OnResetStreamReceived
    <3>2. CASE UNCHANGED vars
      BY <3>2 DEF vars, Keeps, StaysOpen, Closed, ReadClosed
    <3>3. QED
      BY <1>4, <3>1, <3>2 DEF OnRstStream
  <2>2. WithinLimit'
    BY <2>1, LimitKept DEF ConnectionInv
  <2>3. ClosedByClient'
    BY <1>4, <2>1 DEF ConnectionInv, ClosedByClient, StaysOpen, OnRstStream
  <2>4. SessionTypeOK' /\ ResetsCounted'
    BY <1>4, ResetStepCounted
    DEF ConnectionInv, TransportInv, SessionTypeOK, OnRstStream
  <2>5. QED
    BY <2>2, <2>3, <2>4 DEF ConnectionInv
<1>5. ASSUME NEW s \in Streams, OnStopSending(s)
      PROVE  ConnectionInv'
  <2>1. /\ \A q \in Streams : Keeps(q) /\ (q # s => StaysOpen(q))
        /\ session' = session
    BY <1>5, SideKeeps DEF OnStopSending, OnStopSendingReceived
  <2>2. WithinLimit'
    BY <2>1, LimitKept DEF ConnectionInv
  <2>3. ClosedByClient'
    BY <1>5, <2>1 DEF ConnectionInv, ClosedByClient, StaysOpen, OnStopSending
  <2>4. SessionTypeOK' /\ ResetsCounted'
    BY <1>5 DEF ConnectionInv, TransportInv, SessionTypeOK, ResetsCounted,
      GetRstErrorCount, OnStopSending, own
  <2>5. QED
    BY <2>2, <2>3, <2>4 DEF ConnectionInv
<1>6. ASSUME Carried \/ Application
      PROVE  ConnectionInv'
  <2>1. /\ UNCHANGED <<http3, rst_error_map_, history, connection>>
        /\ connection \in
             {"open", "peer", "invalid_stream_id", "wrong_direction"}
    BY <1>6 DEF Carried, Application, own, ConnectionInv, SessionTypeOK
  <2>2. CASE ConnectStreamCloses
    <3>1. WithinLimit'
      BY <2>2, ClosingKeeps, LimitKept DEF ConnectionInv
    <3>2. session' = "gone"
      BY <2>2 DEF ConnectStreamCloses
    <3>3. QED
      BY <1>1, <2>1, <3>1, <3>2
  <2>3. ASSUME \A q \in Streams : Keeps(q) /\ StaysOpen(q),
               session' # "gone" => session # "gone"
        PROVE  ConnectionInv'
    BY <1>1, <2>1, <2>3, LimitKept DEF ConnectionInv
  <2>4. ASSUME NEW s \in Streams, Push(s)
        PROVE  ConnectionInv'
    BY <2>3, <2>4, PushKeeps DEF Push
  <2>5. ASSUME \/ HeadersReceived \/ RefuseSession \/ OnSessionClosed
               \/ Unidirectional
               \/ \E s \in Streams : OnCanWrite(s)
               \/ SendDatagram
        PROVE  ConnectionInv'
    <3>1. session' # "gone" => session # "gone"
      BY <2>5 DEF HeadersReceived, RefuseSession, OnSessionClosed,
        Unidirectional, OnIncomingUnidirectionalStreamAvailable, OnCanWriteUni,
        OnCanCreateNewOutgoingUnidirectionalStream, OnCanWrite, SendDatagram
    <3>2. QED
      BY <2>3, <2>5, <3>1, CarriedKeeps
  <2>6. QED
    BY <1>6, <2>2, <2>4, <2>5 DEF Carried, Application
<1>7. QED
  BY <1>2, <1>3, <1>4, <1>5, <1>6 DEF SessionNext, Connected

LEMMA ConnectionInvariant == SessionSpec => []ConnectionInv
<1>1. SessionInit => ConnectionInv
  <2> SUFFICES ASSUME SessionInit
               PROVE  ConnectionInv
    OBVIOUS
  <2>1. TypeOK
    BY EmptySeq DEF SessionInit, Init, TypeOK, Sessions, Stream, Uni, Crashes
  <2>2. rst_error_map_ \in [{} -> Nat \ {0}]
    BY DEF SessionInit
  <2>3. SessionTypeOK
    BY <2>1, <2>2 DEF SessionInit, SessionTypeOK
  <2>4. Live = {}
    BY DEF SessionInit, Init, Live
  <2>5. WithinLimit
    BY <2>4, FS_EmptySet, SessionAssumption DEF WithinLimit
  <2>6. ClosedByClient
    BY DEF SessionInit, Init, ClosedByClient
  <2>7. ASSUME NEW e \in RstErrors
        PROVE  Cardinality({s \in Streams : resetBy[s] = {e}})
                 <= GetRstErrorCount(e)
    <3>1. {s \in Streams : resetBy[s] = {e}} = {}
      BY DEF SessionInit
    <3>2. GetRstErrorCount(e) = 0
      BY DEF SessionInit, GetRstErrorCount
    <3>3. QED
      BY <3>1, <3>2, FS_EmptySet
  <2>8. QED
    BY <2>3, <2>5, <2>6, <2>7 DEF ConnectionInv, ResetsCounted
<1>2. TransportInv /\ TransportInv' /\ ConnectionInv /\ [SessionNext]_sessionVars
        => ConnectionInv'
  <2> SUFFICES ASSUME TransportInv, TransportInv', ConnectionInv,
                      UNCHANGED sessionVars
               PROVE  ConnectionInv'
    BY ConnectionInvStep
  <2>1. QED
    BY DEF sessionVars, vars, own, history, ConnectionInv, SessionTypeOK,
      TransportInv, WithinLimit, Live, Closed, ReadClosed, ClosedByClient,
      ResetsCounted, GetRstErrorCount
<1>3. QED
  BY <1>1, <1>2, CarriedInvariant, PTL DEF SessionSpec

----------------------------------------------------------------------------
(* The entries of rst_error_map_ are positive, the reasons for closing are *)
(* the code's, and the WebTransport session keeps its types.               *)
THEOREM SessionTypeCorrect == SessionSpec => []SessionTypeOK
<1>1. ConnectionInv => SessionTypeOK
  BY DEF ConnectionInv
<1>2. QED
  BY <1>1, ConnectionInvariant, PTL

(* What QuitTransport's theorems say holds on every connection.            *)
THEOREM ConnectionKeepsSession ==
  SessionSpec => [](/\ TransportReady /\ EveryStreamAccepted
                    /\ OnlyEarlyBytesWait /\ SendFindsStream)
BY SessionCarriesTransport, RelayHasTransport, StreamsGetVisitors,
  LaterBytesAreRelayed, OnlyStoppedStreamsAreLost, PTL

(* A client gets no more streams than its limit and one for each that it   *)
(* stopped, since the server never finishes one.                           *)
THEOREM ClientFreesStreams == SessionSpec => []OnlyClientFreesStreams
<1>1. ConnectionInv => OnlyClientFreesStreams
  <2> SUFFICES ASSUME ConnectionInv, session # "gone"
               PROVE  Cardinality({s \in Streams : stream[s].phase # "idle"})
                        <= MaxStreams + Cardinality(stopped)
    BY DEF OnlyClientFreesStreams
  <2> DEFINE Opened == {s \in Streams : stream[s].phase # "idle"}
  <2>1. Opened \in SUBSET (Live \cup stopped)
    BY DEF ConnectionInv, ClosedByClient, Live, Closed
  <2>2. /\ IsFiniteSet(Live) /\ Cardinality(Live) \in Nat
        /\ IsFiniteSet(stopped) /\ Cardinality(stopped) \in Nat
    BY LiveFinite, SessionAssumption, FS_Subset, FS_CardinalityType
    DEF ConnectionInv, SessionTypeOK
  <2>3. /\ IsFiniteSet(Live \cup stopped)
        /\ Cardinality(Live \cup stopped) = Cardinality(Live)
             + Cardinality(stopped) - Cardinality(Live \cap stopped)
    BY <2>2, FS_Union
  <2>4. Cardinality(Live \cap stopped) \in Nat
    BY <2>2, FS_Subset, FS_CardinalityType
  <2>5. /\ Cardinality(Opened) <= Cardinality(Live \cup stopped)
        /\ Cardinality(Opened) \in Nat
    BY <2>1, <2>3, FS_Subset, FS_CardinalityType
  <2>6. Cardinality(Live) <= MaxStreams
    BY DEF ConnectionInv, WithinLimit
  <2> HIDE DEF Opened
  <2>7. Cardinality(Opened) <= MaxStreams + Cardinality(stopped)
    BY <2>2, <2>3, <2>4, <2>5, <2>6, SessionAssumption
  <2>8. QED
    BY <2>7 DEF Opened
<1>2. QED
  BY <1>1, ConnectionInvariant, PTL

(* GetRstErrorCount misses no stream that the client has reset.            *)
THEOREM StatisticsComplete == SessionSpec => []ResetsCounted
<1>1. ConnectionInv => ResetsCounted
  BY DEF ConnectionInv
<1>2. QED
  BY <1>1, ConnectionInvariant, PTL
=============================================================================
