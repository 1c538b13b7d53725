------------------------ MODULE QuitTransportProofs ------------------------
(***************************************************************************)
(* Theorems about QuitTransport, for every number of streams, every size   *)
(* of what arrives on them and every threshold of a stream's buffer.       *)
(***************************************************************************)
EXTENDS QuitTransport, SequenceTheorems, TLAPS

(* What holds of one stream between two steps.  A message is relayed on a  *)
(* stream with a visitor only; an idle one has received nothing.           *)
Good(t) ==
  /\ t.told => t.phase = "accepted"
  /\ t.phase = "idle" => ~ReadClosed(t)
  /\ t.phase = "accepted" /\ ~t.reset =>
       \/ t.read = t.got /\ t.fin # "received"
       \/ ~t.told /\ t.got = t.early

StreamsGood == \A s \in Streams : Good(stream[s])

(* What the streams owe to the session: no queue and no waiting stream     *)
(* while it has a visitor, and no visitor of a stream without transport_.  *)
SessionInv ==
  /\ session \in {"none", "ready", "closed"} => incoming = <<>>
  /\ Visited => transport
  /\ \A s \in Streams :
       stream[s].phase = "accepted" =>
         transport /\ session \in {"ready", "closed", "gone"}
  /\ Visited => \A s \in Streams :
                  stream[s].phase = "held" => Closed(stream[s])

TransportInv == TypeOK /\ StreamsGood /\ SessionInv /\ SendFindsStream

-----------------------------------------------------------------------------
(* OnCanRead leaves nothing unread, so what it makes of a stream is good   *)
(* whatever the stream was.                                                *)
LEMMA ReadFacts ==
  ASSUME NEW t \in Stream, t.phase = "accepted", ~t.reset
  PROVE  /\ Read(t) \in Stream
         /\ Good(Read(t))
         /\ Read(t).phase = "accepted"
         /\ Read(t).told
         /\ ~Read(t).reset
<1>1. PICK f \in {"no", "received", "read"} :
        /\ f = IF t.fin = "received" THEN "read" ELSE t.fin
        /\ f # "received"
  BY DEF Stream
<1>2. Read(t) = [t EXCEPT !.read = t.got, !.fin = f, !.told = TRUE]
  BY <1>1 DEF Read
<1>3. QED
  BY <1>1, <1>2 DEF Stream, Good

(* Send keeps a stream good: it adds what is sent where there is room and  *)
(* the client listens, and fails on a stream that is closed on both sides. *)
LEMMA SendFacts ==
  ASSUME NEW s \in Streams, NEW t \in Stream, Good(t), NEW caller,
         Send(s, t, caller)
  PROVE  \E r \in Stream :
           /\ stream' = [stream EXCEPT ![s] = r]
           /\ Good(r)
           /\ r.phase = t.phase /\ r.told = t.told /\ r.fin = t.fin
           /\ r.stopped = t.stopped /\ r.reset = t.reset
           /\ crashed' = crashed \/ (crashed' = caller /\ Closed(t))
<1>1. CASE /\ Closed(t)
           /\ crashed' = caller
           /\ stream' = [stream EXCEPT ![s] = t]
  BY <1>1
<1>2. CASE stream' = [stream EXCEPT ![s] = t] /\ UNCHANGED crashed
  BY <1>2
<1>3. CASE /\ ~Closed(t)
           /\ ~t.stopped
           /\ t.pending < Threshold
           /\ \E n \in (IF t.pending = 0 THEN 0..1 ELSE {1}) :
                stream' = [stream EXCEPT ![s] = [t EXCEPT !.pending = @ + n]]
           /\ UNCHANGED crashed
  <2>1. PICK n \in (IF t.pending = 0 THEN 0..1 ELSE {1}) :
          stream' = [stream EXCEPT ![s] = [t EXCEPT !.pending = @ + n]]
    BY <1>3
  <2>2. PICK p \in Nat : p = t.pending + n
    BY <2>1 DEF Stream
  <2> DEFINE r == [t EXCEPT !.pending = p]
  <2>3. stream' = [stream EXCEPT ![s] = r]
    BY <2>1, <2>2
  <2>4. /\ r \in Stream
        /\ r.phase = t.phase /\ r.told = t.told /\ r.fin = t.fin
        /\ r.stopped = t.stopped /\ r.reset = t.reset
        /\ r.read = t.read /\ r.got = t.got /\ r.early = t.early
    BY DEF Stream
  <2> HIDE DEF r
  <2>5. Good(r)
    BY <2>4 DEF Good, ReadClosed
  <2>6. QED
    BY <1>3, <2>3, <2>4, <2>5
<1>4. QED
  BY <1>1, <1>2, <1>3 DEF Send

(* A step that makes a good stream of one good stream, in the same phase,  *)
(* disturbs no other.                                                      *)
LEMMA OneStream ==
  ASSUME TransportInv, NEW s \in Streams, NEW r \in Stream, Good(r),
         stream' = [stream EXCEPT ![s] = r],
         r.phase = stream[s].phase,
         r.phase = "held" /\ Closed(stream[s]) => Closed(r),
         crashed' \in Crashes,
         UNCHANGED <<session, transport, waiting, incoming, uni>>
  PROVE  TypeOK' /\ StreamsGood' /\ SessionInv'
<1>1. TypeOK'
  BY DEF TransportInv, TypeOK
<1>2. \A q \in Streams : stream'[q] = IF q = s THEN r ELSE stream[q]
  BY DEF TransportInv, TypeOK
<1>3. StreamsGood'
  BY <1>2 DEF TransportInv, StreamsGood
<1>4. SessionInv'
  BY <1>2 DEF TransportInv, SessionInv, Visited
<1>5. QED
  BY <1>1, <1>3, <1>4

-----------------------------------------------------------------------------
(* A step that leaves crashed alone accuses nobody, since the program has  *)
(* stopped once it is set.                                                 *)
LEMMA NoCrash ==
  ASSUME crashed = "no", crashed' = crashed
  PROVE  SendFindsStream'
BY DEF SendFindsStream

(* More of a stream arrives, or its first part.                            *)
LEMMA DataStep ==
  ASSUME TransportInv, crashed = "no", NEW s \in Streams, NEW n \in Sizes,
         NEW fin \in BOOLEAN, DataArrives(s, n, fin)
  PROVE  TransportInv'
<1> DEFINE f == IF fin THEN "received" ELSE "no"
           t == [stream[s] EXCEPT !.got = stream[s].got + n, !.fin = f]
<1>1. stream[s] \in Stream /\ Good(stream[s]) /\ n \in Nat
  BY ConstantsAssumption DEF TransportInv, TypeOK, StreamsGood
<1>2. f \in {"no", "received"} /\ stream[s].got + n \in Nat
  BY <1>1 DEF Stream
<1> HIDE DEF f
<1>3. /\ t \in Stream /\ t.phase = stream[s].phase
      /\ t.reset = stream[s].reset /\ t.told = stream[s].told
      /\ t.pending = stream[s].pending /\ t.stopped = stream[s].stopped
      /\ t.early = stream[s].early
  BY <1>1, <1>2 DEF Stream
<1> HIDE DEF t
<1>4. CASE stream[s].phase = "accepted" /\ OnCanRead(s, t)
  <2>1. ~t.reset
    BY <1>3 DEF DataArrives
  <2> DEFINE d == Read(t)
  <2>2. /\ d \in Stream /\ Good(d) /\ d.phase = "accepted"
        /\ d.told /\ ~d.reset
    BY <1>3, <1>4, <2>1, ReadFacts
  <2> HIDE DEF d
  <2>3. \E r \in Stream :
          /\ stream' = [stream EXCEPT ![s] = r]
          /\ Good(r) /\ r.phase = "accepted" /\ r.told /\ ~r.reset
          /\ \/ crashed' = crashed
             \/ crashed' = "reply" /\ Closed(r)
    <3>1. CASE Send(s, d, "reply")
      <4>1. PICK r \in Stream :
              /\ stream' = [stream EXCEPT ![s] = r]
              /\ Good(r)
              /\ r.phase = d.phase /\ r.told = d.told /\ r.fin = d.fin
              /\ r.stopped = d.stopped /\ r.reset = d.reset
              /\ crashed' = crashed \/ (crashed' = "reply" /\ Closed(d))
        BY <2>2, <3>1, SendFacts
      <4>2. Closed(d) => Closed(r)
        BY <4>1 DEF Closed, ReadClosed
      <4>3. QED
        BY <2>2, <4>1, <4>2
    <3>2. CASE stream' = [stream EXCEPT ![s] = d] /\ UNCHANGED crashed
      BY <2>2, <3>2
    <3>3. QED
      BY <1>4, <3>1, <3>2 DEF OnCanRead, d
  <2>4. PICK r \in Stream :
          /\ stream' = [stream EXCEPT ![s] = r]
          /\ Good(r) /\ r.phase = "accepted" /\ r.told /\ ~r.reset
          /\ \/ crashed' = crashed
             \/ crashed' = "reply" /\ Closed(r)
    BY <2>3
  <2>5. TypeOK' /\ StreamsGood' /\ SessionInv'
    BY <1>4, <2>4, OneStream DEF DataArrives, TransportInv, TypeOK, Crashes
  <2>6. stream'[s] = r
    BY <2>4 DEF TransportInv, TypeOK
  <2>7. SendFindsStream'
    BY <2>4, <2>6 DEF SendFindsStream, Closed, ReadClosed
  <2>8. QED
    BY <2>5, <2>7 DEF TransportInv
<1>5. CASE /\ stream[s].phase = "held"
           /\ stream' = [stream EXCEPT ![s] = t] /\ UNCHANGED crashed
  <2>1. Good(t)
    BY <1>1, <1>3, <1>5 DEF Good
  <2>2. ~Closed(stream[s])
    BY DEF DataArrives, Closed, ReadClosed
  <2>3. TypeOK' /\ StreamsGood' /\ SessionInv'
    BY <1>3, <1>5, <2>1, <2>2, OneStream DEF DataArrives, TransportInv, TypeOK
  <2>4. QED
    BY <1>5, <2>3, NoCrash DEF TransportInv
<1>6. QED
  BY <1>4, <1>5 DEF DataArrives, t, f

(* A new stream: with a visitor there is no queue, so the stream accepted  *)
(* is the new one; without one it is held back.                            *)
LEMMA OpenStep ==
  ASSUME TransportInv, crashed = "no", NEW s \in Streams, NEW n \in Sizes,
         NEW fin \in BOOLEAN, OpenStream(s, n, fin)
  PROVE  TransportInv'
<1> DEFINE f == IF fin THEN "received" ELSE "no"
           t == [stream[s] EXCEPT !.phase = "held", !.got = n, !.fin = f]
<1>1. /\ stream[s] \in Stream /\ Good(stream[s]) /\ n \in Nat
      /\ f \in {"no", "received"}
      /\ stream[s].phase = "idle"
  BY ConstantsAssumption DEF TransportInv, TypeOK, StreamsGood, OpenStream
<1> HIDE DEF f
<1>2. /\ t \in Stream /\ t.phase = "held" /\ t.got = n
      /\ t.reset = stream[s].reset /\ t.told = stream[s].told
      /\ t.pending = stream[s].pending /\ t.stopped = stream[s].stopped
      /\ t.fin = f
  BY <1>1 DEF Stream
<1> HIDE DEF t
<1>3. Good(t)
  BY <1>1, <1>2 DEF Good
<1>4. CASE /\ Visited
           /\ OnIncomingBidirectionalStreamAvailable(s, t, Append(incoming, s))
           /\ UNCHANGED waiting
  <2> DEFINE queue == Append(incoming, s)
             v == [t EXCEPT !.phase = "accepted", !.early = t.got]
  <2>1. incoming = <<>>
    BY <1>4 DEF TransportInv, SessionInv, Visited
  <2>2. queue = <<s>> /\ Len(queue) = 1 /\ queue[1] = s
    BY <2>1
  <2>3. SubSeq(queue, 1 + 1, Len(queue)) = <<>>
    BY <2>2
  <2>4. stream' = [stream EXCEPT ![s] = v] /\ incoming' = <<>>
    <3>1. PICK i \in 1..Len(queue) :
            /\ incoming' = SubSeq(queue, i + 1, Len(queue))
            /\ stream' = IF queue[i] = s
                           THEN [stream EXCEPT ![s] = SetVisitor(t)]
                           ELSE [stream EXCEPT ![s] = t,
                                               ![queue[i]] = SetVisitor(@)]
      BY <1>4 DEF OnIncomingBidirectionalStreamAvailable, Acceptable
    <3>2. i = 1
      BY <2>2, <3>1
    <3>3. QED
      BY <2>2, <2>3, <3>1, <3>2 DEF SetVisitor
  <2>5. /\ v \in Stream /\ v.phase = "accepted" /\ v.got = n /\ v.early = n
        /\ v.told = t.told /\ v.pending = t.pending /\ v.stopped = t.stopped
    BY <1>1, <1>2 DEF Stream
  <2> HIDE DEF v
  <2>6. ~v.told
    BY <1>1, <1>2, <2>5 DEF Good
  <2>7. Good(v)
    BY <1>1, <1>2, <2>5, <2>6 DEF Good
  <2>8. \A q \in Streams : stream'[q] = IF q = s THEN v ELSE stream[q]
    BY <2>4 DEF TransportInv, TypeOK
  <2>9. TypeOK'
    BY <1>4, <2>4, <2>5, EmptySeq DEF OpenStream, TransportInv, TypeOK
  <2>10. StreamsGood'
    BY <2>7, <2>8 DEF TransportInv, StreamsGood
  <2>11. SessionInv'
    BY <1>4, <2>4, <2>5, <2>8
    DEF OpenStream, TransportInv, SessionInv, Visited
  <2>12. QED
    BY <2>9, <2>10, <2>11, NoCrash DEF OpenStream, TransportInv
<1>5. CASE /\ session = "refused"
           /\ incoming' = Append(incoming, s)
           /\ stream' = [stream EXCEPT ![s] = t]
           /\ UNCHANGED waiting
  <2>1. \A q \in Streams : stream'[q] = IF q = s THEN t ELSE stream[q]
    BY <1>5 DEF TransportInv, TypeOK
  <2>2. TypeOK'
    BY <1>2, <1>5, AppendProperties DEF OpenStream, TransportInv, TypeOK
  <2>3. StreamsGood'
    BY <1>3, <2>1 DEF TransportInv, StreamsGood
  <2>4. SessionInv'
    BY <1>2, <1>5, <2>1 DEF OpenStream, TransportInv, SessionInv, Visited
  <2>5. QED
    BY <2>2, <2>3, <2>4, NoCrash DEF OpenStream, TransportInv
<1>6. CASE /\ session \in {"none", "gone"}
           /\ waiting' = Append(waiting, s)
           /\ stream' = [stream EXCEPT ![s] = t]
           /\ UNCHANGED incoming
  <2>1. \A q \in Streams : stream'[q] = IF q = s THEN t ELSE stream[q]
    BY <1>6 DEF TransportInv, TypeOK
  <2>2. TypeOK'
    BY <1>2, <1>6, AppendProperties DEF OpenStream, TransportInv, TypeOK
  <2>3. StreamsGood'
    BY <1>3, <2>1 DEF TransportInv, StreamsGood
  <2>4. SessionInv'
    BY <1>2, <1>6, <2>1 DEF OpenStream, TransportInv, SessionInv, Visited
  <2>5. QED
    BY <2>2, <2>3, <2>4, NoCrash DEF OpenStream, TransportInv
<1>7. QED
  BY <1>4, <1>5, <1>6 DEF OpenStream, t, f

(* The client's STOP_SENDING drops what waits, its RESET_STREAM only marks *)
(* the read side.                                                          *)
LEMMA StopStep ==
  ASSUME TransportInv, crashed = "no", NEW s \in Streams, OnStopSendingReceived(s)
  PROVE  TransportInv'
<1> DEFINE r == [stream[s] EXCEPT !.stopped = TRUE, !.pending = 0]
<1>1. stream[s] \in Stream /\ Good(stream[s])
  BY DEF TransportInv, TypeOK, StreamsGood
<1>2. stream' = [stream EXCEPT ![s] = r]
  BY DEF OnStopSendingReceived, TransportInv, TypeOK
<1>3. /\ r \in Stream /\ r.phase = stream[s].phase /\ r.told = stream[s].told
      /\ r.reset = stream[s].reset /\ r.fin = stream[s].fin
      /\ r.read = stream[s].read /\ r.got = stream[s].got
      /\ r.early = stream[s].early /\ r.stopped
  BY <1>1 DEF Stream
<1> HIDE DEF r
<1>4. Good(r) /\ (Closed(stream[s]) => Closed(r))
  BY <1>1, <1>3 DEF Good, Closed, ReadClosed
<1>5. QED
  BY <1>2, <1>3, <1>4, OneStream, NoCrash
  DEF OnStopSendingReceived, TransportInv, TypeOK

LEMMA ResetStep ==
  ASSUME TransportInv, crashed = "no", NEW s \in Streams, OnResetStreamReceived(s)
  PROVE  TransportInv'
<1> DEFINE r == [stream[s] EXCEPT !.reset = TRUE]
<1>1. stream[s] \in Stream /\ Good(stream[s])
  BY DEF TransportInv, TypeOK, StreamsGood
<1>2. stream' = [stream EXCEPT ![s] = r]
  BY DEF OnResetStreamReceived, TransportInv, TypeOK
<1>3. /\ r \in Stream /\ r.phase = stream[s].phase /\ r.told = stream[s].told
      /\ r.reset /\ r.pending = stream[s].pending
      /\ r.stopped = stream[s].stopped
  BY <1>1 DEF Stream
<1> HIDE DEF r
<1>4. Good(r) /\ (Closed(stream[s]) => Closed(r))
  BY <1>1, <1>3 DEF Good, Closed, ReadClosed, OnResetStreamReceived
<1>5. QED
  BY <1>2, <1>3, <1>4, OneStream, NoCrash
  DEF OnResetStreamReceived, TransportInv, TypeOK

(* A reply that goes makes room for one.                                   *)
LEMMA CanWriteStep ==
  ASSUME TransportInv, crashed = "no", NEW s \in Streams, OnCanWrite(s)
  PROVE  TransportInv'
<1>1. stream[s] \in Stream /\ Good(stream[s])
  BY DEF TransportInv, TypeOK, StreamsGood
<1>a. stream[s].pending \in Nat /\ stream[s].pending > 0
  BY <1>1 DEF OnCanWrite, Stream
<1>2. PICK p \in Nat : p = stream[s].pending - 1 /\ p < stream[s].pending
  BY <1>a
<1> DEFINE r == [stream[s] EXCEPT !.pending = p]
<1>3. stream' = [stream EXCEPT ![s] = r]
  BY <1>2 DEF OnCanWrite, TransportInv, TypeOK
<1>4. /\ r \in Stream /\ r.phase = stream[s].phase /\ r.told = stream[s].told
      /\ r.reset = stream[s].reset /\ r.fin = stream[s].fin
      /\ r.read = stream[s].read /\ r.got = stream[s].got
      /\ r.early = stream[s].early /\ r.pending = p
      /\ r.stopped = stream[s].stopped
  BY <1>1 DEF Stream
<1> HIDE DEF r
<1>5. stream[s].pending \in Nat /\ Threshold \in Nat
  BY <1>1, ConstantsAssumption DEF Stream
<1>6. Good(r) /\ (Closed(stream[s]) => Closed(r))
  BY <1>1, <1>2, <1>4, <1>5 DEF Good, Closed, ReadClosed, OnCanWrite
<1>7. QED
  BY <1>3, <1>4, <1>6, OneStream, NoCrash DEF OnCanWrite, TransportInv, TypeOK

-----------------------------------------------------------------------------
(* As many unidirectional streams are opened as there is credit for.       *)
LEMMA UniFacts ==
  ASSUME NEW u \in Uni, NEW n \in Nat, TrySendingUnidirectionalStreams(u, n)
  PROVE  uni' \in Uni
<1> DEFINE opened == IF n < u.credit THEN n ELSE u.credit
<1>1. u.credit \in Nat /\ u.opened \in Nat /\ u.copies \in Nat /\ u.blocked \in Nat
  BY DEF Uni
<1>2. opened \in Nat /\ opened <= u.credit
  BY <1>1
<1> HIDE DEF opened
<1>3. PICK b \in 0..opened :
        uni' = [u EXCEPT !.credit = u.credit - opened,
                         !.opened = u.opened + opened,
                         !.copies = u.copies + opened,
                         !.blocked = u.blocked + b]
  BY DEF TrySendingUnidirectionalStreams, opened
<1>4. /\ u.credit - opened \in Nat /\ u.opened + opened \in Nat
      /\ u.copies + opened \in Nat /\ u.blocked + b \in Nat
  BY <1>1, <1>2
<1>5. QED
  BY <1>3, <1>4 DEF Uni

(* OnSessionReady comes before any stream is accepted, and every stream    *)
(* that came before the session and is still there gets its visitor.       *)
LEMMA HeadersStep ==
  ASSUME TransportInv, crashed = "no", HeadersReceived
  PROVE  TransportInv'
<1>1. \A s \in Streams :
        LET t == stream[s] IN
        /\ t \in Stream /\ Good(t)
        /\ stream'[s] = IF t.phase = "held" /\ ~Closed(t)
                          THEN [t EXCEPT !.phase = "accepted", !.early = t.got]
                          ELSE t
  BY DEF HeadersReceived, SetVisitor, TransportInv, TypeOK, StreamsGood
<1>2. ASSUME NEW s \in Streams
      PROVE  /\ stream'[s] \in Stream /\ Good(stream'[s])
             /\ stream'[s].phase = "held" => Closed(stream'[s])
  <2> DEFINE t == stream[s]
             v == [t EXCEPT !.phase = "accepted", !.early = t.got]
  <2>1. t \in Stream /\ Good(t)
    BY <1>1
  <2>2. CASE t.phase = "held" /\ ~Closed(t)
    <3>1. /\ v \in Stream /\ v.phase = "accepted" /\ v.got = v.early
          /\ v.told = t.told /\ v.pending = t.pending /\ v.stopped = t.stopped
      BY <2>1 DEF Stream
    <3>2. stream'[s] = v
      BY <1>1, <2>2
    <3> HIDE DEF v
    <3>3. Good(v)
      BY <2>1, <2>2, <3>1 DEF Good
    <3>4. QED
      BY <3>1, <3>2, <3>3
  <2>3. CASE ~(t.phase = "held" /\ ~Closed(t))
    BY <1>1, <2>1, <2>3
  <2>4. QED
    BY <2>2, <2>3
<1>3. uni' \in Uni
  <2> DEFINE u == [uni EXCEPT !.waiting = 0]
  <2>1. u \in Uni /\ uni.waiting \in Nat
    BY DEF TransportInv, TypeOK, Uni
  <2>2. TrySendingUnidirectionalStreams(u, uni.waiting)
    BY DEF HeadersReceived
  <2> HIDE DEF u
  <2>3. QED
    BY <2>1, <2>2, UniFacts
<1>4. stream' \in [Streams -> Stream]
  BY <1>2 DEF HeadersReceived
<1>5. TypeOK'
  BY <1>3, <1>4, EmptySeq DEF HeadersReceived, TransportInv, TypeOK, Sessions
<1>6. StreamsGood'
  BY <1>2 DEF StreamsGood
<1>7. SessionInv'
  BY <1>2 DEF HeadersReceived, TransportInv, SessionInv, Visited
<1>8. QED
  BY <1>5, <1>6, <1>7, NoCrash DEF HeadersReceived, TransportInv

(* When the CONNECT stream closes, the streams of the session are reset.   *)
LEMMA CloseStep ==
  ASSUME TransportInv, crashed = "no", ConnectStreamCloses
  PROVE  TransportInv'
<1>1. \A s \in Streams :
        LET t == stream[s] IN
        /\ t \in Stream /\ Good(t)
        /\ \/ stream'[s] = t
           \/ /\ t.phase # "idle"
              /\ stream'[s] = [t EXCEPT !.reset = TRUE, !.stopped = TRUE,
                                        !.pending = 0]
  BY DEF ConnectStreamCloses, TransportInv, TypeOK, StreamsGood
<1>2. ASSUME NEW s \in Streams
      PROVE  /\ stream'[s] \in Stream /\ Good(stream'[s])
             /\ stream'[s].phase = stream[s].phase
  <2> DEFINE t == stream[s]
             v == [t EXCEPT !.reset = TRUE, !.stopped = TRUE, !.pending = 0]
  <2>1. t \in Stream /\ Good(t)
    BY <1>1
  <2>2. CASE t.phase # "idle" /\ stream'[s] = v
    <3>1. /\ v \in Stream /\ v.phase = t.phase /\ v.reset
          /\ v.told = t.told /\ v.pending = 0 /\ v.stopped
      BY <2>1 DEF Stream
    <3> HIDE DEF v
    <3>2. Good(v)
      BY <2>1, <2>2, <3>1, ConstantsAssumption DEF Good
    <3>3. QED
      BY <2>2, <3>1, <3>2
  <2>3. CASE stream'[s] = t
    BY <2>1, <2>3
  <2>4. QED
    BY <1>1, <2>2, <2>3
<1>3. uni' \in Uni
  BY DEF ConnectStreamCloses, TransportInv, TypeOK, Uni
<1>4. stream' \in [Streams -> Stream]
  BY <1>2 DEF ConnectStreamCloses
<1>5. TypeOK'
  BY <1>3, <1>4, EmptySeq DEF ConnectStreamCloses, TransportInv, TypeOK, Sessions
<1>6. StreamsGood'
  BY <1>2 DEF StreamsGood
<1>7. SessionInv'
  BY <1>2 DEF ConnectStreamCloses, TransportInv, SessionInv, Visited
<1>8. QED
  BY <1>5, <1>6, <1>7, NoCrash DEF ConnectStreamCloses, TransportInv

(* When the connection closes, every stream is.                            *)
LEMMA ConnectionStep ==
  ASSUME TransportInv, crashed = "no", ConnectionCloses
  PROVE  TransportInv'
<1>1. ASSUME NEW s \in Streams
      PROVE  /\ stream'[s] \in Stream /\ Good(stream'[s])
             /\ stream'[s].phase = stream[s].phase
  <2> DEFINE t == stream[s]
             v == [t EXCEPT !.reset = TRUE, !.stopped = TRUE, !.pending = 0]
  <2>1. t \in Stream /\ Good(t)
    BY DEF TransportInv, TypeOK, StreamsGood
  <2>2. stream'[s] = IF t.phase = "idle" THEN t ELSE v
    BY DEF ConnectionCloses
  <2>3. CASE t.phase # "idle"
    <3>1. /\ v \in Stream /\ v.phase = t.phase /\ v.reset /\ v.told = t.told
      BY <2>1 DEF Stream
    <3> HIDE DEF v
    <3>2. Good(v)
      BY <2>1, <2>3, <3>1 DEF Good
    <3>3. QED
      BY <2>2, <2>3, <3>1, <3>2
  <2>4. QED
    BY <2>1, <2>2, <2>3
<1>2. uni' \in Uni
  BY DEF ConnectionCloses, TransportInv, TypeOK, Uni
<1>3. stream' \in [Streams -> Stream]
  BY <1>1 DEF ConnectionCloses
<1>4. TypeOK'
  BY <1>2, <1>3, EmptySeq DEF ConnectionCloses, TransportInv, TypeOK, Sessions
<1>5. StreamsGood'
  BY <1>1 DEF StreamsGood
<1>6. SessionInv'
  BY <1>1 DEF ConnectionCloses, TransportInv, SessionInv, Visited
<1>7. QED
  BY <1>4, <1>5, <1>6, NoCrash DEF ConnectionCloses, TransportInv

(* What the application sends on its own accord: it may fail only where a  *)
(* stream, or the whole session, is gone.                                  *)
LEMMA PushStep ==
  ASSUME TransportInv, crashed = "no", NEW s \in Streams, Push(s)
  PROVE  TransportInv'
<1>1. stream[s] \in Stream /\ Good(stream[s]) /\ stream[s].told
  BY DEF TransportInv, TypeOK, StreamsGood, Push
<1>2. CASE Send(s, stream[s], "push")
  <2>1. PICK r \in Stream :
          /\ stream' = [stream EXCEPT ![s] = r]
          /\ Good(r)
          /\ r.phase = stream[s].phase /\ r.told = stream[s].told
          /\ r.fin = stream[s].fin
          /\ r.stopped = stream[s].stopped /\ r.reset = stream[s].reset
          /\ crashed' = crashed \/ (crashed' = "push" /\ Closed(stream[s]))
    BY <1>1, <1>2, SendFacts
  <2>2. Closed(stream[s]) => Closed(r)
    BY <2>1 DEF Closed, ReadClosed
  <2>3. TypeOK' /\ StreamsGood' /\ SessionInv'
    BY <2>1, <2>2, OneStream DEF Push, TransportInv, TypeOK, Crashes
  <2>4. stream'[s] = r
    BY <2>1 DEF TransportInv, TypeOK
  <2>5. SendFindsStream'
    BY <1>1, <2>1, <2>2, <2>4, NoCrash DEF SendFindsStream
  <2>6. QED
    BY <2>3, <2>5 DEF TransportInv
<1>3. CASE session = "gone" /\ crashed' = "session" /\ UNCHANGED stream
  <2>1. transport
    BY <1>1 DEF TransportInv, SessionInv, StreamsGood, Good
  <2>2. TypeOK' /\ StreamsGood' /\ SessionInv'
    BY <1>3 DEF Push, TransportInv, TypeOK, Crashes, StreamsGood, SessionInv,
      Visited
  <2>3. SendFindsStream'
    BY <1>3, <2>1 DEF Push, SendFindsStream
  <2>4. QED
    BY <2>2, <2>3 DEF TransportInv
<1>4. QED
  BY <1>2, <1>3 DEF Push

LEMMA DatagramStep ==
  ASSUME TransportInv, crashed = "no", SendDatagram
  PROVE  TransportInv'
<1>1. TypeOK' /\ StreamsGood' /\ SessionInv'
  BY DEF SendDatagram, TransportInv, TypeOK, Crashes, StreamsGood, SessionInv,
    Visited
<1>2. SendFindsStream'
  BY DEF SendDatagram, SendFindsStream
<1>3. QED
  BY <1>1, <1>2 DEF TransportInv

(* The steps that leave the bidirectional streams alone.                   *)
LEMMA OtherStep ==
  ASSUME TransportInv, crashed = "no",
         RefuseSession \/ OnSessionClosed \/ Unidirectional
  PROVE  TransportInv'
<1>1. ASSUME UNCHANGED <<transport, waiting, incoming, stream, crashed>>,
             uni' \in Uni,
             \/ session' = session
             \/ session = "none" /\ session' = "refused"
             \/ session = "ready" /\ session' = "closed"
      PROVE  TransportInv'
  <2>1. TypeOK'
    BY <1>1 DEF TransportInv, TypeOK, Sessions
  <2>2. StreamsGood'
    BY <1>1 DEF TransportInv, StreamsGood
  <2>3. SessionInv'
    BY <1>1 DEF TransportInv, SessionInv, Visited
  <2>4. QED
    BY <1>1, <2>1, <2>2, <2>3, NoCrash DEF TransportInv
<1>2. CASE RefuseSession \/ OnSessionClosed
  BY <1>1, <1>2 DEF RefuseSession, OnSessionClosed, TransportInv, TypeOK
<1>3. CASE OnIncomingUnidirectionalStreamAvailable
  <2> DEFINE u == [uni EXCEPT !.arrived = uni.arrived + 1]
  <2>1. uni \in Uni /\ uni.arrived + 1 \in Nat
    BY DEF TransportInv, TypeOK, Uni
  <2> DEFINE a == uni.arrived + 1
  <2> HIDE DEF a
  <2>2. u \in Uni
    <3>1. [uni EXCEPT !.arrived = a] \in Uni
      BY <2>1 DEF Uni, a
    <3>2. QED
      BY <3>1 DEF a
  <2> HIDE DEF u
  <2>3. u.waiting + 1 \in Nat
    BY <2>2 DEF Uni
  <2> DEFINE w == u.waiting + 1
  <2> HIDE DEF w
  <2>4. [u EXCEPT !.waiting = w] \in Uni
    BY <2>2, <2>3 DEF Uni, w
  <2>5. \/ TrySendingUnidirectionalStreams(u, 1)
        \/ uni' = [u EXCEPT !.waiting = u.waiting + 1]
        \/ uni' = u
    BY <1>3 DEF OnIncomingUnidirectionalStreamAvailable, u
  <2>6. uni' \in Uni
    BY <2>2, <2>5, <2>4, UniFacts DEF w
  <2>7. QED
    BY <1>1, <1>3, <2>6 DEF OnIncomingUnidirectionalStreamAvailable
<1>4. CASE OnCanCreateNewOutgoingUnidirectionalStream
  <2> DEFINE c == uni.credit + 1
  <2>1. uni \in Uni /\ c \in Nat
    BY DEF TransportInv, TypeOK, Uni
  <2>2. uni' = [uni EXCEPT !.credit = c]
    BY <1>4 DEF OnCanCreateNewOutgoingUnidirectionalStream
  <2> HIDE DEF c
  <2>3. uni' \in Uni
    BY <2>1, <2>2 DEF Uni
  <2>4. QED
    BY <1>1, <1>4, <2>3 DEF OnCanCreateNewOutgoingUnidirectionalStream
<1>5. CASE OnCanWriteUni
  <2>1. PICK b \in 0..1 :
          uni' = [uni EXCEPT !.copies = uni.copies + 1,
                             !.blocked = uni.blocked - 1 + b]
    BY <1>5 DEF OnCanWriteUni
  <2>2. uni \in Uni /\ uni.copies \in Nat /\ uni.blocked \in Nat /\ uni.blocked > 0
    BY <1>5 DEF OnCanWriteUni, TransportInv, TypeOK, Uni
  <2>3. uni.copies + 1 \in Nat /\ uni.blocked - 1 + b \in Nat
    BY <2>2
  <2>4. uni' \in Uni
    BY <2>1, <2>2, <2>3 DEF Uni
  <2>5. QED
    BY <1>1, <1>5, <2>4 DEF OnCanWriteUni
<1>6. QED
  BY <1>2, <1>3, <1>4, <1>5 DEF Unidirectional

-----------------------------------------------------------------------------
(* The inductive invariant.                                                *)
LEMMA Inductive == Spec => []TransportInv
<1>1. Init => TransportInv
  <2> SUFFICES ASSUME Init
               PROVE  TransportInv
    OBVIOUS
  <2>1. TypeOK
    BY EmptySeq DEF Init, TypeOK, Sessions, Stream, Uni, Crashes
  <2>2. StreamsGood
    <3>1. ASSUME NEW s \in Streams
          PROVE  Good(stream[s])
      <4>1. /\ ~stream[s].told /\ stream[s].phase = "idle"
            /\ stream[s].fin = "no" /\ ~stream[s].reset
        BY DEF Init
      <4>2. QED
        BY <4>1 DEF Good, ReadClosed
    <3>2. QED
      BY <3>1 DEF StreamsGood
  <2>3. SessionInv /\ SendFindsStream
    BY DEF Init, SessionInv, Visited, SendFindsStream
  <2>4. QED
    BY <2>1, <2>2, <2>3 DEF TransportInv
<1>2. TransportInv /\ [Next]_vars => TransportInv'
  <2> SUFFICES ASSUME TransportInv, [Next]_vars
               PROVE  TransportInv'
    OBVIOUS
  <2>1. CASE Next
    <3>1. crashed = "no"
      BY <2>1 DEF Next
    <3>2. CASE Session
      BY <3>1, <3>2, HeadersStep, CloseStep, ConnectionStep, DatagramStep,
        OtherStep DEF Session
    <3>3. CASE Unidirectional
      BY <3>1, <3>3, OtherStep
    <3>4. CASE \E s \in Streams : Client(s)
      BY <3>1, <3>4, OpenStep, DataStep, StopStep, ResetStep, CanWriteStep,
        PushStep DEF Client
    <3>5. QED
      BY <2>1, <3>2, <3>3, <3>4 DEF Next
  <2>2. CASE UNCHANGED vars
    BY <2>2 DEF vars, TransportInv, TypeOK, StreamsGood, SessionInv, Visited,
      SendFindsStream, Good, Closed, ReadClosed
  <2>3. QED
    BY <2>1, <2>2
<1>3. QED
  BY <1>1, <1>2, PTL DEF Spec

(* The counters of bytes, replies, streams and credit never drop below     *)
(* zero: TrySendingUnidirectionalStreams opens no stream without credit.   *)
THEOREM TypeCorrect == Spec => []TypeOK
<1>1. TransportInv => TypeOK
  BY DEF TransportInv
<1>2. QED
  BY <1>1, Inductive, PTL

(* The lambda of OnIncomingBidirectionalStreamAvailable never finds        *)
(* transport_ unset, and relays nothing in a session that was refused.     *)
THEOREM RelayHasTransport == Spec => []TransportReady
<1>1. TransportInv => TransportReady
  BY DEF TransportInv, StreamsGood, Good, SessionInv, TransportReady
<1>2. QED
  BY <1>1, Inductive, PTL

(* No stream is left without a visitor in a session that has one.          *)
THEOREM StreamsGetVisitors == Spec => []EveryStreamAccepted
<1>1. TransportInv => EveryStreamAccepted
  BY DEF TransportInv, SessionInv, Visited, EveryStreamAccepted
<1>2. QED
  BY <1>1, Inductive, PTL

(* Only what came before the visitor can wait unread.                      *)
THEOREM LaterBytesAreRelayed == Spec => []OnlyEarlyBytesWait
<1>1. TransportInv => OnlyEarlyBytesWait
  BY DEF TransportInv, StreamsGood, Good, OnlyEarlyBytesWait
<1>2. QED
  BY <1>1, Inductive, PTL

(* Whatever the application sends and whenever, it meets a null stream or  *)
(* a dead session only where the client closed the stream on both sides or *)
(* the session is gone; a reply, only on a stream that was stopped before  *)
(* it was finished.                                                        *)
THEOREM OnlyStoppedStreamsAreLost == Spec => []SendFindsStream
<1>1. TransportInv => SendFindsStream
  BY DEF TransportInv
<1>2. QED
  BY <1>1, Inductive, PTL
=============================================================================
