-------------------------- MODULE EchoStreamProofs --------------------------
(***************************************************************************)
(* Theorems about EchoStream, for everything a client may send, however it *)
(* is cut into deliveries, and for every threshold of the stream's buffer; *)
(* the last one: the visitor is an echo.                                   *)
(***************************************************************************)
EXTENDS EchoStream, SequenceTheorems, TLAPS

(* What has arrived is written or in buffer_, and FIN is wanted exactly    *)
(* when the client's side has ended.                                       *)
Accounted ==
  /\ received = written \o buffer
  /\ send_fin = (side # "open")

EchoInv == TypeOK /\ NothingBehindFin /\ RefusedIsRetried /\ Accounted

-----------------------------------------------------------------------------
(* A concatenation starts with its first part.                             *)
LEMMA PrefixOfConcat ==
  ASSUME NEW S, NEW s \in Seq(S), NEW t \in Seq(S)
  PROVE  /\ s \o t \in Seq(S)
         /\ Len(s \o t) = Len(s) + Len(t)
         /\ E!Prefix(s, s \o t)
BY ConcatProperties DEF E!Prefix

(* OnCanWrite neither loses nor repeats what it is given, ends only what   *)
(* is complete, and leaves something to write only if the stream is full.  *)
LEMMA OnCanWriteFacts ==
  ASSUME TypeOK, fin_sent = fin,
         NEW d \in Seq(Bytes), NEW w \in BOOLEAN, NEW p \in 0..Len(written),
         fin => d = <<>>,
         OnCanWrite(d, w, p)
  PROVE  /\ buffer' \in Seq(Bytes) /\ written' \in Seq(Bytes)
         /\ pending' \in 0..Len(written')
         /\ fin' \in BOOLEAN /\ fin_sent' = fin'
         /\ written' \o buffer' = written \o d
         /\ E!Prefix(written, written')
         /\ fin => fin' /\ written' = written /\ buffer' = <<>>
         /\ fin' => fin \/ (w /\ buffer' = <<>>)
         /\ stop_sending_received => written' = written /\ fin' = fin
         /\ ~stop_sending_received /\ (buffer' # <<>> \/ (w /\ ~fin_sent'))
              => pending' >= Threshold
<1>1. CASE /\ stop_sending_received \/ (d # <<>> /\ ~CanWriteNewData(p))
           /\ buffer' = d
           /\ pending' = p
           /\ UNCHANGED <<written, fin, fin_sent>>
  <2>1. E!Prefix(written, written')
    BY <1>1 DEF TypeOK, E!Prefix
  <2>2. d # <<>> /\ ~CanWriteNewData(p) => p >= Threshold
    BY ConstantsAssumption DEF CanWriteNewData
  <2>3. QED
    BY <1>1, <2>1, <2>2 DEF TypeOK
<1>2. CASE /\ ~stop_sending_received
           /\ d = <<>> \/ CanWriteNewData(p)
           /\ buffer' = <<>>
           /\ written' = written \o d
           /\ \E q \in Waiting(p, Len(d)) :
                pending' = q /\ SendFinOnStream(w, q)
  <2>1. PICK q \in Waiting(p, Len(d)) : pending' = q /\ SendFinOnStream(w, q)
    BY <1>2
  <2>2. /\ written' \in Seq(Bytes)
        /\ Len(written') = Len(written) + Len(d)
        /\ E!Prefix(written, written')
    BY <1>2, PrefixOfConcat DEF TypeOK
  <2>3. q \in 0..Len(written')
    BY <2>2 DEF TypeOK, Waiting
  <2>4. written' \o buffer' = written \o d
    BY <1>2, <2>2, ConcatEmptySeq
  <2>5. fin => written' = written
    BY <1>2, ConcatEmptySeq DEF TypeOK
  <2>6. /\ fin' \in BOOLEAN /\ fin_sent' = fin'
        /\ fin => fin'
        /\ fin' => fin \/ w
        /\ w /\ ~fin_sent' => q >= Threshold
    <3>1. q \in Int /\ Threshold \in Int
      BY <2>3, ConstantsAssumption
    <3>2. CASE w /\ ~fin_sent /\ CanWriteNewData(q)
      BY <2>1, <3>2 DEF SendFinOnStream
    <3>3. CASE ~(w /\ ~fin_sent /\ CanWriteNewData(q))
      <4>1. fin' = fin /\ fin_sent' = fin_sent
        BY <2>1, <3>3 DEF SendFinOnStream
      <4>2. w /\ ~fin_sent => ~(q < Threshold)
        BY <3>3 DEF CanWriteNewData
      <4>3. w /\ ~fin_sent => q >= Threshold
        BY <3>1, <4>2
      <4>4. QED
        BY <4>1, <4>3 DEF TypeOK
    <3>4. QED
      BY <3>2, <3>3
  <2>7. QED
    BY <1>2, <2>1, <2>2, <2>3, <2>4, <2>5, <2>6, EmptySeq
<1>3. QED
  BY <1>1, <1>2 DEF OnCanWrite

-----------------------------------------------------------------------------
(* What a handler owes to the invariant and to the echo when it gives      *)
(* OnCanWrite all that has arrived.                                        *)
LEMMA HandlerStep ==
  ASSUME EchoInv,
         NEW d \in Seq(Bytes), NEW w \in BOOLEAN, NEW p \in 0..Len(written),
         fin => d = <<>>,
         OnCanWrite(d, w, p),
         received' \in Seq(Bytes), received' = written \o d,
         side' \in {"open", "fin", "reset"}, w = (side' # "open"),
         side # "open" => side' # "open",
         send_fin' = w,
         UNCHANGED stop_sending_received
  PROVE  /\ EchoInv'
         /\ E!Prefix(received, received') /\ (side # "open" => received' = received)
              => E!Next
<1>1. /\ buffer' \in Seq(Bytes) /\ written' \in Seq(Bytes)
      /\ pending' \in 0..Len(written')
      /\ fin' \in BOOLEAN /\ fin_sent' = fin'
      /\ written' \o buffer' = written \o d
      /\ E!Prefix(written, written')
      /\ fin => fin' /\ written' = written /\ buffer' = <<>>
      /\ fin' => fin \/ (w /\ buffer' = <<>>)
      /\ stop_sending_received => written' = written /\ fin' = fin
      /\ ~stop_sending_received /\ (buffer' # <<>> \/ (w /\ ~fin_sent'))
           => pending' >= Threshold
  BY OnCanWriteFacts DEF EchoInv, NothingBehindFin
<1>2. fin' => buffer' = <<>> /\ side' # "open"
  BY <1>1 DEF EchoInv, NothingBehindFin
<1>3. EchoInv'
  BY <1>1, <1>2
  DEF EchoInv, TypeOK, NothingBehindFin, RefusedIsRetried, Accounted
<1>4. E!Prefix(written', received')
  <2>1. E!Prefix(written', written' \o buffer')
    BY <1>1, PrefixOfConcat
  <2>2. QED
    BY <1>1, <2>1
<1>5. fin' => written' = received'
  BY <1>1, <1>2, ConcatEmptySeq
<1>6. ASSUME E!Prefix(received, received'), side # "open" => received' = received
      PROVE  E!Next
  BY <1>1, <1>2, <1>4, <1>5, <1>6 DEF E!Next, E!Client, E!Answer
<1>7. QED
  BY <1>3, <1>6

LEMMA ReadStep ==
  ASSUME EchoInv, NEW data \in Chunks, NEW end \in BOOLEAN, OnCanRead(data, end)
  PROVE  EchoInv' /\ E!Next
<1> DEFINE d == buffer \o data
           w == send_fin \/ end
<1>1. /\ received \in Seq(Bytes) /\ written \in Seq(Bytes)
      /\ buffer \in Seq(Bytes) /\ data \in Seq(Bytes)
      /\ pending \in 0..Len(written)
  BY ConstantsAssumption DEF EchoInv, TypeOK
<1>2. d \in Seq(Bytes)
  BY <1>1, PrefixOfConcat
<1>3. received' \in Seq(Bytes) /\ E!Prefix(received, received')
  BY <1>1, PrefixOfConcat DEF OnCanRead
<1>4. received' = written \o d
  BY <1>1, ConcatAssociative DEF OnCanRead, EchoInv, Accounted
<1>5. /\ ~fin /\ ~send_fin /\ side = "open"
      /\ w \in BOOLEAN /\ w = (side' # "open")
      /\ side' \in {"open", "fin", "reset"} /\ send_fin' = w
  BY DEF OnCanRead, EchoInv, NothingBehindFin, Accounted
<1>6. OnCanWrite(d, w, pending) /\ UNCHANGED stop_sending_received
  BY DEF OnCanRead
<1> HIDE DEF d, w
<1>7. QED
  BY <1>1, <1>2, <1>3, <1>4, <1>5, <1>6, HandlerStep

LEMMA ResetStep ==
  ASSUME EchoInv, OnResetStreamReceived
  PROVE  EchoInv' /\ E!Next
<1>1. /\ buffer \in Seq(Bytes) /\ pending \in 0..Len(written)
      /\ received' \in Seq(Bytes) /\ received' = written \o buffer
      /\ received' = received /\ side = "open"
      /\ side' = "reset" /\ send_fin' = TRUE /\ ~fin
  BY DEF OnResetStreamReceived, EchoInv, TypeOK, NothingBehindFin, Accounted
<1>2. OnCanWrite(buffer, TRUE, pending) /\ UNCHANGED stop_sending_received
  BY DEF OnResetStreamReceived
<1>3. E!Prefix(received, received')
  BY <1>1 DEF E!Prefix, EchoInv, TypeOK
<1>4. QED
  BY <1>1, <1>2, <1>3, HandlerStep

LEMMA FlowStep ==
  ASSUME EchoInv, FlowControlOpens
  PROVE  EchoInv' /\ E!Next
<1>1. /\ buffer \in Seq(Bytes) /\ written \in Seq(Bytes)
      /\ pending \in 0..Len(written) /\ Len(written) \in Nat
      /\ received' = received /\ side' = side
      /\ received \in Seq(Bytes) /\ received = written \o buffer
      /\ send_fin' = send_fin /\ send_fin \in BOOLEAN
      /\ side \in {"open", "fin", "reset"}
      /\ UNCHANGED stop_sending_received
  BY DEF FlowControlOpens, EchoInv, TypeOK, Accounted
<1>2. E!Prefix(received, received')
  BY <1>1 DEF E!Prefix
<1>3. PICK p \in 0..(pending - 1) :
        \/ CanWriteNewData(p) /\ OnCanWrite(buffer, send_fin, p)
        \/ /\ ~CanWriteNewData(p)
           /\ pending' = p
           /\ UNCHANGED <<buffer, written, fin, fin_sent>>
  BY DEF FlowControlOpens
<1>4. p \in 0..Len(written)
  BY <1>1, <1>3
<1>5. CASE OnCanWrite(buffer, send_fin, p)
  BY <1>1, <1>2, <1>4, <1>5, HandlerStep
  DEF EchoInv, Accounted, NothingBehindFin
<1>6. CASE /\ ~CanWriteNewData(p)
           /\ pending' = p
           /\ UNCHANGED <<buffer, written, fin, fin_sent>>
  <2>1. ~fin => p >= Threshold
    BY <1>4, <1>6, ConstantsAssumption DEF CanWriteNewData
  <2>2. EchoInv'
    BY <1>1, <1>4, <1>6, <2>1
    DEF EchoInv, TypeOK, NothingBehindFin, RefusedIsRetried, Accounted
  <2>3. E!Prefix(written, written') /\ E!Prefix(written', received')
    <3>1. E!Prefix(written, received)
      BY <1>1, PrefixOfConcat
    <3>2. E!Prefix(written, written')
      BY <1>1, <1>6 DEF E!Prefix
    <3>3. QED
      BY <1>1, <1>6, <3>1, <3>2
  <2>4. fin => written = received /\ side # "open"
    BY <1>1, ConcatEmptySeq DEF EchoInv, NothingBehindFin
  <2>5. E!Next
    BY <1>1, <1>2, <1>6, <2>3, <2>4 DEF E!Next, E!Client, E!Answer
  <2>6. QED
    BY <2>2, <2>5
<1>7. QED
  BY <1>3, <1>5, <1>6

LEMMA StopStep ==
  ASSUME EchoInv, OnStopSendingReceived
  PROVE  EchoInv' /\ E!Next
<1>1. EchoInv'
  BY DEF OnStopSendingReceived, EchoInv, TypeOK, NothingBehindFin,
    RefusedIsRetried, Accounted
<1>2. /\ received' = received /\ side' = side /\ written' = written /\ fin' = fin
      /\ ~stop_sending_received /\ stop_sending_received'
  BY DEF OnStopSendingReceived
<1>3. /\ received \in Seq(Bytes) /\ written \in Seq(Bytes) /\ buffer \in Seq(Bytes)
      /\ received = written \o buffer
  BY DEF EchoInv, TypeOK, Accounted
<1>4. E!Prefix(received, received') /\ E!Prefix(written, written')
  BY <1>2, <1>3 DEF E!Prefix
<1>5. E!Prefix(written', received')
  <2>1. E!Prefix(written, received)
    BY <1>3, PrefixOfConcat
  <2>2. QED
    BY <1>2, <2>1
<1>6. fin => written = received /\ side # "open"
  BY <1>3, ConcatEmptySeq DEF EchoInv, NothingBehindFin
<1>7. E!Next
  BY <1>2, <1>4, <1>5, <1>6 DEF E!Next, E!Client, E!Answer
<1>8. QED
  BY <1>1, <1>7

-----------------------------------------------------------------------------
(* The inductive invariant, and what it says of each step.                 *)
LEMMA Initially == Init => EchoInv /\ E!Init
<1> SUFFICES ASSUME Init
             PROVE  EchoInv /\ E!Init
  OBVIOUS
<1>1. TypeOK
  <2>1. <<>> \in Seq(Bytes) /\ Len(<<>>) = 0 /\ 0 \in 0..0
    BY EmptySeq
  <2>2. pending \in 0..Len(written)
    BY <2>1 DEF Init
  <2>3. QED
    BY <2>1, <2>2 DEF Init, TypeOK
<1>2. NothingBehindFin /\ RefusedIsRetried
  BY DEF Init, NothingBehindFin, RefusedIsRetried
<1>3. received = written \o buffer
  <2>1. <<>> \in Seq(Bytes)
    BY EmptySeq
  <2>2. QED
    BY <2>1, ConcatEmptySeq DEF Init
<1>4. QED
  BY <1>1, <1>2, <1>3 DEF Init, EchoInv, Accounted, E!Init

LEMMA EachStep == EchoInv /\ [Next]_vars => EchoInv' /\ [E!Next]_(E!vars)
<1> SUFFICES ASSUME EchoInv, [Next]_vars
             PROVE  EchoInv' /\ [E!Next]_(E!vars)
  OBVIOUS
<1>1. CASE Next
  BY <1>1, ReadStep, ResetStep, FlowStep, StopStep DEF Next
<1>2. CASE UNCHANGED vars
  BY <1>2 DEF vars, E!vars, EchoInv, TypeOK, NothingBehindFin,
    RefusedIsRetried, Accounted
<1>3. QED
  BY <1>1, <1>2

LEMMA Inductive == Spec => []EchoInv
BY Initially, EachStep, PTL DEF Spec

(* buffer_, what was written and what waits are what their types say, and  *)
(* no more waits in the stream than was written.                           *)
THEOREM TypeCorrect == Spec => []TypeOK
<1>1. EchoInv => TypeOK
  BY DEF EchoInv
<1>2. QED
  BY <1>1, Inductive, PTL

(* fin_sent_ is set exactly when the stream has taken the FIN, and nothing *)
(* is left to write then.                                                  *)
THEOREM FinIsLast == Spec => []NothingBehindFin
<1>1. EchoInv => NothingBehindFin
  BY DEF EchoInv
<1>2. QED
  BY <1>1, Inductive, PTL

(* Data or a FIN that the stream refused always has an OnCanWrite to come. *)
THEOREM RefusalsRetried == Spec => []RefusedIsRetried
<1>1. EchoInv => RefusedIsRetried
  BY DEF EchoInv
<1>2. QED
  BY <1>1, Inductive, PTL

(* WebTransportBidirectionalEchoVisitor implements Echo: each handler      *)
(* answers with more of what the client has sent, in order and once, and   *)
(* ends the answer when all of it is written.                              *)
THEOREM VisitorEchoes == Spec => Echoes
BY Initially, EachStep, PTL DEF Spec, Echoes, E!Spec

(* When OnCanWrite comes with room for p bytes fewer, buffer_ gets shorter *)
(* or stays, and then no more than p bytes wait.                           *)
LEMMA NearerStep ==
  ASSUME EchoInv, [Next]_vars, side # "open", ~fin, ~stop_sending_received
  PROVE  \/ fin' \/ stop_sending_received'
         \/ Len(buffer') < Len(buffer)
         \/ buffer' = buffer /\ pending' < pending
         \/ UNCHANGED vars
<1>1. buffer \in Seq(Bytes) /\ Len(buffer) \in Nat /\ pending \in Nat
  BY DEF EchoInv, TypeOK
<1>2. CASE OnStopSendingReceived
  BY <1>2 DEF OnStopSendingReceived
<1>3. CASE FlowControlOpens
  <2>1. PICK p \in 0..(pending - 1) :
          \/ CanWriteNewData(p) /\ OnCanWrite(buffer, send_fin, p)
          \/ pending' = p /\ buffer' = buffer
    BY <1>3 DEF FlowControlOpens
  <2>2. p \in Nat /\ p < pending
    BY <1>1, <2>1
  <2>3. CASE pending' = p /\ buffer' = buffer
    BY <2>2, <2>3
  <2>4. CASE /\ buffer' = <<>>
             /\ \E q \in Waiting(p, Len(buffer)) : pending' = q
    <3>1. CASE buffer = <<>>
      <4>1. Len(buffer) = 0
        BY <3>1, EmptySeq
      <4>2. pending' = p
        BY <2>2, <2>4, <4>1 DEF Waiting
      <4>3. QED
        BY <2>2, <2>4, <3>1, <4>2
    <3>2. CASE buffer # <<>>
      <4>1. Len(buffer) > 0 /\ Len(<<>>) = 0
        BY <1>1, <3>2, EmptySeq
      <4>2. QED
        BY <2>4, <4>1
    <3>3. QED
      BY <3>1, <3>2
  <2>5. QED
    BY <2>1, <2>3, <2>4 DEF OnCanWrite
<1>4. QED
  BY <1>2, <1>3 DEF Next, OnCanRead, OnResetStreamReceived

(* The end of the answer comes nearer with every step, and by RefusedIs-   *)
(* Retried there is always one to come: what is left to show that it comes *)
(* is that flow control opens.                                             *)
THEOREM EndComesNearer == Spec => EndNearer
<1>1. EchoInv /\ [Next]_vars =>
        [side # "open" /\ ~fin /\ ~stop_sending_received =>
           \/ fin' \/ stop_sending_received'
           \/ Len(buffer') < Len(buffer)
           \/ buffer' = buffer /\ pending' < pending]_vars
  BY NearerStep
<1>2. QED
  BY <1>1, Inductive, PTL DEF Spec, EndNearer
=============================================================================
