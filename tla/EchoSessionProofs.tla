-------------------------- MODULE EchoSessionProofs --------------------------
(***************************************************************************)
(* Theorems about the echo of a session, for any number of streams, any    *)
(* sizes of texts and any way in which the client grants credit.           *)
(***************************************************************************)
EXTENDS EchoSession, SequenceTheorems, TLAPS

(* EchoedInOrder element by element: f is the texts of o, then q.          *)
Order(f, o, q) ==
  /\ Len(f) = Len(o) + Len(q)
  /\ \A k \in 1..Len(f) :
       f[k] = IF k <= Len(o) THEN o[k].text ELSE q[k - Len(o)]

(* What is known of an opened stream, given the size of its text.          *)
EchoOf(o, n) ==
  /\ ~o.fin => n = 0 \/ n >= Threshold
  /\ o.pending <= n

(* A new stream has its text, and FIN unless the text is an extreme one.   *)
LEMMA WriteFacts ==
  ASSUME NEW i \in Incoming, NEW n \in Nat, NEW o \in OnCanWrite(i, n)
  PROVE  /\ o \in Opened
         /\ o.text = i
         /\ EchoOf(o, n)
<1>1. PICK p \in 0..n :
        o = [text |-> i, pending |-> p, fin |-> n > 0 /\ p < Threshold]
  BY DEF OnCanWrite
<1>2. o \in Opened /\ o.text = i
  BY <1>1 DEF Opened
<1>3. ~o.fin => ~(n > 0 /\ p < Threshold)
  BY <1>1
<1>4. ~(n > 0 /\ p < Threshold) => n = 0 \/ n >= Threshold
  BY ConstantsAssumption
<1>5. EchoOf(o, n)
  BY <1>1, <1>3, <1>4 DEF EchoOf
<1>6. QED
  BY <1>2, <1>5

(* As many texts leave the queue as streams are opened for them, in order, *)
(* and what is left waits because there is no more credit.                 *)
LEMMA TrySendingFacts ==
  ASSUME opened \in Seq(Opened),
         NEW queue \in Seq(Incoming), NEW allowed \in Nat,
         NEW sizes \in [Incoming -> Nat],
         TrySendingUnidirectionalStreams(sizes, queue, allowed),
         NEW f \in Seq(Incoming), Order(f, opened, queue)
  PROVE  /\ streams_to_echo_back' \in Seq(Incoming)
         /\ opened' \in Seq(Opened)
         /\ credit' \in Nat
         /\ Order(f, opened', streams_to_echo_back')
         /\ streams_to_echo_back' # <<>> => credit' = 0
         /\ credit' + Len(opened') = allowed + Len(opened)
         /\ Len(opened) <= Len(opened')
         /\ \A k \in 1..Len(opened) : opened'[k] = opened[k]
         /\ \A k \in (Len(opened) + 1)..Len(opened') :
              EchoOf(opened'[k], sizes[opened'[k].text])
<1> DEFINE n == IF Len(queue) < allowed THEN Len(queue) ELSE allowed
<1>1. n \in Nat /\ n <= Len(queue) /\ n <= allowed
  OBVIOUS
<1>2. n = Len(queue) \/ n = allowed
  OBVIOUS
<1>3. PICK new \in [1..n -> UNION {OnCanWrite(queue[k], sizes[queue[k]]) :
                                   k \in 1..n}] :
        /\ \A k \in 1..n : new[k] \in OnCanWrite(queue[k], sizes[queue[k]])
        /\ opened' = opened \o new
  BY DEF TrySendingUnidirectionalStreams
<1>4. /\ streams_to_echo_back' = SubSeq(queue, n + 1, Len(queue))
      /\ credit' = allowed - n
  BY DEF TrySendingUnidirectionalStreams
<1> HIDE DEF n
<1>5. \A k \in 1..n : queue[k] \in Incoming
  BY <1>1
<1>6. \A k \in 1..n : /\ new[k] \in Opened
                      /\ new[k].text = queue[k]
                      /\ EchoOf(new[k], sizes[queue[k]])
  BY <1>3, <1>5, WriteFacts
<1>7. new \in Seq(Opened) /\ Len(new) = n
  <2>1. new \in [1..n -> Opened]
    BY <1>3, <1>6
  <2>2. QED
    BY <1>1, <2>1
<1>8. /\ opened' \in Seq(Opened)
      /\ Len(opened') = Len(opened) + n
      /\ \A k \in 1..(Len(opened) + n) :
           opened'[k] = IF k <= Len(opened) THEN opened[k]
                        ELSE new[k - Len(opened)]
  BY <1>3, <1>7, ConcatProperties
<1>9. /\ streams_to_echo_back' \in Seq(Incoming)
      /\ Len(streams_to_echo_back') = Len(queue) - n
      /\ \A k \in 1..(Len(queue) - n) :
           streams_to_echo_back'[k] = queue[n + k]
  <2>1. \A k \in (n + 1)..Len(queue) : queue[k] \in Incoming
    BY <1>1
  <2>2. /\ SubSeq(queue, n + 1, Len(queue)) \in Seq(Incoming)
        /\ Len(SubSeq(queue, n + 1, Len(queue))) =
             IF n + 1 <= Len(queue) THEN Len(queue) - (n + 1) + 1 ELSE 0
        /\ \A k \in 1..(Len(queue) - (n + 1) + 1) :
             SubSeq(queue, n + 1, Len(queue))[k] = queue[(n + 1) + k - 1]
    BY <1>1, <2>1, SubSeqProperties
  <2>3. QED
    BY <1>1, <1>4, <2>2
<1>10. /\ credit' \in Nat
       /\ streams_to_echo_back' # <<>> => credit' = 0
       /\ credit' + Len(opened') = allowed + Len(opened)
  BY <1>1, <1>2, <1>4, <1>8, <1>9
<1>11. Order(f, opened', streams_to_echo_back')
  <2>1. /\ Len(f) = Len(opened) + Len(queue)
        /\ Len(opened) \in Nat /\ Len(queue) \in Nat
    BY DEF Order
  <2>2. Len(f) = Len(opened') + Len(streams_to_echo_back')
    BY <1>1, <1>8, <1>9, <2>1
  <2>3. ASSUME NEW k \in 1..Len(f)
        PROVE  f[k] = IF k <= Len(opened') THEN opened'[k].text
                      ELSE streams_to_echo_back'[k - Len(opened')]
    <3>1. f[k] = IF k <= Len(opened) THEN opened[k].text
                 ELSE queue[k - Len(opened)]
      BY DEF Order
    <3>2. CASE k <= Len(opened)
      BY <1>1, <1>8, <2>1, <3>1, <3>2
    <3>3. CASE k > Len(opened) /\ k <= Len(opened')
      <4>1. k - Len(opened) \in 1..n /\ ~(k <= Len(opened))
        BY <1>1, <1>8, <2>1, <3>3
      <4>2. opened'[k] = new[k - Len(opened)]
        BY <1>1, <1>8, <2>1, <3>3, <4>1
      <4>3. QED
        BY <1>6, <3>1, <3>3, <4>1, <4>2
    <3>4. CASE k > Len(opened')
      <4>1. /\ k - Len(opened') \in 1..(Len(queue) - n)
            /\ n + (k - Len(opened')) = k - Len(opened)
            /\ ~(k <= Len(opened)) /\ ~(k <= Len(opened'))
        BY <1>1, <1>8, <2>1, <3>4
      <4>2. streams_to_echo_back'[k - Len(opened')] = queue[k - Len(opened)]
        BY <1>9, <4>1
      <4>3. QED
        BY <3>1, <4>1, <4>2
    <3>5. QED
      BY <1>1, <1>8, <2>1, <3>2, <3>3, <3>4
  <2>4. QED
    BY <2>2, <2>3 DEF Order
<1>12. ASSUME NEW k \in (Len(opened) + 1)..Len(opened')
       PROVE  EchoOf(opened'[k], sizes[opened'[k].text])
  <2>1. Len(opened) \in Nat
    OBVIOUS
  <2>2. k - Len(opened) \in 1..n /\ ~(k <= Len(opened))
    BY <1>1, <1>8, <2>1
  <2>3. opened'[k] = new[k - Len(opened)]
    BY <1>1, <1>8, <2>1, <2>2
  <2>4. QED
    BY <1>6, <2>2, <2>3
<1>13. QED
  BY <1>1, <1>8, <1>9, <1>10, <1>11, <1>12

-----------------------------------------------------------------------------
FinishedAreWhole == \A k \in 1..Len(finished) : incoming[finished[k]].side = "fin"

EchoesEnd ==
  \A k \in 1..Len(opened) :
    EchoOf(opened[k], incoming[opened[k].text].size)

(* The one bidirectional stream.                                           *)
OneEchoStream ==
  /\ bidirectional.opened = IF echo_stream_opened_ THEN 1 ELSE 0
  /\ ready /\ bidirectional.credit > 0 => echo_stream_opened_

EchoInv ==
  /\ TypeOK
  /\ Order(finished, opened, streams_to_echo_back)
  /\ streams_to_echo_back # <<>> => credit = 0
  /\ FinishedAreWhole
  /\ EchoesEnd
  /\ OneEchoStream

(* What has been opened carries a text that is complete.                   *)
LEMMA OpenedAreWhole ==
  ASSUME EchoInv, NEW k \in 1..Len(opened)
  PROVE  /\ opened[k] \in Opened
         /\ opened[k].text \in Incoming
         /\ incoming[opened[k].text].side = "fin"
<1>1. opened[k] \in Opened /\ opened[k].text \in Incoming
  <2>1. opened[k] \in Opened
    BY DEF EchoInv, TypeOK
  <2>2. QED
    BY <2>1 DEF Opened
<1>2. k \in 1..Len(finished) /\ finished[k] = opened[k].text
  <2>1. /\ Len(opened) \in Nat /\ Len(streams_to_echo_back) \in Nat
        /\ Len(finished) = Len(opened) + Len(streams_to_echo_back)
    BY DEF EchoInv, TypeOK, Order
  <2>2. k \in 1..Len(finished) /\ k <= Len(opened)
    BY <2>1
  <2>3. QED
    BY <2>2 DEF EchoInv, Order
<1>3. QED
  BY <1>1, <1>2 DEF EchoInv, FinishedAreWhole

LEMMA InitEstablishes == Init => EchoInv
<1> SUFFICES ASSUME Init PROVE EchoInv
  OBVIOUS
<1>1. Len(finished) = 0 /\ Len(opened) = 0 /\ Len(streams_to_echo_back) = 0
  BY DEF Init
<1>2. TypeOK
  <2>1. /\ streams_to_echo_back \in Seq(Incoming)
        /\ opened \in Seq(Opened)
        /\ finished \in Seq(Incoming)
    BY DEF Init
  <2>2. QED
    BY <2>1 DEF Init, TypeOK
<1>3. QED
  BY <1>1, <1>2
  DEF Init, EchoInv, Order, FinishedAreWhole, EchoesEnd, OneEchoStream

(* A FIN completes a text, and as many texts as are allowed are sent.      *)
LEMMA FinishStep ==
  ASSUME EchoInv, NEW i \in Incoming, NEW size \in Nat,
         incoming[i].side = "open", Finish(i, size),
         incoming' = [incoming EXCEPT ![i] = [size |-> size, side |-> "fin"]],
         UNCHANGED session
  PROVE  EchoInv'
<1> DEFINE sizes == [j \in Incoming |-> IF j = i THEN size ELSE incoming[j].size]
           queue == Append(streams_to_echo_back, i)
<1>1. /\ finished \in Seq(Incoming) /\ opened \in Seq(Opened)
      /\ streams_to_echo_back \in Seq(Incoming) /\ credit \in Nat
      /\ Len(finished) \in Nat /\ Len(opened) \in Nat
      /\ Len(streams_to_echo_back) \in Nat
      /\ Len(finished) = Len(opened) + Len(streams_to_echo_back)
  BY DEF EchoInv, TypeOK, Order
<1>2. sizes \in [Incoming -> Nat]
  BY DEF EchoInv, TypeOK
<1>3. /\ queue \in Seq(Incoming)
      /\ Len(queue) = Len(streams_to_echo_back) + 1
      /\ \A k \in 1..Len(streams_to_echo_back) :
           queue[k] = streams_to_echo_back[k]
      /\ queue[Len(streams_to_echo_back) + 1] = i
  BY <1>1
<1>4. /\ finished' \in Seq(Incoming)
      /\ Len(finished') = Len(finished) + 1
      /\ \A k \in 1..Len(finished) : finished'[k] = finished[k]
      /\ finished'[Len(finished) + 1] = i
  BY <1>1 DEF Finish
<1>5. TrySendingUnidirectionalStreams(sizes, queue, credit)
  BY DEF Finish
<1>6. \A j \in Incoming : sizes[j] = incoming'[j].size
  BY DEF EchoInv, TypeOK
<1> HIDE DEF sizes, queue
<1>7. Order(finished', opened, queue)
  <2>1. Len(finished') = Len(opened) + Len(queue)
    BY <1>1, <1>3, <1>4
  <2>2. ASSUME NEW k \in 1..Len(finished')
        PROVE  finished'[k] = IF k <= Len(opened) THEN opened[k].text
                              ELSE queue[k - Len(opened)]
    <3>1. CASE k \in 1..Len(finished)
      <4>1. finished'[k] = IF k <= Len(opened) THEN opened[k].text
                           ELSE streams_to_echo_back[k - Len(opened)]
        BY <1>4, <3>1 DEF EchoInv, Order
      <4>2. CASE k <= Len(opened)
        BY <4>1, <4>2
      <4>3. CASE ~(k <= Len(opened))
        <5>1. k - Len(opened) \in 1..Len(streams_to_echo_back)
          BY <1>1, <3>1, <4>3
        <5>2. QED
          BY <1>3, <4>1, <4>3, <5>1
      <4>4. QED
        BY <4>2, <4>3
    <3>2. CASE k = Len(finished) + 1
      <4>1. ~(k <= Len(opened)) /\ k - Len(opened) = Len(streams_to_echo_back) + 1
        BY <1>1, <3>2
      <4>2. QED
        BY <1>3, <1>4, <3>2, <4>1
    <3>3. QED
      BY <1>1, <1>4, <3>1, <3>2
  <2>3. QED
    BY <2>1, <2>2 DEF Order
<1>8. /\ streams_to_echo_back' \in Seq(Incoming)
      /\ opened' \in Seq(Opened)
      /\ credit' \in Nat
      /\ Order(finished', opened', streams_to_echo_back')
      /\ streams_to_echo_back' # <<>> => credit' = 0
      /\ Len(opened) <= Len(opened')
      /\ \A k \in 1..Len(opened) : opened'[k] = opened[k]
      /\ \A k \in (Len(opened) + 1)..Len(opened') :
           EchoOf(opened'[k], sizes[opened'[k].text])
  BY <1>1, <1>2, <1>3, <1>4, <1>5, <1>7, TrySendingFacts
<1>9. TypeOK'
  BY <1>4, <1>8 DEF EchoInv, TypeOK, session
<1>10. FinishedAreWhole'
  <2>1. ASSUME NEW k \in 1..Len(finished')
        PROVE  incoming'[finished'[k]].side = "fin"
    <3>1. CASE k \in 1..Len(finished)
      <4>1. finished[k] \in Incoming /\ incoming[finished[k]].side = "fin"
        BY <1>1, <3>1 DEF EchoInv, FinishedAreWhole
      <4>2. QED
        BY <1>4, <3>1, <4>1 DEF EchoInv, TypeOK
    <3>2. CASE k = Len(finished) + 1
      BY <1>4, <3>2 DEF EchoInv, TypeOK
    <3>3. QED
      BY <1>1, <1>4, <3>1, <3>2
  <2>2. QED
    BY <2>1 DEF FinishedAreWhole
<1>11. EchoesEnd'
  <2>1. ASSUME NEW k \in 1..Len(opened')
        PROVE  EchoOf(opened'[k], incoming'[opened'[k].text].size)
    <3>1. CASE k \in 1..Len(opened)
      <4>1. /\ opened[k].text \in Incoming
            /\ incoming[opened[k].text].side = "fin"
        BY <3>1, OpenedAreWhole
      <4>2. incoming'[opened[k].text] = incoming[opened[k].text]
        BY <4>1 DEF EchoInv, TypeOK
      <4>3. EchoOf(opened[k], incoming[opened[k].text].size)
        BY <3>1 DEF EchoInv, EchoesEnd
      <4>4. QED
        BY <1>8, <3>1, <4>2, <4>3
    <3>2. CASE k \in (Len(opened) + 1)..Len(opened')
      <4>1. opened'[k].text \in Incoming
        <5>1. opened'[k] \in Opened
          BY <1>1, <1>8, <3>2
        <5>2. QED
          BY <5>1 DEF Opened
      <4>2. QED
        BY <1>6, <1>8, <3>2, <4>1
    <3>3. QED
      BY <1>1, <1>8, <3>1, <3>2
  <2>2. QED
    BY <2>1 DEF EchoesEnd
<1>12. OneEchoStream'
  BY DEF EchoInv, OneEchoStream, session
<1>13. QED
  BY <1>8, <1>9, <1>10, <1>11, <1>12 DEF EchoInv

(* A stream that is not complete has no echo yet, and may change.          *)
LEMMA UnfinishedChanges ==
  ASSUME EchoInv, NEW i \in Incoming, incoming[i].side = "open",
         NEW new \in [size : Nat, side : {"open", "fin", "reset"}],
         incoming' = [incoming EXCEPT ![i] = new],
         UNCHANGED <<streams_to_echo_back, credit, opened, finished, session>>
  PROVE  EchoInv'
<1>1. TypeOK'
  BY DEF EchoInv, TypeOK, session
<1>2. FinishedAreWhole'
  <2>1. ASSUME NEW k \in 1..Len(finished)
        PROVE  incoming'[finished[k]].side = "fin"
    <3>1. finished[k] \in Incoming /\ incoming[finished[k]].side = "fin"
      BY DEF EchoInv, TypeOK, FinishedAreWhole
    <3>2. QED
      BY <3>1 DEF EchoInv, TypeOK
  <2>2. QED
    BY <2>1 DEF FinishedAreWhole
<1>3. EchoesEnd'
  <2>1. ASSUME NEW k \in 1..Len(opened)
        PROVE  EchoOf(opened[k], incoming'[opened[k].text].size)
    <3>1. opened[k].text \in Incoming /\ incoming[opened[k].text].side = "fin"
      BY OpenedAreWhole
    <3>2. incoming'[opened[k].text] = incoming[opened[k].text]
      BY <3>1 DEF EchoInv, TypeOK
    <3>3. QED
      BY <3>2 DEF EchoInv, EchoesEnd
  <2>2. QED
    BY <2>1 DEF EchoesEnd
<1>4. OneEchoStream'
  BY DEF EchoInv, OneEchoStream, session
<1>5. QED
  BY <1>1, <1>2, <1>3, <1>4 DEF EchoInv, Order

LEMMA ReadStep ==
  ASSUME EchoInv, NEW i \in Incoming, NEW n \in Sizes, NEW fin \in BOOLEAN,
         OnCanRead(i, n, fin)
  PROVE  EchoInv'
<1>1. incoming[i].size + n \in Nat /\ incoming[i].side = "open"
  BY ConstantsAssumption DEF EchoInv, TypeOK, OnCanRead
<1>2. CASE fin /\ Finish(i, incoming[i].size + n)
  BY <1>1, <1>2, FinishStep DEF OnCanRead
<1>3. CASE /\ ~fin
           /\ UNCHANGED <<streams_to_echo_back, credit, opened, finished>>
  <2>1. [size |-> incoming[i].size + n, side |-> "open"]
          \in [size : Nat, side : {"open", "fin", "reset"}]
    BY <1>1
  <2>2. /\ incoming' = [incoming EXCEPT ![i] =
             [size |-> incoming[i].size + n, side |-> "open"]]
        /\ UNCHANGED <<streams_to_echo_back, credit, opened, finished, session>>
    BY <1>3 DEF OnCanRead
  <2>3. QED
    BY <1>1, <2>1, <2>2, UnfinishedChanges
<1>4. QED
  BY <1>2, <1>3 DEF OnCanRead

LEMMA ResetStep ==
  ASSUME EchoInv, NEW i \in Incoming, OnResetStreamReceived(i)
  PROVE  EchoInv'
<1>1. [incoming[i] EXCEPT !.side = "reset"]
        \in [size : Nat, side : {"open", "fin", "reset"}]
  BY DEF EchoInv, TypeOK
<1>2. /\ incoming[i].side = "open"
      /\ incoming' = [incoming EXCEPT ![i] = [incoming[i] EXCEPT !.side = "reset"]]
      /\ UNCHANGED <<streams_to_echo_back, credit, opened, finished, session>>
  BY DEF OnResetStreamReceived
<1>3. QED
  BY <1>1, <1>2, UnfinishedChanges

LEMMA CreditStep ==
  ASSUME EchoInv, NEW n \in Grants,
         OnCanCreateNewOutgoingUnidirectionalStream(n)
  PROVE  EchoInv'
<1> DEFINE sizes == [j \in Incoming |-> incoming[j].size]
<1>1. /\ finished \in Seq(Incoming) /\ opened \in Seq(Opened)
      /\ streams_to_echo_back \in Seq(Incoming)
      /\ Len(opened) \in Nat
      /\ credit + n \in Nat
      /\ Order(finished, opened, streams_to_echo_back)
  BY ConstantsAssumption DEF EchoInv, TypeOK
<1>2. sizes \in [Incoming -> Nat]
  BY DEF EchoInv, TypeOK
<1>3. TrySendingUnidirectionalStreams(sizes, streams_to_echo_back, credit + n)
  BY DEF OnCanCreateNewOutgoingUnidirectionalStream
<1>4. \A j \in Incoming : sizes[j] = incoming[j].size
  OBVIOUS
<1> HIDE DEF sizes
<1>5. /\ streams_to_echo_back' \in Seq(Incoming)
      /\ opened' \in Seq(Opened)
      /\ credit' \in Nat
      /\ Order(finished, opened', streams_to_echo_back')
      /\ streams_to_echo_back' # <<>> => credit' = 0
      /\ Len(opened) <= Len(opened')
      /\ \A k \in 1..Len(opened) : opened'[k] = opened[k]
      /\ \A k \in (Len(opened) + 1)..Len(opened') :
           EchoOf(opened'[k], sizes[opened'[k].text])
  BY <1>1, <1>2, <1>3, TrySendingFacts
<1>6. UNCHANGED <<incoming, finished, session>>
  BY DEF OnCanCreateNewOutgoingUnidirectionalStream
<1>7. TypeOK'
  BY <1>5, <1>6 DEF EchoInv, TypeOK, session
<1>8. EchoesEnd'
  <2>1. ASSUME NEW k \in 1..Len(opened')
        PROVE  EchoOf(opened'[k], incoming[opened'[k].text].size)
    <3>1. CASE k \in 1..Len(opened)
      BY <1>5, <3>1 DEF EchoInv, EchoesEnd
    <3>2. CASE k \in (Len(opened) + 1)..Len(opened')
      <4>1. opened'[k].text \in Incoming
        <5>1. opened'[k] \in Opened
          BY <1>1, <1>5, <3>2
        <5>2. QED
          BY <5>1 DEF Opened
      <4>2. QED
        BY <1>4, <1>5, <3>2, <4>1
    <3>3. QED
      BY <1>1, <1>5, <3>1, <3>2
  <2>2. QED
    BY <1>6, <2>1 DEF EchoesEnd
<1>9. QED
  BY <1>5, <1>6, <1>7, <1>8
  DEF EchoInv, FinishedAreWhole, OneEchoStream, session

LEMMA FlowControlStep ==
  ASSUME EchoInv, NEW k \in 1..Len(opened), FlowControlOpens(k)
  PROVE  EchoInv'
<1>1. PICK p \in 0..(opened[k].pending - 1) :
        opened' = [opened EXCEPT ![k].pending = p]
  BY DEF FlowControlOpens
<1>2. opened \in Seq(Opened) /\ opened[k] \in Opened /\ p \in Nat
  <2>1. opened \in Seq(Opened) /\ opened[k] \in Opened
    BY DEF EchoInv, TypeOK
  <2>2. opened[k].pending \in Nat
    BY <2>1 DEF Opened
  <2>3. QED
    BY <1>1, <2>1, <2>2
<1>3. /\ opened' \in Seq(Opened)
      /\ Len(opened') = Len(opened)
      /\ \A j \in 1..Len(opened) : /\ opened'[j].text = opened[j].text
                                   /\ opened'[j].fin = opened[j].fin
                                   /\ opened'[j].pending <= opened[j].pending
  <2>1. [opened[k] EXCEPT !.pending = p] \in Opened
    BY <1>2 DEF Opened
  <2>2. opened' = [opened EXCEPT ![k] = [opened[k] EXCEPT !.pending = p]]
    BY <1>1
  <2>3. opened' \in Seq(Opened) /\ Len(opened') = Len(opened)
    BY <1>2, <2>1, <2>2, ExceptSeq
  <2>4. ASSUME NEW j \in 1..Len(opened)
        PROVE  /\ opened'[j].text = opened[j].text
               /\ opened'[j].fin = opened[j].fin
               /\ opened'[j].pending <= opened[j].pending
    <3>1. opened'[j] = IF j = k THEN [opened[k] EXCEPT !.pending = p]
                       ELSE opened[j]
      BY <1>2, <2>2
    <3>2. opened[j] \in Opened
      BY <1>2
    <3>3. p <= opened[k].pending
      BY <1>1, <1>2 DEF Opened
    <3>4. QED
      BY <1>2, <3>1, <3>2, <3>3 DEF Opened
  <2>5. QED
    BY <2>3, <2>4
<1>4. UNCHANGED <<incoming, streams_to_echo_back, credit, finished, session>>
  BY DEF FlowControlOpens
<1>5. TypeOK'
  BY <1>3, <1>4 DEF EchoInv, TypeOK, session
<1>6. Order(finished', opened', streams_to_echo_back')
  <2>1. /\ Len(opened) \in Nat /\ Len(finished) \in Nat
        /\ Order(finished, opened, streams_to_echo_back)
    <3>1. finished \in Seq(Incoming) /\ opened \in Seq(Opened)
      BY DEF EchoInv, TypeOK
    <3>2. QED
      BY <3>1 DEF EchoInv
  <2>2. ASSUME NEW j \in 1..Len(finished)
        PROVE  finished[j] = IF j <= Len(opened) THEN opened'[j].text
                             ELSE streams_to_echo_back[j - Len(opened)]
    <3>1. finished[j] = IF j <= Len(opened) THEN opened[j].text
                        ELSE streams_to_echo_back[j - Len(opened)]
      BY <2>1 DEF Order
    <3>2. j <= Len(opened) => opened'[j].text = opened[j].text
      BY <1>3, <2>1
    <3>3. QED
      BY <3>1, <3>2
  <2>3. QED
    BY <1>3, <1>4, <2>1, <2>2 DEF Order
<1>7. EchoesEnd'
  <2>1. ASSUME NEW j \in 1..Len(opened)
        PROVE  EchoOf(opened'[j], incoming[opened'[j].text].size)
    <3>1. /\ opened[j] \in Opened /\ opened'[j] \in Opened
          /\ incoming[opened[j].text].size \in Nat
      <4>1. opened[j] \in Opened /\ opened[j].text \in Incoming
        BY OpenedAreWhole
      <4>2. QED
        BY <1>3, <4>1 DEF EchoInv, TypeOK
    <3>2. opened[j].pending \in Nat /\ opened'[j].pending \in Nat
      BY <3>1 DEF Opened
    <3>3. EchoOf(opened[j], incoming[opened[j].text].size)
      BY DEF EchoInv, EchoesEnd
    <3>4. QED
      BY <1>3, <3>1, <3>2, <3>3 DEF EchoOf
  <2>2. QED
    BY <1>3, <1>4, <2>1 DEF EchoesEnd
<1>8. QED
  BY <1>4, <1>5, <1>6, <1>7
  DEF EchoInv, FinishedAreWhole, OneEchoStream, session

(* The stream that echoes is opened by whichever comes last, the session   *)
(* or the first credit.                                                    *)
LEMMA OpenFacts ==
  ASSUME EchoInv, NEW allowed \in Nat \ {0}, OpenEchoStream(allowed)
  PROVE  /\ bidirectional' \in [credit : Nat, opened : Nat]
         /\ bidirectional'.opened = 1
         /\ echo_stream_opened_'
<1>1. /\ bidirectional \in [credit : Nat, opened : Nat]
      /\ bidirectional.opened = IF echo_stream_opened_ THEN 1 ELSE 0
  BY DEF EchoInv, TypeOK, OneEchoStream
<1>2. CASE echo_stream_opened_
  BY <1>1, <1>2 DEF OpenEchoStream
<1>3. CASE ~echo_stream_opened_
  BY <1>1, <1>3 DEF OpenEchoStream, CreateOutgoingBidirectionalStream
<1>4. QED
  BY <1>2, <1>3

LEMMA SessionStep ==
  ASSUME EchoInv,
         OnSessionReady \/ OnCanCreateNewOutgoingBidirectionalStream
  PROVE  EchoInv'
<1>1. /\ bidirectional \in [credit : Nat, opened : Nat]
      /\ bidirectional.opened = IF echo_stream_opened_ THEN 1 ELSE 0
      /\ ready \in BOOLEAN /\ echo_stream_opened_ \in BOOLEAN
      /\ ready /\ bidirectional.credit > 0 => echo_stream_opened_
  BY DEF EchoInv, TypeOK, OneEchoStream
<1>2. /\ UNCHANGED unidirectional
      /\ bidirectional' \in [credit : Nat, opened : Nat]
      /\ ready' \in BOOLEAN
      /\ echo_stream_opened_' \in BOOLEAN
      /\ OneEchoStream'
  <2>1. CASE OnSessionReady /\ bidirectional.credit > 0
    <3>1. bidirectional.credit \in Nat \ {0} /\ OpenEchoStream(bidirectional.credit)
      BY <1>1, <2>1 DEF OnSessionReady
    <3>2. /\ bidirectional' \in [credit : Nat, opened : Nat]
          /\ bidirectional'.opened = 1
          /\ echo_stream_opened_'
      BY <3>1, OpenFacts
    <3>3. echo_stream_opened_' = TRUE
      BY <3>1 DEF OpenEchoStream
    <3>4. QED
      BY <2>1, <3>2, <3>3 DEF OnSessionReady, OneEchoStream
  <2>2. CASE OnSessionReady /\ bidirectional.credit = 0
    <3>1. UNCHANGED <<echo_stream_opened_, bidirectional, unidirectional>> /\ ready'
      BY <1>1, <2>2 DEF OnSessionReady, OpenEchoStream
    <3>2. QED
      BY <1>1, <2>2, <3>1 DEF OneEchoStream, OnSessionReady
  <2>3. CASE OnCanCreateNewOutgoingBidirectionalStream /\ ready
    <3>1. /\ bidirectional.credit + 1 \in Nat \ {0}
          /\ OpenEchoStream(bidirectional.credit + 1)
      BY <1>1, <2>3 DEF OnCanCreateNewOutgoingBidirectionalStream
    <3>2. /\ bidirectional' \in [credit : Nat, opened : Nat]
          /\ bidirectional'.opened = 1
          /\ echo_stream_opened_'
      BY <3>1, OpenFacts
    <3>3. echo_stream_opened_' = TRUE
      BY <3>1 DEF OpenEchoStream
    <3>4. QED
      BY <2>3, <3>2, <3>3
      DEF OnCanCreateNewOutgoingBidirectionalStream, OneEchoStream
  <2>4. CASE OnCanCreateNewOutgoingBidirectionalStream /\ ~ready
    <3>1. /\ bidirectional' = [bidirectional EXCEPT !.credit = @ + 1]
          /\ UNCHANGED <<echo_stream_opened_, ready, unidirectional>>
      BY <2>4 DEF OnCanCreateNewOutgoingBidirectionalStream
    <3>2. QED
      BY <1>1, <2>4, <3>1 DEF OneEchoStream
  <2>5. QED
    BY <1>1, <2>1, <2>2, <2>3, <2>4
<1>3. TypeOK'
  BY <1>2 DEF EchoInv, TypeOK, unidirectional
<1>4. QED
  BY <1>2, <1>3 DEF EchoInv, FinishedAreWhole, EchoesEnd, Order, unidirectional

LEMMA NextPreserves == EchoInv /\ [Next]_vars => EchoInv'
<1> SUFFICES ASSUME EchoInv, [Next]_vars PROVE EchoInv'
  OBVIOUS
<1>1. ASSUME NEW i \in Incoming, NEW n \in Sizes, NEW fin \in BOOLEAN,
             OnCanRead(i, n, fin)
      PROVE  EchoInv'
  BY <1>1, ReadStep
<1>2. ASSUME NEW i \in Incoming, OnResetStreamReceived(i)
      PROVE  EchoInv'
  BY <1>2, ResetStep
<1>3. ASSUME NEW n \in Grants, OnCanCreateNewOutgoingUnidirectionalStream(n)
      PROVE  EchoInv'
  BY <1>3, CreditStep
<1>4. ASSUME NEW k \in 1..Len(opened), FlowControlOpens(k)
      PROVE  EchoInv'
  BY <1>4, FlowControlStep
<1>5. CASE OnSessionReady \/ OnCanCreateNewOutgoingBidirectionalStream
  BY <1>5, SessionStep
<1>6. CASE UNCHANGED vars
  BY <1>6 DEF vars, EchoInv, TypeOK, Order, FinishedAreWhole, EchoesEnd,
    OneEchoStream
<1>7. QED
  BY <1>1, <1>2, <1>3, <1>4, <1>5, <1>6 DEF Next

LEMMA Inductive == Spec => []EchoInv
BY InitEstablishes, NextPreserves, PTL DEF Spec

-----------------------------------------------------------------------------
(* The visitors' data is what the code takes it for.                       *)
THEOREM TypeCorrect == Spec => []TypeOK
<1>1. EchoInv => TypeOK
  BY DEF EchoInv
<1>2. QED
  BY <1>1, Inductive, PTL

(* TrySendingUnidirectionalStreams sends the texts back in the order in    *)
(* which their streams ended, each once, and the rest is still queued.     *)
THEOREM EchoOrder == Spec => []EchoedInOrder
<1>1. ASSUME EchoInv PROVE EchoedInOrder
  <2> DEFINE texts == [k \in 1..Len(opened) |-> opened[k].text]
  <2>1. /\ finished \in Seq(Incoming) /\ streams_to_echo_back \in Seq(Incoming)
        /\ opened \in Seq(Opened) /\ Len(opened) \in Nat
        /\ Order(finished, opened, streams_to_echo_back)
    BY <1>1 DEF EchoInv, TypeOK
  <2>2. /\ texts \in Seq(Incoming) /\ Len(texts) = Len(opened)
        /\ \A k \in 1..Len(opened) : texts[k] = opened[k].text
    <3>1. ASSUME NEW k \in 1..Len(opened) PROVE opened[k].text \in Incoming
      <4>1. opened[k] \in Opened
        BY <2>1
      <4>2. QED
        BY <4>1 DEF Opened
    <3>2. texts \in [1..Len(opened) -> Incoming]
      BY <3>1
    <3>3. QED
      BY <2>1, <3>2
  <2> HIDE DEF texts
  <2>3. /\ texts \o streams_to_echo_back \in Seq(Incoming)
        /\ Len(texts \o streams_to_echo_back) =
             Len(texts) + Len(streams_to_echo_back)
        /\ \A k \in 1..(Len(texts) + Len(streams_to_echo_back)) :
             (texts \o streams_to_echo_back)[k] =
               IF k <= Len(texts) THEN texts[k]
               ELSE streams_to_echo_back[k - Len(texts)]
    BY <2>1, <2>2, ConcatProperties
  <2>4. ASSUME NEW k \in 1..Len(finished)
        PROVE  finished[k] = (texts \o streams_to_echo_back)[k]
    BY <2>1, <2>2, <2>3 DEF Order
  <2>5. Len(finished) = Len(texts \o streams_to_echo_back)
    BY <2>1, <2>2, <2>3 DEF Order
  <2>6. finished = texts \o streams_to_echo_back
    BY <2>1, <2>3, <2>4, <2>5, SeqEqual
  <2>7. QED
    BY <2>6 DEF EchoedInOrder, texts
<1>2. QED
  BY <1>1, Inductive, PTL

(* No text, and no bidirectional stream, waits for credit that is there,   *)
(* whichever of the session and the credit comes first.                    *)
THEOREM CreditUsed == Spec => []NoneWaitsWithCredit
<1>1. EchoInv => NoneWaitsWithCredit
  BY DEF EchoInv, OneEchoStream, NoneWaitsWithCredit
<1>2. QED
  BY <1>1, Inductive, PTL

(* WebTransportUnidirectionalEchoWriteVisitor ends every echo with FIN but *)
(* those of an empty text and of one as long as the stream's buffer.       *)
THEOREM FinExceptExtremes == Spec => []OnlyExtremesLackFin
<1>1. EchoInv => OnlyExtremesLackFin
  BY DEF EchoInv, EchoesEnd, EchoOf, OnlyExtremesLackFin
<1>2. QED
  BY <1>1, Inductive, PTL

-----------------------------------------------------------------------------
(* What any step does to the echoes: at most one more text has ended, which*)
(* had not; what has ended stays, and what was sent back of it.            *)
Grows ==
  /\ \/ finished' = finished
     \/ \E i \in Incoming : /\ incoming[i].side = "open"
                            /\ finished' = Append(finished, i)
  /\ \A i \in Incoming : incoming[i].side = "fin" => incoming'[i] = incoming[i]
  /\ credit' + Len(opened') >= credit + Len(opened)
  /\ Len(opened) <= Len(opened')
  /\ \A k \in 1..Len(opened) :
       /\ opened'[k].text = opened[k].text
       /\ opened'[k].fin = opened[k].fin
       /\ opened'[k].pending <= opened[k].pending

LEMMA Counted ==
  ASSUME EchoInv
  PROVE  /\ Len(opened) \in Nat /\ Len(finished) \in Nat
         /\ Len(streams_to_echo_back) \in Nat /\ credit \in Nat
         /\ \A k \in 1..Len(opened) : opened[k].pending \in Nat
<1>1. /\ opened \in Seq(Opened) /\ finished \in Seq(Incoming)
      /\ streams_to_echo_back \in Seq(Incoming) /\ credit \in Nat
  BY DEF EchoInv, TypeOK
<1>2. ASSUME NEW k \in 1..Len(opened)
      PROVE  opened[k].pending \in Nat
  <2>1. opened[k] \in Opened
    BY <1>1
  <2>2. QED
    BY <2>1 DEF Opened
<1>3. QED
  BY <1>1, <1>2

(* Of the handlers that send texts back, the queue with i in it is enough. *)
LEMMA SendingGrows ==
  ASSUME EchoInv, NEW queue \in Seq(Incoming), NEW allowed \in Nat,
         allowed >= credit, NEW sizes \in [Incoming -> Nat],
         TrySendingUnidirectionalStreams(sizes, queue, allowed),
         Len(finished') = Len(opened) + Len(queue), finished' \in Seq(Incoming),
         \A k \in 1..Len(finished') :
           finished'[k] = IF k <= Len(opened) THEN opened[k].text
                          ELSE queue[k - Len(opened)]
  PROVE  /\ credit' + Len(opened') >= credit + Len(opened)
         /\ Len(opened) <= Len(opened')
         /\ \A k \in 1..Len(opened) :
              /\ opened'[k].text = opened[k].text
              /\ opened'[k].fin = opened[k].fin
              /\ opened'[k].pending <= opened[k].pending
<1>1. Order(finished', opened, queue)
  BY DEF Order
<1>2. opened \in Seq(Opened)
  BY DEF EchoInv, TypeOK
<1>3. /\ credit' + Len(opened') = allowed + Len(opened)
      /\ Len(opened) <= Len(opened')
      /\ \A k \in 1..Len(opened) : opened'[k] = opened[k]
  BY <1>1, <1>2, TrySendingFacts
<1>4. QED
  BY <1>3, Counted

LEMMA ReadGrows ==
  ASSUME EchoInv, NEW i \in Incoming, NEW n \in Sizes, NEW fin \in BOOLEAN,
         OnCanRead(i, n, fin)
  PROVE  Grows
<1>1. /\ incoming[i].size + n \in Nat /\ incoming[i].side = "open"
      /\ \A j \in Incoming : incoming[j].side = "fin" => incoming'[j] = incoming[j]
  BY ConstantsAssumption DEF EchoInv, TypeOK, OnCanRead
<1>2. CASE fin /\ Finish(i, incoming[i].size + n)
  <2> DEFINE sizes == [j \in Incoming |->
                         IF j = i THEN incoming[i].size + n ELSE incoming[j].size]
             queue == Append(streams_to_echo_back, i)
  <2>1. /\ finished \in Seq(Incoming) /\ streams_to_echo_back \in Seq(Incoming)
        /\ sizes \in [Incoming -> Nat] /\ credit \in Nat
        /\ Order(finished, opened, streams_to_echo_back)
    BY <1>1 DEF EchoInv, TypeOK
  <2>2. /\ TrySendingUnidirectionalStreams(sizes, queue, credit)
        /\ finished' = Append(finished, i)
    BY <1>2 DEF Finish
  <2>3. /\ queue \in Seq(Incoming)
        /\ Len(queue) = Len(streams_to_echo_back) + 1
        /\ \A k \in 1..Len(streams_to_echo_back) :
             queue[k] = streams_to_echo_back[k]
        /\ queue[Len(streams_to_echo_back) + 1] = i
    BY <2>1
  <2>4. /\ finished' \in Seq(Incoming)
        /\ Len(finished') = Len(finished) + 1
        /\ \A k \in 1..Len(finished) : finished'[k] = finished[k]
        /\ finished'[Len(finished) + 1] = i
    BY <2>1, <2>2
  <2> HIDE DEF sizes, queue
  <2>5. /\ Len(opened) \in Nat /\ Len(finished) \in Nat
        /\ Len(streams_to_echo_back) \in Nat
        /\ Len(finished) = Len(opened) + Len(streams_to_echo_back)
    BY <2>1, Counted DEF Order
  <2>6. ASSUME NEW k \in 1..Len(finished')
        PROVE  finished'[k] = IF k <= Len(opened) THEN opened[k].text
                              ELSE queue[k - Len(opened)]
    <3>1. CASE k \in 1..Len(finished)
      <4>1. finished'[k] = IF k <= Len(opened) THEN opened[k].text
                           ELSE streams_to_echo_back[k - Len(opened)]
        BY <2>1, <2>4, <3>1 DEF Order
      <4>2. k > Len(opened) =>
              k - Len(opened) \in 1..Len(streams_to_echo_back)
        BY <2>5, <3>1
      <4>3. QED
        BY <2>3, <2>5, <3>1, <4>1, <4>2
    <3>2. CASE k = Len(finished) + 1
      <4>1. ~(k <= Len(opened)) /\ k - Len(opened) = Len(streams_to_echo_back) + 1
        BY <2>5, <3>2
      <4>2. QED
        BY <2>3, <2>4, <3>2, <4>1
    <3>3. QED
      BY <2>4, <2>5, <3>1, <3>2
  <2>7. /\ credit' + Len(opened') >= credit + Len(opened)
        /\ Len(opened) <= Len(opened')
        /\ \A k \in 1..Len(opened) :
             /\ opened'[k].text = opened[k].text
             /\ opened'[k].fin = opened[k].fin
             /\ opened'[k].pending <= opened[k].pending
    <3>1. Len(finished') = Len(opened) + Len(queue)
      BY <2>3, <2>4, <2>5
    <3>2. credit >= credit
      BY <2>1
    <3>3. QED
      BY <2>1, <2>2, <2>3, <2>4, <2>6, <3>1, <3>2, SendingGrows
  <2>8. QED
    BY <1>1, <2>2, <2>7 DEF Grows
<1>3. CASE UNCHANGED <<streams_to_echo_back, credit, opened, finished>>
  BY <1>1, <1>3, Counted DEF Grows
<1>4. QED
  BY <1>2, <1>3 DEF OnCanRead

LEMMA CreditGrows ==
  ASSUME EchoInv, NEW n \in Grants,
         OnCanCreateNewOutgoingUnidirectionalStream(n)
  PROVE  Grows
<1> DEFINE sizes == [j \in Incoming |-> incoming[j].size]
<1>1. /\ finished \in Seq(Incoming)
      /\ streams_to_echo_back \in Seq(Incoming)
      /\ credit + n \in Nat /\ credit + n >= credit
      /\ Order(finished, opened, streams_to_echo_back)
      /\ sizes \in [Incoming -> Nat]
  BY ConstantsAssumption DEF EchoInv, TypeOK
<1>2. /\ TrySendingUnidirectionalStreams(sizes, streams_to_echo_back, credit + n)
      /\ UNCHANGED <<incoming, finished>>
  BY DEF OnCanCreateNewOutgoingUnidirectionalStream
<1> HIDE DEF sizes
<1>3. /\ Len(finished') = Len(opened) + Len(streams_to_echo_back)
      /\ finished' \in Seq(Incoming)
      /\ \A k \in 1..Len(finished') :
           finished'[k] = IF k <= Len(opened) THEN opened[k].text
                          ELSE streams_to_echo_back[k - Len(opened)]
  BY <1>1, <1>2 DEF Order
<1>4. QED
  BY <1>1, <1>2, <1>3, SendingGrows DEF Grows

LEMMA FlowControlGrows ==
  ASSUME EchoInv, NEW k \in 1..Len(opened), FlowControlOpens(k)
  PROVE  Grows
<1>1. PICK p \in 0..(opened[k].pending - 1) :
        opened' = [opened EXCEPT ![k] = [opened[k] EXCEPT !.pending = p]]
  BY DEF FlowControlOpens
<1>2. opened \in Seq(Opened)
  BY DEF EchoInv, TypeOK
<1>3. ASSUME NEW j \in 1..Len(opened)
      PROVE  /\ opened'[j].text = opened[j].text
             /\ opened'[j].fin = opened[j].fin
             /\ opened'[j].pending <= opened[j].pending
  <2>1. opened'[j] = IF j = k THEN [opened[k] EXCEPT !.pending = p]
                     ELSE opened[j]
    BY <1>1, <1>2
  <2>2. opened[j] \in Opened /\ opened[k] \in Opened
    BY <1>2
  <2>3. p <= opened[k].pending /\ opened[j].pending <= opened[j].pending
    BY <2>2 DEF Opened
  <2>4. QED
    BY <2>1, <2>2, <2>3 DEF Opened
<1>4. Len(opened') = Len(opened)
  BY <1>1, <1>2
<1>5. UNCHANGED <<incoming, credit, finished>>
  BY DEF FlowControlOpens
<1>6. QED
  BY <1>3, <1>4, <1>5, Counted DEF Grows

LEMMA StepGrows == EchoInv /\ [Next]_vars => Grows
<1> SUFFICES ASSUME EchoInv, [Next]_vars PROVE Grows
  OBVIOUS
<1>1. ASSUME UNCHANGED <<opened, credit, finished>>,
             \A i \in Incoming : incoming[i].side = "fin" => incoming'[i] = incoming[i]
      PROVE  Grows
  BY <1>1, Counted DEF Grows
<1>2. ASSUME NEW i \in Incoming, OnResetStreamReceived(i)
      PROVE  Grows
  BY <1>1, <1>2 DEF OnResetStreamReceived, EchoInv, TypeOK
<1>3. CASE OnSessionReady \/ OnCanCreateNewOutgoingBidirectionalStream
  BY <1>1, <1>3
  DEF OnSessionReady, OnCanCreateNewOutgoingBidirectionalStream, unidirectional
<1>4. CASE UNCHANGED vars
  BY <1>1, <1>4 DEF vars
<1>5. QED
  BY <1>2, <1>3, <1>4, ReadGrows, CreditGrows, FlowControlGrows DEF Next

(* The refinement mapping, element by element.                             *)
Mapping ==
  /\ Len(Ended) = Len(finished) /\ Len(Echoed) = Len(opened)
  /\ Len(finished) \in Nat /\ Len(opened) \in Nat
  /\ \A k \in 1..Len(finished) :
       Ended[k] = [name |-> finished[k], size |-> incoming[finished[k]].size]
  /\ \A k \in 1..Len(opened) :
       Echoed[k] = [name |-> opened[k].text,
                    sent |-> incoming[opened[k].text].size - opened[k].pending,
                    fin |-> opened[k].fin]

LEMMA Mapped == EchoInv => Mapping
<1> SUFFICES ASSUME EchoInv PROVE Mapping
  OBVIOUS
<1>1. Len(opened) \in Nat /\ Len(finished) \in Nat
  BY Counted
<1>2. QED
  BY <1>1 DEF Mapping, Ended, Echoed

(* All that has ended and has credit is being echoed, and nothing else.    *)
AnswerMade ==
  /\ Len(Echoed) = IF Len(Ended) < credit + Len(opened)
                     THEN Len(Ended) ELSE credit + Len(opened)
  /\ \A k \in 1..Len(Echoed) :
       /\ Echoed[k].name = Ended[k].name
       /\ Echoed[k].sent \in 0..Ended[k].size

LEMMA AnswerGiven == EchoInv => AnswerMade
<1> SUFFICES ASSUME EchoInv PROVE AnswerMade
  OBVIOUS
<1>1. /\ Len(opened) \in Nat /\ Len(streams_to_echo_back) \in Nat
      /\ credit \in Nat /\ Len(finished) = Len(opened) + Len(streams_to_echo_back)
  BY Counted DEF EchoInv, Order
<1>2. Len(Ended) = Len(finished) /\ Len(Echoed) = Len(opened)
  BY Mapped DEF Mapping
<1>3. streams_to_echo_back # <<>> => credit = 0
  BY DEF EchoInv
<1>4. Len(streams_to_echo_back) = 0 <=> streams_to_echo_back = <<>>
  <2>1. streams_to_echo_back \in Seq(Incoming)
    BY DEF EchoInv, TypeOK
  <2>2. QED
    BY <2>1, EmptySeq
<1>5. ASSUME NEW k \in 1..Len(Echoed)
      PROVE  /\ Echoed[k].name = Ended[k].name
             /\ Echoed[k].sent \in 0..Ended[k].size
  <2>1. k \in 1..Len(opened) /\ k \in 1..Len(finished)
    BY <1>1, <1>2
  <2>2. finished[k] = opened[k].text
    BY <2>1 DEF EchoInv, Order
  <2>3. opened[k].text \in Incoming
    BY <2>1, OpenedAreWhole
  <2>4. incoming[opened[k].text].size \in Nat
    BY <2>3 DEF EchoInv, TypeOK
  <2>5. opened[k].pending \in Nat
    BY <2>1, Counted
  <2>6. opened[k].pending <= incoming[opened[k].text].size
    BY <2>1 DEF EchoInv, EchoesEnd, EchoOf
  <2>7. Ended[k] = [name |-> opened[k].text,
                    size |-> incoming[opened[k].text].size]
    BY <2>1, <2>2, Mapped DEF Mapping
  <2>8. Echoed[k] = [name |-> opened[k].text,
                     sent |-> incoming[opened[k].text].size - opened[k].pending,
                     fin |-> opened[k].fin]
    BY <2>1, Mapped DEF Mapping
  <2>9. QED
    BY <1>2, <2>1, <2>4, <2>5, <2>6, <2>7, <2>8
<1>6. QED
  BY <1>1, <1>2, <1>3, <1>4, <1>5 DEF AnswerMade

(* The handlers of the session keep the promise of EchoTexts, for all      *)
(* texts, any credit and any flow control.                                 *)
THEOREM SessionEchoesTexts == Spec => EchoesTexts
<1>1. Init => Texts!Init
  <2> SUFFICES ASSUME Init PROVE Texts!Init
    OBVIOUS
  <2>1. Ended = <<>> /\ Echoed = <<>> /\ credit + Len(opened) = 0
    BY DEF Init, Ended, Echoed
  <2>2. QED
    BY <2>1 DEF Texts!Init
<1>2. EchoInv /\ EchoInv' /\ [Next]_vars => Texts!Next
  <2> SUFFICES ASSUME EchoInv, EchoInv', [Next]_vars
               PROVE  Texts!Client /\ Texts!Answer
    BY DEF Texts!Next
  <2>1. Grows
    BY StepGrows
  <2>2. Mapping /\ Mapping' /\ AnswerMade'
    BY Mapped, AnswerGiven, PTL
  <2>3. Texts!Answer
    <3>1. ASSUME NEW k \in 1..Len(opened)
          PROVE  Echoed'[k].sent >= Echoed[k].sent /\ Echoed'[k].fin = Echoed[k].fin
      <4>1. opened[k].text \in Incoming /\ incoming[opened[k].text].side = "fin"
        BY OpenedAreWhole
      <4>2. /\ opened'[k].text = opened[k].text
            /\ opened'[k].fin = opened[k].fin
            /\ opened'[k].pending <= opened[k].pending
            /\ incoming'[opened[k].text] = incoming[opened[k].text]
        BY <2>1, <4>1 DEF Grows
      <4>3. k \in 1..Len(opened')
        BY <2>1, <2>2 DEF Grows, Mapping
      <4>4. opened[k].pending \in Nat /\ opened'[k].pending \in Nat
        <5>1. opened \in Seq(Opened) /\ opened' \in Seq(Opened)
          BY DEF EchoInv, TypeOK
        <5>2. opened[k] \in Opened /\ opened'[k] \in Opened
          BY <4>3, <5>1
        <5>3. QED
          BY <5>2 DEF Opened
      <4>5. incoming[opened[k].text].size \in Nat
        BY <4>1 DEF EchoInv, TypeOK
      <4>6. /\ Echoed[k] = [name |-> opened[k].text,
                 sent |-> incoming[opened[k].text].size - opened[k].pending,
                 fin |-> opened[k].fin]
            /\ Echoed'[k] = [name |-> opened[k].text,
                 sent |-> incoming[opened[k].text].size - opened'[k].pending,
                 fin |-> opened[k].fin]
        BY <2>2, <4>2, <4>3 DEF Mapping
      <4>7. QED
        BY <4>2, <4>4, <4>5, <4>6
    <3>2. QED
      BY <2>1, <2>2, <3>1 DEF Texts!Answer, Grows, Mapping, AnswerMade
  <2>4. Texts!Client
    <3>1. finished \in Seq(Incoming)
      BY DEF EchoInv, TypeOK
    <3>2. CASE finished' = finished
      <4>1. ASSUME NEW k \in 1..Len(finished)
            PROVE  Ended'[k] = Ended[k]
        <5>1. finished[k] \in Incoming /\ incoming[finished[k]].side = "fin"
          BY <3>1 DEF EchoInv, FinishedAreWhole
        <5>2. incoming'[finished[k]] = incoming[finished[k]]
          BY <2>1, <5>1 DEF Grows
        <5>3. Ended'[k] = [name |-> finished[k],
                           size |-> incoming'[finished[k]].size]
          BY <2>2, <3>2 DEF Mapping
        <5>4. QED
          BY <2>2, <5>2, <5>3 DEF Mapping
      <4>2. QED
        BY <2>1, <2>2, <3>2, <4>1 DEF Texts!Client, Grows, Mapping
    <3>3. ASSUME NEW i \in Incoming, incoming[i].side = "open",
                 finished' = Append(finished, i)
          PROVE  Texts!Client
      <4>1. /\ Len(finished') = Len(finished) + 1
            /\ finished'[Len(finished) + 1] = i
            /\ \A k \in 1..Len(finished) : finished'[k] = finished[k]
        BY <3>1, <3>3
      <4>2. ASSUME NEW k \in 1..Len(finished)
            PROVE  Ended'[k] = Ended[k] /\ Ended[k].name # i
        <5>1. finished[k] \in Incoming /\ incoming[finished[k]].side = "fin"
          BY <3>1 DEF EchoInv, FinishedAreWhole
        <5>2. finished[k] # i
          BY <3>3, <5>1
        <5>3. k \in 1..Len(finished')
          BY <3>1, <4>1
        <5>4. QED
          BY <2>1, <2>2, <4>1, <5>1, <5>2, <5>3 DEF Mapping, Grows
      <4>3. Ended'[Len(finished')].name = i
        BY <2>2, <3>1, <4>1 DEF Mapping
      <4>4. QED
        BY <2>1, <2>2, <3>1, <4>1, <4>2, <4>3 DEF Texts!Client, Grows, Mapping
    <3>4. QED
      BY <2>1, <3>2, <3>3 DEF Grows
  <2>5. QED
    BY <2>3, <2>4
<1>3. QED
  BY <1>1, <1>2, Inductive, PTL DEF Spec, EchoesTexts, Texts!Spec
=============================================================================
