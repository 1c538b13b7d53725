-------------------------- MODULE QuitServerProofs --------------------------
(***************************************************************************)
(* Theorems about QuitServer, for every kind of event loop, every limit of *)
(* sessions per event and every size of the socket's buffer.               *)
(***************************************************************************)
EXTENDS QuitServer, TLAPS

(* A write takes place or waits, and touches nothing but that.             *)
LEMMA WriteFacts ==
  ASSUME NEW s \in IO, NEW n \in Nat
  PROVE  LET w == Write(s, n)
         IN  /\ w \in IO
             /\ w.hellos = s.hellos /\ w.data = s.data
             /\ w.armed = s.armed /\ w.artificial = s.artificial
             /\ w.buffered = s.buffered /\ w.allowed = s.allowed
             /\ w.created = s.created /\ w.sessions = s.sessions
             /\ w.waiting > 0 /\ w.free > 0 => s.waiting > 0 /\ s.free > 0
<1> DEFINE t == Taken(s, n)
<1>1. t \in Nat /\ t <= n /\ t <= s.free
      /\ (s.waiting > 0 => t = 0)
      /\ (s.waiting = 0 => t = n \/ t = s.free)
  BY DEF Taken, Least, IO
<1>2. s.free - t \in Nat /\ s.waiting + (n - t) \in Nat
  BY <1>1 DEF IO
<1>3. s.waiting + (n - t) > 0 /\ s.free - t > 0 => s.waiting > 0 /\ s.free > 0
  BY <1>1 DEF IO
<1> HIDE DEF t
<1>4. LET w == [s EXCEPT !.free = s.free - t, !.waiting = s.waiting + (n - t)]
      IN  /\ w \in IO
          /\ w.hellos = s.hellos /\ w.data = s.data
          /\ w.armed = s.armed /\ w.artificial = s.artificial
          /\ w.buffered = s.buffered /\ w.allowed = s.allowed
          /\ w.created = s.created /\ w.sessions = s.sessions
          /\ w.waiting = s.waiting + (n - t) /\ w.free = s.free - t
  BY <1>2 DEF IO
<1>5. QED
  BY <1>3, <1>4 DEF Write, t

(* New sessions are counted, and charged to the limit of the event.        *)
LEMMA CreateFacts ==
  ASSUME NEW s \in IO, NEW n \in Nat, n <= s.allowed
  PROVE  LET w == CreateQuicSessions(s, n)
         IN  /\ w \in IO
             /\ w.hellos = s.hellos /\ w.data = s.data
             /\ w.armed = s.armed /\ w.artificial = s.artificial
             /\ w.buffered = s.buffered /\ w.allowed = s.allowed - n
             /\ w.created = s.created + n /\ w.sessions = s.sessions + n
             /\ w.waiting > 0 /\ w.free > 0 => s.waiting > 0 /\ s.free > 0
<1>1. PICK w \in IO :
        /\ w = Write(s, n)
        /\ w.hellos = s.hellos /\ w.data = s.data
        /\ w.armed = s.armed /\ w.artificial = s.artificial
        /\ w.buffered = s.buffered /\ w.allowed = s.allowed
        /\ w.created = s.created /\ w.sessions = s.sessions
        /\ w.waiting > 0 /\ w.free > 0 => s.waiting > 0 /\ s.free > 0
  BY WriteFacts
<1>2. s.allowed - n \in Nat /\ s.created + n \in Nat /\ s.sessions + n \in Nat
  BY DEF IO
<1> DEFINE x == [w EXCEPT !.sessions = w.sessions + n,
                          !.created = w.created + n,
                          !.allowed = w.allowed - n]
<1>3. CreateQuicSessions(s, n) = x
  BY <1>1 DEF CreateQuicSessions
<1>4. /\ x \in IO
      /\ x.hellos = w.hellos /\ x.data = w.data
      /\ x.armed = w.armed /\ x.artificial = w.artificial
      /\ x.buffered = w.buffered /\ x.allowed = w.allowed - n
      /\ x.created = w.created + n /\ x.sessions = w.sessions + n
      /\ x.waiting = w.waiting /\ x.free = w.free
  BY <1>1, <1>2 DEF IO
<1> HIDE DEF x
<1>5. QED
  BY <1>1, <1>3, <1>4

(* ProcessBufferedChlos makes sessions of buffered CHLOs, within the limit *)
(* of the event.                                                           *)
LEMMA ChlosFacts ==
  ASSUME TypeOK, ProcessBufferedChlos
  PROVE  \E n \in Nat :
           /\ n <= io.buffered /\ n <= SessionsPerEvent
           /\ n = io.buffered \/ n = SessionsPerEvent
           /\ io' \in IO
           /\ io'.hellos = io.hellos /\ io'.data = io.data
           /\ io'.armed = io.armed /\ io'.artificial = io.artificial
           /\ io'.buffered = io.buffered - n
           /\ io'.allowed = SessionsPerEvent - n
           /\ io'.created = io.created + n /\ io'.sessions = io.sessions + n
           /\ io'.waiting > 0 /\ io'.free > 0 => io.waiting > 0 /\ io.free > 0
<1>1. PICK n : /\ n = Least(io.buffered, SessionsPerEvent)
               /\ io' = CreateQuicSessions(
                    [io EXCEPT !.buffered = io.buffered - n,
                               !.allowed = SessionsPerEvent], n)
  BY DEF ProcessBufferedChlos
<1>2. /\ n \in Nat /\ n <= io.buffered /\ n <= SessionsPerEvent
      /\ n = io.buffered \/ n = SessionsPerEvent
  BY <1>1, SizesAssumption DEF Least, TypeOK, IO
<1> DEFINE s == [io EXCEPT !.buffered = io.buffered - n,
                           !.allowed = SessionsPerEvent]
<1>3. /\ s \in IO
      /\ s.hellos = io.hellos /\ s.data = io.data
      /\ s.armed = io.armed /\ s.artificial = io.artificial
      /\ s.buffered = io.buffered - n /\ s.allowed = SessionsPerEvent
      /\ s.created = io.created /\ s.sessions = io.sessions
      /\ s.waiting = io.waiting /\ s.free = io.free
  <2>1. io \in IO
    BY DEF TypeOK
  <2>2. PICK b \in Nat : b = io.buffered - n
    BY <1>2, <2>1 DEF IO
  <2>3. s = [io EXCEPT !.buffered = b, !.allowed = SessionsPerEvent]
    BY <2>2
  <2>4. SessionsPerEvent \in Nat
    BY SizesAssumption
  <2>5. QED
    BY <2>1, <2>2, <2>3, <2>4 DEF IO
<1> HIDE DEF s
<1>4. io' = CreateQuicSessions(s, n)
  BY <1>1 DEF s
<1>5. QED
  BY <1>2, <1>3, <1>4, CreateFacts

(* ReadAndDispatchPackets empties the socket; the CHLOs beyond the limit   *)
(* are buffered.                                                           *)
LEMMA ReadFacts ==
  ASSUME TypeOK, ReadAndDispatchPackets
  PROVE  \E n \in Nat :
           /\ n <= io.hellos /\ n <= io.allowed
           /\ n = io.hellos \/ n = io.allowed
           /\ io' \in IO
           /\ io'.hellos = 0 /\ io'.data = 0
           /\ io'.armed = io.armed /\ io'.artificial = io.artificial
           /\ io'.buffered = io.buffered + (io.hellos - n)
           /\ io'.allowed = io.allowed - n
           /\ io'.created = io.created + n /\ io'.sessions = io.sessions + n
           /\ io'.waiting > 0 /\ io'.free > 0 => io.waiting > 0 /\ io.free > 0
<1>1. PICK n : /\ n = Least(io.hellos, io.allowed)
               /\ io' = Write(CreateQuicSessions(
                    [io EXCEPT !.buffered = io.buffered + (io.hellos - n),
                               !.hellos = 0, !.data = 0], n), io.data)
  BY DEF ReadAndDispatchPackets
<1>2. /\ n \in Nat /\ n <= io.hellos /\ n <= io.allowed
      /\ n = io.hellos \/ n = io.allowed
  BY <1>1 DEF Least, TypeOK, IO
<1> DEFINE s == [io EXCEPT !.buffered = io.buffered + (io.hellos - n),
                           !.hellos = 0, !.data = 0]
           c == CreateQuicSessions(s, n)
<1>3. /\ s \in IO
      /\ s.hellos = 0 /\ s.data = 0
      /\ s.armed = io.armed /\ s.artificial = io.artificial
      /\ s.buffered = io.buffered + (io.hellos - n) /\ s.allowed = io.allowed
      /\ s.created = io.created /\ s.sessions = io.sessions
      /\ s.waiting = io.waiting /\ s.free = io.free
  <2>1. io \in IO
    BY DEF TypeOK
  <2>2. PICK b \in Nat : b = io.buffered + (io.hellos - n)
    BY <1>2, <2>1 DEF IO
  <2>3. s = [io EXCEPT !.buffered = b, !.hellos = 0, !.data = 0]
    BY <2>2
  <2>4. QED
    BY <2>1, <2>2, <2>3 DEF IO
<1>4. io' = Write(c, io.data)
  BY <1>1
<1> HIDE DEF s
<1>5. /\ c \in IO
      /\ c.hellos = s.hellos /\ c.data = s.data
      /\ c.armed = s.armed /\ c.artificial = s.artificial
      /\ c.buffered = s.buffered /\ c.allowed = s.allowed - n
      /\ c.created = s.created + n /\ c.sessions = s.sessions + n
      /\ c.waiting > 0 /\ c.free > 0 => s.waiting > 0 /\ s.free > 0
  BY <1>2, <1>3, CreateFacts
<1> HIDE DEF c
<1>6. io.data \in Nat
  BY DEF TypeOK, IO
<1>7. QED
  BY <1>2, <1>3, <1>4, <1>5, <1>6, WriteFacts

(* OnWritable leaves writes waiting only when the socket is full.          *)
LEMMA WritableFacts ==
  ASSUME TypeOK, OnWritable
  PROVE  /\ io' \in IO
         /\ io'.hellos = io.hellos /\ io'.data = io.data
         /\ io.armed \subseteq io'.armed /\ io'.artificial = io.artificial
         /\ io'.buffered = io.buffered /\ io'.allowed = io.allowed
         /\ io'.created = io.created /\ io'.sessions = io.sessions
         /\ ~(io'.waiting > 0 /\ io'.free > 0)
<1> DEFINE s == [io EXCEPT !.waiting = 0]
           w == Write(s, io.waiting)
           r == [w EXCEPT !.armed = w.armed \cup {"writable"}]
<1>1. io' = IF ~EdgeTriggered /\ w.waiting > 0 THEN r ELSE w
  BY DEF OnWritable
<1>2. /\ s \in IO
      /\ s.hellos = io.hellos /\ s.data = io.data
      /\ s.armed = io.armed /\ s.artificial = io.artificial
      /\ s.buffered = io.buffered /\ s.allowed = io.allowed
      /\ s.created = io.created /\ s.sessions = io.sessions
      /\ s.waiting = 0 /\ s.free = io.free
      /\ io.waiting \in Nat
  BY DEF TypeOK, IO
<1> HIDE DEF s
<1>3. /\ w \in IO
      /\ w.hellos = s.hellos /\ w.data = s.data
      /\ w.armed = s.armed /\ w.artificial = s.artificial
      /\ w.buffered = s.buffered /\ w.allowed = s.allowed
      /\ w.created = s.created /\ w.sessions = s.sessions
      /\ ~(w.waiting > 0 /\ w.free > 0)
  BY <1>2, WriteFacts
<1> HIDE DEF w
<1>4. /\ r \in IO
      /\ r.hellos = w.hellos /\ r.data = w.data
      /\ w.armed \subseteq r.armed /\ r.artificial = w.artificial
      /\ r.buffered = w.buffered /\ r.allowed = w.allowed
      /\ r.created = w.created /\ r.sessions = w.sessions
      /\ r.waiting = w.waiting /\ r.free = w.free
  BY <1>3 DEF IO, Events
<1> HIDE DEF r
<1>5. QED
  BY <1>1, <1>2, <1>3, <1>4

(* The loop disarms what it reports.                                       *)
LEMMA LoopFacts ==
  ASSUME TypeOK, RunEventLoopOnce
  PROVE  /\ io' \in IO
         /\ io'.hellos = io.hellos /\ io'.data = io.data
         /\ io'.armed = io.armed \ events'
         /\ io'.buffered = io.buffered /\ io'.created = 0
         /\ io'.sessions = io.sessions
         /\ io'.waiting = io.waiting /\ io'.free = io.free
<1>1. io \in IO /\ io' = [io EXCEPT !.armed = io.armed \ events',
                                   !.artificial = {}, !.created = 0]
  BY DEF TypeOK, RunEventLoopOnce
<1>2. QED
  BY <1>1 DEF IO

(* Rearming touches nothing but the registration.                          *)
LEMMA RearmFacts ==
  ASSUME TypeOK, RearmReadable
  PROVE  /\ io' \in IO
         /\ io'.hellos = io.hellos /\ io'.data = io.data
         /\ io.armed \subseteq io'.armed
         /\ EdgeTriggered \/ "readable" \in io'.armed
         /\ io.buffered > 0 => "readable" \in io'.artificial
         /\ io'.buffered = io.buffered /\ io'.allowed = io.allowed
         /\ io'.created = io.created /\ io'.sessions = io.sessions
         /\ io'.waiting = io.waiting /\ io'.free = io.free
<1>1. PICK f, a :
        /\ f = IF io.buffered > 0 THEN io.artificial \cup {"readable"}
                                  ELSE io.artificial
        /\ a = IF EdgeTriggered THEN io.armed ELSE io.armed \cup {"readable"}
        /\ io' = [io EXCEPT !.artificial = f, !.armed = a]
  BY DEF RearmReadable
<1>2. io \in IO
  BY DEF TypeOK
<1>3. f \in SUBSET Events /\ a \in SUBSET Events
  BY <1>1, <1>2 DEF IO, Events
<1>4. /\ io' \in IO
      /\ io'.hellos = io.hellos /\ io'.data = io.data
      /\ io'.armed = a /\ io'.artificial = f
      /\ io'.buffered = io.buffered /\ io'.allowed = io.allowed
      /\ io'.created = io.created /\ io'.sessions = io.sessions
      /\ io'.waiting = io.waiting /\ io'.free = io.free
  BY <1>1, <1>2, <1>3 DEF IO
<1>5. QED
  BY <1>1, <1>4

(* A datagram that arrives, or leaves, changes one counter, and an edge-   *)
(* triggered loop is told.                                                 *)
LEMMA HelloFacts ==
  ASSUME TypeOK, ChloArrives
  PROVE  /\ io' \in IO
         /\ io'.hellos = io.hellos + 1 /\ io'.data = io.data
         /\ io.armed \subseteq io'.armed /\ io'.artificial = io.artificial
         /\ EdgeTriggered => "readable" \in io'.armed
         /\ io'.buffered = io.buffered /\ io'.allowed = io.allowed
         /\ io'.created = io.created /\ io'.sessions = io.sessions
         /\ io'.waiting = io.waiting /\ io'.free = io.free
<1>1. io \in IO
  BY DEF TypeOK
<1>2. PICK n \in Nat : n = io.hellos + 1
  BY <1>1 DEF IO
<1>3. PICK a \in SUBSET Events : a = io.armed \cup Edge("readable")
  BY <1>1 DEF IO, Edge, Events
<1>4. io' = [io EXCEPT !.hellos = n, !.armed = a]
  BY <1>2, <1>3 DEF ChloArrives
<1>5. /\ io' \in IO
      /\ io'.hellos = n /\ io'.data = io.data
      /\ io'.armed = a /\ io'.artificial = io.artificial
      /\ io'.buffered = io.buffered /\ io'.allowed = io.allowed
      /\ io'.created = io.created /\ io'.sessions = io.sessions
      /\ io'.waiting = io.waiting /\ io'.free = io.free
  BY <1>1, <1>4 DEF IO
<1>6. io.armed \subseteq a /\ (EdgeTriggered => "readable" \in a)
  BY <1>3 DEF Edge
<1>7. QED
  BY <1>2, <1>5, <1>6

LEMMA DataFacts ==
  ASSUME TypeOK, DataArrives
  PROVE  /\ io' \in IO
         /\ io'.hellos = io.hellos /\ io'.data = io.data + 1
         /\ io.armed \subseteq io'.armed /\ io'.artificial = io.artificial
         /\ EdgeTriggered => "readable" \in io'.armed
         /\ io'.buffered = io.buffered /\ io'.allowed = io.allowed
         /\ io'.created = io.created /\ io'.sessions = io.sessions
         /\ io'.waiting = io.waiting /\ io'.free = io.free
<1>1. io \in IO
  BY DEF TypeOK
<1>2. PICK n \in Nat : n = io.data + 1
  BY <1>1 DEF IO
<1>3. PICK a \in SUBSET Events : a = io.armed \cup Edge("readable")
  BY <1>1 DEF IO, Edge, Events
<1>4. io' = [io EXCEPT !.data = n, !.armed = a]
  BY <1>2, <1>3 DEF DataArrives
<1>5. /\ io' \in IO
      /\ io'.hellos = io.hellos /\ io'.data = n
      /\ io'.armed = a /\ io'.artificial = io.artificial
      /\ io'.buffered = io.buffered /\ io'.allowed = io.allowed
      /\ io'.created = io.created /\ io'.sessions = io.sessions
      /\ io'.waiting = io.waiting /\ io'.free = io.free
  BY <1>1, <1>4 DEF IO
<1>6. io.armed \subseteq a /\ (EdgeTriggered => "readable" \in a)
  BY <1>3 DEF Edge
<1>7. QED
  BY <1>2, <1>5, <1>6

LEMMA DrainFacts ==
  ASSUME TypeOK, SocketDrains
  PROVE  /\ io' \in IO
         /\ io'.hellos = io.hellos /\ io'.data = io.data
         /\ io.armed \subseteq io'.armed /\ io'.artificial = io.artificial
         /\ EdgeTriggered => io.free > 0 \/ "writable" \in io'.armed
         /\ io'.buffered = io.buffered /\ io'.allowed = io.allowed
         /\ io'.created = io.created /\ io'.sessions = io.sessions
         /\ io'.waiting = io.waiting
<1>1. io \in IO
  BY DEF TypeOK
<1>2. PICK n \in Nat : n = io.free + 1
  BY <1>1 DEF IO
<1>3. PICK a \in SUBSET Events :
        a = IF io.free = 0 THEN io.armed \cup Edge("writable") ELSE io.armed
  BY <1>1 DEF IO, Edge, Events
<1>4. io' = [io EXCEPT !.free = n, !.armed = a]
  BY <1>2, <1>3 DEF SocketDrains
<1>5. /\ io' \in IO
      /\ io'.hellos = io.hellos /\ io'.data = io.data
      /\ io'.armed = a /\ io'.artificial = io.artificial
      /\ io'.buffered = io.buffered /\ io'.allowed = io.allowed
      /\ io'.created = io.created /\ io'.sessions = io.sessions
      /\ io'.waiting = io.waiting
  BY <1>1, <1>4 DEF IO
<1>6. io.free \in Nat
  BY <1>1 DEF IO
<1>7. io.armed \subseteq a /\ (EdgeTriggered /\ io.free = 0 => "writable" \in a)
  BY <1>3 DEF Edge
<1>8. QED
  BY <1>5, <1>6, <1>7

(* A new server's registration asks for both events.                       *)
LEMMA ListenFacts ==
  ASSUME TypeOK, CreateUDPSocketAndListen
  PROVE  /\ io' \in IO
         /\ io'.hellos = io.hellos /\ io'.data = io.data
         /\ io'.armed = Events /\ io'.artificial = io.artificial
         /\ io'.buffered = io.buffered /\ io'.allowed = io.allowed
         /\ io'.created = io.created /\ io'.sessions = io.sessions
         /\ io'.waiting = io.waiting /\ io'.free = io.free
<1>1. io \in IO /\ io' = [io EXCEPT !.armed = Events]
  BY DEF TypeOK, CreateUDPSocketAndListen, Events
<1>2. QED
  BY <1>1 DEF IO

(* The empty socket is well typed.                                         *)
LEMMA NoIOType == NoIO \in IO
BY SizesAssumption DEF NoIO, IO

-----------------------------------------------------------------------------
(* What the server's phases have in common: the limit of an event is spent *)
(* by the sessions created in it, and all of it when a CHLO is buffered.   *)
Limit ==
  /\ phase = "chlos" => io.created = 0
  /\ phase = "read" /\ io.buffered > 0 => io.allowed = 0
  /\ phase = "read" => io.created + io.allowed = SessionsPerEvent
  /\ SessionsBounded

(* A server that does not listen has nothing in its socket, and a new one  *)
(* finds the backend's pointer cleared by the one before it.               *)
LifeInv ==
  /\ ~Listening => phase = "idle" /\ io = NoIO
  /\ server = "built" => sent = 0 /\ factory = "null"
  /\ FactoryUsable

(* A level-triggered loop is told of the next datagram before it comes.     *)
EventInv ==
  /\ Listening /\ ~EdgeTriggered =>
       "readable" \in io.armed \/ phase \in {"chlos", "read", "rearm"}
  /\ NoLostEvent

ServerInv == TypeOK /\ LifeInv /\ ChlosKept /\ EventInv /\ Limit

(* Type correctness is inductive.                                          *)
LEMMA TypeStep == TypeOK /\ [Next]_vars => TypeOK'
<1> SUFFICES ASSUME TypeOK, [Next]_vars
             PROVE  TypeOK'
  OBVIOUS
<1>t. io \in IO /\ events \in SUBSET Events
  BY DEF TypeOK
<1>1. CASE RunEventLoopOnce
  BY <1>1, <1>t, LoopFacts DEF RunEventLoopOnce, Unchanged, TypeOK, Phases,
    Reported, Occurred, IO, Events
<1>2. CASE ProcessBufferedChlos
  BY <1>2, <1>t, ChlosFacts DEF ProcessBufferedChlos, Unchanged, TypeOK,
    Phases
<1>3. CASE ReadAndDispatchPackets
  BY <1>3, <1>t, ReadFacts DEF ReadAndDispatchPackets, Unchanged, TypeOK
<1>4. CASE NoMoreToRead
  BY <1>4, <1>t DEF NoMoreToRead, Unchanged, TypeOK, Phases
<1>5. CASE RearmReadable
  BY <1>5, <1>t, RearmFacts DEF RearmReadable, Unchanged, TypeOK, Phases,
    NextPhase
<1>6. CASE OnWritable
  BY <1>6, <1>t, WritableFacts DEF OnWritable, Unchanged, TypeOK, Phases
<1>7. CASE Start
  BY <1>7, <1>t DEF Start, TypeOK, Servers
<1>8. CASE ListenFails
  BY <1>8, <1>t DEF ListenFails, TypeOK, Servers, Factories
<1>9. CASE CreateUDPSocketAndListen
  BY <1>9, <1>t, ListenFacts DEF CreateUDPSocketAndListen, TypeOK, Servers,
    Factories
<1>10. CASE Shutdown
  BY <1>10, <1>t, NoIOType DEF Shutdown, TypeOK, Servers, Factories
<1>11. CASE Destroy
  BY <1>11, <1>t DEF Destroy, TypeOK, Servers, Factories
<1>12. CASE ChloArrives
  BY <1>12, <1>t, HelloFacts DEF ChloArrives, TypeOK
<1>13. CASE DataArrives
  BY <1>13, <1>t, DataFacts DEF DataArrives, TypeOK
<1>14. CASE AlarmFires
  BY <1>14, <1>t, WriteFacts DEF AlarmFires, TypeOK
<1>15. CASE SocketDrains
  BY <1>15, <1>t, DrainFacts DEF SocketDrains, TypeOK
<1>16. CASE UNCHANGED vars
  BY <1>16 DEF vars, TypeOK
<1>17. QED
  BY <1>1, <1>2, <1>3, <1>4, <1>5, <1>6, <1>7, <1>8, <1>9, <1>10, <1>11, <1>12,
     <1>13, <1>14, <1>15, <1>16
  DEF Next, OnSocketEvent, Life, Environment

(* The server's state, the socket's counters and the loop's events stay in *)
(* their types; in particular no counter of waiting datagrams, CHLOs or    *)
(* writes drops below zero.                                                *)
THEOREM TypeCorrect == Spec => []TypeOK
<1>1. Init => TypeOK
  BY NoIOType DEF Init, TypeOK, Servers, Factories, Phases
<1>2. QED
  BY <1>1, TypeStep, PTL DEF Spec

(* The server's life: no handler runs without a server that listens.       *)
LEMMA LifeStep == TypeOK /\ LifeInv /\ [Next]_vars => LifeInv'
<1> SUFFICES ASSUME TypeOK, LifeInv, [Next]_vars
             PROVE  LifeInv'
  OBVIOUS
<1>1. CASE RunEventLoopOnce \/ OnSocketEvent
  BY <1>1 DEF RunEventLoopOnce, OnSocketEvent, ProcessBufferedChlos,
     ReadAndDispatchPackets, NoMoreToRead, RearmReadable, OnWritable, In,
     Unchanged, LifeInv, FactoryUsable, Listening
<1>2. CASE Life
  BY <1>2 DEF Life, Start, ListenFails, CreateUDPSocketAndListen, Shutdown,
     Destroy, In, LifeInv, FactoryUsable, Listening
<1>3. CASE Environment
  BY <1>3 DEF Environment, ChloArrives, DataArrives, AlarmFires, SocketDrains,
     In, LifeInv, FactoryUsable, Listening
<1>4. CASE UNCHANGED vars
  BY <1>4 DEF vars, LifeInv, FactoryUsable, Listening
<1>5. QED
  BY <1>1, <1>2, <1>3, <1>4 DEF Next

(* No step loses a CHLO or makes two sessions of it.                       *)
LEMMA ChlosStep == TypeOK /\ LifeInv /\ ChlosKept /\ [Next]_vars => ChlosKept'
<1> SUFFICES ASSUME TypeOK, LifeInv, ChlosKept, [Next]_vars
             PROVE  ChlosKept'
  OBVIOUS
<1>t. io \in IO /\ events \in SUBSET Events
  BY DEF TypeOK
<1>1. CASE RunEventLoopOnce
  BY <1>1, <1>t, LoopFacts DEF RunEventLoopOnce, Unchanged, ChlosKept,
    Listening, LifeInv
<1>2. CASE ProcessBufferedChlos
  BY <1>2, <1>t, ChlosFacts DEF ProcessBufferedChlos, Unchanged, ChlosKept,
    Listening, LifeInv, IO, TypeOK
<1>3. CASE ReadAndDispatchPackets
  BY <1>3, <1>t, ReadFacts DEF ReadAndDispatchPackets, Unchanged, ChlosKept,
    Listening, LifeInv, IO, TypeOK
<1>4. CASE NoMoreToRead
  BY <1>4, <1>t DEF NoMoreToRead, Unchanged, ChlosKept, Listening, LifeInv
<1>5. CASE RearmReadable
  BY <1>5, <1>t, RearmFacts DEF RearmReadable, Unchanged, ChlosKept,
    Listening, LifeInv
<1>6. CASE OnWritable
  BY <1>6, <1>t, WritableFacts DEF OnWritable, Unchanged, ChlosKept,
    Listening, LifeInv
<1>7. CASE Start
  BY <1>7, <1>t DEF Start, ChlosKept, Listening, LifeInv
<1>8. CASE ListenFails
  BY <1>8, <1>t DEF ListenFails, ChlosKept, Listening, LifeInv
<1>9. CASE CreateUDPSocketAndListen
  BY <1>9, <1>t, ListenFacts DEF CreateUDPSocketAndListen, ChlosKept,
    Listening, LifeInv, NoIO
<1>10. CASE Shutdown
  BY <1>10, <1>t DEF Shutdown, ChlosKept, Listening, LifeInv
<1>11. CASE Destroy
  BY <1>11, <1>t DEF Destroy, ChlosKept, Listening, LifeInv
<1>12. CASE ChloArrives
  BY <1>12, <1>t, HelloFacts DEF ChloArrives, ChlosKept, Listening, LifeInv,
    IO, TypeOK
<1>13. CASE DataArrives
  BY <1>13, <1>t, DataFacts DEF DataArrives, ChlosKept, Listening, LifeInv
<1>14. CASE AlarmFires
  BY <1>14, <1>t, WriteFacts DEF AlarmFires, ChlosKept, Listening, LifeInv,
    IO
<1>15. CASE SocketDrains
  BY <1>15, <1>t, DrainFacts DEF SocketDrains, ChlosKept, Listening, LifeInv
<1>16. CASE UNCHANGED vars
  BY <1>16 DEF vars, ChlosKept, Listening, LifeInv
<1>17. QED
  BY <1>1, <1>2, <1>3, <1>4, <1>5, <1>6, <1>7, <1>8, <1>9, <1>10, <1>11, <1>12,
     <1>13, <1>14, <1>15, <1>16
  DEF Next, OnSocketEvent, Life, Environment

(* What was read and what was buffered are charged to the same limit.      *)
LEMMA LimitStep == TypeOK /\ LifeInv /\ Limit /\ [Next]_vars => Limit'
<1> SUFFICES ASSUME TypeOK, LifeInv, Limit, [Next]_vars
             PROVE  Limit'
  OBVIOUS
<1>t. io \in IO /\ events \in SUBSET Events
  BY DEF TypeOK
<1>1. CASE RunEventLoopOnce
  BY <1>1, <1>t, LoopFacts, SizesAssumption DEF RunEventLoopOnce, Unchanged,
    Limit, SessionsBounded, Listening, LifeInv
<1>2. CASE ProcessBufferedChlos
  <2>1. phase = "chlos" /\ phase' = "read" /\ io.created = 0
    BY <1>2 DEF ProcessBufferedChlos, In, Limit
  <2>2. PICK n \in Nat :
          /\ n <= io.buffered /\ n <= SessionsPerEvent
          /\ n = io.buffered \/ n = SessionsPerEvent
          /\ io'.buffered = io.buffered - n
          /\ io'.allowed = SessionsPerEvent - n
          /\ io'.created = io.created + n
    BY <1>2, ChlosFacts
  <2>3. io.buffered \in Nat /\ SessionsPerEvent \in Nat
    BY <1>t, SizesAssumption DEF IO
  <2>4. io'.buffered > 0 => io'.allowed = 0
    BY <2>2, <2>3
  <2>5. io'.created + io'.allowed = SessionsPerEvent
    BY <2>1, <2>2, <2>3
  <2>6. io'.created <= SessionsPerEvent
    BY <2>1, <2>2, <2>3
  <2>7. QED
    BY <2>1, <2>4, <2>5, <2>6 DEF Limit, SessionsBounded
<1>3. CASE ReadAndDispatchPackets
  BY <1>3, <1>t, ReadFacts DEF ReadAndDispatchPackets, Unchanged, Limit,
    SessionsBounded, Listening, LifeInv, In, IO
<1>4. CASE NoMoreToRead
  BY <1>4, <1>t DEF NoMoreToRead, Unchanged, Limit, SessionsBounded,
    Listening, LifeInv, In
<1>5. CASE RearmReadable
  BY <1>5, <1>t, RearmFacts DEF RearmReadable, Unchanged, Limit,
    SessionsBounded, Listening, LifeInv, In, NextPhase
<1>6. CASE OnWritable
  BY <1>6, <1>t, WritableFacts DEF OnWritable, Unchanged, Limit,
    SessionsBounded, Listening, LifeInv, In
<1>7. CASE Start
  BY <1>7, <1>t DEF Start, Limit, SessionsBounded, Listening, LifeInv
<1>8. CASE ListenFails
  BY <1>8, <1>t DEF ListenFails, Limit, SessionsBounded, Listening, LifeInv
<1>9. CASE CreateUDPSocketAndListen
  BY <1>9, <1>t, ListenFacts DEF CreateUDPSocketAndListen, Limit,
    SessionsBounded, Listening, LifeInv
<1>10. CASE Shutdown
  BY <1>10, <1>t, SizesAssumption DEF Shutdown, Limit, SessionsBounded,
    Listening, LifeInv, In, NoIO
<1>11. CASE Destroy
  BY <1>11, <1>t DEF Destroy, Limit, SessionsBounded, Listening, LifeInv
<1>12. CASE ChloArrives
  BY <1>12, <1>t, HelloFacts DEF ChloArrives, Limit, SessionsBounded,
    Listening, LifeInv
<1>13. CASE DataArrives
  BY <1>13, <1>t, DataFacts DEF DataArrives, Limit, SessionsBounded,
    Listening, LifeInv
<1>14. CASE AlarmFires
  BY <1>14, <1>t, WriteFacts DEF AlarmFires, Limit, SessionsBounded,
    Listening, LifeInv, In, IO
<1>15. CASE SocketDrains
  BY <1>15, <1>t, DrainFacts DEF SocketDrains, Limit, SessionsBounded,
    Listening, LifeInv
<1>16. CASE UNCHANGED vars
  BY <1>16 DEF vars, Limit, SessionsBounded, Listening, LifeInv
<1>17. QED
  BY <1>1, <1>2, <1>3, <1>4, <1>5, <1>6, <1>7, <1>8, <1>9, <1>10, <1>11, <1>12,
     <1>13, <1>14, <1>15, <1>16
  DEF Next, OnSocketEvent, Life, Environment

(* No step leaves a datagram, a CHLO or a write behind without its event.  *)
LEMMA EventStep == TypeOK /\ LifeInv /\ EventInv /\ [Next]_vars => EventInv'
<1> SUFFICES ASSUME TypeOK, LifeInv, EventInv, [Next]_vars
             PROVE  EventInv'
  OBVIOUS
<1>t. io \in IO /\ events \in SUBSET Events
  BY DEF TypeOK
<1>1. CASE RunEventLoopOnce
  BY <1>1, <1>t, LoopFacts DEF RunEventLoopOnce, Unchanged, EventInv,
    NoLostEvent, Listening, LifeInv, In, Reported, IO
<1>2. CASE ProcessBufferedChlos
  BY <1>2, <1>t, ChlosFacts DEF ProcessBufferedChlos, Unchanged, EventInv,
    NoLostEvent, Listening, LifeInv, In, IO
<1>3. CASE ReadAndDispatchPackets
  BY <1>3, <1>t, ReadFacts DEF ReadAndDispatchPackets, Unchanged, EventInv,
    NoLostEvent, Listening, LifeInv, In, IO
<1>4. CASE NoMoreToRead
  BY <1>4, <1>t DEF NoMoreToRead, Unchanged, EventInv, NoLostEvent,
    Listening, LifeInv, In, IO
<1>5. CASE RearmReadable
  BY <1>5, <1>t, RearmFacts DEF RearmReadable, Unchanged, EventInv,
    NoLostEvent, Listening, LifeInv, In, NextPhase, IO
<1>6. CASE OnWritable
  BY <1>6, <1>t, WritableFacts DEF OnWritable, Unchanged, EventInv,
    NoLostEvent, Listening, LifeInv, In, IO
<1>7. CASE Start
  BY <1>7, <1>t DEF Start, EventInv, NoLostEvent, Listening, LifeInv
<1>8. CASE ListenFails
  BY <1>8, <1>t DEF ListenFails, EventInv, NoLostEvent, Listening, LifeInv
<1>9. CASE CreateUDPSocketAndListen
  BY <1>9, <1>t, ListenFacts DEF CreateUDPSocketAndListen, EventInv,
    NoLostEvent, Listening, LifeInv, NoIO, Events
<1>10. CASE Shutdown
  BY <1>10, <1>t DEF Shutdown, EventInv, NoLostEvent, Listening, LifeInv
<1>11. CASE Destroy
  BY <1>11, <1>t DEF Destroy, EventInv, NoLostEvent, Listening, LifeInv
<1>12. CASE ChloArrives
  BY <1>12, <1>t, HelloFacts DEF ChloArrives, EventInv, NoLostEvent,
    Listening, LifeInv, IO
<1>13. CASE DataArrives
  BY <1>13, <1>t, DataFacts DEF DataArrives, EventInv, NoLostEvent,
    Listening, LifeInv, IO
<1>14. CASE AlarmFires
  BY <1>14, <1>t, WriteFacts DEF AlarmFires, EventInv, NoLostEvent,
    Listening, LifeInv, In, IO
<1>15. CASE SocketDrains
  BY <1>15, <1>t, DrainFacts DEF SocketDrains, EventInv, NoLostEvent,
    Listening, LifeInv, IO, TypeOK
<1>16. CASE UNCHANGED vars
  BY <1>16 DEF vars, EventInv, NoLostEvent, Listening, LifeInv
<1>17. QED
  BY <1>1, <1>2, <1>3, <1>4, <1>5, <1>6, <1>7, <1>8, <1>9, <1>10, <1>11, <1>12,
     <1>13, <1>14, <1>15, <1>16
  DEF Next, OnSocketEvent, Life, Environment

-----------------------------------------------------------------------------
(* The inductive invariant: the four properties, with what each needs of   *)
(* the server's life and of the limit of the event under way.              *)
LEMMA Inductive == Spec => []ServerInv
<1>1. Init => ServerInv
  <2> SUFFICES ASSUME Init
               PROVE  ServerInv
    OBVIOUS
  <2>1. TypeOK
    BY NoIOType DEF Init, TypeOK, Servers, Factories, Phases
  <2>2. QED
    BY <2>1, SizesAssumption DEF Init, ServerInv, LifeInv, ChlosKept, EventInv, NoLostEvent,
       Limit, SessionsBounded, FactoryUsable, Listening, NoIO
<1>2. ServerInv /\ [Next]_vars => ServerInv'
  BY TypeStep, LifeStep, ChlosStep, EventStep, LimitStep DEF ServerInv
<1>3. QED
  BY <1>1, <1>2, PTL DEF Spec

(* No datagram, buffered CHLO or (with an edge-triggered loop) blocked     *)
(* write is left behind without an event that OnSocketEvent will get,      *)
(* whatever arrives between any two of its calls.                          *)
THEOREM EventsSurvive == Spec => []NoLostEvent
<1>1. ServerInv => NoLostEvent
  BY DEF ServerInv, EventInv
<1>2. QED
  BY <1>1, Inductive, PTL

(* OnSocketEvent and the dispatcher's buffer lose no client hello and make *)
(* no session twice.                                                       *)
THEOREM HellosAccounted == Spec => []ChlosKept
<1>1. ServerInv => ChlosKept
  BY DEF ServerInv
<1>2. QED
  BY <1>1, Inductive, PTL

(* One event creates at most kNumSessionsToCreatePerSocketEvent sessions,  *)
(* however many CHLOs are buffered or read while it is handled.            *)
THEOREM SessionsLimited == Spec => []SessionsBounded
<1>1. ServerInv => SessionsBounded
  BY DEF ServerInv, Limit
<1>2. QED
  BY <1>1, Inductive, PTL

(* Over any number of servers started on one backend, it never holds a     *)
(* destroyed socket factory, and a server that listens finds its own.      *)
THEOREM FactorySafe == Spec => []FactoryUsable
<1>1. ServerInv => FactoryUsable
  BY DEF ServerInv, LifeInv
<1>2. QED
  BY <1>1, Inductive, PTL

-----------------------------------------------------------------------------
(* A step of the server as one of Admission.                               *)
LEMMA AdmissionStep ==
  TypeOK /\ LifeInv /\ Limit /\ [Next]_vars => [Clients!Next]_(Clients!admission)
<1> SUFFICES ASSUME TypeOK, LifeInv, Limit, [Next]_vars
             PROVE  [Clients!Next]_(Clients!admission)
  OBVIOUS
<1>t. /\ io \in IO /\ events \in SUBSET Events
      /\ io.hellos \in Nat /\ io.buffered \in Nat /\ io.sessions \in Nat
      /\ io.created \in Nat /\ io.allowed \in Nat
      /\ SessionsPerEvent \in Nat
  BY SizesAssumption DEF TypeOK, IO
(* Most steps leave the clients alone.                                     *)
<1>s. ASSUME Listening' = Listening,
             io'.hellos = io.hellos, io'.buffered = io.buffered,
             io'.sessions = io.sessions, io'.created = io.created
      PROVE  UNCHANGED Clients!admission
  BY <1>s DEF Clients!admission
<1>1. CASE RunEventLoopOnce
  <2>1. Clients!NewTurn
    BY <1>1, LoopFacts
    DEF RunEventLoopOnce, Unchanged, In, Listening, Clients!NewTurn
  <2>2. QED
    BY <2>1 DEF Clients!Next
<1>2. CASE ProcessBufferedChlos
  <2>1. Listening /\ Listening' /\ io.created = 0
    BY <1>2 DEF ProcessBufferedChlos, In, Unchanged, Listening, Limit
  <2>2. PICK n \in Nat :
          /\ n <= io.buffered /\ n <= SessionsPerEvent
          /\ n = io.buffered \/ n = SessionsPerEvent
          /\ io'.hellos = io.hellos
          /\ io'.buffered = io.buffered - n
          /\ io'.created = io.created + n /\ io'.sessions = io.sessions + n
    BY <1>2, ChlosFacts
  <2>3. Clients!AdmitPutOff(n)
    BY <2>1, <2>2 DEF Clients!AdmitPutOff, Clients!Admit
  <2>4. n \in 0..SessionsPerEvent
    BY <1>t, <2>2
  <2>5. QED
    BY <2>3, <2>4 DEF Clients!Next
<1>3. CASE ReadAndDispatchPackets
  <2>1. /\ Listening /\ Listening'
        /\ io.created + io.allowed = SessionsPerEvent
        /\ io.buffered > 0 => io.allowed = 0
    BY <1>3 DEF ReadAndDispatchPackets, In, Unchanged, Listening, Limit
  <2>2. PICK n \in Nat :
          /\ n <= io.hellos /\ n <= io.allowed
          /\ n = io.hellos \/ n = io.allowed
          /\ io'.hellos = 0
          /\ io'.buffered = io.buffered + (io.hellos - n)
          /\ io'.created = io.created + n /\ io'.sessions = io.sessions + n
    BY <1>3, ReadFacts
  <2>3. Clients!Hear(n)
    <3>1. n = io.hellos \/ io.created + n = SessionsPerEvent
      BY <2>1, <2>2
    <3>2. n <= io.hellos /\ io.created + n <= SessionsPerEvent
      BY <1>t, <2>1, <2>2
    <3>3. n > 0 => io.buffered = 0
      BY <1>t, <2>1, <2>2
    <3>4. QED
      BY <2>1, <2>2, <3>1, <3>2, <3>3 DEF Clients!Hear, Clients!Admit
  <2>4. n \in 0..SessionsPerEvent
    BY <1>t, <2>1, <2>2
  <2>5. QED
    BY <2>3, <2>4 DEF Clients!Next
<1>4. CASE NoMoreToRead
  BY <1>4, <1>s DEF NoMoreToRead, Unchanged, Listening
<1>5. CASE RearmReadable
  BY <1>5, <1>s, RearmFacts DEF RearmReadable, Unchanged, Listening
<1>6. CASE OnWritable
  BY <1>6, <1>s, WritableFacts DEF OnWritable, Unchanged, Listening
<1>7. CASE Start \/ ListenFails \/ Destroy
  BY <1>7, <1>s DEF Start, ListenFails, Destroy, Listening
<1>8. CASE CreateUDPSocketAndListen
  <2>1. ~Listening /\ Listening'
    BY <1>8 DEF CreateUDPSocketAndListen, Listening
  <2>2. Clients!Closed
    BY <2>1 DEF LifeInv, NoIO, Clients!Closed
  <2>3. Clients!Open
    BY <1>8, <2>1, <2>2, ListenFacts DEF Clients!Open
  <2>4. QED
    BY <2>3 DEF Clients!Next
<1>9. CASE Shutdown
  <2>1. Listening /\ ~Listening' /\ io' = NoIO
    BY <1>9 DEF Shutdown, In, Listening
  <2>2. Clients!Close
    BY <2>1 DEF Clients!Close, Clients!Closed, NoIO
  <2>3. QED
    BY <2>2 DEF Clients!Next
<1>10. CASE ChloArrives
  <2>1. Clients!Ask
    BY <1>10, HelloFacts DEF ChloArrives, Listening, Clients!Ask
  <2>2. QED
    BY <2>1 DEF Clients!Next
<1>11. CASE DataArrives
  BY <1>11, <1>s, DataFacts DEF DataArrives, Listening
<1>12. CASE AlarmFires
  BY <1>12, <1>s, <1>t, WriteFacts DEF AlarmFires, Listening
<1>13. CASE SocketDrains
  BY <1>13, <1>s, DrainFacts DEF SocketDrains, Listening
<1>14. CASE UNCHANGED vars
  BY <1>14, <1>s DEF vars, Listening
<1>15. QED
  BY <1>1, <1>2, <1>3, <1>4, <1>5, <1>6, <1>7, <1>8, <1>9, <1>10, <1>11, <1>12,
     <1>13, <1>14
  DEF Next, OnSocketEvent, Life, Environment

(* OnSocketEvent admits clients first come, first served, and puts one off *)
(* only when the event's limit is used up, for any limit and any loop.     *)
THEOREM ImplementsAdmission == Spec => AdmitsInOrder
<1>1. Init => Clients!Closed
  BY DEF Init, NoIO, Listening, Clients!Closed
<1>2. ServerInv /\ [Next]_vars => [Clients!Next]_(Clients!admission)
  BY AdmissionStep DEF ServerInv
<1>3. QED
  BY <1>1, <1>2, Inductive, PTL DEF Spec, AdmitsInOrder, Clients!Spec
=============================================================================
