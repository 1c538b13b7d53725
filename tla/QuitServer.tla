----------------------------- MODULE QuitServer -----------------------------
(***************************************************************************)
(* QuitServer: its life (Start, CreateUDPSocketAndListen, Shutdown, the    *)
(* destructor) and its event loop (HandleEventsForever, OnSocketEvent).    *)
(*                                                                         *)
(* The server has one thread, but the socket below it is the kernel's:     *)
(* datagrams arrive and leave between any two calls of OnSocketEvent, so   *)
(* each of its calls is a step.  The dispatcher, the socket and the event  *)
(* loop are QUICHE's, modelled by what OnSocketEvent relies on.            *)
(***************************************************************************)
EXTENDS Integers

CONSTANTS
  EdgeTriggered,     \* event_loop_->SupportsEdgeTriggered()
  SessionsPerEvent,  \* kNumSessionsToCreatePerSocketEvent
  SendBuffer,        \* datagrams the socket takes before it is full
  MaxChlos,          \* bound: client hellos sent to one server
  MaxWrites,         \* bound: other causes for a session to write
  MaxStarts          \* bound: servers built over one backend

ASSUME EdgeTriggeredAssumption == EdgeTriggered \in BOOLEAN

ASSUME SizesAssumption ==
  /\ SessionsPerEvent \in Nat \ {0}
  /\ SendBuffer \in Nat \ {0}
  /\ MaxChlos \in Nat /\ MaxWrites \in Nat /\ MaxStarts \in Nat

VARIABLES
  server,   \* the QuitServer of Start: "none" when there is none
  factory,  \* the backend's socket factory pointer
  phase,    \* where OnSocketEvent is; "idle" between two events
  events,   \* the events it was called with
  io,       \* the socket, its registration, and the dispatcher
  sent,     \* history: client hellos sent to this server
  caused,   \* history: datagrams and alarms that made a session write
  starts    \* history: servers built

vars == <<server, factory, phase, events, io, sent, caused, starts>>

Servers == {"none", "built", "listening", "failed", "shutdown"}

(* "orphan": the factory's event loop is destroyed; "dangling": the        *)
(* factory itself is.                                                      *)
Factories == {"null", "live", "orphan", "dangling"}

Events == {"readable", "writable"}
Phases == {"idle", "chlos", "read", "rearm", "write"}

(* io.hellos, io.data  datagrams that wait in the socket                   *)
(* io.free       datagrams the socket still takes                          *)
(* io.armed      events of the registration the loop will report           *)
(* io.artificial events of ArtificiallyNotifyEvent                         *)
(* io.buffered   CHLOs the dispatcher has buffered (HasChlosBuffered)      *)
(* io.allowed    sessions it may still create in this event                *)
(* io.created    history: sessions created in this event                   *)
(* io.sessions   sessions created                                          *)
(* io.waiting    writes that wait for the socket (HasPendingWrites)        *)
IO == [hellos : Nat, data : Nat, free : Nat,
       armed : SUBSET Events, artificial : SUBSET Events,
       buffered : Nat, allowed : Nat, created : Nat,
       sessions : Nat, waiting : Nat]

NoIO == [hellos |-> 0, data |-> 0, free |-> SendBuffer,
         armed |-> {}, artificial |-> {},
         buffered |-> 0, allowed |-> 0, created |-> 0,
         sessions |-> 0, waiting |-> 0]

TypeOK ==
  /\ server \in Servers
  /\ factory \in Factories
  /\ phase \in Phases
  /\ events \in SUBSET Events
  /\ io \in IO
  /\ sent \in Nat
  /\ caused \in Nat
  /\ starts \in Nat

Init ==
  /\ server = "none"
  /\ factory = "null"
  /\ phase = "idle"
  /\ events = {}
  /\ io = NoIO
  /\ sent = 0
  /\ caused = 0
  /\ starts = 0

----------------------------------------------------------------------------
(* The dispatcher and its writer (external).  Once a write has blocked the *)
(* writer, every other one waits too, until OnCanWrite.                    *)
Least(m, n) == IF m < n THEN m ELSE n

Taken(s, n) == IF s.waiting > 0 THEN 0 ELSE Least(n, s.free)

Write(s, n) ==
  [s EXCEPT !.free = @ - Taken(s, n), !.waiting = @ + (n - Taken(s, n))]

(* A new session writes its half of the handshake.                         *)
CreateQuicSessions(s, n) ==
  [Write(s, n) EXCEPT !.sessions = @ + n, !.created = @ + n, !.allowed = @ - n]

Listening == server = "listening"

In(p) == Listening /\ phase = p

Unchanged == UNCHANGED <<server, factory, sent, caused, starts>>

(* What the loop reports: events that are armed and have occurred, and the *)
(* artificial ones.  Whether they are rearmed is left to the listener.     *)
Occurred == {e \in Events : \/ e = "readable" /\ io.hellos + io.data > 0
                            \/ e = "writable" /\ io.free > 0}
Reported == (io.armed \cap Occurred) \cup io.artificial

RunEventLoopOnce ==
  /\ In("idle")
  /\ Reported # {}
  /\ events' = Reported
  /\ phase' = IF "readable" \in Reported THEN "chlos" ELSE "write"
  /\ io' = [io EXCEPT !.armed = @ \ Reported, !.artificial = {}, !.created = 0]
  /\ Unchanged

----------------------------------------------------------------------------
(* OnSocketEvent, call by call.                                            *)

(* Mutant: as many sessions as are allowed, whether CHLOs wait or not.     *)
ProcessBufferedChlos_Blindly ==
  /\ In("chlos")
  /\ io' = CreateQuicSessions([io EXCEPT !.buffered = @ - SessionsPerEvent,
                                         !.allowed = SessionsPerEvent],
                              SessionsPerEvent)
  /\ phase' = "read"
  /\ UNCHANGED events
  /\ Unchanged

ProcessBufferedChlos ==
  /\ In("chlos")
  /\ LET n == Least(io.buffered, SessionsPerEvent)
     IN  io' = CreateQuicSessions([io EXCEPT !.buffered = @ - n,
                                             !.allowed = SessionsPerEvent], n)
  /\ phase' = "read"
  /\ UNCHANGED events
  /\ Unchanged

(* Mutant: a CHLO beyond the limit is dropped.                             *)
ReadAndDispatchPackets_Drops ==
  /\ In("read")
  /\ io.hellos + io.data > 0
  /\ LET n == Least(io.hellos, io.allowed)
         r == [io EXCEPT !.hellos = 0, !.data = 0]
     IN  io' = Write(CreateQuicSessions(r, n), io.data)
  /\ UNCHANGED <<phase, events>>
  /\ Unchanged

(* Mutant: every CHLO read becomes a session.                              *)
ReadAndDispatchPackets_CreatesAll ==
  /\ In("read")
  /\ io.hellos + io.data > 0
  /\ LET n == io.hellos
         r == [io EXCEPT !.hellos = 0, !.data = 0, !.allowed = io.allowed + n]
     IN  io' = Write(CreateQuicSessions(r, n), io.data)
  /\ UNCHANGED <<phase, events>>
  /\ Unchanged

(* A CHLO beyond the limit is buffered, other datagrams make their session *)
(* write.                                                                  *)
ReadAndDispatchPackets ==
  /\ In("read")
  /\ io.hellos + io.data > 0
  /\ LET n == Least(io.hellos, io.allowed)
         r == [io EXCEPT !.buffered = @ + (io.hellos - n),
                         !.hellos = 0, !.data = 0]
     IN  io' = Write(CreateQuicSessions(r, n), io.data)
  /\ UNCHANGED <<phase, events>>
  /\ Unchanged

NoMoreToRead ==
  /\ In("read")
  /\ io.hellos + io.data = 0
  /\ phase' = "rearm"
  /\ UNCHANGED <<events, io>>
  /\ Unchanged

NextPhase == IF "writable" \in events THEN "write" ELSE "idle"

(* Mutant: an event is either readable or writable.                        *)
RearmReadable_EndsEvent ==
  /\ In("rearm")
  /\ io' = [io EXCEPT
       !.artificial = IF io.buffered > 0 THEN @ \cup {"readable"} ELSE @,
       !.armed = IF EdgeTriggered THEN @ ELSE @ \cup {"readable"}]
  /\ phase' = "idle"
  /\ UNCHANGED events
  /\ Unchanged

(* Mutant: buffered CHLOs wait for the next datagram.                      *)
RearmReadable_NoArtificial ==
  /\ In("rearm")
  /\ io' = [io EXCEPT !.armed = IF EdgeTriggered THEN @ ELSE @ \cup {"readable"}]
  /\ phase' = NextPhase
  /\ UNCHANGED events
  /\ Unchanged

(* Mutant: with CHLOs buffered, the artificial event replaces the rearming. *)
RearmReadable_Exclusive ==
  /\ In("rearm")
  /\ io' = [io EXCEPT
       !.artificial = IF io.buffered > 0 THEN @ \cup {"readable"} ELSE @,
       !.armed = IF EdgeTriggered \/ io.buffered > 0 THEN @
                                                    ELSE @ \cup {"readable"}]
  /\ phase' = NextPhase
  /\ UNCHANGED events
  /\ Unchanged

RearmReadable ==
  /\ In("rearm")
  /\ io' = [io EXCEPT
       !.artificial = IF io.buffered > 0 THEN @ \cup {"readable"} ELSE @,
       !.armed = IF EdgeTriggered THEN @ ELSE @ \cup {"readable"}]
  /\ phase' = NextPhase
  /\ UNCHANGED events
  /\ Unchanged

(* dispatcher_->OnCanWrite() unblocks the writer and lets the sessions     *)
(* write that wait.                                                        *)
OnWritable ==
  /\ In("write")
  /\ LET w == Write([io EXCEPT !.waiting = 0], io.waiting)
     IN  io' = IF ~EdgeTriggered /\ w.waiting > 0
                 THEN [w EXCEPT !.armed = @ \cup {"writable"}] ELSE w
  /\ phase' = "idle"
  /\ UNCHANGED events
  /\ Unchanged

----------------------------------------------------------------------------
(* Start builds a server; when listening fails it returns, and the server  *)
(* is destroyed.                                                           *)
Start ==
  /\ server = "none"
  /\ starts < MaxStarts
  /\ server' = "built"
  /\ sent' = 0
  /\ caused' = 0
  /\ starts' = starts + 1
  /\ UNCHANGED <<factory, phase, events, io>>

(* The socket cannot be created, bound or registered: the backend has its  *)
(* factory, there is no dispatcher.                                        *)
ListenFails ==
  /\ server = "built"
  /\ server' = "failed"
  /\ factory' = "live"
  /\ UNCHANGED <<phase, events, io, sent, caused, starts>>

CreateUDPSocketAndListen ==
  /\ server = "built"
  /\ server' = "listening"
  /\ factory' = "live"
  /\ io' = [io EXCEPT !.armed = {"readable", "writable"}]
  /\ UNCHANGED <<phase, events, sent, caused, starts>>

(* The dispatcher and the event loop go, the socket and the factory stay.  *)
Shutdown ==
  /\ In("idle")
  /\ server' = "shutdown"
  /\ factory' = "orphan"
  /\ io' = NoIO
  /\ UNCHANGED <<phase, events, sent, caused, starts>>

(* Mutant: the backend keeps its pointer.                                  *)
Destroy_KeepsPointer ==
  /\ server \in {"failed", "shutdown"}
  /\ server' = "none"
  /\ factory' = "dangling"
  /\ UNCHANGED <<phase, events, io, sent, caused, starts>>

(* ~QuitServer: the pointer is cleared, then the members are destroyed.    *)
Destroy ==
  /\ server \in {"failed", "shutdown"}
  /\ server' = "none"
  /\ factory' = "null"
  /\ UNCHANGED <<phase, events, io, sent, caused, starts>>

----------------------------------------------------------------------------
(* The network, the kernel and the sessions (external).  An edge-triggered *)
(* loop reports an event once for each time it occurs.                     *)
Edge(event) == IF EdgeTriggered THEN {event} ELSE {}

ChloArrives ==
  /\ Listening
  /\ sent < MaxChlos
  /\ sent' = sent + 1
  /\ io' = [io EXCEPT !.hellos = @ + 1, !.armed = @ \cup Edge("readable")]
  /\ UNCHANGED <<server, factory, phase, events, caused, starts>>

DataArrives ==
  /\ Listening
  /\ io.sessions > 0
  /\ caused < MaxWrites
  /\ caused' = caused + 1
  /\ io' = [io EXCEPT !.data = @ + 1, !.armed = @ \cup Edge("readable")]
  /\ UNCHANGED <<server, factory, phase, events, sent, starts>>

(* A session writes when one of its alarms fires; the loop runs them.      *)
AlarmFires ==
  /\ In("idle")
  /\ io.sessions > 0
  /\ caused < MaxWrites
  /\ caused' = caused + 1
  /\ io' = Write(io, 1)
  /\ UNCHANGED <<server, factory, phase, events, sent, starts>>

(* The kernel sends a datagram.                                            *)
SocketDrains ==
  /\ Listening
  /\ io.free < SendBuffer
  /\ io' = [io EXCEPT !.free = @ + 1,
                      !.armed = IF io.free = 0 THEN @ \cup Edge("writable")
                                               ELSE @]
  /\ UNCHANGED <<server, factory, phase, events, sent, caused, starts>>

OnSocketEvent ==
  \/ ProcessBufferedChlos
  \/ ReadAndDispatchPackets
  \/ NoMoreToRead
  \/ RearmReadable
  \/ OnWritable

Life ==
  \/ Start
  \/ ListenFails
  \/ CreateUDPSocketAndListen
  \/ Shutdown
  \/ Destroy

Environment ==
  \/ ChloArrives
  \/ DataArrives
  \/ AlarmFires
  \/ SocketDrains

Next == RunEventLoopOnce \/ OnSocketEvent \/ Life \/ Environment

Spec == Init /\ [][Next]_vars

(* Fairness: HandleEventsForever runs the loop again and again, and the    *)
(* kernel sends what it has taken.                                         *)
Fairness ==
  /\ WF_vars(RunEventLoopOnce)
  /\ WF_vars(OnSocketEvent)
  /\ WF_vars(SocketDrains)

FairSpec == Spec /\ Fairness

----------------------------------------------------------------------------
(* No event is lost, although each disarms itself before OnSocketEvent     *)
(* runs and datagrams arrive all the while: once the socket was found      *)
(* empty and until the event is over, what arrives finds an edge-triggered *)
(* loop told, and after it any loop; buffered CHLOs have their artificial  *)
(* event; and an edge-triggered loop will report a socket that could take  *)
(* the writes that wait for it.                                            *)
NoLostEvent ==
  Listening =>
    /\ io.hellos + io.data > 0 /\ (phase \in {"idle", "write"} \/ EdgeTriggered)
         => "readable" \in io.armed \/ phase \in {"chlos", "read"}
    /\ io.buffered > 0 /\ phase \in {"idle", "write"} =>
         "readable" \in io.artificial
    /\ EdgeTriggered /\ io.waiting > 0 /\ io.free > 0 =>
         "writable" \in io.armed \/ (phase # "idle" /\ "writable" \in events)

(* Every CHLO is in one place: in the socket, in the dispatcher's buffer,  *)
(* or it has become one session.                                           *)
ChlosKept == Listening => sent = io.hellos + io.buffered + io.sessions

(* Buffered CHLOs and those just read share the limit of one event         *)
(* (kNumSessionsToCreatePerSocketEvent).                                   *)
SessionsBounded == io.created <= SessionsPerEvent

(* ~QuitServer: "for extra pointer safety, clear the socket factory from   *)
(* the backend before the socket factory is destroyed"                     *)
(* (quit_server.cc:110): over any number of servers, the backend never     *)
(* holds a factory that is destroyed, and one whose event loop is gone     *)
(* only when no dispatcher is left to send it a request.                   *)
FactoryUsable ==
  /\ factory # "dangling"
  /\ Listening => factory = "live"
  /\ server = "none" => factory = "null"

(* However many CHLOs come at once, each gets its session.                 *)
ChlosServed ==
  \A n \in 1..MaxChlos :
    Listening /\ sent >= n ~> ~Listening \/ io.sessions >= n

(* "Handles all events" (quit_server.h:50): a write that waits for the     *)
(* socket goes out when the socket takes it.                               *)
WritesResume == io.waiting > 0 ~> io.waiting = 0

Clients == INSTANCE Admission WITH
             Limit <- SessionsPerEvent, open <- Listening,
             asking <- io.hellos, putOff <- io.buffered,
             admitted <- io.sessions, turn <- io.created

(* Whatever arrives between the calls of OnSocketEvent, CHLOs get their    *)
(* sessions first come, first served: one that is read is put off only     *)
(* when the limit of the event is used up, and then its session is created *)
(* before that of any CHLO read later.                                     *)
AdmitsInOrder == Clients!Spec
=============================================================================
