----------------------------- MODULE Admission -----------------------------
(***************************************************************************)
(* What the server promises its clients: whoever asks is admitted, first   *)
(* come, first served, and at most Limit of them in one turn.  Those that  *)
(* come when the turn is used up are put off, and nobody is put off        *)
(* otherwise.                                                              *)
(***************************************************************************)
EXTENDS Integers

CONSTANT Limit

VARIABLES
  open,      \* does the server listen?
  asking,    \* clients that have asked and were not heard yet
  putOff,    \* clients that were heard and put off
  admitted,  \* clients that have been admitted
  turn       \* those of them that were in this turn

admission == <<open, asking, putOff, admitted, turn>>

Closed == ~open /\ asking = 0 /\ putOff = 0 /\ admitted = 0 /\ turn = 0

Ask ==
  /\ open
  /\ asking' = asking + 1
  /\ UNCHANGED <<open, putOff, admitted, turn>>

NewTurn ==
  /\ open
  /\ turn' = 0
  /\ UNCHANGED <<open, asking, putOff, admitted>>

Admit(n) == admitted' = admitted + n /\ turn' = turn + n

(* Who was put off comes first.                                            *)
AdmitPutOff(n) ==
  /\ open
  /\ turn = 0
  /\ n = putOff \/ n = Limit
  /\ n <= putOff /\ n <= Limit
  /\ putOff' = putOff - n
  /\ Admit(n)
  /\ UNCHANGED <<open, asking>>

(* All that ask are heard, and n of them admitted.                         *)
Hear(n) ==
  /\ open
  /\ n = asking \/ turn + n = Limit
  /\ n <= asking /\ turn + n <= Limit
  /\ n > 0 => putOff = 0
  /\ asking' = 0
  /\ putOff' = putOff + (asking - n)
  /\ Admit(n)
  /\ UNCHANGED open

Open == Closed /\ open' /\ UNCHANGED <<asking, putOff, admitted, turn>>

Close == open /\ Closed'

Next ==
  \/ Ask
  \/ NewTurn
  \/ \E n \in 0..Limit : AdmitPutOff(n) \/ Hear(n)
  \/ Open
  \/ Close

Spec == Closed /\ [][Next]_admission
=============================================================================
