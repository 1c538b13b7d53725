-------------------------------- MODULE Echo --------------------------------
(***************************************************************************)
(* What an echo of one stream promises: the client gets back what it sent, *)
(* in order and once, and the end of it after all of it.  The client and   *)
(* the echo may move in the same step: a handler reads and answers.        *)
(***************************************************************************)
EXTENDS Integers, Sequences

VARIABLES
  input,      \* the bytes the client has sent
  ended,      \* has it finished, or reset, its side?
  cancelled,  \* has it stopped the answer?
  output,     \* the bytes it got back
  finished    \* has it got the end of the answer?

vars == <<input, ended, cancelled, output, finished>>

Prefix(s, t) == /\ Len(s) <= Len(t)
                /\ \A i \in 1..Len(s) : s[i] = t[i]

Init ==
  /\ input = <<>>
  /\ ended = FALSE
  /\ cancelled = FALSE
  /\ output = <<>>
  /\ finished = FALSE

Client ==
  /\ Prefix(input, input')
  /\ ended => ended' /\ input' = input
  /\ cancelled => cancelled'

Answer ==
  /\ Prefix(output, output')
  /\ Prefix(output', input')
  /\ finished => finished' /\ output' = output
  /\ finished' => ended' /\ output' = input'
  /\ cancelled => UNCHANGED <<output, finished>>

Next == Client /\ Answer

Spec == Init /\ [][Next]_vars
=============================================================================
