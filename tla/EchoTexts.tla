----------------------------- MODULE EchoTexts -----------------------------
(***************************************************************************)
(* What an echo of whole texts promises: as soon as a text has ended and a *)
(* stream may be opened for it, neither sooner nor later, it is sent back, *)
(* once, in the order in which the texts ended, and no byte or end that is *)
(* sent is ever taken back.                                                *)
(***************************************************************************)
EXTENDS Integers, Sequences

VARIABLES
  texts,    \* [name, size] of those that have ended
  granted,  \* streams that may be opened, in all
  echoes    \* [name, sent, fin] of those opened

echoing == <<texts, granted, echoes>>

Init ==
  /\ texts = <<>>
  /\ granted = 0
  /\ echoes = <<>>

(* A text ends, or more streams are allowed, or neither.                   *)
Client ==
  /\ Len(texts') \in {Len(texts), Len(texts) + 1}
  /\ \A k \in 1..Len(texts) :
       /\ texts'[k] = texts[k]
       /\ Len(texts') > Len(texts) =>
            texts'[Len(texts')].name # texts[k].name
  /\ granted' >= granted

Answer ==
  /\ Len(echoes') = IF Len(texts') < granted' THEN Len(texts') ELSE granted'
  /\ \A k \in 1..Len(echoes') :
       /\ echoes'[k].name = texts'[k].name
       /\ echoes'[k].sent \in 0..texts'[k].size
  /\ Len(echoes') >= Len(echoes)
  /\ \A k \in 1..Len(echoes) :
       /\ echoes'[k].sent >= echoes[k].sent
       /\ echoes'[k].fin = echoes[k].fin

Next == Client /\ Answer

Spec == Init /\ [][Next]_echoing
=============================================================================
