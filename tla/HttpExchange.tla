---------------------------- MODULE HttpExchange ----------------------------
(***************************************************************************)
(* What a request stream promises its client: it is silent until it has    *)
(* the whole request or has given up on it, and then writes one HTTP       *)
(* response piece by piece, never takes a piece back, and ends it once.    *)
(* The request and the response may move in the same step: a handler reads *)
(* the end of the request and answers it.                                  *)
(***************************************************************************)
EXTENDS Naturals, Sequences

VARIABLES
  request,   \* how much of the request the server has
  response,  \* the sections of the response written so far
  ended,     \* has the end of it been written?
  cut        \* was the stream reset or closed?

exchange == <<request, response, ended, cut>>

(* "partial" more is to come; "complete" it can be answered; "session" it  *)
(* opened a session; "aborted" no more of it is read; "broken" more of it  *)
(* came than it announced when it was answered already.                    *)
RequestStates == {"partial", "complete", "session", "aborted", "broken"}

Before(section) ==
  CASE section = "info"     -> {}
    [] section = "head"     -> {"info"}
    [] section = "body"     -> {"info", "head"}
    [] section = "trailers" -> {"info", "head", "body"}

(* Each section once, interim headers first, then one final header section *)
(* and, behind it only, the body and the trailers.                         *)
InOrder(r) ==
  \A j \in 1..Len(r) :
    /\ \A i \in 1..(j - 1) : r[i] \in Before(r[j])
    /\ r[j] \in {"body", "trailers"} => \E i \in 1..(j - 1) : r[i] = "head"

Headed(r) == \E i \in 1..Len(r) : r[i] = "head"

Extends(s, r) == Len(r) <= Len(s) /\ \A i \in 1..Len(r) : s[i] = r[i]

Begin == /\ request = "partial"
         /\ response = <<>>
         /\ ~ended
         /\ ~cut

Request ==
  \/ UNCHANGED request
  \/ request = "partial" /\ request' \in {"complete", "session", "aborted"}
  \/ request = "complete" /\ request' = "broken"

Answer ==
  /\ Extends(response', response)
  /\ ended => ended'
  /\ cut => cut'
  /\ ended \/ cut \/ request' = "partial" => UNCHANGED <<response, ended>>
  /\ request' # "broken" => InOrder(response')
  /\ ended' /\ request' \in {"complete", "aborted"} => Headed(response')

Exchange == Begin /\ [][Request /\ Answer]_exchange
=============================================================================
