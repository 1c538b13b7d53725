---------------------------- MODULE MCEchoStream ----------------------------
(***************************************************************************)
(* Deliveries of up to two bytes, each told from the others.               *)
(***************************************************************************)
EXTENDS EchoStream

MCChunks == {<<>>} \cup {<<b>> : b \in Bytes} \cup {<<b, c>> : b, c \in Bytes}
=============================================================================
