------------------------- MODULE MCQuitServerSession -------------------------
(***************************************************************************)
(* Values of the constants of QuitServerSession: the streams are           *)
(* interchangeable.                                                        *)
(***************************************************************************)
EXTENDS QuitServerSession, TLC

Symmetry == Permutations(Streams)
=============================================================================
