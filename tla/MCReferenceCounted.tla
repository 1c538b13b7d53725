------------------------- MODULE MCReferenceCounted -------------------------
(* Threads, pointers and objects are alike.                                *)
EXTENDS ReferenceCounted, TLC

Symmetry == Permutations(Threads) \cup Permutations(Pointers) \cup
            Permutations(Objects)
=============================================================================
