--------------------------- MODULE MCBlockingQueue ---------------------------
(* BlockingQueue for TLC: the producers and the values are interchangeable *)
(* model values.                                                           *)
EXTENDS BlockingQueue, TLC

Symmetry == Permutations(Producers) \cup Permutations(Values)

=============================================================================
