-------------------------- MODULE MCProcessingQueue --------------------------
(* Symmetry for the TLC instances of ProcessingQueue. *)
EXTENDS ProcessingQueue, TLC

Symmetry == Permutations(Workers) \cup Permutations(Inputs)
=============================================================================
