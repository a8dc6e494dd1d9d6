-------------------------- MODULE MCLoginThrottle --------------------------
(* Symmetry for the TLC instance of LoginThrottle. *)
EXTENDS LoginThrottle, TLC

Symmetry == Permutations(Workers) \cup Permutations(Tokens)
=============================================================================
