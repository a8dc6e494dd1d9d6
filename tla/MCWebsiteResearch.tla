------------------------- MODULE MCWebsiteResearch -------------------------
(* Symmetry for TLC's run of WebsiteResearch. *)
EXTENDS WebsiteResearch, TLC

CONSTANTS r1, r2, p, q, o1, w

Symmetry == Permutations(Operators) \cup Permutations(Sites) \cup Permutations(Sources)
=============================================================================
