------------------------ MODULE MCCollectorDelivery ------------------------
(***************************************************************************)
(* Small instances of CollectorDelivery.                                   *)
(***************************************************************************)
EXTENDS CollectorDelivery, TLC

CONSTANTS a1, d1, d2, h1, h2, f1, f2, s1, s2

\* Two batches that disagree about a firm, one of them with a firm of its own.
TwoPayloads == {f1 :> s1 @@ f2 :> s1, f1 :> s2}

Symmetry == Permutations(Handlers) \cup Permutations(Devices)
=============================================================================
