---------------------------- MODULE MCSendLedger ----------------------------
(* Symmetry for the TLC instances of SendLedger. *)
EXTENDS SendLedgerContract, TLC

Symmetry ==
  Permutations(Stages) \cup Permutations(Contents) \cup Permutations(Workers)
    \cup Permutations(DraftIds)
=============================================================================
