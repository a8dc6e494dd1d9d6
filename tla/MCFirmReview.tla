---------------------------- MODULE MCFirmReview ----------------------------
(* Records, contents and symmetry for TLC's runs of FirmReview: ra and rc share *)
(* a website, rb and rc a company, rb gives no website and rd is not active.    *)
EXTENDS FirmReview, TLC

CONSTANTS ra, rb, rc, rd, s1, c1, c2

TheSites == (ra :> s1) @@ (rb :> None) @@ (rc :> s1) @@ (rd :> None)
TheCompanies == (ra :> c1) @@ (rb :> c2) @@ (rc :> c2) @@ (rd :> None)

Symmetry == Permutations(Firms) \cup Permutations(Operators)
=============================================================================
