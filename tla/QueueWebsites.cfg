\* One firm without a website on record: confirmations, withdrawals, reprocessing.
CONSTANTS
  Firms = {f1}
  Sources = {s1}
  NoSite = {s1}
  Ineligible = {}
  Inputs = {i1, i2}
  Workers = {w1, w2}
  None = None
  MaxAttempts = 2
  Lease = 1
  FirstDelay = 1
  SecondDelay = 1
  Limit = 1
  Horizon = 0
  CanDie = TRUE
SPECIFICATION Spec
SYMMETRY Symmetry
INVARIANTS
  ClaimsAreHeld
  ArchivedFirmIsIdle
PROPERTIES
  PassesOnCurrentEvidence
  ImplementsQueue
