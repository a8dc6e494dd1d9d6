\* One firm whose FCA record alternates between two sources with a website.
CONSTANTS
  Firms = {f1}
  Sources = {s1, s2}
  NoSite = {}
  Ineligible = {}
  Inputs = {}
  Workers = {w1}
  None = None
  MaxAttempts = 2
  Lease = 1
  FirstDelay = 1
  SecondDelay = 1
  Limit = 1
  Horizon = 0
  CanDie = FALSE
SPECIFICATION Spec
INVARIANT TypeOK
PROPERTY PassesOnCurrentEvidence
