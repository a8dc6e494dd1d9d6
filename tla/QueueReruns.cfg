\* One firm whose every import and rerun carries the same record.
CONSTANTS
  Firms = {f1}
  Sources = {s1}
  NoSite = {}
  Ineligible = {}
  Inputs = {}
  Workers = {w1}
  None = None
  MaxAttempts = 3
  Lease = 2
  FirstDelay = 1
  SecondDelay = 2
  Limit = 1
  Horizon = 1
  CanDie = FALSE
SPECIFICATION Spec
INVARIANT RerunsFailNoJob
