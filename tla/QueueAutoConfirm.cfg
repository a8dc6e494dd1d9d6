\* One firm without a website on record; no worker is killed.
CONSTANTS
  Firms = {f1}
  Sources = {s1}
  NoSite = {s1}
  Ineligible = {}
  Inputs = {i1, i2}
  Workers = {w1}
  None = None
  MaxAttempts = 3
  Lease = 2
  FirstDelay = 1
  SecondDelay = 2
  Limit = 1
  Horizon = 1
  CanDie = FALSE
SPECIFICATION Spec
INVARIANT RunningJobHasItsWorker
