\* Two jobs per invocation, deaths anywhere, a firm archived and restored.
CONSTANTS
  Firms = {f1}
  Sources = {s1}
  NoSite = {s1}
  Ineligible = {}
  Inputs = {i1}
  Workers = {w1}
  None = None
  MaxAttempts = 2
  Lease = 1
  FirstDelay = 1
  SecondDelay = 1
  Limit = 2
  Horizon = 0
  CanDie = TRUE
SPECIFICATION FairSpec
PROPERTY EveryJobSettles
