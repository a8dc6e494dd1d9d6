SPECIFICATION FairSpec
CONSTANTS
  a1 = a1
  d1 = d1
  d2 = d2
  h1 = h1
  h2 = h2
  f1 = f1
  f2 = f2
  s1 = s1
  s2 = s2
  None = None
  Apps = {a1}
  Handlers = {h1}
  Devices = {d1, d2}
  Firms = {f1, f2}
  Sources = {s1, s2}
  Linkable = {f1}
  Payloads <- TwoPayloads
  MaxImports = 2
  PendingLimit = 2
  RetainedLimit = 2
  ImportLimit = 1
  RequestLimit = 2
  MaxTime = 0
  MaxFaults = 1
PROPERTIES
  PendingBatchesSettle
CHECK_DEADLOCK FALSE
