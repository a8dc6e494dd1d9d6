SPECIFICATION Spec
CONSTANTS
  a1 = a1
  d1 = d1
  d2 = d2
  h1 = h1
  h2 = h2
  f1 = f1
  f2 = f2
  s1 = s1
  s2 = s2
  None = None
  Apps = {a1}
  Handlers = {h1, h2}
  Devices = {d1, d2}
  Firms = {f1, f2}
  Sources = {s1, s2}
  Linkable = {}
  Payloads <- TwoPayloads
  MaxImports = 3
  PendingLimit = 2
  RetainedLimit = 2
  ImportLimit = 1
  RequestLimit = 1
  MaxTime = 1
  MaxFaults = 1
SYMMETRY Symmetry
INVARIANTS
  TypeOK
  LimitsHold
  RecordsAreOfAcceptedImports
PROPERTIES
  NoImportAfterRevocation
  ImplementsDelivery
CHECK_DEADLOCK FALSE
