\* Two processes, two rows, two contents, one draft allowed on day one and two
\* on day two.
CONSTANTS
  Stages = {k1, k2}
  Contents = {c1, c2}
  Workers = {w1, w2}
  DraftIds = {d1, d2}
  None = None
  TicksPerDay = 1
  MaxTime = 1
  FirstThrough = 1
  FirstLimit = 1
  SecondThrough = 2
  SecondLimit = 2
  HardLimit = 3
SPECIFICATION Spec
SYMMETRY Symmetry
INVARIANTS
  TypeOK
  CapacityRespected
  OneDraftPerRow
  LiveDraftsAreCounted
  LedgerNamesItsOwnDraft
PROPERTIES
  HistoryIsKept
  ImplementsContract
