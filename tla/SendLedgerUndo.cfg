\* One row, one process and the person who owns the mailbox.
CONSTANTS
  Stages = {k1}
  Contents = {c1}
  Workers = {w1}
  DraftIds = {d1}
  None = None
  TicksPerDay = 1
  MaxTime = 1
  FirstThrough = 1
  FirstLimit = 1
  SecondThrough = 2
  SecondLimit = 2
  HardLimit = 3
SPECIFICATION Spec
INVARIANT VoidedMailWasDeleted
