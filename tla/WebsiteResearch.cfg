SPECIFICATION Spec
CONSTANTS
  r1 = r1
  r2 = r2
  p = p
  q = q
  o1 = o1
  w = w
  None = None
  Sources = {r1, r2}
  Sites = {p, q}
  Operators = {o1}
  Worker = w
  Day = 1
  DayLimit = 1
  Reuse = 0
  MaxTime = 1
  MaxRows = 4
SYMMETRY Symmetry
INVARIANTS
  TypeOK
  SearchesPerDay
  SearchesFollowReceipts
  EventsAnswerTheirPages
  JobsNameOneRecord
  ConfirmationsAreWhole
