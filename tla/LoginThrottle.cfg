\* Two gunicorn workers, a lock at the second failure, a lockout longer than the
\* window, and requests that may last as long as the window.
CONSTANTS
  Workers = {w1, w2}
  Tokens = {t1, t2, t3}
  None = None
  MaxFailures = 2
  Window = 3
  Lockout = 4
  Timeout = 3
  MaxTime = 7
SPECIFICATION Spec
SYMMETRY Symmetry
INVARIANTS
  TypeOK
  LimitHolds
  CheckHolds
  GuessesPerWindow
PROPERTIES
  LockIsKept
CHECK_DEADLOCK FALSE
