\* Two firms, four records, two promotions at once, four rows.
CONSTANTS
  Firms = {f1, f2}
  ra = ra
  rb = rb
  rc = rc
  rd = rd
  s1 = s1
  c1 = c1
  c2 = c2
  Records = {ra, rb, rc, rd}
  Sites = {s1}
  Companies = {c1, c2}
  SiteOf <- TheSites
  CompanyOf <- TheCompanies
  Inactive = {rd}
  Operators = {o1, o2}
  None = None
  MaxRows = 4
SPECIFICATION Spec
SYMMETRY Symmetry
INVARIANTS
  TypeOK
  ReadyAsApproved
  ReadyFirmsDiffer
  LinkedFirmsMatch
PROPERTIES
  PromotedOnVerified
  ReadinessIsGiven
\* With both firms in the archive and the rows used up nothing is left to do.
CHECK_DEADLOCK FALSE
