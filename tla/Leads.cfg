CONSTANTS
  Users = {1, 2, 3}
  Admins = {3}
  Runs = {r1, r2}
  Forms <- MCForms
  Near = 1
  Far = 2
  MaxLimit = 2
  MaxPage = 3
  MaxTime = 1
  None = None
SYMMETRY Symmetry
SPECIFICATION Spec
INVARIANTS ScoreCatchesUp PagesCoverLeads
CHECK_DEADLOCK FALSE
