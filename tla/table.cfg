CONSTANTS
  Threads = {t1, t2}
  MaxIds = 3
  Pops = 3
  Threshold = 0
  Minimum = 0
  PerPage = 2
  Refused = TRUE
SPECIFICATION Spec
CHECK_DEADLOCK FALSE
SYMMETRY ThreadSymmetry
INVARIANT TableInv
PROPERTY PagesFree
