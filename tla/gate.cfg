CONSTANTS
  Givers = {g1, g2, t, s}
  Leaves = {g1, g2}
  Target = t
  Source = s
  Workers = {w1, w2}
  Runs = 2
  Gives = 2
  Attempts = 3
  Outs = 2
  Cancels = TRUE
  WriteOffs = TRUE
  Panics = TRUE
  Refusals = TRUE
  Spawned <- SingleOrCountedSeries
SPECIFICATION GatherSpec
CHECK_DEADLOCK FALSE
SYMMETRY GateSymmetry
INVARIANTS GateInv NoGiveMissed LastGiverEnds RoundsReach
