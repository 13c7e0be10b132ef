CONSTANTS
  Keepers = {k1}
  Droppers = {d1, d2}
  Releases = TRUE
  Width = 3
  Deliveries = 4
SPECIFICATION SignalSpec
CHECK_DEADLOCK FALSE
SYMMETRY TaskSymmetry
INVARIANTS WatchersCounted NothingLost
