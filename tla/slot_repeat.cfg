CONSTANTS
  Handles = {h1, h2}
  Workers = {w1, w2}
  Reaper = reaper
  Takers = {}
  Repeats = TRUE
  Runs = 3
  Deaths = 1
  Polling = FALSE
  Shutdown = TRUE
SPECIFICATION Spec
CHECK_DEADLOCK FALSE
INVARIANTS SlotInv OneRunAtATime ClonesReadLive NoOutputLeaks
PROPERTY WaitersReturn
