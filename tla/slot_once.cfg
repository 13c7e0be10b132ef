CONSTANTS
  Handles = {h1, h2}
  Workers = {w1, w2}
  Reaper = reaper
  Takers = {h1, h2}
  Repeats = FALSE
  Runs = 1
  Deaths = 0
  Polling = TRUE
  Shutdown = FALSE
SPECIFICATION Spec
CHECK_DEADLOCK FALSE
INVARIANTS SlotOutlivesUse OutputOwnedOnce
PROPERTY KeepsPromise
