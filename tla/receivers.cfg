CONSTANTS
  Early = {e1}
  Late = {r1}
  Run = run
  Outputs = 2
  Breaks = TRUE
  Panics = TRUE
  Cancels = TRUE
  Takes = TRUE
  Finishes = TRUE
SPECIFICATION Spec
CHECK_DEADLOCK FALSE
INVARIANT ReceiversInv
PROPERTY WalksEnd
