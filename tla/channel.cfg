CONSTANTS
  Tx = {t1, t2}
  Rx = {r1, r2}
  Sends = {s1, s2}
  Recvs = {g1}
  Values = {v1, v2}
  Bounded = TRUE
  Capacity = 1
  NoValue = NoValue
SPECIFICATION Spec
CHECK_DEADLOCK FALSE
INVARIANTS ChannelInv SentOnce
PROPERTY EveryoneLetGo
