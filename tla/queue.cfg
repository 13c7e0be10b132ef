CONSTANTS
    Workers = {w1, w2}
    Manager = manager
    NumIds = 2
    NumBands = 2
    BandOf <- MCBands
    Relief = 1
    Pushes = 3
    Mortal = {1}
    Ticks = 1
SPECIFICATION Spec
CHECK_DEADLOCK FALSE
SYMMETRY Perms
INVARIANT QueueInv
PROPERTY FifoPerBand
