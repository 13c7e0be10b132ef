CONSTANTS
    Slots <- MCSlots
    SleepTarget = 1
    Ceiling = 2
    Cap = 1
    NumTasks = 2
    Scenarios <- MCScenarios
SPECIFICATION Spec
CHECK_DEADLOCK FALSE
INVARIANTS PoolInv NoneSleptThrough
