SPECIFICATION MCSpec
CONSTANTS
    None = None
    Rows <- MCRows
    Transfers <- MCTransfers
    Adders = {a1, a2}
    Operators = {o1, o2}
    MaxFaults = 2
INVARIANTS
    TypeOK
    
    
PROPERTY QueueDrains
CHECK_DEADLOCK FALSE
