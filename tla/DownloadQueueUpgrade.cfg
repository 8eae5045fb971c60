SPECIFICATION Spec
CONSTANTS
    None = None
    Rows <- MCRows
    Transfers <- MCTransfers
    Adders = {a1, a2}
    Operators = {}
    MaxFaults = 0
INVARIANT RefusedByWinner
CHECK_DEADLOCK FALSE
