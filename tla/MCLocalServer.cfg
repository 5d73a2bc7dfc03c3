SPECIFICATION LocalSpec
CONSTANTS
    r1 = r1
    r2 = r2
    a = a
    b = b
    Nobody = Nobody
    Requests = {r1, r2}
    Folders = {a, b}
    Names <- MCNames
    Budgets = {3}
    Pieces <- MCPieces
    PoolSize = 1
    MaxChunk = 2
INVARIANTS StreamIsAnswer GenerationsDoNotMeet
PROPERTY EveryWaiterWakes
CHECK_DEADLOCK FALSE
