\* Two threads serve requests.
SPECIFICATION Spec
CONSTANTS
    r1 = r1
    r2 = r2
    a = a
    b = b
    gone = gone
    Nobody = Nobody
    Requests = {r1, r2}
    Folders = {a, b}
    Names <- MCNames
    Budgets = {0, 2}
    Pieces <- MCPieces
    PoolSize = 2
    MaxChunk = 2
INVARIANTS TypeOK RegistryConsistent JoinIsSafe StreamIsAnswer
PROPERTY EveryRequestAnswered
CHECK_DEADLOCK FALSE
