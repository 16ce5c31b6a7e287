SPECIFICATION Spec
CONSTANTS
    c0 = c0
    c1 = c1
    c2 = c2
    n1 = n1
    n2 = n2
    x = x
    v1 = v1
    v2 = v2
    None = None
    Calls = {c1, c2}
    First = c0
    Names = {n1, n2}
    ChosenClients = {x}
    CertValues = {v1, v2}
    Requests <- MCRequests
    InitialTables <- MCTables
    MaxFailures = 2
SYMMETRY CallSymmetry
INVARIANTS
    CachesAgree
    
    FailedChangesNothing
CHECK_DEADLOCK FALSE
