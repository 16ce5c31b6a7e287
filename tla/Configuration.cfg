SPECIFICATION Spec
CONSTANTS
    c1 = c1
    c2 = c2
    x = x
    y = y
    n1 = n1
    n2 = n2
    n3 = n3
    id1 = id1
    ou1 = ou1
    ou2 = ou2
    t1 = t1
    t2 = t2
    None = None
    Calls = {c1, c2}
    Seeds = {x, y}
    Names = {n1, n2, n3}
    Identifiers = {id1}
    OUs = {ou1, ou2}
    Handles <- MCHandles
    Delimiters = {":", "/"}
    SenderTypes = {t1, t2}
    Requests <- MCRequests
    InitialTables <- MCTables
    ForeignKeys = {TRUE}
    Indexed = {"login"}
    Properties <- MCProperties
    Values <- MCValues
    MaxPageSize = 2
SYMMETRY CallSymmetry
INVARIANTS
    PermissionsTellPlaces
    ReferencesHold
    
    
    ProfilesHold
CHECK_DEADLOCK FALSE
