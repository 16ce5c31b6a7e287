\* Two calls out of every operation of the directory services.
SPECIFICATION Spec
CONSTANTS
    c1 = c1
    c2 = c2
    o1 = o1
    o2 = o2
    o3 = o3
    u1 = u1
    g1 = g1
    r1 = r1
    s1 = s1
    n1 = n1
    n2 = n2
    h1 = h1
    h2 = h2
    t1 = t1
    t2 = t2
    a1 = a1
    a2 = a2
    pin = pin
    password = password
    Calls = {c1, c2}
    SeedOUs = {o1, o2, o3}
    SeedUsers = {u1}
    SeedGroups = {g1}
    SeedRoles = {r1}
    SeedSchemas = {s1}
    Names = {n1, n2}
    Handles = {h1, h2}
    Types = {t1, t2}
    Attrs = {a1, a2}
    CredTypes = {pin, password}
    Requests <- MCRequests
    InitialTables <- MCTables
    None = None
SYMMETRY CallSymmetry
INVARIANTS
    ChecksHoldAlone
    LooseReferencesHold
    CredentialsKept
PROPERTIES
    WritesRestOnChecks
CHECK_DEADLOCK FALSE
