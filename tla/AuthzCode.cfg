\* One authorization request, completed and redeemed twice in any interleaving.
SPECIFICATION Spec
CONSTANTS
    AuthIDs = {a1}
    Completions = {c1, c2}
    Redemptions = {r1, r2}
    Clients = {k1}
    URIs = {u1}
    Keys = {p1}
    Resources = {}
    Users = {w}
    None = None
    RequestValidity = 1
    CodeValidity = 0
    MaxTime = 1
    MaxUpdates = 1
    MaxRestarts = 1
SYMMETRY CallSymmetry
INVARIANTS
    UsedStaysUsed
    FirstRedemptionAccepted
    TokensAsAuthorized
CHECK_DEADLOCK FALSE
