SPECIFICATION Spec
CONSTANTS
    None = None
    Issuer = "thunder"
    Audience = "deployment"
    DefaultValidity = 1
    Second = 1
    MaxTime = 2
    MaxJwts = 4
    ann = ann
    bob = bob
    Clients = {"web", "svc"}
    AppIDs <- MCAppIDs
    UserTypes = {"person"}
    Flows = {"basic"}
    GoodUris = {"webUri", "svcUri"}
    DefaultFlow = "basic"
    Users = {ann, bob}
    Attributes <- MCAttributes
    GroupsOf <- MCGroups
    UserType <- MCUserType
    Scopes = {"openid", "email", "system"}
    StandardScopes <- MCStandardScopes
    RefreshValidity = 2
    RenewOnGrant = TRUE
    Idps = {}
    IdpTypes = {}
    Subjects = {}
    OtpPeriod = 1
    SessionPeriod = 1
    InitialApps <- MCApps
    InitialIdps <- MCIdps
    Registrations <- MCRegistrations
    Changes = {}
    Permissions = {{"system"}}
    Requests <- MCRequests
    AttributeLists = {{}}
    Leavers = {}
    Services = {}
INVARIANTS
    NoTokenOutgrowsItsOrigin
    InfoWithinGrant
    RegisteredMayAuthenticate
CHECK_DEADLOCK FALSE
