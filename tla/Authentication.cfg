SPECIFICATION Spec
CONSTANTS
    None = None
    Issuer = "thunder"
    Audience = "deployment"
    DefaultValidity = 2
    Second = 2
    MaxTime = 4
    MaxJwts = 2
    ann = ann
    bob = bob
    Clients = {"web", "svc"}
    AppIDs <- MCAppIDs
    UserTypes = {"person"}
    Flows = {"basic"}
    GoodUris = {"webUri", "svcUri"}
    DefaultFlow = "basic"
    Users = {ann, bob}
    Attributes <- MCAttributes
    GroupsOf <- MCGroups
    UserType <- MCUserType
    Scopes = {"openid", "email", "system"}
    StandardScopes <- MCStandardScopes
    RefreshValidity = 2
    RenewOnGrant = TRUE
    Idps = {"idp"}
    IdpTypes = {"OIDC", "GOOGLE"}
    Subjects = {"annsSubject"}
    OtpPeriod = 3
    SessionPeriod = 1
    InitialApps <- MCApps
    InitialIdps <- MCIdps
    Registrations = {}
    Changes <- MCChanges
    Permissions = {{}}
    Requests = {}
    AttributeLists = {}
    Leavers = {ann}
    Services = {"credentials", "otp"}
INVARIANTS
    AssurancesEarned
    OtpLastsAsPromised
CHECK_DEADLOCK FALSE
