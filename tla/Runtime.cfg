SPECIFICATION RuntimeSpec
CONSTANTS
    Subscribers = {"file", "console"}
    FileSub = "file"
    Events = {"login", "step"}
    Requests = {"login", "step"}
    Categories = {"authn", "flow", "all"}
    CategoryAll = "all"
    Category <- MCCategory
    Interests <- MCInterests
    Closers = {"main"}
    Main = "main"
    Strict = TRUE
    Databases = {"runtime"}
    MaxPools = 3
    None = None
    Definitions <- MCDefinitions
    Executors = {"BasicAuthExecutor", "GoogleOIDCAuthExecutor", "SMSOTPAuthExecutor",
                 "ProvisioningExecutor", "AuthAssertExecutor", "UserTypeResolver"}
    RegistrationID <- MCRegistrationID
    DefaultFlow = "auth_strict"
    Capital <- MCCapital
    Digits = {"0", "1"}
    Numeral <- MCNumeral
    Deployments <- MCDeployments
    RequiredProps = {"ISSUER"}
    SchemaOUs = {"ou"}
    Absent = Absent
INVARIANTS
    OnlyLateRequestsSuffer
    NoPoolLost
    CleanExit
    NoWayPastProvisioning
    ServesWhatFilesSay
PROPERTY
    SignalStops
CHECK_DEADLOCK FALSE
