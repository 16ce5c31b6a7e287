SPECIFICATION Spec
CONSTANTS
    choose = choose
    ask = ask
    basic = basic
    social = social
    provision = provision
    authz = authz
    assert = assert
    password = password
    Requests = {r1, r2}
    Nodes <- AllNodes
    StartNode = choose
    NodeType <- MCNodeType
    NextNodes <- AuthnGraph
    Conditional = {authz}
    Executor <- MCExecutor
    Required <- MCRequired
    Inputs = {password}
    SentActions = {NoAction, ask, social, assert}
    FlowType = "AUTHENTICATION"
    Person <- OnePerson
    NoNode = NoNode
    NoAction = NoAction
    NoRow = NoRow
    MaxRestarts = 1
INVARIANTS
    EveryStepPassed
PROPERTIES
    RequestsAnswered
CHECK_DEADLOCK FALSE
