SPECIFICATION Spec
CONSTANTS
    choose = choose
    ask = ask
    basic = basic
    social = social
    provision = provision
    authz = authz
    assert = assert
    password = password
    Requests = {r1, r2, r3}
    Nodes <- AllNodes
    StartNode = basic
    NodeType <- MCNodeType
    NextNodes <- LinearGraph
    Conditional = {}
    Executor <- MCExecutor
    Required <- MCRequired
    Inputs = {password}
    SentActions = {NoAction}
    FlowType = "REGISTRATION"
    Person <- OnePerson
    NoNode = NoNode
    NoAction = NoAction
    NoRow = NoRow
    MaxRestarts = 1
SYMMETRY RequestSymmetry
INVARIANTS
    EndedIsGone
    LastAnswerStands
    NoAccountTwice
CHECK_DEADLOCK FALSE
