\* What the executors of a flow promise together, whatever others do to the users.
SPECIFICATION Spec
CHECK_DEADLOCK FALSE
CONSTANTS
    None = None
    Gone = Gone
    ann = ann
    bob = bob
    eve = eve
    People = {ann, bob, eve}
    InitialUsers <- MCUsers
    Graphs <- MCGraphs
    Schemas <- MCSchemas
    InitialUnits = {"home"}
    Profiles <- MCProfiles
    Roles <- MCRoles
    OtherChanges <- MCChanges
    MaxChanges = 2
    MaxPosts = 6
INVARIANTS
    OnlyTheProven
    
    SendsAreLimited
PROPERTIES
    ProvisionedAsAllowed
