SPECIFICATION FairSpec
CONSTANTS
    l1 = l1
    l2 = l2
    Parent = task
    Lane <- MCLane
    MaxUnits = 5
    Node <- MCNode
    Contract <- MCContract
INVARIANTS
    TypeOK
    DoneIsVerified
    FollowsEdges
    RunOnce
    AggregateBudget
    DecisionsInformed
    PauseIsDurable
PROPERTY
    RunsToRest
CHECK_DEADLOCK FALSE
