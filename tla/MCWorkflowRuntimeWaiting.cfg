SPECIFICATION Spec
CONSTANTS
    l1 = l1
    l2 = l2
    Parent = task
    Lane <- MCLane
    MaxUnits = 5
    Node <- MCNode
    Contract <- MCContract
INVARIANT
    WaitingNeverTerminal
CHECK_DEADLOCK FALSE
