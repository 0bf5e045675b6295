SPECIFICATION MCSpec
CONSTANTS
    Nodes <- MCNodes
    Edges <- MCEdges
    From <- MCFrom
    To <- MCTo
    FreeFlow <- MCFreeFlow
    Slope <- MCSlope
    Beta = 1
    Batches <- MCBatches
    ToleranceInverse = 1000
    maxIterations = 10
    incrementalBatches = 4
    N = 5
    GOMAXPROCS = 3
INVARIANTS
    FinalFlowsAtEquilibrium
