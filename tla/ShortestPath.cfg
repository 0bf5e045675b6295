SPECIFICATION FairSpec
CONSTANTS
    Nodes <- MCNodes
    Edges <- MCEdges
    From <- MCFrom
    To <- MCTo
    NoEdge = 0
    Weights <- MCWeights
    Estimates = {0, 1, 2}
INVARIANTS
    AnswerIsOptimal
PROPERTIES
    CallReturns
