SPECIFICATION FairSpec
CONSTANTS
    Nodes <- MCNodes
    Points <- MCNodes
    Edges <- MCEdges
    EdgeIds <- MCEdges
    From <- MCFrom
    To <- MCTo
    FreeFlow <- MCFreeFlow
    K = 4
    Lat <- MCLat
    Lon <- MCLon
    Queries <- MCQueries
    Span = 7
    SinSq <- MCSinSq
    Cosine <- MCCosine
    NoPoint = 99
    EdgeOf <- MCEdgeOf
    Feeds <- MCFeeds
    Writes <- MCWrites
    InitialLens <- MCInitialLens
    MaxLoad = 3
    MaxWrites = 2
    Batches <- MCBatches
INVARIANTS
    NearestIsNearest
    CheapestPathsInOrder
    OneLoadPerCall
    TalliesAgree
PROPERTIES
    CallReturns
