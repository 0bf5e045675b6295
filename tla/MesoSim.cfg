CONSTANTS
    Edges <- MCEdges
    Length <- MCLength
    HighLoad <- MCHighLoad
    CostAt <- MCCostAt
    Paths <- MCPaths
    Demands <- MCDemands
    TickBudgets <- MCTickBudgets
    TickSeconds = 64
    TravelAllowance = 200
SPECIFICATION PairSpec
INVARIANTS
    Inv
    OnlyBudgetCutsShort
    TraceIgnoresOrder
PROPERTIES
    SimulateReturns
