SPECIFICATION Spec
CONSTANTS
    NaN = NaN
    MaxMean = 4
    MaxCost = 10
    NoOp = NoOp
    Invoke <- MCInvoke
    Graphs <- MCGraphs
    CostTables <- MCCostTables
    Lambdas <- MCLambdas
    Empty = Empty
INVARIANTS
    OutcomesConsistent
    NothingStale
    MatchesReference
    OrderIsTotal
PROPERTIES
    ImplementsTaskRun
    Termination
