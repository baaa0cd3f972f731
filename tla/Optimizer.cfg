CONSTANTS
    MaxValue = 3
    Text = 10
    MaxHops = 3
    Catalogs <- MCCatalogs
    Graphs <- MCGraphs
    Statements <- MCStatements
SPECIFICATION Spec
INVARIANT ShortCircuitSound
PROPERTY AnswersKept
CHECK_DEADLOCK FALSE
