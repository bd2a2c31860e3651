SPECIFICATION Spec
CONSTANTS
    Nodes = {a, b, c}
    Keys = {k}
    Values = {x}
    MaxVersion = 6
INVARIANTS Consistent StalePriorRevivesMC
PROPERTIES ImplementsGraph PastRetained TransactionsAreStepsMC
CHECK_DEADLOCK FALSE
