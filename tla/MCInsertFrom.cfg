SPECIFICATION Spec
CONSTANTS
    Policies <- MCPolicies
    Containers <- MCContainers
    Header = 4
    MaxCalls = 2
INVARIANTS
    IInv
    EachRowOnce
    ThrowingAllOrNothing
    ReturnMeansStored
PROPERTIES
    InsertsInOrder
