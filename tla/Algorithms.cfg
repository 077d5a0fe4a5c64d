SPECIFICATION Spec
CONSTANTS
    Inputs <- MCInputs
INVARIANTS
    OnlyProxiesBelieved
    RoutingTablesAgree
    EncodingIrrelevant
    PropfindAgrees
