SPECIFICATION FairSpec
CONSTANTS
    p1 = p1
    p2 = p2
    p3 = p3
    b1 = b1
    Props = {p1, p2, p3}
    Bulks = {b1}
    Chain <- MCChain
    MaxHash = 3
    MAX_RETRIES = 2
INVARIANTS
    PropagationsSerialize
    NeverFailAlone
    AppliedOnce
PROPERTIES
    EveryPropagationEnds
    ImplementsAtomic
