SPECIFICATION Spec
CONSTANTS
    r1 = r1
    r2 = r2
    r3 = r3
    f = f
    Deployed <- InDeployedOrder
    NameOrder <- InNameOrder
    Foreign <- TheForeign
    Directives <- SomeDirectives
    MaxConsole = 1
    MaxFaults = 1
INVARIANTS
    RestoredInOrder
    NoFalseReorderRecord
PROPERTIES
    FencesKept
    EventuallyInOrder
