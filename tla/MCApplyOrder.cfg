SPECIFICATION Spec
CONSTANTS
    access = access
    interface = interface
    zone = zone
    device = device
    edge = edge
    shared = shared
    KindsByName <- ThreeKinds
    RootsByName <- ThreeRoots
    Registries <- AnyRegistry
    VariableSets <- VariablesOfEdge
CHECK_DEADLOCK FALSE
INVARIANTS
    KindsAreSorted
    DependenciesFirst
    SkipsOnlyVariables
