SPECIFICATION Spec
CONSTANTS
    edge = edge
    shared = shared
    q1 = q1
    q2 = q2
    a = a
    b = b
    tag = tag
    x = x
    y = y
    Scopes <- NestedScopes
    ScopeOrder <- NestedOrder
    Lineage <- NestedLineage
    Pushable <- NestedScopes
    OtherKinds = {edge}
    Reqs = {q1, q2}
    Home <- NestedHome
    Contents = {a}
    Refs = {x}
    TagRefs = {}
    Uses <- NestedUses
    NoRule = NoRule
    MaxMerges = 2
    MaxConsole = 1
    MaxFaults = 1
INVARIANTS
    RefsReady
    SweepSparesReferences
