SPECIFICATION Spec
CONSTANTS
    edge = edge
    shared = shared
    q1 = q1
    q2 = q2
    a = a
    b = b
    tag = tag
    x = x
    y = y
    Scopes <- FlatScopes
    ScopeOrder <- FlatOrder
    Lineage <- FlatLineage
    Pushable <- FlatScopes
    OtherKinds <- FlatScopes
    Reqs = {q1, q2}
    Home <- FlatHome
    Contents = {a, b}
    Refs = {tag, x}
    TagRefs = {tag}
    Uses <- FlatUses
    NoRule = NoRule
    MaxMerges = 2
    MaxConsole = 1
    MaxFaults = 1
SYMMETRY Symmetric
INVARIANTS
    TypeOK
    RefsReady
    SweepSparesReferences
    CommitIsWhole
    PushedBeforeSweep
    NoLeftovers
