SPECIFICATION Spec
CONSTANTS
    edge = edge
    core = core
    q1 = q1
    q2 = q2
    q3 = q3
    x = x
    hand = hand
    minted = minted
    anc = anc
    z1 = z1
    Roots <- TwoRoots
    Requests = {q1, q2, q3}
    Strangers = {x}
    InitialTrees <- TwoInEdge
    DeployOrder <- ThreeInOrder
    Tags = {"own", "other"}
    Objects = {hand, minted, anc}
    Snippet = {}
    Elsewhere = {anc}
    Minted = {minted}
    Zones = {z1}
    DeclaredZones <- SomeZones
    BaselineZones <- NoZones
    Sheltered <- AllScopes
    MaxEdits = 2
    MaxMerges = 1
    MaxFaults = 1
    MaxEvents = 2
INVARIANTS
    TypeOK
    CleanMeansInStep
    GreenMeansNothingOpen
    QuietWhenTagsIntact
PROPERTIES
    ClosedMeansGone
    RemediationSparesPolicy
    StrangersGo
    RecordsConverge
