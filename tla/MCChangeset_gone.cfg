CONSTANTS
    InternetZones = {"wan"}
    RiskyPorts = {22, 3389}
    Absent = Absent
    PathOrder <- MCPathOrder
    Docs <- MCDocs
    Catalogs <- MCSettledCatalog
    Hierarchy <- MCHierarchy
    Origins <- MCOrigins
    MaxPulls = 2
    MaxAgain = 1
    MaxMishaps = 1
SPECIFICATION Spec
INVARIANT AppliedMeansLive
CHECK_DEADLOCK FALSE
