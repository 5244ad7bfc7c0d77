CONSTANTS
    InternetZones = {"wan"}
    RiskyPorts = {22, 3389}
    Absent = Absent
    PathOrder <- MCPathOrder
    Docs <- MCDocs
    Catalogs <- MCCatalogs
    Hierarchy <- MCHierarchy
    Origins <- MCOrigins
    MaxPulls = 2
    MaxAgain = 1
    MaxMishaps = 1
SPECIFICATION Spec
INVARIANTS TypeOK TierCoversTheChange EveryChangeHasItsTicket RecordsInStep WiderIsNotSafer
PROPERTY KeepsTheLedger
CHECK_DEADLOCK FALSE
