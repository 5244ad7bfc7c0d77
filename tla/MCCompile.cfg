CONSTANTS
    Absent = Absent
    Bad = Bad
    SafeNames = {"R1", "R2", "T1"}
    Networks = {"n1"}
    Hosts = {"h1"}
    Addresses = {"a1"}
    Paths <- MCPaths
    Templates <- MCTemplates
    MetaValues <- MCMetaValues
    SpecValues <- MCSpecValues
    InitialTrees <- MCInitialTrees
    Worlds <- MCWorlds
    Modules <- MCModules
    FolderOrder <- MCFolderOrder
    Dollar = {"$wan", "$lan"}
    MaxSlips = 1
    MaxChanges = 1
    MaxKills = 1
SPECIFICATION Spec
INVARIANTS NothingHalfLoaded DiskIsTheTree RulesHaveTheirZones
    RoutersKeepInterfaces NamedScopesAreReal
PROPERTY OnlyTheUnwantedGo
