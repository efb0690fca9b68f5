CONSTANTS
    Stages <- MCStages
    New = "new"
    None = "none"
    CustomTags = {"latest"}
    Images = {"web", "gone"}
    ManagedImages = {"web"}
    Commits = {"old", "head"}
    Parent <- MCParent
    Imports <- MCImports
    Dependencies <- MCDependencies
    Platforms <- MCPlatforms
    ImportMetadata <- MCImportMetadata
    Worlds <- MCWorlds
SPECIFICATION Spec
CHECK_DEADLOCK FALSE
INVARIANTS UsedStagesStay RelativesStay NewStagesStay NothingDangles
