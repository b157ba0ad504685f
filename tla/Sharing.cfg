SPECIFICATION Spec
CONSTANTS
    Ports = {1, 2}
    Actors = {"tui", "web", "startup"}
    Configs <- MCConfigs
    Nets <- MCNets
    CodeSizes = {21, 93, 97}
    Worlds <- MCWorlds
INVARIANTS RulesAccounted CardsAnswer SheetFits UninstallIsExact
CHECK_DEADLOCK FALSE
