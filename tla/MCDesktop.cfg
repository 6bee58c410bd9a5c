CONSTANTS
    MaxBridges = 2
    MaxCommands = 2
SPECIFICATION DeskSpec
INVARIANTS OneBridgeAtATime InstalledOnce
PROPERTIES CommandsReturn WindowCatchesUp
CHECK_DEADLOCK FALSE
