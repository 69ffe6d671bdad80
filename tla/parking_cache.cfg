SPECIFICATION Spec
CONSTANTS
    Rssi = {"-60"}
    Distances = {10}
    MaxCommands = 2
    MaxDrops = 0
INVARIANTS CacheMirrorsDatabase
CHECK_DEADLOCK FALSE
