SPECIFICATION Spec
CONSTANTS
    Rssi = {"-60"}
    Distances = {996, 1001}
    MaxCommands = 2
    MaxDrops = 0
INVARIANTS CacheRightIfAlone OneBeaconWatched TheftNeedsThreeStrikes
PROPERTIES BaselineKept ImplementsBicycle
CHECK_DEADLOCK FALSE
