SPECIFICATION FairSpec
CONSTANTS
    Rssi = {"-60"}
    Distances = {10}
    MaxCommands = 2
    MaxDrops = 0
PROPERTIES RealTimeMode
CHECK_DEADLOCK FALSE
