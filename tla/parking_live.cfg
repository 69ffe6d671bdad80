SPECIFICATION FairSpec
CONSTANTS
    Rssi = {"-60"}
    Distances = {10}
    MaxCommands = 1
    MaxDrops = 1
PROPERTIES AlarmSounds BeaconLossReported DeactivationReported
CHECK_DEADLOCK FALSE
