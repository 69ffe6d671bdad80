SPECIFICATION FairSpec
CONSTANTS
    Conns = {"guard", "driving"}
    Names = {"parking_mode"}
    MaxSent = 2
    MaxFaults = 1
    MaxCommands = 1
INVARIANTS EachOnce AcknowledgedIsStored
PROPERTIES LastSpeakerHears TornIsFatal
CHECK_DEADLOCK FALSE
