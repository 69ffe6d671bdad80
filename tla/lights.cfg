SPECIFICATION FairSpec
CONSTANTS
    Sides = {"left", "right"}
    MaxDrops = 1
    MaxMissed = 2
INVARIANTS NothingLeftOn WarnsUnlessSilenced
PROPERTIES SignalOffReported
CHECK_DEADLOCK FALSE
