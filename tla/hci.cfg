SPECIFICATION FairSpec
CONSTANTS
    Tools = {"hciconfig"}
    Opcodes = {"scan", "connect", "link"}
    Timeouts = {2, 3}
    Tries = 3
    LoopCount = 2
    MaxCommands = 2
    MaxNews = 1
INVARIANTS OwnAnswer NotStarved StaleIsLeftover
PROPERTIES Returns
CHECK_DEADLOCK FALSE
