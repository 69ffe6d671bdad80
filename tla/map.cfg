SPECIFICATION MapSpec
CONSTANTS
    MaxClicks = 3
    MaxMoves = 3
    MaxKills = 1
INVARIANTS FreshMap
PROPERTIES KnownStaysKnown
CHECK_DEADLOCK FALSE
