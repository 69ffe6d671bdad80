SPECIFICATION FairSpec
CONSTANTS
    MaxScreens = 2
    MaxChanges = 1
    MaxErrors = 1
    MaxQueue = 1
INVARIANTS OnePollerEach
PROPERTIES NeverBackwards WhiteBetween EndsWhite BlinksOn
