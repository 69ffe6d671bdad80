SPECIFICATION SystemSpec
CONSTANTS
    MaxScreens = 2
    MaxToggles = 2
    MaxErrors = 1
INVARIANTS LastClickWins AlarmOfThisSession GuardFollowsButton
PROPERTIES TheftNotified PollersEnd ModeArrives
