SPECIFICATION FairSpec
CONSTANTS
    N = 3
    FIVE = 2
    Spots <- PlayedSpots
    INTERVAL = 2
    Profiles = {{"break"}}
INVARIANTS TypeOK BoardIsHistory NoMissedWin NoUndefined CountdownShown WinnerIsLine
PROPERTIES FairResult TurnEnds GameEnds
CHECK_DEADLOCK FALSE
