SPECIFICATION FairSpec
CONSTANTS
    KING = 8
    MaxHand = 10
    Cards <- FourCards
    PerPlayer = 1
    Shuffles <- OneShuffle
    Tries = {1}
    CALL = 2
    OUT = 1
    Profiles = {{}, {"refuse"}, {"again"}, {"ndebug"}, {"early"}, {"late"}}
INVARIANTS TypeOK CardsOnce HandTypes
PROPERTIES LordStarts TurnMoves
CHECK_DEADLOCK FALSE
