SPECIFICATION FairSpec
CONSTANTS
    Letters = {"an", "n", "le", "e"}
    Names <- SomeNames
    Garbage = {0, 5}
    MaxCrashes = 2
    Profiles = {{}, {"words"}, {"cut"}, {"noopen"}, {"crash_open"}}
INVARIANTS TypeOK ToldStays NumbersApart NoneInvented
PROPERTIES LoadEnds
CHECK_DEADLOCK TRUE
