SPECIFICATION FairSpec
CONSTANTS
    Users = {1, 2, 3}
    MaxConns = 3
    Fds = {4, 5, 6}
    RoomIDs = {1, 2}
    GameTypes = {1}
    Pids = {100}
    Env = {"drop"}
INVARIANTS RoomLimits GameHasRoom OneSide SeatAgrees OfflineClean SessionOwner NoUndefined
PROPERTIES GameReaped DroppedLeaves
CHECK_DEADLOCK TRUE
