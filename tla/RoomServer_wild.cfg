SPECIFICATION Spec
CONSTANTS
    Users = {1, 2}
    MaxConns = 3
    Fds = {4, 5, 6}
    RoomIDs = {1, 2}
    GameTypes = {1}
    Pids = {100, 101}
    Env = {"break", "rush", "multi_signin", "join_twice", "reuse_number"}
INVARIANTS TypeOK RoomHasGame
PROPERTIES GameReadsAlone
CHECK_DEADLOCK FALSE
