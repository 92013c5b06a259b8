SPECIFICATION Spec
CONSTANTS
    Users = {1, 2}
    MaxConns = 3
    Fds = {4, 5, 6}
    RoomIDs = {1, 2}
    GameTypes = {1}
    Pids = {100, 101}
    Env = {"drop", "rush"}
INVARIANT SessionOwner
CHECK_DEADLOCK TRUE
