----------------------------- MODULE RoomServer -----------------------------
(***************************************************************************)
(* RoomServer (include/RoomServer.h, source/RoomServer.cpp): the lobby     *)
(* where users sign in over a connection, meet in rooms, and from which a  *)
(* full room whose members are all ready is handed to a forked game        *)
(* process; and the driving loop of Server.cpp:81-108.                     *)
(*                                                                         *)
(* The process has one thread: a handler runs whole, and what happens      *)
(* around it is what clients send, connections that break, games that end. *)
(* Requests are whole messages here (BlockedServer has their bytes), and   *)
(* every user is registered.  Connections are ghosts, used to say who is   *)
(* behind a descriptor.                                                    *)
(***************************************************************************)
EXTENDS Integers, Sequences, FiniteSets, SocketTable, StdMap

CONSTANTS Users,      \* registered users: their UIDs
          MaxConns,   \* bound: connections clients make
          Fds,        \* descriptors accept() may return
          RoomIDs,    \* room numbers, in the order of the std::map
          GameTypes,  \* game types clients ask for
          Pids,       \* process ids fork() may return
          Env         \* what clients and the network do beyond the ordinary

\* "drop": a lobby client's connection breaks just before it is read;
\* "break": any connection breaks at any time;
\* "rush": a client connects in the turn of the loop in which one was dropped;
\* "multi_signin": a client signs in as several users;
\* "join_twice": a user joins a room while in another;
\* "reuse_number": a room is created with the number of one that is in a game.
Extras == {"drop", "break", "rush", "multi_signin", "join_twice",
           "reuse_number"}

ASSUME UsersAssumption == Users \subseteq Nat \ {0}
ASSUME FdsAssumption   == Fds \subseteq Nat
ASSUME RoomsAssumption == RoomIDs \subseteq Nat \ {0}
ASSUME PidsAssumption  == Pids \subseteq Nat \ {0}
ASSUME TypesAssumption == GameTypes \subseteq Nat
ASSUME ConnsAssumption == MaxConns \in Nat
ASSUME EnvAssumption   == Env \subseteq Extras

NoRoom   == 0    \* the room number ""
NoSocket == -1   \* SOCKET_ERROR
NoConn   == 0
GOBANG   == 1

VARIABLES
    slots,      \* m_acceptsock
    lobby,      \* m_mapInLobbyPlayer
    game,       \* m_mapInGamePlayer
    lobbyRooms, \* m_mapInLobbyRoom
    gameRooms,  \* m_mapInGameRoom
    pc, cur,    \* where the loop is, and the slot Tick looks at
    peer,       \* kernel: the connection last accepted under a descriptor
    open,       \* kernel: descriptors this process has open
    met,        \* how many connections were accepted: 1, ..., met
    broken,     \* connections that broke
    kids,       \* game processes: "none", "running", "zombie"
    ub          \* ghost: undefined behaviour has been reached

\* The loop is in part p; after undefined behaviour nothing is said of it.
In(p) == pc = p /\ ~ub

maps   == <<lobby, game, lobbyRooms, gameRooms>>
kernel == <<peer, open, met>>
vars   == <<slots, maps, pc, cur, kernel, broken, kids, ub>>
----------------------------------------------------------------------------
(* Data. *)

\* Game::GetGameCapcity: only Gobang has one.
Capacity(type) == IF type = GOBANG THEN 2 ELSE 0

Member(R) == {R.members[k] : k \in DOMAIN R.members}

\* What operator[] inserts for a user, for a room.
Ghost     == [socket |-> NoSocket, room |-> NoRoom, ready |-> FALSE, conn |-> NoConn]
EmptyRoom == [members |-> << >>, type |-> 0, pid |-> 0]

\* m_mapInLobbyPlayer[u], and the map that it leaves.
Player(u) == At(lobby, u, Ghost)
Players(U) == Touch(lobby, U, Ghost)

\* erase() of the elements of seq that are in S: the others close up in order.
Without(seq, S) ==
    LET stay    == {k \in DOMAIN seq : seq[k] \notin S}
        rank(k) == Cardinality({j \in stay : j <= k})
    IN [n \in 1..Cardinality(stay) |-> seq[CHOOSE k \in stay : rank(k) = n]]

Lowest(S) == {x \in S : \A y \in S : x <= y}

\* The user signed in over s: lobby players first; {} is UID 0.
FindSignedInUID(s) ==
    LET inLobby == {u \in DOMAIN lobby : lobby[u].socket = s}
        inGame  == {u \in DOMAIN game : game[u].socket = s}
    IN Lowest(IF inLobby # {} THEN inLobby ELSE inGame)

IsUserSignedIn(u) == u \in DOMAIN lobby \union DOMAIN game

\* Not overridden: BlockedServer's own, which reads every client.
ShouldReceiveData_Always(s) == TRUE

\* Data of players in a game is left to the game process.
ShouldReceiveData(s) == \A u \in DOMAIN game : game[u].socket # s
----------------------------------------------------------------------------
(* Sending.                                                                *)

LiveSocket(s) == \E i \in FindSocketID(slots, s) : slots[i].state = CONNECTED

Failing(S) == {s \in S : LiveSocket(s) /\ peer[s] \in broken}

\* SendParams to the sockets S.  A failed send() closes the slot and nothing else.
\* A socket without a slot is m_acceptsock[-1].
Send(S) ==
    /\ slots' = [i \in DOMAIN slots |->
                   IF \E s \in Failing(S) : i \in FindSocketID(slots, s)
                   THEN [slots[i] EXCEPT !.state = CLOSED] ELSE slots[i]]
    /\ ub' = (ub \/ \E s \in S : FindSocketID(slots, s) = {})
----------------------------------------------------------------------------
Init ==
    /\ slots = << >>
    /\ lobby = EmptyMap /\ game = EmptyMap
    /\ lobbyRooms = EmptyMap /\ gameRooms = EmptyMap
    /\ pc = "scan" /\ cur = 1
    /\ peer = [fd \in Fds |-> NoConn] /\ open = {} /\ met = 0
    /\ broken = {}
    /\ kids = [p \in Pids |-> "none"]
    /\ ub = FALSE
----------------------------------------------------------------------------
(* RemovePlayerFromRoom: the rooms it leaves, and the sockets it notifies. *)

RoomsWithout(u) ==
    LET r    == Player(u).room
        R    == At(lobbyRooms, r, EmptyRoom)
        rest == Without(R.members, {u})
    IN IF r = NoRoom THEN lobbyRooms
       ELSE IF u \notin Member(R) THEN Touch(lobbyRooms, {r}, EmptyRoom)
       ELSE IF rest = << >> THEN Erase(lobbyRooms, r)
       ELSE Put(lobbyRooms, r, [R EXCEPT !.members = rest])

\* Notify_LeaveRoom skips members that are not in the lobby.
LeaveNotified(u) ==
    LET R == At(lobbyRooms, Player(u).room, EmptyRoom)
    IN IF Player(u).room = NoRoom \/ u \notin Member(R) THEN {}
       ELSE {lobby[o].socket : o \in (Member(R) \ {u}) \cap DOMAIN lobby}
            \ {Player(u).socket}

\* Notify_JoinRoom and Notify_ReadyState read every member with operator[].
Notified(players, mem, s) == {players[o].socket : o \in mem} \ {s}
----------------------------------------------------------------------------
(* Requests, from the client of socket s.                                  *)

\* Whatever is only answered: REQUEST_ROOM_INFO, SIGN_UP of a known name, and
\* every refusal (SIGN_IN_FIRST, ROOM_NONE, ...).
Answer(s) == Send({s}) /\ UNCHANGED maps

\* The same, once the user's player has been read.
AnswerTo(u, s) == /\ lobby' = Players({u})
                  /\ Send({s})
                  /\ UNCHANGED <<game, lobbyRooms, gameRooms>>

\* Without the look-up in the lobby and game maps.
SIGN_IN_Again(u, s) ==
    /\ lobby' = Put(lobby, u, [socket |-> s, room |-> NoRoom, ready |-> FALSE,
                               conn |-> peer[s]])
    /\ Send({s})
    /\ UNCHANGED <<game, lobbyRooms, gameRooms>>

SIGN_IN(u, s) ==
    \/ IsUserSignedIn(u) /\ Answer(s)
    \/ /\ ~IsUserSignedIn(u)
       /\ "multi_signin" \in Env \/
            \A v \in DOMAIN lobby : lobby[v].conn # peer[s]
       /\ lobby' = Put(lobby, u, [socket |-> s, room |-> NoRoom, ready |-> FALSE,
                                  conn |-> peer[s]])
       /\ Send({s})
       /\ UNCHANGED <<game, lobbyRooms, gameRooms>>

CREATE_ROOM(r, type, s) ==
    \E u \in FindSignedInUID(s) :
        \/ r \in DOMAIN lobbyRooms /\ AnswerTo(u, s)
        \/ /\ r \notin DOMAIN lobbyRooms
           /\ "reuse_number" \in Env \/ r \notin DOMAIN gameRooms
           /\ lobbyRooms' = Put(RoomsWithout(u), r,
                  [members |-> <<u>>, type |-> type, pid |-> 0])
           /\ lobby' = [Players({u}) EXCEPT ![u].room = r]
           /\ Send(LeaveNotified(u) \union {s})
           /\ UNCHANGED <<game, gameRooms>>

\* Without the test of the room's size.
ROOM_NoLimit(r, s) ==
    \E u \in FindSignedInUID(s) :
        /\ r \in DOMAIN lobbyRooms
        /\ u \notin Member(lobbyRooms[r])
        /\ "join_twice" \in Env \/ Player(u).room = NoRoom
        /\ lobbyRooms' = [lobbyRooms EXCEPT ![r].members = Append(@, u)]
        /\ lobby' = [Players({u}) EXCEPT ![u].room = r]
        /\ Send({s})
        /\ UNCHANGED <<game, gameRooms>>

\* The joiner is told of its success only when someone was there before.
ROOM(r, s) ==
    \E u \in FindSignedInUID(s) :
        /\ "join_twice" \in Env \/ Player(u).room = NoRoom
        /\ LET R       == At(lobbyRooms, r, EmptyRoom)
               joins   == /\ u \notin Member(R)
                          /\ Len(R.members) < Capacity(R.type)
               players == Players(Member(R) \union {u})
           IN \/ ~joins /\ AnswerTo(u, s)
              \/ /\ joins
                 /\ lobbyRooms' = [lobbyRooms EXCEPT ![r].members = Append(@, u)]
                 /\ lobby' = [players EXCEPT ![u].room = r]
                 /\ Send(Notified(players, Member(R), s) \union
                         (IF R.members # << >> THEN {s} ELSE {}))
                 /\ UNCHANGED <<game, gameRooms>>

READY(state, s) ==
    \E u \in FindSignedInUID(s) :
        \/ Player(u).room = NoRoom /\ AnswerTo(u, s)
        \/ LET r       == Player(u).room
               R       == At(lobbyRooms, r, EmptyRoom)
               players == Players(Member(R) \union {u})
           IN /\ r # NoRoom
              /\ lobbyRooms' = Touch(lobbyRooms, {r}, EmptyRoom)
              /\ lobby' = [players EXCEPT ![u].ready = state]
              /\ Send(Notified(players, Member(R), s) \union {s})
              /\ UNCHANGED <<game, gameRooms>>

\* Quitting leaves the room player.roomID names, and no other.
QUIT_LOBBY(s) ==
    \E u \in FindSignedInUID(s) :
        /\ lobbyRooms' = RoomsWithout(u)
        /\ lobby' = Erase(lobby, u)
        /\ game' = IF u \in DOMAIN lobby THEN game ELSE Erase(game, u)
        /\ Send(LeaveNotified(u))
        /\ UNCHANGED gameRooms

Request(s) ==
    \/ Answer(s)
    \/ \E u \in Users : SIGN_IN(u, s)
    \/ \E r \in RoomIDs, type \in GameTypes : CREATE_ROOM(r, type, s)
    \/ \E r \in RoomIDs : ROOM(r, s)
    \/ \E state \in BOOLEAN : READY(state, s)
    \/ QUIT_LOBBY(s)
----------------------------------------------------------------------------
(* Tick, first part: BlockedServer::Tick, one message a slot.              *)

CloseClient(i) ==
    /\ slots' = [slots EXCEPT ![i].state = CLOSED]
    /\ open' = open \ {slots[i].socket}

NextSlot == pc' = "scan" /\ cur' = cur + 1

Readable == /\ In("scan") /\ cur <= Len(slots)
            /\ slots[cur].state = CONNECTED
            /\ ShouldReceiveData(slots[cur].socket)

\* A closed slot, a player in a game, or a client that sent nothing.
ScanSkip ==
    /\ In("scan") /\ cur <= Len(slots)
    /\ Readable => peer[slots[cur].socket] \notin broken
    /\ NextSlot
    /\ UNCHANGED <<slots, maps, kernel, broken, kids, ub>>

ScanMessage ==
    /\ Readable /\ peer[slots[cur].socket] \notin broken
    /\ Request(slots[cur].socket)
    /\ NextSlot
    /\ UNCHANGED <<kernel, broken, kids>>

ScanError ==
    /\ Readable /\ peer[slots[cur].socket] \in broken
    /\ CloseClient(cur)
    /\ NextSlot
    /\ UNCHANGED <<maps, peer, met, broken, kids, ub>>

ScanEnd ==
    /\ In("scan") /\ cur > Len(slots)
    /\ pc' = "accept" /\ cur' = 1
    /\ UNCHANGED <<slots, maps, kernel, broken, kids, ub>>
----------------------------------------------------------------------------
(* Tick, second part: one Accept, the games that ended, the clients that   *)
(* were dropped.                                                           *)

\* Only players that are in no room are looked at.
Dropped_Roomless ==
    {u \in DOMAIN lobby :
        /\ lobby[u].room = NoRoom
        /\ \E i \in FindSocketID(slots, lobby[u].socket) : slots[i].state = CLOSED}

Dropped == {u \in DOMAIN lobby :
              \E i \in FindSocketID(slots, lobby[u].socket) : slots[i].state = CLOSED}

Unused(fd) == fd \in Fds \ open

\* A slot is pushed whatever accept() returned.
AcceptNone_Unchecked ==
    /\ In("accept") /\ pc' = "reap"
    /\ \E i \in FreeSlot(slots) :
          slots' = PutSlot(slots, i, [socket |-> NoSocket, state |-> CONNECTED])
    /\ UNCHANGED <<maps, cur, kernel, broken, kids, ub>>

AcceptNone ==
    /\ In("accept") /\ pc' = "reap"
    /\ UNCHANGED <<slots, maps, cur, kernel, broken, kids, ub>>

Accept ==
    /\ In("accept") /\ pc' = "reap"
    /\ met < MaxConns
    /\ "rush" \in Env \/ Dropped = {}
    /\ \E fd \in Fds, i \in FreeSlot(slots) :
        /\ Unused(fd) /\ \A x \in Fds : x < fd => ~Unused(x)
        /\ slots' = PutSlot(slots, i, [socket |-> fd, state |-> CONNECTED])
        /\ peer' = [peer EXCEPT ![fd] = met + 1]
        /\ open' = open \union {fd}
    /\ met' = met + 1
    /\ UNCHANGED <<maps, cur, broken, kids, ub>>

\* The room is copied to the lobby and stays in the map of games.
GameOver_KeepRoom(r) ==
    LET R == gameRooms[r] IN
    /\ lobbyRooms' = Put(lobbyRooms, r, [R EXCEPT !.pid = 0])
    /\ lobby' = [u \in DOMAIN lobby \union Member(R) |->
                   IF u \in Member(R) THEN At(game, u, Ghost) ELSE lobby[u]]
    /\ game' = EraseAll(game, Member(R))
    /\ UNCHANGED <<slots, gameRooms, ub>>

\* MarkRoomLaunch(r, false): the room and its members return to the lobby; a
\* member that cannot be told is dropped from the lobby, not from the room.
GameOver(r) ==
    LET R       == gameRooms[r]
        mem     == Member(R)
        back(u) == [At(game, u, Ghost) EXCEPT !.ready = FALSE]
        sockets == {back(u).socket : u \in mem}
        told    == {u \in mem : /\ LiveSocket(back(u).socket)
                                /\ back(u).socket \notin Failing(sockets)}
    IN /\ gameRooms' = Erase(gameRooms, r)
       /\ lobbyRooms' = Put(lobbyRooms, r, [R EXCEPT !.pid = 0])
       /\ game' = EraseAll(game, mem)
       /\ Send(sockets)
       /\ lobby' = [u \in (DOMAIN lobby \ mem) \union told |->
                      IF u \in told THEN back(u) ELSE lobby[u]]

Over == {r \in DOMAIN gameRooms : kids[gameRooms[r].pid] = "zombie"}

\* A room whose game still runs (waitpid() = 0) is taken back as well.
Reap_Early(r) ==
    /\ In("reap") /\ r \in Lowest(DOMAIN gameRooms)
    /\ kids' = [kids EXCEPT ![gameRooms[r].pid] = IF @ = "zombie" THEN "none" ELSE @]
    /\ GameOver(r)
    /\ UNCHANGED <<pc, cur, kernel, broken>>

\* waitpid on every room in a game, then MarkRoomLaunch for those that ended.
Reap(r) ==
    /\ In("reap") /\ r \in Lowest(Over)
    /\ kids' = [kids EXCEPT ![gameRooms[r].pid] = "none"]
    /\ GameOver(r)
    /\ UNCHANGED <<pc, cur, kernel, broken>>

\* The loop over the rooms may stop before all were waited for.
ReapEnd_Early ==
    /\ In("reap")
    /\ pc' = "cleanup"
    /\ UNCHANGED <<slots, maps, cur, kernel, broken, kids, ub>>

ReapEnd ==
    /\ In("reap") /\ Over = {}
    /\ pc' = "cleanup"
    /\ UNCHANGED <<slots, maps, cur, kernel, broken, kids, ub>>

\* Without the removal from the room.
Cleanup_KeepRooms ==
    /\ In("cleanup") /\ pc' = "drive"
    /\ lobby' = EraseAll(lobby, Dropped)
    /\ UNCHANGED <<slots, game, lobbyRooms, gameRooms, cur, kernel, broken, kids, ub>>

\* Players whose slot is closed leave the lobby and the room roomID names.
Cleanup ==
    /\ In("cleanup") /\ pc' = "drive"
    /\ LET gone(r) == {u \in Dropped : lobby[u].room = r}
           rest(r) == Without(lobbyRooms[r].members, gone(r))
           kept    == {r \in DOMAIN lobbyRooms : gone(r) = {} \/ rest(r) # << >>}
       IN /\ lobby' = EraseAll(lobby, Dropped)
          /\ lobbyRooms' = [r \in kept |-> [lobbyRooms[r] EXCEPT !.members = rest(r)]]
    /\ UNCHANGED <<slots, game, gameRooms, cur, kernel, broken, kids, ub>>
----------------------------------------------------------------------------
(* The driving loop: GetReadyRoom, fork(), MarkRoomLaunch(r, true, pid).   *)

Full(R) == Len(R.members) = Capacity(R.type)
ReadyUser(u) == u \in DOMAIN lobby /\ lobby[u].ready
AllReady(R) == \A u \in Member(R) : ReadyUser(u)

ReadyRooms == {r \in DOMAIN lobbyRooms : Full(lobbyRooms[r]) /\ AllReady(lobbyRooms[r])}

\* GetReadyRoom looks, with operator[], at the members of every full room up to
\* the first that is not ready.
Inspected ==
    LET visited == {r \in DOMAIN lobbyRooms :
                       Full(lobbyRooms[r]) /\ \A x \in ReadyRooms : r <= x}
    IN UNION {LET m == lobbyRooms[r].members IN
              {m[k] : k \in {k \in DOMAIN m : \A j \in 1..(k - 1) : ReadyUser(m[j])}}
              : r \in visited}

DriveNone ==
    /\ In("drive") /\ pc' = "scan"
    /\ lobby' = Players(Inspected)
    /\ UNCHANGED <<slots, game, lobbyRooms, gameRooms, cur, kernel, broken, kids, ub>>

\* fork() may fail (DriveNone).  The driver takes room[0] and room[1], which a
\* ready room without members does not have.
Launch(r, pid) ==
    LET R       == lobbyRooms[r]
        mem     == Member(R)
        players == Players(Inspected)
        sockets == IF mem = {} THEN {NoSocket} ELSE {players[u].socket : u \in mem}
    IN /\ In("drive") /\ pc' = "scan"
       /\ r \in Lowest(ReadyRooms)
       /\ kids[pid] = "none"
       /\ kids' = [kids EXCEPT ![pid] = "running"]
       /\ lobbyRooms' = Erase(lobbyRooms, r)
       /\ gameRooms' = Put(gameRooms, r, [R EXCEPT !.pid = pid])
       /\ lobby' = EraseAll(players, mem)
       /\ game' = [u \in DOMAIN game \union mem |->
                     IF u \in mem THEN players[u] ELSE game[u]]
       /\ Send(sockets)
       /\ UNCHANGED <<cur, kernel, broken>>

----------------------------------------------------------------------------
(* The environment.                                                        *)

GameEnds(pid) ==
    /\ kids[pid] = "running"
    /\ kids' = [kids EXCEPT ![pid] = "zombie"]
    /\ UNCHANGED <<slots, maps, pc, cur, kernel, broken, ub>>

Break(c) ==
    /\ c \in 1..met /\ c \notin broken
    /\ \/ "break" \in Env
       \/ "drop" \in Env /\ Readable /\ peer[slots[cur].socket] = c
    /\ broken' = broken \union {c}
    /\ UNCHANGED <<slots, maps, pc, cur, kernel, kids, ub>>
----------------------------------------------------------------------------
ServerStep ==
    \/ ScanSkip \/ ScanMessage \/ ScanError \/ ScanEnd
    \/ AcceptNone \/ Accept
    \/ \E r \in RoomIDs : Reap(r)
    \/ ReapEnd \/ Cleanup \/ DriveNone
    \/ \E r \in RoomIDs, pid \in Pids : Launch(r, pid)

EnvStep == (\E pid \in Pids : GameEnds(pid)) \/ (\E c \in 1..MaxConns : Break(c))

Next == ServerStep \/ EnvStep

Spec == Init /\ [][Next]_vars

\* The loop never stops; games may last for ever and clients stay silent.
FairSpec == Spec /\ WF_vars(ServerStep)
----------------------------------------------------------------------------
(* Correctness.                                                            *)

PlayerType == [socket : Fds \union {NoSocket}, room : RoomIDs \union {NoRoom},
               ready : BOOLEAN, conn : 0..MaxConns]

IsMapOf(m, K, V) == DOMAIN m \subseteq K /\ m \in [DOMAIN m -> V]

RoomType == [members : Seq(Users), type : GameTypes \union {0},
             pid : Pids \union {0}]

\* Every variable keeps its type.
TypeOK ==
    /\ slots \in Seq([socket : Fds, state : {CLOSED, CONNECTED}])
    /\ IsMapOf(lobby, Users, PlayerType) /\ IsMapOf(game, Users, PlayerType)
    /\ IsMapOf(lobbyRooms, RoomIDs, RoomType)
    /\ IsMapOf(gameRooms, RoomIDs, RoomType)
    /\ pc \in {"scan", "accept", "reap", "cleanup", "drive"}
    /\ cur \in Nat \ {0}
    /\ peer \in [Fds -> 0..MaxConns]
    /\ open \subseteq Fds /\ met \in 0..MaxConns /\ broken \subseteq 1..met
    /\ kids \in [Pids -> {"none", "running", "zombie"}]
    /\ ub \in BOOLEAN

AllRooms == {lobbyRooms[r] : r \in DOMAIN lobbyRooms}
            \union {gameRooms[r] : r \in DOMAIN gameRooms}

Distinct(seq) == \A i, j \in DOMAIN seq : seq[i] = seq[j] => i = j

\* No room is empty, holds a user twice, or holds more users than its game takes
\* (one for a game that does not exist, its creator), and a room in a game is full,
\* in whatever order users join, leave, drop and come back (RoomServer.cpp:81, 115,
\* 306, 482).
RoomLimits ==
    /\ \A R \in AllRooms : /\ R.members # << >> /\ Distinct(R.members)
                            /\ Len(R.members) <= IF R.type = GOBANG THEN 2 ELSE 1
    /\ \A r \in DOMAIN gameRooms : Full(gameRooms[r])

\* A room in a game has a process that waitpid() can still report, and no two
\* rooms share one: otherwise the room never returns to the lobby
\* (RoomServer.cpp:39-50).
RoomHasGame ==
    \A r, q \in DOMAIN gameRooms :
        /\ kids[gameRooms[r].pid] # "none"
        /\ gameRooms[r].pid = gameRooms[q].pid => r = q

\* Every game process belongs to a room in a game, so that it is waited for.
GameHasRoom ==
    \A p \in Pids : kids[p] # "none" => \E r \in DOMAIN gameRooms : gameRooms[r].pid = p

\* A user is in the lobby or in a game and a room number is of one kind
\* (RoomServer.h:55 "not in game player", h:58 "not in game room").
OneSide == /\ DOMAIN lobby \cap DOMAIN game = {}
           /\ DOMAIN lobbyRooms \cap DOMAIN gameRooms = {}

\* The room a player believes it is in (roomID) and the room that lists it as a
\* member agree, for players of the lobby and of games alike.
SeatAgrees ==
    /\ \A u \in DOMAIN lobby, r \in RoomIDs :
          lobby[u].room = r <=> r \in DOMAIN lobbyRooms /\ u \in Member(lobbyRooms[r])
    /\ \A u \in DOMAIN game, r \in RoomIDs :
          game[u].room = r <=> r \in DOMAIN gameRooms /\ u \in Member(gameRooms[r])

\* A user who is signed in nowhere is in no room: what CheckPlayerOffline looks
\* for after a QUIT_LOBBY (RoomServer.cpp:140-177, called at 540).
OfflineClean ==
    \A R \in AllRooms : Member(R) \subseteq DOMAIN lobby \union DOMAIN game

\* A connection acts only for users that signed in over it: a new connection that
\* is given an old descriptor is told SIGN_IN_FIRST (RoomServer.h:7,
\* RoomServer.cpp:421-425), not taken for the one that went away.
SessionOwner ==
    pc = "scan" =>
      \A u \in DOMAIN lobby \union DOMAIN game, i \in DOMAIN slots :
        LET p == IF u \in DOMAIN lobby THEN lobby[u] ELSE game[u] IN
        slots[i].state = CONNECTED /\ slots[i].socket = p.socket
            => peer[slots[i].socket] = p.conn

\* The table is never indexed with -1 and no game is started without players.
NoUndefined == ~ub

\* While a user is in a game the server does not read its connection, so the
\* game process is the only reader, and does not close it either.
GameReadsAlone ==
    [][\A u \in DOMAIN game :
          /\ game[u].socket \in open => game[u].socket \in open'
          /\ pc = "scan" /\ cur \in DOMAIN slots /\ slots[cur].socket = game[u].socket
               => maps' = maps]_vars

\* A game that ended is waited for and its room returns to the lobby.
GameReaped == \A p \in Pids : kids[p] = "zombie" ~> kids[p] = "none"

\* A lobby player whose connection broke leaves the lobby
\* (RoomServer.cpp:60 "Client %s dismiss, remove from lobby").
DroppedLeaves ==
    \A c \in 1..MaxConns :
        (\E u \in DOMAIN lobby : lobby[u].conn = c /\ c \in broken)
            ~> ~ (\E u \in DOMAIN lobby : lobby[u].conn = c)
=============================================================================
