----------------------------- MODULE GobangGame -----------------------------
(***************************************************************************)
(* A game process of Gobang (source/GobangGame.cpp) in the loop of         *)
(* include/Game.h, `while (!m_bCloseGame) { Tick_Base(); Tick(); }', on a  *)
(* server that took over two connections: slot 0 is the player of black,   *)
(* slot 1 of white.  Tick_Base looks at the slots in order, at most one    *)
(* recv per slot: the header of a message in one turn, its body, and with  *)
(* it the handler, in a later one.  A client has at most one message under *)
(* way.                                                                    *)
(***************************************************************************)
EXTENDS Integers, Sequences, FiniteSets

CONSTANTS N,        \* rows and columns of the board; 15 in the code
          FIVE,     \* pieces in a line that win; 5 in the code
          Spots,    \* spots the clients of this instance play on
          INTERVAL, \* m_secInterval, the seconds a player has; 30 in the code
          Profiles  \* what clients and scheduler may do: sets of habits

\* "premove": plays a piece before it is told that it is its turn;
\* "unready": takes back that it is ready;
\* "unasked": answers a take-back nobody asked for, or when the game is over;
\* "off_board": plays a piece outside the board;
\* "quit_ready": quits after READY, before the game starts;
\* "break": connections break;
\* "stall": a turn of the loop may take more than a second.
Habits == {"premove", "unready", "unasked", "off_board", "quit_ready", "break", "stall"}

Board  == (0..N - 1) \X (0..N - 1)
Client == {0, 1}
EMPTY  == 2
None   == -1       \* no winner yet; no last piece
TICK   == 2
END    == 3

ASSUME BoardAssumption == /\ N \in Nat /\ FIVE \in Nat \ {0}
                          /\ Spots \subseteq Board
ASSUME IntervalAssumption == INTERVAL \in Nat \ {0}
ASSUME ProfilesAssumption == Profiles \subseteq SUBSET Habits

VARIABLES
    pieces, expClient, last, history, \* m_pieces .. m_lHistory
    winOne, takeBack,                 \* m_winOne, m_bInTakeBackProcess
    ready, quit, started, closeGame,  \* m_ready0/1, m_quit0/1, m_bGameStart, m_bCloseGame
    secPassed, dt,                    \* m_secPassed; seconds since m_tpPiece, in a game
    slot,       \* the state of each client's slot in the server
    pc,         \* where the loop is: slot 0, slot 1, TICK or END
    ub,         \* the program did something undefined
    mail,       \* the message of each client that is under way
    stage,      \* where it is: "none", "here" or "head" (its header read)
    alive,      \* clients whose connection has not broken
    habits,     \* the profile of this run
    left,       \* ghost: clients that sent QuitGame
    lost        \* ghost: players that gave up or ran out of time in this game

board == <<pieces, expClient, last, history>>
flags == <<winOne, takeBack, ready, quit, started, closeGame>>
clock == <<secPassed, dt>>
env   == <<mail, stage, alive, habits, left>>
vars  == <<board, flags, clock, slot, pc, ub, env, lost>>

Off == <<-1, -1>>
Requests == {<<"PieceOn", p>> : p \in Spots \union {Off}}
            \union {<<"QuitGame">>, <<"GiveUp">>, <<"TakeBack">>}
            \union {<<"TakeBackResponse", b>> : b \in {0, 1}}
            \union {<<"READY", b>> : b \in {0, 1}}
NoMail == << >>

Has(h) == h \in habits
Other(c) == 1 - c
IsBothReady == ready[0] /\ ready[1]
Permitted(c) == ~takeBack /\ expClient = c

\* The slots after SendParams to the clients of C: a broken one is marked.
SentTo(C, sl) == [c \in Client |-> IF c \in C \ alive THEN "CLOSED" ELSE sl[c]]
Notify(C) == slot' = SentTo(C, slot)
----------------------------------------------------------------------------
(* CheckWhoWins: four scans from the last piece.                           *)

\* A scan that goes on over other pieces.
Reach_Any(b, p, d) ==
    Cardinality({k \in 1..N :
        LET q == <<p[1] + k * d[1], p[2] + k * d[2]>> IN q \in Board /\ b[q] = b[p]})

\* How far pieces like the one at p go from p in direction d.
Reach(b, p, d) ==
    Cardinality({k \in 1..N : \A m \in 1..k :
        LET q == <<p[1] + m * d[1], p[2] + m * d[2]>> IN q \in Board /\ b[q] = b[p]})

Along(b, p, d) == Reach(b, p, d) + Reach(b, p, <<-d[1], -d[2]>>)

\* The scan along / is missing.
Directions_NoSlash == {<<0, 1>>, <<1, 0>>, <<1, 1>>}

Directions == {<<0, 1>>, <<1, 0>>, <<1, 1>>, <<-1, 1>>}

LineWinner(b, p) ==
    IF p # Off /\ \E d \in Directions : Along(b, p, d) >= FIVE - 1 THEN b[p] ELSE None

CheckWhoWins == IF winOne # None THEN winOne ELSE LineWinner(pieces, last)
----------------------------------------------------------------------------
EmptyBoard == [p \in Board |-> EMPTY]

Init ==
    /\ pieces = EmptyBoard /\ expClient = 0 /\ last = Off /\ history = << >>
    /\ winOne = None /\ takeBack = FALSE
    /\ ready = [c \in Client |-> FALSE] /\ quit = [c \in Client |-> FALSE]
    /\ started = FALSE /\ closeGame = FALSE
    /\ secPassed = 0 /\ dt = 0
    /\ slot = [c \in Client |-> "CONNECTED"]
    /\ pc = 0 /\ ub = FALSE
    /\ mail = [c \in Client |-> NoMail] /\ stage = [c \in Client |-> "none"]
    /\ alive = Client /\ habits \in Profiles /\ left = {}
    /\ lost = {}
----------------------------------------------------------------------------
(* The requests, each the whole handler, called for client c.              *)

Nothing == UNCHANGED <<board, flags, clock, slot, ub, lost>>

\* The turn goes to the next number.
Place_NoWrap(c, p) ==
    /\ pieces' = [pieces EXCEPT ![p] = c]
    /\ expClient' = expClient + 1
    /\ last' = p
    /\ history' = Append(history, [at |-> p, client |-> c])
    /\ secPassed' = 0 /\ dt' = 0

\* The announced seconds stay.
Place_KeepSeconds(c, p) ==
    /\ pieces' = [pieces EXCEPT ![p] = c]
    /\ expClient' = Other(c)
    /\ last' = p
    /\ history' = Append(history, [at |-> p, client |-> c])
    /\ secPassed' = secPassed /\ dt' = 0

Place(c, p) ==
    /\ pieces' = [pieces EXCEPT ![p] = c]
    /\ expClient' = Other(c)
    /\ last' = p
    /\ history' = Append(history, [at |-> p, client |-> c])
    /\ secPassed' = 0 /\ dt' = 0

\* m_pieces is indexed with the client's numbers as they are.
PieceOn(c, p) ==
    IF ~Permitted(c) THEN Nothing
    ELSE IF p = Off THEN ub' = TRUE /\ UNCHANGED <<board, flags, clock, slot, lost>>
    ELSE IF pieces[p] # EMPTY THEN Nothing
    ELSE Place(c, p) /\ Notify(Client) /\ UNCHANGED <<flags, ub, lost>>

\* Each quit forgets the other's.
QuitGame_Forgets(c) ==
    /\ slot' = SentTo(Client, [slot EXCEPT ![c] = "CLOSED"])
    /\ quit' = [d \in Client |-> d = c]
    /\ closeGame' = (quit'[0] /\ quit'[1])
    /\ UNCHANGED <<board, winOne, takeBack, ready, started, clock, ub, lost>>

\* CloseConnection, Player_Disconnect to both, and the flags.
QuitGame(c) ==
    /\ slot' = SentTo(Client, [slot EXCEPT ![c] = "CLOSED"])
    /\ quit' = [quit EXCEPT ![c] = TRUE]
    /\ closeGame' = (quit'[0] /\ quit'[1])
    /\ UNCHANGED <<board, winOne, takeBack, ready, started, clock, ub, lost>>

GiveUp(c) ==
    /\ winOne' = Other(c)
    /\ lost' = lost \union {c}
    /\ Notify({Other(c)})
    /\ UNCHANGED <<board, takeBack, ready, quit, started, closeGame, clock, ub>>

\* Without the test of the number of pieces.
TakeBack_Early(c) ==
    IF ~Permitted(c)
    THEN Nothing
    ELSE /\ takeBack' = TRUE
         /\ Notify({Other(c)})
         /\ UNCHANGED <<board, winOne, ready, quit, started, closeGame, clock, ub, lost>>

TakeBack(c) ==
    IF Len(history) < 3 \/ ~Permitted(c)
    THEN Nothing
    ELSE /\ takeBack' = TRUE
         /\ Notify({Other(c)})
         /\ UNCHANGED <<board, winOne, ready, quit, started, closeGame, clock, ub, lost>>

At(k) == history[k].at
Kept == SubSeq(history, 1, Len(history) - 2)

\* Only one piece goes.
Agree_One ==
    IF Len(history) < 3
    THEN ub' = TRUE /\ UNCHANGED <<board, slot>>
    ELSE /\ pieces' = [pieces EXCEPT ![At(Len(history))] = EMPTY]
         /\ history' = SubSeq(history, 1, Len(history) - 1)
         /\ last' = At(Len(history) - 1)
         /\ Notify(Client)
         /\ UNCHANGED <<expClient, ub>>

\* Agreed, the last two pieces go; back() of a list with too few is undefined.
\* Nothing asks who answers, or whether anything was asked.
Agree ==
    IF Len(history) < 3
    THEN ub' = TRUE /\ UNCHANGED <<board, slot>>
    ELSE /\ pieces' = [pieces EXCEPT ![At(Len(history))] = EMPTY,
                                     ![At(Len(history) - 1)] = EMPTY]
         /\ history' = Kept
         /\ last' = At(Len(history) - 2)
         /\ Notify(Client)
         /\ UNCHANGED <<expClient, ub>>

TakeBackResponse(c, b) ==
    /\ IF b = 1 THEN Agree ELSE Notify({expClient}) /\ UNCHANGED <<board, ub>>
    /\ takeBack' = FALSE
    /\ UNCHANGED <<winOne, ready, quit, started, closeGame, clock, lost>>

READY(c, b) ==
    /\ ready' = [ready EXCEPT ![c] = b = 1]
    /\ Notify({Other(c)})
    /\ UNCHANGED <<board, winOne, takeBack, quit, started, closeGame, clock, ub, lost>>

Handle(c, r) ==
    \/ r[1] = "PieceOn" /\ PieceOn(c, r[2])
    \/ r[1] = "QuitGame" /\ QuitGame(c)
    \/ r[1] = "GiveUp" /\ GiveUp(c)
    \/ r[1] = "TakeBack" /\ TakeBack(c)
    \/ r[1] = "TakeBackResponse" /\ TakeBackResponse(c, r[2])
    \/ r[1] = "READY" /\ READY(c, r[2])
----------------------------------------------------------------------------
(* Tick_Base: BlockedServer::Tick over the two slots.                      *)

NextSlot == pc' = IF pc = 0 THEN 1 ELSE TICK

SlotSkip ==
    /\ pc \in Client /\ ~ub
    /\ \/ slot[pc] = "CLOSED"
       \/ pc \in alive /\ stage[pc] = "none"
    /\ NextSlot
    /\ UNCHANGED <<board, flags, clock, slot, ub, env, lost>>

SlotHead ==
    /\ pc \in Client /\ ~ub
    /\ slot[pc] = "CONNECTED" /\ pc \in alive /\ stage[pc] = "here"
    /\ stage' = [stage EXCEPT ![pc] = "head"]
    /\ NextSlot
    /\ UNCHANGED <<board, flags, clock, slot, ub, mail, alive, habits, left, lost>>

SlotMessage ==
    /\ pc \in Client /\ ~ub
    /\ slot[pc] = "CONNECTED" /\ pc \in alive /\ stage[pc] = "head"
    /\ Handle(pc, mail[pc])
    /\ mail' = [mail EXCEPT ![pc] = NoMail]
    /\ stage' = [stage EXCEPT ![pc] = "none"]
    /\ NextSlot
    /\ UNCHANGED <<alive, habits, left>>

\* A broken connection: CloseClient.  The game is not told.
SlotError ==
    /\ pc \in Client /\ ~ub
    /\ slot[pc] = "CONNECTED" /\ pc \notin alive
    /\ slot' = [slot EXCEPT ![pc] = "CLOSED"]
    /\ NextSlot
    /\ UNCHANGED <<board, flags, clock, ub, env, lost>>
----------------------------------------------------------------------------
(* Tick.                                                                   *)

AtTick == pc = TICK /\ ~ub
NextTurn == pc' = IF closeGame THEN END ELSE 0

\* The seconds a turn of the loop took; time is counted up to one second more
\* than a player has.
Elapsed == IF Has("stall") THEN 0..2 ELSE 0..1
Later(e) == IF dt + e > INTERVAL THEN INTERVAL + 1 ELSE dt + e

Running == started /\ IsBothReady

TickWaits(e) ==
    /\ AtTick /\ ~IsBothReady
    /\ dt' = IF started THEN Later(e) ELSE dt
    /\ NextTurn
    /\ UNCHANGED <<board, flags, secPassed, slot, ub, env, lost>>

\* Init_Gobang, but the winner of the last game stays.
Init_Gobang_KeepWinner ==
    /\ pieces' = EmptyBoard /\ expClient' = 0 /\ last' = Off /\ history' = << >>
    /\ winOne' = winOne /\ takeBack' = FALSE
    /\ quit' = [c \in Client |-> FALSE]
    /\ secPassed' = 0

Init_Gobang ==
    /\ pieces' = EmptyBoard /\ expClient' = 0 /\ last' = Off /\ history' = << >>
    /\ winOne' = None /\ takeBack' = FALSE
    /\ quit' = [c \in Client |-> FALSE]
    /\ secPassed' = 0

\* GAME_START and the first turn.  What follows in this call of Tick finds no
\* winner and no time passed.
TickStarts ==
    /\ AtTick /\ IsBothReady /\ ~started
    /\ Init_Gobang
    /\ started' = TRUE /\ dt' = 0 /\ lost' = {}
    /\ Notify(Client)
    /\ NextTurn
    /\ UNCHANGED <<ready, closeGame, ub, env>>

TickEnds ==
    /\ AtTick /\ Running /\ CheckWhoWins # None
    /\ started' = FALSE
    /\ ready' = [c \in Client |-> FALSE]
    /\ dt' = 0
    /\ Notify(Client)
    /\ NextTurn
    /\ UNCHANGED <<board, winOne, takeBack, quit, closeGame, secPassed, ub, env, lost>>

\* Running out of time has no effect.
Timeout_None == UNCHANGED <<winOne, lost>>

\* Out of time, the other player wins, as the next call of Tick will find.
Timeout == IF dt' >= INTERVAL
           THEN winOne' = Other(expClient) /\ lost' = lost \union {expClient}
           ELSE UNCHANGED <<winOne, lost>>

\* The turn is announced again when exactly one second more has passed.
TickClock(e) ==
    /\ AtTick /\ Running /\ CheckWhoWins = None
    /\ dt' = Later(e)
    /\ secPassed' = IF dt' - secPassed = 1 THEN dt' ELSE secPassed
    /\ IF dt' - secPassed = 1 THEN Notify(Client) ELSE UNCHANGED slot
    /\ Timeout
    /\ NextTurn
    /\ UNCHANGED <<board, takeBack, ready, quit, started, closeGame, ub, env>>

TickIn(e) == TickWaits(e) \/ TickClock(e)
Tick == TickStarts \/ TickEnds \/ \E e \in Elapsed : TickIn(e)
----------------------------------------------------------------------------
(* Clients and network.                                                    *)

\* What a client may send, from what it has been told when it sends.
May(c, r) ==
    /\ r[1] = "PieceOn" => /\ Has("premove") \/ (started /\ expClient = c)
                           /\ r[2] = Off => Has("off_board")
    /\ r[1] = "QuitGame" => Has("quit_ready") \/ started \/ ~ready[c]
    /\ r[1] = "GiveUp"   => started
    /\ r[1] = "TakeBack" => started /\ expClient = c
    /\ r[1] = "TakeBackResponse" => Has("unasked") \/ (started /\ takeBack /\ expClient # c)
    /\ r[1] = "READY" => Has("unready") \/ (~started /\ r[2] = 1)

\* Sent between two turns of the loop: sent within one it would not be handled
\* before the next either.
ClientSends(c, r) ==
    /\ pc = 0 /\ ~ub
    /\ c \in alive \ left /\ stage[c] = "none"
    /\ May(c, r)
    /\ mail' = [mail EXCEPT ![c] = r]
    /\ stage' = [stage EXCEPT ![c] = "here"]
    /\ left' = IF r[1] = "QuitGame" THEN left \union {c} ELSE left
    /\ UNCHANGED <<board, flags, clock, slot, pc, ub, alive, habits, lost>>

Break(c) ==
    /\ Has("break") /\ pc = 0 /\ ~ub /\ c \in alive
    /\ alive' = alive \ {c}
    /\ mail' = [mail EXCEPT ![c] = NoMail]
    /\ stage' = [stage EXCEPT ![c] = "none"]
    /\ UNCHANGED <<board, flags, clock, slot, pc, ub, habits, left, lost>>

Loop == SlotSkip \/ SlotHead \/ SlotMessage \/ SlotError \/ Tick
ClientStep == \E c \in Client : Break(c) \/ \E r \in Requests : ClientSends(c, r)
Next == Loop \/ ClientStep

\* The loop runs and time passes.
Fairness == WF_vars(Loop) /\ SF_vars(TickIn(1))

Spec     == Init /\ [][Next]_vars
FairSpec == Spec /\ Fairness
----------------------------------------------------------------------------
TypeOK ==
    /\ pieces \in [Board -> {0, 1, EMPTY}]
    /\ expClient \in Client
    /\ last \in Spots \union {Off}
    /\ history \in Seq([at : Spots, client : Client])
    /\ winOne \in {None, 0, 1}
    /\ ready \in [Client -> BOOLEAN] /\ quit \in [Client -> BOOLEAN]
    /\ {takeBack, started, closeGame, ub} \subseteq BOOLEAN
    /\ secPassed \in 0..INTERVAL + 1 /\ dt \in 0..INTERVAL + 1
    /\ slot \in [Client -> {"CONNECTED", "CLOSED"}]
    /\ pc \in Client \union {TICK, END}
    /\ mail \in [Client -> Requests \union {NoMail}]
    /\ stage \in [Client -> {"none", "here", "head"}]
    /\ alive \subseteq Client /\ left \subseteq Client /\ lost \subseteq Client
    /\ habits \subseteq Habits

\* The board is what the history says it is, through pieces, take-backs and new
\* games, whatever clients send: turns alternate from client 0 on, no spot is
\* played twice, and the last piece marked is the last played.
Alternates == \A k \in 1..Len(history) : history[k].client = (k - 1) % 2
Distinct   == \A k, m \in 1..Len(history) : At(k) = At(m) => k = m
OnBoard    == \A p \in Board :
                 /\ (\A k \in 1..Len(history) : At(k) # p) => pieces[p] = EMPTY
                 /\ \A k \in 1..Len(history) : At(k) = p => pieces[p] = history[k].client
LastMarked == last = IF history = << >> THEN Off ELSE At(Len(history))
BoardIsHistory == /\ Alternates /\ Distinct /\ OnBoard /\ LastMarked
                  /\ expClient = Len(history) % 2

\* FIVE spots in direction d from q.
Line(q, d) == {<<q[1] + k * d[1], q[2] + k * d[2]>> : k \in 0..FIVE - 1}
Lines == {l \in {Line(q, d) : q \in Board, d \in {<<0, 1>>, <<1, 0>>, <<1, 1>>, <<1, -1>>}} :
            l \subseteq Board}
Full(b, l, c) == \A q \in l : b[q] = c
HasFive(b, c) == \E l \in Lines : Full(b, l, c)

ScansAgree ==
    \A b \in [Board -> {0, 1, EMPTY}], p \in Board : b[p] # EMPTY =>
        LET l == {m \in Lines : p \in m /\ Full(b, m, b[p])}
        IN LineWinner(b, p) = IF l # {} THEN b[p] ELSE None

\* GobangGame.cpp:104-146: CheckWhoWins' scans find a line exactly where one
\* goes through the last piece, on every board there is.
WinnerIsLine == ~ub => ScansAgree

\* A game goes on only while nobody has five in a line: CheckWhoWins looks from
\* the last piece only, so each piece must be looked at before the next.  Not so
\* for clients that play ahead, or that can halt the game (premove, unready).
NoMissedWin ==
    pc = 0 /\ Running /\ habits \intersect {"premove", "unready"} = {}
        => \A c \in Client : ~HasFive(pieces, c)

\* GobangGame.cpp:72-76: a winner announced has five in a line, or the other
\* gave up or ran out of time in this very game.
FairResult ==
    [][TickEnds => LET w == CheckWhoWins IN
            /\ w \in Client
            /\ HasFive(pieces, w) \/ Other(w) \in lost]_vars

\* No list that is too short is popped, no spot off the board is looked at, by
\* clients that keep to the board and answer take-backs they are asked for.
NoUndefined == habits \intersect {"unasked", "off_board"} = {} => ~ub

\* The time the players were last told is right to a second while a game runs,
\* as long as the loop comes round every second (GobangGame.cpp:82).
CountdownShown ==
    Running /\ habits \intersect {"stall", "unready"} = {} => dt - secPassed \in {0, 1}

\* A turn comes to an end: the clock ends it if the player does not.
TurnEnds == \A c \in Client :
    started /\ expClient = c /\ ~Has("unready")
        ~> \/ ~started \/ expClient # c \/ pc = END \/ ub

\* When both players have quit over connections that hold, the process ends and
\* the lobby gets its room (GobangGame.cpp:227, Game.h:34).  Init_Gobang takes
\* back a quit made before the game started (quit_ready).
GameEnds == left = Client /\ alive = Client /\ ~Has("quit_ready")
                ~> pc = END \/ ub \/ alive # Client
=============================================================================
