# socket_rpc: models, checks and proofs

`socket_rpc` is a small C++ network library with applications on top: a single-threaded
TCP server with length-prefixed messages (`BlockedServer`), its client, a tagged value
encoding (`SockProto`), an RPC dispatcher over static reflection, a lobby server that
forks game processes (`RoomServer`), and two games (`GobangGame`, `Landlord`). This
directory holds TLA+ models of its core, TLC configurations that check them and proofs
checked by TLAPS.

`Server.cpp` compiles the RPC server; the loop that drives the lobby is there as well, in
the `#else` part, commented out (lines 69-109). The lobby model follows that loop.

## 1. Inventory

| component | state | operations | what is hard |
|---|---|---|---|
| **BlockedServer** (`Utility.h`, `Utility.cpp`) | `m_acceptsock`: slots with socket, state, cached bytes, expected length, callbacks | `Accept`, `Tick`, `ReceiveData`, `CloseClient`, `PushClientSock`, `Register*`, `Send`, `SendParams`, `CloseConnection`, `TakeOver` | slots and descriptors are both reused, lookups are by descriptor only; bytes arrive in any pieces between two `recv()`; handlers run in the middle of a scan of the table; a failing send |
| **BlockedClient** (same files) | one slot | `Connect`, `Tick`, `ReceiveData`, `SendParams` | the same framing, other branches |
| **SockProto** (`LightProto`) | none | `Encode`, `Decode`, `Slice`, integers to bytes | widths, signs, truncated data |
| **RPCHandler** | `Slot`: listeners of each name | `Subscribe`, `Unsubscribe`, `Dispatch` | a handler that (un)subscribes while it is dispatched |
| **RoomServer** | players in the lobby, players in games, rooms in the lobby, rooms in games, registered users | seven requests, `Tick` (accept, reap, clean up), `GetReadyRoom`, `MarkRoomLaunch` | five maps and the socket table must agree, through drops, descriptor reuse, games that end; `operator[]` inserts what it does not find |
| **Player database** | a text file and a map | `InitPlayerData`, `SIGN_UP`, `Record_SignUp`, `GenerateValidID` | crash between memory and file, a line cut short, reads that are not tested |
| **Game, GobangGame** | board, turn, history, flags, clock | `Tick`, eight requests | late or repeated answers, the clock, new games, quitting |
| **Landlord, Poker** | hands, deck, phase, clock | `READY`, `CALL_LORD`, `DISCARD`; kinds of hands | no phase is enforced; repeated and late calls; unfinished |
| **Reflection** | types, their methods and bases | assignment and cast of `Any`, `find_method`, registration | what an assignment does depends on both sides |
| **Logger, mains** | - | - | text output, drivers |

How they interact: `Tick` calls the handler of a slot (`RPCHandler::Dispatch`,
`RoomServer_HandleRawData`, a game's handler), which calls back into the same server
(`SendParams`, `CloseConnection`). `RoomServer` derives from `BlockedServer`; it stops
reading a player's socket (`ShouldReceiveData`) while a forked child, which inherited the
descriptor, plays on it, and learns of the end by `waitpid`.

What makes each correct, in a sentence. *BlockedServer*: every connection is a reliable
FIFO channel of whole messages, and what is looked up by descriptor belongs to the
connection that has it now. *RoomServer*: a user is in one place, the room it believes it
is in lists it, requests act only for users signed in over that connection, every game is
reaped once, nobody dropped stays. *Player database*: who was told to be registered stays so,
under a number of its own. *RPCHandler*: every subscriber is called once, on the right part of
it, with what was sent. *Games*: the board is what was played, no win is missed and none is
given away, cards are in one place, turns and games come to
an end. The hazards are listed line by line in `PROJECT.json`.

## 2. Modules

| module | models | role |
|---|---|---|
| `SocketTable` | `FindSocketID`, `PushClientSock`, `HasClientConnect` | operators on the table; a search is the set holding the index found, so that nothing about it needs induction |
| `MsgChannel` | - | abstract: per-connection FIFO channel of messages, delivered until given up |
| `BlockedServer` | the server, its kernel and its clients, byte by byte | implements `MsgChannel` |
| `MCBlockedServer` | - | messages, client profiles and symmetry for TLC |
| `BlockedServerProofs` | - | TLAPS proofs: the table; connections, framing, the channel |
| `StdMap` | `std::map` with `operator[]` | operators |
| `RoomServer` | the lobby and its driving loop | - |
| `RoomServerProofs` | - | TLAPS proofs about `RoomServer`: for all clients, and for orderly ones |
| `PlayerStore`, `MCPlayerStore` | sign-up and the file behind it | - |
| `PlayerStoreProofs` | - | TLAPS proofs about `PlayerStore` |
| `GobangGame`, `MCGobangGame` | a game process of Gobang in the loop of `Game.h` | - |
| `GobangProofs` | - | TLAPS proofs about `GobangGame` |
| `Poker` | kinds of hands | operators, compared with a definition by counting |
| `Landlord`, `MCLandlord` | a game process of Landlord | extends `Poker` |
| `PokerProofs` | - | TLAPS proofs: kinds of hands of any length |
| `LandlordProofs` | - | TLAPS proofs about `Landlord`, from those about `Poker` |
| `LightProto` | the tagged encoding | operators, checked on all cuts of short messages |
| `EventBus` | - | abstract: subscribers of an event are called once each, in order |
| `RPCHandler`, `MCRPCHandler` | subscriptions, dispatch, the reflection under them | extends `LightProto`; implements `EventBus` |
| `RPCProofs` | - | TLAPS proofs: numbers, arguments and messages come back from their bytes; `find_method`; the refinement of `EventBus` |
| `RecursionTheorems` | - | lemmas without a word of the program: induction stated with sets, and the existence of recursive functions |

### BlockedServer

`slots` is `m_acceptsock` (the fields the properties need); `pc` and `cur` are where the
loop `while (true) { Accept(); Tick(); }` stands; `rx` holds `len` and `sumGet` of the
running `ReceiveData`. One call of `recv()` is one step (`RecvMore`, `RecvHead`,
`RecvBody`, `RecvNothing`, `RecvError`), so bytes can arrive between any two. A handler
is the state `pc = "callback"`, in which the application may register, send with
failure, or close (`AppStep`). `ConnOf` and the ghosts `peer`, `sent`, `got`, `closed`,
`failed` say which connection is behind a descriptor and what happened on it; the code
has no such knowledge. The kernel hands out the lowest unused descriptor.

Oddities of the code that the model keeps: the request to `recv()` is not reduced by what
was got (`Request`); a header cut short is asked for in full again (`ScanReceive`); a
negative length takes everything (`size_t`); 0 from `recv()` is no data (`RecvNothing`);
a failing `Send` only marks the slot (`SendFails`); `ClientSock::Init` leaves socket and
callbacks in place (`InitSock`), and `PushClientSock` replaces the whole entry (`PutSlot`).

Abstracted: addresses and logging; the two callbacks of a slot are one; a successful
`send()` changes nothing the server keeps; `CloseConnection` is called at most once a
connection, and not for one already reported.

### RoomServer

`lobby`, `game`, `lobbyRooms`, `gameRooms` are the four maps; `slots` the table; `pc`
walks through `scan` (`BlockedServer::Tick`, a message or an error per slot), `accept`,
`reap`, `cleanup`, `drive` (`GetReadyRoom`, `fork`, `MarkRoomLaunch`). Handlers are atomic
as in the code, which has one thread; each is one action with every send it makes. Sends
are to a set of sockets; those whose connection is broken fail and close their slot
(`Send`). `operator[]` on an absent key is `Touch` or `At`: the inserted default players
(`Ghost`) and rooms (`EmptyRoom`) are part of the state. `m_acceptsock[-1]` and `room[0]`
of an empty room set `ub`, and the model stops there. `conn` in a player and `peer` are
ghosts: the connection the user signed in over, the connection behind a descriptor.
Room numbers are ordered numbers (map order matters to `GetReadyRoom`), `NoRoom` is "".

Names, passwords, room names and texts are left out; all users are registered. Messages
are whole. `Env` says what clients and the network do beyond the ordinary, so that each
run states under what conditions a property holds.

### GobangGame

One process plays many games over two connections. `pc` is the loop: slot 0, slot 1, `Tick`.
`BlockedServer::Tick` makes one `recv()` a slot and turn, so the header of a message is taken
in one turn and the handler runs in a later one (`SlotHead`, `SlotMessage`); a handler and a
call of `Tick` are one action each. `board` is `m_pieces`, `m_expClient`, the last piece and
`m_lHistory`; `dt` is the time since `m_tpPiece` in seconds, `secPassed` what was announced.
`CheckWhoWins` counts in eight directions from the last piece (`Reach`) what its loops count.
`left` and `lost` are ghosts: who has quit, who gave up or ran out of time in this game.
Requests are sent while `pc = 0`: one that arrives within a turn is not handled before the
next one either. `habits` says what clients do beyond playing by what they were told; it is
chosen at the start and named by each property that needs its absence. `history.back()` of a
list too short and spots off the board set `ub`, and the model stops. `m_mapFunc` finds the
six requests; other names do nothing.

What TLC shows with habits added: pieces placed before it is one's turn (`premove`), or
halting the game (`unready`), break `NoMissedWin`; an unasked answer to a take-back sets `ub`;
a turn of the loop of two seconds (`stall`) breaks `CountdownShown`; a quit before the start
is forgotten by `Init_Gobang` (`quit_ready`) and breaks `GameEnds`. The run has `break` only:
with it every property holds, and each habit named excludes only its own property.

### PlayerStore

`users` is `m_mapSignUpPlayer`, `file` the texts in the file and whether white space ends it.
`fin` is the input stream with its position, `eofbit` and `failbit`; `operator>>` is `ReadId`
and `ReadName`, with what the standard says of each case, the value 0 of a text that is no
number included. One turn of the loop of `InitPlayerData` is a step. `SIGN_UP` is the steps
entering and opening, writing, answering; a crash may come between any two, between opening
and writing with the habit `crash_open` only. A text is a sequence of pieces with the digits
among them (`Letters` are the others), so that two texts written without white space between
become one; `Value` is what `operator>>` makes of digits. `told` is the
ghost: what users were answered. Profiles run each habit alone: an ordinary disk and
one-word names keep all promises; names of two words, a full disk (`cut`) and a file that
cannot be opened break the promises that name them, by TLC's own counterexamples.

### Poker and Landlord

A hand in `Poker` is the sequence of its numbers, for colours decide nothing. `MeantType`
defines the kinds by how often each number is held; `Gap` names where the code differs: no
straight with an ace, none of six cards or of more than ten, two triples with aces go with twos
instead of kings. `Sort` gives the k-th number by how many are below it, which is what
`std::sort` leaves; `RemoveNumber` is of a sorted hand, as `IsFLIGHTTWO` calls it.
`KindsAgree` compares both on all sorted hands of up to `MaxHand` cards, says that no order of
a hand makes it another kind, and that only a bomb and a rocket beat each other. `Type` and
`operator>` have no caller yet.

`Landlord` has the phases of `Tick` as actions with the flags as guards. `due` is the whole
seconds left until `m_expTp`. `prompt` is what each client was last told to do; clients answer
that, with habits that answer late, early, twice, or refuse. A discard of a card held meets
`assert(false)` (`fate = "aborted"`), or is rejected in a build without assertions; before the
deal it reads `m_client[-1]` (`"undefined"`). Cards held are bags, since a second call deals
the bottom cards again. With `refuse`, `again`, `late` or `early` TLC finds `CardsOnce`
violated, and `TurnMoves` with `unready` or with `refuse` and `again` together. A client whose
connection breaks is one that sends nothing more.

### LightProto and RPCHandler

`LightProto` is the encoding with a byte of `Radix` values; numbers keep their width and sign,
`std::to_string` loses what it loses (six decimals). `WireKeeps` says what comes back: every
`int`, an `int64_t` exactly when its bytes below the top have no sign bit, and of a message cut
anywhere the whole arguments.

`RPCHandler` keeps `Slot`, names to listeners in order; `contents` is what each object holds,
because `vector::erase` assigns listeners and `Any` then assigns objects (`Erased`, `Copied`).
`Dispatch` takes a decoded message, `CallListener` and `Return` are one call, between which a
handler may subscribe or unsubscribe (`reenter`). `FindMethod` searches the bases and adds up
sizes. Changing the vector that is gone over, and a cast that throws, stop the model.
`ImplementsBus` refines `EventBus`, where an object has parts (`Parts`: itself, its bases where
the compiler puts them, `BaseAt`) and a call must be on a part that has the method, with the
arguments sent. The sizes that are registered (`SizeOf`) and the places of bases are independent
constants: padding, empty bases and types without fields of their own are layouts like others.

## 3. Runs

| run | spec | question | result |
|---|---|---|---|
| `table` | `Spec`, 3 connections, 2 descriptors, 1 waiting, resets, failing sends, application closes | does the table keep finding the right slot, handler, descriptor? | holds: `TypeOK`, `TableIntegrity`, `HandlerOwner`, `LeakOnlyBySend`, `DisconnectOnce`, `FramingKept` |
| `framing` | `FairSpec`, 1 connection, 3 messages of 1 or 6 bytes, MTU 5, all faults | is the server a `MsgChannel`? | holds for clients that pipeline short messages, and for clients that wait for the handler but send long, split bodies |
| `overread` | `FairSpec`, a client that pipelines and sends long bodies | is every message delivered? | **no**: `Utility.cpp:115` |
| `eof` | `FairSpec`, a client that closes | is the close reported? | **no**: `Utility.cpp:131` |
| `orderly` | `FairSpec`, 3 users, 3 connections, 2 rooms, lobby clients that drop | do maps, table and processes agree, and is everything cleaned up? | holds: 7 invariants, `GameReaped`, `DroppedLeaves` |
| `wild` | `Spec`, 2 users, 3 connections, breaks anywhere, several rooms or users a client | what survives? | holds: `TypeOK`, `RoomHasGame`, `GameReadsAlone` |
| `inherited` | `Spec`, `drop`, `rush` | does a connection act only for who signed in over it? | **no**: `RoomServer.cpp:25` |
| `gobang` | `FairSpec`, 3 by 3 board, two in a line win, 2 seconds, breaks | is the board what was played, are results fair, do turns and games end? | holds: 6 invariants, `FairResult`, `TurnEnds`, `GameEnds` |
| `store` | `FairSpec`, one habit at a time, 2 crashes | is what users were told still true after restarts? | holds: `TypeOK`, `ToldStays`, `NumbersApart`, `NoneInvented`, `LoadEnds` |
| `landlord` | `FairSpec`, 4 cards, one each, one habit at a time | cards, lord, turns, kinds of hands? | holds: `TypeOK`, `CardsOnce`, `HandTypes`, `LordStarts`, `TurnMoves` |
| `rpc` | `Spec`, 2 classes, 3 objects, 7 messages, handlers that subscribe | is it an `EventBus`, and do bytes come back? | holds: `ImplementsBus`, `ProtoKeeps` |
| `unsubscribe` | `Spec`, `any` | does unsubscribing concern nobody else? | **no**: `RPCHandler.h:97` |

Bounds, and why they suffice. Two descriptors under three connections force reuse of both
slots and descriptors, and one connection accepted on a slot before the former owner of the
descriptor's slot; with a backlog of one the accept order is free. A body of 6 bytes with
MTU 5 is the shortest that needs two calls of `recv()`; three messages put one before and
one behind it. In the lobby three users are the fewest for a full room with one left out;
with a third user never in a game alone, one game process at a time is all three users can
have (`Pids` has one). Three connections let a user come back after a drop, and three
descriptors make both reuse and leaking possible. `MaxMsgs`, `MaxBacklog`, `MaxConns` and
`Profiles` are the only bounds in guards.

In Gobang a board of 3 by 3 has lines in all four directions through the centre; clients play
on three corners and the centre, with two in a line: three pieces, the fewest a take-back
needs, can be placed with and without a win; `WinnerIsLine` looks at every board there is. Two seconds let
the clock be announced once and run out. In the store two crashes reach a restart of what a
restart left; the names are such that one looks like a number, one has two words, one none.
One card a player and one at the bottom tell deals, calls and repeated calls apart; hands are
compared up to ten cards with eight numbers, as two triples with two pairs need. Three names,
one of them heard by nobody, messages without a name or with arguments that do not fit, and three objects, two of one class and one whose method
is in its second base, reach every branch of `Dispatch` and `find_method`; a byte has 8 values
in `rpc`, the fewest that hold the tags.

`CHECK_DEADLOCK FALSE` stands where the model ends: at undefined behaviour (`wild`, `gobang`,
`landlord`, `rpc`), at the end of a process (`gobang`) or an abort (`landlord`).

`MessageDelivered` and `DisconnectReported` are shown violated, with the faults that do so
named in their cfg; `ImplementsChannel` is checked where they are absent. Likewise
`SessionOwner` holds in `orderly` and fails in `inherited`. A header split in pieces
(`split_head`), a user who joins a room while in another (`join_twice`: `OfflineClean`), a room
number created again while its room plays (`reuse_number`: `OneSide`) and a connection that
breaks during a game (`break`, with the strong invariants) fail too; they have no run of their
own, see the hazards.

Fairness. `WF(ServerStep)`: the loops are `while (true)` and `recv` and `accept` do not
block. `WF(Arrive(c))`: TCP delivers what was sent as long as the connection lives.
Clients, applications, games and breaks have none: they may stop at any time. In the lobby
`fork()` may fail for ever. In the games `WF(Loop)`, and `SF(TickIn(1))`: of the calls of `Tick`
that look at the clock some find a second more, for time passes. In the store `WF(Server)`: a
start and a request once begun go on. `rpc` states none and claims no liveness.

## 4. Proofs

Every theorem is for all values of the constants within the named assumptions of its module,
and for every mix of habits unless a hypothesis says otherwise. Hypotheses are about constants:
what clients do (`Profiles`, `Env`) or what the application declares. `PTL` does the temporal
step from the initial state, the step and the consequence; each invariant was model-checked
before it was proved.

| module | theorem | states | under |
|---|---|---|---|
| `BlockedServerProofs` | `TypeCorrect`, `TableIntegrityHolds`, `HandlerOwnerHolds`, `LeakOnlyBySendHolds` | the invariants of those names | - |
| | `DisconnectOnceHolds` | `DisconnectOnce` | - |
| | `FramingKeptHolds`, `ChannelSafe` | `FramingKept`; every step is a step of `MsgChannel` or of nothing it sees | `Careful` |
| `RoomServerProofs` | `TypeCorrect`, `RoomHasGameHolds`, `GameReadsAloneHolds` | `TypeOK`, `RoomHasGame`, `GameReadsAlone` | - |
| | `SeatAgreesHolds`, `OfflineCleanHolds`, `RoomLimitsHolds`, `OneSideHolds`, `GameHasRoomHolds`, `SessionOwnerHolds`, `NoUndefinedHolds` | the invariants of those names | `Orderly` |
| `GobangProofs` | `GobangTypes`, `GobangBoard`, `GobangDefined`, `GobangFair`, `GobangCountdown`, `GobangScans`, `GobangNoMissedWin` | `TypeOK`, `BoardIsHistory`, `NoUndefined`, `FairResult`, `CountdownShown`, `WinnerIsLine`, `NoMissedWin` | - |
| `PlayerStoreProofs` | `StoreTypes`, `StoreToldStays`, `StoreNumbersApart`, `StoreNoneInvented` | `TypeOK`, `ToldStays`, `NumbersApart`, `NoneInvented` | - |
| `LandlordProofs` | `LandlordTypes`, `LandlordCardsOnce` | `TypeOK`, `CardsOnce` | - |
| | `LandlordLordStarts` | `LordStarts` | `Prompts` |
| | `LandlordHandTypes` | `HandTypes` | - |
| `PokerProofs` | `KindIsMeant` | a sorted hand of any length is of the kind it is meant to be, but for the gaps | - |
| | `KindInAnyOrder` | in no order is a hand of a kind it is not of when sorted | - |
| | `AtMostOneBeats` | of two hands at most one beats the other, unless they are a bomb and a rocket | - |
| | `KindsAgreeHolds` | `KindsAgree` | - |
| `RPCProofs` | `MessageBack` | a message of arguments that are `Sendable` comes back from its bytes | - |
| | `CutsAre` | of the first n bytes of such a message come back its whole arguments, in order | - |
| | `WireKeepsHolds` | `WireKeeps` | - |
| | `ProtoKeepsAlways` | `ProtoKeeps` | - |
| | `FoundIs` | `find_method` finds the method of a part of the object, or no part has it, in every layout; the call is at the offset of that part | -; `EndToEnd` of the type for the offset |
| | `RPCImplementsBus` | `ImplementsBus` | `Kinds`, `Sound` |

The hypotheses. `Careful`: headers arrive whole, a client that sends ahead sends no body that
is long or split, lengths fit an `int`: the profiles of run `framing`; run `overread` shows that
it is needed. `Orderly`: clients drop in the lobby and sign in as several users, no more (run
`orderly`); run `inherited` breaks `SessionOwner` with `rush`, and section 3 names the habits
that break others. `Prompts`: no profile both halts the game (`unready`) and calls before the
deal (`early`); with both, in a build without assertions, TLC finds `LordStarts` violated.
`Kinds`: the application unsubscribes no object that is followed by one of its class (run
`unsubscribe`). `Sound`: what is sent can be (`AllSendable`: strings of bytes, an
`int64_t` with small bytes below the top, numbers with at most six decimals), is of the types the
method takes or does not fit it (`Typed`: the code reads an `int` where a `float` of the same
size is meant), parts of an object with a method of one name agree on its parameters
(`Agreed`), and bases lie end to end (`EndToEnd`, `Packed`): each starts at the sum of the
registered sizes of those before it, which is what `find_method` takes for granted. A single
base fulfils that wherever it comes first; padding between two bases, an empty base that takes
no room and a virtual base do not, and the call then goes to an address where no part is: with
the second base of run `rpc` moved by one, TLC finds `ImplementsBus` violated. TLC evaluates the
four on the instance of run `rpc` (`InstanceAssumption`), whose `Robot` has no fields of its own.
Properties with a guard of their own (`habits ...`) say under which habits they hold.

### The server

The inductive invariant is
`IInv == TypeOK /\ TableIntegrity /\ HandlerOwner /\ RecvOnLive`. `TableIntegrity` alone is
not inductive: `RecvError` closes the slot `cur`, and to know that the descriptor closed
there is no other live slot's, `cur` must be live while `pc = "recv"` (`RecvOnLive`).
`Accept` is the interesting step: the descriptor is unused, so no live slot has it, and the
first `CLOSED` slot (or the end) is taken, before which all slots are live, so no earlier
slot carries the new descriptor. `HandlerOwner` needs `TableIntegrity` there: `Accept`
changes the peer of a descriptor that is not open, which therefore no live slot holds.
`LeakOnlyBySend` is inductive relative to `IInv`: `StepShape` shows that a step of the
server or the application changes nothing in the table, takes in a client, or changes one
entry whose descriptor it leaves alone, closes, or gives up with `failed`.

`DisconnectOnce` needs `AcceptedOnce`: no two descriptors, nor places of the backlog, stand for
one connection, and one that waits is unknown to the server. Each step then takes a connection
in, closes one that is served and reported never, fails one, or leaves them alone. `FramingKept`
needs `FrameInv`, which finds each stream by positions: what is delivered, what the slot has
cached, what has arrived and what is under way are, end to end, the frames sent; what `recv()`
is asked for never reaches beyond the frame that is being read. `ChannelSafe` follows: a body
handed over is the oldest message not yet handed over of a connection not given up.

### The lobby

`GameInv` is enough for what holds whatever clients do: a room in a game keeps the process it
was launched with, and until it is reaped neither its members' sockets are read nor their
entries change (`LeavesGamesAlone`). The rest is one inductive invariant, `LobbyInv`: the table
(`TableInv`: live slots carry open descriptors of different connections; a broken connection
that is live is the one about to be read), `Sessions` (a player's socket is still of the
connection it signed in over) and `SeatInv` (players and member lists agree on both sides). No
part is inductive alone: joining needs that the socket has a slot (else `m_acceptsock[-1]`),
which needs that a dropped player is removed in the turn it is dropped, which needs that its
slot is not taken meanwhile. Lemmas about seats (`SeatsLeft`, `SeatsTaken`) serve leaving,
launching and coming back alike, for each moves a set of players with their room.

### Gobang

`TypeOK` is inductive with `MailKnown` (a message under way is a request). `BoardIsHistory`: a
piece goes on an empty spot, which no entry of the history has; a take-back removes an even
number of entries, so turns still alternate. `NoUndefined` needs `AskedInv`: while an answer to
a take-back is under way the take-back is still open, which the history of three or more pieces
it was asked with survives, since no piece is permitted and no game starts before the answer is
handled. `FairResult` needs `WinInv` (a winner that is set has an opponent in `lost`) and
`AlongMakesLine`: where the scans in two opposite directions find `FIVE - 1` others, the spots
between their ends are a line; `GobangScans` adds the converse. `CountdownShown` needs
`ClockInv`: without long turns and players who halt the game, both stay ready while it runs and
the seconds announced are those passed. `NoMissedWin` needs `LookInv`: clients who wait for their
turn have at most one request under way between two of them, so `Tick` looks at each piece
before the next is handled.

### The store

What a restart reads back is what was written: `NumberBack` says that the digits `operator<<`
writes are read as the same number, for every number, and `StoreInv` that under an ordinary
disk and one-word names the file is lines of a number and a name (`Tidy`), loading stands
between two lines (`Loading`), what was entered is a user under its number (`Entries`), and
who was told is in the file (`Promised`). `NumbersApart` without the first would be void:
`GenerateValidID` takes the highest number loaded plus one. `Text` and `Value` are recursive;
that such functions exist and what they compute is proved by induction stated with sets
(`LeastNatural`, `SetInduction` of `RecursionTheorems`), since the library's induction takes operators as parameters.

### Landlord

`CardsOnce` needs `CallInv`: a client is asked once and answers once, so the bottom cards go to
one lord; shuffled decks hold each card once, and dealing takes them from the end
(`ShuffleProperties`, `InsertHand`). `LordStarts` needs `LordInv`: who is asked next is known in
each phase, and between the call and the reveal nobody moves it on.

### Poker

The code looks at fixed places of a sorted hand, the meaning at counts; both are about blocks. The
numbers below n and those equal to it are counted from one end (`CountIs`), so that in a sorted
hand the cards of n are the places after those of what is below (`Block`, `Stands`), and `Sort`
is the only sorted hand with the same counts (`RankUnique`, `SortCounts`). The cards of a hand
weigh as much as its numbers say: with a numbers held once, b twice, c three times and d four
times, its length is a + 2b + 3c + 4d (`Weight`), which leaves few shapes for each length
(`MeantOne` to `MeantSix`, `MeantLong`). For each test of the code the proof then finds the
numbers it meets: `RunAt` gives the block a place lies in, `FourIs`, `TwoTripleIs`, `QuadDualIs`,
`DualThreeIs`, `FlightOneIs` and `FlightTwoIs` say that the places compared hold exactly when the
shape is there, `RemoveTwoIs` what is left of a hand for the last. That numbers are in a row
(`RowTwo`, `RowThree`, `StraightInRow`, `SinglesInRow`), the ace above the king, is where the gaps
come from: `StraightIs` says which straights the code takes, those without an ace, `TwoTripleIs`
needs that there are not three aces.
`KindIsMeant` covers every length, `HandTypes` those up to `MaxHand` (`HandsAreHeld`).

### The wire

`Power`, `Sum`, `EncodeAll` and the starts in `Slice` are recursive functions:
`Recursion` and `StepByStep` show that they exist, `UpTo` and `LeastNatural` carry inductions over
them, stated with sets (`RecursionTheorems`). The digits of a number put together again are the number modulo the power of its
width (`SumOfDigits`), bytes put together are a number below it (`SumOfBytes`), so `Wrap` gives
back every number that fits (`Int32Is`). An `int64_t` is added up from signed `char`s: each byte
below the top with a sign bit takes a unit off the byte before it, never so many that the number
wraps round to itself, hence the "exactly when" of `Int64Is`. A piece starts where the pieces before it end
(`LaidOut`), so that `Slice` stops at the first argument that is not whole (`SliceIs`), which is
what `CutsAre` says for whole arguments and cut ones. `WireKeeps` is what TLC can evaluate of it.

### RPCHandler

`Recursion` shows that a function whose value comes from values at what is below exists, for any
grounded order; from it `FindMethod` and `Parts` have the values their equations say,
for every hierarchy without cycles (`HierarchyAssumption`, which C++ enforces). `FoundIs` follows
by induction over the hierarchy: bases searched in vain add up to the sizes of what is skipped
(`LocatedFrom`), whatever these sizes are, and where bases lie end to end so they do in each base
(`EndToEndBelow`), so that the sum is the place of the part. `BusInv` says that no list holds an object twice, that the listener is on the
list of the name dispatched, and that the arguments are those of a message sent, moved up by
assignment under labels of the same size (`ArgumentsAre`). Erasing by assignment is removal when
no two neighbours behind are of one class (`WithoutIs`). Each action is then one of `EventBus`,
or changes nothing there (`Return`).

### Model-checked only

Liveness, which is out of the prover's reach: `ImplementsChannel` beyond its steps,
`MessageDelivered`, `DisconnectReported`, `GameReaped`, `DroppedLeaves`, `TurnEnds`, `GameEnds`,
`TurnMoves`, `LoadEnds`. The violations of section 3. Every safety invariant of a passing run has
a theorem.

## 5. Not modelled, and the plan

Not modelled. The hand-over of a connection on which the lobby has read part of a message
(`RoomServer.cpp:563`): messages are whole in `RoomServer` and in the games. The destructor of
`BlockedServer`: both servers never leave their loop, and a game process that leaves it exits.
`BlockedClient`: the server's framing with one slot, used by the example `Client.cpp` only. Of
reflection the fields, static members, class creation, conversions registered by users and the
registration macros: C++ type dispatch; and virtual bases, whose place is not the type's but the
object's (`BaseAt` gives a place to each base of a type). `Init` of the games accepting players itself, which the
lobby never lets it do. `Holds::Remove` and the end of a Landlord game, which
`IsPermittedDiscard` makes unreachable. Texts of messages and logging. Real time: the clocks
count whole seconds, and how many pass in a turn of the loop is a choice.

Not proved. `OthersStay` for applications that unsubscribe no object followed by one of its class:
the half about subscriptions is part of `RPCImplementsBus`, the half about contents is a fold over
names with an operator as parameter, which the provers do not instantiate. Liveness, see section 4.
