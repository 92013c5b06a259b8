-------------------------- MODULE RoomServerProofs --------------------------
(***************************************************************************)
(* TLAPS proofs about RoomServer: for all clients, and then for orderly    *)
(* ones.                                                                   *)
(***************************************************************************)
EXTENDS RoomServer, FiniteSetTheorems, TLAPS

(* Removal from a room.                                                    *)

\* vector::erase keeps what is not erased, in order, and nothing else.
LEMMA WithoutProperties ==
  ASSUME NEW A, NEW seq \in Seq(A), NEW S
  PROVE  LET rest == Without(seq, S) IN
         /\ rest \in Seq(A)
         /\ {rest[k] : k \in DOMAIN rest} = {seq[k] : k \in DOMAIN seq} \ S
         /\ Distinct(seq) => Distinct(rest)
         /\ Len(rest) <= Len(seq)
<1> DEFINE stay    == {k \in DOMAIN seq : seq[k] \notin S}
           upto(k) == {j \in stay : j <= k}
           rank(k) == Cardinality(upto(k))
           N       == Cardinality(stay)
           nth(n)  == CHOOSE k \in stay : rank(k) = n
           rest    == Without(seq, S)
<1>1. /\ stay \subseteq 1..Len(seq) /\ Len(seq) \in Nat
      /\ DOMAIN seq = 1..Len(seq)
  OBVIOUS
<1>2. /\ IsFiniteSet(stay) /\ N \in Nat /\ N <= Len(seq)
      /\ \A T \in SUBSET stay : /\ IsFiniteSet(T) /\ Cardinality(T) \in Nat
                                /\ Cardinality(T) <= N
  <2>1. IsFiniteSet(1..Len(seq)) /\ Cardinality(1..Len(seq)) = Len(seq)
    <3>1. 1 \in Int /\ Len(seq) \in Int
      BY <1>1
    <3>2. /\ IsFiniteSet(1..Len(seq))
          /\ Cardinality(1..Len(seq)) =
               IF 1 > Len(seq) THEN 0 ELSE Len(seq) - 1 + 1
      BY <3>1, FS_Interval, Zenon
    <3> QED  BY <1>1, <3>2
  <2>2. IsFiniteSet(stay) /\ Cardinality(stay) <= Len(seq)
    BY <1>1, <2>1, FS_Subset
  <2> QED  BY <2>2, FS_Subset, FS_CardinalityType
<1>3. \A k \in stay : rank(k) \in 1..N
  <2> SUFFICES ASSUME NEW k \in stay PROVE rank(k) \in 1..N
    OBVIOUS
  <2>1. upto(k) \subseteq stay /\ k \in upto(k)
    BY <1>1
  <2>2. IsFiniteSet(upto(k)) /\ rank(k) \in Nat /\ rank(k) <= N
    BY <1>2, <2>1
  <2>3. rank(k) # 0
    BY <2>1, <2>2, FS_EmptySet
  <2> QED  BY <1>2, <2>2, <2>3
<1>4. \A j, k \in stay : rank(j) = rank(k) => j = k
  <2>1. ASSUME NEW j \in stay, NEW k \in stay, j < k PROVE rank(j) < rank(k)
    <3>1. upto(j) \subseteq upto(k) /\ k \in upto(k) /\ k \notin upto(j)
      BY <1>1, <2>1
    <3>2. IsFiniteSet(upto(k)) /\ upto(k) \subseteq stay /\ upto(j) \subseteq stay
      BY <1>2
    <3>3. rank(j) <= rank(k) /\ rank(j) # rank(k)
      BY <3>1, <3>2, FS_Subset
    <3>4. rank(j) \in Nat /\ rank(k) \in Nat
      BY <1>2, <3>2
    <3> QED  BY <3>3, <3>4
  <2>2. \A k \in stay : rank(k) \in Nat
    <3> HIDE DEF stay, rank, N
    <3> QED  BY <1>2, <1>3
  <2> HIDE DEF rank
  <2> QED  BY <1>1, <2>1, <2>2
<1>5. \A n \in 1..N : \E k \in stay : rank(k) = n
  <2> SUFFICES ASSUME NEW n \in 1..N, \A k \in stay : rank(k) # n
               PROVE  FALSE
    OBVIOUS
  <2> DEFINE T == (1..N) \ {n}
             f == [k \in stay |-> rank(k)]
  <2>1. IsFiniteSet(1..N) /\ Cardinality(1..N) = N
    BY <1>2, FS_Interval
  <2>2. IsFiniteSet(T) /\ Cardinality(T) = N - 1
    BY <2>1, FS_RemoveElement
  <2>3. f \in [stay -> T]
    BY <1>3
  <2>4. Cardinality(T) < Cardinality(stay)
    BY <1>2, <2>2
  <2>5. \E x, y \in stay : x # y /\ f[x] = f[y]
    <3> HIDE DEF T, f, stay
    <3> QED  BY <1>2, <2>2, <2>3, <2>4, FS_PigeonHole
  <2> QED  BY <1>4, <2>5
<1>6. /\ \A n \in 1..N : nth(n) \in stay /\ rank(nth(n)) = n
      /\ \A k \in stay : nth(rank(k)) = k
  <2>1. \A n \in 1..N : nth(n) \in stay /\ rank(nth(n)) = n
    <3> HIDE DEF stay, rank, N
    <3> QED  BY <1>5
  <2> HIDE DEF stay, rank, N, nth
  <2> QED  BY <1>3, <1>4, <2>1
<1>7. rest = [n \in 1..N |-> seq[nth(n)]]
  BY DEF Without
<1>8. rest \in Seq(A) /\ DOMAIN rest = 1..N /\ Len(rest) = N
  <2>1. \A n \in 1..N : seq[nth(n)] \in A
    <3>1. \A k \in stay : seq[k] \in A
      OBVIOUS
    <3> HIDE DEF nth, stay, N
    <3> QED  BY <1>6, <3>1
  <2> HIDE DEF nth, N, rest
  <2> QED  BY <1>2, <1>7, <2>1
<1>9. \A n \in DOMAIN rest : rest[n] = seq[nth(n)] /\ nth(n) \in stay
  BY <1>6, <1>7, <1>8
<1>10. {rest[k] : k \in DOMAIN rest} = {seq[k] : k \in DOMAIN seq} \ S
  <2>1. ASSUME NEW k \in stay PROVE \E n \in DOMAIN rest : rest[n] = seq[k]
    <3>1. rank(k) \in DOMAIN rest /\ nth(rank(k)) = k
      BY <1>3, <1>6, <1>8
    <3> HIDE DEF nth, rank, rest, stay
    <3> QED  BY <1>9, <3>1
  <2> HIDE DEF nth, rank, rest
  <2> QED  BY <1>9, <2>1
<1>11. Distinct(seq) => Distinct(rest)
  <2> SUFFICES ASSUME Distinct(seq), NEW i \in DOMAIN rest, NEW j \in DOMAIN rest,
                      rest[i] = rest[j]
               PROVE  i = j
    BY DEF Distinct
  <2>1. nth(i) = nth(j)
    <3> HIDE DEF nth, rest
    <3> QED  BY <1>9 DEF Distinct
  <2> HIDE DEF nth, rest, rank
  <2> QED  BY <1>6, <1>8, <2>1
<1>12. Len(rest) <= Len(seq)
  BY <1>2, <1>8
<1> HIDE DEF rest
<1> QED  BY <1>8, <1>10, <1>11, <1>12 DEF rest
----------------------------------------------------------------------------
(* Types.                                                                  *)

SlotType == [socket : Fds, state : {CLOSED, CONNECTED}]

\* What operator[], erase() and insertion leave in a map.
LEMMA MapTypes ==
  ASSUME NEW K, NEW V, NEW m, IsMapOf(m, K, V)
  PROVE  /\ \A k \in K, v \in V : IsMapOf(Put(m, k, v), K, V)
         /\ \A X : IsMapOf(EraseAll(m, X), K, V)
         /\ \A k : IsMapOf(Erase(m, k), K, V)
         /\ \A X \in SUBSET K, v \in V : IsMapOf(Touch(m, X, v), K, V)
         /\ \A k : \A v \in V : At(m, k, v) \in V
         /\ \A k \in DOMAIN m : k \in K /\ m[k] \in V
  BY DEF IsMapOf, Put, EraseAll, Erase, Touch, At

LEMMA DefaultTypes == Ghost \in PlayerType /\ EmptyRoom \in RoomType
<1>1. << >> \in Seq(Users)
  OBVIOUS
<1> QED
  BY <1>1, ConnsAssumption
     DEF Ghost, EmptyRoom, PlayerType, RoomType, NoSocket, NoRoom, NoConn

\* The same, of each of the maps.
LEMMA LobbyTypes ==
  ASSUME IsMapOf(lobby, Users, PlayerType)
  PROVE  /\ \A X \in SUBSET Users : IsMapOf(Players(X), Users, PlayerType)
         /\ \A u : Player(u) \in PlayerType
         /\ \A u : Player(u).room \in RoomIDs \union {NoRoom}
<1>1. \A X \in SUBSET Users : IsMapOf(Players(X), Users, PlayerType)
  BY MapTypes, DefaultTypes, Zenon DEF Players
<1>2. \A u : Player(u) \in PlayerType
  BY MapTypes, DefaultTypes, Zenon DEF Player
<1>3. \A u : Player(u).room \in RoomIDs \union {NoRoom}
  BY <1>2 DEF PlayerType
<1> QED  BY <1>1, <1>2, <1>3

LEMMA RoomTypes ==
  ASSUME IsMapOf(lobbyRooms, RoomIDs, RoomType)
  PROVE  \A r : /\ At(lobbyRooms, r, EmptyRoom) \in RoomType
                /\ Member(At(lobbyRooms, r, EmptyRoom)) \subseteq Users
                /\ r \in RoomIDs =>
                     IsMapOf(Touch(lobbyRooms, {r}, EmptyRoom), RoomIDs, RoomType)
<1>1. \A r : At(lobbyRooms, r, EmptyRoom) \in RoomType
  BY MapTypes, DefaultTypes, Zenon
<1>2. \A r : Member(At(lobbyRooms, r, EmptyRoom)) \subseteq Users
  BY <1>1 DEF Member, RoomType
<1>3. \A r \in RoomIDs : IsMapOf(Touch(lobbyRooms, {r}, EmptyRoom), RoomIDs, RoomType)
  <2>1. \A r \in RoomIDs : {r} \in SUBSET RoomIDs
    OBVIOUS
  <2> QED  BY <2>1, MapTypes, DefaultTypes, Zenon
<1> QED  BY <1>1, <1>2, <1>3

LEMMA MemberType == \A R \in RoomType : Member(R) \subseteq Users
  BY DEF RoomType, Member

\* Sending closes slots at most.
LEMMA SendType ==
  ASSUME slots \in Seq(SlotType), ub \in BOOLEAN, NEW S, Send(S)
  PROVE  /\ slots' \in Seq(SlotType) /\ ub' \in BOOLEAN
         /\ DOMAIN slots' = DOMAIN slots
         /\ \A i \in DOMAIN slots : slots'[i].socket = slots[i].socket
<1> DEFINE hit(i) == \E s \in Failing(S) : i \in FindSocketID(slots, s)
<1>1. slots' = [i \in DOMAIN slots |->
                  IF hit(i) THEN [slots[i] EXCEPT !.state = CLOSED] ELSE slots[i]]
  BY DEF Send
<1>2. ub' \in BOOLEAN
  BY DEF Send
<1> HIDE DEF hit
<1>3. DOMAIN slots' = DOMAIN slots /\ DOMAIN slots = 1..Len(slots)
  BY <1>1
<1>4. \A i \in DOMAIN slots : /\ slots'[i] \in SlotType
                             /\ slots'[i].socket = slots[i].socket
  <2> TAKE i \in DOMAIN slots
  <2>1. slots[i] \in SlotType
    OBVIOUS
  <2>2. slots'[i] = slots[i] \/ slots'[i] = [slots[i] EXCEPT !.state = CLOSED]
    BY <1>1
  <2> QED  BY <2>1, <2>2 DEF SlotType
<1>5. slots' \in Seq(SlotType)
  BY <1>1, <1>3, <1>4
<1> QED  BY <1>2, <1>3, <1>4, <1>5

MapTypeOK ==
    /\ IsMapOf(lobby, Users, PlayerType) /\ IsMapOf(game, Users, PlayerType)
    /\ IsMapOf(lobbyRooms, RoomIDs, RoomType)
    /\ IsMapOf(gameRooms, RoomIDs, RoomType)

TableTypeOK == slots \in Seq(SlotType) /\ ub \in BOOLEAN

KernelTypeOK ==
    /\ pc \in {"scan", "accept", "reap", "cleanup", "drive"}
    /\ cur \in Nat \ {0}
    /\ peer \in [Fds -> 0..MaxConns]
    /\ open \subseteq Fds /\ met \in 0..MaxConns /\ broken \subseteq 1..met
    /\ kids \in [Pids -> {"none", "running", "zombie"}]

LEMMA TypeGroups == TypeOK <=> MapTypeOK /\ TableTypeOK /\ KernelTypeOK
  BY DEF TypeOK, MapTypeOK, TableTypeOK, KernelTypeOK, SlotType

LEMMA SignedInType ==
  ASSUME MapTypeOK, NEW s
  PROVE  FindSignedInUID(s) \subseteq Users
  BY DEF MapTypeOK, IsMapOf, FindSignedInUID, Lowest

\* A request leaves maps of the right type.
LEMMA RequestMapType ==
  ASSUME MapTypeOK, KernelTypeOK, NEW s \in Fds, Request(s)
  PROVE  MapTypeOK'
<1> USE DEF MapTypeOK
<1>1. CASE Answer(s)
  BY <1>1 DEF Answer, maps
<1>2. CASE \E u \in Users : SIGN_IN(u, s)
  <2>1. PICK u \in Users : SIGN_IN(u, s)
    BY <1>2
  <2>2. CASE Answer(s)
    BY <2>2 DEF Answer, maps
  <2> DEFINE p == [socket |-> s, room |-> NoRoom, ready |-> FALSE, conn |-> peer[s]]
  <2>3. p \in PlayerType
    BY DEF PlayerType, KernelTypeOK, NoRoom
  <2>4. CASE lobby' = Put(lobby, u, p) /\ UNCHANGED <<game, lobbyRooms, gameRooms>>
    <3> HIDE DEF p
    <3> QED  BY <2>3, <2>4, MapTypes
  <2> QED  BY <2>1, <2>2, <2>4 DEF SIGN_IN
<1>3. \A u \in Users, X \in SUBSET Users :
        /\ IsMapOf(Players(X), Users, PlayerType)
        /\ Player(u) \in PlayerType
        /\ At(lobbyRooms, Player(u).room, EmptyRoom) \in RoomType
        /\ IsMapOf(RoomsWithout(u), RoomIDs, RoomType)
  <2> TAKE u \in Users, X \in SUBSET Users
  <2> DEFINE r == Player(u).room
             R == At(lobbyRooms, r, EmptyRoom)
             rest == Without(R.members, {u})
  <2>1. IsMapOf(Players(X), Users, PlayerType) /\ Player(u) \in PlayerType
    BY LobbyTypes
  <2>2. R \in RoomType /\ r \in RoomIDs \union {NoRoom}
    BY LobbyTypes, RoomTypes
  <2>3. [R EXCEPT !.members = rest] \in RoomType
    <3>1. rest \in Seq(Users)
      BY <2>2, WithoutProperties DEF RoomType
    <3> HIDE DEF rest, R
    <3> QED  BY <2>2, <3>1 DEF RoomType
  <2>4. IsMapOf(RoomsWithout(u), RoomIDs, RoomType)
    BY <2>2, <2>3, MapTypes, DefaultTypes DEF RoomsWithout
  <2> QED  BY <2>1, <2>2, <2>4
<1>4. ASSUME NEW u \in Users, AnswerTo(u, s) PROVE MapTypeOK'
  BY <1>3, <1>4 DEF AnswerTo
<1>5. ASSUME NEW u \in Users, NEW X \in SUBSET Users, u \in X, NEW r \in RoomIDs
      PROVE  IsMapOf([Players(X) EXCEPT ![u].room = r], Users, PlayerType)
  <2>1. IsMapOf(Players(X), Users, PlayerType) /\ u \in DOMAIN Players(X)
    BY <1>3, <1>5 DEF Players, Touch
  <2> QED  BY <2>1 DEF IsMapOf, PlayerType
<1>6. CASE \E r \in RoomIDs, type \in GameTypes : CREATE_ROOM(r, type, s)
  <2>1. PICK r \in RoomIDs, type \in GameTypes, u \in Users :
           \/ AnswerTo(u, s)
           \/ /\ lobbyRooms' = Put(RoomsWithout(u), r,
                     [members |-> <<u>>, type |-> type, pid |-> 0])
              /\ lobby' = [Players({u}) EXCEPT ![u].room = r]
              /\ UNCHANGED <<game, gameRooms>>
    BY <1>6, SignedInType DEF CREATE_ROOM
  <2>2. [members |-> <<u>>, type |-> type, pid |-> 0] \in RoomType
    BY DEF RoomType
  <2>3. CASE UNCHANGED <<game, gameRooms>>
             /\ lobbyRooms' = Put(RoomsWithout(u), r,
                     [members |-> <<u>>, type |-> type, pid |-> 0])
             /\ lobby' = [Players({u}) EXCEPT ![u].room = r]
    <3>1. IsMapOf(lobbyRooms', RoomIDs, RoomType)
      BY <1>3, <2>2, <2>3, MapTypes
    <3>2. IsMapOf(lobby', Users, PlayerType)
      BY <1>5, <2>3
    <3> QED  BY <2>3, <3>1, <3>2
  <2> QED  BY <1>4, <2>1, <2>3
<1>7. CASE \E r \in RoomIDs : ROOM(r, s)
  <2>1. PICK r \in RoomIDs, u \in Users :
           \/ AnswerTo(u, s)
           \/ /\ u \notin Member(At(lobbyRooms, r, EmptyRoom))
              /\ Len(At(lobbyRooms, r, EmptyRoom).members)
                   < Capacity(At(lobbyRooms, r, EmptyRoom).type)
              /\ lobbyRooms' = [lobbyRooms EXCEPT ![r].members = Append(@, u)]
              /\ lobby' = [Players(Member(At(lobbyRooms, r, EmptyRoom)) \union {u})
                             EXCEPT ![u].room = r]
              /\ UNCHANGED <<game, gameRooms>>
    BY <1>7, SignedInType DEF ROOM
  <2>2. CASE UNCHANGED <<game, gameRooms>>
             /\ lobbyRooms' = [lobbyRooms EXCEPT ![r].members = Append(@, u)]
             /\ lobby' = [Players(Member(At(lobbyRooms, r, EmptyRoom)) \union {u})
                             EXCEPT ![u].room = r]
    <3>1. Member(At(lobbyRooms, r, EmptyRoom)) \subseteq Users
      BY RoomTypes
    <3>2. IsMapOf(lobby', Users, PlayerType)
      BY <1>5, <2>2, <3>1
    <3>3. IsMapOf(lobbyRooms', RoomIDs, RoomType)
      <4>1. \A q \in DOMAIN lobbyRooms :
               /\ lobbyRooms[q] \in RoomType
               /\ Append(lobbyRooms[q].members, u) \in Seq(Users)
        BY DEF IsMapOf, RoomType
      <4>2. \A q \in DOMAIN lobbyRooms :
               [lobbyRooms[q] EXCEPT !.members = Append(@, u)] \in RoomType
        BY <4>1 DEF RoomType
      <4> QED  BY <2>2, <4>1, <4>2 DEF IsMapOf
    <3> QED  BY <2>2, <3>2, <3>3
  <2> QED  BY <1>4, <2>1, <2>2
<1>8. CASE \E state \in BOOLEAN : READY(state, s)
  <2> DEFINE RoomOf(u) == At(lobbyRooms, Player(u).room, EmptyRoom)
  <2>1. PICK state \in BOOLEAN, u \in Users :
           \/ AnswerTo(u, s)
           \/ /\ Player(u).room # NoRoom
              /\ lobbyRooms' = Touch(lobbyRooms, {Player(u).room}, EmptyRoom)
              /\ lobby' = [Players(Member(RoomOf(u)) \union {u}) EXCEPT ![u].ready = state]
              /\ UNCHANGED <<game, gameRooms>>
    BY <1>8, SignedInType DEF READY
  <2>2. CASE /\ Player(u).room # NoRoom
             /\ lobbyRooms' = Touch(lobbyRooms, {Player(u).room}, EmptyRoom)
             /\ lobby' = [Players(Member(RoomOf(u)) \union {u}) EXCEPT ![u].ready = state]
             /\ UNCHANGED <<game, gameRooms>>
    <3>1. Member(RoomOf(u)) \union {u} \subseteq Users
      BY <1>3, MemberType
    <3>2. IsMapOf(Players(Member(RoomOf(u)) \union {u}), Users, PlayerType)
      BY <1>3, <3>1
    <3>3. IsMapOf(lobby', Users, PlayerType)
      <4> DEFINE P == Players(Member(RoomOf(u)) \union {u})
      <4>1. \A q \in DOMAIN P : [P[q] EXCEPT !.ready = state] \in PlayerType
        <5> HIDE DEF P
        <5> QED  BY <3>2 DEF IsMapOf, PlayerType, P
      <4> HIDE DEF P
      <4> QED  BY <2>2, <3>2, <4>1 DEF IsMapOf, P
    <3>4. Player(u).room \in RoomIDs
      BY <1>3, <2>2 DEF PlayerType
    <3>5. IsMapOf(lobbyRooms', RoomIDs, RoomType)
      BY <2>2, <3>4, MapTypes, DefaultTypes
    <3> QED  BY <2>2, <3>3, <3>5
  <2> QED  BY <1>4, <2>1, <2>2
<1>9. CASE QUIT_LOBBY(s)
  <2>1. PICK u \in Users : /\ lobbyRooms' = RoomsWithout(u)
                           /\ lobby' = Erase(lobby, u)
                           /\ game' = game \/ game' = Erase(game, u)
                           /\ gameRooms' = gameRooms
    <3>1. PICK u \in Users : /\ lobbyRooms' = RoomsWithout(u)
                             /\ lobby' = Erase(lobby, u)
                             /\ game' = IF u \in DOMAIN lobby THEN game
                                        ELSE Erase(game, u)
                             /\ gameRooms' = gameRooms
      BY <1>9, SignedInType DEF QUIT_LOBBY
    <3> QED  BY <3>1
  <2>2. /\ IsMapOf(Erase(lobby, u), Users, PlayerType)
        /\ IsMapOf(Erase(game, u), Users, PlayerType)
    BY MapTypes, Zenon
  <2> QED  BY <1>3, <2>1, <2>2
<1> QED  BY <1>1, <1>2, <1>6, <1>7, <1>8, <1>9 DEF Request

LEMMA RequestSends ==
  ASSUME NEW s, Request(s)
  PROVE  \E S : Send(S)
<1>1. CASE Answer(s) \/ \E u : AnswerTo(u, s)
  BY <1>1 DEF Answer, AnswerTo
<1>2. CASE \E u \in Users : SIGN_IN(u, s)
  BY <1>1, <1>2, Zenon DEF SIGN_IN
<1>3. CASE \E r \in RoomIDs, type \in GameTypes : CREATE_ROOM(r, type, s)
  BY <1>1, <1>3, Zenon DEF CREATE_ROOM
<1>4. CASE \E r \in RoomIDs : ROOM(r, s)
  BY <1>1, <1>4, Zenon DEF ROOM
<1>5. CASE \E state \in BOOLEAN : READY(state, s)
  BY <1>1, <1>5, Zenon DEF READY
<1>6. CASE QUIT_LOBBY(s)
  BY <1>6, Zenon DEF QUIT_LOBBY
<1> QED  BY <1>1, <1>2, <1>3, <1>4, <1>5, <1>6 DEF Request

\* A room that returns from its game.
LEMMA GameOverType ==
  ASSUME MapTypeOK, NEW r \in DOMAIN gameRooms, GameOver(r)
  PROVE  MapTypeOK'
<1> DEFINE R       == gameRooms[r]
           mem     == Member(R)
           back(u) == [At(game, u, Ghost) EXCEPT !.ready = FALSE]
           sockets == {back(u).socket : u \in mem}
           told    == {u \in mem : /\ LiveSocket(back(u).socket)
                                   /\ back(u).socket \notin Failing(sockets)}
<1>1. /\ gameRooms' = Erase(gameRooms, r)
      /\ lobbyRooms' = Put(lobbyRooms, r, [R EXCEPT !.pid = 0])
      /\ game' = EraseAll(game, mem)
      /\ lobby' = [u \in (DOMAIN lobby \ mem) \union told |->
                     IF u \in told THEN back(u) ELSE lobby[u]]
  BY DEF GameOver
<1>2. R \in RoomType /\ mem \subseteq Users /\ r \in RoomIDs
  BY MemberType DEF MapTypeOK, IsMapOf
<1>3. IsMapOf(gameRooms', RoomIDs, RoomType) /\ IsMapOf(game', Users, PlayerType)
  BY <1>1, MapTypes, Zenon DEF MapTypeOK
<1>4. IsMapOf(lobbyRooms', RoomIDs, RoomType)
  <2>1. [R EXCEPT !.pid = 0] \in RoomType
    BY <1>2 DEF RoomType
  <2>2. IsMapOf(Put(lobbyRooms, r, [R EXCEPT !.pid = 0]), RoomIDs, RoomType)
    BY <1>2, <2>1, MapTypes DEF MapTypeOK
  <2> QED  BY <1>1, <2>2
<1>5. IsMapOf(lobby', Users, PlayerType)
  <2>1. \A u : back(u) \in PlayerType
    <3>1. \A u : At(game, u, Ghost) \in PlayerType
      BY MapTypes, DefaultTypes, Zenon DEF MapTypeOK
    <3> QED  BY <3>1 DEF PlayerType
  <2>2. told \subseteq Users
    BY <1>2
  <2> HIDE DEF back, told, mem
  <2> QED  BY <1>1, <2>1, <2>2 DEF MapTypeOK, IsMapOf
<1> QED  BY <1>3, <1>4, <1>5 DEF MapTypeOK

LEMMA CleanupType ==
  ASSUME MapTypeOK, Cleanup
  PROVE  MapTypeOK'
<1> DEFINE gone(r) == {u \in Dropped : lobby[u].room = r}
           rest(r) == Without(lobbyRooms[r].members, gone(r))
           kept    == {r \in DOMAIN lobbyRooms : gone(r) = {} \/ rest(r) # << >>}
<1>1. /\ lobby' = EraseAll(lobby, Dropped)
      /\ lobbyRooms' = [r \in kept |-> [lobbyRooms[r] EXCEPT !.members = rest(r)]]
      /\ UNCHANGED <<game, gameRooms>>
  BY DEF Cleanup
<1>2. \A r \in DOMAIN lobbyRooms : rest(r) \in Seq(Users)
  BY WithoutProperties DEF MapTypeOK, IsMapOf, RoomType
<1>3. IsMapOf(lobby', Users, PlayerType)
  BY <1>1, MapTypes, Zenon DEF MapTypeOK
<1>4. IsMapOf(lobbyRooms', RoomIDs, RoomType)
  <2> HIDE DEF rest
  <2>1. \A r \in DOMAIN lobbyRooms : [lobbyRooms[r] EXCEPT !.members = rest(r)] \in RoomType
    BY <1>2 DEF MapTypeOK, IsMapOf, RoomType
  <2>2. DOMAIN lobbyRooms \subseteq RoomIDs /\ kept \subseteq DOMAIN lobbyRooms
    BY DEF MapTypeOK, IsMapOf
  <2> HIDE DEF kept
  <2> QED  BY <1>1, <2>1, <2>2 DEF IsMapOf
<1> QED  BY <1>1, <1>3, <1>4 DEF MapTypeOK

\* GetReadyRoom reads members of rooms.
LEMMA InspectedType ==
  ASSUME MapTypeOK
  PROVE  Inspected \subseteq Users
<1>1. \A r \in DOMAIN lobbyRooms : Member(lobbyRooms[r]) \subseteq Users
  BY MemberType DEF MapTypeOK, IsMapOf
<1>2. \A u \in Inspected : \E r \in DOMAIN lobbyRooms : u \in Member(lobbyRooms[r])
  BY DEF Inspected, Member
<1> QED  BY <1>1, <1>2

LEMMA LaunchType ==
  ASSUME MapTypeOK, NEW r \in RoomIDs, NEW pid \in Pids, Launch(r, pid)
  PROVE  MapTypeOK'
<1> DEFINE R       == lobbyRooms[r]
           mem     == Member(R)
           players == Players(Inspected)
<1>1. /\ lobbyRooms' = Erase(lobbyRooms, r)
      /\ gameRooms' = Put(gameRooms, r, [R EXCEPT !.pid = pid])
      /\ lobby' = EraseAll(players, mem)
      /\ game' = [u \in DOMAIN game \union mem |->
                    IF u \in mem THEN players[u] ELSE game[u]]
  BY DEF Launch
<1>2. r \in DOMAIN lobbyRooms /\ AllReady(R)
  BY DEF Launch, Lowest, ReadyRooms
<1>3. R \in RoomType /\ mem \subseteq Users /\ mem \subseteq DOMAIN lobby
  BY <1>2, MemberType DEF MapTypeOK, IsMapOf, AllReady, ReadyUser
<1>4. IsMapOf(players, Users, PlayerType)
  BY InspectedType, LobbyTypes DEF MapTypeOK
<1>5. IsMapOf(lobby', Users, PlayerType) /\ IsMapOf(lobbyRooms', RoomIDs, RoomType)
  <2> HIDE DEF players
  <2> QED  BY <1>1, <1>4, MapTypes, Zenon DEF MapTypeOK
<1>6. IsMapOf(gameRooms', RoomIDs, RoomType)
  <2>1. [R EXCEPT !.pid = pid] \in RoomType
    BY <1>3 DEF RoomType
  <2>2. IsMapOf(Put(gameRooms, r, [R EXCEPT !.pid = pid]), RoomIDs, RoomType)
    BY <2>1, MapTypes DEF MapTypeOK
  <2> QED  BY <1>1, <2>2
<1>7. IsMapOf(game', Users, PlayerType)
  <2>1. mem \subseteq DOMAIN players
    BY <1>3 DEF Players, Touch
  <2> HIDE DEF players, mem
  <2> QED  BY <1>1, <1>3, <1>4, <2>1 DEF MapTypeOK, IsMapOf
<1> QED  BY <1>5, <1>6, <1>7 DEF MapTypeOK

\* Every step keeps the types.
LEMMA TypeStep == TypeOK /\ [Next]_vars => TypeOK'
<1> SUFFICES ASSUME MapTypeOK, TableTypeOK, KernelTypeOK, [Next]_vars
             PROVE  MapTypeOK' /\ TableTypeOK' /\ KernelTypeOK'
  BY DEF TypeOK, MapTypeOK, TableTypeOK, KernelTypeOK, SlotType
<1> USE DEF TableTypeOK, KernelTypeOK
<1>1. ASSUME UNCHANGED maps PROVE MapTypeOK'
  BY <1>1 DEF MapTypeOK, maps
<1>2. CASE ScanSkip \/ ScanEnd \/ AcceptNone \/ ReapEnd \/ UNCHANGED vars
  <2>1. UNCHANGED <<slots, maps, kernel, broken, kids, ub>> /\ cur' \in Nat \ {0}
        /\ pc' \in {"scan", "accept", "reap", "cleanup", "drive"}
    BY <1>2 DEF ScanSkip, ScanEnd, AcceptNone, ReapEnd, vars, NextSlot
  <2> QED  BY <1>1, <2>1 DEF kernel
<1>3. CASE ScanMessage
  <2>1. /\ Request(slots[cur].socket) /\ cur \in DOMAIN slots
        /\ UNCHANGED <<kernel, broken, kids>>
        /\ pc' = "scan" /\ cur' = cur + 1
    BY <1>3 DEF ScanMessage, Readable, NextSlot
  <2>2. slots[cur].socket \in Fds
    <3>1. slots[cur] \in SlotType
      BY <2>1
    <3> QED  BY <3>1 DEF SlotType
  <2>3. MapTypeOK'
    BY <2>1, <2>2, RequestMapType
  <2>4. TableTypeOK'
    BY <2>1, RequestSends, SendType
  <2> QED  BY <2>1, <2>3, <2>4 DEF kernel
<1>4. CASE ScanError
  <2>1. /\ cur \in DOMAIN slots /\ slots' = [slots EXCEPT ![cur].state = CLOSED]
        /\ open' = open \ {slots[cur].socket}
        /\ UNCHANGED <<maps, peer, met, broken, kids, ub>>
        /\ pc' = "scan" /\ cur' = cur + 1
    BY <1>4 DEF ScanError, Readable, CloseClient, NextSlot
  <2>2. slots' \in Seq(SlotType)
    <3>1. [slots[cur] EXCEPT !.state = CLOSED] \in SlotType
      <4>1. slots[cur] \in SlotType
        BY <2>1
      <4> QED  BY <4>1 DEF SlotType
    <3>2. slots' = [slots EXCEPT ![cur] = [slots[cur] EXCEPT !.state = CLOSED]]
      BY <2>1
    <3> QED  BY <2>1, <3>1, <3>2
  <2> QED  BY <1>1, <2>1, <2>2
<1>5. CASE Accept
  <2>1. PICK fd \in Fds, i \in FreeSlot(slots) :
           /\ slots' = PutSlot(slots, i, [socket |-> fd, state |-> CONNECTED])
           /\ peer' = [peer EXCEPT ![fd] = met + 1]
           /\ open' = open \union {fd}
    BY <1>5 DEF Accept
  <2>2. /\ UNCHANGED <<maps, cur, broken, kids, ub>> /\ pc' = "reap"
        /\ met' = met + 1 /\ met < MaxConns
    BY <1>5 DEF Accept
  <2>3. slots' \in Seq(SlotType)
    <3> DEFINE new == [socket |-> fd, state |-> CONNECTED]
    <3>1. new \in SlotType /\ i \in 1..(Len(slots) + 1)
      BY <2>1 DEF SlotType, FreeSlot
    <3>2. CASE i <= Len(slots)
      <4>1. slots' = [slots EXCEPT ![i] = new]
        BY <2>1, <3>2 DEF PutSlot
      <4> HIDE DEF new
      <4> QED  BY <3>1, <3>2, <4>1
    <3>3. CASE i > Len(slots)
      <4>1. slots' = Append(slots, new)
        BY <2>1, <3>1, <3>3 DEF PutSlot
      <4> HIDE DEF new
      <4> QED  BY <3>1, <4>1
    <3> QED  BY <3>1, <3>2, <3>3
  <2>4. peer' \in [Fds -> 0..MaxConns] /\ met' \in 0..MaxConns
    BY <2>1, <2>2, ConnsAssumption
  <2>5. broken' \subseteq 1..met'
    BY <2>2
  <2> QED  BY <1>1, <2>1, <2>2, <2>3, <2>4, <2>5
<1>6. CASE \E r \in RoomIDs : Reap(r)
  <2>1. PICK r \in RoomIDs : /\ r \in Over /\ GameOver(r)
                             /\ kids' = [kids EXCEPT ![gameRooms[r].pid] = "none"]
                             /\ UNCHANGED <<pc, cur, kernel, broken>>
    BY <1>6 DEF Reap, Lowest
  <2>2. MapTypeOK'
    BY <2>1, GameOverType DEF Over
  <2>3. TableTypeOK'
    <3>1. \E S : Send(S)
      BY <2>1, Zenon DEF GameOver
    <3> QED  BY <3>1, SendType
  <2> QED  BY <2>1, <2>2, <2>3 DEF kernel
<1>7. CASE Cleanup
  <2>1. /\ UNCHANGED <<slots, cur, kernel, broken, kids, ub>> /\ pc' = "drive"
    BY <1>7 DEF Cleanup
  <2> QED  BY <1>7, <2>1, CleanupType DEF kernel
<1>8. CASE DriveNone
  <2>1. /\ lobby' = Players(Inspected) /\ pc' = "scan"
        /\ UNCHANGED <<slots, game, lobbyRooms, gameRooms, cur, kernel, broken, kids, ub>>
    BY <1>8 DEF DriveNone
  <2> QED  BY <2>1, InspectedType, LobbyTypes DEF kernel, MapTypeOK
<1>9. CASE \E r \in RoomIDs, pid \in Pids : Launch(r, pid)
  <2>1. PICK r \in RoomIDs, pid \in Pids : Launch(r, pid)
    BY <1>9
  <2>2. /\ kids' = [kids EXCEPT ![pid] = "running"] /\ pc' = "scan"
        /\ UNCHANGED <<cur, kernel, broken>>
    BY <2>1 DEF Launch
  <2>3. TableTypeOK'
    <3>1. \E S : Send(S)
      BY <2>1, Zenon DEF Launch
    <3> QED  BY <3>1, SendType
  <2> QED  BY <2>1, <2>2, <2>3, LaunchType DEF kernel
<1>10. CASE EnvStep
  <2>1. /\ UNCHANGED <<slots, maps, pc, cur, kernel, ub>>
        /\ kids' \in [Pids -> {"none", "running", "zombie"}] /\ broken' \subseteq 1..met
    BY <1>10 DEF EnvStep, GameEnds, Break
  <2> QED  BY <1>1, <2>1 DEF kernel
<1> QED  BY <1>2, <1>3, <1>4, <1>5, <1>6, <1>7, <1>8, <1>9, <1>10 DEF Next, ServerStep

LEMMA TypeInit == Init => TypeOK
<1> SUFFICES ASSUME Init PROVE TypeOK
  OBVIOUS
<1> USE DEF Init
<1>1. \A K, V : IsMapOf(EmptyMap, K, V)
  BY DEF IsMapOf, EmptyMap
<1>2. MapTypeOK
  BY <1>1 DEF MapTypeOK
<1>3. TableTypeOK
  <2>1. << >> \in Seq(SlotType)
    OBVIOUS
  <2> QED  BY <2>1 DEF TableTypeOK
<1>4. KernelTypeOK
  BY ConnsAssumption DEF KernelTypeOK, NoConn
<1> QED  BY <1>2, <1>3, <1>4, TypeGroups

\* Every variable of the lobby keeps its type, whatever clients and the network do:
\* none of the look-ups that insert (operator[]) puts a foreign value in a map.
THEOREM TypeCorrect == Spec => []TypeOK
<1> QED  BY TypeInit, TypeStep, PTL DEF Spec
----------------------------------------------------------------------------
(* Rooms in a game and the game processes.                                 *)

\* A room in a game has the pid fork() returned.
HasPid == \A r \in DOMAIN gameRooms : gameRooms[r].pid \in Pids

GameInv == TypeOK /\ HasPid /\ RoomHasGame

LEMMA RequestRooms ==
  ASSUME NEW s, Request(s)
  PROVE  gameRooms' = gameRooms
  BY DEF Request, Answer, AnswerTo, SIGN_IN, CREATE_ROOM, ROOM, READY,
         QUIT_LOBBY, maps

\* A step takes a room back when its game is over, launches a room with a process
\* that is not in use, or leaves rooms in games as they are.
LEMMA GameRoomShape ==
  ASSUME TypeOK, [Next]_vars
  PROVE  \/ \E r \in Over : /\ gameRooms' = Erase(gameRooms, r)
                             /\ kids' = [kids EXCEPT ![gameRooms[r].pid] = "none"]
         \/ \E r \in DOMAIN lobbyRooms, pid \in Pids :
               /\ kids[pid] = "none"
               /\ kids' = [kids EXCEPT ![pid] = "running"]
               /\ gameRooms' = Put(gameRooms, r, [lobbyRooms[r] EXCEPT !.pid = pid])
               /\ lobbyRooms' = Erase(lobbyRooms, r)
         \/ /\ gameRooms' = gameRooms
            /\ kids' = kids \/ \E pid \in Pids :
                  kids[pid] = "running" /\ kids' = [kids EXCEPT ![pid] = "zombie"]
<1>1. CASE UNCHANGED <<gameRooms, kids>>
  BY <1>1
<1>2. CASE ScanSkip \/ ScanError \/ ScanEnd \/ AcceptNone \/ Accept \/ ReapEnd
           \/ Cleanup \/ DriveNone \/ UNCHANGED vars
  BY <1>1, <1>2 DEF ScanSkip, ScanError, ScanEnd, AcceptNone, Accept, ReapEnd,
                   Cleanup, DriveNone, vars, maps
<1>3. CASE ScanMessage
  BY <1>1, <1>3, RequestRooms DEF ScanMessage
<1>4. CASE \E r \in RoomIDs : Reap(r)
  BY <1>4 DEF Reap, GameOver, Lowest
<1>5. CASE \E r \in RoomIDs, pid \in Pids : Launch(r, pid)
  BY <1>5 DEF Launch, Lowest, ReadyRooms
<1>6. CASE EnvStep
  BY <1>6 DEF EnvStep, GameEnds, Break, maps
<1> QED  BY <1>2, <1>3, <1>4, <1>5, <1>6 DEF Next, ServerStep

LEMMA GameStep == GameInv /\ [Next]_vars => GameInv'
<1> SUFFICES ASSUME GameInv, [Next]_vars PROVE HasPid' /\ RoomHasGame'
  BY TypeStep DEF GameInv
<1>1. /\ kids \in [Pids -> {"none", "running", "zombie"}]
      /\ \A r \in DOMAIN gameRooms : gameRooms[r].pid \in Pids
  BY DEF GameInv, TypeOK, HasPid
<1>2. CASE \E r \in Over : /\ gameRooms' = Erase(gameRooms, r)
                            /\ kids' = [kids EXCEPT ![gameRooms[r].pid] = "none"]
  <2>1. PICK r \in Over : /\ gameRooms' = Erase(gameRooms, r)
                          /\ kids' = [kids EXCEPT ![gameRooms[r].pid] = "none"]
    BY <1>2
  <2>2. /\ r \in DOMAIN gameRooms /\ DOMAIN gameRooms' = DOMAIN gameRooms \ {r}
        /\ \A q \in DOMAIN gameRooms' : gameRooms'[q] = gameRooms[q]
    BY <2>1 DEF Over, Erase, EraseAll
  <2>3. \A q \in DOMAIN gameRooms' : kids'[gameRooms[q].pid] = kids[gameRooms[q].pid]
    BY <1>1, <2>1, <2>2 DEF GameInv, RoomHasGame
  <2> QED  BY <1>1, <2>2, <2>3 DEF HasPid, GameInv, RoomHasGame
<1>3. CASE \E r \in DOMAIN lobbyRooms, pid \in Pids :
             /\ kids[pid] = "none"
             /\ kids' = [kids EXCEPT ![pid] = "running"]
             /\ gameRooms' = Put(gameRooms, r, [lobbyRooms[r] EXCEPT !.pid = pid])
  <2>1. PICK r \in DOMAIN lobbyRooms, pid \in Pids :
             /\ kids[pid] = "none"
             /\ kids' = [kids EXCEPT ![pid] = "running"]
             /\ gameRooms' = Put(gameRooms, r, [lobbyRooms[r] EXCEPT !.pid = pid])
    BY <1>3
  <2>2. /\ DOMAIN gameRooms' = DOMAIN gameRooms \union {r}
        /\ gameRooms'[r].pid = pid
        /\ \A q \in DOMAIN gameRooms \ {r} : gameRooms'[q] = gameRooms[q]
    <3>1. lobbyRooms[r] \in RoomType
      BY DEF GameInv, TypeOK, IsMapOf
    <3>2. [lobbyRooms[r] EXCEPT !.pid = pid].pid = pid
      BY <3>1 DEF RoomType
    <3> QED  BY <2>1, <3>2 DEF Put
  <2>3. \A q \in DOMAIN gameRooms : gameRooms[q].pid # pid
    BY <2>1 DEF GameInv, RoomHasGame
  <2>4. \A p \in Pids : kids'[p] = IF p = pid THEN "running" ELSE kids[p]
    BY <1>1, <2>1
  <2> QED  BY <1>1, <2>2, <2>3, <2>4 DEF HasPid, GameInv, RoomHasGame
<1>4. CASE /\ gameRooms' = gameRooms
           /\ kids' = kids \/ \E pid \in Pids :
                 kids[pid] = "running" /\ kids' = [kids EXCEPT ![pid] = "zombie"]
  <2>1. \A p \in Pids : kids[p] # "none" => kids'[p] # "none"
    BY <1>1, <1>4
  <2> QED  BY <1>1, <1>4, <2>1 DEF HasPid, GameInv, RoomHasGame
<1> QED  BY <1>2, <1>3, <1>4, GameRoomShape DEF GameInv

LEMMA GameInvInvariant == Spec => []GameInv
<1>1. Init => GameInv
  BY TypeInit DEF Init, GameInv, HasPid, RoomHasGame, EmptyMap
<1> QED  BY <1>1, GameStep, PTL DEF Spec

\* Whatever clients and the network do, a room in a game has a process that
\* waitpid() can still report, and one of its own.
THEOREM RoomHasGameHolds == Spec => []RoomHasGame
<1>1. GameInv => RoomHasGame
  BY DEF GameInv
<1> QED  BY <1>1, GameInvInvariant, PTL

\* One step of GameReadsAlone.
LeavesGamesAlone ==
    \A u \in DOMAIN game :
       /\ game[u].socket \in open => game[u].socket \in open'
       /\ pc = "scan" /\ cur \in DOMAIN slots /\ slots[cur].socket = game[u].socket
            => maps' = maps

LEMMA AloneStep == [Next]_vars => LeavesGamesAlone
<1> SUFFICES ASSUME [Next]_vars, NEW u \in DOMAIN game
             PROVE  /\ game[u].socket \in open => game[u].socket \in open'
                    /\ pc = "scan" /\ cur \in DOMAIN slots
                         /\ slots[cur].socket = game[u].socket => maps' = maps
  BY DEF LeavesGamesAlone
<1>1. Readable => slots[cur].socket # game[u].socket
  BY DEF Readable, ShouldReceiveData
<1>2. CASE ScanMessage \/ ScanError
  BY <1>1, <1>2 DEF ScanMessage, ScanError, CloseClient, kernel
<1>3. CASE UNCHANGED <<open, maps>>
  BY <1>3
<1>4. CASE ScanSkip \/ ScanEnd \/ AcceptNone \/ ReapEnd \/ EnvStep \/ UNCHANGED vars
  BY <1>3, <1>4 DEF ScanSkip, ScanEnd, AcceptNone, ReapEnd, EnvStep, GameEnds,
                   Break, vars, kernel
<1>5. CASE Accept
  BY <1>5 DEF Accept
<1>6. CASE Cleanup \/ DriveNone \/ (\E r \in RoomIDs : Reap(r))
           \/ \E r \in RoomIDs, pid \in Pids : Launch(r, pid)
  BY <1>6 DEF Cleanup, DriveNone, Reap, Launch, In, kernel
<1> QED  BY <1>2, <1>4, <1>5, <1>6 DEF Next, ServerStep

\* While a user is in a game the lobby server neither reads nor closes its
\* connection, in any state and whatever happens: the game process reads alone.
THEOREM GameReadsAloneHolds == Spec => GameReadsAlone
<1>1. [Next]_vars => [LeavesGamesAlone]_vars
  BY AloneStep
<1> QED  BY <1>1, PTL DEF Spec, GameReadsAlone, LeavesGamesAlone
----------------------------------------------------------------------------
(* Orderly clients: what holds of seats, sessions and rooms, for any number *)
(* of users, connections, rooms and processes.  A client may sign in as     *)
(* several users, and its connection may break just before it is read; it   *)
(* does not join a room while it is in another, nor create a room with the  *)
(* number of one in a game, and the slot of a dropped player is not taken   *)
(* before the server has looked at it.                                      *)

Orderly == Env \subseteq {"drop", "multi_signin"}

Live(i) == slots[i].state = CONNECTED

\* A live slot holds an open descriptor, and is the first to carry it.
Integrity ==
    \A i \in DOMAIN slots : Live(i) =>
        /\ slots[i].socket \in open
        /\ \A j \in 1..(i - 1) : slots[j].socket # slots[i].socket

\* Open descriptors are of different connections, all accepted.
OwnConn == /\ \A f \in Fds : peer[f] <= met
           /\ \A f, g \in open : peer[f] = peer[g] => f = g

\* A live connection that broke is the one that is about to be read.
Served ==
    \A i \in DOMAIN slots : Live(i) /\ peer[slots[i].socket] \in broken
        => pc = "scan" /\ i = cur /\ ShouldReceiveData(slots[i].socket)

\* A player's socket is of the connection it signed in over and has its slot, live
\* but for lobby players dropped in this turn of the loop.
Sessions ==
    /\ \A u \in DOMAIN lobby :
          /\ peer[lobby[u].socket] = lobby[u].conn
          /\ \E i \in FindSocketID(slots, lobby[u].socket) : Live(i) \/ pc # "drive"
    /\ \A u \in DOMAIN game :
          /\ peer[game[u].socket] = game[u].conn
          /\ \E i \in FindSocketID(slots, game[u].socket) : Live(i)

\* Players P and rooms Rs agree on who sits where.
Seats(P, Rs) ==
    /\ \A r \in DOMAIN Rs : \A u \in Member(Rs[r]) : u \in DOMAIN P /\ P[u].room = r
    /\ \A u \in DOMAIN P : P[u].room # NoRoom =>
          P[u].room \in DOMAIN Rs /\ u \in Member(Rs[P[u].room])

Limit(R) == /\ R.members # << >> /\ Distinct(R.members)
            /\ Len(R.members) <= IF R.type = GOBANG THEN 2 ELSE 1

Limits == /\ \A r \in DOMAIN lobbyRooms : Limit(lobbyRooms[r])
          /\ \A r \in DOMAIN gameRooms : Limit(gameRooms[r]) /\ Full(gameRooms[r])

TableInv == Integrity /\ OwnConn /\ Served
SeatInv  == Seats(lobby, lobbyRooms) /\ Seats(game, gameRooms) /\ Limits /\ OneSide

\* The inductive invariant.
LobbyInv == /\ GameInv /\ ~ub /\ TableInv /\ Sessions /\ SeatInv /\ GameHasRoom
----------------------------------------------------------------------------
(* Seats, whatever players and rooms they are of.                          *)

\* The rooms L are the rooms Rs without the members of D; those left empty are gone.
Left(L, Rs, D) ==
    /\ DOMAIN L \subseteq DOMAIN Rs
    /\ \A r \in DOMAIN L : Member(L[r]) = Member(Rs[r]) \ D
    /\ \A r \in DOMAIN Rs \ DOMAIN L : Member(Rs[r]) \subseteq D

LEMMA SeatsLeft ==
  ASSUME NEW P, NEW Rs, NEW D, NEW L, Seats(P, Rs), Left(L, Rs, D)
  PROVE  Seats(EraseAll(P, D), L)
<1> DEFINE Q == EraseAll(P, D)
<1>1. DOMAIN Q = DOMAIN P \ D /\ \A u \in DOMAIN Q : Q[u] = P[u]
  BY DEF EraseAll
<1> HIDE DEF Q
<1>2. ASSUME NEW r \in DOMAIN L, NEW u \in Member(L[r])
      PROVE  u \in DOMAIN Q /\ Q[u].room = r
  BY <1>1, <1>2 DEF Seats, Left
<1>3. ASSUME NEW u \in DOMAIN Q, Q[u].room # NoRoom
      PROVE  Q[u].room \in DOMAIN L /\ u \in Member(L[Q[u].room])
  BY <1>1, <1>3 DEF Seats, Left
<1> QED  BY <1>2, <1>3 DEF Seats, Q

\* The members of R take seats in a room that was not there.
LEMMA SeatsTaken ==
  ASSUME NEW P, NEW Rs, NEW r, NEW R, NEW Q, Seats(P, Rs), r \notin DOMAIN Rs,
         Member(R) \cap DOMAIN P = {}, DOMAIN Q = DOMAIN P \union Member(R),
         \A u \in DOMAIN P : Q[u].room = P[u].room,
         \A u \in Member(R) : Q[u].room = r
  PROVE  Seats(Q, Put(Rs, r, R))
<1> DEFINE T == Put(Rs, r, R)
<1>1. /\ DOMAIN T = DOMAIN Rs \union {r} /\ T[r] = R
      /\ \A q \in DOMAIN Rs : T[q] = Rs[q]
  BY DEF Put
<1> HIDE DEF T
<1>2. ASSUME NEW q \in DOMAIN T, NEW u \in Member(T[q])
      PROVE  u \in DOMAIN Q /\ Q[u].room = q
  BY <1>1, <1>2 DEF Seats
<1>3. ASSUME NEW u \in DOMAIN Q, Q[u].room # NoRoom
      PROVE  Q[u].room \in DOMAIN T /\ u \in Member(T[Q[u].room])
  BY <1>1, <1>3 DEF Seats
<1> QED  BY <1>2, <1>3 DEF Seats, T

LEMMA WithoutMembers ==
  ASSUME NEW R \in RoomType, NEW D, NEW rest, rest = Without(R.members, D)
  PROVE  /\ [R EXCEPT !.members = rest] \in RoomType
         /\ Member([R EXCEPT !.members = rest]) = Member(R) \ D
         /\ Limit(R) /\ rest # << >> => Limit([R EXCEPT !.members = rest])
         /\ rest = << >> => Member(R) \subseteq D
<1>1. R.members \in Seq(Users)
  BY DEF RoomType
<1>2. /\ rest \in Seq(Users)
      /\ {rest[k] : k \in DOMAIN rest} = Member(R) \ D
      /\ Distinct(R.members) => Distinct(rest)
      /\ Len(rest) <= Len(R.members)
  <2> DEFINE seq == R.members
             cut == Without(seq, D)
  <2>1. /\ cut \in Seq(Users)
        /\ {cut[k] : k \in DOMAIN cut} = {seq[k] : k \in DOMAIN seq} \ D
        /\ Distinct(seq) => Distinct(cut)
        /\ Len(cut) <= Len(seq)
    <3>1. seq \in Seq(Users)
      BY <1>1
    <3> HIDE DEF seq
    <3> QED  BY <3>1, WithoutProperties
  <2>2. cut = rest
    OBVIOUS
  <2> HIDE DEF cut
  <2> QED  BY <2>1, <2>2 DEF Member
<1> DEFINE N == [R EXCEPT !.members = rest]
<1>3. N \in RoomType /\ N.members = rest /\ N.type = R.type
  BY <1>2 DEF RoomType
<1>4. Member(N) = Member(R) \ D
  BY <1>2, <1>3 DEF Member
<1>5. Limit(R) /\ rest # << >> => Limit(N)
  BY <1>1, <1>2, <1>3 DEF Limit
<1>6. rest = << >> => Member(R) \subseteq D
  BY <1>2
<1> QED  BY <1>3, <1>4, <1>5, <1>6

\* RemovePlayerFromRoom takes a player out of its room and changes no other.
LEMMA RoomsWithoutLeft ==
  ASSUME MapTypeOK, SeatInv, NEW u \in DOMAIN lobby
  PROVE  /\ Left(RoomsWithout(u), lobbyRooms, {u})
         /\ \A r \in DOMAIN RoomsWithout(u) : Limit(RoomsWithout(u)[r])
<1> DEFINE r    == Player(u).room
           R    == At(lobbyRooms, r, EmptyRoom)
           rest == Without(R.members, {u})
           L    == RoomsWithout(u)
<1>1. r = lobby[u].room /\ Seats(lobby, lobbyRooms) /\ Limits
  BY DEF Player, At, SeatInv
<1>2. CASE r = NoRoom
  <2>1. L = lobbyRooms
    BY <1>2 DEF RoomsWithout
  <2>2. \A q \in DOMAIN lobbyRooms : u \notin Member(lobbyRooms[q]) \/ q = NoRoom
    BY <1>1, <1>2 DEF Seats
  <2>3. NoRoom \notin DOMAIN lobbyRooms
    BY RoomsAssumption DEF MapTypeOK, IsMapOf, NoRoom
  <2> QED  BY <1>1, <2>1, <2>2, <2>3 DEF Left, Limits
<1>3. CASE r # NoRoom
  <2>1. r \in DOMAIN lobbyRooms /\ u \in Member(lobbyRooms[r]) /\ R = lobbyRooms[r]
    BY <1>1, <1>3 DEF Seats, At
  <2>2. L = IF rest = << >> THEN Erase(lobbyRooms, r)
            ELSE Put(lobbyRooms, r, [R EXCEPT !.members = rest])
    BY <1>3, <2>1 DEF RoomsWithout
  <2>3. \A q \in DOMAIN lobbyRooms : q # r => u \notin Member(lobbyRooms[q])
    BY <1>1 DEF Seats
  <2>4. R \in RoomType
    BY <2>1 DEF MapTypeOK, IsMapOf
  <2>5. Limit(R)
    BY <1>1, <2>1 DEF Limits
  <2>6. /\ Member([R EXCEPT !.members = rest]) = Member(R) \ {u}
        /\ rest # << >> => Limit([R EXCEPT !.members = rest])
        /\ rest = << >> => Member(R) \subseteq {u}
    <3> HIDE DEF R
    <3> QED  BY <2>4, <2>5, WithoutMembers
  <2> HIDE DEF rest, R, r, L
  <2>7. CASE rest = << >>
    BY <1>1, <2>1, <2>2, <2>3, <2>6, <2>7 DEF Left, Erase, EraseAll, Limits, L
  <2>8. CASE rest # << >>
    <3> DEFINE N == [R EXCEPT !.members = rest]
    <3>1. L = Put(lobbyRooms, r, N) /\ Limit(N) /\ Member(N) = Member(R) \ {u}
      BY <2>2, <2>6, <2>8
    <3> HIDE DEF N
    <3> QED  BY <1>1, <2>1, <2>3, <3>1 DEF Left, Put, Limits, L
  <2> QED  BY <2>7, <2>8
<1> QED  BY <1>2, <1>3
----------------------------------------------------------------------------
(* Steps of an orderly lobby.                                              *)

\* No send fails, and every socket that is sent to has a slot.
LEMMA SendSucceeds ==
  ASSUME TypeOK, Served, ~ub, NEW S, Send(S),
         \A s \in S : FindSocketID(slots, s) # {},
         pc = "scan" => cur \in DOMAIN slots /\ peer[slots[cur].socket] \notin broken
  PROVE  Failing(S) = {} /\ slots' = slots /\ ~ub'
<1>1. ASSUME NEW s \in Failing(S) PROVE FALSE
  <2>1. PICK i \in FindSocketID(slots, s) : Live(i) /\ peer[s] \in broken
    BY <1>1 DEF Failing, LiveSocket, Live
  <2>2. i \in DOMAIN slots /\ slots[i].socket = s
    BY DEF FindSocketID
  <2>3. pc = "scan" /\ i = cur
    BY <2>1, <2>2 DEF Served
  <2> QED  BY <2>1, <2>2, <2>3
<1>2. Failing(S) = {}
  BY <1>1
<1>3. slots' = [i \in DOMAIN slots |-> slots[i]]
  BY <1>2 DEF Send
<1>4. slots \in [DOMAIN slots -> SlotType]
  <2>1. slots \in Seq(SlotType)
    BY TypeGroups DEF TableTypeOK
  <2> QED  BY <2>1
<1>5. ~ub'
  BY DEF Send
<1> QED  BY <1>2, <1>3, <1>4, <1>5

\* operator[] on keys that are there inserts nothing.
LEMMA TouchKept ==
  ASSUME NEW K, NEW V, NEW m, IsMapOf(m, K, V), NEW X, X \subseteq DOMAIN m, NEW d
  PROVE  Touch(m, X, d) = m
<1>1. m = [x \in DOMAIN m |-> m[x]]
  BY DEF IsMapOf
<1>2. DOMAIN m \union X = DOMAIN m
  OBVIOUS
<1> QED  BY <1>1, <1>2 DEF Touch

LEMMA PlayersKept ==
  ASSUME MapTypeOK, NEW X, X \subseteq DOMAIN lobby
  PROVE  Players(X) = lobby
<1>1. IsMapOf(lobby, Users, PlayerType)
  BY DEF MapTypeOK
<1> QED  BY <1>1, TouchKept DEF Players

\* What a request does to players and rooms of the lobby.
SignsIn(u, s) ==
    /\ u \notin DOMAIN lobby \union DOMAIN game
    /\ lobby' = Put(lobby, u, [socket |-> s, room |-> NoRoom, ready |-> FALSE,
                               conn |-> peer[s]])
    /\ lobbyRooms' = lobbyRooms

Creates(u, r, type) ==
    /\ u \in DOMAIN lobby /\ r \notin DOMAIN lobbyRooms \union DOMAIN gameRooms
    /\ lobbyRooms' = Put(RoomsWithout(u), r,
                         [members |-> <<u>>, type |-> type, pid |-> 0])
    /\ lobby' = [lobby EXCEPT ![u].room = r]

Joins(u, r) ==
    /\ u \in DOMAIN lobby /\ lobby[u].room = NoRoom
    /\ r \in DOMAIN lobbyRooms /\ u \notin Member(lobbyRooms[r])
    /\ Len(lobbyRooms[r].members) < Capacity(lobbyRooms[r].type)
    /\ lobbyRooms' = [lobbyRooms EXCEPT ![r].members = Append(@, u)]
    /\ lobby' = [lobby EXCEPT ![u].room = r]

Readies(u, state) ==
    /\ u \in DOMAIN lobby
    /\ lobby' = [lobby EXCEPT ![u].ready = state]
    /\ lobbyRooms' = lobbyRooms

Quits(u) ==
    /\ u \in DOMAIN lobby
    /\ lobbyRooms' = RoomsWithout(u)
    /\ lobby' = Erase(lobby, u)

LobbyChange(s) ==
    \/ UNCHANGED <<lobby, lobbyRooms>>
    \/ \E u \in Users : SignsIn(u, s)
    \/ \E u \in Users, r \in RoomIDs, type \in GameTypes : Creates(u, r, type)
    \/ \E u \in Users, r \in RoomIDs : Joins(u, r)
    \/ \E u \in Users, state \in BOOLEAN : Readies(u, state)
    \/ \E u \in Users : Quits(u)

\* A request of a connection that is read comes from a player of the lobby.
LEMMA SignedInLobby ==
  ASSUME NEW s, ShouldReceiveData(s), NEW u \in FindSignedInUID(s)
  PROVE  u \in DOMAIN lobby /\ lobby[u].socket = s
  BY DEF ShouldReceiveData, FindSignedInUID, Lowest

LEMMA RequestShape ==
  ASSUME Orderly, LobbyInv, ScanMessage
  PROVE  /\ slots' = slots /\ ~ub' /\ UNCHANGED <<game, gameRooms>>
         /\ LobbyChange(slots[cur].socket)
<1> DEFINE s == slots[cur].socket
<1>1. /\ Request(s) /\ cur \in DOMAIN slots /\ Live(cur) /\ ShouldReceiveData(s)
      /\ peer[s] \notin broken /\ pc = "scan"
  BY DEF LobbyInv, GameInv, TypeOK, ScanMessage, Readable, In, Live
<1>2. TypeOK /\ MapTypeOK /\ Served /\ ~ub /\ SeatInv
  BY TypeGroups DEF LobbyInv, GameInv, TableInv
<1>3. FindSocketID(slots, s) # {}
  <2>1. cur \in FindSocketID(slots, s)
    BY <1>1 DEF LobbyInv, TableInv, Integrity, FindSocketID
  <2> QED  BY <2>1
<1>4. \A u \in DOMAIN lobby : FindSocketID(slots, lobby[u].socket) # {}
  BY DEF LobbyInv, Sessions
<1> HIDE DEF s
<1>5. ASSUME NEW S, Send(S), NEW X, X \subseteq DOMAIN lobby,
             \A t \in S : t = s \/ \E u \in X : t = lobby[u].socket
      PROVE  slots' = slots /\ ~ub'
  <2>1. \A t \in S : FindSocketID(slots, t) # {}
    BY <1>3, <1>4, <1>5
  <2>2. pc = "scan" => cur \in DOMAIN slots /\ peer[slots[cur].socket] \notin broken
    BY <1>1 DEF s
  <2> QED  BY <1>2, <1>5, <2>1, <2>2, SendSucceeds
<1>6. \A u \in FindSignedInUID(s) : u \in DOMAIN lobby /\ u \in Users
  BY <1>1, <1>2, SignedInLobby DEF MapTypeOK, IsMapOf
<1>7. \A X \in SUBSET DOMAIN lobby : Players(X) = lobby
  BY <1>2, PlayersKept
<1>8. \A u \in DOMAIN lobby :
         /\ Player(u) = lobby[u]
         /\ lobby[u].room # NoRoom =>
               /\ lobby[u].room \in DOMAIN lobbyRooms
               /\ At(lobbyRooms, lobby[u].room, EmptyRoom) = lobbyRooms[lobby[u].room]
  BY <1>2 DEF Player, At, SeatInv, Seats
<1>9. \A r \in DOMAIN lobbyRooms : Member(lobbyRooms[r]) \subseteq DOMAIN lobby
  BY <1>2 DEF SeatInv, Seats
<1>10. CASE Answer(s)
  <2>1. Send({s}) /\ UNCHANGED maps
    BY <1>10 DEF Answer
  <2> QED  BY <1>5, <2>1, <1>7 DEF maps, LobbyChange, s
<1>11. ASSUME NEW u \in DOMAIN lobby, AnswerTo(u, s)
       PROVE  slots' = slots /\ ~ub' /\ UNCHANGED <<game, gameRooms, lobby, lobbyRooms>>
  <2>1. Send({s}) /\ lobby' = Players({u}) /\ UNCHANGED <<game, lobbyRooms, gameRooms>>
    BY <1>11 DEF AnswerTo
  <2> QED  BY <1>5, <1>7, <2>1
<1>12. CASE \E u \in Users : SIGN_IN(u, s)
  <2>1. PICK u \in Users : SIGN_IN(u, s)
    BY <1>12
  <2>2. CASE ~Answer(s)
    <3>1. SignsIn(u, s) /\ Send({s}) /\ UNCHANGED <<game, gameRooms>>
      BY <2>1, <2>2 DEF SIGN_IN, SignsIn, IsUserSignedIn
    <3> QED  BY <1>5, <3>1 DEF LobbyChange, s
  <2> QED  BY <1>10, <2>2
<1>13. CASE \E r \in RoomIDs, type \in GameTypes : CREATE_ROOM(r, type, s)
  <2>1. PICK r \in RoomIDs, type \in GameTypes, u \in FindSignedInUID(s) :
          \/ AnswerTo(u, s)
          \/ /\ r \notin DOMAIN lobbyRooms
             /\ "reuse_number" \in Env \/ r \notin DOMAIN gameRooms
             /\ lobbyRooms' = Put(RoomsWithout(u), r,
                    [members |-> <<u>>, type |-> type, pid |-> 0])
             /\ lobby' = [Players({u}) EXCEPT ![u].room = r]
             /\ Send(LeaveNotified(u) \union {s})
             /\ UNCHANGED <<game, gameRooms>>
    BY <1>13 DEF CREATE_ROOM
  <2>2. u \in DOMAIN lobby /\ u \in Users /\ Players({u}) = lobby
    BY <1>6, <1>7
  <2>3. CASE ~AnswerTo(u, s)
    <3>1. Creates(u, r, type) /\ UNCHANGED <<game, gameRooms>>
          /\ Send(LeaveNotified(u) \union {s})
      BY <2>1, <2>2, <2>3 DEF Creates, Orderly
    <3>2. \A t \in LeaveNotified(u) \union {s} :
             t = s \/ \E o \in DOMAIN lobby : t = lobby[o].socket
      BY DEF LeaveNotified
    <3> QED  BY <1>5, <2>2, <3>1, <3>2 DEF LobbyChange, s
  <2> QED  BY <1>11, <2>2, <2>3 DEF LobbyChange, s
<1>14. CASE \E r \in RoomIDs : ROOM(r, s)
  <2> DEFINE R(r) == At(lobbyRooms, r, EmptyRoom)
             players(r, u) == Players(Member(R(r)) \union {u})
             S(r, u) == Notified(players(r, u), Member(R(r)), s) \union
                         (IF R(r).members # << >> THEN {s} ELSE {})
  <2>1. PICK r \in RoomIDs, u \in FindSignedInUID(s) :
          /\ "join_twice" \in Env \/ Player(u).room = NoRoom
          /\ \/ AnswerTo(u, s)
             \/ /\ u \notin Member(R(r)) /\ Len(R(r).members) < Capacity(R(r).type)
                /\ lobbyRooms' = [lobbyRooms EXCEPT ![r].members = Append(@, u)]
                /\ lobby' = [players(r, u) EXCEPT ![u].room = r]
                /\ Send(S(r, u))
                /\ UNCHANGED <<game, gameRooms>>
    BY <1>14 DEF ROOM
  <2>2. u \in DOMAIN lobby /\ u \in Users /\ lobby[u].room = NoRoom
    BY <1>6, <1>8, <2>1 DEF Orderly
  <2>3. CASE ~AnswerTo(u, s)
    <3>1. r \in DOMAIN lobbyRooms /\ R(r) = lobbyRooms[r]
      <4>1. ASSUME r \notin DOMAIN lobbyRooms PROVE FALSE
        <5>1. R(r).members = << >> /\ R(r).type = 0
          BY <4>1 DEF At, EmptyRoom
        <5>2. Len(R(r).members) = 0 /\ Capacity(R(r).type) = 0
          BY <5>1 DEF Capacity, GOBANG
        <5> QED  BY <2>1, <2>3, <5>2
      <4> QED  BY <4>1 DEF At
    <3>2. Member(R(r)) \union {u} \subseteq DOMAIN lobby
      BY <1>9, <2>2, <3>1
    <3>3. players(r, u) = lobby
      BY <1>7, <3>2
    <3>4. Joins(u, r)
      BY <2>1, <2>2, <2>3, <3>1, <3>3 DEF Joins
    <3>5. \A t \in S(r, u) : t = s \/ \E o \in DOMAIN lobby : t = lobby[o].socket
      BY <3>2, <3>3 DEF Notified
    <3>6. Send(S(r, u)) /\ UNCHANGED <<game, gameRooms>>
      BY <2>1, <2>3
    <3> HIDE DEF S
    <3> QED  BY <1>5, <2>2, <3>4, <3>5, <3>6 DEF LobbyChange, s
  <2> QED  BY <1>11, <2>2, <2>3 DEF LobbyChange, s
<1>15. CASE \E state \in BOOLEAN : READY(state, s)
  <2> DEFINE R(u) == At(lobbyRooms, Player(u).room, EmptyRoom)
             players(u) == Players(Member(R(u)) \union {u})
             S(u) == Notified(players(u), Member(R(u)), s) \union {s}
  <2>1. PICK state \in BOOLEAN, u \in FindSignedInUID(s) :
          \/ AnswerTo(u, s)
          \/ /\ Player(u).room # NoRoom
             /\ lobbyRooms' = Touch(lobbyRooms, {Player(u).room}, EmptyRoom)
             /\ lobby' = [players(u) EXCEPT ![u].ready = state]
             /\ Send(S(u))
             /\ UNCHANGED <<game, gameRooms>>
    BY <1>15 DEF READY
  <2>2. u \in DOMAIN lobby /\ u \in Users
    BY <1>6
  <2>3. CASE ~AnswerTo(u, s)
    <3>1. lobby[u].room \in DOMAIN lobbyRooms /\ R(u) = lobbyRooms[lobby[u].room]
      BY <1>8, <2>1, <2>2, <2>3
    <3>2. Member(R(u)) \union {u} \subseteq DOMAIN lobby
      BY <1>9, <2>2, <3>1
    <3>3. players(u) = lobby
      BY <1>7, <3>2
    <3>4. lobbyRooms' = lobbyRooms
      <4>1. {lobby[u].room} \subseteq DOMAIN lobbyRooms
        BY <3>1
      <4>2. IsMapOf(lobbyRooms, RoomIDs, RoomType)
        BY <1>2 DEF MapTypeOK
      <4>3. Touch(lobbyRooms, {lobby[u].room}, EmptyRoom) = lobbyRooms
        BY <4>1, <4>2, TouchKept
      <4> QED  BY <1>8, <2>1, <2>2, <2>3, <4>3
    <3>5. Readies(u, state)
      BY <2>1, <2>2, <2>3, <3>3, <3>4 DEF Readies
    <3>6. \A t \in S(u) : t = s \/ \E o \in DOMAIN lobby : t = lobby[o].socket
      BY <3>2, <3>3 DEF Notified
    <3>7. Send(S(u)) /\ UNCHANGED <<game, gameRooms>>
      BY <2>1, <2>3
    <3> HIDE DEF S
    <3> QED  BY <1>5, <2>2, <3>5, <3>6, <3>7 DEF LobbyChange, s
  <2> QED  BY <1>11, <2>2, <2>3 DEF LobbyChange, s
<1>16. CASE QUIT_LOBBY(s)
  <2>1. PICK u \in FindSignedInUID(s) :
          /\ lobbyRooms' = RoomsWithout(u)
          /\ lobby' = Erase(lobby, u)
          /\ game' = IF u \in DOMAIN lobby THEN game ELSE Erase(game, u)
          /\ Send(LeaveNotified(u))
          /\ UNCHANGED gameRooms
    BY <1>16 DEF QUIT_LOBBY
  <2>2. u \in DOMAIN lobby /\ u \in Users
    BY <1>6
  <2>3. Quits(u) /\ game' = game
    BY <2>1, <2>2 DEF Quits
  <2>4. \A t \in LeaveNotified(u) : t = s \/ \E o \in DOMAIN lobby : t = lobby[o].socket
    BY DEF LeaveNotified
  <2> QED  BY <1>5, <2>1, <2>2, <2>3, <2>4 DEF LobbyChange, s
<1> QED
  BY <1>1, <1>10, <1>12, <1>13, <1>14, <1>15, <1>16 DEF Request, s

\* What an assignment to one field of one player changes.
LEMMA RoomSet ==
  ASSUME MapTypeOK, NEW u \in DOMAIN lobby, NEW r, NEW P,
         P = [lobby EXCEPT ![u].room = r]
  PROVE  /\ DOMAIN P = DOMAIN lobby
         /\ P[u].room = r /\ P[u].socket = lobby[u].socket /\ P[u].conn = lobby[u].conn
         /\ \A v \in DOMAIN lobby : v # u => P[v] = lobby[v]
<1>1. lobby[u] \in PlayerType
  BY DEF MapTypeOK, IsMapOf
<1> QED  BY <1>1 DEF PlayerType

LEMMA ReadySet ==
  ASSUME MapTypeOK, NEW u \in DOMAIN lobby, NEW state, NEW P,
         P = [lobby EXCEPT ![u].ready = state]
  PROVE  /\ DOMAIN P = DOMAIN lobby
         /\ \A v \in DOMAIN lobby : /\ P[v].room = lobby[v].room
                                    /\ P[v].socket = lobby[v].socket
                                    /\ P[v].conn = lobby[v].conn
<1>1. lobby[u] \in PlayerType
  BY DEF MapTypeOK, IsMapOf
<1> QED  BY <1>1 DEF PlayerType

\* A request keeps players and rooms in agreement.
LEMMA LobbyChangeSeats ==
  ASSUME MapTypeOK, SeatInv, UNCHANGED <<game, gameRooms>>, NEW s, LobbyChange(s)
  PROVE  SeatInv'
<1>1. /\ Seats(lobby, lobbyRooms) /\ Seats(game, gameRooms) /\ Limits
      /\ DOMAIN lobby \cap DOMAIN game = {}
      /\ DOMAIN lobbyRooms \cap DOMAIN gameRooms = {}
  BY DEF SeatInv, OneSide
<1> SUFFICES /\ Seats(lobby', lobbyRooms')
             /\ \A r \in DOMAIN lobbyRooms' : Limit(lobbyRooms'[r])
             /\ DOMAIN lobby' \cap DOMAIN game = {}
             /\ DOMAIN lobbyRooms' \cap DOMAIN gameRooms = {}
  <2>1. Seats(game', gameRooms') /\ game' = game /\ gameRooms' = gameRooms
    BY <1>1
  <2>2. \A r \in DOMAIN gameRooms' : Limit(gameRooms'[r]) /\ Full(gameRooms'[r])
    BY <1>1 DEF Limits
  <2> QED  BY <1>1, <2>1, <2>2 DEF SeatInv, OneSide, Limits, Seats, Limit, Full
<1>2. CASE UNCHANGED <<lobby, lobbyRooms>>
  BY <1>1, <1>2 DEF Limits
<1>3. CASE \E u \in Users : SignsIn(u, s)
  <2>1. PICK u \in Users : SignsIn(u, s)
    BY <1>3
  <2>2. /\ u \notin DOMAIN lobby /\ u \notin DOMAIN game /\ lobbyRooms' = lobbyRooms
        /\ DOMAIN lobby' = DOMAIN lobby \union {u}
        /\ lobby'[u].room = NoRoom /\ \A v \in DOMAIN lobby : lobby'[v] = lobby[v]
    BY <2>1 DEF SignsIn, Put
  <2>3. Seats(lobby', lobbyRooms')
    BY <1>1, <2>2 DEF Seats
  <2> QED  BY <1>1, <2>2, <2>3 DEF Limits
<1>4. CASE \E u \in Users, r \in RoomIDs, type \in GameTypes : Creates(u, r, type)
  <2>1. PICK u \in Users, r \in RoomIDs, type \in GameTypes : Creates(u, r, type)
    BY <1>4
  <2> DEFINE R == [members |-> <<u>>, type |-> type, pid |-> 0]
             L == RoomsWithout(u)
             P == EraseAll(lobby, {u})
  <2>2. /\ u \in DOMAIN lobby /\ r \notin DOMAIN lobbyRooms /\ r \notin DOMAIN gameRooms
        /\ lobbyRooms' = Put(L, r, R) /\ lobby' = [lobby EXCEPT ![u].room = r]
    BY <2>1 DEF Creates
  <2>3. Left(L, lobbyRooms, {u}) /\ \A q \in DOMAIN L : Limit(L[q])
    BY <2>2, RoomsWithoutLeft
  <2>4. Seats(P, L)
    BY <1>1, <2>3, SeatsLeft
  <2>5. Member(R) = {u} /\ Limit(R)
    BY DEF Member, Limit, Distinct
  <2>6. /\ DOMAIN lobby' = DOMAIN lobby /\ lobby'[u].room = r
        /\ \A v \in DOMAIN lobby : v # u => lobby'[v] = lobby[v]
    BY <2>2, RoomSet
  <2>7. /\ DOMAIN P = DOMAIN lobby \ {u}
        /\ \A v \in DOMAIN P : P[v] = lobby[v]
    BY DEF EraseAll
  <2>8. r \notin DOMAIN L
    BY <2>2, <2>3 DEF Left
  <2>9. Seats(lobby', Put(L, r, R))
    <3> HIDE DEF R, L, P
    <3>1. Member(R) \cap DOMAIN P = {} /\ DOMAIN lobby' = DOMAIN P \union Member(R)
      BY <2>2, <2>5, <2>6, <2>7
    <3>2. /\ \A v \in DOMAIN P : lobby'[v].room = P[v].room
          /\ \A v \in Member(R) : lobby'[v].room = r
      BY <2>5, <2>6, <2>7
    <3> QED  BY <2>4, <2>8, <3>1, <3>2, SeatsTaken
  <2>10. DOMAIN lobbyRooms' \subseteq DOMAIN lobbyRooms \union {r}
    BY <2>2, <2>3 DEF Left, Put
  <2>11. \A q \in DOMAIN lobbyRooms' : Limit(lobbyRooms'[q])
    <3> HIDE DEF R, L
    <3> QED  BY <2>2, <2>3, <2>5 DEF Put
  <2> QED  BY <1>1, <2>2, <2>6, <2>9, <2>10, <2>11
<1>5. CASE \E u \in Users, r \in RoomIDs : Joins(u, r)
  <2>1. PICK u \in Users, r \in RoomIDs : Joins(u, r)
    BY <1>5
  <2> DEFINE R == lobbyRooms[r]
             N == [R EXCEPT !.members = Append(@, u)]
  <2>2. R \in RoomType /\ r \in DOMAIN lobbyRooms /\ u \in DOMAIN lobby
        /\ u \notin Member(R) /\ lobby[u].room = NoRoom
        /\ Len(R.members) < Capacity(R.type)
    BY <2>1 DEF Joins, MapTypeOK, IsMapOf
  <2>3. /\ DOMAIN lobby' = DOMAIN lobby /\ lobby'[u].room = r
        /\ \A v \in DOMAIN lobby : v # u => lobby'[v] = lobby[v]
    <3>1. lobby' = [lobby EXCEPT ![u].room = r] /\ u \in DOMAIN lobby
      BY <2>1 DEF Joins
    <3> QED  BY <3>1, RoomSet
  <2>4. /\ DOMAIN lobbyRooms' = DOMAIN lobbyRooms /\ lobbyRooms'[r] = N
        /\ \A q \in DOMAIN lobbyRooms : q # r => lobbyRooms'[q] = lobbyRooms[q]
    BY <2>1, <2>2 DEF Joins
  <2>5. /\ R.members \in Seq(Users) /\ N.members = Append(R.members, u) /\ N.type = R.type
    BY <2>2 DEF RoomType
  <2>6. Member(N) = Member(R) \union {u}
    <3>1. \A k \in DOMAIN R.members : N.members[k] = R.members[k]
      BY <2>5
    <3>2. /\ DOMAIN N.members = DOMAIN R.members \union {Len(R.members) + 1}
          /\ N.members[Len(R.members) + 1] = u
      BY <2>5
    <3> HIDE DEF R, N
    <3> QED  BY <3>1, <3>2 DEF Member
  <2>7. Limit(N)
    <3>1. Limit(R)
      BY <1>1, <2>2 DEF Limits
    <3>2. \A k \in DOMAIN R.members : R.members[k] # u
      BY <2>2 DEF Member
    <3>3. Distinct(N.members)
      <4> HIDE DEF R, N
      <4> QED  BY <2>5, <3>1, <3>2 DEF Limit, Distinct
    <3>4. Len(N.members) <= IF N.type = GOBANG THEN 2 ELSE 1
      <4> HIDE DEF R, N
      <4> QED  BY <2>2, <2>5 DEF Capacity
    <3>5. N.members # << >>
      <4> HIDE DEF R, N
      <4> QED  BY <2>5
    <3> QED  BY <3>3, <3>4, <3>5 DEF Limit
  <2> HIDE DEF R, N
  <2>8. Seats(lobby', lobbyRooms')
    <3>1. \A q \in DOMAIN lobbyRooms : u \notin Member(lobbyRooms[q])
      <4>1. NoRoom \notin DOMAIN lobbyRooms
        BY RoomsAssumption DEF MapTypeOK, IsMapOf, NoRoom
      <4> QED  BY <1>1, <2>2, <4>1 DEF Seats
    <3>2. ASSUME NEW q \in DOMAIN lobbyRooms', NEW v \in Member(lobbyRooms'[q])
          PROVE  v \in DOMAIN lobby' /\ lobby'[v].room = q
      BY <1>1, <2>2, <2>3, <2>4, <2>6, <3>1, <3>2 DEF Seats, R
    <3>3. ASSUME NEW v \in DOMAIN lobby', lobby'[v].room # NoRoom
          PROVE  /\ lobby'[v].room \in DOMAIN lobbyRooms'
                 /\ v \in Member(lobbyRooms'[lobby'[v].room])
      BY <1>1, <2>2, <2>3, <2>4, <2>6, <3>3 DEF Seats, R
    <3> QED  BY <3>2, <3>3 DEF Seats
  <2> QED  BY <1>1, <2>3, <2>4, <2>7, <2>8 DEF Limits
<1>6. CASE \E u \in Users, state \in BOOLEAN : Readies(u, state)
  <2>1. PICK u \in Users, state \in BOOLEAN : Readies(u, state)
    BY <1>6
  <2>2. /\ DOMAIN lobby' = DOMAIN lobby /\ lobbyRooms' = lobbyRooms
        /\ \A v \in DOMAIN lobby : lobby'[v].room = lobby[v].room
    BY <2>1, ReadySet DEF Readies
  <2> QED  BY <1>1, <2>2 DEF Limits, Seats
<1>7. CASE \E u \in Users : Quits(u)
  <2>1. PICK u \in Users : Quits(u)
    BY <1>7
  <2>2. /\ u \in DOMAIN lobby /\ lobbyRooms' = RoomsWithout(u)
        /\ lobby' = EraseAll(lobby, {u})
    BY <2>1 DEF Quits, Erase
  <2>3. /\ Left(lobbyRooms', lobbyRooms, {u})
        /\ \A q \in DOMAIN lobbyRooms' : Limit(lobbyRooms'[q])
    BY <2>2, RoomsWithoutLeft
  <2>4. Seats(lobby', lobbyRooms')
    BY <1>1, <2>2, <2>3, SeatsLeft
  <2>5. DOMAIN lobby' \subseteq DOMAIN lobby /\ DOMAIN lobbyRooms' \subseteq DOMAIN lobbyRooms
    BY <2>2, <2>3 DEF EraseAll, Left
  <2> QED  BY <1>1, <2>3, <2>4, <2>5
<1> QED  BY <1>2, <1>3, <1>4, <1>5, <1>6, <1>7 DEF LobbyChange

\* A request leaves every player with the slot of its connection.
LEMMA LobbyChangeSessions ==
  ASSUME MapTypeOK, Sessions, UNCHANGED <<slots, peer, game>>, pc' = "scan",
         NEW s, FindSocketID(slots, s) # {}, LobbyChange(s)
  PROVE  Sessions'
<1> DEFINE Seated(sock, c) == /\ peer[sock] = c
                             /\ FindSocketID(slots, sock) # {}
<1>1. \A u \in DOMAIN lobby : Seated(lobby[u].socket, lobby[u].conn)
  BY DEF Sessions
<1>2. \A u \in DOMAIN lobby' : Seated(lobby'[u].socket, lobby'[u].conn)
  <2>1. CASE UNCHANGED <<lobby, lobbyRooms>>
    BY <1>1, <2>1
  <2>2. CASE \E u \in Users : SignsIn(u, s)
    BY <1>1, <2>2 DEF SignsIn, Put
  <2>3. CASE \E u \in Users, r \in RoomIDs, type \in GameTypes : Creates(u, r, type)
    BY <1>1, <2>3, RoomSet DEF Creates
  <2>4. CASE \E u \in Users, r \in RoomIDs : Joins(u, r)
    BY <1>1, <2>4, RoomSet, SMTT(60) DEF Joins
  <2>5. CASE \E u \in Users, state \in BOOLEAN : Readies(u, state)
    BY <1>1, <2>5, ReadySet DEF Readies
  <2>6. CASE \E u \in Users : Quits(u)
    BY <1>1, <2>6 DEF Quits, Erase, EraseAll
  <2> QED  BY <2>1, <2>2, <2>3, <2>4, <2>5, <2>6 DEF LobbyChange
<1>3. ASSUME NEW u \in DOMAIN lobby'
      PROVE  /\ peer'[lobby'[u].socket] = lobby'[u].conn
             /\ \E i \in FindSocketID(slots', lobby'[u].socket) :
                  slots'[i].state = CONNECTED \/ pc' # "drive"
  BY <1>2
<1>4. ASSUME NEW u \in DOMAIN game'
      PROVE  /\ peer'[game'[u].socket] = game'[u].conn
             /\ \E i \in FindSocketID(slots', game'[u].socket) :
                  slots'[i].state = CONNECTED
  BY DEF Sessions, Live
<1> QED  BY <1>3, <1>4 DEF Sessions, Live

\* A game that is over: its players return, all of them told.
LEMMA ReapShape ==
  ASSUME LobbyInv, NEW r, Reap(r)
  PROVE  LET mem == Member(gameRooms[r]) IN
         /\ slots' = slots /\ ~ub' /\ pc = "reap" /\ pc' = pc
         /\ UNCHANGED <<cur, kernel, broken>>
         /\ r \in DOMAIN gameRooms /\ mem \subseteq DOMAIN game
         /\ gameRooms' = Erase(gameRooms, r)
         /\ lobbyRooms' = Put(lobbyRooms, r, [gameRooms[r] EXCEPT !.pid = 0])
         /\ game' = EraseAll(game, mem)
         /\ DOMAIN lobby' = DOMAIN lobby \union mem
         /\ \A u \in mem : /\ lobby'[u].room = game[u].room
                           /\ lobby'[u].socket = game[u].socket
                           /\ lobby'[u].conn = game[u].conn
         /\ \A u \in DOMAIN lobby : lobby'[u] = lobby[u]
<1> DEFINE R       == gameRooms[r]
           mem     == Member(R)
           back(u) == [At(game, u, Ghost) EXCEPT !.ready = FALSE]
           sockets == {back(u).socket : u \in mem}
           told    == {u \in mem : /\ LiveSocket(back(u).socket)
                                   /\ back(u).socket \notin Failing(sockets)}
<1>1. /\ gameRooms' = Erase(gameRooms, r)
      /\ lobbyRooms' = Put(lobbyRooms, r, [R EXCEPT !.pid = 0])
      /\ game' = EraseAll(game, mem)
      /\ Send(sockets)
      /\ lobby' = [u \in (DOMAIN lobby \ mem) \union told |->
                     IF u \in told THEN back(u) ELSE lobby[u]]
  BY DEF Reap, GameOver
<1>2. /\ r \in DOMAIN gameRooms /\ pc = "reap" /\ pc' = pc
      /\ UNCHANGED <<cur, kernel, broken>>
  BY DEF Reap, In, Lowest, Over
<1>3. /\ TypeOK /\ MapTypeOK /\ Served /\ ~ub /\ Seats(game, gameRooms)
      /\ DOMAIN lobby \cap DOMAIN game = {}
  BY TypeGroups DEF LobbyInv, GameInv, TableInv, SeatInv, OneSide
<1>4. mem \subseteq DOMAIN game
  BY <1>2, <1>3 DEF Seats
<1>5. \A u \in mem : /\ back(u).room = game[u].room
                     /\ back(u).socket = game[u].socket
                     /\ back(u).conn = game[u].conn
  <2> TAKE u \in mem
  <2>1. game[u] \in PlayerType /\ At(game, u, Ghost) = game[u]
    BY <1>3, <1>4 DEF MapTypeOK, IsMapOf, At
  <2> QED  BY <2>1 DEF PlayerType
<1>6. \A u \in mem : \E i \in FindSocketID(slots, back(u).socket) : Live(i)
  BY <1>4, <1>5 DEF LobbyInv, Sessions
<1>7. Failing(sockets) = {} /\ slots' = slots /\ ~ub'
  <2>1. \A t \in sockets : FindSocketID(slots, t) # {}
    BY <1>6
  <2> HIDE DEF sockets
  <2> QED  BY <1>1, <1>2, <1>3, <2>1, SendSucceeds
<1>8. told = mem
  BY <1>6, <1>7 DEF LiveSocket, Live
<1>9. /\ DOMAIN lobby' = DOMAIN lobby \union mem
      /\ \A u \in mem : lobby'[u] = back(u)
      /\ \A u \in DOMAIN lobby : lobby'[u] = lobby[u]
  <2>1. \A u \in DOMAIN lobby : u \notin mem
    BY <1>3, <1>4
  <2> HIDE DEF back, told, mem
  <2> QED  BY <1>1, <1>8, <2>1
<1> HIDE DEF back, told, sockets
<1> QED  BY <1>1, <1>2, <1>4, <1>5, <1>7, <1>9

\* A room that is full and ready: its members go to the game.
LEMMA LaunchShape ==
  ASSUME LobbyInv, NEW r, NEW pid, Launch(r, pid)
  PROVE  LET mem == Member(lobbyRooms[r]) IN
         /\ slots' = slots /\ ~ub' /\ pc = "drive" /\ pc' = "scan"
         /\ UNCHANGED <<cur, kernel, broken>>
         /\ r \in DOMAIN lobbyRooms /\ Full(lobbyRooms[r]) /\ mem \subseteq DOMAIN lobby
         /\ gameRooms' = Put(gameRooms, r, [lobbyRooms[r] EXCEPT !.pid = pid])
         /\ lobbyRooms' = Erase(lobbyRooms, r)
         /\ lobby' = EraseAll(lobby, mem)
         /\ DOMAIN game' = DOMAIN game \union mem
         /\ \A u \in mem : game'[u] = lobby[u]
         /\ \A u \in DOMAIN game : game'[u] = game[u]
<1> DEFINE R       == lobbyRooms[r]
           mem     == Member(R)
           players == Players(Inspected)
           sockets == IF mem = {} THEN {NoSocket} ELSE {players[u].socket : u \in mem}
<1>1. /\ pc = "drive" /\ pc' = "scan" /\ r \in DOMAIN lobbyRooms /\ Full(R)
      /\ lobbyRooms' = Erase(lobbyRooms, r)
      /\ gameRooms' = Put(gameRooms, r, [R EXCEPT !.pid = pid])
      /\ lobby' = EraseAll(players, mem)
      /\ game' = [u \in DOMAIN game \union mem |->
                    IF u \in mem THEN players[u] ELSE game[u]]
      /\ Send(sockets)
      /\ UNCHANGED <<cur, kernel, broken>>
  BY DEF Launch, In, Lowest, ReadyRooms
<1>2. /\ TypeOK /\ MapTypeOK /\ Served /\ ~ub /\ Seats(lobby, lobbyRooms)
      /\ DOMAIN lobby \cap DOMAIN game = {}
      /\ Limit(R)
  BY <1>1, TypeGroups DEF LobbyInv, GameInv, TableInv, SeatInv, OneSide, Limits
<1>3. mem \subseteq DOMAIN lobby /\ mem # {}
  <2>1. R.members \in Seq(Users) /\ R.members # << >>
    BY <1>1, <1>2 DEF MapTypeOK, IsMapOf, RoomType, Limit
  <2>2. mem # {}
    <3>1. 1 \in DOMAIN R.members
      <4> HIDE DEF R
      <4> QED  BY <2>1
    <3> QED  BY <3>1 DEF Member
  <2> QED  BY <1>1, <1>2, <2>2 DEF Seats
<1>4. players = lobby
  <2>1. \A u \in Inspected : \E q \in DOMAIN lobbyRooms : u \in Member(lobbyRooms[q])
    BY DEF Inspected, Member
  <2>2. Inspected \subseteq DOMAIN lobby
    BY <1>2, <2>1 DEF Seats
  <2> QED  BY <1>2, <2>2, PlayersKept
<1>5. slots' = slots /\ ~ub'
  <2>1. \A t \in sockets : FindSocketID(slots, t) # {}
    BY <1>3, <1>4 DEF LobbyInv, Sessions
  <2> HIDE DEF sockets
  <2> QED  BY <1>1, <1>2, <2>1, SendSucceeds
<1>6. /\ lobby' = EraseAll(lobby, mem)
      /\ DOMAIN game' = DOMAIN game \union mem
      /\ \A u \in mem : game'[u] = lobby[u]
      /\ \A u \in DOMAIN game : game'[u] = game[u]
  <2>1. \A u \in DOMAIN game : u \notin mem
    BY <1>2, <1>3
  <2> HIDE DEF players, mem
  <2> QED  BY <1>1, <1>4, <2>1
<1> HIDE DEF players, sockets
<1> QED  BY <1>1, <1>3, <1>5, <1>6

\* The players that were dropped leave, with their seats.
LEMMA CleanupShape ==
  ASSUME LobbyInv, Cleanup
  PROVE  /\ UNCHANGED <<slots, game, gameRooms, cur, kernel, broken, ub>>
         /\ pc = "cleanup" /\ pc' = "drive"
         /\ lobby' = EraseAll(lobby, Dropped)
         /\ Left(lobbyRooms', lobbyRooms, Dropped)
         /\ \A r \in DOMAIN lobbyRooms' : Limit(lobbyRooms'[r])
<1> DEFINE gone(r) == {u \in Dropped : lobby[u].room = r}
           rest(r) == Without(lobbyRooms[r].members, gone(r))
           kept    == {r \in DOMAIN lobbyRooms : gone(r) = {} \/ rest(r) # << >>}
           N(r)    == [lobbyRooms[r] EXCEPT !.members = rest(r)]
<1>1. /\ lobby' = EraseAll(lobby, Dropped)
      /\ lobbyRooms' = [r \in kept |-> N(r)]
      /\ UNCHANGED <<slots, game, gameRooms, cur, kernel, broken, ub>>
      /\ pc = "cleanup" /\ pc' = "drive"
  BY DEF Cleanup, In
<1>2. MapTypeOK /\ Seats(lobby, lobbyRooms) /\ Limits
  BY TypeGroups DEF LobbyInv, GameInv, SeatInv
<1>3. ASSUME NEW r \in DOMAIN lobbyRooms
      PROVE  /\ Member(N(r)) = Member(lobbyRooms[r]) \ Dropped
             /\ rest(r) # << >> => Limit(N(r))
             /\ rest(r) = << >> => /\ gone(r) # {}
                                   /\ Member(lobbyRooms[r]) \subseteq Dropped
  <2>1. lobbyRooms[r] \in RoomType /\ Limit(lobbyRooms[r])
    BY <1>2, <1>3 DEF MapTypeOK, IsMapOf, Limits
  <2>2. Member(lobbyRooms[r]) \ Dropped = Member(lobbyRooms[r]) \ gone(r)
    BY <1>2, <1>3 DEF Seats
  <2>3. /\ Member(N(r)) = Member(lobbyRooms[r]) \ gone(r)
        /\ rest(r) # << >> => Limit(N(r))
        /\ rest(r) = << >> => Member(lobbyRooms[r]) \subseteq gone(r)
    <3> HIDE DEF gone
    <3> QED  BY <2>1, WithoutMembers
  <2>4. Member(lobbyRooms[r]) # {}
    <3>1. 1 \in DOMAIN lobbyRooms[r].members
      BY <2>1 DEF RoomType, Limit
    <3> QED  BY <3>1 DEF Member
  <2>5. gone(r) \subseteq Dropped
    OBVIOUS
  <2> HIDE DEF gone, rest, N
  <2> QED  BY <2>2, <2>3, <2>4, <2>5
<1> HIDE DEF gone, rest, N
<1>4. \A r \in kept : rest(r) # << >>
  BY <1>3
<1>5. /\ DOMAIN lobbyRooms' = kept /\ kept \subseteq DOMAIN lobbyRooms
      /\ \A r \in kept : lobbyRooms'[r] = N(r)
  BY <1>1
<1>6. Left(lobbyRooms', lobbyRooms, Dropped)
  BY <1>3, <1>5 DEF Left
<1>7. \A r \in DOMAIN lobbyRooms' : Limit(lobbyRooms'[r])
  BY <1>3, <1>4, <1>5
<1> QED  BY <1>1, <1>6, <1>7

\* GetReadyRoom that finds none, or a failed fork(), inserts nobody.
LEMMA DriveShape ==
  ASSUME LobbyInv, DriveNone
  PROVE  UNCHANGED <<slots, maps, cur, kernel, broken, ub>> /\ pc = "drive" /\ pc' = "scan"
<1>1. MapTypeOK /\ Seats(lobby, lobbyRooms)
  BY TypeGroups DEF LobbyInv, GameInv, SeatInv
<1>2. \A u \in Inspected : \E q \in DOMAIN lobbyRooms : u \in Member(lobbyRooms[q])
  BY DEF Inspected, Member
<1>3. Inspected \subseteq DOMAIN lobby
  BY <1>1, <1>2 DEF Seats
<1>4. Players(Inspected) = lobby
  BY <1>1, <1>3, PlayersKept
<1> QED  BY <1>4 DEF DriveNone, In, maps

\* accept() gives a descriptor that is not open, and the new client takes the first
\* closed slot or one more.
LEMMA AcceptShape ==
  ASSUME TypeOK, Accept
  PROVE  \E fd \in Fds, f \in Nat \ {0} :
           /\ fd \notin open
           /\ DOMAIN slots' = DOMAIN slots \union {f}
           /\ slots'[f].socket = fd /\ slots'[f].state = CONNECTED
           /\ \A j \in DOMAIN slots : j # f => slots'[j] = slots[j]
           /\ f \in DOMAIN slots => ~Live(f)
           /\ \A j \in 1..(f - 1) : j \in DOMAIN slots /\ Live(j)
           /\ peer' = [peer EXCEPT ![fd] = met + 1]
           /\ open' = open \union {fd} /\ met' = met + 1
<1>1. PICK fd \in Fds, f \in FreeSlot(slots) :
         /\ Unused(fd)
         /\ slots' = PutSlot(slots, f, [socket |-> fd, state |-> CONNECTED])
         /\ peer' = [peer EXCEPT ![fd] = met + 1]
         /\ open' = open \union {fd}
  BY DEF Accept
<1>2. met' = met + 1
  BY DEF Accept
<1>3. slots \in Seq(SlotType) /\ Len(slots) \in Nat /\ DOMAIN slots = 1..Len(slots)
  BY TypeGroups DEF TableTypeOK
<1>4. /\ f \in 1..(Len(slots) + 1)
      /\ f <= Len(slots) => slots[f].state = CLOSED
      /\ \A j \in 1..(f - 1) : slots[j].state # CLOSED
  BY DEF FreeSlot
<1> DEFINE new == [socket |-> fd, state |-> CONNECTED]
<1>5. new.socket = fd /\ new.state = CONNECTED
  OBVIOUS
<1>6. /\ DOMAIN slots' = DOMAIN slots \union {f} /\ slots'[f] = new
      /\ \A j \in DOMAIN slots : j # f => slots'[j] = slots[j]
  <2>1. slots' = IF f <= Len(slots) THEN [slots EXCEPT ![f] = new] ELSE Append(slots, new)
    BY <1>1 DEF PutSlot
  <2> HIDE DEF new
  <2>2. CASE f <= Len(slots)
    BY <1>3, <1>4, <2>1, <2>2
  <2>3. CASE f > Len(slots)
    <3>1. f = Len(slots) + 1 /\ ~(f <= Len(slots))
      BY <1>3, <1>4, <2>3
    <3>2. slots' = Append(slots, new)
      BY <2>1, <3>1, Zenon
    <3> QED  BY <1>3, <3>1, <3>2
  <2> QED  BY <1>3, <1>4, <2>2, <2>3
<1>7. \A j \in 1..(f - 1) : j \in DOMAIN slots /\ Live(j)
  <2> TAKE j \in 1..(f - 1)
  <2>1. j \in DOMAIN slots /\ slots[j] \in SlotType
    BY <1>3, <1>4
  <2>2. slots[j].state \in {CLOSED, CONNECTED}
    BY <2>1 DEF SlotType
  <2> QED  BY <1>4, <2>1, <2>2 DEF Live
<1>8. f \in DOMAIN slots => ~Live(f)
  BY <1>3, <1>4 DEF Live, CLOSED, CONNECTED
<1>9. f \in Nat \ {0} /\ fd \notin open
  BY <1>1, <1>3, <1>4 DEF Unused
<1> HIDE DEF new
<1> QED  BY <1>1, <1>2, <1>5, <1>6, <1>7, <1>8, <1>9

\* Steps that leave the table as it is and read no connection that broke.
LEMMA TableSame ==
  ASSUME TypeOK, TableInv, UNCHANGED <<slots, kernel, broken>>,
         \A i \in DOMAIN slots : Live(i) => peer[slots[i].socket] \notin broken
  PROVE  TableInv'
  BY DEF TableInv, Integrity, OwnConn, Served, Live, kernel

\* While the loop is not reading, no live connection is broken.
LEMMA NoneBroken ==
  ASSUME TableInv, NEW i \in DOMAIN slots, Live(i), peer[slots[i].socket] \in broken
  PROVE  pc = "scan" /\ i = cur /\ ShouldReceiveData(slots[i].socket)
  BY DEF TableInv, Served

LEMMA TableStep ==
  ASSUME Orderly, LobbyInv, [Next]_vars
  PROVE  TableInv'
<1>1. /\ TypeOK /\ TableInv /\ ~ub /\ Integrity /\ OwnConn /\ Served
      /\ slots \in Seq(SlotType) /\ DOMAIN slots = 1..Len(slots) /\ Len(slots) \in Nat
      /\ KernelTypeOK
  BY TypeGroups DEF LobbyInv, GameInv, TableInv, TableTypeOK
<1>2. CASE UNCHANGED vars
  BY <1>1, <1>2 DEF TableInv, Integrity, OwnConn, Served, Live, kernel, vars, maps,
                    ShouldReceiveData
<1>3. CASE ScanSkip
  <2>1. UNCHANGED <<slots, kernel, broken>> /\ pc = "scan" /\ cur <= Len(slots)
        /\ (Readable => peer[slots[cur].socket] \notin broken)
    BY <1>3 DEF ScanSkip, In
  <2>2. \A i \in DOMAIN slots : Live(i) => peer[slots[i].socket] \notin broken
    BY <1>1, <2>1, NoneBroken DEF Readable, In, Live
  <2> QED  BY <1>1, <2>1, <2>2, TableSame
<1>4. CASE ScanMessage
  <2>1. UNCHANGED <<slots, kernel, broken>> /\ peer[slots[cur].socket] \notin broken
    BY <1>4, RequestShape DEF ScanMessage
  <2>2. \A i \in DOMAIN slots : Live(i) => peer[slots[i].socket] \notin broken
    BY <1>1, <2>1, NoneBroken
  <2> QED  BY <1>1, <2>1, <2>2, TableSame
<1>5. CASE ScanError
  <2>1. /\ cur \in DOMAIN slots /\ Live(cur) /\ pc = "scan"
        /\ slots' = [slots EXCEPT ![cur].state = CLOSED]
        /\ open' = open \ {slots[cur].socket}
        /\ UNCHANGED <<peer, met, broken>>
    BY <1>1, <1>5 DEF ScanError, Readable, CloseClient, In, Live, KernelTypeOK
  <2>2. /\ DOMAIN slots' = DOMAIN slots
        /\ slots'[cur].state # CONNECTED
        /\ \A i \in DOMAIN slots : /\ slots'[i].socket = slots[i].socket
                                   /\ i # cur => slots'[i] = slots[i]
    <3>1. slots[cur] \in SlotType
      BY <1>1, <2>1
    <3> QED  BY <1>1, <2>1, <3>1 DEF SlotType, CLOSED, CONNECTED
  <2>3. \A i \in DOMAIN slots : i # cur /\ Live(i) => slots[i].socket # slots[cur].socket
    BY <1>1, <2>1 DEF Integrity
  <2>4. Integrity'
    BY <1>1, <2>1, <2>2, <2>3 DEF Integrity, Live
  <2>5. OwnConn'
    BY <1>1, <2>1 DEF OwnConn
  <2>6. Served'
    <3>1. \A i \in DOMAIN slots' : slots'[i].state = CONNECTED =>
             peer[slots'[i].socket] \notin broken
      BY <1>1, <2>2, NoneBroken DEF Live
    <3> QED  BY <2>1, <3>1 DEF Served, Live
  <2> QED  BY <2>4, <2>5, <2>6 DEF TableInv
<1>6. CASE ScanEnd
  <2>1. UNCHANGED <<slots, kernel, broken>> /\ cur \notin DOMAIN slots
    BY <1>1, <1>6 DEF ScanEnd, KernelTypeOK
  <2>2. \A i \in DOMAIN slots : Live(i) => peer[slots[i].socket] \notin broken
    BY <1>1, <2>1, NoneBroken
  <2> QED  BY <1>1, <2>1, <2>2, TableSame
<1>7. ASSUME UNCHANGED <<slots, kernel, broken>>, pc # "scan" PROVE TableInv'
  <2>1. \A i \in DOMAIN slots : Live(i) => peer[slots[i].socket] \notin broken
    BY <1>1, <1>7, NoneBroken
  <2> QED  BY <1>1, <1>7, <2>1, TableSame
<1>8. CASE AcceptNone \/ ReapEnd \/ Cleanup
  BY <1>7, <1>8 DEF AcceptNone, ReapEnd, Cleanup, In
<1>9. CASE DriveNone
  BY <1>7, <1>9, DriveShape
<1>10. CASE \E r \in RoomIDs : Reap(r)
  BY <1>7, <1>10, ReapShape
<1>11. CASE \E r \in RoomIDs, pid \in Pids : Launch(r, pid)
  BY <1>7, <1>11, LaunchShape
<1>12. CASE Accept
  <2>1. pc # "scan" /\ UNCHANGED broken
    BY <1>12 DEF Accept, In
  <2>2. PICK fd \in Fds, f \in Nat \ {0} :
           /\ fd \notin open
           /\ DOMAIN slots' = DOMAIN slots \union {f}
           /\ slots'[f].socket = fd /\ slots'[f].state = CONNECTED
           /\ \A j \in DOMAIN slots : j # f => slots'[j] = slots[j]
           /\ f \in DOMAIN slots => ~Live(f)
           /\ \A j \in 1..(f - 1) : j \in DOMAIN slots /\ Live(j)
           /\ peer' = [peer EXCEPT ![fd] = met + 1]
           /\ open' = open \union {fd} /\ met' = met + 1
    BY <1>1, <1>12, AcceptShape
  <2>3. /\ peer \in [Fds -> 0..MaxConns] /\ met \in Nat /\ open \subseteq Fds
        /\ \A g \in Fds : peer'[g] = IF g = fd THEN met + 1 ELSE peer[g]
        /\ broken \subseteq 1..met
        /\ \A i \in DOMAIN slots : slots[i].socket \in Fds
    <3>1. \A i \in DOMAIN slots : slots[i] \in SlotType
      BY <1>1
    <3>2. \A i \in DOMAIN slots : slots[i].socket \in Fds
      BY <3>1 DEF SlotType
    <3> QED  BY <1>1, <2>2, <3>2, ConnsAssumption DEF KernelTypeOK
  <2>4. Integrity'
    <3> SUFFICES ASSUME NEW i \in DOMAIN slots', slots'[i].state = CONNECTED
                 PROVE  /\ slots'[i].socket \in open'
                        /\ \A j \in 1..(i - 1) : slots'[j].socket # slots'[i].socket
      BY DEF Integrity, Live
    <3>1. CASE i = f
      <4>1. \A j \in 1..(f - 1) : slots'[j] = slots[j] /\ slots[j].socket \in open
        BY <1>1, <2>2 DEF Integrity
      <4> QED  BY <2>2, <3>1, <4>1
    <3>2. CASE i # f
      <4>1. i \in DOMAIN slots /\ Live(i) /\ slots'[i] = slots[i]
        BY <2>2, <3>2 DEF Live
      <4>2. slots[i].socket \in open /\ slots[i].socket # fd
        BY <1>1, <2>2, <4>1 DEF Integrity
      <4>3. ASSUME NEW j \in 1..(i - 1) PROVE slots'[j].socket # slots[i].socket
        <5>1. j \in DOMAIN slots /\ slots[j].socket # slots[i].socket
          BY <1>1, <4>1, <4>3 DEF Integrity
        <5>2. CASE j = f
          BY <2>2, <4>2, <5>2
        <5>3. CASE j # f
          BY <2>2, <5>1, <5>3
        <5> QED  BY <5>2, <5>3
      <4> QED  BY <2>2, <4>1, <4>2, <4>3
    <3> QED  BY <3>1, <3>2
  <2>5. OwnConn'
    BY <1>1, <2>2, <2>3 DEF OwnConn
  <2>6. Served'
    <3>1. ASSUME NEW i \in DOMAIN slots', slots'[i].state = CONNECTED,
                 peer'[slots'[i].socket] \in broken
          PROVE  FALSE
      <4>1. CASE i = f
        BY <2>2, <2>3, <3>1, <4>1
      <4>2. CASE i # f
        <5>1. i \in DOMAIN slots /\ Live(i) /\ slots'[i] = slots[i]
          BY <2>2, <3>1, <4>2 DEF Live
        <5>2. slots[i].socket \in open /\ slots[i].socket # fd
          BY <1>1, <2>2, <5>1 DEF Integrity
        <5>3. peer[slots[i].socket] \in broken
          BY <2>3, <3>1, <5>1, <5>2
        <5> QED  BY <1>1, <2>1, <5>1, <5>3, NoneBroken
      <4> QED  BY <4>1, <4>2
    <3> QED  BY <2>1, <3>1 DEF Served, Live
  <2> QED  BY <2>4, <2>5, <2>6 DEF TableInv
<1>13. CASE \E pid \in Pids : GameEnds(pid)
  <2>1. UNCHANGED <<slots, maps, pc, cur, kernel, broken>>
    BY <1>13 DEF GameEnds
  <2> QED  BY <1>1, <2>1 DEF TableInv, Integrity, OwnConn, Served, Live, kernel, maps,
                             ShouldReceiveData
<1>14. CASE \E c \in 1..MaxConns : Break(c)
  <2>1. PICK c \in 1..MaxConns : Break(c)
    BY <1>14
  <2>2. /\ Readable /\ peer[slots[cur].socket] = c /\ broken' = broken \union {c}
        /\ UNCHANGED <<slots, maps, pc, cur, kernel>>
    BY <2>1 DEF Break, Orderly
  <2>3. cur \in DOMAIN slots /\ Live(cur) /\ pc = "scan"
        /\ ShouldReceiveData(slots[cur].socket)
    BY <1>1, <2>2 DEF Readable, In, Live, KernelTypeOK
  <2>4. \A i \in DOMAIN slots : Live(i) /\ peer[slots[i].socket] = c => i = cur
    <3> TAKE i \in DOMAIN slots
    <3> HAVE Live(i) /\ peer[slots[i].socket] = c
    <3>1. slots[i].socket = slots[cur].socket
      BY <1>1, <2>2, <2>3 DEF Integrity, OwnConn
    <3> QED  BY <1>1, <2>3, <3>1 DEF Integrity
  <2>5. Served'
    BY <1>1, <2>2, <2>3, <2>4 DEF Served, Live, kernel, maps, ShouldReceiveData
  <2>6. Integrity' /\ OwnConn'
    BY <1>1, <2>2 DEF Integrity, OwnConn, Live, kernel
  <2> QED  BY <2>5, <2>6 DEF TableInv
<1> QED
  BY <1>2, <1>3, <1>4, <1>5, <1>6, <1>8, <1>9, <1>10, <1>11, <1>12, <1>13, <1>14
     DEF Next, ServerStep, EnvStep

\* Accepting a client moves no session: nobody was dropped.
LEMMA AcceptSessions ==
  ASSUME Orderly, LobbyInv, Accept
  PROVE  Sessions'
<1>1. TypeOK /\ Integrity /\ Sessions /\ slots \in Seq(SlotType)
      /\ peer \in [Fds -> 0..MaxConns]
  BY TypeGroups DEF LobbyInv, GameInv, TableInv, TableTypeOK, KernelTypeOK
<1>2. Dropped = {} /\ UNCHANGED maps /\ pc' = "reap"
  BY DEF Accept, Orderly
<1>3. PICK fd \in Fds, f \in Nat \ {0} :
         /\ fd \notin open
         /\ DOMAIN slots' = DOMAIN slots \union {f}
         /\ slots'[f].socket = fd /\ slots'[f].state = CONNECTED
         /\ \A j \in DOMAIN slots : j # f => slots'[j] = slots[j]
         /\ f \in DOMAIN slots => ~Live(f)
         /\ peer' = [peer EXCEPT ![fd] = met + 1]
  BY <1>1, AcceptShape
<1>4. ASSUME NEW s, NEW i \in FindSocketID(slots, s), Live(i)
      PROVE  i \in FindSocketID(slots', s) /\ slots'[i].state = CONNECTED
             /\ peer'[s] = peer[s]
  <2>1. /\ i \in DOMAIN slots /\ slots[i].socket = s
        /\ \A j \in 1..(i - 1) : slots[j].socket # s
        /\ DOMAIN slots = 1..Len(slots) /\ Len(slots) \in Nat
    BY <1>1 DEF FindSocketID
  <2>2. i # f /\ slots'[i] = slots[i] /\ s \in open /\ s # fd
    BY <1>1, <1>3, <1>4, <2>1 DEF Integrity
  <2>3. ASSUME NEW j \in 1..(i - 1) PROVE slots'[j].socket # s
    <3>1. j \in DOMAIN slots
      BY <2>1, <2>3
    <3> QED  BY <1>3, <2>1, <2>2, <2>3, <3>1
  <2>4. peer'[s] = peer[s]
    BY <1>1, <1>3, <2>2
  <2> QED  BY <1>3, <1>4, <2>1, <2>2, <2>3, <2>4 DEF FindSocketID, Live
<1>5. ASSUME NEW u \in DOMAIN lobby
      PROVE  \E i \in FindSocketID(slots, lobby[u].socket) : Live(i)
  <2>1. PICK i \in FindSocketID(slots, lobby[u].socket) : TRUE
    BY <1>1 DEF Sessions
  <2>2. slots[i].state # CLOSED
    BY <1>2, <2>1 DEF Dropped
  <2>3. slots[i] \in SlotType
    BY <1>1, <2>1 DEF FindSocketID
  <2> QED  BY <2>1, <2>2, <2>3 DEF Live, SlotType
<1>6. ASSUME NEW u \in DOMAIN lobby'
      PROVE  /\ peer'[lobby'[u].socket] = lobby'[u].conn
             /\ \E i \in FindSocketID(slots', lobby'[u].socket) : slots'[i].state = CONNECTED
  <2>1. u \in DOMAIN lobby /\ lobby'[u] = lobby[u] /\ peer[lobby[u].socket] = lobby[u].conn
    BY <1>1, <1>2 DEF maps, Sessions
  <2> QED  BY <1>4, <1>5, <2>1
<1>7. ASSUME NEW u \in DOMAIN game'
      PROVE  /\ peer'[game'[u].socket] = game'[u].conn
             /\ \E i \in FindSocketID(slots', game'[u].socket) : slots'[i].state = CONNECTED
  <2>1. /\ u \in DOMAIN game /\ game'[u] = game[u] /\ peer[game[u].socket] = game[u].conn
        /\ \E i \in FindSocketID(slots, game[u].socket) : Live(i)
    BY <1>1, <1>2 DEF maps, Sessions
  <2> QED  BY <1>4, <2>1
<1> QED  BY <1>6, <1>7 DEF Sessions, Live

LEMMA SessionStep ==
  ASSUME Orderly, LobbyInv, [Next]_vars
  PROVE  Sessions'
<1>1. /\ TypeOK /\ MapTypeOK /\ Sessions /\ slots \in Seq(SlotType)
      /\ Integrity /\ SeatInv
  BY TypeGroups DEF LobbyInv, GameInv, TableInv, TableTypeOK
<1>2. ASSUME UNCHANGED <<slots, maps, kernel>>, pc' # "drive" \/ pc' = pc PROVE Sessions'
  BY <1>1, <1>2 DEF Sessions, Live, maps, kernel
<1>3. CASE ScanSkip \/ ScanEnd \/ AcceptNone \/ ReapEnd \/ EnvStep \/ UNCHANGED vars
  BY <1>2, <1>3 DEF ScanSkip, ScanEnd, AcceptNone, ReapEnd, EnvStep, GameEnds, Break,
                    NextSlot, vars
<1>4. CASE ScanMessage
  <2>1. /\ slots' = slots /\ UNCHANGED <<game, gameRooms, kernel>> /\ pc' = "scan"
        /\ LobbyChange(slots[cur].socket)
    BY <1>4, RequestShape DEF ScanMessage, NextSlot
  <2>2. cur \in FindSocketID(slots, slots[cur].socket)
    <3>1. cur \in DOMAIN slots /\ Live(cur)
      BY <1>1, <1>4 DEF ScanMessage, Readable, Live, TypeOK
    <3> QED  BY <1>1, <3>1 DEF FindSocketID, Integrity
  <2> QED  BY <1>1, <2>1, <2>2, LobbyChangeSessions DEF kernel
<1>5. CASE ScanError
  <2>1. /\ cur \in DOMAIN slots /\ slots' = [slots EXCEPT ![cur].state = CLOSED]
        /\ UNCHANGED <<maps, peer>> /\ pc' = "scan" /\ ShouldReceiveData(slots[cur].socket)
    BY <1>1, <1>5 DEF ScanError, Readable, CloseClient, NextSlot, TypeOK
  <2>2. /\ DOMAIN slots' = DOMAIN slots
        /\ \A i \in DOMAIN slots : /\ slots'[i].socket = slots[i].socket
                                   /\ i # cur => slots'[i] = slots[i]
    <3>1. slots[cur] \in SlotType
      BY <1>1, <2>1
    <3> QED  BY <1>1, <2>1, <3>1 DEF SlotType
  <2>3. \A s : FindSocketID(slots', s) = FindSocketID(slots, s)
    <3>1. \A i \in DOMAIN slots : \A j \in 1..(i - 1) : j \in DOMAIN slots
      <4>1. DOMAIN slots = 1..Len(slots) /\ Len(slots) \in Nat
        BY <1>1
      <4> QED  BY <4>1
    <3> QED  BY <2>2, <3>1 DEF FindSocketID
  <2>4. \A u \in DOMAIN game : \A i \in FindSocketID(slots, game[u].socket) : i # cur
    BY <2>1 DEF ShouldReceiveData, FindSocketID
  <2> QED  BY <1>1, <2>1, <2>2, <2>3, <2>4 DEF Sessions, Live, maps, FindSocketID
<1>6. CASE Accept
  BY <1>6, AcceptSessions
<1>7. CASE \E r \in RoomIDs : Reap(r)
  <2>1. PICK r \in RoomIDs : Reap(r)
    BY <1>7
  <2> DEFINE mem == Member(gameRooms[r])
  <2>2. /\ slots' = slots /\ pc' = "reap" /\ peer' = peer /\ mem \subseteq DOMAIN game
        /\ game' = EraseAll(game, mem)
        /\ DOMAIN lobby' = DOMAIN lobby \union mem
        /\ \A u \in mem : /\ lobby'[u].socket = game[u].socket
                          /\ lobby'[u].conn = game[u].conn
        /\ \A u \in DOMAIN lobby : lobby'[u] = lobby[u]
    BY <2>1, ReapShape DEF kernel
  <2> HIDE DEF mem
  <2> QED  BY <1>1, <2>2 DEF Sessions, Live, EraseAll
<1>8. CASE Cleanup
  <2>1. /\ UNCHANGED <<slots, game, kernel>> /\ lobby' = EraseAll(lobby, Dropped)
    BY <1>8, CleanupShape
  <2>2. \A u \in DOMAIN lobby' :
           /\ peer[lobby[u].socket] = lobby[u].conn /\ lobby'[u] = lobby[u]
           /\ \E i \in FindSocketID(slots, lobby[u].socket) : Live(i)
    <3> TAKE u \in DOMAIN lobby'
    <3>1. u \in DOMAIN lobby /\ u \notin Dropped /\ lobby'[u] = lobby[u]
      BY <2>1 DEF EraseAll
    <3>2. PICK i \in FindSocketID(slots, lobby[u].socket) : TRUE
      BY <1>1, <3>1 DEF Sessions
    <3>3. slots[i].state # CLOSED /\ slots[i] \in SlotType
      BY <1>1, <3>1, <3>2 DEF Dropped, FindSocketID
    <3>4. Live(i)
      BY <3>3 DEF Live, SlotType
    <3> QED  BY <1>1, <3>1, <3>2, <3>4 DEF Sessions
  <2> QED  BY <1>1, <2>1, <2>2 DEF Sessions, Live, kernel
<1>9. CASE DriveNone
  BY <1>2, <1>9, DriveShape
<1>10. CASE \E r \in RoomIDs, pid \in Pids : Launch(r, pid)
  <2>1. PICK r \in RoomIDs, pid \in Pids : Launch(r, pid)
    BY <1>10
  <2> DEFINE mem == Member(lobbyRooms[r])
  <2>2. /\ slots' = slots /\ pc = "drive" /\ pc' = "scan" /\ peer' = peer
        /\ mem \subseteq DOMAIN lobby /\ lobby' = EraseAll(lobby, mem)
        /\ DOMAIN game' = DOMAIN game \union mem
        /\ \A u \in mem : game'[u] = lobby[u]
        /\ \A u \in DOMAIN game : game'[u] = game[u]
    BY <2>1, LaunchShape DEF kernel
  <2> HIDE DEF mem
  <2> QED  BY <1>1, <2>2 DEF Sessions, Live, EraseAll
<1> QED
  BY <1>3, <1>4, <1>5, <1>6, <1>7, <1>8, <1>9, <1>10 DEF Next, ServerStep

LEMMA SeatStep ==
  ASSUME Orderly, LobbyInv, [Next]_vars
  PROVE  SeatInv'
<1>1. /\ TypeOK /\ MapTypeOK /\ SeatInv
      /\ Seats(lobby, lobbyRooms) /\ Seats(game, gameRooms) /\ Limits
      /\ DOMAIN lobby \cap DOMAIN game = {}
      /\ DOMAIN lobbyRooms \cap DOMAIN gameRooms = {}
  BY TypeGroups DEF LobbyInv, GameInv, SeatInv, OneSide
<1>2. ASSUME UNCHANGED maps PROVE SeatInv'
  BY <1>1, <1>2 DEF SeatInv, Limits, OneSide, maps, Seats, Limit, Full
<1>3. CASE ScanSkip \/ ScanError \/ ScanEnd \/ Accept \/ AcceptNone \/ ReapEnd \/ EnvStep
           \/ UNCHANGED vars
  BY <1>2, <1>3 DEF ScanSkip, ScanError, ScanEnd, Accept, AcceptNone, ReapEnd, EnvStep,
                    GameEnds, Break, vars
<1>4. CASE DriveNone
  BY <1>2, <1>4, DriveShape
<1>5. CASE ScanMessage
  BY <1>1, <1>5, RequestShape, LobbyChangeSeats
<1>6. CASE Cleanup
  <2>1. /\ UNCHANGED <<game, gameRooms>> /\ lobby' = EraseAll(lobby, Dropped)
        /\ Left(lobbyRooms', lobbyRooms, Dropped)
        /\ \A r \in DOMAIN lobbyRooms' : Limit(lobbyRooms'[r])
    BY <1>6, CleanupShape
  <2>2. Seats(lobby', lobbyRooms')
    BY <1>1, <2>1, SeatsLeft
  <2>3. DOMAIN lobby' \subseteq DOMAIN lobby /\ DOMAIN lobbyRooms' \subseteq DOMAIN lobbyRooms
    BY <2>1 DEF EraseAll, Left
  <2>4. OneSide' /\ Limits'
    BY <1>1, <2>1, <2>3 DEF OneSide, Limits, Limit, Full
  <2> QED  BY <1>1, <2>1, <2>2, <2>4 DEF SeatInv, Seats
<1>7. CASE \E r \in RoomIDs : Reap(r)
  <2>1. PICK r \in RoomIDs : Reap(r)
    BY <1>7
  <2> DEFINE mem == Member(gameRooms[r])
             N   == [gameRooms[r] EXCEPT !.pid = 0]
  <2>2. /\ r \in DOMAIN gameRooms /\ mem \subseteq DOMAIN game
        /\ gameRooms' = EraseAll(gameRooms, {r}) /\ lobbyRooms' = Put(lobbyRooms, r, N)
        /\ game' = EraseAll(game, mem)
        /\ DOMAIN lobby' = DOMAIN lobby \union mem
        /\ \A u \in mem : lobby'[u].room = game[u].room
        /\ \A u \in DOMAIN lobby : lobby'[u] = lobby[u]
    BY <2>1, ReapShape DEF Erase
  <2>3. gameRooms[r] \in RoomType
    BY <1>1, <2>2 DEF MapTypeOK, IsMapOf
  <2>4. N.members = gameRooms[r].members /\ N.type = gameRooms[r].type
    BY <2>3 DEF RoomType
  <2>5. Member(N) = mem /\ Limit(N)
    <3>1. Limit(gameRooms[r])
      BY <1>1, <2>2 DEF Limits
    <3> HIDE DEF N
    <3> QED  BY <2>4, <3>1 DEF Member, Limit
  <2>6. r \notin DOMAIN lobbyRooms /\ \A u \in mem : game[u].room = r /\ u \notin DOMAIN lobby
    BY <1>1, <2>2 DEF Seats
  <2>7. Left(gameRooms', gameRooms, mem)
    <3>1. /\ DOMAIN gameRooms' = DOMAIN gameRooms \ {r}
          /\ \A q \in DOMAIN gameRooms' : gameRooms'[q] = gameRooms[q]
      BY <2>2 DEF EraseAll
    <3>2. \A q \in DOMAIN gameRooms' : Member(gameRooms[q]) \cap mem = {}
      BY <1>1, <2>6, <3>1 DEF Seats
    <3> QED  BY <3>1, <3>2 DEF Left
  <2> HIDE DEF mem, N
  <2>8. Seats(game', gameRooms')
    BY <1>1, <2>2, <2>7, SeatsLeft
  <2>9. Seats(lobby', Put(lobbyRooms, r, N))
    <3>1. /\ Member(N) \cap DOMAIN lobby = {} /\ DOMAIN lobby' = DOMAIN lobby \union Member(N)
          /\ \A u \in DOMAIN lobby : lobby'[u].room = lobby[u].room
          /\ \A u \in Member(N) : lobby'[u].room = r
      BY <2>2, <2>5, <2>6
    <3> QED  BY <1>1, <2>6, <3>1, SeatsTaken
  <2>10. Limits'
    BY <1>1, <2>2, <2>5 DEF Limits, Put, EraseAll, Limit, Full
  <2>11. OneSide'
    BY <1>1, <2>2, <2>6 DEF OneSide, Put, EraseAll
  <2> QED  BY <2>2, <2>8, <2>9, <2>10, <2>11 DEF SeatInv, Seats
<1>8. CASE \E r \in RoomIDs, pid \in Pids : Launch(r, pid)
  <2>1. PICK r \in RoomIDs, pid \in Pids : Launch(r, pid)
    BY <1>8
  <2> DEFINE mem == Member(lobbyRooms[r])
             N   == [lobbyRooms[r] EXCEPT !.pid = pid]
  <2>2. /\ r \in DOMAIN lobbyRooms /\ Full(lobbyRooms[r]) /\ mem \subseteq DOMAIN lobby
        /\ gameRooms' = Put(gameRooms, r, N) /\ lobbyRooms' = EraseAll(lobbyRooms, {r})
        /\ lobby' = EraseAll(lobby, mem)
        /\ DOMAIN game' = DOMAIN game \union mem
        /\ \A u \in mem : game'[u] = lobby[u]
        /\ \A u \in DOMAIN game : game'[u] = game[u]
    BY <2>1, LaunchShape DEF Erase
  <2>3. lobbyRooms[r] \in RoomType
    BY <1>1, <2>2 DEF MapTypeOK, IsMapOf
  <2>4. N.members = lobbyRooms[r].members /\ N.type = lobbyRooms[r].type
    BY <2>3 DEF RoomType
  <2>5. Member(N) = mem /\ Limit(N) /\ Full(N)
    <3>1. Limit(lobbyRooms[r])
      BY <1>1, <2>2 DEF Limits
    <3> HIDE DEF N
    <3> QED  BY <2>2, <2>4, <3>1 DEF Member, Limit, Full
  <2>6. r \notin DOMAIN gameRooms /\ \A u \in mem : lobby[u].room = r /\ u \notin DOMAIN game
    BY <1>1, <2>2 DEF Seats
  <2>7. Left(lobbyRooms', lobbyRooms, mem)
    <3>1. /\ DOMAIN lobbyRooms' = DOMAIN lobbyRooms \ {r}
          /\ \A q \in DOMAIN lobbyRooms' : lobbyRooms'[q] = lobbyRooms[q]
      BY <2>2 DEF EraseAll
    <3>2. \A q \in DOMAIN lobbyRooms' : Member(lobbyRooms[q]) \cap mem = {}
      BY <1>1, <2>6, <3>1 DEF Seats
    <3> QED  BY <3>1, <3>2 DEF Left
  <2> HIDE DEF mem, N
  <2>8. Seats(lobby', lobbyRooms')
    BY <1>1, <2>2, <2>7, SeatsLeft
  <2>9. Seats(game', Put(gameRooms, r, N))
    <3>1. /\ Member(N) \cap DOMAIN game = {} /\ DOMAIN game' = DOMAIN game \union Member(N)
          /\ \A u \in DOMAIN game : game'[u].room = game[u].room
          /\ \A u \in Member(N) : game'[u].room = r
      BY <2>2, <2>5, <2>6
    <3> QED  BY <1>1, <2>6, <3>1, SeatsTaken
  <2>10. Limits'
    BY <1>1, <2>2, <2>5 DEF Limits, Put, EraseAll, Limit, Full
  <2>11. OneSide'
    BY <1>1, <2>2, <2>6 DEF OneSide, Put, EraseAll
  <2> QED  BY <2>2, <2>8, <2>9, <2>10, <2>11 DEF SeatInv, Seats
<1> QED
  BY <1>3, <1>4, <1>5, <1>6, <1>7, <1>8 DEF Next, ServerStep

LEMMA DefinedStep ==
  ASSUME Orderly, LobbyInv, [Next]_vars
  PROVE  ~ub'
<1>1. ~ub
  BY DEF LobbyInv
<1>2. CASE ScanSkip \/ ScanError \/ ScanEnd \/ Accept \/ AcceptNone \/ ReapEnd \/ EnvStep
           \/ Cleanup \/ DriveNone \/ UNCHANGED vars
  BY <1>1, <1>2 DEF ScanSkip, ScanError, ScanEnd, Accept, AcceptNone, ReapEnd, EnvStep,
                    GameEnds, Break, Cleanup, DriveNone, vars
<1>3. CASE ScanMessage
  BY <1>3, RequestShape
<1>4. CASE \E r \in RoomIDs : Reap(r)
  BY <1>4, ReapShape
<1>5. CASE \E r \in RoomIDs, pid \in Pids : Launch(r, pid)
  BY <1>5, LaunchShape
<1> QED  BY <1>2, <1>3, <1>4, <1>5 DEF Next, ServerStep

\* Every process keeps its room until it was waited for.
LEMMA GameHasRoomStep ==
  ASSUME LobbyInv, [Next]_vars
  PROVE  GameHasRoom'
<1>1. /\ TypeOK /\ GameHasRoom /\ HasPid /\ RoomHasGame
      /\ kids \in [Pids -> {"none", "running", "zombie"}]
      /\ DOMAIN lobbyRooms \cap DOMAIN gameRooms = {}
      /\ IsMapOf(lobbyRooms, RoomIDs, RoomType)
  BY DEF LobbyInv, GameInv, TypeOK, SeatInv, OneSide
<1>2. CASE \E r \in Over : /\ gameRooms' = Erase(gameRooms, r)
                            /\ kids' = [kids EXCEPT ![gameRooms[r].pid] = "none"]
  <2>1. PICK r \in Over : /\ gameRooms' = Erase(gameRooms, r)
                          /\ kids' = [kids EXCEPT ![gameRooms[r].pid] = "none"]
    BY <1>2
  <2>2. /\ DOMAIN gameRooms' = DOMAIN gameRooms \ {r}
        /\ \A q \in DOMAIN gameRooms' : gameRooms'[q] = gameRooms[q]
    BY <2>1 DEF Erase, EraseAll
  <2>3. \A p \in Pids : kids'[p] # "none" => p # gameRooms[r].pid /\ kids[p] # "none"
    BY <1>1, <2>1
  <2> QED  BY <1>1, <2>2, <2>3 DEF GameHasRoom
<1>3. CASE \E r \in DOMAIN lobbyRooms, pid \in Pids :
             /\ kids' = [kids EXCEPT ![pid] = "running"]
             /\ gameRooms' = Put(gameRooms, r, [lobbyRooms[r] EXCEPT !.pid = pid])
  <2>1. PICK r \in DOMAIN lobbyRooms, pid \in Pids :
             /\ kids' = [kids EXCEPT ![pid] = "running"]
             /\ gameRooms' = Put(gameRooms, r, [lobbyRooms[r] EXCEPT !.pid = pid])
    BY <1>3
  <2>2. [lobbyRooms[r] EXCEPT !.pid = pid].pid = pid
    <3>1. lobbyRooms[r] \in RoomType
      BY <1>1 DEF IsMapOf
    <3> QED  BY <3>1 DEF RoomType
  <2>3. /\ DOMAIN gameRooms' = DOMAIN gameRooms \union {r} /\ gameRooms'[r].pid = pid
        /\ \A q \in DOMAIN gameRooms : gameRooms'[q] = gameRooms[q]
    BY <1>1, <2>1, <2>2 DEF Put
  <2>4. \A p \in Pids : kids'[p] # "none" => p = pid \/ kids[p] # "none"
    BY <1>1, <2>1
  <2> QED  BY <1>1, <2>3, <2>4 DEF GameHasRoom
<1>4. CASE /\ gameRooms' = gameRooms
           /\ kids' = kids \/ \E pid \in Pids :
                 kids[pid] = "running" /\ kids' = [kids EXCEPT ![pid] = "zombie"]
  <2>1. \A p \in Pids : kids'[p] # "none" => kids[p] # "none"
    BY <1>1, <1>4
  <2> QED  BY <1>1, <1>4, <2>1 DEF GameHasRoom
<1> QED  BY <1>1, <1>2, <1>3, <1>4, GameRoomShape

LEMMA LobbyInit == Init => LobbyInv
<1> SUFFICES ASSUME Init PROVE LobbyInv
  OBVIOUS
<1>1. GameInv
  BY TypeInit DEF Init, GameInv, HasPid, RoomHasGame, EmptyMap
<1>2. DOMAIN slots = {} /\ DOMAIN EmptyMap = {}
  BY DEF Init, EmptyMap
<1>3. TableInv
  BY <1>2 DEF Init, TableInv, Integrity, OwnConn, Served, NoConn
<1>4. Sessions
  BY <1>2 DEF Init, Sessions
<1>5. SeatInv
  BY <1>2 DEF Init, SeatInv, Seats, Limits, OneSide
<1>6. GameHasRoom /\ ~ub
  BY DEF Init, GameHasRoom
<1> QED  BY <1>1, <1>3, <1>4, <1>5, <1>6 DEF LobbyInv

LEMMA LobbyInvInvariant == Orderly /\ Spec => []LobbyInv
<1> DEFINE Inv == Orderly /\ LobbyInv
<1>1. Inv /\ [Next]_vars => Inv'
  BY GameStep, DefinedStep, TableStep, SessionStep, SeatStep, GameHasRoomStep
     DEF LobbyInv, Orderly
<1>2. Orderly /\ Init => Inv
  BY LobbyInit
<1>3. Inv => LobbyInv
  OBVIOUS
<1> QED  BY <1>1, <1>2, <1>3, PTL DEF Spec
----------------------------------------------------------------------------
(* What the invariant says.                                                *)

\* The room a player believes it is in and the room that lists it agree, through
\* joins, quits, drops, launches and returns.
THEOREM SeatAgreesHolds == Orderly /\ Spec => []SeatAgrees
<1>1. LobbyInv => SeatAgrees
  <2> SUFFICES ASSUME LobbyInv PROVE SeatAgrees
    OBVIOUS
  <2>1. Seats(lobby, lobbyRooms) /\ Seats(game, gameRooms)
    BY DEF LobbyInv, SeatInv
  <2>2. NoRoom \notin RoomIDs
    BY RoomsAssumption DEF NoRoom
  <2> QED  BY <2>1, <2>2 DEF SeatAgrees, Seats
<1> QED  BY <1>1, LobbyInvInvariant, PTL

\* Nobody who is signed in nowhere is left in a room.
THEOREM OfflineCleanHolds == Orderly /\ Spec => []OfflineClean
<1>1. LobbyInv => OfflineClean
  BY DEF LobbyInv, SeatInv, Seats, OfflineClean, AllRooms
<1> QED  BY <1>1, LobbyInvInvariant, PTL

\* Rooms are never empty or overfull, hold nobody twice, and are full in a game.
THEOREM RoomLimitsHolds == Orderly /\ Spec => []RoomLimits
<1>1. LobbyInv => RoomLimits
  BY DEF LobbyInv, SeatInv, Limits, Limit, RoomLimits, AllRooms
<1> QED  BY <1>1, LobbyInvInvariant, PTL

\* A user is in the lobby or in a game, and so is a room number.
THEOREM OneSideHolds == Orderly /\ Spec => []OneSide
<1>1. LobbyInv => OneSide
  BY DEF LobbyInv, SeatInv
<1> QED  BY <1>1, LobbyInvInvariant, PTL

\* Every game process has a room in a game, by which it is waited for.
THEOREM GameHasRoomHolds == Orderly /\ Spec => []GameHasRoom
<1>1. LobbyInv => GameHasRoom
  BY DEF LobbyInv
<1> QED  BY <1>1, LobbyInvInvariant, PTL

\* A connection acts only for users that signed in over it, however slots and
\* descriptors are reused.
THEOREM SessionOwnerHolds == Orderly /\ Spec => []SessionOwner
<1>1. LobbyInv => SessionOwner
  BY DEF LobbyInv, Sessions, SessionOwner
<1> QED  BY <1>1, LobbyInvInvariant, PTL

\* The table is never indexed with -1, and no game is launched without players.
THEOREM NoUndefinedHolds == Orderly /\ Spec => []NoUndefined
<1>1. LobbyInv => NoUndefined
  BY DEF LobbyInv, NoUndefined
<1> QED  BY <1>1, LobbyInvInvariant, PTL
=============================================================================
