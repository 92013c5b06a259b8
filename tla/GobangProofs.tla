---------------------------- MODULE GobangProofs ----------------------------
(***************************************************************************)
(* Proofs about GobangGame, for every board, every length of a line, every *)
(* interval and all profiles.                                              *)
(***************************************************************************)
EXTENDS GobangGame, SequenceTheorems, FiniteSetTheorems, TLAPS

\* A message under way is a request.
MailKnown == \A c \in Client : stage[c] # "none" => mail[c] \in Requests
TypeInv == TypeOK /\ MailKnown

Slots == [Client -> {"CONNECTED", "CLOSED"}]
Move == [at : Spots, client : Client]
----------------------------------------------------------------------------
(* Lemmas.                                                                 *)

\* A notification leaves slots what they are.
LEMMA SentToType ==
    ASSUME NEW C, NEW sl \in Slots
    PROVE  SentTo(C, sl) \in Slots
BY DEF SentTo, Slots

\* What is handled is one of six requests.
LEMMA HandleCases ==
    ASSUME NEW c, NEW r \in Requests, Handle(c, r)
    PROVE  \/ \E p \in Spots \union {Off} : r = <<"PieceOn", p>> /\ PieceOn(c, p)
           \/ r = <<"QuitGame">> /\ QuitGame(c)
           \/ r = <<"GiveUp">> /\ GiveUp(c)
           \/ r = <<"TakeBack">> /\ TakeBack(c)
           \/ \E b \in {0, 1} : r = <<"TakeBackResponse", b>> /\ TakeBackResponse(c, b)
           \/ \E b \in {0, 1} : r = <<"READY", b>> /\ READY(c, b)
<1>1. CASE \E p \in Spots \union {Off} : r = <<"PieceOn", p>>
  BY <1>1, Handle(c, r) DEF Handle
<1>2. CASE r \in {<<"QuitGame">>, <<"GiveUp">>, <<"TakeBack">>}
  BY <1>2, Handle(c, r) DEF Handle
<1>3. CASE \E b \in {0, 1} : r = <<"TakeBackResponse", b>>
  BY <1>3, Handle(c, r) DEF Handle
<1>4. CASE \E b \in {0, 1} : r = <<"READY", b>>
  BY <1>4, Handle(c, r) DEF Handle
<1> QED BY <1>1, <1>2, <1>3, <1>4 DEF Requests
----------------------------------------------------------------------------
(* Types, in groups.                                                       *)

BoardType == /\ pieces \in [Board -> {0, 1, EMPTY}]
             /\ expClient \in Client
             /\ last \in Spots \union {Off}
             /\ history \in Seq(Move)
FlagType  == /\ winOne \in {None, 0, 1}
             /\ ready \in [Client -> BOOLEAN] /\ quit \in [Client -> BOOLEAN]
             /\ {takeBack, started, closeGame, ub} \subseteq BOOLEAN
             /\ lost \subseteq Client
ClockType == secPassed \in 0..INTERVAL + 1 /\ dt \in 0..INTERVAL + 1
LoopType  == slot \in Slots /\ pc \in Client \union {TICK, END}
EnvType   == /\ mail \in [Client -> Requests \union {NoMail}]
             /\ stage \in [Client -> {"none", "here", "head"}]
             /\ alive \subseteq Client /\ left \subseteq Client
             /\ habits \subseteq Habits
             /\ MailKnown
TypeGroups == BoardType /\ FlagType /\ ClockType /\ LoopType /\ EnvType

LEMMA TypeGroupsAll == TypeGroups <=> TypeInv
BY DEF TypeGroups, BoardType, FlagType, ClockType, LoopType, EnvType, TypeInv, TypeOK, Move, Slots

LEMMA TypeInit == Init => TypeGroups
<1> SUFFICES ASSUME Init PROVE TypeGroups
  OBVIOUS
<1>1. BoardType
  <2>1. pieces \in [Board -> {0, 1, EMPTY}]
    BY DEF Init, EmptyBoard
  <2>2. history \in Seq(Move)
    BY DEF Init
  <2> QED  BY <2>1, <2>2 DEF Init, BoardType, Client
<1>2. FlagType
  BY DEF Init, FlagType
<1>3. ClockType
  BY IntervalAssumption DEF Init, ClockType
<1>4. LoopType
  BY DEF Init, LoopType, Slots, Client
<1>5. EnvType
  BY ProfilesAssumption DEF Init, EnvType, MailKnown
<1> QED  BY <1>1, <1>2, <1>3, <1>4, <1>5 DEF TypeGroups

\* The board after a piece is placed, and after the last two are taken back.
LEMMA TypePlace ==
    ASSUME BoardType, NEW c \in Client, NEW p \in Spots, Place(c, p)
    PROVE  BoardType'
<1>1. history' = Append(history, [at |-> p, client |-> c])
  BY DEF Place
<1>2. [at |-> p, client |-> c] \in Move
  BY DEF Move
<1>3. history' \in Seq(Move)
  BY <1>1, <1>2 DEF BoardType
<1>4. pieces' \in [Board -> {0, 1, EMPTY}]
  BY DEF Place, BoardType, Client
<1>5. expClient' \in Client
  BY DEF Place, Client, Other
<1>6. last' \in Spots \union {Off}
  BY DEF Place
<1> QED  BY <1>3, <1>4, <1>5, <1>6 DEF BoardType

LEMMA TypeAgree ==
    ASSUME BoardType, LoopType, Agree
    PROVE  BoardType' /\ slot' \in Slots /\ ub' \in {TRUE, ub}
<1>1. CASE Len(history) < 3
  BY <1>1 DEF Agree, BoardType, LoopType, board
<1>2. CASE ~(Len(history) < 3)
  <2>1. history \in Seq(Move) /\ Len(history) \in Nat
    BY DEF BoardType
  <2>2. history' \in Seq(Move)
    <3>1. history' = SubSeq(history, 1, Len(history) - 2)
      BY <1>2 DEF Agree, Kept
    <3>2. \A i \in 1..(Len(history) - 2) : history[i] \in Move
      BY <2>1, ElementOfSeq
    <3> QED  BY <2>1, <3>1, <3>2, SubSeqProperties
  <2>3. At(Len(history) - 2) \in Spots
    <3>1. history[Len(history) - 2] \in Move
      BY <1>2, <2>1, ElementOfSeq
    <3> QED  BY <3>1 DEF At, Move
  <2>4. slot' \in Slots
    BY <1>2, SentToType DEF Agree, Notify, LoopType
  <2>5. pieces' \in [Board -> {0, 1, EMPTY}]
    BY <1>2 DEF Agree, BoardType
  <2> QED
    BY <1>2, <2>2, <2>3, <2>4, <2>5 DEF Agree, BoardType
<1> QED  BY <1>1, <1>2

\* Each handler.
LEMMA TypeHandle ==
    ASSUME TypeGroups, NEW c \in Client, NEW r \in Requests, Handle(c, r)
    PROVE  BoardType' /\ FlagType' /\ ClockType' /\ slot' \in Slots
<1>1. BoardType /\ FlagType /\ ClockType /\ LoopType /\ slot \in Slots
  BY DEF TypeGroups, LoopType
<1>2. ASSUME Nothing PROVE BoardType' /\ FlagType' /\ ClockType' /\ slot' \in Slots
  BY <1>1, <1>2 DEF Nothing, board, flags, clock, BoardType, FlagType, ClockType
<1>3. Other(c) \in {0, 1}
  BY DEF Other, Client
<1>4. ASSUME NEW p \in Spots \union {Off}, PieceOn(c, p)
      PROVE  BoardType' /\ FlagType' /\ ClockType' /\ slot' \in Slots
  <2>1. CASE ~Permitted(c)
    BY <1>2, <1>4, <2>1 DEF PieceOn
  <2>2. CASE Permitted(c) /\ p = Off
    BY <1>1, <1>4, <2>2 DEF PieceOn, board, flags, clock, BoardType, FlagType, ClockType
  <2>3. CASE Permitted(c) /\ p # Off /\ pieces[p] # EMPTY
    BY <1>2, <1>4, <2>3 DEF PieceOn
  <2>4. CASE Permitted(c) /\ p # Off /\ ~(pieces[p] # EMPTY)
    <3>1. Place(c, p) /\ Notify(Client) /\ UNCHANGED <<flags, ub, lost>>
      BY <1>4, <2>4 DEF PieceOn
    <3>2. BoardType'
      BY <1>1, <2>4, <3>1, TypePlace
    <3>3. ClockType'
      BY <3>1, IntervalAssumption DEF Place, ClockType
    <3>4. FlagType'
      BY <1>1, <3>1 DEF flags, FlagType
    <3>5. slot' \in Slots
      BY <1>1, <3>1, SentToType DEF Notify
    <3> QED  BY <3>2, <3>3, <3>4, <3>5
  <2> QED  BY <2>1, <2>2, <2>3, <2>4
<1>5. ASSUME QuitGame(c) PROVE BoardType' /\ FlagType' /\ ClockType' /\ slot' \in Slots
  <2>1. BoardType' /\ ClockType'
    BY <1>1, <1>5 DEF QuitGame, board, clock, BoardType, ClockType
  <2>2. quit' \in [Client -> BOOLEAN] /\ closeGame' \in BOOLEAN
    BY <1>1, <1>5 DEF QuitGame, FlagType
  <2>3. slot' \in Slots
    <3>1. [slot EXCEPT ![c] = "CLOSED"] \in Slots
      BY <1>1 DEF Slots
    <3> QED  BY <1>5, <3>1, SentToType DEF QuitGame
  <2> QED  BY <1>1, <1>5, <2>1, <2>2, <2>3 DEF QuitGame, FlagType
<1>6. ASSUME GiveUp(c) PROVE BoardType' /\ FlagType' /\ ClockType' /\ slot' \in Slots
  <2>1. BoardType' /\ ClockType'
    BY <1>1, <1>6 DEF GiveUp, board, clock, BoardType, ClockType
  <2>2. slot' \in Slots
    BY <1>1, <1>6, SentToType DEF GiveUp, Notify
  <2> QED  BY <1>1, <1>3, <1>6, <2>1, <2>2 DEF GiveUp, FlagType
<1>7. ASSUME TakeBack(c) PROVE BoardType' /\ FlagType' /\ ClockType' /\ slot' \in Slots
  <2>1. CASE Len(history) < 3 \/ ~Permitted(c)
    BY <1>2, <1>7, <2>1 DEF TakeBack
  <2>2. CASE ~(Len(history) < 3 \/ ~Permitted(c))
    <3>1. BoardType' /\ ClockType'
      BY <1>1, <1>7, <2>2 DEF TakeBack, board, clock, BoardType, ClockType
    <3>2. slot' \in Slots
      BY <1>1, <1>7, <2>2, SentToType DEF TakeBack, Notify
    <3> QED  BY <1>1, <1>7, <2>2, <3>1, <3>2 DEF TakeBack, FlagType
  <2> QED  BY <2>1, <2>2
<1>8. ASSUME NEW b \in {0, 1}, TakeBackResponse(c, b)
      PROVE  BoardType' /\ FlagType' /\ ClockType' /\ slot' \in Slots
  <2>1. ClockType'
    BY <1>1, <1>8 DEF TakeBackResponse, clock, ClockType
  <2>2. BoardType' /\ slot' \in Slots /\ ub' \in {TRUE, ub}
    <3>1. CASE b = 1
      BY <1>1, <1>8, <3>1, TypeAgree DEF TakeBackResponse
    <3>2. CASE b # 1
      BY <1>1, <1>8, <3>2, SentToType DEF TakeBackResponse, Notify, board, BoardType
    <3> QED  BY <3>1, <3>2
  <2> QED  BY <1>1, <1>8, <2>1, <2>2 DEF TakeBackResponse, FlagType
<1>9. ASSUME NEW b \in {0, 1}, READY(c, b)
      PROVE  BoardType' /\ FlagType' /\ ClockType' /\ slot' \in Slots
  <2>1. BoardType' /\ ClockType'
    BY <1>1, <1>9 DEF READY, board, clock, BoardType, ClockType
  <2>2. slot' \in Slots
    BY <1>1, <1>9, SentToType DEF READY, Notify
  <2>3. ready' \in [Client -> BOOLEAN]
    BY <1>1, <1>9 DEF READY, FlagType
  <2> QED  BY <1>1, <1>9, <2>1, <2>2, <2>3 DEF READY, FlagType
<1> QED  BY <1>4, <1>5, <1>6, <1>7, <1>8, <1>9, HandleCases

\* Time stays within its bound.
LEMMA LaterType ==
    ASSUME ClockType, NEW e \in Elapsed
    PROVE  Later(e) \in 0..INTERVAL + 1
<1>1. e \in 0..2
  BY DEF Elapsed
<1> QED  BY <1>1, IntervalAssumption DEF ClockType, Later

\* Each step of the loop.
LEMMA TypeLoop ==
    ASSUME TypeGroups, Loop
    PROVE  TypeGroups'
<1>1. BoardType /\ FlagType /\ ClockType /\ LoopType /\ EnvType /\ slot \in Slots
  BY DEF TypeGroups, LoopType
<1>2. ASSUME UNCHANGED board PROVE BoardType'
  BY <1>1, <1>2 DEF board, BoardType
<1>3. ASSUME UNCHANGED <<flags, ub, lost>> PROVE FlagType'
  BY <1>1, <1>3 DEF flags, FlagType
<1>4. ASSUME UNCHANGED clock PROVE ClockType'
  BY <1>1, <1>4 DEF clock, ClockType
<1>5. ASSUME UNCHANGED env PROVE EnvType'
  BY <1>1, <1>5 DEF env, EnvType, MailKnown
<1>6. ASSUME NextSlot \/ NextTurn PROVE pc' \in Client \union {TICK, END}
  BY <1>6 DEF NextSlot, NextTurn, Client
<1>7. CASE SlotSkip
  BY <1>7, <1>2, <1>4, <1>5, <1>3, <1>6, <1>1 DEF SlotSkip, LoopType, TypeGroups
<1>8. CASE SlotHead
  <2>1. EnvType'
    BY <1>8, <1>1 DEF SlotHead, EnvType, MailKnown
  <2> QED
    BY <1>8, <1>2, <1>4, <2>1, <1>3, <1>6, <1>1 DEF SlotHead, LoopType, TypeGroups
<1>9. CASE SlotMessage
  <2>1. pc \in Client /\ mail[pc] \in Requests
    BY <1>9, <1>1 DEF SlotMessage, EnvType, MailKnown
  <2>2. BoardType' /\ FlagType' /\ ClockType' /\ slot' \in Slots
    BY <1>9, <2>1, TypeHandle DEF SlotMessage
  <2>3. EnvType'
    BY <1>9, <1>1 DEF SlotMessage, EnvType, MailKnown
  <2> QED
    BY <1>9, <1>6, <2>2, <2>3 DEF SlotMessage, LoopType, TypeGroups
<1>10. CASE SlotError
  <2>1. slot' \in Slots
    BY <1>10, <1>1 DEF SlotError, Slots
  <2> QED
    BY <1>10, <1>2, <1>4, <1>5, <1>3, <1>6, <2>1 DEF SlotError, LoopType, TypeGroups
<1>11. ASSUME NEW e \in Elapsed, TickWaits(e) PROVE TypeGroups'
  <2>1. ClockType'
    BY <1>11, <1>1, LaterType DEF TickWaits, ClockType
  <2> QED
    BY <1>11, <1>2, <1>5, <1>3, <1>6, <1>1, <2>1 DEF TickWaits, LoopType, TypeGroups
<1>12. CASE TickStarts
  <2>1. BoardType'
    <3>1. pieces' \in [Board -> {0, 1, EMPTY}]
      BY <1>12 DEF TickStarts, Init_Gobang, EmptyBoard
    <3>2. history' \in Seq(Move)
      BY <1>12 DEF TickStarts, Init_Gobang
    <3> QED  BY <1>12, <3>1, <3>2 DEF TickStarts, Init_Gobang, BoardType, Client
  <2>2. FlagType'
    BY <1>12, <1>1 DEF TickStarts, Init_Gobang, FlagType
  <2>3. ClockType'
    BY <1>12, IntervalAssumption DEF TickStarts, Init_Gobang, ClockType
  <2>4. LoopType'
    BY <1>12, <1>6, <1>1, SentToType DEF TickStarts, Notify, LoopType
  <2> QED
    BY <1>12, <1>5, <2>1, <2>2, <2>3, <2>4 DEF TickStarts, TypeGroups
<1>13. CASE TickEnds
  <2>1. FlagType'
    BY <1>13, <1>1 DEF TickEnds, FlagType
  <2>2. ClockType'
    BY <1>13, <1>1, IntervalAssumption DEF TickEnds, ClockType
  <2>3. LoopType'
    BY <1>13, <1>6, <1>1, SentToType DEF TickEnds, Notify, LoopType
  <2> QED
    BY <1>13, <1>2, <1>5, <2>1, <2>2, <2>3 DEF TickEnds, TypeGroups
<1>14. ASSUME NEW e \in Elapsed, TickClock(e) PROVE TypeGroups'
  <2>1. FlagType'
    <3>1. Other(expClient) \in {0, 1} /\ expClient \in Client
      BY <1>1 DEF BoardType, Client, Other
    <3>2. winOne' \in {None, 0, 1} /\ lost' \subseteq Client
      BY <1>14, <1>1, <3>1 DEF TickClock, Timeout, FlagType
    <3> QED  BY <1>14, <1>1, <3>2 DEF TickClock, FlagType
  <2>2. ClockType'
    BY <1>14, <1>1, LaterType DEF TickClock, ClockType
  <2>3. slot' \in Slots
    BY <1>14, <1>1, SentToType DEF TickClock, Notify
  <2> QED
    BY <1>14, <1>2, <1>5, <1>6, <2>1, <2>2, <2>3 DEF TickClock, LoopType, TypeGroups
<1> QED
  BY <1>7, <1>8, <1>9, <1>10, <1>11, <1>12, <1>13, <1>14 DEF Loop, Tick, TickIn

\* Each step of a client, and none.
LEMMA TypeClient ==
    ASSUME TypeGroups, ClientStep \/ UNCHANGED vars
    PROVE  TypeGroups'
<1>1. BoardType /\ FlagType /\ ClockType /\ LoopType /\ EnvType
  BY DEF TypeGroups
<1>2. ASSUME UNCHANGED <<board, flags, clock, slot, pc, ub, lost>>
      PROVE  BoardType' /\ FlagType' /\ ClockType' /\ LoopType'
  BY <1>1, <1>2 DEF board, flags, clock, BoardType, FlagType, ClockType, LoopType
<1>3. ASSUME NEW c \in Client, NEW r \in Requests, ClientSends(c, r)
      PROVE  TypeGroups'
  <2>1. EnvType'
    BY <1>3, <1>1 DEF ClientSends, EnvType, MailKnown
  <2> QED  BY <1>3, <1>2, <2>1 DEF ClientSends, TypeGroups
<1>4. ASSUME NEW c \in Client, Break(c) PROVE TypeGroups'
  <2>1. EnvType'
    BY <1>4, <1>1 DEF Break, EnvType, MailKnown
  <2> QED  BY <1>4, <1>2, <2>1 DEF Break, TypeGroups
<1>5. CASE UNCHANGED vars
  <2>1. EnvType'
    BY <1>5, <1>1 DEF vars, env, EnvType, MailKnown
  <2> QED  BY <1>5, <1>2, <2>1 DEF vars, TypeGroups
<1> QED  BY <1>3, <1>4, <1>5 DEF ClientStep

LEMMA TypeAlways == Spec => []TypeGroups
<1>1. TypeGroups /\ [Next]_vars => TypeGroups'
  BY TypeLoop, TypeClient DEF Next
<1> QED  BY <1>1, TypeInit, PTL DEF Spec

\* Whatever clients send and however connections break, the game's state, the
\* clock and the mailboxes are what they should be.
THEOREM GobangTypes == Spec => []TypeOK
BY TypeAlways, TypeGroupsAll, PTL DEF TypeInv
----------------------------------------------------------------------------
(* The board is its history.                                               *)

LEMMA Parity == \A n \in Nat : (n + 1) % 2 = 1 - (n % 2) /\ (n + 2) % 2 = n % 2
OBVIOUS

LEMMA MoveType ==
    ASSUME BoardType, NEW k \in 1..Len(history)
    PROVE  At(k) \in Board /\ history[k].client \in Client
<1>1. history[k] \in Move
  BY ElementOfSeq DEF BoardType
<1>2. history[k].at \in Spots /\ history[k].client \in Client
  BY <1>1 DEF Move
<1> QED  BY <1>2, BoardAssumption DEF At

\* A move onto an empty spot.
LEMMA PlaceKeepsBoard ==
    ASSUME BoardType, BoardIsHistory,
           NEW c \in Client, NEW p \in Spots, expClient = c, pieces[p] = EMPTY, Place(c, p)
    PROVE  BoardIsHistory'
<1> DEFINE m == [at |-> p, client |-> c]
<1>1. PICK n \in Nat : n = Len(history)
  BY DEF BoardType
<1>2. /\ history \in Seq(Move) /\ n \in Nat /\ m \in Move
  BY DEF BoardType, Move
<1>3. /\ Len(history') = n + 1 /\ history'[n + 1] = m
      /\ \A k \in 1..n : history'[k] = history[k]
  BY <1>1, <1>2 DEF Place
<1>4. HIDE DEF m
<1>5. \A k \in 1..n : At(k) # p
  <2> SUFFICES ASSUME NEW k \in 1..n, At(k) = p PROVE FALSE
    OBVIOUS
  <2>1. p \in Board /\ history[k].client \in Client
    BY <1>1, MoveType
  <2>2. pieces[p] = history[k].client
    BY <1>1, <2>1 DEF BoardIsHistory, OnBoard
  <2> QED  BY <2>1, <2>2 DEF Client, EMPTY
<1>6. \A k \in 1..n : At(k)' = At(k)
  BY <1>3 DEF At
<1>7. At(n + 1)' = p /\ history'[n + 1].client = c
  BY <1>3 DEF At, m
<1>8. Alternates'
  <2> SUFFICES ASSUME NEW k \in 1..(n + 1) PROVE history'[k].client = (k - 1) % 2
    BY <1>3 DEF Alternates
  <2>1. CASE k = n + 1
    <3>1. c = n % 2
      BY <1>1 DEF BoardIsHistory
    <3> QED  BY <1>2, <1>7, <2>1, <3>1
  <2>2. CASE k # n + 1
    <3>1. k \in 1..n
      BY <1>2, <2>2
    <3> QED  BY <1>1, <1>3, <3>1 DEF BoardIsHistory, Alternates
  <2> QED  BY <2>1, <2>2
<1>9. Distinct'
  <2> SUFFICES ASSUME NEW k \in 1..(n + 1), NEW j \in 1..(n + 1), At(k)' = At(j)' PROVE k = j
    BY <1>3 DEF Distinct
  <2>1. CASE k \in 1..n /\ j \in 1..n
    BY <1>1, <1>6, <2>1 DEF BoardIsHistory, Distinct
  <2>2. CASE k = n + 1 \/ j = n + 1
    BY <1>2, <1>5, <1>6, <1>7, <2>2
  <2> QED  BY <1>2, <2>1, <2>2
<1>10. OnBoard'
  <2> SUFFICES ASSUME NEW q \in Board
               PROVE  /\ (\A k \in 1..(n + 1) : At(k)' # q) => pieces'[q] = EMPTY
                      /\ \A k \in 1..(n + 1) : At(k)' = q => pieces'[q] = history'[k].client
    BY <1>3 DEF OnBoard
  <2>1. /\ p = q => pieces'[q] = c
        /\ p # q => pieces'[q] = pieces[q]
    BY DEF Place, BoardType
  <2>2. CASE q = p
    <3>1. \A k \in 1..(n + 1) : At(k)' = q => k = n + 1
      BY <1>2, <1>5, <1>6, <2>2
    <3>2. n + 1 \in 1..(n + 1)
      BY <1>2
    <3> QED  BY <1>7, <2>1, <2>2, <3>1, <3>2
  <2>3. CASE q # p
    <3>1. \A k \in 1..(n + 1) : At(k)' = q => k \in 1..n
      BY <1>2, <1>7, <2>3
    <3>2. \A k \in 1..n : k \in 1..(n + 1)
      BY <1>2
    <3>3. /\ (\A k \in 1..n : At(k) # q) => pieces[q] = EMPTY
          /\ \A k \in 1..n : At(k) = q => pieces[q] = history[k].client
      BY <1>1 DEF BoardIsHistory, OnBoard
    <3> QED  BY <1>3, <1>6, <2>1, <2>3, <3>1, <3>2, <3>3
  <2> QED  BY <2>2, <2>3
<1>11. LastMarked'
  <2>1. history' # << >>
    BY <1>2, <1>3
  <2> QED  BY <1>3, <1>7, <2>1 DEF LastMarked, Place
<1>12. expClient' = Len(history') % 2
  <2>1. expClient' = 1 - expClient
    BY DEF Place, Other
  <2>2. expClient = n % 2
    BY <1>1 DEF BoardIsHistory
  <2> QED  BY <1>3, <2>1, <2>2, Parity
<1> QED  BY <1>8, <1>9, <1>10, <1>11, <1>12 DEF BoardIsHistory

\* A take-back that was agreed on.
LEMMA AgreeKeepsBoard ==
    ASSUME BoardType, BoardIsHistory, Agree
    PROVE  BoardIsHistory'
<1>1. CASE Len(history) < 3
  BY <1>1 DEF Agree, board, BoardIsHistory, Alternates, Distinct, OnBoard, LastMarked, At
<1>2. CASE ~(Len(history) < 3)
  <2>1. history \in Seq(Move) /\ Len(history) \in Nat
    BY DEF BoardType
  <2>2. PICK n \in Nat : n >= 1 /\ Len(history) = n + 2
    <3>1. Len(history) - 2 \in Nat /\ Len(history) - 2 >= 1
      BY <1>2, <2>1
    <3> QED  BY <2>1, <3>1
  <2>3. /\ Len(history') = n /\ \A k \in 1..n : history'[k] = history[k]
    <3>1. history' = SubSeq(history, 1, n)
      BY <1>2, <2>2 DEF Agree, Kept
    <3>2. \A i \in 1..n : history[i] \in Move
      BY <2>1, <2>2, ElementOfSeq
    <3> QED  BY <2>2, <3>1, <3>2, SubSeqProperties
  <2>4. \A k \in 1..n : At(k)' = At(k)
    BY <2>3 DEF At
  <2>5. \A k \in 1..n : k \in 1..Len(history)
    BY <2>2
  <2>6. Alternates' /\ Distinct'
    BY <2>3, <2>4, <2>5 DEF BoardIsHistory, Alternates, Distinct
  <2>7. \A k \in 1..Len(history) : k \in 1..n \/ k = n + 1 \/ k = n + 2
    BY <2>2
  <2>8. At(n + 1) \in Board /\ At(n + 2) \in Board
    <3>1. n + 1 \in 1..Len(history) /\ n + 2 \in 1..Len(history)
      BY <2>2
    <3> QED  BY <3>1, MoveType
  <2>9. \A q \in Board : pieces'[q] = IF q = At(n + 1) \/ q = At(n + 2) THEN EMPTY ELSE pieces[q]
    <3>1. pieces' = [pieces EXCEPT ![At(n + 2)] = EMPTY, ![At(n + 1)] = EMPTY]
      BY <1>2, <2>2 DEF Agree
    <3> QED  BY <2>8, <3>1 DEF BoardType
  <2>10. OnBoard'
    <3> SUFFICES ASSUME NEW q \in Board
                 PROVE  /\ (\A k \in 1..n : At(k)' # q) => pieces'[q] = EMPTY
                        /\ \A k \in 1..n : At(k)' = q => pieces'[q] = history'[k].client
      BY <2>3 DEF OnBoard
    <3>1. /\ (\A k \in 1..Len(history) : At(k) # q) => pieces[q] = EMPTY
          /\ \A k \in 1..Len(history) : At(k) = q => pieces[q] = history[k].client
      BY DEF BoardIsHistory, OnBoard
    <3>2. CASE q = At(n + 1) \/ q = At(n + 2)
      <4>1. \A k \in 1..n : At(k) # q
        <5>1. n + 1 \in 1..Len(history) /\ n + 2 \in 1..Len(history)
          BY <2>2
        <5>2. \A k \in 1..n : k # n + 1 /\ k # n + 2
          BY <2>2
        <5> QED  BY <2>5, <3>2, <5>1, <5>2 DEF BoardIsHistory, Distinct
      <4> QED  BY <2>4, <2>9, <3>2, <4>1
    <3>3. CASE ~(q = At(n + 1) \/ q = At(n + 2))
      BY <2>3, <2>4, <2>5, <2>7, <2>9, <3>1, <3>3
    <3> QED  BY <3>2, <3>3
  <2>11. LastMarked'
    <3>1. history' # << >> /\ n \in 1..n
      BY <2>2, <2>3
    <3>2. last' = At(n)
      BY <1>2, <2>2 DEF Agree
    <3> QED  BY <2>3, <2>4, <3>1, <3>2 DEF LastMarked
  <2>12. expClient' = Len(history') % 2
    <3>1. expClient' = expClient
      BY <1>2 DEF Agree
    <3> QED  BY <2>2, <2>3, <3>1, Parity DEF BoardIsHistory
  <2> QED  BY <2>6, <2>10, <2>11, <2>12 DEF BoardIsHistory
<1> QED  BY <1>1, <1>2

LEMMA BoardUnchanged ==
    ASSUME BoardIsHistory, UNCHANGED board
    PROVE  BoardIsHistory'
BY DEF board, BoardIsHistory, Alternates, Distinct, OnBoard, LastMarked, At

\* A new board has no history.
LEMMA EmptyBoardIsHistory ==
    /\ Init => BoardIsHistory
    /\ Init_Gobang => BoardIsHistory'
<1>1. ASSUME NEW b, NEW h, b = EmptyBoard, h = << >>
      PROVE  \A p \in Board : b[p] = EMPTY /\ Len(h) = 0 /\ Len(h) % 2 = 0
  BY <1>1 DEF EmptyBoard
<1>2. Init => BoardIsHistory
  BY <1>1 DEF Init, BoardIsHistory, Alternates, Distinct, OnBoard, LastMarked
<1>3. Init_Gobang => BoardIsHistory'
  BY <1>1 DEF Init_Gobang, BoardIsHistory, Alternates, Distinct, OnBoard, LastMarked
<1> QED  BY <1>2, <1>3

LEMMA HandleKeepsBoard ==
    ASSUME TypeGroups, BoardIsHistory, NEW c \in Client, NEW r \in Requests, Handle(c, r)
    PROVE  BoardIsHistory'
<1>1. BoardType
  BY DEF TypeGroups
<1>2. ASSUME NEW p \in Spots \union {Off}, PieceOn(c, p) PROVE BoardIsHistory'
  <2>1. CASE UNCHANGED board
    BY <2>1, BoardUnchanged
  <2>2. CASE ~UNCHANGED board
    <3>1. p \in Spots /\ expClient = c /\ pieces[p] = EMPTY /\ Place(c, p)
      BY <1>2, <2>2 DEF PieceOn, Nothing, Permitted
    <3> QED  BY <1>1, <3>1, PlaceKeepsBoard
  <2> QED  BY <2>1, <2>2
<1>3. CASE QuitGame(c)
  BY <1>3, BoardUnchanged DEF QuitGame
<1>4. CASE GiveUp(c)
  BY <1>4, BoardUnchanged DEF GiveUp
<1>5. CASE TakeBack(c)
  BY <1>5, BoardUnchanged DEF TakeBack, Nothing
<1>6. ASSUME NEW b \in {0, 1}, TakeBackResponse(c, b) PROVE BoardIsHistory'
  BY <1>6, <1>1, AgreeKeepsBoard, BoardUnchanged DEF TakeBackResponse
<1>7. ASSUME NEW b \in {0, 1}, READY(c, b) PROVE BoardIsHistory'
  BY <1>7, BoardUnchanged DEF READY
<1> QED  BY <1>2, <1>3, <1>4, <1>5, <1>6, <1>7, HandleCases

LEMMA BoardStep ==
    ASSUME TypeGroups, BoardIsHistory, [Next]_vars
    PROVE  BoardIsHistory'
<1>1. CASE SlotMessage
  <2>1. pc \in Client /\ mail[pc] \in Requests
    BY <1>1 DEF SlotMessage, TypeGroups, EnvType, MailKnown
  <2> QED  BY <1>1, <2>1, HandleKeepsBoard DEF SlotMessage
<1>2. CASE TickStarts
  BY <1>2, EmptyBoardIsHistory DEF TickStarts
<1>3. CASE UNCHANGED board
  BY <1>3, BoardUnchanged
<1>4. SlotSkip \/ SlotHead \/ SlotError \/ TickEnds => UNCHANGED board
  BY DEF SlotSkip, SlotHead, SlotError, TickEnds
<1>5. \A e \in Elapsed : TickIn(e) => UNCHANGED board
  BY DEF TickIn, TickWaits, TickClock
<1>6. ClientStep => UNCHANGED board
  BY DEF ClientStep, Break, ClientSends
<1>7. UNCHANGED vars => UNCHANGED board
  BY DEF vars
<1> QED  BY <1>1, <1>2, <1>3, <1>4, <1>5, <1>6, <1>7 DEF Next, Loop, Tick

\* Through moves, take-backs and new games, and whatever clients send, the board
\* is what the history says: GobangGame.cpp:187-213 and 263-288.
THEOREM GobangBoard == Spec => []BoardIsHistory
<1>1. TypeGroups /\ BoardIsHistory /\ [Next]_vars => BoardIsHistory'
  BY BoardStep
<1> QED  BY <1>1, TypeAlways, EmptyBoardIsHistory, PTL DEF Spec
----------------------------------------------------------------------------
(* Nothing undefined.                                                      *)

\* Clients that keep to the board and answer what they are asked.
Proper == habits \intersect {"unasked", "off_board"} = {}

\* A take-back is asked for with three pieces or more on the board, and the answer
\* under way finds the question still asked: no game starts before it is handled.
Answering(c) == stage[c] # "none" /\ mail[c][1] = "TakeBackResponse"
AskedInv ==
    /\ takeBack => Len(history) >= 3
    /\ Proper =>
         /\ ~ub
         /\ \A c \in Client :
              /\ Answering(c) => takeBack /\ expClient # c /\ (started \/ ~ready[c])
              /\ stage[c] # "none" /\ mail[c][1] = "PieceOn" => mail[c][2] # Off

LEMMA AskedInit == Init => AskedInv
BY DEF Init, AskedInv, Answering

\* What a handler called for c keeps of it.
KeepsAsked(c) ==
    /\ takeBack' => Len(history') >= 3
    /\ Proper => ~ub'
    /\ Proper => \A d \in Client \ {c} :
         Answering(d) => takeBack' /\ expClient' # d /\ (started' \/ ~ready'[d])

LEMMA AskedHandle ==
    ASSUME TypeGroups, AskedInv, SlotMessage
    PROVE  KeepsAsked(pc)
<1> DEFINE c == pc
           r == mail[pc]
<1>1. c \in Client /\ r \in Requests /\ stage[c] = "head" /\ Handle(c, r)
  BY DEF SlotMessage, TypeGroups, EnvType, MailKnown
<1>2. BoardType /\ FlagType
  BY DEF TypeGroups
<1>3. HIDE DEF c, r
<1>4. ASSUME UNCHANGED <<takeBack, history, ub, expClient, started>>,
             \A d \in Client \ {c} : ready'[d] = ready[d]
      PROVE  KeepsAsked(c)
  BY <1>4 DEF AskedInv, KeepsAsked
<1>5. ASSUME NEW p \in Spots \union {Off}, r = <<"PieceOn", p>>, PieceOn(c, p)
      PROVE  KeepsAsked(c)
  <2>1. CASE Nothing
    BY <1>4, <2>1 DEF Nothing, board, flags
  <2>2. CASE ~Nothing /\ p = Off
    <3>1. ~Proper
      BY <1>1, <1>5, <2>2 DEF AskedInv, r, c
    <3>2. UNCHANGED <<takeBack, history>>
      BY <1>5, <2>2 DEF PieceOn, board, flags
    <3> QED  BY <3>1, <3>2 DEF AskedInv, KeepsAsked
  <2>3. CASE ~Nothing /\ p # Off
    <3>1. ~takeBack /\ UNCHANGED <<takeBack, ub>>
      BY <1>5, <2>3 DEF PieceOn, Permitted, flags
    <3> QED  BY <3>1 DEF AskedInv, KeepsAsked
  <2> QED  BY <2>1, <2>2, <2>3
<1>6. ASSUME QuitGame(c) PROVE KeepsAsked(c)
  BY <1>4, <1>6 DEF QuitGame, board
<1>7. ASSUME GiveUp(c) PROVE KeepsAsked(c)
  BY <1>4, <1>7 DEF GiveUp, board
<1>8. ASSUME TakeBack(c) PROVE KeepsAsked(c)
  <2>1. CASE Nothing
    BY <1>4, <2>1 DEF Nothing, board, flags
  <2>2. CASE ~Nothing
    <3>1. Len(history) >= 3 /\ ~takeBack
      BY <1>8, <1>2, <2>2 DEF TakeBack, Permitted, BoardType
    <3>2. UNCHANGED <<ub, history>>
      BY <1>8, <2>2 DEF TakeBack, board
    <3> QED  BY <3>1, <3>2 DEF AskedInv, KeepsAsked
  <2> QED  BY <2>1, <2>2
<1>9. ASSUME NEW b \in {0, 1}, r = <<"TakeBackResponse", b>>, TakeBackResponse(c, b)
      PROVE  KeepsAsked(c)
  <2>1. ~takeBack'
    BY <1>9 DEF TakeBackResponse
  <2>2. ASSUME Proper
        PROVE  ~ub /\ Len(history) >= 3 /\ expClient # c
    <3>1. Answering(c)
      BY <1>1, <1>9 DEF Answering, r, c
    <3> QED  BY <1>1, <2>2, <3>1 DEF AskedInv
  <2>3. Proper => ~ub'
    <3>1. ~(Len(history) < 3) /\ ~ub => ~ub'
      BY <1>9 DEF TakeBackResponse, Agree
    <3> QED  BY <1>2, <2>2, <3>1 DEF BoardType
  <2>4. Proper => \A d \in Client \ {c} : ~Answering(d)
    <3>1. Proper => \A d \in Client : Answering(d) => expClient # d
      BY DEF AskedInv
    <3> QED  BY <1>1, <1>2, <2>2, <3>1 DEF BoardType, Client
  <2> QED  BY <2>1, <2>3, <2>4 DEF KeepsAsked
<1>10. ASSUME NEW b \in {0, 1}, READY(c, b) PROVE KeepsAsked(c)
  <2>1. \A d \in Client \ {c} : ready'[d] = ready[d]
    BY <1>10, <1>2 DEF READY, FlagType
  <2> QED  BY <1>4, <1>10, <2>1 DEF READY, board
<1>11. KeepsAsked(c)
  BY <1>1, <1>5, <1>6, <1>7, <1>8, <1>9, <1>10, HandleCases
<1> QED  BY <1>11 DEF c

LEMMA AskedStep ==
    ASSUME TypeGroups, AskedInv, [Next]_vars
    PROVE  AskedInv'
<1>1. BoardType /\ FlagType /\ EnvType
  BY DEF TypeGroups
<1>2. ASSUME UNCHANGED <<takeBack, history, expClient, ub, started, habits, ready, mail>>,
             \A d \in Client : stage'[d] # "none" => stage[d] # "none"
      PROVE  AskedInv'
  BY <1>2 DEF AskedInv, Answering, Proper
<1>3. CASE SlotMessage
  <2>1. KeepsAsked(pc) /\ pc \in Client
    BY <1>3, AskedHandle DEF SlotMessage
  <2>2. /\ stage'[pc] = "none" /\ habits' = habits
        /\ \A d \in Client \ {pc} : stage'[d] = stage[d] /\ mail'[d] = mail[d]
    BY <1>3, <1>1, <2>1 DEF SlotMessage, EnvType
  <2> QED  BY <2>1, <2>2 DEF AskedInv, KeepsAsked, Answering, Proper
<1>4. CASE SlotHead
  <2>1. \A d \in Client : stage'[d] # "none" => stage[d] # "none"
    BY <1>4, <1>1 DEF SlotHead, EnvType
  <2> QED  BY <1>4, <1>2, <2>1 DEF SlotHead, board, flags
<1>5. CASE SlotSkip \/ SlotError
  BY <1>5, <1>2 DEF SlotSkip, SlotError, board, flags, env
<1>6. CASE TickStarts
  <2>1. ~started /\ \A d \in Client : ready[d]
    BY <1>6 DEF TickStarts, IsBothReady, Client
  <2>2. Proper => \A d \in Client : ~Answering(d)
    BY <2>1 DEF AskedInv
  <2>3. ~takeBack' /\ UNCHANGED <<ub, mail, stage, habits>>
    BY <1>6 DEF TickStarts, Init_Gobang, env
  <2> QED  BY <2>2, <2>3 DEF AskedInv, Answering, Proper
<1>7. CASE TickEnds
  <2>1. \A d \in Client : ~ready'[d]
    BY <1>7 DEF TickEnds
  <2>2. UNCHANGED <<takeBack, history, expClient, ub, habits, mail, stage>>
    BY <1>7 DEF TickEnds, board, env
  <2> QED  BY <2>1, <2>2 DEF AskedInv, Answering, Proper
<1>8. ASSUME NEW e \in Elapsed, TickIn(e) PROVE AskedInv'
  BY <1>8, <1>2 DEF TickIn, TickWaits, TickClock, board, flags, env
<1>9. ASSUME NEW c \in Client, Break(c) PROVE AskedInv'
  <2>1. /\ UNCHANGED <<takeBack, history, expClient, ub, started, habits, ready>>
        /\ stage'[c] = "none"
        /\ \A d \in Client \ {c} : stage'[d] = stage[d] /\ mail'[d] = mail[d]
    BY <1>9, <1>1 DEF Break, board, flags, EnvType
  <2> QED  BY <2>1 DEF AskedInv, Answering, Proper
<1>10. ASSUME NEW c \in Client, NEW r \in Requests, ClientSends(c, r) PROVE AskedInv'
  <2>1. /\ UNCHANGED <<takeBack, history, expClient, ub, started, habits, ready>>
        /\ mail'[c] = r
        /\ \A d \in Client \ {c} : stage'[d] = stage[d] /\ mail'[d] = mail[d]
    BY <1>10, <1>1 DEF ClientSends, board, flags, EnvType
  <2>2. Proper /\ r[1] = "TakeBackResponse" => started /\ takeBack /\ expClient # c
    BY <1>10 DEF ClientSends, May, Proper, Has
  <2>3. Proper /\ r[1] = "PieceOn" => r[2] # Off
    BY <1>10 DEF ClientSends, May, Proper, Has
  <2> QED  BY <2>1, <2>2, <2>3 DEF AskedInv, Answering, Proper
<1>11. CASE UNCHANGED vars
  BY <1>11, <1>2 DEF vars, board, flags, env
<1> QED
  BY <1>3, <1>4, <1>5, <1>6, <1>7, <1>8, <1>9, <1>10, <1>11 DEF Next, Loop, Tick, ClientStep

\* Clients that place pieces on the board and answer the take-backs they are
\* asked for never make the program pop an empty list or index off the board
\* (GobangGame.cpp:187 and 263), even if they play ahead, break off or take back
\* that they are ready.
THEOREM GobangDefined == Spec => []NoUndefined
<1>1. TypeGroups /\ AskedInv /\ [Next]_vars => AskedInv'
  BY AskedStep
<1>2. AskedInv => NoUndefined
  BY DEF AskedInv, NoUndefined, Proper
<1> QED  BY <1>1, <1>2, AskedInit, TypeAlways, PTL DEF Spec
----------------------------------------------------------------------------
(* Who wins.                                                               *)

\* The spot k from p in direction d holds a piece like the one at p.
Cell(b, p, d, k) ==
    LET q == <<p[1] + k * d[1], p[2] + k * d[2]>> IN q \in Board /\ b[q] = b[p]

\* As far as a scan reaches, it has seen such pieces.
LEMMA ReachSees ==
    ASSUME NEW b, NEW p, NEW d
    PROVE  Reach(b, p, d) \in Nat /\ \A k \in 1..Reach(b, p, d) : Cell(b, p, d, k)
<1> DEFINE R == {k \in 1..N : \A m \in 1..k : Cell(b, p, d, m)}
<1>1. Reach(b, p, d) = Cardinality(R)
  BY DEF Reach, Cell
<1>2. IsFiniteSet(1..N)
  BY BoardAssumption, FS_Interval
<1>3. IsFiniteSet(R) /\ Cardinality(R) \in Nat
  BY <1>2, FS_Subset, FS_CardinalityType
<1>4. ASSUME NEW k \in 1..Cardinality(R) PROVE Cell(b, p, d, k)
  <2> SUFFICES ASSUME k \notin R PROVE FALSE
    BY <1>3
  <2>1. k \in Nat /\ k >= 1
    BY <1>3
  <2>2. R \subseteq 1..(k - 1)
    <3> SUFFICES ASSUME NEW j \in R, j >= k PROVE FALSE
      BY <2>1, BoardAssumption
    <3>1. k \in 1..N /\ \A m \in 1..k : m \in 1..j
      BY <2>1, BoardAssumption
    <3> QED  BY <3>1
  <2>3. IsFiniteSet(1..(k - 1)) /\ Cardinality(1..(k - 1)) = k - 1
    BY <2>1, FS_Interval
  <2>4. Cardinality(R) <= k - 1
    BY <2>2, <2>3, FS_Subset
  <2> QED  BY <1>3, <2>1, <2>4
<1> QED  BY <1>1, <1>3, <1>4

\* Two scans in opposite directions that see FIVE - 1 pieces make a line.
LEMMA AlongMakesLine ==
    ASSUME NEW b, NEW p \in Board, NEW d \in {<<0, 1>>, <<1, 0>>, <<1, 1>>, <<1, -1>>},
           Along(b, p, d) >= FIVE - 1
    PROVE  \E l \in Lines : p \in l /\ Full(b, l, b[p])
<1> DEFINE e == <<-d[1], -d[2]>>
<1>1. PICK f \in Nat : f = Reach(b, p, d) /\ \A k \in 1..f : Cell(b, p, d, k)
  BY ReachSees
<1>2. PICK g \in Nat : g = Reach(b, p, e) /\ \A k \in 1..g : Cell(b, p, e, k)
  BY ReachSees
<1>3. f + g >= FIVE - 1 /\ FIVE \in Nat /\ FIVE >= 1
  BY <1>1, <1>2, BoardAssumption DEF Along
<1>4. PICK j \in 0..g : j <= FIVE - 1 /\ FIVE - 1 - j <= f
  <2>1. CASE g <= FIVE - 1
    BY <1>1, <1>2, <1>3, <2>1
  <2>2. CASE ~(g <= FIVE - 1)
    <3>1. FIVE - 1 \in 0..g /\ FIVE - 1 - (FIVE - 1) <= f
      BY <1>1, <1>2, <1>3, <2>2
    <3> QED  BY <1>3, <3>1
  <2> QED  BY <2>1, <2>2
<1>5. p[1] \in Int /\ p[2] \in Int /\ p = <<p[1], p[2]>>
  BY BoardAssumption DEF Board
<1>6. \A k \in Int : -g <= k /\ k <= f => Cell(b, p, d, k)
  <2> SUFFICES ASSUME NEW k \in Int, -g <= k, k <= f PROVE Cell(b, p, d, k)
    OBVIOUS
  <2>1. CASE k >= 1
    BY <1>1, <2>1
  <2>2. CASE k = 0
    <3>1. <<p[1] + k * d[1], p[2] + k * d[2]>> = p
      BY <1>5, <2>2
    <3> QED  BY <3>1 DEF Cell
  <2>3. CASE k <= -1
    <3>1. -k \in 1..g
      BY <1>2, <2>3
    <3>2. Cell(b, p, e, -k)
      BY <1>2, <3>1
    <3>3. (-k) * e[1] = k * d[1] /\ (-k) * e[2] = k * d[2]
      <4>1. d = <<0, 1>> \/ d = <<1, 0>> \/ d = <<1, 1>> \/ d = <<1, -1>>
        OBVIOUS
      <4> QED  BY <4>1
    <3> QED  BY <3>2, <3>3 DEF Cell
  <2> QED  BY <2>1, <2>2, <2>3
<1> DEFINE q == <<p[1] - j * d[1], p[2] - j * d[2]>>
<1>7. \A k \in 0..FIVE - 1 :
        <<q[1] + k * d[1], q[2] + k * d[2]>> \in Board /\ b[<<q[1] + k * d[1], q[2] + k * d[2]>>] = b[p]
  <2> SUFFICES ASSUME NEW k \in 0..FIVE - 1
               PROVE  Cell(b, p, d, k - j) /\ q[1] + k * d[1] = p[1] + (k - j) * d[1]
                                           /\ q[2] + k * d[2] = p[2] + (k - j) * d[2]
    BY DEF Cell
  <2>1. k - j \in Int /\ -g <= k - j /\ k - j <= f
    BY <1>1, <1>2, <1>3, <1>4
  <2>2. d = <<0, 1>> \/ d = <<1, 0>> \/ d = <<1, 1>> \/ d = <<1, -1>>
    OBVIOUS
  <2>3. j \in Int /\ k \in Int
    BY <1>2, <1>3, <1>4
  <2>4. q[1] + k * d[1] = p[1] + (k - j) * d[1] /\ q[2] + k * d[2] = p[2] + (k - j) * d[2]
    BY <1>5, <2>2, <2>3
  <2> QED  BY <1>6, <2>1, <2>4
<1>8. q \in Board
  <2>1. 0 \in 0..FIVE - 1 /\ q[1] + 0 * d[1] = q[1] /\ q[2] + 0 * d[2] = q[2]
    <3>1. d = <<0, 1>> \/ d = <<1, 0>> \/ d = <<1, 1>> \/ d = <<1, -1>>
      OBVIOUS
    <3>2. j \in Int
      BY <1>2, <1>4
    <3> QED  BY <1>3, <1>5, <3>1, <3>2
  <2> QED  BY <1>7, <2>1
<1>9. \E k \in 0..FIVE - 1 : p = <<q[1] + k * d[1], q[2] + k * d[2]>>
  <2>1. d = <<0, 1>> \/ d = <<1, 0>> \/ d = <<1, 1>> \/ d = <<1, -1>>
    OBVIOUS
  <2>2. j \in 0..FIVE - 1
    BY <1>2, <1>3, <1>4
  <2>3. p[1] = q[1] + j * d[1] /\ p[2] = q[2] + j * d[2]
    BY <1>5, <2>1, <2>2
  <2>4. p = <<q[1] + j * d[1], q[2] + j * d[2]>>
    BY <1>5, <2>3
  <2> QED  BY <2>2, <2>4
<1>10. HIDE DEF q
<1>11. Line(q, d) \in Lines
  <2>1. Line(q, d) \subseteq Board
    BY <1>7 DEF Line
  <2> QED  BY <1>8, <2>1 DEF Lines
<1>12. Full(b, Line(q, d), b[p])
  BY <1>7 DEF Full, Line
<1>13. p \in Line(q, d)
  BY <1>9 DEF Line
<1> QED  BY <1>11, <1>12, <1>13

\* Pieces like the one at p on all k spots next to it: the scan reaches k.
LEMMA ReachAtLeast ==
    ASSUME NEW b, NEW p \in Board, NEW k \in Nat,
           NEW d \in {<<0, 1>>, <<1, 0>>, <<1, 1>>, <<1, -1>>,
                      <<0, -1>>, <<-1, 0>>, <<-1, -1>>, <<-1, 1>>},
           \A m \in 1..k : Cell(b, p, d, m)
    PROVE  Reach(b, p, d) >= k
<1> DEFINE R == {i \in 1..N : \A m \in 1..i : Cell(b, p, d, m)}
<1>1. Reach(b, p, d) = Cardinality(R)
  BY DEF Reach, Cell
<1>2. IsFiniteSet(R)
  <2>1. IsFiniteSet(1..N)
    BY BoardAssumption, FS_Interval
  <2> QED  BY <2>1, FS_Subset
<1>3. k <= N
  <2>1. CASE k = 0
    BY <2>1, BoardAssumption
  <2>2. CASE k # 0
    <3>1. Cell(b, p, d, k)
      BY <2>2
    <3>2. /\ p[1] \in 0..N - 1 /\ p[2] \in 0..N - 1
          /\ p[1] + k * d[1] \in 0..N - 1 /\ p[2] + k * d[2] \in 0..N - 1
      BY <3>1 DEF Cell, Board
    <3>3. \/ d = <<0, 1>> \/ d = <<1, 0>> \/ d = <<1, 1>> \/ d = <<1, -1>>
          \/ d = <<0, -1>> \/ d = <<-1, 0>> \/ d = <<-1, -1>> \/ d = <<-1, 1>>
      OBVIOUS
    <3> QED  BY <3>2, <3>3, BoardAssumption
  <2> QED  BY <2>1, <2>2
<1>4. 1..k \subseteq R
  <2> SUFFICES ASSUME NEW i \in 1..k PROVE i \in 1..N /\ \A m \in 1..i : m \in 1..k
    OBVIOUS
  <2> QED  BY <1>3, BoardAssumption
<1>5. Cardinality(1..k) = k
  BY FS_Interval
<1> QED  BY <1>1, <1>2, <1>4, <1>5, FS_Subset

\* A line through p is seen by the two scans along it.
LEMMA LineIsSeen ==
    ASSUME NEW b, NEW p \in Board, NEW d \in {<<0, 1>>, <<1, 0>>, <<1, 1>>, <<1, -1>>},
           NEW q \in Board, Line(q, d) \subseteq Board, Full(b, Line(q, d), b[p]),
           p \in Line(q, d)
    PROVE  Along(b, p, d) >= FIVE - 1
<1> DEFINE e == <<-d[1], -d[2]>>
<1>1. FIVE \in Nat /\ FIVE >= 1 /\ q[1] \in Int /\ q[2] \in Int
  BY BoardAssumption DEF Board
<1>2. PICK j \in 0..FIVE - 1 : p = <<q[1] + j * d[1], q[2] + j * d[2]>>
  BY DEF Line
<1>3. d = <<0, 1>> \/ d = <<1, 0>> \/ d = <<1, 1>> \/ d = <<1, -1>>
  OBVIOUS
<1>4. \A k \in 0..FIVE - 1 : LET r == <<q[1] + k * d[1], q[2] + k * d[2]>>
                             IN r \in Board /\ b[r] = b[p]
  BY DEF Line, Full
<1>5. \A m \in 1..(FIVE - 1 - j) : Cell(b, p, d, m)
  <2> SUFFICES ASSUME NEW m \in 1..(FIVE - 1 - j) PROVE Cell(b, p, d, m)
    OBVIOUS
  <2>1. j + m \in 0..FIVE - 1
    BY <1>1
  <2>2. p[1] + m * d[1] = q[1] + (j + m) * d[1] /\ p[2] + m * d[2] = q[2] + (j + m) * d[2]
    BY <1>1, <1>2, <1>3
  <2>3. <<p[1] + m * d[1], p[2] + m * d[2]>> = <<q[1] + (j + m) * d[1], q[2] + (j + m) * d[2]>>
    BY <2>2
  <2> QED  BY <1>4, <2>1, <2>3 DEF Cell
<1>6. \A m \in 1..j : Cell(b, p, e, m)
  <2> SUFFICES ASSUME NEW m \in 1..j PROVE Cell(b, p, e, m)
    OBVIOUS
  <2>1. j - m \in 0..FIVE - 1
    BY <1>1
  <2>2. p[1] + m * e[1] = q[1] + (j - m) * d[1] /\ p[2] + m * e[2] = q[2] + (j - m) * d[2]
    BY <1>1, <1>2, <1>3
  <2>3. <<p[1] + m * e[1], p[2] + m * e[2]>> = <<q[1] + (j - m) * d[1], q[2] + (j - m) * d[2]>>
    BY <2>2
  <2> QED  BY <1>4, <2>1, <2>3 DEF Cell
<1>7. e \in {<<0, -1>>, <<-1, 0>>, <<-1, -1>>, <<-1, 1>>}
  BY <1>3
<1>8. HIDE DEF e
<1>9. FIVE - 1 - j \in Nat /\ j \in Nat
  BY <1>1
<1>10. Reach(b, p, d) >= FIVE - 1 - j
  BY <1>5, <1>9, <1>3, ReachAtLeast
<1>11. Reach(b, p, e) >= j
  BY <1>6, <1>7, <1>9, ReachAtLeast
<1>12. Reach(b, p, d) \in Nat /\ Reach(b, p, e) \in Nat
  BY ReachSees
<1>13. Along(b, p, d) = Reach(b, p, d) + Reach(b, p, e)
  BY DEF Along, e
<1> QED  BY <1>1, <1>9, <1>10, <1>11, <1>12, <1>13

\* The two scans along a direction are those along the opposite one.
LEMMA AlongBothWays ==
    ASSUME NEW b, NEW p
    PROVE  Along(b, p, <<-1, 1>>) = Along(b, p, <<1, -1>>)
<1>1. /\ Along(b, p, <<-1, 1>>) = Reach(b, p, <<-1, 1>>) + Reach(b, p, <<1, -1>>)
      /\ Along(b, p, <<1, -1>>) = Reach(b, p, <<1, -1>>) + Reach(b, p, <<-1, 1>>)
  BY DEF Along
<1>2. Reach(b, p, <<-1, 1>>) \in Nat /\ Reach(b, p, <<1, -1>>) \in Nat
  BY ReachSees
<1> QED  BY <1>1, <1>2

\* The winner found from p is the one with a full line through p.
LEMMA LineWinnerExact ==
    ASSUME NEW b, NEW p \in Board
    PROVE  LineWinner(b, p) =
             IF \E l \in Lines : p \in l /\ Full(b, l, b[p]) THEN b[p] ELSE None
<1>1. p # Off
  BY BoardAssumption DEF Board, Off
<1>2. ASSUME NEW d \in Directions, Along(b, p, d) >= FIVE - 1
      PROVE  \E l \in Lines : p \in l /\ Full(b, l, b[p])
  <2>1. CASE d = <<-1, 1>>
    BY <1>2, <2>1, AlongBothWays, AlongMakesLine
  <2>2. CASE d # <<-1, 1>>
    BY <1>2, <2>2, AlongMakesLine DEF Directions
  <2> QED  BY <2>1, <2>2
<1>3. ASSUME NEW l \in Lines, p \in l, Full(b, l, b[p])
      PROVE  \E d \in Directions : Along(b, p, d) >= FIVE - 1
  <2>1. l \subseteq Board /\ \E q \in Board, d \in {<<0, 1>>, <<1, 0>>, <<1, 1>>, <<1, -1>>} :
                                l = Line(q, d)
    BY DEF Lines
  <2>2. PICK q \in Board : \E d \in {<<0, 1>>, <<1, 0>>, <<1, 1>>, <<1, -1>>} : l = Line(q, d)
    BY <2>1
  <2>3. PICK d \in {<<0, 1>>, <<1, 0>>, <<1, 1>>, <<1, -1>>} : l = Line(q, d)
    BY <2>2
  <2>4. Along(b, p, d) >= FIVE - 1
    BY <1>3, <2>1, <2>3, LineIsSeen
  <2>5. CASE d = <<1, -1>>
    BY <2>4, <2>5, AlongBothWays DEF Directions
  <2>6. CASE d # <<1, -1>>
    BY <2>4, <2>6 DEF Directions
  <2> QED  BY <2>5, <2>6
<1> QED  BY <1>1, <1>2, <1>3 DEF LineWinner

LEMMA LineWinnerHasFive ==
    ASSUME NEW b, NEW p \in Board, LineWinner(b, p) # None
    PROVE  LineWinner(b, p) = b[p] /\ HasFive(b, b[p])
BY LineWinnerExact DEF HasFive

\* Four scans of a direction and its opposite from the last piece
\* (GobangGame.cpp:104-146) find a line exactly where one goes through that
\* piece, on boards of every size and for lines of every length.
THEOREM GobangScans == Spec => []WinnerIsLine
<1>1. ScansAgree
  <2> SUFFICES ASSUME NEW b \in [Board -> {0, 1, EMPTY}], NEW p \in Board
               PROVE  LineWinner(b, p) =
                        IF {m \in Lines : p \in m /\ Full(b, m, b[p])} # {} THEN b[p] ELSE None
    BY DEF ScansAgree
  <2>1. {m \in Lines : p \in m /\ Full(b, m, b[p])} # {}
          <=> \E l \in Lines : p \in l /\ Full(b, l, b[p])
    OBVIOUS
  <2> QED  BY <2>1, LineWinnerExact
<1>2. WinnerIsLine
  BY <1>1 DEF WinnerIsLine
<1> QED  BY <1>2, PTL

\* A winner that is set is the other of one that gave up or ran out of time.
WinInv == winOne # None => Other(winOne) \in lost

LEMMA OtherTwice == \A c \in Client : Other(c) \in Client /\ Other(Other(c)) = c
BY DEF Client, Other

LEMMA WinStep ==
    ASSUME TypeGroups, WinInv, [Next]_vars
    PROVE  WinInv'
<1>1. BoardType /\ FlagType
  BY DEF TypeGroups
<1>2. ASSUME UNCHANGED <<winOne, lost>> PROVE WinInv'
  BY <1>2 DEF WinInv
<1>3. CASE SlotMessage
  <2>1. pc \in Client /\ mail[pc] \in Requests /\ Handle(pc, mail[pc])
    BY <1>3 DEF SlotMessage, TypeGroups, EnvType, MailKnown
  <2>2. ASSUME GiveUp(pc) PROVE WinInv'
    BY <2>1, <2>2, OtherTwice DEF GiveUp, WinInv
  <2>3. \/ \E p \in Spots \union {Off} : PieceOn(pc, p)
        \/ QuitGame(pc) \/ GiveUp(pc) \/ TakeBack(pc)
        \/ \E b \in {0, 1} : TakeBackResponse(pc, b)
        \/ \E b \in {0, 1} : READY(pc, b)
    BY <2>1, HandleCases
  <2>4. ASSUME NEW p, PieceOn(pc, p) PROVE WinInv'
    BY <1>2, <2>4 DEF PieceOn, Nothing, flags
  <2>5. ASSUME NEW b, TakeBackResponse(pc, b) \/ READY(pc, b) PROVE WinInv'
    BY <1>2, <2>5 DEF TakeBackResponse, READY
  <2>6. ASSUME QuitGame(pc) \/ TakeBack(pc) PROVE WinInv'
    BY <1>2, <2>6 DEF QuitGame, TakeBack, Nothing, flags
  <2> QED  BY <2>2, <2>3, <2>4, <2>5, <2>6
<1>4. CASE TickStarts
  BY <1>4 DEF TickStarts, Init_Gobang, WinInv
<1>5. ASSUME NEW e \in Elapsed, TickClock(e) PROVE WinInv'
  <2>1. UNCHANGED <<winOne, lost>>
        \/ (winOne' = Other(expClient) /\ lost' = lost \union {expClient})
    BY <1>5 DEF TickClock, Timeout
  <2> QED  BY <1>1, <1>2, <2>1, OtherTwice DEF BoardType, WinInv
<1>6. ASSUME NEW e \in Elapsed, TickWaits(e) PROVE WinInv'
  BY <1>6, <1>2 DEF TickWaits, flags
<1>7. CASE SlotSkip \/ SlotHead \/ SlotError \/ TickEnds
  BY <1>7, <1>2 DEF SlotSkip, SlotHead, SlotError, TickEnds, flags
<1>8. CASE ClientStep \/ UNCHANGED vars
  BY <1>8, <1>2 DEF ClientStep, Break, ClientSends, vars, flags
<1> QED  BY <1>3, <1>4, <1>5, <1>6, <1>7, <1>8 DEF Next, Loop, Tick, TickIn

LEMMA WinnerIsRight ==
    ASSUME TypeGroups, BoardIsHistory, WinInv, CheckWhoWins # None
    PROVE  /\ CheckWhoWins \in Client
           /\ HasFive(pieces, CheckWhoWins) \/ Other(CheckWhoWins) \in lost
<1>1. CASE winOne # None
  BY <1>1 DEF CheckWhoWins, WinInv, TypeGroups, FlagType, Client
<1>2. CASE winOne = None
  <2>1. CheckWhoWins = LineWinner(pieces, last) /\ last # Off
    BY <1>2 DEF CheckWhoWins, LineWinner
  <2>2. history # << >> /\ last = At(Len(history))
    BY <2>1 DEF BoardIsHistory, LastMarked
  <2>3. Len(history) \in 1..Len(history)
    BY <2>2 DEF TypeGroups, BoardType
  <2>4. last \in Board /\ history[Len(history)].client \in Client
    BY <2>2, <2>3, MoveType DEF TypeGroups
  <2>5. pieces[last] \in Client
    BY <2>2, <2>3, <2>4 DEF BoardIsHistory, OnBoard
  <2> QED  BY <2>1, <2>4, <2>5, LineWinnerHasFive
<1> QED  BY <1>1, <1>2

\* A winner announced has five in a line, or the other player gave up or ran out
\* of time in this very game: GobangGame.cpp:66-76 and 108-148.
THEOREM GobangFair == Spec => FairResult
<1>1. Init => WinInv
  BY DEF Init, WinInv
<1>2. TypeGroups /\ WinInv /\ [Next]_vars => WinInv'
  BY WinStep
<1>3. TypeGroups /\ BoardIsHistory /\ WinInv /\ [Next]_vars =>
        [TickEnds => LET w == CheckWhoWins IN
            /\ w \in Client
            /\ HasFive(pieces, w) \/ Other(w) \in lost]_vars
  BY WinnerIsRight DEF TickEnds
<1> QED  BY <1>1, <1>2, <1>3, TypeAlways, GobangBoard, PTL DEF Spec, FairResult
----------------------------------------------------------------------------
(* The countdown.                                                          *)

\* Where nothing stalls the loop and nobody takes back that it is ready: a game
\* that started has both ready, and its seconds have been announced.
Steady == habits \intersect {"stall", "unready"} = {}
ClockInv ==
    Steady =>
        /\ started => IsBothReady /\ secPassed = dt
        /\ \A c \in Client : stage[c] # "none" /\ mail[c][1] = "READY" => mail[c][2] = 1

LEMMA ClockStep ==
    ASSUME TypeGroups, ClockInv, [Next]_vars
    PROVE  ClockInv'
<1>1. FlagType /\ ClockType /\ EnvType
  BY DEF TypeGroups
<1>2. habits' = habits
  <2>1. ASSUME NEW c \in Client, NEW r \in Requests, ClientSends(c, r) PROVE habits' = habits
    BY <2>1 DEF ClientSends
  <2>2. ASSUME Loop PROVE habits' = habits
    BY <2>2 DEF Loop, SlotSkip, SlotHead, SlotMessage, SlotError, Tick, TickStarts, TickEnds,
                TickIn, TickWaits, TickClock, env
  <2>3. ASSUME NEW c \in Client, Break(c) PROVE habits' = habits
    BY <2>3 DEF Break
  <2> QED  BY <2>1, <2>2, <2>3 DEF Next, ClientStep, vars, env
<1> SUFFICES ASSUME Steady
             PROVE  /\ started' => IsBothReady' /\ secPassed' = dt'
                    /\ \A c \in Client :
                         stage'[c] # "none" /\ mail'[c][1] = "READY" => mail'[c][2] = 1
  BY <1>2 DEF ClockInv, Steady
<1>3. /\ started => IsBothReady /\ secPassed = dt
      /\ \A c \in Client : stage[c] # "none" /\ mail[c][1] = "READY" => mail[c][2] = 1
  BY DEF ClockInv
<1> DEFINE Told == started' => IsBothReady' /\ secPassed' = dt'
           Sent == \A c \in Client :
                       stage'[c] # "none" /\ mail'[c][1] = "READY" => mail'[c][2] = 1
<1>4. ASSUME UNCHANGED mail, \A c \in Client : stage'[c] # "none" => stage[c] # "none"
      PROVE  Sent
  BY <1>4, <1>3
<1>5. ASSUME UNCHANGED <<started, ready, secPassed, dt>> PROVE Told
  BY <1>5, <1>3 DEF IsBothReady
<1>6. CASE SlotMessage
  <2>1. pc \in Client /\ mail[pc] \in Requests /\ Handle(pc, mail[pc]) /\ stage[pc] # "none"
    BY <1>6 DEF SlotMessage, TypeGroups, EnvType, MailKnown
  <2>2. Sent
    BY <1>6, <1>3, <1>1 DEF SlotMessage, EnvType
  <2>3. ASSUME NEW p, PieceOn(pc, p) PROVE Told
    <3>1. UNCHANGED <<started, ready>> /\ (UNCHANGED <<secPassed, dt>> \/ (secPassed' = 0 /\ dt' = 0))
      BY <2>3 DEF PieceOn, Place, Nothing, clock, flags
    <3> QED  BY <3>1, <1>3 DEF IsBothReady
  <2>4. ASSUME NEW b \in {0, 1}, mail[pc] = <<"READY", b>>, READY(pc, b) PROVE Told
    <3>1. b = 1
      BY <1>3, <2>1, <2>4
    <3>2. \A c \in Client : ready[c] => ready'[c]
      BY <1>1, <2>4, <3>1 DEF READY, FlagType
    <3>3. IsBothReady => IsBothReady'
      BY <3>2 DEF IsBothReady, Client
    <3> QED  BY <1>3, <2>4, <3>3 DEF READY, clock
  <2>5. ASSUME NEW b, TakeBackResponse(pc, b) PROVE Told
    BY <1>5, <2>5 DEF TakeBackResponse, clock
  <2>6. ASSUME QuitGame(pc) \/ GiveUp(pc) \/ TakeBack(pc) PROVE Told
    BY <1>5, <2>6 DEF QuitGame, GiveUp, TakeBack, Nothing, flags, clock
  <2> QED  BY <2>1, <2>2, <2>3, <2>4, <2>5, <2>6, HandleCases
<1>7. CASE TickStarts
  <2>1. Told
    BY <1>7 DEF TickStarts, Init_Gobang, IsBothReady
  <2> QED  BY <1>7, <1>4, <2>1 DEF TickStarts, env
<1>8. CASE TickEnds
  BY <1>8, <1>4 DEF TickEnds, env
<1>9. ASSUME NEW e \in Elapsed, TickWaits(e) PROVE Told /\ Sent
  <2>1. ~started /\ ~started'
    BY <1>9, <1>3 DEF TickWaits, flags
  <2> QED  BY <1>9, <1>4, <2>1 DEF TickWaits, env
<1>10. ASSUME NEW e \in Elapsed, TickClock(e) PROVE Told /\ Sent
  <2>1. secPassed = dt /\ IsBothReady /\ UNCHANGED <<ready, started>>
    BY <1>10, <1>3 DEF TickClock, Running
  <2>2. e \in {0, 1}
    BY DEF Elapsed, Has, Steady
  <2>3. dt' = dt \/ dt' = dt + 1
    BY <1>10, <1>1, <2>2, IntervalAssumption DEF TickClock, Later, ClockType
  <2>4. secPassed' = IF dt' - secPassed = 1 THEN dt' ELSE secPassed
    BY <1>10 DEF TickClock
  <2>5. secPassed' = dt'
    BY <1>1, <2>1, <2>3, <2>4, IntervalAssumption DEF ClockType
  <2>6. Told
    BY <2>1, <2>5 DEF IsBothReady
  <2> QED  BY <1>10, <1>4, <2>6 DEF TickClock, env
<1>11. CASE SlotSkip \/ SlotError
  BY <1>11, <1>5, <1>4 DEF SlotSkip, SlotError, flags, clock, env
<1>12. CASE SlotHead
  <2>1. \A c \in Client : stage'[c] # "none" => stage[c] # "none"
    BY <1>12, <1>1 DEF SlotHead, EnvType
  <2> QED  BY <1>12, <1>5, <1>4, <2>1 DEF SlotHead, flags, clock
<1>13. ASSUME NEW c \in Client, Break(c) PROVE Told /\ Sent
  BY <1>13, <1>5, <1>3, <1>1 DEF Break, EnvType, flags, clock
<1>14. ASSUME NEW c \in Client, NEW r \in Requests, ClientSends(c, r) PROVE Told /\ Sent
  <2>1. r[1] = "READY" => r[2] = 1
    BY <1>14 DEF ClientSends, May, Has, Steady
  <2>2. mail' = [mail EXCEPT ![c] = r] /\ stage' = [stage EXCEPT ![c] = "here"]
    BY <1>14 DEF ClientSends
  <2>3. Sent
    BY <1>3, <1>1, <2>1, <2>2 DEF EnvType
  <2> QED  BY <1>14, <1>5, <2>3 DEF ClientSends, flags, clock
<1>15. CASE UNCHANGED vars
  BY <1>15, <1>5, <1>4 DEF vars, flags, clock, env
<1> QED
  BY <1>6, <1>7, <1>8, <1>9, <1>10, <1>11, <1>12, <1>13, <1>14, <1>15
     DEF Next, Loop, Tick, TickIn, ClientStep

\* While a game runs, the seconds the players were last told are right: the turn
\* is announced again at every second (GobangGame.cpp:82), as long as the loop
\* comes round each second.
THEOREM GobangCountdown == Spec => []CountdownShown
<1>1. Init => ClockInv
  BY DEF Init, ClockInv
<1>2. TypeGroups /\ ClockInv /\ [Next]_vars => ClockInv'
  BY ClockStep
<1>3. TypeGroups /\ ClockInv => CountdownShown
  BY DEF TypeGroups, ClockType, ClockInv, CountdownShown, Running, Steady
<1> QED  BY <1>1, <1>2, <1>3, TypeAlways, PTL DEF Spec
----------------------------------------------------------------------------
(* Five in a line are seen.                                                *)

\* Clients that play in turn and stay ready.
Attentive == habits \intersect {"premove", "unready"} = {}

\* Client c has sent a piece that is not handled yet.
Playing(c) == stage[c] # "none" /\ mail[c][1] = "PieceOn"

\* The full lines on the board, and those that do not go through the last piece.
Won == {l \in Lines : \E c \in Client : Full(pieces, l, c)}
Missed == {l \in Won : last \notin l}

\* A game under way has both ready.  A piece on its way is of the client whose
\* turn it is, or of one that is not ready yet; so one turn of the loop places one
\* piece at most, and Tick looks at the board before the next.
StayReady == /\ started => IsBothReady
             /\ \A c \in Client : stage[c] # "none" /\ mail[c][1] = "READY" => mail[c][2] = 1
InTurn    == \A c \in Client :
                Playing(c) => IF started THEN expClient = c ELSE ~ready[c]
Looked    == started => /\ pc = 0 \/ (pc = 1 /\ Playing(1)) => Won = {}
                        /\ pc \in {1, TICK} => Missed = {}
LookInv   == Attentive => StayReady /\ InTurn /\ Looked

\* One turn changes no habits.
LEMMA HabitsStay == [Next]_vars => habits' = habits
<1>1. ASSUME NEW c \in Client, NEW r \in Requests, ClientSends(c, r) PROVE habits' = habits
  BY <1>1 DEF ClientSends
<1>2. ASSUME Loop PROVE habits' = habits
  BY <1>2 DEF Loop, SlotSkip, SlotHead, SlotMessage, SlotError, Tick, TickStarts, TickEnds,
              TickIn, TickWaits, TickClock, env
<1>3. ASSUME NEW c \in Client, Break(c) PROVE habits' = habits
  BY <1>3 DEF Break
<1> QED  BY <1>1, <1>2, <1>3 DEF Next, ClientStep, vars, env

\* A line has spots, all on the board.
LEMMA LineSpots ==
    ASSUME NEW l \in Lines
    PROVE  l \subseteq Board /\ l # {}
<1>1. l \subseteq Board /\ \E q \in Board, d \in {<<0, 1>>, <<1, 0>>, <<1, 1>>, <<1, -1>>} :
                              l = Line(q, d)
  BY DEF Lines
<1>2. 0 \in 0..FIVE - 1
  BY BoardAssumption
<1> QED  BY <1>1, <1>2 DEF Line

LEMMA WonStays ==
    ASSUME UNCHANGED <<pieces, last>>
    PROVE  Won' = Won /\ Missed' = Missed
BY DEF Won, Missed, Full

\* A piece placed on a board without a full line: all that are full go through it.
LEMMA WonPlace ==
    ASSUME BoardType, NEW c, NEW p \in Board, Place(c, p), Won = {}
    PROVE  Missed' = {}
<1> SUFFICES ASSUME NEW l \in Lines, NEW d \in Client, Full(pieces', l, d), p \notin l
             PROVE  FALSE
  BY DEF Place, Missed, Won
<1>1. \A q \in l : q \in Board /\ pieces'[q] = pieces[q]
  BY LineSpots DEF Place, BoardType
<1>2. Full(pieces, l, d)
  BY <1>1 DEF Full
<1> QED  BY <1>2 DEF Won

\* A take-back removes the last piece, and every full line through it.
LEMMA WonAgree ==
    ASSUME BoardType, BoardIsHistory, Agree, Missed = {}
    PROVE  Won' = {} \/ UNCHANGED <<pieces, last>>
<1>1. CASE Len(history) < 3
  BY <1>1 DEF Agree, board
<1>2. CASE ~(Len(history) < 3)
  <2>1. PICK n \in Nat : n = Len(history) /\ n >= 3
    BY <1>2 DEF BoardType
  <2>2. At(n) \in Board /\ At(n - 1) \in Board /\ last = At(n)
    BY <2>1, MoveType DEF BoardIsHistory, LastMarked
  <2>3. pieces' = [pieces EXCEPT ![At(n)] = EMPTY, ![At(n - 1)] = EMPTY]
    BY <1>2, <2>1 DEF Agree
  <2>4. /\ pieces'[At(n)] = EMPTY
        /\ \A q \in Board : pieces'[q] = pieces[q] \/ pieces'[q] = EMPTY
    BY <2>2, <2>3 DEF BoardType
  <2>5. ASSUME NEW l \in Lines, NEW d \in Client, Full(pieces', l, d) PROVE FALSE
    <3>1. \A q \in l : q \in Board /\ pieces'[q] = d /\ d # EMPTY
      BY <2>5, LineSpots DEF Full, Client, EMPTY
    <3>2. Full(pieces, l, d) /\ last \notin l
      BY <2>2, <2>4, <3>1 DEF Full
    <3> QED  BY <3>2 DEF Missed, Won
  <2> QED  BY <2>5 DEF Won
<1> QED  BY <1>1, <1>2

\* What a handler does to the full lines: nothing, remove those through the last
\* piece, or place a piece of the client whose turn it is.
LEMMA WonHandle ==
    ASSUME TypeGroups, BoardIsHistory, NEW c \in Client, NEW r \in Requests, Handle(c, r)
    PROVE  \/ UNCHANGED <<pieces, last, expClient>>
           \/ (Missed = {} => Won' = {}) /\ UNCHANGED expClient
           \/ (Won = {} => Missed' = {}) /\ expClient = c /\ r[1] = "PieceOn"
<1>1. BoardType
  BY DEF TypeGroups
<1>2. ASSUME NEW p \in Spots \union {Off}, r = <<"PieceOn", p>>, PieceOn(c, p)
      PROVE  \/ UNCHANGED <<pieces, last, expClient>>
             \/ (Won = {} => Missed' = {}) /\ expClient = c /\ r[1] = "PieceOn"
  <2>1. CASE ~Permitted(c) \/ p = Off \/ pieces[p] # EMPTY
    BY <1>2, <2>1 DEF PieceOn, Nothing, board
  <2>2. CASE ~(~Permitted(c) \/ p = Off \/ pieces[p] # EMPTY)
    <3>1. Place(c, p) /\ p \in Board /\ expClient = c
      BY <1>2, <2>2, BoardAssumption DEF PieceOn, Permitted
    <3> QED  BY <1>2, <1>1, <3>1, WonPlace
  <2> QED  BY <2>1, <2>2
<1>3. ASSUME NEW b \in {0, 1}, TakeBackResponse(c, b)
      PROVE  \/ UNCHANGED <<pieces, last, expClient>>
             \/ (Missed = {} => Won' = {}) /\ UNCHANGED expClient
  <2>1. CASE b = 1
    <3>1. Agree
      BY <1>3, <2>1 DEF TakeBackResponse
    <3>2. UNCHANGED expClient
      BY <3>1 DEF Agree, board
    <3> QED  BY <1>1, <3>1, <3>2, WonAgree
  <2>2. CASE b # 1
    BY <1>3, <2>2 DEF TakeBackResponse, board
  <2> QED  BY <2>1, <2>2
<1>4. ASSUME QuitGame(c) \/ GiveUp(c) \/ TakeBack(c) PROVE UNCHANGED <<pieces, last, expClient>>
  BY <1>4 DEF QuitGame, GiveUp, TakeBack, Nothing, board
<1>5. ASSUME NEW b, READY(c, b) PROVE UNCHANGED <<pieces, last, expClient>>
  BY <1>5 DEF READY, board
<1> QED  BY <1>2, <1>3, <1>4, <1>5, HandleCases

\* What handlers leave to Tick and to the other client.
LEMMA HandleLeaves ==
    ASSUME TypeGroups, NEW c \in Client, NEW r \in Requests, Handle(c, r)
    PROVE  /\ started' = started
           /\ \A d \in Client \ {c} : ready'[d] = ready[d]
           /\ r[1] = "READY" /\ r[2] = 1 => (ready[c] => ready'[c])
           /\ r[1] # "READY" => ready' = ready
<1>1. ready \in [Client -> BOOLEAN]
  BY DEF TypeGroups, FlagType
<1>2. ASSUME NEW p, PieceOn(c, p) PROVE UNCHANGED <<started, ready>>
  BY <1>2 DEF PieceOn, Nothing, flags
<1>3. ASSUME NEW b, TakeBackResponse(c, b) PROVE UNCHANGED <<started, ready>>
  BY <1>3 DEF TakeBackResponse
<1>4. ASSUME QuitGame(c) \/ GiveUp(c) \/ TakeBack(c) PROVE UNCHANGED <<started, ready>>
  BY <1>4 DEF QuitGame, GiveUp, TakeBack, Nothing, flags
<1>5. ASSUME NEW b \in {0, 1}, r = <<"READY", b>>, READY(c, b)
      PROVE  /\ started' = started
             /\ \A d \in Client \ {c} : ready'[d] = ready[d]
             /\ r[2] = 1 => ready'[c]
             /\ r[1] = "READY"
  BY <1>5, <1>1 DEF READY
<1> QED  BY <1>2, <1>3, <1>4, <1>5, HandleCases

\* No step but a handler and Tick changes the game; a step that sends nothing
\* leaves the same messages under way, or fewer.
LEMMA ReadyStep ==
    ASSUME TypeGroups, Attentive, StayReady, [Next]_vars
    PROVE  StayReady'
<1>1. FlagType /\ EnvType
  BY DEF TypeGroups
<1>2. /\ started => IsBothReady
      /\ \A c \in Client : stage[c] # "none" /\ mail[c][1] = "READY" => mail[c][2] = 1
  BY DEF StayReady
<1> DEFINE Told == started' => IsBothReady'
           Sent == \A c \in Client :
                       stage'[c] # "none" /\ mail'[c][1] = "READY" => mail'[c][2] = 1
<1> SUFFICES Told /\ Sent
  BY DEF StayReady
<1>3. ASSUME UNCHANGED mail, \A c \in Client : stage'[c] # "none" => stage[c] # "none"
      PROVE  Sent
  BY <1>3, <1>2
<1>4. ASSUME UNCHANGED <<started, ready>> PROVE Told
  BY <1>4, <1>2 DEF IsBothReady
<1>5. CASE SlotMessage
  <2>1. pc \in Client /\ mail[pc] \in Requests /\ Handle(pc, mail[pc]) /\ stage[pc] # "none"
    BY <1>5 DEF SlotMessage, TypeGroups, EnvType, MailKnown
  <2>2. Sent
    BY <1>5, <1>2, <1>1 DEF SlotMessage, EnvType
  <2>3. /\ started' = started
        /\ \A d \in Client \ {pc} : ready'[d] = ready[d]
        /\ mail[pc][1] = "READY" /\ mail[pc][2] = 1 => (ready[pc] => ready'[pc])
        /\ mail[pc][1] # "READY" => ready' = ready
    BY <2>1, HandleLeaves
  <2>4. \A d \in Client : ready[d] => ready'[d]
    BY <1>2, <2>1, <2>3
  <2>5. Told
    BY <1>2, <2>3, <2>4 DEF IsBothReady, Client
  <2> QED  BY <2>2, <2>5
<1>6. CASE TickStarts
  <2>1. Told
    BY <1>6 DEF TickStarts, IsBothReady
  <2> QED  BY <1>6, <1>3, <2>1 DEF TickStarts, env
<1>7. CASE TickEnds
  BY <1>7, <1>3 DEF TickEnds, env
<1>8. ASSUME NEW e \in Elapsed, TickWaits(e) PROVE Told /\ Sent
  BY <1>8, <1>4, <1>3 DEF TickWaits, flags, env
<1>9. ASSUME NEW e \in Elapsed, TickClock(e) PROVE Told /\ Sent
  BY <1>9, <1>4, <1>3 DEF TickClock, env
<1>10. CASE SlotSkip \/ SlotError
  BY <1>10, <1>4, <1>3 DEF SlotSkip, SlotError, flags, env
<1>11. CASE SlotHead
  <2>1. \A c \in Client : stage'[c] # "none" => stage[c] # "none"
    BY <1>11, <1>1 DEF SlotHead, EnvType
  <2> QED  BY <1>11, <1>4, <1>3, <2>1 DEF SlotHead, flags
<1>12. ASSUME NEW c \in Client, Break(c) PROVE Told /\ Sent
  BY <1>12, <1>4, <1>2, <1>1 DEF Break, EnvType, flags
<1>13. ASSUME NEW c \in Client, NEW r \in Requests, ClientSends(c, r) PROVE Told /\ Sent
  <2>1. r[1] = "READY" => r[2] = 1
    BY <1>13 DEF ClientSends, May, Has, Attentive
  <2>2. mail' = [mail EXCEPT ![c] = r] /\ stage' = [stage EXCEPT ![c] = "here"]
    BY <1>13 DEF ClientSends
  <2>3. Sent
    BY <1>2, <1>1, <2>1, <2>2 DEF EnvType
  <2> QED  BY <1>13, <1>4, <2>3 DEF ClientSends, flags
<1>14. CASE UNCHANGED vars
  BY <1>14, <1>4, <1>3 DEF vars, flags, env
<1> QED
  BY <1>5, <1>6, <1>7, <1>8, <1>9, <1>10, <1>11, <1>12, <1>13, <1>14
     DEF Next, Loop, Tick, TickIn, ClientStep

LEMMA TurnStep ==
    ASSUME TypeGroups, BoardIsHistory, Attentive, StayReady, InTurn, [Next]_vars
    PROVE  InTurn'
<1>1. FlagType /\ EnvType
  BY DEF TypeGroups
<1>2. ASSUME UNCHANGED <<started, ready, expClient>>,
             \A c \in Client : stage'[c] # "none" => stage[c] # "none" /\ mail'[c] = mail[c]
      PROVE  InTurn'
  BY <1>2 DEF InTurn, Playing
<1>3. CASE SlotMessage
  <2>1. pc \in Client /\ mail[pc] \in Requests /\ Handle(pc, mail[pc]) /\ stage[pc] # "none"
    BY <1>3 DEF SlotMessage, TypeGroups, EnvType, MailKnown
  <2>2. \A d \in Client : Playing(d)' => Playing(d) /\ d # pc
    BY <1>3, <1>1 DEF SlotMessage, EnvType, Playing
  <2>3. started' = started /\ \A d \in Client \ {pc} : ready'[d] = ready[d]
    BY <2>1, HandleLeaves
  <2>4. expClient' = expClient \/ expClient = pc
    BY <2>1, WonHandle
  <2> QED  BY <2>2, <2>3, <2>4 DEF InTurn
<1>4. CASE TickStarts
  <2>1. \A c \in Client : ~Playing(c)
    BY <1>4 DEF TickStarts, IsBothReady, InTurn, Client
  <2>2. \A c \in Client : ~Playing(c)'
    BY <1>4, <2>1 DEF TickStarts, env, Playing
  <2> QED  BY <2>2 DEF InTurn
<1>5. CASE TickEnds
  BY <1>5 DEF TickEnds, InTurn
<1>6. ASSUME NEW e \in Elapsed, TickWaits(e) PROVE InTurn'
  BY <1>6, <1>2 DEF TickWaits, board, flags, env
<1>7. ASSUME NEW e \in Elapsed, TickClock(e) PROVE InTurn'
  BY <1>7, <1>2 DEF TickClock, board, env
<1>8. CASE SlotSkip \/ SlotError
  BY <1>8, <1>2 DEF SlotSkip, SlotError, board, flags, env
<1>9. CASE SlotHead
  <2>1. \A c \in Client : stage'[c] # "none" => stage[c] # "none"
    BY <1>9, <1>1 DEF SlotHead, EnvType
  <2> QED  BY <1>9, <1>2, <2>1 DEF SlotHead, board, flags
<1>10. ASSUME NEW c \in Client, Break(c) PROVE InTurn'
  <2>1. \A d \in Client : stage'[d] # "none" => stage[d] # "none" /\ mail'[d] = mail[d]
    BY <1>10, <1>1 DEF Break, EnvType
  <2> QED  BY <1>10, <1>2, <2>1 DEF Break, board, flags
<1>11. ASSUME NEW c \in Client, NEW r \in Requests, ClientSends(c, r) PROVE InTurn'
  <2>1. r[1] = "PieceOn" => started /\ expClient = c
    BY <1>11 DEF ClientSends, May, Has, Attentive
  <2>2. mail' = [mail EXCEPT ![c] = r] /\ stage' = [stage EXCEPT ![c] = "here"]
    BY <1>11 DEF ClientSends
  <2>3. UNCHANGED <<started, ready, expClient>>
    BY <1>11 DEF ClientSends, board, flags
  <2>4. \A d \in Client : Playing(d)' => Playing(d) \/ (d = c /\ r[1] = "PieceOn")
    BY <1>1, <2>2 DEF EnvType, Playing
  <2> QED  BY <2>1, <2>3, <2>4 DEF InTurn
<1>12. CASE UNCHANGED vars
  BY <1>12, <1>2 DEF vars, board, flags, env
<1> QED
  BY <1>3, <1>4, <1>5, <1>6, <1>7, <1>8, <1>9, <1>10, <1>11, <1>12
     DEF Next, Loop, Tick, TickIn, ClientStep

\* Where Tick finds no winner, no line is full.
LEMMA TickSees ==
    ASSUME TypeGroups, Missed = {}, CheckWhoWins = None
    PROVE  Won = {}
<1> SUFFICES ASSUME NEW l \in Lines, NEW c \in Client, Full(pieces, l, c) PROVE FALSE
  BY DEF Won
<1>1. last \in l /\ last \in Board
  BY LineSpots DEF Missed, Won
<1>2. pieces[last] = c /\ c # None
  BY <1>1 DEF Full, Client, None
<1>3. LineWinner(pieces, last) = c
  BY <1>1, <1>2, LineWinnerExact
<1> QED  BY <1>2, <1>3 DEF CheckWhoWins

LEMMA LookStep ==
    ASSUME TypeGroups, BoardIsHistory, Attentive, StayReady, InTurn, Looked, [Next]_vars
    PROVE  Looked'
<1>1. BoardType /\ EnvType /\ pc \in {0, 1, TICK, END}
  BY DEF TypeGroups, LoopType, Client
<1>2. Won = {} => Missed = {}
  BY DEF Missed
<1>3. ASSUME NEW d \in Client, d = pc, NextSlot
      PROVE  (pc = 0 /\ pc' = 1) \/ (pc = 1 /\ pc' = TICK)
  BY <1>3 DEF NextSlot, Client
<1>4. ASSUME SlotSkip \/ SlotHead \/ SlotError PROVE Looked'
  <2>1. pc \in Client /\ NextSlot /\ UNCHANGED <<pieces, last, started, mail>>
    BY <1>4 DEF SlotSkip, SlotHead, SlotError, board, flags, env
  <2>2. Won' = Won /\ Missed' = Missed
    BY <2>1, WonStays
  <2> QED  BY <1>2, <1>3, <2>1, <2>2 DEF Looked, TICK
<1>5. CASE SlotMessage
  <2>1. pc \in Client /\ mail[pc] \in Requests /\ Handle(pc, mail[pc]) /\ stage[pc] # "none"
    BY <1>5 DEF SlotMessage, TypeGroups, EnvType, MailKnown
  <2>2. started' = started
    BY <2>1, HandleLeaves
  <2>3. \/ UNCHANGED <<pieces, last, expClient>>
        \/ (Missed = {} => Won' = {}) /\ UNCHANGED expClient
        \/ (Won = {} => Missed' = {}) /\ expClient = pc /\ mail[pc][1] = "PieceOn"
    BY <2>1, WonHandle
  <2>4. Won' = {} => Missed' = {}
    BY DEF Missed
  <2>5. ASSUME started, pc = 0 PROVE Missed' = {} /\ (Playing(1)' => Won' = {})
    <3>1. Won = {} /\ Missed = {}
      BY <1>2, <2>5 DEF Looked
    <3>2. Playing(1)' => Playing(1)
      BY <1>5, <1>1, <2>5 DEF SlotMessage, EnvType, Playing, Client
    <3>3. Playing(1) => expClient = 1
      BY <2>5 DEF InTurn, Client
    <3> QED  BY <2>3, <2>5, <2>4, <3>1, <3>2, <3>3, WonStays
  <2>6. ASSUME started, pc = 1 PROVE Missed' = {}
    <3>1. Missed = {} /\ (Playing(1) => Won = {})
      BY <2>6 DEF Looked
    <3>2. mail[pc][1] = "PieceOn" => Playing(1)
      BY <2>1, <2>6 DEF Playing
    <3> QED  BY <2>3, <2>4, <3>1, <3>2, WonStays
  <2>7. NextSlot
    BY <1>5 DEF SlotMessage
  <2> QED  BY <1>3, <2>1, <2>2, <2>5, <2>6, <2>7 DEF Looked, TICK
<1>6. ASSUME NextTurn PROVE pc' \in {0, END}
  BY <1>6 DEF NextTurn
<1>7. END # 1 /\ END # TICK /\ END # 0 /\ TICK # 0 /\ TICK # 1
  BY DEF END, TICK
<1>8. CASE TickStarts
  <2>1. pieces' = EmptyBoard
    BY <1>8 DEF TickStarts, Init_Gobang
  <2>2. ASSUME NEW l \in Lines, NEW c \in Client, Full(pieces', l, c) PROVE FALSE
    <3>1. PICK q \in l : q \in Board
      BY LineSpots
    <3>2. pieces'[q] = EMPTY /\ EMPTY # c
      BY <2>1, <3>1 DEF EmptyBoard, EMPTY, Client
    <3> QED  BY <2>2, <3>1, <3>2 DEF Full
  <2>3. Won' = {}
    BY <2>2 DEF Won
  <2>4. pc' \in {0, END}
    BY <1>8, <1>6 DEF TickStarts
  <2> QED  BY <1>7, <2>3, <2>4 DEF Looked
<1>9. CASE TickEnds
  BY <1>9 DEF TickEnds, Looked
<1>10. ASSUME NEW e \in Elapsed, TickWaits(e) PROVE Looked'
  <2>1. ~started'
    BY <1>10 DEF TickWaits, flags, StayReady
  <2> QED  BY <2>1 DEF Looked
<1>11. ASSUME NEW e \in Elapsed, TickClock(e) PROVE Looked'
  <2>1. started /\ pc = TICK /\ CheckWhoWins = None /\ UNCHANGED <<pieces, last>> /\ NextTurn
    BY <1>11 DEF TickClock, AtTick, Running, board
  <2>2. Won = {}
    BY <1>7, <2>1, TickSees DEF Looked
  <2>3. Won' = {}
    BY <2>1, <2>2, WonStays
  <2> QED  BY <1>7, <1>6, <2>1, <2>3 DEF Looked
<1>12. ASSUME ClientStep \/ UNCHANGED vars PROVE Looked'
  <2>1. CASE ClientStep
    <3>1. pc = 0 /\ UNCHANGED <<pieces, last, started, pc>>
      BY <2>1 DEF ClientStep, ClientSends, Break, board, flags
    <3>2. Won' = Won
      BY <3>1, WonStays
    <3> QED  BY <1>7, <3>1, <3>2 DEF Looked
  <2>2. CASE UNCHANGED vars
    <3>1. UNCHANGED <<pieces, last, started, pc, stage, mail>>
      BY <2>2 DEF vars, board, flags, env
    <3>2. Won' = Won /\ Missed' = Missed
      BY <3>1, WonStays
    <3> QED  BY <3>1, <3>2 DEF Looked, Playing
  <2> QED  BY <1>12, <2>1, <2>2
<1> QED
  BY <1>4, <1>5, <1>8, <1>9, <1>10, <1>11, <1>12 DEF Next, Loop, Tick, TickIn

LEMMA LookInit == Init => LookInv
<1> SUFFICES ASSUME Init PROVE StayReady /\ InTurn /\ Looked
  BY DEF LookInv
<1>1. started = FALSE /\ \A c \in Client : stage[c] = "none"
  BY DEF Init
<1> QED  BY <1>1 DEF StayReady, InTurn, Playing, Looked

\* Between players that move in turn, a game never goes on past five in a line:
\* although CheckWhoWins looks from the last piece only (GobangGame.cpp:104-146),
\* each piece is looked at before the next is placed, whatever is taken back.
THEOREM GobangNoMissedWin == Spec => []NoMissedWin
<1>1. TypeGroups /\ BoardIsHistory /\ LookInv /\ [Next]_vars => LookInv'
  <2> SUFFICES ASSUME TypeGroups, BoardIsHistory, LookInv, [Next]_vars, Attentive
               PROVE  StayReady' /\ InTurn' /\ Looked'
    BY HabitsStay DEF LookInv, Attentive
  <2> QED  BY ReadyStep, TurnStep, LookStep DEF LookInv
<1>2. LookInv => NoMissedWin
  BY DEF LookInv, Attentive, Looked, NoMissedWin, Running, HasFive, Won
<1> QED  BY <1>1, <1>2, LookInit, TypeAlways, GobangBoard, PTL DEF Spec
=============================================================================
