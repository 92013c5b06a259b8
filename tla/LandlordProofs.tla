--------------------------- MODULE LandlordProofs ---------------------------
(***************************************************************************)
(* Proofs about Landlord, for every deck, every deal of three equal hands, *)
(* all intervals and all profiles.                                         *)
(***************************************************************************)
EXTENDS Landlord, PokerProofs

----------------------------------------------------------------------------
(* Hands.                                                                  *)

\* The bags of cards.
Hand == UNION {[S -> Nat \ {0}] : S \in SUBSET Cards}

LEMMA HandIsBag ==
    \A h : h \in Hand <=> IsABag(h) /\ BagToSet(h) \subseteq Cards
<1>1. ASSUME NEW h, h \in Hand PROVE IsABag(h) /\ BagToSet(h) \subseteq Cards
  <2>1. PICK S \in SUBSET Cards : h \in [S -> Nat \ {0}]
    BY <1>1 DEF Hand
  <2>2. DOMAIN h = S /\ h \in [DOMAIN h -> {n \in Nat : n > 0}]
    BY <2>1
  <2> QED  BY <2>2 DEF IsABag, BagToSet
<1>2. ASSUME NEW h, IsABag(h), BagToSet(h) \subseteq Cards PROVE h \in Hand
  <2>1. DOMAIN h \in SUBSET Cards /\ h \in [DOMAIN h -> Nat \ {0}]
    BY <1>2 DEF IsABag, BagToSet
  <2> QED  BY <2>1 DEF Hand
<1> QED  BY <1>1, <1>2

LEMMA EmptyHand ==
    EmptyBag \in Hand /\ \A c : Copies(c, EmptyBag) = 0
<1>1. EmptyBag \in [{} -> Nat \ {0}] /\ DOMAIN EmptyBag = {}
  BY DEF EmptyBag, SetToBag
<1> QED  BY <1>1 DEF Hand, Copies, BagIn, BagToSet

\* Cards put to a hand: one more of each.
LEMMA InsertHand ==
    ASSUME NEW h \in Hand, NEW S \in SUBSET Cards
    PROVE  /\ Insert(h, S) \in Hand
           /\ \A c : Copies(c, Insert(h, S)) = Copies(c, h) + (IF c \in S THEN 1 ELSE 0)
           /\ \A c : Copies(c, h) \in Nat
<1>1. PICK T \in SUBSET Cards : h \in [T -> Nat \ {0}]
  BY DEF Hand
<1> DEFINE g == Insert(h, S)
<1>2. g = [c \in T \union S |-> (IF c \in T THEN h[c] ELSE 0) + (IF c \in S THEN 1 ELSE 0)]
  BY <1>1 DEF Insert, (+), SetToBag
<1>3. DOMAIN h = T /\ \A c \in T : h[c] \in Nat /\ h[c] # 0
  BY <1>1
<1>4. DOMAIN g = T \union S /\ g \in [T \union S -> Nat \ {0}]
  BY <1>2, <1>3
<1>5. g \in Hand
  BY <1>4 DEF Hand
<1>6. \A c : Copies(c, h) = IF c \in T THEN h[c] ELSE 0
  BY <1>3 DEF Copies, BagIn, BagToSet
<1>7. \A c : Copies(c, g) = IF c \in T \union S THEN g[c] ELSE 0
  BY <1>4 DEF Copies, BagIn, BagToSet
<1>8. \A c \in T \union S : g[c] = (IF c \in T THEN h[c] ELSE 0) + (IF c \in S THEN 1 ELSE 0)
  BY <1>2
<1> HIDE DEF g
<1>9. ASSUME NEW c
      PROVE  /\ Copies(c, g) = Copies(c, h) + (IF c \in S THEN 1 ELSE 0)
             /\ Copies(c, h) \in Nat
  BY <1>3, <1>6, <1>7, <1>8
<1> QED  BY <1>5, <1>9 DEF g
----------------------------------------------------------------------------
(* Decks.                                                                  *)

\* A shuffled deck has each card once; 3 * PerPlayer of them are dealt.
LEMMA ShuffleProperties ==
    ASSUME NEW d \in Shuffles
    PROVE  /\ d \in Seq(Cards) /\ Len(d) = Cardinality(Cards) /\ Len(d) \in Nat
           /\ 3 * PerPlayer <= Len(d)
           /\ \A c \in Cards : \E k \in 1..Len(d) : d[k] = c
           /\ \A j, k \in 1..Len(d) : d[j] = d[k] => j = k
<1> DEFINE n == Cardinality(Cards)
<1>1. /\ n \in Nat /\ 3 * PerPlayer <= n /\ d \in [1..n -> Cards]
      /\ \A c \in Cards : \E k \in 1..n : d[k] = c
  <2>1. n \in Nat
    BY DealAssumption, FS_CardinalityType
  <2>2. d \in [1..n -> Cards] /\ \A c \in Cards : \E k \in DOMAIN d : d[k] = c
    BY DealAssumption
  <2> QED  BY <2>1, <2>2, DealAssumption
<1>2. d \in Seq(Cards) /\ Len(d) = n
  <2> HIDE DEF n
  <2> QED  BY <1>1
<1>3. \A j, k \in 1..n : d[j] = d[k] => j = k
  <2>1. IsFiniteSet(1..n) /\ Cardinality(1..n) = n
    BY <1>1, FS_Interval
  <2>2. d \in Surjection(1..n, Cards)
    BY <1>1 DEF Surjection
  <2>3. d \in Injection(1..n, Cards)
    BY <2>1, <2>2, FS_SurjSameCardinalityImpliesInj
  <2> QED  BY <2>3 DEF Injection, IsInjective
<1> HIDE DEF n
<1>4. Len(d) \in Nat /\ 3 * PerPlayer <= Len(d)
  BY <1>1, <1>2
<1> QED  BY <1>1, <1>2, <1>3, <1>4 DEF n

LEMMA CardsOfType ==
    ASSUME NEW d \in Seq(Cards)
    PROVE  CardsOf(d) \subseteq Cards
<1>1. \A k \in 1..Len(d) : d[k] \in Cards
  BY ElementOfSeq
<1> QED  BY <1>1 DEF CardsOf

LEMMA DealTypes ==
    ASSUME NEW d \in Shuffles
    PROVE  /\ Bottom(d) \in Seq(Cards)
           /\ \A p \in Client : Dealt(d, p) \subseteq Cards
<1>1. PICK m \in Nat : m = 3 * PerPlayer
  BY DealAssumption
<1>2. d \in Seq(Cards) /\ m <= Len(d) /\ Len(d) \in Nat
  BY <1>1, ShuffleProperties
<1>3. \A k \in 1..Len(d) : d[k] \in Cards
  BY <1>2, ElementOfSeq
<1>4. SubSeq(d, 1, Len(d) - m) \in Seq(Cards)
  <2>1. \A k \in 1..(Len(d) - m) : d[k] \in Cards
    BY <1>2, <1>3
  <2> QED  BY <1>2, <2>1, SubSeqProperties
<1>5. \A i \in 0..m - 1 : d[Len(d) - i] \in Cards
  <2> SUFFICES ASSUME NEW i \in 0..m - 1 PROVE Len(d) - i \in 1..Len(d)
    BY <1>3
  <2> QED  BY <1>2
<1> QED  BY <1>1, <1>4, <1>5 DEF Bottom, Dealt
----------------------------------------------------------------------------
(* Types, in groups.                                                       *)

\* A message under way is a request.
MailKnown == \A c \in Client : stage[c] # "none" => mail[c] \in Requests

PhaseType == /\ ready \in [Client -> BOOLEAN]
             /\ {started, dealt, called, revealed} \subseteq BOOLEAN
             /\ exp \in Client \union {None}
CardType  == /\ deck \in Seq(Cards) /\ hold \in [Client -> Hand]
             /\ lord \in [Client -> BOOLEAN]
ClockType == due \in 0..CALL + OUT /\ secCall \in 0..CALL /\ secOut \in 0..OUT
LoopType  == /\ fate \in {"runs", "aborted", "undefined"} /\ pc \in Client \union {TICK}
             /\ prompt \in [Client -> {"none", "call", "play"}]
MailType  == /\ mail \in [Client -> Requests \union {NoMail}]
             /\ stage \in [Client -> {"none", "here", "head"}]
             /\ habits \subseteq Habits
             /\ MailKnown
TypeInv == PhaseType /\ CardType /\ ClockType /\ LoopType /\ MailType

LEMMA TypesHold == TypeInv => TypeOK
<1> SUFFICES ASSUME TypeInv PROVE TypeOK
  OBVIOUS
<1>1. CardsOf(deck) \subseteq Cards
  BY CardsOfType DEF TypeInv, CardType
<1>2. \A c \in Client : IsABag(hold[c]) /\ BagToSet(hold[c]) \subseteq Cards
  BY HandIsBag DEF TypeInv, CardType
<1> QED
  BY <1>1, <1>2 DEF TypeInv, PhaseType, CardType, ClockType, LoopType, MailType, TypeOK

LEMMA TypeInit == Init => TypeInv
<1> SUFFICES ASSUME Init PROVE TypeInv
  OBVIOUS
<1>1. PhaseType
  BY DEF Init, PhaseType
<1>2. CardType
  BY EmptyHand, ShuffleProperties DEF Init, CardType
<1>3. ClockType
  BY IntervalAssumption DEF Init, ClockType
<1>4. LoopType
  BY DEF Init, LoopType, Client
<1>5. MailType
  BY ProfilesAssumption DEF Init, MailType, MailKnown
<1> QED  BY <1>1, <1>2, <1>3, <1>4, <1>5 DEF TypeInv

\* What is handled is one of three requests.
LEMMA HandleCases ==
    ASSUME NEW c, NEW r \in Requests, Handle(c, r)
    PROVE  \/ \E b \in {0, 1} : r = <<"READY", b>> /\ READY(c, b)
           \/ \E b \in {0, 1} : r = <<"CALL_LORD", b>> /\ CALL_LORD(c, b)
           \/ \E h \in {PASS} \union {<<k>> : k \in Tries} : r = <<"DISCARD", h>> /\ DISCARD(c, h)
<1>1. CASE \E b \in {0, 1} : r = <<"READY", b>>
  BY <1>1, Handle(c, r) DEF Handle
<1>2. CASE \E b \in {0, 1} : r = <<"CALL_LORD", b>>
  BY <1>2, Handle(c, r) DEF Handle
<1>3. CASE \E h \in {PASS} \union {<<k>> : k \in Tries} : r = <<"DISCARD", h>>
  BY <1>3, Handle(c, r) DEF Handle
<1> QED  BY <1>1, <1>2, <1>3 DEF Requests

LEMMA NextPlayerType ==
    /\ NextPlayer(None) = 0 /\ NextPlayer(0) = 1 /\ NextPlayer(1) = 2 /\ NextPlayer(2) = 0
    /\ Client = {0, 1, 2}
    /\ \A c \in Client \union {None} : NextPlayer(c) \in Client
<1>1. /\ NextPlayer(None) = 0 /\ NextPlayer(0) = 1 /\ NextPlayer(1) = 2 /\ NextPlayer(2) = 0
  BY DEF NextPlayer, None
<1>2. Client = {0, 1, 2}
  BY DEF Client
<1> QED  BY <1>1, <1>2

\* Time stays within its bounds.
LEMMA LaterType ==
    ASSUME ClockType, NEW e \in {0, 1}
    PROVE  Later(e) \in 0..due
BY IntervalAssumption DEF ClockType, Later

LEMMA ClockBounds ==
    /\ CALL \in 0..CALL + OUT /\ OUT \in 0..CALL + OUT
    /\ CALL \in 0..CALL /\ OUT \in 0..OUT
    /\ 0 \in 0..CALL + OUT
BY IntervalAssumption

\* Each handler.
LEMMA TypeHandle ==
    ASSUME TypeInv, NEW c \in Client, NEW r \in Requests, Handle(c, r)
    PROVE  PhaseType' /\ CardType' /\ ClockType' /\ pc \in Client \union {TICK}
             /\ fate' \in {"runs", "aborted", "undefined"}
             /\ prompt' \in [Client -> {"none", "call", "play"}]
<1> DEFINE Good == PhaseType' /\ CardType' /\ ClockType' /\ pc \in Client \union {TICK}
                     /\ fate' \in {"runs", "aborted", "undefined"}
                     /\ prompt' \in [Client -> {"none", "call", "play"}]
<1>1. PhaseType /\ CardType /\ ClockType /\ LoopType
  BY DEF TypeInv
<1>2. /\ pc \in Client \union {TICK} /\ fate \in {"runs", "aborted", "undefined"}
      /\ prompt \in [Client -> {"none", "call", "play"}]
  BY <1>1 DEF LoopType
<1>3. ASSUME UNCHANGED <<phase, exp>> PROVE PhaseType'
  BY <1>3, <1>1 DEF phase, PhaseType
<1>4. ASSUME UNCHANGED cards PROVE CardType'
  BY <1>4, <1>1 DEF cards, CardType
<1>5. ASSUME UNCHANGED clock PROVE ClockType'
  BY <1>5, <1>1 DEF clock, ClockType
<1>6. ASSUME NEW p \in Client, NotifyYouCall(p) \/ NotifyYouTurn(p)
      PROVE  ClockType' /\ prompt' \in [Client -> {"none", "call", "play"}]
  BY <1>6, <1>2, <1>1, ClockBounds DEF NotifyYouCall, NotifyYouTurn, ClockType
<1>7. ASSUME Nothing PROVE Good
  BY <1>7, <1>2, <1>3, <1>4, <1>5 DEF Nothing
<1>8. ASSUME NEW b \in {0, 1}, READY(c, b) PROVE Good
  <2>1. PhaseType'
    BY <1>8, <1>1 DEF READY, PhaseType
  <2> QED  BY <1>8, <1>2, <1>4, <1>5, <2>1 DEF READY
<1>9. ASSUME NEW b \in {0, 1}, CALL_LORD(c, b) PROVE Good
  <2>1. CASE c # exp
    BY <1>9, <1>7, <2>1 DEF CALL_LORD
  <2>2. CASE c = exp /\ b = 1
    <3>1. /\ exp' = c /\ hold' = [hold EXCEPT ![c] = Insert(@, CardsOf(deck))]
          /\ lord' = [lord EXCEPT ![c] = TRUE]
          /\ UNCHANGED <<phase, deck, clock, fate, prompt>>
      BY <1>9, <2>2 DEF CALL_LORD
    <3>2. PhaseType'
      BY <3>1, <1>1 DEF phase, PhaseType
    <3>3. Insert(hold[c], CardsOf(deck)) \in Hand
      BY <1>1, InsertHand, CardsOfType DEF CardType
    <3>4. CardType'
      BY <1>1, <3>1, <3>3 DEF CardType
    <3> QED  BY <1>2, <1>5, <3>1, <3>2, <3>4
  <2>3. CASE c = exp /\ b # 1
    <3>1. NotifyYouCall(NextPlayer(c)) /\ UNCHANGED <<phase, exp, cards, fate>>
      BY <1>9, <2>3 DEF CALL_LORD
    <3> QED  BY <1>2, <1>3, <1>4, <1>6, <3>1, NextPlayerType
  <2> QED  BY <2>1, <2>2, <2>3
<1>10. ASSUME NEW h, DISCARD(c, h) PROVE Good
  <2>1. CASE UNCHANGED <<phase, exp, cards, clock, prompt>> /\ fate' \in {"undefined", "aborted"}
    BY <2>1, <1>2, <1>3, <1>4, <1>5
  <2>2. CASE Pass /\ exp # None
    <3>1. NextPlayer(exp) \in Client
      BY <1>1, NextPlayerType DEF PhaseType
    <3>2. PhaseType'
      BY <2>2, <1>1, <3>1 DEF Pass, phase, PhaseType
    <3> QED  BY <1>2, <1>4, <1>6, <2>2, <3>1, <3>2 DEF Pass
  <2>3. CASE Reject(c)
    <3>1. prompt' \in [Client -> {"none", "call", "play"}]
      BY <2>3, <1>2 DEF Reject
    <3> QED  BY <2>3, <1>2, <1>3, <1>4, <1>5, <3>1 DEF Reject
  <2> QED  BY <1>10, <1>7, <2>1, <2>2, <2>3 DEF DISCARD
<1> QED  BY <1>8, <1>9, <1>10, HandleCases

\* Each step of the loop in a slot, of a client, and none.
LEMMA TypeSlots ==
    ASSUME TypeInv, SlotSkip \/ SlotHead \/ SlotMessage \/ ClientStep \/ UNCHANGED vars
    PROVE  TypeInv'
<1>1. PhaseType /\ CardType /\ ClockType /\ LoopType /\ MailType
  BY DEF TypeInv
<1>2. ASSUME UNCHANGED <<phase, exp, cards, clock>> PROVE PhaseType' /\ CardType' /\ ClockType'
  BY <1>2, <1>1 DEF phase, cards, clock, PhaseType, CardType, ClockType
<1>3. ASSUME pc \in Client, pc' = pc + 1 PROVE pc' \in Client \union {TICK}
  BY <1>3 DEF Client, TICK
<1>4. CASE SlotSkip
  <2>1. LoopType' /\ MailType'
    BY <1>4, <1>3, <1>1 DEF SlotSkip, AtSlot, LoopType, MailType, MailKnown
  <2> QED  BY <1>4, <1>2, <2>1 DEF SlotSkip, TypeInv
<1>5. CASE SlotHead
  <2>1. LoopType'
    BY <1>5, <1>3, <1>1 DEF SlotHead, AtSlot, LoopType
  <2>2. MailType'
    BY <1>5, <1>1 DEF SlotHead, MailType, MailKnown
  <2> QED  BY <1>5, <1>2, <2>1, <2>2 DEF SlotHead, TypeInv
<1>6. CASE SlotMessage
  <2>1. pc \in Client /\ mail[pc] \in Requests /\ Handle(pc, mail[pc])
    BY <1>6, <1>1 DEF SlotMessage, AtSlot, MailType, MailKnown
  <2>2. PhaseType' /\ CardType' /\ ClockType'
          /\ fate' \in {"runs", "aborted", "undefined"}
          /\ prompt' \in [Client -> {"none", "call", "play"}]
    BY <2>1, TypeHandle
  <2>3. pc' \in Client \union {TICK}
    BY <1>6, <1>3, <2>1 DEF SlotMessage
  <2>4. MailType'
    BY <1>6, <1>1 DEF SlotMessage, MailType, MailKnown
  <2> QED  BY <2>2, <2>3, <2>4 DEF LoopType, TypeInv
<1>7. ASSUME NEW c \in Client, NEW r \in Requests, ClientSends(c, r) PROVE TypeInv'
  <2>1. MailType'
    BY <1>7, <1>1 DEF ClientSends, MailType, MailKnown
  <2>2. LoopType'
    BY <1>7, <1>1 DEF ClientSends, LoopType
  <2> QED  BY <1>7, <1>2, <2>1, <2>2 DEF ClientSends, TypeInv
<1>8. CASE UNCHANGED vars
  <2>1. LoopType' /\ MailType'
    BY <1>8, <1>1 DEF vars, LoopType, MailType, MailKnown
  <2> QED  BY <1>8, <1>2, <2>1 DEF vars, TypeInv
<1> QED  BY <1>4, <1>5, <1>6, <1>7, <1>8 DEF ClientStep

\* Each kind of Tick.
LEMMA TypeTick ==
    ASSUME TypeInv, Tick
    PROVE  TypeInv'
<1>1. PhaseType /\ CardType /\ ClockType /\ LoopType /\ MailType
  BY DEF TypeInv
<1>2. ASSUME TickEnds, prompt' \in [Client -> {"none", "call", "play"}]
      PROVE  LoopType' /\ MailType'
  BY <1>2, <1>1 DEF TickEnds, LoopType, MailType, MailKnown, Client
<1>3. ASSUME UNCHANGED phase, exp' \in Client \union {None} PROVE PhaseType'
  BY <1>3, <1>1 DEF phase, PhaseType
<1>4. ASSUME UNCHANGED cards PROVE CardType'
  BY <1>4, <1>1 DEF cards, CardType
<1>5. /\ exp \in Client \union {None} /\ NextPlayer(exp) \in Client
      /\ prompt \in [Client -> {"none", "call", "play"}]
  BY <1>1, NextPlayerType DEF PhaseType, LoopType
<1>6. ASSUME NEW e \in {0, 1}, TickWaits(e) PROVE TypeInv'
  <2>1. ClockType'
    BY <1>6, <1>1, LaterType, IntervalAssumption DEF TickWaits, ClockType
  <2> QED  BY <1>6, <1>4, <1>2, <1>3, <1>5, <2>1 DEF TickWaits, TypeInv
<1>7. CASE TickStarts
  <2>1. PhaseType'
    <3>1. exp' \in Client /\ started' = TRUE /\ dealt' = TRUE /\ called' = FALSE
            /\ revealed' = FALSE /\ UNCHANGED ready
      BY <1>7 DEF TickStarts, Client
    <3> QED  BY <1>1, <3>1 DEF PhaseType
  <2>2. PICK d \in Shuffles : DispatchCards(d)
    BY <1>7 DEF TickStarts
  <2>3. \A c \in Client : Insert(hold[c], Dealt(d, c)) \in Hand
    BY <1>1, InsertHand, DealTypes DEF CardType
  <2>4. CardType'
    BY <1>7, <1>1, <2>2, <2>3, DealTypes DEF TickStarts, DispatchCards, CardType
  <2>5. ClockType' /\ prompt' \in [Client -> {"none", "call", "play"}]
    BY <1>7, <1>1, <1>5, ClockBounds DEF TickStarts, NotifyYouCall, ClockType
  <2> QED  BY <1>7, <1>2, <2>1, <2>4, <2>5 DEF TickStarts, TypeInv
<1>8. CASE TickCalled
  <2>1. PhaseType'
    BY <1>8, <1>1 DEF TickCalled, PhaseType
  <2>2. ClockType'
    BY <1>8, <1>1 DEF TickCalled, clock, ClockType
  <2> QED  BY <1>8, <1>4, <1>2, <1>5, <2>1, <2>2 DEF TickCalled, TypeInv
<1>9. ASSUME NEW e \in {0, 1}, TickCalls(e) PROVE TypeInv'
  <2>1. PICK left \in 0..due : left = Later(e)
    BY <1>1, LaterType
  <2>2. CASE secCall > left /\ left = 0
    <3>1. CallTimeout /\ UNCHANGED <<phase, cards, secOut>> /\ TickEnds
      BY <1>9, <2>1, <2>2 DEF TickCalls
    <3>2. ClockType' /\ prompt' \in [Client -> {"none", "call", "play"}]
      BY <1>1, <1>5, <3>1, ClockBounds DEF CallTimeout, ClockType
    <3>3. exp' \in Client
      BY <1>5, <3>1 DEF CallTimeout
    <3> QED  BY <1>4, <1>2, <1>3, <3>1, <3>2, <3>3 DEF TypeInv
  <2>3. CASE ~(secCall > left /\ left = 0)
    <3>1. /\ due' = left /\ secCall' = (IF secCall > left THEN left ELSE secCall)
          /\ \/ prompt' = [prompt EXCEPT ![exp] = "call"]
             \/ prompt' = prompt
          /\ UNCHANGED exp /\ UNCHANGED <<phase, cards, secOut>> /\ TickEnds
      BY <1>9, <2>1, <2>3 DEF TickCalls
    <3>2. ClockType'
      BY <1>1, <3>1, IntervalAssumption DEF ClockType
    <3>3. prompt' \in [Client -> {"none", "call", "play"}]
      BY <1>5, <3>1
    <3> QED  BY <1>4, <1>2, <1>3, <1>5, <3>1, <3>2, <3>3 DEF TypeInv
  <2> QED  BY <2>2, <2>3
<1>10. CASE TickReveals
  <2>1. PhaseType'
    BY <1>10, <1>1 DEF TickReveals, PhaseType
  <2>2. ClockType' /\ prompt' \in [Client -> {"none", "call", "play"}]
    BY <1>10, <1>1, ClockBounds DEF TickReveals, ClockType
  <2> QED  BY <1>10, <1>4, <1>2, <2>1, <2>2 DEF TickReveals, TypeInv
<1>11. ASSUME NEW e \in {0, 1}, TickClock(e) PROVE TypeInv'
  <2>1. PICK left \in 0..due : left = Later(e)
    BY <1>1, LaterType
  <2>2. CASE secOut > left /\ left = 0
    <3>1. TurnTimeout /\ UNCHANGED <<phase, cards, secCall>> /\ TickEnds
      BY <1>11, <2>1, <2>2 DEF TickClock
    <3>2. ClockType' /\ prompt' \in [Client -> {"none", "call", "play"}]
      BY <1>1, <1>5, <3>1, ClockBounds DEF TurnTimeout, ClockType
    <3>3. exp' \in Client
      BY <1>5, <3>1 DEF TurnTimeout
    <3> QED  BY <1>4, <1>2, <1>3, <3>1, <3>2, <3>3 DEF TypeInv
  <2>3. CASE ~(secOut > left /\ left = 0)
    <3>1. /\ due' = left /\ secOut' = (IF secOut > left THEN left ELSE secOut)
          /\ UNCHANGED <<exp, prompt>> /\ UNCHANGED <<phase, cards, secCall>> /\ TickEnds
      BY <1>11, <2>1, <2>3 DEF TickClock
    <3>2. ClockType'
      BY <1>1, <3>1, IntervalAssumption DEF ClockType
    <3> QED  BY <1>4, <1>2, <1>3, <1>5, <3>1, <3>2 DEF TypeInv
  <2> QED  BY <2>2, <2>3
<1> QED  BY <1>6, <1>7, <1>8, <1>9, <1>10, <1>11 DEF Tick, TickIn

LEMMA TypeAlways == Spec => []TypeInv
<1>1. TypeInv /\ [Next]_vars => TypeInv'
  BY TypeSlots, TypeTick DEF Next, Loop
<1> QED  BY <1>1, TypeInit, PTL DEF Spec

\* Whatever clients send, in any order and phase, hands hold cards, the turn is a
\* player's and the clock is within its intervals.
THEOREM LandlordTypes == Spec => []TypeOK
BY TypeAlways, TypesHold, PTL
----------------------------------------------------------------------------
(* The first turn is the lord's.                                           *)

\* Client c has sent such a request, and it is not handled yet.
Sent(c, what) == stage[c] # "none" /\ mail[c][1] = what
Lords == {p \in Client : lord[p]}

\* Clients that may take back that they are ready, which halts Tick but not the
\* requests, discard only when they are told to.
Prompted == ~({"unready", "early"} \subseteq habits)

\* Until the cards are revealed, the lord is the one whose turn it is.
Phases ==
    /\ started => exp \in Client
    /\ ~started => exp = None /\ Lords = {} /\ ~called /\ ~revealed
    /\ ~revealed => Lords \subseteq {exp}
    /\ called /\ ~revealed => Lords = {exp}

\* Where everybody stays ready, Tick goes on in the turn in which the lord called,
\* and reveals the cards in the next: of another message of the lord it can have
\* read the header by then, in that turn.
StayReady ==
    "unready" \notin habits =>
        /\ started => IsAllReady
        /\ \A c \in Client : Sent(c, "READY") => mail[c][2] = 1
        /\ ~revealed /\ Lords = {exp} =>
              /\ stage[exp] = "head" => exp < pc
              /\ ~called => exp < pc /\ stage[exp] = "none"

\* Nobody is told to discard, nor does, before the cards are revealed.
NotEarly ==
    "early" \notin habits /\ ~revealed =>
        \A c \in Client : prompt[c] # "play" /\ ~Sent(c, "DISCARD")

LordInv == Phases /\ StayReady /\ NotEarly

LEMMA HabitsStay == [Next]_vars => habits' = habits
<1>1. ASSUME NEW c \in Client, NEW r \in Requests, ClientSends(c, r) PROVE habits' = habits
  BY <1>1 DEF ClientSends
<1>2. ASSUME SlotSkip \/ SlotHead \/ SlotMessage PROVE habits' = habits
  BY <1>2 DEF SlotSkip, SlotHead, SlotMessage
<1>3. ASSUME Tick PROVE habits' = habits
  BY <1>3 DEF Tick, TickStarts, TickCalled, TickReveals, TickIn, TickWaits, TickCalls, TickClock,
              TickEnds
<1> QED  BY <1>1, <1>2, <1>3 DEF Next, Loop, ClientStep, vars

\* What a request does to the phase of the game, to whom it is on and to what
\* clients are told.
LEMMA HandleEffects ==
    ASSUME NEW c \in Client, NEW r \in Requests, Handle(c, r)
    PROVE  /\ UNCHANGED <<started, dealt, called, revealed>>
           /\ \/ /\ \E b \in {0, 1} : r = <<"READY", b>> /\ ready' = [ready EXCEPT ![c] = b = 1]
                 /\ UNCHANGED <<exp, cards, prompt>>
              \/ UNCHANGED <<ready, exp, cards, prompt>>
              \/ /\ c = exp /\ r = <<"CALL_LORD", 1>>
                 /\ lord' = [lord EXCEPT ![c] = TRUE]
                 /\ hold' = [hold EXCEPT ![c] = Insert(@, CardsOf(deck))]
                 /\ UNCHANGED <<ready, exp, deck, prompt>>
              \/ /\ c = exp /\ r = <<"CALL_LORD", 0>>
                 /\ prompt' = [prompt EXCEPT ![NextPlayer(c)] = "call"]
                 /\ UNCHANGED <<ready, exp, cards>>
              \/ /\ c = exp /\ r[1] = "DISCARD"
                 /\ exp' = NextPlayer(exp)
                 /\ prompt' = [prompt EXCEPT ![NextPlayer(exp)] = "play"]
                 /\ UNCHANGED <<ready, cards>>
              \/ /\ c = exp /\ r[1] = "DISCARD"
                 /\ prompt' = [prompt EXCEPT ![c] = "play"]
                 /\ UNCHANGED <<ready, exp, cards>>
<1>1. ASSUME NEW b \in {0, 1}, READY(c, b)
      PROVE  ready' = [ready EXCEPT ![c] = b = 1]
             /\ UNCHANGED <<started, dealt, called, revealed, exp, cards, prompt>>
  BY <1>1 DEF READY
<1>2. ASSUME Nothing PROVE UNCHANGED <<ready, started, dealt, called, revealed, exp, cards, prompt>>
  BY <1>2 DEF Nothing, phase
<1>3. ASSUME NEW b \in {0, 1}, CALL_LORD(c, b), c = exp
      PROVE  /\ UNCHANGED <<ready, started, dealt, called, revealed, exp>>
             /\ b = 1 => /\ lord' = [lord EXCEPT ![c] = TRUE]
                         /\ hold' = [hold EXCEPT ![c] = Insert(@, CardsOf(deck))]
                         /\ UNCHANGED <<deck, prompt>>
             /\ b = 0 => /\ prompt' = [prompt EXCEPT ![NextPlayer(c)] = "call"]
                         /\ UNCHANGED cards
  <2>1. CASE b = 1
    BY <1>3, <2>1 DEF CALL_LORD, phase
  <2>2. CASE b = 0
    BY <1>3, <2>2 DEF CALL_LORD, NotifyYouCall, phase
  <2> QED  BY <2>1, <2>2
<1>4. ASSUME NEW b, CALL_LORD(c, b), c # exp PROVE Nothing
  BY <1>4 DEF CALL_LORD
<1>5. ASSUME NEW h, DISCARD(c, h), exp = None
      PROVE  UNCHANGED <<ready, started, dealt, called, revealed, exp, cards, prompt>>
  BY <1>5 DEF DISCARD, phase
<1>6. ASSUME NEW h, DISCARD(c, h), exp # None, c # exp PROVE Nothing
  BY <1>6 DEF DISCARD
<1>7. ASSUME NEW h, DISCARD(c, h), exp # None, c = exp
      PROVE  /\ UNCHANGED <<ready, started, dealt, called, revealed, cards>>
             /\ \/ UNCHANGED <<exp, prompt>>
                \/ /\ exp' = NextPlayer(exp)
                   /\ prompt' = [prompt EXCEPT ![NextPlayer(exp)] = "play"]
                \/ exp' = exp /\ prompt' = [prompt EXCEPT ![c] = "play"]
  BY <1>7 DEF DISCARD, Pass, Reject, NotifyYouTurn, phase
<1>8. \/ \E b \in {0, 1} : r = <<"READY", b>> /\ READY(c, b)
      \/ \E b \in {0, 1} : r = <<"CALL_LORD", b>> /\ CALL_LORD(c, b)
      \/ \E h : r = <<"DISCARD", h>> /\ DISCARD(c, h)
  BY HandleCases
<1>9. CASE \E b \in {0, 1} : r = <<"READY", b>> /\ READY(c, b)
  BY <1>1, <1>9
<1>10. CASE \E b \in {0, 1} : r = <<"CALL_LORD", b>> /\ CALL_LORD(c, b)
  <2>1. PICK b \in {0, 1} : r = <<"CALL_LORD", b>> /\ CALL_LORD(c, b)
    BY <1>10
  <2>2. CASE c # exp
    BY <1>2, <1>4, <2>1, <2>2
  <2>3. CASE c = exp
    BY <1>3, <2>1, <2>3
  <2> QED  BY <2>2, <2>3
<1>11. CASE \E h : r = <<"DISCARD", h>> /\ DISCARD(c, h)
  <2>1. PICK h : r = <<"DISCARD", h>> /\ DISCARD(c, h)
    BY <1>11
  <2>2. CASE exp = None \/ c # exp
    BY <1>2, <1>5, <1>6, <2>1, <2>2
  <2>3. CASE exp # None /\ c = exp
    BY <1>7, <2>1, <2>3
  <2> QED  BY <2>2, <2>3
<1> QED  BY <1>8, <1>9, <1>10, <1>11

\* A message is handled in the slot of its client, which is free then.
LEMMA MessageFacts ==
    ASSUME TypeInv, SlotMessage
    PROVE  /\ pc \in Client /\ mail[pc] \in Requests /\ Handle(pc, mail[pc])
           /\ stage[pc] = "head" /\ stage'[pc] = "none" /\ pc' = pc + 1
           /\ \A d \in Client \ {pc} : stage'[d] = stage[d] /\ mail'[d] = mail[d]
           /\ \A d \in Client : \A what : Sent(d, what)' => Sent(d, what) /\ d # pc
<1>1. pc \in Client /\ mail[pc] \in Requests /\ Handle(pc, mail[pc])
      /\ stage[pc] = "head" /\ stage'[pc] = "none" /\ pc' = pc + 1
  BY DEF SlotMessage, AtSlot, TypeInv, MailType, MailKnown
<1>2. \A d \in Client \ {pc} : stage'[d] = stage[d] /\ mail'[d] = mail[d]
  BY DEF SlotMessage, TypeInv, MailType
<1>3. \A d \in Client : \A what : Sent(d, what)' => Sent(d, what) /\ d # pc
  BY <1>1, <1>2 DEF Sent
<1> QED  BY <1>1, <1>2, <1>3

\* A header read is of a message that is there.
LEMMA HeadFacts ==
    ASSUME TypeInv, SlotHead
    PROVE  /\ pc \in Client /\ stage[pc] = "here" /\ stage'[pc] = "head" /\ pc' = pc + 1
           /\ \A d \in Client \ {pc} : stage'[d] = stage[d]
           /\ mail' = mail /\ UNCHANGED <<phase, exp, cards, prompt>>
           /\ \A d \in Client : \A what : Sent(d, what)' => Sent(d, what)
<1>1. /\ pc \in Client /\ stage[pc] = "here" /\ stage'[pc] = "head" /\ pc' = pc + 1
      /\ \A d \in Client \ {pc} : stage'[d] = stage[d]
      /\ mail' = mail /\ UNCHANGED <<phase, exp, cards, prompt>>
  BY DEF SlotHead, AtSlot, TypeInv, MailType
<1>2. \A d \in Client : \A what : Sent(d, what)' => Sent(d, what)
  BY <1>1 DEF Sent
<1> QED  BY <1>1, <1>2

\* What a client sends.
LEMMA SendFacts ==
    ASSUME TypeInv, NEW c \in Client, NEW r \in Requests, ClientSends(c, r)
    PROVE  /\ pc = 0 /\ pc' = pc /\ stage[c] = "none" /\ May(c, r)
           /\ stage'[c] = "here" /\ mail'[c] = r
           /\ \A d \in Client \ {c} : stage'[d] = stage[d] /\ mail'[d] = mail[d]
           /\ \A d \in Client : \A what : Sent(d, what)' => Sent(d, what) \/ (d = c /\ r[1] = what)
           /\ \A d \in Client : prompt'[d] = prompt[d]
                                  \/ (d = c /\ prompt'[d] = "none" /\ r[1] # "READY")
           /\ r[1] # "READY" => prompt'[c] = "none"
           /\ UNCHANGED <<phase, exp, cards>>
<1>1. /\ pc = 0 /\ pc' = pc /\ stage[c] = "none" /\ May(c, r)
      /\ UNCHANGED <<phase, exp, cards>>
  BY DEF ClientSends
<1>2. /\ stage'[c] = "here" /\ mail'[c] = r
      /\ \A d \in Client \ {c} : stage'[d] = stage[d] /\ mail'[d] = mail[d]
  BY DEF ClientSends, TypeInv, MailType
<1>3. \A d \in Client : \A what : Sent(d, what)' => Sent(d, what) \/ (d = c /\ r[1] = what)
  BY <1>2 DEF Sent
<1>4. /\ \A d \in Client : prompt'[d] = prompt[d]
                             \/ (d = c /\ prompt'[d] = "none" /\ r[1] # "READY")
      /\ r[1] # "READY" => prompt'[c] = "none"
  BY DEF ClientSends, TypeInv, LoopType
<1> QED  BY <1>1, <1>2, <1>3, <1>4

\* What Tick does to the phase and to the turn.
LEMMA TickFacts ==
    ASSUME TypeInv, Tick
    PROVE  /\ pc = TICK /\ pc' = 0 /\ UNCHANGED <<mail, stage, habits, ready, lord>>
           /\ \/ /\ ~IsAllReady /\ UNCHANGED <<phase, exp, cards, prompt>>
              \/ /\ IsAllReady /\ ~started /\ started' /\ ~called' /\ ~revealed' /\ exp' = 0
                 /\ prompt' = [prompt EXCEPT ![0] = "call"]
                 /\ \E d \in Shuffles : DispatchCards(d)
              \/ /\ IsAllReady /\ started /\ ~called /\ lord[exp] /\ called'
                 /\ UNCHANGED <<started, revealed, exp, cards, prompt>>
              \/ /\ IsAllReady /\ started /\ ~called /\ ~lord[exp]
                 /\ UNCHANGED <<started, called, revealed, cards>>
                 /\ \/ UNCHANGED <<exp, prompt>>
                    \/ /\ exp' = NextPlayer(exp)
                       /\ prompt' = [prompt EXCEPT ![exp] = "none", ![NextPlayer(exp)] = "call"]
                    \/ /\ Has("again") /\ exp' = exp
                       /\ prompt' = [prompt EXCEPT ![exp] = "call"]
              \/ /\ IsAllReady /\ called /\ ~revealed /\ revealed'
                 /\ prompt' = [c \in Client |-> IF c = exp THEN "play" ELSE "none"]
                 /\ UNCHANGED <<started, called, exp, cards>>
              \/ /\ IsAllReady /\ revealed
                 /\ UNCHANGED <<started, called, revealed, cards>>
                 /\ \/ UNCHANGED <<exp, prompt>>
                    \/ /\ exp' = NextPlayer(exp)
                       /\ prompt' = [prompt EXCEPT ![exp] = "none", ![NextPlayer(exp)] = "play"]
<1>1. CASE \E e \in {0, 1} : TickWaits(e)
  BY <1>1 DEF TickWaits, AtTick, TickEnds, phase, cards
<1>2. CASE TickStarts
  BY <1>2 DEF TickStarts, AtTick, TickEnds, NotifyYouCall
<1>3. CASE TickCalled
  BY <1>3 DEF TickCalled, AtTick, TickEnds, cards
<1>4. ASSUME NEW e \in {0, 1}, TickCalls(e)
      PROVE  /\ pc = TICK /\ pc' = 0 /\ UNCHANGED <<mail, stage, habits, ready, lord>>
             /\ IsAllReady /\ started /\ ~called /\ ~lord[exp]
             /\ UNCHANGED <<started, called, revealed, cards>>
             /\ \/ UNCHANGED <<exp, prompt>>
                \/ /\ exp' = NextPlayer(exp)
                   /\ prompt' = [prompt EXCEPT ![exp] = "none", ![NextPlayer(exp)] = "call"]
                \/ /\ Has("again") /\ exp' = exp
                   /\ prompt' = [prompt EXCEPT ![exp] = "call"]
  BY <1>4 DEF TickCalls, AtTick, TickEnds, CallTimeout, phase, cards
<1>5. CASE TickReveals
  BY <1>5 DEF TickReveals, AtTick, TickEnds, cards
<1>6. ASSUME NEW e \in {0, 1}, TickClock(e)
      PROVE  /\ pc = TICK /\ pc' = 0 /\ UNCHANGED <<mail, stage, habits, ready, lord>>
             /\ IsAllReady /\ revealed
             /\ UNCHANGED <<started, called, revealed, cards>>
             /\ \/ UNCHANGED <<exp, prompt>>
                \/ /\ exp' = NextPlayer(exp)
                   /\ prompt' = [prompt EXCEPT ![exp] = "none", ![NextPlayer(exp)] = "play"]
  BY <1>6 DEF TickClock, AtTick, TickEnds, TurnTimeout, phase, cards
<1> QED  BY <1>1, <1>2, <1>3, <1>4, <1>5, <1>6 DEF Tick, TickIn

\* A message that discards before the cards are revealed comes where no lord is.
LEMMA DiscardEarly ==
    ASSUME TypeInv, Prompted, LordInv, ~revealed, exp \in Client, pc = exp,
           stage[pc] = "head", mail[pc][1] = "DISCARD"
    PROVE  Lords = {} /\ ~called
<1>1. Sent(exp, "DISCARD")
  BY DEF Sent
<1>2. "early" \in habits /\ "unready" \notin habits
  BY <1>1 DEF LordInv, NotEarly, Prompted
<1>3. Lords # {exp}
  BY <1>2 DEF LordInv, StayReady, Client
<1> QED  BY <1>3 DEF LordInv, Phases

LEMMA PhasesStep ==
    ASSUME TypeInv, Prompted, LordInv, [Next]_vars
    PROVE  Phases'
<1>1. /\ started => exp \in Client
      /\ ~started => exp = None /\ Lords = {} /\ ~called /\ ~revealed
      /\ ~revealed => Lords \subseteq {exp}
      /\ called /\ ~revealed => Lords = {exp}
  BY DEF LordInv, Phases
<1>2. lord \in [Client -> BOOLEAN] /\ exp \in Client \union {None}
  BY DEF TypeInv, PhaseType, CardType
<1>3. ASSUME UNCHANGED <<started, called, revealed, exp, lord>> PROVE Phases'
  BY <1>1, <1>3 DEF Phases, Lords
<1>4. CASE SlotMessage
  <2>1. pc \in Client /\ Handle(pc, mail[pc]) /\ mail[pc] \in Requests /\ stage[pc] = "head"
    BY <1>4, MessageFacts
  <2>2. UNCHANGED <<started, called, revealed>>
    BY <2>1, HandleEffects
  <2>3. CASE UNCHANGED <<exp, lord>>
    BY <1>3, <2>2, <2>3
  <2>4. CASE pc = exp /\ exp' = exp /\ lord' = [lord EXCEPT ![pc] = TRUE]
    <3>1. started
      BY <1>1, <2>1, <2>4 DEF None, Client
    <3>2. Lords' = Lords \union {exp}
      BY <1>2, <2>1, <2>4 DEF Lords
    <3> QED  BY <1>1, <2>2, <2>4, <3>1, <3>2 DEF Phases
  <2>5. CASE pc = exp /\ mail[pc][1] = "DISCARD" /\ exp' = NextPlayer(exp) /\ lord' = lord
    <3>1. started /\ exp' \in Client
      BY <1>1, <2>1, <2>5, NextPlayerType DEF None, Client
    <3>2. ~revealed => Lords = {} /\ ~called
      BY <2>1, <2>5, DiscardEarly
    <3>3. Lords' = Lords
      BY <2>5 DEF Lords
    <3> QED  BY <1>1, <2>2, <3>1, <3>2, <3>3 DEF Phases
  <2> QED  BY <2>1, <2>3, <2>4, <2>5, HandleEffects DEF cards
<1>5. CASE Tick
  <2>1. Lords' = Lords
    BY <1>5, TickFacts DEF Lords
  <2>2. exp \in Client => (lord[exp] <=> exp \in Lords)
    BY DEF Lords
  <2>3. exp \in Client => NextPlayer(exp) \in Client
    BY NextPlayerType
  <2>4. 0 \in Client
    BY DEF Client
  <2> QED  BY <1>5, <1>1, <1>3, <2>1, <2>2, <2>3, <2>4, TickFacts DEF Phases, phase, cards
<1>6. CASE SlotSkip \/ SlotHead \/ ClientStep \/ UNCHANGED vars
  <2>1. UNCHANGED <<phase, exp, cards>>
    BY <1>6 DEF SlotSkip, SlotHead, ClientStep, ClientSends, vars
  <2> QED  BY <1>3, <2>1 DEF phase, cards
<1> QED  BY <1>4, <1>5, <1>6 DEF Next, Loop

LEMMA ReadyStep ==
    ASSUME TypeInv, Prompted, LordInv, [Next]_vars
    PROVE  StayReady'
<1> SUFFICES ASSUME "unready" \notin habits
             PROVE  /\ started' => IsAllReady'
                    /\ \A c \in Client : Sent(c, "READY")' => mail'[c][2] = 1
                    /\ ~revealed' /\ Lords' = {exp'} =>
                          /\ stage'[exp'] = "head" => exp' < pc'
                          /\ ~called' => exp' < pc' /\ stage'[exp'] = "none"
  BY HabitsStay DEF StayReady
<1> DEFINE Kept == /\ started' => IsAllReady'
                   /\ \A c \in Client : Sent(c, "READY")' => mail'[c][2] = 1
           Soon == ~revealed' /\ Lords' = {exp'} =>
                          /\ stage'[exp'] = "head" => exp' < pc'
                          /\ ~called' => exp' < pc' /\ stage'[exp'] = "none"
<1>1. /\ started => IsAllReady
      /\ \A c \in Client : Sent(c, "READY") => mail[c][2] = 1
      /\ ~revealed /\ Lords = {exp} =>
            /\ stage[exp] = "head" => exp < pc
            /\ ~called => exp < pc /\ stage[exp] = "none"
  BY DEF LordInv, StayReady
<1>2. /\ started => exp \in Client
      /\ ~started => exp = None /\ Lords = {} /\ ~called /\ ~revealed
      /\ ~revealed => Lords \subseteq {exp}
      /\ called /\ ~revealed => Lords = {exp}
      /\ Lords \subseteq Client
  BY DEF LordInv, Phases, Lords
<1>3. /\ lord \in [Client -> BOOLEAN] /\ ready \in [Client -> BOOLEAN]
      /\ stage \in [Client -> {"none", "here", "head"}]
      /\ \A c \in Client : c \in Int
  BY DEF TypeInv, PhaseType, CardType, MailType, Client
<1>4. CASE SlotMessage
  <2>1. /\ pc \in Client /\ Handle(pc, mail[pc]) /\ mail[pc] \in Requests
        /\ stage[pc] = "head" /\ stage'[pc] = "none" /\ pc' = pc + 1
        /\ \A d \in Client \ {pc} : stage'[d] = stage[d] /\ mail'[d] = mail[d]
        /\ \A d \in Client : \A what : Sent(d, what)' => Sent(d, what) /\ d # pc
    BY <1>4, MessageFacts
  <2>2. UNCHANGED <<started, called, revealed>>
    BY <2>1, HandleEffects
  <2>3. \A d \in Client : ready[d] => ready'[d]
    <3>1. CASE ready' = ready
      BY <3>1
    <3>2. ASSUME NEW b \in {0, 1}, mail[pc] = <<"READY", b>>, ready' = [ready EXCEPT ![pc] = b = 1]
          PROVE  \A d \in Client : ready[d] => ready'[d]
      <4>1. b = 1
        BY <1>1, <2>1, <3>2 DEF Sent
      <4> QED  BY <1>3, <3>2, <4>1
    <3> QED  BY <2>1, <3>1, <3>2, HandleEffects
  <2>4. Kept
    BY <1>1, <2>1, <2>2, <2>3 DEF IsAllReady
  <2>5. CASE UNCHANGED <<exp, lord>>
    <3>1. Lords' = Lords
      BY <2>5 DEF Lords
    <3>2. Soon
      BY <1>1, <1>2, <1>3, <2>1, <2>2, <2>5, <3>1
    <3> QED  BY <2>4, <3>2
  <2>6. CASE pc = exp /\ exp' = exp /\ lord' = [lord EXCEPT ![pc] = TRUE]
    <3>1. Soon
      BY <1>3, <2>1, <2>6
    <3> QED  BY <2>4, <3>1
  <2>7. CASE pc = exp /\ mail[pc][1] = "DISCARD" /\ exp' = NextPlayer(exp) /\ lord' = lord
    <3>1. ~revealed => Lords = {} /\ Lords' = {}
      BY <2>1, <2>7, DiscardEarly DEF Lords
    <3>2. Soon
      BY <2>2, <3>1
    <3> QED  BY <2>4, <3>2
  <2> QED  BY <2>1, <2>5, <2>6, <2>7, HandleEffects DEF cards
<1>5. CASE Tick
  <2>1. /\ pc = TICK /\ pc' = 0 /\ UNCHANGED <<mail, stage, ready, lord>>
    BY <1>5, TickFacts
  <2>2. Lords' = Lords /\ (exp \in Client => (lord[exp] <=> exp \in Lords))
    BY <2>1 DEF Lords
  <2>3. started' => IsAllReady'
    BY <1>5, <1>1, <2>1, TickFacts DEF IsAllReady, phase
  <2>4. Kept
    BY <1>1, <2>1, <2>3 DEF Sent
  <2>5. Soon
    <3> SUFFICES ASSUME ~revealed', Lords' = {exp'}
                 PROVE  stage[exp'] = "none" /\ called'
      BY <2>1
    <3>1. started /\ exp \in Lords
      BY <1>5, <1>2, <2>2, TickFacts DEF phase
    <3>2. IsAllReady /\ lord[exp] /\ Lords = {exp'}
      BY <1>1, <1>2, <2>2, <3>1
    <3>3. ~revealed /\ ~called /\ called' /\ exp' = exp
      <4>1. ~revealed'
        OBVIOUS
      <4>2. started
        BY <3>1
      <4>3. ~revealed
        BY <1>5, <3>2, <4>1, <4>2, TickFacts
      <4>4. CASE called
        <5>1. FALSE
          BY <1>5, <3>2, <4>1, <4>2, <4>3, <4>4, TickFacts
        <5> QED  BY <5>1
      <4>5. CASE ~called /\ ~lord[exp]
        BY <3>2, <4>5
      <4>6. CASE ~called /\ lord[exp]
        BY <1>5, <3>2, <4>1, <4>2, <4>3, <4>6, TickFacts
      <4> QED  BY <4>4, <4>5, <4>6
    <3> QED  BY <1>1, <3>2, <3>3
  <2> QED  BY <2>4, <2>5
<1>6. ASSUME SlotSkip PROVE Kept /\ Soon
  <2>1. /\ pc \in Client /\ pc' = pc + 1
        /\ UNCHANGED <<ready, started, called, revealed, exp, lord, mail, stage>>
    BY <1>6 DEF SlotSkip, AtSlot, phase, cards
  <2>2. Kept
    BY <1>1, <2>1 DEF IsAllReady, Sent
  <2>3. Lords' = Lords
    BY <2>1 DEF Lords
  <2> QED  BY <1>1, <1>2, <1>3, <2>1, <2>2, <2>3
<1>7. CASE SlotHead
  <2>1. /\ pc \in Client /\ stage[pc] = "here" /\ stage'[pc] = "head" /\ pc' = pc + 1
        /\ \A d \in Client \ {pc} : stage'[d] = stage[d]
        /\ mail' = mail /\ UNCHANGED <<ready, started, called, revealed, exp, lord>>
        /\ \A d \in Client : \A what : Sent(d, what)' => Sent(d, what)
    BY <1>7, HeadFacts DEF phase, cards
  <2>2. Kept
    BY <1>1, <2>1 DEF IsAllReady
  <2>3. Lords' = Lords
    BY <2>1 DEF Lords
  <2>4. Soon
    BY <1>1, <1>2, <1>3, <2>1, <2>3
  <2> QED  BY <2>2, <2>4
<1>8. ASSUME NEW c \in Client, NEW r \in Requests, ClientSends(c, r) PROVE Kept /\ Soon
  <2>1. /\ pc = 0 /\ pc' = pc /\ stage[c] = "none" /\ May(c, r)
        /\ stage'[c] = "here" /\ mail'[c] = r
        /\ \A d \in Client \ {c} : stage'[d] = stage[d] /\ mail'[d] = mail[d]
        /\ \A d \in Client : \A what : Sent(d, what)' => Sent(d, what) \/ (d = c /\ r[1] = what)
        /\ UNCHANGED <<ready, started, called, revealed, exp, lord>>
    BY <1>8, SendFacts DEF phase, cards
  <2>2. r[1] = "READY" => r[2] = 1
    BY <2>1 DEF May, Has
  <2>3. ~Sent(c, "READY")
    BY <2>1 DEF Sent
  <2>4. Kept
    BY <1>1, <2>3, <2>1, <2>2 DEF IsAllReady
  <2>5. Lords' = Lords
    BY <2>1 DEF Lords
  <2>6. \A d \in Client : ~(d < 0)
    BY DEF Client
  <2>7. Soon
    BY <1>1, <1>2, <1>3, <2>1, <2>5, <2>6
  <2> QED  BY <2>4, <2>7
<1>9. CASE UNCHANGED vars
  <2>1. UNCHANGED <<ready, started, called, revealed, exp, lord, mail, stage, pc>>
    BY <1>9 DEF vars, phase, cards
  <2>2. Lords' = Lords
    BY <2>1 DEF Lords
  <2> QED  BY <1>1, <2>1, <2>2 DEF IsAllReady, Sent
<1> QED  BY <1>4, <1>5, <1>6, <1>7, <1>8, <1>9 DEF Next, Loop, ClientStep

LEMMA EarlyStep ==
    ASSUME TypeInv, LordInv, [Next]_vars
    PROVE  NotEarly'
<1> SUFFICES ASSUME "early" \notin habits, ~revealed', NEW c \in Client
             PROVE  prompt'[c] # "play" /\ ~Sent(c, "DISCARD")'
  BY HabitsStay DEF NotEarly
<1>1. ~revealed => \A d \in Client : prompt[d] # "play" /\ ~Sent(d, "DISCARD")
  BY DEF LordInv, NotEarly
<1>2. prompt \in [Client -> {"none", "call", "play"}]
  BY DEF TypeInv, LoopType
<1>3. CASE SlotMessage
  <2>1. /\ pc \in Client /\ Handle(pc, mail[pc]) /\ mail[pc] \in Requests /\ stage[pc] = "head"
        /\ \A what : Sent(c, what)' => Sent(c, what)
    BY <1>3, MessageFacts
  <2>2. ~revealed
    BY <2>1, HandleEffects
  <2>3. mail[pc][1] # "DISCARD"
    BY <1>1, <2>1, <2>2 DEF Sent
  <2>4. prompt' = prompt \/ \E d : prompt' = [prompt EXCEPT ![d] = "call"]
    BY <2>1, <2>3, HandleEffects
  <2> QED  BY <1>1, <1>2, <2>1, <2>2, <2>4
<1>4. CASE Tick
  <2>1. UNCHANGED <<mail, stage>>
    BY <1>4, TickFacts
  <2>2. ~revealed
    BY <1>4, TickFacts DEF phase, LordInv, Phases
  <2>3. \/ prompt' = prompt
        \/ \E d : prompt' = [prompt EXCEPT ![d] = "call"]
        \/ \E d, e : prompt' = [prompt EXCEPT ![d] = "none", ![e] = "call"]
    BY <1>4, <2>2, TickFacts
  <2>4. prompt'[c] \in {prompt[c], "none", "call"}
    BY <1>2, <2>3
  <2> QED  BY <1>1, <2>1, <2>2, <2>4 DEF Sent
<1>5. CASE SlotSkip \/ UNCHANGED vars
  <2>1. UNCHANGED <<mail, stage, prompt, revealed>>
    BY <1>5 DEF SlotSkip, vars, phase
  <2> QED  BY <1>1, <2>1 DEF Sent
<1>6. CASE SlotHead
  <2>1. UNCHANGED <<prompt, revealed>> /\ \A what : Sent(c, what)' => Sent(c, what)
    BY <1>6, HeadFacts DEF phase
  <2> QED  BY <1>1, <2>1
<1>7. ASSUME NEW d \in Client, NEW r \in Requests, ClientSends(d, r)
      PROVE  prompt'[c] # "play" /\ ~Sent(c, "DISCARD")'
  <2>1. /\ May(d, r) /\ UNCHANGED revealed
        /\ \A what : Sent(c, what)' => Sent(c, what) \/ (c = d /\ r[1] = what)
        /\ prompt'[c] \in {prompt[c], "none"}
    BY <1>7, SendFacts DEF phase
  <2>2. r[1] # "DISCARD"
    BY <1>1, <2>1 DEF May, Has
  <2> QED  BY <1>1, <2>1, <2>2
<1> QED  BY <1>3, <1>4, <1>5, <1>6, <1>7 DEF Next, Loop, ClientStep

LEMMA LordInit == Init => LordInv
<1> SUFFICES ASSUME Init PROVE LordInv
  OBVIOUS
<1>1. Lords = {}
  BY DEF Init, Lords
<1>2. \A c \in Client : stage[c] = "none" /\ prompt[c] = "none"
  BY DEF Init
<1>3. started = FALSE /\ called = FALSE /\ revealed = FALSE /\ exp = None
  BY DEF Init
<1>4. Lords # {exp}
  BY <1>1
<1> QED  BY <1>1, <1>2, <1>3, <1>4 DEF LordInv, Phases, StayReady, NotEarly, Sent

\* No profile lets clients both take back that they are ready and discard unasked.
Prompts == \A h \in Profiles : ~({"unready", "early"} \subseteq h)
PromptInv == Prompts /\ habits \in Profiles /\ LordInv

\* Landlord.h:20 "start from lord": the first told to discard is the lord,
\* however late or often clients answer and whether they pass early.  Tick goes
\* on from the call to the reveal before a second message of the lord can be
\* read, unless another client halts it by taking back that it is ready.
THEOREM LandlordLordStarts == Prompts /\ Spec => LordStarts
<1>1. Prompts /\ Init => PromptInv
  BY LordInit DEF Init, PromptInv
<1>2. TypeInv /\ PromptInv /\ [Next]_vars => PromptInv'
  <2> SUFFICES ASSUME TypeInv, PromptInv, [Next]_vars PROVE PromptInv'
    OBVIOUS
  <2>1. Prompted /\ LordInv /\ habits' \in Profiles
    BY HabitsStay DEF PromptInv, Prompts, Prompted
  <2>2. LordInv'
    BY <2>1, PhasesStep, ReadyStep, EarlyStep DEF LordInv
  <2> QED  BY <2>1, <2>2 DEF PromptInv, Prompts
<1>3. TypeInv /\ PromptInv /\ [Next]_vars => [TickReveals => lord[exp]]_vars
  <2> SUFFICES ASSUME TypeInv, PromptInv, TickReveals PROVE lord[exp]
    OBVIOUS
  <2>1. called /\ ~revealed
    BY DEF TickReveals
  <2>2. exp \in Lords
    BY <2>1 DEF PromptInv, LordInv, Phases
  <2> QED  BY <2>2 DEF Lords
<1> QED  BY <1>1, <1>2, <1>3, TypeAlways, PTL DEF Spec, LordStarts
----------------------------------------------------------------------------
(* Each card is in one place.                                              *)

\* Clients that answer each call once, promptly and with yes.
Prompt == habits \intersect {"refuse", "again", "late", "early"} = {}

\* Nobody answers a call before a game, or twice.
AnswersOnce ==
    \A c \in Client : Sent(c, "CALL_LORD") => /\ mail[c][2] = 1 /\ prompt[c] # "call"
                                              /\ started

\* Once there is a lord nobody is asked, and no answer is on its way.
Settled ==
    /\ (revealed => called) /\ (called => Lords # {})
    /\ Lords # {} => \A c \in Client : prompt[c] # "call" /\ ~Sent(c, "CALL_LORD")

\* Before, the one whose turn it is is asked.  An answer is on its way from it, or
\* from the one before it, whose time ran out with its answer half read: that
\* answer comes before one of the next can.
Asked ==
    Lords = {} => \A c \in Client :
        /\ prompt[c] = "call" => exp = c /\ started /\ ~called
        /\ Sent(c, "CALL_LORD") =>
              \/ exp = c /\ (stage[c] = "here" => pc <= c)
              \/ /\ exp = NextPlayer(c) /\ exp # c
                 /\ stage[c] = "head" /\ pc <= c
                 /\ Sent(exp, "CALL_LORD") /\ stage[exp] = "head" => exp < pc
CallInv == AnswersOnce /\ Settled /\ Asked

\* Where what is asked and answered stays, and the messages on their way stay but
\* for one that is handled.
LEMMA SlotPasses ==
    ASSUME CallInv, UNCHANGED <<started, called, revealed, exp, lord, prompt>>,
           pc \in Client, pc' = pc + 1,
           \A d \in Client : \A what : Sent(d, what)' => Sent(d, what) /\ d # pc,
           \A d \in Client \ {pc} : stage'[d] = stage[d] /\ mail'[d] = mail[d]
    PROVE  CallInv'
<1>1. Lords' = Lords
  BY DEF Lords
<1>2. AnswersOnce' /\ Settled'
  BY <1>1 DEF CallInv, AnswersOnce, Settled
<1>3. Asked'
  <2> SUFFICES ASSUME Lords = {}, NEW c \in Client, Sent(c, "CALL_LORD")'
               PROVE  \/ exp = c /\ (stage'[c] = "here" => pc' <= c)
                      \/ /\ exp = NextPlayer(c) /\ exp # c
                         /\ stage'[c] = "head" /\ pc' <= c
                         /\ Sent(exp, "CALL_LORD")' /\ stage'[exp] = "head" => exp < pc'
    BY <1>1 DEF CallInv, Asked
  <2>1. Sent(c, "CALL_LORD") /\ c # pc /\ stage'[c] = stage[c]
    OBVIOUS
  <2>2. \A d \in Client : d \in Int
    BY DEF Client
  <2>3. CASE exp = c /\ (stage[c] = "here" => pc <= c)
    BY <2>1, <2>2, <2>3
  <2>4. CASE /\ exp = NextPlayer(c) /\ exp # c /\ stage[c] = "head" /\ pc <= c
             /\ Sent(exp, "CALL_LORD") /\ stage[exp] = "head" => exp < pc
    <3>1. exp \in Client
      BY <2>4, NextPlayerType
    <3>2. Sent(exp, "CALL_LORD")' /\ stage'[exp] = "head" => exp < pc
      BY <2>4, <3>1
    <3> QED  BY <2>1, <2>2, <2>4, <3>1, <3>2
  <2> QED  BY <2>1, <2>3, <2>4 DEF CallInv, Asked
<1> QED  BY <1>2, <1>3 DEF CallInv

\* A handler for prompt clients: the first that calls becomes the lord.
LEMMA CallMessage ==
    ASSUME TypeInv, Prompt, LordInv, CallInv, SlotMessage
    PROVE  CallInv'
<1>1. /\ pc \in Client /\ Handle(pc, mail[pc]) /\ mail[pc] \in Requests
      /\ stage[pc] = "head" /\ stage'[pc] = "none" /\ pc' = pc + 1
      /\ \A d \in Client \ {pc} : stage'[d] = stage[d] /\ mail'[d] = mail[d]
      /\ \A d \in Client : \A what : Sent(d, what)' => Sent(d, what) /\ d # pc
  BY MessageFacts
<1>2. UNCHANGED <<started, called, revealed>>
  BY <1>1, HandleEffects
<1>3. lord \in [Client -> BOOLEAN] /\ prompt \in [Client -> {"none", "call", "play"}]
  BY DEF TypeInv, CardType, LoopType
<1>4. AnswersOnce /\ Settled /\ Asked
  BY DEF CallInv
<1>5. CASE UNCHANGED <<exp, lord, prompt>>
  BY <1>1, <1>2, <1>5, SlotPasses
<1>6. CASE /\ pc = exp /\ mail[pc] = <<"CALL_LORD", 1>> /\ lord' = [lord EXCEPT ![pc] = TRUE]
           /\ UNCHANGED <<exp, prompt>>
  <2>1. Sent(pc, "CALL_LORD")
    BY <1>1, <1>6 DEF Sent
  <2>2. Lords = {} /\ ~called /\ ~revealed
    BY <1>1, <1>4, <2>1 DEF Settled
  <2>3. Lords' = {pc}
    BY <1>1, <1>6, <1>3, <2>2 DEF Lords
  <2>4. \A d \in Client : prompt[d] # "call"
    BY <1>1, <1>6, <1>4, <2>1, <2>2 DEF AnswersOnce, Asked
  <2>5. ASSUME NEW d \in Client, Sent(d, "CALL_LORD"), d # pc PROVE FALSE
    <3>1. Sent(exp, "CALL_LORD") /\ stage[exp] = "head" => exp < pc
      BY <1>6, <1>4, <2>2, <2>5 DEF Asked
    <3>2. exp < pc
      BY <1>1, <1>6, <2>1, <3>1
    <3> QED  BY <1>1, <1>6, <3>2 DEF Client
  <2>6. \A d \in Client : ~Sent(d, "CALL_LORD")'
    BY <1>1, <2>5
  <2> QED
    BY <1>2, <1>6, <2>2, <2>3, <2>4, <2>6 DEF CallInv, AnswersOnce, Settled, Asked
<1>7. CASE mail[pc] = <<"CALL_LORD", 0>>
  <2>1. Sent(pc, "CALL_LORD")
    BY <1>1, <1>7 DEF Sent
  <2> QED  BY <1>1, <1>7, <1>4, <2>1 DEF AnswersOnce
<1>8. CASE mail[pc][1] = "DISCARD" /\ lord' = lord
           /\ \E d \in Client : prompt' = [prompt EXCEPT ![d] = "play"]
  <2>1. Sent(pc, "DISCARD")
    BY <1>1, <1>8 DEF Sent
  <2>2. revealed
    BY <1>1, <2>1 DEF Prompt, LordInv, NotEarly
  <2>3. Lords # {} /\ Lords' = Lords
    BY <1>8, <1>4, <2>2 DEF Settled, Lords
  <2>4. \A d \in Client : prompt'[d] # "call" /\ ~Sent(d, "CALL_LORD")'
    BY <1>1, <1>8, <1>4, <1>3, <2>3 DEF Settled
  <2> QED
    BY <1>2, <1>4, <2>3, <2>4 DEF CallInv, AnswersOnce, Settled, Asked
<1>9. exp \in Client => NextPlayer(exp) \in Client
  BY NextPlayerType
<1> QED  BY <1>1, <1>5, <1>6, <1>7, <1>8, <1>9, HandleEffects DEF cards

LEMMA CallTick ==
    ASSUME TypeInv, Prompt, LordInv, CallInv, Tick
    PROVE  CallInv'
<1>1. pc = TICK /\ pc' = 0 /\ UNCHANGED <<mail, stage, lord>> /\ ~Has("again")
  BY TickFacts DEF Prompt, Has
<1>2. Lords' = Lords /\ \A c \in Client : \A what : Sent(c, what)' <=> Sent(c, what)
  BY <1>1 DEF Lords, Sent
<1>3. /\ prompt \in [Client -> {"none", "call", "play"}]
      /\ exp \in Client => NextPlayer(exp) \in Client /\ NextPlayer(exp) # exp
  BY NextPlayerType DEF TypeInv, LoopType
<1>4. AnswersOnce /\ Settled /\ Asked
  BY DEF CallInv
<1>5. /\ started => exp \in Client
      /\ ~started => exp = None /\ Lords = {} /\ ~called /\ ~revealed
      /\ ~revealed => Lords \subseteq {exp}
      /\ \A c \in Client : lord[c] <=> c \in Lords
  BY DEF LordInv, Phases, Lords
<1>6. CASE Lords # {}
  <2>1. started /\ \A c \in Client : prompt[c] # "call" /\ ~Sent(c, "CALL_LORD")
    BY <1>6, <1>4, <1>5 DEF Settled
  <2>2. ~called => lord[exp]
    BY <1>6, <1>4, <1>5, <2>1 DEF Settled
  <2>3. /\ revealed' => called'
        /\ \/ prompt' = prompt
           \/ prompt' = [c \in Client |-> IF c = exp THEN "play" ELSE "none"]
           \/ prompt' = [prompt EXCEPT ![exp] = "none", ![NextPlayer(exp)] = "play"]
    <3>1. revealed => called
      BY <1>4 DEF Settled
    <3>2. CASE called
      BY <2>1, <3>2, TickFacts DEF phase
    <3>3. CASE ~called /\ lord[exp] /\ ~IsAllReady
      <4>1. ~IsAllReady
        BY <3>3
      <4>2. UNCHANGED <<phase, prompt>>
        BY <4>1, TickFacts
      <4> QED  BY <3>1, <4>2 DEF phase
    <3>4. CASE ~called /\ lord[exp] /\ IsAllReady
      <4>1. ~called /\ ~revealed /\ lord[exp] /\ IsAllReady /\ started
        BY <2>1, <3>1, <3>4
      <4>2. UNCHANGED <<revealed, prompt>>
        BY <4>1, TickFacts
      <4> QED  BY <4>1, <4>2
    <3> QED  BY <2>2, <3>2, <3>3, <3>4
  <2>4. \A c \in Client : prompt'[c] # "call"
    BY <1>3, <2>1, <2>3
  <2> QED
    BY <1>2, <1>6, <2>1, <2>3, <2>4 DEF CallInv, AnswersOnce, Settled, Asked
<1>7. CASE Lords = {}
  <2>1. ~called /\ ~revealed
    BY <1>7, <1>4 DEF Settled
  <2>2. \A c \in Client : Sent(c, "CALL_LORD") => exp = c /\ stage[c] = "head" /\ started
    <3> SUFFICES ASSUME NEW c \in Client, Sent(c, "CALL_LORD")
                 PROVE  exp = c /\ stage[c] = "head" /\ started
      OBVIOUS
    <3>1. ~(pc <= c)
      BY <1>1 DEF Client, TICK
    <3>2. stage[c] \in {"here", "head"}
      BY DEF Sent, TypeInv, MailType
    <3> QED  BY <1>7, <1>4, <3>1, <3>2 DEF Asked, AnswersOnce
  <2>3. \A c \in Client : prompt[c] = "call" => exp = c /\ started
    BY <1>7, <1>4 DEF Asked
  <2>4. started => ~lord[exp]
    BY <1>7, <1>5
  <2>5. \/ UNCHANGED <<started, called, revealed, exp, prompt>>
        \/ /\ ~started /\ started' /\ ~called' /\ ~revealed' /\ exp' = 0
           /\ prompt' = [prompt EXCEPT ![0] = "call"]
        \/ /\ started /\ UNCHANGED <<started, called, revealed>>
           /\ exp' = NextPlayer(exp)
           /\ prompt' = [prompt EXCEPT ![exp] = "none", ![NextPlayer(exp)] = "call"]
    BY <1>1, <2>1, <2>4, TickFacts DEF phase
  <2>6. \A c \in Client : 0 <= c
    BY DEF Client
  <2>7. CASE UNCHANGED <<started, called, revealed, exp, prompt>>
    <3>1. AnswersOnce' /\ Settled'
      BY <1>1, <1>2, <1>4, <2>7 DEF AnswersOnce, Settled
    <3>2. Asked'
      BY <1>1, <1>2, <1>7, <2>6, <2>1, <2>2, <2>3, <2>7 DEF Asked
    <3> QED  BY <3>1, <3>2 DEF CallInv
  <2>8. CASE /\ ~started /\ started' /\ ~called' /\ ~revealed' /\ exp' = 0
             /\ prompt' = [prompt EXCEPT ![0] = "call"]
    <3>1. \A c \in Client : ~Sent(c, "CALL_LORD")' /\ (prompt'[c] = "call" => c = 0)
      BY <1>2, <1>3, <2>2, <2>3, <2>8
    <3> QED
      BY <1>2, <1>7, <2>8, <3>1 DEF CallInv, AnswersOnce, Settled, Asked
  <2>9. CASE /\ started /\ UNCHANGED <<started, called, revealed>>
             /\ exp' = NextPlayer(exp)
             /\ prompt' = [prompt EXCEPT ![exp] = "none", ![NextPlayer(exp)] = "call"]
    <3>1. exp \in Client /\ exp' \in Client /\ exp' # exp
      BY <1>5, <1>3, <2>9
    <3>2. \A c \in Client : prompt'[c] = "call" => c = exp'
      BY <1>3, <2>3, <2>9, <3>1
    <3>3. \A c \in Client : Sent(c, "CALL_LORD")' =>
             /\ c = exp /\ prompt'[c] # "call" /\ mail'[c][2] = 1 /\ stage'[c] = "head"
      BY <1>1, <1>2, <1>4, <2>2, <3>1, <3>2 DEF AnswersOnce
    <3>4. AnswersOnce'
      BY <2>9, <3>3 DEF AnswersOnce
    <3>5. Settled'
      BY <1>2, <1>7, <2>1, <2>9 DEF Settled
    <3>6. Asked'
      BY <1>1, <2>6, <2>1, <2>9, <3>1, <3>2, <3>3 DEF Asked
    <3> QED  BY <3>4, <3>5, <3>6 DEF CallInv
  <2> QED  BY <2>5, <2>7, <2>8, <2>9
<1> QED  BY <1>6, <1>7

LEMMA CallStep ==
    ASSUME TypeInv, Prompt, LordInv, CallInv, [Next]_vars
    PROVE  CallInv'
<1>1. AnswersOnce /\ Settled /\ Asked
  BY DEF CallInv
<1>2. stage \in [Client -> {"none", "here", "head"}] /\ \A c \in Client : c \in Int /\ 0 <= c
  BY DEF TypeInv, MailType, Client
<1>3. CASE SlotSkip
  <2>1. /\ pc \in Client /\ stage[pc] = "none" /\ pc' = pc + 1
        /\ UNCHANGED <<started, called, revealed, exp, lord, prompt, mail, stage>>
    BY <1>3 DEF SlotSkip, AtSlot, phase, cards, Has, Prompt
  <2>2. \A d \in Client : \A what : Sent(d, what)' => Sent(d, what) /\ d # pc
    BY <2>1 DEF Sent
  <2> QED  BY <2>1, <2>2, SlotPasses
<1>4. CASE SlotHead
  <2>1. /\ pc \in Client /\ stage[pc] = "here" /\ stage'[pc] = "head" /\ pc' = pc + 1
        /\ \A d \in Client \ {pc} : stage'[d] = stage[d]
        /\ mail' = mail /\ UNCHANGED <<started, called, revealed, exp, lord, prompt>>
        /\ \A d \in Client : \A what : Sent(d, what)' => Sent(d, what)
    BY <1>4, HeadFacts DEF phase, cards
  <2>2. Lords' = Lords
    BY <2>1 DEF Lords
  <2>3. AnswersOnce' /\ Settled'
    BY <1>1, <2>1, <2>2 DEF AnswersOnce, Settled
  <2>4. ASSUME Lords = {}, NEW c \in Client, Sent(c, "CALL_LORD")
        PROVE  \/ exp = c /\ (stage'[c] = "here" => pc' <= c)
               \/ /\ exp = NextPlayer(c) /\ exp # c
                  /\ stage'[c] = "head" /\ pc' <= c
                  /\ Sent(exp, "CALL_LORD")' /\ stage'[exp] = "head" => exp < pc'
    <3>1. CASE exp = c /\ (stage[c] = "here" => pc <= c)
      BY <1>2, <2>1, <3>1
    <3>2. CASE /\ exp = NextPlayer(c) /\ exp # c /\ stage[c] = "head" /\ pc <= c
               /\ Sent(exp, "CALL_LORD") /\ stage[exp] = "head" => exp < pc
      <4>1. exp \in Client /\ c # pc /\ stage'[c] = "head"
        BY <2>1, <3>2, NextPlayerType
      <4>2. pc' <= c
        BY <1>2, <2>1, <3>2, <4>1
      <4>3. Sent(exp, "CALL_LORD")' /\ stage'[exp] = "head" => exp < pc'
        BY <1>2, <2>1, <3>2, <4>1
      <4> QED  BY <3>2, <4>1, <4>2, <4>3
    <3> QED  BY <1>1, <2>4, <3>1, <3>2 DEF Asked
  <2>5. Asked'
    BY <1>1, <2>1, <2>2, <2>4 DEF Asked
  <2> QED  BY <2>3, <2>5 DEF CallInv
<1>5. ASSUME NEW c \in Client, NEW r \in Requests, ClientSends(c, r) PROVE CallInv'
  <2>1. /\ pc = 0 /\ pc' = pc /\ stage[c] = "none" /\ May(c, r)
        /\ stage'[c] = "here" /\ mail'[c] = r
        /\ \A d \in Client \ {c} : stage'[d] = stage[d] /\ mail'[d] = mail[d]
        /\ \A d \in Client : \A what : Sent(d, what)' => Sent(d, what) \/ (d = c /\ r[1] = what)
        /\ \A d \in Client : prompt'[d] = prompt[d]
                               \/ (d = c /\ prompt'[d] = "none" /\ r[1] # "READY")
        /\ r[1] # "READY" => prompt'[c] = "none"
        /\ UNCHANGED <<started, called, revealed, exp, lord>>
    BY <1>5, SendFacts DEF phase, cards
  <2>2. Lords' = Lords
    BY <2>1 DEF Lords
  <2>3. r[1] = "CALL_LORD" =>
          Lords = {} /\ exp = c /\ started /\ r[2] = 1 /\ prompt'[c] # "call"
    <3> SUFFICES ASSUME r[1] = "CALL_LORD"
                 PROVE  Lords = {} /\ exp = c /\ started /\ r[2] = 1
      BY <2>1
    <3>1. prompt[c] = "call" /\ r[2] # 0
      BY <2>1 DEF May, Has, Prompt
    <3>2. r[2] \in {0, 1}
      BY DEF Requests
    <3> QED  BY <1>1, <3>1, <3>2 DEF Settled, Asked
  <2>4. ~Sent(c, "CALL_LORD")
    BY <2>1 DEF Sent
  <2>5. \A d \in Client : prompt'[d] = "call" => prompt[d] = "call"
    BY <2>1
  <2>6. AnswersOnce'
    BY <1>1, <2>1, <2>3, <2>4, <2>5 DEF AnswersOnce
  <2>7. Settled'
    BY <1>1, <2>1, <2>2, <2>3, <2>5 DEF Settled
  <2>8. ASSUME Lords = {}, NEW d \in Client, Sent(d, "CALL_LORD")'
        PROVE  \/ exp = d /\ (stage'[d] = "here" => pc' <= d)
               \/ /\ exp = NextPlayer(d) /\ exp # d
                  /\ stage'[d] = "head" /\ pc' <= d
                  /\ Sent(exp, "CALL_LORD")' /\ stage'[exp] = "head" => exp < pc'
    <3>1. CASE d = c
      BY <1>2, <2>1, <2>3, <2>8, <2>4, <3>1
    <3>2. CASE d # c
      <4>1. Sent(d, "CALL_LORD") /\ stage'[d] = stage[d]
        BY <2>1, <2>8, <3>2
      <4>2. CASE exp = d /\ (stage[d] = "here" => pc <= d)
        BY <2>1, <4>1, <4>2
      <4>3. CASE /\ exp = NextPlayer(d) /\ exp # d /\ stage[d] = "head" /\ pc <= d
                 /\ Sent(exp, "CALL_LORD") /\ stage[exp] = "head" => exp < pc
        <5>1. exp \in Client
          BY <4>3, NextPlayerType
        <5>2. Sent(exp, "CALL_LORD")' /\ stage'[exp] = "head" => exp < pc'
          BY <2>1, <4>3, <5>1
        <5> QED  BY <2>1, <4>1, <4>3, <5>2
      <4> QED  BY <1>1, <2>8, <4>1, <4>2, <4>3 DEF Asked
    <3> QED  BY <3>1, <3>2
  <2>9. Asked'
    BY <1>1, <2>1, <2>2, <2>8, <2>5 DEF Asked
  <2> QED  BY <2>6, <2>7, <2>9 DEF CallInv
<1>6. CASE UNCHANGED vars
  <2>1. UNCHANGED <<started, called, revealed, exp, lord, prompt, mail, stage, pc>>
    BY <1>6 DEF vars, phase, cards
  <2>2. Lords' = Lords /\ \A d \in Client : \A what : Sent(d, what)' <=> Sent(d, what)
    BY <2>1 DEF Lords, Sent
  <2>3. \A c \in Client : NextPlayer(c) \in Client
    BY NextPlayerType
  <2> QED  BY <1>1, <2>1, <2>2, <2>3 DEF CallInv, AnswersOnce, Settled, Asked
<1> QED
  BY <1>3, <1>4, <1>5, <1>6, CallMessage, CallTick DEF Next, Loop, ClientStep

\* How often a card is in the deck.
InDeck(dk, x) == Cardinality({k \in DOMAIN dk : dk[k] = x})

LEMMA InDeckIs ==
    ASSUME NEW dk \in Seq(Cards), NEW x
    PROVE  /\ InDeck(dk, x) \in Nat
           /\ x \notin CardsOf(dk) => InDeck(dk, x) = 0
           /\ x \in CardsOf(dk) => InDeck(dk, x) # 0
           /\ \A k \in DOMAIN dk :
                 dk[k] = x /\ (\A j \in DOMAIN dk : dk[j] = x => j = k) => InDeck(dk, x) = 1
<1> DEFINE K == {k \in DOMAIN dk : dk[k] = x}
<1>1. IsFiniteSet(K)
  <2>1. DOMAIN dk = 1..Len(dk) /\ Len(dk) \in Int
    OBVIOUS
  <2>2. IsFiniteSet(DOMAIN dk)
    BY <2>1, FS_Interval
  <2>3. K \in SUBSET DOMAIN dk
    OBVIOUS
  <2> HIDE DEF K
  <2> QED  BY <2>2, <2>3, FS_Subset
<1>2. x \in CardsOf(dk) <=> K # {}
  BY DEF CardsOf
<1>3. ASSUME NEW k \in DOMAIN dk, dk[k] = x, \A j \in DOMAIN dk : dk[j] = x => j = k
      PROVE  Cardinality(K) = 1
  <2>1. K = {k}
    BY <1>3
  <2> HIDE DEF K
  <2> QED  BY <2>1, FS_Singleton
<1> HIDE DEF K
<1>4. Cardinality(K) \in Nat /\ (Cardinality(K) = 0 <=> K = {})
  BY <1>1, FS_CardinalityType, FS_EmptySet
<1> QED  BY <1>2, <1>3, <1>4 DEF InDeck, K

\* Dealt out, each card is at the bottom of the deck or with one player.
LEMMA DealOnce ==
    ASSUME NEW d \in Shuffles, NEW x \in Cards
    PROVE  \/ InDeck(Bottom(d), x) = 1 /\ \A p \in Client : x \notin Dealt(d, p)
           \/ /\ InDeck(Bottom(d), x) = 0
              /\ \E p \in Client : \A q \in Client : x \in Dealt(d, q) <=> q = p
<1>1. PICK m \in Nat, n \in Nat : m = 3 * PerPlayer /\ n = Len(d)
  <2>1. PerPlayer \in Nat
    BY DealAssumption
  <2>2. 3 * PerPlayer \in Nat
    BY <2>1
  <2> QED  BY <2>2, ShuffleProperties
<1>2. d \in Seq(Cards) /\ m <= n /\ (\A j, k \in 1..n : d[j] = d[k] => j = k)
  BY <1>1, ShuffleProperties
<1>3. PICK k \in 1..n : d[k] = x
  BY <1>1, ShuffleProperties
<1>4. /\ Bottom(d) \in Seq(Cards) /\ DOMAIN Bottom(d) = 1..(n - m)
      /\ \A j \in 1..(n - m) : Bottom(d)[j] = d[j] /\ j \in 1..n
  <2>1. Bottom(d) = SubSeq(d, 1, n - m)
    BY <1>1 DEF Bottom
  <2>2. Bottom(d) \in Seq(Cards)
    BY DealTypes
  <2>3. DOMAIN SubSeq(d, 1, n - m) = 1..(n - m)
    BY <1>1, <1>2, SubSeqProperties
  <2>4. \A j \in 1..(n - m) : SubSeq(d, 1, n - m)[j] = d[j] /\ j \in 1..n
    BY <1>1, <1>2, SubSeqProperties
  <2> QED  BY <2>1, <2>2, <2>3, <2>4
<1>5. \A q \in Client : x \in Dealt(d, q) <=> k > n - m /\ (n - k) % 3 = q
  <2> SUFFICES ASSUME NEW q \in Client
               PROVE  x \in Dealt(d, q) <=> k > n - m /\ (n - k) % 3 = q
    OBVIOUS
  <2>1. x \in Dealt(d, q) <=> \E i \in 0..m - 1 : i % 3 = q /\ d[n - i] = x
    BY <1>1 DEF Dealt
  <2>2. \A i \in 0..m - 1 : d[n - i] = x <=> n - i = k
    <3> SUFFICES ASSUME NEW i \in 0..m - 1 PROVE n - i \in 1..n
      BY <1>2, <1>3
    <3> QED  BY <1>2
  <2>3. (\E i \in 0..m - 1 : i % 3 = q /\ n - i = k) => k > n - m /\ (n - k) % 3 = q
    <3> SUFFICES ASSUME NEW i \in 0..m - 1, i % 3 = q, n - i = k
                 PROVE  k > n - m /\ (n - k) % 3 = q
      OBVIOUS
    <3>1. n - k = i
      OBVIOUS
    <3> QED  BY <3>1
  <2>4. k > n - m => n - k \in 0..m - 1 /\ n - (n - k) = k
    OBVIOUS
  <2> QED  BY <2>1, <2>2, <2>3, <2>4
<1>6. CASE k > n - m
  <2>1. x \notin CardsOf(Bottom(d))
    BY <1>2, <1>3, <1>4, <1>6 DEF CardsOf
  <2>2. (n - k) % 3 \in Client
    BY DEF Client
  <2> QED  BY <1>4, <1>5, <1>6, <2>1, <2>2, InDeckIs
<1>7. CASE ~(k > n - m)
  <2>1. k \in DOMAIN Bottom(d) /\ Bottom(d)[k] = x
    BY <1>3, <1>4, <1>7
  <2>2. \A j \in DOMAIN Bottom(d) : Bottom(d)[j] = x => j = k
    BY <1>2, <1>3, <1>4
  <2> QED  BY <1>4, <1>5, <1>7, <2>1, <2>2, InDeckIs
<1> QED  BY <1>6, <1>7

\* The cards of prompt clients: before the deal all are in the deck; then each is
\* in a hand or, until there is a lord, at the bottom of the deck.
Once ==
    /\ ~started => deck \in Shuffles /\ hold = [c \in Client |-> EmptyBag]
    /\ \A x \in Cards : Times(x) = 1
    /\ \E p : Lords \subseteq {p}

LEMMA TimesIs ==
    \A x : Times(x) = Copies(x, hold[0]) + Copies(x, hold[1]) + Copies(x, hold[2])
                        + IF Lords # {} THEN 0 ELSE InDeck(deck, x)
BY DEF Times, InDeck, Lords

LEMMA OnceInit == Init => Once
<1> SUFFICES ASSUME Init PROVE Once
  OBVIOUS
<1>1. Lords = {} /\ deck \in Shuffles /\ hold = [c \in Client |-> EmptyBag]
  BY DEF Init, Lords
<1>2. ASSUME NEW x \in Cards PROVE Times(x) = 1
  <2>1. Copies(x, hold[0]) = 0 /\ Copies(x, hold[1]) = 0 /\ Copies(x, hold[2]) = 0
    BY <1>1, EmptyHand DEF Client
  <2>2. deck \in Seq(Cards) /\ \E k \in 1..Len(deck) : deck[k] = x
    BY <1>1, ShuffleProperties
  <2>3. PICK k \in DOMAIN deck : deck[k] = x
    BY <2>2
  <2>4. \A j \in DOMAIN deck : deck[j] = x => j = k
    BY <1>1, <2>2, <2>3, ShuffleProperties
  <2>5. InDeck(deck, x) = 1
    BY <2>2, <2>3, <2>4, InDeckIs
  <2> QED  BY <1>1, <2>1, <2>5, TimesIs
<1> QED  BY <1>1, <1>2 DEF Once

\* The bottom cards go to the lord, and leave the deck for good.
LEMMA OnceCalled ==
    ASSUME TypeInv, Once, Lords = {}, NEW c \in Client,
           lord' = [lord EXCEPT ![c] = TRUE],
           hold' = [hold EXCEPT ![c] = Insert(@, CardsOf(deck))],
           UNCHANGED <<started, deck>>, started
    PROVE  Once'
<1>1. /\ lord \in [Client -> BOOLEAN] /\ hold \in [Client -> Hand] /\ deck \in Seq(Cards)
      /\ CardsOf(deck) \in SUBSET Cards /\ Client = {0, 1, 2}
  BY CardsOfType, NextPlayerType DEF TypeInv, CardType
<1>2. Lords' = {c}
  BY <1>1 DEF Lords
<1>3. ASSUME NEW x \in Cards PROVE Times(x)' = 1
  <2>1. InDeck(deck, x) \in Nat
        /\ (x \notin CardsOf(deck) => InDeck(deck, x) = 0)
        /\ (x \in CardsOf(deck) => InDeck(deck, x) # 0)
    BY <1>1, InDeckIs
  <2>2. \A p \in Client : Copies(x, hold[p]) \in Nat
    BY <1>1, InsertHand
  <2>3. Copies(x, hold[0]) + Copies(x, hold[1]) + Copies(x, hold[2]) + InDeck(deck, x) = 1
    BY TimesIs DEF Once
  <2>4. InDeck(deck, x) = IF x \in CardsOf(deck) THEN 1 ELSE 0
    BY <1>1, <2>1, <2>2, <2>3
  <2>5. /\ Copies(x, hold'[c]) = Copies(x, hold[c]) + InDeck(deck, x)
        /\ \A p \in Client \ {c} : Copies(x, hold'[p]) = Copies(x, hold[p])
    <3>1. hold'[c] = Insert(hold[c], CardsOf(deck))
      BY <1>1
    <3>2. Copies(x, hold'[c]) = Copies(x, hold[c]) + IF x \in CardsOf(deck) THEN 1 ELSE 0
      BY <1>1, <3>1, InsertHand
    <3>3. \A p \in Client \ {c} : hold'[p] = hold[p]
      BY <1>1
    <3> QED  BY <2>4, <3>2, <3>3
  <2>6. Times(x)' = Copies(x, hold'[0]) + Copies(x, hold'[1]) + Copies(x, hold'[2]) + 0
    BY <1>2 DEF Times, Lords, Copies
  <2> QED  BY <1>1, <2>1, <2>2, <2>3, <2>5, <2>6
<1> QED  BY <1>2, <1>3 DEF Once

\* The deal.
LEMMA OnceDealt ==
    ASSUME TypeInv, Once, ~started, started', Lords = {}, lord' = lord,
           NEW d \in Shuffles, DispatchCards(d)
    PROVE  Once'
<1>1. Lords' = {} /\ deck' = Bottom(d)
      /\ \A c \in Client : hold'[c] = Insert(EmptyBag, Dealt(d, c))
  BY DEF Lords, DispatchCards, Once
<1>2. ASSUME NEW x \in Cards PROVE Times(x)' = 1
  <2>1. \A c \in Client : Copies(x, hold'[c]) = IF x \in Dealt(d, c) THEN 1 ELSE 0
    <3> SUFFICES ASSUME NEW c \in Client
                 PROVE  Copies(x, hold'[c]) = IF x \in Dealt(d, c) THEN 1 ELSE 0
      OBVIOUS
    <3>1. Dealt(d, c) \in SUBSET Cards
      BY DealTypes
    <3>2. Copies(x, Insert(EmptyBag, Dealt(d, c)))
            = Copies(x, EmptyBag) + IF x \in Dealt(d, c) THEN 1 ELSE 0
      BY <3>1, EmptyHand, InsertHand
    <3> QED  BY <1>1, <3>2, EmptyHand
  <2>2. Times(x)' = Copies(x, hold'[0]) + Copies(x, hold'[1]) + Copies(x, hold'[2])
                      + InDeck(Bottom(d), x)
    BY <1>1 DEF Times, Lords, Copies, InDeck
  <2>3. \/ InDeck(Bottom(d), x) = 1 /\ \A p \in Client : x \notin Dealt(d, p)
        \/ /\ InDeck(Bottom(d), x) = 0
           /\ \E p \in Client : \A q \in Client : x \in Dealt(d, q) <=> q = p
    BY DealOnce
  <2>4. Client = {0, 1, 2}
    BY NextPlayerType
  <2> QED  BY <2>1, <2>2, <2>3, <2>4
<1> QED  BY <1>1, <1>2 DEF Once

LEMMA OnceStays ==
    ASSUME Once, UNCHANGED <<cards, started>>
    PROVE  Once'
<1>1. Lords' = Lords /\ \A x : Times(x)' = Times(x)
  BY DEF Lords, Times, Copies, cards
<1> QED  BY <1>1 DEF Once, cards

LEMMA OnceStep ==
    ASSUME TypeInv, Prompt, LordInv, CallInv, Once, [Next]_vars
    PROVE  Once'
<1>1. CASE SlotMessage
  <2>1. pc \in Client /\ Handle(pc, mail[pc]) /\ mail[pc] \in Requests /\ stage[pc] = "head"
    BY <1>1, MessageFacts
  <2>2. UNCHANGED started
    BY <2>1, HandleEffects
  <2>3. CASE UNCHANGED cards
    BY <2>2, <2>3, OnceStays
  <2>4. CASE /\ pc = exp /\ mail[pc] = <<"CALL_LORD", 1>>
             /\ lord' = [lord EXCEPT ![pc] = TRUE]
             /\ hold' = [hold EXCEPT ![pc] = Insert(@, CardsOf(deck))]
             /\ UNCHANGED deck
    <3>1. Sent(pc, "CALL_LORD")
      BY <2>1, <2>4 DEF Sent
    <3>2. Lords = {} /\ started
      BY <2>1, <3>1 DEF CallInv, Settled, AnswersOnce
    <3> QED  BY <2>1, <2>2, <2>4, <3>2, OnceCalled
  <2> QED  BY <2>1, <2>3, <2>4, HandleEffects
<1>2. CASE Tick
  <2>1. ASSUME ~started, started', \E d \in Shuffles : DispatchCards(d) PROVE Once'
    <3>1. Lords = {}
      BY <2>1 DEF LordInv, Phases
    <3>2. lord' = lord
      BY <1>2, TickFacts
    <3> QED  BY <2>1, <3>1, <3>2, OnceDealt
  <2>2. \/ UNCHANGED <<cards, started>>
        \/ ~started /\ started' /\ \E d \in Shuffles : DispatchCards(d)
    BY <1>2, TickFacts DEF phase
  <2> QED  BY <2>1, <2>2, OnceStays
<1>3. CASE SlotSkip \/ SlotHead \/ ClientStep \/ UNCHANGED vars
  <2>1. UNCHANGED <<cards, started>>
    BY <1>3 DEF SlotSkip, SlotHead, ClientStep, ClientSends, vars, phase
  <2> QED  BY <2>1, OnceStays
<1> QED  BY <1>1, <1>2, <1>3 DEF Next, Loop

OnceInv == Prompt => LordInv /\ CallInv /\ Once

LEMMA OnceInvInit == Init => OnceInv
<1> SUFFICES ASSUME Init PROVE LordInv /\ CallInv /\ Once
  BY DEF OnceInv
<1>1. Lords = {} /\ called = FALSE /\ revealed = FALSE
  BY DEF Init, Lords
<1>2. \A c \in Client : stage[c] = "none" /\ prompt[c] = "none"
  BY DEF Init
<1>3. CallInv
  BY <1>1, <1>2 DEF CallInv, AnswersOnce, Settled, Asked, Sent
<1> QED  BY <1>3, LordInit, OnceInit

\* However the calls run out of time, and whoever takes back that it is ready,
\* each card is in one hand or left for the lord, and there is one lord, where
\* clients answer each call once, with yes and promptly: CALL_LORD asks whether
\* the player is the one expected, never whether its call is still open
\* (Landlord.cpp:296).
THEOREM LandlordCardsOnce == Spec => []CardsOnce
<1>1. TypeInv /\ OnceInv /\ [Next]_vars => OnceInv'
  <2> SUFFICES ASSUME TypeInv, OnceInv, [Next]_vars, Prompt
               PROVE  LordInv' /\ CallInv' /\ Once'
    BY HabitsStay DEF OnceInv, Prompt
  <2>1. Prompted /\ LordInv /\ CallInv /\ Once
    BY DEF OnceInv, Prompt, Prompted
  <2> QED
    BY <2>1, PhasesStep, ReadyStep, EarlyStep, CallStep, OnceStep DEF LordInv
<1>2. OnceInv => CardsOnce
  <2> SUFFICES ASSUME Prompt, Once
               PROVE  (\A c \in Cards : Times(c) = 1) /\ Cardinality({p \in Client : lord[p]}) <= 1
    BY DEF OnceInv, CardsOnce, Prompt
  <2>1. PICK p : Lords \subseteq {p}
    BY DEF Once
  <2>2. Lords = {} \/ Lords = {p}
    BY <2>1
  <2>3. Cardinality(Lords) = 0 \/ Cardinality(Lords) = 1
    BY <2>2, FS_EmptySet, FS_Singleton
  <2> QED  BY <2>3 DEF Once, Lords
<1> QED  BY <1>1, <1>2, OnceInvInit, TypeAlways, PTL DEF Spec
----------------------------------------------------------------------------
(* The kinds of hands.                                                     *)

\* Poker.cpp:241-352, whatever the game has come to: a hand is of the kind it is
\* meant to be but for the gaps, in no order of another, and of two hands at most
\* one beats the other unless they are a bomb and a rocket.
THEOREM LandlordHandTypes == Spec => []HandTypes
<1>1. HandTypes
  BY KindsAgreeHolds DEF HandTypes
<1> QED  BY <1>1, PTL
=============================================================================
