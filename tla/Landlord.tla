------------------------------ MODULE Landlord ------------------------------
(***************************************************************************)
(* A game process of Landlord (source/Landlord.cpp) in the loop of         *)
(* include/Game.h, with three clients.  Each turn of the loop looks at the *)
(* three slots in order and then calls Tick.  IsPermittedDiscard is an     *)
(* assert(false), so no card is ever put down and no game ends: what       *)
(* follows a permitted discard, and GAME_OVER, is never reached.           *)
(***************************************************************************)
EXTENDS Poker, Bags

CONSTANTS Cards,      \* 54 in the code
          PerPlayer,  \* cards dealt to each player; 17 in the code
          Shuffles,   \* orders the deck may be in after a shuffle
          Tries,      \* cards that clients of this instance try to discard
          CALL,       \* m_secCallLoardInterval; 10 in the code
          OUT,        \* m_secOutCardInterval; 20 in the code
          Profiles    \* what clients, network and build may do: sets of habits

\* "refuse": refuses to be the lord;
\* "again": answers the reminders of a call as well, each second;
\* "early": discards or passes without being told to;
\* "late": messages take any time;
\* "unready": takes back that it is ready;
\* "ndebug": built without assertions.
Habits == {"refuse", "again", "early", "late", "unready", "ndebug"}

Client == 0..2
TICK == 3
None == -1

ASSUME DealAssumption ==
    /\ IsFiniteSet(Cards) /\ PerPlayer \in Nat \ {0} /\ 3 * PerPlayer <= Cardinality(Cards)
    /\ \A d \in Shuffles : /\ d \in [1..Cardinality(Cards) -> Cards]
                           /\ \A c \in Cards : \E k \in DOMAIN d : d[k] = c
    /\ Shuffles # {} /\ Tries \subseteq Cards
ASSUME IntervalAssumption == CALL \in Nat \ {0} /\ OUT \in Nat \ {0}
ASSUME ProfilesAssumption == Profiles \subseteq SUBSET Habits

VARIABLES
    ready, started, dealt, called, revealed, \* m_client[].ready, m_bGameStart .. m_bRevealCardsFinish
    exp,                \* m_expClient
    deck, hold, lord,   \* m_deck, m_client[].hold and .bLord
    due,                \* seconds until m_expTp
    secCall, secOut,    \* m_secLeftCallLord, m_secLeftOutCard
    fate,               \* "runs", "aborted" or "undefined"
    pc,                 \* where the loop is: a slot or TICK
    mail, stage,        \* each client's message under way: "none", "here", "head"
    prompt,             \* what each client was last told to do: "none", "call", "play"
    habits              \* the profile of this run

phase == <<ready, started, dealt, called, revealed>>
cards == <<deck, hold, lord>>
clock == <<due, secCall, secOut>>
vars  == <<phase, exp, cards, clock, fate, pc, mail, stage, prompt, habits>>

Has(h) == h \in habits

\* After the last player there is no first.
NextPlayer_NoWrap(c) == c + 1

NextPlayer(c) == (c + 1) % 3

IsAllReady == \A c \in Client : ready[c]

\* Cards are discarded one at a time here, or none: a pass.
PASS == << >>
Requests == {<<"READY", b>> : b \in {0, 1}} \union {<<"CALL_LORD", b>> : b \in {0, 1}}
            \union {<<"DISCARD", h>> : h \in {PASS} \union {<<c>> : c \in Tries}}
NoMail == << >>
----------------------------------------------------------------------------
(* Hands and deck.                                                         *)

Insert(h, S) == h (+) SetToBag(S)

\* Holds::Contains: no more cards than are held, each of them held.
Contains(h, other) ==
    /\ Len(other) <= BagCardinality(h)
    /\ \A k \in DOMAIN other : BagIn(other[k], h)

\* The cards from back to front in turn to the players; the rest stays.
Dealt(d, p) == {d[Len(d) - k] : k \in {i \in 0..3 * PerPlayer - 1 : i % 3 = p}}
Bottom(d) == SubSeq(d, 1, Len(d) - 3 * PerPlayer)
CardsOf(d) == {d[k] : k \in DOMAIN d}
----------------------------------------------------------------------------
Init ==
    /\ ready = [c \in Client |-> FALSE]
    /\ started = FALSE /\ dealt = FALSE /\ called = FALSE /\ revealed = FALSE
    /\ exp = None
    /\ deck \in Shuffles
    /\ hold = [c \in Client |-> EmptyBag] /\ lord = [c \in Client |-> FALSE]
    /\ due = 0 /\ secCall = 0 /\ secOut = 0
    /\ fate = "runs" /\ pc = 0
    /\ mail = [c \in Client |-> NoMail] /\ stage = [c \in Client |-> "none"]
    /\ prompt = [c \in Client |-> "none"]
    /\ habits \in Profiles
----------------------------------------------------------------------------
(* The clock.                                                              *)

NotifyYouCall(c) ==
    /\ due' = CALL /\ secCall' = CALL
    /\ prompt' = [prompt EXCEPT ![c] = "call"]
    /\ UNCHANGED secOut

\* NotifyYouTurn and NotifyYouDiscard.
NotifyYouTurn(c) ==
    /\ due' = OUT /\ secOut' = OUT
    /\ prompt' = [prompt EXCEPT ![c] = "play"]
    /\ UNCHANGED secCall

Later(e) == IF due >= e THEN due - e ELSE 0
----------------------------------------------------------------------------
(* The requests.                                                           *)

Nothing == UNCHANGED <<phase, exp, cards, clock, fate, prompt>>

READY(c, b) ==
    /\ ready' = [ready EXCEPT ![c] = b = 1]
    /\ UNCHANGED <<started, dealt, called, revealed, exp, cards, clock, fate, prompt>>

\* Whoever calls becomes the lord, whose turn it is or not.
CALL_LORD_Anyone(c, b) ==
    IF b = 1
    THEN /\ exp' = c
         /\ hold' = [hold EXCEPT ![c] = Insert(@, CardsOf(deck))]
         /\ lord' = [lord EXCEPT ![c] = TRUE]
         /\ UNCHANGED <<phase, deck, clock, fate, prompt>>
    ELSE /\ NotifyYouCall(NextPlayer(c))
         /\ UNCHANGED <<phase, exp, cards, fate>>

\* In any phase; the bottom cards stay in the deck.  Refused, the next player
\* is asked, but it is still not its turn.
CALL_LORD(c, b) ==
    IF c # exp THEN Nothing
    ELSE IF b = 1
    THEN /\ exp' = c
         /\ hold' = [hold EXCEPT ![c] = Insert(@, CardsOf(deck))]
         /\ lord' = [lord EXCEPT ![c] = TRUE]
         /\ UNCHANGED <<phase, deck, clock, fate, prompt>>
    ELSE /\ NotifyYouCall(NextPlayer(c))
         /\ UNCHANGED <<phase, exp, cards, fate>>

Pass ==
    /\ exp' = NextPlayer(exp)
    /\ NotifyYouTurn(NextPlayer(exp))
    /\ UNCHANGED <<phase, cards, fate>>

\* DISCARD_REJECT; the client may try again.
Reject(c) ==
    /\ prompt' = [prompt EXCEPT ![c] = "play"]
    /\ UNCHANGED <<phase, exp, cards, clock, fate>>

\* m_client[-1] before the cards are dealt; in any phase after.
DISCARD(c, h) ==
    IF exp = None THEN /\ fate' = "undefined"
                       /\ UNCHANGED <<phase, exp, cards, clock, prompt>>
    ELSE IF c # exp THEN Nothing
    ELSE IF h = PASS THEN Pass
    ELSE IF Contains(hold[exp], h) /\ ~Has("ndebug")
    THEN fate' = "aborted" /\ UNCHANGED <<phase, exp, cards, clock, prompt>>
    ELSE Reject(c)

Handle(c, r) ==
    \/ r[1] = "READY" /\ READY(c, r[2])
    \/ r[1] = "CALL_LORD" /\ CALL_LORD(c, r[2])
    \/ r[1] = "DISCARD" /\ DISCARD(c, r[2])
----------------------------------------------------------------------------
(* Tick_Base: the slots, one recv each.                                    *)

AtSlot == pc \in Client /\ fate = "runs"

SlotSkip ==
    /\ AtSlot
    /\ stage[pc] = "none" \/ (stage[pc] = "here" /\ Has("late"))
    /\ pc' = pc + 1
    /\ UNCHANGED <<phase, exp, cards, clock, fate, mail, stage, prompt, habits>>

SlotHead ==
    /\ AtSlot /\ stage[pc] = "here"
    /\ stage' = [stage EXCEPT ![pc] = "head"]
    /\ pc' = pc + 1
    /\ UNCHANGED <<phase, exp, cards, clock, fate, mail, prompt, habits>>

SlotMessage ==
    /\ AtSlot /\ stage[pc] = "head"
    /\ Handle(pc, mail[pc])
    /\ mail' = [mail EXCEPT ![pc] = NoMail]
    /\ stage' = [stage EXCEPT ![pc] = "none"]
    /\ pc' = pc + 1
    /\ UNCHANGED habits
----------------------------------------------------------------------------
(* Tick.                                                                   *)

AtTick == pc = TICK /\ fate = "runs"
TickEnds == pc' = 0 /\ UNCHANGED <<fate, mail, stage, habits>>

TickWaits(e) ==
    /\ AtTick /\ ~IsAllReady
    /\ due' = Later(e)
    /\ UNCHANGED <<phase, exp, cards, secCall, secOut, prompt>>
    /\ TickEnds

DispatchCards(d) ==
    /\ hold' = [c \in Client |-> Insert(hold[c], Dealt(d, c))]
    /\ deck' = Bottom(d)

\* Init_Landlord, GAME_START, the deal, and player 0 is asked first.
TickStarts ==
    /\ AtTick /\ IsAllReady /\ ~started
    /\ \E d \in Shuffles : DispatchCards(d)
    /\ started' = TRUE /\ dealt' = TRUE /\ called' = FALSE /\ revealed' = FALSE
    /\ exp' = 0
    /\ NotifyYouCall(0)
    /\ UNCHANGED <<ready, lord>>
    /\ TickEnds

\* The player after the lord starts.
TickCalled_Next ==
    /\ AtTick /\ IsAllReady /\ started /\ ~called /\ lord[exp]
    /\ called' = TRUE /\ exp' = NextPlayer(exp)
    /\ UNCHANGED <<ready, started, dealt, revealed, cards, clock, prompt>>
    /\ TickEnds

\* CallLord: the one asked has called.
TickCalled ==
    /\ AtTick /\ IsAllReady /\ started /\ ~called /\ lord[exp]
    /\ called' = TRUE
    /\ UNCHANGED <<ready, started, dealt, revealed, exp, cards, clock, prompt>>
    /\ TickEnds

\* Out of time the same player is asked again.
CallTimeout_Same ==
    /\ exp' = exp
    /\ due' = CALL /\ secCall' = CALL
    /\ prompt' = [prompt EXCEPT ![exp] = "call"]

CallTimeout ==
    /\ exp' = NextPlayer(exp)
    /\ due' = CALL /\ secCall' = CALL
    /\ prompt' = [prompt EXCEPT ![exp] = "none", ![NextPlayer(exp)] = "call"]

\* CallLord: a second less is announced to the one asked; at zero the next is.
TickCalls(e) ==
    /\ AtTick /\ IsAllReady /\ started /\ ~called /\ ~lord[exp]
    /\ LET left == Later(e)
       IN IF secCall > left /\ left = 0 THEN CallTimeout
          ELSE /\ due' = left
               /\ secCall' = IF secCall > left THEN left ELSE secCall
               /\ prompt' = IF secCall > left /\ Has("again")
                            THEN [prompt EXCEPT ![exp] = "call"] ELSE prompt
               /\ UNCHANGED exp
    /\ UNCHANGED <<phase, cards, secOut>>
    /\ TickEnds

\* RevealLordCards: REVEAL_LORD_CARDS ends the calls, and the one whose turn it
\* is discards.  No time passes before the clock is looked at.
TickReveals ==
    /\ AtTick /\ IsAllReady /\ called /\ ~revealed
    /\ revealed' = TRUE
    /\ due' = OUT /\ secOut' = OUT
    /\ prompt' = [c \in Client |-> IF c = exp THEN "play" ELSE "none"]
    /\ UNCHANGED <<ready, started, dealt, called, exp, cards, secCall>>
    /\ TickEnds

TurnTimeout ==
    /\ exp' = NextPlayer(exp)
    /\ due' = OUT /\ secOut' = OUT
    /\ prompt' = [prompt EXCEPT ![exp] = "none", ![NextPlayer(exp)] = "play"]

\* CheckWhoWins finds no empty hand.
TickClock(e) ==
    /\ AtTick /\ IsAllReady /\ revealed
    /\ LET left == Later(e)
       IN IF secOut > left /\ left = 0 THEN TurnTimeout
          ELSE /\ due' = left
               /\ secOut' = IF secOut > left THEN left ELSE secOut
               /\ UNCHANGED <<exp, prompt>>
    /\ UNCHANGED <<phase, cards, secCall>>
    /\ TickEnds

\* A turn of the loop takes less than two seconds.
TickIn(e) == TickWaits(e) \/ TickCalls(e) \/ TickClock(e)
Tick == TickStarts \/ TickCalled \/ TickReveals \/ \E e \in {0, 1} : TickIn(e)
----------------------------------------------------------------------------
(* Clients.                                                                *)

May(c, r) ==
    /\ r[1] = "READY" => IF r[2] = 1 THEN ~ready[c] ELSE Has("unready")
    /\ r[1] = "CALL_LORD" => prompt[c] = "call" /\ (r[2] = 0 => Has("refuse"))
    /\ r[1] = "DISCARD" => prompt[c] = "play" \/ Has("early")

ClientSends(c, r) ==
    /\ pc = 0 /\ fate = "runs" /\ stage[c] = "none" /\ May(c, r)
    /\ mail' = [mail EXCEPT ![c] = r]
    /\ stage' = [stage EXCEPT ![c] = "here"]
    /\ prompt' = IF r[1] = "READY" THEN prompt ELSE [prompt EXCEPT ![c] = "none"]
    /\ UNCHANGED <<phase, exp, cards, clock, fate, pc, habits>>

Loop == SlotSkip \/ SlotHead \/ SlotMessage \/ Tick
ClientStep == \E c \in Client : \E r \in Requests : ClientSends(c, r)
Next == Loop \/ ClientStep

\* The loop runs and time passes.
Fairness == WF_vars(Loop) /\ SF_vars(TickIn(1))

Spec     == Init /\ [][Next]_vars
FairSpec == Spec /\ Fairness
----------------------------------------------------------------------------
TypeOK ==
    /\ ready \in [Client -> BOOLEAN] /\ lord \in [Client -> BOOLEAN]
    /\ {started, dealt, called, revealed} \subseteq BOOLEAN
    /\ exp \in Client \union {None}
    /\ CardsOf(deck) \subseteq Cards
    /\ \A c \in Client : IsABag(hold[c]) /\ BagToSet(hold[c]) \subseteq Cards
    /\ due \in 0..CALL + OUT /\ secCall \in 0..CALL /\ secOut \in 0..OUT
    /\ fate \in {"runs", "aborted", "undefined"} /\ pc \in Client \union {TICK}
    /\ mail \in [Client -> Requests \union {NoMail}]
    /\ stage \in [Client -> {"none", "here", "head"}]
    /\ prompt \in [Client -> {"none", "call", "play"}]
    /\ habits \subseteq Habits

Copies(c, h) == IF BagIn(c, h) THEN h[c] ELSE 0
Times(c) ==
    Copies(c, hold[0]) + Copies(c, hold[1]) + Copies(c, hold[2])
    + IF \E p \in Client : lord[p] THEN 0 ELSE Cardinality({k \in DOMAIN deck : deck[k] = c})

\* Every card is in one place, whoever calls, refuses or runs out of time, and
\* there is one lord, if clients answer each call once and promptly.  A call
\* that comes late or twice is accepted in any phase (Landlord.cpp:296).
CardsOnce ==
    habits \intersect {"refuse", "again", "late", "early"} = {} =>
        /\ \A c \in Cards : Times(c) = 1
        /\ Cardinality({p \in Client : lord[p]}) <= 1

\* Landlord.h:20 "start from lord": the first to discard is a lord, even if it
\* passes at once: Tick reveals the cards one turn after the call, before a
\* second message, header and body, can be read.
LordStarts == [][TickReveals => lord[exp]]_vars

\* Nobody keeps the others waiting: a call or a turn goes on to the next player,
\* by the clock at the latest (Landlord.cpp:174, :72).  Not where a player can
\* halt the game, or refuses whenever it is reminded, which sets the clock back
\* but does not move the turn on (Landlord.cpp:313).
TurnMoves == \A c \in Client :
    exp = c /\ ~Has("unready") /\ ~{"refuse", "again"} \subseteq habits
        ~> exp # c \/ fate # "runs"

\* Hands are what they look like (Poker.cpp:241-352), see Poker.
HandTypes == fate # "undefined" => KindsAgree
=============================================================================
