---------------------------- MODULE PlayerStore ----------------------------
(***************************************************************************)
(* The registered players (source/RoomServer.cpp): m_mapSignUpPlayer and   *)
(* the text file it is loaded from at start and appended to at every       *)
(* SIGN_UP, "id name" a line, through crashes, restarts and writes that    *)
(* are cut short.                                                          *)
(*                                                                         *)
(* A text is a sequence of pieces, digits among them, so that two texts    *)
(* written without a space between them become one, and a text that looks  *)
(* like a number is one.  A name is a sequence of texts: operator>> reads  *)
(* one of them.                                                            *)
(***************************************************************************)
EXTENDS Integers, Sequences, FiniteSets, StdMap

CONSTANTS Letters,    \* pieces of names that are no digits
          Names,      \* names users ask for
          Garbage,    \* what an uninitialised int may hold
          MaxCrashes, \* bound: crashes
          Profiles    \* what users and machine may do: sets of habits

\* "words": a name is not exactly one word; "cut": the disk is full, and part
\* of a line is written; "noopen": the file cannot be opened for writing;
\* "crash_open": a crash between opening the file and writing to it.
Habits == {"words", "cut", "noopen", "crash_open"}

ASSUME BoundsAssumption == MaxCrashes \in Nat /\ Garbage \subseteq Nat
ASSUME ProfilesAssumption == Profiles \subseteq SUBSET Habits

Digit == <<"0", "1", "2", "3", "4", "5", "6", "7", "8", "9">>
Texts == Seq(Letters \union {Digit[d] : d \in 1..10})

ASSUME NamesAssumption == Names \subseteq Seq(Texts \ {<< >>})

VARIABLES
    users,   \* m_mapSignUpPlayer: id to name
    file,    \* PlayerDB: whether it exists, its texts, whether white space ends it
    pc,      \* "load", "serve", "write" (the file is open), "answer"
    fin,     \* InitPlayerData: next text, id, name, eofbit, failbit
    req,     \* the SIGN_UP under way
    told,    \* ghost: the id of each name answered SUCCESS or ALREADY_SIGN_UP
    asked,   \* ghost: the names ever asked for
    crashes, \* how often it crashed
    habits   \* the profile of this run

vars == <<users, file, pc, fin, req, told, asked, crashes, habits>>

Has(h) == h \in habits
----------------------------------------------------------------------------
(* Texts and numbers. *)

\* operator<< of a number.
Text[n \in Nat] == IF n < 10 THEN <<Digit[n + 1]>>
                   ELSE Text[n \div 10] \o <<Digit[(n % 10) + 1]>>
IsNumber(t) == \A i \in 1..Len(t) : \E d \in 1..10 : Digit[d] = t[i]
DigitOf(c) == CHOOSE d \in 0..9 : Digit[d + 1] = c
Value(t) == LET upto[k \in 0..Len(t)] == IF k = 0 THEN 0 ELSE 10 * upto[k - 1] + DigitOf(t[k])
            IN upto[Len(t)]

\* The file after writing texts ts, the first right behind what is there when
\* no white space ends it.
Write(f, ts, ended) ==
    [exists |-> TRUE, ended |-> ended,
     texts |-> IF f.ended \/ f.texts = << >> THEN f.texts \o ts
               ELSE LET k == Len(f.texts) IN
                    SubSeq(f.texts, 1, k - 1) \o <<f.texts[k] \o ts[1]>> \o Tail(ts)]
----------------------------------------------------------------------------
NoReq  == [id |-> 0, name |-> << >>]
Closed == [pos |-> 1, id |-> 0, name |-> << >>, eof |-> FALSE, fail |-> FALSE]
\* id is not initialised.
Opened == {[Closed EXCEPT !.id = g] : g \in Garbage}

Init ==
    /\ users = EmptyMap
    /\ file = [exists |-> FALSE, texts |-> << >>, ended |-> TRUE]
    /\ pc = "load" /\ fin \in Opened /\ req = NoReq
    /\ told = EmptyMap /\ asked = {} /\ crashes = 0
    /\ habits \in Profiles
----------------------------------------------------------------------------
(* InitPlayerData, run by the constructor.                                 *)

\* Nothing is left but white space.
AtEnd(r) == r.pos > Len(file.texts)

\* Two texts at a time.
Past_Two(r) == [r EXCEPT !.pos = r.pos + 2, !.eof = r.pos = Len(file.texts) /\ ~file.ended]

\* A text read up to the end of the file sets eofbit, unless white space ends it.
Past(r) == [r EXCEPT !.pos = r.pos + 1, !.eof = r.pos = Len(file.texts) /\ ~file.ended]

\* fin >> id: on a text that is no number, failbit and 0.
ReadId(r) ==
    IF r.eof \/ r.fail THEN [r EXCEPT !.fail = TRUE]
    ELSE IF AtEnd(r) THEN [r EXCEPT !.eof = TRUE, !.fail = TRUE]
    ELSE LET t == file.texts[r.pos] IN
         IF IsNumber(t) THEN [Past(r) EXCEPT !.id = Value(t)]
         ELSE [r EXCEPT !.fail = TRUE, !.id = 0]

ReadName(r) ==
    IF r.eof \/ r.fail THEN [r EXCEPT !.fail = TRUE]
    ELSE IF AtEnd(r) THEN [r EXCEPT !.eof = TRUE, !.fail = TRUE]
    ELSE [Past(r) EXCEPT !.name = <<file.texts[r.pos]>>]

LoadNone ==
    /\ pc = "load" /\ ~file.exists
    /\ pc' = "serve" /\ fin' = Closed
    /\ UNCHANGED <<users, file, req, told, asked, crashes, habits>>

\* Enters what was read before it reads on.
LoadLine_EnterFirst ==
    /\ pc = "load" /\ file.exists /\ ~fin.eof
    /\ fin' = ReadName(ReadId(fin))
    /\ users' = Put(users, fin.id, fin.name)
    /\ UNCHANGED <<file, pc, req, told, asked, crashes, habits>>

\* One turn of `while (!fin.eof())'.  What was read is not tested: at the end of
\* the file the last user is entered again.
LoadLine ==
    /\ pc = "load" /\ file.exists /\ ~fin.eof
    /\ fin' = ReadName(ReadId(fin))
    /\ users' = Put(users, fin'.id, fin'.name)
    /\ UNCHANGED <<file, pc, req, told, asked, crashes, habits>>

LoadEnd ==
    /\ pc = "load" /\ file.exists /\ fin.eof
    /\ pc' = "serve" /\ fin' = Closed
    /\ UNCHANGED <<users, file, req, told, asked, crashes, habits>>
----------------------------------------------------------------------------
(* SIGN_UP.                                                                *)

IsUserSignedUp(n) == \E id \in DOMAIN users : users[id] = n

\* The first in the order of the map.
FindSignedUpUID(n) == {id \in DOMAIN users : /\ users[id] = n
                                              /\ \A k \in DOMAIN users : users[k] = n => id <= k}

\* The number of users and one.
GenerateValidID_Count == Cardinality(DOMAIN users) + 1

\* One more than the largest, and than 0.
GenerateValidID == CHOOSE n \in {id + 1 : id \in DOMAIN users \union {0}} :
                      \A id \in DOMAIN users : id < n

AlreadySignedUp(n) ==
    /\ pc = "serve" /\ IsUserSignedUp(n)
    /\ \E id \in FindSignedUpUID(n) : told' = Put(told, n, id)
    /\ asked' = asked \union {n}
    /\ UNCHANGED <<users, file, pc, fin, req, crashes, habits>>

\* Record_SignUp enters the user before it opens the file.
SignUp(n) ==
    /\ pc = "serve" /\ ~IsUserSignedUp(n)
    /\ users' = Put(users, GenerateValidID, n)
    /\ asked' = asked \union {n}
    /\ \/ /\ pc' = "write" /\ req' = [id |-> GenerateValidID, name |-> n]
          /\ file' = [file EXCEPT !.exists = TRUE]
       \/ Has("noopen") /\ UNCHANGED <<pc, req, file>>
    /\ UNCHANGED <<fin, told, crashes, habits>>

\* The line, without the newline.
WriteLine_NoEndl ==
    /\ pc = "write"
    /\ file' = Write(file, <<Text[req.id]>> \o req.name, FALSE)
    /\ pc' = "answer"
    /\ UNCHANGED <<users, fin, req, told, asked, crashes, habits>>

WriteLine ==
    /\ pc = "write"
    /\ file' = Write(file, <<Text[req.id]>> \o req.name, TRUE)
    /\ pc' = "answer"
    /\ UNCHANGED <<users, fin, req, told, asked, crashes, habits>>

\* Of a line cut short nothing is there, or the number with or without the space
\* behind it, or the first piece or all of the name without the newline.  The
\* stream is not tested.
WriteCut ==
    /\ pc = "write" /\ Has("cut") /\ req.name # << >>
    /\ file' \in {file, Write(file, <<Text[req.id]>>, FALSE), Write(file, <<Text[req.id]>>, TRUE),
                  Write(file, <<Text[req.id], <<req.name[1][1]>>>>, FALSE),
                  Write(file, <<Text[req.id]>> \o req.name, FALSE)}
    /\ pc' = "answer"
    /\ UNCHANGED <<users, fin, req, told, asked, crashes, habits>>

Answer ==
    /\ pc = "answer"
    /\ told' = Put(told, req.name, req.id)
    /\ pc' = "serve" /\ req' = NoReq
    /\ UNCHANGED <<users, file, fin, asked, crashes, habits>>

\* The process ends, and is started again.
Crash ==
    /\ crashes < MaxCrashes
    /\ pc = "write" => Has("crash_open")
    /\ users' = EmptyMap
    /\ pc' = "load" /\ fin' \in Opened /\ req' = NoReq
    /\ crashes' = crashes + 1
    /\ UNCHANGED <<file, told, asked, habits>>

Server == LoadNone \/ LoadLine \/ LoadEnd \/ WriteLine \/ WriteCut \/ Answer
MayAsk(n) == Len(n) # 1 => Has("words")
Next == Server \/ Crash \/ \E n \in Names : MayAsk(n) /\ (SignUp(n) \/ AlreadySignedUp(n))

Spec     == Init /\ [][Next]_vars
FairSpec == Spec /\ WF_vars(Server)
----------------------------------------------------------------------------
TypeOK ==
    /\ DOMAIN users \subseteq Nat
    /\ \A id \in DOMAIN users : users[id] \in Seq(Texts)
    /\ file.exists \in BOOLEAN /\ file.ended \in BOOLEAN /\ file.texts \in Seq(Texts)
    /\ pc \in {"load", "serve", "write", "answer"}
    /\ fin.pos \in 1..Len(file.texts) + 1 /\ fin.id \in Nat
    /\ DOMAIN told \subseteq Names /\ asked \subseteq Names
    /\ crashes \in 0..MaxCrashes

\* Who was told to be signed up (RoomServer.cpp:380, 374) is so, under the same
\* number, whenever the server serves, restarts included.  Not so when a line is
\* cut, a name is no single word, or the file could not be opened: then the user
\* is told SIGN_UP_FAILED, and ALREADY_SIGN_UP when trying again.
ToldStays ==
    pc = "serve" /\ habits \intersect {"words", "cut", "noopen"} = {} =>
        \A n \in DOMAIN told : FindSignedUpUID(n) = {told[n]}

\* Two users told to be signed up never have the same number, not even one
\* before and one after a restart.
NumbersApart ==
    habits \intersect {"words", "cut", "noopen"} = {} =>
        \A n, m \in DOMAIN told : told[n] = told[m] => n = m

\* Loading invents nobody: every user has a name somebody asked for.  An empty
\* file, left by a crash, makes one of an uninitialised number.
NoneInvented ==
    habits \intersect {"words", "cut", "crash_open"} = {} =>
        \A id \in DOMAIN users : users[id] \in asked

\* A start of the server comes to an end.  A name of two words, or a line glued
\* to one cut short, leaves failbit without eofbit for ever.
LoadEnds == pc = "load" /\ habits \intersect {"words", "cut"} = {} ~> pc = "serve"
=============================================================================
