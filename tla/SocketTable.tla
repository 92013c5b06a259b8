---------------------------- MODULE SocketTable ----------------------------
(***************************************************************************)
(* The socket table of BlockedServer: the vector m_acceptsock of           *)
(* ClientSock entries, addressed by index ("sockID").  A slot is a record  *)
(* with at least the fields socket and state; every module that keeps a    *)
(* table adds the fields it needs.  Searches are written as sets that hold *)
(* the index the code finds, or nothing, so that facts about them need no  *)
(* induction over the table.                                               *)
(***************************************************************************)
EXTENDS Naturals, Sequences

CLOSED    == "closed"
CONNECTED == "connected"

\* FindSocketID: the first slot that carries s, whatever its state; {} is -1.
FindSocketID(tbl, s) ==
    {i \in DOMAIN tbl : /\ tbl[i].socket = s
                        /\ \A j \in 1..(i - 1) : tbl[j].socket # s}

\* PushClientSock without the search for an empty spot.
FreeSlot_PushBack(tbl) == {Len(tbl) + 1}

\* PushClientSock: the first CLOSED slot, or one past the end (push_back).
FreeSlot(tbl) ==
    {i \in 1..(Len(tbl) + 1) :
        /\ i <= Len(tbl) => tbl[i].state = CLOSED
        /\ \A j \in 1..(i - 1) : tbl[j].state # CLOSED}

\* An empty spot reused without its handlers being reset.
PutSlot_KeepRest(tbl, i, csock) ==
    IF i <= Len(tbl)
    THEN [tbl EXCEPT ![i].socket = csock.socket, ![i].state = csock.state]
    ELSE Append(tbl, csock)

\* `item = csock' and `push_back(csock)': the whole entry is replaced.
PutSlot(tbl, i, csock) ==
    IF i <= Len(tbl) THEN [tbl EXCEPT ![i] = csock] ELSE Append(tbl, csock)

HasClientConnect(tbl) == \E i \in DOMAIN tbl : tbl[i].state = CONNECTED
=============================================================================
