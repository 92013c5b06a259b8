--------------------------- MODULE BlockedServer ---------------------------
(***************************************************************************)
(* BlockedServer (include/Utility.h, source/Utility.cpp): the single       *)
(* threaded TCP server under RPCHandler and RoomServer, driven by the loop *)
(* of Server.cpp, `while (true) { Accept(); Tick(); }'.                    *)
(*                                                                         *)
(* Every recv() is a step of its own, so that bytes may arrive between two *)
(* of them.  The kernel (descriptors, receive queues) and the clients are  *)
(* the environment.  Connections are ghosts: the code knows descriptors    *)
(* only, and a descriptor is used again once it is closed.                 *)
(***************************************************************************)
EXTENDS Integers, Sequences, FiniteSets, SocketTable

CONSTANTS Conns,      \* connections clients may make, each at most once
          NoConn,     \* no connection
          Fds,        \* descriptors the kernel may hand to accept()
          Msgs,       \* message bodies: non-empty sequences of bytes
          MTU,        \* m_MTU: the most bytes asked of one recv()
          MaxMsgs,    \* bound: messages a client sends
          MaxBacklog, \* the argument of Listen()
          Profiles,   \* what a client and its network may do: sets of habits
          Faults      \* which of the faults below happen

Byte == 0..255
HEAD == 4             \* sizeof(int), the length of a frame's header

\* "pipeline": sends a message before the earlier ones have been handled;
\* "long": sends bodies longer than MTU; "split_head", "split_body": TCP may
\* hand over a header, a body, in several pieces.
Habits     == {"pipeline", "long", "split_head", "split_body"}
FaultKinds == {"eof", "reset", "sendfail", "appclose"}

ASSUME NoConnAssumption == NoConn \notin Conns
ASSUME FdsAssumption    == Fds \subseteq Nat
ASSUME MTUAssumption    == MTU \in Nat /\ MTU >= HEAD
ASSUME MsgsAssumption   == \A m \in Msgs : /\ m \in Seq(Byte)
                                           /\ m # << >>
ASSUME MaxMsgsAssumption == MaxMsgs \in Nat /\ MaxBacklog \in Nat
ASSUME HabitsAssumption == /\ Profiles \subseteq SUBSET Habits
                           /\ Faults \subseteq FaultKinds

VARIABLES
    slots,    \* m_acceptsock
    pc, cur,  \* where the loop is, and the slot Tick looks at
    rx,       \* ReceiveData's len and sumGet
    peer,     \* kernel: the connection last accepted under a descriptor
    open,     \* kernel: descriptors this process has open
    backlog,  \* kernel: connections waiting for accept()
    habit,    \* habit[c]: the profile of c's client
    link,     \* link[c]: the client's end of c
    wire,     \* wire[c]: what c's client sent and has not arrived
    rbuf,     \* rbuf[c]: bytes that arrived and were not read
    sent,     \* ghost: messages c's client has sent
    got,      \* ghost: messages c's handler was given
    closed,   \* ghost: how often the disconnect callback ran for c
    failed    \* ghost: connections on which a send() failed

loopvars == <<pc, cur, rx>>
kernel   == <<peer, open, backlog>>
netvars  == <<habit, link, wire, rbuf, sent>>
ghosts   == <<got, closed, failed>>
vars     == <<slots, loopvars, kernel, netvars, ghosts>>
----------------------------------------------------------------------------
(* Frames: SockProto::Int32ToByte and ByteToInt32 on the header.           *)

Min2(a, b) == IF a <= b THEN a ELSE b

Int32ToByte(n) == <<(n \div (256 * 256 * 256)) % 256, (n \div (256 * 256)) % 256,
                    (n \div 256) % 256, n % 256>>

\* 0 for a string that is not exactly four bytes long; a set top bit makes the
\* number negative.
ByteToInt32(d) ==
    IF Len(d) # 4 THEN 0
    ELSE (IF d[1] >= 128 THEN d[1] - 256 ELSE d[1]) * 256 * 256 * 256
         + d[2] * 256 * 256 + d[3] * 256 + d[4]

\* SendParams: the header is one send(), the body another.
Frame(m) == <<[head |-> TRUE, bytes |-> Int32ToByte(Len(m))],
              [head |-> FALSE, bytes |-> m]>>
----------------------------------------------------------------------------
(* The table. *)

SlotType == [socket : Fds, state : {CLOSED, CONNECTED}, explen : Int,
             datacache : Seq(Byte), callback : Conns \union {NoConn}]

NewSock(fd) == [socket |-> fd, state |-> CONNECTED, explen |-> 0,
                datacache |-> << >>, callback |-> NoConn]

\* ClientSock::Init: socket and callbacks stay.
InitSock(s) == [s EXCEPT !.state = CLOSED, !.datacache = << >>, !.explen = 0]

ConnOf(i) == peer[slots[i].socket]

\* A close that forgets the descriptor.
CloseClient_KeepFd(i) ==
    /\ slots' = [slots EXCEPT ![i] = InitSock(@)]
    /\ open' = open
    /\ closed' = [closed EXCEPT ![ConnOf(i)] = @ + 1]

\* A close that forgets the slot's state.
CloseClient_KeepState(i) ==
    /\ slots' = [slots EXCEPT ![i].datacache = << >>, ![i].explen = 0]
    /\ open' = open \ {slots[i].socket}
    /\ closed' = [closed EXCEPT ![ConnOf(i)] = @ + 1]

\* CloseClient: close(fd), the disconnect callback, Init().
CloseClient(i) ==
    /\ slots' = [slots EXCEPT ![i] = InitSock(@)]
    /\ open' = open \ {slots[i].socket}
    /\ closed' = [closed EXCEPT ![ConnOf(i)] = @ + 1]
----------------------------------------------------------------------------
Init ==
    /\ slots = << >>
    /\ pc = "accept" /\ cur = 1 /\ rx = [len |-> 0, sum |-> 0]
    /\ peer = [fd \in Fds |-> NoConn] /\ open = {} /\ backlog = << >>
    /\ habit \in [Conns -> Profiles]
    /\ link = [c \in Conns |-> "none"]
    /\ wire = [c \in Conns |-> << >>]
    /\ rbuf = [c \in Conns |-> << >>]
    /\ sent = [c \in Conns |-> << >>]
    /\ got = [c \in Conns |-> << >>]
    /\ closed = [c \in Conns |-> 0]
    /\ failed = {}
----------------------------------------------------------------------------
(* The loop: Accept(), then Tick().                                        *)

Unused(fd) == fd \in Fds \ open

Idle == [len |-> 0, sum |-> 0]

\* Tick returns at once when no client is connected.
BeginTick(tbl) == /\ pc' = IF HasClientConnect(tbl) THEN "scan" ELSE "accept"
                  /\ UNCHANGED <<cur, rx>>

\* Without the test for SOCKET_ERROR.
AcceptNone_Unchecked ==
    /\ pc = "accept"
    /\ backlog = << >> \/ open = Fds
    /\ \E i \in FreeSlot(slots) : slots' = PutSlot(slots, i, NewSock(-1))
    /\ BeginTick(slots')
    /\ UNCHANGED <<kernel, netvars, ghosts>>

\* accept() takes the lowest unused descriptor; none left, or nothing waiting,
\* and it fails, and the loop goes on to Tick().
AcceptNone ==
    /\ pc = "accept"
    /\ backlog = << >> \/ open = Fds
    /\ BeginTick(slots)
    /\ UNCHANGED <<slots, kernel, netvars, ghosts>>

Accept ==
    /\ pc = "accept"
    /\ backlog # << >>
    /\ \E fd \in Fds, i \in FreeSlot(slots) :
        /\ Unused(fd) /\ \A x \in Fds : x < fd => ~Unused(x)
        /\ slots' = PutSlot(slots, i, NewSock(fd))
        /\ peer' = [peer EXCEPT ![fd] = Head(backlog)]
        /\ open' = open \union {fd}
    /\ backlog' = Tail(backlog)
    /\ BeginTick(slots')
    /\ UNCHANGED <<netvars, ghosts>>

ScanEnd ==
    /\ pc = "scan" /\ cur > Len(slots)
    /\ pc' = "accept" /\ cur' = 1
    /\ UNCHANGED <<slots, rx, kernel, netvars, ghosts>>

NextSlot == pc' = "scan" /\ cur' = cur + 1 /\ rx' = Idle

ScanSkip ==
    /\ pc = "scan" /\ cur <= Len(slots)
    /\ slots[cur].state = CLOSED
    /\ NextSlot
    /\ UNCHANGED <<slots, kernel, netvars, ghosts>>

\* A body asked for in full each time, as a header is.
ScanReceive_Whole ==
    /\ pc = "scan" /\ cur <= Len(slots)
    /\ slots[cur].state = CONNECTED
    /\ LET s == slots[cur] IN
         rx' = [len |-> IF s.explen = 0 THEN HEAD ELSE s.explen, sum |-> 0]
    /\ pc' = "recv"
    /\ UNCHANGED <<slots, cur, kernel, netvars, ghosts>>

\* A header is asked for in full each time, a body less what is cached.
ScanReceive ==
    /\ pc = "scan" /\ cur <= Len(slots)
    /\ slots[cur].state = CONNECTED
    /\ LET s == slots[cur] IN
         rx' = [len |-> IF s.explen = 0 THEN HEAD ELSE s.explen - Len(s.datacache),
                sum |-> 0]
    /\ pc' = "recv"
    /\ UNCHANGED <<slots, cur, kernel, netvars, ghosts>>
----------------------------------------------------------------------------
(* ReceiveData: recv() until len bytes are there or nothing more is.       *)

RecvQueue == rbuf[ConnOf(cur)]

\* The length asked of recv(): not reduced by what this call already got.  A
\* negative length is a huge size_t, and takes everything there is.
Request == IF rx.len < 0 THEN Len(RecvQueue) ELSE Min2(MTU, rx.len)

Count == Min2(Len(RecvQueue), Request)
Cache == slots[cur].datacache \o SubSeq(RecvQueue, 1, Count)

Readable == /\ pc = "recv"
            /\ slots[cur].socket \in open
            /\ RecvQueue # << >> /\ rx.len # 0

Consume == rbuf' = [rbuf EXCEPT ![ConnOf(cur)] = SubSeq(@, Count + 1, Len(@))]

\* Not all there yet: ask again.
RecvMore ==
    /\ Readable /\ rx.sum + Count # rx.len
    /\ Consume
    /\ rx' = [rx EXCEPT !.sum = @ + Count]
    /\ slots' = [slots EXCEPT ![cur].datacache = Cache]
    /\ UNCHANGED <<pc, cur, kernel, habit, link, wire, sent, ghosts>>

RecvHead ==
    /\ Readable /\ rx.sum + Count = rx.len
    /\ slots[cur].explen = 0
    /\ Consume
    /\ slots' = [slots EXCEPT ![cur].datacache = << >>,
                              ![cur].explen = ByteToInt32(Cache)]
    /\ NextSlot
    /\ UNCHANGED <<kernel, habit, link, wire, sent, ghosts>>

\* A whole body: s.callback, or the default handler, is called with it.
RecvBody ==
    /\ Readable /\ rx.sum + Count = rx.len
    /\ slots[cur].explen # 0
    /\ Consume
    /\ slots' = [slots EXCEPT ![cur].datacache = Cache]
    /\ got' = [got EXCEPT ![ConnOf(cur)] = Append(@, Cache)]
    /\ pc' = "callback" /\ rx' = Idle
    /\ UNCHANGED <<cur, kernel, habit, link, wire, sent, closed, failed>>

\* EWOULDBLOCK, or 0: the client sent no more or has shut down.
RecvNothing ==
    /\ pc = "recv"
    /\ slots[cur].socket \in open
    /\ rx.len = 0 \/ (RecvQueue = << >> /\ link[ConnOf(cur)] # "reset")
    /\ NextSlot
    /\ UNCHANGED <<slots, kernel, netvars, ghosts>>

\* Any other error (ECONNRESET, EBADF) closes the client.
RecvError ==
    /\ pc = "recv"
    /\ \/ slots[cur].socket \notin open
       \/ rx.len # 0 /\ RecvQueue = << >> /\ link[ConnOf(cur)] = "reset"
    /\ CloseClient(cur)
    /\ NextSlot
    /\ UNCHANGED <<peer, backlog, netvars, got, failed>>

CallbackReturn ==
    /\ pc = "callback"
    /\ slots' = [slots EXCEPT ![cur].datacache = << >>, ![cur].explen = 0]
    /\ NextSlot
    /\ UNCHANGED <<kernel, netvars, ghosts>>
----------------------------------------------------------------------------
(* The application, between two turns of the loop or inside a handler.     *)

AppRuns == pc \in {"accept", "callback"}

\* RegisterFunction(target, fun), for the connection last accepted as target.
RegisterFunction(target) ==
    /\ AppRuns
    /\ \E i \in FindSocketID(slots, target) :
        slots' = [slots EXCEPT ![i].callback = peer[target]]
    /\ UNCHANGED <<loopvars, kernel, netvars, ghosts>>

\* Send: a send() that fails, EAGAIN included, marks the slot CLOSED; it does
\* not close the descriptor and tells no one.  One that succeeds changes nothing.
SendFails(s) ==
    /\ AppRuns /\ "sendfail" \in Faults
    /\ \E i \in FindSocketID(slots, s) :
        /\ slots[i].state = CONNECTED
        /\ slots' = [slots EXCEPT ![i].state = CLOSED]
        /\ failed' = failed \union {ConnOf(i)}
    /\ UNCHANGED <<loopvars, kernel, netvars, got, closed>>

\* CloseConnection, by an application that does not close what it was told is
\* disconnected.
CloseConnection(s) ==
    /\ AppRuns /\ "appclose" \in Faults
    /\ \E i \in FindSocketID(slots, s) : closed[ConnOf(i)] = 0 /\ CloseClient(i)
    /\ UNCHANGED <<loopvars, peer, backlog, netvars, got, failed>>
----------------------------------------------------------------------------
(* The clients and the network.                                            *)

Connect(c) ==
    /\ link[c] = "none" /\ Len(backlog) < MaxBacklog
    /\ link' = [link EXCEPT ![c] = "up"]
    /\ backlog' = Append(backlog, c)
    /\ UNCHANGED <<slots, loopvars, peer, open, habit, wire, rbuf, sent, ghosts>>

\* BlockedClient::SendParams.
ClientSend(c) ==
    /\ link[c] = "up" /\ Len(sent[c]) < MaxMsgs
    /\ "pipeline" \in habit[c] \/ Len(got[c]) >= Len(sent[c])
    /\ \E m \in Msgs :
        /\ "long" \in habit[c] \/ Len(m) <= MTU
        /\ sent' = [sent EXCEPT ![c] = Append(@, m)]
        /\ wire' = [wire EXCEPT ![c] = @ \o Frame(m)]
    /\ UNCHANGED <<slots, loopvars, kernel, habit, link, rbuf, ghosts>>

PartRest(part, n) ==
    [part EXCEPT !.bytes = SubSeq(part.bytes, n + 1, Len(part.bytes))]

\* The next piece of what was sent arrives, in order.
Arrive(c) ==
    /\ wire[c] # << >>
    /\ LET part  == Head(wire[c])
           size  == Len(part.bytes)
           split == IF part.head THEN "split_head" ELSE "split_body"
       IN \E n \in 1..size :
            /\ n = size \/ split \in habit[c]
            /\ rbuf' = [rbuf EXCEPT ![c] = @ \o SubSeq(part.bytes, 1, n)]
            /\ wire' = [wire EXCEPT ![c] =
                 IF n = size THEN Tail(@) ELSE <<PartRest(part, n)>> \o Tail(@)]
    /\ UNCHANGED <<slots, loopvars, kernel, habit, link, sent, ghosts>>

\* The client closes: what it sent still arrives.
ClientCloses(c) ==
    /\ link[c] = "up" /\ "eof" \in Faults
    /\ link' = [link EXCEPT ![c] = "eof"]
    /\ UNCHANGED <<slots, loopvars, kernel, habit, wire, rbuf, sent, ghosts>>

\* The connection breaks: what has not arrived is lost.
ClientResets(c) ==
    /\ link[c] \in {"up", "eof"} /\ "reset" \in Faults
    /\ link' = [link EXCEPT ![c] = "reset"]
    /\ wire' = [wire EXCEPT ![c] = << >>]
    /\ UNCHANGED <<slots, loopvars, kernel, habit, rbuf, sent, ghosts>>
----------------------------------------------------------------------------
ServerStep ==
    \/ AcceptNone \/ Accept
    \/ ScanEnd \/ ScanSkip \/ ScanReceive
    \/ RecvMore \/ RecvHead \/ RecvBody \/ RecvNothing \/ RecvError
    \/ CallbackReturn

AppStep == \E s \in Fds :
    RegisterFunction(s) \/ SendFails(s) \/ CloseConnection(s)

ClientStep == \E c \in Conns :
    Connect(c) \/ ClientSend(c) \/ Arrive(c) \/ ClientCloses(c) \/ ClientResets(c)

Next == ServerStep \/ AppStep \/ ClientStep

\* The loop never stops and the network delivers; clients and application may
\* stop at any time.
Fairness == WF_vars(ServerStep) /\ \A c \in Conns : WF_vars(Arrive(c))

Spec == Init /\ [][Next]_vars
FairSpec == Spec /\ Fairness
----------------------------------------------------------------------------
(* Correctness.                                                            *)

\* Every variable keeps its type; cur points at a slot while Tick uses one.
TypeOK ==
    /\ slots \in Seq(SlotType)
    /\ pc \in {"accept", "scan", "recv", "callback"}
    /\ cur \in Nat \ {0}
    /\ pc \in {"recv", "callback"} => cur \in DOMAIN slots
    /\ rx \in [len : Int, sum : Nat]
    /\ peer \in [Fds -> Conns \union {NoConn}]
    /\ open \in SUBSET Fds
    /\ \A i \in DOMAIN slots : ConnOf(i) \in Conns
    /\ backlog \in Seq(Conns)
    /\ habit \in [Conns -> Profiles]
    /\ link \in [Conns -> {"none", "up", "eof", "reset"}]
    /\ wire \in [Conns -> Seq([head : BOOLEAN, bytes : Seq(Byte)])]
    /\ rbuf \in [Conns -> Seq(Byte)]
    /\ sent \in [Conns -> Seq(Msgs)]
    /\ got \in [Conns -> Seq(Seq(Byte))]
    /\ closed \in [Conns -> Nat]
    /\ failed \in SUBSET Conns

Live(i) == i \in DOMAIN slots /\ slots[i].state = CONNECTED

\* A live slot holds an open descriptor, and no slot before it carries the same
\* one, not even a closed slot never used again: so looking a live socket up by
\* its descriptor (Send, RegisterFunction, CloseConnection) finds its own slot
\* however often the kernel hands a number out again.
TableIntegrity ==
    \A i \in DOMAIN slots : slots[i].state = CONNECTED =>
        /\ slots[i].socket \in open
        /\ \A j \in 1..(i - 1) : slots[j].socket # slots[i].socket

\* The handler registered on a live slot was registered for the connection that
\* is there now, not for an earlier one on the same slot or descriptor
\* ("Register callback for specific client socket", Utility.h:176).
HandlerOwner ==
    \A i \in DOMAIN slots : slots[i].state = CONNECTED =>
        slots[i].callback \in {NoConn, ConnOf(i)}

\* Every descriptor accept() returned and that is still open belongs to a live
\* slot, or to a connection on which a send() failed: nothing else leaks one.
LeakOnlyBySend ==
    \A fd \in open : \/ \E i \in DOMAIN slots : Live(i) /\ slots[i].socket = fd
                     \/ peer[fd] \in failed

\* A connection is reported disconnected at most once, and after that (or after
\* a failed send) no slot serves it any more.
DisconnectOnce ==
    \A c \in Conns :
        /\ closed[c] <= 1
        /\ closed[c] = 1 \/ c \in failed =>
             \A i \in DOMAIN slots : Live(i) => ConnOf(i) # c

Dead == {c \in Conns : closed[c] > 0 \/ c \in failed}

Channel == INSTANCE MsgChannel WITH Messages <- Msgs, dead <- Dead

\* The server is a reliable FIFO channel of whole messages: the handler is given
\* exactly what each client sent, in order, and all of it unless the connection
\* is given up ("When client socket get a message, it will invoke callback
\* function", Utility.h:177).
ImplementsChannel == Channel!Spec

\* The safety half of the same: what the handler was given is a prefix of what
\* the client sent.
FramingKept ==
    \A c \in Conns : /\ Len(got[c]) <= Len(sent[c])
                     /\ got[c] = SubSeq(sent[c], 1, Len(got[c]))

\* Every message sent is eventually handed to a handler, unless the connection is
\* given up: the liveness half, for every way TCP may deliver the bytes.
MessageDelivered ==
    \A c \in Conns, n \in 1..MaxMsgs :
        Len(sent[c]) >= n ~> Len(got[c]) >= n \/ c \in Dead

\* A client that closes its connection is eventually reported to the disconnect
\* callback ("Register Disconnect callback for specific socket", Utility.h:201).
DisconnectReported ==
    \A c \in Conns : link[c] = "eof" ~> closed[c] > 0
=============================================================================
