------------------------ MODULE BlockedServerProofs ------------------------
(***************************************************************************)
(* TLAPS proofs about BlockedServer, for any clients, descriptors and      *)
(* messages: types and the integrity of the socket table, whatever fails;  *)
(* what it owes each connection, which is served by one slot and reported  *)
(* disconnected once; and, for clients that are careful, that frames are   *)
(* read whole and in order, so that the server implements the safety half  *)
(* of MsgChannel.                                                          *)
(***************************************************************************)
EXTENDS BlockedServer, SequenceTheorems, TLAPS

\* The entry PushClientSock writes is the only one that changes.
LEMMA PutSlotProperties ==
  ASSUME NEW S, NEW tbl \in Seq(S), NEW x \in S, NEW i \in FreeSlot(tbl)
  PROVE  /\ PutSlot(tbl, i, x) \in Seq(S)
         /\ i \in DOMAIN PutSlot(tbl, i, x)
         /\ DOMAIN tbl \subseteq DOMAIN PutSlot(tbl, i, x)
         /\ \A j \in DOMAIN PutSlot(tbl, i, x) :
               /\ j # i => j \in DOMAIN tbl
               /\ PutSlot(tbl, i, x)[j] = IF j = i THEN x ELSE tbl[j]
<1>1. i \in 1..(Len(tbl) + 1)
  BY DEF FreeSlot
<1>2. CASE i <= Len(tbl)
  BY <1>1, <1>2 DEF PutSlot
<1>3. CASE i = Len(tbl) + 1
  <2>1. PutSlot(tbl, i, x) = Append(tbl, x)
    BY <1>3 DEF PutSlot
  <2> QED  BY <1>3, <2>1, AppendProperties
<1> QED  BY <1>1, <1>2, <1>3

\* The bytes a recv() returns, and what it leaves.
LEMMA SubSeqBytes ==
  ASSUME NEW s \in Seq(Byte), NEW m \in Nat, NEW n \in Nat, m >= 1, n <= Len(s)
  PROVE  SubSeq(s, m, n) \in Seq(Byte)
<1>1. \A i \in m..n : s[i] \in Byte
  BY ElementOfSeq
<1> QED  BY <1>1, SubSeqProperties

LEMMA HeaderType ==
  ASSUME NEW n \in Nat
  PROVE  Int32ToByte(n) \in Seq(Byte)
BY DEF Int32ToByte, Byte

LEMMA DigitsType ==
  ASSUME NEW a \in Int, NEW b \in Int, NEW c \in Int, NEW e \in Int
  PROVE  a * 256 * 256 * 256 + b * 256 * 256 + c * 256 + e \in Int
OBVIOUS

LEMMA LengthType ==
  ASSUME NEW d \in Seq(Byte)
  PROVE  ByteToInt32(d) \in Int
<1>1. CASE Len(d) # 4
  BY <1>1 DEF ByteToInt32
<1>2. CASE Len(d) = 4
  <2>1. \A k \in 1..4 : d[k] \in Byte
    BY <1>2, ElementOfSeq
  <2>2. \A x \in Byte : x \in Int
    BY DEF Byte
  <2>3. 1 \in 1..4 /\ 2 \in 1..4 /\ 3 \in 1..4 /\ 4 \in 1..4
    OBVIOUS
  <2>4. d[1] \in Int /\ d[2] \in Int /\ d[3] \in Int /\ d[4] \in Int
    BY <2>1, <2>2, <2>3
  <2> DEFINE top == IF d[1] >= 128 THEN d[1] - 256 ELSE d[1]
  <2>5. top \in Int
    BY <2>4
  <2> HIDE DEF top
  <2>6. top * 256 * 256 * 256 + d[2] * 256 * 256 + d[3] * 256 + d[4] \in Int
    BY ONLY <2>4, <2>5, DigitsType, SMTT(60)
  <2> QED  BY <1>2, <2>6 DEF ByteToInt32, top
<1> QED  BY <1>1, <1>2
----------------------------------------------------------------------------
(* Types. *)

\* What is known of an entry of the table.
LEMMA SlotFacts ==
  ASSUME TypeOK, NEW i \in DOMAIN slots
  PROVE  /\ slots[i] \in SlotType
         /\ slots[i].socket \in Fds
         /\ slots[i].datacache \in Seq(Byte)
         /\ slots[i].state \in {CLOSED, CONNECTED}
         /\ ConnOf(i) \in Conns
<1>1. slots[i] \in SlotType
  BY ElementOfSeq DEF TypeOK
<1> QED  BY <1>1 DEF TypeOK, SlotType

\* Replacing one entry by one that carries the same socket.
LEMMA SameSocketType ==
  ASSUME TypeOK, NEW i \in DOMAIN slots, NEW s \in SlotType,
         s.socket = slots[i].socket, slots' = [slots EXCEPT ![i] = s]
  PROVE  /\ slots' \in Seq(SlotType)
         /\ DOMAIN slots' = DOMAIN slots
         /\ \A j \in DOMAIN slots : slots'[j].socket = slots[j].socket
         /\ peer' = peer => \A j \in DOMAIN slots' : ConnOf(j)' \in Conns
<1>1. slots \in Seq(SlotType)
  BY DEF TypeOK
<1>2. slots' \in Seq(SlotType) /\ DOMAIN slots' = DOMAIN slots
  BY <1>1, ExceptSeq
<1>3. \A j \in DOMAIN slots : slots'[j].socket = slots[j].socket
  BY <1>1
<1>4. \A j \in DOMAIN slots : ConnOf(j) \in Conns
  BY DEF TypeOK
<1> QED  BY <1>2, <1>3, <1>4 DEF ConnOf

\* What a change of the receive state of an entry leaves alone.
LEMMA EntryData ==
  ASSUME TypeOK, NEW i \in DOMAIN slots, NEW data \in Seq(Byte)
  PROVE  /\ LET s == [slots[i] EXCEPT !.datacache = data] IN
              /\ s \in SlotType /\ s.socket = slots[i].socket
              /\ s.state = slots[i].state /\ s.callback = slots[i].callback
         /\ \A n \in Int :
              LET s == [slots[i] EXCEPT !.datacache = data, !.explen = n] IN
                /\ s \in SlotType /\ s.socket = slots[i].socket
                /\ s.state = slots[i].state /\ s.callback = slots[i].callback
<1> DEFINE r == [slots[i] EXCEPT !.datacache = data]
<1>1. /\ r \in SlotType /\ r.socket = slots[i].socket
      /\ r.state = slots[i].state /\ r.callback = slots[i].callback
  BY SlotFacts DEF SlotType
<1> HIDE DEF r
<1>2. ASSUME NEW n \in Int
      PROVE  LET s == [r EXCEPT !.explen = n] IN
               /\ s \in SlotType /\ s.socket = slots[i].socket
               /\ s.state = slots[i].state /\ s.callback = slots[i].callback
  BY <1>1 DEF SlotType
<1> QED  BY <1>1, <1>2 DEF r

LEMMA TypeInit == Init => TypeOK
BY EmptySeq DEF Init, TypeOK, ConnOf

LEMMA EmptyBytes == << >> \in Seq(Byte)
BY EmptySeq

LEMMA InitSockType ==
  ASSUME NEW s \in SlotType
  PROVE  /\ InitSock(s) \in SlotType
         /\ InitSock(s).socket = s.socket
         /\ InitSock(s).state = CLOSED
<1>1. << >> \in Seq(Byte)
  BY EmptyBytes
<1> DEFINE r1 == [s EXCEPT !.state = CLOSED]
           r2 == [r1 EXCEPT !.datacache = << >>]
           r3 == [r2 EXCEPT !.explen = 0]
<1>2. r1 \in SlotType /\ r1.socket = s.socket /\ r1.state = CLOSED
  BY DEF SlotType
<1> HIDE DEF r1
<1>3. r2 \in SlotType /\ r2.socket = s.socket /\ r2.state = CLOSED
  BY <1>1, <1>2 DEF SlotType
<1> HIDE DEF r2
<1>4. r3 \in SlotType /\ r3.socket = s.socket /\ r3.state = CLOSED
  BY <1>3 DEF SlotType
<1> QED  BY <1>4 DEF InitSock, r1, r2

\* CloseClient keeps the types of what it changes.
LEMMA CloseClientType ==
  ASSUME TypeOK, NEW i \in DOMAIN slots, CloseClient(i), peer' = peer
  PROVE  /\ slots' \in Seq(SlotType)
         /\ DOMAIN slots' = DOMAIN slots
         /\ \A j \in DOMAIN slots' : ConnOf(j)' \in Conns
         /\ open' \in SUBSET Fds
         /\ closed' \in [Conns -> Nat]
<1>1. InitSock(slots[i]) \in SlotType /\ InitSock(slots[i]).socket = slots[i].socket
  BY SlotFacts, InitSockType
<1>2. slots' = [slots EXCEPT ![i] = InitSock(slots[i])]
  BY DEF CloseClient
<1>3. open' \in SUBSET Fds /\ closed' \in [Conns -> Nat]
  BY SlotFacts DEF CloseClient, TypeOK
<1> QED  BY <1>1, <1>2, <1>3, SameSocketType

\* Count bytes are a valid prefix of the receive queue.
LEMMA CountType ==
  ASSUME TypeOK, Readable
  PROVE  /\ cur \in DOMAIN slots
         /\ RecvQueue \in Seq(Byte)
         /\ Count \in Nat /\ Count <= Len(RecvQueue)
         /\ Cache \in Seq(Byte)
         /\ Consume => rbuf' \in [Conns -> Seq(Byte)]
<1>1. cur \in DOMAIN slots
  BY DEF TypeOK, Readable
<1>2. ConnOf(cur) \in Conns /\ slots[cur].datacache \in Seq(Byte)
  BY <1>1, SlotFacts
<1>3. RecvQueue \in Seq(Byte) /\ Len(RecvQueue) \in Nat
  BY <1>2, LenProperties DEF RecvQueue, TypeOK
<1>4. MTU \in Nat /\ rx.len \in Int
  BY MTUAssumption DEF TypeOK
<1>5. Request \in Nat
  BY <1>3, <1>4 DEF Request, Min2
<1>6. Count \in Nat /\ Count <= Len(RecvQueue)
  BY <1>3, <1>5 DEF Count, Min2
<1>7. SubSeq(RecvQueue, 1, Count) \in Seq(Byte)
  BY <1>3, <1>6, SubSeqBytes
<1>8. Cache \in Seq(Byte)
  BY <1>2, <1>7, ConcatProperties DEF Cache
<1>9. SubSeq(RecvQueue, Count + 1, Len(RecvQueue)) \in Seq(Byte)
  BY <1>3, <1>6, SubSeqBytes
<1>10. Consume => rbuf' \in [Conns -> Seq(Byte)]
  BY <1>9, ZenonT(60) DEF Consume, RecvQueue, TypeOK
<1> QED  BY <1>1, <1>3, <1>6, <1>8, <1>10

LEMMA NextSlotType ==
  ASSUME TypeOK, NextSlot
  PROVE  cur' \in Nat \ {0} /\ pc' = "scan" /\ rx' \in [len : Int, sum : Nat]
<1>1. cur \in Nat /\ cur # 0
  BY DEF TypeOK
<1> QED  BY <1>1 DEF NextSlot, Idle

LEMMA TypeServer ==
  ASSUME TypeOK, ServerStep
  PROVE  TypeOK'
<1>1. CASE AcceptNone
  BY <1>1 DEF AcceptNone, BeginTick, TypeOK, ConnOf, kernel, netvars, ghosts
<1>2. CASE Accept
  <2>1. PICK fd \in Fds, i \in FreeSlot(slots) :
           /\ slots' = PutSlot(slots, i, NewSock(fd))
           /\ peer' = [peer EXCEPT ![fd] = Head(backlog)]
           /\ open' = open \union {fd}
    BY <1>2 DEF Accept
  <2>2. NewSock(fd) \in SlotType /\ NewSock(fd).socket = fd
    BY EmptySeq DEF NewSock, SlotType
  <2>3. slots \in Seq(SlotType)
    BY DEF TypeOK
  <2>4. /\ slots' \in Seq(SlotType)
        /\ \A j \in DOMAIN slots' :
              /\ j # i => j \in DOMAIN slots
              /\ slots'[j] = IF j = i THEN NewSock(fd) ELSE slots[j]
    BY <2>1, <2>2, <2>3, PutSlotProperties
  <2>5. Head(backlog) \in Conns /\ Tail(backlog) \in Seq(Conns)
    BY <1>2, HeadTailProperties DEF Accept, TypeOK
  <2>6. peer' \in [Fds -> Conns \union {NoConn}] /\ open' \in SUBSET Fds
    BY <2>1, <2>5 DEF TypeOK
  <2>7. ASSUME NEW j \in DOMAIN slots'  PROVE ConnOf(j)' \in Conns
    <3>1. CASE j = i
      <4>1. slots'[j] = NewSock(fd)
        BY <3>1, <2>4, <2>7
      <4>2. peer'[fd] = Head(backlog)
        BY <2>1 DEF TypeOK
      <4> QED  BY <4>1, <4>2, <2>2, <2>5 DEF ConnOf
    <3>2. CASE j # i
      <4>1. j \in DOMAIN slots /\ slots'[j] = slots[j]
        BY <3>2, <2>4, <2>7
      <4>2. slots[j].socket \in Fds /\ ConnOf(j) \in Conns
        BY <4>1, SlotFacts
      <4> QED  BY <4>1, <4>2, <2>1, <2>5 DEF ConnOf, TypeOK
    <3> QED  BY <3>1, <3>2
  <2> QED  BY <1>2, <2>4, <2>5, <2>6, <2>7
           DEF Accept, BeginTick, TypeOK, netvars, ghosts
<1>3. CASE ScanEnd
  <2>1. cur' \in Nat \ {0} /\ pc' = "accept"
    BY <1>3 DEF ScanEnd
  <2> QED  BY <1>3, <2>1 DEF ScanEnd, TypeOK, ConnOf, kernel, netvars, ghosts
<1>4. CASE ScanSkip
  <2>1. cur' \in Nat \ {0} /\ pc' = "scan" /\ rx' \in [len : Int, sum : Nat]
    BY <1>4, NextSlotType DEF ScanSkip
  <2> QED  BY <1>4, <2>1 DEF ScanSkip, TypeOK, ConnOf, kernel, netvars, ghosts
<1>5. CASE ScanReceive
  <2>1. cur \in DOMAIN slots
    BY <1>5 DEF ScanReceive, TypeOK
  <2>2. slots[cur].explen \in Int /\ Len(slots[cur].datacache) \in Nat
    BY <2>1, SlotFacts, LenProperties DEF SlotType
  <2>3. rx' \in [len : Int, sum : Nat]
    BY <1>5, <2>2 DEF ScanReceive, HEAD
  <2> QED  BY <1>5, <2>1, <2>3
           DEF ScanReceive, TypeOK, ConnOf, kernel, netvars, ghosts
<1>6. CASE RecvMore
  <2>1. Readable /\ Consume
    BY <1>6 DEF RecvMore
  <2>2. /\ cur \in DOMAIN slots
        /\ Cache \in Seq(Byte)
        /\ rbuf' \in [Conns -> Seq(Byte)]
        /\ Count \in Nat
    BY <2>1, CountType
  <2> DEFINE s == [slots[cur] EXCEPT !.datacache = Cache]
  <2>3. s \in SlotType /\ s.socket = slots[cur].socket
    BY <2>2, SlotFacts DEF SlotType
  <2>4. slots' = [slots EXCEPT ![cur] = s]
    BY <1>6 DEF RecvMore
  <2>5. /\ slots' \in Seq(SlotType) /\ DOMAIN slots' = DOMAIN slots
        /\ peer' = peer => \A j \in DOMAIN slots' : ConnOf(j)' \in Conns
    BY <2>2, <2>3, <2>4, SameSocketType
  <2>6. rx' \in [len : Int, sum : Nat]
    <3>1. rx \in [len : Int, sum : Nat] /\ rx' = [rx EXCEPT !.sum = rx.sum + Count]
      BY <1>6 DEF RecvMore, TypeOK
    <3>2. rx.sum + Count \in Nat
      BY <3>1, <2>2
    <3> QED  BY <3>1, <3>2
  <2> QED  BY <1>6, <2>2, <2>5, <2>6 DEF RecvMore, TypeOK, kernel, ghosts
<1>7. CASE RecvHead
  <2>1. Readable /\ Consume /\ NextSlot
    BY <1>7 DEF RecvHead
  <2>2. /\ cur \in DOMAIN slots
        /\ ByteToInt32(Cache) \in Int
        /\ rbuf' \in [Conns -> Seq(Byte)]
    BY <2>1, CountType, LengthType
  <2> DEFINE r == [slots[cur] EXCEPT !.explen = ByteToInt32(Cache)]
             s == [r EXCEPT !.datacache = << >>]
  <2>3. r \in SlotType /\ r.socket = slots[cur].socket
    BY <2>2, SlotFacts DEF SlotType
  <2>4. slots' = [slots EXCEPT ![cur] = s]
    BY <1>7 DEF RecvHead
  <2> HIDE DEF r
  <2>5. s \in SlotType /\ s.socket = slots[cur].socket
    BY <2>3, EmptyBytes DEF SlotType
  <2>6. /\ slots' \in Seq(SlotType) /\ DOMAIN slots' = DOMAIN slots
        /\ peer' = peer => \A j \in DOMAIN slots' : ConnOf(j)' \in Conns
    BY <2>2, <2>4, <2>5, SameSocketType
  <2>7. cur' \in Nat \ {0} /\ pc' = "scan" /\ rx' \in [len : Int, sum : Nat]
    BY <2>1, NextSlotType
  <2> QED  BY <1>7, <2>2, <2>6, <2>7 DEF RecvHead, TypeOK, kernel, ghosts
<1>8. CASE RecvBody
  <2>1. Readable /\ Consume
    BY <1>8 DEF RecvBody
  <2>2. /\ cur \in DOMAIN slots
        /\ Cache \in Seq(Byte)
        /\ rbuf' \in [Conns -> Seq(Byte)]
    BY <2>1, CountType
  <2> DEFINE s == [slots[cur] EXCEPT !.datacache = Cache]
  <2>3. s \in SlotType /\ s.socket = slots[cur].socket
    BY <2>2, SlotFacts DEF SlotType
  <2>4. slots' = [slots EXCEPT ![cur] = s]
    BY <1>8 DEF RecvBody
  <2>5. /\ slots' \in Seq(SlotType) /\ DOMAIN slots' = DOMAIN slots
        /\ peer' = peer => \A j \in DOMAIN slots' : ConnOf(j)' \in Conns
    BY <2>2, <2>3, <2>4, SameSocketType
  <2>6. ConnOf(cur) \in Conns
    BY <2>2, SlotFacts
  <2>7. Append(got[ConnOf(cur)], Cache) \in Seq(Seq(Byte))
    BY <2>2, <2>6, AppendProperties DEF TypeOK
  <2>8. got' \in [Conns -> Seq(Seq(Byte))]
    BY <1>8, <2>7 DEF RecvBody, TypeOK
  <2>9. rx' \in [len : Int, sum : Nat]
    BY <1>8 DEF RecvBody, Idle
  <2> QED  BY <1>8, <2>2, <2>5, <2>8, <2>9 DEF RecvBody, TypeOK, kernel
<1>9. CASE RecvNothing
  <2>1. cur' \in Nat \ {0} /\ pc' = "scan" /\ rx' \in [len : Int, sum : Nat]
    BY <1>9, NextSlotType DEF RecvNothing
  <2> QED  BY <1>9, <2>1 DEF RecvNothing, TypeOK, ConnOf, kernel, netvars, ghosts
<1>10. CASE RecvError
  <2>1. cur \in DOMAIN slots
    BY <1>10 DEF RecvError, TypeOK
  <2>2. cur' \in Nat \ {0} /\ pc' = "scan" /\ rx' \in [len : Int, sum : Nat]
    BY <1>10, NextSlotType DEF RecvError
  <2>3. /\ slots' \in Seq(SlotType) /\ DOMAIN slots' = DOMAIN slots
        /\ \A j \in DOMAIN slots' : ConnOf(j)' \in Conns
        /\ open' \in SUBSET Fds /\ closed' \in [Conns -> Nat]
    BY <1>10, <2>1, CloseClientType DEF RecvError
  <2> QED  BY <1>10, <2>2, <2>3 DEF RecvError, TypeOK, netvars
<1>11. CASE CallbackReturn
  <2>1. cur \in DOMAIN slots
    BY <1>11 DEF CallbackReturn, TypeOK
  <2> DEFINE r == [slots[cur] EXCEPT !.datacache = << >>]
             s == [r EXCEPT !.explen = 0]
  <2>2. r \in SlotType /\ r.socket = slots[cur].socket
    BY <2>1, SlotFacts, EmptyBytes DEF SlotType
  <2>3. slots' = [slots EXCEPT ![cur] = s]
    BY <1>11 DEF CallbackReturn
  <2> HIDE DEF r
  <2>4. s \in SlotType /\ s.socket = slots[cur].socket
    BY <2>2 DEF SlotType
  <2>5. /\ slots' \in Seq(SlotType) /\ DOMAIN slots' = DOMAIN slots
        /\ peer' = peer => \A j \in DOMAIN slots' : ConnOf(j)' \in Conns
    BY <2>1, <2>3, <2>4, SameSocketType
  <2>6. cur' \in Nat \ {0} /\ pc' = "scan" /\ rx' \in [len : Int, sum : Nat]
    BY <1>11, NextSlotType DEF CallbackReturn
  <2> QED  BY <1>11, <2>5, <2>6 DEF CallbackReturn, TypeOK, kernel, netvars, ghosts
<1> QED
  BY <1>1, <1>2, <1>3, <1>4, <1>5, <1>6, <1>7, <1>8, <1>9, <1>10, <1>11
     DEF ServerStep

LEMMA TypeApp ==
  ASSUME TypeOK, AppStep
  PROVE  TypeOK'
<1>1. PICK t \in Fds : RegisterFunction(t) \/ SendFails(t) \/ CloseConnection(t)
  BY DEF AppStep
<1>2. CASE RegisterFunction(t)
  <2>1. PICK i \in FindSocketID(slots, t) : slots' = [slots EXCEPT ![i].callback = peer[t]]
    BY <1>2 DEF RegisterFunction
  <2>2. i \in DOMAIN slots
    BY <2>1 DEF FindSocketID
  <2> DEFINE s == [slots[i] EXCEPT !.callback = peer[t]]
  <2>3. peer[t] \in Conns \union {NoConn}
    BY DEF TypeOK
  <2>4. s \in SlotType /\ s.socket = slots[i].socket
    BY <2>2, <2>3, SlotFacts DEF SlotType
  <2>5. slots' = [slots EXCEPT ![i] = s]
    BY <2>1
  <2>6. /\ slots' \in Seq(SlotType) /\ DOMAIN slots' = DOMAIN slots
        /\ peer' = peer => \A j \in DOMAIN slots' : ConnOf(j)' \in Conns
    BY <2>2, <2>4, <2>5, SameSocketType
  <2> QED  BY <1>2, <2>6
           DEF RegisterFunction, TypeOK, loopvars, kernel, netvars, ghosts
<1>3. CASE SendFails(t)
  <2>1. PICK i \in FindSocketID(slots, t) :
           /\ slots' = [slots EXCEPT ![i].state = CLOSED]
           /\ failed' = failed \union {ConnOf(i)}
    BY <1>3 DEF SendFails
  <2>2. i \in DOMAIN slots
    BY <2>1 DEF FindSocketID
  <2> DEFINE s == [slots[i] EXCEPT !.state = CLOSED]
  <2>3. s \in SlotType /\ s.socket = slots[i].socket
    BY <2>2, SlotFacts DEF SlotType
  <2>4. slots' = [slots EXCEPT ![i] = s]
    BY <2>1
  <2>5. /\ slots' \in Seq(SlotType) /\ DOMAIN slots' = DOMAIN slots
        /\ peer' = peer => \A j \in DOMAIN slots' : ConnOf(j)' \in Conns
    BY <2>2, <2>3, <2>4, SameSocketType
  <2>6. failed' \in SUBSET Conns
    BY <2>1, <2>2, SlotFacts DEF TypeOK
  <2> QED  BY <1>3, <2>5, <2>6 DEF SendFails, TypeOK, loopvars, kernel, netvars
<1>4. CASE CloseConnection(t)
  <2>1. PICK i \in FindSocketID(slots, t) : CloseClient(i)
    BY <1>4 DEF CloseConnection
  <2>2. i \in DOMAIN slots
    BY <2>1 DEF FindSocketID
  <2>3. /\ slots' \in Seq(SlotType) /\ DOMAIN slots' = DOMAIN slots
        /\ \A j \in DOMAIN slots' : ConnOf(j)' \in Conns
        /\ open' \in SUBSET Fds /\ closed' \in [Conns -> Nat]
    BY <1>4, <2>1, <2>2, CloseClientType DEF CloseConnection
  <2> QED  BY <1>4, <2>3 DEF CloseConnection, TypeOK, loopvars, netvars
<1> QED  BY <1>1, <1>2, <1>3, <1>4

LEMMA PartRestType ==
  ASSUME NEW part \in [head : BOOLEAN, bytes : Seq(Byte)],
         NEW n \in Nat, n <= Len(part.bytes)
  PROVE  /\ SubSeq(part.bytes, 1, n) \in Seq(Byte)
         /\ PartRest(part, n) \in [head : BOOLEAN, bytes : Seq(Byte)]
<1>1. part.bytes \in Seq(Byte) /\ Len(part.bytes) \in Nat
  BY LenProperties
<1>2. SubSeq(part.bytes, n + 1, Len(part.bytes)) \in Seq(Byte)
  BY <1>1, SubSeqBytes
<1>3. SubSeq(part.bytes, 1, n) \in Seq(Byte)
  BY <1>1, SubSeqBytes
<1>4. PartRest(part, n) \in [head : BOOLEAN, bytes : Seq(Byte)]
  BY ONLY <1>2, part \in [head : BOOLEAN, bytes : Seq(Byte)] DEF PartRest
<1> QED  BY <1>3, <1>4

LEMMA TypeClient ==
  ASSUME TypeOK, ClientStep
  PROVE  TypeOK'
<1> USE DEF TypeOK, ConnOf, loopvars, kernel, netvars, ghosts
<1>1. PICK c \in Conns : \/ Connect(c) \/ ClientSend(c) \/ Arrive(c)
                        \/ ClientCloses(c) \/ ClientResets(c)
  BY DEF ClientStep
<1>2. CASE Connect(c)
  BY <1>2, AppendProperties DEF Connect
<1>3. CASE ClientSend(c)
  <2>1. PICK m \in Msgs : /\ sent' = [sent EXCEPT ![c] = Append(@, m)]
                          /\ wire' = [wire EXCEPT ![c] = @ \o Frame(m)]
    BY <1>3 DEF ClientSend
  <2>2. m \in Seq(Byte) /\ Len(m) \in Nat
    BY MsgsAssumption, LenProperties
  <2>3. Frame(m) \in Seq([head : BOOLEAN, bytes : Seq(Byte)])
    BY <2>2, HeaderType DEF Frame
  <2>4. wire[c] \o Frame(m) \in Seq([head : BOOLEAN, bytes : Seq(Byte)])
    BY <2>3, ConcatProperties
  <2>5. Append(sent[c], m) \in Seq(Msgs)
    BY AppendProperties
  <2> QED  BY <1>3, <2>1, <2>4, <2>5 DEF ClientSend
<1>4. CASE Arrive(c)
  <2> DEFINE part == Head(wire[c])
             size == Len(part.bytes)
             Part == [head : BOOLEAN, bytes : Seq(Byte)]
  <2>1. PICK n \in 1..size :
           /\ rbuf' = [rbuf EXCEPT ![c] = @ \o SubSeq(part.bytes, 1, n)]
           /\ wire' = [wire EXCEPT ![c] =
                 IF n = size THEN Tail(@) ELSE <<PartRest(part, n)>> \o Tail(@)]
    BY <1>4 DEF Arrive
  <2>2. wire[c] \in Seq(Part) /\ wire[c] # << >>
    BY <1>4 DEF Arrive
  <2>3. part \in Part /\ Tail(wire[c]) \in Seq(Part)
    BY <2>2, HeadTailProperties
  <2>4. part.bytes \in Seq(Byte) /\ size \in Nat
    BY <2>3, LenProperties
  <2>5. n \in Nat /\ n <= size
    BY <2>4
  <2>6. SubSeq(part.bytes, 1, n) \in Seq(Byte) /\ PartRest(part, n) \in Part
    BY <2>3, <2>5, PartRestType
  <2>7. rbuf[c] \o SubSeq(part.bytes, 1, n) \in Seq(Byte)
    <3>1. rbuf[c] \in Seq(Byte)
      OBVIOUS
    <3> QED  BY ONLY <3>1, <2>6, ConcatProperties
  <2>8. <<PartRest(part, n)>> \o Tail(wire[c]) \in Seq(Part)
    BY <2>3, <2>6, ConcatProperties
  <2>9. wire' \in [Conns -> Seq(Part)]
    BY <2>1, <2>3, <2>8
  <2>10. rbuf' \in [Conns -> Seq(Byte)]
    BY <2>1, <2>7
  <2> QED  BY <1>4, <2>9, <2>10 DEF Arrive
<1>5. CASE ClientCloses(c)
  BY <1>5 DEF ClientCloses
<1>6. CASE ClientResets(c)
  BY <1>6, EmptySeq DEF ClientResets
<1> QED  BY <1>1, <1>2, <1>3, <1>4, <1>5, <1>6

LEMMA TypeStep == TypeOK /\ [Next]_vars => TypeOK'
<1>1. ASSUME TypeOK, UNCHANGED vars  PROVE TypeOK'
  BY <1>1 DEF TypeOK, ConnOf, vars, loopvars, kernel, netvars, ghosts
<1> QED  BY <1>1, TypeServer, TypeApp, TypeClient DEF Next

\* Every reachable state is of the declared types.
THEOREM TypeCorrect == Spec => []TypeOK
BY TypeInit, TypeStep, PTL DEF Spec
----------------------------------------------------------------------------
(* The integrity of the table.  Two things are needed beside it: that      *)
(* ReceiveData runs on live slots only, so that the slot it closes is the  *)
(* first with its descriptor; and that a live slot's handler is its own.   *)

RecvOnLive == pc = "recv" => slots[cur].state = CONNECTED

IInv == TypeOK /\ TableIntegrity /\ HandlerOwner /\ RecvOnLive

\* A step that changes one entry, but not its socket, and does not revive it.
LEMMA EntryIntegrity ==
  ASSUME IInv, NEW i \in DOMAIN slots, NEW s \in SlotType,
         slots' = [slots EXCEPT ![i] = s],
         s.socket = slots[i].socket,
         s.state = CONNECTED => slots[i].state = CONNECTED,
         s.state = CONNECTED => s.callback \in {NoConn, ConnOf(i)},
         open' = open, peer' = peer
  PROVE  TableIntegrity' /\ HandlerOwner'
<1>1. slots \in Seq(SlotType) /\ DOMAIN slots = 1..Len(slots) /\ Len(slots) \in Nat
  BY LenProperties DEF IInv, TypeOK
<1>2. /\ DOMAIN slots' = DOMAIN slots
      /\ \A j \in DOMAIN slots : slots'[j].socket = slots[j].socket
  BY SameSocketType DEF IInv
<1>3. \A j \in DOMAIN slots : slots'[j] = IF j = i THEN s ELSE slots[j]
  BY <1>1
<1>4. \A j \in DOMAIN slots : slots'[j].state = CONNECTED => slots[j].state = CONNECTED
  BY <1>3
<1>5. TableIntegrity'
  <2> SUFFICES ASSUME NEW j \in DOMAIN slots', slots'[j].state = CONNECTED
               PROVE  /\ slots'[j].socket \in open'
                      /\ \A k \in 1..(j - 1) : slots'[k].socket # slots'[j].socket
    BY DEF TableIntegrity
  <2>1. j \in DOMAIN slots /\ slots[j].state = CONNECTED
    BY <1>2, <1>4
  <2>2. \A k \in 1..(j - 1) : k \in DOMAIN slots
    BY <1>1, <2>1
  <2> QED  BY <1>2, <2>1, <2>2 DEF IInv, TableIntegrity
<1>6. HandlerOwner'
  BY <1>2, <1>3 DEF IInv, HandlerOwner, ConnOf
<1> QED  BY <1>5, <1>6

\* Closing the first slot with a descriptor closes it for no live slot but that.
LEMMA CloseIntegrity ==
  ASSUME IInv, NEW i \in DOMAIN slots, CloseClient(i), peer' = peer,
         \A j \in 1..(i - 1) : slots[j].socket # slots[i].socket
  PROVE  TableIntegrity' /\ HandlerOwner'
<1>1. slots \in Seq(SlotType) /\ DOMAIN slots = 1..Len(slots) /\ Len(slots) \in Nat
  BY LenProperties DEF IInv, TypeOK
<1> DEFINE s == InitSock(slots[i])
<1>2. s \in SlotType /\ s.socket = slots[i].socket /\ s.state = CLOSED
  BY SlotFacts, InitSockType DEF IInv
<1>3. slots' = [slots EXCEPT ![i] = s] /\ open' = open \ {slots[i].socket}
  BY DEF CloseClient
<1> HIDE DEF s
<1>4. /\ DOMAIN slots' = DOMAIN slots
      /\ \A j \in DOMAIN slots : /\ slots'[j] = IF j = i THEN s ELSE slots[j]
                                 /\ slots'[j].socket = slots[j].socket
  BY <1>1, <1>2, <1>3
<1>5. CLOSED # CONNECTED
  BY DEF CLOSED, CONNECTED
<1>6. TableIntegrity'
  <2> SUFFICES ASSUME NEW j \in DOMAIN slots', slots'[j].state = CONNECTED
               PROVE  /\ slots'[j].socket \in open'
                      /\ \A k \in 1..(j - 1) : slots'[k].socket # slots'[j].socket
    BY DEF TableIntegrity
  <2>1. j \in DOMAIN slots /\ j # i /\ slots[j].state = CONNECTED
    BY <1>2, <1>4, <1>5
  <2>2. /\ slots[j].socket \in open
        /\ \A k \in 1..(j - 1) : k \in DOMAIN slots /\ slots[k].socket # slots[j].socket
    BY <1>1, <2>1 DEF IInv, TableIntegrity
  <2>3. slots[j].socket # slots[i].socket
    <3>1. CASE j < i
      <4>1. j \in 1..(i - 1)
        BY <1>1, <2>1, <3>1
      <4> QED  BY <4>1
    <3>2. CASE i < j
      <4>1. i \in 1..(j - 1)
        BY <1>1, <2>1, <3>2
      <4> QED  BY <4>1, <2>2
    <3> QED  BY <1>1, <2>1, <3>1, <3>2
  <2> QED  BY <1>3, <1>4, <2>1, <2>2, <2>3
<1>7. HandlerOwner'
  BY <1>2, <1>4, <1>5 DEF IInv, HandlerOwner, ConnOf
<1> QED  BY <1>6, <1>7

\* A new client gets a descriptor no live slot holds, and a slot before which
\* every slot is live.
LEMMA AcceptIntegrity ==
  ASSUME IInv, Accept
  PROVE  TableIntegrity' /\ HandlerOwner'
<1>1. PICK fd \in Fds, i \in FreeSlot(slots) :
         /\ fd \notin open
         /\ slots' = PutSlot(slots, i, NewSock(fd))
         /\ peer' = [peer EXCEPT ![fd] = Head(backlog)]
         /\ open' = open \union {fd}
  BY DEF Accept, Unused
<1>2. NewSock(fd) \in SlotType /\ NewSock(fd).socket = fd /\ NewSock(fd).callback = NoConn
  BY EmptyBytes DEF NewSock, SlotType
<1>3. DOMAIN slots = 1..Len(slots) /\ Len(slots) \in Nat
  BY LenProperties DEF IInv, TypeOK
<1>4. slots \in Seq(SlotType)
  BY DEF IInv, TypeOK
<1>5. /\ slots' \in Seq(SlotType)
      /\ \A j \in DOMAIN slots' :
            /\ j # i => j \in DOMAIN slots
            /\ slots'[j] = IF j = i THEN NewSock(fd) ELSE slots[j]
  BY <1>1, <1>2, <1>4, PutSlotProperties
<1>6. DOMAIN slots' = 1..Len(slots') /\ Len(slots') \in Nat
  BY <1>5, LenProperties
<1>7. /\ i \in Nat
      /\ \A k \in 1..(i - 1) : k \in DOMAIN slots /\ slots[k].state # CLOSED
  BY <1>3 DEF FreeSlot
<1>8. \A k \in DOMAIN slots : slots[k].state = CONNECTED => slots[k].socket # fd
  BY <1>1 DEF IInv, TableIntegrity
<1>9. \A k \in 1..(i - 1) : slots[k].socket # fd
  <2>1. \A k \in DOMAIN slots : slots[k].state \in {CLOSED, CONNECTED}
    BY SlotFacts DEF IInv
  <2> QED  BY <1>7, <1>8, <2>1
<1>10. TableIntegrity'
  <2> SUFFICES ASSUME NEW j \in DOMAIN slots', slots'[j].state = CONNECTED
               PROVE  /\ slots'[j].socket \in open'
                      /\ \A k \in 1..(j - 1) : slots'[k].socket # slots'[j].socket
    BY DEF TableIntegrity
  <2>1. \A k \in 1..(j - 1) : k \in DOMAIN slots' /\ k # j
    BY <1>6
  <2>2. CASE j = i
    <3>1. slots'[j] = NewSock(fd)
      BY <1>5, <2>2
    <3>2. \A k \in 1..(j - 1) : slots'[k] = slots[k] /\ slots[k].socket # fd
      BY <1>5, <1>9, <2>1, <2>2
    <3> QED  BY <1>1, <1>2, <3>1, <3>2
  <2>3. CASE j # i
    <3>1. j \in DOMAIN slots /\ slots'[j] = slots[j]
      BY <1>5, <2>3
    <3>2. /\ slots[j].socket \in open
          /\ \A k \in 1..(j - 1) : slots[k].socket # slots[j].socket
      BY <3>1 DEF IInv, TableIntegrity
    <3>3. slots[j].socket # fd
      BY <1>8, <3>1
    <3>4. \A k \in 1..(j - 1) : slots'[k].socket \in {fd, slots[k].socket}
      BY <1>2, <1>5, <2>1
    <3> QED  BY <1>1, <3>1, <3>2, <3>3, <3>4
  <2> QED  BY <2>2, <2>3
<1>11. HandlerOwner'
  <2> SUFFICES ASSUME NEW j \in DOMAIN slots', slots'[j].state = CONNECTED
               PROVE  slots'[j].callback \in {NoConn, ConnOf(j)'}
    BY DEF HandlerOwner
  <2>1. CASE j = i
    BY <1>2, <1>5, <2>1
  <2>2. CASE j # i
    <3>1. j \in DOMAIN slots /\ slots'[j] = slots[j] /\ slots[j].socket # fd
      BY <1>5, <1>8, <2>2
    <3>2. slots[j].callback \in {NoConn, ConnOf(j)}
      BY <3>1 DEF IInv, HandlerOwner
    <3>3. slots[j].socket \in Fds
      BY <3>1, SlotFacts DEF IInv
    <3>4. ConnOf(j)' = ConnOf(j)
      BY <1>1, <3>1, <3>3 DEF ConnOf, IInv, TypeOK
    <3> QED  BY <3>1, <3>2, <3>4
  <2> QED  BY <2>1, <2>2
<1> QED  BY <1>10, <1>11

Receiving == RecvMore \/ RecvBody \/ RecvHead \/ CallbackReturn

\* The receiving steps: the entry they change keeps its socket, state, handler.
LEMMA RecvEntry ==
  ASSUME IInv, Receiving
  PROVE  /\ cur \in DOMAIN slots /\ UNCHANGED kernel
         /\ \E s \in SlotType :
              /\ slots' = [slots EXCEPT ![cur] = s]
              /\ s.socket = slots[cur].socket /\ s.state = slots[cur].state
              /\ s.callback = slots[cur].callback
<1>1. ASSUME Readable  PROVE cur \in DOMAIN slots /\ Cache \in Seq(Byte)
  BY <1>1, CountType DEF IInv
<1>2. CASE RecvMore \/ RecvBody
  <2>1. Readable /\ slots' = [slots EXCEPT ![cur].datacache = Cache] /\ UNCHANGED kernel
    BY <1>2 DEF RecvMore, RecvBody
  <2> DEFINE s == [slots[cur] EXCEPT !.datacache = Cache]
  <2>2. cur \in DOMAIN slots /\ slots' = [slots EXCEPT ![cur] = s]
    BY <1>1, <2>1
  <2>3. /\ s \in SlotType /\ s.socket = slots[cur].socket
        /\ s.state = slots[cur].state /\ s.callback = slots[cur].callback
    BY <1>1, <2>1, EntryData DEF IInv
  <2> HIDE DEF s
  <2> QED  BY <2>1, <2>2, <2>3
<1>3. CASE RecvHead \/ CallbackReturn
  <2>1. PICK n \in Int :
           /\ cur \in DOMAIN slots /\ UNCHANGED kernel
           /\ slots' = [slots EXCEPT ![cur].datacache = << >>, ![cur].explen = n]
    <3>1. CASE RecvHead
      BY <1>1, <3>1, LengthType DEF RecvHead
    <3>2. CASE CallbackReturn
      <4>1. cur \in DOMAIN slots
        BY <3>2 DEF CallbackReturn, IInv, TypeOK
      <4>2. /\ slots' = [slots EXCEPT ![cur].datacache = << >>, ![cur].explen = 0]
            /\ UNCHANGED kernel
        BY <3>2 DEF CallbackReturn
      <4>3. 0 \in Int
        OBVIOUS
      <4> QED  BY ONLY <4>1, <4>2, <4>3
    <3> QED  BY <1>3, <3>1, <3>2
  <2> DEFINE s == [slots[cur] EXCEPT !.datacache = << >>, !.explen = n]
  <2>2. slots' = [slots EXCEPT ![cur] = s]
    BY <2>1
  <2>3. /\ s \in SlotType /\ s.socket = slots[cur].socket
        /\ s.state = slots[cur].state /\ s.callback = slots[cur].callback
    BY <2>1, EmptyBytes, EntryData DEF IInv
  <2> HIDE DEF s
  <2> QED  BY <2>1, <2>2, <2>3
<1> QED  BY <1>2, <1>3 DEF Receiving

\* TableIntegrity and HandlerOwner survive every step of the loop.
LEMMA ServerIntegrity ==
  ASSUME IInv, ServerStep
  PROVE  TableIntegrity' /\ HandlerOwner'
<1>1. ASSUME UNCHANGED <<slots, open, peer>>
      PROVE  TableIntegrity' /\ HandlerOwner'
  BY <1>1 DEF IInv, TableIntegrity, HandlerOwner, ConnOf
<1>2. CASE AcceptNone \/ ScanEnd \/ ScanSkip \/ ScanReceive \/ RecvNothing
  BY <1>1, <1>2
     DEF AcceptNone, ScanEnd, ScanSkip, ScanReceive, RecvNothing, kernel
<1>3. CASE Accept
  BY <1>3, AcceptIntegrity
<1>4. ASSUME NEW s \in SlotType, cur \in DOMAIN slots,
             slots' = [slots EXCEPT ![cur] = s],
             s.socket = slots[cur].socket, s.state = slots[cur].state,
             s.callback = slots[cur].callback, UNCHANGED kernel
      PROVE  TableIntegrity' /\ HandlerOwner'
  <2>1. s.state = CONNECTED => s.callback \in {NoConn, ConnOf(cur)}
    BY <1>4 DEF IInv, HandlerOwner
  <2> QED  BY <1>4, <2>1, EntryIntegrity DEF kernel
<1>5. CASE Receiving
  BY <1>4, <1>5, RecvEntry
<1>6. CASE RecvError
  <2>1. cur \in DOMAIN slots /\ CloseClient(cur) /\ peer' = peer
    BY <1>6 DEF RecvError, IInv, TypeOK
  <2>2. \A j \in 1..(cur - 1) : slots[j].socket # slots[cur].socket
    BY <1>6, <2>1 DEF RecvError, IInv, TableIntegrity, RecvOnLive
  <2> QED  BY <2>1, <2>2, CloseIntegrity
<1> QED
  BY <1>2, <1>3, <1>5, <1>6 DEF ServerStep, Receiving

LEMMA AppIntegrity ==
  ASSUME IInv, AppStep
  PROVE  TableIntegrity' /\ HandlerOwner'
<1>1. PICK t \in Fds : RegisterFunction(t) \/ SendFails(t) \/ CloseConnection(t)
  BY DEF AppStep
<1>2. ASSUME NEW i \in FindSocketID(slots, t)
      PROVE  /\ i \in DOMAIN slots /\ slots[i].socket = t
             /\ \A j \in 1..(i - 1) : slots[j].socket # slots[i].socket
  BY <1>2 DEF FindSocketID
<1>3. CASE RegisterFunction(t)
  <2>1. PICK i \in FindSocketID(slots, t) : slots' = [slots EXCEPT ![i].callback = peer[t]]
    BY <1>3 DEF RegisterFunction
  <2> DEFINE s == [slots[i] EXCEPT !.callback = peer[t]]
  <2>2. slots' = [slots EXCEPT ![i] = s] /\ peer[t] \in Conns \union {NoConn}
    BY <2>1 DEF IInv, TypeOK
  <2>3. /\ s \in SlotType /\ s.socket = slots[i].socket
        /\ s.state = slots[i].state /\ s.callback = peer[t]
    BY <1>2, <2>2, SlotFacts DEF SlotType, IInv
  <2>4. ConnOf(i) = peer[t] /\ open' = open /\ peer' = peer
    BY <1>2, <1>3 DEF ConnOf, RegisterFunction, kernel
  <2> HIDE DEF s
  <2> QED  BY <1>2, <2>2, <2>3, <2>4, EntryIntegrity
<1>4. CASE SendFails(t)
  <2>1. PICK i \in FindSocketID(slots, t) : slots' = [slots EXCEPT ![i].state = CLOSED]
    BY <1>4 DEF SendFails
  <2> DEFINE s == [slots[i] EXCEPT !.state = CLOSED]
  <2>2. slots' = [slots EXCEPT ![i] = s]
    BY <2>1
  <2>3. s \in SlotType /\ s.socket = slots[i].socket /\ s.state = CLOSED
    BY <1>2, SlotFacts DEF SlotType, IInv
  <2>4. open' = open /\ peer' = peer /\ CLOSED # CONNECTED
    BY <1>4 DEF SendFails, kernel, CLOSED, CONNECTED
  <2> HIDE DEF s
  <2> QED  BY <1>2, <2>2, <2>3, <2>4, EntryIntegrity
<1>5. CASE CloseConnection(t)
  <2>1. PICK i \in FindSocketID(slots, t) : CloseClient(i)
    BY <1>5 DEF CloseConnection
  <2> QED  BY <1>2, <1>5, <2>1, CloseIntegrity DEF CloseConnection
<1> QED  BY <1>1, <1>3, <1>4, <1>5

\* ReceiveData runs on live slots only.
LEMMA RecvOnLiveStep ==
  ASSUME IInv, [Next]_vars
  PROVE  RecvOnLive'
<1>1. ASSUME UNCHANGED <<slots, pc, cur>>  PROVE RecvOnLive'
  BY <1>1 DEF IInv, RecvOnLive
<1>2. CASE ServerStep
  <2>1. CASE pc' # "recv"
    BY <2>1 DEF RecvOnLive
  <2>2. CASE ScanReceive
    BY <2>2 DEF ScanReceive, RecvOnLive
  <2>3. CASE RecvMore
    <3>1. pc = "recv" /\ pc' = pc /\ cur' = cur /\ Readable
      BY <2>3 DEF RecvMore, Readable
    <3>2. cur \in DOMAIN slots /\ slots \in Seq(SlotType)
      BY <3>1 DEF IInv, TypeOK
    <3>3. slots'[cur].state = slots[cur].state
      <4>1. slots' = [slots EXCEPT ![cur] = [slots[cur] EXCEPT !.datacache = Cache]]
        BY <2>3 DEF RecvMore
      <4>2. [slots[cur] EXCEPT !.datacache = Cache].state = slots[cur].state
        BY <3>1, <3>2, CountType, EntryData DEF IInv
      <4>3. slots'[cur] = [slots[cur] EXCEPT !.datacache = Cache]
        BY <3>2, <4>1
      <4> QED  BY <4>2, <4>3
    <3> QED  BY <3>1, <3>3 DEF IInv, RecvOnLive
  <2> QED
    BY <1>2, <2>1, <2>2, <2>3
       DEF ServerStep, AcceptNone, Accept, BeginTick, ScanEnd, ScanSkip, NextSlot,
           RecvHead, RecvBody, RecvNothing, RecvError, CallbackReturn
<1>3. CASE AppStep
  BY <1>3 DEF AppStep, RegisterFunction, SendFails, CloseConnection, AppRuns,
              loopvars, RecvOnLive
<1>4. CASE ClientStep
  BY <1>1, <1>4 DEF ClientStep, Connect, ClientSend, Arrive, ClientCloses,
                    ClientResets, loopvars
<1>5. CASE UNCHANGED vars
  BY <1>1, <1>5 DEF vars, loopvars
<1> QED  BY <1>2, <1>3, <1>4, <1>5 DEF Next

LEMMA IInvInvariant == Spec => []IInv
<1>1. Init => IInv
  <2>1. Init => TypeOK
    BY TypeInit
  <2>2. Init => TableIntegrity /\ HandlerOwner /\ RecvOnLive
    BY DEF Init, TableIntegrity, HandlerOwner, RecvOnLive
  <2> QED  BY <2>1, <2>2 DEF IInv
<1>2. IInv /\ [Next]_vars => IInv'
  <2> SUFFICES ASSUME IInv, [Next]_vars  PROVE IInv'
    OBVIOUS
  <2>1. TypeOK'
    BY TypeStep DEF IInv
  <2>2. TableIntegrity' /\ HandlerOwner'
    <3>1. CASE ServerStep
      BY <3>1, ServerIntegrity
    <3>2. CASE AppStep
      BY <3>2, AppIntegrity
    <3>3. CASE ClientStep \/ UNCHANGED vars
      <4>1. UNCHANGED <<slots, open, peer>>
        BY <3>3 DEF ClientStep, Connect, ClientSend, Arrive, ClientCloses,
                    ClientResets, vars, kernel
      <4> QED  BY <4>1 DEF IInv, TableIntegrity, HandlerOwner, ConnOf
    <3> QED  BY <3>1, <3>2, <3>3 DEF Next
  <2>3. RecvOnLive'
    BY RecvOnLiveStep
  <2> QED  BY <2>1, <2>2, <2>3 DEF IInv
<1> QED  BY <1>1, <1>2, PTL DEF Spec

\* A live slot holds an open descriptor and is the first slot that carries it, so
\* that Send, RegisterFunction and CloseConnection find a client by its socket.
THEOREM TableIntegrityHolds == Spec => []TableIntegrity
<1>1. IInv => TableIntegrity
  BY DEF IInv
<1> QED  BY <1>1, IInvInvariant, PTL

\* No live slot holds the handler registered for an earlier connection.
THEOREM HandlerOwnerHolds == Spec => []HandlerOwner
<1>1. IInv => HandlerOwner
  BY DEF IInv
<1> QED  BY <1>1, IInvInvariant, PTL
----------------------------------------------------------------------------
(* Descriptors are lost only by failing sends.                             *)

\* One entry of the table changes, and its descriptor may be closed or be lost.
EntryStep ==
  \E i \in DOMAIN slots, s \in SlotType :
    /\ slots' = [slots EXCEPT ![i] = s]
    /\ s.socket = slots[i].socket /\ peer' = peer
    /\ \/ open' = open /\ failed' = failed /\ s.state = slots[i].state
       \/ open' = open \ {slots[i].socket} /\ failed' = failed
       \/ open' = open /\ failed' = failed \union {ConnOf(i)}

\* What a step of the server or the application can do to the table: nothing,
\* take in a client, or change one entry.
LEMMA StepShape ==
  ASSUME IInv, ServerStep \/ AppStep
  PROVE  \/ UNCHANGED <<slots, open, peer, failed>>
         \/ Accept /\ failed' = failed
         \/ EntryStep
<1>1. CASE AcceptNone \/ ScanEnd \/ ScanSkip \/ ScanReceive \/ RecvNothing
  BY <1>1 DEF AcceptNone, ScanEnd, ScanSkip, ScanReceive, RecvNothing, kernel, ghosts
<1>2. CASE Accept
  BY <1>2 DEF Accept, ghosts
<1>3. ASSUME NEW i \in DOMAIN slots, CloseClient(i), peer' = peer, failed' = failed
      PROVE  EntryStep
  <2> DEFINE s == InitSock(slots[i])
  <2>1. s \in SlotType /\ s.socket = slots[i].socket
    BY SlotFacts, InitSockType DEF IInv
  <2>2. slots' = [slots EXCEPT ![i] = s] /\ open' = open \ {slots[i].socket}
    BY <1>3 DEF CloseClient
  <2> HIDE DEF s
  <2> QED  BY <1>3, <2>1, <2>2 DEF EntryStep
<1>4. ASSUME NEW i \in DOMAIN slots, NEW s \in SlotType,
             slots' = [slots EXCEPT ![i] = s], s.socket = slots[i].socket,
             s.state = slots[i].state, UNCHANGED <<open, peer, failed>>
      PROVE  EntryStep
  BY <1>4 DEF EntryStep
<1>5. CASE Receiving
  <2>1. UNCHANGED failed
    BY <1>5 DEF Receiving, RecvMore, RecvBody, RecvHead, CallbackReturn, ghosts
  <2> QED  BY <1>4, <1>5, <2>1, RecvEntry DEF kernel
<1>6. CASE RecvError
  <2>1. cur \in DOMAIN slots /\ CloseClient(cur) /\ peer' = peer /\ failed' = failed
    BY <1>6 DEF RecvError, IInv, TypeOK
  <2> QED  BY <1>3, <2>1
<1>7. CASE AppStep
  <2>1. PICK t \in Fds : RegisterFunction(t) \/ SendFails(t) \/ CloseConnection(t)
    BY <1>7 DEF AppStep
  <2>2. FindSocketID(slots, t) \subseteq DOMAIN slots
    BY DEF FindSocketID
  <2>3. CASE RegisterFunction(t)
    <3>1. PICK i \in FindSocketID(slots, t) : slots' = [slots EXCEPT ![i].callback = peer[t]]
      BY <2>3 DEF RegisterFunction
    <3> DEFINE s == [slots[i] EXCEPT !.callback = peer[t]]
    <3>2. slots' = [slots EXCEPT ![i] = s] /\ peer[t] \in Conns \union {NoConn}
      BY <3>1 DEF IInv, TypeOK
    <3>3. s \in SlotType /\ s.socket = slots[i].socket /\ s.state = slots[i].state
      BY <2>2, <3>2, SlotFacts DEF SlotType, IInv
    <3>4. UNCHANGED <<open, peer, failed>>
      BY <2>3 DEF RegisterFunction, kernel, ghosts
    <3> HIDE DEF s
    <3> QED  BY <1>4, <2>2, <3>2, <3>3, <3>4
  <2>4. CASE SendFails(t)
    <3>1. PICK i \in FindSocketID(slots, t) :
             /\ slots' = [slots EXCEPT ![i].state = CLOSED]
             /\ failed' = failed \union {ConnOf(i)}
      BY <2>4 DEF SendFails
    <3> DEFINE s == [slots[i] EXCEPT !.state = CLOSED]
    <3>2. slots' = [slots EXCEPT ![i] = s]
      BY <3>1
    <3>3. s \in SlotType /\ s.socket = slots[i].socket
      BY <2>2, SlotFacts DEF SlotType, IInv
    <3>4. open' = open /\ peer' = peer
      BY <2>4 DEF SendFails, kernel
    <3> HIDE DEF s
    <3> QED  BY <2>2, <3>1, <3>2, <3>3, <3>4 DEF EntryStep
  <2>5. CASE CloseConnection(t)
    <3>1. PICK i \in FindSocketID(slots, t) : CloseClient(i)
      BY <2>5 DEF CloseConnection
    <3> QED  BY <1>3, <2>2, <2>5, <3>1 DEF CloseConnection
  <2> QED  BY <2>1, <2>3, <2>4, <2>5
<1> QED
  BY <1>1, <1>2, <1>5, <1>6, <1>7 DEF ServerStep, Receiving

LEMMA LeakStep ==
  ASSUME IInv, LeakOnlyBySend, [Next]_vars
  PROVE  LeakOnlyBySend'
<1> SUFFICES ASSUME NEW fd \in open',
                    ~ (\E j \in DOMAIN slots' : Live(j)' /\ slots'[j].socket = fd)
             PROVE  peer'[fd] \in failed'
  BY DEF LeakOnlyBySend
<1>1. ASSUME fd \in open
      PROVE  \/ \E j \in DOMAIN slots : slots[j].state = CONNECTED /\ slots[j].socket = fd
             \/ peer[fd] \in failed
  BY <1>1 DEF LeakOnlyBySend, Live
<1>2. \A j \in DOMAIN slots' : slots'[j].state = CONNECTED => slots'[j].socket # fd
  BY DEF Live
<1>3. slots \in Seq(SlotType)
  BY DEF IInv, TypeOK
<1>4. CASE UNCHANGED <<slots, open, peer, failed>>
  BY <1>1, <1>2, <1>4
<1>5. CASE Accept /\ failed' = failed
  <2>1. PICK new \in Fds, i \in FreeSlot(slots) :
           /\ slots' = PutSlot(slots, i, NewSock(new))
           /\ peer' = [peer EXCEPT ![new] = Head(backlog)]
           /\ open' = open \union {new}
    BY <1>5 DEF Accept
  <2>2. /\ NewSock(new) \in SlotType /\ NewSock(new).socket = new
        /\ NewSock(new).state = CONNECTED
    BY EmptyBytes DEF NewSock, SlotType
  <2>3. /\ i \in DOMAIN slots'
        /\ slots'[i] = NewSock(new)
    BY <1>3, <2>1, <2>2, PutSlotProperties
  <2>4. fd # new /\ fd \in open
    BY <1>2, <2>1, <2>2, <2>3
  <2>5. \A j \in DOMAIN slots : slots[j].state = CONNECTED =>
           j \in DOMAIN slots' /\ slots'[j] = slots[j]
    <3>1. \A j \in DOMAIN slots : slots[j].state = CONNECTED => j # i
      BY <1>3, LenProperties DEF FreeSlot, CLOSED, CONNECTED
    <3> QED  BY <1>3, <2>1, <3>1 DEF PutSlot
  <2>6. peer[fd] \in failed
    BY <1>1, <1>2, <2>4, <2>5
  <2> QED  BY <1>5, <2>1, <2>4, <2>6 DEF IInv, TypeOK
<1>6. ASSUME NEW i \in DOMAIN slots, NEW s \in SlotType,
             slots' = [slots EXCEPT ![i] = s],
             s.socket = slots[i].socket, peer' = peer,
             \/ open' = open /\ failed' = failed /\ s.state = slots[i].state
             \/ open' = open \ {slots[i].socket} /\ failed' = failed
             \/ open' = open /\ failed' = failed \union {ConnOf(i)}
      PROVE  peer'[fd] \in failed'
  <2>1. /\ DOMAIN slots' = DOMAIN slots
        /\ \A j \in DOMAIN slots : slots'[j] = IF j = i THEN s ELSE slots[j]
    BY <1>3, <1>6
  <2>2. fd \in open /\ failed \subseteq failed'
    BY <1>6
  <2>3. CASE \E j \in DOMAIN slots : slots[j].state = CONNECTED /\ slots[j].socket = fd
    <3>1. slots[i].state = CONNECTED /\ slots[i].socket = fd /\ s.state # CONNECTED
      BY <1>2, <1>6, <2>1, <2>3
    <3> QED  BY <1>6, <3>1 DEF ConnOf
  <2> QED  BY <1>1, <1>6, <2>2, <2>3
<1>7. CASE ServerStep \/ AppStep
  BY <1>4, <1>5, <1>6, <1>7, StepShape DEF EntryStep
<1>8. CASE ClientStep \/ UNCHANGED vars
  <2>1. UNCHANGED <<slots, open, peer, failed>>
    BY <1>8 DEF ClientStep, Connect, ClientSend, Arrive, ClientCloses,
                ClientResets, vars, kernel, ghosts
  <2> QED  BY <1>4, <2>1
<1> QED  BY <1>7, <1>8 DEF Next

\* Whatever slots and descriptors are reused, a descriptor that is open and served
\* by no live slot is one on which a send() failed.
THEOREM LeakOnlyBySendHolds == Spec => []LeakOnlyBySend
<1>1. Init => LeakOnlyBySend
  BY DEF Init, LeakOnlyBySend
<1>2. IInv /\ LeakOnlyBySend /\ [Next]_vars => LeakOnlyBySend'
  BY LeakStep
<1> QED  BY <1>1, <1>2, IInvInvariant, PTL DEF Spec

----------------------------------------------------------------------------
(* The connections behind the table.  A connection is known to the server  *)
(* only as the peer of a descriptor, and numbers are used again; what has  *)
(* to be known is that the kernel hands each connection out once.          *)

\* The connections live slots serve.
Served == {ConnOf(i) : i \in {j \in DOMAIN slots : slots[j].state = CONNECTED}}

\* Waiting to be accepted.
Queued == {backlog[k] : k \in DOMAIN backlog}

\* Nothing has happened to c yet.
Unseen(c) == closed[c] = 0 /\ c \notin failed /\ \A fd \in Fds : peer[fd] # c

\* No two descriptors, nor two places of the queue, stand for one connection, and
\* one that waits there, or has not called yet, is unknown to the server.
AcceptedOnce ==
    /\ \A f, g \in Fds : peer[f] = peer[g] /\ f # g => peer[f] = NoConn
    /\ \A k, l \in DOMAIN backlog : backlog[k] = backlog[l] => k = l
    /\ \A c \in Queued : Unseen(c) /\ link[c] # "none"
    /\ \A c \in Conns : link[c] = "none" => Unseen(c)

\* What a step does to the connections served: none, the first waiting one is
\* taken in, c is closed and reported, or a send on c failed.
Steady == /\ Served' \subseteq Served
          /\ UNCHANGED <<peer, backlog, closed, failed>>

TakesIn == /\ backlog # << >> /\ backlog' = Tail(backlog)
           /\ Served' \subseteq Served \union {Head(backlog)}
           /\ \E fd \in Fds : peer' = [peer EXCEPT ![fd] = Head(backlog)]
           /\ UNCHANGED <<closed, failed>>

Closes(c) == /\ closed[c] = 0 /\ closed' = [closed EXCEPT ![c] = 1]
             /\ Served' \subseteq Served \ {c}
             /\ \E fd \in Fds : peer[fd] = c
             /\ UNCHANGED <<peer, backlog, failed>>

Fails(c) == /\ c \in Served /\ failed' = failed \union {c}
            /\ Served' \subseteq Served \ {c}
            /\ UNCHANGED <<peer, backlog, closed>>

\* The inductive invariant of this section.
ConnInv == IInv /\ AcceptedOnce /\ DisconnectOnce

\* The invariant about Served in place of slots.
LEMMA OnceServed ==
  DisconnectOnce <=>
     \A c \in Conns : /\ closed[c] <= 1
                      /\ closed[c] = 1 \/ c \in failed => c \notin Served
BY DEF DisconnectOnce, Served, Live

\* A slot that is the first to carry its descriptor stands alone for its
\* connection: no other live slot serves it.
LEMMA ServedAlone ==
  ASSUME IInv, AcceptedOnce, NEW i \in DOMAIN slots,
         \A k \in 1..(i - 1) : slots[k].socket # slots[i].socket,
         NEW j \in DOMAIN slots, slots[j].state = CONNECTED, ConnOf(j) = ConnOf(i)
  PROVE  j = i
<1>1. slots[i].socket \in Fds /\ slots[j].socket \in Fds
  BY SlotFacts DEF IInv
<1>2. ConnOf(i) \in Conns /\ ConnOf(i) # NoConn
  BY NoConnAssumption DEF IInv, TypeOK
<1>3. slots[i].socket = slots[j].socket
  BY <1>1, <1>2 DEF AcceptedOnce, ConnOf
<1>4. DOMAIN slots = 1..Len(slots) /\ Len(slots) \in Nat
  BY LenProperties DEF IInv, TypeOK
<1>5. \A k \in 1..(j - 1) : slots[k].socket # slots[j].socket
  BY DEF IInv, TableIntegrity
<1>6. CASE i < j
  BY <1>3, <1>4, <1>5, <1>6
<1>7. CASE j < i
  BY <1>3, <1>4, <1>7
<1> QED  BY <1>4, <1>6, <1>7

\* An entry that keeps its descriptor and does not come to life leaves the other
\* slots' connections served, and its own only if it lives.
LEMMA EntryServed ==
  ASSUME IInv, NEW i \in DOMAIN slots, NEW s \in SlotType,
         slots' = [slots EXCEPT ![i] = s], s.socket = slots[i].socket,
         s.state = CONNECTED => slots[i].state = CONNECTED, peer' = peer
  PROVE  /\ Served' \subseteq Served
         /\ \A j \in DOMAIN slots : slots'[j].state = CONNECTED =>
               slots[j].state = CONNECTED /\ ConnOf(j)' = ConnOf(j)
         /\ DOMAIN slots' = DOMAIN slots
         /\ slots'[i] = s
<1>1. /\ DOMAIN slots' = DOMAIN slots
      /\ \A j \in DOMAIN slots : slots'[j] = IF j = i THEN s ELSE slots[j]
  BY DEF IInv, TypeOK
<1>2. \A j \in DOMAIN slots : ConnOf(j)' = ConnOf(j)
  BY <1>1 DEF ConnOf
<1>3. \A j \in DOMAIN slots : slots'[j].state = CONNECTED => slots[j].state = CONNECTED
  BY <1>1
<1>4. Served' \subseteq Served
  BY <1>1, <1>2, <1>3 DEF Served
<1> QED  BY <1>1, <1>2, <1>3, <1>4

\* An entry dies that is the first to carry its descriptor: nobody serves its
\* connection any more.
LEMMA EntryDies ==
  ASSUME IInv, AcceptedOnce, NEW i \in DOMAIN slots, NEW s \in SlotType,
         slots' = [slots EXCEPT ![i] = s], s.socket = slots[i].socket,
         s.state = CLOSED, peer' = peer,
         \A k \in 1..(i - 1) : slots[k].socket # slots[i].socket
  PROVE  Served' \subseteq Served \ {ConnOf(i)}
<1>1. s.state # CONNECTED
  BY DEF CLOSED, CONNECTED
<1>2. /\ Served' \subseteq Served
      /\ \A j \in DOMAIN slots : slots'[j].state = CONNECTED =>
            slots[j].state = CONNECTED /\ ConnOf(j)' = ConnOf(j)
      /\ DOMAIN slots' = DOMAIN slots
      /\ slots'[i] = s
  BY <1>1, EntryServed
<1>3. ASSUME NEW j \in DOMAIN slots, slots'[j].state = CONNECTED
      PROVE  ConnOf(j)' # ConnOf(i)
  BY <1>1, <1>2, <1>3, ServedAlone
<1> QED  BY <1>2, <1>3 DEF Served

\* CloseClient on such a slot, when nothing was reported yet.
LEMMA CloseServed ==
  ASSUME IInv, AcceptedOnce, NEW i \in DOMAIN slots, CloseClient(i),
         closed[ConnOf(i)] = 0, UNCHANGED <<peer, backlog, failed>>,
         \A k \in 1..(i - 1) : slots[k].socket # slots[i].socket
  PROVE  ConnOf(i) \in Conns /\ Closes(ConnOf(i))
<1> DEFINE s == InitSock(slots[i])
<1>1. s \in SlotType /\ s.socket = slots[i].socket /\ s.state = CLOSED
  BY SlotFacts, InitSockType DEF IInv
<1>2. slots' = [slots EXCEPT ![i] = s]
  BY DEF CloseClient
<1> HIDE DEF s
<1>3. Served' \subseteq Served \ {ConnOf(i)}
  BY <1>1, <1>2, EntryDies
<1>4. closed' = [closed EXCEPT ![ConnOf(i)] = 1]
  BY DEF CloseClient
<1>5. \E fd \in Fds : peer[fd] = ConnOf(i)
  BY SlotFacts DEF ConnOf, IInv
<1> QED  BY <1>3, <1>4, <1>5 DEF Closes, IInv, TypeOK

\* Accept() puts the first waiting connection on a slot nothing live is on.
LEMMA AcceptSlots ==
  ASSUME IInv, Accept
  PROVE  \E fd \in Fds, i \in FreeSlot(slots) :
           /\ peer' = [peer EXCEPT ![fd] = Head(backlog)]
           /\ slots'[i] = NewSock(fd) /\ ConnOf(i)' = Head(backlog)
           /\ \A j \in DOMAIN slots' : j # i /\ slots'[j].state = CONNECTED =>
                /\ j \in DOMAIN slots /\ slots'[j] = slots[j]
                /\ slots[j].state = CONNECTED /\ ConnOf(j)' = ConnOf(j)
<1>1. PICK fd \in Fds, i \in FreeSlot(slots) :
         /\ fd \notin open
         /\ slots' = PutSlot(slots, i, NewSock(fd))
         /\ peer' = [peer EXCEPT ![fd] = Head(backlog)]
  BY DEF Accept, Unused
<1>2. slots \in Seq(SlotType) /\ NewSock(fd) \in SlotType /\ NewSock(fd).socket = fd
  BY EmptyBytes DEF IInv, TypeOK, NewSock, SlotType
<1>3. /\ DOMAIN slots' \subseteq DOMAIN slots \union {i}
      /\ slots'[i] = NewSock(fd)
      /\ \A j \in DOMAIN slots : j # i => slots'[j] = slots[j]
  BY <1>1, <1>2, PutSlotProperties, LenProperties DEF PutSlot, FreeSlot
<1>4. ConnOf(i)' = Head(backlog)
  BY <1>1, <1>2, <1>3 DEF ConnOf, IInv, TypeOK
<1>5. ASSUME NEW j \in DOMAIN slots', j # i, slots'[j].state = CONNECTED
      PROVE  /\ j \in DOMAIN slots /\ slots'[j] = slots[j]
             /\ slots[j].state = CONNECTED /\ ConnOf(j)' = ConnOf(j)
  <2>1. j \in DOMAIN slots /\ slots'[j] = slots[j]
    BY <1>3, <1>5
  <2>2. slots[j].socket \in open /\ slots[j].socket # fd
    BY <1>1, <1>5, <2>1 DEF IInv, TableIntegrity
  <2> QED  BY <1>1, <1>5, <2>1, <2>2 DEF ConnOf, IInv, TypeOK
<1> QED  BY <1>1, <1>3, <1>4, <1>5

\* So it serves that connection and none that was not served.
LEMMA AcceptServed ==
  ASSUME IInv, Accept
  PROVE  TakesIn
<1>1. PICK fd \in Fds, i \in FreeSlot(slots) :
        /\ peer' = [peer EXCEPT ![fd] = Head(backlog)]
        /\ ConnOf(i)' = Head(backlog)
        /\ \A j \in DOMAIN slots' : j # i /\ slots'[j].state = CONNECTED =>
             j \in DOMAIN slots /\ slots[j].state = CONNECTED /\ ConnOf(j)' = ConnOf(j)
  BY AcceptSlots
<1>2. Served' \subseteq Served \union {Head(backlog)}
  BY <1>1 DEF Served
<1> QED  BY <1>1, <1>2 DEF Accept, TakesIn, ghosts

\* Every step of the server is one of these.
LEMMA ServerServes ==
  ASSUME ConnInv, ServerStep
  PROVE  Steady \/ TakesIn \/ \E c \in Conns : Closes(c)
<1> USE DEF ConnInv
<1>1. CASE AcceptNone \/ ScanEnd \/ ScanSkip \/ ScanReceive \/ RecvNothing
  <2>1. UNCHANGED <<slots, peer, backlog, closed, failed>>
    BY <1>1 DEF AcceptNone, ScanEnd, ScanSkip, ScanReceive, RecvNothing, kernel, ghosts
  <2> QED  BY <2>1 DEF Steady, Served, ConnOf
<1>2. CASE Accept
  BY <1>2, AcceptServed
<1>3. CASE Receiving
  <2>1. UNCHANGED <<closed, failed, kernel>>
    BY <1>3, RecvEntry DEF Receiving, RecvMore, RecvBody, RecvHead, CallbackReturn, ghosts
  <2>2. cur \in DOMAIN slots /\ \E s \in SlotType :
          /\ slots' = [slots EXCEPT ![cur] = s]
          /\ s.socket = slots[cur].socket /\ s.state = slots[cur].state
    BY <1>3, RecvEntry
  <2>3. Served' \subseteq Served
    BY <2>1, <2>2, EntryServed DEF kernel
  <2> QED  BY <2>1, <2>3 DEF Steady, kernel
<1>4. CASE RecvError
  <2>1. /\ cur \in DOMAIN slots /\ CloseClient(cur)
        /\ UNCHANGED <<peer, backlog, failed>>
        /\ slots[cur].state = CONNECTED
    BY <1>4 DEF RecvError, IInv, TypeOK, RecvOnLive
  <2>2. \A k \in 1..(cur - 1) : slots[k].socket # slots[cur].socket
    BY <2>1 DEF IInv, TableIntegrity
  <2>3. ConnOf(cur) \in Conns /\ closed[ConnOf(cur)] \in Nat
    BY <2>1 DEF IInv, TypeOK
  <2>4. closed[ConnOf(cur)] = 0
    BY <2>1, <2>3 DEF DisconnectOnce, Live
  <2> QED  BY <2>1, <2>2, <2>4, CloseServed
<1> QED  BY <1>1, <1>2, <1>3, <1>4 DEF ServerStep, Receiving

\* And every step of the application.
LEMMA AppServes ==
  ASSUME ConnInv, AppStep
  PROVE  Steady \/ \E c \in Conns : Closes(c) \/ Fails(c)
<1> USE DEF ConnInv
<1>1. PICK t \in Fds : RegisterFunction(t) \/ SendFails(t) \/ CloseConnection(t)
  BY DEF AppStep
<1>2. ASSUME NEW i \in FindSocketID(slots, t)
      PROVE  i \in DOMAIN slots /\ \A k \in 1..(i - 1) : slots[k].socket # slots[i].socket
  BY <1>2 DEF FindSocketID
<1>3. CASE RegisterFunction(t)
  <2>1. PICK i \in FindSocketID(slots, t) : slots' = [slots EXCEPT ![i].callback = peer[t]]
    BY <1>3 DEF RegisterFunction
  <2> DEFINE s == [slots[i] EXCEPT !.callback = peer[t]]
  <2>2. slots' = [slots EXCEPT ![i] = s] /\ peer[t] \in Conns \union {NoConn}
    BY <2>1 DEF IInv, TypeOK
  <2>3. s \in SlotType /\ s.socket = slots[i].socket /\ s.state = slots[i].state
    BY <1>2, <2>2, SlotFacts DEF SlotType, IInv
  <2>4. UNCHANGED <<peer, backlog, closed, failed>>
    BY <1>3 DEF RegisterFunction, kernel, ghosts
  <2> HIDE DEF s
  <2>5. Served' \subseteq Served
    BY <1>2, <2>2, <2>3, <2>4, EntryServed
  <2> QED  BY <2>4, <2>5 DEF Steady
<1>4. CASE SendFails(t)
  <2>1. PICK i \in FindSocketID(slots, t) :
          /\ slots[i].state = CONNECTED
          /\ slots' = [slots EXCEPT ![i].state = CLOSED]
          /\ failed' = failed \union {ConnOf(i)}
    BY <1>4 DEF SendFails
  <2> DEFINE s == [slots[i] EXCEPT !.state = CLOSED]
  <2>2. slots' = [slots EXCEPT ![i] = s]
    BY <2>1
  <2>3. s \in SlotType /\ s.socket = slots[i].socket /\ s.state = CLOSED
    BY <1>2, SlotFacts DEF SlotType, IInv
  <2>4. UNCHANGED <<peer, backlog, closed>>
    BY <1>4 DEF SendFails, kernel
  <2> HIDE DEF s
  <2>5. Served' \subseteq Served \ {ConnOf(i)}
    BY <1>2, <2>2, <2>3, <2>4, EntryDies
  <2>6. ConnOf(i) \in Conns /\ ConnOf(i) \in Served
    BY <1>2, <2>1 DEF Served, IInv, TypeOK
  <2> QED  BY <2>1, <2>4, <2>5, <2>6 DEF Fails
<1>5. CASE CloseConnection(t)
  <2>1. PICK i \in FindSocketID(slots, t) : closed[ConnOf(i)] = 0 /\ CloseClient(i)
    BY <1>5 DEF CloseConnection
  <2>2. UNCHANGED <<peer, backlog, failed>>
    BY <1>5 DEF CloseConnection
  <2> QED  BY <1>2, <2>1, <2>2, CloseServed
<1> QED  BY <1>1, <1>3, <1>4, <1>5

\* A live slot's connection has been accepted.
LEMMA ServedSeen ==
  ASSUME IInv, NEW c \in Served
  PROVE  c \in Conns /\ \E fd \in Fds : peer[fd] = c
BY SlotFacts DEF Served, ConnOf, IInv, TypeOK

\* What those steps and the clients' do to the invariant.
LEMMA SteadyOnce ==
  ASSUME ConnInv, Steady, link' = link
  PROVE  AcceptedOnce' /\ DisconnectOnce'
<1>1. AcceptedOnce'
  BY DEF ConnInv, Steady, AcceptedOnce, Queued, Unseen
<1>2. DisconnectOnce'
  BY OnceServed DEF ConnInv, Steady, DisconnectOnce, Served, Live
<1> QED  BY <1>1, <1>2

LEMMA TakesInOnce ==
  ASSUME ConnInv, TakesIn, link' = link
  PROVE  AcceptedOnce' /\ DisconnectOnce'
<1> DEFINE c == Head(backlog)
<1>1. backlog \in Seq(Conns) /\ backlog # << >> /\ c \in Conns /\ c = backlog[1]
  BY HeadTailProperties DEF ConnInv, IInv, TypeOK, TakesIn
<1>2. c \in Queued /\ Unseen(c) /\ link[c] # "none"
  BY <1>1, LenProperties, EmptySeq DEF Queued, ConnInv, AcceptedOnce
<1>3. PICK fd \in Fds : peer' = [peer EXCEPT ![fd] = c]
  BY DEF TakesIn
<1>4. \A f \in Fds : peer'[f] = IF f = fd THEN c ELSE peer[f]
  BY <1>3 DEF ConnInv, IInv, TypeOK
<1>5. /\ DOMAIN backlog' = 1..(Len(backlog) - 1)
      /\ \A k \in 1..(Len(backlog) - 1) : backlog'[k] = backlog[k + 1]
      /\ Len(backlog) \in Nat /\ DOMAIN backlog = 1..Len(backlog)
  BY <1>1, HeadTailProperties DEF TakesIn
<1>6. \A k \in DOMAIN backlog' :
         k + 1 \in DOMAIN backlog /\ 1 \in DOMAIN backlog /\ backlog'[k] = backlog[k + 1]
  BY <1>5
<1>7. \A d \in Queued' : d \in Queued /\ d # c
  <2> SUFFICES ASSUME NEW k \in DOMAIN backlog'
               PROVE  backlog'[k] \in Queued /\ backlog'[k] # c
    BY DEF Queued
  <2>1. backlog[k + 1] # backlog[1]
    BY <1>5, <1>6 DEF ConnInv, AcceptedOnce
  <2> QED  BY <1>1, <1>6, <2>1 DEF Queued
<1> HIDE DEF c
<1>8. AcceptedOnce'
  <2>1. \A f, g \in Fds : peer'[f] = peer'[g] /\ f # g => peer'[f] = NoConn
    BY <1>2, <1>4 DEF Unseen, ConnInv, AcceptedOnce
  <2>2. \A k, l \in DOMAIN backlog' : backlog'[k] = backlog'[l] => k = l
    BY <1>5, <1>6 DEF ConnInv, AcceptedOnce
  <2>3. \A d \in Queued' : Unseen(d)' /\ link'[d] # "none"
    BY <1>4, <1>7 DEF Unseen, ConnInv, AcceptedOnce, TakesIn
  <2>4. \A d \in Conns : link'[d] = "none" => Unseen(d)'
    BY <1>2, <1>4 DEF Unseen, ConnInv, AcceptedOnce, TakesIn
  <2> QED  BY <2>1, <2>2, <2>3, <2>4 DEF AcceptedOnce
<1>9. \A d \in Conns : /\ closed'[d] <= 1
                       /\ closed'[d] = 1 \/ d \in failed' => d \notin Served'
  <2>1. Served' \subseteq Served \union {c} /\ UNCHANGED <<closed, failed>>
    BY DEF TakesIn, c
  <2> QED  BY <1>2, <2>1, OnceServed DEF Unseen, ConnInv
<1> QED  BY <1>8, <1>9 DEF DisconnectOnce, Served, Live

LEMMA EndsOnce ==
  ASSUME ConnInv, NEW c \in Conns, Closes(c) \/ Fails(c), link' = link
  PROVE  AcceptedOnce' /\ DisconnectOnce'
<1>1. /\ \A d \in Conns : d # c => closed'[d] = closed[d] /\ (d \in failed' => d \in failed)
      /\ closed'[c] <= 1
      /\ Served' \subseteq Served \ {c}
      /\ UNCHANGED <<peer, backlog>>
  <2>1. closed \in [Conns -> Nat] /\ closed[c] <= 1
    BY DEF ConnInv, DisconnectOnce, IInv, TypeOK
  <2> QED  BY <2>1 DEF Closes, Fails
<1>2. Queued' = Queued /\ Queued \subseteq Conns
  BY <1>1 DEF Queued, ConnInv, IInv, TypeOK
<1>3. \A d \in Conns : d # c /\ Unseen(d) => Unseen(d)'
  BY <1>1 DEF Unseen
<1>4. \E fd \in Fds : peer[fd] = c
  <2>1. CASE Fails(c)
    BY <2>1, ServedSeen DEF Fails, ConnInv
  <2> QED  BY <2>1 DEF Closes
<1>5. AcceptedOnce'
  <2>1. \A d \in Queued' : Unseen(d)' /\ link'[d] # "none"
    BY <1>2, <1>3, <1>4 DEF Unseen, ConnInv, AcceptedOnce
  <2>2. \A d \in Conns : link'[d] = "none" => Unseen(d)'
    BY <1>3, <1>4 DEF Unseen, ConnInv, AcceptedOnce
  <2> QED  BY <1>1, <2>1, <2>2 DEF ConnInv, AcceptedOnce
<1>6. \A d \in Conns : /\ closed'[d] <= 1
                       /\ closed'[d] = 1 \/ d \in failed' => d \notin Served'
  BY <1>1, OnceServed DEF ConnInv
<1> QED  BY <1>5, <1>6 DEF DisconnectOnce, Served, Live

LEMMA ClientOnce ==
  ASSUME ConnInv, ClientStep
  PROVE  AcceptedOnce' /\ DisconnectOnce'
<1>1. PICK c \in Conns : \/ Connect(c) \/ ClientSend(c) \/ Arrive(c)
                        \/ ClientCloses(c) \/ ClientResets(c)
  BY DEF ClientStep
<1>2. UNCHANGED <<slots, peer, closed, failed>>
  BY <1>1 DEF Connect, ClientSend, Arrive, ClientCloses, ClientResets, kernel, ghosts
<1>3. DisconnectOnce'
  BY <1>2 DEF ConnInv, DisconnectOnce, Live, ConnOf
<1>4. \A d \in Conns : Unseen(d)' <=> Unseen(d)
  BY <1>2 DEF Unseen
<1>5. CASE Connect(c)
  <2>1. link[c] = "none" /\ link' = [link EXCEPT ![c] = "up"] /\ backlog' = Append(backlog, c)
    BY <1>5 DEF Connect
  <2>2. backlog \in Seq(Conns) /\ link \in [Conns -> {"none", "up", "eof", "reset"}]
    BY DEF ConnInv, IInv, TypeOK
  <2>3. /\ DOMAIN backlog' = 1..(Len(backlog) + 1) /\ DOMAIN backlog = 1..Len(backlog)
        /\ \A k \in DOMAIN backlog : k \in DOMAIN backlog' /\ backlog'[k] = backlog[k]
        /\ backlog'[Len(backlog) + 1] = c /\ Len(backlog) \in Nat
    BY <2>1, <2>2, AppendProperties, LenProperties
  <2>4. c \notin Queued /\ Queued \subseteq Conns
    BY <2>1, <2>2 DEF ConnInv, AcceptedOnce, Queued
  <2>5. Queued' \subseteq Queued \union {c}
    BY <2>3 DEF Queued
  <2>6. \A k, l \in DOMAIN backlog' : backlog'[k] = backlog'[l] => k = l
    BY <2>3, <2>4 DEF Queued, ConnInv, AcceptedOnce
  <2>7. \A d \in Queued' : Unseen(d)' /\ link'[d] # "none"
    BY <1>4, <2>1, <2>2, <2>4, <2>5 DEF ConnInv, AcceptedOnce
  <2>8. \A d \in Conns : link'[d] = "none" => Unseen(d)'
    BY <1>4, <2>1, <2>2 DEF ConnInv, AcceptedOnce
  <2> QED  BY <1>2, <1>3, <2>6, <2>7, <2>8 DEF ConnInv, AcceptedOnce
<1>6. CASE ~Connect(c)
  <2>1. backlog' = backlog /\ \A d \in Conns : link'[d] = "none" <=> link[d] = "none"
    BY <1>1, <1>6 DEF ClientSend, Arrive, ClientCloses, ClientResets, kernel,
                      ConnInv, IInv, TypeOK
  <2>2. Queued' = Queued /\ Queued \subseteq Conns
    BY <2>1 DEF Queued, ConnInv, IInv, TypeOK
  <2> QED  BY <1>2, <1>3, <1>4, <2>1, <2>2 DEF ConnInv, AcceptedOnce
<1> QED  BY <1>5, <1>6

LEMMA ConnInvHolds == Spec => []ConnInv
<1>1. Init => AcceptedOnce /\ DisconnectOnce
  <2> SUFFICES ASSUME Init  PROVE AcceptedOnce /\ DisconnectOnce
    OBVIOUS
  <2>1. /\ \A fd \in Fds : peer[fd] = NoConn
        /\ \A c \in Conns : closed[c] = 0 /\ c \notin failed /\ c # NoConn
        /\ DOMAIN backlog = {} /\ DOMAIN slots = {}
    BY NoConnAssumption DEF Init
  <2> QED  BY <2>1 DEF AcceptedOnce, Queued, Unseen, DisconnectOnce
<1>2. ConnInv /\ [Next]_vars => AcceptedOnce' /\ DisconnectOnce'
  <2> SUFFICES ASSUME ConnInv, [Next]_vars  PROVE AcceptedOnce' /\ DisconnectOnce'
    OBVIOUS
  <2>1. CASE ServerStep \/ AppStep
    <3>1. link' = link
      BY <2>1 DEF ServerStep, AcceptNone, Accept, ScanEnd, ScanSkip, ScanReceive, RecvMore,
                  RecvHead, RecvBody, RecvNothing, RecvError, CallbackReturn, AppStep,
                  RegisterFunction, SendFails, CloseConnection, netvars
    <3>2. Steady \/ TakesIn \/ \E c \in Conns : Closes(c) \/ Fails(c)
      BY <2>1, ServerServes, AppServes
    <3> QED  BY <3>1, <3>2, SteadyOnce, TakesInOnce, EndsOnce
  <2>2. CASE ClientStep
    BY <2>2, ClientOnce
  <2>3. CASE UNCHANGED vars
    BY <2>3 DEF vars, kernel, netvars, ghosts, ConnInv, AcceptedOnce, Unseen, Queued,
                DisconnectOnce, Live, ConnOf
  <2> QED  BY <2>1, <2>2, <2>3 DEF Next
<1> QED  BY <1>1, <1>2, IInvInvariant, PTL DEF Spec, ConnInv

\* A connection is reported disconnected at most once, however errors, failed sends
\* and closes by the application fall together (CloseClient, Send, ReceiveData),
\* and no slot serves it afterwards, though its descriptor may be handed out again.
THEOREM DisconnectOnceHolds == Spec => []DisconnectOnce
<1>1. ConnInv => DisconnectOnce
  BY DEF ConnInv
<1> QED  BY <1>1, ConnInvHolds, PTL
----------------------------------------------------------------------------
(* The framing.  The messages ms a client sent lie one behind the other in *)
(* one stream of bytes, all, message n with its header from start[n] on.   *)
(* Some of the stream was read, some waits in the receive queue, the rest  *)
(* is on the wire.  The stream is described by positions, and found anew   *)
(* after each step, so that no fact needs an induction over the messages.  *)

\* What a client may do without the server losing track of its frames: headers
\* arrive whole, and a client that sends ahead sends no long bodies and has them
\* arrive whole.  (Lengths beyond an int cannot be framed at all.)
Careful ==
    /\ \A p \in Profiles :
         /\ "split_head" \notin p
         /\ "pipeline" \in p => "long" \notin p /\ "split_body" \notin p
    /\ \A m \in Msgs : Len(m) < 128 * 256 * 256 * 256

\* Positions that lie at least a header apart.
Apart(N, start) ==
    /\ N \in Nat /\ start \in [1..(N + 1) -> Nat]
    /\ \A n \in 1..N : start[n] + 4 <= start[n + 1]
    /\ \A n, m \in 1..(N + 1) : n < m => start[n + 1] <= start[m]

\* A place from message n on that is at its start, or behind its header and not
\* behind its end, ...
PlaceFrom(N, start, n, R) ==
    R = start[n] \/ (n <= N /\ R >= start[n] + 4 /\ R <= start[n + 1])

\* Message n has its header from start[n] on and its body behind.
Layout(ms, start, all) ==
    /\ Apart(Len(ms), start) /\ all \in Seq(Byte)
    /\ start[1] = 0 /\ start[Len(ms) + 1] = Len(all)
    /\ \A n \in 1..Len(ms) : start[n + 1] = start[n] + HEAD + Len(ms[n])
    /\ \A n \in 1..Len(ms) :
         /\ \A y \in 1..HEAD : all[start[n] + y] = Int32ToByte(Len(ms[n]))[y]
         /\ \A y \in 1..Len(ms[n]) : all[start[n] + HEAD + y] = ms[n][y]

\* Where what has arrived may end, for a client of habits h: behind a header, at the
\* end of a message or, if bodies may be split, inside a body.
Spot(ms, start, h, R) ==
    \E n \in 1..(Len(ms) + 1) :
        /\ PlaceFrom(Len(ms), start, n, R)
        /\ \/ R = start[n]
           \/ n <= Len(ms) /\ R = start[n] + 4
           \/ "split_body" \in h

\* A part on the wire is a header, or a body from where it has not arrived.
Piece(ms, start, all, h, part, from, to) ==
    /\ part.bytes \in Seq(Byte) /\ to = from + Len(part.bytes)
    /\ \A y \in 1..Len(part.bytes) : part.bytes[y] = all[from + y]
    /\ \E n \in 1..Len(ms) :
         \/ part.head /\ from = start[n] /\ to = start[n] + HEAD
         \/ ~part.head /\ to = start[n + 1] /\ from >= start[n] + HEAD
            /\ (from = start[n] + HEAD \/ "split_body" \in h)

\* What is on the wire w follows what has arrived, up to the end of the stream
\* unless the connection broke.
OnWire(ms, start, all, h, w, whole, R) ==
    \E off \in [1..(Len(w) + 1) -> Nat] :
        /\ off[1] = R
        /\ whole => off[Len(w) + 1] = Len(all)
        /\ \A j \in 1..Len(w) : Piece(ms, start, all, h, w[j], off[j], off[j + 1])

\* r bytes were read, and b waits to be.
Stream(ms, start, all, h, w, whole, b, r) ==
    /\ Layout(ms, start, all)
    /\ r \in Nat /\ b \in Seq(Byte)
    /\ \A x \in 1..Len(b) : b[x] = all[r + x]
    /\ Spot(ms, start, h, r + Len(b))
    /\ OnWire(ms, start, all, h, w, whole, r + Len(b))

Part == [head : BOOLEAN, bytes : Seq(Byte)]

\* A place lies before the end of the stream,
LEMMA PlaceBound ==
  ASSUME NEW N, NEW start, Apart(N, start), NEW n \in 1..(N + 1), NEW R \in Nat,
         PlaceFrom(N, start, n, R)
  PROVE  R <= start[N + 1]
<1>1. /\ N \in Nat /\ start[n] \in Nat /\ start[N + 1] \in Nat
      /\ n <= N => start[n + 1] \in Nat /\ start[n] + 4 <= start[n + 1]
      /\ n <= N => start[n + 1] <= start[N + 1]
  BY DEF Apart
<1> QED  BY <1>1 DEF PlaceFrom

\* ... and if it is behind the start of message g it is behind its header,
LEMMA PlaceBehindHead ==
  ASSUME NEW N, NEW start, Apart(N, start), NEW n \in 1..(N + 1), NEW R \in Nat,
         PlaceFrom(N, start, n, R), NEW g \in 1..(N + 1), R > start[g]
  PROVE  g \in 1..N /\ R >= start[g] + 4
<1>1. /\ N \in Nat /\ start[n] \in Nat /\ start[g] \in Nat
      /\ n <= N => start[n + 1] \in Nat /\ start[n] + 4 <= start[n + 1]
      /\ g <= N => start[g + 1] \in Nat /\ start[g] + 4 <= start[g + 1]
      /\ n < g => n <= N /\ start[n + 1] <= start[g]
      /\ g < n => g <= N /\ start[g + 1] <= start[n]
  BY DEF Apart
<1>2. CASE n < g
  BY <1>1, <1>2 DEF PlaceFrom
<1>3. CASE n = g
  BY <1>1, <1>3 DEF PlaceFrom
<1>4. CASE g < n
  BY <1>1, <1>4 DEF PlaceFrom
<1> QED  BY <1>1, <1>2, <1>3, <1>4

\* ... and if it is behind that header, but in no body, it is behind the message.
LEMMA PlaceBehindBody ==
  ASSUME NEW N, NEW start, Apart(N, start), NEW n \in 1..(N + 1), NEW R \in Nat,
         R = start[n] \/ (n <= N /\ R = start[n] + 4),
         NEW g \in 1..N, R > start[g] + 4
  PROVE  R >= start[g + 1]
<1>1. /\ N \in Nat /\ start[n] \in Nat /\ start[g] \in Nat /\ start[g + 1] \in Nat
      /\ n < g => start[n + 1] \in Nat /\ start[n] + 4 <= start[n + 1]
      /\ n < g => start[n + 1] <= start[g]
      /\ g < n => start[g + 1] <= start[n]
  BY SMTT(60) DEF Apart
<1>2. CASE n < g
  BY <1>1, <1>2
<1>3. CASE n = g
  BY <1>1, <1>3
<1>4. CASE g < n
  BY <1>1, <1>4
<1> QED  BY <1>1, <1>2, <1>3, <1>4

\* Reading k bytes of what waits.
LEMMA StreamRead ==
  ASSUME NEW ms, NEW start, NEW all, NEW h, NEW w, NEW whole, NEW b \in Seq(Byte),
         NEW r \in Nat, Stream(ms, start, all, h, w, whole, b, r),
         NEW k \in Nat, k <= Len(b)
  PROVE  Stream(ms, start, all, h, w, whole, SubSeq(b, k + 1, Len(b)), r + k)
<1> DEFINE c == SubSeq(b, k + 1, Len(b))
<1>1. Len(b) \in Nat
  BY LenProperties
<1>2. c \in Seq(Byte) /\ Len(c) = Len(b) - k /\ \A x \in 1..Len(c) : c[x] = b[k + x]
  BY <1>1, SubSeqBytes, SubSeqProperties
<1> HIDE DEF c
<1>3. (r + k) + Len(c) = r + Len(b) /\ r + k \in Nat
  BY <1>1, <1>2
<1>4. \A x \in 1..Len(c) : c[x] = all[(r + k) + x]
  <2> SUFFICES ASSUME NEW x \in 1..Len(c)  PROVE c[x] = all[(r + k) + x]
    OBVIOUS
  <2>1. k + x \in 1..Len(b) /\ r + (k + x) = (r + k) + x
    BY <1>1, <1>2
  <2> QED  BY <1>2, <2>1 DEF Stream
<1>5. Stream(ms, start, all, h, w, whole, c, r + k)
  BY <1>2, <1>3, <1>4 DEF Stream
<1> QED  BY <1>5 DEF c

\* b starts with the header of a body of n bytes.
HeadAt(b, n) == Len(b) >= 4 /\ \A y \in 1..4 : b[y] = Int32ToByte(n)[y]

\* Bytes that wait behind the first g - 1 messages start with the whole header of
\* message g.
LEMMA HeadArrived ==
  ASSUME NEW ms, NEW start, NEW all, NEW h, NEW w, NEW whole, NEW b \in Seq(Byte),
         NEW r \in Nat, Stream(ms, start, all, h, w, whole, b, r),
         NEW g \in 1..(Len(ms) + 1), r = start[g], b # << >>
  PROVE  g \in 1..Len(ms) /\ HeadAt(b, Len(ms[g]))
<1>1. Layout(ms, start, all) /\ Apart(Len(ms), start)
  BY DEF Stream, Layout
<1>2. Len(b) \in Nat /\ Len(b) # 0 /\ r + Len(b) \in Nat
  BY LenProperties, EmptySeq
<1>3. PICK n \in 1..(Len(ms) + 1) : PlaceFrom(Len(ms), start, n, r + Len(b))
  BY DEF Stream, Spot
<1>4. r + Len(b) > start[g]
  BY <1>2
<1>5. g \in 1..Len(ms) /\ r + Len(b) >= start[g] + 4
  BY <1>1, <1>2, <1>3, <1>4, PlaceBehindHead
<1>6. Len(b) >= 4
  BY <1>2, <1>5
<1>7. \A y \in 1..4 : b[y] = all[start[g] + y]
  BY <1>2, <1>6, SMTT(60) DEF Stream
<1> QED  BY <1>1, <1>5, <1>6, <1>7 DEF Layout, HEAD, HeadAt

\* Where bodies are not split, bytes that wait behind the header of message g start
\* with its whole body.
LEMMA BodyArrived ==
  ASSUME NEW ms, NEW start, NEW all, NEW h, NEW w, NEW whole, NEW b \in Seq(Byte),
         NEW r \in Nat, Stream(ms, start, all, h, w, whole, b, r),
         NEW g \in 1..Len(ms), r = start[g] + 4, b # << >>, "split_body" \notin h,
         Len(ms[g]) \in Nat
  PROVE  Len(b) >= Len(ms[g])
<1>1. Layout(ms, start, all) /\ Apart(Len(ms), start)
  BY DEF Stream, Layout
<1>2. Len(b) \in Nat /\ Len(b) # 0 /\ r + Len(b) \in Nat
  BY LenProperties, EmptySeq
<1>3. PICK n \in 1..(Len(ms) + 1) :
         r + Len(b) = start[n] \/ (n <= Len(ms) /\ r + Len(b) = start[n] + 4)
  BY DEF Stream, Spot
<1>4. r + Len(b) > start[g] + 4
  BY <1>2
<1>5. r + Len(b) >= start[g + 1]
  BY <1>1, <1>2, <1>3, <1>4, PlaceBehindBody
<1>6. Len(ms) \in Nat /\ g \in 1..(Len(ms) + 1)
  BY <1>1 DEF Apart
<1>7. start[g + 1] = (start[g] + 4) + Len(ms[g]) /\ start[g] \in Nat
  BY <1>1, <1>6 DEF Layout, Apart, HEAD
<1> QED  BY <1>2, <1>5, <1>7

\* Of the last message no more can wait than is missing.
LEMMA LastArrived ==
  ASSUME NEW ms, NEW start, NEW all, NEW h, NEW w, NEW whole, NEW b \in Seq(Byte),
         NEW r \in Nat, Stream(ms, start, all, h, w, whole, b, r),
         NEW g \in 1..Len(ms), g = Len(ms), NEW d \in Nat, r = start[g] + 4 + d,
         Len(ms[g]) \in Nat
  PROVE  Len(b) <= Len(ms[g]) - d
<1>1. Layout(ms, start, all) /\ Apart(Len(ms), start)
  BY DEF Stream, Layout
<1>2. Len(b) \in Nat /\ r + Len(b) \in Nat
  BY LenProperties
<1>3. PICK n \in 1..(Len(ms) + 1) : PlaceFrom(Len(ms), start, n, r + Len(b))
  BY DEF Stream, Spot
<1>4. r + Len(b) <= start[g + 1]
  BY <1>1, <1>2, <1>3, PlaceBound
<1>5. Len(ms) \in Nat /\ g \in 1..(Len(ms) + 1)
  BY <1>1 DEF Apart
<1>6. start[g + 1] = (start[g] + 4) + Len(ms[g]) /\ start[g] \in Nat
  BY <1>1, <1>5 DEF Layout, Apart, HEAD
<1>7. PICK s \in Nat, l \in Nat, x \in Nat : s = start[g] /\ l = Len(ms[g]) /\ x = Len(b)
  BY <1>2, <1>6
<1>8. r = (s + 4) + d /\ r + x <= (s + 4) + l
  BY <1>4, <1>6, <1>7
<1>9. x <= l - d
  BY <1>8
<1> QED  BY <1>7, <1>9

\* A place inside a message n that its client may leave what has arrived at.
LEMMA SpotInside ==
  ASSUME NEW ms, NEW start, NEW h, Apart(Len(ms), start), NEW n \in 1..Len(ms),
         NEW R \in Nat, R >= start[n] + 4, R <= start[n + 1],
         R = start[n] + 4 \/ R = start[n + 1] \/ "split_body" \in h
  PROVE  Spot(ms, start, h, R)
<1>1. /\ Len(ms) \in Nat
      /\ n \in 1..(Len(ms) + 1) /\ n + 1 \in 1..(Len(ms) + 1) /\ n <= Len(ms)
  BY DEF Apart
<1>2. CASE R = start[n + 1]
  <2>1. PlaceFrom(Len(ms), start, n + 1, R)
    BY <1>2 DEF PlaceFrom
  <2> QED  BY <1>1, <1>2, <2>1 DEF Spot
<1>3. CASE R # start[n + 1]
  <2>1. PlaceFrom(Len(ms), start, n, R)
    BY <1>1 DEF PlaceFrom
  <2> QED  BY <1>1, <1>3, <2>1 DEF Spot
<1> QED  BY <1>2, <1>3

\* The next piece of what is on the wire arrives (Arrive).
LEMMA StreamArrive ==
  ASSUME NEW ms, NEW start, NEW all, NEW h, NEW w \in Seq(Part), NEW whole,
         NEW b \in Seq(Byte), NEW r \in Nat, Stream(ms, start, all, h, w, whole, b, r),
         w # << >>, "split_head" \notin h,
         NEW k \in 1..Len(Head(w).bytes),
         \/ k = Len(Head(w).bytes)
         \/ ~Head(w).head /\ "split_body" \in h
  PROVE  Stream(ms, start, all, h,
                IF k = Len(Head(w).bytes) THEN Tail(w)
                ELSE <<PartRest(Head(w), k)>> \o Tail(w),
                whole, b \o SubSeq(Head(w).bytes, 1, k), r)
<1> DEFINE part == Head(w)
           c == b \o SubSeq(part.bytes, 1, k)
           v == IF k = Len(part.bytes) THEN Tail(w) ELSE <<PartRest(part, k)>> \o Tail(w)
           R == r + Len(b)
<1>1. /\ part \in Part /\ part = w[1] /\ Len(w) \in Nat /\ Len(w) >= 1
      /\ part.bytes \in Seq(Byte) /\ Len(part.bytes) \in Nat
      /\ k \in Nat /\ k >= 1 /\ k <= Len(part.bytes)
  <2>1. part \in Part /\ part = w[1] /\ Len(w) \in Nat /\ Len(w) # 0
    BY HeadTailProperties, LenProperties, EmptySeq
  <2>2. part.bytes \in Seq(Byte)
    BY <2>1 DEF Part
  <2> QED  BY <2>1, <2>2, LenProperties
<1>2. PICK off \in [1..(Len(w) + 1) -> Nat] :
        /\ off[1] = R
        /\ whole => off[Len(w) + 1] = Len(all)
        /\ \A j \in 1..Len(w) : Piece(ms, start, all, h, w[j], off[j], off[j + 1])
  BY DEF Stream, OnWire
<1>3. Piece(ms, start, all, h, part, R, off[2])
  BY <1>1, <1>2
<1>4. Layout(ms, start, all) /\ Apart(Len(ms), start) /\ R \in Nat /\ Len(b) \in Nat
  BY LenProperties DEF Stream, Layout
<1>5. /\ c \in Seq(Byte) /\ Len(c) = Len(b) + k
      /\ \A x \in 1..Len(b) : c[x] = b[x]
      /\ \A y \in 1..k : c[Len(b) + y] = part.bytes[y]
  <2>1. SubSeq(part.bytes, 1, k) \in Seq(Byte) /\ Len(SubSeq(part.bytes, 1, k)) = k
        /\ \A y \in 1..k : SubSeq(part.bytes, 1, k)[y] = part.bytes[y]
    BY <1>1, SubSeqBytes
  <2> QED  BY <1>4, <2>1
<1> HIDE DEF c, part
<1>6. \A x \in 1..Len(c) : c[x] = all[r + x]
  <2> SUFFICES ASSUME NEW x \in 1..Len(c)  PROVE c[x] = all[r + x]
    OBVIOUS
  <2>1. CASE x <= Len(b)
    BY <1>4, <1>5, <2>1 DEF Stream
  <2>2. CASE x > Len(b)
    <3> DEFINE y == x - Len(b)
    <3>1. y \in 1..k /\ x = Len(b) + y
      BY <1>1, <1>4, <1>5, <2>2
    <3> HIDE DEF y
    <3>2. y \in 1..Len(part.bytes)
      BY <1>1, <3>1
    <3>3. r + x = R + y
      BY <1>4, <3>1
    <3>4. part.bytes[y] = all[R + y]
      BY <1>3, <3>2 DEF Piece
    <3>5. c[x] = part.bytes[y]
      BY <1>5, <3>1
    <3> QED  BY <3>3, <3>4, <3>5
  <2> QED  BY <1>4, <1>5, <2>1, <2>2
<1>7. r + Len(c) = R + k /\ R + k \in Nat
  BY <1>4, <1>5
<1> HIDE DEF R
<1>8. off[2] = R + Len(part.bytes)
  BY <1>3 DEF Piece
<1>9. PICK n \in 1..Len(ms) :
         \/ part.head /\ R = start[n] /\ off[2] = start[n] + 4
         \/ ~part.head /\ off[2] = start[n + 1] /\ R >= start[n] + 4
            /\ (R = start[n] + 4 \/ "split_body" \in h)
  BY <1>3 DEF Piece, HEAD
<1>10. Len(ms) \in Nat /\ start[n] \in Nat /\ start[n + 1] \in Nat /\ start[n] + 4 <= start[n + 1]
  BY <1>4, SMTT(60) DEF Apart
<1>11. k = Len(part.bytes) \/ (~part.head /\ "split_body" \in h)
  BY Zenon DEF part
<1>12. R + k >= start[n] + 4 /\ R + k <= start[n + 1]
       /\ (R + k = start[n] + 4 \/ R + k = start[n + 1] \/ "split_body" \in h)
  <2> DEFINE l == Len(part.bytes)
             to == off[2]
             s == start[n]
             e == start[n + 1]
  <2>1. l \in Nat /\ s \in Nat /\ e \in Nat
    BY <1>1, <1>10
  <2>2. /\ k <= l /\ to = R + l /\ s + 4 <= e
        /\ \/ R = s /\ to = s + 4 /\ k = l
           \/ to = e /\ R >= s + 4 /\ k = l
           \/ to = e /\ R >= s + 4 /\ "split_body" \in h
    BY <1>1, <1>8, <1>9, <1>10, <1>11, <2>1
  <2>3. R \in Nat /\ k \in Nat /\ k >= 1
    BY <1>1, <1>4
  <2> HIDE DEF l, to, s, e
  <2>4. R + k >= s + 4 /\ R + k <= e /\ (R + k = s + 4 \/ R + k = e \/ "split_body" \in h)
    BY <2>1, <2>2, <2>3
  <2> QED  BY <2>4 DEF s, e
<1>13. Spot(ms, start, h, R + k)
  BY <1>4, <1>7, <1>12, SpotInside
<1>14. OnWire(ms, start, all, h, v, whole, R + k)
  <2>1. CASE k = Len(part.bytes)
    <3> DEFINE off2 == [j \in 1..Len(w) |-> off[j + 1]]
    <3>1. v = Tail(w) /\ Len(v) = Len(w) - 1 /\ \A j \in 1..Len(v) : v[j] = w[j + 1]
      BY <1>1, <2>1, HeadTailProperties, EmptySeq
    <3> HIDE DEF v
    <3>2. /\ off2 \in [1..(Len(v) + 1) -> Nat]
          /\ off2[1] = R + k /\ off2[Len(v) + 1] = off[Len(w) + 1]
      BY <1>1, <1>8, <2>1, <3>1
    <3>3. ASSUME NEW j \in 1..Len(v)
          PROVE  Piece(ms, start, all, h, v[j], off2[j], off2[j + 1])
      <4>1. /\ j + 1 \in 1..Len(w) /\ v[j] = w[j + 1]
            /\ off2[j] = off[j + 1] /\ off2[j + 1] = off[(j + 1) + 1]
        BY <1>1, <3>1
      <4> QED  BY <1>2, <4>1
    <3> HIDE DEF off2
    <3> QED  BY <1>2, <3>2, <3>3 DEF OnWire
  <2>2. CASE k # Len(part.bytes)
    <3> DEFINE u == PartRest(part, k)
               off2 == [off EXCEPT ![1] = R + k]
    <3>1. ~part.head /\ "split_body" \in h /\ k \in 1..Len(part.bytes)
      BY <1>1, <1>11, <2>2
    <3>2. u \in Part /\ u.head = part.head /\ u.bytes \in Seq(Byte)
          /\ Len(u.bytes) = Len(part.bytes) - k
          /\ \A y \in 1..Len(u.bytes) : u.bytes[y] = part.bytes[k + y]
      <4>1. u \in Part
        BY <1>1, <3>1, PartRestType DEF Part
      <4>2. u.head = part.head /\ u.bytes = SubSeq(part.bytes, k + 1, Len(part.bytes))
        BY <1>1 DEF PartRest, Part
      <4> HIDE DEF u
      <4> QED  BY <1>1, <3>1, <4>1, <4>2, SubSeqBytes, SubSeqProperties, SMTT(60)
    <3>3. v = <<u>> \o Tail(w)
      BY <2>2 DEF part
    <3> HIDE DEF u
    <3>4. Len(v) = Len(w) /\ v[1] = u /\ \A j \in 2..Len(w) : v[j] = w[j]
      <4>1. /\ Tail(w) \in Seq(Part) /\ Len(Tail(w)) = Len(w) - 1
            /\ \A i \in 1..Len(Tail(w)) : Tail(w)[i] = w[i + 1]
        BY HeadTailProperties
      <4>2. <<u>> \in Seq(Part) /\ Len(<<u>>) = 1 /\ <<u>>[1] = u
        BY <3>2
      <4>3. /\ Len(v) = Len(<<u>>) + Len(Tail(w))
            /\ \A i \in 1..(Len(<<u>>) + Len(Tail(w))) : v[i] =
                  IF i <= Len(<<u>>) THEN <<u>>[i] ELSE Tail(w)[i - Len(<<u>>)]
        <5>1. \A x, y \in Seq(Part) :
                 /\ Len(x \o y) = Len(x) + Len(y)
                 /\ \A i \in 1..(Len(x) + Len(y)) :
                       (x \o y)[i] = IF i <= Len(x) THEN x[i] ELSE y[i - Len(x)]
          BY ConcatProperties
        <5> DEFINE x == <<u>>
                   y == Tail(w)
        <5>2. x \in Seq(Part) /\ y \in Seq(Part) /\ v = x \o y
          BY <3>3, <4>1, <4>2
        <5> HIDE DEF x, y
        <5> QED  BY <5>1, <5>2 DEF x, y
      <4> HIDE DEF v
      <4> QED  BY <1>1, <4>1, <4>2, <4>3
    <3> HIDE DEF v
    <3>5. /\ off2 \in [1..(Len(v) + 1) -> Nat]
          /\ off2[1] = R + k /\ \A j \in 2..(Len(w) + 1) : off2[j] = off[j]
      BY <1>1, <1>7, <3>4
    <3> HIDE DEF off2
    <3>6. off2[Len(v) + 1] = off[Len(w) + 1] /\ off2[2] = off[2]
      BY <1>1, <3>4, <3>5
    <3>7. Piece(ms, start, all, h, u, R + k, off[2])
      <4>1. off[2] = (R + k) + Len(u.bytes)
        <5>1. PICK l \in Nat : l = Len(part.bytes)
          BY <1>1
        <5>2. Len(u.bytes) = l - k /\ off[2] = R + l /\ R \in Nat /\ k \in Nat
          BY <1>1, <1>4, <1>8, <3>2, <5>1
        <5>3. (R + k) + (l - k) = R + l
          BY <5>2
        <5> QED  BY <5>2, <5>3
      <4>2. ASSUME NEW y \in 1..Len(u.bytes)  PROVE u.bytes[y] = all[(R + k) + y]
        <5>1. k + y \in 1..Len(part.bytes) /\ R + (k + y) = (R + k) + y
          BY <1>1, <1>4, <3>1, <3>2
        <5> QED  BY <1>3, <3>2, <5>1 DEF Piece
      <4>3. /\ ~u.head /\ off[2] = start[n + 1] /\ R + k >= start[n] + HEAD
        BY <1>9, <1>12, <3>1, <3>2 DEF HEAD
      <4> QED  BY <3>1, <3>2, <4>1, <4>2, <4>3 DEF Piece
    <3>8. ASSUME NEW j \in 1..Len(v)
          PROVE  Piece(ms, start, all, h, v[j], off2[j], off2[j + 1])
      <4>1. CASE j = 1
        BY <3>4, <3>5, <3>6, <3>7, <4>1
      <4>2. CASE j # 1
        <5>1. /\ j \in 1..Len(w) /\ j \in 2..Len(w) /\ v[j] = w[j]
              /\ off2[j] = off[j] /\ off2[j + 1] = off[j + 1]
          BY <1>1, <3>4, <3>5, <4>2
        <5> QED  BY <1>2, <5>1
      <4> QED  BY <4>1, <4>2
    <3> QED  BY <1>2, <3>5, <3>6, <3>8 DEF OnWire
  <2> QED  BY <2>1, <2>2
<1>15. Stream(ms, start, all, h, v, whole, c, r)
  <2> HIDE DEF v
  <2> QED  BY <1>4, <1>5, <1>6, <1>7, <1>13, <1>14 DEF Stream
<1> QED  BY <1>15 DEF c, part, v

\* The positions with one more message, that ends at e.
Further(N, start, e) ==
    [n \in 1..(N + 2) |-> IF n <= N + 1 THEN start[n] ELSE e]

LEMMA FurtherApart ==
  ASSUME NEW N \in Nat, NEW start \in [1..(N + 1) -> Nat], Apart(N, start),
         NEW e \in Nat, start[N + 1] + 4 <= e
  PROVE  /\ Apart(N + 1, Further(N, start, e))
         /\ \A n \in 1..(N + 1) : Further(N, start, e)[n] = start[n]
         /\ Further(N, start, e)[N + 2] = e
<1> DEFINE s == Further(N, start, e)
<1>1. /\ s \in [1..((N + 1) + 1) -> Nat]
      /\ \A n \in 1..(N + 1) : s[n] = start[n]
      /\ s[N + 2] = e
  BY DEF Further
<1> HIDE DEF s
<1>2. ASSUME NEW n \in 1..(N + 1)  PROVE s[n] + 4 <= s[n + 1]
  <2>1. CASE n = N + 1
    BY <1>1, <2>1
  <2>2. CASE n # N + 1
    <3>1. n \in 1..N /\ n + 1 \in 1..(N + 1)
      BY <2>2
    <3> QED  BY <1>1, <3>1 DEF Apart
  <2> QED  BY <2>1, <2>2
<1>3. ASSUME NEW n \in 1..((N + 1) + 1), NEW k \in 1..((N + 1) + 1), n < k
      PROVE  s[n + 1] <= s[k]
  <2>1. CASE k <= N + 1
    <3>1. n \in 1..(N + 1) /\ n + 1 \in 1..(N + 1) /\ k \in 1..(N + 1)
      BY <1>3, <2>1
    <3> QED  BY <1>1, <1>3, <3>1 DEF Apart
  <2>2. CASE k = N + 2 /\ n = N + 1
    BY <1>1, <2>2
  <2>3. CASE k = N + 2 /\ n < N + 1
    <3>1. n \in 1..(N + 1) /\ n + 1 \in 1..(N + 1) /\ N + 1 \in 1..(N + 1)
      BY <2>3
    <3>2. s[n + 1] = start[n + 1] /\ start[n + 1] <= start[N + 1]
      BY <1>1, <2>3, <3>1 DEF Apart
    <3> QED  BY <1>1, <2>3, <3>1, <3>2
  <2> QED  BY <1>3, <2>1, <2>2, <2>3
<1>4. Apart(N + 1, s)
  BY <1>1, <1>2, <1>3 DEF Apart
<1> QED  BY <1>1, <1>4 DEF s

\* Message n lies within the stream.
LEMMA MessageWithin ==
  ASSUME NEW ms, NEW start, NEW all, Layout(ms, start, all), NEW n \in 1..Len(ms),
         Len(ms[n]) \in Nat
  PROVE  /\ Len(ms) \in Nat /\ start[n] \in Nat /\ start[n + 1] \in Nat /\ Len(all) \in Nat
         /\ start[n + 1] = (start[n] + 4) + Len(ms[n])
         /\ start[n + 1] <= Len(all)
<1>1. Apart(Len(ms), start) /\ all \in Seq(Byte) /\ start[Len(ms) + 1] = Len(all)
  BY DEF Layout
<1>2. /\ Len(ms) \in Nat /\ n \in 1..(Len(ms) + 1) /\ n + 1 \in 1..(Len(ms) + 1)
      /\ start[n] \in Nat /\ start[n + 1] \in Nat
  <2>1. Len(ms) \in Nat /\ start \in [1..(Len(ms) + 1) -> Nat]
    BY <1>1 DEF Apart
  <2>2. n \in 1..(Len(ms) + 1) /\ n + 1 \in 1..(Len(ms) + 1)
    BY <2>1
  <2> QED  BY <2>1, <2>2
<1>3. start[n + 1] = (start[n] + 4) + Len(ms[n])
  BY <1>2 DEF Layout, HEAD
<1>4. PlaceFrom(Len(ms), start, n + 1, start[n + 1])
  BY DEF PlaceFrom
<1>5. start[n + 1] <= Len(all)
  BY <1>1, <1>2, <1>4, PlaceBound
<1> QED  BY <1>1, <1>2, <1>3, <1>5, LenProperties

\* The stream all2 is all with the frame of m behind it (SendParams).
Extended(all, all2, m) ==
    /\ all2 \in Seq(Byte)
    /\ Len(all2) = (Len(all) + HEAD) + Len(m)
    /\ \A x \in 1..Len(all) : all2[x] = all[x]
    /\ \A y \in 1..HEAD : all2[Len(all) + y] = Int32ToByte(Len(m))[y]
    /\ \A y \in 1..Len(m) : all2[(Len(all) + HEAD) + y] = m[y]

LEMMA ConcatParts ==
  ASSUME NEW s \in Seq(Byte), NEW t \in Seq(Byte)
  PROVE  /\ s \o t \in Seq(Byte) /\ Len(s \o t) = Len(s) + Len(t)
         /\ \A x \in 1..Len(s) : (s \o t)[x] = s[x]
         /\ \A y \in 1..Len(t) : (s \o t)[Len(s) + y] = t[y]
OBVIOUS

LEMMA ExtendedExists ==
  ASSUME NEW all \in Seq(Byte), NEW m \in Seq(Byte)
  PROVE  \E all2 : Extended(all, all2, m)
<1> DEFINE hd == Int32ToByte(Len(m))
<1>1. hd \in Seq(Byte) /\ Len(hd) = 4 /\ Len(m) \in Nat /\ Len(all) \in Nat
  BY HeaderType, LenProperties DEF Int32ToByte
<1> HIDE DEF hd
<1> DEFINE front == all \o hd
           all2 == front \o m
<1>2. /\ front \in Seq(Byte) /\ Len(front) = Len(all) + Len(hd)
      /\ \A x \in 1..Len(all) : front[x] = all[x]
      /\ \A y \in 1..Len(hd) : front[Len(all) + y] = hd[y]
  BY Zenon, <1>1, ConcatParts
<1> HIDE DEF front
<1>3. /\ all2 \in Seq(Byte) /\ Len(all2) = Len(front) + Len(m)
      /\ \A x \in 1..Len(front) : all2[x] = front[x]
      /\ \A y \in 1..Len(m) : all2[Len(front) + y] = m[y]
  BY Zenon, <1>1, <1>2, ConcatParts
<1> HIDE DEF all2
<1>4. Len(front) = Len(all) + 4
  BY <1>1, <1>2
<1>5. /\ \A x \in 1..Len(all) : all2[x] = all[x]
      /\ \A y \in 1..4 : all2[Len(all) + y] = hd[y]
  BY <1>1, <1>2, <1>3, <1>4
<1>6. Extended(all, all2, m)
  BY <1>3, <1>4, <1>5 DEF Extended, HEAD, hd
<1> QED  BY <1>6

\* One more message behind the others: its layout.
LEMMA LayoutSend ==
  ASSUME NEW ms \in Seq(Seq(Byte)), NEW start, NEW all, Layout(ms, start, all),
         NEW m \in Seq(Byte), NEW all2, Extended(all, all2, m)
  PROVE  Layout(Append(ms, m), Further(Len(ms), start, Len(all2)), all2)
<1> DEFINE N == Len(ms)
           ms2 == Append(ms, m)
           st2 == Further(N, start, Len(all2))
<1>1. /\ N \in Nat /\ Len(ms2) = N + 1 /\ ms2[N + 1] = m
      /\ \A n \in 1..N : ms2[n] = ms[n]
      /\ \A n \in 1..N : Len(ms[n]) \in Nat
  BY LenProperties, AppendProperties, ElementOfSeq
<1>2. /\ Apart(N, start) /\ start \in [1..(N + 1) -> Nat] /\ start[N + 1] = Len(all)
      /\ Len(all) \in Nat /\ Len(m) \in Nat /\ all2 \in Seq(Byte) /\ start[1] = 0
  BY LenProperties DEF Layout, Apart, Extended
<1>3. Len(all2) \in Nat /\ Len(all2) = (Len(all) + 4) + Len(m)
  BY <1>2 DEF Extended, HEAD
<1>4. start[N + 1] + 4 <= Len(all2)
  BY <1>2, <1>3
<1>5. /\ Apart(N + 1, st2)
      /\ \A n \in 1..(N + 1) : st2[n] = start[n]
      /\ st2[N + 2] = Len(all2)
  BY <1>1, <1>2, <1>3, <1>4, FurtherApart
<1> HIDE DEF N, ms2, st2
<1>6. st2[1] = 0
  BY <1>1, <1>2, <1>5
<1>7. ASSUME NEW n \in 1..N
      PROVE  /\ st2[n + 1] = st2[n] + HEAD + Len(ms2[n])
             /\ \A y \in 1..HEAD : all2[st2[n] + y] = Int32ToByte(Len(ms2[n]))[y]
             /\ \A y \in 1..Len(ms2[n]) : all2[st2[n] + HEAD + y] = ms2[n][y]
  <2>1. /\ ms2[n] = ms[n] /\ Len(ms[n]) \in Nat
        /\ st2[n] = start[n] /\ st2[n + 1] = start[n + 1]
    BY <1>1, <1>5
  <2>2. /\ start[n] \in Nat /\ start[n + 1] \in Nat
        /\ start[n + 1] = (start[n] + 4) + Len(ms[n])
        /\ start[n + 1] <= Len(all)
    BY <2>1, MessageWithin DEF N
  <2>3. /\ \A y \in 1..4 : all[start[n] + y] = Int32ToByte(Len(ms[n]))[y]
        /\ \A y \in 1..Len(ms[n]) : all[start[n] + 4 + y] = ms[n][y]
    BY DEF Layout, HEAD, N
  <2>4. /\ \A y \in 1..4 : start[n] + y \in 1..Len(all)
        /\ \A y \in 1..Len(ms[n]) : start[n] + 4 + y \in 1..Len(all)
    <3> DEFINE s == start[n]
               l == Len(ms[n])
               z == Len(all)
    <3>1. s \in Nat /\ l \in Nat /\ z \in Nat /\ s + 4 + l <= z
      BY <1>2, <2>1, <2>2
    <3> HIDE DEF s, l, z
    <3>2. (\A y \in 1..4 : s + y \in 1..z) /\ (\A y \in 1..l : s + 4 + y \in 1..z)
      BY <3>1
    <3> QED  BY <3>2 DEF s, l, z
  <2>5. \A x \in 1..Len(all) : all2[x] = all[x]
    BY DEF Extended
  <2> QED  BY <2>1, <2>2, <2>3, <2>4, <2>5 DEF HEAD
<1>8. /\ st2[N + 2] = st2[N + 1] + HEAD + Len(ms2[N + 1])
      /\ \A y \in 1..HEAD : all2[st2[N + 1] + y] = Int32ToByte(Len(ms2[N + 1]))[y]
      /\ \A y \in 1..Len(ms2[N + 1]) : all2[st2[N + 1] + HEAD + y] = ms2[N + 1][y]
  <2>1. st2[N + 1] = Len(all) /\ ms2[N + 1] = m
    BY <1>1, <1>2, <1>5
  <2> QED  BY <1>3, <1>5, <2>1 DEF Extended, HEAD
<1>9. \A n \in 1..(N + 1) :
         /\ st2[n + 1] = st2[n] + HEAD + Len(ms2[n])
         /\ \A y \in 1..HEAD : all2[st2[n] + y] = Int32ToByte(Len(ms2[n]))[y]
         /\ \A y \in 1..Len(ms2[n]) : all2[st2[n] + HEAD + y] = ms2[n][y]
  <2> SUFFICES ASSUME NEW n \in 1..(N + 1)
               PROVE  /\ st2[n + 1] = st2[n] + HEAD + Len(ms2[n])
                      /\ \A y \in 1..HEAD : all2[st2[n] + y] = Int32ToByte(Len(ms2[n]))[y]
                      /\ \A y \in 1..Len(ms2[n]) : all2[st2[n] + HEAD + y] = ms2[n][y]
    BY Zenon
  <2>1. n \in 1..N \/ (n = N + 1 /\ n + 1 = N + 2)
    BY <1>1
  <2> QED  BY <1>7, <1>8, <2>1
<1>10. Layout(ms2, st2, all2)
  BY <1>1, <1>2, <1>5, <1>6, <1>9, SMTT(60) DEF Layout
<1> QED  BY <1>10 DEF ms2, st2, N

\* A header ends before what its message's end does.
LEMMA HeaderWithin ==
  ASSUME NEW a \in Nat, NEW b \in Nat, NEW l \in Nat, NEW z \in Nat, b = (a + 4) + l, b <= z
  PROVE  a + 4 <= z
OBVIOUS

\* The wire with one more frame behind.
LEMMA WireSend ==
  ASSUME NEW ms \in Seq(Seq(Byte)), NEW start, NEW all, NEW h, NEW w \in Seq(Part),
         NEW R \in Nat, Layout(ms, start, all), OnWire(ms, start, all, h, w, TRUE, R),
         NEW m \in Seq(Byte), NEW start2, NEW all2, Extended(all, all2, m),
         \A n \in 1..(Len(ms) + 1) : start2[n] = start[n],
         start2[Len(ms) + 2] = Len(all2)
  PROVE  OnWire(Append(ms, m), start2, all2, h, w \o Frame(m), TRUE, R)
<1> DEFINE N == Len(ms)
           W == Len(w)
           Z == Len(all)
           ms2 == Append(ms, m)
           w2 == w \o Frame(m)
<1>1. N \in Nat /\ W \in Nat
  BY LenProperties
<1>2. /\ N \in Nat /\ Len(ms2) = N + 1 /\ W \in Nat /\ Z \in Nat
      /\ all2 \in Seq(Byte) /\ Len(m) \in Nat /\ Len(all2) = (Z + 4) + Len(m)
      /\ \A n \in 1..N : Len(ms[n]) \in Nat
  BY LenProperties, AppendProperties, ElementOfSeq DEF Layout, Extended, HEAD
<1>3. PICK off \in [1..(W + 1) -> Nat] :
        /\ off[1] = R /\ off[W + 1] = Z
        /\ \A j \in 1..W : Piece(ms, start, all, h, w[j], off[j], off[j + 1])
  BY DEF OnWire
<1> DEFINE hd == [head |-> TRUE, bytes |-> Int32ToByte(Len(m))]
           bd == [head |-> FALSE, bytes |-> m]
<1>4. /\ Len(w2) = W + 2
      /\ \A j \in 1..W : w2[j] = w[j]
      /\ w2[W + 1] = hd /\ w2[W + 2] = bd
  <2>1. hd \in Part /\ bd \in Part
    BY <1>2, HeaderType DEF Part
  <2>2. w2 = w \o <<hd, bd>>
    BY DEF Frame
  <2> HIDE DEF hd, bd, w2
  <2> QED  BY <2>1, <2>2
<1>5. /\ hd.head /\ hd.bytes = Int32ToByte(Len(m)) /\ ~bd.head /\ bd.bytes = m
      /\ hd.bytes \in Seq(Byte) /\ Len(hd.bytes) = 4
  <2>1. Int32ToByte(Len(m)) \in Seq(Byte) /\ Len(Int32ToByte(Len(m))) = 4
    BY <1>2, HeaderType DEF Int32ToByte
  <2> QED  BY <2>1
<1> DEFINE off2 == [j \in 1..(W + 3) |-> IF j <= W + 1 THEN off[j]
                                          ELSE IF j = W + 2 THEN Z + 4 ELSE Len(all2)]
<1>6. /\ off2 \in [1..(W + 3) -> Nat]
      /\ \A j \in 1..(W + 1) : off2[j] = off[j]
      /\ off2[W + 2] = Z + 4 /\ off2[W + 3] = Len(all2)
  BY <1>2
<1> HIDE DEF w2, hd, bd, off2, ms2, N, W, Z
<1>7. /\ start2[N + 1] = Z /\ start2[N + 2] = Len(all2)
      /\ \A n \in 1..N : start2[n] = start[n] /\ start2[n + 1] = start[n + 1]
  <2>1. start[N + 1] = Z
    BY DEF Layout, N, Z
  <2>2. start2[N + 2] = Len(all2) /\ \A n \in 1..(N + 1) : start2[n] = start[n]
    BY DEF N
  <2>3. N + 1 \in 1..(N + 1) /\ \A n \in 1..N : n \in 1..(N + 1) /\ n + 1 \in 1..(N + 1)
    BY <1>1
  <2> QED  BY <2>1, <2>2, <2>3
<1>8. ASSUME NEW j \in 1..W
      PROVE  Piece(ms2, start2, all2, h, w2[j], off2[j], off2[j + 1])
  <2> DEFINE from == off[j]
             to == off[j + 1]
             part == w[j]
  <2>1. Piece(ms, start, all, h, part, from, to)
    BY <1>3
  <2>2. from \in Nat /\ to \in Nat /\ off2[j] = from /\ off2[j + 1] = to /\ w2[j] = part
    BY <1>2, <1>3, <1>4, <1>6, SMTT(60)
  <2> HIDE DEF from, to, part
  <2>3. part.bytes \in Seq(Byte) /\ Len(part.bytes) \in Nat /\ to = from + Len(part.bytes)
    BY <2>1, LenProperties DEF Piece
  <2>4. PICK n \in 1..N :
          \/ part.head /\ from = start[n] /\ to = start[n] + HEAD
          \/ ~part.head /\ to = start[n + 1] /\ from >= start[n] + HEAD
             /\ (from = start[n] + HEAD \/ "split_body" \in h)
    BY <2>1 DEF Piece, N
  <2>5. to <= Z
    <3>1. /\ start[n] \in Nat /\ start[n + 1] \in Nat /\ Len(ms[n]) \in Nat
          /\ start[n + 1] = (start[n] + 4) + Len(ms[n])
          /\ start[n + 1] <= Z
      BY <1>2, MessageWithin DEF N, Z
    <3>2. start[n] + 4 <= Z
      <4>1. Z \in Nat
        BY <1>2
      <4> QED  BY ONLY <3>1, <4>1, HeaderWithin
    <3>3. to = start[n] + 4 \/ to = start[n + 1]
      BY <2>4 DEF HEAD
    <3> QED  BY <3>1, <3>2, <3>3
  <2>6. ASSUME NEW y \in 1..Len(part.bytes)  PROVE part.bytes[y] = all2[from + y]
    <3>1. from + y \in 1..Z
      BY <1>2, <2>2, <2>3, <2>5
    <3>2. all2[from + y] = all[from + y]
      BY <3>1 DEF Extended, Z
    <3> QED  BY <2>1, <3>2 DEF Piece
  <2>7. n \in 1..(N + 1) /\ start2[n] = start[n] /\ start2[n + 1] = start[n + 1]
    <3>1. N \in Nat /\ n \in 1..N
      BY <1>1, <2>4
    <3>2. n \in 1..(N + 1)
      BY ONLY <3>1
    <3>3. start2[n] = start[n] /\ start2[n + 1] = start[n + 1]
      BY ONLY <1>7, <3>1
    <3> QED  BY ONLY <3>2, <3>3
  <2>8. Piece(ms2, start2, all2, h, part, from, to)
    BY <1>2, <2>3, <2>4, <2>6, <2>7 DEF Piece
  <2> QED  BY <2>2, <2>8
<1>9. N + 1 \in 1..(N + 1) /\ (N + 1) + 1 = N + 2
  BY <1>1
<1>10. Piece(ms2, start2, all2, h, hd, Z, Z + 4)
  BY <1>2, <1>5, <1>7, <1>9 DEF Piece, Extended, HEAD, Z
<1>11. Piece(ms2, start2, all2, h, bd, Z + 4, Len(all2))
  <2>1. \A y \in 1..Len(m) : m[y] = all2[(Z + 4) + y]
    BY DEF Extended, HEAD, Z
  <2>2. start2[(N + 1) + 1] = Len(all2) /\ start2[N + 1] + HEAD = Z + 4 /\ Z + 4 >= Z + 4
    BY <1>2, <1>7, <1>9 DEF HEAD
  <2> QED  BY <1>2, <1>5, <1>9, <2>1, <2>2 DEF Piece
<1>12. ASSUME NEW j \in 1..(W + 2)
       PROVE  Piece(ms2, start2, all2, h, w2[j], off2[j], off2[j + 1])
  <2>1. CASE j = W + 1
    <3>1. w2[j] = hd /\ off2[j] = Z /\ off2[j + 1] = Z + 4
      BY <1>2, <1>3, <1>4, <1>6, <2>1
    <3> QED  BY <1>10, <3>1
  <2>2. CASE j = W + 2
    <3>1. w2[j] = bd /\ off2[j] = Z + 4 /\ off2[j + 1] = Len(all2)
      BY <1>2, <1>4, <1>6, <2>2
    <3> QED  BY <1>11, <3>1
  <2>3. j \in 1..W \/ j = W + 1 \/ j = W + 2
    BY <1>1
  <2> QED  BY <1>8, <2>1, <2>2, <2>3
<1>13. off2[1] = R /\ off2 \in [1..(Len(w2) + 1) -> Nat] /\ off2[Len(w2) + 1] = Len(all2)
       /\ 1..Len(w2) = 1..(W + 2)
  BY <1>2, <1>3, <1>4, <1>6, SMTT(60)
<1>14. OnWire(ms2, start2, all2, h, w2, TRUE, R)
  BY <1>12, <1>13 DEF OnWire
<1> QED  BY <1>14 DEF ms2, w2

\* A stream with the message m more, the others where they were.
Longer(ms, start, h, w, b, r, m) ==
    \E start2, all2 :
        /\ Stream(Append(ms, m), start2, all2, h, w \o Frame(m), TRUE, b, r)
        /\ \A n \in 1..(Len(ms) + 1) : start2[n] = start[n]

\* The client sends one more message (ClientSend).
LEMMA StreamSend ==
  ASSUME NEW ms \in Seq(Seq(Byte)), NEW start, NEW all, NEW h, NEW w \in Seq(Part),
         NEW b \in Seq(Byte), NEW r \in Nat, NEW m \in Seq(Byte),
         Stream(ms, start, all, h, w, TRUE, b, r)
  PROVE  Longer(ms, start, h, w, b, r, m)
<1>1. PICK all2 : Extended(all, all2, m)
  BY ExtendedExists DEF Stream, Layout
<1> DEFINE N == Len(ms)
           start2 == Further(N, start, Len(all2))
           ms2 == Append(ms, m)
           R == r + Len(b)
<1>2. Layout(ms, start, all) /\ Apart(N, start) /\ start[N + 1] = Len(all)
      /\ start \in [1..(N + 1) -> Nat]
  BY DEF Stream, Layout, Apart
<1>3. /\ N \in Nat /\ R \in Nat /\ Len(b) \in Nat /\ Len(all2) \in Nat /\ Len(ms2) = N + 1
      /\ Len(all) \in Nat /\ Len(m) \in Nat /\ Len(all2) = (Len(all) + 4) + Len(m)
  BY <1>1, <1>2, LenProperties, AppendProperties DEF Extended, HEAD, Layout
<1>4. Layout(ms2, start2, all2)
  BY <1>1, <1>2, LayoutSend
<1>5. start[N + 1] + 4 <= Len(all2)
  BY <1>2, <1>3
<1> HIDE DEF ms2, N
<1>6. /\ \A n \in 1..(N + 1) : start2[n] = start[n]
      /\ start2[N + 2] = Len(all2)
  <2>1. \A e \in Nat : start[N + 1] + 4 <= e =>
           /\ \A n \in 1..(N + 1) : Further(N, start, e)[n] = start[n]
           /\ Further(N, start, e)[N + 2] = e
    <3>1. N \in Nat /\ start \in [1..(N + 1) -> Nat] /\ Apart(N, start)
      BY <1>2, <1>3
    <3> QED  BY Zenon, <3>1, FurtherApart
  <2> QED  BY <1>3, <1>5, <2>1
<1> HIDE DEF start2
<1>7. OnWire(ms2, start2, all2, h, w \o Frame(m), TRUE, R)
  BY <1>1, <1>2, <1>3, <1>6, WireSend DEF Stream, ms2, N
<1>8. PICK n \in 1..(N + 1) :
        /\ PlaceFrom(N, start, n, R)
        /\ \/ R = start[n]
           \/ n <= N /\ R = start[n] + 4
           \/ "split_body" \in h
  BY DEF Stream, Spot, N
<1>9. Spot(ms2, start2, h, R)
  <2>1. n \in 1..(Len(ms2) + 1) /\ start2[n] = start[n] /\ (n <= N => n <= Len(ms2))
        /\ (n <= N => start2[n + 1] = start[n + 1])
    BY <1>3, <1>6
  <2>2. PlaceFrom(Len(ms2), start2, n, R)
    BY <1>8, <2>1 DEF PlaceFrom
  <2> QED  BY <1>8, <2>1, <2>2 DEF Spot
<1>10. R <= Len(all)
  BY <1>2, <1>3, <1>8, PlaceBound
<1>11. ASSUME NEW x \in 1..Len(b)  PROVE b[x] = all2[r + x]
  <2>1. r + x \in 1..Len(all)
    BY <1>3, <1>10
  <2>2. all2[r + x] = all[r + x]
    BY <1>1, <2>1 DEF Extended
  <2> QED  BY <2>2 DEF Stream
<1>12. Stream(ms2, start2, all2, h, w \o Frame(m), TRUE, b, r)
  BY <1>4, <1>7, <1>9, <1>11 DEF Stream
<1> QED  BY <1>6, <1>12 DEF ms2, N, Longer

LEMMA DivMod ==
  ASSUME NEW n \in Nat, NEW q \in Int, NEW r \in Int, q = n \div 256, r = n % 256
  PROVE  n = 256 * q + r /\ q >= 0 /\ r \in 0..255
OBVIOUS

\* The four digits of a number to the base 256.
DigitsOf(n, e, z, y, x) ==
    /\ (n \div (256 * 256 * 256)) % 256 = e
    /\ (n \div (256 * 256)) % 256 = z
    /\ (n \div 256) % 256 = y
    /\ n % 256 = x
    /\ e * 256 * 256 * 256 + z * 256 * 256 + y * 256 + x = n

LEMMA Digits ==
  ASSUME NEW n \in Nat, n < 128 * 256 * 256 * 256
  PROVE  \E e \in 0..127, z \in 0..255, y \in 0..255, x \in 0..255 :
           DigitsOf(n, e, z, y, x)
<1>1. PICK a \in Nat, x \in 0..255 : a = n \div 256 /\ x = n % 256 /\ n = 256 * a + x
  <2>1. n \div 256 \in Int /\ n % 256 \in Int
    OBVIOUS
  <2> QED  BY <2>1, DivMod
<1>2. PICK c \in Nat, y \in 0..255 : c = a \div 256 /\ y = a % 256 /\ a = 256 * c + y
  <2>1. a \div 256 \in Int /\ a % 256 \in Int
    OBVIOUS
  <2> QED  BY <2>1, DivMod
<1>3. PICK e \in Nat, z \in 0..255 : e = c \div 256 /\ z = c % 256 /\ c = 256 * e + z
  <2>1. c \div 256 \in Int /\ c % 256 \in Int
    OBVIOUS
  <2> QED  BY <2>1, DivMod
<1>4. n \div (256 * 256) = c
  BY <1>1, <1>2
<1>5. n \div (256 * 256 * 256) = e
  BY <1>1, <1>2, <1>3
<1>6. e < 128
  BY <1>1, <1>2, <1>3
<1>7. e % 256 = e /\ e \in 0..127
  BY <1>6
<1>8. e * 256 * 256 * 256 + z * 256 * 256 + y * 256 + x = n
  BY <1>1, <1>2, <1>3
<1>9. /\ (n \div (256 * 256 * 256)) % 256 = e
      /\ (n \div (256 * 256)) % 256 = z
      /\ (n \div 256) % 256 = y
      /\ n % 256 = x
  BY <1>1, <1>2, <1>3, <1>4, <1>5, <1>7
<1>10. DigitsOf(n, e, z, y, x)
  BY <1>8, <1>9 DEF DigitsOf
<1> QED  BY <1>7, <1>10

\* A header gives back the length it was made from (Int32ToByte, ByteToInt32).
LEMMA HeaderValue ==
  ASSUME NEW n \in Nat, n < 128 * 256 * 256 * 256, NEW d \in Seq(Byte), Len(d) = 4,
         \A y \in 1..4 : d[y] = Int32ToByte(n)[y]
  PROVE  ByteToInt32(d) = n
<1>1. PICK e \in 0..127, z \in 0..255, y \in 0..255, x \in 0..255 :
        DigitsOf(n, e, z, y, x)
  BY Digits
<1>2. /\ Int32ToByte(n) = <<e, z, y, x>>
      /\ e * 256 * 256 * 256 + z * 256 * 256 + y * 256 + x = n
  BY <1>1 DEF Int32ToByte, DigitsOf
<1>3. d[1] = e /\ d[2] = z /\ d[3] = y /\ d[4] = x
  BY <1>2
<1>4. ByteToInt32(d) = e * 256 * 256 * 256 + z * 256 * 256 + y * 256 + x
  BY <1>3 DEF ByteToInt32
<1> QED  BY <1>2, <1>4

\* d is the first n bytes of m.
FirstOf(d, n, m) == d \in Seq(Byte) /\ Len(d) = n /\ \A y \in 1..n : d[y] = m[y]

\* More of a body is read behind what of it is cached.
LEMMA BodyRead ==
  ASSUME NEW ms, NEW start, NEW all, NEW h, NEW w, NEW whole, NEW b \in Seq(Byte),
         NEW r \in Nat, Stream(ms, start, all, h, w, whole, b, r),
         NEW g \in 1..Len(ms), NEW d, FirstOf(d, Len(d), ms[g]),
         r = start[g] + 4 + Len(d), Len(ms[g]) \in Nat,
         NEW k \in Nat, k <= Len(b), Len(d) + k <= Len(ms[g])
  PROVE  FirstOf(d \o SubSeq(b, 1, k), Len(d) + k, ms[g])
<1> DEFINE t == SubSeq(b, 1, k)
           c == d \o t
<1>1. /\ Len(b) \in Nat /\ Len(d) \in Nat /\ d \in Seq(Byte)
      /\ \A y \in 1..Len(d) : d[y] = ms[g][y]
  BY LenProperties DEF FirstOf
<1>2. t \in Seq(Byte) /\ Len(t) = k /\ \A y \in 1..k : t[y] = b[y]
  BY <1>1, SubSeqBytes
<1> HIDE DEF t
<1>3. /\ c \in Seq(Byte) /\ Len(c) = Len(d) + Len(t)
      /\ \A x \in 1..Len(d) : c[x] = d[x]
      /\ \A y \in 1..Len(t) : c[Len(d) + y] = t[y]
  BY Zenon, <1>1, <1>2, ConcatParts
<1> HIDE DEF c
<1>4. ASSUME NEW y \in 1..(Len(d) + k)  PROVE c[y] = ms[g][y]
  <2>1. CASE y <= Len(d)
    BY <1>1, <1>3, <2>1
  <2>2. CASE y > Len(d)
    <3> DEFINE x == y - Len(d)
    <3>1. x \in 1..k /\ y = Len(d) + x /\ x \in 1..Len(b) /\ y \in 1..Len(ms[g])
      BY <1>1, <2>2, SMTT(60)
    <3> HIDE DEF x
    <3>2. c[y] = b[x] /\ b[x] = all[r + x]
      BY <1>2, <1>3, <3>1 DEF Stream
    <3>3. start[g] \in Nat
      BY MessageWithin DEF Stream
    <3> DEFINE q == start[g]
               l == Len(d)
    <3>4. q \in Nat /\ l \in Nat /\ x \in Nat /\ r = q + 4 + l /\ y = l + x
      BY <1>1, <3>1, <3>3
    <3>5. all[q + 4 + y] = ms[g][y]
      BY <3>1 DEF Stream, Layout, HEAD
    <3> HIDE DEF q, l
    <3>6. r + x = q + 4 + y
      BY ONLY <3>4
    <3> QED  BY <3>2, <3>5, <3>6
  <2> QED  BY <1>1, <2>1, <2>2
<1>5. Len(c) = Len(d) + k
  BY <1>2, <1>3
<1> QED  BY <1>3, <1>4, <1>5 DEF c, t, FirstOf

\* The end of message g.
LEMMA MessageEnd ==
  ASSUME NEW ms, NEW start, NEW all, Layout(ms, start, all), NEW g \in 1..Len(ms),
         Len(ms[g]) \in Nat
  PROVE  start[g] \in Nat /\ start[g + 1] = start[g] + 4 + Len(ms[g])
BY MessageWithin
----------------------------------------------------------------------------
(* The connections.                                                        *)

\* r bytes of c's stream were read.
StreamOf(c, start, all, r) ==
    Stream(sent[c], start, all, habit[c], wire[c], link[c] # "reset", rbuf[c], r)

\* Nothing was read of a connection not accepted yet.
NewOK(c) == got[c] = << >> /\ \E start, all : StreamOf(c, start, all, 0)

\* c was not accepted yet.
Early(c) == link[c] = "none" \/ c \in Queued

\* The handler of slot i has the message just delivered.
Handing(i) == pc = "callback" /\ i = cur

\* A slot between two messages, or inside the body of one with the part that was read
\* in its cache; a client that sends ahead has its bodies read at once.
Between(i, start, r) ==
    /\ ~Handing(i) => slots[i].explen = 0 /\ slots[i].datacache = << >>
    /\ r = start[Len(got[ConnOf(i)]) + 1]

Inside(i, start, r) ==
    LET c == ConnOf(i)
        g == Len(got[c]) + 1
        d == slots[i].datacache
    IN /\ ~Handing(i)
       /\ g <= Len(sent[c]) /\ slots[i].explen = Len(sent[c][g])
       /\ Len(d) < Len(sent[c][g])
       /\ \A y \in 1..Len(d) : d[y] = sent[c][g][y]
       /\ r = start[g] + 4 + Len(d)
       /\ "pipeline" \in habit[c] => d = << >>

SlotOK(i) ==
    \E start, all, r : /\ StreamOf(ConnOf(i), start, all, r)
                       /\ Between(i, start, r) \/ Inside(i, start, r)

\* What ReceiveData still asks for, and what it got in this call.
Asking ==
    pc = "recv" =>
        LET s == slots[cur]
        IN /\ s.explen = 0 => rx.len = 4 /\ rx.sum = 0
           /\ s.explen # 0 => /\ rx.len = s.explen - Len(s.datacache) + rx.sum
                              /\ rx.sum <= Len(s.datacache)

\* A client sends what its habits allow.
Habitual(c) ==
    /\ "pipeline" \notin habit[c] => Len(sent[c]) <= Len(got[c]) + 1
    /\ "long" \notin habit[c] => \A n \in 1..Len(sent[c]) : Len(sent[c][n]) <= MTU

FrameInv ==
    /\ FramingKept
    /\ Asking
    /\ \A c \in Conns : Habitual(c) /\ (Early(c) => NewOK(c))
    /\ \A i \in DOMAIN slots : slots[i].state = CONNECTED => SlotOK(i)

\* Nothing of connection c moves.
Same(c) == /\ sent'[c] = sent[c] /\ got'[c] = got[c]
           /\ habit'[c] = habit[c] /\ link'[c] = link[c]
           /\ wire'[c] = wire[c] /\ rbuf'[c] = rbuf[c]

LEMMA SlotKeeps ==
  ASSUME NEW i, SlotOK(i), Same(ConnOf(i)), ConnOf(i)' = ConnOf(i),
         slots'[i].explen = slots[i].explen, slots'[i].datacache = slots[i].datacache,
         Handing(i)' <=> Handing(i)
  PROVE  SlotOK(i)'
<1>1. PICK start, all, r : /\ StreamOf(ConnOf(i), start, all, r)
                           /\ Between(i, start, r) \/ Inside(i, start, r)
  BY DEF SlotOK
<1> DEFINE c == ConnOf(i)
<1>2. StreamOf(ConnOf(i), start, all, r)'
  BY <1>1, Zenon DEF StreamOf, Same
<1>3. Between(i, start, r) => Between(i, start, r)'
  BY DEF Between, Same
<1>4. Inside(i, start, r) => Inside(i, start, r)'
  BY Zenon DEF Inside, Same
<1> QED  BY <1>1, <1>2, <1>3, <1>4 DEF SlotOK

LEMMA NewKeeps ==
  ASSUME NEW c, NewOK(c), Same(c)
  PROVE  NewOK(c)'
<1>1. PICK start, all : StreamOf(c, start, all, 0)
  BY DEF NewOK
<1>2. StreamOf(c, start, all, 0)'
  BY <1>1, Zenon DEF StreamOf, Same
<1> QED  BY <1>2 DEF NewOK, Same

\* A live slot's connection is known, not dead, and no other slot's.
LEMMA LiveConn ==
  ASSUME ConnInv, NEW i \in DOMAIN slots, slots[i].state = CONNECTED
  PROVE  /\ ConnOf(i) \in Conns /\ ~Early(ConnOf(i)) /\ ConnOf(i) \notin Dead
         /\ \A j \in DOMAIN slots :
              slots[j].state = CONNECTED /\ ConnOf(j) = ConnOf(i) => j = i
<1>1. ConnOf(i) \in Served
  BY DEF Served
<1>2. ConnOf(i) \in Conns /\ \E fd \in Fds : peer[fd] = ConnOf(i)
  BY <1>1, ServedSeen DEF ConnInv
<1>3. closed[ConnOf(i)] # 1 /\ closed[ConnOf(i)] <= 1 /\ ConnOf(i) \notin failed
  BY <1>1, <1>2, OnceServed DEF ConnInv
<1>4. closed[ConnOf(i)] \in Nat
  BY <1>2 DEF ConnInv, IInv, TypeOK
<1>5. ConnOf(i) \notin Dead
  BY <1>3, <1>4 DEF Dead
<1>6. \A k \in 1..(i - 1) : slots[k].socket # slots[i].socket
  BY DEF ConnInv, IInv, TableIntegrity
<1>7. ~Early(ConnOf(i))
  BY <1>2 DEF Early, Unseen, ConnInv, AcceptedOnce
<1> QED  BY <1>2, <1>5, <1>6, <1>7, ServedAlone DEF ConnInv

\* A step on the live slot k = cur, and on its connection only, leaves all other slots
\* and the connections still unknown as they are.
LEMMA CurStep ==
  ASSUME ConnInv, FrameInv, NEW k \in DOMAIN slots, k = cur, slots[k].state = CONNECTED,
         NEW s \in SlotType, slots' = [slots EXCEPT ![k] = s],
         s.socket = slots[k].socket, SlotOK(k)',
         UNCHANGED <<peer, backlog, link>>,
         \A c \in Conns \ {ConnOf(k)} : Same(c),
         pc' = "callback" => cur' = k
  PROVE  /\ \A i \in DOMAIN slots' : slots'[i].state = CONNECTED => SlotOK(i)'
         /\ \A c \in Conns : Early(c)' => NewOK(c)'
<1>1. /\ ConnOf(k) \in Conns /\ ~Early(ConnOf(k))
      /\ \A j \in DOMAIN slots :
           slots[j].state = CONNECTED /\ ConnOf(j) = ConnOf(k) => j = k
  BY LiveConn
<1>2. DOMAIN slots' = DOMAIN slots /\ \A j \in DOMAIN slots : j # k => slots'[j] = slots[j]
  BY DEF ConnInv, IInv, TypeOK
<1>3. ASSUME NEW i \in DOMAIN slots, i # k, slots'[i].state = CONNECTED  PROVE SlotOK(i)'
  <2>1. slots'[i] = slots[i] /\ ConnOf(i)' = ConnOf(i)
    BY <1>2, <1>3 DEF ConnOf
  <2>2. ConnOf(i) \in Conns \ {ConnOf(k)} /\ SlotOK(i)
    BY <1>1, <1>3, <2>1, LiveConn DEF FrameInv
  <2>3. Handing(i)' <=> Handing(i)
    BY <1>3 DEF Handing
  <2> QED  BY <2>1, <2>2, <2>3, SlotKeeps
<1>4. ASSUME NEW c \in Conns, Early(c)'  PROVE NewOK(c)'
  <2>1. Early(c)
    BY <1>4 DEF Early, Queued
  <2> QED  BY <1>1, <2>1, NewKeeps DEF FrameInv
<1>5. ASSUME NEW i \in DOMAIN slots', slots'[i].state = CONNECTED  PROVE SlotOK(i)'
  <2>1. CASE i = k
    BY <2>1
  <2> QED  BY <1>2, <1>3, <1>5, <2>1
<1> QED  BY <1>4, <1>5

\* A message that was sent is a body of bytes, not empty, its length an int's.
LEMMA MsgFacts ==
  ASSUME TypeOK, Careful, NEW c \in Conns, NEW n \in 1..Len(sent[c])
  PROVE  /\ sent[c][n] \in Msgs /\ sent[c][n] \in Seq(Byte)
         /\ Len(sent[c][n]) \in Nat /\ Len(sent[c][n]) # 0
         /\ Len(sent[c][n]) < 128 * 256 * 256 * 256
<1>1. sent[c] \in Seq(Msgs)
  BY DEF TypeOK
<1>2. sent[c][n] \in Msgs
  BY <1>1, ElementOfSeq
<1>3. sent[c][n] \in Seq(Byte) /\ sent[c][n] # << >>
  BY <1>2, MsgsAssumption
<1>4. Len(sent[c][n]) \in Nat /\ Len(sent[c][n]) # 0
  BY <1>3, LenProperties, EmptySeq
<1>5. Len(sent[c][n]) < 128 * 256 * 256 * 256
  BY <1>2 DEF Careful
<1> QED  BY <1>2, <1>3, <1>4, <1>5

\* The message whose bytes are next to read on c.
Nxt(c) == Len(got[c]) + 1

LEMMA NxtBound ==
  ASSUME ConnInv, FrameInv, NEW c \in Conns
  PROVE  /\ got[c] \in Seq(Seq(Byte)) /\ Len(got[c]) \in Nat
         /\ sent[c] \in Seq(Msgs) /\ Len(sent[c]) \in Nat
         /\ rbuf[c] \in Seq(Byte) /\ Len(rbuf[c]) \in Nat
         /\ Nxt(c) \in 1..(Len(sent[c]) + 1)
<1>1. got[c] \in Seq(Seq(Byte)) /\ sent[c] \in Seq(Msgs) /\ rbuf[c] \in Seq(Byte)
  BY DEF ConnInv, IInv, TypeOK
<1>2. Len(got[c]) \in Nat /\ Len(sent[c]) \in Nat /\ Len(rbuf[c]) \in Nat
  BY <1>1, LenProperties
<1>3. Len(got[c]) <= Len(sent[c])
  BY DEF FrameInv, FramingKept
<1> QED  BY <1>1, <1>2, <1>3 DEF Nxt

\* ReceiveData reads on a live slot, of a stream the slot has read up to.
LEMMA Reads ==
  ASSUME ConnInv, FrameInv, Readable
  PROVE  /\ pc = "recv" /\ cur \in DOMAIN slots /\ slots[cur].state = CONNECTED
         /\ slots[cur].datacache \in Seq(Byte) /\ ConnOf(cur) \in Conns
         /\ RecvQueue = rbuf[ConnOf(cur)] /\ RecvQueue # << >>
         /\ \E start, all, r :
              /\ StreamOf(ConnOf(cur), start, all, r)
              /\ \/ /\ slots[cur].explen = 0 /\ slots[cur].datacache = << >>
                    /\ r = start[Nxt(ConnOf(cur))]
                 \/ Inside(cur, start, r)
<1>1. pc = "recv" /\ cur \in DOMAIN slots /\ slots[cur].state = CONNECTED
  BY DEF Readable, ConnInv, IInv, TypeOK, RecvOnLive
<1>2. slots[cur].datacache \in Seq(Byte) /\ ConnOf(cur) \in Conns
  BY <1>1, SlotFacts DEF ConnInv, IInv
<1>3. SlotOK(cur) /\ ~Handing(cur)
  BY <1>1 DEF FrameInv, Handing
<1> QED  BY <1>1, <1>2, <1>3 DEF Readable, RecvQueue, SlotOK, Between, Nxt

\* A header is read whole and gives the length of the next message.
LEMMA ReadsHead ==
  ASSUME Careful, ConnInv, FrameInv, Readable, slots[cur].explen = 0
  PROVE  LET c == ConnOf(cur)
         IN /\ Nxt(c) \in 1..Len(sent[c])
            /\ ByteToInt32(Cache) = Len(sent[c][Nxt(c)])
            /\ Count = 4 /\ rx.len = 4 /\ rx.sum = 0 /\ Len(rbuf[c]) >= 4
            /\ \E start, all : StreamOf(c, start, all, start[Nxt(c)])
<1> DEFINE c == ConnOf(cur)
           g == Nxt(c)
           b == rbuf[c]
<1>1. /\ c \in Conns /\ b = RecvQueue /\ b # << >> /\ pc = "recv"
      /\ g \in 1..(Len(sent[c]) + 1) /\ Len(sent[c]) \in Nat
      /\ b \in Seq(Byte) /\ Len(b) \in Nat
  BY Reads, NxtBound
<1>2. PICK start, all, r : /\ StreamOf(c, start, all, r)
                           /\ \/ slots[cur].datacache = << >> /\ r = start[g]
                              \/ Inside(cur, start, r)
  BY Reads
<1>3. ~Inside(cur, start, r)
  <2> SUFFICES ASSUME Inside(cur, start, r)  PROVE FALSE
    OBVIOUS
  <2>1. g <= Len(sent[c]) /\ Len(sent[c][g]) = 0
    BY DEF Inside, Nxt
  <2>2. g \in 1..Len(sent[c])
    BY <1>1, <2>1
  <2> QED  BY <1>1, <2>1, <2>2, MsgFacts DEF ConnInv, IInv
<1>4. r = start[g] /\ slots[cur].datacache = << >>
  BY <1>2, <1>3
<1>5. Stream(sent[c], start, all, habit[c], wire[c], link[c] # "reset", b, r) /\ r \in Nat
  BY <1>2 DEF StreamOf, Stream
<1>6. /\ g \in 1..Len(sent[c]) /\ Len(b) >= 4
      /\ \A y \in 1..4 : b[y] = Int32ToByte(Len(sent[c][g]))[y]
  <2> DEFINE ms == sent[c]
             h == habit[c]
             w == wire[c]
             up == link[c] # "reset"
  <2>1. /\ Stream(ms, start, all, h, w, up, b, r) /\ r \in Nat /\ r = start[g]
        /\ g \in 1..(Len(ms) + 1) /\ b \in Seq(Byte) /\ b # << >>
    BY <1>1, <1>4, <1>5
  <2> HIDE DEF ms, h, w, up, b, g, c
  <2>2. g \in 1..Len(ms) /\ HeadAt(b, Len(ms[g]))
    BY <2>1, HeadArrived, Zenon
  <2> QED  BY <2>2 DEF ms, HeadAt
<1>7. rx.len = 4 /\ rx.sum = 0
  BY <1>1 DEF FrameInv, Asking
<1>8. Count = 4
  <2>1. Min2(MTU, 4) = 4 /\ MTU \in Nat
    BY MTUAssumption DEF Min2, HEAD
  <2>2. Request = 4
    BY <1>7, <2>1 DEF Request
  <2> DEFINE x == Len(RecvQueue)
  <2>3. x \in Nat /\ x >= 4 /\ Count = Min2(x, 4)
    BY <1>1, <1>6, <2>2 DEF Count
  <2> HIDE DEF x
  <2> QED  BY <2>3 DEF Min2
<1>9. Cache \in Seq(Byte) /\ Len(Cache) = 4 /\ \A y \in 1..4 : Cache[y] = b[y]
  <2> DEFINE t == SubSeq(b, 1, 4)
             d == << >>
  <2>1. t \in Seq(Byte) /\ Len(t) = 4 /\ \A y \in 1..4 : t[y] = b[y]
    BY <1>1, <1>6, SubSeqBytes
  <2>2. d \in Seq(Byte) /\ Len(d) = 0 /\ Cache = d \o t
    BY <1>1, <1>4, <1>8, EmptySeq DEF Cache
  <2> HIDE DEF t, d
  <2>3. /\ d \o t \in Seq(Byte) /\ Len(d \o t) = Len(d) + Len(t)
        /\ \A y \in 1..Len(t) : (d \o t)[Len(d) + y] = t[y]
    BY <2>1, <2>2, ConcatParts, Zenon
  <2> QED  BY <2>1, <2>2, <2>3
<1>10. Len(sent[c][g]) \in Nat /\ Len(sent[c][g]) < 128 * 256 * 256 * 256
  <2>1. TypeOK /\ c \in Conns /\ g \in 1..Len(sent[c])
    BY <1>1, <1>6 DEF ConnInv, IInv
  <2> HIDE DEF c, g
  <2> QED  BY ONLY <2>1, Careful, MsgFacts
<1>11. ByteToInt32(Cache) = Len(sent[c][g])
  <2>1. \A y \in 1..4 : Cache[y] = Int32ToByte(Len(sent[c][g]))[y]
    BY <1>6, <1>9
  <2> QED  BY <1>9, <1>10, <2>1, HeaderValue
<1> QED  BY <1>2, <1>4, <1>6, <1>7, <1>8, <1>11

\* A body is never read beyond its end, and that of a client that sends ahead is read
\* at once.
LEMMA ReadsBody ==
  ASSUME Careful, ConnInv, FrameInv, Readable, slots[cur].explen # 0
  PROVE  LET c == ConnOf(cur)
             g == Nxt(c)
             d == slots[cur].datacache
         IN /\ g \in 1..Len(sent[c]) /\ slots[cur].explen = Len(sent[c][g])
            /\ Count \in Nat /\ Count <= Len(rbuf[c])
            /\ Len(d) + Count <= Len(sent[c][g])
            /\ rx.sum \in Nat /\ rx.sum <= Len(d)
            /\ rx.len = Len(sent[c][g]) - Len(d) + rx.sum
            /\ "pipeline" \in habit[c] => Len(d) + Count = Len(sent[c][g])
            /\ \E start, all :
                 /\ StreamOf(c, start, all, start[g] + 4 + Len(d)) /\ start[g] \in Nat
                 /\ start[g + 1] = start[g] + 4 + Len(sent[c][g])
                 /\ FirstOf(Cache, Len(d) + Count, sent[c][g])
<1> DEFINE c == ConnOf(cur)
           g == Nxt(c)
           b == rbuf[c]
           d == slots[cur].datacache
           m == sent[c][g]
           ms == sent[c]
           h == habit[c]
           w == wire[c]
           up == link[c] # "reset"
<1>1. /\ c \in Conns /\ b = RecvQueue /\ b # << >> /\ pc = "recv"
      /\ b \in Seq(Byte) /\ d \in Seq(Byte)
      /\ Len(b) \in Nat /\ Len(d) \in Nat /\ Len(ms) \in Nat /\ Len(got[c]) \in Nat
      /\ g = Len(got[c]) + 1 /\ g \in 1..(Len(ms) + 1)
  BY Reads, NxtBound, LenProperties DEF Nxt
<1>2. PICK start, all, r : StreamOf(c, start, all, r) /\ Inside(cur, start, r)
  BY Reads
<1>3. /\ g <= Len(ms) /\ slots[cur].explen = Len(m) /\ Len(d) < Len(m)
      /\ \A y \in 1..Len(d) : d[y] = m[y]
      /\ r = start[g] + 4 + Len(d)
      /\ "pipeline" \in h => d = << >>
  BY <1>2 DEF Inside, Nxt
<1>4. g \in 1..Len(ms)
  BY <1>1, <1>3
<1>5. Len(m) \in Nat
  BY <1>1, <1>4, MsgFacts DEF ConnInv, IInv
<1>6. /\ rx.len = Len(m) - Len(d) + rx.sum /\ rx.sum <= Len(d) /\ rx.sum \in Nat
  BY <1>1, <1>3 DEF FrameInv, Asking, ConnInv, IInv, TypeOK
<1>7. Stream(ms, start, all, h, w, up, b, r) /\ r \in Nat /\ Layout(ms, start, all)
  BY <1>2 DEF StreamOf, Stream
<1>8. start[g] \in Nat /\ start[g + 1] = start[g] + 4 + Len(m)
  BY <1>4, <1>5, <1>7, MessageEnd
<1>9. /\ Count = Min2(Len(b), Request)
      /\ Request = IF rx.len < 0 THEN Len(b) ELSE Min2(MTU, rx.len)
  BY <1>1 DEF Count, Request
<1>10. /\ "pipeline" \notin h => Len(ms) <= Len(got[c]) + 1
       /\ "long" \notin h => Len(m) <= MTU
       /\ "pipeline" \in h => "long" \notin h /\ "split_body" \notin h
  BY <1>1, <1>4 DEF FrameInv, Habitual, Careful, ConnInv, IInv, TypeOK
<1> HIDE DEF c, g, b, d, m, ms, h, w, up
<1>11. ASSUME "pipeline" \notin h
       PROVE  /\ Count \in Nat /\ Count <= Len(b) /\ Len(d) + Count <= Len(m)
              /\ "pipeline" \in h => Len(d) + Count = Len(m)
  <2>1. g = Len(ms)
    BY <1>1, <1>4, <1>10, <1>11
  <2>2. Len(b) <= Len(m) - Len(d)
    BY <1>1, <1>3, <1>4, <1>5, <1>7, <2>1, LastArrived DEF m, ms
  <2> DEFINE L == Len(m)
             D == Len(d)
             X == Len(b)
  <2>3. L \in Nat /\ D \in Nat /\ X \in Nat /\ rx.sum \in Nat /\ MTU \in Nat /\ MTU >= 4
        /\ X <= L - D /\ rx.len = L - D + rx.sum /\ D < L
        /\ Count = Min2(X, Request) /\ Request = IF rx.len < 0 THEN X ELSE Min2(MTU, rx.len)
    BY <1>1, <1>3, <1>5, <1>6, <1>9, <2>2, MTUAssumption DEF HEAD
  <2> HIDE DEF L, D, X
  <2>4. Request \in Nat
    BY <2>3 DEF Min2
  <2>5. Count \in Nat /\ Count <= X /\ D + Count <= L
    BY <2>3, <2>4 DEF Min2
  <2> QED  BY <1>11, <2>5 DEF L, D, X
<1>12. ASSUME "pipeline" \in h
       PROVE  /\ Count \in Nat /\ Count <= Len(b) /\ Len(d) + Count <= Len(m)
              /\ "pipeline" \in h => Len(d) + Count = Len(m)
  <2>1. d = << >> /\ Len(d) = 0 /\ "split_body" \notin h /\ Len(m) <= MTU
    BY <1>3, <1>10, <1>12
  <2>2. r = start[g] + 4
    BY <1>3, <1>8, <2>1
  <2>3. Len(b) >= Len(m)
    BY <1>1, <1>4, <1>5, <1>7, <2>1, <2>2, BodyArrived DEF m, ms
  <2> DEFINE L == Len(m)
             X == Len(b)
  <2>4. L \in Nat /\ X \in Nat /\ L <= MTU /\ X >= L /\ rx.len = L /\ MTU \in Nat
        /\ Count = Min2(X, Request) /\ Request = IF rx.len < 0 THEN X ELSE Min2(MTU, rx.len)
    BY <1>1, <1>5, <1>6, <1>9, <2>1, <2>3, MTUAssumption
  <2> HIDE DEF L, X
  <2>5. Request = L
    BY <2>4 DEF Min2
  <2>6. Count = L
    BY <2>4, <2>5 DEF Min2
  <2> QED  BY <1>1, <2>1, <2>3, <2>4, <2>6 DEF L
<1>13. /\ Count \in Nat /\ Count <= Len(b) /\ Len(d) + Count <= Len(m)
       /\ "pipeline" \in h => Len(d) + Count = Len(m)
  BY <1>11, <1>12
<1>14. Cache = d \o SubSeq(b, 1, Count)
  BY <1>1 DEF Cache, d
<1>15. FirstOf(Cache, Len(d) + Count, m)
  <2>1. FirstOf(d, Len(d), ms[g]) /\ m = ms[g]
    BY <1>1, <1>3 DEF FirstOf, m, ms
  <2> DEFINE k == Count
  <2>2. /\ k \in Nat /\ k <= Len(b) /\ Len(d) + k <= Len(ms[g]) /\ Len(ms[g]) \in Nat
        /\ b \in Seq(Byte) /\ g \in 1..Len(ms) /\ r \in Nat
        /\ Stream(ms, start, all, h, w, up, b, r) /\ r = start[g] + 4 + Len(d)
    BY <1>1, <1>3, <1>4, <1>5, <1>7, <1>13, <2>1
  <2> HIDE DEF k
  <2>3. FirstOf(d \o SubSeq(b, 1, k), Len(d) + k, ms[g])
    BY <2>1, <2>2, BodyRead, Zenon
  <2> QED  BY <1>14, <2>1, <2>3 DEF k
<1>16. StreamOf(c, start, all, start[g] + 4 + Len(d))
  BY <1>2, <1>3
<1> QED  BY <1>3, <1>4, <1>6, <1>8, <1>13, <1>15, <1>16 DEF c, g, b, d, m, ms, h

\* Consume, on the stream of the connection it reads from.
LEMMA StreamConsume ==
  ASSUME ConnInv, NEW c \in Conns, NEW start, NEW all, NEW r, StreamOf(c, start, all, r),
         NEW k \in Nat, k <= Len(rbuf[c]),
         rbuf' = [rbuf EXCEPT ![c] = SubSeq(@, k + 1, Len(@))],
         UNCHANGED <<sent, habit, wire, link>>
  PROVE  StreamOf(c, start, all, r + k)'
<1> DEFINE ms == sent[c]
           h == habit[c]
           w == wire[c]
           up == link[c] # "reset"
           b == rbuf[c]
<1>1. Stream(ms, start, all, h, w, up, b, r) /\ b \in Seq(Byte) /\ r \in Nat
  BY DEF StreamOf, Stream
<1> DEFINE b2 == SubSeq(b, k + 1, Len(b))
<1>2. rbuf'[c] = b2
  BY DEF ConnInv, IInv, TypeOK
<1>3. k <= Len(b)
  OBVIOUS
<1> HIDE DEF ms, h, w, up, b
<1>4. Stream(ms, start, all, h, w, up, b2, r + k)
  BY <1>1, <1>3, StreamRead, Zenon
<1> HIDE DEF b2
<1>5. Stream(sent'[c], start, all, habit'[c], wire'[c], link'[c] # "reset", rbuf'[c], r + k)
  BY <1>2, <1>4, Zenon DEF ms, h, w, up
<1> QED  BY <1>5, Zenon DEF StreamOf

\* Only c's own state moves when its bytes are read.
LEMMA OthersSame ==
  ASSUME ConnInv, NEW c \in Conns, UNCHANGED <<sent, habit, wire, link>>,
         rbuf' = rbuf \/ (\E x : rbuf' = [rbuf EXCEPT ![c] = x]),
         got' = got \/ (\E y : got' = [got EXCEPT ![c] = y])
  PROVE  \A d \in Conns \ {c} : Same(d)
BY DEF Same, ConnInv, IInv, TypeOK

LEMMA HeadStep ==
  ASSUME Careful, ConnInv, FrameInv, RecvHead
  PROVE  FrameInv'
<1>1. Readable /\ slots[cur].explen = 0
  BY DEF RecvHead
<1>2. PICK k \in DOMAIN slots, c \in Conns :
         /\ k = cur /\ c = ConnOf(k) /\ slots[k].state = CONNECTED
         /\ pc = "recv"
  BY <1>1, Reads
<1>3. PICK g : g = Nxt(c)
  OBVIOUS
<1>4. /\ g \in 1..Len(sent[c]) /\ ByteToInt32(Cache) = Len(sent[c][g])
      /\ Count = 4 /\ Len(rbuf[c]) >= 4
      /\ \E start, all : StreamOf(c, start, all, start[g])
  BY <1>3, <1>1, <1>2, ReadsHead
<1>5. PICK start, all : StreamOf(c, start, all, start[g])
  BY <1>4
<1>6. Cache \in Seq(Byte) /\ ByteToInt32(Cache) \in Int /\ << >> \in Seq(Byte)
  BY <1>1, CountType, LengthType, EmptyBytes DEF ConnInv, IInv
<1> DEFINE n == ByteToInt32(Cache)
           s == [slots[k] EXCEPT !.datacache = << >>, !.explen = n]
<1>7. slots' = [slots EXCEPT ![k] = s] /\ pc' = "scan"
      /\ rbuf' = [rbuf EXCEPT ![c] = SubSeq(@, 4 + 1, Len(@))]
      /\ UNCHANGED <<sent, habit, wire, link, got, peer, backlog>>
  BY <1>2, <1>4 DEF RecvHead, NextSlot, Consume, kernel, ghosts
<1>8. s \in SlotType /\ s.socket = slots[k].socket
  BY <1>6, EntryData DEF ConnInv, IInv
<1>9. slots[k] \in SlotType
  BY SlotFacts DEF ConnInv, IInv
<1>10. s.datacache = << >> /\ s.explen = Len(sent[c][g])
  BY <1>4, <1>9 DEF SlotType
<1> HIDE DEF s, n
<1>11. slots'[k] = s /\ ConnOf(k)' = c
  BY <1>2, <1>7, <1>8 DEF ConnOf, ConnInv, IInv, TypeOK
<1>12. StreamOf(c, start, all, start[g] + 4)'
  <2> DEFINE f == 4
  <2>1. f \in Nat /\ f <= Len(rbuf[c]) /\ rbuf' = [rbuf EXCEPT ![c] = SubSeq(@, f + 1, Len(@))]
    BY <1>4, <1>7
  <2> HIDE DEF f
  <2>2. UNCHANGED <<sent, habit, wire, link>>
    BY <1>7
  <2>3. StreamOf(c, start, all, start[g] + f)'
    BY <1>5, <2>1, <2>2, StreamConsume, Zenon
  <2> QED  BY <2>3 DEF f
<1>13. SlotOK(k)'
  <2>1. /\ g <= Len(sent[c]) /\ Len(sent[c][g]) \in Nat /\ Len(sent[c][g]) # 0
        /\ Nxt(c)' = g /\ start[g] \in Nat
    BY <1>3, <1>4, <1>5, <1>7, MsgFacts, MessageEnd
       DEF ConnInv, IInv, Nxt, StreamOf, Stream
  <2>2. PICK e : e = << >> /\ Len(e) = 0
    OBVIOUS
  <2> DEFINE m == sent'[c][g]
  <2>3. /\ ~Handing(k)' /\ Len(got'[c]) + 1 = g /\ g <= Len(sent'[c])
        /\ slots'[k].explen = Len(m) /\ slots'[k].datacache = e
        /\ start[g] + 4 = start[g] + 4 + Len(e) /\ Len(e) < Len(m)
        /\ \A y \in 1..Len(e) : e[y] = m[y]
    BY <1>3, <1>7, <1>10, <1>11, <2>1, <2>2 DEF Handing, Nxt
  <2>4. Inside(k, start, start[g] + 4)'
    BY <1>11, <2>2, <2>3, Zenon DEF Inside
  <2> QED  BY <1>11, <1>12, <2>4 DEF SlotOK
<1>14. \A d \in Conns \ {c} : Same(d)
  BY <1>7, OthersSame
<1>15. /\ \A i \in DOMAIN slots' : slots'[i].state = CONNECTED => SlotOK(i)'
       /\ \A d \in Conns : Early(d)' => NewOK(d)'
  BY <1>2, <1>7, <1>8, <1>13, <1>14, CurStep
<1>16. FramingKept' /\ Asking' /\ \A d \in Conns : Habitual(d)'
  BY <1>7 DEF FrameInv, FramingKept, Asking, Habitual
<1> QED  BY <1>15, <1>16 DEF FrameInv

LEMMA MoreStep ==
  ASSUME Careful, ConnInv, FrameInv, RecvMore
  PROVE  FrameInv'
<1>1. Readable /\ rx.sum + Count # rx.len
  BY DEF RecvMore
<1>2. PICK k \in DOMAIN slots, c \in Conns :
         k = cur /\ c = ConnOf(k) /\ slots[k].state = CONNECTED /\ pc = "recv"
  BY <1>1, Reads
<1>3. PICK g, d, e, n, m : /\ g = Nxt(c) /\ d = slots[k].datacache /\ e = Cache /\ n = Count
                           /\ m = sent[c][g]
  OBVIOUS
<1>4. slots[cur].explen # 0
  BY <1>1, ReadsHead
<1>5. /\ g \in 1..Len(sent[c]) /\ slots[k].explen = Len(m)
      /\ n \in Nat /\ n <= Len(rbuf[c]) /\ Len(d) + n <= Len(m)
      /\ rx.sum \in Nat /\ rx.sum <= Len(d) /\ rx.len = Len(m) - Len(d) + rx.sum
      /\ "pipeline" \in habit[c] => Len(d) + n = Len(m)
      /\ \E start, all : /\ StreamOf(c, start, all, start[g] + 4 + Len(d)) /\ start[g] \in Nat
                         /\ FirstOf(e, Len(d) + n, m)
  BY <1>1, <1>2, <1>3, <1>4, ReadsBody
<1>6. PICK start, all : /\ StreamOf(c, start, all, start[g] + 4 + Len(d)) /\ start[g] \in Nat
                        /\ FirstOf(e, Len(d) + n, m)
  BY <1>5
<1>7. /\ e \in Seq(Byte) /\ Len(e) = Len(d) + n /\ \A y \in 1..Len(e) : e[y] = m[y]
      /\ Len(d) \in Nat /\ Len(m) \in Nat
  BY <1>3, <1>5, <1>6, SlotFacts, MsgFacts, LenProperties DEF FirstOf, ConnInv, IInv
<1>8. Len(d) + n # Len(m)
  <2> DEFINE D == Len(d)
             L == Len(m)
  <2>1. /\ D \in Nat /\ L \in Nat /\ n \in Nat /\ rx.sum \in Nat
        /\ rx.len = L - D + rx.sum /\ rx.sum + n # rx.len
    BY <1>1, <1>3, <1>5, <1>7
  <2> HIDE DEF D, L
  <2>2. D + n # L
    BY ONLY <2>1
  <2> QED  BY <2>2 DEF D, L
<1> DEFINE s == [slots[k] EXCEPT !.datacache = e]
<1>9. slots' = [slots EXCEPT ![k] = s] /\ pc' = "recv" /\ cur' = k
      /\ rx' = [rx EXCEPT !.sum = @ + n]
      /\ rbuf' = [rbuf EXCEPT ![c] = SubSeq(@, n + 1, Len(@))]
      /\ UNCHANGED <<sent, habit, wire, link>>
      /\ UNCHANGED <<got, peer, backlog>>
  BY <1>2, <1>3 DEF RecvMore, Consume, kernel, ghosts
<1>10. s \in SlotType /\ s.socket = slots[k].socket
  BY <1>7, EntryData DEF ConnInv, IInv
<1>11. s.datacache = e /\ s.explen = Len(m)
  BY <1>5, SlotFacts DEF SlotType, ConnInv, IInv
<1> HIDE DEF s
<1>12. slots'[k] = s /\ ConnOf(k)' = c
  BY <1>2, <1>9, <1>10 DEF ConnOf, ConnInv, IInv, TypeOK
<1>13. PICK r : r = start[g] + 4 + Len(d)
  OBVIOUS
<1>14. StreamOf(c, start, all, r + n)'
  BY <1>5, <1>6, <1>9, <1>13, StreamConsume
<1>15. r + n = start[g] + 4 + Len(e)
  BY <1>5, <1>6, <1>7, <1>13
<1>16. Len(e) < Len(m)
  BY <1>5, <1>7, <1>8
<1>17. SlotOK(k)'
  <2>1. /\ ~Handing(k)' /\ Len(got'[c]) + 1 = g /\ g <= Len(sent'[c]) /\ m = sent'[c][g]
        /\ "pipeline" \notin habit'[c]
    BY <1>3, <1>5, <1>8, <1>9, NxtBound DEF Handing, Nxt
  <2>2. Inside(k, start, r + n)'
    BY <1>7, <1>11, <1>12, <1>15, <1>16, <2>1, Zenon DEF Inside
  <2> QED  BY <1>12, <1>14, <2>2 DEF SlotOK
<1>18. \A x \in Conns \ {c} : Same(x)
  BY <1>9, OthersSame
<1>19. /\ \A i \in DOMAIN slots' : slots'[i].state = CONNECTED => SlotOK(i)'
       /\ \A x \in Conns : Early(x)' => NewOK(x)'
  BY <1>2, <1>9, <1>10, <1>17, <1>18, CurStep
<1>20. FramingKept' /\ \A x \in Conns : Habitual(x)'
  BY <1>9 DEF FrameInv, FramingKept, Habitual
<1>21. Asking'
  <2>1. rx'.len = rx.len /\ rx'.sum = rx.sum + n
    BY <1>9 DEF ConnInv, IInv, TypeOK
  <2>2. slots'[cur'].explen = Len(m) /\ slots'[cur'].datacache = e /\ Len(m) # 0
    BY <1>4, <1>2, <1>5, <1>9, <1>11, <1>12
  <2>3. rx'.len = Len(m) - Len(e) + rx'.sum /\ rx'.sum <= Len(e)
    BY <1>5, <1>7, <2>1, SMTT(60)
  <2> QED  BY <2>2, <2>3 DEF Asking
<1> QED  BY <1>19, <1>20, <1>21 DEF FrameInv

\* The next element makes a longer prefix.
LEMMA PrefixAppend ==
  ASSUME NEW S, NEW s \in Seq(S), NEW n \in Nat, n + 1 <= Len(s)
  PROVE  Append(SubSeq(s, 1, n), s[n + 1]) = SubSeq(s, 1, n + 1)
OBVIOUS

\* Two sequences of bytes with the same elements.
LEMMA FirstIsAll ==
  ASSUME NEW e, NEW m \in Seq(Byte), FirstOf(e, Len(m), m)
  PROVE  e = m
BY DEF FirstOf

LEMMA BodyStep ==
  ASSUME Careful, ConnInv, FrameInv, RecvBody
  PROVE  FrameInv'
<1>1. Readable /\ rx.sum + Count = rx.len /\ slots[cur].explen # 0
  BY DEF RecvBody
<1>2. PICK k \in DOMAIN slots, c \in Conns :
         k = cur /\ c = ConnOf(k) /\ slots[k].state = CONNECTED /\ pc = "recv"
  BY <1>1, Reads
<1>3. PICK g, d, e, n, m : /\ g = Nxt(c) /\ d = slots[k].datacache /\ e = Cache /\ n = Count
                           /\ m = sent[c][g]
  OBVIOUS
<1>4. /\ g \in 1..Len(sent[c]) /\ n \in Nat /\ n <= Len(rbuf[c])
      /\ rx.sum \in Nat /\ rx.len = Len(m) - Len(d) + rx.sum
      /\ \E start, all : /\ StreamOf(c, start, all, start[g] + 4 + Len(d)) /\ start[g] \in Nat
                         /\ start[g + 1] = start[g] + 4 + Len(m)
                         /\ FirstOf(e, Len(d) + n, m)
  BY <1>1, <1>2, <1>3, ReadsBody
<1>5. PICK start, all : /\ StreamOf(c, start, all, start[g] + 4 + Len(d)) /\ start[g] \in Nat
                        /\ start[g + 1] = start[g] + 4 + Len(m)
                        /\ FirstOf(e, Len(d) + n, m)
  BY <1>4
<1>6. Len(d) \in Nat /\ Len(m) \in Nat /\ m \in Seq(Byte)
  BY <1>3, <1>4, SlotFacts, MsgFacts, LenProperties, ZenonT(60) DEF ConnInv, IInv
<1>7. Len(d) + n = Len(m)
  <2> DEFINE D == Len(d)
             L == Len(m)
  <2>1. /\ D \in Nat /\ L \in Nat /\ n \in Nat /\ rx.sum \in Nat
        /\ rx.len = L - D + rx.sum /\ rx.sum + n = rx.len
    BY <1>1, <1>3, <1>4, <1>6
  <2> HIDE DEF D, L
  <2>2. D + n = L
    BY ONLY <2>1
  <2> QED  BY <2>2 DEF D, L
<1>8. e = m /\ e \in Seq(Byte)
  BY <1>5, <1>6, <1>7, FirstIsAll
<1> DEFINE s == [slots[k] EXCEPT !.datacache = e]
<1>9. /\ slots' = [slots EXCEPT ![k] = s] /\ pc' = "callback" /\ cur' = k
      /\ rbuf' = [rbuf EXCEPT ![c] = SubSeq(@, n + 1, Len(@))]
      /\ got' = [got EXCEPT ![c] = Append(@, e)]
      /\ UNCHANGED <<sent, habit, wire, link>>
      /\ UNCHANGED <<peer, backlog>>
  BY <1>2, <1>3 DEF RecvBody, Consume, kernel
<1>10. s \in SlotType /\ s.socket = slots[k].socket
  BY <1>8, EntryData DEF ConnInv, IInv
<1> HIDE DEF s
<1>11. slots'[k] = s /\ ConnOf(k)' = c
  BY <1>2, <1>9, <1>10 DEF ConnOf, ConnInv, IInv, TypeOK
<1>12. PICK r : r = start[g] + 4 + Len(d)
  OBVIOUS
<1>13. StreamOf(c, start, all, r + n)'
  BY <1>4, <1>5, <1>9, <1>12, StreamConsume
<1>14. r + n = start[g + 1]
  <2> DEFINE D == Len(d)
             L == Len(m)
             q == start[g]
             z == start[g + 1]
  <2>1. /\ D \in Nat /\ L \in Nat /\ n \in Nat /\ q \in Nat /\ D + n = L
        /\ r = q + 4 + D /\ z = q + 4 + L
    BY <1>4, <1>5, <1>6, <1>7, <1>12
  <2> HIDE DEF D, L, q, z
  <2>2. r + n = z
    BY ONLY <2>1
  <2> QED  BY <2>2 DEF z
<1>15. /\ got[c] \in Seq(Seq(Byte)) /\ Len(got[c]) \in Nat /\ g = Len(got[c]) + 1
       /\ sent[c] \in Seq(Msgs) /\ got[c] = SubSeq(sent[c], 1, Len(got[c]))
  BY <1>3, NxtBound DEF Nxt, FrameInv, FramingKept
<1>16. /\ got'[c] = Append(got[c], e) /\ Len(got'[c]) = g
       /\ \A x \in Conns : x # c => got'[x] = got[x]
  BY <1>8, <1>9, <1>15, AppendProperties DEF ConnInv, IInv, TypeOK
<1>17. SlotOK(k)'
  <2>1. Between(k, start, start[g + 1])'
    BY <1>9, <1>11, <1>16 DEF Between, Handing
  <2> QED  BY <1>11, <1>13, <1>14, <2>1 DEF SlotOK
<1>18. \A x \in Conns \ {c} : Same(x)
  BY <1>9, OthersSame
<1>19. /\ \A i \in DOMAIN slots' : slots'[i].state = CONNECTED => SlotOK(i)'
       /\ \A x \in Conns : Early(x)' => NewOK(x)'
  BY <1>2, <1>9, <1>10, <1>17, <1>18, CurStep
<1>20. got'[c] = SubSeq(sent[c], 1, g)
  <2> DEFINE q == Len(got[c])
  <2>1. /\ q \in Nat /\ q + 1 = g /\ q + 1 <= Len(sent[c]) /\ sent[c] \in Seq(Msgs)
        /\ got[c] = SubSeq(sent[c], 1, q) /\ e = sent[c][q + 1]
        /\ got'[c] = Append(got[c], e)
    <3>1. q \in Nat /\ q + 1 = g /\ sent[c] \in Seq(Msgs) /\ Len(sent[c]) \in Nat
      BY <1>15, LenProperties
    <3>2. g <= Len(sent[c]) /\ e = sent[c][g]
      BY <1>3, <1>4, <1>8, <3>1
    <3>3. got[c] = SubSeq(sent[c], 1, q) /\ got'[c] = Append(got[c], e)
      BY <1>15, <1>16
    <3> HIDE DEF q
    <3> QED  BY <3>1, <3>2, <3>3
  <2> HIDE DEF q
  <2>2. Append(SubSeq(sent[c], 1, q), sent[c][q + 1]) = SubSeq(sent[c], 1, q + 1)
    BY <2>1, PrefixAppend
  <2> QED  BY <2>1, <2>2
<1>21. FramingKept'
  <2>1. Len(got'[c]) <= Len(sent'[c]) /\ got'[c] = SubSeq(sent'[c], 1, Len(got'[c]))
    <3>1. Len(sent[c]) \in Nat
      BY <1>15, LenProperties
    <3>2. g <= Len(sent[c])
      BY <1>4, <3>1
    <3> QED  BY <1>9, <1>16, <1>20, <3>2
  <2> QED  BY <1>9, <1>16, <2>1 DEF FrameInv, FramingKept
<1>22. \A x \in Conns : Habitual(x)'
  <2>1. Len(sent[c]) \in Nat
    BY <1>15, LenProperties
  <2>2. "pipeline" \notin habit[c] => Len(sent[c]) <= Len(got'[c]) + 1
    BY <1>15, <1>16, <2>1 DEF FrameInv, Habitual
  <2> QED  BY <1>9, <1>16, <2>2 DEF FrameInv, Habitual
<1>23. Asking'
  BY <1>9 DEF Asking
<1> QED  BY <1>19, <1>21, <1>22, <1>23 DEF FrameInv

LEMMA ReturnStep ==
  ASSUME Careful, ConnInv, FrameInv, CallbackReturn
  PROVE  FrameInv'
<1>1. PICK k \in DOMAIN slots : k = cur /\ pc = "callback"
  BY DEF CallbackReturn, ConnInv, IInv, TypeOK
<1> DEFINE s == [slots[k] EXCEPT !.datacache = << >>, !.explen = 0]
<1>2. /\ slots' = [slots EXCEPT ![k] = s] /\ pc' = "scan"
      /\ UNCHANGED <<peer, backlog, sent, got, habit, link, wire, rbuf>>
  BY <1>1 DEF CallbackReturn, NextSlot, kernel, netvars, ghosts
<1>3. /\ s.socket = slots[k].socket /\ s.state = slots[k].state
      /\ s.datacache = << >> /\ s.explen = 0
  BY SlotFacts DEF SlotType, ConnInv, IInv
<1> HIDE DEF s
<1>4. /\ DOMAIN slots' = DOMAIN slots
      /\ \A j \in DOMAIN slots : slots'[j] = IF j = k THEN s ELSE slots[j]
  BY <1>2 DEF ConnInv, IInv, TypeOK
<1>5. \A c : Same(c)
  BY <1>2 DEF Same
<1>6. ASSUME NEW i \in DOMAIN slots', slots'[i].state = CONNECTED  PROVE SlotOK(i)'
  <2>1. /\ i \in DOMAIN slots /\ slots[i].state = CONNECTED /\ SlotOK(i)
        /\ ConnOf(i)' = ConnOf(i)
    BY <1>2, <1>3, <1>4, <1>6 DEF ConnOf, FrameInv
  <2>2. CASE i # k
    <3>1. slots'[i] = slots[i] /\ (Handing(i)' <=> Handing(i))
      BY <1>1, <1>2, <1>4, <2>1, <2>2 DEF Handing
    <3> QED  BY <1>5, <2>1, <3>1, SlotKeeps
  <2>3. CASE i = k
    <3>1. PICK start, all, r : StreamOf(ConnOf(i), start, all, r) /\ Between(i, start, r)
      BY <1>1, <2>1, <2>3 DEF SlotOK, Inside, Handing
    <3>2. Between(i, start, r)'
      BY <1>2, <1>3, <1>4, <2>1, <2>3, <3>1 DEF Between
    <3>3. StreamOf(ConnOf(i), start, all, r)'
      BY <1>2, <2>1, <3>1, Zenon DEF StreamOf
    <3> QED  BY <3>2, <3>3 DEF SlotOK
  <2> QED  BY <2>2, <2>3
<1>7. \A c \in Conns : Early(c)' => NewOK(c)'
  <2>1. \A c \in Conns : Early(c)' => Early(c)
    BY <1>2 DEF Early, Queued
  <2> QED  BY <1>5, <2>1, NewKeeps DEF FrameInv
<1>8. FramingKept' /\ Asking' /\ \A c \in Conns : Habitual(c)'
  BY <1>2 DEF FrameInv, FramingKept, Asking, Habitual
<1> QED  BY <1>6, <1>7, <1>8 DEF FrameInv

\* A step on no connection and on no live slot's bytes: slots may die, their handlers
\* may change, connections may become known.
LEMMA KeepAll ==
  ASSUME ConnInv, FrameInv, \A c \in Conns : Same(c) /\ (Early(c)' => Early(c)),
         \A i \in DOMAIN slots' : slots'[i].state = CONNECTED =>
            /\ i \in DOMAIN slots /\ slots[i].state = CONNECTED
            /\ ConnOf(i)' = ConnOf(i)
            /\ slots'[i].explen = slots[i].explen
            /\ slots'[i].datacache = slots[i].datacache,
         \A i : Handing(i)' <=> Handing(i), Asking'
  PROVE  FrameInv'
<1>1. ASSUME NEW i \in DOMAIN slots', slots'[i].state = CONNECTED  PROVE SlotOK(i)'
  <2>1. /\ i \in DOMAIN slots /\ slots[i].state = CONNECTED /\ ConnOf(i)' = ConnOf(i)
        /\ slots'[i].explen = slots[i].explen /\ slots'[i].datacache = slots[i].datacache
    BY <1>1
  <2>2. SlotOK(i) /\ Same(ConnOf(i)) /\ (Handing(i)' <=> Handing(i))
    BY <2>1, LiveConn DEF FrameInv
  <2> QED  BY <2>1, <2>2, SlotKeeps
<1>2. ASSUME NEW c \in Conns, Early(c)'  PROVE NewOK(c)'
  BY <1>2, NewKeeps DEF FrameInv
<1>3. FramingKept' /\ \A c \in Conns : Habitual(c)'
  BY DEF FrameInv, FramingKept, Habitual, Same
<1> QED  BY <1>1, <1>2, <1>3 DEF FrameInv

\* The loop's own steps: no data moves.
LEMMA LoopStep ==
  ASSUME ConnInv, FrameInv,
         AcceptNone \/ ScanEnd \/ ScanSkip \/ ScanReceive \/ RecvNothing
  PROVE  FrameInv'
<1>1. /\ UNCHANGED <<slots, peer, backlog, sent, got, habit, link, wire, rbuf>>
      /\ pc # "callback" /\ pc' # "callback"
  BY DEF AcceptNone, BeginTick, ScanEnd, ScanSkip, ScanReceive, RecvNothing, NextSlot,
         kernel, netvars, ghosts
<1>2. \A c \in Conns : Same(c) /\ (Early(c)' => Early(c))
  BY <1>1 DEF Same, Early, Queued
<1>3. \A i : Handing(i)' <=> Handing(i)
  BY <1>1 DEF Handing
<1>4. Asking'
  <2>1. CASE ScanReceive
    <3>1. /\ cur' = cur /\ slots' = slots /\ rx'.sum = 0
          /\ rx'.len = IF slots[cur].explen = 0 THEN 4
                       ELSE slots[cur].explen - Len(slots[cur].datacache)
          /\ pc = "scan" /\ cur <= Len(slots)
      BY <2>1 DEF ScanReceive, HEAD
    <3>2. cur \in DOMAIN slots
      BY <3>1, LenProperties DEF ConnInv, IInv, TypeOK
    <3>3. slots[cur].explen \in Int /\ Len(slots[cur].datacache) \in Nat
      BY <3>2, SlotFacts, LenProperties DEF SlotType, ConnInv, IInv
    <3> QED  BY <3>1, <3>3 DEF Asking
  <2>2. CASE AcceptNone \/ ScanEnd \/ ScanSkip \/ RecvNothing
    BY <2>2 DEF AcceptNone, BeginTick, ScanEnd, ScanSkip, RecvNothing, NextSlot, Asking
  <2> QED  BY <2>1, <2>2
<1>5. \A i \in DOMAIN slots' : ConnOf(i)' = ConnOf(i)
  BY <1>1 DEF ConnOf
<1> QED  BY <1>1, <1>2, <1>3, <1>4, <1>5, KeepAll

\* One entry changes, but not its socket nor, if it lives, its bytes.
LEMMA EntryKeeps ==
  ASSUME ConnInv, FrameInv, NEW i \in DOMAIN slots, NEW s \in SlotType,
         slots' = [slots EXCEPT ![i] = s], s.socket = slots[i].socket,
         s.state = CONNECTED => /\ slots[i].state = CONNECTED
                                /\ s.explen = slots[i].explen
                                /\ s.datacache = slots[i].datacache,
         UNCHANGED <<peer, backlog, netvars, got>>,
         \A j : Handing(j)' <=> Handing(j), Asking'
  PROVE  FrameInv'
<1>1. \A j \in DOMAIN slots' :
         j \in DOMAIN slots /\ slots'[j] = IF j = i THEN s ELSE slots[j]
  BY DEF ConnInv, IInv, TypeOK
<1>2. \A j \in DOMAIN slots' : ConnOf(j)' = ConnOf(j)
  BY <1>1 DEF ConnOf
<1>3. \A j \in DOMAIN slots' : slots'[j].state = CONNECTED =>
         /\ slots[j].state = CONNECTED
         /\ slots'[j].explen = slots[j].explen
         /\ slots'[j].datacache = slots[j].datacache
  BY <1>1
<1>4. \A c \in Conns : Same(c) /\ (Early(c)' => Early(c))
  BY DEF Same, Early, Queued, netvars
<1> QED  BY <1>1, <1>2, <1>3, <1>4, KeepAll

\* CloseClient, by the loop or by the application.
LEMMA CloseStep ==
  ASSUME ConnInv, FrameInv, NEW i \in DOMAIN slots, CloseClient(i),
         UNCHANGED <<peer, backlog, netvars, got>>,
         \A j : Handing(j)' <=> Handing(j), Asking'
  PROVE  FrameInv'
<1> DEFINE s == InitSock(slots[i])
<1>1. s \in SlotType /\ s.socket = slots[i].socket /\ s.state = CLOSED
  BY SlotFacts, InitSockType DEF ConnInv, IInv
<1>2. slots' = [slots EXCEPT ![i] = s]
  BY DEF CloseClient
<1> HIDE DEF s
<1>3. s.state # CONNECTED
  BY <1>1 DEF CLOSED, CONNECTED
<1> QED  BY <1>1, <1>2, <1>3, EntryKeeps

LEMMA AppFrames ==
  ASSUME ConnInv, FrameInv, AppStep \/ RecvError
  PROVE  FrameInv'
<1>1. CASE RecvError
  <2>1. /\ cur \in DOMAIN slots /\ CloseClient(cur) /\ UNCHANGED <<peer, backlog, netvars, got>>
        /\ pc = "recv" /\ pc' = "scan"
    BY <1>1 DEF RecvError, NextSlot, ConnInv, IInv, TypeOK
  <2>2. PICK i \in DOMAIN slots : CloseClient(i)
    BY <2>1
  <2>3. (\A j : Handing(j)' <=> Handing(j)) /\ Asking'
    BY <2>1 DEF Handing, Asking
  <2> QED  BY <2>1, <2>2, <2>3, CloseStep
<1>2. ASSUME AppStep  PROVE FrameInv'
  <2>1. PICK t \in Fds : RegisterFunction(t) \/ SendFails(t) \/ CloseConnection(t)
    BY <1>2 DEF AppStep
  <2>2. \A i \in FindSocketID(slots, t) : i \in DOMAIN slots
    BY DEF FindSocketID
  <2>3. UNCHANGED <<pc, cur, peer, backlog, netvars, got>> /\ pc # "recv"
    BY <2>1 DEF RegisterFunction, SendFails, CloseConnection, AppRuns, loopvars, kernel, ghosts
  <2>4. (\A j : Handing(j)' <=> Handing(j)) /\ Asking'
    BY <2>3 DEF Handing, Asking
  <2>5. CASE RegisterFunction(t)
    <3>1. PICK i \in FindSocketID(slots, t) : slots' = [slots EXCEPT ![i].callback = peer[t]]
      BY <2>5 DEF RegisterFunction
    <3> DEFINE s == [slots[i] EXCEPT !.callback = peer[t]]
    <3>2. slots' = [slots EXCEPT ![i] = s] /\ peer[t] \in Conns \union {NoConn}
      BY <3>1 DEF ConnInv, IInv, TypeOK
    <3>3. /\ s \in SlotType /\ s.socket = slots[i].socket /\ s.state = slots[i].state
          /\ s.explen = slots[i].explen /\ s.datacache = slots[i].datacache
      BY <2>2, <3>2, SlotFacts DEF SlotType, ConnInv, IInv
    <3> HIDE DEF s
    <3> QED  BY <2>2, <2>3, <2>4, <3>2, <3>3, EntryKeeps
  <2>6. CASE SendFails(t)
    <3>1. PICK i \in FindSocketID(slots, t) :
            slots' = [slots EXCEPT ![i].state = CLOSED]
      BY <2>6 DEF SendFails
    <3> DEFINE s == [slots[i] EXCEPT !.state = CLOSED]
    <3>2. slots' = [slots EXCEPT ![i] = s]
      BY <3>1
    <3>3. s \in SlotType /\ s.socket = slots[i].socket /\ s.state = CLOSED
      BY <2>2, SlotFacts DEF SlotType, ConnInv, IInv
    <3>4. s.state # CONNECTED
      BY <3>3 DEF CLOSED, CONNECTED
    <3> HIDE DEF s
    <3> QED  BY <2>2, <2>3, <2>4, <3>2, <3>3, <3>4, EntryKeeps
  <2>7. CASE CloseConnection(t)
    <3>1. PICK i \in FindSocketID(slots, t) : CloseClient(i)
      BY <2>7 DEF CloseConnection
    <3> QED  BY <2>2, <2>3, <2>4, <3>1, CloseStep
  <2> QED  BY <2>1, <2>5, <2>6, <2>7
<1> QED  BY <1>1, <1>2

LEMMA AcceptFrames ==
  ASSUME ConnInv, FrameInv, Accept
  PROVE  FrameInv'
<1>1. PICK fd \in Fds, k \in FreeSlot(slots), c \in Conns :
        /\ c = Head(backlog) /\ backlog # << >>
        /\ peer' = [peer EXCEPT ![fd] = c]
        /\ slots'[k] = NewSock(fd) /\ ConnOf(k)' = c
        /\ \A j \in DOMAIN slots' : j # k /\ slots'[j].state = CONNECTED =>
             /\ j \in DOMAIN slots /\ slots'[j] = slots[j]
             /\ slots[j].state = CONNECTED /\ ConnOf(j)' = ConnOf(j)
  <2>1. backlog # << >> /\ Head(backlog) \in Conns
    BY HeadTailProperties DEF Accept, ConnInv, IInv, TypeOK
  <2> QED  BY <2>1, AcceptSlots DEF ConnInv
<1>2. /\ UNCHANGED <<sent, got, habit, link, wire, rbuf, closed, failed>>
      /\ pc = "accept" /\ pc' \in {"scan", "accept"}
      /\ backlog # << >> /\ backlog' = Tail(backlog)
  BY DEF Accept, BeginTick, netvars, ghosts
<1>3. backlog \in Seq(Conns) /\ c \in Conns /\ c = backlog[1] /\ 1 \in DOMAIN backlog
  BY <1>1, <1>2, HeadTailProperties, LenProperties, EmptySeq DEF ConnInv, IInv, TypeOK
<1>4. Early(c) /\ NewOK(c)
  BY <1>3 DEF Early, Queued, FrameInv
<1>5. \A d : Same(d)
  BY <1>2 DEF Same
<1>6. \A i : ~Handing(i) /\ ~Handing(i)'
  BY <1>2 DEF Handing
<1>7. SlotOK(k)'
  <2>1. PICK start, all : StreamOf(c, start, all, 0)
    BY <1>4 DEF NewOK
  <2>2. StreamOf(c, start, all, 0)' /\ start[1] = 0
    BY <1>2, <2>1, Zenon DEF StreamOf, Stream, Layout
  <2>3. got'[c] = << >> /\ Len(got'[c]) + 1 = 1
    BY <1>2, <1>4 DEF NewOK
  <2>4. slots'[k].explen = 0 /\ slots'[k].datacache = << >>
    BY <1>1 DEF NewSock
  <2>5. Between(k, start, 0)'
    BY <1>1, <2>2, <2>3, <2>4 DEF Between
  <2> QED  BY <1>1, <2>2, <2>5 DEF SlotOK
<1>8. ASSUME NEW i \in DOMAIN slots', slots'[i].state = CONNECTED  PROVE SlotOK(i)'
  <2>1. CASE i = k
    BY <1>7, <2>1
  <2>2. CASE i # k
    <3>1. /\ i \in DOMAIN slots /\ slots'[i] = slots[i]
          /\ slots[i].state = CONNECTED /\ ConnOf(i)' = ConnOf(i)
      BY <1>1, <1>8, <2>2
    <3>2. SlotOK(i) /\ Same(ConnOf(i)) /\ (Handing(i)' <=> Handing(i))
      BY <1>5, <1>6, <3>1 DEF FrameInv
    <3> QED  BY <3>1, <3>2, SlotKeeps
  <2> QED  BY <2>1, <2>2
<1>9. ASSUME NEW d \in Conns, Early(d)'  PROVE NewOK(d)'
  <2>1. Queued' \subseteq Queued
    <3>1. /\ DOMAIN backlog' = 1..(Len(backlog) - 1) /\ DOMAIN backlog = 1..Len(backlog)
          /\ \A k1 \in 1..(Len(backlog) - 1) : backlog'[k1] = backlog[k1 + 1]
          /\ Len(backlog) \in Nat
      BY <1>2, <1>3, HeadTailProperties, LenProperties
    <3>2. \A k1 \in DOMAIN backlog' : k1 + 1 \in DOMAIN backlog /\ backlog'[k1] = backlog[k1 + 1]
      BY <3>1
    <3> QED  BY <3>2 DEF Queued
  <2>2. Early(d)
    BY <1>2, <1>9, <2>1 DEF Early
  <2> QED  BY <1>5, <2>2, NewKeeps DEF FrameInv
<1>10. FramingKept' /\ Asking' /\ \A d \in Conns : Habitual(d)'
  BY <1>2 DEF FrameInv, FramingKept, Asking, Habitual
<1> QED  BY <1>8, <1>9, <1>10 DEF FrameInv

\* The end of the stream need not be on the wire, or no longer.
LEMMA StreamWhole ==
  ASSUME NEW ms, NEW start, NEW all, NEW h, NEW w, NEW p, NEW q, q => p, NEW b, NEW r,
         Stream(ms, start, all, h, w, p, b, r)
  PROVE  Stream(ms, start, all, h, w, q, b, r)
BY DEF Stream, OnWire

\* What is on the wire is lost.
LEMMA StreamLost ==
  ASSUME NEW ms, NEW start, NEW all, NEW h, NEW w, NEW p, NEW q, ~q,
         NEW b \in Seq(Byte), NEW r, Stream(ms, start, all, h, w, p, b, r)
  PROVE  Stream(ms, start, all, h, << >>, q, b, r)
<1> DEFINE R == r + Len(b)
<1>1. R \in Nat
  BY LenProperties DEF Stream
<1>2. OnWire(ms, start, all, h, << >>, q, R)
  <2> DEFINE off == [i \in 1..(Len(<< >>) + 1) |-> R]
  <2>1. off \in [1..(Len(<< >>) + 1) -> Nat] /\ off[1] = R
    BY <1>1
  <2>2. \A j \in 1..Len(<< >>) : FALSE
    OBVIOUS
  <2> QED  BY <2>1, <2>2 DEF OnWire
<1> QED  BY <1>2 DEF Stream

\* A step of the client or the network on connection c leaves what the server read of
\* its stream where it was.
LEMMA ClientKeeps ==
  ASSUME ConnInv, FrameInv, NEW c \in Conns,
         UNCHANGED <<slots, pc, cur, rx, peer, got, habit>>,
         \A d \in Conns \ {c} : Same(d) /\ (Early(d)' => Early(d)),
         Early(c)' => Early(c),
         Len(sent[c]) <= Len(sent'[c]), \A n \in 1..Len(sent[c]) : sent'[c][n] = sent[c][n],
         \A start, all, r : StreamOf(c, start, all, r) =>
            \E start2, all2 : /\ StreamOf(c, start2, all2, r)'
                              /\ \A n \in 1..(Len(sent[c]) + 1) : start2[n] = start[n],
         Habitual(c)', FramingKept'
  PROVE  FrameInv'
<1>1. \A i : Handing(i)' <=> Handing(i)
  BY DEF Handing
<1>2. Asking'
  BY DEF FrameInv, Asking
<1>3. \A d \in Conns : Habitual(d)'
  BY DEF FrameInv, Habitual, Same
<1>4. ASSUME NEW d \in Conns, Early(d)'  PROVE NewOK(d)'
  <2>1. NewOK(d)
    BY <1>4 DEF FrameInv
  <2>2. CASE d = c
    <3>1. PICK start, all : StreamOf(c, start, all, 0)
      BY <2>1, <2>2 DEF NewOK
    <3>2. PICK start2, all2 : StreamOf(c, start2, all2, 0)'
      BY <3>1
    <3>3. got'[c] = << >>
      BY <2>1, <2>2 DEF NewOK
    <3> QED  BY <2>2, <3>2, <3>3 DEF NewOK
  <2> QED  BY <2>1, <2>2, NewKeeps
<1>5. ASSUME NEW i \in DOMAIN slots, slots[i].state = CONNECTED  PROVE SlotOK(i)'
  <2>1. SlotOK(i) /\ ConnOf(i) \in Conns /\ ConnOf(i)' = ConnOf(i)
    BY <1>5, LiveConn DEF FrameInv, ConnOf
  <2>2. CASE ConnOf(i) # c
    BY <1>1, <2>1, <2>2, SlotKeeps
  <2>3. CASE ConnOf(i) = c
    <3>1. PICK start, all, r : StreamOf(c, start, all, r)
                               /\ (Between(i, start, r) \/ Inside(i, start, r))
      BY <2>1, <2>3 DEF SlotOK
    <3>2. PICK start2, all2 : /\ StreamOf(c, start2, all2, r)'
                              /\ \A n \in 1..(Len(sent[c]) + 1) : start2[n] = start[n]
      BY <3>1
    <3>3. PICK g : g = Len(got[c]) + 1
      OBVIOUS
    <3>4. g \in 1..(Len(sent[c]) + 1) /\ Len(sent[c]) \in Nat /\ Len(got[c]) \in Nat
      BY <3>3, NxtBound DEF Nxt
    <3>5. start2[g] = start[g]
      BY <3>2, <3>4
    <3>6. Between(i, start, r) => Between(i, start2, r)'
      BY <1>1, <2>1, <2>3, <3>3, <3>5 DEF Between
    <3>7. ASSUME Inside(i, start, r)  PROVE Inside(i, start2, r)'
      <4>1. g <= Len(sent[c])
        BY <2>3, <3>3, <3>7 DEF Inside
      <4>2. sent'[c][g] = sent[c][g] /\ g <= Len(sent'[c])
        <5>1. g \in 1..Len(sent[c])
          BY <3>4, <4>1
        <5> QED  BY <3>4, <4>1, <5>1
      <4> QED  BY <1>1, <2>1, <2>3, <3>3, <3>5, <3>7, <4>2, ZenonT(60) DEF Inside
    <3> QED  BY <2>1, <2>3, <3>1, <3>2, <3>6, <3>7 DEF SlotOK
  <2> QED  BY <2>2, <2>3
<1> QED  BY <1>2, <1>3, <1>4, <1>5 DEF FrameInv

\* What such a step changes.
LEMMA ClientRest ==
  ASSUME ConnInv, FrameInv, NEW c \in Conns,
         ClientSend(c) \/ Arrive(c) \/ ClientCloses(c) \/ ClientResets(c)
  PROVE  /\ UNCHANGED <<slots, pc, cur, rx, peer, got, habit>>
         /\ \A d \in Conns \ {c} : Same(d) /\ (Early(d)' => Early(d))
         /\ Early(c)' => Early(c)
         /\ ~ClientSend(c) => sent' = sent /\ FramingKept' /\ Habitual(c)'
<1>1. /\ UNCHANGED <<slots, pc, cur, rx, peer, got, habit, backlog>>
      /\ ~ClientSend(c) => sent' = sent
      /\ \A d \in Conns \ {c} : Same(d)
  BY DEF ClientSend, Arrive, ClientCloses, ClientResets, loopvars, kernel, ghosts, Same,
         ConnInv, IInv, TypeOK
<1>2. link'[c] = "none" => link[c] = "none"
  BY DEF ClientSend, Arrive, ClientCloses, ClientResets, ConnInv, IInv, TypeOK
<1>3. \A d \in Conns : Early(d)' => Early(d)
  BY <1>1, <1>2 DEF Early, Queued, Same
<1>4. sent' = sent => FramingKept' /\ Habitual(c)'
  BY <1>1 DEF FrameInv, FramingKept, Habitual
<1> QED  BY <1>1, <1>3, <1>4

LEMMA ConnectStep ==
  ASSUME ConnInv, FrameInv, NEW c \in Conns, Connect(c)
  PROVE  FrameInv'
<1>1. /\ link[c] = "none" /\ link' = [link EXCEPT ![c] = "up"]
      /\ backlog' = Append(backlog, c)
      /\ UNCHANGED <<slots, pc, cur, rx, peer, habit, wire, rbuf, sent, got>>
  BY DEF Connect, loopvars, ghosts
<1>2. link \in [Conns -> {"none", "up", "eof", "reset"}] /\ backlog \in Seq(Conns)
  BY DEF ConnInv, IInv, TypeOK
<1>3. \A d \in Conns \ {c} : Same(d)
  BY <1>1, <1>2 DEF Same
<1>4. Queued' \subseteq Queued \union {c}
  BY <1>1, <1>2, AppendProperties, LenProperties DEF Queued
<1>5. \A d \in Conns : Early(d)' => Early(d)
  BY <1>1, <1>2, <1>4 DEF Early
<1>6. ASSUME NEW start, NEW all, NEW r, StreamOf(c, start, all, r)
      PROVE  StreamOf(c, start, all, r)'
  <2>1. link[c] # "reset" /\ link'[c] # "reset"
    BY <1>1, <1>2
  <2>2. Stream(sent[c], start, all, habit[c], wire[c], link'[c] # "reset", rbuf[c], r)
    BY <1>6, <2>1, StreamWhole DEF StreamOf
  <2> QED  BY <1>1, <2>2, Zenon DEF StreamOf
<1>7. FramingKept' /\ Habitual(c)'
  BY <1>1 DEF FrameInv, FramingKept, Habitual
<1>8. Len(sent[c]) <= Len(sent'[c])
  BY <1>1, NxtBound
<1> QED  BY <1>1, <1>3, <1>5, <1>6, <1>7, <1>8, ClientKeeps

LEMMA EndStep ==
  ASSUME ConnInv, FrameInv, NEW c \in Conns, ClientCloses(c) \/ ClientResets(c)
  PROVE  FrameInv'
<1>1. /\ UNCHANGED <<slots, pc, cur, rx, peer, got, habit>>
      /\ \A d \in Conns \ {c} : Same(d) /\ (Early(d)' => Early(d))
      /\ Early(c)' => Early(c)
      /\ sent' = sent /\ FramingKept' /\ Habitual(c)'
  <2>1. ~ClientSend(c)
    BY DEF ClientSend, ClientCloses, ClientResets, ConnInv, IInv, TypeOK
  <2> QED  BY <2>1, ClientRest
<1>2. ASSUME NEW start, NEW all, NEW r, StreamOf(c, start, all, r)
      PROVE  StreamOf(c, start, all, r)'
  <2>1. rbuf' = rbuf /\ rbuf[c] \in Seq(Byte)
    BY DEF ClientCloses, ClientResets, ConnInv, IInv, TypeOK
  <2>2. CASE ClientCloses(c)
    <3>1. wire' = wire /\ link[c] # "reset"
      BY <2>2 DEF ClientCloses
    <3>2. Stream(sent[c], start, all, habit[c], wire[c], link'[c] # "reset", rbuf[c], r)
      BY <1>2, <3>1, StreamWhole DEF StreamOf
    <3> QED  BY <1>1, <2>1, <3>1, <3>2, Zenon DEF StreamOf
  <2>3. CASE ClientResets(c)
    <3>1. wire'[c] = << >> /\ ~(link'[c] # "reset")
      BY <2>3 DEF ClientResets, ConnInv, IInv, TypeOK
    <3>2. Stream(sent[c], start, all, habit[c], << >>, link'[c] # "reset", rbuf[c], r)
      BY <1>2, <2>1, <3>1, StreamLost DEF StreamOf
    <3> QED  BY <1>1, <2>1, <3>1, <3>2, Zenon DEF StreamOf
  <2> QED  BY <2>2, <2>3
<1>3. Len(sent[c]) <= Len(sent'[c])
  BY <1>1, NxtBound
<1> QED  BY <1>1, <1>2, <1>3, ClientKeeps

LEMMA ArriveStep ==
  ASSUME Careful, ConnInv, FrameInv, NEW c \in Conns, Arrive(c)
  PROVE  FrameInv'
<1>1. /\ UNCHANGED <<slots, pc, cur, rx, peer, got, habit>>
      /\ \A d \in Conns \ {c} : Same(d) /\ (Early(d)' => Early(d))
      /\ Early(c)' => Early(c)
      /\ sent' = sent /\ link' = link /\ FramingKept' /\ Habitual(c)'
  <2>1. sent' = sent /\ link' = link
    BY DEF Arrive
  <2>2. ~ClientSend(c)
    <3>1. ClientSend(c) => sent'[c] = Append(sent[c], sent'[c][Len(sent[c]) + 1])
                           /\ Len(sent'[c]) = Len(sent[c]) + 1
      BY AppendProperties DEF ClientSend, ConnInv, IInv, TypeOK
    <3> QED  BY <2>1, <3>1, NxtBound
  <2> QED  BY <2>1, <2>2, ClientRest
<1> DEFINE w == wire[c]
           b == rbuf[c]
           h == habit[c]
           up == link[c] # "reset"
           ms == sent[c]
<1>2. PICK n \in 1..Len(Head(w).bytes) :
        /\ n = Len(Head(w).bytes)
           \/ (IF Head(w).head THEN "split_head" ELSE "split_body") \in h
        /\ rbuf' = [rbuf EXCEPT ![c] = b \o SubSeq(Head(w).bytes, 1, n)]
        /\ wire' = [wire EXCEPT ![c] = IF n = Len(Head(w).bytes) THEN Tail(w)
                                       ELSE <<PartRest(Head(w), n)>> \o Tail(w)]
  BY DEF Arrive
<1>3. /\ w \in Seq(Part) /\ w # << >> /\ b \in Seq(Byte) /\ h \in Profiles
  BY DEF Arrive, ConnInv, IInv, TypeOK, Part
<1>4. "split_head" \notin h
  BY <1>3 DEF Careful
<1>5. n = Len(Head(w).bytes) \/ (~Head(w).head /\ "split_body" \in h)
  BY <1>2, <1>4
<1> DEFINE b2 == b \o SubSeq(Head(w).bytes, 1, n)
           w2 == IF n = Len(Head(w).bytes) THEN Tail(w) ELSE <<PartRest(Head(w), n)>> \o Tail(w)
<1>6. rbuf'[c] = b2 /\ wire'[c] = w2
  BY <1>2 DEF ConnInv, IInv, TypeOK
<1>7. ASSUME NEW start, NEW all, NEW r, StreamOf(c, start, all, r)
      PROVE  StreamOf(c, start, all, r)'
  <2>1. Stream(ms, start, all, h, w, up, b, r) /\ r \in Nat
    BY <1>7 DEF StreamOf, Stream
  <2> HIDE DEF w, b, h, up, ms
  <2>2. Stream(ms, start, all, h, w2, up, b2, r)
    BY <1>2, <1>3, <1>4, <1>5, <2>1, StreamArrive, Zenon
  <2> HIDE DEF b2, w2
  <2> QED  BY <1>1, <1>6, <2>2, Zenon DEF StreamOf, ms, h, up
<1>8. Len(sent[c]) <= Len(sent'[c])
  BY <1>1, NxtBound
<1> QED  BY <1>1, <1>7, <1>8, ClientKeeps

\* One message more at the end of a sequence.
LEMMA AppendKeeps ==
  ASSUME NEW S, NEW s \in Seq(S), NEW x \in S
  PROVE  /\ Append(s, x) \in Seq(S)
         /\ Len(Append(s, x)) = Len(s) + 1 /\ Len(s) \in Nat
         /\ Append(s, x)[Len(s) + 1] = x
         /\ \A n \in 1..Len(s) : Append(s, x)[n] = s[n]
         /\ \A k \in 0..Len(s) : SubSeq(Append(s, x), 1, k) = SubSeq(s, 1, k)
OBVIOUS

LEMMA SendStep ==
  ASSUME ConnInv, FrameInv, NEW c \in Conns, ClientSend(c)
  PROVE  FrameInv'
<1>1. /\ UNCHANGED <<slots, pc, cur, rx, peer, got, habit>>
      /\ \A d \in Conns \ {c} : Same(d) /\ (Early(d)' => Early(d))
      /\ Early(c)' => Early(c)
  BY ClientRest
<1>2. PICK m \in Msgs : /\ "long" \in habit[c] \/ Len(m) <= MTU
                        /\ sent' = [sent EXCEPT ![c] = Append(@, m)]
                        /\ wire' = [wire EXCEPT ![c] = @ \o Frame(m)]
  BY DEF ClientSend
<1>3. /\ link[c] = "up" /\ link' = link /\ rbuf' = rbuf
      /\ "pipeline" \in habit[c] \/ Len(got[c]) >= Len(sent[c])
  BY DEF ClientSend
<1>4. sent'[c] = Append(sent[c], m) /\ wire'[c] = wire[c] \o Frame(m)
  BY <1>2 DEF ConnInv, IInv, TypeOK
<1>5. /\ sent[c] \in Seq(Msgs) /\ wire[c] \in Seq(Part) /\ rbuf[c] \in Seq(Byte)
      /\ Len(sent[c]) \in Nat /\ Len(got[c]) \in Nat /\ Len(got[c]) <= Len(sent[c])
  BY NxtBound DEF ConnInv, IInv, TypeOK, Part, FrameInv, FramingKept
<1>6. sent[c] \in Seq(Seq(Byte)) /\ m \in Seq(Byte)
  BY <1>5, MsgsAssumption
<1>7. /\ Len(sent'[c]) = Len(sent[c]) + 1 /\ sent'[c][Len(sent[c]) + 1] = m
      /\ \A n \in 1..Len(sent[c]) : sent'[c][n] = sent[c][n]
      /\ \A k \in 0..Len(sent[c]) : SubSeq(sent'[c], 1, k) = SubSeq(sent[c], 1, k)
  BY <1>4, <1>5, AppendKeeps
<1>8. ASSUME NEW start, NEW all, NEW r, StreamOf(c, start, all, r)
      PROVE  \E start2, all2 : /\ StreamOf(c, start2, all2, r)'
                               /\ \A n \in 1..(Len(sent[c]) + 1) : start2[n] = start[n]
  <2> DEFINE ms == sent[c]
             h == habit[c]
             w == wire[c]
             b == rbuf[c]
             up == link[c] # "reset"
  <2>1. up
    BY <1>3
  <2>2. Stream(ms, start, all, h, w, up, b, r) /\ r \in Nat
    BY <1>8 DEF StreamOf, Stream
  <2>3. Stream(ms, start, all, h, w, TRUE, b, r)
    BY <2>1, <2>2, StreamWhole
  <2>4. /\ ms \in Seq(Seq(Byte)) /\ w \in Seq(Part) /\ b \in Seq(Byte)
    BY <1>5, <1>6
  <2> HIDE DEF ms, h, w, b, up
  <2>5. PICK start2, all2 : /\ Stream(Append(ms, m), start2, all2, h, w \o Frame(m), TRUE, b, r)
                            /\ \A n \in 1..(Len(ms) + 1) : start2[n] = start[n]
    <3>1. Longer(ms, start, h, w, b, r, m)
      BY <1>6, <2>2, <2>3, <2>4, StreamSend, Zenon
    <3> QED  BY <3>1 DEF Longer
  <2>6. Stream(Append(ms, m), start2, all2, h, w \o Frame(m), up, b, r)
    BY <2>1, <2>5, StreamWhole
  <2>7. StreamOf(c, start2, all2, r)'
    BY <1>1, <1>3, <1>4, <2>6, Zenon DEF StreamOf, ms, h, w, b, up
  <2> QED  BY <2>5, <2>7 DEF ms
<1>9. Habitual(c)'
  <2>1. "pipeline" \notin habit[c] => Len(sent'[c]) <= Len(got[c]) + 1
    BY <1>3, <1>5, <1>7
  <2>2. ASSUME "long" \notin habit[c], NEW n \in 1..Len(sent'[c])  PROVE Len(sent'[c][n]) <= MTU
    <3>1. CASE n \in 1..Len(sent[c])
      BY <1>7, <2>2, <3>1 DEF FrameInv, Habitual
    <3>2. CASE n = Len(sent[c]) + 1
      BY <1>2, <1>7, <2>2, <3>2
    <3> QED  BY <1>5, <1>7, <3>1, <3>2
  <2> QED  BY <1>1, <2>1, <2>2 DEF Habitual
<1>10. FramingKept'
  <2>1. ASSUME NEW d \in Conns
        PROVE  /\ Len(got'[d]) <= Len(sent'[d])
               /\ got'[d] = SubSeq(sent'[d], 1, Len(got'[d]))
    <3>1. CASE d = c
      <4>1. Len(got[c]) \in 0..Len(sent[c]) /\ got[c] = SubSeq(sent[c], 1, Len(got[c]))
        BY <1>5 DEF FrameInv, FramingKept
      <4>2. got[c] = SubSeq(sent'[c], 1, Len(got[c])) /\ Len(got[c]) <= Len(sent'[c])
        BY <1>5, <1>7, <4>1
      <4> QED  BY <1>1, <3>1, <4>2
    <3>2. CASE d # c
      BY <1>1, <3>2 DEF FrameInv, FramingKept, Same
    <3> QED  BY <3>1, <3>2
  <2> QED  BY <2>1 DEF FramingKept
<1>11. Len(sent[c]) <= Len(sent'[c])
  BY <1>5, <1>7
<1> QED  BY <1>1, <1>7, <1>8, <1>9, <1>10, <1>11, ClientKeeps

LEMMA FrameStart ==
  ASSUME Init
  PROVE  FrameInv
<1> DEFINE e == << >>
           start == [n \in 1..(Len(e) + 1) |-> 0]
<1>1. e \in Seq(Byte) /\ Len(e) = 0
  BY EmptyBytes
<1>2. start \in [1..(Len(e) + 1) -> Nat] /\ start[1] = 0
  BY <1>1
<1> HIDE DEF e, start
<1>3. Layout(e, start, e)
  BY <1>1, <1>2 DEF Layout, Apart
<1>4. \A h : Spot(e, start, h, 0)
  BY <1>1, <1>2 DEF Spot, PlaceFrom
<1>5. \A h, q : OnWire(e, start, e, h, e, q, 0)
  BY <1>1, <1>2 DEF OnWire
<1>6. \A h, q : Stream(e, start, e, h, e, q, e, 0)
  BY <1>1, <1>3, <1>4, <1>5 DEF Stream
<1>7. ASSUME NEW c \in Conns  PROVE NewOK(c)
  <2>1. got[c] = << >> /\ sent[c] = e /\ wire[c] = e /\ rbuf[c] = e
    BY DEF Init, e
  <2>2. StreamOf(c, start, e, 0)
    BY <1>6, <2>1, Zenon DEF StreamOf
  <2> QED  BY <2>1, <2>2 DEF NewOK
<1>8. \A c \in Conns : Habitual(c) /\ got[c] = << >> /\ sent[c] = << >>
  BY DEF Init, Habitual
<1>9. FramingKept
  <2>1. SubSeq(e, 1, Len(e)) = e
    BY <1>1
  <2>2. \A c \in Conns : got[c] = e /\ sent[c] = e
    BY <1>8 DEF e
  <2>3. Len(e) <= Len(e) /\ e = SubSeq(e, 1, Len(e))
    BY <1>1, <2>1
  <2>4. \A c \in Conns : /\ Len(got[c]) <= Len(sent[c])
                         /\ got[c] = SubSeq(sent[c], 1, Len(got[c]))
    BY <2>2, <2>3, Zenon
  <2> QED  BY <2>4 DEF FramingKept
<1>10. DOMAIN slots = {} /\ Asking
  BY DEF Init, Asking
<1> QED  BY <1>7, <1>8, <1>9, <1>10 DEF FrameInv

LEMMA FrameStep ==
  ASSUME Careful, ConnInv, FrameInv, [Next]_vars
  PROVE  FrameInv'
<1>1. CASE ServerStep
  BY <1>1, LoopStep, AcceptFrames, HeadStep, MoreStep, BodyStep, ReturnStep, AppFrames
     DEF ServerStep
<1>2. CASE AppStep
  BY <1>2, AppFrames
<1>3. CASE ClientStep
  BY <1>3, ConnectStep, SendStep, ArriveStep, EndStep DEF ClientStep
<1>4. CASE UNCHANGED vars
  <2>1. /\ UNCHANGED <<slots, pc, cur, rx, peer, backlog>>
        /\ UNCHANGED <<sent, got, habit, link, wire, rbuf>>
    BY <1>4 DEF vars, loopvars, kernel, netvars, ghosts
  <2>2. Asking' /\ \A i : Handing(i)' <=> Handing(i)
    BY <2>1 DEF Asking, Handing, FrameInv
  <2>3. \A c \in Conns : Same(c) /\ (Early(c)' => Early(c))
    BY <2>1 DEF Same, Early, Queued
  <2>4. \A i \in DOMAIN slots' : ConnOf(i)' = ConnOf(i)
    BY <2>1 DEF ConnOf
  <2> QED  BY <2>1, <2>2, <2>3, <2>4, KeepAll
<1> QED  BY <1>1, <1>2, <1>3, <1>4 DEF Next

\* The invariants of this module together, with the hypothesis on the clients.
ChannelInv == Careful /\ ConnInv /\ FrameInv

LEMMA ChannelInvHolds == Careful /\ Spec => []ChannelInv
<1>1. Careful /\ Init => Careful /\ FrameInv
  BY FrameStart
<1>2. Careful /\ FrameInv /\ ConnInv /\ [Next]_vars => Careful' /\ FrameInv'
  <2>1. Careful' <=> Careful
    BY DEF Careful
  <2> QED  BY <2>1, FrameStep
<1> QED  BY <1>1, <1>2, ConnInvHolds, PTL DEF Spec, ChannelInv

\* Where headers arrive whole, and clients that send ahead send bodies that fit one
\* recv() and arrive whole, the handler is given exactly what each client sent, in
\* order, however the calls of recv() fall between the arrivals (ReceiveData, Tick).
THEOREM FramingKeptHolds == Careful /\ Spec => []FramingKept
<1>1. ChannelInv => FramingKept
  BY DEF ChannelInv, FrameInv
<1> QED  BY <1>1, ChannelInvHolds, PTL
----------------------------------------------------------------------------
(* The channel of whole messages that BlockedServer implements.            *)

\* A body handed over is the next message of a connection not given up.
LEMMA BodyDelivers ==
  ASSUME Careful, ConnInv, FrameInv, RecvBody
  PROVE  \E c \in Conns : Channel!Deliver(c)
<1>1. Readable
  BY DEF RecvBody
<1>2. PICK c \in Conns : c = ConnOf(cur) /\ c \notin Dead
  BY <1>1, Reads, LiveConn
<1>3. /\ got' = [got EXCEPT ![c] = Append(@, Cache)] /\ sent' = sent
      /\ UNCHANGED <<closed, failed>>
  BY <1>2 DEF RecvBody
<1>4. FrameInv'
  BY BodyStep
<1>5. /\ got[c] \in Seq(Seq(Byte)) /\ Len(got[c]) \in Nat
      /\ sent[c] \in Seq(Msgs) /\ Len(sent[c]) \in Nat /\ Cache \in Seq(Byte)
  BY <1>1, NxtBound, CountType DEF ConnInv, IInv
<1>6. PICK q : q = Len(got[c])
  OBVIOUS
<1>7. got'[c] = Append(got[c], Cache) /\ Len(got'[c]) = q + 1 /\ got'[c][q + 1] = Cache
  BY <1>3, <1>5, <1>6, AppendProperties DEF ConnInv, IInv, TypeOK
<1>8. q + 1 <= Len(sent[c]) /\ got'[c] = SubSeq(sent[c], 1, q + 1)
  BY <1>3, <1>4, <1>7 DEF FrameInv, FramingKept
<1>9. Cache = sent[c][q + 1]
  BY <1>5, <1>6, <1>7, <1>8
<1>10. Dead' = Dead
  BY <1>3 DEF Dead
<1>11. Len(got[c]) < Len(sent[c])
  BY <1>5, <1>6, <1>8
<1> QED  BY <1>2, <1>3, <1>6, <1>9, <1>10, <1>11 DEF Channel!Deliver

\* A connection is given up once.
LEMMA EndGivesUp ==
  ASSUME ConnInv, NEW c \in Conns, Closes(c) \/ Fails(c), UNCHANGED <<sent, got>>
  PROVE  Channel!GiveUp(c) \/ Dead' = Dead
<1>1. closed \in [Conns -> Nat]
  BY DEF ConnInv, IInv, TypeOK
<1>2. Dead' = Dead \union {c}
  BY <1>1 DEF Closes, Fails, Dead
<1> QED  BY <1>2 DEF Channel!GiveUp

LEMMA ChannelStep ==
  ASSUME Careful, ConnInv, FrameInv, [Next]_vars
  PROVE  [Channel!Next]_(Channel!vars)
<1>1. CASE RecvBody
  BY <1>1, BodyDelivers DEF Channel!Next
<1>2. CASE (ServerStep \/ AppStep) /\ ~RecvBody
  <2>1. UNCHANGED <<sent, got>>
    BY <1>2 DEF ServerStep, AcceptNone, Accept, ScanEnd, ScanSkip, ScanReceive, RecvMore,
                RecvHead, RecvNothing, RecvError, CallbackReturn, AppStep,
                RegisterFunction, SendFails, CloseConnection, netvars, ghosts
  <2>2. Steady \/ TakesIn \/ \E c \in Conns : Closes(c) \/ Fails(c)
    BY <1>2, ServerServes, AppServes
  <2>3. Steady \/ TakesIn => Dead' = Dead
    BY DEF Steady, TakesIn, Dead
  <2>4. (\E c \in Conns : Closes(c) \/ Fails(c)) =>
           (\E c \in Conns : Channel!GiveUp(c)) \/ Dead' = Dead
    BY <2>1, EndGivesUp
  <2> QED  BY <2>1, <2>2, <2>3, <2>4 DEF Channel!Next, Channel!vars
<1>3. CASE ClientStep
  <2>1. PICK c \in Conns : \/ Connect(c) \/ ClientSend(c) \/ Arrive(c)
                           \/ ClientCloses(c) \/ ClientResets(c)
    BY <1>3 DEF ClientStep
  <2>2. got' = got /\ Dead' = Dead
    BY <2>1 DEF Connect, ClientSend, Arrive, ClientCloses, ClientResets, ghosts, Dead
  <2>3. CASE ClientSend(c)
    BY <2>2, <2>3 DEF ClientSend, Channel!Send, Channel!Next
  <2>4. CASE ~ClientSend(c)
    BY <2>1, <2>2, <2>4 DEF Connect, Arrive, ClientCloses, ClientResets, Channel!vars
  <2> QED  BY <2>3, <2>4
<1>4. CASE UNCHANGED vars
  BY <1>4 DEF vars, netvars, ghosts, Channel!vars, Dead
<1> QED  BY <1>1, <1>2, <1>3, <1>4 DEF Next

\* For the same clients every step of the server is one of the channel, or none: a
\* message is sent, the oldest one not yet handed over is, or a connection is given up,
\* once, and nothing is handed over for it after that (ReceiveData, CloseClient, Send).
THEOREM ChannelSafe == Careful /\ Spec => Channel!Init /\ [][Channel!Next]_(Channel!vars)
<1>1. Init => Channel!Init
  <2>1. Init => Dead = {}
    BY DEF Init, Dead
  <2> QED  BY <2>1 DEF Init, Channel!Init
<1>2. ChannelInv /\ [Next]_vars => [Channel!Next]_(Channel!vars)
  BY ChannelStep DEF ChannelInv
<1> QED  BY <1>1, <1>2, ChannelInvHolds, PTL DEF Spec
=============================================================================
