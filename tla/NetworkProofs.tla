---------------------------- MODULE NetworkProofs ---------------------------
(***************************************************************************)
(* Proofs about the chat server, about a session of the calculator and     *)
(* about what it computes: UdpChat, CalSession and Calculator.             *)
(***************************************************************************)
EXTENDS UdpChat, CalSession, Calculator, ProofLemmas
-----------------------------------------------------------------------------
(***************************************************************************)
(* UdpChat, for any clients and any number of datagrams and of owners of   *)
(* an address: whatever is lost, doubled or overtaken, only those who      *)
(* asked for it take part, and a broadcast includes its sender.            *)
(***************************************************************************)
(* TypeOK without the uniqueness of numbers.                               *)
ChatType ==
  /\ server \in {"socket", "bind", "up", "exited"}
  /\ owner \in [Clients -> 1 .. MaxOwners]
  /\ users \subseteq Clients
  /\ toServer \subseteq Sent
  /\ toClients \subseteq Replies
  /\ shown \in [Clients -> SUBSET toClients]

(* A datagram is numbered by how many have been sent.                      *)
NumberInv ==
  /\ IsFiniteSet(toServer)
  /\ \A d \in toServer : d.id <= Cardinality(toServer)
  /\ \A d, e \in toServer : d.id = e.id => d = e

(* One of the owners of the address so far, up to the one who has it, has  *)
(* asked.                                                                  *)
SomeOwnerAsked(c) == \E by \in 1 .. owner[c] : Asked(c, by)

(* A sender has had the address, and shows only what was sent to it.  Who  *)
(* is online, gets a copy or has its datagram copied has asked.            *)
AskedInv ==
  /\ \A d \in toServer : d.by <= owner[d.from]
  /\ \A c \in Clients : \A r \in shown[c] : r.to = c
  /\ \A c \in users : SomeOwnerAsked(c)
  /\ \A r \in toClients : r.kind = "copy" =>
       /\ SomeOwnerAsked(r.to)
       /\ \E d \in toServer : d.id = r.id /\ SomeOwnerAsked(d.from)
-----------------------------------------------------------------------------
(* Nothing is sent initially.                                              *)
LEMMA InitChat == Init => ChatType /\ NumberInv /\ AskedInv /\ SenderIsIncluded
  <1> SUFFICES ASSUME Init PROVE ChatType /\ NumberInv /\ AskedInv /\ SenderIsIncluded
    OBVIOUS
  <1>1. ChatType
    BY ChatAssumption DEF Init, ChatType
  <1>2. NumberInv
    BY FS_EmptySet DEF Init, NumberInv
  <1>3. AskedInv /\ SenderIsIncluded
    BY DEF Init, AskedInv, SenderIsIncluded
  <1> QED
    BY <1>1, <1>2, <1>3

(* What was asked stays asked, whatever else is sent and whoever owns the  *)
(* address next.                                                           *)
LEMMA AskedStays ==
  ASSUME ChatType, ChatType', toServer \subseteq toServer',
         \A c \in Clients : owner[c] <= owner'[c],
         NEW c \in Clients, SomeOwnerAsked(c)
  PROVE  SomeOwnerAsked(c)'
  <1>1. PICK by \in 1 .. owner[c] : \E d \in toServer : d.from = c /\ d.by = by /\ d.text = "online"
    BY DEF SomeOwnerAsked, Asked
  <1>2. by \in 1 .. owner'[c]
    BY <1>1 DEF ChatType
  <1> QED
    BY <1>1, <1>2 DEF SomeOwnerAsked, Asked

(* A client sends: the number is new.                                      *)
LEMMA SendStep ==
  ASSUME ChatType, NumberInv, AskedInv, SenderIsIncluded,
         NEW c \in Clients, NEW what \in Texts, Send(c, what)
  PROVE  ChatType' /\ NumberInv' /\ AskedInv' /\ SenderIsIncluded'
  <1> DEFINE new == [id |-> Cardinality(toServer) + 1, from |-> c, by |-> owner[c], text |-> what]
  <1>1. /\ toServer' = toServer \cup {new}
        /\ UNCHANGED <<server, owner, users, toClients, shown>>
        /\ Cardinality(toServer) < MaxSent
    BY DEF Send
  <1>2. Cardinality(toServer) \in Nat
    BY FS_CardinalityType DEF NumberInv
  <1>3. new \in Sent
    <2>1. Cardinality(toServer) + 1 \in 1 .. MaxSent
      BY <1>1, <1>2, ChatAssumption
    <2>2. owner[c] \in 1 .. MaxOwners
      BY DEF ChatType
    <2> QED
      BY <2>1, <2>2 DEF Sent
  <1>4. ChatType'
    BY <1>1, <1>3 DEF ChatType
  <1>5. \A d \in toServer : d.id \in Nat /\ d.id <= Cardinality(toServer)
    BY DEF NumberInv, ChatType, Sent
  <1>6. new \notin toServer
    BY <1>2, <1>5
  <1>7. IsFiniteSet(toServer') /\ Cardinality(toServer') = Cardinality(toServer) + 1
    BY <1>1, <1>6, FS_AddElement DEF NumberInv
  <1>8. NumberInv'
    <2>1. \A d \in toServer : d.id # new.id
      BY <1>2, <1>5
    <2>2. \A d \in toServer' : d.id <= Cardinality(toServer')
      BY <1>1, <1>2, <1>5, <1>7
    <2>3. \A d, e \in toServer' : d.id = e.id => d = e
      BY <1>1, <2>1 DEF NumberInv
    <2> QED
      BY <1>7, <2>2, <2>3 DEF NumberInv
  <1>9. \A u \in Clients : SomeOwnerAsked(u) => SomeOwnerAsked(u)'
    <2>1. \A u \in Clients : owner[u] <= owner'[u]
      BY <1>1 DEF ChatType
    <2> QED
      BY <1>1, <1>4, <2>1, AskedStays
  <1>10. AskedInv'
    <2>1. \A d \in toServer' : d.by <= owner'[d.from]
      BY <1>1, <1>4 DEF AskedInv, ChatType
    <2>2. \A u \in users' : SomeOwnerAsked(u)'
      BY <1>1, <1>9 DEF AskedInv, ChatType
    <2>3. \A r \in toClients' : r.kind = "copy" =>
            SomeOwnerAsked(r.to)' /\ \E d \in toServer' : d.id = r.id /\ SomeOwnerAsked(d.from)'
      <3>1. \A r \in toClients : r.to \in Clients
        BY DEF ChatType, Replies
      <3>2. \A d \in toServer : d.from \in Clients
        BY DEF ChatType, Sent
      <3> QED
        BY <1>1, <1>9, <3>1, <3>2 DEF AskedInv
    <2> QED
      BY <1>1, <2>1, <2>2, <2>3 DEF AskedInv
  <1>11. SenderIsIncluded'
    BY <1>1 DEF SenderIsIncluded
  <1> QED
    BY <1>4, <1>8, <1>10, <1>11

(* The server routes a datagram, perhaps not for the first time.           *)
LEMMA RouteStep ==
  ASSUME ChatType, NumberInv, AskedInv, SenderIsIncluded,
         NEW d \in toServer, routeMessage(d)
  PROVE  ChatType' /\ NumberInv' /\ AskedInv' /\ SenderIsIncluded'
  <1> DEFINE copies == broadcastMessage(d, users')
             refusal == [id |-> d.id, to |-> d.from, kind |-> "refusal"]
  <1>1. /\ users' = Online(d) /\ d.text # ""
        /\ toClients' = toClients \cup IF d.from \in users' THEN copies ELSE {refusal}
        /\ UNCHANGED <<server, owner, toServer, shown>>
    BY DEF routeMessage
  <1>2. d \in Sent /\ d.id \in 1 .. MaxSent /\ d.from \in Clients /\ d.text \in Texts
    BY DEF ChatType, Sent
  <1>3. users' \subseteq Clients
    BY <1>1, <1>2 DEF Online, ChatType
  <1>4. copies \subseteq Replies /\ refusal \in Replies
    BY <1>2, <1>3 DEF broadcastMessage, Replies
  <1>5. ChatType'
    BY <1>1, <1>3, <1>4 DEF ChatType
  <1>6. NumberInv'
    BY <1>1 DEF NumberInv
  <1>7. \A u : SomeOwnerAsked(u)' <=> SomeOwnerAsked(u)
    BY <1>1 DEF SomeOwnerAsked, Asked
  <1>8. \A u \in users' : SomeOwnerAsked(u)
    <2>1. ASSUME d.text = "online"
          PROVE  SomeOwnerAsked(d.from)
      <3>1. d.by \in 1 .. owner[d.from]
        BY <1>2 DEF AskedInv, ChatType, Sent
      <3> QED
        BY <2>1, <3>1 DEF SomeOwnerAsked, Asked
    <2> QED
      BY <1>1, <2>1 DEF Online, AskedInv
  <1>9. refusal.kind # "copy"
    OBVIOUS
  <1> HIDE DEF copies, refusal
  <1>10. ASSUME NEW r \in toClients', r.kind = "copy", r \notin toClients
         PROVE  r \in copies /\ d.from \in users' /\ copies \subseteq toClients'
    <2>1. d.from \in users'
      BY <1>1, <1>9, <1>10
    <2> QED
      BY <1>1, <1>10, <2>1
  <1>11. AskedInv'
    <2>1. ASSUME NEW r \in toClients', r.kind = "copy"
          PROVE  SomeOwnerAsked(r.to) /\ \E e \in toServer : e.id = r.id /\ SomeOwnerAsked(e.from)
      <3>1. CASE r \in toClients
        BY <2>1, <3>1 DEF AskedInv
      <3>2. CASE r \notin toClients
        <4>1. r \in copies /\ d.from \in users'
          BY <1>10, <2>1, <3>2
        <4>2. r.id = d.id /\ r.to \in users'
          BY <4>1 DEF copies, broadcastMessage
        <4> QED
          BY <1>8, <4>1, <4>2
      <3> QED
        BY <3>1, <3>2
    <2> QED
      BY <1>1, <1>7, <1>8, <2>1 DEF AskedInv
  <1>12. SenderIsIncluded'
    <2> SUFFICES ASSUME NEW r \in toClients', r.kind = "copy"
                 PROVE  \E e \in toServer : /\ e.id = r.id /\ e.text \in {"online", "else"}
                                            /\ [r EXCEPT !.to = e.from] \in toClients'
      BY <1>1 DEF SenderIsIncluded
    <2>1. CASE r \in toClients
      BY <1>1, <2>1 DEF SenderIsIncluded
    <2>2. CASE r \notin toClients
      <3>1. r \in copies /\ d.from \in users' /\ copies \subseteq toClients'
        BY <1>10, <2>2
      <3>2. r.id = d.id /\ [r EXCEPT !.to = d.from] = [id |-> d.id, to |-> d.from, kind |-> "copy"]
        BY <3>1 DEF copies, broadcastMessage
      <3>3. [id |-> d.id, to |-> d.from, kind |-> "copy"] \in copies
        BY <3>1 DEF copies, broadcastMessage
      <3>4. d.text \in {"online", "else"}
        BY <1>1, <1>2, <3>1 DEF Online, Texts
      <3> QED
        BY <3>1, <3>2, <3>3, <3>4
    <2> QED
      BY <2>1, <2>2
  <1> QED
    BY <1>5, <1>6, <1>11, <1>12

(* Each step keeps the four invariants.                                    *)
LEMMA ChatStep ==
  ASSUME ChatType, NumberInv, AskedInv, SenderIsIncluded, [Next]_vars
  PROVE  ChatType' /\ NumberInv' /\ AskedInv' /\ SenderIsIncluded'
  <1>1. CASE initServer
    <2>1. /\ server' \in {"socket", "bind", "up", "exited"}
          /\ UNCHANGED <<owner, users, toServer, toClients, shown>>
      BY <1>1 DEF initServer
    <2> QED
      <3>1. ChatType'
        BY <2>1 DEF ChatType
      <3>2. NumberInv' /\ SenderIsIncluded'
        BY <2>1 DEF NumberInv, SenderIsIncluded
      <3>3. AskedInv'
        BY <2>1 DEF AskedInv, SomeOwnerAsked, Asked
      <3> QED
        BY <3>1, <3>2, <3>3
  <1>2. ASSUME NEW c \in Clients, initClient(c)
        PROVE  ChatType' /\ NumberInv' /\ AskedInv' /\ SenderIsIncluded'
    <2>1. /\ owner' = [owner EXCEPT ![c] = @ + 1] /\ owner[c] < MaxOwners
          /\ shown' = [shown EXCEPT ![c] = {}]
          /\ UNCHANGED <<server, users, toServer, toClients>>
      BY <1>2 DEF initClient
    <2>2. owner' \in [Clients -> 1 .. MaxOwners] /\ \A u \in Clients : owner[u] <= owner'[u]
      BY <2>1, ChatAssumption DEF ChatType
    <2>3. ChatType'
      BY <2>1, <2>2 DEF ChatType
    <2>4. \A u \in Clients : SomeOwnerAsked(u) => SomeOwnerAsked(u)'
      BY <2>1, <2>2, <2>3, AskedStays
    <2>5. \A d \in toServer' : d.by <= owner'[d.from]
      BY <2>1, <2>2 DEF AskedInv, ChatType, Sent
    <2>6. \A u \in Clients : \A r \in shown'[u] : r.to = u
      BY <2>1 DEF AskedInv, ChatType
    <2>7. /\ \A r \in toClients : r.to \in Clients
          /\ \A d \in toServer : d.from \in Clients
      BY DEF ChatType, Sent, Replies
    <2>8. AskedInv'
      BY <2>1, <2>4, <2>5, <2>6, <2>7 DEF AskedInv, ChatType
    <2> QED
      BY <2>1, <2>3, <2>8 DEF NumberInv, SenderIsIncluded
  <1>3. ASSUME NEW c \in Clients, NEW r \in toClients, Show(c, r)
        PROVE  ChatType' /\ NumberInv' /\ AskedInv' /\ SenderIsIncluded'
    <2>1. /\ r.to = c /\ shown' = [shown EXCEPT ![c] = @ \cup {r}]
          /\ UNCHANGED <<server, owner, users, toServer, toClients>>
      BY <1>3 DEF Show
    <2>2. \A u \in Clients : \A q \in shown'[u] : q.to = u
      BY <2>1 DEF AskedInv, ChatType
    <2>3. ChatType'
      BY <2>1 DEF ChatType
    <2> QED
      BY <2>1, <2>2, <2>3 DEF NumberInv, AskedInv, SenderIsIncluded, SomeOwnerAsked, Asked
  <1>4. CASE UNCHANGED vars
    BY <1>4 DEF vars, ChatType, NumberInv, AskedInv, SenderIsIncluded, SomeOwnerAsked, Asked
  <1> QED
    BY <1>1, <1>2, <1>3, <1>4, SendStep, RouteStep DEF Next

(* A process that shows a copy before it has asked has an address somebody *)
(* had before it.                                                          *)
LEMMA AskedInvGivesOnlyWhoAsked == ChatType /\ AskedInv => OnlyWhoAsked
  <1> SUFFICES ASSUME ChatType, AskedInv PROVE OnlyWhoAsked
    OBVIOUS
  <1>1. ASSUME NEW c \in Clients, NEW r \in shown[c], r.kind = "copy", ~Asked(c, owner[c])
        PROVE  owner[c] > 1
    <2>1. r \in toClients /\ r.to = c /\ owner[c] \in Nat
      BY <1>1 DEF ChatType, AskedInv
    <2>2. PICK by \in 1 .. owner[c] : Asked(c, by)
      BY <1>1, <2>1 DEF AskedInv, SomeOwnerAsked
    <2>3. by # owner[c]
      BY <1>1, <2>2
    <2> QED
      BY <2>1, <2>2, <2>3
  <1> QED
    BY <1>1 DEF AskedInv, OnlyWhoAsked, SomeOwnerAsked
-----------------------------------------------------------------------------
(* Every variable keeps its type, and no two datagrams have one number     *)
(* (udpServer.hpp:56-75).                                                  *)
THEOREM ChatTyping == Spec => []TypeOK
  <1>1. ChatType /\ NumberInv => TypeOK
    BY DEF ChatType, NumberInv, TypeOK
  <1> QED
    BY <1>1, InitChat, ChatStep, PTL DEF Spec

(* Nobody takes part who has not asked for it, itself or as an earlier     *)
(* owner of its address (udpServer.cc:108-129, onlineUser.hpp:28-60).      *)
THEOREM NobodyUnasked == Spec => []OnlyWhoAsked
  BY InitChat, ChatStep, AskedInvGivesOnlyWhoAsked, PTL DEF Spec

(* A broadcast reaches its own sender too, and an offline or empty message *)
(* is never broadcast (udpServer.cc:110-117, udpServer.hpp:70).            *)
THEOREM SendersHearThemselves == Spec => []SenderIsIncluded
  BY InitChat, ChatStep, PTL DEF Spec
-----------------------------------------------------------------------------
(***************************************************************************)
(* CalSession, for any number of requests, length of text and buffer: the  *)
(* stream cuts the messages anywhere, and at each moment at most one       *)
(* message is under way in each direction.                                 *)
(***************************************************************************)
(* The bytes of a message.                                                 *)
LengthByte(size) == [is |-> "length", of |-> size]
TextByte(n) == [is |-> "text", of |-> n]

(* The bytes of a message.                                                 *)
LEMMA MessageShape ==
  ASSUME NEW n \in Requests, NEW size \in 1 .. MaxText
  PROVE  /\ enLength(n, size) \in Seq(Bytes)
         /\ Len(enLength(n, size)) = size + 5
         /\ enLength(n, size)[1] = LengthByte(size)
         /\ enLength(n, size)[2] = CR /\ enLength(n, size)[3] = LF
         /\ \A j \in 4 .. size + 3 : enLength(n, size)[j] = TextByte(n)
         /\ enLength(n, size)[size + 4] = CR /\ enLength(n, size)[size + 5] = LF
  <1> DEFINE head == <<LengthByte(size), CR, LF>>
             body == [j \in 1 .. size |-> TextByte(n)]
             tail == <<CR, LF>>
  <1>1. size \in Nat \ {0} /\ size <= MaxText /\ MaxText \in Nat
    BY SessionAssumption
  <1>2. LengthByte(size) \in Bytes /\ TextByte(n) \in Bytes /\ CR \in Bytes /\ LF \in Bytes
    BY <1>1 DEF Bytes, LengthByte, TextByte
  <1>3. /\ head \in Seq(Bytes) /\ Len(head) = 3
        /\ head[1] = LengthByte(size) /\ head[2] = CR /\ head[3] = LF
    BY <1>2
  <1>4. /\ body \in Seq(Bytes) /\ Len(body) = size
        /\ \A j \in 1 .. size : body[j] = TextByte(n)
    BY <1>1, <1>2
  <1>5. tail \in Seq(Bytes) /\ Len(tail) = 2 /\ tail[1] = CR /\ tail[2] = LF
    BY <1>2
  <1>6. enLength(n, size) = Cat(Cat(head, body), tail)
    BY DEF enLength, LengthByte, TextByte, Cat
  <1> HIDE DEF head, body, tail
  <1> DEFINE front == Cat(head, body)
  <1>7. /\ front \in Seq(Bytes) /\ Len(front) = 3 + size
        /\ \A j \in 1 .. 3 : front[j] = head[j]
        /\ \A j \in 1 .. size : front[3 + j] = body[j]
    <2>1. front \in Seq(Bytes)
      BY <1>3, <1>4, CatType
    <2>2. /\ Len(Cat(head, body)) = Len(head) + Len(body)
          /\ \A j \in 1 .. Len(head) : Cat(head, body)[j] = head[j]
          /\ \A j \in 1 .. Len(body) : Cat(head, body)[Len(head) + j] = body[j]
      <3>1. head \in Seq(Bytes) /\ body \in Seq(Bytes)
        BY <1>3, <1>4
      <3> QED
        BY <3>1, CatElements
    <2> QED
      BY <1>3, <1>4, <2>1, <2>2
  <1> HIDE DEF front
  <1>8. /\ Cat(front, tail) \in Seq(Bytes) /\ Len(Cat(front, tail)) = 3 + size + 2
        /\ \A j \in 1 .. 3 + size : Cat(front, tail)[j] = front[j]
        /\ \A j \in 1 .. 2 : Cat(front, tail)[3 + size + j] = tail[j]
    <2>1. Cat(front, tail) \in Seq(Bytes)
      BY <1>5, <1>7, CatType
    <2>2. /\ Len(Cat(front, tail)) = Len(front) + Len(tail)
          /\ \A j \in 1 .. Len(front) : Cat(front, tail)[j] = front[j]
          /\ \A j \in 1 .. Len(tail) : Cat(front, tail)[Len(front) + j] = tail[j]
      <3>1. front \in Seq(Bytes) /\ tail \in Seq(Bytes)
        BY <1>5, <1>7
      <3> QED
        BY <3>1, CatElements
    <2> QED
      BY <1>5, <1>7, <2>1, <2>2
  <1>9. \A j \in 4 .. size + 3 : front[j] = TextByte(n)
    <2>1. ASSUME NEW j \in 4 .. size + 3 PROVE front[j] = TextByte(n)
      <3>1. j - 3 \in 1 .. size /\ 3 + (j - 3) = j
        BY <1>1
      <3> QED
        BY <1>4, <1>7, <3>1
    <2> QED
      BY <2>1
  <1>10. enLength(n, size)[size + 4] = CR /\ enLength(n, size)[size + 5] = LF
    <2>1. 3 + size + 1 = size + 4 /\ 3 + size + 2 = size + 5
      BY <1>1
    <2>2. Cat(front, tail)[3 + size + 1] = CR /\ Cat(front, tail)[3 + size + 2] = LF
      BY <1>5, <1>8
    <2> QED
      BY <1>6, <2>1, <2>2 DEF front
  <1>11. Len(enLength(n, size)) = size + 5 /\ enLength(n, size) \in Seq(Bytes)
    BY <1>1, <1>6, <1>8 DEF front
  <1>12. /\ enLength(n, size)[1] = LengthByte(size)
         /\ enLength(n, size)[2] = CR /\ enLength(n, size)[3] = LF
         /\ \A j \in 4 .. size + 3 : enLength(n, size)[j] = TextByte(n)
    <2>1. \A j \in 1 .. 3 + size : enLength(n, size)[j] = front[j]
      BY <1>6, <1>8 DEF front
    <2>2. 1 \in 1 .. 3 + size /\ 2 \in 1 .. 3 + size /\ 3 \in 1 .. 3 + size
      BY <1>1
    <2>3. \A j \in 4 .. size + 3 : j \in 1 .. 3 + size
      BY <1>1
    <2> QED
      BY <1>3, <1>7, <1>9, <2>1, <2>2, <2>3
  <1> QED
    BY <1>10, <1>11, <1>12

(* What has arrived of a message is a package exactly when it has arrived  *)
(* completely: the \r\n behind the text is not taken for the end of the    *)
(* length.                                                                 *)
LEMMA PackageIsMessage ==
  ASSUME NEW n \in Requests, NEW size \in 1 .. MaxText, NEW g \in Seq(Bytes),
         Len(g) <= size + 5, \A j \in 1 .. Len(g) : g[j] = enLength(n, size)[j]
  PROVE  /\ HasPackage(g) <=> Len(g) = size + 5
         /\ HasPackage(g) => TotalLen(g) = size + 5
  <1>1. /\ size \in Nat \ {0} /\ Len(g) \in Nat
        /\ enLength(n, size)[1] = LengthByte(size)
        /\ enLength(n, size)[2] = CR /\ enLength(n, size)[3] = LF
        /\ \A j \in 4 .. size + 3 : enLength(n, size)[j] = TextByte(n)
        /\ enLength(n, size)[size + 4] = CR
    BY MessageShape, SessionAssumption, LenProperties
  <1>2. ASSUME NEW p \in LineSeps(g) PROVE p \in {2, size + 4}
    <2>1. p \in 1 .. Len(g) - 1 /\ g[p] = CR
      BY DEF LineSeps
    <2>2. enLength(n, size)[p] = CR /\ p \in 1 .. size + 4
      BY <1>1, <2>1
    <2>3. LengthByte(size) # CR /\ TextByte(n) # CR /\ LF # CR
      BY DEF LengthByte, TextByte, CR, LF
    <2> QED
      BY <1>1, <2>2, <2>3
  <1>3. CASE Len(g) < 3
    <2>1. LineSeps(g) = {}
      <3>1. ASSUME NEW p \in LineSeps(g) PROVE FALSE
        <4>1. p \in 1 .. Len(g) - 1 /\ p \in {2, size + 4}
          BY <1>2 DEF LineSeps
        <4> QED
          BY <1>1, <1>3, <4>1
      <3> QED
        BY <3>1
    <2> QED
      BY <1>1, <1>3, <2>1 DEF HasPackage
  <1>4. CASE Len(g) >= 3
    <2>1. g[1] = LengthByte(size) /\ g[2] = CR /\ g[3] = LF
      BY <1>1, <1>4
    <2>2. 2 \in LineSeps(g)
      BY <1>1, <1>4, <2>1 DEF LineSeps
    <2>3. \A y \in LineSeps(g) : y \in Int /\ 2 <= y
      BY <1>1, <1>2
    <2>4. Min(LineSeps(g)) = 2
      BY <2>2, <2>3, MinIs
    <2>5. TotalLen(g) = size + 5
      BY <1>1, <2>1, <2>4 DEF TotalLen, TextLen, LengthByte
    <2> QED
      BY <1>1, <2>2, <2>5 DEF HasPackage
  <1> QED
    BY <1>1, <1>3, <1>4

(* What both sides read out of a whole message.                            *)
LEMMA MessageMeans ==
  ASSUME NEW n \in Requests, NEW size \in 1 .. MaxText
  PROVE  deserialize(deLength(enLength(n, size))) = n
  <1> DEFINE m == enLength(n, size)
  <1>1. /\ size \in Nat \ {0} /\ m \in Seq(Bytes) /\ Len(m) = size + 5
        /\ m[1] = LengthByte(size) /\ m[2] = CR /\ m[3] = LF
        /\ m[4] = TextByte(n)
    BY MessageShape, SessionAssumption
  <1> HIDE DEF m
  <1>2. 2 \in LineSeps(m)
    BY <1>1 DEF LineSeps
  <1>3. \A y \in LineSeps(m) : y \in Int /\ 2 <= y
    <2>1. LengthByte(size) # CR
      BY DEF LengthByte, CR
    <2> QED
      BY <1>1, <2>1 DEF LineSeps
  <1>4. Min(LineSeps(m)) = 2
    BY <1>2, <1>3, MinIs
  <1>5. deLength(m) = SubSeq(m, 4, 3 + size)
    BY <1>1, <1>4 DEF deLength, TextLen, LengthByte
  <1>6. SubSeq(m, 4, 3 + size)[1] = m[4]
    BY <1>1
  <1> QED
    BY <1>1, <1>5, <1>6 DEF deserialize, TextByte, m
-----------------------------------------------------------------------------
(* A message of request n, and what side s has received or will receive.   *)
Message(w, n) == \E size \in 1 .. MaxText : w = enLength(n, size)
Under(side) == Cat(inbuffer[side], stream[side])

(* Where a side may be.                                                    *)
Places == {"prompt", "recv", "print", "gone", "answer", "closed", "killed"}

(* The types.                                                              *)
SessionType == SessionTypeOK /\ pc \in [Sides -> Places]

(* The server has calculated all that was asked, or exactly one request is *)
(* on its way to it or in its hands.                                       *)
ServerSide ==
  /\ pc["server"] = "recv" =>
       \/ Under("server") = <<>> /\ Len(executed) = asked
       \/ Message(Under("server"), asked) /\ Len(executed) = asked - 1
  /\ pc["server"] = "answer" =>
       /\ Under("server") = <<>> /\ Len(executed) = asked - 1
       /\ Message(text["server"], asked)
  /\ pc["server"] = "closed" => pc["client"] = "gone"

(* The client has printed all that was calculated, or exactly one response *)
(* is on its way to it or in its hands.                                    *)
ClientSide ==
  /\ Len(printed) <= Len(executed) /\ Len(executed) <= asked
  /\ pc["client"] = "prompt" /\ pc["server"] # "killed" =>
       Len(printed) = asked /\ Under("client") = <<>>
  /\ pc["client"] = "recv" /\ pc["server"] # "killed" =>
       /\ Len(printed) = asked - 1
       /\ \/ Len(executed) = asked - 1 /\ Under("client") = <<>>
          \/ Len(executed) = asked /\ Message(Under("client"), asked)
  /\ pc["client"] = "prompt" /\ pc["server"] = "killed" => stream["client"] = <<>>
  /\ pc["client"] = "recv" /\ pc["server"] = "killed" =>
       \/ stream["client"] = <<>>
       \/ /\ Message(Under("client"), Len(executed)) /\ Len(executed) = asked
          /\ Len(printed) = Len(executed) - 1
  /\ pc["client"] = "print" =>
       /\ Under("client") = <<>> /\ Len(printed) = Len(executed) - 1
       /\ Message(text["client"], Len(executed)) /\ Len(executed) = asked
  /\ pc["client"] = "gone" /\ pc["server"] \in {"recv", "answer"} =>
       Len(executed) = asked \/ Under("client") = <<>>

(* No whole package lies in the inbuffer of a side that has yet to call    *)
(* recv.                                                                   *)
NoPackage ==
  /\ pc["server"] = "recv" => ~HasPackage(inbuffer["server"])
  /\ pc["client"] \in {"prompt", "recv"} => ~HasPackage(inbuffer["client"])

(* The requests in their order, none left out or repeated.                 *)
Counts(s) == s = [n \in 1 .. Len(s) |-> n]

(* The inductive invariant.                                                *)
SessionInv ==
  /\ SessionType /\ ServerSide /\ ClientSide /\ NoPackage /\ RoomForZero
  /\ Counts(executed) /\ Counts(printed)

(* What a message is and means.                                            *)
LEMMA MessageType ==
  ASSUME NEW n \in Requests, NEW w, Message(w, n)
  PROVE  w \in Seq(Bytes) /\ w # <<>> /\ deserialize(deLength(w)) = n
  <1>1. PICK size \in 1 .. MaxText : w = enLength(n, size)
    BY DEF Message
  <1>2. w \in Seq(Bytes) /\ Len(w) = size + 5 /\ size \in Nat
    BY <1>1, MessageShape, SessionAssumption
  <1>3. w # <<>>
    BY <1>2, EmptySeq
  <1> QED
    BY <1>1, <1>2, <1>3, MessageMeans

(* Nothing under way is nothing received and nothing in the stream.        *)
LEMMA UnderEmpty ==
  ASSUME SessionType, NEW side \in Sides
  PROVE  Under(side) = <<>> <=> inbuffer[side] = <<>> /\ stream[side] = <<>>
  <1>1. inbuffer[side] \in Seq(Bytes) /\ stream[side] \in Seq(Bytes)
    BY DEF SessionType, SessionTypeOK
  <1> QED
    BY <1>1, ConcatEqualIffEmpty DEF Under, Cat

(* There is no package in nothing.                                         *)
LEMMA EmptyIsNoPackage == ~HasPackage(<<>>)
  <1>1. LineSeps(<<>>) = {}
    BY EmptySeq DEF LineSeps
  <1> QED
    BY <1>1 DEF HasPackage

(* A pass of recvPackage while a message is under way: it takes all of the *)
(* message, or leaves a part of it in inbuffer.                            *)
LEMMA RecvPart ==
  ASSUME SessionType, NEW side \in Sides, NEW done \in Places, Recv(side, done),
         NEW k \in Requests, Message(Under(side), k)
  PROVE  /\ stream' \in [Sides -> Seq(Bytes)] /\ inbuffer' \in [Sides -> Seq(Bytes)]
         /\ Len(stream'[side]) <= Len(stream[side])
         /\ \A other \in Sides \ {side} :
              stream'[other] = stream[other] /\ inbuffer'[other] = inbuffer[other]
         /\ \/ /\ pc' = [pc EXCEPT ![side] = done] /\ Under(side)' = <<>>
               /\ text' = [text EXCEPT ![side] = Under(side)]
            \/ /\ Under(side)' = Under(side) /\ ~HasPackage(inbuffer'[side])
               /\ UNCHANGED <<pc, text>>
  <1> DEFINE inb == inbuffer[side]
             st == stream[side]
  <1>1. /\ inb \in Seq(Bytes) /\ st \in Seq(Bytes) /\ st # <<>>
        /\ stream \in [Sides -> Seq(Bytes)] /\ inbuffer \in [Sides -> Seq(Bytes)]
    BY DEF SessionType, SessionTypeOK, Recv
  <1>2. PICK n \in 1 .. Min({BufSize, Len(st)}) :
          /\ stream' = [stream EXCEPT ![side] = SubSeq(st, n + 1, Len(st))]
          /\ IF HasPackage(inb \o SubSeq(st, 1, n))
             THEN /\ text' = [text EXCEPT ![side] =
                       SubSeq(inb \o SubSeq(st, 1, n), 1, TotalLen(inb \o SubSeq(st, 1, n)))]
                  /\ inbuffer' = [inbuffer EXCEPT ![side] = Erase(inb \o SubSeq(st, 1, n))]
                  /\ pc' = [pc EXCEPT ![side] = done]
             ELSE /\ inbuffer' = [inbuffer EXCEPT ![side] = inb \o SubSeq(st, 1, n)]
                  /\ UNCHANGED <<text, pc>>
    BY <1>1 DEF Recv
  <1> DEFINE taken == SubSeq(st, 1, n)
             rest == SubSeq(st, n + 1, Len(st))
             got == Cat(inb, taken)
  <1>3. n \in 1 .. Len(st) /\ Len(st) \in Nat
    <2>1. Len(st) \in Nat /\ BufSize \in Nat
      BY <1>1, LenProperties, SessionAssumption
    <2>2. Min({BufSize, Len(st)}) <= Len(st) /\ Min({BufSize, Len(st)}) \in Nat
      BY <2>1, MinOfTwo
    <2> QED
      BY <2>1, <2>2
  <1>4. /\ taken \in Seq(Bytes) /\ rest \in Seq(Bytes)
        /\ Len(rest) = Len(st) - n /\ Cat(taken, rest) = st
    <2>1. taken \in Seq(Bytes) /\ Len(taken) = n
      BY <1>1, <1>3, SubSeqProperties
    <2>2. rest \in Seq(Bytes) /\ Len(rest) = Len(st) - n
      BY <1>1, <1>3, SubSeqProperties
    <2>3. SubSeq(st, 1, n) \o SubSeq(st, n + 1, Len(st)) = SubSeq(st, 1, Len(st))
      BY <1>1, <1>3, ConcatAdjacentSubSeq
    <2>4. SubSeq(st, 1, Len(st)) = st
      BY <1>1, SubSeqFull
    <2> QED
      BY <2>1, <2>2, <2>3, <2>4 DEF Cat
  <1>5. /\ stream' = [stream EXCEPT ![side] = rest]
        /\ IF HasPackage(got)
           THEN /\ text' = [text EXCEPT ![side] = SubSeq(got, 1, TotalLen(got))]
                /\ inbuffer' = [inbuffer EXCEPT ![side] = Erase(got)]
                /\ pc' = [pc EXCEPT ![side] = done]
           ELSE /\ inbuffer' = [inbuffer EXCEPT ![side] = got]
                /\ UNCHANGED <<text, pc>>
    BY <1>2 DEF Cat
  <1>6. Under(side) = Cat(inb, st)
    BY DEF Under
  <1> HIDE DEF inb, st, taken, rest
  <1>7. got \in Seq(Bytes)
    BY <1>1, <1>4, CatType
  <1>8. Under(side) = Cat(got, rest)
    <2>1. Cat(Cat(inb, taken), rest) = Cat(inb, Cat(taken, rest))
      BY <1>1, <1>4, CatAssociative
    <2> QED
      BY <1>4, <1>6, <2>1
  <1> HIDE DEF got
  <1>9. PICK size \in 1 .. MaxText : Under(side) = enLength(k, size)
    BY DEF Message
  <1>10. /\ Len(got) + Len(rest) = size + 5 /\ size \in Nat
         /\ Len(got) \in Nat /\ Len(rest) \in Nat
    <2>1. Len(enLength(k, size)) = size + 5
      BY MessageShape
    <2>2. rest \in Seq(Bytes)
      BY <1>4
    <2>3. Len(Cat(got, rest)) = Len(got) + Len(rest)
      BY <1>7, <2>2, CatElements
    <2>4. Len(got) \in Nat /\ Len(rest) \in Nat
      BY <1>7, <2>2, LenProperties
    <2>5. size \in Nat
      BY SessionAssumption
    <2> QED
      BY <1>8, <1>9, <2>1, <2>3, <2>4, <2>5
  <1>11. \A j \in 1 .. Len(got) : got[j] = enLength(k, size)[j]
    <2>1. rest \in Seq(Bytes)
      BY <1>4
    <2>2. \A j \in 1 .. Len(got) : Cat(got, rest)[j] = got[j]
      BY <1>7, <2>1, CatElements
    <2> QED
      BY <1>8, <1>9, <2>2
  <1>12. /\ HasPackage(got) <=> Len(got) = size + 5
         /\ HasPackage(got) => TotalLen(got) = size + 5
    <2>1. Len(got) <= size + 5
      BY <1>10
    <2> QED
      BY <1>7, <1>11, <2>1, PackageIsMessage
  <1>13. /\ stream' \in [Sides -> Seq(Bytes)] /\ stream'[side] = rest
         /\ \A other \in Sides \ {side} : stream'[other] = stream[other]
    BY <1>1, <1>4, <1>5
  <1>14. Len(stream'[side]) <= Len(stream[side])
    BY <1>3, <1>4, <1>13 DEF st
  <1>15. CASE HasPackage(got)
    <2>1. rest = <<>>
      BY <1>4, <1>10, <1>12, <1>15, EmptySeq
    <2>2. got = Under(side)
      BY <1>7, <1>8, <2>1, CatEmpty
    <2>3. SubSeq(got, 1, TotalLen(got)) = got
      BY <1>7, <1>12, <1>15, SubSeqFull
    <2>4. Erase(got) = <<>>
      <3>1. TotalLen(got) = Len(got) /\ Len(got) \in Nat
        BY <1>10, <1>12, <1>15
      <3>2. Len(got) + 1 \in Int /\ Len(got) \in Int /\ Len(got) < Len(got) + 1
        BY <3>1
      <3>3. SubSeq(got, Len(got) + 1, Len(got)) = <<>>
        BY <3>2, SubSeqEmpty
      <3> QED
        BY <3>1, <3>3 DEF Erase
    <2>5. /\ inbuffer' = [inbuffer EXCEPT ![side] = <<>>]
          /\ text' = [text EXCEPT ![side] = Under(side)]
          /\ pc' = [pc EXCEPT ![side] = done]
      BY <1>5, <1>15, <2>2, <2>3, <2>4
    <2>6. /\ inbuffer' \in [Sides -> Seq(Bytes)] /\ inbuffer'[side] = <<>>
          /\ \A other \in Sides \ {side} : inbuffer'[other] = inbuffer[other]
      BY <1>1, <2>5, EmptySeq
    <2>7. Under(side)' = <<>>
      <3>1. Cat(<<>>, <<>>) = <<>>
        BY EmptySeq, CatEmpty
      <3> QED
        BY <1>13, <2>1, <2>6, <3>1 DEF Under
    <2> QED
      BY <1>13, <1>14, <2>5, <2>6, <2>7
  <1>16. CASE ~HasPackage(got)
    <2>1. inbuffer' = [inbuffer EXCEPT ![side] = got] /\ UNCHANGED <<text, pc>>
      BY <1>5, <1>16
    <2>2. /\ inbuffer' \in [Sides -> Seq(Bytes)] /\ inbuffer'[side] = got
          /\ \A other \in Sides \ {side} : inbuffer'[other] = inbuffer[other]
      BY <1>1, <1>7, <2>1
    <2>3. Under(side)' = Under(side)
      BY <1>8, <1>13, <2>2 DEF Under
    <2> QED
      BY <1>13, <1>14, <1>16, <2>1, <2>2, <2>3
  <1> QED
    BY <1>15, <1>16

(* What the invariant says of the variables, for the steps below.          *)
LEMMA SessionFacts ==
  ASSUME SessionInv
  PROVE  /\ "client" \in Sides /\ "server" \in Sides /\ "client" # "server"
         /\ pc \in [Sides -> Places]
         /\ pc["client"] \in {"prompt", "recv", "print", "gone"}
         /\ pc["server"] \in {"recv", "answer", "closed", "killed"}
         /\ asked \in 0 .. MaxRequests /\ MaxRequests \in Nat /\ asked \in Nat
         /\ Len(executed) \in Nat /\ Len(printed) \in Nat
         /\ executed \in Seq(Requests) /\ printed \in Seq(Requests)
         /\ stream \in [Sides -> Seq(Bytes)] /\ inbuffer \in [Sides -> Seq(Bytes)]
         /\ text \in [Sides -> Seq(Bytes)]
  BY LenProperties, SessionAssumption DEF SessionInv, SessionType, SessionTypeOK, Sides

(* A pass of the server's recvPackage.                                     *)
LEMMA ServerRecvStep ==
  ASSUME SessionInv, ServerRecv
  PROVE  SessionInv'
  <1> USE SessionFacts
  <1>1. /\ pc["server"] = "recv" /\ stream["server"] # <<>>
        /\ UNCHANGED <<asked, executed, printed>>
    BY DEF ServerRecv, Recv
  <1>2. Message(Under("server"), asked) /\ Len(executed) = asked - 1 /\ asked \in Requests
    <2>1. Under("server") # <<>>
      BY <1>1, UnderEmpty DEF SessionInv
    <2>2. Message(Under("server"), asked) /\ Len(executed) = asked - 1
      BY <1>1, <2>1 DEF SessionInv, ServerSide
    <2> QED
      BY <2>2 DEF Requests
  <1>3. /\ stream' \in [Sides -> Seq(Bytes)] /\ inbuffer' \in [Sides -> Seq(Bytes)]
        /\ Len(stream'["server"]) <= Len(stream["server"])
        /\ stream'["client"] = stream["client"] /\ inbuffer'["client"] = inbuffer["client"]
        /\ \/ /\ pc' = [pc EXCEPT !["server"] = "answer"] /\ Under("server")' = <<>>
              /\ text' = [text EXCEPT !["server"] = Under("server")]
           \/ /\ Under("server")' = Under("server") /\ ~HasPackage(inbuffer'["server"])
              /\ UNCHANGED <<pc, text>>
    <2>1. "answer" \in Places /\ Recv("server", "answer") /\ SessionType
      BY DEF Places, ServerRecv, SessionInv
    <2> QED
      BY <1>2, <2>1, RecvPart
  <1>4. Under("client")' = Under("client")
    BY <1>3 DEF Under
  <1>5. RoomForZero'
    <2>1. /\ Len(stream["server"]) \in Nat /\ Len(stream'["server"]) \in Nat /\ BufSize \in Nat
          /\ Len(stream["server"]) < BufSize /\ Len(stream["client"]) < BufSize
      BY <1>3, LenProperties, SessionAssumption DEF SessionInv, RoomForZero
    <2> QED
      BY <1>3, <2>1 DEF RoomForZero, Sides
  <1>6. CASE /\ pc' = [pc EXCEPT !["server"] = "answer"] /\ Under("server")' = <<>>
             /\ text' = [text EXCEPT !["server"] = Under("server")]
    <2>1. pc'["server"] = "answer" /\ pc'["client"] = pc["client"] /\ pc' \in [Sides -> Places]
      BY <1>6 DEF Places
    <2>2. Under("server") \in Seq(Bytes)
      BY <1>2, MessageType
    <2>3. /\ text' \in [Sides -> Seq(Bytes)] /\ text'["server"] = Under("server")
          /\ text'["client"] = text["client"]
      BY <1>6, <2>2
    <2>4. SessionType'
      BY <1>1, <1>3, <2>1, <2>3 DEF SessionType, SessionTypeOK
    <2>5. ServerSide'
      BY <1>1, <1>2, <1>6, <2>1, <2>3 DEF ServerSide
    <2>6. ClientSide'
      BY <1>1, <1>3, <1>4, <2>1, <2>3 DEF SessionInv, ClientSide
    <2>7. NoPackage'
      BY <1>3, <2>1 DEF SessionInv, NoPackage
    <2> QED
      BY <1>1, <1>5, <2>4, <2>5, <2>6, <2>7 DEF SessionInv, Counts
  <1>7. CASE /\ Under("server")' = Under("server") /\ ~HasPackage(inbuffer'["server"])
             /\ UNCHANGED <<pc, text>>
    <2>1. SessionType'
      BY <1>1, <1>3, <1>7 DEF SessionInv, SessionType, SessionTypeOK
    <2>2. ServerSide'
      BY <1>1, <1>7 DEF SessionInv, ServerSide
    <2>3. ClientSide'
      BY <1>1, <1>3, <1>4, <1>7 DEF SessionInv, ClientSide
    <2>4. NoPackage'
      BY <1>3, <1>7 DEF SessionInv, NoPackage
    <2> QED
      BY <1>1, <1>5, <2>1, <2>2, <2>3, <2>4 DEF SessionInv, Counts
  <1> QED
    BY <1>3, <1>6, <1>7

(* A pass of the client's recvPackage.                                     *)
LEMMA ClientRecvStep ==
  ASSUME SessionInv, ClientRecv
  PROVE  SessionInv'
  <1> USE SessionFacts
  <1>1. /\ pc["client"] = "recv" /\ stream["client"] # <<>>
        /\ UNCHANGED <<asked, executed, printed>>
    BY DEF ClientRecv, Recv
  <1>2. /\ Message(Under("client"), Len(executed)) /\ Len(printed) = Len(executed) - 1
        /\ Len(executed) \in Requests
        /\ pc["server"] # "killed" => Len(executed) = asked
    <2>1. Under("client") # <<>>
      BY <1>1, UnderEmpty DEF SessionInv
    <2>2. /\ Message(Under("client"), Len(executed)) /\ Len(printed) = Len(executed) - 1
          /\ pc["server"] # "killed" => Len(executed) = asked
      BY <1>1, <2>1 DEF SessionInv, ClientSide
    <2> QED
      BY <2>2 DEF Requests, SessionInv, ClientSide
  <1>3. /\ stream' \in [Sides -> Seq(Bytes)] /\ inbuffer' \in [Sides -> Seq(Bytes)]
        /\ Len(stream'["client"]) <= Len(stream["client"])
        /\ stream'["server"] = stream["server"] /\ inbuffer'["server"] = inbuffer["server"]
        /\ \/ /\ pc' = [pc EXCEPT !["client"] = "print"] /\ Under("client")' = <<>>
              /\ text' = [text EXCEPT !["client"] = Under("client")]
           \/ /\ Under("client")' = Under("client") /\ ~HasPackage(inbuffer'["client"])
              /\ UNCHANGED <<pc, text>>
    <2>1. "print" \in Places /\ Recv("client", "print") /\ SessionType
      BY DEF Places, ClientRecv, SessionInv
    <2> QED
      BY <1>2, <2>1, RecvPart
  <1>4. Under("server")' = Under("server")
    BY <1>3 DEF Under
  <1>5. RoomForZero'
    <2>1. /\ Len(stream["client"]) \in Nat /\ Len(stream'["client"]) \in Nat /\ BufSize \in Nat
          /\ Len(stream["server"]) < BufSize /\ Len(stream["client"]) < BufSize
      BY <1>3, LenProperties, SessionAssumption DEF SessionInv, RoomForZero
    <2> QED
      BY <1>3, <2>1 DEF RoomForZero, Sides
  <1>6. CASE /\ pc' = [pc EXCEPT !["client"] = "print"] /\ Under("client")' = <<>>
             /\ text' = [text EXCEPT !["client"] = Under("client")]
    <2>1. pc'["client"] = "print" /\ pc'["server"] = pc["server"] /\ pc' \in [Sides -> Places]
      BY <1>6 DEF Places
    <2>2. Under("client") \in Seq(Bytes)
      BY <1>2, MessageType
    <2>3. /\ text' \in [Sides -> Seq(Bytes)] /\ text'["client"] = Under("client")
          /\ text'["server"] = text["server"]
      BY <1>6, <2>2
    <2>4. SessionType'
      BY <1>1, <1>3, <2>1, <2>3 DEF SessionType, SessionTypeOK
    <2>5. ServerSide'
      BY <1>1, <1>4, <2>1, <2>3 DEF SessionInv, ServerSide
    <2>6. ClientSide'
      BY <1>1, <1>2, <1>6, <2>1, <2>3 DEF SessionInv, ClientSide
    <2>7. NoPackage'
      BY <1>3, <2>1 DEF SessionInv, NoPackage
    <2> QED
      BY <1>1, <1>5, <2>4, <2>5, <2>6, <2>7 DEF SessionInv, Counts
  <1>7. CASE /\ Under("client")' = Under("client") /\ ~HasPackage(inbuffer'["client"])
             /\ UNCHANGED <<pc, text>>
    <2>1. SessionType'
      BY <1>1, <1>3, <1>7 DEF SessionInv, SessionType, SessionTypeOK
    <2>2. ServerSide'
      BY <1>1, <1>4, <1>7 DEF SessionInv, ServerSide
    <2>3. ClientSide'
      BY <1>1, <1>2, <1>7 DEF SessionInv, ClientSide
    <2>4. NoPackage'
      BY <1>3, <1>7 DEF SessionInv, NoPackage
    <2> QED
      BY <1>1, <1>5, <2>1, <2>2, <2>3, <2>4 DEF SessionInv, Counts
  <1> QED
    BY <1>3, <1>6, <1>7

(* A message more, in the order of its number.                             *)
LEMMA CountsAppend ==
  ASSUME NEW s \in Seq(Requests), Counts(s), NEW n \in Requests, n = Len(s) + 1
  PROVE  /\ Append(s, n) \in Seq(Requests) /\ Counts(Append(s, n))
         /\ Len(Append(s, n)) = n
  <1>1. Append(s, n) \in Seq(Requests) /\ Len(Append(s, n)) = n
    BY AppendProperties
  <1>2. Len(s) \in Nat
    BY LenProperties
  <1>3. Append([k \in 1 .. Len(s) |-> k], Len(s) + 1) = [k \in 1 .. Len(s) + 1 |-> k]
    BY <1>2
  <1>4. Append(s, n) = [k \in 1 .. n |-> k]
    BY <1>3 DEF Counts
  <1> QED
    BY <1>1, <1>4 DEF Counts

(* A message is sent to a side that has nothing under way.                 *)
LEMMA SendMessage ==
  ASSUME SessionInv, NEW side \in Sides, NEW n \in Requests, NEW size \in 1 .. MaxText,
         Under(side) = <<>>, UNCHANGED inbuffer,
         stream' = [stream EXCEPT ![side] = @ \o enLength(n, size)]
  PROVE  /\ stream' \in [Sides -> Seq(Bytes)]
         /\ \A other \in Sides \ {side} :
              stream'[other] = stream[other] /\ Under(other)' = Under(other)
         /\ Message(Under(side)', n) /\ RoomForZero'
  <1>1. /\ stream \in [Sides -> Seq(Bytes)] /\ inbuffer[side] = <<>> /\ stream[side] = <<>>
    BY UnderEmpty, SessionFacts DEF SessionInv
  <1>2. enLength(n, size) \in Seq(Bytes) /\ Len(enLength(n, size)) = size + 5
    BY MessageShape
  <1> DEFINE m == enLength(n, size)
  <1> HIDE DEF m
  <1>3. Cat(<<>>, m) = m /\ Cat(<<>>, Cat(<<>>, m)) = m
    BY <1>2, CatEmpty DEF m
  <1>4. stream' = [stream EXCEPT ![side] = m]
    BY <1>1, <1>3 DEF Cat, m
  <1>5. /\ stream' \in [Sides -> Seq(Bytes)] /\ stream'[side] = m
        /\ \A other \in Sides \ {side} : stream'[other] = stream[other]
    BY <1>1, <1>2, <1>4 DEF m
  <1>6. Under(side)' = m
    BY <1>1, <1>3, <1>5 DEF Under
  <1>7. \A other \in Sides \ {side} : Under(other)' = Under(other)
    BY <1>5 DEF Under
  <1>8. RoomForZero'
    <2>1. size + 5 < BufSize
      BY SessionAssumption
    <2> QED
      BY <1>2, <1>5, <2>1 DEF SessionInv, RoomForZero, m
  <1>9. Message(m, n)
    BY DEF Message, m
  <1> QED
    BY <1>5, <1>6, <1>7, <1>8, <1>9

(* The server answers.                                                     *)
LEMMA AnswerStep ==
  ASSUME SessionInv, Answer
  PROVE  SessionInv'
  <1> USE SessionFacts
  <1>1. /\ pc["server"] = "answer" /\ UNCHANGED <<asked, inbuffer, text, printed>>
        /\ executed' = Append(executed, deserialize(deLength(text["server"])))
    BY DEF Answer
  <1>2. /\ Under("server") = <<>> /\ Len(executed) = asked - 1
        /\ Message(text["server"], asked) /\ asked \in Requests
    BY <1>1 DEF SessionInv, ServerSide, Requests
  <1>3. /\ executed' \in Seq(Requests) /\ Counts(executed') /\ Len(executed') = asked
    <2>1. executed' = Append(executed, asked)
      BY <1>1, <1>2, MessageType
    <2>2. Counts(executed) /\ asked = Len(executed) + 1
      BY <1>2 DEF SessionInv
    <2> QED
      BY <1>2, <2>1, <2>2, CountsAppend
  <1>4. /\ pc["client"] \in {"recv", "gone"} /\ Under("client") = <<>>
        /\ pc["client"] = "recv" => Len(printed) = asked - 1
    BY <1>1, <1>2 DEF SessionInv, ClientSide
  <1>5. ASSUME NEW size \in 1 .. MaxText,
               stream' = [stream EXCEPT !["client"] = @ \o enLength(asked, size)],
               pc' = [pc EXCEPT !["server"] = "recv"]
        PROVE  SessionInv'
    <2>1. pc'["server"] = "recv" /\ pc'["client"] = pc["client"] /\ pc' \in [Sides -> Places]
      BY <1>5 DEF Places
    <2>2. /\ stream' \in [Sides -> Seq(Bytes)] /\ Under("server")' = Under("server")
          /\ Message(Under("client")', asked) /\ RoomForZero'
      BY <1>1, <1>2, <1>4, <1>5, SendMessage
    <2>3. SessionType'
      BY <1>1, <1>3, <2>1, <2>2 DEF SessionType, SessionTypeOK
    <2>4. ServerSide'
      BY <1>1, <1>2, <1>3, <2>1, <2>2 DEF ServerSide
    <2>5. ClientSide'
      BY <1>1, <1>3, <1>4, <2>1, <2>2 DEF SessionInv, ClientSide
    <2>6. NoPackage'
      <3>1. inbuffer["server"] = <<>>
        BY <1>2, UnderEmpty DEF SessionInv
      <3> QED
        BY <1>1, <2>1, <3>1, EmptyIsNoPackage DEF SessionInv, NoPackage
    <2> QED
      BY <1>1, <1>3, <2>2, <2>3, <2>4, <2>5, <2>6 DEF SessionInv, Counts
  <1>6. CASE /\ pc["client"] = "gone" /\ pc' = [pc EXCEPT !["server"] = "closed"]
             /\ UNCHANGED stream
    <2>1. pc'["server"] = "closed" /\ pc'["client"] = "gone" /\ pc' \in [Sides -> Places]
      BY <1>6 DEF Places
    <2>2. SessionType'
      BY <1>1, <1>3, <1>6, <2>1 DEF SessionInv, SessionType, SessionTypeOK
    <2>3. ServerSide' /\ NoPackage' /\ RoomForZero'
      BY <1>1, <1>6, <2>1 DEF SessionInv, ServerSide, NoPackage, RoomForZero
    <2>4. ClientSide'
      BY <1>1, <1>2, <1>3, <2>1 DEF SessionInv, ClientSide
    <2> QED
      BY <1>1, <1>3, <2>2, <2>3, <2>4 DEF SessionInv, Counts
  <1>7. deserialize(deLength(text["server"])) = asked
    BY <1>2, MessageType
  <1> QED
    BY <1>5, <1>6, <1>7 DEF Answer

(* The user enters a line.                                                 *)
LEMMA AskStep ==
  ASSUME SessionInv, Ask
  PROVE  SessionInv'
  <1> USE SessionFacts
  <1>1. /\ pc["client"] = "prompt" /\ asked' = asked + 1 /\ asked + 1 \in Requests
        /\ asked' \in 0 .. MaxRequests
        /\ UNCHANGED <<inbuffer, text, executed, printed>>
    BY DEF Ask, Requests
  <1>2. ASSUME pc["server"] # "killed", NEW size \in 1 .. MaxText,
               stream' = [stream EXCEPT !["server"] = @ \o enLength(asked + 1, size)],
               pc' = [pc EXCEPT !["client"] = "recv"]
        PROVE  SessionInv'
    <2>1. /\ Len(printed) = asked /\ Under("client") = <<>> /\ Len(executed) = asked
          /\ pc["server"] = "recv" /\ Under("server") = <<>>
      <3>1. Len(printed) = asked /\ Under("client") = <<>> /\ Len(executed) = asked
        BY <1>1, <1>2 DEF SessionInv, ClientSide
      <3>2. pc["server"] = "recv"
        BY <1>1, <1>2, <3>1 DEF SessionInv, ServerSide
      <3> QED
        BY <3>1, <3>2 DEF SessionInv, ServerSide
    <2>2. pc'["client"] = "recv" /\ pc'["server"] = pc["server"] /\ pc' \in [Sides -> Places]
      BY <1>2 DEF Places
    <2>3. /\ stream' \in [Sides -> Seq(Bytes)] /\ Under("client")' = Under("client")
          /\ Message(Under("server")', asked + 1) /\ RoomForZero'
      BY <1>1, <1>2, <2>1, SendMessage
    <2>4. SessionType'
      BY <1>1, <2>2, <2>3 DEF SessionInv, SessionType, SessionTypeOK
    <2>5. ServerSide'
      BY <1>1, <2>1, <2>2, <2>3 DEF ServerSide
    <2>6. ClientSide'
      BY <1>1, <2>1, <2>2, <2>3 DEF ClientSide
    <2>7. NoPackage'
      BY <1>1, <2>2 DEF SessionInv, NoPackage
    <2> QED
      BY <1>1, <2>3, <2>4, <2>5, <2>6, <2>7 DEF SessionInv, Counts
  <1>3. ASSUME pc["server"] = "killed", UNCHANGED stream,
               NEW next \in {"recv", "gone"}, pc' = [pc EXCEPT !["client"] = next]
        PROVE  SessionInv'
    <2>1. pc'["client"] = next /\ pc'["server"] = pc["server"] /\ pc' \in [Sides -> Places]
      BY <1>3 DEF Places
    <2>2. UNCHANGED <<Under("client"), Under("server")>>
      BY <1>1, <1>3 DEF Under
    <2>3. SessionType'
      BY <1>1, <1>3, <2>1 DEF SessionInv, SessionType, SessionTypeOK
    <2>4. ServerSide' /\ RoomForZero'
      BY <1>3, <2>1 DEF SessionInv, ServerSide, RoomForZero
    <2>5. ClientSide'
      BY <1>1, <1>3, <2>1 DEF SessionInv, ClientSide
    <2>6. NoPackage'
      BY <1>1, <2>1 DEF SessionInv, NoPackage
    <2> QED
      BY <1>1, <2>3, <2>4, <2>5, <2>6 DEF SessionInv, Counts
  <1> QED
    BY <1>2, <1>3 DEF Ask

(* The ends of the two processes, and a response that does not come.       *)
LEMMA EndStep ==
  ASSUME SessionInv, ServerEof \/ KillServer \/ ClientEof \/ ClientEnds
  PROVE  SessionInv'
  <1> USE SessionFacts
  <1>1. UNCHANGED <<asked, inbuffer, text, executed, printed>>
    BY DEF ServerEof, KillServer, ClientEof, ClientEnds
  <1>2. CASE ServerEof
    <2>1. /\ pc["client"] = "gone" /\ pc' = [pc EXCEPT !["server"] = "closed"]
          /\ UNCHANGED stream
      BY <1>2 DEF ServerEof, Goto
    <2>2. pc'["server"] = "closed" /\ pc'["client"] = "gone" /\ pc' \in [Sides -> Places]
      BY <2>1 DEF Places
    <2>3. SessionType' /\ ServerSide' /\ NoPackage' /\ RoomForZero'
      BY <1>1, <2>1, <2>2
      DEF SessionInv, SessionType, SessionTypeOK, ServerSide, NoPackage, RoomForZero
    <2>4. ClientSide'
      BY <1>1, <2>2 DEF SessionInv, ClientSide
    <2> QED
      BY <1>1, <2>3, <2>4 DEF SessionInv, Counts
  <1>3. CASE KillServer
    <2>1. /\ pc["server"] \in {"recv", "answer"} /\ pc' = [pc EXCEPT !["server"] = "killed"]
          /\ stream' = [stream EXCEPT !["server"] = <<>>]
      BY <1>3 DEF KillServer
    <2>2. /\ pc'["server"] = "killed" /\ pc'["client"] = pc["client"]
          /\ pc' \in [Sides -> Places]
      BY <2>1 DEF Places
    <2>3. /\ stream' \in [Sides -> Seq(Bytes)] /\ stream'["server"] = <<>>
          /\ stream'["client"] = stream["client"]
      BY <2>1, EmptySeq
    <2>4. Under("client")' = Under("client")
      BY <1>1, <2>3 DEF Under
    <2>5. SessionType' /\ ServerSide' /\ NoPackage'
      BY <1>1, <2>2, <2>3
      DEF SessionInv, SessionType, SessionTypeOK, ServerSide, NoPackage
    <2>6. RoomForZero'
      <3>1. Len(<<>>) = 0 /\ 0 < BufSize
        BY EmptySeq, SessionAssumption
      <3> QED
        BY <2>3, <3>1 DEF SessionInv, RoomForZero, Sides
    <2>7. ClientSide'
      <3>1. Under("client") = <<>> => stream["client"] = <<>>
        BY UnderEmpty DEF SessionInv
      <3> QED
        BY <1>1, <2>1, <2>2, <2>3, <2>4, <3>1 DEF SessionInv, ClientSide
    <2> QED
      BY <1>1, <2>5, <2>6, <2>7 DEF SessionInv, Counts
  <1>4. CASE ClientEof
    <2>1. /\ pc["client"] = "recv" /\ pc["server"] = "killed"
          /\ pc' = [pc EXCEPT !["client"] = "prompt"]
          /\ stream' = [stream EXCEPT !["client"] = <<>>]
      BY <1>4 DEF ClientEof, Goto
    <2>2. /\ pc'["client"] = "prompt" /\ pc'["server"] = "killed"
          /\ pc' \in [Sides -> Places]
      BY <2>1 DEF Places
    <2>3. /\ stream' \in [Sides -> Seq(Bytes)] /\ stream'["client"] = <<>>
          /\ stream'["server"] = stream["server"]
      BY <2>1, EmptySeq
    <2>4. SessionType' /\ ServerSide' /\ NoPackage'
      BY <1>1, <2>1, <2>2, <2>3
      DEF SessionInv, SessionType, SessionTypeOK, ServerSide, NoPackage
    <2>5. RoomForZero'
      <3>1. Len(<<>>) = 0 /\ 0 < BufSize
        BY EmptySeq, SessionAssumption
      <3> QED
        BY <2>3, <3>1 DEF SessionInv, RoomForZero, Sides
    <2>6. ClientSide'
      BY <1>1, <2>2, <2>3 DEF SessionInv, ClientSide
    <2> QED
      BY <1>1, <2>4, <2>5, <2>6 DEF SessionInv, Counts
  <1>5. CASE ClientEnds
    <2>1. pc' = [pc EXCEPT !["client"] = "gone"] /\ UNCHANGED stream /\ pc["client"] # "gone"
      BY <1>5 DEF ClientEnds
    <2>2. /\ pc'["client"] = "gone" /\ pc'["server"] = pc["server"]
          /\ pc' \in [Sides -> Places]
      BY <2>1 DEF Places
    <2>3. UNCHANGED <<Under("client"), Under("server")>>
      BY <1>1, <2>1 DEF Under
    <2>4. SessionType' /\ ServerSide' /\ NoPackage' /\ RoomForZero'
      BY <1>1, <2>1, <2>2, <2>3
      DEF SessionInv, SessionType, SessionTypeOK, ServerSide, NoPackage, RoomForZero
    <2>5. ClientSide'
      BY <1>1, <2>1, <2>2, <2>3 DEF SessionInv, ClientSide
    <2> QED
      BY <1>1, <2>4, <2>5 DEF SessionInv, Counts
  <1> QED
    BY <1>2, <1>3, <1>4, <1>5

(* The client prints the response.                                         *)
LEMMA PrintStep ==
  ASSUME SessionInv, PrintResponse
  PROVE  SessionInv'
  <1> USE SessionFacts
  <1>1. /\ pc["client"] = "print" /\ pc' = [pc EXCEPT !["client"] = "prompt"]
        /\ printed' = Append(printed, deserialize(deLength(text["client"])))
        /\ UNCHANGED <<asked, stream, inbuffer, text, executed>>
    BY DEF PrintResponse, Goto
  <1>2. /\ Under("client") = <<>> /\ Len(printed) = Len(executed) - 1
        /\ Message(text["client"], Len(executed)) /\ Len(executed) \in Requests
        /\ Len(executed) = asked
    BY <1>1 DEF SessionInv, ClientSide, Requests
  <1>3. /\ printed' \in Seq(Requests) /\ Counts(printed') /\ Len(printed') = Len(executed)
    <2>1. printed' = Append(printed, Len(executed))
      BY <1>1, <1>2, MessageType
    <2>2. Counts(printed) /\ Len(executed) = Len(printed) + 1
      BY <1>2 DEF SessionInv
    <2> QED
      BY <1>2, <2>1, <2>2, CountsAppend
  <1>4. pc'["client"] = "prompt" /\ pc'["server"] = pc["server"] /\ pc' \in [Sides -> Places]
    BY <1>1 DEF Places
  <1>5. UNCHANGED <<Under("client"), Under("server")>>
    BY <1>1 DEF Under
  <1>6. inbuffer["client"] = <<>> /\ stream["client"] = <<>>
    BY <1>2, UnderEmpty DEF SessionInv
  <1>7. SessionType'
    BY <1>1, <1>3, <1>4 DEF SessionInv, SessionType, SessionTypeOK
  <1>8. ServerSide' /\ RoomForZero'
    BY <1>1, <1>4, <1>5 DEF SessionInv, ServerSide, RoomForZero
  <1>9. NoPackage'
    BY <1>1, <1>4, <1>6, EmptyIsNoPackage DEF SessionInv, NoPackage
  <1>10. ClientSide'
    BY <1>1, <1>2, <1>3, <1>4, <1>5, <1>6 DEF SessionInv, ClientSide
  <1> QED
    BY <1>1, <1>3, <1>7, <1>8, <1>9, <1>10 DEF SessionInv, Counts
-----------------------------------------------------------------------------
(* The invariant holds at first.                                           *)
LEMMA SessionInitInv == SessionInit => SessionInv
  <1> SUFFICES ASSUME SessionInit PROVE SessionInv
    OBVIOUS
  <1>1. /\ pc \in [Sides -> Places] /\ pc["client"] = "prompt" /\ pc["server"] = "recv"
        /\ asked = 0 /\ executed = <<>> /\ printed = <<>>
        /\ \A side \in Sides : stream[side] = <<>> /\ inbuffer[side] = <<>>
    BY DEF SessionInit, Sides, Places
  <1>2. SessionType
    <2>1. /\ <<>> \in Seq(Bytes) /\ <<>> \in Seq(Requests) /\ 0 \in 0 .. MaxRequests
      BY EmptySeq, SessionAssumption
    <2> QED
      BY <1>1, <2>1 DEF SessionInit, SessionType, SessionTypeOK
  <1>3. \A side \in Sides : Under(side) = <<>>
    BY <1>1, <1>2, UnderEmpty
  <1>4. Len(<<>>) = 0 /\ 0 < BufSize
    BY EmptySeq, SessionAssumption
  <1>5. ServerSide /\ ClientSide /\ RoomForZero
    BY <1>1, <1>3, <1>4 DEF ServerSide, ClientSide, RoomForZero, Sides
  <1>6. NoPackage
    BY <1>1, EmptyIsNoPackage DEF NoPackage, Sides
  <1>7. Counts(<<>>)
    BY <1>4 DEF Counts
  <1> QED
    BY <1>1, <1>2, <1>5, <1>6, <1>7 DEF SessionInv

(* Every step keeps the invariant.                                         *)
LEMMA SessionNextInv == SessionInv /\ [SessionNext]_sessionVars => SessionInv'
  <1> SUFFICES ASSUME SessionInv, [SessionNext]_sessionVars PROVE SessionInv'
    OBVIOUS
  <1>1. CASE SessionNext
    BY <1>1, ServerRecvStep, ClientRecvStep, AnswerStep, AskStep, EndStep, PrintStep
    DEF SessionNext, Server, Client
  <1>2. CASE UNCHANGED sessionVars
    <2>1. UNCHANGED <<Under("client"), Under("server")>>
      BY <1>2 DEF sessionVars, Under
    <2>2. SessionType' /\ NoPackage' /\ RoomForZero' /\ Counts(executed)' /\ Counts(printed)'
      BY <1>2
      DEF sessionVars, SessionInv, SessionType, SessionTypeOK, NoPackage, RoomForZero, Counts
    <2>3. ServerSide' /\ ClientSide'
      BY <1>2, <2>1 DEF sessionVars, SessionInv, ServerSide, ClientSide
    <2> QED
      BY <2>2, <2>3 DEF SessionInv
  <1> QED
    BY <1>1, <1>2

(* The inductive invariant of the session.                                 *)
LEMMA SessionInductive == SessionSpec => []SessionInv
  BY SessionInitInv, SessionNextInv, PTL DEF SessionSpec

(* Wherever TCP cuts the stream and whoever ends, every request is         *)
(* calculated once and in order, and a response the client prints is the   *)
(* one to the line it read last, also after the server was killed          *)
(* (protocol.hpp:202-235, calClient.hpp:64-76).                            *)
THEOREM RequestsAnsweredInOrder == SessionSpec => []Answers
  <1>1. ASSUME SessionInv PROVE Answers
    <2> USE SessionFacts
    <2>1. ASSUME pc["client"] = "print"
          PROVE  deserialize(deLength(text["client"])) = asked
      <3>1. /\ Message(text["client"], Len(executed)) /\ Len(executed) = asked
            /\ Len(executed) \in Requests
        BY <1>1, <2>1 DEF SessionInv, ClientSide, Requests
      <3> QED
        BY <3>1, MessageType
    <2> QED
      BY <1>1, <2>1 DEF SessionInv, Answers, Counts, ClientSide
  <1> QED
    BY <1>1, SessionInductive, PTL

(* A side that waits for bytes has no whole package in its inbuffer        *)
(* (protocol.hpp:205-229).                                                 *)
THEOREM NoPackageLeftBehind == SessionSpec => []NothingLeftBehind
  <1>1. SessionInv => NothingLeftBehind
    BY DEF SessionInv, NothingLeftBehind, NoPackage, Sides
  <1> QED
    BY <1>1, SessionInductive, PTL

(* The zero that recvPackage writes behind what it received stays inside   *)
(* its buffer (protocol.hpp:204-210).                                      *)
THEOREM BufferNeverFull == SessionSpec => []RoomForZero
  <1>1. SessionInv => RoomForZero
    BY DEF SessionInv
  <1> QED
    BY <1>1, SessionInductive, PTL
-----------------------------------------------------------------------------
(***************************************************************************)
(* Calculator, for any alphabet and any width of int: what is printed is   *)
(* the value of the line.                                                  *)
(***************************************************************************)
(* The characters of a number.                                             *)
DigitChars == {Digits[k] : k \in 1 .. 10}

(* Each digit has its value, and none is a blank or a sign.                *)
LEMMA DigitIs ==
  /\ \A k \in 1 .. 10 : DigitValue(Digits[k]) = k - 1
  /\ \A c : isdigit(c) <=> c \in DigitChars
  /\ \A c \in DigitChars : c \notin {SEP, "-", "+"} /\ DigitValue(c) \in 0 .. 9
  <1>1. DOMAIN Digits = 1 .. 10
    BY DEF Digits
  <1>2. \A j, k \in 1 .. 10 : Digits[j] = Digits[k] => j = k
    BY DEF Digits
  <1>3. ASSUME NEW k \in 1 .. 10 PROVE DigitValue(Digits[k]) = k - 1
    <2>1. (CHOOSE j \in 1 .. 10 : Digits[j] = Digits[k]) = k
      BY <1>2
    <2> QED
      BY <1>1, <2>1 DEF DigitValue
  <1>4. ASSUME NEW c PROVE isdigit(c) <=> c \in DigitChars
    BY <1>1 DEF isdigit, DigitChars
  <1>5. ASSUME NEW k \in 1 .. 10 PROVE Digits[k] # SEP /\ Digits[k] # "-" /\ Digits[k] # "+"
    <2>1. Digits[k] \in {"0", "1", "2", "3", "4", "5", "6", "7", "8", "9"}
      BY DEF Digits
    <2> HIDE DEF Digits
    <2>2. ASSUME NEW c \in {"0", "1", "2", "3", "4", "5", "6", "7", "8", "9"}
          PROVE  c # " " /\ c # "-" /\ c # "+"
      OBVIOUS
    <2> QED
      BY <2>1, <2>2, Zenon DEF SEP
  <1> QED
    BY <1>3, <1>4, <1>5 DEF DigitChars

(* Decimal, whose partial results f says for the first n digits of s.      *)
Valued(s, f, n) ==
  f = [k \in 0 .. n |-> IF k = 0 THEN 0 ELSE 10 * f[k - 1] + DigitValue(s[k])]

(* What a partial result is.                                               *)
LEMMA ValuedAt ==
  ASSUME NEW s, NEW f, NEW n, Valued(s, f, n), NEW k \in 0 .. n
  PROVE  f[k] = IF k = 0 THEN 0 ELSE 10 * f[k - 1] + DigitValue(s[k])
  <1> DEFINE h == [m \in 0 .. n |-> IF m = 0 THEN 0 ELSE 10 * f[m - 1] + DigitValue(s[m])]
  <1>1. f = h
    BY Zenon DEF Valued
  <1>2. h[k] = IF k = 0 THEN 0 ELSE 10 * f[k - 1] + DigitValue(s[k])
    OBVIOUS
  <1> HIDE DEF h
  <1> QED
    BY <1>1, <1>2, Zenon

(* There are partial results up to any length, and they are numbers.       *)
LEMMA ValuedExists ==
  ASSUME NEW s \in Seq(DigitChars)
  PROVE  \A n \in 0 .. Len(s) : \E f \in [0 .. n -> Nat] : Valued(s, f, n)
  <1> DEFINE P == {n \in Nat : n <= Len(s) => \E f \in [0 .. n -> Nat] : Valued(s, f, n)}
  <1>0. Len(s) \in Nat
    BY LenProperties
  <1>1. 0 \in P
    <2> DEFINE g == [k \in 0 .. 0 |-> 0]
    <2>1. g \in [0 .. 0 -> Nat] /\ Valued(s, g, 0)
      BY DEF Valued
    <2> QED
      BY <2>1
  <1>2. ASSUME NEW n \in Nat, n \in P PROVE n + 1 \in P
    <2> SUFFICES ASSUME n + 1 <= Len(s)
                 PROVE  \E g \in [0 .. n + 1 -> Nat] : Valued(s, g, n + 1)
      OBVIOUS
    <2>1. PICK f \in [0 .. n -> Nat] : Valued(s, f, n)
      BY <1>0, <1>2
    <2> DEFINE g == [k \in 0 .. n + 1 |->
                       IF k <= n THEN f[k] ELSE 10 * f[n] + DigitValue(s[n + 1])]
    <2>2. DigitValue(s[n + 1]) \in 0 .. 9
      <3>1. s[n + 1] \in DigitChars
        BY <1>0, ElementOfSeq
      <3> QED
        BY <3>1, DigitIs
    <2>3. g \in [0 .. n + 1 -> Nat]
      BY <2>2
    <2>4. ASSUME NEW k \in 0 .. n + 1
          PROVE  g[k] = IF k = 0 THEN 0 ELSE 10 * g[k - 1] + DigitValue(s[k])
      <3>1. CASE k <= n
        <4>1. f[k] = IF k = 0 THEN 0 ELSE 10 * f[k - 1] + DigitValue(s[k])
          <5>1. k \in 0 .. n
            BY <3>1
          <5> QED
            BY <2>1, <5>1, ValuedAt
        <4>2. g[k] = f[k] /\ (k # 0 => g[k - 1] = f[k - 1])
          BY <3>1
        <4> QED
          BY <4>1, <4>2
      <3>2. CASE k = n + 1
        BY <3>2
      <3> QED
        BY <3>1, <3>2
    <2>5. g = [k \in 0 .. n + 1 |-> g[k]]
      OBVIOUS
    <2> HIDE DEF g
    <2>6. Valued(s, g, n + 1)
      BY <2>4, <2>5 DEF Valued
    <2> QED
      BY <2>3, <2>6
  <1> HIDE DEF P
  <1>3. \A n \in Nat : n \in P
    BY <1>1, <1>2, NatSetInduction
  <1> QED
    BY <1>0, <1>3 DEF P

Alike(s, t, n) == \A k \in 1 .. n : s[k] = t[k]

(* Partial results of sequences with the same beginning are the same.      *)
LEMMA ValuedUnique ==
  ASSUME NEW s, NEW t, NEW f, NEW g, NEW m \in Nat, NEW n \in 0 .. m,
         Alike(s, t, n), Valued(s, f, n), Valued(t, g, m)
  PROVE  f[n] = g[n]
  <1> DEFINE P == {k \in Nat : k <= n => f[k] = g[k]}
  <1>1. 0 \in P
    <2>1. f[0] = 0 /\ g[0] = 0
      BY ValuedAt
    <2> QED
      BY <2>1
  <1>2. ASSUME NEW k \in Nat, k \in P PROVE k + 1 \in P
    <2> SUFFICES ASSUME k + 1 <= n PROVE f[k + 1] = g[k + 1]
      OBVIOUS
    <2>1. k + 1 \in 0 .. n /\ k + 1 \in 0 .. m /\ k + 1 # 0 /\ (k + 1) - 1 = k
      OBVIOUS
    <2>2. f[k + 1] = 10 * f[k] + DigitValue(s[k + 1])
      BY <2>1, ValuedAt
    <2>3. g[k + 1] = 10 * g[k] + DigitValue(t[k + 1])
      BY <2>1, ValuedAt
    <2>4. f[k] = g[k] /\ s[k + 1] = t[k + 1]
      BY <1>2 DEF Alike
    <2> QED
      BY <2>2, <2>3, <2>4
  <1> HIDE DEF P
  <1>3. \A k \in Nat : k \in P
    BY <1>1, <1>2, NatSetInduction
  <1> QED
    BY <1>3 DEF P

(* Decimal is the last partial result.                                     *)
LEMMA DecimalValued ==
  ASSUME NEW s \in Seq(DigitChars)
  PROVE  \E f \in [0 .. Len(s) -> Nat] : Valued(s, f, Len(s)) /\ Decimal(s) = f[Len(s)]
  <1> DEFINE g == CHOOSE h : h = [k \in 0 .. Len(s) |->
                                    IF k = 0 THEN 0 ELSE 10 * h[k - 1] + DigitValue(s[k])]
  <1>1. Len(s) \in Nat /\ Len(s) \in 0 .. Len(s)
    BY LenProperties
  <1>2. Decimal(s) = g[Len(s)]
    BY DEF Decimal
  <1>3. PICK f \in [0 .. Len(s) -> Nat] : Valued(s, f, Len(s))
    BY <1>1, ValuedExists
  <1>4. Valued(s, g, Len(s))
    BY <1>3 DEF Valued
  <1> HIDE DEF g
  <1>5. Alike(s, s, Len(s))
    BY DEF Alike
  <1>6. g[Len(s)] = f[Len(s)]
    BY <1>1, <1>3, <1>4, <1>5, ValuedUnique
  <1> QED
    BY <1>2, <1>3, <1>6

(* One more digit makes a number ten times as large and adds its value.    *)
LEMMA DecimalAppend ==
  ASSUME NEW s \in Seq(DigitChars), NEW c \in DigitChars
  PROVE  /\ Append(s, c) \in Seq(DigitChars)
         /\ Decimal(s) \in Nat /\ Decimal(Append(s, c)) \in Nat
         /\ Decimal(Append(s, c)) = 10 * Decimal(s) + DigitValue(c)
  <1> DEFINE t == Append(s, c)
  <1>1. /\ t \in Seq(DigitChars) /\ Len(t) = Len(s) + 1 /\ Len(s) \in Nat
        /\ \A k \in 1 .. Len(s) : s[k] = t[k]
        /\ t[Len(s) + 1] = c
    OBVIOUS
  <1> HIDE DEF t
  <1>2. PICK f \in [0 .. Len(s) -> Nat] : Valued(s, f, Len(s)) /\ Decimal(s) = f[Len(s)]
    BY DecimalValued
  <1>3. PICK g \in [0 .. Len(t) -> Nat] : Valued(t, g, Len(t)) /\ Decimal(t) = g[Len(t)]
    BY <1>1, DecimalValued
  <1>4. g[Len(t)] = 10 * g[Len(t) - 1] + DigitValue(t[Len(t)])
    <2>1. Len(t) \in 0 .. Len(t) /\ Len(t) # 0
      BY <1>1
    <2> QED
      BY <1>3, <2>1, ValuedAt
  <1>5. f[Len(s)] = g[Len(s)]
    <2>1. Len(s) \in 0 .. Len(t) /\ Len(t) \in Nat
      BY <1>1
    <2>2. Alike(s, t, Len(s))
      BY <1>1 DEF Alike
    <2>3. Valued(s, f, Len(s)) /\ Valued(t, g, Len(t))
      BY <1>2, <1>3
    <2> QED
      BY <2>1, <2>2, <2>3, ValuedUnique
  <1>6. Len(t) - 1 = Len(s) /\ f[Len(s)] \in Nat /\ g[Len(t)] \in Nat
    BY <1>1
  <1> QED
    BY <1>1, <1>2, <1>3, <1>4, <1>5, <1>6 DEF t

(* Digits are a number.                                                    *)
LEMMA DecimalType ==
  ASSUME NEW s \in Seq(DigitChars)
  PROVE  Decimal(s) \in Nat
  <1>1. Len(s) \in 0 .. Len(s)
    BY LenProperties
  <1> QED
    BY <1>1, DecimalValued

(* A digit alone is its value.                                             *)
LEMMA DecimalDigit ==
  ASSUME NEW c \in DigitChars
  PROVE  Decimal(<<c>>) = DigitValue(c)
  <1>1. <<>> \in Seq(DigitChars) /\ Append(<<>>, c) = <<c>> /\ Len(<<>>) = 0
    OBVIOUS
  <1>2. Decimal(<<>>) = 0
    <2>1. PICK f \in [0 .. 0 -> Nat] : Valued(<<>>, f, 0) /\ Decimal(<<>>) = f[0]
      BY <1>1, DecimalValued
    <2>2. f[0] = 0
      BY <2>1, ValuedAt
    <2> QED
      BY <2>1, <2>2
  <1>3. DigitValue(c) \in 0 .. 9
    BY DigitIs
  <1>4. Decimal(Append(<<>>, c)) = 10 * Decimal(<<>>) + DigitValue(c)
    BY <1>1, DecimalAppend
  <1>5. Decimal(<<c>>) = 10 * 0 + DigitValue(c)
    BY <1>1, <1>2, <1>4, Zenon
  <1> QED
    BY <1>3, <1>5

(* decimal, whose values f says up to n.                                   *)
Tells(f, n) ==
  \A k \in 0 .. n :
    f[k] = IF k < 10 THEN <<Digits[k + 1]>>
           ELSE Append(f[k \div 10], Digits[(k % 10) + 1])

(* Division by ten leaves a digit.                                         *)
LEMMA TenDivides ==
  ASSUME NEW k \in Nat
  PROVE  /\ k \div 10 \in Nat /\ k % 10 \in 0 .. 9 /\ k = 10 * (k \div 10) + (k % 10)
         /\ (k % 10) + 1 \in 1 .. 10 /\ Digits[(k % 10) + 1] \in DigitChars
         /\ k >= 10 => k \div 10 < k
         /\ k < 10 => k + 1 \in 1 .. 10 /\ Digits[k + 1] \in DigitChars
  <1>1. k \div 10 \in Nat /\ k % 10 \in 0 .. 9 /\ k = 10 * (k \div 10) + (k % 10)
    OBVIOUS
  <1>2. k >= 10 => k \div 10 < k
    BY <1>1
  <1>3. (k % 10) + 1 \in 1 .. 10 /\ (k < 10 => k + 1 \in 1 .. 10)
    BY <1>1
  <1> QED
    BY <1>1, <1>2, <1>3 DEF DigitChars

(* Its values up to any number exist, and are digits.                      *)
LEMMA TellsExists ==
  \A n \in Nat : \E f \in [0 .. n -> Seq(DigitChars)] : Tells(f, n)
  <1> DEFINE P == {n \in Nat : \E f \in [0 .. n -> Seq(DigitChars)] : Tells(f, n)}
  <1>1. 0 \in P
    <2> DEFINE g == [k \in 0 .. 0 |-> <<Digits[1]>>]
    <2>1. Digits[1] \in DigitChars
      BY DEF DigitChars
    <2>2. g \in [0 .. 0 -> Seq(DigitChars)]
      BY <2>1
    <2>3. Tells(g, 0)
      BY DEF Tells
    <2> QED
      BY <2>2, <2>3
  <1>2. ASSUME NEW n \in Nat, n \in P PROVE n + 1 \in P
    <2>1. PICK f \in [0 .. n -> Seq(DigitChars)] : Tells(f, n)
      BY <1>2
    <2> DEFINE d(h, k) == IF k < 10 THEN <<Digits[k + 1]>>
                          ELSE Append(h[k \div 10], Digits[(k % 10) + 1])
               g == [k \in 0 .. n + 1 |-> IF k <= n THEN f[k] ELSE d(f, k)]
    <2>2. n + 1 >= 10 => (n + 1) \div 10 \in 0 .. n
      BY TenDivides
    <2>3. d(f, n + 1) \in Seq(DigitChars)
      <3>1. CASE n + 1 < 10
        BY <3>1, TenDivides
      <3>2. CASE ~ (n + 1 < 10)
        <4>1. f[(n + 1) \div 10] \in Seq(DigitChars) /\ Digits[((n + 1) % 10) + 1] \in DigitChars
          BY <2>2, <3>2, TenDivides
        <4> QED
          BY <3>2, <4>1
      <3> QED
        BY <3>1, <3>2
    <2>4. g \in [0 .. n + 1 -> Seq(DigitChars)]
      BY <2>3
    <2>5. ASSUME NEW k \in 0 .. n + 1 PROVE g[k] = d(g, k)
      <3>1. k >= 10 => k \div 10 \in 0 .. n
        <4>1. k >= 10 => k \div 10 < k /\ k \div 10 \in Nat
          BY TenDivides
        <4> QED
          BY <4>1
      <3>2. k >= 10 => g[k \div 10] = f[k \div 10]
        BY <3>1
      <3>3. d(g, k) = d(f, k)
        BY <3>2
      <3>4. CASE k <= n
        <4>1. f[k] = d(f, k)
          <5>1. k \in 0 .. n
            BY <3>4
          <5> QED
            BY <2>1, <5>1, Zenon DEF Tells
        <4>2. g[k] = f[k]
          BY <3>4
        <4> QED
          BY <3>3, <4>1, <4>2, Zenon
      <3>5. CASE k = n + 1
        <4>1. g[k] = d(f, k)
          BY <3>5
        <4> QED
          BY <3>3, <4>1, Zenon
      <3> QED
        BY <3>4, <3>5
    <2>6. Tells(g, n + 1)
      BY <2>5, Zenon DEF Tells
    <2> HIDE DEF g
    <2> QED
      BY <2>4, <2>6
  <1> HIDE DEF P
  <1>3. \A n \in Nat : n \in P
    BY <1>1, <1>2, NatSetInduction
  <1> QED
    BY <1>3 DEF P

(* There is one such function.                                             *)
LEMMA TellsUnique ==
  ASSUME NEW m \in Nat, NEW n \in Nat, NEW f, NEW g, Tells(f, m), Tells(g, n)
  PROVE  \A k \in Nat : k <= m /\ k <= n => f[k] = g[k]
  <1> DEFINE P == {k \in Nat : \A j \in 0 .. k : j <= m /\ j <= n => f[j] = g[j]}
  <1>0. \A j \in Nat : j < 10 /\ j <= m /\ j <= n => f[j] = g[j]
    <2>1. ASSUME NEW j \in Nat, j < 10, j <= m, j <= n PROVE f[j] = g[j]
      <3>1. j \in 0 .. m /\ j \in 0 .. n
        BY <2>1
      <3>2. f[j] = <<Digits[j + 1]>>
        BY <2>1, <3>1, Zenon DEF Tells
      <3>3. g[j] = <<Digits[j + 1]>>
        BY <2>1, <3>1, Zenon DEF Tells
      <3> QED
        BY <3>2, <3>3, Zenon
    <2> QED
      BY <2>1
  <1>1. 0 \in P
    BY <1>0
  <1>2. ASSUME NEW k \in Nat, k \in P PROVE k + 1 \in P
    <2>1. ASSUME k + 1 <= m, k + 1 <= n, k + 1 >= 10 PROVE f[k + 1] = g[k + 1]
      <3>1. (k + 1) \div 10 \in 0 .. k
        BY <2>1, TenDivides
      <3>2. f[(k + 1) \div 10] = g[(k + 1) \div 10]
        BY <1>2, <2>1, <3>1
      <3>3. k + 1 \in 0 .. m /\ k + 1 \in 0 .. n /\ ~ (k + 1 < 10)
        BY <2>1
      <3>4. f[k + 1] = Append(f[(k + 1) \div 10], Digits[((k + 1) % 10) + 1])
        BY <3>3, Zenon DEF Tells
      <3>5. g[k + 1] = Append(g[(k + 1) \div 10], Digits[((k + 1) % 10) + 1])
        BY <3>3, Zenon DEF Tells
      <3> QED
        BY <3>2, <3>4, <3>5, Zenon
    <2>2. k + 1 <= m /\ k + 1 <= n => f[k + 1] = g[k + 1]
      BY <1>0, <2>1
    <2>3. \A j \in 0 .. k + 1 : j \in 0 .. k \/ j = k + 1
      OBVIOUS
    <2>4. \A j \in 0 .. k : j <= m /\ j <= n => f[j] = g[j]
      BY <1>2
    <2> QED
      BY <2>2, <2>3, <2>4
  <1> HIDE DEF P
  <1>3. \A k \in Nat : k \in P
    BY <1>1, <1>2, NatSetInduction
  <1> QED
    BY <1>3 DEF P

(* decimal is what its definition says.                                    *)
LEMMA DecimalIs ==
  \A k \in Nat :
    /\ decimal[k] \in Seq(DigitChars)
    /\ decimal[k] = IF k < 10 THEN <<Digits[k + 1]>>
                    ELSE Append(decimal[k \div 10], Digits[(k % 10) + 1])
  <1> DEFINE d(h, k) == IF k < 10 THEN <<Digits[k + 1]>>
                        ELSE Append(h[k \div 10], Digits[(k % 10) + 1])
             F(n) == CHOOSE f \in [0 .. n -> Seq(DigitChars)] : Tells(f, n)
             g == [k \in Nat |-> F(k)[k]]
             e == CHOOSE h : h = [k \in Nat |-> d(h, k)]
  <1>1. \A n \in Nat : F(n) \in [0 .. n -> Seq(DigitChars)] /\ Tells(F(n), n)
    BY TellsExists, Zenon
  <1> HIDE DEF F
  <1>2. ASSUME NEW k \in Nat PROVE g[k] = d(g, k)
    <2>1. k \in 0 .. k
      OBVIOUS
    <2>2. F(k)[k] = d(F(k), k)
      BY <1>1, <2>1, Zenon DEF Tells
    <2>3. ASSUME k >= 10 PROVE F(k)[k \div 10] = g[k \div 10]
      <3>1. k \div 10 \in Nat /\ k \div 10 < k
        BY <2>3, TenDivides
      <3>2. k \div 10 <= k /\ k \div 10 <= k \div 10
        BY <3>1
      <3>3. Tells(F(k), k) /\ Tells(F(k \div 10), k \div 10)
        BY <1>1, <3>1, Zenon
      <3>4. F(k)[k \div 10] = F(k \div 10)[k \div 10]
        BY <3>1, <3>2, <3>3, TellsUnique
      <3> QED
        BY <3>1, <3>4
    <2>4. d(F(k), k) = d(g, k)
      BY <2>3
    <2> QED
      BY <2>2, <2>4
  <1>3. g = [k \in Nat |-> d(g, k)]
    BY <1>2
  <1>4. e = [k \in Nat |-> d(e, k)]
    BY <1>3, Zenon
  <1>5. decimal = e
    BY DEF decimal
  <1> HIDE DEF g, e
  <1>6. \A k \in Nat : e[k] = d(e, k)
    BY <1>4
  <1>7. ASSUME NEW k \in Nat PROVE e[k] \in Seq(DigitChars)
    <2>1. Tells(e, k)
      BY <1>6 DEF Tells
    <2>2. k <= k
      OBVIOUS
    <2>3. e[k] = F(k)[k]
      BY <1>1, <2>1, <2>2, TellsUnique
    <2> QED
      BY <1>1, <2>3
  <1> QED
    BY <1>5, <1>6, <1>7

(* The digits of a number are its value.                                   *)
LEMMA DecimalInverse ==
  \A n \in Nat : decimal[n] \in Seq(DigitChars) /\ decimal[n] # <<>> /\ Decimal(decimal[n]) = n
  <1> DEFINE P == {n \in Nat : \A j \in 0 .. n : Decimal(decimal[j]) = j}
  <1>1. \A n \in Nat : n < 10 => Decimal(decimal[n]) = n
    <2>1. ASSUME NEW n \in Nat, n < 10 PROVE Decimal(decimal[n]) = n
      <3>1. decimal[n] = <<Digits[n + 1]>>
        BY <2>1, DecimalIs
      <3>2. n + 1 \in 1 .. 10 /\ Digits[n + 1] \in DigitChars
        BY <2>1, TenDivides
      <3>3. Decimal(<<Digits[n + 1]>>) = DigitValue(Digits[n + 1])
        BY <3>2, DecimalDigit
      <3>4. DigitValue(Digits[n + 1]) = (n + 1) - 1
        BY <3>2, DigitIs, Zenon
      <3> QED
        BY <3>1, <3>3, <3>4
    <2> QED
      BY <2>1
  <1>2. 0 \in P
    BY <1>1
  <1>3. ASSUME NEW n \in Nat, n \in P PROVE n + 1 \in P
    <2>1. ASSUME ~ (n + 1 < 10) PROVE Decimal(decimal[n + 1]) = n + 1
      <3> DEFINE q == (n + 1) \div 10
                 r == (n + 1) % 10
      <3>1. decimal[n + 1] = Append(decimal[q], Digits[r + 1])
        <4>1. n + 1 \in Nat
          OBVIOUS
        <4>2. decimal[n + 1] = IF n + 1 < 10 THEN <<Digits[n + 1 + 1]>>
                               ELSE Append(decimal[q], Digits[r + 1])
          BY <4>1, DecimalIs, Zenon
        <4> QED
          BY <2>1, <4>2, Zenon
      <3>2. q \in 0 .. n /\ r \in 0 .. 9 /\ n + 1 = 10 * q + r /\ r + 1 \in 1 .. 10
            /\ Digits[r + 1] \in DigitChars
        BY <2>1, TenDivides
      <3> HIDE DEF q, r
      <3>3. Decimal(decimal[q]) = q
        BY <1>3, <3>2
      <3>4. decimal[q] \in Seq(DigitChars)
        <4>1. q \in Nat
          BY <3>2
        <4> QED
          BY <4>1, DecimalIs, Zenon
      <3>5. Decimal(Append(decimal[q], Digits[r + 1])) = 10 * q + DigitValue(Digits[r + 1])
        BY <3>2, <3>3, <3>4, DecimalAppend
      <3>6. DigitValue(Digits[r + 1]) = (r + 1) - 1
        BY <3>2, DigitIs, Zenon
      <3> QED
        BY <3>1, <3>2, <3>5, <3>6
    <2>2. Decimal(decimal[n + 1]) = n + 1
      BY <1>1, <2>1
    <2>3. \A j \in 0 .. n + 1 : j \in 0 .. n \/ j = n + 1
      OBVIOUS
    <2>4. \A j \in 0 .. n : Decimal(decimal[j]) = j
      BY <1>3
    <2> QED
      BY <2>2, <2>3, <2>4
  <1> HIDE DEF P
  <1>4. \A n \in Nat : n \in P
    BY <1>2, <1>3, NatSetInduction
  <1>5. \A n \in Nat : Decimal(decimal[n]) = n
    BY <1>4 DEF P
  <1>6. ASSUME NEW n \in Nat PROVE decimal[n] # <<>>
    <2>1. CASE n < 10
      <3>1. decimal[n] = <<Digits[n + 1]>>
        BY <2>1, DecimalIs
      <3> QED
        BY <3>1
    <2>2. CASE ~ (n < 10)
      <3>1. decimal[n] = Append(decimal[n \div 10], Digits[(n % 10) + 1])
        BY <2>2, DecimalIs
      <3>2. n \div 10 \in Nat
        BY TenDivides
      <3>3. decimal[n \div 10] \in Seq(DigitChars)
        BY <3>2, DecimalIs
      <3> QED
        BY <3>1, <3>3
    <2> QED
      BY <2>1, <2>2
  <1> QED
    BY <1>5, <1>6, DecimalIs

(* Of digits alone, all are the prefix.                                    *)
LEMMA DigitsOnly ==
  ASSUME NEW s \in Seq(DigitChars)
  PROVE  Prefix(s, isdigit) = s
  <1> DEFINE ends == {k \in 0 .. Len(s) : \A j \in 1 .. k : isdigit(s[j])}
  <1>1. Len(s) \in Nat /\ ends \in SUBSET Int /\ \A k \in ends : k <= Len(s)
    BY LenProperties
  <1>2. Len(s) \in ends
    <2>1. \A j \in 1 .. Len(s) : isdigit(s[j])
      BY DigitIs, ElementOfSeq
    <2> QED
      BY <1>1, <2>1
  <1> HIDE DEF ends
  <1>3. Max(ends) = Len(s)
    BY <1>1, <1>2, MaxIs
  <1>4. SubSeq(s, 1, Max(ends)) = s
    BY <1>3, SubSeqFull
  <1> QED
    BY <1>4 DEF Prefix, ends

(* Nothing that begins with another character begins with blanks.          *)
LEMMA NoBlank ==
  ASSUME NEW S, NEW s \in Seq(S), s = <<>> \/ s[1] # SEP
  PROVE  Prefix(s, IsBlank) = <<>>
  <1> DEFINE ends == {k \in 0 .. Len(s) : \A j \in 1 .. k : IsBlank(s[j])}
  <1>1. Len(s) \in Nat /\ 0 \in ends /\ ends \in SUBSET Int
    BY LenProperties
  <1>2. ASSUME NEW k \in ends PROVE k <= 0
    <2>1. CASE s = <<>>
      BY <2>1
    <2>2. CASE s # <<>>
      <3>1. ~ IsBlank(s[1])
        BY <2>2 DEF IsBlank
      <3>2. k >= 1 => 1 \in 1 .. k
        BY <1>1
      <3> QED
        BY <1>1, <3>1, <3>2
    <2> QED
      BY <2>1, <2>2
  <1> HIDE DEF ends
  <1>3. Max(ends) = 0
    BY <1>1, <1>2, MaxIs
  <1>4. SubSeq(s, 1, Max(ends)) = <<>>
    BY <1>3
  <1> QED
    BY <1>4 DEF Prefix, ends

(* What stoi makes of digits, and of digits behind a minus.                *)
LEMMA StoiOfDigits ==
  ASSUME NEW s \in Seq(DigitChars)
  PROVE  stoi(s) = {n \in {Decimal(s)} : s # <<>> /\ n \in Ints}
  <1>1. s = <<>> \/ (s[1] \in DigitChars /\ s[1] # SEP /\ s[1] # "-" /\ s[1] # "+")
    <2>1. s # <<>> => s[1] \in DigitChars
      OBVIOUS
    <2> QED
      BY <2>1, DigitIs
  <1>2. Prefix(s, IsBlank) = <<>>
    BY <1>1, NoBlank
  <1>3. Len(<<>>) + 1 = 1 /\ SubSeq(s, 1, Len(s)) = s
    BY SubSeqFull
  <1>4. Prefix(s, isdigit) = s
    BY DigitsOnly
  <1>5. Decimal(s) \in Nat
    BY DecimalType
  <1>6. 1 * Decimal(s) = Decimal(s)
    BY <1>5
  <1> QED
    BY <1>1, <1>2, <1>3, <1>4, <1>6, Zenon DEF stoi

(* A minus before digits makes the number negative.                        *)
LEMMA StoiOfMinus ==
  ASSUME NEW s \in Seq(DigitChars)
  PROVE  stoi(<<"-">> \o s) = {n \in {-Decimal(s)} : s # <<>> /\ n \in Ints}
  <1> DEFINE m == <<"-">> \o s
  <1>1. /\ m \in Seq(DigitChars \cup {"-"}) /\ m # <<>> /\ m[1] = "-" /\ Tail(m) = s
    <2>1. <<"-">> \in Seq({"-"}) /\ Len(<<"-">>) = 1
      OBVIOUS
    <2> QED
      BY <2>1
  <1> HIDE DEF m
  <1>2. "-" # SEP
    BY DEF SEP
  <1>3. Prefix(m, IsBlank) = <<>>
    BY <1>1, <1>2, NoBlank
  <1>4. Len(<<>>) + 1 = 1 /\ SubSeq(m, 1, Len(m)) = m
    BY <1>1, SubSeqFull
  <1>5. Prefix(s, isdigit) = s
    BY DigitsOnly
  <1>6. Decimal(s) \in Nat
    BY DecimalType
  <1>7. (-1) * Decimal(s) = -Decimal(s)
    BY <1>6
  <1>8. stoi(m) = {n \in {-Decimal(s)} : s # <<>> /\ n \in Ints}
    BY <1>1, <1>3, <1>4, <1>5, <1>7, Zenon DEF stoi
  <1> QED
    BY <1>8 DEF m

(* What to_string writes, stoi reads.                                      *)
NumberChars == DigitChars \cup {"-"}

(* stoi reads back each int to_string writes.                              *)
LEMMA StoiOfToString ==
  ASSUME NEW n \in Ints
  PROVE  /\ to_string(n) \in Seq(NumberChars) /\ to_string(n) # <<>>
         /\ stoi(to_string(n)) = {n}
  <1>1. n \in Int
    BY CalculatorAssumption DEF Ints, MinInt
  <1>2. CASE n < 0
    <2>1. -n \in Nat /\ -(-n) = n
      BY <1>1, <1>2
    <2>2. decimal[-n] \in Seq(DigitChars) /\ decimal[-n] # <<>> /\ Decimal(decimal[-n]) = -n
      BY <2>1, DecimalInverse
    <2>3. stoi(<<"-">> \o decimal[-n]) = {k \in {-(-n)} : decimal[-n] # <<>> /\ k \in Ints}
      BY <2>2, StoiOfMinus
    <2>4. stoi(<<"-">> \o decimal[-n]) = {n}
      BY <2>1, <2>2, <2>3
    <2>5. <<"-">> \o decimal[-n] \in Seq(NumberChars) /\ <<"-">> \o decimal[-n] # <<>>
      BY <2>2 DEF NumberChars
    <2>6. to_string(n) = <<"-">> \o decimal[-n]
      BY <1>2, Zenon DEF to_string
    <2> QED
      BY <2>4, <2>5, <2>6, Zenon
  <1>3. CASE ~ (n < 0)
    <2>1. n \in Nat
      BY <1>1, <1>3
    <2>2. decimal[n] \in Seq(DigitChars) /\ decimal[n] # <<>> /\ Decimal(decimal[n]) = n
      BY <2>1, DecimalInverse
    <2>3. stoi(decimal[n]) = {k \in {n} : decimal[n] # <<>> /\ k \in Ints}
      BY <2>2, StoiOfDigits
    <2>4. stoi(decimal[n]) = {n}
      BY <2>2, <2>3
    <2>5. decimal[n] \in Seq(NumberChars)
      BY <2>2 DEF NumberChars
    <2>6. to_string(n) = decimal[n]
      BY <1>3, Zenon DEF to_string
    <2> QED
      BY <2>2, <2>4, <2>5, <2>6, Zenon
  <1> QED
    BY <1>2, <1>3

(* No character of a number is the separator.                              *)
LEMMA NoSeparator ==
  SEP \notin NumberChars
  <1>1. "-" # SEP
    BY DEF SEP
  <1> QED
    BY <1>1, DigitIs DEF NumberChars

(* What is read of a text whose first and last separators are one apart.   *)
Reads(s, l, r, x, y) ==
  /\ Positions(s) # {} /\ l = Min(Positions(s)) /\ r = Max(Positions(s)) /\ l # r
  /\ r - (l + 1) = 1 /\ SubSeq(s, 1, l - 1) # <<>> /\ SubSeq(s, r + 1, Len(s)) # <<>>
  /\ stoi(SubSeq(s, 1, l - 1)) = {x} /\ stoi(SubSeq(s, r + 1, Len(s))) = {y}

(* Text that reads as a request is one request.                            *)
LEMMA RequestRead ==
  ASSUME NEW s, NEW l, NEW r, NEW x, NEW y, Reads(s, l, r, x, y)
  PROVE  deserializeRequest(s) = {[x |-> x, op |-> s[l + 1], y |-> y]}
  <1> DEFINE A == SubSeq(s, 1, l - 1)
             B == SubSeq(s, r + 1, Len(s))
  <1>1. deserializeRequest(s) = {[x |-> v, op |-> s[l + 1], y |-> w] : v \in stoi(A), w \in stoi(B)}
    BY DEF Reads, deserializeRequest
  <1>2. stoi(A) = {x} /\ stoi(B) = {y}
    BY DEF Reads
  <1> DEFINE f(v, w) == [x |-> v, op |-> s[l + 1], y |-> w]
  <1> HIDE DEF f
  <1>3. {f(v, w) : v \in {x}, w \in {y}} = {f(x, y)}
    OBVIOUS
  <1> DEFINE F(X, Y) == {f(v, w) : v \in X, w \in Y}
  <1>4. F({x}, {y}) = {f(x, y)}
    BY <1>3
  <1>5. deserializeRequest(s) = F(stoi(A), stoi(B))
    BY <1>1 DEF f
  <1> HIDE DEF F
  <1>6. deserializeRequest(s) = {f(x, y)}
    BY <1>2, <1>4, <1>5
  <1> QED
    BY <1>6 DEF f

(* A Request written as text is read as it was, whatever its operator: even*)
(* the separator.                                                          *)
LEMMA RequestReadBack ==
  ASSUME NEW r, r.x \in Ints, r.y \in Ints, r = [x |-> r.x, op |-> r.op, y |-> r.y]
  PROVE  deserializeRequest(serializeRequest(r)) = {r}
  <1> DEFINE A == to_string(r.x)
             B == to_string(r.y)
             mid == <<SEP, r.op, SEP>>
             s == Cat(Cat(A, mid), B)
             S == NumberChars \cup {SEP, r.op}
  <1>1. A \in Seq(NumberChars) /\ A # <<>> /\ stoi(A) = {r.x}
    BY StoiOfToString
  <1>2. B \in Seq(NumberChars) /\ B # <<>> /\ stoi(B) = {r.y}
    BY StoiOfToString
  <1>3. serializeRequest(r) = s
    BY DEF serializeRequest, Cat
  <1> HIDE DEF A, B
  <1>4. /\ mid \in Seq(S) /\ Len(mid) = 3 /\ mid[1] = SEP /\ mid[2] = r.op /\ mid[3] = SEP
    OBVIOUS
  <1> HIDE DEF mid
  <1>5. A \in Seq(S) /\ B \in Seq(S)
    BY <1>1, <1>2
  <1> DEFINE a == Len(A)
             b == Len(B)
  <1>6. a \in Nat /\ b \in Nat /\ a # 0 /\ b # 0
    BY <1>1, <1>2, LenProperties, EmptySeq
  <1> HIDE DEF S
  <1>7. /\ Cat(A, mid) \in Seq(S) /\ Len(Cat(A, mid)) = a + 3
        /\ \A k \in 1 .. a : Cat(A, mid)[k] = A[k]
        /\ \A k \in 1 .. 3 : Cat(A, mid)[a + k] = mid[k]
    <2>1. Cat(A, mid) \in Seq(S)
      BY <1>4, <1>5, CatType
    <2>2. /\ Len(Cat(A, mid)) = Len(A) + Len(mid)
          /\ \A k \in 1 .. Len(A) : Cat(A, mid)[k] = A[k]
          /\ \A k \in 1 .. Len(mid) : Cat(A, mid)[Len(A) + k] = mid[k]
      <3>1. A \in Seq(S) /\ mid \in Seq(S)
        BY <1>4, <1>5
      <3> HIDE DEF a
      <3> QED
        BY <3>1, CatElements
    <2> QED
      BY <1>4, <2>1, <2>2
  <1> DEFINE h == Cat(A, mid)
  <1>8. /\ s \in Seq(S) /\ Len(s) = a + 3 + b
        /\ \A k \in 1 .. a + 3 : s[k] = h[k]
        /\ \A k \in 1 .. b : s[a + 3 + k] = B[k]
    <2>1. h \in Seq(S) /\ Len(h) = a + 3
      BY <1>7
    <2> HIDE DEF h
    <2>2. s = Cat(h, B)
      BY DEF h
    <2>3. Cat(h, B) \in Seq(S)
      BY <1>5, <2>1, CatType
    <2>4. /\ Len(Cat(h, B)) = Len(h) + Len(B)
          /\ \A k \in 1 .. Len(h) : Cat(h, B)[k] = h[k]
          /\ \A k \in 1 .. Len(B) : Cat(h, B)[Len(h) + k] = B[k]
      <3>1. h \in Seq(S) /\ B \in Seq(S)
        BY <1>5, <2>1
      <3> HIDE DEF a, b
      <3> QED
        BY <3>1, CatElements
    <2> HIDE DEF s
    <2> QED
      BY <2>1, <2>2, <2>3, <2>4
  <1> HIDE DEF s
  <1>9. ASSUME NEW k \in 1 .. a PROVE s[k] # SEP /\ s[k] = A[k]
    <2>1. k \in 1 .. a + 3
      BY <1>6
    <2>2. s[k] = A[k]
      BY <1>7, <1>8, <2>1
    <2>3. A[k] \in NumberChars
      BY <1>1
    <2> QED
      BY <2>2, <2>3, NoSeparator
  <1>10. ASSUME NEW k \in 1 .. b PROVE s[a + 3 + k] # SEP
    <2>1. B[k] \in NumberChars
      BY <1>2
    <2> QED
      BY <1>8, <2>1, NoSeparator
  <1>11. s[a + 1] = SEP /\ s[a + 2] = r.op /\ s[a + 3] = SEP
    <2>1. a + 1 \in 1 .. a + 3 /\ a + 2 \in 1 .. a + 3 /\ a + 3 \in 1 .. a + 3
      BY <1>6
    <2>2. 1 \in 1 .. 3 /\ 2 \in 1 .. 3 /\ 3 \in 1 .. 3
      OBVIOUS
    <2> QED
      BY <1>4, <1>7, <1>8, <2>1, <2>2
  <1>12. \A k \in Positions(s) : k \in Nat /\ a + 1 <= k /\ k <= a + 3
    <2>1. DOMAIN s = 1 .. a + 3 + b
      BY <1>8
    <2>2. ASSUME NEW k \in 1 .. a + 3 + b, s[k] = SEP PROVE a + 1 <= k /\ k <= a + 3
      <3>1. k \notin 1 .. a
        BY <1>9, <2>2
      <3>2. k - (a + 3) \notin 1 .. b
        <4>1. k = a + 3 + (k - (a + 3))
          BY <1>6
        <4> QED
          BY <1>10, <2>2, <4>1
      <3> QED
        BY <1>6, <3>1, <3>2
    <2> QED
      BY <1>6, <2>1, <2>2 DEF Positions
  <1>13. a + 1 \in Positions(s) /\ a + 3 \in Positions(s)
    <2>1. DOMAIN s = 1 .. a + 3 + b
      BY <1>8
    <2> QED
      BY <1>6, <1>11, <2>1 DEF Positions
  <1>14. Min(Positions(s)) = a + 1 /\ Max(Positions(s)) = a + 3
    <2>1. Positions(s) \in SUBSET Int
      BY <1>12
    <2> QED
      BY <1>12, <1>13, <2>1, MinIs, MaxIs
  <1>15. SubSeq(s, 1, a) = A
    <2>1. SubSeq(s, 1, a) \in Seq(S) /\ Len(SubSeq(s, 1, a)) = a
          /\ \A k \in 1 .. a : SubSeq(s, 1, a)[k] = s[k]
      BY <1>6, <1>8
    <2> QED
      BY <1>5, <1>9, <2>1, SeqEqual
  <1>16. SubSeq(s, a + 4, a + 3 + b) = B
    <2>1. SubSeq(s, a + 4, a + 3 + b) \in Seq(S) /\ Len(SubSeq(s, a + 4, a + 3 + b)) = b
          /\ \A k \in 1 .. b : SubSeq(s, a + 4, a + 3 + b)[k] = s[a + 3 + k]
      BY <1>6, <1>8
    <2> QED
      BY <1>5, <1>8, <2>1, SeqEqual
  <1>17. deserializeRequest(s) = {[x |-> r.x, op |-> r.op, y |-> r.y]}
    <2>1. PICK l : l = a + 1
      OBVIOUS
    <2>2. PICK m : m = a + 3
      OBVIOUS
    <2>3. l - 1 = a /\ l + 1 = a + 2 /\ m + 1 = a + 4 /\ l # m /\ m - (l + 1) = 1
      BY <1>6, <2>1, <2>2
    <2>4. l = Min(Positions(s)) /\ m = Max(Positions(s)) /\ Positions(s) # {}
      BY <1>13, <1>14, <2>1, <2>2
    <2>5. A = SubSeq(s, 1, l - 1) /\ s[l + 1] = r.op
      BY <1>11, <1>15, <2>3
    <2>6. B = SubSeq(s, m + 1, Len(s))
      BY <1>8, <1>16, <2>3
    <2> HIDE DEF a, b
    <2>7. deserializeRequest(s) = {[x |-> r.x, op |-> s[l + 1], y |-> r.y]}
      <3>1. Reads(s, l, m, r.x, r.y)
        BY <1>1, <1>2, <2>3, <2>4, <2>5, <2>6, Zenon DEF Reads
      <3> QED
        BY <3>1, RequestRead
    <2> QED
      BY <2>5, <2>7
  <1> QED
    BY <1>3, <1>17

(* What is read of a response, and that it is the one written.             *)
ReadsBoth(s, l, e, n) ==
  /\ Positions(s) # {} /\ l = Min(Positions(s))
  /\ stoi(SubSeq(s, 1, l - 1)) = {e} /\ stoi(SubSeq(s, l + 1, Len(s))) = {n}

(* Text that reads as a response is one response.                          *)
LEMMA ResponseRead ==
  ASSUME NEW s, NEW l, NEW e, NEW n, ReadsBoth(s, l, e, n)
  PROVE  deserializeResponse(s) = {[exitcode |-> e, result |-> n]}
  <1> DEFINE A == SubSeq(s, 1, l - 1)
             B == SubSeq(s, l + 1, Len(s))
  <1>1. deserializeResponse(s) = {[exitcode |-> v, result |-> w] : v \in stoi(A), w \in stoi(B)}
    BY DEF ReadsBoth, deserializeResponse
  <1>2. stoi(A) = {e} /\ stoi(B) = {n}
    BY DEF ReadsBoth
  <1> DEFINE f(v, w) == [exitcode |-> v, result |-> w]
  <1> HIDE DEF f
  <1>3. {f(v, w) : v \in {e}, w \in {n}} = {f(e, n)}
    OBVIOUS
  <1> DEFINE F(X, Y) == {f(v, w) : v \in X, w \in Y}
  <1>4. F({e}, {n}) = {f(e, n)}
    BY <1>3
  <1>5. deserializeResponse(s) = F(stoi(A), stoi(B))
    BY <1>1 DEF f
  <1> HIDE DEF F
  <1>6. deserializeResponse(s) = {f(e, n)}
    BY <1>2, <1>4, <1>5
  <1> QED
    BY <1>6 DEF f

(* A Response written as text is read as it was.                           *)
LEMMA ResponseReadBack ==
  ASSUME NEW r \in Responses
  PROVE  deserializeResponse(serializeResponse(r)) = {r}
  <1> DEFINE A == to_string(r.exitcode)
             B == to_string(r.result)
             mid == <<SEP>>
             s == Cat(Cat(A, mid), B)
             S == NumberChars \cup {SEP}
  <1>0. /\ r.exitcode \in Ints /\ r.result \in Ints
        /\ r = [exitcode |-> r.exitcode, result |-> r.result]
    BY CalculatorAssumption DEF Responses, Ints, MinInt
  <1>1. A \in Seq(NumberChars) /\ A # <<>> /\ stoi(A) = {r.exitcode}
    BY <1>0, StoiOfToString
  <1>2. B \in Seq(NumberChars) /\ B # <<>> /\ stoi(B) = {r.result}
    BY <1>0, StoiOfToString
  <1>3. serializeResponse(r) = s
    BY DEF serializeResponse, Cat
  <1> HIDE DEF A, B
  <1>4. mid \in Seq(S) /\ Len(mid) = 1 /\ mid[1] = SEP
    OBVIOUS
  <1> HIDE DEF mid
  <1>5. A \in Seq(S) /\ B \in Seq(S)
    BY <1>1, <1>2
  <1> DEFINE a == Len(A)
             b == Len(B)
  <1>6. a \in Nat /\ b \in Nat /\ a # 0 /\ b # 0
    BY <1>1, <1>2, LenProperties, EmptySeq
  <1> HIDE DEF S
  <1>7. /\ Cat(A, mid) \in Seq(S) /\ Len(Cat(A, mid)) = a + 1
        /\ \A k \in 1 .. a : Cat(A, mid)[k] = A[k]
        /\ Cat(A, mid)[a + 1] = SEP
    <2>1. Cat(A, mid) \in Seq(S)
      BY <1>4, <1>5, CatType
    <2>2. /\ Len(Cat(A, mid)) = Len(A) + Len(mid)
          /\ \A k \in 1 .. Len(A) : Cat(A, mid)[k] = A[k]
          /\ \A k \in 1 .. Len(mid) : Cat(A, mid)[Len(A) + k] = mid[k]
      <3>1. A \in Seq(S) /\ mid \in Seq(S)
        BY <1>4, <1>5
      <3> HIDE DEF a
      <3> QED
        BY <3>1, CatElements
    <2>3. 1 \in 1 .. 1
      OBVIOUS
    <2> QED
      BY <1>4, <2>1, <2>2, <2>3
  <1> DEFINE h == Cat(A, mid)
  <1>8. /\ s \in Seq(S) /\ Len(s) = a + 1 + b
        /\ \A k \in 1 .. a + 1 : s[k] = h[k]
        /\ \A k \in 1 .. b : s[a + 1 + k] = B[k]
    <2>1. h \in Seq(S) /\ Len(h) = a + 1
      BY <1>7
    <2> HIDE DEF h
    <2>2. s = Cat(h, B)
      BY DEF h
    <2>3. Cat(h, B) \in Seq(S)
      BY <1>5, <2>1, CatType
    <2>4. /\ Len(Cat(h, B)) = Len(h) + Len(B)
          /\ \A k \in 1 .. Len(h) : Cat(h, B)[k] = h[k]
          /\ \A k \in 1 .. Len(B) : Cat(h, B)[Len(h) + k] = B[k]
      <3>1. h \in Seq(S) /\ B \in Seq(S)
        BY <1>5, <2>1
      <3> HIDE DEF a, b
      <3> QED
        BY <3>1, CatElements
    <2> HIDE DEF s
    <2> QED
      BY <2>1, <2>2, <2>3, <2>4
  <1> HIDE DEF s
  <1>9. ASSUME NEW k \in 1 .. a PROVE s[k] # SEP /\ s[k] = A[k]
    <2>1. k \in 1 .. a + 1
      BY <1>6
    <2>2. s[k] = A[k]
      BY <1>7, <1>8, <2>1
    <2>3. A[k] \in NumberChars
      BY <1>1
    <2> QED
      BY <2>2, <2>3, NoSeparator
  <1>10. s[a + 1] = SEP /\ a + 1 \in Positions(s)
    <2>1. a + 1 \in 1 .. a + 1 /\ a + 1 \in 1 .. a + 1 + b
      BY <1>6
    <2>2. s[a + 1] = SEP
      BY <1>7, <1>8, <2>1
    <2>3. DOMAIN s = 1 .. a + 1 + b
      BY <1>8
    <2> QED
      BY <2>1, <2>2, <2>3 DEF Positions
  <1>11. Min(Positions(s)) = a + 1
    <2>1. DOMAIN s = 1 .. a + 1 + b
      BY <1>8
    <2>2. \A k \in Positions(s) : k \in Nat /\ a + 1 <= k
      BY <1>6, <1>9, <2>1 DEF Positions
    <2>3. Positions(s) \in SUBSET Int
      BY <2>2
    <2> QED
      BY <1>10, <2>2, <2>3, MinIs
  <1>12. SubSeq(s, 1, a) = A
    <2>1. SubSeq(s, 1, a) \in Seq(S) /\ Len(SubSeq(s, 1, a)) = a
          /\ \A k \in 1 .. a : SubSeq(s, 1, a)[k] = s[k]
      BY <1>6, <1>8
    <2> QED
      BY <1>5, <1>9, <2>1, SeqEqual
  <1>13. SubSeq(s, a + 2, a + 1 + b) = B
    <2>1. SubSeq(s, a + 2, a + 1 + b) \in Seq(S) /\ Len(SubSeq(s, a + 2, a + 1 + b)) = b
          /\ \A k \in 1 .. b : SubSeq(s, a + 2, a + 1 + b)[k] = s[a + 1 + k]
      BY <1>6, <1>8
    <2> QED
      BY <1>5, <1>8, <2>1, SeqEqual
  <1>14. deserializeResponse(s) = {[exitcode |-> r.exitcode, result |-> r.result]}
    <2>1. PICK l : l = a + 1
      OBVIOUS
    <2>2. l - 1 = a /\ l + 1 = a + 2
      BY <1>6, <2>1
    <2>3. l = Min(Positions(s)) /\ Positions(s) # {}
      BY <1>10, <1>11, <2>1
    <2>4. A = SubSeq(s, 1, l - 1) /\ B = SubSeq(s, l + 1, Len(s))
      BY <1>8, <1>12, <1>13, <2>2
    <2>5. ReadsBoth(s, l, r.exitcode, r.result)
      BY <1>1, <1>2, <2>3, <2>4, Zenon DEF ReadsBoth
    <2> QED
      BY <2>5, ResponseRead
  <1> QED
    BY <1>0, <1>3, <1>14

(* Overflow keeps a value in the range of int and its residue.             *)
LEMMA WrapIs ==
  ASSUME NEW n \in Int
  PROVE  Wrap(n) \in Ints /\ (Wrap(n) - n) % (2 * (MaxInt + 1)) = 0
  <1> DEFINE M == 2 * (MaxInt + 1)
             k == n - MinInt
  <1>1. /\ MaxInt \in Nat /\ M \in Nat /\ M > 0 /\ MinInt = -MaxInt - 1 /\ k \in Int
        /\ M - 1 + MinInt = MaxInt /\ Wrap(n) = (k % M) + MinInt /\ k = n - MinInt
    BY CalculatorAssumption DEF Wrap, MinInt
  <1> HIDE DEF M, k
  <1>2. k % M \in 0 .. M - 1 /\ k = M * (k \div M) + (k % M) /\ k \div M \in Int
    BY <1>1
  <1>3. Wrap(n) \in Ints
    BY <1>1, <1>2 DEF Ints
  <1>4. Wrap(n) - n = -(M * (k \div M))
    BY <1>1, <1>2
  <1>5. -(M * (k \div M)) = M * (-(k \div M)) /\ -(k \div M) \in Int
    BY <1>1, <1>2
  <1>6. \A d \in Int : (M * d) % M = 0
    BY <1>1
  <1> QED
    BY <1>3, <1>4, <1>5, <1>6 DEF M

(* Division of a number without a sign: the quotient is an int, and the    *)
(* remainder is smaller than the divisor and has no sign either.           *)
LEMMA QuotientIs ==
  ASSUME NEW x \in Ints, NEW y \in Ints, x >= 0, y # 0
  PROVE  /\ Quotient(x, y) \in Ints /\ Remainder(x, y) \in Ints
         /\ x = Quotient(x, y) * y + Remainder(x, y)
         /\ Magnitude(Remainder(x, y)) < Magnitude(y)
         /\ Remainder(x, y) * x >= 0
  <1> DEFINE b == Magnitude(y)
             q == x \div b
             r == x % b
  <1>1. /\ MaxInt \in Nat /\ x \in Nat /\ x <= MaxInt /\ y \in Int
        /\ \A n \in Int : -MaxInt - 1 <= n /\ n <= MaxInt => n \in Ints
        /\ -MaxInt - 1 <= y /\ y <= MaxInt
    BY CalculatorAssumption DEF Ints, MinInt
  <1>2. b \in Nat /\ b > 0 /\ (y > 0 => b = y) /\ (y < 0 => b = -y)
    BY <1>1 DEF Magnitude
  <1> HIDE DEF b
  <1>3. q \in Nat /\ q <= x /\ r \in 0 .. b - 1 /\ x = b * q + r
    BY <1>1, <1>2
  <1>4. Magnitude(x) = x /\ ~ (x < 0)
    BY <1>1 DEF Magnitude
  <1>5. Quotient(x, y) = (IF y < 0 THEN -1 ELSE 1) * q
    BY <1>4 DEF Quotient, b
  <1> HIDE DEF q, r
  <1>6. CASE y > 0
    <2>1. Quotient(x, y) = q
      BY <1>1, <1>3, <1>5, <1>6
    <2>2. x = q * y + r /\ x - y * q = r
      BY <1>1, <1>2, <1>3, <1>6
    <2>3. Remainder(x, y) = r
      BY <2>1, <2>2 DEF Remainder
    <2>4. q \in Ints /\ r \in Ints
      BY <1>1, <1>2, <1>3, <1>6
    <2>5. Magnitude(r) < b /\ r * x >= 0
      BY <1>1, <1>2, <1>3 DEF Magnitude
    <2> QED
      BY <2>1, <2>2, <2>3, <2>4, <2>5 DEF b
  <1>7. CASE y < 0
    <2>1. Quotient(x, y) = -q
      BY <1>1, <1>3, <1>5, <1>7
    <2>2. x = (-q) * y + r /\ x - y * (-q) = r
      BY <1>1, <1>2, <1>3, <1>7
    <2>3. Remainder(x, y) = r
      BY <2>1, <2>2 DEF Remainder
    <2>4. -q \in Ints /\ r \in Ints
      BY <1>1, <1>2, <1>3, <1>7
    <2>5. Magnitude(r) < b /\ r * x >= 0
      BY <1>1, <1>2, <1>3 DEF Magnitude
    <2> QED
      BY <2>1, <2>2, <2>3, <2>4, <2>5 DEF b
  <1> QED
    BY <1>1, <1>6, <1>7

(* cal returns the value, and an exit code when there is none.             *)
LEMMA CalIs ==
  ASSUME NEW x \in Ints, NEW y \in Ints, x >= 0, NEW o, NEW r, r = [x |-> x, op |-> o, y |-> y]
  PROVE  /\ cal(r) \in Responses
         /\ (cal(r).exitcode # ExitCodes.OK) <=> Fails(o, y)
         /\ ~ Fails(o, y) => Value(x, o, y, cal(r).result)
  <1> DEFINE e == CASE r.op \notin Operators -> ExitCodes.OP_ERROR
                    [] r.op = "/" /\ r.y = 0 -> ExitCodes.DIV_ZERO
                    [] r.op = "%" /\ r.y = 0 -> ExitCodes.MOD_ZERO
                    [] OTHER -> ExitCodes.OK
             n == Result(r)
  <1>0. cal(r) = [exitcode |-> e, result |-> n]
    BY DEF cal
  <1>1. r.x = x /\ r.op = o /\ r.y = y
    OBVIOUS
  <1>2. /\ ExitCodes.OK = 0 /\ ExitCodes.DIV_ZERO = 1 /\ ExitCodes.MOD_ZERO = 2
        /\ ExitCodes.OP_ERROR = 3
    BY DEF ExitCodes
  <1>3. x \in Int /\ y \in Int /\ 0 \in Ints
    BY CalculatorAssumption DEF Ints, MinInt
  <1>4. o \in Operators <=> o = "+" \/ o = "-" \/ o = "*" \/ o = "/" \/ o = "%"
    BY DEF Operators
  <1> HIDE DEF e, n
  <1> SUFFICES /\ e \in 0 .. 3 /\ n \in Ints
               /\ e # 0 <=> Fails(o, y)
               /\ ~ Fails(o, y) => Value(x, o, y, n)
    BY <1>0, <1>2 DEF Responses
  <1>5. CASE o = "+"
    <2>1. e = 0 /\ ~ Fails(o, y)
      BY <1>1, <1>2, <1>4, <1>5 DEF e, Fails
    <2>2. n = Wrap(x + y)
      BY <1>1, <1>5 DEF n, Result
    <2>3. x + y \in Int
      BY <1>3
    <2>4. n \in Ints /\ (n - (x + y)) % (2 * (MaxInt + 1)) = 0
      BY <2>2, <2>3, WrapIs
    <2>5. Value(x, o, y, n)
      BY <1>5, <2>4 DEF Value
    <2> QED
      BY <2>1, <2>4, <2>5
  <1>6. CASE o = "-"
    <2>1. e = 0 /\ ~ Fails(o, y)
      BY <1>1, <1>2, <1>4, <1>6 DEF e, Fails
    <2>2. n = Wrap(x - y)
      BY <1>1, <1>6 DEF n, Result
    <2>3. x - y \in Int
      BY <1>3
    <2>4. n \in Ints /\ (n - (x - y)) % (2 * (MaxInt + 1)) = 0
      BY <2>2, <2>3, WrapIs
    <2>5. Value(x, o, y, n)
      BY <1>6, <2>4 DEF Value
    <2> QED
      BY <2>1, <2>4, <2>5
  <1>7. CASE o = "*"
    <2>1. e = 0 /\ ~ Fails(o, y)
      BY <1>1, <1>2, <1>4, <1>7 DEF e, Fails
    <2>2. n = Wrap(x * y)
      BY <1>1, <1>7 DEF n, Result
    <2>3. x * y \in Int
      BY <1>3
    <2>4. n \in Ints /\ (n - (x * y)) % (2 * (MaxInt + 1)) = 0
      BY <2>2, <2>3, WrapIs
    <2>5. Value(x, o, y, n)
      BY <1>7, <2>4 DEF Value
    <2> QED
      BY <2>1, <2>4, <2>5
  <1>8. CASE o = "/" /\ y = 0
    <2>1. e = 1 /\ Fails(o, y)
      BY <1>1, <1>2, <1>4, <1>8 DEF e, Fails
    <2>2. n = y
      BY <1>1, <1>8 DEF n, Result
    <2> QED
      BY <2>1, <2>2
  <1>9. CASE o = "/" /\ y # 0
    <2>1. e = 0 /\ ~ Fails(o, y)
      BY <1>1, <1>2, <1>4, <1>9 DEF e, Fails
    <2>2. n = Quotient(x, y)
      BY <1>1, <1>9 DEF n, Result
    <2> DEFINE s == Remainder(x, y)
    <2>3. n \in Ints /\ s \in Ints /\ x = n * y + s /\ Magnitude(s) < Magnitude(y) /\ s * x >= 0
      BY <1>9, <2>2, QuotientIs
    <2> HIDE DEF s
    <2>4. Value(x, o, y, n)
      BY <1>9, <2>3 DEF Value
    <2> QED
      BY <2>1, <2>3, <2>4
  <1>10. CASE o = "%" /\ y = 0
    <2>1. e = 2 /\ Fails(o, y)
      BY <1>1, <1>2, <1>4, <1>10 DEF e, Fails
    <2>2. n = y
      BY <1>1, <1>10 DEF n, Result
    <2> QED
      BY <2>1, <2>2
  <1>11. CASE o = "%" /\ y # 0
    <2>1. e = 0 /\ ~ Fails(o, y)
      BY <1>1, <1>2, <1>4, <1>11 DEF e, Fails
    <2>2. n = Remainder(x, y)
      BY <1>1, <1>11 DEF n, Result
    <2> DEFINE q == Quotient(x, y)
    <2>3. n \in Ints /\ q \in Ints /\ x = q * y + n /\ Magnitude(n) < Magnitude(y) /\ n * x >= 0
      BY <1>11, <2>2, QuotientIs
    <2> HIDE DEF q
    <2>4. Value(x, o, y, n)
      BY <1>11, <2>3 DEF Value
    <2> QED
      BY <2>1, <2>3, <2>4
  <1>12. CASE o \notin Operators
    <2>1. e = 3 /\ Fails(o, y)
      BY <1>1, <1>2, <1>4, <1>12 DEF e, Fails
    <2>2. n = 0
      BY <1>1, <1>2, <1>4, <1>12 DEF n, Result
    <2> QED
      BY <1>3, <2>1, <2>2
  <1> QED
    BY <1>4, <1>5, <1>6, <1>7, <1>8, <1>9, <1>10, <1>11, <1>12

(* The scan has the first operand up to p, and the operator is there.      *)
Cut(p) ==
  /\ p \in 1 .. Len(line) /\ left = SubSeq(line, 1, p - 1)
  /\ op = line[p] /\ ~ isdigit(line[p]) /\ \A j \in 1 .. p - 1 : isdigit(line[j])

ScanInv ==
  stage = "scan" =>
    /\ i \in 1 .. Len(line) + 1 /\ status \in 0 .. 2
    /\ status = 0 =>
         /\ left = SubSeq(line, 1, i - 1) /\ right = <<>>
         /\ \A j \in 1 .. i - 1 : isdigit(line[j])
    /\ status = 1 => Cut(i) /\ right = <<>>
    /\ status = 2 => \E p \in 1 .. i - 1 : Cut(p) /\ right = SubSeq(line, p + 1, i - 1)

(* The request is the line's from ParseLine to the end, and the text and   *)
(* the response are of it.                                                 *)
Requested ==
  \E x \in stoi(Operand1), y \in stoi(Rest) : req = [x |-> x, op |-> Operator, y |-> y]

ReplyInv ==
  /\ stage \in {"serialize", "deserialize", "cal", "reply", "receive", "print"} => Requested
  /\ stage = "deserialize" => content = serializeRequest(req)
  /\ stage \in {"reply", "receive", "print"} => resp = cal(req)
  /\ stage = "receive" => content = serializeResponse(resp)

LineInv == line \in Seq(Alphabet) /\ ScanInv /\ ReplyInv

(* Where the first character that is no digit is, the line is cut.         *)
LEMMA CutIs ==
  ASSUME line \in Seq(Alphabet), NEW p, Cut(p)
  PROVE  /\ left = Operand1 /\ op = Operator /\ Rest = SubSeq(line, p + 1, Len(line))
         /\ left \in Seq(DigitChars)
  <1> DEFINE ends == {k \in 0 .. Len(line) : \A j \in 1 .. k : isdigit(line[j])}
  <1>1. /\ Len(line) \in Nat /\ p \in 1 .. Len(line) /\ ~ isdigit(line[p])
        /\ \A j \in 1 .. p - 1 : isdigit(line[j])
        /\ left = SubSeq(line, 1, p - 1) /\ op = line[p]
    BY LenProperties DEF Cut
  <1>2. p - 1 \in ends /\ ends \in SUBSET Int
    BY <1>1
  <1>3. ASSUME NEW k \in ends PROVE k <= p - 1
    <2>1. k >= p => p \in 1 .. k
      BY <1>1
    <2> QED
      BY <1>1, <2>1
  <1> HIDE DEF ends
  <1>4. Max(ends) = p - 1
    BY <1>2, <1>3, MaxIs
  <1>5. Operand1 = SubSeq(line, 1, p - 1)
    BY <1>4, Zenon DEF Operand1, Prefix, ends
  <1>6. Len(SubSeq(line, 1, p - 1)) = p - 1
    BY <1>1
  <1>7. Len(Operand1) + 1 = p /\ Len(Operand1) + 2 = p + 1
    BY <1>1, <1>5, <1>6
  <1>8. \A j \in 1 .. p - 1 : line[j] \in DigitChars
    BY <1>1, DigitIs
  <1>9. SubSeq(line, 1, p - 1) \in Seq(DigitChars)
    BY <1>1, <1>8, SubSeqProperties
  <1> QED
    BY <1>1, <1>5, <1>7, <1>9 DEF Operator, Rest

(* Nothing is read of nothing, and no more than one number of anything.    *)
LEMMA StoiOne ==
  /\ stoi(<<>>) = {}
  /\ \A s : \A x, y \in stoi(s) : x = y
  /\ \A s : stoi(s) \subseteq Ints
  <1>1. <<>> \in Seq(DigitChars)
    OBVIOUS
  <1>2. stoi(<<>>) = {n \in {Decimal(<<>>)} : <<>> # <<>> /\ n \in Ints}
    BY <1>1, StoiOfDigits
  <1>3. \A s : \A x, y \in stoi(s) : x = y
    BY DEF stoi
  <1>4. \A s : stoi(s) \subseteq Ints
    BY DEF stoi
  <1> QED
    BY <1>2, <1>3, <1>4

(* The scan begins with nothing read.                                      *)
LEMMA LineInitInv == LineInit => LineInv
  <1> SUFFICES ASSUME LineInit PROVE LineInv
    OBVIOUS
  <1>1. line \in Seq(Alphabet)
    BY DEF LineInit, Lines
  <1>2. Len(line) \in Nat
    BY <1>1, LenProperties
  <1>3. ScanInv
    BY <1>1, <1>2 DEF LineInit, ScanInv
  <1>4. ReplyInv
    BY DEF LineInit, ReplyInv
  <1> QED
    BY <1>1, <1>3, <1>4 DEF LineInv

(* A digit joins the first operand; another character cuts the line.       *)
LEMMA BeforeInv == LineInv /\ Before => LineInv'
  <1> SUFFICES ASSUME LineInv, Before PROVE LineInv'
    OBVIOUS
  <1>1. /\ stage = "scan" /\ stage' = "scan" /\ line' = line /\ right' = right
        /\ line \in Seq(Alphabet) /\ Len(line) \in Nat /\ i \in 1 .. Len(line)
        /\ left = SubSeq(line, 1, i - 1) /\ right = <<>>
        /\ \A j \in 1 .. i - 1 : isdigit(line[j])
    BY LenProperties DEF LineInv, ScanInv, Before, Scanning
  <1>2. CASE isdigit(line[i])
    <2>1. left' = Append(left, line[i]) /\ i' = i + 1 /\ status' = 0
      BY <1>2 DEF Before, Scanning
    <2>2. left' = SubSeq(line, 1, i' - 1)
      <3>1. SubSeq(line, 1, i) = Append(SubSeq(line, 1, i - 1), line[i])
        BY <1>1
      <3>2. i' - 1 = i
        BY <1>1, <2>1
      <3> QED
        BY <1>1, <2>1, <3>1, <3>2, Zenon
    <2>3. \A j \in 1 .. i' - 1 : isdigit(line[j])
      <3>1. \A j \in 1 .. i' - 1 : j \in 1 .. i - 1 \/ j = i
        BY <1>1, <2>1
      <3> QED
        BY <1>1, <1>2, <3>1
    <2>4. i' \in 1 .. Len(line) + 1
      BY <1>1, <2>1
    <2> QED
      BY <1>1, <2>1, <2>2, <2>3, <2>4 DEF LineInv, ScanInv, ReplyInv
  <1>3. CASE ~ isdigit(line[i])
    <2>1. op' = line[i] /\ status' = 1 /\ left' = left /\ i' = i
      BY <1>3 DEF Before
    <2>2. Cut(i)'
      BY <1>1, <1>3, <2>1 DEF Cut
    <2>3. i' \in 1 .. Len(line) + 1
      BY <1>1, <2>1
    <2> QED
      BY <1>1, <2>1, <2>2, <2>3 DEF LineInv, ScanInv, ReplyInv
  <1> QED
    BY <1>2, <1>3

(* Behind the operator the second operand is empty.                        *)
LEMMA AtInv == LineInv /\ At => LineInv'
  <1> SUFFICES ASSUME LineInv, At PROVE LineInv'
    OBVIOUS
  <1>1. /\ stage = "scan" /\ stage' = "scan" /\ line' = line /\ right' = right
        /\ left' = left /\ op' = op /\ i' = i + 1 /\ status' = 2
        /\ line \in Seq(Alphabet) /\ Len(line) \in Nat /\ i \in 1 .. Len(line)
        /\ Cut(i) /\ right = <<>>
    BY LenProperties DEF LineInv, ScanInv, At, Scanning
  <1>2. i \in 1 .. i' - 1 /\ i' \in 1 .. Len(line) + 1
    BY <1>1
  <1>3. SubSeq(line, i + 1, i' - 1) = <<>>
    BY <1>1
  <1>4. \E p \in 1 .. i' - 1 : Cut(p)' /\ right' = SubSeq(line', p + 1, i' - 1)
    <2>1. \A p : Cut(p) => Cut(p)'
      BY <1>1 DEF Cut
    <2> QED
      BY <1>1, <1>2, <1>3, <2>1
  <1> QED
    BY <1>1, <1>2, <1>4 DEF LineInv, ScanInv, ReplyInv

(* Each further character joins the second operand.                        *)
LEMMA AfterInv == LineInv /\ After => LineInv'
  <1> SUFFICES ASSUME LineInv, After PROVE LineInv'
    OBVIOUS
  <1>1. /\ stage = "scan" /\ stage' = "scan" /\ line' = line /\ right' = Append(right, line[i])
        /\ left' = left /\ op' = op /\ i' = i + 1 /\ status' = 2
        /\ line \in Seq(Alphabet) /\ Len(line) \in Nat /\ i \in 1 .. Len(line)
    BY LenProperties DEF LineInv, ScanInv, After, Scanning
  <1>2. PICK p \in 1 .. i - 1 : Cut(p) /\ right = SubSeq(line, p + 1, i - 1)
    BY <1>1 DEF LineInv, ScanInv, After, Scanning
  <1>3. i' \in 1 .. Len(line) + 1 /\ p \in 1 .. i' - 1 /\ i' - 1 = i
    BY <1>1
  <1>4. SubSeq(line, p + 1, i) = Append(SubSeq(line, p + 1, i - 1), line[i])
    BY <1>1
  <1>5. right' = SubSeq(line, p + 1, i' - 1)
    BY <1>1, <1>2, <1>3, <1>4, Zenon
  <1>6. Cut(p)'
    BY <1>1, <1>2 DEF Cut
  <1> QED
    BY <1>1, <1>3, <1>5, <1>6 DEF LineInv, ScanInv, ReplyInv

(* The request is built of the operands and the operator of the line.      *)
LEMMA BuildInv == LineInv /\ Build => LineInv'
  <1> SUFFICES ASSUME LineInv, Build PROVE LineInv'
    OBVIOUS
  <1>1. /\ stage = "scan" /\ line' = line /\ line \in Seq(Alphabet) /\ Len(line) \in Nat
        /\ stage' \in {"serialize", "threw"}
        /\ i \in 1 .. Len(line) + 1 /\ i > Len(line) /\ status \in 0 .. 2
    BY LenProperties DEF LineInv, ScanInv, Build
  <1>2. ASSUME NEW x \in stoi(left), NEW y \in stoi(right), req' = [x |-> x, op |-> op, y |-> y]
        PROVE  Requested'
    <2>1. right # <<>>
      BY StoiOne
    <2>2. status = 2
      <3>1. status # 0 /\ status # 1
        BY <1>1, <2>1 DEF LineInv, ScanInv
      <3> QED
        BY <1>1, <3>1
    <2>3. PICK p \in 1 .. i - 1 : Cut(p) /\ right = SubSeq(line, p + 1, i - 1)
      BY <1>1, <2>2 DEF LineInv, ScanInv
    <2>4. i - 1 = Len(line)
      BY <1>1
    <2>5. left = Operand1 /\ op = Operator /\ right = Rest
      BY <1>1, <2>3, <2>4, CutIs
    <2>6. Operand1' = Operand1 /\ Operator' = Operator /\ Rest' = Rest
      BY <1>1 DEF Operand1, Operator, Rest
    <2>7. x \in stoi(Operand1') /\ y \in stoi(Rest') /\ req' = [x |-> x, op |-> Operator', y |-> y]
      BY <1>2, <2>5, <2>6, Zenon
    <2> QED
      BY <2>7, Zenon DEF Requested
  <1>3. stage' = "serialize" => Requested'
    BY <1>2 DEF Build
  <1> QED
    BY <1>1, <1>3 DEF LineInv, ScanInv, ReplyInv

(* A request that was asked stays the line's while neither changes.        *)
LEMMA RequestedSame == Requested /\ line' = line /\ req' = req => Requested'
  <1> SUFFICES ASSUME Requested, line' = line, req' = req PROVE Requested'
    OBVIOUS
  <1>1. Operand1' = Operand1 /\ Operator' = Operator /\ Rest' = Rest
    BY DEF Operand1, Operator, Rest
  <1>2. PICK x \in stoi(Operand1), y \in stoi(Rest) : req = [x |-> x, op |-> Operator, y |-> y]
    BY Zenon DEF Requested
  <1>3. x \in stoi(Operand1') /\ y \in stoi(Rest') /\ req' = [x |-> x, op |-> Operator', y |-> y]
    BY <1>1, <1>2, Zenon
  <1> QED
    BY <1>3, Zenon DEF Requested

(* The first operand is made of digits.                                    *)
LEMMA OperandDigits ==
  ASSUME line \in Seq(Alphabet)
  PROVE  Operand1 \in Seq(DigitChars)
  <1> DEFINE ends == {k \in 0 .. Len(line) : \A j \in 1 .. k : isdigit(line[j])}
             m == Max(ends)
  <1>1. Len(line) \in Nat /\ 0 \in ends /\ ends \in SUBSET Int /\ \A k \in ends : k <= Len(line)
    BY LenProperties
  <1>2. m \in ends
    <2> HIDE DEF ends
    <2>1. ends # {}
      BY <1>1
    <2>2. ends \subseteq 0 .. Len(line)
      BY DEF ends
    <2> QED
      BY <1>1, <2>1, <2>2, MaxExists
  <1> HIDE DEF m
  <1>3. m \in Nat /\ m <= Len(line) /\ \A j \in 1 .. m : line[j] \in DigitChars
    BY <1>1, <1>2, DigitIs
  <1>4. SubSeq(line, 1, m) \in Seq(DigitChars)
    BY <1>3, SubSeqProperties
  <1> QED
    BY <1>4, Zenon DEF Operand1, Prefix, m

(* What was asked is a request that can be written and read.               *)
LEMMA RequestedIs ==
  ASSUME line \in Seq(Alphabet), Requested
  PROVE  /\ req.x \in stoi(Operand1) /\ req.y \in stoi(Rest) /\ req.op = Operator
         /\ req = [x |-> req.x, op |-> req.op, y |-> req.y]
         /\ req.x \in Ints /\ req.x >= 0 /\ req.y \in Ints
  <1>1. PICK x \in stoi(Operand1), y \in stoi(Rest) : req = [x |-> x, op |-> Operator, y |-> y]
    BY Zenon DEF Requested
  <1>2. req.x = x /\ req.y = y /\ req.op = Operator
    BY <1>1
  <1>3. x \in Ints /\ y \in Ints
    BY StoiOne
  <1>4. Operand1 \in Seq(DigitChars)
    BY OperandDigits
  <1>5. x = Decimal(Operand1)
    BY <1>4, StoiOfDigits
  <1>6. x >= 0
    BY <1>4, <1>5, DecimalType
  <1> QED
    BY <1>1, <1>2, <1>3, <1>6

(* The text under way is the request.                                      *)
LEMMA SerializeRequestInv == LineInv /\ SerializeRequest => LineInv'
  <1> SUFFICES ASSUME LineInv, SerializeRequest PROVE LineInv'
    OBVIOUS
  <1>1. stage = "serialize" /\ stage' = "deserialize" /\ line' = line /\ req' = req
        /\ content' = serializeRequest(req)
    BY DEF SerializeRequest
  <1>2. Requested'
    BY <1>1, RequestedSame DEF LineInv, ReplyInv
  <1> QED
    BY <1>1, <1>2 DEF LineInv, ScanInv, ReplyInv

(* The server reads the request the client wrote.                          *)
LEMMA DeserializeRequestInv == LineInv /\ DeserializeRequest => LineInv'
  <1> SUFFICES ASSUME LineInv, DeserializeRequest PROVE LineInv'
    OBVIOUS
  <1>1. stage = "deserialize" /\ line' = line /\ content = serializeRequest(req) /\ Requested
        /\ line \in Seq(Alphabet)
    BY DEF DeserializeRequest, LineInv, ReplyInv
  <1>2. deserializeRequest(content) = {req}
    <2>1. req.x \in Ints /\ req.y \in Ints /\ req = [x |-> req.x, op |-> req.op, y |-> req.y]
      BY <1>1, RequestedIs
    <2> QED
      BY <1>1, <2>1, RequestReadBack
  <1>3. stage' = "cal" /\ req' = req
    BY <1>2 DEF DeserializeRequest
  <1>4. Requested'
    BY <1>1, <1>3, RequestedSame
  <1> QED
    BY <1>1, <1>3, <1>4 DEF LineInv, ScanInv, ReplyInv

(* The response is of that request.                                        *)
LEMMA CalculateInv == LineInv /\ Calculate => LineInv'
  <1> SUFFICES ASSUME LineInv, Calculate PROVE LineInv'
    OBVIOUS
  <1>1. stage = "cal" /\ stage' = "reply" /\ line' = line /\ req' = req /\ resp' = cal(req)
    BY DEF Calculate
  <1>2. Requested'
    BY <1>1, RequestedSame DEF LineInv, ReplyInv
  <1> QED
    BY <1>1, <1>2 DEF LineInv, ScanInv, ReplyInv

(* The text under way is the response.                                     *)
LEMMA SerializeResponseInv == LineInv /\ SerializeResponse => LineInv'
  <1> SUFFICES ASSUME LineInv, SerializeResponse PROVE LineInv'
    OBVIOUS
  <1>1. stage = "reply" /\ stage' = "receive" /\ line' = line /\ req' = req /\ resp' = resp
        /\ content' = serializeResponse(resp)
    BY DEF SerializeResponse
  <1>2. Requested'
    BY <1>1, RequestedSame DEF LineInv, ReplyInv
  <1> QED
    BY <1>1, <1>2 DEF LineInv, ScanInv, ReplyInv

(* The client reads the response the server wrote.                         *)
LEMMA DeserializeResponseInv == LineInv /\ DeserializeResponse => LineInv'
  <1> SUFFICES ASSUME LineInv, DeserializeResponse PROVE LineInv'
    OBVIOUS
  <1>1. /\ stage = "receive" /\ stage' = "print" /\ line' = line /\ req' = req
        /\ content = serializeResponse(resp) /\ resp = cal(req) /\ Requested /\ line \in Seq(Alphabet)
    BY DEF DeserializeResponse, LineInv, ReplyInv
  <1>2. resp \in Responses
    <2>1. req.x \in Ints /\ req.x >= 0 /\ req.y \in Ints /\ req = [x |-> req.x, op |-> req.op, y |-> req.y]
      BY <1>1, RequestedIs
    <2> QED
      BY <1>1, <2>1, CalIs
  <1>3. deserializeResponse(content) = {resp}
    BY <1>1, <1>2, ResponseReadBack
  <1>4. resp' = resp
    BY <1>3 DEF DeserializeResponse
  <1>5. Requested'
    BY <1>1, RequestedSame
  <1> QED
    BY <1>1, <1>4, <1>5 DEF LineInv, ScanInv, ReplyInv

(* Nothing changes when nothing moves.                                     *)
LEMMA LineStay == LineInv /\ UNCHANGED lineVars => LineInv'
  <1> SUFFICES ASSUME LineInv, UNCHANGED lineVars PROVE LineInv'
    OBVIOUS
  <1>1. /\ stage' = stage /\ line' = line /\ i' = i /\ status' = status /\ left' = left
        /\ op' = op /\ right' = right /\ req' = req /\ content' = content /\ resp' = resp
    BY DEF lineVars, scan
  <1>2. \A p : Cut(p)' <=> Cut(p)
    BY <1>1 DEF Cut
  <1>3. Cut(i)' <=> Cut(i)
    BY <1>1 DEF Cut
  <1>4. ScanInv'
    BY <1>1, <1>2, <1>3 DEF LineInv, ScanInv
  <1>5. Requested => Requested'
    BY <1>1, RequestedSame
  <1>6. ReplyInv'
    BY <1>1, <1>5 DEF LineInv, ReplyInv
  <1> QED
    BY <1>1, <1>4, <1>6 DEF LineInv

(* Every step keeps the invariant.                                         *)
LEMMA LineStep == LineInv /\ [LineNext]_lineVars => LineInv'
  <1> SUFFICES ASSUME LineInv, [LineNext]_lineVars PROVE LineInv'
    OBVIOUS
  <1>1. CASE LineNext
    BY <1>1, BeforeInv, AtInv, AfterInv, BuildInv, SerializeRequestInv, DeserializeRequestInv,
       CalculateInv, SerializeResponseInv, DeserializeResponseInv, Zenon DEF LineNext
  <1>2. CASE UNCHANGED lineVars
    BY <1>2, LineStay
  <1> QED
    BY <1>1, <1>2

(* The invariant says what is printed.                                     *)
LEMMA LineInvEnds == LineInv => EndToEnd
  <1> SUFFICES ASSUME LineInv, stage = "print", NEW x \in stoi(Operand1), NEW y \in stoi(Rest)
               PROVE  /\ (resp.exitcode # ExitCodes.OK) <=> Fails(Operator, y)
                      /\ ~ Fails(Operator, y) => Value(x, Operator, y, resp.result)
    BY Zenon DEF EndToEnd
  <1>1. resp = cal(req) /\ Requested /\ line \in Seq(Alphabet)
    BY DEF LineInv, ReplyInv
  <1>2. /\ req.x \in stoi(Operand1) /\ req.y \in stoi(Rest) /\ req.op = Operator
        /\ req = [x |-> req.x, op |-> req.op, y |-> req.y]
        /\ req.x \in Ints /\ req.x >= 0 /\ req.y \in Ints
    BY <1>1, RequestedIs
  <1>3. req.x = x /\ req.y = y
    BY <1>2, StoiOne
  <1>4. /\ (cal(req).exitcode # ExitCodes.OK) <=> Fails(req.op, req.y)
        /\ ~ Fails(req.op, req.y) => Value(req.x, req.op, req.y, cal(req).result)
    BY <1>2, CalIs
  <1> QED
    BY <1>1, <1>2, <1>3, <1>4

(* For any alphabet, length of lines and width of int, what the client     *)
(* prints is the value of the line, and the exit code is not zero exactly  *)
(* when there is none.                                                     *)
THEOREM PrintedIsTheValue == LineSpec => []EndToEnd
  <1>1. LineInit => LineInv
    BY LineInitInv
  <1>2. LineInv /\ [LineNext]_lineVars => LineInv'
    BY LineStep
  <1>3. LineInv => EndToEnd
    BY LineInvEnds
  <1> QED
    BY <1>1, <1>2, <1>3, PTL DEF LineSpec

(* The variables hold what they are for, in every state.                   *)
LEMMA LineTypes == LineInv /\ LineTypeOK /\ [LineNext]_lineVars => LineTypeOK'
  <1> SUFFICES ASSUME LineInv, LineTypeOK, [LineNext]_lineVars PROVE LineTypeOK'
    OBVIOUS
  <1> DEFINE Chars == Alphabet \cup {NotSet}
             Reqs == Calculations \cup {NotSet}
             Resps == Responses \cup {NotSet}
  <1>0. /\ line \in Seq(Alphabet) /\ Len(line) \in Nat
        /\ i \in 1 .. Len(line) + 1 /\ status \in 0 .. 2 /\ op \in Chars
        /\ req \in Reqs /\ resp \in Resps
        /\ stage \in {"scan", "serialize", "deserialize", "cal", "reply", "receive",
                      "print", "threw", "closed"}
    BY LenProperties DEF LineInv, LineTypeOK
  <1> HIDE DEF Chars, Reqs, Resps
  <1> SUFFICES /\ i' \in 1 .. Len(line') + 1 /\ status' \in 0 .. 2 /\ op' \in Chars
               /\ req' \in Reqs /\ resp' \in Resps
               /\ stage' \in {"scan", "serialize", "deserialize", "cal", "reply", "receive",
                              "print", "threw", "closed"}
    BY DEF LineTypeOK, Chars, Reqs, Resps
  <1>1. CASE Before
    <2>1. line[i] \in Chars
      BY <1>0, <1>1 DEF Before, Scanning, Chars
    <2> QED
      BY <1>0, <1>1, <2>1 DEF Before, Scanning
  <1>2. CASE At
    BY <1>0, <1>2 DEF At, Scanning
  <1>3. CASE After
    BY <1>0, <1>3 DEF After, Scanning
  <1>4. CASE Build
    <2>1. stage' = "serialize" => Requested'
      <3>1. LineInv'
        BY <1>4, BuildInv
      <3> QED
        BY <3>1 DEF LineInv, ReplyInv
    <2>2. ASSUME NEW x \in stoi(left), NEW y \in stoi(right), req' = [x |-> x, op |-> op, y |-> y]
          PROVE  req' \in Reqs
      <3>1. PICK p \in 1 .. i - 1 : Cut(p)
        <4>1. right # <<>>
          BY StoiOne
        <4>2. stage = "scan"
          BY <1>4 DEF Build
        <4>3. ~ (status = 0 /\ right = <<>>) /\ status # 0 /\ status # 1
          BY <1>4, <4>1, <4>2 DEF LineInv, ScanInv, Build
        <4> QED
          BY <1>0, <4>2, <4>3 DEF LineInv, ScanInv
      <3>2. op \in Alphabet
        BY <1>0, <3>1 DEF Cut
      <3>3. x \in Ints /\ y \in Ints
        BY StoiOne
      <3> QED
        BY <2>2, <3>2, <3>3 DEF Reqs, Calculations
    <2>3. req' \in Reqs
      BY <1>0, <1>4, <2>2 DEF Build
    <2> QED
      BY <1>0, <1>4, <2>3 DEF Build, scan
  <1>5. CASE SerializeRequest
    BY <1>0, <1>5 DEF SerializeRequest, scan
  <1>6. CASE DeserializeRequest
    <2>1. deserializeRequest(content) = {req}
      <3>1. /\ content = serializeRequest(req) /\ Requested /\ line \in Seq(Alphabet)
        BY <1>6 DEF DeserializeRequest, LineInv, ReplyInv
      <3>2. req.x \in Ints /\ req.y \in Ints /\ req = [x |-> req.x, op |-> req.op, y |-> req.y]
        BY <3>1, RequestedIs
      <3> QED
        BY <3>1, <3>2, RequestReadBack
    <2> QED
      BY <1>0, <1>6, <2>1 DEF DeserializeRequest, scan
  <1>7. CASE Calculate
    <2>1. cal(req) \in Responses
      <3>1. Requested
        BY <1>7 DEF Calculate, LineInv, ReplyInv
      <3>2. /\ req.x \in Ints /\ req.x >= 0 /\ req.y \in Ints
            /\ req = [x |-> req.x, op |-> req.op, y |-> req.y]
        BY <1>0, <3>1, RequestedIs
      <3> QED
        BY <3>2, CalIs
    <2> QED
      BY <1>0, <1>7, <2>1 DEF Calculate, scan, Resps
  <1>8. CASE SerializeResponse
    BY <1>0, <1>8 DEF SerializeResponse, scan
  <1>9. CASE DeserializeResponse
    <2>1. LineInv' /\ stage' = "print"
      BY <1>9, DeserializeResponseInv DEF DeserializeResponse
    <2>2. resp' = cal(req') /\ Requested' /\ line' \in Seq(Alphabet) /\ req' = req /\ line' = line
      BY <1>9, <2>1 DEF LineInv, ReplyInv, DeserializeResponse
    <2>3. Requested
      BY <1>9 DEF DeserializeResponse, LineInv, ReplyInv
    <2>4. /\ req.x \in Ints /\ req.x >= 0 /\ req.y \in Ints
          /\ req = [x |-> req.x, op |-> req.op, y |-> req.y]
      BY <1>0, <2>3, RequestedIs
    <2>5. resp' \in Resps
      BY <2>2, <2>4, CalIs DEF Resps
    <2> QED
      BY <1>0, <1>9, <2>5 DEF DeserializeResponse, scan
  <1>10. CASE UNCHANGED lineVars
    BY <1>0, <1>10 DEF lineVars, scan
  <1> QED
    BY <1>1, <1>2, <1>3, <1>4, <1>5, <1>6, <1>7, <1>8, <1>9, <1>10 DEF LineNext

(* For any alphabet and width of int the variables keep their types: each  *)
(* number stays in the range of int, and no request carries an operator    *)
(* that was never set.                                                     *)
THEOREM LineTypesAreRight == LineSpec => []LineTypeOK
  <1>1. LineInit => LineInv /\ LineTypeOK
    <2>1. LineInit => LineInv
      BY LineInitInv
    <2>2. LineInit => LineTypeOK
      <3> SUFFICES ASSUME LineInit PROVE LineTypeOK
        OBVIOUS
      <3>1. Len(line) \in Nat
        BY LineInitInv, LenProperties DEF LineInv
      <3> QED
        BY <3>1 DEF LineInit, LineTypeOK
    <2> QED
      BY <2>1, <2>2
  <1>2. LineInv /\ LineTypeOK /\ [LineNext]_lineVars => LineInv' /\ LineTypeOK'
    BY LineStep, LineTypes
  <1> QED
    BY <1>1, <1>2, PTL DEF LineSpec
=============================================================================
