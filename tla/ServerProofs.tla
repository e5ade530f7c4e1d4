---------------------------- MODULE ServerProofs ----------------------------
(***************************************************************************)
(* Proofs about the three TCP servers: CalServer, HttpServer on the same   *)
(* accept loop, and EchoServer on the thread pool.                         *)
(***************************************************************************)
EXTENDS HttpServer, EchoServer, ThreadPoolProof
-----------------------------------------------------------------------------
(***************************************************************************)
(* CalServer, for any connections: when the server accepts it has no child *)
(* left, and a connection is open only while it is served, whatever forks  *)
(* fail.                                                                   *)
(***************************************************************************)
(* A child that is not there.                                              *)
Gone == {"none", "reaped"}

(* The server has a connection in hand.                                    *)
Busy == {"fork", "close", "wait"}

(* The server has at most one child, the one it has forked for sock.       *)
ChildInv ==
  /\ \A c \in Clients : child[c] \in Gone \/ (c = sock /\ server \in {"close", "wait"})
  /\ server \in {"close", "wait"} =>
       IF pid = None THEN child[sock] \in Gone ELSE pid = sock

(* Who has the descriptor of c.                                            *)
Holders(c) ==
  (IF c = sock /\ server \in {"fork", "close"} THEN {"server"} ELSE {})
    \cup (IF child[c] \in {"listening", "fork", "serve"} THEN {"child"} ELSE {})
    \cup (IF grand[c] = "serve" THEN {"grand"} ELSE {})

(* A connection that is not accepted has no process.                       *)
OpenInv ==
  /\ server \in Busy => conn[sock] = "accepted"
  /\ server = "fork" => grand[sock] = "none"
  /\ \A c \in Clients :
       /\ open[c] = Holders(c)
       /\ conn[c] # "accepted" => child[c] = "none" /\ grand[c] = "none"

(* The inductive invariant.                                                *)
AcceptInv == AcceptTypeOK /\ ChildInv /\ OpenInv
-----------------------------------------------------------------------------
(* Nobody has connected initially.                                         *)
LEMMA AcceptInitInv == AcceptInit => AcceptInv
  BY DEF AcceptInit, AcceptInv, AcceptTypeOK, ChildInv, OpenInv, Holders, Preparing, Gone, Busy

(* Sockets are prepared, and clients connect.                              *)
LEMMA OutsideStep ==
  ASSUME AcceptInv, initServer \/ \E c \in Clients : Connect(c)
  PROVE  AcceptInv'
  <1>1. CASE initServer
    <2>1. /\ server \in Preparing /\ server' \in Preparing \cup {"accept"}
          /\ UNCHANGED <<sock, pid, conn, child, grand, open>>
      BY <1>1 DEF initServer, Preparing
    <2>2. AcceptTypeOK'
      BY <2>1 DEF AcceptInv, AcceptTypeOK, Preparing
    <2>3. ChildInv' /\ OpenInv'
      BY <2>1 DEF AcceptInv, ChildInv, OpenInv, Holders, Preparing, Gone, Busy
    <2> QED
      BY <2>2, <2>3 DEF AcceptInv
  <1>2. ASSUME NEW c \in Clients, Connect(c)
        PROVE  AcceptInv'
    <2>1. /\ conn[c] = "new" /\ conn' = [conn EXCEPT ![c] = "queued"]
          /\ UNCHANGED <<server, sock, pid, child, grand, open>>
      BY <1>2 DEF Connect
    <2>2. AcceptTypeOK'
      BY <2>1 DEF AcceptInv, AcceptTypeOK
    <2>3. ChildInv'
      BY <2>1 DEF AcceptInv, ChildInv
    <2>4. OpenInv'
      BY <2>1 DEF AcceptInv, AcceptTypeOK, OpenInv, Holders
    <2> QED
      BY <2>2, <2>3, <2>4 DEF AcceptInv
  <1> QED
    BY <1>1, <1>2

(* The server takes a connection from the queue.                           *)
LEMMA AcceptStep ==
  ASSUME ServerAssumption, AcceptInv, Accept
  PROVE  AcceptInv'
  <1>1. PICK c \in Clients :
          /\ conn[c] = "queued" /\ conn' = [conn EXCEPT ![c] = "accepted"]
          /\ sock' = c /\ open' = [open EXCEPT ![c] = @ \cup {"server"}]
          /\ server = "accept" /\ server' = "fork" /\ UNCHANGED <<pid, child, grand>>
    BY DEF Accept
  <1>2. AcceptTypeOK'
    BY <1>1 DEF AcceptInv, AcceptTypeOK, Preparing
  <1>3. ChildInv'
    BY <1>1 DEF AcceptInv, ChildInv
  <1>4. grand[c] = "none" /\ child[c] = "none" /\ open[c] = {}
    BY <1>1 DEF AcceptInv, OpenInv, Holders
  <1>5. \A d \in Clients : open'[d] = Holders(d)'
    BY <1>1, <1>4 DEF AcceptInv, AcceptTypeOK, OpenInv, Holders
  <1>6. OpenInv'
    BY <1>1, <1>4, <1>5 DEF AcceptInv, AcceptTypeOK, OpenInv
  <1> QED
    BY <1>2, <1>3, <1>6 DEF AcceptInv

(* The server forks, closes its descriptor and waits for its child.        *)
LEMMA ForkStep ==
  ASSUME ServerAssumption, AcceptInv, Fork \/ ForkFails \/ Close \/ Wait
  PROVE  AcceptInv'
  <1> USE DEF ServerAssumption
  <1>1. CASE Fork
    <2>1. /\ server = "fork" /\ server' = "close" /\ pid' = sock /\ sock \in Clients
          /\ child' = [child EXCEPT ![sock] = "listening"]
          /\ open' = [open EXCEPT ![sock] = @ \cup {"child"}]
          /\ UNCHANGED <<sock, conn, grand>>
      BY <1>1 DEF Fork, AcceptInv, AcceptTypeOK, Preparing
    <2>2. AcceptTypeOK'
      BY <2>1 DEF AcceptInv, AcceptTypeOK, Preparing
    <2>3. ChildInv'
      BY <2>1 DEF AcceptInv, AcceptTypeOK, ChildInv
    <2>4. \A d \in Clients : open'[d] = Holders(d)'
      BY <2>1 DEF AcceptInv, AcceptTypeOK, ChildInv, OpenInv, Holders, Gone
    <2>5. OpenInv'
      BY <2>1, <2>4 DEF AcceptInv, AcceptTypeOK, OpenInv, Busy
    <2> QED
      BY <2>2, <2>3, <2>5 DEF AcceptInv
  <1>2. CASE ForkFails
    <2>1. /\ server = "fork" /\ server' = "close" /\ pid' = None /\ sock \in Clients
          /\ UNCHANGED <<sock, conn, child, grand, open>>
      BY <1>2 DEF ForkFails, AcceptInv, AcceptTypeOK, Preparing
    <2>2. AcceptTypeOK'
      BY <2>1 DEF AcceptInv, AcceptTypeOK, Preparing
    <2>3. ChildInv' /\ OpenInv'
      BY <2>1 DEF AcceptInv, ChildInv, OpenInv, Holders, Busy
    <2> QED
      BY <2>2, <2>3 DEF AcceptInv
  <1>3. CASE Close
    <2>1. /\ server = "close" /\ server' = "wait" /\ sock \in Clients
          /\ open' = [open EXCEPT ![sock] = @ \ {"server"}]
          /\ UNCHANGED <<sock, pid, conn, child, grand>>
      BY <1>3 DEF Close, AcceptInv, AcceptTypeOK, Preparing
    <2>2. AcceptTypeOK'
      BY <2>1 DEF AcceptInv, AcceptTypeOK, Preparing
    <2>3. ChildInv'
      BY <2>1 DEF AcceptInv, ChildInv
    <2>4. \A d \in Clients : open'[d] = Holders(d)'
      BY <2>1 DEF AcceptInv, AcceptTypeOK, OpenInv, Holders
    <2>5. OpenInv'
      BY <2>1, <2>4 DEF AcceptInv, OpenInv, Busy
    <2> QED
      BY <2>2, <2>3, <2>5 DEF AcceptInv
  <1>4. CASE Wait
    <2>1. /\ server = "wait" /\ server' = "accept" /\ sock \in Clients
          /\ UNCHANGED <<sock, pid, conn, grand, open>>
      BY <1>4 DEF Wait, AcceptInv, AcceptTypeOK, Preparing
    <2>2. \A c \in Clients \ {sock} : child[c] \in Gone
      BY <2>1 DEF AcceptInv, ChildInv
    <2>3. CASE child[sock] \in Gone
      <3>1. child' = child
        BY <1>4, <2>1, <2>2, <2>3 DEF Wait, Gone, AcceptInv, ChildInv
      <3>2. AcceptTypeOK'
        BY <2>1, <3>1 DEF AcceptInv, AcceptTypeOK, Preparing
      <3>3. ChildInv' /\ OpenInv'
        BY <2>1, <2>2, <2>3, <3>1 DEF AcceptInv, ChildInv, OpenInv, Holders, Busy
      <3> QED
        BY <3>2, <3>3 DEF AcceptInv
    <2>4. CASE child[sock] \notin Gone
      <3>1. pid = sock /\ pid # None
        BY <2>1, <2>4 DEF AcceptInv, ChildInv
      <3>2. child[sock] = "zombie" /\ child' = [child EXCEPT ![sock] = "reaped"]
        BY <1>4, <2>1, <2>4, <3>1 DEF Wait, Gone
      <3>3. AcceptTypeOK'
        BY <2>1, <3>2 DEF AcceptInv, AcceptTypeOK, Preparing
      <3>4. ChildInv'
        BY <2>1, <2>2, <3>2 DEF AcceptInv, AcceptTypeOK, ChildInv, Gone
      <3>5. OpenInv'
        BY <2>1, <3>2 DEF AcceptInv, AcceptTypeOK, OpenInv, Holders, Busy
      <3> QED
        BY <3>3, <3>4, <3>5 DEF AcceptInv
    <2> QED
      BY <2>3, <2>4
  <1> QED
    BY <1>1, <1>2, <1>3, <1>4

(* The child and the grandchild of a connection.                           *)
LEMMA ChildStep ==
  ASSUME AcceptInv, NEW c \in Clients,
         Child(c) \/ SecondForkFails(c) \/ SessionEnds(c)
  PROVE  AcceptInv'
  <1>1. CASE CloseListen(c) \/ SecondForkFails(c)
    <2>1. /\ child[c] \in {"listening", "fork"}
          /\ \E to \in {"fork", "serve"} : child' = [child EXCEPT ![c] = to]
          /\ UNCHANGED <<server, sock, pid, conn, grand, open>>
      BY <1>1 DEF CloseListen, SecondForkFails
    <2>2. AcceptTypeOK'
      BY <2>1 DEF AcceptInv, AcceptTypeOK
    <2>3. ChildInv'
      BY <2>1 DEF AcceptInv, AcceptTypeOK, ChildInv, Gone
    <2>4. OpenInv'
      BY <2>1 DEF AcceptInv, AcceptTypeOK, OpenInv, Holders
    <2> QED
      BY <2>2, <2>3, <2>4 DEF AcceptInv
  <1>2. CASE SecondFork(c)
    <2>1. /\ child[c] = "fork" /\ child' = [child EXCEPT ![c] = "zombie"]
          /\ grand' = [grand EXCEPT ![c] = "serve"]
          /\ open' = [open EXCEPT ![c] = (@ \ {"child"}) \cup {"grand"}]
          /\ UNCHANGED <<server, sock, pid, conn>>
      BY <1>2 DEF SecondFork
    <2>2. AcceptTypeOK'
      BY <2>1 DEF AcceptInv, AcceptTypeOK
    <2>3. ChildInv'
      BY <2>1 DEF AcceptInv, AcceptTypeOK, ChildInv, Gone
    <2>4. \A d \in Clients : open'[d] = Holders(d)'
      BY <2>1 DEF AcceptInv, AcceptTypeOK, OpenInv, Holders
    <2>5. OpenInv'
      BY <2>1, <2>4 DEF AcceptInv, AcceptTypeOK, ChildInv, OpenInv, Gone
    <2> QED
      BY <2>2, <2>3, <2>5 DEF AcceptInv
  <1>3. CASE SessionEnds(c) /\ grand[c] = "serve" /\ grand' = [grand EXCEPT ![c] = "exited"]
    <2>1. /\ open' = [open EXCEPT ![c] = @ \ {"grand"}]
          /\ UNCHANGED <<server, sock, pid, conn, child>>
      BY <1>3 DEF SessionEnds, AcceptInv, AcceptTypeOK
    <2>2. AcceptTypeOK'
      BY <1>3, <2>1 DEF AcceptInv, AcceptTypeOK
    <2>3. ChildInv'
      BY <2>1 DEF AcceptInv, ChildInv
    <2>4. \A d \in Clients : open'[d] = Holders(d)'
      BY <1>3, <2>1 DEF AcceptInv, AcceptTypeOK, OpenInv, Holders
    <2>5. OpenInv'
      BY <1>3, <2>1, <2>4 DEF AcceptInv, AcceptTypeOK, OpenInv
    <2> QED
      BY <2>2, <2>3, <2>5 DEF AcceptInv
  <1>4. CASE SessionEnds(c) /\ child[c] = "serve" /\ child' = [child EXCEPT ![c] = "zombie"]
    <2>1. /\ open' = [open EXCEPT ![c] = @ \ {"child"}]
          /\ UNCHANGED <<server, sock, pid, conn, grand>>
      BY <1>4 DEF SessionEnds, AcceptInv, AcceptTypeOK
    <2>2. AcceptTypeOK'
      BY <1>4, <2>1 DEF AcceptInv, AcceptTypeOK
    <2>3. ChildInv'
      BY <1>4, <2>1 DEF AcceptInv, AcceptTypeOK, ChildInv, Gone
    <2>4. \A d \in Clients : open'[d] = Holders(d)'
      BY <1>4, <2>1 DEF AcceptInv, AcceptTypeOK, OpenInv, Holders
    <2>5. OpenInv'
      BY <1>4, <2>1, <2>4 DEF AcceptInv, AcceptTypeOK, OpenInv
    <2> QED
      BY <2>2, <2>3, <2>5 DEF AcceptInv
  <1> QED
    BY <1>1, <1>2, <1>3, <1>4 DEF Child, SessionEnds

(* Each step, or none, keeps the invariant.                                *)
LEMMA AcceptNextInv ==
  ASSUME ServerAssumption, AcceptInv, [AcceptNext]_acceptVars
  PROVE  AcceptInv'
  <1>1. CASE UNCHANGED acceptVars
    BY <1>1 DEF acceptVars, AcceptInv, AcceptTypeOK, ChildInv, OpenInv, Holders
  <1> QED
    BY <1>1, OutsideStep, AcceptStep, ForkStep, ChildStep DEF AcceptNext, Server

(* AcceptInv holds in every state.                                         *)
THEOREM AcceptInductive ==
  ASSUME ServerAssumption
  PROVE  AcceptSpec => []AcceptInv
  <1>1. AcceptInv /\ [AcceptNext]_acceptVars => AcceptInv'
    BY AcceptNextInv
  <1> QED
    BY <1>1, AcceptInitInv, PTL DEF AcceptSpec
-----------------------------------------------------------------------------
(* When the server accepts it has no child left, so that the waitpid for   *)
(* any child after a failed fork never waits for an older one; and only    *)
(* who serves a connection keeps it open (calServer.hpp:117-153).          *)
THEOREM AcceptIsSafe ==
  ASSUME ServerAssumption
  PROVE  AcceptSpec => []AcceptSafe
  <1>1. AcceptInv => AcceptTypeOK
    BY DEF AcceptInv
  <1>2. AcceptInv => NoChildLeft
    BY DEF AcceptInv, ChildInv, NoChildLeft, Gone
  <1>3. AcceptInv => ClosedAfterSession
    BY DEF AcceptInv, AcceptTypeOK, ChildInv, OpenInv, Holders, ClosedAfterSession, Gone
  <1>4. AcceptInv => AcceptSafe
    BY <1>1, <1>2, <1>3 DEF AcceptSafe
  <1> QED
    BY <1>4, AcceptInductive, PTL
-----------------------------------------------------------------------------
(***************************************************************************)
(* HttpServer, for any clients, urls and edits of wwwroot: of each file it *)
(* is known which edit made it, and of each request what parse has found.  *)
(***************************************************************************)
(* What may be on the disk after some edits.                               *)
OnDisk(file, e) ==
  \/ file = Missing
  \/ file.is \in FileKinds /\ file.size \in Nat /\ file.edit \in 1 .. e

(* wwwroot: a file has the number of an edit that happened.                *)
DiskInv ==
  /\ edits \in Nat \ {0}
  /\ disk \in [Paths -> [is : FileKinds \cup {"none"}, size : Int, edit : Nat]]
  /\ \A p \in Paths : OnDisk(disk[p], edits)

(* The types.                                                              *)
HttpType ==
  /\ url \in [Clients -> Urls]
  /\ left \in [Clients -> {"no", "closed", "reset"}]
  /\ req \in [Clients -> [at : {"recv", "get", "send", "sent", "crashed", "over"},
                          path : Paths \cup {NoPath}, size : Int, edit : Nat]]
  /\ answer \in [Clients -> [length : Int, of : Int, bytes : Nat, sent : Nat]]

(* What parse left in a request with a line is true of the file, or was    *)
(* before the edits that came after it.                                    *)
ParsedOf(r, u, d, e) ==
  /\ r.at = "recv" => r.path = NoPath
  /\ r.edit <= e
  /\ r.path # NoPath =>
       /\ r.path = path(u)
       /\ (r.size = -1 /\ r.edit = 0) \/ r.size \in Nat
       /\ e = 1 => r.size = d[path(u)].size /\ r.edit = d[path(u)].edit
       /\ d[path(u)] # Missing =>
            /\ r.edit <= d[path(u)].edit
            /\ r.edit = d[path(u)].edit => r.size = d[path(u)].size

(* What is answered if nobody edits wwwroot.                               *)
Expected(file) ==
  CASE file.is = "file" ->
         [length |-> file.size, of |-> 1, bytes |-> file.size, sent |-> file.size + 1]
    [] file.is = "dir" ->
         [length |-> file.size, of |-> 0, bytes |-> 0, sent |-> file.size + 1]
    [] file.is \in {"locked", "none"} ->
         [length |-> file.size, of |-> Page404, bytes |-> PageSize, sent |-> PageSize]

(* HttpAnswers and HttpCrashes for one client.                             *)
AnswerOf(a, r, file, e) ==
  r.at \in {"send", "sent"} =>
    /\ e = 1 /\ r.path # NoPath => a = Expected(file)
    /\ a.of > 0 =>
         /\ r.path # NoPath /\ r.edit <= a.of
         /\ a.bytes <= a.length /\ a.sent = a.length + 1
         /\ a.bytes < a.length => r.edit < a.of

CrashOf(r, l) == r.at = "crashed" => r.path = NoPath \/ l # "no"

ClientInv(c) ==
  /\ ParsedOf(req[c], url[c], disk, edits)
  /\ AnswerOf(answer[c], req[c], disk[path(url[c])], edits)
  /\ CrashOf(req[c], left[c])

(* The inductive invariant.                                                *)
HttpInv == DiskInv /\ HttpType /\ \A c \in Clients : ClientInv(c)

(* The invariant says what is safe.                                        *)
LEMMA HttpInvSafe == HttpInv => HttpSafe
  BY DEF HttpInv, ClientInv, AnswerOf, Expected, CrashOf, HttpSafe, HttpAnswers, HttpCrashes

(* The path of a url.                                                      *)
LEMMA PathType == HttpAssumption => \A u \in Urls : path(u) \in Paths
  BY DEF HttpAssumption, path, Paths

(* The invariant holds at first.                                           *)
LEMMA HttpInitInv == HttpAssumption /\ HttpInit => HttpInv
  <1> SUFFICES ASSUME HttpAssumption, HttpInit PROVE HttpInv
    OBVIOUS
  <1> USE DEF HttpInit, WebInit
  <1>1. DiskInv
    BY DEF DiskInv, OnDisk, Missing, FileKinds, HttpAssumption
  <1>2. HttpType
    BY DEF HttpType, Request, NoAnswer, HttpAssumption
  <1>3. \A c \in Clients : req[c].at = "recv" /\ req[c].path = NoPath /\ req[c].edit = 0
    BY DEF Request
  <1>4. \A c \in Clients : ClientInv(c)
    BY <1>3 DEF ClientInv, ParsedOf, AnswerOf, CrashOf
  <1> QED
    BY <1>1, <1>2, <1>4 DEF HttpInv

(* A client whose variables are not touched.                               *)
LEMMA ClientStays ==
  ASSUME NEW c \in Clients, ClientInv(c), UNCHANGED web,
         url'[c] = url[c], req'[c] = req[c], answer'[c] = answer[c],
         left'[c] = left[c] \/ left'[c] # "no"
  PROVE  ClientInv(c)'
  BY DEF ClientInv, ParsedOf, AnswerOf, CrashOf, web

(* A file is written, created or removed.                                  *)
LEMMA EditStep ==
  ASSUME HttpAssumption, HttpInv, Edit
  PROVE  HttpInv'
  <1>1. PICK p \in Paths, file \in {Missing} \cup [is : FileKinds, size : {1}, edit : {edits + 1}] :
          disk' = [disk EXCEPT ![p] = file]
    BY DEF Edit
  <1>2. edits' = edits + 1 /\ UNCHANGED http /\ edits \in Nat \ {0}
    BY DEF Edit, HttpInv, DiskInv
  <1>3. /\ disk \in [Paths -> [is : FileKinds \cup {"none"}, size : Int, edit : Nat]]
        /\ \A q \in Paths : OnDisk(disk[q], edits)
    BY DEF HttpInv, DiskInv
  <1>4. /\ file \in [is : FileKinds \cup {"none"}, size : Int, edit : Nat]
        /\ OnDisk(file, edits + 1)
        /\ file = Missing \/ (file.size = 1 /\ file.edit = edits + 1)
    BY <1>2 DEF Missing, OnDisk
  <1>5. DiskInv'
    <2>1. \A q \in Paths : OnDisk(disk[q], edits + 1)
      BY <1>2, <1>3 DEF OnDisk
    <2> QED
      BY <1>1, <1>2, <1>3, <1>4, <2>1 DEF DiskInv
  <1>6. HttpType'
    BY <1>2 DEF http, HttpInv, HttpType
  <1>7. ASSUME NEW c \in Clients PROVE ClientInv(c)'
    <2>1. url[c] \in Urls /\ path(url[c]) \in Paths
      BY PathType DEF HttpInv, HttpType
    <2>2. /\ url'[c] = url[c] /\ req'[c] = req[c] /\ answer'[c] = answer[c] /\ left'[c] = left[c]
          /\ req[c].edit \in Nat
      BY <1>2 DEF http, HttpInv, HttpType
    <2>3. ClientInv(c)
      BY DEF HttpInv
    <2>4. ~ (edits' = 1) /\ edits' > 1
      BY <1>2
    <2>5. \/ disk'[path(url[c])] = disk[path(url[c])]
          \/ disk'[path(url[c])] = Missing
          \/ disk'[path(url[c])].size = 1 /\ disk'[path(url[c])].edit = edits + 1
      BY <1>1, <1>3, <1>4, <2>1
    <2>6. ParsedOf(req[c], url[c], disk', edits')
      BY <1>2, <2>1, <2>2, <2>3, <2>4, <2>5 DEF ClientInv, ParsedOf, Missing
    <2>7. AnswerOf(answer[c], req[c], disk'[path(url[c])], edits')
      BY <1>2, <2>2, <2>3, <2>4 DEF ClientInv, AnswerOf
    <2>8. CrashOf(req[c], left[c])
      BY <2>3, <2>4 DEF ClientInv, CrashOf
    <2> QED
      BY <2>2, <2>6, <2>7, <2>8 DEF ClientInv
  <1> QED
    BY <1>5, <1>6, <1>7 DEF HttpInv

(* A segment arrives, the client leaves, or it reads its answer.           *)
LEMMA BrowserStep ==
  ASSUME HttpAssumption, HttpInv, NEW b \in Clients, Segment(b) \/ Leave(b) \/ ReadAnswer(b)
  PROVE  HttpInv'
  <1>1. CASE Segment(b)
    <2>1. /\ req[b].at = "recv" /\ UNCHANGED <<web, left, req, answer>>
          /\ \E u \in Urls : url' = [url EXCEPT ![b] = u]
      BY <1>1 DEF Segment, HttpInv, HttpType
    <2>2. DiskInv' /\ HttpType'
      BY <2>1 DEF HttpInv, DiskInv, HttpType, web
    <2>3. ClientInv(b)'
      BY <2>1 DEF HttpInv, ClientInv, ParsedOf, AnswerOf, CrashOf, web
    <2>4. ASSUME NEW c \in Clients \ {b} PROVE ClientInv(c)'
      BY <2>1, ClientStays DEF HttpInv, HttpType
    <2> QED
      BY <2>2, <2>3, <2>4 DEF HttpInv
  <1>2. CASE Leave(b)
    <2>1. /\ UNCHANGED <<web, url, req, answer>>
          /\ \E how \in {"closed", "reset"} : left' = [left EXCEPT ![b] = how]
      BY <1>2 DEF Leave
    <2>2. DiskInv' /\ HttpType'
      BY <2>1 DEF HttpInv, DiskInv, HttpType, web
    <2>3. ASSUME NEW c \in Clients PROVE ClientInv(c)'
      <3>1. left'[c] = left[c] \/ left'[c] # "no"
        BY <2>1 DEF HttpInv, HttpType
      <3> QED
        BY <2>1, <3>1, ClientStays DEF HttpInv
    <2> QED
      BY <2>2, <2>3 DEF HttpInv
  <1>3. CASE ReadAnswer(b)
    <2> DEFINE r == [req[b] EXCEPT !.at = "sent"]
    <2>1. /\ req[b].at = "send" /\ UNCHANGED <<web, url, left, answer>>
          /\ req' = [req EXCEPT ![b] = r]
      BY <1>3 DEF ReadAnswer, HandlerAt, HandlerGoto
    <2>2. req \in [Clients -> [at : {"recv", "get", "send", "sent", "crashed", "over"},
                          path : Paths \cup {NoPath}, size : Int, edit : Nat]]
      BY DEF HttpInv, HttpType
    <2>3. /\ r \in [at : {"sent"}, path : Paths \cup {NoPath}, size : Int, edit : Nat]
          /\ r.path = req[b].path /\ r.size = req[b].size /\ r.edit = req[b].edit
      BY <2>2
    <2> HIDE DEF r
    <2>4. DiskInv' /\ HttpType'
      BY <2>1, <2>2, <2>3 DEF HttpInv, DiskInv, HttpType, web
    <2>5. req'[b] = r /\ \A c \in Clients \ {b} : req'[c] = req[c]
      BY <2>1, <2>2
    <2>6. ClientInv(b)'
      BY <2>1, <2>3, <2>5 DEF HttpInv, ClientInv, ParsedOf, AnswerOf, CrashOf, web
    <2>7. ASSUME NEW c \in Clients \ {b} PROVE ClientInv(c)'
      BY <2>1, <2>5, ClientStays DEF HttpInv
    <2> QED
      BY <2>4, <2>6, <2>7 DEF HttpInv
  <1> QED
    BY <1>1, <1>2, <1>3

(* What parse makes of a first line, or of less.                           *)
LEMMA ParsedStep ==
  ASSUME HttpAssumption, HttpInv, NEW c \in Clients, NEW line \in BOOLEAN,
         NEW r \in Parsed(c, line)
  PROVE  /\ r \in [at : {"get"}, path : Paths \cup {NoPath}, size : Int, edit : Nat]
         /\ ParsedOf(r, url[c], disk, edits)
  <1>1. path(url[c]) \in Paths
    BY PathType DEF HttpInv, HttpType
  <1> DEFINE file == disk[path(url[c])]
  <1>2. /\ file \in [is : FileKinds \cup {"none"}, size : Int, edit : Nat] /\ edits \in Nat \ {0}
        /\ file = Missing \/ (file.size \in Nat /\ file.edit \in 1 .. edits)
    BY <1>1 DEF HttpInv, DiskInv, OnDisk
  <1>3. CASE line
    <2>1. r = [at |-> "get", path |-> path(url[c]), size |-> file.size, edit |-> file.edit]
      BY <1>3 DEF Parsed
    <2> HIDE DEF file
    <2>2. r \in [at : {"get"}, path : Paths \cup {NoPath}, size : Int, edit : Nat]
      BY <1>1, <1>2, <2>1
    <2>3. /\ r.at = "get" /\ r.path = path(url[c])
          /\ r.size = file.size /\ r.edit = file.edit
      BY <2>1
    <2>4. /\ r.edit <= edits
          /\ (r.size = -1 /\ r.edit = 0) \/ r.size \in Nat
      BY <1>2, <2>3 DEF Missing
    <2> QED
      BY <1>2, <2>2, <2>3, <2>4 DEF ParsedOf, file
  <1>4. CASE ~line
    <2>1. PICK n \in Uninitialised : r = [Request("get") EXCEPT !.size = n]
      BY <1>4 DEF Parsed
    <2>2. n \in Int
      BY DEF Uninitialised
    <2>3. r = [at |-> "get", path |-> NoPath, size |-> n, edit |-> 0]
      BY <2>1 DEF Request
    <2> QED
      BY <1>2, <2>2, <2>3 DEF ParsedOf
  <1> QED
    BY <1>3, <1>4

(* The recv and the parse.                                                 *)
LEMMA RecvStep ==
  ASSUME HttpAssumption, HttpInv, NEW b \in Clients, Recv(b)
  PROVE  HttpInv'
  <1>1. /\ req[b].at = "recv" /\ UNCHANGED <<web, url, left, answer>>
        /\ b \in Clients /\ req \in [Clients -> [at : {"recv", "get", "send", "sent", "crashed", "over"},
                          path : Paths \cup {NoPath}, size : Int, edit : Nat]]
    BY DEF Recv, HandlerAt, HttpInv, HttpType
  <1>2. PICK r : /\ req' = [req EXCEPT ![b] = r]
                 /\ r \in [at : {"get", "crashed"}, path : Paths \cup {NoPath}, size : Int, edit : Nat]
                 /\ ParsedOf(r, url[b], disk, edits)
                 /\ r.at = "crashed" => r.path = NoPath
    <2>1. ASSUME NEW line \in BOOLEAN, NEW r \in Parsed(b, line), req' = [req EXCEPT ![b] = r]
          PROVE  \E q : /\ req' = [req EXCEPT ![b] = q]
                        /\ q \in [at : {"get", "crashed"}, path : Paths \cup {NoPath}, size : Int, edit : Nat]
                        /\ ParsedOf(q, url[b], disk, edits)
                        /\ q.at = "crashed" => q.path = NoPath
      BY <2>1, ParsedStep
    <2>2. CASE HandlerGoto(b, "crashed")
      <3> DEFINE r == [req[b] EXCEPT !.at = "crashed"]
      <3>1. req' = [req EXCEPT ![b] = r]
        BY <2>2 DEF HandlerGoto
      <3>2. r \in [at : {"get", "crashed"}, path : Paths \cup {NoPath}, size : Int, edit : Nat]
        BY <1>1
      <3>3. ParsedOf(req[b], url[b], disk, edits) /\ req[b].path = NoPath
        BY <1>1 DEF HttpInv, ClientInv, ParsedOf
      <3>4. ParsedOf(r, url[b], disk, edits) /\ r.path = NoPath
        BY <1>1, <3>3 DEF ParsedOf
      <3> QED
        BY <3>1, <3>2, <3>4
    <2> QED
      BY <2>1, <2>2 DEF Recv
  <1>3. DiskInv' /\ HttpType'
    BY <1>1, <1>2 DEF HttpInv, DiskInv, HttpType, web
  <1>4. req'[b] = r /\ \A c \in Clients \ {b} : req'[c] = req[c]
    BY <1>1, <1>2
  <1>5. ClientInv(b)'
    BY <1>1, <1>2, <1>4 DEF ClientInv, AnswerOf, CrashOf, ParsedOf, web
  <1>6. ASSUME NEW c \in Clients \ {b} PROVE ClientInv(c)'
    BY <1>1, <1>4, ClientStays DEF HttpInv
  <1> QED
    BY <1>3, <1>5, <1>6 DEF HttpInv

(* What Get answers to a request whose size is at least -1.                *)
LEMMA BodyAnswers ==
  ASSUME HttpAssumption, DiskInv, NEW u \in Urls,
         NEW r \in [at : {"get"}, path : Paths \cup {NoPath}, size : Int, edit : Nat],
         ParsedOf(r, u, disk, edits), r.size >= -1,
         NEW q, q = [r EXCEPT !.at = "send"]
  PROVE  /\ Body(r) \in [length : Int, of : Int, bytes : Nat, sent : Nat]
         /\ AnswerOf(Body(r), q, disk[path(u)], edits)
  <1> DEFINE file == disk[path(u)]
  <1>1. path(u) \in Paths /\ edits \in Nat \ {0} /\ PageSize \in Nat
    BY PathType DEF DiskInv, HttpAssumption
  <1>2. /\ file \in [is : FileKinds \cup {"none"}, size : Int, edit : Nat]
        /\ \/ file = Missing
           \/ file.is \in FileKinds /\ file.size \in Nat /\ file.edit \in 1 .. edits
    BY <1>1 DEF DiskInv, OnDisk
  <1>3. /\ q.path = r.path /\ q.size = r.size /\ q.edit = r.edit
        /\ r.size \in Int /\ r.edit \in Nat
    OBVIOUS
  <1>4. r.path # NoPath =>
          /\ r.path = path(u)
          /\ (r.size = -1 /\ r.edit = 0) \/ r.size \in Nat
          /\ edits = 1 => r.size = file.size /\ r.edit = file.edit
          /\ file # Missing =>
               r.edit <= file.edit /\ (r.edit = file.edit => r.size = file.size)
    BY DEF ParsedOf
  <1>5. CASE ~ Opened(r.path)
    <2>1. Body(r) = [length |-> r.size, of |-> Page404, bytes |-> PageSize, sent |-> PageSize]
      BY <1>5 DEF Body
    <2>2. r.path = NoPath \/ file.is \in {"locked", "none"}
      BY <1>2, <1>4, <1>5 DEF Opened, FileKinds
    <2>3. file.is \in {"locked", "none"} =>
            Expected(file) = [length |-> file.size, of |-> Page404, bytes |-> PageSize, sent |-> PageSize]
      BY DEF Expected
    <2> HIDE DEF file
    <2>4. Body(r) \in [length : Int, of : Int, bytes : Nat, sent : Nat]
      BY <1>1, <1>3, <2>1 DEF Page404
    <2>5. AnswerOf(Body(r), q, file, edits)
      BY <1>3, <1>4, <2>1, <2>2, <2>3 DEF AnswerOf, Page404
    <2> QED
      BY <2>4, <2>5 DEF file
  <1>6. CASE Opened(r.path)
    <2>1. r.path = path(u) /\ r.path # NoPath /\ file.is \in {"file", "dir"}
      BY <1>4, <1>6 DEF Opened
    <2>2. file.size \in Nat /\ file.edit \in 1 .. edits /\ file # Missing
      BY <1>2, <2>1 DEF Missing
    <2>3. r.size \in Nat \/ r.size = -1
      BY <1>4, <2>1
    <2>4. Body(r) = [length |-> r.size, of |-> readFile(r.path, r.size).of,
                     bytes |-> readFile(r.path, r.size).bytes, sent |-> r.size + 1]
      BY <1>6 DEF Body
    <2>5. CASE file.is = "file" /\ r.size >= 0
      <3>1. Min({r.size, file.size}) = IF r.size <= file.size THEN r.size ELSE file.size
        BY <1>3, <2>2, MinOfTwo
      <3>2. readFile(r.path, r.size) = [of |-> file.edit, bytes |-> Min({r.size, file.size})]
        BY <2>1, <2>5 DEF readFile
      <3>3. Body(r) = [length |-> r.size, of |-> file.edit,
                       bytes |-> IF r.size <= file.size THEN r.size ELSE file.size,
                       sent |-> r.size + 1]
        BY <2>4, <3>1, <3>2
      <3>4. edits = 1 => Body(r) = Expected(file)
        <4>1. edits = 1 => r.size = file.size /\ file.edit = 1
          BY <1>4, <2>1, <2>2
        <4> QED
          BY <2>5, <3>3, <4>1 DEF Expected
      <3> HIDE DEF file
      <3>5. /\ Body(r).length = r.size /\ Body(r).of = file.edit /\ Body(r).sent = r.size + 1
            /\ Body(r).bytes = IF r.size <= file.size THEN r.size ELSE file.size
        BY <3>3
      <3>6. Body(r).bytes <= Body(r).length
        BY <1>3, <2>2, <3>5
      <3>7. Body(r).bytes < Body(r).length => r.edit < file.edit
        BY <1>3, <1>4, <2>1, <2>2, <3>5
      <3>8. AnswerOf(Body(r), q, file, edits)
        BY <1>3, <1>4, <2>1, <2>2, <3>4, <3>5, <3>6, <3>7 DEF AnswerOf
      <3>9. Body(r) \in [length : Int, of : Int, bytes : Nat, sent : Nat]
        BY <1>3, <2>2, <2>5, <3>3
      <3> QED
        BY <3>8, <3>9 DEF file
    <2>6. CASE ~ (file.is = "file" /\ r.size >= 0)
      <3>1. readFile(r.path, r.size) = [of |-> 0, bytes |-> 0]
        BY <2>1, <2>6 DEF readFile
      <3>2. Body(r) = [length |-> r.size, of |-> 0, bytes |-> 0, sent |-> r.size + 1]
        BY <2>4, <3>1
      <3>3. edits = 1 => Body(r) = Expected(file)
        <4>1. edits = 1 => r.size = file.size /\ file.is = "dir"
          BY <1>4, <2>1, <2>2, <2>6
        <4> QED
          BY <3>2, <4>1 DEF Expected
      <3> HIDE DEF file
      <3>4. Body(r) \in [length : Int, of : Int, bytes : Nat, sent : Nat]
        BY <1>3, <2>3, <3>2
      <3>5. AnswerOf(Body(r), q, file, edits)
        BY <3>2, <3>3 DEF AnswerOf
      <3> QED
        BY <3>4, <3>5 DEF file
    <2> QED
      BY <2>5, <2>6
  <1> QED
    BY <1>5, <1>6

(* Get answers, or the process crashes.                                    *)
LEMMA GetStep ==
  ASSUME HttpAssumption, HttpInv, NEW b \in Clients, Get(b)
  PROVE  HttpInv'
  <1>1. /\ req[b].at = "get" /\ UNCHANGED <<web, url, left>>
        /\ req \in [Clients -> [at : {"recv", "get", "send", "sent", "crashed", "over"},
                          path : Paths \cup {NoPath}, size : Int, edit : Nat]]
        /\ answer \in [Clients -> [length : Int, of : Int, bytes : Nat, sent : Nat]]
        /\ url[b] \in Urls /\ DiskInv
        /\ ParsedOf(req[b], url[b], disk, edits)
    BY DEF Get, HandlerAt, HttpInv, HttpType, ClientInv
  <1>2. req[b] \in [at : {"get"}, path : Paths \cup {NoPath}, size : Int, edit : Nat]
    BY <1>1
  <1>3. CASE req[b].size < -1 /\ HandlerGoto(b, "crashed") /\ UNCHANGED answer
    <2> DEFINE r == [req[b] EXCEPT !.at = "crashed"]
    <2>1. req' = [req EXCEPT ![b] = r]
      BY <1>3 DEF HandlerGoto
    <2>2. r \in [at : {"crashed"}, path : Paths \cup {NoPath}, size : Int, edit : Nat]
      BY <1>2
    <2>3. ParsedOf(r, url[b], disk, edits)
      BY <1>1, <1>2 DEF ParsedOf
    <2>4. r.path = NoPath
      BY <1>1, <1>2, <1>3 DEF ParsedOf
    <2>5. r.at = "crashed"
      BY <1>2
    <2> HIDE DEF r
    <2>6. DiskInv' /\ HttpType'
      BY <1>1, <1>3, <2>1, <2>2 DEF HttpInv, DiskInv, HttpType, web
    <2>7. req'[b] = r /\ \A c \in Clients \ {b} : req'[c] = req[c]
      BY <1>1, <2>1
    <2>8. ClientInv(b)'
      BY <1>1, <1>3, <2>3, <2>4, <2>5, <2>7 DEF ClientInv, AnswerOf, CrashOf, ParsedOf, web
    <2>9. ASSUME NEW c \in Clients \ {b} PROVE ClientInv(c)'
      BY <1>1, <1>3, <2>7, ClientStays DEF HttpInv
    <2> QED
      BY <2>6, <2>8, <2>9 DEF HttpInv
  <1>4. CASE /\ req[b].size >= -1
             /\ answer' = [answer EXCEPT ![b] = Body(req[b])]
             /\ HandlerGoto(b, "send")
    <2> DEFINE q == [req[b] EXCEPT !.at = "send"]
    <2>1. req' = [req EXCEPT ![b] = q]
      BY <1>4 DEF HandlerGoto
    <2>2. q \in [at : {"send"}, path : Paths \cup {NoPath}, size : Int, edit : Nat]
      BY <1>2
    <2>3. ParsedOf(q, url[b], disk, edits) /\ q.at = "send"
      BY <1>1, <1>2 DEF ParsedOf
    <2>4. /\ Body(req[b]) \in [length : Int, of : Int, bytes : Nat, sent : Nat]
          /\ AnswerOf(Body(req[b]), q, disk[path(url[b])], edits)
      BY <1>1, <1>2, <1>4, BodyAnswers
    <2> HIDE DEF q
    <2>5. DiskInv' /\ HttpType'
      BY <1>1, <1>4, <2>1, <2>2, <2>4 DEF HttpInv, DiskInv, HttpType, web
    <2>6. /\ req'[b] = q /\ \A c \in Clients \ {b} : req'[c] = req[c]
          /\ answer'[b] = Body(req[b]) /\ \A c \in Clients \ {b} : answer'[c] = answer[c]
      BY <1>1, <1>4, <2>1
    <2>7. ClientInv(b)'
      BY <1>1, <2>3, <2>4, <2>6 DEF ClientInv, AnswerOf, CrashOf, ParsedOf, web
    <2>8. ASSUME NEW c \in Clients \ {b} PROVE ClientInv(c)'
      BY <1>1, <2>6, ClientStays DEF HttpInv
    <2> QED
      BY <2>5, <2>7, <2>8 DEF HttpInv
  <1> QED
    BY <1>3, <1>4 DEF Get

(* The connection ends.                                                    *)
LEMMA FinishStep ==
  ASSUME HttpAssumption, HttpInv, NEW b \in Clients, Finish(b)
  PROVE  HttpInv'
  <1>1. /\ req' = [req EXCEPT ![b] = Request("over")]
        /\ answer' = [answer EXCEPT ![b] = NoAnswer]
        /\ left' = [left EXCEPT ![b] = "no"]
        /\ url' = [url EXCEPT ![b] = Home] /\ Home \in Urls
        /\ UNCHANGED web
    BY DEF Finish, HttpAssumption
  <1>2. /\ Request("over") = [at |-> "over", path |-> NoPath, size |-> 0, edit |-> 0]
        /\ NoAnswer \in [length : Int, of : Int, bytes : Nat, sent : Nat]
    BY DEF Request, NoAnswer
  <1>3. DiskInv' /\ HttpType'
    BY <1>1, <1>2 DEF HttpInv, DiskInv, HttpType, web
  <1>4. req'[b] = Request("over") /\ edits' \in Nat
    BY <1>1, <1>3 DEF HttpInv, HttpType, DiskInv
  <1>5. ClientInv(b)'
    BY <1>2, <1>4 DEF ClientInv, ParsedOf, AnswerOf, CrashOf
  <1>6. ASSUME NEW c \in Clients \ {b} PROVE ClientInv(c)'
    BY <1>1, ClientStays DEF HttpInv, HttpType
  <1> QED
    BY <1>3, <1>5, <1>6 DEF HttpInv

(* Every step keeps the invariant.                                         *)
LEMMA HttpNextInv ==
  ASSUME HttpAssumption, HttpInv, [HttpNext]_httpVars
  PROVE  HttpInv'
  <1>1. CASE UNCHANGED <<web, http>>
    <2>1. DiskInv' /\ HttpType'
      BY <1>1 DEF HttpInv, DiskInv, HttpType, web, http
    <2>2. ASSUME NEW c \in Clients PROVE ClientInv(c)'
      BY <1>1, ClientStays DEF HttpInv, web, http
    <2> QED
      BY <2>1, <2>2 DEF HttpInv
  <1>2. CASE Prepare \/ Start \/ Failure \/ Visit \/ UNCHANGED httpVars
    BY <1>1, <1>2 DEF Prepare, Start, Failure, Visit, httpVars, web, http
  <1>3. ASSUME NEW c \in Clients, HandlerHttp(c) PROVE HttpInv'
    BY <1>3, RecvStep, GetStep, FinishStep DEF HandlerHttp
  <1> QED
    BY <1>2, <1>3, EditStep, BrowserStep DEF HttpNext, HttpSystem

(* What the HTTP server answers and what ends a serving process, for any   *)
(* clients, urls, files and edits of wwwroot: the length and the content   *)
(* are those of one version of the file unless it is edited between stat   *)
(* and open, the body is that content and NULs up to the length and one    *)
(* more, and a process dies only of a request without its first line or of *)
(* a client that left (HttpServer.hpp:62-76, HttpServer.cc:32-66,          *)
(* Util.hpp:25-34, protocol.hpp:19-48).                                    *)
THEOREM HttpAnswersTheFile ==
  ASSUME HttpAssumption
  PROVE  HttpSpec => []HttpSafe
  <1>1. HttpInv /\ [HttpNext]_httpVars => HttpInv'
    BY HttpNextInv
  <1>2. HttpInit => HttpInv
    BY HttpInitInv
  <1> QED
    BY <1>1, <1>2, HttpInvSafe, PTL DEF HttpSpec
-----------------------------------------------------------------------------
(***************************************************************************)
(* EchoServer, for any threads and connections: the bytes that were        *)
(* entered come back in their order, and a descriptor is closed once,      *)
(* after its client left.  The pool has its invariants from                *)
(* ThreadPoolProof.                                                        *)
(***************************************************************************)
(* What is known of the pool.                                              *)
PoolInv == PoolType /\ CarryInv /\ OneInv /\ PlaceInv /\ FlagType

(* EchoTypeOK without the pool, and what the streams hold.                 *)
EchoTyping ==
  /\ stage \in {"socket", "bind", "listen", "daemon", "serve", "exited"}
  /\ sigpipe \in {"end", "ignore"}
  /\ arrived \in 0 .. MaxTasks
  /\ client \in [Tasks -> {"none", "prompt", "wait", "gone"}]
  /\ entered \in [Tasks -> Nat] /\ \A n \in Tasks : entered[n] <= MaxBytes[n]
  /\ stream \in [Tasks -> [server : Seq(Nat), client : Seq(Nat)]]
  /\ shown \in [Tasks -> Seq(Nat)]
  /\ fds \subseteq Tasks
  /\ io \in [Workers -> {"read", "write", "close"}]
  /\ buff \in [Workers -> Seq(Nat)]

(* No worker runs before SIGPIPE is ignored.                               *)
BootInv ==
  /\ ~aborted
  /\ stage = "serve" => sigpipe = "ignore"
  /\ stage # "serve" => \A w \in Workers : pc[w] = "new"

(* A descriptor is open while its task has not run, and a worker closes it *)
(* only when the client is gone.                                           *)
CloseInv ==
  /\ submitted <= arrived
  /\ fds = {n \in Tasks : n <= submitted /\ ran[n] = 0}
  /\ \A n \in Tasks : n > arrived => client[n] = "none"
  /\ \A n \in Tasks : n <= submitted /\ n \notin fds => client[n] = "gone"
  /\ \A w \in Workers :
       /\ pc[w] # "execute" => io[w] = "read"
       /\ io[w] = "close" => client[got[w]] = "gone"

(* The worker that holds bytes of connection n, and the bytes.             *)
Writers(n) == {w \in Workers : Serves(w, n) /\ io[w] = "write"}
Carried(n) == IF Writers(n) = {} THEN <<>> ELSE buff[CHOOSE w \in Writers(n) : TRUE]

Numbers(k) == [j \in 1 .. k |-> j]

(* Echoed, with the bytes on both sides of the worker grouped.             *)
Line(n) == Cat(Cat(shown[n], stream[n].client), Cat(Carried(n), stream[n].server))

LineInv == \A n \in Tasks : client[n] # "gone" => Line(n) = Numbers(entered[n])

EchoInv == PoolInv /\ EchoTyping /\ BootInv /\ CloseInv /\ LineInv
-----------------------------------------------------------------------------
(* Bytes under way are numbers.                                            *)
Lines == [server : Seq(Nat), client : Seq(Nat)]

(* The first bytes of a stream and the rest make up the stream.            *)
LEMMA CutInTwo ==
  ASSUME NEW s \in Seq(Nat), NEW k \in 1 .. Min({BufSize, Len(s)}), BufSize \in Nat
  PROVE  /\ SubSeq(s, 1, k) \in Seq(Nat) /\ SubSeq(s, k + 1, Len(s)) \in Seq(Nat)
         /\ s = Cat(SubSeq(s, 1, k), SubSeq(s, k + 1, Len(s)))
  <1>1. Len(s) \in Nat
    OBVIOUS
  <1>2. k \in 1 .. Len(s)
    BY <1>1, MinOfTwo
  <1> QED
    BY <1>2, CatSplit

(* One direction of one stream changes.                                    *)
LEMMA ToClient ==
  ASSUME stream \in [Tasks -> Lines], NEW n \in Tasks, NEW x \in Seq(Nat),
         stream' = [stream EXCEPT ![n].client = x]
  PROVE  /\ stream' \in [Tasks -> Lines]
         /\ stream'[n].client = x /\ stream'[n].server = stream[n].server
         /\ \A m \in Tasks \ {n} : stream'[m] = stream[m]
  BY DEF Lines

LEMMA ToServer ==
  ASSUME stream \in [Tasks -> Lines], NEW n \in Tasks, NEW x \in Seq(Nat),
         stream' = [stream EXCEPT ![n].server = x]
  PROVE  /\ stream' \in [Tasks -> Lines]
         /\ stream'[n].server = x /\ stream'[n].client = stream[n].client
         /\ \A m \in Tasks \ {n} : stream'[m] = stream[m]
  BY DEF Lines

(* The numbers up to m and the next k are the numbers up to m + k.         *)
LEMMA NumbersGoOn ==
  ASSUME NEW m \in Nat, NEW k \in Nat
  PROVE  /\ Numbers(m) \in Seq(Nat) /\ [j \in 1 .. k |-> m + j] \in Seq(Nat)
         /\ Cat(Numbers(m), [j \in 1 .. k |-> m + j]) = Numbers(m + k)
  <1> DEFINE more == [j \in 1 .. k |-> m + j]
  <1>1. /\ Numbers(m) \in Seq(Nat) /\ Len(Numbers(m)) = m
        /\ \A i \in 1 .. m : Numbers(m)[i] = i
    BY DEF Numbers
  <1>2. more \in Seq(Nat) /\ Len(more) = k /\ \A i \in 1 .. k : more[i] = m + i
    OBVIOUS
  <1>3. Numbers(m + k) \in Seq(Nat) /\ Len(Numbers(m + k)) = m + k
    BY DEF Numbers
  <1>4. \A i \in 1 .. m + k : Numbers(m + k)[i] = i
    BY DEF Numbers
  <1> HIDE DEF more
  <1>5. /\ Cat(Numbers(m), more) \in Seq(Nat)
        /\ Len(Cat(Numbers(m), more)) = m + k
        /\ \A i \in 1 .. m : Cat(Numbers(m), more)[i] = i
        /\ \A i \in 1 .. k : Cat(Numbers(m), more)[m + i] = m + i
    <2>1. Cat(Numbers(m), more) \in Seq(Nat)
      BY <1>1, <1>2, CatType
    <2>2. /\ Len(Cat(Numbers(m), more)) = m + k
          /\ \A i \in 1 .. m : Cat(Numbers(m), more)[i] = Numbers(m)[i]
          /\ \A i \in 1 .. k : Cat(Numbers(m), more)[m + i] = more[i]
      <3>1. Numbers(m) \in Seq(Nat) /\ more \in Seq(Nat)
        BY <1>1, <1>2
      <3>2. /\ Len(Cat(Numbers(m), more)) = Len(Numbers(m)) + Len(more)
            /\ \A i \in 1 .. Len(Numbers(m)) : Cat(Numbers(m), more)[i] = Numbers(m)[i]
            /\ \A i \in 1 .. Len(more) : Cat(Numbers(m), more)[Len(Numbers(m)) + i] = more[i]
        BY <3>1, CatElements
      <3>3. Len(Numbers(m)) = m /\ Len(more) = k
        BY <1>1, <1>2
      <3> QED
        BY <3>2, <3>3
    <2>3. \A i \in 1 .. m : Cat(Numbers(m), more)[i] = i
      BY <1>1, <2>2
    <2>4. \A i \in 1 .. k : Cat(Numbers(m), more)[m + i] = m + i
      BY <1>2, <2>2
    <2> QED
      BY <2>1, <2>2, <2>3, <2>4
  <1>6. ASSUME NEW i \in 1 .. m + k
        PROVE  Cat(Numbers(m), more)[i] = i
    <2>1. CASE i <= m
      BY <1>5, <2>1
    <2>2. CASE i > m
      <3>1. i - m \in 1 .. k /\ m + (i - m) = i
        BY <2>2
      <3> QED
        BY <1>5, <3>1
    <2> QED
      BY <2>1, <2>2
  <1>7. Cat(Numbers(m), more) = Numbers(m + k)
    BY <1>3, <1>4, <1>5, <1>6, SeqEqual
  <1> QED
    BY <1>1, <1>2, <1>7 DEF more
-----------------------------------------------------------------------------
(* Initially nothing is under way.                                         *)
LEMMA EchoInitInv == EchoAssumption /\ EchoInit => EchoInv
  <1> SUFFICES ASSUME EchoAssumption, EchoInit PROVE EchoInv
    OBVIOUS
  <1>1. PoolInv
    <2>1. Init
      BY DEF EchoInit
    <2> QED
      BY <2>1, InitType, InitCarry, InitOne, InitPlace DEF PoolInv, FlagType, Init
  <1>2. /\ stage = "socket" /\ sigpipe = "end" /\ ~aborted /\ submitted = 0
        /\ \A w \in Workers : pc[w] = "new"
    BY Kinds DEF EchoInit, Init
  <1>3. <<>> \in Seq(Nat) /\ NoBytes \in Lines
    BY EmptySeq DEF NoBytes, Lines
  <1>4. EchoTyping
    BY <1>2, <1>3, Kinds DEF EchoInit, EchoTyping, EchoAssumption, Lines
  <1>5. BootInv
    BY <1>2 DEF BootInv
  <1>6. CloseInv
    BY <1>2, Kinds DEF EchoInit, CloseInv, Tasks
  <1>7. LineInv
    <2> SUFFICES ASSUME NEW n \in Tasks PROVE Line(n) = Numbers(0)
      BY DEF LineInv, EchoInit
    <2>1. Carried(n) = <<>>
      BY DEF Carried, Writers, EchoInit
    <2>2. shown[n] = <<>> /\ stream[n].client = <<>> /\ stream[n].server = <<>>
      BY DEF EchoInit, NoBytes
    <2>3. Numbers(0) = <<>>
      BY DEF Numbers
    <2>4. Cat(<<>>, <<>>) = <<>>
      BY <1>3, CatEmpty
    <2> QED
      BY <2>1, <2>2, <2>3, <2>4 DEF Line
  <1> QED
    BY <1>1, <1>4, <1>5, <1>6, <1>7 DEF EchoInv
-----------------------------------------------------------------------------
(* The steps that move the pool and nothing else of the workers.           *)
PoolMove ==
  StartPool \/ AcceptEcho \/ PushStep \/ \E w \in Workers : TakeStep(w) \/ Wakeup(w)

(* Every step of the server is a step of the pool or leaves it alone: a    *)
(* write to a client that left does not end the process.                   *)
LEMMA EchoIsPool ==
  ASSUME PoolInv, EchoTyping, BootInv, [EchoNext]_echoVars
  PROVE  [Next]_vars /\ PoolInv'
  <1> USE Kinds
  <1> SUFFICES [Next]_vars
    BY ShapeStep, OneNext, PlaceNext, FlagStep DEF PoolInv
  <1>1. CASE StartPool
    BY <1>1 DEF StartPool, Next
  <1>2. CASE AcceptEcho \/ PushStep
    <2>1. CallPush(Main) \/ Caller(Main)
      BY <1>2 DEF AcceptEcho, PushStep
    <2>2. Main \in Callers
      OBVIOUS
    <2> QED
      BY <2>1, <2>2, Zenon DEF Next
  <1>3. ASSUME NEW w \in Workers, TakeStep(w) \/ Wakeup(w) \/ CloseEcho(w)
        PROVE  Next
    BY <1>3 DEF TakeStep, Wakeup, CloseEcho, Worker, Next
  <1>4. ASSUME NEW w \in Workers, Echo(w)
        PROVE  UNCHANGED vars
    <2>1. pc[w] = "execute" /\ ~aborted
      BY <1>4 DEF Echo
    <2>2. sigpipe = "ignore"
      BY <2>1 DEF BootInv
    <2>3. aborted' = aborted \/ aborted' = FALSE
      BY <1>4, <2>2 DEF Echo
    <2>4. aborted' = aborted
      BY <2>1, <2>3 DEF PoolInv, FlagType
    <2> QED
      BY <1>4, <2>4 DEF Echo, vars, progress
  <1>5. CASE \/ initEcho \/ daemonSelf \/ ConnectEcho
             \/ \E w \in Workers : ReadSome(w) \/ ReadEnd(w)
             \/ \E n \in Tasks : Client_(n) \/ Enter(n) \/ LeaveEcho(n)
    BY <1>5 DEF initEcho, daemonSelf, ConnectEcho, ReadSome, ReadEnd, Client_, Show,
                ClientEnd, Enter, LeaveEcho, pool
  <1>6. CASE UNCHANGED echoVars
    BY <1>6 DEF echoVars, pool
  <1> QED
    BY <1>1, <1>2, <1>3, <1>4, <1>5, <1>6 DEF EchoNext, Main_, Worker_, serverIO

(* Two workers never serve one connection.                                 *)
LEMMA Alone ==
  ASSUME PoolInv, NEW v \in Workers, NEW w \in Workers, NEW n \in Tasks,
         Serves(v, n), Serves(w, n)
  PROVE  v = w
  <1> DEFINE A == {u \in Workers : hold[u] \in {n}}
  <1>1. v \in A /\ w \in A
    BY DEF Serves, hold, Carrying
  <1>2. IsFiniteSet(A)
    BY PoolAssumption, FS_Subset
  <1>3. Cardinality(A) \in Nat /\ Cardinality(A) <= 1
    <2>1. InHand(n) + Queued(n) + Held(n) + ran[n] <= 1
      BY DEF PoolInv, PlaceInv
    <2>2. Held(n) \in Nat /\ Held(n) <= 1
      BY <2>1, PlaceType DEF PoolInv
    <2> QED
      BY <2>2 DEF Held
  <1> HIDE DEF A
  <1>4. Cardinality(A) = 1
    BY <1>1, <1>2, <1>3, FS_EmptySet
  <1>5. PICK x : A = {x}
    BY <1>2, <1>4, FS_Singleton
  <1> QED
    BY <1>1, <1>5
-----------------------------------------------------------------------------
(* What is held of a connection stays with who holds it.                   *)
LEMMA CarriedSame ==
  ASSUME UNCHANGED buff, NEW n \in Tasks,
         \A w \in Workers :
           (Serves(w, n) /\ io[w] = "write")' <=> (Serves(w, n) /\ io[w] = "write")
  PROVE  Carried(n)' = Carried(n)
  <1>1. Writers(n)' = Writers(n)
    BY DEF Writers
  <1> QED
    BY <1>1 DEF Carried

(* So it does when nobody reads or writes.                                 *)
LEMMA CarriedStays ==
  ASSUME CloseInv, UNCHANGED <<io, buff>>,
         \A w \in Workers : pc[w] = "execute" => pc'[w] = "execute" /\ got'[w] = got[w]
  PROVE  \A n \in Tasks : Carried(n)' = Carried(n)
  <1>1. ASSUME NEW n \in Tasks, NEW w \in Workers
        PROVE  (Serves(w, n) /\ io[w] = "write")' <=> (Serves(w, n) /\ io[w] = "write")
    <2>1. pc[w] # "execute" => io[w] = "read"
      BY DEF CloseInv
    <2> QED
      BY <2>1 DEF Serves
  <1> QED
    BY <1>1, CarriedSame

(* The workers that execute a task go on with it, and the others begin     *)
(* only after the pool was started.                                        *)
LEMMA PoolMoves ==
  ASSUME PoolType, BootInv, PoolMove
  PROVE  /\ UNCHANGED <<boot, clients, stream, io, buff, ran, aborted>>
         /\ \A w \in Workers : pc[w] = "execute" => pc'[w] = "execute" /\ got'[w] = got[w]
         /\ stage # "serve" => \A w \in Workers : pc'[w] = "new"
         /\ \/ UNCHANGED <<submitted, fds>>
            \/ /\ submitted < arrived /\ submitted < MaxTasks
               /\ submitted' = submitted + 1 /\ fds' = fds \cup {submitted + 1}
  <1> USE Kinds
  <1>1. CASE StartPool
    <2>1. UNCHANGED <<tasks, mutex, progress, boot, clients, stream, session>> /\ stage = "serve"
      BY <1>1 DEF StartPool, Run, CallRun, StartWorker
    <2>2. \A w \in Workers : pc[w] = "execute" => pc'[w] = "execute"
      BY <1>1 DEF StartPool, Run, CallRun, StartWorker, Goto, PoolType
    <2> QED
      BY <2>1, <2>2 DEF progress, session
  <1>2. CASE AcceptEcho
    <2>1. /\ UNCHANGED <<boot, clients, stream, io, buff, got, ran, aborted>> /\ stage = "serve"
          /\ submitted < arrived /\ submitted < MaxTasks
          /\ submitted' = submitted + 1 /\ fds' = fds \cup {submitted + 1}
      BY <1>2 DEF AcceptEcho, CallPush
    <2>2. \A w \in Workers : pc'[w] = pc[w]
      BY <1>2 DEF AcceptEcho, CallPush, Goto, PoolType
    <2> QED
      BY <2>1, <2>2
  <1>3. CASE PushStep
    <2>1. UNCHANGED <<boot, clients, stream, session, got, ran, submitted, aborted>>
      BY <1>3 DEF PushStep, Caller, Check, Single, Recheck, Build, Publish, Release, Push,
                  LockPush, Enqueue, Signal, UnlockPush, progress
    <2>2. \A w \in Workers : pc'[w] = pc[w] \/ pc[w] = "wait"
      BY <1>3 DEF PushStep, Caller, Check, Single, Recheck, Build, Publish, Release, Push,
                  LockPush, Enqueue, Signal, WakeOne, At, UnlockPush, Goto, PoolType
    <2>3. stage # "serve" => \A w \in Workers : pc'[w] = "new"
      BY <2>2 DEF BootInv
    <2> QED
      BY <2>1, <2>2, <2>3 DEF session
  <1>4. ASSUME NEW w \in Workers, TakeStep(w) \/ Wakeup(w)
        PROVE  /\ UNCHANGED <<boot, clients, stream, session, ran, submitted, aborted>>
               /\ \A v \in Workers : pc[v] = "execute" => pc'[v] = "execute" /\ got'[v] = got[v]
               /\ stage = "serve"
    <2>1. UNCHANGED <<boot, clients, stream, session, ran, submitted, aborted>>
      BY <1>4 DEF TakeStep, Wakeup, LockTake, Test, Take, UnlockTake, Spurious, progress
    <2>2. pc[w] # "execute" /\ pc[w] # "new"
      BY <1>4 DEF TakeStep, Wakeup, LockTake, Test, Take, UnlockTake, Spurious, Goto
    <2>3. \A v \in Workers \ {w} : pc'[v] = pc[v]
      BY <1>4 DEF TakeStep, Wakeup, LockTake, Test, Take, UnlockTake, Spurious, Goto, PoolType
    <2>4. \A v \in Workers \ {w} : got'[v] = got[v]
      BY <1>4 DEF TakeStep, Wakeup, LockTake, Test, Take, UnlockTake, Spurious, progress, PoolType
    <2>5. stage = "serve"
      BY <2>2 DEF BootInv
    <2> QED
      BY <2>1, <2>2, <2>3, <2>4, <2>5
  <1>5. CASE \E w \in Workers : TakeStep(w) \/ Wakeup(w)
    BY <1>4, <1>5 DEF session
  <1> QED
    BY <1>1, <1>2, <1>3, <1>5 DEF PoolMove

(* A task that is not submitted has not run.                               *)
LEMMA NotYetRun ==
  ASSUME PoolInv, NEW n \in Tasks, ~ (n <= submitted)
  PROVE  ran[n] = 0
  <1>1. InHand(n) + Queued(n) + Held(n) + ran[n] = 0
    BY DEF PoolInv, PlaceInv
  <1> QED
    BY <1>1, PlaceType DEF PoolInv

(* The steps of the pool.                                                  *)
LEMMA PoolMoveInv ==
  ASSUME EchoInv, PoolMove
  PROVE  EchoTyping' /\ BootInv' /\ CloseInv' /\ LineInv'
  <1> USE Kinds
  <1>1. PoolInv /\ PoolType /\ EchoTyping /\ BootInv /\ CloseInv /\ LineInv
    BY DEF EchoInv, PoolInv
  <1>2. /\ UNCHANGED <<boot, clients, stream, io, buff, ran, aborted>>
        /\ \A w \in Workers : pc[w] = "execute" => pc'[w] = "execute" /\ got'[w] = got[w]
        /\ stage # "serve" => \A w \in Workers : pc'[w] = "new"
        /\ \/ UNCHANGED <<submitted, fds>>
           \/ /\ submitted < arrived /\ submitted < MaxTasks
              /\ submitted' = submitted + 1 /\ fds' = fds \cup {submitted + 1}
    BY <1>1, PoolMoves
  <1>3. UNCHANGED <<stage, sigpipe, arrived, client, entered, shown>>
    BY <1>2 DEF boot, clients
  <1>4. submitted \in 0 .. MaxTasks /\ ran \in [Tasks -> Nat]
    BY <1>1 DEF PoolType
  <1>5. fds' \subseteq Tasks
    <2>1. fds \subseteq Tasks /\ (submitted < MaxTasks => submitted + 1 \in Tasks)
      BY <1>1, <1>4 DEF EchoTyping, Tasks
    <2> QED
      BY <1>2, <2>1
  <1>6. EchoTyping'
    BY <1>1, <1>2, <1>3, <1>5 DEF EchoTyping
  <1>7. BootInv'
    BY <1>1, <1>2, <1>3 DEF BootInv
  <1>8. CloseInv'
    <2>1. submitted' <= arrived'
      BY <1>1, <1>2, <1>3, <1>4 DEF CloseInv, EchoTyping
    <2>2. submitted' = submitted + 1 => submitted + 1 \in Tasks /\ ran[submitted + 1] = 0
      <3>1. ASSUME submitted < MaxTasks
            PROVE  submitted + 1 \in Tasks /\ ~ (submitted + 1 <= submitted)
        BY <1>4, <3>1 DEF Tasks
      <3> QED
        BY <1>1, <1>2, <1>4, <3>1, NotYetRun
    <2>3. fds' = {n \in Tasks : n <= submitted' /\ ran'[n] = 0}
      BY <1>1, <1>2, <1>4, <2>2 DEF CloseInv, Tasks
    <2>4. \A n \in Tasks : n > arrived' => client'[n] = "none"
      BY <1>1, <1>3 DEF CloseInv
    <2>5. \A n \in Tasks : n <= submitted' /\ n \notin fds' => client'[n] = "gone"
      <3>1. \A n \in Tasks : n <= submitted' /\ n \notin fds' => n <= submitted /\ n \notin fds
        BY <1>2, <1>4 DEF Tasks
      <3> QED
        BY <1>1, <1>3, <3>1 DEF CloseInv
    <2>6. \A w \in Workers : /\ pc'[w] # "execute" => io'[w] = "read"
                             /\ io'[w] = "close" => client'[got'[w]] = "gone"
      BY <1>1, <1>2, <1>3 DEF CloseInv
    <2> QED
      BY <2>1, <2>3, <2>4, <2>5, <2>6 DEF CloseInv
  <1>9. LineInv'
    <2>1. \A n \in Tasks : Carried(n)' = Carried(n)
      BY <1>1, <1>2, CarriedStays
    <2>2. \A n \in Tasks : Line(n)' = Line(n)
      BY <1>2, <1>3, <2>1 DEF Line
    <2> QED
      BY <1>1, <1>3, <2>2 DEF LineInv
  <1> QED
    BY <1>6, <1>7, <1>8, <1>9

(* main before it serves, and the steps of the clients.                    *)
LEMMA PoolSame ==
  ASSUME EchoInv, UNCHANGED <<pool, session>>
  PROVE  /\ UNCHANGED <<pc, got, submitted, ran, aborted, fds, io, buff>>
         /\ \A n \in Tasks : Carried(n)' = Carried(n)
  <1>1. UNCHANGED <<pc, got, submitted, ran, aborted, fds, io, buff>>
    BY DEF pool, vars, progress, session
  <1> QED
    BY <1>1, CarriedStays DEF EchoInv

LEMMA BootStep ==
  ASSUME EchoInv, initEcho \/ daemonSelf
  PROVE  EchoTyping' /\ BootInv' /\ CloseInv' /\ LineInv'
  <1>1. UNCHANGED <<pool, clients, stream, session>>
    BY DEF initEcho, daemonSelf
  <1>2. /\ UNCHANGED <<pc, got, submitted, ran, aborted, fds, io, buff>>
        /\ \A n \in Tasks : Carried(n)' = Carried(n)
    BY <1>1, PoolSame DEF session
  <1>3. UNCHANGED <<arrived, client, entered, shown, stream>>
    BY <1>1 DEF clients
  <1>4. /\ stage # "serve"
        /\ stage' \in {"bind", "listen", "daemon", "serve", "exited"}
        /\ sigpipe' = sigpipe \/ sigpipe' = "ignore"
        /\ stage' = "serve" => sigpipe' = "ignore"
    BY DEF initEcho, daemonSelf
  <1>5. EchoTyping'
    BY <1>2, <1>3, <1>4 DEF EchoInv, EchoTyping
  <1>6. BootInv'
    BY <1>2, <1>4 DEF EchoInv, BootInv
  <1>7. CloseInv'
    BY <1>2, <1>3 DEF EchoInv, CloseInv
  <1>8. LineInv'
    <2>1. \A n \in Tasks : Line(n)' = Line(n)
      BY <1>2, <1>3 DEF Line
    <2> QED
      BY <1>3, <2>1 DEF EchoInv, LineInv
  <1> QED
    BY <1>5, <1>6, <1>7, <1>8

LEMMA ConnectStep ==
  ASSUME EchoInv, ConnectEcho
  PROVE  EchoTyping' /\ BootInv' /\ CloseInv' /\ LineInv'
  <1> USE Kinds
  <1>1. /\ UNCHANGED <<pool, boot, entered, shown, stream, session>>
        /\ arrived < MaxTasks /\ arrived' = arrived + 1
        /\ client' = [client EXCEPT ![arrived + 1] = "prompt"]
    BY DEF ConnectEcho
  <1>2. /\ UNCHANGED <<pc, got, submitted, ran, aborted, fds, io, buff>>
        /\ \A n \in Tasks : Carried(n)' = Carried(n)
    BY <1>1, PoolSame DEF session
  <1>3. EchoTyping /\ CloseInv /\ PoolType /\ LineInv /\ BootInv
    BY DEF EchoInv, PoolInv
  <1>4. /\ arrived + 1 \in Tasks /\ arrived + 1 > arrived /\ arrived \in Nat
        /\ submitted \in Nat /\ submitted <= arrived
    BY <1>1, <1>3 DEF EchoTyping, CloseInv, PoolType, Tasks
  <1>5. client[arrived + 1] = "none"
    BY <1>3, <1>4 DEF CloseInv
  <1>6. /\ client'[arrived + 1] = "prompt"
        /\ \A n \in Tasks \ {arrived + 1} : client'[n] = client[n]
    BY <1>1, <1>3, <1>4 DEF EchoTyping
  <1>7. EchoTyping'
    <2>1. arrived' \in 0 .. MaxTasks
      BY <1>1, <1>4
    <2>2. client' \in [Tasks -> {"none", "prompt", "wait", "gone"}]
      BY <1>1, <1>3 DEF EchoTyping
    <2> QED
      BY <1>1, <1>2, <1>3, <2>1, <2>2 DEF EchoTyping, boot
  <1>8. BootInv'
    BY <1>1, <1>2, <1>3 DEF BootInv, boot
  <1>9. CloseInv'
    <2>1. submitted' <= arrived'
      BY <1>1, <1>2, <1>4
    <2>2. \A n \in Tasks : n > arrived' => client'[n] = "none"
      <3>1. \A n \in Tasks : n > arrived' => n > arrived /\ n # arrived + 1
        BY <1>1, <1>4 DEF Tasks
      <3> QED
        BY <1>3, <1>6, <3>1 DEF CloseInv
    <2>3. \A n \in Tasks : n <= submitted' /\ n \notin fds' => client'[n] = "gone"
      <3>1. \A n \in Tasks : n <= submitted' => n <= submitted /\ n # arrived + 1
        BY <1>2, <1>4 DEF Tasks
      <3> QED
        BY <1>2, <1>3, <1>6, <3>1 DEF CloseInv
    <2>4. \A w \in Workers : io[w] = "close" => client'[got[w]] = "gone"
      <3>1. ASSUME NEW w \in Workers, io[w] = "close"
            PROVE  client'[got[w]] = "gone"
        <4>1. client[got[w]] = "gone" /\ got[w] \in Tasks
          BY <1>3, <3>1 DEF CloseInv, PoolType, Carrying
        <4>2. got[w] # arrived + 1
          BY <1>5, <4>1
        <4> QED
          BY <1>6, <4>1, <4>2
      <3> QED
        BY <3>1
    <2> QED
      BY <1>2, <1>3, <2>1, <2>2, <2>3, <2>4 DEF CloseInv
  <1>10. LineInv'
    <2>1. \A n \in Tasks : Line(n)' = Line(n)
      BY <1>1, <1>2 DEF Line
    <2>2. \A n \in Tasks : client'[n] # "gone" => client[n] # "gone"
      BY <1>5, <1>6
    <2> QED
      BY <1>1, <1>3, <2>1, <2>2 DEF LineInv
  <1> QED
    BY <1>7, <1>8, <1>9, <1>10

(* A client that is connected does something: what holds of the others     *)
(* stays.                                                                  *)
LEMMA ClientMoves ==
  ASSUME EchoInv, NEW n \in Tasks, NEW next \in {"prompt", "wait", "gone"},
         UNCHANGED <<pool, boot, arrived, session>>,
         client[n] \in {"prompt", "wait"},
         client' = [client EXCEPT ![n] = next],
         entered' \in [Tasks -> Nat], shown' \in [Tasks -> Seq(Nat)],
         stream' \in [Tasks -> Lines], entered'[n] <= MaxBytes[n],
         \A m \in Tasks \ {n} :
           stream'[m] = stream[m] /\ shown'[m] = shown[m] /\ entered'[m] = entered[m],
         next = "gone" \/ (Line(n) = Numbers(entered[n]) /\ Carried(n)' = Carried(n)
                             => Line(n)' = Numbers(entered'[n]))
  PROVE  EchoTyping' /\ BootInv' /\ CloseInv' /\ LineInv'
  <1>2. /\ UNCHANGED <<pc, got, submitted, ran, aborted, fds, io, buff>>
        /\ \A m \in Tasks : Carried(m)' = Carried(m)
    BY PoolSame
  <1>3. EchoTyping /\ CloseInv /\ PoolType /\ LineInv /\ BootInv
    BY DEF EchoInv, PoolInv
  <1>4. client'[n] = next /\ \A m \in Tasks \ {n} : client'[m] = client[m]
    BY <1>3 DEF EchoTyping
  <1>5. EchoTyping'
    <2>1. client' \in [Tasks -> {"none", "prompt", "wait", "gone"}]
      BY <1>3 DEF EchoTyping
    <2>2. \A m \in Tasks : entered'[m] <= MaxBytes[m]
      BY <1>3 DEF EchoTyping
    <2> QED
      BY <1>2, <1>3, <2>1, <2>2 DEF EchoTyping, boot, Lines
  <1>6. BootInv'
    BY <1>2, <1>3 DEF BootInv, boot
  <1>7. \A m \in Tasks : (client[m] = "none" => client'[m] = "none")
                           /\ (client[m] = "gone" => client'[m] = "gone")
    BY <1>4
  <1>8. CloseInv'
    <2>1. \A w \in Workers : io[w] = "close" => client'[got[w]] = "gone"
      BY <1>3, <1>7 DEF CloseInv, PoolType, Carrying
    <2> QED
      BY <1>2, <1>3, <1>7, <2>1 DEF CloseInv
  <1>9. LineInv'
    <2>1. ASSUME NEW m \in Tasks, m # n, client'[m] # "gone"
          PROVE  Line(m)' = Numbers(entered'[m])
      <3>1. Line(m) = Numbers(entered[m])
        BY <1>3, <1>4, <2>1 DEF LineInv
      <3>2. Line(m)' = Line(m) /\ entered'[m] = entered[m]
        BY <1>2, <2>1 DEF Line
      <3> QED
        BY <3>1, <3>2
    <2>2. client'[n] # "gone" => Line(n)' = Numbers(entered'[n])
      BY <1>2, <1>3, <1>4 DEF LineInv
    <2> QED
      BY <2>1, <2>2 DEF LineInv
  <1> QED
    BY <1>5, <1>6, <1>8, <1>9
-----------------------------------------------------------------------------
(* What a worker holds are bytes.                                          *)
LEMMA CarriedType ==
  ASSUME EchoTyping, NEW n \in Tasks
  PROVE  Carried(n) \in Seq(Nat)
  <1>1. CASE Writers(n) = {}
    BY <1>1, EmptySeq DEF Carried
  <1>2. CASE Writers(n) # {}
    <2>1. PICK w \in Workers : w = CHOOSE v \in Writers(n) : TRUE
      BY <1>2 DEF Writers
    <2> QED
      BY <1>2, <2>1 DEF Carried, EchoTyping
  <1> QED
    BY <1>1, <1>2

(* The parts of a line when bytes are written back or entered.             *)
LEMMA PartWritten ==
  ASSUME NEW S, NEW s \in Seq(S), NEW c \in Seq(S), NEW h \in Seq(S), NEW r \in Seq(S)
  PROVE  Cat(Cat(s, Cat(c, h)), Cat(<<>>, r)) = Cat(Cat(s, c), Cat(h, r))
  <1>1. Cat(<<>>, r) = r
    BY CatEmpty
  <1>2. Cat(s, Cat(c, h)) = Cat(Cat(s, c), h)
    BY CatAssociative
  <1>3. Cat(s, c) \in Seq(S)
    BY CatType
  <1>4. Cat(Cat(Cat(s, c), h), r) = Cat(Cat(s, c), Cat(h, r))
    BY <1>3, CatAssociative
  <1> QED
    BY <1>1, <1>2, <1>4

LEMMA PartEntered ==
  ASSUME NEW S, NEW s \in Seq(S), NEW c \in Seq(S), NEW h \in Seq(S), NEW r \in Seq(S),
         NEW x \in Seq(S)
  PROVE  Cat(Cat(s, c), Cat(h, Cat(r, x))) = Cat(Cat(Cat(s, c), Cat(h, r)), x)
  <1>1. Cat(s, c) \in Seq(S) /\ Cat(h, r) \in Seq(S)
    BY CatType
  <1>2. Cat(h, Cat(r, x)) = Cat(Cat(h, r), x)
    BY CatAssociative
  <1>3. Cat(Cat(Cat(s, c), Cat(h, r)), x) = Cat(Cat(s, c), Cat(Cat(h, r), x))
    BY <1>1, CatAssociative
  <1> QED
    BY <1>2, <1>3

(* A line is entered: the numbers go on at the end of the stream.          *)
LEMMA EnterStep ==
  ASSUME EchoInv, NEW n \in Tasks, Enter(n)
  PROVE  EchoTyping' /\ BootInv' /\ CloseInv' /\ LineInv'
  <1>1. PICK k \in 0 .. MaxLine :
          /\ entered[n] + k <= MaxBytes[n]
          /\ entered' = [entered EXCEPT ![n] = @ + k]
          /\ stream' = [stream EXCEPT ![n].server = @ \o [j \in 1 .. k |-> entered[n] + j]]
    BY DEF Enter
  <1> DEFINE m == entered[n]
             more == [j \in 1 .. k |-> m + j]
             old == stream[n].server
  <1>2. EchoTyping
    BY DEF EchoInv
  <1>3. stream \in [Tasks -> Lines] /\ stream[n] \in Lines /\ old \in Seq(Nat) /\ m \in Nat
        /\ stream[n].client \in Seq(Nat) /\ k \in Nat /\ shown[n] \in Seq(Nat)
    BY <1>2 DEF EchoTyping, Lines
  <1>4. more \in Seq(Nat) /\ Cat(Numbers(m), more) = Numbers(m + k)
    BY <1>3, NumbersGoOn
  <1>5. Cat(old, more) \in Seq(Nat) /\ stream' = [stream EXCEPT ![n].server = Cat(old, more)]
    <2>1. stream' = [stream EXCEPT ![n].server = old \o more]
      BY <1>1
    <2>2. Cat(old, more) = old \o more
      BY DEF Cat
    <2>3. Cat(old, more) \in Seq(Nat)
      BY <1>3, <1>4, CatType
    <2> HIDE DEF old, more
    <2> QED
      BY <2>1, <2>2, <2>3
  <1>6. entered' \in [Tasks -> Nat] /\ entered'[n] = m + k
        /\ \A i \in Tasks \ {n} : entered'[i] = entered[i]
    BY <1>1, <1>2, <1>3 DEF EchoTyping
  <1> HIDE DEF m, more, old
  <1>7. /\ stream' \in [Tasks -> Lines]
        /\ stream'[n].server = Cat(old, more) /\ stream'[n].client = stream[n].client
        /\ \A i \in Tasks \ {n} : stream'[i] = stream[i]
    BY <1>3, <1>5, ToServer
  <1>8. Line(n) = Numbers(entered[n]) /\ Carried(n)' = Carried(n)
          => Line(n)' = Numbers(entered'[n])
    <2> SUFFICES ASSUME Line(n) = Numbers(m), Carried(n)' = Carried(n)
                 PROVE  Line(n)' = Numbers(m + k)
      BY <1>6 DEF m
    <2>1. shown' = shown
      BY DEF Enter
    <2>2. Line(n)' = Cat(Cat(shown[n], stream[n].client), Cat(Carried(n), Cat(old, more)))
      BY <1>7, <2>1 DEF Line
    <2>3. Line(n) = Cat(Cat(shown[n], stream[n].client), Cat(Carried(n), old))
      BY DEF Line, old
    <2>4. Carried(n) \in Seq(Nat)
      BY <1>2, CarriedType
    <2>5. Cat(Cat(shown[n], stream[n].client), Cat(Carried(n), Cat(old, more)))
            = Cat(Cat(Cat(shown[n], stream[n].client), Cat(Carried(n), old)), more)
      <3> DEFINE sh == shown[n]
                 cl == stream[n].client
                 ca == Carried(n)
      <3>1. sh \in Seq(Nat) /\ cl \in Seq(Nat) /\ ca \in Seq(Nat)
        BY <1>3, <2>4
      <3> HIDE DEF sh, cl, ca
      <3>2. Cat(Cat(sh, cl), Cat(ca, Cat(old, more))) = Cat(Cat(Cat(sh, cl), Cat(ca, old)), more)
        BY <1>3, <1>4, <3>1, PartEntered
      <3> QED
        BY <3>2 DEF sh, cl, ca
    <2> QED
      BY <1>4, <2>2, <2>3, <2>5
  <1>9. /\ client[n] \in {"prompt", "wait"} /\ client' = [client EXCEPT ![n] = "wait"]
        /\ UNCHANGED <<pool, boot, arrived, shown, session>>
    BY DEF Enter
  <1>10. entered'[n] <= MaxBytes[n] /\ shown' \in [Tasks -> Seq(Nat)]
    BY <1>1, <1>2, <1>6, <1>9 DEF EchoTyping, m
  <1> QED
    BY <1>6, <1>7, <1>8, <1>9, <1>10, ClientMoves

(* The client prints what it has read.                                     *)
LEMMA ShowStep ==
  ASSUME EchoAssumption, EchoInv, NEW n \in Tasks, Show(n)
  PROVE  EchoTyping' /\ BootInv' /\ CloseInv' /\ LineInv'
  <1> DEFINE bytes == stream[n].client
             sh == shown[n]
  <1>1. PICK k \in 1 .. Min({BufSize, Len(bytes)}) :
          /\ shown' = [shown EXCEPT ![n] = @ \o SubSeq(bytes, 1, k)]
          /\ stream' = [stream EXCEPT ![n].client = SubSeq(bytes, k + 1, Len(bytes))]
    BY DEF Show
  <1> DEFINE first == SubSeq(bytes, 1, k)
             rest == SubSeq(bytes, k + 1, Len(bytes))
  <1>2. EchoTyping
    BY DEF EchoInv
  <1>3. /\ stream \in [Tasks -> Lines] /\ stream[n] \in Lines
        /\ bytes \in Seq(Nat) /\ sh \in Seq(Nat)
    BY <1>2 DEF EchoTyping, Lines
  <1>4. first \in Seq(Nat) /\ rest \in Seq(Nat) /\ bytes = Cat(first, rest)
    BY <1>3, CutInTwo DEF EchoAssumption
  <1>5. /\ shown' = [shown EXCEPT ![n] = Cat(sh, first)]
        /\ stream' = [stream EXCEPT ![n].client = rest]
    <2>1. shown' = [shown EXCEPT ![n] = sh \o first]
      BY <1>1
    <2> HIDE DEF first
    <2> QED
      BY <1>1, <2>1 DEF Cat
  <1> HIDE DEF first, rest, bytes, sh
  <1>6. Cat(sh, first) \in Seq(Nat)
    BY <1>3, <1>4, CatType
  <1>7. /\ stream' \in [Tasks -> Lines]
        /\ stream'[n].client = rest /\ stream'[n].server = stream[n].server
        /\ \A i \in Tasks \ {n} : stream'[i] = stream[i]
    BY <1>3, <1>4, <1>5, ToClient
  <1>8. /\ shown' \in [Tasks -> Seq(Nat)] /\ shown'[n] = Cat(sh, first)
        /\ \A i \in Tasks \ {n} : shown'[i] = shown[i]
    BY <1>2, <1>5, <1>6 DEF EchoTyping
  <1>9. /\ client[n] \in {"prompt", "wait"} /\ client' = [client EXCEPT ![n] = "prompt"]
        /\ UNCHANGED <<pool, boot, arrived, entered, session>>
    BY DEF Show
  <1>10. Line(n) = Numbers(entered[n]) /\ Carried(n)' = Carried(n)
           => Line(n)' = Numbers(entered'[n])
    <2> SUFFICES ASSUME Carried(n)' = Carried(n)
                 PROVE  Line(n)' = Line(n)
      BY <1>9
    <2>1. Line(n)' = Cat(Cat(Cat(sh, first), rest), Cat(Carried(n), stream[n].server))
      BY <1>7, <1>8 DEF Line
    <2>2. Line(n) = Cat(Cat(sh, bytes), Cat(Carried(n), stream[n].server))
      BY DEF Line, sh, bytes
    <2>3. Cat(Cat(sh, first), rest) = Cat(sh, Cat(first, rest))
      BY <1>3, <1>4, CatAssociative
    <2> QED
      BY <1>4, <2>1, <2>2, <2>3
  <1>11. entered' \in [Tasks -> Nat] /\ entered'[n] <= MaxBytes[n]
         /\ \A i \in Tasks \ {n} : entered'[i] = entered[i]
    BY <1>2, <1>9 DEF EchoTyping
  <1> QED
    BY <1>7, <1>8, <1>9, <1>10, <1>11, ClientMoves

(* A client leaves or ends.                                                *)
LEMMA GoneStep ==
  ASSUME EchoAssumption, EchoInv, NEW n \in Tasks, ClientEnd(n) \/ LeaveEcho(n)
  PROVE  EchoTyping' /\ BootInv' /\ CloseInv' /\ LineInv'
  <1>1. EchoTyping
    BY DEF EchoInv
  <1>2. /\ client[n] \in {"prompt", "wait"} /\ client' = [client EXCEPT ![n] = "gone"]
        /\ UNCHANGED <<pool, boot, arrived, session>>
    BY DEF ClientEnd, LeaveEcho
  <1>3. /\ entered' \in [Tasks -> Nat] /\ entered'[n] <= MaxBytes[n]
        /\ shown' \in [Tasks -> Seq(Nat)]
        /\ \A i \in Tasks \ {n} : shown'[i] = shown[i] /\ entered'[i] = entered[i]
    <2>1. CASE ClientEnd(n)
      BY <1>1, <2>1 DEF ClientEnd, EchoTyping
    <2>2. CASE LeaveEcho(n)
      <3>1. entered' = [entered EXCEPT ![n] = 0] /\ shown' = [shown EXCEPT ![n] = <<>>]
        BY <2>2 DEF LeaveEcho
      <3>2. <<>> \in Seq(Nat) /\ MaxBytes[n] \in Nat
        BY EmptySeq DEF EchoAssumption
      <3>3. entered' \in [Tasks -> Nat] /\ entered'[n] <= MaxBytes[n]
        BY <1>1, <3>1, <3>2 DEF EchoTyping
      <3>4. shown' \in [Tasks -> Seq(Nat)]
        BY <1>1, <3>1, <3>2 DEF EchoTyping
      <3>5. \A i \in Tasks \ {n} : shown'[i] = shown[i] /\ entered'[i] = entered[i]
        BY <1>1, <3>1 DEF EchoTyping
      <3> QED
        BY <3>3, <3>4, <3>5
    <2> QED
      BY <2>1, <2>2
  <1>4. <<>> \in Seq(Nat) /\ stream \in [Tasks -> Lines]
    BY <1>1, EmptySeq DEF EchoTyping, Lines
  <1>5. stream' \in [Tasks -> Lines] /\ \A i \in Tasks \ {n} : stream'[i] = stream[i]
    <2>1. CASE stream' = stream
      BY <1>4, <2>1
    <2>2. CASE stream' = [stream EXCEPT ![n] = NoBytes]
      BY <1>4, <2>2 DEF NoBytes, Lines
    <2>3. CASE stream' = [stream EXCEPT ![n].client = <<>>]
      BY <1>4, <2>3, ToClient
    <2> QED
      BY <2>1, <2>2, <2>3 DEF ClientEnd, LeaveEcho
  <1> QED
    BY <1>2, <1>3, <1>5, ClientMoves
-----------------------------------------------------------------------------
(* A worker reads or writes: it alone serves its connection, and what is   *)
(* held of the others stays.                                               *)
LEMMA OneWrites ==
  ASSUME EchoInv, NEW w \in Workers, pc[w] = "execute", UNCHANGED <<pc, got>>,
         \A v \in Workers \ {w} : io'[v] = io[v] /\ buff'[v] = buff[v]
  PROVE  /\ got[w] \in Tasks
         /\ \A m \in Tasks \ {got[w]} : Carried(m)' = Carried(m)
         /\ Carried(got[w]) = IF io[w] = "write" THEN buff[w] ELSE <<>>
         /\ Carried(got[w])' = IF io'[w] = "write" THEN buff'[w] ELSE <<>>
  <1> DEFINE n == got[w]
  <1>1. n \in Tasks /\ PoolInv
    BY DEF EchoInv, PoolInv, PoolType, Carrying
  <1>2. \A v \in Workers : Serves(v, n) <=> v = w
    BY <1>1, Alone DEF Serves
  <1>3. Writers(n) = IF io[w] = "write" THEN {w} ELSE {}
    BY <1>2 DEF Writers
  <1>4. Writers(n)' = IF io'[w] = "write" THEN {w} ELSE {}
    <2>1. \A v \in Workers : Serves(v, n)' <=> v = w
      BY <1>2 DEF Serves
    <2> QED
      BY <2>1 DEF Writers
  <1>5. ASSUME NEW m \in Tasks \ {n}
        PROVE  Carried(m)' = Carried(m)
    <2>1. w \notin Writers(m) /\ Writers(m)' = Writers(m)
      BY <1>5 DEF Writers, Serves
    <2>2. CASE Writers(m) = {}
      BY <2>1, <2>2 DEF Carried
    <2>3. CASE Writers(m) # {}
      <3>1. PICK v : v = CHOOSE u \in Writers(m) : TRUE
        OBVIOUS
      <3>2. v \in Writers(m) /\ v # w /\ v \in Workers
        BY <2>1, <2>3, <3>1 DEF Writers
      <3>3. buff'[v] = buff[v]
        BY <3>2
      <3> QED
        BY <2>1, <2>3, <3>1, <3>3 DEF Carried
    <2> QED
      BY <2>2, <2>3
  <1>6. Carried(n) = IF io[w] = "write" THEN buff[w] ELSE <<>>
    BY <1>3 DEF Carried
  <1>7. Carried(n)' = IF io'[w] = "write" THEN buff'[w] ELSE <<>>
    BY <1>4 DEF Carried
  <1> QED
    BY <1>1, <1>5, <1>6, <1>7

(* Then the line of that connection alone has to be looked at.             *)
LEMMA WorkerMovesLine ==
  ASSUME EchoInv, NEW w \in Workers, pc[w] = "execute",
         UNCHANGED <<pc, got, submitted, ran, aborted, boot, clients, fds>>,
         NEW next \in {"read", "write"}, io' = [io EXCEPT ![w] = next],
         NEW x \in Seq(Nat), buff' = [buff EXCEPT ![w] = x],
         stream' \in [Tasks -> Lines],
         \A m \in Tasks \ {got[w]} : stream'[m] = stream[m],
         client[got[w]] # "gone" => Line(got[w])' = Line(got[w])
  PROVE  EchoTyping' /\ BootInv' /\ CloseInv' /\ LineInv'
  <1>1. EchoTyping /\ BootInv /\ CloseInv /\ LineInv
    BY DEF EchoInv
  <1>2. UNCHANGED <<stage, sigpipe, arrived, client, entered, shown>>
    BY DEF boot, clients
  <1>3. /\ io'[w] = next
        /\ \A v \in Workers \ {w} : io'[v] = io[v] /\ buff'[v] = buff[v]
    BY <1>1 DEF EchoTyping
  <1>4. EchoTyping'
    BY <1>1, <1>2 DEF EchoTyping, Lines
  <1>5. BootInv'
    BY <1>1, <1>2 DEF BootInv
  <1>6. CloseInv'
    <2>1. \A v \in Workers : /\ pc[v] # "execute" => io'[v] = "read"
                             /\ io'[v] = "close" => client[got[v]] = "gone"
      BY <1>1, <1>3 DEF CloseInv
    <2> QED
      BY <1>1, <1>2, <2>1 DEF CloseInv
  <1>7. LineInv'
    <2> SUFFICES ASSUME NEW m \in Tasks, client[m] # "gone"
                 PROVE  Line(m)' = Line(m)
      BY <1>1, <1>2 DEF LineInv
    <2>1. CASE m = got[w]
      BY <2>1
    <2>2. CASE m # got[w]
      <3>1. Carried(m)' = Carried(m)
        BY <1>3, <2>2, OneWrites
      <3> QED
        BY <1>2, <2>2, <3>1 DEF Line
    <2> QED
      BY <2>1, <2>2
  <1> QED
    BY <1>4, <1>5, <1>6, <1>7

(* read: the first bytes of the stream go into the buffer.                 *)
LEMMA ReadStep ==
  ASSUME EchoAssumption, EchoInv, NEW w \in Workers, ReadSome(w)
  PROVE  EchoTyping' /\ BootInv' /\ CloseInv' /\ LineInv'
  <1> DEFINE n == got[w]
             bytes == stream[n].server
  <1>1. PICK k \in 1 .. Min({BufSize, Len(bytes)}) :
          /\ buff' = [buff EXCEPT ![w] = SubSeq(bytes, 1, k)]
          /\ stream' = [stream EXCEPT ![n].server = SubSeq(bytes, k + 1, Len(bytes))]
    BY DEF ReadSome
  <1> DEFINE first == SubSeq(bytes, 1, k)
             rest == SubSeq(bytes, k + 1, Len(bytes))
  <1>2. /\ EchoTyping /\ pc[w] = "execute" /\ io[w] = "read"
        /\ io' = [io EXCEPT ![w] = "write"]
        /\ UNCHANGED <<pc, got, submitted, ran, aborted, boot, clients, fds, shown>>
    BY DEF EchoInv, ReadSome, pool, vars, progress, clients
  <1>3. n \in Tasks /\ n' = n
    BY <1>2 DEF EchoInv, PoolInv, PoolType, Carrying
  <1>4. stream \in [Tasks -> Lines] /\ stream[n] \in Lines /\ bytes \in Seq(Nat)
    BY <1>2, <1>3 DEF EchoTyping, Lines
  <1>5. first \in Seq(Nat) /\ rest \in Seq(Nat) /\ bytes = Cat(first, rest)
    BY <1>4, CutInTwo DEF EchoAssumption
  <1>6. buff' = [buff EXCEPT ![w] = first] /\ stream' = [stream EXCEPT ![n].server = rest]
    BY <1>1
  <1> HIDE DEF first, rest, bytes, n
  <1>7. /\ stream' \in [Tasks -> Lines]
        /\ stream'[n].server = rest /\ stream'[n].client = stream[n].client
        /\ \A i \in Tasks \ {n} : stream'[i] = stream[i]
    BY <1>3, <1>4, <1>5, <1>6, ToServer
  <1>8. /\ io'[w] = "write" /\ buff'[w] = first
        /\ \A v \in Workers \ {w} : io'[v] = io[v] /\ buff'[v] = buff[v]
    BY <1>2, <1>6 DEF EchoTyping
  <1>9. Carried(n) = <<>> /\ Carried(n)' = first
    BY <1>2, <1>8, OneWrites DEF n
  <1>10. Line(n)' = Line(n)
    <2>1. Line(n)' = Cat(Cat(shown[n], stream[n].client), Cat(first, rest))
      BY <1>2, <1>3, <1>7, <1>9 DEF Line
    <2>2. Line(n) = Cat(Cat(shown[n], stream[n].client), Cat(<<>>, bytes))
      BY <1>9 DEF Line, bytes
    <2>3. Cat(<<>>, bytes) = bytes
      BY <1>4, CatEmpty
    <2> QED
      BY <1>5, <2>1, <2>2, <2>3
  <1> QED
    BY <1>2, <1>5, <1>6, <1>7, <1>10, WorkerMovesLine DEF n

(* write: what the worker holds goes to the client, if it is there.        *)
LEMMA EchoStep ==
  ASSUME EchoInv, NEW w \in Workers, Echo(w)
  PROVE  EchoTyping' /\ BootInv' /\ CloseInv' /\ LineInv'
  <1> DEFINE n == got[w]
             held == buff[w]
             back == stream[n].client
  <1>1. /\ EchoTyping /\ pc[w] = "execute" /\ io[w] = "write" /\ ~aborted
        /\ io' = [io EXCEPT ![w] = "read"] /\ buff' = [buff EXCEPT ![w] = <<>>]
        /\ UNCHANGED <<pc, got, submitted, ran, boot, clients, fds, shown>>
    BY DEF EchoInv, Echo, clients
  <1>2. aborted' = aborted
    <2>1. sigpipe = "ignore" /\ aborted \in BOOLEAN
      BY <1>1 DEF EchoInv, BootInv, PoolInv, FlagType
    <2> QED
      BY <1>1, <2>1 DEF Echo
  <1>3. n \in Tasks /\ n' = n
    BY <1>1 DEF EchoInv, PoolInv, PoolType, Carrying
  <1>4. /\ stream \in [Tasks -> Lines] /\ stream[n] \in Lines /\ held \in Seq(Nat)
        /\ back \in Seq(Nat) /\ stream[n].server \in Seq(Nat) /\ shown[n] \in Seq(Nat)
        /\ <<>> \in Seq(Nat)
    BY <1>1, <1>3, EmptySeq DEF EchoTyping, Lines
  <1>5. CASE client[n] = "gone"
    <2>1. stream' = stream
      BY <1>5 DEF Echo
    <2> QED
      BY <1>1, <1>2, <1>4, <1>5, <2>1, WorkerMovesLine
  <1>6. CASE client[n] # "gone"
    <2>1. stream' = [stream EXCEPT ![n].client = Cat(back, held)]
      <3>1. stream' = [stream EXCEPT ![n].client = back \o held]
        BY <1>6 DEF Echo
      <3> QED
        BY <3>1 DEF Cat
    <2> HIDE DEF n, held, back
    <2>2. Cat(back, held) \in Seq(Nat)
      BY <1>4, CatType
    <2>3. /\ stream' \in [Tasks -> Lines]
          /\ stream'[n].client = Cat(back, held) /\ stream'[n].server = stream[n].server
          /\ \A i \in Tasks \ {n} : stream'[i] = stream[i]
      BY <1>3, <1>4, <2>1, <2>2, ToClient
    <2>4. /\ io'[w] = "read" /\ buff'[w] = <<>>
          /\ \A v \in Workers \ {w} : io'[v] = io[v] /\ buff'[v] = buff[v]
      BY <1>1 DEF EchoTyping
    <2>5. Carried(n) = held /\ Carried(n)' = <<>>
      BY <1>1, <2>4, OneWrites DEF n, held
    <2>6. Line(n)' = Line(n)
      <3>1. Line(n)' = Cat(Cat(shown[n], Cat(back, held)), Cat(<<>>, stream[n].server))
        BY <1>1, <1>3, <2>3, <2>5 DEF Line
      <3>2. Line(n) = Cat(Cat(shown[n], back), Cat(held, stream[n].server))
        BY <2>5 DEF Line, back
      <3>3. Cat(Cat(shown[n], Cat(back, held)), Cat(<<>>, stream[n].server))
              = Cat(Cat(shown[n], back), Cat(held, stream[n].server))
        BY <1>4, PartWritten
      <3> QED
        BY <3>1, <3>2, <3>3
    <2> QED
      BY <1>1, <1>2, <1>4, <2>3, <2>6, WorkerMovesLine DEF n
  <1> QED
    BY <1>5, <1>6

(* The end of the input, and close.                                        *)
LEMMA EndStep ==
  ASSUME EchoInv, NEW w \in Workers, ReadEnd(w) \/ CloseEcho(w)
  PROVE  EchoTyping' /\ BootInv' /\ CloseInv' /\ LineInv'
  <1> USE Kinds
  <1>1. EchoTyping /\ BootInv /\ CloseInv /\ LineInv /\ PoolType /\ ~aborted
    BY DEF EchoInv, PoolInv, BootInv
  <1>2. /\ pc[w] = "execute" /\ io[w] # "write" /\ got[w] \in Tasks
        /\ UNCHANGED <<got, submitted, aborted, boot, clients, stream, buff>>
    <2>1. pc[w] = "execute" /\ io[w] # "write"
      BY DEF ReadEnd, CloseEcho, Execute, Goto
    <2>2. got[w] \in Tasks
      BY <1>1, <2>1 DEF PoolType, Carrying
    <2> QED
      BY <2>1, <2>2 DEF ReadEnd, CloseEcho, Execute, pool, vars, progress
  <1>3. UNCHANGED <<stage, sigpipe, arrived, client, entered, shown>>
    BY <1>2 DEF boot, clients
  <1>4. /\ client[got[w]] = "gone"
        /\ \/ /\ io' = [io EXCEPT ![w] = "close"] /\ UNCHANGED <<pc, ran, fds>>
           \/ /\ io' = [io EXCEPT ![w] = "read"] /\ pc' = [pc EXCEPT ![w] = "lock"]
              /\ ran' = [ran EXCEPT ![got[w]] = @ + 1] /\ fds' = fds \ {got[w]}
    <2>1. CASE ReadEnd(w)
      BY <2>1 DEF ReadEnd, pool, vars, progress
    <2>2. CASE CloseEcho(w)
      BY <1>1, <2>2 DEF CloseEcho, Execute, Goto, CloseInv
    <2> QED
      BY <2>1, <2>2
  <1>5. /\ io' \in [Workers -> {"read", "write", "close"}] /\ io'[w] # "write"
        /\ io'[w] = "close" => pc'[w] = "execute"
        /\ \A v \in Workers \ {w} : io'[v] = io[v] /\ pc'[v] = pc[v]
        /\ pc'[w] # "execute" => io'[w] = "read"
    BY <1>1, <1>2, <1>4 DEF EchoTyping, PoolType
  <1>6. EchoTyping'
    <2>1. fds' \subseteq Tasks
      BY <1>1, <1>4 DEF EchoTyping
    <2> QED
      BY <1>1, <1>2, <1>3, <1>5, <2>1 DEF EchoTyping
  <1>7. BootInv'
    <2>1. stage = "serve"
      BY <1>1, <1>2 DEF BootInv
    <2> QED
      BY <1>1, <1>2, <1>3, <2>1 DEF BootInv
  <1>8. CloseInv'
    <2>1. fds' = {n \in Tasks : n <= submitted /\ ran'[n] = 0}
      <3>1. CASE UNCHANGED <<ran, fds>>
        BY <1>1, <3>1 DEF CloseInv
      <3>2. CASE ran' = [ran EXCEPT ![got[w]] = @ + 1] /\ fds' = fds \ {got[w]}
        <4>1. /\ ran'[got[w]] # 0
              /\ \A n \in Tasks \ {got[w]} : ran'[n] = ran[n]
          BY <1>1, <1>2, <3>2 DEF PoolType
        <4>2. fds = {n \in Tasks : n <= submitted /\ ran[n] = 0}
          BY <1>1 DEF CloseInv
        <4> QED
          BY <3>2, <4>1, <4>2
      <3> QED
        BY <1>4, <3>1, <3>2
    <2>2. \A n \in Tasks : n <= submitted /\ n \notin fds' => client[n] = "gone"
      BY <1>1, <1>4 DEF CloseInv
    <2>3. \A v \in Workers : /\ pc'[v] # "execute" => io'[v] = "read"
                             /\ io'[v] = "close" => client[got[v]] = "gone"
      BY <1>1, <1>4, <1>5 DEF CloseInv
    <2> QED
      BY <1>1, <1>2, <1>3, <2>1, <2>2, <2>3 DEF CloseInv
  <1>9. LineInv'
    <2>1. ASSUME NEW n \in Tasks PROVE Carried(n)' = Carried(n)
      <3>1. \A v \in Workers :
              (Serves(v, n) /\ io[v] = "write")' <=> (Serves(v, n) /\ io[v] = "write")
        BY <1>2, <1>5 DEF Serves
      <3> QED
        BY <1>2, <3>1, CarriedSame
    <2>2. \A n \in Tasks : Line(n)' = Line(n)
      BY <1>2, <1>3, <2>1 DEF Line
    <2> QED
      BY <1>1, <1>3, <2>2 DEF LineInv
  <1> QED
    BY <1>6, <1>7, <1>8, <1>9

(* Each step, or none.                                                     *)
LEMMA EchoNextInv ==
  ASSUME EchoAssumption, EchoInv, [EchoNext]_echoVars
  PROVE  EchoInv'
  <1>1. PoolInv'
    BY EchoIsPool DEF EchoInv
  <1>2. CASE UNCHANGED echoVars
    <2>1. UNCHANGED <<pool, boot, clients, stream, session>>
      BY <1>2 DEF echoVars, pool
    <2>2. /\ UNCHANGED <<pc, got, submitted, ran, aborted, fds, io, buff>>
          /\ \A n \in Tasks : Carried(n)' = Carried(n)
      BY <2>1, PoolSame
    <2>3. UNCHANGED <<stage, sigpipe, arrived, client, entered, shown, stream>>
      BY <2>1 DEF boot, clients
    <2>4. EchoTyping' /\ BootInv' /\ CloseInv'
      BY <2>2, <2>3 DEF EchoInv, EchoTyping, BootInv, CloseInv
    <2>5. \A n \in Tasks : Line(n)' = Line(n)
      BY <2>2, <2>3 DEF Line
    <2>6. LineInv'
      BY <2>3, <2>5 DEF EchoInv, LineInv
    <2> QED
      BY <1>1, <2>4, <2>6 DEF EchoInv
  <1>3. CASE PoolMove
    BY <1>1, <1>3, PoolMoveInv DEF EchoInv
  <1>4. CASE initEcho \/ daemonSelf \/ ConnectEcho
    BY <1>1, <1>4, BootStep, ConnectStep DEF EchoInv
  <1>5. ASSUME NEW w \in Workers, serverIO(w)
        PROVE  EchoTyping' /\ BootInv' /\ CloseInv' /\ LineInv'
    BY <1>5, ReadStep, EchoStep, EndStep DEF serverIO
  <1>6. ASSUME NEW n \in Tasks, Client_(n) \/ Enter(n) \/ LeaveEcho(n)
        PROVE  EchoTyping' /\ BootInv' /\ CloseInv' /\ LineInv'
    BY <1>6, ShowStep, GoneStep, EnterStep DEF Client_
  <1>7. CASE \/ \E w \in Workers : serverIO(w)
             \/ \E n \in Tasks : Client_(n) \/ Enter(n) \/ LeaveEcho(n)
    BY <1>1, <1>5, <1>6, <1>7 DEF EchoInv
  <1> QED
    BY <1>2, <1>3, <1>4, <1>7 DEF EchoNext, Main_, Worker_, PoolMove

(* Echoed, from the bytes grouped.                                         *)
LEMMA LineInvSafe ==
  ASSUME EchoInv
  PROVE  Echoed
  <1> SUFFICES ASSUME NEW n \in 1 .. arrived, client[n] # "gone"
               PROVE  shown[n] \o stream[n].client \o Carried(n) \o stream[n].server
                        = Numbers(entered[n])
    BY DEF Echoed, Carried, Writers, Numbers
  <1> DEFINE s == shown[n]
             c == stream[n].client
             h == Carried(n)
             r == stream[n].server
  <1>1. n \in Tasks /\ EchoTyping
    <2>1. EchoTyping /\ arrived \in 0 .. MaxTasks
      BY DEF EchoInv, EchoTyping
    <2> QED
      BY <2>1, Kinds DEF Tasks
  <1>2. s \in Seq(Nat) /\ c \in Seq(Nat) /\ h \in Seq(Nat) /\ r \in Seq(Nat)
    BY <1>1, CarriedType DEF EchoTyping
  <1>3. Line(n) = Cat(Cat(s, c), Cat(h, r)) /\ Line(n) = Numbers(entered[n])
    BY <1>1 DEF EchoInv, LineInv, Line
  <1> HIDE DEF s, c, h, r
  <1>4. Cat(s, c) \in Seq(Nat)
    BY <1>2, CatType
  <1>5. Cat(Cat(Cat(s, c), h), r) = Cat(Cat(s, c), Cat(h, r))
    BY <1>2, <1>4, CatAssociative
  <1>6. Cat(Cat(Cat(s, c), h), r) = s \o c \o h \o r
    BY DEF Cat
  <1> QED
    BY <1>3, <1>5, <1>6 DEF s, c, h, r

(* The bytes of a connection come back in their order; a descriptor is     *)
(* open from accept until its session ends, which is after its client left *)
(* and has one worker; and a client that leaves does not end the server    *)
(* (Task.hpp:9-32, tcpServer.hpp:95-137, daemon.hpp:18).                   *)
THEOREM EchoesEverything ==
  ASSUME EchoAssumption
  PROVE  EchoSpec => []EchoSafe
  <1>1. EchoInv /\ [EchoNext]_echoVars => EchoInv'
    BY EchoNextInv
  <1>2. EchoInit => EchoInv
    BY EchoInitInv
  <1>3. EchoInv => EchoSafe
    <2> SUFFICES ASSUME EchoInv PROVE EchoSafe
      OBVIOUS
    <2>1. EchoTypeOK
      <3>1. TypeOK
        BY TypingFromParts DEF EchoInv, PoolInv
      <3>2. \A n \in Tasks : entered[n] \in 0 .. MaxBytes[n]
        BY DEF EchoInv, EchoTyping, EchoAssumption
      <3> QED
        BY <3>1, <3>2, Zenon DEF EchoInv, EchoTyping, EchoTypeOK
    <2>2. SocketsClosed
      <3>1. fds = {n \in Tasks : n <= submitted /\ ran[n] = 0} /\ submitted \in 0 .. MaxTasks
        BY DEF EchoInv, CloseInv, PoolInv, PoolType
      <3>2. fds = {n \in 1 .. submitted : ran[n] = 0}
        BY <3>1, Kinds DEF Tasks
      <3>3. \A n \in 1 .. submitted : n \notin fds => client[n] = "gone"
        BY <3>1, Kinds DEF EchoInv, CloseInv, Tasks
      <3>4. \A v, w \in Workers, n \in Tasks : Serves(v, n) /\ Serves(w, n) => v = w
        BY Alone DEF EchoInv
      <3> QED
        BY <3>2, <3>3, <3>4 DEF SocketsClosed
    <2>3. Echoed /\ ServerSurvives
      BY LineInvSafe DEF EchoInv, BootInv, ServerSurvives
    <2> QED
      BY <2>1, <2>2, <2>3 DEF EchoSafe
  <1> QED
    BY <1>1, <1>2, <1>3, PTL DEF EchoSpec
=============================================================================
