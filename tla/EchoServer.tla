----------------------------- MODULE EchoServer -----------------------------
(***************************************************************************)
(* The echo server of network_code/socket_tcp on its thread pool.  main    *)
(* makes the listening socket, becomes a daemon, starts the workers (the   *)
(* fork comes before them: a forked process has no other threads), accepts *)
(* connections and pushes one task for each.  The task is serverIO, which  *)
(* keeps its worker until the client leaves.  The pool is module           *)
(* ThreadPool: connection n is its task n, executed step by step here.     *)
(*                                                                         *)
(* The bytes of a connection are numbered in the order they were entered.  *)
(***************************************************************************)
EXTENDS ThreadPool, FiniteSetsExt, SequencesExt

CONSTANTS
  BufSize,    \* what one read takes at most (1023 bytes in the code)
  MaxLine,    \* bound on the length of a line (none in the code)
  MaxBytes    \* MaxBytes[n]: bound on what user n enters (none in the code)

EchoAssumption ==
  BufSize \in Nat \ {0} /\ MaxLine \in Nat /\ MaxBytes \in [Tasks -> Nat] /\ Bad = {}

VARIABLES
  stage,      \* how far main is
  sigpipe,    \* what SIGPIPE does: "end" the process or "ignore"
  arrived,    \* how many connections have been made
  client,     \* client[n]: what the client of connection n does
  entered,    \* entered[n]: how many bytes its user has entered
  stream,     \* stream[n]: the bytes under way, to the server and back
  shown,      \* shown[n]: the bytes the client has printed
  fds,        \* the connections whose descriptor the server has open
  io,         \* io[w]: where worker w is in serverIO
  buff        \* buff[w]: what it has read and not written back

pool == vars
boot == <<stage, sigpipe>>
clients == <<arrived, client, entered, shown>>
session == <<fds, io, buff>>
echoVars == <<vars, boot, clients, stream, session>>

NoBytes == [server |-> <<>>, client |-> <<>>]

ServerGone == stage = "exited" \/ aborted

Serves(w, n) == pc[w] = "execute" /\ got[w] = n

EchoTypeOK ==
  /\ TypeOK
  /\ stage \in {"socket", "bind", "listen", "daemon", "serve", "exited"}
  /\ arrived \in 0 .. MaxTasks
  /\ client \in [Tasks -> {"none", "prompt", "wait", "gone"}]
  /\ \A n \in Tasks : entered[n] \in 0 .. MaxBytes[n]
  /\ fds \subseteq Tasks
  /\ io \in [Workers -> {"read", "write", "close"}]

EchoInit ==
  /\ Init
  /\ stage = "socket" /\ sigpipe = "end"
  /\ arrived = 0
  /\ client = [n \in Tasks |-> "none"]
  /\ entered = [n \in Tasks |-> 0]
  /\ stream = [n \in Tasks |-> NoBytes]
  /\ shown = [n \in Tasks |-> <<>>]
  /\ fds = {}
  /\ io = [w \in Workers |-> "read"]
  /\ buff = [w \in Workers |-> <<>>]
-----------------------------------------------------------------------------
(* main                                                                    *)

(* socket, bind and listen; the first that fails ends the process.         *)
initEcho ==
  /\ stage \in {"socket", "bind", "listen"}
  /\ stage' \in {"exited", CASE stage = "socket" -> "bind"
                             [] stage = "bind" -> "listen"
                             [] OTHER -> "daemon"}
  /\ UNCHANGED <<pool, sigpipe, clients, stream, session>>

SigpipeKept ==  \* mutant: daemonSelf without signal(SIGPIPE, SIG_IGN)
  /\ stage = "daemon"
  /\ stage' \in {"serve", "exited"}
  /\ UNCHANGED <<pool, sigpipe, clients, stream, session>>

(* The parent exits and the child goes on with the listening socket, on    *)
(* /dev/null.  When fork fails, setsid does too in the leader of a process *)
(* group, and the assertion ends the process.                              *)
daemonSelf ==
  /\ stage = "daemon"
  /\ stage' \in {"serve", "exited"}
  /\ sigpipe' = "ignore"
  /\ UNCHANGED <<pool, clients, stream, session>>

(* getInstance()->run(), first of all in start.                            *)
StartPool ==
  /\ stage = "serve"
  /\ Run
  /\ UNCHANGED <<boot, clients, stream, session>>

(* accept and the beginning of push(Task(sock, serverIO)).  An accept that *)
(* fails is logged, and the loop begins again.                             *)
AcceptEcho ==
  /\ stage = "serve" /\ submitted < arrived
  /\ CallPush(Main)
  /\ fds' = fds \cup {submitted + 1}
  /\ UNCHANGED <<boot, clients, stream, io, buff>>

(* The rest of push, and getInstance.                                      *)
PushStep ==
  /\ Caller(Main)
  /\ UNCHANGED <<boot, clients, stream, session>>
-----------------------------------------------------------------------------
(* The workers                                                             *)

(* handlerTask up to the call of the task.                                 *)
TakeStep(w) ==
  /\ LockTake(w) \/ Test(w) \/ Take(w) \/ UnlockTake(w)
  /\ UNCHANGED <<boot, clients, stream, session>>

Wakeup(w) ==
  /\ Spurious(w)
  /\ UNCHANGED <<boot, clients, stream, session>>

(* read with n > 0.                                                        *)
ReadSome(w) ==
  /\ pc[w] = "execute" /\ io[w] = "read" /\ ~aborted
  /\ LET bytes == stream[got[w]].server IN
     \E k \in 1 .. Min({BufSize, Len(bytes)}) :
       /\ buff' = [buff EXCEPT ![w] = SubSeq(bytes, 1, k)]
       /\ stream' = [stream EXCEPT ![got[w]].server = SubSeq(bytes, k + 1, Len(bytes))]
  /\ io' = [io EXCEPT ![w] = "write"]
  /\ UNCHANGED <<pool, boot, clients, fds>>

(* write.  To a client that is gone it raises SIGPIPE, unless the kernel   *)
(* has not heard of it yet.                                                *)
Echo(w) ==
  LET n == got[w] IN
  /\ pc[w] = "execute" /\ io[w] = "write" /\ ~aborted
  /\ \/ /\ client[n] # "gone" /\ UNCHANGED aborted
        /\ stream' = [stream EXCEPT ![n].client = @ \o buff[w]]
     \/ /\ client[n] = "gone" /\ UNCHANGED stream
        /\ aborted' \in {FALSE, sigpipe = "end"}
  /\ buff' = [buff EXCEPT ![w] = <<>>]
  /\ io' = [io EXCEPT ![w] = "read"]
  /\ UNCHANGED <<instance, tasks, mutex, pc, in, got, submitted, ran, boot, clients, fds>>

EndIgnored(w) ==  \* mutant: serverIO without the branch for n == 0
  /\ pc[w] = "execute" /\ io[w] = "read" /\ ~aborted
  /\ client[got[w]] = "gone" /\ stream[got[w]].server = <<>>
  /\ UNCHANGED echoVars

(* read returns 0; before it, -1 when the connection was reset, which only *)
(* begins the loop again.                                                  *)
ReadEnd(w) ==
  /\ pc[w] = "execute" /\ io[w] = "read" /\ ~aborted
  /\ client[got[w]] = "gone" /\ stream[got[w]].server = <<>>
  /\ io' = [io EXCEPT ![w] = "close"]
  /\ UNCHANGED <<pool, boot, clients, stream, fds, buff>>

(* close(sock), and serverIO returns to handlerTask.                       *)
CloseEcho(w) ==
  /\ io[w] = "close"
  /\ Execute(w)
  /\ fds' = fds \ {got[w]}
  /\ io' = [io EXCEPT ![w] = "read"]
  /\ UNCHANGED <<boot, clients, stream, buff>>

serverIO(w) == ReadSome(w) \/ Echo(w) \/ ReadEnd(w) \/ CloseEcho(w)
-----------------------------------------------------------------------------
(* The clients                                                             *)

(* A connect before listen is refused, and its client ends.                *)
ConnectEcho ==
  /\ stage \in {"daemon", "serve"} /\ arrived < MaxTasks
  /\ arrived' = arrived + 1
  /\ client' = [client EXCEPT ![arrived + 1] = "prompt"]
  /\ UNCHANGED <<pool, boot, entered, shown, stream, session>>

(* getline and write.  An empty line, and the end of the input, write      *)
(* nothing; what is written to a server that is gone is lost.              *)
Enter(n) ==
  /\ client[n] = "prompt"
  /\ \E k \in 0 .. MaxLine :
       /\ entered[n] + k <= MaxBytes[n]
       /\ entered' = [entered EXCEPT ![n] = @ + k]
       /\ stream' = [stream EXCEPT ![n].server = @ \o [j \in 1 .. k |-> entered[n] + j]]
  /\ client' = [client EXCEPT ![n] = "wait"]
  /\ UNCHANGED <<pool, boot, arrived, shown, session>>

(* One read, and what it took is printed as the answer to the line.        *)
Show(n) ==
  /\ client[n] = "wait"
  /\ LET bytes == stream[n].client IN
     \E k \in 1 .. Min({BufSize, Len(bytes)}) :
       /\ shown' = [shown EXCEPT ![n] = @ \o SubSeq(bytes, 1, k)]
       /\ stream' = [stream EXCEPT ![n].client = SubSeq(bytes, k + 1, Len(bytes))]
  /\ client' = [client EXCEPT ![n] = "prompt"]
  /\ UNCHANGED <<pool, boot, arrived, entered, session>>

(* read fails: the loop ends.                                              *)
ClientEnd(n) ==
  /\ client[n] = "wait" /\ ServerGone
  /\ client' = [client EXCEPT ![n] = "gone"]
  /\ UNCHANGED <<pool, boot, arrived, entered, shown, stream, session>>

(* The user ends the client, which may leave bytes unread: then the kernel *)
(* resets the connection, and what is under way to the server is lost.     *)
LeaveEcho(n) ==
  /\ client[n] \in {"prompt", "wait"}
  /\ client' = [client EXCEPT ![n] = "gone"]
  /\ \/ stream[n].client # <<>> /\ stream' = [stream EXCEPT ![n] = NoBytes]
     \/ stream' = [stream EXCEPT ![n].client = <<>>]
  /\ entered' = [entered EXCEPT ![n] = 0] /\ shown' = [shown EXCEPT ![n] = <<>>]
  /\ UNCHANGED <<pool, boot, arrived, session>>

Main_ == initEcho \/ daemonSelf \/ StartPool \/ AcceptEcho \/ PushStep

Worker_(w) == TakeStep(w) \/ serverIO(w)

Client_(n) == Show(n) \/ ClientEnd(n)

EchoNext ==
  \/ Main_ \/ ConnectEcho
  \/ \E w \in Workers : Worker_(w) \/ Wakeup(w)
  \/ \E n \in Tasks : Client_(n) \/ Enter(n) \/ LeaveEcho(n)

EchoSpec == EchoInit /\ [][EchoNext]_echoVars

(* Every thread and every client that can run runs; users need neither     *)
(* enter lines nor leave, and threads do not wake up without cause for     *)
(* ever.                                                                   *)
EchoSystem ==
  Main_ \/ (\E w \in Workers : Worker_(w)) \/ (\E n \in Tasks : Client_(n))

EchoFairSpec ==
  /\ EchoSpec
  /\ WF_echoVars(EchoSystem)
  /\ <>[][~ \E w \in Workers : Wakeup(w)]_echoVars
-----------------------------------------------------------------------------
(* The bytes of a connection come back in their order, none lost and none  *)
(* doubled, however lines are cut and joined on the way: what the client   *)
(* has printed, what is under way and what a worker holds make up what     *)
(* was entered (Task.hpp:9-32, tcpClient.hpp:52-69).                       *)
Echoed ==
  \A n \in 1 .. arrived :
    client[n] # "gone" /\ ~ServerGone =>
      LET held == {w \in Workers : Serves(w, n) /\ io[w] = "write"}
          inHand == IF held = {} THEN <<>> ELSE buff[CHOOSE w \in held : TRUE]
      IN shown[n] \o stream[n].client \o inHand \o stream[n].server
           = [j \in 1 .. entered[n] |-> j]

(* A descriptor is open from accept until its session has ended, the       *)
(* session of a connection ends only after its client left, and no two     *)
(* workers serve it (tcpServer.hpp:95-137, Task.hpp:24-31).                *)
SocketsClosed ==
  /\ fds = {n \in 1 .. submitted : ran[n] = 0}
  /\ \A n \in 1 .. submitted : n \notin fds => client[n] = "gone"
  /\ \A v, w \in Workers, n \in Tasks : Serves(v, n) /\ Serves(w, n) => v = w

(* A client that leaves while the server writes to it does not end the     *)
(* server (daemon.hpp:18, Task.hpp:21).                                    *)
ServerSurvives == ~aborted

EchoSafe == EchoTypeOK /\ Echoed /\ SocketsClosed /\ ServerSurvives

Served(n) == \E w \in Workers : Serves(w, n)

Occupied(w) == \E n \in Tasks : Serves(w, n) /\ client[n] # "gone"

(* In the end every accepted connection has a worker, if the clients do    *)
(* not hold all workers for ever; and who has a worker and waits for bytes *)
(* has had them, and who left is not served any more                       *)
(* (ThreadPool.hpp:27-48, Task.hpp:9-32).                                  *)
EchoServed ==
  /\ ([]<>\E w \in Workers : ~Occupied(w)) => <>[](\A n \in fds : Served(n))
  /\ <>[](\A n \in Tasks : Served(n) =>
            /\ client[n] = "wait" => Len(shown[n]) = entered[n]
            /\ client[n] # "gone")
=============================================================================
