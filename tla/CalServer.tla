----------------------------- MODULE CalServer -----------------------------
(***************************************************************************)
(* calServer::start of network_code/socket_tcp2: the server accepts a      *)
(* connection, forks a child, closes its own descriptor of the connection  *)
(* and waits for the child, which forks once more and exits at once.  The  *)
(* grandchild, an orphan that init reaps, serves the connection (module    *)
(* CalSession), so that the server neither waits for a session nor leaves  *)
(* a zombie behind.  accept and both forks may fail; a child that cannot   *)
(* fork serves the connection itself while the server waits for it.        *)
(***************************************************************************)
EXTENDS Integers, FiniteSets

CONSTANTS
  Clients,    \* the connections
  None        \* no connection

ServerAssumption == IsFiniteSet(Clients) /\ None \notin Clients

VARIABLES
  server,     \* what the server does next
  sock,       \* the connection accepted last
  pid,        \* whose child waitpid is called for; None after a failed fork
  conn,       \* conn[c]: "new", "queued", "accepted"
  child,      \* child[c]: the child forked for connection c
  grand,      \* grand[c]: its child
  open        \* open[c]: the processes that have the descriptor of c

acceptVars == <<server, sock, pid, conn, child, grand, open>>

Preparing == {"socket", "bind", "listen", "exited"}

AcceptTypeOK ==
  /\ server \in Preparing \cup {"accept", "fork", "close", "wait"}
  /\ sock \in IF server \in Preparing \cup {"accept"} THEN Clients \cup {None} ELSE Clients
  /\ pid \in Clients \cup {None}
  /\ conn \in [Clients -> {"new", "queued", "accepted"}]
  /\ child \in [Clients -> {"none", "listening", "fork", "serve", "zombie", "reaped"}]
  /\ grand \in [Clients -> {"none", "serve", "exited"}]
  /\ open \in [Clients -> SUBSET {"server", "child", "grand"}]

AcceptInit ==
  /\ server = "socket"
  /\ sock = None
  /\ pid = None
  /\ conn = [c \in Clients |-> "new"]
  /\ child = [c \in Clients |-> "none"]
  /\ grand = [c \in Clients |-> "none"]
  /\ open = [c \in Clients |-> {}]
-----------------------------------------------------------------------------
(* socket, bind and listen; the first that fails ends the process.         *)
initServer ==
  /\ server \in Preparing \ {"exited"}
  /\ server' \in {"exited", CASE server = "socket" -> "bind"
                              [] server = "bind" -> "listen"
                              [] OTHER -> "accept"}
  /\ UNCHANGED <<sock, pid, conn, child, grand, open>>

(* A client connects; the kernel queues the connection.                    *)
Connect(c) ==
  /\ server \notin Preparing
  /\ conn[c] = "new"
  /\ conn' = [conn EXCEPT ![c] = "queued"]
  /\ UNCHANGED <<server, sock, pid, child, grand, open>>

(* accept, which also may fail: the loop then begins again.                *)
Accept ==
  /\ server = "accept"
  /\ \E c \in Clients :
       /\ conn[c] = "queued"
       /\ conn' = [conn EXCEPT ![c] = "accepted"]
       /\ sock' = c
       /\ open' = [open EXCEPT ![c] = @ \cup {"server"}]
  /\ server' = "fork"
  /\ UNCHANGED <<pid, child, grand>>

Fork ==
  /\ server = "fork"
  /\ server' = "close"
  /\ pid' = sock
  /\ child' = [child EXCEPT ![sock] = "listening"]
  /\ open' = [open EXCEPT ![sock] = @ \cup {"child"}]
  /\ UNCHANGED <<sock, conn, grand>>

ForkFails ==
  /\ server = "fork"
  /\ server' = "close"
  /\ pid' = None
  /\ UNCHANGED <<sock, conn, child, grand, open>>

Close ==
  /\ server = "close"
  /\ server' = "wait"
  /\ open' = [open EXCEPT ![sock] = @ \ {"server"}]
  /\ UNCHANGED <<sock, pid, conn, child, grand>>

WaitMissing ==  \* mutant: no waitpid
  /\ server = "wait"
  /\ server' = "accept"
  /\ UNCHANGED <<sock, pid, conn, child, grand, open>>

(* waitpid(pid): for the child, or with pid = -1 for any child; it fails   *)
(* at once when there is none.                                             *)
Wait ==
  LET mine == IF pid = None THEN Clients ELSE {pid}
      alive == {c \in mine : child[c] \notin {"none", "reaped"}}
  IN
  /\ server = "wait"
  /\ server' = "accept"
  /\ \/ alive = {} /\ UNCHANGED child
     \/ \E c \in alive :
          child[c] = "zombie" /\ child' = [child EXCEPT ![c] = "reaped"]
  /\ UNCHANGED <<sock, pid, conn, grand, open>>

(* The child closes the listening socket, forks and exits.                 *)
CloseListen(c) ==
  /\ child[c] = "listening"
  /\ child' = [child EXCEPT ![c] = "fork"]
  /\ UNCHANGED <<server, sock, pid, conn, grand, open>>

BothServe(c) ==  \* mutant: no exit after the second fork
  /\ child[c] = "fork"
  /\ child' = [child EXCEPT ![c] = "serve"]
  /\ grand' = [grand EXCEPT ![c] = "serve"]
  /\ open' = [open EXCEPT ![c] = @ \cup {"grand"}]
  /\ UNCHANGED <<server, sock, pid, conn>>

SecondFork(c) ==
  /\ child[c] = "fork"
  /\ child' = [child EXCEPT ![c] = "zombie"]
  /\ grand' = [grand EXCEPT ![c] = "serve"]
  /\ open' = [open EXCEPT ![c] = (@ \ {"child"}) \cup {"grand"}]
  /\ UNCHANGED <<server, sock, pid, conn>>

(* fork() > 0 is false for -1: the child goes on to serve.                 *)
SecondForkFails(c) ==
  /\ child[c] = "fork"
  /\ child' = [child EXCEPT ![c] = "serve"]
  /\ UNCHANGED <<server, sock, pid, conn, grand, open>>

(* handlerEntery returns, the process closes sock and exits.               *)
SessionEnds(c) ==
  \/ /\ grand[c] = "serve"
     /\ grand' = [grand EXCEPT ![c] = "exited"]
     /\ open' = [open EXCEPT ![c] = @ \ {"grand"}]
     /\ UNCHANGED <<server, sock, pid, conn, child>>
  \/ /\ child[c] = "serve"
     /\ child' = [child EXCEPT ![c] = "zombie"]
     /\ open' = [open EXCEPT ![c] = @ \ {"child"}]
     /\ UNCHANGED <<server, sock, pid, conn, grand>>

Server == Accept \/ Fork \/ Close \/ Wait

Child(c) == CloseListen(c) \/ SecondFork(c)

AcceptNext ==
  \/ initServer \/ Server \/ ForkFails
  \/ \E c \in Clients :
       Connect(c) \/ Child(c) \/ SecondForkFails(c) \/ SessionEnds(c)

AcceptSpec == AcceptInit /\ [][AcceptNext]_acceptVars

(* The kernel runs the processes.  Clients need neither connect nor leave: *)
(* nothing is assumed of Connect and SessionEnds.                          *)
System == Server \/ \E c \in Clients : Child(c)

AcceptFairSpec == AcceptSpec /\ WF_acceptVars(System)
-----------------------------------------------------------------------------
(* When the server accepts it has no child left, dead or alive, which is   *)
(* why waitpid(-1) after a failed fork does not block                      *)
(* (calServer.hpp:136-153).                                                *)
NoChildLeft ==
  server \in {"accept", "fork"} =>
    \A c \in Clients : child[c] \in {"none", "reaped"}

(* Only who serves a connection keeps it open: when the session ends, or   *)
(* its fork failed, the client sees it closed (calServer.hpp:137-148).     *)
ClosedAfterSession ==
  \A c \in Clients :
    /\ conn[c] = "accepted"
    /\ c = sock => server = "accept"
    => open[c] = IF grand[c] = "serve" THEN {"grand"} ELSE {}

(* What the accept loop keeps true, whatever forks fail and whoever        *)
(* connects (calServer.hpp:117-153).                                       *)
AcceptSafe == AcceptTypeOK /\ NoChildLeft /\ ClosedAfterSession

(* A session, however long, keeps nobody waiting: in the end everybody who *)
(* connected has been accepted, unless a child whose fork failed serves on *)
(* the server's time (calServer.hpp:117-153).                              *)
AcceptLoopRuns ==
  <>[](\/ \A c \in Clients : conn[c] # "queued"
       \/ \E d \in Clients : child[d] = "serve" /\ grand[d] = "none")
=============================================================================
