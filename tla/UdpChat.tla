------------------------------ MODULE UdpChat ------------------------------
(***************************************************************************)
(* The chat of network_code/socket_udp: clients send datagrams, the one    *)
(* thread of the server keeps the set of users that are online             *)
(* (onlineUser) and hands each datagram to routeMessage, which broadcasts  *)
(* it to them or tells the sender to come online first.  A client sends    *)
(* and prints in two threads.                                              *)
(*                                                                         *)
(* Datagrams are lost, doubled and overtaken: what was sent stays in       *)
(* toServer and toClients, and is received any number of times, or never.  *)
(* A datagram is numbered in the order of sending; of a text it only       *)
(* matters whether it is "online", "offline", empty or something else.     *)
(*                                                                         *)
(* A client is known by its address and port.  When it ends, the kernel    *)
(* may give them to another process, the next owner.                       *)
(***************************************************************************)
EXTENDS Integers, FiniteSets

CONSTANTS
  Clients,    \* the clients, by address and port
  MaxSent,    \* bound on the datagrams clients send (none in the code)
  MaxOwners   \* bound on the owners of an address (none in the code)

ASSUME ChatAssumption == MaxSent \in Nat /\ MaxOwners \in Nat \ {0}

VARIABLES
  server,     \* how far the server is
  owner,      \* owner[c]: which process has the address, the first, second...
  users,      \* onlineUser::_users
  toServer,   \* the datagrams clients have sent
  toClients,  \* the datagrams the server has sent
  shown       \* shown[c]: the datagrams client c has printed

vars == <<server, owner, users, toServer, toClients, shown>>

Texts == {"online", "offline", "", "else"}

Sent == [id : 1 .. MaxSent, from : Clients, by : 1 .. MaxOwners, text : Texts]

(* A broadcast copy of datagram id, or the request to come online first.   *)
Replies == [id : 1 .. MaxSent, to : Clients, kind : {"copy", "refusal"}]

TypeOK ==
  /\ server \in {"socket", "bind", "up", "exited"}
  /\ owner \in [Clients -> 1 .. MaxOwners]
  /\ users \subseteq Clients
  /\ toServer \subseteq Sent
  /\ toClients \subseteq Replies
  /\ shown \in [Clients -> SUBSET toClients]
  /\ \A d, e \in toServer : d.id = e.id => d = e

Init ==
  /\ server = "socket"
  /\ owner = [c \in Clients |-> 1]
  /\ users = {}
  /\ toServer = {}
  /\ toClients = {}
  /\ shown = [c \in Clients |-> {}]
-----------------------------------------------------------------------------
(* socket and bind; the first that fails ends the server.                  *)
initServer ==
  /\ server \in {"socket", "bind"}
  /\ server' \in {"exited", IF server = "socket" THEN "bind" ELSE "up"}
  /\ UNCHANGED <<owner, users, toServer, toClients, shown>>

(* The client ends, with or without offline, and a new process has its     *)
(* address: initClient and nothing shown yet.                              *)
initClient(c) ==
  /\ owner[c] < MaxOwners
  /\ owner' = [owner EXCEPT ![c] = @ + 1]
  /\ shown' = [shown EXCEPT ![c] = {}]
  /\ UNCHANGED <<server, users, toServer, toClients>>

(* A line of the user; an empty line, or the end of the input, sends an    *)
(* empty datagram.                                                         *)
Send(c, what) ==
  /\ Cardinality(toServer) < MaxSent
  /\ toServer' = toServer \cup
       {[id |-> Cardinality(toServer) + 1, from |-> c, by |-> owner[c], text |-> what]}
  /\ UNCHANGED <<server, owner, users, toClients, shown>>

Show(c, r) ==
  /\ r.to = c
  /\ shown' = [shown EXCEPT ![c] = @ \cup {r}]
  /\ UNCHANGED <<server, owner, users, toServer, toClients>>

(* add and del are idempotent: the key is the address and the port.        *)
Online(d) ==
  CASE d.text = "online" -> users \cup {d.from}
    [] d.text = "offline" -> users \ {d.from}
    [] OTHER -> users

broadcastMessage(d, to) == {[id |-> d.id, to |-> u, kind |-> "copy"] : u \in to}

BroadcastFirst(d) ==  \* mutant: broadcast without the isOnline test
  /\ server = "up" /\ d.text # ""
  /\ users' = Online(d)
  /\ toClients' = toClients \cup broadcastMessage(d, users)
  /\ UNCHANGED <<server, owner, toServer, shown>>

AddedUnasked(d) ==  \* mutant: whoever sends something is added
  /\ server = "up" /\ d.text # ""
  /\ users' = users \cup {d.from}
  /\ toClients' = toClients \cup broadcastMessage(d, users')
  /\ UNCHANGED <<server, owner, toServer, shown>>

(* start drops empty datagrams and calls routeMessage with the others.     *)
routeMessage(d) ==
  /\ server = "up" /\ d.text # ""
  /\ users' = Online(d)
  /\ toClients' = toClients \cup
       IF d.from \in users'
       THEN broadcastMessage(d, users')
       ELSE {[id |-> d.id, to |-> d.from, kind |-> "refusal"]}
  /\ UNCHANGED <<server, owner, toServer, shown>>

Next ==
  \/ initServer
  \/ \E c \in Clients : initClient(c)
  \/ \E c \in Clients, what \in Texts : Send(c, what)
  \/ \E c \in Clients, r \in toClients : Show(c, r)
  \/ \E d \in toServer : routeMessage(d)

Spec == Init /\ [][Next]_vars
-----------------------------------------------------------------------------
Asked(c, by) == \E d \in toServer : d.from = c /\ d.by = by /\ d.text = "online"

(* Nobody is counted as online, is sent the messages of others or has its  *)
(* own passed on who has not asked for it, itself or as one of the earlier *)
(* owners of its address: a user that ended without offline is not         *)
(* forgotten, and a new one stands in its place.  A process that has shown *)
(* a copy it had not asked for is not the first owner                      *)
(* (udpServer.cc:108-129, onlineUser.hpp:28-60).                           *)
OnlyWhoAsked ==
  /\ \A c \in users : \E by \in 1 .. owner[c] : Asked(c, by)
  /\ \A r \in toClients : r.kind = "copy" =>
       /\ \E by \in 1 .. owner[r.to] : Asked(r.to, by)
       /\ \E d \in toServer : d.id = r.id /\ \E by \in 1 .. owner[d.from] : Asked(d.from, by)
  /\ \A c \in Clients : \A r \in shown[c] :
       r.kind = "copy" /\ ~Asked(c, owner[c]) => owner[c] > 1

(* A broadcast reaches its own sender too, and an offline or empty message *)
(* is never broadcast (udpServer.cc:110-117, udpServer.hpp:70).            *)
SenderIsIncluded ==
  \A r \in toClients : r.kind = "copy" =>
    \E d \in toServer :
      /\ d.id = r.id /\ d.text \in {"online", "else"}
      /\ [r EXCEPT !.to = d.from] \in toClients
=============================================================================
