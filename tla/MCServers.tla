----------------------------- MODULE MCServers ------------------------------
(***************************************************************************)
(* The three TCP servers for model checking, one at a time: program says   *)
(* which one a behaviour is of, and the variables of the others keep their *)
(* initial values.  The calculator server and the HTTP server share the    *)
(* accept loop and its variables.                                          *)
(***************************************************************************)
EXTENDS HttpServer, EchoServer

CONSTANTS
  c1, c2, c3, c4,         \* connections of the two forking servers
  main, w1, w2            \* threads of the echo server

VARIABLE program

serversVars == <<program, httpVars, echoVars>>

(* The first user enters two bytes, in one line that takes two reads or in *)
(* two lines, the others empty lines.                                      *)
BytesEntered == <<2, 0, 0>>

ASSUME ServerAssumption /\ HttpAssumption /\ EchoAssumption

ServersInit ==
  /\ program \in {"calculator", "http", "echo"}
  /\ AcceptInit /\ WebInit /\ EchoInit

ServersNext ==
  \/ program = "calculator" /\ AcceptNext /\ UNCHANGED <<program, web, http, echoVars>>
  \/ program = "http" /\ HttpNext /\ UNCHANGED <<program, echoVars>>
  \/ program = "echo" /\ EchoNext /\ UNCHANGED <<program, httpVars>>

(* The fairness of the three modules, for the program that runs.           *)
ServersSpec ==
  /\ ServersInit /\ [][ServersNext]_serversVars
  /\ WF_acceptVars(program = "calculator" /\ System)
  /\ WF_httpVars(program = "http" /\ HttpSystem)
  /\ WF_echoVars(program = "echo" /\ EchoSystem)
  /\ <>[][~ \E w \in Workers : Wakeup(w)]_echoVars
=============================================================================
