----------------------------- MODULE HttpServer -----------------------------
(***************************************************************************)
(* The HTTP server of network_code/http_demo: the accept loop of module    *)
(* CalServer (the two start functions are the same), and HandlerHttp as    *)
(* the session of the process that serves a connection: one recv, parse,   *)
(* Get, send.  Somebody may edit the directory wwwroot meanwhile.          *)
(*                                                                         *)
(* Of what a client sends only this is told apart: nothing yet, a first    *)
(* line without its end, a whole first line.  A file is its kind, its size *)
(* and the number of the edit that made it.                                *)
(***************************************************************************)
EXTENDS CalServer, FiniteSetsExt

CONSTANTS
  Browsers,   \* the clients that send a request
  Idlers,     \* the clients that only connect
  Urls,       \* what clients ask for
  Home,       \* the url that is a directory with a home page, and
  HomePage,   \* its path
  Present,    \* the paths where there is a file at first
  MaxSize,    \* the size of these files
  PageSize,   \* what is read of the 404 page (1024 in the code)
  SocketBuffer, \* the bytes of a body the kernel takes while the client reads none
  MaxEdits    \* bound on the edits of wwwroot (none in the code)

HttpAssumption ==
  /\ Home \in Urls /\ HomePage \notin Urls
  /\ Browsers \cup Idlers \subseteq Clients
  /\ Present \subseteq (Urls \ {Home}) \cup {HomePage}
  /\ MaxSize \in Nat /\ PageSize \in Nat /\ MaxEdits \in Nat
  /\ SocketBuffer \in Nat

VARIABLES
  disk,       \* disk[p]: the file with path p
  edits,      \* how many edits there were
  url,        \* url[c]: what client c asks for
  received,   \* received[c]: what the server can receive of it
  left,       \* left[c]: has client c left, and how
  req,        \* req[c]: the HttpRequest
  answer      \* answer[c]: the HttpResponse

web == <<disk, edits>>
http == <<url, received, left, req, answer>>
httpVars == <<acceptVars, web, http>>

Paths == (Urls \ {Home}) \cup {HomePage}
Missing == [is |-> "none", size |-> -1, edit |-> 0]

(* What stat succeeds for: open succeeds for a file and for a directory,   *)
(* but read only for a file; what is locked cannot be opened.              *)
FileKinds == {"file", "dir", "locked"}
Uninitialised == {-2, -1, 1}    \* what an int that was never set may hold

(* The answer: its Content-Length, the edit its content is of, how many    *)
(* bytes of it were read, and how many the body is sent with.              *)
NoAnswer == [length |-> 0, of |-> 0, bytes |-> 0, sent |-> 0]
Page404 == -1
NoPath == "no path"

Request(where) == [at |-> where, path |-> NoPath, size |-> 0, edit |-> 0]

path(u) == IF u = Home THEN HomePage ELSE u

WebInit ==
  /\ \E kind \in [Present -> FileKinds] :
       disk = [p \in Paths |->
                 IF p \in Present THEN [is |-> kind[p], size |-> MaxSize, edit |-> 1]
                 ELSE Missing]
  /\ edits = 1
  /\ url = [c \in Clients |-> Home]
  /\ received = [c \in Clients |-> "nothing"]
  /\ left = [c \in Clients |-> "no"]
  /\ req = [c \in Clients |-> Request("recv")]
  /\ answer = [c \in Clients |-> NoAnswer]

HttpInit == AcceptInit /\ WebInit

Serving(c) == grand[c] = "serve" \/ child[c] = "serve"

HandlerAt(c, where) == Serving(c) /\ req[c].at = where

HandlerGoto(c, where) == req' = [req EXCEPT ![c].at = where]
-----------------------------------------------------------------------------
(* Outside the server                                                      *)

(* Something is written, created, renamed to a path or removed.            *)
Edit ==
  /\ edits < MaxEdits
  /\ edits' = edits + 1
  /\ \E p \in Paths :
       \E file \in {Missing} \cup [is : FileKinds, size : {1}, edit : {edits + 1}] :
         file # disk[p] /\ disk' = [disk EXCEPT ![p] = file]
  /\ UNCHANGED <<acceptVars, http>>

(* The segment with the end of the first line, or one before it, arrives.  *)
(* What arrives after the recv is never read.                              *)
Segment(c) ==
  /\ c \in Browsers
  /\ conn[c] # "new" /\ left[c] = "no" /\ req[c].at = "recv"
  /\ \/ received[c] = "nothing" /\ received' = [received EXCEPT ![c] = "part"]
     \/ received[c] \in {"nothing", "part"} /\ received' = [received EXCEPT ![c] = "line"]
  /\ url' \in {[url EXCEPT ![c] = u] : u \in IF received[c] = "nothing" THEN Urls ELSE {url[c]}}
  /\ UNCHANGED <<acceptVars, web, left, req, answer>>

(* The client closes the connection, or resets it.                         *)
Leave(c) ==
  /\ conn[c] # "new" /\ left[c] = "no" /\ req[c].at # "over"
  /\ \E how \in {"closed", "reset"} : left' = [left EXCEPT ![c] = how]
  /\ UNCHANGED <<acceptVars, web, url, received, req, answer>>

(* The client reads an answer that the send could not pass on alone.       *)
ReadAnswer(c) ==
  /\ HandlerAt(c, "send") /\ left[c] = "no" /\ answer[c].sent > SocketBuffer
  /\ HandlerGoto(c, "sent")
  /\ UNCHANGED <<acceptVars, web, url, received, left, answer>>
-----------------------------------------------------------------------------
(* HandlerHttp                                                             *)

SizeForgotten(c, line) ==  \* mutant: parse does not set size when stat fails
  LET p == path(url[c]) IN
  {[Request("get") EXCEPT !.path = IF line THEN p ELSE @, !.edit = disk[p].edit, !.size = n] :
     n \in IF line /\ disk[p] # Missing THEN {disk[p].size} ELSE Uninitialised}

(* parse: without the end of a line it returns at once and size is never   *)
(* set; otherwise the path is made and size comes from stat, or is -1.     *)
Parsed(c, line) ==
  LET p == path(url[c]) IN
  IF line THEN {[at |-> "get", path |-> p, size |-> disk[p].size, edit |-> disk[p].edit]}
  ELSE {[Request("get") EXCEPT !.size = n] : n \in Uninitialised}

(* One recv and parse.  The -1 of recv is a size_t and counts as a message *)
(* of what is in the buffer, which nothing has been written to.            *)
Recv(c) ==
  /\ HandlerAt(c, "recv")
  /\ \/ \E r \in Parsed(c, TRUE) : received[c] = "line" /\ req' = [req EXCEPT ![c] = r]
     \/ \E r \in Parsed(c, FALSE) :
          (received[c] = "part" \/ left[c] = "reset") /\ req' = [req EXCEPT ![c] = r]
     \/ left[c] = "reset" /\ HandlerGoto(c, "crashed")
  /\ UNCHANGED <<acceptVars, web, url, received, left, answer>>

Opened(p) == p # NoPath /\ disk[p].is \in {"file", "dir"}

(* What readFile leaves in the buffer when the open succeeded: nothing if  *)
(* the read fails, which is not noticed (n < 0 never holds of a size_t),   *)
(* as it does for a directory, and for a size of -1 that became the        *)
(* greatest size_t.                                                        *)
readFile(p, size) ==
  IF disk[p].is = "file" /\ size >= 0
  THEN [of |-> disk[p].edit, bytes |-> Min({size, disk[p].size})]
  ELSE [of |-> 0, bytes |-> 0]

(* The body has size + 1 bytes, NUL where nothing was read, or those of    *)
(* the 404 page, behind a Content-Length of size.                          *)
Body(r) ==
  IF Opened(r.path)
  THEN LET file == readFile(r.path, r.size) IN
       [length |-> r.size, of |-> file.of, bytes |-> file.bytes, sent |-> r.size + 1]
  ELSE [length |-> r.size, of |-> Page404, bytes |-> PageSize, sent |-> PageSize]

(* Get: the resize to size + 1 bytes throws below 0.                       *)
Get(c) ==
  /\ HandlerAt(c, "get")
  /\ \/ req[c].size < -1 /\ HandlerGoto(c, "crashed") /\ UNCHANGED answer
     \/ /\ req[c].size >= -1
        /\ answer' = [answer EXCEPT ![c] = Body(req[c])]
        /\ HandlerGoto(c, "send")
  /\ UNCHANGED <<acceptVars, web, url, received, left>>

KeepsWaiting(c) ==  \* mutant: a recv of 0 bytes is tried again
  \/ HandlerAt(c, "send") /\ (answer[c].sent <= SocketBuffer \/ left[c] # "no")
  \/ HandlerAt(c, "sent") \/ HandlerAt(c, "crashed")

(* HandlerHttp returns: after send, which may block while the client is    *)
(* there and reads nothing, and which SIGPIPE may end when it has left;    *)
(* when recv returned 0; or because the process has crashed.               *)
Finishing(c) ==
  \/ HandlerAt(c, "send") /\ (answer[c].sent <= SocketBuffer \/ left[c] # "no")
  \/ HandlerAt(c, "sent") \/ HandlerAt(c, "crashed")
  \/ HandlerAt(c, "recv") /\ received[c] = "nothing" /\ left[c] = "closed"

(* The descriptor is closed with the process.                              *)
Finish(c) ==
  /\ Finishing(c)
  /\ SessionEnds(c)
  /\ req' = [req EXCEPT ![c] = Request("over")]
  /\ answer' = [answer EXCEPT ![c] = NoAnswer]
  /\ received' = [received EXCEPT ![c] = "nothing"]
  /\ left' = [left EXCEPT ![c] = "no"]
  /\ url' = [url EXCEPT ![c] = Home]
  /\ UNCHANGED web

HandlerHttp(c) ==
  Recv(c) \/ Get(c) \/ Finish(c)

Prepare == initServer /\ UNCHANGED <<web, http>>

(* The steps of start, and those that need not happen.                     *)
Start == System /\ UNCHANGED <<web, http>>

Failure ==
  /\ ForkFails \/ \E c \in Clients : SecondForkFails(c)
  /\ UNCHANGED <<web, http>>

Visit == (\E c \in Browsers \cup Idlers : Connect(c)) /\ UNCHANGED <<web, http>>

HttpSystem == Start \/ \E c \in Clients : HandlerHttp(c)

HttpNext ==
  \/ Prepare \/ HttpSystem \/ Failure
  \/ Visit \/ Edit
  \/ \E c \in Clients : Segment(c) \/ Leave(c) \/ ReadAnswer(c)

HttpSpec == HttpInit /\ [][HttpNext]_httpVars

(* The kernel runs the processes.  Clients need neither connect, nor send, *)
(* nor read, nor leave.                                                    *)
HttpFairSpec == HttpSpec /\ WF_httpVars(HttpSystem)
-----------------------------------------------------------------------------
(* What is answered to whose whole first line arrives before the recv.  If *)
(* nobody edits wwwroot: the whole file behind its size; a directory as    *)
(* that many NULs; the 404 page behind the size of what cannot be opened,  *)
(* or behind -1.  Whoever edits: a content is never older than the size    *)
(* before it, never longer, shorter only if it is newer, and always        *)
(* followed by NULs up to one byte more than that size                     *)
(* (HttpServer.hpp:67-74, protocol.hpp:19-48, HttpServer.cc:44-66).        *)
HttpAnswers ==
  \A c \in Clients :
    LET a == answer[c] r == req[c] file == disk[path(url[c])] IN
    r.at \in {"send", "sent"} =>
      /\ edits = 1 /\ r.path # NoPath =>
           a = CASE file.is = "file" ->
                      [length |-> file.size, of |-> 1, bytes |-> file.size, sent |-> file.size + 1]
                 [] file.is = "dir" ->
                      [length |-> file.size, of |-> 0, bytes |-> 0, sent |-> file.size + 1]
                 [] file.is \in {"locked", "none"} ->
                      [length |-> file.size, of |-> Page404, bytes |-> PageSize, sent |-> PageSize]
      /\ a.of > 0 =>
           /\ r.path # NoPath /\ r.edit <= a.of
           /\ a.bytes <= a.length /\ a.sent = a.length + 1
           /\ a.bytes < a.length => r.edit < a.of

(* A serving process dies of its request only when the first line was not  *)
(* there at the recv, or when the client has left: a file that comes or    *)
(* goes between stat and open does not end it (HttpServer.cc:50-52,        *)
(* protocol.hpp:22-47, Util.hpp:30-31).                                    *)
HttpCrashes ==
  \A c \in Clients : req[c].at = "crashed" => req[c].path = NoPath \/ left[c] # "no"

HttpSafe == HttpAnswers /\ HttpCrashes

(* In the end whoever has sent something or left has its connection        *)
(* closed, whatever the others do, unless its answer does not fit into the *)
(* socket and it does not read it, or the server waits for a child that    *)
(* could not fork (HttpServer.hpp:62-111).                                 *)
HttpEnds ==
  <>[](\/ \A c \in Clients :
            received[c] # "nothing" \/ left[c] # "no" =>
              \/ conn[c] = "accepted" /\ open[c] = {}
              \/ HandlerAt(c, "send") /\ left[c] = "no" /\ answer[c].sent > SocketBuffer
       \/ \E d \in Clients : child[d] = "serve" /\ grand[d] = "none")
=============================================================================
