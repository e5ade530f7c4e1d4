----------------------------- MODULE CalSession -----------------------------
(***************************************************************************)
(* One connection of the calculator in network_code/socket_tcp2: the loop  *)
(* of calClient::start, handlerEntery of the server, and recvPackage of    *)
(* protocol.hpp, which both use to cut packages out of the byte stream.    *)
(*                                                                         *)
(* A package is the decimal length of its text, \r\n, the text, \r\n.  The *)
(* digits of the length are one byte here, and the bytes of a text carry   *)
(* the number of the request they belong to instead of its content.  TCP   *)
(* keeps the bytes in order; a recv returns any part of those under way.   *)
(***************************************************************************)
EXTENDS Integers, Sequences, FiniteSetsExt

CONSTANTS
  BufSize,      \* sizeof(buffer) in recvPackage (1024 in the code)
  MaxText,      \* the length of the longest text
  MaxRequests   \* bound on the lines the user enters (none in the code)

(* What the two sides send is far shorter than the buffer.                 *)
ASSUME SessionAssumption ==
  /\ MaxText \in 1 .. BufSize - 6
  /\ BufSize \in Nat /\ MaxRequests \in Nat

VARIABLES
  pc,         \* where the client and the server are
  asked,      \* how many requests the client has sent
  stream,     \* stream[s]: the bytes under way to side s
  inbuffer,   \* inbuffer[s]: what side s has received and not consumed
  text,       \* text[s]: the package recvPackage has returned to side s
  executed,   \* the requests the server has calculated
  printed     \* the requests whose response the client has printed

sessionVars == <<pc, asked, stream, inbuffer, text, executed, printed>>

Sides == {"client", "server"}
Requests == 1 .. MaxRequests

CR == [is |-> "CR", of |-> 0]
LF == [is |-> "LF", of |-> 0]
Bytes ==
  {CR, LF} \cup [is : {"length"}, of : 1 .. MaxText]
           \cup [is : {"text"}, of : Requests]

Goto(side, from, to) ==
  /\ pc[side] = from
  /\ pc' = [pc EXCEPT ![side] = to]

SessionTypeOK ==
  /\ pc["client"] \in {"prompt", "recv", "print", "gone"}
  /\ pc["server"] \in {"recv", "answer", "closed", "killed"}
  /\ asked \in 0 .. MaxRequests
  /\ stream \in [Sides -> Seq(Bytes)]
  /\ inbuffer \in [Sides -> Seq(Bytes)]
  /\ text \in [Sides -> Seq(Bytes)]
  /\ executed \in Seq(Requests)
  /\ printed \in Seq(Requests)

SessionInit ==
  /\ pc = [side \in Sides |-> IF side = "client" THEN "prompt" ELSE "recv"]
  /\ asked = 0
  /\ stream = [side \in Sides |-> <<>>]
  /\ inbuffer = [side \in Sides |-> <<>>]
  /\ text = [side \in Sides |-> <<>>]
  /\ executed = <<>>
  /\ printed = <<>>
-----------------------------------------------------------------------------
(* The protocol                                                            *)

enLength(n, size) ==
  <<[is |-> "length", of |-> size], CR, LF>>
    \o [j \in 1 .. size |-> [is |-> "text", of |-> n]] \o <<CR, LF>>

LineSeps(s) == {p \in 1 .. Len(s) - 1 : s[p] = CR /\ s[p + 1] = LF}

TextLen(s) == s[1].of

TotalLen(s) == Min(LineSeps(s)) - 1 + 2 * 2 + TextLen(s)

NeedsOneMore(s) ==  \* mutant: size <= total_len waits for one byte more
  LineSeps(s) # {} /\ Len(s) > TotalLen(s)

HasPackage(s) == LineSeps(s) # {} /\ Len(s) >= TotalLen(s)

deLength(s) ==
  LET pos == Min(LineSeps(s)) IN SubSeq(s, pos + 2, pos + 1 + TextLen(s))

(* The request a text belongs to.                                          *)
deserialize(s) == s[1].of

EraseForgotten(s) == s  \* mutant: the package stays in inbuffer

(* inbuffer.erase(0, total_len)                                            *)
Erase(s) == SubSeq(s, TotalLen(s) + 1, Len(s))

(* One pass of the loop of recvPackage with n > 0.  It calls recv before   *)
(* it looks at inbuffer, and returns when the first package is complete.   *)
Recv(side, done) ==
  /\ pc[side] = "recv"
  /\ stream[side] # <<>>
  /\ \E n \in 1 .. Min({BufSize, Len(stream[side])}) :
       LET got == inbuffer[side] \o SubSeq(stream[side], 1, n) IN
       /\ stream' = [stream EXCEPT ![side] = SubSeq(@, n + 1, Len(@))]
       /\ IF HasPackage(got)
          THEN /\ text' = [text EXCEPT ![side] = SubSeq(got, 1, TotalLen(got))]
               /\ inbuffer' = [inbuffer EXCEPT ![side] = Erase(got)]
               /\ pc' = [pc EXCEPT ![side] = done]
          ELSE /\ inbuffer' = [inbuffer EXCEPT ![side] = got]
               /\ UNCHANGED <<text, pc>>
  /\ UNCHANGED <<asked, executed, printed>>
-----------------------------------------------------------------------------
(* The server: handlerEntery                                               *)

ServerRecv == Recv("server", "answer")

(* deLength, deserialize, the calculation, serialize, enLength and send;   *)
(* the result has a text of any length.  Sending to a client that is gone  *)
(* may end the process with SIGPIPE, or be noticed by the next recv.       *)
Answer ==
  LET n == deserialize(deLength(text["server"])) IN
  /\ pc["server"] = "answer"
  /\ executed' = Append(executed, n)
  /\ \/ /\ \E size \in 1 .. MaxText :
             stream' = [stream EXCEPT !["client"] = @ \o enLength(n, size)]
        /\ pc' = [pc EXCEPT !["server"] = "recv"]
     \/ /\ pc["client"] = "gone"
        /\ pc' = [pc EXCEPT !["server"] = "closed"]
        /\ UNCHANGED stream
  /\ UNCHANGED <<asked, inbuffer, text, printed>>

(* recv returns 0, or -1 when the client left bytes unread: recvPackage    *)
(* fails and the handler returns.                                          *)
ServerEof ==
  /\ Goto("server", "recv", "closed")
  /\ pc["client"] = "gone"
  /\ UNCHANGED <<asked, stream, inbuffer, text, executed, printed>>

(* The process that serves the connection is killed.                       *)
KillServer ==
  /\ pc["server"] \in {"recv", "answer"}
  /\ pc' = [pc EXCEPT !["server"] = "killed"]
  /\ stream' = [stream EXCEPT !["server"] = <<>>]
  /\ UNCHANGED <<asked, inbuffer, text, executed, printed>>
-----------------------------------------------------------------------------
(* The client: calClient::start                                            *)

SendAhead ==  \* mutant: the client also asks while it waits for a response
  /\ pc["client"] \in {"prompt", "recv"}
  /\ asked < MaxRequests
  /\ asked' = asked + 1
  /\ \E size \in 1 .. MaxText :
       stream' = [stream EXCEPT !["server"] = @ \o enLength(asked + 1, size)]
  /\ pc' = [pc EXCEPT !["client"] = "recv"]
  /\ UNCHANGED <<inbuffer, text, executed, printed>>

(* The user enters a line ParseLine can read.  When the server is gone the *)
(* bytes are lost, or SIGPIPE ends the client.                             *)
Ask ==
  /\ pc["client"] = "prompt"
  /\ asked < MaxRequests
  /\ asked' = asked + 1
  /\ \/ /\ pc["server"] # "killed"
        /\ \E size \in 1 .. MaxText :
             stream' = [stream EXCEPT !["server"] = @ \o enLength(asked + 1, size)]
        /\ pc' = [pc EXCEPT !["client"] = "recv"]
     \/ /\ pc["server"] = "killed"
        /\ \E next \in {"recv", "gone"} : pc' = [pc EXCEPT !["client"] = next]
        /\ UNCHANGED stream
  /\ UNCHANGED <<inbuffer, text, executed, printed>>

ClientRecv == Recv("client", "print")

(* recvPackage fails and the loop continues with the next line; bytes the  *)
(* client has not read yet may be lost with the connection.                *)
ClientEof ==
  /\ Goto("client", "recv", "prompt")
  /\ pc["server"] = "killed"
  /\ stream' = [stream EXCEPT !["client"] = <<>>]
  /\ UNCHANGED <<asked, inbuffer, text, executed, printed>>

PrintResponse ==
  /\ Goto("client", "print", "prompt")
  /\ printed' = Append(printed, deserialize(deLength(text["client"])))
  /\ UNCHANGED <<asked, stream, inbuffer, text, executed>>

(* A line with an operand stoi cannot read throws out of ParseLine; the    *)
(* user may also end the client at any time.                               *)
ClientEnds ==
  /\ pc["client"] # "gone"
  /\ pc' = [pc EXCEPT !["client"] = "gone"]
  /\ UNCHANGED <<asked, stream, inbuffer, text, executed, printed>>

Server == ServerRecv \/ Answer \/ ServerEof

Client == ClientRecv \/ ClientEof \/ PrintResponse

SessionNext == Server \/ KillServer \/ Client \/ Ask \/ ClientEnds

SessionSpec == SessionInit /\ [][SessionNext]_sessionVars

(* Both processes run; nobody has to enter a line.                         *)
SessionFairSpec ==
  SessionSpec /\ WF_sessionVars(Server) /\ WF_sessionVars(Client)
-----------------------------------------------------------------------------
(* Wherever TCP cuts the stream and whoever ends, the server calculates    *)
(* each request once and in order, and a response the client is about to   *)
(* print is the one to the line it read last.  Only the end of the server  *)
(* leaves a line without its response                                      *)
(* (protocol.hpp:202-235, calClient.hpp:64-76).                            *)
Answers ==
  /\ executed = [n \in 1 .. Len(executed) |-> n]
  /\ printed = [n \in 1 .. Len(printed) |-> n]
  /\ Len(printed) <= Len(executed) /\ Len(executed) <= asked
  /\ pc["client"] = "print" => deserialize(deLength(text["client"])) = asked
  /\ pc["client"] = "prompt" /\ pc["server"] # "killed" => Len(printed) = asked

(* recvPackage calls recv before it looks at what it has already received: *)
(* a side never waits for bytes while a whole package lies in its inbuffer *)
(* (protocol.hpp:205-229).                                                 *)
NothingLeftBehind ==
  \A side \in Sides : pc[side] = "recv" => ~HasPackage(inbuffer[side])

(* buffer[n] = 0 stays inside the buffer, because the bytes under way      *)
(* never fill it (protocol.hpp:204-210).                                   *)
RoomForZero == \A side \in Sides : Len(stream[side]) < BufSize

(* Every request is answered unless one of the two processes ends          *)
(* (calServer.hpp:29-67, calClient.hpp:54-77).                             *)
EveryLineAnswered ==
  \A n \in Requests :
    asked >= n ~> \/ Len(printed) >= n
                  \/ pc["client"] = "gone" \/ pc["server"] = "killed"
=============================================================================
