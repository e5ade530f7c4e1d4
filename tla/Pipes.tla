------------------------------- MODULE Pipes --------------------------------
(***************************************************************************)
(* Words that one process sends another through a pipe.                    *)
(*                                                                         *)
(*   "pipe": pipe/myprocess.cc.  The parent writes its whole array for a   *)
(*     word, the child reads into an array of its own, four times as long, *)
(*     and prints what comes before the first NUL of it.                   *)
(*   "fifo": name_pipe.  The server makes the named pipe and writes the    *)
(*     characters of a word; the client prints all it has read; command    *)
(*     makes or removes the name.                                          *)
(*                                                                         *)
(* put is all that was ever given to write, a cell for a character: a NUL  *)
(* or not.  The first cells of it passed into the pipe, and the first of   *)
(* those were taken out; the reader holds and prints places of put.        *)
(***************************************************************************)
EXTENDS Integers, SequencesExt, FiniteSetsExt

CONSTANTS
  Width,      \* the length of the parent's array
  Arrays,     \* the child's array is that many times as long
  MaxRead,    \* what the client reads at a time
  Capacity,   \* the cells a pipe holds
  MaxLen,     \* bound on the words of the server (none in the code)
  MaxCells,   \* MaxCells[kind] bounds the cells written (nothing in the code)
  MaxFiles    \* bound on the named pipes made (none in the code)

PipesAssumption ==
  /\ Width \in Nat \ {0} /\ Arrays \in Nat \ {0, 1} /\ MaxRead \in Nat \ {0}
  /\ Capacity \in Nat /\ Width <= Capacity
  /\ MaxLen \in Nat /\ MaxCells \in [{"pipe", "fifo"} -> Nat] /\ MaxFiles \in Nat

VARIABLES
  kind,       \* which program
  writer,     \* what the writing process does
  reader,     \* what the reading process does
  extra,      \* the ends of the pipe that a process has and does not use
  name,       \* the named pipe there is, or 0
  made,       \* how many there were
  opened,     \* the named pipe each process has opened
  given,      \* how many words the user has entered
  over,       \* the input has ended
  buff,       \* the writer's array or string
  put,        \* all it was given to write
  heads,      \* the places in put where the arrays begin
  passed,     \* how much of put has been written
  taken,      \* how much of that has been read
  hand,       \* the reader's array: places in put, Zero or Unset
  shown,      \* the places printed, line after line
  killed,     \* somebody killed a process
  alone       \* the heads of the arrays written into an empty pipe

pipesVars ==
  <<kind, writer, reader, extra, name, made, opened, given, over, buff, put,
    heads, passed, taken, hand, shown, killed, alone>>

names == <<name, made, opened>>
input == <<given, over, buff, put, heads>>
content == <<passed, taken>>
seen == <<hand, shown>>
ghosts == <<killed, alone>>

Zero == 0       \* a NUL that was not read
Unset == -1     \* a character that was not read

(* One byte is left free, and the child's array is of int.                 *)
ReadSize == IF kind = "pipe" THEN Arrays * Width - 1 ELSE MaxRead

PipesInit ==
  /\ kind \in {"pipe", "fifo"}
  /\ writer = "start"
  /\ reader = IF kind = "pipe" THEN "none" ELSE "start"
  /\ extra = {}
  /\ name \in IF kind = "pipe" THEN {0} ELSE {0, 1}
  /\ made = name /\ opened = [writer |-> 0, reader |-> 0]
  /\ given = 0 /\ over = FALSE
  /\ buff \in IF kind = "pipe" THEN [1 .. Width -> {"char", "nul"}] ELSE {<<>>}
  /\ put = <<>> /\ heads = {} /\ passed = 0 /\ taken = 0
  /\ \E p \in {Zero, Unset} : hand = [j \in 1 .. ReadSize + 1 |-> p]
  /\ shown = <<>>
  /\ killed = FALSE /\ alone = {}
-----------------------------------------------------------------------------
(* How the two come together                                               *)

(* pipe and fork, or an assertion.  Each process has both ends.            *)
PipeAndFork ==
  /\ kind = "pipe" /\ writer = "start"
  /\ \/ writer' = "close" /\ reader' = "close" /\ extra' = {"writer", "reader"}
     \/ writer' = "gone" /\ UNCHANGED <<reader, extra>>
  /\ UNCHANGED <<kind, names, input, content, seen, ghosts>>

CloseParent ==
  /\ writer = "close" /\ writer' = "get"
  /\ extra' = extra \ {"writer"}
  /\ UNCHANGED <<kind, reader, names, input, content, seen, ghosts>>

CloseChild ==
  /\ reader = "close" /\ reader' = "read"
  /\ extra' = extra \ {"reader"}
  /\ UNCHANGED <<kind, writer, names, input, content, seen, ghosts>>

(* createFifo of the server: where there is the name, an assertion fails.  *)
createFifo ==
  /\ kind = "fifo" /\ writer = "start"
  /\ IF name = 0 /\ made < MaxFiles
     THEN name' = made + 1 /\ made' = made + 1 /\ writer' = "named"
     ELSE name # 0 /\ writer' = "gone" /\ UNCHANGED <<name, made>>
  /\ UNCHANGED <<kind, reader, extra, opened, input, content, seen, ghosts>>

(* open of either side finds the name, or an assertion fails.              *)
ServerOpens ==
  /\ writer = "named"
  /\ writer' = IF name = 0 THEN "gone" ELSE "open"
  /\ opened' = [opened EXCEPT !.writer = name]
  /\ UNCHANGED <<kind, reader, extra, name, made, input, content, seen, ghosts>>

ClientOpens ==
  /\ kind = "fifo" /\ reader = "start"
  /\ reader' = IF name = 0 THEN "gone" ELSE "open"
  /\ opened' = [opened EXCEPT !.reader = name]
  /\ UNCHANGED <<kind, writer, extra, name, made, input, content, seen, ghosts>>

(* It returns when the other side has the same named pipe open.            *)
Meet ==
  /\ writer = "open" /\ reader = "open" /\ opened.writer = opened.reader
  /\ writer' = "get" /\ reader' = "read"
  /\ UNCHANGED <<kind, extra, names, input, content, seen, ghosts>>

(* command.cc without and with an argument, and its assertions.            *)
Command ==
  /\ kind = "fifo"
  /\ \/ /\ name = 0 /\ made < MaxFiles
        /\ name' = made + 1 /\ made' = made + 1
     \/ name # 0 /\ name' = 0 /\ UNCHANGED made
  /\ UNCHANGED <<kind, writer, reader, extra, opened, input, content, seen, ghosts>>
-----------------------------------------------------------------------------
(* The writer                                                              *)

(* buff with a word of n characters.                                       *)
WithWord(n) ==
  IF kind = "fifo" THEN [j \in 1 .. n |-> "char"]
  ELSE [j \in 1 .. Width |->
          IF j <= n THEN "char" ELSE IF j = n + 1 THEN "nul" ELSE buff[j]]

WordLengths == 1 .. (IF kind = "pipe" THEN Width - 1 ELSE MaxLen)

(* What buff holds is written next.                                        *)
GiveToWrite ==
  /\ writer' = "write"
  /\ put' = put \o buff'
  /\ heads' = IF kind = "pipe" THEN heads \cup {Len(put) + 1} ELSE heads
  /\ UNCHANGED <<kind, reader, extra, names, content, seen, ghosts>>

(* cin gives the next word, or the input ends and buff stays as it is.     *)
Get ==
  /\ writer = "get" /\ ~over /\ Len(put) < MaxCells[kind]
  /\ \/ /\ \E n \in WordLengths : buff' = WithWord(n)
        /\ given' = given + 1 /\ UNCHANGED over
     \/ over' = TRUE /\ UNCHANGED <<given, buff>>
  /\ GiveToWrite

(* The loop goes on after that.                                            *)
GetNothing ==
  /\ writer = "get" /\ over /\ Len(put) < MaxCells[kind]
  /\ UNCHANGED <<given, over, buff>>
  /\ GiveToWrite

HasReader == reader \in {"close", "read", "print"} \/ "writer" \in extra

(* An array goes into the pipe as a whole, a long word also in pieces.     *)
Pieces ==
  IF kind = "pipe" \/ passed = Len(put) THEN {Len(put)} ELSE passed + 1 .. Len(put)

(* write waits for room; without a reader SIGPIPE ends the writer.         *)
WritePipe ==
  /\ writer = "write"
  /\ IF HasReader \/ passed = Len(put)
     THEN \E w \in Pieces :
            /\ w - taken <= Capacity /\ passed' = w
            /\ writer' = IF w = Len(put) THEN "get" ELSE "write"
            /\ alone' = IF kind = "pipe" /\ passed = taken
                        THEN alone \cup {passed + 1} ELSE alone
     ELSE writer' = "gone" /\ UNCHANGED <<passed, alone>>
  /\ UNCHANGED <<kind, reader, extra, names, input, taken, seen, killed>>
-----------------------------------------------------------------------------
(* The reader                                                              *)

StaleTail(n) ==  \* mutant: no buff[n]=0, a longer message of before shows
  [j \in 1 .. ReadSize + 1 |-> IF j <= n THEN taken + j ELSE hand[j]]

(* The reader's array after a read of n cells, which begins where the last *)
(* one ended, wherever in an array that is.  Only the client adds a NUL.   *)
HandAfter(n) ==
  [j \in 1 .. ReadSize + 1 |->
     IF j <= n THEN taken + j
     ELSE IF kind = "fifo" /\ j = n + 1 THEN Zero ELSE hand[j]]

(* read takes what there is, up to the size it is given.                   *)
ReadPipe ==
  /\ reader = "read" /\ taken < passed
  /\ LET n == Min({passed - taken, ReadSize}) IN
     /\ hand' = HandAfter(n)
     /\ taken' = taken + n
  /\ reader' = "print"
  /\ UNCHANGED <<kind, writer, extra, names, input, passed, shown, ghosts>>

IsNul(p) == p = Zero \/ (p > 0 /\ put[p] = "nul")

(* printf stops at the first NUL.  Without one it would go on beyond the   *)
(* array, which is undefined.                                              *)
Printed ==
  LET nuls == {j \in 1 .. ReadSize + 1 : IsNul(hand[j])}
      stop == IF nuls = {} THEN ReadSize + 2 ELSE Min(nuls)
  IN [j \in 1 .. stop - 1 |-> hand[j]]

Output ==
  /\ reader = "print" /\ reader' = "read"
  /\ shown' = shown \o Printed
  /\ UNCHANGED <<kind, writer, extra, names, input, content, hand, ghosts>>

HasWriter == writer \notin {"start", "gone"} \/ "reader" \in extra

(* read returns 0.                                                         *)
ReadEnd ==
  /\ reader = "read" /\ taken = passed /\ ~HasWriter
  /\ reader' = "gone"
  /\ UNCHANGED <<kind, writer, extra, names, input, content, seen, ghosts>>

(* Somebody kills a process.                                               *)
KillEither ==
  /\ \/ /\ writer \notin {"start", "gone"} /\ writer' = "gone"
        /\ extra' = extra \ {"writer"} /\ UNCHANGED reader
     \/ /\ reader \notin {"none", "start", "gone"} /\ reader' = "gone"
        /\ extra' = extra \ {"reader"} /\ UNCHANGED writer
  /\ killed' = TRUE
  /\ UNCHANGED <<kind, names, input, content, seen, alone>>

WriterStep ==
  PipeAndFork \/ CloseParent \/ createFifo \/ ServerOpens \/ GetNothing \/ WritePipe

ReaderStep == CloseChild \/ ClientOpens \/ Meet \/ ReadPipe \/ Output \/ ReadEnd

PipesNext == WriterStep \/ Get \/ ReaderStep \/ Command \/ KillEither

PipesSpec == PipesInit /\ [][PipesNext]_pipesVars

(* The kernel runs both processes.  The user need not enter anything.      *)
PipesFairSpec ==
  PipesSpec /\ WF_pipesVars(WriterStep) /\ WF_pipesVars(ReaderStep)
-----------------------------------------------------------------------------
(* What the reader is about to print, and all that is shown with it.       *)
Printing == IF reader = "print" THEN Printed ELSE <<>>

Line == shown \o Printing

(* The words of which the user sees the beginning come in their order,     *)
(* none of them twice.                                                     *)
HeadsInOrder ==
  \A j, k \in 1 .. Len(Line) :
    j < k /\ Line[j] \in heads /\ Line[k] \in heads => Line[j] < Line[k]

(* A beginning that is printed is followed by the whole word and the end   *)
(* of the line.                                                            *)
WordsWhole ==
  \A j \in 1 .. Len(Printing) :
    Printing[j] \in heads =>
      /\ \A k \in j .. Len(Printing) : Printing[k] = Printing[j] + (k - j)
      /\ put[Printing[j] + (Len(Printing) - j) + 1] = "nul"

(* What was written into an empty pipe is in it, or is shown.              *)
AloneShown == \A p \in alone : p > taken \/ p \in Range(Line)

(* Through the named pipe every character comes, once and in order,        *)
(* however the words are cut and joined (name_pipe/server.cc:17-21,        *)
(* client.cc:11-20).  The child of the other program reads 399 bytes over  *)
(* arrays of 100, so its reads begin anywhere in an array and print ends   *)
(* of words, also of words long shown; but a NUL is always found in its    *)
(* array, what it shows of the beginning of a word goes on to the end of   *)
(* that word, in the order of the words, and a word written into an empty  *)
(* pipe is shown unless somebody kills the child (myprocess.cc:20-41).     *)
PipesSafe ==
  /\ kind = "fifo" =>
       /\ Line = [j \in 1 .. Len(Line) |-> j]
       /\ ~killed => Len(Line) = taken
  /\ kind = "pipe" /\ given > 0 =>
       /\ HeadsInOrder /\ WordsWhole
       /\ reader = "print" => \E j \in 1 .. ReadSize + 1 : IsNul(hand[j])
       /\ ~killed => AloneShown

(* In the end a reader whose writer is gone has seen the end of file, a    *)
(* writer whose reader is gone has nothing to write or is gone too, and    *)
(* two that wait for each other wait at different named pipes of the same  *)
(* name (myprocess.cc:19-40, name_pipe/client.cc:5-20, server.cc:12-21,    *)
(* comm.hpp:13-32).                                                        *)
PipesSettled ==
  /\ writer = "gone" => reader \notin {"read", "print"}
  /\ reader = "gone" => writer = "gone" \/ passed = Len(put)
  /\ writer = "open" /\ reader = "open" => opened.writer # opened.reader
=============================================================================
