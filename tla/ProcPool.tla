------------------------------ MODULE ProcPool ------------------------------
(***************************************************************************)
(* procpool/processPool.cc: a parent makes N pipes and forks N children,   *)
(* writes tasks into the pipes of children it picks at random, closes all  *)
(* write ends and then waits for the children one after the other.  A      *)
(* child reads tasks from its pipe until read returns 0, the end of file.  *)
(*                                                                         *)
(* The end of file of a pipe comes when no process has its write end open  *)
(* any more.  fork copies the parent's table of open files, so child i     *)
(* also holds the write ends of pipes 1 .. i-1, which nobody ever closes   *)
(* explicitly.  ends[p] is the set of pipe ends process p has open: the    *)
(* parent is process 0, child i has pipe i.                                *)
(***************************************************************************)
EXTENDS Integers, FiniteSets, Sequences

CONSTANTS
  N,          \* PROCESS_NUM
  TaskCount,  \* how many tasks the parent sends
  TaskSize    \* how many kinds of task there are

PoolAssumption ==
  N \in Nat \ {0} /\ TaskCount \in Nat /\ TaskSize \in Nat \ {0}

VARIABLES
  step,       \* what the parent does next
  i,          \* the loop variable of the parent
  child,      \* child[c]: what child c does
  ends,       \* ends[p]: the pipe ends process p has open
  pipe,       \* pipe[c]: the tasks written to pipe c and not yet read
  sent,       \* sent[c]: the tasks the parent has written for c
  ran         \* ran[c]: the tasks c has read and executed

vars == <<step, i, child, ends, pipe, sent, ran>>

Children == 1 .. N
Parent == 0
Processes == Children \cup {Parent}
Ends == Children \X {"read", "write"}
Steps == {"pipe", "fork", "closeRead", "send", "closeWrite", "wait",
          "returned", "aborted"}

TypeOK ==
  /\ step \in Steps
  /\ i \in 1 .. N + TaskCount + 1
  /\ child \in [Children -> {"none", "start", "read", "zombie", "reaped"}]
  /\ ends \in [Processes -> SUBSET Ends]
  /\ pipe \in [Children -> Seq(0 .. TaskSize - 1)]
  /\ sent \in [Children -> Seq(0 .. TaskSize - 1)]
  /\ ran \in [Children -> Seq(0 .. TaskSize - 1)]

Init ==
  /\ step = "pipe"
  /\ i = 1
  /\ child = [c \in Children |-> "none"]
  /\ ends = [p \in Processes |-> {}]
  /\ pipe = [c \in Children |-> <<>>]
  /\ sent = [c \in Children |-> <<>>]
  /\ ran = [c \in Children |-> <<>>]
-----------------------------------------------------------------------------
(* The parent.                                                             *)

(* The next pass of a loop, or the first step after it.                    *)
Loop(bound, again, after) ==
  IF i < bound THEN step' = again /\ i' = i + 1 ELSE step' = after /\ i' = 1

(* A failed assert aborts the parent, which closes what it had open.       *)
Abort ==
  /\ step' = "aborted"
  /\ ends' = [ends EXCEPT ![Parent] = {}]
  /\ UNCHANGED <<i, child, pipe, sent, ran>>

MakePipe ==
  /\ step = "pipe"
  /\ step' = "fork"
  /\ ends' = [ends EXCEPT ![Parent] = @ \cup {<<i, "read">>, <<i, "write">>}]
  /\ UNCHANGED <<i, child, pipe, sent, ran>>

Fork ==
  /\ step = "fork"
  /\ step' = "closeRead"
  /\ child' = [child EXCEPT ![i] = "start"]
  /\ ends' = [ends EXCEPT ![i] = ends[Parent]]
  /\ UNCHANGED <<i, pipe, sent, ran>>

PipeOrForkFails == step \in {"pipe", "fork"} /\ Abort

CloseRead ==
  /\ step = "closeRead"
  /\ ends' = [ends EXCEPT ![Parent] = @ \ {<<i, "read">>}]
  /\ Loop(N, "pipe", IF TaskCount = 0 THEN "closeWrite" ELSE "send")
  /\ UNCHANGED <<child, pipe, sent, ran>>

(* A random task for a random child.                                       *)
Send ==
  /\ step = "send"
  /\ \E c \in Children, task \in 0 .. TaskSize - 1 :
       /\ pipe' = [pipe EXCEPT ![c] = Append(@, task)]
       /\ sent' = [sent EXCEPT ![c] = Append(@, task)]
  /\ Loop(TaskCount, "send", "closeWrite")
  /\ UNCHANGED <<child, ends, ran>>

CloseWrite ==
  /\ step = "closeWrite"
  /\ ends' = [ends EXCEPT ![Parent] = @ \ {<<i, "write">>}]
  /\ Loop(N, "closeWrite", "wait")
  /\ UNCHANGED <<child, pipe, sent, ran>>

Wait ==
  /\ step = "wait"
  /\ child[i] = "zombie"
  /\ child' = [child EXCEPT ![i] = "reaped"]
  /\ Loop(N, "wait", "returned")
  /\ UNCHANGED <<ends, pipe, sent, ran>>
-----------------------------------------------------------------------------
(* A child.                                                                *)

KeepWriteEnd(c) ==  \* mutant: the child does not close fds[1]
  /\ child[c] = "start"
  /\ child' = [child EXCEPT ![c] = "read"]
  /\ UNCHANGED <<step, i, ends, pipe, sent, ran>>

CloseOwnWriteEnd(c) ==
  /\ child[c] = "start"
  /\ child' = [child EXCEPT ![c] = "read"]
  /\ ends' = [ends EXCEPT ![c] = @ \ {<<c, "write">>}]
  /\ UNCHANGED <<step, i, pipe, sent, ran>>

Read(c) ==
  /\ child[c] = "read"
  /\ pipe[c] # <<>>
  /\ ran' = [ran EXCEPT ![c] = Append(@, Head(pipe[c]))]
  /\ pipe' = [pipe EXCEPT ![c] = Tail(@)]
  /\ UNCHANGED <<step, i, child, ends, sent>>

Writers(c) == {p \in Processes : <<c, "write">> \in ends[p]}

ReadWithoutWriters(c) ==  \* mutant: a non-blocking read end; empty means end
  /\ child[c] = "read"
  /\ pipe[c] = <<>>
  /\ child' = [child EXCEPT ![c] = "zombie"]
  /\ ends' = [ends EXCEPT ![c] = {}]
  /\ UNCHANGED <<step, i, pipe, sent, ran>>

(* read returns 0 and the child exits, which closes all it had open.       *)
EndOfFile(c) ==
  /\ child[c] = "read"
  /\ pipe[c] = <<>>
  /\ Writers(c) = {}
  /\ child' = [child EXCEPT ![c] = "zombie"]
  /\ ends' = [ends EXCEPT ![c] = {}]
  /\ UNCHANGED <<step, i, pipe, sent, ran>>

ParentStep ==
  \/ MakePipe \/ Fork \/ CloseRead \/ Send \/ CloseWrite \/ Wait

ChildStep(c) == CloseOwnWriteEnd(c) \/ Read(c) \/ EndOfFile(c)

Next ==
  \/ ParentStep \/ PipeOrForkFails
  \/ \E c \in Children : ChildStep(c)

Spec == Init /\ [][Next]_vars

(* The kernel runs every process that can run; pipe and fork may fail.     *)
PoolSystem == ParentStep \/ \E c \in Children : ChildStep(c)

FairSpec == Spec /\ WF_vars(PoolSystem)
-----------------------------------------------------------------------------
(* What was sent to a child it has executed, or it is still in its pipe,   *)
(* in order; and a child that has exited has left nothing behind           *)
(* (processPool.cc:81-93, 105-114).                                        *)
TasksArrive ==
  \A c \in Children :
    /\ sent[c] = ran[c] \o pipe[c]
    /\ child[c] \in {"zombie", "reaped"} => pipe[c] = <<>> /\ step # "send"

(* Because every later child inherits the write end of an earlier one's    *)
(* pipe, the children end in the reverse order of their creation           *)
(* (processPool.cc:75-98).                                                 *)
ReverseExit ==
  \A c, d \in Children :
    /\ c < d
    /\ child[c] \in {"zombie", "reaped"}
    /\ child[d] # "none"
    => child[d] \in {"zombie", "reaped"}

PoolSafe == TypeOK /\ TasksArrive /\ ReverseExit

(* In the end the parent has returned with every child reaped, or an       *)
(* assertion ended it and the children have exited: all write ends are     *)
(* closed before the first wait, so that every child sees its end of file  *)
(* (processPool.cc:71-76, 115-123).                                        *)
PoolSettled ==
  \/ step = "returned" /\ \A c \in Children : child[c] = "reaped"
  \/ step = "aborted" /\ \A c \in Children : child[c] \in {"none", "zombie"}
=============================================================================
