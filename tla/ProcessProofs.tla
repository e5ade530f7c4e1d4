---------------------------- MODULE ProcessProofs ---------------------------
(***************************************************************************)
(* Proofs about the pool of child processes, the buffered files, the words *)
(* sent through a pipe, the segment of shared memory and the shell:        *)
(* ProcPool, MyStdio, Pipes, SharedMemory and MyShell.                     *)
(***************************************************************************)
EXTENDS ProcPool, MyStdio, MyShell, Pipes, SharedMemory, ProofLemmas
-----------------------------------------------------------------------------
(***************************************************************************)
(* ProcPool, for any number of children and tasks: what is sent arrives in *)
(* order, no child ends while the parent still sends, and the children end *)
(* in the reverse order of their creation.                                 *)
(***************************************************************************)
(* The kinds of task, and who has been forked and ended.                   *)
Kinds == 0 .. TaskSize - 1
Exited == {"zombie", "reaped"}
Alive == {"start", "read"}

(* The loop variable is in the range of its loop.                          *)
StepType ==
  /\ TypeOK
  /\ step \in {"pipe", "fork", "closeRead", "closeWrite", "wait"} => i \in Children
  /\ step = "send" => i \in 1 .. TaskCount

(* The children are forked in the order of their pipes, and nobody exits   *)
(* before the parent begins to close its write ends.                       *)
ForkInv ==
  /\ step \in {"pipe", "fork"} => \A c \in Children : child[c] # "none" <=> c < i
  /\ step = "closeRead" => \A c \in Children : child[c] # "none" <=> c <= i
  /\ step \in {"pipe", "fork", "closeRead", "send"} => \A c \in Children : child[c] \notin Exited

(* Who holds the write end of pipe c: the parent, from its making to its   *)
(* closing, and every living child that was forked later.                  *)
WriterInv ==
  /\ step = "pipe" => \A c \in Children : c < i => <<c, "write">> \in ends[Parent]
  /\ step \in {"fork", "closeRead"} =>
       \A c \in Children : c <= i => <<c, "write">> \in ends[Parent]
  /\ step = "send" => \A c \in Children : <<c, "write">> \in ends[Parent]
  /\ \A c, d \in Children : c < d /\ child[d] \in Alive => <<c, "write">> \in ends[d]

(* The inductive invariant.                                                *)
PoolInv == StepType /\ ForkInv /\ WriterInv /\ TasksArrive /\ ReverseExit
-----------------------------------------------------------------------------
(* A task read from the front of a pipe.                                   *)
LEMMA PipeRead ==
  ASSUME NEW S, NEW r \in Seq(S), NEW p \in Seq(S), p # <<>>
  PROVE  Append(r, Head(p)) \o Tail(p) = r \o p
  <1>1. Head(p) \in S /\ Tail(p) \in Seq(S) /\ <<Head(p)>> \in Seq(S)
    BY HeadTailProperties
  <1>2. Append(r, Head(p)) = r \o <<Head(p)>>
    BY <1>1, AppendIsConcat
  <1>3. <<Head(p)>> \o Tail(p) = p
    BY <1>1
  <1> QED
    BY <1>1, <1>2, <1>3, ConcatAssociative

(* Nothing is forked initially.                                            *)
LEMMA PoolInitInv == PoolAssumption /\ Init => PoolInv
  <1> SUFFICES ASSUME PoolAssumption, Init PROVE PoolInv
    OBVIOUS
  <1> USE DEF PoolAssumption
  <1>1. StepType
    BY DEF Init, StepType, TypeOK, Steps, Children, Processes, Parent, Ends
  <1>2. ForkInv /\ WriterInv
    BY DEF Init, ForkInv, WriterInv, Children, Exited, Alive
  <1>3. TasksArrive /\ ReverseExit
    BY DEF Init, TasksArrive, ReverseExit
  <1> QED
    BY <1>1, <1>2, <1>3 DEF PoolInv

(* The steps that touch neither a pipe nor what was sent or executed keep  *)
(* the tasks where they are.                                               *)
LEMMA TasksStay ==
  ASSUME PoolInv, UNCHANGED <<pipe, sent, ran>>, step' # "send" \/ step = "send" \/ ForkInv',
         \A c \in Children : child'[c] \in Exited => child[c] \in Exited
  PROVE  TasksArrive'
  <1>1. ASSUME NEW c \in Children, child'[c] \in Exited
        PROVE  pipe'[c] = <<>> /\ step' # "send"
    BY <1>1 DEF PoolInv, TasksArrive, ForkInv, Exited
  <1> QED
    BY <1>1 DEF PoolInv, TasksArrive, Exited

(* The parent makes a pipe and forks; each may fail.                       *)
LEMMA ForkStep ==
  ASSUME PoolAssumption, PoolInv, MakePipe \/ Fork \/ PipeOrForkFails
  PROVE  PoolInv'
  <1> USE DEF PoolAssumption
  <1>1. CASE MakePipe
    <2>1. /\ step = "pipe" /\ step' = "fork" /\ i \in Children
          /\ ends' = [ends EXCEPT ![Parent] = @ \cup {<<i, "read">>, <<i, "write">>}]
          /\ UNCHANGED <<i, child, pipe, sent, ran>>
      BY <1>1 DEF MakePipe, PoolInv, StepType
    <2>2. <<i, "read">> \in Ends /\ <<i, "write">> \in Ends
      BY <2>1 DEF Ends
    <2>3. StepType'
      BY <2>1, <2>2 DEF PoolInv, StepType, TypeOK, Steps, Processes
    <2>4. ForkInv'
      BY <2>1 DEF PoolInv, ForkInv
    <2>5. WriterInv'
      <3>1. /\ ends[Parent] \cup {<<i, "write">>} \subseteq ends'[Parent]
            /\ \A d \in Children : ends'[d] = ends[d]
        BY <2>1 DEF PoolInv, StepType, TypeOK, Processes, Parent, Children
      <3>2. \A c \in Children : c <= i => c < i \/ c = i
        BY <2>1 DEF Children
      <3> QED
        BY <2>1, <3>1, <3>2 DEF PoolInv, WriterInv
    <2>6. TasksArrive' /\ ReverseExit'
      BY <2>1, <2>4, TasksStay DEF PoolInv, ReverseExit
    <2> QED
      BY <2>3, <2>4, <2>5, <2>6 DEF PoolInv
  <1>2. CASE Fork
    <2>1. /\ step = "fork" /\ step' = "closeRead" /\ i \in Children
          /\ child' = [child EXCEPT ![i] = "start"]
          /\ ends' = [ends EXCEPT ![i] = ends[Parent]]
          /\ UNCHANGED <<i, pipe, sent, ran>>
      BY <1>2 DEF Fork, PoolInv, StepType
    <2>2. /\ child'[i] = "start" /\ \A c \in Children \ {i} : child'[c] = child[c]
          /\ ends'[Parent] = ends[Parent] /\ ends'[i] = ends[Parent]
          /\ \A c \in Children \ {i} : ends'[c] = ends[c]
      BY <2>1 DEF PoolInv, StepType, TypeOK, Processes, Parent, Children
    <2>3. StepType'
      BY <2>1 DEF PoolInv, StepType, TypeOK, Steps, Processes, Parent
    <2>4. ForkInv'
      <3>1. \A c \in Children : child'[c] # "none" <=> c <= i
        BY <2>1, <2>2 DEF PoolInv, ForkInv, Children
      <3>2. \A c \in Children : child'[c] \notin Exited
        BY <2>1, <2>2 DEF PoolInv, ForkInv, Exited
      <3> QED
        BY <2>1, <3>1, <3>2 DEF ForkInv
    <2>5. WriterInv'
      <3>1. \A c, d \in Children : c < d /\ child'[d] \in Alive => <<c, "write">> \in ends'[d]
        <4>1. ASSUME NEW c \in Children, c < i
              PROVE  <<c, "write">> \in ends'[i]
          BY <2>1, <2>2, <4>1 DEF PoolInv, WriterInv, Children
        <4> QED
          BY <2>2, <4>1 DEF PoolInv, WriterInv
      <3> QED
        BY <2>1, <2>2, <3>1 DEF PoolInv, WriterInv
    <2>6. TasksArrive' /\ ReverseExit'
      <3>1. \A c \in Children : child'[c] \notin Exited
        BY <2>1, <2>2 DEF PoolInv, ForkInv, Exited
      <3> QED
        BY <2>1, <3>1, TasksStay DEF ReverseExit, Exited
    <2> QED
      BY <2>3, <2>4, <2>5, <2>6 DEF PoolInv
  <1>3. CASE PipeOrForkFails
    <2>1. /\ step' = "aborted" /\ ends' = [ends EXCEPT ![Parent] = {}]
          /\ UNCHANGED <<i, child, pipe, sent, ran>>
      BY <1>3 DEF PipeOrForkFails, Abort
    <2>2. StepType'
      BY <2>1 DEF PoolInv, StepType, TypeOK, Steps, Processes
    <2>3. ForkInv'
      BY <2>1 DEF ForkInv
    <2>4. WriterInv'
      <3>1. \A d \in Children : ends'[d] = ends[d]
        BY <2>1 DEF PoolInv, StepType, TypeOK, Processes, Parent, Children
      <3> QED
        BY <2>1, <3>1 DEF PoolInv, WriterInv
    <2>5. TasksArrive' /\ ReverseExit'
      BY <2>1, TasksStay DEF PoolInv, ReverseExit
    <2> QED
      BY <2>2, <2>3, <2>4, <2>5 DEF PoolInv
  <1> QED
    BY <1>1, <1>2, <1>3

(* The parent closes a read end, writes a task or closes a write end.      *)
LEMMA UseStep ==
  ASSUME PoolAssumption, PoolInv, CloseRead \/ Send \/ CloseWrite
  PROVE  PoolInv'
  <1> USE DEF PoolAssumption
  <1>1. CASE CloseRead
    <2>1. /\ step = "closeRead" /\ i \in Children
          /\ ends' = [ends EXCEPT ![Parent] = @ \ {<<i, "read">>}]
          /\ UNCHANGED <<child, pipe, sent, ran>>
          /\ \/ i < N /\ step' = "pipe" /\ i' = i + 1
             \/ i = N /\ i' = 1 /\ step' = "send" /\ TaskCount # 0
             \/ i = N /\ i' = 1 /\ step' = "closeWrite"
      BY <1>1 DEF CloseRead, Loop, PoolInv, StepType, Children
    <2>2. /\ \A d \in Children : ends'[d] = ends[d]
          /\ \A c \in Children : <<c, "write">> \in ends[Parent] => <<c, "write">> \in ends'[Parent]
      BY <2>1 DEF PoolInv, StepType, TypeOK, Processes, Parent, Children
    <2>3. StepType'
      <3>1. ends' \in [Processes -> SUBSET Ends]
        BY <2>1 DEF PoolInv, StepType, TypeOK, Processes
      <3>2. /\ i' \in Children /\ i' \in 1 .. N + TaskCount + 1 /\ step' \in Steps
            /\ step' = "send" => i' \in 1 .. TaskCount
        BY <2>1 DEF Children, Steps
      <3> QED
        BY <2>1, <3>1, <3>2 DEF PoolInv, StepType, TypeOK
    <2>4. ForkInv'
      BY <2>1 DEF PoolInv, ForkInv, Children
    <2>5. WriterInv'
      BY <2>1, <2>2 DEF PoolInv, WriterInv, Children
    <2>6. TasksArrive' /\ ReverseExit'
      BY <2>1, <2>4, TasksStay DEF PoolInv, ReverseExit
    <2> QED
      BY <2>3, <2>4, <2>5, <2>6 DEF PoolInv
  <1>2. CASE Send
    <2>1. PICK c \in Children, task \in Kinds :
            /\ pipe' = [pipe EXCEPT ![c] = Append(@, task)]
            /\ sent' = [sent EXCEPT ![c] = Append(@, task)]
      BY <1>2 DEF Send, Kinds
    <2>2. /\ step = "send" /\ i \in 1 .. TaskCount
          /\ UNCHANGED <<child, ends, ran>>
          /\ \/ i < TaskCount /\ step' = "send" /\ i' = i + 1
             \/ i' = 1 /\ step' = "closeWrite"
      BY <1>2 DEF Send, Loop, PoolInv, StepType
    <2>3. pipe[c] \in Seq(Kinds) /\ sent[c] \in Seq(Kinds) /\ ran[c] \in Seq(Kinds)
      BY DEF PoolInv, StepType, TypeOK, Kinds
    <2>4. StepType'
      <3>1. pipe' \in [Children -> Seq(Kinds)] /\ sent' \in [Children -> Seq(Kinds)]
        BY <2>1, <2>3 DEF PoolInv, StepType, TypeOK, Kinds
      <3>2. /\ step' = "send" => i' \in 1 .. TaskCount
            /\ i' \in 1 .. N + TaskCount + 1 /\ step' \in {"send", "closeWrite"}
            /\ step' = "closeWrite" => i' \in Children
        BY <2>2 DEF Children
      <3> QED
        BY <2>2, <3>1, <3>2 DEF PoolInv, StepType, TypeOK, Steps, Kinds
    <2>5. ForkInv' /\ WriterInv'
      BY <2>2 DEF PoolInv, ForkInv, WriterInv
    <2>6. TasksArrive'
      <3>1. \A d \in Children : child'[d] \notin Exited
        BY <2>2 DEF PoolInv, ForkInv
      <3>2. sent'[c] = ran'[c] \o pipe'[c]
        <4>1. sent[c] = ran[c] \o pipe[c]
          BY DEF PoolInv, TasksArrive
        <4>2. sent'[c] = Append(sent[c], task) /\ pipe'[c] = Append(pipe[c], task)
          BY <2>1 DEF PoolInv, StepType, TypeOK
        <4>3. Append(sent[c], task) = ran[c] \o Append(pipe[c], task)
          <5>1. PICK r \in Seq(Kinds), p \in Seq(Kinds) : r = ran[c] /\ p = pipe[c]
            BY <2>3
          <5>2. Append(r \o p, task) = r \o Append(p, task)
            <6>1. task \in Kinds /\ <<task>> \in Seq(Kinds) /\ r \o p \in Seq(Kinds)
              BY <2>1
            <6>2. Append(r \o p, task) = (r \o p) \o <<task>>
              BY <6>1, AppendIsConcat
            <6>3. Append(p, task) = p \o <<task>>
              BY <6>1, AppendIsConcat
            <6> QED
              BY <6>1, <6>2, <6>3, ConcatAssociative
          <5> QED
            BY <4>1, <5>1, <5>2
        <4> QED
          BY <2>2, <4>1, <4>2, <4>3
      <3>3. \A d \in Children \ {c} : sent'[d] = ran'[d] \o pipe'[d]
        BY <2>1, <2>2 DEF PoolInv, TasksArrive, StepType, TypeOK
      <3> QED
        BY <3>1, <3>2, <3>3 DEF TasksArrive, Exited
    <2>7. ReverseExit'
      BY <2>2 DEF PoolInv, ReverseExit
    <2> QED
      BY <2>4, <2>5, <2>6, <2>7 DEF PoolInv
  <1>3. CASE CloseWrite
    <2>1. /\ step = "closeWrite" /\ i \in Children
          /\ ends' = [ends EXCEPT ![Parent] = @ \ {<<i, "write">>}]
          /\ UNCHANGED <<child, pipe, sent, ran>>
          /\ \/ step' = "closeWrite" /\ i' = i + 1 /\ i < N
             \/ step' = "wait" /\ i' = 1
      BY <1>3 DEF CloseWrite, Loop, PoolInv, StepType
    <2>2. StepType'
      <3>1. ends' \in [Processes -> SUBSET Ends]
        BY <2>1 DEF PoolInv, StepType, TypeOK, Processes
      <3>2. i' \in Children /\ i' \in 1 .. N + TaskCount + 1 /\ step' \in {"closeWrite", "wait"}
        BY <2>1 DEF Children
      <3> QED
        BY <2>1, <3>1, <3>2 DEF PoolInv, StepType, TypeOK, Steps
    <2>3. ForkInv'
      BY <2>1 DEF ForkInv
    <2>4. WriterInv'
      <3>1. \A d \in Children : ends'[d] = ends[d]
        BY <2>1 DEF PoolInv, StepType, TypeOK, Processes, Parent, Children
      <3> QED
        BY <2>1, <3>1 DEF PoolInv, WriterInv
    <2>5. TasksArrive' /\ ReverseExit'
      BY <2>1, TasksStay DEF PoolInv, ReverseExit
    <2> QED
      BY <2>2, <2>3, <2>4, <2>5 DEF PoolInv
  <1> QED
    BY <1>1, <1>2, <1>3

(* The parent waits for one child after the other.                         *)
LEMMA WaitStep ==
  ASSUME PoolAssumption, PoolInv, Wait
  PROVE  PoolInv'
  <1> USE DEF PoolAssumption
  <1>1. /\ step = "wait" /\ i \in Children
        /\ child[i] = "zombie" /\ child' = [child EXCEPT ![i] = "reaped"]
        /\ UNCHANGED <<ends, pipe, sent, ran>>
        /\ \/ step' = "wait" /\ i' = i + 1 /\ i < N
           \/ step' = "returned" /\ i' = 1
    BY DEF Wait, Loop, PoolInv, StepType
  <1>2. child'[i] = "reaped" /\ \A c \in Children \ {i} : child'[c] = child[c]
    BY <1>1 DEF PoolInv, StepType, TypeOK
  <1>3. StepType'
    <2>1. i' \in Children /\ i' \in 1 .. N + TaskCount + 1 /\ step' \in {"wait", "returned"}
      BY <1>1 DEF Children
    <2> QED
      BY <1>1, <2>1 DEF PoolInv, StepType, TypeOK, Steps
  <1>4. ForkInv'
    BY <1>1 DEF ForkInv
  <1>5. WriterInv'
    BY <1>1, <1>2 DEF PoolInv, WriterInv, Alive
  <1>6. TasksArrive'
    BY <1>1, <1>2, TasksStay DEF Exited
  <1>7. ReverseExit'
    BY <1>1, <1>2 DEF PoolInv, ReverseExit
  <1> QED
    BY <1>3, <1>4, <1>5, <1>6, <1>7 DEF PoolInv

(* A child closes its own write end, executes a task, or sees the end of   *)
(* its file: then no later child lives, for it would hold the write end.   *)
LEMMA ChildSteps ==
  ASSUME PoolAssumption, PoolInv, NEW c \in Children, ChildStep(c)
  PROVE  PoolInv'
  <1> USE DEF PoolAssumption
  <1>1. CASE CloseOwnWriteEnd(c)
    <2>1. /\ child[c] = "start" /\ child' = [child EXCEPT ![c] = "read"]
          /\ ends' = [ends EXCEPT ![c] = @ \ {<<c, "write">>}]
          /\ UNCHANGED <<step, i, pipe, sent, ran>>
      BY <1>1 DEF CloseOwnWriteEnd
    <2>2. /\ child'[c] = "read" /\ \A d \in Children \ {c} : child'[d] = child[d]
          /\ ends'[Parent] = ends[Parent] /\ ends'[c] = ends[c] \ {<<c, "write">>}
          /\ \A d \in Children \ {c} : ends'[d] = ends[d]
      BY <2>1 DEF PoolInv, StepType, TypeOK, Processes, Parent, Children
    <2>3. StepType'
      BY <2>1 DEF PoolInv, StepType, TypeOK, Processes
    <2>4. ForkInv'
      BY <2>1, <2>2 DEF PoolInv, ForkInv, Exited
    <2>5. WriterInv'
      <3>1. \A b \in Children : b < c => <<b, "write">> \in ends'[c]
        <4>1. \A b \in Children : b < c => <<b, "write">> \in ends[c]
          BY <2>1 DEF PoolInv, WriterInv, Alive
        <4>2. \A b \in Children : b < c => <<b, "write">> # <<c, "write">>
          BY DEF Children
        <4> QED
          BY <2>2, <4>1, <4>2
      <3> QED
        BY <2>1, <2>2, <3>1 DEF PoolInv, WriterInv
    <2>6. TasksArrive' /\ ReverseExit'
      BY <2>1, <2>2, TasksStay DEF PoolInv, ReverseExit, Exited
    <2> QED
      BY <2>3, <2>4, <2>5, <2>6 DEF PoolInv
  <1>2. CASE Read(c)
    <2>1. /\ child[c] = "read" /\ pipe[c] # <<>>
          /\ ran' = [ran EXCEPT ![c] = Append(@, Head(pipe[c]))]
          /\ pipe' = [pipe EXCEPT ![c] = Tail(@)]
          /\ UNCHANGED <<step, i, child, ends, sent>>
      BY <1>2 DEF Read
    <2>2. pipe[c] \in Seq(Kinds) /\ ran[c] \in Seq(Kinds)
      BY DEF PoolInv, StepType, TypeOK, Kinds
    <2>3. /\ ran'[c] = Append(ran[c], Head(pipe[c])) /\ pipe'[c] = Tail(pipe[c])
          /\ \A d \in Children \ {c} : ran'[d] = ran[d] /\ pipe'[d] = pipe[d]
      BY <2>1 DEF PoolInv, StepType, TypeOK
    <2>4. StepType'
      <3>1. Head(pipe[c]) \in Kinds /\ Tail(pipe[c]) \in Seq(Kinds)
        BY <2>1, <2>2
      <3>2. ran' \in [Children -> Seq(Kinds)] /\ pipe' \in [Children -> Seq(Kinds)]
        BY <2>1, <2>2, <3>1 DEF PoolInv, StepType, TypeOK, Kinds
      <3> QED
        BY <2>1, <3>2 DEF PoolInv, StepType, TypeOK, Kinds
    <2>5. ForkInv' /\ WriterInv' /\ ReverseExit'
      BY <2>1 DEF PoolInv, ForkInv, WriterInv, ReverseExit
    <2>6. TasksArrive'
      <3>1. ran'[c] \o pipe'[c] = ran[c] \o pipe[c]
        <4>1. Head(pipe[c]) \in Kinds
          BY <2>1, <2>2
        <4>2. Append(ran[c], Head(pipe[c])) \o Tail(pipe[c]) = ran[c] \o pipe[c]
          BY <2>1, <2>2, <4>1, PipeRead
        <4> QED
          BY <2>3, <4>2
      <3>2. sent'[c] = ran'[c] \o pipe'[c]
        BY <2>1, <3>1 DEF PoolInv, TasksArrive
      <3> QED
        BY <2>1, <2>3, <3>2 DEF PoolInv, TasksArrive
    <2> QED
      BY <2>4, <2>5, <2>6 DEF PoolInv
  <1>3. CASE EndOfFile(c)
    <2>1. /\ child[c] = "read" /\ pipe[c] = <<>> /\ Writers(c) = {}
          /\ child' = [child EXCEPT ![c] = "zombie"]
          /\ ends' = [ends EXCEPT ![c] = {}]
          /\ UNCHANGED <<step, i, pipe, sent, ran>>
      BY <1>3 DEF EndOfFile
    <2>2. /\ child'[c] = "zombie" /\ \A d \in Children \ {c} : child'[d] = child[d]
          /\ ends'[Parent] = ends[Parent] /\ \A d \in Children \ {c} : ends'[d] = ends[d]
      BY <2>1 DEF PoolInv, StepType, TypeOK, Processes, Parent, Children
    <2>3. \A p \in Processes : <<c, "write">> \notin ends[p]
      BY <2>1 DEF Writers
    <2>4. step \notin {"pipe", "fork", "closeRead", "send"}
      <3>1. <<c, "write">> \notin ends[Parent]
        BY <2>3 DEF Processes
      <3>2. step = "pipe" => c < i
        BY <2>1 DEF PoolInv, ForkInv
      <3>3. step = "fork" => c < i
        BY <2>1 DEF PoolInv, ForkInv
      <3>4. step = "closeRead" => c <= i
        BY <2>1 DEF PoolInv, ForkInv
      <3>5. step = "fork" => c <= i
        BY <3>3 DEF PoolInv, StepType, Children
      <3> QED
        BY <3>1, <3>2, <3>4, <3>5 DEF PoolInv, WriterInv
    <2>5. StepType'
      BY <2>1 DEF PoolInv, StepType, TypeOK, Processes
    <2>6. ForkInv'
      BY <2>1, <2>4 DEF ForkInv
    <2>7. WriterInv'
      BY <2>1, <2>2, <2>4 DEF PoolInv, WriterInv, Alive
    <2>8. TasksArrive'
      BY <2>1, <2>2, <2>4 DEF PoolInv, TasksArrive
    <2>9. ReverseExit'
      <3>1. ASSUME NEW d \in Children, c < d, child[d] # "none"
            PROVE  child[d] \in Exited
        <4>1. child[d] \notin Alive
          BY <2>3, <3>1 DEF PoolInv, WriterInv, Processes
        <4> QED
          BY <3>1, <4>1 DEF PoolInv, StepType, TypeOK, Alive, Exited
      <3>2. \A d \in Children : c < d => d # c
        BY DEF Children
      <3> QED
        BY <2>2, <3>1, <3>2 DEF PoolInv, ReverseExit, Exited
    <2> QED
      BY <2>5, <2>6, <2>7, <2>8, <2>9 DEF PoolInv
  <1> QED
    BY <1>1, <1>2, <1>3 DEF ChildStep

(* Each step, or none, keeps the invariant.                                *)
LEMMA PoolNextInv ==
  ASSUME PoolAssumption, PoolInv, [Next]_vars
  PROVE  PoolInv'
  <1>1. CASE UNCHANGED vars
    BY <1>1 DEF vars, PoolInv, StepType, TypeOK, ForkInv, WriterInv, TasksArrive, ReverseExit
  <1> QED
    BY <1>1, ForkStep, UseStep, WaitStep, ChildSteps DEF Next, ParentStep

(* PoolInv holds in every state.                                           *)
THEOREM PoolInductive ==
  ASSUME PoolAssumption
  PROVE  Spec => []PoolInv
  <1>1. Init => PoolInv
    BY PoolInitInv
  <1>2. PoolInv /\ [Next]_vars => PoolInv'
    BY PoolNextInv
  <1> QED
    BY <1>1, <1>2, PTL DEF Spec
-----------------------------------------------------------------------------
(* What was sent arrives in order, and the children end in the reverse     *)
(* order of their creation (processPool.cc:75-98, 105-114).                *)
THEOREM PoolIsSafe ==
  ASSUME PoolAssumption
  PROVE  Spec => []PoolSafe
  <1>1. PoolInv => PoolSafe
    BY DEF PoolInv, StepType, PoolSafe
  <1> QED
    BY <1>1, PoolInductive, PTL
-----------------------------------------------------------------------------
(***************************************************************************)
(* MyStdio, for any buffer size, chunks and number of writes: what fwrite_ *)
(* was given, what is in the file and what is on the disk, through kills   *)
(* and power failures.                                                     *)
(***************************************************************************)
(* Once something has been flushed, the disk holds a beginning of the      *)
(* file.                                                                   *)
DiskBehind == safe # <<>> => IsPrefix(disk, file)

(* Before fopen_ nothing has happened.                                     *)
NothingYet ==
  pc = "closed" =>
    file = Old /\ buffer = <<>> /\ written = <<>> /\ safe = <<>>

(* The inductive invariant.                                                *)
StdioInv ==
  /\ StdioTypeOK /\ written \in Seq(Characters) /\ safe \in Seq(Characters)
  /\ NothingYet /\ Accounted /\ Durable /\ WholeLines /\ DiskBehind
-----------------------------------------------------------------------------
(* The end of a concatenation is the end of its second part.               *)
LEMMA LastOfConcat ==
  ASSUME NEW S, NEW s \in Seq(S), NEW t \in Seq(S), t # <<>>
  PROVE  Last(s \o t) = Last(t)
  <1>1. Len(s) \in Nat /\ Len(t) \in Nat \ {0}
    BY LenProperties, EmptySeq
  <1>2. Len(s \o t) = Len(s) + Len(t)
    BY ConcatProperties
  <1>3. (s \o t)[Len(s) + Len(t)] = t[Len(s) + Len(t) - Len(s)]
    BY <1>1, ConcatProperties
  <1>4. Len(s) + Len(t) - Len(s) = Len(t)
    BY <1>1
  <1> QED
    BY <1>2, <1>3, <1>4 DEF Last

(* The empty sequence is a prefix of every sequence, every sequence of     *)
(* itself, and what is appended leaves the prefixes.                       *)
LEMMA PrefixFacts ==
  ASSUME NEW S, NEW s \in Seq(S), NEW t \in Seq(S), NEW u \in Seq(S)
  PROVE  /\ IsPrefix(<<>>, s) /\ IsPrefix(s, s)
         /\ IsPrefix(s, t) => IsPrefix(s, t \o u)
  <1>1. Len(s) \in Nat /\ Len(t) \in Nat /\ Len(u) \in Nat /\ Len(<<>>) = 0
    BY LenProperties, EmptySeq
  <1>2. SubSeq(<<>>, 1, 0) = <<>> /\ SubSeq(s, 1, 0) = <<>>
    BY SubSeqEmpty
  <1>3. IsPrefix(<<>>, s) /\ IsPrefix(s, s)
    BY <1>1, <1>2 DEF IsPrefix
  <1>4. ASSUME IsPrefix(s, t) PROVE IsPrefix(s, t \o u)
    <2>1. Len(s) <= Len(t) /\ SubSeq(s, 1, Len(s)) = SubSeq(t, 1, Len(s))
      BY <1>4 DEF IsPrefix
    <2>2. Len(t \o u) = Len(t) + Len(u)
      BY ConcatProperties
    <2>3. SubSeq(t \o u, 1, Len(s)) = SubSeq(t, 1, Len(s))
      <3>1. CASE Len(s) = 0
        BY <3>1, SubSeqEmpty
      <3>2. CASE Len(s) # 0
        <4>1. 1 \in 1 .. Len(t) /\ Len(s) \in 1 .. Len(t)
          BY <1>1, <2>1, <3>2
        <4> QED
          BY <4>1, SubSeqOfConcat1
      <3> QED
        BY <3>1, <3>2
    <2> QED
      BY <1>1, <2>1, <2>2, <2>3 DEF IsPrefix
  <1> QED
    BY <1>3, <1>4

(* A prefix that ends early enough is one of what comes before that end.   *)
LEMMA PrefixOfBeginning ==
  ASSUME NEW S, NEW s \in Seq(S), NEW t \in Seq(S), IsPrefix(s, t),
         NEW n \in Len(s) .. Len(t)
  PROVE  IsPrefix(s, SubSeq(t, 1, n))
  <1>1. Len(s) \in Nat /\ Len(t) \in Nat /\ n \in Nat
    BY LenProperties
  <1>2. CASE s = <<>>
    <2>1. SubSeq(t, 1, n) \in Seq(S)
      <3>1. \A k \in 1 .. n : t[k] \in S
        BY <1>1, ElementOfSeq
      <3> QED
        BY <1>1, <3>1, SubSeqProperties
    <2> QED
      BY <1>2, <2>1, PrefixFacts
  <1>3. CASE s # <<>>
    <2>1. Len(s) \in 1 .. n /\ 1 \in 1 .. Len(t) /\ n \in 1 .. Len(t)
      BY <1>1, <1>3, EmptySeq
    <2>2. SubSeq(SubSeq(t, 1, n), 1, Len(s)) = SubSeq(t, 1, Len(s))
      <3>1. SubSeq(SubSeq(t, 1, n), 1, Len(s)) = SubSeq(t, 1 + 1 - 1, 1 + Len(s) - 1)
        BY <1>1, <2>1, SubSeqOfSubSeq
      <3> QED
        BY <1>1, <3>1
    <2>3. Len(SubSeq(t, 1, n)) = n
      <3>1. \A k \in 1 .. n : t[k] \in S
        BY <1>1, ElementOfSeq
      <3>2. Len(SubSeq(t, 1, n)) = IF 1 <= n THEN n - 1 + 1 ELSE 0
        BY <1>1, <3>1, SubSeqProperties
      <3> QED
        BY <1>1, <2>1, <3>2
    <2> QED
      BY <1>1, <2>1, <2>2, <2>3 DEF IsPrefix
  <1> QED
    BY <1>2, <1>3

(* What comes first in a sequence is a prefix of it.                       *)
LEMMA BeginningIsPrefix ==
  ASSUME NEW S, NEW t \in Seq(S), NEW n \in 0 .. Len(t)
  PROVE  SubSeq(t, 1, n) \in Seq(S) /\ IsPrefix(SubSeq(t, 1, n), t)
  <1>1. Len(t) \in Nat /\ n \in Nat /\ n <= Len(t)
    BY LenProperties
  <1>2. \A k \in 1 .. n : t[k] \in S
    BY <1>1, ElementOfSeq
  <1>3. /\ SubSeq(t, 1, n) \in Seq(S)
        /\ Len(SubSeq(t, 1, n)) = IF 1 <= n THEN n - 1 + 1 ELSE 0
    BY <1>1, <1>2, SubSeqProperties
  <1>4. Len(SubSeq(t, 1, n)) = n
    BY <1>1, <1>3
  <1>5. SubSeq(SubSeq(t, 1, n), 1, n) = SubSeq(t, 1, n)
    BY <1>3, <1>4, SubSeqFull
  <1> QED
    BY <1>1, <1>3, <1>4, <1>5 DEF IsPrefix

(* A write of the whole buffer moves it to the end of the file, a write of *)
(* a part leaves a trace in cut.                                           *)
LEMMA WriteStep ==
  ASSUME StdioInv, NEW data \in Seq(Characters), Write(data), UNCHANGED <<disk, safe>>
  PROVE  /\ buffer' = <<>> /\ file' \in Seq(Characters) /\ cut' \in BOOLEAN
         /\ IsPrefix(safe, file') /\ DiskBehind'
         /\ cut => cut'
         /\ ~cut' => file' = file \o data
  <1>1. PICK n \in 0 .. Len(data) :
          file' = file \o SubSeq(data, 1, n) /\ cut' = (cut \/ n < Len(data))
    BY LenProperties DEF Write
  <1>2. SubSeq(data, 1, n) \in Seq(Characters)
    BY <1>1, SubSeqProperties
  <1>3. file' \in Seq(Characters) /\ IsPrefix(safe, file')
    BY <1>1, <1>2, PrefixFacts, ConcatProperties DEF StdioInv, StdioTypeOK, Durable
  <1>6. DiskBehind'
    <2>1. IsPrefix(disk, file) => IsPrefix(disk, file \o SubSeq(data, 1, n))
      BY <1>2, PrefixFacts DEF StdioInv, StdioTypeOK
    <2> QED
      BY <1>1, <2>1 DEF StdioInv, DiskBehind
  <1>4. ASSUME ~cut' PROVE file' = file \o data
    <2>1. ~ (n < Len(data))
      BY <1>1, <1>4
    <2>2. Len(data) \in Nat
      BY LenProperties
    <2>3. n = Len(data)
      BY <1>1, <2>1, <2>2
    <2> QED
      BY <1>1, <2>3, SubSeqFull
  <1>5. buffer' = <<>> /\ cut' \in BOOLEAN /\ (cut => cut')
    BY <1>1 DEF Write, StdioInv, StdioTypeOK
  <1> QED
    BY <1>3, <1>4, <1>5, <1>6

(* fwrite_ adds its characters to the buffer, and perhaps hands it on.     *)
LEMMA fwrite_Step ==
  ASSUME StdioAssumption, StdioInv, fwrite_
  PROVE  StdioInv'
  <1>1. PICK chunk \in Chunks :
          /\ Len(buffer \o chunk) <= SIZE
          /\ written' = written \o chunk
          /\ IF Flushes(buffer \o chunk) THEN Write(buffer \o chunk)
             ELSE buffer' = buffer \o chunk /\ UNCHANGED <<file, cut>>
    BY DEF fwrite_
  <1> DEFINE data == buffer \o chunk
  <1>2. /\ pc = "open" /\ calls' \in 0 .. MaxWrites
        /\ UNCHANGED <<pc, mode, flags, disk, flushed, safe>>
    BY DEF fwrite_, StdioInv, StdioTypeOK, StdioAssumption
  <1>3. /\ chunk \in Seq(Characters) /\ Len(chunk) > 0
        /\ buffer \in Seq(Characters) /\ written \in Seq(Characters)
        /\ file \in Seq(Characters) /\ Base \in Seq(Characters)
    BY EmptySeq DEF StdioAssumption, StdioInv, StdioTypeOK, Base
  <1>4. /\ data \in Seq(Characters) /\ written' \in Seq(Characters)
        /\ Len(data) = Len(buffer) + Len(chunk)
    BY <1>1, <1>3, ConcatProperties
  <1>5. Len(data) \in Nat \ {0} /\ data # <<>>
    BY <1>3, <1>4, LenProperties, EmptySeq
  <1> HIDE DEF data
  <1>6. ~cut => Base \o written' = file \o data
    <2>1. ~cut => Base \o written = file \o buffer
      BY <1>2 DEF StdioInv, Accounted
    <2>2. ASSUME Cat(Base, written) = Cat(file, buffer)
          PROVE  Cat(Base, Cat(written, chunk)) = Cat(file, Cat(buffer, chunk))
      BY <1>3, <2>2, CatBoth
    <2> QED
      BY <1>1, <2>1, <2>2 DEF data, Cat
  <1>7. CASE Flushes(data)
    <2>1. Write(data)
      BY <1>1, <1>7 DEF data
    <2>2. /\ buffer' = <<>> /\ file' \in Seq(Characters) /\ cut' \in BOOLEAN
          /\ IsPrefix(safe, file') /\ DiskBehind'
          /\ (cut => cut') /\ (~cut' => file' = file \o data)
      BY <1>2, <1>4, <2>1, WriteStep
    <2>3. StdioTypeOK'
      BY <1>2, <2>2, EmptySeq DEF StdioInv, StdioTypeOK, StdioAssumption
    <2>4. Accounted'
      <3>1. ASSUME ~cut' PROVE (Base \o written)' = file' \o <<>>
        <4>1. Base' \o written' = Base \o written'
          BY <1>2 DEF Base
        <4>2. Base \o written' = file'
          BY <1>6, <2>2, <3>1
        <4> QED
          BY <2>2, <4>1, <4>2, ConcatEmptySeq
      <3> QED
        BY <2>2, <3>1 DEF Accounted
    <2>5. WholeLines'
      <3>1. SUFFICES ASSUME flags = SYNC_LINE, ~cut' PROVE Last(file') = "\n"
        BY <1>2 DEF WholeLines
      <3>2. Last(data) = "\n"
        BY <1>7, <3>1 DEF Flushes, Has, SYNC_NOW, SYNC_LINE, SYNC_FULL
      <3>3. file' = file \o data
        BY <2>2, <3>1
      <3>4. Last(file \o data) = Last(data)
        BY <1>3, <1>4, <1>5, LastOfConcat
      <3> QED
        BY <3>2, <3>3, <3>4
    <2>6. Durable' /\ NothingYet' /\ DiskBehind' /\ safe' \in Seq(Characters)
      BY <1>2, <2>2 DEF StdioInv, Durable, NothingYet
    <2> QED
      BY <1>4, <2>3, <2>4, <2>5, <2>6 DEF StdioInv
  <1>8. CASE ~Flushes(data)
    <2>1. buffer' = data /\ UNCHANGED <<file, cut>>
      BY <1>1, <1>8 DEF data
    <2>2. StdioTypeOK'
      BY <1>1, <1>2, <1>4, <2>1 DEF StdioInv, StdioTypeOK, StdioAssumption, data
    <2>3. Accounted'
      BY <1>2, <1>6, <2>1 DEF Accounted, Base
    <2>4. WholeLines' /\ DiskBehind' /\ Durable' /\ NothingYet' /\ safe' \in Seq(Characters)
      BY <1>2, <2>1 DEF StdioInv, WholeLines, DiskBehind, Durable, NothingYet
    <2> QED
      BY <1>4, <2>2, <2>3, <2>4 DEF StdioInv
  <1> QED
    BY <1>7, <1>8

(* fflush_ and fclose_ empty the buffer into the file.                     *)
LEMMA fflush_Step ==
  ASSUME StdioAssumption, StdioInv, fflush_
  PROVE  StdioInv'
  <1>1. /\ pc = "open" /\ pc' \in {"fsync", "fcloseSync"} /\ flushed' = TRUE
        /\ UNCHANGED <<mode, flags, disk, written, calls, safe>>
        /\ buffer \in Seq(Characters) /\ Write(buffer)
    BY DEF fflush_, StdioInv, StdioTypeOK
  <1>2. /\ buffer' = <<>> /\ file' \in Seq(Characters) /\ cut' \in BOOLEAN
        /\ IsPrefix(safe, file') /\ DiskBehind'
        /\ (cut => cut') /\ (~cut' => file' = file \o buffer)
    BY <1>1, WriteStep
  <1>3. StdioTypeOK' /\ written' \in Seq(Characters) /\ safe' \in Seq(Characters)
    BY <1>1, <1>2, EmptySeq DEF StdioInv, StdioTypeOK, StdioAssumption
  <1>4. Accounted'
    <2>1. file' \o buffer' = file'
      BY <1>2, ConcatEmptySeq
    <2> QED
      BY <1>1, <1>2, <2>1 DEF StdioInv, Accounted, Base
  <1>5. Durable' /\ NothingYet' /\ WholeLines' /\ DiskBehind'
    BY <1>1, <1>2 DEF StdioInv, Durable, NothingYet, WholeLines
  <1> QED
    BY <1>3, <1>4, <1>5 DEF StdioInv

(* fopen_ may cut the file or fail; nothing has been promised of it yet.   *)
LEMMA fopen_Step ==
  ASSUME StdioAssumption, StdioInv, fopen_
  PROVE  StdioInv'
  <1>1. /\ pc = "closed" /\ pc' \in {"open", "down"}
        /\ file' \in {Old, Base} /\ (pc' = "open" => file' = Base)
        /\ UNCHANGED <<mode, flags, buffer, disk, written, calls, cut, flushed, safe>>
        /\ buffer = <<>> /\ written = <<>> /\ safe = <<>>
    BY DEF fopen_, Base, StdioInv, NothingYet
  <1>2. Base \in {Old, <<>>} /\ Base \in Seq(Characters)
    BY EmptySeq DEF Base, StdioAssumption
  <1>3. StdioTypeOK' /\ written' \in Seq(Characters) /\ safe' \in Seq(Characters)
    BY <1>1, <1>2 DEF StdioInv, StdioTypeOK
  <1>4. IsPrefix(safe', file')
    BY <1>1, <1>2, PrefixFacts
  <1>5. Accounted' /\ Durable' /\ NothingYet' /\ WholeLines' /\ DiskBehind'
    <2>1. WholeLines' /\ DiskBehind' /\ NothingYet' /\ Durable'
      BY <1>1, <1>2, <1>4 DEF StdioInv, Durable, NothingYet, WholeLines, DiskBehind
    <2>2. Accounted'
      BY <1>1, <1>2, ConcatEmptySeq DEF Accounted, Base
    <2> QED
      BY <2>1, <2>2
  <1> QED
    BY <1>3, <1>5 DEF StdioInv

(* What the disk and the power do, and the end of the program.             *)
LEMMA OtherStdioStep ==
  ASSUME StdioAssumption, StdioInv,
         fsync \/ close \/ Writeback \/ Killed \/ PowerFails
  PROVE  StdioInv'
  <1>1. CASE fsync
    <2>1. /\ pc \in {"fsync", "fcloseSync"} /\ pc' \in {"open", "close"}
          /\ disk' = file /\ safe' = file /\ file \in Seq(Characters)
          /\ UNCHANGED <<mode, flags, buffer, file, written, calls, cut, flushed>>
      BY <1>1 DEF fsync, StdioInv, StdioTypeOK
    <2>2. IsPrefix(file, file)
      BY <2>1, PrefixFacts
    <2>3. StdioTypeOK' /\ written' \in Seq(Characters) /\ safe' \in Seq(Characters)
      BY <2>1 DEF StdioInv, StdioTypeOK
    <2>4. Accounted' /\ Durable' /\ NothingYet' /\ WholeLines' /\ DiskBehind'
      BY <2>1, <2>2
      DEF StdioInv, Accounted, Base, Durable, NothingYet, WholeLines, DiskBehind
    <2> QED
      BY <2>3, <2>4 DEF StdioInv
  <1>2. CASE Writeback
    <2>1. PICK n \in 0 .. Len(file) :
            (IsPrefix(disk, file) => Len(disk) <= n) /\ disk' = SubSeq(file, 1, n)
      BY <1>2 DEF Writeback
    <2>2. /\ file \in Seq(Characters) /\ safe \in Seq(Characters) /\ disk \in Seq(Characters)
          /\ IsPrefix(safe, file) /\ IsPrefix(safe, disk)
          /\ UNCHANGED <<pc, mode, flags, buffer, file, written, calls, cut, flushed, safe>>
      BY <1>2 DEF Writeback, StdioInv, StdioTypeOK, Durable
    <2>3. disk' \in Seq(Characters) /\ IsPrefix(disk', file)
      BY <2>1, <2>2, BeginningIsPrefix
    <2>4. IsPrefix(safe, disk')
      <3>1. CASE safe = <<>>
        BY <2>3, <3>1, PrefixFacts
      <3>2. CASE safe # <<>>
        <4>1. Len(disk) <= n /\ Len(safe) <= Len(disk)
          BY <2>1, <2>2, <3>2 DEF StdioInv, DiskBehind, IsPrefix
        <4>2. n \in Len(safe) .. Len(file)
          BY <2>1, <2>2, <4>1, LenProperties
        <4> QED
          BY <2>1, <2>2, <4>2, PrefixOfBeginning
      <3> QED
        BY <3>1, <3>2
    <2>5. StdioTypeOK' /\ written' \in Seq(Characters) /\ safe' \in Seq(Characters)
      BY <2>2, <2>3 DEF StdioInv, StdioTypeOK
    <2>6. Accounted' /\ Durable' /\ NothingYet' /\ WholeLines' /\ DiskBehind'
      BY <2>2, <2>3, <2>4
      DEF StdioInv, Accounted, Base, Durable, NothingYet, WholeLines, DiskBehind
    <2> QED
      BY <2>5, <2>6 DEF StdioInv
  <1>3. CASE close \/ Killed \/ PowerFails
    <2>1. /\ pc' = "down" /\ buffer' \in {buffer, <<>>}
          /\ UNCHANGED <<mode, flags, disk, written, calls, flushed, safe>>
          /\ \/ UNCHANGED <<file, cut>>
             \/ file' = disk /\ cut' = TRUE
      BY <1>3 DEF close, Killed, PowerFails
    <2>2. StdioTypeOK' /\ written' \in Seq(Characters) /\ safe' \in Seq(Characters)
      <3>1. <<>> \in Seq(Characters) /\ Len(<<>>) = 0 /\ 0 <= SIZE
        BY EmptySeq DEF StdioAssumption
      <3> QED
        BY <2>1, <3>1 DEF StdioInv, StdioTypeOK
    <2>3. Accounted' /\ NothingYet' /\ WholeLines'
      BY <2>1 DEF StdioInv, Accounted, NothingYet, WholeLines
    <2>4. Durable'
      BY <2>1 DEF StdioInv, Durable
    <2>5. DiskBehind'
      <3>1. IsPrefix(disk, disk)
        BY PrefixFacts DEF StdioInv, StdioTypeOK
      <3> QED
        BY <2>1, <3>1 DEF StdioInv, DiskBehind
    <2> QED
      BY <2>2, <2>3, <2>4, <2>5 DEF StdioInv
  <1> QED
    BY <1>1, <1>2, <1>3

(* The invariant holds at first.                                           *)
LEMMA StdioInitInv == StdioAssumption /\ StdioInit => StdioInv
  <1> SUFFICES ASSUME StdioAssumption, StdioInit PROVE StdioInv
    OBVIOUS
  <1>1. /\ Old \in Seq(Characters) /\ <<>> \in Seq(Characters)
        /\ Len(<<>>) = 0 /\ 0 <= SIZE /\ 0 \in 0 .. MaxWrites
    BY EmptySeq DEF StdioAssumption
  <1>2. StdioTypeOK /\ written \in Seq(Characters) /\ safe \in Seq(Characters)
    BY <1>1 DEF StdioInit, StdioTypeOK, StdioAssumption
  <1>3. IsPrefix(<<>>, Old)
    BY <1>1, PrefixFacts
  <1>4. NothingYet /\ Accounted /\ Durable /\ WholeLines /\ DiskBehind
    BY <1>3 DEF StdioInit, NothingYet, Accounted, Durable, WholeLines, DiskBehind
  <1> QED
    BY <1>2, <1>4 DEF StdioInv

(* Every step keeps the invariant.                                         *)
LEMMA StdioNextInv ==
  StdioAssumption /\ StdioInv /\ [StdioNext]_stdioVars => StdioInv'
  <1> SUFFICES ASSUME StdioAssumption, StdioInv, [StdioNext]_stdioVars PROVE StdioInv'
    OBVIOUS
  <1>1. CASE StdioNext
    BY <1>1, fopen_Step, fwrite_Step, fflush_Step, OtherStdioStep DEF StdioNext
  <1>2. CASE UNCHANGED stdioVars
    <2>1. StdioTypeOK' /\ written' \in Seq(Characters) /\ safe' \in Seq(Characters)
      BY <1>2 DEF stdioVars, StdioInv, StdioTypeOK
    <2>2. Accounted' /\ Durable' /\ NothingYet' /\ WholeLines' /\ DiskBehind'
      BY <1>2
      DEF stdioVars, StdioInv, Accounted, Base, Durable, NothingYet, WholeLines, DiskBehind
    <2> QED
      BY <2>1, <2>2 DEF StdioInv
  <1> QED
    BY <1>1, <1>2

(* The inductive invariant of the files.                                   *)
LEMMA StdioInductive == StdioSpec => []StdioInv
  BY StdioInitInv, StdioNextInv, StdioAssumption, PTL DEF StdioSpec

(* The types.                                                              *)
THEOREM StdioTyping == StdioSpec => []StdioTypeOK
  BY StdioInductive, PTL DEF StdioInv

(* Whatever sequence of writes, flushes and closes the program makes, each *)
(* character it passed to fwrite_ is in the file or in the buffer, once    *)
(* and in order, unless a write took less than it was given                *)
(* (myStdio.c:45-91).                                                      *)
THEOREM NothingLostOrDoubled == StdioSpec => []Accounted
  BY StdioInductive, PTL DEF StdioInv

(* What fflush_ and fclose_ have returned for survives every kill and      *)
(* power failure (myStdio.c:79-91).                                        *)
THEOREM FlushedStays == StdioSpec => []Durable
  BY StdioInductive, PTL DEF StdioInv

(* A line-buffered file that nobody flushed holds whole lines, also after  *)
(* a kill (myStdio.c:57-65).                                               *)
THEOREM LinesStayWhole == StdioSpec => []WholeLines
  BY StdioInductive, PTL DEF StdioInv
-----------------------------------------------------------------------------
(***************************************************************************)
(* Pipes, for any lengths of the arrays and sizes of a read and any        *)
(* capacity of a pipe: which places of what was written the reader holds,  *)
(* and where in them its printing stops.                                   *)
(***************************************************************************)
Cell == {"char", "nul"}

(* The types.  Nothing is held or shown that was not read.                 *)
PipesTyping ==
  /\ kind \in {"pipe", "fifo"} /\ given \in Nat /\ over \in BOOLEAN
  /\ put \in Seq(Cell) /\ buff \in Seq(Cell)
  /\ passed \in 0 .. Len(put) /\ taken \in 0 .. passed
  /\ heads \subseteq 1 .. Len(put) /\ alone \subseteq heads
  /\ hand \in [1 .. ReadSize + 1 -> Int] /\ \A j \in 1 .. ReadSize + 1 : hand[j] <= taken
  /\ shown \in Seq(Int) /\ \A j \in 1 .. Len(shown) : shown[j] <= taken
  /\ writer \notin {"write", "gone"} => passed = Len(put)

(* The child is there after fork.                                          *)
ForkedInv == kind = "pipe" /\ writer = "start" => reader = "none"

(* The arrays cover what was given to write, one behind the other, and are *)
(* written as a whole.                                                     *)
ArraysInv ==
  /\ Len(buff) = Width
  /\ \A h \in heads : /\ h + Width - 1 <= Len(put)
                      /\ h = 1 \/ h - Width \in heads
                      /\ \A g \in heads : h < g => h + Width <= g
  /\ \A p \in 1 .. Len(put) : \E h \in heads : h <= p /\ p <= h + Width - 1
  /\ passed < Len(put) => passed + 1 \in heads
  /\ writer = "write" => passed < Len(put)

(* Each of them begins with a word, unless the input ended before the      *)
(* first one.                                                              *)
WordAt(cells, h) ==
  \E n \in 1 .. Width - 1 :
    /\ \A m \in 0 .. n - 1 : cells[h + m] = "char"
    /\ cells[h + n] = "nul"

Known == given > 0 \/ ~over

WordsInv ==
  /\ given > 0 => WordAt(buff, 1)
  /\ Known => \A h \in heads : WordAt(put, h)

(* When the next read begins with the last t cells of an array, the        *)
(* reader's array has a whole one from its cell t on: reads that end       *)
(* within an array are full, and all full reads are of the same length.    *)
TailInv ==
  \A t \in 1 .. Width - 1 :
    taken + t + 1 - Width \in heads =>
      /\ hand[t] \in heads
      /\ \A m \in 0 .. Width - 1 : hand[t + m] = hand[t] + m

(* printf stops at cell k of the reader's array.                           *)
StopsAt(k) == IsNul(hand[k]) /\ \A j \in 1 .. k - 1 : ~ IsNul(hand[j])

(* It does stop, and from the beginning of a word on all before that cell  *)
(* is of that word.                                                        *)
HeldInv ==
  \E k \in 1 .. ReadSize :
    /\ StopsAt(k)
    /\ \A j \in 1 .. k - 1 :
         hand[j] \in heads => \A l \in j .. k : hand[l] = hand[j] + (l - j)

(* What was written into an empty pipe is the next to be read, or shown.   *)
AloneInv ==
  \A p \in alone : p = taken + 1 \/ (p <= taken /\ (killed \/ p \in Range(Line)))

ArrayInv ==
  kind = "pipe" =>
    /\ ArraysInv /\ WordsInv /\ TailInv
    /\ Known => HeadsInOrder /\ AloneInv /\ (reader = "print" => HeldInv)

(* Through the named pipe go characters only, and all are shown.           *)
UpTo(n) == [j \in 1 .. n |-> j]

StreamInv ==
  kind = "fifo" =>
    /\ heads = {} /\ \A p \in 1 .. Len(put) : put[p] = "char"
    /\ \A j \in 1 .. Len(buff) : buff[j] = "char"
    /\ Line = UpTo(Len(Line)) /\ (Len(Line) = taken \/ (killed /\ reader = "gone"))

(* The inductive invariant.                                                *)
PipesInv == PipesTyping /\ ForkedInv /\ ArrayInv /\ StreamInv
-----------------------------------------------------------------------------
(* A read is of one byte at least, and takes an array with the end of the  *)
(* one before, if it is there.                                             *)
LEMMA SizeFacts ==
  ASSUME PipesAssumption, kind \in {"pipe", "fifo"}
  PROVE  /\ ReadSize \in Nat \ {0}
         /\ kind = "pipe" => /\ 2 * Width - 1 <= ReadSize
                             /\ ReadSize = (Arrays - 1) * Width + Width - 1
  <1>1. CASE kind = "fifo"
    BY <1>1 DEF PipesAssumption, ReadSize
  <1>2. CASE kind = "pipe"
    <2>1. /\ Width \in Nat /\ Width >= 1 /\ Arrays \in Nat /\ Arrays >= 2
          /\ ReadSize = Arrays * Width - 1
      BY <1>2 DEF PipesAssumption, ReadSize
    <2>2. PICK k \in Nat : Arrays = k + 2
      <3>1. Arrays - 2 \in Nat /\ Arrays = (Arrays - 2) + 2
        BY <2>1
      <3> QED
        BY <3>1
    <2>3. k * Width \in Nat
      BY <2>1
    <2>4. Arrays * Width = k * Width + 2 * Width /\ (Arrays - 1) * Width = k * Width + Width
      BY <2>1, <2>2
    <2> QED
      BY <1>2, <2>1, <2>3, <2>4
  <1> QED
    BY <1>1, <1>2

(* Going back from an array by arrays one comes to an array.               *)
LEMMA HeadsBack ==
  ASSUME Width \in Nat, heads \subseteq Int,
         \A h \in heads : h = 1 \/ h - Width \in heads,
         NEW g \in heads, NEW k \in Nat, g - k * Width >= 1, Width >= 1
  PROVE  g - k * Width \in heads
  <1> DEFINE S == {n \in Nat : \A h \in heads : h - n * Width >= 1 => h - n * Width \in heads}
  <1>1. 0 \in S
    BY SMT
  <1>2. ASSUME NEW n \in Nat, n \in S PROVE n + 1 \in S
    <2>1. n * Width \in Int /\ (n + 1) * Width = n * Width + Width
      BY SMT
    <2>2. ASSUME NEW h \in heads, h - (n + 1) * Width >= 1
          PROVE  h - (n + 1) * Width \in heads
      <3>1. PICK d \in heads : d = h - n * Width
        <4>1. h \in Int /\ h - n * Width >= 1
          BY <2>1, <2>2
        <4> QED
          BY <1>2, <4>1
      <3>2. d # 1 /\ d - Width = h - (n + 1) * Width
        <4>1. h \in Int
          OBVIOUS
        <4> QED
          BY <2>1, <2>2, <3>1, <4>1
      <3> QED
        BY <3>2
    <2> QED
      BY <2>2
  <1> HIDE DEF S
  <1>3. k \in S
    BY <1>1, <1>2, NatSetInduction
  <1> QED
    BY <1>3 DEF S
-----------------------------------------------------------------------------
(* What printf prints, by where it stops.                                  *)
LEMMA PrintedIs ==
  ASSUME NEW k \in 1 .. ReadSize + 1, ReadSize \in Nat, StopsAt(k)
  PROVE  Printed = [j \in 1 .. k - 1 |-> hand[j]]
  <1> DEFINE nuls == {j \in 1 .. ReadSize + 1 : IsNul(hand[j])}
  <1>1. k \in nuls
    BY DEF StopsAt
  <1>2. \A j \in nuls : k <= j
    <2>1. ASSUME NEW j \in nuls, ~ (k <= j) PROVE FALSE
      <3>1. j \in 1 .. k - 1
        BY <2>1
      <3> QED
        BY <3>1 DEF StopsAt
    <2> QED
      BY <2>1
  <1>3. nuls \in SUBSET Int
    OBVIOUS
  <1>4. Printed = LET stop == IF nuls = {} THEN ReadSize + 2 ELSE Min(nuls)
                  IN [j \in 1 .. stop - 1 |-> hand[j]]
    BY DEF Printed
  <1> HIDE DEF nuls
  <1>5. Min(nuls) = k
    BY <1>1, <1>2, <1>3, MinIs
  <1>6. nuls # {}
    BY <1>1
  <1> QED
    BY <1>4, <1>5, <1>6

(* It is the beginning of the reader's array.                              *)
LEMMA PrintedType ==
  ASSUME ReadSize \in Nat, hand \in [1 .. ReadSize + 1 -> Int]
  PROVE  /\ Printed \in Seq(Int) /\ Len(Printed) \in 0 .. ReadSize + 1
         /\ \A j \in 1 .. Len(Printed) : Printed[j] = hand[j] /\ ~ IsNul(hand[j])
  <1> DEFINE nuls == {j \in 1 .. ReadSize + 1 : IsNul(hand[j])}
  <1>1. PICK stop \in 1 .. ReadSize + 2 :
          /\ Printed = [j \in 1 .. stop - 1 |-> hand[j]]
          /\ \A j \in 1 .. stop - 1 : j \notin nuls
    <2>1. Printed = LET stop == IF nuls = {} THEN ReadSize + 2 ELSE Min(nuls)
                    IN [j \in 1 .. stop - 1 |-> hand[j]]
      BY DEF Printed
    <2>2. nuls \in SUBSET Nat /\ nuls \subseteq 1 .. ReadSize + 1
      OBVIOUS
    <2> HIDE DEF nuls
    <2>3. CASE nuls = {}
      BY <2>1, <2>3
    <2>4. CASE nuls # {}
      <3>1. PICK m : m = Min(nuls)
        OBVIOUS
      <3>2. m \in nuls /\ \A y \in nuls : m <= y
        BY <2>2, <2>4, <3>1, MinExists
      <3>3. m \in 1 .. ReadSize + 2 /\ \A j \in 1 .. m - 1 : j \notin nuls
        BY <2>2, <3>2
      <3> QED
        BY <2>1, <2>4, <3>1, <3>3
    <2> QED
      BY <2>3, <2>4
  <1>2. stop - 1 \in Nat /\ \A j \in 1 .. stop - 1 : hand[j] \in Int
    OBVIOUS
  <1>3. Printed \in Seq(Int) /\ Len(Printed) = stop - 1
    BY <1>1, <1>2
  <1> QED
    BY <1>1, <1>2, <1>3

(* A concatenation of lines.                                               *)
LEMMA LineParts ==
  ASSUME NEW a \in Seq(Int), NEW b \in Seq(Int), NEW top \in Int,
         \A j \in 1 .. Len(a) : a[j] <= top, \A j \in 1 .. Len(b) : b[j] <= top
  PROVE  /\ a \o b \in Seq(Int) /\ Len(a \o b) = Len(a) + Len(b)
         /\ \A j \in 1 .. Len(a) : (a \o b)[j] = a[j]
         /\ \A j \in 1 .. Len(b) : (a \o b)[Len(a) + j] = b[j]
         /\ \A j \in 1 .. Len(a \o b) :
              /\ (a \o b)[j] <= top
              /\ j \in 1 .. Len(a) \/ j - Len(a) \in 1 .. Len(b)
  <1> DEFINE c == Cat(a, b)
  <1>1. c \in Seq(Int)
    BY CatType
  <1>2. /\ Len(c) = Len(a) + Len(b)
        /\ \A j \in 1 .. Len(a) : c[j] = a[j]
        /\ \A j \in 1 .. Len(b) : c[Len(a) + j] = b[j]
    BY CatElements
  <1>3. Len(a) \in Nat /\ Len(b) \in Nat
    OBVIOUS
  <1> HIDE DEF c
  <1>4. ASSUME NEW j \in 1 .. Len(c)
        PROVE  c[j] <= top /\ (j \in 1 .. Len(a) \/ j - Len(a) \in 1 .. Len(b))
    <2>1. CASE j <= Len(a)
      BY <1>2, <1>3, <2>1
    <2>2. CASE ~ (j <= Len(a))
      <3>1. j - Len(a) \in 1 .. Len(b) /\ Len(a) + (j - Len(a)) = j
        BY <1>2, <1>3, <2>2
      <3> QED
        BY <1>2, <3>1
    <2> QED
      BY <2>1, <2>2
  <1>5. c = a \o b
    BY DEF c, Cat
  <1> QED
    BY <1>1, <1>2, <1>4, <1>5

(* All that is shown has been read.                                        *)
LEMMA LineIsSeq ==
  ASSUME PipesAssumption, PipesTyping
  PROVE  /\ Printing \in Seq(Int) /\ Line \in Seq(Int)
         /\ Len(Line) = Len(shown) + Len(Printing)
         /\ \A j \in 1 .. Len(shown) : Line[j] = shown[j]
         /\ \A j \in 1 .. Len(Printing) : Line[Len(shown) + j] = Printing[j]
         /\ \A j \in 1 .. Len(Line) :
              Line[j] <= taken /\ (j \in 1 .. Len(shown) \/ j - Len(shown) \in 1 .. Len(Printing))
  <1>1. ReadSize \in Nat
    BY SizeFacts DEF PipesTyping
  <1>2. hand \in [1 .. ReadSize + 1 -> Int] /\ taken \in Int /\ shown \in Seq(Int)
    BY DEF PipesTyping
  <1>3. Printing \in Seq(Int) /\ \A j \in 1 .. Len(Printing) : Printing[j] <= taken
    <2>1. CASE reader = "print"
      <3>1. Printing = Printed
        BY <2>1 DEF Printing
      <3>2. /\ Printed \in Seq(Int) /\ Len(Printed) \in 0 .. ReadSize + 1
            /\ \A j \in 1 .. Len(Printed) : Printed[j] = hand[j]
        BY <1>1, <1>2, PrintedType
      <3>3. \A j \in 1 .. Len(Printed) : hand[j] <= taken
        BY <1>1, <3>2 DEF PipesTyping
      <3> QED
        BY <3>1, <3>2, <3>3
    <2>2. CASE reader # "print"
      BY <2>2 DEF Printing
    <2> QED
      BY <2>1, <2>2
  <1>4. \A j \in 1 .. Len(shown) : shown[j] <= taken
    BY DEF PipesTyping
  <1> QED
    BY <1>2, <1>3, <1>4, LineParts DEF Line

(* A step that leaves what is read and printed as it is, and only adds to  *)
(* what is given to write.                                                 *)
LEMMA LineStays ==
  ASSUME PipesAssumption, PipesTyping,
         kind' = kind, hand' = hand, shown' = shown,
         (reader' = "print") <=> (reader = "print"),
         \A p \in 1 .. taken : put'[p] = put[p]
  PROVE  /\ Line' = Line /\ Printing' = Printing
         /\ \A k \in 1 .. ReadSize : StopsAt(k) <=> StopsAt(k)'
  <1>1. ReadSize' = ReadSize
    BY DEF ReadSize
  <1>2. ReadSize \in Nat
    BY SizeFacts DEF PipesTyping
  <1>3. \A j \in 1 .. ReadSize + 1 : IsNul(hand[j]) <=> IsNul(hand[j])'
    <2>1. ASSUME NEW j \in 1 .. ReadSize + 1 PROVE IsNul(hand[j]) <=> IsNul(hand[j])'
      <3>1. hand[j] \in Int /\ hand[j] <= taken /\ taken \in Int /\ hand'[j] = hand[j]
        BY DEF PipesTyping
      <3>2. hand[j] > 0 => put'[hand[j]] = put[hand[j]]
        BY <3>1
      <3> QED
        BY <3>1, <3>2 DEF IsNul
    <2> QED
      BY <2>1
  <1>4. {j \in 1 .. ReadSize + 1 : IsNul(hand[j])} = {j \in 1 .. ReadSize + 1 : IsNul(hand[j])'}
    BY <1>3
  <1>5. Printed' = Printed
    BY <1>1, <1>4 DEF Printed
  <1>6. Printing' = Printing
    BY <1>5 DEF Printing
  <1>7. ASSUME NEW k \in 1 .. ReadSize PROVE StopsAt(k) <=> StopsAt(k)'
    <2>1. k \in 1 .. ReadSize + 1 /\ \A j \in 1 .. k - 1 : j \in 1 .. ReadSize + 1
      BY <1>2
    <2> QED
      BY <1>3, <2>1 DEF StopsAt
  <1> QED
    BY <1>6, <1>7 DEF Line

(* Nothing is written or read at first.                                    *)
LEMMA PipesInitInv == PipesAssumption /\ PipesInit => PipesInv
  <1> SUFFICES ASSUME PipesAssumption, PipesInit PROVE PipesInv
    OBVIOUS
  <1>1. /\ kind \in {"pipe", "fifo"} /\ given = 0 /\ over = FALSE /\ put = <<>>
        /\ heads = {} /\ passed = 0 /\ taken = 0 /\ shown = <<>> /\ alone = {}
        /\ writer = "start" /\ reader # "print" /\ Len(put) = 0
    BY DEF PipesInit
  <1>2. ReadSize \in Nat /\ Width \in Nat
    BY <1>1, SizeFacts DEF PipesAssumption
  <1>3. buff \in Seq(Cell) /\ (kind = "pipe" => Len(buff) = Width) /\ (kind = "fifo" => Len(buff) = 0)
    <2>1. CASE kind = "pipe"
      <3>1. buff \in [1 .. Width -> Cell]
        BY <2>1 DEF PipesInit, Cell
      <3> QED
        BY <1>2, <2>1, <3>1
    <2>2. CASE kind = "fifo"
      BY <2>2 DEF PipesInit, Cell
    <2> QED
      BY <1>1, <2>1, <2>2
  <1>4. hand \in [1 .. ReadSize + 1 -> Int] /\ \A j \in 1 .. ReadSize + 1 : hand[j] <= taken
    <2>1. PICK p \in {Zero, Unset} : hand = [j \in 1 .. ReadSize + 1 |-> p]
      BY DEF PipesInit
    <2>2. p \in Int /\ p <= 0
      BY DEF Zero, Unset
    <2> QED
      BY <1>1, <2>1, <2>2
  <1>5. PipesTyping
    <2>1. put \in Seq(Cell) /\ shown \in Seq(Int) /\ Len(shown) = 0
      BY <1>1
    <2>2. passed \in 0 .. Len(put) /\ taken \in 0 .. passed /\ heads \subseteq 1 .. Len(put)
      BY <1>1
    <2>3. over \in BOOLEAN /\ given \in Nat /\ alone \subseteq heads
      BY <1>1
    <2>4. /\ \A j \in 1 .. Len(shown) : shown[j] <= taken
          /\ writer \notin {"write", "gone"} => passed = Len(put)
      BY <1>1, <2>1
    <2> QED
      BY <1>1, <1>3, <1>4, <2>1, <2>2, <2>3, <2>4 DEF PipesTyping
  <1>6. Line = <<>> /\ Len(Line) = 0
    BY <1>1 DEF Line, Printing
  <1>7. ArrayInv
    <2> SUFFICES ASSUME kind = "pipe" PROVE ArrayInv
      BY DEF ArrayInv
    <2>1. ArraysInv
      BY <1>1, <1>3 DEF ArraysInv
    <2>2. WordsInv /\ TailInv /\ AloneInv
      BY <1>1 DEF WordsInv, TailInv, AloneInv
    <2>3. HeadsInOrder
      BY <1>6 DEF HeadsInOrder
    <2> QED
      BY <1>1, <2>1, <2>2, <2>3 DEF ArrayInv
  <1>8. StreamInv
    <2>1. UpTo(0) = <<>>
      BY DEF UpTo
    <2> QED
      BY <1>1, <1>3, <1>6, <2>1 DEF StreamInv
  <1>9. ForkedInv
    BY DEF PipesInit, ForkedInv
  <1> QED
    BY <1>5, <1>7, <1>8, <1>9 DEF PipesInv

-----------------------------------------------------------------------------
(* The arrays when nothing is written, read or given to write.             *)
LEMMA ArraysStay ==
  ASSUME PipesInv, UNCHANGED <<kind, input, content, hand, alone>>,
         writer' # "write" \/ writer' = writer,
         writer' \notin {"write", "gone"} => writer \notin {"write", "gone"}
  PROVE  /\ kind = "pipe" => (ArraysInv /\ WordsInv /\ TailInv)'
         /\ Known' <=> Known
         /\ (shown' \in Seq(Int) /\ \A j \in 1 .. Len(shown') : shown'[j] <= taken)
              => PipesTyping'
  <1>1. /\ kind' = kind /\ given' = given /\ over' = over /\ buff' = buff /\ put' = put
        /\ heads' = heads /\ passed' = passed /\ taken' = taken /\ hand' = hand /\ alone' = alone
    BY DEF input, content
  <1>2. kind = "pipe" => ArraysInv'
    BY <1>1 DEF PipesInv, ArrayInv, ArraysInv
  <1>3. kind = "pipe" => WordsInv'
    BY <1>1 DEF PipesInv, ArrayInv, WordsInv, WordAt, Known
  <1>4. kind = "pipe" => TailInv'
    BY <1>1 DEF PipesInv, ArrayInv, TailInv
  <1>5. Known' <=> Known
    BY <1>1 DEF Known
  <1>6. ReadSize' = ReadSize
    BY <1>1 DEF ReadSize
  <1>7. (shown' \in Seq(Int) /\ \A j \in 1 .. Len(shown') : shown'[j] <= taken) => PipesTyping'
    BY <1>1, <1>6 DEF PipesInv, PipesTyping
  <1> QED
    BY <1>2, <1>3, <1>4, <1>5, <1>7

(* The steps that are not about words, and a kill of anybody who is not    *)
(* printing.                                                               *)
LEMMA QuietPipeStep ==
  ASSUME PipesAssumption, PipesInv, UNCHANGED <<kind, input, content, seen, alone>>,
         writer' # "write" \/ writer' = writer,
         writer' \notin {"write", "gone"} => writer \notin {"write", "gone"},
         (reader' = "print") <=> (reader = "print"),
         reader = "gone" => reader' = "gone", killed => killed',
         ForkedInv'
  PROVE  PipesInv'
  <1>1. /\ kind' = kind /\ buff' = buff /\ put' = put /\ heads' = heads
        /\ passed' = passed /\ taken' = taken /\ hand' = hand /\ shown' = shown /\ alone' = alone
    BY DEF input, content, seen
  <1>2. UNCHANGED <<kind, input, content, hand, alone>>
    BY DEF seen
  <1>3. /\ kind = "pipe" => (ArraysInv /\ WordsInv /\ TailInv)'
        /\ Known' <=> Known
        /\ (shown' \in Seq(Int) /\ \A j \in 1 .. Len(shown') : shown'[j] <= taken)
             => PipesTyping'
    BY <1>2, ArraysStay
  <1>4. PipesTyping'
    BY <1>1, <1>3 DEF PipesInv, PipesTyping
  <1>5. Line' = Line /\ \A k \in 1 .. ReadSize : StopsAt(k) <=> StopsAt(k)'
    BY <1>1, LineStays DEF PipesInv
  <1>6. ReadSize' = ReadSize
    BY <1>1 DEF ReadSize
  <1>7. ASSUME kind = "pipe", Known
        PROVE  HeadsInOrder' /\ AloneInv' /\ (reader' = "print" => HeldInv')
    <2>1. HeadsInOrder'
      BY <1>1, <1>5, <1>7 DEF PipesInv, ArrayInv, HeadsInOrder
    <2>2. AloneInv'
      BY <1>1, <1>5, <1>7 DEF PipesInv, ArrayInv, AloneInv
    <2>3. reader = "print" => HeldInv'
      BY <1>1, <1>5, <1>6, <1>7 DEF PipesInv, ArrayInv, HeldInv
    <2> QED
      BY <2>1, <2>2, <2>3
  <1>8. ArrayInv'
    BY <1>1, <1>3, <1>7 DEF ArrayInv
  <1>9. StreamInv'
    BY <1>1, <1>5 DEF PipesInv, StreamInv
  <1> QED
    BY <1>4, <1>8, <1>9 DEF PipesInv

(* What was printed is shown.                                              *)
LEMMA OutputPipeStep ==
  ASSUME PipesAssumption, PipesInv, Output
  PROVE  PipesInv'
  <1>1. /\ kind' = kind /\ buff' = buff /\ put' = put /\ heads' = heads
        /\ passed' = passed /\ taken' = taken /\ hand' = hand /\ alone' = alone
        /\ reader = "print" /\ reader' = "read" /\ writer' = writer /\ killed' = killed
        /\ shown' = shown \o Printed
    BY DEF Output, input, content, ghosts
  <1>2. UNCHANGED <<kind, input, content, hand, alone>>
    BY DEF Output, ghosts
  <1>3. /\ Line \in Seq(Int) /\ \A j \in 1 .. Len(Line) : Line[j] <= taken
    BY LineIsSeq DEF PipesInv
  <1>4. shown' = Line
    BY <1>1 DEF Line, Printing
  <1>5. Line' = Line
    <2>1. Line' = shown' \o <<>>
      BY <1>1 DEF Line, Printing
    <2>2. \A s \in Seq(Int) : s \o <<>> = s
      BY ConcatEmptySeq
    <2> QED
      BY <1>3, <1>4, <2>1, <2>2
  <1>6. /\ kind = "pipe" => (ArraysInv /\ WordsInv /\ TailInv)'
        /\ (Known' <=> Known) /\ PipesTyping'
    BY <1>1, <1>2, <1>3, <1>4, ArraysStay
  <1>7. ASSUME kind = "pipe", Known PROVE HeadsInOrder' /\ AloneInv'
    <2>1. HeadsInOrder'
      BY <1>1, <1>5, <1>7 DEF PipesInv, ArrayInv, HeadsInOrder
    <2>2. AloneInv'
      BY <1>1, <1>5, <1>7 DEF PipesInv, ArrayInv, AloneInv
    <2> QED
      BY <2>1, <2>2
  <1>8. ArrayInv'
    BY <1>1, <1>6, <1>7 DEF ArrayInv
  <1>9. StreamInv'
    BY <1>1, <1>5 DEF PipesInv, StreamInv
  <1>10. ForkedInv'
    BY <1>1 DEF PipesInv, ForkedInv
  <1> QED
    BY <1>6, <1>8, <1>9, <1>10 DEF PipesInv

(* A killed reader does not print what it holds.                           *)
LEMMA KillPipeStep ==
  ASSUME PipesAssumption, PipesInv, KillEither
  PROVE  PipesInv'
  <1>1. CASE (reader' = "print") <=> (reader = "print")
    <2>1. UNCHANGED <<kind, input, content, seen, alone>>
      BY DEF KillEither
    <2>2. /\ writer' # "write" \/ writer' = writer
          /\ writer' \notin {"write", "gone"} => writer \notin {"write", "gone"}
          /\ reader = "gone" => reader' = "gone"
      BY DEF KillEither
    <2>3. killed => killed'
      BY DEF KillEither
    <2>4. ForkedInv'
      BY DEF KillEither, PipesInv, ForkedInv
    <2> QED
      BY <1>1, <2>1, <2>2, <2>3, <2>4, QuietPipeStep
  <1>2. CASE reader = "print" /\ reader' # "print"
    <2>1. /\ kind' = kind /\ buff' = buff /\ put' = put /\ heads' = heads
          /\ passed' = passed /\ taken' = taken /\ hand' = hand /\ alone' = alone
          /\ reader' = "gone" /\ writer' = writer /\ killed' = TRUE /\ shown' = shown
      BY <1>2 DEF KillEither, input, content, seen
    <2>2. UNCHANGED <<kind, input, content, hand, alone>>
      BY DEF KillEither, seen
    <2>3. /\ Line \in Seq(Int) /\ Printing \in Seq(Int) /\ Len(Line) = Len(shown) + Len(Printing)
          /\ \A j \in 1 .. Len(shown) : Line[j] = shown[j]
      BY LineIsSeq DEF PipesInv
    <2>4. shown \in Seq(Int) /\ \A j \in 1 .. Len(shown) : shown[j] <= taken
      BY DEF PipesInv, PipesTyping
    <2>5. Line' = shown
      <3>1. Line' = shown \o <<>>
        BY <2>1 DEF Line, Printing
      <3>2. \A s \in Seq(Int) : s \o <<>> = s
        BY ConcatEmptySeq
      <3> QED
        BY <2>4, <3>1, <3>2
    <2>6. /\ kind = "pipe" => (ArraysInv /\ WordsInv /\ TailInv)'
          /\ (Known' <=> Known) /\ PipesTyping'
      BY <2>1, <2>2, <2>4, ArraysStay
    <2>7. Len(shown) \in Nat /\ Len(shown) <= Len(Line) /\ Len(Line) \in Nat
      BY <2>3, <2>4
    <2>8. ASSUME kind = "pipe", Known PROVE HeadsInOrder' /\ AloneInv'
      <3>1. HeadsInOrder'
        BY <2>1, <2>3, <2>5, <2>7, <2>8 DEF PipesInv, ArrayInv, HeadsInOrder
      <3>2. AloneInv'
        BY <2>1, <2>8 DEF PipesInv, ArrayInv, AloneInv
      <3> QED
        BY <3>1, <3>2
    <2>9. ArrayInv'
      BY <2>1, <2>6, <2>8 DEF ArrayInv
    <2>10. StreamInv'
      <3>1. ASSUME kind = "fifo" PROVE shown = UpTo(Len(shown))
        <4>1. Line = UpTo(Len(Line))
          BY <3>1 DEF PipesInv, StreamInv
        <4>2. \A j \in 1 .. Len(shown) : shown[j] = j
          BY <2>3, <2>7, <4>1 DEF UpTo
        <4> QED
          BY <2>4, <2>7, <4>2 DEF UpTo
      <3> QED
        BY <2>1, <2>5, <3>1 DEF PipesInv, StreamInv
    <2>11. ForkedInv'
      BY DEF KillEither, PipesInv, ForkedInv
    <2> QED
      BY <2>6, <2>9, <2>10, <2>11 DEF PipesInv
  <1>3. CASE reader # "print" /\ reader' = "print"
    BY <1>3 DEF KillEither
  <1> QED
    BY <1>1, <1>2, <1>3

-----------------------------------------------------------------------------
(* buff holds a word when one was entered.                                 *)
LEMMA BuffNext ==
  ASSUME PipesAssumption, PipesInv, Get \/ GetNothing
  PROVE  /\ buff' \in Seq(Cell) /\ given' \in Nat /\ over' \in BOOLEAN
         /\ kind = "pipe" => /\ Len(buff') = Width
                             /\ given' > 0 => WordAt(buff', 1)
                             /\ Known' => Known /\ WordAt(buff', 1)
         /\ kind = "fifo" => \A j \in 1 .. Len(buff') : buff'[j] = "char"
  <1>1. /\ buff \in Seq(Cell) /\ given \in Nat /\ over \in BOOLEAN /\ kind \in {"pipe", "fifo"}
        /\ Width \in Nat
    BY DEF PipesInv, PipesTyping, PipesAssumption
  <1>2. ASSUME NEW n \in WordLengths, buff' = WithWord(n), given' = given + 1, over' = over, ~ over
        PROVE  /\ buff' \in Seq(Cell) /\ given' \in Nat /\ over' \in BOOLEAN
               /\ kind = "pipe" => /\ Len(buff') = Width
                                   /\ given' > 0 => WordAt(buff', 1)
                                   /\ Known' => Known /\ WordAt(buff', 1)
               /\ kind = "fifo" => \A j \in 1 .. Len(buff') : buff'[j] = "char"
    <2>1. CASE kind = "pipe"
      <3>1. n \in 1 .. Width - 1
        BY <1>2, <2>1 DEF WordLengths
      <3>2. buff' = [j \in 1 .. Width |->
                       IF j <= n THEN "char" ELSE IF j = n + 1 THEN "nul" ELSE buff[j]]
        BY <1>2, <2>1 DEF WithWord
      <3>3. \A j \in 1 .. Width : buff[j] \in Cell
        BY <1>1, <2>1 DEF PipesInv, ArrayInv, ArraysInv
      <3>4. buff' \in [1 .. Width -> Cell]
        BY <3>2, <3>3 DEF Cell
      <3>5. buff' \in Seq(Cell) /\ Len(buff') = Width
        BY <1>1, <3>2, <3>4
      <3>6. WordAt(buff', 1)
        <4>1. \A m \in 0 .. n - 1 : buff'[1 + m] = "char"
          BY <1>1, <3>1, <3>2
        <4>2. buff'[1 + n] = "nul"
          BY <1>1, <3>1, <3>2
        <4> QED
          BY <3>1, <4>1, <4>2 DEF WordAt
      <3>7. Known
        BY <1>2 DEF Known
      <3> QED
        BY <1>1, <1>2, <2>1, <3>5, <3>6, <3>7
    <2>2. CASE kind = "fifo"
      <3>1. n \in Nat
        BY <1>2, <2>2 DEF WordLengths, PipesAssumption
      <3>2. buff' = [j \in 1 .. n |-> "char"]
        BY <1>2, <2>2 DEF WithWord
      <3>3. buff' \in Seq(Cell) /\ Len(buff') = n
        BY <3>1, <3>2 DEF Cell
      <3>4. \A j \in 1 .. Len(buff') : buff'[j] = "char"
        BY <3>2, <3>3
      <3>5. given' \in Nat /\ over' \in BOOLEAN /\ kind # "pipe"
        BY <1>1, <1>2, <2>2
      <3> QED
        BY <3>3, <3>4, <3>5
    <2> QED
      BY <1>1, <2>1, <2>2
  <1>3. ASSUME given' = given, buff' = buff, over' = TRUE
        PROVE  /\ buff' \in Seq(Cell) /\ given' \in Nat /\ over' \in BOOLEAN
               /\ kind = "pipe" => /\ Len(buff') = Width
                                   /\ given' > 0 => WordAt(buff', 1)
                                   /\ Known' => Known /\ WordAt(buff', 1)
               /\ kind = "fifo" => \A j \in 1 .. Len(buff') : buff'[j] = "char"
    <2>1. kind = "pipe" => Len(buff) = Width /\ (given > 0 => WordAt(buff, 1))
      BY DEF PipesInv, ArrayInv, ArraysInv, WordsInv
    <2>2. kind = "fifo" => \A j \in 1 .. Len(buff) : buff[j] = "char"
      BY DEF PipesInv, StreamInv
    <2>3. Known' => given > 0 /\ Known
      BY <1>3 DEF Known
    <2> QED
      BY <1>1, <1>3, <2>1, <2>2, <2>3
  <1>4. CASE Get
    <2>1. CASE \E n \in WordLengths : buff' = WithWord(n) /\ given' = given + 1 /\ over' = over
      BY <1>2, <1>4, <2>1 DEF Get
    <2>2. CASE given' = given /\ buff' = buff /\ over' = TRUE
      BY <1>3, <2>2
    <2> QED
      BY <1>4, <2>1, <2>2 DEF Get
  <1>5. CASE GetNothing
    <2>1. given' = given /\ buff' = buff /\ over' = TRUE
      BY <1>1, <1>5 DEF GetNothing
    <2> QED
      BY <1>3, <2>1
  <1> QED
    BY <1>4, <1>5

(* One more array, or word, is given to write.                             *)
LEMMA GivePipeStep ==
  ASSUME PipesAssumption, PipesInv, Get \/ GetNothing
  PROVE  PipesInv'
  <1> DEFINE L == Len(put)
  <1>1. /\ writer = "get" /\ writer' = "write" /\ put' = put \o buff'
        /\ heads' = IF kind = "pipe" THEN heads \cup {L + 1} ELSE heads
        /\ kind' = kind /\ reader' = reader /\ passed' = passed /\ taken' = taken
        /\ hand' = hand /\ shown' = shown /\ killed' = killed /\ alone' = alone
    BY DEF Get, GetNothing, GiveToWrite, content, seen, ghosts
  <1>2. /\ buff' \in Seq(Cell) /\ given' \in Nat /\ over' \in BOOLEAN
        /\ kind = "pipe" => /\ Len(buff') = Width
                            /\ given' > 0 => WordAt(buff', 1)
                            /\ Known' => Known /\ WordAt(buff', 1)
        /\ kind = "fifo" => \A j \in 1 .. Len(buff') : buff'[j] = "char"
    BY BuffNext
  <1>3. /\ put \in Seq(Cell) /\ L \in Nat /\ Len(buff') \in Nat
        /\ passed = L /\ taken \in 0 .. L /\ heads \subseteq 1 .. L /\ alone \subseteq heads
    BY <1>1, <1>2 DEF PipesInv, PipesTyping
  <1>4. /\ put' \in Seq(Cell) /\ Len(put') = L + Len(buff')
        /\ \A j \in 1 .. L : put'[j] = put[j]
        /\ \A j \in 1 .. Len(buff') : put'[L + j] = buff'[j]
    <2>1. put' = Cat(put, buff')
      BY <1>1 DEF Cat
    <2>2. Cat(put, buff') \in Seq(Cell)
      BY <1>2, <1>3, CatType
    <2>3. /\ Len(Cat(put, buff')) = Len(put) + Len(buff')
          /\ \A j \in 1 .. Len(put) : Cat(put, buff')[j] = put[j]
          /\ \A j \in 1 .. Len(buff') : Cat(put, buff')[Len(put) + j] = buff'[j]
      BY <1>2, <1>3, CatElements
    <2> QED
      BY <2>1, <2>2, <2>3
  <1> HIDE DEF L
  <1>5. ReadSize' = ReadSize /\ (kind = "pipe" => Width \in Nat /\ Width >= 1)
    BY <1>1 DEF ReadSize, PipesAssumption
  <1>6. PipesTyping'
    <2>1. heads' \subseteq 1 .. Len(put') /\ alone' \subseteq heads'
      BY <1>1, <1>2, <1>3, <1>4, <1>5
    <2>2. passed' \in 0 .. Len(put') /\ taken' \in 0 .. passed'
      BY <1>1, <1>3, <1>4
    <2> QED
      BY <1>1, <1>2, <1>4, <1>5, <2>1, <2>2 DEF PipesInv, PipesTyping
  <1>7. Line' = Line /\ \A k \in 1 .. ReadSize : StopsAt(k) <=> StopsAt(k)'
    <2>1. \A p \in 1 .. taken : put'[p] = put[p]
      BY <1>3, <1>4
    <2> QED
      BY <1>1, <2>1, LineStays DEF PipesInv
  <1>8. ASSUME kind = "pipe" PROVE ArraysInv'
    <2>1. /\ \A h \in heads : /\ h + Width - 1 <= L
                              /\ h = 1 \/ h - Width \in heads
                              /\ \A g \in heads : h < g => h + Width <= g
          /\ \A p \in 1 .. L : \E h \in heads : h <= p /\ p <= h + Width - 1
      BY <1>8 DEF PipesInv, ArrayInv, ArraysInv, L
    <2>2. Len(put') = L + Width /\ heads' = heads \cup {L + 1}
      BY <1>1, <1>2, <1>4, <1>8
    <2>3. L + 1 = 1 \/ L + 1 - Width \in heads
      <3>1. CASE L = 0
        BY <3>1
      <3>2. CASE L # 0
        <4>1. L \in 1 .. L
          BY <1>3, <3>2
        <4>2. PICK g \in heads : g <= L /\ L <= g + Width - 1
          BY <2>1, <4>1
        <4>3. g + Width - 1 = L
          <5>1. g \in Int /\ g + Width - 1 <= L
            BY <1>3, <2>1
          <5> QED
            BY <1>3, <1>5, <1>8, <4>2, <5>1
        <4>4. g = L + 1 - Width
          BY <1>3, <1>5, <1>8, <4>3
        <4> QED
          BY <4>4
      <3> QED
        BY <3>1, <3>2
    <2>4. ASSUME NEW h \in heads'
          PROVE  /\ h + Width - 1 <= Len(put')
                 /\ h = 1 \/ h - Width \in heads'
                 /\ \A g \in heads' : h < g => h + Width <= g
      <3>1. CASE h \in heads
        <4>1. h \in Int /\ h + Width - 1 <= L /\ (h = 1 \/ h - Width \in heads)
          BY <1>3, <2>1, <3>1
        <4>2. \A g \in heads : h < g => h + Width <= g
          BY <2>1, <3>1
        <4>3. h + Width <= L + 1 /\ h + Width - 1 <= Len(put')
          BY <1>3, <1>5, <1>8, <2>2, <4>1
        <4> QED
          BY <2>2, <4>1, <4>2, <4>3
      <3>2. CASE h = L + 1
        BY <1>3, <1>5, <1>8, <2>2, <2>3, <3>2
      <3> QED
        BY <2>2, <2>4, <3>1, <3>2
    <2>5. ASSUME NEW p \in 1 .. Len(put')
          PROVE  \E h \in heads' : h <= p /\ p <= h + Width - 1
      <3>1. CASE p <= L
        BY <1>3, <2>1, <2>2, <3>1
      <3>2. CASE p > L
        BY <1>3, <1>5, <1>8, <2>2, <3>2
      <3> QED
        BY <1>3, <3>1, <3>2
    <2>6. passed' + 1 \in heads' /\ passed' < Len(put')
      BY <1>1, <1>3, <1>5, <1>8, <2>2
    <2> QED
      BY <1>1, <1>2, <1>8, <2>4, <2>5, <2>6 DEF ArraysInv
  <1>9. ASSUME kind = "pipe" PROVE WordsInv'
    <2>1. ASSUME Known', NEW h \in heads' PROVE WordAt(put', h)
      <3>1. CASE h \in heads
        <4>1. WordAt(put, h) /\ h + Width - 1 <= L
          BY <1>2, <1>9, <2>1, <3>1 DEF PipesInv, ArrayInv, WordsInv, ArraysInv, L
        <4>2. PICK n \in 1 .. Width - 1 :
                (\A m \in 0 .. n - 1 : put[h + m] = "char") /\ put[h + n] = "nul"
          BY <4>1 DEF WordAt
        <4>3. \A m \in 0 .. n : h + m \in 1 .. L
          BY <1>3, <1>5, <1>9, <3>1, <4>1
        <4>4. \A m \in 0 .. n : put'[h + m] = put[h + m]
          BY <1>4, <4>3
        <4>5. n \in 0 .. n /\ \A m \in 0 .. n - 1 : m \in 0 .. n
          BY <1>5, <1>9
        <4> QED
          BY <4>2, <4>4, <4>5 DEF WordAt
      <3>2. CASE h = L + 1
        <4>1. WordAt(buff', 1)
          BY <1>2, <1>9, <2>1
        <4>2. PICK n \in 1 .. Width - 1 :
                (\A m \in 0 .. n - 1 : buff'[1 + m] = "char") /\ buff'[1 + n] = "nul"
          BY <4>1 DEF WordAt
        <4>3. \A m \in 0 .. n : 1 + m \in 1 .. Len(buff') /\ h + m = L + (1 + m)
          BY <1>2, <1>3, <1>5, <1>9, <3>2
        <4>4. \A m \in 0 .. n : put'[h + m] = buff'[1 + m]
          BY <1>4, <4>3
        <4>5. n \in 0 .. n /\ \A m \in 0 .. n - 1 : m \in 0 .. n
          BY <1>5, <1>9
        <4> QED
          BY <4>2, <4>4, <4>5 DEF WordAt
      <3> QED
        BY <1>1, <1>9, <2>1, <3>1, <3>2
    <2>2. given' > 0 => WordAt(buff', 1)
      BY <1>2, <1>9
    <2> QED
      BY <2>1, <2>2 DEF WordsInv
  <1>10. ASSUME kind = "pipe" PROVE TailInv'
    <2>1. ASSUME NEW t \in 1 .. Width - 1, taken + t + 1 - Width \in heads'
          PROVE  taken + t + 1 - Width \in heads
      <3>1. taken + t + 1 - Width # L + 1
        BY <1>3, <1>5, <1>10
      <3> QED
        BY <1>1, <1>10, <2>1, <3>1
    <2>2. heads \subseteq heads'
      BY <1>1
    <2> QED
      BY <1>1, <1>10, <2>1, <2>2 DEF PipesInv, ArrayInv, TailInv
  <1>11. ASSUME kind = "pipe", Known'
         PROVE  HeadsInOrder' /\ AloneInv' /\ (reader' = "print" => HeldInv')
    <2>1. \A p \in Int : p <= taken => (p \in heads' <=> p \in heads)
      BY <1>1, <1>3
    <2>2. HeadsInOrder /\ AloneInv /\ (reader = "print" => HeldInv)
      BY <1>2, <1>11 DEF PipesInv, ArrayInv
    <2>3. HeadsInOrder'
      <3>1. Line \in Seq(Int) /\ \A j \in 1 .. Len(Line) : Line[j] <= taken
        BY LineIsSeq DEF PipesInv
      <3>2. \A j \in 1 .. Len(Line) : Line[j] \in heads' <=> Line[j] \in heads
        BY <2>1, <3>1
      <3> QED
        BY <1>7, <2>2, <3>2 DEF HeadsInOrder
    <2>4. AloneInv'
      BY <1>1, <1>7, <2>2 DEF AloneInv
    <2>5. ASSUME reader = "print" PROVE HeldInv'
      <3>1. ReadSize \in Nat /\ hand \in [1 .. ReadSize + 1 -> Int]
            /\ \A j \in 1 .. ReadSize + 1 : hand[j] <= taken
        BY SizeFacts DEF PipesInv, PipesTyping
      <3>2. \A j \in 1 .. ReadSize + 1 : hand[j] \in heads' <=> hand[j] \in heads
        BY <2>1, <3>1
      <3>3. PICK k \in 1 .. ReadSize :
              /\ StopsAt(k)
              /\ \A j \in 1 .. k - 1 :
                   hand[j] \in heads => \A l \in j .. k : hand[l] = hand[j] + (l - j)
        BY <2>2, <2>5 DEF HeldInv
      <3>4. StopsAt(k)'
        BY <1>7, <3>3
      <3>5. \A j \in 1 .. k - 1 : j \in 1 .. ReadSize + 1
        BY <3>1
      <3>6. \A j \in 1 .. k - 1 :
              hand'[j] \in heads' => \A l \in j .. k : hand'[l] = hand'[j] + (l - j)
        BY <1>1, <3>2, <3>3, <3>5
      <3> QED
        BY <1>5, <3>4, <3>6 DEF HeldInv
    <2> QED
      BY <1>1, <2>3, <2>4, <2>5
  <1>12. ArrayInv'
    BY <1>1, <1>8, <1>9, <1>10, <1>11 DEF ArrayInv
  <1>13. StreamInv'
    <2>1. ASSUME kind = "fifo", NEW p \in 1 .. Len(put') PROVE put'[p] = "char"
      <3>1. CASE p <= L
        <4>1. p \in 1 .. L
          BY <1>3, <3>1
        <4> QED
          BY <1>4, <2>1, <4>1 DEF PipesInv, StreamInv, L
      <3>2. CASE p > L
        <4>1. p - L \in 1 .. Len(buff') /\ L + (p - L) = p
          BY <1>3, <1>4, <3>2
        <4> QED
          BY <1>2, <1>4, <2>1, <4>1
      <3> QED
        BY <1>3, <3>1, <3>2
    <2> QED
      BY <1>1, <1>2, <1>7, <2>1 DEF PipesInv, StreamInv
  <1>14. ForkedInv'
    BY <1>1 DEF ForkedInv
  <1> QED
    BY <1>6, <1>12, <1>13, <1>14 DEF PipesInv

-----------------------------------------------------------------------------
(* What is given to write goes into the pipe.                              *)
LEMMA WritePipeStep ==
  ASSUME PipesAssumption, PipesInv, WritePipe
  PROVE  PipesInv'
  <1>1. /\ writer = "write" /\ kind' = kind /\ reader' = reader /\ taken' = taken
        /\ given' = given /\ over' = over /\ buff' = buff /\ put' = put /\ heads' = heads
        /\ hand' = hand /\ shown' = shown /\ killed' = killed
    BY DEF WritePipe, input, seen
  <1>2. CASE writer' = "gone" /\ passed' = passed /\ alone' = alone
    <2>1. UNCHANGED <<kind, input, content, seen, alone>>
      BY <1>1, <1>2 DEF input, content, seen
    <2>2. ForkedInv'
      BY <1>2 DEF ForkedInv
    <2> QED
      BY <1>1, <1>2, <2>1, <2>2, QuietPipeStep
  <1>3. ASSUME NEW w \in Pieces, passed' = w,
               writer' = IF w = Len(put) THEN "get" ELSE "write",
               alone' = IF kind = "pipe" /\ passed = taken
                        THEN alone \cup {passed + 1} ELSE alone
        PROVE  PipesInv'
    <2>1. /\ put \in Seq(Cell) /\ Len(put) \in Nat /\ passed \in 0 .. Len(put)
          /\ taken \in 0 .. passed
      BY DEF PipesInv, PipesTyping
    <2>2. w \in passed .. Len(put) /\ (kind = "pipe" => w = Len(put))
      BY <2>1 DEF Pieces
    <2>3. alone' \subseteq heads
      <3>1. kind = "pipe" => passed + 1 \in heads
        BY <1>1 DEF PipesInv, ArrayInv, ArraysInv
      <3>2. alone \subseteq heads
        BY DEF PipesInv, PipesTyping
      <3> QED
        BY <1>3, <3>1, <3>2
    <2>4. ReadSize' = ReadSize
      BY <1>1 DEF ReadSize
    <2>5. PipesTyping'
      <3>1. passed' \in 0 .. Len(put) /\ taken \in 0 .. passed'
        BY <1>3, <2>1, <2>2
      <3>2. writer' \notin {"write", "gone"} => passed' = Len(put)
        BY <1>3
      <3> QED
        BY <1>1, <2>3, <2>4, <3>1, <3>2 DEF PipesInv, PipesTyping
    <2>6. Line' = Line /\ \A k \in 1 .. ReadSize : StopsAt(k) <=> StopsAt(k)'
      BY <1>1, LineStays DEF PipesInv
    <2>7. ASSUME kind = "pipe" PROVE ArraysInv' /\ WordsInv' /\ TailInv'
      <3>1. ArraysInv'
        BY <1>1, <1>3, <2>1, <2>2, <2>7 DEF PipesInv, ArrayInv, ArraysInv
      <3>2. WordsInv'
        BY <1>1, <2>7 DEF PipesInv, ArrayInv, WordsInv, WordAt, Known
      <3>3. TailInv'
        BY <1>1, <2>7 DEF PipesInv, ArrayInv, TailInv
      <3> QED
        BY <3>1, <3>2, <3>3
    <2>8. ASSUME kind = "pipe", Known'
          PROVE  HeadsInOrder' /\ AloneInv' /\ (reader' = "print" => HeldInv')
      <3>1. HeadsInOrder /\ AloneInv /\ (reader = "print" => HeldInv)
        BY <1>1, <2>8 DEF PipesInv, ArrayInv, Known
      <3>2. HeadsInOrder'
        BY <1>1, <2>6, <3>1 DEF HeadsInOrder
      <3>3. AloneInv'
        BY <1>1, <1>3, <2>6, <3>1 DEF AloneInv
      <3>4. reader' = "print" => HeldInv'
        BY <1>1, <2>4, <2>6, <3>1 DEF HeldInv
      <3> QED
        BY <3>2, <3>3, <3>4
    <2>9. ArrayInv'
      BY <1>1, <2>7, <2>8 DEF ArrayInv
    <2>10. StreamInv'
      BY <1>1, <2>6 DEF PipesInv, StreamInv
    <2>11. ForkedInv'
      BY <1>3 DEF ForkedInv
    <2> QED
      BY <2>5, <2>9, <2>10, <2>11 DEF PipesInv
  <1> QED
    BY <1>2, <1>3 DEF WritePipe
-----------------------------------------------------------------------------
(* An array is in the pipe as a whole, and so is the one behind it.        *)
LEMMA ArrayRead ==
  ASSUME PipesAssumption, PipesInv, kind = "pipe", taken < passed
  PROVE  \E h \in heads :
           /\ h <= taken + 1 /\ taken + 1 <= h + Width - 1 /\ h + Width - 1 <= passed
           /\ h + Width - 1 < passed => h + Width \in heads /\ h + 2 * Width - 1 <= passed
  <1>1. /\ Len(put) \in Nat /\ passed \in 0 .. Len(put) /\ taken \in 0 .. passed
        /\ heads \subseteq 1 .. Len(put) /\ Width \in Nat /\ Width >= 1
    BY DEF PipesInv, PipesTyping, PipesAssumption
  <1>2. /\ \A h \in heads : /\ h + Width - 1 <= Len(put)
                            /\ \A g \in heads : h < g => h + Width <= g
        /\ \A p \in 1 .. Len(put) : \E h \in heads : h <= p /\ p <= h + Width - 1
        /\ passed < Len(put) => passed + 1 \in heads
    BY DEF PipesInv, ArrayInv, ArraysInv
  <1>3. ASSUME NEW g \in heads, g <= passed PROVE g + Width - 1 <= passed
    <2>1. g \in Int /\ g + Width - 1 <= Len(put)
      BY <1>1, <1>2
    <2>2. CASE passed = Len(put)
      BY <2>1, <2>2
    <2>3. CASE passed < Len(put)
      <3>1. passed + 1 \in heads /\ g < passed + 1
        BY <1>1, <1>2, <1>3, <2>1, <2>3
      <3>2. g + Width <= passed + 1
        BY <1>2, <3>1
      <3> QED
        BY <1>1, <2>1, <3>2
    <2> QED
      BY <1>1, <2>2, <2>3
  <1>4. PICK h \in heads : h <= taken + 1 /\ taken + 1 <= h + Width - 1
    <2>1. taken + 1 \in 1 .. Len(put)
      BY <1>1
    <2> QED
      BY <1>2, <2>1
  <1>5. h \in Int /\ h <= passed
    BY <1>1, <1>4
  <1>6. h + Width - 1 <= passed
    BY <1>3, <1>5
  <1>7. ASSUME h + Width - 1 < passed
        PROVE  h + Width \in heads /\ h + 2 * Width - 1 <= passed
    <2>1. h + Width \in 1 .. Len(put)
      BY <1>1, <1>5, <1>7
    <2>2. PICK g \in heads : g <= h + Width /\ h + Width <= g + Width - 1
      BY <1>2, <2>1
    <2>3. g \in Int /\ h < g
      BY <1>1, <1>5, <2>2
    <2>4. g = h + Width
      <3>1. h + Width <= g
        BY <1>2, <2>3
      <3> QED
        BY <1>1, <1>5, <2>2, <2>3, <3>1
    <2>5. g + Width - 1 <= passed
      <3>1. g <= passed
        BY <1>1, <1>5, <1>7, <2>4
      <3> QED
        BY <1>3, <3>1
    <2> QED
      BY <1>1, <1>5, <2>2, <2>4, <2>5
  <1> QED
    BY <1>4, <1>6, <1>7

(* After a read of n cells: printf stops at cell k, and either at what was *)
(* just read, or without any beginning of a word before.                   *)
LEMMA ReadStops ==
  ASSUME PipesAssumption, PipesInv, kind = "pipe", Known, taken < passed,
         NEW n \in Nat, n = IF passed - taken <= ReadSize THEN passed - taken ELSE ReadSize,
         NEW H, H = HandAfter(n)
  PROVE  \E k \in 1 .. ReadSize :
           /\ IsNul(H[k]) /\ \A j \in 1 .. k - 1 : ~ IsNul(H[j])
           /\ k <= n \/ \A j \in 1 .. k - 1 : H[j] \notin heads
           /\ taken + 1 \in heads => k \in 2 .. n
  <1>1. /\ Len(put) \in Nat /\ passed \in 0 .. Len(put) /\ taken \in 0 .. passed
        /\ heads \subseteq 1 .. Len(put) /\ Width \in Nat /\ Width >= 1
    BY DEF PipesInv, PipesTyping, PipesAssumption
  <1>2. ReadSize \in Nat /\ ReadSize >= 1 /\ 2 * Width - 1 <= ReadSize
    BY SizeFacts
  <1>3. n \in 1 .. ReadSize /\ n <= passed - taken
    BY <1>1, <1>2
  <1>4. /\ \A j \in 1 .. n : H[j] = taken + j
        /\ \A j \in 1 .. ReadSize + 1 : ~ (j <= n) => H[j] = hand[j]
    BY <1>2, <1>3 DEF HandAfter
  <1>5. PICK h \in heads :
          /\ h <= taken + 1 /\ taken + 1 <= h + Width - 1 /\ h + Width - 1 <= passed
          /\ h + Width - 1 < passed => h + Width \in heads /\ h + 2 * Width - 1 <= passed
    BY ArrayRead
  <1>6. \A g \in heads : /\ WordAt(put, g)
                         /\ \A f \in heads : g < f => g + Width <= f
    BY DEF PipesInv, ArrayInv, WordsInv, ArraysInv
  <1>7. h \in Int /\ h >= 1
    BY <1>1
  <1>8. ASSUME NEW g \in heads, NEW m \in 1 .. Width - 1, put[g + m] = "nul"
        PROVE  IsNul(g + m)
    <2>1. g + m \in Int /\ g + m > 0
      BY <1>1
    <2> QED
      BY <1>8, <2>1 DEF IsNul
  <1>9. taken + 1 \in heads => h = taken + 1
    BY <1>1, <1>5, <1>6, <1>7
  <1>10. \E s \in 1 .. ReadSize :
           /\ IsNul(H[s])
           /\ s <= n \/ \A j \in 1 .. s - 1 : H[j] \notin heads
           /\ taken + 1 \in heads => s <= n
    <2>1. ASSUME NEW g \in heads, taken + 1 <= g, g <= taken + Width, g + Width - 1 <= passed
          PROVE  \E s \in 1 .. n : IsNul(H[s])
      <3>1. g \in Int
        BY <1>1
      <3>2. PICK m \in 1 .. Width - 1 : put[g + m] = "nul"
        BY <1>6 DEF WordAt
      <3>3. PICK s \in 1 .. n : taken + s = g + m
        <4>1. g + m - taken \in 1 .. n /\ taken + (g + m - taken) = g + m
          BY <1>1, <1>2, <1>3, <2>1, <3>1
        <4> QED
          BY <4>1
      <3>4. H[s] = g + m
        BY <1>4, <3>3
      <3>5. IsNul(g + m)
        BY <1>8, <3>2
      <3> QED
        BY <3>3, <3>4, <3>5
    <2>2. CASE h = taken + 1
      <3>1. \E s \in 1 .. n : IsNul(H[s])
        BY <1>1, <1>5, <2>1, <2>2
      <3> QED
        BY <1>2, <1>3, <3>1
    <2>3. CASE h + Width - 1 < passed
      <3>1. taken + 1 <= h + Width /\ h + Width <= taken + Width + 1
        BY <1>1, <1>5, <1>7
      <3>2. CASE h = taken + 1
        BY <2>2, <3>2
      <3>3. CASE h # taken + 1
        <4>1. h + Width <= taken + Width /\ (h + Width) + Width - 1 <= passed
          BY <1>1, <1>5, <1>7, <2>3, <3>3
        <4>2. \E s \in 1 .. n : IsNul(H[s])
          BY <1>5, <2>1, <2>3, <3>1, <4>1
        <4> QED
          BY <1>2, <1>3, <4>2
      <3> QED
        BY <3>2, <3>3
    <2>4. CASE h # taken + 1 /\ ~ (h + Width - 1 < passed)
      <3> DEFINE t == h + Width - 1 - taken
      <3>1. t \in 1 .. Width - 1 /\ taken + t + 1 - Width = h /\ n = t
        BY <1>1, <1>2, <1>5, <1>7, <2>4
      <3> HIDE DEF t
      <3>2. hand[t] \in heads /\ \A m \in 0 .. Width - 1 : hand[t + m] = hand[t] + m
        BY <3>1 DEF PipesInv, ArrayInv, TailInv
      <3>3. PICK g \in heads : g = hand[t]
        BY <3>2
      <3>4. PICK m \in 1 .. Width - 1 : put[g + m] = "nul"
        BY <1>6 DEF WordAt
      <3>5. t + m \in 1 .. ReadSize /\ H[t + m] = g + m
        <4>1. t + m \in 1 .. ReadSize /\ ~ (t + m <= n) /\ m \in 0 .. Width - 1
          BY <1>1, <1>2, <3>1
        <4>2. H[t + m] = hand[t + m]
          BY <1>2, <1>4, <4>1
        <4> QED
          BY <3>2, <3>3, <4>1, <4>2
      <3>6. IsNul(H[t + m])
        BY <1>8, <3>4, <3>5
      <3>7. ASSUME NEW j \in 1 .. t + m - 1 PROVE H[j] \notin heads
        <4>1. CASE j <= t
          <5>1. H[j] = taken + j
            BY <1>4, <3>1, <4>1
          <5>2. h < H[j] /\ H[j] < h + Width
            <6>1. h <= taken
              BY <1>1, <1>5, <1>7, <2>4
            <6> QED
              BY <1>1, <1>7, <3>1, <4>1, <5>1, <6>1
          <5>3. ASSUME NEW f \in heads, f = H[j] PROVE FALSE
            <6>1. h < f /\ f < h + Width /\ f \in Int
              BY <1>1, <5>2, <5>3
            <6>2. h + Width <= f
              BY <1>6, <6>1
            <6> QED
              BY <1>1, <1>7, <6>1, <6>2
          <5> QED
            BY <5>3
        <4>2. CASE j > t
          <5>1. j - t \in 1 .. m - 1 /\ j = t + (j - t) /\ j \in 1 .. ReadSize + 1 /\ ~ (j <= n)
            BY <1>1, <1>2, <3>1, <3>5, <4>2
          <5>2. H[j] = hand[t + (j - t)]
            BY <1>4, <5>1
          <5>3. H[j] = g + (j - t)
            BY <1>1, <3>2, <3>3, <5>1, <5>2
          <5>4. g \in Int /\ g < H[j] /\ H[j] < g + Width /\ H[j] \in Int
            BY <1>1, <5>1, <5>3
          <5> QED
            BY <1>1, <1>6, <5>4
        <4> QED
          BY <1>1, <3>1, <4>1, <4>2
      <3>8. taken + 1 \notin heads
        BY <1>9, <2>4
      <3>9. PICK s \in 1 .. ReadSize : s = t + m
        BY <3>5
      <3>10. IsNul(H[s])
        BY <3>6, <3>9
      <3>11. \A j \in 1 .. s - 1 : H[j] \notin heads
        <4>1. \A j \in 1 .. t + m - 1 : H[j] \notin heads
          BY <3>7
        <4> QED
          BY <1>1, <3>1, <3>9, <4>1
      <3> QED
        BY <3>8, <3>10, <3>11
    <2> QED
      BY <2>2, <2>3, <2>4
  <1>11. PICK s \in 1 .. ReadSize :
           /\ IsNul(H[s])
           /\ s <= n \/ \A j \in 1 .. s - 1 : H[j] \notin heads
           /\ taken + 1 \in heads => s <= n
    BY <1>10
  <1> DEFINE nuls == {j \in 1 .. ReadSize : IsNul(H[j])}
  <1>12. PICK k : k = Min(nuls)
    OBVIOUS
  <1>13. k \in nuls /\ \A y \in nuls : k <= y
    <2>1. nuls \in SUBSET Nat /\ nuls # {}
      BY <1>11
    <2> HIDE DEF nuls
    <2> QED
      BY <1>12, <2>1, MinExists
  <1>14. k \in 1 .. ReadSize /\ IsNul(H[k]) /\ k <= s
    BY <1>11, <1>13
  <1>15. \A j \in 1 .. k - 1 : ~ IsNul(H[j])
    <2>1. ASSUME NEW j \in 1 .. k - 1, IsNul(H[j]) PROVE FALSE
      <3>1. j \in nuls
        BY <1>2, <1>14, <2>1
      <3>2. k <= j
        BY <1>13, <3>1
      <3> QED
        BY <1>14, <3>2
    <2> QED
      BY <2>1
  <1>16. k <= n \/ \A j \in 1 .. k - 1 : H[j] \notin heads
    BY <1>2, <1>3, <1>11, <1>14
  <1>17. taken + 1 \in heads => k \in 2 .. n
    <2>1. ASSUME taken + 1 \in heads PROVE k \in 2 .. n
      <3>1. put[taken + 1] = "char"
        <4>1. PICK m \in 1 .. Width - 1 :
                (\A d \in 0 .. m - 1 : put[taken + 1 + d] = "char") /\ put[taken + 1 + m] = "nul"
          BY <1>6, <2>1 DEF WordAt
        <4>2. 0 \in 0 .. m - 1 /\ taken + 1 + 0 = taken + 1
          BY <1>1
        <4> QED
          BY <4>1, <4>2
      <3>2. ~ IsNul(H[1])
        <4>1. H[1] = taken + 1 /\ taken + 1 # Zero
          BY <1>1, <1>3, <1>4 DEF Zero
        <4> QED
          BY <3>1, <4>1 DEF IsNul
      <3>3. k # 1 /\ k <= n
        BY <1>2, <1>3, <1>11, <1>14, <2>1, <3>2
      <3> QED
        BY <1>3, <1>14, <3>3
    <2> QED
      BY <2>1
  <1> HIDE DEF nuls
  <1> QED
    BY <1>14, <1>15, <1>16, <1>17

(* What is read comes behind all that was read before.                     *)
LEMMA ReadPipeStep ==
  ASSUME PipesAssumption, PipesInv, ReadPipe
  PROVE  PipesInv'
  <1> DEFINE n == Min({passed - taken, ReadSize})
  <1>1. /\ reader = "read" /\ reader' = "print" /\ taken < passed
        /\ hand' = HandAfter(n) /\ taken' = taken + n
        /\ kind' = kind /\ writer' = writer /\ passed' = passed /\ shown' = shown
        /\ given' = given /\ over' = over /\ buff' = buff /\ put' = put /\ heads' = heads
        /\ killed' = killed /\ alone' = alone
    BY DEF ReadPipe, input, ghosts
  <1>2. /\ Len(put) \in Nat /\ passed \in 0 .. Len(put) /\ taken \in 0 .. passed
        /\ heads \subseteq 1 .. Len(put) /\ shown \in Seq(Int)
        /\ \A j \in 1 .. Len(shown) : shown[j] <= taken
        /\ hand \in [1 .. ReadSize + 1 -> Int] /\ \A j \in 1 .. ReadSize + 1 : hand[j] <= taken
        /\ kind \in {"pipe", "fifo"} /\ alone \subseteq heads
    BY DEF PipesInv, PipesTyping
  <1>3. /\ ReadSize \in Nat /\ ReadSize >= 1 /\ ReadSize' = ReadSize
        /\ kind = "pipe" => /\ 2 * Width - 1 <= ReadSize
                            /\ ReadSize = (Arrays - 1) * Width + Width - 1
    <2>1. ReadSize' = ReadSize
      BY <1>1 DEF ReadSize
    <2> QED
      BY <1>2, <2>1, SizeFacts
  <1>4. n = IF passed - taken <= ReadSize THEN passed - taken ELSE ReadSize
    <2>1. passed - taken \in Int /\ ReadSize \in Int
      BY <1>2, <1>3
    <2> QED
      BY <2>1, MinOfTwo
  <1> HIDE DEF n
  <1>5. n \in 1 .. ReadSize /\ n \in Nat /\ n <= passed - taken
    BY <1>1, <1>2, <1>3, <1>4
  <1>6. /\ \A j \in 1 .. n : hand'[j] = taken + j
        /\ \A j \in 1 .. ReadSize + 1 :
             ~ (j <= n) => hand'[j] = IF kind = "fifo" /\ j = n + 1 THEN Zero ELSE hand[j]
    BY <1>1, <1>3, <1>5 DEF HandAfter
  <1>7. /\ hand' \in [1 .. ReadSize' + 1 -> Int]
        /\ \A j \in 1 .. ReadSize' + 1 : hand'[j] <= taken'
    <2>1. ASSUME NEW j \in 1 .. ReadSize + 1 PROVE hand'[j] \in Int /\ hand'[j] <= taken + n
      <3>1. CASE j <= n
        <4>1. hand'[j] = taken + j
          BY <1>5, <1>6, <3>1
        <4> QED
          BY <1>2, <1>5, <3>1, <4>1
      <3>2. CASE ~ (j <= n)
        BY <1>2, <1>5, <1>6, <3>2 DEF Zero
      <3> QED
        BY <3>1, <3>2
    <2>2. hand' = [j \in 1 .. ReadSize + 1 |-> hand'[j]]
      BY <1>1 DEF HandAfter
    <2> QED
      BY <1>1, <1>3, <2>1, <2>2
  <1>8. PipesTyping'
    <2>1. taken' \in 0 .. passed' /\ \A j \in 1 .. Len(shown') : shown'[j] <= taken'
      BY <1>1, <1>2, <1>5
    <2> QED
      BY <1>1, <1>7, <2>1 DEF PipesInv, PipesTyping
  <1>9. ASSUME NEW p PROVE IsNul(p)' <=> IsNul(p)
    BY <1>1 DEF IsNul
  <1>10. Line = shown
    <2>1. Line = shown \o <<>>
      BY <1>1 DEF Line, Printing
    <2>2. \A s \in Seq(Int) : s \o <<>> = s
      BY ConcatEmptySeq
    <2> QED
      BY <1>2, <2>1, <2>2
  <1>11. ASSUME NEW k \in 1 .. ReadSize + 1, IsNul(hand'[k]),
                \A j \in 1 .. k - 1 : ~ IsNul(hand'[j])
         PROVE  /\ Printing' = [j \in 1 .. k - 1 |-> hand'[j]] /\ Len(Printing') = k - 1
                /\ Line' \in Seq(Int) /\ Len(Line') = Len(shown) + (k - 1)
                /\ \A j \in 1 .. Len(shown) : Line'[j] = shown[j]
                /\ \A j \in 1 .. k - 1 : Line'[Len(shown) + j] = hand'[j]
    <2> DEFINE P == [j \in 1 .. k - 1 |-> hand'[j]]
    <2>1. {j \in 1 .. ReadSize + 1 : IsNul(hand'[j])} = {j \in 1 .. ReadSize' + 1 : IsNul(hand[j])'}
      <3>1. \A j \in 1 .. ReadSize + 1 : IsNul(hand'[j]) <=> IsNul(hand[j])'
        BY <1>1 DEF IsNul
      <3> QED
        BY <1>3, <3>1
    <2> DEFINE nuls == {j \in 1 .. ReadSize + 1 : IsNul(hand'[j])}
    <2>2. k \in nuls
      BY <1>11
    <2>3. \A j \in nuls : k <= j
      <3>1. ASSUME NEW j \in nuls, ~ (k <= j) PROVE FALSE
        <4>1. j \in 1 .. k - 1
          BY <1>3, <3>1
        <4> QED
          BY <1>11, <3>1, <4>1
      <3> QED
        BY <3>1
    <2>4. nuls \in SUBSET Int
      OBVIOUS
    <2>5. Printed' = LET stop == IF nuls = {} THEN ReadSize + 2 ELSE Min(nuls)
                     IN [j \in 1 .. stop - 1 |-> hand'[j]]
      BY <1>3, <2>1 DEF Printed
    <2> HIDE DEF nuls
    <2>6. Min(nuls) = k
      BY <2>2, <2>3, <2>4, MinIs
    <2>7. nuls # {}
      BY <2>2
    <2>8. Printed' = P
      BY <2>5, <2>6, <2>7
    <2>9. Printing' = P
      BY <1>1, <2>8 DEF Printing
    <2>10. P \in Seq(Int) /\ Len(P) = k - 1 /\ \A j \in 1 .. k - 1 : P[j] = hand'[j]
      <3>1. k - 1 \in Nat /\ \A j \in 1 .. k - 1 : hand'[j] \in Int
        BY <1>3, <1>7
      <3> QED
        BY <3>1
    <2> HIDE DEF P
    <2>11. Line' = shown \o P
      BY <1>1, <2>9 DEF Line
    <2>12. Cat(shown, P) \in Seq(Int)
      BY <1>2, <2>10, CatType
    <2>13. /\ Len(Cat(shown, P)) = Len(shown) + Len(P)
           /\ \A j \in 1 .. Len(shown) : Cat(shown, P)[j] = shown[j]
           /\ \A j \in 1 .. Len(P) : Cat(shown, P)[Len(shown) + j] = P[j]
      BY <1>2, <2>10, CatElements
    <2>14. Line' = Cat(shown, P)
      BY <2>11 DEF Cat
    <2> QED
      BY <2>9, <2>10, <2>12, <2>13, <2>14 DEF P
  <1>12. ASSUME kind = "pipe" PROVE ArraysInv' /\ WordsInv' /\ TailInv'
    <2>1. ArraysInv'
      BY <1>1, <1>12 DEF PipesInv, ArrayInv, ArraysInv
    <2>2. WordsInv'
      BY <1>1, <1>12 DEF PipesInv, ArrayInv, WordsInv, WordAt, Known
    <2>3. /\ Width \in Nat /\ Width >= 1 /\ Arrays - 1 \in Nat
          /\ \A h \in heads : /\ h + Width - 1 <= Len(put)
                              /\ h = 1 \/ h - Width \in heads
                              /\ \A g \in heads : h < g => h + Width <= g
          /\ passed < Len(put) => passed + 1 \in heads
      BY <1>12 DEF PipesInv, ArrayInv, ArraysInv, PipesAssumption
    <2>4. ASSUME NEW t \in 1 .. Width - 1, taken + n + t + 1 - Width \in heads
          PROVE  /\ hand'[t] \in heads
                 /\ \A m \in 0 .. Width - 1 : hand'[t + m] = hand'[t] + m
      <3>1. PICK h \in heads : h = taken + n + t + 1 - Width
        BY <2>4
      <3>2. h \in Int /\ t \in Int /\ 1 <= t /\ t <= Width - 1
        BY <1>2, <2>3
      <3>3. n = ReadSize
        <4>1. ASSUME n # ReadSize PROVE FALSE
          <5>1. n = passed - taken /\ h = passed + t + 1 - Width
            BY <1>2, <1>3, <1>4, <3>1, <4>1
          <5>2. CASE passed = Len(put)
            <6>1. h + Width - 1 <= Len(put)
              BY <2>3
            <6> QED
              BY <1>2, <2>3, <3>2, <5>1, <5>2, <6>1
          <5>3. CASE passed < Len(put)
            <6>1. passed + 1 \in heads /\ h < passed + 1
              BY <1>2, <2>3, <3>2, <5>1, <5>3
            <6>2. h + Width <= passed + 1
              BY <2>3, <6>1
            <6> QED
              BY <1>2, <2>3, <3>2, <5>1, <6>2
          <5> QED
            BY <1>2, <5>2, <5>3
        <4> QED
          BY <4>1
      <3>4. PICK a \in Nat : a = Arrays - 1
        BY <2>3
      <3>5. a * Width \in Int /\ ReadSize = a * Width + Width - 1
        BY <1>3, <1>12, <2>3, <3>4
      <3>6. h - a * Width = taken + t /\ h - a * Width >= 1
        BY <1>2, <2>3, <3>1, <3>2, <3>3, <3>5
      <3>7. heads \subseteq Int /\ \A g \in heads : g = 1 \/ g - Width \in heads
        BY <1>2, <2>3
      <3>8. h - a * Width \in heads
        BY <2>3, <3>6, <3>7, HeadsBack
      <3>9. \A m \in 0 .. Width - 1 : t + m \in 1 .. n
        BY <1>3, <1>12, <2>3, <3>2, <3>3
      <3>10. \A m \in 0 .. Width - 1 : hand'[t + m] = taken + (t + m)
        BY <1>6, <3>9
      <3>11. hand'[t] = taken + t
        <4>1. t \in 1 .. n
          BY <1>3, <1>12, <2>3, <3>2, <3>3
        <4> QED
          BY <1>6, <4>1
      <3> QED
        BY <1>2, <2>3, <3>2, <3>6, <3>8, <3>10, <3>11
    <2>5. TailInv'
      BY <1>1, <2>4 DEF TailInv
    <2> QED
      BY <2>1, <2>2, <2>5
  <1>13. ASSUME kind = "pipe", Known'
         PROVE  HeadsInOrder' /\ AloneInv' /\ (reader' = "print" => HeldInv')
    <2>1. Known
      BY <1>1, <1>13 DEF Known
    <2>2. HeadsInOrder /\ AloneInv
      BY <1>13, <2>1 DEF PipesInv, ArrayInv
    <2>3. PICK k \in 1 .. ReadSize :
            /\ IsNul(hand'[k]) /\ \A j \in 1 .. k - 1 : ~ IsNul(hand'[j])
            /\ k <= n \/ \A j \in 1 .. k - 1 : hand'[j] \notin heads
            /\ taken + 1 \in heads => k \in 2 .. n
      BY <1>1, <1>4, <1>5, <1>13, <2>1, ReadStops
    <2>4. k \in 1 .. ReadSize + 1 /\ k \in Nat
      BY <1>3
    <2>5. /\ Line' \in Seq(Int) /\ Len(Line') = Len(shown) + (k - 1)
          /\ \A j \in 1 .. Len(shown) : Line'[j] = shown[j]
          /\ \A j \in 1 .. k - 1 : Line'[Len(shown) + j] = hand'[j]
      BY <1>11, <2>3, <2>4
    <2>6. ASSUME NEW j \in 1 .. k - 1, hand'[j] \in heads
          PROVE  k <= n /\ \A l \in 1 .. k : hand'[l] = taken + l
      <3>1. k <= n
        BY <2>3, <2>6
      <3> QED
        BY <1>5, <1>6, <2>4, <3>1
    <2>7. Len(shown) \in Nat
      BY <1>2
    <2>8. HeldInv'
      <3>1. StopsAt(k)'
        BY <1>9, <2>3 DEF StopsAt
      <3>2. ASSUME NEW j \in 1 .. k - 1, hand'[j] \in heads', NEW l \in j .. k
            PROVE  hand'[l] = hand'[j] + (l - j)
        <4>1. \A d \in 1 .. k : hand'[d] = taken + d
          BY <1>1, <2>6, <3>2
        <4>2. hand'[l] = taken + l /\ hand'[j] = taken + j
          BY <2>4, <4>1
        <4> QED
          BY <1>2, <2>4, <4>2
      <3> QED
        BY <1>3, <3>1, <3>2 DEF HeldInv
    <2>9. HeadsInOrder'
      <3>1. ASSUME NEW j \in 1 .. Len(Line'), NEW l \in 1 .. Len(Line'), j < l,
                   Line'[j] \in heads, Line'[l] \in heads
            PROVE  Line'[j] < Line'[l]
        <4>1. CASE l <= Len(shown)
          <5>1. j \in 1 .. Len(shown) /\ l \in 1 .. Len(shown)
            BY <2>5, <2>7, <3>1, <4>1
          <5> QED
            BY <1>10, <2>2, <2>5, <3>1, <5>1 DEF HeadsInOrder
        <4>2. CASE ~ (l <= Len(shown))
          <5>1. PICK e \in 1 .. k - 1 : l = Len(shown) + e
            <6>1. l - Len(shown) \in 1 .. k - 1 /\ l = Len(shown) + (l - Len(shown))
              BY <2>4, <2>5, <2>7, <4>2
            <6> QED
              BY <6>1
          <5>2. Line'[l] = hand'[e] /\ hand'[e] \in heads
            BY <2>5, <3>1, <5>1
          <5>3. k <= n /\ \A d \in 1 .. k : hand'[d] = taken + d
            BY <2>6, <5>2
          <5>4. Line'[l] = taken + e
            BY <2>4, <5>2, <5>3
          <5>5. CASE j <= Len(shown)
            <6>1. j \in 1 .. Len(shown)
              BY <2>7, <5>5
            <6>2. Line'[j] = shown[j] /\ shown[j] <= taken
              BY <1>2, <2>5, <6>1
            <6> QED
              BY <1>2, <5>4, <6>1, <6>2
          <5>6. CASE ~ (j <= Len(shown))
            <6>1. PICK d \in 1 .. k - 1 : j = Len(shown) + d
              <7>1. j - Len(shown) \in 1 .. k - 1 /\ j = Len(shown) + (j - Len(shown))
                BY <2>4, <2>5, <2>7, <5>6
              <7> QED
                BY <7>1
            <6>2. Line'[j] = hand'[d]
              BY <2>5, <6>1
            <6>3. Line'[j] = taken + d
              BY <2>4, <5>3, <6>2
            <6> QED
              BY <1>2, <2>7, <3>1, <5>1, <5>4, <6>1, <6>3
          <5> QED
            BY <2>7, <5>5, <5>6
        <4> QED
          BY <2>7, <4>1, <4>2
      <3> QED
        BY <1>1, <3>1 DEF HeadsInOrder
    <2>10. AloneInv'
      <3>1. ASSUME NEW p \in alone
            PROVE  p <= taken' /\ (killed' \/ p \in Range(Line'))
        <4>1. p \in heads /\ p \in Int
          BY <1>2
        <4>2. p = taken + 1 \/ (p <= taken /\ (killed \/ p \in Range(Line)))
          BY <2>2 DEF AloneInv
        <4>3. CASE p = taken + 1
          <5>1. k \in 2 .. n
            BY <2>3, <4>1, <4>3
          <5>2. 1 \in 1 .. k - 1 /\ 1 \in 1 .. n
            BY <1>5, <2>4, <5>1
          <5>3. Line'[Len(shown) + 1] = taken + 1
            BY <1>6, <2>5, <5>2
          <5>4. Len(shown) + 1 \in 1 .. Len(Line')
            BY <2>4, <2>5, <2>7, <5>1
          <5>5. p \in Range(Line')
            BY <2>5, <4>3, <5>3, <5>4 DEF Range
          <5> QED
            BY <1>1, <1>2, <1>5, <4>3, <5>5
        <4>4. CASE p <= taken /\ (killed \/ p \in Range(Line))
          <5>1. ASSUME p \in Range(Line) PROVE p \in Range(Line')
            <6>1. PICK j \in 1 .. Len(shown) : shown[j] = p
              BY <1>2, <1>10, <5>1 DEF Range
            <6>2. j \in 1 .. Len(Line') /\ Line'[j] = p
              BY <2>4, <2>5, <2>7, <6>1
            <6> QED
              BY <2>5, <6>2 DEF Range
          <5>2. p <= taken'
            BY <1>1, <1>2, <1>5, <4>1, <4>4
          <5> QED
            BY <1>1, <4>4, <5>1, <5>2
        <4> QED
          BY <4>2, <4>3, <4>4
      <3> QED
        BY <1>1, <3>1 DEF AloneInv
    <2> QED
      BY <2>8, <2>9, <2>10
  <1>14. ArrayInv'
    BY <1>1, <1>12, <1>13 DEF ArrayInv
  <1>15. StreamInv'
    <2> SUFFICES ASSUME kind = "fifo"
                 PROVE  Line' = UpTo(Len(Line')) /\ Len(Line') = taken'
      BY <1>1 DEF PipesInv, StreamInv
    <2>1. /\ \A p \in 1 .. Len(put) : put[p] = "char"
          /\ shown = UpTo(Len(shown)) /\ Len(shown) = taken
      BY <1>1, <1>10 DEF PipesInv, StreamInv
    <2>2. n + 1 \in 1 .. ReadSize + 1 /\ ~ (n + 1 <= n)
      BY <1>3, <1>5
    <2>3. IsNul(hand'[n + 1])
      BY <1>6, <2>2 DEF IsNul
    <2>4. ASSUME NEW j \in 1 .. n PROVE ~ IsNul(hand'[j])
      <3>1. hand'[j] = taken + j /\ taken + j \in 1 .. Len(put)
        BY <1>2, <1>5, <1>6
      <3>2. put[taken + j] = "char"
        BY <2>1, <3>1
      <3> QED
        BY <3>1, <3>2 DEF IsNul, Zero
    <2>5. (n + 1) - 1 = n
      BY <1>5
    <2>6. /\ Line' \in Seq(Int) /\ Len(Line') = Len(shown) + n
          /\ \A j \in 1 .. Len(shown) : Line'[j] = shown[j]
          /\ \A j \in 1 .. n : Line'[Len(shown) + j] = hand'[j]
      BY <1>11, <2>2, <2>3, <2>4, <2>5
    <2>7. ASSUME NEW j \in 1 .. Len(Line') PROVE Line'[j] = j
      <3>1. CASE j <= taken
        <4>1. j \in 1 .. Len(shown)
          BY <1>2, <2>1, <3>1
        <4>2. shown[j] = j
          BY <2>1, <4>1 DEF UpTo
        <4> QED
          BY <2>6, <4>1, <4>2
      <3>2. CASE ~ (j <= taken)
        <4>1. PICK d \in 1 .. n : j = taken + d
          <5>1. j - taken \in 1 .. n /\ j = taken + (j - taken)
            BY <1>2, <1>5, <2>1, <2>6, <3>2
          <5> QED
            BY <5>1
        <4> QED
          BY <1>6, <2>1, <2>6, <4>1
      <3> QED
        BY <1>2, <3>1, <3>2
    <2>8. Line' = UpTo(Len(Line'))
      <3>1. Len(Line') \in Nat /\ Line' = [j \in 1 .. Len(Line') |-> Line'[j]]
        BY <2>6
      <3> QED
        BY <2>7, <3>1 DEF UpTo
    <2> QED
      BY <1>1, <2>1, <2>6, <2>8
  <1>16. ForkedInv'
    BY <1>1 DEF PipesInv, ForkedInv
  <1> QED
    BY <1>8, <1>14, <1>15, <1>16 DEF PipesInv

-----------------------------------------------------------------------------
(* How the two come together, the names, and the end of the file.          *)
LEMMA MeetingStep ==
  ASSUME PipesAssumption, PipesInv,
         \/ PipeAndFork \/ CloseParent \/ CloseChild \/ createFifo \/ ServerOpens
         \/ ClientOpens \/ Meet \/ Command \/ ReadEnd \/ UNCHANGED pipesVars
  PROVE  PipesInv'
  <1>1. /\ UNCHANGED <<kind, input, content, seen, alone>>
        /\ killed => killed'
    BY DEF PipeAndFork, CloseParent, CloseChild, createFifo, ServerOpens, ClientOpens, Meet,
           Command, ReadEnd, pipesVars, ghosts, input, content, seen
  <1>2. /\ writer' # "write" \/ writer' = writer
        /\ writer' \notin {"write", "gone"} => writer \notin {"write", "gone"}
    BY DEF PipeAndFork, CloseParent, CloseChild, createFifo, ServerOpens, ClientOpens, Meet,
           Command, ReadEnd, pipesVars
  <1>3. /\ (reader' = "print") <=> (reader = "print")
        /\ reader = "gone" => reader' = "gone"
    <2>1. CASE PipeAndFork
      <3>1. kind = "pipe" /\ writer = "start" /\ (reader' = "close" \/ reader' = reader)
        BY <2>1 DEF PipeAndFork
      <3>2. reader = "none"
        BY <3>1 DEF PipesInv, ForkedInv
      <3> QED
        BY <3>1, <3>2
    <2>2. CASE CloseParent \/ CloseChild \/ createFifo \/ ServerOpens \/ ClientOpens
      BY <2>2 DEF CloseParent, CloseChild, createFifo, ServerOpens, ClientOpens
    <2>3. CASE Meet \/ Command \/ ReadEnd \/ UNCHANGED pipesVars
      BY <2>3 DEF Meet, Command, ReadEnd, pipesVars
    <2> QED
      BY <2>1, <2>2, <2>3
  <1>4. ForkedInv'
    BY DEF PipeAndFork, CloseParent, CloseChild, createFifo, ServerOpens, ClientOpens, Meet,
           Command, ReadEnd, pipesVars, PipesInv, ForkedInv
  <1> QED
    BY <1>1, <1>2, <1>3, <1>4, QuietPipeStep

(* Every step keeps the invariant.                                         *)
LEMMA PipesNextInv ==
  ASSUME PipesAssumption, PipesInv, [PipesNext]_pipesVars
  PROVE  PipesInv'
  BY MeetingStep, KillPipeStep, GivePipeStep, WritePipeStep, ReadPipeStep, OutputPipeStep
  DEF PipesNext, WriterStep, ReaderStep

(* The inductive invariant holds in every state.                           *)
LEMMA PipesInductive ==
  ASSUME PipesAssumption
  PROVE  PipesSpec => []PipesInv
  <1>1. PipesInit => PipesInv
    BY PipesInitInv
  <1>2. PipesInv /\ [PipesNext]_pipesVars => PipesInv'
    BY PipesNextInv
  <1> QED
    BY <1>1, <1>2, PTL DEF PipesSpec

(* The inductive invariant implies what is promised.                       *)
LEMMA PipesInvSafe ==
  ASSUME PipesAssumption, PipesInv
  PROVE  PipesSafe
  <1>1. /\ Line \in Seq(Int) /\ Len(Line) \in Nat
        /\ ReadSize \in Nat /\ taken \in Int /\ heads \subseteq Int
        /\ hand \in [1 .. ReadSize + 1 -> Int]
    <2>1. Line \in Seq(Int)
      BY LineIsSeq DEF PipesInv
    <2>2. ReadSize \in Nat
      BY SizeFacts DEF PipesInv, PipesTyping
    <2> QED
      BY <2>1, <2>2 DEF PipesInv, PipesTyping
  <1>2. ASSUME kind = "fifo"
        PROVE  /\ Line = [j \in 1 .. Len(Line) |-> j]
               /\ ~killed => Len(Line) = taken
    BY <1>2 DEF PipesInv, StreamInv, UpTo
  <1>3. ASSUME kind = "pipe", given > 0
        PROVE  /\ HeadsInOrder /\ WordsWhole
               /\ reader = "print" => \E j \in 1 .. ReadSize + 1 : IsNul(hand[j])
               /\ ~killed => AloneShown
    <2>1. HeadsInOrder /\ AloneInv /\ (reader = "print" => HeldInv)
      BY <1>3 DEF PipesInv, ArrayInv, Known
    <2>2. ASSUME ~killed PROVE AloneShown
      <3>1. ASSUME NEW p \in alone PROVE p > taken \/ p \in Range(Line)
        <4>1. p \in Int
          BY <1>1 DEF PipesInv, PipesTyping
        <4> QED
          BY <1>1, <2>1, <2>2, <4>1 DEF AloneInv
      <3> QED
        BY <3>1 DEF AloneShown
    <2>3. ASSUME reader # "print" PROVE WordsWhole
      <3>1. Len(Printing) = 0
        BY <2>3 DEF Printing
      <3> QED
        BY <3>1 DEF WordsWhole
    <2>4. ASSUME reader = "print"
          PROVE  WordsWhole /\ \E j \in 1 .. ReadSize + 1 : IsNul(hand[j])
      <3>1. PICK k \in 1 .. ReadSize :
              /\ StopsAt(k)
              /\ \A j \in 1 .. k - 1 :
                   hand[j] \in heads => \A l \in j .. k : hand[l] = hand[j] + (l - j)
        BY <2>1, <2>4 DEF HeldInv
      <3>2. k \in 1 .. ReadSize + 1 /\ k \in Nat
        BY <1>1
      <3>3. Printing = [j \in 1 .. k - 1 |-> hand[j]]
        BY <1>1, <2>4, <3>1, <3>2, PrintedIs DEF Printing
      <3>4. Len(Printing) = k - 1
        BY <3>1, <3>2, <3>3
      <3>5. ASSUME NEW j \in 1 .. k - 1, Printing[j] \in heads
            PROVE  /\ \A l \in j .. k - 1 : Printing[l] = Printing[j] + (l - j)
                   /\ put[Printing[j] + (k - 1 - j) + 1] = "nul"
        <4>1. Printing[j] = hand[j] /\ \A l \in j .. k - 1 : Printing[l] = hand[l]
          BY <3>2, <3>3
        <4>2. \A l \in j .. k : hand[l] = hand[j] + (l - j)
          BY <3>1, <3>5, <4>1
        <4>3. hand[j] \in Int /\ hand[j] >= 1
          <5>1. PICK h \in heads : h = hand[j]
            BY <3>5, <4>1
          <5>2. heads \subseteq 1 .. Len(put) /\ Len(put) \in Nat
            BY DEF PipesInv, PipesTyping
          <5> QED
            BY <5>1, <5>2
        <4>4. hand[k] = hand[j] + (k - j) /\ hand[k] > 0
          BY <3>2, <4>2, <4>3
        <4>5. put[hand[k]] = "nul"
          BY <3>1, <4>3, <4>4 DEF StopsAt, IsNul, Zero
        <4>6. hand[j] + (k - 1 - j) + 1 = hand[k]
          BY <3>2, <4>3, <4>4
        <4>7. \A l \in j .. k - 1 : l \in j .. k
          BY <3>2
        <4> QED
          BY <4>1, <4>2, <4>5, <4>6, <4>7
      <3>6. WordsWhole
        BY <3>4, <3>5 DEF WordsWhole
      <3> QED
        BY <3>1, <3>2, <3>6 DEF StopsAt
    <2> QED
      BY <2>1, <2>2, <2>3, <2>4
  <1> QED
    BY <1>2, <1>3 DEF PipesSafe

(* Through the named pipe every character comes once and in order.  The    *)
(* child of the other program finds a NUL in its array at every read; what *)
(* it shows of the beginning of a word goes on to the end of that word, in *)
(* the order of the words, and a word written into an empty pipe is shown  *)
(* (myprocess.cc:20-41, name_pipe/server.cc:17-21, client.cc:11-20).       *)
THEOREM WordsComeInOrder ==
  ASSUME PipesAssumption
  PROVE  PipesSpec => []PipesSafe
  <1>1. PipesInv => PipesSafe
    BY PipesInvSafe
  <1> QED
    BY <1>1, PipesInductive, PTL
-----------------------------------------------------------------------------
(***************************************************************************)
(* SharedMemory, for any servers, messages and rounds: what the client has *)
(* written so far is known to the character, and so is who may remove the  *)
(* segment.                                                                *)
(***************************************************************************)
(* The types.                                                              *)
MemoryTyping ==
  /\ key \in Procs \cup {NoSegment}
  /\ perm \in [Procs -> {"shared", "private"}]
  /\ attached \in [Procs -> SUBSET Procs]
  /\ mem \in [Procs -> Seq(Nat)]
  /\ proc \in [Procs -> Working \cup {"get", "gone"}]
  /\ shmid \in [Procs -> Procs \cup {NoSegment}]
  /\ cnt \in [Procs -> Nat] /\ wrote \in Nat
  /\ found \in [Servers -> [Places -> Nat \cup {Nul, Unread}]]
  /\ printed \in [Servers -> Seq(Seq(Nat))]
  /\ crashed \subseteq Procs

(* A server that works has its own segment under the key until it removes  *)
(* it; a key that nobody works for is left by a crash or by the client.    *)
KeyInv ==
  /\ \A p \in Servers : proc[p] \in Working => key = p /\ shmid[p] = p /\ perm[p] = "shared"
  /\ key \in Servers => proc[key] \in Working \/ key \in crashed
  /\ key = Client => perm[Client] = "private"

(* The client's segment is written up to the moment, the others are empty. *)
ClientInv ==
  /\ proc[Client] \in {"attach", "loop", "detach"} => shmid[Client] \in Procs
  /\ proc[Client] = "get" => shmid[Client] = NoSegment
  /\ proc[Client] \in {"get", "attach"} => Now = <<0, 0>>
  /\ proc[Client] # "delete"
  /\ cnt[Client] \in 0 .. Count /\ wrote \in 0 .. Len(Text(cnt[Client]))
  /\ proc[Client] = "loop" /\ wrote = Len(Text(cnt[Client])) => cnt[Client] < Count
  /\ \A s \in Procs : mem[s] = IF s = shmid[Client] THEN Content(Now) ELSE <<>>

(* What a server has printed it has seen up to the moment, and so what it  *)
(* has found of the next line, since the last line.                        *)
Reached(p) == IF shmid[Client] = p THEN Now ELSE <<0, 0>>

SeenBy(when, shows, last) ==
  /\ \A j \in 0 .. Len(shows) : NotAfter(when[j], last)
  /\ \A j \in 1 .. Len(shows) :
       /\ NotAfter(when[j - 1], when[j])
       /\ \A q \in 1 .. Len(shows[j]) + 1 : There(q, CharAt(shows[j], q), when[j - 1], when[j])

FoundSince(when, line, last) ==
  \A q \in Places : line[q] # Unread => There(q, line[q], when, last)

ExplainedUpTo(shows, line, last) ==
  \E when \in [0 .. Len(shows) -> Moments] :
    SeenBy(when, shows, last) /\ FoundSince(when[Len(shows)], line, last)

PrintedInv == \A p \in Servers : ExplainedUpTo(printed[p], found[p], Reached(p))

(* The inductive invariant.                                                *)
MemoryInv == MemoryTyping /\ KeyInv /\ ClientInv /\ PrintedInv
-----------------------------------------------------------------------------
(* Nothing, all, and more of a text written over another one.              *)
LEMMA OverType ==
  ASSUME NEW new \in Seq(Nat), NEW old \in Seq(Nat), NEW k \in 0 .. Len(new)
  PROVE  /\ Over(new, k, old) \in Seq(Nat)
         /\ Len(Over(new, k, old)) = IF k < Len(old) THEN Len(old) ELSE k
         /\ \A j \in 1 .. Len(Over(new, k, old)) :
              Over(new, k, old)[j] = IF j <= k THEN new[j] ELSE old[j]
  <1> DEFINE a == SubSeq(new, 1, k)
             b == SubSeq(old, k + 1, Len(old))
  <1>1. a \in Seq(Nat) /\ Len(a) = k /\ \A j \in 1 .. k : a[j] = new[j]
    OBVIOUS
  <1>2. /\ b \in Seq(Nat) /\ Len(b) = IF k < Len(old) THEN Len(old) - k ELSE 0
        /\ \A j \in 1 .. Len(b) : b[j] = old[k + j]
    <2>1. k \in Nat /\ Len(old) \in Nat
      OBVIOUS
    <2>2. b \in Seq(Nat)
      BY <2>1
    <2>3. Len(b) = IF k < Len(old) THEN Len(old) - k ELSE 0
      BY <2>1
    <2>4. ASSUME NEW j \in 1 .. Len(b) PROVE b[j] = old[k + j]
      <3>1. b[j] = old[(k + 1) + j - 1] /\ (k + 1) + j - 1 = k + j
        BY <2>1, <2>3
      <3> QED
        BY <3>1
    <2> QED
      BY <2>2, <2>3, <2>4
  <1> HIDE DEF a, b
  <1>3. /\ a \o b \in Seq(Nat) /\ Len(a \o b) = Len(a) + Len(b)
        /\ \A j \in 1 .. Len(a) + Len(b) :
             (a \o b)[j] = IF j <= Len(a) THEN a[j] ELSE b[j - Len(a)]
    BY <1>1, <1>2, ConcatProperties
  <1> DEFINE c == a \o b
  <1>4. c = Over(new, k, old)
    BY DEF Over, a, b
  <1> HIDE DEF c
  <1>5. Len(c) = IF k < Len(old) THEN Len(old) ELSE k
    BY <1>1, <1>2, <1>3 DEF c
  <1>6. ASSUME NEW j \in 1 .. Len(c)
        PROVE  c[j] = IF j <= k THEN new[j] ELSE old[j]
    <2>1. c[j] = IF j <= k THEN a[j] ELSE b[j - k]
      BY <1>1, <1>2, <1>3 DEF c
    <2>2. CASE j <= k
      BY <1>1, <2>1, <2>2
    <2>3. CASE ~ (j <= k)
      <3>1. j - k \in 1 .. Len(b) /\ k + (j - k) = j
        BY <1>1, <1>2, <1>5, <2>3
      <3> QED
        BY <1>2, <2>1, <2>3, <3>1
    <2> QED
      BY <2>2, <2>3
  <1> QED
    BY <1>3, <1>4, <1>5, <1>6 DEF c

LEMMA OverNone ==
  ASSUME NEW new \in Seq(Nat), NEW old \in Seq(Nat)
  PROVE  Over(new, 0, old) = old
  <1>1. /\ Over(new, 0, old) \in Seq(Nat) /\ Len(Over(new, 0, old)) = Len(old)
        /\ \A j \in 1 .. Len(old) : Over(new, 0, old)[j] = old[j]
    BY OverType
  <1> QED
    BY <1>1, SeqEqual

LEMMA OverAll ==
  ASSUME NEW new \in Seq(Nat), NEW old \in Seq(Nat), Len(old) <= Len(new)
  PROVE  Over(new, Len(new), old) = new
  <1>1. /\ Over(new, Len(new), old) \in Seq(Nat) /\ Len(Over(new, Len(new), old)) = Len(new)
        /\ \A j \in 1 .. Len(new) : Over(new, Len(new), old)[j] = new[j]
    BY OverType
  <1> QED
    BY <1>1, SeqEqual

LEMMA OverMore ==
  ASSUME NEW new \in Seq(Nat), NEW old \in Seq(Nat),
         NEW m \in 0 .. Len(new), NEW k \in 0 .. m
  PROVE  Over(new, m, Over(new, k, old)) = Over(new, m, old)
  <1> DEFINE first == Over(new, k, old)
             then == Over(new, m, first)
             once == Over(new, m, old)
  <1>1. /\ first \in Seq(Nat) /\ Len(first) = IF k < Len(old) THEN Len(old) ELSE k
        /\ \A j \in 1 .. Len(first) : first[j] = IF j <= k THEN new[j] ELSE old[j]
    BY OverType
  <1> HIDE DEF first
  <1>2. /\ then \in Seq(Nat) /\ Len(then) = IF m < Len(first) THEN Len(first) ELSE m
        /\ \A j \in 1 .. Len(then) : then[j] = IF j <= m THEN new[j] ELSE first[j]
    BY <1>1, OverType
  <1>3. /\ once \in Seq(Nat) /\ Len(once) = IF m < Len(old) THEN Len(old) ELSE m
        /\ \A j \in 1 .. Len(once) : once[j] = IF j <= m THEN new[j] ELSE old[j]
    BY OverType
  <1> HIDE DEF then, once
  <1>4. Len(then) = Len(once)
    BY <1>1, <1>2, <1>3
  <1>5. \A j \in 1 .. Len(once) : then[j] = once[j]
    BY <1>1, <1>2, <1>3, <1>4
  <1>6. then = once
    BY <1>2, <1>3, <1>4, <1>5, SeqEqual
  <1> QED
    BY <1>6 DEF then, once, first

(* The messages, and the content of the segment between two of them.       *)
LEMMA TextType ==
  ASSUME MemoryAssumption, NEW n \in 0 .. Count
  PROVE  /\ Text(n) \in Seq(Nat) /\ Text(n - 1) \in Seq(Nat)
         /\ Len(Text(n - 1)) <= Len(Text(n))
         /\ Text(0) = <<>>
         /\ n > 0 => Len(Text(n)) > 0
  <1>1. n \in Nat /\ Count \in Nat
    BY DEF MemoryAssumption
  <1>2. CASE n \in 2 .. Count
    <2>1. n \in 1 .. Count /\ n - 1 \in 1 .. Count
      BY <1>1, <1>2
    <2> QED
      BY <1>1, <1>2, <2>1 DEF MemoryAssumption, Text
  <1>3. CASE n \notin 2 .. Count
    <2>1. n - 1 \notin 1 .. Count
      BY <1>1, <1>3
    <2>2. Text(n - 1) = <<>>
      BY <2>1 DEF Text
    <2>3. Text(n) \in Seq(Nat) /\ (n > 0 => Text(n) # <<>>) /\ Text(0) = <<>>
      BY <1>1 DEF MemoryAssumption, Text
    <2>4. Len(Text(n)) \in Nat /\ (Len(Text(n)) = 0 <=> Text(n) = <<>>)
      BY <2>3, EmptySeq
    <2> HIDE DEF Text
    <2>5. <<>> \in Seq(Nat) /\ Len(<<>>) = 0
      OBVIOUS
    <2>6. Text(n - 1) \in Seq(Nat) /\ Len(Text(n - 1)) = 0
      BY <2>2, <2>5, Zenon
    <2> QED
      BY <2>3, <2>4, <2>6
  <1> QED
    BY <1>2, <1>3

LEMMA ContentWhole ==
  ASSUME MemoryAssumption, NEW n \in 0 .. Count
  PROVE  Content(<<n, Len(Text(n))>>) = Text(n)
  BY TextType, OverAll DEF Content

LEMMA ContentNext ==
  ASSUME MemoryAssumption, NEW n \in 0 .. Count, n < Count
  PROVE  Content(<<n + 1, 0>>) = Text(n)
  <1>1. n + 1 \in 0 .. Count /\ (n + 1) - 1 = n
    BY DEF MemoryAssumption
  <1>2. Text(n) \in Seq(Nat) /\ Text(n + 1) \in Seq(Nat)
    BY <1>1, TextType
  <1> QED
    BY <1>1, <1>2, OverNone DEF Content

LEMMA ContentStart ==
  ASSUME MemoryAssumption
  PROVE  Content(<<0, 0>>) = <<>> /\ <<0, 0>> \in Moments
  <1>1. 0 \in 0 .. Count
    BY DEF MemoryAssumption
  <1>2. Text(0) = <<>> /\ Len(Text(0)) = 0
    BY <1>1, TextType
  <1>3. Content(<<0, Len(Text(0))>>) = Text(0)
    BY <1>1, ContentWhole
  <1> QED
    BY <1>1, <1>2, <1>3 DEF Moments

(* A moment has its message and the characters written of it.              *)
LEMMA MomentType ==
  ASSUME MemoryAssumption, NEW a \in Moments
  PROVE  /\ a[1] \in 0 .. Count /\ a[2] \in 0 .. Len(Text(a[1]))
         /\ a[1] \in Nat /\ a[2] \in Nat
         /\ Content(a) \in Seq(Nat)
  <1>1. PICK n \in 0 .. Count : a \in {n} \X (0 .. Len(Text(n)))
    BY DEF Moments
  <1>2. a[1] = n /\ a[2] \in 0 .. Len(Text(n))
    BY <1>1
  <1>3. Text(n) \in Seq(Nat) /\ Text(n - 1) \in Seq(Nat) /\ Len(Text(n)) \in Nat
    BY TextType
  <1>4. Content(a) \in Seq(Nat)
    BY <1>2, <1>3, OverType DEF Content
  <1> QED
    BY <1>2, <1>3, <1>4 DEF MemoryAssumption
-----------------------------------------------------------------------------
(* Moments are ordered.                                                    *)
LEMMA MomentOrder ==
  ASSUME MemoryAssumption, NEW a \in Moments
  PROVE  /\ NotAfter(a, a) /\ NotAfter(<<0, 0>>, a)
         /\ \A b, c \in Nat \X Nat : NotAfter(a, b) /\ NotAfter(b, c) => NotAfter(a, c)
  <1>1. a[1] \in Nat /\ a[2] \in Nat
    BY MomentType
  <1> QED
    BY <1>1 DEF NotAfter

(* What is explained up to a moment is explained up to a later one.        *)
LEMMA ExplainedLater ==
  ASSUME MemoryAssumption, NEW shows, NEW line, NEW a \in Nat \X Nat, NEW b \in Nat \X Nat,
         NotAfter(a, b), ExplainedUpTo(shows, line, a)
  PROVE  ExplainedUpTo(shows, line, b)
  <1>1. PICK when \in [0 .. Len(shows) -> Moments] :
          SeenBy(when, shows, a) /\ FoundSince(when[Len(shows)], line, a)
    BY DEF ExplainedUpTo
  <1>2. \A j \in 0 .. Len(shows) : NotAfter(when[j], b)
    BY <1>1, MomentOrder DEF SeenBy
  <1>3. SeenBy(when, shows, b)
    BY <1>1, <1>2 DEF SeenBy
  <1>4. ASSUME NEW q \in Places, line[q] # Unread
        PROVE  There(q, line[q], when[Len(shows)], b)
    <2>1. PICK m \in Moments : /\ NotAfter(when[Len(shows)], m) /\ NotAfter(m, a)
                               /\ CharAt(Content(m), q) = line[q]
      BY <1>1, <1>4 DEF FoundSince, There
    <2>2. NotAfter(m, b)
      BY <2>1, MomentOrder
    <2> QED
      BY <2>1, <2>2 DEF There
  <1> QED
    BY <1>1, <1>3, <1>4 DEF ExplainedUpTo, FoundSince

(* One more character is found in the segment.                             *)
LEMMA ExplainedOneChar ==
  ASSUME MemoryAssumption, NEW shows \in Seq(Seq(Nat)), NEW a \in Moments,
         NEW line \in [Places -> Nat \cup {Nul, Unread}], NEW q \in Places,
         ExplainedUpTo(shows, line, a)
  PROVE  ExplainedUpTo(shows, [line EXCEPT ![q] = CharAt(Content(a), q)], a)
  <1> DEFINE more == [line EXCEPT ![q] = CharAt(Content(a), q)]
  <1>1. PICK when \in [0 .. Len(shows) -> Moments] :
          SeenBy(when, shows, a) /\ FoundSince(when[Len(shows)], line, a)
    BY DEF ExplainedUpTo
  <1>2. Len(shows) \in 0 .. Len(shows)
    OBVIOUS
  <1>3. There(q, CharAt(Content(a), q), when[Len(shows)], a)
    BY <1>1, <1>2, MomentOrder DEF SeenBy, There
  <1>4. more[q] = CharAt(Content(a), q) /\ \A j \in Places \ {q} : more[j] = line[j]
    OBVIOUS
  <1> HIDE DEF more
  <1>5. FoundSince(when[Len(shows)], more, a)
    BY <1>1, <1>3, <1>4 DEF FoundSince
  <1>6. ExplainedUpTo(shows, more, a)
    BY <1>1, <1>5 DEF ExplainedUpTo
  <1> QED
    BY <1>6 DEF more

(* The n characters found before a NUL are a line.                         *)
LEMMA LineFound ==
  ASSUME MemoryAssumption, NEW line \in [Places -> Nat \cup {Nul, Unread}],
         NEW n \in 0 .. Len(Text(Count)),
         line[n + 1] = Nul, \A q \in 1 .. n : line[q] >= 0
  PROVE  LET full == [q \in 1 .. n |-> line[q]] IN
         /\ full \in Seq(Nat) /\ Len(full) = n
         /\ \A q \in 1 .. n + 1 :
              q \in Places /\ line[q] # Unread /\ CharAt(full, q) = line[q]
  <1> DEFINE full == [q \in 1 .. n |-> line[q]]
  <1>1. Len(Text(Count)) \in Nat /\ n \in Nat
    <2>1. Count \in 0 .. Count
      BY DEF MemoryAssumption
    <2> QED
      BY <2>1, TextType
  <1>2. 1 .. n + 1 \subseteq Places
    BY <1>1 DEF Places
  <1>3. ASSUME NEW q \in 1 .. n PROVE line[q] \in Nat
    <2>1. line[q] \in Nat \cup {Nul, Unread} /\ line[q] >= 0
      BY <1>1, <1>2
    <2> QED
      BY <2>1 DEF Nul, Unread
  <1>4. full \in Seq(Nat) /\ Len(full) = n
    BY <1>1, <1>3
  <1>5. ASSUME NEW q \in 1 .. n + 1
        PROVE  line[q] # Unread /\ CharAt(full, q) = line[q]
    <2>1. CASE q \in 1 .. n
      BY <1>3, <2>1 DEF CharAt, Unread
    <2>2. CASE q = n + 1
      BY <1>1, <2>2 DEF CharAt, Unread, Nul
    <2> QED
      BY <1>1, <2>1, <2>2
  <1> QED
    BY <1>2, <1>4, <1>5

(* The line that was found is printed, and nothing is found of the next.   *)
LEMMA ExplainedOneLine ==
  ASSUME MemoryAssumption, NEW shows \in Seq(Seq(Nat)), NEW a \in Moments,
         NEW line \in [Places -> Nat \cup {Nul, Unread}],
         NEW k \in 0 .. Len(Text(Count)),
         line[k + 1] = Nul, \A q \in 1 .. k : line[q] >= 0,
         ExplainedUpTo(shows, line, a)
  PROVE  ExplainedUpTo(Append(shows, [q \in 1 .. k |-> line[q]]), [q \in Places |-> Unread], a)
  <1> DEFINE n == Len(shows)
             full == [q \in 1 .. k |-> line[q]]
             more == Append(shows, full)
  <1>1. PICK when \in [0 .. n -> Moments] :
          SeenBy(when, shows, a) /\ FoundSince(when[n], line, a)
    BY DEF ExplainedUpTo
  <1>2. /\ full \in Seq(Nat) /\ Len(full) = k
        /\ \A q \in 1 .. k + 1 :
             q \in Places /\ line[q] # Unread /\ CharAt(full, q) = line[q]
    BY LineFound
  <1> HIDE DEF full
  <1>3. /\ n \in Nat /\ Len(more) = n + 1 /\ more[n + 1] = full
        /\ \A j \in 1 .. n : more[j] = shows[j]
    BY <1>2
  <1> HIDE DEF n, more
  <1> DEFINE then == [j \in 0 .. n + 1 |-> IF j = n + 1 THEN a ELSE when[j]]
  <1>4. then[n + 1] = a /\ \A j \in 0 .. n : then[j] = when[j]
    BY <1>3
  <1>5. then \in [0 .. n + 1 -> Moments]
    BY <1>1, <1>3
  <1> HIDE DEF then
  <1>6. NotAfter(a, a) /\ NotAfter(when[n], a) /\ \A j \in 0 .. n : NotAfter(when[j], a)
    BY <1>1, <1>3, MomentOrder DEF SeenBy, n
  <1>7. ASSUME NEW j \in 0 .. n + 1 PROVE NotAfter(then[j], a)
    BY <1>3, <1>4, <1>6
  <1>8. ASSUME NEW j \in 1 .. n + 1
        PROVE  /\ NotAfter(then[j - 1], then[j])
               /\ \A q \in 1 .. Len(more[j]) + 1 :
                    There(q, CharAt(more[j], q), then[j - 1], then[j])
    <2>1. CASE j = n + 1
      <3>1. then[j] = a /\ then[j - 1] = when[n] /\ more[j] = full
        BY <1>3, <1>4, <2>1
      <3>2. \A q \in 1 .. k + 1 : There(q, CharAt(full, q), when[n], a)
        BY <1>1, <1>2 DEF FoundSince
      <3> QED
        BY <1>2, <1>6, <3>1, <3>2
    <2>2. CASE j # n + 1
      <3>1. j \in 1 .. n /\ j - 1 \in 0 .. n /\ j \in 0 .. n
        BY <1>3, <2>2
      <3>2. then[j] = when[j] /\ then[j - 1] = when[j - 1] /\ more[j] = shows[j]
        BY <1>3, <1>4, <3>1
      <3> QED
        BY <1>1, <3>1, <3>2 DEF SeenBy, n
    <2> QED
      BY <2>1, <2>2
  <1>9. SeenBy(then, more, a)
    BY <1>3, <1>7, <1>8 DEF SeenBy
  <1>10. FoundSince(then[n + 1], [q \in Places |-> Unread], a)
    BY DEF FoundSince
  <1>11. ExplainedUpTo(more, [q \in Places |-> Unread], a)
    BY <1>3, <1>5, <1>9, <1>10 DEF ExplainedUpTo
  <1> QED
    BY <1>11 DEF more, full

(* The processes and what they are not.                                    *)
LEMMA ProcsType ==
  ASSUME MemoryAssumption
  PROVE  /\ Client \in Procs /\ Client \notin Servers /\ NoSegment \notin Procs
         /\ \A p \in Servers : p \in Procs /\ p # Client /\ p # NoSegment
  BY DEF MemoryAssumption, Procs, Client, NoSegment

(* The client has come to a moment.                                        *)
LEMMA NowType ==
  ASSUME MemoryAssumption, ClientInv
  PROVE  Now \in Moments /\ Now \in Nat \X Nat /\ <<0, 0>> \in Nat \X Nat
  <1>1. cnt[Client] \in 0 .. Count /\ wrote \in 0 .. Len(Text(cnt[Client]))
    BY DEF ClientInv
  <1>2. Now \in Moments
    BY <1>1 DEF Now, Moments
  <1> QED
    BY <1>2, MomentType DEF Now

(* Initially there is no segment.                                          *)
LEMMA MemoryInitInv == MemoryAssumption /\ MemoryInit => MemoryInv
  <1> SUFFICES ASSUME MemoryAssumption, MemoryInit PROVE MemoryInv
    OBVIOUS
  <1> USE ProcsType
  <1>1. MemoryTyping
    <2>1. <<>> \in Seq(Nat) /\ <<>> \in Seq(Seq(Nat))
      OBVIOUS
    <2> QED
      BY <2>1 DEF MemoryInit, MemoryTyping
  <1>2. KeyInv
    BY DEF MemoryInit, KeyInv, Working
  <1>3. ClientInv
    <2>1. 0 \in 0 .. Count /\ Len(Text(0)) = 0
      <3>1. 0 \in 0 .. Count
        BY DEF MemoryAssumption
      <3>2. Text(0) = <<>>
        BY <3>1, TextType
      <3> QED
        BY <3>1, <3>2
    <2>2. /\ cnt[Client] = 0 /\ wrote = 0 /\ Now = <<0, 0>>
          /\ proc[Client] = "get" /\ shmid[Client] = NoSegment
          /\ \A s \in Procs : mem[s] = <<>>
      BY DEF MemoryInit, Now
    <2> QED
      BY <2>1, <2>2 DEF ClientInv
  <1>4. PrintedInv
    <2>1. ASSUME NEW p \in Servers PROVE ExplainedUpTo(printed[p], found[p], Reached(p))
      <3>1. /\ printed[p] = <<>> /\ Len(printed[p]) = 0 /\ Reached(p) = <<0, 0>>
            /\ \A q \in Places : found[p][q] = Unread
        BY DEF MemoryInit, Reached, Now
      <3>2. <<0, 0>> \in Moments /\ NotAfter(<<0, 0>>, <<0, 0>>)
        BY ContentStart DEF NotAfter
      <3> DEFINE when == [j \in 0 .. 0 |-> <<0, 0>>]
      <3>3. when \in [0 .. 0 -> Moments] /\ when[0] = <<0, 0>> /\ \A j \in 0 .. 0 : when[j] = <<0, 0>>
        BY <3>2
      <3> HIDE DEF when
      <3>4. SeenBy(when, printed[p], Reached(p))
        BY <3>1, <3>2, <3>3 DEF SeenBy
      <3>5. FoundSince(when[0], found[p], Reached(p))
        BY <3>1 DEF FoundSince
      <3> QED
        BY <3>1, <3>3, <3>4, <3>5 DEF ExplainedUpTo
    <2> QED
      BY <2>1 DEF PrintedInv
  <1> QED
    BY <1>1, <1>2, <1>3, <1>4 DEF MemoryInv

(* A step that neither writes nor prints.                                  *)
LEMMA QuietMemory ==
  ASSUME MemoryAssumption, ClientInv, PrintedInv,
         UNCHANGED <<mem, cnt, wrote, found, printed>>, shmid'[Client] = shmid[Client],
         \/ proc'[Client] \in {proc[Client], "gone"}
         \/ proc[Client] = "attach" /\ proc'[Client] = "loop"
  PROVE  ClientInv' /\ PrintedInv'
  <1>1. Now' = Now /\ Now = <<cnt[Client], wrote>>
    BY DEF Now
  <1>2. proc[Client] = "attach" => cnt[Client] = 0 /\ wrote = 0
    BY <1>1 DEF ClientInv
  <1>3. Text(cnt[Client])' = Text(cnt[Client]) /\ Content(Now)' = Content(Now)
    BY <1>1
  <1>4. Count \in Nat \ {0}
    BY DEF MemoryAssumption
  <1>5. ClientInv'
    <2>1. /\ proc'[Client] \in {"attach", "loop", "detach"} => shmid'[Client] \in Procs
          /\ proc'[Client] = "get" => shmid'[Client] = NoSegment
          /\ proc'[Client] \in {"get", "attach"} => Now' = <<0, 0>>
          /\ proc'[Client] # "delete"
      BY <1>1 DEF ClientInv
    <2>2. cnt'[Client] \in 0 .. Count /\ wrote' \in 0 .. Len(Text(cnt'[Client]))
      BY <1>3 DEF ClientInv
    <2>3. proc'[Client] = "loop" /\ wrote' = Len(Text(cnt'[Client])) => cnt'[Client] < Count
      <3>1. CASE proc[Client] = "attach"
        BY <1>2, <1>4, <3>1
      <3>2. CASE proc[Client] # "attach"
        BY <1>3, <3>2 DEF ClientInv
      <3> QED
        BY <3>1, <3>2
    <2>4. \A s \in Procs : mem'[s] = IF s = shmid'[Client] THEN Content(Now') ELSE <<>>
      BY <1>3 DEF ClientInv
    <2> QED
      BY <2>1, <2>2, <2>3, <2>4 DEF ClientInv
  <1>6. PrintedInv'
    <2>1. \A p \in Servers :
            Reached(p)' = Reached(p) /\ printed'[p] = printed[p] /\ found'[p] = found[p]
      BY <1>1 DEF Reached
    <2> QED
      BY <2>1 DEF PrintedInv
  <1> QED
    BY <1>5, <1>6

(* A step of a server with the key as it is, or of the client with its     *)
(* segment: the other servers stay where they are.                         *)
LEMMA KeyStays ==
  ASSUME MemoryAssumption, KeyInv, NEW p \in Procs,
         key' = key, perm' = perm, shmid' = shmid, crashed \subseteq crashed',
         \A q \in Procs \ {p} : proc'[q] = proc[q],
         p \in Servers /\ proc'[p] \in Working => proc[p] \in Working,
         p \in Servers /\ proc[p] \in Working => proc'[p] \in Working \/ p \in crashed'
  PROVE  KeyInv'
  <1>1. ASSUME NEW q \in Servers
        PROVE  /\ proc'[q] \in Working => proc[q] \in Working
               /\ proc[q] \in Working => proc'[q] \in Working \/ q \in crashed'
    BY ProcsType
  <1> QED
    BY <1>1 DEF KeyInv

(* createshm.                                                              *)
LEMMA createshm_Step ==
  ASSUME MemoryAssumption, MemoryInv, NEW p \in Servers, createshm(p)
  PROVE  MemoryInv'
  <1> USE ProcsType
  <1>1. /\ proc[p] = "get" /\ UNCHANGED <<mem, cnt, wrote, found, printed, attached, crashed>>
        /\ MemoryTyping /\ KeyInv /\ ClientInv /\ PrintedInv
    BY DEF createshm, reads, ghost, MemoryInv
  <1>2. CASE NewSegment(p, "shared")
    <2>1. /\ key = NoSegment /\ key' = p
          /\ perm' = [perm EXCEPT ![p] = "shared"]
          /\ shmid' = [shmid EXCEPT ![p] = p]
          /\ proc' = [proc EXCEPT ![p] = "attach"]
      BY <1>2 DEF NewSegment, Turns
    <2>2. MemoryTyping'
      BY <1>1, <2>1 DEF MemoryTyping, Working
    <2>3. /\ perm'[p] = "shared" /\ shmid'[p] = p /\ proc'[p] = "attach"
          /\ \A q \in Procs \ {p} :
               perm'[q] = perm[q] /\ shmid'[q] = shmid[q] /\ proc'[q] = proc[q]
      BY <1>1, <2>1 DEF MemoryTyping
    <2>4. \A q \in Servers : proc[q] \notin Working
      BY <1>1, <2>1 DEF KeyInv
    <2>5. KeyInv'
      BY <2>1, <2>3, <2>4 DEF KeyInv, Working
    <2>6. ClientInv' /\ PrintedInv'
      BY <1>1, <2>3, QuietMemory
    <2> QED
      BY <2>2, <2>5, <2>6 DEF MemoryInv
  <1>3. CASE ~ NewSegment(p, "shared")
    <2>1. /\ UNCHANGED <<key, perm, shmid>>
          /\ proc' = [proc EXCEPT ![p] = "gone"]
      BY <1>3 DEF createshm, Turns
    <2>2. MemoryTyping'
      BY <1>1, <2>1 DEF MemoryTyping
    <2>3. proc'[p] = "gone" /\ \A q \in Procs \ {p} : proc'[q] = proc[q]
      BY <1>1, <2>1 DEF MemoryTyping
    <2>4. KeyInv'
      BY <1>1, <2>1, <2>3, KeyStays DEF Working
    <2>5. ClientInv' /\ PrintedInv'
      BY <1>1, <2>1, <2>3, QuietMemory
    <2> QED
      BY <2>2, <2>4, <2>5 DEF MemoryInv
  <1> QED
    BY <1>2, <1>3

(* getshm.                                                                 *)
LEMMA getshm_Step ==
  ASSUME MemoryAssumption, MemoryInv, getshm
  PROVE  MemoryInv'
  <1> USE ProcsType
  <1>1. /\ proc[Client] = "get" /\ UNCHANGED <<mem, cnt, wrote, found, printed, attached, crashed>>
        /\ MemoryTyping /\ KeyInv /\ ClientInv /\ PrintedInv
    BY DEF getshm, reads, ghost, MemoryInv
  <1> DEFINE s == shmid'[Client]
  <1>2. /\ s \in Procs /\ shmid' = [shmid EXCEPT ![Client] = s]
        /\ proc' = [proc EXCEPT ![Client] = "attach"]
        /\ MemoryTyping' /\ KeyInv'
    <2>1. CASE NewSegment(Client, "private")
      <3>1. /\ key = NoSegment /\ key' = Client
            /\ perm' = [perm EXCEPT ![Client] = "private"]
            /\ shmid' = [shmid EXCEPT ![Client] = Client]
            /\ proc' = [proc EXCEPT ![Client] = "attach"]
        BY <2>1 DEF NewSegment, Turns
      <3>2. MemoryTyping'
        BY <1>1, <3>1 DEF MemoryTyping, Working
      <3>3. /\ perm'[Client] = "private" /\ shmid'[Client] = Client
            /\ \A q \in Servers : shmid'[q] = shmid[q] /\ proc'[q] = proc[q]
        BY <1>1, <3>1 DEF MemoryTyping
      <3>4. \A q \in Servers : proc[q] \notin Working
        BY <1>1, <3>1 DEF KeyInv
      <3>5. KeyInv'
        BY <3>1, <3>3, <3>4 DEF KeyInv
      <3> QED
        BY <3>1, <3>2, <3>3, <3>5
    <2>2. CASE OldSegment(Client)
      <3>1. /\ key # NoSegment /\ key' = key /\ perm' = perm
            /\ shmid' = [shmid EXCEPT ![Client] = key]
            /\ proc' = [proc EXCEPT ![Client] = "attach"]
        BY <2>2 DEF OldSegment, Turns
      <3>2. MemoryTyping' /\ key \in Procs
        BY <1>1, <3>1 DEF MemoryTyping, Working
      <3>3. /\ shmid'[Client] = key
            /\ \A q \in Servers : shmid'[q] = shmid[q] /\ proc'[q] = proc[q]
        BY <1>1, <3>1 DEF MemoryTyping
      <3>4. KeyInv'
        BY <1>1, <3>1, <3>3 DEF KeyInv
      <3> QED
        BY <3>1, <3>2, <3>3, <3>4
    <2> QED
      BY <2>1, <2>2 DEF getshm
  <1> HIDE DEF s
  <1>3. Now = <<0, 0>> /\ Now' = Now /\ shmid[Client] = NoSegment
    BY <1>1 DEF ClientInv, Now
  <1>4. proc'[Client] = "attach" /\ shmid'[Client] = s
    BY <1>1, <1>2 DEF MemoryTyping, s
  <1>5. Content(Now) = <<>> /\ \A u \in Procs : mem'[u] = <<>>
    BY <1>1, <1>3, ContentStart DEF ClientInv
  <1>6. ClientInv'
    <2>1. cnt'[Client] \in 0 .. Count /\ wrote' \in 0 .. Len(Text(cnt'[Client]))
      BY <1>1 DEF ClientInv
    <2>2. \A u \in Procs : mem'[u] = IF u = shmid'[Client] THEN Content(Now') ELSE <<>>
      BY <1>3, <1>5
    <2> QED
      BY <1>2, <1>3, <1>4, <2>1, <2>2 DEF ClientInv
  <1>7. PrintedInv'
    <2>1. \A p \in Servers :
            Reached(p)' = Reached(p) /\ printed'[p] = printed[p] /\ found'[p] = found[p]
      BY <1>1, <1>3 DEF Reached
    <2> QED
      BY <1>1, <2>1 DEF PrintedInv
  <1> QED
    BY <1>2, <1>6, <1>7 DEF MemoryInv

(* attachShm: a server always finds its segment.                           *)
LEMMA attachShm_Step ==
  ASSUME MemoryAssumption, MemoryInv, NEW p \in Procs, attachShm(p)
  PROVE  MemoryInv'
  <1> USE ProcsType
  <1>1. /\ proc[p] = "attach"
        /\ UNCHANGED <<key, perm, mem, shmid, cnt, wrote, found, printed, crashed>>
        /\ MemoryTyping /\ KeyInv /\ ClientInv /\ PrintedInv
    BY DEF attachShm, reads, ghost, MemoryInv
  <1>2. /\ proc' \in {[proc EXCEPT ![p] = "loop"], [proc EXCEPT ![p] = "gone"]}
        /\ attached' \in {[attached EXCEPT ![shmid[p]] = @ \cup {p}], attached}
    BY DEF attachShm, Turns
  <1>3. p \in Servers => Attachable(shmid[p])
    BY <1>1 DEF KeyInv, Working, Attachable
  <1>4. p \in Servers => proc' = [proc EXCEPT ![p] = "loop"]
    BY <1>3 DEF attachShm, Turns
  <1>5. /\ proc'[p] \in {"loop", "gone"} /\ (p \in Servers => proc'[p] = "loop")
        /\ \A q \in Procs \ {p} : proc'[q] = proc[q]
    BY <1>1, <1>2, <1>4 DEF MemoryTyping
  <1>6. MemoryTyping'
    <2>1. proc' \in [Procs -> Working \cup {"get", "gone"}]
      BY <1>1, <1>2 DEF MemoryTyping, Working
    <2>2. attached' \in [Procs -> SUBSET Procs]
      <3>1. shmid[p] \in Procs
        BY <1>1 DEF KeyInv, ClientInv, Working, Procs
      <3> DEFINE with == [attached EXCEPT ![shmid[p]] = @ \cup {p}]
      <3>2. attached \in [Procs -> SUBSET Procs]
        BY <1>1 DEF MemoryTyping
      <3>3. with \in [Procs -> SUBSET Procs]
        BY <3>1, <3>2
      <3> QED
        BY <1>2, <3>2, <3>3
    <2> QED
      BY <1>1, <2>1, <2>2 DEF MemoryTyping
  <1>7. KeyInv'
    BY <1>1, <1>5, KeyStays DEF Working
  <1>8. ClientInv' /\ PrintedInv'
    BY <1>1, <1>5, QuietMemory
  <1> QED
    BY <1>6, <1>7, <1>8 DEF MemoryInv

(* deltachShm and the end of a process: the key is as it was.              *)
LEMMA deltachShm_Step ==
  ASSUME MemoryAssumption, MemoryInv, NEW p \in Procs, deltachShm(p)
  PROVE  MemoryInv'
  <1> USE ProcsType
  <1>1. /\ proc[p] = "detach"
        /\ UNCHANGED <<key, perm, mem, shmid, cnt, wrote, found, printed, crashed>>
        /\ proc' = [proc EXCEPT ![p] = IF p = Client THEN "gone" ELSE "delete"]
        /\ attached' = [attached EXCEPT ![shmid[p]] = @ \ {p}]
        /\ MemoryTyping /\ KeyInv /\ ClientInv /\ PrintedInv
    BY DEF deltachShm, Turns, reads, ghost, MemoryInv
  <1>2. /\ proc'[p] = IF p = Client THEN "gone" ELSE "delete"
        /\ \A q \in Procs \ {p} : proc'[q] = proc[q]
    BY <1>1 DEF MemoryTyping
  <1>3. MemoryTyping'
    BY <1>1 DEF MemoryTyping, Working
  <1>4. KeyInv'
    BY <1>1, <1>2, KeyStays DEF Working
  <1>5. ClientInv' /\ PrintedInv'
    BY <1>1, <1>2, QuietMemory
  <1> QED
    BY <1>3, <1>4, <1>5 DEF MemoryInv

LEMMA KillProc_Step ==
  ASSUME MemoryAssumption, MemoryInv, NEW p \in Procs, KillProc(p)
  PROVE  MemoryInv'
  <1> USE ProcsType
  <1>1. /\ UNCHANGED <<key, perm, mem, shmid, cnt, wrote, found, printed>>
        /\ proc' = [proc EXCEPT ![p] = "gone"]
        /\ attached' = [s \in Procs |-> attached[s] \ {p}]
        /\ crashed' = crashed \cup {p}
        /\ MemoryTyping /\ KeyInv /\ ClientInv /\ PrintedInv
    BY DEF KillProc, Turns, MemoryInv
  <1>2. proc'[p] = "gone" /\ \A q \in Procs \ {p} : proc'[q] = proc[q]
    BY <1>1 DEF MemoryTyping
  <1>3. MemoryTyping'
    BY <1>1 DEF MemoryTyping
  <1>4. KeyInv'
    BY <1>1, <1>2, KeyStays DEF Working
  <1>5. ClientInv' /\ PrintedInv'
    BY <1>1, <1>2, QuietMemory
  <1> QED
    BY <1>3, <1>4, <1>5 DEF MemoryInv

(* delShm: only the server that has the key frees it.                      *)
LEMMA delShm_Step ==
  ASSUME MemoryAssumption, MemoryInv, NEW p \in Servers, delShm(p)
  PROVE  MemoryInv'
  <1> USE ProcsType
  <1>1. /\ proc[p] = "delete"
        /\ UNCHANGED <<perm, attached, mem, shmid, cnt, wrote, found, printed, crashed>>
        /\ proc' = [proc EXCEPT ![p] = "gone"]
        /\ key' = IF key = shmid[p] THEN NoSegment ELSE key
        /\ MemoryTyping /\ KeyInv /\ ClientInv /\ PrintedInv
    BY DEF delShm, Turns, reads, ghost, MemoryInv
  <1>2. proc'[p] = "gone" /\ \A q \in Procs \ {p} : proc'[q] = proc[q]
    BY <1>1 DEF MemoryTyping
  <1>3. MemoryTyping'
    BY <1>1 DEF MemoryTyping
  <1>4. KeyInv'
    <2>1. key = p /\ key' = NoSegment
      BY <1>1 DEF KeyInv, Working
    <2>2. \A q \in Servers : proc'[q] \notin Working
      BY <1>1, <1>2, <2>1 DEF KeyInv, Working
    <2> QED
      BY <2>1, <2>2 DEF KeyInv
  <1>5. ClientInv' /\ PrintedInv'
    BY <1>1, <1>2, QuietMemory
  <1> QED
    BY <1>3, <1>4, <1>5 DEF MemoryInv

(* A server reads a character, or prints the line: what only servers do.   *)
LEMMA ServerMemory ==
  ASSUME MemoryAssumption, MemoryInv, NEW p \in Servers, proc[p] = "loop",
         proc'[p] \in {"detach", "loop"}, \A q \in Procs \ {p} : proc'[q] = proc[q],
         cnt'[Client] = cnt[Client],
         UNCHANGED <<key, perm, attached, mem, shmid, wrote, crashed>>
  PROVE  /\ KeyInv' /\ ClientInv'
         /\ \A q \in Servers : Reached(q)' = Reached(q)
         /\ mem[shmid[p]] = Content(Reached(p)) /\ Reached(p) \in Moments
  <1> USE ProcsType
  <1>1. MemoryTyping /\ KeyInv /\ ClientInv
    BY DEF MemoryInv
  <1>2. Now' = Now /\ \A q \in Servers : Reached(q)' = Reached(q)
    <2>1. Now' = Now
      BY DEF Now
    <2> QED
      BY <2>1 DEF Reached
  <1>3. mem[shmid[p]] = Content(Reached(p)) /\ Reached(p) \in Moments
    <2>1. shmid[p] = p
      BY <1>1 DEF KeyInv, Working
    <2>2. mem[p] = IF shmid[Client] = p THEN Content(Now) ELSE <<>>
      BY <1>1 DEF ClientInv
    <2> QED
      BY <1>1, <2>1, <2>2, ContentStart, NowType DEF Reached
  <1>4. KeyInv'
    BY <1>1, KeyStays DEF Working
  <1>5. ClientInv'
    <2>1. Content(Now)' = Content(Now) /\ Text(cnt[Client])' = Text(cnt[Client])
      BY <1>2
    <2>2. proc'[Client] = proc[Client]
      OBVIOUS
    <2> QED
      BY <1>1, <1>2, <2>1, <2>2 DEF ClientInv
  <1> QED
    BY <1>2, <1>3, <1>4, <1>5

(* printf reads a character of the segment.                                *)
LEMMA ReadShm_Step ==
  ASSUME MemoryAssumption, MemoryInv, NEW p \in Servers, ReadShm(p)
  PROVE  MemoryInv'
  <1> USE ProcsType
  <1>1. PICK q \in Places :
          found' = [found EXCEPT ![p] = [found[p] EXCEPT ![q] = CharAt(mem[shmid[p]], q)]]
    BY DEF ReadShm
  <1>2. /\ proc[p] = "loop"
        /\ UNCHANGED <<key, perm, attached, mem, proc, shmid, cnt, wrote, printed, crashed>>
        /\ MemoryTyping /\ PrintedInv
    BY DEF ReadShm, ghost, MemoryInv
  <1>3. /\ KeyInv' /\ ClientInv'
        /\ \A r \in Servers : Reached(r)' = Reached(r)
        /\ mem[shmid[p]] = Content(Reached(p)) /\ Reached(p) \in Moments
    BY <1>2, ServerMemory
  <1>4. CharAt(mem[shmid[p]], q) \in Nat \cup {Nul, Unread}
    <2>1. mem[shmid[p]] \in Seq(Nat)
      BY <1>3, MomentType
    <2> QED
      BY <2>1 DEF CharAt
  <1>5. found[p] \in [Places -> Nat \cup {Nul, Unread}] /\ printed[p] \in Seq(Seq(Nat))
    BY <1>2 DEF MemoryTyping
  <1>6. /\ found'[p] = [found[p] EXCEPT ![q] = CharAt(Content(Reached(p)), q)]
        /\ \A r \in Servers \ {p} : found'[r] = found[r]
    BY <1>1, <1>2, <1>3 DEF MemoryTyping
  <1>7. MemoryTyping'
    BY <1>1, <1>2, <1>4, <1>5 DEF MemoryTyping
  <1>8. PrintedInv'
    <2>1. ExplainedUpTo(printed[p], found[p], Reached(p))
      BY <1>2 DEF PrintedInv
    <2>2. ExplainedUpTo(printed'[p], found'[p], Reached(p)')
      <3> DEFINE more == [found[p] EXCEPT ![q] = CharAt(Content(Reached(p)), q)]
      <3>1. ExplainedUpTo(printed[p], more, Reached(p))
        BY <1>3, <1>5, <2>1, ExplainedOneChar
      <3>2. printed'[p] = printed[p] /\ found'[p] = more /\ Reached(p)' = Reached(p)
        BY <1>2, <1>3, <1>6
      <3> HIDE DEF more
      <3> QED
        BY <3>1, <3>2
    <2>3. \A r \in Servers \ {p} : ExplainedUpTo(printed'[r], found'[r], Reached(r)')
      BY <1>2, <1>3, <1>6 DEF PrintedInv
    <2>4. \A r \in Servers : ExplainedUpTo(printed[r], found[r], Reached(r))'
      BY <2>2, <2>3
    <2> QED
      BY <2>4 DEF PrintedInv
  <1> QED
    BY <1>3, <1>7, <1>8 DEF MemoryInv

(* A server prints the line it has found.                                  *)
LEMMA PrintShm_Step ==
  ASSUME MemoryAssumption, MemoryInv, NEW p \in Servers, PrintShm(p)
  PROVE  MemoryInv'
  <1> USE ProcsType
  <1>1. PICK n \in 0 .. Len(Text(Count)) :
          /\ found[p][n + 1] = Nul /\ \A q \in 1 .. n : found[p][q] >= 0
          /\ printed' = [printed EXCEPT ![p] = Append(@, [q \in 1 .. n |-> found[p][q]])]
    BY DEF PrintShm
  <1>2. /\ proc[p] = "loop"
        /\ found' = [found EXCEPT ![p] = [q \in Places |-> Unread]]
        /\ cnt' = [cnt EXCEPT ![p] = @ + 1]
        /\ proc' = [proc EXCEPT ![p] = IF cnt'[p] = Rounds THEN "detach" ELSE "loop"]
        /\ UNCHANGED <<key, perm, attached, mem, shmid, wrote, crashed>>
        /\ MemoryTyping /\ PrintedInv
    BY DEF PrintShm, Turns, MemoryInv
  <1>3. /\ proc'[p] \in {"detach", "loop"} /\ \A q \in Procs \ {p} : proc'[q] = proc[q]
        /\ cnt'[Client] = cnt[Client]
    BY <1>2 DEF MemoryTyping
  <1>4. /\ KeyInv' /\ ClientInv'
        /\ \A q \in Servers : Reached(q)' = Reached(q)
        /\ Reached(p) \in Moments
    BY <1>2, <1>3, ServerMemory
  <1>5. found[p] \in [Places -> Nat \cup {Nul, Unread}] /\ printed[p] \in Seq(Seq(Nat))
    BY <1>2 DEF MemoryTyping
  <1> DEFINE full == [q \in 1 .. n |-> found[p][q]]
             none == [q \in Places |-> Unread]
  <1>6. full \in Seq(Nat) /\ none \in [Places -> Nat \cup {Nul, Unread}]
    BY <1>1, <1>5, LineFound
  <1>7. ExplainedUpTo(Append(printed[p], full), none, Reached(p))
    <2>1. ExplainedUpTo(printed[p], found[p], Reached(p))
      BY <1>2 DEF PrintedInv
    <2> QED
      BY <1>1, <1>4, <1>5, <2>1, ExplainedOneLine
  <1>8. printed' = [printed EXCEPT ![p] = Append(@, full)] /\ found' = [found EXCEPT ![p] = none]
    BY <1>1, <1>2
  <1> HIDE DEF full, none
  <1>9. /\ printed'[p] = Append(printed[p], full) /\ found'[p] = none
        /\ \A q \in Servers \ {p} : printed'[q] = printed[q] /\ found'[q] = found[q]
    BY <1>2, <1>8 DEF MemoryTyping
  <1>10. MemoryTyping'
    <2>1. printed' \in [Servers -> Seq(Seq(Nat))]
      <3>1. Append(printed[p], full) \in Seq(Seq(Nat))
        BY <1>5, <1>6
      <3> QED
        BY <1>2, <1>8, <3>1 DEF MemoryTyping
    <2>2. cnt' \in [Procs -> Nat] /\ found' \in [Servers -> [Places -> Nat \cup {Nul, Unread}]]
      BY <1>2, <1>6, <1>8 DEF MemoryTyping
    <2>3. proc' \in [Procs -> Working \cup {"get", "gone"}]
      BY <1>2 DEF MemoryTyping, Working
    <2> QED
      BY <1>2, <2>1, <2>2, <2>3 DEF MemoryTyping
  <1>11. PrintedInv'
    <2>1. ExplainedUpTo(printed'[p], found'[p], Reached(p)')
      BY <1>4, <1>7, <1>9
    <2>2. \A q \in Servers \ {p} : ExplainedUpTo(printed'[q], found'[q], Reached(q)')
      BY <1>2, <1>4, <1>9 DEF PrintedInv
    <2>3. \A q \in Servers : ExplainedUpTo(printed[q], found[q], Reached(q))'
      BY <2>1, <2>2
    <2> QED
      BY <2>3 DEF PrintedInv
  <1> QED
    BY <1>4, <1>10, <1>11 DEF MemoryInv

(* sprintf begins a message: the moment is the end of the one before.      *)
LEMMA Begin_Step ==
  ASSUME MemoryAssumption, MemoryInv, Begin
  PROVE  MemoryInv'
  <1> USE ProcsType
  <1> DEFINE n == cnt[Client]
  <1>1. /\ proc[Client] = "loop" /\ wrote = Len(Text(n))
        /\ cnt' = [cnt EXCEPT ![Client] = n + 1] /\ wrote' = 0
        /\ UNCHANGED <<key, perm, attached, mem, proc, shmid, found, printed, crashed>>
        /\ MemoryTyping /\ KeyInv /\ ClientInv /\ PrintedInv
    BY DEF Begin, reads, ghost, MemoryInv
  <1>2. n \in 0 .. Count /\ n \in Nat /\ n < Count
    BY <1>1 DEF ClientInv, MemoryTyping
  <1>3. cnt'[Client] = n + 1
    BY <1>1 DEF MemoryTyping
  <1>4. n + 1 \in 0 .. Count /\ (n + 1) - 1 = n
    <2>1. Count \in Nat
      BY DEF MemoryAssumption
    <2> HIDE DEF n
    <2> QED
      BY <1>2, <2>1
  <1>5. Now = <<n, Len(Text(n))>> /\ Now' = <<n + 1, 0>>
    BY <1>1, <1>3 DEF Now
  <1>6. Content(Now) = Text(n) /\ Content(Now') = Text(n)
    BY <1>2, <1>5, ContentWhole, ContentNext
  <1>7. Text(n + 1) \in Seq(Nat) /\ 0 < Len(Text(n + 1)) /\ Len(Text(n + 1)) \in Nat
    BY <1>2, <1>4, TextType
  <1> HIDE DEF n
  <1>8. MemoryTyping'
    <2>1. cnt' \in [Procs -> Nat]
      BY <1>1, <1>2 DEF MemoryTyping
    <2> QED
      BY <1>1, <2>1 DEF MemoryTyping
  <1>9. KeyInv'
    BY <1>1, KeyStays
  <1>10. ClientInv'
    <2>1. \A s \in Procs : mem'[s] = IF s = shmid'[Client] THEN Content(Now') ELSE <<>>
      BY <1>1, <1>6 DEF ClientInv
    <2>2. /\ cnt'[Client] \in 0 .. Count /\ wrote' \in 0 .. Len(Text(cnt'[Client]))
          /\ wrote' # Len(Text(cnt'[Client]))
      BY <1>1, <1>3, <1>4, <1>7
    <2> QED
      BY <1>1, <2>1, <2>2 DEF ClientInv
  <1>11. PrintedInv'
    <2>1. NotAfter(Now, Now') /\ Now \in Nat \X Nat /\ Now' \in Nat \X Nat
      <3>1. Len(Text(n)) \in Nat
        BY <1>2, TextType
      <3> QED
        BY <1>2, <1>5, <3>1 DEF NotAfter
    <2>2. ASSUME NEW q \in Servers PROVE ExplainedUpTo(printed'[q], found'[q], Reached(q)')
      <3>1. /\ ExplainedUpTo(printed[q], found[q], Reached(q))
            /\ printed'[q] = printed[q] /\ found'[q] = found[q]
        BY <1>1 DEF PrintedInv
      <3>2. CASE shmid[Client] = q
        <4>1. Reached(q) = Now /\ Reached(q)' = Now'
          BY <1>1, <3>2 DEF Reached
        <4> QED
          BY <2>1, <3>1, <4>1, ExplainedLater
      <3>3. CASE shmid[Client] # q
        <4>1. Reached(q) = <<0, 0>> /\ Reached(q)' = <<0, 0>>
          BY <1>1, <3>3 DEF Reached
        <4> QED
          BY <3>1, <4>1
      <3> QED
        BY <3>2, <3>3
    <2> QED
      BY <2>2 DEF PrintedInv
  <1> QED
    BY <1>8, <1>9, <1>10, <1>11 DEF MemoryInv

(* It writes some of the message.                                          *)
LEMMA WriteShm_Step ==
  ASSUME MemoryAssumption, MemoryInv, WriteShm
  PROVE  MemoryInv'
  <1> USE ProcsType
  <1> DEFINE n == cnt[Client]
             s == shmid[Client]
             whole == wrote' = Len(Text(Count)) /\ n = Count
  <1>1. /\ proc[Client] = "loop" /\ wrote' \in wrote + 1 .. Len(Text(n))
        /\ mem' = [mem EXCEPT ![s] = Over(Text(n), wrote', @)]
        /\ proc' = [proc EXCEPT ![Client] = IF whole THEN "detach" ELSE "loop"]
        /\ UNCHANGED <<key, perm, attached, shmid, cnt, found, printed, crashed>>
        /\ MemoryTyping /\ KeyInv /\ ClientInv /\ PrintedInv
    BY DEF WriteShm, Turns, reads, ghost, MemoryInv
  <1>2. n \in 0 .. Count /\ n \in Nat /\ wrote \in Nat /\ s \in Procs
    BY <1>1 DEF ClientInv, MemoryTyping
  <1>3. /\ Text(n) \in Seq(Nat) /\ Text(n - 1) \in Seq(Nat)
        /\ Len(Text(n)) \in Nat
    BY <1>2, TextType
  <1>4. wrote' \in 0 .. Len(Text(n)) /\ wrote \in 0 .. wrote' /\ wrote < wrote' /\ wrote' \in Nat
    BY <1>1, <1>2, <1>3
  <1>5. Now = <<n, wrote>> /\ Now' = <<n, wrote'>>
    BY <1>1 DEF Now
  <1>6. /\ Content(Now) = Over(Text(n), wrote, Text(n - 1))
        /\ Content(Now') = Over(Text(n), wrote', Text(n - 1))
    BY <1>5 DEF Content
  <1>7. Over(Text(n), wrote', Content(Now)) = Content(Now') /\ Content(Now') \in Seq(Nat)
    BY <1>3, <1>4, <1>6, OverMore, OverType
  <1>8. mem[s] = Content(Now)
    BY <1>1, <1>2 DEF ClientInv
  <1>9. mem'[s] = Content(Now') /\ \A u \in Procs \ {s} : mem'[u] = mem[u]
    BY <1>1, <1>2, <1>7, <1>8 DEF MemoryTyping
  <1>10. /\ proc'[Client] = IF whole THEN "detach" ELSE "loop"
         /\ \A q \in Procs \ {Client} : proc'[q] = proc[q]
    BY <1>1 DEF MemoryTyping
  <1>11. wrote' = Len(Text(n)) /\ n = Count => whole
    OBVIOUS
  <1> HIDE DEF n, s, whole
  <1>12. MemoryTyping'
    <2>1. mem' \in [Procs -> Seq(Nat)]
      BY <1>1, <1>2, <1>7, <1>8 DEF MemoryTyping
    <2>2. proc' \in [Procs -> Working \cup {"get", "gone"}]
      BY <1>1 DEF MemoryTyping, Working
    <2> QED
      BY <1>1, <1>4, <2>1, <2>2 DEF MemoryTyping
  <1>13. KeyInv'
    BY <1>1, <1>10, KeyStays
  <1>14. ClientInv'
    <2>1. ASSUME NEW u \in Procs
          PROVE  mem'[u] = IF u = shmid'[Client] THEN Content(Now') ELSE <<>>
      BY <1>1, <1>9 DEF ClientInv, s
    <2>2. cnt'[Client] \in 0 .. Count /\ wrote' \in 0 .. Len(Text(cnt'[Client]))
      BY <1>1, <1>2, <1>4 DEF n
    <2>3. proc'[Client] = "loop" /\ wrote' = Len(Text(cnt'[Client])) => cnt'[Client] < Count
      BY <1>1, <1>2, <1>10, <1>11 DEF n, MemoryAssumption
    <2>4. proc'[Client] \in {"detach", "loop"} /\ shmid'[Client] \in Procs
      BY <1>1, <1>2, <1>10 DEF s
    <2> QED
      BY <2>1, <2>2, <2>3, <2>4 DEF ClientInv
  <1>15. PrintedInv'
    <2>1. NotAfter(Now, Now') /\ Now \in Nat \X Nat /\ Now' \in Nat \X Nat
      BY <1>2, <1>4, <1>5 DEF NotAfter
    <2>2. ASSUME NEW q \in Servers PROVE ExplainedUpTo(printed'[q], found'[q], Reached(q)')
      <3>1. /\ ExplainedUpTo(printed[q], found[q], Reached(q))
            /\ printed'[q] = printed[q] /\ found'[q] = found[q]
        BY <1>1 DEF PrintedInv
      <3>2. CASE shmid[Client] = q
        <4>1. Reached(q) = Now /\ Reached(q)' = Now'
          BY <1>1, <3>2 DEF Reached
        <4> QED
          BY <2>1, <3>1, <4>1, ExplainedLater
      <3>3. CASE shmid[Client] # q
        <4>1. Reached(q) = <<0, 0>> /\ Reached(q)' = <<0, 0>>
          BY <1>1, <3>3 DEF Reached
        <4> QED
          BY <3>1, <4>1
      <3> QED
        BY <3>2, <3>3
    <2> QED
      BY <2>2 DEF PrintedInv
  <1> QED
    BY <1>12, <1>13, <1>14, <1>15 DEF MemoryInv

(* Every step keeps the invariant.                                         *)
LEMMA MemoryNextInv ==
  ASSUME MemoryAssumption, MemoryInv, [MemoryNext]_memoryVars
  PROVE  MemoryInv'
  <1>1. CASE UNCHANGED memoryVars
    <2>1. /\ UNCHANGED <<key, perm, attached, mem, proc, shmid, cnt, wrote, found, printed, crashed>>
          /\ MemoryTyping /\ KeyInv /\ ClientInv /\ PrintedInv
      BY <1>1 DEF memoryVars, MemoryInv
    <2>2. MemoryTyping' /\ KeyInv'
      BY <2>1 DEF MemoryTyping, KeyInv
    <2>3. ClientInv' /\ PrintedInv'
      BY <2>1, QuietMemory
    <2> QED
      BY <2>2, <2>3 DEF MemoryInv
  <1>2. CASE MemoryNext
    BY <1>2, createshm_Step, getshm_Step, attachShm_Step, ReadShm_Step, PrintShm_Step, Begin_Step,
       WriteShm_Step, deltachShm_Step, delShm_Step, KillProc_Step
    DEF MemoryNext, MemorySystem, RunServer, RunClient
  <1> QED
    BY <1>1, <1>2

LEMMA MemoryInductive ==
  ASSUME MemoryAssumption
  PROVE  MemorySpec => []MemoryInv
  <1>1. MemoryInit => MemoryInv
    BY MemoryInitInv
  <1>2. MemoryInv /\ [MemoryNext]_memoryVars => MemoryInv'
    BY MemoryNextInv
  <1> QED
    BY <1>1, <1>2, PTL DEF MemorySpec

(* The invariant says what is safe.                                        *)
LEMMA MemoryInvSafe ==
  ASSUME MemoryAssumption
  PROVE  MemoryInv => MemorySafe
  <1> SUFFICES ASSUME MemoryInv PROVE MemorySafe
    OBVIOUS
  <1>1. InOrder
    <2>1. ASSUME NEW p \in Servers PROVE Explained(printed[p], Now)
      <3>1. PICK when \in [0 .. Len(printed[p]) -> Moments] : SeenBy(when, printed[p], Reached(p))
        BY DEF MemoryInv, PrintedInv, ExplainedUpTo
      <3>2. NotAfter(Reached(p), Now) /\ Reached(p) \in Nat \X Nat /\ Now \in Nat \X Nat
        BY NowType, MomentOrder DEF MemoryInv, Reached
      <3>3. \A j \in 0 .. Len(printed[p]) : NotAfter(when[j], Now)
        BY <3>1, <3>2, MomentOrder DEF SeenBy
      <3>4. when \in [0 .. Len(printed[p]) -> {m \in Moments : NotAfter(m, Now)}]
        BY <3>3
      <3> QED
        BY <3>1, <3>4 DEF SeenBy, Explained
    <2> QED
      BY <2>1 DEF InOrder
  <1>2. \A p, q \in Servers : proc[p] \in Working /\ proc[q] \in Working => p = q
    BY DEF MemoryInv, KeyInv
  <1>3. (\A p \in Procs : proc[p] = "gone") /\ key # NoSegment =>
          key \in crashed \cap Servers \/ perm[key] = "private"
    <2>1. key \in Servers \cup {Client, NoSegment}
      BY DEF MemoryInv, MemoryTyping, Procs
    <2>2. key \in Servers /\ proc[key] = "gone" => key \in crashed
      BY DEF MemoryInv, KeyInv, Working
    <2> QED
      BY <2>1, <2>2, ProcsType DEF MemoryInv, KeyInv
  <1> QED
    BY <1>1, <1>2, <1>3 DEF MemorySafe, OneServer

(* However the characters that sprintf writes and those that printf reads  *)
(* fall between each other, a line may mix messages but no line shows      *)
(* again what was gone when the one before it was printed; one server at a *)
(* time has a segment, and only a crash or a client that came first leaves *)
(* one behind (shm_server.cc:8-27, shm_client.cc:5-23, comm.hpp:34-84).    *)
THEOREM NeverShownBack ==
  ASSUME MemoryAssumption
  PROVE  MemorySpec => []MemorySafe
  BY MemoryInductive, MemoryInvSafe, PTL

-----------------------------------------------------------------------------
(***************************************************************************)
(* FlattenSeq: what it returns for one more sequence, for none, and for a  *)
(* list whose last member is replaced.                                     *)
(***************************************************************************)
(* FlattenSeq, whose partial results f says for the first n of F.          *)
Flattens(F, f, n) == f = [j \in 1 .. n |-> IF j = 1 THEN F[j] ELSE f[j - 1] \o F[j]]

(* What a partial result is.                                               *)
LEMMA FlattensAt ==
  ASSUME NEW F, NEW f, NEW n, Flattens(F, f, n), NEW j \in 1 .. n
  PROVE  f[j] = IF j = 1 THEN F[j] ELSE f[j - 1] \o F[j]
  <1> DEFINE h == [k \in 1 .. n |-> IF k = 1 THEN F[k] ELSE f[k - 1] \o F[k]]
  <1>1. f = h
    BY Zenon DEF Flattens
  <1>2. h[j] = IF j = 1 THEN F[j] ELSE f[j - 1] \o F[j]
    OBVIOUS
  <1> HIDE DEF h
  <1> QED
    BY <1>1, <1>2, Zenon

(* There are partial results up to any length.                             *)
LEMMA FlattensExists ==
  ASSUME NEW S, NEW F \in Seq(Seq(S))
  PROVE  \A n \in 0 .. Len(F) : \E f \in [1 .. n -> Seq(S)] : Flattens(F, f, n)
  <1> DEFINE P == {n \in Nat : n <= Len(F) =>
                     \E f \in [1 .. n -> Seq(S)] : Flattens(F, f, n)}
  <1>1. 0 \in P
    <2> DEFINE g == [j \in 1 .. 0 |-> <<>>]
    <2>1. g \in [1 .. 0 -> Seq(S)] /\ Flattens(F, g, 0)
      BY DEF Flattens
    <2> QED
      BY <2>1
  <1>2. ASSUME NEW n \in Nat, n \in P PROVE n + 1 \in P
    <2> SUFFICES ASSUME n + 1 <= Len(F)
                 PROVE  \E g \in [1 .. n + 1 -> Seq(S)] : Flattens(F, g, n + 1)
      OBVIOUS
    <2>1. PICK f \in [1 .. n -> Seq(S)] : Flattens(F, f, n)
      BY <1>2
    <2> DEFINE g == [j \in 1 .. n + 1 |->
                       IF j <= n THEN f[j] ELSE IF n = 0 THEN F[1] ELSE f[n] \o F[n + 1]]
    <2>2. F[n + 1] \in Seq(S) /\ F[1] \in Seq(S)
      OBVIOUS
    <2>3. n # 0 => f[n] \o F[n + 1] \in Seq(S)
      BY <2>2
    <2>4. g \in [1 .. n + 1 -> Seq(S)]
      BY <2>2, <2>3
    <2>5. ASSUME NEW j \in 1 .. n + 1
          PROVE  g[j] = IF j = 1 THEN F[j] ELSE g[j - 1] \o F[j]
      <3>1. CASE j <= n
        <4>1. f[j] = IF j = 1 THEN F[j] ELSE f[j - 1] \o F[j]
          <5>1. j \in 1 .. n
            BY <3>1
          <5> QED
            BY <2>1, <5>1, FlattensAt
        <4>2. g[j] = f[j] /\ (j # 1 => g[j - 1] = f[j - 1])
          BY <3>1
        <4> QED
          BY <4>1, <4>2
      <3>2. CASE j = n + 1 /\ n = 0
        BY <3>2
      <3>3. CASE j = n + 1 /\ n # 0
        <4>1. j \in 1 .. n + 1 /\ j - 1 \in 1 .. n + 1 /\ j - 1 = n /\ j # 1
          BY <3>3
        <4>2. g[n + 1] = f[n] \o F[n + 1] /\ g[n] = f[n]
          BY <3>3, <4>1
        <4> HIDE DEF g
        <4> QED
          BY <3>3, <4>1, <4>2, Zenon
      <3> QED
        BY <3>1, <3>2, <3>3
    <2>6. DOMAIN g = 1 .. n + 1 /\ g = [j \in 1 .. n + 1 |-> g[j]]
      OBVIOUS
    <2> HIDE DEF g
    <2>7. Flattens(F, g, n + 1)
      BY <2>5, <2>6 DEF Flattens
    <2> QED
      BY <2>4, <2>7
  <1> HIDE DEF P
  <1>3. \A n \in Nat : n \in P
    BY <1>1, <1>2, NatSetInduction
  <1>4. Len(F) \in Nat
    BY LenProperties
  <1> QED
    BY <1>3, <1>4 DEF P

Agree(F, G, n) == \A j \in 1 .. n : F[j] = G[j]
Empties(F, n) == \A j \in 1 .. n : F[j] = <<>>

(* Partial results of lists that agree so far agree.                       *)
LEMMA FlattensUnique ==
  ASSUME NEW F, NEW G, NEW f, NEW g, NEW m \in Nat, NEW n \in 0 .. m,
         Agree(F, G, n), Flattens(F, f, n), Flattens(G, g, m)
  PROVE  Agree(f, g, n)
  <1> DEFINE P == {j \in Nat : j \in 1 .. n => f[j] = g[j]}
  <1>1. 0 \in P
    OBVIOUS
  <1>2. ASSUME NEW j \in Nat, j \in P PROVE j + 1 \in P
    <2> SUFFICES ASSUME j + 1 \in 1 .. n PROVE f[j + 1] = g[j + 1]
      OBVIOUS
    <2>1. f[j + 1] = IF j + 1 = 1 THEN F[j + 1] ELSE f[j + 1 - 1] \o F[j + 1]
      BY FlattensAt
    <2>2. j + 1 \in 1 .. m
      OBVIOUS
    <2>3. g[j + 1] = IF j + 1 = 1 THEN G[j + 1] ELSE g[j + 1 - 1] \o G[j + 1]
      BY <2>2, FlattensAt
    <2>4. F[j + 1] = G[j + 1] /\ j + 1 - 1 = j
      BY DEF Agree
    <2>5. j # 0 => f[j] = g[j]
      BY <1>2
    <2> QED
      BY <2>1, <2>3, <2>4, <2>5
  <1> HIDE DEF P
  <1>3. \A j \in Nat : j \in P
    BY <1>1, <1>2, NatSetInduction
  <1> QED
    BY <1>3 DEF P, Agree

(* Of nothing but empty sequences they are empty.                          *)
LEMMA FlattensNothing ==
  ASSUME NEW F, NEW f, NEW n \in Nat, Flattens(F, f, n), Empties(F, n)
  PROVE  Empties(f, n)
  <1> DEFINE P == {j \in Nat : j \in 1 .. n => f[j] = <<>>}
  <1>1. 0 \in P
    OBVIOUS
  <1>2. ASSUME NEW j \in Nat, j \in P PROVE j + 1 \in P
    <2> SUFFICES ASSUME j + 1 \in 1 .. n PROVE f[j + 1] = <<>>
      OBVIOUS
    <2>1. f[j + 1] = IF j + 1 = 1 THEN F[j + 1] ELSE f[j + 1 - 1] \o F[j + 1]
      BY FlattensAt
    <2>2. F[j + 1] = <<>> /\ j + 1 - 1 = j
      BY DEF Empties
    <2>3. j # 0 => f[j] = <<>>
      BY <1>2
    <2>4. <<>> \o <<>> = <<>>
      OBVIOUS
    <2> QED
      BY <2>1, <2>2, <2>3, <2>4
  <1> HIDE DEF P
  <1>3. \A j \in Nat : j \in P
    BY <1>1, <1>2, NatSetInduction
  <1> QED
    BY <1>3 DEF P, Empties

(* FlattenSeq is the last partial result.                                  *)
LEMMA FlattenIs ==
  ASSUME NEW S, NEW F \in Seq(Seq(S)), F # <<>>
  PROVE  \E f \in [1 .. Len(F) -> Seq(S)] :
           Flattens(F, f, Len(F)) /\ FlattenSeq(F) = f[Len(F)]
  <1> DEFINE g == CHOOSE h : h = [j \in 1 .. Len(F) |-> IF j = 1 THEN F[j] ELSE h[j - 1] \o F[j]]
  <1>1. Len(F) \in Nat /\ Len(F) # 0
    BY LenProperties, EmptySeq
  <1>2. FlattenSeq(F) = g[Len(F)]
    BY <1>1 DEF FlattenSeq
  <1>3. PICK f \in [1 .. Len(F) -> Seq(S)] : Flattens(F, f, Len(F))
    BY <1>1, FlattensExists
  <1>4. Flattens(F, g, Len(F))
    BY <1>3 DEF Flattens
  <1> HIDE DEF g
  <1>5. Len(F) \in 1 .. Len(F) /\ Len(F) \in 0 .. Len(F)
    BY <1>1
  <1>6. Agree(F, F, Len(F))
    BY DEF Agree
  <1>7. Agree(g, f, Len(F))
    BY <1>1, <1>3, <1>4, <1>5, <1>6, FlattensUnique
  <1>8. g[Len(F)] = f[Len(F)]
    BY <1>5, <1>7 DEF Agree
  <1> QED
    BY <1>2, <1>3, <1>8

(* No sequences make an empty one.                                         *)
LEMMA FlattenEmpty == FlattenSeq(<<>>) = <<>>
  BY DEF FlattenSeq

(* The elements stay elements.                                             *)
LEMMA FlattenType ==
  ASSUME NEW S, NEW F \in Seq(Seq(S))
  PROVE  FlattenSeq(F) \in Seq(S)
  <1>1. CASE F = <<>>
    <2>1. <<>> \in Seq(S)
      OBVIOUS
    <2> QED
      BY <1>1, <2>1, FlattenEmpty, Zenon
  <1>2. CASE F # <<>>
    <2>1. PICK f \in [1 .. Len(F) -> Seq(S)] : FlattenSeq(F) = f[Len(F)]
      BY <1>2, FlattenIs
    <2>2. Len(F) \in 1 .. Len(F)
      BY <1>2
    <2> QED
      BY <2>1, <2>2
  <1> QED
    BY <1>1, <1>2

(* The last of a sequence of sequences comes last.                         *)
LEMMA FlattenLast ==
  ASSUME NEW S, NEW F \in Seq(Seq(S)), NEW G \in Seq(Seq(S)),
         Len(G) = Len(F) + 1, \A j \in 1 .. Len(F) : G[j] = F[j]
  PROVE  FlattenSeq(G) = FlattenSeq(F) \o G[Len(G)]
  <1>1. Len(F) \in Nat /\ Len(G) \in Nat /\ G # <<>> /\ G[Len(G)] \in Seq(S)
    <2>1. Len(F) \in Nat /\ Len(G) \in Nat /\ Len(G) \in 1 .. Len(G)
      BY LenProperties
    <2>2. G # <<>>
      BY <2>1, EmptySeq
    <2>3. G[Len(G)] \in Seq(S)
      BY <2>1, ElementOfSeq
    <2> QED
      BY <2>1, <2>2, <2>3
  <1>2. PICK g \in [1 .. Len(G) -> Seq(S)] :
               Flattens(G, g, Len(G)) /\ FlattenSeq(G) = g[Len(G)]
    BY <1>1, FlattenIs
  <1>3. CASE F = <<>>
    <2>1. Len(F) = 0 /\ Len(G) = 1
      BY <1>3
    <2>2. g[1] = G[1]
      BY <1>2, <2>1 DEF Flattens
    <2>3. FlattenSeq(F) = <<>>
      BY <1>3, FlattenEmpty
    <2>4. <<>> \o G[1] = G[1]
      BY <1>1, <2>1, ConcatEmptySeq
    <2> QED
      BY <1>2, <2>1, <2>2, <2>3, <2>4
  <1>4. CASE F # <<>>
    <2>1. PICK f \in [1 .. Len(F) -> Seq(S)] :
                 Flattens(F, f, Len(F)) /\ FlattenSeq(F) = f[Len(F)]
      BY <1>4, FlattenIs
    <2>2. Len(F) \in 1 .. Len(F) /\ Len(F) \in 0 .. Len(G)
      BY <1>1, <1>4, EmptySeq
    <2>3. Agree(F, G, Len(F))
      BY DEF Agree
    <2>4. f[Len(F)] = g[Len(F)]
      <3>1. Agree(f, g, Len(F))
        BY <1>1, <1>2, <2>1, <2>2, <2>3, FlattensUnique
      <3> QED
        BY <2>2, <3>1 DEF Agree
    <2>5. g[Len(G)] = g[Len(G) - 1] \o G[Len(G)]
      <3>1. Len(G) \in 1 .. Len(G) /\ Len(G) # 1
        BY <1>1, <2>2
      <3> QED
        BY <1>2, <3>1 DEF Flattens
    <2>6. Len(G) - 1 = Len(F)
      BY <1>1
    <2> QED
      BY <1>2, <2>1, <2>4, <2>5, <2>6
  <1> QED
    BY <1>3, <1>4

(* Nothing flattens to nothing.                                            *)
LEMMA FlattenNothing ==
  ASSUME NEW S, NEW F \in Seq(Seq(S)), \A j \in 1 .. Len(F) : F[j] = <<>>
  PROVE  FlattenSeq(F) = <<>>
  <1>1. CASE F = <<>>
    BY <1>1, FlattenEmpty
  <1>2. CASE F # <<>>
    <2>1. PICK f \in [1 .. Len(F) -> Seq(S)] :
                 Flattens(F, f, Len(F)) /\ FlattenSeq(F) = f[Len(F)]
      BY <1>2, FlattenIs
    <2>2. Len(F) \in Nat /\ Len(F) # 0
      BY <1>2, LenProperties, EmptySeq
    <2>3. Empties(F, Len(F))
      BY DEF Empties
    <2>4. Empties(f, Len(F))
      BY <2>1, <2>2, <2>3, FlattensNothing
    <2>5. Len(F) \in 1 .. Len(F)
      BY <2>2
    <2> QED
      BY <2>1, <2>4, <2>5 DEF Empties
  <1> QED
    BY <1>1, <1>2

(* The last of them, which was empty, becomes another.                     *)
LEMMA FlattenReplaced ==
  ASSUME NEW S, NEW F \in Seq(Seq(S)), NEW G \in Seq(Seq(S)), NEW k \in Nat, k # 0,
         Len(F) = k, Len(G) = k, F[k] = <<>>, \A j \in 1 .. k - 1 : G[j] = F[j]
  PROVE  FlattenSeq(G) = FlattenSeq(F) \o G[k]
  <1> DEFINE H == SubSeq(F, 1, k - 1)
  <1>1. /\ H \in Seq(Seq(S)) /\ Len(H) = k - 1
        /\ \A j \in 1 .. k - 1 : H[j] = F[j]
    BY SubSeqProperties
  <1> HIDE DEF H
  <1>2. /\ Len(F) = Len(H) + 1 /\ \A j \in 1 .. Len(H) : F[j] = H[j]
        /\ Len(G) = Len(H) + 1 /\ \A j \in 1 .. Len(H) : G[j] = H[j]
    BY <1>1
  <1>3. FlattenSeq(F) = FlattenSeq(H) \o F[Len(F)]
    BY <1>1, <1>2, FlattenLast
  <1>4. FlattenSeq(G) = FlattenSeq(H) \o G[Len(G)]
    BY <1>1, <1>2, FlattenLast
  <1>5. FlattenSeq(H) \o <<>> = FlattenSeq(H)
    <2>1. FlattenSeq(H) \in Seq(S)
      BY <1>1, FlattenType
    <2> QED
      BY <2>1, ConcatEmptySeq
  <1> QED
    BY <1>3, <1>4, <1>5

-----------------------------------------------------------------------------
(***************************************************************************)
(* MyShell, for any lines, directories and programs: after any session the *)
(* files and the terminal show what its lines say.                         *)
(***************************************************************************)
(* What is shown at a time, and what the variables hold.                   *)
Shows ==
  {<<"echo", w>> : w \in Words} \cup {<<"program", n>> : n \in Nat}
    \cup {<<"codes", c, s>> : c \in Nat, s \in Nat}

StatusWords == {status \in Nat : status < 65536}
EndType == [opened : BOOLEAN, wrote : Seq(Shows), status : StatusWords \cup {-1}]
FileType == [exists : BOOLEAN, text : Seq(Shows)]
KidType ==
  [at : {"none", "redirect", "exec", "run", "zombie"}, out : Seq(Shows),
   fd0 : FileType, fd1 : {"terminal", "file"}, status : StatusWords]

ShellType ==
  /\ at \in {"prompt", "cd", "echo", "fork", "wait", "crashed", "ended"}
  /\ typed \in Seq(Lines) /\ ended \in Seq(EndType) /\ Len(ended) = Len(typed)
  /\ out \in Seq(Shows) /\ terminal \in Seq(Shows)
  /\ cwd \in Dirs /\ codes \in [exit : Nat, signal : Nat] /\ kid \in KidType
  /\ files \in [Dirs -> [FileNames -> FileType]]

(* What MyShell reads off a session, of any lines t and ends e.            *)
MovesOf(t, n) == LET c == CommandOf(t[n]) IN Len(c) > 1 /\ c[1] = "cd" /\ c[2] \in Dirs

DirOf(t, n) ==
  LET moves == {m \in 1 .. n - 1 : MovesOf(t, m)} IN
  IF moves = {} THEN HomeDir ELSE CommandOf(t[Max(moves)])[2]

WaitedOf(e, n) == {m \in 1 .. n - 1 : e[m].status # -1}

StatusOf(e, n) == IF WaitedOf(e, n) = {} THEN 0 ELSE e[Max(WaitedOf(e, n))].status

IntoOf(t, e, n, d, f) ==
  LET r == Redirection(t[n]) IN
  r.type \in {">", ">>"} /\ r.file = f /\ DirOf(t, n) = d /\ e[n].opened

IntoSet(t, e, d, f) == {n \in 1 .. Len(t) : IntoOf(t, e, n, d, f)}

Since(t, e, d, f) ==
  Max({0} \cup {n \in IntoSet(t, e, d, f) : Redirection(t[n]).type = ">"})

FileSeq(t, e, d, f) ==
  [n \in 1 .. Len(t) |->
     IF n \in IntoSet(t, e, d, f) /\ n >= Since(t, e, d, f) THEN e[n].wrote ELSE <<>>]

Decoded(s) == [exit |-> s \div 256, signal |-> s % 128]

SeenOf(t, e, n) ==
  LET c == CommandOf(t[n]) IN
  IF c # <<>> /\ c[1] = "echo"
  THEN IF Len(c) > 1 /\ c[2] = "$?"
       THEN <<Shown(Decoded(StatusOf(e, n)))>>
       ELSE [m \in 1 .. Len(c) - 1 |-> <<"echo", c[m + 1]>>]
  ELSE IF Redirection(t[n]).type \in {">", ">>"} THEN <<>> ELSE e[n].wrote

SeenSeq(t, e, k) == [n \in 1 .. k |-> SeenOf(t, e, n)]

(* The line the shell is at.                                               *)
LastLine ==
  LET n == Len(typed) IN
  /\ n = 0 => at \in {"prompt", "ended"}
  /\ n > 0 => argv = CommandOf(typed[n]) /\ redir = Redirection(typed[n])
  /\ at \in {"cd", "echo", "crashed"} => Kind(argv) = at
  /\ at \in {"fork", "wait"} => Kind(argv) = "fork"
  /\ at \in {"cd", "echo", "fork", "wait"} => out = <<>>
  /\ at \in {"cd", "echo", "fork"} => ended[n] = NoEnd

(* The child exists while the shell waits; it has nothing of the shell's   *)
(* output, and writes where the line says.                                 *)
ChildInv ==
  LET n == Len(typed) IN
  /\ at # "wait" => kid = NoKid
  /\ at = "wait" =>
       /\ kid.at # "none" /\ kid.out = <<>> /\ ended[n].status = -1
       /\ kid.at = "redirect" => ended[n] = NoEnd /\ kid.fd1 = "terminal"
       /\ kid.at = "exec" => ended[n].wrote = <<>>
       /\ kid.at \in {"exec", "run"} =>
            ended[n].opened /\ (kid.fd1 = "file" <=> redir.type \in {">", ">>"})

(* Where the shell is, and what $? holds, before line n is done.           *)
PlaceInv ==
  LET n == IF at = "prompt" THEN Len(typed) + 1 ELSE Len(typed) IN
  at \in {"prompt", "cd", "echo", "fork", "wait"} =>
    cwd = DirOf(typed, n) /\ codes = Decoded(StatusOf(ended, n))

FilesInv ==
  \A d \in Dirs, f \in FileNames :
    files[d][f].text = FlattenSeq(FileSeq(typed, ended, d, f))

TerminalInv ==
  terminal \o out =
    FlattenSeq(SeenSeq(typed, ended, IF at = "echo" THEN Len(typed) - 1 ELSE Len(typed)))

ShellInv == ShellType /\ LastLine /\ ChildInv /\ PlaceInv /\ FilesInv /\ TerminalInv

-----------------------------------------------------------------------------
(* What a line is parsed to.                                               *)
LEMMA LineType ==
  ASSUME ShellAssumption, NEW line \in Lines
  PROVE  line \in Seq(Words)
  <1>1. Lines \subseteq Seq(Words)
    BY DEF ShellAssumption
  <1> HIDE DEF ShellAssumption
  <1> QED
    BY <1>1

(* A line is cut into a command and a redirection.                         *)
LEMMA LineShape ==
  ASSUME ShellAssumption, NEW line \in Lines
  PROVE  /\ CommandOf(line) \in Seq(Words)
         /\ SignAt(line) = 0 => Redirection(line) = NoRedir
         /\ Redirection(line).type # "none" => Redirection(line).file \in FileNames
         /\ Redirection(line).type \in {"none", ">", ">>", "<"}
  <1> DEFINE I == {j \in 1 .. Len(line) : line[j] \in Signs}
             n == SignAt(line)
  <1>1. line \in Seq(Words) /\ Len(line) \in Nat
    <2>1. line \in Seq(Words)
      BY LineType
    <2> QED
      BY <2>1, LenProperties
  <1>2. n = IF I # {} THEN Min(I) ELSE 0
    BY DEF SignAt, SelectInSeq
  <1>3. I # {} => Min(I) \in I
    <2>1. I \in SUBSET Nat
      BY <1>1
    <2> HIDE DEF I
    <2> QED
      BY <2>1, MinExists
  <1>4. n = 0 \/ (n \in 1 .. Len(line) /\ line[n] \in Signs)
    BY <1>2, <1>3
  <1> HIDE DEF I
  <1>5. CommandOf(line) \in Seq(Words)
    <2>1. CASE n = 0
      BY <1>1, <2>1 DEF CommandOf
    <2>2. CASE n # 0
      <3>1. n \in 1 .. Len(line)
        BY <1>4, <2>2
      <3> HIDE DEF n
      <3>2. SubSeq(line, 1, n - 1) \in Seq(Words)
        BY <1>1, <3>1
      <3> QED
        BY <2>2, <3>2 DEF CommandOf, n
    <2> QED
      BY <2>1, <2>2
  <1>6. n = 0 => Redirection(line) = NoRedir
    BY DEF Redirection
  <1>7. n # 0 => /\ Redirection(line).type \in Signs
                 /\ Redirection(line).file \in FileNames
    BY <1>4 DEF Redirection, FileNames
  <1>8. NoRedir.type = "none"
    BY DEF NoRedir
  <1> QED
    BY <1>5, <1>6, <1>7, <1>8 DEF Signs
-----------------------------------------------------------------------------
(* The directory and the last status depend on the lines before.           *)
LEMMA DirSame ==
  ASSUME NEW t, NEW u, NEW n \in Nat, \A m \in 1 .. n - 1 : u[m] = t[m]
  PROVE  DirOf(u, n) = DirOf(t, n)
  <1> DEFINE M == {m \in 1 .. n - 1 : MovesOf(t, m)}
  <1>1. {m \in 1 .. n - 1 : MovesOf(u, m)} = M
    BY DEF MovesOf
  <1>2. M # {} => Max(M) \in 1 .. n - 1
    <2>1. M \subseteq 0 .. n
      OBVIOUS
    <2>2. M # {} => Max(M) \in M
      <3> HIDE DEF M
      <3> QED
        BY <2>1, MaxExists
    <2> QED
      BY <2>2
  <1> HIDE DEF M
  <1>3. M # {} => u[Max(M)] = t[Max(M)]
    BY <1>2
  <1>4. DirOf(t, n) = IF M = {} THEN HomeDir ELSE CommandOf(t[Max(M)])[2]
    BY DEF DirOf, M
  <1>5. DirOf(u, n) = IF M = {} THEN HomeDir ELSE CommandOf(u[Max(M)])[2]
    BY <1>1 DEF DirOf
  <1> QED
    BY <1>3, <1>4, <1>5

(* The next line moves when this one is a cd.                              *)
LEMMA DirNext ==
  ASSUME NEW t, NEW n \in Nat, n # 0
  PROVE  DirOf(t, n + 1) = IF MovesOf(t, n) THEN CommandOf(t[n])[2] ELSE DirOf(t, n)
  <1> DEFINE M == {m \in 1 .. n - 1 : MovesOf(t, m)}
             K == {m \in 1 .. n + 1 - 1 : MovesOf(t, m)}
  <1>1. DirOf(t, n) = IF M = {} THEN HomeDir ELSE CommandOf(t[Max(M)])[2]
    BY DEF DirOf
  <1>2. DirOf(t, n + 1) = IF K = {} THEN HomeDir ELSE CommandOf(t[Max(K)])[2]
    BY DEF DirOf
  <1>3. CASE MovesOf(t, n)
    <2>1. n \in K /\ K \in SUBSET Int /\ \A k \in K : k <= n
      BY <1>3
    <2> HIDE DEF K
    <2>2. Max(K) = n
      BY <2>1, MaxIs
    <2> QED
      BY <1>2, <1>3, <2>1, <2>2
  <1>4. CASE ~ MovesOf(t, n)
    <2>1. K = M
      BY <1>4
    <2> HIDE DEF K, M
    <2> QED
      BY <1>1, <1>2, <1>4, <2>1
  <1> QED
    BY <1>3, <1>4

(* The status a line knows of depends on the ends before it alone.         *)
LEMMA StatusSame ==
  ASSUME NEW e, NEW g, NEW n \in Nat, \A m \in 1 .. n - 1 : g[m].status = e[m].status
  PROVE  StatusOf(g, n) = StatusOf(e, n)
  <1> DEFINE W == WaitedOf(e, n)
  <1>1. WaitedOf(g, n) = W
    BY DEF WaitedOf
  <1>2. W # {} => Max(W) \in 1 .. n - 1
    <2>1. W \subseteq 0 .. n /\ W \subseteq 1 .. n - 1
      BY DEF WaitedOf
    <2>2. W # {} => Max(W) \in W
      <3> HIDE DEF W
      <3> QED
        BY <2>1, MaxExists
    <2> QED
      BY <2>1, <2>2
  <1> HIDE DEF W
  <1>3. W # {} => g[Max(W)].status = e[Max(W)].status
    BY <1>2
  <1>4. StatusOf(e, n) = IF W = {} THEN 0 ELSE e[Max(W)].status
    BY DEF StatusOf, W
  <1>5. StatusOf(g, n) = IF W = {} THEN 0 ELSE g[Max(W)].status
    BY <1>1 DEF StatusOf
  <1> QED
    BY <1>3, <1>4, <1>5

(* The next line knows of the child of this one.                           *)
LEMMA StatusNext ==
  ASSUME NEW e, NEW n \in Nat, n # 0
  PROVE  StatusOf(e, n + 1) = IF e[n].status # -1 THEN e[n].status ELSE StatusOf(e, n)
  <1> DEFINE W == WaitedOf(e, n)
             X == WaitedOf(e, n + 1)
  <1>1. StatusOf(e, n) = IF W = {} THEN 0 ELSE e[Max(W)].status
    BY DEF StatusOf
  <1>2. StatusOf(e, n + 1) = IF X = {} THEN 0 ELSE e[Max(X)].status
    BY DEF StatusOf
  <1>3. CASE e[n].status # -1
    <2>1. n \in X /\ X \in SUBSET Int /\ \A k \in X : k <= n
      BY <1>3 DEF WaitedOf
    <2> HIDE DEF X
    <2>2. Max(X) = n
      BY <2>1, MaxIs
    <2> QED
      BY <1>2, <1>3, <2>1, <2>2
  <1>4. CASE e[n].status = -1
    <2>1. X = W
      BY <1>4 DEF WaitedOf
    <2> HIDE DEF X, W
    <2> QED
      BY <1>1, <1>2, <1>4, <2>1
  <1> QED
    BY <1>3, <1>4

(* It is a status word.                                                    *)
LEMMA StatusType ==
  ASSUME NEW e \in Seq(EndType), NEW n \in 1 .. Len(e) + 1
  PROVE  StatusOf(e, n) \in StatusWords
  <1> DEFINE W == WaitedOf(e, n)
  <1>1. StatusOf(e, n) = IF W = {} THEN 0 ELSE e[Max(W)].status
    BY DEF StatusOf
  <1>2. Len(e) \in Nat /\ n \in Nat
    BY LenProperties
  <1>3. W \subseteq 0 .. n /\ \A m \in W : m \in 1 .. Len(e) /\ e[m].status # -1
    BY <1>2 DEF WaitedOf
  <1> HIDE DEF W
  <1>4. W # {} => Max(W) \in W
    BY <1>2, <1>3, MaxExists
  <1>5. \A m \in 1 .. Len(e) : e[m].status \in StatusWords \cup {-1}
    <2>1. ASSUME NEW m \in 1 .. Len(e) PROVE e[m].status \in StatusWords \cup {-1}
      <3>1. e[m] \in EndType
        BY ElementOfSeq
      <3> QED
        BY <3>1 DEF EndType
    <2> QED
      BY <2>1
  <1>6. CASE W = {}
    BY <1>1, <1>6 DEF StatusWords
  <1>7. CASE W # {}
    <2>1. PICK m \in W : m = Max(W)
      BY <1>4, <1>7
    <2>2. StatusOf(e, n) = e[m].status
      BY <1>1, <1>7, <2>1
    <2>3. e[m].status \in StatusWords \cup {-1} /\ e[m].status # -1
      BY <1>3, <1>5
    <2> QED
      BY <2>2, <2>3
  <1> QED
    BY <1>6, <1>7

-----------------------------------------------------------------------------
(* What a line shows.                                                      *)
LEMMA DecodedType ==
  ASSUME NEW s \in StatusWords
  PROVE  /\ Decoded(s) \in [exit : Nat, signal : Nat]
         /\ Decoded(s) = [exit |-> (s \div 256) % 256, signal |-> s % 128]
  <1>1. s \in Nat /\ s < 65536
    BY DEF StatusWords
  <1>2. s \div 256 \in Nat /\ s \div 256 < 256 /\ s % 128 \in Nat
    BY <1>1
  <1>3. (s \div 256) % 256 = s \div 256
    BY <1>2
  <1> QED
    BY <1>2, <1>3 DEF Decoded

(* echo $? shows the codes of a status word.                               *)
LEMMA CodesShown ==
  ASSUME NEW c \in [exit : Nat, signal : Nat]
  PROVE  <<Shown(c)>> \in Seq(Shows)
  <1>1. c.exit \in Nat /\ c.signal \in Nat
    OBVIOUS
  <1>2. Shown(c) \in Shows
    BY <1>1 DEF Shown, Shows
  <1> QED
    BY <1>2

(* echo shows a word.                                                      *)
LEMMA WordsShown ==
  ASSUME NEW c \in Seq(Words)
  PROVE  [m \in 1 .. Len(c) - 1 |-> <<"echo", c[m + 1]>>] \in Seq(Shows)
  <1> DEFINE s == [m \in 1 .. Len(c) - 1 |-> <<"echo", c[m + 1]>>]
  <1>1. Len(c) \in Nat
    BY LenProperties
  <1>2. ASSUME NEW m \in 1 .. Len(c) - 1 PROVE <<"echo", c[m + 1]>> \in Shows
    <2>1. m + 1 \in 1 .. Len(c)
      BY <1>1
    <2>2. c[m + 1] \in Words
      BY <2>1, ElementOfSeq
    <2> QED
      BY <2>2 DEF Shows
  <1>3. PICK n \in Nat : 1 .. n = 1 .. Len(c) - 1
    <2>1. IF Len(c) = 0 THEN 1 .. 0 = 1 .. Len(c) - 1 ELSE Len(c) - 1 \in Nat
      BY <1>1
    <2> QED
      BY <2>1
  <1>4. s \in [1 .. n -> Shows]
    BY <1>2, <1>3
  <1> HIDE DEF s
  <1>5. s \in Seq(Shows)
    BY <1>4
  <1> QED
    BY <1>5 DEF s

(* What a line shows depends on it and on its end alone.                   *)
LEMMA SeenSame ==
  ASSUME NEW t, NEW u, NEW e, NEW g, NEW n \in Nat,
         u[n] = t[n], g[n].wrote = e[n].wrote,
         \A m \in 1 .. n - 1 : g[m].status = e[m].status
  PROVE  SeenOf(u, g, n) = SeenOf(t, e, n)
  <1>1. StatusOf(g, n) = StatusOf(e, n)
    BY StatusSame
  <1> QED
    BY <1>1 DEF SeenOf

(* It is a sequence of what can be shown.                                  *)
LEMMA SeenType ==
  ASSUME ShellAssumption, NEW t \in Seq(Lines), NEW e \in Seq(EndType), Len(e) = Len(t),
         NEW n \in 1 .. Len(t)
  PROVE  SeenOf(t, e, n) \in Seq(Shows)
  <1>1. Len(t) \in Nat /\ n \in 1 .. Len(e) + 1 /\ n \in 1 .. Len(e)
    BY LenProperties
  <1>2. t[n] \in Lines /\ e[n] \in EndType
    BY <1>1, ElementOfSeq
  <1>3. CommandOf(t[n]) \in Seq(Words)
    BY <1>2, LineShape
  <1>4. e[n].wrote \in Seq(Shows) /\ <<>> \in Seq(Shows)
    BY <1>2 DEF EndType
  <1>5. <<Shown(Decoded(StatusOf(e, n)))>> \in Seq(Shows)
    BY <1>1, StatusType, DecodedType, CodesShown
  <1>6. [m \in 1 .. Len(CommandOf(t[n])) - 1 |-> <<"echo", CommandOf(t[n])[m + 1]>>] \in Seq(Shows)
    BY <1>3, WordsShown
  <1> QED
    BY <1>4, <1>5, <1>6, Zenon DEF SeenOf

(* So is what all lines show.                                              *)
LEMMA SeenSeqType ==
  ASSUME ShellAssumption, NEW t \in Seq(Lines), NEW e \in Seq(EndType), Len(e) = Len(t),
         NEW k \in 0 .. Len(t)
  PROVE  /\ SeenSeq(t, e, k) \in Seq(Seq(Shows)) /\ Len(SeenSeq(t, e, k)) = k
         /\ \A n \in 1 .. k : SeenSeq(t, e, k)[n] = SeenOf(t, e, n)
  <1> DEFINE s == SeenSeq(t, e, k)
  <1>1. Len(t) \in Nat /\ k \in Nat
    BY LenProperties
  <1>2. \A n \in 1 .. k : SeenOf(t, e, n) \in Seq(Shows)
    BY <1>1, SeenType
  <1>3. s = [n \in 1 .. k |-> SeenOf(t, e, n)]
    BY DEF SeenSeq
  <1>4. s \in [1 .. k -> Seq(Shows)] /\ \A n \in 1 .. k : s[n] = SeenOf(t, e, n)
    BY <1>2, <1>3
  <1> HIDE DEF s
  <1>5. s \in Seq(Seq(Shows)) /\ Len(s) = k
    BY <1>1, <1>4
  <1> QED
    BY <1>4, <1>5 DEF s

SeenAgree(t, e, u, g, n) == \A m \in 1 .. n : SeenOf(u, g, m) = SeenOf(t, e, m)

(* The last line shows more: what it shows is added at the end.            *)
LEMMA SeenMore ==
  ASSUME ShellAssumption,
         NEW t \in Seq(Lines), NEW e \in Seq(EndType), Len(e) = Len(t),
         NEW u \in Seq(Lines), NEW g \in Seq(EndType), Len(g) = Len(u),
         NEW n \in Nat, n <= Len(t), n + 1 <= Len(u),
         SeenAgree(t, e, u, g, n)
  PROVE  FlattenSeq(SeenSeq(u, g, n + 1)) = FlattenSeq(SeenSeq(t, e, n)) \o SeenOf(u, g, n + 1)
  <1> DEFINE F == SeenSeq(t, e, n)
             G == SeenSeq(u, g, n + 1)
  <1>1. Len(t) \in Nat /\ Len(u) \in Nat /\ n \in 0 .. Len(t) /\ n + 1 \in 0 .. Len(u)
    BY LenProperties
  <1>2. F \in Seq(Seq(Shows)) /\ Len(F) = n /\ \A m \in 1 .. n : F[m] = SeenOf(t, e, m)
    BY <1>1, SeenSeqType
  <1>3. /\ G \in Seq(Seq(Shows)) /\ Len(G) = n + 1
        /\ \A m \in 1 .. n + 1 : G[m] = SeenOf(u, g, m)
    BY <1>1, SeenSeqType
  <1>4. \A m \in 1 .. Len(F) : G[m] = F[m]
    BY <1>2, <1>3 DEF SeenAgree
  <1>5. G[n + 1] = SeenOf(u, g, n + 1)
    BY <1>3
  <1> HIDE DEF F, G
  <1>6. FlattenSeq(G) = FlattenSeq(F) \o G[Len(G)]
    BY <1>2, <1>3, <1>4, FlattenLast
  <1> QED
    BY <1>3, <1>5, <1>6 DEF F, G

(* Lines that show the same one by one show the same together.             *)
LEMMA SeenSeqSame ==
  ASSUME NEW t, NEW e, NEW u, NEW g, NEW n,
         SeenAgree(t, e, u, g, n)
  PROVE  SeenSeq(u, g, n) = SeenSeq(t, e, n)
  BY DEF SeenSeq, SeenAgree

-----------------------------------------------------------------------------
(* What the lines have written into a file.                                *)
LEMMA IntoSame ==
  ASSUME NEW t, NEW u, NEW e, NEW g, NEW n \in Nat, NEW d, NEW f,
         n # 0, Agree(u, t, n), g[n].opened = e[n].opened
  PROVE  IntoOf(u, g, n, d, f) <=> IntoOf(t, e, n, d, f)
  <1>1. u[n] = t[n] /\ \A m \in 1 .. n - 1 : u[m] = t[m]
    BY DEF Agree
  <1>2. DirOf(u, n) = DirOf(t, n)
    BY <1>1, DirSame
  <1> QED
    BY <1>1, <1>2 DEF IntoOf

(* The last truncation of a file is one of its openings.                   *)
LEMMA SinceType ==
  ASSUME NEW t, NEW e, NEW d, NEW f, Len(t) \in Nat
  PROVE  Since(t, e, d, f) \in 0 .. Len(t)
  <1> DEFINE R == {0} \cup {n \in IntoSet(t, e, d, f) : Redirection(t[n]).type = ">"}
  <1>1. R \subseteq 0 .. Len(t) /\ R # {}
    BY DEF IntoSet
  <1> HIDE DEF R
  <1>2. Max(R) \in R
    BY <1>1, MaxExists
  <1> QED
    BY <1>1, <1>2 DEF Since, R

(* What each line has left in a file.                                      *)
LEMMA FileSeqType ==
  ASSUME NEW t \in Seq(Lines), NEW e \in Seq(EndType), Len(e) = Len(t), NEW d, NEW f
  PROVE  /\ FileSeq(t, e, d, f) \in Seq(Seq(Shows)) /\ Len(FileSeq(t, e, d, f)) = Len(t)
         /\ \A n \in 1 .. Len(t) : FileSeq(t, e, d, f)[n] =
              IF n \in IntoSet(t, e, d, f) /\ n >= Since(t, e, d, f)
              THEN e[n].wrote ELSE <<>>
  <1> DEFINE s == FileSeq(t, e, d, f)
             Part(n) == IF n \in IntoSet(t, e, d, f) /\ n >= Since(t, e, d, f)
                        THEN e[n].wrote ELSE <<>>
  <1>1. Len(t) \in Nat
    BY LenProperties
  <1>2. ASSUME NEW n \in 1 .. Len(t) PROVE Part(n) \in Seq(Shows)
    <2>1. e[n] \in EndType
      BY ElementOfSeq
    <2>2. e[n].wrote \in Seq(Shows) /\ <<>> \in Seq(Shows)
      BY <2>1 DEF EndType
    <2> QED
      BY <2>2
  <1>3. s = [n \in 1 .. Len(t) |-> Part(n)]
    BY DEF FileSeq
  <1> HIDE DEF Part, s
  <1>4. s \in [1 .. Len(t) -> Seq(Shows)] /\ \A n \in 1 .. Len(t) : s[n] = Part(n)
    BY <1>2, <1>3
  <1>5. s \in Seq(Seq(Shows)) /\ Len(s) = Len(t)
    BY <1>1, <1>4
  <1> QED
    BY <1>4, <1>5 DEF s, Part

(* Neither what is opened nor what is written changes.                     *)
LEMMA FileSeqSame ==
  ASSUME NEW t \in Seq(Lines), NEW e, NEW g, NEW d, NEW f,
         \A n \in 1 .. Len(t) : g[n].opened = e[n].opened /\ g[n].wrote = e[n].wrote
  PROVE  FileSeq(t, g, d, f) = FileSeq(t, e, d, f)
  <1>1. \A n \in 1 .. Len(t) : IntoOf(t, g, n, d, f) <=> IntoOf(t, e, n, d, f)
    BY DEF IntoOf
  <1>2. IntoSet(t, g, d, f) = IntoSet(t, e, d, f)
    BY <1>1 DEF IntoSet
  <1>3. Since(t, g, d, f) = Since(t, e, d, f)
    BY <1>2 DEF Since
  <1> QED
    BY <1>2, <1>3 DEF FileSeq

(* A line is typed.                                                        *)
LEMMA FileTyped ==
  ASSUME NEW t \in Seq(Lines), NEW e \in Seq(EndType), Len(e) = Len(t), NEW d, NEW f,
         NEW line \in Lines
  PROVE  FlattenSeq(FileSeq(Append(t, line), Append(e, NoEnd), d, f)) =
           FlattenSeq(FileSeq(t, e, d, f))
  <1> DEFINE u == Append(t, line)
             g == Append(e, NoEnd)
             F == FileSeq(t, e, d, f)
             G == FileSeq(u, g, d, f)
             k == Len(t)
  <1>1. /\ k \in Nat /\ u \in Seq(Lines) /\ Len(u) = k + 1
        /\ \A n \in 1 .. k : u[n] = t[n]
    BY LenProperties, AppendProperties
  <1>2. NoEnd \in EndType
    BY DEF NoEnd, EndType
  <1>3. /\ g \in Seq(EndType) /\ Len(g) = k + 1 /\ g[k + 1] = NoEnd
        /\ \A n \in 1 .. k : g[n] = e[n]
    BY <1>1, <1>2, AppendProperties
  <1> HIDE DEF u, g
  <1>4. \A n \in 1 .. k : IntoOf(u, g, n, d, f) <=> IntoOf(t, e, n, d, f)
    <2>1. ASSUME NEW n \in 1 .. k PROVE IntoOf(u, g, n, d, f) <=> IntoOf(t, e, n, d, f)
      <3>1. n \in Nat /\ n # 0 /\ g[n].opened = e[n].opened /\ Agree(u, t, n)
        BY <1>1, <1>3 DEF Agree
      <3> QED
        BY <3>1, IntoSame, Zenon
    <2> QED
      BY <2>1
  <1>5. ~ IntoOf(u, g, k + 1, d, f)
    BY <1>3 DEF IntoOf, NoEnd
  <1>6. IntoSet(u, g, d, f) = IntoSet(t, e, d, f)
    <2>1. 1 .. k + 1 = 1 .. k \cup {k + 1}
      BY <1>1
    <2> QED
      BY <1>1, <1>4, <1>5, <2>1 DEF IntoSet
  <1>7. \A n \in IntoSet(t, e, d, f) : u[n] = t[n]
    BY <1>1 DEF IntoSet
  <1>8. Since(u, g, d, f) = Since(t, e, d, f)
    <2>1. {n \in IntoSet(u, g, d, f) : Redirection(u[n]).type = ">"} =
            {n \in IntoSet(t, e, d, f) : Redirection(t[n]).type = ">"}
      BY <1>6, <1>7
    <2> QED
      BY <2>1 DEF Since
  <1>9. F \in Seq(Seq(Shows)) /\ Len(F) = k /\ G \in Seq(Seq(Shows)) /\ Len(G) = k + 1
    BY <1>1, <1>3, FileSeqType
  <1>10. \A n \in 1 .. Len(u) : G[n] =
          IF n \in IntoSet(u, g, d, f) /\ n >= Since(u, g, d, f) THEN g[n].wrote ELSE <<>>
    BY <1>1, <1>3, FileSeqType
  <1>11. \A n \in 1 .. k : G[n] = F[n]
    <2>1. ASSUME NEW n \in 1 .. k PROVE G[n] = F[n]
      <3>1. n \in 1 .. k + 1 /\ g[n] = e[n]
        BY <1>1, <1>3
      <3>2. F[n] = IF n \in IntoSet(t, e, d, f) /\ n >= Since(t, e, d, f)
                   THEN e[n].wrote ELSE <<>>
        BY FileSeqType
      <3>3. G[n] = IF n \in IntoSet(u, g, d, f) /\ n >= Since(u, g, d, f)
                   THEN g[n].wrote ELSE <<>>
        BY <1>1, <1>10, <3>1
      <3> QED
        BY <1>6, <1>8, <3>1, <3>2, <3>3
    <2> QED
      BY <2>1
  <1>12. G[k + 1] = <<>>
    <2>1. k + 1 \in 1 .. k + 1 /\ k + 1 \notin IntoSet(u, g, d, f)
      BY <1>1, <1>5 DEF IntoSet
    <2> QED
      BY <1>1, <1>10, <2>1
  <1> HIDE DEF F, G
  <1>13. FlattenSeq(G) = FlattenSeq(F) \o G[Len(G)]
    BY <1>9, <1>11, FlattenLast
  <1>14. FlattenSeq(F) \o <<>> = FlattenSeq(F)
    <2>1. FlattenSeq(F) \in Seq(Shows)
      BY <1>9, FlattenType
    <2> QED
      BY <2>1, ConcatEmptySeq
  <1> QED
    BY <1>9, <1>12, <1>13, <1>14 DEF F, G, u, g

(* The file of the last line is opened.                                    *)
LEMMA FileOpened ==
  ASSUME NEW t \in Seq(Lines), NEW e \in Seq(EndType), Len(e) = Len(t),
         NEW g \in Seq(EndType), Len(g) = Len(t), NEW d, NEW f, NEW k \in Nat,
         k = Len(t), k # 0, ~ e[k].opened, e[k].wrote = <<>>, g[k].opened, g[k].wrote = <<>>,
         \A n \in 1 .. k - 1 : g[n] = e[n]
  PROVE  FlattenSeq(FileSeq(t, g, d, f)) =
           IF /\ Redirection(t[k]).type = ">" /\ Redirection(t[k]).file = f
              /\ DirOf(t, k) = d
           THEN <<>> ELSE FlattenSeq(FileSeq(t, e, d, f))
  <1> DEFINE r == Redirection(t[k])
             F == FileSeq(t, e, d, f)
             G == FileSeq(t, g, d, f)
             A == IntoSet(t, e, d, f)
             B == IntoSet(t, g, d, f)
             s == Since(t, e, d, f)
             z == Since(t, g, d, f)
             C == {n \in A : Redirection(t[n]).type = ">"}
             D == {n \in B : Redirection(t[n]).type = ">"}
  <1>1. s = Max({0} \cup C) /\ z = Max({0} \cup D)
    BY DEF Since
  <1>2. \A n \in 1 .. k : F[n] = IF n \in A /\ n >= s THEN e[n].wrote ELSE <<>>
    BY FileSeqType
  <1>3. \A n \in 1 .. k : G[n] = IF n \in B /\ n >= z THEN g[n].wrote ELSE <<>>
    BY FileSeqType
  <1>4. /\ F \in Seq(Seq(Shows)) /\ Len(F) = k /\ DOMAIN F = 1 .. k
        /\ G \in Seq(Seq(Shows)) /\ Len(G) = k /\ DOMAIN G = 1 .. k
    <2>1. /\ F \in Seq(Seq(Shows)) /\ Len(F) = k
          /\ G \in Seq(Seq(Shows)) /\ Len(G) = k
      BY FileSeqType
    <2> HIDE DEF F, G
    <2> QED
      BY <2>1, LenProperties
  <1>5. \A n \in 1 .. k - 1 : n \in B <=> n \in A
    <2>1. ASSUME NEW n \in 1 .. k - 1 PROVE IntoOf(t, g, n, d, f) <=> IntoOf(t, e, n, d, f)
      BY DEF IntoOf
    <2> QED
      BY <2>1 DEF IntoSet
  <1>6. k \notin A /\ A \subseteq 1 .. k /\ B \subseteq 1 .. k
    BY DEF IntoSet, IntoOf
  <1>7. k \in B <=> r.type \in {">", ">>"} /\ r.file = f /\ DirOf(t, k) = d
    BY DEF IntoSet, IntoOf
  <1> HIDE DEF F, G, A, B, s, z
  <1>8. CASE k \in B /\ r.type = ">"
    <2>1. k \in {0} \cup D /\ {0} \cup D \in SUBSET Int /\ \A n \in {0} \cup D : n <= k
      <3>1. k \in D
        BY <1>8
      <3>2. \A n \in D : n \in Nat /\ n <= k
        BY <1>6
      <3> HIDE DEF D
      <3>3. {0} \cup D \in SUBSET Int
        BY <3>2
      <3>4. \A n \in {0} \cup D : n <= k
        BY <3>2
      <3> QED
        BY <3>1, <3>3, <3>4
    <2> HIDE DEF D
    <2>2. z = k
      BY <1>1, <2>1, MaxIs
    <2>3. \A n \in 1 .. k : G[n] = <<>>
      BY <1>3, <2>2
    <2>4. FlattenSeq(G) = <<>>
      BY <1>4, <2>3, FlattenNothing
    <2> QED
      BY <1>7, <1>8, <2>4 DEF G
  <1>9. CASE ~ (k \in B /\ r.type = ">")
    <2>1. D = C
      <3>1. ASSUME NEW n PROVE n \in D <=> n \in C
        <4>1. n \in 1 .. k => n = k \/ n \in 1 .. k - 1
          OBVIOUS
        <4> QED
          BY <1>5, <1>6, <1>9, <4>1
      <3> QED
        BY <3>1
    <2>2. z = s
      BY <1>1, <2>1
    <2>3. \A n \in 1 .. k : G[n] = F[n]
      <3>1. ASSUME NEW n \in 1 .. k - 1 PROVE G[n] = F[n]
        <4>1. n \in 1 .. k /\ g[n] = e[n] /\ (n \in B <=> n \in A)
          BY <1>5
        <4> QED
          BY <1>2, <1>3, <2>2, <4>1
      <3>2. G[k] = F[k]
        BY <1>2, <1>3
      <3> QED
        BY <3>1, <3>2
    <2>4. G = F
      BY <1>4, <2>3
    <2> QED
      BY <1>7, <1>9, <2>4 DEF F, G
  <1> QED
    BY <1>8, <1>9

(* The program of the last line writes.                                    *)
LastWrites(t, e, g, k) ==
  /\ k = Len(t) /\ k # 0 /\ Len(e) = k /\ Len(g) = k
  /\ e[k].wrote = <<>> /\ g[k].opened = e[k].opened
  /\ \A n \in 1 .. k - 1 : g[n] = e[n]

(* What the last line writes goes to the end of its file.                  *)
LEMMA FileWritten ==
  ASSUME NEW t \in Seq(Lines), NEW e \in Seq(EndType), NEW g \in Seq(EndType), NEW k \in Nat,
         LastWrites(t, e, g, k), NEW d, NEW f
  PROVE  /\ IntoOf(t, e, k, d, f) =>
              FlattenSeq(FileSeq(t, g, d, f)) =
                Cat(FlattenSeq(FileSeq(t, e, d, f)), g[k].wrote)
         /\ ~ IntoOf(t, e, k, d, f) =>
              FlattenSeq(FileSeq(t, g, d, f)) = FlattenSeq(FileSeq(t, e, d, f))
  <1> USE DEF LastWrites
  <1> DEFINE F == FileSeq(t, e, d, f)
             G == FileSeq(t, g, d, f)
             A == IntoSet(t, e, d, f)
             s == Since(t, e, d, f)
  <1>1. IntoSet(t, g, d, f) = A
    <2>1. ASSUME NEW n \in 1 .. k PROVE IntoOf(t, g, n, d, f) <=> IntoOf(t, e, n, d, f)
      <3>1. g[n].opened = e[n].opened
        BY SMT
      <3> QED
        BY <3>1 DEF IntoOf
    <2> QED
      BY <2>1 DEF IntoSet
  <1>2. Since(t, g, d, f) = s
    BY <1>1 DEF Since
  <1>3. \A n \in 1 .. k : F[n] = IF n \in A /\ n >= s THEN e[n].wrote ELSE <<>>
    BY FileSeqType
  <1>4. \A n \in 1 .. k : G[n] = IF n \in A /\ n >= s THEN g[n].wrote ELSE <<>>
    BY <1>1, <1>2, FileSeqType
  <1>5. /\ F \in Seq(Seq(Shows)) /\ Len(F) = k
        /\ G \in Seq(Seq(Shows)) /\ Len(G) = k
    BY FileSeqType
  <1>6. s \in 0 .. k
    BY SinceType
  <1>7. k \in A <=> IntoOf(t, e, k, d, f)
    BY DEF IntoSet
  <1> HIDE DEF F, G, A, s
  <1>8. \A n \in 1 .. k - 1 : G[n] = F[n]
    <2>1. ASSUME NEW n \in 1 .. k - 1 PROVE G[n] = F[n]
      <3>1. n \in 1 .. k /\ g[n] = e[n]
        BY SMT
      <3> QED
        BY <1>3, <1>4, <3>1
    <2> QED
      BY <2>1
  <1>9. F[k] = <<>>
    BY <1>3
  <1>10. G[k] = IF IntoOf(t, e, k, d, f) THEN g[k].wrote ELSE <<>>
    <2>1. k \in 1 .. k /\ k >= s
      BY <1>6
    <2> QED
      BY <1>4, <1>7, <2>1
  <1>11. FlattenSeq(G) = FlattenSeq(F) \o G[k]
    BY <1>5, <1>8, <1>9, FlattenReplaced
  <1>12. FlattenSeq(F) \o <<>> = FlattenSeq(F)
    BY <1>5, FlattenType, ConcatEmptySeq
  <1> QED
    BY <1>10, <1>11, <1>12 DEF F, G, Cat

(* The last end is replaced.                                               *)
LEMMA EndReplaced ==
  ASSUME NEW e \in Seq(EndType), NEW n \in Nat, n = Len(e), n # 0, NEW x \in EndType,
         NEW g, g = [e EXCEPT ![n] = x]
  PROVE  /\ g \in Seq(EndType) /\ Len(g) = n /\ g[n] = x
         /\ \A m \in 1 .. n - 1 : g[m] = e[m]
  <1>1. n \in 1 .. Len(e) /\ DOMAIN e = 1 .. n
    BY LenProperties
  <1>2. g \in Seq(EndType) /\ Len(g) = n
    BY <1>1, ExceptSeq
  <1> QED
    BY <1>1, <1>2

-----------------------------------------------------------------------------
(* The steps.                                                              *)
LEMMA ShellInitInv == ShellAssumption /\ ShellInit => ShellInv
  <1> SUFFICES ASSUME ShellAssumption, ShellInit PROVE ShellInv
    OBVIOUS
  <1>1. <<>> \in Seq(Shows) /\ <<>> \in Seq(Lines) /\ <<>> \in Seq(EndType) /\ Len(<<>>) = 0
    OBVIOUS
  <1>2. NoKid \in KidType
    BY <1>1 DEF NoKid, KidType, Absent, FileType, StatusWords
  <1>3. ShellType
    <2>1. [exit |-> 0, signal |-> 0] \in [exit : Nat, signal : Nat]
      OBVIOUS
    <2>2. [d \in Dirs |-> [f \in FileNames |-> Absent]] \in [Dirs -> [FileNames -> FileType]]
      BY <1>1 DEF Absent, FileType
    <2> QED
      BY <1>1, <1>2, <2>1, <2>2 DEF ShellType, ShellInit, ShellAssumption
  <1>4. LastLine /\ ChildInv
    BY <1>1 DEF LastLine, ChildInv, ShellInit
  <1>5. PlaceInv
    <2>1. MovesOf(<<>>, 0) \in BOOLEAN /\ {m \in 1 .. 1 - 1 : MovesOf(<<>>, m)} = {}
          /\ WaitedOf(<<>>, 1) = {}
      BY DEF WaitedOf, MovesOf
    <2>2. DirOf(<<>>, 1) = HomeDir /\ StatusOf(<<>>, 1) = 0
      BY <2>1 DEF DirOf, StatusOf
    <2>3. Decoded(0) = [exit |-> 0, signal |-> 0]
      BY DEF Decoded
    <2> QED
      BY <1>1, <2>2, <2>3 DEF PlaceInv, ShellInit
  <1>6. FilesInv
    <2>1. ASSUME NEW d \in Dirs, NEW f \in FileNames
          PROVE  files[d][f].text = FlattenSeq(FileSeq(typed, ended, d, f))
      <3>1. FileSeq(<<>>, <<>>, d, f) = <<>>
        <4>1. PICK t \in Seq(Lines) : t = <<>>
          BY <1>1
        <4>2. PICK e \in Seq(EndType) : e = <<>>
          BY <1>1
        <4>3. Len(t) = 0 /\ Len(e) = Len(t)
          BY <4>1, <4>2
        <4>4. PICK s : s = FileSeq(t, e, d, f)
          OBVIOUS
        <4>5. s \in Seq(Seq(Shows)) /\ Len(s) = 0
          BY <4>3, <4>4, FileSeqType
        <4> QED
          BY <4>1, <4>2, <4>4, <4>5, EmptySeq
      <3>2. files[d][f].text = <<>>
        BY DEF ShellInit, Absent
      <3> QED
        BY <3>1, <3>2, FlattenEmpty DEF ShellInit
    <2> QED
      BY <2>1 DEF FilesInv
  <1>7. TerminalInv
    <2>1. SeenSeq(<<>>, <<>>, 0) = <<>>
      <3>1. PICK s : s = SeenSeq(<<>>, <<>>, 0)
        OBVIOUS
      <3>2. 0 \in 0 .. Len(<<>>)
        BY <1>1
      <3>3. s \in Seq(Seq(Shows)) /\ Len(s) = 0
        BY <1>1, <3>1, <3>2, SeenSeqType
      <3> QED
        BY <3>1, <3>3, EmptySeq
    <2>2. <<>> \o <<>> = <<>>
      OBVIOUS
    <2> QED
      BY <1>1, <2>1, <2>2, FlattenEmpty DEF TerminalInv, ShellInit
  <1> QED
    BY <1>3, <1>4, <1>5, <1>6, <1>7 DEF ShellInv

(* A line is read.                                                         *)
LEMMA ReadLineInv == ShellAssumption /\ ShellInv /\ ReadLine => ShellInv'
  <1> SUFFICES ASSUME ShellAssumption, ShellInv, ReadLine PROVE ShellInv'
    OBVIOUS
  <1> USE DEF ShellInv
  <1>1. PICK line \in Lines : /\ ReadWith(line, NoRedir)
                              /\ terminal' = terminal \o out /\ out' = <<>>
    BY DEF ReadLine
  <1>2. PICK n : n = Len(typed)
    OBVIOUS
  <1>3. /\ n \in Nat /\ typed \in Seq(Lines) /\ ended \in Seq(EndType) /\ Len(ended) = n
        /\ terminal \in Seq(Shows) /\ out \in Seq(Shows)
    BY <1>2, LenProperties DEF ShellType
  <1>4. NoEnd \in EndType /\ NoEnd.wrote = <<>> /\ NoEnd.status = -1
    BY DEF NoEnd, EndType
  <1>5. /\ typed' \in Seq(Lines) /\ Len(typed') = n + 1 /\ typed'[n + 1] = line
        /\ \A m \in 1 .. n : typed'[m] = typed[m]
    BY <1>1, <1>2, <1>3, AppendProperties DEF ReadWith
  <1>6. /\ ended' \in Seq(EndType) /\ Len(ended') = n + 1 /\ ended'[n + 1] = NoEnd
        /\ \A m \in 1 .. n : ended'[m] = ended[m]
    <2>1. PICK x \in EndType : x = NoEnd
      BY <1>4
    <2>2. ended' = Append(ended, x)
      BY <1>1, <2>1 DEF ReadWith
    <2> QED
      BY <1>3, <2>1, <2>2, AppendProperties
  <1>7. /\ at = "prompt" /\ at' = Kind(argv') /\ argv' = CommandOf(line)
        /\ redir' = Redirection(line)
        /\ UNCHANGED <<cwd, codes, kid, files>>
    BY <1>1, LineShape DEF ReadWith
  <1>8. at' \in {"crashed", "cd", "echo", "fork"}
    BY <1>7 DEF Kind
  <1>9. ShellType'
    <2>1. terminal \o out \in Seq(Shows) /\ <<>> \in Seq(Shows)
      BY <1>3, ConcatProperties
    <2> QED
      BY <1>1, <1>3, <1>5, <1>6, <1>7, <1>8, <2>1 DEF ShellType
  <1>10. LastLine'
    <2>1. n + 1 # 0
      BY <1>3
    <2> QED
      BY <1>1, <1>5, <1>6, <1>7, <1>8, <2>1 DEF LastLine
  <1>11. ChildInv'
    BY <1>7, <1>8 DEF ChildInv
  <1>12. PlaceInv'
    <2>1. cwd = DirOf(typed, n + 1) /\ codes = Decoded(StatusOf(ended, n + 1))
      BY <1>2, <1>7 DEF PlaceInv
    <2>2. \A m \in 1 .. n + 1 - 1 : typed'[m] = typed[m] /\ ended'[m].status = ended[m].status
      BY <1>3, <1>5, <1>6
    <2>3. DirOf(typed', n + 1) = DirOf(typed, n + 1)
      BY <1>3, <2>2, DirSame
    <2>4. StatusOf(ended', n + 1) = StatusOf(ended, n + 1)
      BY <1>3, <2>2, StatusSame
    <2> QED
      BY <1>5, <1>7, <1>8, <2>1, <2>3, <2>4 DEF PlaceInv
  <1>13. FilesInv'
    <2>1. ASSUME NEW d \in Dirs, NEW f \in FileNames
          PROVE  files'[d][f].text = FlattenSeq(FileSeq(typed', ended', d, f))
      <3>1. files[d][f].text = FlattenSeq(FileSeq(typed, ended, d, f))
        BY DEF FilesInv
      <3>2. typed' = Append(typed, line) /\ ended' = Append(ended, NoEnd)
        BY <1>1 DEF ReadWith
      <3>3. FlattenSeq(FileSeq(typed', ended', d, f)) = FlattenSeq(FileSeq(typed, ended, d, f))
        BY <1>2, <1>3, <3>2, FileTyped
      <3> QED
        BY <1>7, <3>1, <3>3
    <2> QED
      BY <2>1 DEF FilesInv
  <1>14. TerminalInv'
    <2>1. terminal \o out = FlattenSeq(SeenSeq(typed, ended, n))
      BY <1>2, <1>7 DEF TerminalInv
    <2>2. SeenAgree(typed, ended, typed', ended', n)
      <3>1. ASSUME NEW m \in 1 .. n PROVE SeenOf(typed', ended', m) = SeenOf(typed, ended, m)
        <4>1. /\ m \in Nat /\ typed'[m] = typed[m] /\ ended'[m].wrote = ended[m].wrote
              /\ \A k \in 1 .. m - 1 : ended'[k].status = ended[k].status
          BY <1>3, <1>5, <1>6
        <4> QED
          BY <4>1, SeenSame
      <3> QED
        BY <3>1 DEF SeenAgree
    <2>3. terminal' \o out' = terminal \o out
      <3>1. terminal \o out \in Seq(Shows)
        BY <1>3, ConcatProperties
      <3> QED
        BY <1>1, <3>1, ConcatEmptySeq
    <2>4. CASE at' = "echo"
      <3>1. SeenSeq(typed', ended', n) = SeenSeq(typed, ended, n)
        BY <2>2, SeenSeqSame
      <3>2. Len(typed') - 1 = n
        BY <1>3, <1>5
      <3> QED
        BY <2>1, <2>3, <2>4, <3>1, <3>2 DEF TerminalInv
    <2>5. CASE at' # "echo"
      <3>1. SeenOf(typed', ended', n + 1) = <<>>
        BY <1>4, <1>5, <1>6, <1>7, <2>5 DEF SeenOf, Kind
      <3>2. FlattenSeq(SeenSeq(typed', ended', n + 1)) =
              FlattenSeq(SeenSeq(typed, ended, n)) \o SeenOf(typed', ended', n + 1)
        <4>1. n <= Len(typed) /\ n + 1 <= Len(typed')
              /\ Len(ended) = Len(typed) /\ Len(ended') = Len(typed')
          BY <1>2, <1>3, <1>5, <1>6
        <4>2. /\ typed \in Seq(Lines) /\ typed' \in Seq(Lines)
              /\ ended \in Seq(EndType) /\ ended' \in Seq(EndType)
          BY <1>3, <1>5, <1>6
        <4> HIDE DEF ShellInv
        <4> QED
          BY <1>3, <2>2, <4>1, <4>2, SeenMore
      <3>3. terminal \o out \in Seq(Shows)
        BY <1>3, ConcatProperties
      <3>4. FlattenSeq(SeenSeq(typed', ended', n + 1)) = terminal \o out
        BY <2>1, <3>1, <3>2, <3>3, ConcatEmptySeq
      <3> QED
        BY <1>5, <2>3, <2>5, <3>4 DEF TerminalInv
    <2> QED
      BY <2>4, <2>5
  <1> QED
    BY <1>9, <1>10, <1>11, <1>12, <1>13, <1>14

(* The session ends.                                                       *)
LEMMA EndOfInputInv == ShellInv /\ EndOfInput => ShellInv'
  <1> SUFFICES ASSUME ShellInv, EndOfInput PROVE ShellInv'
    OBVIOUS
  <1>1. terminal \o out \in Seq(Shows) /\ <<>> \in Seq(Shows)
    BY ConcatProperties DEF ShellInv, ShellType
  <1>2. terminal' \o out' = terminal \o out
    BY <1>1, ConcatEmptySeq DEF EndOfInput
  <1>3. ShellType'
    BY <1>1 DEF ShellInv, ShellType, EndOfInput
  <1>4. LastLine' /\ ChildInv' /\ PlaceInv'
    BY DEF ShellInv, LastLine, ChildInv, PlaceInv, EndOfInput
  <1>5. FilesInv' /\ TerminalInv'
    BY <1>2 DEF ShellInv, FilesInv, TerminalInv, EndOfInput
  <1> QED
    BY <1>3, <1>4, <1>5 DEF ShellInv

(* The last line is that of the variables.                                 *)
LEMMA ShellAt ==
  ASSUME ShellAssumption, ShellInv, at \in {"cd", "echo", "fork", "wait"}
  PROVE  \E n \in Nat \ {0} :
           /\ n = Len(typed) /\ typed[n] \in Lines /\ ended[n] \in EndType
           /\ n \in 1 .. Len(typed)
           /\ typed \in Seq(Lines) /\ ended \in Seq(EndType) /\ Len(ended) = n
           /\ argv = CommandOf(typed[n]) /\ redir = Redirection(typed[n])
           /\ argv \in Seq(Words) /\ argv # <<>> /\ out = <<>>
           /\ redir.type # "none" => redir.file \in FileNames
           /\ cwd = DirOf(typed, n) /\ codes = Decoded(StatusOf(ended, n))
           /\ ended[n].status = -1
  <1>1. PICK n : n = Len(typed)
    OBVIOUS
  <1>2. n \in Nat /\ n # 0
    BY <1>1, LenProperties DEF ShellInv, ShellType, LastLine
  <1>3. /\ typed \in Seq(Lines) /\ ended \in Seq(EndType) /\ Len(ended) = n
        /\ n \in 1 .. Len(typed) /\ n \in 1 .. Len(ended)
    BY <1>1, <1>2 DEF ShellInv, ShellType
  <1>4. typed[n] \in Lines /\ ended[n] \in EndType
    BY <1>3, ElementOfSeq
  <1>5. /\ argv = CommandOf(typed[n]) /\ redir = Redirection(typed[n])
        /\ argv \in Seq(Words) /\ argv # <<>> /\ out = <<>>
        /\ redir.type # "none" => redir.file \in FileNames
    <2>1. argv = CommandOf(typed[n]) /\ redir = Redirection(typed[n]) /\ out = <<>>
      BY <1>1, <1>2 DEF ShellInv, LastLine
    <2>2. Kind(argv) # "crashed"
      BY DEF ShellInv, LastLine
    <2> QED
      BY <1>4, <2>1, <2>2, LineShape DEF Kind
  <1>6. cwd = DirOf(typed, n) /\ codes = Decoded(StatusOf(ended, n))
    BY <1>1 DEF ShellInv, PlaceInv
  <1>7. ended[n].status = -1
    BY <1>1, <1>3 DEF ShellInv, LastLine, ChildInv, NoEnd
  <1> QED
    BY <1>1, <1>2, <1>3, <1>4, <1>5, <1>6, <1>7

(* cd moves the shell, or fails and leaves it.                             *)
LEMMA CdInv == ShellAssumption /\ ShellInv /\ Cd => ShellInv'
  <1> SUFFICES ASSUME ShellAssumption, ShellInv, Cd PROVE ShellInv'
    OBVIOUS
  <1>1. PICK n \in Nat \ {0} :
           /\ n = Len(typed) /\ argv = CommandOf(typed[n]) /\ argv # <<>>
           /\ cwd = DirOf(typed, n) /\ codes = Decoded(StatusOf(ended, n))
           /\ ended[n].status = -1
    BY ShellAt DEF Cd
  <1>2. argv[1] = "cd"
    BY <1>1 DEF ShellInv, LastLine, Cd, Kind
  <1>3. ShellType'
    BY DEF ShellInv, ShellType, Cd
  <1>4. LastLine' /\ ChildInv'
    BY DEF ShellInv, LastLine, ChildInv, Cd
  <1>5. PlaceInv'
    <2>1. DirOf(typed, n + 1) = IF MovesOf(typed, n) THEN argv[2] ELSE cwd
      BY <1>1, DirNext
    <2>2. MovesOf(typed, n) <=> Len(argv) > 1 /\ argv[2] \in Dirs
      BY <1>1, <1>2 DEF MovesOf
    <2>3. StatusOf(ended, n + 1) = StatusOf(ended, n)
      BY <1>1, StatusNext
    <2>4. cwd' = DirOf(typed, n + 1)
      BY <2>1, <2>2 DEF Cd
    <2> QED
      BY <1>1, <2>3, <2>4 DEF PlaceInv, Cd
  <1>6. FilesInv' /\ TerminalInv'
    BY DEF ShellInv, FilesInv, TerminalInv, Cd
  <1> QED
    BY <1>3, <1>4, <1>5, <1>6 DEF ShellInv

(* echo is the shell's own.                                                *)
LEMMA EchoInv == ShellAssumption /\ ShellInv /\ Echo => ShellInv'
  <1> SUFFICES ASSUME ShellAssumption, ShellInv, Echo PROVE ShellInv'
    OBVIOUS
  <1> DEFINE X == IF Len(argv) > 1 /\ argv[2] = "$?" THEN <<Shown(codes)>>
                  ELSE [m \in 1 .. Len(argv) - 1 |-> <<"echo", argv[m + 1]>>]
  <1>1. PICK n \in Nat \ {0} :
           /\ n = Len(typed) /\ argv = CommandOf(typed[n]) /\ argv # <<>>
           /\ n \in 1 .. Len(typed)
           /\ argv \in Seq(Words) /\ typed \in Seq(Lines) /\ ended \in Seq(EndType)
           /\ Len(ended) = n
           /\ cwd = DirOf(typed, n) /\ codes = Decoded(StatusOf(ended, n))
           /\ ended[n].status = -1
    BY ShellAt DEF Echo
  <1>2. argv[1] = "echo"
    BY <1>1 DEF ShellInv, LastLine, Echo, Kind
  <1>3. X = SeenOf(typed, ended, n)
    BY <1>1, <1>2 DEF SeenOf
  <1>4. X \in Seq(Shows)
    BY <1>1, <1>3, SeenType
  <1>5. out' = out \o X /\ terminal' = terminal
    BY DEF Echo
  <1> HIDE DEF X
  <1>6. terminal \in Seq(Shows) /\ out \in Seq(Shows)
    BY DEF ShellInv, ShellType
  <1>7. ShellType'
    <2>1. out' \in Seq(Shows)
      BY <1>4, <1>5, <1>6, ConcatProperties
    <2> QED
      BY <2>1 DEF ShellInv, ShellType, Echo
  <1>8. LastLine' /\ ChildInv'
    BY DEF ShellInv, LastLine, ChildInv, Echo
  <1>9. PlaceInv'
    <2>1. ~ MovesOf(typed, n)
      BY <1>1, <1>2 DEF MovesOf
    <2>2. DirOf(typed, n + 1) = cwd
      BY <1>1, <2>1, DirNext
    <2>3. StatusOf(ended, n + 1) = StatusOf(ended, n)
      BY <1>1, StatusNext
    <2> QED
      BY <1>1, <2>2, <2>3 DEF PlaceInv, Echo
  <1>10. FilesInv'
    BY DEF ShellInv, FilesInv, Echo
  <1>11. TerminalInv'
    <2>1. PICK k \in Nat : k = n - 1
      BY <1>1
    <2>2. terminal \o out = FlattenSeq(SeenSeq(typed, ended, k))
      BY <1>1, <2>1 DEF ShellInv, TerminalInv, Echo
    <2>3. SeenAgree(typed, ended, typed, ended, k)
      BY DEF SeenAgree
    <2>4. k <= Len(typed) /\ k + 1 <= Len(typed) /\ Len(ended) = Len(typed) /\ k + 1 = n
      BY <1>1, <2>1
    <2>5. FlattenSeq(SeenSeq(typed, ended, k + 1)) =
            FlattenSeq(SeenSeq(typed, ended, k)) \o SeenOf(typed, ended, k + 1)
      BY <1>1, <2>3, <2>4, SeenMore
    <2>6. terminal \o (out \o X) = (terminal \o out) \o X
      BY <1>4, <1>6, ConcatAssociative
    <2>7. terminal \o out' = FlattenSeq(SeenSeq(typed, ended, n))
      BY <1>3, <1>5, <2>2, <2>4, <2>5, <2>6
    <2> QED
      BY <1>1, <1>5, <2>7 DEF TerminalInv, Echo
  <1> QED
    BY <1>7, <1>8, <1>9, <1>10, <1>11 DEF ShellInv

(* The child begins with the shell's directory and nothing written.        *)
LEMMA ForkChildInv == ShellAssumption /\ ShellInv /\ ForkChild => ShellInv'
  <1> SUFFICES ASSUME ShellAssumption, ShellInv, ForkChild PROVE ShellInv'
    OBVIOUS
  <1>1. out = <<>> /\ ended[Len(typed)] = NoEnd
    BY DEF ShellInv, LastLine, ForkChild
  <1>2. kid' = [at |-> "redirect", out |-> <<>>, fd0 |-> Absent, fd1 |-> "terminal",
                status |-> 0]
    BY <1>1 DEF ForkChild, NoKid
  <1>3. kid' \in KidType
    BY <1>2 DEF KidType, FileType, Absent, StatusWords
  <1>4. ShellType'
    BY <1>3 DEF ShellInv, ShellType, ForkChild
  <1>5. LastLine'
    BY DEF ShellInv, LastLine, ForkChild
  <1>6. ChildInv'
    <2>1. NoEnd.status = -1
      BY DEF NoEnd
    <2>2. kid'.at = "redirect" /\ kid'.out = <<>> /\ kid'.fd1 = "terminal"
      BY <1>2
    <2>3. at' = "wait" /\ ended' = ended /\ typed' = typed
      BY DEF ForkChild
    <2> QED
      BY <1>1, <2>1, <2>2, <2>3 DEF ChildInv
  <1>7. PlaceInv' /\ FilesInv' /\ TerminalInv'
    BY DEF ShellInv, PlaceInv, FilesInv, TerminalInv, ForkChild
  <1> QED
    BY <1>4, <1>5, <1>6, <1>7 DEF ShellInv

(* A failed fork leaves the line without an end.                           *)
LEMMA ForkFailsInv == ShellInv /\ ForkFails => ShellInv'
  <1> SUFFICES ASSUME ShellInv, ForkFails PROVE ShellInv'
    OBVIOUS
  <1>1. ShellType' /\ LastLine' /\ ChildInv' /\ PlaceInv'
    BY DEF ShellInv, ShellType, LastLine, ChildInv, PlaceInv, ForkFails
  <1>2. FilesInv' /\ TerminalInv'
    BY DEF ShellInv, FilesInv, TerminalInv, ForkFails
  <1> QED
    BY <1>1, <1>2 DEF ShellInv

(* The shell learns the status of the child of its last line.              *)
LEMMA WaitChildInv == ShellAssumption /\ ShellInv /\ WaitChild => ShellInv'
  <1> SUFFICES ASSUME ShellAssumption, ShellInv, WaitChild PROVE ShellInv'
    OBVIOUS
  <1>1. PICK n \in Nat \ {0} :
           /\ n = Len(typed) /\ argv = CommandOf(typed[n]) /\ argv # <<>> /\ out = <<>>
           /\ n \in 1 .. Len(typed) /\ ended[n] \in EndType
           /\ typed \in Seq(Lines) /\ ended \in Seq(EndType) /\ Len(ended) = n
           /\ cwd = DirOf(typed, n)
    BY ShellAt DEF WaitChild
  <1>2. kid.status \in StatusWords
    BY DEF ShellInv, ShellType, KidType
  <1>3. /\ codes' = Decoded(kid.status) /\ codes' \in [exit : Nat, signal : Nat]
        /\ at' = "prompt" /\ kid' = NoKid
        /\ UNCHANGED <<typed, argv, redir, cwd, out, files, terminal>>
    BY <1>2, DecodedType DEF WaitChild
  <1>4. /\ ended' \in Seq(EndType) /\ Len(ended') = n /\ ended'[n].status = kid.status
        /\ ended'[n].wrote = ended[n].wrote /\ ended'[n].opened = ended[n].opened
        /\ \A m \in 1 .. n - 1 : ended'[m] = ended[m]
    <2>1. PICK x : x = [ended[n] EXCEPT !.status = kid.status]
      OBVIOUS
    <2>2. /\ x \in EndType /\ x.status = kid.status
          /\ x.wrote = ended[n].wrote /\ x.opened = ended[n].opened
      BY <1>1, <1>2, <2>1 DEF EndType
    <2>3. ended' = [ended EXCEPT ![n] = x]
      BY <1>1, <2>1 DEF WaitChild
    <2>4. /\ ended' \in Seq(EndType) /\ Len(ended') = n /\ ended'[n] = x
          /\ \A m \in 1 .. n - 1 : ended'[m] = ended[m]
      BY <1>1, <2>2, <2>3, EndReplaced
    <2> QED
      BY <2>2, <2>4
  <1>5. ShellType'
    <2>1. NoKid \in KidType
      BY DEF NoKid, KidType, Absent, FileType, StatusWords
    <2> QED
      BY <1>1, <1>3, <1>4, <2>1 DEF ShellInv, ShellType
  <1>6. LastLine' /\ ChildInv'
    BY <1>3 DEF ShellInv, LastLine, ChildInv, WaitChild
  <1>7. PlaceInv'
    <2>1. ~ MovesOf(typed, n)
      <3>1. Kind(argv) = "fork"
        BY DEF ShellInv, LastLine, WaitChild
      <3>2. argv[1] # "cd"
        BY <1>1, <3>1 DEF Kind
      <3> QED
        BY <1>1, <3>2 DEF MovesOf
    <2>2. DirOf(typed, n + 1) = cwd
      BY <1>1, <2>1, DirNext
    <2>3. ended'[n].status # -1
      BY <1>2, <1>4 DEF StatusWords
    <2>4. StatusOf(ended', n + 1) = kid.status
      BY <1>4, <2>3, StatusNext
    <2> QED
      BY <1>1, <1>3, <2>2, <2>4 DEF PlaceInv
  <1>8. FilesInv'
    <2>1. ASSUME NEW m \in 1 .. n
          PROVE  ended'[m].opened = ended[m].opened /\ ended'[m].wrote = ended[m].wrote
      BY <1>4
    <2>2. ASSUME NEW d \in Dirs, NEW f \in FileNames
          PROVE  FileSeq(typed, ended', d, f) = FileSeq(typed, ended, d, f)
      BY <1>1, <2>1, FileSeqSame
    <2> QED
      BY <1>3, <2>2 DEF ShellInv, FilesInv
  <1>9. TerminalInv'
    <2>1. SeenAgree(typed, ended, typed, ended', n)
      <3>1. ASSUME NEW m \in 1 .. n PROVE SeenOf(typed, ended', m) = SeenOf(typed, ended, m)
        <4>1. /\ m \in Nat /\ ended'[m].wrote = ended[m].wrote
              /\ \A k \in 1 .. m - 1 : ended'[k].status = ended[k].status
          BY <1>4
        <4> QED
          BY <4>1, SeenSame
      <3> QED
        BY <3>1 DEF SeenAgree
    <2>2. SeenSeq(typed, ended', n) = SeenSeq(typed, ended, n)
      BY <2>1, SeenSeqSame
    <2> QED
      BY <1>1, <1>3, <2>2 DEF ShellInv, TerminalInv, WaitChild
  <1> QED
    BY <1>5, <1>6, <1>7, <1>8, <1>9 DEF ShellInv

(* What the shell waits for.                                               *)
LEMMA ChildAt ==
  ASSUME ShellAssumption, ShellInv, kid.at # "none"
  PROVE  at = "wait"
  BY DEF ShellInv, ChildInv, NoKid

(* A step of the child leaves the shell where it is: the lines, the place  *)
(* and the earlier ends.                                                   *)
LEMMA ChildStepPlace ==
  ASSUME ShellInv, at = "wait", UNCHANGED <<at, typed, argv, redir, cwd, codes, out>>,
         NEW n \in Nat, n = Len(typed), ended' \in Seq(EndType),
         \A m \in 1 .. n - 1 : ended'[m] = ended[m]
  PROVE  LastLine' /\ PlaceInv'
  <1>1. LastLine'
    BY DEF ShellInv, LastLine
  <1>2. PlaceInv'
    <2>1. \A m \in 1 .. n - 1 : ended'[m].status = ended[m].status
      OBVIOUS
    <2>2. StatusOf(ended', n) = StatusOf(ended, n)
      BY <2>1, StatusSame
    <2> QED
      BY <2>2 DEF ShellInv, PlaceInv
  <1> QED
    BY <1>1, <1>2

(* The content of a file changes.                                          *)
LEMMA FileChanged ==
  ASSUME NEW h \in [Dirs -> [FileNames -> FileType]], NEW c \in Dirs, NEW r \in FileNames,
         NEW x \in FileType, NEW g, g = [h EXCEPT ![c] = [h[c] EXCEPT ![r] = x]]
  PROVE  /\ g \in [Dirs -> [FileNames -> FileType]]
         /\ \A d \in Dirs, f \in FileNames :
              g[d][f] = IF d = c /\ f = r THEN x ELSE h[d][f]
  <1>1. [h[c] EXCEPT ![r] = x] \in [FileNames -> FileType]
    OBVIOUS
  <1> QED
    BY <1>1

(* What the child writes goes to the terminal, or behind the file's text.  *)
LEMMA WriteOutEffect ==
  ASSUME ShellAssumption, ShellInv, at = "wait", kid.at \in {"exec", "run"} \/ kid.fd1 = "terminal",
         NEW x \in Seq(Shows), WriteOut(x)
  PROVE  /\ kid.fd1 = "terminal" => files' = files /\ terminal' = terminal \o x
         /\ kid.fd1 # "terminal" =>
              /\ terminal' = terminal /\ files' \in [Dirs -> [FileNames -> FileType]]
              /\ \A d \in Dirs, f \in FileNames :
                   files'[d][f].text = IF d = cwd /\ f = redir.file
                                       THEN Cat(files[d][f].text, x) ELSE files[d][f].text
  <1>1. kid.fd1 = "terminal" => files' = files /\ terminal' = terminal \o x
    BY DEF WriteOut
  <1>2. ASSUME kid.fd1 # "terminal"
        PROVE  /\ terminal' = terminal /\ files' \in [Dirs -> [FileNames -> FileType]]
               /\ \A d \in Dirs, f \in FileNames :
                    files'[d][f].text = IF d = cwd /\ f = redir.file
                                        THEN Cat(files[d][f].text, x) ELSE files[d][f].text
    <2>1. kid.fd1 = "file" /\ kid.at \in {"exec", "run"}
      BY <1>2 DEF ShellInv, ShellType, KidType
    <2>2. redir.type # "none"
      BY <2>1 DEF ShellInv, ChildInv
    <2>3. cwd \in Dirs /\ redir.file \in FileNames /\ files \in [Dirs -> [FileNames -> FileType]]
      BY <2>2, ShellAt DEF ShellInv, ShellType
    <2>4. PICK old : old = files[cwd][redir.file]
      OBVIOUS
    <2>5. old \in FileType
      BY <2>3, <2>4
    <2>6. PICK new : new = [old EXCEPT !.text = @ \o x]
      OBVIOUS
    <2>7. new \in FileType /\ new.text = old.text \o x
      <3>1. old.text \in Seq(Shows)
        BY <2>5 DEF FileType
      <3>2. PICK y \in Seq(Shows) : y = old.text \o x
        BY <3>1, ConcatProperties
      <3> QED
        BY <2>5, <2>6, <3>2 DEF FileType
    <2>8. terminal' = terminal /\ files' = [files EXCEPT ![cwd][redir.file].text = @ \o x]
      BY <1>2 DEF WriteOut
    <2>9. files' = [files EXCEPT ![cwd] = [files[cwd] EXCEPT ![redir.file] = new]]
      BY <2>4, <2>6, <2>8
    <2>10. /\ files' \in [Dirs -> [FileNames -> FileType]]
           /\ \A d \in Dirs, f \in FileNames :
                files'[d][f] = IF d = cwd /\ f = redir.file THEN new ELSE files[d][f]
      BY <2>3, <2>7, <2>9, FileChanged
    <2>11. new.text = Cat(old.text, x)
      BY <2>7 DEF Cat
    <2> QED
      BY <2>4, <2>8, <2>10, <2>11
  <1> QED
    BY <1>1, <1>2

(* A step of the child that writes nothing, as the terminal sees it.       *)
LEMMA ChildStepTerminal ==
  ASSUME ShellInv, at = "wait", UNCHANGED <<at, typed, out, terminal>>,
         NEW n \in Nat, n = Len(typed), ended' \in Seq(EndType),
         \A m \in 1 .. n - 1 : ended'[m] = ended[m], ended'[n].wrote = ended[n].wrote
  PROVE  TerminalInv'
  <1>1. ASSUME NEW m \in 1 .. n PROVE SeenOf(typed, ended', m) = SeenOf(typed, ended, m)
    <2>1. /\ m \in Nat /\ ended'[m].wrote = ended[m].wrote
          /\ \A k \in 1 .. m - 1 : ended'[k].status = ended[k].status
      BY SMT
    <2> QED
      BY <2>1, SeenSame
  <1>2. SeenAgree(typed, ended, typed, ended', n)
    BY <1>1 DEF SeenAgree
  <1>3. SeenSeq(typed, ended', n) = SeenSeq(typed, ended, n)
    BY <1>2, SeenSeqSame
  <1> QED
    BY <1>3 DEF ShellInv, TerminalInv

(* The child exits: it has nothing to write.                               *)
LEMMA ExitInv ==
  ASSUME ShellAssumption, ShellInv, NEW c \in {1, 2}, Exit(c),
         kid.at = "redirect" \/ kid.at = "exec"
  PROVE  ShellInv'
  <1>1. at = "wait" /\ kid.out = <<>> /\ (kid.at = "redirect" => kid.fd1 = "terminal")
    BY ChildAt DEF ShellInv, ChildInv
  <1>2. UNCHANGED <<at, typed, argv, redir, cwd, codes, out, ended>> /\ WriteOut(kid.out)
    BY DEF Exit
  <1>3. <<>> \in Seq(Shows) /\ WriteOut(<<>>)
    BY <1>1, <1>2
  <1>4. /\ kid.fd1 = "terminal" => files' = files /\ terminal' = terminal \o <<>>
        /\ kid.fd1 # "terminal" =>
             /\ terminal' = terminal /\ files' \in [Dirs -> [FileNames -> FileType]]
             /\ \A d \in Dirs, f \in FileNames :
                  files'[d][f].text = IF d = cwd /\ f = redir.file
                                      THEN Cat(files[d][f].text, <<>>) ELSE files[d][f].text
    BY <1>1, <1>3, WriteOutEffect
  <1>5. terminal' = terminal
    BY <1>4, ConcatEmptySeq DEF ShellInv, ShellType
  <1>6. files \in [Dirs -> [FileNames -> FileType]]
    BY DEF ShellInv, ShellType
  <1>7. /\ files' \in [Dirs -> [FileNames -> FileType]]
        /\ \A d \in Dirs, f \in FileNames : files'[d][f].text = files[d][f].text
    <2>1. ASSUME kid.fd1 # "terminal", NEW d \in Dirs, NEW f \in FileNames
          PROVE  files'[d][f].text = files[d][f].text
      <3>1. files[d][f].text \in Seq(Shows)
        BY <1>6 DEF FileType
      <3>2. Cat(files[d][f].text, <<>>) = files[d][f].text
        BY <3>1, CatEmpty
      <3> QED
        BY <1>4, <2>1, <3>2
    <2> QED
      BY <1>4, <1>6, <2>1
  <1>8. kid' = [kid EXCEPT !.at = "zombie", !.status = c * 256]
    BY DEF Exit
  <1>9. kid' \in KidType /\ kid'.at = "zombie" /\ kid'.out = kid.out
    <2>1. kid \in KidType /\ c * 256 \in StatusWords
      BY DEF ShellInv, ShellType, StatusWords
    <2> QED
      BY <1>8, <2>1 DEF KidType
  <1>10. ShellType'
    BY <1>2, <1>5, <1>7, <1>9 DEF ShellInv, ShellType
  <1>11. PICK n \in Nat : n = Len(typed) /\ ended \in Seq(EndType)
    BY LenProperties DEF ShellInv, ShellType
  <1>12. LastLine' /\ PlaceInv'
    BY <1>1, <1>2, <1>11, ChildStepPlace
  <1>13. ChildInv'
    BY <1>1, <1>2, <1>9 DEF ShellInv, ChildInv
  <1>14. FilesInv'
    BY <1>2, <1>7 DEF ShellInv, FilesInv
  <1>15. TerminalInv'
    BY <1>1, <1>2, <1>5, <1>11, ChildStepTerminal
  <1> QED
    BY <1>10, <1>12, <1>13, <1>14, <1>15 DEF ShellInv

(* A file that cannot be opened ends the child.                            *)
LEMMA OpenFailsInv == ShellAssumption /\ ShellInv /\ OpenFails => ShellInv'
  BY ExitInv DEF OpenFails

(* A program that is not there ends the child.                             *)
LEMMA ExecFailsInv == ShellAssumption /\ ShellInv /\ ExecFails => ShellInv'
  BY ExitInv DEF ExecFails

(* The program takes the place of the child.                               *)
LEMMA ExecInv == ShellAssumption /\ ShellInv /\ Exec => ShellInv'
  <1> SUFFICES ASSUME ShellAssumption, ShellInv, Exec PROVE ShellInv'
    OBVIOUS
  <1>1. at = "wait" /\ UNCHANGED <<at, typed, argv, redir, cwd, codes, out, files, terminal, ended>>
    BY ChildAt DEF Exec
  <1>2. kid' = [kid EXCEPT !.at = "run", !.out = <<>>] /\ kid.at = "exec"
    BY DEF Exec
  <1>3. kid' \in KidType /\ kid'.at = "run" /\ kid'.out = <<>> /\ kid'.fd1 = kid.fd1
    <2>1. kid \in KidType /\ <<>> \in Seq(Shows)
      BY DEF ShellInv, ShellType
    <2> QED
      BY <1>2, <2>1 DEF KidType
  <1>4. ShellType'
    BY <1>1, <1>3 DEF ShellInv, ShellType
  <1>5. LastLine' /\ PlaceInv' /\ FilesInv' /\ TerminalInv'
    BY <1>1 DEF ShellInv, LastLine, PlaceInv, FilesInv, TerminalInv
  <1>6. ChildInv'
    BY <1>1, <1>2, <1>3 DEF ShellInv, ChildInv
  <1> QED
    BY <1>4, <1>5, <1>6 DEF ShellInv

(* The program ends with a status word.                                    *)
LEMMA ProgramEndsInv == ShellAssumption /\ ShellInv /\ ProgramEnds => ShellInv'
  <1> SUFFICES ASSUME ShellAssumption, ShellInv, ProgramEnds PROVE ShellInv'
    OBVIOUS
  <1>1. at = "wait" /\ UNCHANGED <<at, typed, argv, redir, cwd, codes, out, files, terminal, ended>>
    BY ChildAt DEF ProgramEnds
  <1>2. PICK s \in Statuses : kid' = [kid EXCEPT !.at = "zombie", !.status = s]
    BY DEF ProgramEnds
  <1>3. kid' \in KidType /\ kid'.at = "zombie" /\ kid'.out = kid.out
    <2>1. kid \in KidType /\ s \in StatusWords
      BY DEF ShellInv, ShellType, StatusWords, ShellAssumption
    <2> QED
      BY <1>2, <2>1 DEF KidType
  <1>4. ShellType'
    BY <1>1, <1>3 DEF ShellInv, ShellType
  <1>5. LastLine' /\ PlaceInv' /\ FilesInv' /\ TerminalInv'
    BY <1>1 DEF ShellInv, LastLine, PlaceInv, FilesInv, TerminalInv
  <1>6. ChildInv'
    BY <1>1, <1>3 DEF ShellInv, ChildInv
  <1> QED
    BY <1>4, <1>5, <1>6 DEF ShellInv

(* The file is opened, and truncated by > alone.                           *)
LEMMA RedirectInv == ShellAssumption /\ ShellInv /\ Redirect => ShellInv'
  <1> SUFFICES ASSUME ShellAssumption, ShellInv, Redirect PROVE ShellInv'
    OBVIOUS
  <1>1. at = "wait" /\ kid.at = "redirect"
        /\ UNCHANGED <<at, typed, argv, redir, cwd, codes, out, terminal>>
    BY ChildAt DEF Redirect
  <1>2. PICK n \in Nat \ {0} :
           /\ n = Len(typed) /\ typed[n] \in Lines /\ n \in 1 .. Len(typed)
           /\ typed \in Seq(Lines) /\ ended \in Seq(EndType) /\ Len(ended) = n
           /\ redir = Redirection(typed[n])
           /\ redir.type # "none" => redir.file \in FileNames
           /\ cwd = DirOf(typed, n)
    BY <1>1, ShellAt
  <1>3. ended[n] = NoEnd /\ kid.fd1 = "terminal" /\ kid.out = <<>>
    BY <1>1, <1>2 DEF ShellInv, ChildInv
  <1>4. /\ ended' \in Seq(EndType) /\ Len(ended') = n /\ ended'[n].opened
        /\ ended'[n].wrote = <<>> /\ ended'[n].status = -1
        /\ \A m \in 1 .. n - 1 : ended'[m] = ended[m]
    <2>1. PICK x : x = [NoEnd EXCEPT !.opened = TRUE]
      OBVIOUS
    <2>2. x = [opened |-> TRUE, wrote |-> <<>>, status |-> -1]
      BY <2>1 DEF NoEnd
    <2>3. x \in EndType /\ x.opened /\ x.wrote = <<>> /\ x.status = -1
      BY <2>2 DEF EndType
    <2>4. ended' = [ended EXCEPT ![n] = x]
      BY <1>2, <1>3, <2>1 DEF Redirect
    <2>5. /\ ended' \in Seq(EndType) /\ Len(ended') = n /\ ended'[n] = x
          /\ \A m \in 1 .. n - 1 : ended'[m] = ended[m]
      BY <1>2, <2>3, <2>4, EndReplaced
    <2> QED
      BY <2>3, <2>5
  <1>5. redir.type \in {"none", ">", ">>", "<"}
    BY <1>2, LineShape
  <1>6. files \in [Dirs -> [FileNames -> FileType]] /\ cwd \in Dirs
    BY DEF ShellInv, ShellType
  <1>7. /\ kid' \in KidType /\ kid'.at = "exec" /\ kid'.out = <<>>
        /\ kid'.fd1 = "file" <=> redir.type \in {">", ">>"}
    <2>1. kid \in KidType
      BY DEF ShellInv, ShellType
    <2>2. redir.type = "<" => files[cwd][redir.file] \in FileType
      BY <1>2, <1>6
    <2>3. PICK a, b : /\ a = IF redir.type = "<" THEN files[cwd][redir.file] ELSE kid.fd0
                      /\ b = IF redir.type \in {">", ">>"} THEN "file" ELSE kid.fd1
      OBVIOUS
    <2>4. a \in FileType /\ b \in {"terminal", "file"} /\ (b = "file" <=> redir.type \in {">", ">>"})
      BY <1>3, <2>1, <2>2, <2>3 DEF KidType
    <2>5. kid' = [kid EXCEPT !.at = "exec", !.fd0 = a, !.fd1 = b]
      BY <2>3 DEF Redirect
    <2>6. kid' = [at |-> "exec", out |-> kid.out, fd0 |-> a, fd1 |-> b, status |-> kid.status]
      BY <2>1, <2>5 DEF KidType
    <2> QED
      BY <1>3, <2>1, <2>4, <2>6 DEF KidType
  <1>8. /\ files' \in [Dirs -> [FileNames -> FileType]]
        /\ \A d \in Dirs, f \in FileNames :
             files'[d][f].text = IF redir.type = ">" /\ redir.file = f /\ cwd = d
                                 THEN <<>> ELSE files[d][f].text
    <2>1. CASE redir.type \notin {">", ">>"}
      <3>1. files' = files
        BY <2>1 DEF Redirect
      <3> QED
        BY <1>6, <2>1, <3>1
    <2>2. CASE redir.type \in {">", ">>"}
      <3>1. redir.file \in FileNames
        BY <1>2, <2>2
      <3>2. PICK old \in FileType : old = files[cwd][redir.file]
        BY <1>6, <3>1
      <3>3. PICK new : new = [exists |-> TRUE,
                              text |-> IF redir.type = ">" THEN <<>> ELSE old.text]
        OBVIOUS
      <3>4. /\ new \in FileType
            /\ new.text = IF redir.type = ">" THEN <<>> ELSE old.text
        BY <3>2, <3>3 DEF FileType
      <3>5. files' = [files EXCEPT ![cwd] = [files[cwd] EXCEPT ![redir.file] = new]]
        BY <2>2, <3>2, <3>3 DEF Redirect
      <3>6. /\ files' \in [Dirs -> [FileNames -> FileType]]
            /\ \A d \in Dirs, f \in FileNames :
                 files'[d][f] = IF d = cwd /\ f = redir.file THEN new ELSE files[d][f]
        BY <1>6, <3>1, <3>4, <3>5, FileChanged
      <3> QED
        BY <3>2, <3>4, <3>6
    <2> QED
      BY <2>1, <2>2
  <1>9. ShellType'
    BY <1>1, <1>2, <1>4, <1>7, <1>8 DEF ShellInv, ShellType
  <1>10. LastLine' /\ PlaceInv'
    BY <1>1, <1>2, <1>4, ChildStepPlace
  <1>11. ChildInv'
    BY <1>1, <1>2, <1>4, <1>7 DEF ChildInv
  <1>12. FilesInv'
    <2>1. ASSUME NEW d \in Dirs, NEW f \in FileNames
          PROVE  files'[d][f].text = FlattenSeq(FileSeq(typed, ended', d, f))
      <3>1. ~ ended[n].opened /\ ended[n].wrote = <<>>
        BY <1>3 DEF NoEnd
      <3>2. FlattenSeq(FileSeq(typed, ended', d, f)) =
              IF redir.type = ">" /\ redir.file = f /\ cwd = d
              THEN <<>> ELSE FlattenSeq(FileSeq(typed, ended, d, f))
        BY <1>2, <1>4, <3>1, FileOpened
      <3>3. files[d][f].text = FlattenSeq(FileSeq(typed, ended, d, f))
        BY DEF ShellInv, FilesInv
      <3> QED
        BY <1>8, <3>2, <3>3
    <2> QED
      BY <1>1, <2>1 DEF FilesInv
  <1>13. TerminalInv'
    <2>1. ended'[n].wrote = ended[n].wrote
      BY <1>3, <1>4 DEF NoEnd
    <2> QED
      BY <1>1, <1>2, <1>4, <2>1, ChildStepTerminal
  <1> QED
    BY <1>9, <1>10, <1>11, <1>12, <1>13 DEF ShellInv

(* What the program writes goes where its output leads.                    *)
LEMMA ProgramWritesInv == ShellAssumption /\ ShellInv /\ ProgramWrites => ShellInv'
  <1> SUFFICES ASSUME ShellAssumption, ShellInv, ProgramWrites PROVE ShellInv'
    OBVIOUS
  <1> DEFINE text == Append(kid.fd0.text, <<"program", Len(typed)>>)
  <1>1. at = "wait" /\ kid.at = "run" /\ ended[Len(typed)].wrote = <<>>
        /\ UNCHANGED <<at, typed, argv, redir, cwd, codes, out, kid>>
        /\ WriteOut(text) /\ ended' = [ended EXCEPT ![Len(typed)].wrote = text]
    BY ChildAt DEF ProgramWrites
  <1>2. PICK n \in Nat \ {0} :
           /\ n = Len(typed) /\ typed[n] \in Lines /\ ended[n] \in EndType
           /\ n \in 1 .. Len(typed)
           /\ typed \in Seq(Lines) /\ ended \in Seq(EndType) /\ Len(ended) = n
           /\ argv = CommandOf(typed[n]) /\ redir = Redirection(typed[n])
           /\ argv # <<>> /\ out = <<>> /\ cwd = DirOf(typed, n)
    BY <1>1, ShellAt
  <1>3. /\ ended[n].wrote = <<>> /\ ended[n].opened /\ ended[n].status = -1 /\ kid.out = <<>>
        /\ kid.fd1 = "file" <=> redir.type \in {">", ">>"}
    BY <1>1, <1>2 DEF ShellInv, ChildInv
  <1>4. PICK x \in Seq(Shows) : x = text
    <2>1. <<"program", n>> \in Shows
      BY <1>2 DEF Shows
    <2>2. kid.fd0.text \in Seq(Shows)
      BY DEF ShellInv, ShellType, KidType, FileType
    <2> QED
      BY <1>2, <2>1, <2>2, AppendProperties
  <1> HIDE DEF text
  <1>5. /\ ended' \in Seq(EndType) /\ Len(ended') = n /\ ended'[n].wrote = x
        /\ ended'[n].opened /\ ended'[n].opened = ended[n].opened /\ ended'[n].status = -1
        /\ \A m \in 1 .. n - 1 : ended'[m] = ended[m]
    <2>1. PICK y : y = [ended[n] EXCEPT !.wrote = x]
      OBVIOUS
    <2>2. /\ y \in EndType /\ y.wrote = x /\ y.opened = ended[n].opened
          /\ y.status = ended[n].status
      BY <1>2, <2>1 DEF EndType
    <2>3. ended' = [ended EXCEPT ![n] = y]
      BY <1>1, <1>2, <1>4, <2>1
    <2>4. /\ ended' \in Seq(EndType) /\ Len(ended') = n /\ ended'[n] = y
          /\ \A m \in 1 .. n - 1 : ended'[m] = ended[m]
      BY <1>2, <2>2, <2>3, EndReplaced
    <2> QED
      BY <1>3, <2>2, <2>4
  <1>6. /\ kid.fd1 = "terminal" => files' = files /\ terminal' = terminal \o x
        /\ kid.fd1 # "terminal" =>
             /\ terminal' = terminal /\ files' \in [Dirs -> [FileNames -> FileType]]
             /\ \A d \in Dirs, f \in FileNames :
                  files'[d][f].text = IF d = cwd /\ f = redir.file
                                      THEN Cat(files[d][f].text, x) ELSE files[d][f].text
    <2>1. WriteOut(x)
      BY <1>1, <1>4
    <2> QED
      BY <1>1, <2>1, WriteOutEffect
  <1>7. kid.fd1 \in {"terminal", "file"} /\ files \in [Dirs -> [FileNames -> FileType]]
        /\ terminal \in Seq(Shows)
    BY DEF ShellInv, ShellType, KidType
  <1>8. ShellType'
    <2>1. terminal' \in Seq(Shows)
      <3>1. terminal \o x \in Seq(Shows)
        BY <1>7, ConcatProperties
      <3> QED
        BY <1>6, <1>7, <3>1
    <2>2. files' \in [Dirs -> [FileNames -> FileType]]
      BY <1>6, <1>7
    <2> QED
      BY <1>1, <1>2, <1>5, <2>1, <2>2 DEF ShellInv, ShellType
  <1>9. LastLine' /\ PlaceInv'
    BY <1>1, <1>2, <1>5, ChildStepPlace
  <1>10. ChildInv'
    BY <1>1, <1>2, <1>3, <1>5 DEF ShellInv, ChildInv
  <1>11. FilesInv'
    <2>1. ASSUME NEW d \in Dirs, NEW f \in FileNames
          PROVE  files'[d][f].text = FlattenSeq(FileSeq(typed, ended', d, f))
      <3>1. files[d][f].text = FlattenSeq(FileSeq(typed, ended, d, f))
        BY DEF ShellInv, FilesInv
      <3>2. /\ IntoOf(typed, ended, n, d, f) =>
                 FlattenSeq(FileSeq(typed, ended', d, f)) = Cat(files[d][f].text, x)
            /\ ~ IntoOf(typed, ended, n, d, f) =>
                 FlattenSeq(FileSeq(typed, ended', d, f)) = files[d][f].text
        <4>1. PICK g \in Seq(EndType) : g = ended'
          BY <1>5
        <4>2. /\ typed \in Seq(Lines) /\ ended \in Seq(EndType) /\ n \in Nat
              /\ LastWrites(typed, ended, g, n) /\ g[n].wrote = x
          BY <1>2, <1>3, <1>5, <4>1 DEF LastWrites
        <4>3. /\ IntoOf(typed, ended, n, d, f) =>
                   FlattenSeq(FileSeq(typed, g, d, f)) =
                     Cat(FlattenSeq(FileSeq(typed, ended, d, f)), g[n].wrote)
              /\ ~ IntoOf(typed, ended, n, d, f) =>
                   FlattenSeq(FileSeq(typed, g, d, f)) = FlattenSeq(FileSeq(typed, ended, d, f))
          BY <4>2, FileWritten
        <4> QED
          BY <3>1, <4>1, <4>2, <4>3
      <3>3. IntoOf(typed, ended, n, d, f) <=>
              redir.type \in {">", ">>"} /\ redir.file = f /\ cwd = d
        BY <1>2, <1>3 DEF IntoOf
      <3>4. CASE kid.fd1 = "terminal"
        <4>1. ~ IntoOf(typed, ended, n, d, f)
          BY <1>3, <3>3, <3>4
        <4> QED
          BY <1>6, <3>2, <3>4, <4>1
      <3>5. CASE kid.fd1 # "terminal"
        <4>1. IntoOf(typed, ended, n, d, f) <=> d = cwd /\ f = redir.file
          BY <1>3, <1>7, <3>3, <3>5
        <4> QED
          BY <1>6, <3>2, <3>5, <4>1
      <3> QED
        BY <3>4, <3>5
    <2> QED
      BY <1>1, <2>1 DEF FilesInv
  <1>12. TerminalInv'
    <2>1. PICK k \in Nat : k = n - 1
      BY <1>2
    <2>2. ASSUME NEW m \in 1 .. k
          PROVE  /\ SeenOf(typed, ended', m) = SeenOf(typed, ended, m)
      <3>1. /\ m \in Nat /\ ended'[m].wrote = ended[m].wrote
            /\ \A j \in 1 .. m - 1 : ended'[j].status = ended[j].status
        BY <1>5, <2>1
      <3> QED
        BY <3>1, SeenSame
    <2>3. SeenAgree(typed, ended, typed, ended', k) /\ SeenAgree(typed, ended, typed, ended, k)
      BY <2>2 DEF SeenAgree
    <2>4. k <= Len(typed) /\ k + 1 <= Len(typed) /\ Len(ended) = Len(typed)
          /\ Len(ended') = Len(typed) /\ k + 1 = n
      BY <1>2, <1>5, <2>1
    <2>5. FlattenSeq(SeenSeq(typed, ended', k + 1)) =
            FlattenSeq(SeenSeq(typed, ended, k)) \o SeenOf(typed, ended', k + 1)
      BY <1>2, <1>5, <2>3, <2>4, SeenMore
    <2>6. FlattenSeq(SeenSeq(typed, ended, k + 1)) =
            FlattenSeq(SeenSeq(typed, ended, k)) \o SeenOf(typed, ended, k + 1)
      BY <1>2, <2>3, <2>4, SeenMore
    <2>7. Kind(argv) = "fork" /\ argv[1] # "echo"
      <3>1. Kind(argv) = "fork"
        BY <1>1 DEF ShellInv, LastLine
      <3> QED
        BY <1>2, <3>1 DEF Kind
    <2>8. SeenOf(typed, ended, n) = <<>>
      BY <1>2, <1>3, <2>7 DEF SeenOf
    <2>9. SeenOf(typed, ended', n) = IF kid.fd1 = "terminal" THEN x ELSE <<>>
      BY <1>2, <1>3, <1>5, <1>7, <2>7 DEF SeenOf
    <2>10. terminal \o out = FlattenSeq(SeenSeq(typed, ended, n)) /\ out = <<>>
      BY <1>1, <1>2 DEF ShellInv, TerminalInv
    <2>11. SeenSeq(typed, ended, k) \in Seq(Seq(Shows))
      BY <1>2, <2>1, SeenSeqType
    <2>12. PICK s \in Seq(Shows) : s = FlattenSeq(SeenSeq(typed, ended, k))
      BY <2>11, FlattenType
    <2>13. terminal = s
      BY <1>7, <2>4, <2>6, <2>8, <2>10, <2>12, ConcatEmptySeq
    <2>14. terminal' = s \o SeenOf(typed, ended', n)
      BY <1>6, <1>7, <2>9, <2>12, <2>13, ConcatEmptySeq
    <2>15. terminal' \o out' = terminal'
      <3>1. terminal' \in Seq(Shows)
        BY <1>8 DEF ShellType
      <3> QED
        BY <1>1, <2>10, <3>1, ConcatEmptySeq
    <2> QED
      BY <1>1, <1>2, <2>4, <2>5, <2>12, <2>14, <2>15 DEF TerminalInv
  <1> QED
    BY <1>8, <1>9, <1>10, <1>11, <1>12 DEF ShellInv

(* Nothing changes when nothing moves.                                     *)
LEMMA ShellStay == ShellInv /\ UNCHANGED shellVars => ShellInv'
  BY DEF ShellInv, ShellType, LastLine, ChildInv, PlaceInv, FilesInv, TerminalInv, shellVars

(* Every step keeps the invariant.                                         *)
LEMMA ShellStep == ShellAssumption /\ ShellInv /\ [ShellNext]_shellVars => ShellInv'
  <1> SUFFICES ASSUME ShellAssumption, ShellInv, [ShellNext]_shellVars PROVE ShellInv'
    OBVIOUS
  <1>1. CASE Cd
    BY <1>1, CdInv
  <1>2. CASE Echo
    BY <1>2, EchoInv
  <1>3. CASE ForkChild
    BY <1>3, ForkChildInv
  <1>4. CASE WaitChild
    BY <1>4, WaitChildInv
  <1>5. CASE Redirect
    BY <1>5, RedirectInv
  <1>6. CASE OpenFails
    BY <1>6, OpenFailsInv
  <1>7. CASE ExecFails
    BY <1>7, ExecFailsInv
  <1>8. CASE Exec
    BY <1>8, ExecInv
  <1>9. CASE ReadLine
    BY <1>9, ReadLineInv
  <1>10. CASE EndOfInput
    BY <1>10, EndOfInputInv
  <1>11. CASE ForkFails
    BY <1>11, ForkFailsInv
  <1>12. CASE ProgramWrites
    BY <1>12, ProgramWritesInv
  <1>13. CASE ProgramEnds
    BY <1>13, ProgramEndsInv
  <1>14. CASE UNCHANGED shellVars
    BY <1>14, ShellStay
  <1> QED
    BY <1>1, <1>2, <1>3, <1>4, <1>5, <1>6, <1>7, <1>8, <1>9, <1>10, <1>11, <1>12, <1>13, <1>14
       DEF ShellNext, ShellSystem

(* What the invariant says is what MyShell asks for.                       *)
LEMMA ShellInvSafe == ShellInv => ShellSafe
  <1> SUFFICES ASSUME ShellInv, at = "prompt" PROVE ShellSafe
    BY DEF ShellSafe
  <1>1. \A n : Moves(n) <=> MovesOf(typed, n)
    BY DEF Moves, MovesOf
  <1>2. \A n : DirAt(n) = DirOf(typed, n)
    BY <1>1 DEF DirAt, DirOf
  <1>3. \A n : StatusAt(n) = StatusOf(ended, n)
    BY DEF StatusAt, StatusOf, Waited, WaitedOf
  <1>4. \A n, d, f : Into(n, d, f) <=> IntoOf(typed, ended, n, d, f)
    BY <1>2 DEF Into, IntoOf
  <1>5. \A n : Seen(n) = SeenOf(typed, ended, n)
    BY <1>3 DEF Seen, SeenOf, Decoded
  <1>6. ASSUME NEW d, NEW f
        PROVE  FileText(d, f) = FlattenSeq(FileSeq(typed, ended, d, f))
    <2>1. {n \in 1 .. Len(typed) : Into(n, d, f)} = IntoSet(typed, ended, d, f)
      BY <1>4 DEF IntoSet
    <2> QED
      BY <2>1 DEF FileText, FileSeq, Since
  <1>7. [n \in 1 .. Len(typed) |-> Seen(n)] = SeenSeq(typed, ended, Len(typed))
    BY <1>5 DEF SeenSeq
  <1>8. terminal \o out = FlattenSeq(SeenSeq(typed, ended, Len(typed)))
    BY DEF ShellInv, TerminalInv
  <1>9. \A d \in Dirs, f \in FileNames : files[d][f].text = FileText(d, f)
    BY <1>6 DEF ShellInv, FilesInv
  <1> QED
    BY <1>7, <1>8, <1>9 DEF ShellSafe

(* For any lines, directories, programs and status words: between two      *)
(* lines, every file holds what the lines redirected to it have written    *)
(* since the last one that replaced it, the terminal shows the rest in the *)
(* order of the lines, and $? is the end of the last program               *)
(* (myshell.c:82-216).                                                     *)
THEOREM SessionsMeanTheirLines ==
  ASSUME ShellAssumption
  PROVE  ShellSpec => []ShellSafe
  <1>1. ShellInit => ShellInv
    BY ShellInitInv
  <1>2. ShellInv /\ [ShellNext]_shellVars => ShellInv'
    BY ShellStep
  <1>3. ShellInv => ShellSafe
    BY ShellInvSafe
  <1> QED
    BY <1>1, <1>2, <1>3, PTL DEF ShellSpec
=============================================================================
