--------------------------- MODULE BlockPipeline ---------------------------
(***************************************************************************)
(* thread_cond/blockqueue/MainCp.cc: three threads and two BlockQueues.    *)
(* producter makes calculation tasks and pushes them onto c_bq, consumer   *)
(* pops one, calculates it and pushes the result onto s_bq, saver pops the *)
(* result and appends it to the log file.  The consumer is the consumer of *)
(* one queue and the producer of the other.                                *)
(*                                                                         *)
(* A task is its number in the order of production, and so is its result.  *)
(***************************************************************************)
EXTENDS Integers, Sequences

CONSTANTS
  producter, consumer, saver,  \* the three threads
  MaxCap,     \* the capacity of either queue (100 in the code)
  MaxTasks,   \* bound on the tasks produced (none in the code)
  Nobody      \* the owner of an unlocked mutex

ASSUME PipelineAssumption ==
  /\ MaxCap \in Nat \ {0} /\ MaxTasks \in Nat
  /\ producter # consumer /\ producter # saver /\ consumer # saver
  /\ Nobody \notin {producter, consumer, saver}

VARIABLES
  cq, cmutex, cpc, cin, cout,  \* c_bq and its two threads
  sq, smutex, spc, sin, sout,  \* s_bq and its two threads
  made,       \* the tasks producter has made
  stage,      \* stage[t]: what t does outside the queues
  log,        \* log.txt
  exited      \* save() has called exit(1)

calc == <<cq, cmutex, cpc, cin, cout>>
store == <<sq, smutex, spc, sin, sout>>
pipelineVars ==
  <<cq, cmutex, cpc, cin, cout, sq, smutex, spc, sin, sout,
    made, stage, log, exited>>

Tasks == 1 .. MaxTasks
Blank == 0

c_bq == INSTANCE BlockQueue WITH
  Producers <- {producter}, Consumers <- {consumer}, Items <- Tasks,
  NoThread <- Nobody,
  q <- cq, mutex <- cmutex, pc <- cpc, in <- cin, out <- cout

s_bq == INSTANCE BlockQueue WITH
  Producers <- {consumer}, Consumers <- {saver}, Items <- Tasks,
  NoThread <- Nobody,
  q <- sq, mutex <- smutex, pc <- spc, in <- sin, out <- sout

PipelineTypeOK ==
  /\ c_bq!TypeOK /\ s_bq!TypeOK
  /\ made \in 0 .. MaxTasks
  /\ stage \in [{consumer, saver} -> {"pop", "push", "ready", "save"}]
  /\ log \in Seq(Tasks)
  /\ exited \in BOOLEAN

PipelineInit ==
  /\ c_bq!Init /\ s_bq!Init
  /\ made = 0
  /\ stage = [t \in {consumer, saver} |-> "ready"]
  /\ log = <<>>
  /\ exited = FALSE
-----------------------------------------------------------------------------
InCalc(A) == A /\ ~exited /\ UNCHANGED <<store, made, stage, log, exited>>

InStore(A) == A /\ ~exited /\ UNCHANGED <<calc, made, stage, log, exited>>

To(t, next) == stage' = [stage EXCEPT ![t] = next]

(* A pass of the loop of producter: a new task, pushed onto c_bq.          *)
Produce ==
  /\ ~exited
  /\ made < MaxTasks
  /\ c_bq!CallPush(producter, made + 1)
  /\ made' = made + 1
  /\ UNCHANGED <<store, stage, log, exited>>

(* A pass of the loop of consumer: pop a task from c_bq, calculate it,     *)
(* push the result onto s_bq, and begin again when push has returned.      *)
Take ==
  /\ ~exited
  /\ \/ stage[consumer] = "ready"
     \/ stage[consumer] = "push" /\ spc[consumer] = "idle"
  /\ c_bq!CallPop(consumer)
  /\ To(consumer, "pop")
  /\ UNCHANGED <<store, made, log, exited>>

PushForgotten ==  \* mutant: the result is not handed on when s_bq is full
  /\ ~exited
  /\ stage[consumer] = "pop"
  /\ cpc[consumer] = "idle"
  /\ \/ s_bq!CallPush(consumer, cout[consumer]) /\ To(consumer, "push")
     \/ s_bq!is_full /\ To(consumer, "ready") /\ UNCHANGED store
  /\ UNCHANGED <<calc, made, log, exited>>

Hand ==
  /\ ~exited
  /\ stage[consumer] = "pop"
  /\ cpc[consumer] = "idle"
  /\ s_bq!CallPush(consumer, cout[consumer])
  /\ To(consumer, "push")
  /\ UNCHANGED <<calc, made, log, exited>>

(* A pass of the loop of saver: pop a result from s_bq and save it.        *)
Fetch ==
  /\ ~exited
  /\ stage[saver] = "ready"
  /\ s_bq!CallPop(saver)
  /\ To(saver, "pop")
  /\ UNCHANGED <<calc, made, log, exited>>

(* fopen of the log file: when it fails the whole process exits.           *)
Open ==
  /\ ~exited
  /\ stage[saver] = "pop"
  /\ spc[saver] = "idle"
  /\ \/ To(saver, "save") /\ UNCHANGED exited
     \/ exited' = TRUE /\ UNCHANGED stage
  /\ UNCHANGED <<calc, store, made, log>>

(* fputs twice and fclose; the line is in the file when fclose returns.    *)
Save ==
  /\ ~exited
  /\ stage[saver] = "save"
  /\ log' = Append(log, sout[saver])
  /\ To(saver, "ready")
  /\ UNCHANGED <<calc, store, made, exited>>

Producter == Produce \/ InCalc(c_bq!PushStep(producter))

Consumer ==
  \/ Take
  \/ InCalc(c_bq!PopStep(consumer))
  \/ Hand
  \/ InStore(s_bq!PushStep(consumer))

Saver == Fetch \/ InStore(s_bq!PopStep(saver)) \/ Open \/ Save

Spurious ==
  \/ InCalc(\E t \in {producter, consumer} : c_bq!Spurious(t))
  \/ InStore(\E t \in {consumer, saver} : s_bq!Spurious(t))

PipelineNext == Producter \/ Consumer \/ Saver \/ Spurious

PipelineSpec == PipelineInit /\ [][PipelineNext]_pipelineVars

(* Every thread that can run runs, as in BlockQueue.                       *)
PipelineFairSpec ==
  /\ PipelineSpec
  /\ WF_pipelineVars(Producter) /\ WF_pipelineVars(Consumer) /\ WF_pipelineVars(Saver)
  /\ <>[][~Spurious]_pipelineVars
-----------------------------------------------------------------------------
(* The task a thread has taken from one place and not yet put in the next. *)
Popped == {"signal", "unlock", "idle"}
Pushing == {"lock", "test", "wait", "relock", "move"}

InHand(held, task) == IF held THEN <<task>> ELSE <<>>

AtProducter == InHand(cpc[producter] \in Pushing, cin[producter])

AtConsumer ==
  InHand(\/ stage[consumer] = "pop" /\ cpc[consumer] \in Popped
         \/ stage[consumer] = "push" /\ spc[consumer] \in Pushing,
         cout[consumer])

AtSaver ==
  InHand(\/ stage[saver] = "pop" /\ spc[saver] \in Popped
         \/ stage[saver] = "save",
         sout[saver])

(* Every task made is in exactly one place, and the places hold them in    *)
(* the order they were made: what is in the log was made before what is in *)
(* s_bq, and that before what is in c_bq (MainCp.cc:41-86).                *)
NothingLostInOrder ==
  log \o AtSaver \o sq \o AtConsumer \o cq \o AtProducter
    = [n \in 1 .. made |-> n]

(* Every task made is saved, unless save() ends the process: the two       *)
(* queues never block each other (MainCp.cc:56-87, Task.hpp:98-110).       *)
EverythingSaved ==
  \A n \in Tasks : made >= n ~> Len(log) >= n \/ exited
=============================================================================
