----------------------------- MODULE ThreadPool -----------------------------
(***************************************************************************)
(* ThreadPool<T> of thread_pool/ThreadPool.hpp (and its copy in            *)
(* network_code/socket_tcp): a singleton made on first use by the double-  *)
(* checked getInstance, a queue of tasks with one mutex and one condition  *)
(* variable, and _num workers that take a task under the mutex and execute *)
(* it after they have unlocked.                                            *)
(*                                                                         *)
(* Main calls getInstance()->run() and then pushes tasks; the other        *)
(* callers only push.  A task is the number of its submission.  Executing  *)
(* a task in Bad throws out of the worker (an operator mymath does not     *)
(* know is an empty std::function), which ends the process.                *)
(***************************************************************************)
EXTENDS Integers, FiniteSets, Sequences

CONSTANTS
  Callers,    \* the threads that use the pool
  Main,       \* the one that also starts the workers
  Workers,    \* the threads of the pool
  MaxTasks,   \* bound on the tasks submitted (none in the code)
  Bad,        \* the tasks whose execution throws
  NoThread    \* the owner of an unlocked mutex

ASSUME PoolAssumption ==
  /\ IsFiniteSet(Callers) /\ IsFiniteSet(Workers)
  /\ Main \in Callers
  /\ Callers \cap Workers = {}
  /\ NoThread \notin Callers \cup Workers
  /\ MaxTasks \in Nat
  /\ Bad \subseteq 1 .. MaxTasks

VARIABLES
  tp,         \* is the static pointer tp set?
  built,      \* how many pools have been constructed
  singlock,   \* the owner of _singlock
  tasks,      \* _task_queue
  mutex,      \* the owner of _mutex
  pc,         \* where each caller and each worker is
  in,         \* in[c]: the task c submits, 0 for none
  got,        \* got[w]: the task worker w took last, 0 for none
  submitted,  \* how many tasks have been submitted
  ran,        \* ran[n]: how often task n has been executed
  aborted     \* has the process been terminated?

instance == <<tp, built, singlock>>
progress == <<in, got, submitted, ran, aborted>>
vars == <<instance, tasks, mutex, pc, progress>>

Tasks == 1 .. MaxTasks
CallerLabels ==
  {"idle", "check", "single", "recheck", "build", "publish", "release",
   "have", "lock", "enqueue", "signal", "unlock"}
WorkerLabels ==
  {"new", "lock", "test", "wait", "relock", "take", "unlock", "execute"}

Goto(t, from, to) ==
  /\ ~aborted
  /\ pc[t] = from
  /\ pc' = [pc EXCEPT ![t] = to]

At(T, labels) == {t \in T : pc[t] \in labels}

Unstarted == At(Workers, {"new"})

TypeOK ==
  /\ tp \in BOOLEAN
  /\ built \in 0 .. Cardinality(Callers)
  /\ singlock \in Callers \cup {NoThread}
  /\ tasks \in Seq(Tasks)
  /\ mutex \in Callers \cup Workers \cup {NoThread}
  /\ pc \in [Callers \cup Workers -> CallerLabels \cup WorkerLabels]
  /\ in \in [Callers -> 0 .. MaxTasks]
  /\ got \in [Workers -> 0 .. MaxTasks]
  /\ submitted \in 0 .. MaxTasks
  /\ ran \in [Tasks -> 0 .. 1]
  /\ aborted \in BOOLEAN

Init ==
  /\ tp = FALSE
  /\ built = 0
  /\ singlock = NoThread
  /\ tasks = <<>>
  /\ mutex = NoThread
  /\ pc = [t \in Callers \cup Workers |-> IF t \in Callers THEN "idle" ELSE "new"]
  /\ in = [c \in Callers |-> 0]
  /\ got = [w \in Workers |-> 0]
  /\ submitted = 0
  /\ ran = [n \in Tasks |-> 0]
  /\ aborted = FALSE
-----------------------------------------------------------------------------
(* getInstance                                                             *)

CallRun ==
  /\ Goto(Main, "idle", "check")
  /\ Unstarted # {}
  /\ UNCHANGED <<instance, tasks, mutex, progress>>

CallPush(c) ==
  /\ Goto(c, "idle", "check")
  /\ c = Main => Unstarted = {}
  /\ submitted < MaxTasks
  /\ submitted' = submitted + 1
  /\ in' = [in EXCEPT ![c] = submitted + 1]
  /\ UNCHANGED <<instance, tasks, mutex, got, ran, aborted>>

(* The first test of tp, without the lock.                                 *)
Check(c) ==
  /\ Goto(c, "check", IF tp THEN "have" ELSE "single")
  /\ UNCHANGED <<instance, tasks, mutex, progress>>

Single(c) ==
  /\ Goto(c, "single", "recheck")
  /\ singlock = NoThread
  /\ singlock' = c
  /\ UNCHANGED <<tp, built, tasks, mutex, progress>>

RecheckMissing(c) ==  \* mutant: tp is tested only once, before the lock
  /\ Goto(c, "recheck", "build")
  /\ UNCHANGED <<instance, tasks, mutex, progress>>

Recheck(c) ==
  /\ Goto(c, "recheck", IF tp THEN "release" ELSE "build")
  /\ UNCHANGED <<instance, tasks, mutex, progress>>

(* new ThreadPool<T>() and the assignment to tp are two steps; the build   *)
(* does not optimise, so the pointer is stored after the constructor.      *)
Build(c) ==
  /\ Goto(c, "build", "publish")
  /\ built' = built + 1
  /\ UNCHANGED <<tp, singlock, tasks, mutex, progress>>

Publish(c) ==
  /\ Goto(c, "publish", "release")
  /\ tp' = TRUE
  /\ UNCHANGED <<built, singlock, tasks, mutex, progress>>

Release(c) ==
  /\ Goto(c, "release", "have")
  /\ singlock' = NoThread
  /\ UNCHANGED <<tp, built, tasks, mutex, progress>>
-----------------------------------------------------------------------------
(* run and push                                                            *)

(* One pass of the loop of run: pthread_create of one worker.              *)
StartWorker(w) ==
  /\ ~aborted
  /\ pc[Main] = "have" /\ pc[w] = "new"
  /\ pc' = [pc EXCEPT ![w] = "lock",
                      ![Main] = IF Unstarted = {w} THEN "idle" ELSE @]
  /\ UNCHANGED <<instance, tasks, mutex, progress>>

Push(c) ==
  /\ Goto(c, "have", "lock")
  /\ in[c] # 0
  /\ UNCHANGED <<instance, tasks, mutex, progress>>

LockPush(c) ==
  /\ Goto(c, "lock", "enqueue")
  /\ mutex = NoThread
  /\ mutex' = c
  /\ UNCHANGED <<instance, tasks, progress>>

Enqueue(c) ==
  /\ Goto(c, "enqueue", "signal")
  /\ tasks' = Append(tasks, in[c])
  /\ in' = [in EXCEPT ![c] = 0]
  /\ UNCHANGED <<instance, mutex, got, submitted, ran, aborted>>

(* pthread_cond_signal wakes one of the waiting workers, if there is one.  *)
WakeOne(c) ==
  \/ At(Workers, {"wait"}) = {} /\ pc' = [pc EXCEPT ![c] = "unlock"]
  \/ \E w \in At(Workers, {"wait"}) :
       pc' = [pc EXCEPT ![c] = "unlock", ![w] = "relock"]

SignalIfWasEmpty(c) ==  \* mutant: signal only a queue that was empty
  /\ ~aborted
  /\ pc[c] = "signal"
  /\ IF Len(tasks) = 1 THEN WakeOne(c) ELSE pc' = [pc EXCEPT ![c] = "unlock"]
  /\ UNCHANGED <<instance, tasks, mutex, progress>>

SignalMissing(c) ==  \* mutant: push does not signal
  /\ Goto(c, "signal", "unlock")
  /\ UNCHANGED <<instance, tasks, mutex, progress>>

Signal(c) ==
  /\ ~aborted
  /\ pc[c] = "signal"
  /\ WakeOne(c)
  /\ UNCHANGED <<instance, tasks, mutex, progress>>

UnlockPush(c) ==
  /\ Goto(c, "unlock", "idle")
  /\ mutex' = NoThread
  /\ UNCHANGED <<instance, tasks, progress>>
-----------------------------------------------------------------------------
(* handlerTask                                                             *)

LockTake(w) ==
  /\ ~aborted
  /\ pc[w] \in {"lock", "relock"}
  /\ mutex = NoThread
  /\ mutex' = w
  /\ pc' = [pc EXCEPT ![w] = "test"]
  /\ UNCHANGED <<instance, tasks, progress>>

(* The while: the wait releases the mutex and sleeps in one step.          *)
Test(w) ==
  /\ \/ tasks = <<>> /\ Goto(w, "test", "wait") /\ mutex' = NoThread
     \/ tasks # <<>> /\ Goto(w, "test", "take") /\ UNCHANGED mutex
  /\ UNCHANGED <<instance, tasks, progress>>

PopForgotten(w) ==  \* mutant: pop() copies the front and leaves it there
  /\ Goto(w, "take", "unlock")
  /\ tasks # <<>>
  /\ got' = [got EXCEPT ![w] = Head(tasks)]
  /\ UNCHANGED <<instance, tasks, mutex, in, submitted, ran, aborted>>

Take(w) ==
  /\ Goto(w, "take", "unlock")
  /\ tasks # <<>>
  /\ got' = [got EXCEPT ![w] = Head(tasks)]
  /\ tasks' = Tail(tasks)
  /\ UNCHANGED <<instance, mutex, in, submitted, ran, aborted>>

UnlockTake(w) ==
  /\ Goto(w, "unlock", "execute")
  /\ mutex' = NoThread
  /\ UNCHANGED <<instance, tasks, progress>>

Execute(w) ==
  /\ Goto(w, "execute", "lock")
  /\ got[w] \notin Bad
  /\ ran' = [ran EXCEPT ![got[w]] = @ + 1]
  /\ UNCHANGED <<instance, tasks, mutex, in, got, submitted, aborted>>

Throw(w) ==
  /\ ~aborted
  /\ pc[w] = "execute" /\ got[w] \in Bad
  /\ aborted' = TRUE
  /\ UNCHANGED <<instance, tasks, mutex, pc, in, got, submitted, ran>>

Spurious(w) ==
  /\ Goto(w, "wait", "relock")
  /\ UNCHANGED <<instance, tasks, mutex, progress>>

Caller(c) ==
  \/ Check(c) \/ Single(c) \/ Recheck(c) \/ Build(c) \/ Publish(c) \/ Release(c)
  \/ Push(c) \/ LockPush(c) \/ Enqueue(c) \/ Signal(c) \/ UnlockPush(c)

Run == CallRun \/ \E w \in Workers : StartWorker(w)

Worker(w) ==
  LockTake(w) \/ Test(w) \/ Take(w) \/ UnlockTake(w) \/ Execute(w) \/ Throw(w)

Next ==
  \/ Run
  \/ \E c \in Callers : CallPush(c) \/ Caller(c)
  \/ \E w \in Workers : Worker(w) \/ Spurious(w)

Spec == Init /\ [][Next]_vars

(* Main starts the pool, and every thread that can run runs; whether       *)
(* anybody submits a task is up to the user.                               *)
FairSpec ==
  /\ Spec
  /\ WF_vars(Run)
  /\ \A c \in Callers : WF_vars(Caller(c))
  /\ \A w \in Workers : WF_vars(Worker(w))
  /\ <>[][~ \E w \in Workers : Spurious(w)]_vars

Channel == INSTANCE BoundedChannel WITH
  Receivers <- Workers, Items <- 0 .. MaxTasks, Cap <- MaxTasks,
  chan <- tasks, out <- got
-----------------------------------------------------------------------------
(* However many threads call getInstance at once, one pool is constructed, *)
(* and nobody goes on before it is (ThreadPool.hpp:94-106).                *)
OnePool ==
  /\ built <= 1
  /\ At(Callers, {"have", "lock", "enqueue", "signal", "unlock"}) # {} => built = 1

(* A submitted task is in exactly one place: on its way into the queue, in *)
(* the queue, with the one worker that took it, or executed                *)
(* (ThreadPool.hpp:29-45, 67-81).                                          *)
EachTaskOnce ==
  \A n \in 1 .. submitted :
    Cardinality({c \in Callers : in[c] = n})
      + Cardinality({i \in DOMAIN tasks : tasks[i] = n})
      + Cardinality({w \in At(Workers, {"unlock", "execute"}) : got[w] = n})
      + ran[n]
    = 1

(* A worker sleeps while tasks are queued only if as many workers are      *)
(* awake to take them or a caller is about to signal                       *)
(* (ThreadPool.hpp:35-40, 76-79).                                          *)
NoLostWakeup ==
  At(Workers, {"wait"}) # {} =>
    Len(tasks) <= Cardinality(At(Workers, {"relock", "test", "take"}))
                    + Cardinality(At(Callers, {"signal"}))

(* Tasks are taken in the order they were queued (ThreadPool.hpp:67-81).   *)
IsChannel == Channel!Spec

(* A submitted task is executed, unless a bad one ends the process first   *)
(* (ThreadPool.hpp:26-48, 74-81).                                          *)
EverythingRuns ==
  \A n \in Tasks : submitted >= n ~> ran[n] = 1 \/ aborted
=============================================================================
