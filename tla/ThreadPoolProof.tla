-------------------------- MODULE ThreadPoolProof --------------------------
(***************************************************************************)
(* Proofs about ThreadPool, for any number of callers, workers and tasks:  *)
(* one pool is built, one signal per push is enough, every task is in      *)
(* exactly one place, and the queue is a first-in first-out channel.       *)
(***************************************************************************)
EXTENDS ThreadPool, ProofLemmas, FiniteSetTheorems, FunctionTheorems, TLAPS

(* The callers that have been through getInstance.                         *)
Through == {"have", "lock", "enqueue", "signal", "unlock"}

(* Where a worker carries the task it took.                                *)
Carrying == {"unlock", "execute"}

(* TypeOK without the bounds that need an argument, and the labels of each *)
(* kind of thread.                                                         *)
PoolType ==
  /\ built \in Nat
  /\ singlock \in Callers \cup {NoThread}
  /\ tasks \in Seq(Tasks)
  /\ mutex \in Callers \cup Workers \cup {NoThread}
  /\ pc \in [Callers \cup Workers -> CallerLabels \cup WorkerLabels]
  /\ in \in [Callers -> 0 .. MaxTasks]
  /\ got \in [Workers -> 0 .. MaxTasks]
  /\ submitted \in 0 .. MaxTasks
  /\ ran \in [Tasks -> Nat]
  /\ \A c \in Callers : pc[c] \in CallerLabels
  /\ \A w \in Workers : pc[w] \in WorkerLabels /\ (pc[w] \in Carrying => got[w] \in Tasks)
  /\ \A c \in Callers : pc[c] = "enqueue" => in[c] \in Tasks

(* The owner of _singlock is between taking and releasing it; a pool is    *)
(* built by the owner alone, and the pointer is set from then on.          *)
OneInv ==
  /\ \A c \in Callers :
       pc[c] \in {"recheck", "build", "publish", "release"} <=> singlock = c
  /\ built = IF tp \/ \E c \in Callers : pc[c] = "publish" THEN 1 ELSE 0
  /\ tp => \A c \in Callers : pc[c] \notin {"build", "publish"}
  /\ \A c \in Callers : pc[c] \in {"release"} \cup Through => tp

(* A caller carries a task from the call of push until it is queued, and   *)
(* main calls push only when all workers are started.                      *)
CarryInv ==
  /\ \A c \in Callers :
       /\ pc[c] \in {"idle", "signal", "unlock"} => in[c] = 0
       /\ pc[c] \in {"lock", "enqueue"} => in[c] # 0
  /\ in[Main] # 0 => Unstarted = {}
-----------------------------------------------------------------------------
(* Callers and workers are different threads.                              *)
LEMMA Kinds ==
  /\ Main \in Callers /\ MaxTasks \in Nat
  /\ \A c \in Callers : c \notin Workers /\ c # NoThread
  /\ \A w \in Workers : w \notin Callers /\ w # NoThread
  BY PoolAssumption

(* Nothing has happened initially.                                         *)
LEMMA InitType == Init => PoolType
  <1> SUFFICES ASSUME Init PROVE PoolType
    OBVIOUS
  <1>1. tasks \in Seq(Tasks) /\ MaxTasks \in Nat
    BY PoolAssumption DEF Init
  <1>2. pc \in [Callers \cup Workers -> CallerLabels \cup WorkerLabels]
    BY DEF Init, CallerLabels, WorkerLabels
  <1>3. /\ \A c \in Callers : pc[c] = "idle"
        /\ \A w \in Workers : pc[w] = "new"
    BY Kinds DEF Init
  <1>4. /\ built \in Nat /\ singlock = NoThread /\ mutex = NoThread
        /\ in \in [Callers -> 0 .. MaxTasks] /\ got \in [Workers -> 0 .. MaxTasks]
        /\ submitted \in 0 .. MaxTasks /\ ran \in [Tasks -> Nat]
    BY <1>1 DEF Init
  <1> QED
    BY <1>1, <1>2, <1>3, <1>4 DEF PoolType, CallerLabels, WorkerLabels, Carrying

(* One thread moves: the labels stay those of its kind.                    *)
LEMMA MoveType ==
  ASSUME PoolType, NEW t \in Callers \cup Workers, NEW to,
         t \in Callers => to \in CallerLabels,
         t \in Workers => to \in WorkerLabels,
         pc' = [pc EXCEPT ![t] = to]
  PROVE  /\ pc' \in [Callers \cup Workers -> CallerLabels \cup WorkerLabels]
         /\ pc'[t] = to /\ \A u \in (Callers \cup Workers) \ {t} : pc'[u] = pc[u]
         /\ \A c \in Callers : pc'[c] \in CallerLabels
         /\ \A w \in Workers : pc'[w] \in WorkerLabels
  BY Kinds DEF PoolType

(* The steps of a caller before it has the pool, and its way through push. *)
LEMMA CallerType ==
  ASSUME PoolType, CarryInv, NEW c \in Callers, CallPush(c) \/ Caller(c) \/ (c = Main /\ CallRun)
  PROVE  PoolType'
  <1> USE Kinds
  <1>1. CASE CallPush(c)
    <2>1. pc' = [pc EXCEPT ![c] = "check"] /\ "check" \in CallerLabels
      BY <1>1 DEF CallPush, Goto, CallerLabels
    <2>2. /\ submitted' \in 0 .. MaxTasks /\ in' \in [Callers -> 0 .. MaxTasks]
          /\ \A d \in Callers \ {c} : in'[d] = in[d]
      BY <1>1 DEF CallPush, PoolType
    <2>3. UNCHANGED <<built, singlock, tasks, mutex, got, ran>>
      BY <1>1 DEF CallPush, instance
    <2> QED
      BY <2>1, <2>2, <2>3, MoveType DEF PoolType
  <1>2. CASE c = Main /\ CallRun
    <2>1. pc' = [pc EXCEPT ![c] = "check"] /\ "check" \in CallerLabels
      BY <1>2 DEF CallRun, Goto, CallerLabels
    <2>2. UNCHANGED <<built, singlock, tasks, mutex, in, got, submitted, ran>>
      BY <1>2 DEF CallRun, instance, progress
    <2> QED
      BY <2>1, <2>2, MoveType DEF PoolType
  <1>3. CASE Check(c) \/ Single(c) \/ Recheck(c) \/ Build(c) \/ Publish(c) \/ Release(c)
    <2>1. PICK to \in {"have", "single", "recheck", "release", "build", "publish"} :
            pc' = [pc EXCEPT ![c] = to]
      BY <1>3 DEF Check, Single, Recheck, Build, Publish, Release, Goto
    <2>2. to \in CallerLabels /\ to # "enqueue"
      BY DEF CallerLabels
    <2>3. /\ built' \in Nat /\ singlock' \in Callers \cup {NoThread}
          /\ UNCHANGED <<tasks, mutex, progress>>
      BY <1>3 DEF Check, Single, Recheck, Build, Publish, Release, PoolType, instance, progress
    <2> QED
      BY <2>1, <2>2, <2>3, MoveType DEF PoolType, progress
  <1>4. CASE Push(c) \/ UnlockPush(c)
    <2>1. PICK to \in {"lock", "idle"} : pc' = [pc EXCEPT ![c] = to]
      BY <1>4 DEF Push, UnlockPush, Goto
    <2>2. to \in CallerLabels /\ to # "enqueue"
      BY DEF CallerLabels
    <2>3. /\ mutex' \in Callers \cup Workers \cup {NoThread}
          /\ UNCHANGED <<instance, tasks, progress>>
      BY <1>4 DEF Push, UnlockPush, PoolType
    <2> QED
      BY <2>1, <2>2, <2>3, MoveType DEF PoolType, progress, instance
  <1>5. CASE LockPush(c)
    <2>1. pc' = [pc EXCEPT ![c] = "enqueue"] /\ "enqueue" \in CallerLabels
      BY <1>5 DEF LockPush, Goto, CallerLabels
    <2>2. in[c] \in Tasks
      BY <1>5 DEF LockPush, Goto, CarryInv, PoolType, Tasks
    <2> QED
      BY <1>5, <2>1, <2>2, MoveType DEF LockPush, PoolType, progress, instance
  <1>6. CASE Enqueue(c)
    <2>1. pc' = [pc EXCEPT ![c] = "signal"] /\ "signal" \in CallerLabels
      BY <1>6 DEF Enqueue, Goto, CallerLabels
    <2>2. tasks' \in Seq(Tasks)
      BY <1>6 DEF Enqueue, Goto, PoolType
    <2>3. in' \in [Callers -> 0 .. MaxTasks] /\ \A d \in Callers \ {c} : in'[d] = in[d]
      BY <1>6 DEF Enqueue, PoolType
    <2> QED
      BY <1>6, <2>1, <2>2, <2>3, MoveType DEF Enqueue, PoolType, instance
  <1>7. CASE Signal(c)
    <2>1. /\ pc' \in [Callers \cup Workers -> CallerLabels \cup WorkerLabels]
          /\ pc'[c] = "unlock"
          /\ \A u \in (Callers \cup Workers) \ {c} :
               pc'[u] = pc[u] \/ (u \in Workers /\ pc'[u] = "relock")
      BY <1>7 DEF Signal, WakeOne, At, PoolType, CallerLabels, WorkerLabels
    <2> QED
      BY <1>7, <2>1 DEF Signal, PoolType, instance, progress, CallerLabels, WorkerLabels, Carrying
  <1> QED
    BY <1>1, <1>2, <1>3, <1>4, <1>5, <1>6, <1>7 DEF Caller

(* The steps of a worker.                                                  *)
LEMMA WorkerType ==
  ASSUME PoolType, NEW w \in Workers, Worker(w) \/ Spurious(w) \/ StartWorker(w)
  PROVE  PoolType'
  <1> USE Kinds
  <1>1. CASE LockTake(w) \/ Test(w) \/ Spurious(w)
    <2>1. PICK to \in {"test", "wait", "take", "relock"} : pc' = [pc EXCEPT ![w] = to]
      BY <1>1 DEF LockTake, Test, Spurious, Goto
    <2>2. to \in WorkerLabels /\ to \notin Carrying
      BY DEF WorkerLabels, Carrying
    <2>3. /\ mutex' \in Callers \cup Workers \cup {NoThread}
          /\ UNCHANGED <<built, singlock, tasks, in, got, submitted, ran>>
      BY <1>1 DEF LockTake, Test, Spurious, PoolType, instance, progress
    <2> QED
      BY <2>1, <2>2, <2>3, MoveType DEF PoolType
  <1>2. CASE Take(w)
    <2>1. pc' = [pc EXCEPT ![w] = "unlock"] /\ "unlock" \in WorkerLabels
      BY <1>2 DEF Take, Goto, WorkerLabels
    <2>2. tasks' \in Seq(Tasks) /\ Head(tasks) \in Tasks
      BY <1>2 DEF Take, PoolType
    <2>3. /\ got' \in [Workers -> 0 .. MaxTasks] /\ got'[w] \in Tasks
          /\ \A v \in Workers \ {w} : got'[v] = got[v]
      BY <1>2, <2>2 DEF Take, PoolType, Tasks
    <2>4. UNCHANGED <<built, singlock, mutex, in, submitted, ran>>
      BY <1>2 DEF Take, instance
    <2> QED
      BY <2>1, <2>2, <2>3, <2>4, MoveType DEF PoolType
  <1>3. CASE UnlockTake(w)
    <2>1. pc' = [pc EXCEPT ![w] = "execute"] /\ "execute" \in WorkerLabels
      BY <1>3 DEF UnlockTake, Goto, WorkerLabels
    <2>2. got[w] \in Tasks /\ mutex' = NoThread
      BY <1>3 DEF UnlockTake, Goto, PoolType, Carrying
    <2>3. UNCHANGED <<built, singlock, tasks, in, got, submitted, ran>>
      BY <1>3 DEF UnlockTake, instance, progress
    <2> QED
      BY <2>1, <2>2, <2>3, MoveType DEF PoolType
  <1>4. CASE Execute(w)
    <2>1. /\ pc' = [pc EXCEPT ![w] = "lock"] /\ "lock" \in WorkerLabels
          /\ "lock" \notin Carrying
      BY <1>4 DEF Execute, Goto, WorkerLabels, Carrying
    <2>2. got[w] \in Tasks
      BY <1>4 DEF Execute, Goto, PoolType, Carrying
    <2>3. ran' \in [Tasks -> Nat]
      BY <1>4, <2>2 DEF Execute, PoolType
    <2>4. UNCHANGED <<built, singlock, tasks, mutex, in, got, submitted>>
      BY <1>4 DEF Execute, instance
    <2> QED
      BY <2>1, <2>3, <2>4, MoveType DEF PoolType
  <1>5. CASE Throw(w)
    BY <1>5 DEF Throw, PoolType, instance
  <1>6. CASE StartWorker(w)
    <2>1. UNCHANGED <<built, singlock, tasks, mutex, in, got, submitted, ran>>
      BY <1>6 DEF StartWorker, instance, progress
    <2>2. /\ pc' \in [Callers \cup Workers -> CallerLabels \cup WorkerLabels]
          /\ pc'[w] = "lock" /\ pc'[Main] \in {"idle", "have"}
          /\ \A u \in (Callers \cup Workers) \ {w, Main} : pc'[u] = pc[u]
      BY <1>6 DEF StartWorker, PoolType, CallerLabels, WorkerLabels
    <2> QED
      BY <2>1, <2>2 DEF PoolType, CallerLabels, WorkerLabels, Carrying
  <1> QED
    BY <1>1, <1>2, <1>3, <1>4, <1>5, <1>6 DEF Worker
-----------------------------------------------------------------------------
(* A caller carries nothing initially.                                     *)
LEMMA InitCarry == Init => CarryInv
  BY Kinds DEF Init, CarryInv

(* Who changes what a caller carries: CallPush when it carries nothing,    *)
(* Enqueue when it does.  A worker that was started stays so.              *)
LEMMA CarryStep ==
  ASSUME PoolType, CarryInv, Next
  PROVE  CarryInv'
  <1> USE Kinds
  <1>1. ASSUME NEW c \in Callers, CallPush(c)
        PROVE  CarryInv'
    <2>1. /\ pc' = [pc EXCEPT ![c] = "check"] /\ in' = [in EXCEPT ![c] = submitted + 1]
          /\ c = Main => Unstarted = {}
      BY <1>1 DEF CallPush, Goto
    <2>2. Unstarted' = Unstarted
      BY <2>1 DEF Unstarted, At, PoolType
    <2> QED
      BY <2>1, <2>2 DEF CarryInv, PoolType
  <1>2. ASSUME NEW c \in Callers, Enqueue(c)
        PROVE  CarryInv'
    <2>1. pc' = [pc EXCEPT ![c] = "signal"] /\ in' = [in EXCEPT ![c] = 0]
      BY <1>2 DEF Enqueue, Goto
    <2>2. Unstarted' = Unstarted
      BY <2>1 DEF Unstarted, At, PoolType
    <2> QED
      BY <2>1, <2>2 DEF CarryInv, PoolType
  <1>3. ASSUME NEW c \in Callers,
               \/ CallRun /\ c = Main
               \/ Check(c) \/ Single(c) \/ Recheck(c) \/ Build(c) \/ Publish(c) \/ Release(c)
               \/ Push(c) \/ LockPush(c) \/ UnlockPush(c)
        PROVE  CarryInv'
    <2>1. /\ in' = in
          /\ \/ pc[c] = "idle" /\ pc' = [pc EXCEPT ![c] = "check"]
             \/ \E to \in {"have", "single", "recheck", "release", "build", "publish"} :
                  pc' = [pc EXCEPT ![c] = to]
             \/ pc' = [pc EXCEPT ![c] = "lock"] /\ in[c] # 0
             \/ pc[c] = "lock" /\ pc' = [pc EXCEPT ![c] = "enqueue"]
             \/ pc[c] = "unlock" /\ pc' = [pc EXCEPT ![c] = "idle"]
      BY <1>3 DEF CallRun, Check, Single, Recheck, Build, Publish, Release, Push, LockPush,
                  UnlockPush, Goto, progress
    <2>2. Unstarted' = Unstarted
      BY <2>1 DEF Unstarted, At, PoolType
    <2> QED
      BY <2>1, <2>2 DEF CarryInv, PoolType
  <1>4. ASSUME NEW c \in Callers, Signal(c)
        PROVE  CarryInv'
    <2>1. /\ pc[c] = "signal" /\ pc'[c] = "unlock" /\ in' = in
          /\ \A d \in Callers \ {c} : pc'[d] = pc[d]
          /\ \A w \in Workers : pc'[w] \in {pc[w], "relock"}
      BY <1>4 DEF Signal, WakeOne, At, PoolType, progress
    <2>2. Unstarted' \subseteq Unstarted
      BY <2>1 DEF Unstarted, At
    <2> QED
      BY <2>1, <2>2 DEF CarryInv
  <1>5. ASSUME NEW w \in Workers, Worker(w) \/ Spurious(w)
        PROVE  CarryInv'
    <2>1. /\ in' = in
          /\ \A c \in Callers : pc'[c] = pc[c]
          /\ \A v \in Workers : pc'[v] = pc[v] \/ pc'[v] # "new"
      BY <1>5 DEF Worker, LockTake, Test, Take, UnlockTake, Execute, Throw, Spurious, Goto,
                  progress, PoolType
    <2>2. Unstarted' \subseteq Unstarted
      BY <2>1 DEF Unstarted, At
    <2> QED
      BY <2>1, <2>2 DEF CarryInv
  <1>6. ASSUME NEW w \in Workers, StartWorker(w)
        PROVE  CarryInv'
    <2>1. /\ in' = in /\ pc[w] = "new"
          /\ pc'[Main] \in {"idle", "have"}
          /\ \A c \in Callers \ {Main} : pc'[c] = pc[c]
      BY <1>6 DEF StartWorker, progress, PoolType
    <2>2. in[Main] = 0
      BY <2>1 DEF CarryInv, Unstarted, At
    <2> QED
      BY <2>1, <2>2 DEF CarryInv
  <1> QED
    BY <1>1, <1>2, <1>3, <1>4, <1>5, <1>6 DEF Next, Run, Caller

(* The typing invariant and what callers carry.                            *)
LEMMA ShapeStep ==
  ASSUME PoolType, CarryInv, [Next]_vars
  PROVE  PoolType' /\ CarryInv'
  <1>1. CASE Next
    <2>1. PoolType'
      BY <1>1, CallerType, WorkerType, Kinds DEF Next, Run
    <2> QED
      BY <1>1, <2>1, CarryStep
  <1>2. CASE UNCHANGED vars
    <2>1. PoolType'
      BY <1>2 DEF vars, instance, progress, PoolType
    <2>2. pc' = pc /\ in' = in /\ Unstarted' = Unstarted
      BY <1>2 DEF vars, progress, Unstarted, At
    <2> QED
      BY <2>1, <2>2 DEF CarryInv
  <1> QED
    BY <1>1, <1>2
-----------------------------------------------------------------------------
(* Nobody has built a pool initially.                                      *)
LEMMA InitOne == Init => OneInv
  BY Kinds DEF Init, OneInv, Through

(* The steps that leave the singleton alone: no caller enters or leaves    *)
(* getInstance.                                                            *)
LEMMA OneQuiet ==
  ASSUME OneInv, UNCHANGED instance,
         \A c \in Callers :
           \/ pc'[c] = pc[c]
           \/ pc[c] \in Through /\ pc'[c] \in {"idle"} \cup Through
           \/ pc[c] = "idle" /\ pc'[c] = "check"
  PROVE  OneInv'
  BY DEF OneInv, instance, Through

(* Each step of getInstance.                                               *)
LEMMA OneStep ==
  ASSUME PoolType, OneInv, Next
  PROVE  OneInv'
  <1> USE Kinds
  <1>1. ASSUME NEW c \in Callers, Check(c) PROVE OneInv'
    <2>1. /\ pc[c] = "check" /\ UNCHANGED instance
          /\ pc' = [pc EXCEPT ![c] = IF tp THEN "have" ELSE "single"]
      BY <1>1 DEF Check, Goto
    <2> QED
      BY <2>1 DEF OneInv, PoolType, instance, Through
  <1>2. ASSUME NEW c \in Callers, Single(c) PROVE OneInv'
    <2>1. /\ pc[c] = "single" /\ singlock = NoThread /\ singlock' = c
          /\ UNCHANGED <<tp, built>>
          /\ pc' = [pc EXCEPT ![c] = "recheck"]
      BY <1>2 DEF Single, Goto
    <2> QED
      BY <2>1 DEF OneInv, PoolType, Through
  <1>3. ASSUME NEW c \in Callers, Recheck(c) PROVE OneInv'
    <2>1. /\ pc[c] = "recheck" /\ UNCHANGED instance
          /\ pc' = [pc EXCEPT ![c] = IF tp THEN "release" ELSE "build"]
      BY <1>3 DEF Recheck, Goto
    <2> QED
      BY <2>1 DEF OneInv, PoolType, instance, Through
  <1>4. ASSUME NEW c \in Callers, Build(c) PROVE OneInv'
    <2>1. /\ pc[c] = "build" /\ built' = built + 1 /\ UNCHANGED <<tp, singlock>>
          /\ pc' = [pc EXCEPT ![c] = "publish"]
      BY <1>4 DEF Build, Goto
    <2>2. ~tp /\ \A d \in Callers : pc[d] # "publish"
      BY <2>1 DEF OneInv
    <2>3. built' = 1
      BY <2>1, <2>2 DEF OneInv
    <2> QED
      BY <2>1, <2>2, <2>3 DEF OneInv, PoolType, Through
  <1>5. ASSUME NEW c \in Callers, Publish(c) PROVE OneInv'
    <2>1. /\ pc[c] = "publish" /\ tp' = TRUE /\ UNCHANGED <<built, singlock>>
          /\ pc' = [pc EXCEPT ![c] = "release"]
      BY <1>5 DEF Publish, Goto
    <2>2. built' = 1 /\ \A d \in Callers \ {c} : pc[d] \notin {"build", "publish"}
      BY <2>1 DEF OneInv
    <2> QED
      BY <2>1, <2>2 DEF OneInv, PoolType, Through
  <1>6. ASSUME NEW c \in Callers, Release(c) PROVE OneInv'
    <2>1. /\ pc[c] = "release" /\ singlock' = NoThread /\ UNCHANGED <<tp, built>>
          /\ pc' = [pc EXCEPT ![c] = "have"]
      BY <1>6 DEF Release, Goto
    <2> QED
      BY <2>1 DEF OneInv, PoolType, Through
  <1>7. ASSUME NEW c \in Callers,
               \/ CallRun /\ c = Main
               \/ CallPush(c) \/ Push(c) \/ LockPush(c) \/ Enqueue(c) \/ UnlockPush(c)
        PROVE  OneInv'
    <2>1. /\ UNCHANGED instance
          /\ \/ pc[c] = "idle" /\ pc' = [pc EXCEPT ![c] = "check"]
             \/ pc[c] \in Through /\ \E to \in {"idle"} \cup Through : pc' = [pc EXCEPT ![c] = to]
      BY <1>7 DEF CallRun, CallPush, Push, LockPush, Enqueue, UnlockPush, Goto, Through
    <2> QED
      BY <2>1, OneQuiet DEF PoolType
  <1>8. ASSUME NEW c \in Callers, Signal(c) PROVE OneInv'
    <2>1. /\ UNCHANGED instance /\ pc[c] = "signal" /\ pc'[c] = "unlock"
          /\ \A d \in Callers \ {c} : pc'[d] = pc[d]
      BY <1>8 DEF Signal, WakeOne, At, PoolType
    <2> QED
      BY <2>1, OneQuiet DEF Through
  <1>9. ASSUME NEW w \in Workers, Worker(w) \/ Spurious(w) PROVE OneInv'
    <2>1. UNCHANGED instance /\ \A c \in Callers : pc'[c] = pc[c]
      BY <1>9 DEF Worker, LockTake, Test, Take, UnlockTake, Execute, Throw, Spurious, Goto, PoolType
    <2> QED
      BY <2>1, OneQuiet
  <1>10. ASSUME NEW w \in Workers, StartWorker(w) PROVE OneInv'
    <2>1. /\ UNCHANGED instance /\ pc[Main] = "have" /\ pc'[Main] \in {"idle", "have"}
          /\ \A c \in Callers \ {Main} : pc'[c] = pc[c]
      BY <1>10 DEF StartWorker, PoolType
    <2> QED
      BY <2>1, OneQuiet DEF Through
  <1> QED
    BY <1>1, <1>2, <1>3, <1>4, <1>5, <1>6, <1>7, <1>8, <1>9, <1>10 DEF Next, Run, Caller

(* Each step, or none.                                                     *)
LEMMA OneNext ==
  ASSUME PoolType, OneInv, [Next]_vars
  PROVE  OneInv'
  <1>1. CASE UNCHANGED vars
    BY <1>1, OneQuiet DEF vars, instance
  <1> QED
    BY <1>1, OneStep

(* OnePool follows from OneInv.                                            *)
LEMMA OneInvGivesOnePool == OneInv => OnePool
  BY DEF OneInv, OnePool, Through, At

(* However many threads ask for the pool, one is constructed               *)
(* (ThreadPool.hpp:94-106).                                                *)
THEOREM OneForAll == Spec => []OnePool
  <1>1. Init => PoolType /\ CarryInv /\ OneInv
    BY InitType, InitCarry, InitOne
  <1>2. PoolType /\ CarryInv /\ OneInv /\ [Next]_vars => (PoolType /\ CarryInv /\ OneInv)'
    BY ShapeStep, OneNext
  <1> QED
    BY <1>1, <1>2, OneInvGivesOnePool, PTL DEF Spec
-----------------------------------------------------------------------------
(* The workers that will look for a task.                                  *)
Awake == {"relock", "test", "take"}

Takers == Cardinality(At(Workers, Awake))
Signals == Cardinality(At(Callers, {"signal"}))

(* NoLostWakeup in these words, now and in the next state.                 *)
LEMMA WakeupForm ==
  /\ NoLostWakeup <=>
       ((\E w \in Workers : pc[w] = "wait") => Len(tasks) <= Takers + Signals)
  /\ NoLostWakeup' <=>
       ((\E w \in Workers : pc'[w] = "wait") => Len(tasks') <= Takers' + Signals')
  BY DEF NoLostWakeup, Takers, Signals, At, Awake

(* How many are at some labels is a natural number.                        *)
LEMMA AtCount ==
  ASSUME NEW T \in {Workers, Callers}, NEW labels
  PROVE  /\ Cardinality(At(T, labels)) \in Nat
         /\ Cardinality(At(T, labels)') \in Nat
  <1>1. IsFiniteSet(T)
    BY PoolAssumption
  <1>2. /\ At(T, labels) \subseteq T
        /\ At(T, labels)' \subseteq T
    BY DEF At
  <1>3. /\ IsFiniteSet(At(T, labels))
        /\ IsFiniteSet(At(T, labels)')
    BY <1>1, <1>2, FS_Subset
  <1> QED
    BY <1>3, FS_CardinalityType

(* Both numbers are natural.                                               *)
LEMMA SupplyType ==
  /\ Takers \in Nat /\ Signals \in Nat
  /\ Takers' \in Nat /\ Signals' \in Nat
  <1>1. /\ Cardinality(At(Workers, Awake)) \in Nat
        /\ Cardinality(At(Workers, Awake)') \in Nat
    BY AtCount
  <1>2. /\ Cardinality(At(Callers, {"signal"})) \in Nat
        /\ Cardinality(At(Callers, {"signal"})') \in Nat
    BY AtCount
  <1> QED
    BY <1>1, <1>2 DEF Takers, Signals

(* One worker moves.                                                       *)
LEMMA TakersCount ==
  ASSUME NEW w \in Workers, \A v \in Workers \ {w} : pc'[v] = pc[v]
  PROVE  Takers' = Takers + (IF pc'[w] \in Awake THEN 1 ELSE 0)
                          - (IF pc[w] \in Awake THEN 1 ELSE 0)
  <1>1. Counted(Workers, pc', Awake) =
          Counted(Workers, pc, Awake)
            + (IF pc'[w] \in Awake THEN 1 ELSE 0) - (IF pc[w] \in Awake THEN 1 ELSE 0)
    BY CountedMove, PoolAssumption
  <1> QED
    BY <1>1 DEF Takers, At, Counted

(* One caller moves.                                                       *)
LEMMA SignalsCount ==
  ASSUME NEW c \in Callers, \A d \in Callers \ {c} : pc'[d] = pc[d]
  PROVE  Signals' = Signals + (IF pc'[c] \in {"signal"} THEN 1 ELSE 0)
                            - (IF pc[c] \in {"signal"} THEN 1 ELSE 0)
  <1>1. Counted(Callers, pc', {"signal"}) =
          Counted(Callers, pc, {"signal"})
            + (IF pc'[c] \in {"signal"} THEN 1 ELSE 0) - (IF pc[c] \in {"signal"} THEN 1 ELSE 0)
    BY CountedMove, PoolAssumption
  <1> QED
    BY <1>1 DEF Signals, At, Counted

(* A worker moves and no caller begins or ends to signal.                  *)
LEMMA WorkerMoves ==
  ASSUME NEW w \in Workers,
         \A v \in Workers \ {w} : pc'[v] = pc[v],
         \A c \in Callers : pc'[c] = "signal" <=> pc[c] = "signal"
  PROVE  /\ Takers' = Takers + (IF pc'[w] \in Awake THEN 1 ELSE 0)
                             - (IF pc[w] \in Awake THEN 1 ELSE 0)
         /\ Signals' = Signals
  <1>1. Takers' = Takers + (IF pc'[w] \in Awake THEN 1 ELSE 0)
                         - (IF pc[w] \in Awake THEN 1 ELSE 0)
    BY TakersCount
  <1>2. At(Callers, {"signal"})' = At(Callers, {"signal"})
    BY DEF At
  <1> QED
    BY <1>1, <1>2 DEF Signals

(* A caller moves and no worker does.                                      *)
LEMMA CallerMoves ==
  ASSUME NEW c \in Callers,
         \A d \in Callers \ {c} : pc'[d] = pc[d],
         \A w \in Workers : pc'[w] = pc[w]
  PROVE  /\ Signals' = Signals + (IF pc'[c] = "signal" THEN 1 ELSE 0)
                               - (IF pc[c] = "signal" THEN 1 ELSE 0)
         /\ Takers' = Takers
  <1>1. Signals' = Signals + (IF pc'[c] \in {"signal"} THEN 1 ELSE 0)
                           - (IF pc[c] \in {"signal"} THEN 1 ELSE 0)
    BY SignalsCount
  <1>2. At(Workers, Awake)' = At(Workers, Awake)
    BY DEF At
  <1> QED
    BY <1>1, <1>2 DEF Takers

(* Nobody sleeps initially.                                                *)
LEMMA InitWakeup == Init => NoLostWakeup
  BY WakeupForm, Kinds DEF Init

(* A push adds a task and the promise of a signal; a signal wakes a worker *)
(* if one sleeps; a worker that is awake takes a task, or goes to sleep    *)
(* when there is none.                                                     *)
LEMMA WakeupStep ==
  ASSUME PoolType, NoLostWakeup, Next
  PROVE  NoLostWakeup'
  <1> USE Kinds
  <1>1. ASSUME NEW c \in Callers,
               \/ CallRun /\ c = Main
               \/ CallPush(c) \/ Check(c) \/ Single(c) \/ Recheck(c) \/ Build(c)
               \/ Publish(c) \/ Release(c) \/ Push(c) \/ LockPush(c) \/ UnlockPush(c)
        PROVE  NoLostWakeup'
    <2>1. /\ tasks' = tasks /\ pc[c] # "signal"
          /\ \E to \in CallerLabels \ {"signal"} : pc' = [pc EXCEPT ![c] = to]
      BY <1>1 DEF CallRun, CallPush, Check, Single, Recheck, Build, Publish, Release, Push,
                  LockPush, UnlockPush, Goto, CallerLabels
    <2>2. /\ pc'[c] # "signal"
          /\ \A d \in Callers \ {c} : pc'[d] = pc[d]
          /\ \A w \in Workers : pc'[w] = pc[w]
      BY <2>1 DEF PoolType
    <2>3. Signals' = Signals /\ Takers' = Takers
      BY <2>1, <2>2, CallerMoves, SupplyType
    <2> QED
      BY <2>1, <2>2, <2>3, WakeupForm
  <1>2. ASSUME NEW c \in Callers, Enqueue(c) PROVE NoLostWakeup'
    <2>1. /\ pc[c] = "enqueue" /\ pc'[c] = "signal"
          /\ \A d \in Callers \ {c} : pc'[d] = pc[d]
          /\ \A w \in Workers : pc'[w] = pc[w]
      BY <1>2 DEF Enqueue, Goto, PoolType
    <2>2. Len(tasks') = Len(tasks) + 1 /\ Len(tasks) \in Nat
      BY <1>2 DEF Enqueue, PoolType
    <2>3. Signals' = Signals + 1 /\ Takers' = Takers
      BY <2>1, CallerMoves, SupplyType
    <2> QED
      BY <2>1, <2>2, <2>3, WakeupForm, SupplyType
  <1>3. ASSUME NEW c \in Callers, Signal(c) PROVE NoLostWakeup'
    <2>1. pc[c] = "signal" /\ tasks' = tasks
      BY <1>3 DEF Signal
    <2>2. CASE At(Workers, {"wait"}) = {} /\ pc' = [pc EXCEPT ![c] = "unlock"]
      <3>1. \A w \in Workers : pc'[w] # "wait"
        BY <2>2 DEF At, PoolType
      <3> QED
        BY <3>1, WakeupForm
    <2>3. ASSUME NEW w \in At(Workers, {"wait"}),
                 pc' = [pc EXCEPT ![c] = "unlock", ![w] = "relock"]
          PROVE  NoLostWakeup'
      <3>1. w \in Workers /\ pc[w] = "wait"
        BY DEF At
      <3>2. /\ pc'[c] = "unlock" /\ pc'[w] = "relock"
            /\ \A d \in Callers \ {c} : pc'[d] = pc[d]
            /\ \A v \in Workers \ {w} : pc'[v] = pc[v]
        BY <2>3, <3>1 DEF PoolType
      <3>3. Takers' = Takers + (IF pc'[w] \in Awake THEN 1 ELSE 0)
                             - (IF pc[w] \in Awake THEN 1 ELSE 0)
        BY <3>1, <3>2, TakersCount
      <3>4. Signals' = Signals + (IF pc'[c] \in {"signal"} THEN 1 ELSE 0)
                               - (IF pc[c] \in {"signal"} THEN 1 ELSE 0)
        BY <3>2, SignalsCount
      <3>5. Takers' = Takers + 1 /\ Signals' = Signals - 1
        BY <2>1, <3>1, <3>2, <3>3, <3>4, SupplyType DEF Awake
      <3> QED
        BY <2>1, <3>1, <3>5, WakeupForm, SupplyType
    <2> QED
      BY <1>3, <2>2, <2>3 DEF Signal, WakeOne
  <1>4. ASSUME NEW w \in Workers,
               LockTake(w) \/ UnlockTake(w) \/ Execute(w) \/ Throw(w) \/ Spurious(w)
        PROVE  NoLostWakeup'
    <2>1. /\ tasks' = tasks
          /\ \A v \in Workers \ {w} : pc'[v] = pc[v]
          /\ \A c \in Callers : pc'[c] = pc[c]
          /\ pc'[w] # "wait" \/ pc'[w] = pc[w]
          /\ pc[w] \in Awake => pc'[w] \in Awake
      BY <1>4 DEF LockTake, UnlockTake, Execute, Throw, Spurious, Goto, PoolType, Awake
    <2>2. Takers' >= Takers /\ Signals' = Signals /\ Takers' \in Int
      BY <2>1, WorkerMoves, SupplyType
    <2>3. Len(tasks) \in Nat
      BY DEF PoolType
    <2> QED
      BY <2>1, <2>2, <2>3, WakeupForm, SupplyType
  <1>5. ASSUME NEW w \in Workers, Test(w) PROVE NoLostWakeup'
    <2>1. /\ tasks' = tasks /\ pc[w] = "test"
          /\ \A v \in Workers \ {w} : pc'[v] = pc[v]
          /\ \A c \in Callers : pc'[c] = pc[c]
          /\ (tasks = <<>> /\ pc'[w] = "wait") \/ pc'[w] = "take"
      BY <1>5 DEF Test, Goto, PoolType
    <2>2. CASE tasks = <<>>
      <3>1. Len(tasks') = 0
        BY <2>1, <2>2
      <3>2. Takers' \in Nat /\ Signals' \in Nat
        BY SupplyType
      <3>3. \A n, m \in Nat : 0 <= n + m
        OBVIOUS
      <3>4. 0 <= Takers' + Signals'
        BY <3>2, <3>3, Zenon
      <3>5. Len(tasks') <= Takers' + Signals'
        BY <3>1, <3>4
      <3> QED
        BY <3>5, WakeupForm
    <2>3. CASE pc'[w] = "take"
      <3>1. Takers' = Takers /\ Signals' = Signals
        BY <2>1, <2>3, WorkerMoves, SupplyType DEF Awake
      <3> QED
        BY <2>1, <2>3, <3>1, WakeupForm
    <2> QED
      BY <2>1, <2>2, <2>3
  <1>6. ASSUME NEW w \in Workers, Take(w) PROVE NoLostWakeup'
    <2>1. /\ pc[w] = "take" /\ pc'[w] = "unlock"
          /\ \A v \in Workers \ {w} : pc'[v] = pc[v]
          /\ \A c \in Callers : pc'[c] = pc[c]
      BY <1>6 DEF Take, Goto, PoolType
    <2>2. Len(tasks') = Len(tasks) - 1 /\ Len(tasks) \in Nat
      BY <1>6 DEF Take, PoolType
    <2>3. Takers' = Takers - 1 /\ Signals' = Signals
      BY <2>1, WorkerMoves, SupplyType DEF Awake
    <2> QED
      BY <2>1, <2>2, <2>3, WakeupForm, SupplyType
  <1>7. ASSUME NEW w \in Workers, StartWorker(w) PROVE NoLostWakeup'
    <2>1. /\ tasks' = tasks /\ pc[w] = "new" /\ pc'[w] = "lock"
          /\ pc[Main] = "have" /\ pc'[Main] \in {"have", "idle"}
          /\ \A v \in Workers \ {w} : pc'[v] = pc[v]
          /\ \A c \in Callers \ {Main} : pc'[c] = pc[c]
      BY <1>7 DEF StartWorker, PoolType
    <2>2. Takers' = Takers /\ Signals' = Signals
      BY <2>1, WorkerMoves, SupplyType DEF Awake
    <2> QED
      BY <2>1, <2>2, WakeupForm
  <1> QED
    BY <1>1, <1>2, <1>3, <1>4, <1>5, <1>6, <1>7 DEF Next, Run, Caller, Worker

(* The one signal of each push leaves no worker asleep that could take a   *)
(* task (ThreadPool.hpp:35-40, 76-79).                                     *)
THEOREM OneSignalIsEnough == Spec => []NoLostWakeup
  <1>1. Init => PoolType /\ CarryInv /\ NoLostWakeup
    BY InitType, InitCarry, InitWakeup
  <1>2. PoolType /\ CarryInv /\ NoLostWakeup /\ [Next]_vars
          => (PoolType /\ CarryInv /\ NoLostWakeup)'
    <2> SUFFICES ASSUME PoolType, CarryInv, NoLostWakeup, [Next]_vars
                 PROVE  NoLostWakeup'
      BY ShapeStep
    <2>1. CASE UNCHANGED vars
      BY <2>1 DEF vars, NoLostWakeup, At
    <2> QED
      BY <2>1, WakeupStep
  <1> QED
    BY <1>1, <1>2, PTL DEF Spec
-----------------------------------------------------------------------------
(* The task a worker holds, 0 for none.                                    *)
hold == [w \in Workers |-> IF pc[w] \in Carrying THEN got[w] ELSE 0]

(* How often n occurs in a sequence.                                       *)
Occur(s, n) == Cardinality({i \in DOMAIN s : s[i] = n})

(* Where task n may be.                                                    *)
InHand(n) == Cardinality({c \in Callers : in[c] \in {n}})
Queued(n) == Occur(tasks, n)
Held(n) == Cardinality({w \in Workers : hold[w] \in {n}})

(* EachTaskOnce, and the tasks not yet submitted are nowhere.              *)
PlaceInv ==
  \A n \in Tasks :
    InHand(n) + Queued(n) + Held(n) + ran[n] = IF n <= submitted THEN 1 ELSE 0

(* How often n occurs in a sequence with one more element.                 *)
LEMMA AppendCount ==
  ASSUME NEW S, NEW s \in Seq(S), NEW x \in S, NEW n
  PROVE  /\ Occur(s, n) \in Nat
         /\ Occur(Append(s, x), n) = Occur(s, n) + (IF x = n THEN 1 ELSE 0)
  <1> DEFINE A == {i \in DOMAIN s : s[i] = n}
             B == {i \in DOMAIN Append(s, x) : Append(s, x)[i] = n}
             k == Len(s) + 1
  <1>1. Len(s) \in Nat /\ DOMAIN s = 1 .. Len(s)
    OBVIOUS
  <1>2. IsFiniteSet(A)
    <2>1. IsFiniteSet(1 .. Len(s))
      BY <1>1, FS_Interval
    <2> QED
      BY <1>1, <2>1, FS_Subset
  <1>3. Cardinality(A) \in Nat
    BY <1>2, FS_CardinalityType
  <1>4. /\ DOMAIN Append(s, x) = 1 .. k
        /\ Append(s, x)[k] = x
        /\ \A i \in DOMAIN s : Append(s, x)[i] = s[i]
    BY <1>1
  <1>5. k \notin A
    BY <1>1
  <1>6. B = IF x = n THEN A \cup {k} ELSE A
    BY <1>1, <1>4
  <1>7. Cardinality(A \cup {k}) = Cardinality(A) + 1
    BY <1>2, <1>5, FS_AddElement
  <1> HIDE DEF A, B
  <1>8. Cardinality(B) = Cardinality(A) + (IF x = n THEN 1 ELSE 0)
    BY <1>3, <1>6, <1>7
  <1> QED
    BY <1>3, <1>8 DEF A, B, Occur

(* How often n occurs in the rest of a sequence.                           *)
LEMMA TailCount ==
  ASSUME NEW S, NEW s \in Seq(S), s # <<>>, NEW n
  PROVE  /\ Occur(s, n) \in Nat
         /\ Occur(Tail(s), n) = Occur(s, n) - (IF Head(s) = n THEN 1 ELSE 0)
  <1> DEFINE A == {i \in DOMAIN s : s[i] = n}
             B == {i \in DOMAIN Tail(s) : Tail(s)[i] = n}
             f == [i \in A \ {1} |-> i - 1]
  <1>1. /\ Len(s) \in Nat \ {0} /\ DOMAIN s = 1 .. Len(s)
        /\ Head(s) = s[1] /\ Tail(s) \in Seq(S) /\ Len(Tail(s)) = Len(s) - 1
        /\ DOMAIN Tail(s) = 1 .. Len(s) - 1
        /\ \A i \in 1 .. Len(s) - 1 : Tail(s)[i] = s[i + 1]
    OBVIOUS
  <1>2. IsFiniteSet(A)
    <2>1. IsFiniteSet(1 .. Len(s))
      BY <1>1, FS_Interval
    <2> QED
      BY <1>1, <2>1, FS_Subset
  <1>3. Cardinality(A) \in Nat
    BY <1>2, FS_CardinalityType
  <1>4. 1 \in A <=> Head(s) = n
    BY <1>1
  <1>5. /\ IsFiniteSet(A \ {1})
        /\ Cardinality(A \ {1}) = Cardinality(A) - (IF Head(s) = n THEN 1 ELSE 0)
    <2>1. /\ IsFiniteSet(A \ {1})
          /\ Cardinality(A \ {1}) = IF 1 \in A THEN Cardinality(A) - 1 ELSE Cardinality(A)
      BY <1>2, FS_RemoveElement
    <2> HIDE DEF A
    <2> QED
      BY <1>3, <1>4, <2>1
  <1>6. f \in Bijection(A \ {1}, B)
    <2>1. f \in [A \ {1} -> B]
      BY <1>1
    <2>2. \A i, j \in A \ {1} : f[i] = f[j] => i = j
      BY <1>1
    <2>3. \A j \in B : j + 1 \in A \ {1} /\ f[j + 1] = j
      BY <1>1
    <2> HIDE DEF A, B, f
    <2> QED
      BY <2>1, <2>2, <2>3, Fun_IsBij
  <1>7. Cardinality(B) = Cardinality(A \ {1})
    <2>1. ExistsBijection(A \ {1}, B)
      BY <1>6 DEF ExistsBijection
    <2> HIDE DEF A, B
    <2> QED
      BY <1>5, <2>1, FS_Bijection
  <1> HIDE DEF A, B
  <1> QED
    BY <1>3, <1>5, <1>7 DEF A, B, Occur

(* The numbers are natural.                                                *)
LEMMA PlaceType ==
  ASSUME PoolType, NEW n \in Tasks
  PROVE  /\ InHand(n) \in Nat /\ Queued(n) \in Nat
         /\ Held(n) \in Nat /\ ran[n] \in Nat
  <1>1. IsFiniteSet(Workers) /\ IsFiniteSet(Callers)
    BY PoolAssumption
  <1>2. IsFiniteSet({c \in Callers : in[c] \in {n}}) /\ IsFiniteSet({w \in Workers : hold[w] \in {n}})
    BY <1>1, FS_Subset
  <1>3. InHand(n) \in Nat /\ Held(n) \in Nat
    BY <1>2, FS_CardinalityType DEF InHand, Held
  <1>4. tasks \in Seq(Tasks) /\ ran[n] \in Nat
    BY DEF PoolType
  <1>5. Queued(n) \in Nat
    BY <1>4, AppendCount DEF Queued
  <1> QED
    BY <1>3, <1>4, <1>5

(* What a caller has in hand changes.                                      *)
LEMMA HandMoves ==
  ASSUME NEW c \in Callers, \A d \in Callers \ {c} : in'[d] = in[d], NEW n
  PROVE  InHand(n)' = InHand(n) + (IF in'[c] = n THEN 1 ELSE 0) - (IF in[c] = n THEN 1 ELSE 0)
  <1>1. IsFiniteSet(Callers)
    BY PoolAssumption
  <1> DEFINE L == {n}
  <1> HIDE DEF L
  <1>2. Counted(Callers, in', L) =
          Counted(Callers, in, L)
            + (IF in'[c] \in L THEN 1 ELSE 0) - (IF in[c] \in L THEN 1 ELSE 0)
    BY <1>1, CountedMove
  <1> QED
    BY <1>2 DEF InHand, L, Counted

(* What a worker holds changes.                                            *)
LEMMA HeldMoves ==
  ASSUME NEW w \in Workers, \A v \in Workers \ {w} : hold'[v] = hold[v], NEW n
  PROVE  Held(n)' = Held(n) + (IF hold'[w] = n THEN 1 ELSE 0) - (IF hold[w] = n THEN 1 ELSE 0)
  <1>1. IsFiniteSet(Workers)
    BY PoolAssumption
  <1> DEFINE L == {n}
  <1> HIDE DEF L
  <1> DEFINE h == hold
             g == hold'
  <1>2. \A v \in Workers \ {w} : g[v] = h[v]
    OBVIOUS
  <1> HIDE DEF h, g
  <1>3. Counted(Workers, g, L) =
          Counted(Workers, h, L)
            + (IF g[w] \in L THEN 1 ELSE 0) - (IF h[w] \in L THEN 1 ELSE 0)
    BY <1>1, <1>2, CountedMove
  <1> QED
    BY <1>3 DEF Held, L, h, g, Counted

(* The steps that move no task.                                            *)
LEMMA PlaceQuiet ==
  ASSUME PlaceInv, UNCHANGED <<tasks, in, submitted, ran>>,
         \A w \in Workers : hold'[w] = hold[w]
  PROVE  PlaceInv'
  <1>1. ASSUME NEW n \in Tasks
        PROVE  InHand(n)' = InHand(n) /\ Queued(n)' = Queued(n) /\ Held(n)' = Held(n)
    BY DEF InHand, Queued, Held
  <1> QED
    BY <1>1 DEF PlaceInv

(* Nothing is anywhere initially.                                          *)
LEMMA InitPlace == Init => PlaceInv
  <1> SUFFICES ASSUME Init, NEW n \in Tasks
               PROVE  InHand(n) + Queued(n) + Held(n) + ran[n] = IF n <= submitted THEN 1 ELSE 0
    BY DEF PlaceInv
  <1>1. n \in Nat /\ n > 0
    BY PoolAssumption DEF Tasks
  <1>2. {c \in Callers : in[c] \in {n}} = {}
    BY <1>1 DEF Init
  <1>3. {i \in DOMAIN tasks : tasks[i] = n} = {}
    BY DEF Init
  <1>4. \A w \in Workers : pc[w] = "new"
    BY Kinds DEF Init
  <1>5. {w \in Workers : hold[w] \in {n}} = {}
    BY <1>1, <1>4 DEF hold, Carrying
  <1>6. InHand(n) = 0 /\ Queued(n) = 0 /\ Held(n) = 0
    BY <1>2, <1>3, <1>5, FS_EmptySet DEF InHand, Queued, Held, Occur
  <1>7. ran[n] = 0 /\ submitted = 0
    BY DEF Init
  <1> QED
    BY <1>1, <1>6, <1>7

(* What a worker holds changes when it takes or executes a task.           *)
LEMMA HoldSame ==
  ASSUME NEW w \in Workers, got'[w] = got[w], pc'[w] \in Carrying <=> pc[w] \in Carrying
  PROVE  hold'[w] = hold[w]
  BY DEF hold

(* A task moves from the hand to the queue, from there to a worker, and is *)
(* executed by it; the next number is nowhere when it is given out.        *)
LEMMA PlaceStep ==
  ASSUME PoolType, CarryInv, PlaceInv, Next
  PROVE  PlaceInv'
  <1> USE Kinds
  <1>1. ASSUME NEW c \in Callers, CallPush(c) PROVE PlaceInv'
    <2>1. /\ in[c] = 0 /\ in'[c] = submitted + 1
          /\ \A d \in Callers \ {c} : in'[d] = in[d]
          /\ submitted' = submitted + 1 /\ UNCHANGED <<tasks, ran>>
      BY <1>1 DEF CallPush, Goto, CarryInv, PoolType
    <2>2. \A w \in Workers : hold'[w] = hold[w]
      BY <1>1 DEF CallPush, Goto, PoolType, hold
    <2> SUFFICES ASSUME NEW n \in Tasks
                 PROVE  InHand(n)' + Queued(n)' + Held(n)' + ran'[n]
                          = IF n <= submitted' THEN 1 ELSE 0
      BY DEF PlaceInv
    <2>3. InHand(n)' = InHand(n) + (IF n = submitted + 1 THEN 1 ELSE 0)
      <3>1. in[c] # n
        BY <2>1 DEF Tasks
      <3>2. InHand(n)' = InHand(n) + (IF in'[c] = n THEN 1 ELSE 0) - (IF in[c] = n THEN 1 ELSE 0)
        BY <2>1, HandMoves
      <3>3. InHand(n) \in Nat /\ Held(n) \in Nat
        BY PlaceType
      <3> QED
        BY <2>1, <3>1, <3>2, <3>3
    <2>4. Queued(n)' = Queued(n) /\ Held(n)' = Held(n)
      BY <2>1, <2>2 DEF Queued, Held
    <2>5. InHand(n) + Queued(n) + Held(n) + ran[n] = IF n <= submitted THEN 1 ELSE 0
      BY DEF PlaceInv
    <2>6. n \in Nat /\ submitted \in Nat
      BY DEF Tasks, PoolType
    <2>7. InHand(n) \in Nat /\ Queued(n) \in Nat /\ Held(n) \in Nat /\ ran[n] \in Nat
      BY PlaceType
    <2>8. submitted' = submitted + 1 /\ ran' = ran
      BY <2>1
    <2> QED
      BY <2>3, <2>4, <2>5, <2>6, <2>7, <2>8
  <1>2. ASSUME NEW c \in Callers, Enqueue(c) PROVE PlaceInv'
    <2>1. /\ in[c] \in Tasks /\ in'[c] = 0
          /\ \A d \in Callers \ {c} : in'[d] = in[d]
          /\ tasks' = Append(tasks, in[c]) /\ UNCHANGED <<submitted, ran>>
      BY <1>2 DEF Enqueue, Goto, PoolType
    <2>2. \A w \in Workers : hold'[w] = hold[w]
      BY <1>2 DEF Enqueue, Goto, PoolType, hold
    <2> SUFFICES ASSUME NEW n \in Tasks
                 PROVE  InHand(n)' + Queued(n)' + Held(n)' + ran'[n]
                          = IF n <= submitted' THEN 1 ELSE 0
      BY DEF PlaceInv
    <2>3. InHand(n)' = InHand(n) - (IF in[c] = n THEN 1 ELSE 0)
      <3>1. in'[c] # n
        BY <2>1 DEF Tasks
      <3>2. InHand(n)' = InHand(n) + (IF in'[c] = n THEN 1 ELSE 0) - (IF in[c] = n THEN 1 ELSE 0)
        BY <2>1, HandMoves
      <3>3. InHand(n) \in Nat /\ Held(n) \in Nat
        BY PlaceType
      <3> QED
        BY <3>1, <3>2, <3>3
    <2>4. Queued(n)' = Queued(n) + (IF in[c] = n THEN 1 ELSE 0)
      BY <2>1, AppendCount DEF Queued, PoolType
    <2>5. Held(n)' = Held(n)
      BY <2>2 DEF Held
    <2>6. InHand(n) + Queued(n) + Held(n) + ran[n] = IF n <= submitted THEN 1 ELSE 0
      BY DEF PlaceInv
    <2>7. InHand(n) \in Nat /\ Queued(n) \in Nat /\ Held(n) \in Nat /\ ran[n] \in Nat
      BY PlaceType
    <2>8. submitted' = submitted /\ ran' = ran
      BY <2>1
    <2> QED
      BY <2>3, <2>4, <2>5, <2>6, <2>7, <2>8
  <1>3. ASSUME NEW w \in Workers, Take(w) PROVE PlaceInv'
    <2>1. /\ tasks # <<>> /\ tasks \in Seq(Tasks) /\ tasks' = Tail(tasks)
          /\ pc[w] = "take" /\ pc'[w] = "unlock" /\ got'[w] = Head(tasks)
          /\ \A v \in Workers \ {w} : pc'[v] = pc[v] /\ got'[v] = got[v]
          /\ UNCHANGED <<in, submitted, ran>>
      BY <1>3 DEF Take, Goto, PoolType
    <2>2. /\ hold[w] = 0 /\ hold'[w] = Head(tasks)
          /\ \A v \in Workers \ {w} : hold'[v] = hold[v]
      BY <2>1 DEF hold, Carrying
    <2> SUFFICES ASSUME NEW n \in Tasks
                 PROVE  InHand(n)' + Queued(n)' + Held(n)' + ran'[n]
                          = IF n <= submitted' THEN 1 ELSE 0
      BY DEF PlaceInv
    <2>3. Held(n)' = Held(n) + (IF Head(tasks) = n THEN 1 ELSE 0)
      <3>1. hold[w] # n
        BY <2>2 DEF Tasks
      <3>2. Held(n)' = Held(n) + (IF hold'[w] = n THEN 1 ELSE 0) - (IF hold[w] = n THEN 1 ELSE 0)
        BY <2>2, HeldMoves
      <3>3. InHand(n) \in Nat /\ Held(n) \in Nat
        BY PlaceType
      <3> QED
        BY <2>2, <3>1, <3>2, <3>3
    <2>4. Queued(n)' = Queued(n) - (IF Head(tasks) = n THEN 1 ELSE 0)
      BY <2>1, TailCount DEF Queued
    <2>5. InHand(n)' = InHand(n)
      BY <2>1 DEF InHand
    <2>6. InHand(n) + Queued(n) + Held(n) + ran[n] = IF n <= submitted THEN 1 ELSE 0
      BY DEF PlaceInv
    <2>7. InHand(n) \in Nat /\ Queued(n) \in Nat /\ Held(n) \in Nat /\ ran[n] \in Nat
      BY PlaceType
    <2>8. submitted' = submitted /\ ran' = ran
      BY <2>1
    <2> QED
      BY <2>3, <2>4, <2>5, <2>6, <2>7, <2>8
  <1>4. ASSUME NEW w \in Workers, Execute(w) PROVE PlaceInv'
    <2>1. /\ pc[w] = "execute" /\ pc'[w] = "lock" /\ got[w] \in Tasks
          /\ \A v \in Workers \ {w} : pc'[v] = pc[v] /\ got'[v] = got[v]
          /\ ran' = [ran EXCEPT ![got[w]] = @ + 1]
          /\ UNCHANGED <<tasks, in, submitted>>
      BY <1>4 DEF Execute, Goto, PoolType, Carrying
    <2>2. /\ hold[w] = got[w] /\ hold'[w] = 0
          /\ \A v \in Workers \ {w} : hold'[v] = hold[v]
      BY <2>1 DEF hold, Carrying
    <2> SUFFICES ASSUME NEW n \in Tasks
                 PROVE  InHand(n)' + Queued(n)' + Held(n)' + ran'[n]
                          = IF n <= submitted' THEN 1 ELSE 0
      BY DEF PlaceInv
    <2>3. Held(n)' = Held(n) - (IF got[w] = n THEN 1 ELSE 0)
      <3>1. hold'[w] # n
        BY <2>2 DEF Tasks
      <3>2. Held(n)' = Held(n) + (IF hold'[w] = n THEN 1 ELSE 0) - (IF hold[w] = n THEN 1 ELSE 0)
        BY <2>2, HeldMoves
      <3>3. InHand(n) \in Nat /\ Held(n) \in Nat
        BY PlaceType
      <3> QED
        BY <2>2, <3>1, <3>2, <3>3
    <2>4. ran'[n] = ran[n] + (IF got[w] = n THEN 1 ELSE 0)
      BY <2>1 DEF PoolType
    <2>5. InHand(n)' = InHand(n) /\ Queued(n)' = Queued(n)
      BY <2>1 DEF InHand, Queued
    <2>6. InHand(n) + Queued(n) + Held(n) + ran[n] = IF n <= submitted THEN 1 ELSE 0
      BY DEF PlaceInv
    <2>7. InHand(n) \in Nat /\ Queued(n) \in Nat /\ Held(n) \in Nat /\ ran[n] \in Nat
      BY PlaceType
    <2>8. submitted' = submitted
      BY <2>1
    <2> QED
      BY <2>3, <2>4, <2>5, <2>6, <2>7, <2>8
  <1>5. ASSUME NEW c \in Callers,
               \/ CallRun /\ c = Main
               \/ Check(c) \/ Single(c) \/ Recheck(c) \/ Build(c) \/ Publish(c) \/ Release(c)
               \/ Push(c) \/ LockPush(c) \/ Signal(c) \/ UnlockPush(c)
        PROVE  PlaceInv'
    <2>1. /\ UNCHANGED <<tasks, in, got, submitted, ran>>
          /\ \A w \in Workers : pc'[w] = pc[w] \/ (pc[w] = "wait" /\ pc'[w] = "relock")
      BY <1>5 DEF CallRun, Check, Single, Recheck, Build, Publish, Release, Push, LockPush,
                  Signal, WakeOne, At, UnlockPush, Goto, progress, PoolType
    <2>2. \A w \in Workers : hold'[w] = hold[w]
      BY <2>1, HoldSame DEF Carrying
    <2> QED
      BY <2>1, <2>2, PlaceQuiet
  <1>6. ASSUME NEW w \in Workers,
               \/ LockTake(w) \/ Test(w) \/ UnlockTake(w) \/ Throw(w) \/ Spurious(w)
               \/ StartWorker(w)
        PROVE  PlaceInv'
    <2>1. UNCHANGED <<tasks, in, got, submitted, ran>>
      BY <1>6 DEF LockTake, Test, UnlockTake, Throw, Spurious, StartWorker, progress
    <2>2. \A v \in Workers : pc'[v] \in Carrying <=> pc[v] \in Carrying
      BY <1>6 DEF LockTake, Test, UnlockTake, Throw, Spurious, StartWorker, Goto, Carrying,
                  PoolType
    <2>3. \A v \in Workers : hold'[v] = hold[v]
      BY <2>1, <2>2, HoldSame
    <2> QED
      BY <2>1, <2>3, PlaceQuiet
  <1> QED
    BY <1>1, <1>2, <1>3, <1>4, <1>5, <1>6 DEF Next, Run, Caller, Worker

(* Each step, or none.                                                     *)
LEMMA PlaceNext ==
  ASSUME PoolType, CarryInv, PlaceInv, [Next]_vars
  PROVE  PlaceInv'
  <1>1. CASE UNCHANGED vars
    <2>1. UNCHANGED <<tasks, in, got, pc, submitted, ran>>
      BY <1>1 DEF vars, progress
    <2>2. \A w \in Workers : hold'[w] = hold[w]
      BY <2>1, HoldSame
    <2> QED
      BY <2>1, <2>2, PlaceQuiet
  <1> QED
    BY <1>1, PlaceStep

(* EachTaskOnce follows from PlaceInv.                                     *)
LEMMA PlaceInvGivesOnce == PoolType /\ PlaceInv => EachTaskOnce
  <1> SUFFICES ASSUME PoolType, PlaceInv, NEW n \in 1 .. submitted
               PROVE  Cardinality({c \in Callers : in[c] = n})
                        + Cardinality({i \in DOMAIN tasks : tasks[i] = n})
                        + Cardinality({w \in At(Workers, {"unlock", "execute"}) : got[w] = n})
                        + ran[n]
                      = 1
    BY DEF EachTaskOnce
  <1>1. n \in Tasks /\ n <= submitted /\ n # 0
    BY Kinds DEF PoolType, Tasks
  <1>2. {w \in At(Workers, {"unlock", "execute"}) : got[w] = n} = {w \in Workers : hold[w] \in {n}}
    BY <1>1 DEF At, hold, Carrying
  <1>3. {c \in Callers : in[c] = n} = {c \in Callers : in[c] \in {n}}
    OBVIOUS
  <1>4. InHand(n) + Queued(n) + Held(n) + ran[n] = 1
    BY <1>1 DEF PlaceInv
  <1> QED
    BY <1>2, <1>3, <1>4 DEF InHand, Queued, Held, Occur

(* A submitted task is in exactly one place (ThreadPool.hpp:29-45, 67-81). *)
THEOREM NoTaskLostOrDoubled == Spec => []EachTaskOnce
  <1>1. Init => PoolType /\ CarryInv /\ PlaceInv
    BY InitType, InitCarry, InitPlace
  <1>2. PoolType /\ CarryInv /\ PlaceInv /\ [Next]_vars => (PoolType /\ CarryInv /\ PlaceInv)'
    BY ShapeStep, PlaceNext
  <1> QED
    BY <1>1, <1>2, PlaceInvGivesOnce, PTL DEF Spec
-----------------------------------------------------------------------------
(* The two flags.                                                          *)
FlagType == tp \in BOOLEAN /\ aborted \in BOOLEAN

(* A step leaves a flag alone or sets it.                                  *)
LEMMA FlagStep ==
  ASSUME FlagType, [Next]_vars
  PROVE  FlagType'
  <1>1. (tp' = tp \/ tp' = TRUE) /\ (aborted' = aborted \/ aborted' = TRUE)
    <2>1. CASE UNCHANGED vars
      BY <2>1 DEF vars, instance, progress
    <2>2. ASSUME NEW c \in Callers, CallPush(c) \/ Caller(c) \/ CallRun
          PROVE  (tp' = tp \/ tp' = TRUE) /\ aborted' = aborted
      BY <2>2 DEF CallPush, Caller, CallRun, Check, Single, Recheck, Build, Publish, Release,
                  Push, LockPush, Enqueue, Signal, UnlockPush, instance, progress
    <2>3. ASSUME NEW w \in Workers, Worker(w) \/ Spurious(w) \/ StartWorker(w)
          PROVE  tp' = tp /\ (aborted' = aborted \/ aborted' = TRUE)
      BY <2>3 DEF Worker, Spurious, StartWorker, LockTake, Test, Take, UnlockTake, Execute,
                  Throw, instance, progress
    <2> QED
      BY <2>1, <2>2, <2>3, Kinds DEF Next, Run
  <1> QED
    BY <1>1, Zenon DEF FlagType

(* The bounds that need an argument: one pool, and no task twice.          *)
LEMMA TypingFromParts ==
  ASSUME PoolType, OneInv, PlaceInv, FlagType
  PROVE  TypeOK
  <1>1. built \in 0 .. Cardinality(Callers)
    <2>1. Cardinality(Callers) \in Nat /\ Cardinality(Callers) # 0
      BY PoolAssumption, FS_CardinalityType, FS_EmptySet
    <2>2. built = 0 \/ built = 1
      BY DEF OneInv
    <2> QED
      BY <2>1, <2>2
  <1>2. ran \in [Tasks -> 0 .. 1]
    <2>1. ASSUME NEW n \in Tasks
          PROVE  ran[n] \in 0 .. 1
      <3>1. InHand(n) + Queued(n) + Held(n) + ran[n] <= 1
        BY DEF PlaceInv
      <3> QED
        BY <3>1, PlaceType
    <2> QED
      BY <2>1 DEF PoolType
  <1> QED
    BY <1>1, <1>2, Zenon DEF PoolType, FlagType, TypeOK

(* Every variable keeps its type; the bounds on built and ran are the      *)
(* argument of OneForAll and NoTaskLostOrDoubled (ThreadPool.hpp:26-106).  *)
THEOREM Typing == Spec => []TypeOK
  <1>1. Init => PoolType /\ CarryInv /\ OneInv /\ PlaceInv /\ FlagType
    BY InitType, InitCarry, InitOne, InitPlace DEF Init, FlagType
  <1>2. PoolType /\ CarryInv /\ OneInv /\ PlaceInv /\ FlagType /\ [Next]_vars
          => (PoolType /\ CarryInv /\ OneInv /\ PlaceInv /\ FlagType)'
    BY ShapeStep, OneNext, PlaceNext, FlagStep
  <1> QED
    BY <1>1, <1>2, TypingFromParts, PTL DEF Spec
-----------------------------------------------------------------------------
(* Tasks that are each queued once are no more than there are.             *)
LEMMA QueueBound ==
  ASSUME NEW m \in Nat, NEW s \in Seq(1 .. m), \A n \in 1 .. m : Occur(s, n) <= 1
  PROVE  Len(s) <= m
  <1>1. Len(s) \in Nat /\ DOMAIN s = 1 .. Len(s) /\ s \in [1 .. Len(s) -> 1 .. m]
    OBVIOUS
  <1>2. ASSUME NEW i \in 1 .. Len(s), NEW j \in 1 .. Len(s), s[i] = s[j]
        PROVE  i = j
    <2> DEFINE A == {k \in DOMAIN s : s[k] = s[i]}
    <2>1. IsFiniteSet(A) /\ Cardinality(A) \in Nat
      <3>1. IsFiniteSet(1 .. Len(s))
        BY <1>1, FS_Interval
      <3>2. IsFiniteSet(A)
        BY <1>1, <3>1, FS_Subset
      <3> QED
        BY <3>2, FS_CardinalityType
    <2>2. i \in A /\ j \in A
      BY <1>1, <1>2
    <2>3. Cardinality(A) <= 1
      <3>1. s[i] \in 1 .. m
        BY <1>1
      <3> QED
        BY <3>1 DEF Occur
    <2> HIDE DEF A
    <2>4. Cardinality(A) # 0
      BY <2>1, <2>2, FS_EmptySet
    <2>5. Cardinality(A) = 1
      BY <2>1, <2>3, <2>4
    <2>6. PICK x : A = {x}
      BY <2>1, <2>5, FS_Singleton
    <2> QED
      BY <2>2, <2>6
  <1>3. ASSUME NEW k \in Nat
        PROVE  IsFiniteSet(1 .. k) /\ Cardinality(1 .. k) = k
    BY FS_Interval
  <1>4. /\ IsFiniteSet(1 .. m) /\ Cardinality(1 .. m) = m
        /\ Cardinality(1 .. Len(s)) = Len(s)
    BY <1>1, <1>3
  <1>5. s \in Injection(1 .. Len(s), 1 .. m)
    BY <1>1, <1>2, Fun_IsInj
  <1>6. Cardinality(1 .. Len(s)) <= Cardinality(1 .. m)
    BY <1>4, <1>5, FS_Injection
  <1> QED
    BY <1>4, <1>6

(* The queue never holds more than the tasks there are.                    *)
Few == Len(tasks) <= MaxTasks

(* Few follows from PlaceInv.                                              *)
LEMMA FewTasks == PoolType /\ PlaceInv => Few
  <1> SUFFICES ASSUME PoolType, PlaceInv
               PROVE  Len(tasks) <= MaxTasks
    BY DEF Few
  <1>1. ASSUME NEW n \in Tasks
        PROVE  Occur(tasks, n) <= 1
    <2>1. InHand(n) + Queued(n) + Held(n) + ran[n] <= 1
      BY DEF PlaceInv
    <2>2. Queued(n) <= 1
      BY <2>1, PlaceType
    <2> QED
      BY <2>2 DEF Queued
  <1>2. tasks \in Seq(1 .. MaxTasks) /\ MaxTasks \in Nat
    BY Kinds DEF PoolType, Tasks
  <1> QED
    BY <1>1, <1>2, QueueBound DEF Tasks

(* Each step of the pool is a step of the channel or leaves it alone.      *)
LEMMA ChannelStep ==
  ASSUME PoolType, Few', [Next]_vars
  PROVE  [Channel!Next]_(Channel!vars)
  <1> USE Kinds
  <1>1. ASSUME NEW c \in Callers, Enqueue(c)
        PROVE  Channel!Next
    <2>1. /\ in[c] \in 0 .. MaxTasks /\ tasks' = Append(tasks, in[c]) /\ got' = got
          /\ tasks \in Seq(Tasks) /\ in[c] \in Tasks
      BY <1>1 DEF Enqueue, Goto, PoolType
    <2>2. Len(tasks') <= MaxTasks
      BY DEF Few
    <2>3. Len(tasks) < MaxTasks
      BY <2>1, <2>2
    <2> QED
      BY <2>1, <2>3 DEF Channel!Next, Channel!AnyPut, Channel!Put
  <1>2. ASSUME NEW w \in Workers, Take(w)
        PROVE  Channel!Next
    BY <1>2 DEF Take, Channel!Next, Channel!AnyGet, Channel!Get
  <1>3. ASSUME NEW c \in Callers,
               \/ CallRun \/ CallPush(c)
               \/ Check(c) \/ Single(c) \/ Recheck(c) \/ Build(c) \/ Publish(c) \/ Release(c)
               \/ Push(c) \/ LockPush(c) \/ Signal(c) \/ UnlockPush(c)
        PROVE  UNCHANGED <<tasks, got>>
    BY <1>3 DEF CallRun, CallPush, Check, Single, Recheck, Build, Publish, Release, Push,
                LockPush, Signal, UnlockPush, progress
  <1>4. ASSUME NEW w \in Workers,
               \/ LockTake(w) \/ Test(w) \/ UnlockTake(w) \/ Execute(w) \/ Throw(w)
               \/ Spurious(w) \/ StartWorker(w)
        PROVE  UNCHANGED <<tasks, got>>
    BY <1>4 DEF LockTake, Test, UnlockTake, Execute, Throw, Spurious, StartWorker, progress
  <1>5. CASE UNCHANGED vars
    BY <1>5 DEF vars, progress, Channel!vars
  <1> QED
    BY <1>1, <1>2, <1>3, <1>4, <1>5 DEF Next, Run, Caller, Worker, Channel!vars

(* The queue of the pool is a first-in first-out channel from the callers  *)
(* to the workers (ThreadPool.hpp:67-81).                                  *)
THEOREM ImplementsChannel == Spec => IsChannel
  <1>1. Init => PoolType /\ CarryInv /\ PlaceInv /\ Channel!Init
    <2>1. Init => got \in [Workers -> 0 .. MaxTasks] /\ tasks = <<>>
      BY Kinds DEF Init
    <2> QED
      BY <2>1, InitType, InitCarry, InitPlace DEF Channel!Init
  <1>2. PoolType /\ CarryInv /\ PlaceInv /\ [Next]_vars
          => (PoolType /\ CarryInv /\ PlaceInv)'
    BY ShapeStep, PlaceNext
  <1>3. PoolType /\ Few' /\ [Next]_vars => [Channel!Next]_(Channel!vars)
    BY ChannelStep
  <1> QED
    BY <1>1, <1>2, <1>3, FewTasks, PTL DEF Spec, IsChannel, Channel!Spec
=============================================================================
