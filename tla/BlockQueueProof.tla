-------------------------- MODULE BlockQueueProof --------------------------
(***************************************************************************)
(* Proofs about BlockQueue, for any number of producers and consumers and  *)
(* any capacity: one signal per push and per pop is enough, the threads    *)
(* never all sleep, and the queue implements BoundedChannel.               *)
(***************************************************************************)
EXTENDS BlockQueue, ProofLemmas, FiniteSetTheorems, TLAPS

Count(T, labels) == Cardinality(At(T, labels))

(* The consumers that can take an item or are about to be sent one, and    *)
(* the producers that can fill a place or are about to be offered one.     *)
Takers == Count(Consumers, Awake) + Count(Producers, {"signal"})
Fillers == Count(Producers, Awake) + Count(Consumers, {"signal"})

(* Both sides are finite sets of threads.                                  *)
LEMMA CountType ==
  ASSUME NEW T \in {Producers, Consumers}, NEW labels
  PROVE  /\ Count(T, labels) \in Nat
         /\ \A t \in T : pc[t] \in labels => Count(T, labels) > 0
  <1>1. IsFiniteSet(T)
    BY BlockQueueAssumption
  <1>2. /\ Cardinality({u \in T : pc[u] \in labels}) \in Nat
        /\ \A t \in T : pc[t] \in labels =>
                        Cardinality({u \in T : pc[u] \in labels}) > 0
    BY <1>1, CountingType
  <1> QED
    BY <1>2 DEF At, Count

(* One thread of a side moves.                                             *)
LEMMA MoveCount ==
  ASSUME NEW T \in {Producers, Consumers}, NEW t \in T, NEW labels,
         \A u \in T \ {t} : pc'[u] = pc[u]
  PROVE  Count(T, labels)' =
           Count(T, labels) + (IF pc'[t] \in labels THEN 1 ELSE 0)
                            - (IF pc[t] \in labels THEN 1 ELSE 0)
  <1>1. IsFiniteSet(T)
    BY BlockQueueAssumption
  <1> QED
    BY <1>1, CountingMove DEF Count, At

(* No thread of a side moves.                                              *)
LEMMA StayCount ==
  ASSUME NEW T \in {Producers, Consumers}, NEW labels,
         \A u \in T : pc'[u] = pc[u]
  PROVE  Count(T, labels)' = Count(T, labels)
  BY CountingStay DEF Count, At

(* Every thread is on one side.                                            *)
LEMMA Sides ==
  /\ Producers \subseteq Threads /\ Consumers \subseteq Threads
  /\ \A t \in Threads : t \in Producers <=> t \notin Consumers
  /\ NoThread \notin Threads
  BY BlockQueueAssumption DEF Threads

(* Takers and Fillers are natural numbers.                                 *)
LEMMA SupplyType ==
  /\ Takers \in Nat /\ Fillers \in Nat
  BY CountType DEF Takers, Fillers

(* NoLostWakeup in terms of the two numbers.                               *)
LEMMA WakeupForm ==
  NoLostWakeup <=>
    /\ (\E c \in Consumers : pc[c] = "wait") => Len(q) <= Takers
    /\ (\E p \in Producers : pc[p] = "wait") => MaxCap - Len(q) <= Fillers
  BY DEF NoLostWakeup, Takers, Fillers, Count, At

(* The same in the next state.                                             *)
LEMMA WakeupFormNext ==
  NoLostWakeup' <=>
    /\ (\E c \in Consumers : pc'[c] = "wait") => Len(q') <= Takers'
    /\ (\E p \in Producers : pc'[p] = "wait") => MaxCap - Len(q') <= Fillers'
  BY DEF NoLostWakeup, Takers, Fillers, Count, At

(* How the move of a producer, or of a consumer, changes the numbers.      *)
LEMMA ProducerMove ==
  ASSUME NEW p \in Producers, \A u \in Threads \ {p} : pc'[u] = pc[u]
  PROVE  /\ Takers' = Takers + (IF pc'[p] = "signal" THEN 1 ELSE 0)
                             - (IF pc[p] = "signal" THEN 1 ELSE 0)
         /\ Fillers' = Fillers + (IF pc'[p] \in Awake THEN 1 ELSE 0)
                               - (IF pc[p] \in Awake THEN 1 ELSE 0)
  <1>1. /\ Count(Consumers, Awake)' = Count(Consumers, Awake)
        /\ Count(Consumers, {"signal"})' = Count(Consumers, {"signal"})
    BY StayCount, Sides
  <1>2. \A u \in Producers \ {p} : pc'[u] = pc[u]
    BY Sides
  <1>3. Count(Producers, {"signal"})' = Count(Producers, {"signal"})
          + (IF pc'[p] \in {"signal"} THEN 1 ELSE 0)
          - (IF pc[p] \in {"signal"} THEN 1 ELSE 0)
    BY <1>2, MoveCount
  <1>4. Count(Producers, Awake)' = Count(Producers, Awake)
          + (IF pc'[p] \in Awake THEN 1 ELSE 0)
          - (IF pc[p] \in Awake THEN 1 ELSE 0)
    BY <1>2, MoveCount
  <1>5. /\ Count(Consumers, Awake) \in Nat /\ Count(Consumers, {"signal"}) \in Nat
        /\ Count(Producers, Awake) \in Nat /\ Count(Producers, {"signal"}) \in Nat
    BY CountType
  <1> QED
    BY <1>1, <1>3, <1>4, <1>5 DEF Takers, Fillers

(* The mirror image of ProducerMove.                                       *)
LEMMA ConsumerMove ==
  ASSUME NEW c \in Consumers, \A u \in Threads \ {c} : pc'[u] = pc[u]
  PROVE  /\ Fillers' = Fillers + (IF pc'[c] = "signal" THEN 1 ELSE 0)
                               - (IF pc[c] = "signal" THEN 1 ELSE 0)
         /\ Takers' = Takers + (IF pc'[c] \in Awake THEN 1 ELSE 0)
                             - (IF pc[c] \in Awake THEN 1 ELSE 0)
  <1>1. /\ Count(Producers, Awake)' = Count(Producers, Awake)
        /\ Count(Producers, {"signal"})' = Count(Producers, {"signal"})
    BY StayCount, Sides
  <1>2. \A u \in Consumers \ {c} : pc'[u] = pc[u]
    BY Sides
  <1>3. Count(Consumers, {"signal"})' = Count(Consumers, {"signal"})
          + (IF pc'[c] \in {"signal"} THEN 1 ELSE 0)
          - (IF pc[c] \in {"signal"} THEN 1 ELSE 0)
    BY <1>2, MoveCount
  <1>4. Count(Consumers, Awake)' = Count(Consumers, Awake)
          + (IF pc'[c] \in Awake THEN 1 ELSE 0)
          - (IF pc[c] \in Awake THEN 1 ELSE 0)
    BY <1>2, MoveCount
  <1>5. /\ Count(Consumers, Awake) \in Nat /\ Count(Consumers, {"signal"}) \in Nat
        /\ Count(Producers, Awake) \in Nat /\ Count(Producers, {"signal"}) \in Nat
    BY CountType
  <1> QED
    BY <1>1, <1>3, <1>4, <1>5 DEF Takers, Fillers

(* A thread that goes on without touching the queue: nobody else moves, it *)
(* does not go to sleep, and it was not about to signal.                   *)
LEMMA QuietMove ==
  ASSUME IInv, NEW t \in Threads, NEW to \in Labels,
         pc' = [pc EXCEPT ![t] = to], q' = q,
         to \notin {"wait", "signal"}, pc[t] # "signal",
         pc[t] \in Awake => to \in Awake
  PROVE  NoLostWakeup'
  <1>1. /\ pc \in [Threads -> Labels] /\ Len(q) \in 0 .. MaxCap
        /\ MaxCap \in Nat /\ NoLostWakeup
    BY BlockQueueAssumption DEF IInv, TypeOK
  <1>2. pc'[t] = to /\ \A u \in Threads \ {t} : pc'[u] = pc[u]
    BY <1>1
  <1>3. Takers' >= Takers /\ Fillers' >= Fillers /\ Takers' \in Int /\ Fillers' \in Int
    <2>1. CASE t \in Producers
      BY <1>2, <2>1, ProducerMove, SupplyType
    <2>2. CASE t \in Consumers
      BY <1>2, <2>2, ConsumerMove, SupplyType
    <2> QED
      BY <2>1, <2>2 DEF Threads
  <1>4. \A u \in Threads : pc'[u] = "wait" => pc[u] = "wait"
    BY <1>2
  <1> QED
    BY <1>1, <1>3, <1>4, WakeupForm, WakeupFormNext, Sides, SupplyType
-----------------------------------------------------------------------------
(* Nobody sleeps initially.                                                *)
LEMMA InitIInv == Init => IInv
  <1> SUFFICES ASSUME Init PROVE IInv
    OBVIOUS
  <1>1. \A t \in Threads : pc[t] = "idle"
    BY DEF Init
  <1>2. TypeOK
    BY BlockQueueAssumption, Sides DEF TypeOK, Init, Labels, Values
  <1> QED
    BY <1>1, <1>2, WakeupForm, Sides DEF IInv, MutexInv, MoveInv

(* Calling push or pop, taking the mutex, waking for no reason and leaving *)
(* keep the invariant, for none of them touches the queue.                 *)
LEMMA CallIInv ==
  ASSUME IInv,
         \/ \E p \in Producers, v \in Items : CallPush(p, v)
         \/ \E c \in Consumers : CallPop(c)
  PROVE  IInv'
  <1>1. PICK t \in Threads : Goto(t, "idle", "lock") /\ q' = q /\ mutex' = mutex
    BY Sides DEF CallPush, CallPop
  <1>2. pc' = [pc EXCEPT ![t] = "lock"] /\ pc[t] = "idle" /\ pc \in [Threads -> Labels]
    BY <1>1 DEF Goto, IInv, TypeOK
  <1>3. TypeOK'
    <2>1. pc' \in [Threads -> Labels]
      BY <1>2 DEF Labels
    <2>2. in' \in [Producers -> Values] /\ out' \in [Consumers -> Values]
      BY DEF CallPush, CallPop, IInv, TypeOK, Values
    <2> QED
      BY <1>1, <2>1, <2>2 DEF IInv, TypeOK
  <1>4. MutexInv' /\ MoveInv'
    BY <1>1, <1>2, Sides DEF IInv, MutexInv, MoveInv
  <1>5. NoLostWakeup'
    BY <1>1, <1>2, QuietMove DEF Labels, Awake
  <1> QED
    BY <1>3, <1>4, <1>5 DEF IInv

(* Only a free mutex is taken, and the test of the while comes next.       *)
LEMMA LockIInv ==
  ASSUME IInv, NEW t \in Threads, Lock(t)
  PROVE  IInv'
  <1>1. /\ pc' = [pc EXCEPT ![t] = "test"] /\ pc[t] \in {"lock", "relock"}
        /\ pc \in [Threads -> Labels]
    BY DEF Lock, IInv, TypeOK
  <1>2. TypeOK'
    <2>1. pc' \in [Threads -> Labels]
      BY <1>1 DEF Labels
    <2> QED
      BY <2>1 DEF Lock, IInv, TypeOK
  <1>3. MutexInv'
    <2>1. \A u \in Threads : pc[u] \notin {"test", "move", "signal", "unlock"}
      BY Sides DEF Lock, IInv, MutexInv
    <2> QED
      BY <1>1, <2>1 DEF Lock, MutexInv
  <1>4. MoveInv'
    BY <1>1, Sides DEF Lock, IInv, MoveInv
  <1>5. NoLostWakeup'
    BY <1>1, QuietMove DEF Lock, Labels, Awake
  <1> QED
    BY <1>2, <1>3, <1>4, <1>5 DEF IInv

(* A spurious wake-up only adds a thread that is awake.                    *)
LEMMA SpuriousIInv ==
  ASSUME IInv, NEW t \in Threads, Spurious(t)
  PROVE  IInv'
  <1>1. /\ pc' = [pc EXCEPT ![t] = "relock"] /\ pc[t] = "wait"
        /\ pc \in [Threads -> Labels]
    BY DEF Spurious, Goto, IInv, TypeOK
  <1>2. TypeOK'
    <2>1. pc' \in [Threads -> Labels]
      BY <1>1 DEF Labels
    <2> QED
      BY <2>1 DEF Spurious, IInv, TypeOK
  <1>3. MutexInv' /\ MoveInv'
    BY <1>1, Sides DEF Spurious, IInv, MutexInv, MoveInv
  <1>4. NoLostWakeup'
    BY <1>1, QuietMove DEF Spurious, Labels, Awake
  <1> QED
    BY <1>2, <1>3, <1>4 DEF IInv

(* The owner alone gives the mutex back.                                   *)
LEMMA UnlockIInv ==
  ASSUME IInv, NEW t \in Threads, Unlock(t)
  PROVE  IInv'
  <1>1. /\ pc' = [pc EXCEPT ![t] = "idle"] /\ pc[t] = "unlock"
        /\ pc \in [Threads -> Labels]
    BY DEF Unlock, Goto, IInv, TypeOK
  <1>2. TypeOK'
    <2>1. pc' \in [Threads -> Labels]
      BY <1>1 DEF Labels
    <2> QED
      BY <2>1 DEF Unlock, IInv, TypeOK
  <1>3. MutexInv'
    <2>1. \A u \in Threads \ {t} : pc[u] \notin {"test", "move", "signal", "unlock"}
      BY <1>1 DEF IInv, MutexInv
    <2> QED
      BY <1>1, <2>1 DEF Unlock, MutexInv
  <1>4. MoveInv'
    BY <1>1, Sides DEF Unlock, IInv, MoveInv
  <1>5. NoLostWakeup'
    BY <1>1, QuietMove DEF Unlock, Labels, Awake
  <1> QED
    BY <1>2, <1>3, <1>4, <1>5 DEF IInv

(* The test of the while: who goes on found room (an item), who goes to    *)
(* sleep found none, so that nothing is left for the sleeper to miss.      *)
LEMMA TestPushIInv ==
  ASSUME IInv, NEW p \in Producers, TestPush(p)
  PROVE  IInv'
  <1>1. pc[p] = "test" /\ pc \in [Threads -> Labels] /\ p \in Threads
    BY Sides DEF TestPush, Sleep, Pass, Goto, IInv, TypeOK
  <1>2. mutex = p /\ Len(q) \in 0 .. MaxCap /\ MaxCap \in Nat
    BY <1>1, BlockQueueAssumption DEF IInv, MutexInv, TypeOK
  <1>3. \A u \in Threads \ {p} : pc[u] \notin {"test", "move", "signal", "unlock"}
    BY <1>2 DEF IInv, MutexInv
  <1>4. CASE is_full /\ Sleep(p)
    <2>1. pc' = [pc EXCEPT ![p] = "wait"] /\ q' = q
      BY <1>4 DEF Sleep, Goto
    <2>2. TypeOK'
      <3>1. pc' \in [Threads -> Labels]
        BY <1>1, <2>1 DEF Labels
      <3> QED
        BY <1>4, <3>1 DEF Sleep, IInv, TypeOK
    <2>3. MutexInv' /\ MoveInv'
      BY <1>1, <1>3, <2>1, Sides DEF IInv, MutexInv, MoveInv
    <2>4. Takers' = Takers /\ Fillers' = Fillers - 1
      BY <1>1, <2>1, ProducerMove, SupplyType DEF Awake
    <2>5. Count(Producers, Awake) > 0
      BY <1>1, CountType DEF Awake
    <2>6. Fillers' \in Nat
      BY <2>4, <2>5, CountType DEF Fillers
    <2>7. (\E c \in Consumers : pc'[c] = "wait") => Len(q') <= Takers'
      BY <1>1, <2>1, <2>4, WakeupForm, Sides DEF IInv
    <2>8. MaxCap - Len(q') <= Fillers'
      BY <1>2, <1>4, <2>1, <2>6 DEF is_full
    <2> QED
      BY <2>2, <2>3, <2>7, <2>8, WakeupFormNext DEF IInv
  <1>5. CASE ~is_full /\ Pass(p)
    <2>1. pc' = [pc EXCEPT ![p] = "move"] /\ q' = q /\ mutex' = mutex
      BY <1>5 DEF Pass, Goto
    <2>2. TypeOK'
      <3>1. pc' \in [Threads -> Labels]
        BY <1>1, <2>1 DEF Labels
      <3> QED
        BY <1>5, <3>1 DEF Pass, IInv, TypeOK
    <2>3. MutexInv'
      BY <1>1, <1>2, <2>1 DEF IInv, MutexInv
    <2>4. MoveInv'
      BY <1>1, <1>2, <1>3, <1>5, <2>1, Sides DEF IInv, MoveInv, is_full
    <2>5. NoLostWakeup'
      BY <1>1, <2>1, QuietMove DEF Labels, Awake
    <2> QED
      BY <2>2, <2>3, <2>4, <2>5 DEF IInv
  <1> QED
    BY <1>4, <1>5 DEF TestPush

(* The mirror image of TestPushIInv.                                       *)
LEMMA TestPopIInv ==
  ASSUME IInv, NEW c \in Consumers, TestPop(c)
  PROVE  IInv'
  <1>1. pc[c] = "test" /\ pc \in [Threads -> Labels] /\ c \in Threads
    BY Sides DEF TestPop, Sleep, Pass, Goto, IInv, TypeOK
  <1>2. mutex = c /\ Len(q) \in 0 .. MaxCap /\ MaxCap \in Nat /\ q \in Seq(Values)
    BY <1>1, BlockQueueAssumption DEF IInv, MutexInv, TypeOK
  <1>3. \A u \in Threads \ {c} : pc[u] \notin {"test", "move", "signal", "unlock"}
    BY <1>2 DEF IInv, MutexInv
  <1>4. CASE is_empty /\ Sleep(c)
    <2>1. pc' = [pc EXCEPT ![c] = "wait"] /\ q' = q
      BY <1>4 DEF Sleep, Goto
    <2>2. TypeOK'
      <3>1. pc' \in [Threads -> Labels]
        BY <1>1, <2>1 DEF Labels
      <3> QED
        BY <1>4, <3>1 DEF Sleep, IInv, TypeOK
    <2>3. MutexInv' /\ MoveInv'
      BY <1>1, <1>3, <2>1, Sides DEF IInv, MutexInv, MoveInv
    <2>4. Fillers' = Fillers /\ Takers' = Takers - 1
      BY <1>1, <2>1, ConsumerMove, SupplyType DEF Awake
    <2>5. Count(Consumers, Awake) > 0
      BY <1>1, CountType DEF Awake
    <2>6. Takers' \in Nat
      BY <2>4, <2>5, CountType DEF Takers
    <2>7. (\E p \in Producers : pc'[p] = "wait") => MaxCap - Len(q') <= Fillers'
      BY <1>1, <2>1, <2>4, WakeupForm, Sides DEF IInv
    <2>8. Len(q') <= Takers'
      BY <1>2, <1>4, <2>1, <2>6 DEF is_empty
    <2> QED
      BY <2>2, <2>3, <2>7, <2>8, WakeupFormNext DEF IInv
  <1>5. CASE ~is_empty /\ Pass(c)
    <2>1. pc' = [pc EXCEPT ![c] = "move"] /\ q' = q /\ mutex' = mutex
      BY <1>5 DEF Pass, Goto
    <2>2. TypeOK'
      <3>1. pc' \in [Threads -> Labels]
        BY <1>1, <2>1 DEF Labels
      <3> QED
        BY <1>5, <3>1 DEF Pass, IInv, TypeOK
    <2>3. MutexInv'
      BY <1>1, <1>2, <2>1 DEF IInv, MutexInv
    <2>4. MoveInv'
      BY <1>1, <1>2, <1>3, <1>5, <2>1, Sides DEF IInv, MoveInv, is_empty
    <2>5. NoLostWakeup'
      BY <1>1, <2>1, QuietMove DEF Labels, Awake
    <2> QED
      BY <2>2, <2>3, <2>4, <2>5 DEF IInv
  <1> QED
    BY <1>4, <1>5 DEF TestPop

(* A push adds an item and announces a signal to a consumer; it uses up a  *)
(* place and one producer that was awake.                                  *)
LEMMA PushIInv ==
  ASSUME IInv, NEW p \in Producers, Push(p)
  PROVE  IInv'
  <1>1. /\ pc' = [pc EXCEPT ![p] = "signal"] /\ pc[p] = "move"
        /\ pc \in [Threads -> Labels] /\ p \in Threads
    BY Sides DEF Push, Goto, IInv, TypeOK
  <1>2. /\ mutex = p /\ Len(q) \in Nat /\ Len(q) < MaxCap /\ MaxCap \in Nat
        /\ q \in Seq(Values) /\ in[p] \in Values
    BY <1>1, BlockQueueAssumption DEF IInv, MutexInv, MoveInv, TypeOK
  <1>3. \A u \in Threads \ {p} : pc[u] \notin {"test", "move", "signal", "unlock"}
    BY <1>2 DEF IInv, MutexInv
  <1>4. Len(q') = Len(q) + 1 /\ q' \in Seq(Values)
    BY <1>2 DEF Push
  <1>5. TypeOK'
    <2>1. pc' \in [Threads -> Labels]
      BY <1>1 DEF Labels
    <2>2. Len(q') \in 0 .. MaxCap
      BY <1>2, <1>4
    <2> QED
      BY <1>4, <2>1, <2>2 DEF Push, IInv, TypeOK
  <1>6. MutexInv'
    BY <1>1, <1>2, <1>3 DEF Push, MutexInv
  <1>7. MoveInv'
    BY <1>1, <1>3, Sides DEF MoveInv
  <1>8. Takers' = Takers + 1 /\ Fillers' = Fillers - 1
    BY <1>1, ProducerMove, SupplyType DEF Awake
  <1>9. \A u \in Threads : pc'[u] = "wait" => pc[u] = "wait"
    BY <1>1
  <1>10. NoLostWakeup'
    BY <1>2, <1>4, <1>8, <1>9, WakeupForm, WakeupFormNext, Sides, SupplyType DEF IInv
  <1> QED
    BY <1>5, <1>6, <1>7, <1>10 DEF IInv

(* The mirror image of PushIInv.                                           *)
LEMMA PopIInv ==
  ASSUME IInv, NEW c \in Consumers, Pop(c)
  PROVE  IInv'
  <1>1. /\ pc' = [pc EXCEPT ![c] = "signal"] /\ pc[c] = "move"
        /\ pc \in [Threads -> Labels] /\ c \in Threads
    BY Sides DEF Pop, Goto, IInv, TypeOK
  <1>2. /\ mutex = c /\ Len(q) \in 0 .. MaxCap /\ q # <<>> /\ MaxCap \in Nat
        /\ q \in Seq(Values)
    BY <1>1, BlockQueueAssumption DEF IInv, MutexInv, MoveInv, TypeOK
  <1>3. \A u \in Threads \ {c} : pc[u] \notin {"test", "move", "signal", "unlock"}
    BY <1>2 DEF IInv, MutexInv
  <1>4. /\ Len(q') = Len(q) - 1 /\ q' \in Seq(Values) /\ Head(q) \in Values
        /\ Len(q) > 0
    BY <1>2 DEF Pop
  <1>5. TypeOK'
    <2>1. pc' \in [Threads -> Labels]
      BY <1>1 DEF Labels
    <2>2. Len(q') \in 0 .. MaxCap
      BY <1>2, <1>4
    <2>3. out' \in [Consumers -> Values]
      BY <1>4 DEF Pop, IInv, TypeOK
    <2> QED
      BY <1>4, <2>1, <2>2, <2>3 DEF Pop, IInv, TypeOK
  <1>6. MutexInv'
    BY <1>1, <1>2, <1>3 DEF Pop, MutexInv
  <1>7. MoveInv'
    BY <1>1, <1>3, Sides DEF MoveInv
  <1>8. Fillers' = Fillers + 1 /\ Takers' = Takers - 1
    BY <1>1, ConsumerMove, SupplyType DEF Awake
  <1>9. \A u \in Threads : pc'[u] = "wait" => pc[u] = "wait"
    BY <1>1
  <1>10. NoLostWakeup'
    BY <1>2, <1>4, <1>8, <1>9, WakeupForm, WakeupFormNext, Sides, SupplyType DEF IInv
  <1> QED
    BY <1>5, <1>6, <1>7, <1>10 DEF IInv

(* A signal wakes a sleeper, who takes over the signaller's share of the   *)
(* number; when nobody sleeps the number is not needed.                    *)
LEMMA SignalParts ==
  ASSUME IInv, NEW t \in Threads, NEW waiting \in SUBSET Threads,
         \A u \in waiting : pc[u] = "wait", Signal(t, waiting)
  PROVE  TypeOK' /\ MutexInv' /\ MoveInv'
  <1>1. /\ pc[t] = "signal" /\ pc \in [Threads -> Labels]
        /\ q' = q /\ mutex' = mutex /\ in' = in /\ out' = out
    BY DEF Signal, IInv, TypeOK
  <1>2. /\ pc' \in [Threads -> Labels] /\ pc'[t] = "unlock"
        /\ \A u \in Threads \ {t} : pc'[u] = pc[u] \/ pc'[u] = "relock"
    <2>1. CASE pc' = [pc EXCEPT ![t] = "unlock"]
      BY <1>1, <2>1 DEF Labels
    <2>2. CASE \E u \in waiting : pc' = [pc EXCEPT ![t] = "unlock", ![u] = "relock"]
      BY <1>1, <2>2 DEF Labels
    <2> QED
      BY <2>1, <2>2 DEF Signal
  <1>3. TypeOK'
    BY <1>1, <1>2 DEF IInv, TypeOK
  <1>4. MutexInv'
    BY <1>1, <1>2 DEF IInv, MutexInv
  <1>5. MoveInv'
    BY <1>1, <1>2, Sides DEF IInv, MoveInv
  <1> QED
    BY <1>3, <1>4, <1>5

(* The signal after a push wakes a consumer.                               *)
LEMMA SignalPushIInv ==
  ASSUME IInv, NEW p \in Producers, SignalOther(p)
  PROVE  IInv'
  <1> DEFINE waiting == At(Consumers, {"wait"})
  <1>1. Signal(p, waiting) /\ p \in Threads /\ waiting \in SUBSET Threads
    BY Sides DEF SignalOther, At
  <1>2. /\ \A u \in waiting : u \in Consumers /\ pc[u] = "wait"
        /\ \A u \in Consumers : pc[u] = "wait" => u \in waiting
    BY DEF At
  <1> HIDE DEF waiting
  <1>3. TypeOK' /\ MutexInv' /\ MoveInv'
    BY <1>1, <1>2, SignalParts
  <1>4. pc[p] = "signal" /\ pc \in [Threads -> Labels] /\ q' = q
    BY <1>1 DEF Signal, IInv, TypeOK
  <1>5. CASE waiting = {} /\ pc' = [pc EXCEPT ![p] = "unlock"]
    <2>1. \A c \in Consumers : pc'[c] # "wait"
      BY <1>2, <1>4, <1>5, Sides
    <2>2. Fillers' = Fillers
      BY <1>1, <1>4, <1>5, ProducerMove, SupplyType DEF Awake
    <2>3. \A u \in Producers : pc'[u] = "wait" => pc[u] = "wait"
      BY <1>4, <1>5, Sides
    <2> QED
      BY <1>3, <1>4, <2>1, <2>2, <2>3, WakeupForm, WakeupFormNext DEF IInv
  <1>6. ASSUME NEW u \in waiting,
               pc' = [pc EXCEPT ![p] = "unlock", ![u] = "relock"]
        PROVE  IInv'
    <2>1. /\ u \in Consumers /\ pc[u] = "wait" /\ u # p /\ u \in Threads
          /\ pc'[u] = "relock" /\ pc'[p] = "unlock"
          /\ \A x \in Threads \ {p, u} : pc'[x] = pc[x]
      BY <1>1, <1>2, <1>4, <1>6, Sides
    <2>2. \A x \in Producers \ {p} : pc'[x] = pc[x]
      BY <2>1, Sides
    <2>3. \A x \in Consumers \ {u} : pc'[x] = pc[x]
      BY <2>1, Sides
    <2>4. /\ Count(Producers, {"signal"})' = Count(Producers, {"signal"}) + 0 - 1
          /\ Count(Producers, Awake)' = Count(Producers, Awake) + 0 - 0
      BY <1>4, <2>1, <2>2, MoveCount DEF Awake
    <2>5. /\ Count(Consumers, {"signal"})' = Count(Consumers, {"signal"}) + 0 - 0
          /\ Count(Consumers, Awake)' = Count(Consumers, Awake) + 1 - 0
      BY <2>1, <2>3, MoveCount DEF Awake
    <2>6. /\ Count(Consumers, Awake) \in Nat /\ Count(Consumers, {"signal"}) \in Nat
          /\ Count(Producers, Awake) \in Nat /\ Count(Producers, {"signal"}) \in Nat
      BY CountType
    <2>7. Takers' = Takers /\ Fillers' = Fillers
      BY <2>4, <2>5, <2>6 DEF Takers, Fillers
    <2>8. \A x \in Threads : pc'[x] = "wait" => pc[x] = "wait"
      BY <1>4, <2>1
    <2>9. NoLostWakeup'
      BY <1>4, <2>7, <2>8, WakeupForm, WakeupFormNext, Sides DEF IInv
    <2> QED
      BY <1>3, <2>9 DEF IInv
  <1> QED
    BY <1>1, <1>5, <1>6 DEF Signal

(* The signal after a pop wakes a producer.                                *)
LEMMA SignalPopIInv ==
  ASSUME IInv, NEW c \in Consumers, SignalOther(c)
  PROVE  IInv'
  <1> DEFINE waiting == At(Producers, {"wait"})
  <1>1. Signal(c, waiting) /\ c \in Threads /\ waiting \in SUBSET Threads
    BY Sides DEF SignalOther, At
  <1>2. /\ \A u \in waiting : u \in Producers /\ pc[u] = "wait"
        /\ \A u \in Producers : pc[u] = "wait" => u \in waiting
    BY DEF At
  <1> HIDE DEF waiting
  <1>3. TypeOK' /\ MutexInv' /\ MoveInv'
    BY <1>1, <1>2, SignalParts
  <1>4. pc[c] = "signal" /\ pc \in [Threads -> Labels] /\ q' = q
    BY <1>1 DEF Signal, IInv, TypeOK
  <1>5. CASE waiting = {} /\ pc' = [pc EXCEPT ![c] = "unlock"]
    <2>1. \A p \in Producers : pc'[p] # "wait"
      BY <1>2, <1>4, <1>5, Sides
    <2>2. Takers' = Takers
      BY <1>1, <1>4, <1>5, ConsumerMove, SupplyType DEF Awake
    <2>3. \A u \in Consumers : pc'[u] = "wait" => pc[u] = "wait"
      BY <1>4, <1>5, Sides
    <2>4. NoLostWakeup'
      BY <1>4, <2>1, <2>2, <2>3, WakeupForm, WakeupFormNext DEF IInv
    <2> QED
      BY <1>3, <2>4 DEF IInv
  <1>6. ASSUME NEW u \in waiting,
               pc' = [pc EXCEPT ![c] = "unlock", ![u] = "relock"]
        PROVE  IInv'
    <2>1. /\ u \in Producers /\ pc[u] = "wait" /\ u # c /\ u \in Threads
          /\ pc'[u] = "relock" /\ pc'[c] = "unlock"
          /\ \A x \in Threads \ {c, u} : pc'[x] = pc[x]
      BY <1>1, <1>2, <1>4, <1>6, Sides
    <2>2. \A x \in Consumers \ {c} : pc'[x] = pc[x]
      BY <2>1, Sides
    <2>3. \A x \in Producers \ {u} : pc'[x] = pc[x]
      BY <2>1, Sides
    <2>4. /\ Count(Consumers, {"signal"})' = Count(Consumers, {"signal"}) + 0 - 1
          /\ Count(Consumers, Awake)' = Count(Consumers, Awake) + 0 - 0
      BY <1>4, <2>1, <2>2, MoveCount DEF Awake
    <2>5. /\ Count(Producers, {"signal"})' = Count(Producers, {"signal"}) + 0 - 0
          /\ Count(Producers, Awake)' = Count(Producers, Awake) + 1 - 0
      BY <2>1, <2>3, MoveCount DEF Awake
    <2>6. /\ Count(Consumers, Awake) \in Nat /\ Count(Consumers, {"signal"}) \in Nat
          /\ Count(Producers, Awake) \in Nat /\ Count(Producers, {"signal"}) \in Nat
      BY CountType
    <2>7. Takers' = Takers /\ Fillers' = Fillers
      BY <2>4, <2>5, <2>6 DEF Takers, Fillers
    <2>8. \A x \in Threads : pc'[x] = "wait" => pc[x] = "wait"
      BY <1>4, <2>1
    <2>9. NoLostWakeup'
      BY <1>4, <2>7, <2>8, WakeupForm, WakeupFormNext, Sides DEF IInv
    <2> QED
      BY <1>3, <2>9 DEF IInv
  <1> QED
    BY <1>1, <1>5, <1>6 DEF Signal

(* Every step preserves the invariant.                                     *)
LEMMA NextIInv == IInv /\ [Next]_vars => IInv'
  <1> SUFFICES ASSUME IInv, [Next]_vars PROVE IInv'
    OBVIOUS
  <1>1. CASE \/ \E p \in Producers, v \in Items : CallPush(p, v)
             \/ \E c \in Consumers : CallPop(c)
    BY <1>1, CallIInv
  <1>2. ASSUME NEW p \in Producers, PushStep(p) PROVE IInv'
    BY <1>2, LockIInv, SignalPushIInv, UnlockIInv, TestPushIInv, PushIInv, Sides
    DEF PushStep, Step
  <1>3. ASSUME NEW c \in Consumers, PopStep(c) PROVE IInv'
    BY <1>3, LockIInv, SignalPopIInv, UnlockIInv, TestPopIInv, PopIInv, Sides
    DEF PopStep, Step
  <1>4. ASSUME NEW t \in Threads, Spurious(t) PROVE IInv'
    BY <1>4, SpuriousIInv
  <1>5. CASE UNCHANGED vars
    <2>1. TypeOK' /\ MutexInv' /\ MoveInv'
      BY <1>5 DEF vars, IInv, TypeOK, MutexInv, MoveInv
    <2>2. NoLostWakeup'
      BY <1>5 DEF vars, IInv, NoLostWakeup, At
    <2> QED
      BY <2>1, <2>2 DEF IInv
  <1> QED
    BY <1>1, <1>2, <1>3, <1>4, <1>5 DEF Next, Inside

(* If everybody slept the queue would have to be empty and full at once.   *)
LEMMA IInvSomebodyAwake == IInv => SomebodyAwake
  <1> SUFFICES ASSUME IInv, NEW p \in Producers, NEW c \in Consumers,
                      \A t \in Threads : pc[t] = "wait"
               PROVE  FALSE
    BY DEF SomebodyAwake
  <1>1. \A T \in {Producers, Consumers} :
          At(T, Awake) = {} /\ At(T, {"signal"}) = {}
    BY Sides DEF At, Awake
  <1>2. Takers = 0 /\ Fillers = 0
    BY <1>1, FS_EmptySet DEF Takers, Fillers, Count
  <1>3. Len(q) <= Takers /\ MaxCap - Len(q) <= Fillers
    BY WakeupForm, Sides DEF IInv
  <1> QED
    BY <1>2, <1>3, BlockQueueAssumption DEF IInv, TypeOK
-----------------------------------------------------------------------------
(* The inductive invariant holds in every reachable state.                 *)
THEOREM Inductive == Spec => []IInv
  <1>1. IInv /\ [Next]_vars => IInv'
    BY NextIInv
  <1> QED
    BY InitIInv, <1>1, PTL DEF Spec

(* The queue never holds more than _maxcap items (BlockQueue.hpp:21, 62).  *)
THEOREM Typing == Spec => []TypeOK
  <1>1. IInv => TypeOK
    BY DEF IInv
  <1> QED
    BY <1>1, Inductive, PTL

(* One signal after each push and each pop is enough: no sleeper is left   *)
(* behind with work it could do (BlockQueue.hpp:32, 47).                   *)
THEOREM OneSignalIsEnough == Spec => []NoLostWakeup
  <1>1. IInv => NoLostWakeup
    BY DEF IInv
  <1> QED
    BY <1>1, Inductive, PTL

(* The producers and the consumers never all sleep (BlockQueue.hpp:27, 41).*)
THEOREM NeverAllAsleep == Spec => []SomebodyAwake
  BY IInvSomebodyAwake, Inductive, PTL

(* The queue implements the bounded FIFO channel: its Push is the Put, its *)
(* Pop the Get, everything else in push and pop is invisible               *)
(* (BlockQueue.hpp:18-50).                                                 *)
THEOREM ImplementsChannel == Spec => Channel!Spec
  <1>1. Init => Channel!Init
    BY DEF Init, Channel!Init, Values
  <1>2. IInv /\ [Next]_vars => [Channel!Next]_(Channel!vars)
    <2> SUFFICES ASSUME IInv, [Next]_vars
                 PROVE  [Channel!Next]_(Channel!vars)
      OBVIOUS
    <2>1. ASSUME NEW p \in Producers, Push(p)
          PROVE  Channel!Next
      <3>1. in[p] \in Values /\ Len(q) < MaxCap
        BY <2>1 DEF Push, Goto, IInv, TypeOK, MoveInv
      <3> QED
        BY <2>1, <3>1 DEF Push, Channel!Next, Channel!AnyPut, Channel!Put
    <2>2. ASSUME NEW c \in Consumers, Pop(c)
          PROVE  Channel!Next
      BY <2>2 DEF Pop, Channel!Next, Channel!AnyGet, Channel!Get
    <2>3. CASE UNCHANGED <<q, out>>
      BY <2>3 DEF Channel!vars
    <2>4. CASE \/ \E p \in Producers, v \in Items : CallPush(p, v)
               \/ \E c \in Consumers : CallPop(c)
               \/ \E t \in Threads : Spurious(t) \/ Step(t)
               \/ \E p \in Producers : TestPush(p)
               \/ \E c \in Consumers : TestPop(c)
               \/ UNCHANGED vars
      <3>1. UNCHANGED <<q, out>>
        BY <2>4 DEF CallPush, CallPop, Spurious, Step, Lock, SignalOther, Signal,
                    Unlock, TestPush, TestPop, Sleep, Pass, vars
      <3> QED
        BY <3>1, <2>3
    <2> QED
      BY <2>1, <2>2, <2>4, Sides DEF Next, Inside, PushStep, PopStep
  <1> QED
    BY <1>1, <1>2, Inductive, PTL DEF Spec, Channel!Spec
=============================================================================
