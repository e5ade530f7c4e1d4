--------------------------- MODULE RingQueueProof ---------------------------
(***************************************************************************)
(* Proofs about RingQueue, for any number of producers and consumers and   *)
(* any capacity.  The inductive invariant IInv says where the tokens of    *)
(* the two semaphores are (SlotsInv) and that the producers write exactly  *)
(* Size slots ahead of where the consumers read (RingInv).  A step moves   *)
(* one thread from one label to the next, so the proof first says what     *)
(* such a move does to the number of threads at a set of labels.           *)
(***************************************************************************)
EXTENDS RingQueue, ProofLemmas, FiniteSetTheorems, TLAPS

Count(T, labels) == Cardinality(At(T, labels))

(* Arithmetic of a step counter and its capacity.                          *)
LEMMA ModCap ==
  ASSUME NEW i \in 0 .. Cap
  PROVE  /\ i % Cap \in Slots
         /\ (i % Cap) % Cap = i % Cap
         /\ i \in Slots => i % Cap = i
         /\ i = Cap => i % Cap = 0
  <1>1. Cap \in Nat \ {0}
    BY RingAssumption
  <1>2. i % Cap \in 0 .. Cap - 1
    BY <1>1
  <1>3. \A j \in 0 .. Cap - 1 : j % Cap = j
    BY <1>1
  <1>4. Cap % Cap = 0
    BY <1>1
  <1> QED
    BY <1>1, <1>2, <1>3, <1>4 DEF Slots

(* The slot after slot i: the next one, or slot 0 again.                   *)
LEMMA NextSlot ==
  ASSUME NEW i \in Slots
  PROVE  \/ i + 1 < Cap /\ (i + 1) % Cap = i + 1
         \/ i + 1 = Cap /\ (i + 1) % Cap = 0
  <1>1. i + 1 \in 0 .. Cap /\ i + 1 \in Int
    BY RingAssumption DEF Slots
  <1>2. CASE i + 1 = Cap
    BY <1>1, <1>2, ModCap
  <1>3. CASE i + 1 # Cap
    <2>1. i + 1 \in Slots /\ i + 1 < Cap
      BY <1>1, <1>3, RingAssumption DEF Slots
    <2> QED
      BY <1>1, <2>1, ModCap
  <1> QED
    BY <1>2, <1>3

(* Both sides are finite sets of threads.                                  *)
LEMMA CountType ==
  ASSUME NEW T \in {Producers, Consumers}, NEW labels
  PROVE  /\ IsFiniteSet(At(T, labels))
         /\ Count(T, labels) \in Nat
         /\ \A t \in T : pc[t] \in labels => Count(T, labels) > 0
  <1>1. IsFiniteSet(T)
    BY RingAssumption
  <1>2. /\ IsFiniteSet({u \in T : pc[u] \in labels})
        /\ Cardinality({u \in T : pc[u] \in labels}) \in Nat
        /\ \A t \in T : pc[t] \in labels =>
                        Cardinality({u \in T : pc[u] \in labels}) > 0
    BY <1>1, CountingType
  <1> QED
    BY <1>2 DEF At, Count

(* A thread that moves changes the number of threads of its own side at    *)
(* the labels it leaves and enters.                                        *)
LEMMA MoveCount ==
  ASSUME TypeOK, NEW T \in {Producers, Consumers}, NEW t \in T, NEW labels,
         NEW from \in Labels, NEW to \in Labels, Goto(t, from, to)
  PROVE  Count(T, labels)' =
           Count(T, labels) + (IF to \in labels THEN 1 ELSE 0)
                            - (IF from \in labels THEN 1 ELSE 0)
  <1>1. pc'[t] = to /\ pc[t] = from /\ \A u \in T \ {t} : pc'[u] = pc[u]
    BY DEF Goto, TypeOK, Threads
  <1>2. IsFiniteSet(T)
    BY RingAssumption
  <1> QED
    BY <1>1, <1>2, CountingMove DEF Count, At

(* The other side's threads stay where they are.                           *)
LEMMA StayCount ==
  ASSUME TypeOK, NEW T \in {Producers, Consumers}, NEW t \in Threads \ T,
         NEW labels, NEW from, NEW to, Goto(t, from, to)
  PROVE  Count(T, labels)' = Count(T, labels)
  <1>1. \A u \in T : pc'[u] = pc[u]
    BY DEF Goto, TypeOK, Threads
  <1> QED
    BY <1>1, CountingStay DEF Count, At
-----------------------------------------------------------------------------
(* What IInv says of the slots in use.                                     *)

(* Which side a thread is on.                                              *)
LEMMA SideFacts ==
  /\ Producers \subseteq Threads /\ Consumers \subseteq Threads
  /\ \A t \in Threads : Side(t) \in Sides /\ Other(Side(t)) \in Sides
  /\ \A t \in Producers : Side(t) = "push" /\ t \notin Consumers
  /\ \A t \in Consumers : Side(t) = "pop" /\ t \notin Producers
  /\ NoThread \notin Threads
  BY RingAssumption DEF Threads, Side, Other, Sides

(* The thread that accesses a slot determines the front of its side.       *)
LEMMA FrontAccess ==
  ASSUME MutexInv, NEW T \in {Producers, Consumers}, NEW t \in T,
         pc[t] = "access", NEW s
  PROVE  Front(T, s) = idx[t]
  <1>1. \A u \in T : pc[u] = "access" => u = t
    BY SideFacts DEF MutexInv, Critical
  <1> QED
    BY <1>1 DEF Front

(* When no thread of a side accesses a slot, its counter is the front.     *)
LEMMA FrontStep ==
  ASSUME NEW T \in {Producers, Consumers}, NEW s,
         \A t \in T : pc[t] # "access"
  PROVE  Front(T, s) = step[s] % Cap
  BY DEF Front

(* Both fronts are slots of the ring.                                      *)
LEMMA FrontType ==
  ASSUME TypeOK
  PROVE  /\ Front(Producers, "push") \in Slots
         /\ Front(Consumers, "pop") \in Slots
  <1>1. ASSUME NEW T \in {Producers, Consumers}, NEW s \in Sides
        PROVE  Front(T, s) \in Slots
    <2>1. CASE \E t \in T : pc[t] = "access"
      <3>1. Front(T, s) = idx[CHOOSE t \in T : pc[t] = "access"]
        BY <2>1 DEF Front
      <3>2. (CHOOSE t \in T : pc[t] = "access") \in Threads
        BY <2>1, SideFacts
      <3> QED
        BY <3>1, <3>2 DEF TypeOK
    <2>2. CASE ~ \E t \in T : pc[t] = "access"
      <3>1. Front(T, s) = step[s] % Cap
        BY <2>2, FrontStep
      <3>2. step[s] \in 0 .. Cap
        BY DEF TypeOK
      <3> QED
        BY <3>1, <3>2, ModCap
    <2> QED
      BY <2>1, <2>2
  <1> QED
    BY <1>1 DEF Sides

(* Before a thread claims, and after it has wrapped, the counter of its    *)
(* side is a slot; while it wraps, the counter is one past its slot.       *)
LEMMA CriticalStep ==
  ASSUME TypeOK, MutexInv, StepInv, NEW t \in Threads,
         pc[t] \in {"claim", "unlock"}
  PROVE  /\ step[Side(t)] \in Slots
         /\ \A u \in Threads :
              Side(u) = Side(t) => pc[u] \notin {"access", "wrap"}
  <1>1. \A u \in Threads : Side(u) = Side(t) => pc[u] \notin {"access", "wrap"}
    BY DEF MutexInv, Critical
  <1> QED
    BY <1>1, SideFacts DEF StepInv

(* The four counts that Free and Size are made of.                         *)
LEMMA Sums ==
  ASSUME TypeOK
  PROVE  /\ Free = sem["push"] + Count(Producers, Before) + Count(Consumers, After)
         /\ Size = sem["pop"] + Count(Producers, After) + Count(Consumers, Before)
         /\ Count(Producers, Before) \in Nat /\ Count(Producers, After) \in Nat
         /\ Count(Consumers, Before) \in Nat /\ Count(Consumers, After) \in Nat
         /\ sem["push"] \in 0 .. Cap /\ sem["pop"] \in 0 .. Cap
         /\ Free \in Nat /\ Size \in Nat
  <1>1. /\ Free = sem["push"] + Count(Producers, Before) + Count(Consumers, After)
        /\ Size = sem["pop"] + Count(Producers, After) + Count(Consumers, Before)
    BY DEF Free, Size, Count
  <1>2. /\ Count(Producers, Before) \in Nat /\ Count(Producers, After) \in Nat
        /\ Count(Consumers, Before) \in Nat /\ Count(Consumers, After) \in Nat
    BY CountType
  <1>3. sem["push"] \in 0 .. Cap /\ sem["pop"] \in 0 .. Cap
    BY DEF TypeOK, Sides
  <1> QED
    BY <1>1, <1>2, <1>3, RingAssumption

(* A producer in the middle of a store and a consumer in the middle of a   *)
(* load: there is a filled slot and a free one, so their slots differ.     *)
LEMMA IInvSlotExclusive == IInv => SlotExclusive
  <1> SUFFICES ASSUME IInv, NEW p \in Producers, NEW c \in Consumers,
                      pc[p] = "access", pc[c] = "access"
               PROVE  idx[p] # idx[c]
    BY DEF SlotExclusive
  <1>1. Front(Producers, "push") = idx[p] /\ Front(Consumers, "pop") = idx[c]
    BY FrontAccess DEF IInv
  <1>2. idx[p] \in Slots /\ idx[c] \in Slots
    BY SideFacts DEF IInv, TypeOK
  <1>3. Count(Producers, Before) > 0 /\ Count(Consumers, Before) > 0
    BY CountType DEF Before
  <1>4. Size > 0 /\ Free > 0 /\ Size \in Nat /\ Free \in Nat
    BY <1>3, Sums DEF IInv
  <1>5. Free + Size = Cap
    BY DEF IInv, SlotsInv
  <1>6. idx[p] = idx[c] + Size \/ idx[p] = idx[c] + Size - Cap
    BY <1>1 DEF IInv, RingInv
  <1> QED
    BY <1>2, <1>4, <1>5, <1>6, RingAssumption DEF Slots

(* Two threads in the critical section of a side own the same mutex.       *)
LEMMA IInvSideExclusive == IInv => SideExclusive
  BY DEF IInv, MutexInv, SideExclusive, Critical

(* Every thread inside push or pop is counted once by Free or by Size.     *)
LEMMA IInvTokensConserved == IInv => TokensConserved
  <1> SUFFICES ASSUME IInv PROVE TokensConserved
    OBVIOUS
  <1> DEFINE PB == At(Producers, Before)
             PA == At(Producers, After)
             CB == At(Consumers, Before)
             CA == At(Consumers, After)
  <1>1. {t \in Threads : pc[t] # "idle"} = (PB \cup PA) \cup (CB \cup CA)
    <2>1. \A t \in Threads : pc[t] # "idle" <=> pc[t] \in Before \cup After
      BY DEF IInv, TypeOK, Labels, Before, After
    <2> QED
      BY <2>1 DEF At, Threads
  <1>2. PB \cap PA = {} /\ CB \cap CA = {}
    BY DEF At, Before, After
  <1>3. (PB \cup PA) \cap (CB \cup CA) = {}
    BY RingAssumption DEF At
  <1>4. IsFiniteSet(PB) /\ IsFiniteSet(PA) /\ IsFiniteSet(CB) /\ IsFiniteSet(CA)
    BY CountType
  <1>5. /\ Cardinality(PB) = Count(Producers, Before)
        /\ Cardinality(PA) = Count(Producers, After)
        /\ Cardinality(CB) = Count(Consumers, Before)
        /\ Cardinality(CA) = Count(Consumers, After)
    BY DEF Count
  <1> HIDE DEF PB, PA, CB, CA
  <1>6. IsFiniteSet(PB \cup PA) /\ Cardinality(PB \cup PA) = Cardinality(PB) + Cardinality(PA) - Cardinality(PB \cap PA)
    BY <1>4, FS_Union
  <1>7. IsFiniteSet(CB \cup CA) /\ Cardinality(CB \cup CA) = Cardinality(CB) + Cardinality(CA) - Cardinality(CB \cap CA)
    BY <1>4, FS_Union
  <1>8. Cardinality((PB \cup PA) \cup (CB \cup CA)) =
          Cardinality(PB \cup PA) + Cardinality(CB \cup CA)
            - Cardinality((PB \cup PA) \cap (CB \cup CA))
    BY <1>6, <1>7, FS_Union
  <1>9. Cardinality({}) = 0
    BY FS_EmptySet
  <1>10. Cardinality({t \in Threads : pc[t] # "idle"}) =
           Count(Producers, Before) + Count(Producers, After)
             + Count(Consumers, Before) + Count(Consumers, After)
    <2>1. TypeOK
      BY DEF IInv
    <2>2. /\ Cardinality(PB) \in Nat /\ Cardinality(PA) \in Nat
          /\ Cardinality(CB) \in Nat /\ Cardinality(CA) \in Nat
      BY <1>5, <2>1, Sums
    <2>3. Cardinality(PB \cap PA) = 0 /\ Cardinality(CB \cap CA) = 0
      BY <1>2, <1>9, Zenon
    <2>4. Cardinality((PB \cup PA) \cap (CB \cup CA)) = 0
      BY <1>3, <1>9, Zenon
    <2>5. Cardinality((PB \cup PA) \cup (CB \cup CA)) =
            Cardinality(PB) + Cardinality(PA) + Cardinality(CB) + Cardinality(CA)
      BY <1>6, <1>7, <1>8, <2>2, <2>3, <2>4
    <2> QED
      BY <1>1, <1>5, <2>5, Zenon
  <1>11. TypeOK /\ Free + Size = Cap
    BY DEF IInv, SlotsInv
  <1> QED
    BY <1>10, <1>11, Sums DEF TokensConserved
-----------------------------------------------------------------------------
(* IInv holds initially.                                                   *)
LEMMA InitIInv == Init => IInv
  <1> SUFFICES ASSUME Init PROVE IInv
    OBVIOUS
  <1>1. \A t \in Threads : pc[t] = "idle"
    BY DEF Init
  <1>2. TypeOK
    BY RingAssumption, SideFacts
    DEF TypeOK, Init, Tasks, Slots, Sides, Labels
  <1>3. MutexInv
    BY <1>1 DEF MutexInv, Critical
  <1>4. StepInv
    BY <1>1, RingAssumption DEF StepInv, Init, Slots
  <1>5. /\ Count(Producers, Before) = 0 /\ Count(Producers, After) = 0
        /\ Count(Consumers, Before) = 0 /\ Count(Consumers, After) = 0
    <2>1. \A T \in {Producers, Consumers} :
            At(T, Before) = {} /\ At(T, After) = {}
      BY <1>1, SideFacts DEF At, Before, After
    <2> QED
      BY <2>1, FS_EmptySet DEF Count
  <1>6. Free = Cap /\ Size = 0
    BY <1>2, <1>5, Sums, RingAssumption DEF Init, Sides
  <1>7. SlotsInv
    BY <1>6, RingAssumption DEF SlotsInv
  <1>8. Front(Producers, "push") = step["push"] % Cap
    BY <1>1, SideFacts, FrontStep
  <1>9. Front(Consumers, "pop") = step["pop"] % Cap
    BY <1>1, SideFacts, FrontStep
  <1>10. RingInv
    <2>1. step["push"] = 0 /\ step["pop"] = 0
      BY DEF Init, Sides
    <2>2. 0 % Cap = 0
      BY ModCap, RingAssumption DEF Slots
    <2> QED
      BY <1>6, <1>8, <1>9, <2>1, <2>2 DEF RingInv
  <1> QED
    BY <1>2, <1>3, <1>4, <1>7, <1>10 DEF IInv
-----------------------------------------------------------------------------
(* How the steps move the counts, the fronts and the parts of IInv that    *)
(* most actions leave alone.                                               *)

(* The slots accounted for after a step of a producer.                     *)
LEMMA ProducerSums ==
  ASSUME TypeOK, NEW p \in Producers, NEW from \in Labels, NEW to \in Labels,
         Goto(p, from, to), sem' \in [Sides -> Int]
  PROVE  /\ Free' = sem["push"]' + Count(Consumers, After)
                      + Count(Producers, Before)
                      + (IF to \in Before THEN 1 ELSE 0)
                      - (IF from \in Before THEN 1 ELSE 0)
         /\ Size' = sem["pop"]' + Count(Consumers, Before)
                      + Count(Producers, After)
                      + (IF to \in After THEN 1 ELSE 0)
                      - (IF from \in After THEN 1 ELSE 0)
  <1>1. /\ Count(Consumers, After)' = Count(Consumers, After)
        /\ Count(Consumers, Before)' = Count(Consumers, Before)
    BY StayCount, SideFacts
  <1>2. /\ Count(Producers, Before)' = Count(Producers, Before)
             + (IF to \in Before THEN 1 ELSE 0) - (IF from \in Before THEN 1 ELSE 0)
        /\ Count(Producers, After)' = Count(Producers, After)
             + (IF to \in After THEN 1 ELSE 0) - (IF from \in After THEN 1 ELSE 0)
    BY MoveCount
  <1>3. /\ Free' = sem["push"]' + Count(Producers, Before)' + Count(Consumers, After)'
        /\ Size' = sem["pop"]' + Count(Producers, After)' + Count(Consumers, Before)'
    BY DEF Free, Size, Count
  <1>4. /\ Count(Producers, Before) \in Nat /\ Count(Producers, After) \in Nat
        /\ Count(Consumers, Before) \in Nat /\ Count(Consumers, After) \in Nat
    BY CountType
  <1>5. sem["push"]' \in Int /\ sem["pop"]' \in Int
    BY DEF Sides
  <1> QED
    BY <1>1, <1>2, <1>3, <1>4, <1>5

(* The slots accounted for after a step of a consumer.                     *)
LEMMA ConsumerSums ==
  ASSUME TypeOK, NEW c \in Consumers, NEW from \in Labels, NEW to \in Labels,
         Goto(c, from, to), sem' \in [Sides -> Int]
  PROVE  /\ Free' = sem["push"]' + Count(Producers, Before)
                      + Count(Consumers, After)
                      + (IF to \in After THEN 1 ELSE 0)
                      - (IF from \in After THEN 1 ELSE 0)
         /\ Size' = sem["pop"]' + Count(Producers, After)
                      + Count(Consumers, Before)
                      + (IF to \in Before THEN 1 ELSE 0)
                      - (IF from \in Before THEN 1 ELSE 0)
  <1>1. /\ Count(Producers, After)' = Count(Producers, After)
        /\ Count(Producers, Before)' = Count(Producers, Before)
    BY StayCount, SideFacts
  <1>2. /\ Count(Consumers, Before)' = Count(Consumers, Before)
             + (IF to \in Before THEN 1 ELSE 0) - (IF from \in Before THEN 1 ELSE 0)
        /\ Count(Consumers, After)' = Count(Consumers, After)
             + (IF to \in After THEN 1 ELSE 0) - (IF from \in After THEN 1 ELSE 0)
    BY MoveCount
  <1>3. /\ Free' = sem["push"]' + Count(Producers, Before)' + Count(Consumers, After)'
        /\ Size' = sem["pop"]' + Count(Producers, After)' + Count(Consumers, Before)'
    BY DEF Free, Size, Count
  <1>4. /\ Count(Producers, Before) \in Nat /\ Count(Producers, After) \in Nat
        /\ Count(Consumers, Before) \in Nat /\ Count(Consumers, After) \in Nat
    BY CountType
  <1>5. sem["push"]' \in Int /\ sem["pop"]' \in Int
    BY DEF Sides
  <1> QED
    BY <1>1, <1>2, <1>3, <1>4, <1>5

(* A side whose accesses and counter do not change keeps its front.        *)
LEMMA FrontSame ==
  ASSUME MutexInv, MutexInv', NEW T \in {Producers, Consumers}, NEW s,
         \A u \in T : (pc'[u] = "access") <=> (pc[u] = "access"),
         idx' = idx, step'[s] = step[s]
  PROVE  Front(T, s)' = Front(T, s)
  <1>1. CASE \E u \in T : pc[u] = "access"
    <2>1. PICK u \in T : pc[u] = "access"
      BY <1>1
    <2>2. Front(T, s) = idx[u]
      BY <2>1, FrontAccess
    <2>3. \A v \in T : pc'[v] = "access" => v = u
      BY <2>1, SideFacts DEF MutexInv, Critical
    <2>4. Front(T, s)' = idx'[u]
      BY <2>1, <2>3 DEF Front
    <2> QED
      BY <2>2, <2>4
  <1>2. CASE ~ \E u \in T : pc[u] = "access"
    BY <1>2 DEF Front
  <1> QED
    BY <1>1, <1>2

(* What a step that neither stores nor loads leaves alone: how many items  *)
(* the ring holds and the slot of the oldest.                              *)
SameWindow ==
  /\ Size' = Size
  /\ Front(Consumers, "pop")' = Front(Consumers, "pop")

(* A step that has nothing to do with the ring itself.                     *)
LEMMA QuietStep ==
  ASSUME IInv, NEW t \in Threads, NEW from \in Labels, NEW to \in Labels,
         Goto(t, from, to),
         from \notin {"access", "wrap"}, to \notin {"access", "wrap"},
         UNCHANGED <<step, idx>>, MutexInv', Size' = Size, Free' = Free
  PROVE  StepInv' /\ SlotsInv' /\ RingInv' /\ SameWindow
  <1>1. pc' = [pc EXCEPT ![t] = to] /\ pc[t] = from /\ pc \in [Threads -> Labels]
    BY DEF Goto, IInv, TypeOK
  <1>2. \A u \in Threads : /\ (pc'[u] = "access") <=> (pc[u] = "access")
                           /\ (pc'[u] = "wrap") <=> (pc[u] = "wrap")
    BY <1>1
  <1>3. StepInv'
    BY <1>2 DEF IInv, StepInv
  <1>4. SlotsInv'
    BY DEF IInv, SlotsInv
  <1>5. /\ Front(Producers, "push")' = Front(Producers, "push")
        /\ Front(Consumers, "pop")' = Front(Consumers, "pop")
    BY <1>2, FrontSame, SideFacts DEF IInv
  <1>6. RingInv'
    BY <1>5 DEF IInv, RingInv
  <1> QED
    BY <1>3, <1>4, <1>5, <1>6 DEF SameWindow
-----------------------------------------------------------------------------
(* Every action preserves IInv.                                            *)

(* P takes a token from the semaphore; the thread holds it from then on.   *)
LEMMA WaitIInv ==
  ASSUME IInv, NEW t \in Threads, Wait(t)
  PROVE  IInv' /\ SameWindow
  <1>1. /\ pc' = [pc EXCEPT ![t] = "lock"] /\ pc[t] = "idle"
        /\ pc \in [Threads -> Labels]
    BY DEF Wait, Goto, IInv, TypeOK
  <1>2. TypeOK'
    <2>1. sem' \in [Sides -> 0 .. Cap]
      BY SideFacts, RingAssumption DEF Wait, IInv, TypeOK
    <2>2. in' \in [Producers -> Tasks]
      BY DEF Wait, IInv, TypeOK, Tasks
    <2>3. pc' \in [Threads -> Labels]
      BY <1>1 DEF Labels
    <2> QED
      BY <2>1, <2>2, <2>3 DEF Wait, IInv, TypeOK
  <1>3. MutexInv'
    BY <1>1 DEF Wait, IInv, MutexInv, Critical
  <1>4. Size' = Size /\ Free' = Free
    <2>1. sem' \in [Sides -> Int] /\ TypeOK
      BY <1>2 DEF TypeOK, IInv
    <2>2. CASE t \in Producers
      <3>1. sem'["push"] = sem["push"] - 1 /\ sem'["pop"] = sem["pop"]
        BY <2>2, SideFacts DEF Wait, IInv, TypeOK, Sides
      <3>2. /\ Free' = sem["push"]' + Count(Consumers, After) + Count(Producers, Before) + 1
            /\ Size' = sem["pop"]' + Count(Consumers, Before) + Count(Producers, After)
        BY <2>1, <2>2, ProducerSums, Sums DEF Wait, Labels, Before, After
      <3> QED
        BY <2>1, <3>1, <3>2, Sums
    <2>3. CASE t \in Consumers
      <3>1. sem'["pop"] = sem["pop"] - 1 /\ sem'["push"] = sem["push"]
        BY <2>3, SideFacts DEF Wait, IInv, TypeOK, Sides
      <3>2. /\ Free' = sem["push"]' + Count(Producers, Before) + Count(Consumers, After)
            /\ Size' = sem["pop"]' + Count(Producers, After) + Count(Consumers, Before) + 1
        BY <2>1, <2>3, ConsumerSums, Sums DEF Wait, Labels, Before, After
      <3> QED
        BY <2>1, <3>1, <3>2, Sums
    <2> QED
      BY <2>2, <2>3 DEF Threads
  <1>5. StepInv' /\ SlotsInv' /\ RingInv' /\ SameWindow
    BY <1>3, <1>4, QuietStep DEF Wait, Labels
  <1> QED
    BY <1>2, <1>3, <1>5 DEF IInv

(* A step within one class of labels moves no token.                       *)
LEMMA SameClass ==
  ASSUME TypeOK, NEW t \in Threads, NEW from \in Labels, NEW to \in Labels,
         Goto(t, from, to), UNCHANGED sem,
         (from \in Before) <=> (to \in Before),
         (from \in After) <=> (to \in After)
  PROVE  Size' = Size /\ Free' = Free
  <1>1. sem' \in [Sides -> Int]
    BY RingAssumption DEF TypeOK
  <1>2. CASE t \in Producers
    <2>1. /\ Free' = sem["push"]' + Count(Consumers, After) + Count(Producers, Before)
          /\ Size' = sem["pop"]' + Count(Consumers, Before) + Count(Producers, After)
      BY <1>1, <1>2, ProducerSums, Sums
    <2> QED
      BY <2>1, Sums
  <1>3. CASE t \in Consumers
    <2>1. /\ Free' = sem["push"]' + Count(Producers, Before) + Count(Consumers, After)
          /\ Size' = sem["pop"]' + Count(Producers, After) + Count(Consumers, Before)
      BY <1>1, <1>3, ConsumerSums, Sums
    <2> QED
      BY <2>1, Sums
  <1> QED
    BY <1>2, <1>3 DEF Threads

(* Only a free mutex is taken.                                             *)
LEMMA LockIInv ==
  ASSUME IInv, NEW t \in Threads, Lock(t)
  PROVE  IInv' /\ SameWindow
  <1>1. /\ pc' = [pc EXCEPT ![t] = "claim"] /\ pc[t] = "lock"
        /\ pc \in [Threads -> Labels]
    BY DEF Lock, Goto, IInv, TypeOK
  <1>2. TypeOK'
    <2>1. pc' \in [Threads -> Labels]
      BY <1>1 DEF Labels
    <2> QED
      BY <2>1, SideFacts DEF Lock, IInv, TypeOK
  <1>3. MutexInv'
    <2>1. \A u \in Threads : Side(u) = Side(t) => pc[u] \notin Critical
      BY SideFacts DEF Lock, IInv, MutexInv
    <2> QED
      BY <1>1, <2>1, SideFacts DEF Lock, IInv, TypeOK, MutexInv
  <1>4. Size' = Size /\ Free' = Free
    BY SameClass DEF Lock, IInv, Labels, Before, After
  <1>5. StepInv' /\ SlotsInv' /\ RingInv' /\ SameWindow
    BY <1>3, <1>4, QuietStep DEF Lock, Labels
  <1> QED
    BY <1>2, <1>3, <1>5 DEF IInv

(* The owner alone gives the mutex back.                                   *)
LEMMA UnlockIInv ==
  ASSUME IInv, NEW t \in Threads, Unlock(t)
  PROVE  IInv' /\ SameWindow
  <1>1. /\ pc' = [pc EXCEPT ![t] = "post"] /\ pc[t] = "unlock"
        /\ pc \in [Threads -> Labels]
    BY DEF Unlock, Goto, IInv, TypeOK
  <1>2. TypeOK'
    <2>1. pc' \in [Threads -> Labels]
      BY <1>1 DEF Labels
    <2> QED
      BY <2>1, SideFacts DEF Unlock, IInv, TypeOK
  <1>3. MutexInv'
    <2>1. \A u \in Threads \ {t} : Side(u) = Side(t) => pc[u] \notin Critical
      BY <1>1 DEF IInv, MutexInv, Critical
    <2> QED
      BY <1>1, <2>1, SideFacts DEF Unlock, IInv, TypeOK, MutexInv, Critical
  <1>4. Size' = Size /\ Free' = Free
    BY SameClass DEF Unlock, IInv, Labels, Before, After
  <1>5. StepInv' /\ SlotsInv' /\ RingInv' /\ SameWindow
    BY <1>3, <1>4, QuietStep DEF Unlock, Labels
  <1> QED
    BY <1>2, <1>3, <1>5 DEF IInv

(* V puts the token the thread holds into the semaphore of the other side. *)
LEMMA PostIInv ==
  ASSUME IInv, NEW t \in Threads, Post(t)
  PROVE  IInv' /\ SameWindow
  <1>1. /\ pc' = [pc EXCEPT ![t] = "idle"] /\ pc[t] = "post"
        /\ pc \in [Threads -> Labels]
    BY DEF Post, Goto, IInv, TypeOK
  <1>2. sem' \in [Sides -> Int] /\ TypeOK
    BY SideFacts, RingAssumption DEF Post, IInv, TypeOK
  <1>3. MutexInv'
    BY <1>1 DEF Post, IInv, MutexInv, Critical
  <1>4. Size' = Size /\ Free' = Free /\ sem' \in [Sides -> 0 .. Cap]
    <2>1. Free + Size = Cap
      BY DEF IInv, SlotsInv
    <2>2. CASE t \in Producers
      <3>1. sem'["pop"] = sem["pop"] + 1 /\ sem'["push"] = sem["push"]
        BY <2>2, SideFacts DEF Post, IInv, TypeOK, Sides, Other
      <3>2. /\ Free' = sem["push"]' + Count(Consumers, After) + Count(Producers, Before)
            /\ Size' = sem["pop"]' + Count(Consumers, Before) + Count(Producers, After) - 1
        BY <1>2, <2>2, ProducerSums, Sums DEF Post, Labels, Before, After
      <3>3. Count(Producers, After) > 0
        BY <1>1, <2>2, CountType DEF After
      <3>4. sem'["pop"] \in 0 .. Cap /\ sem'["push"] \in 0 .. Cap
        BY <1>2, <2>1, <3>1, <3>3, Sums, RingAssumption
      <3>5. sem' \in [Sides -> 0 .. Cap]
        BY <1>2, <3>4 DEF Sides
      <3> QED
        BY <1>2, <3>1, <3>2, <3>5, Sums
    <2>3. CASE t \in Consumers
      <3>1. sem'["push"] = sem["push"] + 1 /\ sem'["pop"] = sem["pop"]
        BY <2>3, SideFacts DEF Post, IInv, TypeOK, Sides, Other
      <3>2. /\ Free' = sem["push"]' + Count(Producers, Before) + Count(Consumers, After) - 1
            /\ Size' = sem["pop"]' + Count(Producers, After) + Count(Consumers, Before)
        BY <1>2, <2>3, ConsumerSums, Sums DEF Post, Labels, Before, After
      <3>3. Count(Consumers, After) > 0
        BY <1>1, <2>3, CountType DEF After
      <3>4. sem'["pop"] \in 0 .. Cap /\ sem'["push"] \in 0 .. Cap
        BY <1>2, <2>1, <3>1, <3>3, Sums, RingAssumption
      <3>5. sem' \in [Sides -> 0 .. Cap]
        BY <1>2, <3>4 DEF Sides
      <3> QED
        BY <1>2, <3>1, <3>2, <3>5, Sums
    <2> QED
      BY <2>2, <2>3 DEF Threads
  <1>5. TypeOK'
    <2>1. pc' \in [Threads -> Labels]
      BY <1>1 DEF Labels
    <2> QED
      BY <1>4, <2>1 DEF Post, IInv, TypeOK
  <1>6. StepInv' /\ SlotsInv' /\ RingInv' /\ SameWindow
    BY <1>3, <1>4, QuietStep DEF Post, Labels
  <1> QED
    BY <1>3, <1>5, <1>6 DEF IInv

(* FrontAccess in the next state.                                          *)
LEMMA FrontAccessNext ==
  ASSUME MutexInv', NEW T \in {Producers, Consumers}, NEW t \in T,
         pc'[t] = "access", NEW s
  PROVE  Front(T, s)' = idx'[t]
  <1>1. \A u \in T : pc'[u] = "access" => u = t
    BY SideFacts DEF MutexInv, Critical
  <1> QED
    BY <1>1 DEF Front

(* FrontStep in the next state.                                            *)
LEMMA FrontStepNext ==
  ASSUME NEW T \in {Producers, Consumers}, NEW s,
         \A t \in T : pc'[t] # "access"
  PROVE  Front(T, s)' = step'[s] % Cap
  BY DEF Front

(* Taking the index moves the counter but not the front.                   *)
LEMMA ClaimIInv ==
  ASSUME IInv, NEW t \in Threads, Claim(t)
  PROVE  IInv' /\ SameWindow
  <1>1. /\ pc' = [pc EXCEPT ![t] = "access"] /\ pc[t] = "claim"
        /\ pc \in [Threads -> Labels]
    BY DEF Claim, Goto, IInv, TypeOK
  <1>2. /\ step[Side(t)] \in Slots
        /\ \A u \in Threads : Side(u) = Side(t) => pc[u] \notin {"access", "wrap"}
    BY <1>1, CriticalStep DEF IInv
  <1>3. /\ step' = [step EXCEPT ![Side(t)] = @ + 1]
        /\ idx' = [idx EXCEPT ![t] = step[Side(t)]]
        /\ step \in [Sides -> 0 .. Cap] /\ idx \in [Threads -> Slots]
    BY DEF Claim, IInv, TypeOK
  <1>4. TypeOK'
    <2>1. pc' \in [Threads -> Labels]
      BY <1>1 DEF Labels
    <2>2. idx' \in [Threads -> Slots]
      BY <1>2, <1>3
    <2>3. step[Side(t)] + 1 \in 0 .. Cap
      BY <1>2, RingAssumption DEF Slots
    <2>4. step' \in [Sides -> 0 .. Cap]
      BY <1>3, <2>3, SideFacts
    <2> QED
      BY <2>1, <2>2, <2>4 DEF Claim, IInv, TypeOK
  <1>5. MutexInv'
    BY <1>1 DEF Claim, IInv, MutexInv, Critical
  <1>6. Size' = Size /\ Free' = Free
    BY SameClass DEF Claim, IInv, Labels, Before, After
  <1>7. SlotsInv'
    BY <1>6 DEF IInv, SlotsInv
  <1>8. StepInv'
    <2>1. ASSUME NEW u \in Threads, pc'[u] = "access"
          PROVE  step'[Side(u)] = idx'[u] + 1
      <3>1. CASE u = t
        BY <1>3, <3>1, SideFacts
      <3>2. CASE u # t
        <4>1. pc[u] = "access" /\ Side(u) # Side(t)
          BY <1>1, <1>2, <2>1, <3>2
        <4> QED
          BY <1>3, <3>2, <4>1, SideFacts DEF IInv, StepInv
      <3> QED
        BY <3>1, <3>2
    <2>2. ASSUME NEW s \in Sides,
                 \A u \in Threads : Side(u) = s => pc'[u] \notin {"access", "wrap"}
          PROVE  step'[s] \in Slots
      <3>1. s # Side(t)
        BY <1>1, <2>2
      <3>2. \A u \in Threads : Side(u) = s => pc[u] \notin {"access", "wrap"}
        BY <1>1, <2>2, <3>1
      <3> QED
        BY <1>3, <3>1, <3>2 DEF IInv, StepInv
    <2> QED
      BY <2>1, <2>2 DEF StepInv
  <1>9. ASSUME NEW T \in {Producers, Consumers}, NEW s \in Sides,
               \A u \in T : Side(u) = s, t \in T
        PROVE  Front(T, s)' = Front(T, s)
    <2>1. Front(T, s)' = idx'[t]
      BY <1>1, <1>5, <1>9, FrontAccessNext, SideFacts
    <2>2. Front(T, s) = step[s] % Cap
      BY <1>2, <1>9, FrontStep, SideFacts
    <2>3. step[s] \in Slots /\ step[s] \in 0 .. Cap /\ idx'[t] = step[s]
      BY <1>2, <1>3, <1>9
    <2> QED
      BY <2>1, <2>2, <2>3, ModCap
  <1>10. ASSUME NEW T \in {Producers, Consumers}, NEW s \in Sides,
                \A u \in T : Side(u) = s, t \notin T, s # Side(t)
         PROVE  Front(T, s)' = Front(T, s)
    <2>1. /\ \A u \in T : pc'[u] = pc[u] /\ idx'[u] = idx[u]
          /\ step'[s] = step[s]
      BY <1>1, <1>3, <1>10, SideFacts
    <2>2. CASE \E u \in T : pc[u] = "access"
      BY <1>5, <2>1, <2>2, FrontAccess, FrontAccessNext DEF IInv
    <2>3. CASE \A u \in T : pc[u] # "access"
      BY <2>1, <2>3, FrontStep, FrontStepNext
    <2> QED
      BY <2>2, <2>3
  <1>11. /\ Front(Producers, "push")' = Front(Producers, "push")
         /\ Front(Consumers, "pop")' = Front(Consumers, "pop")
    BY <1>9, <1>10, SideFacts DEF Sides, Threads
  <1>12. RingInv'
    BY <1>6, <1>11 DEF IInv, RingInv
  <1> QED
    BY <1>4, <1>5, <1>6, <1>7, <1>8, <1>11, <1>12 DEF IInv, SameWindow

(* Wrapping the counter does not move the front.                           *)
LEMMA WrapIInv ==
  ASSUME IInv, NEW t \in Threads, Wrap(t)
  PROVE  IInv' /\ SameWindow
  <1>1. /\ pc' = [pc EXCEPT ![t] = "unlock"] /\ pc[t] = "wrap"
        /\ pc \in [Threads -> Labels]
    BY DEF Wrap, Goto, IInv, TypeOK
  <1>2. \A u \in Threads \ {t} : Side(u) = Side(t) => pc[u] \notin Critical
    BY <1>1 DEF IInv, MutexInv, Critical
  <1>3. /\ step' = [step EXCEPT ![Side(t)] = @ % Cap]
        /\ step \in [Sides -> 0 .. Cap] /\ idx' = idx
    BY DEF Wrap, IInv, TypeOK
  <1>4. step'[Side(t)] \in Slots /\ step'[Side(t)] = step[Side(t)] % Cap
    BY <1>3, ModCap, SideFacts
  <1>5. TypeOK'
    <2>1. pc' \in [Threads -> Labels]
      BY <1>1 DEF Labels
    <2>2. step' \in [Sides -> 0 .. Cap]
      <3>1. step[Side(t)] % Cap \in 0 .. Cap
        BY <1>4, RingAssumption DEF Slots
      <3> QED
        BY <1>3, <3>1, SideFacts
    <2> QED
      BY <2>1, <2>2 DEF Wrap, IInv, TypeOK
  <1>6. MutexInv'
    BY <1>1 DEF Wrap, IInv, MutexInv, Critical
  <1>7. Size' = Size /\ Free' = Free
    BY SameClass DEF Wrap, IInv, Labels, Before, After
  <1>8. SlotsInv'
    BY <1>7 DEF IInv, SlotsInv
  <1>9. StepInv'
    <2>1. ASSUME NEW u \in Threads, pc'[u] = "access"
          PROVE  step'[Side(u)] = idx'[u] + 1
      <3>1. u # t /\ pc[u] = "access" /\ Side(u) # Side(t)
        BY <1>1, <1>2, <2>1 DEF Critical
      <3> QED
        BY <1>3, <3>1, SideFacts DEF IInv, StepInv
    <2>2. ASSUME NEW s \in Sides,
                 \A u \in Threads : Side(u) = s => pc'[u] \notin {"access", "wrap"}
          PROVE  step'[s] \in Slots
      <3>1. CASE s = Side(t)
        BY <1>4, <3>1
      <3>2. CASE s # Side(t)
        <4>1. \A u \in Threads : Side(u) = s => pc[u] \notin {"access", "wrap"}
          BY <1>1, <2>2, <3>2
        <4> QED
          BY <1>3, <3>2, <4>1 DEF IInv, StepInv
      <3> QED
        BY <3>1, <3>2
    <2> QED
      BY <2>1, <2>2 DEF StepInv
  <1>10. ASSUME NEW T \in {Producers, Consumers}, NEW s \in Sides,
                \A u \in T : Side(u) = s, t \in T
         PROVE  Front(T, s)' = Front(T, s)
    <2>1. \A u \in T : pc[u] # "access" /\ pc'[u] # "access"
      BY <1>1, <1>2, <1>10, SideFacts DEF Critical
    <2>2. Front(T, s) = step[s] % Cap /\ Front(T, s)' = step'[s] % Cap
      BY <2>1, FrontStep, FrontStepNext
    <2>3. step'[s] = step[s] % Cap /\ step[s] \in 0 .. Cap
      BY <1>3, <1>4, <1>10
    <2> QED
      BY <2>2, <2>3, ModCap
  <1>11. ASSUME NEW T \in {Producers, Consumers}, NEW s \in Sides,
                t \notin T, s # Side(t)
         PROVE  Front(T, s)' = Front(T, s)
    BY <1>1, <1>3, <1>6, <1>11, FrontSame, SideFacts DEF IInv
  <1>12. /\ Front(Producers, "push")' = Front(Producers, "push")
         /\ Front(Consumers, "pop")' = Front(Consumers, "pop")
    BY <1>10, <1>11, SideFacts DEF Sides, Threads
  <1>13. RingInv'
    BY <1>7, <1>12 DEF IInv, RingInv
  <1> QED
    BY <1>5, <1>6, <1>7, <1>8, <1>9, <1>12, <1>13 DEF IInv, SameWindow

(* A store turns a free slot into a filled one, the front of the producers.*)
LEMMA StoreIInv ==
  ASSUME IInv, NEW p \in Producers, Store(p)
  PROVE  /\ IInv'
         /\ Size' = Size + 1 /\ Size < Cap
         /\ Front(Consumers, "pop")' = Front(Consumers, "pop")
         /\ \/ idx[p] = Front(Consumers, "pop") + Size
            \/ idx[p] = Front(Consumers, "pop") + Size - Cap
  <1>1. /\ pc' = [pc EXCEPT ![p] = "wrap"] /\ pc[p] = "access"
        /\ pc \in [Threads -> Labels] /\ p \in Threads
    BY SideFacts DEF Store, Goto, IInv, TypeOK
  <1>2. TypeOK'
    <2>1. pc' \in [Threads -> Labels]
      BY <1>1 DEF Labels
    <2>2. queue' \in [Slots -> Tasks]
      BY <1>1 DEF Store, IInv, TypeOK
    <2> QED
      BY <2>1, <2>2 DEF Store, IInv, TypeOK
  <1>3. MutexInv'
    BY <1>1 DEF Store, IInv, MutexInv, Critical
  <1>4. Size' = Size + 1 /\ Free' = Free - 1
    <2>1. sem' \in [Sides -> Int] /\ TypeOK /\ sem' = sem
      BY <1>2 DEF Store, TypeOK, IInv
    <2>2. /\ Free' = sem["push"]' + Count(Consumers, After) + Count(Producers, Before) - 1
          /\ Size' = sem["pop"]' + Count(Consumers, Before) + Count(Producers, After) + 1
      BY <2>1, ProducerSums, Sums DEF Store, Labels, Before, After
    <2> QED
      BY <2>1, <2>2, Sums
  <1>5. /\ Free + Size = Cap /\ Size \in Nat /\ Free \in Nat /\ Free > 0
    <2>1. Count(Producers, Before) > 0
      BY <1>1, CountType DEF Before
    <2> QED
      BY <2>1, Sums DEF IInv, SlotsInv
  <1>6. SlotsInv'
    BY <1>4, <1>5 DEF SlotsInv
  <1>7. StepInv'
    BY <1>1 DEF Store, IInv, StepInv
  <1>8. Front(Consumers, "pop")' = Front(Consumers, "pop")
    <2>1. \A u \in Consumers : pc'[u] = pc[u]
      BY <1>1, SideFacts
    <2> QED
      BY <1>3, <2>1, FrontSame DEF Store, IInv
  <1>9. Front(Producers, "push") = idx[p] /\ idx[p] \in Slots
    BY <1>1, FrontAccess DEF IInv, TypeOK
  <1>10. Front(Producers, "push")' = (idx[p] + 1) % Cap
    <2>1. \A u \in Producers : pc'[u] # "access"
      BY <1>1, SideFacts DEF IInv, MutexInv, Critical
    <2>2. step'["push"] = idx[p] + 1
      BY <1>1, SideFacts DEF Store, IInv, StepInv
    <2> QED
      BY <2>1, <2>2, FrontStepNext
  <1>11. \/ idx[p] + 1 < Cap /\ (idx[p] + 1) % Cap = idx[p] + 1
         \/ idx[p] + 1 = Cap /\ (idx[p] + 1) % Cap = 0
    BY <1>9, NextSlot
  <1>12. RingInv'
    <2>1. Front(Consumers, "pop") \in Slots
      BY FrontType DEF IInv
    <2>2. \/ idx[p] = Front(Consumers, "pop") + Size
          \/ idx[p] = Front(Consumers, "pop") + Size - Cap
      BY <1>9 DEF IInv, RingInv
    <2>3. \/ Front(Producers, "push")' = Front(Consumers, "pop")' + Size'
          \/ Front(Producers, "push")' = Front(Consumers, "pop")' + Size' - Cap
      BY <1>4, <1>5, <1>8, <1>9, <1>10, <1>11, <2>1, <2>2, RingAssumption DEF Slots
    <2> QED
      BY <2>3 DEF RingInv
  <1>13. \/ idx[p] = Front(Consumers, "pop") + Size
         \/ idx[p] = Front(Consumers, "pop") + Size - Cap
    BY <1>9 DEF IInv, RingInv
  <1> QED
    BY <1>2, <1>3, <1>4, <1>5, <1>6, <1>7, <1>8, <1>12, <1>13 DEF IInv

(* A load turns the oldest filled slot, the front of the consumers, free.  *)
LEMMA LoadIInv ==
  ASSUME IInv, NEW c \in Consumers, Load(c)
  PROVE  /\ IInv'
         /\ Size' = Size - 1 /\ Size > 0
         /\ Front(Consumers, "pop") = idx[c]
         /\ Front(Consumers, "pop")' = (idx[c] + 1) % Cap
  <1>1. /\ pc' = [pc EXCEPT ![c] = "wrap"] /\ pc[c] = "access"
        /\ pc \in [Threads -> Labels] /\ c \in Threads
    BY SideFacts DEF Load, Goto, IInv, TypeOK
  <1>2. TypeOK'
    <2>1. pc' \in [Threads -> Labels]
      BY <1>1 DEF Labels
    <2>2. out' \in [Consumers -> Tasks]
      BY <1>1 DEF Load, IInv, TypeOK
    <2> QED
      BY <2>1, <2>2 DEF Load, IInv, TypeOK
  <1>3. MutexInv'
    BY <1>1 DEF Load, IInv, MutexInv, Critical
  <1>4. Size' = Size - 1 /\ Free' = Free + 1
    <2>1. sem' \in [Sides -> Int] /\ TypeOK /\ sem' = sem
      BY <1>2 DEF Load, TypeOK, IInv
    <2>2. /\ Free' = sem["push"]' + Count(Producers, Before) + Count(Consumers, After) + 1
          /\ Size' = sem["pop"]' + Count(Producers, After) + Count(Consumers, Before) - 1
      BY <2>1, ConsumerSums, Sums DEF Load, Labels, Before, After
    <2> QED
      BY <2>1, <2>2, Sums
  <1>5. /\ Free + Size = Cap /\ Size \in Nat /\ Free \in Nat /\ Size > 0
    <2>1. Count(Consumers, Before) > 0
      BY <1>1, CountType DEF Before
    <2> QED
      BY <2>1, Sums DEF IInv, SlotsInv
  <1>6. SlotsInv'
    BY <1>4, <1>5 DEF SlotsInv
  <1>7. StepInv'
    BY <1>1 DEF Load, IInv, StepInv
  <1>8. Front(Producers, "push")' = Front(Producers, "push")
    <2>1. \A u \in Producers : pc'[u] = pc[u]
      BY <1>1, SideFacts
    <2> QED
      BY <1>3, <2>1, FrontSame DEF Load, IInv
  <1>9. Front(Consumers, "pop") = idx[c] /\ idx[c] \in Slots
    BY <1>1, FrontAccess DEF IInv, TypeOK
  <1>10. Front(Consumers, "pop")' = (idx[c] + 1) % Cap
    <2>1. \A u \in Consumers : pc'[u] # "access"
      BY <1>1, SideFacts DEF IInv, MutexInv, Critical
    <2>2. step'["pop"] = idx[c] + 1
      BY <1>1, SideFacts DEF Load, IInv, StepInv
    <2> QED
      BY <2>1, <2>2, FrontStepNext
  <1>11. \/ idx[c] + 1 < Cap /\ (idx[c] + 1) % Cap = idx[c] + 1
         \/ idx[c] + 1 = Cap /\ (idx[c] + 1) % Cap = 0
    BY <1>9, NextSlot
  <1>12. RingInv'
    <2>1. Front(Producers, "push") \in Slots
      BY FrontType DEF IInv
    <2>2. \/ Front(Producers, "push") = idx[c] + Size
          \/ Front(Producers, "push") = idx[c] + Size - Cap
      BY <1>9 DEF IInv, RingInv
    <2>3. \/ Front(Producers, "push")' = Front(Consumers, "pop")' + Size'
          \/ Front(Producers, "push")' = Front(Consumers, "pop")' + Size' - Cap
      BY <1>4, <1>5, <1>8, <1>9, <1>10, <1>11, <2>1, <2>2, RingAssumption DEF Slots
    <2> QED
      BY <2>3 DEF RingInv
  <1> QED
    BY <1>2, <1>3, <1>4, <1>5, <1>6, <1>7, <1>9, <1>10, <1>12 DEF IInv

(* A stuttering step changes nothing that IInv mentions.                   *)
LEMMA StutterIInv == IInv /\ UNCHANGED vars => IInv'
  <1> SUFFICES ASSUME IInv, UNCHANGED vars PROVE IInv'
    OBVIOUS
  <1>1. TypeOK' /\ MutexInv' /\ StepInv'
    BY DEF IInv, vars, TypeOK, MutexInv, StepInv
  <1>2. Size' = Size /\ Free' = Free
    BY DEF vars, Size, Free, At
  <1>3. /\ Front(Producers, "push")' = Front(Producers, "push")
        /\ Front(Consumers, "pop")' = Front(Consumers, "pop")
    BY DEF vars, Front
  <1> QED
    BY <1>1, <1>2, <1>3 DEF IInv, SlotsInv, RingInv

(* Every step preserves the invariant.                                     *)
LEMMA NextIInv == IInv /\ [Next]_vars => IInv'
  <1> SUFFICES ASSUME IInv, [Next]_vars PROVE IInv'
    OBVIOUS
  <1>1. ASSUME NEW t \in Threads, Wait(t) PROVE IInv'
    BY <1>1, WaitIInv
  <1>2. ASSUME NEW t \in Threads, Lock(t) PROVE IInv'
    BY <1>2, LockIInv
  <1>3. ASSUME NEW t \in Threads, Claim(t) PROVE IInv'
    BY <1>3, ClaimIInv
  <1>4. ASSUME NEW t \in Threads, Wrap(t) PROVE IInv'
    BY <1>4, WrapIInv
  <1>5. ASSUME NEW t \in Threads, Unlock(t) PROVE IInv'
    BY <1>5, UnlockIInv
  <1>6. ASSUME NEW t \in Threads, Post(t) PROVE IInv'
    BY <1>6, PostIInv
  <1>7. ASSUME NEW p \in Producers, Store(p) PROVE IInv'
    BY <1>7, StoreIInv
  <1>8. ASSUME NEW c \in Consumers, Load(c) PROVE IInv'
    BY <1>8, LoadIInv
  <1>9. CASE UNCHANGED vars
    BY <1>9, StutterIInv
  <1> QED
    BY <1>1, <1>2, <1>3, <1>4, <1>5, <1>6, <1>7, <1>8, <1>9 DEF Next, Either
-----------------------------------------------------------------------------
(* In every reachable state the tokens of the semaphores account for every *)
(* slot and the two fronts are Size slots apart.                           *)
THEOREM Inductive == Spec => []IInv
  <1>1. Init => IInv
    BY InitIInv
  <1>2. IInv /\ [Next]_vars => IInv'
    BY NextIInv
  <1> QED
    BY <1>1, <1>2, PTL DEF Spec

(* The step counters never leave the ring and the semaphores never exceed  *)
(* _cap, for any number of threads (RingQueue.hpp:25-56).                  *)
THEOREM Typing == Spec => []TypeOK
  <1>1. IInv => TypeOK
    BY DEF IInv
  <1> QED
    BY <1>1, Inductive, PTL

(* A store and a load that overlap in time use different slots although    *)
(* push and pop hold different mutexes (RingQueue.hpp:41, 52).             *)
THEOREM NoSharedSlot == Spec => []SlotExclusive
  BY IInvSlotExclusive, Inductive, PTL

(* Threads of one side take turns on the step counter of that side         *)
(* (RingQueue.hpp:40-43, 51-54).                                           *)
THEOREM TakingTurns == Spec => []SideExclusive
  BY IInvSideExclusive, Inductive, PTL

(* The tokens of both semaphores and of the threads inside push and pop    *)
(* always add up to _cap (RingQueue.hpp:37-56).                            *)
THEOREM Accounting == Spec => []TokensConserved
  BY IInvTokensConserved, Inductive, PTL
-----------------------------------------------------------------------------
(* The ring implements the channel.  SameWindow, Store and Load say how    *)
(* the window of filled slots moves; these lemmas say what Contents, the   *)
(* items in that window, becomes.                                          *)

(* The k-th slot from slot r on, on a ring of Cap slots.                   *)
LEMMA SlotFrom ==
  ASSUME NEW r \in Slots, NEW k \in 0 .. Cap
  PROVE  /\ (r + k) % Cap \in Slots
         /\ (r + k) % Cap = IF r + k < Cap THEN r + k ELSE r + k - Cap
  <1>1. Cap \in Nat \ {0} /\ r \in 0 .. Cap - 1
    BY RingAssumption DEF Slots
  <1>2. CASE r + k < Cap
    <2>1. r + k \in Slots /\ r + k \in 0 .. Cap
      BY <1>1, <1>2 DEF Slots
    <2> QED
      BY <1>2, <2>1, ModCap
  <1>3. CASE ~ (r + k < Cap)
    <2>1. r + k \in Cap .. 2 * Cap - 1
      BY <1>1, <1>3
    <2>2. (r + k) % Cap = r + k - Cap
      BY <1>1, <2>1
    <2> QED
      BY <1>1, <1>3, <2>1, <2>2 DEF Slots
  <1> QED
    BY <1>2, <1>3

(* A function on 1 .. n is a sequence of length n.                         *)
LEMMA FunctionSequence ==
  ASSUME NEW n \in Nat, NEW S, NEW f \in [1 .. n -> S]
  PROVE  f \in Seq(S) /\ Len(f) = n
  OBVIOUS

(* The contents are Size tasks, read off from the front of the consumers.  *)
Window ==
  /\ Contents \in Seq(Tasks)
  /\ Len(Contents) = Size
  /\ \A i \in 1 .. Size :
       Contents[i] = queue[(Front(Consumers, "pop") + (i - 1)) % Cap]

LEMMA IInvWindow == IInv => Window
  <1> SUFFICES ASSUME IInv PROVE Window
    OBVIOUS
  <1> DEFINE r == Front(Consumers, "pop")
  <1>1. Size \in 0 .. Cap /\ r \in Slots /\ Cap \in Nat
    BY Sums, FrontType, RingAssumption DEF IInv, SlotsInv
  <1> HIDE DEF r
  <1>2. \A i \in 1 .. Size : r + i - 1 = r + (i - 1) /\ i - 1 \in 0 .. Cap
    BY <1>1 DEF Slots
  <1>3. \A i \in 1 .. Size : (r + (i - 1)) % Cap \in Slots
    BY <1>1, <1>2, SlotFrom
  <1>4. Contents = [i \in 1 .. Size |-> queue[(r + (i - 1)) % Cap]]
    BY <1>2 DEF Contents, r
  <1>5. Contents \in [1 .. Size -> Tasks]
    BY <1>3, <1>4 DEF IInv, TypeOK
  <1>6. Contents \in Seq(Tasks) /\ Len(Contents) = Size
    BY <1>1, <1>5, FunctionSequence
  <1> QED
    BY <1>4, <1>6 DEF Window, r

LEMMA IInvWindowNext == IInv' => Window'
  BY IInvWindow, PTL

(* Neither the window nor what is in it changes.                           *)
LEMMA QuietContents ==
  ASSUME SameWindow, queue' = queue
  PROVE  Contents' = Contents
  BY DEF SameWindow, Contents

(* A store fills the slot behind the window and leaves the others alone.   *)
LEMMA StoreContents ==
  ASSUME IInv, NEW p \in Producers, Store(p)
  PROVE  Contents' = Append(Contents, in[p])
  <1> DEFINE r == Front(Consumers, "pop")
             n == Size
  <1>1. /\ n \in 0 .. Cap /\ r \in Slots /\ Cap \in Nat \ {0}
        /\ r' = r /\ n' = n + 1 /\ n < Cap
        /\ idx[p] = r + n \/ idx[p] = r + n - Cap
    BY Sums, FrontType, StoreIInv, RingAssumption DEF IInv, SlotsInv
  <1>2. Window /\ Window'
    BY IInvWindow, IInvWindowNext, StoreIInv
  <1>3. /\ Contents \in Seq(Tasks) /\ Len(Contents) = n
        /\ \A i \in 1 .. n : Contents[i] = queue[(r + (i - 1)) % Cap]
    BY <1>2 DEF Window
  <1>4. /\ Contents' \in Seq(Tasks) /\ Len(Contents') = n + 1
        /\ \A i \in 1 .. n + 1 : Contents'[i] = queue'[(r + (i - 1)) % Cap]
    <2>1. /\ Contents' \in Seq(Tasks) /\ Len(Contents') = n'
          /\ \A i \in 1 .. n' : Contents'[i] = queue'[(r' + (i - 1)) % Cap]
      BY <1>2 DEF Window, Tasks
    <2> HIDE DEF r, n
    <2> QED
      BY <1>1, <2>1
  <1> HIDE DEF r, n
  <1>5. idx[p] \in Slots /\ in[p] \in Tasks
    BY SideFacts DEF IInv, TypeOK
  <1>6. idx[p] = (r + n) % Cap
    <2>1. (r + n) % Cap = IF r + n < Cap THEN r + n ELSE r + n - Cap
      BY <1>1, SlotFrom
    <2> QED
      BY <1>1, <1>5, <2>1 DEF Slots
  <1>7. \A i \in 1 .. n : /\ (r + (i - 1)) % Cap \in Slots
                          /\ (r + (i - 1)) % Cap # idx[p]
    <2> SUFFICES ASSUME NEW i \in 1 .. n
                 PROVE  /\ (r + (i - 1)) % Cap \in Slots
                        /\ (r + (i - 1)) % Cap # idx[p]
      OBVIOUS
    <2>1. i - 1 \in 0 .. Cap /\ i - 1 < n
      BY <1>1
    <2>2. /\ (r + (i - 1)) % Cap \in Slots
          /\ (r + (i - 1)) % Cap = IF r + (i - 1) < Cap
                                   THEN r + (i - 1) ELSE r + (i - 1) - Cap
      BY <1>1, <2>1, SlotFrom
    <2> QED
      BY <1>1, <1>5, <2>1, <2>2 DEF Slots
  <1>8. queue' = [queue EXCEPT ![idx[p]] = in[p]] /\ queue \in [Slots -> Tasks]
    BY DEF Store, IInv, TypeOK
  <1>9. \A i \in 1 .. n : Contents'[i] = Contents[i]
    BY <1>1, <1>3, <1>4, <1>7, <1>8
  <1>10. Contents'[n + 1] = in[p]
    <2>1. n + 1 \in 1 .. n + 1 /\ r + ((n + 1) - 1) = r + n
      BY <1>1 DEF Slots
    <2>2. Contents'[n + 1] = queue'[idx[p]]
      BY <1>4, <1>6, <2>1
    <2> QED
      BY <1>5, <1>8, <2>2
  <1>11. /\ Append(Contents, in[p]) \in Seq(Tasks)
         /\ Len(Append(Contents, in[p])) = n + 1
         /\ \A i \in 1 .. n : Append(Contents, in[p])[i] = Contents[i]
         /\ Append(Contents, in[p])[n + 1] = in[p]
    BY <1>3, <1>5, AppendProperties
  <1>12. \A i \in 1 .. n + 1 : Contents'[i] = Append(Contents, in[p])[i]
    BY <1>1, <1>9, <1>10, <1>11
  <1> QED
    BY <1>4, <1>11, <1>12, SeqEqual

(* A load reads the first slot of the window and drops it.                 *)
LEMMA LoadContents ==
  ASSUME IInv, NEW c \in Consumers, Load(c)
  PROVE  /\ Contents # <<>>
         /\ queue[idx[c]] = Head(Contents)
         /\ Contents' = Tail(Contents)
  <1> DEFINE r == Front(Consumers, "pop")
             n == Size
  <1>1. /\ n \in 1 .. Cap /\ r \in Slots /\ Cap \in Nat \ {0}
        /\ idx[c] = r /\ r' = (r + 1) % Cap /\ n' = n - 1
    BY Sums, FrontType, LoadIInv, RingAssumption DEF IInv, SlotsInv
  <1>2. Window /\ Window' /\ queue' = queue
    BY IInvWindow, IInvWindowNext, LoadIInv DEF Load
  <1>3. /\ Contents \in Seq(Tasks) /\ Len(Contents) = n
        /\ \A i \in 1 .. n : Contents[i] = queue[(r + (i - 1)) % Cap]
    BY <1>2 DEF Window
  <1>4. /\ Contents' \in Seq(Tasks) /\ Len(Contents') = n - 1
        /\ \A i \in 1 .. n - 1 :
             Contents'[i] = queue[(((r + 1) % Cap) + (i - 1)) % Cap]
    <2>1. /\ Contents' \in Seq(Tasks) /\ Len(Contents') = n'
          /\ \A i \in 1 .. n' : Contents'[i] = queue'[(r' + (i - 1)) % Cap]
      BY <1>2 DEF Window, Tasks
    <2> HIDE DEF r, n
    <2> QED
      BY <1>1, <1>2, <2>1
  <1> HIDE DEF r, n
  <1>5. Contents # <<>> /\ Contents[1] = queue[idx[c]]
    <2>1. 1 \in 1 .. n /\ r + (1 - 1) = r + 0 /\ r + 0 = r /\ 0 \in 0 .. Cap
      BY <1>1 DEF Slots
    <2>2. (r + 0) % Cap = r
      <3>1. r \in 0 .. Cap
        BY <1>1 DEF Slots
      <3> QED
        BY <1>1, <2>1, <3>1, ModCap
    <2>3. Contents[1] = queue[r]
      BY <1>3, <2>1, <2>2
    <2>4. Contents # <<>>
      BY <1>1, <1>3
    <2> QED
      BY <1>1, <2>3, <2>4
  <1>6. \A i \in 1 .. n - 1 :
          (((r + 1) % Cap) + (i - 1)) % Cap = (r + ((i + 1) - 1)) % Cap
    <2> SUFFICES ASSUME NEW i \in 1 .. n - 1
                 PROVE  (((r + 1) % Cap) + (i - 1)) % Cap = (r + i) % Cap
      BY <1>1
    <2>1. i \in 0 .. Cap /\ i - 1 \in 0 .. Cap /\ i < Cap /\ i \in Int
      BY <1>1
    <2>2. (r + i) % Cap = IF r + i < Cap THEN r + i ELSE r + i - Cap
      BY <1>1, <2>1, SlotFrom
    <2>3. \/ r + 1 < Cap /\ (r + 1) % Cap = r + 1
          \/ r + 1 = Cap /\ (r + 1) % Cap = 0
      BY <1>1, NextSlot
    <2>4. (r + 1) % Cap \in Slots
      BY <1>1, <2>3 DEF Slots
    <2>5. (((r + 1) % Cap) + (i - 1)) % Cap =
             IF ((r + 1) % Cap) + (i - 1) < Cap
             THEN ((r + 1) % Cap) + (i - 1) ELSE ((r + 1) % Cap) + (i - 1) - Cap
      BY <2>1, <2>4, SlotFrom
    <2> DEFINE s == (r + 1) % Cap
               u == (r + i) % Cap
               v == (s + (i - 1)) % Cap
    <2>6. /\ u = IF r + i < Cap THEN r + i ELSE r + i - Cap
          /\ v = IF s + (i - 1) < Cap THEN s + (i - 1) ELSE s + (i - 1) - Cap
          /\ \/ r + 1 < Cap /\ s = r + 1
             \/ r + 1 = Cap /\ s = 0
      BY <2>2, <2>3, <2>5
    <2> HIDE DEF s, u, v
    <2>7. v = u
      BY <1>1, <2>1, <2>6 DEF Slots
    <2> QED
      BY <2>7 DEF s, u, v
  <1>7. /\ Head(Contents) = Contents[1]
        /\ Tail(Contents) \in Seq(Tasks) /\ Len(Tail(Contents)) = n - 1
        /\ \A i \in 1 .. n - 1 : Tail(Contents)[i] = Contents[i + 1]
    <2>1. Tail(Contents) \in Seq(Tasks) /\ Len(Tail(Contents)) = Len(Contents) - 1
      BY <1>3, <1>5, HeadTailProperties
    <2>2. \A i \in 1 .. Len(Tail(Contents)) : Tail(Contents)[i] = Contents[i + 1]
      BY <1>3, <1>5, HeadTailProperties
    <2>3. Head(Contents) = Contents[1]
      BY <1>3, <1>5
    <2> QED
      BY <1>3, <2>1, <2>2, <2>3
  <1>8. \A i \in 1 .. n - 1 : Contents'[i] = Tail(Contents)[i]
    <2> SUFFICES ASSUME NEW i \in 1 .. n - 1 PROVE Contents'[i] = Contents[i + 1]
      BY <1>7
    <2>1. i + 1 \in 1 .. n
      BY <1>1
    <2> QED
      BY <1>3, <1>4, <1>6, <2>1
  <1> QED
    BY <1>4, <1>5, <1>7, <1>8, SeqEqual

(* Contents is a bounded channel: a store is a Put, a load is a Get, and   *)
(* every other step of push and pop leaves the channel alone.  So no task  *)
(* is lost, doubled or overtaken, and none is put into a full ring or      *)
(* taken from an empty one (RingQueue.hpp:37-56).                          *)
THEOREM ImplementsChannel == Spec => Channel!Spec
  <1>1. Init => Channel!Init
    <2> SUFFICES ASSUME Init PROVE Channel!Init
      OBVIOUS
    <2>1. Size = 0
      <3>1. At(Producers, After) = {} /\ At(Consumers, Before) = {}
        BY SideFacts DEF Init, At, Before, After
      <3> QED
        BY <3>1, FS_EmptySet DEF Init, Size, Sides
    <2>2. Contents = <<>>
      BY <2>1 DEF Contents
    <2> QED
      BY <2>2 DEF Init, Channel!Init, Tasks
  <1>2. IInv /\ [Next]_vars => [Channel!Next]_(Channel!vars)
    <2> SUFFICES ASSUME IInv, [Next]_vars
                 PROVE  [Channel!Next]_(Channel!vars)
      OBVIOUS
    <2>1. ASSUME NEW t \in Threads, Either(t)
          PROVE  UNCHANGED <<Contents, out>>
      <3>1. SameWindow
        BY <2>1, WaitIInv, LockIInv, ClaimIInv, WrapIInv, UnlockIInv, PostIInv
        DEF Either
      <3>2. queue' = queue /\ out' = out
        BY <2>1 DEF Either, Wait, Lock, Claim, Wrap, Unlock, Post
      <3> QED
        BY <3>1, <3>2, QuietContents
    <2>2. ASSUME NEW p \in Producers, Store(p)
          PROVE  Channel!Next
      <3>1. Contents' = Append(Contents, in[p]) /\ out' = out
        BY <2>2, StoreContents DEF Store
      <3>2. Len(Contents) < Cap
        BY <2>2, IInvWindow, StoreIInv DEF Window
      <3>3. in[p] \in Tasks
        BY DEF IInv, TypeOK
      <3> QED
        BY <3>1, <3>2, <3>3 DEF Channel!Next, Channel!AnyPut, Channel!Put
    <2>3. ASSUME NEW c \in Consumers, Load(c)
          PROVE  Channel!Next
      BY <2>3, LoadContents
      DEF Load, Channel!Next, Channel!AnyGet, Channel!Get
    <2>4. CASE UNCHANGED vars
      <3>1. SameWindow /\ queue' = queue /\ out' = out
        BY <2>4 DEF vars, SameWindow, Size, At, Front
      <3> QED
        BY <3>1, QuietContents DEF Channel!vars
    <2> QED
      BY <2>1, <2>2, <2>3, <2>4 DEF Next, Channel!vars
  <1> QED
    BY <1>1, <1>2, Inductive, PTL DEF Spec, Channel!Spec
=============================================================================
