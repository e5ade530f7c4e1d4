---------------------------- MODULE ThreadProofs ----------------------------
(***************************************************************************)
(* Proofs about the programs of threads that share one lock, one condition *)
(* variable or two queues: TicketSale, CondDemo and BlockPipeline.         *)
(***************************************************************************)
EXTENDS TicketSale, CondDemo, BlockPipeline, ProofLemmas
-----------------------------------------------------------------------------
(***************************************************************************)
(* TicketSale, for any number of sellers and tickets.                      *)
(***************************************************************************)
(* The sale begins with every seller outside the scope.                    *)
LEMMA SaleInitInv == Init => IInv
  <1> SUFFICES ASSUME Init PROVE IInv
    OBVIOUS
  <1>1. TypeOK
    <2>1. ticket \in 0 .. Total /\ 0 \in 0 .. Total
      BY SaleAssumption DEF Init
    <2>2. destroyed \in BOOLEAN
      BY DEF Init
    <2>3. /\ mutex \in Sellers \cup {NoThread} /\ pc \in [Sellers -> Labels]
          /\ reg \in [Sellers -> 0 .. Total] /\ sold \in [Tickets -> Nat]
          /\ joined \subseteq Sellers
      BY <2>1 DEF Init, Labels
    <2> QED
      BY <2>1, <2>2, <2>3 DEF TypeOK
  <1>2. MutexInv /\ CounterInv /\ EndInv
    BY SaleAssumption DEF Init, MutexInv, CounterInv, EndInv, Inside
  <1>3. SoldAboveCounter
    BY SaleAssumption DEF Init, SoldAboveCounter, Tickets
  <1> QED
    BY <1>1, <1>2, <1>3 DEF IInv

(* At most one seller is inside the scope of the LockGuard.                *)
LEMMA Alone ==
  ASSUME IInv, NEW t \in Sellers, pc[t] \in Inside
  PROVE  /\ mutex = t
         /\ \A u \in Sellers \ {t} : pc[u] \notin Inside
  BY DEF IInv, MutexInv

(* The steps of a seller.                                                  *)
LEMMA SellerStep ==
  ASSUME IInv, NEW t \in Sellers, Seller(t)
  PROVE  IInv'
  <1>1. /\ ticket \in Nat /\ ticket <= Total /\ Total \in Nat
        /\ pc \in [Sellers -> Labels] /\ reg \in [Sellers -> 0 .. Total]
        /\ sold \in [Tickets -> Nat]
    BY SaleAssumption DEF IInv, TypeOK
  <1>2. EndInv'
    <2>1. pc[t] # "done" /\ joined' = joined /\ destroyed' = destroyed
          /\ \A u \in Sellers \ {t} : pc'[u] = pc[u]
      BY <1>1 DEF Seller, Lock, Test, Sell, Load, Store, Unlock, Leave, Goto
    <2> QED
      BY <2>1 DEF IInv, EndInv, TypeOK
  <1>3. CASE Lock(t)
    <2>1. /\ pc' = [pc EXCEPT ![t] = "test"] /\ pc[t] = "lock" /\ mutex = NoThread
          /\ mutex' = t /\ ticket' = ticket /\ reg' = reg /\ sold' = sold
      BY <1>3 DEF Lock, Goto
    <2>2. \A u \in Sellers : pc[u] \notin Inside
      BY <2>1, SaleAssumption DEF IInv, MutexInv
    <2>3. TypeOK'
      BY <1>1, <1>3, <2>1 DEF Lock, IInv, TypeOK, Labels
    <2>4. MutexInv'
      BY <1>1, <2>1, <2>2 DEF MutexInv, Inside
    <2>5. CounterInv' /\ SoldAboveCounter'
      BY <1>1, <2>1, <2>2 DEF IInv, CounterInv, SoldAboveCounter, Inside
    <2> QED
      BY <1>2, <2>3, <2>4, <2>5 DEF IInv
  <1>4. CASE Test(t)
    <2>1. /\ pc' = [pc EXCEPT ![t] = IF ticket > 0 THEN "sell" ELSE "leave"]
          /\ pc[t] = "test" /\ mutex' = mutex
          /\ ticket' = ticket /\ reg' = reg /\ sold' = sold
      BY <1>4 DEF Test, Goto
    <2>2. \A u \in Sellers \ {t} : pc[u] \notin Inside
      BY <2>1, Alone DEF Inside
    <2>3. TypeOK'
      BY <1>1, <1>4, <2>1 DEF Test, IInv, TypeOK, Labels
    <2>4. MutexInv'
      BY <1>1, <2>1, Alone DEF IInv, MutexInv, Inside
    <2>5. CounterInv' /\ SoldAboveCounter'
      BY <1>1, <2>1, <2>2 DEF IInv, CounterInv, SoldAboveCounter, Inside
    <2> QED
      BY <1>2, <2>3, <2>4, <2>5 DEF IInv
  <1>5. CASE Sell(t)
    <2>1. /\ pc' = [pc EXCEPT ![t] = "load"] /\ pc[t] = "sell" /\ mutex' = mutex
          /\ ticket' = ticket /\ reg' = reg
          /\ sold' = [n \in Tickets |-> IF n = ticket THEN sold[n] + 1 ELSE sold[n]]
      BY <1>5 DEF Sell, Goto
    <2>2. \A u \in Sellers \ {t} : pc[u] \notin Inside
      BY <2>1, Alone DEF Inside
    <2>3. TypeOK'
      BY <1>1, <1>5, <2>1 DEF Sell, IInv, TypeOK, Labels
    <2>4. MutexInv'
      BY <1>1, <2>1, Alone DEF IInv, MutexInv, Inside
    <2>5. CounterInv'
      BY <1>1, <2>1, <2>2 DEF IInv, CounterInv
    <2>6. \A n \in Tickets : sold[n] = IF n > ticket THEN 1 ELSE 0
      BY <2>1, <2>2 DEF IInv, SoldAboveCounter, Inside
    <2>7. SoldAboveCounter'
      BY <1>1, <2>1, <2>6 DEF SoldAboveCounter, Tickets
    <2> QED
      BY <1>2, <2>3, <2>4, <2>5, <2>7 DEF IInv
  <1>6. CASE Load(t)
    <2>1. /\ pc' = [pc EXCEPT ![t] = "store"] /\ pc[t] = "load" /\ mutex' = mutex
          /\ ticket' = ticket /\ sold' = sold
          /\ reg' = [reg EXCEPT ![t] = ticket]
      BY <1>6 DEF Load, Goto
    <2>2. \A u \in Sellers \ {t} : pc[u] \notin Inside
      BY <2>1, Alone DEF Inside
    <2>3. TypeOK'
      BY <1>1, <1>6, <2>1 DEF Load, IInv, TypeOK, Labels
    <2>4. MutexInv'
      BY <1>1, <2>1, Alone DEF IInv, MutexInv, Inside
    <2>5. CounterInv'
      BY <1>1, <2>1, <2>2 DEF IInv, CounterInv, Inside
    <2>6. SoldAboveCounter'
      BY <1>1, <2>1 DEF IInv, SoldAboveCounter
    <2> QED
      BY <1>2, <2>3, <2>4, <2>5, <2>6 DEF IInv
  <1>7. CASE Store(t)
    <2>1. /\ pc' = [pc EXCEPT ![t] = "unlock"] /\ pc[t] = "store" /\ mutex' = mutex
          /\ ticket' = reg[t] - 1 /\ reg' = reg /\ sold' = sold
      BY <1>7 DEF Store, Goto
    <2>2. \A u \in Sellers \ {t} : pc[u] \notin Inside
      BY <2>1, Alone DEF Inside
    <2>3. reg[t] = ticket /\ ticket > 0 /\ ticket' = ticket - 1
      BY <2>1 DEF IInv, CounterInv
    <2>4. TypeOK'
      BY <1>1, <1>7, <2>1, <2>3 DEF Store, IInv, TypeOK, Labels
    <2>5. MutexInv'
      BY <1>1, <2>1, Alone DEF IInv, MutexInv, Inside
    <2>6. CounterInv'
      BY <1>1, <2>1, <2>2, <2>3 DEF IInv, CounterInv, Inside
    <2>7. \A n \in Tickets : sold[n] = IF n >= ticket THEN 1 ELSE 0
      BY <1>1, <2>1 DEF IInv, SoldAboveCounter, Tickets
    <2>8. \A u \in Sellers : pc'[u] \notin {"load", "store"}
      BY <1>1, <2>1, <2>2 DEF Inside
    <2>9. SoldAboveCounter'
      BY <1>1, <2>1, <2>3, <2>7, <2>8 DEF SoldAboveCounter, Tickets
    <2> QED
      BY <1>2, <2>4, <2>5, <2>6, <2>9 DEF IInv
  <1>8. CASE Unlock(t) \/ Leave(t)
    <2>1. /\ pc[t] \in {"unlock", "leave"} /\ mutex' = NoThread
          /\ \/ pc[t] = "unlock" /\ pc' = [pc EXCEPT ![t] = "lock"]
             \/ pc[t] = "leave" /\ pc' = [pc EXCEPT ![t] = "done"]
          /\ ticket' = ticket /\ reg' = reg /\ sold' = sold
      BY <1>8 DEF Unlock, Leave, Goto
    <2>2. \A u \in Sellers \ {t} : pc[u] \notin Inside
      BY <2>1, Alone DEF Inside
    <2>3. TypeOK'
      BY <1>1, <1>8, <2>1 DEF Unlock, Leave, IInv, TypeOK, Labels
    <2>4. MutexInv'
      BY <1>1, <2>1, <2>2, SaleAssumption DEF MutexInv, Inside
    <2>5. CounterInv' /\ SoldAboveCounter'
      BY <1>1, <2>1, <2>2 DEF IInv, CounterInv, SoldAboveCounter, Inside
    <2> QED
      BY <1>2, <2>3, <2>4, <2>5 DEF IInv
  <1> QED
    BY <1>3, <1>4, <1>5, <1>6, <1>7, <1>8 DEF Seller

(* Every step preserves the invariant.                                     *)
LEMMA SaleNextInv == IInv /\ [Next]_vars => IInv'
  <1> SUFFICES ASSUME IInv, [Next]_vars PROVE IInv'
    OBVIOUS
  <1>1. ASSUME NEW t \in Sellers, Seller(t) PROVE IInv'
    BY <1>1, SellerStep
  <1>2. ASSUME NEW t \in Sellers, Join(t) PROVE IInv'
    BY <1>2 DEF Join, IInv, TypeOK, MutexInv, CounterInv, EndInv, SoldAboveCounter
  <1>3. CASE Destroy
    BY <1>3 DEF Destroy, IInv, TypeOK, MutexInv, CounterInv, EndInv, SoldAboveCounter
  <1>4. CASE UNCHANGED vars
    BY <1>4 DEF vars, IInv, TypeOK, MutexInv, CounterInv, EndInv, SoldAboveCounter
  <1> QED
    BY <1>1, <1>2, <1>3, <1>4 DEF Next, Returned
-----------------------------------------------------------------------------
(* The inductive invariant holds in every reachable state.                 *)
THEOREM SaleInductive == Spec => []IInv
  <1>1. IInv /\ [Next]_vars => IInv'
    BY SaleNextInv
  <1> QED
    BY SaleInitInv, <1>1, PTL DEF Spec

(* The counter never goes below zero (mythread.cc:101-106).                *)
THEOREM SaleTyping == Spec => []TypeOK
  <1>1. IInv => TypeOK
    BY DEF IInv
  <1> QED
    BY <1>1, SaleInductive, PTL

(* No ticket is sold twice and none is skipped (mythread.cc:101-106).      *)
THEOREM NoDoubleSale == Spec => []SoldAboveCounter
  <1>1. IInv => SoldAboveCounter
    BY DEF IInv
  <1> QED
    BY <1>1, SaleInductive, PTL

(* At the end every ticket is sold and the mutex is free and unused        *)
(* (mythread.cc:157-162).                                                  *)
THEOREM SoldOut == Spec => []SoldOutAtEnd
  <1>1. IInv => SoldOutAtEnd
    <2> SUFFICES ASSUME IInv, destroyed, Sellers # {}
                 PROVE  /\ \A t \in Sellers : pc[t] = "done"
                        /\ mutex = NoThread
                        /\ \A n \in Tickets : sold[n] = 1
      BY DEF SoldOutAtEnd
    <2>1. \A t \in Sellers : pc[t] = "done"
      BY DEF IInv, EndInv
    <2>2. mutex = NoThread
      BY <2>1 DEF IInv, TypeOK, MutexInv, Inside
    <2>3. ticket = 0
      BY <2>1 DEF IInv, CounterInv
    <2>4. \A n \in Tickets : sold[n] = 1
      BY <2>3, SaleAssumption DEF IInv, SoldAboveCounter, Tickets
    <2> QED
      BY <2>1, <2>2, <2>4
  <1> QED
    BY <1>1, SaleInductive, PTL
-----------------------------------------------------------------------------
(***************************************************************************)
(* CondDemo, for any number of threads and tickets: the signals are        *)
(* counted against the tickets.                                            *)
(***************************************************************************)
(* What a thread may be doing.                                             *)
CondLabels == {"none", "lock", "wait", "blocked", "woken", "sell"}
(* Where a thread has been woken and has yet to sell.                      *)
Owed == {"woken", "sell"}

(* The types.                                                              *)
CondTypeOK ==
  /\ seller \in [Routines -> CondLabels] /\ lock \in Routines \cup {Free}
  /\ tickets \in Int /\ signals \in Nat /\ lost \in Nat /\ spurious \in Nat

(* Who is to sell a ticket for a signal it was woken by.                   *)
InBalance ==
  Stock - tickets + Counted(Routines, seller, Owed) = signals - lost + spurious

(* Who is between the lock and the unlock holds the lock.                  *)
HoldsLock == \A t \in Routines : seller[t] \in {"wait", "sell"} <=> lock = t

(* The inductive invariant.                                                *)
CondInv == CondTypeOK /\ InBalance /\ HoldsLock

(* The invariant says what is safe.                                        *)
LEMMA CondInvSafe == CondInv => CondSafe
  BY DEF CondInv, InBalance, HoldsLock, CondSafe, Counted, Owed

(* A thread goes from one label to another.                                *)
LEMMA CondMove ==
  ASSUME CondAssumption, CondInv, NEW t \in Routines, NEW to \in CondLabels,
         Becomes(t, to)
  PROVE  /\ seller' \in [Routines -> CondLabels]
         /\ seller'[t] = to /\ \A u \in Routines \ {t} : seller'[u] = seller[u]
         /\ Counted(Routines, seller, Owed) \in Nat
         /\ Counted(Routines, seller', Owed)
              = Counted(Routines, seller, Owed)
                  + (IF to \in Owed THEN 1 ELSE 0) - (IF seller[t] \in Owed THEN 1 ELSE 0)
  <1>1. seller' = [seller EXCEPT ![t] = to] /\ seller \in [Routines -> CondLabels]
    BY DEF Becomes, CondInv, CondTypeOK
  <1>2. /\ seller' \in [Routines -> CondLabels]
        /\ seller'[t] = to /\ \A u \in Routines \ {t} : seller'[u] = seller[u]
    BY <1>1
  <1>3. IsFiniteSet(Routines)
    BY DEF CondAssumption
  <1>4. Counted(Routines, seller, Owed) \in Nat
    BY <1>3, CountedType
  <1>5. Counted(Routines, seller', Owed)
          = Counted(Routines, seller, Owed)
              + (IF seller'[t] \in Owed THEN 1 ELSE 0) - (IF seller[t] \in Owed THEN 1 ELSE 0)
    BY <1>2, <1>3, CountedMove
  <1> QED
    BY <1>2, <1>4, <1>5

(* The invariant holds at first.                                           *)
LEMMA CondInitInv == CondAssumption /\ CondInit => CondInv
  <1> SUFFICES ASSUME CondAssumption, CondInit PROVE CondInv
    OBVIOUS
  <1>1. CondTypeOK /\ HoldsLock
    BY DEF CondAssumption, CondInit, CondTypeOK, HoldsLock, CondLabels, Free
  <1>2. {u \in Routines : seller[u] \in Owed} = {}
    BY DEF CondInit, Owed
  <1>3. Counted(Routines, seller, Owed) = 0
    BY <1>2, FS_EmptySet DEF Counted
  <1>4. InBalance
    BY <1>3 DEF CondAssumption, CondInit, InBalance
  <1> QED
    BY <1>1, <1>4 DEF CondInv

(* Every step keeps the invariant.                                         *)
LEMMA CondNextInv == CondAssumption /\ CondInv /\ [CondNext]_condVars => CondInv'
  <1> SUFFICES ASSUME CondAssumption, CondInv, [CondNext]_condVars PROVE CondInv'
    OBVIOUS
  <1> USE DEF CondAssumption
  <1>1. /\ seller \in [Routines -> CondLabels] /\ lock \in Routines \cup {Free}
        /\ tickets \in Int /\ signals \in Nat /\ lost \in Nat /\ spurious \in Nat
        /\ Stock - tickets + Counted(Routines, seller, Owed) = signals - lost + spurious
        /\ \A t \in Routines : seller[t] \in {"wait", "sell"} <=> lock = t
    BY DEF CondInv, CondTypeOK, InBalance, HoldsLock
  <1>2. CASE Create
    <2>1. PICK t \in Routines : seller[t] = "none" /\ Becomes(t, "lock")
      BY <1>2 DEF Create
    <2>2. UNCHANGED <<lock, tickets, signals, lost, spurious>>
      BY <1>2 DEF Create
    <2>3. /\ seller' \in [Routines -> CondLabels]
          /\ seller'[t] = "lock" /\ \A u \in Routines \ {t} : seller'[u] = seller[u]
          /\ Counted(Routines, seller, Owed) \in Nat
          /\ Counted(Routines, seller', Owed) = Counted(Routines, seller, Owed)
      BY <2>1, CondMove DEF CondLabels, Owed
    <2> QED
      BY <1>1, <2>1, <2>2, <2>3 DEF CondInv, CondTypeOK, InBalance, HoldsLock
  <1>3. ASSUME NEW t \in Routines, LockCond(t) PROVE CondInv'
    <2>1. /\ seller' \in [Routines -> CondLabels]
          /\ seller'[t] = "wait" /\ \A u \in Routines \ {t} : seller'[u] = seller[u]
          /\ Counted(Routines, seller, Owed) \in Nat
          /\ Counted(Routines, seller', Owed) = Counted(Routines, seller, Owed)
      BY <1>3, CondMove DEF LockCond, CondLabels, Owed
    <2> QED
      BY <1>1, <1>3, <2>1 DEF LockCond, CondInv, CondTypeOK, InBalance, HoldsLock
  <1>4. ASSUME NEW t \in Routines, WaitCond(t) PROVE CondInv'
    <2>1. /\ seller' \in [Routines -> CondLabels]
          /\ seller'[t] = "blocked" /\ \A u \in Routines \ {t} : seller'[u] = seller[u]
          /\ Counted(Routines, seller, Owed) \in Nat
          /\ Counted(Routines, seller', Owed) = Counted(Routines, seller, Owed)
      BY <1>4, CondMove DEF WaitCond, CondLabels, Owed
    <2>2. lock = t /\ lock' = Free /\ UNCHANGED <<tickets, signals, lost, spurious>>
      BY <1>1, <1>4 DEF WaitCond
    <2> QED
      BY <1>1, <2>1, <2>2 DEF CondInv, CondTypeOK, InBalance, HoldsLock
  <1>5. ASSUME NEW t \in Routines, Relock(t) PROVE CondInv'
    <2>1. /\ seller' \in [Routines -> CondLabels]
          /\ seller'[t] = "sell" /\ \A u \in Routines \ {t} : seller'[u] = seller[u]
          /\ Counted(Routines, seller, Owed) \in Nat
          /\ Counted(Routines, seller', Owed) = Counted(Routines, seller, Owed)
      BY <1>5, CondMove DEF Relock, CondLabels, Owed
    <2> QED
      BY <1>1, <1>5, <2>1 DEF Relock, CondInv, CondTypeOK, InBalance, HoldsLock
  <1>6. ASSUME NEW t \in Routines, SellCond(t) PROVE CondInv'
    <2>1. /\ seller' \in [Routines -> CondLabels]
          /\ seller'[t] = "lock" /\ \A u \in Routines \ {t} : seller'[u] = seller[u]
          /\ Counted(Routines, seller, Owed) \in Nat
          /\ Counted(Routines, seller', Owed) = Counted(Routines, seller, Owed) - 1
      BY <1>6, CondMove DEF SellCond, CondLabels, Owed
    <2>2. /\ lock = t /\ lock' = Free /\ tickets' = tickets - 1
          /\ UNCHANGED <<signals, lost, spurious>>
      BY <1>1, <1>6 DEF SellCond
    <2> QED
      BY <1>1, <2>1, <2>2 DEF CondInv, CondTypeOK, InBalance, HoldsLock
  <1>7. CASE SignalCond
    <2>1. signals' = signals + 1 /\ UNCHANGED <<lock, tickets, spurious>>
      BY <1>7 DEF SignalCond
    <2>2. ASSUME NEW t \in Routines, seller[t] = "blocked", Becomes(t, "woken"), UNCHANGED lost
          PROVE  CondInv'
      <3>1. /\ seller' \in [Routines -> CondLabels]
            /\ seller'[t] = "woken" /\ \A u \in Routines \ {t} : seller'[u] = seller[u]
            /\ Counted(Routines, seller, Owed) \in Nat
            /\ Counted(Routines, seller', Owed) = Counted(Routines, seller, Owed) + 1
        BY <2>2, CondMove DEF CondLabels, Owed
      <3> QED
        BY <1>1, <2>1, <2>2, <3>1 DEF CondInv, CondTypeOK, InBalance, HoldsLock
    <2>3. CASE lost' = lost + 1 /\ UNCHANGED seller
      BY <1>1, <2>1, <2>3 DEF CondInv, CondTypeOK, InBalance, HoldsLock
    <2> QED
      BY <1>7, <2>2, <2>3 DEF SignalCond
  <1>8. ASSUME NEW t \in Routines, SpuriousCond(t) PROVE CondInv'
    <2>1. /\ seller' \in [Routines -> CondLabels]
          /\ seller'[t] = "woken" /\ \A u \in Routines \ {t} : seller'[u] = seller[u]
          /\ Counted(Routines, seller, Owed) \in Nat
          /\ Counted(Routines, seller', Owed) = Counted(Routines, seller, Owed) + 1
      BY <1>8, CondMove DEF SpuriousCond, CondLabels, Owed
    <2>2. /\ seller[t] = "blocked" /\ spurious' = spurious + 1
          /\ UNCHANGED <<lock, tickets, signals, lost>>
      BY <1>8 DEF SpuriousCond
    <2> QED
      BY <1>1, <2>1, <2>2 DEF CondInv, CondTypeOK, InBalance, HoldsLock
  <1>9. CASE UNCHANGED condVars
    BY <1>1, <1>9 DEF condVars, CondInv, CondTypeOK, InBalance, HoldsLock
  <1> QED
    BY <1>2, <1>3, <1>4, <1>5, <1>6, <1>7, <1>8, <1>9
    DEF CondNext, CondSystem, start_routine

(* Every signal that found a thread waiting, and every spurious wake-up,   *)
(* sells exactly one ticket (test_cond.cc:17-26).                          *)
THEOREM SignalsSellTickets == CondAssumption /\ CondSpec => []CondSafe
  <1> SUFFICES ASSUME CondAssumption PROVE CondSpec => []CondSafe
    OBVIOUS
  <1> QED
    BY CondInitInv, CondNextInv, CondInvSafe, PTL DEF CondSpec
-----------------------------------------------------------------------------
(***************************************************************************)
(* BlockPipeline, for queues of any capacity and any number of tasks: the  *)
(* tasks stand in one line from the log to the producter, and a step moves *)
(* one task to the next place of that line or none.                        *)
(***************************************************************************)
(* The threads of each queue, and where they are in its operations.        *)
CalcThreads == {producter, consumer}
StoreThreads == {consumer, saver}
QueueLabels == Pushing \cup Popped

(* The types the argument needs: what is queued, held or logged is a       *)
(* number.                                                                 *)
PlacesType ==
  /\ cq \in Seq(Nat) /\ sq \in Seq(Nat) /\ log \in Seq(Nat) /\ made \in Nat
  /\ cpc \in [CalcThreads -> QueueLabels] /\ spc \in [StoreThreads -> QueueLabels]
  /\ cin \in [{producter} -> Nat] /\ cout \in [{consumer} -> Nat]
  /\ sin \in [{consumer} -> Nat] /\ sout \in [{saver} -> Nat]
  /\ stage \in [StoreThreads -> {"ready", "pop", "push", "save"}]

(* Where a thread is in its loop and where it is in the queues.            *)
StageInv ==
  /\ stage[consumer] \in {"ready", "pop", "push"}
  /\ stage[consumer] # "push" => spc[consumer] = "idle"
  /\ stage[consumer] # "pop" => cpc[consumer] = "idle"
  /\ stage[consumer] = "push" /\ spc[consumer] \in Pushing =>
       sin[consumer] = cout[consumer]
  /\ stage[saver] \in {"ready", "pop", "save"}
  /\ stage[saver] # "pop" => spc[saver] = "idle"

(* The inductive invariant.                                                *)
PipelineInv == PlacesType /\ StageInv /\ NothingLostInOrder

(* The tasks, in the order they are made.                                  *)
Numbers(m) == [n \in 1 .. m |-> n]

(* Everything in the pipeline, from what was made first to what was made   *)
(* last: the log, the saver, s_bq, the consumer, c_bq and the producter.   *)
Line(l, a, s, c, q, p) == Cat(Cat(Cat(Cat(Cat(l, a), s), c), q), p)

(* The line of the tasks, as it is now.                                    *)
Everything == Line(log, AtSaver, sq, AtConsumer, cq, AtProducter)

(* The property is about that line, now and after a step.                  *)
LEMMA OneLine == NothingLostInOrder <=> Everything = Numbers(made)
  BY DEF NothingLostInOrder, Everything, Line, Cat, Numbers

LEMMA OneLineNext == NothingLostInOrder' <=> Everything' = Numbers(made')
  BY DEF NothingLostInOrder, Everything, Line, Cat, Numbers

(* An element moves from a place to the next one.                          *)
LEMMA PushedToC ==
  ASSUME NEW l \in Seq(Nat), NEW a \in Seq(Nat), NEW s \in Seq(Nat),
         NEW c \in Seq(Nat), NEW q \in Seq(Nat), NEW v \in Nat
  PROVE  Line(l, a, s, c, Added(q, v), <<>>) = Line(l, a, s, c, q, One(v))
  <1>1. Cat(Cat(Cat(l, a), s), c) \in Seq(Nat)
    BY CatType
  <1> QED
    BY <1>1, CatAppend DEF Line

(* The consumer takes the first task of c_bq.                              *)
LEMMA PoppedFromC ==
  ASSUME NEW l \in Seq(Nat), NEW a \in Seq(Nat), NEW s \in Seq(Nat),
         NEW q \in Seq(Nat), q # <<>>, NEW p \in Seq(Nat)
  PROVE  Line(l, a, s, <<Head(q)>>, Tail(q), p) = Line(l, a, s, <<>>, q, p)
  <1>1. Cat(Cat(l, a), s) \in Seq(Nat)
    BY CatType
  <1> QED
    BY <1>1, CatHead DEF Line

(* The consumer appends its task to s_bq.                                  *)
LEMMA PushedToS ==
  ASSUME NEW l \in Seq(Nat), NEW a \in Seq(Nat), NEW s \in Seq(Nat),
         NEW q \in Seq(Nat), NEW p \in Seq(Nat), NEW v \in Nat
  PROVE  Line(l, a, Added(s, v), <<>>, q, p) = Line(l, a, s, One(v), q, p)
  <1>1. Cat(l, a) \in Seq(Nat)
    BY CatType
  <1>2. Cat(Cat(Cat(l, a), Added(s, v)), <<>>) = Cat(Cat(Cat(l, a), s), One(v))
    BY <1>1, CatAppend
  <1> QED
    BY <1>2 DEF Line

(* The saver takes the first task of s_bq.                                 *)
LEMMA PoppedFromS ==
  ASSUME NEW l \in Seq(Nat), NEW s \in Seq(Nat), s # <<>>,
         NEW c \in Seq(Nat), NEW q \in Seq(Nat), NEW p \in Seq(Nat)
  PROVE  Line(l, <<Head(s)>>, Tail(s), c, q, p) = Line(l, <<>>, s, c, q, p)
  BY CatHead DEF Line

(* The saver appends its task to the log.                                  *)
LEMMA Saved ==
  ASSUME NEW l \in Seq(Nat), NEW s \in Seq(Nat), NEW c \in Seq(Nat),
         NEW q \in Seq(Nat), NEW p \in Seq(Nat), NEW v \in Nat
  PROVE  Line(Added(l, v), <<>>, s, c, q, p) = Line(l, One(v), s, c, q, p)
  <1>1. Added(l, v) \in Seq(Nat)
    BY AddedType
  <1>2. Added(l, v) = Cat(l, One(v))
    BY AppendIsConcat DEF Cat, Added, One
  <1>3. Cat(Added(l, v), <<>>) = Added(l, v)
    BY <1>1, CatEmpty
  <1> QED
    BY <1>2, <1>3 DEF Line

(* A task more has been made, and the producter holds it.                  *)
LEMMA LineGrows ==
  ASSUME NEW l \in Seq(Nat), NEW a \in Seq(Nat), NEW s \in Seq(Nat),
         NEW c \in Seq(Nat), NEW q \in Seq(Nat), NEW m \in Nat,
         Line(l, a, s, c, q, <<>>) = Numbers(m)
  PROVE  Line(l, a, s, c, q, One(m + 1)) = Numbers(m + 1)
  <1> DEFINE front == Cat(Cat(Cat(Cat(l, a), s), c), q)
  <1>1. front \in Seq(Nat)
    <2>1. Cat(Cat(Cat(l, a), s), c) \in Seq(Nat)
      BY CatType
    <2> QED
      BY <2>1, CatType
  <1>2. /\ Line(l, a, s, c, q, <<>>) = Cat(front, <<>>)
        /\ Line(l, a, s, c, q, One(m + 1)) = Cat(front, One(m + 1))
    BY DEF Line
  <1> HIDE DEF front
  <1>3. front = Numbers(m)
    BY <1>1, <1>2, CatEmpty
  <1>4. Numbers(m) \o <<m + 1>> = Numbers(m + 1)
    BY DEF Numbers
  <1> QED
    BY <1>2, <1>3, <1>4 DEF Cat, One
-----------------------------------------------------------------------------
(* What the threads hold.                                                  *)
LEMMA HandsType ==
  ASSUME PlacesType
  PROVE  AtProducter \in Seq(Nat) /\ AtConsumer \in Seq(Nat) /\ AtSaver \in Seq(Nat)
  <1>1. cin[producter] \in Nat /\ cout[consumer] \in Nat /\ sout[saver] \in Nat
    BY DEF PlacesType
  <1>2. AtProducter \in Seq(Nat)
    BY <1>1, EmptySeq DEF AtProducter, InHand
  <1>3. AtConsumer \in Seq(Nat)
    BY <1>1, EmptySeq DEF AtConsumer, InHand
  <1>4. AtSaver \in Seq(Nat)
    BY <1>1, EmptySeq DEF AtSaver, InHand
  <1> QED
    BY <1>2, <1>3, <1>4

(* Locks, waits and wake-ups move no task.                                 *)
Quiet(labels, threads) ==
  /\ labels' \in [threads -> QueueLabels]
  /\ \A t \in threads :
       /\ labels'[t] \in Pushing <=> labels[t] \in Pushing
       /\ labels[t] = "idle" => labels'[t] = "idle"

(* A thread that holds a value to push is not one that holds a popped one. *)
LEMMA LabelsSplit ==
  ASSUME NEW label \in QueueLabels
  PROVE  label \in Popped <=> label \notin Pushing
  BY DEF QueueLabels, Pushing, Popped

(* A quiet step of c_bq leaves the line as it is.                          *)
LEMMA QuietCalc ==
  ASSUME PipelineInv, Quiet(cpc, CalcThreads), UNCHANGED <<cq, cin, cout>>,
         UNCHANGED <<store, made, stage, log>>
  PROVE  PipelineInv'
  <1>1. PlacesType'
    BY DEF PipelineInv, PlacesType, Quiet, store
  <1>2. /\ cpc'[producter] \in Pushing <=> cpc[producter] \in Pushing
        /\ cpc'[consumer] \in Popped <=> cpc[consumer] \in Popped
        /\ cpc[consumer] = "idle" => cpc'[consumer] = "idle"
    BY LabelsSplit DEF PipelineInv, PlacesType, Quiet, CalcThreads
  <1>3. StageInv'
    BY <1>2 DEF PipelineInv, StageInv, store
  <1>4. AtProducter' = AtProducter /\ AtConsumer' = AtConsumer
    BY <1>2 DEF AtProducter, AtConsumer, InHand, store
  <1>5. AtSaver' = AtSaver
    BY <1>2 DEF AtSaver, InHand, store
  <1>6. NothingLostInOrder'
    BY <1>4, <1>5 DEF PipelineInv, NothingLostInOrder, store
  <1> QED
    BY <1>1, <1>3, <1>6 DEF PipelineInv

(* A quiet step of s_bq leaves the line as it is.                          *)
LEMMA QuietStore ==
  ASSUME PipelineInv, Quiet(spc, StoreThreads), UNCHANGED <<sq, sin, sout>>,
         UNCHANGED <<calc, made, stage, log>>
  PROVE  PipelineInv'
  <1>1. PlacesType'
    BY DEF PipelineInv, PlacesType, Quiet, calc
  <1>2. /\ spc'[consumer] \in Pushing <=> spc[consumer] \in Pushing
        /\ spc'[saver] \in Popped <=> spc[saver] \in Popped
        /\ spc[consumer] = "idle" => spc'[consumer] = "idle"
        /\ spc[saver] = "idle" => spc'[saver] = "idle"
    BY LabelsSplit DEF PipelineInv, PlacesType, Quiet, StoreThreads
  <1>3. StageInv'
    BY <1>2 DEF PipelineInv, StageInv, calc
  <1>4. AtProducter' = AtProducter /\ AtConsumer' = AtConsumer
    BY <1>2 DEF AtProducter, AtConsumer, InHand, calc
  <1>5. AtSaver' = AtSaver
    BY <1>2 DEF AtSaver, InHand, calc
  <1>6. NothingLostInOrder'
    BY <1>4, <1>5 DEF PipelineInv, NothingLostInOrder, calc
  <1> QED
    BY <1>1, <1>3, <1>6 DEF PipelineInv

(* The steps of the two queues that move a task, and the others.           *)
LEMMA CalcQuiet ==
  ASSUME PlacesType, NEW t \in CalcThreads,
         c_bq!Step(t) \/ c_bq!TestPush(t) \/ c_bq!TestPop(t) \/ c_bq!Spurious(t)
  PROVE  Quiet(cpc, CalcThreads) /\ UNCHANGED <<cq, cin, cout>>
  <1>1. /\ UNCHANGED <<cq, cin, cout>>
        /\ \/ cpc[t] \in {"lock", "relock"} /\ cpc' = [cpc EXCEPT ![t] = "test"]
           \/ cpc[t] = "test" /\ cpc' = [cpc EXCEPT ![t] = "wait"]
           \/ cpc[t] = "test" /\ cpc' = [cpc EXCEPT ![t] = "move"]
           \/ cpc[t] = "wait" /\ cpc' = [cpc EXCEPT ![t] = "relock"]
           \/ cpc[t] = "unlock" /\ cpc' = [cpc EXCEPT ![t] = "idle"]
           \/ cpc[t] = "signal" /\ cpc' = [cpc EXCEPT ![t] = "unlock"]
           \/ /\ cpc[t] = "signal"
              /\ \E u \in CalcThreads :
                   cpc[u] = "wait" /\ cpc' = [cpc EXCEPT ![t] = "unlock", ![u] = "relock"]
    BY DEF c_bq!Step, c_bq!Lock, c_bq!SignalOther, c_bq!Signal, c_bq!At, c_bq!Unlock,
           c_bq!TestPush, c_bq!TestPop, c_bq!Sleep, c_bq!Pass, c_bq!Spurious, c_bq!Goto,
           CalcThreads
  <1>2. cpc \in [CalcThreads -> QueueLabels]
    BY DEF PlacesType
  <1> QED
    BY <1>1, <1>2 DEF Quiet, QueueLabels, Pushing, Popped

(* The same of s_bq.                                                       *)
LEMMA StoreQuiet ==
  ASSUME PlacesType, NEW t \in StoreThreads,
         s_bq!Step(t) \/ s_bq!TestPush(t) \/ s_bq!TestPop(t) \/ s_bq!Spurious(t)
  PROVE  Quiet(spc, StoreThreads) /\ UNCHANGED <<sq, sin, sout>>
  <1>1. /\ UNCHANGED <<sq, sin, sout>>
        /\ \/ spc[t] \in {"lock", "relock"} /\ spc' = [spc EXCEPT ![t] = "test"]
           \/ spc[t] = "test" /\ spc' = [spc EXCEPT ![t] = "wait"]
           \/ spc[t] = "test" /\ spc' = [spc EXCEPT ![t] = "move"]
           \/ spc[t] = "wait" /\ spc' = [spc EXCEPT ![t] = "relock"]
           \/ spc[t] = "unlock" /\ spc' = [spc EXCEPT ![t] = "idle"]
           \/ spc[t] = "signal" /\ spc' = [spc EXCEPT ![t] = "unlock"]
           \/ /\ spc[t] = "signal"
              /\ \E u \in StoreThreads :
                   spc[u] = "wait" /\ spc' = [spc EXCEPT ![t] = "unlock", ![u] = "relock"]
    BY DEF s_bq!Step, s_bq!Lock, s_bq!SignalOther, s_bq!Signal, s_bq!At, s_bq!Unlock,
           s_bq!TestPush, s_bq!TestPop, s_bq!Sleep, s_bq!Pass, s_bq!Spurious, s_bq!Goto,
           StoreThreads
  <1>2. spc \in [StoreThreads -> QueueLabels]
    BY DEF PlacesType
  <1> QED
    BY <1>1, <1>2 DEF Quiet, QueueLabels, Pushing, Popped

(* A task enters c_bq, or leaves it.                                       *)
LEMMA CalcPush ==
  ASSUME PipelineAssumption, PipelineInv, InCalc(c_bq!Push(producter))
  PROVE  PipelineInv'
  <1>1. /\ cpc[producter] = "move" /\ cpc' = [cpc EXCEPT ![producter] = "signal"]
        /\ cq' = Append(cq, cin[producter])
        /\ UNCHANGED <<cin, cout, store, made, stage, log>>
    BY DEF InCalc, c_bq!Push, c_bq!Goto
  <1>2. /\ cpc \in [CalcThreads -> QueueLabels] /\ cin[producter] \in Nat
        /\ producter # consumer
    BY DEF PipelineInv, PlacesType, PipelineAssumption
  <1>3. cpc'[producter] = "signal" /\ cpc'[consumer] = cpc[consumer]
    BY <1>1, <1>2 DEF CalcThreads
  <1>4. PlacesType'
    <2>1. cpc' \in [CalcThreads -> QueueLabels]
      BY <1>1, <1>2 DEF QueueLabels, Popped
    <2>2. cq' \in Seq(Nat)
      BY <1>1, <1>2, AppendProperties DEF PipelineInv, PlacesType
    <2> QED
      BY <1>1, <2>1, <2>2 DEF PipelineInv, PlacesType, store
  <1>5. StageInv'
    BY <1>1, <1>3 DEF PipelineInv, StageInv, store
  <1>6. AtProducter = <<cin[producter]>> /\ AtProducter' = <<>>
    BY <1>1, <1>3 DEF AtProducter, InHand, Pushing
  <1>7. AtConsumer' = AtConsumer /\ AtSaver' = AtSaver
    BY <1>1, <1>3 DEF AtConsumer, AtSaver, store
  <1>8. Everything' = Everything
    <2>1. Line(log, AtSaver, sq, AtConsumer, Added(cq, cin[producter]), <<>>)
            = Line(log, AtSaver, sq, AtConsumer, cq, One(cin[producter]))
      BY <1>2, HandsType, PushedToC DEF PipelineInv, PlacesType
    <2> QED
      BY <1>1, <1>6, <1>7, <2>1 DEF Everything, store, Added, One
  <1> QED
    BY <1>1, <1>4, <1>5, <1>8, OneLine, OneLineNext DEF PipelineInv, Numbers

(* A pop from c_bq, by the consumer.                                       *)
LEMMA CalcPop ==
  ASSUME PipelineAssumption, PipelineInv, InCalc(c_bq!Pop(consumer))
  PROVE  PipelineInv'
  <1>1. /\ cpc[consumer] = "move" /\ cpc' = [cpc EXCEPT ![consumer] = "signal"]
        /\ cq # <<>> /\ cq' = Tail(cq) /\ cout' = [cout EXCEPT ![consumer] = Head(cq)]
        /\ UNCHANGED <<cin, store, made, stage, log>>
    BY DEF InCalc, c_bq!Pop, c_bq!Goto
  <1>2. /\ cpc \in [CalcThreads -> QueueLabels] /\ cout \in [{consumer} -> Nat]
        /\ cq \in Seq(Nat) /\ producter # consumer
    BY DEF PipelineInv, PlacesType, PipelineAssumption
  <1>3. /\ cpc'[consumer] = "signal" /\ cpc'[producter] = cpc[producter]
        /\ cout'[consumer] = Head(cq) /\ stage[consumer] = "pop"
    BY <1>1, <1>2 DEF CalcThreads, PipelineInv, StageInv
  <1>4. PlacesType'
    <2>1. cpc' \in [CalcThreads -> QueueLabels]
      BY <1>1, <1>2 DEF QueueLabels, Popped
    <2>2. cq' \in Seq(Nat) /\ cout' \in [{consumer} -> Nat]
      BY <1>1, <1>2, HeadTailProperties
    <2> QED
      BY <1>1, <2>1, <2>2 DEF PipelineInv, PlacesType, store
  <1>5. StageInv'
    BY <1>1, <1>3 DEF PipelineInv, StageInv, store, Pushing
  <1>6. AtConsumer = <<>> /\ AtConsumer' = <<Head(cq)>>
    BY <1>1, <1>3 DEF AtConsumer, InHand, Popped
  <1>7. AtProducter' = AtProducter /\ AtSaver' = AtSaver
    BY <1>1, <1>3 DEF AtProducter, AtSaver, store
  <1>8. Everything' = Everything
    <2>1. Line(log, AtSaver, sq, <<Head(cq)>>, Tail(cq), AtProducter)
            = Line(log, AtSaver, sq, <<>>, cq, AtProducter)
      BY <1>1, <1>2, HandsType, PoppedFromC DEF PipelineInv, PlacesType
    <2> QED
      BY <1>1, <1>6, <1>7, <2>1 DEF Everything, store
  <1> QED
    BY <1>1, <1>4, <1>5, <1>8, OneLine, OneLineNext DEF PipelineInv, Numbers

(* A result enters s_bq, or leaves it.                                     *)
LEMMA StorePush ==
  ASSUME PipelineAssumption, PipelineInv, InStore(s_bq!Push(consumer))
  PROVE  PipelineInv'
  <1>1. /\ spc[consumer] = "move" /\ spc' = [spc EXCEPT ![consumer] = "signal"]
        /\ sq' = Append(sq, sin[consumer])
        /\ UNCHANGED <<sin, sout, calc, made, stage, log>>
    BY DEF InStore, s_bq!Push, s_bq!Goto
  <1>2. /\ spc \in [StoreThreads -> QueueLabels] /\ cout[consumer] \in Nat
        /\ sq \in Seq(Nat) /\ saver # consumer
    BY DEF PipelineInv, PlacesType, PipelineAssumption
  <1>3. /\ spc'[consumer] = "signal" /\ spc'[saver] = spc[saver]
        /\ stage[consumer] = "push" /\ sin[consumer] = cout[consumer]
    BY <1>1, <1>2 DEF StoreThreads, PipelineInv, StageInv, Pushing
  <1>4. PlacesType'
    <2>1. spc' \in [StoreThreads -> QueueLabels]
      BY <1>1, <1>2 DEF QueueLabels, Popped
    <2>2. sq' \in Seq(Nat)
      BY <1>1, <1>2, <1>3, AppendProperties
    <2> QED
      BY <1>1, <2>1, <2>2 DEF PipelineInv, PlacesType, calc
  <1>5. StageInv'
    BY <1>1, <1>3 DEF PipelineInv, StageInv, calc, Pushing
  <1>6. AtConsumer = <<cout[consumer]>> /\ AtConsumer' = <<>>
    BY <1>1, <1>3 DEF AtConsumer, InHand, Pushing
  <1>7. AtProducter' = AtProducter /\ AtSaver' = AtSaver
    BY <1>1, <1>3 DEF AtProducter, AtSaver, calc
  <1>8. Everything' = Everything
    <2>1. Line(log, AtSaver, Added(sq, cout[consumer]), <<>>, cq, AtProducter)
            = Line(log, AtSaver, sq, One(cout[consumer]), cq, AtProducter)
      BY <1>2, HandsType, PushedToS DEF PipelineInv, PlacesType
    <2> QED
      BY <1>1, <1>3, <1>6, <1>7, <2>1 DEF Everything, calc, Added, One
  <1> QED
    BY <1>1, <1>4, <1>5, <1>8, OneLine, OneLineNext DEF PipelineInv, Numbers

(* A pop from s_bq, by the saver.                                          *)
LEMMA StorePop ==
  ASSUME PipelineAssumption, PipelineInv, InStore(s_bq!Pop(saver))
  PROVE  PipelineInv'
  <1>1. /\ spc[saver] = "move" /\ spc' = [spc EXCEPT ![saver] = "signal"]
        /\ sq # <<>> /\ sq' = Tail(sq) /\ sout' = [sout EXCEPT ![saver] = Head(sq)]
        /\ UNCHANGED <<sin, calc, made, stage, log>>
    BY DEF InStore, s_bq!Pop, s_bq!Goto
  <1>2. /\ spc \in [StoreThreads -> QueueLabels] /\ sout \in [{saver} -> Nat]
        /\ sq \in Seq(Nat) /\ saver # consumer
    BY DEF PipelineInv, PlacesType, PipelineAssumption
  <1>3. /\ spc'[saver] = "signal" /\ spc'[consumer] = spc[consumer]
        /\ sout'[saver] = Head(sq) /\ stage[saver] = "pop"
    BY <1>1, <1>2 DEF StoreThreads, PipelineInv, StageInv
  <1>4. PlacesType'
    <2>1. spc' \in [StoreThreads -> QueueLabels]
      BY <1>1, <1>2 DEF QueueLabels, Popped
    <2>2. sq' \in Seq(Nat) /\ sout' \in [{saver} -> Nat]
      BY <1>1, <1>2, HeadTailProperties
    <2> QED
      BY <1>1, <2>1, <2>2 DEF PipelineInv, PlacesType, calc
  <1>5. StageInv'
    BY <1>1, <1>3 DEF PipelineInv, StageInv, calc
  <1>6. AtSaver = <<>> /\ AtSaver' = <<Head(sq)>>
    BY <1>1, <1>3 DEF AtSaver, InHand, Popped
  <1>7. AtProducter' = AtProducter /\ AtConsumer' = AtConsumer
    BY <1>1, <1>3 DEF AtProducter, AtConsumer, calc
  <1>8. Everything' = Everything
    <2>1. Line(log, <<Head(sq)>>, Tail(sq), AtConsumer, cq, AtProducter)
            = Line(log, <<>>, sq, AtConsumer, cq, AtProducter)
      BY <1>1, <1>2, HandsType, PoppedFromS DEF PipelineInv, PlacesType
    <2> QED
      BY <1>1, <1>6, <1>7, <2>1 DEF Everything, calc
  <1> QED
    BY <1>1, <1>4, <1>5, <1>8, OneLine, OneLineNext DEF PipelineInv, Numbers

(* The producter makes a task and calls push.                              *)
LEMMA ProduceStep ==
  ASSUME PipelineAssumption, PipelineInv, Produce
  PROVE  PipelineInv'
  <1>1. /\ cpc[producter] = "idle" /\ cpc' = [cpc EXCEPT ![producter] = "lock"]
        /\ cin' = [cin EXCEPT ![producter] = made + 1] /\ made' = made + 1
        /\ UNCHANGED <<cq, cout, store, stage, log>>
    BY DEF Produce, c_bq!CallPush, c_bq!Goto
  <1>2. /\ cpc \in [CalcThreads -> QueueLabels] /\ cin \in [{producter} -> Nat]
        /\ made \in Nat /\ producter # consumer
    BY DEF PipelineInv, PlacesType, PipelineAssumption
  <1>3. /\ cpc'[producter] = "lock" /\ cpc'[consumer] = cpc[consumer]
        /\ cin'[producter] = made + 1
    BY <1>1, <1>2 DEF CalcThreads
  <1>4. PlacesType'
    <2>1. cpc' \in [CalcThreads -> QueueLabels]
      BY <1>1, <1>2 DEF QueueLabels, Pushing
    <2> QED
      BY <1>1, <1>2, <2>1 DEF PipelineInv, PlacesType, store
  <1>5. StageInv'
    BY <1>1, <1>3 DEF PipelineInv, StageInv, store
  <1>6. AtProducter = <<>> /\ AtProducter' = <<made + 1>>
    BY <1>1, <1>3 DEF AtProducter, InHand, Pushing
  <1>7. AtConsumer' = AtConsumer /\ AtSaver' = AtSaver
    BY <1>1, <1>3 DEF AtConsumer, AtSaver, store
  <1>8. Everything' = Numbers(made + 1)
    <2>1. Line(log, AtSaver, sq, AtConsumer, cq, <<>>) = Numbers(made)
      BY <1>6, OneLine DEF PipelineInv, Everything
    <2>2. Line(log, AtSaver, sq, AtConsumer, cq, One(made + 1)) = Numbers(made + 1)
      BY <1>2, <2>1, HandsType, LineGrows DEF PipelineInv, PlacesType
    <2> QED
      BY <1>1, <1>6, <1>7, <2>2 DEF Everything, store, One
  <1> QED
    BY <1>1, <1>4, <1>5, <1>8, OneLineNext DEF PipelineInv

(* The consumer calls pop, and when it has returned push.                  *)
LEMMA TakeStep ==
  ASSUME PipelineAssumption, PipelineInv, Take
  PROVE  PipelineInv'
  <1>1. /\ \/ stage[consumer] = "ready"
           \/ stage[consumer] = "push" /\ spc[consumer] = "idle"
        /\ cpc[consumer] = "idle" /\ cpc' = [cpc EXCEPT ![consumer] = "lock"]
        /\ stage' = [stage EXCEPT ![consumer] = "pop"]
        /\ UNCHANGED <<cq, cin, cout, store, made, log>>
    BY DEF Take, To, c_bq!CallPop, c_bq!Goto
  <1>2. /\ cpc \in [CalcThreads -> QueueLabels] /\ producter # consumer
        /\ stage \in [StoreThreads -> {"ready", "pop", "push", "save"}] /\ saver # consumer
    BY DEF PipelineInv, PlacesType, PipelineAssumption
  <1>3. /\ cpc'[consumer] = "lock" /\ cpc'[producter] = cpc[producter]
        /\ stage'[consumer] = "pop" /\ stage'[saver] = stage[saver]
        /\ spc[consumer] = "idle"
    BY <1>1, <1>2 DEF CalcThreads, StoreThreads, PipelineInv, StageInv
  <1>4. PlacesType'
    <2>1. cpc' \in [CalcThreads -> QueueLabels]
      BY <1>1, <1>2 DEF QueueLabels, Pushing
    <2> QED
      BY <1>1, <1>2, <2>1 DEF PipelineInv, PlacesType, store
  <1>5. StageInv'
    BY <1>1, <1>3 DEF PipelineInv, StageInv, store
  <1>6. AtConsumer = <<>> /\ AtConsumer' = <<>>
    BY <1>1, <1>3 DEF AtConsumer, InHand, Pushing, Popped, store
  <1>7. AtProducter' = AtProducter /\ AtSaver' = AtSaver
    BY <1>1, <1>3 DEF AtProducter, AtSaver, store
  <1> QED
    BY <1>1, <1>4, <1>5, <1>6, <1>7 DEF PipelineInv, NothingLostInOrder, store

(* The consumer hands its task to s_bq.                                    *)
LEMMA HandStep ==
  ASSUME PipelineAssumption, PipelineInv, Hand
  PROVE  PipelineInv'
  <1>1. /\ stage[consumer] = "pop" /\ cpc[consumer] = "idle"
        /\ spc[consumer] = "idle" /\ spc' = [spc EXCEPT ![consumer] = "lock"]
        /\ sin' = [sin EXCEPT ![consumer] = cout[consumer]]
        /\ stage' = [stage EXCEPT ![consumer] = "push"]
        /\ UNCHANGED <<sq, sout, calc, made, log>>
    BY DEF Hand, To, s_bq!CallPush, s_bq!Goto
  <1>2. /\ spc \in [StoreThreads -> QueueLabels] /\ sin \in [{consumer} -> Nat]
        /\ stage \in [StoreThreads -> {"ready", "pop", "push", "save"}]
        /\ saver # consumer /\ cout[consumer] \in Nat
    BY DEF PipelineInv, PlacesType, PipelineAssumption
  <1>3. /\ spc'[consumer] = "lock" /\ spc'[saver] = spc[saver]
        /\ stage'[consumer] = "push" /\ stage'[saver] = stage[saver]
        /\ sin'[consumer] = cout[consumer]
    BY <1>1, <1>2 DEF StoreThreads
  <1>4. PlacesType'
    <2>1. spc' \in [StoreThreads -> QueueLabels]
      BY <1>1, <1>2 DEF QueueLabels, Pushing
    <2> QED
      BY <1>1, <1>2, <2>1 DEF PipelineInv, PlacesType, calc
  <1>5. StageInv'
    BY <1>1, <1>3 DEF PipelineInv, StageInv, calc
  <1>6. AtConsumer = <<cout[consumer]>> /\ AtConsumer' = <<cout[consumer]>>
    BY <1>1, <1>3 DEF AtConsumer, InHand, Pushing, Popped, calc
  <1>7. AtProducter' = AtProducter /\ AtSaver' = AtSaver
    BY <1>1, <1>3 DEF AtProducter, AtSaver, calc
  <1> QED
    BY <1>1, <1>4, <1>5, <1>6, <1>7 DEF PipelineInv, NothingLostInOrder, calc

(* The saver calls pop, opens the log, and writes to it.                   *)
LEMMA FetchStep ==
  ASSUME PipelineAssumption, PipelineInv, Fetch
  PROVE  PipelineInv'
  <1>1. /\ stage[saver] = "ready"
        /\ spc[saver] = "idle" /\ spc' = [spc EXCEPT ![saver] = "lock"]
        /\ stage' = [stage EXCEPT ![saver] = "pop"]
        /\ UNCHANGED <<sq, sin, sout, calc, made, log>>
    BY DEF Fetch, To, s_bq!CallPop, s_bq!Goto
  <1>2. /\ spc \in [StoreThreads -> QueueLabels]
        /\ stage \in [StoreThreads -> {"ready", "pop", "push", "save"}]
        /\ saver # consumer
    BY DEF PipelineInv, PlacesType, PipelineAssumption
  <1>3. /\ spc'[saver] = "lock" /\ spc'[consumer] = spc[consumer]
        /\ stage'[saver] = "pop" /\ stage'[consumer] = stage[consumer]
    BY <1>1, <1>2 DEF StoreThreads
  <1>4. PlacesType'
    <2>1. spc' \in [StoreThreads -> QueueLabels]
      BY <1>1, <1>2 DEF QueueLabels, Pushing
    <2> QED
      BY <1>1, <1>2, <2>1 DEF PipelineInv, PlacesType, calc
  <1>5. StageInv'
    BY <1>1, <1>3 DEF PipelineInv, StageInv, calc
  <1>6. AtSaver = <<>> /\ AtSaver' = <<>>
    BY <1>1, <1>3 DEF AtSaver, InHand, Popped
  <1>7. AtProducter' = AtProducter /\ AtConsumer' = AtConsumer
    BY <1>1, <1>3 DEF AtProducter, AtConsumer, calc
  <1> QED
    BY <1>1, <1>4, <1>5, <1>6, <1>7 DEF PipelineInv, NothingLostInOrder, calc

(* The saver opens the log, or the process exits.                          *)
LEMMA OpenStep ==
  ASSUME PipelineAssumption, PipelineInv, Open
  PROVE  PipelineInv'
  <1>1. /\ stage[saver] = "pop" /\ spc[saver] = "idle"
        /\ stage' = [stage EXCEPT ![saver] = "save"] \/ stage' = stage
        /\ UNCHANGED <<calc, store, made, log>>
    BY DEF Open, To
  <1>2. /\ stage \in [StoreThreads -> {"ready", "pop", "push", "save"}]
        /\ saver # consumer
    BY DEF PipelineInv, PlacesType, PipelineAssumption
  <1>3. stage'[saver] \in {"pop", "save"} /\ stage'[consumer] = stage[consumer]
    BY <1>1, <1>2 DEF StoreThreads
  <1>4. PlacesType'
    BY <1>1, <1>2 DEF PipelineInv, PlacesType, calc, store
  <1>5. StageInv'
    BY <1>1, <1>3 DEF PipelineInv, StageInv, calc, store
  <1>6. AtSaver = <<sout[saver]>> /\ AtSaver' = <<sout[saver]>>
    BY <1>1, <1>3 DEF AtSaver, InHand, Popped, store
  <1>7. AtProducter' = AtProducter /\ AtConsumer' = AtConsumer
    BY <1>1, <1>3 DEF AtProducter, AtConsumer, calc, store
  <1> QED
    BY <1>1, <1>4, <1>5, <1>6, <1>7 DEF PipelineInv, NothingLostInOrder, calc, store

(* The saver writes its task to the log.                                   *)
LEMMA SaveStep ==
  ASSUME PipelineAssumption, PipelineInv, Save
  PROVE  PipelineInv'
  <1>1. /\ stage[saver] = "save" /\ log' = Append(log, sout[saver])
        /\ stage' = [stage EXCEPT ![saver] = "ready"]
        /\ UNCHANGED <<calc, store, made>>
    BY DEF Save, To
  <1>2. /\ stage \in [StoreThreads -> {"ready", "pop", "push", "save"}]
        /\ saver # consumer /\ sout[saver] \in Nat /\ log \in Seq(Nat)
    BY DEF PipelineInv, PlacesType, PipelineAssumption
  <1>3. stage'[saver] = "ready" /\ stage'[consumer] = stage[consumer] /\ spc[saver] = "idle"
    BY <1>1, <1>2 DEF StoreThreads, PipelineInv, StageInv
  <1>4. PlacesType'
    <2>1. log' \in Seq(Nat)
      BY <1>1, <1>2, AppendProperties
    <2> QED
      BY <1>1, <1>2, <2>1 DEF PipelineInv, PlacesType, calc, store
  <1>5. StageInv'
    BY <1>1, <1>3 DEF PipelineInv, StageInv, calc, store
  <1>6. AtSaver = <<sout[saver]>> /\ AtSaver' = <<>>
    BY <1>1, <1>3 DEF AtSaver, InHand, store
  <1>7. AtProducter' = AtProducter /\ AtConsumer' = AtConsumer
    BY <1>1, <1>3 DEF AtProducter, AtConsumer, calc, store
  <1>8. Everything' = Everything
    <2>1. Line(Added(log, sout[saver]), <<>>, sq, AtConsumer, cq, AtProducter)
            = Line(log, One(sout[saver]), sq, AtConsumer, cq, AtProducter)
      BY <1>2, HandsType, Saved DEF PipelineInv, PlacesType
    <2> QED
      BY <1>1, <1>6, <1>7, <2>1 DEF Everything, calc, store, Added, One
  <1> QED
    BY <1>1, <1>4, <1>5, <1>8, OneLine, OneLineNext DEF PipelineInv, Numbers
-----------------------------------------------------------------------------
(* The invariant holds at first.                                           *)
LEMMA PipelineInitInv == PipelineAssumption /\ PipelineInit => PipelineInv
  <1> SUFFICES ASSUME PipelineAssumption, PipelineInit PROVE PipelineInv
    OBVIOUS
  <1>1. /\ cq = <<>> /\ cpc = [t \in {producter} \cup {consumer} |-> "idle"]
        /\ cin = [p \in {producter} |-> 0] /\ cout = [c \in {consumer} |-> 0]
        /\ sq = <<>> /\ spc = [t \in {consumer} \cup {saver} |-> "idle"]
        /\ sin = [p \in {consumer} |-> 0] /\ sout = [c \in {saver} |-> 0]
        /\ made = 0 /\ stage = [t \in {consumer, saver} |-> "ready"] /\ log = <<>>
    BY DEF PipelineInit, c_bq!Init, s_bq!Init, c_bq!Threads, s_bq!Threads, Blank
  <1>2. PlacesType
    BY <1>1, EmptySeq DEF PlacesType, CalcThreads, StoreThreads, QueueLabels, Popped
  <1>3. StageInv
    BY <1>1 DEF StageInv, Pushing
  <1>4. AtProducter = <<>> /\ AtConsumer = <<>> /\ AtSaver = <<>>
    BY <1>1 DEF AtProducter, AtConsumer, AtSaver, InHand, Pushing
  <1>5. Everything = <<>>
    <2>1. Cat(<<>>, <<>>) = <<>>
      BY EmptySeq, CatEmpty
    <2> QED
      BY <1>1, <1>4, <2>1 DEF Everything, Line
  <1>6. Numbers(0) = <<>>
    BY DEF Numbers
  <1> QED
    BY <1>1, <1>2, <1>3, <1>5, <1>6, OneLine DEF PipelineInv

(* Every step keeps the invariant.                                         *)
LEMMA PipelineNextInv ==
  PipelineAssumption /\ PipelineInv /\ [PipelineNext]_pipelineVars => PipelineInv'
  <1> SUFFICES ASSUME PipelineAssumption, PipelineInv, [PipelineNext]_pipelineVars
               PROVE  PipelineInv'
    OBVIOUS
  <1>1. PlacesType
    BY DEF PipelineInv
  <1>2. ASSUME NEW t \in CalcThreads,
               InCalc(c_bq!Step(t) \/ c_bq!TestPush(t) \/ c_bq!TestPop(t) \/ c_bq!Spurious(t))
        PROVE  PipelineInv'
    <2>1. Quiet(cpc, CalcThreads) /\ UNCHANGED <<cq, cin, cout>>
      BY <1>1, <1>2, CalcQuiet DEF InCalc
    <2> QED
      BY <1>2, <2>1, QuietCalc DEF InCalc
  <1>3. ASSUME NEW t \in StoreThreads,
               InStore(s_bq!Step(t) \/ s_bq!TestPush(t) \/ s_bq!TestPop(t) \/ s_bq!Spurious(t))
        PROVE  PipelineInv'
    <2>1. Quiet(spc, StoreThreads) /\ UNCHANGED <<sq, sin, sout>>
      BY <1>1, <1>3, StoreQuiet DEF InStore
    <2> QED
      BY <1>3, <2>1, QuietStore DEF InStore
  <1>4. CASE Producter
    <2>1. CASE Produce
      BY <2>1, ProduceStep
    <2>2. CASE InCalc(c_bq!Push(producter))
      BY <2>2, CalcPush
    <2>3. CASE InCalc(c_bq!Step(producter) \/ c_bq!TestPush(producter))
      BY <2>3, <1>2 DEF InCalc, CalcThreads
    <2> QED
      BY <1>4, <2>1, <2>2, <2>3 DEF Producter, c_bq!PushStep, InCalc
  <1>5. CASE Consumer
    <2>1. CASE Take \/ Hand
      BY <2>1, TakeStep, HandStep
    <2>2. CASE InCalc(c_bq!Pop(consumer))
      BY <2>2, CalcPop
    <2>3. CASE InCalc(c_bq!Step(consumer) \/ c_bq!TestPop(consumer))
      BY <2>3, <1>2 DEF InCalc, CalcThreads
    <2>4. CASE InStore(s_bq!Push(consumer))
      BY <2>4, StorePush
    <2>5. CASE InStore(s_bq!Step(consumer) \/ s_bq!TestPush(consumer))
      BY <2>5, <1>3 DEF InStore, StoreThreads
    <2> QED
      BY <1>5, <2>1, <2>2, <2>3, <2>4, <2>5
      DEF Consumer, c_bq!PopStep, s_bq!PushStep, InCalc, InStore
  <1>6. CASE Saver
    <2>1. CASE Fetch \/ Open \/ Save
      BY <2>1, FetchStep, OpenStep, SaveStep
    <2>2. CASE InStore(s_bq!Pop(saver))
      BY <2>2, StorePop
    <2>3. CASE InStore(s_bq!Step(saver) \/ s_bq!TestPop(saver))
      BY <2>3, <1>3 DEF InStore, StoreThreads
    <2> QED
      BY <1>6, <2>1, <2>2, <2>3 DEF Saver, s_bq!PopStep, InStore
  <1>7. CASE Spurious
    BY <1>7, <1>2, <1>3 DEF Spurious, InCalc, InStore, CalcThreads, StoreThreads
  <1>8. CASE UNCHANGED pipelineVars
    <2>1. PlacesType' /\ StageInv'
      BY <1>8 DEF pipelineVars, PipelineInv, PlacesType, StageInv
    <2>2. AtProducter' = AtProducter /\ AtConsumer' = AtConsumer /\ AtSaver' = AtSaver
      BY <1>8 DEF pipelineVars, AtProducter, AtConsumer, AtSaver
    <2> QED
      BY <1>8, <2>1, <2>2 DEF pipelineVars, PipelineInv, NothingLostInOrder
  <1> QED
    BY <1>4, <1>5, <1>6, <1>7, <1>8 DEF PipelineNext

(* Every task made is in exactly one place of the pipeline, and the places *)
(* hold them in the order they were made (MainCp.cc:41-86).                *)
THEOREM PipelineInOrder == PipelineSpec => []NothingLostInOrder
  <1>1. PipelineInv => NothingLostInOrder
    BY DEF PipelineInv
  <1> QED
    BY <1>1, PipelineInitInv, PipelineNextInv, PipelineAssumption, PTL DEF PipelineSpec
=============================================================================
