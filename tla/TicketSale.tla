----------------------------- MODULE TicketSale -----------------------------
(***************************************************************************)
(* thread_mutex/mythread.cc: threads sell the tickets of one counter under *)
(* a mutex that main made on its stack.  A thread locks with a LockGuard,  *)
(* tests the counter, sells the ticket it shows, decrements it (a load and *)
(* a store, which only the mutex keeps together) and unlocks at the end of *)
(* the scope; when no ticket is left the break leaves the scope too.  main *)
(* joins every thread and destroys the mutex.                              *)
(***************************************************************************)
EXTENDS Integers, FiniteSets

CONSTANTS
  Sellers,    \* the threads that run getTicket
  Total,      \* the tickets at the start (1000 in the code)
  NoThread    \* the owner of an unlocked mutex

ASSUME SaleAssumption ==
  /\ IsFiniteSet(Sellers)
  /\ NoThread \notin Sellers
  /\ Total \in Nat

VARIABLES
  ticket,     \* the counter
  mutex,      \* the owner of lock
  pc,         \* where each seller is
  reg,        \* reg[t]: the value ticket-- of t has loaded
  sold,       \* sold[n]: how often ticket n has been sold
  joined,     \* the sellers main has joined
  destroyed   \* has main destroyed the mutex?

vars == <<ticket, mutex, pc, reg, sold, joined, destroyed>>

Tickets == 1 .. Total
Labels == {"lock", "test", "sell", "load", "store", "unlock", "leave", "done"}

Goto(t, from, to) ==
  /\ pc[t] = from
  /\ pc' = [pc EXCEPT ![t] = to]

TypeOK ==
  /\ ticket \in 0 .. Total
  /\ mutex \in Sellers \cup {NoThread}
  /\ pc \in [Sellers -> Labels]
  /\ reg \in [Sellers -> 0 .. Total]
  /\ sold \in [Tickets -> Nat]
  /\ joined \subseteq Sellers
  /\ destroyed \in BOOLEAN

Init ==
  /\ ticket = Total
  /\ mutex = NoThread
  /\ pc = [t \in Sellers |-> "lock"]
  /\ reg = [t \in Sellers |-> 0]
  /\ sold = [n \in Tickets |-> 0]
  /\ joined = {}
  /\ destroyed = FALSE
-----------------------------------------------------------------------------
LockMissing(t) ==  \* mutant: no LockGuard in the scope
  /\ Goto(t, "lock", "test")
  /\ UNCHANGED <<ticket, mutex, reg, sold, joined, destroyed>>

Lock(t) ==
  /\ Goto(t, "lock", "test")
  /\ mutex = NoThread
  /\ mutex' = t
  /\ UNCHANGED <<ticket, reg, sold, joined, destroyed>>

TestAllowsZero(t) ==  \* mutant: ticket >= 0
  /\ Goto(t, "test", IF ticket >= 0 THEN "sell" ELSE "leave")
  /\ UNCHANGED <<ticket, mutex, reg, sold, joined, destroyed>>

Test(t) ==
  /\ Goto(t, "test", IF ticket > 0 THEN "sell" ELSE "leave")
  /\ UNCHANGED <<ticket, mutex, reg, sold, joined, destroyed>>

(* The ticket whose number is printed is the one that is sold; the counter *)
(* is read again here.                                                     *)
Sell(t) ==
  /\ Goto(t, "sell", "load")
  /\ sold' = [n \in Tickets |-> IF n = ticket THEN sold[n] + 1 ELSE sold[n]]
  /\ UNCHANGED <<ticket, mutex, reg, joined, destroyed>>

Load(t) ==
  /\ Goto(t, "load", "store")
  /\ reg' = [reg EXCEPT ![t] = ticket]
  /\ UNCHANGED <<ticket, mutex, sold, joined, destroyed>>

Store(t) ==
  /\ Goto(t, "store", "unlock")
  /\ ticket' = reg[t] - 1
  /\ UNCHANGED <<mutex, reg, sold, joined, destroyed>>

Unlock(t) ==
  /\ Goto(t, "unlock", "lock")
  /\ mutex' = NoThread
  /\ UNCHANGED <<ticket, reg, sold, joined, destroyed>>

LeaveMissing(t) ==  \* mutant: no break, the loop goes on without tickets
  /\ Goto(t, "leave", "lock")
  /\ mutex' = NoThread
  /\ UNCHANGED <<ticket, reg, sold, joined, destroyed>>

(* The break destroys the LockGuard before the thread returns.             *)
Leave(t) ==
  /\ Goto(t, "leave", "done")
  /\ mutex' = NoThread
  /\ UNCHANGED <<ticket, reg, sold, joined, destroyed>>

Seller(t) ==
  \/ Lock(t) \/ Test(t) \/ Sell(t) \/ Load(t) \/ Store(t) \/ Unlock(t) \/ Leave(t)

JoinWithoutWaiting(t) ==  \* mutant: pthread_detach in place of pthread_join
  /\ t \notin joined
  /\ joined' = joined \cup {t}
  /\ UNCHANGED <<ticket, mutex, pc, reg, sold, destroyed>>

(* main joins the threads in the order it created them, which is an order  *)
(* of no consequence here.                                                 *)
Join(t) ==
  /\ t \notin joined
  /\ pc[t] = "done"
  /\ joined' = joined \cup {t}
  /\ UNCHANGED <<ticket, mutex, pc, reg, sold, destroyed>>

Destroy ==
  /\ ~destroyed
  /\ joined = Sellers
  /\ destroyed' = TRUE
  /\ UNCHANGED <<ticket, mutex, pc, reg, sold, joined>>

Returned == destroyed /\ UNCHANGED vars

Next == (\E t \in Sellers : Seller(t) \/ Join(t)) \/ Destroy \/ Returned

Spec == Init /\ [][Next]_vars

(* Every thread that can run runs; who gets the mutex is left open.        *)
FairSpec ==
  /\ Spec
  /\ \A t \in Sellers : WF_vars(Seller(t)) /\ WF_vars(Join(t))
  /\ WF_vars(Destroy)
-----------------------------------------------------------------------------
(* No ticket is sold twice, none is skipped: what has been sold is what    *)
(* lies above the counter, but for the ticket a thread has sold and not    *)
(* yet taken off (mythread.cc:101-106).                                    *)
SoldAboveCounter ==
  \A n \in Tickets :
    sold[n] = IF \/ n > ticket
                 \/ n = ticket /\ \E t \in Sellers : pc[t] \in {"load", "store"}
              THEN 1 ELSE 0

(* When main destroys the mutex nobody is left to use it and all tickets   *)
(* are sold, to the last one (mythread.cc:157-162).                        *)
SoldOutAtEnd ==
  destroyed /\ Sellers # {} =>
    /\ \A t \in Sellers : pc[t] = "done"
    /\ mutex = NoThread
    /\ \A n \in Tickets : sold[n] = 1

(* The sale ends, although nothing is promised about who gets the lock     *)
(* (mythread.cc:93-116, 157-164).                                          *)
SaleEnds == <>destroyed

(* The inductive invariant: who is in the scope of the LockGuard owns the  *)
(* mutex, and what it tested and loaded is still so.                       *)
Inside == {"test", "sell", "load", "store", "unlock", "leave"}

MutexInv == \A t \in Sellers : pc[t] \in Inside <=> mutex = t

CounterInv ==
  \A t \in Sellers :
    /\ pc[t] \in {"sell", "load", "store"} => ticket > 0
    /\ pc[t] = "store" => reg[t] = ticket
    /\ pc[t] \in {"leave", "done"} => ticket = 0

EndInv ==
  /\ \A t \in joined : pc[t] = "done"
  /\ destroyed => joined = Sellers

IInv == TypeOK /\ MutexInv /\ CounterInv /\ EndInv /\ SoldAboveCounter
=============================================================================
