------------------------------ MODULE CondDemo ------------------------------
(***************************************************************************)
(* thread_cond/test_cond/test_cond.cc: threads that sell a ticket each     *)
(* time they are woken, and main, which signals once a second.  They wait  *)
(* without a condition of their own: what is not remembered anywhere is    *)
(* that somebody signalled.                                                *)
(***************************************************************************)
EXTENDS Integers, FiniteSets

CONSTANTS
  Routines,   \* the threads (5 in the code)
  Stock,      \* the tickets at first (1000 in the code)
  MaxSignals, \* bound on the signals (none in the code)
  MaxSpurious \* bound on the wake-ups without a signal (none in POSIX)

Free == "free"

CondAssumption ==
  /\ IsFiniteSet(Routines) /\ Routines # {} /\ Free \notin Routines
  /\ Stock \in Nat /\ MaxSignals \in Nat /\ MaxSpurious \in Nat

VARIABLES
  lock,       \* the thread that holds lock, or the free lock
  seller,     \* seller[t]: what thread t does
  tickets,    \* ticket
  signals,    \* how often main has signalled,
  lost,       \*   while nobody was waiting,
  spurious    \* and how often a thread woke up without it

condVars == <<lock, seller, tickets, signals, lost, spurious>>

CondInit ==
  /\ lock = Free /\ seller = [t \in Routines |-> "none"]
  /\ tickets = Stock
  /\ signals = 0 /\ lost = 0 /\ spurious = 0
-----------------------------------------------------------------------------
Becomes(t, what) == seller' = [seller EXCEPT ![t] = what]

(* pthread_create; main does not wait for the thread to run.               *)
Create ==
  /\ \E t \in Routines : seller[t] = "none" /\ Becomes(t, "lock")
  /\ UNCHANGED <<lock, tickets, signals, lost, spurious>>

LockCond(t) ==
  /\ seller[t] = "lock" /\ lock = Free
  /\ lock' = t /\ Becomes(t, "wait")
  /\ UNCHANGED <<tickets, signals, lost, spurious>>

(* pthread_cond_wait gives the lock back and blocks.                       *)
WaitCond(t) ==
  /\ seller[t] = "wait"
  /\ lock' = Free /\ Becomes(t, "blocked")
  /\ UNCHANGED <<tickets, signals, lost, spurious>>

(* It returns with the lock.                                               *)
Relock(t) ==
  /\ seller[t] = "woken" /\ lock = Free
  /\ lock' = t /\ Becomes(t, "sell")
  /\ UNCHANGED <<tickets, signals, lost, spurious>>

SellCond(t) ==
  /\ seller[t] = "sell"
  /\ tickets' = tickets - 1
  /\ lock' = Free /\ Becomes(t, "lock")
  /\ UNCHANGED <<signals, lost, spurious>>

Broadcast ==  \* mutant: pthread_cond_broadcast for pthread_cond_signal
  /\ \A t \in Routines : seller[t] # "none"
  /\ signals < MaxSignals /\ signals' = signals + 1
  /\ \E t \in Routines : seller[t] = "blocked"
  /\ seller' = [t \in Routines |-> IF seller[t] = "blocked" THEN "woken" ELSE seller[t]]
  /\ UNCHANGED <<lock, tickets, lost, spurious>>

(* main creates all threads, and signals without the lock; a signal wakes  *)
(* one of those that wait, or nobody.                                      *)
SignalCond ==
  /\ \A t \in Routines : seller[t] # "none"
  /\ signals < MaxSignals /\ signals' = signals + 1
  /\ \/ /\ \E t \in Routines : seller[t] = "blocked" /\ Becomes(t, "woken")
        /\ UNCHANGED lost
     \/ /\ \A t \in Routines : seller[t] # "blocked"
        /\ lost' = lost + 1 /\ UNCHANGED seller
  /\ UNCHANGED <<lock, tickets, spurious>>

SpuriousCond(t) ==
  /\ spurious < MaxSpurious /\ spurious' = spurious + 1
  /\ seller[t] = "blocked" /\ Becomes(t, "woken")
  /\ UNCHANGED <<lock, tickets, signals, lost>>

start_routine(t) == LockCond(t) \/ WaitCond(t) \/ Relock(t) \/ SellCond(t)

CondSystem == Create \/ SignalCond \/ \E t \in Routines : start_routine(t)

CondNext == CondSystem \/ \E t \in Routines : SpuriousCond(t)

CondSpec == CondInit /\ [][CondNext]_condVars

CondFairSpec == CondSpec /\ WF_condVars(CondSystem)
-----------------------------------------------------------------------------
(* Every signal that found a thread waiting sells one ticket, and so does  *)
(* every spurious wake-up, one thread after the other: what is not sold    *)
(* yet is on its way in a thread that was woken (test_cond.cc:17-26).      *)
CondSafe ==
  /\ Stock - tickets + Cardinality({t \in Routines : seller[t] \in {"woken", "sell"}})
       = signals - lost + spurious
  /\ \A t \in Routines : seller[t] \in {"wait", "sell"} <=> lock = t

(* In the end all threads wait, and main's signals have all been used or   *)
(* lost (test_cond.cc:17-26, 43-48).                                       *)
CondSettled ==
  \A t \in Routines : seller[t] = "blocked" /\ signals = MaxSignals
=============================================================================
