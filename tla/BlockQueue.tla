----------------------------- MODULE BlockQueue -----------------------------
(***************************************************************************)
(* BlockQueue<T> of thread_cond/blockqueue/BlockQueue.hpp: a queue of at   *)
(* most _maxcap items, a mutex, and two condition variables, _pcond for    *)
(* the producers that find the queue full and _ccond for the consumers     *)
(* that find it empty.                                                     *)
(*                                                                         *)
(* push and pop have the same shape: lock, while the queue is full (empty) *)
(* wait, move one item, signal the other side, unlock.  The threads that   *)
(* wait on _pcond are the producers at "wait", those that wait on _ccond   *)
(* the consumers at "wait"; a woken thread is at "relock" until it has the *)
(* mutex again and goes back to the test of the while.                     *)
(***************************************************************************)
EXTENDS Integers, FiniteSets, Sequences

CONSTANTS
  Producers,  \* the threads that call push
  Consumers,  \* the threads that call pop
  Items,      \* what the producers push
  Blank,      \* a default-constructed T
  MaxCap,     \* _maxcap
  NoThread    \* the owner of an unlocked mutex

ASSUME BlockQueueAssumption ==
  /\ MaxCap \in Nat \ {0}
  /\ IsFiniteSet(Producers)
  /\ IsFiniteSet(Consumers)
  /\ Producers \cap Consumers = {}
  /\ NoThread \notin Producers \cup Consumers

VARIABLES
  q,          \* _q, the oldest item first
  mutex,      \* the owner of _mutex
  pc,         \* where each thread is in push or pop
  in,         \* in[p]: the argument of the push p executes
  out         \* out[c]: what the last pop of c wrote to *out

vars == <<q, mutex, pc, in, out>>

Threads == Producers \cup Consumers
Values == Items \cup {Blank}
Labels == {"idle", "lock", "test", "wait", "relock", "move", "signal", "unlock"}

At(T, labels) == {t \in T : pc[t] \in labels}

Goto(t, from, to) ==
  /\ pc[t] = from
  /\ pc' = [pc EXCEPT ![t] = to]

TypeOK ==
  /\ q \in Seq(Values)
  /\ Len(q) \in 0 .. MaxCap
  /\ mutex \in Threads \cup {NoThread}
  /\ pc \in [Threads -> Labels]
  /\ in \in [Producers -> Values]
  /\ out \in [Consumers -> Values]

Init ==
  /\ q = <<>>
  /\ mutex = NoThread
  /\ pc = [t \in Threads |-> "idle"]
  /\ in = [p \in Producers |-> Blank]
  /\ out = [c \in Consumers |-> Blank]
-----------------------------------------------------------------------------
FullOnlyAbove == Len(q) > MaxCap  \* mutant: full only when the bound is passed

is_full == Len(q) = MaxCap

is_empty == q = <<>>

CallPush(p, v) ==
  /\ Goto(p, "idle", "lock")
  /\ in' = [in EXCEPT ![p] = v]
  /\ UNCHANGED <<q, mutex, out>>

CallPop(c) ==
  /\ Goto(c, "idle", "lock")
  /\ UNCHANGED <<q, mutex, in, out>>

WaitIfNotWhile(t) ==  \* mutant: if in place of while, a woken thread goes on
  /\ pc[t] \in {"lock", "relock"}
  /\ mutex = NoThread
  /\ mutex' = t
  /\ pc' = [pc EXCEPT ![t] = IF @ = "relock" THEN "move" ELSE "test"]
  /\ UNCHANGED <<q, in, out>>

(* pthread_mutex_lock, and the lock that pthread_cond_wait takes again.    *)
Lock(t) ==
  /\ pc[t] \in {"lock", "relock"}
  /\ mutex = NoThread
  /\ mutex' = t
  /\ pc' = [pc EXCEPT ![t] = "test"]
  /\ UNCHANGED <<q, in, out>>

(* pthread_cond_wait releases the mutex and goes to sleep in one step.     *)
Sleep(t) ==
  /\ Goto(t, "test", "wait")
  /\ mutex' = NoThread
  /\ UNCHANGED <<q, in, out>>

Pass(t) ==
  /\ Goto(t, "test", "move")
  /\ UNCHANGED <<q, mutex, in, out>>

TestPush(p) == IF is_full THEN Sleep(p) ELSE Pass(p)

TestPop(c) == IF is_empty THEN Sleep(c) ELSE Pass(c)

Push(p) ==
  /\ Goto(p, "move", "signal")
  /\ q' = Append(q, in[p])
  /\ UNCHANGED <<mutex, in, out>>

(* front() and pop() of an empty std::queue are undefined; the test of the *)
(* while is what keeps them away from one, so there is no such outcome.    *)
Pop(c) ==
  /\ Goto(c, "move", "signal")
  /\ q # <<>>
  /\ out' = [out EXCEPT ![c] = Head(q)]
  /\ q' = Tail(q)
  /\ UNCHANGED <<mutex, in>>

(* pthread_cond_signal wakes one of the threads that wait, if any does.    *)
Signal(t, waiting) ==
  /\ pc[t] = "signal"
  /\ \/ /\ waiting = {}
        /\ pc' = [pc EXCEPT ![t] = "unlock"]
     \/ \E u \in waiting :
          pc' = [pc EXCEPT ![t] = "unlock", ![u] = "relock"]
  /\ UNCHANGED <<q, mutex, in, out>>

SignalOwnSide(t) ==  \* mutant: push signals _pcond, pop signals _ccond
  Signal(t, At(IF t \in Producers THEN Producers ELSE Consumers, {"wait"}))

SignalOther(t) ==
  Signal(t, At(IF t \in Producers THEN Consumers ELSE Producers, {"wait"}))

Unlock(t) ==
  /\ Goto(t, "unlock", "idle")
  /\ mutex' = NoThread
  /\ UNCHANGED <<q, in, out>>

(* pthread_cond_wait may return without a signal.                          *)
Spurious(t) ==
  /\ Goto(t, "wait", "relock")
  /\ UNCHANGED <<q, mutex, in, out>>

Step(t) == Lock(t) \/ SignalOther(t) \/ Unlock(t)

PushStep(p) == Step(p) \/ TestPush(p) \/ Push(p)

PopStep(c) == Step(c) \/ TestPop(c) \/ Pop(c)

Inside ==
  \/ \E p \in Producers : PushStep(p)
  \/ \E c \in Consumers : PopStep(c)
  \/ \E t \in Threads : Spurious(t)

Next ==
  \/ \E p \in Producers, v \in Items : CallPush(p, v)
  \/ \E c \in Consumers : CallPop(c)
  \/ Inside

Spec == Init /\ [][Next]_vars

(* Threads that can run do run.  No order is promised among the threads    *)
(* that want the mutex, and condition variables do not wake spuriously for *)
(* ever.                                                                   *)
Fairness ==
  /\ \A p \in Producers :
       WF_vars(PushStep(p)) /\ WF_vars(\E v \in Items : CallPush(p, v))
  /\ \A c \in Consumers : WF_vars(PopStep(c)) /\ WF_vars(CallPop(c))
  /\ <>[][~ \E t \in Threads : Spurious(t)]_vars

FairSpec == Spec /\ Fairness

Channel == INSTANCE BoundedChannel WITH
  Receivers <- Consumers, Items <- Values, Cap <- MaxCap, chan <- q
-----------------------------------------------------------------------------
(* A consumer sleeps on _ccond while items are queued only if as many      *)
(* consumers are awake to take them or a producer is about to signal, and  *)
(* the mirror image for _pcond and the free places (BlockQueue.hpp:20-33,  *)
(* 38-48): the one signal of each push and pop is enough.                  *)
Awake == {"relock", "test", "move"}

NoLostWakeup ==
  /\ At(Consumers, {"wait"}) # {} =>
       Len(q) <= Cardinality(At(Consumers, Awake))
                   + Cardinality(At(Producers, {"signal"}))
  /\ At(Producers, {"wait"}) # {} =>
       MaxCap - Len(q) <= Cardinality(At(Producers, Awake))
                            + Cardinality(At(Consumers, {"signal"}))

(* Never does every thread sleep: with a producer and a consumer, somebody *)
(* is always awake (BlockQueue.hpp:27, 41).                                *)
SomebodyAwake ==
  Producers # {} /\ Consumers # {} => \E t \in Threads : pc[t] # "wait"

(* The queue is a bounded FIFO channel that keeps moving; push onto a full *)
(* one and pop from an empty one never happen, spurious wake-ups or not    *)
(* (BlockQueue.hpp:18-50).                                                 *)
IsChannel == Channel!FairSpec

(* The inductive invariant: who is between lock and unlock owns the mutex, *)
(* and what the test of the while found still holds at the move.           *)
MutexInv ==
  \A t \in Threads :
    pc[t] \in {"test", "move", "signal", "unlock"} => mutex = t

MoveInv ==
  /\ \A p \in Producers : pc[p] = "move" => Len(q) < MaxCap
  /\ \A c \in Consumers : pc[c] = "move" => q # <<>>

IInv == TypeOK /\ MutexInv /\ MoveInv /\ NoLostWakeup
=============================================================================
