------------------------------ MODULE RingQueue ------------------------------
(***************************************************************************)
(* RingQueue<T> of thread_ringqueue/RingQueue.hpp, driven by the producer  *)
(* and consumer threads of thread_ringqueue/Main.cc: a ring of _cap slots, *)
(* a semaphore that counts the free slots, one that counts the filled      *)
(* ones, and a mutex per side, so that several producers (and several      *)
(* consumers) share one ring while a push and a pop run at the same time.  *)
(*                                                                         *)
(* push and pop are mirror images: wait on one's own semaphore, lock one's *)
(* own mutex, take an index from one's own step counter, access the slot,  *)
(* wrap the counter, unlock, post the other side's semaphore.  The state   *)
(* is therefore kept per side, "push" or "pop", and a step of the code     *)
(* is one action of a thread of either side.  The access of the slot is a  *)
(* copy of a T with strings and callbacks in it, so it takes time: thread  *)
(* t is in the middle of it while pc[t] = "access".                        *)
(***************************************************************************)
EXTENDS Integers, FiniteSets, Sequences

CONSTANTS
  Producers,  \* the threads that run producer()
  Consumers,  \* the threads that run consumer()
  Items,      \* the tasks a producer may push
  Blank,      \* a default-constructed T
  Cap,        \* _cap
  NoThread    \* the owner of an unlocked mutex

ASSUME RingAssumption ==
  /\ Cap \in Nat \ {0}
  /\ IsFiniteSet(Producers)
  /\ IsFiniteSet(Consumers)
  /\ Producers \cap Consumers = {}
  /\ NoThread \notin Producers \cup Consumers

VARIABLES
  queue,      \* _queue, indexed from 0
  sem,        \* sem["push"]: _spaceSem, sem["pop"]: _dataSem
  step,       \* step["push"]: _producerStep, step["pop"]: _consumerStep
  mutex,      \* mutex["push"]: owner of _pmutex, mutex["pop"]: of _cmutex
  pc,         \* where each thread is in push or pop
  idx,        \* the slot index a thread took from its step counter
  in,         \* in[p]: the argument of the push p executes
  out         \* out[c]: what the last pop of c wrote to *out

vars == <<queue, sem, step, mutex, pc, idx, in, out>>

Threads == Producers \cup Consumers
Sides == {"push", "pop"}
Slots == 0 .. Cap - 1
Tasks == Items \cup {Blank}
Labels == {"idle", "lock", "claim", "access", "wrap", "unlock", "post"}

Side(t) == IF t \in Producers THEN "push" ELSE "pop"
Other(s) == IF s = "push" THEN "pop" ELSE "push"

Goto(t, from, to) ==
  /\ pc[t] = from
  /\ pc' = [pc EXCEPT ![t] = to]

TypeOK ==
  /\ queue \in [Slots -> Tasks]
  /\ sem \in [Sides -> 0 .. Cap]
  /\ step \in [Sides -> 0 .. Cap]
  /\ mutex \in [Sides -> Threads \cup {NoThread}]
  /\ pc \in [Threads -> Labels]
  /\ idx \in [Threads -> Slots]
  /\ in \in [Producers -> Tasks]
  /\ out \in [Consumers -> Tasks]
-----------------------------------------------------------------------------
(* The constructor.                                                        *)

InitOneSpaceTooMany ==  \* mutant: sem_init(&_spaceSem, 0, _cap + 1)
  /\ queue = [i \in Slots |-> Blank]
  /\ sem = [s \in Sides |-> IF s = "push" THEN Cap + 1 ELSE 0]
  /\ step = [s \in Sides |-> 0]
  /\ mutex = [s \in Sides |-> NoThread]
  /\ pc = [t \in Threads |-> "idle"]
  /\ idx = [t \in Threads |-> 0]
  /\ in = [p \in Producers |-> Blank]
  /\ out = [c \in Consumers |-> Blank]

Init ==
  /\ queue = [i \in Slots |-> Blank]
  /\ sem = [s \in Sides |-> IF s = "push" THEN Cap ELSE 0]
  /\ step = [s \in Sides |-> 0]
  /\ mutex = [s \in Sides |-> NoThread]
  /\ pc = [t \in Threads |-> "idle"]
  /\ idx = [t \in Threads |-> 0]
  /\ in = [p \in Producers |-> Blank]
  /\ out = [c \in Consumers |-> Blank]
-----------------------------------------------------------------------------
(* The steps of push and pop.                                              *)

(* A producer calls push with a new task, a consumer calls pop, and P on   *)
(* the thread's own semaphore returns.                                     *)
Wait(t) ==
  /\ Goto(t, "idle", "lock")
  /\ sem[Side(t)] > 0
  /\ sem' = [sem EXCEPT ![Side(t)] = @ - 1]
  /\ \/ t \in Producers /\ \E v \in Items : in' = [in EXCEPT ![t] = v]
     \/ t \in Consumers /\ UNCHANGED in
  /\ UNCHANGED <<queue, step, mutex, idx, out>>

Lock(t) ==
  /\ Goto(t, "lock", "claim")
  /\ mutex[Side(t)] = NoThread
  /\ mutex' = [mutex EXCEPT ![Side(t)] = t]
  /\ UNCHANGED <<queue, sem, step, idx, in, out>>

(* The subscript of _queue[...Step++]: the index is taken and the counter  *)
(* moved before the assignment operator of T runs.                         *)
Claim(t) ==
  /\ Goto(t, "claim", "access")
  /\ idx' = [idx EXCEPT ![t] = step[Side(t)]]
  /\ step' = [step EXCEPT ![Side(t)] = @ + 1]
  /\ UNCHANGED <<queue, sem, mutex, in, out>>

Store(p) ==
  /\ Goto(p, "access", "wrap")
  /\ queue' = [queue EXCEPT ![idx[p]] = in[p]]
  /\ UNCHANGED <<sem, step, mutex, idx, in, out>>

Load(c) ==
  /\ Goto(c, "access", "wrap")
  /\ out' = [out EXCEPT ![c] = queue[idx[c]]]
  /\ UNCHANGED <<queue, sem, step, mutex, idx, in>>

WrapForgotten(t) ==  \* mutant: the counter is not reduced modulo _cap
  /\ Goto(t, "wrap", "unlock")
  /\ UNCHANGED <<queue, sem, step, mutex, idx, in, out>>

Wrap(t) ==
  /\ Goto(t, "wrap", "unlock")
  /\ step' = [step EXCEPT ![Side(t)] = @ % Cap]
  /\ UNCHANGED <<queue, sem, mutex, idx, in, out>>

Unlock(t) ==
  /\ Goto(t, "unlock", "post")
  /\ mutex' = [mutex EXCEPT ![Side(t)] = NoThread]
  /\ UNCHANGED <<queue, sem, step, idx, in, out>>

PostOwnSide(t) ==  \* mutant: V on the semaphore P was called on
  /\ Goto(t, "post", "idle")
  /\ sem' = [sem EXCEPT ![Side(t)] = @ + 1]
  /\ UNCHANGED <<queue, step, mutex, idx, in, out>>

Post(t) ==
  /\ Goto(t, "post", "idle")
  /\ sem' = [sem EXCEPT ![Other(Side(t))] = @ + 1]
  /\ UNCHANGED <<queue, step, mutex, idx, in, out>>

Either(t) ==
  \/ Wait(t) \/ Lock(t) \/ Claim(t) \/ Wrap(t) \/ Unlock(t) \/ Post(t)

Next ==
  \/ \E t \in Threads : Either(t)
  \/ \E p \in Producers : Store(p)
  \/ \E c \in Consumers : Load(c)

Spec == Init /\ [][Next]_vars

(* The threads loop for ever and the kernel runs every thread that can     *)
(* run.  Neither sem_wait nor pthread_mutex_lock promises an order among   *)
(* the threads that wait, so no strong fairness is assumed.                *)
FairSpec ==
  /\ Spec
  /\ \A t \in Threads : WF_vars(Either(t))
  /\ \A p \in Producers : WF_vars(Store(p))
  /\ \A c \in Consumers : WF_vars(Load(c))
-----------------------------------------------------------------------------
(* The tokens of the two semaphores and the slots they stand for.          *)

At(T, labels) == {t \in T : pc[t] \in labels}

(* A thread holds the one token it took with P until it posts it.          *)
Before == {"lock", "claim", "access"}
After == {"wrap", "unlock", "post"}

(* The stored items no consumer has loaded yet.                            *)
Size ==
  sem["pop"] + Cardinality(At(Producers, After))
             + Cardinality(At(Consumers, Before))

(* The slot the next access of side s uses: the one being accessed, if     *)
(* any, else the one the step counter names.                               *)
Front(T, s) ==
  IF \E t \in T : pc[t] = "access"
  THEN idx[CHOOSE t \in T : pc[t] = "access"]
  ELSE step[s] % Cap

Contents == [i \in 1 .. Size |-> queue[(Front(Consumers, "pop") + i - 1) % Cap]]

Channel == INSTANCE BoundedChannel WITH
  Receivers <- Consumers, Items <- Tasks, chan <- Contents
-----------------------------------------------------------------------------
(* Tokens are neither lost nor made: the values of the semaphores and the  *)
(* tokens held by threads inside push and pop (RingQueue.hpp:37-56) add up *)
(* to _cap, so the ring never promises more slots than it has.             *)
TokensConserved ==
  sem["push"] + sem["pop"] + Cardinality({t \in Threads : pc[t] # "idle"}) = Cap

(* Two threads of the same side are never both between the subscript and   *)
(* the wrap of the shared step counter (RingQueue.hpp:40-43, 51-54).       *)
SideExclusive ==
  \A t, u \in Threads :
    /\ Side(t) = Side(u)
    /\ pc[t] \in {"claim", "access", "wrap", "unlock"}
    /\ pc[u] \in {"claim", "access", "wrap", "unlock"}
    => t = u

(* push and pop use different mutexes, so a store and a load run at the    *)
(* same time; they never touch the same slot (RingQueue.hpp:41, 52).       *)
SlotExclusive ==
  \A p \in Producers, c \in Consumers :
    pc[p] = "access" /\ pc[c] = "access" => idx[p] # idx[c]

(* The ring is a bounded FIFO channel: a store puts, a load gets, in the   *)
(* order of the slots, and it keeps moving (RingQueue.hpp:37-56).          *)
IsChannel == Channel!FairSpec
-----------------------------------------------------------------------------
(* The inductive invariant behind these properties.                        *)

Critical == {"claim", "access", "wrap", "unlock"}

(* A thread inside the critical section owns the mutex of its side.        *)
MutexInv == \A t \in Threads : pc[t] \in Critical => mutex[Side(t)] = t

(* Only the thread that moved a step counter sees it unwrapped.            *)
StepInv ==
  /\ \A t \in Threads : pc[t] = "access" => step[Side(t)] = idx[t] + 1
  /\ \A s \in Sides :
       (\A t \in Threads : Side(t) = s => pc[t] \notin {"access", "wrap"})
         => step[s] \in Slots

(* Every slot is free or filled, and the semaphores and the threads inside *)
(* push and pop account for each of them.                                  *)
Free ==
  sem["push"] + Cardinality(At(Producers, Before))
              + Cardinality(At(Consumers, After))

SlotsInv == Free + Size = Cap

(* The producers write Size slots ahead of where the consumers read.       *)
RingInv ==
  LET w == Front(Producers, "push")
      r == Front(Consumers, "pop")
  IN  w = r + Size \/ w = r + Size - Cap

IInv == TypeOK /\ MutexInv /\ StepInv /\ SlotsInv /\ RingInv
=============================================================================
