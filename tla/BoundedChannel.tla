--------------------------- MODULE BoundedChannel ---------------------------
(***************************************************************************)
(* What the queues of the repository promise to the threads that share     *)
(* them: a bounded first-in first-out channel.  A Put is one step, a Get   *)
(* is one step, no item is lost, duplicated or overtaken, and nobody puts  *)
(* into a full channel or gets from an empty one.  The queues built from   *)
(* semaphores and from condition variables are shown to implement it.      *)
(***************************************************************************)
EXTENDS Naturals, Sequences

CONSTANTS
  Receivers,  \* the threads that take items out
  Items,      \* what may be put in
  Cap         \* how many items the channel holds

VARIABLES
  chan,       \* the items in the channel, the oldest first
  out         \* out[r]: the item receiver r took last

vars == <<chan, out>>

Init ==
  /\ chan = <<>>
  /\ out \in [Receivers -> Items]

Put(v) ==
  /\ Len(chan) < Cap
  /\ chan' = Append(chan, v)
  /\ UNCHANGED out

Get(r) ==
  /\ chan # <<>>
  /\ out' = [out EXCEPT ![r] = Head(chan)]
  /\ chan' = Tail(chan)

AnyPut == \E v \in Items : Put(v)

AnyGet == \E r \in Receivers : Get(r)

Next == AnyPut \/ AnyGet

Spec == Init /\ [][Next]_vars

(* The channel keeps moving: while there is room somebody puts, while there*)
(* is an item somebody gets.  Nothing is said of a particular thread.      *)
FairSpec == Spec /\ WF_vars(AnyPut) /\ WF_vars(AnyGet)

=============================================================================
