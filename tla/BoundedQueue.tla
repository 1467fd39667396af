--------------------------- MODULE BoundedQueue ---------------------------
(***************************************************************************)
(* What a submission queue promises: a FIFO queue of at most Capacity      *)
(* elements whose successive Puts are numbered 0, 1, 2, ... modulo         *)
(* CounterMod.  RequestRingBuffer is shown to implement it; QueuePair and  *)
(* the modules above it are written over it.                               *)
(***************************************************************************)
EXTENDS Integers, Sequences

CONSTANTS
  Data,        \* what the queue holds
  Capacity,    \* greatest number of elements
  CounterMod,  \* the numbers given to Puts wrap at this value
  NoData       \* the value of out before the first Take

VARIABLES
  q,           \* the elements, oldest first
  tail,        \* the number the next Put is given
  out          \* what the last Take returned

vars == <<q, tail, out>>

Init ==
  /\ q = <<>>
  /\ tail = 0
  /\ out = NoData

\* Put accepts an element only while there is room.
Put(d) ==
  /\ Len(q) < Capacity
  /\ q' = Append(q, d)
  /\ tail' = (tail + 1) % CounterMod
  /\ UNCHANGED out

\* Take removes and returns the oldest element.
Take ==
  /\ q # <<>>
  /\ out' = Head(q)
  /\ q' = Tail(q)
  /\ UNCHANGED tail

Next == (\E d \in Data : Put(d)) \/ Take

Spec == Init /\ [][Next]_vars
=============================================================================
