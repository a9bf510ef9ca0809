---------------------------- MODULE BoundedFIFO -----------------------------
(***************************************************************************)
(* What a queue with one producer and one consumer promises: a bounded     *)
(* first-in first-out channel.  `inside` are the items put and not yet     *)
(* got, oldest first, and `out` everything got so far.                     *)
(***************************************************************************)
EXTENDS Naturals, Sequences

CONSTANTS Item, Capacity

VARIABLES inside, out

FifoInit == inside = << >> /\ out = << >>

Put(item) ==
  /\ Len(inside) < Capacity
  /\ inside' = Append(inside, item)
  /\ UNCHANGED out

Get ==
  /\ inside # << >>
  /\ out' = Append(out, Head(inside))
  /\ inside' = Tail(inside)

FifoNext == (\E item \in Item : Put(item)) \/ Get

FifoSpec == FifoInit /\ [][FifoNext]_<<inside, out>>

=============================================================================
