---------------------------- MODULE BoundedQueue ----------------------------
(***************************************************************************)
(* What the kernel expects of a queue: first in, first out, an element     *)
(* that does not fit is dropped, and taking from an empty queue gives      *)
(* Nothing.                                                                *)
(***************************************************************************)
EXTENDS Integers, Sequences

CONSTANTS Capacity, Elements, Nothing

VARIABLES
  queue,   \* the elements held, the oldest first
  taken    \* what the last Take gave

Put(x) ==
  /\ queue' = IF Len(queue) < Capacity THEN Append(queue, x) ELSE queue
  /\ UNCHANGED taken

Take ==
  \/ queue = <<>> /\ taken' = Nothing /\ UNCHANGED queue
  \/ queue # <<>> /\ taken' = Head(queue) /\ queue' = Tail(queue)

Clear == queue' = <<>> /\ UNCHANGED taken

Init == queue = <<>> /\ taken = Nothing

Next == (\E x \in Elements : Put(x)) \/ Take \/ Clear

Spec == Init /\ [][Next]_<<queue, taken>>
=============================================================================
