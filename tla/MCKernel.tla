------------------------------ MODULE MCKernel ------------------------------
(* Instances of Kernel for TLC: the .cfg files choose the sizes and calls.  *)
EXTENDS Kernel

(* Select() agrees with the SelectSeq() it stands for, on all short queues. *)
ASSUME SelectIsSelectSeq ==
  \A n \in 0 .. 4 : \A q \in [1 .. n -> 0 .. 3] : \A S \in SUBSET (0 .. 3) :
    LET In(x) == x \in S IN Select(q, S) = SelectSeq(q, In)
=============================================================================
