------------------------------- MODULE Queues -------------------------------
(***************************************************************************)
(* The q_t of typedef.h as the sequence of the elements it holds, and the  *)
(* loops over queues and tables that the kernel's handlers share.          *)
(***************************************************************************)
EXTENDS Integers, Sequences, FiniteSets, Functions

CONSTANT Q_LEN   \* capacity of a q_t and of a mailbox  (20)

ASSUME QueueAssumption == Q_LEN \in Nat

(* Mutant: the element goes to the head of the queue.                      *)
EnQAtHead(x, q) == IF Len(q) < Q_LEN THEN <<x>> \o q ELSE q

(* EnQ() of toolfunc.c: a full queue drops the element.                    *)
EnQ(x, q) == IF Len(q) < Q_LEN THEN Append(q, x) ELSE q

(* A loop of EnQ() over the elements of s.                                 *)
EnQAll(s, q) ==
  IF Len(q) + Len(s) <= Q_LEN THEN q \o s ELSE SubSeq(q \o s, 1, Q_LEN)

(***************************************************************************)
(* The elements of q that are in S, in the order of q: the one at position *)
(* k has k - 1 selected positions before it.  (SelectSeq by another name,  *)
(* without the recursion in its definition.)                               *)
(***************************************************************************)
Select(q, S) ==
  LET I == {i \in DOMAIN q : q[i] \in S}
  IN  [k \in 1 .. Cardinality(I) |->
         q[CHOOSE i \in I : Cardinality({j \in I : j < i}) = k - 1]]

(* The k smallest elements of a set of integers: a loop that counts to k.  *)
Lowest(k, S) == {i \in S : Cardinality({j \in S : j < i}) < k}
=============================================================================
