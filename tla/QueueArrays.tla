---------------------------- MODULE QueueArrays -----------------------------
(***************************************************************************)
(* The two queues of toolfunc.c in the arrays that hold them: q_t, whose   *)
(* DeQ() moves every element one place down, and msg_q_t, a ring.  Kernel  *)
(* treats both as sequences; here each is shown to implement BoundedQueue. *)
(* The handlers of the kernel call these functions with interrupts off, so *)
(* a call is one step.  (Module Terminal takes apart the calls that        *)
(* processes make on the q_t's of the terminal.)                           *)
(***************************************************************************)
EXTENDS Integers, Sequences

CONSTANTS
  Q_LEN,   \* capacity of both queues          (20)
  Pids,    \* what a q_t holds
  Msgs,    \* what a msg_q_t holds
  NULL,    \* what MsgDeQ() returns when there is nothing
  Blank    \* a msg_t of zeros

ASSUME ArrayAssumption ==
  /\ Q_LEN \in Nat \ {0}
  /\ Pids \subseteq Nat

EMPTY == -1   \* what DeQ() returns when there is nothing

Slots == 0 .. Q_LEN - 1

VARIABLES
  q,         \* a q_t
  msg_q,     \* a msg_q_t, without its wait_q
  released,  \* the result of the last DeQ()
  received   \* what the pointer MsgDeQ() returned last points to

vars == <<q, msg_q, released, received>>

-----------------------------------------------------------------------------
(***************************************************************************)
(* q_t: the elements are in q[0 .. len - 1] and tail is always len.        *)
(***************************************************************************)
EnQ(x) ==
  /\ q' = IF q.len < Q_LEN
          THEN [q EXCEPT !.q[q.tail] = x, !.tail = @ + 1, !.len = @ + 1]
          ELSE q
  /\ UNCHANGED <<msg_q, released, received>>

(* Mutant: the second loop starts one place too early.                     *)
ShiftedShort(a, len) ==
  [i \in Slots |-> IF i < len - 1 THEN a[i + 1] ELSE EMPTY]

(* The two loops of DeQ(), for the new length.                             *)
Shifted(a, len) == [i \in Slots |-> IF i < len THEN a[i + 1] ELSE EMPTY]

DeQ ==
  /\ \/ /\ q.len = 0
        /\ released' = EMPTY
        /\ UNCHANGED q
     \/ /\ q.len > 0
        /\ released' = q.q[0]
        /\ q' = [q EXCEPT !.q = Shifted(@, q.len - 1),
                          !.tail = @ - 1, !.len = @ - 1]
  /\ UNCHANGED <<msg_q, received>>

-----------------------------------------------------------------------------
(***************************************************************************)
(* msg_q_t: head and tail go round the ring.                               *)
(***************************************************************************)
(* Mutant: the index wraps one place too late.                             *)
AfterLate(i) == IF i + 1 > Q_LEN THEN 0 ELSE i + 1

After(i) == IF i + 1 >= Q_LEN THEN 0 ELSE i + 1

MsgEnQ(m) ==
  /\ msg_q' = IF msg_q.len >= Q_LEN THEN msg_q
              ELSE [msg_q EXCEPT !.msg[msg_q.tail] = m,
                                 !.tail = After(@), !.len = @ + 1]
  /\ UNCHANGED <<q, released, received>>

MsgDeQ ==
  /\ \/ /\ msg_q.len <= 0
        /\ received' = NULL
        /\ UNCHANGED msg_q
     \/ /\ msg_q.len > 0
        /\ received' = msg_q.msg[msg_q.head]
        /\ msg_q' = [msg_q EXCEPT !.head = After(@), !.len = @ - 1]
  /\ UNCHANGED <<q, released>>

-----------------------------------------------------------------------------
(***************************************************************************)
(* MyBzero() of a queue, or of the sem_t around it: at start-up, and again *)
(* whenever a semaphore or a PID is given away.                            *)
(***************************************************************************)
ZeroQ    == [q |-> [i \in Slots |-> 0], tail |-> 0, len |-> 0]
ZeroMsgQ == [msg |-> [i \in Slots |-> Blank], head |-> 0, tail |-> 0, len |-> 0]

BzeroQ    == q' = ZeroQ /\ UNCHANGED <<msg_q, released, received>>
BzeroMsgQ == msg_q' = ZeroMsgQ /\ UNCHANGED <<q, released, received>>

Init == q = ZeroQ /\ msg_q = ZeroMsgQ /\ released = EMPTY /\ received = NULL

Next ==
  \/ \E x \in Pids : EnQ(x)
  \/ DeQ
  \/ \E m \in Msgs : MsgEnQ(m)
  \/ MsgDeQ
  \/ BzeroQ
  \/ BzeroMsgQ

Spec == Init /\ [][Next]_vars

-----------------------------------------------------------------------------
PidContents == [i \in 1 .. q.len |-> q.q[i - 1]]

MsgContents(ring) ==
  [i \in 1 .. ring.len |->
     LET slot == ring.head + (i - 1)
     IN  ring.msg[IF slot < Q_LEN THEN slot ELSE slot - Q_LEN]]

PidQueue == INSTANCE BoundedQueue WITH
  Capacity <- Q_LEN, Elements <- Pids, Nothing <- EMPTY,
  queue <- PidContents, taken <- released

MsgQueue == INSTANCE BoundedQueue WITH
  Capacity <- Q_LEN, Elements <- Msgs, Nothing <- NULL,
  queue <- MsgContents(msg_q), taken <- received

(***************************************************************************)
(* PidQueueImplements: q_t is a bounded queue.  However calls of EnQ(),    *)
(* DeQ() and MyBzero() follow each other, what is taken is the oldest PID  *)
(* put and not taken, though every DeQ() moves all the others.             *)
(***************************************************************************)
PidQueueImplements == PidQueue!Spec

(***************************************************************************)
(* MsgQueueImplements: msg_q_t is one too, though messages stay where they *)
(* were put and its two indices wrap around, over slots that still hold    *)
(* messages taken before.                                                  *)
(***************************************************************************)
MsgQueueImplements == MsgQueue!Spec
=============================================================================
