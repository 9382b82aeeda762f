------------------------- MODULE QueueArraysProofs --------------------------
(* The arrays of toolfunc.c implement bounded queues, whatever their size.  *)
EXTENDS QueueArrays, TLAPS, SequenceTheorems

-----------------------------------------------------------------------------
(***************************************************************************)
(* q_t.  The tail is always the length, so that nothing is ever stored     *)
(* outside of the array.                                                   *)
(***************************************************************************)
PidInv ==
  /\ q \in [q : [Slots -> Int], tail : 0 .. Q_LEN, len : 0 .. Q_LEN]
  /\ q.tail = q.len

(* What the refinement mapping gives is a sequence as long as the queue.    *)
LEMMA PidSequence ==
  ASSUME PidInv
  PROVE  /\ PidContents \in Seq(Int) /\ Len(PidContents) = q.len
         /\ \A i \in 1 .. q.len : PidContents[i] = q.q[i - 1]
<1>1. q.len \in Nat /\ \A i \in 1 .. q.len : i - 1 \in Slots /\ q.q[i - 1] \in Int
  BY ArrayAssumption DEF PidInv, Slots
<1>2. PidContents \in [1 .. q.len -> Int]
  BY <1>1 DEF PidContents
<1>3. QED
  BY <1>1, <1>2 DEF PidContents

(* EnQ() with room for one more.                                            *)
LEMMA EnQStores ==
  ASSUME PidInv, NEW x \in Pids, EnQ(x), q.len < Q_LEN
  PROVE  PidInv' /\ PidContents' = Append(PidContents, x)
<1> DEFINE n == q.len
<1>0. n \in 0 .. Q_LEN - 1 /\ n \in Slots /\ x \in Int
  BY ArrayAssumption DEF PidInv, Slots
<1>1. /\ q'.q = [q.q EXCEPT ![n] = x] /\ q'.tail = n + 1 /\ q'.len = n + 1
      /\ q' \in [q : [Slots -> Int], tail : 0 .. Q_LEN, len : 0 .. Q_LEN]
  <2>1. q' = [q EXCEPT !.q[q.tail] = x, !.tail = @ + 1, !.len = @ + 1]
    BY DEF EnQ
  <2>2. q.tail = n /\ n + 1 \in 0 .. Q_LEN
    BY <1>0, ArrayAssumption DEF PidInv
  <2>3. QED
    BY <1>0, <2>1, <2>2 DEF PidInv
<1>2. PidInv'
  BY <1>1 DEF PidInv
<1>3. \A i \in 1 .. n + 1 : q'.q[i - 1] = IF i <= n THEN q.q[i - 1] ELSE x
  BY <1>1, ArrayAssumption DEF PidInv, Slots
<1>4. /\ PidContents \in Seq(Int) /\ Len(PidContents) = n
      /\ \A i \in 1 .. n : PidContents[i] = q.q[i - 1]
  BY PidSequence
<1>5. /\ PidContents' \in Seq(Int) /\ Len(PidContents') = n + 1
      /\ \A i \in 1 .. n + 1 : PidContents'[i] = q'.q[i - 1]
  <2>1. n + 1 \in Nat /\ \A i \in 1 .. n + 1 : i - 1 \in Slots /\ q'.q[i - 1] \in Int
    BY <1>1, <1>2, ArrayAssumption DEF PidInv, Slots
  <2>2. PidContents' = [i \in 1 .. n + 1 |-> q'.q[i - 1]]
    BY <1>1 DEF PidContents
  <2>3. QED
    BY <2>1, <2>2
<1>6. /\ Append(PidContents, x) \in Seq(Int)
      /\ Len(Append(PidContents, x)) = n + 1
      /\ \A i \in 1 .. n : Append(PidContents, x)[i] = PidContents[i]
      /\ Append(PidContents, x)[n + 1] = x
  BY <1>0, <1>4, AppendProperties
<1>7. \A i \in 1 .. n + 1 : PidContents'[i] = Append(PidContents, x)[i]
  BY <1>0, <1>3, <1>4, <1>5, <1>6
<1>8. QED
  BY <1>2, <1>5, <1>6, <1>7, SeqEqual

(* DeQ() of a queue that is not empty.                                      *)
LEMMA DeQShifts ==
  ASSUME PidInv, DeQ, q.len > 0
  PROVE  /\ PidInv' /\ PidContents # <<>>
         /\ PidContents' = Tail(PidContents) /\ released' = Head(PidContents)
<1> DEFINE n == q.len
<1>0. /\ n \in 1 .. Q_LEN /\ n - 1 \in 0 .. Q_LEN /\ q.tail = n
      /\ released' = q.q[0]
      /\ q' = [q EXCEPT !.q = Shifted(@, n - 1), !.tail = @ - 1, !.len = @ - 1]
  BY ArrayAssumption DEF DeQ, PidInv
<1>2. \A i \in Slots : Shifted(q.q, n - 1)[i] = IF i < n - 1 THEN q.q[i + 1] ELSE EMPTY
  BY DEF Shifted
<1>3. Shifted(q.q, n - 1) \in [Slots -> Int]
  BY <1>0, ArrayAssumption DEF Shifted, PidInv, Slots, EMPTY
<1>1. /\ n \in 1 .. Q_LEN /\ released' = q.q[0]
      /\ q'.q = Shifted(q.q, n - 1) /\ q'.tail = n - 1 /\ q'.len = n - 1
      /\ q' \in [q : [Slots -> Int], tail : 0 .. Q_LEN, len : 0 .. Q_LEN]
  BY <1>0, <1>3 DEF PidInv
<1>4. PidInv'
  BY <1>1 DEF PidInv
<1>5. /\ PidContents \in Seq(Int) /\ Len(PidContents) = n
      /\ \A i \in 1 .. n : PidContents[i] = q.q[i - 1]
  BY PidSequence
<1>6. PidContents # <<>>
  BY <1>1, <1>5, EmptySeq
<1>7. /\ Tail(PidContents) \in Seq(Int) /\ Len(Tail(PidContents)) = n - 1
      /\ \A i \in 1 .. n - 1 : Tail(PidContents)[i] = PidContents[i + 1]
      /\ Head(PidContents) = PidContents[1]
  BY <1>1, <1>5, <1>6, HeadTailProperties
<1>8. /\ PidContents' \in Seq(Int) /\ Len(PidContents') = n - 1
      /\ \A i \in 1 .. n - 1 : PidContents'[i] = q.q[i]
  <2>1. \A i \in 1 .. n - 1 : i - 1 \in Slots /\ q'.q[i - 1] = q.q[i] /\ q.q[i] \in Int
    <3>1. q.q \in [Slots -> Int]
      BY DEF PidInv
    <3>2. ASSUME NEW i \in 1 .. n - 1
          PROVE  i - 1 \in Slots /\ i \in Slots /\ i - 1 < n - 1 /\ i - 1 + 1 = i
      BY <1>0, <3>2, ArrayAssumption DEF Slots
    <3>3. ASSUME NEW i \in 1 .. n - 1
          PROVE  Shifted(q.q, n - 1)[i - 1] = q.q[i]
      BY <1>2, <3>2
    <3>4. QED
      BY <1>1, <3>1, <3>2, <3>3
  <2>2. PidContents' = [i \in 1 .. n - 1 |-> q'.q[i - 1]]
    BY <1>1 DEF PidContents
  <2>3. n - 1 \in Nat
    BY <1>1
  <2>4. QED
    BY <2>1, <2>2, <2>3
<1>9. ASSUME NEW i \in 1 .. n - 1
      PROVE  PidContents'[i] = Tail(PidContents)[i]
  <2>1. i + 1 \in 1 .. n /\ i + 1 - 1 = i
    BY <1>1
  <2>2. Tail(PidContents)[i] = PidContents[i + 1] /\ PidContents'[i] = q.q[i]
    BY <1>7, <1>8
  <2>3. PidContents[i + 1] = q.q[i]
    BY <1>5, <2>1
  <2>4. QED
    BY <2>2, <2>3
<1>10. released' = Head(PidContents)
  BY <1>1, <1>5, <1>7
<1>11. PidContents' = Tail(PidContents)
  BY <1>7, <1>8, <1>9, SeqEqual
<1>12. QED
  BY <1>4, <1>6, <1>10, <1>11

(* A queue of zeros is empty.                                               *)
LEMMA ZeroIsEmpty ==
  /\ q = ZeroQ => PidInv /\ PidContents = <<>>
  /\ q' = ZeroQ => PidInv' /\ PidContents' = <<>>
BY ArrayAssumption DEF ZeroQ, PidInv, PidContents, Slots

LEMMA PidStep ==
  ASSUME PidInv, [Next]_vars
  PROVE  PidInv' /\ [PidQueue!Next]_<<PidContents, released>>
<1>0. /\ PidContents \in Seq(Int) /\ Len(PidContents) = q.len
  BY PidSequence
<1>1. ASSUME NEW x \in Pids, EnQ(x)
      PROVE  PidInv' /\ PidQueue!Put(x)
  <2>1. CASE q.len < Q_LEN
    BY <1>0, <1>1, <2>1, EnQStores DEF EnQ, PidQueue!Put
  <2>2. CASE ~(q.len < Q_LEN)
    BY <1>0, <1>1, <2>2 DEF EnQ, PidQueue!Put, PidInv, PidContents
  <2>3. QED
    BY <2>1, <2>2
<1>2. CASE DeQ
  <2>1. CASE q.len > 0
    <3>1. PidInv' /\ PidQueue!Take
      BY <1>2, <2>1, DeQShifts DEF PidQueue!Take
    <3>2. QED
      BY <3>1 DEF PidQueue!Next
  <2>2. CASE ~(q.len > 0)
    <3>1. PidContents = <<>> /\ q' = q /\ released' = EMPTY
      BY <1>0, <1>2, <2>2, EmptySeq DEF DeQ, PidInv
    <3>2. PidContents' = PidContents /\ PidInv'
      BY <3>1 DEF PidContents, PidInv
    <3>3. PidQueue!Take
      BY <3>1, <3>2 DEF PidQueue!Take
    <3>4. QED
      BY <3>2, <3>3 DEF PidQueue!Next
  <2>3. QED
    BY <2>1, <2>2
<1>3. CASE BzeroQ
  BY <1>3, ZeroIsEmpty DEF BzeroQ, PidQueue!Clear, PidQueue!Next
<1>4. CASE \/ \E m \in Msgs : MsgEnQ(m)
           \/ MsgDeQ \/ BzeroMsgQ \/ UNCHANGED vars
  <2>1. q' = q /\ released' = released
    BY <1>4 DEF MsgEnQ, MsgDeQ, BzeroMsgQ, vars
  <2>2. QED
    BY <2>1 DEF PidInv, PidContents
<1>5. QED
  BY <1>1, <1>2, <1>3, <1>4 DEF Next, PidQueue!Next

(***************************************************************************)
(* q_t with EnQ(), DeQ() and MyBzero() is a bounded queue.                 *)
(***************************************************************************)
THEOREM PidQueueCorrect == Spec => PidQueueImplements
<1>1. Init => PidInv /\ PidQueue!Init
  BY ZeroIsEmpty DEF Init, PidQueue!Init
<1>2. PidInv /\ [Next]_vars => PidInv' /\ [PidQueue!Next]_<<PidContents, released>>
  BY PidStep
<1>3. QED
  BY <1>1, <1>2, PTL DEF Spec, PidQueueImplements, PidQueue!Spec

-----------------------------------------------------------------------------
(***************************************************************************)
(* msg_q_t.  The messages are in the len slots from head on, round the end *)
(* of the array, and tail is the slot behind them.                         *)
(***************************************************************************)
Wrapped(i) == IF i < Q_LEN THEN i ELSE i - Q_LEN

Ring == [msg : [Slots -> Msgs \cup {Blank}],
         head : Slots, tail : Slots, len : 0 .. Q_LEN]

MsgInv == msg_q \in Ring /\ msg_q.tail = Wrapped(msg_q.head + msg_q.len)

(* Going on around the ring.                                                *)
LEMMA WrapFacts ==
  /\ \A h \in Slots : \A k \in 0 .. Q_LEN : Wrapped(h + k) \in Slots
  /\ \A h \in Slots : After(h) \in Slots
  /\ \A h \in Slots : \A k \in 0 .. Q_LEN - 1 :
       /\ After(Wrapped(h + k)) = Wrapped(h + (k + 1))
       /\ Wrapped(After(h) + k) = Wrapped(h + (k + 1))
  /\ \A h \in Slots : \A j, k \in 0 .. Q_LEN - 1 :
       Wrapped(h + j) = Wrapped(h + k) => j = k
BY ArrayAssumption DEF Wrapped, After, Slots

(* What the refinement mapping gives is a sequence as long as the queue.    *)
LEMMA MsgSequence ==
  ASSUME NEW r \in Ring
  PROVE  /\ MsgContents(r) \in Seq(Msgs \cup {Blank})
         /\ Len(MsgContents(r)) = r.len
         /\ \A i \in 1 .. r.len : MsgContents(r)[i] = r.msg[Wrapped(r.head + (i - 1))]
<1>1. /\ r.len \in 0 .. Q_LEN /\ r.len \in Nat /\ r.head \in Slots
      /\ r.msg \in [Slots -> Msgs \cup {Blank}]
  BY ArrayAssumption DEF Ring
<1>2. ASSUME NEW i \in 1 .. r.len
      PROVE  Wrapped(r.head + (i - 1)) \in Slots
  <2>1. i - 1 \in 0 .. Q_LEN
    BY <1>1, ArrayAssumption
  <2>2. QED
    BY <1>1, <2>1, WrapFacts
<1>3. MsgContents(r) = [i \in 1 .. r.len |-> r.msg[Wrapped(r.head + (i - 1))]]
  BY DEF MsgContents, Wrapped
<1>4. MsgContents(r) \in [1 .. r.len -> Msgs \cup {Blank}]
  BY <1>1, <1>2, <1>3
<1>5. MsgContents(r) \in Seq(Msgs \cup {Blank}) /\ Len(MsgContents(r)) = r.len
  BY <1>1, <1>4
<1>6. \A i \in 1 .. r.len : MsgContents(r)[i] = r.msg[Wrapped(r.head + (i - 1))]
  BY <1>3
<1>7. QED
  BY <1>5, <1>6

(* MsgEnQ() with room for one more.                                         *)
LEMMA MsgEnQStores ==
  ASSUME MsgInv, NEW m \in Msgs, MsgEnQ(m), msg_q.len < Q_LEN
  PROVE  MsgInv' /\ MsgContents(msg_q') = Append(MsgContents(msg_q), m)
<1> DEFINE n == msg_q.len
           h == msg_q.head
           t == msg_q.tail
           T == Msgs \cup {Blank}
<1>1. /\ n \in 0 .. Q_LEN - 1 /\ n \in 0 .. Q_LEN /\ n + 1 \in 0 .. Q_LEN
      /\ h \in Slots /\ t \in Slots /\ t = Wrapped(h + n) /\ m \in T
  BY ArrayAssumption DEF MsgInv, Ring
<1>2. /\ msg_q'.msg = [msg_q.msg EXCEPT ![t] = m] /\ msg_q'.head = h
      /\ msg_q'.tail = After(t) /\ msg_q'.len = n + 1
      /\ msg_q' \in Ring
  <2>1. msg_q' = [msg_q EXCEPT !.msg[t] = m, !.tail = After(@), !.len = @ + 1]
    BY <1>1, ArrayAssumption DEF MsgEnQ
  <2>2. After(t) \in Slots
    BY <1>1, WrapFacts
  <2>3. QED
    BY <1>1, <2>1, <2>2 DEF MsgInv, Ring
<1>3. MsgInv'
  <2>1. After(t) = Wrapped(h + (n + 1))
    BY <1>1, WrapFacts
  <2>2. QED
    BY <1>2, <2>1 DEF MsgInv, Wrapped
<1>4. /\ MsgContents(msg_q) \in Seq(T) /\ Len(MsgContents(msg_q)) = n
      /\ \A i \in 1 .. n : MsgContents(msg_q)[i] = msg_q.msg[Wrapped(h + (i - 1))]
  BY MsgSequence DEF MsgInv
<1>5. /\ MsgContents(msg_q') \in Seq(T) /\ Len(MsgContents(msg_q')) = n + 1
      /\ \A i \in 1 .. n + 1 : MsgContents(msg_q')[i] = msg_q'.msg[Wrapped(h + (i - 1))]
  BY <1>2, MsgSequence
<1>6. /\ Append(MsgContents(msg_q), m) \in Seq(T)
      /\ Len(Append(MsgContents(msg_q), m)) = n + 1
      /\ \A i \in 1 .. n : Append(MsgContents(msg_q), m)[i] = MsgContents(msg_q)[i]
      /\ Append(MsgContents(msg_q), m)[n + 1] = m
  BY <1>1, <1>4, AppendProperties
<1>7. ASSUME NEW i \in 1 .. n + 1
      PROVE  MsgContents(msg_q')[i] = Append(MsgContents(msg_q), m)[i]
  <2>1. MsgContents(msg_q')[i] = [msg_q.msg EXCEPT ![t] = m][Wrapped(h + (i - 1))]
    BY <1>2, <1>5
  <2>2. /\ i - 1 \in 0 .. Q_LEN - 1 /\ i - 1 \in 0 .. Q_LEN
        /\ i \in 1 .. n \/ i = n + 1
    BY <1>1, ArrayAssumption
  <2>3. CASE i = n + 1
    <3>1. i - 1 = n
      BY <1>1, <2>3
    <3>2. QED
      BY <1>1, <1>6, <2>1, <2>3, <3>1 DEF MsgInv, Ring
  <2>4. CASE i \in 1 .. n
    <3>1. i - 1 # n
      BY <1>1, <2>4
    <3>2. Wrapped(h + (i - 1)) # t /\ Wrapped(h + (i - 1)) \in Slots
      BY <1>1, <2>2, <3>1, WrapFacts
    <3>3. QED
      BY <1>4, <1>6, <2>1, <2>4, <3>2 DEF MsgInv, Ring
  <2>5. QED
    BY <2>2, <2>3, <2>4
<1>8. MsgContents(msg_q') = Append(MsgContents(msg_q), m)
  BY <1>5, <1>6, <1>7, SeqEqual
<1>9. QED
  BY <1>3, <1>8

(* MsgDeQ() of a queue that is not empty.                                   *)
LEMMA MsgDeQTakes ==
  ASSUME MsgInv, MsgDeQ, msg_q.len > 0
  PROVE  /\ MsgInv' /\ MsgContents(msg_q) # <<>>
         /\ MsgContents(msg_q') = Tail(MsgContents(msg_q)) /\ received' = Head(MsgContents(msg_q))
<1> DEFINE n == msg_q.len
           h == msg_q.head
           T == Msgs \cup {Blank}
<1>1. /\ n \in 1 .. Q_LEN /\ n - 1 \in 0 .. Q_LEN - 1 /\ n - 1 \in 0 .. Q_LEN
      /\ n - 1 \in Nat
      /\ h \in Slots /\ msg_q.tail \in Slots /\ msg_q.tail = Wrapped(h + n)
  BY ArrayAssumption DEF MsgInv, Ring
<1>2. /\ msg_q'.msg = msg_q.msg /\ msg_q'.head = After(h)
      /\ msg_q'.tail = msg_q.tail /\ msg_q'.len = n - 1
      /\ received' = msg_q.msg[h]
      /\ msg_q' \in Ring
  <2>1. /\ msg_q' = [msg_q EXCEPT !.head = After(@), !.len = @ - 1]
        /\ received' = msg_q.msg[h]
    BY <1>1, ArrayAssumption DEF MsgDeQ
  <2>2. After(h) \in Slots
    BY <1>1, WrapFacts
  <2>3. QED
    BY <1>1, <2>1, <2>2 DEF MsgInv, Ring
<1>3. MsgInv'
  <2>1. Wrapped(After(h) + (n - 1)) = Wrapped(h + ((n - 1) + 1)) /\ (n - 1) + 1 = n
    BY <1>1, WrapFacts
  <2>2. QED
    BY <1>1, <1>2, <2>1 DEF MsgInv, Wrapped
<1>4. /\ MsgContents(msg_q) \in Seq(T) /\ Len(MsgContents(msg_q)) = n
      /\ \A i \in 1 .. n : MsgContents(msg_q)[i] = msg_q.msg[Wrapped(h + (i - 1))]
  BY MsgSequence DEF MsgInv
<1>5. MsgContents(msg_q) # <<>>
  BY <1>1, <1>4, EmptySeq
<1>6. /\ Tail(MsgContents(msg_q)) \in Seq(T) /\ Len(Tail(MsgContents(msg_q))) = n - 1
      /\ \A i \in 1 .. n - 1 : Tail(MsgContents(msg_q))[i] = MsgContents(msg_q)[i + 1]
      /\ Head(MsgContents(msg_q)) = MsgContents(msg_q)[1]
  BY <1>1, <1>4, <1>5, HeadTailProperties
<1>7. /\ MsgContents(msg_q') \in Seq(T) /\ Len(MsgContents(msg_q')) = n - 1
      /\ \A i \in 1 .. n - 1 :
           MsgContents(msg_q')[i] = msg_q.msg[Wrapped(After(h) + (i - 1))]
  BY <1>2, MsgSequence
<1>8. ASSUME NEW i \in 1 .. n - 1
      PROVE  MsgContents(msg_q')[i] = Tail(MsgContents(msg_q))[i]
  <2>1. i - 1 \in 0 .. Q_LEN - 1 /\ (i - 1) + 1 = (i + 1) - 1 /\ i + 1 \in 1 .. n
    BY <1>1, ArrayAssumption
  <2>2. Wrapped(After(h) + (i - 1)) = Wrapped(h + ((i + 1) - 1))
    BY <1>1, <2>1, WrapFacts
  <2>3. QED
    BY <1>4, <1>6, <1>7, <2>1, <2>2
<1>9. MsgContents(msg_q') = Tail(MsgContents(msg_q))
  BY <1>6, <1>7, <1>8, SeqEqual
<1>10. received' = Head(MsgContents(msg_q))
  <2>1. 1 - 1 = 0 /\ 1 \in 1 .. n /\ Wrapped(h + 0) = h
    BY <1>1, ArrayAssumption DEF Wrapped, Slots
  <2>2. QED
    BY <1>2, <1>4, <1>6, <2>1
<1>11. QED
  BY <1>3, <1>5, <1>9, <1>10

(* A ring of blanks is empty.                                               *)
LEMMA ZeroMsgIsEmpty ==
  /\ msg_q = ZeroMsgQ => MsgInv /\ MsgContents(msg_q) = <<>>
  /\ msg_q' = ZeroMsgQ => MsgInv' /\ MsgContents(msg_q') = <<>>
BY ArrayAssumption DEF ZeroMsgQ, MsgInv, Ring, MsgContents, Slots, Wrapped

LEMMA MsgStep ==
  ASSUME MsgInv, [Next]_vars
  PROVE  MsgInv' /\ [MsgQueue!Next]_<<MsgContents(msg_q), received>>
<1>0. MsgContents(msg_q) \in Seq(Msgs \cup {Blank}) /\ Len(MsgContents(msg_q)) = msg_q.len
  BY MsgSequence DEF MsgInv
<1>same. (msg_q' = msg_q => MsgInv' /\ MsgContents(msg_q') = MsgContents(msg_q))
  BY DEF MsgInv, MsgContents, Wrapped
<1>1. ASSUME NEW m \in Msgs, MsgEnQ(m)
      PROVE  MsgInv' /\ MsgQueue!Put(m)
  <2>1. CASE msg_q.len < Q_LEN
    BY <1>0, <1>1, <2>1, MsgEnQStores DEF MsgEnQ, MsgQueue!Put
  <2>2. CASE ~(msg_q.len < Q_LEN)
    <3>1. msg_q' = msg_q /\ received' = received
      BY <1>1, <2>2, ArrayAssumption DEF MsgEnQ, MsgInv, Ring
    <3>2. QED
      BY <1>0, <1>same, <2>2, <3>1 DEF MsgQueue!Put
  <2>3. QED
    BY <2>1, <2>2
<1>2. ASSUME MsgDeQ
      PROVE  MsgInv' /\ MsgQueue!Take
  <2>1. CASE msg_q.len > 0
    BY <1>2, <2>1, MsgDeQTakes DEF MsgQueue!Take
  <2>2. CASE ~(msg_q.len > 0)
    <3>1. MsgContents(msg_q) = <<>> /\ msg_q' = msg_q /\ received' = NULL
      BY <1>0, <1>2, <2>2, EmptySeq DEF MsgDeQ, MsgInv
    <3>2. QED
      BY <1>same, <3>1 DEF MsgQueue!Take
  <2>3. QED
    BY <2>1, <2>2
<1>3. CASE BzeroMsgQ
  BY <1>3, ZeroMsgIsEmpty DEF BzeroMsgQ, MsgQueue!Clear, MsgQueue!Next
<1>4. CASE \/ \E x \in Pids : EnQ(x)
           \/ DeQ \/ BzeroQ \/ UNCHANGED vars
  <2>1. msg_q' = msg_q /\ received' = received
    BY <1>4 DEF EnQ, DeQ, BzeroQ, vars
  <2>2. QED
    BY <1>same, <2>1
<1>5. QED
  BY <1>1, <1>2, <1>3, <1>4 DEF Next, MsgQueue!Next

(***************************************************************************)
(* msg_q_t with MsgEnQ(), MsgDeQ() and MyBzero() is a bounded queue.       *)
(***************************************************************************)
THEOREM MsgQueueCorrect == Spec => MsgQueueImplements
<1>1. Init => MsgInv /\ MsgQueue!Init
  BY ZeroMsgIsEmpty DEF Init, MsgQueue!Init
<1>2. MsgInv /\ [Next]_vars => MsgInv' /\ [MsgQueue!Next]_<<MsgContents(msg_q), received>>
  BY MsgStep
<1>3. QED
  BY <1>1, <1>2, PTL DEF Spec, MsgQueueImplements, MsgQueue!Spec
=============================================================================
