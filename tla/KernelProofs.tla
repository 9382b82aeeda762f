---------------------------- MODULE KernelProofs ----------------------------
(***************************************************************************)
(* The types of the kernel's variables (TypeOK) and its wakeups            *)
(* (NoLostWakeup), for every size of its tables and every clock.           *)
(***************************************************************************)
EXTENDS Kernel, TLAPS, FiniteSetTheorems, SequenceTheorems

-----------------------------------------------------------------------------
(***************************************************************************)
(* The operators of Queues, for every queue and every Q_LEN.               *)
(***************************************************************************)
(* EnQ() keeps the type of a queue, room or not.                            *)
LEMMA EnQType ==
  ASSUME NEW T, NEW q \in Seq(T), NEW x \in T
  PROVE  EnQ(x, q) \in Seq(T)
BY DEF EnQ

(* With room, EnQ() adds its element and nothing else; an element that was  *)
(* not in the queue is then in it once.                                     *)
LEMMA EnQAdds ==
  ASSUME NEW T, NEW q \in Seq(T), NEW x \in T, Len(q) < Q_LEN
  PROVE  /\ Range(EnQ(x, q)) = Range(q) \cup {x}
         /\ IsInjective(q) /\ x \notin Range(q) => IsInjective(EnQ(x, q))
<1>1. EnQ(x, q) = Append(q, x)
  BY DEF EnQ
<1>2. /\ Len(Append(q, x)) = Len(q) + 1
      /\ \A i \in 1 .. Len(q) : Append(q, x)[i] = q[i]
      /\ Append(q, x)[Len(q) + 1] = x
      /\ DOMAIN Append(q, x) = 1 .. Len(q) + 1
      /\ DOMAIN q = 1 .. Len(q) /\ Len(q) \in Nat
  BY AppendProperties, LenProperties
<1>3. Range(Append(q, x)) = Range(q) \cup {x}
  BY <1>2 DEF Range
<1>4. ASSUME IsInjective(q), x \notin Range(q)
      PROVE  IsInjective(Append(q, x))
  BY <1>2, <1>4 DEF Range, IsInjective
<1>5. QED
  BY <1>1, <1>3, <1>4

(* A queue is its head and its tail; without repetitions the head is gone   *)
(* from the tail.                                                           *)
LEMMA TailRemoves ==
  ASSUME NEW T, NEW q \in Seq(T), q # <<>>
  PROVE  /\ Head(q) \in T /\ Tail(q) \in Seq(T)
         /\ Head(q) \in Range(q)
         /\ Range(q) = {Head(q)} \cup Range(Tail(q))
         /\ IsInjective(q) => /\ IsInjective(Tail(q))
                              /\ Range(Tail(q)) = Range(q) \ {Head(q)}
<1>1. /\ Head(q) \in T /\ Tail(q) \in Seq(T)
      /\ Len(Tail(q)) = Len(q) - 1 /\ Len(q) \in Nat \ {0}
      /\ \A i \in 1 .. Len(Tail(q)) : Tail(q)[i] = q[i + 1]
      /\ Head(q) = q[1]
      /\ DOMAIN q = 1 .. Len(q) /\ DOMAIN Tail(q) = 1 .. Len(q) - 1
  BY HeadTailProperties, LenProperties, EmptySeq
<1>2. Head(q) \in Range(q)
  BY <1>1 DEF Range
<1>3. Range(q) = {Head(q)} \cup Range(Tail(q))
  <2>1. ASSUME NEW i \in 1 .. Len(q)
        PROVE  q[i] \in {Head(q)} \cup Range(Tail(q))
    <3>1. CASE i = 1
      BY <1>1, <3>1
    <3>2. CASE i # 1
      <4>1. i - 1 \in DOMAIN Tail(q) /\ Tail(q)[i - 1] = q[i]
        BY <1>1, <3>2
      <4>2. QED
        BY <4>1 DEF Range
    <3>3. QED
      BY <3>1, <3>2
  <2>2. Range(Tail(q)) \subseteq Range(q)
    BY <1>1 DEF Range
  <2>3. QED
    BY <1>1, <1>2, <2>1, <2>2 DEF Range
<1>4. ASSUME IsInjective(q)
      PROVE  /\ IsInjective(Tail(q))
             /\ Range(Tail(q)) = Range(q) \ {Head(q)}
  <2>1. IsInjective(Tail(q))
    BY <1>1, <1>4 DEF IsInjective
  <2>2. \A i \in 1 .. Len(q) - 1 : Tail(q)[i] # Head(q)
    BY <1>1, <1>4 DEF IsInjective
  <2>3. Head(q) \notin Range(Tail(q))
    BY <1>1, <2>2 DEF Range
  <2>4. QED
    BY <1>3, <2>1, <2>3
<1>5. QED
  BY <1>1, <1>2, <1>3, <1>4

(* A queue without repetitions is as long as the set of its elements.       *)
LEMMA LenIsCardinality ==
  ASSUME NEW T, IsFiniteSet(T), NEW q \in Seq(T), IsInjective(q)
  PROVE  /\ IsFiniteSet(Range(q)) /\ Len(q) = Cardinality(Range(q))
         /\ Len(q) <= Cardinality(T)
<1>1. DOMAIN q = 1 .. Len(q) /\ Len(q) \in Nat /\ q \in [1 .. Len(q) -> Range(q)]
  BY LenProperties DEF Range
<1>2. q \in Surjection(1 .. Len(q), Range(q)) /\ q \in Injection(1 .. Len(q), Range(q))
  BY <1>1 DEF Range, Surjection, Injection
<1>3. IsFiniteSet(1 .. Len(q)) /\ Cardinality(1 .. Len(q)) = Len(q)
  BY <1>1, FS_Interval
<1>4. IsFiniteSet(Range(q)) /\ Cardinality(Range(q)) = Len(q)
  BY <1>2, <1>3, FS_Surjection
<1>5. Range(q) \in SUBSET T
  BY RangeOfSeq
<1>6. QED
  BY <1>4, <1>5, FS_Subset

(* Every rank below the size of a finite set of integers is the rank of     *)
(* exactly one of its elements.                                             *)
LEMMA RankBijective ==
  ASSUME NEW I \in SUBSET Int, IsFiniteSet(I)
  PROVE  LET Rank(i) == Cardinality({j \in I : j < i})
         IN  /\ Cardinality(I) \in Nat
             /\ \A i \in I : Rank(i) \in 0 .. Cardinality(I) - 1
             /\ \A i, j \in I : i < j => Rank(i) < Rank(j)
             /\ \A k \in 0 .. Cardinality(I) - 1 : \E i \in I : Rank(i) = k
<1> DEFINE Below(i) == {j \in I : j < i}
           Rank(i) == Cardinality(Below(i))
           n == Cardinality(I)
           f == [i \in I |-> Rank(i)]
<1>1. n \in Nat
  BY FS_CardinalityType
<1>2. \A i \in I : IsFiniteSet(Below(i)) /\ Rank(i) \in Nat
  BY FS_Subset, FS_CardinalityType
<1>3. ASSUME NEW i \in I
      PROVE  Rank(i) \in 0 .. n - 1
  <2>1. Below(i) \in SUBSET I /\ Below(i) # I
    OBVIOUS
  <2>2. Rank(i) <= n /\ Rank(i) # n
    BY <2>1, FS_Subset
  <2>3. QED
    BY <1>1, <1>2, <2>2
<1>4. ASSUME NEW i \in I, NEW j \in I, i < j
      PROVE  Rank(i) < Rank(j)
  <2>1. Below(i) \in SUBSET Below(j) /\ i \in Below(j) /\ i \notin Below(i)
    <3>1. i \in Int /\ j \in Int /\ \A m \in I : m \in Int
      OBVIOUS
    <3>2. \A m \in I : m < i => m < j
      BY <1>4, <3>1
    <3>3. Below(i) \in SUBSET Below(j)
      BY <3>2
    <3>4. i \in Below(j) /\ ~(i < i)
      BY <1>4, <3>1
    <3>5. QED
      BY <3>3, <3>4
  <2>2. Rank(i) <= Rank(j) /\ Rank(i) # Rank(j)
    BY <1>2, <2>1, FS_Subset
  <2>3. QED
    BY <1>2, <2>2
<1>5. f \in Injection(I, 0 .. n - 1)
  <2>1. f \in [I -> 0 .. n - 1]
    BY <1>3
  <2>2. ASSUME NEW i \in I, NEW j \in I, f[i] = f[j]
        PROVE  i = j
    <3>1. Rank(i) = Rank(j) /\ i \in Int /\ j \in Int
      BY <2>2
    <3>2. ~(i < j) /\ ~(j < i)
      BY <1>2, <1>4, <3>1
    <3>3. QED
      BY <3>1, <3>2
  <2>3. QED
    BY <2>1, <2>2 DEF Injection, IsInjective
<1>6. IsFiniteSet(0 .. n - 1) /\ Cardinality(0 .. n - 1) = n
  BY <1>1, FS_Interval
<1>7. f \in Surjection(I, 0 .. n - 1)
  BY <1>5, <1>6, FS_Injection
<1>8. \A k \in 0 .. n - 1 : \E i \in I : Rank(i) = k
  BY <1>7 DEF Surjection
<1>9. QED
  BY <1>1, <1>3, <1>4, <1>8

(* Select() returns the elements that are in the set, as often as the queue *)
(* holds them: each comes from a position of its own.                       *)
LEMMA SelectSelects ==
  ASSUME NEW T, NEW q \in Seq(T), NEW S
  PROVE  /\ Select(q, S) \in Seq(T)
         /\ Range(Select(q, S)) = Range(q) \cap S
         /\ IsInjective(q) => IsInjective(Select(q, S))
         /\ \A k, m \in DOMAIN Select(q, S) : k # m =>
              \E i, j \in DOMAIN q :
                i # j /\ Select(q, S)[k] = q[i] /\ Select(q, S)[m] = q[j]
<1> DEFINE I == {i \in DOMAIN q : q[i] \in S}
           Rank(i) == Cardinality({j \in I : j < i})
           n == Cardinality(I)
           at(k) == CHOOSE i \in I : Rank(i) = k - 1
<1>1. DOMAIN q = 1 .. Len(q) /\ Len(q) \in Nat /\ \A i \in DOMAIN q : q[i] \in T
  BY LenProperties
<1>2. I \in SUBSET Int /\ I \in SUBSET (1 .. Len(q)) /\ IsFiniteSet(1 .. Len(q))
  BY <1>1, FS_Interval
<1>3. IsFiniteSet(I)
  BY <1>2, FS_Subset
<1>4. /\ n \in Nat
      /\ \A i \in I : Rank(i) \in 0 .. n - 1
      /\ \A i, j \in I : i < j => Rank(i) < Rank(j)
      /\ \A k \in 0 .. n - 1 : \E i \in I : Rank(i) = k
  BY <1>2, <1>3, RankBijective
<1>5. \A k \in 1 .. n : at(k) \in I /\ Rank(at(k)) = k - 1
  <2>1. TAKE k \in 1 .. n
  <2>2. k - 1 \in 0 .. n - 1
    BY <1>4
  <2>3. \E i \in I : Rank(i) = k - 1
    BY <1>4, <2>2
  <2>4. QED
    BY <2>3
<1>6. Select(q, S) = [k \in 1 .. n |-> q[at(k)]]
  BY DEF Select
<1>7. Select(q, S) \in Seq(T)
  <2>1. \A k \in 1 .. n : q[at(k)] \in T
    BY <1>1, <1>5
  <2> HIDE DEF at, n
  <2>2. QED
    BY <1>4, <1>6, <2>1, IsASeq
<1>8. Range(Select(q, S)) = Range(q) \cap S
  <2>1. ASSUME NEW k \in 1 .. n
        PROVE  q[at(k)] \in Range(q) \cap S
    BY <1>5 DEF Range
  <2>2. ASSUME NEW i \in DOMAIN q, q[i] \in S
        PROVE  \E k \in 1 .. n : q[at(k)] = q[i]
    <3>1. i \in I /\ Rank(i) \in 0 .. n - 1 /\ Rank(i) + 1 \in 1 .. n
      <4>1. i \in I
        BY <2>2
      <4>2. Rank(i) \in 0 .. n - 1
        BY <1>4, <4>1
      <4> HIDE DEF Rank, n
      <4>3. Rank(i) + 1 \in 1 .. n
        BY <1>4, <4>2
      <4>4. QED
        BY <4>1, <4>2, <4>3
    <3>2. at(Rank(i) + 1) \in I /\ Rank(at(Rank(i) + 1)) = Rank(i)
      <4> HIDE DEF at, Rank, n, I
      <4>1. at(Rank(i) + 1) \in I /\ Rank(at(Rank(i) + 1)) = Rank(i) + 1 - 1
        BY <1>5, <3>1
      <4>2. QED
        BY <3>1, <4>1
    <3>3. at(Rank(i) + 1) = i
      <4> HIDE DEF at, Rank, I
      <4>1. at(Rank(i) + 1) \in Int /\ i \in Int
        BY <1>2, <3>1, <3>2
      <4>2. QED
        BY <1>4, <3>1, <3>2, <4>1
    <3>4. QED
      BY <3>1, <3>3
  <2> HIDE DEF at, n
  <2>3. QED
    BY <1>6, <2>1, <2>2 DEF Range
<1>9. ASSUME IsInjective(q)
      PROVE  IsInjective(Select(q, S))
  <2>1. ASSUME NEW k \in 1 .. n, NEW m \in 1 .. n, q[at(k)] = q[at(m)]
        PROVE  k = m
    <3>1. at(k) \in DOMAIN q /\ at(m) \in DOMAIN q
      BY <1>5
    <3>2. at(k) = at(m)
      BY <1>9, <2>1, <3>1 DEF IsInjective
    <3>3. k - 1 = m - 1
      BY <1>5, <3>2
    <3>4. QED
      BY <1>4, <3>3
  <2> HIDE DEF at, n
  <2>2. QED
    BY <1>6, <2>1 DEF IsInjective
<1>10. ASSUME NEW k \in DOMAIN Select(q, S), NEW m \in DOMAIN Select(q, S), k # m
       PROVE  \E i, j \in DOMAIN q :
                i # j /\ Select(q, S)[k] = q[i] /\ Select(q, S)[m] = q[j]
  <2>1. k \in 1 .. n /\ m \in 1 .. n
    BY <1>6, <1>10
  <2>2. at(k) \in DOMAIN q /\ at(m) \in DOMAIN q
    BY <1>5, <2>1
  <2>3. at(k) # at(m)
    <3>1. SUFFICES ASSUME at(k) = at(m) PROVE FALSE
      OBVIOUS
    <3>2. k - 1 = m - 1
      BY <1>5, <2>1, <3>1
    <3>3. QED
      BY <1>4, <1>10, <2>1, <3>2
  <2> HIDE DEF at, n
  <2>4. Select(q, S)[k] = q[at(k)] /\ Select(q, S)[m] = q[at(m)]
    BY <1>6, <2>1
  <2>5. QED
    BY <2>2, <2>3, <2>4
<1>11. QED
  BY <1>7, <1>8, <1>9, <1>10

(* EnQAll() keeps the type of a queue; with room it adds the elements of a  *)
(* queue, which are then in it once if they were in one of the two once.    *)
LEMMA EnQAllAdds ==
  ASSUME NEW T, NEW q \in Seq(T), NEW s \in Seq(T)
  PROVE  /\ EnQAll(s, q) \in Seq(T)
         /\ Len(q) + Len(s) <= Q_LEN =>
              /\ Range(EnQAll(s, q)) = Range(q) \cup Range(s)
              /\ IsInjective(q) /\ IsInjective(s) /\ Range(q) \cap Range(s) = {}
                   => IsInjective(EnQAll(s, q))
<1>1. /\ q \o s \in Seq(T) /\ Len(q \o s) = Len(q) + Len(s)
      /\ \A i \in 1 .. Len(q) + Len(s) :
           (q \o s)[i] = IF i <= Len(q) THEN q[i] ELSE s[i - Len(q)]
      /\ DOMAIN (q \o s) = 1 .. Len(q) + Len(s)
      /\ DOMAIN q = 1 .. Len(q) /\ Len(q) \in Nat
      /\ DOMAIN s = 1 .. Len(s) /\ Len(s) \in Nat
  BY ConcatProperties, LenProperties
<1>2. CASE Len(q) + Len(s) <= Q_LEN
  <2>1. EnQAll(s, q) = q \o s
    BY <1>2 DEF EnQAll
  <2>2. Range(q \o s) = Range(q) \cup Range(s)
    BY RangeConcatenation
  <2>3. ASSUME IsInjective(q), IsInjective(s), Range(q) \cap Range(s) = {}
        PROVE  IsInjective(q \o s)
    <3>1. ASSUME NEW i \in 1 .. Len(q), NEW j \in 1 .. Len(s)
          PROVE  q[i] # s[j]
      BY <1>1, <2>3 DEF Range
    <3>2. ASSUME NEW i \in 1 .. Len(q) + Len(s), NEW j \in 1 .. Len(q) + Len(s),
                 (q \o s)[i] = (q \o s)[j]
          PROVE  i = j
      <4>1. CASE i <= Len(q) /\ j <= Len(q)
        BY <1>1, <2>3, <3>2, <4>1 DEF IsInjective
      <4>2. CASE i <= Len(q) /\ ~(j <= Len(q))
        <5>1. j - Len(q) \in 1 .. Len(s) /\ i \in 1 .. Len(q)
          BY <1>1, <4>2
        <5>2. QED
          BY <1>1, <3>1, <3>2, <4>2, <5>1
      <4>3. CASE ~(i <= Len(q)) /\ j <= Len(q)
        <5>1. i - Len(q) \in 1 .. Len(s) /\ j \in 1 .. Len(q)
          BY <1>1, <4>3
        <5>2. QED
          BY <1>1, <3>1, <3>2, <4>3, <5>1
      <4>4. CASE ~(i <= Len(q)) /\ ~(j <= Len(q))
        <5>1. i - Len(q) \in DOMAIN s /\ j - Len(q) \in DOMAIN s
          BY <1>1, <4>4
        <5>2. s[i - Len(q)] = s[j - Len(q)]
          BY <1>1, <3>2, <4>4
        <5>3. i - Len(q) = j - Len(q)
          BY <2>3, <5>1, <5>2 DEF IsInjective
        <5>4. QED
          BY <1>1, <5>3
      <4>5. QED
        BY <4>1, <4>2, <4>3, <4>4
    <3>3. QED
      BY <1>1, <3>2 DEF IsInjective
  <2>4. QED
    BY <1>1, <2>1, <2>2, <2>3
<1>3. CASE ~(Len(q) + Len(s) <= Q_LEN)
  <2>1. EnQAll(s, q) = SubSeq(q \o s, 1, Q_LEN)
    BY <1>3 DEF EnQAll
  <2>2. Q_LEN \in Nat /\ \A i \in 1 .. Q_LEN : (q \o s)[i] \in T
    BY <1>1, <1>3, QueueAssumption, ElementOfSeq
  <2>3. QED
    BY <1>3, <2>1, <2>2, SubSeqProperties
<1>4. QED
  BY <1>2, <1>3

-----------------------------------------------------------------------------
(* What every step uses of the constants.                                   *)
LEMMA PidFacts ==
  /\ 0 \in Pid /\ NONE \notin Pid /\ \A p \in Pid : p \in Int /\ p >= 0
  /\ IsFiniteSet(Pid) /\ Cardinality(Pid) = MAX_PROC_NUM
  /\ Cardinality(Pid) <= Q_LEN
  /\ 0 \in 0 .. TIME_LIMIT - 1 /\ 0 \in 0 .. CLOCK_MOD - 1
<1>1. 0 \in Pid /\ NONE \notin Pid /\ \A p \in Pid : p \in Int /\ p >= 0
  BY KernelAssumption DEF Pid, NONE
<1>2. IsFiniteSet(Pid) /\ Cardinality(Pid) = MAX_PROC_NUM
  BY KernelAssumption, FS_Interval DEF Pid
<1>3. 0 \in 0 .. TIME_LIMIT - 1 /\ 0 \in 0 .. CLOCK_MOD - 1
  BY KernelAssumption
<1>4. QED
  BY <1>1, <1>2, <1>3, KernelAssumption, QueueAssumption

-----------------------------------------------------------------------------
(***************************************************************************)
(* Type correctness.                                                       *)
(***************************************************************************)

(* Scheduler() leaves a PID in running_pid, whatever the handler left.      *)
LEMMA SchedulerType ==
  ASSUME NEW run \in Pid \cup {NONE}, NEW rq \in Seq(Pid),
         NEW st \in [Pid -> State], Scheduler(run, rq, st)
  PROVE  /\ running_pid' \in Pid
         /\ ready_q' \in Seq(Pid)
         /\ state' \in [Pid -> State]
<1>1. CASE run > 0
  BY <1>1, PidFacts DEF Scheduler, NONE
<1>2. CASE ~(run > 0) /\ rq # <<>>
  <2>1. Head(rq) \in Pid /\ Tail(rq) \in Seq(Pid)
    BY <1>2, TailRemoves
  <2>2. /\ running_pid' = Head(rq) /\ ready_q' = Tail(rq)
        /\ state' = [st EXCEPT ![0] = IF run = 0 THEN "READY" ELSE @,
                               ![Head(rq)] = "RUN"]
    BY <1>2, PidFacts DEF Scheduler
  <2>3. QED
    BY <2>1, <2>2, PidFacts DEF State
<1>3. CASE ~(run > 0) /\ rq = <<>>
  <2>1. running_pid' = 0 /\ ready_q' = rq /\ state' = [st EXCEPT ![0] = "RUN"]
    BY <1>3, PidFacts DEF Scheduler
  <2>2. QED
    BY <2>1, PidFacts DEF State
<1>4. QED
  BY <1>1, <1>2, <1>3

(* The three ways a handler ends.                                           *)
LEMMA ResumeType ==
  TypeOK /\ Resume =>
    running_pid' \in Pid /\ ready_q' \in Seq(Pid) /\ state' \in [Pid -> State]
BY SchedulerType DEF TypeOK, Resume

LEMMA BlockType ==
  ASSUME NEW s \in State, TypeOK, Block(s)
  PROVE  running_pid' \in Pid /\ ready_q' \in Seq(Pid) /\ state' \in [Pid -> State]
<1>1. [state EXCEPT ![running_pid] = s] \in [Pid -> State] /\ ready_q \in Seq(Pid)
  BY DEF TypeOK
<1>2. QED
  BY <1>1, SchedulerType DEF Block

LEMMA WakeType ==
  ASSUME NEW p \in Pid, TypeOK, Wake(p)
  PROVE  running_pid' \in Pid /\ ready_q' \in Seq(Pid) /\ state' \in [Pid -> State]
<1>1. /\ [state EXCEPT ![p] = "READY"] \in [Pid -> State]
      /\ EnQ(p, ready_q) \in Seq(Pid)
      /\ running_pid \in Pid
  BY EnQType DEF TypeOK, State
<1>2. QED
  BY <1>1, SchedulerType DEF Wake

LEMMA TypeInit == Init => TypeOK
<1> SUFFICES ASSUME Init PROVE TypeOK
  OBVIOUS
<1>1. [i \in 1 .. BOOT_PROCS - 1 |-> i] \in Seq(Pid)
  <2>1. BOOT_PROCS - 1 \in Nat /\ \A i \in 1 .. BOOT_PROCS - 1 : i \in Pid
    BY KernelAssumption DEF Pid
  <2>2. QED
    BY <2>1, IsASeq
<1>2. [i \in 1 .. MAX_PROC_NUM - BOOT_PROCS |-> BOOT_PROCS + i - 1] \in Seq(Pid)
  <2>1. /\ MAX_PROC_NUM - BOOT_PROCS \in Nat
        /\ \A i \in 1 .. MAX_PROC_NUM - BOOT_PROCS : BOOT_PROCS + i - 1 \in Pid
    BY KernelAssumption DEF Pid
  <2>2. QED
    BY <2>1, IsASeq
<1>3. [i \in 1 .. SEM_COUNT |-> i - 1] \in Seq(Sem)
  <2>1. SEM_COUNT \in Nat /\ \A i \in 1 .. SEM_COUNT : i - 1 \in Sem
    BY KernelAssumption, QueueAssumption DEF Sem
  <2>2. QED
    BY <2>1, IsASeq
<1>4. /\ running_pid \in Pid /\ sleep_q \in Seq(Pid)
      /\ state \in [Pid -> State]
      /\ runtime \in [Pid -> 0 .. TIME_LIMIT - 1]
      /\ wake_time \in [Pid -> 0 .. CLOCK_MOD - 1]
      /\ ppid \in [Pid -> Pid]
      /\ trans_table \in [Pid -> Page \cup {NONE, OS_trans_table}]
      /\ OS_clock \in 0 .. CLOCK_MOD - 1
  BY PidFacts, EmptySeq DEF Init, State
<1>5. /\ sem_limit \in [Sem -> 0 .. MAX_LIMIT]
      /\ sem_wait_q \in [Sem -> Seq(Pid)]
      /\ msg_q \in [Pid -> Seq(Msg)]
      /\ msg_wait_q \in [Pid -> Seq(Pid)]
      /\ DRAM \in [Page -> Pid \cup {NONE}]
      /\ inbox \in [Pid -> Msg \cup {NoMsg, Garbage}]
      /\ ret \in [Pid -> Int]
  BY KernelAssumption, EmptySeq DEF Init
<1>6. ready_q \in Seq(Pid) /\ free_q \in Seq(Pid) /\ sem_q \in Seq(Sem)
  BY <1>1, <1>2, <1>3 DEF Init
<1>7. QED
  BY <1>4, <1>5, <1>6 DEF TypeOK

(* A tick keeps the types: the clock stays an int, a slice never exceeds    *)
(* its limit, and those woken were PIDs in sleep_q.                         *)
LEMMA TypeTimer == TypeOK /\ Timer => TypeOK'
<1> SUFFICES ASSUME TypeOK, Timer PROVE TypeOK'
  OBVIOUS
<1>1. ASSUME NEW run \in Pid \cup {NONE}, NEW rq \in Seq(Pid),
             NEW st \in [Pid -> State], WakeSleepers(run, rq, st)
      PROVE  /\ running_pid' \in Pid /\ ready_q' \in Seq(Pid)
             /\ state' \in [Pid -> State]
             /\ sleep_q' \in Seq(Pid) /\ OS_clock' \in 0 .. CLOCK_MOD - 1
  <2> DEFINE woken == Select(sleep_q, Due)
             marked == [p \in Pid |-> IF p \in Range(woken) THEN "READY" ELSE st[p]]
  <2>1. OS_clock' \in 0 .. CLOCK_MOD - 1
    BY <1>1, KernelAssumption DEF WakeSleepers, NextClock, TypeOK
  <2>2. woken \in Seq(Pid) /\ Select(sleep_q, Pid \ Due) \in Seq(Pid)
    BY SelectSelects DEF TypeOK
  <2>3. marked \in [Pid -> State]
    BY DEF State
  <2>4. EnQAll(woken, rq) \in Seq(Pid)
    BY <2>2, EnQAllAdds
  <2>5. /\ sleep_q' = Select(sleep_q, Pid \ Due)
        /\ Scheduler(run, EnQAll(woken, rq), marked)
    BY <1>1 DEF WakeSleepers
  <2> HIDE DEF woken, marked
  <2>6. QED
    BY <2>1, <2>2, <2>3, <2>4, <2>5, SchedulerType
<1>2. /\ running_pid' \in Pid /\ ready_q' \in Seq(Pid)
      /\ state' \in [Pid -> State]
      /\ sleep_q' \in Seq(Pid) /\ OS_clock' \in 0 .. CLOCK_MOD - 1
  <2>1. CASE SliceOver
    <3>1. /\ EnQ(running_pid, ready_q) \in Seq(Pid)
          /\ [state EXCEPT ![running_pid] = "READY"] \in [Pid -> State]
      BY EnQType DEF TypeOK, State
    <3>2. WakeSleepers(NONE, EnQ(running_pid, ready_q),
                       [state EXCEPT ![running_pid] = "READY"])
      BY <2>1 DEF Timer
    <3>3. QED
      BY <1>1, <3>1, <3>2
  <2>2. CASE ~SliceOver
    BY <1>1, <2>2 DEF Timer, TypeOK
  <2>3. QED
    BY <2>1, <2>2
<1>3. runtime' \in [Pid -> 0 .. TIME_LIMIT - 1]
  <2>1. CASE running_pid < 1
    BY <2>1 DEF Timer, Charge, TypeOK
  <2>2. CASE ~(running_pid < 1)
    <3>1. (IF SliceOver THEN 0 ELSE runtime[running_pid] + 1)
             \in 0 .. TIME_LIMIT - 1
      <4>1. runtime[running_pid] \in 0 .. TIME_LIMIT - 1 /\ running_pid \in Int
        BY PidFacts DEF TypeOK
      <4>2. QED
        BY <2>2, <4>1, KernelAssumption DEF SliceOver
    <3>2. runtime' = [runtime EXCEPT ![running_pid] =
                        IF SliceOver THEN 0 ELSE runtime[running_pid] + 1]
      BY <2>2 DEF Timer, Charge
    <3>3. QED
      BY <3>1, <3>2 DEF TypeOK
  <2>3. QED
    BY <2>1, <2>2
<1>4. QED
  BY <1>2, <1>3 DEF Timer, TypeOK, semVars, msgVars, procVars

(* The calls about the process itself.                                      *)
LEMMA TypeGetPid == TypeOK /\ GetPid => TypeOK'
<1> SUFFICES ASSUME TypeOK, GetPid PROVE TypeOK'
  OBVIOUS
<1>1. running_pid' \in Pid /\ ready_q' \in Seq(Pid) /\ state' \in [Pid -> State]
  BY ResumeType DEF GetPid
<1>2. ret' \in [Pid -> Int]
  BY PidFacts DEF GetPid, TypeOK
<1>3. QED
  BY <1>1, <1>2 DEF GetPid, TypeOK, timeVars, semVars, msgVars, procVars

LEMMA TypeSleep ==
  ASSUME NEW ticks \in SleepTicks, TypeOK, Sleep(ticks)
  PROVE  TypeOK'
<1>1. running_pid' \in Pid /\ ready_q' \in Seq(Pid) /\ state' \in [Pid -> State]
  BY BlockType DEF Sleep, State
<1>2. (OS_clock + ticks) % CLOCK_MOD \in 0 .. CLOCK_MOD - 1
  BY KernelAssumption DEF TypeOK
<1>3. wake_time' \in [Pid -> 0 .. CLOCK_MOD - 1]
  BY <1>2 DEF Sleep, TypeOK
<1>4. sleep_q' \in Seq(Pid)
  BY EnQType DEF Sleep, TypeOK
<1>5. QED
  BY <1>1, <1>3, <1>4 DEF Sleep, TypeOK, semVars, msgVars, procVars

(* Semaphores.                                                              *)
LEMMA TypeSemGet ==
  ASSUME NEW lim \in SemLimits, TypeOK, SemGet(lim)
  PROVE  TypeOK'
<1>1. running_pid' \in Pid /\ ready_q' \in Seq(Pid) /\ state' \in [Pid -> State]
  BY ResumeType DEF SemGet
<1>2. CASE sem_q = <<>>
  <2>1. ret' = [ret EXCEPT ![running_pid] = -1] /\ UNCHANGED semVars
    BY <1>2 DEF SemGet
  <2>2. ret' \in [Pid -> Int]
    BY <2>1 DEF TypeOK
  <2>3. QED
    BY <1>1, <2>1, <2>2 DEF SemGet, TypeOK, timeVars, semVars, msgVars, procVars
<1>3. CASE sem_q # <<>>
  <2>1. Head(sem_q) \in Sem /\ Tail(sem_q) \in Seq(Sem)
    BY <1>3, TailRemoves DEF TypeOK
  <2>2. lim \in 0 .. MAX_LIMIT /\ Head(sem_q) \in Int
    BY <2>1, KernelAssumption DEF Sem
  <2>3. /\ sem_q' = Tail(sem_q)
        /\ sem_limit' = [sem_limit EXCEPT ![Head(sem_q)] = lim]
        /\ sem_wait_q' = [sem_wait_q EXCEPT ![Head(sem_q)] = <<>>]
        /\ ret' = [ret EXCEPT ![running_pid] = Head(sem_q)]
    BY <1>3 DEF SemGet
  <2>4. sem_limit' \in [Sem -> 0 .. MAX_LIMIT] /\ ret' \in [Pid -> Int]
    BY <2>2, <2>3 DEF TypeOK
  <2>5. sem_wait_q' \in [Sem -> Seq(Pid)]
    BY <2>3, EmptySeq DEF TypeOK
  <2>6. QED
    BY <1>1, <2>1, <2>3, <2>4, <2>5
       DEF SemGet, TypeOK, timeVars, msgVars, procVars
<1>4. QED
  BY <1>2, <1>3

LEMMA TypeSemWait ==
  ASSUME NEW s \in Sem, TypeOK, SemWait(s)
  PROVE  TypeOK'
<1>1. running_pid' \in Pid /\ ready_q' \in Seq(Pid) /\ state' \in [Pid -> State]
  BY BlockType, ResumeType DEF SemWait, State
<1>2. sem_limit[s] \in 0 .. MAX_LIMIT
  BY DEF TypeOK
<1>3. EnQ(running_pid, sem_wait_q[s]) \in Seq(Pid)
  BY EnQType DEF TypeOK
<1>4. CASE CountLeft(s)
  <2>1. sem_limit[s] - 1 \in 0 .. MAX_LIMIT
    BY <1>2, <1>4, KernelAssumption DEF CountLeft
  <2>2. /\ sem_limit' = [sem_limit EXCEPT ![s] = sem_limit[s] - 1]
        /\ sem_wait_q' = sem_wait_q
    BY <1>4 DEF SemWait
  <2>3. QED
    BY <1>1, <2>1, <2>2 DEF SemWait, TypeOK, timeVars, msgVars, procVars
<1>5. CASE ~CountLeft(s)
  <2>1. /\ sem_wait_q' = [sem_wait_q EXCEPT ![s] = EnQ(running_pid, sem_wait_q[s])]
        /\ sem_limit' = sem_limit
    BY <1>5 DEF SemWait
  <2>2. QED
    BY <1>1, <1>3, <2>1 DEF SemWait, TypeOK, timeVars, msgVars, procVars
<1>6. QED
  BY <1>4, <1>5

LEMMA TypeSemPost ==
  ASSUME NEW s \in Sem, TypeOK, SemPostISR(s)
  PROVE  TypeOK'
<1>1. CASE sem_wait_q[s] = <<>>
  <2>1. running_pid' \in Pid /\ ready_q' \in Seq(Pid) /\ state' \in [Pid -> State]
    BY <1>1, ResumeType DEF SemPostISR
  <2>2. /\ sem_limit' = [sem_limit EXCEPT ![s] = sem_limit[s] + 1]
        /\ sem_limit[s] < MAX_LIMIT
        /\ sem_wait_q' = sem_wait_q
    BY <1>1 DEF SemPostISR
  <2>3. sem_limit[s] + 1 \in 0 .. MAX_LIMIT
    <3>1. sem_limit[s] \in 0 .. MAX_LIMIT
      BY DEF TypeOK
    <3>2. QED
      BY <2>2, <3>1, KernelAssumption
  <2>4. QED
    BY <2>1, <2>2, <2>3 DEF SemPostISR, TypeOK, timeVars, msgVars, procVars
<1>2. CASE sem_wait_q[s] # <<>>
  <2>1. sem_wait_q[s] \in Seq(Pid)
    BY DEF TypeOK
  <2>2. Head(sem_wait_q[s]) \in Pid /\ Tail(sem_wait_q[s]) \in Seq(Pid)
    BY <1>2, <2>1, TailRemoves
  <2>3. /\ Wake(Head(sem_wait_q[s]))
        /\ sem_wait_q' = [sem_wait_q EXCEPT ![s] = Tail(sem_wait_q[s])]
        /\ sem_limit' = sem_limit
    BY <1>2 DEF SemPostISR
  <2>4. running_pid' \in Pid /\ ready_q' \in Seq(Pid) /\ state' \in [Pid -> State]
    BY <2>2, <2>3, WakeType
  <2>5. QED
    BY <2>2, <2>3, <2>4 DEF SemPostISR, TypeOK, timeVars, msgVars, procVars
<1>3. QED
  BY <1>1, <1>2

(* Messages.                                                                *)
LEMMA TypeMsgSnd ==
  ASSUME NEW to \in Pid, NEW d \in Data, TypeOK, MsgSnd(to, d)
  PROVE  TypeOK'
<1> DEFINE m == [sender |-> running_pid, data |-> d]
<1>0. m \in Msg
  BY DEF Msg, TypeOK
<1> HIDE DEF m
<1>1. CASE msg_wait_q[to] = <<>>
  <2>1. running_pid' \in Pid /\ ready_q' \in Seq(Pid) /\ state' \in [Pid -> State]
    BY <1>1, ResumeType DEF MsgSnd
  <2>2. MsgEnQ(m, msg_q[to]) \in Seq(Msg)
    BY <1>0 DEF TypeOK, MsgEnQ
  <2>3. /\ msg_q' = [msg_q EXCEPT ![to] = MsgEnQ(m, msg_q[to])]
        /\ msg_wait_q' = msg_wait_q /\ inbox' = inbox
    BY <1>1 DEF MsgSnd, m
  <2>4. msg_q' \in [Pid -> Seq(Msg)]
    BY <2>2, <2>3 DEF TypeOK
  <2>5. QED
    BY <2>1, <2>3, <2>4 DEF MsgSnd, TypeOK, timeVars, semVars, procVars
<1>2. CASE msg_wait_q[to] # <<>>
  <2>1. msg_wait_q[to] \in Seq(Pid)
    BY DEF TypeOK
  <2>2. Head(msg_wait_q[to]) \in Pid /\ Tail(msg_wait_q[to]) \in Seq(Pid)
    BY <1>2, <2>1, TailRemoves
  <2>3. /\ Wake(Head(msg_wait_q[to]))
        /\ msg_wait_q' = [msg_wait_q EXCEPT ![to] = Tail(msg_wait_q[to])]
        /\ inbox' = [inbox EXCEPT ![Head(msg_wait_q[to])] = Copied(m)]
        /\ msg_q' = msg_q
    BY <1>2 DEF MsgSnd, m
  <2>4. running_pid' \in Pid /\ ready_q' \in Seq(Pid) /\ state' \in [Pid -> State]
    BY <2>2, <2>3, WakeType
  <2>5. msg_wait_q' \in [Pid -> Seq(Pid)]
    BY <2>2, <2>3 DEF TypeOK
  <2>6. inbox' \in [Pid -> Msg \cup {NoMsg, Garbage}]
    BY <1>0, <2>3 DEF TypeOK, Copied
  <2>7. QED
    BY <2>3, <2>4, <2>5, <2>6 DEF MsgSnd, TypeOK, timeVars, semVars, procVars
<1>3. QED
  BY <1>1, <1>2

LEMMA TypeMsgRcv == TypeOK /\ MsgRcv => TypeOK'
<1> SUFFICES ASSUME TypeOK, MsgRcv PROVE TypeOK'
  OBVIOUS
<1>1. running_pid' \in Pid /\ ready_q' \in Seq(Pid) /\ state' \in [Pid -> State]
  BY BlockType, ResumeType DEF MsgRcv, State
<1>2. CASE HasMail(running_pid)
  <2>1. running_pid \in Pid /\ msg_q[running_pid] \in Seq(Msg)
        /\ msg_q[running_pid] # <<>>
    BY <1>2, EmptySeq DEF TypeOK, HasMail
  <2>2. Head(msg_q[running_pid]) \in Msg /\ Tail(msg_q[running_pid]) \in Seq(Msg)
    BY <2>1, TailRemoves
  <2>3. /\ msg_q' = [msg_q EXCEPT ![running_pid] = Tail(msg_q[running_pid])]
        /\ inbox' = [inbox EXCEPT ![running_pid] = Head(msg_q[running_pid])]
        /\ msg_wait_q' = msg_wait_q
    BY <1>2 DEF MsgRcv
  <2>4. QED
    BY <1>1, <2>2, <2>3 DEF MsgRcv, TypeOK, timeVars, semVars, procVars
<1>3. CASE ~HasMail(running_pid)
  <2>1. EnQ(running_pid, msg_wait_q[running_pid]) \in Seq(Pid)
    BY EnQType DEF TypeOK
  <2>2. /\ msg_wait_q' = [msg_wait_q EXCEPT ![running_pid] =
                             EnQ(running_pid, msg_wait_q[running_pid])]
        /\ msg_q' = msg_q /\ inbox' = inbox
    BY <1>3 DEF MsgRcv
  <2>3. QED
    BY <1>1, <2>1, <2>2 DEF MsgRcv, TypeOK, timeVars, semVars, procVars
<1>4. QED
  BY <1>2, <1>3

(* Processes that come and go.                                              *)
LEMMA TypeStartProc == TypeOK /\ StartProc => TypeOK'
<1> SUFFICES ASSUME TypeOK, StartProc PROVE TypeOK'
  OBVIOUS
<1> DEFINE new_pid == Head(free_q)
<1>1. new_pid \in Pid /\ Tail(free_q) \in Seq(Pid) /\ running_pid \in Pid
  BY TailRemoves DEF StartProc, TypeOK
<1>2. /\ runtime' = [runtime EXCEPT ![new_pid] = 0]
      /\ trans_table' = [trans_table EXCEPT ![new_pid] = OS_trans_table]
      /\ msg_q' = [msg_q EXCEPT ![new_pid] = <<>>]
      /\ msg_wait_q' = [msg_wait_q EXCEPT ![new_pid] = <<>>]
      /\ inbox' = [inbox EXCEPT ![new_pid] = NoMsg]
      /\ ret' = [ret EXCEPT ![new_pid] = 0]
      /\ free_q' = Tail(free_q)
      /\ UNCHANGED <<timeVars, semVars, ppid, DRAM>>
  BY DEF StartProc
<1>3. running_pid' \in Pid /\ ready_q' \in Seq(Pid) /\ state' \in [Pid -> State]
  <2>1. CASE new_pid # 0
    BY <1>1, <2>1, WakeType DEF StartProc
  <2>2. CASE new_pid = 0
    <3>1. /\ [state EXCEPT ![new_pid] = "READY"] \in [Pid -> State]
          /\ ready_q \in Seq(Pid)
      BY DEF TypeOK, State
    <3>2. Scheduler(running_pid, ready_q, [state EXCEPT ![new_pid] = "READY"])
      BY <2>2 DEF StartProc
    <3>3. QED
      BY <1>1, <3>1, <3>2, SchedulerType
  <2>3. QED
    BY <2>1, <2>2
<1> HIDE DEF new_pid
<1>4. /\ runtime' \in [Pid -> 0 .. TIME_LIMIT - 1]
      /\ trans_table' \in [Pid -> Page \cup {NONE, OS_trans_table}]
      /\ inbox' \in [Pid -> Msg \cup {NoMsg, Garbage}]
      /\ ret' \in [Pid -> Int]
  BY <1>2, PidFacts DEF TypeOK
<1>5. msg_q' \in [Pid -> Seq(Msg)] /\ msg_wait_q' \in [Pid -> Seq(Pid)]
  BY <1>2, EmptySeq DEF TypeOK
<1>6. QED
  BY <1>1, <1>2, <1>3, <1>4, <1>5 DEF TypeOK, timeVars, semVars

LEMMA TypeFork == TypeOK /\ Fork => TypeOK'
<1> SUFFICES ASSUME TypeOK, Fork PROVE TypeOK'
  OBVIOUS
<1>1. running_pid \in Pid /\ UNCHANGED <<OS_clock, sleep_q, semVars>>
  BY DEF Fork, TypeOK
<1>2. CASE ForkFails
  <2>1. /\ ret' = [ret EXCEPT ![running_pid] = -1]
        /\ Resume
        /\ UNCHANGED <<procVars, msgVars, runtime, wake_time>>
    BY <1>2 DEF Fork
  <2>2. running_pid' \in Pid /\ ready_q' \in Seq(Pid) /\ state' \in [Pid -> State]
    BY <2>1, ResumeType
  <2>3. ret' \in [Pid -> Int]
    BY <2>1 DEF TypeOK
  <2>4. QED
    BY <1>1, <2>1, <2>2, <2>3 DEF TypeOK, semVars, procVars, msgVars
<1>3. CASE ~ForkFails
  <2> DEFINE child == Head(free_q)
             pages == Lowest(FORK_PAGES, FreePages)
  <2>1. child \in Pid /\ Tail(free_q) \in Seq(Pid) /\ child \in Int
    BY <1>3, TailRemoves, PidFacts DEF ForkFails, TypeOK
  <2>2. PICK main_table \in pages :
          trans_table' = [trans_table EXCEPT ![child] = main_table]
    BY <1>3 DEF Fork, ForkSucceeds
  <2>3. main_table \in Page
    BY <2>2 DEF Lowest, FreePages
  <2>4. /\ DRAM' = [i \in Page |-> IF i \in pages THEN child ELSE DRAM[i]]
        /\ free_q' = Tail(free_q)
        /\ runtime' = [runtime EXCEPT ![child] = 0]
        /\ wake_time' = [wake_time EXCEPT ![child] = 0]
        /\ ppid' = [ppid EXCEPT ![child] = running_pid]
        /\ msg_q' = [msg_q EXCEPT ![child] = <<>>]
        /\ msg_wait_q' = [msg_wait_q EXCEPT ![child] = <<>>]
        /\ inbox' = [inbox EXCEPT ![child] = NoMsg]
        /\ ret' = [ret EXCEPT ![running_pid] = child]
        /\ Wake(child)
    BY <1>3 DEF Fork, ForkSucceeds
  <2> HIDE DEF child, pages
  <2>5. running_pid' \in Pid /\ ready_q' \in Seq(Pid) /\ state' \in [Pid -> State]
    BY <2>1, <2>4, WakeType
  <2>6. /\ runtime' \in [Pid -> 0 .. TIME_LIMIT - 1]
        /\ wake_time' \in [Pid -> 0 .. CLOCK_MOD - 1]
        /\ ppid' \in [Pid -> Pid]
        /\ trans_table' \in [Pid -> Page \cup {NONE, OS_trans_table}]
        /\ ret' \in [Pid -> Int]
    BY <1>1, <2>1, <2>2, <2>3, <2>4, PidFacts DEF TypeOK
  <2>7. DRAM' \in [Page -> Pid \cup {NONE}] /\ inbox' \in [Pid -> Msg \cup {NoMsg, Garbage}]
    BY <2>1, <2>4 DEF TypeOK
  <2>8. msg_q' \in [Pid -> Seq(Msg)] /\ msg_wait_q' \in [Pid -> Seq(Pid)]
    BY <2>4, EmptySeq DEF TypeOK
  <2>9. QED
    BY <1>1, <2>1, <2>4, <2>5, <2>6, <2>7, <2>8 DEF TypeOK, semVars
<1>4. QED
  BY <1>2, <1>3

LEMMA TypeWait == TypeOK /\ Wait => TypeOK'
<1> SUFFICES ASSUME TypeOK, Wait PROVE TypeOK'
  OBVIOUS
<1>1. UNCHANGED <<timeVars, semVars, msgVars, ppid, trans_table, runtime>>
  BY DEF Wait
<1>2. CASE Block("FORKWAIT") /\ UNCHANGED <<free_q, DRAM, ret>>
  <2>1. running_pid' \in Pid /\ ready_q' \in Seq(Pid) /\ state' \in [Pid -> State]
    BY <1>2, BlockType DEF State
  <2>2. QED
    BY <1>1, <1>2, <2>1 DEF TypeOK, timeVars, semVars, msgVars
<1>3. ASSUME NEW i \in ZombiePages, Reap(i)
      PROVE  TypeOK'
  <2>1. DRAM[i] \in Pid /\ i \in Page
    BY DEF ZombiePages, TypeOK
  <2>2. /\ ret' = [ret EXCEPT ![running_pid] = DRAM[i]]
        /\ DRAM' = [DRAM EXCEPT ![i] = NONE]
        /\ free_q' = EnQ(DRAM[i], free_q)
        /\ Resume
    BY <1>3 DEF Reap
  <2>3. running_pid' \in Pid /\ ready_q' \in Seq(Pid) /\ state' \in [Pid -> State]
    BY <2>2, ResumeType
  <2>4. DRAM[i] \in Int
    BY <2>1, PidFacts
  <2>5. ret' \in [Pid -> Int] /\ DRAM' \in [Page -> Pid \cup {NONE}]
    BY <2>1, <2>2, <2>4 DEF TypeOK
  <2>6. free_q' \in Seq(Pid)
    BY <2>1, <2>2, EnQType DEF TypeOK
  <2>7. QED
    BY <1>1, <2>3, <2>5, <2>6 DEF TypeOK, timeVars, semVars, msgVars
<1>4. QED
  BY <1>2, <1>3 DEF Wait

LEMMA TypeExitISR == TypeOK /\ ExitISR => TypeOK'
<1> SUFFICES ASSUME TypeOK, ExitISR PROVE TypeOK'
  OBVIOUS
<1>1. /\ running_pid \in Pid /\ running_pid \in Int /\ ppid[running_pid] \in Pid
      /\ UNCHANGED <<OS_clock, sleep_q, semVars, msgVars>>
  BY PidFacts DEF ExitISR, TypeOK
<1>2. CASE Block("ZOMBIE") /\ UNCHANGED <<procVars, runtime, wake_time, ret>>
  <2>1. running_pid' \in Pid /\ ready_q' \in Seq(Pid) /\ state' \in [Pid -> State]
    BY <1>2, BlockType DEF State
  <2>2. QED
    BY <1>1, <1>2, <2>1 DEF TypeOK, procVars, semVars, msgVars
<1>3. CASE Leave(ppid[running_pid])
  <2> DEFINE parent == ppid[running_pid]
             marked == [state EXCEPT ![parent] = "READY", ![running_pid] = "FREE"]
             pages == Lowest(FORK_PAGES, {i \in Page : DRAM[i] = running_pid})
  <2>1. /\ ret' = IF Forked(parent) THEN ret ELSE [ret EXCEPT ![parent] = running_pid]
        /\ DRAM' = [i \in Page |-> IF i \in pages THEN NONE ELSE DRAM[i]]
        /\ ClearPCB(running_pid)
        /\ free_q' = EnQ(running_pid, free_q)
        /\ Scheduler(NONE, EnQ(parent, ready_q), marked)
    BY <1>3 DEF Leave
  <2>2. EnQ(parent, ready_q) \in Seq(Pid) /\ free_q' \in Seq(Pid)
    BY <1>1, <2>1, EnQType DEF TypeOK
  <2>3. marked \in [Pid -> State]
    BY DEF TypeOK, State
  <2> HIDE DEF marked, parent, pages
  <2>4. running_pid' \in Pid /\ ready_q' \in Seq(Pid) /\ state' \in [Pid -> State]
    BY <2>1, <2>2, <2>3, SchedulerType
  <2>5. /\ runtime' \in [Pid -> 0 .. TIME_LIMIT - 1]
        /\ wake_time' \in [Pid -> 0 .. CLOCK_MOD - 1]
        /\ ppid' \in [Pid -> Pid]
        /\ trans_table' \in [Pid -> Page \cup {NONE, OS_trans_table}]
    BY <2>1, PidFacts DEF ClearPCB, TypeOK
  <2>6. ret' \in [Pid -> Int] /\ DRAM' \in [Page -> Pid \cup {NONE}]
    BY <1>1, <2>1 DEF TypeOK
  <2>7. QED
    BY <1>1, <2>2, <2>4, <2>5, <2>6 DEF TypeOK, semVars, msgVars
<1>4. QED
  BY <1>2, <1>3 DEF ExitISR

LEMMA TypePageFault == TypeOK /\ PageFault => TypeOK'
<1> SUFFICES ASSUME TypeOK, PageFault PROVE TypeOK'
  OBVIOUS
<1>1. ASSUME NEW i \in FreePages,
             DRAM' = [DRAM EXCEPT ![i] = running_pid],
             Resume,
             UNCHANGED <<timeVars, semVars, msgVars, free_q, ppid, trans_table,
                         runtime, ret>>
      PROVE  TypeOK'
  <2>1. running_pid' \in Pid /\ ready_q' \in Seq(Pid) /\ state' \in [Pid -> State]
    BY <1>1, ResumeType
  <2>2. DRAM' \in [Page -> Pid \cup {NONE}]
    BY <1>1 DEF TypeOK
  <2>3. QED
    BY <1>1, <2>1, <2>2 DEF TypeOK, timeVars, semVars, msgVars
<1>2. CASE ExitISR
  BY <1>2, TypeExitISR
<1>3. QED
  BY <1>1, <1>2 DEF PageFault

(* Every step keeps the types.                                              *)
LEMMA TypeNext == TypeOK /\ [Next]_vars => TypeOK'
<1> SUFFICES ASSUME TypeOK, [Next]_vars PROVE TypeOK'
  OBVIOUS
<1>1. CASE Timer
  BY <1>1, TypeTimer
<1>2. CASE GetPid
  BY <1>2, TypeGetPid
<1>3. ASSUME NEW ticks \in SleepTicks, Sleep(ticks) PROVE TypeOK'
  BY <1>3, TypeSleep
<1>4. ASSUME NEW lim \in SemLimits, SemGet(lim) PROVE TypeOK'
  BY <1>4, TypeSemGet
<1>5. ASSUME NEW s \in Sem, SemWait(s) \/ SemPost(s) PROVE TypeOK'
  BY <1>5, TypeSemWait, TypeSemPost DEF SemPost
<1>6. CASE IRQ7
  <2>1. printing_semaphore \in Sem
    BY KernelAssumption, QueueAssumption DEF printing_semaphore, Sem
  <2>2. QED
    BY <1>6, <2>1, TypeSemPost DEF IRQ7
<1>16. CASE IRQ3
  BY <1>16, TypeSemPost DEF IRQ3, Allocated
<1>7. ASSUME NEW to \in Pid, NEW d \in Data, MsgSnd(to, d) PROVE TypeOK'
  BY <1>7, TypeMsgSnd
<1>8. CASE MsgRcv
  BY <1>8, TypeMsgRcv
<1>9. CASE StartProc
  BY <1>9, TypeStartProc
<1>10. CASE Fork
  BY <1>10, TypeFork
<1>11. CASE Wait
  BY <1>11, TypeWait
<1>12. CASE Exit
  BY <1>12, TypeExitISR DEF Exit
<1>13. CASE PageFault
  BY <1>13, TypePageFault
<1>14. CASE UNCHANGED vars
  BY <1>14 DEF TypeOK, vars, schedVars, timeVars, semVars, msgVars, procVars
<1>15. QED
  BY <1>1, <1>2, <1>3, <1>4, <1>5, <1>6, <1>7, <1>8, <1>9, <1>10, <1>11,
     <1>12, <1>13, <1>14, <1>16 DEF Next

(* TypeOK is an invariant of the kernel, also when Wait() finds zombies.    *)
THEOREM TypeCorrect == Spec => []TypeOK
<1>1. Init => TypeOK
  BY TypeInit
<1>2. TypeOK /\ [Next]_vars => TypeOK'
  BY TypeNext
<1>3. QED
  BY <1>1, <1>2, PTL DEF Spec

-----------------------------------------------------------------------------
(***************************************************************************)
(* No lost wakeup.                                                         *)
(***************************************************************************)
SemKept == \A s \in Sem : sem_limit[s] > 0 => sem_wait_q[s] = <<>>

MailKept == \A p \in Pid : msg_q[p] # <<>> => msg_wait_q[p] = <<>>

(* A new process, or the caller of Fork(), is given an empty mailbox.       *)
LEMMA NewMailKept ==
  ASSUME TypeOK, MailKept, NEW p,
         msg_q' = [msg_q EXCEPT ![p] = <<>>],
         msg_wait_q' = [msg_wait_q EXCEPT ![p] = <<>>]
  PROVE  MailKept'
BY DEF TypeOK, MailKept

LEMMA SemGetKept ==
  ASSUME TypeOK, SemKept, NEW lim \in SemLimits, SemGet(lim)
  PROVE  SemKept'
<1>1. CASE sem_q = <<>>
  BY <1>1 DEF SemGet, semVars, SemKept
<1>2. CASE sem_q # <<>>
  <2>1. /\ sem_limit' = [sem_limit EXCEPT ![Head(sem_q)] = lim]
        /\ sem_wait_q' = [sem_wait_q EXCEPT ![Head(sem_q)] = <<>>]
    BY <1>2 DEF SemGet
  <2>2. QED
    BY <2>1 DEF TypeOK, SemKept
<1>3. QED
  BY <1>1, <1>2

(* A process starts to wait only when nothing is left of the count.         *)
LEMMA SemWaitKept ==
  ASSUME TypeOK, SemKept, NEW s \in Sem, SemWait(s)
  PROVE  SemKept'
<1>1. sem_limit \in [Sem -> 0 .. MAX_LIMIT] /\ sem_wait_q \in [Sem -> Seq(Pid)]
  BY DEF TypeOK
<1>2. \A t \in Sem : sem_limit[t] \in Int
  BY <1>1, KernelAssumption
<1>3. CASE CountLeft(s)
  <2>1. sem_limit' = [sem_limit EXCEPT ![s] = @ - 1] /\ sem_wait_q' = sem_wait_q
    BY <1>3 DEF SemWait
  <2>2. QED
    BY <1>1, <1>2, <1>3, <2>1 DEF SemKept, CountLeft
<1>4. CASE ~CountLeft(s)
  <2>1. /\ sem_limit' = sem_limit
        /\ \A t \in Sem \ {s} : sem_wait_q'[t] = sem_wait_q[t]
    BY <1>1, <1>4 DEF SemWait
  <2>2. QED
    BY <1>2, <1>4, <2>1 DEF SemKept, CountLeft
<1>5. QED
  BY <1>3, <1>4

(* The count grows only when nobody waits.                                  *)
LEMMA SemPostKept ==
  ASSUME TypeOK, SemKept, NEW s \in Sem, SemPostISR(s)
  PROVE  SemKept'
<1>1. sem_limit \in [Sem -> 0 .. MAX_LIMIT] /\ sem_wait_q \in [Sem -> Seq(Pid)]
  BY DEF TypeOK
<1>2. CASE sem_wait_q[s] = <<>>
  <2>1. /\ sem_wait_q' = sem_wait_q
        /\ \A t \in Sem \ {s} : sem_limit'[t] = sem_limit[t]
    BY <1>1, <1>2 DEF SemPostISR
  <2>2. QED
    BY <1>2, <2>1 DEF SemKept
<1>3. CASE sem_wait_q[s] # <<>>
  <2>1. /\ sem_limit' = sem_limit
        /\ \A t \in Sem \ {s} : sem_wait_q'[t] = sem_wait_q[t]
    BY <1>1, <1>3 DEF SemPostISR
  <2>2. QED
    BY <1>3, <2>1 DEF SemKept
<1>4. QED
  BY <1>2, <1>3

(* A message is stored only when the recipient does not wait.               *)
LEMMA MsgSndKept ==
  ASSUME TypeOK, MailKept, NEW to \in Pid, NEW d \in Data, MsgSnd(to, d)
  PROVE  MailKept'
<1>1. msg_q \in [Pid -> Seq(Msg)] /\ msg_wait_q \in [Pid -> Seq(Pid)]
  BY DEF TypeOK
<1>2. CASE msg_wait_q[to] = <<>>
  <2>1. /\ msg_wait_q' = msg_wait_q
        /\ \A p \in Pid \ {to} : msg_q'[p] = msg_q[p]
    BY <1>1, <1>2 DEF MsgSnd
  <2>2. QED
    BY <1>2, <2>1 DEF MailKept
<1>3. CASE msg_wait_q[to] # <<>>
  <2>1. /\ msg_q' = msg_q
        /\ \A p \in Pid \ {to} : msg_wait_q'[p] = msg_wait_q[p]
    BY <1>1, <1>3 DEF MsgSnd
  <2>2. QED
    BY <1>3, <2>1 DEF MailKept
<1>4. QED
  BY <1>2, <1>3

(* A process starts to wait only when its mailbox is empty.                 *)
LEMMA MsgRcvKept ==
  ASSUME TypeOK, MailKept, MsgRcv
  PROVE  MailKept'
<1>1. msg_q \in [Pid -> Seq(Msg)] /\ msg_wait_q \in [Pid -> Seq(Pid)] /\ running_pid \in Pid
  BY DEF TypeOK
<1>2. msg_q[running_pid] # <<>> <=> HasMail(running_pid)
  BY <1>1, LenProperties, EmptySeq DEF HasMail
<1>3. CASE HasMail(running_pid)
  <2>1. /\ msg_wait_q' = msg_wait_q
        /\ \A p \in Pid \ {running_pid} : msg_q'[p] = msg_q[p]
    BY <1>1, <1>3 DEF MsgRcv
  <2>2. QED
    BY <1>2, <1>3, <2>1 DEF MailKept
<1>4. CASE ~HasMail(running_pid)
  <2>1. /\ msg_q' = msg_q
        /\ \A p \in Pid \ {running_pid} : msg_wait_q'[p] = msg_wait_q[p]
    BY <1>1, <1>4 DEF MsgRcv
  <2>2. QED
    BY <1>2, <1>4, <2>1 DEF MailKept
<1>5. QED
  BY <1>3, <1>4

LEMMA WakeupsInit == Init => SemKept /\ MailKept
<1> SUFFICES ASSUME Init PROVE SemKept /\ MailKept
  OBVIOUS
<1>1. /\ \A s \in Sem : sem_wait_q[s] = <<>>
      /\ \A p \in Pid : msg_wait_q[p] = <<>>
  BY DEF Init
<1>2. QED
  BY <1>1 DEF SemKept, MailKept

(* Every step keeps both halves.                                            *)
LEMMA WakeupsNext == TypeOK /\ SemKept /\ MailKept /\ [Next]_vars => SemKept' /\ MailKept'
<1> SUFFICES ASSUME TypeOK, SemKept, MailKept, [Next]_vars
             PROVE  SemKept' /\ MailKept'
  OBVIOUS
<1>1. UNCHANGED semVars => SemKept'
  BY DEF semVars, SemKept
<1>2. UNCHANGED msgVars => MailKept'
  BY DEF msgVars, MailKept
<1>3. CASE Timer
  BY <1>1, <1>2, <1>3 DEF Timer
<1>4. CASE GetPid
  BY <1>1, <1>2, <1>4 DEF GetPid
<1>5. ASSUME NEW ticks \in SleepTicks, Sleep(ticks) PROVE SemKept' /\ MailKept'
  BY <1>1, <1>2, <1>5 DEF Sleep
<1>6. ASSUME NEW lim \in SemLimits, SemGet(lim) PROVE SemKept' /\ MailKept'
  BY <1>2, <1>6, SemGetKept DEF SemGet
<1>7. ASSUME NEW s \in Sem, SemWait(s) PROVE SemKept' /\ MailKept'
  BY <1>2, <1>7, SemWaitKept DEF SemWait
<1>8. ASSUME NEW s \in Sem, SemPostISR(s) PROVE SemKept' /\ MailKept'
  BY <1>2, <1>8, SemPostKept DEF SemPostISR
<1>9. printing_semaphore \in Sem
  BY KernelAssumption, QueueAssumption DEF printing_semaphore, Sem
<1>10. CASE IRQ3 \/ IRQ7
  BY <1>8, <1>9, <1>10 DEF IRQ3, IRQ7, Allocated
<1>11. ASSUME NEW to \in Pid, NEW d \in Data, MsgSnd(to, d)
       PROVE  SemKept' /\ MailKept'
  BY <1>1, <1>11, MsgSndKept DEF MsgSnd
<1>12. CASE MsgRcv
  BY <1>1, <1>12, MsgRcvKept DEF MsgRcv
<1>13. CASE StartProc
  BY <1>1, <1>13, NewMailKept DEF StartProc
<1>14. CASE Fork
  BY <1>1, <1>2, <1>14, NewMailKept DEF Fork, ForkSucceeds
<1>15. CASE Wait
  BY <1>1, <1>2, <1>15 DEF Wait
<1>16. CASE ExitISR
  BY <1>1, <1>2, <1>16 DEF ExitISR
<1>17. CASE Exit
  BY <1>16, <1>17 DEF Exit
<1>18. CASE PageFault
  BY <1>1, <1>2, <1>16, <1>18 DEF PageFault
<1>19. CASE UNCHANGED vars
  BY <1>1, <1>2, <1>19 DEF vars
<1>20. QED
  BY <1>3, <1>4, <1>5, <1>6, <1>7, <1>8, <1>10, <1>11, <1>12, <1>13, <1>14,
     <1>15, <1>17, <1>18, <1>19 DEF Next, SemPost

(***************************************************************************)
(* No post and no message is lost on a process that waits for it.          *)
(***************************************************************************)
THEOREM WakeupsKept == Spec => []NoLostWakeup
<1>1. Init => SemKept /\ MailKept
  BY WakeupsInit
<1>2. TypeOK /\ SemKept /\ MailKept /\ [Next]_vars => SemKept' /\ MailKept'
  BY WakeupsNext
<1>3. SemKept /\ MailKept => NoLostWakeup
  BY DEF SemKept, MailKept, NoLostWakeup
<1>4. QED
  BY <1>1, <1>2, <1>3, TypeCorrect, PTL DEF Spec
=============================================================================
