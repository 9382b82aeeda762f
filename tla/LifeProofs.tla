----------------------------- MODULE LifeProofs ------------------------------
(***************************************************************************)
(* The life of processes: who owns the pages and the translation tables    *)
(* (PagesHeld, TableOwned), who sees an exit (NoLostExit), and what a step *)
(* may never do: wake a sleeper early or late (OnTime), let a ready        *)
(* process be overtaken (RoundRobin), or let Wait() return without a child *)
(* that exits (WaitReturnsChild), for every size of the tables.            *)
(*                                                                         *)
(* All but NoLostExit need ReapsZombies to be FALSE: a Wait() that finds a *)
(* zombie frees a page of a PCB it does not clear and a PID that is still  *)
(* in use, and OnePlace, which most of the proofs rest on, is lost.        *)
(***************************************************************************)
EXTENDS PlaceProofs

-----------------------------------------------------------------------------
(***************************************************************************)
(* The loop that counts: it finds k of them when there are k.              *)
(***************************************************************************)
LEMMA LowestSize ==
  ASSUME NEW I \in SUBSET Int, IsFiniteSet(I), NEW k \in Nat, k <= Cardinality(I)
  PROVE  Cardinality(Lowest(k, I)) = k
<1> DEFINE Rank(i) == Cardinality({j \in I : j < i})
           L == Lowest(k, I)
           f == [i \in L |-> Rank(i)]
<1>1. /\ Cardinality(I) \in Nat
      /\ \A i \in I : Rank(i) \in 0 .. Cardinality(I) - 1
      /\ \A i, j \in I : i < j => Rank(i) < Rank(j)
      /\ \A m \in 0 .. Cardinality(I) - 1 : \E i \in I : Rank(i) = m
  BY RankBijective
<1>2. L = {i \in I : Rank(i) < k}
  BY DEF Lowest
<1> HIDE DEF Rank, L
<1>3. \A i \in I : Rank(i) \in Nat
  BY <1>1
<1>4. f \in [L -> 0 .. k - 1]
  <2>1. \A i \in L : Rank(i) \in 0 .. k - 1
    BY <1>2, <1>3
  <2>2. QED
    BY <2>1
<1>5. ASSUME NEW i \in L, NEW j \in L, f[i] = f[j]
      PROVE  i = j
  <2>1. i \in I /\ j \in I /\ i \in Int /\ j \in Int /\ Rank(i) = Rank(j)
    BY <1>2, <1>5
  <2>2. ~(i < j) /\ ~(j < i)
    BY <1>1, <1>3, <2>1
  <2>3. QED
    BY <2>1, <2>2
<1>6. ASSUME NEW m \in 0 .. k - 1
      PROVE  \E i \in L : f[i] = m
  <2>1. m \in 0 .. Cardinality(I) - 1
    BY <1>1
  <2>2. PICK i \in I : Rank(i) = m
    BY <1>1, <2>1
  <2>3. i \in L
    BY <1>2, <2>2
  <2>4. QED
    BY <2>2, <2>3
<1>7. f \in Injection(L, 0 .. k - 1) /\ f \in Surjection(L, 0 .. k - 1)
  BY <1>4, <1>5, <1>6 DEF Injection, Surjection, IsInjective
<1>8. IsFiniteSet(0 .. k - 1) /\ Cardinality(0 .. k - 1) = k
  BY FS_Interval
<1>9. Cardinality(L) = k
  BY <1>7, <1>8, FS_Injection
<1>10. QED
  BY <1>9 DEF L

(* The pages of DRAM[] can be counted.                                      *)
LEMMA PageFacts ==
  /\ IsFiniteSet(Page) /\ Page \in SUBSET Int /\ FORK_PAGES \in Nat
  /\ NONE \notin Page /\ OS_trans_table \notin Page
<1>1. DRAM_PAGE_COUNT \in Nat /\ FORK_PAGES \in Nat
  BY KernelAssumption
<1>2. QED
  BY <1>1, FS_Interval DEF Page, NONE, OS_trans_table

-----------------------------------------------------------------------------
(***************************************************************************)
(* Exits.                                                                  *)
(***************************************************************************)

(* The states a process is in when the pages it owns await its parent, or   *)
(* when it awaits its child.                                                *)
Parted == {"ZOMBIE", "FORKWAIT"}

(* The process that runs is neither: it can become a zombie, or wait, once. *)
CallerLive == state[running_pid] \notin Parted

(* What Scheduler() makes of the states st of the processes: it parts none, *)
(* and the process it picks is not parted.                                  *)
Parts(st) ==
  /\ CallerLive'
  /\ \A p \in Pid : \A s \in Parted : state'[p] = s => st[p] = s

LEMMA SchedulerParts ==
  ASSUME NEW run \in Pid \cup {NONE}, NEW rq \in Seq(Pid), NEW st \in [Pid -> State],
         run > 0 => st[run] \notin Parted,
         Scheduler(run, rq, st)
  PROVE  Parts(st)
<1>1. CASE run > 0
  BY <1>1, PidFacts DEF Scheduler, Parts, CallerLive, NONE
<1>2. CASE ~(run > 0) /\ rq # <<>>
  <2>1. Head(rq) \in Pid
    BY <1>2, TailRemoves
  <2>2. /\ running_pid' = Head(rq)
        /\ state' = [st EXCEPT ![0] = IF run = 0 THEN "READY" ELSE @,
                               ![Head(rq)] = "RUN"]
    BY <1>2, PidFacts DEF Scheduler
  <2>3. QED
    BY <2>1, <2>2, PidFacts DEF Parts, CallerLive, Parted
<1>3. CASE ~(run > 0) /\ rq = <<>>
  <2>1. running_pid' = 0 /\ state' = [st EXCEPT ![0] = "RUN"]
    BY <1>3, PidFacts DEF Scheduler
  <2>2. QED
    BY <2>1, PidFacts DEF Parts, CallerLive, Parted
<1>4. QED
  BY <1>1, <1>2, <1>3

(* The ways a handler ends.                                                 *)
LEMMA ResumeParts ==
  ASSUME TypeOK, CallerLive, Resume
  PROVE  Parts(state)
BY SchedulerParts DEF TypeOK, CallerLive, Resume

LEMMA BlockParts ==
  ASSUME TypeOK, NEW s \in State, Block(s)
  PROVE  Parts([state EXCEPT ![running_pid] = s])
<1>1. [state EXCEPT ![running_pid] = s] \in [Pid -> State] /\ ready_q \in Seq(Pid)
  BY DEF TypeOK
<1>2. ~(NONE > 0)
  BY DEF NONE
<1>3. QED
  BY <1>1, <1>2, SchedulerParts DEF Block

LEMMA WakeParts ==
  ASSUME TypeOK, CallerLive, NEW p \in Pid, Wake(p)
  PROVE  Parts([state EXCEPT ![p] = "READY"])
<1>1. /\ [state EXCEPT ![p] = "READY"] \in [Pid -> State]
      /\ EnQ(p, ready_q) \in Seq(Pid) /\ running_pid \in Pid
      /\ [state EXCEPT ![p] = "READY"][running_pid] \notin Parted
  BY EnQType DEF TypeOK, State, CallerLive, Parted
<1>2. QED
  BY <1>1, SchedulerParts DEF Wake

(* No step parts a process but the one in which it calls Wait() or exits.   *)
NoneParts ==
  /\ CallerLive'
  /\ \A p \in Pid : \A s \in Parted : state'[p] = s => state[p] = s

LEMMA ResumeParted ==
  ASSUME TypeOK, CallerLive, Resume
  PROVE  NoneParts
BY ResumeParts DEF Parts, NoneParts

LEMMA BlockParted ==
  ASSUME TypeOK, NEW s \in State \ Parted, Block(s)
  PROVE  NoneParts
<1>1. Parts([state EXCEPT ![running_pid] = s])
  BY BlockParts
<1>2. QED
  BY <1>1 DEF TypeOK, Parts, NoneParts

LEMMA WakeParted ==
  ASSUME TypeOK, CallerLive, NEW p \in Pid, Wake(p)
  PROVE  NoneParts /\ \A s \in Parted : state'[p] # s
<1>1. Parts([state EXCEPT ![p] = "READY"])
  BY WakeParts
<1>2. QED
  BY <1>1 DEF TypeOK, Parts, NoneParts, Parted

LEMMA TimerParted ==
  ASSUME TypeOK, CallerLive, Timer
  PROVE  NoneParts
<1>1. ASSUME NEW run \in Pid \cup {NONE}, NEW rq \in Seq(Pid),
             NEW st \in [Pid -> State],
             run > 0 => st[run] \notin Parted,
             \A p \in Pid : \A s \in Parted : st[p] = s => state[p] = s,
             WakeSleepers(run, rq, st)
      PROVE  NoneParts
  <2> DEFINE woken == Select(sleep_q, Due)
             marked == [p \in Pid |-> IF p \in Range(woken) THEN "READY" ELSE st[p]]
  <2>1. woken \in Seq(Pid)
    BY SelectSelects DEF TypeOK
  <2>2. marked \in [Pid -> State] /\ EnQAll(woken, rq) \in Seq(Pid)
    BY <2>1, EnQAllAdds DEF State
  <2>3. \A p \in Pid : marked[p] = "READY" \/ marked[p] = st[p]
    OBVIOUS
  <2>4. Scheduler(run, EnQAll(woken, rq), marked)
    BY <1>1 DEF WakeSleepers
  <2> HIDE DEF woken, marked
  <2>5. run > 0 => marked[run] \notin Parted
    BY <1>1, <2>3, PidFacts DEF NONE, Parted
  <2>6. Parts(marked)
    BY <2>2, <2>4, <2>5, SchedulerParts
  <2>7. QED
    BY <1>1, <2>3, <2>6 DEF Parts, NoneParts, Parted
<1>2. running_pid \in Pid /\ ready_q \in Seq(Pid) /\ state \in [Pid -> State]
  BY DEF TypeOK
<1>3. CASE SliceOver
  <2> DEFINE st == [state EXCEPT ![running_pid] = "READY"]
  <2>1. /\ EnQ(running_pid, ready_q) \in Seq(Pid) /\ st \in [Pid -> State]
        /\ \A p \in Pid : \A s \in Parted : st[p] = s => state[p] = s
    BY <1>2, EnQType DEF State, Parted
  <2>2. WakeSleepers(NONE, EnQ(running_pid, ready_q), st)
    BY <1>3 DEF Timer
  <2>3. ~(NONE > 0)
    BY DEF NONE
  <2> HIDE DEF st
  <2>4. QED
    BY <1>1, <2>1, <2>2, <2>3
<1>4. CASE ~SliceOver
  BY <1>1, <1>2, <1>4 DEF Timer, CallerLive
<1>5. QED
  BY <1>3, <1>4

(* A step that parts nobody, gives zombies no page and no other parent.     *)
LEMMA SeenKept ==
  ASSUME NoLostExit, NoneParts,
         \A c \in Pid : state'[c] = "ZOMBIE" =>
           /\ ppid'[c] = ppid[c]
           /\ \A i \in Page : DRAM'[i] = c => DRAM[i] = c
  PROVE  NoLostExit' /\ CallerLive'
<1> SUFFICES ASSUME NEW p \in Pid, NEW c \in Pid,
                    state'[p] = "FORKWAIT", state'[c] = "ZOMBIE", ppid'[c] = p
             PROVE  PagesOf(c)' = {}
  BY DEF NoLostExit, NoneParts
<1>1. state[p] = "FORKWAIT" /\ state[c] = "ZOMBIE" /\ ppid[c] = p
  BY DEF NoneParts, Parted
<1>2. PagesOf(c) = {}
  BY <1>1 DEF NoLostExit
<1>3. QED
  BY <1>2 DEF PagesOf

(* A new process is ready, and nobody's zombie.                             *)
LEMMA StartSeen ==
  ASSUME TypeOK, CallerLive, NoLostExit, StartProc
  PROVE  NoLostExit' /\ CallerLive'
<1>1. Head(free_q) \in Pid
  BY TailRemoves DEF StartProc, TypeOK
<1>2. CASE Head(free_q) # 0
  BY <1>1, <1>2, WakeParted, SeenKept DEF StartProc
<1>3. CASE Head(free_q) = 0
  <2> DEFINE st == [state EXCEPT ![0] = "READY"]
  <2>1. /\ st \in [Pid -> State] /\ running_pid \in Pid /\ ready_q \in Seq(Pid)
        /\ st[running_pid] \notin Parted
        /\ \A p \in Pid : \A s \in Parted : st[p] = s => state[p] = s
    BY PidFacts DEF TypeOK, State, CallerLive, Parted
  <2>2. Scheduler(running_pid, ready_q, st)
    BY <1>3 DEF StartProc
  <2> HIDE DEF st
  <2>3. Parts(st)
    BY <2>1, <2>2, SchedulerParts
  <2>4. NoneParts
    BY <2>1, <2>3 DEF Parts, NoneParts
  <2>5. QED
    BY <2>4, SeenKept DEF StartProc
<1>4. QED
  BY <1>2, <1>3

(* The child of Fork() is ready; zombies keep their parents.                *)
LEMMA ForkSeen ==
  ASSUME TypeOK, CallerLive, NoLostExit, Fork
  PROVE  NoLostExit' /\ CallerLive'
<1>1. CASE ForkFails
  BY <1>1, ResumeParted, SeenKept DEF Fork, procVars
<1>2. CASE ~ForkFails
  <2> DEFINE child == Head(free_q)
             pages == Lowest(FORK_PAGES, FreePages)
  <2>1. child \in Pid
    BY <1>2, TailRemoves DEF ForkFails, TypeOK
  <2>2. /\ DRAM' = [i \in Page |-> IF i \in pages THEN child ELSE DRAM[i]]
        /\ ppid' = [ppid EXCEPT ![child] = running_pid]
        /\ Wake(child)
    BY <1>2 DEF Fork, ForkSucceeds
  <2> HIDE DEF child, pages
  <2>3. NoneParts /\ state'[child] # "ZOMBIE"
    BY <2>1, <2>2, WakeParted DEF Parted
  <2>4. \A c \in Pid \ {child} : /\ ppid'[c] = ppid[c]
                                 /\ \A i \in Page : DRAM'[i] = c => DRAM[i] = c
    BY <2>2 DEF TypeOK
  <2>5. QED
    BY <2>3, <2>4, SeenKept
<1>3. QED
  BY <1>1, <1>2

(* A process starts to wait only when it finds no page of a zombie child.   *)
LEMMA WaitSeen ==
  ASSUME TypeOK, CallerLive, NoLostExit, Wait
  PROVE  NoLostExit' /\ CallerLive'
<1>1. CASE ZombiePages = {} /\ Block("FORKWAIT") /\ DRAM' = DRAM
  <2> DEFINE st == [state EXCEPT ![running_pid] = "FORKWAIT"]
  <2>1. Parts(st)
    BY <1>1, BlockParts DEF State
  <2>2. /\ st[running_pid] = "FORKWAIT"
        /\ \A p \in Pid \ {running_pid} : st[p] = state[p]
    BY DEF TypeOK
  <2> HIDE DEF st
  <2>3. ASSUME NEW p \in Pid, NEW c \in Pid,
               state'[p] = "FORKWAIT", state'[c] = "ZOMBIE", ppid'[c] = p
        PROVE  PagesOf(c)' = {}
    <3>1. st[p] = "FORKWAIT" /\ st[c] = "ZOMBIE"
      BY <2>1, <2>3 DEF Parts, Parted
    <3>2. c # running_pid /\ state[c] = "ZOMBIE" /\ ppid[c] = p
      BY <2>2, <2>3, <3>1 DEF Wait
    <3>3. CASE p = running_pid
      BY <1>1, <3>2, <3>3, PidFacts DEF ZombiePages, PagesOf
    <3>4. CASE p # running_pid
      BY <1>1, <2>2, <3>1, <3>2, <3>4 DEF NoLostExit, PagesOf
    <3>5. QED
      BY <3>3, <3>4
  <2>4. QED
    BY <2>1, <2>3 DEF NoLostExit, Parts
<1>2. ASSUME NEW i \in ZombiePages, Reap(i)
      PROVE  NoLostExit' /\ CallerLive'
  <2>1. NoneParts
    BY <1>2, ResumeParted DEF Reap
  <2>2. ppid' = ppid /\ DRAM' = [DRAM EXCEPT ![i] = NONE]
    BY <1>2 DEF Wait, Reap
  <2>3. \A c \in Pid : \A j \in Page : DRAM'[j] = c => DRAM[j] = c
    BY <2>2, PidFacts DEF TypeOK
  <2>4. QED
    BY <2>1, <2>2, <2>3, SeenKept
<1>3. QED
  BY <1>1, <1>2 DEF Wait

(* A process becomes a zombie only when its parent does not wait.           *)
LEMMA ExitSeen ==
  ASSUME TypeOK, CallerLive, NoLostExit, ExitISR
  PROVE  NoLostExit' /\ CallerLive'
<1> DEFINE parent == ppid[running_pid]
<1>1. running_pid \in Pid /\ parent \in Pid /\ state \in [Pid -> State]
  BY DEF TypeOK
<1>2. CASE state[parent] # "FORKWAIT"
  <2> DEFINE st == [state EXCEPT ![running_pid] = "ZOMBIE"]
  <2>1. Block("ZOMBIE") /\ ppid' = ppid /\ DRAM' = DRAM
    BY <1>2 DEF ExitISR, procVars
  <2>2. Parts(st)
    BY <2>1, BlockParts DEF State
  <2>3. /\ st[running_pid] = "ZOMBIE"
        /\ \A p \in Pid \ {running_pid} : st[p] = state[p]
    BY <1>1
  <2> HIDE DEF st
  <2>4. ASSUME NEW p \in Pid, NEW c \in Pid,
               state'[p] = "FORKWAIT", state'[c] = "ZOMBIE", ppid'[c] = p
        PROVE  PagesOf(c)' = {}
    <3>1. st[p] = "FORKWAIT" /\ st[c] = "ZOMBIE"
      BY <2>2, <2>4 DEF Parts, Parted
    <3>2. p # running_pid /\ state[p] = "FORKWAIT" /\ ppid[c] = p
      BY <2>1, <2>3, <2>4, <3>1
    <3>3. c # running_pid /\ state[c] = "ZOMBIE"
      BY <1>2, <2>3, <3>1, <3>2
    <3>4. QED
      BY <2>1, <3>2, <3>3 DEF NoLostExit, PagesOf
  <2>5. QED
    BY <2>2, <2>4 DEF NoLostExit, Parts
<1>3. CASE state[parent] = "FORKWAIT"
  <2> DEFINE st == [state EXCEPT ![parent] = "READY", ![running_pid] = "FREE"]
             pages == Lowest(FORK_PAGES, {i \in Page : DRAM[i] = running_pid})
  <2>1. /\ DRAM' = [i \in Page |-> IF i \in pages THEN NONE ELSE DRAM[i]]
        /\ ppid' = [ppid EXCEPT ![running_pid] = 0]
        /\ Scheduler(NONE, EnQ(parent, ready_q), st)
    BY <1>3 DEF ExitISR, Leave, ClearPCB
  <2>2. /\ st \in [Pid -> State] /\ EnQ(parent, ready_q) \in Seq(Pid)
        /\ st[running_pid] = "FREE"
        /\ \A p \in Pid : \A s \in Parted : st[p] = s => state[p] = s
    BY <1>1, EnQType DEF TypeOK, State, Parted
  <2>3. ~(NONE > 0)
    BY DEF NONE
  <2> HIDE DEF st, pages, parent
  <2>4. Parts(st)
    BY <2>1, <2>2, <2>3, SchedulerParts
  <2>5. NoneParts /\ state'[running_pid] # "ZOMBIE"
    BY <1>1, <2>2, <2>4 DEF Parts, NoneParts, Parted
  <2>6. \A c \in Pid \ {running_pid} :
          ppid'[c] = ppid[c] /\ \A i \in Page : DRAM'[i] = c => DRAM[i] = c
    BY <2>1, PidFacts DEF TypeOK
  <2>7. QED
    BY <2>5, <2>6, SeenKept
<1>4. QED
  BY <1>2, <1>3

(* A zombie does not touch its pages any more: it is given no new ones.     *)
LEMMA PageFaultSeen ==
  ASSUME TypeOK, CallerLive, NoLostExit, PageFault
  PROVE  NoLostExit' /\ CallerLive'
<1>1. ASSUME NEW i \in FreePages, DRAM' = [DRAM EXCEPT ![i] = running_pid],
             Resume, UNCHANGED ppid
      PROVE  NoLostExit' /\ CallerLive'
  <2>1. NoneParts
    BY <1>1, ResumeParted
  <2>2. \A c \in Pid : state'[c] = "ZOMBIE" => c # running_pid
    BY <2>1 DEF NoneParts, CallerLive, Parted
  <2>3. \A c \in Pid \ {running_pid} : \A j \in Page : DRAM'[j] = c => DRAM[j] = c
    BY <1>1 DEF TypeOK
  <2>4. QED
    BY <1>1, <2>1, <2>2, <2>3, SeenKept
<1>2. CASE ExitISR
  BY <1>2, ExitSeen
<1>3. QED
  BY <1>1, <1>2 DEF PageFault

(***************************************************************************)
(* The exit of a child is seen by ExitISR() or by WaitISR(), whichever     *)
(* comes last, also when PIDs are handed out twice.  The invariant adds    *)
(* to NoLostExit that the running process is no zombie and does not wait.  *)
(***************************************************************************)
THEOREM ExitsSeen == Spec => []NoLostExit
<1>1. Init => NoLostExit /\ CallerLive
  BY PidFacts DEF Init, NoLostExit, CallerLive, Parted
<1>2. TypeOK /\ NoLostExit /\ CallerLive /\ [Next]_vars => NoLostExit' /\ CallerLive'
  <2> SUFFICES ASSUME TypeOK, NoLostExit, CallerLive, [Next]_vars
               PROVE  NoLostExit' /\ CallerLive'
    OBVIOUS
  <2>1. NoneParts /\ UNCHANGED procVars => NoLostExit' /\ CallerLive'
    BY SeenKept DEF procVars
  <2>2. CASE Timer
    BY <2>1, <2>2, TimerParted DEF Timer
  <2>3. CASE GetPid
    BY <2>1, <2>3, ResumeParted DEF GetPid
  <2>4. ASSUME NEW ticks \in SleepTicks, Sleep(ticks)
         PROVE  NoLostExit' /\ CallerLive'
    <3>1. "SLEEP" \in State \ Parted
      BY DEF State, Parted
    <3>2. QED
      BY <2>1, <2>4, <3>1, BlockParted DEF Sleep
  <2>5. ASSUME NEW lim \in SemLimits, SemGet(lim)
         PROVE  NoLostExit' /\ CallerLive'
    BY <2>1, <2>5, ResumeParted DEF SemGet
  <2>6. "WAIT" \in State \ Parted
    BY DEF State, Parted
  <2>7. ASSUME NEW s \in Sem, SemWait(s)
         PROVE  NoLostExit' /\ CallerLive'
    BY <2>1, <2>6, <2>7, BlockParted, ResumeParted DEF SemWait
  <2>8. ASSUME NEW s \in Sem, SemPostISR(s)
         PROVE  NoLostExit' /\ CallerLive'
    <3>1. sem_wait_q[s] # <<>> => Head(sem_wait_q[s]) \in Pid
      BY TailRemoves DEF TypeOK
    <3>2. QED
      BY <2>1, <2>8, <3>1, ResumeParted, WakeParted DEF SemPostISR
  <2>9. CASE IRQ3 \/ IRQ7
    <3>1. printing_semaphore \in Sem
      BY KernelAssumption, QueueAssumption DEF printing_semaphore, Sem
    <3>2. QED
      BY <2>8, <2>9, <3>1 DEF IRQ3, IRQ7, Allocated
  <2>10. ASSUME NEW to \in Pid, NEW d \in Data, MsgSnd(to, d)
         PROVE  NoLostExit' /\ CallerLive'
    <3>1. msg_wait_q[to] # <<>> => Head(msg_wait_q[to]) \in Pid
      BY TailRemoves DEF TypeOK
    <3>2. QED
      BY <2>1, <2>10, <3>1, ResumeParted, WakeParted DEF MsgSnd
  <2>11. CASE MsgRcv
    BY <2>1, <2>6, <2>11, BlockParted, ResumeParted DEF MsgRcv
  <2>12. CASE StartProc
    BY <2>12, StartSeen
  <2>13. CASE Fork
    BY <2>13, ForkSeen
  <2>14. CASE Wait
    BY <2>14, WaitSeen
  <2>15. CASE Exit
    BY <2>15, ExitSeen DEF Exit
  <2>16. CASE PageFault
    BY <2>16, PageFaultSeen
  <2>17. CASE UNCHANGED vars
    BY <2>17 DEF vars, schedVars, procVars, NoLostExit, CallerLive, PagesOf
  <2>18. QED
    BY <2>2, <2>3, <2>4, <2>5, <2>7, <2>8, <2>9, <2>10, <2>11, <2>12, <2>13,
       <2>14, <2>15, <2>16, <2>17 DEF Next, SemPost
<1>3. QED
  BY <1>1, <1>2, TypeCorrect, PTL DEF Spec

-----------------------------------------------------------------------------
(***************************************************************************)
(* Pages.                                                                  *)
(***************************************************************************)

(* A step that takes no page from a forked process, and forks none.         *)
LEMMA HeldKept ==
  ASSUME TypeOK, PagesHeld,
         \A p \in Pid : trans_table'[p] \in Page =>
           Forked(p) /\ \A i \in Page : DRAM[i] = p => DRAM'[i] = p
  PROVE  PagesHeld'
<1> SUFFICES ASSUME NEW p \in Pid, trans_table'[p] \in Page
             PROVE  Cardinality(PagesOf(p)') >= FORK_PAGES
  BY DEF PagesHeld, Forked
<1>1. Cardinality(PagesOf(p)) >= FORK_PAGES
  BY DEF PagesHeld
<1>2. PagesOf(p) \in SUBSET PagesOf(p)' /\ PagesOf(p)' \in SUBSET Page
  BY DEF PagesOf
<1>3. IsFiniteSet(PagesOf(p)')
  BY <1>2, PageFacts, FS_Subset
<1>4. /\ Cardinality(PagesOf(p)) <= Cardinality(PagesOf(p)')
      /\ Cardinality(PagesOf(p)) \in Nat /\ Cardinality(PagesOf(p)') \in Nat
  BY <1>2, <1>3, FS_Subset, FS_CardinalityType
<1>5. QED
  BY <1>1, <1>4, PageFacts

(* Fork() takes free pages only, and finds enough of them.                  *)
LEMMA ForkHeld ==
  ASSUME TypeOK, PagesHeld, Fork
  PROVE  PagesHeld'
<1>1. CASE ForkFails
  BY <1>1, HeldKept DEF Fork, procVars, Forked
<1>2. CASE ~ForkFails
  <2> DEFINE child == Head(free_q)
             pages == Lowest(FORK_PAGES, FreePages)
  <2>1. child \in Pid
    BY <1>2, TailRemoves DEF ForkFails, TypeOK
  <2>2. pages \in SUBSET FreePages /\ FreePages \in SUBSET Page
    BY DEF Lowest, FreePages
  <2>3. Cardinality(pages) = FORK_PAGES
    <3>1. IsFiniteSet(FreePages) /\ FreePages \in SUBSET Int
      BY <2>2, PageFacts, FS_Subset
    <3>2. Cardinality(FreePages) \in Nat /\ FORK_PAGES \in Nat
      BY <3>1, PageFacts, FS_CardinalityType
    <3>3. FORK_PAGES <= Cardinality(FreePages)
      BY <1>2, <3>2 DEF ForkFails
    <3>4. QED
      BY <3>1, <3>2, <3>3, LowestSize
  <2>4. PICK main_table \in pages :
          trans_table' = [trans_table EXCEPT ![child] = main_table]
    BY <1>2 DEF Fork, ForkSucceeds
  <2>5. DRAM' = [i \in Page |-> IF i \in pages THEN child ELSE DRAM[i]]
    BY <1>2 DEF Fork, ForkSucceeds
  <2> HIDE DEF child, pages
  <2>6. ASSUME NEW p \in Pid, trans_table'[p] \in Page
        PROVE  Cardinality(PagesOf(p)') >= FORK_PAGES
    <3>1. PagesOf(p)' \in SUBSET Page
      BY DEF PagesOf
    <3>2. IsFiniteSet(PagesOf(p)') /\ Cardinality(PagesOf(p)') \in Nat
      BY <3>1, PageFacts, FS_Subset, FS_CardinalityType
    <3>3. CASE p = child
      <4>1. pages \in SUBSET PagesOf(p)'
        BY <2>2, <2>5, <3>3 DEF PagesOf
      <4>2. Cardinality(pages) <= Cardinality(PagesOf(p)')
        BY <3>2, <4>1, FS_Subset
      <4>3. QED
        BY <2>3, <3>2, <4>2, PageFacts
    <3>4. CASE p # child
      <4>1. trans_table[p] \in Page
        BY <2>4, <2>6, <3>4 DEF TypeOK
      <4>2. PagesOf(p) \in SUBSET PagesOf(p)'
        BY <2>2, <2>5, PidFacts DEF PagesOf, FreePages
      <4>3. /\ Cardinality(PagesOf(p)) <= Cardinality(PagesOf(p)')
            /\ Cardinality(PagesOf(p)) \in Nat
        BY <3>2, <4>2, FS_Subset, FS_CardinalityType
      <4>4. QED
        BY <3>2, <4>1, <4>3, PageFacts DEF PagesHeld, Forked
    <3>5. QED
      BY <3>3, <3>4
  <2>7. QED
    BY <2>6 DEF PagesHeld, Forked
<1>3. QED
  BY <1>1, <1>2

(* A process that leaves is not forked any more; the others keep theirs.    *)
LEMMA ExitHeld ==
  ASSUME TypeOK, PagesHeld, ExitISR
  PROVE  PagesHeld'
<1>1. CASE UNCHANGED procVars
  BY <1>1, HeldKept DEF procVars, Forked
<1>2. CASE Leave(ppid[running_pid])
  <2> DEFINE pages == Lowest(FORK_PAGES, {i \in Page : DRAM[i] = running_pid})
  <2>1. /\ DRAM' = [i \in Page |-> IF i \in pages THEN NONE ELSE DRAM[i]]
        /\ trans_table' = [trans_table EXCEPT ![running_pid] = NONE]
    BY <1>2 DEF Leave, ClearPCB
  <2>2. \A i \in pages : DRAM[i] = running_pid
    BY DEF Lowest
  <2> HIDE DEF pages
  <2>3. trans_table'[running_pid] \notin Page
    BY <2>1, PageFacts DEF TypeOK
  <2>4. \A p \in Pid \ {running_pid} :
          /\ trans_table'[p] = trans_table[p]
          /\ \A i \in Page : DRAM[i] = p => DRAM'[i] = p
    BY <2>1, <2>2 DEF TypeOK
  <2>5. QED
    BY <2>3, <2>4, HeldKept DEF Forked
<1>3. QED
  BY <1>1, <1>2 DEF ExitISR

LEMMA PageFaultHeld ==
  ASSUME TypeOK, PagesHeld, PageFault
  PROVE  PagesHeld'
<1>1. ASSUME NEW i \in FreePages, DRAM' = [DRAM EXCEPT ![i] = running_pid],
             UNCHANGED trans_table
      PROVE  PagesHeld'
  <2>1. \A p \in Pid : \A j \in Page : DRAM[j] = p => DRAM'[j] = p
    BY <1>1, PidFacts DEF FreePages, TypeOK
  <2>2. QED
    BY <1>1, <2>1, HeldKept DEF Forked
<1>2. CASE ExitISR
  BY <1>2, ExitHeld
<1>3. QED
  BY <1>1, <1>2 DEF PageFault

(***************************************************************************)
(* A forked process keeps the pages ForkISR() gave it until its PCB is     *)
(* cleared, as long as Wait() finds no zombies.                            *)
(***************************************************************************)
THEOREM PagesKept == ASSUME ReapsZombies = FALSE PROVE Spec => []PagesHeld
<1>1. Init => PagesHeld
  <2> SUFFICES ASSUME Init PROVE \A p \in Pid : ~Forked(p)
    BY DEF PagesHeld
  <2>1. QED
    BY PageFacts DEF Init, Forked
<1>2. TypeOK /\ PagesHeld /\ [Next]_vars => PagesHeld'
  <2> SUFFICES ASSUME TypeOK, PagesHeld, [Next]_vars PROVE PagesHeld'
    OBVIOUS
  <2>1. UNCHANGED <<trans_table, DRAM>> => PagesHeld'
    BY HeldKept DEF Forked
  <2>2. CASE Timer \/ GetPid \/ MsgRcv
    BY <2>1, <2>2 DEF Timer, GetPid, MsgRcv, procVars
  <2>3. ASSUME NEW ticks \in SleepTicks, Sleep(ticks) PROVE PagesHeld'
    BY <2>1, <2>3 DEF Sleep, procVars
  <2>4. ASSUME NEW lim \in SemLimits, SemGet(lim) PROVE PagesHeld'
    BY <2>1, <2>4 DEF SemGet, procVars
  <2>5. ASSUME NEW s \in Sem, SemWait(s) \/ SemPost(s) PROVE PagesHeld'
    BY <2>1, <2>5 DEF SemWait, SemPost, SemPostISR, procVars
  <2>6. CASE IRQ3 \/ IRQ7
    BY <2>1, <2>6 DEF IRQ3, IRQ7, SemPostISR, procVars
  <2>7. ASSUME NEW to \in Pid, NEW d \in Data, MsgSnd(to, d) PROVE PagesHeld'
    BY <2>1, <2>7 DEF MsgSnd, procVars
  <2>8. CASE StartProc
    <3>1. /\ DRAM' = DRAM
          /\ trans_table' = [trans_table EXCEPT ![Head(free_q)] = OS_trans_table]
      BY <2>8 DEF StartProc
    <3>2. \A p \in Pid : trans_table'[p] \in Page => trans_table[p] \in Page
      BY <3>1, PageFacts DEF TypeOK
    <3>3. QED
      BY <3>1, <3>2, HeldKept DEF Forked
  <2>9. CASE Fork
    BY <2>9, ForkHeld
  <2>10. CASE Wait
    BY <2>1, <2>10 DEF Wait
  <2>11. CASE Exit
    BY <2>11, ExitHeld DEF Exit
  <2>12. CASE PageFault
    BY <2>12, PageFaultHeld
  <2>13. CASE UNCHANGED vars
    BY <2>1, <2>13 DEF vars, procVars
  <2>14. QED
    BY <2>2, <2>3, <2>4, <2>5, <2>6, <2>7, <2>8, <2>9, <2>10, <2>11, <2>12,
       <2>13 DEF Next
<1>3. QED
  BY <1>1, <1>2, TypeCorrect, PTL DEF Spec

-----------------------------------------------------------------------------
(***************************************************************************)
(* Translation tables.                                                     *)
(***************************************************************************)

(* A step that frees no PID, and takes no page from a process.              *)
LEMMA OwnedKept ==
  ASSUME TableOwned, OnePlace, OnePlace', UNCHANGED <<free_q, trans_table>>,
         \A p \in Pid : \A i \in Page : DRAM[i] = p => DRAM'[i] = p
  PROVE  TableOwned'
<1>1. InState("FREE")' = InState("FREE")
  BY DEF OnePlace, FreePlaced, Holds
<1>2. \A p \in Pid : state[p] = "FREE" => state'[p] = "FREE"
  BY <1>1 DEF InState
<1>3. QED
  BY <1>2 DEF TableOwned, Forked

(* Taking a PID from free_q leaves the others where they are.               *)
LEMMA StillFree ==
  ASSUME TypeOK, OnePlace, OnePlace', free_q # <<>>, free_q' = Tail(free_q),
         NEW p \in Pid, p # Head(free_q), state[p] = "FREE"
  PROVE  state'[p] = "FREE"
<1>1. free_q \in Seq(Pid) /\ IsInjective(free_q) /\ Range(free_q) = InState("FREE")
  BY DEF TypeOK, OnePlace, FreePlaced, Holds
<1>2. Range(Tail(free_q)) = InState("FREE") \ {Head(free_q)}
  BY <1>1, TailRemoves
<1>3. InState("FREE")' = Range(Tail(free_q))
  BY DEF OnePlace, FreePlaced, Holds
<1>4. QED
  BY <1>2, <1>3 DEF InState

LEMMA StartOwned ==
  ASSUME TypeOK, TableOwned, OnePlace, OnePlace', StartProc
  PROVE  TableOwned'
<1>1. /\ DRAM' = DRAM /\ free_q # <<>> /\ free_q' = Tail(free_q)
      /\ trans_table' = [trans_table EXCEPT ![Head(free_q)] = OS_trans_table]
  BY DEF StartProc
<1>2. ASSUME NEW p \in Pid, p # Head(free_q)
      PROVE  trans_table'[p] = trans_table[p] /\ (state[p] = "FREE" => state'[p] = "FREE")
  BY <1>1, <1>2, StillFree DEF TypeOK
<1>3. \A p \in Pid : p = Head(free_q) => trans_table'[p] = OS_trans_table
  BY <1>1 DEF TypeOK
<1>4. QED
  BY <1>1, <1>2, <1>3 DEF TableOwned, Forked

(* The table of a new process is one of its pages; tables in use are not    *)
(* among the pages it is given, which were free.                            *)
LEMMA ForkOwned ==
  ASSUME TypeOK, TableOwned, OnePlace, OnePlace', Fork
  PROVE  TableOwned'
<1>1. CASE ForkFails
  BY <1>1, OwnedKept DEF Fork, procVars
<1>2. CASE ~ForkFails
  <2> DEFINE child == Head(free_q)
             pages == Lowest(FORK_PAGES, FreePages)
  <2>1. free_q # <<>> /\ free_q' = Tail(free_q)
    BY <1>2 DEF ForkFails, Fork, ForkSucceeds
  <2>2. pages \in SUBSET FreePages /\ FreePages \in SUBSET Page
    BY DEF Lowest, FreePages
  <2>3. PICK main_table \in pages :
          trans_table' = [trans_table EXCEPT ![child] = main_table]
    BY <1>2 DEF Fork, ForkSucceeds
  <2>4. DRAM' = [i \in Page |-> IF i \in pages THEN child ELSE DRAM[i]]
    BY <1>2 DEF Fork, ForkSucceeds
  <2>5. \A p \in Pid : p # child /\ state[p] = "FREE" => state'[p] = "FREE"
    BY <2>1, StillFree
  <2> HIDE DEF child, pages
  <2>6. \A p \in Pid : p = child =>
          trans_table'[p] \in Page /\ DRAM'[trans_table'[p]] = p
    BY <2>2, <2>3, <2>4 DEF TypeOK
  <2>7. ASSUME NEW p \in Pid, p # child
        PROVE  /\ trans_table'[p] = trans_table[p]
               /\ \A i \in Page : DRAM[i] = p => DRAM'[i] = p
    BY <2>2, <2>3, <2>4, <2>7, PidFacts DEF TypeOK, FreePages
  <2>8. QED
    BY <2>5, <2>6, <2>7 DEF TableOwned, Forked
<1>3. QED
  BY <1>1, <1>2

(* The PID of a process that leaves joins the free ones.                    *)
LEMMA LeaverFree ==
  ASSUME TypeOK, OnePlace, OnePlace', running_pid > 0,
         free_q' = EnQ(running_pid, free_q)
  PROVE  InState("FREE")' = InState("FREE") \cup {running_pid}
<1>1. running_pid \in Pid /\ running_pid \notin InState("FREE")
  BY CallerRuns DEF InState
<1>2. free_q \in Seq(Pid) /\ Holds(free_q, InState("FREE"))
  BY DEF TypeOK, OnePlace, FreePlaced
<1>3. Holds(EnQ(running_pid, free_q), InState("FREE") \cup {running_pid})
  BY <1>1, <1>2, EnQPlaces
<1>4. QED
  BY <1>3 DEF OnePlace, FreePlaced, Holds

(* A process that leaves has no table, and its PID is free.                 *)
LEMMA ExitOwned ==
  ASSUME TypeOK, TableOwned, OnePlace, OnePlace', running_pid > 0, ExitISR
  PROVE  TableOwned'
<1>1. CASE UNCHANGED procVars
  BY <1>1, OwnedKept DEF procVars
<1>2. CASE Leave(ppid[running_pid])
  <2> DEFINE pages == Lowest(FORK_PAGES, {i \in Page : DRAM[i] = running_pid})
  <2>1. /\ DRAM' = [i \in Page |-> IF i \in pages THEN NONE ELSE DRAM[i]]
        /\ trans_table' = [trans_table EXCEPT ![running_pid] = NONE]
        /\ free_q' = EnQ(running_pid, free_q)
    BY <1>2 DEF Leave, ClearPCB
  <2>2. \A i \in pages : DRAM[i] = running_pid
    BY DEF Lowest
  <2> HIDE DEF pages
  <2>3. InState("FREE")' = InState("FREE") \cup {running_pid}
    BY <2>1, LeaverFree
  <2>4. \A p \in Pid : state[p] = "FREE" \/ p = running_pid => state'[p] = "FREE"
    BY <2>3 DEF InState
  <2>5. \A p \in Pid : p = running_pid => trans_table'[p] = NONE
    BY <2>1 DEF TypeOK
  <2>6. \A p \in Pid \ {running_pid} :
          /\ trans_table'[p] = trans_table[p]
          /\ \A i \in Page : DRAM[i] = p => DRAM'[i] = p
    BY <2>1, <2>2 DEF TypeOK
  <2>7. QED
    BY <2>4, <2>5, <2>6 DEF TableOwned, Forked
<1>3. QED
  BY <1>1, <1>2 DEF ExitISR

LEMMA PageFaultOwned ==
  ASSUME TypeOK, TableOwned, OnePlace, OnePlace', PageFault
  PROVE  TableOwned'
<1>1. ASSUME NEW i \in FreePages, DRAM' = [DRAM EXCEPT ![i] = running_pid],
             UNCHANGED <<free_q, trans_table>>
      PROVE  TableOwned'
  <2>1. \A p \in Pid : \A j \in Page : DRAM[j] = p => DRAM'[j] = p
    BY <1>1, PidFacts DEF FreePages, TypeOK
  <2>2. QED
    BY <1>1, <2>1, OwnedKept
<1>2. CASE ExitISR
  BY <1>2, ExitOwned DEF PageFault, Syscall
<1>3. QED
  BY <1>1, <1>2 DEF PageFault

LEMMA OwnedInit == Init => TableOwned
BY DEF Init, TableOwned

(* Every step leaves the tables in use to their owners.                     *)
LEMMA OwnedNext ==
  ASSUME ReapsZombies = FALSE
  PROVE  TypeOK /\ OnePlace /\ OnePlace' /\ TableOwned /\ [Next]_vars => TableOwned'
<1> SUFFICES ASSUME TypeOK, OnePlace, OnePlace', TableOwned, [Next]_vars
             PROVE  TableOwned'
  OBVIOUS
<1>1. UNCHANGED <<free_q, trans_table, DRAM>> => TableOwned'
  BY OwnedKept
<1>2. CASE Timer \/ GetPid \/ MsgRcv
  BY <1>1, <1>2 DEF Timer, GetPid, MsgRcv, procVars
<1>3. ASSUME NEW ticks \in SleepTicks, Sleep(ticks) PROVE TableOwned'
  BY <1>1, <1>3 DEF Sleep, procVars
<1>4. ASSUME NEW lim \in SemLimits, SemGet(lim) PROVE TableOwned'
  BY <1>1, <1>4 DEF SemGet, procVars
<1>5. ASSUME NEW s \in Sem, SemWait(s) \/ SemPost(s) PROVE TableOwned'
  BY <1>1, <1>5 DEF SemWait, SemPost, SemPostISR, procVars
<1>6. CASE IRQ3 \/ IRQ7
  BY <1>1, <1>6 DEF IRQ3, IRQ7, SemPostISR, procVars
<1>7. ASSUME NEW to \in Pid, NEW d \in Data, MsgSnd(to, d) PROVE TableOwned'
  BY <1>1, <1>7 DEF MsgSnd, procVars
<1>8. CASE StartProc
  BY <1>8, StartOwned
<1>9. CASE Fork
  BY <1>9, ForkOwned
<1>10. CASE Wait
  BY <1>1, <1>10 DEF Wait
<1>11. CASE Exit
  BY <1>11, ExitOwned DEF Exit, Syscall
<1>12. CASE PageFault
  BY <1>12, PageFaultOwned
<1>13. CASE UNCHANGED vars
  BY <1>1, <1>13 DEF vars, procVars
<1>14. QED
  BY <1>2, <1>3, <1>4, <1>5, <1>6, <1>7, <1>8, <1>9, <1>10, <1>11, <1>12,
     <1>13 DEF Next

(***************************************************************************)
(* A process runs on the kernel's translation table or on a page of its    *)
(* own, as long as Wait() finds no zombies.  That a PID without a table is *)
(* free rests on OnePlace: free_q says which PIDs are.                     *)
(***************************************************************************)
THEOREM TablesOwned == ASSUME ReapsZombies = FALSE PROVE Spec => []TableOwned
<1>1. Init => TableOwned
  BY OwnedInit
<1>2. TypeOK /\ OnePlace /\ OnePlace' /\ TableOwned /\ [Next]_vars => TableOwned'
  BY OwnedNext
<1>3. QED
  BY <1>1, <1>2, TypeCorrect, Placed, PTL DEF Spec

-----------------------------------------------------------------------------
(***************************************************************************)
(* Sleep.                                                                  *)
(***************************************************************************)
WokenOnTime ==
  \A p \in InState("SLEEP") :
    state'[p] # "SLEEP" <=> Timer /\ OS_clock' = wake_time[p]

(* A queue keeps what it holds when another PID joins it.                   *)
LEMMA EnQKeeps ==
  ASSUME NEW q \in Seq(Pid), NEW p \in Pid
  PROVE  Range(q) \in SUBSET Range(EnQ(p, q))
<1>1. CASE Len(q) < Q_LEN
  BY <1>1, EnQAdds
<1>2. CASE ~(Len(q) < Q_LEN)
  BY <1>2 DEF EnQ
<1>3. QED
  BY <1>1, <1>2

(* The only handler that takes processes out of sleep_q is the timer's.     *)
LEMMA SleepersStay ==
  ASSUME TypeOK, [Next]_vars, ~Timer
  PROVE  Range(sleep_q) \in SUBSET Range(sleep_q')
<1>1. ASSUME NEW ticks \in SleepTicks, Sleep(ticks)
      PROVE  Range(sleep_q) \in SUBSET Range(sleep_q')
  BY <1>1, EnQKeeps DEF Sleep, TypeOK
<1>2. CASE UNCHANGED sleep_q
  BY <1>2
<1>3. CASE GetPid \/ IRQ3 \/ IRQ7 \/ MsgRcv \/ StartProc
  BY <1>2, <1>3 DEF GetPid, IRQ3, IRQ7, SemPostISR, MsgRcv, StartProc, timeVars
<1>4. CASE Fork \/ Wait \/ Exit \/ PageFault
  BY <1>2, <1>4 DEF Fork, Wait, Exit, ExitISR, PageFault, timeVars
<1>5. ASSUME NEW lim \in SemLimits, SemGet(lim) PROVE UNCHANGED sleep_q
  BY <1>5 DEF SemGet, timeVars
<1>6. ASSUME NEW s \in Sem, SemWait(s) \/ SemPost(s) PROVE UNCHANGED sleep_q
  BY <1>6 DEF SemWait, SemPost, SemPostISR, timeVars
<1>7. ASSUME NEW to \in Pid, NEW d \in Data, MsgSnd(to, d) PROVE UNCHANGED sleep_q
  BY <1>7 DEF MsgSnd, timeVars
<1>8. CASE UNCHANGED vars
  BY <1>2, <1>8 DEF vars, timeVars
<1>9. QED
  BY <1>1, <1>2, <1>3, <1>4, <1>5, <1>6, <1>7, <1>8 DEF Next

(***************************************************************************)
(* A sleeper is woken by the tick that brings the clock to its wake_time,  *)
(* and by nothing else, for every modulus of the clock.                    *)
(***************************************************************************)
THEOREM WakesOnTime == ASSUME ReapsZombies = FALSE PROVE Spec => OnTime
<1>1. TypeOK /\ OnePlace /\ OnePlace' /\ [Next]_vars => [WokenOnTime]_vars
  <2> SUFFICES ASSUME TypeOK, OnePlace, OnePlace', [Next]_vars
               PROVE  WokenOnTime
    OBVIOUS
  <2>1. Range(sleep_q) = InState("SLEEP") /\ Range(sleep_q') = InState("SLEEP")'
    BY DEF OnePlace, SleepPlaced, Holds
  <2>2. \A p \in Pid : state'[p] = "SLEEP" <=> p \in Range(sleep_q')
    BY <2>1 DEF InState
  <2>3. InState("SLEEP") \in SUBSET Pid
    BY DEF InState
  <2>4. CASE Timer
    <3>1. OS_clock' = NextClock /\ sleep_q' = Select(sleep_q, Pid \ Due)
      BY <2>4 DEF Timer, WakeSleepers
    <3>2. Range(sleep_q') = InState("SLEEP") \cap (Pid \ Due)
      BY <2>1, <3>1, SelectSelects DEF TypeOK
    <3>3. \A p \in Pid : p \in Due <=> OS_clock' = wake_time[p]
      BY <3>1 DEF Due
    <3>4. QED
      BY <2>2, <2>3, <2>4, <3>2, <3>3 DEF WokenOnTime
  <2>5. CASE ~Timer
    BY <2>1, <2>2, <2>3, <2>5, SleepersStay DEF WokenOnTime
  <2>6. QED
    BY <2>4, <2>5
<1>2. Spec => [][WokenOnTime]_vars
  BY <1>1, TypeCorrect, Placed, PTL DEF Spec
<1>3. QED
  BY <1>2 DEF OnTime, WokenOnTime

-----------------------------------------------------------------------------
(***************************************************************************)
(* The ready queue.                                                        *)
(***************************************************************************)
NotOvertaken ==
  \A p \in InState("READY") \ {0} :
    /\ state'[p] = "RUN" => Ahead(p) = {}
    /\ state'[p] = "READY" => Ahead(p)' \subseteq Ahead(p)

(* The ready queue with others behind.                                      *)
Longer(rq) ==
  /\ rq \in Seq(Pid)
  /\ Len(rq) >= Len(ready_q)
  /\ \A i \in 1 .. Len(ready_q) : rq[i] = ready_q[i]

LEMMA LongerSame ==
  ASSUME TypeOK
  PROVE  Longer(ready_q)
BY LenProperties DEF TypeOK, Longer

LEMMA LongerEnQ ==
  ASSUME TypeOK, NEW p \in Pid
  PROVE  Longer(EnQ(p, ready_q))
<1>1. ready_q \in Seq(Pid) /\ Len(ready_q) \in Nat
  BY LenProperties DEF TypeOK
<1>2. CASE Len(ready_q) < Q_LEN
  BY <1>1, <1>2, AppendProperties DEF EnQ, Longer
<1>3. CASE ~(Len(ready_q) < Q_LEN)
  BY <1>1, <1>3 DEF EnQ, Longer
<1>4. QED
  BY <1>2, <1>3

(* Neither does a loop of EnQ() that fills the queue push anybody out.      *)
LEMMA LongerEnQAll ==
  ASSUME TypeOK, Len(ready_q) <= Q_LEN,
         NEW rq, Longer(rq), NEW s \in Seq(Pid)
  PROVE  Longer(EnQAll(s, rq))
<1>1. /\ rq \in Seq(Pid) /\ Len(rq) \in Nat /\ Len(s) \in Nat
      /\ ready_q \in Seq(Pid) /\ Len(ready_q) \in Nat
      /\ Len(ready_q) <= Len(rq)
  BY LenProperties DEF TypeOK, Longer
<1>2. /\ rq \o s \in Seq(Pid) /\ Len(rq \o s) = Len(rq) + Len(s)
      /\ \A i \in 1 .. Len(ready_q) : (rq \o s)[i] = ready_q[i]
  BY <1>1, ConcatProperties DEF Longer
<1>3. CASE Len(rq) + Len(s) <= Q_LEN
  BY <1>1, <1>2, <1>3 DEF EnQAll, Longer
<1>4. CASE ~(Len(rq) + Len(s) <= Q_LEN)
  <2>1. EnQAll(s, rq) = SubSeq(rq \o s, 1, Q_LEN)
    BY <1>4 DEF EnQAll
  <2>2. \A i \in 1 .. Q_LEN : (rq \o s)[i] \in Pid
    <3>1. Q_LEN \in Nat
      BY QueueAssumption
    <3>2. \A i \in 1 .. Len(rq \o s) : (rq \o s)[i] \in Pid
      BY <1>2, LenProperties
    <3>3. QED
      BY <1>1, <1>2, <1>4, <3>1, <3>2
  <2>3. /\ EnQAll(s, rq) \in Seq(Pid)
        /\ Len(EnQAll(s, rq)) = IF 1 <= Q_LEN THEN Q_LEN - 1 + 1 ELSE 0
        /\ \A i \in 1 .. Q_LEN - 1 + 1 : EnQAll(s, rq)[i] = (rq \o s)[1 + i - 1]
    <3> DEFINE all == rq \o s
    <3>0. 1 \in Int /\ Q_LEN \in Int
      BY QueueAssumption
    <3>1. \A i \in 1 .. Q_LEN : all[i] \in Pid
      BY <2>2, Zenon
    <3>2. EnQAll(s, rq) = SubSeq(all, 1, Q_LEN)
      BY <2>1
    <3> HIDE DEF all
    <3>3. /\ SubSeq(all, 1, Q_LEN) \in Seq(Pid)
          /\ Len(SubSeq(all, 1, Q_LEN)) = IF 1 <= Q_LEN THEN Q_LEN - 1 + 1 ELSE 0
          /\ \A i \in 1 .. Q_LEN - 1 + 1 : SubSeq(all, 1, Q_LEN)[i] = all[1 + i - 1]
      BY <3>0, <3>1, SubSeqProperties
    <3>4. QED
      BY <3>2, <3>3 DEF all
  <2>4. QED
    BY <1>1, <1>2, <2>3, QueueAssumption DEF Longer
<1>5. QED
  BY <1>3, <1>4

(* Scheduler() takes nobody but the head, and only when it makes it run.    *)
LEMMA SchedulerInOrder ==
  ASSUME TypeOK, OnePlace, OnePlace',
         NEW run \in {running_pid, NONE}, NEW rq, Longer(rq), NEW st,
         Scheduler(run, rq, st)
  PROVE  NotOvertaken
<1> SUFFICES ASSUME NEW p \in InState("READY") \ {0}
             PROVE  /\ state'[p] = "RUN" => Ahead(p) = {}
                    /\ state'[p] = "READY" => Ahead(p)' \subseteq Ahead(p)
  BY DEF NotOvertaken
<1>1. /\ ready_q \in Seq(Pid) /\ Len(ready_q) \in Nat
      /\ DOMAIN ready_q = 1 .. Len(ready_q)
      /\ rq \in Seq(Pid) /\ Len(rq) \in Nat /\ DOMAIN rq = 1 .. Len(rq)
      /\ Len(ready_q) <= Len(rq)
      /\ \A i \in 1 .. Len(ready_q) : rq[i] = ready_q[i]
  BY LenProperties DEF TypeOK, Longer
<1>2. /\ IsInjective(ready_q) /\ p \in Range(ready_q)
      /\ IsInjective(ready_q') /\ p \in Pid /\ p # 0 /\ state[p] = "READY"
  BY DEF OnePlace, ReadyPlaced, Holds, InState
<1>3. PICK n \in 1 .. Len(ready_q) : ready_q[n] = p
  BY <1>1, <1>2 DEF Range
<1>4. \A j \in 1 .. Len(ready_q) : ready_q[j] = p => j = n
  BY <1>1, <1>2, <1>3 DEF IsInjective
<1>5. p # running_pid /\ (state'[p] = "RUN" => p = running_pid')
  BY <1>2 DEF OnePlace, RunPlaced, InState
<1>6. CASE run > 0
  <2>1. run = running_pid /\ running_pid' = run /\ ready_q' = rq
    <3>1. run = running_pid
      BY <1>6 DEF NONE
    <3>2. run \in Int
      BY <3>1, PidFacts DEF TypeOK
    <3>3. ~(run <= 0)
      BY <1>6, <3>2
    <3>4. QED
      BY <3>1, <3>3 DEF Scheduler
  <2>2. state'[p] # "RUN"
    BY <1>5, <2>1
  <2>3. \A j \in 1 .. Len(rq) : rq[j] = p => j = n
    BY <1>1, <1>2, <1>3, <2>1 DEF IsInjective
  <2>4. Ahead(p)' \subseteq Ahead(p)
    <3> SUFFICES ASSUME NEW q \in Pid, NEW i \in DOMAIN rq, NEW j \in DOMAIN rq,
                        i < j, rq[i] = q, rq[j] = p
                 PROVE  q \in Ahead(p)
      BY <2>1 DEF Ahead
    <3>1. j = n /\ i \in 1 .. Len(ready_q)
      BY <1>1, <2>3
    <3>2. QED
      BY <1>1, <1>3, <3>1 DEF Ahead
  <2>5. QED
    BY <2>2, <2>4
<1>7. CASE ~(run > 0)
  <2>1. rq # <<>> /\ rq[1] = ready_q[1]
    BY <1>1, <1>3, EmptySeq
  <2>2. running_pid' = Head(rq) /\ ready_q' = Tail(rq) /\ Head(rq) = rq[1]
    BY <1>1, <1>7, <2>1, PidFacts DEF Scheduler, NONE, TypeOK
  <2>3. CASE Head(rq) = p
    <3>1. n = 1
      BY <1>1, <1>3, <1>4, <2>1, <2>2, <2>3
    <3>2. Ahead(p) = {}
      BY <1>1, <1>4, <3>1 DEF Ahead
    <3>3. state'[p] # "READY"
      <4>1. running_pid' = p /\ running_pid' # 0
        BY <1>2, <2>2, <2>3
      <4>2. QED
        BY <4>1 DEF OnePlace, RunPlaced
    <3>4. QED
      BY <3>2, <3>3
  <2>4. CASE Head(rq) # p
    <3>1. state'[p] # "RUN"
      BY <1>5, <2>2, <2>4
    <3>2. /\ Tail(rq) \in Seq(Pid) /\ Len(Tail(rq)) = Len(rq) - 1
          /\ DOMAIN Tail(rq) = 1 .. Len(rq) - 1
          /\ \A i \in 1 .. Len(rq) - 1 : Tail(rq)[i] = rq[i + 1]
      BY <1>1, <2>1, HeadTailProperties, LenProperties
    <3>3. n # 1
      BY <1>3, <2>1, <2>2, <2>4
    <3>4. n - 1 \in 1 .. Len(rq) - 1 /\ Tail(rq)[n - 1] = p
      <4>1. n - 1 \in 1 .. Len(rq) - 1 /\ n - 1 + 1 = n
        BY <1>1, <3>3
      <4>2. QED
        BY <1>1, <1>3, <3>2, <4>1
    <3>5. \A j \in 1 .. Len(rq) - 1 : Tail(rq)[j] = p => j = n - 1
      BY <1>2, <2>2, <3>2, <3>4 DEF IsInjective
    <3>6. Ahead(p)' \subseteq Ahead(p)
      <4> SUFFICES ASSUME NEW q \in Pid,
                          NEW i \in 1 .. Len(rq) - 1, NEW j \in 1 .. Len(rq) - 1,
                          i < j, Tail(rq)[i] = q, Tail(rq)[j] = p
                   PROVE  q \in Ahead(p)
        BY <2>2, <3>2 DEF Ahead
      <4>1. j = n - 1 /\ i + 1 \in 1 .. Len(ready_q) /\ i + 1 < n
        BY <1>1, <3>5
      <4>2. ready_q[i + 1] = q
        BY <1>1, <3>2, <4>1
      <4>3. QED
        BY <1>1, <1>3, <4>1, <4>2 DEF Ahead
    <3>7. QED
      BY <3>1, <3>6
  <2>5. QED
    BY <2>3, <2>4
<1>8. QED
  BY <1>6, <1>7

(* The ways a handler ends.                                                 *)
LEMMA HandlerInOrder ==
  ASSUME TypeOK, OnePlace, OnePlace',
         \/ Resume
         \/ \E s \in State : Block(s)
         \/ \E p \in Pid : Wake(p)
  PROVE  NotOvertaken
<1>1. CASE Resume
  BY <1>1, LongerSame, SchedulerInOrder DEF Resume
<1>2. ASSUME NEW s \in State, Block(s) PROVE NotOvertaken
  BY <1>2, LongerSame, SchedulerInOrder DEF Block
<1>3. ASSUME NEW p \in Pid, Wake(p) PROVE NotOvertaken
  BY <1>3, LongerEnQ, SchedulerInOrder DEF Wake
<1>4. QED
  BY <1>1, <1>2, <1>3

LEMMA TimerInOrder ==
  ASSUME TypeOK, OnePlace, OnePlace', Timer
  PROVE  NotOvertaken
<1>1. Len(ready_q) <= Q_LEN
  <2>1. ready_q \in Seq(Pid) /\ IsInjective(ready_q)
    BY DEF TypeOK, OnePlace, ReadyPlaced, Holds
  <2>2. Len(ready_q) <= Cardinality(Pid) /\ Len(ready_q) \in Nat
        /\ Cardinality(Pid) \in Nat
    BY <2>1, PidFacts, LenIsCardinality, LenProperties, FS_CardinalityType
  <2>3. QED
    BY <2>2, PidFacts, QueueAssumption
<1>2. ASSUME NEW run \in {running_pid, NONE}, NEW rq, Longer(rq), NEW st,
             WakeSleepers(run, rq, st)
      PROVE  NotOvertaken
  <2> DEFINE woken == Select(sleep_q, Due)
             marked == [p \in Pid |-> IF p \in Range(woken) THEN "READY" ELSE st[p]]
  <2>1. Longer(EnQAll(woken, rq))
    BY <1>1, <1>2, SelectSelects, LongerEnQAll DEF TypeOK
  <2>2. Scheduler(run, EnQAll(woken, rq), marked)
    BY <1>2 DEF WakeSleepers
  <2> HIDE DEF woken, marked
  <2>3. QED
    BY <2>1, <2>2, SchedulerInOrder
<1>3. CASE SliceOver
  <2>1. Longer(EnQ(running_pid, ready_q))
    BY LongerEnQ DEF TypeOK
  <2>2. QED
    BY <1>2, <1>3, <2>1 DEF Timer
<1>4. CASE ~SliceOver
  BY <1>2, <1>4, LongerSame DEF Timer
<1>5. QED
  BY <1>3, <1>4

LEMMA StartInOrder ==
  ASSUME TypeOK, OnePlace, OnePlace', StartProc
  PROVE  NotOvertaken
<1>1. Head(free_q) \in Pid
  BY TailRemoves DEF StartProc, TypeOK
<1>2. CASE Head(free_q) # 0
  BY <1>1, <1>2, HandlerInOrder DEF StartProc
<1>3. CASE Head(free_q) = 0
  BY <1>3, LongerSame, SchedulerInOrder DEF StartProc
<1>4. QED
  BY <1>2, <1>3

LEMMA ExitInOrder ==
  ASSUME TypeOK, OnePlace, OnePlace', ExitISR
  PROVE  NotOvertaken
<1>1. CASE Block("ZOMBIE")
  BY <1>1, HandlerInOrder DEF State
<1>2. CASE Leave(ppid[running_pid])
  <2>1. ppid[running_pid] \in Pid
    BY DEF TypeOK
  <2>2. QED
    BY <1>2, <2>1, LongerEnQ, SchedulerInOrder DEF Leave
<1>3. QED
  BY <1>1, <1>2 DEF ExitISR

(***************************************************************************)
(* Nobody overtakes a ready process.                                       *)
(***************************************************************************)
THEOREM InOrder == ASSUME ReapsZombies = FALSE PROVE Spec => RoundRobin
<1>1. TypeOK /\ OnePlace /\ OnePlace' /\ [Next]_vars => [NotOvertaken]_vars
  <2> SUFFICES ASSUME TypeOK, OnePlace, OnePlace', Next
               PROVE  NotOvertaken
    OBVIOUS
  <2>1. "SLEEP" \in State /\ "WAIT" \in State /\ "FORKWAIT" \in State
    BY DEF State
  <2>2. CASE Timer
    BY <2>2, TimerInOrder
  <2>3. CASE GetPid
    BY <2>3, HandlerInOrder DEF GetPid
  <2>4. ASSUME NEW ticks \in SleepTicks, Sleep(ticks) PROVE NotOvertaken
    BY <2>1, <2>4, HandlerInOrder DEF Sleep
  <2>5. ASSUME NEW lim \in SemLimits, SemGet(lim) PROVE NotOvertaken
    BY <2>5, HandlerInOrder DEF SemGet
  <2>6. ASSUME NEW s \in Sem, SemWait(s) PROVE NotOvertaken
    BY <2>1, <2>6, HandlerInOrder DEF SemWait
  <2>7. ASSUME NEW s \in Sem, SemPostISR(s) PROVE NotOvertaken
    <3>1. sem_wait_q[s] # <<>> => Head(sem_wait_q[s]) \in Pid
      BY TailRemoves DEF TypeOK
    <3>2. QED
      BY <2>7, <3>1, HandlerInOrder DEF SemPostISR
  <2>8. CASE IRQ3 \/ IRQ7
    <3>1. printing_semaphore \in Sem
      BY KernelAssumption, QueueAssumption DEF printing_semaphore, Sem
    <3>2. QED
      BY <2>7, <2>8, <3>1 DEF IRQ3, IRQ7, Allocated
  <2>9. ASSUME NEW to \in Pid, NEW d \in Data, MsgSnd(to, d) PROVE NotOvertaken
    <3>1. msg_wait_q[to] # <<>> => Head(msg_wait_q[to]) \in Pid
      BY TailRemoves DEF TypeOK
    <3>2. QED
      BY <2>9, <3>1, HandlerInOrder DEF MsgSnd
  <2>10. CASE MsgRcv
    BY <2>1, <2>10, HandlerInOrder DEF MsgRcv
  <2>11. CASE StartProc
    BY <2>11, StartInOrder
  <2>12. CASE Fork
    <3>1. ~ForkFails => Head(free_q) \in Pid
      BY TailRemoves DEF ForkFails, TypeOK
    <3>2. QED
      BY <2>12, <3>1, HandlerInOrder DEF Fork, ForkSucceeds
  <2>13. CASE Wait
    BY <2>1, <2>13, HandlerInOrder DEF Wait, Reap
  <2>14. CASE Exit
    BY <2>14, ExitInOrder DEF Exit
  <2>15. CASE PageFault
    BY <2>15, HandlerInOrder, ExitInOrder DEF PageFault
  <2>16. QED
    BY <2>2, <2>3, <2>4, <2>5, <2>6, <2>7, <2>8, <2>9, <2>10, <2>11, <2>12,
       <2>13, <2>14, <2>15 DEF Next, SemPost
<1>2. Spec => [][NotOvertaken]_vars
  BY <1>1, TypeCorrect, Placed, PTL DEF Spec
<1>3. QED
  BY <1>2 DEF RoundRobin, NotOvertaken

-----------------------------------------------------------------------------
(***************************************************************************)
(* Wait().                                                                 *)
(***************************************************************************)
ReturnsChild ==
  \A p \in InState("FORKWAIT") :
    state'[p] # "FORKWAIT" =>
      /\ ppid[running_pid] = p /\ Forked(running_pid)
      /\ state[running_pid] = "RUN" /\ state'[running_pid] = "FREE"
      /\ ~Forked(p) => ret'[p] = running_pid

(* Only a forked process has a parent (IdleProc, PID 0, waits for nobody),  *)
(* and a PID in free_q brings neither pages nor a parent with it.           *)
Kin ==
  \A p \in Pid :
    /\ state[p] = "FREE" => ~Forked(p)
    /\ Forked(p) \/ ppid[p] = 0

LEMMA KinKept ==
  ASSUME Kin, OnePlace, OnePlace', UNCHANGED <<free_q, trans_table, ppid>>
  PROVE  Kin'
<1>1. InState("FREE")' = InState("FREE")
  BY DEF OnePlace, FreePlaced, Holds
<1>2. \A p \in Pid : state'[p] = "FREE" => state[p] = "FREE"
  BY <1>1 DEF InState
<1>3. QED
  BY <1>2 DEF Kin, Forked

(* A PID taken from free_q is not free any more, and no other becomes free. *)
LEMMA NoneFreed ==
  ASSUME TypeOK, OnePlace, OnePlace', free_q # <<>>, free_q' = Tail(free_q)
  PROVE  /\ Head(free_q) \in Pid /\ state[Head(free_q)] = "FREE"
         /\ \A p \in Pid : state'[p] = "FREE" => p # Head(free_q) /\ state[p] = "FREE"
<1>1. free_q \in Seq(Pid) /\ IsInjective(free_q) /\ Range(free_q) = InState("FREE")
  BY DEF TypeOK, OnePlace, FreePlaced, Holds
<1>2. /\ Head(free_q) \in Range(free_q)
      /\ Range(Tail(free_q)) = InState("FREE") \ {Head(free_q)}
  BY <1>1, TailRemoves
<1>3. InState("FREE")' = Range(Tail(free_q))
  BY DEF OnePlace, FreePlaced, Holds
<1>4. QED
  BY <1>1, <1>2, <1>3 DEF InState

LEMMA StartKin ==
  ASSUME TypeOK, Kin, OnePlace, OnePlace', StartProc
  PROVE  Kin'
<1>1. /\ free_q # <<>> /\ free_q' = Tail(free_q) /\ ppid' = ppid
      /\ trans_table' = [trans_table EXCEPT ![Head(free_q)] = OS_trans_table]
  BY DEF StartProc
<1>2. ppid[Head(free_q)] = 0
  BY <1>1, NoneFreed DEF Kin
<1>3. \A p \in Pid : p # Head(free_q) => trans_table'[p] = trans_table[p]
  BY <1>1 DEF TypeOK
<1>4. \A p \in Pid : p = Head(free_q) => state'[p] # "FREE" /\ ppid'[p] = 0
  BY <1>1, <1>2, NoneFreed
<1>5. QED
  BY <1>1, <1>3, <1>4, NoneFreed DEF Kin, Forked

LEMMA ForkKin ==
  ASSUME TypeOK, Kin, OnePlace, OnePlace', Fork
  PROVE  Kin'
<1>1. CASE ForkFails
  BY <1>1, KinKept DEF Fork, procVars
<1>2. CASE ~ForkFails
  <2> DEFINE child == Head(free_q)
  <2>1. /\ free_q # <<>> /\ free_q' = Tail(free_q)
        /\ ppid' = [ppid EXCEPT ![child] = running_pid]
    BY <1>2 DEF ForkFails, Fork, ForkSucceeds
  <2>2. PICK main_table \in Lowest(FORK_PAGES, FreePages) :
          trans_table' = [trans_table EXCEPT ![child] = main_table]
    BY <1>2 DEF Fork, ForkSucceeds
  <2>3. main_table \in Page
    BY <2>2 DEF Lowest, FreePages
  <2>4. \A p \in Pid : state'[p] = "FREE" => p # child /\ state[p] = "FREE"
    BY <2>1, NoneFreed
  <2> HIDE DEF child
  <2>5. \A p \in Pid : p = child => trans_table'[p] \in Page
    BY <2>2, <2>3 DEF TypeOK
  <2>6. \A p \in Pid : p # child => trans_table'[p] = trans_table[p] /\ ppid'[p] = ppid[p]
    BY <2>1, <2>2 DEF TypeOK
  <2>7. QED
    BY <2>4, <2>5, <2>6 DEF Kin, Forked
<1>3. QED
  BY <1>1, <1>2

LEMMA ExitKin ==
  ASSUME TypeOK, Kin, OnePlace, OnePlace', running_pid > 0, ExitISR
  PROVE  Kin'
<1>1. CASE UNCHANGED procVars
  BY <1>1, KinKept DEF procVars
<1>2. CASE Leave(ppid[running_pid])
  <2>1. /\ ppid' = [ppid EXCEPT ![running_pid] = 0]
        /\ trans_table' = [trans_table EXCEPT ![running_pid] = NONE]
        /\ free_q' = EnQ(running_pid, free_q)
    BY <1>2 DEF Leave, ClearPCB
  <2>2. \A p \in Pid : state'[p] = "FREE" => p = running_pid \/ state[p] = "FREE"
    BY <2>1, LeaverFree DEF InState
  <2>3. \A p \in Pid : p = running_pid => trans_table'[p] = NONE /\ ppid'[p] = 0
    BY <2>1 DEF TypeOK
  <2>4. \A p \in Pid : p # running_pid => trans_table'[p] = trans_table[p] /\ ppid'[p] = ppid[p]
    BY <2>1 DEF TypeOK
  <2>5. QED
    BY <2>2, <2>3, <2>4, PageFacts DEF Kin, Forked
<1>3. QED
  BY <1>1, <1>2 DEF ExitISR

LEMMA KinInit == Init => Kin
BY PageFacts DEF Init, Kin, Forked

(* Every step keeps Kin.                                                    *)
LEMMA KinNext ==
  ASSUME ReapsZombies = FALSE
  PROVE  TypeOK /\ OnePlace /\ OnePlace' /\ Kin /\ [Next]_vars => Kin'
<1> SUFFICES ASSUME TypeOK, OnePlace, OnePlace', Kin, [Next]_vars PROVE Kin'
  OBVIOUS
<1>1. UNCHANGED <<free_q, trans_table, ppid>> => Kin'
  BY KinKept
<1>2. CASE Timer \/ GetPid \/ MsgRcv
  BY <1>1, <1>2 DEF Timer, GetPid, MsgRcv, procVars
<1>3. ASSUME NEW ticks \in SleepTicks, Sleep(ticks) PROVE Kin'
  BY <1>1, <1>3 DEF Sleep, procVars
<1>4. ASSUME NEW lim \in SemLimits, SemGet(lim) PROVE Kin'
  BY <1>1, <1>4 DEF SemGet, procVars
<1>5. ASSUME NEW s \in Sem, SemWait(s) \/ SemPost(s) PROVE Kin'
  BY <1>1, <1>5 DEF SemWait, SemPost, SemPostISR, procVars
<1>6. CASE IRQ3 \/ IRQ7
  BY <1>1, <1>6 DEF IRQ3, IRQ7, SemPostISR, procVars
<1>7. ASSUME NEW to \in Pid, NEW d \in Data, MsgSnd(to, d) PROVE Kin'
  BY <1>1, <1>7 DEF MsgSnd, procVars
<1>8. CASE StartProc
  BY <1>8, StartKin
<1>9. CASE Fork
  BY <1>9, ForkKin
<1>10. CASE Wait
  BY <1>1, <1>10 DEF Wait
<1>11. CASE Exit
  BY <1>11, ExitKin DEF Exit, Syscall
<1>12. CASE PageFault
  BY <1>1, <1>12, ExitKin DEF PageFault, Syscall
<1>13. CASE UNCHANGED vars
  BY <1>1, <1>13 DEF vars, procVars
<1>14. QED
  BY <1>2, <1>3, <1>4, <1>5, <1>6, <1>7, <1>8, <1>9, <1>10, <1>11, <1>12,
     <1>13 DEF Next

(* Kin is an invariant, as OnePlace is.                                     *)
LEMMA KinInvariant == ASSUME ReapsZombies = FALSE PROVE Spec => []Kin
<1>1. Init => Kin
  BY KinInit
<1>2. TypeOK /\ OnePlace /\ OnePlace' /\ Kin /\ [Next]_vars => Kin'
  BY KinNext
<1>3. QED
  BY <1>1, <1>2, TypeCorrect, Placed, PTL DEF Spec

(* The scheduler leaves a process alone that is not in the ready queue.     *)
LEMMA SchedulerLeaves ==
  ASSUME NEW run \in Pid \cup {NONE}, NEW rq \in Seq(Pid), NEW st \in [Pid -> State],
         NEW p \in Pid \ {0}, p \notin Range(rq), Scheduler(run, rq, st)
  PROVE  state'[p] = st[p]
<1>1. CASE run > 0
  BY <1>1, PidFacts DEF Scheduler, NONE
<1>2. CASE ~(run > 0) /\ rq # <<>>
  <2>1. Head(rq) \in Pid /\ Head(rq) # p
    BY <1>2, TailRemoves
  <2>2. state' = [st EXCEPT ![0] = IF run = 0 THEN "READY" ELSE @, ![Head(rq)] = "RUN"]
    BY <1>2, PidFacts DEF Scheduler
  <2>3. QED
    BY <2>1, <2>2
<1>3. CASE ~(run > 0) /\ rq = <<>>
  BY <1>3, PidFacts DEF Scheduler
<1>4. QED
  BY <1>1, <1>2, <1>3

(* Nobody but those queued is in the queue.                                 *)
LEMMA EnQFrom ==
  ASSUME NEW q \in Seq(Pid), NEW p \in Pid
  PROVE  EnQ(p, q) \in Seq(Pid) /\ Range(EnQ(p, q)) \in SUBSET (Range(q) \cup {p})
<1>1. CASE Len(q) < Q_LEN
  BY <1>1, EnQAdds, EnQType
<1>2. CASE ~(Len(q) < Q_LEN)
  BY <1>2 DEF EnQ
<1>3. QED
  BY <1>1, <1>2

(* Nor does a loop of EnQ() bring anybody else.                             *)
LEMMA EnQAllFrom ==
  ASSUME NEW q \in Seq(Pid), NEW s \in Seq(Pid)
  PROVE  Range(EnQAll(s, q)) \in SUBSET (Range(q) \cup Range(s))
<1>1. Len(q) \in Nat /\ Len(s) \in Nat
  BY LenProperties
<1>2. CASE Len(q) + Len(s) <= Q_LEN
  BY <1>2, EnQAllAdds
<1>3. CASE ~(Len(q) + Len(s) <= Q_LEN)
  <2> DEFINE all == q \o s
  <2>1. /\ all \in Seq(Pid) /\ Len(all) = Len(q) + Len(s)
        /\ Range(all) = Range(q) \cup Range(s)
    BY ConcatProperties, RangeConcatenation
  <2>2. EnQAll(s, q) = SubSeq(all, 1, Q_LEN)
    BY <1>3 DEF EnQAll
  <2> HIDE DEF all
  <2>3. DOMAIN all = 1 .. Len(all) /\ Q_LEN \in Nat /\ Q_LEN <= Len(all)
    BY <1>1, <1>3, <2>1, LenProperties, QueueAssumption
  <2>4. \A i \in 1 .. Q_LEN : all[i] \in Range(all)
    BY <2>3 DEF Range
  <2>5. SubSeq(all, 1, Q_LEN) \in Seq(Range(all))
    BY <2>3, <2>4, SubSeqProperties
  <2>6. QED
    BY <2>1, <2>2, <2>5, RangeOfSeq
<1>4. QED
  BY <1>2, <1>3

(* A process that waits for a child is in no queue, and runs no code.       *)
LEMMA WaiterApart ==
  ASSUME TypeOK, OnePlace, NEW p \in InState("FORKWAIT")
  PROVE  /\ p \in Pid \ {0} /\ state[p] = "FORKWAIT"
         /\ p \notin Range(ready_q) /\ p # running_pid
BY DEF OnePlace, ReadyPlaced, Holds, RunPlaced, InState

(* A handler other than ExitISR() does not touch it.                        *)
LEMMA StillWaits ==
  ASSUME TypeOK, OnePlace,
         \/ Resume
         \/ \E s \in State : Block(s)
         \/ \E p \in Pid : state[p] # "FORKWAIT" /\ Wake(p)
  PROVE  ReturnsChild
<1> SUFFICES ASSUME NEW p \in InState("FORKWAIT")
             PROVE  state'[p] = "FORKWAIT"
  BY DEF ReturnsChild
<1>1. /\ p \in Pid \ {0} /\ state[p] = "FORKWAIT"
      /\ p \notin Range(ready_q) /\ p # running_pid
      /\ running_pid \in Pid /\ ready_q \in Seq(Pid) /\ state \in [Pid -> State]
  BY WaiterApart DEF TypeOK
<1>2. CASE Resume
  BY <1>1, <1>2, SchedulerLeaves DEF Resume
<1>3. ASSUME NEW s \in State, Block(s) PROVE state'[p] = "FORKWAIT"
  <2>1. [state EXCEPT ![running_pid] = s] \in [Pid -> State]
    BY <1>1
  <2>2. QED
    BY <1>1, <1>3, <2>1, SchedulerLeaves DEF Block
<1>4. ASSUME NEW o \in Pid, state[o] # "FORKWAIT", Wake(o)
      PROVE  state'[p] = "FORKWAIT"
  <2>1. [state EXCEPT ![o] = "READY"] \in [Pid -> State] /\ o # p
    BY <1>1, <1>4 DEF State
  <2>2. EnQ(o, ready_q) \in Seq(Pid) /\ p \notin Range(EnQ(o, ready_q))
    BY <1>1, <2>1, EnQFrom
  <2>3. [state EXCEPT ![o] = "READY"][p] = "FORKWAIT"
    BY <1>1, <2>1
  <2>4. QED
    BY <1>1, <1>4, <2>1, <2>2, <2>3, SchedulerLeaves DEF Wake
<1>5. QED
  BY <1>2, <1>3, <1>4

LEMMA TimerReturns ==
  ASSUME TypeOK, OnePlace, Timer
  PROVE  ReturnsChild
<1> SUFFICES ASSUME NEW p \in InState("FORKWAIT")
             PROVE  state'[p] = "FORKWAIT"
  BY DEF ReturnsChild
<1>1. /\ p \in Pid \ {0} /\ state[p] = "FORKWAIT"
      /\ p \notin Range(ready_q) /\ p # running_pid
      /\ running_pid \in Pid /\ ready_q \in Seq(Pid) /\ state \in [Pid -> State]
  BY WaiterApart DEF TypeOK
<1>2. ASSUME NEW run \in Pid \cup {NONE}, NEW rq \in Seq(Pid), NEW st \in [Pid -> State],
             p \notin Range(rq), st[p] = state[p], WakeSleepers(run, rq, st)
      PROVE  state'[p] = "FORKWAIT"
  <2> DEFINE woken == Select(sleep_q, Due)
             marked == [o \in Pid |-> IF o \in Range(woken) THEN "READY" ELSE st[o]]
  <2>1. woken \in Seq(Pid) /\ Range(woken) \in SUBSET Range(sleep_q)
    BY SelectSelects DEF TypeOK
  <2>2. p \notin Range(woken)
    BY <1>1, <2>1 DEF OnePlace, SleepPlaced, Holds, InState
  <2>3. marked \in [Pid -> State] /\ marked[p] = "FORKWAIT"
    BY <1>1, <1>2, <2>2 DEF State
  <2>4. Scheduler(run, EnQAll(woken, rq), marked)
    BY <1>2 DEF WakeSleepers
  <2> HIDE DEF woken, marked
  <2>5. EnQAll(woken, rq) \in Seq(Pid) /\ p \notin Range(EnQAll(woken, rq))
    BY <1>2, <2>1, <2>2, EnQAllAdds, EnQAllFrom
  <2>6. QED
    BY <1>1, <2>3, <2>4, <2>5, SchedulerLeaves
<1>3. CASE SliceOver
  <2> DEFINE st == [state EXCEPT ![running_pid] = "READY"]
             rq == EnQ(running_pid, ready_q)
  <2>1. rq \in Seq(Pid) /\ p \notin Range(rq)
    BY <1>1, EnQFrom
  <2>2. st \in [Pid -> State] /\ st[p] = state[p]
    BY <1>1 DEF State
  <2>3. WakeSleepers(NONE, rq, st)
    BY <1>3 DEF Timer
  <2> HIDE DEF st, rq
  <2>4. QED
    BY <1>2, <2>1, <2>2, <2>3
<1>4. CASE ~SliceOver
  BY <1>1, <1>2, <1>4 DEF Timer
<1>5. QED
  BY <1>3, <1>4

(* ExitISR() takes the one that waits for the caller, if it does.           *)
LEMMA ExitReturns ==
  ASSUME TypeOK, Kin, OnePlace, OnePlace', running_pid > 0, ExitISR
  PROVE  ReturnsChild
<1>1. CASE Block("ZOMBIE")
  BY <1>1, StillWaits DEF State
<1>2. CASE state[ppid[running_pid]] = "FORKWAIT" /\ Leave(ppid[running_pid])
  <2> DEFINE parent == ppid[running_pid]
             st == [state EXCEPT ![parent] = "READY", ![running_pid] = "FREE"]
             rq == EnQ(parent, ready_q)
  <2>1. /\ running_pid \in Pid \ {0} /\ state[running_pid] = "RUN"
        /\ state \in [Pid -> State] /\ parent \in Pid /\ ready_q \in Seq(Pid)
    BY CallerRuns DEF TypeOK
  <2>2. Forked(running_pid)
    <3>1. parent # 0
      BY <1>2 DEF OnePlace, RunPlaced
    <3>2. QED
      BY <2>1, <3>1 DEF Kin
  <2>3. state'[running_pid] = "FREE"
    BY <1>2, <2>1, LeaverFree DEF Leave, InState
  <2>4. ~Forked(parent) => ret'[parent] = running_pid
    BY <1>2, <2>1 DEF Leave, TypeOK
  <2>5. ASSUME NEW p \in InState("FORKWAIT"), p # parent
        PROVE  state'[p] = "FORKWAIT"
    <3>1. /\ p \in Pid \ {0} /\ state[p] = "FORKWAIT"
          /\ p \notin Range(ready_q) /\ p # running_pid
      BY WaiterApart
    <3>2. rq \in Seq(Pid) /\ p \notin Range(rq)
      <4>1. rq \in Seq(Pid) /\ Range(rq) \in SUBSET (Range(ready_q) \cup {parent})
        BY <2>1, EnQFrom
      <4>2. QED
        BY <2>5, <3>1, <4>1
    <3>3. st \in [Pid -> State] /\ st[p] = "FORKWAIT"
      BY <2>1, <2>5, <3>1 DEF State
    <3>4. Scheduler(NONE, rq, st)
      BY <1>2 DEF Leave
    <3> HIDE DEF st, rq
    <3>5. state'[p] = st[p]
      <4>1. NONE \in Pid \cup {NONE}
        OBVIOUS
      <4>2. p \in Pid \ {0} /\ p \notin Range(rq)
        BY <3>1, <3>2
      <4>3. rq \in Seq(Pid) /\ st \in [Pid -> State]
        BY <3>2, <3>3
      <4>4. QED
        BY <3>4, <4>1, <4>2, <4>3, SchedulerLeaves
    <3>6. QED
      BY <3>3, <3>5
  <2> HIDE DEF st, rq
  <2>6. QED
    BY <2>1, <2>2, <2>3, <2>4, <2>5 DEF ReturnsChild
<1>3. QED
  BY <1>1, <1>2 DEF ExitISR

(* Every step lets Wait() return only as it should.                         *)
LEMMA ReturnsNext ==
  ASSUME ReapsZombies = FALSE
  PROVE  TypeOK /\ Kin /\ OnePlace /\ OnePlace' /\ [Next]_vars => [ReturnsChild]_vars
<1> SUFFICES ASSUME TypeOK, Kin, OnePlace, OnePlace', Next
             PROVE  ReturnsChild
  OBVIOUS
<1>1. "SLEEP" \in State /\ "WAIT" \in State /\ "FORKWAIT" \in State
  BY DEF State
<1>2. CASE Timer
  BY <1>2, TimerReturns
<1>3. CASE GetPid
  BY <1>3, StillWaits DEF GetPid
<1>4. ASSUME NEW ticks \in SleepTicks, Sleep(ticks) PROVE ReturnsChild
  BY <1>1, <1>4, StillWaits DEF Sleep
<1>5. ASSUME NEW lim \in SemLimits, SemGet(lim) PROVE ReturnsChild
  BY <1>5, StillWaits DEF SemGet
<1>6. ASSUME NEW s \in Sem, SemWait(s) PROVE ReturnsChild
  BY <1>1, <1>6, StillWaits DEF SemWait
<1>7. ASSUME NEW s \in Sem, SemPostISR(s) PROVE ReturnsChild
  <2>1. CASE sem_wait_q[s] = <<>>
    BY <1>7, <2>1, StillWaits DEF SemPostISR
  <2>2. CASE sem_wait_q[s] # <<>>
    <3>1. Head(sem_wait_q[s]) \in Pid /\ Head(sem_wait_q[s]) \in Range(sem_wait_q[s])
      BY <2>2, TailRemoves DEF TypeOK
    <3>2. state[Head(sem_wait_q[s])] = "WAIT"
      BY <3>1 DEF OnePlace, WaitPlaced
    <3>3. QED
      BY <1>7, <2>2, <3>1, <3>2, StillWaits DEF SemPostISR
  <2>3. QED
    BY <2>1, <2>2
<1>8. CASE IRQ3 \/ IRQ7
  <2>1. printing_semaphore \in Sem
    BY KernelAssumption, QueueAssumption DEF printing_semaphore, Sem
  <2>2. QED
    BY <1>7, <1>8, <2>1 DEF IRQ3, IRQ7, Allocated
<1>9. ASSUME NEW to \in Pid, NEW d \in Data, MsgSnd(to, d) PROVE ReturnsChild
  <2>1. msg_wait_q[to] # <<>> => Head(msg_wait_q[to]) = to /\ state[to] = "WAIT"
    BY DEF OnePlace, WaitPlaced
  <2>2. QED
    BY <1>9, <2>1, StillWaits DEF MsgSnd
<1>10. CASE MsgRcv
  BY <1>1, <1>10, StillWaits DEF MsgRcv
<1>11. ASSUME free_q # <<>>, free_q' = Tail(free_q), Wake(Head(free_q))
       PROVE  ReturnsChild
  <2>1. Head(free_q) \in Pid /\ state[Head(free_q)] = "FREE"
    BY <1>11, NoneFreed
  <2>2. QED
    BY <1>11, <2>1, StillWaits
<1>12. CASE StartProc
  <2>1. Head(free_q) # 0
    BY <1>12, NoneFreed DEF StartProc, OnePlace, RunPlaced
  <2>2. QED
    BY <1>11, <1>12, <2>1 DEF StartProc
<1>13. CASE Fork
  BY <1>11, <1>13, StillWaits DEF Fork, ForkSucceeds, ForkFails
<1>14. CASE Wait
  BY <1>1, <1>14, StillWaits DEF Wait
<1>15. CASE Exit
  BY <1>15, ExitReturns DEF Exit, Syscall
<1>16. CASE PageFault
  BY <1>16, StillWaits, ExitReturns DEF PageFault, Syscall
<1>17. QED
  BY <1>2, <1>3, <1>4, <1>5, <1>6, <1>7, <1>8, <1>9, <1>10, <1>12, <1>13,
     <1>14, <1>15, <1>16 DEF Next, SemPost

(***************************************************************************)
(* A process that Wait() made wait goes on when a forked child of its own  *)
(* exits, and then only.                                                   *)
(***************************************************************************)
THEOREM WaitsReturn == ASSUME ReapsZombies = FALSE PROVE Spec => WaitReturnsChild
<1>1. TypeOK /\ Kin /\ OnePlace /\ OnePlace' /\ [Next]_vars => [ReturnsChild]_vars
  BY ReturnsNext
<1>2. Spec => [][ReturnsChild]_vars
  BY <1>1, TypeCorrect, Placed, KinInvariant, PTL DEF Spec
<1>3. QED
  BY <1>2 DEF WaitReturnsChild, ReturnsChild
=============================================================================
