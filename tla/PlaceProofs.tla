---------------------------- MODULE PlaceProofs -----------------------------
(***************************************************************************)
(* Every process is in the one place its state says: OnePlace is an        *)
(* invariant of the kernel, for every size of its tables, as long as no    *)
(* process calls Wait() when it already has a zombie child (ReapsZombies   *)
(* is FALSE: with it FreePlaced is violated, see the run kernel_reap).     *)
(***************************************************************************)
EXTENDS KernelProofs

-----------------------------------------------------------------------------
(***************************************************************************)
(* The scheduler.                                                          *)
(***************************************************************************)

(* What Scheduler() makes of the states st: the ready queue and the running *)
(* process agree with the states again, the other states are those of st.   *)
Scheduled(st) ==
  /\ ReadyPlaced' /\ RunPlaced'
  /\ \A p \in Pid : \A s \in State \ {"READY", "RUN"} : state'[p] = s <=> st[p] = s

(* A queue without repetitions that lacks a PID has room for it.            *)
LEMMA RoomForOne ==
  ASSUME NEW q \in Seq(Pid), IsInjective(q), NEW p \in Pid, p \notin Range(q)
  PROVE  Len(q) < Q_LEN
<1>1. Len(q) = Cardinality(Range(q)) /\ Len(q) \in Nat
  BY PidFacts, LenIsCardinality, LenProperties
<1>2. Range(q) \in SUBSET Pid
  BY RangeOfSeq
<1>3. /\ IsFiniteSet(Pid \ {p})
      /\ Cardinality(Pid \ {p}) = Cardinality(Pid) - 1
      /\ Cardinality(Pid) \in Nat
  BY PidFacts, FS_RemoveElement, FS_CardinalityType
<1>4. Range(q) \in SUBSET (Pid \ {p})
  BY <1>2
<1>5. Cardinality(Range(q)) <= Cardinality(Pid \ {p})
  BY <1>3, <1>4, FS_Subset
<1>6. QED
  BY <1>1, <1>3, <1>5, PidFacts, QueueAssumption

(* So EnQ() never finds such a queue full, and adds the PID once.           *)
LEMMA EnQPlaces ==
  ASSUME NEW q \in Seq(Pid), NEW S, Holds(q, S), NEW p \in Pid, p \notin S
  PROVE  EnQ(p, q) \in Seq(Pid) /\ Holds(EnQ(p, q), S \cup {p})
<1>1. Len(q) < Q_LEN
  BY RoomForOne DEF Holds
<1>2. QED
  BY <1>1, EnQType, EnQAdds DEF Holds

LEMMA SchedulerPlaces ==
  ASSUME NEW run \in Pid \cup {NONE}, NEW rq \in Seq(Pid), NEW st \in [Pid -> State],
         Holds(rq, {p \in Pid \ {0} : st[p] = "READY"}),
         st[0] \in {"READY", "RUN"},
         run > 0 => st[run] = "RUN",
         \A p \in Pid : st[p] = "RUN" => p = run,
         Scheduler(run, rq, st)
  PROVE  Scheduled(st)
<1>1. CASE run > 0
  <2>1. running_pid' = run /\ ready_q' = rq /\ state' = st
    BY <1>1, PidFacts DEF Scheduler, NONE
  <2>2. QED
    BY <1>1, <2>1 DEF Scheduled, ReadyPlaced, RunPlaced, InState
<1>2. CASE ~(run > 0) /\ rq # <<>>
  <2> DEFINE h == Head(rq)
  <2>1. /\ running_pid' = h /\ ready_q' = Tail(rq)
        /\ state' = [st EXCEPT ![0] = IF run = 0 THEN "READY" ELSE @, ![h] = "RUN"]
    BY <1>2, PidFacts DEF Scheduler
  <2>2. /\ h \in Pid /\ h # 0 /\ st[h] = "READY"
        /\ IsInjective(Tail(rq))
        /\ Range(Tail(rq)) = {p \in Pid \ {0} : st[p] = "READY"} \ {h}
    BY <1>2, TailRemoves DEF Holds
  <2>3. run = 0 \/ run = NONE
    BY <1>2, PidFacts
  <2>4. state' \in [Pid -> State] /\ state'[h] = "RUN" /\ state'[0] = "READY"
    BY <2>1, <2>2, <2>3, PidFacts DEF NONE, State
  <2>5. \A p \in Pid \ {0, h} : state'[p] = st[p]
    BY <2>1, <2>2
  <2>6. \A p \in Pid \ {0} : st[p] # "RUN"
    BY <2>3, PidFacts
  <2> HIDE DEF h
  <2>7. ReadyPlaced'
    <3>1. {p \in Pid \ {0} : st[p] = "READY"} \ {h} = {p \in Pid : state'[p] = "READY"} \ {0}
      BY <2>2, <2>4, <2>5
    <3>2. QED
      BY <2>1, <2>2, <3>1 DEF ReadyPlaced, Holds, InState
  <2>8. RunPlaced'
    BY <2>1, <2>4, <2>5, <2>6 DEF RunPlaced, InState
  <2>9. \A p \in Pid : \A s \in State \ {"READY", "RUN"} : state'[p] = s <=> st[p] = s
    BY <2>2, <2>4, <2>5
  <2>10. QED
    BY <2>7, <2>8, <2>9 DEF Scheduled
<1>3. CASE ~(run > 0) /\ rq = <<>>
  <2>1. running_pid' = 0 /\ ready_q' = rq /\ state' = [st EXCEPT ![0] = "RUN"]
    BY <1>3, PidFacts DEF Scheduler
  <2>2. run = 0 \/ run = NONE
    BY <1>3, PidFacts
  <2>3. state'[0] = "RUN" /\ \A p \in Pid \ {0} : state'[p] = st[p]
    BY <2>1, PidFacts
  <2>4. \A p \in Pid \ {0} : st[p] # "RUN"
    BY <2>2, PidFacts
  <2>5. ReadyPlaced'
    <3>1. {p \in Pid \ {0} : st[p] = "READY"} = {p \in Pid : state'[p] = "READY"} \ {0}
      BY <2>3
    <3>2. QED
      BY <2>1, <3>1 DEF ReadyPlaced, Holds, InState
  <2>6. RunPlaced'
    BY <2>1, <2>3, <2>4 DEF RunPlaced, InState
  <2>7. \A p \in Pid : \A s \in State \ {"READY", "RUN"} : state'[p] = s <=> st[p] = s
    BY <2>3
  <2>8. QED
    BY <2>5, <2>6, <2>7 DEF Scheduled
<1>4. QED
  BY <1>1, <1>2, <1>3

(* A handler that leaves its caller running and wakes nobody.               *)
LEMMA ResumePlaces ==
  ASSUME TypeOK, ReadyPlaced, RunPlaced, Resume
  PROVE  Scheduled(state)
<1>1. /\ running_pid \in Pid /\ ready_q \in Seq(Pid) /\ state \in [Pid -> State]
      /\ Holds(ready_q, {p \in Pid \ {0} : state[p] = "READY"})
  <2>1. {p \in Pid \ {0} : state[p] = "READY"} = InState("READY") \ {0}
    BY DEF InState
  <2>2. QED
    BY <2>1 DEF TypeOK, ReadyPlaced
<1>2. /\ state[0] \in {"READY", "RUN"}
      /\ running_pid > 0 => state[running_pid] = "RUN"
      /\ \A p \in Pid : state[p] = "RUN" => p = running_pid
  BY <1>1, PidFacts DEF RunPlaced, InState
<1>3. QED
  BY <1>1, <1>2, SchedulerPlaces DEF Resume

(* A handler that takes the CPU from its caller.                            *)
LEMMA BlockPlaces ==
  ASSUME TypeOK, ReadyPlaced, RunPlaced, running_pid > 0,
         NEW s \in State \ {"READY", "RUN"}, Block(s)
  PROVE  Scheduled([state EXCEPT ![running_pid] = s])
<1> DEFINE st == [state EXCEPT ![running_pid] = s]
<1>1. /\ running_pid \in Pid /\ ready_q \in Seq(Pid) /\ state \in [Pid -> State]
      /\ running_pid # 0 /\ state[running_pid] = "RUN"
  BY PidFacts DEF TypeOK, RunPlaced
<1>2. st \in [Pid -> State] /\ st[running_pid] = s
      /\ \A p \in Pid \ {running_pid} : st[p] = state[p]
  BY <1>1
<1> HIDE DEF st
<1>3. Holds(ready_q, {p \in Pid \ {0} : st[p] = "READY"})
  <2>1. {p \in Pid \ {0} : st[p] = "READY"} = InState("READY") \ {0}
    BY <1>1, <1>2 DEF InState
  <2>2. QED
    BY <2>1 DEF ReadyPlaced
<1>4. st[0] \in {"READY", "RUN"} /\ \A p \in Pid : st[p] # "RUN"
  BY <1>1, <1>2, PidFacts DEF RunPlaced, InState
<1>5. Scheduler(NONE, ready_q, st) /\ ~(NONE > 0)
  BY DEF Block, st, NONE
<1>6. Scheduled(st)
  BY <1>1, <1>2, <1>3, <1>4, <1>5, SchedulerPlaces
<1>7. QED
  BY <1>6 DEF st

(* A handler that makes a process ready that was neither ready nor running. *)
LEMMA WakePlaces ==
  ASSUME TypeOK, ReadyPlaced, RunPlaced, NEW p \in Pid,
         state[p] \notin {"READY", "RUN"}, Wake(p)
  PROVE  Scheduled([state EXCEPT ![p] = "READY"])
<1> DEFINE st == [state EXCEPT ![p] = "READY"]
           rq == EnQ(p, ready_q)
<1>1. /\ running_pid \in Pid /\ ready_q \in Seq(Pid) /\ state \in [Pid -> State]
      /\ p # 0
  BY DEF TypeOK, RunPlaced
<1>2. st \in [Pid -> State] /\ st[p] = "READY"
      /\ \A o \in Pid \ {p} : st[o] = state[o]
  BY <1>1 DEF State
<1>3. /\ rq \in Seq(Pid)
      /\ Holds(rq, (InState("READY") \ {0}) \cup {p})
  BY <1>1, EnQPlaces DEF ReadyPlaced, InState
<1>4. Scheduler(running_pid, rq, st)
  BY DEF Wake
<1> HIDE DEF st, rq
<1>5. Holds(rq, {o \in Pid \ {0} : st[o] = "READY"})
  <2>1. {o \in Pid \ {0} : st[o] = "READY"} = (InState("READY") \ {0}) \cup {p}
    BY <1>1, <1>2 DEF InState
  <2>2. QED
    BY <1>3, <2>1
<1>6. /\ st[0] \in {"READY", "RUN"}
      /\ running_pid > 0 => st[running_pid] = "RUN"
      /\ \A o \in Pid : st[o] = "RUN" => o = running_pid
  BY <1>1, <1>2, PidFacts DEF RunPlaced, InState
<1>7. Scheduled(st)
  BY <1>1, <1>2, <1>3, <1>4, <1>5, <1>6, SchedulerPlaces
<1>8. QED
  BY <1>7 DEF st

-----------------------------------------------------------------------------
(***************************************************************************)
(* The queues a step does not touch.                                       *)
(***************************************************************************)
Same(s) == \A p \in Pid : state'[p] = s <=> state[p] = s

LEMMA KeepSleep ==
  ASSUME SleepPlaced, sleep_q' = sleep_q, Same("SLEEP")
  PROVE  SleepPlaced'
<1>1. InState("SLEEP")' = InState("SLEEP")
  BY DEF InState, Same
<1>2. QED
  BY <1>1 DEF SleepPlaced, Holds

LEMMA KeepFree ==
  ASSUME FreePlaced, free_q' = free_q, Same("FREE")
  PROVE  FreePlaced'
<1>1. InState("FREE")' = InState("FREE")
  BY DEF InState, Same
<1>2. QED
  BY <1>1 DEF FreePlaced, Holds

LEMMA KeepWait ==
  ASSUME TypeOK, WaitPlaced, UNCHANGED <<sem_q, sem_wait_q, msg_wait_q>>, Same("WAIT")
  PROVE  WaitPlaced'
<1>1. InState("WAIT")' = InState("WAIT")
  BY DEF InState, Same
<1>2. ASSUME NEW s \in Sem, NEW p \in Range(sem_wait_q[s])
      PROVE  state'[p] = "WAIT"
  <2>1. p \in Pid
    BY RangeOfSeq DEF TypeOK
  <2>2. QED
    BY <2>1 DEF WaitPlaced, Same
<1>3. QED
  BY <1>1, <1>2 DEF WaitPlaced, Same

(* What Scheduled() says of a state no handler gives away.                  *)
LEMMA ScheduledSame ==
  ASSUME NEW s \in State \ {"READY", "RUN"}, NEW st,
         Scheduled(st), \A p \in Pid : st[p] = s <=> state[p] = s
  PROVE  Same(s)
BY DEF Scheduled, Same

(* A PID that no queue of waiting processes holds: one that does not wait.  *)
LEMMA NotWaiting ==
  ASSUME WaitPlaced, NEW p \in Pid, state[p] # "WAIT"
  PROVE  msg_wait_q[p] = <<>> /\ \A s \in Sem : p \notin Range(sem_wait_q[s])
BY DEF WaitPlaced

-----------------------------------------------------------------------------
(***************************************************************************)
(* The queues of waiting processes: one blocks, one is woken.              *)
(***************************************************************************)
LEMMA SemBlockPlaces ==
  ASSUME TypeOK, WaitPlaced, NEW r \in Pid, state[r] # "WAIT", NEW s \in Allocated,
         sem_wait_q' = [sem_wait_q EXCEPT ![s] = EnQ(r, sem_wait_q[s])],
         UNCHANGED <<sem_q, msg_wait_q>>,
         \A p \in Pid : state'[p] = "WAIT" <=> state[p] = "WAIT" \/ p = r
  PROVE  WaitPlaced'
<1>1. s \in Sem /\ s \notin Range(sem_q) /\ sem_wait_q \in [Sem -> Seq(Pid)]
  BY DEF Allocated, TypeOK
<1>2. msg_wait_q[r] = <<>> /\ \A t \in Sem : r \notin Range(sem_wait_q[t])
  BY NotWaiting
<1>3. Holds(EnQ(r, sem_wait_q[s]), Range(sem_wait_q[s]) \cup {r})
  BY <1>1, <1>2, EnQPlaces DEF Holds, WaitPlaced
<1>4. /\ IsInjective(sem_wait_q'[s]) /\ Range(sem_wait_q'[s]) = Range(sem_wait_q[s]) \cup {r}
      /\ \A t \in Sem \ {s} : sem_wait_q'[t] = sem_wait_q[t]
  BY <1>1, <1>3 DEF Holds
<1>5. ASSUME NEW p \in Pid, state'[p] = "WAIT"
      PROVE  p \in Range(msg_wait_q'[p]) \/ \E t \in Sem : p \in Range(sem_wait_q'[t])
  <2>1. CASE p = r
    BY <1>1, <1>4, <2>1
  <2>2. CASE state[p] = "WAIT"
    BY <1>1, <1>4, <2>2 DEF WaitPlaced, InState
  <2>3. QED
    BY <1>5, <2>1, <2>2
<1>6. ASSUME NEW t \in Sem
      PROVE  /\ IsInjective(sem_wait_q'[t])
             /\ \A p \in Range(sem_wait_q'[t]) :
                   /\ state'[p] = "WAIT"
                   /\ msg_wait_q'[p] = <<>>
                   /\ \A u \in Sem \ {t} : p \notin Range(sem_wait_q'[u])
  <2>0. \A p \in Range(sem_wait_q[t]) : p \in Pid
    BY <1>1, RangeOfSeq
  <2>1. IsInjective(sem_wait_q'[t])
    BY <1>4 DEF WaitPlaced
  <2>2. ASSUME NEW p \in Range(sem_wait_q'[t])
        PROVE  /\ state'[p] = "WAIT"
               /\ msg_wait_q'[p] = <<>>
               /\ \A u \in Sem \ {t} : p \notin Range(sem_wait_q'[u])
    <3>1. CASE p = r
      <4>1. t = s
        BY <1>2, <1>4, <2>2, <3>1
      <4>2. QED
        BY <1>2, <1>4, <3>1, <4>1
    <3>2. CASE p # r
      <4>1. p \in Range(sem_wait_q[t])
        BY <1>4, <2>2, <3>2
      <4>2. QED
        BY <1>4, <2>0, <3>2, <4>1 DEF WaitPlaced
    <3>3. QED
      BY <3>1, <3>2
  <2>3. QED
    BY <2>1, <2>2
<1>7. \A p \in Pid : msg_wait_q'[p] # <<>> => msg_wait_q'[p] = <<p>> /\ state'[p] = "WAIT"
  BY DEF WaitPlaced
<1>8. \A t \in Range(sem_q') : sem_wait_q'[t] = <<>>
  <2>1. \A t \in Range(sem_q) : t \in Sem /\ t # s
    BY <1>1, RangeOfSeq DEF TypeOK
  <2>2. QED
    BY <1>4, <2>1 DEF WaitPlaced
<1>9. QED
  BY <1>5, <1>6, <1>7, <1>8 DEF WaitPlaced, InState

LEMMA SemWakePlaces ==
  ASSUME TypeOK, WaitPlaced, NEW s \in Sem, sem_wait_q[s] # <<>>,
         sem_wait_q' = [sem_wait_q EXCEPT ![s] = Tail(sem_wait_q[s])],
         UNCHANGED <<sem_q, msg_wait_q>>,
         \A p \in Pid : state'[p] = "WAIT" <=> state[p] = "WAIT" /\ p # Head(sem_wait_q[s])
  PROVE  WaitPlaced'
<1> DEFINE h == Head(sem_wait_q[s])
<1>1. sem_wait_q \in [Sem -> Seq(Pid)]
  BY DEF TypeOK
<1>2. /\ h \in Pid /\ h \in Range(sem_wait_q[s])
      /\ IsInjective(Tail(sem_wait_q[s]))
      /\ Range(Tail(sem_wait_q[s])) = Range(sem_wait_q[s]) \ {h}
  BY <1>1, TailRemoves DEF WaitPlaced
<1>3. /\ state[h] = "WAIT" /\ msg_wait_q[h] = <<>>
      /\ \A t \in Sem \ {s} : h \notin Range(sem_wait_q[t])
  BY <1>2 DEF WaitPlaced
<1>4. /\ IsInjective(sem_wait_q'[s]) /\ Range(sem_wait_q'[s]) = Range(sem_wait_q[s]) \ {h}
      /\ \A t \in Sem \ {s} : sem_wait_q'[t] = sem_wait_q[t]
  BY <1>1, <1>2
<1>5. \A p \in Pid : state'[p] = "WAIT" <=> state[p] = "WAIT" /\ p # h
  OBVIOUS
<1> HIDE DEF h
<1>6. ASSUME NEW p \in Pid, state'[p] = "WAIT"
      PROVE  p \in Range(msg_wait_q'[p]) \/ \E t \in Sem : p \in Range(sem_wait_q'[t])
  <2>1. state[p] = "WAIT" /\ p # h
    BY <1>5, <1>6
  <2>2. CASE p \in Range(msg_wait_q[p])
    BY <2>2
  <2>3. ASSUME NEW t \in Sem, p \in Range(sem_wait_q[t])
        PROVE  p \in Range(sem_wait_q'[t])
    BY <1>4, <2>1, <2>3
  <2>4. QED
    BY <2>1, <2>2, <2>3 DEF WaitPlaced, InState
<1>7. ASSUME NEW t \in Sem
      PROVE  /\ IsInjective(sem_wait_q'[t])
             /\ \A p \in Range(sem_wait_q'[t]) :
                   /\ state'[p] = "WAIT"
                   /\ msg_wait_q'[p] = <<>>
                   /\ \A u \in Sem \ {t} : p \notin Range(sem_wait_q'[u])
  <2>0. \A p \in Range(sem_wait_q[t]) : p \in Pid
    BY <1>1, RangeOfSeq
  <2>1. IsInjective(sem_wait_q'[t])
    BY <1>4 DEF WaitPlaced
  <2>2. ASSUME NEW p \in Range(sem_wait_q'[t])
        PROVE  /\ state'[p] = "WAIT"
               /\ msg_wait_q'[p] = <<>>
               /\ \A u \in Sem \ {t} : p \notin Range(sem_wait_q'[u])
    <3>1. p \in Range(sem_wait_q[t]) /\ p # h
      BY <1>3, <1>4, <2>2
    <3>2. QED
      BY <1>4, <1>5, <2>0, <3>1 DEF WaitPlaced
  <2>3. QED
    BY <2>1, <2>2
<1>8. \A p \in Pid : msg_wait_q'[p] # <<>> => msg_wait_q'[p] = <<p>> /\ state'[p] = "WAIT"
  BY <1>3, <1>5 DEF WaitPlaced
<1>9. \A t \in Range(sem_q') : sem_wait_q'[t] = <<>>
  <2>1. \A t \in Range(sem_q) : t \in Sem /\ t # s
    BY RangeOfSeq DEF TypeOK, WaitPlaced
  <2>2. QED
    BY <1>4, <2>1 DEF WaitPlaced
<1>10. QED
  BY <1>6, <1>7, <1>8, <1>9 DEF WaitPlaced, InState

LEMMA MsgBlockPlaces ==
  ASSUME TypeOK, WaitPlaced, NEW r \in Pid, state[r] # "WAIT",
         msg_wait_q' = [msg_wait_q EXCEPT ![r] = EnQ(r, msg_wait_q[r])],
         UNCHANGED <<sem_q, sem_wait_q>>,
         \A p \in Pid : state'[p] = "WAIT" <=> state[p] = "WAIT" \/ p = r
  PROVE  WaitPlaced'
<1>1. msg_wait_q[r] = <<>> /\ \A s \in Sem : r \notin Range(sem_wait_q[s])
  BY NotWaiting
<1>2. EnQ(r, <<>>) = <<r>>
  <2>1. Len(<<>>) < Q_LEN
    BY KernelAssumption, QueueAssumption
  <2>2. QED
    BY <2>1 DEF EnQ
<1>3. /\ msg_wait_q'[r] = <<r>>
      /\ \A p \in Pid \ {r} : msg_wait_q'[p] = msg_wait_q[p]
  BY <1>1, <1>2 DEF TypeOK
<1>4. r \in Range(msg_wait_q'[r])
  BY <1>3 DEF Range
<1>5. ASSUME NEW s \in Sem, NEW p \in Range(sem_wait_q[s])
      PROVE  p \in Pid /\ p # r /\ state'[p] = "WAIT" /\ msg_wait_q'[p] = <<>>
  <2>1. p \in Pid
    BY RangeOfSeq DEF TypeOK
  <2>2. QED
    BY <1>1, <1>3, <2>1 DEF WaitPlaced
<1>6. \A p \in Pid : state'[p] = "WAIT" =>
        p \in Range(msg_wait_q'[p]) \/ \E s \in Sem : p \in Range(sem_wait_q'[s])
  BY <1>3, <1>4 DEF WaitPlaced, InState
<1>7. \A p \in Pid : msg_wait_q'[p] # <<>> => msg_wait_q'[p] = <<p>> /\ state'[p] = "WAIT"
  BY <1>3 DEF WaitPlaced
<1>8. QED
  BY <1>5, <1>6, <1>7 DEF WaitPlaced, InState

LEMMA MsgWakePlaces ==
  ASSUME TypeOK, WaitPlaced, NEW to \in Pid, msg_wait_q[to] # <<>>,
         msg_wait_q' = [msg_wait_q EXCEPT ![to] = Tail(msg_wait_q[to])],
         UNCHANGED <<sem_q, sem_wait_q>>,
         \A p \in Pid : state'[p] = "WAIT" <=> state[p] = "WAIT" /\ p # to
  PROVE  WaitPlaced'
<1>1. msg_wait_q[to] = <<to>> /\ state[to] = "WAIT"
  BY DEF WaitPlaced
<1>2. /\ msg_wait_q'[to] = <<>>
      /\ \A p \in Pid \ {to} : msg_wait_q'[p] = msg_wait_q[p]
  BY <1>1 DEF TypeOK
<1>3. ASSUME NEW s \in Sem, NEW p \in Range(sem_wait_q[s])
      PROVE  p \in Pid /\ p # to /\ state'[p] = "WAIT" /\ msg_wait_q'[p] = <<>>
  <2>1. p \in Pid
    BY RangeOfSeq DEF TypeOK
  <2>2. state[p] = "WAIT" /\ msg_wait_q[p] = <<>>
    BY DEF WaitPlaced
  <2>3. QED
    BY <1>1, <1>2, <2>1, <2>2
<1>4. \A p \in Pid : state'[p] = "WAIT" =>
        p \in Range(msg_wait_q'[p]) \/ \E s \in Sem : p \in Range(sem_wait_q'[s])
  BY <1>2 DEF WaitPlaced, InState
<1>5. \A p \in Pid : msg_wait_q'[p] # <<>> => msg_wait_q'[p] = <<p>> /\ state'[p] = "WAIT"
  BY <1>2 DEF WaitPlaced
<1>6. QED
  BY <1>3, <1>4, <1>5 DEF WaitPlaced, InState

-----------------------------------------------------------------------------
(***************************************************************************)
(* The steps.                                                              *)
(***************************************************************************)
LEMMA PlaceInit == Init => OnePlace
<1> SUFFICES ASSUME Init PROVE OnePlace
  OBVIOUS
<1>1. /\ BOOT_PROCS \in Nat /\ MAX_PROC_NUM \in Nat /\ BOOT_PROCS >= 1
      /\ MAX_PROC_NUM >= BOOT_PROCS
  BY KernelAssumption
<1>2. /\ state = [p \in Pid |-> IF p < BOOT_PROCS THEN "READY" ELSE "FREE"]
      /\ ready_q = [i \in 1 .. BOOT_PROCS - 1 |-> i]
      /\ free_q = [i \in 1 .. MAX_PROC_NUM - BOOT_PROCS |-> BOOT_PROCS + i - 1]
      /\ sleep_q = <<>> /\ running_pid = 0
  BY DEF Init, Booted
<1>3. ReadyPlaced
  <2>1. IsInjective(ready_q) /\ Range(ready_q) = 1 .. BOOT_PROCS - 1
    BY <1>2 DEF IsInjective, Range
  <2>2. InState("READY") \ {0} = 1 .. BOOT_PROCS - 1
    BY <1>1, <1>2 DEF InState, Pid
  <2>3. QED
    BY <2>1, <2>2 DEF ReadyPlaced, Holds
<1>4. FreePlaced
  <2>1. IsInjective(free_q)
    BY <1>1, <1>2 DEF IsInjective
  <2>2. ASSUME NEW p \in BOOT_PROCS .. MAX_PROC_NUM - 1
        PROVE  \E i \in 1 .. MAX_PROC_NUM - BOOT_PROCS : BOOT_PROCS + i - 1 = p
    <3>1. p - BOOT_PROCS + 1 \in 1 .. MAX_PROC_NUM - BOOT_PROCS
      BY <1>1
    <3>2. BOOT_PROCS + (p - BOOT_PROCS + 1) - 1 = p
      BY <1>1
    <3>3. QED
      BY <3>1, <3>2
  <2>3. ASSUME NEW i \in 1 .. MAX_PROC_NUM - BOOT_PROCS
        PROVE  BOOT_PROCS + i - 1 \in BOOT_PROCS .. MAX_PROC_NUM - 1
    BY <1>1
  <2>4. Range(free_q) = BOOT_PROCS .. MAX_PROC_NUM - 1
    BY <1>2, <2>2, <2>3 DEF Range
  <2>5. InState("FREE") = BOOT_PROCS .. MAX_PROC_NUM - 1
    BY <1>1, <1>2 DEF InState, Pid
  <2>6. QED
    BY <2>1, <2>4, <2>5 DEF FreePlaced, Holds
<1>5. SleepPlaced
  <2>1. InState("SLEEP") = {}
    BY <1>2 DEF InState
  <2>2. IsInjective(<<>>) /\ Range(<<>>) = {}
    BY DEF IsInjective, Range
  <2>3. QED
    BY <1>2, <2>1, <2>2 DEF SleepPlaced, Holds
<1>6. RunPlaced
  BY <1>1, <1>2, PidFacts DEF RunPlaced, InState
<1>7. WaitPlaced
  <2>1. /\ \A p \in Pid : state[p] # "WAIT" /\ msg_wait_q[p] = <<>>
        /\ \A s \in Sem : sem_wait_q[s] = <<>>
    BY <1>2 DEF Init
  <2>2. IsInjective(<<>>) /\ Range(<<>>) = {}
    BY DEF IsInjective, Range
  <2>3. \A s \in Range(sem_q) : s \in Sem
    BY TypeInit, RangeOfSeq DEF TypeOK
  <2>4. QED
    BY <2>1, <2>2, <2>3 DEF WaitPlaced, InState
<1>8. QED
  BY <1>3, <1>4, <1>5, <1>6, <1>7 DEF OnePlace

(* A step that ends with the caller running and touches no queue.           *)
LEMMA ResumeKeeps ==
  ASSUME TypeOK, OnePlace, Resume,
         UNCHANGED <<sleep_q, free_q, sem_q, sem_wait_q, msg_wait_q>>
  PROVE  OnePlace'
<1>1. Scheduled(state)
  BY ResumePlaces DEF OnePlace
<1>2. Same("SLEEP") /\ Same("FREE") /\ Same("WAIT")
  BY <1>1, ScheduledSame DEF State
<1>3. QED
  BY <1>1, <1>2, KeepSleep, KeepFree, KeepWait DEF OnePlace, Scheduled

(* A call comes from the running process, which is in no queue.             *)
LEMMA CallerRuns ==
  ASSUME TypeOK, OnePlace, running_pid > 0
  PROVE  /\ running_pid \in Pid \ {0} /\ state[running_pid] = "RUN"
         /\ state \in [Pid -> State]
BY PidFacts DEF TypeOK, OnePlace, RunPlaced

(* The caller goes to sleep.                                                *)
LEMMA PlaceSleep ==
  ASSUME TypeOK, OnePlace, NEW ticks \in SleepTicks, Sleep(ticks)
  PROVE  OnePlace'
<1> DEFINE st == [state EXCEPT ![running_pid] = "SLEEP"]
<1>1. /\ running_pid \in Pid \ {0} /\ state[running_pid] = "RUN"
      /\ state \in [Pid -> State] /\ running_pid > 0
  BY CallerRuns DEF Sleep, Syscall
<1>2. Scheduled(st)
  BY <1>1, BlockPlaces DEF Sleep, State, OnePlace
<1>3. /\ \A p \in Pid : st[p] = "FREE" <=> state[p] = "FREE"
      /\ \A p \in Pid : st[p] = "WAIT" <=> state[p] = "WAIT"
      /\ \A p \in Pid : st[p] = "SLEEP" <=> state[p] = "SLEEP" \/ p = running_pid
  BY <1>1
<1> HIDE DEF st
<1>4. Same("FREE") /\ Same("WAIT")
  BY <1>2, <1>3, ScheduledSame DEF State
<1>5. SleepPlaced'
  <2>1. InState("SLEEP")' = InState("SLEEP") \cup {running_pid}
    BY <1>1, <1>2, <1>3 DEF Scheduled, InState, State
  <2>2. sleep_q' = EnQ(running_pid, sleep_q) /\ sleep_q \in Seq(Pid)
    BY DEF Sleep, TypeOK
  <2>3. running_pid \notin InState("SLEEP")
    BY <1>1 DEF InState
  <2>4. QED
    BY <1>1, <2>1, <2>2, <2>3, EnQPlaces DEF OnePlace, SleepPlaced, Holds
<1>6. FreePlaced' /\ WaitPlaced'
  BY <1>4, KeepFree, KeepWait DEF Sleep, OnePlace, semVars, msgVars, procVars
<1>7. QED
  BY <1>2, <1>5, <1>6 DEF OnePlace, Scheduled

(* A semaphore is handed out; nobody waits on it.                           *)
LEMMA PlaceSemGet ==
  ASSUME TypeOK, OnePlace, NEW lim \in SemLimits, SemGet(lim)
  PROVE  OnePlace'
<1>1. Resume /\ UNCHANGED <<sleep_q, free_q, msg_wait_q>>
  BY DEF SemGet, timeVars, msgVars, procVars
<1>2. CASE sem_q = <<>>
  BY <1>1, <1>2, ResumeKeeps DEF SemGet, semVars
<1>3. CASE sem_q # <<>>
  <2> DEFINE s == Head(sem_q)
  <2>1. /\ sem_q' = Tail(sem_q)
        /\ sem_wait_q' = [sem_wait_q EXCEPT ![s] = <<>>]
    BY <1>3 DEF SemGet
  <2>2. s \in Range(sem_q) /\ s \in Sem /\ Range(Tail(sem_q)) \subseteq Range(sem_q)
    BY <1>3, TailRemoves DEF TypeOK
  <2>3. sem_wait_q' = sem_wait_q
    BY <2>1, <2>2 DEF OnePlace, WaitPlaced, TypeOK
  <2>4. Scheduled(state)
    BY <1>1, ResumePlaces DEF OnePlace
  <2>5. Same("SLEEP") /\ Same("FREE") /\ Same("WAIT")
    BY <2>4, ScheduledSame DEF State
  <2>6. SleepPlaced' /\ FreePlaced'
    BY <1>1, <2>5, KeepSleep, KeepFree DEF OnePlace
  <2>7. WaitPlaced'
    <3>1. \A t \in Range(sem_q') : sem_wait_q'[t] = <<>>
      BY <2>1, <2>2, <2>3 DEF OnePlace, WaitPlaced
    <3>2. ASSUME NEW t \in Sem, NEW p \in Range(sem_wait_q[t])
          PROVE  state'[p] = "WAIT"
      <4>1. p \in Pid
        BY RangeOfSeq DEF TypeOK
      <4>2. QED
        BY <2>5, <4>1 DEF OnePlace, WaitPlaced, Same
    <3>3. InState("WAIT")' = InState("WAIT")
      BY <2>5 DEF InState, Same
    <3>4. QED
      BY <1>1, <2>3, <2>5, <3>1, <3>2, <3>3 DEF OnePlace, WaitPlaced, Same
  <2>8. QED
    BY <2>4, <2>6, <2>7 DEF OnePlace, Scheduled
<1>4. QED
  BY <1>2, <1>3

(* The caller passes or waits.                                              *)
LEMMA PlaceSemWait ==
  ASSUME TypeOK, OnePlace, NEW s \in Sem, SemWait(s)
  PROVE  OnePlace'
<1>1. s \in Allocated /\ UNCHANGED <<sleep_q, free_q, sem_q, msg_wait_q>>
  BY DEF SemWait, timeVars, msgVars, procVars
<1>2. CASE CountLeft(s)
  BY <1>1, <1>2, ResumeKeeps DEF SemWait
<1>3. CASE ~CountLeft(s)
  <2> DEFINE st == [state EXCEPT ![running_pid] = "WAIT"]
  <2>1. /\ running_pid \in Pid \ {0} /\ state[running_pid] = "RUN"
        /\ state \in [Pid -> State] /\ running_pid > 0
    BY CallerRuns DEF SemWait, Syscall
  <2>2. /\ sem_wait_q' = [sem_wait_q EXCEPT ![s] = EnQ(running_pid, sem_wait_q[s])]
        /\ Block("WAIT")
    BY <1>3 DEF SemWait
  <2>3. Scheduled(st)
    BY <2>1, <2>2, BlockPlaces DEF State, OnePlace
  <2>4. /\ \A p \in Pid : st[p] = "FREE" <=> state[p] = "FREE"
        /\ \A p \in Pid : st[p] = "SLEEP" <=> state[p] = "SLEEP"
        /\ \A p \in Pid : st[p] = "WAIT" <=> state[p] = "WAIT" \/ p = running_pid
    BY <2>1
  <2> HIDE DEF st
  <2>5. Same("FREE") /\ Same("SLEEP")
    BY <2>3, <2>4, ScheduledSame DEF State
  <2>6. \A p \in Pid : state'[p] = "WAIT" <=> state[p] = "WAIT" \/ p = running_pid
    BY <2>3, <2>4 DEF Scheduled, State
  <2>7. WaitPlaced'
    BY <1>1, <2>1, <2>2, <2>6, SemBlockPlaces DEF OnePlace
  <2>8. QED
    BY <1>1, <2>3, <2>5, <2>7, KeepFree, KeepSleep DEF OnePlace, Scheduled
<1>4. QED
  BY <1>2, <1>3

(* The count is raised, or the first process that waits is woken.           *)
LEMMA PlaceSemPost ==
  ASSUME TypeOK, OnePlace, NEW s \in Sem, SemPostISR(s)
  PROVE  OnePlace'
<1>1. UNCHANGED <<sleep_q, free_q, sem_q, msg_wait_q>>
  BY DEF SemPostISR, timeVars, msgVars, procVars
<1>2. CASE sem_wait_q[s] = <<>>
  BY <1>1, <1>2, ResumeKeeps DEF SemPostISR
<1>3. CASE sem_wait_q[s] # <<>>
  <2> DEFINE h == Head(sem_wait_q[s])
             st == [state EXCEPT ![h] = "READY"]
  <2>1. /\ sem_wait_q' = [sem_wait_q EXCEPT ![s] = Tail(sem_wait_q[s])]
        /\ Wake(h)
    BY <1>3 DEF SemPostISR
  <2>2. h \in Pid /\ state[h] = "WAIT" /\ state \in [Pid -> State]
    <3>1. h \in Pid /\ h \in Range(sem_wait_q[s])
      BY <1>3, TailRemoves DEF TypeOK
    <3>2. QED
      BY <3>1 DEF OnePlace, WaitPlaced, TypeOK
  <2>3. Scheduled(st)
    BY <2>1, <2>2, WakePlaces DEF OnePlace
  <2>4. /\ \A p \in Pid : st[p] = "FREE" <=> state[p] = "FREE"
        /\ \A p \in Pid : st[p] = "SLEEP" <=> state[p] = "SLEEP"
        /\ \A p \in Pid : st[p] = "WAIT" <=> state[p] = "WAIT" /\ p # h
    BY <2>2
  <2> HIDE DEF st
  <2>5. Same("FREE") /\ Same("SLEEP")
    BY <2>3, <2>4, ScheduledSame DEF State
  <2>6. \A p \in Pid : state'[p] = "WAIT" <=> state[p] = "WAIT" /\ p # h
    BY <2>3, <2>4 DEF Scheduled, State
  <2>7. WaitPlaced'
    BY <1>1, <1>3, <2>1, <2>6, SemWakePlaces DEF OnePlace
  <2>8. QED
    BY <1>1, <2>3, <2>5, <2>7, KeepFree, KeepSleep DEF OnePlace, Scheduled
<1>4. QED
  BY <1>2, <1>3

(* The message is stored, or its recipient is woken.                        *)
LEMMA PlaceMsgSnd ==
  ASSUME TypeOK, OnePlace, NEW to \in Pid, NEW d \in Data, MsgSnd(to, d)
  PROVE  OnePlace'
<1>1. UNCHANGED <<sleep_q, free_q, sem_q, sem_wait_q>>
  BY DEF MsgSnd, timeVars, semVars, procVars
<1>2. CASE msg_wait_q[to] = <<>>
  BY <1>1, <1>2, ResumeKeeps DEF MsgSnd
<1>3. CASE msg_wait_q[to] # <<>>
  <2> DEFINE st == [state EXCEPT ![to] = "READY"]
  <2>1. msg_wait_q[to] = <<to>> /\ state[to] = "WAIT" /\ state \in [Pid -> State]
    BY <1>3 DEF OnePlace, WaitPlaced, TypeOK
  <2>2. /\ msg_wait_q' = [msg_wait_q EXCEPT ![to] = Tail(msg_wait_q[to])]
        /\ Wake(to)
    BY <1>3, <2>1 DEF MsgSnd
  <2>3. Scheduled(st)
    BY <2>1, <2>2, WakePlaces DEF OnePlace
  <2>4. /\ \A p \in Pid : st[p] = "FREE" <=> state[p] = "FREE"
        /\ \A p \in Pid : st[p] = "SLEEP" <=> state[p] = "SLEEP"
        /\ \A p \in Pid : st[p] = "WAIT" <=> state[p] = "WAIT" /\ p # to
    BY <2>1
  <2> HIDE DEF st
  <2>5. Same("FREE") /\ Same("SLEEP")
    BY <2>3, <2>4, ScheduledSame DEF State
  <2>6. \A p \in Pid : state'[p] = "WAIT" <=> state[p] = "WAIT" /\ p # to
    BY <2>3, <2>4 DEF Scheduled, State
  <2>7. WaitPlaced'
    BY <1>1, <1>3, <2>2, <2>6, MsgWakePlaces DEF OnePlace
  <2>8. QED
    BY <1>1, <2>3, <2>5, <2>7, KeepFree, KeepSleep DEF OnePlace, Scheduled
<1>4. QED
  BY <1>2, <1>3

(* The caller takes a message, or waits for one.                            *)
LEMMA PlaceMsgRcv ==
  ASSUME TypeOK, OnePlace, MsgRcv
  PROVE  OnePlace'
<1>1. UNCHANGED <<sleep_q, free_q, sem_q, sem_wait_q>>
  BY DEF MsgRcv, timeVars, semVars, procVars
<1>2. CASE HasMail(running_pid)
  BY <1>1, <1>2, ResumeKeeps DEF MsgRcv
<1>3. CASE ~HasMail(running_pid)
  <2> DEFINE st == [state EXCEPT ![running_pid] = "WAIT"]
  <2>1. /\ running_pid \in Pid \ {0} /\ state[running_pid] = "RUN"
        /\ state \in [Pid -> State] /\ running_pid > 0
    BY CallerRuns DEF MsgRcv, Syscall
  <2>2. /\ msg_wait_q' = [msg_wait_q EXCEPT ![running_pid] =
                             EnQ(running_pid, msg_wait_q[running_pid])]
        /\ Block("WAIT")
    BY <1>3 DEF MsgRcv
  <2>3. Scheduled(st)
    BY <2>1, <2>2, BlockPlaces DEF State, OnePlace
  <2>4. /\ \A p \in Pid : st[p] = "FREE" <=> state[p] = "FREE"
        /\ \A p \in Pid : st[p] = "SLEEP" <=> state[p] = "SLEEP"
        /\ \A p \in Pid : st[p] = "WAIT" <=> state[p] = "WAIT" \/ p = running_pid
    BY <2>1
  <2> HIDE DEF st
  <2>5. Same("FREE") /\ Same("SLEEP")
    BY <2>3, <2>4, ScheduledSame DEF State
  <2>6. \A p \in Pid : state'[p] = "WAIT" <=> state[p] = "WAIT" \/ p = running_pid
    BY <2>3, <2>4 DEF Scheduled, State
  <2>7. WaitPlaced'
    BY <1>1, <2>1, <2>2, <2>6, MsgBlockPlaces DEF OnePlace
  <2>8. QED
    BY <1>1, <2>3, <2>5, <2>7, KeepFree, KeepSleep DEF OnePlace, Scheduled
<1>4. QED
  BY <1>2, <1>3

(* The sleepers that are due move to the ready queue, the others stay.      *)
LEMMA WakeSleepersPlaces ==
  ASSUME TypeOK, SleepPlaced,
         NEW run \in Pid \cup {NONE}, NEW rq \in Seq(Pid), NEW st \in [Pid -> State],
         Holds(rq, {p \in Pid \ {0} : st[p] = "READY"}),
         st[0] \in {"READY", "RUN"},
         run > 0 => st[run] = "RUN",
         \A p \in Pid : st[p] = "RUN" => p = run,
         \A p \in Pid : st[p] = "SLEEP" <=> state[p] = "SLEEP",
         WakeSleepers(run, rq, st)
  PROVE  /\ ReadyPlaced' /\ RunPlaced' /\ SleepPlaced'
         /\ \A p \in Pid : \A s \in State \ {"READY", "RUN", "SLEEP"} :
              state'[p] = s <=> st[p] = s
<1> DEFINE woken == Select(sleep_q, Due)
           marked == [p \in Pid |-> IF p \in Range(woken) THEN "READY" ELSE st[p]]
           all == EnQAll(woken, rq)
<1>1. /\ sleep_q' = Select(sleep_q, Pid \ Due)
      /\ Scheduler(run, all, marked)
  BY DEF WakeSleepers
<1>2. sleep_q \in Seq(Pid) /\ IsInjective(sleep_q) /\ Range(sleep_q) = InState("SLEEP")
  BY DEF TypeOK, SleepPlaced, Holds
<1>3. woken \in Seq(Pid) /\ IsInjective(woken) /\ Range(woken) = InState("SLEEP") \cap Due
  BY <1>2, SelectSelects
<1>4. /\ IsInjective(Select(sleep_q, Pid \ Due))
      /\ Range(Select(sleep_q, Pid \ Due)) = InState("SLEEP") \cap (Pid \ Due)
  BY <1>2, SelectSelects
<1>5. /\ marked \in [Pid -> State]
      /\ \A p \in Pid : marked[p] = IF p \in Range(woken) THEN "READY" ELSE st[p]
  BY DEF State
<1> HIDE DEF woken, marked
<1>6. Range(rq) \cap Range(woken) = {}
  BY <1>3 DEF Holds, InState
<1>7. Len(rq) + Len(woken) <= Q_LEN
  <2>1. /\ IsFiniteSet(Range(rq)) /\ Len(rq) = Cardinality(Range(rq))
        /\ IsFiniteSet(Range(woken)) /\ Len(woken) = Cardinality(Range(woken))
    BY <1>3, PidFacts, LenIsCardinality DEF Holds
  <2>2. Cardinality(Range(rq) \cup Range(woken)) = Len(rq) + Len(woken)
    <3>1. Cardinality(Range(rq) \cup Range(woken)) =
            Cardinality(Range(rq)) + Cardinality(Range(woken)) - Cardinality({})
      BY <1>6, <2>1, FS_Union
    <3>2. Len(rq) \in Nat /\ Len(woken) \in Nat /\ Cardinality({}) = 0
      BY <1>3, LenProperties, FS_EmptySet
    <3>3. QED
      BY <2>1, <3>1, <3>2
  <2>3. Range(rq) \cup Range(woken) \in SUBSET Pid
    BY <1>3, RangeOfSeq
  <2>4. Cardinality(Range(rq) \cup Range(woken)) <= Cardinality(Pid)
    BY <2>3, PidFacts, FS_Subset
  <2>5. Len(rq) \in Nat /\ Len(woken) \in Nat /\ Cardinality(Pid) \in Nat
    BY <1>3, LenProperties, PidFacts, FS_CardinalityType
  <2>6. QED
    BY <2>2, <2>4, <2>5, PidFacts, QueueAssumption
<1>8. /\ all \in Seq(Pid) /\ IsInjective(all)
      /\ Range(all) = Range(rq) \cup Range(woken)
  <2>1. rq \in Seq(Pid) /\ IsInjective(rq)
    BY DEF Holds
  <2>2. /\ all \in Seq(Pid)
        /\ Len(rq) + Len(woken) <= Q_LEN =>
             /\ Range(all) = Range(rq) \cup Range(woken)
             /\ IsInjective(rq) /\ IsInjective(woken)
                  /\ Range(rq) \cap Range(woken) = {} => IsInjective(all)
    BY <1>3, <2>1, EnQAllAdds
  <2>3. QED
    BY <1>3, <1>6, <1>7, <2>1, <2>2
<1>9. Holds(all, {p \in Pid \ {0} : marked[p] = "READY"})
  <2>1. 0 \notin Range(woken) /\ Range(woken) \subseteq Pid
    BY <1>3, PidFacts DEF InState
  <2>2. {p \in Pid \ {0} : marked[p] = "READY"} =
          {p \in Pid \ {0} : st[p] = "READY"} \cup Range(woken)
    BY <1>5, <2>1
  <2>3. QED
    BY <1>8, <2>2 DEF Holds
<1> HIDE DEF all
<1>10. /\ marked[0] \in {"READY", "RUN"}
       /\ run > 0 => marked[run] = "RUN"
       /\ \A p \in Pid : marked[p] = "RUN" => p = run
  <2>1. \A p \in Range(woken) : p \in Pid /\ st[p] = "SLEEP"
    BY <1>3 DEF InState
  <2>2. run > 0 => run \in Pid /\ run \notin Range(woken)
    BY <2>1, PidFacts DEF NONE
  <2>3. QED
    BY <1>5, <2>1, <2>2, PidFacts
<1>11. Scheduled(marked)
  BY <1>1, <1>5, <1>8, <1>9, <1>10, SchedulerPlaces
<1>12. SleepPlaced'
  <2>1. \A p \in Pid : state'[p] = "SLEEP" <=> marked[p] = "SLEEP"
    BY <1>11 DEF Scheduled, State
  <2>2. InState("SLEEP")' = InState("SLEEP") \cap (Pid \ Due)
    BY <1>3, <1>5, <2>1 DEF InState
  <2>3. QED
    BY <1>1, <1>4, <2>2 DEF SleepPlaced, Holds
<1>13. ASSUME NEW p \in Pid, NEW s \in State \ {"READY", "RUN", "SLEEP"}
       PROVE  state'[p] = s <=> st[p] = s
  <2>1. state'[p] = s <=> marked[p] = s
    BY <1>11 DEF Scheduled
  <2>2. p \in Range(woken) => st[p] = "SLEEP"
    BY <1>3 DEF InState
  <2>3. QED
    BY <1>5, <2>1, <2>2
<1>14. QED
  BY <1>11, <1>12, <1>13 DEF Scheduled

LEMMA PlaceTimer ==
  ASSUME TypeOK, OnePlace, Timer
  PROVE  OnePlace'
<1>1. /\ running_pid \in Pid /\ ready_q \in Seq(Pid) /\ state \in [Pid -> State]
      /\ Holds(ready_q, {p \in Pid \ {0} : state[p] = "READY"})
      /\ UNCHANGED <<free_q, sem_q, sem_wait_q, msg_wait_q>>
  <2>1. {p \in Pid \ {0} : state[p] = "READY"} = InState("READY") \ {0}
    BY DEF InState
  <2>2. QED
    BY <2>1 DEF TypeOK, OnePlace, ReadyPlaced, Timer, semVars, msgVars, procVars
<1>2. /\ ReadyPlaced' /\ RunPlaced' /\ SleepPlaced'
      /\ Same("FREE") /\ Same("WAIT")
  <2>1. CASE SliceOver
    <3> DEFINE st == [state EXCEPT ![running_pid] = "READY"]
               rq == EnQ(running_pid, ready_q)
    <3>1. WakeSleepers(NONE, rq, st)
      BY <2>1 DEF Timer
    <3>2. running_pid > 0
      BY <2>1 DEF SliceOver
    <3>3. running_pid # 0 /\ state[running_pid] = "RUN"
      BY <3>2, CallerRuns
    <3>4. /\ st \in [Pid -> State] /\ st[running_pid] = "READY"
          /\ \A p \in Pid \ {running_pid} : st[p] = state[p]
      BY <1>1 DEF State
    <3>5. /\ rq \in Seq(Pid)
          /\ Holds(rq, {p \in Pid \ {0} : state[p] = "READY"} \cup {running_pid})
      BY <1>1, <3>3, EnQPlaces
    <3> HIDE DEF st, rq
    <3>6. Holds(rq, {p \in Pid \ {0} : st[p] = "READY"})
      <4>1. {p \in Pid \ {0} : st[p] = "READY"} =
              {p \in Pid \ {0} : state[p] = "READY"} \cup {running_pid}
        BY <1>1, <3>3, <3>4
      <4>2. QED
        BY <3>5, <4>1
    <3>7. /\ st[0] \in {"READY", "RUN"}
          /\ \A p \in Pid : st[p] # "RUN"
      BY <1>1, <3>3, <3>4, PidFacts DEF OnePlace, RunPlaced, InState
    <3>8. ~(NONE > 0)
      BY DEF NONE
    <3>9. \A p \in Pid : st[p] = "SLEEP" <=> state[p] = "SLEEP"
      BY <3>3, <3>4
    <3>10. /\ ReadyPlaced' /\ RunPlaced' /\ SleepPlaced'
           /\ \A p \in Pid : \A s \in State \ {"READY", "RUN", "SLEEP"} :
                state'[p] = s <=> st[p] = s
      BY <3>1, <3>4, <3>5, <3>6, <3>7, <3>8, <3>9, WakeSleepersPlaces DEF OnePlace
    <3>11. Same("FREE") /\ Same("WAIT")
      BY <3>3, <3>4, <3>10 DEF Same, State
    <3>12. QED
      BY <3>10, <3>11
  <2>2. CASE ~SliceOver
    <3>1. WakeSleepers(running_pid, ready_q, state)
      BY <2>2 DEF Timer
    <3>2. /\ state[0] \in {"READY", "RUN"}
          /\ running_pid > 0 => state[running_pid] = "RUN"
          /\ \A p \in Pid : state[p] = "RUN" => p = running_pid
      BY <1>1, PidFacts DEF OnePlace, RunPlaced, InState
    <3>3. /\ ReadyPlaced' /\ RunPlaced' /\ SleepPlaced'
          /\ \A p \in Pid : \A s \in State \ {"READY", "RUN", "SLEEP"} :
               state'[p] = s <=> state[p] = s
      BY <1>1, <3>1, <3>2, WakeSleepersPlaces DEF OnePlace
    <3>4. QED
      BY <3>3 DEF Same, State
  <2>3. QED
    BY <2>1, <2>2
<1>3. QED
  BY <1>1, <1>2, KeepFree, KeepWait DEF OnePlace

(* A PID leaves free_q for the ready queue; nobody waited under that PID.   *)
LEMMA NewProcPlaces ==
  ASSUME TypeOK, OnePlace, free_q # <<>>, free_q' = Tail(free_q),
         msg_wait_q' = [msg_wait_q EXCEPT ![Head(free_q)] = <<>>],
         UNCHANGED <<sleep_q, sem_q, sem_wait_q>>,
         Wake(Head(free_q))
  PROVE  OnePlace'
<1> DEFINE h == Head(free_q)
           st == [state EXCEPT ![h] = "READY"]
<1>1. /\ h \in Pid /\ state \in [Pid -> State]
      /\ IsInjective(Tail(free_q)) /\ Range(Tail(free_q)) = InState("FREE") \ {h}
      /\ h \in InState("FREE")
  <2>1. /\ free_q \in Seq(Pid) /\ state \in [Pid -> State]
        /\ IsInjective(free_q) /\ Range(free_q) = InState("FREE")
    BY DEF TypeOK, OnePlace, FreePlaced, Holds
  <2>2. QED
    BY <2>1, TailRemoves
<1>2. state[h] = "FREE"
  BY <1>1 DEF InState
<1>3. Scheduled(st)
  BY <1>1, <1>2, WakePlaces DEF OnePlace
<1>4. /\ \A p \in Pid : st[p] = "SLEEP" <=> state[p] = "SLEEP"
      /\ \A p \in Pid : st[p] = "WAIT" <=> state[p] = "WAIT"
      /\ \A p \in Pid : st[p] = "FREE" <=> state[p] = "FREE" /\ p # h
  BY <1>1, <1>2
<1>5. msg_wait_q' = msg_wait_q
  <2>1. msg_wait_q[h] = <<>> /\ msg_wait_q \in [Pid -> Seq(Pid)]
    BY <1>1, <1>2, NotWaiting DEF OnePlace, TypeOK
  <2>2. msg_wait_q' = [msg_wait_q EXCEPT ![h] = <<>>]
    OBVIOUS
  <2> HIDE DEF h
  <2>3. QED
    BY <2>1, <2>2
<1> HIDE DEF st, h
<1>6. Same("SLEEP") /\ Same("WAIT")
  BY <1>3, <1>4, ScheduledSame DEF State
<1>7. FreePlaced'
  <2>1. InState("FREE")' = InState("FREE") \ {h}
    BY <1>3, <1>4 DEF Scheduled, InState, State
  <2>2. QED
    BY <1>1, <2>1 DEF FreePlaced, Holds
<1>8. QED
  BY <1>3, <1>5, <1>6, <1>7, KeepSleep, KeepWait DEF OnePlace, Scheduled

LEMMA PlaceStartProc ==
  ASSUME TypeOK, OnePlace, StartProc
  PROVE  OnePlace'
<1>1. Head(free_q) # 0
  <2>1. free_q # <<>> /\ free_q \in Seq(Pid) /\ Range(free_q) = InState("FREE")
    BY DEF StartProc, TypeOK, OnePlace, FreePlaced, Holds
  <2>2. Head(free_q) \in InState("FREE")
    BY <2>1, TailRemoves
  <2>3. QED
    BY <2>2 DEF InState, OnePlace, RunPlaced
<1>2. /\ free_q # <<>> /\ free_q' = Tail(free_q)
      /\ msg_wait_q' = [msg_wait_q EXCEPT ![Head(free_q)] = <<>>]
      /\ UNCHANGED <<sleep_q, sem_q, sem_wait_q>>
      /\ Wake(Head(free_q))
  BY <1>1 DEF StartProc, timeVars, semVars
<1>3. QED
  BY <1>2, NewProcPlaces

LEMMA PlaceFork ==
  ASSUME TypeOK, OnePlace, Fork
  PROVE  OnePlace'
<1>1. UNCHANGED <<sleep_q, sem_q, sem_wait_q>>
  BY DEF Fork, semVars
<1>2. CASE ForkFails
  BY <1>1, <1>2, ResumeKeeps DEF Fork, procVars, msgVars
<1>3. CASE ~ForkFails
  BY <1>1, <1>3, NewProcPlaces DEF Fork, ForkSucceeds, ForkFails
<1>4. QED
  BY <1>2, <1>3

(* Without a zombie child the caller waits in no queue at all.              *)
LEMMA PlaceWait ==
  ASSUME TypeOK, OnePlace, Wait, ReapsZombies = FALSE
  PROVE  OnePlace'
<1> DEFINE st == [state EXCEPT ![running_pid] = "FORKWAIT"]
<1>1. /\ Block("FORKWAIT")
      /\ UNCHANGED <<sleep_q, free_q, sem_q, sem_wait_q, msg_wait_q>>
  BY DEF Wait, timeVars, semVars, msgVars
<1>2. /\ running_pid \in Pid \ {0} /\ state[running_pid] = "RUN"
      /\ state \in [Pid -> State] /\ running_pid > 0
  BY CallerRuns DEF Wait, Syscall
<1>3. Scheduled(st)
  BY <1>1, <1>2, BlockPlaces DEF State, OnePlace
<1>4. \A p \in Pid : \A s \in {"FREE", "SLEEP", "WAIT"} :
         st[p] = s <=> state[p] = s
  BY <1>2
<1> HIDE DEF st
<1>5. Same("FREE") /\ Same("SLEEP") /\ Same("WAIT")
  BY <1>3, <1>4, ScheduledSame DEF State
<1>6. QED
  BY <1>1, <1>3, <1>5, KeepFree, KeepSleep, KeepWait DEF OnePlace, Scheduled

(* The caller leaves for good: its PID goes to free_q, its parent's to the  *)
(* ready queue.                                                             *)
LEMMA LeavePlaces ==
  ASSUME TypeOK, OnePlace, running_pid > 0,
         NEW parent \in Pid, state[parent] = "FORKWAIT", Leave(parent),
         UNCHANGED <<sleep_q, sem_q, sem_wait_q, msg_wait_q>>
  PROVE  OnePlace'
<1> DEFINE st == [state EXCEPT ![parent] = "READY", ![running_pid] = "FREE"]
           rq == EnQ(parent, ready_q)
<1>1. /\ running_pid \in Pid \ {0} /\ state[running_pid] = "RUN"
      /\ state \in [Pid -> State] /\ ready_q \in Seq(Pid) /\ free_q \in Seq(Pid)
      /\ parent # running_pid /\ parent # 0
  BY CallerRuns DEF OnePlace, RunPlaced, TypeOK
<1>2. /\ st \in [Pid -> State] /\ st[parent] = "READY" /\ st[running_pid] = "FREE"
      /\ \A p \in Pid \ {parent, running_pid} : st[p] = state[p]
  BY <1>1 DEF State
<1>3. /\ rq \in Seq(Pid)
      /\ Holds(rq, (InState("READY") \ {0}) \cup {parent})
  BY <1>1, EnQPlaces DEF OnePlace, ReadyPlaced, InState
<1>4. Scheduler(NONE, rq, st) /\ ~(NONE > 0)
  BY DEF Leave, NONE
<1> HIDE DEF st, rq
<1>5. Holds(rq, {p \in Pid \ {0} : st[p] = "READY"})
  <2>1. {p \in Pid \ {0} : st[p] = "READY"} = (InState("READY") \ {0}) \cup {parent}
    BY <1>1, <1>2 DEF InState
  <2>2. QED
    BY <1>3, <2>1
<1>6. st[0] \in {"READY", "RUN"} /\ \A p \in Pid : st[p] # "RUN"
  BY <1>1, <1>2, PidFacts DEF OnePlace, RunPlaced, InState
<1>7. Scheduled(st)
  BY <1>2, <1>3, <1>4, <1>5, <1>6, SchedulerPlaces
<1>8. Same("SLEEP") /\ Same("WAIT")
  <2>1. \A p \in Pid : \A s \in {"SLEEP", "WAIT"} : st[p] = s <=> state[p] = s
    BY <1>1, <1>2
  <2>2. QED
    BY <1>7, <2>1, ScheduledSame DEF State
<1>9. FreePlaced'
  <2>1. InState("FREE")' = InState("FREE") \cup {running_pid}
    BY <1>1, <1>2, <1>7 DEF Scheduled, InState, State
  <2>2. Holds(free_q, InState("FREE")) /\ running_pid \notin InState("FREE")
    BY <1>1 DEF OnePlace, FreePlaced, InState
  <2>3. Holds(EnQ(running_pid, free_q), InState("FREE") \cup {running_pid})
    BY <1>1, <2>2, EnQPlaces
  <2>4. free_q' = EnQ(running_pid, free_q)
    BY DEF Leave
  <2>5. QED
    BY <2>1, <2>3, <2>4 DEF FreePlaced, Holds
<1>10. QED
  BY <1>7, <1>8, <1>9, KeepSleep, KeepWait DEF OnePlace, Scheduled

LEMMA PlaceExitISR ==
  ASSUME TypeOK, OnePlace, running_pid > 0, ExitISR
  PROVE  OnePlace'
<1>1. UNCHANGED <<sleep_q, sem_q, sem_wait_q, msg_wait_q>>
  BY DEF ExitISR, semVars, msgVars
<1>2. CASE state[ppid[running_pid]] # "FORKWAIT"
  <2> DEFINE st == [state EXCEPT ![running_pid] = "ZOMBIE"]
  <2>1. Block("ZOMBIE") /\ free_q' = free_q
    BY <1>2 DEF ExitISR, procVars
  <2>2. /\ running_pid \in Pid \ {0} /\ state[running_pid] = "RUN"
        /\ state \in [Pid -> State]
    BY CallerRuns
  <2>3. Scheduled(st)
    BY <2>1, <2>2, BlockPlaces DEF State, OnePlace
  <2>4. \A p \in Pid : \A s \in {"FREE", "SLEEP", "WAIT"} :
           st[p] = s <=> state[p] = s
    BY <2>2
  <2> HIDE DEF st
  <2>5. Same("FREE") /\ Same("SLEEP") /\ Same("WAIT")
    BY <2>3, <2>4, ScheduledSame DEF State
  <2>6. QED
    BY <1>1, <2>1, <2>3, <2>5, KeepFree, KeepSleep, KeepWait DEF OnePlace, Scheduled
<1>3. CASE state[ppid[running_pid]] = "FORKWAIT"
  <2>1. ppid[running_pid] \in Pid /\ Leave(ppid[running_pid])
    BY <1>3 DEF ExitISR, TypeOK
  <2>2. QED
    BY <1>1, <1>3, <2>1, LeavePlaces
<1>4. QED
  BY <1>2, <1>3

LEMMA PlacePageFault ==
  ASSUME TypeOK, OnePlace, PageFault
  PROVE  OnePlace'
<1>1. CASE /\ Resume
           /\ UNCHANGED <<timeVars, semVars, msgVars, free_q>>
  BY <1>1, ResumeKeeps DEF timeVars, semVars, msgVars
<1>2. CASE ExitISR
  BY <1>2, PlaceExitISR DEF PageFault, Syscall
<1>3. QED
  BY <1>1, <1>2 DEF PageFault

-----------------------------------------------------------------------------
(* Every step leaves every process in its place.                            *)
LEMMA PlaceNext ==
  ASSUME ReapsZombies = FALSE
  PROVE  TypeOK /\ OnePlace /\ [Next]_vars => OnePlace'
<1> SUFFICES ASSUME TypeOK, OnePlace, [Next]_vars PROVE OnePlace'
  OBVIOUS
<1>1. CASE Timer
  BY <1>1, PlaceTimer
<1>2. CASE GetPid
  BY <1>2, ResumeKeeps DEF GetPid, timeVars, semVars, msgVars, procVars
<1>3. ASSUME NEW ticks \in SleepTicks, Sleep(ticks) PROVE OnePlace'
  BY <1>3, PlaceSleep
<1>4. ASSUME NEW lim \in SemLimits, SemGet(lim) PROVE OnePlace'
  BY <1>4, PlaceSemGet
<1>5. ASSUME NEW s \in Sem, SemWait(s) \/ SemPost(s) PROVE OnePlace'
  BY <1>5, PlaceSemWait, PlaceSemPost DEF SemPost
<1>6. CASE IRQ7
  <2>1. printing_semaphore \in Sem
    BY KernelAssumption, QueueAssumption DEF printing_semaphore, Sem
  <2>2. QED
    BY <1>6, <2>1, PlaceSemPost DEF IRQ7
<1>16. CASE IRQ3
  BY <1>16, PlaceSemPost DEF IRQ3, Allocated
<1>7. ASSUME NEW to \in Pid, NEW d \in Data, MsgSnd(to, d) PROVE OnePlace'
  BY <1>7, PlaceMsgSnd
<1>8. CASE MsgRcv
  BY <1>8, PlaceMsgRcv
<1>9. CASE StartProc
  BY <1>9, PlaceStartProc
<1>10. CASE Fork
  BY <1>10, PlaceFork
<1>11. CASE Wait
  BY <1>11, PlaceWait
<1>12. CASE Exit
  BY <1>12, PlaceExitISR DEF Exit, Syscall
<1>13. CASE PageFault
  BY <1>13, PlacePageFault
<1>14. CASE UNCHANGED vars
  BY <1>14 DEF OnePlace, ReadyPlaced, SleepPlaced, FreePlaced, RunPlaced,
     WaitPlaced, Holds, InState, vars, schedVars, timeVars, semVars, msgVars,
     procVars
<1>15. QED
  BY <1>1, <1>2, <1>3, <1>4, <1>5, <1>6, <1>7, <1>8, <1>9, <1>10, <1>11,
     <1>12, <1>13, <1>14, <1>16 DEF Next

(***************************************************************************)
(* As long as Wait() finds no zombies, every process is in exactly the one *)
(* place its state says: no handler loses a PID or queues it twice, and no *)
(* queue is ever found full.                                               *)
(***************************************************************************)
THEOREM Placed == ASSUME ReapsZombies = FALSE PROVE Spec => []OnePlace
<1>1. Init => OnePlace
  BY PlaceInit
<1>2. TypeOK /\ OnePlace /\ [Next]_vars => OnePlace'
  BY PlaceNext
<1>3. QED
  BY <1>1, <1>2, TypeCorrect, PTL DEF Spec
=============================================================================
