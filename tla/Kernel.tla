------------------------------- MODULE Kernel -------------------------------
(***************************************************************************)
(* The trap-driven core of the kernel: KernelMain() with the handlers it   *)
(* calls (isr.c) and the Scheduler() that ends every trap.                 *)
(*                                                                         *)
(* Every entry in the IDT is an interrupt gate, so a trap runs from        *)
(* KernelMain() to LoadRun() with interrupts off: one trap is one action,  *)
(* the handler followed by Scheduler().  Between two traps the process     *)
(* running_pid executes user code; it may issue any system call, and an    *)
(* interrupt may come at any instruction.                                  *)
(*                                                                         *)
(* A q_t is the sequence of the elements it holds.  Left out: the text on  *)
(* the console, total_runtime and msg.OS_clock (nothing reads them), the   *)
(* contents of pages and trap frames except the result registers.          *)
(***************************************************************************)
EXTENDS Queues

CONSTANTS
  MAX_PROC_NUM,    \* size of the process table                   (20)
  BOOT_PROCS,      \* processes main() starts                      (6)
  SEM_COUNT,       \* number of semaphores                         (20)
  TIME_LIMIT,      \* timer ticks of a time slice                  (10)
  CLOCK_MOD,       \* OS_clock and wake_time are ints modulo this  (2^32)
  MAX_LIMIT,       \* the largest count a semaphore's int can hold (2^31-1)
  DRAM_PAGE_COUNT, \* pages of DRAM[]                              (100)
  FORK_PAGES,      \* pages a forked process starts with           (5)
  SleepTicks,      \* the durations processes sleep, in ticks
  SemLimits,       \* the initial counts processes ask of SemGet
  Data,            \* message contents
  NoMsg,           \* a message buffer nothing was received in
  Garbage,         \* what is found at an address of another address space
  Calls,           \* the traps that occur besides the timer
  ReapsZombies     \* TRUE iff a process may call Wait when it already has
                   \* a zombie child

Pid  == 0 .. MAX_PROC_NUM - 1
Sem  == 0 .. SEM_COUNT - 1
Page == 0 .. DRAM_PAGE_COUNT - 1
Msg  == [sender : Pid, data : Data]

NONE           == -1   \* no process, no page
OS_trans_table == -2   \* the kernel's own translation table
printing_semaphore == 0   \* never assigned: the 0 it starts with

State == {"FREE", "READY", "RUN", "SLEEP", "WAIT", "ZOMBIE", "FORKWAIT"}

(***************************************************************************)
(* A queue is as long as the process table; the other constants are sizes. *)
(***************************************************************************)
ASSUME KernelAssumption ==
  /\ MAX_PROC_NUM \in Nat /\ BOOT_PROCS \in 1 .. MAX_PROC_NUM
  /\ Q_LEN >= MAX_PROC_NUM
  /\ SEM_COUNT \in 1 .. Q_LEN
  /\ TIME_LIMIT \in Nat \ {0} /\ CLOCK_MOD \in Nat \ {0}
  /\ MAX_LIMIT \in Nat
  /\ DRAM_PAGE_COUNT \in Nat /\ FORK_PAGES \in Nat \ {0}
  /\ SleepTicks \subseteq Nat
  /\ SemLimits \subseteq 0 .. MAX_LIMIT
  /\ NoMsg \notin Msg /\ Garbage \notin Msg \cup {NoMsg}
  /\ ReapsZombies \in BOOLEAN

VARIABLES
  running_pid, ready_q, free_q, sleep_q,     \* main.c
  state, runtime, wake_time, ppid, trans_table,   \* the fields of pcb[]
  OS_clock,
  sem_q, sem_limit, sem_wait_q,              \* sem_q and sem[]
  msg_q, msg_wait_q,                         \* msg_q[].msg and .wait_q
  DRAM,                                      \* DRAM[].owner
  inbox,   \* the buffer in which a process receives its messages
  ret      \* the result register of a process's trap frame

schedVars == <<running_pid, ready_q, state>>
timeVars  == <<OS_clock, sleep_q, wake_time>>
semVars   == <<sem_q, sem_limit, sem_wait_q>>
msgVars   == <<msg_q, msg_wait_q, inbox>>
procVars  == <<free_q, ppid, trans_table, DRAM>>
vars == <<schedVars, timeVars, semVars, msgVars, procVars, runtime, ret>>

-----------------------------------------------------------------------------
(***************************************************************************)
(* Scheduler(): run, rq and st are running_pid, ready_q and the states as  *)
(* the handler leaves them.  A process that may go on running does; else   *)
(* the head of the ready queue, or IdleProc when there is none.            *)
(***************************************************************************)
Scheduler(run, rq, st) ==
  \/ /\ run > 0
     /\ running_pid' = run
     /\ ready_q' = rq
     /\ state' = st
  \/ /\ run <= 0 /\ rq # <<>>
     /\ running_pid' = Head(rq)
     /\ ready_q' = Tail(rq)
     /\ state' = [st EXCEPT ![0] = IF run = 0 THEN "READY" ELSE @,
                            ![Head(rq)] = "RUN"]
  \/ /\ run <= 0 /\ rq = <<>>
     /\ running_pid' = 0
     /\ ready_q' = rq
     /\ state' = [st EXCEPT ![0] = "RUN"]

(* The handler leaves the caller running and wakes nobody.                 *)
Resume == Scheduler(running_pid, ready_q, state)

(* Mutant: the state of the caller is left as it was.                      *)
BlockUnmarked(s) == Scheduler(NONE, ready_q, state)

(* The handler takes the CPU from the caller, which is now in state s.     *)
Block(s) == Scheduler(NONE, ready_q, [state EXCEPT ![running_pid] = s])

(* The handler makes p ready; the caller goes on running.                  *)
Wake(p) ==
  Scheduler(running_pid, EnQ(p, ready_q), [state EXCEPT ![p] = "READY"])

(* IdleProc makes no system calls.                                         *)
Syscall(name) == name \in Calls /\ running_pid > 0

-----------------------------------------------------------------------------
(***************************************************************************)
(* The timer interrupt: TimerISR() charges the running process and puts it *)
(* back in the ready queue when its slice is over; then the clock advances *)
(* and the sleepers whose wake_time is the new clock join the ready queue. *)
(***************************************************************************)
SliceOver == running_pid > 0 /\ runtime[running_pid] + 1 >= TIME_LIMIT

Charge ==
  IF running_pid < 1 THEN runtime
  ELSE [runtime EXCEPT ![running_pid] = IF SliceOver THEN 0 ELSE @ + 1]

NextClock == (OS_clock + 1) % CLOCK_MOD

(* Mutant: a sleeper is due when its wake_time is not after the clock.     *)
DueByOrder == {p \in Pid : wake_time[p] <= NextClock}

(* Mutant: the clock is compared before it wraps around.                   *)
DueWithoutWrap == {p \in Pid : wake_time[p] = OS_clock + 1}

(* The comparison OS_clock == pcb[pid].wake_time, after OS_clock++.        *)
Due == {p \in Pid : wake_time[p] = NextClock}

(* Mutant: the sleepers that stay asleep are not queued again.             *)
WakeSleepersOnly(run, rq, st) ==
  LET woken == Select(sleep_q, Due)
  IN  /\ OS_clock' = NextClock
      /\ sleep_q' = <<>>
      /\ Scheduler(run, EnQAll(woken, rq),
                   [p \in Pid |-> IF p \in Range(woken) THEN "READY" ELSE st[p]])

WakeSleepers(run, rq, st) ==
  LET woken == Select(sleep_q, Due)
  IN  /\ OS_clock' = NextClock
      /\ sleep_q' = Select(sleep_q, Pid \ Due)
      /\ Scheduler(run, EnQAll(woken, rq),
                   [p \in Pid |-> IF p \in Range(woken) THEN "READY" ELSE st[p]])

Timer ==
  /\ \/ /\ SliceOver
        /\ WakeSleepers(NONE, EnQ(running_pid, ready_q),
                        [state EXCEPT ![running_pid] = "READY"])
     \/ /\ ~SliceOver
        /\ WakeSleepers(running_pid, ready_q, state)
  /\ runtime' = Charge
  /\ UNCHANGED <<wake_time, semVars, msgVars, procVars, ret>>

(* GetPidISR().                                                            *)
GetPid ==
  /\ Syscall("GetPid")
  /\ ret' = [ret EXCEPT ![running_pid] = running_pid]
  /\ Resume
  /\ UNCHANGED <<timeVars, semVars, msgVars, procVars, runtime>>

(* SleepISR(): the sum wraps around like the clock does.                   *)
Sleep(ticks) ==
  /\ Syscall("Sleep")
  /\ wake_time' = [wake_time EXCEPT
                     ![running_pid] = (OS_clock + ticks) % CLOCK_MOD]
  /\ sleep_q' = EnQ(running_pid, sleep_q)
  /\ Block("SLEEP")
  /\ UNCHANGED <<OS_clock, semVars, msgVars, procVars, runtime, ret>>

-----------------------------------------------------------------------------
(***************************************************************************)
(* Semaphores.  The ids a process passes are ids some SemGet() returned.   *)
(***************************************************************************)
Allocated == Sem \ Range(sem_q)

SemGet(lim) ==
  /\ Syscall("SemGet")
  /\ \/ /\ sem_q = <<>>
        /\ ret' = [ret EXCEPT ![running_pid] = -1]
        /\ UNCHANGED semVars
     \/ /\ sem_q # <<>>
        /\ sem_q' = Tail(sem_q)
        /\ sem_limit' = [sem_limit EXCEPT ![Head(sem_q)] = lim]
        /\ sem_wait_q' = [sem_wait_q EXCEPT ![Head(sem_q)] = <<>>]
        /\ ret' = [ret EXCEPT ![running_pid] = Head(sem_q)]
  /\ Resume
  /\ UNCHANGED <<timeVars, msgVars, procVars, runtime>>

(* Mutants: the test of the count is off by one, either way.               *)
CountAboveOne(s) == sem_limit[s] > 1
CountNotNegative(s) == sem_limit[s] >= 0

(* The test of SemWaitISR() for a process that need not wait.              *)
CountLeft(s) == sem_limit[s] > 0

SemWait(s) ==
  /\ Syscall("SemWait")
  /\ s \in Allocated
  /\ \/ /\ CountLeft(s)
        /\ sem_limit' = [sem_limit EXCEPT ![s] = @ - 1]
        /\ UNCHANGED sem_wait_q
        /\ Resume
     \/ /\ ~CountLeft(s)
        /\ sem_wait_q' = [sem_wait_q EXCEPT ![s] = EnQ(running_pid, @)]
        /\ UNCHANGED sem_limit
        /\ Block("WAIT")
  /\ UNCHANGED <<sem_q, timeVars, msgVars, procVars, runtime, ret>>

(* The count is an int: MAX_LIMIT bounds it.                               *)
SemPostISR(s) ==
  /\ \/ /\ sem_wait_q[s] = <<>>
        /\ sem_limit[s] < MAX_LIMIT
        /\ sem_limit' = [sem_limit EXCEPT ![s] = @ + 1]
        /\ UNCHANGED sem_wait_q
        /\ Resume
     \/ /\ sem_wait_q[s] # <<>>
        /\ sem_wait_q' = [sem_wait_q EXCEPT ![s] = Tail(@)]
        /\ UNCHANGED sem_limit
        /\ Wake(Head(sem_wait_q[s]))
  /\ UNCHANGED <<sem_q, timeVars, msgVars, procVars, runtime, ret>>

SemPost(s) == Syscall("SemPost") /\ s \in Allocated /\ SemPostISR(s)

(* The serial port interrupt posts the semaphores of the terminal; a trap   *)
(* with several posts leaves what as many traps with one post leave.       *)
IRQ3 == "IRQ3" \in Calls /\ \E s \in Allocated : SemPostISR(s)

(* The printer interrupt posts printing_semaphore, allocated or not.       *)
IRQ7 == "IRQ7" \in Calls /\ SemPostISR(printing_semaphore)

-----------------------------------------------------------------------------
(***************************************************************************)
(* Messages.  MsgSndISR() hands the message to the recipient if it waits,  *)
(* otherwise MsgEnQ() stores it; a full mailbox loses it.                  *)
(***************************************************************************)
(* A process forked from a file has a translation table of its own.        *)
Forked(p) == trans_table[p] \in Page

(* The copy of *incoming_msg_ptr is made after set_cr3() to the table of   *)
(* the recipient, where the address of a forked sender means another page. *)
Copied(m) == IF Forked(running_pid) THEN Garbage ELSE m

MsgEnQ(m, q) == IF Len(q) < Q_LEN THEN Append(q, m) ELSE q

MsgSnd(to, d) ==
  /\ Syscall("MsgSnd")
  /\ LET m == [sender |-> running_pid, data |-> d]
     IN  \/ /\ msg_wait_q[to] = <<>>
            /\ msg_q' = [msg_q EXCEPT ![to] = MsgEnQ(m, @)]
            /\ UNCHANGED <<msg_wait_q, inbox>>
            /\ Resume
         \/ /\ msg_wait_q[to] # <<>>
            /\ msg_wait_q' = [msg_wait_q EXCEPT ![to] = Tail(@)]
            /\ inbox' = [inbox EXCEPT ![Head(msg_wait_q[to])] = Copied(m)]
            /\ UNCHANGED msg_q
            /\ Wake(Head(msg_wait_q[to]))
  /\ UNCHANGED <<timeVars, semVars, procVars, runtime, ret>>

(* Mutant: the test of the mailbox is off by one.                          *)
HasMailBehind(p) == Len(msg_q[p]) > 1

(* The test of MsgRcvISR() for a message to take.                          *)
HasMail(p) == Len(msg_q[p]) > 0

MsgRcv ==
  /\ Syscall("MsgRcv")
  /\ \/ /\ HasMail(running_pid)
        /\ msg_q' = [msg_q EXCEPT ![running_pid] = Tail(@)]
        /\ inbox' = [inbox EXCEPT ![running_pid] = Head(msg_q[running_pid])]
        /\ UNCHANGED msg_wait_q
        /\ Resume
     \/ /\ ~HasMail(running_pid)
        /\ msg_wait_q' = [msg_wait_q EXCEPT ![running_pid] = EnQ(running_pid, @)]
        /\ UNCHANGED <<msg_q, inbox>>
        /\ Block("WAIT")
  /\ UNCHANGED <<timeVars, semVars, procVars, runtime, ret>>

-----------------------------------------------------------------------------
(***************************************************************************)
(* Processes come and go.                                                  *)
(***************************************************************************)
(* Mutant: the pages of zombies count as free.                             *)
FreeOrZombiePages ==
  {i \in Page : IF DRAM[i] = NONE THEN TRUE ELSE state[DRAM[i]] = "ZOMBIE"}

FreePages == {i \in Page : DRAM[i] = NONE}

(* StartProcISR() with the PID its caller took from free_q; without one    *)
(* the trap only prints.                                                   *)
StartProc ==
  /\ Syscall("StartProc")
  /\ free_q # <<>>
  /\ LET new_pid == Head(free_q)
     IN  /\ runtime' = [runtime EXCEPT ![new_pid] = 0]
         /\ trans_table' = [trans_table EXCEPT ![new_pid] = OS_trans_table]
         /\ msg_q' = [msg_q EXCEPT ![new_pid] = <<>>]
         /\ msg_wait_q' = [msg_wait_q EXCEPT ![new_pid] = <<>>]
         /\ inbox' = [inbox EXCEPT ![new_pid] = NoMsg]
         /\ ret' = [ret EXCEPT ![new_pid] = 0]
         /\ IF new_pid # 0 THEN Wake(new_pid)
            ELSE Scheduler(running_pid, ready_q,
                           [state EXCEPT ![new_pid] = "READY"])
  /\ free_q' = Tail(free_q)
  /\ UNCHANGED <<timeVars, semVars, ppid, DRAM>>

(***************************************************************************)
(* ForkISR(): the child gets a PID and the lowest FORK_PAGES free pages,   *)
(* of which the lowest becomes its translation table; without a free PID   *)
(* or enough pages the caller gets -1.                                     *)
(***************************************************************************)
(* Mutant: the search for pages may end one page short.                    *)
ForkFailsLate == free_q = <<>> \/ Cardinality(FreePages) + 1 < FORK_PAGES

ForkFails == free_q = <<>> \/ Cardinality(FreePages) < FORK_PAGES

ForkSucceeds ==
  LET child == Head(free_q)
      pages == Lowest(FORK_PAGES, FreePages)
  IN  /\ \E main_table \in pages :
           /\ \A i \in pages : main_table <= i
           /\ trans_table' = [trans_table EXCEPT ![child] = main_table]
      /\ DRAM' = [i \in Page |-> IF i \in pages THEN child ELSE DRAM[i]]
      /\ free_q' = Tail(free_q)
      /\ runtime' = [runtime EXCEPT ![child] = 0]
      /\ wake_time' = [wake_time EXCEPT ![child] = 0]
      /\ ppid' = [ppid EXCEPT ![child] = running_pid]
      /\ msg_q' = [msg_q EXCEPT ![child] = <<>>]
      /\ msg_wait_q' = [msg_wait_q EXCEPT ![child] = <<>>]
      /\ inbox' = [inbox EXCEPT ![child] = NoMsg]
      /\ ret' = [ret EXCEPT ![running_pid] = child]
      /\ Wake(child)

Fork ==
  /\ Syscall("Fork")
  /\ \/ /\ ForkFails
        /\ ret' = [ret EXCEPT ![running_pid] = -1]
        /\ Resume
        /\ UNCHANGED <<procVars, msgVars, runtime, wake_time>>
     \/ ~ForkFails /\ ForkSucceeds
  /\ UNCHANGED <<OS_clock, sleep_q, semVars>>

(***************************************************************************)
(* WaitISR().  With no zombie child the caller waits for one.  With one    *)
(* the caller gets its PID, which goes back to free_q; but the loop that   *)
(* should free the child tests DRAM[dram_page].owner after setting it to   *)
(* -1: only the first page is freed and the child's PCB is not cleared.    *)
(* (The scan reads pcb[-1] for every free page and the loop clears it; the *)
(* bytes in front of pcb[] are taken not to look like a zombie child and   *)
(* to hold nothing the kernel uses.)                                       *)
(***************************************************************************)
(* Mutant: looks for the caller's parent instead of its children.          *)
ZombieParentPages ==
  {i \in Page : /\ DRAM[i] # NONE
                /\ ppid[running_pid] = DRAM[i]
                /\ state[DRAM[i]] = "ZOMBIE"}

(* Mutant: does not look whether the child has ended.                      *)
ChildPages ==
  {i \in Page : DRAM[i] # NONE /\ ppid[DRAM[i]] = running_pid}

ZombiePages ==
  {i \in Page : /\ DRAM[i] # NONE
                /\ ppid[DRAM[i]] = running_pid
                /\ state[DRAM[i]] = "ZOMBIE"}

Reap(i) ==
  /\ \A j \in ZombiePages : i <= j
  /\ ret' = [ret EXCEPT ![running_pid] = DRAM[i]]
  /\ DRAM' = [DRAM EXCEPT ![i] = NONE]
  /\ free_q' = EnQ(DRAM[i], free_q)
  /\ Resume

Wait ==
  /\ Syscall("Wait")
  /\ \/ /\ ZombiePages = {}
        /\ Block("FORKWAIT")
        /\ UNCHANGED <<free_q, DRAM, ret>>
     \/ ReapsZombies /\ \E i \in ZombiePages : Reap(i)
  /\ UNCHANGED <<timeVars, semVars, msgVars, ppid, trans_table, runtime>>

(***************************************************************************)
(* ExitISR(): if the parent is waiting it gets the PID of the caller, the  *)
(* caller's lowest FORK_PAGES pages are freed, its PCB is cleared and its  *)
(* PID goes back to free_q (Leave); otherwise the caller becomes a zombie. *)
(***************************************************************************)

(* Mutant: the PCB is left as it was.                                      *)
KeepPCB(p) == UNCHANGED <<runtime, wake_time, ppid, trans_table>>

(* MyBzero() of pcb[p]; its state becomes the FREE that Leave() sets.      *)
ClearPCB(p) ==
  /\ runtime' = [runtime EXCEPT ![p] = 0]
  /\ wake_time' = [wake_time EXCEPT ![p] = 0]
  /\ ppid' = [ppid EXCEPT ![p] = 0]
  /\ trans_table' = [trans_table EXCEPT ![p] = NONE]

(* The parent's trap frame is written under the translation table of the   *)
(* caller: the frame of a forked parent is out of its reach.               *)
Leave(parent) ==
  /\ ret' = IF Forked(parent) THEN ret ELSE [ret EXCEPT ![parent] = running_pid]
  /\ LET pages == Lowest(FORK_PAGES, {i \in Page : DRAM[i] = running_pid})
     IN  DRAM' = [i \in Page |-> IF i \in pages THEN NONE ELSE DRAM[i]]
  /\ ClearPCB(running_pid)
  /\ free_q' = EnQ(running_pid, free_q)
  /\ Scheduler(NONE, EnQ(parent, ready_q),
               [state EXCEPT ![parent] = "READY", ![running_pid] = "FREE"])

(* Mutant: does not look whether the parent waits.                         *)
ExitAnyway ==
  /\ Leave(ppid[running_pid])
  /\ UNCHANGED <<OS_clock, sleep_q, semVars, msgVars>>

ExitISR ==
  /\ \/ /\ state[ppid[running_pid]] # "FORKWAIT"
        /\ Block("ZOMBIE")
        /\ UNCHANGED <<procVars, runtime, wake_time, ret>>
     \/ /\ state[ppid[running_pid]] = "FORKWAIT"
        /\ Leave(ppid[running_pid])
  /\ UNCHANGED <<OS_clock, sleep_q, semVars, msgVars>>

Exit == Syscall("Exit") /\ ExitISR

(***************************************************************************)
(* PF_ISR() for a page that is not present, in a forked process (the       *)
(* others run on the kernel's table): the lowest free page goes to the     *)
(* process; when there is none the process is killed.                      *)
(***************************************************************************)
PageFault ==
  /\ Syscall("PageFault")
  /\ Forked(running_pid)
  /\ \/ /\ \E i \in FreePages :
             /\ \A j \in FreePages : i <= j
             /\ DRAM' = [DRAM EXCEPT ![i] = running_pid]
        /\ Resume
        /\ UNCHANGED <<timeVars, semVars, msgVars, free_q, ppid, trans_table,
                       runtime, ret>>
     \/ FreePages = {} /\ ExitISR

-----------------------------------------------------------------------------
(***************************************************************************)
(* The state main() leaves behind: PIDs 0 to BOOT_PROCS - 1 are started,   *)
(* and LoadRun() runs IdleProc, whose state is still READY.                *)
(***************************************************************************)
Booted(p) == p < BOOT_PROCS

Init ==
  /\ running_pid = 0
  /\ ready_q = [i \in 1 .. BOOT_PROCS - 1 |-> i]
  /\ free_q = [i \in 1 .. MAX_PROC_NUM - BOOT_PROCS |-> BOOT_PROCS + i - 1]
  /\ sleep_q = <<>>
  /\ state = [p \in Pid |-> IF Booted(p) THEN "READY" ELSE "FREE"]
  /\ runtime = [p \in Pid |-> 0]
  /\ wake_time = [p \in Pid |-> 0]
  /\ ppid = [p \in Pid |-> 0]
  /\ trans_table = [p \in Pid |-> IF Booted(p) THEN OS_trans_table ELSE NONE]
  /\ OS_clock = 0
  /\ sem_q = [i \in 1 .. SEM_COUNT |-> i - 1]
  /\ sem_limit = [s \in Sem |-> 0]
  /\ sem_wait_q = [s \in Sem |-> <<>>]
  /\ msg_q = [p \in Pid |-> <<>>]
  /\ msg_wait_q = [p \in Pid |-> <<>>]
  /\ DRAM = [i \in Page |-> NONE]
  /\ inbox = [p \in Pid |-> NoMsg]
  /\ ret = [p \in Pid |-> 0]

Next ==
  \/ Timer
  \/ GetPid
  \/ \E ticks \in SleepTicks : Sleep(ticks)
  \/ \E lim \in SemLimits : SemGet(lim)
  \/ \E s \in Sem : SemWait(s) \/ SemPost(s)
  \/ IRQ3
  \/ IRQ7
  \/ \E to \in Pid, d \in Data : MsgSnd(to, d)
  \/ MsgRcv
  \/ StartProc
  \/ Fork
  \/ Wait
  \/ Exit
  \/ PageFault

Spec == Init /\ [][Next]_vars

(* The timer chip never stops: a tick always comes.                        *)
FairSpec == Spec /\ WF_vars(Timer)
-----------------------------------------------------------------------------
(***************************************************************************)
(* TypeOK: the kernel's variables keep their types: queues hold PIDs,      *)
(* counts stay in the range of an int and running_pid is a PID whenever    *)
(* LoadRun() uses it.                                                      *)
(***************************************************************************)
TypeOK ==
  /\ running_pid \in Pid
  /\ ready_q \in Seq(Pid) /\ free_q \in Seq(Pid) /\ sleep_q \in Seq(Pid)
  /\ state \in [Pid -> State]
  /\ runtime \in [Pid -> 0 .. TIME_LIMIT - 1]
  /\ wake_time \in [Pid -> 0 .. CLOCK_MOD - 1]
  /\ ppid \in [Pid -> Pid]
  /\ trans_table \in [Pid -> Page \cup {NONE, OS_trans_table}]
  /\ OS_clock \in 0 .. CLOCK_MOD - 1
  /\ sem_q \in Seq(Sem)
  /\ sem_limit \in [Sem -> 0 .. MAX_LIMIT]
  /\ sem_wait_q \in [Sem -> Seq(Pid)]
  /\ msg_q \in [Pid -> Seq(Msg)]
  /\ msg_wait_q \in [Pid -> Seq(Pid)]
  /\ DRAM \in [Page -> Pid \cup {NONE}]
  /\ inbox \in [Pid -> Msg \cup {NoMsg, Garbage}]
  /\ ret \in [Pid -> Int]

(***************************************************************************)
(* OnePlace: a process is in exactly the one place its state says, once.   *)
(* A handler sets the state and moves the PID in separate statements (and  *)
(* main(), SleepISR(), SemPostISR(), ExitISR() in different orders): a     *)
(* process missed by one of them is never run again, one queued twice runs *)
(* on a trap frame that is already in use.  IdleProc is in no queue.       *)
(***************************************************************************)
InState(s) == {p \in Pid : state[p] = s}

Holds(q, S) == IsInjective(q) /\ Range(q) = S

ReadyPlaced == Holds(ready_q, InState("READY") \ {0})
SleepPlaced == Holds(sleep_q, InState("SLEEP"))
FreePlaced  == Holds(free_q, InState("FREE"))

RunPlaced ==
  /\ state[0] \in {"READY", "RUN"}
  /\ state[running_pid] = "RUN" \/ running_pid = 0
  /\ InState("RUN") \subseteq {running_pid}

WaitPlaced ==
  /\ \A p \in InState("WAIT") :
        \/ p \in Range(msg_wait_q[p])
        \/ \E s \in Sem : p \in Range(sem_wait_q[s])
  /\ \A s \in Sem :
        /\ IsInjective(sem_wait_q[s])
        /\ \A p \in Range(sem_wait_q[s]) :
              /\ state[p] = "WAIT"
              /\ msg_wait_q[p] = <<>>
              /\ \A t \in Sem \ {s} : p \notin Range(sem_wait_q[t])
  /\ \A p \in Pid :
        msg_wait_q[p] # <<>> => msg_wait_q[p] = <<p>> /\ state[p] = "WAIT"
  /\ \A s \in Range(sem_q) : sem_wait_q[s] = <<>>

OnePlace == ReadyPlaced /\ SleepPlaced /\ FreePlaced /\ RunPlaced /\ WaitPlaced

(***************************************************************************)
(* NoLostWakeup: nobody waits for what is already there.  A count left     *)
(* positive while a process waits, or a message stored in a mailbox whose  *)
(* owner waits, is a wakeup SemPostISR() or MsgSndISR() lost: the waiter   *)
(* sleeps until another post or message comes, which may be never.         *)
(***************************************************************************)
NoLostWakeup ==
  /\ \A s \in Sem : sem_limit[s] > 0 => sem_wait_q[s] = <<>>
  /\ \A p \in Pid : msg_q[p] # <<>> => msg_wait_q[p] = <<>>

(***************************************************************************)
(* OnTime: a sleeping process is woken by the very tick that brings the    *)
(* clock to its wake_time, neither earlier nor later, though the clock     *)
(* wraps around and TimerISR() may have switched processes in the same     *)
(* trap.                                                                   *)
(***************************************************************************)
OnTime ==
  [][\A p \in InState("SLEEP") :
       state'[p] # "SLEEP" <=> Timer /\ OS_clock' = wake_time[p]]_vars

(***************************************************************************)
(* RoundRobin: a ready process is overtaken by none: whoever joins the     *)
(* ready queue joins behind it, and only the head leaves.                  *)
(***************************************************************************)
Ahead(p) == {q \in Pid : \E i, j \in DOMAIN ready_q :
                           i < j /\ ready_q[i] = q /\ ready_q[j] = p}

RoundRobin ==
  [][\A p \in InState("READY") \ {0} :
       /\ state'[p] = "RUN" => Ahead(p) = {}
       /\ state'[p] = "READY" => Ahead(p)' \subseteq Ahead(p)]_vars

(***************************************************************************)
(* ReadyRuns: a ready process eventually runs, whatever calls the others   *)
(* make, because ticks keep coming and end every slice.                    *)
(***************************************************************************)
ReadyRuns ==
  \A p \in Pid \ {0} : state[p] = "READY" ~> state[p] = "RUN"

(***************************************************************************)
(* SleeperRuns: a process that sleeps eventually runs again.               *)
(***************************************************************************)
SleeperRuns ==
  \A p \in Pid : state[p] = "SLEEP" ~> state[p] = "RUN"

(***************************************************************************)
(* PagesHeld: a forked process owns at least the FORK_PAGES pages that     *)
(* ForkISR() gave it, until ExitISR() has cleared its PCB: nobody else is  *)
(* given one of them, though PIDs, pages and PCBs are recycled in handlers *)
(* of their own and ForkISR() may run out of pages half way through.       *)
(***************************************************************************)
PagesOf(p) == {i \in Page : DRAM[i] = p}

PagesHeld ==
  \A p \in Pid : Forked(p) => Cardinality(PagesOf(p)) >= FORK_PAGES

(***************************************************************************)
(* TableOwned: the translation table LoadRun() switches to is a page the   *)
(* process itself owns, or the kernel's.  Otherwise ForkISR() or PF_ISR()  *)
(* may hand the page out and overwrite a table that is in use.             *)
(***************************************************************************)
TableOwned ==
  \A p \in Pid :
    \/ Forked(p) /\ DRAM[trans_table[p]] = p
    \/ trans_table[p] = OS_trans_table
    \/ trans_table[p] = NONE /\ state[p] = "FREE"

(***************************************************************************)
(* NoLostExit: no process stays in Wait() while a child of its own is a    *)
(* zombie.  ExitISR() looks whether the parent waits and WaitISR() whether *)
(* a child is a zombie; the exit must be seen by one of the two, whichever *)
(* comes first.                                                            *)
(***************************************************************************)
NoLostExit ==
  \A p, c \in Pid :
    state[p] = "FORKWAIT" /\ state[c] = "ZOMBIE" /\ ppid[c] = p
      => PagesOf(c) = {}

(***************************************************************************)
(* WaitReturnsChild: a process that Wait() made wait goes on only when a   *)
(* child of its own exits (a forked process, not one of StartProc() that   *)
(* reuses a PID); the child is gone for good by then, and its PID is in    *)
(* the register of a parent that runs on the kernel's table.               *)
(***************************************************************************)
WaitReturnsChild ==
  [][\A p \in InState("FORKWAIT") :
       state'[p] # "FORKWAIT" =>
         /\ ppid[running_pid] = p /\ Forked(running_pid)
         /\ state[running_pid] = "RUN" /\ state'[running_pid] = "FREE"
         /\ ~Forked(p) => ret'[p] = running_pid]_vars

-----------------------------------------------------------------------------
(***************************************************************************)
(* What the comments say and the code does not do.                         *)
(***************************************************************************)

(* FreeUnused: free_q holds "ID's un-used" (main.c), each once.            *)
FreeUnused ==
  /\ IsInjective(free_q)
  /\ \A p \in Range(free_q) : state[p] = "FREE"

(***************************************************************************)
(* OwnerUsesPage: DRAM[].owner is "the PID currently using the DRAM page"  *)
(* (typedef.h), so it names a process that exists.                         *)
(***************************************************************************)
OwnerUsesPage ==
  \A i \in Page : DRAM[i] # NONE => state[DRAM[i]] # "FREE"

(***************************************************************************)
(* MessageArrives: what a process receives is a message that was sent, as  *)
(* the program say_hello.s needs to have its text printed by StdoutProc.   *)
(***************************************************************************)
MessageArrives == \A p \in Pid : inbox[p] # Garbage
=============================================================================
