# UmbralShift in TLA+

UmbralShift is a small teaching operating system for one i386 PC: a kernel of
trap handlers, six processes started by `main()`, a serial terminal, an
in-memory file service and user programs that are forked into address spaces of
their own. This directory holds TLA+ models of it, TLC configurations that
check them on small instances, and proofs that TLAPS checks for every instance.
Paths such as `isr.c:88` are relative to `src/`.

## The system

| Component | State | Operations | Modelled in |
|---|---|---|---|
| Queues (`toolfunc.c`) | `q_t`, `msg_q_t` | `EnQ`, `DeQ`, `MsgEnQ`, `MsgDeQ` | the arrays in `QueueArrays`, sequences in `Queues` and `Kernel`, calls of two contexts in `Terminal` |
| Scheduler, clock, sleep (`main.c`, `isr.c`) | `running_pid`, `ready_q`, `sleep_q`, `OS_clock`, `pcb[].state/runtime/wake_time` | `Scheduler`, `TimerISR`, `SleepISR`, `GetPidISR` | `Kernel` |
| Semaphores (`isr.c`) | `sem_q`, `sem[]` | `SemGetISR`, `SemWaitISR`, `SemPostISR`; posts of IRQ3, IRQ7 | `Kernel` |
| Messages (`isr.c`) | `msg_q[]` with its `wait_q` | `MsgSndISR`, `MsgRcvISR` | `Kernel` |
| Process lifecycle (`isr.c`) | `free_q`, `pcb[].ppid/trans_table`, `DRAM[].owner` | `StartProcISR`, `ForkISR`, `WaitISR`, `ExitISR` | `Kernel` |
| Paging (`isr.c`) | page tables in DRAM | `ForkISR` (tables), `PF_ISR` | owners in `Kernel`, tables in `Paging` |
| Terminal (`isr.c`, `proc.c`) | `port_data` | `IRQ3ISR`, `TX`, `RX`, `TipIRQ3`, `StdinProc`, `StdoutProc` | `Terminal` |
| Shell (`proc.c`) | local | `ShellProc` | `Shell`; its use of the port in `Terminal` |
| File service (`FileService.c`) | `fd_array`, the directories | CHK, OPEN, READ, CLOSE | `FileTable`, `FileService`, `Objects`; its loop also in `Shell` |
| File clients (`proc.c`) | local | `DirSub`, `CatSub` | `Shell` |
| Wrappers, trap entry (`syscall.c`, `entry.S`) | registers | one `int` each | part of each action of `Kernel` |
| IdleProc, InitProc (`proc.c`) | – | idle loop; `Sleep(1)` loop | PID 0; `Shell` |
| String and memory utilities (`toolfunc.c`) | – | `MyStrcmp`, `MyMemcpy`, `MyBzero`, ... | what they do, in `Objects`, `Paging`, `QueueArrays` |
| User programs (`*.s`) | own pages | their system calls and stores | `take5` and `test` in `Shell`, `say_hello` as arbitrary calls in `Kernel` |
| `makeit.pl`, headers | – | build | not modelled |

**How the parts interact.** A process enters the kernel through `int n`, an
interrupt through the same table; `KernelMain()` runs one handler and then
`Scheduler()`, and `LoadRun()` leaves the kernel again. All gates are interrupt
gates, so nothing interrupts a handler: between two processes the traps are
atomic, and the difficulty lies in what happens between two of them. The terminal
is the exception: `StdinProc` and `StdoutProc` call `EnQ()` and `DeQ()` on the
buffers of `port_data` themselves, with interrupts on, while `IRQ3ISR()` uses
the same buffers. Processes talk to each other by messages, one request and one
reply at a time. Nothing is stored over a restart.

**What is hard, and what makes each part correct.**

* *Scheduler*: a handler moves a PID and sets its state in separate statements,
  in no fixed order. Every process must be in the one place its state names
  (`OnePlace`), the ready queue must be fair (`RoundRobin`, `ReadyRuns`).
* *Sleep*: wake-up is by equality with a clock that wraps (`OnTime`, `SleeperRuns`).
* *Semaphores, messages*: no wakeup is lost (`NoLostWakeup`).
* *Lifecycle*: the exit of a child and the wait of its parent come in either
  order (`NoLostExit`, `WaitReturnsChild`); PIDs, PCBs and pages are recycled
  (`PagesHeld`, `TableOwned`).
* *Paging*: the tables lead to pages of the process alone (`AddressSpace`). That a fault is
  repaired where it happened (`FaultRepaired`), by a handler that writes to fixed addresses, the
  code does not achieve.
* *Terminal*: two semaphores must count two buffers while an interrupt takes
  from one and adds to the other (`TXSpace`, `RXCount`); output must neither
  stall nor overwrite itself (`NoStall`, `NeverGarbled`); requests are answered
  (`OutputDone`, `InputDone`).
* *File service*: a path leads to what it stands for, and each client reads all
  of what it opened, once, whatever other clients do (`ServesStreams`).
* *Shell*: no reply is taken for another one's (`OneAtATime`), descriptors survive in
  messages that pass through two servers (`OwnDescriptor`), all of an object is shown
  (`ShowsAll`), the child reported has ended (`ChildEnded`) and is the child forked
  (`ExitReported`), programs leave the processes of `main()` alone however they end
  (`SystemKept`), and every command ends (`CommandDone`).

`PROJECT.json` lists the hazards one by one, at their lines, with the property
that watches each, or the reason why none does.

## The modules

* `Queues`: `q_t` as the sequence of its elements; `EnQ` (which drops when
  full), loops of `EnQ`, the sub-queue of the elements in a set.
* `Kernel` (extends `Queues`): one action per trap, the handler and
  `Scheduler()` together. The variables have the names of the globals and of
  the fields of `pcb_t`. `inbox[p]` is the buffer in which `p` receives, `ret[p]`
  the result register in its trap frame. `Calls` chooses the traps of an
  instance; whoever runs may issue any of them at any time, which includes all
  that the programs do.
* `MCKernel`: instances for TLC, and a check that `Select` is `SelectSeq`.
* `Terminal`: `port_data`, the UART, the two processes step by step, the
  requests of the shell. `toSend` and `toRead` record what the buffers ought to
  hold; they steer nothing except `TYPE_AHEAD`, the bound on the user.
* `MCTerminal`: the texts printed.
* `BoundedQueue`: what a queue promises. `QueueArrays`: `q_t` and `msg_q_t` in
  their arrays, each shown to implement it.
* `FileTable`: the directories as constants, the search for a path, and the functions
  on `fd_array`. `Objects`: the preloaded directories and files, with their sizes.
  `Streams`: what clients can count on. `FileService` (extends `FileTable`): the process,
  one request and its reply a step, shown to implement `Streams`.
* `Paging` (extends `Kernel`): the entries of the page tables in DRAM; `PagedFork` and
  `PagedFault` are `Fork` and `PageFault` with what they write there.
* `Shell` (extends `Paging` and `FileTable`): the composition. `ShellProc()`, the
  servers, InitProc and the programs, each as the traps it makes, in the order of its
  code.
* `MCFileService`, `MCShell`: instances: the paths asked for, the lines typed.
* The proofs: `KernelProofs` (queues, types, wakeups), `PlaceProofs` (who is in which queue)
  and `LifeProofs` (pages, exits, what a step may never do), each extending the one before;
  `QueueArraysProofs`; `TerminalProofs`; `FileTableProofs` and, on it, `FileServiceProofs`;
  `ShellProofs`, which extends `Shell`, `LifeProofs` and `FileTableProofs`.

### Kernel, in detail

`Scheduler(run, rq, st)` has as arguments what the handler leaves in
`running_pid`, `ready_q` and the states. `Resume`, `Block(s)` and `Wake(p)` are
its three uses. `Timer` is `TimerISR()`, the clock and the loop over the
sleepers, whose net effect is that the due ones go to the ready queue in order
and the others stay in theirs. A forked process runs on a translation table of
its own (`Forked`): `MsgSndISR()` reads the message after it has switched to the
table of the recipient (`Copied`), and `ExitISR()` writes the frame of the parent
under the table of the child (`Leave`), as in the code.

`ReapsZombies` separates two kinds of behaviour. When it is `FALSE` no process
calls `Wait` while it has a zombie child. When it is `TRUE` it may, as in the code, and the
reaping loop of `WaitISR()` (isr.c:298-306) leaves the books wrong: the run
`kernel_reap` shows it, and the properties of `Kernel` that depend on the books are
checked with `FALSE`. `TypeOK`, `NoLostWakeup` and `NoLostExit` are proved for both. Both
runs of `Shell` have `TRUE`, and its theorems hold for both.

Abstractions: an interrupt of the terminal is `IRQ3`, a post of any allocated
semaphore (a trap with several posts leaves the kernel in the state that as many
traps with one post do); message contents are values of `Data`; page contents,
page-table entries, the exit code, `total_runtime` and console text are left
out. WaitISR() reads and clears `pcb[-1]`: the model takes those bytes to be
unused.

### Terminal, in detail

`IRQ3ISR(s)` is a function on the state it reads and writes, since the code runs
it as a whole, from the interrupt (`IRQ3`) or from `TipIRQ3()` (`StdoutTip`). The
processes' own `EnQ` and `DeQ` are split at the one place where an interrupt
makes a difference: between storing and counting (`StdoutStore`, `StdoutCount`),
and between reading the head with the decrement and shifting the rest
(`StdinTake`, `StdinShift`). `IRQ7` posts semaphore 0, which is the one the shell
gets first, its TX_semaphore.
The shell's tests (password, command) have free outcomes. The UART
reports a received character before an empty transmitter, as an 8250 does, and
keeps the interrupt pending as long as there is an event.

### File service, in detail

A path is the sequence of its names and slashes; `Prefixes` says which names begin an
entry, which is what `MyStrcmp(name, entry, len)` tests. `FindNameSub` is the recursion of
the code over the names; `Resolve` says without a search what a path stands for, and
`ServesStreams` compares the two. Offsets count bytes in a file and entries in a directory,
as in the code. The bytes of files and the fields of `attr_t` that nobody tests are left
out. (A read copies 101 bytes at most and a NUL, into a buffer that has room for them.)

### Shell, in detail

`shell.at` names the request made last, and `shell.asked` says that its reply is
awaited. `Ask` is `MsgSnd()`, `Receive` is `MsgRcv()`; all that is in between is done with the
`MsgSnd()`. A server's `MsgRcv()` and `MsgSnd()` are two traps (`Serve`, `Return`), and every
process may be preempted between any two. `StdinProc` here answers with any line that the
user may type, `StdoutProc` at once; how they deal with the port is the subject of
`Terminal`. What an uninitialized `code[1]` holds is any of `Leftovers`, what "cat"
without an argument finds behind the end of its line is any of `Remains`.

A program may end before the shell waits for it or after. `test` does not sleep, and its PID is
in `ready_q` before the shell has asked for its line to be printed: it usually exits
first, becomes a zombie, and the shell's `Wait()` takes the reaping path. `take5` sleeps for
as many seconds as its PID says, six at least, while the shell prints that one line: `InTime`
keeps the tick that ends the sleep from coming before the `Wait()`. Sleeps take no tick in
these runs, so this has to be said; it restricts the ticks, never a program.

The reaping path reads the exit code at an address of the zombie's stack, under the kernel's
table (isr.c:294). If nothing is mapped there, as is very likely, the kernel takes a page fault
of its own: `PFEntry` then starts at the top of the kernel's stack again, over the trap it came
from, and `PF_ISR()` takes the fault for one of the shell. The model takes the
address as mapped; it says what the code does in that case, and not what the machine
does after a fault inside the kernel.

`say_hello` is not among the programs of the shell: its message
is garbled (`kernel_copy`), and what `StdoutProc` does with it is undefined.
Memory that was never written is zero.

## The runs

Passing, `Kernel`:

| Run | What happens in it | Properties |
|---|---|---|
| `kernel_sched` | 4 PIDs, 3 booted; slices of 2 ticks, a clock of 2 values, `Sleep` of 0 and 1 ticks, `StartProc`; a semaphore that is allocated, waited for and posted by processes, IRQ3 and IRQ7; a tick always comes | `TypeOK`, `OnePlace`, `NoLostWakeup`, `OnTime`, `RoundRobin`, `ReadyRuns`, `SleeperRuns` |
| `kernel_msg` | messages with full mailboxes, among processes that fork, wait and exit; zombies are reaped | `NoLostWakeup`, `NoLostExit` |
| `kernel_life` | 2 PIDs to fork or start, 2 pages for each fork and 1 more, page faults until none is left | `OnePlace`, `PagesHeld`, `TableOwned`, `NoLostExit`, `WaitReturnsChild` |

Passing, the others:

| Run | What happens in it | Properties |
|---|---|---|
| `terminal_io` | buffers of 2; texts of 1 and 3 characters with and without `\n`, two keys, at most 2 characters typed ahead, no printer | `TXSpace`, `RXCount`, `OutputDone`, `InputDone` |
| `terminal_stress` | buffers of 2; 3 characters typed ahead (one more than fits), printer interrupts up to a count of 3 | `TypeOK`, `NoStall`, `NeverGarbled` |
| `queue_arrays` | arrays of 3, two elements, every order of calls | `PidQueueImplements`, `MsgQueueImplements` |
| `file_service` | 2 clients, 2 descriptors, the preloaded objects; 4 paths to open, 11 to check, any descriptor number, in and out of range | `TypeOK`, `ServesStreams` |
| `shell` | the six processes of `main()`; a user who logs in (rightly or not), types "dir" without a path and "cat" with and without one, a path that is not of the kind asked for or not found, "end", and runs `take5` again and again with 2 PIDs for it: the next one has another PID and the pages, and tables, of the last one | `OneAtATime`, `OwnDescriptor`, `ShowsAll`, `ExitReported`, `AddressSpace`, `CommandDone` |
| `early_exit` | the same, with `test`, which faults on two pages and exits before the shell waits or after: zombies are reaped by half and found again, entries are written to tables of others, `Fork()` finds what was left | `OneAtATime`, `ChildEnded`, `SystemKept`, `CommandDone` |

Violated, each with a counterexample that follows the code:

| Run | Property, and where it is written | Why the code breaks it |
|---|---|---|
| `kernel_reap` | `FreeUnused`: free_q holds "ID's un-used" (main.c:18) | the reaping loop compares with a field it has just overwritten; PID free, PCB still ZOMBIE, reaped again at the next `Wait` |
| `kernel_copy` | `MessageArrives`: the text of say_hello.s, sent to process 5 | cr3 is switched before the message is read |
| `terminal_txrace` | `TXKeepsOutput`: "enqueue what p points to to TX_buffer" (proc.c:216) | `TX()` between two statements of `EnQ()` |

More disagreements are in the models without a run of their own:

* `FaultRepaired` (isr.c:405: `PF_ISR()` kills a process "if it can't fix it", so otherwise it has fixed it) fails on
  the instance of `early_exit`. `PF_ISR()` writes the missing entry to a table at 0xe01000 or 0xe02000
  (isr.c:394), which are those of a process only if its five pages are the first of DRAM. One
  program at a time is enough to break that. A first `test` exits before the shell waits and is
  reaped by half: four of its pages stay with its PID. The next one gets its tables further up, the
  entry goes to the tables of the first, and the store faults again, on the same
  address, with one page less each time. When DRAM is used up `PF_ISR()` kills the program, so the
  command ends all the same (`CommandDone`). This is one way to what main.c:4 reports ("it keeps
  passing the error back over and over"). The kernel's own fault at isr.c:294, which the model
  leaves out, is another on the same path, and would come first.
* `OwnerUsesPage` (typedef.h:82: "the PID currently using the DRAM page") fails on the instance of
  `kernel_life`: `ExitISR()` frees five pages, however many there are (isr.c:330), and a page that a page fault
  added stays with a free PID.
* `RXKeepsInput` (isr.c:178: "read char from port to queue") fails on the instance of `terminal_io`:
  `RX()` may come while `DeQ()` shifts (proc.c:193), and stores the character where the shift clears it.
  `InputDone` says that this is the only way a line is not delivered: it assumes that no character was lost.
* `RXCount` ("receive data count", typedef.h:73) fails as soon as more is typed than
  RX_buffer holds (`TYPE_AHEAD = 3` in `terminal_io.cfg`): `RX()` counts the character
  that `EnQ()` dropped (isr.c:181-182).
* `TXSpace` ("transmit space count", typedef.h:72) fails with a printer
  (`MAX_LIMIT = 3`): printing_semaphore is never assigned, and 0 is the terminal's.
* A forked process that waits for its own child does not get the "child PID" of
  syscall.c:83: `ExitISR()` writes its frame under the child's table (isr.c:324). It
  is the exception in `Leave` and in `WaitReturnsChild`.
* `pcb[].runtime` is the "runtime since loaded" (typedef.h:32) only for a process that used
  up its last slice: `TimerISR()` alone resets it.
* A line that is no command should be refused if its object is not MODE_EXEC
  (proc.c:150); the test of proc.c:157 accepts all that exists, and forks a text file or
  a directory. `Lines` of the runs has none of these: what such a program does is undefined.
* The names of files are compared "case-insensitive" (FileService.c:342); `MyStrcmp()` is not.
* When DRAM or the process table is full `Fork()` returns -1, which the shell
  announces as a child and waits for (proc.c:166), for ever if there is no zombie it could find: with `DRAM_PAGE_COUNT = 4` in `shell.cfg`
  `CommandDone` fails.

**Bounds.** The interesting cases of the kernel need a running process, one that
waits and one that wakes it, and a PID to recycle: three or four PIDs (IdleProc
among them) have them all. `Q_LEN` equals the number of PIDs, as in the
code (20 and 20). In `kernel_sched` the clock has 2 values, so that it wraps, and a
slice 2 ticks; elsewhere both are 1.
`MAX_LIMIT` is a guard on the count of a semaphore that posts may raise without
end; it stands for 2^31-1. In `kernel_life` and `kernel_msg` a forked process has 2 or 1 pages
instead of 5; what matters is that there is more than one where pages are counted. The
terminal's buffers of 2 make every buffer both full and empty, `TYPE_AHEAD` bounds the user
(above the capacity in `terminal_stress`).

Arrays of 3 let the indices of the ring wrap with every number of messages in it. In
`file_service` two descriptors are enough to be shared, to be reused and to run out; `CHUNK` is
the 100 of the code and the objects have their true sizes, except programs (`BIN_SIZE`, as
they depend on how they were built). In `shell` there is one descriptor, so that one
that is not given back stops the next command. It has two PIDs for programs
and the pages of one, so that they are reused under the other PID. `early_exit`
has one PID for programs and 12 pages: enough for a half-freed program, for the
next one beside it and for a few pages that its faults take in vain; DRAM runs full all the same, and
the PID gets into `free_q` twice. (With 8, 10, 11 and 14 pages the run passes too. With
two PIDs it did not end: within some millions of states nothing was violated. The theorems
are for any number.) `TouchedSlots` stands for the pages `test` stores to. Sleeps take
no tick, as `kernel_sched` is about these. No state constraint is used. `MCFileService`
uses the symmetry of the two clients, which is sound for safety.

**Fairness.** `Kernel!FairSpec` assumes that timer ticks keep coming: the timer
chip is not turned off by anything in the code, and the running process cannot
mask it (interrupts are on in every trap frame, isr.c:32 and isr.c:245). Nothing
is assumed of the processes' calls. `Terminal!FairSpec` assumes that each of the three
processes takes its next step when it can (that is `ReadyRuns`), that a pending
interrupt is taken and that the UART finishes sending a character. The user owes nothing.
`Shell!FairShellSpec` assumes the ticks, and that a process that gets the CPU again and
again makes its next call (strong fairness of `Work`): a tick takes the CPU away at any
time, but the frame keeps what was computed. It is one condition for all processes but
InitProc, the weakest that will do. InitProc has weak fairness, which it needs where a
tick waits for the shell (`InTime`) while InitProc has the CPU: it makes its next `Sleep(1)`. That IdleProc does not keep the CPU
follows from the ticks. Here the user answers when asked.

## The proofs

| Theorem | Statement | Argument |
|---|---|---|
| `KernelProofs!TypeCorrect` | `Spec => []TypeOK` | `TypeOK` is inductive: one lemma per handler over lemmas on `Scheduler`, `Block`, `Wake` and the queues |
| `KernelProofs!WakeupsKept` | `Spec => []NoLostWakeup` | inductive together with `TypeOK`, in two halves (`SemKept`, `MailKept`), one lemma for each of the four handlers that touch a count or a mailbox; the other actions leave both alone or clear them |
| `PlaceProofs!Placed` | `ASSUME ReapsZombies = FALSE PROVE Spec => []OnePlace` | inductive together with `TypeOK` |
| `LifeProofs!PagesKept` | `ASSUME ReapsZombies = FALSE PROVE Spec => []PagesHeld` | inductive with `TypeOK`: a handler gives away only pages without an owner, and takes pages only from the process whose PCB it clears; `LowestSize`: when as many pages are free as a fork needs, the loop finds that many |
| `LifeProofs!TablesOwned` | `ASSUME ReapsZombies = FALSE PROVE Spec => []TableOwned` | inductive with `TypeOK` and `OnePlace`, which says that no FREE process is made READY but by the handler that gives it a table |
| `LifeProofs!ExitsSeen` | `Spec => []NoLostExit` | inductive with `TypeOK` and the fact that the caller of a trap is neither a zombie nor waiting |
| `LifeProofs!WakesOnTime` | `ASSUME ReapsZombies = FALSE PROVE Spec => OnTime` | `OnePlace` before and after the step: the sleepers are the PIDs in `sleep_q`, and only `Timer` takes any out, those that are due |
| `LifeProofs!InOrder` | `ASSUME ReapsZombies = FALSE PROVE Spec => RoundRobin` | `OnePlace`: no PID is twice in `ready_q`; every handler leaves the queue, or its tail, with new PIDs behind it |
| `LifeProofs!WaitsReturn` | `ASSUME ReapsZombies = FALSE PROVE Spec => WaitReturnsChild` | `OnePlace` and an invariant `Kin`: only forked processes have a parent, and no free PID counts as forked |
| `QueueArraysProofs!PidQueueCorrect` | `Spec => PidQueueImplements` | refinement; invariant: the tail is the length |
| `QueueArraysProofs!MsgQueueCorrect` | `Spec => MsgQueueImplements` | refinement; invariant: the tail is len slots behind the head, round the end of the array |
| `TerminalProofs!TerminalTypes` | `Spec => []TypeOK` | from the inductive invariant `IInv` below |
| `TerminalProofs!OutputMoves` | `Spec => []NoStall` | `IInv` |
| `TerminalProofs!OutputIntact` | `Spec => []NeverGarbled` | `IInv` |
| `TerminalProofs!TransmitSpace` | `ASSUME MAX_LIMIT = 0 PROVE Spec => []TXSpace` | inductive with `IInv`: without a printer every post of TX_semaphore follows a `DeQ()` of TX_buffer |
| `TerminalProofs!ReceiveCount` | `ASSUME TYPE_AHEAD <= Q_LEN PROVE Spec => []RXCount` | inductive with `IInv`: `RX()` never finds RX_buffer full |
| `FileTableProofs!FindsWhatIsMeant` | `IsSequence(path)` gives `FindName(path) = Resolve(path)` | see below |
| `FileServiceProofs!FileServiceTypes` | `Spec => []TypeOK` | `TypeOK` is inductive |
| `FileServiceProofs!ImplementsStreams` | `Spec => ServesStreams` | refinement: one lemma for each request; `FindsWhatIsMeant`, and two lemmas on what is left to read after each piece (`NamedSteps`, `SliceSteps`) |
| `ShellProofs!OneExchange` | `ASSUME Deployed PROVE ShellSpec => []OneAtATime` | `Session`, a part of the inductive invariant `IInv` below |
| `ShellProofs!OwnsDescriptor` | `ASSUME Deployed PROVE ShellSpec => []OwnDescriptor` | `Session` |
| `ShellProofs!AllIsShown` | `ASSUME Deployed PROVE ShellSpec => []ShowsAll` | `Session` |
| `ShellProofs!ReportsEnded` | `ASSUME Deployed PROVE ShellSpec => []ChildEnded` | `Endings` |
| `ShellProofs!SystemStays` | `ASSUME Deployed PROVE ShellSpec => []SystemKept` | `Processes`, `Waiters`, `Memory` |

`OnePlace` among processes that exchange messages is not part of a run (too many
mailboxes): there it rests on the theorem.

The theorems about the kernel hold for every value of the constants that satisfies `KernelAssumption`:
queues as long as the process table, at most as many semaphores as a queue
holds, at least one page per forked process. Those about the arrays hold for every size from 1.

`OnePlace` is the invariant that the rest of the kernel rests on, and it has to be
proved as one: that `EnQ()` never drops a PID follows from the queue having no
repetition and lacking that PID (`RoomForOne`: then it holds fewer PIDs than there
are, so it is not full); that the queue lacks it follows from the state of the PID; and
that state is right because no handler leaves a PID behind.
`PlaceProofs` therefore proves for each handler what it does to the five parts
of `OnePlace`, over lemmas that say what blocking and waking do to a queue whose
elements are the processes in one state. `KernelProofs` begins with the facts about
sequences: what `EnQ`, `EnQAll`, `Select` and `Lowest` return.
`Select` is written as a function, without recursion, so that these facts can be
proved; `MCKernel` compares it with `SelectSeq`.

**Terminal.** `TerminalProofs!IInv` is `TypeOK` with three parts. `PortInv`: `TXRDY` is 1
only if the port is idle and the echo buffer is empty, 0 only if the port is sending or about to interrupt. `OutInv`: while
`TXRDY` is 1, TX_buffer holds no more than what `StdoutProc` has put there and not yet tipped (one
character, two after a CR), which is why output does not stall; and TX_semaphore with the claimed place never counts
less than the space there is, which is why `TipIRQ3()` is reached. `InInv`: nothing is in RX_buffer that was not
received. The handler is one function, so its lemmas (`IRQ3Settles`) are about the state
it returns, and serve the interrupt and `TipIRQ3()` alike. The two counts need the hypotheses
that the list of disagreements names: with a printer, or with more typed than the buffer
holds, they are false. All of it is for `Q_LEN >= 2` (it is 20): `EnQ()` of CR and LF has to fit.

**File service.** `FindNameSub` is a recursive function over the places of the path, and
`Resolve` a definition by the route of entries, without recursion. That they agree is shown in two steps. `Leads`, what each place of the
path leads to by `Resolve`, satisfies the equation of the search (`LeadsOn`, over `TargetStep`: a route is a
first entry and a route from there on). And any two solutions of the equation are equal: of
the places where they differ the last would be looked up at a later one. There is no
induction rule in it that takes a predicate; the least-number principle (`LeastExists`)
comes from the library's minimal elements of well-founded relations. `Sorted` lists the numbers
of a set in order without recursion, for the same reason as `Select` above. `FileAssumption` asks for what the
arrays of FileService.c satisfy: directories that are sequences and not empty, and entries whose
data is a directory exactly if their mode says so.

**Shell.** The theorems about the system at work hold whatever programs do and however they end.
So `ShellProofs!IInv` cannot use `OnePlace`, which is false once a zombie was
reaped by half: a PID may be in `free_q` twice, or belong to a program that lives, and a zombie may own
pages that another one gets. It says of the kernel only what holds of the processes of
`main()` whatever becomes of programs, and has these parts:

* `Processes`: each process of `main()` is in a state that is neither FREE nor ZOMBIE, is RUN exactly if
  it is the running one, and is at most once in each queue, whose name its state has.
* `Waiters`: whoever waits for a message is a process of `main()`, in its own queue, with state WAIT.
* `Memory`: none of their PIDs is in `free_q` or owns a page, and their table is the kernel's. It is what
  keeps programs away: `ForkISR()` builds a PCB only for a PID of `free_q`, and `ExitISR()` and
  `WaitISR()` clear and free only one that owns pages or runs on them. (Their messages are therefore not
  copied from another address space, and whoever else runs is a forked program.)
* `Endings`: zombies have been programs and have ended, and programs are children of the shell: so what
  `Wait()` returns has ended, whether `ExitISR()` found the shell waiting or `WaitISR()` found a zombie,
  the same one again included.
* `Standing`: which servers have called `MsgRcv()`, and that only those and the shell wait.
* `Session`: where the one message is. After a request with the data `d` it is in the mailbox of the server
  (`Sent`), in the server's hands (`Taken`), on its way back (`Replied`) or with the shell
  (`Received`); every other server that has called `MsgRcv()` waits. A tick, a `MsgSnd()` that finds its
  receiver waiting or one that does not, a `MsgRcv()` that waits or finds mail: each is a move
  among the four. To this belong what a request says (`AsksFor`) and what its reply says (`Answers`) at each point of
  the shell's code. While an object is open (`Opened`) there is exactly one descriptor in use, the one
  whose number is in the message, and *what was shown, followed by what is left to read from its offset,
  is the whole object*. `RestIs` and the lemmas of `FileTableProofs` show that a read moves one piece from
  the one to the other.

`IInv` was checked with TLC on the instances of `shell.cfg` and `early_exit.cfg` (with the message of
`Session` looked for in mailboxes and buffers, since `Messages` is infinite) before it was proved. `SchedulerOrders`, `TickOrders` and the lemmas between them carry `Processes` through the scheduler, for queues that
may repeat the PID of a program; there is one lemma for what each action
does to `Session` (`GreetKeeps` to `CloseKeeps`) and one for each kind of step that puts
the parts together (`AskStep`, `ReceiveStep`, `ServerStep`, `ForkStep`, `WaitStep`, `LeaveStep`, `FaultStep`).

The hypotheses. `Deployed` says that `Data` has room for what the messages hold (`Messages`), which is
how `Kernel` is instantiated; `ReapsZombies` is not restricted.
`ShellAssumption` says that main() starts six processes, that there is a descriptor, and what a line is: one of
the verbs, with a path that is a sequence; only "dir" and "cat" go without one (for a line that is not one
of the commands proc.c:153 takes what was typed as the path). The numbers of PIDs, pages, descriptors and ticks, the
directories, the sizes of files and messages, the lines, and what an uninitialized `code[1]` holds are all arbitrary.
A `Fork()` that fails is part of it: the shell then waits, for ever if there is no zombie, and
nothing it has said until then is wrong. The assumption that `take5` sleeps until the shell waits
(`InTime`) only restricts ticks, and no proof uses it.

**Only model-checked**: what is temporal under fairness (`ReadyRuns`, `SleeperRuns`, `OutputDone`, `InputDone`,
`CommandDone`), which is outside the prover's reach; and `ExitReported` and `AddressSpace`, which hold only
of programs that sleep until the shell waits (`shell`). Every other property that a passing run checks
is also the statement of a theorem.

## Plan

Done: all of the modules above, and theorems for their safety properties except the two named
last. What could come next: `ExitReported` and `AddressSpace` for every instance in which programs
sleep long enough, and what is listed in the section that follows.

## Not modelled

* Registers and `entry.S` beyond "one trap, one action"; the wrappers have no state.
* Exit codes: `ExitISR()` and `WaitISR()` copy them through addresses of the child under
  one table or the other, and nothing else depends on them. The page fault that the copy of
  isr.c:294 very likely causes inside the kernel is not modelled either (see "Shell, in detail").
* A key that sends NUL: `TX()` takes a character of 0 from the echo buffer for "nothing to send"
  (isr.c:170). `Keys` of `Terminal` stands for all others.
* `len++` and `len--` of the queues are one instruction each, as a compiler for the i386 makes them:
  an interrupt comes before or after, not between the load and the store.
* The bytes in front of `pcb[]` and behind DRAM, which `WaitISR()` and `MyMemcpy()` touch: taken to
  hold nothing that matters.
* InitProc's keys: they end the system or enter the debugger; its post of semaphore 0 is
  that of IRQ7.
* Two programs at the same time: the shell waits for each. (`Kernel` has any number of forked
  processes, without their tables.)
* Console output, texts and their layout, `PrintBits()`, `makeit.pl`, headers.
