---------------------------- MODULE ShellProofs -----------------------------
(***************************************************************************)
(* The whole system at work, for every size of the tables, all lines that  *)
(* may be typed and all directories, whatever programs are run and however *)
(* they end: before the shell waits, while it waits, or for want of pages. *)
(* OneAtATime, OwnDescriptor, ShowsAll, ChildEnded and SystemKept hold.    *)
(*                                                                         *)
(* All that is assumed is that what the messages hold is Data.             *)
(***************************************************************************)
EXTENDS Shell, LifeProofs, FileTableProofs

Deployed == Messages \subseteq Data

Servers == {PROC_FILE, PROC_STDIN, PROC_STDOUT}

-----------------------------------------------------------------------------
(***************************************************************************)
(* The invariant.  First what the processes of main() rest on.  Programs   *)
(* may end as zombies, be reaped by half, and have their PID in free_q     *)
(* twice or be forked while they live; so no more is said of the kernel    *)
(* than what holds of the processes of main() whatever becomes of those.   *)
(***************************************************************************)
Once(q) == \A i, j \in DOMAIN q : q[i] = q[j] /\ q[i] \in System => i = j

Live == {"READY", "RUN", "SLEEP", "WAIT", "FORKWAIT"}

(* With run, rq and st as in Scheduler(), and sq the sleepers.              *)
Ordered(run, rq, sq, st) ==
  /\ Once(rq) /\ Once(sq)
  /\ \A p \in System :
       /\ st[p] \in Live
       /\ st[p] = "RUN" <=> run = p
       /\ p \in Range(rq) => st[p] = "READY"
       /\ p \in Range(sq) => st[p] = "SLEEP"

Processes == Ordered(running_pid, ready_q, sleep_q, state)

Waiters ==
  \A p \in Pid : msg_wait_q[p] # <<>> =>
    msg_wait_q[p] = <<p>> /\ p \in System /\ state[p] = "WAIT"

Memory ==
  /\ \A p \in Range(free_q) : ~Booted(p)
  /\ \A p \in System : trans_table[p] = OS_trans_table
  /\ \A i \in Page : DRAM[i] # NONE => ~Booted(DRAM[i])

(* Programs are children of the shell, and zombies have been programs.      *)
Endings ==
  /\ \A p \in Pid : state[p] = "ZOMBIE" => ~Booted(p) /\ program[p] = NoProgram
  /\ \A p \in DOMAIN program : program[p] # NoProgram => ppid[p] = PROC_SHELL
  /\ ChildEnded

Fields == {"at", "asked", "login", "verb", "path", "child", "shown"}

Standing ==
  /\ serving \subseteq Servers
  /\ \A p \in Pid : msg_wait_q[p] # <<>> =>
                      p \in serving \/ (p = PROC_SHELL /\ ~shell.asked)
  /\ DOMAIN program = Pid \ 0 .. BOOT_PROCS - 1
  /\ DOMAIN shell = Fields

Machine == TypeOK /\ Processes /\ Waiters /\ Memory

(***************************************************************************)
(* A request of the shell and its reply: the one message there is, with    *)
(* the data d, is in the mailbox of the process asked, in its hands, in    *)
(* the mailbox of the shell or received by it.                             *)
(***************************************************************************)
Partner == AskedOf(shell.at)

Pending == shell.asked \/ msg_wait_q[PROC_SHELL] # <<>>

Empty == \A p \in Pid : msg_q[p] = <<>>

Only(p, sender, d) ==
  \A q \in Pid : msg_q[q] = IF q = p THEN <<[sender |-> sender, data |-> d]>> ELSE <<>>

(* Every server that has called MsgRcv() waits for its message.             *)
Idle == \A p \in serving : msg_wait_q[p] # <<>>

Quiet == Empty /\ Idle /\ ~Pending

Sent(d) == Only(Partner, PROC_SHELL, d) /\ Idle /\ Pending

Taken(d) ==
  /\ Empty /\ Pending
  /\ Partner \in serving /\ inbox[Partner] = [sender |-> PROC_SHELL, data |-> d]
  /\ \A p \in serving : msg_wait_q[p] = <<>> <=> p = Partner

Replied(d) == Only(PROC_SHELL, Partner, d) /\ Idle /\ shell.asked

Received(d) == Quiet /\ inbox[PROC_SHELL] = [sender |-> Partner, data |-> d]

(***************************************************************************)
(* What the message says, at each request.  While an object is open there  *)
(* is one descriptor in use, and what was shown and what is left to read   *)
(* of it make up the whole.                                                *)
(***************************************************************************)
Owners == {PROC_SHELL, UNUSED}

NoneOpen == \A fd \in FD : fd_array[fd].owner = UNUSED

Opened(fd, shown) ==
  LET item == FindName(shell.path)
  IN  /\ fd \in FD /\ item \in Item
      /\ fd_array[fd].owner = PROC_SHELL /\ fd_array[fd].item = item
      /\ WithinExtent(fd_array[fd], Owners)
      /\ shown \in Seq(Pieces)
      /\ shown \o Rest(item, fd_array[fd].offset) = Rest(item, 0)
      /\ \A other \in FD \ {fd} : fd_array[other].owner = UNUSED

AllShown == shell.shown = Rest(FindName(shell.path), 0)

Reading == {"read", "show", "close"}

AsksFor(d) ==
  /\ shell.at \in Reading => Opened(d.fd, shell.shown)
  /\ shell.at \notin Reading => NoneOpen
  /\ shell.at \in {"check", "open"} => d.body = [path |-> shell.path]
  /\ shell.at \notin Reading => shell.shown = <<>>
  /\ shell.at = "check" => d.code = CHK_OBJ
  /\ shell.at = "open" => d.code = OPEN_OBJ /\ FindName(shell.path) # NULL
  /\ shell.at = "read" => d.code = READ_OBJ
  /\ shell.at = "close" => d.code = CLOSE_OBJ /\ AllShown
  /\ shell.at = "forked" => d.code = GOOD

Answers(d) ==
  /\ shell.at \in {"open", "show"} => Opened(d.fd, shell.shown)
  /\ shell.at = "read" /\ d.code = GOOD =>
       d.body.piece \in Pieces /\ Opened(d.fd, Append(shell.shown, d.body.piece))
  /\ shell.at = "read" /\ d.code # GOOD => Opened(d.fd, shell.shown) /\ AllShown
  /\ shell.at \notin {"open", "show", "read"} => NoneOpen
  /\ shell.at \notin Reading => shell.shown = <<>>
  /\ shell.at = "check" /\ d.code = GOOD =>
       FindName(shell.path) # NULL /\ d.body = [object |-> FindName(shell.path)]
  /\ shell.at = "close" => d.code = GOOD /\ AllShown
  /\ shell.at = "forked" => d.code = GOOD
  /\ shell.at = "line" => d.body \in Lines["line"]

Finding == {"check", "open", "read", "show", "close"}

Stages ==
  {"greeting", "name?", "login", "password?", "password", "invalid", "prompt",
   "line", "tell", "forked", "exited"} \cup Finding

Exchange ==
  \E d \in Messages :
    \/ (Sent(d) \/ Taken(d)) /\ AsksFor(d)
    \/ (Replied(d) \/ Received(d)) /\ Answers(d)

(* At the three points where the shell has asked nobody.                    *)
Alone ==
  /\ Quiet /\ NoneOpen /\ shell.shown = <<>>
  /\ shell.at \in {"fork", "wait"} => inbox[PROC_SHELL].data \in Messages
  /\ shell.at = "fork" => inbox[PROC_SHELL].data.code = GOOD

Session ==
  /\ fd_array \in [FD -> Descriptor(Owners)]
  /\ shell.at \in Stages \cup {"boot", "fork", "wait"}
  /\ shell.at \in Stages => Exchange
  /\ shell.at \notin Stages => Alone
  /\ shell.at \in Finding => shell.path \in Paths /\ IsSequence(shell.path)


IInv == Machine /\ Standing /\ Session /\ Endings


-----------------------------------------------------------------------------
(***************************************************************************)
(* The processes.                                                          *)
(***************************************************************************)
LEMMA ShellFacts ==
  /\ PROC_SHELL \in Pid /\ PROC_INIT \in Pid /\ Servers \subseteq Pid
  /\ PROC_SHELL > 0 /\ PROC_INIT > 0 /\ PROC_SHELL \notin Servers
  /\ \A p \in Servers : p > 0
  /\ PROC_SHELL \in System /\ PROC_INIT \in System /\ Servers \subseteq System
  /\ \A at : AskedOf(at) \in Servers
BY KernelAssumption, ShellAssumption
   DEF PROC_SHELL, PROC_INIT, PROC_FILE, PROC_STDIN, PROC_STDOUT, Servers, Pid,
       System, AskedOf

LEMMA SystemFacts ==
  /\ System \subseteq Pid
  /\ \A p \in Pid : Booted(p) <=> p = 0 \/ p \in System
  /\ \A p \in Pid : ~Booted(p) <=> p \in Pid \ 0 .. BOOT_PROCS - 1
  /\ \A p \in System : p > 0 /\ Booted(p) /\ p # NONE
BY KernelAssumption, ShellAssumption DEF System, Pid, Booted, NONE

(* Who makes a system call runs, on the kernel's table, and waits for       *)
(* nothing.                                                                 *)
LEMMA CallerIs ==
  ASSUME Machine, running_pid \in System
  PROVE  /\ running_pid \in Pid /\ state[running_pid] = "RUN"
         /\ msg_wait_q[running_pid] = <<>> /\ ~Forked(running_pid)
<1>1. running_pid \in Pid /\ state[running_pid] = "RUN"
  BY SystemFacts DEF Machine, Processes, Ordered
<1>2. msg_wait_q[running_pid] = <<>>
  BY <1>1 DEF Machine, Waiters
<1>3. ~Forked(running_pid)
  BY PageFacts DEF Machine, Memory, Forked
<1>4. QED
  BY <1>1, <1>2, <1>3

(***************************************************************************)
(* What MsgSnd() and MsgRcv() do, by one of the standing processes, to the *)
(* mailboxes and the buffers.                                              *)
(***************************************************************************)
LEMMA SndIs ==
  ASSUME Machine, running_pid \in System, NEW to \in Pid, NEW d, MsgSnd(to, d),
         msg_q[to] = <<>>
  PROVE  LET m == [sender |-> running_pid, data |-> d]
         IN  \/ /\ msg_wait_q[to] = <<>>
                /\ msg_q' = [msg_q EXCEPT ![to] = <<m>>]
                /\ UNCHANGED <<msg_wait_q, inbox>>
             \/ /\ msg_wait_q[to] # <<>>
                /\ msg_wait_q' = [msg_wait_q EXCEPT ![to] = <<>>]
                /\ inbox' = [inbox EXCEPT ![to] = m]
                /\ UNCHANGED msg_q
<1> DEFINE m == [sender |-> running_pid, data |-> d]
<1>1. TypeOK /\ Waiters
  BY DEF Machine
<1>2. Copied(m) = m
  BY CallerIs DEF Copied
<1>3. MsgEnQ(m, <<>>) = <<m>>
  <2>1. 0 < Q_LEN
    BY KernelAssumption, ShellAssumption, QueueAssumption
  <2>2. QED
    BY <2>1 DEF MsgEnQ
<1>4. CASE msg_wait_q[to] = <<>>
  <2>1. msg_q' = [msg_q EXCEPT ![to] = MsgEnQ(m, @)] /\ UNCHANGED <<msg_wait_q, inbox>>
    BY <1>4 DEF MsgSnd
  <2> HIDE DEF m
  <2>2. QED
    BY <1>3, <1>4, <2>1 DEF m
<1>5. CASE msg_wait_q[to] # <<>>
  <2>1. msg_wait_q[to] = <<to>>
    BY <1>1, <1>5 DEF Waiters
  <2>2. /\ msg_wait_q' = [msg_wait_q EXCEPT ![to] = Tail(@)]
        /\ inbox' = [inbox EXCEPT ![Head(msg_wait_q[to])] = Copied(m)]
        /\ UNCHANGED msg_q
    BY <1>5 DEF MsgSnd
  <2>3. Head(<<to>>) = to /\ Tail(<<to>>) = <<>>
    OBVIOUS
  <2> HIDE DEF m
  <2>4. QED
    BY <1>2, <1>5, <2>1, <2>2, <2>3 DEF m
<1>6. QED
  BY <1>4, <1>5

LEMMA RcvIs ==
  ASSUME Machine, running_pid \in System, MsgRcv
  PROVE  \/ /\ msg_q[running_pid] # <<>>
            /\ msg_q' = [msg_q EXCEPT ![running_pid] = Tail(@)]
            /\ inbox' = [inbox EXCEPT ![running_pid] = Head(msg_q[running_pid])]
            /\ UNCHANGED msg_wait_q
         \/ /\ msg_q[running_pid] = <<>>
            /\ msg_wait_q' = [msg_wait_q EXCEPT ![running_pid] = <<running_pid>>]
            /\ UNCHANGED <<msg_q, inbox>>
<1> DEFINE p == running_pid
<1>1. TypeOK /\ p \in Pid /\ msg_wait_q[p] = <<>>
  BY CallerIs DEF Machine
<1>2. msg_q[p] \in Seq(Msg)
  BY <1>1 DEF TypeOK
<1>3. HasMail(p) <=> msg_q[p] # <<>>
  BY <1>2 DEF HasMail
<1>4. EnQ(p, <<>>) = <<p>>
  <2>1. 0 < Q_LEN
    BY KernelAssumption, ShellAssumption, QueueAssumption
  <2>2. QED
    BY <2>1 DEF EnQ
<1>5. CASE HasMail(p)
  BY <1>3, <1>5 DEF MsgRcv
<1>6. CASE ~HasMail(p)
  <2>1. /\ msg_wait_q' = [msg_wait_q EXCEPT ![p] = EnQ(p, @)]
        /\ UNCHANGED <<msg_q, inbox>>
    BY <1>6 DEF MsgRcv
  <2>2. QED
    BY <1>1, <1>3, <1>4, <1>6, <2>1
<1>7. QED
  BY <1>5, <1>6

-----------------------------------------------------------------------------
(***************************************************************************)
(* The way of a message.                                                   *)
(***************************************************************************)

(* While its reply is awaited, or the shell waits in MsgRcv(), the shell    *)
(* makes no other call; so when it goes on, it has received the reply.      *)
LEMMA ShellGoesOn ==
  ASSUME Machine, Session, running_pid = PROC_SHELL, ~shell.asked
  PROVE  /\ Quiet
         /\ shell.at \in Stages =>
              \E d \in Messages : Received(d) /\ Answers(d) /\ my_msg = d
<1>1. msg_wait_q[PROC_SHELL] = <<>>
  BY CallerIs, ShellFacts
<1>2. ~Pending
  BY <1>1 DEF Pending
<1>3. CASE shell.at \in Stages
  <2>1. PICK d \in Messages : Received(d) /\ Answers(d)
    BY <1>2, <1>3 DEF Session, Exchange, Sent, Taken, Replied
  <2>2. my_msg = d
    BY <2>1 DEF Received, my_msg
  <2>3. QED
    BY <2>1, <2>2 DEF Received
<1>4. CASE shell.at \notin Stages
  BY <1>4 DEF Session, Alone
<1>5. QED
  BY <1>3, <1>4

(* A request.                                                               *)
LEMMA AskSends ==
  ASSUME Machine, Standing, Quiet, running_pid = PROC_SHELL, NEW at, NEW d,
         MsgSnd(AskedOf(at), d), shell'.at = at, shell'.asked, serving' = serving
  PROVE  (Sent(d) \/ Taken(d))'
<1> DEFINE to == AskedOf(at)
           m == [sender |-> PROC_SHELL, data |-> d]
<1>1. /\ to \in Pid /\ to \in Servers /\ to # PROC_SHELL /\ running_pid > 0
      /\ running_pid \in System
  BY ShellFacts
<1>2. /\ DOMAIN msg_q = Pid /\ DOMAIN msg_wait_q = Pid /\ DOMAIN inbox = Pid
  BY DEF Machine, TypeOK
<1>3. Partner' = to /\ Pending'
  BY DEF Partner, Pending
<1>4. msg_q[to] = <<>> /\ Empty /\ Idle
  BY <1>1 DEF Quiet, Empty
<1>5. serving \subseteq Pid /\ (msg_wait_q[to] # <<>> => to \in serving)
  BY <1>1, ShellFacts DEF Standing
<1>6. CASE /\ msg_wait_q[to] = <<>> /\ msg_q' = [msg_q EXCEPT ![to] = <<m>>]
           /\ UNCHANGED <<msg_wait_q, inbox>>
  <2>1. Only(to, PROC_SHELL, d)'
    BY <1>1, <1>2, <1>4, <1>6 DEF Only, Empty
  <2>2. Idle'
    BY <1>4, <1>6 DEF Idle
  <2>3. QED
    BY <1>3, <2>1, <2>2 DEF Sent, Only
<1>7. CASE /\ msg_wait_q[to] # <<>> /\ msg_wait_q' = [msg_wait_q EXCEPT ![to] = <<>>]
           /\ inbox' = [inbox EXCEPT ![to] = m] /\ UNCHANGED msg_q
  <2>1. Empty' /\ inbox'[to] = m /\ to \in serving'
    BY <1>1, <1>2, <1>4, <1>5, <1>7 DEF Empty
  <2>2. \A p \in serving' : msg_wait_q'[p] = <<>> <=> p = to
    BY <1>1, <1>2, <1>4, <1>5, <1>7 DEF Idle
  <2>3. QED
    BY <1>3, <2>1, <2>2 DEF Taken
<1>8. QED
  BY <1>1, <1>4, <1>6, <1>7, SndIs

(* The shell calls MsgRcv().                                                *)
LEMMA ShellReceives ==
  ASSUME Machine, Standing, running_pid = PROC_SHELL, NEW d, MsgRcv, shell.asked,
         shell'.at = shell.at, ~shell'.asked, serving' = serving
  PROVE  /\ Sent(d) => Sent(d)'
         /\ Taken(d) => Taken(d)'
         /\ Replied(d) => Received(d)'
<1>1. /\ running_pid \in System /\ PROC_SHELL \in Pid /\ Partner \in Servers
      /\ Partner # PROC_SHELL /\ PROC_SHELL \notin serving
      /\ serving \subseteq Pid /\ Partner \in Pid
  BY ShellFacts DEF Standing, Partner
<1>2. /\ DOMAIN msg_q = Pid /\ DOMAIN msg_wait_q = Pid /\ DOMAIN inbox = Pid
  BY DEF Machine, TypeOK
<1>3. Partner' = Partner /\ msg_wait_q[PROC_SHELL] = <<>>
  BY <1>1, CallerIs DEF Partner
<1>4. CASE /\ msg_q[PROC_SHELL] # <<>>
           /\ msg_q' = [msg_q EXCEPT ![PROC_SHELL] = Tail(@)]
           /\ inbox' = [inbox EXCEPT ![PROC_SHELL] = Head(msg_q[PROC_SHELL])]
           /\ UNCHANGED msg_wait_q
  <2>1. ~Sent(d) /\ ~Taken(d)
    BY <1>1, <1>4 DEF Sent, Taken, Only, Empty
  <2>2. ASSUME Replied(d) PROVE Received(d)'
    <3>1. msg_q[PROC_SHELL] = <<[sender |-> Partner, data |-> d]>>
      BY <1>1, <2>2 DEF Replied, Only
    <3>2. inbox'[PROC_SHELL] = [sender |-> Partner, data |-> d]
      BY <1>1, <1>2, <1>4, <3>1
    <3>3. Empty'
      BY <1>1, <1>2, <1>4, <2>2, <3>1 DEF Empty, Replied, Only
    <3>4. Idle' /\ ~Pending'
      BY <1>3, <1>4, <2>2 DEF Replied, Idle, Pending
    <3>5. QED
      BY <1>3, <3>2, <3>3, <3>4 DEF Received, Quiet
  <2>3. QED
    BY <2>1, <2>2
<1>5. CASE /\ msg_q[PROC_SHELL] = <<>>
           /\ msg_wait_q' = [msg_wait_q EXCEPT ![PROC_SHELL] = <<PROC_SHELL>>]
           /\ UNCHANGED <<msg_q, inbox>>
  <2>1. ~Replied(d)
    BY <1>1, <1>5 DEF Replied, Only
  <2>2. Pending' /\ \A p \in serving : msg_wait_q'[p] = msg_wait_q[p]
    BY <1>1, <1>2, <1>5 DEF Pending
  <2>3. Sent(d) => Sent(d)'
    BY <1>3, <1>5, <2>2 DEF Sent, Only, Idle
  <2>4. Taken(d) => Taken(d)'
    BY <1>3, <1>5, <2>2 DEF Taken, Empty
  <2>5. QED
    BY <2>1, <2>3, <2>4
<1>6. QED
  BY <1>1, <1>4, <1>5, RcvIs

(* A server calls MsgRcv().                                                 *)
LEMMA ServerReceives ==
  ASSUME Machine, Standing, NEW p \in Servers, Serve(p)
  PROVE  /\ Quiet => Quiet'
         /\ \A d : /\ Sent(d) => (Sent(d) \/ Taken(d))'
                   /\ Taken(d) => Taken(d)'
                   /\ Replied(d) => Replied(d)'
                   /\ Received(d) => Received(d)'
<1>1. /\ running_pid = p /\ p > 0 /\ p \in Pid /\ PROC_SHELL \in Pid /\ p # PROC_SHELL
      /\ p \notin serving /\ serving' = serving \cup {p} /\ shell' = shell /\ MsgRcv
      /\ serving \subseteq Pid /\ p \in System
  BY ShellFacts DEF Serve, Running, Standing
<1>2. /\ DOMAIN msg_q = Pid /\ DOMAIN msg_wait_q = Pid /\ DOMAIN inbox = Pid
      /\ \A q \in Pid : msg_q[q] \in Seq(Msg)
  BY DEF Machine, TypeOK
<1>3. Partner' = Partner
  BY <1>1 DEF Partner
<1>4. CASE /\ msg_q[p] # <<>>
           /\ msg_q' = [msg_q EXCEPT ![p] = Tail(@)]
           /\ inbox' = [inbox EXCEPT ![p] = Head(msg_q[p])]
           /\ UNCHANGED msg_wait_q
  <2>1. \A d : ~Quiet /\ ~Taken(d) /\ ~Received(d) /\ ~Replied(d)
    BY <1>1, <1>4 DEF Quiet, Taken, Received, Replied, Only, Empty
  <2>2. ASSUME NEW d, Sent(d) PROVE Taken(d)'
    <3>1. p = Partner /\ msg_q[p] = <<[sender |-> PROC_SHELL, data |-> d]>>
      BY <1>1, <1>4, <2>2 DEF Sent, Only
    <3>2. inbox'[p] = [sender |-> PROC_SHELL, data |-> d] /\ msg_q'[p] = <<>>
      BY <1>1, <1>2, <1>4, <3>1
    <3>3. Empty'
      BY <1>1, <1>2, <1>4, <2>2, <3>1, <3>2 DEF Empty, Sent, Only
    <3>4. msg_wait_q[p] = <<>>
      BY <1>1, CallerIs
    <3>5. \A q \in serving' : msg_wait_q'[q] = <<>> <=> q = p
      BY <1>1, <1>4, <2>2, <3>4 DEF Sent, Idle
    <3>6. Pending'
      BY <1>1, <1>4, <2>2 DEF Sent, Pending
    <3>7. QED
      BY <1>1, <1>3, <3>1, <3>2, <3>3, <3>5, <3>6 DEF Taken
  <2>3. QED
    BY <2>1, <2>2
<1>5. CASE /\ msg_q[p] = <<>>
           /\ msg_wait_q' = [msg_wait_q EXCEPT ![p] = <<p>>]
           /\ UNCHANGED <<msg_q, inbox>>
  <2>1. /\ msg_wait_q'[p] # <<>> /\ (Pending' <=> Pending)
        /\ \A q \in serving : msg_wait_q'[q] = msg_wait_q[q]
    BY <1>1, <1>2, <1>5 DEF Pending
  <2>2. Idle => Idle'
    BY <1>1, <2>1 DEF Idle
  <2>3. Quiet => Quiet'
    BY <1>5, <2>1, <2>2 DEF Quiet, Empty
  <2>4. ASSUME NEW d PROVE Sent(d) => Sent(d)'
    BY <1>3, <1>5, <2>1, <2>2 DEF Sent, Only
  <2>5. ASSUME NEW d PROVE Taken(d) => Taken(d)'
    BY <1>1, <1>3, <1>5, <2>1 DEF Taken, Empty
  <2>6. ASSUME NEW d PROVE Replied(d) => Replied(d)'
    BY <1>1, <1>3, <1>5, <2>2 DEF Replied, Only
  <2>7. ASSUME NEW d PROVE Received(d) => Received(d)'
    BY <1>3, <1>5, <2>3 DEF Received
  <2>8. QED
    BY <2>3, <2>4, <2>5, <2>6, <2>7
<1>6. QED
  BY <1>1, <1>4, <1>5, RcvIs

(* A server that goes on has the request of the shell.                      *)
LEMMA ServerGoesOn ==
  ASSUME Machine, Session, NEW p \in Servers, running_pid = p, p \in serving
  PROVE  \E d \in Messages :
           /\ Taken(d) /\ AsksFor(d) /\ p = Partner /\ shell.at \in Stages
           /\ inbox[p] = [sender |-> PROC_SHELL, data |-> d]
<1>1. msg_wait_q[p] = <<>>
  BY CallerIs, ShellFacts
<1>2. ~Idle
  BY <1>1 DEF Idle
<1>3. shell.at \in Stages /\ Exchange
  BY <1>2 DEF Session, Alone, Quiet
<1>4. PICK d \in Messages : Taken(d) /\ AsksFor(d)
  BY <1>2, <1>3 DEF Exchange, Sent, Replied, Received, Quiet
<1>5. p = Partner
  BY <1>1, <1>4 DEF Taken
<1>6. QED
  BY <1>3, <1>4, <1>5 DEF Taken

(* Its reply.                                                               *)
LEMMA ServerReturns ==
  ASSUME Machine, Standing, NEW p \in Servers, running_pid = p, NEW d, Taken(d),
         p = Partner, NEW m, MsgSnd(PROC_SHELL, m), serving' = serving \ {p}, shell' = shell
  PROVE  (Replied(m) \/ Received(m))'
<1>1. /\ p > 0 /\ p \in Pid /\ PROC_SHELL \in Pid /\ p # PROC_SHELL /\ p \in System
      /\ PROC_SHELL \notin Servers
  BY ShellFacts
<1>2. /\ DOMAIN msg_q = Pid /\ DOMAIN msg_wait_q = Pid /\ DOMAIN inbox = Pid
  BY DEF Machine, TypeOK
<1>3. Partner' = Partner
  BY DEF Partner
<1>4. /\ Empty /\ Pending /\ msg_q[PROC_SHELL] = <<>>
      /\ \A q \in serving \ {p} : msg_wait_q[q] # <<>>
  BY <1>1 DEF Taken, Empty
<1>5. PROC_SHELL \notin serving
  BY <1>1 DEF Standing
<1> DEFINE reply == [sender |-> p, data |-> m]
<1>6. CASE /\ msg_wait_q[PROC_SHELL] = <<>>
           /\ msg_q' = [msg_q EXCEPT ![PROC_SHELL] = <<reply>>]
           /\ UNCHANGED <<msg_wait_q, inbox>>
  <2>1. shell'.asked
    BY <1>4, <1>6 DEF Pending
  <2>2. Only(PROC_SHELL, p, m)'
    BY <1>1, <1>2, <1>4, <1>6 DEF Only, Empty
  <2>3. Idle'
    BY <1>4, <1>6 DEF Idle
  <2>4. QED
    BY <1>3, <2>1, <2>2, <2>3 DEF Replied, Only
<1>7. CASE /\ msg_wait_q[PROC_SHELL] # <<>>
           /\ msg_wait_q' = [msg_wait_q EXCEPT ![PROC_SHELL] = <<>>]
           /\ inbox' = [inbox EXCEPT ![PROC_SHELL] = reply]
           /\ UNCHANGED msg_q
  <2>1. ~shell.asked
    BY <1>1, <1>5, <1>7 DEF Standing
  <2>2. ~Pending'
    BY <1>1, <1>2, <1>7, <2>1 DEF Pending
  <2>3. inbox'[PROC_SHELL] = reply
    BY <1>1, <1>2, <1>7
  <2>4. Empty'
    BY <1>4, <1>7 DEF Empty
  <2>5. Idle'
    BY <1>1, <1>2, <1>4, <1>5, <1>7 DEF Idle
  <2>6. QED
    BY <1>3, <2>2, <2>3, <2>4, <2>5 DEF Received, Quiet
<1>8. QED
  BY <1>1, <1>4, <1>6, <1>7, SndIs

-----------------------------------------------------------------------------
(***************************************************************************)
(* What ShellProc() asks for.                                              *)
(***************************************************************************)
LEMMA Reworded ==
  ASSUME NEW d \in Messages, NEW b \in Bodies
  PROVE  LET m == [d EXCEPT !.body = b]
         IN  m \in Messages /\ m.code = d.code /\ m.fd = d.fd /\ m.body = b
BY DEF Messages

LEMMA RequestIs ==
  ASSUME my_msg \in Messages, NEW at, NEW code \in Int, NEW sh, sh.path \in Paths,
         Request(at, code, sh)
  PROVE  \E m \in Messages :
           /\ m.code = code /\ m.fd = my_msg.fd /\ m.body = [path |-> sh.path]
           /\ Ask(at, m, sh)
<1> DEFINE b == [path |-> sh.path]
           m == [my_msg EXCEPT !.code = code, !.body = b]
<1>1. b \in Bodies
  BY DEF Bodies
<1>2. Ask(at, m, sh)
  BY DEF Request
<1> HIDE DEF b
<1>3. m \in Messages /\ m.code = code /\ m.fd = my_msg.fd /\ m.body = b
  BY <1>1 DEF Messages
<1> HIDE DEF m
<1>4. QED
  BY <1>2, <1>3 DEF b

LEMMA AskIs ==
  ASSUME NEW at, NEW m, NEW sh, DOMAIN sh = Fields, Ask(at, m, sh)
  PROVE  /\ DOMAIN shell' = Fields
         /\ shell'.at = at /\ shell'.asked /\ shell'.shown = sh.shown
         /\ shell'.path = sh.path /\ shell'.verb = sh.verb /\ shell'.child = sh.child
         /\ MsgSnd(AskedOf(at), m)
         /\ UNCHANGED <<serving, fd_array, program, table>>
BY DEF Ask, Fields

(* What the steps that ask have in common: the shell waits for no child,    *)
(* and what it announces is the child it forked.                            *)
Asking ==
  /\ \E to \in Pid, d \in Messages : MsgSnd(to, d)
  /\ shell.at # "forked" /\ shell'.at \in Stages
  /\ shell.at = "fork" <=> shell'.at = "forked"
  /\ shell'.at = "forked" => shell'.child = shell.child
  /\ DOMAIN shell' = Fields
  /\ UNCHANGED <<serving, fd_array, program, table>>

LEMMA AskKeeps ==
  ASSUME Machine, Standing, Session, running_pid = PROC_SHELL, ~shell.asked,
         NEW at \in Stages, NEW m \in Messages, NEW sh, DOMAIN sh = Fields,
         Ask(at, m, sh), AsksFor(m)',
         at \in Finding => sh.path \in Paths /\ IsSequence(sh.path)
  PROVE  /\ Session'
         /\ \E to \in Pid, d \in Messages : MsgSnd(to, d)
<1>1. /\ shell'.at = at /\ shell'.asked /\ shell'.path = sh.path
      /\ MsgSnd(AskedOf(at), m) /\ UNCHANGED <<serving, fd_array>>
  BY AskIs
<1>2. Quiet
  BY ShellGoesOn
<1>3. (Sent(m) \/ Taken(m))'
  BY <1>1, <1>2, AskSends
<1>4. Exchange'
  BY <1>3 DEF Exchange
<1>5. Session'
  BY <1>1, <1>4 DEF Session
<1>6. QED
  BY <1>1, <1>5, ShellFacts

(* A text to print, or a line to read: no object is open.                   *)
LEMMA PlainAsk ==
  ASSUME Machine, Standing, Session, running_pid = PROC_SHELL, ~shell.asked,
         NEW at \in Stages \ (Finding \cup {"forked"}), NEW m \in Messages,
         NEW sh, DOMAIN sh = Fields, Ask(at, m, sh),
         NoneOpen, sh.shown = <<>>
  PROVE  /\ Session'
         /\ \E to \in Pid, d \in Messages : MsgSnd(to, d)
<1>1. shell'.at = at /\ shell'.shown = <<>> /\ fd_array' = fd_array
  BY AskIs
<1>2. AsksFor(m)'
  BY <1>1 DEF AsksFor, NoneOpen, Finding, Reading
<1>3. QED
  BY <1>2, AskKeeps

(* What the shell has when it goes on.                                      *)
LEMMA HasReply ==
  ASSUME Machine, Session, running_pid = PROC_SHELL, ~shell.asked
  PROVE  /\ shell.at \in Stages => my_msg \in Messages /\ Answers(my_msg)
         /\ shell.at \in {"fork", "wait"} => my_msg \in Messages
         /\ shell.at = "fork" => my_msg.code = GOOD
         /\ shell.at \notin {"open", "show", "read"} => NoneOpen
         /\ shell.at \notin {"read", "show", "close"} => shell.shown = <<>>
<1>1. CASE shell.at \in Stages
  <2>1. PICK d \in Messages : Answers(d) /\ my_msg = d
    BY <1>1, ShellGoesOn
  <2>2. QED
    BY <1>1, <2>1 DEF Answers, Reading, Stages, Finding
<1>2. CASE shell.at \notin Stages
  <2>1. Alone
    BY <1>2 DEF Session
  <2>2. QED
    BY <1>2, <2>1 DEF Alone, my_msg, Stages, Finding
<1>3. QED
  BY <1>1, <1>2

(***************************************************************************)
(* The actions of ShellProc() that ask.                                    *)
(***************************************************************************)
ShellRuns == running_pid = PROC_SHELL /\ ~shell.asked

LEMMA GreetKeeps ==
  ASSUME Machine, Standing, Session, Greet
  PROVE  Session' /\ Asking
<1> DEFINE m == [code |-> 0, fd |-> NULL, body |-> TEXT]
<1>1. ShellRuns /\ shell.at = "boot" /\ Ask("greeting", m, shell)
  BY DEF Greet, At, Running, ShellRuns
<1>2. m \in Messages
  BY DEF Messages, Bodies
<1>3. NoneOpen /\ shell.shown = <<>> /\ DOMAIN shell = Fields
  BY <1>1, HasReply DEF ShellRuns, Standing
<1>4. "greeting" \in Stages \ (Finding \cup {"forked"})
  BY DEF Stages, Finding
<1> HIDE DEF m
<1>5. Session' /\ \E to \in Pid, d \in Messages : MsgSnd(to, d)
  BY <1>1, <1>2, <1>3, <1>4, PlainAsk DEF ShellRuns
<1>6. QED
  BY <1>1, <1>3, <1>4, <1>5, AskIs DEF Asking

(* A text to print while no object is open.                                 *)
LEMMA SayKeeps ==
  ASSUME Machine, Standing, Session, NEW at \in Stages \ (Finding \cup {"forked"}),
         ShellRuns, shell.at \in Stages \cup {"wait"},
         shell.at \notin {"open", "read", "show", "close", "forked"}, Say(at)
  PROVE  Session' /\ Asking
<1> DEFINE m == [my_msg EXCEPT !.body = TEXT]
<1>1. my_msg \in Messages /\ NoneOpen /\ shell.shown = <<>> /\ DOMAIN shell = Fields
  BY HasReply DEF ShellRuns, Standing
<1>2. m \in Messages
  BY <1>1, Reworded DEF Bodies
<1>3. Ask(at, m, shell)
  BY DEF Say
<1> HIDE DEF m
<1>4. Session' /\ \E to \in Pid, d \in Messages : MsgSnd(to, d)
  BY <1>1, <1>2, <1>3, PlainAsk DEF ShellRuns
<1>5. shell.at # "fork"
  BY DEF Stages, Finding
<1>6. QED
  BY <1>1, <1>3, <1>4, <1>5, AskIs DEF Asking

(* The login dialogue and the prompt.                                       *)
LEMMA TalkKeeps ==
  ASSUME Machine, Standing, Session, ShellRuns,
         shell.at \in Stages \ (Finding \cup {"forked"}),
         NEW at \in Stages \ (Finding \cup {"forked"}),
         NEW m \in Messages, NEW sh, DOMAIN sh = Fields, sh.shown = <<>>, Ask(at, m, sh)
  PROVE  Session' /\ Asking
<1>1. NoneOpen
  BY HasReply DEF ShellRuns, Finding
<1>2. Session' /\ \E to \in Pid, d \in Messages : MsgSnd(to, d)
  BY <1>1, PlainAsk DEF ShellRuns
<1>3. shell.at # "fork"
  BY DEF Stages, Finding
<1>4. QED
  BY <1>2, <1>3, AskIs DEF Asking

LEMMA LoginKeeps ==
  ASSUME Machine, Standing, Session, Login
  PROVE  Session' /\ Asking
<1> DEFINE Plain == Stages \ (Finding \cup {"forked"})
<1>1. /\ ShellRuns
      /\ shell.at \in {"greeting", "invalid", "name?", "login", "password?", "password"}
  BY DEF Login, At, ShellRuns, Running
<1>2. shell.at \in Plain /\ shell.at \in Stages
  BY <1>1 DEF Stages, Finding
<1>3. my_msg \in Messages /\ shell.shown = <<>> /\ DOMAIN shell = Fields
  BY <1>1, <1>2, HasReply DEF ShellRuns, Standing, Finding
<1>4. /\ "name?" \in Plain /\ "login" \in Plain /\ "password?" \in Plain
      /\ "password" \in Plain /\ "invalid" \in Plain /\ "prompt" \in Plain
  BY DEF Stages, Finding
<1> HIDE DEF Plain
<1>5. [my_msg EXCEPT !.body = TEXT] \in Messages
  BY <1>3, Reworded DEF Bodies
<1>6. \A name : /\ DOMAIN [shell EXCEPT !.login = name] = Fields
                /\ [shell EXCEPT !.login = name].shown = <<>>
  BY <1>3 DEF Fields
<1>7. CASE Say("name?") \/ Say("invalid")
  BY <1>1, <1>2, <1>4, <1>7, SayKeeps DEF Plain, Finding
<1>8. CASE Ask("login", my_msg, shell) \/ Ask("password", my_msg, shell)
  BY <1>1, <1>2, <1>3, <1>4, <1>8, TalkKeeps DEF Plain
<1>9. CASE Ask("password?", [my_msg EXCEPT !.body = TEXT],
               [shell EXCEPT !.login = my_msg.body])
  BY <1>1, <1>2, <1>4, <1>5, <1>6, <1>9, TalkKeeps DEF Plain
<1>10. CASE Ask("prompt", [my_msg EXCEPT !.body = TEXT], [shell EXCEPT !.login = NULL])
  BY <1>1, <1>2, <1>4, <1>5, <1>6, <1>10, TalkKeeps DEF Plain
<1>11. QED
  BY <1>7, <1>8, <1>9, <1>10 DEF Login

LEMMA PromptKeeps ==
  ASSUME Machine, Standing, Session, Prompt
  PROVE  Session' /\ Asking
<1>1. ShellRuns /\ shell.at = "prompt" /\ Ask("line", my_msg, shell)
  BY DEF Prompt, At, ShellRuns, Running
<1>2. /\ "line" \in Stages \ (Finding \cup {"forked"})
      /\ "prompt" \in Stages \ (Finding \cup {"forked"})
  BY DEF Stages, Finding
<1>3. my_msg \in Messages /\ shell.shown = <<>> /\ DOMAIN shell = Fields
  BY <1>1, <1>2, HasReply DEF ShellRuns, Standing
<1>4. QED
  BY <1>1, <1>2, <1>3, TalkKeeps

(* The command is looked up.                                                *)
LEMMA CheckKeeps ==
  ASSUME Machine, Standing, Session, ShellRuns, shell.at = "line",
         NEW path \in Paths, IsSequence(path),
         NEW m \in Messages, m.code = CHK_OBJ, m.body = [path |-> path],
         NEW verb, Ask("check", m, [shell EXCEPT !.verb = verb, !.path = path])
  PROVE  Session' /\ Asking
<1> DEFINE sh == [shell EXCEPT !.verb = verb, !.path = path]
<1>1. "check" \in Stages /\ "line" \in Stages /\ DOMAIN shell = Fields
  BY DEF Stages, Finding, Standing
<1>2. NoneOpen /\ shell.shown = <<>>
  BY HasReply DEF ShellRuns
<1>3. DOMAIN sh = Fields /\ sh.path = path /\ sh.shown = <<>>
  BY <1>1, <1>2 DEF Fields
<1> HIDE DEF sh
<1>4. /\ shell'.at = "check" /\ shell'.shown = <<>> /\ shell'.path = path
      /\ DOMAIN shell' = Fields
      /\ UNCHANGED <<serving, fd_array, program, table>>
  BY <1>3, AskIs DEF sh
<1>5. AsksFor(m)'
  BY <1>2, <1>4 DEF AsksFor, NoneOpen, Reading
<1>6. Session' /\ \E to \in Pid, d \in Messages : MsgSnd(to, d)
  BY <1>1, <1>3, <1>5, AskKeeps DEF ShellRuns, sh
<1>7. QED
  BY <1>1, <1>4, <1>6 DEF Asking

LEMMA TargetsAre ==
  ASSUME NEW line \in Lines["line"], NEW path \in Targets(line)
  PROVE  path \in Paths /\ IsSequence(path)
<1>1. IsSequence(<<SLASH>>)
  <2>1. <<SLASH>> \in Seq({SLASH}) /\ DOMAIN <<SLASH>> = {1}
    OBVIOUS
  <2>2. {<<SLASH>>[i] : i \in DOMAIN <<SLASH>>} = {SLASH}
    BY <2>1
  <2>3. QED
    BY <2>1, <2>2 DEF IsSequence
<1>2. QED
  BY <1>1, ShellAssumption DEF Targets, Paths

LEMMA CommandKeeps ==
  ASSUME Machine, Standing, Session, Command
  PROVE  Session' /\ Asking
<1> DEFINE line == my_msg.body
<1>1. ShellRuns /\ shell.at = "line"
  BY DEF Command, At, ShellRuns, Running
<1>2. "line" \in Stages /\ "name?" \in Stages \ (Finding \cup {"forked"})
  BY DEF Stages, Finding
<1>3. my_msg \in Messages /\ line \in Lines["line"]
  BY <1>1, <1>2, HasReply DEF ShellRuns, Answers
<1>4. CASE Say("name?")
  BY <1>1, <1>2, <1>4, SayKeeps
<1>5. CASE /\ line.verb \in {"dir", "cat"}
           /\ \E path \in Targets(line), fd \in Leftovers :
                Ask("check", [code |-> CHK_OBJ, fd |-> fd, body |-> [path |-> path]],
                    [shell EXCEPT !.verb = line.verb, !.path = path])
  <2>1. PICK path \in Targets(line), fd \in Leftovers :
               Ask("check", [code |-> CHK_OBJ, fd |-> fd, body |-> [path |-> path]],
                   [shell EXCEPT !.verb = line.verb, !.path = path])
    BY <1>5
  <2> DEFINE m == [code |-> CHK_OBJ, fd |-> fd, body |-> [path |-> path]]
  <2>2. path \in Paths /\ IsSequence(path)
    BY <1>3, <2>1, TargetsAre
  <2>3. m \in Messages
    <3>1. [path |-> path] \in Bodies
      BY <2>2 DEF Bodies
    <3>2. QED
      BY <3>1 DEF Messages, CHK_OBJ
  <2>4. m.code = CHK_OBJ /\ m.body = [path |-> path]
    OBVIOUS
  <2> HIDE DEF m
  <2>5. QED
    BY <1>1, <2>1, <2>2, <2>3, <2>4, CheckKeeps DEF m
<1>6. CASE /\ line.verb = "run"
           /\ Request("check", CHK_OBJ, [shell EXCEPT !.verb = "run", !.path = line.path])
  <2> DEFINE sh == [shell EXCEPT !.verb = "run", !.path = line.path]
  <2>1. line.path \in Paths /\ IsSequence(line.path)
    BY <1>3, <1>6, ShellAssumption DEF Paths
  <2>2. sh.path = line.path /\ CHK_OBJ \in Int
    BY DEF Standing, Fields, CHK_OBJ
  <2>3. Request("check", CHK_OBJ, sh)
    BY <1>6
  <2> HIDE DEF sh
  <2>4. PICK m \in Messages : /\ m.code = CHK_OBJ /\ m.body = [path |-> line.path]
                              /\ Ask("check", m, sh)
    BY <1>3, <2>1, <2>2, <2>3, RequestIs
  <2>5. QED
    BY <1>1, <2>1, <2>4, CheckKeeps DEF sh
<1>7. QED
  BY <1>4, <1>5, <1>6 DEF Command

(* A request about the object that was found.                               *)
LEMMA FindingKeeps ==
  ASSUME Machine, Standing, Session, ShellRuns, shell.at \in Finding, NEW at \in Finding,
         NEW m \in Messages, Ask(at, m, shell), AsksFor(m)'
  PROVE  Session' /\ Asking
<1>1. DOMAIN shell = Fields /\ shell.path \in Paths /\ IsSequence(shell.path)
  BY DEF Standing, Session
<1>2. Session' /\ \E to \in Pid, d \in Messages : MsgSnd(to, d)
  BY <1>1, AskKeeps DEF ShellRuns, Stages
<1>3. at # "forked" /\ shell.at # "fork" /\ shell.at # "forked" /\ at \in Stages
  BY DEF Finding, Stages
<1>4. QED
  BY <1>1, <1>2, <1>3, AskIs DEF Asking

LEMMA OpenTargetKeeps ==
  ASSUME Machine, Standing, Session, OpenTarget
  PROVE  Session' /\ Asking
<1>1. ShellRuns /\ shell.at = "check"
  BY DEF OpenTarget, At, ShellRuns, Running
<1>2. /\ "check" \in Finding /\ "check" \in Stages /\ "open" \in Finding
      /\ "tell" \in Stages \ (Finding \cup {"forked"})
  BY DEF Stages, Finding
<1>3. /\ my_msg \in Messages /\ NoneOpen /\ shell.shown = <<>> /\ shell.path \in Paths
      /\ my_msg.code = GOOD => FindName(shell.path) # NULL
  BY <1>1, <1>2, HasReply DEF ShellRuns, Answers, Session
<1>4. CASE Opens /\ Request("open", OPEN_OBJ, shell)
  <2>1. FindName(shell.path) # NULL
    BY <1>3, <1>4 DEF Opens, Good
  <2>2. PICK m \in Messages : /\ m.code = OPEN_OBJ /\ m.body = [path |-> shell.path]
                              /\ Ask("open", m, shell)
    BY <1>3, <1>4, RequestIs DEF OPEN_OBJ
  <2>3. /\ shell'.at = "open" /\ shell'.shown = <<>> /\ shell'.path = shell.path
        /\ fd_array' = fd_array
    BY <1>3, <2>2, AskIs DEF Standing
  <2>4. AsksFor(m)'
    BY <1>3, <2>1, <2>2, <2>3 DEF AsksFor, NoneOpen, Reading
  <2>5. QED
    BY <1>1, <1>2, <2>2, <2>4, FindingKeeps
<1>5. CASE Say("tell")
  BY <1>1, <1>2, <1>5, SayKeeps
<1>6. QED
  BY <1>4, <1>5 DEF OpenTarget

LEMMA OpenedSame ==
  ASSUME NEW fd, NEW shown, Opened(fd, shown),
         shell'.shown = shown, shell'.path = shell.path, fd_array' = fd_array
  PROVE  Opened(fd, shell.shown)'
BY DEF Opened

LEMMA ReadOnKeeps ==
  ASSUME Machine, Standing, Session, ReadOn
  PROVE  Session' /\ Asking
<1>1. ShellRuns /\ shell.at \in {"open", "show", "read"}
  BY DEF ReadOn, At, ShellRuns, Running
<1>2. /\ shell.at \in Finding /\ shell.at \in Stages
      /\ \A at \in Reading : at \in Finding /\ at \in Stages
      /\ "read" \in Reading /\ "show" \in Reading /\ "close" \in Reading
  BY <1>1 DEF Stages, Finding, Reading
<1>3. my_msg \in Messages /\ Answers(my_msg) /\ shell.path \in Paths /\ DOMAIN shell = Fields
  BY <1>1, <1>2, HasReply DEF ShellRuns, Session, Standing
<1>4. PICK d, before : d = my_msg /\ before = shell.shown
  OBVIOUS
<1>5. CASE shell.at \in {"open", "show"} /\ Request("read", READ_OBJ, shell)
  <2>1. Opened(d.fd, before)
    BY <1>3, <1>4, <1>5 DEF Answers
  <2>2. PICK m \in Messages : /\ m.code = READ_OBJ /\ m.fd = my_msg.fd
                              /\ m.body = [path |-> shell.path] /\ Ask("read", m, shell)
    BY <1>3, <1>5, RequestIs DEF READ_OBJ
  <2>3. /\ shell'.at = "read" /\ shell'.shown = before /\ shell'.path = shell.path
        /\ fd_array' = fd_array
    BY <1>3, <1>4, <2>2, AskIs
  <2>4. Opened(m.fd, shell.shown)'
    BY <1>4, <2>1, <2>2, <2>3, OpenedSame
  <2>5. AsksFor(m)'
    BY <2>2, <2>3, <2>4 DEF AsksFor, Reading
  <2>6. QED
    BY <1>1, <1>2, <2>2, <2>5, FindingKeeps
<1>6. CASE /\ shell.at = "read" /\ Good
           /\ Ask("show", my_msg, [shell EXCEPT !.shown = Append(@, my_msg.body.piece)])
  <2> DEFINE shown == Append(before, d.body.piece)
             sh == [shell EXCEPT !.shown = shown]
  <2>1. Opened(d.fd, shown)
    BY <1>3, <1>4, <1>6 DEF Answers, Good
  <2>2. Ask("show", d, sh)
    BY <1>4, <1>6
  <2> HIDE DEF shown
  <2>3. DOMAIN sh = Fields /\ sh.path = shell.path /\ sh.shown = shown
    BY <1>3 DEF Fields
  <2> HIDE DEF sh
  <2>4. /\ shell'.at = "show" /\ shell'.shown = shown /\ shell'.path = shell.path
        /\ DOMAIN shell' = Fields
        /\ UNCHANGED <<serving, fd_array, program, table>>
    BY <2>2, <2>3, AskIs
  <2>5. Opened(d.fd, shell.shown)'
    BY <2>1, <2>4, OpenedSame
  <2>6. AsksFor(d)'
    BY <2>4, <2>5 DEF AsksFor, Reading
  <2>7. sh.path \in Paths /\ IsSequence(sh.path)
    BY <1>2, <2>3 DEF Session
  <2>8. Session' /\ \E to \in Pid, m \in Messages : MsgSnd(to, m)
    BY <1>1, <1>2, <1>3, <1>4, <2>2, <2>3, <2>6, <2>7, AskKeeps DEF ShellRuns
  <2>9. QED
    BY <1>2, <1>6, <2>4, <2>8 DEF Asking
<1>7. CASE shell.at = "read" /\ ~Good /\ Request("close", CLOSE_OBJ, shell)
  <2>1. Opened(d.fd, before) /\ before = Rest(FindName(shell.path), 0)
    BY <1>3, <1>4, <1>7 DEF Answers, Good, AllShown
  <2>2. PICK m \in Messages : /\ m.code = CLOSE_OBJ /\ m.fd = my_msg.fd
                              /\ m.body = [path |-> shell.path] /\ Ask("close", m, shell)
    BY <1>3, <1>7, RequestIs DEF CLOSE_OBJ
  <2>3. /\ shell'.at = "close" /\ shell'.shown = before /\ shell'.path = shell.path
        /\ fd_array' = fd_array
    BY <1>3, <1>4, <2>2, AskIs
  <2>4. Opened(m.fd, shell.shown)'
    BY <1>4, <2>1, <2>2, <2>3, OpenedSame
  <2>5. AsksFor(m)'
    BY <2>1, <2>2, <2>3, <2>4 DEF AsksFor, Reading, AllShown
  <2>6. QED
    BY <1>1, <1>2, <2>2, <2>5, FindingKeeps
<1>8. QED
  BY <1>1, <1>5, <1>6, <1>7 DEF ReadOn, At

(* Back at the prompt.                                                      *)
LEMMA DoneKeeps ==
  ASSUME Machine, Standing, Session, ShellRuns,
         shell.at \in {"close", "tell", "exited"}, Done
  PROVE  Session' /\ Asking
<1> DEFINE m == [code |-> 0, fd |-> NULL, body |-> TEXT]
           sh == [shell EXCEPT !.verb = NULL, !.path = NULL, !.child = NULL, !.shown = <<>>]
<1>1. m \in Messages /\ NoneOpen
  BY HasReply DEF Messages, Bodies, ShellRuns
<1>2. DOMAIN sh = Fields /\ sh.shown = <<>>
  BY DEF Standing, Fields
<1>3. Ask("prompt", m, sh)
  BY DEF Done
<1> HIDE DEF m, sh
<1>4. "prompt" \in Stages \ (Finding \cup {"forked"})
  BY DEF Stages, Finding
<1>5. Session' /\ \E to \in Pid, d \in Messages : MsgSnd(to, d)
  BY <1>1, <1>2, <1>3, <1>4, PlainAsk DEF ShellRuns
<1>6. QED
  BY <1>2, <1>3, <1>4, <1>5, AskIs DEF Asking

LEMMA FinishKeeps ==
  ASSUME Machine, Standing, Session, Finish
  PROVE  Session' /\ Asking
<1>1. ShellRuns /\ shell.at \in {"close", "tell"} /\ shell.at \in Stages
  BY DEF Finish, At, ShellRuns, Running, Stages, Finding
<1>2. shell.at = "close" => Good
  BY <1>1, HasReply DEF ShellRuns, Answers, Good
<1>3. QED
  BY <1>1, <1>2, DoneKeeps DEF Finish, At

(* What is told about a program and its child.                              *)
LEMMA RunAsks ==
  ASSUME Machine, Standing, Session, Run, ~ForkProgram, ~(At("forked") /\ WaitForChild)
  PROVE  Session' /\ Asking
<1>1. CASE At("check") /\ Say("tell")
  BY <1>1, SayKeeps DEF At, ShellRuns, Running, Stages, Finding
<1>2. CASE At("fork") /\ Say("forked")
  <2> DEFINE m == [my_msg EXCEPT !.body = TEXT]
  <2>1. ShellRuns /\ shell.at = "fork" /\ DOMAIN shell = Fields
    BY <1>2 DEF At, ShellRuns, Running, Standing
  <2>2. my_msg \in Messages /\ my_msg.code = GOOD /\ NoneOpen /\ shell.shown = <<>>
    BY <2>1, HasReply DEF ShellRuns
  <2>3. m \in Messages /\ m.code = GOOD
    BY <2>2, Reworded DEF Bodies
  <2>4. Ask("forked", m, shell)
    BY <1>2 DEF Say
  <2> HIDE DEF m
  <2>5. PICK d \in Messages : d = m
    BY <2>3
  <2>6. /\ shell'.at = "forked" /\ shell'.shown = <<>> /\ shell'.child = shell.child
        /\ DOMAIN shell' = Fields
        /\ UNCHANGED <<serving, fd_array, program, table>>
    BY <2>1, <2>2, <2>4, AskIs
  <2>7. AsksFor(d)'
    BY <2>2, <2>3, <2>5, <2>6 DEF AsksFor, NoneOpen, Reading
  <2>8. "forked" \in Stages /\ "forked" \notin Finding
    BY DEF Stages, Finding
  <2>9. Session' /\ \E to \in Pid, e \in Messages : MsgSnd(to, e)
    BY <2>1, <2>4, <2>5, <2>7, <2>8, AskKeeps DEF ShellRuns
  <2>10. QED
    BY <2>1, <2>6, <2>8, <2>9 DEF Asking
<1>3. CASE At("forked") /\ ~Good
  <2>1. my_msg.code = GOOD
    BY <1>3, HasReply DEF At, Running, Stages, Answers
  <2>2. QED
    BY <1>3, <2>1 DEF Good
<1>4. CASE At("wait") /\ Say("exited")
  BY <1>4, SayKeeps DEF At, ShellRuns, Running, Stages, Finding
<1>5. CASE At("exited") /\ Done
  BY <1>5, DoneKeeps DEF At, ShellRuns, Running
<1>6. QED
  BY <1>1, <1>2, <1>3, <1>4, <1>5 DEF Run

-----------------------------------------------------------------------------
(***************************************************************************)
(* What the file service does with the object of the shell.                *)
(***************************************************************************)
LEMMA SortedIn ==
  ASSUME NEW S \in SUBSET Nat, IsFiniteSet(S)
  PROVE  Sorted(S) \in Seq(S)
<1> DEFINE n == Cardinality(S)
           Ranked(k) == {i \in S : Cardinality({j \in S : j < i}) = k - 1}
<1>1. n \in Nat /\ \A k \in 0 .. n - 1 : \E i \in S : Cardinality({j \in S : j < i}) = k
  <2>1. S \in SUBSET Int
    OBVIOUS
  <2>2. QED
    BY <2>1, RankBijective
<1>2. ASSUME NEW k \in 1 .. n PROVE Least(Ranked(k)) \in S
  <2>1. k - 1 \in 0 .. n - 1
    BY <1>1
  <2>2. Ranked(k) # {} /\ Ranked(k) \in SUBSET Nat
    BY <1>1, <2>1
  <2>3. Least(Ranked(k)) \in Ranked(k)
    <3> HIDE DEF Ranked
    <3>1. QED
      BY <2>2, LeastIs
  <2>4. QED
    BY <2>3
<1>3. Sorted(S) = [k \in 1 .. n |-> Least(Ranked(k))]
  BY DEF Sorted
<1> HIDE DEF n, Ranked
<1>4. QED
  BY <1>1, <1>2, <1>3

LEMMA RestIs ==
  ASSUME NEW item \in Item, NEW o \in 0 .. Extent(item)
  PROVE  Rest(item, o) \in Seq(Pieces)
<1>1. CASE A_ISDIR(item)
  <2> DEFINE d == Entry(item).data
             S == NamedFrom(d, o)
             s == Sorted(S)
  <2>1. d \in DOMAIN dirs /\ DOMAIN dirs[d] = 1 .. Len(dirs[d]) /\ Len(dirs[d]) \in Nat
    BY <1>1, ExtentIs, DirsAre
  <2>2. S \subseteq 1 .. Len(dirs[d]) /\ IsFiniteSet(1 .. Len(dirs[d]))
    BY <2>1, FS_Interval DEF NamedFrom
  <2>3. S \in SUBSET Nat /\ IsFiniteSet(S)
    BY <2>2, FS_Subset
  <2> HIDE DEF S, d
  <2>4. s \in Seq(S)
    BY <2>3, SortedIn
  <2>5. \A k \in DOMAIN s : <<d, s[k]>> \in Item
    BY <2>1, <2>2, <2>4, ItemIs
  <2> HIDE DEF s
  <2>6. [k \in DOMAIN s |-> <<d, s[k]>>] \in Seq(Item)
    BY <2>4, <2>5
  <2>7. Rest(item, o) = [k \in DOMAIN s |-> <<d, s[k]>>]
    BY <1>1 DEF Rest, Named, s, S, d
  <2>8. QED
    BY <2>6, <2>7 DEF Pieces
<1>2. CASE ~A_ISDIR(item)
  <2> DEFINE size == Entry(item).size
             n == (size - o + CHUNK - 1) \div CHUNK
             From(k) == o + (k - 1) * CHUNK
             To(k) == IF From(k) + CHUNK < size THEN From(k) + CHUNK ELSE size
  <2>1. size \in Nat /\ o \in 0 .. size /\ CHUNK \in Nat /\ CHUNK > 0
    BY <1>2, ExtentIs, FileAssumption
  <2>2. n \in Nat
    <3>1. \A c \in Nat : c > 0 => \A a \in Nat : a \div c \in Nat
      OBVIOUS
    <3>2. size - o + CHUNK - 1 \in Nat
      BY <2>1
    <3>3. QED
      BY <2>1, <3>1, <3>2
  <2>3. ASSUME NEW k \in 1 .. n PROVE From(k) \in Nat
    <3>1. \A a, b \in Nat : a * b \in Nat
      OBVIOUS
    <3>2. k - 1 \in Nat
      BY <2>2
    <3>3. (k - 1) * CHUNK \in Nat
      BY <2>1, <3>1, <3>2
    <3>4. QED
      BY <2>1, <3>3
  <2>4. Rest(item, o) = [k \in 1 .. n |-> <<item, From(k), To(k)>>]
    BY <1>2 DEF Rest, Slices
  <2> HIDE DEF n, From
  <2>5. \A k \in 1 .. n : <<item, From(k), To(k)>> \in Pieces
    BY <2>1, <2>3 DEF Pieces
  <2> HIDE DEF To
  <2>6. QED
    BY <2>2, <2>4, <2>5
<1>3. QED
  BY <1>1, <1>2

LEMMA MovesOver ==
  ASSUME NEW T, NEW s \in Seq(T), NEW t \in Seq(T), t # <<>>
  PROVE  /\ Head(t) \in T /\ Append(s, Head(t)) \in Seq(T)
         /\ Append(s, Head(t)) \o Tail(t) = s \o t
OBVIOUS

-----------------------------------------------------------------------------
(***************************************************************************)
(* Requests are received and answered.                                     *)
(***************************************************************************)

(* What a message says depends on the shell and the descriptors only.       *)
LEMMA SaysSame ==
  ASSUME NEW d, UNCHANGED fd_array, shell'.at = shell.at, shell'.shown = shell.shown,
         shell'.path = shell.path
  PROVE  (AsksFor(d)' <=> AsksFor(d)) /\ (Answers(d)' <=> Answers(d))
BY DEF AsksFor, Answers, Opened, NoneOpen, AllShown

LEMMA SessionSame ==
  ASSUME Session, UNCHANGED <<msgVars, serving, shell, fd_array>>
  PROVE  Session'
<1>1. /\ shell' = shell /\ fd_array' = fd_array /\ serving' = serving
      /\ msg_q' = msg_q /\ msg_wait_q' = msg_wait_q /\ inbox' = inbox
  BY DEF msgVars
<1>2. Exchange' <=> Exchange
  BY <1>1 DEF Exchange, Sent, Taken, Replied, Received, Quiet, Only, Idle, Empty, Pending,
              Partner, AsksFor, Answers, Opened, NoneOpen, AllShown
<1>3. Alone' <=> Alone
  BY <1>1 DEF Alone, Quiet, Idle, Empty, Pending, NoneOpen
<1>4. QED
  BY <1>1, <1>2, <1>3 DEF Session

LEMMA ReceiveKeeps ==
  ASSUME Machine, Standing, Session, Receive
  PROVE  Session'
<1>1. /\ running_pid = PROC_SHELL /\ shell.asked /\ MsgRcv
      /\ shell' = [shell EXCEPT !.asked = FALSE] /\ UNCHANGED <<serving, fd_array>>
  BY DEF Receive, Running
<1>2. /\ shell'.at = shell.at /\ shell'.shown = shell.shown /\ shell'.path = shell.path
      /\ ~shell'.asked
  BY <1>1 DEF Standing, Fields
<1>3. shell.at \in Stages /\ Exchange
  BY <1>1 DEF Session, Alone, Quiet, Pending
<1>4. PICK d \in Messages : \/ (Sent(d) \/ Taken(d)) /\ AsksFor(d)
                            \/ Replied(d) /\ Answers(d)
  BY <1>1, <1>3 DEF Exchange, Received, Quiet, Pending
<1>5. /\ Sent(d) => Sent(d)'
      /\ Taken(d) => Taken(d)'
      /\ Replied(d) => Received(d)'
  BY <1>1, <1>2, ShellReceives
<1>6. (AsksFor(d)' <=> AsksFor(d)) /\ (Answers(d)' <=> Answers(d))
  BY <1>1, <1>2, SaysSame
<1>7. Exchange'
  BY <1>4, <1>5, <1>6 DEF Exchange
<1>8. QED
  BY <1>1, <1>2, <1>3, <1>7 DEF Session

LEMMA ServeKeeps ==
  ASSUME Machine, Standing, Session, NEW p \in Servers, Serve(p)
  PROVE  Session'
<1>1. shell' = shell /\ fd_array' = fd_array /\ running_pid = p /\ MsgRcv
  BY DEF Serve, Running
<1>2. inbox'[PROC_SHELL] = inbox[PROC_SHELL]
  <2>1. p \in System /\ p # PROC_SHELL /\ PROC_SHELL \in Pid /\ DOMAIN inbox = Pid
    BY ShellFacts DEF Machine, TypeOK
  <2>2. QED
    BY <1>1, <2>1, RcvIs
<1>3. CASE shell.at \in Stages
  <2>0. Exchange
    BY <1>3 DEF Session
  <2>1. PICK d \in Messages : \/ (Sent(d) \/ Taken(d)) /\ AsksFor(d)
                              \/ (Replied(d) \/ Received(d)) /\ Answers(d)
    BY <2>0 DEF Exchange
  <2>2. /\ Sent(d) => (Sent(d) \/ Taken(d))'
        /\ Taken(d) => Taken(d)'
        /\ Replied(d) => Replied(d)'
        /\ Received(d) => Received(d)'
    BY ServerReceives
  <2>3. (AsksFor(d)' <=> AsksFor(d)) /\ (Answers(d)' <=> Answers(d))
    BY <1>1, SaysSame
  <2>4. Exchange'
    BY <2>1, <2>2, <2>3 DEF Exchange
  <2>5. QED
    BY <1>1, <1>3, <2>4 DEF Session
<1>4. CASE shell.at \notin Stages
  <2>1. Alone /\ (Quiet => Quiet')
    BY <1>4, ServerReceives DEF Session
  <2>2. Alone'
    BY <1>1, <1>2, <2>1 DEF Alone, NoneOpen
  <2>3. QED
    BY <1>1, <1>4, <2>2 DEF Session
<1>5. QED
  BY <1>3, <1>4

(* A reply.                                                                 *)
LEMMA ReplyKeeps ==
  ASSUME Machine, Standing, Session, NEW p \in Servers, NEW d, Taken(d), p = Partner,
         NEW m \in Messages, Return(p, m), shell.at \in Stages,
         fd_array' \in [FD -> Descriptor(Owners)], Answers(m)'
  PROVE  Session' /\ \E to \in Pid, e \in Messages : MsgSnd(to, e)
<1>1. /\ running_pid = p /\ MsgSnd(inbox[p].sender, m) /\ serving' = serving \ {p}
      /\ shell' = shell
  BY DEF Return, Running
<1>2. inbox[p].sender = PROC_SHELL
  BY DEF Taken
<1>3. (Replied(m) \/ Received(m))'
  BY <1>1, <1>2, ServerReturns
<1>4. Exchange'
  BY <1>3 DEF Exchange
<1>5. Session'
  BY <1>1, <1>4 DEF Session
<1>6. QED
  BY <1>1, <1>2, <1>5, ShellFacts

LEMMA StdoutKeeps ==
  ASSUME Machine, Standing, Session,
         Return(PROC_STDOUT, Printed(inbox[PROC_STDOUT].data)), UNCHANGED fd_array
  PROVE  Session' /\ \E to \in Pid, e \in Messages : MsgSnd(to, e)
<1>1. /\ running_pid = PROC_STDOUT /\ PROC_STDOUT \in serving /\ shell' = shell
      /\ PROC_STDOUT \in Servers
  BY DEF Return, Running, Servers
<1>2. PICK d \in Messages :
         /\ Taken(d) /\ AsksFor(d) /\ PROC_STDOUT = Partner /\ shell.at \in Stages
         /\ inbox[PROC_STDOUT] = [sender |-> PROC_SHELL, data |-> d]
  BY <1>1, ServerGoesOn
<1>3. /\ shell.at \notin {"check", "open", "read", "close", "login", "password", "line"}
  BY <1>2 DEF Partner, AskedOf, PROC_STDOUT, PROC_FILE, PROC_STDIN
<1>4. Answers(d)
  BY <1>2, <1>3 DEF AsksFor, Answers, Reading
<1>5. Answers(d)'
  BY <1>1, <1>4, SaysSame
<1>6. Return(PROC_STDOUT, d)
  BY <1>2 DEF Printed
<1>7. fd_array' \in [FD -> Descriptor(Owners)]
  BY DEF Session
<1>8. QED
  BY <1>1, <1>2, <1>5, <1>6, <1>7, ReplyKeeps

LEMMA StdinKeeps ==
  ASSUME Machine, Standing, Session, running_pid = PROC_STDIN, PROC_STDIN \in serving,
         NEW line \in Lines[shell.at],
         Return(PROC_STDIN, [inbox[PROC_STDIN].data EXCEPT !.body = line]), UNCHANGED fd_array
  PROVE  Session' /\ \E to \in Pid, e \in Messages : MsgSnd(to, e)
<1>1. /\ shell' = shell /\ PROC_STDIN \in Servers
  BY DEF Return, Servers
<1>2. PICK d \in Messages :
         /\ Taken(d) /\ AsksFor(d) /\ PROC_STDIN = Partner /\ shell.at \in Stages
         /\ inbox[PROC_STDIN] = [sender |-> PROC_SHELL, data |-> d]
  BY <1>1, ServerGoesOn
<1>3. PICK at, typed : at = shell.at /\ typed = line
  OBVIOUS
<1>4. at \in {"login", "password", "line"}
  BY <1>2, <1>3 DEF Partner, AskedOf, PROC_STDOUT, PROC_FILE, PROC_STDIN
<1> DEFINE m == [d EXCEPT !.body = typed]
<1>5. typed \in Bodies /\ (at = "line" => typed \in Lines["line"])
  BY <1>3, <1>4 DEF Bodies
<1>6. m \in Messages /\ m.body = typed
  BY <1>5, Reworded
<1>7. Return(PROC_STDIN, m)
  BY <1>2, <1>3
<1> HIDE DEF m
<1>8. Answers(m)
  BY <1>2, <1>3, <1>4, <1>5, <1>6 DEF AsksFor, Answers, Reading
<1>9. Answers(m)'
  BY <1>1, <1>8, SaysSame
<1>10. fd_array' \in [FD -> Descriptor(Owners)]
  BY DEF Session
<1>11. QED
  BY <1>1, <1>2, <1>6, <1>7, <1>9, <1>10, ReplyKeeps

-----------------------------------------------------------------------------
(***************************************************************************)
(* The requests to the file service: d is the request, at the stage that   *)
(* asks for it.                                                            *)
(***************************************************************************)
FileAsked(d) ==
  /\ running_pid = PROC_FILE /\ PROC_FILE \in serving
  /\ d \in Messages /\ Taken(d) /\ AsksFor(d) /\ PROC_FILE = Partner
  /\ shell.at \in {"check", "open", "read", "close"} /\ shell.at \in Stages
  /\ inbox[PROC_FILE] = [sender |-> PROC_SHELL, data |-> d]
  /\ shell.path \in Paths /\ FindName(shell.path) \in Item \cup {NULL}

LEMMA AskedFor ==
  ASSUME Machine, Session, NEW code, Asked(code)
  PROVE  \E d : FileAsked(d) /\ d.code = code
<1>1. running_pid = PROC_FILE /\ PROC_FILE \in serving /\ PROC_FILE \in Servers
  BY DEF Asked, Running, Servers
<1>2. PICK d \in Messages :
         /\ Taken(d) /\ AsksFor(d) /\ PROC_FILE = Partner /\ shell.at \in Stages
         /\ inbox[PROC_FILE] = [sender |-> PROC_SHELL, data |-> d]
  BY <1>1, ServerGoesOn
<1>3. shell.at \in {"check", "open", "read", "close"}
  BY <1>2 DEF Partner, AskedOf, PROC_STDOUT, PROC_FILE, PROC_STDIN
<1>4. shell.path \in Paths /\ IsSequence(shell.path)
  BY <1>3 DEF Session, Finding
<1>5. FindName(shell.path) \in Item \cup {NULL}
  BY <1>4, FoundIsItem
<1>6. QED
  BY <1>1, <1>2, <1>3, <1>4, <1>5 DEF FileAsked, Asked

LEMMA FileReplyKeeps ==
  ASSUME Machine, Standing, Session, NEW d, FileAsked(d), NEW m \in Messages,
         Return(PROC_FILE, m), fd_array' \in [FD -> Descriptor(Owners)], Answers(m)'
  PROVE  Session' /\ \E to \in Pid, e \in Messages : MsgSnd(to, e)
BY ReplyKeeps DEF FileAsked, Servers

(* The descriptors while the shell's object is open.                        *)
LEMMA OpenedIs ==
  ASSUME Session, NEW fd, NEW shown, Opened(fd, shown)
  PROVE  LET item == FindName(shell.path)
             f    == fd_array[fd]
         IN  /\ fd \in FD /\ item \in Item /\ f.owner = PROC_SHELL /\ f.item = item
             /\ WithinExtent(f, Owners) /\ f \in Descriptor(Owners)
             /\ f.offset \in 0 .. Extent(item)
             /\ fd_array = [h \in FD |-> fd_array[h]]
<1> DEFINE item == FindName(shell.path)
           f == fd_array[fd]
<1>1. fd \in FD /\ item \in Item /\ f.owner = PROC_SHELL /\ f.item = item /\ WithinExtent(f, Owners)
  BY DEF Opened
<1>2. fd_array \in [FD -> Descriptor(Owners)]
  BY DEF Session
<1>3. f \in Descriptor(Owners)
  BY <1>1, <1>2
<1>4. f.offset \in Nat /\ f.offset <= Extent(item)
  BY <1>1, <1>3, FileAssumption DEF WithinExtent, Descriptor
<1>5. f.offset \in 0 .. Extent(item)
  BY <1>1, <1>4, ExtentIs
<1>6. QED
  BY <1>1, <1>2, <1>3, <1>5

LEMMA ChkKeeps ==
  ASSUME Machine, Standing, Session, NEW d, FileAsked(d), d.code = CHK_OBJ,
         LET r == ChkObj(d.body.path)
         IN  FileReply(r, d.fd, [object |-> r.data]) /\ UNCHANGED fd_array
  PROVE  Session' /\ \E to \in Pid, e \in Messages : MsgSnd(to, e)
<1>1. /\ shell.at = "check" /\ NoneOpen /\ shell.shown = <<>> /\ d.body = [path |-> shell.path]
      /\ d \in Messages
  BY DEF FileAsked, AsksFor, Reading, CHK_OBJ, OPEN_OBJ, READ_OBJ, CLOSE_OBJ
<1>2. PICK item : item = FindName(shell.path)
  OBVIOUS
<1>3. item \in Item \cup {NULL} /\ NULL \notin Item
  BY <1>2, FileAssumption DEF FileAsked
<1> DEFINE r == ChkObj(d.body.path)
           m == [code |-> r.code, fd |-> d.fd,
                 body |-> IF r.code = GOOD THEN [object |-> r.data] ELSE d.body]
<1>4. Return(PROC_FILE, m) /\ fd_array' = fd_array
  BY DEF FileReply, FileAsked
<1>5. /\ item = NULL => r.code = UNFOUND
      /\ item # NULL => r.code = GOOD /\ r.data = item
  BY <1>1, <1>2 DEF ChkObj
<1>6. PICK e : e = m
  OBVIOUS
<1>7. /\ e \in Messages
      /\ e.code = GOOD => item # NULL /\ e.body = [object |-> item]
  <2>1. r.code \in Int /\ (r.code = GOOD => item # NULL)
    BY <1>5 DEF GOOD, UNFOUND
  <2>2. r.code = GOOD => [object |-> r.data] \in Bodies /\ r.data = item
    BY <1>3, <1>5, <2>1 DEF Bodies
  <2> HIDE DEF r
  <2>3. QED
    BY <1>1, <1>6, <2>1, <2>2 DEF Messages
<1> HIDE DEF m
<1>8. shell' = shell
  BY <1>4 DEF Return
<1>9. Answers(e)'
  BY <1>1, <1>2, <1>4, <1>7, <1>8 DEF Answers, NoneOpen, Reading
<1>10. fd_array' \in [FD -> Descriptor(Owners)]
  BY <1>4 DEF Session
<1>11. QED
  BY <1>4, <1>6, <1>7, <1>9, <1>10, FileReplyKeeps

LEMMA OpenKeeps ==
  ASSUME Machine, Standing, Session, NEW d, FileAsked(d), d.code = OPEN_OBJ,
         LET r == OpenObj(fd_array, d.body.path, PROC_SHELL)
         IN  FileReply(r, r.fd, d.body) /\ fd_array' = r.fds
  PROVE  Session' /\ \E to \in Pid, e \in Messages : MsgSnd(to, e)
<1>1. /\ shell.at = "open" /\ NoneOpen /\ shell.shown = <<>> /\ d.body = [path |-> shell.path]
      /\ d \in Messages
  BY DEF FileAsked, AsksFor, Reading, CHK_OBJ, OPEN_OBJ, READ_OBJ, CLOSE_OBJ
<1>2. PICK item : item = FindName(shell.path)
  OBVIOUS
<1>3. item \in Item /\ item # NULL
  BY <1>1, <1>2, FileAssumption DEF FileAsked, AsksFor, Reading, OPEN_OBJ
<1>4. fd_array \in [FD -> Descriptor(Owners)]
  BY DEF Session
<1> DEFINE r == OpenObj(fd_array, d.body.path, PROC_SHELL)
           f == [owner |-> PROC_SHELL, offset |-> 0, item |-> item]
<1>5. Unused(fd_array) # {}
  BY <1>1, ShellAssumption, FileAssumption DEF NoneOpen, Unused, FD
<1>6. PICK fd \in FD : r.fds = [fd_array EXCEPT ![fd] = f] /\ r.code = GOOD /\ r.fd = fd
  <2>1. DOMAIN fd_array = FD
    BY <1>4
  <2>2. FindName(d.body.path) = item
    BY <1>1, <1>2
  <2> DEFINE fd == Least(Unused(fd_array))
             path == d.body.path
             opened == [owner |-> PROC_SHELL, offset |-> 0, item |-> FindName(path)]
  <2>3. /\ Unused(fd_array) = {} => r.code = NO_FD /\ r.fd = NULL /\ r.fds = fd_array
        /\ Unused(fd_array) # {} =>
             /\ fd \in FD /\ fd_array[fd].owner = UNUSED
             /\ r.fds = [fd_array EXCEPT ![fd] = opened]
             /\ FindName(path) = NULL => r.code = UNFOUND /\ r.fd = NULL
             /\ FindName(path) # NULL => r.code = GOOD /\ r.fd = fd
    BY <2>1, OpenGives
  <2>4. opened = f
    BY <2>2
  <2> HIDE DEF fd, r
  <2>5. QED
    BY <1>3, <1>5, <2>2, <2>3, <2>4
<1> DEFINE e == [code |-> GOOD, fd |-> fd, body |-> d.body]
<1>7. Return(PROC_FILE, e) /\ fd_array' = [fd_array EXCEPT ![fd] = f]
  BY <1>6 DEF FileReply
<1>8. e \in Messages /\ e.fd = fd
  BY <1>1, <1>6 DEF Messages, GOOD
<1> HIDE DEF e, r
<1>9. shell' = shell
  BY <1>7 DEF Return
<1>10. f \in Descriptor(Owners) /\ WithinExtent(f, Owners)
  BY <1>3, ExtentIs DEF Descriptor, WithinExtent, Owners
<1>11. /\ fd_array' \in [FD -> Descriptor(Owners)] /\ fd_array'[fd] = f
       /\ \A other \in FD \ {fd} : fd_array'[other].owner = UNUSED
  BY <1>1, <1>4, <1>6, <1>7, <1>10 DEF NoneOpen
<1>12. <<>> \in Seq(Pieces) /\ <<>> \o Rest(item, 0) = Rest(item, 0)
  <2>1. 0 \in 0 .. Extent(item)
    BY <1>3, ExtentIs
  <2>2. Rest(item, 0) \in Seq(Pieces)
    BY <1>3, <2>1, RestIs
  <2>3. QED
    BY <2>2
<1>13. Opened(fd, shell.shown)'
  <2>1. FindName(shell'.path) = item /\ shell'.shown = <<>>
    BY <1>1, <1>2, <1>9
  <2>2. /\ fd_array'[fd].owner = PROC_SHELL /\ fd_array'[fd].item = item
        /\ fd_array'[fd].offset = 0 /\ WithinExtent(fd_array'[fd], Owners)
    BY <1>10, <1>11
  <2>3. QED
    BY <1>3, <1>6, <1>11, <1>12, <2>1, <2>2 DEF Opened
<1>14. Answers(e)'
  BY <1>1, <1>8, <1>9, <1>13 DEF Answers, Reading
<1>15. QED
  BY <1>7, <1>8, <1>11, <1>14, FileReplyKeeps

LEMMA ReadKeeps ==
  ASSUME Machine, Standing, Session, NEW d, FileAsked(d), d.code = READ_OBJ,
         LET r == ReadObj(fd_array, d.fd, PROC_SHELL)
         IN  FileReply(r, d.fd, [piece |-> r.data]) /\ fd_array' = r.fds
  PROVE  Session' /\ \E to \in Pid, e \in Messages : MsgSnd(to, e)
<1>1. shell.at = "read" /\ Opened(d.fd, shell.shown) /\ d \in Messages
  BY DEF FileAsked, AsksFor, Reading, CHK_OBJ, OPEN_OBJ, READ_OBJ, CLOSE_OBJ
<1>2. PICK item, fd, shown, f : /\ item = FindName(shell.path) /\ fd = d.fd
                                /\ shown = shell.shown /\ f = fd_array[fd]
  OBVIOUS
<1>3. /\ fd \in FD /\ item \in Item /\ f.owner = PROC_SHELL /\ f.item = item /\ item # NULL
      /\ WithinExtent(f, Owners) /\ f \in Descriptor(Owners)
      /\ f.offset \in 0 .. Extent(item)
      /\ fd_array = [h \in FD |-> fd_array[h]]
  BY <1>1, <1>2, OpenedIs, FileAssumption
<1>4. /\ fd_array \in [FD -> Descriptor(Owners)]
      /\ shown \in Seq(Pieces)
      /\ shown \o Rest(item, f.offset) = Rest(item, 0)
      /\ \A other \in FD \ {fd} : fd_array[other].owner = UNUSED
  BY <1>1, <1>2 DEF Opened, Session
<1> DEFINE r == ReadObj(fd_array, fd, PROC_SHELL)
           before == Rest(item, f.offset)
<1>5. Reads(r, fd_array, fd)
  <2>1. DOMAIN fd_array = FD
    BY <1>4
  <2>2. QED
    BY <1>2, <1>3, <2>1, ReadObjIs
<1>6. PICK o \in 0 .. Extent(item) :
        r.fds = MovedTo(fd_array, fd, o) /\ Returned(r, before, Rest(item, o))
  BY <1>2, <1>3, <1>5 DEF Reads
<1> DEFINE after == Rest(item, o)
<1>7. before \in Seq(Pieces) /\ after \in Seq(Pieces)
  BY <1>3, RestIs
<1> DEFINE m == [code |-> r.code, fd |-> fd,
                 body |-> IF r.code = GOOD THEN [piece |-> r.data] ELSE d.body]
<1>8. Return(PROC_FILE, m) /\ fd_array' = MovedTo(fd_array, fd, o)
  <2>1. inbox[PROC_FILE].data = d
    BY DEF FileAsked
  <2>2. QED
    BY <1>2, <1>6, <2>1 DEF FileReply
<1>9. PICK e : e = m
  OBVIOUS
<1>10. shell' = shell
  BY <1>8 DEF Return
<1> DEFINE g == [f EXCEPT !.offset = o]
<1>11. g \in Descriptor(Owners) /\ g.owner = f.owner /\ g.item = f.item /\ g.offset = o
  BY <1>3 DEF Descriptor
<1>12. WithinExtent(g, Owners)
  BY <1>3, <1>11, ExtentIs DEF WithinExtent
<1>13. fd_array' = [fd_array EXCEPT ![fd] = g]
  BY <1>2, <1>8 DEF MovedTo
<1> HIDE DEF g
<1>14. /\ fd_array' \in [FD -> Descriptor(Owners)] /\ fd_array'[fd] = g
       /\ \A other \in FD \ {fd} : fd_array'[other].owner = UNUSED
  BY <1>3, <1>4, <1>11, <1>13
<1>15. ASSUME NEW s \in Seq(Pieces), s \o after = Rest(item, 0)
       PROVE  Opened(fd, s)'
  BY <1>2, <1>3, <1>10, <1>11, <1>12, <1>14, <1>15 DEF Opened
<1> HIDE DEF r, before, after
<1>16. CASE before # <<>> /\ r.code = GOOD /\ r.data = Head(before) /\ after = Tail(before)
  <2> DEFINE piece == Head(before)
  <2>1. piece \in Pieces /\ e = [code |-> GOOD, fd |-> fd, body |-> [piece |-> piece]]
    BY <1>7, <1>9, <1>16
  <2>2. /\ Append(shown, piece) \in Seq(Pieces)
        /\ Append(shown, piece) \o after = shown \o before
    BY <1>4, <1>7, <1>16, MovesOver
  <2>3. shown \o before = Rest(item, 0)
    BY <1>4 DEF before
  <2> HIDE DEF piece
  <2>4. e \in Messages
    <3>1. [piece |-> piece] \in Bodies /\ GOOD \in Int
      BY <2>1 DEF Bodies, GOOD
    <3>2. QED
      BY <1>3, <2>1, <3>1 DEF Messages
  <2>5. Opened(fd, Append(shown, piece))'
    BY <1>15, <2>2, <2>3
  <2>6. Opened(e.fd, Append(shown, e.body.piece))'
    BY <2>1, <2>5
  <2>7. Answers(e)'
    BY <1>1, <1>2, <1>10, <2>1, <2>6 DEF Answers, Reading
  <2>8. QED
    BY <1>8, <1>9, <1>14, <2>4, <2>7, FileReplyKeeps
<1>17. CASE before = <<>> /\ r.code = FM_EOF /\ after = <<>>
  <2>1. e = [code |-> FM_EOF, fd |-> fd, body |-> d.body] /\ FM_EOF # GOOD /\ FM_EOF \in Int
    BY <1>9, <1>17 DEF FM_EOF, GOOD
  <2>2. e \in Messages
    BY <1>1, <1>3, <2>1 DEF Messages
  <2>3. shown = Rest(item, 0) /\ shown \o after = Rest(item, 0)
    BY <1>4, <1>17 DEF before
  <2>4. Opened(fd, shown)'
    BY <1>4, <1>15, <2>3
  <2>5. Answers(e)'
    BY <1>1, <1>2, <1>10, <2>1, <2>3, <2>4 DEF Answers, AllShown, Reading
  <2>6. QED
    BY <1>8, <1>9, <1>14, <2>2, <2>5, FileReplyKeeps
<1>18. QED
  BY <1>6, <1>16, <1>17 DEF Returned, before, after

LEMMA CloseKeeps ==
  ASSUME Machine, Standing, Session, NEW d, FileAsked(d), d.code = CLOSE_OBJ,
         LET r == CloseObj(fd_array, d.fd, PROC_SHELL)
         IN  FileReply(r, d.fd, d.body) /\ fd_array' = r.fds
  PROVE  Session' /\ \E to \in Pid, e \in Messages : MsgSnd(to, e)
<1>1. /\ shell.at = "close" /\ Opened(d.fd, shell.shown) /\ AllShown /\ d \in Messages
  BY DEF FileAsked, AsksFor, Reading, CHK_OBJ, OPEN_OBJ, READ_OBJ, CLOSE_OBJ
<1>2. d.fd \in FD /\ fd_array[d.fd].owner = PROC_SHELL
  BY <1>1, OpenedIs
<1>3. /\ fd_array \in [FD -> Descriptor(Owners)]
      /\ \A other \in FD \ {d.fd} : fd_array[other].owner = UNUSED
  BY <1>1 DEF Opened, Session
<1> DEFINE r == CloseObj(fd_array, d.fd, PROC_SHELL)
           e == [code |-> GOOD, fd |-> d.fd, body |-> d.body]
<1>4. r.code = GOOD /\ r.fds = Freed(fd_array, d.fd)
  BY <1>2, CloseIs DEF CanAccessFD
<1>5. Return(PROC_FILE, e) /\ fd_array' = Freed(fd_array, d.fd)
  <2>1. inbox[PROC_FILE].data = d
    BY DEF FileAsked
  <2>2. QED
    BY <1>4, <2>1 DEF FileReply
<1>6. e \in Messages /\ e.code = GOOD
  BY <1>1, <1>2 DEF Messages, GOOD
<1> HIDE DEF e, r
<1>7. shell' = shell
  BY <1>5 DEF Return
<1>8. fd_array' \in [FD -> Descriptor(Owners)] /\ NoneOpen'
  BY <1>2, <1>3, <1>5 DEF Freed, NoneOpen, Descriptor, Owners
<1>9. Answers(e)'
  BY <1>1, <1>6, <1>7, <1>8 DEF Answers, AllShown, Reading
<1>10. QED
  BY <1>5, <1>6, <1>8, <1>9, FileReplyKeeps

(***************************************************************************)
(* A step of a server.                                                     *)
(***************************************************************************)
Serving ==
  /\ running_pid \in Servers
  /\ \/ MsgRcv /\ serving' = serving \cup {running_pid}
     \/ /\ \E to \in Pid, e \in Messages : MsgSnd(to, e)
        /\ serving' = serving \ {running_pid}
  /\ UNCHANGED <<shell, program, table>>

LEMMA ServeIs ==
  ASSUME Machine, Standing, Session, NEW p \in Servers, Serve(p)
  PROVE  Session' /\ Serving
BY ServeKeeps DEF Serve, Serving, Running

LEMMA ReturnIs ==
  ASSUME NEW p \in Servers, NEW m, Return(p, m),
         \E to \in Pid, e \in Messages : MsgSnd(to, e)
  PROVE  Serving
BY DEF Return, Serving, Running

LEMMA FileServiceKeeps ==
  ASSUME Machine, Standing, Session, FileService
  PROVE  Session' /\ Serving
<1> DEFINE m == inbox[PROC_FILE].data
           Sends == \E to \in Pid, e \in Messages : MsgSnd(to, e)
<1>1. PROC_FILE \in Servers
  BY DEF Servers
<1>2. CASE Serve(PROC_FILE)
  BY <1>1, <1>2, ServeIs
<1>3. CASE /\ Asked(CHK_OBJ)
           /\ LET r == ChkObj(m.body.path)
              IN  FileReply(r, m.fd, [object |-> r.data]) /\ UNCHANGED fd_array
  <2>1. PICK d : FileAsked(d) /\ d.code = CHK_OBJ
    BY <1>3, AskedFor
  <2>2. m = d
    BY <2>1 DEF FileAsked
  <2>3. Session' /\ Sends
    BY <1>3, <2>1, <2>2, ChkKeeps
  <2>4. QED
    BY <1>1, <1>3, <2>3, ReturnIs DEF FileReply
<1>4. CASE /\ Asked(OPEN_OBJ)
           /\ LET r == OpenObj(fd_array, m.body.path, inbox[PROC_FILE].sender)
              IN  FileReply(r, r.fd, m.body) /\ fd_array' = r.fds
  <2>1. PICK d : FileAsked(d) /\ d.code = OPEN_OBJ
    BY <1>4, AskedFor
  <2>2. m = d /\ inbox[PROC_FILE].sender = PROC_SHELL
    BY <2>1 DEF FileAsked
  <2>3. Session' /\ Sends
    BY <1>4, <2>1, <2>2, OpenKeeps
  <2>4. QED
    BY <1>1, <1>4, <2>3, ReturnIs DEF FileReply
<1>5. CASE /\ Asked(READ_OBJ)
           /\ LET r == ReadObj(fd_array, m.fd, inbox[PROC_FILE].sender)
              IN  FileReply(r, m.fd, [piece |-> r.data]) /\ fd_array' = r.fds
  <2>1. PICK d : FileAsked(d) /\ d.code = READ_OBJ
    BY <1>5, AskedFor
  <2>2. m = d /\ inbox[PROC_FILE].sender = PROC_SHELL
    BY <2>1 DEF FileAsked
  <2>3. Session' /\ Sends
    BY <1>5, <2>1, <2>2, ReadKeeps
  <2>4. QED
    BY <1>1, <1>5, <2>3, ReturnIs DEF FileReply
<1>6. CASE /\ Asked(CLOSE_OBJ)
           /\ LET r == CloseObj(fd_array, m.fd, inbox[PROC_FILE].sender)
              IN  FileReply(r, m.fd, m.body) /\ fd_array' = r.fds
  <2>1. PICK d : FileAsked(d) /\ d.code = CLOSE_OBJ
    BY <1>6, AskedFor
  <2>2. m = d /\ inbox[PROC_FILE].sender = PROC_SHELL
    BY <2>1 DEF FileAsked
  <2>3. Session' /\ Sends
    BY <1>6, <2>1, <2>2, CloseKeeps
  <2>4. QED
    BY <1>1, <1>6, <2>3, ReturnIs DEF FileReply
<1>7. QED
  BY <1>2, <1>3, <1>4, <1>5, <1>6 DEF FileService

LEMMA ServersKeep ==
  ASSUME Machine, Standing, Session, FileService \/ StdinProc \/ StdoutProc
  PROVE  Session' /\ Serving
<1>1. PROC_STDIN \in Servers /\ PROC_STDOUT \in Servers
  BY DEF Servers
<1>2. CASE FileService
  BY <1>2, FileServiceKeeps
<1>3. CASE Serve(PROC_STDIN) \/ Serve(PROC_STDOUT)
  BY <1>1, <1>3, ServeIs
<1>4. CASE /\ Return(PROC_STDOUT, Printed(inbox[PROC_STDOUT].data)) /\ UNCHANGED fd_array
  BY <1>1, <1>4, StdoutKeeps, ReturnIs
<1>5. CASE /\ Running(PROC_STDIN) /\ PROC_STDIN \in serving
           /\ \E line \in Lines[shell.at] :
                Return(PROC_STDIN, [inbox[PROC_STDIN].data EXCEPT !.body = line])
           /\ UNCHANGED fd_array
  BY <1>1, <1>5, StdinKeeps, ReturnIs DEF Running
<1>6. QED
  BY <1>2, <1>3, <1>4, <1>5 DEF StdinProc, StdoutProc

-----------------------------------------------------------------------------
(***************************************************************************)
(* Queues in which a process of main() is but once.                        *)
(***************************************************************************)
LEMMA OnceEnQ ==
  ASSUME NEW q \in Seq(Pid), NEW x \in Pid, Once(q), x \in System => x \notin Range(q)
  PROVE  /\ EnQ(x, q) \in Seq(Pid) /\ Once(EnQ(x, q))
         /\ Range(EnQ(x, q)) \subseteq Range(q) \cup {x}
<1>1. CASE Len(q) < Q_LEN
  <2>1. EnQ(x, q) = Append(q, x)
    BY <1>1 DEF EnQ
  <2>2. /\ Append(q, x) \in Seq(Pid) /\ Len(q) \in Nat
        /\ \A i \in 1 .. Len(q) : Append(q, x)[i] = q[i]
        /\ Append(q, x)[Len(q) + 1] = x
        /\ DOMAIN Append(q, x) = 1 .. Len(q) + 1 /\ DOMAIN q = 1 .. Len(q)
    BY AppendProperties, LenProperties
  <2>3. Once(Append(q, x))
    BY <2>2 DEF Once, Range
  <2>4. Range(Append(q, x)) \subseteq Range(q) \cup {x}
    BY <2>2 DEF Range
  <2>5. QED
    BY <2>1, <2>2, <2>3, <2>4
<1>2. CASE ~(Len(q) < Q_LEN)
  BY <1>2 DEF EnQ
<1>3. QED
  BY <1>1, <1>2

LEMMA OnceTail ==
  ASSUME NEW q \in Seq(Pid), q # <<>>, Once(q)
  PROVE  /\ Head(q) \in Range(q) /\ Range(Tail(q)) \subseteq Range(q) /\ Once(Tail(q))
         /\ Head(q) \in System => Head(q) \notin Range(Tail(q))
<1>1. /\ Len(Tail(q)) = Len(q) - 1 /\ Len(q) \in Nat \ {0}
      /\ \A i \in 1 .. Len(Tail(q)) : Tail(q)[i] = q[i + 1]
      /\ Head(q) = q[1]
      /\ DOMAIN q = 1 .. Len(q) /\ DOMAIN Tail(q) = 1 .. Len(q) - 1
  BY HeadTailProperties, LenProperties, EmptySeq
<1>2. Once(Tail(q))
  <2>1. SUFFICES ASSUME NEW i \in DOMAIN Tail(q), NEW j \in DOMAIN Tail(q),
                        Tail(q)[i] = Tail(q)[j], Tail(q)[i] \in System
                 PROVE  i = j
    BY DEF Once
  <2>2. i + 1 \in DOMAIN q /\ j + 1 \in DOMAIN q /\ q[i + 1] = q[j + 1] /\ q[i + 1] \in System
    BY <1>1, <2>1
  <2>3. i + 1 = j + 1
    BY <2>2 DEF Once
  <2>4. QED
    BY <1>1, <2>3
<1>3. ASSUME Head(q) \in System PROVE Head(q) \notin Range(Tail(q))
  <2>1. SUFFICES ASSUME NEW i \in DOMAIN Tail(q), Tail(q)[i] = Head(q) PROVE FALSE
    BY DEF Range
  <2>2. i + 1 \in DOMAIN q /\ 1 \in DOMAIN q /\ q[i + 1] = q[1] /\ i + 1 # 1
    BY <1>1, <2>1
  <2>3. QED
    BY <1>1, <1>3, <2>2 DEF Once
<1>4. Head(q) \in Range(q) /\ Range(q) = {Head(q)} \cup Range(Tail(q))
  BY TailRemoves
<1>5. QED
  BY <1>2, <1>3, <1>4

LEMMA OnceSelect ==
  ASSUME NEW q \in Seq(Pid), NEW S, Once(q)
  PROVE  /\ Select(q, S) \in Seq(Pid) /\ Once(Select(q, S))
         /\ Range(Select(q, S)) = Range(q) \cap S
<1>1. \A k, m \in DOMAIN Select(q, S) : k # m =>
        \E i, j \in DOMAIN q : i # j /\ Select(q, S)[k] = q[i] /\ Select(q, S)[m] = q[j]
  BY SelectSelects
<1>2. Once(Select(q, S))
  BY <1>1 DEF Once
<1>3. Select(q, S) \in Seq(Pid) /\ Range(Select(q, S)) = Range(q) \cap S
  BY SelectSelects
<1>4. QED
  BY <1>2, <1>3

(* Those woken are lost if there is no room for them; none is queued twice. *)
LEMMA OnceEnQAll ==
  ASSUME NEW q \in Seq(Pid), NEW s \in Seq(Pid), Once(q), Once(s),
         \A p \in System : ~(p \in Range(q) /\ p \in Range(s))
  PROVE  /\ EnQAll(s, q) \in Seq(Pid) /\ Once(EnQAll(s, q))
         /\ Range(EnQAll(s, q)) \subseteq Range(q) \cup Range(s)
<1> DEFINE all == q \o s
<1>1. /\ all \in Seq(Pid) /\ Len(all) = Len(q) + Len(s)
      /\ \A i \in 1 .. Len(q) + Len(s) :
           all[i] = IF i <= Len(q) THEN q[i] ELSE s[i - Len(q)]
      /\ DOMAIN all = 1 .. Len(q) + Len(s)
      /\ DOMAIN q = 1 .. Len(q) /\ Len(q) \in Nat
      /\ DOMAIN s = 1 .. Len(s) /\ Len(s) \in Nat
  BY ConcatProperties, LenProperties
<1>2. Range(all) = Range(q) \cup Range(s)
  BY RangeConcatenation
<1>3. EnQAll(s, q) \in Seq(Pid)
  BY EnQAllAdds
<1> HIDE DEF all
<1>4. Once(all)
  <2>1. SUFFICES ASSUME NEW i \in DOMAIN all, NEW j \in DOMAIN all,
                        all[i] = all[j], all[i] \in System
                 PROVE  i = j
    BY DEF Once
  <2>2. CASE i <= Len(q) /\ j <= Len(q)
    BY <1>1, <2>1, <2>2 DEF Once
  <2>3. CASE ~(i <= Len(q)) /\ ~(j <= Len(q))
    <3>1. i - Len(q) \in DOMAIN s /\ j - Len(q) \in DOMAIN s
      BY <1>1, <2>3
    <3>2. s[i - Len(q)] = s[j - Len(q)] /\ s[i - Len(q)] \in System
      BY <1>1, <2>1, <2>3
    <3>3. i - Len(q) = j - Len(q)
      BY <3>1, <3>2 DEF Once
    <3>4. QED
      BY <1>1, <3>3
  <2>4. CASE i <= Len(q) /\ ~(j <= Len(q))
    <3>1. i \in DOMAIN q /\ j - Len(q) \in DOMAIN s /\ q[i] = s[j - Len(q)]
          /\ q[i] \in System
      BY <1>1, <2>1, <2>4
    <3>2. QED
      BY <3>1 DEF Range
  <2>5. CASE ~(i <= Len(q)) /\ j <= Len(q)
    <3>1. j \in DOMAIN q /\ i - Len(q) \in DOMAIN s /\ q[j] = s[i - Len(q)]
          /\ q[j] \in System
      BY <1>1, <2>1, <2>5
    <3>2. QED
      BY <3>1 DEF Range
  <2>6. QED
    BY <2>2, <2>3, <2>4, <2>5
<1>5. CASE Len(q) + Len(s) <= Q_LEN
  <2>1. EnQAll(s, q) = all
    BY <1>5 DEF EnQAll, all
  <2>2. QED
    BY <1>2, <1>3, <1>4, <2>1
<1>6. CASE ~(Len(q) + Len(s) <= Q_LEN)
  <2>1. EnQAll(s, q) = SubSeq(all, 1, Q_LEN) /\ Q_LEN \in Nat
    BY <1>6, QueueAssumption DEF EnQAll, all
  <2>2. /\ DOMAIN SubSeq(all, 1, Q_LEN) = 1 .. Q_LEN
        /\ \A i \in 1 .. Q_LEN : SubSeq(all, 1, Q_LEN)[i] = all[i] /\ i \in DOMAIN all
    BY <1>1, <1>6, <2>1
  <2>3. Once(SubSeq(all, 1, Q_LEN)) /\ Range(SubSeq(all, 1, Q_LEN)) \subseteq Range(all)
    BY <1>4, <2>2 DEF Once, Range
  <2>4. QED
    BY <1>2, <1>3, <2>1, <2>3
<1>7. QED
  BY <1>5, <1>6

-----------------------------------------------------------------------------
(***************************************************************************)
(* What Scheduler() and the handlers do to the processes of main().        *)
(***************************************************************************)

(* st are the states as the handler leaves them.                            *)
Steady(st) ==
  /\ \A p \in System :
       /\ st[p] # "READY" => state'[p] = st[p]
       /\ st[p] = "READY" => state'[p] \in {"READY", "RUN"}
  /\ \A p \in Pid : state'[p] = "ZOMBIE" => st[p] = "ZOMBIE"

LEMMA SchedulerOrders ==
  ASSUME NEW run \in Pid \cup {NONE}, NEW rq \in Seq(Pid), NEW sq,
         NEW st \in [Pid -> State], Ordered(run, rq, sq, st), Scheduler(run, rq, st)
  PROVE  Ordered(running_pid', ready_q', sq, state') /\ Steady(st)
<1>1. 0 \notin System /\ 0 \in Pid /\ NONE \notin System /\ System \subseteq Pid
      /\ \A p \in System : p > 0
  BY SystemFacts, PidFacts
<1>2. CASE run > 0
  <2>1. running_pid' = run /\ ready_q' = rq /\ state' = st
    BY <1>2, PidFacts DEF Scheduler, NONE
  <2>2. QED
    BY <2>1 DEF Ordered, Steady
<1>3. CASE ~(run > 0) /\ rq # <<>>
  <2> DEFINE h == Head(rq)
  <2>1. running_pid' = h /\ ready_q' = Tail(rq)
        /\ state' = [st EXCEPT ![0] = IF run = 0 THEN "READY" ELSE @, ![h] = "RUN"]
    BY <1>3, PidFacts DEF Scheduler
  <2>2. /\ h \in Pid /\ h \in Range(rq) /\ Range(Tail(rq)) \subseteq Range(rq)
        /\ Once(Tail(rq)) /\ (h \in System => h \notin Range(Tail(rq)))
    BY <1>3, OnceTail, TailRemoves DEF Ordered
  <2>3. \A p \in System : st[p] # "RUN"
    BY <1>1, <1>3 DEF Ordered
  <2> HIDE DEF h
  <2>4. /\ \A p \in System : state'[p] = IF p = h THEN "RUN" ELSE st[p]
        /\ \A p \in Pid : state'[p] = "ZOMBIE" => st[p] = "ZOMBIE"
    BY <1>1, <2>1, <2>2
  <2>5. \A p \in System : p = h => st[p] = "READY" /\ p \notin Range(sq)
    BY <2>2 DEF Ordered
  <2>6. Steady(st)
    BY <2>4, <2>5 DEF Steady
  <2>7. Ordered(running_pid', ready_q', sq, state')
    <3>1. SUFFICES ASSUME NEW p \in System
                   PROVE  /\ state'[p] \in Live
                          /\ state'[p] = "RUN" <=> running_pid' = p
                          /\ p \in Range(ready_q') => state'[p] = "READY"
                          /\ p \in Range(sq) => state'[p] = "SLEEP"
      BY <2>1, <2>2 DEF Ordered
    <3>2. CASE p = h
      BY <2>1, <2>2, <2>4, <2>5, <3>2 DEF Live
    <3>3. CASE p # h
      BY <2>1, <2>2, <2>3, <2>4, <3>3 DEF Ordered
    <3>4. QED
      BY <3>2, <3>3
  <2>8. QED
    BY <2>6, <2>7
<1>4. CASE ~(run > 0) /\ rq = <<>>
  <2>1. running_pid' = 0 /\ ready_q' = rq /\ state' = [st EXCEPT ![0] = "RUN"]
    BY <1>4, PidFacts DEF Scheduler
  <2>2. \A p \in System : state'[p] = st[p] /\ st[p] # "RUN" /\ running_pid' # p
    BY <1>1, <1>4, <2>1 DEF Ordered
  <2>3. \A p \in Pid : state'[p] = "ZOMBIE" => st[p] = "ZOMBIE"
    BY <2>1
  <2>4. QED
    BY <2>1, <2>2, <2>3 DEF Ordered, Steady
<1>5. QED
  BY <1>2, <1>3, <1>4

LEMMA ResumeOrders ==
  ASSUME TypeOK, Processes, Resume, sleep_q' = sleep_q
  PROVE  Processes' /\ Steady(state)
<1>1. /\ running_pid \in Pid \cup {NONE} /\ ready_q \in Seq(Pid)
      /\ state \in [Pid -> State]
  BY DEF TypeOK
<1>2. QED
  BY <1>1, SchedulerOrders DEF Processes, Resume

(* The caller waits for s; if it sleeps, in sleep_q.                        *)
LEMMA BlockOrders ==
  ASSUME TypeOK, Processes, running_pid > 0,
         NEW s \in {"SLEEP", "WAIT", "FORKWAIT", "ZOMBIE"},
         running_pid \in System => s # "ZOMBIE", Block(s),
         sleep_q' = sleep_q \/ (s = "SLEEP" /\ sleep_q' = EnQ(running_pid, sleep_q))
  PROVE  Processes' /\ Steady([state EXCEPT ![running_pid] = s])
<1> DEFINE st == [state EXCEPT ![running_pid] = s]
<1>1. /\ running_pid \in Pid /\ ready_q \in Seq(Pid) /\ NONE \in Pid \cup {NONE}
      /\ state \in [Pid -> State] /\ System \subseteq Pid /\ sleep_q \in Seq(Pid)
      /\ \A p \in System : p # NONE
  BY SystemFacts DEF TypeOK
<1>2. st \in [Pid -> State] /\ st[running_pid] = s
      /\ \A p \in Pid : p # running_pid => st[p] = state[p]
  BY <1>1 DEF State
<1>3. Scheduler(NONE, ready_q, st)
  BY DEF Block
<1>4. running_pid \in System => /\ state[running_pid] = "RUN"
                                /\ running_pid \notin Range(sleep_q)
                                /\ running_pid \notin Range(ready_q)
  BY DEF Processes, Ordered
<1>5. /\ Once(sleep_q') /\ Range(sleep_q') \subseteq Range(sleep_q) \cup {running_pid}
      /\ s # "SLEEP" => Range(sleep_q') = Range(sleep_q)
  BY <1>1, <1>4, OnceEnQ DEF Processes, Ordered
<1> HIDE DEF st
<1>6. Ordered(NONE, ready_q, sleep_q', st)
  <2>1. SUFFICES ASSUME NEW p \in System
                 PROVE  /\ st[p] \in Live /\ st[p] # "RUN"
                        /\ p \in Range(ready_q) => st[p] = "READY"
                        /\ p \in Range(sleep_q') => st[p] = "SLEEP"
    BY <1>1, <1>5 DEF Processes, Ordered
  <2>2. CASE p = running_pid
    BY <1>2, <1>4, <1>5, <2>2 DEF Live
  <2>3. CASE p # running_pid
    BY <1>1, <1>2, <1>5, <2>1, <2>3 DEF Processes, Ordered
  <2>4. QED
    BY <2>2, <2>3
<1>7. Ordered(running_pid', ready_q', sleep_q', state') /\ Steady(st)
  BY <1>1, <1>2, <1>3, <1>6, SchedulerOrders
<1>8. QED
  BY <1>7 DEF Processes, st

(* A process of main() that is made ready has waited in no queue of these.  *)
LEMMA WakeOrders ==
  ASSUME TypeOK, Processes, NEW p \in Pid,
         p \in System => state[p] \in {"WAIT", "FORKWAIT"}, Wake(p), sleep_q' = sleep_q
  PROVE  Processes' /\ Steady([state EXCEPT ![p] = "READY"])
<1> DEFINE st == [state EXCEPT ![p] = "READY"]
           rq == EnQ(p, ready_q)
<1>1. /\ running_pid \in Pid \cup {NONE} /\ ready_q \in Seq(Pid)
      /\ state \in [Pid -> State] /\ System \subseteq Pid
  BY SystemFacts DEF TypeOK
<1>2. st \in [Pid -> State] /\ st[p] = "READY" /\ \A q \in Pid : q # p => st[q] = state[q]
  BY <1>1 DEF State
<1>3. p \in System => /\ p # running_pid /\ p \notin Range(ready_q)
                      /\ p \notin Range(sleep_q)
  BY DEF Processes, Ordered
<1>4. rq \in Seq(Pid) /\ Once(rq) /\ Range(rq) \subseteq Range(ready_q) \cup {p}
  BY <1>1, <1>3, OnceEnQ DEF Processes, Ordered
<1>5. Scheduler(running_pid, rq, st)
  BY DEF Wake
<1> HIDE DEF st, rq
<1>6. Ordered(running_pid, rq, sleep_q, st)
  <2>1. SUFFICES ASSUME NEW q \in System
                 PROVE  /\ st[q] \in Live
                        /\ st[q] = "RUN" <=> running_pid = q
                        /\ q \in Range(rq) => st[q] = "READY"
                        /\ q \in Range(sleep_q) => st[q] = "SLEEP"
    BY <1>4 DEF Processes, Ordered
  <2>2. CASE q = p
    BY <1>2, <1>3, <2>1, <2>2 DEF Live
  <2>3. CASE q # p
    BY <1>1, <1>2, <1>4, <2>1, <2>3 DEF Processes, Ordered
  <2>4. QED
    BY <2>2, <2>3
<1>7. QED
  BY <1>1, <1>2, <1>4, <1>5, <1>6, SchedulerOrders DEF Processes, st

(* A tick wakes the sleepers that are due.                                  *)
LEMMA TickOrders ==
  ASSUME TypeOK, Processes, Timer
  PROVE  /\ Processes'
         /\ \A p \in System : state[p] \in {"WAIT", "FORKWAIT"} <=>
                              state'[p] \in {"WAIT", "FORKWAIT"}
         /\ \A p \in System : state[p] \in {"WAIT", "FORKWAIT"} => state'[p] = state[p]
         /\ \A p \in Pid : state'[p] = "ZOMBIE" => state[p] = "ZOMBIE"
<1>1. /\ running_pid \in Pid /\ ready_q \in Seq(Pid) /\ sleep_q \in Seq(Pid)
      /\ state \in [Pid -> State] /\ System \subseteq Pid
      /\ \A p \in System : p > 0 /\ p # NONE
  BY SystemFacts DEF TypeOK
<1>2. ASSUME NEW run \in Pid \cup {NONE}, NEW rq \in Seq(Pid), NEW st \in [Pid -> State],
             Ordered(run, rq, sleep_q, st), WakeSleepers(run, rq, st)
      PROVE  /\ Processes'
             /\ \A p \in System : st[p] # "READY" /\ st[p] # "SLEEP" => state'[p] = st[p]
             /\ \A p \in System : st[p] = "READY" \/ st[p] = "SLEEP" =>
                  state'[p] \in {"READY", "RUN", "SLEEP"}
             /\ \A p \in Pid : state'[p] = "ZOMBIE" => st[p] = "ZOMBIE"
  <2> DEFINE woken == Select(sleep_q, Due)
             stay == Select(sleep_q, Pid \ Due)
             marked == [p \in Pid |-> IF p \in Range(woken) THEN "READY" ELSE st[p]]
  <2>1. /\ woken \in Seq(Pid) /\ Once(woken) /\ Range(woken) = Range(sleep_q) \cap Due
        /\ stay \in Seq(Pid) /\ Once(stay) /\ Range(stay) = Range(sleep_q) \cap (Pid \ Due)
    BY <1>1, <1>2, OnceSelect DEF Ordered
  <2>2. /\ sleep_q' = stay /\ Scheduler(run, EnQAll(woken, rq), marked)
    BY <1>2 DEF WakeSleepers
  <2>3. marked \in [Pid -> State]
    BY DEF State
  <2>4. \A p \in Pid : marked[p] = IF p \in Range(woken) THEN "READY" ELSE st[p]
    OBVIOUS
  <2> HIDE DEF woken, stay, marked
  <2>5. \A p \in System : p \in Range(woken) => st[p] = "SLEEP" /\ p \notin Range(rq)
    BY <1>2, <2>1 DEF Ordered
  <2>6. /\ EnQAll(woken, rq) \in Seq(Pid) /\ Once(EnQAll(woken, rq))
        /\ Range(EnQAll(woken, rq)) \subseteq Range(rq) \cup Range(woken)
    BY <1>2, <2>1, <2>5, OnceEnQAll DEF Ordered
  <2>7. Ordered(run, EnQAll(woken, rq), stay, marked)
    <3>1. SUFFICES ASSUME NEW p \in System
                   PROVE  /\ marked[p] \in Live
                          /\ marked[p] = "RUN" <=> run = p
                          /\ p \in Range(EnQAll(woken, rq)) => marked[p] = "READY"
                          /\ p \in Range(stay) => marked[p] = "SLEEP"
      BY <2>1, <2>6 DEF Ordered
    <3>2. CASE p \in Range(woken)
      BY <1>1, <1>2, <2>1, <2>4, <2>5, <3>1, <3>2 DEF Ordered, Live
    <3>3. CASE p \notin Range(woken)
      BY <1>1, <1>2, <2>1, <2>4, <2>6, <3>1, <3>3 DEF Ordered
    <3>4. QED
      BY <3>2, <3>3
  <2>8. Ordered(running_pid', ready_q', stay, state') /\ Steady(marked)
    BY <2>2, <2>3, <2>6, <2>7, SchedulerOrders
  <2>9. QED
    BY <1>1, <2>2, <2>4, <2>5, <2>8 DEF Steady, Processes
<1>3. CASE SliceOver
  <2> DEFINE st == [state EXCEPT ![running_pid] = "READY"]
             rq == EnQ(running_pid, ready_q)
  <2>1. WakeSleepers(NONE, rq, st)
    BY <1>3 DEF Timer
  <2>2. /\ st \in [Pid -> State] /\ st[running_pid] = "READY"
        /\ \A p \in Pid : p # running_pid => st[p] = state[p]
    BY <1>1 DEF State
  <2>3. running_pid \in System => /\ running_pid \notin Range(ready_q)
                                  /\ running_pid \notin Range(sleep_q)
                                  /\ state[running_pid] = "RUN"
    BY DEF Processes, Ordered
  <2>4. rq \in Seq(Pid) /\ Once(rq) /\ Range(rq) \subseteq Range(ready_q) \cup {running_pid}
    BY <1>1, <2>3, OnceEnQ DEF Processes, Ordered
  <2> HIDE DEF st, rq
  <2>5. Ordered(NONE, rq, sleep_q, st)
    <3>1. SUFFICES ASSUME NEW p \in System
                   PROVE  /\ st[p] \in Live /\ st[p] # "RUN"
                          /\ p \in Range(rq) => st[p] = "READY"
                          /\ p \in Range(sleep_q) => st[p] = "SLEEP"
      BY <1>1, <2>4 DEF Processes, Ordered
    <3>2. CASE p = running_pid
      BY <2>2, <2>3, <3>1, <3>2 DEF Live
    <3>3. CASE p # running_pid
      BY <1>1, <2>2, <2>4, <3>1, <3>3 DEF Processes, Ordered
    <3>4. QED
      BY <3>2, <3>3
  <2>6. NONE \in Pid \cup {NONE}
    OBVIOUS
  <2>7. /\ Processes'
        /\ \A p \in System : st[p] # "READY" /\ st[p] # "SLEEP" => state'[p] = st[p]
        /\ \A p \in System : st[p] = "READY" \/ st[p] = "SLEEP" =>
             state'[p] \in {"READY", "RUN", "SLEEP"}
        /\ \A p \in Pid : state'[p] = "ZOMBIE" => st[p] = "ZOMBIE"
    BY <1>2, <2>1, <2>2, <2>4, <2>5, <2>6
  <2>8. \A p \in System : \/ st[p] = state[p]
                          \/ st[p] = "READY" /\ state[p] = "RUN"
    BY <1>1, <2>2, <2>3
  <2>9. \A p \in System : st[p] \in Live
    BY <2>5 DEF Ordered
  <2>10. \A p \in Pid : st[p] = "ZOMBIE" => state[p] = "ZOMBIE"
    BY <2>2
  <2>11. QED
    BY <2>7, <2>8, <2>9, <2>10 DEF Live
<1>4. CASE ~SliceOver
  <2>1. WakeSleepers(running_pid, ready_q, state)
    BY <1>4 DEF Timer
  <2>2. \A p \in System : state[p] \in Live
    BY DEF Processes, Ordered
  <2>3. QED
    BY <1>1, <1>2, <2>1, <2>2 DEF Processes, Live
<1>5. QED
  BY <1>3, <1>4

-----------------------------------------------------------------------------
(***************************************************************************)
(* Steps that make and end no process.                                     *)
(***************************************************************************)
Mailing ==
  /\ running_pid \in System
  /\ MsgRcv \/ \E to \in Pid, d \in Messages : MsgSnd(to, d)

Plain ==
  \/ Timer
  \/ \E ticks \in SleepTicks : Sleep(ticks)
  \/ GetPid /\ running_pid # PROC_SHELL
  \/ Mailing

NoneEnds ==
  /\ \A p \in Pid : state'[p] = "ZOMBIE" => state[p] = "ZOMBIE"
  /\ state'[PROC_SHELL] = "FORKWAIT" <=> state[PROC_SHELL] = "FORKWAIT"

(* Nothing is made ready.                                                   *)
LEMMA ResumeEnds ==
  ASSUME TypeOK, Processes, Steady(state), Waiters, msg_wait_q' = msg_wait_q
  PROVE  NoneEnds /\ Waiters'
BY ShellFacts DEF Steady, NoneEnds, Waiters

(* Nobody in msg_wait_q runs.                                               *)
LEMMA BlockEnds ==
  ASSUME TypeOK, Processes, Waiters, running_pid \in Pid, NEW s \in {"SLEEP", "WAIT"},
         Steady([state EXCEPT ![running_pid] = s]), msg_wait_q' = msg_wait_q
  PROVE  NoneEnds /\ Waiters'
<1> DEFINE st == [state EXCEPT ![running_pid] = s]
<1>1. /\ st[running_pid] = s /\ \A p \in Pid : p # running_pid => st[p] = state[p]
      /\ System \subseteq Pid /\ PROC_SHELL \in System
      /\ running_pid \in System => state[running_pid] = "RUN"
  BY SystemFacts, ShellFacts DEF TypeOK, Processes, Ordered
<1> HIDE DEF st
<1>2. Steady(st)
  BY DEF st
<1>3. NoneEnds
  BY <1>1, <1>2 DEF Steady, NoneEnds
<1>4. Waiters'
  BY <1>1, <1>2 DEF Steady, Waiters
<1>5. QED
  BY <1>3, <1>4

LEMMA RcvOrders ==
  ASSUME TypeOK, Processes, Waiters, running_pid \in System, MsgRcv
  PROVE  Processes' /\ NoneEnds /\ Waiters'
<1>1. /\ running_pid \in Pid /\ running_pid > 0 /\ sleep_q' = sleep_q
      /\ state[running_pid] = "RUN" /\ msg_wait_q[running_pid] = <<>>
      /\ System \subseteq Pid /\ PROC_SHELL \in System
  BY SystemFacts, ShellFacts DEF TypeOK, Processes, Ordered, Waiters, MsgRcv, timeVars
<1>2. CASE Resume /\ UNCHANGED msg_wait_q
  BY <1>1, <1>2, ResumeOrders, ResumeEnds
<1>3. CASE /\ Block("WAIT")
           /\ msg_wait_q' = [msg_wait_q EXCEPT ![running_pid] = EnQ(running_pid, @)]
  <2> DEFINE st == [state EXCEPT ![running_pid] = "WAIT"]
  <2>1. Processes' /\ Steady(st)
    BY <1>1, <1>3, BlockOrders
  <2>2. EnQ(running_pid, <<>>) = <<running_pid>>
    <3>1. 0 < Q_LEN
      BY KernelAssumption, ShellAssumption, QueueAssumption
    <3>2. QED
      BY <3>1 DEF EnQ
  <2>3. st[running_pid] = "WAIT" /\ \A p \in Pid : p # running_pid => st[p] = state[p]
    BY <1>1 DEF TypeOK
  <2> HIDE DEF st
  <2>4. msg_wait_q'[running_pid] = <<running_pid>> /\ state'[running_pid] = "WAIT"
    BY <1>1, <1>3, <2>1, <2>2, <2>3 DEF TypeOK, Steady
  <2>5. ASSUME NEW p \in Pid, p # running_pid, msg_wait_q'[p] # <<>>
        PROVE  msg_wait_q'[p] = <<p>> /\ p \in System /\ state'[p] = "WAIT"
    BY <1>1, <1>3, <2>1, <2>3, <2>5 DEF TypeOK, Steady, Waiters
  <2>6. Waiters'
    BY <2>4, <2>5 DEF Waiters
  <2>7. NoneEnds
    BY <1>1, <2>1, <2>3 DEF Steady, NoneEnds
  <2>8. QED
    BY <2>1, <2>6, <2>7
<1>4. QED
  BY <1>2, <1>3 DEF MsgRcv

LEMMA SndOrders ==
  ASSUME TypeOK, Processes, Waiters, running_pid \in System, NEW to \in Pid, NEW d,
         MsgSnd(to, d)
  PROVE  Processes' /\ NoneEnds /\ Waiters'
<1>1. /\ sleep_q' = sleep_q /\ System \subseteq Pid /\ PROC_SHELL \in System
  BY SystemFacts, ShellFacts DEF MsgSnd, timeVars
<1>2. CASE Resume /\ UNCHANGED msg_wait_q
  BY <1>1, <1>2, ResumeOrders, ResumeEnds
<1>3. CASE /\ msg_wait_q[to] # <<>> /\ Wake(Head(msg_wait_q[to]))
           /\ msg_wait_q' = [msg_wait_q EXCEPT ![to] = Tail(@)]
  <2> DEFINE st == [state EXCEPT ![to] = "READY"]
  <2>1. msg_wait_q[to] = <<to>> /\ to \in System /\ state[to] = "WAIT"
    BY <1>3 DEF Waiters
  <2>2. Head(<<to>>) = to /\ Tail(<<to>>) = <<>>
    OBVIOUS
  <2>3. Processes' /\ Steady(st)
    BY <1>1, <1>3, <2>1, <2>2, WakeOrders
  <2>4. st[to] = "READY" /\ \A p \in Pid : p # to => st[p] = state[p]
    BY DEF TypeOK
  <2> HIDE DEF st
  <2>5. msg_wait_q'[to] = <<>> /\ \A p \in Pid : p # to => msg_wait_q'[p] = msg_wait_q[p]
    BY <1>3, <2>1, <2>2 DEF TypeOK
  <2>6. Waiters'
    BY <1>1, <2>3, <2>4, <2>5 DEF Waiters, Steady
  <2>7. NoneEnds
    BY <1>1, <2>1, <2>3, <2>4 DEF Steady, NoneEnds
  <2>8. QED
    BY <2>3, <2>6, <2>7
<1>4. QED
  BY <1>2, <1>3 DEF MsgSnd

LEMMA PlainKeeps ==
  ASSUME Deployed, Machine, Plain
  PROVE  /\ Next /\ Machine' /\ NoneEnds /\ UNCHANGED <<procVars, semVars>>
         /\ ret'[PROC_SHELL] = ret[PROC_SHELL]
<1>1. TypeOK /\ Processes /\ Waiters /\ Memory
  BY DEF Machine
<1>2. Next
  BY DEF Plain, Mailing, Next, Deployed
<1>3. TypeOK'
  BY <1>1, <1>2, TypeNext
<1>4. CASE Timer
  <2>1. Processes' /\ NoneEnds
    BY <1>1, <1>4, TickOrders, ShellFacts DEF NoneEnds
  <2>2. Waiters'
    BY <1>1, <1>4, TickOrders DEF Waiters, Timer, msgVars
  <2>3. UNCHANGED <<procVars, semVars, ret>>
    BY <1>4 DEF Timer
  <2>4. Memory'
    BY <1>1, <2>3 DEF Memory, procVars
  <2>5. QED
    BY <1>2, <1>3, <2>1, <2>2, <2>3, <2>4 DEF Machine
<1>5. CASE \E ticks \in SleepTicks : Sleep(ticks)
  <2>1. /\ running_pid > 0 /\ running_pid \in Pid /\ Block("SLEEP")
        /\ sleep_q' = EnQ(running_pid, sleep_q) /\ msg_wait_q' = msg_wait_q
        /\ UNCHANGED <<procVars, semVars, ret>>
    BY <1>1, <1>5 DEF Sleep, Syscall, TypeOK, msgVars
  <2>2. Processes' /\ Steady([state EXCEPT ![running_pid] = "SLEEP"])
    BY <1>1, <2>1, BlockOrders
  <2>3. NoneEnds /\ Waiters'
    BY <1>1, <2>1, <2>2, BlockEnds
  <2>4. Memory'
    BY <1>1, <2>1 DEF Memory, procVars
  <2>5. QED
    BY <1>2, <1>3, <2>1, <2>2, <2>3, <2>4 DEF Machine
<1>6. CASE GetPid /\ running_pid # PROC_SHELL
  <2>1. /\ Resume /\ sleep_q' = sleep_q /\ msg_wait_q' = msg_wait_q
        /\ UNCHANGED <<procVars, semVars>>
        /\ ret' = [ret EXCEPT ![running_pid] = running_pid]
    BY <1>6 DEF GetPid, timeVars, msgVars
  <2>2. Processes' /\ NoneEnds /\ Waiters'
    BY <1>1, <2>1, ResumeOrders, ResumeEnds
  <2>3. ret'[PROC_SHELL] = ret[PROC_SHELL]
    BY <1>1, <1>6, <2>1, ShellFacts DEF TypeOK
  <2>4. Memory'
    BY <1>1, <2>1 DEF Memory, procVars
  <2>5. QED
    BY <1>2, <1>3, <2>1, <2>2, <2>3, <2>4 DEF Machine
<1>7. CASE Mailing
  <2>1. Processes' /\ NoneEnds /\ Waiters'
    BY <1>1, <1>7, RcvOrders, SndOrders DEF Mailing
  <2>2. UNCHANGED <<procVars, semVars, ret>>
    BY <1>7 DEF Mailing, MsgRcv, MsgSnd
  <2>3. Memory'
    BY <1>1, <2>2 DEF Memory, procVars
  <2>4. QED
    BY <1>2, <1>3, <2>1, <2>2, <2>3 DEF Machine
<1>8. QED
  BY <1>4, <1>5, <1>6, <1>7 DEF Plain

LEMMA EndingsKept ==
  ASSUME Endings, NoneEnds, ppid' = ppid, ret'[PROC_SHELL] = ret[PROC_SHELL],
         program' = program, shell'.at = shell.at \/ shell'.at # "wait"
  PROVE  Endings'
<1>1. ChildEnded'
  BY DEF Endings, ChildEnded, NoneEnds
<1>2. QED
  BY <1>1 DEF Endings, NoneEnds

(* A tick, or a call that has to do with no message.                        *)
LEMMA ElsewhereStep ==
  ASSUME Deployed, IInv, Plain, UNCHANGED <<msgVars, shell, serving, fd_array, program>>
  PROVE  IInv'
<1>1. /\ Machine' /\ NoneEnds /\ ret'[PROC_SHELL] = ret[PROC_SHELL] /\ ppid' = ppid
  BY PlainKeeps DEF IInv, procVars
<1>2. Session'
  BY SessionSame DEF IInv
<1>3. Standing'
  BY DEF IInv, Standing, msgVars
<1>4. Endings'
  BY <1>1, EndingsKept DEF IInv
<1>5. QED
  BY <1>1, <1>2, <1>3, <1>4 DEF IInv

(* Nobody waits for a message who did not before, and the caller does not.  *)
LEMMA WaitersSnd ==
  ASSUME Machine, running_pid \in System, NEW to \in Pid, NEW d, MsgSnd(to, d),
         NEW p \in Pid, msg_wait_q'[p] # <<>>
  PROVE  msg_wait_q[p] # <<>> /\ p # running_pid
<1>1. DOMAIN msg_wait_q = Pid
  BY DEF Machine, TypeOK
<1>2. msg_wait_q[p] # <<>>
  BY <1>1 DEF MsgSnd
<1>3. QED
  BY <1>2, CallerIs

LEMMA WaitersRcv ==
  ASSUME Machine, running_pid \in System, MsgRcv, NEW p \in Pid, msg_wait_q'[p] # <<>>
  PROVE  msg_wait_q[p] # <<>> \/ p = running_pid
<1>1. DOMAIN msg_wait_q = Pid
  BY DEF Machine, TypeOK
<1>2. QED
  BY <1>1, RcvIs

LEMMA ServerStep ==
  ASSUME Deployed, IInv, Serving, Session'
  PROVE  IInv'
<1>1. /\ running_pid \in Servers /\ running_pid \in System /\ running_pid # PROC_SHELL
      /\ UNCHANGED <<shell, program, table>>
  BY ShellFacts DEF Serving
<1>2. Plain
  BY <1>1 DEF Serving, Plain, Mailing
<1>3. /\ Machine' /\ NoneEnds /\ ret'[PROC_SHELL] = ret[PROC_SHELL] /\ ppid' = ppid
  BY <1>2, PlainKeeps DEF IInv, procVars
<1>4. serving' \subseteq Servers
  BY <1>1 DEF Serving, IInv, Standing
<1>5. ASSUME NEW p \in Pid, msg_wait_q'[p] # <<>>
      PROVE  p \in serving' \/ (p = PROC_SHELL /\ ~shell'.asked)
  <2>1. CASE MsgRcv /\ serving' = serving \cup {running_pid}
    BY <1>1, <1>5, <2>1, WaitersRcv DEF IInv, Standing
  <2>2. CASE /\ \E to \in Pid, e \in Messages : MsgSnd(to, e)
             /\ serving' = serving \ {running_pid}
    BY <1>1, <1>5, <2>2, WaitersSnd DEF IInv, Standing
  <2>3. QED
    BY <2>1, <2>2 DEF Serving
<1>6. Standing'
  BY <1>1, <1>4, <1>5 DEF IInv, Standing
<1>7. Endings'
  BY <1>1, <1>3, EndingsKept DEF IInv
<1>8. QED
  BY <1>3, <1>6, <1>7 DEF IInv

LEMMA ReceiveStep ==
  ASSUME Deployed, IInv, Receive
  PROVE  IInv'
<1>1. /\ running_pid = PROC_SHELL /\ running_pid \in System /\ MsgRcv
      /\ shell' = [shell EXCEPT !.asked = FALSE]
      /\ UNCHANGED <<serving, fd_array, program, table>>
  BY ShellFacts DEF Receive, Running
<1>2. Plain
  BY <1>1 DEF Plain, Mailing
<1>3. /\ Machine' /\ NoneEnds /\ ret'[PROC_SHELL] = ret[PROC_SHELL] /\ ppid' = ppid
  BY <1>2, PlainKeeps DEF IInv, procVars
<1>4. DOMAIN shell' = Fields /\ ~shell'.asked /\ shell'.at = shell.at
  BY <1>1 DEF IInv, Standing, Fields
<1>5. \A p \in Pid : msg_wait_q'[p] # <<>> =>
                       p \in serving' \/ (p = PROC_SHELL /\ ~shell'.asked)
  BY <1>1, <1>4, WaitersRcv DEF IInv, Standing
<1>6. Standing'
  BY <1>1, <1>4, <1>5 DEF IInv, Standing
<1>7. Endings'
  BY <1>1, <1>3, <1>4, EndingsKept DEF IInv
<1>8. Session'
  BY ReceiveKeeps DEF IInv
<1>9. QED
  BY <1>3, <1>6, <1>7, <1>8 DEF IInv

LEMMA AskStep ==
  ASSUME Deployed, IInv, running_pid = PROC_SHELL, Asking, Session'
  PROVE  IInv'
<1>1. /\ running_pid \in System /\ msg_wait_q[PROC_SHELL] = <<>>
      /\ UNCHANGED <<serving, fd_array, program, table>>
      /\ DOMAIN shell' = Fields /\ shell'.at # "wait"
  BY ShellFacts, CallerIs DEF Asking, IInv, Stages, Finding
<1>2. Plain
  BY <1>1 DEF Plain, Mailing, Asking
<1>3. /\ Machine' /\ NoneEnds /\ ret'[PROC_SHELL] = ret[PROC_SHELL] /\ ppid' = ppid
  BY <1>2, PlainKeeps DEF IInv, procVars
<1>4. \A p \in Pid : msg_wait_q'[p] # <<>> => msg_wait_q[p] # <<>>
  BY <1>1, WaitersSnd DEF IInv, Asking
<1>5. Standing'
  BY <1>1, <1>4 DEF IInv, Standing
<1>6. Endings'
  BY <1>1, <1>3, EndingsKept DEF IInv
<1>7. QED
  BY <1>3, <1>5, <1>6 DEF IInv

-----------------------------------------------------------------------------
(***************************************************************************)
(* The forked programs.                                                    *)
(***************************************************************************)
LEMMA ProgramIs ==
  ASSUME IInv, UserProgram
  PROVE  /\ running_pid \in Pid /\ running_pid > 0 /\ ~Booted(running_pid)
         /\ running_pid \notin System /\ running_pid # PROC_SHELL
         /\ running_pid \in DOMAIN program /\ program[running_pid] # NoProgram
         /\ state[running_pid] # "ZOMBIE" /\ ppid[running_pid] = PROC_SHELL
<1>1. /\ running_pid \in DOMAIN program
      /\ program[running_pid].name \in {"take5", "test"}
  BY DEF UserProgram, Take5, Test, Runs
<1>2. running_pid \in Pid \ 0 .. BOOT_PROCS - 1
  BY <1>1 DEF IInv, Standing
<1>3. running_pid \in Pid /\ running_pid > 0 /\ ~Booted(running_pid)
  BY <1>2, ShellAssumption DEF Booted, Pid
<1>4. program[running_pid] # NoProgram
  BY <1>1, ShellAssumption DEF NoProgram
<1>5. running_pid \notin System /\ running_pid # PROC_SHELL
  BY <1>3, SystemFacts, ShellFacts
<1>6. QED
  BY <1>1, <1>3, <1>4, <1>5 DEF IInv, Endings

(* One of them gets on.                                                     *)
LEMMA GoesOn ==
  ASSUME IInv, UserProgram, NEW at, Goes(at), Machine', NoneEnds, UNCHANGED msgVars,
         ppid' = ppid, ret'[PROC_SHELL] = ret[PROC_SHELL]
  PROVE  IInv'
<1> DEFINE p == running_pid
<1>1. /\ p \in Pid /\ p \in DOMAIN program /\ program[p] # NoProgram
      /\ state[p] # "ZOMBIE" /\ ppid[p] = PROC_SHELL
  BY ProgramIs
<1>2. /\ program' = [program EXCEPT ![p].at = at]
      /\ UNCHANGED <<shell, serving, fd_array>>
  BY DEF Goes
<1>3. /\ DOMAIN program' = DOMAIN program
      /\ \A q \in DOMAIN program : q # p => program'[q] = program[q]
  BY <1>2
<1> HIDE DEF p
<1>4. Session'
  BY <1>2, SessionSame DEF IInv
<1>5. Standing'
  BY <1>2, <1>3 DEF IInv, Standing, msgVars
<1>6. \A q \in Pid : state'[q] = "ZOMBIE" => ~Booted(q) /\ program'[q] = NoProgram
  <2>1. SUFFICES ASSUME NEW q \in Pid, state'[q] = "ZOMBIE"
                 PROVE  ~Booted(q) /\ program'[q] = NoProgram
    OBVIOUS
  <2>2. state[q] = "ZOMBIE" /\ q # p
    BY <1>1, <2>1 DEF NoneEnds
  <2>3. ~Booted(q) /\ program[q] = NoProgram /\ q \in DOMAIN program
    BY <2>2, SystemFacts DEF IInv, Endings, Standing
  <2>4. QED
    BY <1>3, <2>2, <2>3
<1>7. \A q \in DOMAIN program' : program'[q] # NoProgram => ppid'[q] = PROC_SHELL
  BY <1>1, <1>3 DEF IInv, Endings
<1>8. ChildEnded'
  BY <1>1, <1>2, <1>3 DEF IInv, Endings, ChildEnded, NoneEnds
<1>9. QED
  BY <1>4, <1>5, <1>6, <1>7, <1>8 DEF IInv, Endings

(* It gets a page, whatever table PF_ISR() enters it in.                    *)
LEMMA FaultStep ==
  ASSUME Deployed, IInv, UserProgram, PageFault, FreePages # {}, NEW k, Goes(k)
  PROVE  IInv'
<1> DEFINE p == running_pid
<1>1. p \in Pid /\ ~Booted(p) /\ Next
  BY ProgramIs DEF Next
<1>2. /\ Resume
      /\ UNCHANGED <<timeVars, semVars, msgVars, free_q, ppid, trans_table, runtime, ret>>
      /\ \E i \in FreePages : DRAM' = [DRAM EXCEPT ![i] = p]
  BY DEF PageFault
<1>3. TypeOK /\ Processes /\ Waiters /\ Memory /\ TypeOK'
  BY <1>1, TypeNext DEF IInv, Machine
<1>4. Processes' /\ NoneEnds /\ Waiters'
  BY <1>2, <1>3, ResumeOrders, ResumeEnds DEF timeVars, msgVars
<1>5. Memory'
  <2>1. PICK i \in Page : DRAM' = [DRAM EXCEPT ![i] = p]
    BY <1>2 DEF FreePages
  <2>2. \A j \in Page : DRAM'[j] = p \/ DRAM'[j] = DRAM[j]
    BY <1>3, <2>1 DEF TypeOK
  <2>3. QED
    BY <1>1, <1>2, <1>3, <2>2 DEF Memory
<1>6. QED
  BY <1>2, <1>3, <1>4, <1>5, GoesOn DEF Machine

(* It ends before the shell waits: a zombie.                                *)
LEMMA ZombieStep ==
  ASSUME IInv, UserProgram, TypeOK', Block("ZOMBIE"), Ends,
         UNCHANGED <<procVars, sleep_q, msgVars, ret>>
  PROVE  IInv'
<1> DEFINE p == running_pid
           st == [state EXCEPT ![p] = "ZOMBIE"]
<1>1. /\ p \in Pid /\ p > 0 /\ ~Booted(p) /\ p \notin System /\ p \in DOMAIN program
      /\ System \subseteq Pid /\ PROC_SHELL \in System
  BY ProgramIs, SystemFacts, ShellFacts
<1>2. TypeOK /\ Processes /\ Waiters /\ Memory /\ Endings /\ Standing
  BY DEF IInv, Machine
<1>3. Processes' /\ Steady(st)
  BY <1>1, <1>2, BlockOrders
<1>4. \A q \in Pid : q # p => st[q] = state[q]
  BY <1>2 DEF TypeOK
<1>5. /\ program' = [program EXCEPT ![p] = NoProgram]
      /\ UNCHANGED <<shell, serving, fd_array>>
  BY DEF Ends
<1> HIDE DEF st, p
<1>6. /\ DOMAIN program' = DOMAIN program /\ program'[p] = NoProgram
      /\ \A q \in DOMAIN program : q # p => program'[q] = program[q]
  BY <1>1, <1>5
<1>7. Waiters'
  BY <1>1, <1>2, <1>3, <1>4 DEF Waiters, Steady, msgVars
<1>8. Memory'
  BY <1>2 DEF Memory, procVars
<1>9. Endings'
  <2>1. \A q \in Pid : state'[q] = "ZOMBIE" => ~Booted(q) /\ program'[q] = NoProgram
    <3>1. SUFFICES ASSUME NEW q \in Pid, state'[q] = "ZOMBIE"
                   PROVE  ~Booted(q) /\ program'[q] = NoProgram
      OBVIOUS
    <3>2. CASE q = p
      BY <1>1, <1>6, <3>2
    <3>3. CASE q # p
      <4>1. state[q] = "ZOMBIE"
        BY <1>3, <1>4, <3>1, <3>3 DEF Steady
      <4>2. ~Booted(q) /\ program[q] = NoProgram /\ q \in DOMAIN program
        BY <1>2, <4>1, SystemFacts DEF Endings, Standing
      <4>3. QED
        BY <1>6, <3>3, <4>2
    <3>4. QED
      BY <3>2, <3>3
  <2>2. \A q \in DOMAIN program' : program'[q] # NoProgram => ppid'[q] = PROC_SHELL
    BY <1>2, <1>6 DEF Endings, procVars
  <2>3. state'[PROC_SHELL] = "FORKWAIT" <=> state[PROC_SHELL] = "FORKWAIT"
    BY <1>1, <1>3, <1>4 DEF Steady
  <2>4. ChildEnded'
    BY <1>2, <1>5, <1>6, <2>3 DEF Endings, ChildEnded
  <2>5. QED
    BY <2>1, <2>2, <2>4 DEF Endings
<1>10. Session'
  BY <1>5, SessionSame DEF IInv
<1>11. Standing'
  BY <1>2, <1>5, <1>6 DEF Standing, msgVars
<1>12. QED
  BY <1>3, <1>7, <1>8, <1>9, <1>10, <1>11 DEF IInv, Machine

(* It ends while the shell waits: the shell is ready again, with its PID.   *)
LEMMA LeaveStep ==
  ASSUME IInv, UserProgram, TypeOK', state[PROC_SHELL] = "FORKWAIT", Leave(PROC_SHELL),
         Ends, UNCHANGED <<sleep_q, msgVars>>
  PROVE  IInv'
<1> DEFINE p == running_pid
           st == [state EXCEPT ![PROC_SHELL] = "READY", ![p] = "FREE"]
           rq == EnQ(PROC_SHELL, ready_q)
<1>1. /\ p \in Pid /\ p > 0 /\ ~Booted(p) /\ p \notin System /\ p \in DOMAIN program
      /\ System \subseteq Pid /\ PROC_SHELL \in System /\ p # PROC_SHELL
  BY ProgramIs, SystemFacts, ShellFacts
<1>2. TypeOK /\ Processes /\ Waiters /\ Memory /\ Endings /\ Standing
  BY DEF IInv, Machine
<1>3. /\ st \in [Pid -> State] /\ st[PROC_SHELL] = "READY" /\ st[p] = "FREE"
      /\ \A q \in Pid : q # p /\ q # PROC_SHELL => st[q] = state[q]
  BY <1>1, <1>2 DEF TypeOK, State
<1>4. Scheduler(NONE, rq, st) /\ NONE \in Pid \cup {NONE} /\ \A q \in System : q # NONE
  BY SystemFacts DEF Leave
<1>5. /\ PROC_SHELL \notin Range(ready_q) /\ PROC_SHELL \notin Range(sleep_q)
      /\ running_pid # PROC_SHELL
  BY <1>1, <1>2 DEF Processes, Ordered
<1>6. /\ rq \in Seq(Pid) /\ Once(rq) /\ Range(rq) \subseteq Range(ready_q) \cup {PROC_SHELL}
  BY <1>1, <1>2, <1>5, OnceEnQ DEF TypeOK, Processes, Ordered
<1>7. /\ program' = [program EXCEPT ![p] = NoProgram]
      /\ UNCHANGED <<shell, serving, fd_array>>
  BY DEF Ends
<1>8. /\ ret' = [ret EXCEPT ![PROC_SHELL] = p]
      /\ trans_table' = [trans_table EXCEPT ![p] = NONE]
      /\ ppid' = [ppid EXCEPT ![p] = 0]
      /\ \A i \in Page : DRAM'[i] = NONE \/ DRAM'[i] = DRAM[i]
      /\ free_q' = EnQ(p, free_q)
  <2>1. ~Forked(PROC_SHELL)
    BY <1>1, <1>2, PageFacts DEF Memory, Forked
  <2>2. QED
    BY <2>1 DEF Leave, ClearPCB
<1>9. running_pid = p
  OBVIOUS
<1> HIDE DEF st, rq, p
<1>10. Ordered(NONE, rq, sleep_q, st)
  <2>1. SUFFICES ASSUME NEW q \in System
                 PROVE  /\ st[q] \in Live /\ st[q] # "RUN"
                        /\ q \in Range(rq) => st[q] = "READY"
                        /\ q \in Range(sleep_q) => st[q] = "SLEEP"
    BY <1>2, <1>4, <1>6 DEF Processes, Ordered
  <2>2. CASE q = PROC_SHELL
    BY <1>3, <1>5, <2>2 DEF Live
  <2>3. CASE q # PROC_SHELL
    <3>1. st[q] = state[q] /\ q # running_pid
      BY <1>1, <1>3, <1>9, <2>1, <2>3
    <3>2. QED
      BY <1>2, <1>6, <2>1, <2>3, <3>1 DEF Processes, Ordered
  <2>4. QED
    BY <2>2, <2>3
<1>11. Processes' /\ Steady(st)
  BY <1>3, <1>4, <1>6, <1>10, SchedulerOrders DEF Processes
<1>12. /\ DOMAIN program' = DOMAIN program /\ program'[p] = NoProgram
       /\ \A q \in DOMAIN program : q # p => program'[q] = program[q]
  BY <1>1, <1>7
<1>13. Waiters'
  BY <1>1, <1>2, <1>3, <1>11 DEF Waiters, Steady, msgVars
<1>14. Memory'
  <2>1. free_q \in Seq(Pid)
    BY <1>2 DEF TypeOK
  <2>2. Range(free_q') \subseteq Range(free_q) \cup {p}
    BY <1>1, <1>8, <2>1, EnQFrom
  <2>3. \A q \in System : trans_table'[q] = trans_table[q]
    BY <1>1, <1>2, <1>8 DEF TypeOK
  <2>4. QED
    BY <1>1, <1>2, <1>8, <2>2, <2>3 DEF Memory
<1>15. Endings'
  <2>1. \A q \in Pid : state'[q] = "ZOMBIE" => ~Booted(q) /\ program'[q] = NoProgram
    <3>1. SUFFICES ASSUME NEW q \in Pid, state'[q] = "ZOMBIE"
                   PROVE  ~Booted(q) /\ program'[q] = NoProgram
      OBVIOUS
    <3>2. state[q] = "ZOMBIE" /\ q # p
      BY <1>3, <1>11, <3>1 DEF Steady
    <3>3. ~Booted(q) /\ program[q] = NoProgram /\ q \in DOMAIN program
      BY <1>2, <3>2, SystemFacts DEF Endings, Standing
    <3>4. QED
      BY <1>12, <3>2, <3>3
  <2>2. \A q \in DOMAIN program' : program'[q] # NoProgram => ppid'[q] = PROC_SHELL
    <3>1. DOMAIN program \subseteq Pid /\ \A q \in Pid : q # p => ppid'[q] = ppid[q]
      BY <1>2, <1>8 DEF Standing, TypeOK
    <3>2. QED
      BY <1>2, <1>12, <3>1 DEF Endings
  <2>3. ret'[PROC_SHELL] = p
    BY <1>1, <1>2, <1>8 DEF TypeOK
  <2>4. ChildEnded'
    BY <1>1, <1>12, <2>3 DEF ChildEnded
  <2>5. QED
    BY <2>1, <2>2, <2>4 DEF Endings
<1>16. Session'
  BY <1>7, SessionSame DEF IInv
<1>17. Standing'
  BY <1>2, <1>7, <1>12 DEF Standing, msgVars
<1>18. QED
  BY <1>11, <1>13, <1>14, <1>15, <1>16, <1>17 DEF IInv, Machine

LEMMA EndStep ==
  ASSUME IInv, UserProgram, Next, ExitISR, Ends
  PROVE  IInv'
<1>1. TypeOK' /\ ppid[running_pid] = PROC_SHELL
  BY TypeNext, ProgramIs DEF IInv, Machine
<1>2. CASE Block("ZOMBIE") /\ UNCHANGED <<procVars, runtime, wake_time, ret>>
  BY <1>1, <1>2, ZombieStep DEF ExitISR
<1>3. CASE state[PROC_SHELL] = "FORKWAIT" /\ Leave(PROC_SHELL)
  BY <1>1, <1>3, LeaveStep DEF ExitISR
<1>4. QED
  BY <1>1, <1>2, <1>3 DEF ExitISR

LEMMA ProgramStep ==
  ASSUME Deployed, IInv, UserProgram
  PROVE  IInv'
<1>1. running_pid # PROC_SHELL
  BY ProgramIs
<1>2. CASE \E at : (GetPid \/ \E ticks \in SleepTicks : Sleep(ticks)) /\ Goes(at)
  <2>1. PICK at : (GetPid \/ \E ticks \in SleepTicks : Sleep(ticks)) /\ Goes(at)
    BY <1>2
  <2>2. Plain /\ UNCHANGED msgVars
    BY <1>1, <2>1 DEF Plain, GetPid, Sleep
  <2>3. QED
    BY <2>1, <2>2, PlainKeeps, GoesOn DEF IInv, procVars
<1>3. CASE Exit /\ Ends
  BY <1>3, EndStep DEF Exit, Next
<1>4. CASE \E k : PageFault /\ FreePages # {} /\ Goes(k)
  BY <1>4, FaultStep
<1>5. CASE PageFault /\ FreePages = {} /\ Ends
  BY <1>5, EndStep DEF PageFault, Next
<1>6. QED
  BY <1>2, <1>3, <1>4, <1>5 DEF UserProgram, Take5, Test, PagedFault

-----------------------------------------------------------------------------
(***************************************************************************)
(* Fork() and Wait() of the shell.                                         *)
(***************************************************************************)

(* The child is no process of main(); it may be one that was reaped by half *)
(* and has its PID in free_q, or what is left of it, twice.                 *)
LEMMA ChildIs ==
  ASSUME Machine, Standing, ~ForkFails
  PROVE  LET child == Head(free_q)
         IN  /\ child \in Pid /\ ~Booted(child) /\ child \notin System
             /\ child \in DOMAIN program /\ child \notin serving /\ child # PROC_SHELL
             /\ Range(Tail(free_q)) \subseteq Range(free_q)
<1> DEFINE child == Head(free_q)
<1>1. free_q # <<>> /\ free_q \in Seq(Pid)
  BY DEF Machine, TypeOK, ForkFails
<1>2. /\ child \in Pid /\ child \in Range(free_q)
      /\ Range(Tail(free_q)) \subseteq Range(free_q)
  BY <1>1, TailRemoves
<1> HIDE DEF child
<1>3. ~Booted(child)
  BY <1>2 DEF Machine, Memory
<1>4. child \notin System /\ child \in DOMAIN program
  BY <1>2, <1>3, SystemFacts DEF Standing
<1>5. child \notin serving /\ child # PROC_SHELL
  BY <1>4, ShellFacts DEF Standing
<1>6. QED
  BY <1>2, <1>3, <1>4, <1>5 DEF child

LEMMA ForkKeeps ==
  ASSUME Machine, Standing, Session, ForkProgram
  PROVE  Session' /\ DOMAIN program' = DOMAIN program
<1> DEFINE child == Head(free_q)
<1>1. /\ running_pid = PROC_SHELL /\ ~shell.asked /\ shell.at = "check" /\ my_msg.code = GOOD
      /\ Fork /\ shell' = [shell EXCEPT !.at = "fork", !.child = ret'[PROC_SHELL]]
      /\ UNCHANGED <<serving, fd_array>>
  BY DEF ForkProgram, At, Running, Good, PagedFork
<1>2. /\ shell'.at = "fork" /\ shell'.asked = shell.asked /\ shell'.shown = shell.shown
  BY <1>1 DEF Standing, Fields
<1>3. my_msg \in Messages /\ NoneOpen /\ shell.shown = <<>> /\ Quiet
  BY <1>1, HasReply, ShellGoesOn DEF Stages, Finding
<1>4. CASE ForkFails
  <2>1. UNCHANGED msgVars
    BY <1>1, <1>4 DEF Fork
  <2>2. Alone'
    BY <1>1, <1>2, <1>3, <2>1
       DEF Alone, NoneOpen, Quiet, Empty, Idle, Pending, my_msg, msgVars
  <2>3. QED
    BY <1>1, <1>2, <1>4, <2>2 DEF Session, Stages, Finding, ForkProgram
<1>5. CASE ~ForkFails
  <2>1. child \in Pid /\ child \notin serving /\ child # PROC_SHELL
    BY <1>5, ChildIs
  <2>2. /\ msg_q' = [msg_q EXCEPT ![child] = <<>>]
        /\ msg_wait_q' = [msg_wait_q EXCEPT ![child] = <<>>]
        /\ inbox' = [inbox EXCEPT ![child] = NoMsg]
    BY <1>1, <1>5 DEF Fork, ForkSucceeds
  <2>3. /\ DOMAIN msg_q = Pid /\ DOMAIN msg_wait_q = Pid /\ DOMAIN inbox = Pid
        /\ PROC_SHELL \in Pid /\ serving \subseteq Pid
    BY ShellFacts DEF Machine, TypeOK, Standing
  <2> HIDE DEF child
  <2>4. Quiet'
    BY <1>1, <1>2, <1>3, <2>1, <2>2, <2>3 DEF Quiet, Empty, Idle, Pending
  <2>5. inbox'[PROC_SHELL] = inbox[PROC_SHELL]
    BY <2>1, <2>2, <2>3
  <2>6. Alone'
    BY <1>1, <1>2, <1>3, <2>4, <2>5 DEF Alone, NoneOpen, my_msg
  <2>7. DOMAIN program' = DOMAIN program
    BY <1>5 DEF ForkProgram
  <2>8. QED
    BY <1>1, <1>2, <2>6, <2>7 DEF Session, Stages, Finding
<1>6. QED
  BY <1>4, <1>5

(* Without a PID or enough pages nothing happens.                           *)
LEMMA ForkFailsStep ==
  ASSUME Deployed, IInv, ForkProgram, ForkFails
  PROVE  IInv'
<1>1. /\ Fork /\ running_pid = PROC_SHELL
      /\ shell' = [shell EXCEPT !.at = "fork", !.child = ret'[PROC_SHELL]]
      /\ UNCHANGED <<serving, fd_array, program>>
  BY DEF ForkProgram, At, Running, PagedFork
<1>2. /\ Resume /\ sleep_q' = sleep_q /\ UNCHANGED <<procVars, msgVars>>
  BY <1>1 DEF Fork
<1>3. TypeOK /\ Processes /\ Waiters /\ Memory /\ Standing /\ Session /\ Endings /\ TypeOK'
  BY <1>1, TypeNext DEF IInv, Machine, Next
<1>4. Processes' /\ NoneEnds /\ Waiters'
  BY <1>2, <1>3, ResumeOrders, ResumeEnds DEF msgVars
<1>5. Memory'
  BY <1>2, <1>3 DEF Memory, procVars
<1>6. DOMAIN shell' = Fields /\ shell'.at = "fork" /\ shell'.asked = shell.asked
  BY <1>1, <1>3 DEF Standing, Fields
<1>7. Standing'
  BY <1>1, <1>2, <1>3, <1>6 DEF Standing, msgVars
<1>8. Endings'
  BY <1>1, <1>2, <1>3, <1>4, <1>6 DEF Endings, ChildEnded, NoneEnds, procVars
<1>9. Session'
  BY <1>3, ForkKeeps DEF IInv
<1>10. QED
  BY <1>3, <1>4, <1>5, <1>7, <1>8, <1>9 DEF IInv, Machine

(* The child is made ready, in pages that were free.                        *)
LEMMA ForkStep ==
  ASSUME Deployed, IInv, ForkProgram, ~ForkFails
  PROVE  IInv'
<1> DEFINE child == Head(free_q)
           st == [state EXCEPT ![child] = "READY"]
<1>1. /\ Fork /\ ForkSucceeds /\ running_pid = PROC_SHELL
      /\ shell' = [shell EXCEPT !.at = "fork", !.child = ret'[PROC_SHELL]]
      /\ program' = [program EXCEPT ![child] =
                       [name |-> Entry(my_msg.body.object).name, at |-> 1]]
      /\ UNCHANGED <<serving, fd_array>>
  BY DEF ForkProgram, At, Running, PagedFork, Fork
<1>2. /\ Wake(child) /\ sleep_q' = sleep_q /\ free_q' = Tail(free_q)
      /\ ppid' = [ppid EXCEPT ![child] = running_pid]
      /\ msg_wait_q' = [msg_wait_q EXCEPT ![child] = <<>>]
      /\ \E t : trans_table' = [trans_table EXCEPT ![child] = t]
      /\ \A i \in Page : DRAM'[i] = child \/ DRAM'[i] = DRAM[i]
  BY <1>1 DEF Fork, ForkSucceeds
<1>3. TypeOK /\ Processes /\ Waiters /\ Memory /\ Standing /\ Session /\ Endings /\ TypeOK'
  BY <1>1, TypeNext DEF IInv, Machine, Next
<1>4. /\ child \in Pid /\ ~Booted(child) /\ child \notin System /\ child \in DOMAIN program
      /\ Range(Tail(free_q)) \subseteq Range(free_q) /\ System \subseteq Pid
      /\ DOMAIN program \subseteq Pid
  BY ChildIs, SystemFacts DEF IInv, Standing
<1>5. Processes' /\ Steady(st)
  BY <1>2, <1>3, <1>4, WakeOrders
<1>6. st[child] = "READY" /\ \A p \in Pid : p # child => st[p] = state[p]
  BY <1>3, <1>4 DEF TypeOK
<1> HIDE DEF child, st
<1>7. /\ msg_wait_q'[child] = <<>> /\ ppid'[child] = PROC_SHELL
      /\ \A p \in Pid : p # child =>
           msg_wait_q'[p] = msg_wait_q[p] /\ ppid'[p] = ppid[p]
      /\ \A p \in System : trans_table'[p] = trans_table[p]
  BY <1>1, <1>2, <1>3, <1>4 DEF TypeOK
<1>8. Waiters'
  BY <1>3, <1>4, <1>5, <1>6, <1>7 DEF Waiters, Steady
<1>9. Memory'
  BY <1>2, <1>3, <1>4, <1>7 DEF Memory
<1>10. DOMAIN shell' = Fields /\ shell'.at = "fork" /\ shell'.asked = shell.asked
  BY <1>1, <1>3 DEF Standing, Fields
<1>11. /\ DOMAIN program' = DOMAIN program
       /\ \A p \in DOMAIN program : p # child => program'[p] = program[p]
  BY <1>1
<1>12. Standing'
  BY <1>1, <1>3, <1>7, <1>10, <1>11 DEF Standing
<1>13. \A p \in Pid : state'[p] = "ZOMBIE" => ~Booted(p) /\ program'[p] = NoProgram
  <2>1. SUFFICES ASSUME NEW p \in Pid, state'[p] = "ZOMBIE"
                 PROVE  ~Booted(p) /\ program'[p] = NoProgram
    OBVIOUS
  <2>2. state[p] = "ZOMBIE" /\ p # child
    BY <1>5, <1>6, <2>1 DEF Steady
  <2>3. ~Booted(p) /\ program[p] = NoProgram /\ p \in DOMAIN program
    BY <1>3, <2>2, SystemFacts DEF Endings, Standing
  <2>4. QED
    BY <1>11, <2>2, <2>3
<1>14. \A p \in DOMAIN program' : program'[p] # NoProgram => ppid'[p] = PROC_SHELL
  BY <1>3, <1>4, <1>7, <1>11 DEF Endings
<1>15. Endings'
  BY <1>10, <1>13, <1>14 DEF Endings, ChildEnded
<1>16. Session'
  BY <1>3, ForkKeeps DEF IInv
<1>17. QED
  BY <1>3, <1>5, <1>8, <1>9, <1>12, <1>15, <1>16 DEF IInv, Machine

LEMMA WaitKeeps ==
  ASSUME Machine, Standing, Session, At("forked"), WaitForChild
  PROVE  Session'
<1>1. /\ running_pid = PROC_SHELL /\ ~shell.asked /\ shell.at = "forked" /\ Wait
      /\ shell' = [shell EXCEPT !.at = "wait"] /\ UNCHANGED <<serving, fd_array>>
  BY DEF WaitForChild, At, Running
<1>2. /\ shell'.at = "wait" /\ shell'.asked = shell.asked /\ shell'.shown = shell.shown
  BY <1>1 DEF Standing, Fields
<1>3. my_msg \in Messages /\ NoneOpen /\ shell.shown = <<>> /\ Quiet
  BY <1>1, HasReply, ShellGoesOn DEF Stages, Finding
<1>4. UNCHANGED msgVars
  BY <1>1 DEF Wait
<1>5. Alone'
  BY <1>1, <1>2, <1>3, <1>4 DEF Alone, NoneOpen, Quiet, Empty, Idle, Pending, my_msg, msgVars
<1>6. QED
  BY <1>1, <1>2, <1>5 DEF Session, Stages, Finding

(* The shell waits for a child, or reaps the zombie it finds: a program that *)
(* has ended, of which it frees one page and the PID.                       *)
LEMMA WaitStep ==
  ASSUME Deployed, IInv, At("forked"), WaitForChild
  PROVE  IInv'
<1>1. /\ Wait /\ running_pid = PROC_SHELL /\ shell' = [shell EXCEPT !.at = "wait"]
      /\ UNCHANGED <<serving, fd_array, program>>
  BY DEF WaitForChild, At, Running
<1>2. /\ sleep_q' = sleep_q /\ msg_wait_q' = msg_wait_q
      /\ UNCHANGED <<ppid, trans_table>>
  BY <1>1 DEF Wait, timeVars, msgVars
<1>3. TypeOK /\ Processes /\ Waiters /\ Memory /\ Standing /\ Session /\ Endings /\ TypeOK'
  BY <1>1, TypeNext DEF IInv, Machine, Next
<1>4. /\ PROC_SHELL \in System /\ PROC_SHELL \in Pid /\ PROC_SHELL > 0
      /\ state[PROC_SHELL] = "RUN" /\ msg_wait_q[PROC_SHELL] = <<>>
  BY <1>1, ShellFacts, CallerIs DEF IInv
<1>5. DOMAIN shell' = Fields /\ shell'.at = "wait" /\ shell'.asked = shell.asked
  BY <1>1, <1>3 DEF Standing, Fields
<1>6. Standing'
  BY <1>1, <1>2, <1>3, <1>5 DEF Standing
<1>7. Session'
  BY WaitKeeps DEF IInv
<1>8. CASE Block("FORKWAIT") /\ UNCHANGED <<free_q, DRAM, ret>>
  <2> DEFINE st == [state EXCEPT ![PROC_SHELL] = "FORKWAIT"]
  <2>1. Processes' /\ Steady(st)
    BY <1>1, <1>2, <1>3, <1>4, <1>8, BlockOrders
  <2>2. st[PROC_SHELL] = "FORKWAIT" /\ \A p \in Pid : p # PROC_SHELL => st[p] = state[p]
    BY <1>3, <1>4 DEF TypeOK
  <2> HIDE DEF st
  <2>3. state'[PROC_SHELL] = "FORKWAIT" /\ \A p \in Pid : state'[p] = "ZOMBIE" => state[p] = "ZOMBIE"
    BY <1>4, <2>1, <2>2 DEF Steady
  <2>4. Waiters'
    BY <1>2, <1>3, <1>4, <2>1, <2>2 DEF Waiters, Steady
  <2>5. Memory'
    BY <1>2, <1>3, <1>8 DEF Memory
  <2>6. Endings'
    BY <1>1, <1>2, <1>3, <2>3 DEF Endings, ChildEnded
  <2>7. QED
    BY <1>3, <1>6, <1>7, <2>1, <2>4, <2>5, <2>6 DEF IInv, Machine
<1>9. ASSUME NEW i \in ZombiePages, Reap(i)
      PROVE  IInv'
  <2> DEFINE child == DRAM[i]
  <2>1. /\ i \in Page /\ child # NONE /\ state[child] = "ZOMBIE" /\ child \in Pid
    BY <1>3 DEF ZombiePages, TypeOK
  <2>2. /\ ret' = [ret EXCEPT ![PROC_SHELL] = child]
        /\ DRAM' = [DRAM EXCEPT ![i] = NONE]
        /\ free_q' = EnQ(child, free_q) /\ Resume
    BY <1>1, <1>9 DEF Reap
  <2> HIDE DEF child
  <2>3. ~Booted(child) /\ child \in DOMAIN program /\ program[child] = NoProgram
    BY <1>3, <2>1, SystemFacts DEF Endings, Standing
  <2>4. Processes' /\ NoneEnds /\ Waiters'
    BY <1>2, <1>3, <2>2, ResumeOrders, ResumeEnds
  <2>5. Memory'
    <3>1. free_q \in Seq(Pid)
      BY <1>3 DEF TypeOK
    <3>2. Range(free_q') \subseteq Range(free_q) \cup {child}
      BY <2>1, <2>2, <3>1, EnQFrom
    <3>3. \A j \in Page : DRAM'[j] = NONE \/ DRAM'[j] = DRAM[j]
      BY <1>3, <2>2 DEF TypeOK
    <3>4. QED
      BY <1>2, <1>3, <2>3, <3>2, <3>3 DEF Memory
  <2>6. Endings'
    <3>1. ret'[PROC_SHELL] = child
      BY <1>3, <1>4, <2>2 DEF TypeOK
    <3>2. QED
      BY <1>1, <1>2, <1>3, <2>3, <2>4, <3>1 DEF Endings, ChildEnded, NoneEnds
  <2>7. QED
    BY <1>3, <1>6, <1>7, <2>4, <2>5, <2>6 DEF IInv, Machine
<1>10. QED
  BY <1>1, <1>8, <1>9 DEF Wait

-----------------------------------------------------------------------------
(***************************************************************************)
(* Every step.                                                             *)
(***************************************************************************)
LEMMA ShellProcStep ==
  ASSUME Deployed, IInv, ShellProc
  PROVE  IInv'
<1>1. Machine /\ Standing /\ Session
  BY DEF IInv
<1>2. CASE Receive
  BY <1>2, ReceiveStep
<1>3. CASE ForkProgram
  BY <1>3, ForkFailsStep, ForkStep
<1>4. CASE At("forked") /\ WaitForChild
  BY <1>4, WaitStep
<1>5. CASE \/ Greet \/ Login \/ Prompt \/ Command \/ OpenTarget \/ ReadOn \/ Finish
           \/ Run /\ ~ForkProgram /\ ~(At("forked") /\ WaitForChild)
  <2>1. running_pid = PROC_SHELL
    BY <1>5 DEF Greet, Login, Prompt, Command, OpenTarget, ReadOn, Finish, Run, ForkProgram,
                At, Running
  <2>2. Session' /\ Asking
    BY <1>1, <1>5, GreetKeeps, LoginKeeps, PromptKeeps, CommandKeeps, OpenTargetKeeps,
       ReadOnKeeps, FinishKeeps, RunAsks
  <2>3. QED
    BY <2>1, <2>2, AskStep
<1>6. QED
  BY <1>2, <1>3, <1>4, <1>5 DEF ShellProc

LEMMA ShellStep ==
  ASSUME Deployed, IInv, [ShellNext]_allVars
  PROVE  IInv'
<1>1. CASE UNCHANGED allVars
  <2>1. /\ UNCHANGED <<schedVars, timeVars, semVars, msgVars, procVars, runtime, ret>>
        /\ UNCHANGED <<shell, serving, fd_array, program>>
    BY <1>1 DEF allVars, vars, progVars
  <2>2. Session'
    BY <2>1, SessionSame DEF IInv
  <2>3. TypeOK'
    BY <2>1 DEF IInv, Machine, TypeOK, schedVars, timeVars, semVars, msgVars, procVars
  <2>4. Processes' /\ Waiters' /\ Memory'
    BY <2>1 DEF IInv, Machine, Processes, Waiters, Memory,
                schedVars, timeVars, msgVars, procVars
  <2>5. Standing'
    BY <2>1 DEF IInv, Standing, msgVars
  <2>6. Endings'
    BY <2>1 DEF IInv, Endings, ChildEnded, schedVars, procVars
  <2>7. QED
    BY <2>2, <2>3, <2>4, <2>5, <2>6 DEF IInv, Machine
<1>2. CASE Tick
  <2>1. Plain /\ UNCHANGED <<msgVars, shell, serving, fd_array, program>>
    BY <1>2 DEF Tick, Plain, Timer, progVars
  <2>2. QED
    BY <2>1, ElsewhereStep
<1>3. CASE InitProc
  <2>1. Plain /\ UNCHANGED <<msgVars, shell, serving, fd_array, program>>
    BY <1>3 DEF InitProc, Plain, Sleep, progVars
  <2>2. QED
    BY <2>1, ElsewhereStep
<1>4. CASE UserProgram
  BY <1>4, ProgramStep
<1>5. CASE FileService \/ StdinProc \/ StdoutProc
  <2>1. Session' /\ Serving
    BY <1>5, ServersKeep DEF IInv
  <2>2. QED
    BY <2>1, ServerStep
<1>6. CASE ShellProc
  BY <1>6, ShellProcStep
<1>7. QED
  BY <1>1, <1>2, <1>3, <1>4, <1>5, <1>6 DEF ShellNext, Work

LEMMA ShellInitially == ShellInit => IInv
<1> SUFFICES ASSUME ShellInit PROVE IInv
  OBVIOUS
<1>1. Init /\ TypeOK
  BY TypeInit DEF ShellInit
<1>2. /\ shell = [at |-> "boot", asked |-> FALSE, login |-> NULL, verb |-> NULL,
                  path |-> NULL, child |-> NULL, shown |-> <<>>]
      /\ serving = {} /\ fd_array = InitFDs
      /\ program = [p \in Pid \ 0 .. BOOT_PROCS - 1 |-> NoProgram]
  BY DEF ShellInit
<1>3. /\ state = [p \in Pid |-> IF Booted(p) THEN "READY" ELSE "FREE"]
      /\ trans_table = [p \in Pid |-> IF Booted(p) THEN OS_trans_table ELSE NONE]
      /\ msg_q = [p \in Pid |-> <<>>] /\ msg_wait_q = [p \in Pid |-> <<>>]
      /\ DRAM = [i \in Page |-> NONE]
      /\ running_pid = 0 /\ sleep_q = <<>>
      /\ ready_q = [i \in 1 .. BOOT_PROCS - 1 |-> i]
      /\ free_q = [i \in 1 .. MAX_PROC_NUM - BOOT_PROCS |-> BOOT_PROCS + i - 1]
  BY <1>1 DEF Init
<1>4. Standing
  BY <1>2, <1>3 DEF Standing, Fields
<1>5. Processes
  <2>1. Once(ready_q)
    BY <1>3 DEF Once
  <2>2. Once(sleep_q) /\ \A p \in System : p \notin Range(sleep_q)
    BY <1>3 DEF Once, Range
  <2>3. \A p \in System : state[p] = "READY" /\ running_pid # p
    BY <1>3, SystemFacts
  <2>4. QED
    BY <2>1, <2>2, <2>3 DEF Processes, Ordered, Live
<1>6. Waiters
  BY <1>3 DEF Waiters
<1>7. Memory
  <2>1. \A p \in Range(free_q) : ~Booted(p)
    BY <1>3, KernelAssumption, ShellAssumption DEF Range, Booted
  <2>2. \A p \in System : trans_table[p] = OS_trans_table
    BY <1>3, SystemFacts
  <2>3. QED
    BY <1>3, <2>1, <2>2 DEF Memory
<1>8. Endings
  BY <1>2, <1>3 DEF Endings, ChildEnded
<1>9. Session
  <2>1. shell.at = "boot" /\ ~shell.asked /\ shell.shown = <<>> /\ "boot" \notin Stages
        /\ "boot" \notin Finding
    BY <1>2 DEF Stages, Finding
  <2>2. Quiet
    BY <1>2, <1>3, <2>1, ShellFacts DEF Quiet, Empty, Idle, Pending
  <2>3. fd_array \in [FD -> Descriptor(Owners)] /\ NoneOpen
    BY <1>2 DEF InitFDs, NoneOpen, Descriptor, Owners
  <2>4. QED
    BY <2>1, <2>2, <2>3 DEF Session, Alone
<1>10. QED
  BY <1>1, <1>4, <1>5, <1>6, <1>7, <1>8, <1>9 DEF IInv, Machine

(* IInv is an invariant.                                                    *)
LEMMA Invariant == ASSUME Deployed PROVE ShellSpec => []IInv
<1>1. ShellInit => IInv
  BY ShellInitially
<1>2. IInv /\ [ShellNext]_allVars => IInv'
  BY ShellStep
<1>3. QED
  BY <1>1, <1>2, PTL DEF ShellSpec

-----------------------------------------------------------------------------
(***************************************************************************)
(* What is said of the system at work.                                     *)
(***************************************************************************)

(* A shell that is not in MsgRcv() and has not to call it has its reply.    *)
LEMMA AnswerIs ==
  ASSUME IInv, ~shell.asked, state[PROC_SHELL] # "WAIT", shell.at \in Stages
  PROVE  inbox[PROC_SHELL].sender = AskedOf(shell.at)
<1>1. msg_wait_q[PROC_SHELL] = <<>>
  BY ShellFacts DEF IInv, Machine, Waiters
<1>2. PICK d \in Messages : Received(d)
  BY <1>1 DEF IInv, Session, Exchange, Sent, Taken, Replied, Pending
<1>3. QED
  BY <1>2 DEF Received, Partner

(* No mailbox has two messages, no two mailboxes have one each.             *)
LEMMA OneMessage ==
  ASSUME IInv
  PROVE  \E p : \A q \in Pid : (q # p => msg_q[q] = <<>>) /\ Len(msg_q[q]) <= 1
<1>1. CASE Empty
  BY <1>1 DEF Empty
<1>2. CASE \E p, sender, d : Only(p, sender, d)
  <2>1. PICK p, sender, d : Only(p, sender, d)
    BY <1>2
  <2>2. PICK m : m = [sender |-> sender, data |-> d]
    OBVIOUS
  <2>3. \A q \in Pid : msg_q[q] = IF q = p THEN <<m>> ELSE <<>>
    BY <2>1, <2>2 DEF Only
  <2>4. Len(<<m>>) <= 1 /\ Len(<<>>) <= 1
    OBVIOUS
  <2>5. \A q \in Pid : (q # p => msg_q[q] = <<>>) /\ Len(msg_q[q]) <= 1
    <3> TAKE q \in Pid
    <3>1. q = p => msg_q[q] = <<m>>
      BY <2>3
    <3>2. q # p => msg_q[q] = <<>>
      BY <2>3
    <3>3. Len(msg_q[q]) <= 1
      BY <2>4, <3>1, <3>2, Zenon
    <3>4. QED
      BY <3>2, <3>3
  <2>6. QED
    BY <2>5
<1>3. QED
  BY <1>1, <1>2 DEF IInv, Session, Exchange, Alone, Sent, Taken, Replied, Received, Quiet

(***************************************************************************)
(* One request and its reply are all there is at a time, so the shell goes *)
(* on with the reply of the process it asked (OneAtATime).                 *)
(***************************************************************************)
THEOREM OneExchange == ASSUME Deployed PROVE ShellSpec => []OneAtATime
<1>1. ASSUME IInv PROVE OneAtATime
  <2>1. PICK p : \A q \in Pid : (q # p => msg_q[q] = <<>>) /\ Len(msg_q[q]) <= 1
    BY <1>1, OneMessage
  <2>2. Answered => inbox[PROC_SHELL].sender = AskedOf(shell.at)
    BY <1>1, AnswerIs DEF Answered, IInv, Session
  <2>3. QED
    BY <2>1, <2>2 DEF OneAtATime
<1>2. QED
  BY <1>1, Invariant, PTL

(***************************************************************************)
(* The shell reads and closes what it opened, and leaves no descriptor     *)
(* (OwnDescriptor).                                                        *)
(***************************************************************************)
THEOREM OwnsDescriptor == ASSUME Deployed PROVE ShellSpec => []OwnDescriptor
<1>1. ASSUME IInv PROVE OwnDescriptor
  <2>1. Machine /\ Session
    BY <1>1 DEF IInv
  <2>2. ASSUME NEW code \in {READ_OBJ, CLOSE_OBJ}, Asked(code)
        PROVE  /\ CanAccessFD(fd_array, inbox[PROC_FILE].data.fd, PROC_SHELL)
               /\ fd_array[inbox[PROC_FILE].data.fd].item = FindName(shell.path)
    <3>1. PICK d : FileAsked(d) /\ d.code = code
      BY <2>1, <2>2, AskedFor
    <3>2. shell.at \in Reading
      BY <2>2, <3>1
         DEF FileAsked, AsksFor, Reading, CHK_OBJ, OPEN_OBJ, READ_OBJ, CLOSE_OBJ
    <3>3. Opened(d.fd, shell.shown)
      BY <3>1, <3>2 DEF FileAsked, AsksFor
    <3>4. inbox[PROC_FILE].data = d
      BY <3>1 DEF FileAsked
    <3>5. QED
      BY <3>3, <3>4 DEF Opened, CanAccessFD
  <2>3. ASSUME shell.at \in {"prompt", "line", "check"}, NEW fd \in FD
        PROVE  fd_array[fd].owner # PROC_SHELL
    <3>1. shell.at \in Stages /\ shell.at \notin {"open", "show", "read", "close"}
      BY <2>3 DEF Stages, Finding
    <3>2. NoneOpen
      BY <2>1, <3>1 DEF Session, Exchange, AsksFor, Answers, Reading
    <3>3. QED
      BY <3>2 DEF NoneOpen, UNUSED, PROC_SHELL
  <2>4. QED
    BY <2>2, <2>3 DEF OwnDescriptor
<1>2. QED
  BY <1>1, Invariant, PTL

(***************************************************************************)
(* What was shown when the object is closed is all of it (ShowsAll).       *)
(***************************************************************************)
THEOREM AllIsShown == ASSUME Deployed PROVE ShellSpec => []ShowsAll
<1>1. ASSUME IInv PROVE ShowsAll
  <2>1. "close" \in Stages
    BY DEF Stages, Finding
  <2>2. QED
    BY <1>1, <2>1 DEF IInv, Session, Exchange, AsksFor, Answers, AllShown, ShowsAll
<1>2. QED
  BY <1>1, Invariant, PTL

(***************************************************************************)
(* Whether the program ends first or the shell waits first, the child that *)
(* the shell reports has ended, and WaitISR() finds no other zombie than   *)
(* one that was a program (ChildEnded).                                    *)
(***************************************************************************)
THEOREM ReportsEnded == ASSUME Deployed PROVE ShellSpec => []ChildEnded
<1>1. IInv => ChildEnded
  BY DEF IInv, Endings
<1>2. QED
  BY <1>1, Invariant, PTL

(* A process of main() is but once in a queue.                              *)
LEMMA OncePlaced ==
  ASSUME NEW q, Once(q), NEW p \in System
  PROVE  \A i, j \in PlacesIn(p, q) : i = j /\ p \in Range(q)
<1>1. SUFFICES ASSUME NEW i \in DOMAIN q, NEW j \in DOMAIN q, q[i] = p, q[j] = p
               PROVE  i = j /\ p \in Range(q)
  BY DEF PlacesIn
<1>2. i = j
  BY <1>1 DEF Once
<1>3. p \in Range(q)
  BY <1>1 DEF Range
<1>4. QED
  BY <1>2, <1>3

(***************************************************************************)
(* However programs end, and though their PIDs and pages come back by half *)
(* or twice, the processes main() starts keep their PIDs, their PCBs and   *)
(* the kernel's table, and are in one place each (SystemKept).             *)
(***************************************************************************)
THEOREM SystemStays == ASSUME Deployed PROVE ShellSpec => []SystemKept
<1>1. ASSUME IInv, NEW p \in System PROVE Kept(p)
  <2>1. /\ TypeOK /\ Processes /\ Memory /\ p \in Pid /\ Booted(p) /\ p # NONE
    BY <1>1, SystemFacts DEF IInv, Machine
  <2>2. trans_table[p] = OS_trans_table /\ PagesOf(p) = {}
    BY <2>1 DEF Memory, PagesOf
  <2>3. state[p] \in Live /\ (state[p] = "RUN" <=> running_pid = p)
    BY <2>1 DEF Processes, Ordered
  <2>4. \A i, j \in PlacesIn(p, ready_q) : i = j /\ state[p] = "READY"
    <3>1. Once(ready_q) /\ (p \in Range(ready_q) => state[p] = "READY")
      BY <2>1 DEF Processes, Ordered
    <3>2. QED
      BY <3>1, OncePlaced
  <2>5. \A i, j \in PlacesIn(p, sleep_q) : i = j /\ state[p] = "SLEEP"
    <3>1. Once(sleep_q) /\ (p \in Range(sleep_q) => state[p] = "SLEEP")
      BY <2>1 DEF Processes, Ordered
    <3>2. QED
      BY <3>1, OncePlaced
  <2>6. PlacesIn(p, free_q) = {}
    BY <2>1 DEF Memory, PlacesIn, Range
  <2>7. QED
    BY <2>2, <2>3, <2>4, <2>5, <2>6 DEF Kept, Live
<1>2. IInv => SystemKept
  BY <1>1 DEF SystemKept
<1>3. QED
  BY <1>2, Invariant, PTL
=============================================================================
