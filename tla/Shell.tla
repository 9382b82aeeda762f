------------------------------- MODULE Shell --------------------------------
(***************************************************************************)
(* The whole system at work: the kernel, the processes main() starts and   *)
(* the program the shell forks.  Each process has the PID of typedef.h and *)
(* makes the system calls of its code, in their order: every step is a     *)
(* trap of Kernel, made by the running process, with what the program does *)
(* between the trap before it and this one.                                *)
(*                                                                         *)
(* A message is a record of code[0], code[1] and its data; the data of     *)
(* what is printed are TEXT, or the piece of an object that is shown.  The *)
(* terminal itself is in module Terminal: StdinProc answers with any of    *)
(* the lines the user may type, StdoutProc with the message it got.  A     *)
(* line has a verb ("dir", "cat", "end", or "run" for all others) and a    *)
(* path.                                                                   *)
(***************************************************************************)
EXTENDS Paging, FileTable

CONSTANTS
  Lines,      \* at "login", "password" and "line": the lines the user types
  Leftovers,  \* what an uninitialized code[1] may hold
  Remains,    \* the paths that the rest of an overwritten message may spell
  TEXT        \* a text to print

PROC_INIT   == 1
PROC_FILE   == 2
PROC_SHELL  == 3
PROC_STDIN  == 4
PROC_STDOUT == 5

CHK_OBJ   == 80
OPEN_OBJ  == 81
READ_OBJ  == 82
CLOSE_OBJ == 84

(***************************************************************************)
(* main() starts six processes, there are descriptors, a program has a     *)
(* name, and a line typed at the prompt that is taken for one has a path.  *)
(***************************************************************************)
ASSUME ShellAssumption ==
  /\ BOOT_PROCS = 6 /\ MAX_FD > 0 /\ NULL \notin {"take5", "test"}
  /\ \A line \in Lines["line"] :
        /\ line.verb \in {"end", "dir", "cat", "run"}
        /\ line.path = NULL => line.verb # "run"
        /\ line.path # NULL => IsSequence(line.path)
  /\ \A path \in Remains : IsSequence(path)

(***************************************************************************)
(* What the messages hold: the Data of Kernel.                             *)
(***************************************************************************)
Paths  == {line.path : line \in Lines["line"]} \cup Remains \cup {<<SLASH>>}
Pieces == Item \cup (Item \X Nat \X Nat)

Bodies ==
  {TEXT} \cup Lines["login"] \cup Lines["password"] \cup Lines["line"]
    \cup [path : Paths] \cup [object : Item] \cup [piece : Pieces]

Messages == [code : Int, fd : FD \cup Leftovers \cup {NULL}, body : Bodies]

VARIABLES
  shell,      \* what ShellProc() is doing, and its variables
  serving,    \* the servers that have called MsgRcv() for a request
  fd_array,   \* of FileService
  program     \* of a forked process: its name, and how far it is

progVars == <<shell, serving, fd_array, program>>
allVars  == <<vars, table, progVars>>

NoProgram == [name |-> NULL, at |-> 0]

Running(p) == running_pid = p

-----------------------------------------------------------------------------
(***************************************************************************)
(* ShellProc(), DirSub() and CatSub() ask one process after the other:     *)
(* MsgSnd(), then MsgRcv() of the reply in the same my_msg.  shell.at is   *)
(* what was asked last; while shell.asked the reply is not received yet.   *)
(***************************************************************************)
my_msg == inbox[PROC_SHELL].data

AskedOf(at) ==
  IF at \in {"check", "open", "read", "close"} THEN PROC_FILE
  ELSE IF at \in {"login", "password", "line"} THEN PROC_STDIN
  ELSE PROC_STDOUT

Ask(at, m, sh) ==
  /\ MsgSnd(AskedOf(at), m)
  /\ shell' = [sh EXCEPT !.at = at, !.asked = TRUE]
  /\ UNCHANGED <<serving, fd_array, program, table>>

Say(at) == Ask(at, [my_msg EXCEPT !.body = TEXT], shell)

(* (The data of a READ_OBJ or CLOSE_OBJ do not matter.)                    *)
Request(at, code, sh) ==
  Ask(at, [my_msg EXCEPT !.code = code, !.body = [path |-> sh.path]], sh)

(* Mutant: the reply of the prompt is not waited for.                      *)
AtOnce(at) ==
  Running(PROC_SHELL) /\ (shell.asked => at = "prompt") /\ shell.at = at

At(at) == Running(PROC_SHELL) /\ ~shell.asked /\ shell.at = at

(* The reply to what was asked.                                            *)
Receive ==
  /\ Running(PROC_SHELL) /\ shell.asked
  /\ MsgRcv
  /\ shell' = [shell EXCEPT !.asked = FALSE]
  /\ UNCHANGED <<serving, fd_array, program, table>>

Greet ==
  /\ At("boot")
  /\ Ask("greeting", [code |-> 0, fd |-> NULL, body |-> TEXT], shell)

(* Login name and password are the same, or the user has to try again.     *)
Login ==
  \/ (At("greeting") \/ At("invalid")) /\ Say("name?")
  \/ At("name?") /\ Ask("login", my_msg, shell)
  \/ At("login") /\ Ask("password?", [my_msg EXCEPT !.body = TEXT],
                        [shell EXCEPT !.login = my_msg.body])
  \/ At("password?") /\ Ask("password", my_msg, shell)
  \/ At("password") /\ my_msg.body # shell.login /\ Say("invalid")
  \/ /\ At("password") /\ my_msg.body = shell.login
     /\ Ask("prompt", [my_msg EXCEPT !.body = TEXT], [shell EXCEPT !.login = NULL])

Prompt == At("prompt") /\ Ask("line", my_msg, shell)

(* "dir" alone lists the root; "cat" alone goes on behind the end of the   *)
(* line, where the rest of an earlier text is.                             *)
Targets(line) ==
  IF line.path # NULL THEN {line.path}
  ELSE IF line.verb = "dir" THEN {<<SLASH>>} ELSE Remains

(* DirSub() and CatSub() have a my_msg of their own, not initialized.      *)
Command ==
  /\ At("line")
  /\ LET line == my_msg.body
     IN  \/ line.verb = "end" /\ Say("name?")
         \/ /\ line.verb \in {"dir", "cat"}
            /\ \E path \in Targets(line), fd \in Leftovers :
                 Ask("check", [code |-> CHK_OBJ, fd |-> fd, body |-> [path |-> path]],
                     [shell EXCEPT !.verb = line.verb, !.path = path])
         \/ /\ line.verb = "run"
            /\ Request("check", CHK_OBJ,
                       [shell EXCEPT !.verb = "run", !.path = line.path])

(* Back at the prompt; the local variables of the command are gone.  (Of   *)
(* the code[] of ShellProc() itself nothing is read before it is set.)     *)
Done ==
  Ask("prompt", [code |-> 0, fd |-> NULL, body |-> TEXT],
      [shell EXCEPT !.verb = NULL, !.path = NULL, !.child = NULL, !.shown = <<>>])

(***************************************************************************)
(* DirSub() and CatSub() open what they can list or show.                  *)
(***************************************************************************)
Good == my_msg.code = GOOD

(* It is listed if it is a directory, and shown if it is a file.           *)
Opens ==
  Good /\ \/ shell.verb = "dir" /\ A_ISDIR(my_msg.body.object)
          \/ shell.verb = "cat" /\ ~A_ISDIR(my_msg.body.object)

(* The attributes of a file, or a complaint, is all there is to print.     *)
OpenTarget ==
  /\ At("check") /\ shell.verb # "run"
  /\ \/ Opens /\ Request("open", OPEN_OBJ, shell)
     \/ ~Opens /\ Say("tell")

(* The result of the open is not tested, that of a read ends the loop.     *)
ReadOn ==
  \/ (At("open") \/ At("show")) /\ Request("read", READ_OBJ, shell)
  \/ /\ At("read") /\ Good
     /\ Ask("show", my_msg, [shell EXCEPT !.shown = Append(@, my_msg.body.piece)])
  \/ At("read") /\ ~Good /\ Request("close", CLOSE_OBJ, shell)

Finish ==
  \/ /\ At("close")
     /\ \/ Good /\ Done
        \/ ~Good /\ Say("tell")
  \/ At("tell") /\ Done

(***************************************************************************)
(* Any other line is taken for a program: what was found is forked.  The   *)
(* result of Fork() is printed, not tested.                                *)
(***************************************************************************)
ForkProgram ==
  /\ At("check") /\ shell.verb = "run" /\ Good
  /\ PagedFork
  /\ shell' = [shell EXCEPT !.at = "fork", !.child = ret'[PROC_SHELL]]
  /\ program' = IF ForkFails THEN program
                ELSE [program EXCEPT ![Head(free_q)] =
                        [name |-> Entry(my_msg.body.object).name, at |-> 1]]
  /\ UNCHANGED <<serving, fd_array>>

WaitForChild ==
  /\ Wait
  /\ shell' = [shell EXCEPT !.at = "wait"]
  /\ UNCHANGED <<serving, fd_array, program, table>>

Run ==
  \/ At("check") /\ shell.verb = "run" /\ ~Good /\ Say("tell")
  \/ ForkProgram
  \/ At("fork") /\ Say("forked")
  \/ /\ At("forked")
     /\ \/ Good /\ WaitForChild
        \/ ~Good /\ Done
  \/ At("wait") /\ Say("exited")
  \/ At("exited") /\ Done

ShellProc ==
  Receive \/ Greet \/ Login \/ Prompt \/ Command
  \/ OpenTarget \/ ReadOn \/ Finish \/ Run

-----------------------------------------------------------------------------
(***************************************************************************)
(* The servers: MsgRcv() of a request, MsgSnd() of the same message, with  *)
(* what they changed in it, to its sender.                                 *)
(***************************************************************************)
Serve(p) ==
  /\ Running(p) /\ p \notin serving
  /\ MsgRcv
  /\ serving' = serving \cup {p}
  /\ UNCHANGED <<shell, fd_array, program, table>>

Return(p, m) ==
  /\ Running(p) /\ p \in serving
  /\ MsgSnd(inbox[p].sender, m)
  /\ serving' = serving \ {p}
  /\ UNCHANGED <<shell, program, table>>

(* Mutant: the reply is a message of its own.                              *)
FreshReply(m) == [m EXCEPT !.fd = NULL]

Printed(m) == m

StdoutProc ==
  \/ Serve(PROC_STDOUT)
  \/ Return(PROC_STDOUT, Printed(inbox[PROC_STDOUT].data)) /\ UNCHANGED fd_array

StdinProc ==
  \/ Serve(PROC_STDIN)
  \/ /\ Running(PROC_STDIN) /\ PROC_STDIN \in serving
     /\ \E line \in Lines[shell.at] :
          Return(PROC_STDIN, [inbox[PROC_STDIN].data EXCEPT !.body = line])
     /\ UNCHANGED fd_array

(* The switch of FileService(): r is what the function called returned.    *)
Asked(code) ==
  /\ Running(PROC_FILE) /\ PROC_FILE \in serving
  /\ inbox[PROC_FILE].data.code = code

FileReply(r, fd, body) ==
  Return(PROC_FILE, [code |-> r.code,
                     fd   |-> IF r.code = GOOD THEN fd ELSE inbox[PROC_FILE].data.fd,
                     body |-> IF r.code = GOOD THEN body ELSE inbox[PROC_FILE].data.body])

FileService ==
  LET m      == inbox[PROC_FILE].data
      sender == inbox[PROC_FILE].sender
  IN  \/ Serve(PROC_FILE)
      \/ /\ Asked(CHK_OBJ)
         /\ LET r == ChkObj(m.body.path)
            IN  FileReply(r, m.fd, [object |-> r.data]) /\ UNCHANGED fd_array
      \/ /\ Asked(OPEN_OBJ)
         /\ LET r == OpenObj(fd_array, m.body.path, sender)
            IN  FileReply(r, r.fd, m.body) /\ fd_array' = r.fds
      \/ /\ Asked(READ_OBJ)
         /\ LET r == ReadObj(fd_array, m.fd, sender)
            IN  FileReply(r, m.fd, [piece |-> r.data]) /\ fd_array' = r.fds
      \/ /\ Asked(CLOSE_OBJ)
         /\ LET r == CloseObj(fd_array, m.fd, sender)
            IN  FileReply(r, m.fd, m.body) /\ fd_array' = r.fds

(* Sleep(1) for ever; the keys that stop the machine are left out.         *)
InitProc ==
  /\ Running(PROC_INIT)
  /\ \E ticks \in SleepTicks : Sleep(ticks)
  /\ UNCHANGED <<table, progVars>>

(***************************************************************************)
(* The programs take5 and test.  When a program calls Exit() the shell may *)
(* be in Wait(), or not have come so far yet.                              *)
(***************************************************************************)
Runs(name) == running_pid \in DOMAIN program /\ program[running_pid].name = name

Goes(at) ==
  /\ program' = [program EXCEPT ![running_pid].at = at]
  /\ UNCHANGED <<shell, serving, fd_array>>

Ends ==
  /\ program' = [program EXCEPT ![running_pid] = NoProgram]
  /\ UNCHANGED <<shell, serving, fd_array>>

Take5 ==
  /\ Runs("take5")
  /\ \/ program[running_pid].at = 1 /\ GetPid /\ Goes(2)
     \/ /\ program[running_pid].at = 2
        /\ \E ticks \in SleepTicks : Sleep(ticks)
        /\ Goes(3)
     \/ program[running_pid].at = 3 /\ Exit /\ Ends
  /\ UNCHANGED table

(* test stores to one page after the other, to four or, in another version, *)
(* to ten; at is the page it has got to.  An address that leads nowhere is  *)
(* a trap, and the store is tried again after it.                           *)
Unmapped ==
  {k \in TouchedSlots : /\ k >= program[running_pid].at
                        /\ Translate(running_pid, CODE_IDX, k) = NONE}

Test ==
  /\ Runs("test")
  /\ \/ /\ Unmapped # {}
        /\ PagedFault(CODE_IDX, Least(Unmapped))
        /\ \/ FreePages # {} /\ Goes(Least(Unmapped))
           \/ FreePages = {} /\ Ends
     \/ /\ program[running_pid].at \notin Unmapped
        /\ Exit
        /\ Ends
        /\ UNCHANGED table

-----------------------------------------------------------------------------
ShellInit ==
  /\ Init
  /\ shell = [at |-> "boot", asked |-> FALSE, login |-> NULL, verb |-> NULL,
              path |-> NULL, child |-> NULL, shown |-> <<>>]
  /\ serving = {}
  /\ fd_array = InitFDs
  /\ InitTables
  /\ program = [p \in Pid \ 0 .. BOOT_PROCS - 1 |-> NoProgram]

UserProgram == Take5 \/ Test

Work == UserProgram \/ FileService \/ ShellProc \/ StdinProc \/ StdoutProc

(***************************************************************************)
(* An assumption on time.  take5 sleeps for as many seconds as its PID     *)
(* says, six at least, and the shell has one line to print between Fork()  *)
(* and Wait(): the tick that ends the sleep does not come before the shell *)
(* has called Wait().  Nothing is assumed of test, which does not sleep.   *)
(***************************************************************************)
InTime ==
  \A p \in DOMAIN program :
    /\ shell.at \in {"fork", "forked"} /\ shell.child = p
    /\ program[p] = [name |-> "take5", at |-> 3]
    => state[p] = "SLEEP"

Tick == Timer /\ UNCHANGED <<table, progVars>> /\ InTime'

ShellNext == Tick \/ InitProc \/ Work

ShellSpec == ShellInit /\ [][ShellNext]_allVars

(* Ticks keep coming, and processes that run again and again get to their  *)
(* next trap: a tick takes the CPU away, but what was computed is kept.    *)
(* InitProc goes to sleep even when the next tick is long in coming.       *)
FairShellSpec ==
  ShellSpec /\ WF_allVars(Tick) /\ WF_allVars(InitProc) /\ SF_allVars(Work)

-----------------------------------------------------------------------------
(***************************************************************************)
(* OneAtATime: at most one message is on its way, so no mailbox fills up,  *)
(* and when the shell goes on, it does so with a reply of the process it   *)
(* asked: MsgRcv() takes whatever comes first, from whomever, and nothing  *)
(* in a message says which request it answers.                             *)
(***************************************************************************)
Answered ==
  /\ ~shell.asked /\ state[PROC_SHELL] # "WAIT"
  /\ shell.at \notin {"boot", "fork", "wait"}

OneAtATime ==
  /\ \A p, q \in Pid : msg_q[p] # <<>> /\ msg_q[q] # <<>> => p = q
  /\ \A p \in Pid : Len(msg_q[p]) <= 1
  /\ Answered => inbox[PROC_SHELL].sender = AskedOf(shell.at)

(***************************************************************************)
(* OwnDescriptor: what the shell reads and closes is the descriptor that   *)
(* its last open gave it, though the results of opens are not tested and   *)
(* the number is kept only in messages that pass through two servers; and  *)
(* when a command is done no descriptor is left.                           *)
(***************************************************************************)
OwnDescriptor ==
  /\ \A code \in {READ_OBJ, CLOSE_OBJ} :
       Asked(code) =>
         /\ CanAccessFD(fd_array, inbox[PROC_FILE].data.fd, PROC_SHELL)
         /\ fd_array[inbox[PROC_FILE].data.fd].item = FindName(shell.path)
  /\ shell.at \in {"prompt", "line", "check"} =>
       \A fd \in FD : fd_array[fd].owner # PROC_SHELL

(***************************************************************************)
(* ShowsAll: when "dir" or "cat" closes its object it has shown all of it, *)
(* in order: the entries of the directory, or the bytes of the file.       *)
(***************************************************************************)
ShowsAll == shell.at = "close" => shell.shown = Rest(FindName(shell.path), 0)

(***************************************************************************)
(* ExitReported: the child whose exit the shell reports is the one it      *)
(* announced after Fork(), and it is gone.  (When programs end before the  *)
(* shell waits, neither is so: see ChildEnded.)                            *)
(***************************************************************************)
ExitReported ==
  shell.at = "wait" /\ state[PROC_SHELL] # "FORKWAIT" =>
    ret[PROC_SHELL] = shell.child /\ state[shell.child] = "FREE"

(***************************************************************************)
(* ChildEnded: the child whose exit the shell reports has come to its end, *)
(* whichever was first, its Exit() or the Wait(), and though WaitISR()     *)
(* reaps by half and may find what is left of the same zombie again.       *)
(***************************************************************************)
ChildEnded ==
  shell.at = "wait" /\ state[PROC_SHELL] # "FORKWAIT" =>
    ret[PROC_SHELL] \in DOMAIN program /\ program[ret[PROC_SHELL]] = NoProgram

(***************************************************************************)
(* SystemKept: whatever programs do and however they end, the processes    *)
(* main() starts stay: none of their PIDs gets into free_q, their PCBs and *)
(* tables are never given away or cleared, and none is queued twice or run *)
(* while it is in a queue.                                                 *)
(***************************************************************************)
System == 1 .. BOOT_PROCS - 1

PlacesIn(p, q) == {i \in DOMAIN q : q[i] = p}

Kept(p) ==
  /\ trans_table[p] = OS_trans_table /\ PagesOf(p) = {}
  /\ state[p] \in {"READY", "RUN", "SLEEP", "WAIT", "FORKWAIT"}
  /\ state[p] = "RUN" <=> running_pid = p
  /\ \A i, j \in PlacesIn(p, ready_q) : i = j /\ state[p] = "READY"
  /\ \A i, j \in PlacesIn(p, sleep_q) : i = j /\ state[p] = "SLEEP"
  /\ PlacesIn(p, free_q) = {}

SystemKept == \A p \in System : Kept(p)

(***************************************************************************)
(* CommandDone: every command comes to an end: the shell prompts again.    *)
(***************************************************************************)
CommandDone == shell.at = "check" ~> shell.at = "prompt"

-----------------------------------------------------------------------------
(***************************************************************************)
(* What the comments say and the code does not do.                         *)
(***************************************************************************)

(***************************************************************************)
(* FaultRepaired: PF_ISR() repairs a page fault, and "if it can't fix it", *)
(* it kills the process (isr.c): after the trap the store can be done, to  *)
(* a page that is given to nobody else, unless the program is gone.        *)
(***************************************************************************)
FaultRepaired ==
  [][\A p \in Pid, k \in TouchedSlots :
       running_pid = p /\ Test /\ Unmapped # {} /\ k = Least(Unmapped) =>
         \/ program'[p] = NoProgram
         \/ Translate(p, CODE_IDX, k)' \in PagesOf(p)']_allVars
=============================================================================
