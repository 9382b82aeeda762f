------------------------------ MODULE Terminal ------------------------------
(***************************************************************************)
(* The serial terminal: the interrupt handler IRQ3ISR(), the processes     *)
(* StdinProc and StdoutProc that share port_data with it, and ShellProc    *)
(* that asks them for input and output.                                    *)
(*                                                                         *)
(* The processes run with interrupts on, also inside their own calls of    *)
(* EnQ() and DeQ(): these are split where an interrupt makes a difference. *)
(* IRQ3ISR() runs as a whole.  The semaphores behave as in module Kernel   *)
(* for the one process each of them serves; a request is a message and its *)
(* reply, of which only the presence matters.  The texts of the messages,  *)
(* the login names and the shell's commands are left out.                  *)
(*                                                                         *)
(* No key sends NUL and a key is pressed only when the port has given away *)
(* the previous one.                                                       *)
(***************************************************************************)
EXTENDS Integers, Sequences

CONSTANTS
  Q_LEN,       \* capacity of the buffers                   (20)
  Keys,        \* the characters the user types, CR among them
  CR, LF,      \* '\r' and '\n'
  JUNK,        \* the -1 DeQ() fills a queue with
  NONE,        \* no character
  Lines,       \* the texts StdoutProc is asked to print
  TYPE_AHEAD,  \* most characters typed before StdinProc takes them
  MAX_LIMIT    \* bound of the count the printer interrupt may reach;
               \* 0: there is no printer interrupt

Chars == Keys \cup {LF, JUNK} \cup UNION {{l[i] : i \in DOMAIN l} : l \in Lines}

(***************************************************************************)
(* A line feed and its carriage return must fit together.                  *)
(***************************************************************************)
ASSUME TerminalAssumption ==
  /\ Q_LEN \in Nat /\ Q_LEN >= 2
  /\ CR \in Keys /\ LF # CR /\ JUNK \notin Keys \cup {LF} /\ NONE \notin Chars
  /\ \A line \in Lines : line \in Seq(Chars)
  /\ TYPE_AHEAD \in Nat /\ MAX_LIMIT \in Nat

VARIABLES
  port_data,   \* buffers, semaphores and flags of port_data
  uart,        \* the serial port: character being sent, pending events
  stdin,       \* StdinProc: its next step and the character it took
  stdout,      \* StdoutProc: its next step and the text left to print
  shell,       \* ShellProc: what it does and whether it waits for a reply
  mail,        \* whose mailboxes hold a message
  toSend,      \* what StdoutProc put in TX_buffer and TX() did not take
  toRead       \* what RX() put in RX_buffer and StdinProc did not take

vars == <<port_data, uart, stdin, stdout, shell, mail, toSend, toRead>>

-----------------------------------------------------------------------------
(***************************************************************************)
(* A q_t; tail always equals len.                                          *)
(***************************************************************************)
Slots == 0 .. Q_LEN - 1

EmptyQ == [q |-> [i \in Slots |-> JUNK], len |-> 0]

Store(c, b) == [b EXCEPT !.q[b.len] = c]

(* Mutant: a full queue is not noticed.                                    *)
EnQUnchecked(c, b) == [Store(c, b) EXCEPT !.len = @ + 1]

EnQ(c, b) ==
  IF b.len < Q_LEN THEN [Store(c, b) EXCEPT !.len = @ + 1] ELSE b

(* The loops of DeQ(), after len--.                                        *)
Shift(b) ==
  [b EXCEPT !.q = [i \in Slots |-> IF i < b.len /\ i + 1 \in Slots
                                   THEN b.q[i + 1] ELSE JUNK]]

DeQ(b) == Shift([b EXCEPT !.len = @ - 1])

Contents(b) == [i \in 1 .. b.len |-> b.q[i - 1]]

-----------------------------------------------------------------------------
(***************************************************************************)
(* The semaphores: SemWaitISR() and SemPostISR() for one process.          *)
(***************************************************************************)
SemWaitISR(s) == IF s.limit > 0 THEN [s EXCEPT !.limit = @ - 1]
                 ELSE [s EXCEPT !.waits = TRUE]

(* Mutant: a post only counts.                                             *)
PostCounting(s) == [s EXCEPT !.limit = @ + 1]

SemPostISR(s) == IF s.waits THEN [s EXCEPT !.waits = FALSE]
                 ELSE [s EXCEPT !.limit = @ + 1]

-----------------------------------------------------------------------------
(***************************************************************************)
(* IRQ3ISR().  A step s of it is the state of port_data, of the serial     *)
(* port and of the two records of what the buffers should hold.            *)
(***************************************************************************)

(* outportb() to the port; a character still being sent would be garbled.  *)
Out(ch, s) ==
  [s EXCEPT !.uart.thr = ch, !.uart.thre = FALSE,
            !.uart.garbled = @ \/ s.uart.thr # NONE,
            !.port.TXRDY = 0]

(* Mutant: the semaphore is posted for an echoed character too.            *)
SendEchoPosting(s) ==
  Out(s.port.echo_buffer.q[0],
      [s EXCEPT !.port.echo_buffer = DeQ(@), !.port.TX_semaphore = SemPostISR(@)])

SendEcho(s) ==
  Out(s.port.echo_buffer.q[0], [s EXCEPT !.port.echo_buffer = DeQ(@)])

SendOutput(s) ==
  Out(s.port.TX_buffer.q[0],
      [s EXCEPT !.port.TX_buffer = DeQ(@), !.port.TX_semaphore = SemPostISR(@),
                !.toSend = Tail(@)])

(* Mutant: TXRDY is left as it was.                                        *)
StayBusy(s) == s

BecomeReady(s) == [s EXCEPT !.port.TXRDY = 1]

TX(s) ==
  IF s.port.echo_buffer.len > 0 THEN SendEcho(s)
  ELSE IF s.port.TX_buffer.len > 0 THEN SendOutput(s)
  ELSE BecomeReady(s)

Echo(ch, p) ==
  IF ch = CR THEN EnQ(LF, EnQ(CR, p.echo_buffer))
  ELSE IF p.echo_mode = 1 THEN EnQ(ch, p.echo_buffer)
  ELSE p.echo_buffer

(* Mutant: RX() posts the semaphore only for the delimiter.                *)
RXPostsDelimiter(s) ==
  LET ch == s.uart.rbr
  IN  [s EXCEPT !.uart.rbr = NONE,
                !.port.RX_buffer = EnQ(ch, @),
                !.port.RX_semaphore = IF ch = CR THEN SemPostISR(@) ELSE @,
                !.port.echo_buffer = Echo(ch, s.port),
                !.toRead = Append(@, ch)]

RX(s) ==
  LET ch == s.uart.rbr
  IN  [s EXCEPT !.uart.rbr = NONE,
                !.port.RX_buffer = EnQ(ch, @),
                !.port.RX_semaphore = SemPostISR(@),
                !.port.echo_buffer = Echo(ch, s.port),
                !.toRead = Append(@, ch)]

(* Mutants: the handler always, or never, goes on to TX().                 *)
TXAnyway(s) == TX(s)
TXNever(s) == s

TXIfReady(s) == IF s.port.TXRDY = 1 THEN TX(s) ELSE s

(* inportb() of the port's IIR names a received character first, else the  *)
(* transmitter, whose event this read clears.                              *)
IRQ3ISR(s) ==
  IF s.uart.rbr # NONE THEN TXIfReady(RX(s))
  ELSE IF s.uart.thre THEN TXIfReady(TX([s EXCEPT !.uart.thre = FALSE]))
  ELSE TXIfReady(s)

Handle ==
  LET s == IRQ3ISR([port |-> port_data, uart |-> uart,
                    toSend |-> toSend, toRead |-> toRead])
  IN  /\ port_data' = s.port
      /\ uart' = s.uart
      /\ toSend' = s.toSend
      /\ toRead' = s.toRead

IRQ3 ==
  /\ uart.rbr # NONE \/ uart.thre
  /\ Handle
  /\ UNCHANGED <<stdin, stdout, shell, mail>>

(* IRQ7: printing_semaphore is 0, the id TX_semaphore has.                 *)
IRQ7 ==
  /\ port_data.TX_semaphore.limit < MAX_LIMIT
  /\ port_data' = [port_data EXCEPT !.TX_semaphore = SemPostISR(@)]
  /\ UNCHANGED <<uart, stdin, stdout, shell, mail, toSend, toRead>>

-----------------------------------------------------------------------------
(***************************************************************************)
(* StdinProc: takes characters until the delimiter, then replies.          *)
(***************************************************************************)
StdinRcv ==
  /\ stdin.pc = "MsgRcv" /\ mail["stdin"]
  /\ mail' = [mail EXCEPT !["stdin"] = FALSE]
  /\ stdin' = [stdin EXCEPT !.pc = "SemWait"]
  /\ UNCHANGED <<port_data, uart, stdout, shell, toSend, toRead>>

StdinWait ==
  /\ stdin.pc = "SemWait"
  /\ port_data' = [port_data EXCEPT !.RX_semaphore = SemWaitISR(@)]
  /\ stdin' = [stdin EXCEPT !.pc = "DeQ"]
  /\ UNCHANGED <<uart, stdout, shell, mail, toSend, toRead>>

(* The test for '\r' that ends the inner loop.                             *)
AfterTaking(ch) == IF ch = CR THEN "MsgSnd" ELSE "SemWait"

(* DeQ() up to the loop that moves the other characters; an empty queue    *)
(* gives -1.                                                               *)
StdinTake ==
  /\ stdin.pc = "DeQ" /\ ~port_data.RX_semaphore.waits
  /\ \/ /\ port_data.RX_buffer.len > 0
        /\ port_data' = [port_data EXCEPT !.RX_buffer.len = @ - 1]
        /\ stdin' = [pc |-> "shift", ch |-> port_data.RX_buffer.q[0]]
     \/ /\ port_data.RX_buffer.len = 0
        /\ stdin' = [stdin EXCEPT !.pc = AfterTaking(JUNK)]
        /\ UNCHANGED port_data
  /\ UNCHANGED <<uart, stdout, shell, mail, toSend, toRead>>

StdinShift ==
  /\ stdin.pc = "shift"
  /\ port_data' = [port_data EXCEPT !.RX_buffer = Shift(@)]
  /\ toRead' = Tail(toRead)
  /\ stdin' = [pc |-> AfterTaking(stdin.ch), ch |-> NONE]
  /\ UNCHANGED <<uart, stdout, shell, mail, toSend>>

StdinSnd ==
  /\ stdin.pc = "MsgSnd"
  /\ mail' = [mail EXCEPT !["shell"] = TRUE]
  /\ stdin' = [stdin EXCEPT !.pc = "MsgRcv"]
  /\ UNCHANGED <<port_data, uart, stdout, shell, toSend, toRead>>

StdinProc == StdinRcv \/ StdinWait \/ StdinTake \/ StdinShift \/ StdinSnd

-----------------------------------------------------------------------------
(***************************************************************************)
(* StdoutProc: puts the characters of the text in TX_buffer, and a '\r'    *)
(* behind each '\n', then replies.  The text left begins with the '\r'     *)
(* when only that is still to follow.                                      *)
(***************************************************************************)
StdoutRcv ==
  /\ stdout.pc = "MsgRcv" /\ mail["stdout"]
  /\ mail' = [mail EXCEPT !["stdout"] = FALSE]
  /\ \E line \in Lines : stdout' = [pc |-> "SemWait", text |-> line]
  /\ UNCHANGED <<port_data, uart, stdin, shell, toSend, toRead>>

StdoutWait ==
  /\ stdout.pc = "SemWait" /\ stdout.text # <<>>
  /\ port_data' = [port_data EXCEPT !.TX_semaphore = SemWaitISR(@)]
  /\ stdout' = [stdout EXCEPT !.pc = "EnQ"]
  /\ UNCHANGED <<uart, stdin, shell, mail, toSend, toRead>>

(* What StdoutProc does when EnQ() has returned.                           *)
AfterPutting ==
  stdout' = IF Head(stdout.text) = LF
            THEN [pc |-> "SemWait", text |-> [stdout.text EXCEPT ![1] = CR]]
            ELSE [stdout EXCEPT !.pc = "TipIRQ3"]

(* EnQ() stores the character, then counts it; a full queue drops it.      *)
StdoutStore ==
  /\ stdout.pc = "EnQ" /\ ~port_data.TX_semaphore.waits
  /\ \/ /\ port_data.TX_buffer.len < Q_LEN
        /\ port_data' = [port_data EXCEPT
                           !.TX_buffer = Store(Head(stdout.text), @)]
        /\ stdout' = [stdout EXCEPT !.pc = "count"]
     \/ port_data.TX_buffer.len = Q_LEN /\ AfterPutting /\ UNCHANGED port_data
  /\ UNCHANGED <<uart, stdin, shell, mail, toSend, toRead>>

StdoutCount ==
  /\ stdout.pc = "count"
  /\ port_data' = [port_data EXCEPT !.TX_buffer.len = @ + 1]
  /\ toSend' = Append(toSend, Head(stdout.text))
  /\ AfterPutting
  /\ UNCHANGED <<uart, stdin, shell, mail, toRead>>

StdoutTip ==
  /\ stdout.pc = "TipIRQ3"
  /\ Handle
  /\ stdout' = [pc |-> "SemWait", text |-> Tail(stdout.text)]
  /\ UNCHANGED <<stdin, shell, mail>>

StdoutSnd ==
  /\ stdout.pc = "SemWait" /\ stdout.text = <<>>
  /\ mail' = [mail EXCEPT !["shell"] = TRUE]
  /\ stdout' = [stdout EXCEPT !.pc = "MsgRcv"]
  /\ UNCHANGED <<port_data, uart, stdin, shell, toSend, toRead>>

StdoutProc ==
  \/ StdoutRcv \/ StdoutWait \/ StdoutStore \/ StdoutCount \/ StdoutTip
  \/ StdoutSnd

-----------------------------------------------------------------------------
(***************************************************************************)
(* ShellProc: each request is a MsgSnd() and the MsgRcv() of its reply.    *)
(***************************************************************************)
Asks(what) == IF what \in {"name", "secret", "command"} THEN "stdin" ELSE "stdout"

(* What the shell may do next: the outcomes of its tests are free.         *)
Follows ==
  [hello |-> {"login"}, login |-> {"name"}, name |-> {"password"},
   password |-> {"secret"}, secret |-> {"invalid", "prompt"},
   invalid |-> {"login"}, prompt |-> {"command"},
   command |-> {"login", "result"}, result |-> {"result", "prompt"}]

ShellAsk ==
  /\ ~shell.waits
  /\ mail' = [mail EXCEPT ![Asks(shell.does)] = TRUE]
  /\ port_data' = IF shell.does = "secret"
                  THEN [port_data EXCEPT !.echo_mode = 0] ELSE port_data
  /\ shell' = [shell EXCEPT !.waits = TRUE]
  /\ UNCHANGED <<uart, stdin, stdout, toSend, toRead>>

ShellGoOn ==
  /\ shell.waits /\ mail["shell"]
  /\ mail' = [mail EXCEPT !["shell"] = FALSE]
  /\ port_data' = IF shell.does = "secret"
                  THEN [port_data EXCEPT !.echo_mode = 1] ELSE port_data
  /\ \E next \in Follows[shell.does] : shell' = [does |-> next, waits |-> FALSE]
  /\ UNCHANGED <<uart, stdin, stdout, toSend, toRead>>

ShellProc == ShellAsk \/ ShellGoOn

-----------------------------------------------------------------------------
(***************************************************************************)
(* The port finishes sending a character; the user types one.              *)
(***************************************************************************)
Sent ==
  /\ uart.thr # NONE
  /\ uart' = [uart EXCEPT !.thr = NONE, !.thre = TRUE]
  /\ UNCHANGED <<port_data, stdin, stdout, shell, mail, toSend, toRead>>

Type(key) ==
  /\ uart.rbr = NONE
  /\ Len(toRead) < TYPE_AHEAD
  /\ uart' = [uart EXCEPT !.rbr = key]
  /\ UNCHANGED <<port_data, stdin, stdout, shell, mail, toSend, toRead>>

(***************************************************************************)
(* The state in which ShellProc has set up the port; enabling the events   *)
(* of an idle transmitter raises one.                                      *)
(***************************************************************************)
Init ==
  /\ port_data = [TX_buffer |-> EmptyQ, RX_buffer |-> EmptyQ,
                  echo_buffer |-> EmptyQ,
                  TX_semaphore |-> [limit |-> Q_LEN, waits |-> FALSE],
                  RX_semaphore |-> [limit |-> 0, waits |-> FALSE],
                  echo_mode |-> 1, TXRDY |-> 1]
  /\ uart = [thr |-> NONE, thre |-> TRUE, rbr |-> NONE, garbled |-> FALSE]
  /\ stdin = [pc |-> "MsgRcv", ch |-> NONE]
  /\ stdout = [pc |-> "MsgRcv", text |-> <<>>]
  /\ shell = [does |-> "hello", waits |-> FALSE]
  /\ mail = [who \in {"shell", "stdin", "stdout"} |-> FALSE]
  /\ toSend = <<>>
  /\ toRead = <<>>

Next ==
  \/ IRQ3 \/ IRQ7 \/ StdinProc \/ StdoutProc \/ ShellProc
  \/ Sent
  \/ \E key \in Keys : Type(key)

Spec == Init /\ [][Next]_vars

(***************************************************************************)
(* The kernel lets every process run again (ReadyRuns in Kernel), the port *)
(* sends what it was given and interrupts are taken; the user need not     *)
(* type.                                                                   *)
(***************************************************************************)
FairSpec ==
  /\ Spec
  /\ WF_vars(StdinProc) /\ WF_vars(StdoutProc) /\ WF_vars(ShellProc)
  /\ WF_vars(IRQ3) /\ WF_vars(Sent)
-----------------------------------------------------------------------------
(***************************************************************************)
(* TypeOK: the buffers never hold more than they can, and the variables    *)
(* keep their types, whatever the user types and whatever the printer      *)
(* posts.                                                                  *)
(***************************************************************************)
Buffer    == [q : [Slots -> Chars], len : 0 .. Q_LEN]
Semaphore == [limit : Nat, waits : BOOLEAN]

PortData ==
  [TX_buffer : Buffer, RX_buffer : Buffer, echo_buffer : Buffer,
   TX_semaphore : Semaphore, RX_semaphore : Semaphore,
   echo_mode : {0, 1}, TXRDY : {0, 1}]

Uart == [thr : Chars \cup {NONE}, thre : BOOLEAN, rbr : Keys \cup {NONE},
         garbled : BOOLEAN]

TypeOK ==
  /\ port_data \in PortData
  /\ uart \in Uart
  /\ stdin \in [pc : {"MsgRcv", "SemWait", "DeQ", "shift", "MsgSnd"},
                ch : Chars \cup {NONE}]
  /\ stdout \in [pc : {"MsgRcv", "SemWait", "EnQ", "count", "TipIRQ3"},
                 text : Seq(Chars)]
  /\ shell \in [does : DOMAIN Follows, waits : BOOLEAN]
  /\ mail \in [{"shell", "stdin", "stdout"} -> BOOLEAN]
  /\ toSend \in Seq(Chars) /\ toRead \in Seq(Keys)

(***************************************************************************)
(* TXSpace: TX_semaphore is the "transmit space count" (typedef.h): what   *)
(* it counts, with the place StdoutProc has claimed and not filled yet, is *)
(* the space left in TX_buffer, whatever TX() takes in between; as long as *)
(* no printer posts a semaphore it was never given.                        *)
(***************************************************************************)
TXClaimed == IF /\ stdout.pc \in {"EnQ", "count"}
                /\ ~port_data.TX_semaphore.waits THEN 1 ELSE 0

TXSpace ==
  /\ port_data.TX_semaphore.limit + TXClaimed = Q_LEN - port_data.TX_buffer.len
  /\ port_data.TX_semaphore.waits => port_data.TX_semaphore.limit = 0

(***************************************************************************)
(* RXCount: RX_semaphore is the "receive data count" (typedef.h): it and   *)
(* the character StdinProc is about to take make up RX_buffer, while what  *)
(* is typed ahead fits: RX() also counts a character EnQ() has dropped.    *)
(***************************************************************************)
RXClaimed == IF /\ stdin.pc = "DeQ"
                /\ ~port_data.RX_semaphore.waits THEN 1 ELSE 0

RXCount ==
  /\ port_data.RX_semaphore.limit + RXClaimed = port_data.RX_buffer.len
  /\ port_data.RX_semaphore.waits => port_data.RX_semaphore.limit = 0

(***************************************************************************)
(* NoStall: output never gets stuck.  While TXRDY says that nothing is     *)
(* being sent the buffers are empty, or StdoutProc is on its way to        *)
(* TipIRQ3() and not blocked; while it says that something is being sent   *)
(* the port will raise the event that goes on with the buffers.            *)
(***************************************************************************)
NoStall ==
  /\ port_data.TXRDY = 1 =>
       /\ port_data.echo_buffer.len = 0
       /\ port_data.TX_buffer.len > 0 =>
            stdout.text # <<>> /\ ~port_data.TX_semaphore.waits
  /\ port_data.TXRDY = 0 => uart.thr # NONE \/ uart.thre

(***************************************************************************)
(* NeverGarbled: no character is written to the port while it still sends  *)
(* the one before, though TX() is entered from interrupts, from TipIRQ3()  *)
(* and twice in one IRQ3ISR().                                             *)
(***************************************************************************)
NeverGarbled == ~uart.garbled

(***************************************************************************)
(* OutputDone: a process that asks StdoutProc to print gets its reply.     *)
(***************************************************************************)
OutputDone ==
  (shell.waits /\ Asks(shell.does) = "stdout") ~> ~shell.waits

(***************************************************************************)
(* RXKeepsInput: RX_buffer holds the characters received and not yet       *)
(* taken, in their order.  It fails when a character comes while StdinProc *)
(* shifts the buffer.                                                      *)
(***************************************************************************)
RXKeepsInput ==
  stdin.pc # "shift" => Contents(port_data.RX_buffer) = toRead

(***************************************************************************)
(* InputDone: as long as RX_buffer keeps what was typed, the shell gets    *)
(* its line once the delimiter was typed, while the echo shares the        *)
(* transmitter with output and StdinProc shares counts with the interrupt. *)
(***************************************************************************)
InputDone ==
  []RXKeepsInput =>
    ((/\ shell.waits /\ Asks(shell.does) = "stdin"
      /\ \E i \in DOMAIN toRead : toRead[i] = CR) ~> ~shell.waits)

(***************************************************************************)
(* TXKeepsOutput: "enqueue what p points to to TX_buffer" (proc.c): the    *)
(* buffer holds the characters StdoutProc enqueued and TX() has not taken. *)
(***************************************************************************)
TXKeepsOutput == Contents(port_data.TX_buffer) = toSend
=============================================================================
