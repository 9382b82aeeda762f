--------------------------- MODULE TerminalProofs ---------------------------
(***************************************************************************)
(* The serial terminal, for every size of the buffers, every set of keys   *)
(* and texts, and every number of posts by the printer.                    *)
(***************************************************************************)
EXTENDS Terminal, TLAPS, SequenceTheorems

-----------------------------------------------------------------------------
(***************************************************************************)
(* The buffers and the semaphores.                                         *)
(***************************************************************************)
LEMMA StoreKeeps ==
  ASSUME NEW b \in Buffer, NEW c \in Chars, b.len < Q_LEN
  PROVE  Store(c, b) \in Buffer /\ Store(c, b).len = b.len
BY DEF Store, Buffer

LEMMA EnQCounts ==
  ASSUME NEW b \in Buffer, NEW c \in Chars
  PROVE  /\ EnQ(c, b) \in Buffer
         /\ EnQ(c, b).len = IF b.len < Q_LEN THEN b.len + 1 ELSE b.len
<1>1. CASE b.len < Q_LEN
  <2>1. Store(c, b) \in Buffer /\ Store(c, b).len = b.len
    BY <1>1, StoreKeeps
  <2>2. [Store(c, b) EXCEPT !.len = @ + 1] \in Buffer
    BY <1>1, <2>1, TerminalAssumption DEF Buffer
  <2>3. QED
    BY <1>1, <2>1, <2>2 DEF EnQ, Buffer
<1>2. CASE ~(b.len < Q_LEN)
  BY <1>2 DEF EnQ
<1>3. QED
  BY <1>1, <1>2

LEMMA ShiftKeeps ==
  ASSUME NEW b \in Buffer
  PROVE  Shift(b) \in Buffer /\ Shift(b).len = b.len
<1>1. JUNK \in Chars
  BY DEF Chars
<1>2. [i \in Slots |-> IF i < b.len /\ i + 1 \in Slots THEN b.q[i + 1] ELSE JUNK]
        \in [Slots -> Chars]
  BY <1>1 DEF Buffer
<1>3. QED
  BY <1>2 DEF Shift, Buffer

LEMMA DeQCounts ==
  ASSUME NEW b \in Buffer, b.len > 0
  PROVE  /\ DeQ(b) \in Buffer /\ DeQ(b).len = b.len - 1
         /\ b.q[0] \in Chars
<1>1. [b EXCEPT !.len = @ - 1] \in Buffer
  BY TerminalAssumption DEF Buffer
<1>2. DeQ(b) \in Buffer /\ DeQ(b).len = b.len - 1
  BY <1>1, ShiftKeeps DEF DeQ, Buffer
<1>3. 0 \in Slots
  BY TerminalAssumption DEF Slots
<1>4. QED
  BY <1>2, <1>3 DEF Buffer

LEMMA PostsAndWaits ==
  ASSUME NEW s \in Semaphore
  PROVE  SemPostISR(s) \in Semaphore /\ SemWaitISR(s) \in Semaphore
<1>1. s.limit \in Nat /\ s.waits \in BOOLEAN
  BY DEF Semaphore
<1>2. /\ [s EXCEPT !.limit = @ + 1] \in Semaphore
      /\ [s EXCEPT !.waits = FALSE] \in Semaphore
      /\ [s EXCEPT !.waits = TRUE] \in Semaphore
  <2>1. [s EXCEPT !.limit = @ + 1] \in Semaphore
    BY SMT, <1>1 DEF Semaphore
  <2>2. TRUE \in BOOLEAN /\ FALSE \in BOOLEAN
    OBVIOUS
  <2>3. \A w \in BOOLEAN : [s EXCEPT !.waits = w] \in Semaphore
    BY DEF Semaphore
  <2>4. QED
    BY <2>1, <2>2, <2>3
<1>3. s.limit > 0 => [s EXCEPT !.limit = @ - 1] \in Semaphore
  BY DEF Semaphore
<1>4. SemPostISR(s) \in Semaphore
  BY <1>2 DEF SemPostISR
<1>5. SemWaitISR(s) \in Semaphore
  BY <1>2, <1>3 DEF SemWaitISR
<1>6. QED
  BY <1>4, <1>5

-----------------------------------------------------------------------------
(***************************************************************************)
(* IRQ3ISR() on a state of the port in which it may send: nothing is being *)
(* sent, and toSend agrees with TX_buffer on how much is waiting.          *)
(***************************************************************************)
HState == [port : PortData, uart : Uart, toSend : Seq(Chars), toRead : Seq(Keys)]

(* The three things that can happen to output, and the two to input.        *)
OutKept(s, t) ==
  /\ t.port.TX_buffer = s.port.TX_buffer
  /\ t.port.TX_semaphore = s.port.TX_semaphore
  /\ t.toSend = s.toSend

OutTaken(s, t) ==
  /\ s.port.TX_buffer.len > 0
  /\ t.port.TX_buffer.len = s.port.TX_buffer.len - 1
  /\ t.port.TX_semaphore = SemPostISR(s.port.TX_semaphore)
  /\ Len(t.toSend) = Len(s.toSend) - 1

InKept(s, t) ==
  /\ t.port.RX_buffer = s.port.RX_buffer
  /\ t.port.RX_semaphore = s.port.RX_semaphore
  /\ t.uart.rbr = s.uart.rbr
  /\ t.toRead = s.toRead

InPut(s, t) ==
  /\ s.uart.rbr # NONE /\ t.uart.rbr = NONE
  /\ t.port.RX_buffer.len = IF s.port.RX_buffer.len < Q_LEN
                            THEN s.port.RX_buffer.len + 1 ELSE s.port.RX_buffer.len
  /\ t.port.RX_semaphore = SemPostISR(s.port.RX_semaphore)
  /\ Len(t.toRead) = Len(s.toRead) + 1

Sends(t) == t.port.TXRDY = 0 /\ t.uart.thr # NONE /\ ~t.uart.thre /\ ~t.uart.garbled

LEMMA OutSends ==
  ASSUME NEW s \in HState, NEW ch \in Chars, s.uart.thr = NONE, ~s.uart.garbled
  PROVE  /\ Out(ch, s) \in HState
         /\ OutKept(s, Out(ch, s)) /\ InKept(s, Out(ch, s))
         /\ Out(ch, s).port.echo_mode = s.port.echo_mode
         /\ Sends(Out(ch, s))
<1>1. ch # NONE
  BY TerminalAssumption
<1> DEFINE t == Out(ch, s)
<1>2. t = [s EXCEPT !.uart.thr = ch, !.uart.thre = FALSE,
                    !.uart.garbled = @ \/ s.uart.thr # NONE, !.port.TXRDY = 0]
  BY DEF Out
<1>3. /\ s.port \in PortData /\ s.uart \in Uart
      /\ s.toSend \in Seq(Chars) /\ s.toRead \in Seq(Keys)
      /\ s.uart.garbled \in BOOLEAN
  BY DEF HState, Uart
<1>4. /\ t.port = [s.port EXCEPT !.TXRDY = 0]
      /\ t.uart = [s.uart EXCEPT !.thr = ch, !.thre = FALSE,
                                 !.garbled = @ \/ s.uart.thr # NONE]
      /\ t.toSend = s.toSend /\ t.toRead = s.toRead
  BY <1>2 DEF HState, PortData, Uart
<1>5. t.port \in PortData /\ t.uart \in Uart
  BY <1>3, <1>4 DEF PortData, Uart
<1>6. t \in HState
  BY <1>2, <1>3, <1>4, <1>5 DEF HState
<1>7. /\ t.port.TXRDY = 0 /\ t.uart.thr = ch /\ t.uart.thre = FALSE
      /\ ~t.uart.garbled
  BY <1>3, <1>4 DEF PortData, Uart
<1>8. OutKept(s, t) /\ InKept(s, t) /\ t.port.echo_mode = s.port.echo_mode
  BY <1>3, <1>4 DEF OutKept, InKept, PortData, Uart
<1>9. QED
  BY <1>1, <1>6, <1>7, <1>8 DEF Sends

(* The state from which TX() sends, and that in which it leaves the port.   *)
Idle(s) == s.uart.thr = NONE /\ ~s.uart.garbled

Counted(s) == Len(s.toSend) = s.port.TX_buffer.len

LEMMA EchoSends ==
  ASSUME NEW s \in HState, Idle(s), s.port.echo_buffer.len > 0
  PROVE  /\ SendEcho(s) \in HState
         /\ OutKept(s, SendEcho(s)) /\ InKept(s, SendEcho(s))
         /\ Sends(SendEcho(s))
<1> DEFINE b == s.port.echo_buffer
           u == [s EXCEPT !.port.echo_buffer = DeQ(@)]
<1>1. s.port \in PortData /\ s.uart \in Uart /\ b \in Buffer
  BY DEF HState, PortData
<1>2. DeQ(b) \in Buffer /\ b.q[0] \in Chars
  BY <1>1, DeQCounts
<1>3. /\ u.port = [s.port EXCEPT !.echo_buffer = DeQ(b)]
      /\ u.uart = s.uart /\ u.toSend = s.toSend /\ u.toRead = s.toRead
  BY DEF HState
<1>4. u.port \in PortData
  BY <1>1, <1>2, <1>3 DEF PortData
<1>5. u \in HState
  BY <1>4 DEF HState
<1>6. OutKept(s, u) /\ InKept(s, u)
  BY <1>1, <1>3 DEF OutKept, InKept, PortData
<1>7. SendEcho(s) = Out(b.q[0], u)
  BY DEF SendEcho
<1> HIDE DEF u
<1>8. u.uart.thr = NONE /\ ~u.uart.garbled
  BY <1>3 DEF Idle
<1>9. /\ SendEcho(s) \in HState /\ Sends(SendEcho(s))
      /\ OutKept(u, SendEcho(s)) /\ InKept(u, SendEcho(s))
  BY <1>2, <1>5, <1>7, <1>8, OutSends
<1>10. OutKept(s, SendEcho(s))
  BY <1>6, <1>9 DEF OutKept
<1>11. InKept(s, SendEcho(s))
  BY <1>6, <1>9 DEF InKept
<1>12. QED
  BY <1>9, <1>10, <1>11

LEMMA OutputSends ==
  ASSUME NEW s \in HState, Idle(s), Counted(s), s.port.TX_buffer.len > 0
  PROVE  /\ SendOutput(s) \in HState
         /\ OutTaken(s, SendOutput(s)) /\ InKept(s, SendOutput(s))
         /\ Sends(SendOutput(s))
<1> DEFINE b == s.port.TX_buffer
           u == [s EXCEPT !.port.TX_buffer = DeQ(@),
                          !.port.TX_semaphore = SemPostISR(@), !.toSend = Tail(@)]
<1>1. /\ s.port \in PortData /\ s.uart \in Uart /\ b \in Buffer
      /\ s.port.TX_semaphore \in Semaphore /\ s.toSend \in Seq(Chars)
  BY DEF HState, PortData
<1>2. DeQ(b) \in Buffer /\ DeQ(b).len = b.len - 1 /\ b.q[0] \in Chars
  BY <1>1, DeQCounts
<1>3. SemPostISR(s.port.TX_semaphore) \in Semaphore
  BY <1>1, PostsAndWaits
<1>4. s.toSend # <<>>
  BY <1>1 DEF Counted
<1>5. Tail(s.toSend) \in Seq(Chars) /\ Len(Tail(s.toSend)) = Len(s.toSend) - 1
  BY <1>1, <1>4, HeadTailProperties
<1>6. /\ u.port = [s.port EXCEPT !.TX_buffer = DeQ(b),
                                 !.TX_semaphore = SemPostISR(s.port.TX_semaphore)]
      /\ u.uart = s.uart /\ u.toSend = Tail(s.toSend) /\ u.toRead = s.toRead
  BY <1>1 DEF HState, PortData
<1>7. u.port \in PortData
  <2>1. \A d \in Buffer, m \in Semaphore :
          [s.port EXCEPT !.TX_buffer = d, !.TX_semaphore = m] \in PortData
    BY <1>1 DEF PortData
  <2>2. QED
    BY <1>2, <1>3, <1>6, <2>1
<1>8. u \in HState
  BY <1>5, <1>6, <1>7 DEF HState
<1>9. SendOutput(s) = Out(b.q[0], u)
  BY DEF SendOutput
<1> HIDE DEF u
<1>10. /\ u.port.TX_buffer = DeQ(b)
      /\ u.port.TX_semaphore = SemPostISR(s.port.TX_semaphore)
      /\ u.port.RX_buffer = s.port.RX_buffer
      /\ u.port.RX_semaphore = s.port.RX_semaphore
  BY <1>1, <1>6 DEF PortData
<1>11. InKept(s, u)
  BY <1>6, <1>10 DEF InKept
<1>12. /\ SendOutput(s) \in HState /\ Sends(SendOutput(s))
       /\ OutKept(u, SendOutput(s)) /\ InKept(u, SendOutput(s))
  BY <1>2, <1>6, <1>8, <1>9, OutSends DEF Idle
<1>13. QED
  BY <1>2, <1>5, <1>6, <1>10, <1>11, <1>12 DEF OutKept, OutTaken, InKept

(* TX() sends a character, or says that there is none to be sent.           *)
Rests(s, t) ==
  /\ s.port.echo_buffer.len = 0 /\ s.port.TX_buffer.len = 0
  /\ t.port.echo_buffer = s.port.echo_buffer
  /\ t.port.TXRDY = 1 /\ t.uart = s.uart

LEMMA TXSends ==
  ASSUME NEW s \in HState, Idle(s), Counted(s)
  PROVE  /\ TX(s) \in HState /\ InKept(s, TX(s))
         /\ OutKept(s, TX(s)) \/ OutTaken(s, TX(s))
         /\ Sends(TX(s)) \/ (Rests(s, TX(s)) /\ OutKept(s, TX(s)))
<1>1. CASE s.port.echo_buffer.len > 0
  BY <1>1, EchoSends DEF TX
<1>2. CASE ~(s.port.echo_buffer.len > 0) /\ s.port.TX_buffer.len > 0
  BY <1>2, OutputSends DEF TX
<1>3. CASE ~(s.port.echo_buffer.len > 0) /\ ~(s.port.TX_buffer.len > 0)
  <2> DEFINE t == BecomeReady(s)
  <2>1. s.port \in PortData
    BY DEF HState
  <2>2. s.port.echo_buffer.len = 0 /\ s.port.TX_buffer.len = 0
    BY <1>3, <2>1, TerminalAssumption DEF PortData, Buffer
  <2>3. /\ t.port = [s.port EXCEPT !.TXRDY = 1]
        /\ t.uart = s.uart /\ t.toSend = s.toSend /\ t.toRead = s.toRead
        /\ t = [s EXCEPT !.port.TXRDY = 1]
    BY DEF BecomeReady, HState
  <2>4. t.port \in PortData
    BY <2>1, <2>3 DEF PortData
  <2>5. t \in HState
    BY <2>3, <2>4 DEF HState
  <2>6. Rests(s, t) /\ OutKept(s, t) /\ InKept(s, t)
    BY <2>1, <2>2, <2>3 DEF Rests, OutKept, InKept, PortData
  <2>7. QED
    BY <1>3, <2>5, <2>6 DEF TX
<1>4. QED
  BY <1>1, <1>2, <1>3

(* RX() takes the character from the port and leaves output alone.          *)
LEMMA RXTakes ==
  ASSUME NEW s \in HState, s.uart.rbr # NONE
  PROVE  /\ RX(s) \in HState /\ OutKept(s, RX(s)) /\ InPut(s, RX(s))
         /\ RX(s).port.TXRDY = s.port.TXRDY
         /\ RX(s).uart.thr = s.uart.thr /\ RX(s).uart.thre = s.uart.thre
         /\ RX(s).uart.garbled = s.uart.garbled
<1> DEFINE ch == s.uart.rbr
           echo == Echo(ch, s.port)
           rx == EnQ(ch, s.port.RX_buffer)
           sem == SemPostISR(s.port.RX_semaphore)
           t == RX(s)
<1>1. /\ s.port \in PortData /\ s.uart \in Uart /\ s.toRead \in Seq(Keys)
      /\ s.port.RX_buffer \in Buffer /\ s.port.echo_buffer \in Buffer
      /\ s.port.RX_semaphore \in Semaphore
  BY DEF HState, PortData
<1>2. ch \in Keys /\ ch \in Chars /\ CR \in Chars /\ LF \in Chars
  BY <1>1, TerminalAssumption DEF Uart, Chars
<1>3. echo \in Buffer
  <2>1. EnQ(CR, s.port.echo_buffer) \in Buffer
    BY <1>1, <1>2, EnQCounts
  <2>2. EnQ(LF, EnQ(CR, s.port.echo_buffer)) \in Buffer
    BY <1>2, <2>1, EnQCounts
  <2>3. EnQ(ch, s.port.echo_buffer) \in Buffer
    BY <1>1, <1>2, EnQCounts
  <2>4. QED
    BY <1>1, <2>2, <2>3 DEF Echo
<1>4. /\ rx \in Buffer
      /\ rx.len = IF s.port.RX_buffer.len < Q_LEN
                  THEN s.port.RX_buffer.len + 1 ELSE s.port.RX_buffer.len
  BY <1>1, <1>2, EnQCounts
<1>5. sem \in Semaphore
  BY <1>1, PostsAndWaits
<1>6. Append(s.toRead, ch) \in Seq(Keys) /\ Len(Append(s.toRead, ch)) = Len(s.toRead) + 1
  BY <1>1, <1>2, AppendProperties
<1>7. t = [s EXCEPT !.uart.rbr = NONE, !.port.RX_buffer = rx,
                    !.port.RX_semaphore = sem, !.port.echo_buffer = echo,
                    !.toRead = Append(@, ch)]
  BY <1>1 DEF RX, HState, PortData
<1> HIDE DEF echo, rx, sem, t, ch
<1>8. /\ t.port = [s.port EXCEPT !.RX_buffer = rx, !.RX_semaphore = sem,
                                 !.echo_buffer = echo]
      /\ t.uart = [s.uart EXCEPT !.rbr = NONE]
      /\ t.toSend = s.toSend /\ t.toRead = Append(s.toRead, ch)
  BY <1>7 DEF HState
<1>9. t.port \in PortData
  BY <1>1, <1>3, <1>4, <1>5, <1>8 DEF PortData
<1>10. t.uart \in Uart
  BY <1>1, <1>8 DEF Uart
<1>11. t \in HState
  BY <1>6, <1>7, <1>8, <1>9, <1>10 DEF HState
<1>12. /\ t.port.TX_buffer = s.port.TX_buffer
       /\ t.port.TX_semaphore = s.port.TX_semaphore
       /\ t.port.RX_buffer = rx /\ t.port.RX_semaphore = sem
       /\ t.port.TXRDY = s.port.TXRDY
  BY <1>1, <1>8 DEF PortData
<1>13. /\ t.uart.thr = s.uart.thr /\ t.uart.thre = s.uart.thre
       /\ t.uart.garbled = s.uart.garbled /\ t.uart.rbr = NONE
  BY <1>1, <1>8 DEF Uart
<1>14. OutKept(s, t)
  BY <1>8, <1>12 DEF OutKept
<1>15. InPut(s, t)
  BY <1>4, <1>6, <1>8, <1>12, <1>13 DEF InPut, sem, ch
<1>16. QED
  BY <1>11, <1>12, <1>13, <1>14, <1>15 DEF t

(***************************************************************************)
(* IRQ3ISR() as a whole, from a port that will go on with its buffers.     *)
(***************************************************************************)
Sound(s) ==
  /\ s.uart.thre => s.uart.thr = NONE
  /\ ~s.uart.garbled
  /\ s.port.TXRDY = 0 => s.uart.thr # NONE \/ s.uart.thre
  /\ s.port.TXRDY = 1 => s.uart.thr = NONE

(* What TXIfReady() leaves.                                                 *)
Settled(t) ==
  /\ Sound(t)
  /\ t.port.TXRDY = 1 => t.port.echo_buffer.len = 0 /\ t.port.TX_buffer.len = 0

LEMMA IfReadySettles ==
  ASSUME NEW s \in HState, Sound(s), Counted(s)
  PROVE  /\ TXIfReady(s) \in HState /\ InKept(s, TXIfReady(s))
         /\ OutKept(s, TXIfReady(s)) \/ OutTaken(s, TXIfReady(s))
         /\ Settled(TXIfReady(s))
<1>1. CASE s.port.TXRDY = 1
  <2> DEFINE t == TX(s)
  <2>1. Idle(s)
    BY <1>1 DEF Sound, Idle
  <2>2. /\ t \in HState /\ InKept(s, t)
        /\ OutKept(s, t) \/ OutTaken(s, t)
        /\ Sends(t) \/ (Rests(s, t) /\ OutKept(s, t))
    BY <2>1, TXSends
  <2> HIDE DEF t
  <2>3. Sends(t) => Settled(t)
    BY DEF Sends, Settled, Sound
  <2>4. Rests(s, t) /\ OutKept(s, t) => Settled(t)
    BY <2>1 DEF Rests, OutKept, Settled, Sound, Idle
  <2>5. TXIfReady(s) = t
    BY <1>1 DEF TXIfReady, t
  <2>6. QED
    BY <2>2, <2>3, <2>4, <2>5
<1>2. CASE s.port.TXRDY # 1
  BY <1>2 DEF TXIfReady, Settled, InKept, OutKept
<1>3. QED
  BY <1>1, <1>2

LEMMA IRQ3Settles ==
  ASSUME NEW s \in HState, Sound(s), Counted(s)
  PROVE  /\ IRQ3ISR(s) \in HState
         /\ InKept(s, IRQ3ISR(s)) \/ InPut(s, IRQ3ISR(s))
         /\ OutKept(s, IRQ3ISR(s)) \/ OutTaken(s, IRQ3ISR(s))
         /\ Settled(IRQ3ISR(s))
<1>1. CASE s.uart.rbr # NONE
  <2> DEFINE u == RX(s)
             t == TXIfReady(u)
  <2>1. /\ u \in HState /\ OutKept(s, u) /\ InPut(s, u)
        /\ u.port.TXRDY = s.port.TXRDY
        /\ u.uart.thr = s.uart.thr /\ u.uart.thre = s.uart.thre
        /\ u.uart.garbled = s.uart.garbled
    BY <1>1, RXTakes
  <2> HIDE DEF u
  <2>2. Sound(u) /\ Counted(u)
    BY <2>1 DEF Sound, Counted, OutKept
  <2>3. /\ t \in HState /\ InKept(u, t) /\ (OutKept(u, t) \/ OutTaken(u, t))
        /\ Settled(t)
    BY <2>1, <2>2, IfReadySettles
  <2> HIDE DEF t
  <2>4. InPut(s, t)
    BY <2>1, <2>3 DEF InPut, InKept
  <2>5. OutKept(s, t) \/ OutTaken(s, t)
    BY <2>1, <2>3 DEF OutKept, OutTaken
  <2>6. IRQ3ISR(s) = t
    BY <1>1 DEF IRQ3ISR, t, u
  <2>7. QED
    BY <2>3, <2>4, <2>5, <2>6
<1>2. CASE s.uart.rbr = NONE /\ s.uart.thre
  <2> DEFINE r == [s EXCEPT !.uart.thre = FALSE]
             u == TX(r)
             t == TXIfReady(u)
  <2>1. s.uart \in Uart
    BY DEF HState
  <2>2. r.uart = [s.uart EXCEPT !.thre = FALSE] /\ r.port = s.port
        /\ r.toSend = s.toSend /\ r.toRead = s.toRead
    BY DEF HState
  <2>3. r.uart \in Uart
    <3>1. \A e \in BOOLEAN : [s.uart EXCEPT !.thre = e] \in Uart
      BY <2>1 DEF Uart
    <3>2. QED
      BY <2>2, <3>1
  <2>4. r \in HState
    BY <2>2, <2>3 DEF HState
  <2>5. /\ r.uart.thr = NONE /\ ~r.uart.garbled /\ r.uart.rbr = s.uart.rbr
        /\ ~r.uart.thre
    BY <1>2, <2>1, <2>2 DEF Sound, Uart
  <2>6. InKept(s, r) /\ OutKept(s, r) /\ Idle(r) /\ Counted(r)
    BY <2>2, <2>5 DEF InKept, OutKept, Idle, Counted
  <2> HIDE DEF r
  <2>7. /\ u \in HState /\ InKept(r, u)
        /\ OutKept(r, u) \/ OutTaken(r, u)
        /\ Sends(u) \/ (Rests(r, u) /\ OutKept(r, u))
    BY <2>4, <2>6, TXSends
  <2> HIDE DEF u
  <2>8. ASSUME Sends(u)
        PROVE  t \in HState /\ InKept(s, t) /\ (OutKept(s, t) \/ OutTaken(s, t)) /\ Settled(t)
    <3>1. t = u
      BY <2>8 DEF TXIfReady, Sends
    <3>2. Settled(t)
      BY <2>8, <3>1 DEF Sends, Settled, Sound
    <3>3. QED
      BY <2>6, <2>7, <3>1, <3>2 DEF InKept, OutKept, OutTaken
  <2>9. ASSUME Rests(r, u), OutKept(r, u)
        PROVE  t \in HState /\ InKept(s, t) /\ (OutKept(s, t) \/ OutTaken(s, t)) /\ Settled(t)
    <3>1. Sound(u) /\ Counted(u)
      BY <2>5, <2>6, <2>9 DEF Rests, Sound, Counted, OutKept
    <3>2. /\ t \in HState /\ InKept(u, t) /\ (OutKept(u, t) \/ OutTaken(u, t))
          /\ Settled(t)
      BY <2>7, <3>1, IfReadySettles
    <3>3. QED
      BY <2>6, <2>7, <2>9, <3>2 DEF InKept, OutKept, OutTaken
  <2>10. IRQ3ISR(s) = t
    BY <1>2 DEF IRQ3ISR, t, u, r
  <2> HIDE DEF t
  <2>11. t \in HState /\ InKept(s, t) /\ (OutKept(s, t) \/ OutTaken(s, t)) /\ Settled(t)
    BY <2>7, <2>8, <2>9
  <2>12. QED
    BY <2>10, <2>11
<1>3. CASE s.uart.rbr = NONE /\ ~s.uart.thre
  BY <1>3, IfReadySettles DEF IRQ3ISR
<1>4. QED
  BY <1>1, <1>2, <1>3

-----------------------------------------------------------------------------
(***************************************************************************)
(* The inductive invariant.  PortInv: TXRDY tells the truth about the      *)
(* port.  OutInv: while nothing is being sent, TX_buffer holds only what   *)
(* StdoutProc has put there and is about to tip; TX_semaphore never counts *)
(* less than the space there is; StdoutProc waits for it only in front of  *)
(* EnQ().  InInv: nothing is in RX_buffer that was not received.           *)
(***************************************************************************)
Port == [port |-> port_data, uart |-> uart, toSend |-> toSend, toRead |-> toRead]

PortInv ==
  /\ Sound(Port)
  /\ port_data.TXRDY = 1 => port_data.echo_buffer.len = 0

Untipped ==
  IF stdout.pc = "TipIRQ3" THEN 2
  ELSE IF stdout.text # <<>> /\ Head(stdout.text) = CR THEN 1 ELSE 0

OutInv ==
  /\ port_data.TXRDY = 1 => port_data.TX_buffer.len <= Untipped
  /\ stdout.pc = "MsgRcv" => stdout.text = <<>>
  /\ stdout.pc \in {"EnQ", "count", "TipIRQ3"} => stdout.text # <<>>
  /\ stdout.pc = "count" => port_data.TX_buffer.len < Q_LEN
  /\ port_data.TX_semaphore.waits =>
       stdout.pc = "EnQ" /\ port_data.TX_semaphore.limit = 0
  /\ port_data.TX_semaphore.limit + TXClaimed >= Q_LEN - port_data.TX_buffer.len
  /\ Len(toSend) = port_data.TX_buffer.len

Taking == IF stdin.pc = "shift" THEN 1 ELSE 0

InInv ==
  /\ Len(toRead) >= port_data.RX_buffer.len + Taking
  /\ uart.rbr # NONE => Len(toRead) < TYPE_AHEAD
  /\ port_data.RX_semaphore.waits =>
       stdin.pc = "DeQ" /\ port_data.RX_semaphore.limit = 0

IInv == TypeOK /\ PortInv /\ OutInv /\ InInv

(* What the interrupt handler, also when tipped, does to the variables.     *)
LEMMA HandleSettles ==
  ASSUME TypeOK, PortInv, OutInv, Handle
  PROVE  /\ port_data' \in PortData /\ uart' \in Uart
         /\ toSend' \in Seq(Chars) /\ toRead' \in Seq(Keys)
         /\ PortInv' /\ (port_data'.TXRDY = 1 => port_data'.TX_buffer.len = 0)
         /\ OutKept(Port, Port') \/ OutTaken(Port, Port')
         /\ InKept(Port, Port') \/ InPut(Port, Port')
<1> DEFINE t == IRQ3ISR(Port)
<1>1. Port \in HState
  BY DEF TypeOK, Port, HState
<1>2. Sound(Port) /\ Counted(Port)
  BY DEF PortInv, OutInv, Counted, Port
<1>3. /\ t \in HState /\ Settled(t)
      /\ InKept(Port, t) \/ InPut(Port, t)
      /\ OutKept(Port, t) \/ OutTaken(Port, t)
  BY <1>1, <1>2, IRQ3Settles
<1>4. /\ port_data' = t.port /\ uart' = t.uart
      /\ toSend' = t.toSend /\ toRead' = t.toRead
  BY DEF Handle, Port
<1> HIDE DEF t
<1>5. /\ Port'.port = t.port /\ Port'.uart = t.uart
      /\ Port'.toSend = t.toSend /\ Port'.toRead = t.toRead
  BY <1>4 DEF Port
<1>6. t.port \in PortData /\ t.uart \in Uart /\ t.toSend \in Seq(Chars) /\ t.toRead \in Seq(Keys)
  BY <1>3 DEF HState
<1>7. Sound(Port')
  BY <1>3, <1>5 DEF Settled, Sound
<1>8. InKept(Port, Port') \/ InPut(Port, Port')
  BY <1>3, <1>5 DEF InKept, InPut
<1>9. OutKept(Port, Port') \/ OutTaken(Port, Port')
  BY <1>3, <1>5 DEF OutKept, OutTaken
<1>10. PortInv' /\ (port_data'.TXRDY = 1 => port_data'.TX_buffer.len = 0)
  BY <1>3, <1>4, <1>7 DEF PortInv, Settled
<1>11. QED
  BY <1>4, <1>6, <1>8, <1>9, <1>10

LEMMA PostWakes ==
  ASSUME NEW m \in Semaphore
  PROVE  /\ SemPostISR(m).waits = FALSE
         /\ SemPostISR(m).limit = IF m.waits THEN m.limit ELSE m.limit + 1
<1>1. CASE m.waits
  BY <1>1 DEF SemPostISR, Semaphore
<1>2. CASE ~m.waits
  <2>1. SemPostISR(m) = [m EXCEPT !.limit = @ + 1]
    BY <1>2 DEF SemPostISR
  <2>2. m.waits = FALSE
    BY <1>2 DEF Semaphore
  <2>3. QED
    BY <2>1, <2>2 DEF Semaphore
<1>3. QED
  BY <1>1, <1>2

LEMMA WaitTakes ==
  ASSUME NEW m \in Semaphore, m.waits = FALSE
  PROVE  /\ m.limit > 0 => SemWaitISR(m).waits = FALSE /\ SemWaitISR(m).limit = m.limit - 1
         /\ ~(m.limit > 0) => SemWaitISR(m).waits = TRUE /\ SemWaitISR(m).limit = 0
<1>1. m.limit > 0 => SemWaitISR(m) = [m EXCEPT !.limit = @ - 1]
  BY DEF SemWaitISR
<1>2. ~(m.limit > 0) => SemWaitISR(m) = [m EXCEPT !.waits = TRUE]
  BY DEF SemWaitISR
<1>3. m.limit > 0 => SemWaitISR(m).waits = FALSE /\ SemWaitISR(m).limit = m.limit - 1
  BY <1>1 DEF Semaphore
<1>4. ~(m.limit > 0) => SemWaitISR(m).waits = TRUE /\ SemWaitISR(m).limit = 0
  BY <1>2 DEF Semaphore
<1>5. QED
  BY <1>3, <1>4

(* How many places TX_semaphore grants, with the one StdoutProc has.        *)
LEMMA Claims ==
  /\ stdout.pc \in {"EnQ", "count"} /\ port_data.TX_semaphore.waits = FALSE => TXClaimed = 1
  /\ stdout.pc \notin {"EnQ", "count"} => TXClaimed = 0
  /\ port_data.TX_semaphore.waits = TRUE => TXClaimed = 0
  /\ TXClaimed \in {0, 1}
BY DEF TXClaimed

(* A count of the output semaphore, its flag and the length of its buffer   *)
(* that fit OutInv, if StdoutProc is at pc with the text left.              *)
Granted(pc, limit, waits, len) ==
  /\ waits => pc = "EnQ" /\ limit = 0
  /\ limit + (IF pc \in {"EnQ", "count"} /\ ~waits THEN 1 ELSE 0) >= Q_LEN - len

LEMMA OutParts ==
  OutInv <=>
    /\ port_data.TXRDY = 1 => port_data.TX_buffer.len <= Untipped
    /\ stdout.pc = "MsgRcv" => stdout.text = <<>>
    /\ stdout.pc \in {"EnQ", "count", "TipIRQ3"} => stdout.text # <<>>
    /\ stdout.pc = "count" => port_data.TX_buffer.len < Q_LEN
    /\ Granted(stdout.pc, port_data.TX_semaphore.limit, port_data.TX_semaphore.waits,
               port_data.TX_buffer.len)
    /\ Len(toSend) = port_data.TX_buffer.len
BY DEF OutInv, Granted, TXClaimed

(* A post gives back the place that a character taken from TX_buffer leaves. *)
LEMMA PostGrants ==
  ASSUME NEW pc, NEW m \in Semaphore, NEW n \in 0 .. Q_LEN,
         Granted(pc, m.limit, m.waits, n)
  PROVE  /\ Granted(pc, SemPostISR(m).limit, SemPostISR(m).waits, n)
         /\ n > 0 => Granted(pc, SemPostISR(m).limit, SemPostISR(m).waits, n - 1)
<1> DEFINE l == SemPostISR(m).limit
<1>1. SemPostISR(m).waits = FALSE
  BY PostWakes
<1>2. Q_LEN \in Nat /\ m.limit \in Nat
  BY TerminalAssumption DEF Semaphore
<1>3. CASE m.waits
  <2>1. m.limit = 0 /\ pc = "EnQ"
    BY <1>3 DEF Granted
  <2>2. m.limit + 0 >= Q_LEN - n
    BY <1>3 DEF Granted
  <2>3. l = 0 /\ n >= Q_LEN
    <3>1. l = m.limit
      BY <1>3, PostWakes
    <3>2. n >= Q_LEN
      BY <1>2, <2>1, <2>2
    <3>3. QED
      BY <2>1, <3>1, <3>2
  <2>4. QED
    BY <1>1, <1>2, <2>1, <2>3 DEF Granted
<1>4. CASE ~m.waits
  <2>1. l = m.limit + 1
    BY <1>4, PostWakes
  <2>2. m.limit + (IF pc \in {"EnQ", "count"} THEN 1 ELSE 0) >= Q_LEN - n
    BY <1>4 DEF Granted
  <2>3. QED
    BY <1>1, <1>2, <2>1, <2>2 DEF Granted
<1>5. QED
  BY <1>3, <1>4

(* The handler keeps OutInv, wherever StdoutProc is: what it leaves with    *)
(* TXRDY = 1 are empty buffers.                                             *)
LEMMA HandleGrants ==
  ASSUME TypeOK, PortInv, OutInv, Handle
  PROVE  /\ port_data'.TX_buffer.len <= port_data.TX_buffer.len
         /\ Granted(stdout.pc, port_data'.TX_semaphore.limit,
                    port_data'.TX_semaphore.waits, port_data'.TX_buffer.len)
         /\ Len(toSend') = port_data'.TX_buffer.len
<1> DEFINE m == port_data.TX_semaphore
           n == port_data.TX_buffer.len
<1>1. m \in Semaphore /\ n \in 0 .. Q_LEN
  BY DEF TypeOK, PortData, Buffer
<1>2. Granted(stdout.pc, m.limit, m.waits, n) /\ Len(toSend) = n
  BY OutParts
<1>3. CASE OutKept(Port, Port')
  BY <1>1, <1>2, <1>3, TerminalAssumption DEF OutKept, Port
<1>4. CASE OutTaken(Port, Port')
  <2>1. /\ n > 0 /\ port_data'.TX_buffer.len = n - 1
        /\ port_data'.TX_semaphore = SemPostISR(m)
        /\ Len(toSend') = Len(toSend) - 1
    BY <1>4 DEF OutTaken, Port
  <2>2. Granted(stdout.pc, SemPostISR(m).limit, SemPostISR(m).waits, n - 1)
    BY <1>1, <1>2, <2>1, PostGrants
  <2>3. QED
    BY <1>1, <1>2, <2>1, <2>2, TerminalAssumption
<1>5. QED
  BY <1>3, <1>4, HandleSettles

-----------------------------------------------------------------------------
(***************************************************************************)
(* TypeOK.                                                                 *)
(***************************************************************************)
LEMMA PortUpdates ==
  ASSUME NEW p \in PortData
  PROVE  /\ \A b \in Buffer : /\ [p EXCEPT !.TX_buffer = b] \in PortData
                             /\ [p EXCEPT !.RX_buffer = b] \in PortData
         /\ \A m \in Semaphore : /\ [p EXCEPT !.TX_semaphore = m] \in PortData
                                /\ [p EXCEPT !.RX_semaphore = m] \in PortData
         /\ \A e \in {0, 1} : [p EXCEPT !.echo_mode = e] \in PortData
BY DEF PortData

LEMMA InitType == Init => TypeOK
<1> SUFFICES ASSUME Init PROVE TypeOK
  OBVIOUS
<1>1. EmptyQ \in Buffer
  BY TerminalAssumption DEF EmptyQ, Buffer, Chars
<1>2. \A l \in Nat : [limit |-> l, waits |-> FALSE] \in Semaphore
  BY DEF Semaphore
<1>3. port_data \in PortData
  BY <1>1, <1>2, TerminalAssumption DEF Init, PortData
<1>4. uart \in Uart
  BY DEF Init, Uart
<1>5. stdin.pc = "MsgRcv" /\ stdout.text \in Seq(Chars) /\ shell.does \in DOMAIN Follows
  BY DEF Init, Follows
<1>6. QED
  BY <1>3, <1>4, <1>5 DEF Init, TypeOK

LEMMA StdinType ==
  ASSUME TypeOK, InInv, StdinProc
  PROVE  TypeOK'
<1> USE DEF TypeOK
<1> DEFINE rx == port_data.RX_buffer
<1>1. rx \in Buffer /\ port_data.RX_semaphore \in Semaphore
  BY DEF PortData
<1>2. CASE StdinRcv
  BY <1>2 DEF StdinRcv
<1>3. CASE StdinWait
  <2>1. SemWaitISR(port_data.RX_semaphore) \in Semaphore
    BY <1>1, PostsAndWaits
  <2>2. port_data' \in PortData
    BY <1>3, <2>1, PortUpdates DEF StdinWait
  <2>3. QED
    BY <1>3, <2>2 DEF StdinWait
<1>4. CASE StdinTake
  <2>1. CASE rx.len > 0
    <3>1. [rx EXCEPT !.len = @ - 1] \in Buffer /\ rx.q[0] \in Chars
      <4>1. [rx EXCEPT !.len = @ - 1] \in Buffer
        <5>1. rx.len - 1 \in 0 .. Q_LEN
          BY <1>1, <2>1, TerminalAssumption DEF Buffer
        <5>2. \A l \in 0 .. Q_LEN : [rx EXCEPT !.len = l] \in Buffer
          BY <1>1 DEF Buffer
        <5>3. QED
          BY <5>1, <5>2
      <4>2. QED
        BY <1>1, <2>1, <4>1, DeQCounts
    <3>2. /\ port_data' = [port_data EXCEPT !.RX_buffer = [rx EXCEPT !.len = @ - 1]]
          /\ stdin' = [pc |-> "shift", ch |-> rx.q[0]]
      BY <1>4, <2>1 DEF StdinTake
    <3>3. port_data' \in PortData
      BY <3>1, <3>2, PortUpdates
    <3>4. QED
      BY <1>4, <3>1, <3>2, <3>3 DEF StdinTake
  <2>2. CASE ~(rx.len > 0)
    BY <1>4, <2>2 DEF StdinTake, AfterTaking
  <2>3. QED
    BY <2>1, <2>2
<1>5. CASE StdinShift
  <2>1. Shift(rx) \in Buffer
    BY <1>1, ShiftKeeps
  <2>2. port_data' \in PortData
    BY <1>5, <2>1, PortUpdates DEF StdinShift
  <2>3. toRead # <<>>
    BY <1>1, <1>5 DEF StdinShift, InInv, Taking, Buffer
  <2>4. toRead' \in Seq(Keys)
    BY <1>5, <2>3, HeadTailProperties DEF StdinShift
  <2>5. stdin' = [pc |-> AfterTaking(stdin.ch), ch |-> NONE]
    BY <1>5 DEF StdinShift
  <2>6. QED
    BY <1>5, <2>2, <2>4, <2>5 DEF StdinShift, AfterTaking
<1>6. CASE StdinSnd
  BY <1>6 DEF StdinSnd
<1>7. QED
  BY <1>2, <1>3, <1>4, <1>5, <1>6 DEF StdinProc

LEMMA PuttingType ==
  ASSUME TypeOK, OutInv, stdout.pc \in {"EnQ", "count"}, AfterPutting
  PROVE  /\ stdout' \in [pc : {"MsgRcv", "SemWait", "EnQ", "count", "TipIRQ3"},
                        text : Seq(Chars)]
         /\ Head(stdout.text) \in Chars /\ stdout.text # <<>>
<1>1. stdout.text \in Seq(Chars) /\ stdout.text # <<>> /\ CR \in Chars
  BY TerminalAssumption DEF TypeOK, OutInv, Chars
<1>2. Head(stdout.text) \in Chars /\ 1 \in 1 .. Len(stdout.text)
  BY <1>1, HeadTailProperties, EmptySeq
<1>3. [stdout.text EXCEPT ![1] = CR] \in Seq(Chars)
  BY <1>1, <1>2, ExceptSeq
<1>4. QED
  BY <1>1, <1>2, <1>3 DEF AfterPutting, TypeOK

LEMMA StdoutType ==
  ASSUME TypeOK, PortInv, OutInv, StdoutProc
  PROVE  TypeOK'
<1> USE DEF TypeOK
<1> DEFINE tx == port_data.TX_buffer
<1>1. tx \in Buffer /\ port_data.TX_semaphore \in Semaphore
  BY DEF PortData
<1>2. CASE StdoutRcv
  <2>1. PICK line \in Lines : stdout' = [pc |-> "SemWait", text |-> line]
    BY <1>2 DEF StdoutRcv
  <2>2. line \in Seq(Chars)
    BY TerminalAssumption
  <2>3. QED
    BY <1>2, <2>1, <2>2 DEF StdoutRcv
<1>3. CASE StdoutWait
  <2>1. SemWaitISR(port_data.TX_semaphore) \in Semaphore
    BY <1>1, PostsAndWaits
  <2>2. port_data' \in PortData
    BY <1>3, <2>1, PortUpdates DEF StdoutWait
  <2>3. QED
    BY <1>3, <2>2 DEF StdoutWait
<1>4. CASE StdoutStore
  <2>1. CASE tx.len < Q_LEN
    <3>1. Head(stdout.text) \in Chars
      <4>1. stdout.text \in Seq(Chars)
        OBVIOUS
      <4>2. stdout.text # <<>>
        BY <1>4 DEF StdoutStore, OutInv
      <4>3. QED
        BY <4>1, <4>2, HeadTailProperties
    <3>2. Store(Head(stdout.text), tx) \in Buffer
      BY <1>1, <2>1, <3>1, StoreKeeps
    <3>3. /\ port_data' = [port_data EXCEPT !.TX_buffer = Store(Head(stdout.text), @)]
          /\ stdout' = [stdout EXCEPT !.pc = "count"]
      <4>1. tx.len # Q_LEN
        BY <2>1, TerminalAssumption
      <4>2. QED
        BY <1>4, <4>1 DEF StdoutStore
    <3>4. port_data' \in PortData
      BY <3>2, <3>3, PortUpdates
    <3>5. QED
      BY <1>4, <3>3, <3>4 DEF StdoutStore
  <2>2. CASE ~(tx.len < Q_LEN)
    <3>1. AfterPutting /\ UNCHANGED port_data
      BY <1>4, <2>2 DEF StdoutStore
    <3>2. stdout.pc = "EnQ"
      BY <1>4 DEF StdoutStore
    <3>3. stdout' \in [pc : {"MsgRcv", "SemWait", "EnQ", "count", "TipIRQ3"}, text : Seq(Chars)]
      BY <3>1, <3>2, PuttingType
    <3>4. QED
      BY <1>4, <3>1, <3>3 DEF StdoutStore
  <2>3. QED
    BY <2>1, <2>2
<1>5. CASE StdoutCount
  <2>1. tx.len + 1 \in 0 .. Q_LEN
    BY <1>1, <1>5, TerminalAssumption DEF StdoutCount, OutInv, Buffer
  <2>2. [tx EXCEPT !.len = @ + 1] \in Buffer
    BY <1>1, <2>1 DEF Buffer
  <2>3. port_data' = [port_data EXCEPT !.TX_buffer = [tx EXCEPT !.len = @ + 1]]
    BY <1>5 DEF StdoutCount
  <2>4. port_data' \in PortData
    BY <2>2, <2>3, PortUpdates
  <2>5. Head(stdout.text) \in Chars /\ stdout' \in [pc : {"MsgRcv", "SemWait", "EnQ", "count", "TipIRQ3"}, text : Seq(Chars)]
    BY <1>5, PuttingType DEF StdoutCount
  <2>6. toSend' \in Seq(Chars)
    BY <1>5, <2>5, AppendProperties DEF StdoutCount
  <2>7. QED
    BY <1>5, <2>4, <2>5, <2>6 DEF StdoutCount
<1>6. CASE StdoutTip
  <2>1. /\ port_data' \in PortData /\ uart' \in Uart
        /\ toSend' \in Seq(Chars) /\ toRead' \in Seq(Keys)
    BY <1>6, HandleSettles DEF StdoutTip
  <2>2. Tail(stdout.text) \in Seq(Chars)
    BY <1>6, HeadTailProperties DEF StdoutTip, OutInv
  <2>3. QED
    BY <1>6, <2>1, <2>2 DEF StdoutTip
<1>7. CASE StdoutSnd
  BY <1>7 DEF StdoutSnd
<1>8. QED
  BY <1>2, <1>3, <1>4, <1>5, <1>6, <1>7 DEF StdoutProc

LEMMA OtherType ==
  ASSUME TypeOK, PortInv, OutInv,
         \/ IRQ3 \/ IRQ7 \/ ShellProc \/ Sent \/ (\E key \in Keys : Type(key))
         \/ UNCHANGED vars
  PROVE  TypeOK'
<1> USE DEF TypeOK
<1>1. CASE IRQ3
  BY <1>1, HandleSettles DEF IRQ3
<1>2. CASE IRQ7
  <2>1. SemPostISR(port_data.TX_semaphore) \in Semaphore
    BY PostsAndWaits DEF PortData
  <2>2. port_data' \in PortData
    BY <1>2, <2>1, PortUpdates DEF IRQ7
  <2>3. QED
    BY <1>2, <2>2 DEF IRQ7
<1>3. CASE ShellAsk
  <2>1. port_data' \in PortData
    BY <1>3, PortUpdates DEF ShellAsk
  <2>2. QED
    BY <1>3, <2>1 DEF ShellAsk, Asks
<1>4. CASE ShellGoOn
  <2>1. port_data' \in PortData
    BY <1>4, PortUpdates DEF ShellGoOn
  <2>2. PICK next \in Follows[shell.does] : shell' = [does |-> next, waits |-> FALSE]
    BY <1>4 DEF ShellGoOn
  <2>3. next \in DOMAIN Follows
    BY <2>2 DEF Follows
  <2>4. QED
    BY <1>4, <2>1, <2>2, <2>3 DEF ShellGoOn
<1>5. CASE Sent
  BY <1>5 DEF Sent, Uart
<1>6. CASE \E key \in Keys : Type(key)
  BY <1>6 DEF Type, Uart
<1>7. CASE UNCHANGED vars
  BY <1>7 DEF vars
<1>8. QED
  BY <1>1, <1>2, <1>3, <1>4, <1>5, <1>6, <1>7 DEF ShellProc

-----------------------------------------------------------------------------
(***************************************************************************)
(* PortInv: only the handler and the port itself touch TXRDY, the echo     *)
(* buffer and what is being sent.                                          *)
(***************************************************************************)
LEMMA PortKept ==
  ASSUME PortInv, UNCHANGED uart,
         port_data'.TXRDY = port_data.TXRDY,
         port_data'.echo_buffer = port_data.echo_buffer
  PROVE  PortInv'
<1>1. Sound(Port')
  BY DEF PortInv, Sound, Port
<1>2. QED
  BY <1>1 DEF PortInv

LEMMA PortStep ==
  ASSUME TypeOK, PortInv, OutInv, [Next]_vars
  PROVE  PortInv'
<1>1. port_data \in PortData
  BY DEF TypeOK
<1>2. CASE IRQ3 \/ StdoutTip
  BY <1>2, HandleSettles DEF IRQ3, StdoutTip
<1>3. CASE IRQ7
  BY <1>1, <1>3, PortKept DEF IRQ7, PortData
<1>4. CASE StdinProc
  <2>1. UNCHANGED uart /\ port_data'.TXRDY = port_data.TXRDY
        /\ port_data'.echo_buffer = port_data.echo_buffer
    BY <1>1, <1>4 DEF StdinProc, StdinRcv, StdinWait, StdinTake, StdinShift, StdinSnd, PortData
  <2>2. QED
    BY <2>1, PortKept
<1>5. CASE StdoutRcv \/ StdoutWait \/ StdoutStore \/ StdoutCount \/ StdoutSnd
  <2>1. UNCHANGED uart /\ port_data'.TXRDY = port_data.TXRDY
        /\ port_data'.echo_buffer = port_data.echo_buffer
    BY <1>1, <1>5 DEF StdoutRcv, StdoutWait, StdoutStore, StdoutCount, StdoutSnd, PortData
  <2>2. QED
    BY <2>1, PortKept
<1>6. CASE ShellProc
  <2>1. UNCHANGED uart /\ port_data'.TXRDY = port_data.TXRDY
        /\ port_data'.echo_buffer = port_data.echo_buffer
    BY <1>1, <1>6 DEF ShellProc, ShellAsk, ShellGoOn, PortData
  <2>2. QED
    BY <2>1, PortKept
<1>7. CASE Sent
  <2>1. uart.thr # NONE /\ UNCHANGED port_data
        /\ uart' = [uart EXCEPT !.thr = NONE, !.thre = TRUE]
    BY <1>7 DEF Sent
  <2>2. uart'.thr = NONE /\ uart'.thre = TRUE /\ uart'.garbled = uart.garbled
    BY <2>1 DEF TypeOK, Uart
  <2>3. Sound(Port')
    BY <2>1, <2>2 DEF PortInv, Sound, Port
  <2>4. QED
    BY <2>1, <2>3 DEF PortInv
<1>8. CASE \E key \in Keys : Type(key)
  <2>1. PICK key \in Keys : uart' = [uart EXCEPT !.rbr = key] /\ UNCHANGED port_data
    BY <1>8 DEF Type
  <2>2. uart'.thr = uart.thr /\ uart'.thre = uart.thre /\ uart'.garbled = uart.garbled
    BY <2>1 DEF TypeOK, Uart
  <2>3. Sound(Port')
    BY <2>1, <2>2 DEF PortInv, Sound, Port
  <2>4. QED
    BY <2>1, <2>3 DEF PortInv
<1>9. CASE UNCHANGED vars
  BY <1>9, PortKept DEF vars
<1>10. QED
  BY <1>2, <1>3, <1>4, <1>5, <1>6, <1>7, <1>8, <1>9 DEF Next, StdoutProc

-----------------------------------------------------------------------------
(***************************************************************************)
(* OutInv.                                                                 *)
(***************************************************************************)
LEMMA OutKeeps ==
  ASSUME OutInv, UNCHANGED <<stdout, toSend>>,
         port_data'.TXRDY = port_data.TXRDY,
         port_data'.TX_buffer = port_data.TX_buffer,
         port_data'.TX_semaphore = port_data.TX_semaphore
  PROVE  OutInv'
BY DEF OutInv, Untipped, TXClaimed

LEMMA HandleOut ==
  ASSUME TypeOK, PortInv, OutInv, IRQ3 \/ StdoutTip
  PROVE  OutInv'
<1> DEFINE m == port_data.TX_semaphore
           n == port_data.TX_buffer.len
<1>1. Handle
  BY DEF IRQ3, StdoutTip
<1>2. /\ port_data'.TX_buffer.len <= n
      /\ Granted(stdout.pc, m'.limit, m'.waits, port_data'.TX_buffer.len)
      /\ Len(toSend') = port_data'.TX_buffer.len
  BY <1>1, HandleGrants
<1>3. port_data'.TXRDY = 1 => port_data'.TX_buffer.len = 0
  BY <1>1, HandleSettles
<1>4. n \in 0 .. Q_LEN /\ port_data'.TX_buffer.len \in 0 .. Q_LEN /\ Q_LEN \in Nat
  BY <1>1, HandleSettles, TerminalAssumption DEF TypeOK, PortData, Buffer
<1>5. Untipped' \in {0, 1, 2}
  BY DEF Untipped
<1>6. port_data'.TXRDY = 1 => port_data'.TX_buffer.len <= Untipped'
  BY <1>3, <1>5
<1>7. CASE IRQ3
  <2>1. stdout' = stdout
    BY <1>7 DEF IRQ3
  <2>2. stdout.pc = "count" => port_data'.TX_buffer.len < Q_LEN
    BY <1>2, <1>4 DEF OutInv
  <2>3. (stdout.pc = "MsgRcv" => stdout.text = <<>>)
        /\ (stdout.pc \in {"EnQ", "count", "TipIRQ3"} => stdout.text # <<>>)
    BY DEF OutInv
  <2>4. /\ stdout'.pc = "MsgRcv" => stdout'.text = <<>>
        /\ stdout'.pc \in {"EnQ", "count", "TipIRQ3"} => stdout'.text # <<>>
        /\ stdout'.pc = "count" => port_data'.TX_buffer.len < Q_LEN
        /\ Granted(stdout'.pc, m'.limit, m'.waits, port_data'.TX_buffer.len)
    BY <1>2, <2>1, <2>2, <2>3
  <2>5. QED
    BY <1>2, <1>6, <2>4 DEF OutInv, Granted, TXClaimed
<1>8. CASE StdoutTip
  <2>1. stdout.pc = "TipIRQ3" /\ stdout'.pc = "SemWait"
    BY <1>8 DEF StdoutTip
  <2>2. Granted("SemWait", m'.limit, m'.waits, port_data'.TX_buffer.len)
    BY <1>2, <2>1 DEF Granted
  <2>3. QED
    BY <1>2, <1>6, <2>1, <2>2 DEF OutInv, Granted, TXClaimed
<1>9. QED
  BY <1>7, <1>8

(* StdoutProc goes on behind EnQ(): a '\r' follows, or it tips the handler. *)
LEMMA PuttingGoesOn ==
  ASSUME TypeOK, stdout.text # <<>>, stdout.pc \in {"EnQ", "count"}, AfterPutting
  PROVE  /\ stdout'.pc \in {"SemWait", "TipIRQ3"}
         /\ stdout'.pc = "TipIRQ3" => stdout'.text # <<>>
         /\ Untipped' = IF Head(stdout.text) = LF THEN 1 ELSE 2
         /\ Head(stdout.text) = LF => Untipped = 0
         /\ Untipped \in {0, 1}
<1>1. stdout.text \in Seq(Chars) /\ Len(stdout.text) > 0
  BY EmptySeq DEF TypeOK
<1>2. CASE Head(stdout.text) = LF
  <2>1. stdout' = [pc |-> "SemWait", text |-> [stdout.text EXCEPT ![1] = CR]]
    BY <1>2 DEF AfterPutting
  <2>2. CR \in Chars
    BY TerminalAssumption DEF Chars
  <2>3. /\ stdout'.text \in Seq(Chars) /\ Len(stdout'.text) = Len(stdout.text)
        /\ stdout'.text[1] = CR
    BY <1>1, <2>1, <2>2, ExceptSeq
  <2>4. stdout'.text # <<>> /\ Head(stdout'.text) = CR
    BY <1>1, <2>3, EmptySeq, HeadTailProperties
  <2>5. Untipped' = 1 /\ Untipped = 0
    BY <1>2, <2>1, <2>4, TerminalAssumption DEF Untipped
  <2>6. QED
    BY <1>2, <2>1, <2>5
<1>3. CASE Head(stdout.text) # LF
  <2>1. stdout' = [stdout EXCEPT !.pc = "TipIRQ3"]
    BY <1>3 DEF AfterPutting
  <2>2. stdout'.pc = "TipIRQ3" /\ stdout'.text = stdout.text
    BY <2>1 DEF TypeOK
  <2>3. QED
    BY <1>3, <2>2 DEF Untipped
<1>4. QED
  BY <1>2, <1>3

LEMMA StdoutOut ==
  ASSUME TypeOK, PortInv, OutInv,
         StdoutRcv \/ StdoutWait \/ StdoutStore \/ StdoutCount \/ StdoutSnd
  PROVE  OutInv'
<1> DEFINE m == port_data.TX_semaphore
           n == port_data.TX_buffer.len
<1>1. /\ m \in Semaphore /\ port_data.TX_buffer \in Buffer /\ n \in 0 .. Q_LEN
      /\ port_data \in PortData /\ Q_LEN \in Nat /\ Q_LEN >= 2 /\ m.limit \in Nat
  BY TerminalAssumption DEF TypeOK, PortData, Buffer, Semaphore
<1>2. Granted(stdout.pc, m.limit, m.waits, n) /\ Len(toSend) = n
  BY OutParts
<1>3. CASE StdoutRcv
  <2>1. /\ stdout.pc = "MsgRcv" /\ stdout'.pc = "SemWait"
        /\ UNCHANGED <<port_data, toSend>>
    BY <1>3 DEF StdoutRcv
  <2>2. Untipped = 0 /\ Untipped' \in {0, 1}
    BY <2>1 DEF OutInv, Untipped
  <2>3. Granted("SemWait", m.limit, m.waits, n)
    BY <1>2, <2>1 DEF Granted
  <2>4. port_data.TXRDY = 1 => n <= Untipped'
    BY <1>1, <2>2 DEF OutInv
  <2>5. QED
    BY <1>2, <2>1, <2>3, <2>4 DEF OutInv, Granted, TXClaimed
<1>4. CASE StdoutWait
  <2>1. /\ stdout.pc = "SemWait" /\ stdout.text # <<>> /\ UNCHANGED toSend
        /\ port_data' = [port_data EXCEPT !.TX_semaphore = SemWaitISR(m)]
        /\ stdout'.pc = "EnQ" /\ stdout'.text = stdout.text
    BY <1>4 DEF StdoutWait, TypeOK
  <2>2. /\ port_data'.TX_semaphore = SemWaitISR(m)
        /\ port_data'.TX_buffer = port_data.TX_buffer
        /\ port_data'.TXRDY = port_data.TXRDY
    BY <1>1, <2>1 DEF PortData
  <2>3. m.waits = FALSE /\ m.limit >= Q_LEN - n
    <3>1. m.waits \in BOOLEAN
      BY <1>1 DEF Semaphore
    <3>2. ~m.waits
      BY <1>2, <2>1 DEF Granted
    <3>3. m.limit + 0 >= Q_LEN - n
      BY <1>2, <2>1 DEF Granted
    <3>4. QED
      BY <1>1, <3>1, <3>2, <3>3
  <2>4. /\ m.limit > 0 => SemWaitISR(m).waits = FALSE /\ SemWaitISR(m).limit = m.limit - 1
        /\ ~(m.limit > 0) => SemWaitISR(m).waits = TRUE /\ SemWaitISR(m).limit = 0
    BY <1>1, <2>3, WaitTakes
  <2>5. Granted("EnQ", SemWaitISR(m).limit, SemWaitISR(m).waits, n)
    <3>1. CASE m.limit > 0
      <4>1. (m.limit - 1) + 1 >= Q_LEN - n
        BY <1>1, <2>3
      <4>2. QED
        BY <2>4, <3>1, <4>1 DEF Granted
    <3>2. CASE ~(m.limit > 0)
      <4>1. 0 + 0 >= Q_LEN - n
        BY <1>1, <2>3, <3>2
      <4>2. QED
        BY <2>4, <3>2, <4>1 DEF Granted
    <3>3. QED
      BY <3>1, <3>2
  <2>6. Untipped' = Untipped
    BY <2>1 DEF Untipped
  <2>7. QED
    BY <1>2, <2>1, <2>2, <2>5, <2>6 DEF OutInv, Granted, TXClaimed
<1>5. CASE StdoutStore
  <2>1. stdout.pc = "EnQ" /\ ~m.waits /\ UNCHANGED toSend /\ stdout.text # <<>>
    BY <1>5 DEF StdoutStore, OutInv
  <2>2. m.limit + 1 >= Q_LEN - n
    BY <1>2, <2>1 DEF Granted
  <2>3. Untipped \in {0, 1} /\ (port_data.TXRDY = 1 => n <= Untipped)
    BY <2>1 DEF Untipped, OutInv
  <2>4. CASE n < Q_LEN
    <3>1. /\ port_data' = [port_data EXCEPT
                             !.TX_buffer = Store(Head(stdout.text), @)]
          /\ stdout' = [stdout EXCEPT !.pc = "count"]
      <4>1. n # Q_LEN
        BY <1>1, <2>4
      <4>2. QED
        BY <1>5, <4>1 DEF StdoutStore
    <3>2. /\ stdout'.pc = "count" /\ stdout'.text = stdout.text
          /\ port_data'.TX_buffer = Store(Head(stdout.text), port_data.TX_buffer)
          /\ port_data'.TX_semaphore = m /\ port_data'.TXRDY = port_data.TXRDY
      BY <1>1, <3>1 DEF PortData, TypeOK
    <3>3. port_data'.TX_buffer.len = n
      BY <1>1, <3>2 DEF Store, Buffer
    <3>4. Untipped' = Untipped
      BY <2>1, <3>2 DEF Untipped
    <3>5. Granted("count", m.limit, m.waits, n)
      BY <2>1, <2>2 DEF Granted
    <3>6. QED
      BY <1>2, <2>1, <2>3, <2>4, <3>2, <3>3, <3>4, <3>5 DEF OutInv, Granted, TXClaimed
  <2>5. CASE ~(n < Q_LEN)
    <3>1. AfterPutting /\ UNCHANGED port_data
      BY <1>5, <2>5 DEF StdoutStore
    <3>2. n = Q_LEN /\ \A u \in {0, 1} : ~(n <= u)
      BY <1>1, <2>5
    <3>3. port_data.TXRDY # 1
      BY <2>3, <3>2
    <3>4. /\ stdout'.pc \in {"SemWait", "TipIRQ3"}
          /\ stdout'.pc = "TipIRQ3" => stdout'.text # <<>>
      BY <2>1, <3>1, PuttingGoesOn
    <3>5. m.limit + 0 >= Q_LEN - n
      BY <1>1, <3>2
    <3>6. Granted(stdout'.pc, m.limit, m.waits, n)
      BY <2>1, <3>4, <3>5 DEF Granted
    <3>7. QED
      BY <1>2, <2>1, <3>1, <3>3, <3>4, <3>6 DEF OutInv, Granted, TXClaimed
  <2>6. QED
    BY <2>4, <2>5
<1>6. CASE StdoutCount
  <2>1. /\ stdout.pc = "count" /\ n < Q_LEN /\ stdout.text # <<>> /\ ~m.waits
        /\ AfterPutting /\ toSend' = Append(toSend, Head(stdout.text))
        /\ port_data' = [port_data EXCEPT !.TX_buffer.len = @ + 1]
    BY <1>6 DEF StdoutCount, OutInv
  <2>2. /\ port_data'.TX_buffer.len = n + 1
        /\ port_data'.TX_semaphore = m /\ port_data'.TXRDY = port_data.TXRDY
    BY <1>1, <2>1 DEF PortData, Buffer
  <2>3. Len(toSend') = n + 1
    <3>1. toSend \in Seq(Chars) /\ Head(stdout.text) \in Chars
      BY <2>1, PuttingType DEF TypeOK
    <3>2. QED
      BY <1>2, <2>1, <3>1, AppendProperties
  <2>4. /\ stdout'.pc \in {"SemWait", "TipIRQ3"}
        /\ stdout'.pc = "TipIRQ3" => stdout'.text # <<>>
        /\ Untipped' = IF Head(stdout.text) = LF THEN 1 ELSE 2
        /\ Head(stdout.text) = LF => Untipped = 0
        /\ Untipped \in {0, 1}
    BY <2>1, PuttingGoesOn
  <2>5. port_data.TXRDY = 1 => n <= Untipped
    BY DEF OutInv
  <2>6. port_data.TXRDY = 1 => n + 1 <= Untipped'
    BY <1>1, <2>4, <2>5
  <2>7. m.limit + 0 >= Q_LEN - (n + 1)
    <3>1. m.limit + 1 >= Q_LEN - n
      BY <1>2, <2>1 DEF Granted
    <3>2. QED
      BY <1>1, <3>1
  <2>8. Granted(stdout'.pc, m.limit, m.waits, n + 1)
    BY <2>1, <2>4, <2>7 DEF Granted
  <2>9. QED
    BY <2>1, <2>2, <2>3, <2>4, <2>6, <2>8 DEF OutInv, Granted, TXClaimed
<1>7. CASE StdoutSnd
  <2>1. /\ stdout.pc = "SemWait" /\ stdout.text = <<>> /\ UNCHANGED <<port_data, toSend>>
        /\ stdout'.pc = "MsgRcv" /\ stdout'.text = stdout.text
    BY <1>7 DEF StdoutSnd, TypeOK
  <2>2. Untipped' = Untipped
    BY <2>1 DEF Untipped
  <2>3. Granted("MsgRcv", m.limit, m.waits, n)
    BY <1>2, <2>1 DEF Granted
  <2>4. QED
    BY <1>2, <2>1, <2>2, <2>3 DEF OutInv, Granted, TXClaimed
<1>8. QED
  BY <1>3, <1>4, <1>5, <1>6, <1>7

LEMMA OutStep ==
  ASSUME TypeOK, PortInv, OutInv, [Next]_vars
  PROVE  OutInv'
<1>1. port_data \in PortData
  BY DEF TypeOK
<1>2. CASE IRQ3 \/ StdoutTip
  BY <1>2, HandleOut
<1>3. CASE IRQ7
  <2> DEFINE m == port_data.TX_semaphore
             n == port_data.TX_buffer.len
  <2>1. m \in Semaphore /\ n \in 0 .. Q_LEN
    BY <1>1 DEF PortData, Buffer
  <2>2. /\ port_data'.TX_semaphore = SemPostISR(m)
        /\ port_data'.TX_buffer = port_data.TX_buffer
        /\ port_data'.TXRDY = port_data.TXRDY
        /\ UNCHANGED <<stdout, toSend>>
    BY <1>1, <1>3 DEF IRQ7, PortData
  <2>3. Granted(stdout.pc, SemPostISR(m).limit, SemPostISR(m).waits, n)
    BY <2>1, OutParts, PostGrants
  <2>4. Untipped' = Untipped
    BY <2>2 DEF Untipped
  <2>5. QED
    BY <2>2, <2>3, <2>4 DEF OutInv, Granted, TXClaimed
<1>4. CASE StdinProc
  <2>1. /\ UNCHANGED <<stdout, toSend>> /\ port_data'.TXRDY = port_data.TXRDY
        /\ port_data'.TX_buffer = port_data.TX_buffer
        /\ port_data'.TX_semaphore = port_data.TX_semaphore
    BY <1>1, <1>4 DEF StdinProc, StdinRcv, StdinWait, StdinTake, StdinShift, StdinSnd, PortData
  <2>2. QED
    BY <2>1, OutKeeps
<1>5. CASE StdoutRcv \/ StdoutWait \/ StdoutStore \/ StdoutCount \/ StdoutSnd
  BY <1>5, StdoutOut
<1>6. CASE ShellProc
  <2>1. /\ UNCHANGED <<stdout, toSend>> /\ port_data'.TXRDY = port_data.TXRDY
        /\ port_data'.TX_buffer = port_data.TX_buffer
        /\ port_data'.TX_semaphore = port_data.TX_semaphore
    BY <1>1, <1>6 DEF ShellProc, ShellAsk, ShellGoOn, PortData
  <2>2. QED
    BY <2>1, OutKeeps
<1>7. CASE Sent \/ (\E key \in Keys : Type(key)) \/ UNCHANGED vars
  BY <1>7, OutKeeps DEF Sent, Type, vars
<1>8. QED
  BY <1>2, <1>3, <1>4, <1>5, <1>6, <1>7 DEF Next, StdoutProc

-----------------------------------------------------------------------------
(***************************************************************************)
(* InInv.                                                                  *)
(***************************************************************************)
LEMMA InKeeps ==
  ASSUME InInv, UNCHANGED <<stdin, toRead>>, uart'.rbr = uart.rbr,
         port_data'.RX_buffer = port_data.RX_buffer,
         port_data'.RX_semaphore = port_data.RX_semaphore
  PROVE  InInv'
BY DEF InInv, Taking

LEMMA HandleIn ==
  ASSUME TypeOK, PortInv, OutInv, InInv, Handle, stdin' = stdin
  PROVE  InInv'
<1>1. CASE InKept(Port, Port')
  BY <1>1, InKeeps DEF InKept, Port
<1>2. CASE InPut(Port, Port')
  <2> DEFINE m == port_data.RX_semaphore
             n == port_data.RX_buffer.len
  <2>1. m \in Semaphore /\ n \in 0 .. Q_LEN /\ Q_LEN \in Nat /\ Len(toRead) \in Nat
    BY TerminalAssumption, LenProperties DEF TypeOK, PortData, Buffer
  <2>2. /\ uart'.rbr = NONE
        /\ port_data'.RX_buffer.len = IF n < Q_LEN THEN n + 1 ELSE n
        /\ port_data'.RX_semaphore = SemPostISR(m)
        /\ Len(toRead') = Len(toRead) + 1
    BY <1>2 DEF InPut, Port
  <2>3. Taking' = Taking /\ Taking \in {0, 1}
    BY DEF Taking
  <2>4. Len(toRead) >= n + Taking
    BY DEF InInv
  <2>5. Len(toRead') >= port_data'.RX_buffer.len + Taking'
    BY <2>1, <2>2, <2>3, <2>4
  <2>6. port_data'.RX_semaphore.waits = FALSE
    BY <2>1, <2>2, PostWakes
  <2>7. QED
    BY <2>2, <2>5, <2>6 DEF InInv
<1>3. QED
  BY <1>1, <1>2, HandleSettles

LEMMA StdinIn ==
  ASSUME TypeOK, InInv, StdinProc
  PROVE  InInv'
<1> DEFINE m == port_data.RX_semaphore
           n == port_data.RX_buffer.len
<1>1. /\ m \in Semaphore /\ port_data.RX_buffer \in Buffer /\ n \in 0 .. Q_LEN
      /\ port_data \in PortData /\ Q_LEN \in Nat /\ Len(toRead) \in Nat
  BY TerminalAssumption, LenProperties DEF TypeOK, PortData, Buffer
<1>2. /\ Len(toRead) >= n + Taking
      /\ uart.rbr # NONE => Len(toRead) < TYPE_AHEAD
      /\ m.waits => stdin.pc = "DeQ" /\ m.limit = 0
  BY DEF InInv
<1>3. UNCHANGED uart
  BY DEF StdinProc, StdinRcv, StdinWait, StdinTake, StdinShift, StdinSnd
<1>4. CASE StdinRcv \/ StdinSnd
  <2>1. /\ stdin.pc \in {"MsgRcv", "MsgSnd"} /\ stdin'.pc \in {"SemWait", "MsgRcv"}
        /\ UNCHANGED <<port_data, toRead>>
    BY <1>4 DEF StdinRcv, StdinSnd, TypeOK
  <2>2. Taking' = Taking
    BY <2>1 DEF Taking
  <2>3. QED
    BY <1>2, <1>3, <2>1, <2>2 DEF InInv
<1>5. CASE StdinWait
  <2>1. /\ stdin.pc = "SemWait" /\ stdin'.pc = "DeQ" /\ UNCHANGED toRead
        /\ port_data'.RX_semaphore = SemWaitISR(m)
        /\ port_data'.RX_buffer = port_data.RX_buffer
    BY <1>1, <1>5 DEF StdinWait, TypeOK, PortData
  <2>2. Taking' = Taking
    BY <2>1 DEF Taking
  <2>3. m.waits = FALSE
    BY <1>1, <1>2, <2>1 DEF Semaphore
  <2>4. SemWaitISR(m).waits => SemWaitISR(m).limit = 0
    BY <1>1, <2>3, WaitTakes
  <2>5. QED
    BY <1>2, <1>3, <2>1, <2>2, <2>4 DEF InInv
<1>6. CASE StdinTake
  <2>1. stdin.pc = "DeQ" /\ ~m.waits /\ UNCHANGED toRead /\ Taking = 0
    BY <1>6 DEF StdinTake, Taking
  <2>2. CASE n > 0
    <3>1. /\ port_data' = [port_data EXCEPT !.RX_buffer.len = @ - 1]
          /\ stdin' = [pc |-> "shift", ch |-> port_data.RX_buffer.q[0]]
      BY <1>6, <2>2 DEF StdinTake
    <3>2. /\ port_data'.RX_buffer.len = n - 1 /\ port_data'.RX_semaphore = m
          /\ stdin'.pc = "shift"
      BY <1>1, <3>1 DEF PortData, Buffer
    <3>3. Len(toRead) >= (n - 1) + 1 /\ Taking' = 1
      BY <1>1, <1>2, <2>1, <3>2 DEF Taking
    <3>4. QED
      BY <1>2, <1>3, <2>1, <3>2, <3>3 DEF InInv
  <2>3. CASE ~(n > 0)
    <3>1. stdin' = [stdin EXCEPT !.pc = AfterTaking(JUNK)] /\ UNCHANGED port_data
      BY <1>6, <2>3 DEF StdinTake
    <3>2. stdin'.pc = "SemWait"
      BY <3>1, TerminalAssumption DEF AfterTaking, TypeOK
    <3>3. Taking' = 0
      BY <3>2 DEF Taking
    <3>4. QED
      BY <1>2, <1>3, <2>1, <3>1, <3>3 DEF InInv
  <2>4. QED
    BY <2>2, <2>3
<1>7. CASE StdinShift
  <2>1. /\ stdin.pc = "shift" /\ stdin'.pc = AfterTaking(stdin.ch)
        /\ toRead' = Tail(toRead)
        /\ port_data' = [port_data EXCEPT !.RX_buffer = Shift(@)]
    BY <1>7 DEF StdinShift
  <2>2. /\ port_data'.RX_buffer = Shift(port_data.RX_buffer)
        /\ port_data'.RX_semaphore = m
    BY <1>1, <2>1 DEF PortData
  <2>3. port_data'.RX_buffer.len = n
    BY <1>1, <2>2, ShiftKeeps
  <2>4. Taking = 1 /\ Taking' = 0
    BY <2>1 DEF Taking, AfterTaking
  <2>5. Len(toRead) >= n + 1
    BY <1>2, <2>4
  <2>6. Len(toRead') = Len(toRead) - 1
    <3>1. toRead \in Seq(Keys) /\ toRead # <<>>
      BY <1>1, <2>5 DEF TypeOK
    <3>2. QED
      BY <2>1, <3>1, HeadTailProperties
  <2>7. Len(toRead') >= n + 0
    BY <1>1, <2>5, <2>6
  <2>8. uart'.rbr # NONE => Len(toRead') < TYPE_AHEAD
    BY <1>1, <1>2, <1>3, <2>6, TerminalAssumption
  <2>9. ~m.waits
    BY <1>2, <2>1
  <2>10. QED
    BY <2>2, <2>3, <2>4, <2>7, <2>8, <2>9 DEF InInv
<1>8. QED
  BY <1>4, <1>5, <1>6, <1>7 DEF StdinProc

LEMMA InStep ==
  ASSUME TypeOK, PortInv, OutInv, InInv, [Next]_vars
  PROVE  InInv'
<1>1. port_data \in PortData
  BY DEF TypeOK
<1>2. CASE IRQ3 \/ StdoutTip
  BY <1>2, HandleIn DEF IRQ3, StdoutTip
<1>3. CASE IRQ7
  BY <1>1, <1>3, InKeeps DEF IRQ7, PortData
<1>4. CASE StdinProc
  BY <1>4, StdinIn
<1>5. CASE StdoutRcv \/ StdoutWait \/ StdoutStore \/ StdoutCount \/ StdoutSnd
  <2>1. /\ UNCHANGED <<stdin, toRead, uart>>
        /\ port_data'.RX_buffer = port_data.RX_buffer
        /\ port_data'.RX_semaphore = port_data.RX_semaphore
    BY <1>1, <1>5 DEF StdoutRcv, StdoutWait, StdoutStore, StdoutCount, StdoutSnd, PortData
  <2>2. QED
    BY <2>1, InKeeps
<1>6. CASE ShellProc
  <2>1. /\ UNCHANGED <<stdin, toRead, uart>>
        /\ port_data'.RX_buffer = port_data.RX_buffer
        /\ port_data'.RX_semaphore = port_data.RX_semaphore
    BY <1>1, <1>6 DEF ShellProc, ShellAsk, ShellGoOn, PortData
  <2>2. QED
    BY <2>1, InKeeps
<1>7. CASE Sent
  <2>1. UNCHANGED <<stdin, toRead, port_data>> /\ uart'.rbr = uart.rbr
    BY <1>7 DEF Sent, TypeOK, Uart
  <2>2. QED
    BY <2>1, InKeeps
<1>8. CASE \E key \in Keys : Type(key)
  BY <1>8 DEF Type, InInv, Taking
<1>9. CASE UNCHANGED vars
  BY <1>9, InKeeps DEF vars
<1>10. QED
  BY <1>2, <1>3, <1>4, <1>5, <1>6, <1>7, <1>8, <1>9 DEF Next, StdoutProc

-----------------------------------------------------------------------------
(***************************************************************************)
(* IInv is an invariant.                                                   *)
(***************************************************************************)
LEMMA InitInv == Init => IInv
<1> SUFFICES ASSUME Init PROVE IInv
  OBVIOUS
<1>1. /\ port_data.TX_buffer = EmptyQ /\ port_data.RX_buffer = EmptyQ
      /\ port_data.echo_buffer = EmptyQ
      /\ port_data.TX_semaphore = [limit |-> Q_LEN, waits |-> FALSE]
      /\ port_data.RX_semaphore = [limit |-> 0, waits |-> FALSE]
      /\ port_data.TXRDY = 1
      /\ uart = [thr |-> NONE, thre |-> TRUE, rbr |-> NONE, garbled |-> FALSE]
      /\ stdin.pc = "MsgRcv" /\ stdout.pc = "MsgRcv" /\ stdout.text = <<>>
      /\ toSend = <<>> /\ toRead = <<>>
  BY DEF Init
<1>2. EmptyQ.len = 0
  BY DEF EmptyQ
<1>3. PortInv
  BY <1>1, <1>2 DEF PortInv, Sound, Port
<1>4. Untipped = 0 /\ TXClaimed = 0 /\ Taking = 0
  BY <1>1 DEF Untipped, TXClaimed, Taking
<1>5. Len(toSend) = 0 /\ Len(toRead) = 0 /\ Q_LEN + 0 >= Q_LEN - 0 /\ 0 <= 0 /\ 0 >= 0 + 0
  BY <1>1, EmptySeq, TerminalAssumption
<1>6. OutInv
  BY <1>1, <1>2, <1>4, <1>5 DEF OutInv
<1>7. InInv
  BY <1>1, <1>2, <1>4, <1>5 DEF InInv
<1>8. QED
  BY <1>3, <1>6, <1>7, InitType DEF IInv

LEMMA StepInv == IInv /\ [Next]_vars => IInv'
<1> SUFFICES ASSUME IInv, [Next]_vars PROVE IInv'
  OBVIOUS
<1>1. TypeOK'
  BY StdinType, StdoutType, OtherType DEF IInv, Next
<1>2. PortInv' /\ OutInv' /\ InInv'
  BY PortStep, OutStep, InStep DEF IInv
<1>3. QED
  BY <1>1, <1>2 DEF IInv

LEMMA Invariant == Spec => []IInv
BY InitInv, StepInv, PTL DEF Spec

(* No buffer of the port ever holds more than Q_LEN characters, and all     *)
(* that StdinProc, StdoutProc, ShellProc and the interrupts share keeps its *)
(* type, whatever is typed and however often the printer posts.             *)
THEOREM TerminalTypes == Spec => []TypeOK
<1>1. IInv => TypeOK
  BY DEF IInv
<1>2. QED
  BY <1>1, Invariant, PTL

(* Output is never stuck: whenever TXRDY says that nothing is being sent,   *)
(* either nothing is left to send or StdoutProc, not blocked, is on its way *)
(* to TipIRQ3(); and otherwise the port will interrupt.                     *)
THEOREM OutputMoves == Spec => []NoStall
<1>1. ASSUME IInv PROVE NoStall
  <2> DEFINE n == port_data.TX_buffer.len
  <2>1. n \in 0 .. Q_LEN /\ Q_LEN \in Nat /\ Q_LEN >= 2
    BY <1>1, TerminalAssumption DEF IInv, TypeOK, PortData, Buffer
  <2>2. port_data.TX_semaphore.limit \in Nat
    BY <1>1 DEF IInv, TypeOK, PortData, Semaphore
  <2>3. ASSUME port_data.TXRDY = 1, n > 0
        PROVE  stdout.text # <<>> /\ ~port_data.TX_semaphore.waits
    <3>1. n <= Untipped
      BY <1>1, <2>3 DEF IInv, OutInv
    <3>2. Untipped # 0
      BY <2>1, <2>3, <3>1
    <3>3. stdout.text # <<>>
      BY <1>1, <3>2 DEF IInv, OutInv, Untipped
    <3>4. ASSUME port_data.TX_semaphore.waits PROVE FALSE
      <4>1. stdout.pc = "EnQ" /\ port_data.TX_semaphore.limit = 0 /\ TXClaimed = 0
        BY <1>1, <3>4 DEF IInv, OutInv, TXClaimed
      <4>2. Untipped \in {0, 1}
        BY <4>1 DEF Untipped
      <4>3. 0 + 0 >= Q_LEN - n
        BY <1>1, <4>1 DEF IInv, OutInv
      <4>4. QED
        BY <2>1, <3>1, <4>2, <4>3
    <3>5. QED
      BY <3>3, <3>4
  <2>4. /\ port_data.TXRDY = 1 => port_data.echo_buffer.len = 0
        /\ port_data.TXRDY = 0 => uart.thr # NONE \/ uart.thre
    BY <1>1 DEF IInv, PortInv, Sound, Port
  <2>5. QED
    BY <2>3, <2>4 DEF NoStall
<1>2. QED
  BY <1>1, Invariant, PTL

(* TX() never writes to the port while it still sends the character before, *)
(* though it is entered from interrupts, from TipIRQ3() and twice in one    *)
(* IRQ3ISR().                                                               *)
THEOREM OutputIntact == Spec => []NeverGarbled
<1>1. IInv => NeverGarbled
  BY DEF IInv, PortInv, Sound, Port, NeverGarbled
<1>2. QED
  BY <1>1, Invariant, PTL

-----------------------------------------------------------------------------
(***************************************************************************)
(* TX_semaphore counts exactly the space in TX_buffer, as long as nobody   *)
(* else posts it.                                                          *)
(***************************************************************************)
LEMMA SpaceKeeps ==
  ASSUME TXSpace, stdout'.pc = stdout.pc,
         port_data'.TX_buffer.len = port_data.TX_buffer.len,
         port_data'.TX_semaphore = port_data.TX_semaphore
  PROVE  TXSpace'
BY DEF TXSpace, TXClaimed

(* What TX() takes from TX_buffer it gives back to TX_semaphore.            *)
LEMMA HandleSpace ==
  ASSUME IInv, TXSpace, IRQ3 \/ StdoutTip
  PROVE  TXSpace'
<1> DEFINE m == port_data.TX_semaphore
           n == port_data.TX_buffer.len
<1>1. /\ m \in Semaphore /\ m.limit \in Nat /\ n \in 0 .. Q_LEN /\ Q_LEN \in Nat
      /\ m.waits \in BOOLEAN
  BY TerminalAssumption DEF IInv, TypeOK, PortData, Buffer, Semaphore
<1>2. OutKept(Port, Port') \/ OutTaken(Port, Port')
  BY HandleSettles DEF IInv, IRQ3, StdoutTip
<1>3. stdout'.pc = stdout.pc \/ (stdout.pc = "TipIRQ3" /\ stdout'.pc = "SemWait")
  BY DEF IRQ3, StdoutTip
<1>4. /\ m.limit + TXClaimed = Q_LEN - n
      /\ m.waits => m.limit = 0 /\ stdout.pc = "EnQ"
  BY DEF TXSpace, IInv, OutInv
<1>5. CASE OutKept(Port, Port')
  <2>1. port_data'.TX_buffer = port_data.TX_buffer /\ port_data'.TX_semaphore = m
    BY <1>5 DEF OutKept, Port
  <2>2. TXClaimed' = TXClaimed
    BY <1>3, <2>1 DEF TXClaimed
  <2>3. QED
    BY <1>4, <2>1, <2>2 DEF TXSpace
<1>6. CASE OutTaken(Port, Port')
  <2>1. /\ n > 0 /\ port_data'.TX_buffer.len = n - 1
        /\ port_data'.TX_semaphore = SemPostISR(m)
    BY <1>6 DEF OutTaken, Port
  <2>2. /\ SemPostISR(m).waits = FALSE
        /\ SemPostISR(m).limit = IF m.waits THEN m.limit ELSE m.limit + 1
    BY <1>1, PostWakes
  <2>3. CASE m.waits
    <3>1. TXClaimed = 0 /\ TXClaimed' = 1
      BY <1>3, <1>4, <2>1, <2>2, <2>3 DEF TXClaimed
    <3>2. SemPostISR(m).limit = m.limit
      BY <2>2, <2>3
    <3>3. m.limit + 1 = Q_LEN - (n - 1)
      BY <1>1, <1>4, <3>1
    <3>4. QED
      BY <2>1, <2>2, <3>1, <3>2, <3>3 DEF TXSpace
  <2>4. CASE ~m.waits
    <3>1. TXClaimed' = TXClaimed /\ TXClaimed \in {0, 1}
      BY <1>3, <2>1, <2>2, <2>4 DEF TXClaimed
    <3>2. SemPostISR(m).limit = m.limit + 1
      BY <2>2, <2>4
    <3>3. (m.limit + 1) + TXClaimed = Q_LEN - (n - 1)
      BY <1>1, <1>4, <3>1
    <3>4. QED
      BY <2>1, <2>2, <3>1, <3>2, <3>3 DEF TXSpace
  <2>5. QED
    BY <2>3, <2>4
<1>7. QED
  BY <1>2, <1>5, <1>6

LEMMA StdoutSpace ==
  ASSUME IInv, TXSpace,
         StdoutRcv \/ StdoutWait \/ StdoutStore \/ StdoutCount \/ StdoutSnd
  PROVE  TXSpace'
<1> DEFINE m == port_data.TX_semaphore
           n == port_data.TX_buffer.len
<1>1. /\ m \in Semaphore /\ m.limit \in Nat /\ m.waits \in BOOLEAN
      /\ port_data \in PortData /\ port_data.TX_buffer \in Buffer
      /\ n \in 0 .. Q_LEN /\ Q_LEN \in Nat /\ TypeOK
  BY TerminalAssumption DEF IInv, TypeOK, PortData, Buffer, Semaphore
<1>2. /\ m.limit + TXClaimed = Q_LEN - n
      /\ m.waits => m.limit = 0 /\ stdout.pc = "EnQ"
  BY DEF TXSpace, IInv, OutInv
<1>3. CASE StdoutRcv \/ StdoutSnd
  <2>1. /\ stdout.pc \in {"MsgRcv", "SemWait"} /\ stdout'.pc \in {"MsgRcv", "SemWait"}
        /\ UNCHANGED port_data
    BY <1>1, <1>3 DEF StdoutRcv, StdoutSnd, TypeOK
  <2>2. TXClaimed' = TXClaimed
    BY <2>1 DEF TXClaimed
  <2>3. QED
    BY <1>2, <2>1, <2>2 DEF TXSpace
<1>4. CASE StdoutWait
  <2>1. /\ stdout.pc = "SemWait" /\ stdout'.pc = "EnQ"
        /\ port_data'.TX_semaphore = SemWaitISR(m)
        /\ port_data'.TX_buffer = port_data.TX_buffer
    BY <1>1, <1>4 DEF StdoutWait, TypeOK, PortData
  <2>2. m.waits = FALSE /\ TXClaimed = 0
    BY <1>1, <1>2, <2>1 DEF TXClaimed
  <2>3. /\ m.limit > 0 => SemWaitISR(m).waits = FALSE /\ SemWaitISR(m).limit = m.limit - 1
        /\ ~(m.limit > 0) => SemWaitISR(m).waits = TRUE /\ SemWaitISR(m).limit = 0
    BY <1>1, <2>2, WaitTakes
  <2>4. m.limit = Q_LEN - n
    BY <1>1, <1>2, <2>2
  <2>5. CASE m.limit > 0
    <3>1. TXClaimed' = 1
      BY <2>1, <2>3, <2>5 DEF TXClaimed
    <3>2. (m.limit - 1) + 1 = Q_LEN - n
      BY <1>1, <2>4
    <3>3. QED
      BY <2>1, <2>3, <2>5, <3>1, <3>2 DEF TXSpace
  <2>6. CASE ~(m.limit > 0)
    <3>1. TXClaimed' = 0
      BY <2>1, <2>3, <2>6 DEF TXClaimed
    <3>2. 0 + 0 = Q_LEN - n
      BY <1>1, <2>4, <2>6
    <3>3. QED
      BY <2>1, <2>3, <2>6, <3>1, <3>2 DEF TXSpace
  <2>7. QED
    BY <2>5, <2>6
<1>5. CASE StdoutStore
  <2>1. stdout.pc = "EnQ" /\ ~m.waits /\ TXClaimed = 1
    BY <1>5 DEF StdoutStore, TXClaimed
  <2>2. n < Q_LEN /\ n # Q_LEN
    BY <1>1, <1>2, <2>1
  <2>3. /\ port_data' = [port_data EXCEPT !.TX_buffer = Store(Head(stdout.text), @)]
        /\ stdout' = [stdout EXCEPT !.pc = "count"]
    BY <1>5, <2>2 DEF StdoutStore
  <2>4. /\ stdout'.pc = "count" /\ port_data'.TX_semaphore = m
        /\ port_data'.TX_buffer.len = n
    BY <1>1, <2>3 DEF TypeOK, PortData, Store, Buffer
  <2>5. TXClaimed' = 1
    BY <2>1, <2>4 DEF TXClaimed
  <2>6. QED
    BY <1>2, <2>1, <2>4, <2>5 DEF TXSpace
<1>6. CASE StdoutCount
  <2>1. /\ stdout.pc = "count" /\ ~m.waits /\ TXClaimed = 1
        /\ port_data' = [port_data EXCEPT !.TX_buffer.len = @ + 1]
    BY <1>2, <1>6 DEF StdoutCount, TXClaimed
  <2>2. port_data'.TX_buffer.len = n + 1 /\ port_data'.TX_semaphore = m
    BY <1>1, <2>1 DEF PortData, Buffer
  <2>3. stdout'.pc \in {"SemWait", "TipIRQ3"}
    BY <1>1, <1>6, PuttingGoesOn DEF StdoutCount, IInv, OutInv
  <2>4. TXClaimed' = 0
    BY <2>3 DEF TXClaimed
  <2>5. m.limit + 0 = Q_LEN - (n + 1)
    BY <1>1, <1>2, <2>1
  <2>6. QED
    BY <1>2, <2>2, <2>4, <2>5 DEF TXSpace
<1>7. QED
  BY <1>3, <1>4, <1>5, <1>6

LEMMA SpaceStep ==
  ASSUME MAX_LIMIT = 0, IInv, TXSpace, [Next]_vars
  PROVE  TXSpace'
<1>1. port_data \in PortData /\ port_data.TX_semaphore.limit \in Nat
  BY DEF IInv, TypeOK, PortData, Semaphore
<1>2. CASE IRQ3 \/ StdoutTip
  BY <1>2, HandleSpace
<1>3. ~IRQ7
  <2>1. ~(port_data.TX_semaphore.limit < MAX_LIMIT)
    BY <1>1
  <2>2. QED
    BY <2>1 DEF IRQ7
<1>4. CASE StdinProc
  <2>1. /\ UNCHANGED stdout
        /\ port_data'.TX_buffer = port_data.TX_buffer
        /\ port_data'.TX_semaphore = port_data.TX_semaphore
    BY <1>1, <1>4 DEF StdinProc, StdinRcv, StdinWait, StdinTake, StdinShift, StdinSnd, PortData
  <2>2. QED
    BY <2>1, SpaceKeeps
<1>5. CASE StdoutRcv \/ StdoutWait \/ StdoutStore \/ StdoutCount \/ StdoutSnd
  BY <1>5, StdoutSpace
<1>6. CASE ShellProc
  <2>1. /\ UNCHANGED stdout
        /\ port_data'.TX_buffer = port_data.TX_buffer
        /\ port_data'.TX_semaphore = port_data.TX_semaphore
    BY <1>1, <1>6 DEF ShellProc, ShellAsk, ShellGoOn, PortData
  <2>2. QED
    BY <2>1, SpaceKeeps
<1>7. CASE Sent \/ (\E key \in Keys : Type(key)) \/ UNCHANGED vars
  BY <1>7, SpaceKeeps DEF Sent, Type, vars
<1>8. QED
  BY <1>2, <1>3, <1>4, <1>5, <1>6, <1>7 DEF Next, StdoutProc

(* Without a printer, TX_semaphore and the place StdoutProc has claimed     *)
(* always make up the space left in TX_buffer: EnQ() never finds it full,   *)
(* and StdoutProc blocks only when there is no space.                       *)
THEOREM TransmitSpace == ASSUME MAX_LIMIT = 0 PROVE Spec => []TXSpace
<1>1. Init => TXSpace
  BY TerminalAssumption DEF Init, TXSpace, TXClaimed, EmptyQ
<1>2. IInv /\ TXSpace /\ [Next]_vars => TXSpace'
  BY SpaceStep
<1>3. QED
  BY <1>1, <1>2, Invariant, PTL DEF Spec

-----------------------------------------------------------------------------
(***************************************************************************)
(* RX_semaphore counts exactly the characters in RX_buffer, as long as no  *)
(* more is typed ahead than fits.                                          *)
(***************************************************************************)
LEMMA CountKeeps ==
  ASSUME RXCount, stdin'.pc = stdin.pc,
         port_data'.RX_buffer.len = port_data.RX_buffer.len,
         port_data'.RX_semaphore = port_data.RX_semaphore
  PROVE  RXCount'
BY DEF RXCount, RXClaimed

LEMMA HandleCount ==
  ASSUME TYPE_AHEAD <= Q_LEN, IInv, RXCount, Handle, stdin' = stdin
  PROVE  RXCount'
<1>1. CASE InKept(Port, Port')
  BY <1>1, CountKeeps DEF InKept, Port
<1>2. CASE InPut(Port, Port')
  <2> DEFINE m == port_data.RX_semaphore
             n == port_data.RX_buffer.len
  <2>1. /\ m \in Semaphore /\ m.limit \in Nat /\ n \in 0 .. Q_LEN /\ Q_LEN \in Nat
        /\ Len(toRead) \in Nat /\ TYPE_AHEAD \in Nat
    BY TerminalAssumption, LenProperties DEF IInv, TypeOK, PortData, Buffer, Semaphore
  <2>2. Len(toRead) < TYPE_AHEAD /\ Len(toRead) >= n + Taking /\ Taking \in {0, 1}
    BY <1>2 DEF IInv, InInv, InPut, Port, Taking
  <2>3. n < Q_LEN
    BY <2>1, <2>2
  <2>4. /\ port_data'.RX_buffer.len = n + 1
        /\ port_data'.RX_semaphore = SemPostISR(m)
    BY <1>2, <2>3 DEF InPut, Port
  <2>5. /\ SemPostISR(m).waits = FALSE
        /\ SemPostISR(m).limit = IF m.waits THEN m.limit ELSE m.limit + 1
    BY <2>1, PostWakes
  <2>6. /\ m.limit + RXClaimed = n
        /\ m.waits => m.limit = 0 /\ stdin.pc = "DeQ"
    BY DEF RXCount, IInv, InInv
  <2>7. CASE m.waits
    <3>1. RXClaimed = 0 /\ RXClaimed' = 1
      BY <2>4, <2>5, <2>6, <2>7 DEF RXClaimed
    <3>2. SemPostISR(m).limit = m.limit
      BY <2>5, <2>7
    <3>3. m.limit + 1 = n + 1
      BY <2>1, <2>6, <3>1
    <3>4. QED
      BY <2>4, <2>5, <3>1, <3>2, <3>3 DEF RXCount
  <2>8. CASE ~m.waits
    <3>1. RXClaimed' = RXClaimed /\ RXClaimed \in {0, 1}
      BY <2>4, <2>5, <2>8 DEF RXClaimed
    <3>2. SemPostISR(m).limit = m.limit + 1
      BY <2>5, <2>8
    <3>3. (m.limit + 1) + RXClaimed = n + 1
      BY <2>1, <2>6, <3>1
    <3>4. QED
      BY <2>4, <2>5, <3>1, <3>2, <3>3 DEF RXCount
  <2>9. QED
    BY <2>7, <2>8
<1>3. QED
  BY <1>1, <1>2, HandleSettles DEF IInv

LEMMA StdinCount ==
  ASSUME IInv, RXCount, StdinProc
  PROVE  RXCount'
<1> DEFINE m == port_data.RX_semaphore
           n == port_data.RX_buffer.len
<1>1. /\ m \in Semaphore /\ m.limit \in Nat /\ m.waits \in BOOLEAN
      /\ port_data \in PortData /\ port_data.RX_buffer \in Buffer
      /\ n \in 0 .. Q_LEN /\ Q_LEN \in Nat /\ TypeOK
  BY TerminalAssumption DEF IInv, TypeOK, PortData, Buffer, Semaphore
<1>2. /\ m.limit + RXClaimed = n
      /\ m.waits => m.limit = 0 /\ stdin.pc = "DeQ"
  BY DEF RXCount, IInv, InInv
<1>3. CASE StdinRcv \/ StdinSnd
  <2>1. /\ stdin.pc # "DeQ" /\ stdin'.pc # "DeQ" /\ UNCHANGED port_data
    BY <1>1, <1>3 DEF StdinRcv, StdinSnd, TypeOK
  <2>2. RXClaimed' = RXClaimed
    BY <2>1 DEF RXClaimed
  <2>3. QED
    BY <1>2, <2>1, <2>2 DEF RXCount
<1>4. CASE StdinWait
  <2>1. /\ stdin.pc = "SemWait" /\ stdin'.pc = "DeQ"
        /\ port_data'.RX_semaphore = SemWaitISR(m)
        /\ port_data'.RX_buffer = port_data.RX_buffer
    BY <1>1, <1>4 DEF StdinWait, TypeOK, PortData
  <2>2. m.waits = FALSE /\ RXClaimed = 0
    BY <1>1, <1>2, <2>1 DEF RXClaimed
  <2>3. /\ m.limit > 0 => SemWaitISR(m).waits = FALSE /\ SemWaitISR(m).limit = m.limit - 1
        /\ ~(m.limit > 0) => SemWaitISR(m).waits = TRUE /\ SemWaitISR(m).limit = 0
    BY <1>1, <2>2, WaitTakes
  <2>4. m.limit = n
    BY <1>1, <1>2, <2>2
  <2>5. CASE m.limit > 0
    <3>1. RXClaimed' = 1
      BY <2>1, <2>3, <2>5 DEF RXClaimed
    <3>2. (m.limit - 1) + 1 = n
      BY <1>1, <2>4
    <3>3. QED
      BY <2>1, <2>3, <2>5, <3>1, <3>2 DEF RXCount
  <2>6. CASE ~(m.limit > 0)
    <3>1. RXClaimed' = 0
      BY <2>1, <2>3, <2>6 DEF RXClaimed
    <3>2. 0 + 0 = n
      BY <1>1, <2>4, <2>6
    <3>3. QED
      BY <2>1, <2>3, <2>6, <3>1, <3>2 DEF RXCount
  <2>7. QED
    BY <2>5, <2>6
<1>5. CASE StdinTake
  <2>1. stdin.pc = "DeQ" /\ ~m.waits /\ RXClaimed = 1
    BY <1>5 DEF StdinTake, RXClaimed
  <2>2. n > 0 /\ n # 0
    BY <1>1, <1>2, <2>1
  <2>3. /\ port_data' = [port_data EXCEPT !.RX_buffer.len = @ - 1]
        /\ stdin' = [pc |-> "shift", ch |-> port_data.RX_buffer.q[0]]
    BY <1>5, <2>2 DEF StdinTake
  <2>4. /\ port_data'.RX_buffer.len = n - 1 /\ port_data'.RX_semaphore = m
        /\ stdin'.pc = "shift"
    BY <1>1, <2>3 DEF PortData, Buffer
  <2>5. RXClaimed' = 0
    BY <2>4 DEF RXClaimed
  <2>6. m.limit + 0 = n - 1
    BY <1>1, <1>2, <2>1
  <2>7. QED
    BY <1>2, <2>1, <2>4, <2>5, <2>6 DEF RXCount
<1>6. CASE StdinShift
  <2>1. /\ stdin.pc = "shift" /\ stdin'.pc \in {"SemWait", "MsgSnd"}
        /\ port_data' = [port_data EXCEPT !.RX_buffer = Shift(@)]
    BY <1>6 DEF StdinShift, AfterTaking
  <2>2. /\ port_data'.RX_buffer = Shift(port_data.RX_buffer)
        /\ port_data'.RX_semaphore = m
    BY <1>1, <2>1 DEF PortData
  <2>3. port_data'.RX_buffer.len = n
    BY <1>1, <2>2, ShiftKeeps
  <2>4. RXClaimed = 0 /\ RXClaimed' = 0
    BY <2>1 DEF RXClaimed
  <2>5. QED
    BY <1>2, <2>2, <2>3, <2>4 DEF RXCount
<1>7. QED
  BY <1>3, <1>4, <1>5, <1>6 DEF StdinProc

LEMMA CountStep ==
  ASSUME TYPE_AHEAD <= Q_LEN, IInv, RXCount, [Next]_vars
  PROVE  RXCount'
<1>1. port_data \in PortData
  BY DEF IInv, TypeOK
<1>2. CASE IRQ3 \/ StdoutTip
  BY <1>2, HandleCount DEF IRQ3, StdoutTip
<1>3. CASE IRQ7
  BY <1>1, <1>3, CountKeeps DEF IRQ7, PortData
<1>4. CASE StdinProc
  BY <1>4, StdinCount
<1>5. CASE StdoutRcv \/ StdoutWait \/ StdoutStore \/ StdoutCount \/ StdoutSnd
  <2>1. /\ UNCHANGED stdin
        /\ port_data'.RX_buffer = port_data.RX_buffer
        /\ port_data'.RX_semaphore = port_data.RX_semaphore
    BY <1>1, <1>5 DEF StdoutRcv, StdoutWait, StdoutStore, StdoutCount, StdoutSnd, PortData
  <2>2. QED
    BY <2>1, CountKeeps
<1>6. CASE ShellProc
  <2>1. /\ UNCHANGED stdin
        /\ port_data'.RX_buffer = port_data.RX_buffer
        /\ port_data'.RX_semaphore = port_data.RX_semaphore
    BY <1>1, <1>6 DEF ShellProc, ShellAsk, ShellGoOn, PortData
  <2>2. QED
    BY <2>1, CountKeeps
<1>7. CASE Sent \/ (\E key \in Keys : Type(key)) \/ UNCHANGED vars
  BY <1>7, CountKeeps DEF Sent, Type, vars
<1>8. QED
  BY <1>2, <1>3, <1>4, <1>5, <1>6, <1>7 DEF Next, StdoutProc

(* While what is typed ahead fits RX_buffer, RX_semaphore and the character *)
(* StdinProc is about to take always make up what is in it: StdinProc never *)
(* takes from an empty queue and never sleeps while there is a character,   *)
(* though RX() runs between the steps of its DeQ().                         *)
THEOREM ReceiveCount == ASSUME TYPE_AHEAD <= Q_LEN PROVE Spec => []RXCount
<1>1. Init => RXCount
  BY DEF Init, RXCount, RXClaimed, EmptyQ
<1>2. IInv /\ RXCount /\ [Next]_vars => RXCount'
  BY CountStep
<1>3. QED
  BY <1>1, <1>2, Invariant, PTL DEF Spec
=============================================================================
