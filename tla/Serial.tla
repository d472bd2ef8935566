------------------------------ MODULE Serial -------------------------------
(***************************************************************************)
(* The UART driver of the device, atmega328p/source/serial.c: main calls   *)
(* serial_putchar, serial_getchar, serial_available and serial_drain; the  *)
(* interrupts USART_UDRE and USART_RX move bytes between two rings and the *)
(* USART.                                                                  *)
(*                                                                         *)
(* An interrupt handler runs with interrupts disabled and is one step.     *)
(* Main is interrupted between any two accesses to what it shares with     *)
(* them, so each access is a step of main.  UCSR0B lies beyond the reach   *)
(* of the sbi instruction, and enabling the interrupt is several           *)
(* instructions after the ring's head is stored.                           *)
(*                                                                         *)
(* The hardware: the transmitter holds a byte in UDR0 and one in its shift *)
(* register, and ignores a write to UDR0 while the former is there; the    *)
(* receiver holds two.  Main executes one instruction after a handler      *)
(* returns, and may finish one after an interrupt becomes pending.         *)
(*                                                                         *)
(* Time: while a byte is shifted out, main makes ByteTime of its steps at  *)
(* least, and there are MaxOthers bytes received and interrupts handled    *)
(* by main.c at most.  At 500000 baud a byte lasts 320 cycles, in either   *)
(* direction.                                                              *)
(***************************************************************************)
EXTENDS SerialBuffer

CONSTANTS
  MaxLoad,
  Loads,      \* how many bytes main sends and how many arrive: [puts, arrivals]
  ByteTime,
  MaxOthers

\* A byte has the number of bytes still to come, itself included.
Byte == 0..MaxLoad

ASSUME SerialAssumption ==
  /\ MaxLoad \in Nat /\ Loads \subseteq [puts : Byte, arrivals : Byte]
  /\ ByteTime \in Nat /\ MaxOthers \in Nat

VARIABLES
  serial_tx, serial_rx,
  UDRIE0,      \* that bit of UCSR0B
  udr, shift,  \* the transmitter: at most one byte in each
  left,        \* steps of main before the byte in shift can be out
  rxfifo,      \* the receiver: records [byte, good]
  pc, c,       \* where main is, and the byte it puts or gets
  window,      \* before the next interrupt main executes an instruction
               \* ("owed"), may execute one ("open") or does not ("closed")
  others,      \* of MaxOthers, those that may still come during this byte
  load,        \* bytes still to be put and to arrive
  announced,   \* bytes that serial_available announced, less those got
  line, offered, got   \* history: the last byte shifted out, whether the last
                       \* good byte received found room, the last byte got

tx == <<serial_tx, UDRIE0, udr, shift, line>>
rx == <<serial_rx, rxfifo, offered, got, announced>>
main == <<pc, c>>
vars == <<tx, rx, main, left, window, others, load>>

EmptyRing == [buffer |-> [i \in Slot |-> 0], head |-> 0, tail |-> 0]

Init ==
  /\ serial_tx = EmptyRing /\ serial_rx = EmptyRing
  /\ UDRIE0 = FALSE /\ udr = <<>> /\ shift = <<>> /\ left = 0
  /\ rxfifo = <<>>
  /\ pc = "idle" /\ c = 0
  /\ window = "open" /\ others = MaxOthers
  /\ load \in Loads
  /\ announced = 0 /\ line = 0 /\ offered = TRUE /\ got = 0
-----------------------------------------------------------------------------
\* The transmitter.

UDRE0 == udr = <<>>

\* A byte begins to be shifted out.
Begins == left' = ByteTime /\ others' = MaxOthers

\* UDR0 = byte: the byte goes on to the shift register if that is free.
WriteUDR0(byte) ==
  CASE UDRE0 /\ shift = <<>> -> shift' = <<byte>> /\ Begins /\ UNCHANGED udr
    [] UDRE0 /\ shift # <<>> -> udr' = <<byte>> /\ UNCHANGED <<shift, left, others>>
    [] OTHER -> UNCHANGED <<udr, shift, left, others>>

ByteOut ==
  /\ shift # <<>> /\ left = 0
  /\ line' = shift[1]
  /\ shift' = udr /\ udr' = <<>>
  /\ IF udr = <<>> THEN UNCHANGED <<left, others>> ELSE Begins
  /\ UNCHANGED <<serial_tx, UDRIE0, rx, main, window, load>>

\* The receiver.

RXC0 == rxfifo # <<>>

\* A byte arrives, perhaps with a framing error; it is lost when the receiver
\* already holds two.
ByteArrives(good) ==
  /\ load.arrivals > 0 /\ others > 0
  /\ others' = others - 1
  /\ load' = [load EXCEPT !.arrivals = @ - 1]
  /\ rxfifo' = IF Len(rxfifo) < 2
                 THEN Append(rxfifo, [byte |-> load.arrivals, good |-> good])
                 ELSE rxfifo
  /\ UNCHANGED <<tx, serial_rx, offered, got, announced, main, left, window>>
-----------------------------------------------------------------------------
\* Interrupts.

Pending == RXC0 \/ (UDRIE0 /\ UDRE0)

\* The instruction after that of RETI is executed in any case.
Interrupt == window # "owed" /\ window' = "owed"

Executes ==
  /\ Pending => window # "closed"
  /\ window' = IF Pending THEN "closed" ELSE "open"

Tick == left' = IF left > 0 THEN left - 1 ELSE 0

\* Mutant: the interrupt stays enabled until it finds the ring empty.
serial_transmit_OneLate ==
  /\ Interrupt /\ ~RXC0 /\ UDRIE0 /\ UDRE0
  /\ WriteUDR0(GetByte(serial_tx))
  /\ serial_tx' = GetTail(serial_tx)
  /\ UDRIE0' = ~IsEmpty(serial_tx)
  /\ UNCHANGED <<line, rx, main, load>>

\* The receive interrupt comes first.
serial_transmit ==
  /\ Interrupt /\ ~RXC0 /\ UDRIE0 /\ UDRE0
  /\ WriteUDR0(GetByte(serial_tx))
  /\ serial_tx' = GetTail(serial_tx)
  /\ UDRIE0' = (UDRIE0 /\ ~IsEmpty(GetTail(serial_tx)))
  /\ UNCHANGED <<line, rx, main, load>>

\* Mutant: a full ring is not noticed.
serial_receive_Always ==
  /\ Interrupt /\ RXC0
  /\ rxfifo' = Tail(rxfifo)
  /\ serial_rx' = IF rxfifo[1].good THEN PutHead(PutByte(serial_rx, rxfifo[1].byte)) ELSE serial_rx
  /\ offered' = (rxfifo[1].good \/ offered)
  /\ UNCHANGED <<got, announced, tx, main, left, others, load>>

\* A byte that is damaged or finds the ring full is read and discarded.
serial_receive ==
  LET good == rxfifo[1].good
      kept == good /\ ~IsFull(serial_rx) IN
  /\ Interrupt /\ RXC0
  /\ rxfifo' = Tail(rxfifo)
  /\ serial_rx' = IF kept THEN PutHead(PutByte(serial_rx, rxfifo[1].byte)) ELSE serial_rx
  /\ offered' = IF good THEN kept ELSE offered
  /\ UNCHANGED <<got, announced, tx, main, left, others, load>>

\* The handlers of main.c: they use none of this, but main executes an
\* instruction after each.
OtherInterrupt ==
  /\ Interrupt
  /\ others > 0 /\ others' = others - 1
  /\ UNCHANGED <<tx, rx, main, left, load>>
-----------------------------------------------------------------------------
\* Main.  Each action is one access to what it shares with an interrupt.

Goto(step) == pc' = step /\ UNCHANGED c

\* Main does something else, for a long time if the USART is not busy.
Elsewhere ==
  /\ pc = "idle"
  /\ Executes /\ Tick
  /\ others' = IF shift = <<>> /\ ~Pending THEN MaxOthers ELSE others
  /\ UNCHANGED <<tx, rx, main, load>>

\* serial_putchar(c): its first access is the test of UDRE0.
PutChar ==
  /\ pc = "idle" /\ load.puts > 0
  /\ load' = [load EXCEPT !.puts = @ - 1] /\ c' = load.puts
  /\ pc' = IF UDRE0 THEN "test_empty" ELSE "wait_full"
  /\ Executes /\ Tick
  /\ UNCHANGED <<tx, rx, others>>

\* Mutant: the ring is not looked at.
TestEmpty_UDRE0Only ==
  /\ pc = "test_empty"
  /\ Goto("store_udr")
  /\ Executes /\ Tick
  /\ UNCHANGED <<tx, rx, others, load>>

TestEmpty ==
  /\ pc = "test_empty"
  /\ Goto(IF IsEmpty(serial_tx) THEN "store_udr" ELSE "wait_full")
  /\ Executes /\ Tick
  /\ UNCHANGED <<tx, rx, others, load>>

StoreUDR0 ==
  /\ pc = "store_udr"
  /\ WriteUDR0(c)
  /\ Goto("idle")
  /\ Executes
  /\ UNCHANGED <<serial_tx, UDRIE0, line, rx, load>>

WaitFull ==
  /\ pc = "wait_full"
  /\ Goto(IF IsFull(serial_tx) THEN "wait_full" ELSE "store_byte")
  /\ Executes /\ Tick
  /\ UNCHANGED <<tx, rx, others, load>>

StoreByte ==
  /\ pc = "store_byte"
  /\ serial_tx' = PutByte(serial_tx, c)
  /\ Goto("store_head")
  /\ Executes /\ Tick
  /\ UNCHANGED <<UDRIE0, udr, shift, line, rx, others, load>>

\* Mutant: the interrupt is not enabled while the data register is in use.
StoreHead_IfIdle ==
  /\ pc = "store_head"
  /\ serial_tx' = PutHead(serial_tx)
  /\ Goto(IF UDRE0 THEN "load_ucsr" ELSE "idle")
  /\ Executes /\ Tick
  /\ UNCHANGED <<UDRIE0, udr, shift, line, rx, others, load>>

StoreHead ==
  /\ pc = "store_head"
  /\ serial_tx' = PutHead(serial_tx)
  /\ Goto("load_ucsr")
  /\ Executes /\ Tick
  /\ UNCHANGED <<UDRIE0, udr, shift, line, rx, others, load>>

\* UCSR0B |= UDRIE0: no other bit of it ever changes, so what was loaded does
\* not matter.
LoadUCSR0B ==
  /\ pc = "load_ucsr"
  /\ Goto("store_ucsr")
  /\ Executes /\ Tick
  /\ UNCHANGED <<tx, rx, others, load>>

StoreUCSR0B ==
  /\ pc = "store_ucsr"
  /\ UDRIE0' = TRUE
  /\ Goto("idle")
  /\ Executes /\ Tick
  /\ UNCHANGED <<serial_tx, udr, shift, line, rx, others, load>>

\* serial_getchar.  The callers do not wait: they ask serial_available first.
GetChar ==
  /\ pc = "idle" /\ announced > 0
  /\ Goto("wait_empty")
  /\ Executes /\ Tick
  /\ UNCHANGED <<tx, rx, others, load>>

WaitEmpty ==
  /\ pc = "wait_empty"
  /\ Goto(IF IsEmpty(serial_rx) THEN "wait_empty" ELSE "load_byte")
  /\ Executes /\ Tick
  /\ UNCHANGED <<tx, rx, others, load>>

LoadByte ==
  /\ pc = "load_byte"
  /\ c' = GetByte(serial_rx)
  /\ pc' = "store_tail"
  /\ Executes /\ Tick
  /\ UNCHANGED <<tx, rx, others, load>>

StoreTail ==
  /\ pc = "store_tail"
  /\ serial_rx' = GetTail(serial_rx)
  /\ got' = c /\ announced' = announced - 1
  /\ Goto("idle")
  /\ Executes /\ Tick
  /\ UNCHANGED <<tx, rxfifo, offered, others, load>>

serial_available ==
  /\ pc = "idle" /\ announced = 0
  /\ announced' = Available(serial_rx)
  /\ Executes /\ Tick
  /\ UNCHANGED <<tx, serial_rx, rxfifo, offered, got, main, others, load>>

\* serial_drain: UCSR0B is read, then UCSR0A.
Drain ==
  /\ \/ pc \in {"idle", "drain"} /\ Goto(IF UDRIE0 THEN "drain" ELSE "drain_rx")
     \/ pc = "drain_rx" /\ Goto(IF RXC0 THEN "drain" ELSE "idle")
  /\ Executes /\ Tick
  /\ UNCHANGED <<tx, rx, others, load>>

Returns ==
  \/ TestEmpty \/ StoreUDR0 \/ WaitFull \/ StoreByte \/ StoreHead \/ LoadUCSR0B \/ StoreUCSR0B
  \/ WaitEmpty \/ LoadByte \/ StoreTail \/ Drain

Main == Elsewhere \/ PutChar \/ GetChar \/ serial_available \/ Returns

Handler == serial_transmit \/ serial_receive

Next ==
  \/ Main \/ Handler \/ OtherInterrupt
  \/ ByteOut \/ \E good \in BOOLEAN : ByteArrives(good)

Spec == Init /\ [][Next]_vars

\* Main goes on, an interrupt that is pending is served, and the transmitter
\* works.  Nothing need arrive.
FairSpec == Spec /\ WF_vars(Main) /\ WF_vars(Handler) /\ WF_vars(ByteOut)
-----------------------------------------------------------------------------
TransmitTypeOK ==
  /\ serial_tx \in Ring(Byte)
  /\ UDRIE0 \in BOOLEAN
  /\ udr = <<>> \/ \E byte \in Byte : udr = <<byte>>
  /\ shift = <<>> \/ \E byte \in Byte : shift = <<byte>>
  /\ udr # <<>> => shift # <<>>
  /\ left \in 0..ByteTime
  /\ line \in Byte

Received == [byte : Byte, good : BOOLEAN]

ReceiveTypeOK ==
  /\ serial_rx \in Ring(Byte)
  /\ rxfifo \in Seq(Received) /\ Len(rxfifo) <= 2
  /\ offered \in BOOLEAN /\ got \in Byte /\ announced \in Slot

Step == {"idle", "test_empty", "store_udr", "wait_full", "store_byte", "store_head",
         "load_ucsr", "store_ucsr", "wait_empty", "load_byte", "store_tail", "drain",
         "drain_rx"}

MainTypeOK ==
  /\ pc \in Step /\ c \in Byte
  /\ window \in {"owed", "open", "closed"}
  /\ others \in 0..MaxOthers
  /\ load \in [puts : Byte, arrivals : Byte]

SerialTypeOK == TransmitTypeOK /\ ReceiveTypeOK /\ MainTypeOK

\* The transmit interrupt is enabled only while there is something to send
\* (serial_transmit takes a byte without looking), although putchar stores the
\* byte, moves the head and enables the interrupt in separate accesses.
InterruptHasWork == UDRIE0 => ~IsEmpty(serial_tx)

\* And nothing is left in the ring with nobody to send it.
NothingStranded == ~IsEmpty(serial_tx) => UDRIE0 \/ pc \in {"load_ucsr", "store_ucsr"}

\* serial_available counts nothing that is not there when it is got: the
\* callers in gbridge.c read as many bytes as it counted, without a timeout.
AnnouncedIsThere == announced <= Available(serial_rx)

\* The receive ring is a queue of SERIAL_BUFFER_SIZE - 1 bytes: intact bytes
\* come out in order and are discarded only when the ring is full.
Receiver == INSTANCE BoundedFifo WITH
  Capacity <- SERIAL_BUFFER_SIZE - 1,
  queue <- Content(serial_rx), accepted <- offered, taken <- got
ReceiverIsFifo == Receiver!Spec

\* Transmit ring, data register and shift register together are a queue: what
\* goes out has gone in, in order and once, whichever way putchar sent it.
\* (That nothing is ignored by the data register is StraightAway.)
Transmitter == INSTANCE BoundedFifo WITH
  Capacity <- SERIAL_BUFFER_SIZE + 1,
  queue <- shift \o udr \o Content(serial_tx), accepted <- TRUE, taken <- line
TransmitterIsFifo == Transmitter!Spec

\* A call of serial_putchar or serial_getchar returns.
CallReturns == pc \notin {"idle", "drain", "drain_rx"} ~> pc = "idle"

\* "If the data register and buffer are empty, just send it straight away": both
\* are when the byte is written, or else the data register ignores it.
StraightAway ==
  [][pc = "store_udr" /\ pc' = "idle" => udr = <<>> /\ IsEmpty(serial_tx)]_vars
=============================================================================
