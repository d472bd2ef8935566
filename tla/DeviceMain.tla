---------------------------- MODULE DeviceMain -----------------------------
(***************************************************************************)
(* atmega328p/source/main.c and timer.c: the clock that the timer          *)
(* interrupt advances, the timers libmobile latches and checks, and, in    *)
(* the DEBUG_SPI build, the ring through which the SPI interrupt hands     *)
(* main the bytes to print.                                                *)
(*                                                                         *)
(* micros has 32 bits and the processor 8: main reads it with interrupts   *)
(* disabled, but stores and loads micros_latch piece by piece (two pieces  *)
(* here), and an interrupt may come between any two.  The C standard       *)
(* leaves open in which order mobile_impl_time_check_ms loads what it      *)
(* subtracts.  timer_get enables interrupts on its way out, also inside    *)
(* the SPI interrupt: the timer interrupt may then come before that is     *)
(* over, to the same effect as right after it.  The next byte does not     *)
(* come so soon.                                                           *)
(*                                                                         *)
(* libmobile (external) latches and checks any timer, from mobile_loop     *)
(* and, for all that main.c says, from mobile_transfer.                    *)
(***************************************************************************)
EXTENDS Integers, Sequences

CONSTANTS
  WIDTH,         \* micros is counted modulo this
  PIECE,         \* what the lower piece of micros_latch holds
  TICK,          \* how far one interrupt advances micros
  Timers,        \* 0 .. MOBILE_MAX_TIMERS - 1
  Ms,            \* the times that are checked for, in microseconds
  BUF_LEN,
  MaxTransfers   \* bound: bytes transferred by SPI

\* The higher byte of an index of the ring is always 0.
ASSUME MainAssumption ==
  /\ WIDTH \in Nat /\ PIECE \in Nat \ {0} /\ TICK \in Nat \ {0}
  /\ WIDTH % PIECE = 0 /\ TICK < WIDTH
  /\ Ms \subseteq 0..(WIDTH - 1)
  /\ BUF_LEN \in 2..256 /\ MaxTransfers \in Nat

VARIABLES
  micros, micros_latch,
  SPIE,             \* the SPI interrupt is enabled
  SPDR, last_SPDR,  \* the byte that goes out next, and main.c's copy of it
  buffer, buf_in, buf_out,
  canary,           \* TRUE: it is intact
  pc,
  timer, ms,        \* the arguments of the call main is in
  todo,             \* the loads, or the stores, it has yet to make
  time, latch,      \* what it has loaded; 0 when it is in no call
  first, second,    \* the bytes of the line that is printed
  age,              \* history: the time since a timer was latched, up to WIDTH
  began,            \* history: the age of the timer when its check began
  overtaken,        \* history: the interrupt has latched it since then
  torn,             \* history: timers it latched while main latched them
  transfers,        \* history: the bytes in and out
  printed,          \* history: how many lines
  spoiled           \* history: the ring was full, or SPI was enabled again

clock == <<micros, micros_latch>>
call == <<timer, ms, todo, time, latch, began, overtaken>>
history == <<age, torn>>
spi == <<SPIE, SPDR, last_SPDR, transfers, spoiled>>
ring == <<buffer, buf_in, buf_out>>
lines == <<first, second, printed>>
vars == <<clock, history, call, spi, ring, lines, canary, pc>>

IdleByte == 0
Index == 0..(BUF_LEN - 1)

\* A 32-bit value in two pieces, and back.
Split(value) == [low |-> value % PIECE, high |-> value \div PIECE]
Joined(pieces) == pieces.high * PIECE + pieces.low

Init ==
  /\ micros = 0 /\ micros_latch = [t \in Timers |-> Split(0)]
  /\ SPIE = FALSE /\ SPDR = IdleByte /\ last_SPDR = IdleByte
  /\ buffer = [i \in Index |-> 0] /\ buf_in = 0 /\ buf_out = 0
  /\ canary = TRUE /\ pc = "mobile_loop"
  /\ timer \in Timers /\ ms \in Ms /\ todo = {} /\ time = 0 /\ latch = Split(0)
  /\ first = 0 /\ second = 0
  /\ age = [t \in Timers |-> 0] /\ began = 0 /\ overtaken = FALSE /\ torn = {}
  /\ transfers = <<>> /\ printed = 0 /\ spoiled = FALSE
-----------------------------------------------------------------------------
\* timer_isr
timer_isr ==
  /\ micros' = (micros + TICK) % WIDTH
  /\ age' = [t \in Timers |-> IF age[t] + TICK < WIDTH THEN age[t] + TICK ELSE WIDTH]

\* TIMER0_OVF_vect: nothing runs any more once the canary is found dead.
TimerInterrupt ==
  /\ pc # "hangs"
  /\ \/ canary /\ timer_isr /\ UNCHANGED <<pc, SPIE>>
     \/ /\ ~canary
        /\ SPIE' = FALSE /\ pc' = "hangs"
        /\ UNCHANGED <<micros, age>>
  /\ UNCHANGED <<micros_latch, torn, call, SPDR, last_SPDR, transfers, spoiled, ring, lines,
                 canary>>

\* The stack grows over the canary.
StackGrows ==
  /\ pc # "hangs" /\ canary' = FALSE
  /\ UNCHANGED <<clock, history, call, spi, ring, lines, pc>>

timer_get == micros

\* mobile_impl_time_latch, from mobile_loop.
BeginLatch(t) ==
  /\ pc = "mobile_loop" /\ pc' = "time_latch"
  /\ timer' = t
  /\ time' = timer_get /\ todo' = {"low", "high"}
  /\ age' = [age EXCEPT ![t] = 0] /\ torn' = torn \ {t}
  /\ UNCHANGED <<clock, ms, latch, began, overtaken, spi, ring, lines, canary>>

StorePiece(piece) ==
  /\ pc = "time_latch" /\ piece \in todo
  /\ micros_latch' = [micros_latch EXCEPT ![timer][piece] = Split(time)[piece]]
  /\ todo' = todo \ {piece}
  /\ IF todo' = {} THEN pc' = "mobile_loop" /\ time' = 0 ELSE UNCHANGED <<pc, time>>
  /\ UNCHANGED <<micros, history, timer, ms, latch, began, overtaken, spi, ring, lines, canary>>

\* mobile_impl_time_check_ms, from mobile_loop.
BeginCheck(t, m) ==
  /\ pc = "mobile_loop" /\ pc' = "time_check"
  /\ timer' = t /\ ms' = m
  /\ todo' = {"time", "low", "high"}
  /\ began' = age[t] /\ overtaken' = FALSE
  /\ UNCHANGED <<clock, history, time, latch, spi, ring, lines, canary>>

LoadTime ==
  /\ pc = "time_check" /\ "time" \in todo
  /\ time' = timer_get /\ todo' = todo \ {"time"}
  /\ UNCHANGED <<clock, history, timer, ms, latch, began, overtaken, spi, ring, lines, canary, pc>>

LoadPiece(piece) ==
  /\ pc = "time_check" /\ piece \in todo
  /\ latch' = [latch EXCEPT ![piece] = micros_latch[timer][piece]]
  /\ todo' = todo \ {piece}
  /\ UNCHANGED <<clock, history, timer, ms, time, began, overtaken, spi, ring, lines, canary, pc>>

\* Mutant: the time at which the timer is over is computed and compared.
Expired_AtSum == time > (Joined(latch) + ms) % WIDTH

\* The difference of two unsigned numbers.
Expired == (time - Joined(latch)) % WIDTH > ms

CheckReturns(result) ==
  /\ pc = "time_check" /\ todo = {}
  /\ result = Expired
  /\ pc' = "mobile_loop"
  /\ time' = 0 /\ latch' = Split(0) /\ began' = 0 /\ overtaken' = FALSE
  /\ UNCHANGED <<clock, history, timer, ms, todo, spi, ring, lines, canary>>
-----------------------------------------------------------------------------
\* The ring of main.c, on the given [buffer, in, out].
Ring == [buffer |-> buffer, in |-> buf_in, out |-> buf_out]

buffer_isempty == buf_in = buf_out
buffer_isfull(r) == (r.in + 1) % BUF_LEN = r.out

\* Mutant: the index is not brought back to the beginning.
buffer_put_NoWrap(r, c) == [r EXCEPT !.buffer[r.in] = c, !.in = r.in + 1]

buffer_put(r, c) == [r EXCEPT !.buffer[r.in] = c, !.in = (r.in + 1) % BUF_LEN]

PutIfRoom(r, c) == IF buffer_isfull(r) THEN r ELSE buffer_put(r, c)

\* Mutant: there is no room for idle bytes.
PutBoth_NotIdle(r, c) ==
  IF last_SPDR = IdleByte THEN PutIfRoom(r, c) ELSE PutIfRoom(PutIfRoom(r, c), last_SPDR)

\* Both bytes of a transfer, the one that came in and the one that went out.
PutBoth(r, c) == PutIfRoom(PutIfRoom(r, c), last_SPDR)

\* Bytes are named by the transfer they belong to: the byte that comes in by
\* its number, the reply to it, which goes out with the next, by the negative.
Incoming == Len(transfers) + 1

\* SPI_STC_vect, with mobile_transfer, which may latch timers.
SpiInterrupt(latched) ==
  /\ SPIE /\ pc # "hangs" /\ Len(transfers) < MaxTransfers
  /\ transfers' = Append(transfers, <<Incoming, SPDR>>)
  /\ LET r == PutBoth(Ring, Incoming) IN
     /\ buffer' = r.buffer /\ buf_in' = r.in
     /\ spoiled' = (spoiled \/ buffer_isfull(Ring) \/ buffer_isfull(PutIfRoom(Ring, Incoming)))
  /\ SPDR' = -Incoming /\ last_SPDR' = -Incoming
  /\ micros_latch' = [t \in Timers |-> IF t \in latched THEN Split(timer_get) ELSE micros_latch[t]]
  /\ age' = [t \in Timers |-> IF t \in latched THEN 0 ELSE age[t]]
  /\ torn' = (torn \ latched) \cup IF pc = "time_latch" THEN latched \cap {timer} ELSE {}
  /\ overtaken' = (overtaken \/ (pc = "time_check" /\ timer \in latched))
  /\ UNCHANGED <<micros, timer, ms, todo, time, latch, began, buf_out, lines, canary, SPIE, pc>>

\* mobile_impl_serial_disable and _enable, from mobile_loop.
SerialDisable ==
  /\ pc = "mobile_loop" /\ SPIE' = FALSE
  /\ UNCHANGED <<clock, history, call, SPDR, last_SPDR, transfers, spoiled, ring, lines,
                 canary, pc>>

\* The idle byte will go out; last_SPDR does not know.
SerialEnable ==
  /\ pc = "mobile_loop" /\ SPIE' = TRUE
  /\ SPDR' = IdleByte
  /\ spoiled' = (spoiled \/ last_SPDR # IdleByte)
  /\ UNCHANGED <<clock, history, call, last_SPDR, transfers, ring, lines, canary, pc>>
-----------------------------------------------------------------------------
\* mobile_loop returns, and main prints if there is anything to print.
MobileLoopReturns ==
  /\ pc = "mobile_loop" /\ ~buffer_isempty
  /\ pc' = "first"
  /\ UNCHANGED <<clock, history, call, spi, ring, lines, canary>>

\* Mutant: buffer_get moves on before it has read.
LoadByte_Next(from, to) ==
  /\ pc = from /\ pc' = to
  /\ LET c == buffer[(buf_out + 1) % BUF_LEN] IN
       IF from = "first" THEN first' = c /\ UNCHANGED second ELSE second' = c /\ UNCHANGED first
  /\ UNCHANGED <<clock, history, call, spi, ring, printed, canary>>

\* buffer_get in its two accesses.
LoadByte(from, to) ==
  /\ pc = from /\ pc' = to
  /\ LET c == buffer[buf_out] IN
       IF from = "first" THEN first' = c /\ UNCHANGED second ELSE second' = c /\ UNCHANGED first
  /\ UNCHANGED <<clock, history, call, spi, ring, printed, canary>>

StoreOut(from, to) ==
  /\ pc = from /\ pc' = to
  /\ buf_out' = (buf_out + 1) % BUF_LEN
  /\ UNCHANGED <<clock, history, call, spi, buffer, buf_in, lines, canary>>

\* while (buffer_isempty());
WaitSecond ==
  /\ pc = "wait_second" /\ ~buffer_isempty
  /\ pc' = "second"
  /\ UNCHANGED <<clock, history, call, spi, ring, lines, canary>>

PrintLine ==
  /\ pc = "print" /\ pc' = "mobile_loop"
  /\ printed' = printed + 1 /\ first' = 0 /\ second' = 0
  /\ UNCHANGED <<clock, history, call, spi, ring, canary>>

Main ==
  \/ \E t \in Timers : BeginLatch(t) \/ \E m \in Ms : BeginCheck(t, m)
  \/ \E piece \in {"low", "high"} : StorePiece(piece) \/ LoadPiece(piece)
  \/ LoadTime \/ \E result \in BOOLEAN : CheckReturns(result)
  \/ SerialDisable \/ SerialEnable
  \/ MobileLoopReturns \/ WaitSecond \/ PrintLine
  \/ LoadByte("first", "first_out") \/ StoreOut("first_out", "wait_second")
  \/ LoadByte("second", "second_out") \/ StoreOut("second_out", "print")

Next ==
  \/ Main \/ TimerInterrupt \/ StackGrows
  \/ \E latched \in SUBSET Timers : SpiInterrupt(latched)

Spec == Init /\ [][Next]_vars
-----------------------------------------------------------------------------
Value == 0..(WIDTH - 1)
Pieces == [low : 0..(PIECE - 1), high : 0..(WIDTH \div PIECE - 1)]
SpiByte == (-MaxTransfers)..MaxTransfers

Step == {"mobile_loop", "time_latch", "time_check", "first", "first_out", "wait_second",
         "second", "second_out", "print", "hangs"}

\* The state has its type.
MainTypeOK ==
  /\ micros \in Value /\ micros_latch \in [Timers -> Pieces]
  /\ SPIE \in BOOLEAN /\ SPDR \in SpiByte /\ last_SPDR \in SpiByte
  /\ buffer \in [Index -> SpiByte] /\ buf_in \in Index /\ buf_out \in Index
  /\ canary \in BOOLEAN /\ pc \in Step
  /\ timer \in Timers /\ ms \in Ms /\ todo \subseteq {"time", "low", "high"}
  /\ time \in Value /\ latch \in Pieces
  /\ first \in SpiByte /\ second \in SpiByte
  /\ age \in [Timers -> 0..WIDTH] /\ began \in 0..WIDTH
  /\ overtaken \in BOOLEAN /\ torn \subseteq Timers
  /\ Len(transfers) <= MaxTransfers /\ printed \in Nat /\ spoiled \in BOOLEAN

\* A timer is found to be over when more than its time has passed, to the tick,
\* and only then, also when micros wraps around, for as long as it does not
\* wrap around again.  This is not so when the interrupt latches the timer while
\* main latches or checks it: nothing in main.c protects micros_latch.
CheckedInTime ==
  [][pc = "time_check" /\ pc' = "mobile_loop" /\ ~overtaken /\ timer \notin torn =>
       /\ CheckReturns(TRUE) => age[timer] > ms
       /\ CheckReturns(FALSE) => began <= ms \/ age[timer] = WIDTH]_vars

\* "print every byte sent and received": each line shows the two bytes of one
\* transfer, and no transfer is skipped, as long as the ring was never full and
\* SPI never enabled again (which spoils the lines that follow).
LinesAreTransfers ==
  pc = "print" /\ ~spoiled =>
    printed < Len(transfers) /\ transfers[printed + 1] = <<first, second>>

\* And main never waits for the second byte with the first in its hand; it
\* would not come before the next transfer, and mobile_loop would not run.
SecondIsThere == pc = "wait_second" /\ ~spoiled => ~buffer_isempty
=============================================================================
