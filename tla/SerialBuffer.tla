--------------------------- MODULE SerialBuffer ----------------------------
(***************************************************************************)
(* struct serial_buffer of atmega328p/source/serial.c: a ring of           *)
(* SERIAL_BUFFER_SIZE slots with two indices, each of which only one side  *)
(* writes.  A ring is a record [buffer, head, tail].                       *)
(***************************************************************************)
EXTENDS Integers, Sequences

CONSTANT SERIAL_BUFFER_SIZE

\* Indices are unsigned chars.
ASSUME BufferAssumption == SERIAL_BUFFER_SIZE \in 2..256

Slot == 0..(SERIAL_BUFFER_SIZE - 1)

Ring(bytes) == [buffer : [Slot -> bytes], head : Slot, tail : Slot]

\* Mutant: only the width of the index limits it.
Succ_NoWrap(i) == (i + 1) % 256

\* (unsigned char)(i + 1) % SERIAL_BUFFER_SIZE
Succ(i) == ((i + 1) % 256) % SERIAL_BUFFER_SIZE

IsEmpty(ring) == ring.head = ring.tail

\* Mutant: one slot more is left unused.
IsFull_Early(ring) == Succ(Succ(ring.head)) = ring.tail

IsFull(ring) == Succ(ring.head) = ring.tail

\* serial_buffer_put and serial_buffer_get, each in its two accesses.
PutByte(ring, byte) == [ring EXCEPT !.buffer[ring.head] = byte]
PutHead(ring) == [ring EXCEPT !.head = Succ(ring.head)]
GetByte(ring) == ring.buffer[ring.tail]
GetTail(ring) == [ring EXCEPT !.tail = Succ(ring.tail)]

\* serial_available
Available(ring) == (SERIAL_BUFFER_SIZE + ring.head - ring.tail) % SERIAL_BUFFER_SIZE

\* The bytes a ring holds, the oldest first.
Content(ring) ==
  [i \in 1..Available(ring) |-> ring.buffer[(ring.tail + i - 1) % SERIAL_BUFFER_SIZE]]
=============================================================================
