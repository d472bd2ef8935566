# Verification of libmobile-atmega

This directory holds TLA+ models of the programs in `src/`, the TLC
configurations that check them on small instances, and theorems about them
whose proofs TLAPS checks. `PROJECT.json` lists components, runs, the source
lines of each definition, hazards, findings and theorems.

## 1. The system

An ATmega328P sits on the link port of a Game Boy and runs *libmobile* (a
submodule, not part of this repository). Libmobile needs sockets. The device
has none: it sends each socket operation over its UART to the *bridge*, a
program on a PC, which performs it and sends back the result.

| part | source | state it keeps | operations | interacts through |
|---|---|---|---|---|
| gbridge, device end | `atmega328p/source/gbridge.c` | connected, handshake progress, command being received, command being waited for, one data packet, one expected stream | `gbridge_loop` (poll), `wait_cmd`, `gbridge_cmd_*`, `gbridge_recv_*` | UART, timer; called by main and by the socket calls, re-entered from their waits |
| socket calls | `atmega328p/source/gbridge_prot_ma.c` | request buffer, locals of the call | seven `mobile_impl_sock_*` | called by libmobile; block in gbridge |
| device main | `atmega328p/source/main.c` | time latches, SPI byte, debug ring, stack canary | loop: `mobile_loop`, `gbridge_loop`, `gbridge_prot_ma_loop`; SPI and timer interrupts | everything on the device |
| UART driver | `atmega328p/source/serial.c` | two rings of 64, UART registers | `serial_putchar`, `serial_getchar`, two interrupts | shared memory between main and interrupts |
| timer | `atmega328p/source/timer.c` | `micros`, 32 bits | `timer_get`, `timer_isr` | shared memory between main and interrupts |
| gbridge, bridge end | `bridge/source/gbridge.c` | connected, handshake progress, command waited for, one data packet | blocking reads with timeouts, `wait_cmd` | serial port |
| socket requests, main | `bridge/source/gbridge_prot_ma.c`, `main.c` | reply buffer | handlers `recv_cmd_sock_*` | gbridge, socket layer |
| socket layer | `bridge/source/socket_impl.c`, `socket.c` | `sockets[]`, and what the operating system keeps of each | `socket_impl_*`, each several system calls | operating system, network |

What makes it correct: a socket call has the effect of a call. The bridge
executes it at most once, the value libmobile gets is that of this execution
and of no other, and both sides know which connections are open. Underneath:
a receiver that any bytes may reach stays within its buffers, a wait ends, a
pointer into a caller's stack does not outlive the caller. The rings of the
UART driver are queues although main and the interrupts share them without
locking; timers run out on time although the clock wraps around; each socket
descriptor has one owner, and what a socket call reports is so.

What makes it hard: both ends block and wait for each other; there are no
sequence numbers; `gbridge_init` may drop the connection in the middle of any
blocking call; bytes get lost (no flow control, a ring of 63 bytes) or damaged
(no parity, a checksum that covers neither command nor length); each end times
out on its own; and either end may be restarted alone. On the device an
interrupt may come between any two accesses of main; at the bridge the state of
a socket changes between any two system calls.

## 2. Modules

| module | what it is |
|---|---|
| `GbridgeWire` | what both ends share: codes, checksum, frames, requests, the two directions of the line as byte sequences |
| `GbridgeDevice` | the device: receiver, waits, the seven socket calls, main's loop |
| `GbridgeDeviceOpen` | the device on a line that carries anything; `MCDeviceOpen` instantiates it |
| `GbridgeWireProofs` | facts about frames and byte sequences; a damaged byte is detected |
| `GbridgeDeviceProofs` | the device's inductive invariant, action by action |
| `GbridgeDeviceOpenProofs` | the theorems about `GbridgeDeviceOpen` |
| `GbridgeBridge` | the bridge: handshake, blocking reads, handlers, main's loop |
| `SockRpc` | abstract: an at-most-once remote call |
| `GbridgeLink` | device and bridge at the two ends of a faulty line; refines `SockRpc`; `MCLink` instantiates it |
| `GbridgeLinkProofs` | the link keeps its types, whatever goes wrong on it |
| `GbridgeReliableProofs` | the theorems about the link until the first fault or restart, the refinement of `SockRpc` among them |
| `SerialBuffer` | the ring of `serial.c`: put and get in their accesses |
| `BoundedFifo` | abstract: a queue that turns a byte away only when full |
| `Serial` | the UART driver: main, two interrupts, the USART; refines `BoundedFifo` twice; `MCSerial` instantiates it |
| `SerialProofs` | the ring's arithmetic; the theorems about `Serial` |
| `SocketCalls` | abstract: atomic socket calls and what each may return |
| `SocketImpl` | the bridge's sockets as sequences of system calls; refines `SocketCalls` |
| `SocketProofs` | the theorems about `SocketImpl` |
| `DeviceMain` | the device's clock and timers, SPI interrupt and debug ring |
| `DeviceMainProofs` | the theorems about `DeviceMain`: its clock; its debug ring |

The modules form layers. `GbridgeLink` composes the two ends; its line stands
for UART, cable and operating system together, and `LoseByte` is what `Serial`
shows of a ring that is full. `GbridgeBridge` calls the socket layer in one step
and takes any of `Results`; `SocketCalls` has the same results, and `SocketImpl`
implements it. `DeviceMain` stands for itself: in `GbridgeDevice` time is
abstracted to `Timeout`.

**State.** Variables have the names of the C variables (`stream_recv.size` is
`stream_size`, `data.size` is `data_size`; buffers with their fill counts are
sequences). `pc` says where each program is; `wait_for`, `call`, `res` are the
argument of `wait_cmd` and locals of the socket call; `ret` is what the last
call returned; `open` is the set of connections libmobile believes open. In
`GbridgeLink` the bridge's variables carry the prefix `b`; `sent`, `served` and
`past` are history variables that no action reads.

**Actions.** The device polls: one action is one `gbridge_loop` call that finds
one step's worth of bytes and does all that the code does with them, including
dropping the connection. When more bytes have arrived the code goes on in the
same call; that is the same as several calls. The bridge blocks: `pc` names
the read it is in, and the action for a read is enabled when all bytes it wants
have come, or by a timeout. The gbridge functions write their frames in one step: the line is
FIFO and nobody can tell how far a frame has got except by the line, where
bytes arrive one by one.

In `Serial` and `DeviceMain` an interrupt handler is one step, because it runs
with interrupts disabled, and every access of main to what it shares with one is
a step. `Serial` also keeps the hardware that the code relies on: a write to
`UDR0` while it is occupied is ignored; main executes an instruction after each
handler, and may execute one more when an interrupt has just become pending
(`window`). In `SocketImpl` a step is a system call, `os` is what the operating
system keeps of each descriptor, and the network acts between any two steps.

**Time** is not modelled in the protocol. `Timeout` (device) and `RecvTimesOut`
(bridge) may happen whenever one of the clocks of their code runs, also while what
the clock waits for is on its way. `HandshakeTimesOut`, the bridge giving up on
its handshake for this time, may do so as well in the code; the link allows it
while at most `MaxLate` bytes are on their way, in both directions together.
`MaxLate = 0` is the assumption that *a handshake is answered in time or lost*:
then the bridge gives up only when a byte of the handshake or of its reply is gone,
and on a line without faults and restarts it never does. Section 3 tells what
happens otherwise. Where a property depends on peers being prompt
(`Timely = TRUE`), any timeout happens only when both ends wait and nothing is on
the line.
`Serial` has just enough time to say what the driver relies on: while a byte is
shifted out main makes at least `ByteTime` steps, and at most `MaxOthers` bytes
arrive or other interrupts come. At 500000 baud a byte lasts 320 cycles.

**Data.** Bytes are numbers 0..255, because the checksum, the length fields and
their truncation are part of the properties. Addresses are one IPv4 and one
IPv6 address, and the sender of a datagram has either or none; stream contents are a fixed sequence without equal neighbours, so
that a lost or repeated byte shows.

Definitions whose comment begins with *Mutant* are variants with a plausible
bug. No specification uses them. Each property is run once with such a variant
put in place of the original, to see that the property notices it.

In `PROJECT.json` a definition that stands for seven like functions (`StartCall`,
`Arguments`, `SocketCall`, ...) is mapped to the lines of one of them; the others
differ in the arguments that `Requests` enumerates.

## 3. Runs

| run | question | bounds |
|---|---|---|
| `device_open` | does the device stay consistent whatever the line carries, and does every `wait_cmd` return? | two operations or debug lines out of OPEN, RECV, SEND; 16 inputs: correct frames of each kind, empty, too long, wrong checksum, unexpected acknowledgement, stream or handshake, reset; any number of them |
| `link_clean` | with nothing lost and nobody late, is every call of every kind answered, and does it return? | three operations out of all seven, debug lines of 0 and 2 bytes |
| `link_faults` | with one fault, and calls that time out at any time, are calls still at-most-once remote calls, do both ends agree on open connections, is all that is handed over intact? | three operations out of OPEN, CLOSE, SEND, RECV; one byte lost, or replaced by 0, 1, 2, 74, 79 or 138 (a size, an opcode, a command, RESET, an acknowledgement), or one port error; sockets send and receive one byte at a time; `MaxLate = 0` |
| `link_restart` | and when either end is restarted, or the bridge gives up on a handshake that is on its way: is a request still executed as it was made, at most once and in order? | two restarts at any point, what was on the line lost, cut or kept in both directions; `MaxLate = 4`, a whole handshake; two operations |
| `link_recover` | after the last restart and the last fault, do the two ends find each other? | two restarts, one byte lost or damaged, one operation |
| `link_restart_assert` | violation: see findings | one restart |
| `link_big_stream` | violation: see findings | one RECV of 300 bytes |
| `serial` | are the rings queues, is every byte sent and every call over, however main and the interrupts interleave? | rings of 3, five bytes sent and three received, or one and five; every byte may have a framing error; one other interrupt per byte |
| `serial_straight_away` | violation: see findings | four bytes sent, nothing received |
| `sockets` | does every descriptor keep one owner, does every result mean what its caller takes it for, and does no call wait for the network? | two connections, three descriptors (so that they run out), data of two bytes received one by one; every system call may fail |
| `sockets_probe` | violation: see findings | one connection, RECV of size 0, no system call fails |
| `device_main` | are timers over on time, and are the lines of the debug build the transfers? | a clock of 8 that advances by 2 and wraps around at will, latches of two pieces of base 4, one timer; a ring of 4, three transfers |

Three operations suffice for the interesting cases: OPEN, an operation on the
connection that fails half-way, and the one after it, which would see a stale
reply. One fault suffices because the two ends never repair a session: a call
that fails costs the connection (`DisconnectedIsIdle`, `SocketAgreement`), and
the handshake that follows a fault starts afresh.

Deadlock checking is off for the faulty runs: a bridge that lost its port
ends, and its device then waits for a handshake for ever. It is off for
`sockets`, where SIGPIPE ends the bridge, and for `device_main`, where the device
hangs once the stack canary is dead. `serial` is checked for deadlock.

A ring of 3 is empty, half full and full within two bytes, and five bytes take
its indices around. A byte is named by how many are still to come, so that one
that is lost, repeated or overtaken shows. The clock of `device_main` takes the
values 0, 2, 4 and 6; the low piece of a latch is 0 or 2 and the high one 0 or 1, so
that a tick changes one of them or carries into the other, and a timer of 3 is
checked before and after its time and a whole turn later. The ring of 4 is filled by one
transfer and a half, so that `spoiled` is reached, and three transfers bring it
around before.

**Fairness.** `device_open`: the device's steps and its timeouts are weakly
fair, because main's loop and the timer interrupt never stop. `link_clean`:
device and bridge are each weakly fair (a microcontroller loop; a process the
operating system schedules). The environment, faults and, on the clean line,
timeouts are not. `link_recover` adds the two clocks (`LiveSpec`): the timer
interrupt of the device and the timeout of the bridge's port do come. `serial`:
main, the handlers of pending interrupts and the transmitter; nothing need
arrive. `sockets`: the bridge is scheduled; the network owes nothing, so that
`CallReturns` shows that no call relies on it.

**What the runs taught.**

* `SocketAgreement`, `AssertsHold` and `ImplementsRpc` hold although no frame is
  numbered: a call gives up only together with the device's connection to the
  bridge, and only a new handshake makes the next one.
* They need that handshake to be answered in time (`MaxLate = 0`). The code does
  not ensure it: the bridge sends its handshake again when nothing has come for
  a second, whether or not the first, or the reply to it, is on its way. With
  `MaxLate = 4` TLC finds this: the device reads the first handshake; its reply is
  still on its way when the bridge gives up; the device sends OPEN and times out;
  the bridge sends the second handshake, and the device is connected again; the
  bridge now reads the first reply, then the abandoned OPEN, executes and answers
  it; the device takes this acknowledgement and this answer for those of its next
  call, and an OPEN of the connection that it believes closed fails the assertion
  at `socket_impl.c:132`. (Give `link_restart_assert.cfg` `MaxRestarts = 0` and
  `MaxLate = 4` to see it.) A bridge that is restarted after the device took its
  handshake has the same effect. It takes a line or a peer that stalls for a
  second at the wrong moment. No document of the repository promises anything
  here, so it is a hazard and not a finding.
* What remains then is that a request is executed as it was made, at most once
  and in order: `ArrivesIntact` and `AtMostOnceInOrder` hold with two restarts and
  `MaxLate = 4`. Neither looks at what the device takes an answer for.
* With two damaged bytes in one frame the 16-bit sum does not help, and
  `SocketAgreement` fails; this is the checksum's strength, not a bug.
* `Reconnects` leaves out three cases in which nothing in the code recovers: a
  device that is reset under a connected bridge waits for a handshake that this
  bridge never sends again; the reply of a device that was reset since is still
  on the line and convinces a bridge that looks for it; and a device that is
  connected, with nothing to ask, does not notice that its bridge is gone. A
  device inside `gbridge_recv_data_wait` when the bridge dies has no timeout.
* `InterruptHasWork` depends on the speed of the line. The run has a byte time of 6
  steps of main and one other handler in it. TLC finds it to hold for
  (`ByteTime`, `MaxOthers`) = (5, 1), (6, 1), (7, 2), (8, 3), (12, 4), (20, 4) and to fail
  for (4, 1), (6, 2), (7, 3), (9, 4), (10, 5): the
  interrupt empties the ring and disables itself between the update of the head
  and the store to `UCSR0B` (at 0xC1, out of reach of `sbi`), which then enables
  it for good; `serial_transmit` takes a byte without looking, and the ring is
  sent again. Three other handlers may well come within the 320 cycles of a byte
  (a received byte, the timer, SPI), and the code does not bound them. The SPI handler
  includes `mobile_transfer` and is the one that could be long.
* `TransmitterIsFifo` holds although the byte of finding 3 is lost: a byte that
  the data register ignores never enters the queue. The two are separate
  properties so that the order of all other bytes is still shown.
* `CheckedInTime` exempts a timer that the SPI interrupt latches while main
  latches or checks it: `micros_latch` has four bytes and no protection, and
  a check may then be true early. Whether libmobile ever does that from
  `mobile_transfer` is not in this repository.
* The ring of the `DEBUG_SPI` build holds 255 bytes and is filled two at a time:
  once it was full every later pair is split. `mobile_impl_serial_enable` does
  not update `last_SPDR`, and the line after it shows a wrong byte. Both end the
  guarantee (`spoiled`).
* `getsockopt(SO_ERROR)` may fail after a connect (`socket.c:119`), and nobody looks:
  `err` then has whatever value its memory had, and decides whether the connect has
  succeeded (`pc = "err_unset"`, either outcome). `ConnectIsTrue` excepts this step.
* A SEND on a connection that was reset, after its error was reported, raises
  SIGPIPE and ends the bridge (`pc = "killed"`): nothing handles the signal.
* A socket that `socket_impl_accept` could not make non-blocking is leaked
  (`leaked`); `SocketsOwned` shows that nothing else is.

### Findings

1. *The bridge aborts after a restart* (`link_restart_assert`).
   `socket_impl.c:132` asserts `state->sockets[conn] != -1`. The device keeps
   libmobile's connections when the link is lost and reconnects with them
   open; a restarted bridge has none, and the next CLOSE, SEND or RECV on one
   fails the assertion.
2. *A stream of 256 bytes or more is never received* (`link_big_stream`).
   `gbridge.c:136` keeps the 16-bit size of the frame in `stream_recv.size`, an
   `unsigned char`. Of 300 bytes it takes 44, the checksum fails, the
   connection is dropped, and data the bridge has consumed is lost.
3. *A byte sent straight away may be lost* (`serial_straight_away`).
   `serial.c:82`: "If the data register and buffer are empty, just send it
   straight away". `serial_putchar` reads `UDRE0` as set while the last byte of
   the ring awaits its interrupt; the interrupt moves it to `UDR0`; the ring is
   found empty; `UDR0` is written while it is occupied.
4. *A RECV of 0 bytes reports a disconnect* (`sockets_probe`).
   `socket_impl.c:254`: "A length of 0 will be returned if the remote has
   disconnected." It is also returned when 0 bytes were asked for, and the
   function's own probe, a call without a buffer, cannot be asked for over the
   wire. `DisconnectIsReal` holds, and is proved, when no RECV asks for 0 bytes.

## 4. Proofs

### The device alone

`GbridgeDeviceOpenProofs` proves for `GbridgeDeviceOpen`, that is for every line,
every set of requests and debug lines and every bound on their number, that the
six safety properties of `device_open` are invariants. The
assumptions are `DeviceAssumption` and `InputsAssumption`: requests have the
types of the C parameters, debug lines fit a byte, and the line carries bytes.

The inductive invariant `DeviceInv` is the conjunction of the type invariant
with the other five and of the facts that tie a state of the receiver to the
fill of its buffers. The reason it is needed: `BuffersNotOverrun` says nothing
of `data_len` or `stream_size`, but the loop that fills a buffer stays within
it only because the length was compared before and because an incomplete frame
is shorter than its length (or empty, when the length is zero); and
`StreamBufferOwned` needs `OneWaiter` and `DisconnectedIsIdle`, or else a call
might return while its stream is still expected. Each action of the device has
a lemma that it preserves the invariant; actions that may drop the connection
are split on whether they do. These lemmas (`GbridgeDeviceProofs`) assume of the
line only that it carries bytes, so the link uses them as well.

### The link, whatever goes wrong

`GbridgeLinkProofs` proves `LinkTypeOK` for any number of losses, damaged bytes,
port errors, restarts and timeouts, and any `MaxLate`. It bounds the device's buffers
but not the packet of the bridge, which is any sequence of bytes (section 5). The invariant `TypesInv` is the device's
`DeviceInv` together with the types of the bridge, its buffers and their counts,
and of the line.

`GbridgeWireProofs` proves `DamagedByteDetected`: of two packets of at most 255
bytes that differ in exactly one byte the checksums differ. This is why one
damaged byte in the contents of a packet is noticed. The sum is a
recursive function, and the induction that the library states with an operator
parameter is used in its form for sets (`NatSetInduction`). The proofs say
nothing of a byte damaged in a length or a command code, where the frame
shifts: that is for the runs.

### The link until the first fault

`GbridgeReliableProofs` proves what a call means while the line delivers
everything, handshakes are answered in time and nobody has been restarted yet
(`Reliable == faults = 0 /\ restarts = 0`): the theorems are of the form
`Spec => [](Reliable => P)`, for `SocketAgreement`, `AssertsHold`,
`ArrivesIntact`, `AtMostOnceInOrder` and, if both ends are prompt (`Timely`), `Answered`;
and `Spec /\ []Reliable => ImplementsRpc`. Calls that time out are part of it:
each end may give up on one whenever a clock of its code runs, while what it waits
for is on its way, and leave the other with a call half done. So are all seven operations, every result, every size that fits and any
number of calls, which the runs keep at two or three.

None of the five properties is inductive, because each speaks of one moment of
a call, and what happens then was decided by bytes written long before. The
invariant `LinkInv` therefore says where the conversation is. It is in one of ten
stages:

| stage | what was written last |
|---|---|
| `Rest` | nothing that anyone waits for |
| `Debug` | a debug line |
| `Data`, `Got` | a request; its acknowledgement |
| `SendsStream`, `Call` | the stream of a SEND; its acknowledgement |
| `Replying`, `Replied` | the answer; its acknowledgement |
| `Streaming`, `Done` | the stream of a RECV; its acknowledgement |

A stage gives, byte for byte, what the bridge has yet to read, in each of the
places in its code where it may be; and, *if the device is connected*, the same
of the device. A device that gave up says nothing more, while the bridge goes
on through the stages alone, and may still execute the request. What would bring
the device back into the conversation, at a point where its bridge is not, is a
handshake. So two things are needed: before the first one it has sent nothing
(`Starting`), and afterwards no handshake is to be found in what it has still to
read, however the bytes of acknowledgements, answers and streams fall
(`Muted`, `Deaf`): `gbridge_handshake` of the bridge's main loop is over once it has
succeeded. And a bridge that gives up in the middle of a read leaves bytes on their way
that it will not read: it is disconnected, and nothing it does reaches the device
any more (`Lost`), which is not a stage but where they all may end.
The other conjuncts tie the call in progress to the last request that was sent
(`CallerInv`), the executions to the requests (`HistoryInv`), and what a RECV returned
to what is in the buffer (`StreamReturned`); and say that prompt peers never
disconnect (`InTime`). TLC checked `LinkInv` on instances of `MCLink` before it was
proved.

For each action there is a lemma that it keeps the stage or goes to the next
one: the lemmas for the device's actions assume nothing of the bridge but the
stage, and the other way round. The refinement adds little to it: sending
writes a request (`Send`), the bridge's socket call executes it (`Execute`), the
last read of the device returns its value (`Answer`), and every other step
stutters, except that a call may give up when its connection is gone.

Two assumptions are made, and both are needed.

* `MaxLate = 0`: the bridge does not give up on a handshake while a byte of it, or
  of anything else, is on its way. As long as the line is reliable this means that
  it does not give up on one at all: there is one handshake, and the theorems are
  about what follows it. This is an assumption on the line and the device, not
  something the code ensures; section 3 tells what happens otherwise:
  `SocketAgreement`, `AssertsHold` and the refinement fail then. `link_faults` has the
  same assumption, but loses bytes of handshakes, so that they are repeated.
* `Fits`: OPEN and CONNECT have an address (the bridge drops a CONNECT without one,
  and for OPEN it is the type of the socket), a SEND has at most 512 bytes, the
  size of `recv_buffer` at the bridge, and a RECV at most 255. The last is
  finding 2: a longer stream cannot be received.

### The other components

`SerialProofs` proves of `Serial`, for every ring size from 2 to 256 and every
load: its type; that `serial_getchar` finds what was announced; and that the
receive ring implements `BoundedFifo`. The invariant is the type together with
`AnnouncedIsThere` and two facts about main inside `serial_getchar`: the ring is
not empty where it loads the byte, and the byte it has loaded is the oldest.
Its first part has the modular arithmetic, and what a put and a get do to the
contents of a ring. About the transmitter it proves `InterruptHasWork` and
`NothingStranded` under

    Timely == ByteTime >= MaxOthers + 10

that is, for any number of other handlers in a byte, if it lasts ten accesses of
main longer than they are many. It is this assumption that the code depends on
without saying so. The invariant behind it says that whenever the data register
is empty the byte in the shift register is a young one. `ServedInTime`: if the
interrupt is enabled it is served before that byte is out, so the transmitter
never runs dry while the ring has something. `EmptiedLately`: if main has seen
the register occupied, or the interrupt enabled, and finds the interrupt
disabled on its way to `store_ucsr`, it was emptied only after main looked, and
the byte in the shift register is young. `ToBeEnabled`: between `store_head` and
`store_ucsr`, while the interrupt is enabled, the ring has two bytes, or one and
a data register that stays occupied until main has stored. The interrupt would
have to run twice in between, and cannot. The bound is not sharp: the run has
(6, 1), and section 3 lists others that are model-checked. `TransmitterIsFifo`
follows from the same invariant with one more fact: when the head is about to be
stored, the byte is in the slot it will announce.

`SocketProofs` proves of `SocketImpl`, for any connections, descriptors, sizes
and failures: its type and `SocketsOwned` (one invariant: `new` is held exactly
between the calls that make and store a descriptor, and connections, `new` and
`leaked` are disjoint); the refinement of `SocketCalls`; `ConnectIsTrue` (after
a poll that found the attempt over, a socket without an error is connected; the
step after a failed `getsockopt` is excepted, as in the run);
`ErrorReported`; and `DisconnectIsReal`, assuming `0 \notin Sizes`.

`DeviceMainProofs` proves of `DeviceMain`, for a clock of any width, pieces and
tick: its type and `CheckedInTime`. The invariant says that the clock is what
was latched plus the age of the timer, modulo the width, for as long as the age
is less than that; that in a latch the pieces already stored are those of the
time it read; and that in a check the pieces already loaded are those of the
latch, and the time that was loaded is one between its beginning and now.

It also proves, for a ring of any size and any
number of transfers, `LinesAreTransfers` and `SecondIsThere`. The invariant,
which holds until `spoiled`: the head of the ring is twice the number of
transfers and the tail the number of bytes main has taken, both modulo the size;
what is between them is less than the size, so that no two bytes share a place;
and each occupied place, like the byte main holds in between, has the byte of
the transfer it belongs to. Its lemmas are about the modulo alone.

### Only model-checked

* Liveness (`WaitCmdReturns`, `CallReturns`, `Reconnects`), which the prover does not
  handle together with fairness.
* What `GbridgeLink` promises once a byte was lost or damaged, a port failed or
  an end was restarted: `link_faults`, `link_restart`. An invariant for it would
  have to say what every cut of every frame may be taken for, and where the
  16-bit sum is passed by accident.
* That the checksum is what the code's loop computes for given bytes: TLC
  evaluates it in every run of the link.

## 5. What is not modelled

* libmobile: only that it opens closed connections and uses open ones, and in
  `DeviceMain` that it latches and checks any timer.
* `mobile_impl_config_read` and `_write`, which pass libmobile's buffer to
  avr-libc's EEPROM functions; `DEBUG_CMD`, which only prints.
* At the bridge: the choice of a port and its settings, `socket_straddr` and the
  wording of messages, `socket_impl_stop` and `socket_connect`, which nobody
  calls, and the branches for Windows.
* The contents and addresses of what sockets receive in `SocketImpl` (lengths
  only); `GbridgeBridge` carries them over the wire.
* What happens when the bridge reads more than 128 bytes into `data_buf`
  (undefined; the model keeps the bytes in a sequence and no run has so many on
  the line).
* Which value an uninitialized `err` has: `SocketImpl` takes either outcome.
* A handshake that stays on its way for longer than the bridge waits, in the runs and
  theorems with `MaxLate = 0` (sections 2 and 3).
* Build files and `getramleft.py`: nothing at run time.

## 6. Plan

1. *Done:* wire, device, bridge, link, `SockRpc`; device invariants proved.
2. *Done:* `Serial`, `SocketImpl`, `DeviceMain`, recovery of the link, and their
   theorems.
3. *Done:* the types of the link under faults, the single damaged byte, and the
   conversation on a reliable line: `SocketAgreement`, `AssertsHold`,
   `ArrivesIntact`, `AtMostOnceInOrder`, `Answered`, `ImplementsRpc`.
4. What holds across restarts without a damaged byte (`AtMostOnceInOrder`,
   `ArrivesIntact`), from a weaker invariant: every frame on the line is the end
   of a frame of a request made before the later ones.
