---------------------------- MODULE SerialProofs ----------------------------
(***************************************************************************)
(* Proofs about the UART driver: for every size of its rings, every number *)
(* of bytes sent and received and, as to reception, every timing.          *)
(***************************************************************************)
EXTENDS Serial, TLAPS
-----------------------------------------------------------------------------
(***************************************************************************)
(* The arithmetic of the rings of serial.c, for every SERIAL_BUFFER_SIZE.  *)
(***************************************************************************)
LEMMA Wrap ==
  ASSUME NEW i \in 0..(2 * SERIAL_BUFFER_SIZE - 1)
  PROVE  i % SERIAL_BUFFER_SIZE =
           IF i < SERIAL_BUFFER_SIZE THEN i ELSE i - SERIAL_BUFFER_SIZE
BY BufferAssumption DEF BufferAssumption

LEMMA SuccIs ==
  ASSUME NEW i \in Slot
  PROVE  /\ Succ(i) = IF i = SERIAL_BUFFER_SIZE - 1 THEN 0 ELSE i + 1
         /\ Succ(i) \in Slot
<1>1. CASE i = 255
  BY <1>1, BufferAssumption DEF BufferAssumption, Succ, Slot
<1>2. CASE i # 255
  <2>1. (i + 1) % 256 = i + 1
    BY <1>2, BufferAssumption DEF BufferAssumption, Slot
  <2>2. i + 1 \in 0..(2 * SERIAL_BUFFER_SIZE - 1)
    BY BufferAssumption DEF BufferAssumption, Slot
  <2>3. QED
    BY <2>1, <2>2, Wrap, BufferAssumption DEF BufferAssumption, Succ, Slot
<1>3. QED
  BY <1>1, <1>2

LEMMA AvailableIs ==
  ASSUME NEW bytes, NEW ring \in Ring(bytes)
  PROVE  /\ Available(ring) = IF ring.head >= ring.tail
                                THEN ring.head - ring.tail
                                ELSE SERIAL_BUFFER_SIZE + ring.head - ring.tail
         /\ Available(ring) \in Slot
         /\ IsEmpty(ring) <=> Available(ring) = 0
         /\ IsFull(ring) <=> Available(ring) = SERIAL_BUFFER_SIZE - 1
<1> DEFINE n == SERIAL_BUFFER_SIZE + ring.head - ring.tail
<1>1. ring.head \in Slot /\ ring.tail \in Slot
  BY DEF Ring
<1>2. n \in 0..(2 * SERIAL_BUFFER_SIZE - 1)
  BY <1>1, BufferAssumption DEF BufferAssumption, Slot
<1>3. n % SERIAL_BUFFER_SIZE =
        IF n < SERIAL_BUFFER_SIZE THEN n ELSE n - SERIAL_BUFFER_SIZE
  BY <1>2, Wrap
<1>4. Available(ring) = IF ring.head >= ring.tail
                          THEN ring.head - ring.tail
                          ELSE SERIAL_BUFFER_SIZE + ring.head - ring.tail
  BY <1>1, <1>3, BufferAssumption DEF BufferAssumption, Available, Slot
<1>5. QED
  BY <1>1, <1>4, SuccIs, BufferAssumption
  DEF BufferAssumption, IsEmpty, IsFull, Slot

LEMMA RingStep ==
  ASSUME NEW bytes, NEW ring \in Ring(bytes), NEW byte \in bytes
  PROVE  /\ PutByte(ring, byte) \in Ring(bytes)
         /\ PutHead(ring) \in Ring(bytes)
         /\ GetTail(ring) \in Ring(bytes)
         /\ GetByte(ring) \in bytes
<1>1. ring.head \in Slot /\ ring.tail \in Slot /\ ring.buffer \in [Slot -> bytes]
  BY DEF Ring
<1>2. Succ(ring.head) \in Slot /\ Succ(ring.tail) \in Slot
  BY <1>1, SuccIs
<1>3. QED
  BY <1>1, <1>2 DEF Ring, PutByte, PutHead, GetTail, GetByte

LEMMA PutAvailable ==
  ASSUME NEW bytes, NEW ring \in Ring(bytes), NEW byte \in bytes
  PROVE  /\ Available(PutByte(ring, byte)) = Available(ring)
         /\ ~IsFull(ring) => Available(PutHead(ring)) = Available(ring) + 1
<1>1. ring.head \in Slot /\ ring.tail \in Slot
  BY DEF Ring
<1>2. /\ PutByte(ring, byte) \in Ring(bytes)
      /\ PutHead(ring) \in Ring(bytes)
  BY RingStep
<1>3. /\ PutByte(ring, byte).head = ring.head
      /\ PutByte(ring, byte).tail = ring.tail
      /\ PutHead(ring).head = Succ(ring.head)
      /\ PutHead(ring).tail = ring.tail
  BY DEF Ring, PutByte, PutHead
<1>4. Available(PutByte(ring, byte)) = Available(ring)
  BY <1>3 DEF Available
<1>5. ASSUME ~IsFull(ring)
      PROVE  Available(PutHead(ring)) = Available(ring) + 1
  <2>1. Succ(ring.head) # ring.tail
    BY <1>5 DEF IsFull
  <2> DEFINE put == PutHead(ring)
  <2>2. Available(put) = IF put.head >= put.tail
                           THEN put.head - put.tail
                           ELSE SERIAL_BUFFER_SIZE + put.head - put.tail
    BY <1>2, AvailableIs
  <2>3. Available(ring) = IF ring.head >= ring.tail
                            THEN ring.head - ring.tail
                            ELSE SERIAL_BUFFER_SIZE + ring.head - ring.tail
    BY AvailableIs
  <2>4. put.head = IF ring.head = SERIAL_BUFFER_SIZE - 1 THEN 0 ELSE ring.head + 1
    BY <1>1, <1>3, SuccIs
  <2> HIDE DEF put
  <2>5. QED
    BY <1>1, <1>3, <2>1, <2>2, <2>3, <2>4, BufferAssumption
    DEF BufferAssumption, Slot, put
<1>6. QED
  BY <1>4, <1>5

LEMMA GetAvailable ==
  ASSUME NEW bytes, NEW ring \in Ring(bytes), bytes # {}, ~IsEmpty(ring)
  PROVE  Available(GetTail(ring)) = Available(ring) - 1
<1>1. ring.head \in Slot /\ ring.tail \in Slot /\ ring.head # ring.tail
  BY DEF Ring, IsEmpty
<1>2. GetTail(ring) \in Ring(bytes)
  BY RingStep
<1>3. GetTail(ring).head = ring.head /\ GetTail(ring).tail = Succ(ring.tail)
  BY DEF Ring, GetTail
<1>4. QED
  BY <1>1, <1>2, <1>3, AvailableIs, SuccIs, BufferAssumption
  DEF BufferAssumption, Slot
-----------------------------------------------------------------------------
\* Where the i-th byte of a ring is.
LEMMA Place ==
  ASSUME NEW bytes, NEW ring \in Ring(bytes), NEW i \in 1..SERIAL_BUFFER_SIZE
  PROVE  /\ (ring.tail + i - 1) % SERIAL_BUFFER_SIZE =
              IF ring.tail + i - 1 < SERIAL_BUFFER_SIZE
                THEN ring.tail + i - 1 ELSE ring.tail + i - 1 - SERIAL_BUFFER_SIZE
         /\ (ring.tail + i - 1) % SERIAL_BUFFER_SIZE \in Slot
<1>1. ring.tail \in Slot
  BY DEF Ring
<1>2. ring.tail + i - 1 \in 0..(2 * SERIAL_BUFFER_SIZE - 1)
  BY <1>1, BufferAssumption DEF BufferAssumption, Slot
<1>3. QED
  BY <1>1, <1>2, Wrap, BufferAssumption DEF BufferAssumption, Slot

LEMMA ContentType ==
  ASSUME NEW bytes, NEW ring \in Ring(bytes)
  PROVE  /\ Content(ring) \in Seq(bytes)
         /\ Len(Content(ring)) = Available(ring)
         /\ \A i \in 1..Available(ring) :
              Content(ring)[i] = ring.buffer[(ring.tail + i - 1) % SERIAL_BUFFER_SIZE]
<1>1. Available(ring) \in Nat /\ Available(ring) < SERIAL_BUFFER_SIZE
  BY AvailableIs, BufferAssumption DEF BufferAssumption, Slot
<1>2. \A i \in 1..Available(ring) :
        ring.buffer[(ring.tail + i - 1) % SERIAL_BUFFER_SIZE] \in bytes
  <2>1. ASSUME NEW i \in 1..Available(ring)
        PROVE  (ring.tail + i - 1) % SERIAL_BUFFER_SIZE \in Slot
    <3>1. i \in 1..SERIAL_BUFFER_SIZE
      BY <1>1, BufferAssumption DEF BufferAssumption
    <3>2. QED
      BY <3>1, Place
  <2>2. QED
    BY <2>1 DEF Ring
<1>3. QED
  BY <1>1, <1>2 DEF Content

LEMMA EmptyContent ==
  ASSUME NEW bytes, NEW ring \in Ring(bytes)
  PROVE  IsEmpty(ring) <=> Content(ring) = <<>>
BY ContentType, AvailableIs

LEMMA AppendIs ==
  ASSUME NEW bytes, NEW s \in Seq(bytes), NEW t \in Seq(bytes), NEW e \in bytes,
         Len(t) = Len(s) + 1, t[Len(s) + 1] = e,
         \A i \in 1..Len(s) : t[i] = s[i]
  PROVE  t = Append(s, e)
<1>1. Append(s, e) \in Seq(bytes) /\ Len(Append(s, e)) = Len(t)
  OBVIOUS
<1>2. \A i \in 1..Len(t) : t[i] = Append(s, e)[i]
  OBVIOUS
<1>3. QED
  BY <1>1, <1>2

\* serial_buffer_put appends; its first access does not show.
LEMMA ContentPut ==
  ASSUME NEW bytes, NEW ring \in Ring(bytes), NEW byte \in bytes, ~IsFull(ring)
  PROVE  /\ Content(PutByte(ring, byte)) = Content(ring)
         /\ Content(PutHead(ring)) = Append(Content(ring), ring.buffer[ring.head])
         /\ PutByte(ring, byte).buffer[ring.head] = byte
<1> DEFINE n == Available(ring)
           stored == PutByte(ring, byte)
           put == PutHead(ring)
           at(i) == (ring.tail + i - 1) % SERIAL_BUFFER_SIZE
<1>1. /\ n \in Nat /\ n < SERIAL_BUFFER_SIZE - 1
      /\ n = IF ring.head >= ring.tail THEN ring.head - ring.tail
              ELSE SERIAL_BUFFER_SIZE + ring.head - ring.tail
  BY AvailableIs, BufferAssumption DEF BufferAssumption, Slot
<1>2. ring.head \in Slot /\ ring.tail \in Slot /\ ring.buffer \in [Slot -> bytes]
  BY DEF Ring
<1>3. \A i \in 1..(n + 1) :
        /\ at(i) = IF ring.tail + i - 1 < SERIAL_BUFFER_SIZE
                     THEN ring.tail + i - 1 ELSE ring.tail + i - 1 - SERIAL_BUFFER_SIZE
        /\ at(i) \in Slot
  <2>1. \A i \in 1..(n + 1) : i \in 1..SERIAL_BUFFER_SIZE
    BY <1>1, BufferAssumption DEF BufferAssumption
  <2>2. QED
    BY <2>1, Place
<1>4. /\ stored \in Ring(bytes) /\ put \in Ring(bytes)
      /\ stored.tail = ring.tail /\ put.tail = ring.tail
      /\ put.buffer = ring.buffer
      /\ stored.buffer = [ring.buffer EXCEPT ![ring.head] = byte]
  BY RingStep DEF Ring, PutByte, PutHead
<1>5. Available(stored) = n /\ Available(put) = n + 1
  BY PutAvailable
<1>6. /\ Content(stored) = [i \in 1..n |-> stored.buffer[at(i)]]
      /\ Content(ring) = [i \in 1..n |-> ring.buffer[at(i)]]
  BY <1>4, <1>5 DEF Content
<1>7. /\ Content(put) \in Seq(bytes) /\ Len(Content(put)) = n + 1
      /\ Content(ring) \in Seq(bytes) /\ Len(Content(ring)) = n
      /\ \A i \in 1..(n + 1) : Content(put)[i] = ring.buffer[at(i)]
      /\ \A i \in 1..n : Content(ring)[i] = ring.buffer[at(i)]
  BY <1>4, <1>5, ContentType
<1> HIDE DEF n, at, stored, put
<1>8. /\ \A i \in 1..n : at(i) # ring.head
      /\ \A i \in 1..(n + 1) : at(i) \in Slot
      /\ at(n + 1) = ring.head
  <2>1. n + 1 \in 1..(n + 1)
    BY <1>1
  <2>2. \A i \in 1..n : i \in 1..(n + 1)
    BY <1>1
  <2>3. at(n + 1) = ring.head
    <3>1. at(n + 1) = IF ring.tail + n < SERIAL_BUFFER_SIZE
                        THEN ring.tail + n ELSE ring.tail + n - SERIAL_BUFFER_SIZE
      BY <1>1, <1>2, <1>3, <2>1 DEF Slot
    <3>2. QED
      BY <1>1, <1>2, <3>1, BufferAssumption DEF BufferAssumption, Slot
  <2>4. ASSUME NEW i \in 1..n
        PROVE  at(i) # ring.head
    <3>1. at(i) = IF ring.tail + i - 1 < SERIAL_BUFFER_SIZE
                    THEN ring.tail + i - 1
                    ELSE ring.tail + i - 1 - SERIAL_BUFFER_SIZE
      BY <1>3, <2>2
    <3>2. /\ i \in Int /\ 1 <= i /\ i <= n
          /\ ring.tail \in Int /\ 0 <= ring.tail /\ ring.tail < SERIAL_BUFFER_SIZE
          /\ ring.head \in Int /\ 0 <= ring.head /\ ring.head < SERIAL_BUFFER_SIZE
          /\ SERIAL_BUFFER_SIZE \in Int
      <4>1. n \in Nat
        BY <1>1
      <4>2. i \in Int /\ 1 <= i /\ i <= n
        BY <4>1
      <4>3. SERIAL_BUFFER_SIZE \in Int
        BY BufferAssumption DEF BufferAssumption
      <4>4. /\ ring.tail \in Int /\ 0 <= ring.tail
            /\ ring.tail < SERIAL_BUFFER_SIZE
        BY <1>2, <4>3 DEF Slot
      <4>5. /\ ring.head \in Int /\ 0 <= ring.head
            /\ ring.head < SERIAL_BUFFER_SIZE
        BY <1>2, <4>3 DEF Slot
      <4>6. QED
        BY <4>2, <4>3, <4>4, <4>5
    <3>3. CASE ring.head >= ring.tail
      BY <1>1, <3>1, <3>2, <3>3
    <3>4. CASE ~(ring.head >= ring.tail)
      BY <1>1, <3>1, <3>2, <3>4
    <3>5. QED
      BY <3>3, <3>4
  <2>5. QED
    BY <1>3, <2>3, <2>4
<1>9. Content(stored) = Content(ring)
  <2>1. \A i \in 1..n : stored.buffer[at(i)] = ring.buffer[at(i)]
    BY <1>1, <1>2, <1>4, <1>8
  <2>2. QED
    BY <1>6, <2>1
<1>10. Content(put) = Append(Content(ring), ring.buffer[ring.head])
  BY <1>1, <1>2, <1>7, <1>8, AppendIs
<1>11. QED
  BY <1>2, <1>4, <1>9, <1>10 DEF stored, put

\* serial_buffer_get takes the oldest.
LEMMA ContentGet ==
  ASSUME NEW bytes, NEW ring \in Ring(bytes), ~IsEmpty(ring)
  PROVE  /\ Content(ring) # <<>>
         /\ Head(Content(ring)) = GetByte(ring)
         /\ Content(GetTail(ring)) = Tail(Content(ring))
<1> DEFINE n == Available(ring)
           rest == GetTail(ring)
           at(i) == (ring.tail + i - 1) % SERIAL_BUFFER_SIZE
           next(i) == (rest.tail + i - 1) % SERIAL_BUFFER_SIZE
<1>1. n \in Nat /\ n >= 1 /\ n < SERIAL_BUFFER_SIZE
  BY AvailableIs, BufferAssumption DEF BufferAssumption, Slot
<1>2. ring.head \in Slot /\ ring.tail \in Slot /\ ring.buffer \in [Slot -> bytes]
  BY DEF Ring
<1>3. bytes # {}
  BY <1>2
<1>4. /\ rest \in Ring(bytes) /\ rest.buffer = ring.buffer
      /\ rest.tail = Succ(ring.tail)
  BY <1>3, RingStep DEF Ring, GetTail
<1>5. Available(rest) = n - 1
  BY <1>3, GetAvailable
<1>6. \A i \in 1..n :
        at(i) = IF ring.tail + i - 1 < SERIAL_BUFFER_SIZE
                  THEN ring.tail + i - 1 ELSE ring.tail + i - 1 - SERIAL_BUFFER_SIZE
  <2>1. \A i \in 1..n : i \in 1..SERIAL_BUFFER_SIZE
    BY <1>1, BufferAssumption DEF BufferAssumption
  <2>2. QED
    BY <2>1, Place
<1>7. \A i \in 1..(n - 1) :
        next(i) = IF rest.tail + i - 1 < SERIAL_BUFFER_SIZE
                    THEN rest.tail + i - 1 ELSE rest.tail + i - 1 - SERIAL_BUFFER_SIZE
  <2>1. \A i \in 1..(n - 1) : i \in 1..SERIAL_BUFFER_SIZE
    BY <1>1, BufferAssumption DEF BufferAssumption
  <2>2. QED
    BY <1>4, <2>1, Place
<1>8. rest.tail = IF ring.tail = SERIAL_BUFFER_SIZE - 1 THEN 0 ELSE ring.tail + 1
  BY <1>2, <1>4, SuccIs
<1>9. /\ Content(ring) \in Seq(bytes) /\ Len(Content(ring)) = n
      /\ Content(rest) \in Seq(bytes) /\ Len(Content(rest)) = n - 1
      /\ \A i \in 1..n : Content(ring)[i] = ring.buffer[at(i)]
      /\ \A i \in 1..(n - 1) : Content(rest)[i] = ring.buffer[next(i)]
  BY <1>4, <1>5, ContentType
<1> HIDE DEF n, rest, at, next
<1>10. \A i \in 1..(n - 1) : next(i) = at(i + 1)
  BY <1>1, <1>2, <1>6, <1>7, <1>8, BufferAssumption DEF BufferAssumption, Slot
<1>11. at(1) = ring.tail
  BY <1>1, <1>2, <1>6, BufferAssumption DEF BufferAssumption, Slot
<1>12. Content(ring) # <<>> /\ Head(Content(ring)) = GetByte(ring)
  BY <1>1, <1>9, <1>11 DEF GetByte
<1>13. Content(rest) = Tail(Content(ring))
  BY <1>1, <1>9, <1>10
<1>14. QED
  BY <1>12, <1>13 DEF rest
-----------------------------------------------------------------------------
(***************************************************************************)
(* Reception.                                                              *)
(***************************************************************************)
\* What makes the receive side inductive: main is in serial_getchar only for a
\* byte that was announced, and the byte it has loaded stays where it was.
Getting == pc \in {"wait_empty", "load_byte", "store_tail"} => announced > 0

Loaded == pc = "store_tail" => c = GetByte(serial_rx)

ReceiveInv == SerialTypeOK /\ AnnouncedIsThere /\ Getting /\ Loaded
-----------------------------------------------------------------------------
LEMMA ByteType == 0 \in Byte /\ Byte \subseteq Nat /\ MaxOthers \in Nat /\ ByteTime \in Nat
BY SerialAssumption DEF SerialAssumption, Byte

LEMMA EmptyRingType == EmptyRing \in Ring(Byte) /\ Available(EmptyRing) = 0 /\ 0 \in Slot
<1>1. 0 \in Slot
  BY BufferAssumption DEF BufferAssumption, Slot
<1>2. EmptyRing \in Ring(Byte)
  BY <1>1, ByteType DEF EmptyRing, Ring
<1>3. EmptyRing.head = EmptyRing.tail
  BY DEF EmptyRing
<1>4. QED
  BY <1>1, <1>2, <1>3, AvailableIs DEF IsEmpty

LEMMA InitReceiveInv == Init => ReceiveInv
<1> SUFFICES ASSUME Init PROVE ReceiveInv
  OBVIOUS
<1>1. load \in [puts : Byte, arrivals : Byte]
  BY SerialAssumption DEF SerialAssumption, Init
<1>2. UDRIE0 \in BOOLEAN /\ offered \in BOOLEAN
  BY DEF Init
<1>3. TransmitTypeOK
  BY <1>2, ByteType, EmptyRingType DEF Init, TransmitTypeOK
<1>4. ReceiveTypeOK
  BY <1>2, ByteType, EmptyRingType DEF Init, ReceiveTypeOK
<1>5. MainTypeOK
  BY <1>1, ByteType DEF Init, MainTypeOK, Step
<1>6. QED
  BY <1>3, <1>4, <1>5, EmptyRingType
  DEF Init, ReceiveInv, SerialTypeOK, AnnouncedIsThere, Getting, Loaded

\* What the steps below have in common.
LEMMA WriteType ==
  ASSUME TransmitTypeOK, others \in 0..MaxOthers, NEW byte \in Byte, WriteUDR0(byte)
  PROVE  /\ udr' = <<>> \/ \E b \in Byte : udr' = <<b>>
         /\ shift' = <<>> \/ \E b \in Byte : shift' = <<b>>
         /\ udr' # <<>> => shift' # <<>>
         /\ left' \in 0..ByteTime /\ others' \in 0..MaxOthers
<1>1. CASE UDRE0 /\ shift = <<>>
  <2>1. shift' = <<byte>> /\ Begins /\ UNCHANGED udr
    BY <1>1 DEF WriteUDR0
  <2>2. QED
    BY <1>1, <2>1, ByteType DEF TransmitTypeOK, UDRE0, Begins
<1>2. CASE UDRE0 /\ shift # <<>>
  <2>1. udr' = <<byte>> /\ UNCHANGED <<shift, left, others>>
    BY <1>2 DEF WriteUDR0
  <2>2. QED
    BY <1>2, <2>1 DEF TransmitTypeOK
<1>3. CASE ~UDRE0
  <2>1. UNCHANGED <<udr, shift, left, others>>
    BY <1>3 DEF WriteUDR0
  <2>2. QED
    BY <2>1 DEF TransmitTypeOK
<1>4. QED
  BY <1>1, <1>2, <1>3

LEMMA ExecutesType == Executes => window' \in {"owed", "open", "closed"}
BY DEF Executes

LEMMA TickType ==
  ASSUME left \in 0..ByteTime, Tick
  PROVE  left' \in 0..ByteTime
BY ByteType DEF Tick

LEMMA SendUnchanged ==
  ASSUME TransmitTypeOK, UNCHANGED tx, left' \in 0..ByteTime
  PROVE  TransmitTypeOK'
BY DEF TransmitTypeOK, tx

LEMMA ReceiveUnchanged ==
  ASSUME ReceiveInv, UNCHANGED rx
  PROVE  ReceiveTypeOK' /\ AnnouncedIsThere'
BY DEF ReceiveInv, SerialTypeOK, ReceiveTypeOK, AnnouncedIsThere, rx
-----------------------------------------------------------------------------
LEMMA ByteOutReceive ==
  ASSUME ReceiveInv, ByteOut
  PROVE  ReceiveInv'
<1>1. TransmitTypeOK'
  BY ByteType DEF ByteOut, Begins, ReceiveInv, SerialTypeOK, TransmitTypeOK
<1>2. ReceiveTypeOK' /\ AnnouncedIsThere'
  BY ReceiveUnchanged DEF ByteOut
<1>3. MainTypeOK'
  BY ByteType DEF ByteOut, Begins, main, ReceiveInv, SerialTypeOK, MainTypeOK
<1>4. QED
  BY <1>1, <1>2, <1>3 DEF ByteOut, rx, main, ReceiveInv, SerialTypeOK, Getting, Loaded

LEMMA OtherInterruptReceive ==
  ASSUME ReceiveInv, OtherInterrupt
  PROVE  ReceiveInv'
<1>1. TransmitTypeOK'
  BY SendUnchanged DEF OtherInterrupt, ReceiveInv, SerialTypeOK, TransmitTypeOK
<1>2. ReceiveTypeOK' /\ AnnouncedIsThere'
  BY ReceiveUnchanged DEF OtherInterrupt
<1>3. MainTypeOK'
  BY ByteType
  DEF OtherInterrupt, Interrupt, main, ReceiveInv, SerialTypeOK, MainTypeOK
<1>4. QED
  BY <1>1, <1>2, <1>3
  DEF OtherInterrupt, rx, main, ReceiveInv, SerialTypeOK, Getting, Loaded

LEMMA ByteArrivesReceive ==
  ASSUME ReceiveInv, NEW good \in BOOLEAN, ByteArrives(good)
  PROVE  ReceiveInv'
<1>1. TransmitTypeOK'
  BY SendUnchanged DEF ByteArrives, ReceiveInv, SerialTypeOK, TransmitTypeOK
<1>2. load.arrivals \in Byte /\ load.arrivals - 1 \in Byte
  BY SerialAssumption
  DEF SerialAssumption, Byte, ByteArrives, ReceiveInv, SerialTypeOK, MainTypeOK
<1>3. MainTypeOK'
  BY <1>2, ByteType DEF ByteArrives, main, ReceiveInv, SerialTypeOK, MainTypeOK
<1>4. [byte |-> load.arrivals, good |-> good] \in Received
  BY <1>2 DEF Received
<1>5. rxfifo' \in Seq(Received) /\ Len(rxfifo') <= 2
  BY <1>4 DEF ByteArrives, ReceiveInv, SerialTypeOK, ReceiveTypeOK
<1>6. ReceiveTypeOK' /\ AnnouncedIsThere'
  BY <1>5 DEF ByteArrives, ReceiveInv, SerialTypeOK, ReceiveTypeOK, AnnouncedIsThere
<1>7. QED
  BY <1>1, <1>3, <1>6
  DEF ByteArrives, main, ReceiveInv, SerialTypeOK, Getting, Loaded

LEMMA TransmitHandlerReceive ==
  ASSUME ReceiveInv, serial_transmit
  PROVE  ReceiveInv'
<1>1. serial_tx \in Ring(Byte)
  BY DEF ReceiveInv, SerialTypeOK, TransmitTypeOK
<1>2. GetByte(serial_tx) \in Byte /\ GetTail(serial_tx) \in Ring(Byte)
  BY <1>1, ByteType, RingStep
<1>3. UDRIE0' \in BOOLEAN
  BY DEF serial_transmit
<1>4. TransmitTypeOK' /\ others' \in 0..MaxOthers
  BY <1>2, <1>3, WriteType
  DEF serial_transmit, ReceiveInv, SerialTypeOK, TransmitTypeOK, MainTypeOK
<1>5. ReceiveTypeOK' /\ AnnouncedIsThere'
  BY ReceiveUnchanged DEF serial_transmit
<1>6. MainTypeOK'
  BY <1>4 DEF serial_transmit, Interrupt, main, ReceiveInv, SerialTypeOK, MainTypeOK
<1>7. QED
  BY <1>4, <1>5, <1>6
  DEF serial_transmit, rx, main, ReceiveInv, SerialTypeOK, Getting, Loaded

LEMMA ReceiveHandlerReceive ==
  ASSUME ReceiveInv, serial_receive
  PROVE  ReceiveInv'
<1>1. /\ serial_rx \in Ring(Byte) /\ rxfifo \in Seq(Received)
      /\ Len(rxfifo) <= 2 /\ rxfifo # <<>>
  BY DEF ReceiveInv, SerialTypeOK, ReceiveTypeOK, serial_receive, RXC0
<1>2. rxfifo[1] \in Received /\ Tail(rxfifo) \in Seq(Received) /\ Len(Tail(rxfifo)) <= 2
  BY <1>1
<1>3. rxfifo[1].byte \in Byte /\ rxfifo[1].good \in BOOLEAN
  BY <1>2 DEF Received
<1>4. TransmitTypeOK'
  BY SendUnchanged DEF serial_receive, ReceiveInv, SerialTypeOK, TransmitTypeOK
<1>5. MainTypeOK'
  BY DEF serial_receive, Interrupt, main, ReceiveInv, SerialTypeOK, MainTypeOK
<1>6. offered' \in BOOLEAN
  BY <1>3 DEF serial_receive, ReceiveInv, SerialTypeOK, ReceiveTypeOK
<1> DEFINE stored == PutByte(serial_rx, rxfifo[1].byte)
<1>7. CASE rxfifo[1].good /\ ~IsFull(serial_rx)
  <2>1. serial_rx' = PutHead(stored)
    BY <1>7 DEF serial_receive
  <2>2. stored \in Ring(Byte) /\ Available(stored) = Available(serial_rx)
    BY <1>1, <1>3, RingStep, PutAvailable
  <2>3. ~IsFull(stored)
    BY <1>1, <1>7, <2>2, AvailableIs
  <2>4. serial_rx' \in Ring(Byte) /\ Available(serial_rx') = Available(serial_rx) + 1
    BY <2>1, <2>2, <2>3, ByteType, RingStep, PutAvailable
  <2>5. ReceiveTypeOK'
    BY <1>2, <1>6, <2>4 DEF serial_receive, ReceiveInv, SerialTypeOK, ReceiveTypeOK
  <2>6. AnnouncedIsThere'
    <3>1. Available(serial_rx) \in Nat /\ announced \in Nat
      BY <1>1, AvailableIs, BufferAssumption
      DEF BufferAssumption, Slot, ReceiveInv, SerialTypeOK, ReceiveTypeOK
    <3>2. QED
      BY <2>4, <3>1 DEF serial_receive, ReceiveInv, AnnouncedIsThere
  <2>7. Loaded'
    <3> SUFFICES ASSUME pc = "store_tail" PROVE c = GetByte(serial_rx')
      BY DEF Loaded, serial_receive, main
    <3>1. announced > 0
      BY DEF ReceiveInv, Getting
    <3>2. ~IsEmpty(serial_rx)
      BY <1>1, <3>1, AvailableIs, BufferAssumption DEF BufferAssumption, Slot,
         ReceiveInv, SerialTypeOK, ReceiveTypeOK, AnnouncedIsThere
    <3>3. GetByte(serial_rx') = GetByte(serial_rx)
      BY <1>1, <2>1, <3>2 DEF Ring, IsEmpty, GetByte, PutByte, PutHead
    <3>4. QED
      BY <3>3 DEF ReceiveInv, Loaded
  <2>8. QED
    BY <1>4, <1>5, <2>5, <2>6, <2>7
    DEF serial_receive, main, ReceiveInv, SerialTypeOK, Getting
<1>8. CASE ~(rxfifo[1].good /\ ~IsFull(serial_rx))
  <2>1. serial_rx' = serial_rx
    BY <1>8 DEF serial_receive
  <2>2. ReceiveTypeOK' /\ AnnouncedIsThere'
    BY <1>2, <1>6, <2>1
    DEF serial_receive, ReceiveInv, SerialTypeOK, ReceiveTypeOK, AnnouncedIsThere
  <2>3. QED
    BY <1>4, <1>5, <2>1, <2>2
    DEF serial_receive, main, ReceiveInv, SerialTypeOK, Getting, Loaded
<1>9. QED
  BY <1>7, <1>8
-----------------------------------------------------------------------------
\* The steps of main that change no ring.
LEMMA GotoReceive ==
  ASSUME ReceiveInv, UNCHANGED <<tx, rx>>, Executes, Tick,
         pc' \in Step, c' \in Byte, others' \in 0..MaxOthers,
         load' \in [puts : Byte, arrivals : Byte], Getting', Loaded'
  PROVE  ReceiveInv'
<1>1. TransmitTypeOK'
  BY TickType, SendUnchanged DEF ReceiveInv, SerialTypeOK, TransmitTypeOK
<1>2. ReceiveTypeOK' /\ AnnouncedIsThere'
  BY ReceiveUnchanged
<1>3. MainTypeOK'
  BY ExecutesType DEF MainTypeOK
<1>4. QED
  BY <1>1, <1>2, <1>3 DEF ReceiveInv, SerialTypeOK

LEMMA GotosReceive ==
  ASSUME ReceiveInv,
         \/ Elsewhere \/ TestEmpty \/ WaitFull \/ LoadUCSR0B
         \/ GetChar \/ WaitEmpty \/ LoadByte \/ Drain
  PROVE  ReceiveInv'
<1>1. /\ c \in Byte /\ others \in 0..MaxOthers
      /\ load \in [puts : Byte, arrivals : Byte]
  BY DEF ReceiveInv, SerialTypeOK, MainTypeOK
<1>2. CASE Elsewhere
  BY <1>1, <1>2, ByteType, GotoReceive
  DEF Elsewhere, rx, main, ReceiveInv, Getting, Loaded, Step
<1>3. CASE TestEmpty
  BY <1>1, <1>3, GotoReceive DEF TestEmpty, Goto, Getting, Loaded, Step
<1>4. CASE WaitFull
  BY <1>1, <1>4, GotoReceive DEF WaitFull, Goto, Getting, Loaded, Step
<1>5. CASE LoadUCSR0B
  BY <1>1, <1>5, GotoReceive DEF LoadUCSR0B, Goto, Getting, Loaded, Step
<1>6. CASE GetChar
  BY <1>1, <1>6, GotoReceive DEF GetChar, Goto, rx, Getting, Loaded, Step
<1>7. CASE WaitEmpty
  BY <1>1, <1>7, GotoReceive
  DEF WaitEmpty, Goto, rx, ReceiveInv, Getting, Loaded, Step
<1>8. CASE LoadByte
  <2>1. c' \in Byte
    BY <1>8, ByteType, RingStep
    DEF LoadByte, ReceiveInv, SerialTypeOK, ReceiveTypeOK
  <2>2. QED
    BY <1>1, <1>8, <2>1, GotoReceive
    DEF LoadByte, rx, ReceiveInv, Getting, Loaded, Step
<1>9. CASE Drain
  BY <1>1, <1>9, GotoReceive DEF Drain, Goto, Getting, Loaded, Step
<1>10. QED
  BY <1>2, <1>3, <1>4, <1>5, <1>6, <1>7, <1>8, <1>9

LEMMA PutCharReceive ==
  ASSUME ReceiveInv, PutChar
  PROVE  ReceiveInv'
<1>1. load.puts \in Byte /\ load.puts - 1 \in Byte
  BY SerialAssumption
  DEF SerialAssumption, Byte, PutChar, ReceiveInv, SerialTypeOK, MainTypeOK
<1>2. load' \in [puts : Byte, arrivals : Byte] /\ others' \in 0..MaxOthers
  BY <1>1 DEF PutChar, ReceiveInv, SerialTypeOK, MainTypeOK
<1>3. QED
  BY <1>1, <1>2, GotoReceive DEF PutChar, Getting, Loaded, Step

LEMMA StoresReceive ==
  ASSUME ReceiveInv, StoreUDR0 \/ StoreByte \/ StoreHead \/ StoreUCSR0B
  PROVE  ReceiveInv'
<1>1. serial_tx \in Ring(Byte) /\ c \in Byte
  BY DEF ReceiveInv, SerialTypeOK, TransmitTypeOK, MainTypeOK
<1>2. ReceiveTypeOK' /\ AnnouncedIsThere'
  BY ReceiveUnchanged DEF StoreUDR0, StoreByte, StoreHead, StoreUCSR0B
<1>3. TransmitTypeOK' /\ others' \in 0..MaxOthers
  <2>1. CASE StoreUDR0
    BY <1>1, <2>1, WriteType
    DEF StoreUDR0, ReceiveInv, SerialTypeOK, TransmitTypeOK, MainTypeOK
  <2>2. CASE StoreByte
    BY <1>1, <2>2, RingStep, TickType
    DEF StoreByte, ReceiveInv, SerialTypeOK, TransmitTypeOK, MainTypeOK
  <2>3. CASE StoreHead
    BY <1>1, <2>3, RingStep, TickType
    DEF StoreHead, ReceiveInv, SerialTypeOK, TransmitTypeOK, MainTypeOK
  <2>4. CASE StoreUCSR0B
    <3>1. UDRIE0' \in BOOLEAN
      BY <2>4 DEF StoreUCSR0B
    <3>2. QED
      BY <2>4, <3>1, TickType
      DEF StoreUCSR0B, ReceiveInv, SerialTypeOK, TransmitTypeOK, MainTypeOK
  <2>5. QED
    BY <2>1, <2>2, <2>3, <2>4
<1>4. /\ MainTypeOK' /\ Getting' /\ Loaded'
  BY <1>3, ExecutesType DEF StoreUDR0, StoreByte, StoreHead, StoreUCSR0B, Goto,
     ReceiveInv, SerialTypeOK, MainTypeOK, Getting, Loaded, Step
<1>5. QED
  BY <1>2, <1>3, <1>4 DEF ReceiveInv, SerialTypeOK

LEMMA StoreTailReceive ==
  ASSUME ReceiveInv, StoreTail
  PROVE  ReceiveInv' /\ ~IsEmpty(serial_rx)
<1>1. /\ serial_rx \in Ring(Byte) /\ c \in Byte
      /\ announced \in Slot /\ announced > 0
  BY DEF StoreTail, ReceiveInv, SerialTypeOK, ReceiveTypeOK, MainTypeOK, Getting
<1>2. /\ announced \in Nat /\ Available(serial_rx) \in Nat
      /\ announced <= Available(serial_rx) /\ announced - 1 \in Slot
  BY <1>1, AvailableIs, BufferAssumption
  DEF BufferAssumption, Slot, ReceiveInv, AnnouncedIsThere
<1>3. ~IsEmpty(serial_rx)
  BY <1>1, <1>2, AvailableIs
<1>4. /\ GetTail(serial_rx) \in Ring(Byte)
      /\ Available(GetTail(serial_rx)) = Available(serial_rx) - 1
  BY <1>1, <1>3, ByteType, RingStep, GetAvailable
<1>5. ReceiveTypeOK'
  BY <1>1, <1>2, <1>4 DEF StoreTail, ReceiveInv, SerialTypeOK, ReceiveTypeOK
<1>6. AnnouncedIsThere'
  BY <1>2, <1>4 DEF StoreTail, AnnouncedIsThere
<1>7. TransmitTypeOK'
  BY TickType, SendUnchanged DEF StoreTail, ReceiveInv, SerialTypeOK, TransmitTypeOK
<1>8. MainTypeOK' /\ Getting' /\ Loaded'
  BY ExecutesType
  DEF StoreTail, Goto, ReceiveInv, SerialTypeOK, MainTypeOK, Getting, Loaded, Step
<1>9. QED
  BY <1>3, <1>5, <1>6, <1>7, <1>8 DEF ReceiveInv, SerialTypeOK

LEMMA AvailableReceive ==
  ASSUME ReceiveInv, serial_available
  PROVE  ReceiveInv'
<1>1. serial_rx \in Ring(Byte) /\ Available(serial_rx) \in Slot
  BY AvailableIs DEF ReceiveInv, SerialTypeOK, ReceiveTypeOK
<1>2. ReceiveTypeOK'
  BY <1>1 DEF serial_available, ReceiveInv, SerialTypeOK, ReceiveTypeOK
<1>3. AnnouncedIsThere'
  BY <1>1, BufferAssumption DEF BufferAssumption, Slot, serial_available, AnnouncedIsThere
<1>4. TransmitTypeOK'
  BY TickType, SendUnchanged
  DEF serial_available, ReceiveInv, SerialTypeOK, TransmitTypeOK
<1>5. MainTypeOK' /\ Getting' /\ Loaded'
  BY ExecutesType
  DEF serial_available, main, ReceiveInv, SerialTypeOK, MainTypeOK, Getting, Loaded
<1>6. QED
  BY <1>2, <1>3, <1>4, <1>5 DEF ReceiveInv, SerialTypeOK

LEMMA StutterReceive ==
  ASSUME ReceiveInv, UNCHANGED vars
  PROVE  ReceiveInv'
BY DEF vars, tx, rx, main, ReceiveInv, SerialTypeOK, TransmitTypeOK,
   ReceiveTypeOK, MainTypeOK, AnnouncedIsThere, Getting, Loaded

LEMMA ReceiveInvariant == Spec => []ReceiveInv
<1>1. ReceiveInv /\ [Next]_vars => ReceiveInv'
  BY ByteOutReceive, OtherInterruptReceive, ByteArrivesReceive,
     TransmitHandlerReceive, ReceiveHandlerReceive, GotosReceive, PutCharReceive,
     StoresReceive, StoreTailReceive, AvailableReceive, StutterReceive
  DEF Next, Main, Handler, Returns
<1>2. QED
  BY <1>1, InitReceiveInv, PTL DEF Spec

\* The variables of serial.c and the hardware's registers keep their types,
\* the indices of both rings included.
THEOREM SerialTypeCorrect == Spec => []SerialTypeOK
<1>1. ReceiveInv => SerialTypeOK
  BY DEF ReceiveInv
<1>2. QED
  BY <1>1, ReceiveInvariant, PTL

\* A caller that reads as many bytes as serial_available counted never waits.
THEOREM AnnouncedIsThereHolds == Spec => []AnnouncedIsThere
<1>1. ReceiveInv => AnnouncedIsThere
  BY DEF ReceiveInv
<1>2. QED
  BY <1>1, ReceiveInvariant, PTL
-----------------------------------------------------------------------------
\* serial_receive offers a byte to the queue, serial_getchar takes one.
LEMMA ReceiverStep == ReceiveInv /\ [Next]_vars => [Receiver!Next]_(Receiver!vars)
<1> SUFFICES ASSUME ReceiveInv, [Next]_vars PROVE [Receiver!Next]_(Receiver!vars)
  OBVIOUS
<1>1. serial_rx \in Ring(Byte) /\ rxfifo \in Seq(Received)
  BY DEF ReceiveInv, SerialTypeOK, ReceiveTypeOK
<1>2. /\ Content(serial_rx) \in Seq(Byte)
      /\ Len(Content(serial_rx)) = Available(serial_rx)
      /\ Available(serial_rx) \in Slot
      /\ IsFull(serial_rx) <=> Available(serial_rx) = SERIAL_BUFFER_SIZE - 1
  BY <1>1, ContentType, AvailableIs
<1>3. CASE UNCHANGED <<serial_rx, offered, got>>
  BY <1>3 DEF Receiver!vars
<1>4. CASE serial_receive
  <2> DEFINE byte == rxfifo[1].byte
             stored == PutByte(serial_rx, byte)
  <2>1. rxfifo # <<>> /\ rxfifo[1] \in Received /\ got' = got
    BY <1>1, <1>4 DEF serial_receive, RXC0
  <2>2. byte \in Byte /\ rxfifo[1].good \in BOOLEAN
    BY <2>1 DEF Received
  <2>3. CASE rxfifo[1].good /\ ~IsFull(serial_rx)
    <3>1. serial_rx' = PutHead(stored) /\ offered' = TRUE
      BY <1>4, <2>3 DEF serial_receive
    <3>2. stored \in Ring(Byte) /\ ~IsFull(stored) /\ stored.head = serial_rx.head
      <4>1. stored \in Ring(Byte) /\ Available(stored) = Available(serial_rx)
        BY <1>1, <2>2, RingStep, PutAvailable
      <4>2. QED
        BY <1>1, <2>3, <4>1, AvailableIs DEF Ring, PutByte
    <3>3. Content(serial_rx') = Append(Content(serial_rx), byte)
      <4>1. /\ Content(stored) = Content(serial_rx)
            /\ stored.buffer[serial_rx.head] = byte
        BY <1>1, <2>2, <2>3, ContentPut
      <4>2. Content(PutHead(stored)) = Append(Content(stored), stored.buffer[stored.head])
        BY <2>2, <3>2, ContentPut
      <4>3. QED
        BY <3>1, <3>2, <4>1, <4>2
    <3>4. Len(Content(serial_rx)) < SERIAL_BUFFER_SIZE - 1
      BY <1>2, <2>3, BufferAssumption DEF BufferAssumption, Slot
    <3>5. Receiver!Offer(byte)
      BY <2>1, <3>1, <3>3, <3>4 DEF Receiver!Offer
    <3>6. QED
      BY <2>2, <3>5 DEF Receiver!Next
  <2>4. CASE rxfifo[1].good /\ IsFull(serial_rx)
    <3>1. serial_rx' = serial_rx /\ offered' = FALSE
      BY <1>4, <2>4 DEF serial_receive
    <3>2. Len(Content(serial_rx)) >= SERIAL_BUFFER_SIZE - 1
      BY <1>2, <2>4, BufferAssumption DEF BufferAssumption
    <3>3. Receiver!Offer(byte)
      BY <2>1, <3>1, <3>2 DEF Receiver!Offer
    <3>4. QED
      BY <2>2, <3>3 DEF Receiver!Next
  <2>5. CASE ~rxfifo[1].good
    <3>1. UNCHANGED <<serial_rx, offered, got>>
      BY <1>4, <2>1, <2>5 DEF serial_receive
    <3>2. QED
      BY <1>3, <3>1
  <2>6. QED
    BY <2>2, <2>3, <2>4, <2>5
<1>5. CASE StoreTail
  <2>1. ~IsEmpty(serial_rx)
    BY <1>5, StoreTailReceive
  <2>2. serial_rx' = GetTail(serial_rx) /\ got' = GetByte(serial_rx) /\ offered' = offered
    BY <1>5 DEF StoreTail, ReceiveInv, Loaded
  <2>3. /\ Content(serial_rx) # <<>>
        /\ Head(Content(serial_rx)) = GetByte(serial_rx)
        /\ Content(GetTail(serial_rx)) = Tail(Content(serial_rx))
    BY <1>1, <2>1, ContentGet
  <2>4. Receiver!Take
    BY <2>2, <2>3 DEF Receiver!Take
  <2>5. QED
    BY <2>4 DEF Receiver!Next
<1>6. serial_receive \/ StoreTail \/ UNCHANGED <<serial_rx, offered, got>>
  BY DEF Next, Main, Handler, Returns, vars, rx, serial_transmit, OtherInterrupt,
     ByteOut, ByteArrives, Elsewhere, PutChar, GetChar, serial_available, TestEmpty,
     StoreUDR0, WaitFull, StoreByte, StoreHead, LoadUCSR0B, StoreUCSR0B, WaitEmpty,
     LoadByte, Drain
<1>7. QED
  BY <1>3, <1>4, <1>5, <1>6

\* The receive ring is a queue of SERIAL_BUFFER_SIZE - 1 bytes: what main gets
\* is what arrived intact, in order, less what found the ring full.
THEOREM ReceiverImplementsFifo == Spec => ReceiverIsFifo
<1>1. Init => Receiver!Init
  BY EmptyRingType, ContentType, EmptyContent, AvailableIs
  DEF Init, Receiver!Init
<1>2. QED
  BY <1>1, ReceiverStep, ReceiveInvariant, PTL DEF Spec, ReceiverIsFifo, Receiver!Spec
-----------------------------------------------------------------------------
\* The transmit side.  The danger is that the interrupt sends the last byte
\* between main's store of the head and its enabling of the interrupt.  It would
\* have to run twice in that time; it does not, because it is always served so
\* early that the transmitter has not run dry: while a byte is shifted out main
\* makes at least ten steps more than there are other interrupts to hold it up.
Timely == ByteTime >= MaxOthers + 10

\* The steps that main can make before a pending transmit interrupt is served.
Delay == others + Len(rxfifo) + (IF window = "closed" THEN 0 ELSE 1)

\* The steps of putchar behind main, on the way through the ring.
Progress ==
  CASE pc = "test_empty" -> 1 [] pc = "wait_full" -> 2
    [] pc = "store_byte" -> 3 [] pc = "store_head" -> 4
    [] pc = "load_ucsr" -> 5 [] pc = "store_ucsr" -> 6
    [] OTHER -> 0

\* The interrupt is served in good time: the register it is to fill was emptied
\* lately, at most five steps before main enabled it.
ServedInTime ==
  UDRIE0 /\ udr = <<>> => shift # <<>> /\ left + MaxOthers + 8 >= ByteTime + Delay

\* Main takes the way through the ring because the register was full, or the
\* interrupt enabled, when it looked.
Enabling == {"wait_full", "store_byte", "store_head", "load_ucsr", "store_ucsr"}

EmptiedLately ==
  ~UDRIE0 /\ udr = <<>> /\ pc \in Enabling =>
    shift # <<>> /\ left + Progress >= ByteTime + 2

RoomToStore == pc \in {"store_byte", "store_head"} => ~IsFull(serial_tx)

ToBeEnabled ==
  pc \in {"load_ucsr", "store_ucsr"} =>
    /\ ~IsEmpty(serial_tx)
    /\ UDRIE0 => \/ Available(serial_tx) >= 2
                 \/ udr # <<>> /\ left >= 7 - Progress

StraightOnlyIfEmpty == pc = "store_udr" => IsEmpty(serial_tx) /\ ~UDRIE0

TransmitInv ==
  /\ InterruptHasWork /\ NothingStranded
  /\ ServedInTime /\ EmptiedLately
  /\ RoomToStore /\ ToBeEnabled /\ StraightOnlyIfEmpty

Ranges ==
  /\ MaxOthers \in Nat /\ ByteTime \in Nat /\ left \in Nat /\ left <= ByteTime
  /\ others \in Nat /\ Delay \in Nat /\ Delay <= others + 3
  /\ Delay <= MaxOthers + 3
  /\ Len(rxfifo) \in Nat /\ Len(rxfifo) <= 2
  /\ pc \in Step /\ Progress \in 0..6
  /\ serial_tx \in Ring(Byte)
  /\ Available(serial_tx) \in Nat
  /\ IsEmpty(serial_tx) <=> Available(serial_tx) = 0
  /\ IsFull(serial_tx) <=> Available(serial_tx) = SERIAL_BUFFER_SIZE - 1

LEMMA RangesHold == ReceiveInv => Ranges
<1> SUFFICES ASSUME ReceiveInv PROVE Ranges
  OBVIOUS
<1>1. TransmitTypeOK /\ ReceiveTypeOK /\ MainTypeOK
  BY DEF ReceiveInv, SerialTypeOK
<1>2. /\ left \in Nat /\ left <= ByteTime /\ others \in Nat /\ others <= MaxOthers
      /\ Len(rxfifo) \in Nat /\ Len(rxfifo) <= 2
  BY <1>1, ByteType DEF TransmitTypeOK, ReceiveTypeOK, MainTypeOK
<1>3. Delay \in Nat /\ Delay <= others + 3 /\ Delay <= MaxOthers + 3
  BY <1>2, ByteType DEF Delay
<1>4. pc \in Step /\ Progress \in 0..6
  BY <1>1 DEF MainTypeOK, Progress, Step
<1>5. QED
  BY <1>1, <1>2, <1>3, <1>4, ByteType, AvailableIs, BufferAssumption
  DEF Ranges, TransmitTypeOK, BufferAssumption, Slot

LEMMA RangesHoldNext == (ReceiveInv => Ranges)'
BY RangesHold, PTL

LEMMA InitTransmitInv == Init => TransmitInv
BY EmptyRingType, AvailableIs, BufferAssumption
DEF BufferAssumption, Init, TransmitInv, InterruptHasWork, NothingStranded,
    ServedInTime, EmptiedLately, Enabling, RoomToStore, ToBeEnabled,
    StraightOnlyIfEmpty

LEMMA ByteOutTransmit ==
  ASSUME Timely, ReceiveInv, ReceiveInv', TransmitInv, ByteOut
  PROVE  TransmitInv'
<1>0. Ranges /\ Ranges'
  BY RangesHold, RangesHoldNext
<1>1. UNCHANGED <<serial_tx, UDRIE0, pc, rxfifo, window>> /\ shift # <<>> /\ left = 0
  BY DEF ByteOut, rx, main
<1>2. InterruptHasWork' /\ NothingStranded' /\ RoomToStore' /\ StraightOnlyIfEmpty'
  BY <1>1 DEF TransmitInv, InterruptHasWork, NothingStranded, RoomToStore,
     StraightOnlyIfEmpty
<1>3. ToBeEnabled'
  BY <1>0, <1>1 DEF Ranges, TransmitInv, ToBeEnabled, Progress
<1>4. ASSUME udr # <<>> PROVE left' = ByteTime /\ shift' = udr
  BY <1>4 DEF ByteOut, Begins
<1>5. ServedInTime'
  <2> SUFFICES ASSUME UDRIE0
               PROVE  shift' # <<>> /\ left' + MaxOthers + 8 >= ByteTime + Delay'
    BY <1>1 DEF ServedInTime
  <2>1. Delay \in Nat /\ Delay' \in Nat /\ Delay' <= MaxOthers + 3
    BY <1>0 DEF Ranges
  <2>2. udr # <<>>
    BY <1>1, <2>1, ByteType DEF Timely, TransmitInv, ServedInTime
  <2>3. left' + MaxOthers + 8 >= ByteTime + Delay'
    <3>1. ASSUME NEW n \in Nat, NEW m \in Nat, NEW d \in Nat, d <= m + 3
          PROVE  n + m + 8 >= n + d
      BY <3>1
    <3>2. QED
      BY <1>4, <2>1, <2>2, <3>1, ByteType
  <2>4. QED
    BY <1>4, <2>2, <2>3
<1>6. EmptiedLately'
  <2> SUFFICES ASSUME ~UDRIE0, pc \in Enabling
               PROVE  shift' # <<>> /\ left' + Progress' >= ByteTime + 2
    BY <1>1 DEF EmptiedLately
  <2>1. Progress' = Progress /\ Progress \in 2..6
    BY <1>1 DEF Progress, Enabling
  <2>2. udr # <<>>
    BY <1>1, <2>1, ByteType DEF Timely, TransmitInv, EmptiedLately
  <2>3. QED
    BY <1>4, <2>1, <2>2, ByteType
<1>7. QED
  BY <1>2, <1>3, <1>5, <1>6 DEF TransmitInv

\* The other handlers and arrivals only use up the time they were allowed.
LEMMA DelayShrinks ==
  ASSUME ReceiveInv, ReceiveInv', TransmitInv, Delay' <= Delay,
         UNCHANGED <<serial_tx, UDRIE0, udr, shift, left, pc>>
  PROVE  TransmitInv'
<1>1. Ranges /\ Ranges'
  BY RangesHold, RangesHoldNext
<1>2. Progress' = Progress
  BY DEF Progress
<1>3. ServedInTime'
  <2>1. Delay \in Nat /\ Delay' \in Nat /\ left \in Nat
    BY <1>1 DEF Ranges
  <2>2. ASSUME NEW d \in Nat, NEW e \in Nat, NEW k \in Nat, NEW m \in Nat, NEW n \in Nat,
               e <= d, k + m + 8 >= n + d
        PROVE  k + m + 8 >= n + e
    BY <2>2
  <2>3. left + MaxOthers + 8 >= ByteTime + Delay => left + MaxOthers + 8 >= ByteTime + Delay'
    BY <2>1, <2>2, ByteType
  <2>4. QED
    BY <2>3 DEF TransmitInv, ServedInTime
<1>4. QED
  BY <1>2, <1>3 DEF TransmitInv, InterruptHasWork, NothingStranded, EmptiedLately,
     RoomToStore, ToBeEnabled, StraightOnlyIfEmpty

LEMMA OthersTransmit ==
  ASSUME ReceiveInv, ReceiveInv', TransmitInv,
         OtherInterrupt \/ serial_receive \/ \E good \in BOOLEAN : ByteArrives(good)
  PROVE  TransmitInv'
<1>1. Ranges /\ rxfifo \in Seq(Received) /\ window \in {"owed", "open", "closed"}
  BY RangesHold DEF ReceiveInv, SerialTypeOK, ReceiveTypeOK, MainTypeOK
<1>2. CASE OtherInterrupt
  <2>1. Delay' <= Delay
    BY <1>1, <1>2 DEF OtherInterrupt, Interrupt, rx, Ranges, Delay
  <2>2. QED
    BY <1>2, <2>1, DelayShrinks DEF OtherInterrupt, tx, main
<1>3. CASE serial_receive
  <2>1. Len(rxfifo') = Len(rxfifo) - 1
    BY <1>1, <1>3 DEF serial_receive, RXC0
  <2>2. Delay' <= Delay
    BY <1>1, <1>3, <2>1 DEF serial_receive, Interrupt, Ranges, Delay
  <2>3. QED
    BY <1>3, <2>2, DelayShrinks DEF serial_receive, tx, main
<1>4. ASSUME NEW good \in BOOLEAN, ByteArrives(good)
      PROVE  TransmitInv'
  <2>1. Len(rxfifo') \in Nat /\ Len(rxfifo') <= Len(rxfifo) + 1
    BY <1>1, <1>4 DEF ByteArrives, Ranges
  <2>2. Delay' <= Delay
    BY <1>1, <1>4, <2>1 DEF ByteArrives, Ranges, Delay
  <2>3. QED
    BY <1>4, <2>2, DelayShrinks DEF ByteArrives, tx, main
<1>5. QED
  BY <1>2, <1>3, <1>4

LEMMA TransmitHandlerTransmit ==
  ASSUME Timely, ReceiveInv, ReceiveInv', TransmitInv, serial_transmit
  PROVE  TransmitInv'
<1>1. Ranges /\ Ranges'
  BY RangesHold, RangesHoldNext
<1>2. /\ UDRIE0 /\ udr = <<>> /\ pc' = pc /\ serial_tx' = GetTail(serial_tx)
      /\ UDRIE0' <=> ~IsEmpty(serial_tx')
      /\ WriteUDR0(GetByte(serial_tx))
  BY DEF serial_transmit, UDRE0, main
<1>3. ~IsEmpty(serial_tx)
  BY <1>2 DEF TransmitInv, InterruptHasWork
<1>4. Available(serial_tx') = Available(serial_tx) - 1
  BY <1>1, <1>2, <1>3, ByteType, GetAvailable DEF Ranges
<1>5. InterruptHasWork' /\ NothingStranded'
  BY <1>2 DEF InterruptHasWork, NothingStranded
<1>6. RoomToStore'
  <2>1. serial_tx' \in Ring(Byte)
    BY <1>1 DEF Ranges
  <2>2. IsFull(serial_tx') <=> Available(serial_tx') = SERIAL_BUFFER_SIZE - 1
    BY <2>1, AvailableIs
  <2>3. Available(serial_tx) \in Slot
    BY <1>1, AvailableIs DEF Ranges
  <2>4. ~IsFull(serial_tx')
    BY <1>4, <2>2, <2>3, BufferAssumption DEF BufferAssumption, Slot
  <2>5. QED
    BY <2>4 DEF RoomToStore
<1>7. StraightOnlyIfEmpty'
  BY <1>2 DEF TransmitInv, StraightOnlyIfEmpty
<1>8. ToBeEnabled'
  <2> SUFFICES ASSUME pc \in {"load_ucsr", "store_ucsr"}
               PROVE  /\ ~IsEmpty(serial_tx')
                      /\ udr' # <<>> /\ left' >= 7 - Progress'
    BY <1>2 DEF ToBeEnabled
  <2>1. Progress' = Progress /\ Progress >= 5 /\ Progress \in 0..6
    BY <1>2 DEF Progress
  <2>2. Available(serial_tx) >= 2
    BY <1>2 DEF TransmitInv, ToBeEnabled
  <2>3. Delay \in Nat /\ left \in Nat
    BY <1>1 DEF Ranges
  <2>5. shift # <<>> /\ left + MaxOthers + 8 >= ByteTime + Delay
    BY <1>2 DEF TransmitInv, ServedInTime
  <2>6. left >= 2
    BY <2>3, <2>5, ByteType DEF Timely
  <2>7. udr' # <<>> /\ left' = left
    BY <1>2, <2>5 DEF WriteUDR0, UDRE0
  <2>8. ~IsEmpty(serial_tx')
    BY <1>1, <1>4, <2>2 DEF Ranges
  <2>9. QED
    BY <2>1, <2>3, <2>6, <2>7, <2>8
<1>9. ServedInTime' /\ EmptiedLately'
  <2>1. udr' # <<>>
    BY <1>2 DEF TransmitInv, ServedInTime, WriteUDR0, UDRE0
  <2>2. QED
    BY <2>1 DEF ServedInTime, EmptiedLately
<1>10. QED
  BY <1>5, <1>6, <1>7, <1>8, <1>9 DEF TransmitInv
-----------------------------------------------------------------------------
\* A step of main takes one from the time until the interrupt is served.
LEMMA MainServed ==
  ASSUME Timely, ReceiveInv, ReceiveInv', TransmitInv, Executes, Tick,
         UNCHANGED <<UDRIE0, udr, shift, rxfifo>>,
         UDRIE0 /\ udr = <<>> => others' = others
  PROVE  ServedInTime'
<1> SUFFICES ASSUME UDRIE0, udr = <<>>
             PROVE  shift # <<>> /\ left' + MaxOthers + 8 >= ByteTime + Delay'
  BY DEF ServedInTime
<1>1. Ranges /\ Ranges'
  BY RangesHold, RangesHoldNext
<1>2. window # "closed" /\ window' = "closed"
  BY DEF Executes, Pending, UDRE0
<1>3. Delay' = Delay - 1
  BY <1>1, <1>2 DEF Delay, Ranges
<1>4. Delay \in Nat /\ left \in Nat
  BY <1>1 DEF Ranges
<1>5. shift # <<>> /\ left + MaxOthers + 8 >= ByteTime + Delay
  BY DEF TransmitInv, ServedInTime
<1>6. left > 0
  BY <1>4, <1>5, ByteType DEF Timely
<1>7. left' = left - 1
  BY <1>6 DEF Tick
<1>8. left' + MaxOthers + 8 >= ByteTime + Delay'
  BY <1>3, <1>4, <1>5, <1>7, ByteType
<1>9. QED
  BY <1>5, <1>8

\* And each step on the way through the ring is one step nearer to the end of it.
LEMMA MainEmptied ==
  ASSUME Timely, ReceiveInv, TransmitInv, Tick,
         UNCHANGED <<UDRIE0, udr, shift>>,
         pc \in Enabling, Progress' = Progress + 1
  PROVE  EmptiedLately'
<1> SUFFICES ASSUME ~UDRIE0, udr = <<>>
             PROVE  shift # <<>> /\ left' + Progress' >= ByteTime + 2
  BY DEF EmptiedLately
<1>1. Progress \in 2..6 /\ left \in Nat
  BY RangesHold DEF Ranges, Progress, Enabling
<1>2. shift # <<>> /\ left + Progress >= ByteTime + 2
  BY DEF TransmitInv, EmptiedLately
<1>3. left' = left - 1
  BY <1>1, <1>2, ByteType DEF Timely, Tick
<1>4. QED
  BY <1>1, <1>2, <1>3, ByteType

LEMMA GotosTransmit ==
  ASSUME Timely, ReceiveInv, ReceiveInv', TransmitInv,
         \/ Elsewhere \/ PutChar \/ TestEmpty \/ WaitFull \/ LoadUCSR0B
         \/ GetChar \/ WaitEmpty \/ LoadByte \/ StoreTail \/ serial_available \/ Drain
  PROVE  TransmitInv'
<1>1. Ranges /\ Ranges'
  BY RangesHold, RangesHoldNext
<1>2. /\ UNCHANGED <<serial_tx, UDRIE0, udr, shift, rxfifo>> /\ Executes /\ Tick
      /\ UDRIE0 /\ udr = <<>> => others' = others
  BY DEF Elsewhere, PutChar, TestEmpty, WaitFull, LoadUCSR0B, GetChar, WaitEmpty,
     LoadByte, StoreTail, serial_available, Drain, tx, rx, Pending, UDRE0
<1>3. /\ InterruptHasWork'
      /\ pc \notin {"load_ucsr", "store_ucsr"} /\ ~IsEmpty(serial_tx) => UDRIE0
  BY <1>2 DEF TransmitInv, InterruptHasWork, NothingStranded
<1>4. CASE LoadUCSR0B
  <2>1. pc = "load_ucsr" /\ pc' = "store_ucsr" /\ Progress = 5 /\ Progress' = 6
    BY <1>4 DEF LoadUCSR0B, Goto, Progress
  <2>2. ServedInTime'
    BY <1>2, <2>1, MainServed
  <2>3. ToBeEnabled'
    <3>1. left \in Nat
      BY <1>1 DEF Ranges
    <3>2. left >= 2 => left' >= 1
      BY <1>2, <3>1 DEF Tick
    <3>3. QED
      BY <1>2, <2>1, <3>2 DEF TransmitInv, ToBeEnabled
  <2>4. NothingStranded' /\ RoomToStore' /\ StraightOnlyIfEmpty'
    BY <2>1 DEF NothingStranded, RoomToStore, StraightOnlyIfEmpty
  <2>6. EmptiedLately'
    BY <1>2, <2>1, MainEmptied DEF Enabling
  <2>5. QED
    BY <1>3, <2>2, <2>3, <2>4, <2>6 DEF TransmitInv
<1>5. CASE TestEmpty
  <2>1. /\ pc = "test_empty" /\ Progress = 1
        /\ \/ pc' = "store_udr" /\ Progress' = 0 /\ IsEmpty(serial_tx)
           \/ pc' = "wait_full" /\ Progress' = 2
    BY <1>5 DEF TestEmpty, Goto, Progress
  <2>2. ServedInTime'
    BY <1>2, <2>1, MainServed
  <2>3. StraightOnlyIfEmpty'
    BY <1>2, <2>1 DEF TransmitInv, InterruptHasWork, StraightOnlyIfEmpty
  <2>4. NothingStranded' /\ RoomToStore' /\ ToBeEnabled'
    BY <1>2, <1>3, <2>1 DEF NothingStranded, RoomToStore, ToBeEnabled
  <2>5. IsEmpty(serial_tx) <=> ~(pc' = "wait_full")
    BY <1>5 DEF TestEmpty, Goto
  <2>6. EmptiedLately'
    BY <1>2, <1>3, <2>1, <2>5 DEF EmptiedLately, Enabling
  <2>7. QED
    BY <1>3, <2>2, <2>3, <2>4, <2>6 DEF TransmitInv
<1>6. CASE WaitFull
  <2>1. /\ pc = "wait_full" /\ Progress = 2
        /\ \/ pc' = "wait_full" /\ Progress' = 2 /\ IsFull(serial_tx)
           \/ pc' = "store_byte" /\ Progress' = 3 /\ ~IsFull(serial_tx)
    BY <1>6 DEF WaitFull, Goto, Progress
  <2>2. ServedInTime'
    BY <1>2, <2>1, MainServed
  <2>3. NothingStranded' /\ RoomToStore' /\ ToBeEnabled' /\ StraightOnlyIfEmpty'
    BY <1>2, <1>3, <2>1 DEF NothingStranded, RoomToStore, ToBeEnabled, StraightOnlyIfEmpty
  <2>4. CASE pc' = "wait_full"
    <3>1. ~IsEmpty(serial_tx)
      BY <1>1, <2>1, <2>4, BufferAssumption DEF Ranges, BufferAssumption
    <3>2. EmptiedLately'
      BY <1>2, <1>3, <2>1, <3>1 DEF EmptiedLately
    <3>3. QED
      BY <1>3, <2>2, <2>3, <3>2 DEF TransmitInv
  <2>5. CASE pc' = "store_byte"
    <3>1. EmptiedLately'
      BY <1>2, <2>1, <2>5, MainEmptied DEF Enabling
    <3>2. QED
      BY <1>3, <2>2, <2>3, <3>1 DEF TransmitInv
  <2>6. QED
    BY <2>1, <2>4, <2>5
<1>7. CASE PutChar
  <2>1. /\ pc = "idle" /\ Progress = 0
        /\ \/ pc' = "test_empty" /\ Progress' = 1
           \/ pc' = "wait_full" /\ udr # <<>>
    BY <1>7 DEF PutChar, Progress, UDRE0
  <2>2. ServedInTime'
    BY <1>2, <2>1, MainServed
  <2>3. NothingStranded' /\ RoomToStore' /\ ToBeEnabled' /\ StraightOnlyIfEmpty'
    BY <1>2, <1>3, <2>1 DEF NothingStranded, RoomToStore, ToBeEnabled, StraightOnlyIfEmpty
  <2>4. EmptiedLately'
    BY <1>2, <2>1 DEF EmptiedLately, Enabling
  <2>5. QED
    BY <1>3, <2>2, <2>3, <2>4 DEF TransmitInv
<1>8. CASE Elsewhere \/ GetChar \/ WaitEmpty \/ LoadByte \/ StoreTail \/ serial_available \/ Drain
  <2> DEFINE Away == {"idle", "wait_empty", "load_byte", "store_tail", "drain", "drain_rx"}
  <2>1. pc \in Away /\ pc' \in Away
    BY <1>8 DEF Elsewhere, GetChar, WaitEmpty, LoadByte, StoreTail, serial_available,
       Drain, Goto, main
  <2>2. Progress = 0 /\ Progress' = 0
    BY <2>1 DEF Progress
  <2>3. ServedInTime'
    BY <1>2, <2>2, MainServed
  <2>4. NothingStranded' /\ RoomToStore' /\ ToBeEnabled' /\ StraightOnlyIfEmpty'
    BY <1>2, <1>3, <2>1 DEF NothingStranded, RoomToStore, ToBeEnabled, StraightOnlyIfEmpty
  <2>5. EmptiedLately'
    BY <2>1 DEF EmptiedLately, Enabling
  <2>6. QED
    BY <1>3, <2>3, <2>4, <2>5 DEF TransmitInv
<1>9. QED
  BY <1>4, <1>5, <1>6, <1>7, <1>8

LEMMA StoresTransmit ==
  ASSUME Timely, ReceiveInv, ReceiveInv', TransmitInv,
         StoreUDR0 \/ StoreByte \/ StoreHead \/ StoreUCSR0B
  PROVE  TransmitInv'
<1>1. Ranges /\ Ranges' /\ c \in Byte
  BY RangesHold, RangesHoldNext DEF ReceiveInv, SerialTypeOK, MainTypeOK
<1>2. CASE StoreUDR0
  <2>1. /\ pc = "store_udr" /\ pc' = "idle" /\ UNCHANGED <<serial_tx, UDRIE0>>
        /\ IsEmpty(serial_tx) /\ ~UDRIE0
    BY <1>2 DEF StoreUDR0, Goto, TransmitInv, StraightOnlyIfEmpty
  <2>2. QED
    BY <2>1 DEF TransmitInv, InterruptHasWork, NothingStranded, ServedInTime,
       EmptiedLately, Enabling, RoomToStore, ToBeEnabled, StraightOnlyIfEmpty
<1>3. CASE StoreByte
  <2>1. /\ pc = "store_byte" /\ pc' = "store_head" /\ Progress = 3 /\ Progress' = 4
        /\ serial_tx' = PutByte(serial_tx, c)
        /\ UNCHANGED <<UDRIE0, udr, shift, rxfifo, others>> /\ Executes /\ Tick
    BY <1>3 DEF StoreByte, Goto, Progress, rx
  <2>2. /\ Available(serial_tx') = Available(serial_tx)
        /\ IsEmpty(serial_tx') <=> IsEmpty(serial_tx)
        /\ IsFull(serial_tx') <=> IsFull(serial_tx)
    <3>1. Available(serial_tx') = Available(serial_tx)
      BY <1>1, <2>1, PutAvailable DEF Ranges
    <3>2. /\ IsEmpty(serial_tx') <=> Available(serial_tx') = 0
          /\ IsFull(serial_tx') <=> Available(serial_tx') = SERIAL_BUFFER_SIZE - 1
      BY <1>1, AvailableIs DEF Ranges
    <3>3. QED
      BY <1>1, <3>1, <3>2 DEF Ranges
  <2>3. ServedInTime'
    BY <2>1, MainServed
  <2>4. RoomToStore'
    BY <2>1, <2>2 DEF TransmitInv, RoomToStore
  <2>5. EmptiedLately'
    BY <2>1, MainEmptied DEF Enabling
  <2>6. QED
    BY <2>1, <2>2, <2>3, <2>4, <2>5 DEF TransmitInv, InterruptHasWork, NothingStranded,
       ToBeEnabled, StraightOnlyIfEmpty
<1>4. CASE StoreHead
  <2>1. /\ pc = "store_head" /\ pc' = "load_ucsr" /\ Progress = 4 /\ Progress' = 5
        /\ serial_tx' = PutHead(serial_tx)
        /\ UNCHANGED <<UDRIE0, udr, shift, rxfifo, others>> /\ Executes /\ Tick
    BY <1>4 DEF StoreHead, Goto, Progress, rx
  <2>2. ~IsFull(serial_tx)
    BY <2>1 DEF TransmitInv, RoomToStore
  <2>3. Available(serial_tx') = Available(serial_tx) + 1
    BY <1>1, <2>1, <2>2, PutAvailable DEF Ranges
  <2>4. ~IsEmpty(serial_tx')
    <3>1. IsEmpty(serial_tx') <=> Available(serial_tx') = 0
      BY <1>1, AvailableIs DEF Ranges
    <3>2. QED
      BY <1>1, <2>3, <3>1 DEF Ranges
  <2>5. UDRIE0 => Available(serial_tx') >= 2
    BY <1>1, <2>3 DEF Ranges, TransmitInv, InterruptHasWork
  <2>6. ServedInTime' /\ EmptiedLately'
    BY <2>1, MainServed, MainEmptied DEF Enabling
  <2>7. QED
    BY <2>1, <2>4, <2>5, <2>6 DEF TransmitInv, InterruptHasWork, NothingStranded,
       RoomToStore, ToBeEnabled, StraightOnlyIfEmpty
<1>5. CASE StoreUCSR0B
  <2>1. /\ pc = "store_ucsr" /\ pc' = "idle" /\ Progress' = 0
        /\ UDRIE0' /\ serial_tx' = serial_tx
    BY <1>5 DEF StoreUCSR0B, Goto, Progress
  <2>2. ~IsEmpty(serial_tx)
    BY <2>1 DEF TransmitInv, ToBeEnabled
  <2>3. ServedInTime'
    <3>1. CASE UDRIE0
      <4>1. UNCHANGED <<UDRIE0, udr, shift, rxfifo, others>> /\ Executes /\ Tick
        BY <1>5, <3>1 DEF StoreUCSR0B, rx
      <4>2. QED
        BY <4>1, MainServed
    <3>2. CASE ~UDRIE0 /\ udr = <<>>
      <4>1. shift # <<>> /\ left + 6 >= ByteTime + 2
        BY <2>1, <3>2 DEF TransmitInv, EmptiedLately, Enabling, Progress
      <4>2. left' = left - 1 /\ left \in Nat /\ shift' = shift
        BY <1>1, <1>5, <4>1, ByteType DEF StoreUCSR0B, Tick, Ranges, Timely
      <4>3. Delay' \in Nat /\ Delay' <= MaxOthers + 3
        BY <1>1 DEF Ranges
      <4>4. ASSUME NEW n \in Nat, NEW m \in Nat, NEW d \in Nat, NEW k \in Int,
                   d <= m + 3, k + 5 >= n
            PROVE  k + m + 8 >= n + d
        BY <4>4
      <4>5. left' \in Int /\ left' + 5 >= ByteTime
        BY <4>1, <4>2, ByteType
      <4>6. left' + MaxOthers + 8 >= ByteTime + Delay'
        BY <4>3, <4>4, <4>5, ByteType
      <4>7. QED
        BY <4>1, <4>2, <4>6 DEF ServedInTime
    <3>3. CASE udr # <<>>
      BY <1>5, <3>3 DEF StoreUCSR0B, ServedInTime
    <3>4. QED
      BY <3>1, <3>2, <3>3
  <2>4. QED
    BY <2>1, <2>2, <2>3 DEF TransmitInv, InterruptHasWork, NothingStranded,
       EmptiedLately, RoomToStore, ToBeEnabled, StraightOnlyIfEmpty
<1>6. QED
  BY <1>2, <1>3, <1>4, <1>5

LEMMA StutterTransmit ==
  ASSUME TransmitInv, UNCHANGED vars
  PROVE  TransmitInv'
BY DEF vars, tx, rx, main, TransmitInv, InterruptHasWork, NothingStranded,
   ServedInTime, EmptiedLately, Delay, Progress, RoomToStore, ToBeEnabled,
   StraightOnlyIfEmpty

LEMMA TransmitInvariant == Timely => (Spec => []TransmitInv)
<1> SUFFICES ASSUME Timely PROVE Spec => []TransmitInv
  OBVIOUS
<1>1. ReceiveInv /\ ReceiveInv' /\ TransmitInv /\ [Next]_vars => TransmitInv'
  BY ByteOutTransmit, OthersTransmit, TransmitHandlerTransmit, GotosTransmit,
     StoresTransmit, StutterTransmit
  DEF Next, Main, Handler, Returns
<1>2. QED
  BY <1>1, InitTransmitInv, ReceiveInvariant, PTL DEF Spec

\* When main gets on with it (Timely), serial_transmit never runs on an empty ring.
THEOREM InterruptHasWorkHolds == Timely => (Spec => []InterruptHasWork)
<1>1. TransmitInv => InterruptHasWork
  BY DEF TransmitInv
<1>2. QED
  BY <1>1, TransmitInvariant, PTL

\* And whatever serial_putchar left in the ring will be sent.
THEOREM NothingStrandedHolds == Timely => (Spec => []NothingStranded)
<1>1. TransmitInv => NothingStranded
  BY DEF TransmitInv
<1>2. QED
  BY <1>1, TransmitInvariant, PTL
-----------------------------------------------------------------------------
(***************************************************************************)
(* The transmit side of Serial is a queue: for rings of any size and any   *)
(* load, if a byte on the wire lasts long enough for serial_putchar to     *)
(* finish (Timely).                                                        *)
(***************************************************************************)
\* The byte whose place the next store of the head announces.
Stored == pc = "store_head" => serial_tx.buffer[serial_tx.head] = c

\* What is on its way, the oldest first.
Sending == shift \o udr \o Content(serial_tx)

\* A register of the transmitter holds one byte at most.
Register == {<<>>} \cup {<<byte>> : byte \in Byte}
-----------------------------------------------------------------------------
\* Sequences.
LEMMA OneThenRest ==
  ASSUME NEW byte \in Byte, NEW s \in Seq(Byte)
  PROVE  /\ <<byte>> \o s \in Seq(Byte) /\ <<byte>> \o s # <<>>
         /\ Len(<<byte>> \o s) = Len(s) + 1
         /\ Head(<<byte>> \o s) = byte /\ Tail(<<byte>> \o s) = s
<1> DEFINE t == <<byte>> \o s
<1>1. t \in Seq(Byte) /\ Len(t) = Len(s) + 1 /\ t[1] = byte
      /\ \A i \in 1..Len(s) : t[i + 1] = s[i]
  OBVIOUS
<1> HIDE DEF t
<1>2. Tail(t) \in Seq(Byte) /\ Len(Tail(t)) = Len(s) /\ \A i \in 1..Len(s) : Tail(t)[i] = t[i + 1]
  BY <1>1
<1>3. Tail(t) = s
  BY <1>1, <1>2
<1>4. QED
  BY <1>1, <1>3 DEF t

LEMMA Chain ==
  ASSUME NEW byte \in Byte, NEW other \in Byte, NEW s \in Seq(Byte), NEW t \in Seq(Byte)
  PROVE  /\ <<>> \o s = s /\ s \o <<>> = s
         /\ s \o Append(t, byte) = Append(s \o t, byte)
         /\ (<<other>> \o <<byte>>) \o s = <<other>> \o (<<byte>> \o s)
         /\ s # <<>> => <<Head(s)>> \o Tail(s) = s
         /\ s \o t \in Seq(Byte) /\ Len(s \o t) = Len(s) + Len(t)
<1>1. <<>> \o s = s /\ s \o <<>> = s /\ s \o t \in Seq(Byte) /\ Len(s \o t) = Len(s) + Len(t)
  OBVIOUS
<1>2. s \o Append(t, byte) = Append(s \o t, byte)
  OBVIOUS
<1>3. (<<other>> \o <<byte>>) \o s = <<other>> \o (<<byte>> \o s)
  OBVIOUS
<1>4. ASSUME s # <<>> PROVE <<Head(s)>> \o Tail(s) = s
  BY <1>4
<1>5. QED
  BY <1>1, <1>2, <1>3, <1>4
-----------------------------------------------------------------------------
LEMMA StoredStep ==
  ASSUME ReceiveInv, TransmitInv, Stored, [Next]_vars
  PROVE  Stored'
<1> SUFFICES ASSUME pc' = "store_head" PROVE serial_tx'.buffer[serial_tx'.head] = c'
  BY DEF Stored
<1>1. serial_tx \in Ring(Byte) /\ c \in Byte
  BY DEF ReceiveInv, SerialTypeOK, TransmitTypeOK, MainTypeOK
<1>2. CASE StoreByte
  <2>1. serial_tx' = PutByte(serial_tx, c) /\ c' = c
    BY <1>2 DEF StoreByte, Goto
  <2>2. serial_tx'.head = serial_tx.head
    BY <1>1, <2>1 DEF Ring, PutByte
  <2>3. ~IsFull(serial_tx)
    BY <1>2 DEF StoreByte, TransmitInv, RoomToStore
  <2>4. PutByte(serial_tx, c).buffer[serial_tx.head] = c
    BY <1>1, <2>3, ContentPut
  <2>5. QED
    BY <2>1, <2>2, <2>4
<1>3. CASE serial_transmit
  <2>1. serial_tx' = GetTail(serial_tx) /\ pc = "store_head" /\ c' = c
    BY <1>3 DEF serial_transmit, main
  <2>2. serial_tx'.head = serial_tx.head /\ serial_tx'.buffer = serial_tx.buffer
    BY <1>1, <2>1 DEF Ring, GetTail
  <2>3. QED
    BY <2>1, <2>2 DEF Stored
<1>4. CASE UNCHANGED <<serial_tx, pc, c>>
  BY <1>4 DEF Stored
<1>5. StoreByte \/ serial_transmit \/ UNCHANGED <<serial_tx, pc, c>>
  BY DEF Next, Main, Handler, Returns, vars, tx, main, serial_receive, OtherInterrupt,
     ByteOut, ByteArrives, Elsewhere, PutChar, GetChar, serial_available, TestEmpty, StoreUDR0,
     WaitFull, StoreHead, LoadUCSR0B, StoreUCSR0B, WaitEmpty, LoadByte, StoreTail, Drain, Goto
<1>6. QED
  BY <1>2, <1>3, <1>4, <1>5

LEMMA RegisterType ==
  ASSUME NEW r \in Register
  PROVE  r \in Seq(Byte) /\ Len(r) \in Nat /\ Len(r) <= 1
<1>1. CASE r = <<>>
  BY <1>1
<1>2. ASSUME NEW byte \in Byte, r = <<byte>>
      PROVE  r \in Seq(Byte) /\ Len(r) \in Nat /\ Len(r) <= 1
  BY <1>2
<1>3. QED
  BY <1>1, <1>2 DEF Register

LEMMA SendingType ==
  ASSUME ReceiveInv
  PROVE  /\ shift \in Register /\ udr \in Register /\ (shift = <<>> => udr = <<>>)
         /\ serial_tx \in Ring(Byte) /\ Content(serial_tx) \in Seq(Byte)
         /\ Len(Content(serial_tx)) = Available(serial_tx) /\ Available(serial_tx) \in Slot
         /\ udr \in Seq(Byte) /\ shift \o udr \in Seq(Byte) /\ Sending \in Seq(Byte)
         /\ Len(Sending) <= 2 + Available(serial_tx)
<1>1. shift \in Register /\ udr \in Register /\ (shift = <<>> => udr = <<>>)
      /\ serial_tx \in Ring(Byte)
  BY DEF ReceiveInv, SerialTypeOK, TransmitTypeOK, Register
<1>2. Content(serial_tx) \in Seq(Byte) /\ Len(Content(serial_tx)) = Available(serial_tx)
      /\ Available(serial_tx) \in Slot
  BY <1>1, ContentType, AvailableIs
<1>3. shift \in Seq(Byte) /\ udr \in Seq(Byte)
  BY <1>1, RegisterType
<1>4. shift \o udr \in Seq(Byte) /\ Len(shift \o udr) = Len(shift) + Len(udr)
  BY <1>1, <1>3, Chain, ByteType
<1>5. Sending \in Seq(Byte) /\ Len(Sending) = Len(shift \o udr) + Len(Content(serial_tx))
  BY <1>2, <1>4, Chain, ByteType DEF Sending
<1>6. Len(shift) \in Nat /\ Len(shift) <= 1 /\ Len(udr) \in Nat /\ Len(udr) <= 1
  BY <1>1, RegisterType
<1>7. Available(serial_tx) \in Nat
  BY <1>2, BufferAssumption DEF Slot, BufferAssumption
<1>8. Len(Sending) <= 2 + Available(serial_tx)
  BY <1>2, <1>4, <1>5, <1>6, <1>7
<1>9. QED
  BY <1>1, <1>2, <1>3, <1>4, <1>5, <1>8

\* The interrupt moves a byte on and changes nothing of the order.
LEMMA TransmitKeepsOrder ==
  ASSUME ReceiveInv, TransmitInv, serial_transmit
  PROVE  Sending' = Sending /\ line' = line
<1> DEFINE q == Content(serial_tx)
           byte == GetByte(serial_tx)
<1>1. udr = <<>> /\ line' = line /\ serial_tx' = GetTail(serial_tx) /\ WriteUDR0(byte) /\ UDRIE0
  BY DEF serial_transmit, UDRE0
<1>2. ~IsEmpty(serial_tx)
  BY <1>1 DEF TransmitInv, InterruptHasWork
<1>3. serial_tx \in Ring(Byte) /\ q \in Seq(Byte) /\ shift \in Register
  BY SendingType
<1>4. q # <<>> /\ Head(q) = byte /\ Content(serial_tx') = Tail(q)
  BY <1>1, <1>2, <1>3, ContentGet
<1>5. byte \in Byte /\ Tail(q) \in Seq(Byte)
  BY <1>3, <1>4
<1> HIDE DEF q, byte
<1>6. <<byte>> \o Tail(q) = q
  BY <1>3, <1>4, <1>5, Chain
<1>7. CASE shift = <<>>
  <2>1. shift' = <<byte>> /\ udr' = <<>>
    BY <1>1, <1>7 DEF WriteUDR0, UDRE0
  <2>2. Sending' = <<byte>> \o Tail(q)
    BY <1>4, <1>5, <2>1, Chain DEF Sending
  <2>3. Sending = q
    BY <1>1, <1>3, <1>5, <1>7, Chain DEF Sending, q
  <2>4. QED
    BY <1>1, <1>6, <2>2, <2>3
<1>8. CASE shift # <<>>
  <2>1. PICK s \in Byte : shift = <<s>>
    BY <1>3, <1>8 DEF Register
  <2>2. shift' = <<s>> /\ udr' = <<byte>>
    BY <1>1, <1>8, <2>1 DEF WriteUDR0, UDRE0
  <2>3. Sending' = <<s>> \o (<<byte>> \o Tail(q))
    BY <1>4, <1>5, <2>1, <2>2, Chain DEF Sending
  <2>4. <<s>> \in Seq(Byte)
    BY <2>1
  <2>5. Sending = <<s>> \o q
    BY <1>1, <1>3, <1>5, <2>1, <2>4, Chain DEF Sending, q
  <2>6. QED
    BY <1>1, <1>6, <2>3, <2>5
<1>9. QED
  BY <1>7, <1>8

\* The line takes the oldest byte.
LEMMA ByteOutTakes ==
  ASSUME ReceiveInv, ByteOut
  PROVE  Transmitter!Take
<1> DEFINE q == Content(serial_tx)
<1>1. q \in Seq(Byte) /\ shift \in Register /\ udr \in Register
  BY SendingType
<1>2. line' = shift[1] /\ shift' = udr /\ udr' = <<>> /\ serial_tx' = serial_tx /\ shift # <<>>
  BY DEF ByteOut
<1>3. PICK s \in Byte : shift = <<s>>
  BY <1>1, <1>2 DEF Register
<1>4. Content(serial_tx') = q
  BY <1>2
<1> HIDE DEF q
<1>5. Sending = <<s>> \o (udr \o q) /\ udr \o q \in Seq(Byte)
  <2>1. CASE udr = <<>>
    <3>1. <<s>> \in Seq(Byte)
      OBVIOUS
    <3>2. QED
      BY <1>1, <1>3, <2>1, <3>1, Chain DEF Sending, q
  <2>2. CASE udr # <<>>
    <3>1. PICK u \in Byte : udr = <<u>>
      BY <1>1, <2>2 DEF Register
    <3>2. <<u>> \in Seq(Byte)
      OBVIOUS
    <3>3. QED
      BY <1>1, <1>3, <3>1, <3>2, Chain DEF Sending, q
  <2>3. QED
    BY <2>1, <2>2
<1>6. Sending' = udr \o q
  <2>1. udr \in Seq(Byte)
    BY SendingType
  <2>2. QED
    BY <1>2, <1>3, <1>4, <2>1, Chain DEF Sending
<1>7. Sending # <<>> /\ Head(Sending) = s /\ Tail(Sending) = udr \o q
  BY <1>5, OneThenRest
<1>8. line' = s
  BY <1>2, <1>3
<1>9. QED
  BY <1>6, <1>7, <1>8 DEF Transmitter!Take, Sending

\* serial_putchar appends, in either of its two ways, or writes to a data
\* register that is in use.
LEMMA PutOffers ==
  ASSUME ReceiveInv, TransmitInv, Stored, StoreUDR0 \/ StoreHead
  PROVE  Transmitter!Offer(c) \/ (Sending' = Sending /\ line' = line)
<1> DEFINE q == Content(serial_tx)
<1>1. /\ shift \in Register /\ udr \in Register /\ (shift = <<>> => udr = <<>>)
      /\ serial_tx \in Ring(Byte) /\ q \in Seq(Byte) /\ c \in Byte /\ line' = line
      /\ Sending \in Seq(Byte) /\ Len(Sending) <= 2 + Available(serial_tx)
      /\ Available(serial_tx) \in Slot
  BY SendingType DEF StoreUDR0, StoreHead, ReceiveInv, SerialTypeOK, MainTypeOK
<1>2. SERIAL_BUFFER_SIZE \in Nat /\ SERIAL_BUFFER_SIZE >= 2 /\ Available(serial_tx) \in Nat
  BY <1>1, BufferAssumption DEF BufferAssumption, Slot
<1>3. ASSUME Available(serial_tx) < SERIAL_BUFFER_SIZE - 1, Sending' = Append(Sending, c)
      PROVE  Transmitter!Offer(c)
  <2>1. Len(Sending) < SERIAL_BUFFER_SIZE + 1
    BY <1>1, <1>2, <1>3
  <2>2. QED
    BY <1>1, <1>3, <2>1 DEF Transmitter!Offer, Sending
<1>4. CASE StoreHead
  <2>1. /\ pc = "store_head" /\ serial_tx' = PutHead(serial_tx) /\ UNCHANGED <<udr, shift>>
        /\ ~IsFull(serial_tx) /\ serial_tx.buffer[serial_tx.head] = c
    BY <1>4 DEF StoreHead, TransmitInv, RoomToStore, Stored
  <2>2. Content(serial_tx') = Append(q, c)
    BY <1>1, <2>1, ContentPut
  <2>3. Available(serial_tx) < SERIAL_BUFFER_SIZE - 1
    <3>1. Available(serial_tx) # SERIAL_BUFFER_SIZE - 1
      BY <1>1, <2>1, AvailableIs
    <3>2. QED
      BY <1>1, <3>1, BufferAssumption DEF BufferAssumption, Slot
  <2> HIDE DEF q
  <2>4. shift \o udr \in Seq(Byte)
    BY SendingType
  <2>5. Sending' = Append(Sending, c)
    BY <1>1, <2>1, <2>2, <2>4, Chain DEF Sending, q
  <2>6. QED
    BY <1>3, <2>3, <2>5
<1>5. CASE StoreUDR0 /\ udr # <<>>
  BY <1>1, <1>5 DEF StoreUDR0, WriteUDR0, UDRE0, Sending
<1>6. CASE StoreUDR0 /\ udr = <<>>
  <2>1. IsEmpty(serial_tx) /\ serial_tx' = serial_tx /\ WriteUDR0(c)
    BY <1>6 DEF StoreUDR0, TransmitInv, StraightOnlyIfEmpty
  <2>2. q = <<>> /\ Content(serial_tx') = <<>> /\ Available(serial_tx) = 0
    BY <1>1, <2>1, EmptyContent, AvailableIs
  <2> HIDE DEF q
  <2>3. Sending' = Append(Sending, c)
    <3>1. CASE shift = <<>>
      <4>1. shift' = <<c>> /\ udr' = <<>>
        BY <1>6, <2>1, <3>1 DEF WriteUDR0, UDRE0
      <4>2. QED
        BY <1>6, <2>2, <3>1, <4>1 DEF Sending, q
    <3>2. CASE shift # <<>>
      <4>1. PICK s \in Byte : shift = <<s>>
        BY <1>1, <3>2 DEF Register
      <4>2. shift' = <<s>> /\ udr' = <<c>>
        BY <1>6, <2>1, <3>2, <4>1 DEF WriteUDR0, UDRE0
      <4>3. QED
        BY <1>6, <2>2, <4>1, <4>2 DEF Sending, q
    <3>3. QED
      BY <3>1, <3>2
  <2>4. QED
    BY <1>2, <1>3, <2>2, <2>3
<1>7. QED
  BY <1>4, <1>5, <1>6

LEMMA TransmitterStep ==
  ReceiveInv /\ TransmitInv /\ Stored /\ [Next]_vars => [Transmitter!Next]_(Transmitter!vars)
<1> SUFFICES ASSUME ReceiveInv, TransmitInv, Stored, [Next]_vars
             PROVE  [Transmitter!Next]_(Transmitter!vars)
  OBVIOUS
<1>1. ASSUME Sending' = Sending, line' = line PROVE UNCHANGED Transmitter!vars
  BY <1>1 DEF Transmitter!vars, Sending
<1>2. CASE UNCHANGED <<serial_tx, udr, shift, line>>
  BY <1>1, <1>2 DEF Sending
<1>3. CASE serial_transmit
  BY <1>1, <1>3, TransmitKeepsOrder
<1>4. CASE ByteOut
  BY <1>4, ByteOutTakes DEF Transmitter!Next
<1>5. CASE StoreUDR0 \/ StoreHead
  <2>1. c \in Byte
    BY DEF ReceiveInv, SerialTypeOK, MainTypeOK
  <2>2. QED
    BY <1>1, <1>5, <2>1, PutOffers DEF Transmitter!Next
<1>6. CASE StoreByte
  <2>1. serial_tx' = PutByte(serial_tx, c) /\ UNCHANGED <<udr, shift, line>>
        /\ ~IsFull(serial_tx) /\ c \in Byte
    BY <1>6 DEF StoreByte, TransmitInv, RoomToStore, ReceiveInv, SerialTypeOK, MainTypeOK
  <2>2. Content(serial_tx') = Content(serial_tx)
    BY <2>1, SendingType, ContentPut
  <2>3. QED
    BY <1>1, <2>1, <2>2 DEF Sending
<1>7. \/ UNCHANGED <<serial_tx, udr, shift, line>>
      \/ serial_transmit \/ ByteOut \/ StoreUDR0 \/ StoreHead \/ StoreByte
  BY DEF Next, Main, Handler, Returns, vars, tx, serial_receive, OtherInterrupt, ByteArrives,
     Elsewhere, PutChar, GetChar, serial_available, TestEmpty, WaitFull, LoadUCSR0B,
     StoreUCSR0B, WaitEmpty, LoadByte, StoreTail, Drain
<1>8. QED
  BY <1>2, <1>3, <1>4, <1>5, <1>6, <1>7

\* Transmit ring, data register and shift register together are a queue: every
\* byte that goes out was put, in the order of the calls and once.
THEOREM TransmitterImplementsFifo == Timely => (Spec => TransmitterIsFifo)
<1> SUFFICES ASSUME Timely PROVE Spec => TransmitterIsFifo
  OBVIOUS
<1>1. Init => Transmitter!Init
  <2>1. Content(EmptyRing) = <<>>
    BY EmptyRingType, EmptyContent, AvailableIs
  <2>2. QED
    BY <2>1 DEF Init, Transmitter!Init
<1>2. Init => Stored
  BY DEF Init, Stored
<1>3. Spec => []Stored
  BY <1>2, StoredStep, ReceiveInvariant, TransmitInvariant, PTL DEF Spec
<1>4. QED
  BY <1>1, <1>3, TransmitterStep, ReceiveInvariant, TransmitInvariant, PTL
  DEF Spec, TransmitterIsFifo, Transmitter!Spec
=============================================================================
