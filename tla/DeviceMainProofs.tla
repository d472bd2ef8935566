-------------------------- MODULE DeviceMainProofs --------------------------
(***************************************************************************)
(* Theorems about DeviceMain, for counters of any width that advance by    *)
(* any step, any set of timers and a ring of any size.                     *)
(***************************************************************************)
EXTENDS DeviceMain, TLAPS

\* Numbers modulo w.

LEMMA ModSmall ==
  ASSUME NEW w \in Nat \ {0}, NEW x \in 0..(w - 1)
  PROVE  x % w = x
OBVIOUS

LEMMA ModOver ==
  ASSUME NEW w \in Nat \ {0}, NEW x \in w..(2 * w - 1)
  PROVE  x % w = x - w
OBVIOUS

LEMMA ModUnder ==
  ASSUME NEW w \in Nat \ {0}, NEW x \in (1 - w)..(-1)
  PROVE  x % w = x + w
OBVIOUS

LEMMA ModRange ==
  ASSUME NEW w \in Nat \ {0}, NEW x \in Int
  PROVE  x % w \in 0..(w - 1)
OBVIOUS

LEMMA DivMod ==
  ASSUME NEW w \in Nat \ {0}, NEW x \in Nat
  PROVE  x \div w \in Nat /\ ((x \div w) * w) + (x % w) = x
OBVIOUS

LEMMA DivBelow ==
  ASSUME NEW w \in Nat \ {0}, NEW x \in Nat, NEW k \in Nat, k % w = 0, x < k
  PROVE  x \div w <= (k \div w) - 1 /\ k \div w \in Nat
OBVIOUS

\* What has advanced by d, and then by e, has advanced by d + e.
LEMMA Advanced ==
  ASSUME NEW w \in Nat \ {0}, NEW v \in 0..(w - 1), NEW d \in 0..(w - 1), NEW e \in Nat,
         d + e < w
  PROVE  (((v + d) % w) + e) % w = (v + (d + e)) % w
<1>1. CASE v + d + e < w
  <2>1. (v + d) % w = v + d /\ (v + (d + e)) % w = v + d + e
    BY <1>1, ModSmall
  <2>2. QED
    BY <1>1, <2>1
<1>2. CASE v + d < w /\ v + d + e >= w
  <2>1. (v + d) % w = v + d
    BY <1>2, ModSmall
  <2>2. QED
    BY <2>1
<1>3. CASE v + d >= w
  <2>1. (v + d) % w = v + d - w
    BY <1>3, ModOver
  <2>2. v + d - w + e \in 0..(w - 1) /\ v + (d + e) \in w..(2 * w - 1)
    BY <1>3
  <2>3. (v + d - w + e) % w = v + d - w + e
    BY <2>2, ModSmall
  <2>4. (v + (d + e)) % w = v + (d + e) - w
    BY <2>2, ModOver
  <2>5. QED
    BY <2>1, <2>3, <2>4
<1>4. QED
  BY <1>1, <1>2, <1>3

\* The difference tells how far, across a wrap-around as well.
LEMMA Difference ==
  ASSUME NEW w \in Nat \ {0}, NEW v \in 0..(w - 1), NEW d \in 0..(w - 1)
  PROVE  (((v + d) % w) - v) % w = d
<1>1. CASE v + d < w
  <2>1. (v + d) % w = v + d
    BY <1>1, ModSmall
  <2>2. (v + d) - v = d
    OBVIOUS
  <2>3. QED
    BY <2>1, <2>2, ModSmall
<1>2. CASE v + d >= w
  <2>1. (v + d) % w = v + d - w
    BY <1>2, ModOver
  <2>2. (v + d - w) - v = d - w /\ d - w \in (1 - w)..(-1)
    BY <1>2
  <2>3. (d - w) % w = d - w + w
    BY <2>2, ModUnder
  <2>4. QED
    BY <2>1, <2>2, <2>3
<1>3. QED
  BY <1>1, <1>2
-----------------------------------------------------------------------------
\* micros is d later than v, unless d is the whole width or more.
Since(v, u, d) == d < WIDTH => u = (v + d) % WIDTH

Latched(t) == Joined(micros_latch[t])

Piece == {"low", "high"}

\* Between calls.
LatchedSince ==
  \A t \in Timers \ torn :
    pc # "hangs" /\ ~(pc = "time_latch" /\ t = timer) => Since(Latched(t), micros, age[t])

\* In mobile_impl_time_latch.
StoredSoFar ==
  /\ pc = "time_latch" => todo \subseteq Piece
  /\ pc = "time_latch" /\ timer \notin torn =>
       /\ Since(time, micros, age[timer])
       /\ \A piece \in Piece \ todo : micros_latch[timer][piece] = Split(time)[piece]

\* In mobile_impl_time_check_ms: what has been loaded is from since it began.
LoadedSoFar ==
  pc = "time_check" /\ ~overtaken /\ timer \notin torn =>
    /\ began <= age[timer]
    /\ \A piece \in Piece \ todo : latch[piece] = micros_latch[timer][piece]
    /\ "time" \notin todo /\ age[timer] < WIDTH =>
         \E d \in began..age[timer] : time = (Latched(timer) + d) % WIDTH

MainType == MainTypeOK /\ transfers \in Seq(SpiByte \X SpiByte)

MainInv == MainType /\ LatchedSince /\ StoredSoFar /\ LoadedSoFar
-----------------------------------------------------------------------------
LEMMA Constants ==
  /\ WIDTH \in Nat \ {0} /\ PIECE \in Nat \ {0} /\ TICK \in Nat \ {0}
  /\ BUF_LEN \in Nat \ {0} /\ MaxTransfers \in Nat
  /\ WIDTH % PIECE = 0
BY MainAssumption DEF MainAssumption

LEMMA SplitJoined ==
  ASSUME NEW v \in Value
  PROVE  Split(v) \in Pieces /\ Joined(Split(v)) = v
<1>1. v \in Nat /\ v < WIDTH
  BY Constants DEF Value
<1>2. v % PIECE \in 0..(PIECE - 1)
  BY <1>1, Constants, ModRange
<1>3. /\ v \div PIECE \in Nat /\ ((v \div PIECE) * PIECE) + (v % PIECE) = v
  BY <1>1, Constants, DivMod
<1>4. v \div PIECE <= (WIDTH \div PIECE) - 1 /\ WIDTH \div PIECE \in Nat
  BY <1>1, Constants, DivBelow
<1>5. v \div PIECE \in 0..(WIDTH \div PIECE - 1)
  BY <1>3, <1>4
<1>6. QED
  BY <1>2, <1>3, <1>5 DEF Split, Joined, Pieces

\* A value is determined by its pieces, and they may come from two places.
LEMMA SamePieces ==
  ASSUME NEW p \in Pieces, NEW q \in Pieces, \A piece \in Piece : p[piece] = q[piece]
  PROVE  p = q
<1>1. p.low = q.low /\ p.high = q.high
  BY DEF Piece
<1>2. QED
  BY <1>1 DEF Pieces

LEMMA JoinedValue ==
  ASSUME NEW p \in Pieces
  PROVE  Joined(p) \in Value
<1> DEFINE k == WIDTH \div PIECE
<1>1. p.low \in 0..(PIECE - 1) /\ p.high \in 0..(k - 1)
  BY DEF Pieces
<1>2. k \in Nat /\ k * PIECE = WIDTH
  <2>1. k \in Nat /\ (k * PIECE) + (WIDTH % PIECE) = WIDTH
    BY Constants, DivMod
  <2>2. QED
    BY <2>1, Constants
<1>3. ASSUME NEW a \in Nat, NEW b \in Nat, NEW n \in Nat, NEW m \in Nat \ {0}, a < m, b <= n - 1
      PROVE  (b * m) + a \in Nat /\ (b * m) + a < n * m
  <2>1. b * m \in Nat /\ n * m \in Nat
    OBVIOUS
  <2>2. (b + 1) * m <= n * m
    BY <1>3
  <2>3. (b + 1) * m = (b * m) + m
    OBVIOUS
  <2>4. QED
    BY <2>1, <2>2, <2>3, <1>3
<1>4. (p.high * PIECE) + p.low \in Nat /\ (p.high * PIECE) + p.low < k * PIECE
  BY <1>1, <1>2, <1>3, Constants
<1>5. QED
  BY <1>2, <1>4, Constants DEF Joined, Value
-----------------------------------------------------------------------------
LEMMA InitMainInv == Init => MainInv
<1> SUFFICES ASSUME Init PROVE MainInv
  OBVIOUS
<1>1. 0 \in Value /\ 0 \in SpiByte /\ 0 \in Index /\ 0 \in 0..WIDTH
  BY Constants DEF Value, SpiByte, Index
<1>2. Split(0) \in Pieces /\ Joined(Split(0)) = 0
  BY <1>1, SplitJoined
<1>3. transfers \in Seq(SpiByte \X SpiByte) /\ Len(transfers) <= MaxTransfers
  BY Constants DEF Init
<1>4. MainTypeOK
  BY <1>1, <1>2, <1>3 DEF Init, MainTypeOK, IdleByte, Step
<1>5. (0 + 0) % WIDTH = 0
  BY Constants, ModSmall
<1>6. LatchedSince
  BY <1>2, <1>5 DEF Init, LatchedSince, Since, Latched
<1>7. StoredSoFar /\ LoadedSoFar
  BY DEF Init, StoredSoFar, LoadedSoFar
<1>8. QED
  BY <1>3, <1>4, <1>6, <1>7 DEF MainInv, MainType

\* Sums modulo a constant stay in its range.
LEMMA Wrapped ==
  ASSUME NEW w \in Nat \ {0}, NEW x \in 0..(w - 1), NEW d \in Nat
  PROVE  (x + d) % w \in 0..(w - 1)
<1>1. x + d \in Int
  OBVIOUS
<1>2. QED
  BY <1>1, ModRange

LEMMA NextIndex ==
  ASSUME NEW i \in Index
  PROVE  (i + 1) % BUF_LEN \in Index
BY Constants, Wrapped DEF Index

LEMMA TimerType ==
  ASSUME MainType, TimerInterrupt
  PROVE  MainType'
<1>1. (micros + TICK) % WIDTH \in Value
  BY Constants, Wrapped DEF MainType, MainTypeOK, Value
<1>2. CASE canary /\ timer_isr /\ UNCHANGED <<pc, SPIE>>
  <2>1. micros' \in Value
    BY <1>1, <1>2 DEF timer_isr
  <2>2. age' \in [Timers -> 0..WIDTH]
    <3>1. \A t \in Timers : age[t] \in 0..WIDTH
      BY DEF MainType, MainTypeOK
    <3>2. \A t \in Timers : (IF age[t] + TICK < WIDTH THEN age[t] + TICK ELSE WIDTH) \in 0..WIDTH
      BY <3>1, Constants
    <3>3. QED
      BY <1>2, <3>2 DEF timer_isr
  <2>3. QED
    BY <1>2, <2>1, <2>2 DEF TimerInterrupt, MainType, MainTypeOK, call, ring, lines
<1>3. CASE ~canary /\ SPIE' = FALSE /\ pc' = "hangs" /\ UNCHANGED <<micros, age>>
  BY <1>3 DEF TimerInterrupt, MainType, MainTypeOK, call, ring, lines, Step
<1>4. QED
  BY <1>2, <1>3 DEF TimerInterrupt

LEMMA PutType ==
  ASSUME NEW r \in [buffer : [Index -> SpiByte], in : Index, out : Index], NEW c \in SpiByte
  PROVE  /\ PutIfRoom(r, c) \in [buffer : [Index -> SpiByte], in : Index, out : Index]
         /\ PutIfRoom(r, c).out = r.out
<1>1. (r.in + 1) % BUF_LEN \in Index
  BY NextIndex
<1>2. QED
  BY <1>1 DEF PutIfRoom, buffer_put

LEMMA SpiType ==
  ASSUME MainType, NEW latched \in SUBSET Timers, SpiInterrupt(latched)
  PROVE  MainType'
<1>1. Ring \in [buffer : [Index -> SpiByte], in : Index, out : Index]
  BY DEF Ring, MainType, MainTypeOK
<1>2. Incoming \in SpiByte /\ -Incoming \in SpiByte
  <2>1. Len(transfers) \in Nat /\ Len(transfers) < MaxTransfers
    BY DEF MainType, SpiInterrupt
  <2>2. ASSUME NEW n \in Nat, n < MaxTransfers
        PROVE  n + 1 \in (-MaxTransfers)..MaxTransfers /\ -(n + 1) \in (-MaxTransfers)..MaxTransfers
    BY <2>2, Constants
  <2>3. QED
    BY <2>1, <2>2 DEF Incoming, SpiByte
<1>3. PutBoth(Ring, Incoming) \in [buffer : [Index -> SpiByte], in : Index, out : Index]
  BY <1>1, <1>2, PutType DEF PutBoth, MainType, MainTypeOK
<1>4. buffer' \in [Index -> SpiByte] /\ buf_in' \in Index /\ buf_out' \in Index
  <2>1. buffer' = PutBoth(Ring, Incoming).buffer /\ buf_in' = PutBoth(Ring, Incoming).in
        /\ buf_out' = buf_out
    BY DEF SpiInterrupt
  <2>2. QED
    BY <1>3, <2>1 DEF MainType, MainTypeOK
<1>5. micros_latch' \in [Timers -> Pieces] /\ age' \in [Timers -> 0..WIDTH]
  BY SplitJoined, Constants DEF SpiInterrupt, MainType, MainTypeOK, timer_get
<1>6. transfers' \in Seq(SpiByte \X SpiByte) /\ Len(transfers') <= MaxTransfers
  <2>1. <<Incoming, SPDR>> \in SpiByte \X SpiByte
    BY <1>2 DEF MainType, MainTypeOK
  <2>2. transfers' = Append(transfers, <<Incoming, SPDR>>) /\ Len(transfers) < MaxTransfers
    BY DEF SpiInterrupt
  <2>3. QED
    BY <2>1, <2>2, Constants DEF MainType
<1>7. spoiled' \in BOOLEAN /\ overtaken' \in BOOLEAN /\ torn' \subseteq Timers
  BY DEF SpiInterrupt, MainType, MainTypeOK
<1>8. SPDR' \in SpiByte /\ last_SPDR' \in SpiByte
  BY <1>2 DEF SpiInterrupt
<1>9. QED
  BY <1>4, <1>5, <1>6, <1>7, <1>8 DEF SpiInterrupt, MainType, MainTypeOK, lines

LEMMA MainStepType ==
  ASSUME MainType, [Next]_vars
  PROVE  MainType'
<1> USE DEF MainType, MainTypeOK, clock, history, call, spi, ring, lines, Step
<1>1. 0 \in Value /\ Split(0) \in Pieces /\ 0 \in SpiByte /\ 0 \in 0..WIDTH
  BY SplitJoined, Constants DEF Value, SpiByte
<1>2. (buf_out + 1) % BUF_LEN \in Index
  BY NextIndex
<1>3. ASSUME NEW t \in Timers, BeginLatch(t) PROVE MainType'
  BY <1>1, <1>3 DEF BeginLatch, timer_get
<1>4. ASSUME NEW t \in Timers, NEW m \in Ms, BeginCheck(t, m) PROVE MainType'
  BY <1>4 DEF BeginCheck
<1>5. ASSUME NEW piece \in Piece, StorePiece(piece) PROVE MainType'
  <2>1. Split(time) \in Pieces
    BY SplitJoined
  <2>2. micros_latch' \in [Timers -> Pieces]
    BY <1>5, <2>1 DEF StorePiece, Pieces, Piece
  <2>3. QED
    BY <1>1, <1>5, <2>2 DEF StorePiece
<1>6. ASSUME NEW piece \in Piece, LoadPiece(piece) PROVE MainType'
  <2>1. latch' \in Pieces
    BY <1>6 DEF LoadPiece, Pieces, Piece
  <2>2. QED
    BY <1>6, <2>1 DEF LoadPiece
<1>7. ASSUME LoadTime PROVE MainType'
  BY <1>7 DEF LoadTime, timer_get
<1>8. ASSUME NEW result \in BOOLEAN, CheckReturns(result) PROVE MainType'
  BY <1>1, <1>8 DEF CheckReturns
<1>9. ASSUME SerialDisable \/ SerialEnable PROVE MainType'
  BY <1>1, <1>9 DEF SerialDisable, SerialEnable, IdleByte
<1>10. ASSUME MobileLoopReturns \/ WaitSecond \/ PrintLine PROVE MainType'
  <2>1. CASE MobileLoopReturns
    BY <2>1 DEF MobileLoopReturns
  <2>2. CASE WaitSecond
    BY <2>2 DEF WaitSecond
  <2>3. CASE PrintLine
    <3>1. printed + 1 \in Nat
      OBVIOUS
    <3>2. QED
      BY <1>1, <2>3, <3>1 DEF PrintLine
  <2>4. QED
    BY <1>10, <2>1, <2>2, <2>3
<1>11. ASSUME NEW from \in Step, NEW to \in Step, LoadByte(from, to) PROVE MainType'
  <2>1. buffer[buf_out] \in SpiByte
    OBVIOUS
  <2>2. QED
    BY <1>11, <2>1 DEF LoadByte
<1>12. ASSUME NEW from \in Step, NEW to \in Step, StoreOut(from, to) PROVE MainType'
  BY <1>2, <1>12 DEF StoreOut
<1>13. ASSUME StackGrows PROVE MainType'
  BY <1>13 DEF StackGrows
<1>14. ASSUME UNCHANGED vars PROVE MainType'
  BY <1>14 DEF vars
<1>15. QED
  BY <1>3, <1>4, <1>5, <1>6, <1>7, <1>8, <1>9, <1>10, <1>11, <1>12, <1>13, <1>14,
     TimerType, SpiType DEF Next, Main, Piece
-----------------------------------------------------------------------------
TimeInv == LatchedSince /\ StoredSoFar /\ LoadedSoFar

\* A step that neither advances the clock nor latches nor checks.
LEMMA ElsewhereTime ==
  ASSUME MainInv, UNCHANGED <<clock, history, call>>,
         \/ pc' = pc \/ pc' = "hangs"
         \/ pc \notin {"time_latch", "time_check", "hangs"} /\ pc' \notin {"time_latch", "time_check"}
  PROVE  TimeInv'
BY DEF MainInv, TimeInv, LatchedSince, StoredSoFar, LoadedSoFar, Latched, Since, clock, history, call

\* The timer interrupt makes everything older.
LEMMA TickTime ==
  ASSUME MainInv, timer_isr, UNCHANGED <<pc, micros_latch, torn, call>>
  PROVE  TimeInv'
<1>1. MainTypeOK
  BY DEF MainInv, MainType
<1>2. \A t \in Timers : /\ age[t] \in 0..WIDTH
                        /\ age'[t] = IF age[t] + TICK < WIDTH THEN age[t] + TICK ELSE WIDTH
  BY <1>1 DEF timer_isr, MainTypeOK
<1>3. ASSUME NEW v \in Value, NEW t \in Timers, Since(v, micros, age[t])
      PROVE  Since(v, micros', age'[t])
  <2> SUFFICES ASSUME age'[t] < WIDTH PROVE micros' = (v + age'[t]) % WIDTH
    BY DEF Since
  <2>1. age[t] + TICK < WIDTH /\ age'[t] = age[t] + TICK
    BY <1>2, Constants
  <2>2. age[t] < WIDTH /\ age[t] \in 0..(WIDTH - 1) /\ TICK \in Nat
    BY <1>2, <2>1, Constants
  <2>3. micros = (v + age[t]) % WIDTH
    BY <1>3, <2>2 DEF Since
  <2>4. (((v + age[t]) % WIDTH) + TICK) % WIDTH = (v + (age[t] + TICK)) % WIDTH
    <3>1. WIDTH \in Nat \ {0} /\ v \in 0..(WIDTH - 1)
      BY Constants DEF Value
    <3>2. \A d \in 0..(WIDTH - 1), e \in Nat :
            d + e < WIDTH => (((v + d) % WIDTH) + e) % WIDTH = (v + (d + e)) % WIDTH
      BY Zenon, <3>1, Advanced
    <3>3. age[t] \in 0..(WIDTH - 1) /\ age[t] + TICK < WIDTH
      BY <2>1, <2>2
    <3>4. QED
      BY Zenon, <2>2, <3>2, <3>3
  <2>5. QED
    BY <2>1, <2>3, <2>4 DEF timer_isr
<1>4. \A t \in Timers : Latched(t) \in Value
  BY <1>1, JoinedValue DEF Latched, MainTypeOK
<1>5. LatchedSince'
  <2> SUFFICES ASSUME NEW t \in Timers \ torn, pc # "hangs", ~(pc = "time_latch" /\ t = timer)
               PROVE  Since(Latched(t), micros', age'[t])
    BY DEF LatchedSince, Latched, call
  <2>1. Since(Latched(t), micros, age[t])
    BY DEF MainInv, LatchedSince
  <2>2. QED
    BY <1>3, <1>4, <2>1
<1>6. StoredSoFar'
  BY <1>1, <1>3 DEF MainInv, MainTypeOK, StoredSoFar, call
<1>7. LoadedSoFar'
  <2> SUFFICES ASSUME pc = "time_check", ~overtaken, timer \notin torn PROVE LoadedSoFar'
    BY DEF LoadedSoFar, call
  <2>1. began <= age[timer] /\ age[timer] <= age'[timer] /\ began \in Nat
    BY <1>1, <1>2, Constants DEF MainInv, LoadedSoFar, MainTypeOK
  <2>2. ASSUME "time" \notin todo, age'[timer] < WIDTH
        PROVE  \E d \in began..age'[timer] : time = (Latched(timer) + d) % WIDTH
    <3>1. age[timer] < WIDTH
      BY <1>1, <1>2, <2>1, <2>2, Constants DEF MainTypeOK
    <3>2. PICK d \in began..age[timer] : time = (Latched(timer) + d) % WIDTH
      BY <2>2, <3>1 DEF MainInv, LoadedSoFar
    <3>3. d \in began..age'[timer]
      BY <1>1, <1>2, <2>1, Constants DEF MainTypeOK
    <3>4. QED
      BY <3>2, <3>3
  <2>3. began <= age'[timer]
    BY <1>1, <1>2, <2>1, Constants DEF MainTypeOK
  <2>4. QED
    BY <2>2, <2>3 DEF MainInv, LoadedSoFar, Latched, call
<1>8. QED
  BY <1>5, <1>6, <1>7 DEF TimeInv

\* Main reads the clock: 0 has passed since.
LEMMA JustNow ==
  ASSUME micros \in Value
  PROVE  Since(micros, micros, 0)
BY Constants, ModSmall DEF Since, Value

LEMMA BeginLatchTime ==
  ASSUME MainInv, NEW t \in Timers, BeginLatch(t)
  PROVE  TimeInv'
<1>1. MainTypeOK
  BY DEF MainInv, MainType
<1>2. age'[t] = 0 /\ \A u \in Timers \ {t} : age'[u] = age[u]
  BY <1>1 DEF BeginLatch, MainTypeOK
<1>3. Since(time', micros', age'[timer'])
  BY <1>1, <1>2, JustNow DEF BeginLatch, MainTypeOK, timer_get, clock
<1>4. LatchedSince'
  BY <1>2 DEF MainInv, BeginLatch, LatchedSince, Latched, clock
<1>5. StoredSoFar'
  BY <1>3 DEF BeginLatch, StoredSoFar, Piece
<1>6. LoadedSoFar'
  BY DEF BeginLatch, LoadedSoFar
<1>7. QED
  BY <1>4, <1>5, <1>6 DEF TimeInv

LEMMA StorePieceTime ==
  ASSUME MainInv, NEW piece \in Piece, StorePiece(piece)
  PROVE  TimeInv'
<1>1. MainTypeOK
  BY DEF MainInv, MainType
<1>2. Split(time) \in Pieces /\ Joined(Split(time)) = time
  BY <1>1, SplitJoined DEF MainTypeOK
<1>3. /\ \A t \in Timers \ {timer} : micros_latch'[t] = micros_latch[t]
      /\ micros_latch'[timer] \in Pieces
      /\ micros_latch'[timer][piece] = Split(time)[piece]
      /\ \A other \in Piece \ {piece} : micros_latch'[timer][other] = micros_latch[timer][other]
  BY <1>1, <1>2 DEF StorePiece, MainTypeOK, Pieces, Piece
<1>4. timer \notin torn =>
        /\ Since(time, micros, age[timer])
        /\ \A p \in Piece \ (todo \ {piece}) : micros_latch'[timer][p] = Split(time)[p]
  BY <1>3 DEF MainInv, StoredSoFar, StorePiece
<1>5. todo \ {piece} = {} /\ timer \notin torn => micros_latch'[timer] = Split(time)
  BY <1>2, <1>3, <1>4, SamePieces
<1>6. LatchedSince'
  <2> SUFFICES ASSUME NEW t \in Timers \ torn, pc' # "hangs", ~(pc' = "time_latch" /\ t = timer)
               PROVE  Since(Latched(t)', micros, age[t])
    BY DEF LatchedSince, StorePiece, history, clock
  <2>1. CASE t # timer
    BY <1>3, <2>1 DEF MainInv, LatchedSince, Latched, StorePiece
  <2>2. CASE t = timer
    <3>1. todo \ {piece} = {}
      BY <2>2 DEF StorePiece
    <3>2. Latched(t)' = time
      BY <1>2, <1>5, <2>2, <3>1 DEF Latched
    <3>3. QED
      BY <1>4, <2>2, <3>2
  <2>3. QED
    BY <2>1, <2>2
<1>7. StoredSoFar'
  BY <1>4 DEF MainInv, StoredSoFar, StorePiece, history
<1>8. LoadedSoFar'
  BY DEF StorePiece, LoadedSoFar
<1>9. QED
  BY <1>6, <1>7, <1>8 DEF TimeInv

LEMMA BeginCheckTime ==
  ASSUME MainInv, NEW t \in Timers, NEW m \in Ms, BeginCheck(t, m)
  PROVE  TimeInv'
<1>1. began' <= age[t] /\ age' = age /\ todo' = Piece \cup {"time"} /\ timer' = t
  BY Constants DEF MainInv, MainType, MainTypeOK, BeginCheck, Piece, history
<1>2. LatchedSince'
  BY DEF MainInv, LatchedSince, Latched, BeginCheck, clock, history
<1>3. StoredSoFar' /\ LoadedSoFar'
  BY <1>1 DEF BeginCheck, StoredSoFar, LoadedSoFar
<1>4. QED
  BY <1>2, <1>3 DEF TimeInv

LEMMA LoadTimeTime ==
  ASSUME MainInv, LoadTime
  PROVE  TimeInv'
<1>1. MainTypeOK
  BY DEF MainInv, MainType
<1>2. LatchedSince' /\ StoredSoFar'
  BY DEF MainInv, LatchedSince, StoredSoFar, Latched, LoadTime, clock, history
<1>3. ASSUME timer \notin torn, ~overtaken, age[timer] < WIDTH
      PROVE  \E d \in began..age[timer] : micros = (Latched(timer) + d) % WIDTH
  <2>1. micros = (Latched(timer) + age[timer]) % WIDTH
    BY <1>1, <1>3 DEF MainInv, LatchedSince, Since, LoadTime, MainTypeOK
  <2>2. began <= age[timer] /\ age[timer] \in Nat /\ began \in Nat
    BY <1>1, <1>3, Constants DEF MainInv, LoadedSoFar, LoadTime, MainTypeOK
  <2>3. QED
    BY <2>1, <2>2
<1>4. LoadedSoFar'
  BY <1>3 DEF MainInv, LoadedSoFar, Latched, LoadTime, timer_get, clock, history, Piece
<1>5. QED
  BY <1>2, <1>4 DEF TimeInv

LEMMA LoadPieceTime ==
  ASSUME MainInv, NEW piece \in Piece, LoadPiece(piece)
  PROVE  TimeInv'
<1>1. MainTypeOK
  BY DEF MainInv, MainType
<1>2. LatchedSince' /\ StoredSoFar'
  BY DEF MainInv, LatchedSince, StoredSoFar, Latched, LoadPiece, clock, history
<1>3. /\ latch'[piece] = micros_latch[timer][piece]
      /\ \A other \in Piece \ {piece} : latch'[other] = latch[other]
  BY <1>1 DEF LoadPiece, MainTypeOK, Pieces, Piece
<1>4. LoadedSoFar'
  BY <1>3 DEF MainInv, LoadedSoFar, Latched, LoadPiece, clock, history, Piece
<1>5. QED
  BY <1>2, <1>4 DEF TimeInv

LEMMA SpiTime ==
  ASSUME MainInv, NEW latched \in SUBSET Timers, SpiInterrupt(latched)
  PROVE  TimeInv'
<1>1. MainTypeOK
  BY DEF MainInv, MainType
<1>2. \A t \in latched : Latched(t)' = micros /\ age'[t] = 0
  BY <1>1, SplitJoined DEF SpiInterrupt, Latched, timer_get, MainTypeOK
<1>3. \A t \in Timers \ latched : micros_latch'[t] = micros_latch[t] /\ age'[t] = age[t]
  BY DEF SpiInterrupt
<1>4. /\ micros' = micros /\ pc' = pc /\ timer' = timer /\ todo' = todo
      /\ time' = time /\ latch' = latch /\ began' = began
  BY DEF SpiInterrupt
<1>5. LatchedSince'
  <2> SUFFICES ASSUME NEW t \in Timers, t \notin torn', pc # "hangs",
                      ~(pc = "time_latch" /\ t = timer)
               PROVE  Since(Latched(t)', micros, age'[t])
    BY <1>4 DEF LatchedSince
  <2>1. CASE t \in latched
    BY <1>1, <1>2, <2>1, JustNow DEF MainTypeOK
  <2>2. CASE t \notin latched
    <3>1. t \notin torn
      BY <2>2 DEF SpiInterrupt
    <3>2. QED
      BY <1>3, <2>2, <3>1 DEF MainInv, LatchedSince, Latched
  <2>3. QED
    BY <2>1, <2>2
<1>6. StoredSoFar'
  <2>1. pc = "time_latch" /\ timer \notin torn' => timer \notin latched /\ timer \notin torn
    BY <1>1 DEF SpiInterrupt, MainTypeOK
  <2>2. QED
    BY <1>1, <1>3, <1>4, <2>1 DEF MainInv, StoredSoFar, MainTypeOK
<1>7. LoadedSoFar'
  <2>1. pc = "time_check" /\ timer \notin torn' /\ ~overtaken' =>
          timer \notin latched /\ timer \notin torn /\ ~overtaken
    BY DEF SpiInterrupt
  <2>2. QED
    BY <1>1, <1>3, <1>4, <2>1 DEF MainInv, LoadedSoFar, Latched, MainTypeOK
<1>8. QED
  BY <1>5, <1>6, <1>7 DEF TimeInv

LEMMA CheckReturnsTime ==
  ASSUME MainInv, NEW result \in BOOLEAN, CheckReturns(result)
  PROVE  TimeInv'
BY DEF MainInv, TimeInv, LatchedSince, StoredSoFar, LoadedSoFar, Latched, CheckReturns, clock,
       history

LEMMA MainStepTime ==
  ASSUME MainInv, [Next]_vars
  PROVE  TimeInv'
<1>1. ASSUME TimerInterrupt PROVE TimeInv'
  <2>1. CASE canary /\ timer_isr /\ UNCHANGED <<pc, SPIE>>
    BY <1>1, <2>1, TickTime DEF TimerInterrupt
  <2>2. CASE ~canary /\ SPIE' = FALSE /\ pc' = "hangs" /\ UNCHANGED <<micros, age>>
    BY <1>1, <2>2, ElsewhereTime DEF TimerInterrupt, clock, history
  <2>3. QED
    BY <1>1, <2>1, <2>2 DEF TimerInterrupt
<1>2. ASSUME \/ SerialDisable \/ SerialEnable \/ StackGrows \/ UNCHANGED vars
             \/ MobileLoopReturns \/ WaitSecond \/ PrintLine
             \/ LoadByte("first", "first_out") \/ StoreOut("first_out", "wait_second")
             \/ LoadByte("second", "second_out") \/ StoreOut("second_out", "print")
      PROVE  TimeInv'
  BY <1>2, ElsewhereTime DEF SerialDisable, SerialEnable, StackGrows, vars, MobileLoopReturns,
     WaitSecond, PrintLine, LoadByte, StoreOut
<1>3. QED
  BY <1>1, <1>2, BeginLatchTime, BeginCheckTime, StorePieceTime, LoadPieceTime, LoadTimeTime,
     CheckReturnsTime, SpiTime DEF Next, Main, Piece

\* The inductive invariant: while main latches or checks a timer, what it has
\* stored or loaded so far belongs together.
LEMMA MainInvariant == Spec => []MainInv
<1>1. Init => MainInv
  BY InitMainInv
<1>2. MainInv /\ [Next]_vars => MainInv'
  BY MainStepType, MainStepTime DEF MainInv, TimeInv
<1>3. QED
  BY <1>1, <1>2, PTL DEF Spec

\* The state has its type, however long the clock runs.
THEOREM MainTypeCorrect == Spec => []MainTypeOK
<1>1. MainInv => MainTypeOK
  BY DEF MainInv, MainType
<1>2. QED
  BY <1>1, MainInvariant, PTL

\* Timers are over in time, to the tick, across every wrap-around of micros.
THEOREM CheckedInTimeHolds == Spec => CheckedInTime
<1> DEFINE A == pc = "time_check" /\ pc' = "mobile_loop" /\ ~overtaken /\ timer \notin torn =>
                  /\ CheckReturns(TRUE) => age[timer] > ms
                  /\ CheckReturns(FALSE) => began <= ms \/ age[timer] = WIDTH
<1>1. MainInv => [A]_vars
  <2> SUFFICES ASSUME MainInv, pc = "time_check", ~overtaken, timer \notin torn, todo = {}
               PROVE  /\ Expired => age[timer] > ms
                      /\ ~Expired => began <= ms \/ age[timer] = WIDTH
    BY DEF CheckReturns
  <2>1. MainTypeOK /\ age[timer] \in 0..WIDTH /\ ms \in 0..(WIDTH - 1) /\ began \in 0..WIDTH
    BY MainAssumption DEF MainInv, MainType, MainTypeOK, MainAssumption
  <2>2. CASE age[timer] = WIDTH
    BY <2>1, <2>2, Constants
  <2>3. CASE age[timer] < WIDTH
    <3>1. PICK d \in began..age[timer] : time = (Latched(timer) + d) % WIDTH
      BY <2>3 DEF MainInv, LoadedSoFar
    <3>2. latch = micros_latch[timer]
      BY <2>1, SamePieces DEF MainInv, LoadedSoFar, MainTypeOK
    <3>3. Latched(timer) \in 0..(WIDTH - 1)
      BY <2>1, JoinedValue DEF Latched, MainTypeOK, Value
    <3>4. d \in 0..(WIDTH - 1)
      BY <2>1, <2>3, Constants
    <3>5. (time - Joined(latch)) % WIDTH = d
      BY <3>1, <3>2, <3>3, <3>4, Difference, Constants DEF Latched
    <3>6. QED
      BY <2>1, <3>4, <3>5 DEF Expired
  <2>4. QED
    BY <2>1, <2>2, <2>3, Constants
<1>2. QED
  BY <1>1, MainInvariant, PTL DEF Spec, CheckedInTime
-----------------------------------------------------------------------------
(***************************************************************************)
(* Theorems about the ring of the DEBUG_SPI build (DeviceMain), for a ring *)
(* of any size and any number of transfers: as long as it was never full   *)
(* and SPI was not enabled again, what main prints are the transfers.      *)
(***************************************************************************)
\* x is r, and some turns of w.
Turns(x, r, w) == \E q \in Int : x = (q * w) + r

LEMMA Multiple ==
  ASSUME NEW w \in Nat \ {0}, NEW a \in Int, NEW b \in Int, a > b
  PROVE  (a * w) - (b * w) >= w
<1>1. (a - b) * w >= w
  <2>1. ASSUME NEW c \in Nat \ {0} PROVE c * w >= w
    OBVIOUS
  <2>2. a - b \in Nat \ {0}
    OBVIOUS
  <2>3. QED
    BY <2>1, <2>2
<1>2. (a - b) * w = (a * w) - (b * w)
  OBVIOUS
<1>3. QED
  BY <1>1, <1>2

LEMMA Division ==
  ASSUME NEW w \in Nat \ {0}, NEW x \in Nat
  PROVE  \E q \in Nat : \E r \in 0..(w - 1) : x = (q * w) + r /\ x % w = r
<1>1. x \div w \in Nat /\ x = ((x \div w) * w) + (x % w)
  BY DivMod
<1>2. x % w \in 0..(w - 1)
  OBVIOUS
<1>3. QED
  BY <1>1, <1>2, Zenon

LEMMA ModUnique ==
  ASSUME NEW w \in Nat \ {0}, NEW r \in 0..(w - 1), NEW x \in Nat, Turns(x, r, w)
  PROVE  x % w = r
<1>1. PICK q \in Int : x = (q * w) + r
  BY DEF Turns
<1>2. PICK p \in Nat : \E s \in 0..(w - 1) : x = (p * w) + s /\ x % w = s
  BY Division, Zenon
<1>3. PICK s \in 0..(w - 1) : x = (p * w) + s /\ x % w = s
  BY <1>2, Zenon
<1>4. p * w \in Int /\ q * w \in Int
  OBVIOUS
<1>5. x = (p * w) + s
  BY <1>3, Zenon
<1>6. p = q
  <2>1. CASE p > q
    <3>1. (p * w) - (q * w) >= w
      BY <2>1, Multiple
    <3>2. QED
      BY <1>1, <1>4, <1>5, <3>1
  <2>2. CASE q > p
    <3>1. (q * w) - (p * w) >= w
      BY <2>2, Multiple
    <3>2. QED
      BY <1>1, <1>4, <1>5, <3>1
  <2>3. QED
    BY <2>1, <2>2
<1>7. s = r
  BY <1>1, <1>4, <1>5, <1>6
<1>8. QED
  BY <1>3, <1>7, Zenon

LEMMA ModAdd ==
  ASSUME NEW w \in Nat \ {0}, NEW x \in Nat
  PROVE  ((x % w) + 1) % w = (x + 1) % w
<1>1. PICK q \in Nat : \E r \in 0..(w - 1) : x = (q * w) + r /\ x % w = r
  BY Division, Zenon
<1>2. PICK r \in 0..(w - 1) : x = (q * w) + r /\ x % w = r
  BY <1>1, Zenon
<1>3. x = (q * w) + r
  BY <1>2, Zenon
<1>4. CASE r + 1 < w
  <2>1. r + 1 \in 0..(w - 1)
    BY <1>4
  <2>2. Turns(x + 1, r + 1, w)
    BY <1>3 DEF Turns
  <2>3. (x + 1) % w = r + 1
    BY <2>1, <2>2, ModUnique
  <2>4. (r + 1) % w = r + 1
    BY <2>1, ModSmall
  <2>5. QED
    BY <1>2, <2>3, <2>4, Zenon
<1>5. CASE r + 1 = w
  <2>1. Turns(x + 1, 0, w)
    <3>1. x + 1 = ((q + 1) * w) + 0 /\ q + 1 \in Int
      BY <1>3, <1>5
    <3>2. QED
      BY <3>1 DEF Turns
  <2>2. (x + 1) % w = 0
    BY <2>1, ModUnique
  <2>3. w % w = 0
    OBVIOUS
  <2>4. QED
    BY <1>2, <1>5, <2>2, <2>3, Zenon
<1>6. QED
  BY <1>4, <1>5

\* Places that are less than a turn apart are different.
LEMMA ModDistinct ==
  ASSUME NEW w \in Nat \ {0}, NEW x \in Nat, NEW y \in Nat, x < y, y - x < w
  PROVE  x % w # y % w
<1>1. PICK q \in Nat : \E r \in 0..(w - 1) : x = (q * w) + r /\ x % w = r
  BY Division, Zenon
<1>2. PICK r \in 0..(w - 1) : x = (q * w) + r /\ x % w = r
  BY <1>1, Zenon
<1>3. PICK p \in Nat : \E s \in 0..(w - 1) : y = (p * w) + s /\ y % w = s
  BY Division, Zenon
<1>4. PICK s \in 0..(w - 1) : y = (p * w) + s /\ y % w = s
  BY <1>3, Zenon
<1>5. x = (q * w) + r /\ y = (p * w) + s /\ (x % w = y % w => r = s)
  BY <1>2, <1>4, Zenon
<1>6. r # s
  <2> SUFFICES ASSUME r = s PROVE FALSE
    OBVIOUS
  <2>1. p * w \in Int /\ q * w \in Int
    OBVIOUS
  <2>2. (p * w) - (q * w) = y - x
    BY <1>5, <2>1
  <2>3. CASE p > q
    <3>1. (p * w) - (q * w) >= w
      BY <2>3, Multiple
    <3>2. QED
      BY <2>2, <3>1
  <2>4. CASE q > p
    <3>1. (q * w) - (p * w) >= w
      BY <2>4, Multiple
    <3>2. QED
      BY <2>1, <2>2, <3>1
  <2>5. CASE p = q
    BY <2>1, <2>2, <2>5
  <2>6. QED
    BY <2>3, <2>4, <2>5
<1>7. QED
  BY <1>5, <1>6, Zenon

\* A whole turn later it is the same place.
LEMMA ModTurn ==
  ASSUME NEW w \in Nat \ {0}, NEW x \in Nat
  PROVE  (x + w) % w = x % w
<1>1. PICK q \in Nat : \E r \in 0..(w - 1) : x = (q * w) + r /\ x % w = r
  BY Division, Zenon
<1>2. PICK r \in 0..(w - 1) : x = (q * w) + r /\ x % w = r
  BY <1>1, Zenon
<1>3. x = (q * w) + r
  BY <1>2, Zenon
<1>4. Turns(x + w, r, w)
  <2>1. x + w = ((q + 1) * w) + r /\ q + 1 \in Int
    BY <1>3
  <2>2. QED
    BY <2>1 DEF Turns
<1>5. (x + w) % w = r
  BY <1>4, ModUnique
<1>6. QED
  BY <1>2, <1>5, Zenon
-----------------------------------------------------------------------------
\* The ring: two bytes were put into it for each transfer, and Gets taken out.

Sent == Len(transfers)

Taken ==
  CASE pc \in {"wait_second", "second", "second_out"} -> 1
    [] pc = "print" -> 2
    [] OTHER -> 0

Gets == 2 * printed + Taken

Indices == buf_in = (2 * Sent) % BUF_LEN /\ buf_out = Gets % BUF_LEN

Occupied ==
  /\ Gets <= 2 * Sent /\ 2 * Sent - Gets < BUF_LEN
  /\ pc \in {"first", "first_out"} => Gets < 2 * Sent

\* What was put into the ring and not taken out is still there.
Held ==
  \A n \in 1..Sent :
    /\ Gets <= 2 * n - 2 => buffer[(2 * n - 2) % BUF_LEN] = transfers[n][1]
    /\ Gets <= 2 * n - 1 => buffer[(2 * n - 1) % BUF_LEN] = transfers[n][2]

\* What main has taken out belongs to the transfer whose turn it is.
InHand ==
  /\ pc \in {"first_out", "wait_second", "second", "second_out", "print"} =>
       first = transfers[printed + 1][1]
  /\ pc \in {"second_out", "print"} => second = transfers[printed + 1][2]

Orderly == last_SPDR = SPDR /\ Indices /\ Occupied /\ Held /\ InHand

RingInv == pc # "hangs" /\ ~spoiled => Orderly

LEMMA Numbers ==
  ASSUME MainType
  PROVE  /\ Sent \in Nat /\ printed \in Nat /\ Taken \in 0..2 /\ Gets \in Nat
         /\ BUF_LEN \in Nat \ {0} /\ BUF_LEN >= 2
<1>1. Sent \in Nat /\ printed \in Nat
  BY DEF MainType, MainTypeOK, Sent
<1>2. Taken \in 0..2
  BY DEF Taken
<1>3. Gets \in Nat
  BY <1>1, <1>2 DEF Gets
<1>4. QED
  BY <1>1, <1>2, <1>3, MainAssumption DEF MainAssumption

LEMMA InitRing == Init => RingInv
<1> SUFFICES ASSUME Init PROVE Orderly
  BY DEF RingInv
<1>1. Sent = 0 /\ Gets = 0
  BY DEF Init, Sent, Gets, Taken
<1>2. BUF_LEN \in Nat \ {0} /\ 0 % BUF_LEN = 0
  <2>1. BUF_LEN \in Nat \ {0}
    BY MainAssumption DEF MainAssumption
  <2>2. QED
    BY <2>1, ModSmall
<1>3. last_SPDR = SPDR /\ buf_in = 0 /\ buf_out = 0 /\ pc = "mobile_loop"
  BY DEF Init
<1>4. QED
  BY <1>1, <1>2, <1>3 DEF Orderly, Indices, Occupied, Held, InHand

\* A step that neither fills nor empties the ring.
LEMMA ElsewhereRing ==
  ASSUME MainType, RingInv, UNCHANGED <<ring, lines, SPDR, last_SPDR, transfers, spoiled>>,
         \/ pc' = pc \/ pc' = "hangs"
         \/ {pc, pc'} \subseteq {"mobile_loop", "time_latch", "time_check"}
  PROVE  RingInv'
<1> SUFFICES ASSUME pc' # "hangs", ~spoiled' PROVE Orderly'
  BY DEF RingInv
<1>1. Orderly
  BY DEF RingInv
<1>2. Sent' = Sent /\ Taken' = Taken /\ Gets' = Gets
  BY DEF Sent, Taken, Gets, lines
<1>3. Indices' /\ Occupied'
  BY <1>1, <1>2 DEF Orderly, Indices, Occupied, ring
<1>4. Held'
  BY <1>1, <1>2 DEF Orderly, Held, ring
<1>5. InHand'
  BY <1>1 DEF Orderly, InHand, lines
<1>6. QED
  BY <1>1, <1>3, <1>4, <1>5 DEF Orderly

\* There is something in the ring when its indices differ.
LEMMA NotEmpty ==
  ASSUME MainType, Indices, Occupied
  PROVE  ~buffer_isempty <=> Gets < 2 * Sent
<1>1. CASE Gets = 2 * Sent
  BY <1>1, Numbers DEF Indices, buffer_isempty
<1>2. CASE Gets < 2 * Sent
  <2>1. Gets % BUF_LEN # (2 * Sent) % BUF_LEN
    <3> SUFFICES ASSUME NEW s \in Nat, s = 2 * Sent PROVE Gets % BUF_LEN # s % BUF_LEN
      BY Numbers
    <3>1. Gets < s /\ s - Gets < BUF_LEN
      BY <1>2 DEF Occupied
    <3>2. QED
      BY <3>1, Numbers, ModDistinct
  <2>2. QED
    BY <1>2, <2>1 DEF Indices, buffer_isempty
<1>3. QED
  BY <1>1, <1>2, Numbers DEF Occupied

\* Main waits for the second byte only where it is there.
LEMMA PairComplete ==
  ASSUME MainType, Occupied,
         pc \in {"first", "first_out", "wait_second", "second", "second_out", "print"}
  PROVE  /\ printed + 1 \in 1..Sent
         /\ pc # "print" => Gets < 2 * Sent
<1> DEFINE s == Sent
           p == printed
<1>1. s \in Nat /\ p \in Nat
  BY Numbers
<1>2. CASE pc \in {"first", "first_out"}
  <2>1. Taken = 0 /\ 2 * p + 0 < 2 * s
    BY <1>1, <1>2 DEF Taken, Occupied, Gets
  <2>2. QED
    BY <1>1, <1>2, <2>1 DEF Gets
<1>3. CASE pc \in {"wait_second", "second", "second_out"}
  <2>1. Taken = 1 /\ 2 * p + 1 <= 2 * s
    BY <1>1, <1>3 DEF Taken, Occupied, Gets
  <2>2. QED
    BY <1>1, <1>3, <2>1 DEF Gets
<1>4. CASE pc = "print"
  <2>1. Taken = 2 /\ 2 * p + 2 <= 2 * s
    BY <1>1, <1>4 DEF Taken, Occupied, Gets
  <2>2. QED
    BY <1>1, <1>4, <2>1 DEF Gets
<1>5. QED
  BY <1>2, <1>3, <1>4
-----------------------------------------------------------------------------
\* Main's steps.

LEMMA LoopRing ==
  ASSUME MainType, RingInv, MobileLoopReturns \/ WaitSecond \/ SerialEnable
  PROVE  RingInv'
<1> SUFFICES ASSUME pc' # "hangs", ~spoiled' PROVE Orderly'
  BY DEF RingInv
<1>1. /\ pc # "hangs" /\ ~spoiled
      /\ UNCHANGED <<ring, lines, transfers, last_SPDR>>
  <2>1. CASE MobileLoopReturns \/ WaitSecond
    BY <2>1 DEF MobileLoopReturns, WaitSecond, spi
  <2>2. CASE SerialEnable
    <3>1. pc # "hangs" /\ UNCHANGED <<ring, lines, transfers, last_SPDR>>
      BY <2>2 DEF SerialEnable
    <3>2. ~spoiled
      BY <2>2, Zenon DEF SerialEnable
    <3>3. QED
      BY <3>1, <3>2
  <2>3. QED
    BY <2>1, <2>2
<1>2. Orderly
  BY <1>1 DEF RingInv
<1>3. Sent' = Sent /\ Taken' = Taken /\ Gets' = Gets
  <2>1. Taken' = Taken
    BY DEF MobileLoopReturns, WaitSecond, SerialEnable, Taken
  <2>2. QED
    BY <1>1, <2>1 DEF Sent, Gets, lines
<1>4. Indices' /\ Held'
  BY <1>1, <1>2, <1>3 DEF Orderly, Indices, Held, ring
<1>5. last_SPDR' = SPDR'
  BY <1>1, <1>2 DEF Orderly, MobileLoopReturns, WaitSecond, SerialEnable, spi
<1>6. InHand'
  BY <1>1, <1>2 DEF Orderly, InHand, MobileLoopReturns, WaitSecond, SerialEnable, lines
<1>7. Occupied'
  <2>1. CASE MobileLoopReturns
    <3>1. Gets < 2 * Sent
      BY <1>2, <2>1, NotEmpty DEF Orderly, MobileLoopReturns
    <3>2. QED
      BY <1>2, <1>3, <3>1 DEF Orderly, Occupied
  <2>2. CASE WaitSecond \/ SerialEnable
    <3>1. pc' \notin {"first", "first_out"}
      BY <2>2 DEF WaitSecond, SerialEnable
    <3>2. QED
      BY <1>2, <1>3, <3>1 DEF Orderly, Occupied
  <2>3. QED
    BY <2>1, <2>2
<1>8. QED
  BY <1>4, <1>5, <1>6, <1>7 DEF Orderly

\* The byte that buffer_get loads is the one whose turn it is.
LEMMA LoadRing ==
  ASSUME MainType, RingInv, LoadByte("first", "first_out") \/ LoadByte("second", "second_out")
  PROVE  RingInv'
<1> SUFFICES ASSUME pc' # "hangs", ~spoiled' PROVE Orderly'
  BY DEF RingInv
<1>1. /\ pc \in {"first", "second"} /\ ~spoiled
      /\ pc' = IF pc = "first" THEN "first_out" ELSE "second_out"
      /\ UNCHANGED <<ring, printed, transfers, last_SPDR, SPDR>>
  BY DEF LoadByte, spi
<1>2. Orderly
  BY <1>1 DEF RingInv
<1>3. Sent' = Sent /\ Taken' = Taken /\ Gets' = Gets
  BY <1>1 DEF Sent, Taken, Gets
<1>4. last_SPDR' = SPDR' /\ Indices' /\ Occupied' /\ Held'
  BY <1>1, <1>2, <1>3 DEF Orderly, Indices, Occupied, Held, ring
<1>5. printed + 1 \in 1..Sent /\ Gets < 2 * Sent
  BY <1>1, <1>2, PairComplete DEF Orderly
<1>6. CASE pc = "first"
  <2>1. Gets = 2 * (printed + 1) - 2
    BY <1>6, Numbers DEF Gets, Taken
  <2>2. buffer[buf_out] = transfers[printed + 1][1]
    BY <1>2, <1>5, <2>1, Numbers DEF Orderly, Held, Indices
  <2>3. first' = buffer[buf_out] /\ pc' = "first_out"
    BY <1>1, <1>6 DEF LoadByte
  <2>4. InHand'
    BY <1>1, <2>2, <2>3 DEF InHand
  <2>5. QED
    BY <1>4, <2>4 DEF Orderly
<1>7. CASE pc = "second"
  <2>1. Gets = 2 * (printed + 1) - 1
    BY <1>7, Numbers DEF Gets, Taken
  <2>2. buffer[buf_out] = transfers[printed + 1][2]
    BY <1>2, <1>5, <2>1, Numbers DEF Orderly, Held, Indices
  <2>3. second' = buffer[buf_out] /\ first' = first /\ pc' = "second_out"
    BY <1>1, <1>7 DEF LoadByte
  <2>4. first = transfers[printed + 1][1]
    BY <1>2, <1>7 DEF Orderly, InHand
  <2>5. InHand'
    BY <1>1, <2>2, <2>3, <2>4 DEF InHand
  <2>6. QED
    BY <1>4, <2>5 DEF Orderly
<1>8. QED
  BY <1>1, <1>6, <1>7

\* What stays in the ring is held, whatever was taken out of it.
LEMMA HeldAfterGet ==
  ASSUME MainType, Held, UNCHANGED <<buffer, transfers>>, Gets' \in Nat, Gets' >= Gets
  PROVE  Held'
<1>1. Sent' = Sent /\ Sent \in Nat /\ Gets \in Nat
  BY Numbers DEF Sent
<1>2. ASSUME NEW n \in 1..Sent, NEW k \in Nat, Gets' <= k PROVE Gets <= k
  BY <1>1, <1>2
<1>3. ASSUME NEW n \in 1..Sent
      PROVE  /\ Gets' <= 2 * n - 2 => buffer[(2 * n - 2) % BUF_LEN] = transfers[n][1]
             /\ Gets' <= 2 * n - 1 => buffer[(2 * n - 1) % BUF_LEN] = transfers[n][2]
  <2>1. 2 * n - 2 \in Nat /\ 2 * n - 1 \in Nat
    BY <1>1
  <2>2. QED
    BY <1>1, <1>2, <2>1 DEF Held
<1>4. QED
  BY <1>1, <1>3 DEF Held

LEMMA StoreRing ==
  ASSUME MainType, RingInv,
         StoreOut("first_out", "wait_second") \/ StoreOut("second_out", "print")
  PROVE  RingInv'
<1> SUFFICES ASSUME pc' # "hangs", ~spoiled' PROVE Orderly'
  BY DEF RingInv
<1>1. /\ pc \in {"first_out", "second_out"} /\ ~spoiled
      /\ pc' = IF pc = "first_out" THEN "wait_second" ELSE "print"
      /\ UNCHANGED <<buffer, buf_in, printed, first, second, transfers, last_SPDR, SPDR>>
      /\ buf_out' = (buf_out + 1) % BUF_LEN
  BY DEF StoreOut, spi, lines
<1>2. Orderly
  BY <1>1 DEF RingInv
<1>3. Sent' = Sent /\ Taken' = Taken + 1
  BY <1>1 DEF Sent, Taken
<1>4. Gets' = Gets + 1
  BY <1>1, <1>3, Numbers DEF Gets
<1>5. printed + 1 \in 1..Sent /\ Gets < 2 * Sent
  BY <1>1, <1>2, PairComplete DEF Orderly
<1>6. Indices'
  <2>1. ((Gets % BUF_LEN) + 1) % BUF_LEN = (Gets + 1) % BUF_LEN
    BY Numbers, ModAdd
  <2>2. QED
    BY <1>1, <1>2, <1>3, <1>4, <2>1 DEF Orderly, Indices
<1>7. Occupied'
  <2>1. Gets' <= 2 * Sent' /\ 2 * Sent' - Gets' < BUF_LEN
    BY <1>2, <1>3, <1>4, <1>5, Numbers DEF Orderly, Occupied
  <2>2. QED
    BY <1>1, <2>1 DEF Occupied
<1>8. Held'
  BY <1>1, <1>2, <1>4, Numbers, HeldAfterGet DEF Orderly
<1>9. InHand'
  BY <1>1, <1>2 DEF Orderly, InHand
<1>10. QED
  BY <1>1, <1>2, <1>6, <1>7, <1>8, <1>9 DEF Orderly

LEMMA PrintRing ==
  ASSUME MainType, RingInv, PrintLine
  PROVE  RingInv'
<1> SUFFICES ASSUME pc' # "hangs", ~spoiled' PROVE Orderly'
  BY DEF RingInv
<1>1. /\ pc = "print" /\ pc' = "mobile_loop" /\ ~spoiled /\ printed' = printed + 1
      /\ UNCHANGED <<ring, transfers, last_SPDR, SPDR>>
  BY DEF PrintLine, spi
<1>2. Orderly
  BY <1>1 DEF RingInv
<1>3. Sent' = Sent /\ Gets' = Gets
  <2>1. Taken = 2 /\ Taken' = 0
    BY <1>1 DEF Taken
  <2>2. QED
    BY <1>1, <2>1, Numbers DEF Sent, Gets
<1>4. Indices' /\ Occupied' /\ Held' /\ InHand'
  BY <1>1, <1>2, <1>3 DEF Orderly, Indices, Occupied, Held, InHand, ring
<1>5. QED
  BY <1>1, <1>2, <1>4 DEF Orderly
-----------------------------------------------------------------------------
\* The interrupt finds room for both bytes, or what follows is spoiled.

\* Two puts in a row, at places s and s + 1.
LEMMA PutsTwo ==
  ASSUME MainType, NEW s \in Nat, buf_in = s % BUF_LEN, NEW c \in SpiByte,
         ~buffer_isfull(Ring), ~buffer_isfull(PutIfRoom(Ring, c))
  PROVE  /\ PutBoth(Ring, c).in = (s + 2) % BUF_LEN
         /\ PutBoth(Ring, c).buffer =
              [buffer EXCEPT ![s % BUF_LEN] = c, ![(s + 1) % BUF_LEN] = last_SPDR]
         /\ (s + 1) % BUF_LEN # buf_out /\ (s + 2) % BUF_LEN # buf_out
<1>1. BUF_LEN \in Nat \ {0}
  BY Numbers
<1>2. (buf_in + 1) % BUF_LEN = (s + 1) % BUF_LEN
  BY <1>1, ModAdd
<1>3. (((s + 1) % BUF_LEN) + 1) % BUF_LEN = (s + 2) % BUF_LEN
  <2> SUFFICES ASSUME NEW t \in Nat, t = s + 1
               PROVE  ((t % BUF_LEN) + 1) % BUF_LEN = (t + 1) % BUF_LEN
    OBVIOUS
  <2>1. QED
    BY <1>1, ModAdd
<1> DEFINE r == PutIfRoom(Ring, c)
<1>4. /\ r.in = (s + 1) % BUF_LEN /\ r.out = buf_out
      /\ r.buffer = [buffer EXCEPT ![s % BUF_LEN] = c]
      /\ r \in [buffer : [Index -> SpiByte], in : Index, out : Index]
  <2>1. r = buffer_put(Ring, c)
    BY DEF PutIfRoom
  <2>2. Ring \in [buffer : [Index -> SpiByte], in : Index, out : Index]
    BY DEF Ring, MainType, MainTypeOK
  <2>3. r \in [buffer : [Index -> SpiByte], in : Index, out : Index] /\ r.out = Ring.out
    BY <2>2, PutType
  <2>4. r.in = (Ring.in + 1) % BUF_LEN /\ r.buffer = [Ring.buffer EXCEPT ![Ring.in] = c]
    BY <2>1, <2>2 DEF buffer_put
  <2>5. Ring.in = s % BUF_LEN /\ Ring.buffer = buffer /\ Ring.out = buf_out
    BY DEF Ring
  <2>6. (Ring.in + 1) % BUF_LEN = (s + 1) % BUF_LEN
    BY <1>2, <2>5
  <2>7. QED
    BY <2>3, <2>4, <2>5, <2>6
<1>5. PutBoth(Ring, c) = buffer_put(r, last_SPDR)
  BY DEF PutBoth, PutIfRoom
<1> HIDE DEF r
<1>6. (s + 1) % BUF_LEN # buf_out
  BY <1>2 DEF buffer_isfull, Ring
<1>7. (s + 2) % BUF_LEN # buf_out
  <2>1. ~buffer_isfull(r)
    BY DEF r
  <2>2. (r.in + 1) % BUF_LEN # r.out
    BY <2>1 DEF buffer_isfull
  <2>3. QED
    BY <1>3, <1>4, <2>2
<1>8. /\ buffer_put(r, last_SPDR).in = (r.in + 1) % BUF_LEN
      /\ buffer_put(r, last_SPDR).buffer = [r.buffer EXCEPT ![r.in] = last_SPDR]
  BY <1>4 DEF buffer_put
<1>9. QED
  BY <1>3, <1>4, <1>5, <1>6, <1>7, <1>8

LEMMA SpiRing ==
  ASSUME MainType, RingInv, NEW latched \in SUBSET Timers, SpiInterrupt(latched)
  PROVE  RingInv'
<1> SUFFICES ASSUME pc' # "hangs", ~spoiled' PROVE Orderly'
  BY DEF RingInv
<1>1. ~spoiled /\ ~buffer_isfull(Ring) /\ ~buffer_isfull(PutIfRoom(Ring, Incoming))
  BY Zenon DEF SpiInterrupt
<1>2. /\ pc' = pc /\ pc # "hangs" /\ UNCHANGED <<buf_out, printed, first, second>>
      /\ transfers' = Append(transfers, <<Incoming, SPDR>>)
      /\ SPDR' = last_SPDR'
      /\ buffer' = PutBoth(Ring, Incoming).buffer /\ buf_in' = PutBoth(Ring, Incoming).in
  BY DEF SpiInterrupt, lines
<1>3. Orderly
  BY <1>1, <1>2 DEF RingInv
<1> DEFINE s == 2 * Sent
           w == BUF_LEN
<1>4. s \in Nat /\ w \in Nat \ {0} /\ w >= 2 /\ Gets \in Nat /\ Gets <= s /\ s - Gets < w
  BY <1>3, Numbers DEF Orderly, Occupied
<1>5. Sent' = Sent + 1 /\ 2 * Sent' = s + 2 /\ Gets' = Gets
  <2>1. Taken' = Taken
    BY <1>2 DEF Taken
  <2>2. Sent' = Sent + 1
    BY <1>2 DEF Sent, MainType
  <2>3. QED
    BY <1>2, <2>1, <2>2, Numbers DEF Gets
<1>5a. Incoming \in SpiByte
  <2>1. Len(transfers) \in Nat /\ Len(transfers) < MaxTransfers
    BY DEF MainType, SpiInterrupt
  <2>2. QED
    BY <2>1, Constants DEF Incoming, SpiByte
<1>6. /\ buf_in' = (s + 2) % w
      /\ buffer' = [buffer EXCEPT ![s % w] = Incoming, ![(s + 1) % w] = last_SPDR]
      /\ (s + 1) % w # buf_out /\ (s + 2) % w # buf_out
  BY <1>1, <1>2, <1>3, <1>4, <1>5a, PutsTwo DEF Orderly, Indices
<1>7. buf_out = Gets % w
  BY <1>3 DEF Orderly, Indices
<1>8. \A n \in 1..Sent : transfers'[n] = transfers[n]
  BY <1>2 DEF MainType, Sent
<1>9. transfers'[Sent + 1] = <<Incoming, SPDR>>
  BY <1>2 DEF MainType, Sent
<1> HIDE DEF s, w
<1>10. s + 2 - Gets < w
  <2>1. (Gets + w) % w = Gets % w
    BY <1>4, ModTurn
  <2>2. s + 1 # Gets + w /\ s + 2 # Gets + w
    BY <1>6, <1>7, <2>1
  <2>3. QED
    BY <1>4, <2>2
<1>11. Indices'
  BY <1>2, <1>5, <1>6, <1>7 DEF Indices, w
<1>12. Occupied'
  <2>1. 2 * Sent' - Gets' < w /\ Gets' <= 2 * Sent'
    BY <1>4, <1>5, <1>10
  <2>2. Gets' < 2 * Sent'
    BY <1>4, <1>5
  <2>3. QED
    BY <2>1, <2>2 DEF Occupied, w
<1>13. s % w \in Index /\ (s + 1) % w \in Index /\ s % w # (s + 1) % w
  <2>1. s + 1 \in Nat /\ s < s + 1 /\ (s + 1) - s < w
    BY <1>4
  <2>2. s % w # (s + 1) % w
    <3> SUFFICES ASSUME NEW t \in Nat, s < t, t - s < w PROVE s % w # t % w
      BY <2>1
    <3>1. QED
      BY <1>4, ModDistinct
  <2>3. QED
    BY <1>4, <2>1, <2>2, ModRange DEF Index, w
<1>14. ASSUME NEW k \in Nat, Gets <= k, k < s
       PROVE  buffer'[k % w] = buffer[k % w]
  <2>0. ASSUME NEW t \in Nat, k < t, t - k < w PROVE k % w # t % w
    BY <1>4, <2>0, ModDistinct
  <2>1. k % w # s % w
    <3>1. s - k < w
      BY <1>4, <1>14
    <3>2. QED
      BY <1>4, <1>14, <2>0, <3>1
  <2>2. k % w # (s + 1) % w
    <3>1. s + 1 \in Nat /\ k < s + 1 /\ (s + 1) - k < w
      BY <1>4, <1>10, <1>14
    <3>2. QED
      BY <2>0, <3>1
  <2>3. k % w \in Index
    BY <1>4, ModRange DEF Index, w
  <2>4. QED
    BY <1>6, <2>1, <2>2, <2>3 DEF MainType, MainTypeOK
<1>15. buffer'[s % w] = Incoming /\ buffer'[(s + 1) % w] = last_SPDR
  BY <1>6, <1>13 DEF MainType, MainTypeOK
<1>16. Held'
  <2> SUFFICES ASSUME NEW n \in 1..(Sent + 1)
               PROVE  /\ Gets <= 2 * n - 2 => buffer'[(2 * n - 2) % w] = transfers'[n][1]
                      /\ Gets <= 2 * n - 1 => buffer'[(2 * n - 1) % w] = transfers'[n][2]
    BY <1>5 DEF Held, w
  <2>1. CASE n = Sent + 1
    <3>1. 2 * n - 2 = s /\ 2 * n - 1 = s + 1
      BY <2>1, Numbers DEF s
    <3>2. QED
      BY <1>3, <1>9, <1>15, <2>1, <3>1 DEF Orderly
  <2>2. CASE n \in 1..Sent
    <3>1. 2 * n - 2 \in Nat /\ 2 * n - 1 \in Nat /\ 2 * n - 2 < s /\ 2 * n - 1 < s
      BY <2>2, Numbers DEF s
    <3>2. /\ Gets <= 2 * n - 2 => buffer[(2 * n - 2) % w] = transfers[n][1]
          /\ Gets <= 2 * n - 1 => buffer[(2 * n - 1) % w] = transfers[n][2]
      BY <1>3, <2>2 DEF Orderly, Held, w
    <3>3. QED
      BY <1>8, <1>14, <2>2, <3>1, <3>2
  <2>3. QED
    BY <2>1, <2>2, Numbers
<1>17. InHand'
  <2>1. CASE pc \in {"first_out", "wait_second", "second", "second_out", "print"}
    <3>1. printed + 1 \in 1..Sent
      BY <1>3, <2>1, PairComplete DEF Orderly
    <3>2. QED
      BY <1>2, <1>3, <1>8, <3>1 DEF Orderly, InHand
  <2>2. CASE pc \notin {"first_out", "wait_second", "second", "second_out", "print"}
    BY <1>2, <2>2 DEF InHand
  <2>3. QED
    BY <2>1, <2>2
<1>18. QED
  BY <1>2, <1>11, <1>12, <1>16, <1>17 DEF Orderly
-----------------------------------------------------------------------------
LEMMA RingStep ==
  ASSUME MainType, RingInv, [Next]_vars
  PROVE  RingInv'
<1> USE DEF clock, history, call, spi, ring, lines
<1>1. CASE TimerInterrupt
  BY <1>1, ElsewhereRing DEF TimerInterrupt
<1>2. CASE StackGrows
  BY <1>2, ElsewhereRing DEF StackGrows
<1>3. ASSUME NEW t \in Timers, BeginLatch(t) \/ \E m \in Ms : BeginCheck(t, m)
      PROVE  RingInv'
  BY <1>3, ElsewhereRing DEF BeginLatch, BeginCheck
<1>4. ASSUME NEW piece \in Piece, StorePiece(piece) \/ LoadPiece(piece)
      PROVE  RingInv'
  BY <1>4, ElsewhereRing DEF StorePiece, LoadPiece
<1>5. CASE LoadTime \/ \E result \in BOOLEAN : CheckReturns(result)
  BY <1>5, ElsewhereRing DEF LoadTime, CheckReturns
<1>6. CASE SerialDisable
  BY <1>6, ElsewhereRing DEF SerialDisable
<1>7. CASE UNCHANGED vars
  BY <1>7, ElsewhereRing DEF vars
<1>8. QED
  BY <1>1, <1>2, <1>3, <1>4, <1>5, <1>6, <1>7, LoopRing, LoadRing, StoreRing, PrintRing, SpiRing
  DEF Next, Main, Piece

\* The inductive invariant: indices and contents of the ring are those of as
\* many transfers as there were, and of as many bytes as main has taken.
LEMMA RingInvariant == Spec => []RingInv
<1>1. Init => RingInv
  BY InitRing
<1>2. MainInv /\ RingInv /\ [Next]_vars => RingInv'
  BY RingStep DEF MainInv
<1>3. QED
  BY <1>1, <1>2, MainInvariant, PTL DEF Spec

\* Each line that is printed shows the two bytes of the transfer whose turn it
\* is, whenever the interrupt comes.
THEOREM LinesAreTransfersHolds == Spec => []LinesAreTransfers
<1>1. MainInv /\ RingInv => LinesAreTransfers
  <2> SUFFICES ASSUME MainType, RingInv, pc = "print", ~spoiled
               PROVE  printed < Len(transfers) /\ transfers[printed + 1] = <<first, second>>
    BY DEF MainInv, LinesAreTransfers
  <2>1. Orderly
    BY DEF RingInv
  <2>2. printed + 1 \in 1..Sent
    BY <2>1, PairComplete DEF Orderly
  <2>3. printed < Len(transfers)
    BY <2>2, Numbers DEF Sent
  <2>4. transfers[printed + 1] \in SpiByte \X SpiByte
    BY <2>2 DEF MainType, Sent
  <2>5. transfers[printed + 1][1] = first /\ transfers[printed + 1][2] = second
    BY <2>1 DEF Orderly, InHand
  <2>6. QED
    BY <2>3, <2>4, <2>5
<1>2. QED
  BY <1>1, MainInvariant, RingInvariant, PTL

\* Main never waits for the second byte of a pair.
THEOREM SecondIsThereHolds == Spec => []SecondIsThere
<1>1. MainInv /\ RingInv => SecondIsThere
  <2> SUFFICES ASSUME MainType, RingInv, pc = "wait_second", ~spoiled
               PROVE  ~buffer_isempty
    BY DEF MainInv, SecondIsThere
  <2>1. Orderly
    BY DEF RingInv
  <2>2. QED
    BY <2>1, PairComplete, NotEmpty DEF Orderly
<1>2. QED
  BY <1>1, MainInvariant, RingInvariant, PTL
=============================================================================
