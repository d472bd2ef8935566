------------------------- MODULE GbridgeWireProofs -------------------------
(***************************************************************************)
(* Frames, sequences of bytes, and what their checksum notices.            *)
(***************************************************************************)
EXTENDS GbridgeWire, SequenceTheorems, WellFoundedInduction, TLAPS

\* What an unsigned can hold.
LEMMA UintIs ==
  \A n \in Int : n \in 0..UINT_MAX <=> n >= 0 /\ n <= 65535
<1>1. UINT_MAX \in Int
  BY DEF UINT_MAX
<1>2. \A n \in Int : n \in 0..UINT_MAX <=> n >= 0 /\ n <= UINT_MAX
  BY <1>1
<1>3. \A n \in Int : n <= UINT_MAX <=> n <= 65535
  BY DEF UINT_MAX
<1>4. QED
  BY <1>2, <1>3

\* Induction over the natural numbers, for a set.
LEMMA NatSetInduction ==
  ASSUME NEW T, 0 \in T, \A n \in Nat : n \in T => n + 1 \in T
  PROVE  Nat \subseteq T
<1> DEFINE Bad == Nat \ T
           Less == OpToRel(<, Nat)
<1>1. IsWellFoundedOn(Less, Nat)
  BY NatLessThanWellFounded DEF OpToRel
<1>2. Less = {pair \in Nat \X Nat : pair[1] < pair[2]}
  BY DEF OpToRel
<1> HIDE DEF Less
<1>3. SUFFICES ASSUME Bad # {} PROVE FALSE
  OBVIOUS
<1>4. PICK x \in Bad : \A y \in Bad : ~ (<<y, x>> \in Less)
  BY <1>1, <1>3, WFMin
<1>5. x \in Nat /\ x # 0 /\ x - 1 \in Nat /\ x - 1 < x
  OBVIOUS
<1>6. x - 1 \notin Bad
  BY <1>2, <1>4, <1>5
<1>7. x - 1 \in T /\ (x - 1) + 1 = x
  BY <1>5, <1>6
<1>8. QED
  BY <1>5, <1>7
LEMMA ByteIsNat ==
  /\ Byte \subseteq Nat
  /\ \A bytes \in Seq(Byte) : \A i \in 1..Len(bytes) :
       bytes[i] \in Byte /\ bytes[i] \in Nat
<1>1. Byte \subseteq Nat
  BY DEF Byte
<1>2. \A bytes \in Seq(Byte) : \A i \in 1..Len(bytes) : bytes[i] \in Byte
  OBVIOUS
<1>3. QED
  BY <1>1, <1>2

LEMMA BoundedInduction ==
  ASSUME NEW T, NEW m \in Nat, 0 \in T,
         \A n \in 0..(m - 1) : n \in T => n + 1 \in T
  PROVE  0..m \subseteq T
<1> DEFINE U == {n \in Nat : n <= m => n \in T}
<1>1. 0 \in U
  OBVIOUS
<1>2. \A n \in Nat : n \in U => n + 1 \in U
  OBVIOUS
<1> HIDE DEF U
<1>3. Nat \subseteq U
  BY <1>1, <1>2, NatSetInduction
<1>4. QED
  BY <1>3 DEF U
-----------------------------------------------------------------------------
(***************************************************************************)
(* checksum_data.                                                          *)
(***************************************************************************)

\* The recursion of checksum_data's loop is well defined.
LEMMA ByteSumExists ==
  ASSUME NEW bytes \in Seq(Byte)
  PROVE  \E sum : sum = [n \in 0..Len(bytes) |->
                          IF n = 0 THEN 0 ELSE sum[n - 1] + bytes[n]]
<1> DEFINE L == Len(bytes)
           Sums(n) == {g \in [0..n -> Nat] :
                         /\ g[0] = 0
                         /\ \A i \in 1..n : g[i] = g[i - 1] + bytes[i]}
           T == {n \in 0..L : Sums(n) # {}}
<1>1. L \in Nat
  OBVIOUS
<1>2. 0 \in T
  <2>1. [i \in 0..0 |-> 0] \in Sums(0)
    OBVIOUS
  <2>2. QED
    BY <1>1, <2>1
<1>3. ASSUME NEW n \in 0..(L - 1), n \in T
      PROVE  n + 1 \in T
  <2>1. PICK g \in Sums(n) : TRUE
    BY <1>3
  <2>2. n \in Nat /\ n + 1 \in 0..L /\ n + 1 \in 1..L
    BY <1>1
  <2>3. bytes[n + 1] \in Nat
    BY <2>2, ByteIsNat
  <2> DEFINE h == [i \in 0..(n + 1) |->
                     IF i = n + 1 THEN g[n] + bytes[n + 1] ELSE g[i]]
  <2>4. h \in [0..(n + 1) -> Nat]
    BY <2>1, <2>2, <2>3
  <2>5. h[0] = 0
    BY <2>1, <2>2
  <2>6. ASSUME NEW i \in 1..(n + 1)
        PROVE  h[i] = h[i - 1] + bytes[i]
    BY <2>1, <2>2
  <2> HIDE DEF h
  <2>7. h \in Sums(n + 1)
    BY <2>4, <2>5, <2>6
  <2>8. QED
    BY <2>2, <2>7
<1> HIDE DEF T
<1>4. 0..L \subseteq T
  BY <1>1, <1>2, <1>3, BoundedInduction
<1>5. PICK g \in Sums(L) : TRUE
  BY <1>1, <1>4 DEF T
<1>6. g = [n \in 0..L |-> IF n = 0 THEN 0 ELSE g[n - 1] + bytes[n]]
  BY <1>1, <1>5
<1>7. QED
  BY <1>6

\* It adds the bytes up, one by one.
LEMMA ByteSumIs ==
  ASSUME NEW bytes \in Seq(Byte)
  PROVE  /\ ByteSum(bytes) \in [0..Len(bytes) -> Nat]
         /\ ByteSum(bytes)[0] = 0
         /\ \A n \in 1..Len(bytes) :
              ByteSum(bytes)[n] = ByteSum(bytes)[n - 1] + bytes[n]
<1> DEFINE L == Len(bytes)
           sum == ByteSum(bytes)
           T == {n \in 0..L : sum[n] \in Nat}
<1>1. L \in Nat /\ \A n \in 1..L : bytes[n] \in Nat
  BY ByteIsNat
<1>2. sum = [n \in 0..L |-> IF n = 0 THEN 0 ELSE sum[n - 1] + bytes[n]]
  BY ByteSumExists DEF ByteSum
<1> HIDE DEF sum
<1>3. sum[0] = 0 /\ \A n \in 1..L : sum[n] = sum[n - 1] + bytes[n]
  BY <1>1, <1>2
<1>4. 0 \in T
  BY <1>1, <1>3
<1>5. ASSUME NEW n \in 0..(L - 1), n \in T
      PROVE  n + 1 \in T
  BY <1>1, <1>3, <1>5
<1> HIDE DEF T
<1>6. 0..L \subseteq T
  BY <1>1, <1>4, <1>5, BoundedInduction
<1>7. \A n \in 0..L : sum[n] \in Nat
  BY <1>6 DEF T
<1>8. sum \in [0..L -> Nat]
  BY <1>2, <1>7
<1>9. QED
  BY <1>3, <1>8 DEF sum

LEMMA ChecksumType ==
  ASSUME NEW bytes \in Seq(Byte)
  PROVE  ChecksumData(bytes) \in 0..UINT_MAX
<1> DEFINE total == ByteSum(bytes)[Len(bytes) % 256]
<1>1. Len(bytes) \in Nat /\ Len(bytes) % 256 \in 0..Len(bytes)
  OBVIOUS
<1>2. total \in Nat
  BY <1>1, ByteSumIs
<1>3. ChecksumData(bytes) = total % 65536
  BY DEF ChecksumData
<1> HIDE DEF total
<1>4. QED
  <2>1. total % 65536 \in Int /\ total % 65536 >= 0 /\ total % 65536 <= 65535
    BY <1>2
  <2>2. QED
    BY <1>3, <2>1, UintIs

LEMMA CloseRemainders ==
  ASSUME NEW x \in Nat, NEW y \in Nat, x - y \in -255..255, x - y # 0
  PROVE  x % 65536 # y % 65536
<1> DEFINE q == x \div 65536
           r == y \div 65536
           m == x % 65536
           n == y % 65536
<1>1. x = 65536 * q + m /\ q \in Int /\ m \in Int
  OBVIOUS
<1>2. y = 65536 * r + n /\ r \in Int /\ n \in Int
  OBVIOUS
<1> HIDE DEF q, r, m, n
<1>3. m # n
  BY <1>1, <1>2
<1>4. QED
  BY <1>3 DEF m, n

\* A single damaged byte never goes unnoticed, if all the bytes are summed: the
\* checksum of up to 255 bytes differs when exactly one of them does.
THEOREM DamagedByteDetected ==
  ASSUME NEW s \in Seq(Byte), NEW t \in Seq(Byte),
         Len(s) = Len(t), Len(s) < 256,
         NEW k \in 1..Len(s), s[k] # t[k],
         \A i \in 1..Len(s) : i # k => s[i] = t[i]
  PROVE  ChecksumData(s) # ChecksumData(t)
<1> DEFINE L == Len(s)
           a == ByteSum(s)
           b == ByteSum(t)
           T == {n \in 0..L : a[n] - b[n] = IF n < k THEN 0 ELSE s[k] - t[k]}
<1>1. /\ L \in Nat /\ L % 256 = L
      /\ \A n \in 1..L : s[n] \in Nat /\ t[n] \in Nat
      /\ s[k] \in Byte /\ t[k] \in Byte
  <2>1. L \in Nat /\ L < 256
    OBVIOUS
  <2>2. L % 256 = L
    <3> HIDE DEF L
    <3>1. QED
      BY <2>1
  <2>3. \A n \in 1..L : s[n] \in Nat /\ t[n] \in Nat
    BY ByteIsNat
  <2>4. s[k] \in Byte /\ t[k] \in Byte
    BY ByteIsNat
  <2>5. QED
    BY <2>1, <2>2, <2>3, <2>4
<1>2. /\ a \in [0..L -> Nat] /\ b \in [0..L -> Nat]
      /\ a[0] = 0 /\ b[0] = 0
      /\ \A n \in 1..L : a[n] = a[n - 1] + s[n] /\ b[n] = b[n - 1] + t[n]
  BY ByteSumIs
<1> HIDE DEF a, b
<1>3. 0 \in T
  BY <1>1, <1>2
<1>4. ASSUME NEW n \in 0..(L - 1), n \in T
      PROVE  n + 1 \in T
  <2>1. n + 1 \in 1..L /\ n \in 0..L /\ n + 1 \in 0..L
    BY <1>1
  <2>2. a[n + 1] = a[n] + s[n + 1] /\ b[n + 1] = b[n] + t[n + 1]
    BY <1>2, <2>1
  <2>3. a[n] \in Nat /\ b[n] \in Nat /\ s[n + 1] \in Nat /\ t[n + 1] \in Nat
    BY <1>1, <1>2, <2>1
  <2>4. a[n] - b[n] = IF n < k THEN 0 ELSE s[k] - t[k]
    BY <1>4
  <2>5. CASE n + 1 = k
    <3>1. n < k /\ ~(n + 1 < k) /\ a[n] - b[n] = 0
      BY <2>1, <2>4, <2>5
    <3>2. a[n + 1] - b[n + 1] = s[k] - t[k]
      BY SMTT(30), <2>2, <2>3, <2>5, <3>1
    <3>3. QED
      BY <2>1, <3>1, <3>2
  <2>6. CASE n + 1 # k
    <3>1. s[n + 1] = t[n + 1]
      BY <2>1, <2>6
    <3>2. n < k <=> n + 1 < k
      BY <2>1, <2>6
    <3>3. a[n + 1] - b[n + 1] = a[n] - b[n]
      BY <2>2, <2>3, <3>1
    <3>4. QED
      BY <2>1, <2>4, <3>2, <3>3
  <2>7. QED
    BY <2>5, <2>6
<1> HIDE DEF T
<1>5. 0..L \subseteq T
  BY <1>1, <1>3, <1>4, BoundedInduction
<1>6. a[L] \in Nat /\ b[L] \in Nat /\ a[L] - b[L] = s[k] - t[k]
  BY <1>1, <1>2, <1>5 DEF T
<1>7. s[k] - t[k] \in -255..255 /\ s[k] - t[k] # 0
  <2>1. \A x, y \in 0..255 : x - y \in -255..255 /\ (x # y => x - y # 0)
    OBVIOUS
  <2>2. s[k] \in 0..255 /\ t[k] \in 0..255 /\ s[k] # t[k]
    BY <1>1 DEF Byte
  <2>3. QED
    BY Zenon, <2>1, <2>2
<1>8. ChecksumData(s) = a[L] % 65536 /\ ChecksumData(t) = b[L] % 65536
  BY <1>1 DEF ChecksumData, a, b
<1>9. a[L] % 65536 # b[L] % 65536
  <2> DEFINE x == a[L]
             y == b[L]
  <2>1. x \in Nat /\ y \in Nat /\ x - y \in -255..255 /\ x - y # 0
    BY <1>6, <1>7
  <2> HIDE DEF x, y
  <2>2. x % 65536 # y % 65536
    BY SMTT(30), <2>1, CloseRemainders
  <2>3. QED
    BY <2>2 DEF x, y
<1>10. QED
  BY <1>8, <1>9
-----------------------------------------------------------------------------
(***************************************************************************)
(* Taking bytes off the front of the line.                                 *)
(***************************************************************************)
LEMMA TakeDrop ==
  ASSUME NEW s \in Seq(Byte), NEW t \in Seq(Byte)
  PROVE  /\ s \o t \in Seq(Byte) /\ Len(s \o t) = Len(s) + Len(t)
         /\ SubSeq(s \o t, 1, Len(s)) = s
         /\ After(s \o t, Len(s)) = t
<1>1. s \o t \in Seq(Byte) /\ Len(s \o t) = Len(s) + Len(t)
  BY ConcatProperties
<1>2. SubSeq(s \o t, 1, Len(s)) = s
  <2> DEFINE u == SubSeq(s \o t, 1, Len(s))
  <2>1. u \in Seq(Byte) /\ Len(u) = Len(s)
    BY <1>1
  <2>2. \A i \in 1..Len(s) : u[i] = s[i]
    BY <1>1
  <2>3. QED
    BY <2>1, <2>2, SeqEqual
<1>3. After(s \o t, Len(s)) = t
  <2> DEFINE u == After(s \o t, Len(s))
  <2>1. u \in Seq(Byte) /\ Len(u) = Len(t)
    BY <1>1 DEF After
  <2>2. \A i \in 1..Len(t) : u[i] = t[i]
    BY <1>1 DEF After
  <2>3. QED
    BY <2>1, <2>2, SeqEqual
<1>4. QED
  BY <1>1, <1>2, <1>3

LEMMA OneThenRest ==
  ASSUME NEW byte \in Byte, NEW t \in Seq(Byte)
  PROVE  /\ <<byte>> \o t \in Seq(Byte) /\ Len(<<byte>> \o t) = 1 + Len(t)
         /\ Head(<<byte>> \o t) = byte
         /\ After(<<byte>> \o t, 1) = t
<1> DEFINE one == <<byte>>
<1>1. one \in Seq(Byte) /\ Len(one) = 1 /\ one[1] = byte
  OBVIOUS
<1> HIDE DEF one
<1>2. one \o t \in Seq(Byte) /\ Len(one \o t) = 1 + Len(t) /\ After(one \o t, 1) = t
  BY <1>1, TakeDrop
<1>3. Head(one \o t) = byte
  BY <1>1, <1>2
<1>4. QED
  BY <1>2, <1>3 DEF one

LEMMA AfterType ==
  ASSUME NEW s \in Seq(Byte), NEW n \in 0..Len(s)
  PROVE  /\ After(s, n) \in Seq(Byte) /\ Len(After(s, n)) = Len(s) - n
         /\ \A i \in 1..(Len(s) - n) : After(s, n)[i] = s[n + i]
BY DEF After

\* Both ways to split a sequence at the same place are the same.
LEMMA SameSplit ==
  ASSUME NEW s \in Seq(Byte), NEW t \in Seq(Byte),
         NEW u \in Seq(Byte), NEW v \in Seq(Byte),
         s \o t = u \o v, Len(s) = Len(u)
  PROVE  s = u /\ t = v
<1>1. s = SubSeq(s \o t, 1, Len(s)) /\ t = After(s \o t, Len(s))
  BY TakeDrop
<1>2. u = SubSeq(u \o v, 1, Len(u)) /\ v = After(u \o v, Len(u))
  BY TakeDrop
<1>3. QED
  BY <1>1, <1>2

\* A byte goes from the line to a buffer.
LEMMA MoveByte ==
  ASSUME NEW s \in Seq(Byte), NEW t \in Seq(Byte), Len(t) >= 1
  PROVE  /\ Append(s, Head(t)) \o After(t, 1) = s \o t
         /\ Append(s, Head(t)) \in Seq(Byte)
         /\ After(t, 1) \in Seq(Byte)
<1> DEFINE rest == After(t, 1)
           more == Append(s, Head(t))
<1>1. /\ rest \in Seq(Byte) /\ Len(rest) = Len(t) - 1
      /\ \A i \in 1..(Len(t) - 1) : rest[i] = t[1 + i]
  BY AfterType
<1>2. /\ more \in Seq(Byte) /\ Len(more) = Len(s) + 1
      /\ more[Len(s) + 1] = t[1]
      /\ \A i \in 1..Len(s) : more[i] = s[i]
  OBVIOUS
<1> HIDE DEF rest, more
<1>3. /\ more \o rest \in Seq(Byte) /\ s \o t \in Seq(Byte)
      /\ Len(more \o rest) = Len(s) + Len(t) /\ Len(s \o t) = Len(s) + Len(t)
  <2>1. more \o rest \in Seq(Byte) /\ Len(more \o rest) = Len(more) + Len(rest)
    BY <1>1, <1>2, TakeDrop
  <2>4. s \o t \in Seq(Byte) /\ Len(s \o t) = Len(s) + Len(t)
    BY TakeDrop
  <2>2. Len(s) \in Nat /\ Len(t) \in Nat
    OBVIOUS
  <2>3. QED
    BY <1>1, <1>2, <2>1, <2>2, <2>4
<1>4. ASSUME NEW i \in 1..(Len(s) + Len(t))
      PROVE  (more \o rest)[i] = (s \o t)[i]
  <2>1. (more \o rest)[i] = IF i <= Len(more) THEN more[i] ELSE rest[i - Len(more)]
    BY <1>1, <1>2, <1>3
  <2>2. (s \o t)[i] = IF i <= Len(s) THEN s[i] ELSE t[i - Len(s)]
    OBVIOUS
  <2>3. CASE i <= Len(s)
    BY <1>2, <2>1, <2>2, <2>3
  <2>4. CASE i = Len(s) + 1
    BY <1>2, <2>1, <2>2, <2>4
  <2>5. CASE i > Len(s) + 1
    <3>1. i - Len(more) \in 1..(Len(t) - 1) /\ 1 + (i - Len(more)) = i - Len(s)
      BY <1>2, <2>5
    <3>2. QED
      BY SMTT(30), <1>1, <1>2, <2>1, <2>2, <2>5, <3>1
  <2>6. i <= Len(s) \/ i = Len(s) + 1 \/ i > Len(s) + 1
    OBVIOUS
  <2>7. QED
    BY <2>3, <2>4, <2>5, <2>6
<1>5. more \o rest = s \o t
  BY <1>3, <1>4, SeqEqual
<1>6. QED
  BY <1>1, <1>2, <1>5 DEF rest, more
-----------------------------------------------------------------------------
(***************************************************************************)
(* Frames.                                                                 *)
(***************************************************************************)
LEMMA Be16Type ==
  ASSUME NEW n \in Int
  PROVE  Be16(n) \in Seq(Byte) /\ Len(Be16(n)) = 2
<1> DEFINE hi == (n \div 256) % 256
           lo == n % 256
<1>1. hi \in 0..255 /\ lo \in 0..255
  OBVIOUS
<1> HIDE DEF hi, lo
<1>2. <<hi, lo>> \in Seq(Byte) /\ Len(<<hi, lo>>) = 2
  BY <1>1 DEF Byte
<1>3. QED
  BY <1>2 DEF Be16, hi, lo

\* Two bytes give back the number.
LEMMA Be16Back ==
  ASSUME NEW n \in 0..UINT_MAX, NEW t \in Seq(Byte)
  PROVE  /\ Be16(n) \o t \in Seq(Byte) /\ Len(Be16(n) \o t) = 2 + Len(t)
         /\ FromBe16((Be16(n) \o t)[1], (Be16(n) \o t)[2]) = n
         /\ After(Be16(n) \o t, 2) = t
<1> DEFINE two == Be16(n)
           hi == (n \div 256) % 256
           lo == n % 256
<1>1. two \in Seq(Byte) /\ Len(two) = 2 /\ two[1] = hi /\ two[2] = lo
  BY Be16Type DEF Be16
<1>2. hi * 256 + lo = n
  <2> DEFINE q == n \div 256
  <2>1. n \in Nat /\ n <= 65535
    <3>1. n \in Int
      OBVIOUS
    <3>2. QED
      BY <3>1, UintIs
  <2>2. n = 256 * q + lo /\ q \in Int /\ lo \in 0..255
    BY <2>1
  <2>3. hi = q % 256
    OBVIOUS
  <2> HIDE DEF q, hi, lo
  <2>4. q >= 0 /\ q <= 255
    BY <2>1, <2>2
  <2>5. q % 256 = q
    BY <2>2, <2>4
  <2>6. q * 256 = 256 * q
    BY <2>2
  <2>7. QED
    BY <2>2, <2>3, <2>5, <2>6
<1> HIDE DEF two, hi, lo
<1>3. /\ two \o t \in Seq(Byte) /\ Len(two \o t) = 2 + Len(t)
      /\ After(two \o t, 2) = t
  BY <1>1, TakeDrop
<1>4. (two \o t)[1] = hi /\ (two \o t)[2] = lo
  BY <1>1, <1>3
<1>5. QED
  BY <1>2, <1>3, <1>4 DEF FromBe16, two

\* What follows the length in a packet and in a stream.
Checked(bytes) == bytes \o Be16(ChecksumData(bytes))

LEMMA CheckedType ==
  ASSUME NEW bytes \in Seq(Byte)
  PROVE  /\ Be16(ChecksumData(bytes)) \in Seq(Byte)
         /\ Len(Be16(ChecksumData(bytes))) = 2
         /\ Checked(bytes) \in Seq(Byte)
         /\ Len(Checked(bytes)) = Len(bytes) + 2
         /\ SubSeq(Checked(bytes), 1, Len(bytes)) = bytes
         /\ After(Checked(bytes), Len(bytes)) = Be16(ChecksumData(bytes))
<1> DEFINE sum == Be16(ChecksumData(bytes))
<1>1. sum \in Seq(Byte) /\ Len(sum) = 2
  BY ChecksumType, Be16Type
<1> HIDE DEF sum
<1>2. QED
  BY <1>1, TakeDrop DEF Checked, sum

\* The checksum that is read is the one that was computed.
LEMMA ChecksumRead ==
  ASSUME NEW bytes \in Seq(Byte), NEW t \in Seq(Byte)
  PROVE  LET line == Be16(ChecksumData(bytes)) \o t
         IN  /\ FromBe16(line[1], line[2]) = ChecksumData(bytes)
             /\ After(line, 2) = t
             /\ Len(line) = 2 + Len(t)
BY ChecksumType, Be16Back

LEMMA TwoParts ==
  ASSUME NEW a \in Seq(Byte), NEW b \in Seq(Byte), NEW c \in Seq(Byte)
  PROVE  /\ (a \o b) \o c = a \o (b \o c)
         /\ b \o c \in Seq(Byte) /\ a \o (b \o c) \in Seq(Byte)
         /\ Len(a \o (b \o c)) = Len(a) + Len(b) + Len(c)
<1> DEFINE tail == b \o c
<1>1. (a \o b) \o c = a \o tail
  BY ConcatAssociative
<1>2. tail \in Seq(Byte) /\ Len(tail) = Len(b) + Len(c)
  BY TakeDrop
<1> HIDE DEF tail
<1>3. a \o tail \in Seq(Byte) /\ Len(a \o tail) = Len(a) + Len(tail)
  BY <1>2, TakeDrop
<1>4. Len(a) \in Nat /\ Len(b) \in Nat /\ Len(c) \in Nat
  OBVIOUS
<1>5. QED
  BY <1>1, <1>2, <1>3, <1>4 DEF tail

LEMMA DataFrameIs ==
  ASSUME NEW cmd \in Byte, NEW payload \in Seq(Byte), Len(payload) <= 255
  PROVE  /\ DataFrame(cmd, payload) =
              <<cmd>> \o (<<Len(payload)>> \o Checked(payload))
         /\ Checked(payload) \in Seq(Byte)
         /\ Len(payload) \in Byte
         /\ <<Len(payload)>> \o Checked(payload) \in Seq(Byte)
         /\ DataFrame(cmd, payload) \in Seq(Byte)
<1> DEFINE one == <<cmd>>
           two == <<Len(payload)>>
           sum == Be16(ChecksumData(payload))
<1>1. one \in Seq(Byte)
  OBVIOUS
<1>2. Len(payload) \in Byte /\ two \in Seq(Byte)
  <2>1. \A n \in Nat : n <= 255 => n \in Byte
    BY DEF Byte
  <2>2. Len(payload) \in Byte
    BY <2>1
  <2>3. QED
    BY <2>2
<1>3. sum \in Seq(Byte) /\ Checked(payload) \in Seq(Byte)
  BY CheckedType
<1>4. <<cmd, Len(payload)>> = one \o two
  OBVIOUS
<1> HIDE DEF one, two, sum
<1>5. one \o two \in Seq(Byte)
  BY <1>1, <1>2, TakeDrop
<1>6. ((one \o two) \o payload) \o sum = (one \o two) \o Checked(payload)
  BY <1>3, <1>5, TwoParts DEF Checked, sum
<1>7. /\ (one \o two) \o Checked(payload) = one \o (two \o Checked(payload))
      /\ two \o Checked(payload) \in Seq(Byte)
      /\ one \o (two \o Checked(payload)) \in Seq(Byte)
  BY SMTT(30), <1>1, <1>2, <1>3, TwoParts
<1>8. DataFrame(cmd, payload) = one \o (two \o Checked(payload))
  BY <1>4, <1>6, <1>7 DEF DataFrame, sum
<1>9. QED
  BY <1>2, <1>3, <1>7, <1>8 DEF one, two

LEMMA StreamFrameIs ==
  ASSUME NEW cmd \in Byte, NEW bytes \in Seq(Byte)
  PROVE  /\ StreamFrame(cmd, bytes) =
              <<cmd>> \o (Be16(Len(bytes)) \o Checked(bytes))
         /\ Checked(bytes) \in Seq(Byte)
         /\ Be16(Len(bytes)) \o Checked(bytes) \in Seq(Byte)
         /\ StreamFrame(cmd, bytes) \in Seq(Byte)
<1> DEFINE one == <<cmd>>
           size == Be16(Len(bytes))
           sum == Be16(ChecksumData(bytes))
<1>1. one \in Seq(Byte)
  OBVIOUS
<1>2. sum \in Seq(Byte) /\ Checked(bytes) \in Seq(Byte)
  BY CheckedType
<1>3. size \in Seq(Byte)
  BY Be16Type
<1> HIDE DEF one, size, sum
<1>4. one \o size \in Seq(Byte)
  BY <1>1, <1>3, TakeDrop
<1>5. ((one \o size) \o bytes) \o sum = (one \o size) \o Checked(bytes)
  BY <1>2, <1>4, TwoParts DEF Checked, sum
<1>6. /\ (one \o size) \o Checked(bytes) = one \o (size \o Checked(bytes))
      /\ size \o Checked(bytes) \in Seq(Byte)
      /\ one \o (size \o Checked(bytes)) \in Seq(Byte)
  <2>1. /\ (one \o size) \o Checked(bytes) = one \o (size \o Checked(bytes))
        /\ size \o Checked(bytes) \in Seq(Byte)
    BY SMTT(30), <1>1, <1>2, <1>3, TwoParts
  <2>2. QED
    BY SMTT(30), <1>1, <1>2, <1>3, TwoParts
<1>7. StreamFrame(cmd, bytes) = one \o (size \o Checked(bytes))
  BY <1>5, <1>6 DEF StreamFrame, one, size, sum
<1>8. QED
  BY <1>2, <1>6, <1>7 DEF one, size

LEMMA ContentType ==
  ASSUME NEW n \in Nat
  PROVE  Content(n) \in Seq(Byte) /\ Len(Content(n)) = n
<1>1. \A i \in 1..n : i % 256 \in Byte
  BY DEF Byte
<1>2. QED
  BY <1>1 DEF Content

LEMMA DebugFrameIs ==
  ASSUME NEW text \in Seq(Byte), Len(text) <= 255
  PROVE  /\ DebugFrame(text) =
              <<GBRIDGE_CMD_DEBUG_LINE>> \o (<<Len(text)>> \o text)
         /\ Len(text) \in Byte
         /\ <<Len(text)>> \o text \in Seq(Byte)
         /\ DebugFrame(text) \in Seq(Byte)
<1> DEFINE one == <<GBRIDGE_CMD_DEBUG_LINE>>
           two == <<Len(text)>>
<1>1. one \in Seq(Byte)
  BY DEF Byte, GBRIDGE_CMD_DEBUG_LINE
<1>2. Len(text) \in Byte /\ two \in Seq(Byte)
  <2>1. \A n \in Nat : n <= 255 => n \in Byte
    BY DEF Byte
  <2>2. Len(text) \in Byte
    BY <2>1
  <2>3. QED
    BY <2>2
<1>3. <<GBRIDGE_CMD_DEBUG_LINE, Len(text)>> = one \o two
  OBVIOUS
<1> HIDE DEF one, two
<1>4. /\ (one \o two) \o text = one \o (two \o text)
      /\ two \o text \in Seq(Byte) /\ one \o (two \o text) \in Seq(Byte)
  BY <1>1, <1>2, TwoParts
<1>5. QED
  BY <1>2, <1>3, <1>4 DEF DebugFrame, one, two
-----------------------------------------------------------------------------
(***************************************************************************)
(* Requests.                                                               *)
(***************************************************************************)
LEMMA AddressReadIs ==
  ASSUME NEW type \in 0..2, NEW bytes \in Seq(Byte),
         Len(bytes) = IF type = 1 THEN 7 ELSE IF type = 2 THEN 19 ELSE 1,
         bytes[1] = type
  PROVE  AddressRead(bytes) = Len(bytes)
<1>1. CASE type = 0
  BY <1>1 DEF AddressRead, ADDR_NONE, ADDR_IPV4, ADDR_IPV6
<1>2. CASE type = 1
  BY <1>2 DEF AddressRead, ADDR_NONE, ADDR_IPV4, ADDR_IPV6
<1>3. CASE type = 2
  BY <1>3 DEF AddressRead, ADDR_NONE, ADDR_IPV4, ADDR_IPV6
<1>4. QED
  BY <1>1, <1>2, <1>3

LEMMA AddressIs ==
  ASSUME NEW type \in 0..2
  PROVE  /\ AddressWrite(type) \in Seq(Byte)
         /\ Len(AddressWrite(type)) =
              IF type = 1 THEN 7 ELSE IF type = 2 THEN 19 ELSE 1
         /\ AddressWrite(type)[1] = type
         /\ AddressRead(AddressWrite(type)) = Len(AddressWrite(type))
<1>1. CASE type = 0
  <2> DEFINE w == <<0>>
  <2>1. AddressWrite(type) = w
    BY <1>1 DEF AddressWrite, ADDR_NONE, ADDR_IPV4, ADDR_IPV6
  <2>2. w \in Seq(Byte) /\ Len(w) = 1 /\ w[1] = 0
    BY DEF Byte
  <2> HIDE DEF w
  <2>3. QED
    BY <1>1, <2>1, <2>2, AddressReadIs
<1>2. CASE type = 1
  <2> DEFINE w == <<1, 0, 80, 127, 0, 0, 1>>
  <2>1. AddressWrite(type) = w
    BY <1>2 DEF AddressWrite, ADDR_NONE, ADDR_IPV4, ADDR_IPV6
  <2>2. w \in Seq(Byte) /\ Len(w) = 7 /\ w[1] = 1
    BY DEF Byte
  <2> HIDE DEF w
  <2>3. QED
    BY <1>2, <2>1, <2>2, AddressReadIs
<1>3. CASE type = 2
  <2> DEFINE head == <<2, 0, 80>>
             host == [i \in 1..16 |-> i % 2]
  <2>1. AddressWrite(type) = head \o host
    BY <1>3 DEF AddressWrite, ADDR_NONE, ADDR_IPV4, ADDR_IPV6
  <2>2. head \in Seq(Byte) /\ Len(head) = 3 /\ head[1] = 2
    BY DEF Byte
  <2>3. host \in Seq(Byte) /\ Len(host) = 16
    <3>1. \A i \in 1..16 : i % 2 \in Byte
      BY DEF Byte
    <3>2. QED
      BY <3>1
  <2> HIDE DEF head, host
  <2>4. /\ head \o host \in Seq(Byte)
        /\ Len(head \o host) = Len(head) + Len(host)
        /\ \A i \in 1..Len(head) + Len(host) :
             (head \o host)[i] = IF i <= Len(head) THEN head[i]
                                ELSE host[i - Len(head)]
    BY <2>2, <2>3, ConcatProperties
  <2>5. Len(head \o host) = 19 /\ (head \o host)[1] = 2
    <3>1. 1 \in 1..Len(head) + Len(host) /\ 1 <= Len(head)
      BY <2>2, <2>3
    <3>2. (head \o host)[1] = head[1]
      BY <2>4, <3>1
    <3>3. QED
      BY <2>2, <2>3, <2>4, <3>2
  <2> DEFINE w == head \o host
  <2>6. w \in Seq(Byte) /\ Len(w) = 19 /\ w[1] = 2 /\ AddressWrite(type) = w
    BY <2>1, <2>4, <2>5
  <2> HIDE DEF w
  <2>7. QED
    BY <1>3, <2>6, AddressReadIs
<1>4. QED
  BY <1>1, <1>2, <1>3

\* The requests of libmobile.
Requested == [op : Op, conn : Byte, addr : 0..2, size : 0..UINT_MAX]

LEMMA PrefixOfTwo ==
  ASSUME NEW a \in Byte, NEW b \in Byte, NEW rest \in Seq(Byte)
  PROVE  /\ <<a, b>> \o rest \in Seq(Byte) /\ Len(<<a, b>> \o rest) = 2 + Len(rest)
         /\ (<<a, b>> \o rest)[1] = a /\ (<<a, b>> \o rest)[2] = b
         /\ After(<<a, b>> \o rest, 2) = rest
         /\ \A i \in 1..Len(rest) : (<<a, b>> \o rest)[2 + i] = rest[i]
<1> DEFINE head == <<a, b>>
<1>1. head \in Seq(Byte) /\ Len(head) = 2 /\ head[1] = a /\ head[2] = b
  OBVIOUS
<1> HIDE DEF head
<1>2. /\ head \o rest \in Seq(Byte) /\ Len(head \o rest) = 2 + Len(rest)
      /\ After(head \o rest, 2) = rest
  BY <1>1, TakeDrop
<1>3. \A i \in 1..(2 + Len(rest)) :
        (head \o rest)[i] = IF i <= 2 THEN head[i] ELSE rest[i - 2]
  <2>1. \A i \in 1..Len(head) + Len(rest) :
          (head \o rest)[i] = IF i <= Len(head) THEN head[i]
                             ELSE rest[i - Len(head)]
    BY <1>1, ConcatProperties
  <2>2. QED
    BY <1>1, <2>1
<1>4. Len(rest) \in Nat
  OBVIOUS
<1>5. (head \o rest)[1] = a /\ (head \o rest)[2] = b
  <2>1. /\ 1 \in 1..(2 + Len(rest)) /\ 2 \in 1..(2 + Len(rest))
        /\ 1 <= 2 /\ 2 <= 2
    BY <1>4
  <2>2. (head \o rest)[1] = head[1]
    BY <1>3, <2>1
  <2>3. (head \o rest)[2] = head[2]
    BY <1>3, <2>1
  <2>4. QED
    BY <1>1, <2>2, <2>3
<1>6. \A i \in 1..Len(rest) : (head \o rest)[2 + i] = rest[i]
  <2>1. ASSUME NEW i \in 1..Len(rest)
        PROVE  (head \o rest)[2 + i] = rest[i]
    <3>1. 2 + i \in 1..(2 + Len(rest)) /\ ~(2 + i <= 2) /\ (2 + i) - 2 = i
      BY <1>4
    <3>2. QED
      BY <1>3, <3>1
  <2>2. QED
    BY <2>1
<1>7. QED
  BY <1>2, <1>5, <1>6 DEF head

LEMMA ArgumentsAre ==
  ASSUME NEW req \in Requested
  PROVE  /\ Arguments(req) \in Seq(Byte) /\ Len(Arguments(req)) <= 19
         /\ req.op = OPEN => Len(Arguments(req)) = 4 /\ Arguments(req)[2] = req.addr
         /\ req.op \in {CLOSE, LISTEN, ACCEPT} => Len(Arguments(req)) = 0
         /\ req.op \in {CONNECT, SEND} => Arguments(req) = AddressWrite(req.addr)
         /\ req.op = RECV =>
              /\ Len(Arguments(req)) = 2
              /\ FromBe16(Arguments(req)[1], Arguments(req)[2]) = req.size
<1>1. req.op \in Op /\ req.addr \in 0..2 /\ req.size \in 0..UINT_MAX
  BY DEF Requested
<1>2. CASE req.op = OPEN
  <2> DEFINE w == <<0, req.addr, 0, 0>>
  <2>1. Arguments(req) = w
    BY <1>2 DEF Arguments, OPEN, CONNECT, SEND, RECV
  <2>2. w \in Seq(Byte) /\ Len(w) = 4 /\ w[2] = req.addr
    <3>1. 0 \in Byte /\ req.addr \in Byte
      BY <1>1 DEF Byte
    <3>2. QED
      BY <3>1
  <2> HIDE DEF w
  <2>3. QED
    BY <1>2, <2>1, <2>2
    DEF OPEN, CLOSE, CONNECT, LISTEN, ACCEPT, SEND, RECV
<1>3. CASE req.op \in {CLOSE, LISTEN, ACCEPT}
  <2>1. Arguments(req) = <<>>
    BY <1>3 DEF Arguments, OPEN, CLOSE, CONNECT, LISTEN, ACCEPT, SEND, RECV
  <2>2. <<>> \in Seq(Byte) /\ Len(<<>>) = 0
    OBVIOUS
  <2>3. QED
    BY <1>3, <2>1, <2>2
    DEF OPEN, CLOSE, CONNECT, LISTEN, ACCEPT, SEND, RECV
<1>4. CASE req.op \in {CONNECT, SEND}
  <2>1. Arguments(req) = AddressWrite(req.addr)
    BY <1>4 DEF Arguments, OPEN, CONNECT, SEND, RECV
  <2>2. /\ AddressWrite(req.addr) \in Seq(Byte)
        /\ Len(AddressWrite(req.addr)) <= 19
    <3>1. \/ Len(AddressWrite(req.addr)) = 7
          \/ Len(AddressWrite(req.addr)) = 19
          \/ Len(AddressWrite(req.addr)) = 1
      BY <1>1, AddressIs
    <3>2. AddressWrite(req.addr) \in Seq(Byte)
      BY <1>1, AddressIs
    <3>3. \A n : n = 7 \/ n = 19 \/ n = 1 => n <= 19
      OBVIOUS
    <3>4. QED
      BY <3>1, <3>2, <3>3
  <2>3. QED
    BY <1>4, <2>1, <2>2
    DEF OPEN, CLOSE, CONNECT, LISTEN, ACCEPT, SEND, RECV
<1>5. CASE req.op = RECV
  <2> DEFINE w == Be16(req.size)
  <2>1. Arguments(req) = w
    BY <1>5 DEF Arguments, OPEN, CONNECT, SEND, RECV
  <2>2. req.size \in Int
    <3>1. \A n \in 0..UINT_MAX : n \in Int
      OBVIOUS
    <3>2. QED
      BY <1>1, <3>1
  <2>3. w \in Seq(Byte) /\ Len(w) = 2 /\ w \o <<>> = w
    BY <2>2, Be16Type
  <2>4. FromBe16(w[1], w[2]) = req.size
    BY <1>1, <2>3, Be16Back, EmptySeq
  <2> HIDE DEF w
  <2>5. QED
    BY <1>5, <2>1, <2>3, <2>4
    DEF OPEN, CLOSE, CONNECT, LISTEN, ACCEPT, SEND, RECV
<1>6. QED
  BY <1>1, <1>2, <1>3, <1>4, <1>5 DEF Op

LEMMA PayloadIs ==
  ASSUME NEW req \in Requested
  PROVE  /\ Payload(req) \in Seq(Byte)
         /\ Len(Payload(req)) >= 2 /\ Len(Payload(req)) <= 21
         /\ Payload(req)[1] = req.op /\ Payload(req)[2] = req.conn
         /\ req.op = OPEN => Len(Payload(req)) = 6 /\ Payload(req)[4] = req.addr
         /\ req.op \in {CLOSE, LISTEN, ACCEPT} => Len(Payload(req)) = 2
         /\ req.op \in {CONNECT, SEND} =>
              /\ After(Payload(req), 2) = AddressWrite(req.addr)
              /\ Len(Payload(req)) = 2 + Len(AddressWrite(req.addr))
         /\ req.op = RECV =>
              /\ Len(Payload(req)) = 4
              /\ FromBe16(Payload(req)[3], Payload(req)[4]) = req.size
<1> DEFINE rest == Arguments(req)
           all == Payload(req)
<1>1. req.op \in Byte /\ req.conn \in Byte
  BY DEF Requested, Byte, Op, OPEN, CLOSE, CONNECT, LISTEN, ACCEPT, SEND, RECV
<1>2. /\ rest \in Seq(Byte) /\ Len(rest) \in Nat /\ Len(rest) <= 19
      /\ req.op = OPEN => Len(rest) = 4 /\ rest[2] = req.addr
      /\ req.op \in {CLOSE, LISTEN, ACCEPT} => Len(rest) = 0
      /\ req.op \in {CONNECT, SEND} => rest = AddressWrite(req.addr)
      /\ req.op = RECV => Len(rest) = 2 /\ FromBe16(rest[1], rest[2]) = req.size
  BY ArgumentsAre
<1>3. /\ all \in Seq(Byte) /\ Len(all) = 2 + Len(rest)
      /\ all[1] = req.op /\ all[2] = req.conn
      /\ After(all, 2) = rest
      /\ \A i \in 1..Len(rest) : all[2 + i] = rest[i]
  BY <1>1, <1>2, PrefixOfTwo DEF Payload
<1> HIDE DEF rest, all
<1>4. req.op = OPEN => all[4] = req.addr
  <2>1. HAVE req.op = OPEN
  <2>2. Len(rest) = 4 /\ rest[2] = req.addr
    BY <1>2, <2>1
  <2>3. all[2 + 2] = rest[2]
    BY <1>3, <2>2
  <2>4. QED
    BY <2>2, <2>3
<1>5. req.op = RECV => all[3] = rest[1] /\ all[4] = rest[2]
  <2>1. HAVE req.op = RECV
  <2>2. Len(rest) = 2
    BY <1>2, <2>1
  <2>3. all[2 + 1] = rest[1] /\ all[2 + 2] = rest[2]
    BY <1>3, <2>2
  <2>4. QED
    BY <2>3
<1>6. Len(all) >= 2 /\ Len(all) <= 21
  BY <1>2, <1>3
<1>7. /\ req.op = OPEN => Len(all) = 6
      /\ req.op \in {CLOSE, LISTEN, ACCEPT} => Len(all) = 2
      /\ req.op \in {CONNECT, SEND} => /\ After(all, 2) = AddressWrite(req.addr)
                                      /\ Len(all) = 2 + Len(AddressWrite(req.addr))
      /\ req.op = RECV => Len(all) = 4 /\ FromBe16(all[3], all[4]) = req.size
  <2>1. \A n : n = 4 => 2 + n = 6
    OBVIOUS
  <2>2. \A n : n = 0 => 2 + n = 2
    OBVIOUS
  <2>3. \A n : n = 2 => 2 + n = 4
    OBVIOUS
  <2>4. req.op = OPEN => Len(all) = 6
    BY <1>2, <1>3, <2>1
  <2>5. req.op \in {CLOSE, LISTEN, ACCEPT} => Len(all) = 2
    BY <1>2, <1>3, <2>2
  <2>6. req.op = RECV => Len(all) = 4
    BY <1>2, <1>3, <2>3
  <2>7. req.op = RECV => FromBe16(all[3], all[4]) = req.size
    BY <1>2, <1>5
  <2>8. req.op \in {CONNECT, SEND} => rest = AddressWrite(req.addr)
    BY <1>2
  <2>9. QED
    BY <1>3, <2>4, <2>5, <2>6, <2>7, <2>8
<1>8. QED
  BY <1>3, <1>4, <1>6, <1>7 DEF all
=============================================================================
