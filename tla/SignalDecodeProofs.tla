------------------------- MODULE SignalDecodeProofs -------------------------
(***************************************************************************)
(* What parseSignal decodes, for all widths, signals and frames.  It reads *)
(* no byte behind the payload of a frame of CAN_MAX_DLC bytes or fewer; a  *)
(* little-endian signal shorter than an int that starts with a byte or     *)
(* lies within one, and a big-endian signal of whole bytes, get the value  *)
(* that their bits spell.  The inductive invariant Inv says where the loop *)
(* has got to (LoopInv, BitsTaken), that each piece is the bits of one     *)
(* byte, and that raw is the value of the pieces put together so far       *)
(* (RawIsValue).  Pow, LittleEndian and BigEndian are recursive functions; *)
(* that such a function exists, and what it computes, is shown here with   *)
(* the least number for which it would fail.                               *)
(***************************************************************************)
EXTENDS SignalDecode, WellFoundedInduction, TLAPS

(* A non-empty set of numbers has a least one.                             *)
LEMMA LeastNumber ==
  ASSUME NEW T, T \subseteq Nat, T # {}
  PROVE  \E m \in T : \A n \in T : m <= n
<1> DEFINE R == OpToRel(<, Nat)
<1>1. IsWellFoundedOn(R, Nat)
  BY NatLessThanWellFounded
<1>2. \A i, j \in Nat : i < j => <<i, j>> \in R
  BY DEF OpToRel
<1> HIDE DEF R
<1>3. PICK m \in T : \A n \in T : ~ (<<n, m>> \in R)
  BY <1>1, WFMin
<1>4. \A n \in T : m \in Nat /\ n \in Nat /\ ~(n < m)
  BY <1>2, <1>3
<1>5. QED
  BY <1>4

(* h runs through the values that step gives one after the other, from     *)
(* first on, N times.                                                      *)
Runs(h, N, first, step) ==
  /\ h \in [0 .. N -> Int]
  /\ h[0] = first
  /\ \A n \in 0 .. N - 1 : h[n + 1] = step[n][h[n]]

Steps == [Nat -> [Int -> Int]]

(* There is such a run of every length.                                    *)
LEMMA RunExists ==
  ASSUME NEW first \in Int, NEW step \in Steps, NEW N \in Nat
  PROVE  \E h : Runs(h, N, first, step)
<1> DEFINE T == {n \in Nat : ~ \E h : Runs(h, n, first, step)}
<1>1. SUFFICES ASSUME T # {} PROVE FALSE
  OBVIOUS
<1>2. PICK m \in T : \A n \in T : m <= n
  BY <1>1, LeastNumber
<1>3. m \in Nat /\ ~ \E h : Runs(h, m, first, step)
  OBVIOUS
<1>4. CASE m = 0
  <2>1. Runs([n \in 0 .. 0 |-> first], 0, first, step)
    BY DEF Runs
  <2>2. QED
    BY <1>3, <1>4, <2>1
<1>5. CASE m # 0
  <2>1. m - 1 \in Nat /\ m - 1 \notin T
    BY <1>2, <1>3, <1>5
  <2>2. PICK h : Runs(h, m - 1, first, step)
    BY <2>1
  <2> DEFINE next == step[m - 1][h[m - 1]]
             g == [n \in 0 .. m |-> IF n = m THEN next ELSE h[n]]
  <2>3. next \in Int
    BY <2>1, <2>2 DEF Runs, Steps
  <2>4. \A n \in 0 .. m - 1 : h[n] \in Int /\ n \in 0 .. m /\ n # m
    BY <1>3, <2>1, <2>2 DEF Runs
  <2> HIDE DEF next
  <2>5. g \in [0 .. m -> Int]
    BY <1>3, <2>3, <2>4
  <2>6. g[0] = first
    BY <1>3, <1>5, <2>2 DEF Runs
  <2>7. ASSUME NEW n \in 0 .. m - 1 PROVE g[n + 1] = step[n][g[n]]
    <3>1. g[n] = h[n]
      BY <2>4
    <3>2. CASE n = m - 1
      BY <1>3, <3>1, <3>2 DEF next
    <3>3. CASE n # m - 1
      <4>1. n \in 0 .. (m - 1) - 1 /\ n + 1 \in 0 .. m /\ n + 1 # m
        BY <1>3, <2>1, <3>3
      <4>2. QED
        BY <2>2, <3>1, <4>1 DEF Runs
    <3>4. QED
      BY <3>2, <3>3
  <2>8. Runs(g, m, first, step)
    BY <2>5, <2>6, <2>7 DEF Runs
  <2>9. QED
    BY <1>3, <2>8
<1>6. QED
  BY <1>4, <1>5

(* Two runs agree as far as both go.                                       *)
LEMMA RunsAgree ==
  ASSUME NEW first \in Int, NEW step \in Steps, NEW N \in Nat, NEW M \in Nat,
         NEW h, NEW g, Runs(h, N, first, step), Runs(g, M, first, step),
         NEW k \in Nat, k <= N, k <= M
  PROVE  h[k] = g[k]
<1> DEFINE T == {n \in Nat : n <= N /\ n <= M /\ h[n] # g[n]}
<1>1. SUFFICES ASSUME T # {} PROVE FALSE
  OBVIOUS
<1>2. PICK m \in T : \A n \in T : m <= n
  BY <1>1, LeastNumber
<1>3. m # 0
  BY DEF Runs
<1>4. m - 1 \in Nat /\ m - 1 \notin T /\ m - 1 \in 0 .. N - 1 /\ m - 1 \in 0 .. M - 1
  BY <1>2, <1>3
<1>5. h[m - 1] = g[m - 1]
  BY <1>4
<1>6. h[(m - 1) + 1] = step[m - 1][h[m - 1]] /\ g[(m - 1) + 1] = step[m - 1][g[m - 1]]
  BY <1>4 DEF Runs
<1>7. (m - 1) + 1 = m
  OBVIOUS
<1>8. QED
  BY <1>5, <1>6, <1>7

RunsForEver(g, first, step) ==
  /\ g \in [Nat -> Int]
  /\ g[0] = first
  /\ \A n \in Nat : g[n + 1] = step[n][g[n]]

(* And there is one that goes on for ever.                                 *)
LEMMA EndlessRunExists ==
  ASSUME NEW first \in Int, NEW step \in Steps
  PROVE  \E g : RunsForEver(g, first, step)
<1> DEFINE run == [N \in Nat |-> CHOOSE h : Runs(h, N, first, step)]
           g == [n \in Nat |-> run[n][n]]
<1>1. \A N \in Nat : Runs(run[N], N, first, step)
  BY RunExists
<1> HIDE DEF run
<1>2. \A n \in Nat : g[n] \in Int
  BY <1>1 DEF Runs
<1>3. g[0] = first
  BY <1>1 DEF Runs
<1>4. ASSUME NEW n \in Nat PROVE g[n + 1] = step[n][g[n]]
  <2>1. run[n + 1][n] = run[n][n]
    BY <1>1, RunsAgree
  <2>2. run[n + 1][n + 1] = step[n][run[n + 1][n]]
    <3>1. n \in 0 .. (n + 1) - 1 /\ n + 1 \in Nat
      OBVIOUS
    <3>2. QED
      BY <1>1, <3>1 DEF Runs
  <2>3. QED
    BY <2>1, <2>2
<1>5. RunsForEver(g, first, step)
  BY <1>2, <1>3, <1>4 DEF RunsForEver
<1>6. QED
  BY <1>5

(* The powers of two.                                                      *)
LEMMA PowStep ==
  /\ Pow[0] = 1
  /\ \A n \in Nat : Pow[n + 1] = 2 * Pow[n]
<1> DEFINE step == [n \in Nat |-> [x \in Int |-> 2 * x]]
           Is(p) == p = [n \in Nat |-> IF n = 0 THEN 1 ELSE 2 * p[n - 1]]
<1>1. step \in Steps
  BY DEF Steps
<1>0. \A n \in Nat, x \in Int : step[n][x] = 2 * x
  OBVIOUS
<1> HIDE DEF step
<1>2. PICK g : RunsForEver(g, 1, step)
  BY <1>1, EndlessRunExists
<1>3. \A n \in Nat : g[n] = IF n = 0 THEN 1 ELSE 2 * g[n - 1]
  <2>1. SUFFICES ASSUME NEW n \in Nat, n # 0 PROVE g[n] = 2 * g[n - 1]
    BY <1>2 DEF RunsForEver
  <2>2. n - 1 \in Nat /\ (n - 1) + 1 = n
    BY <2>1
  <2>3. QED
    BY <1>0, <1>2, <2>2 DEF RunsForEver
<1>4. Is(g)
  <2>1. g = [n \in Nat |-> g[n]]
    BY <1>2 DEF RunsForEver
  <2>2. QED
    BY <1>3, <2>1
<1>5. Pow = CHOOSE p : Is(p)
  BY DEF Pow
<1>6. Is(Pow)
  BY <1>4, <1>5
<1>7. \A n \in Nat : Pow[n] = IF n = 0 THEN 1 ELSE 2 * Pow[n - 1]
  BY <1>6
<1>8. ASSUME NEW n \in Nat PROVE Pow[n + 1] = 2 * Pow[n]
  <2>1. n + 1 \in Nat /\ n + 1 # 0 /\ (n + 1) - 1 = n
    OBVIOUS
  <2>2. QED
    BY <1>7, <2>1
<1>9. QED
  BY <1>7, <1>8

(* They are positive.                                                      *)
LEMMA PowPositive ==
  ASSUME NEW n \in Nat
  PROVE  Pow[n] \in Nat /\ Pow[n] > 0
<1> DEFINE T == {i \in Nat : ~(Pow[i] \in Nat /\ Pow[i] > 0)}
<1>1. SUFFICES ASSUME T # {} PROVE FALSE
  OBVIOUS
<1>2. PICK m \in T : \A i \in T : m <= i
  BY <1>1, LeastNumber
<1>3. m # 0
  BY PowStep
<1>4. m - 1 \in Nat /\ m - 1 \notin T
  BY <1>2, <1>3
<1>5. Pow[m - 1] \in Nat /\ Pow[m - 1] > 0
  BY <1>4
<1>6. Pow[m] = 2 * Pow[m - 1]
  BY <1>4, PowStep
<1>7. QED
  BY <1>5, <1>6

(* A power of a sum is the product of the powers.                          *)
LEMMA PowSum ==
  ASSUME NEW a \in Nat, NEW b \in Nat
  PROVE  Pow[a + b] = Pow[a] * Pow[b]
<1> DEFINE T == {i \in Nat : Pow[a + i] # Pow[a] * Pow[i]}
<1>1. SUFFICES ASSUME T # {} PROVE FALSE
  OBVIOUS
<1>2. PICK m \in T : \A i \in T : m <= i
  BY <1>1, LeastNumber
<1>3. m # 0
  <2>1. a + 0 = a /\ Pow[a] * 1 = Pow[a]
    BY PowPositive
  <2>2. QED
    BY <2>1, PowStep
<1>4. PICK k \in Nat : m = k + 1 /\ k \notin T
  <2>1. m - 1 \in Nat /\ m - 1 \notin T
    BY <1>2, <1>3
  <2>2. QED
    BY <2>1
<1>5. Pow[a + k] = Pow[a] * Pow[k]
  BY <1>4
<1>6. Pow[a + m] = 2 * Pow[a + k]
  <2>1. a + k \in Nat /\ (a + k) + 1 = a + m
    BY <1>4
  <2>2. QED
    BY <2>1, PowStep
<1>7. Pow[m] = 2 * Pow[k]
  BY <1>4, PowStep
<1>8. PICK x \in Nat, y \in Nat : x = Pow[a] /\ y = Pow[k]
  BY PowPositive
<1>9. 2 * (x * y) = x * (2 * y)
  OBVIOUS
<1>10. QED
  BY <1>5, <1>6, <1>7, <1>8, <1>9

(* Multiplication by a natural number keeps the order.                     *)
LEMMA TimesMonotone ==
  ASSUME NEW x \in Int, NEW y \in Int, NEW z \in Nat, x <= y
  PROVE  x * z <= y * z
<1>1. PICK d \in Nat : y = x + d
  <2>1. y - x \in Nat /\ y = x + (y - x)
    OBVIOUS
  <2>2. QED
    BY <2>1
<1>2. y * z = x * z + d * z /\ d * z \in Nat /\ x * z \in Int
  BY <1>1
<1>3. QED
  BY <1>2

(* The powers grow.                                                        *)
LEMMA PowMonotone ==
  ASSUME NEW a \in Nat, NEW b \in Nat, a <= b
  PROVE  Pow[a] <= Pow[b]
<1>1. PICK d \in Nat : b = a + d
  <2>1. b - a \in Nat /\ b = a + (b - a)
    OBVIOUS
  <2>2. QED
    BY <2>1
<1>2. Pow[b] = Pow[d] * Pow[a]
  <2>1. d + a = b
    BY <1>1
  <2>2. QED
    BY <2>1, PowSum
<1>3. PICK x \in Nat, y \in Nat : x = Pow[a] /\ y = Pow[d] /\ 1 <= y
  BY PowPositive
<1>4. 1 * x <= y * x
  BY <1>3, TimesMonotone
<1>5. QED
  BY <1>2, <1>3, <1>4

(* Quotient and remainder.                                                 *)
LEMMA DivMod ==
  ASSUME NEW x \in Int, NEW d \in Nat \ {0}
  PROVE  /\ x \div d \in Int
         /\ x \in Nat => x \div d \in Nat
         /\ x % d \in 0 .. d - 1
         /\ x = (x \div d) * d + (x % d)
OBVIOUS

(* They are the only ones.                                                 *)
LEMMA DivModUnique ==
  ASSUME NEW x \in Int, NEW d \in Nat \ {0}, NEW q \in Int, NEW r \in 0 .. d - 1,
         x = q * d + r
  PROVE  x \div d = q /\ x % d = r
<1>1. PICK p \in Int, s \in 0 .. d - 1 : p = x \div d /\ s = x % d /\ x = p * d + s
  BY DivMod
<1>2. p * d \in Int /\ q * d \in Int
  OBVIOUS
<1>3. ~ p + 1 <= q
  <2>1. SUFFICES ASSUME p + 1 <= q PROVE FALSE
    OBVIOUS
  <2>2. (p + 1) * d <= q * d
    BY <2>1, TimesMonotone
  <2>3. (p + 1) * d = p * d + d
    OBVIOUS
  <2>4. QED
    BY <1>1, <1>2, <2>2, <2>3
<1>4. ~ q + 1 <= p
  <2>1. SUFFICES ASSUME q + 1 <= p PROVE FALSE
    OBVIOUS
  <2>2. (q + 1) * d <= p * d
    BY <2>1, TimesMonotone
  <2>3. (q + 1) * d = q * d + d
    OBVIOUS
  <2>4. QED
    BY <1>1, <1>2, <2>2, <2>3
<1>5. p = q
  BY <1>3, <1>4
<1>6. QED
  BY <1>1, <1>2, <1>5

(* The remainder of a number below the modulus is the number.              *)
LEMMA ModSmall ==
  ASSUME NEW d \in Nat \ {0}, NEW x \in 0 .. d - 1
  PROVE  x % d = x /\ x \div d = 0
<1>1. x = 0 * d + x
  OBVIOUS
<1>2. QED
  BY <1>1, DivModUnique

(* One bit more of x: bit n.                                               *)
LEMMA LowBitsStep ==
  ASSUME NEW x \in Nat, NEW n \in Nat
  PROVE  x % Pow[n + 1] = (x % Pow[n]) + ((x \div Pow[n]) % 2) * Pow[n]
<1>1. PICK d \in Nat \ {0} : d = Pow[n]
  BY PowPositive
<1>2. Pow[n + 1] = 2 * d
  BY <1>1, PowStep
<1>3. PICK q \in Nat, r \in 0 .. d - 1 : q = x \div d /\ r = x % d /\ x = q * d + r
  BY DivMod
<1>4. PICK h \in Nat, b \in 0 .. 1 : b = q % 2 /\ q = h * 2 + b
  BY DivMod
<1>5. x = h * (2 * d) + (r + b * d)
  <2>1. (h * 2 + b) * d = h * (2 * d) + b * d
    OBVIOUS
  <2>2. q * d = (h * 2 + b) * d
    BY <1>4
  <2>3. PICK u \in Int, v \in Int : u = h * (2 * d) /\ v = b * d
    OBVIOUS
  <2>4. x = (u + v) + r
    BY <1>3, <2>1, <2>2, <2>3
  <2>5. (u + v) + r = u + (r + v)
    OBVIOUS
  <2>6. QED
    BY <2>3, <2>4, <2>5
<1>6. b * d = 0 \/ b * d = d
  OBVIOUS
<1>7. 2 * d \in Nat \ {0} /\ r + b * d \in 0 .. (2 * d) - 1
  BY <1>6
<1>8. x % (2 * d) = r + b * d
  <2>1. PICK m \in Nat \ {0}, t \in Nat : m = 2 * d /\ t = r + b * d
                                      /\ t \in 0 .. m - 1
    BY <1>7
  <2>2. x = h * m + t
    BY <1>5, <2>1
  <2>3. x % m = t
    <3>1. x \in Int /\ h \in Int
      OBVIOUS
    <3>2. QED
      BY <2>1, <2>2, <3>1, DivModUnique
  <2>4. QED
    BY <2>1, <2>3
<1>9. QED
  BY <1>1, <1>2, <1>3, <1>4, <1>8

(* Two shifts to the right are one.                                        *)
LEMMA ShiftTwice ==
  ASSUME NEW x \in Nat, NEW a \in Nat, NEW b \in Nat
  PROVE  (x \div Pow[a]) \div Pow[b] = x \div Pow[a + b]
<1>1. PICK c \in Nat \ {0}, d \in Nat \ {0} : c = Pow[a] /\ d = Pow[b]
  BY PowPositive
<1>2. Pow[a + b] = c * d /\ c * d \in Nat \ {0}
  <2>1. Pow[a + b] = c * d
    BY <1>1, PowSum
  <2>2. a + b \in Nat
    OBVIOUS
  <2>3. Pow[a + b] \in Nat \ {0}
    BY <2>2, PowPositive
  <2>4. QED
    BY <2>1, <2>3
<1>3. PICK q \in Nat, r \in 0 .. c - 1 : q = x \div c /\ r = x % c /\ x = q * c + r
  BY DivMod
<1>4. PICK h \in Nat, s \in 0 .. d - 1 : h = q \div d /\ s = q % d /\ q = h * d + s
  BY DivMod
<1>5. x = h * (c * d) + (s * c + r)
  <2>1. (h * d + s) * c = h * (c * d) + s * c
    OBVIOUS
  <2>2. q * c = (h * d + s) * c
    BY <1>4
  <2>3. PICK u \in Int, v \in Int : u = h * (c * d) /\ v = s * c
    OBVIOUS
  <2>4. x = (u + v) + r
    BY <1>3, <2>1, <2>2, <2>3
  <2>5. (u + v) + r = u + (v + r)
    OBVIOUS
  <2>6. QED
    BY <2>3, <2>4, <2>5
<1>6. s * c + r \in 0 .. (c * d) - 1
  <2>1. s * c <= (d - 1) * c
    BY TimesMonotone
  <2>2. (d - 1) * c = c * d - c
    OBVIOUS
  <2>3. s * c \in Nat
    OBVIOUS
  <2>4. QED
    BY <2>1, <2>2, <2>3
<1>7. x \div (c * d) = h
  <2>1. PICK m \in Nat \ {0}, t \in Nat : m = c * d /\ t = s * c + r
                                      /\ t \in 0 .. m - 1
    BY <1>2, <1>6
  <2>2. x = h * m + t
    BY <1>5, <2>1
  <2>3. x \div m = h
    <3>1. x \in Int /\ h \in Int
      OBVIOUS
    <3>2. QED
      BY <2>1, <2>2, <3>1, DivModUnique
  <2>4. QED
    BY <2>1, <2>3
<1>8. QED
  BY <1>1, <1>2, <1>3, <1>4, <1>7

(* A negative number above minus the modulus wraps around.                 *)
LEMMA ModNegative ==
  ASSUME NEW d \in Nat \ {0}, NEW x \in 1 .. d
  PROVE  (0 - x) % d = d - x
<1>1. 0 - x = (0 - 1) * d + (d - x)
  OBVIOUS
<1>2. PICK y \in Int, q \in Int, r \in 0 .. d - 1 : y = 0 - x /\ q = 0 - 1 /\ r = d - x
  OBVIOUS
<1>3. y % d = r
  BY <1>1, <1>2, DivModUnique
<1>4. QED
  BY <1>2, <1>3

-----------------------------------------------------------------------------
(* The widths.                                                             *)
LEMMA Widths ==
  /\ bitsInByte \in Nat \ {0} /\ intBits \in Nat \ {0} /\ rawBits \in Nat \ {0}
  /\ CAN_MAX_DLC \in Nat \ {0} /\ MaxDlc \in Nat
  /\ CAN_MAX_DLC * bitsInByte \in Nat
  /\ CAN_MAX_DLC * bitsInByte <= rawBits /\ intBits <= rawBits
<1>1. bitsInByte \in Nat /\ CAN_MAX_DLC \in Nat
  BY WidthAssumption
<1>2. CAN_MAX_DLC * bitsInByte \in Nat
  BY <1>1
<1>3. QED
  BY <1>2, WidthAssumption

(* The place of a bit within a byte, and of the byte within the frame.     *)
LEMMA BitPlace ==
  ASSUME NEW b \in Nat, NEW n \in Nat, b < n * bitsInByte
  PROVE  /\ b % bitsInByte \in 0 .. bitsInByte - 1
         /\ b \div bitsInByte \in 0 .. n - 1
<1>1. PICK q \in Nat : q = b \div bitsInByte /\ b % bitsInByte \in 0 .. bitsInByte - 1
                       /\ b = q * bitsInByte + (b % bitsInByte)
  <2>1. b \in Int /\ bitsInByte \in Nat \ {0}
    BY Widths
  <2>2. /\ b \div bitsInByte \in Nat
        /\ b % bitsInByte \in 0 .. bitsInByte - 1
        /\ b = (b \div bitsInByte) * bitsInByte + (b % bitsInByte)
    BY <2>1, DivMod
  <2>3. QED
    BY <2>2
<1>2. ~ n <= q
  <2>1. SUFFICES ASSUME n <= q PROVE FALSE
    OBVIOUS
  <2>2. n * bitsInByte <= q * bitsInByte
    BY <2>1, Widths, TimesMonotone
  <2>3. n * bitsInByte \in Nat /\ q * bitsInByte \in Nat
    BY Widths
  <2>4. QED
    BY <1>1, <2>2, <2>3
<1>3. QED
  BY <1>1, <1>2

(* The signal sig is not empty and lies within the payload data.           *)
Fits(sig, data) ==
  /\ sig.startBit \in Nat /\ sig.len \in Nat \ {0}
  /\ sig.startBit + sig.len <= CAN_MAX_DLC * bitsInByte
  /\ data \in [ByteIndex -> Byte]

(* A bit of the payload is 0 or 1.                                         *)
LEMMA BitIsBit ==
  ASSUME NEW data \in [ByteIndex -> Byte], NEW i \in Nat, i < CAN_MAX_DLC * bitsInByte
  PROVE  Bit(data, i) \in 0 .. 1
<1>1. i \div bitsInByte \in ByteIndex /\ i % bitsInByte \in Nat
  <2>1. CAN_MAX_DLC \in Nat /\ bitsInByte \in Nat
    BY Widths
  <2>2. i % bitsInByte \in 0 .. bitsInByte - 1 /\ i \div bitsInByte \in 0 .. CAN_MAX_DLC - 1
    BY <2>1, BitPlace
  <2>3. QED
    BY <2>1, <2>2 DEF ByteIndex
<1>2. PICK x \in Nat, d \in Nat \ {0} : x = data[i \div bitsInByte]
                                        /\ d = Pow[i % bitsInByte]
  BY <1>1, PowPositive, Widths DEF Byte
<1>3. PICK y \in Nat : y = x \div d
  <2>1. x \in Int /\ d \in Nat \ {0}
    OBVIOUS
  <2>2. x \div d \in Nat
    BY <2>1, DivMod
  <2>3. QED
    BY <2>2
<1>4. y % 2 \in 0 .. 1
  OBVIOUS
<1>5. QED
  BY <1>2, <1>3, <1>4 DEF Bit, ShiftRight

(* A run of numbers is what a function defined by recursion on 0 .. N is.  *)
LEMMA RunEquation ==
  ASSUME NEW N \in Nat, NEW step \in Steps
  PROVE  \E h \in [0 .. N -> Int] :
           \A n \in 0 .. N : h[n] = IF n = 0 THEN 0 ELSE step[n - 1][h[n - 1]]
<1>1. PICK h : Runs(h, N, 0, step)
  BY RunExists
<1>2. ASSUME NEW n \in 0 .. N PROVE h[n] = IF n = 0 THEN 0 ELSE step[n - 1][h[n - 1]]
  <2>1. CASE n = 0
    BY <1>1, <2>1 DEF Runs
  <2>2. CASE n # 0
    <3>1. n - 1 \in 0 .. N - 1 /\ (n - 1) + 1 = n
      BY <2>2
    <3>2. QED
      BY <1>1, <2>2, <3>1 DEF Runs
  <2>3. QED
    BY <2>1, <2>2
<1>3. h \in [0 .. N -> Int]
  BY <1>1 DEF Runs
<1>4. QED
  BY <1>2, <1>3

(* What LittleEndian computes, one bit after the other.                    *)
LEMMA LittleEndianStep ==
  ASSUME NEW sig, NEW data, Fits(sig, data)
  PROVE  /\ LittleEndian(sig, data)[0] = 0
         /\ \A n \in 0 .. sig.len - 1 :
              LittleEndian(sig, data)[n + 1]
                = LittleEndian(sig, data)[n] + Bit(data, sig.startBit + n) * Pow[n]
<1> DEFINE add(n) == Bit(data, sig.startBit + n) * Pow[n]
           step == [n \in Nat |-> [x \in Int |-> IF n < sig.len THEN x + add(n) ELSE 0]]
           Is(v) == v = [n \in 0 .. sig.len |->
                          IF n = 0 THEN 0
                          ELSE v[n - 1] + Bit(data, sig.startBit + (n - 1)) * Pow[n - 1]]
<1>1. sig.len \in Nat /\ sig.startBit \in Nat /\ data \in [ByteIndex -> Byte]
      /\ sig.startBit + sig.len <= CAN_MAX_DLC * bitsInByte
  BY DEF Fits
<1>2. \A n \in Nat : n < sig.len => add(n) \in Int
  <2>1. SUFFICES ASSUME NEW n \in Nat, n < sig.len PROVE add(n) \in Int
    OBVIOUS
  <2>2. sig.startBit + n \in Nat /\ sig.startBit + n < CAN_MAX_DLC * bitsInByte
    BY <1>1, <2>1, Widths
  <2>3. Bit(data, sig.startBit + n) \in Int
    BY <1>1, <2>2, BitIsBit
  <2>4. Pow[n] \in Int
    BY PowPositive
  <2>5. QED
    BY <2>3, <2>4
<1>3. \A n \in Nat, x \in Int : n < sig.len => step[n][x] = x + add(n)
  OBVIOUS
<1>4. step \in Steps
  <2>1. \A n \in Nat, x \in Int : (IF n < sig.len THEN x + add(n) ELSE 0) \in Int
    BY <1>2
  <2> HIDE DEF add
  <2>2. QED
    BY <2>1 DEF Steps
<1> HIDE DEF step
<1>5. PICK h \in [0 .. sig.len -> Int] :
        \A n \in 0 .. sig.len : h[n] = IF n = 0 THEN 0 ELSE step[n - 1][h[n - 1]]
  BY <1>1, <1>4, RunEquation
<1>6. ASSUME NEW n \in 0 .. sig.len, n # 0
      PROVE  h[n] = h[n - 1] + Bit(data, sig.startBit + (n - 1)) * Pow[n - 1]
  <2>1. n - 1 \in Nat /\ n - 1 < sig.len /\ n - 1 \in 0 .. sig.len
    BY <1>1, <1>6
  <2>2. h[n - 1] \in Int
    BY <1>5, <2>1
  <2>3. step[n - 1][h[n - 1]] = h[n - 1] + add(n - 1)
    BY <1>3, <2>1, <2>2
  <2>4. QED
    BY <1>5, <1>6, <2>3
<1>7. Is(h)
  <2>1. h = [n \in 0 .. sig.len |-> h[n]]
    BY <1>5
  <2>2. \A n \in 0 .. sig.len : n = 0 => h[n] = 0
    BY <1>5
  <2>3. QED
    BY <1>6, <2>1, <2>2
<1>8. LittleEndian(sig, data) = CHOOSE v : Is(v)
  BY DEF LittleEndian
<1>9. Is(LittleEndian(sig, data))
  BY <1>7, <1>8
<1>10. PICK v : v = LittleEndian(sig, data)
  OBVIOUS
<1>11. \A n \in 0 .. sig.len : v[n] = IF n = 0 THEN 0 ELSE
          v[n - 1] + Bit(data, sig.startBit + (n - 1)) * Pow[n - 1]
  BY <1>9, <1>10
<1>12. v[0] = 0
  BY <1>1, <1>11
<1>13. ASSUME NEW n \in 0 .. sig.len - 1
       PROVE  v[n + 1] = v[n] + Bit(data, sig.startBit + n) * Pow[n]
  <2>1. n + 1 \in 0 .. sig.len /\ n + 1 # 0 /\ (n + 1) - 1 = n
    BY <1>1
  <2>2. QED
    BY <1>11, <2>1
<1>14. QED
  BY <1>10, <1>12, <1>13

(* The value of n bits is below 2 ^ n.                                     *)
LEMMA LittleEndianRange ==
  ASSUME NEW sig, NEW data, Fits(sig, data), NEW k \in 0 .. sig.len
  PROVE  LittleEndian(sig, data)[k] \in 0 .. Pow[k] - 1
<1> DEFINE v == LittleEndian(sig, data)
           T == {n \in Nat : n <= sig.len /\ v[n] \notin 0 .. Pow[n] - 1}
<1>1. sig.len \in Nat /\ sig.startBit \in Nat /\ data \in [ByteIndex -> Byte]
      /\ sig.startBit + sig.len <= CAN_MAX_DLC * bitsInByte
  BY DEF Fits
<1>2. /\ v[0] = 0
      /\ \A n \in 0 .. sig.len - 1 :
           v[n + 1] = v[n] + Bit(data, sig.startBit + n) * Pow[n]
  BY LittleEndianStep
<1> HIDE DEF v
<1>3. SUFFICES ASSUME T # {} PROVE FALSE
  BY <1>1 DEF v
<1>4. PICK m \in T : \A n \in T : m <= n
  BY <1>3, LeastNumber
<1>5. m # 0
  BY <1>2, PowStep
<1>6. PICK n \in Nat : m = n + 1 /\ n \notin T /\ n \in 0 .. sig.len - 1
  <2>1. m - 1 \in Nat /\ m - 1 \notin T /\ m = (m - 1) + 1 /\ m - 1 \in 0 .. sig.len - 1
    BY <1>1, <1>4, <1>5
  <2>2. QED
    BY <2>1
<1>7. v[n] \in 0 .. Pow[n] - 1
  BY <1>1, <1>6
<1>8. Bit(data, sig.startBit + n) \in 0 .. 1
  BY <1>1, <1>6, BitIsBit, Widths
<1>9. PICK p \in Nat, b \in 0 .. 1 : p = Pow[n] /\ b = Bit(data, sig.startBit + n)
  BY <1>8, PowPositive
<1>10. b * p \in 0 .. p
  BY <1>9
<1>11. Pow[m] = 2 * p /\ v[m] = v[n] + b * p
  BY <1>2, <1>6, <1>9, PowStep
<1>12. v[m] \in 0 .. Pow[m] - 1
  <2>1. PICK x \in 0 .. p - 1, y \in 0 .. p : x = v[n] /\ y = b * p
    BY <1>7, <1>9, <1>10
  <2>2. x + y \in 0 .. 2 * p - 1
    BY <2>1
  <2>3. QED
    BY <1>11, <2>1, <2>2
<1>13. QED
  BY <1>4, <1>12

(* How many bits the first i turns of the loop take: the i-th byte from    *)
(* the one where the signal starts, to its end or to that of the signal.   *)
Reached(sig, i) ==
  LET n == i * bitsInByte - (sig.startBit % bitsInByte)
  IN  IF i = 0 THEN 0 ELSE IF n < sig.len THEN n ELSE sig.len

(* The bits of one byte that turn i + 1 takes.                             *)
Piece(sig, data, i) ==
  LET place == sig.startBit + Reached(sig, i)
  IN  GetNbit(ShiftRight(data[place \div bitsInByte], place % bitsInByte),
              Reached(sig, i + 1) - Reached(sig, i))

(* The bit2Get of turn k + 1, and the place it starts from.                *)
LEMMA TurnTakes ==
  ASSUME NEW sig, NEW k \in Nat, sig.startBit \in Nat, sig.len \in Nat \ {0},
         Reached(sig, k) < sig.len
  PROVE  LET place == sig.startBit + Reached(sig, k)
             offset == IF k = 0 THEN sig.startBit % bitsInByte ELSE 0
             left == sig.len - Reached(sig, k)
             toByteEnd == bitsInByte - offset
         IN  /\ place % bitsInByte = offset
             /\ place \div bitsInByte = (sig.startBit \div bitsInByte) + k
             /\ offset \in 0 .. bitsInByte - 1
             /\ Reached(sig, k + 1)
                  = Reached(sig, k) + (IF toByteEnd < left THEN toByteEnd ELSE left)
             /\ Reached(sig, k) \in Nat
             /\ k # 0 => Reached(sig, k) = k * bitsInByte - (sig.startBit % bitsInByte)
<1>1. PICK B \in Nat \ {0}, s \in Nat, L \in Nat \ {0} :
        B = bitsInByte /\ s = sig.startBit /\ L = sig.len
  BY Widths
<1>2. PICK q \in Nat, r \in 0 .. B - 1 : q = s \div B /\ r = s % B /\ s = q * B + r
  <2>1. s \in Int
    OBVIOUS
  <2>2. s \div B \in Nat /\ s % B \in 0 .. B - 1 /\ s = (s \div B) * B + (s % B)
    BY <2>1, DivMod
  <2>3. QED
    BY <2>2
<1>3. (k + 1) * B = k * B + B /\ k * B \in Nat
  OBVIOUS
<1>4. CASE k = 0
  <2>1. Reached(sig, k) = 0
    BY <1>4 DEF Reached
  <2>2. (k + 1) * B - r = B - r
    BY <1>4
  <2>3. Reached(sig, k + 1) = IF B - r < L THEN B - r ELSE L
    BY <1>1, <1>2, <1>4, <2>2 DEF Reached
  <2>4. s + 0 = s /\ q + k = q /\ L - 0 = L
    BY <1>4
  <2>5. s % B = r /\ s \div B = q
    BY <1>2
  <2>6. 0 + (IF B - r < L THEN B - r ELSE L) = IF B - r < L THEN B - r ELSE L
    OBVIOUS
  <2>7. QED
    BY <1>1, <1>2, <1>4, <2>1, <2>3, <2>4, <2>5, <2>6
<1>5. CASE k # 0
  <2>1. PICK m \in Nat : m = k * B - r
    <3>1. 1 * B <= k * B
      BY <1>5, TimesMonotone
    <3>2. k * B - r \in Nat
      BY <1>3, <3>1
    <3>3. QED
      BY <3>2
  <2>2. Reached(sig, k) = IF m < L THEN m ELSE L
    BY <1>1, <1>2, <1>5, <2>1 DEF Reached
  <2>3. Reached(sig, k) = m /\ m < L
    BY <1>1, <2>1, <2>2
  <2>4. (k + 1) * B - r = m + B
    BY <1>3, <2>1
  <2>5. Reached(sig, k + 1) = IF m + B < L THEN m + B ELSE L
    BY <1>1, <1>2, <2>4 DEF Reached
  <2>6. s + m = (q + k) * B + 0
    <3>1. (q + k) * B = q * B + k * B
      OBVIOUS
    <3>2. PICK u \in Int, v \in Int : u = q * B /\ v = k * B
      OBVIOUS
    <3>3. s + m = u + v
      BY <1>2, <2>1, <3>2
    <3>4. QED
      BY <3>1, <3>2, <3>3
  <2>7. (s + m) % B = 0 /\ (s + m) \div B = q + k
    <3>1. PICK x \in Int, y \in Int, z \in 0 .. B - 1 :
            x = s + m /\ y = q + k /\ z = 0 /\ x = y * B + z
      BY <2>6
    <3>2. x \div B = y /\ x % B = z
      BY <3>1, DivModUnique
    <3>3. QED
      BY <3>1, <3>2
  <2>8. (IF m + B < L THEN m + B ELSE L) = m + (IF B - 0 < L - m THEN B - 0 ELSE L - m)
    OBVIOUS
  <2>9. k * bitsInByte - (sig.startBit % bitsInByte) = m
    BY <1>1, <1>2, <2>1
  <2>10. QED
    BY <1>1, <1>2, <1>5, <2>1, <2>3, <2>5, <2>7, <2>8, <2>9
<1>6. QED
  BY <1>4, <1>5

(* It gets further by one bit at least, and not beyond the signal.         *)
LEMMA TurnGetsFurther ==
  ASSUME NEW sig, NEW k \in Nat, sig.startBit \in Nat, sig.len \in Nat \ {0},
         Reached(sig, k) < sig.len
  PROVE  /\ Reached(sig, k) \in Nat
         /\ Reached(sig, k + 1) \in Reached(sig, k) + 1 .. sig.len
<1>1. PICK o \in Nat :
        /\ o \in 0 .. bitsInByte - 1
        /\ Reached(sig, k + 1) = Reached(sig, k)
             + (IF bitsInByte - o < sig.len - Reached(sig, k)
                THEN bitsInByte - o ELSE sig.len - Reached(sig, k))
        /\ Reached(sig, k) \in Nat
  <2> DEFINE o == IF k = 0 THEN sig.startBit % bitsInByte ELSE 0
  <2>1. o \in 0 .. bitsInByte - 1
    BY TurnTakes
  <2>2. o \in Nat
    BY <2>1, Widths
  <2>3. /\ Reached(sig, k + 1) = Reached(sig, k)
             + (IF bitsInByte - o < sig.len - Reached(sig, k)
                THEN bitsInByte - o ELSE sig.len - Reached(sig, k))
        /\ Reached(sig, k) \in Nat
    BY TurnTakes
  <2>4. QED
    BY <2>1, <2>2, <2>3
<1>2. QED
  BY <1>1, Widths

(* A bit of the byte that holds place, c bits above place.                 *)
LEMMA BitOfByte ==
  ASSUME NEW data \in [ByteIndex -> Byte], NEW place \in Nat, NEW c \in Nat,
         place + c < CAN_MAX_DLC * bitsInByte, (place % bitsInByte) + c < bitsInByte
  PROVE  /\ ShiftRight(data[place \div bitsInByte], place % bitsInByte) \in Nat
         /\ Bit(data, place + c)
              = (ShiftRight(data[place \div bitsInByte], place % bitsInByte) \div Pow[c]) % 2
<1>1. PICK B \in Nat \ {0} : B = bitsInByte
  BY Widths
<1>2. PICK q \in Nat, o \in 0 .. B - 1 :
        q = place \div B /\ o = place % B /\ place = q * B + o
  <2>1. place \in Int
    OBVIOUS
  <2>2. /\ place \div B \in Nat /\ place % B \in 0 .. B - 1
        /\ place = (place \div B) * B + (place % B)
    BY <2>1, DivMod
  <2>3. QED
    BY <2>2
<1>3. q \in ByteIndex
  <2>1. place < CAN_MAX_DLC * bitsInByte /\ CAN_MAX_DLC \in Nat
    BY Widths
  <2>2. place \div bitsInByte \in 0 .. CAN_MAX_DLC - 1
    BY <2>1, BitPlace
  <2>3. QED
    BY <1>1, <1>2, <2>2 DEF ByteIndex
<1>4. (place + c) \div B = q /\ (place + c) % B = o + c
  <2>1. PICK x \in Int, z \in 0 .. B - 1 : x = place + c /\ z = o + c /\ x = q * B + z
    BY <1>1, <1>2
  <2>2. q \in Int
    OBVIOUS
  <2>3. x \div B = q /\ x % B = z
    BY <2>1, <2>2, DivModUnique
  <2>4. QED
    BY <2>1, <2>3
<1>5. PICK x \in Nat : x = data[q]
  BY <1>3, PowPositive, Widths DEF Byte
<1>6. Bit(data, place + c) = (x \div Pow[o + c]) % 2
  BY <1>1, <1>4, <1>5 DEF Bit, ShiftRight
<1>7. (x \div Pow[o]) \div Pow[c] = x \div Pow[o + c]
  BY ShiftTwice
<1>8. ShiftRight(data[place \div bitsInByte], place % bitsInByte) = x \div Pow[o]
  BY <1>1, <1>2, <1>5 DEF ShiftRight
<1>9. x \div Pow[o] \in Nat
  <2>1. PICK d \in Nat \ {0} : d = Pow[o]
    BY PowPositive
  <2>2. x \in Int
    OBVIOUS
  <2>3. QED
    BY <2>1, <2>2, DivMod
<1>10. QED
  BY <1>6, <1>7, <1>8, <1>9

(* The bits within one byte add to the value what the byte shows, shifted  *)
(* to its place.                                                           *)
LEMMA LittleEndianPiece ==
  ASSUME NEW sig, NEW data, Fits(sig, data), NEW a \in Nat, NEW c \in Nat,
         a < sig.len, a + c <= sig.len,
         ((sig.startBit + a) % bitsInByte) + c <= bitsInByte
  PROVE  LET place == sig.startBit + a
             byte == ShiftRight(data[place \div bitsInByte], place % bitsInByte)
         IN  /\ GetNbit(byte, c) \in Nat
             /\ LittleEndian(sig, data)[a + c]
                  = LittleEndian(sig, data)[a] + GetNbit(byte, c) * Pow[a]
<1>1. /\ sig.len \in Nat /\ sig.startBit \in Nat /\ data \in [ByteIndex -> Byte]
      /\ sig.startBit + sig.len <= CAN_MAX_DLC * bitsInByte
  BY DEF Fits
<1>2. PICK place \in Nat : place = sig.startBit + a
  BY <1>1
<1>3. PICK v : v = LittleEndian(sig, data)
  OBVIOUS
<1>4. PICK o \in Nat : o = place % bitsInByte /\ o < bitsInByte
  <2>1. place < CAN_MAX_DLC * bitsInByte /\ CAN_MAX_DLC \in Nat
    BY <1>1, <1>2, Widths
  <2>2. place % bitsInByte \in 0 .. bitsInByte - 1
    BY <2>1, BitPlace
  <2>3. QED
    BY <2>2, Widths
<1>5. PICK x : x = ShiftRight(data[place \div bitsInByte], place % bitsInByte)
  OBVIOUS
<1>6. ASSUME NEW n \in Nat, n < c
      PROVE  Bit(data, place + n) = (x \div Pow[n]) % 2
  <2>1. place + n < CAN_MAX_DLC * bitsInByte
    BY <1>1, <1>2, <1>6, Widths
  <2>2. (place % bitsInByte) + n < bitsInByte
    BY <1>2, <1>4, <1>6, Widths
  <2>3. QED
    BY <1>1, <1>5, <2>1, <2>2, BitOfByte
<1>7. x \in Nat
  <2>1. place + 0 < CAN_MAX_DLC * bitsInByte
    BY <1>1, <1>2, Widths
  <2>2. (place % bitsInByte) + 0 < bitsInByte
    BY <1>4, Widths
  <2>3. QED
    BY <1>1, <1>5, <2>1, <2>2, BitOfByte
<1>8. v[a] \in Int
  BY <1>1, <1>3, LittleEndianRange, PowPositive
<1> DEFINE T == {n \in Nat : n <= c /\ v[a + n] # v[a] + (x % Pow[n]) * Pow[a]}
<1>9. T = {}
  <2>1. SUFFICES ASSUME T # {} PROVE FALSE
    OBVIOUS
  <2>2. PICK m \in T : \A n \in T : m <= n
    BY <2>1, LeastNumber
  <2>3. m # 0
    <3>1. x % 1 = 0
      BY <1>7
    <3>2. v[a] + 0 * Pow[a] = v[a]
      BY <1>8, PowPositive
    <3>3. a + 0 = a
      OBVIOUS
    <3>4. QED
      BY <3>1, <3>2, <3>3, PowStep
  <2>4. PICK n \in Nat : m = n + 1 /\ n < c /\ n \notin T
    <3>1. m - 1 \in Nat /\ m = (m - 1) + 1 /\ m - 1 < c /\ m - 1 \notin T
      BY <2>2, <2>3
    <3>2. QED
      BY <3>1
  <2>5. v[a + n] = v[a] + (x % Pow[n]) * Pow[a]
    BY <2>4
  <2>6. v[a + m] = v[a + n] + Bit(data, place + n) * Pow[a + n]
    <3>1. a + n \in 0 .. sig.len - 1 /\ (a + n) + 1 = a + m
          /\ sig.startBit + (a + n) = place + n
      BY <1>1, <1>2, <2>4
    <3>2. QED
      BY <1>3, <3>1, LittleEndianStep
  <2>7. PICK y \in Nat, b \in Nat, p \in Nat, s \in Nat :
          y = x % Pow[n] /\ b = (x \div Pow[n]) % 2 /\ p = Pow[a] /\ s = Pow[n]
    <3>1. PICK d \in Nat \ {0} : d = Pow[n]
      BY PowPositive
    <3>2. PICK z \in Nat : z = x
      BY <1>7
    <3>3. x % d \in Nat /\ x \div d \in Nat
      <4>1. z \in Int
        OBVIOUS
      <4>2. z % d \in 0 .. d - 1 /\ z \div d \in Nat
        BY <4>1, DivMod
      <4>3. QED
        BY <3>2, <4>2
    <3>4. (x \div d) % 2 \in Nat
      BY <3>3
    <3>5. Pow[a] \in Nat
      BY PowPositive
    <3>6. QED
      BY <3>1, <3>3, <3>4, <3>5
  <2>8. x % Pow[m] = y + b * s
    BY <1>7, <2>4, <2>7, LowBitsStep
  <2>9. Bit(data, place + n) * Pow[a + n] = b * (p * s)
    BY <1>6, <2>4, <2>7, PowSum
  <2>10. (v[a] + y * p) + b * (p * s) = v[a] + (y + b * s) * p
    <3>1. PICK w \in Int : w = v[a]
      BY <1>8
    <3>2. (w + y * p) + b * (p * s) = w + (y + b * s) * p
      OBVIOUS
    <3>3. QED
      BY <3>1, <3>2
  <2>11. v[a + m] = v[a] + (x % Pow[m]) * Pow[a]
    BY <2>5, <2>6, <2>7, <2>8, <2>9, <2>10
  <2>12. QED
    BY <2>2, <2>11
<1>10. v[a + c] = v[a] + GetNbit(x, c) * Pow[a]
  BY <1>9 DEF GetNbit
<1>11. GetNbit(x, c) \in Nat
  <2>1. PICK d \in Nat \ {0} : d = Pow[c]
    BY PowPositive
  <2>2. PICK z \in Nat : z = x
    BY <1>7
  <2>3. z % d \in 0 .. d - 1
    BY DivMod
  <2>4. QED
    BY <2>1, <2>2, <2>3 DEF GetNbit
<1>12. QED
  BY <1>2, <1>3, <1>5, <1>10, <1>11

(* A little-endian signal that starts with a byte, or lies within one, and *)
(* is shorter than an int.                                                 *)
LittleOK(sig) ==
  /\ (sig.startBit % bitsInByte = 0
      \/ (sig.startBit % bitsInByte) + sig.len <= bitsInByte)
  /\ sig.len < intBits

(* No bit of such a piece reaches the sign of the int it is shifted in.    *)
LEMMA ShiftedIntIsProduct ==
  ASSUME NEW d \in Nat, NEW s \in Nat, d * Pow[s] < Pow[intBits - 1]
  PROVE  ShiftedInt(d, s) = d * Pow[s]
<1>1. PICK m \in Nat \ {0}, h \in Nat \ {0}, x \in Nat :
        m = Pow[intBits] /\ h = Pow[intBits - 1] /\ x = d * Pow[s] /\ h <= m /\ x < h
  <2>1. intBits - 1 \in Nat /\ intBits \in Nat /\ intBits - 1 <= intBits
    BY Widths
  <2>2. Pow[intBits - 1] <= Pow[intBits]
    BY <2>1, PowMonotone
  <2>3. Pow[s] \in Nat /\ Pow[intBits - 1] \in Nat \ {0} /\ Pow[intBits] \in Nat \ {0}
    BY <2>1, PowPositive
  <2>4. d * Pow[s] \in Nat
    BY <2>3
  <2>5. QED
    BY <2>2, <2>3, <2>4
<1>2. x \in 0 .. m - 1
  BY <1>1
<1>3. x % m = x
  BY <1>2, ModSmall
<1>4. ~ x >= h
  BY <1>1
<1>5. QED
  BY <1>1, <1>3, <1>4 DEF ShiftedInt

(* Where the little-endian piece of turn k + 1 belongs.                    *)
LEMMA LittleEndianPlace ==
  ASSUME NEW sig, NEW k \in Nat, sig.startBit \in Nat, sig.len \in Nat \ {0},
         LittleOK(sig), Reached(sig, k) < sig.len
  PROVE  Reached(sig, k) = bitsInByte * k
<1>1. PICK B \in Nat \ {0}, L \in Nat \ {0} : B = bitsInByte /\ L = sig.len
  BY Widths
<1>2. PICK r \in 0 .. B - 1 : r = sig.startBit % B
  BY <1>1
<1>3. CASE k = 0
  <2>1. B * 0 = 0
    OBVIOUS
  <2>2. Reached(sig, k) = 0
    BY <1>3 DEF Reached
  <2>3. QED
    BY <1>1, <1>3, <2>1, <2>2
<1>4. CASE k # 0
  <2>1. Reached(sig, k) = k * B - r
    BY <1>1, <1>2, <1>4, TurnTakes
  <2>2. 1 * B <= k * B /\ k * B \in Nat /\ k * B = B * k
    BY <1>4, TimesMonotone
  <2>3. ~ r + L <= B
    BY <1>1, <2>1, <2>2
  <2>4. r = 0
    BY <1>1, <1>2, <2>3 DEF LittleOK
  <2>5. QED
    BY <1>1, <2>1, <2>2, <2>4
<1>5. QED
  BY <1>3, <1>4

(* A turn of the loop that puts the pieces together, least byte first.     *)
LEMMA LittleEndianTurn ==
  ASSUME NEW sig, NEW data, NEW k \in Nat, Fits(sig, data),
         LittleOK(sig), Reached(sig, k) < sig.len
  PROVE  (LittleEndian(sig, data)[Reached(sig, k)]
            + ShiftedInt(Piece(sig, data, k), bitsInByte * k)) % Pow[rawBits]
         = LittleEndian(sig, data)[Reached(sig, k + 1)]
<1>1. /\ sig.startBit \in Nat /\ sig.len \in Nat \ {0} /\ sig.len \in Nat
      /\ sig.startBit + sig.len <= CAN_MAX_DLC * bitsInByte
  BY DEF Fits
<1>2. PICK a \in Nat, c \in Nat :
        a = Reached(sig, k) /\ Reached(sig, k + 1) = a + c /\ a + c <= sig.len
        /\ c = Reached(sig, k + 1) - Reached(sig, k)
  <2>1. Reached(sig, k) \in Nat /\ Reached(sig, k + 1) \in Reached(sig, k) + 1 .. sig.len
    BY <1>1, TurnGetsFurther
  <2>2. Reached(sig, k + 1) - Reached(sig, k) \in Nat
    BY <1>1, <2>1
  <2>3. QED
    BY <1>1, <2>1, <2>2
<1>3. ((sig.startBit + a) % bitsInByte) + c <= bitsInByte
  <2>1. PICK o \in Int :
          /\ o = (sig.startBit + a) % bitsInByte /\ o \in 0 .. bitsInByte - 1
          /\ Reached(sig, k + 1) = Reached(sig, k)
               + (IF bitsInByte - o < sig.len - Reached(sig, k)
                  THEN bitsInByte - o ELSE sig.len - Reached(sig, k))
    <3> DEFINE o == IF k = 0 THEN sig.startBit % bitsInByte ELSE 0
    <3>1. o \in 0 .. bitsInByte - 1 /\ o = (sig.startBit + a) % bitsInByte
      BY <1>1, <1>2, TurnTakes
    <3>2. o \in Int
      BY <3>1, Widths
    <3>3. Reached(sig, k + 1) = Reached(sig, k)
               + (IF bitsInByte - o < sig.len - Reached(sig, k)
                  THEN bitsInByte - o ELSE sig.len - Reached(sig, k))
      BY <1>1, TurnTakes
    <3>4. QED
      BY <3>1, <3>2, <3>3
  <2>2. QED
    BY <1>1, <1>2, <2>1, Widths
<1>4. PICK d \in Nat : d = Piece(sig, data, k)
        /\ LittleEndian(sig, data)[a + c] = LittleEndian(sig, data)[a] + d * Pow[a]
  <2> DEFINE byte == ShiftRight(data[(sig.startBit + a) \div bitsInByte],
                                (sig.startBit + a) % bitsInByte)
  <2>1. a < sig.len
    BY <1>2
  <2>2. /\ GetNbit(byte, c) \in Nat
        /\ LittleEndian(sig, data)[a + c]
             = LittleEndian(sig, data)[a] + GetNbit(byte, c) * Pow[a]
    BY <1>2, <1>3, <2>1, LittleEndianPiece
  <2>3. Piece(sig, data, k) = GetNbit(byte, c)
    BY <1>2 DEF Piece
  <2> HIDE DEF byte
  <2>4. QED
    BY <2>2, <2>3
<1>5. PICK u \in Nat, w \in Nat :
        /\ u = LittleEndian(sig, data)[a] /\ w = LittleEndian(sig, data)[a + c]
        /\ w < Pow[a + c]
  <2>1. a \in 0 .. sig.len /\ a + c \in 0 .. sig.len
    BY <1>1, <1>2
  <2>2. LittleEndian(sig, data)[a] \in 0 .. Pow[a] - 1
        /\ LittleEndian(sig, data)[a + c] \in 0 .. Pow[a + c] - 1
    BY <2>1, LittleEndianRange
  <2>3. Pow[a] \in Nat /\ Pow[a + c] \in Nat
    BY PowPositive
  <2>4. QED
    BY <2>2, <2>3
<1>6. Pow[a + c] <= Pow[intBits - 1] /\ Pow[a + c] <= Pow[rawBits]
  <2>1. a + c \in Nat /\ intBits - 1 \in Nat /\ rawBits \in Nat
        /\ a + c <= intBits - 1 /\ a + c <= rawBits
    BY <1>1, <1>2, Widths DEF LittleOK
  <2>2. QED
    BY <2>1, PowMonotone
<1>7. PICK x \in Nat : x = d * Pow[a] /\ w = u + x
  <2>1. d * Pow[a] \in Nat
    BY PowPositive
  <2>2. QED
    BY <1>4, <1>5, <2>1
<1>8. PICK p \in Nat, h \in Nat, m \in Nat \ {0} :
        p = Pow[a + c] /\ h = Pow[intBits - 1] /\ m = Pow[rawBits]
  <2>1. intBits - 1 \in Nat /\ rawBits \in Nat /\ a + c \in Nat
    BY Widths
  <2>2. QED
    BY <2>1, PowPositive
<1>9. x < h /\ w \in 0 .. m - 1
  BY <1>5, <1>6, <1>7, <1>8
<1>10. ShiftedInt(d, a) = x
  BY <1>7, <1>8, <1>9, ShiftedIntIsProduct
<1>11. a = bitsInByte * k
  BY <1>1, <1>2, LittleEndianPlace
<1>12. w % m = w
  BY <1>9, ModSmall
<1>13. QED
  BY <1>2, <1>4, <1>5, <1>7, <1>8, <1>10, <1>11, <1>12

(* A whole byte of the signal.                                             *)
LEMMA ByteOfSignal ==
  ASSUME NEW sig, NEW data, Fits(sig, data), NEW n \in Nat, n < sig.len \div bitsInByte
  PROVE  data[(sig.startBit \div bitsInByte) + n] \in 0 .. Pow[bitsInByte] - 1
<1>1. PICK B \in Nat \ {0}, s \in Nat, L \in Nat, D \in Nat :
        B = bitsInByte /\ s = sig.startBit /\ L = sig.len /\ D = CAN_MAX_DLC
        /\ s + L <= D * B
  BY Widths DEF Fits
<1>2. PICK q \in Nat : q = s \div B /\ q * B <= s
  <2>1. s \in Int
    OBVIOUS
  <2>2. s \div B \in Nat /\ s % B \in 0 .. B - 1 /\ s = (s \div B) * B + (s % B)
    BY <2>1, DivMod
  <2>3. (s \div B) * B \in Nat
    BY <2>2
  <2>4. QED
    BY <2>2, <2>3
<1>3. PICK m \in Nat : m = L \div B /\ m * B <= L
  <2>1. L \in Int
    OBVIOUS
  <2>2. L \div B \in Nat /\ L % B \in 0 .. B - 1 /\ L = (L \div B) * B + (L % B)
    BY <2>1, DivMod
  <2>3. (L \div B) * B \in Nat
    BY <2>2
  <2>4. QED
    BY <2>2, <2>3
<1>4. q + n < D
  <2>1. SUFFICES ASSUME D <= q + n PROVE FALSE
    OBVIOUS
  <2>2. D * B <= (q + n) * B
    BY <2>1, TimesMonotone
  <2>3. (n + 1) * B <= m * B
    BY <1>1, <1>3, TimesMonotone
  <2>4. (q + n) * B = q * B + n * B /\ (n + 1) * B = n * B + B
    OBVIOUS
  <2>5. PICK u \in Nat, v \in Nat, w \in Nat, z \in Nat :
          u = q * B /\ v = n * B /\ w = m * B /\ z = D * B
    OBVIOUS
  <2>6. z <= u + v /\ v + B <= w /\ u <= s /\ w <= L /\ s + L <= z
    BY <1>1, <1>2, <1>3, <2>2, <2>3, <2>4, <2>5
  <2>7. QED
    BY <2>6
<1>5. q + n \in ByteIndex
  BY <1>1, <1>4 DEF ByteIndex
<1>6. QED
  BY <1>1, <1>2, <1>5 DEF Fits, Byte

(* What BigEndian computes, one byte after the other.                      *)
LEMMA BigEndianStep ==
  ASSUME NEW sig, NEW data, Fits(sig, data)
  PROVE  /\ BigEndian(sig, data)[0] = 0
         /\ \A n \in 0 .. (sig.len \div bitsInByte) - 1 :
              BigEndian(sig, data)[n + 1]
                = BigEndian(sig, data)[n] * Pow[bitsInByte]
                    + data[(sig.startBit \div bitsInByte) + n]
<1>1. PICK N \in Nat, P \in Int : N = sig.len \div bitsInByte /\ P = Pow[bitsInByte]
  <2>1. PICK L \in Nat : L = sig.len
    BY DEF Fits
  <2>2. L \in Int /\ bitsInByte \in Nat \ {0} /\ bitsInByte \in Nat
    BY Widths
  <2>3. L \div bitsInByte \in Nat
    BY <2>2, DivMod
  <2>4. Pow[bitsInByte] \in Int
    BY <2>2, PowPositive
  <2>5. QED
    BY <2>1, <2>3, <2>4
<1> DEFINE byte(n) == data[(sig.startBit \div bitsInByte) + n]
           step == [n \in Nat |-> [x \in Int |-> IF n < N THEN x * P + byte(n) ELSE 0]]
           Is(v) == v = [n \in 0 .. sig.len \div bitsInByte |->
                          IF n = 0 THEN 0
                          ELSE v[n - 1] * Pow[bitsInByte]
                                 + data[(sig.startBit \div bitsInByte) + (n - 1)]]
<1>2. \A n \in Nat : n < N => byte(n) \in Int
  <2>1. SUFFICES ASSUME NEW n \in Nat, n < N PROVE byte(n) \in Int
    OBVIOUS
  <2>2. byte(n) \in 0 .. Pow[bitsInByte] - 1
    BY <1>1, <2>1, ByteOfSignal
  <2>3. QED
    BY <1>1, <2>2
<1>3. \A n \in Nat, x \in Int : n < N => step[n][x] = x * P + byte(n)
  OBVIOUS
<1>4. step \in Steps
  <2>1. \A n \in Nat, x \in Int : (IF n < N THEN x * P + byte(n) ELSE 0) \in Int
    BY <1>2
  <2> HIDE DEF byte
  <2>2. QED
    BY <2>1 DEF Steps
<1> HIDE DEF step
<1>5. PICK h \in [0 .. N -> Int] :
        \A n \in 0 .. N : h[n] = IF n = 0 THEN 0 ELSE step[n - 1][h[n - 1]]
  BY <1>4, RunEquation
<1>6. ASSUME NEW n \in 0 .. N, n # 0
      PROVE  h[n] = h[n - 1] * P + byte(n - 1)
  <2>1. n - 1 \in Nat /\ n - 1 < N /\ n - 1 \in 0 .. N
    BY <1>6
  <2>2. h[n - 1] \in Int
    BY <1>5, <2>1
  <2>3. step[n - 1][h[n - 1]] = h[n - 1] * P + byte(n - 1)
    BY <1>3, <2>1, <2>2
  <2>4. QED
    BY <1>5, <1>6, <2>3
<1>7. Is(h)
  <2>1. h = [n \in 0 .. N |-> h[n]]
    BY <1>5
  <2>2. \A n \in 0 .. N : n = 0 => h[n] = 0
    BY <1>5
  <2>3. h = [n \in 0 .. N |-> IF n = 0 THEN 0 ELSE h[n - 1] * P + byte(n - 1)]
    BY <1>6, <2>1, <2>2
  <2>4. QED
    BY <1>1, <2>3
<1>8. BigEndian(sig, data) = CHOOSE v : Is(v)
  BY DEF BigEndian
<1>9. Is(BigEndian(sig, data))
  BY <1>7, <1>8
<1>10. PICK v : v = BigEndian(sig, data)
  OBVIOUS
<1>11. \A n \in 0 .. N : v[n] = IF n = 0 THEN 0 ELSE v[n - 1] * P + byte(n - 1)
  BY <1>1, <1>9, <1>10
<1>12. v[0] = 0
  BY <1>11
<1>13. ASSUME NEW n \in 0 .. N - 1
       PROVE  v[n + 1] = v[n] * P + byte(n)
  <2>1. n + 1 \in 0 .. N /\ n + 1 # 0 /\ (n + 1) - 1 = n
    OBVIOUS
  <2>2. QED
    BY <1>11, <2>1
<1>14. QED
  BY <1>1, <1>10, <1>12, <1>13

(* The value of n bytes takes n bytes.                                     *)
LEMMA BigEndianRange ==
  ASSUME NEW sig, NEW data, Fits(sig, data),
         NEW k \in Nat, k <= sig.len \div bitsInByte
  PROVE  BigEndian(sig, data)[k] \in 0 .. Pow[k * bitsInByte] - 1
<1>1. PICK N \in Int, B \in Nat \ {0} : N = sig.len \div bitsInByte /\ B = bitsInByte
  <2>1. PICK L \in Nat : L = sig.len
    BY DEF Fits
  <2>2. L \in Int /\ bitsInByte \in Nat \ {0}
    BY Widths
  <2>3. L \div bitsInByte \in Int
    BY <2>2, DivMod
  <2>4. QED
    BY <2>1, <2>2, <2>3
<1> DEFINE v == BigEndian(sig, data)
           T == {n \in Nat : n <= N /\ v[n] \notin 0 .. Pow[n * B] - 1}
<1>2. /\ v[0] = 0
      /\ \A n \in 0 .. N - 1 :
           v[n + 1] = v[n] * Pow[B] + data[(sig.startBit \div B) + n]
  BY <1>1, BigEndianStep
<1> HIDE DEF v
<1>3. SUFFICES ASSUME T # {} PROVE FALSE
  BY <1>1 DEF v
<1>4. PICK m \in T : \A n \in T : m <= n
  BY <1>3, LeastNumber
<1>5. m # 0
  <2>1. 0 * B = 0
    OBVIOUS
  <2>2. QED
    BY <1>2, <2>1, PowStep
<1>6. PICK n \in Nat : m = n + 1 /\ n \notin T /\ n \in 0 .. N - 1
  <2>1. m - 1 \in Nat /\ m - 1 \notin T /\ m = (m - 1) + 1 /\ m - 1 \in 0 .. N - 1
    BY <1>1, <1>4, <1>5
  <2>2. QED
    BY <2>1
<1>7. v[n] \in 0 .. Pow[n * B] - 1
  BY <1>1, <1>6
<1>8. PICK p \in Nat, c \in Nat \ {0}, x \in Nat, d \in Nat :
        /\ p = Pow[n * B] /\ c = Pow[B] /\ x = v[n] /\ x <= p - 1
        /\ d = data[(sig.startBit \div B) + n] /\ d < c
  <2>1. n * B \in Nat /\ B \in Nat
    OBVIOUS
  <2>2. Pow[n * B] \in Nat /\ Pow[B] \in Nat \ {0}
    BY <2>1, PowPositive
  <2>3. data[(sig.startBit \div B) + n] \in 0 .. Pow[B] - 1
    BY <1>1, <1>6, ByteOfSignal
  <2>4. QED
    BY <1>7, <2>2, <2>3
<1>9. Pow[m * B] = p * c
  <2>1. (n + 1) * B = n * B + B
    OBVIOUS
  <2>2. PICK e \in Nat, f \in Nat : e = n * B /\ f = B
    OBVIOUS
  <2>3. Pow[e + f] = Pow[e] * Pow[f]
    BY PowSum
  <2>4. QED
    BY <1>6, <1>8, <2>1, <2>2, <2>3
<1>10. v[m] = x * c + d
  BY <1>2, <1>6, <1>8
<1>11. x * c + d \in 0 .. (p * c) - 1
  <2>1. x * c <= (p - 1) * c
    BY <1>8, TimesMonotone
  <2>2. (p - 1) * c = p * c - c
    OBVIOUS
  <2>3. x * c \in Nat /\ p * c \in Nat
    OBVIOUS
  <2>4. QED
    BY <1>8, <2>1, <2>2, <2>3
<1>12. QED
  BY <1>4, <1>9, <1>10, <1>11

(* A big-endian signal of whole bytes.                                     *)
BigOK(sig) == sig.startBit % bitsInByte = 0 /\ sig.len % bitsInByte = 0

(* A turn of the loop takes one of its bytes, if any is left.              *)
LEMMA BigEndianPlace ==
  ASSUME NEW sig, NEW k \in Nat, sig.startBit \in Nat, sig.len \in Nat \ {0},
         BigOK(sig), Reached(sig, k) < sig.len
  PROVE  /\ k < sig.len \div bitsInByte
         /\ Reached(sig, k + 1) = Reached(sig, k) + bitsInByte
         /\ (sig.startBit + Reached(sig, k)) % bitsInByte = 0
         /\ (sig.startBit + Reached(sig, k)) \div bitsInByte
              = (sig.startBit \div bitsInByte) + k
         /\ Reached(sig, k + 1) = sig.len <=> k + 1 = sig.len \div bitsInByte
<1>1. PICK B \in Nat \ {0}, L \in Nat \ {0} : B = bitsInByte /\ L = sig.len
  BY Widths
<1>2. PICK m \in Nat : m = L \div B /\ L = m * B
  <2>1. L \in Int
    OBVIOUS
  <2>2. L \div B \in Nat /\ L = (L \div B) * B + (L % B)
    BY <2>1, DivMod
  <2>3. L % B = 0 /\ (L \div B) * B \in Nat
    BY <1>1, <2>2 DEF BigOK
  <2>4. QED
    BY <2>2, <2>3
<1>3. sig.startBit % B = 0
  BY <1>1 DEF BigOK
<1>4. PICK a \in Nat : a = Reached(sig, k) /\ a = k * B
  <2>1. Reached(sig, k) = k * B
    <3>1. CASE k = 0
      <4>1. 0 * B = 0
        OBVIOUS
      <4>2. QED
        BY <3>1, <4>1 DEF Reached
    <3>2. CASE k # 0
      <4>1. Reached(sig, k) = k * B - 0
        BY <1>1, <1>3, <3>2, TurnTakes
      <4>2. k * B \in Nat
        OBVIOUS
      <4>3. QED
        BY <4>1, <4>2
    <3>3. QED
      BY <3>1, <3>2
  <2>2. k * B \in Nat
    OBVIOUS
  <2>3. QED
    BY <2>1, <2>2
<1>5. k < m
  <2>1. SUFFICES ASSUME m <= k PROVE FALSE
    OBVIOUS
  <2>2. m * B <= k * B
    BY <2>1, TimesMonotone
  <2>3. QED
    BY <1>1, <1>2, <1>4, <2>2
<1>6. a + B <= L
  <2>1. (k + 1) * B <= m * B
    BY <1>5, TimesMonotone
  <2>2. (k + 1) * B = k * B + B
    OBVIOUS
  <2>3. QED
    BY <1>2, <1>4, <2>1, <2>2
<1>7. PICK o \in Nat :
        /\ o = 0
        /\ (sig.startBit + a) % B = o /\ (sig.startBit + a) \div B = (sig.startBit \div B) + k
        /\ Reached(sig, k + 1) = a + (IF B - o < L - a THEN B - o ELSE L - a)
  <2> DEFINE o == IF k = 0 THEN sig.startBit % bitsInByte ELSE 0
  <2>1. o = 0
    BY <1>1, <1>3
  <2>2. /\ (sig.startBit + Reached(sig, k)) % bitsInByte = o
        /\ (sig.startBit + Reached(sig, k)) \div bitsInByte
             = (sig.startBit \div bitsInByte) + k
        /\ Reached(sig, k + 1) = Reached(sig, k)
             + (IF bitsInByte - o < sig.len - Reached(sig, k)
                THEN bitsInByte - o ELSE sig.len - Reached(sig, k))
    BY TurnTakes
  <2> HIDE DEF o
  <2>3. QED
    BY <1>1, <1>4, <2>1, <2>2
<1>8. Reached(sig, k + 1) = a + B
  <2>1. (IF B - o < L - a THEN B - o ELSE L - a) = B
    <3>1. B - o = B /\ ~(L - a < B)
      BY <1>6, <1>7
    <3>2. CASE B < L - a
      BY <3>1, <3>2
    <3>3. CASE ~(B < L - a)
      <4>1. L - a = B
        BY <3>1, <3>3
      <4>2. QED
        BY <3>1, <4>1
    <3>4. QED
      BY <3>2, <3>3
  <2>2. QED
    BY <1>7, <2>1
<1>9. (sig.startBit + a) % B = 0 /\ (sig.startBit + a) \div B = (sig.startBit \div B) + k
  BY <1>7
<1>10. a + B = L <=> k + 1 = m
  <2>1. ASSUME k + 1 # m PROVE a + B # L
    <3>1. (k + 2) * B <= m * B
      BY <1>5, <2>1, TimesMonotone
    <3>2. (k + 2) * B = k * B + 2 * B
      OBVIOUS
    <3>3. QED
      BY <1>2, <1>4, <3>1, <3>2
  <2>2. ASSUME k + 1 = m PROVE a + B = L
    <3>1. (k + 1) * B = k * B + B
      OBVIOUS
    <3>2. QED
      BY <1>2, <1>4, <2>2, <3>1
  <2>3. QED
    BY <2>1, <2>2
<1>11. QED
  BY <1>1, <1>2, <1>4, <1>5, <1>8, <1>9, <1>10

(* A turn of the loop that puts the pieces together, greatest byte first.  *)
LEMMA BigEndianTurn ==
  ASSUME NEW sig, NEW data, NEW k \in Nat, Fits(sig, data),
         BigOK(sig), Reached(sig, k) < sig.len
  PROVE  (BigEndian(sig, data)[k] * Pow[bitsInByte] + Piece(sig, data, k)) % Pow[rawBits]
         = BigEndian(sig, data)[k + 1]
<1>1. /\ sig.startBit \in Nat /\ sig.len \in Nat \ {0} /\ sig.len \in Nat
      /\ sig.startBit + sig.len <= CAN_MAX_DLC * bitsInByte
  BY DEF Fits
<1>2. PICK B \in Nat \ {0}, a \in Nat : B = bitsInByte /\ a = Reached(sig, k)
  BY <1>1, TurnGetsFurther, Widths
<1>3. /\ k < sig.len \div B
      /\ Reached(sig, k + 1) = a + B
      /\ (sig.startBit + a) % B = 0
      /\ (sig.startBit + a) \div B = (sig.startBit \div B) + k
  BY <1>1, <1>2, BigEndianPlace
<1>4. PICK d \in Nat, c \in Nat \ {0} : d = data[(sig.startBit \div B) + k]
        /\ c = Pow[B] /\ d \in 0 .. c - 1
  <2>1. data[(sig.startBit \div B) + k] \in 0 .. Pow[B] - 1
    BY <1>2, <1>3, ByteOfSignal
  <2>2. B \in Nat
    OBVIOUS
  <2>3. Pow[B] \in Nat \ {0}
    BY <2>2, PowPositive
  <2>4. QED
    BY <2>1, <2>3
<1>5. Piece(sig, data, k) = d
  <2>1. (a + B) - a = B
    OBVIOUS
  <2>2. Piece(sig, data, k) = (d \div Pow[0]) % c
    BY <1>2, <1>3, <1>4, <2>1 DEF Piece, GetNbit, ShiftRight
  <2>3. Pow[0] = 1 /\ d \div 1 = d
    BY PowStep
  <2>4. d % c = d
    BY <1>4, ModSmall
  <2>5. QED
    BY <2>2, <2>3, <2>4
<1>6. BigEndian(sig, data)[k + 1] = BigEndian(sig, data)[k] * c + d
  <2>1. PICK N \in Int : N = sig.len \div B
    <3>1. PICK L \in Nat : L = sig.len
      BY <1>1
    <3>2. L \in Int
      OBVIOUS
    <3>3. L \div B \in Int
      BY <3>2, DivMod
    <3>4. QED
      BY <3>1, <3>3
  <2>2. k \in 0 .. N - 1
    BY <1>3, <2>1
  <2>3. QED
    BY <1>2, <1>4, <2>1, <2>2, BigEndianStep
<1>7. PICK w \in Nat, p \in Nat, m \in Nat \ {0} :
        /\ w = BigEndian(sig, data)[k + 1] /\ p = Pow[(k + 1) * B] /\ m = Pow[rawBits]
        /\ w < p
  <2>1. k + 1 <= sig.len \div B
    <3>1. PICK L \in Nat : L = sig.len
      BY <1>1
    <3>2. L \in Int
      OBVIOUS
    <3>3. L \div B \in Int
      BY <3>2, DivMod
    <3>4. QED
      BY <1>3, <3>1, <3>3
  <2>2. BigEndian(sig, data)[k + 1] \in 0 .. Pow[(k + 1) * B] - 1
    <3>1. k + 1 \in Nat
      OBVIOUS
    <3>2. QED
      BY <1>2, <2>1, <3>1, BigEndianRange
  <2>3. (k + 1) * B \in Nat /\ rawBits \in Nat
    BY Widths
  <2>4. Pow[(k + 1) * B] \in Nat /\ Pow[rawBits] \in Nat \ {0}
    BY <2>3, PowPositive
  <2>5. QED
    BY <2>2, <2>4
<1>8. p <= m
  <2>1. (k + 1) * B <= rawBits /\ (k + 1) * B \in Nat /\ rawBits \in Nat
    <3>1. PICK L \in Nat : L = sig.len
      BY <1>1
    <3>2. L \in Int
      OBVIOUS
    <3>3. L \div B \in Nat /\ L % B \in 0 .. B - 1 /\ L = (L \div B) * B + (L % B)
      BY <3>2, DivMod
    <3>4. PICK n \in Nat : n = L \div B
      BY <3>3
    <3>5. n * B <= L
      BY <3>3, <3>4
    <3>6. (k + 1) * B <= n * B
      BY <1>3, <3>1, <3>4, TimesMonotone
    <3>7. (k + 1) * B \in Nat /\ n * B \in Nat /\ L <= rawBits
      BY <1>1, <3>1, Widths
    <3>8. QED
      BY <3>5, <3>6, <3>7, Widths
  <2>2. QED
    BY <1>7, <2>1, PowMonotone
<1>9. w \in 0 .. m - 1
  BY <1>7, <1>8
<1>10. w % m = w
  BY <1>9, ModSmall
<1>11. QED
  BY <1>2, <1>4, <1>5, <1>6, <1>7, <1>10

(* Extending the sign of a value of len bits.                              *)
LEMMA SignIsExtended ==
  ASSUME signal.len \in 1 .. rawBits, raw \in 0 .. Pow[signal.len] - 1
  PROVE  (IF signal.isSigned THEN Signed ELSE raw) = TwosComplement(raw)
<1>1. PICK L \in Nat, h \in Nat \ {0}, w \in Nat, m \in Nat \ {0} :
        /\ L = signal.len /\ L - 1 \in Nat
        /\ h = Pow[L - 1] /\ Pow[L] = 2 * h
        /\ w = Pow[rawBits - 1] /\ m = Pow[rawBits] /\ m = 2 * w
        /\ h <= w
  <2>1. PICK L \in Nat, k \in Nat, R \in Nat, n \in Nat :
          L = signal.len /\ k = L - 1 /\ L = k + 1 /\ R = rawBits /\ n = R - 1 /\ R = n + 1
          /\ k <= n
    <3>1. signal.len \in Nat /\ signal.len - 1 \in Nat /\ rawBits - 1 \in Nat
          /\ signal.len = (signal.len - 1) + 1 /\ rawBits = (rawBits - 1) + 1
          /\ signal.len - 1 <= rawBits - 1
      BY Widths
    <3>2. QED
      BY <3>1, Widths
  <2>2. Pow[L] = 2 * Pow[k] /\ Pow[R] = 2 * Pow[n] /\ Pow[k] <= Pow[n]
    BY <2>1, PowStep, PowMonotone
  <2>3. Pow[k] \in Nat \ {0} /\ Pow[n] \in Nat /\ Pow[R] \in Nat \ {0}
    BY PowPositive
  <2>4. QED
    BY <2>1, <2>2, <2>3
<1>2. PICK x \in Nat : x = raw /\ x < 2 * h
  BY <1>1
<1>3. ShiftRight(raw, signal.len - 1) = 0 <=> x < h
  <2>1. ShiftRight(raw, signal.len - 1) = x \div h
    BY <1>1, <1>2 DEF ShiftRight
  <2>2. ASSUME x < h PROVE x \div h = 0
    <3>1. x \in 0 .. h - 1
      BY <2>2
    <3>2. QED
      BY <3>1, ModSmall
  <2>3. ASSUME x \div h = 0 PROVE x < h
    <3>1. x \in Int
      OBVIOUS
    <3>2. x % h \in 0 .. h - 1 /\ x = (x \div h) * h + (x % h)
      BY <3>1, DivMod
    <3>3. 0 * h = 0
      OBVIOUS
    <3>4. QED
      BY <2>3, <3>2, <3>3
  <2>4. QED
    BY <2>1, <2>2, <2>3
<1>4. CASE ~signal.isSigned
  BY <1>4 DEF TwosComplement
<1>5. CASE signal.isSigned /\ x < h
  <2>1. Signed = raw
    BY <1>3, <1>5 DEF Signed
  <2>2. TwosComplement(raw) = raw
    BY <1>1, <1>2, <1>5 DEF TwosComplement
  <2>3. QED
    BY <1>5, <2>1, <2>2
<1>6. CASE signal.isSigned /\ ~(x < h)
  <2>1. PICK y \in 1 .. m : y = 2 * h - x
    BY <1>1, <1>2, <1>6
  <2>2. (x - 2 * h) % m = m - y
    <3>1. (0 - y) % m = m - y
      BY ModNegative
    <3>2. x - 2 * h = 0 - y
      BY <2>1
    <3>3. QED
      BY <3>1, <3>2
  <2>3. m - y >= w /\ (m - y) - m = x - 2 * h
    BY <1>1, <1>2, <1>6, <2>1
  <2>4. (raw - mask - 1) % Pow[rawBits] = m - y
    <3>1. mask = 2 * h - 1
      BY <1>1 DEF mask
    <3>2. raw - mask - 1 = x - 2 * h
      BY <1>1, <1>2, <3>1
    <3>3. QED
      BY <1>1, <2>2, <3>2
  <2>5. Signed = x - 2 * h
    BY <1>1, <1>3, <1>6, <2>3, <2>4 DEF Signed
  <2>6. TwosComplement(raw) = x - 2 * h
    BY <1>1, <1>2, <1>6 DEF TwosComplement
  <2>7. QED
    BY <1>6, <2>5, <2>6
<1>7. QED
  BY <1>4, <1>5, <1>6

-----------------------------------------------------------------------------
(* The pieces are the bits of the bytes they were taken from.              *)
AllPieces(sig, data, pieces) ==
  \A i \in 1 .. Len(pieces) :
    Reached(sig, i - 1) < sig.len /\ pieces[i] = Piece(sig, data, i - 1)

(* The locals of the loop start as the parameters of the signal.           *)
LocalsSet ==
  /\ pc = "start" => startBit = signal.startBit /\ len = signal.len /\ dataBytes = <<>>
  /\ pc \in {"start", "loop"} => raw = 0 /\ piece = 0

(* The loop has taken the bits of the signal up to startBit, from bytes of *)
(* the payload.                                                            *)
BitsTaken ==
  pc \in {"loop", "assemble"} =>
    /\ signal.len # 0
    /\ startBit = signal.startBit + Reached(signal, Len(dataBytes))
    /\ len = signal.len - Reached(signal, Len(dataBytes))
    /\ dataBytes # <<>> => startBit <= CAN_MAX_DLC * bitsInByte
    /\ AllPieces(signal, input, dataBytes)
    /\ pc = "assemble" => len = 0

(* raw is the value of the pieces put together so far.                     *)
RawIsValue ==
  pc = "assemble" =>
    /\ ~signal.isBigEndian /\ LittleOK(signal) =>
         raw = LittleEndian(signal, input)[Reached(signal, piece)]
    /\ signal.isBigEndian /\ BigOK(signal) => raw = BigEndian(signal, input)[piece]

Inv ==
  /\ TypeOK /\ LocalsSet /\ LoopInv /\ ThrowsOnlyBeyondPayload
  /\ BitsTaken /\ RawIsValue
  /\ LittleEndianExact /\ BigEndianExact

(* A turn of the loop takes at least one bit and no more than are left.    *)
LEMMA TurnTakesSome ==
  ASSUME startBit \in Nat, len \in Nat \ {0}
  PROVE  bit2Get \in 1 .. len
<1>1. bitsInByte \in Nat /\ bitsInByte > 0
  BY WidthAssumption
<1>2. startBit % bitsInByte \in 0 .. bitsInByte - 1
  BY <1>1
<1>3. QED
  BY <1>1, <1>2 DEF bit2Get

(* GetNbit of a byte shifted to the right is no larger than the byte.      *)
LEMMA PieceIsByte ==
  ASSUME NEW b \in Byte, NEW s \in Nat, NEW c \in Nat
  PROVE  GetNbit(ShiftRight(b, s), c) \in Byte
<1>1. PICK x \in Int, d \in Nat \ {0}, e \in Nat \ {0}, m \in Nat :
        x = b /\ d = Pow[s] /\ e = Pow[c] /\ m = Pow[bitsInByte] /\ x \in Nat /\ x < m
  <2>1. bitsInByte \in Nat
    BY Widths
  <2>2. Pow[s] \in Nat \ {0} /\ Pow[c] \in Nat \ {0} /\ Pow[bitsInByte] \in Nat
    BY <2>1, PowPositive
  <2>3. b \in Int /\ b \in Nat /\ b < Pow[bitsInByte]
    BY <2>2 DEF Byte
  <2>4. QED
    BY <2>2, <2>3
<1>2. PICK y \in Int : y = x \div d /\ y \in Nat /\ y <= x
  <2>1. x \div d \in Nat /\ x % d \in 0 .. d - 1 /\ x = (x \div d) * d + (x % d)
    BY <1>1, DivMod
  <2>2. PICK q \in Nat : q = x \div d
    BY <2>1
  <2>3. q * 1 <= q * d
    <3>1. 1 * q <= d * q
      BY TimesMonotone
    <3>2. QED
      BY <3>1
  <2>4. q * d \in Nat
    OBVIOUS
  <2>5. QED
    BY <2>1, <2>2, <2>3, <2>4
<1>3. y % e \in Nat /\ y % e <= y
  <2>1. y \div e \in Nat /\ y % e \in 0 .. e - 1 /\ y = (y \div e) * e + (y % e)
    BY <1>2, DivMod
  <2>2. (y \div e) * e \in Nat
    BY <2>1
  <2>3. QED
    BY <2>1, <2>2
<1>4. GetNbit(ShiftRight(b, s), c) = y % e
  BY <1>1, <1>2 DEF GetNbit, ShiftRight
<1>5. QED
  BY <1>1, <1>2, <1>3, <1>4 DEF Byte

(* The loop never takes more than the signal.                              *)
LEMMA ReachedInSignal ==
  ASSUME NEW sig, NEW k \in Nat, sig.startBit \in Nat, sig.len \in Nat
  PROVE  Reached(sig, k) \in 0 .. sig.len /\ Reached(sig, 0) = 0
<1>1. PICK B \in Nat \ {0}, L \in Nat, s \in Nat : B = bitsInByte /\ L = sig.len
        /\ s = sig.startBit
  BY Widths
<1>2. PICK r \in 0 .. B - 1 : r = s % B
  OBVIOUS
<1>3. CASE k = 0
  BY <1>1, <1>3 DEF Reached
<1>4. CASE k # 0
  <2>1. 1 * B <= k * B
    BY <1>4, TimesMonotone
  <2>2. PICK n \in Nat : n = k * B - r
    <3>1. k * B - r \in Nat
      BY <2>1
    <3>2. QED
      BY <3>1
  <2>3. Reached(sig, k) = IF n < L THEN n ELSE L
    BY <1>1, <1>2, <1>4, <2>2 DEF Reached
  <2>4. Reached(sig, 0) = 0
    BY DEF Reached
  <2>5. QED
    BY <1>1, <2>3, <2>4
<1>5. QED
  BY <1>3, <1>4

(* What TypeOK says of the numbers.                                        *)
LEMMA TypedNumbers ==
  ASSUME TypeOK
  PROVE  /\ signal.startBit \in Nat /\ signal.len \in Nat
         /\ signal.isBigEndian \in BOOLEAN /\ signal.isSigned \in BOOLEAN
         /\ startBit \in Nat /\ len \in Nat /\ dlc \in Nat
         /\ piece \in Nat /\ Len(dataBytes) \in Nat /\ piece <= Len(dataBytes)
         /\ MaxDlc * bitsInByte \in Nat /\ dlc * bitsInByte \in Nat
<1>1. MaxDlc * bitsInByte \in Nat /\ bitsInByte \in Nat
  BY WidthAssumption
<1>2. signal \in Signal /\ startBit \in Nat /\ len \in Nat /\ dlc \in 0 .. MaxDlc
      /\ dataBytes \in Seq(Byte) /\ piece \in 0 .. Len(dataBytes)
  BY DEF TypeOK
<1>3. dlc \in Nat /\ dlc * bitsInByte \in Nat
  BY <1>1, <1>2, WidthAssumption
<1>4. Len(dataBytes) \in Nat
  BY <1>2
<1>5. /\ signal.startBit \in Nat /\ signal.len \in Nat
      /\ signal.isBigEndian \in BOOLEAN /\ signal.isSigned \in BOOLEAN
  BY <1>1, <1>2 DEF Signal, Bits
<1>6. QED
  BY <1>1, <1>2, <1>3, <1>4, <1>5

(* When the pieces are put together the signal is within the payload, and  *)
(* all of it has been taken.                                               *)
LEMMA SignalFits ==
  ASSUME TypeOK, BitsTaken, pc \in {"loop", "assemble"}, len = 0
  PROVE  /\ Fits(signal, input)
         /\ Reached(signal, Len(dataBytes)) = signal.len
         /\ dataBytes # <<>> /\ Len(dataBytes) # 0
<1>1. /\ signal.len # 0
      /\ startBit = signal.startBit + Reached(signal, Len(dataBytes))
      /\ len = signal.len - Reached(signal, Len(dataBytes))
      /\ dataBytes # <<>> => startBit <= CAN_MAX_DLC * bitsInByte
  BY DEF BitsTaken
<1>2. PICK R \in Nat, L \in Nat, s \in Nat :
        R = Reached(signal, Len(dataBytes)) /\ L = signal.len /\ s = signal.startBit
  BY TypedNumbers, ReachedInSignal
<1>3. R = L
  BY <1>1, <1>2
<1>4. Len(dataBytes) # 0
  <2>1. Reached(signal, 0) = 0
    BY DEF Reached
  <2>2. QED
    BY <1>1, <1>2, <1>3, <2>1
<1>5. dataBytes # <<>>
  BY <1>4
<1>6. s + L <= CAN_MAX_DLC * bitsInByte
  BY <1>1, <1>2, <1>3, <1>5
<1>7. input \in [ByteIndex -> Byte]
  BY DEF TypeOK
<1>8. QED
  BY <1>1, <1>2, <1>3, <1>4, <1>5, <1>6, <1>7 DEF Fits

(* The inductive invariant holds where parseSignal begins.                 *)
LEMMA InitInv == Init => Inv
<1> SUFFICES ASSUME Init PROVE Inv
  OBVIOUS
<1>1. MaxDlc * bitsInByte \in Nat /\ rawBits \in Nat
  BY WidthAssumption
<1>2. Pow[rawBits] \in Nat \ {0}
  BY <1>1, PowPositive
<1>3. TypeOK
  <2>1. signal.startBit \in Nat /\ signal.len \in Nat
    BY <1>1 DEF Init, Signal, Bits
  <2>2. <<>> \in Seq(Byte) /\ Len(<<>>) = 0
    OBVIOUS
  <2>3. raw \in 0 .. Pow[rawBits] - 1 /\ piece \in 0 .. Len(dataBytes) /\ ret \in Int
    BY <1>2, <2>2 DEF Init
  <2>4. QED
    BY <2>1, <2>2, <2>3 DEF Init, TypeOK
<1>4. QED
  BY <1>3 DEF Init, Inv, LocalsSet, LoopInv, ThrowsOnlyBeyondPayload, BitsTaken, RawIsValue,
              LittleEndianExact, BigEndianExact

(* The range check of parseSignal keeps it.                                *)
LEMMA CheckRangeInv == Inv /\ CheckRange => Inv'
<1> SUFFICES ASSUME Inv, CheckRange PROVE Inv'
  OBVIOUS
<1>1. /\ TypeOK /\ pc = "start" /\ pc' \in {"nan", "loop"}
      /\ signal' = signal /\ input' = input /\ dlc' = dlc /\ startBit' = startBit
      /\ len' = len /\ dataBytes' = dataBytes /\ raw' = raw /\ piece' = piece /\ ret' = ret
      /\ startBit = signal.startBit /\ len = signal.len /\ dataBytes = <<>>
      /\ raw = 0 /\ piece = 0
  BY DEF Inv, CheckRange, LocalsSet, frame, bits, sum
<1>2. PICK s \in Nat, L \in Nat, e \in Nat :
        s = signal.startBit /\ L = signal.len /\ e = dlc * bitsInByte
  BY <1>1, TypedNumbers
<1>3. pc' = "loop" => s + L <= e /\ L # 0
  BY <1>2 DEF CheckRange
<1>4. TypeOK'
  BY <1>1 DEF TypeOK
<1>5. LocalsSet' /\ LoopInv' /\ ThrowsOnlyBeyondPayload'
  BY <1>1, <1>2, <1>3 DEF LocalsSet, LoopInv, ThrowsOnlyBeyondPayload
<1>6. BitsTaken'
  <2>1. Len(dataBytes) = 0 /\ Reached(signal, 0) = 0 /\ AllPieces(signal, input, dataBytes)
    BY <1>1 DEF Reached, AllPieces
  <2>2. s + 0 = s /\ L - 0 = L
    OBVIOUS
  <2>3. QED
    BY <1>1, <1>2, <1>3, <2>1, <2>2 DEF BitsTaken
<1>7. RawIsValue' /\ LittleEndianExact' /\ BigEndianExact'
  BY <1>1 DEF RawIsValue, LittleEndianExact, BigEndianExact
<1>8. QED
  BY <1>4, <1>5, <1>6, <1>7 DEF Inv

(* A turn of while (len) keeps it.                                         *)
LEMMA TakeBitsInv == Inv /\ TakeBits => Inv'
<1> SUFFICES ASSUME Inv, TakeBits PROVE Inv'
  OBVIOUS
<1>1. /\ TypeOK /\ pc = "loop" /\ pc' = pc /\ len # 0
      /\ signal' = signal /\ input' = input /\ dlc' = dlc /\ ret' = ret
      /\ raw' = raw /\ piece' = piece /\ raw = 0 /\ piece = 0
      /\ startBit' = startBit + bit2Get /\ len' = len - bit2Get
      /\ LoopInv /\ BitsTaken
      /\ startBit \div bitsInByte \in ByteIndex
  BY DEF Inv, TakeBits, LocalsSet, frame, sum
<1>2. PICK g \in Nat, s \in Nat, l \in Nat :
        /\ g = bit2Get /\ s = startBit /\ l = len /\ g \in 1 .. l
        /\ startBit' = s + g /\ len' = l - g
  BY <1>1, TurnTakesSome, TypedNumbers
<1>3. PICK k \in Nat : k = Len(dataBytes)
  BY <1>1, TypedNumbers
<1>4. PICK b :
        /\ b = GetNbit(ShiftRight(input[startBit \div bitsInByte], startBit % bitsInByte), g)
        /\ dataBytes' = Append(dataBytes, b)
  BY <1>1, <1>2 DEF TakeBits
<1>5. startBit % bitsInByte \in Nat /\ b \in Byte
  <2>1. bitsInByte \in Nat \ {0} /\ s \in Int
    BY Widths
  <2>2. s % bitsInByte \in 0 .. bitsInByte - 1
    BY <2>1, DivMod
  <2>3. startBit % bitsInByte \in Nat
    BY <1>2, <2>1, <2>2
  <2>4. input[startBit \div bitsInByte] \in Byte
    BY <1>1 DEF TypeOK
  <2>5. QED
    BY <1>4, <2>3, <2>4, PieceIsByte
<1>6. /\ dataBytes' \in Seq(Byte) /\ Len(dataBytes') = k + 1 /\ dataBytes' # <<>>
      /\ \A i \in 1 .. k : dataBytes'[i] = dataBytes[i]
      /\ dataBytes'[k + 1] = b
  <2>1. dataBytes \in Seq(Byte)
    BY <1>1 DEF TypeOK
  <2>2. QED
    BY <1>3, <1>4, <1>5, <2>1
<1>7. TypeOK'
  <2>1. startBit' \in Nat /\ len' \in Nat
    BY <1>2
  <2>2. piece' \in 0 .. Len(dataBytes')
    BY <1>1, <1>6
  <2>3. QED
    BY <1>1, <1>6, <2>1, <2>2 DEF TypeOK
<1>8. LocalsSet' /\ ThrowsOnlyBeyondPayload'
  BY <1>1 DEF LocalsSet, ThrowsOnlyBeyondPayload
<1>9. LoopInv'
  <2>1. (s + g) + (l - g) = s + l
    OBVIOUS
  <2>2. startBit' + len' = startBit + len
    BY <1>2, <2>1
  <2>3. QED
    BY <1>1, <2>2 DEF LoopInv
<1>10. BitsTaken'
  <2>1. /\ signal.len # 0 /\ startBit = signal.startBit + Reached(signal, k)
        /\ len = signal.len - Reached(signal, k) /\ AllPieces(signal, input, dataBytes)
    BY <1>1, <1>3 DEF BitsTaken
  <2>2. PICK S \in Nat, L \in Nat \ {0}, R \in Nat :
          S = signal.startBit /\ L = signal.len /\ R = Reached(signal, k) /\ R < L
          /\ s = S + R /\ l = L - R
    <3>1. Reached(signal, k) \in 0 .. signal.len
      BY <1>1, TypedNumbers, ReachedInSignal
    <3>2. PICK S \in Nat, L \in Nat, R \in Nat :
            S = signal.startBit /\ L = signal.len /\ R = Reached(signal, k) /\ R <= L
      BY <1>1, <3>1, TypedNumbers
    <3>3. l # 0 /\ l = L - R /\ s = S + R
      BY <1>1, <1>2, <2>1, <3>2
    <3>4. R < L /\ L # 0
      BY <3>3
    <3>5. QED
      BY <3>2, <3>3, <3>4
  <2>3. PICK o \in Nat :
          /\ (S + R) % bitsInByte = o
          /\ Reached(signal, k + 1) = R + (IF bitsInByte - o < L - R
                                            THEN bitsInByte - o ELSE L - R)
    <3> DEFINE o == IF k = 0 THEN signal.startBit % bitsInByte ELSE 0
    <3>1. /\ o \in 0 .. bitsInByte - 1
          /\ (signal.startBit + Reached(signal, k)) % bitsInByte = o
          /\ Reached(signal, k + 1) = Reached(signal, k)
               + (IF bitsInByte - o < signal.len - Reached(signal, k)
                  THEN bitsInByte - o ELSE signal.len - Reached(signal, k))
      BY <2>2, TurnTakes
    <3>2. o \in Nat
      BY <3>1, Widths
    <3> HIDE DEF o
    <3>3. QED
      BY <2>2, <3>1, <3>2
  <2>4. g = IF bitsInByte - o < L - R THEN bitsInByte - o ELSE L - R
    BY <1>2, <2>2, <2>3 DEF bit2Get
  <2>5. Reached(signal, k + 1) = R + g
    BY <2>3, <2>4
  <2>6. startBit' = S + (R + g) /\ len' = L - (R + g)
    <3>1. (S + R) + g = S + (R + g) /\ (L - R) - g = L - (R + g)
      OBVIOUS
    <3>2. QED
      BY <1>2, <2>2, <3>1
  <2>7. b = Piece(signal, input, k)
    <3>1. (R + g) - R = g
      OBVIOUS
    <3>2. QED
      BY <1>2, <1>4, <2>2, <2>5, <3>1 DEF Piece
  <2>8. AllPieces(signal, input, dataBytes')
    <3>1. SUFFICES ASSUME NEW i \in 1 .. k + 1
                   PROVE  /\ Reached(signal, i - 1) < signal.len
                          /\ dataBytes'[i] = Piece(signal, input, i - 1)
      BY <1>6 DEF AllPieces
    <3>2. CASE i = k + 1
      <4>1. i - 1 = k
        BY <3>2
      <4>2. QED
        BY <1>6, <2>2, <2>7, <3>2, <4>1
    <3>3. CASE i # k + 1
      <4>1. i \in 1 .. k
        BY <3>3
      <4>2. QED
        BY <1>3, <1>6, <2>1, <4>1 DEF AllPieces
    <3>4. QED
      BY <3>2, <3>3
  <2>9. startBit' <= CAN_MAX_DLC * bitsInByte
    <3>1. PICK B \in Nat \ {0}, D \in Nat, q \in Nat :
            B = bitsInByte /\ D = CAN_MAX_DLC /\ q = startBit \div bitsInByte /\ q + 1 <= D
      <4>1. startBit \div bitsInByte \in 0 .. CAN_MAX_DLC - 1
        BY <1>1 DEF ByteIndex
      <4>2. QED
        BY <4>1, Widths
    <3>2. s = q * B + o
      <4>1. s \in Int
        OBVIOUS
      <4>2. s = (s \div B) * B + (s % B)
        BY <4>1, DivMod
      <4>3. QED
        BY <1>2, <2>2, <2>3, <3>1, <4>2
    <3>3. (q + 1) * B <= D * B
      BY <3>1, TimesMonotone
    <3>4. (q + 1) * B = q * B + B
      OBVIOUS
    <3>5. g <= B - o
      BY <2>2, <2>4, <3>1
    <3>6. PICK u \in Nat, v \in Nat : u = q * B /\ v = D * B
      OBVIOUS
    <3>7. s + g <= v
      BY <3>2, <3>3, <3>4, <3>5, <3>6
    <3>8. QED
      BY <1>2, <3>1, <3>6, <3>7
  <2>10. QED
    BY <1>1, <1>6, <2>1, <2>2, <2>5, <2>6, <2>8, <2>9 DEF BitsTaken
<1>11. RawIsValue' /\ LittleEndianExact' /\ BigEndianExact'
  BY <1>1 DEF RawIsValue, LittleEndianExact, BigEndianExact
<1>12. QED
  BY <1>7, <1>8, <1>9, <1>10, <1>11 DEF Inv

(* A read behind the payload keeps it: the frame is longer than that.      *)
LEMMA ReadOutOfRangeInv == Inv /\ ReadOutOfRange => Inv'
<1> SUFFICES ASSUME Inv, ReadOutOfRange PROVE Inv'
  OBVIOUS
<1>1. /\ TypeOK /\ pc = "loop" /\ pc' = "exception" /\ len # 0
      /\ signal' = signal /\ input' = input /\ dlc' = dlc /\ startBit' = startBit
      /\ len' = len /\ dataBytes' = dataBytes /\ raw' = raw /\ piece' = piece /\ ret' = ret
      /\ startBit + len <= dlc * bitsInByte
      /\ startBit \div bitsInByte \notin ByteIndex
  BY DEF Inv, LoopInv, ReadOutOfRange, frame, bits, sum
<1>2. startBit \in Nat /\ dlc \in Nat /\ startBit < dlc * bitsInByte
  BY <1>1, TypedNumbers
<1>3. startBit \div bitsInByte \in 0 .. dlc - 1
  BY <1>2, BitPlace
<1>4. dlc > CAN_MAX_DLC
  BY <1>1, <1>2, <1>3, Widths DEF ByteIndex
<1>5. QED
  BY <1>1, <1>4 DEF Inv, TypeOK, LocalsSet, LoopInv, ThrowsOnlyBeyondPayload, BitsTaken,
                    RawIsValue, LittleEndianExact, BigEndianExact

(* The end of while (len) keeps it.                                        *)
LEMMA LoopEndsInv == Inv /\ LoopEnds => Inv'
<1> SUFFICES ASSUME Inv, LoopEnds PROVE Inv'
  OBVIOUS
<1>1. /\ TypeOK /\ pc = "loop" /\ pc' = "assemble" /\ len = 0 /\ BitsTaken /\ LoopInv
      /\ signal' = signal /\ input' = input /\ dlc' = dlc /\ startBit' = startBit
      /\ len' = len /\ dataBytes' = dataBytes /\ raw' = raw /\ piece' = piece /\ ret' = ret
      /\ raw = 0 /\ piece = 0
  BY DEF Inv, LocalsSet, LoopEnds, frame, bits, sum
<1>2. Fits(signal, input)
  BY <1>1, SignalFits
<1>3. /\ LittleEndian(signal, input)[0] = 0 /\ BigEndian(signal, input)[0] = 0
      /\ Reached(signal, 0) = 0
  BY <1>2, LittleEndianStep, BigEndianStep DEF Reached
<1>4. RawIsValue'
  BY <1>1, <1>3 DEF RawIsValue
<1>5. BitsTaken'
  BY <1>1 DEF BitsTaken
<1>6. TypeOK' /\ LocalsSet' /\ LoopInv' /\ ThrowsOnlyBeyondPayload'
  BY <1>1 DEF TypeOK, LocalsSet, LoopInv, ThrowsOnlyBeyondPayload
<1>7. LittleEndianExact' /\ BigEndianExact'
  BY <1>1 DEF LittleEndianExact, BigEndianExact
<1>8. QED
  BY <1>4, <1>5, <1>6, <1>7 DEF Inv

(* What is left in raw fits into it.                                       *)
LEMMA RawFits ==
  ASSUME NEW x \in Int
  PROVE  x % Pow[rawBits] \in 0 .. Pow[rawBits] - 1
<1>1. rawBits \in Nat
  BY Widths
<1>2. PICK m \in Nat \ {0} : m = Pow[rawBits]
  BY <1>1, PowPositive
<1>3. QED
  BY <1>2, DivMod

(* A byte shifted as an int is a number.                                   *)
LEMMA ShiftedIntIsInt ==
  ASSUME NEW d \in Nat, NEW s \in Nat
  PROVE  ShiftedInt(d, s) \in Int
<1>1. PICK m \in Nat \ {0}, x \in Int : m = Pow[intBits] /\ x = d * Pow[s]
  <2>1. intBits \in Nat
    BY Widths
  <2>2. Pow[intBits] \in Nat \ {0} /\ Pow[s] \in Nat
    BY <2>1, PowPositive
  <2>3. d * Pow[s] \in Int
    BY <2>2
  <2>4. QED
    BY <2>2, <2>3
<1>2. x % m \in Int
  <2>1. x % m \in 0 .. m - 1
    BY DivMod
  <2>2. QED
    BY <2>1
<1>3. QED
  BY <1>1, <1>2 DEF ShiftedInt

(* A turn of the loop that puts the pieces together keeps it.              *)
LEMMA AddPieceInv == Inv /\ AddPiece => Inv'
<1> SUFFICES ASSUME Inv, AddPiece PROVE Inv'
  OBVIOUS
<1>1. /\ TypeOK /\ pc = "assemble" /\ pc' = pc /\ BitsTaken /\ LoopInv /\ RawIsValue
      /\ signal' = signal /\ input' = input /\ dlc' = dlc /\ startBit' = startBit
      /\ len' = len /\ dataBytes' = dataBytes /\ ret' = ret
      /\ piece' = piece + 1 /\ piece < Len(dataBytes)
  BY DEF Inv, AddPiece, frame, bits
<1>2. PICK k \in Nat, n \in Nat : k = piece /\ n = Len(dataBytes) /\ k < n
  BY <1>1, TypedNumbers
<1>3. PICK d \in Nat : d = dataBytes[piece + 1]
  <2>1. dataBytes \in Seq(Byte) /\ piece + 1 \in 1 .. Len(dataBytes)
    BY <1>1, <1>2 DEF TypeOK
  <2>2. dataBytes[piece + 1] \in Byte
    BY <2>1
  <2>3. Pow[bitsInByte] \in Nat
    BY PowPositive, Widths
  <2>4. QED
    BY <2>2, <2>3 DEF Byte
<1>4. raw' = IF signal.isBigEndian THEN BigEndianRaw(d) ELSE LittleEndianRaw(d)
  BY <1>3 DEF AddPiece
<1>5. raw' \in 0 .. Pow[rawBits] - 1
  <2>1. raw \in Int /\ Pow[bitsInByte] \in Int /\ bitsInByte * k \in Nat
    <3>1. rawBits \in Nat /\ bitsInByte \in Nat
      BY Widths
    <3>2. Pow[rawBits] \in Nat /\ Pow[bitsInByte] \in Nat
      BY <3>1, PowPositive
    <3>3. raw \in 0 .. Pow[rawBits] - 1
      BY <1>1 DEF TypeOK
    <3>4. QED
      BY <3>1, <3>2, <3>3
  <2>2. raw * Pow[bitsInByte] + d \in Int
    BY <2>1
  <2>3. raw + ShiftedInt(d, bitsInByte * k) \in Int
    <3>1. ShiftedInt(d, bitsInByte * k) \in Int
      BY <2>1, ShiftedIntIsInt
    <3>2. QED
      BY <2>1, <3>1
  <2>4. BigEndianRaw(d) \in 0 .. Pow[rawBits] - 1
    BY <2>2, RawFits DEF BigEndianRaw
  <2>5. LittleEndianRaw(d) \in 0 .. Pow[rawBits] - 1
    BY <1>2, <2>3, RawFits DEF LittleEndianRaw
  <2>6. QED
    BY <1>4, <2>4, <2>5
<1>6. TypeOK'
  <2>1. piece' \in 0 .. Len(dataBytes')
    BY <1>1, <1>2
  <2>2. QED
    BY <1>1, <1>5, <2>1 DEF TypeOK
<1>7. RawIsValue'
  <2>1. Fits(signal, input)
    BY <1>1, SignalFits DEF BitsTaken
  <2>2. Reached(signal, k) < signal.len /\ d = Piece(signal, input, k)
    <3>1. k + 1 \in 1 .. Len(dataBytes) /\ (k + 1) - 1 = k
      BY <1>2
    <3>2. AllPieces(signal, input, dataBytes)
      BY <1>1 DEF BitsTaken
    <3>3. QED
      BY <1>2, <1>3, <3>1, <3>2 DEF AllPieces
  <2>3. ASSUME ~signal.isBigEndian, LittleOK(signal)
        PROVE  raw' = LittleEndian(signal, input)[Reached(signal, k + 1)]
    <3>1. raw = LittleEndian(signal, input)[Reached(signal, k)]
      BY <1>1, <1>2, <2>3 DEF RawIsValue
    <3>2. raw' = (raw + ShiftedInt(d, bitsInByte * k)) % Pow[rawBits]
      BY <1>2, <1>4, <2>3 DEF LittleEndianRaw
    <3>3. QED
      BY <2>1, <2>2, <2>3, <3>1, <3>2, LittleEndianTurn
  <2>4. ASSUME signal.isBigEndian, BigOK(signal)
        PROVE  raw' = BigEndian(signal, input)[k + 1]
    <3>1. raw = BigEndian(signal, input)[k]
      BY <1>1, <1>2, <2>4 DEF RawIsValue
    <3>2. raw' = (raw * Pow[bitsInByte] + d) % Pow[rawBits]
      BY <1>4, <2>4 DEF BigEndianRaw
    <3>3. QED
      BY <2>1, <2>2, <2>4, <3>1, <3>2, BigEndianTurn
  <2>5. QED
    BY <1>1, <1>2, <2>3, <2>4 DEF RawIsValue
<1>8. BitsTaken' /\ LocalsSet' /\ LoopInv' /\ ThrowsOnlyBeyondPayload'
  BY <1>1 DEF BitsTaken, LocalsSet, LoopInv, ThrowsOnlyBeyondPayload
<1>9. LittleEndianExact' /\ BigEndianExact'
  BY <1>1 DEF LittleEndianExact, BigEndianExact
<1>10. QED
  BY <1>6, <1>7, <1>8, <1>9 DEF Inv

(* A shift by the width of int or more keeps it.                           *)
LEMMA ShiftTooFarInv == Inv /\ ShiftTooFar => Inv'
BY DEF Inv, ShiftTooFar, frame, bits, sum, TypeOK, LocalsSet, LoopInv, BitsTaken,
       ThrowsOnlyBeyondPayload, RawIsValue, LittleEndianExact, BigEndianExact

(* The end of parseSignal keeps it.                                        *)
LEMMA ExtendInv == Inv /\ Extend => Inv'
<1> SUFFICES ASSUME Inv, Extend PROVE Inv'
  OBVIOUS
<1>1. /\ TypeOK /\ pc = "assemble" /\ pc' = "done" /\ BitsTaken /\ RawIsValue
      /\ signal' = signal /\ input' = input /\ dlc' = dlc /\ startBit' = startBit
      /\ len' = len /\ dataBytes' = dataBytes /\ raw' = raw /\ piece' = piece
      /\ piece = Len(dataBytes) /\ ret' = IF signal.isSigned THEN Signed ELSE raw
      /\ len = 0
  BY DEF Inv, BitsTaken, Extend, frame, bits, sum
<1>2. /\ Fits(signal, input) /\ Reached(signal, piece) = signal.len /\ piece # 0
      /\ AllPieces(signal, input, dataBytes)
  BY <1>1, SignalFits DEF BitsTaken
<1>3. PICK L \in Nat \ {0}, s \in Nat, R \in Nat \ {0} :
        L = signal.len /\ s = signal.startBit /\ R = rawBits /\ L <= R
  BY <1>2, Widths DEF Fits
<1>4. ret' \in Int
  <2>1. PICK m \in Nat \ {0}, h \in Int, l \in Int, x \in Int :
          m = Pow[rawBits] /\ h = Pow[rawBits - 1] /\ l = mask /\ x = raw
    <3>1. rawBits \in Nat /\ rawBits - 1 \in Nat /\ signal.len \in Nat
      BY <1>3, Widths
    <3>2. Pow[rawBits] \in Nat \ {0} /\ Pow[rawBits - 1] \in Int /\ Pow[signal.len] \in Int
      BY <3>1, PowPositive
    <3>3. raw \in 0 .. Pow[rawBits] - 1
      BY <1>1 DEF TypeOK
    <3>4. mask \in Int
      BY <3>2 DEF mask
    <3>5. QED
      BY <3>2, <3>3, <3>4
  <2>2. (x - l - 1) % m \in Int
    <3>1. x - l - 1 \in Int
      OBVIOUS
    <3>2. (x - l - 1) % m \in 0 .. m - 1
      BY <3>1, DivMod
    <3>3. QED
      BY <3>2
  <2>3. QED
    BY <1>1, <2>1, <2>2 DEF Signed
<1>5. ASSUME raw \in 0 .. Pow[signal.len] - 1 PROVE ret' = TwosComplement(raw)
  BY <1>1, <1>3, <1>5, SignIsExtended
<1>6. LittleEndianExact'
  <2>1. ASSUME ~signal.isBigEndian, LittleOK(signal)
        PROVE  ret' = TwosComplement(LittleEndianBits)
    <3>1. raw = LittleEndian(signal, input)[signal.len]
      BY <1>1, <1>2, <2>1 DEF RawIsValue
    <3>2. signal.len \in 0 .. signal.len
      BY <1>3
    <3>3. raw \in 0 .. Pow[signal.len] - 1
      BY <1>2, <3>1, <3>2, LittleEndianRange
    <3>4. QED
      BY <1>5, <3>1, <3>3 DEF LittleEndianBits
  <2>2. (Aligned \/ InOneByte) /\ signal.len < intBits => LittleOK(signal)
    BY DEF Aligned, InOneByte, LittleOK
  <2>3. /\ Aligned' = Aligned /\ InOneByte' = InOneByte
        /\ LittleEndianBits' = LittleEndianBits
    BY <1>1 DEF Aligned, InOneByte, LittleEndianBits
  <2>4. TwosComplement(LittleEndianBits)' = TwosComplement(LittleEndianBits)
    BY <1>1, <2>3 DEF TwosComplement
  <2>5. QED
    BY <1>1, <2>1, <2>2, <2>3, <2>4 DEF LittleEndianExact
<1>7. BigEndianExact'
  <2>1. ASSUME signal.isBigEndian, BigOK(signal)
        PROVE  ret' = TwosComplement(BigEndianBytes)
    <3>1. PICK k \in Nat : piece = k + 1
      <4>1. piece \in Nat
        BY <1>1, TypedNumbers
      <4>2. piece - 1 \in Nat /\ piece = (piece - 1) + 1
        BY <1>2, <4>1
      <4>3. QED
        BY <4>2
    <3>2. Reached(signal, k) < signal.len
      <4>1. k + 1 \in 1 .. Len(dataBytes) /\ (k + 1) - 1 = k
        BY <1>1, <3>1
      <4>2. QED
        BY <1>2, <4>1 DEF AllPieces
    <3>3. k + 1 = signal.len \div bitsInByte
      BY <1>2, <1>3, <2>1, <3>1, <3>2, BigEndianPlace
    <3>4. raw = BigEndianBytes
      BY <1>1, <2>1, <3>1, <3>3 DEF RawIsValue, BigEndianBytes
    <3>5. (k + 1) * bitsInByte = L
      <4>1. L \in Int /\ bitsInByte \in Nat \ {0}
        BY Widths
      <4>2. L = (L \div bitsInByte) * bitsInByte + (L % bitsInByte)
        BY <4>1, DivMod
      <4>3. L % bitsInByte = 0
        BY <1>3, <2>1 DEF BigOK
      <4>4. (k + 1) * bitsInByte \in Nat
        BY <4>1
      <4>5. QED
        BY <1>3, <3>3, <4>2, <4>3, <4>4
    <3>6. raw \in 0 .. Pow[signal.len] - 1
      <4>1. PICK j \in Nat : j = k + 1 /\ j <= signal.len \div bitsInByte
        BY <3>3
      <4>2. BigEndian(signal, input)[j] \in 0 .. Pow[j * bitsInByte] - 1
        BY <1>2, <4>1, BigEndianRange
      <4>3. QED
        BY <1>3, <3>3, <3>4, <3>5, <4>1, <4>2 DEF BigEndianBytes
    <3>7. QED
      BY <1>5, <3>4, <3>6
  <2>2. Aligned /\ signal.len % bitsInByte = 0 => BigOK(signal)
    BY DEF Aligned, BigOK
  <2>3. Aligned' = Aligned /\ BigEndianBytes' = BigEndianBytes
    BY <1>1 DEF Aligned, BigEndianBytes
  <2>4. TwosComplement(BigEndianBytes)' = TwosComplement(BigEndianBytes)
    BY <1>1, <2>3 DEF TwosComplement
  <2>5. QED
    BY <1>1, <2>1, <2>2, <2>3, <2>4 DEF BigEndianExact
<1>8. TypeOK'
  BY <1>1, <1>4 DEF TypeOK
<1>9. LocalsSet' /\ LoopInv' /\ ThrowsOnlyBeyondPayload' /\ BitsTaken' /\ RawIsValue'
  BY <1>1 DEF LocalsSet, LoopInv, ThrowsOnlyBeyondPayload, BitsTaken, RawIsValue
<1>10. QED
  BY <1>6, <1>7, <1>8, <1>9 DEF Inv

(* Every step of parseSignal keeps it.                                     *)
LEMMA StepInv == Inv /\ [Next]_vars => Inv'
<1> SUFFICES ASSUME Inv, [Next]_vars PROVE Inv'
  OBVIOUS
<1>1. CASE UNCHANGED vars
  <2>1. /\ signal' = signal /\ input' = input /\ dlc' = dlc /\ startBit' = startBit
        /\ len' = len /\ dataBytes' = dataBytes /\ raw' = raw /\ piece' = piece
        /\ ret' = ret /\ pc' = pc
    BY <1>1 DEF vars
  <2>2. TypeOK' /\ LocalsSet' /\ LoopInv' /\ ThrowsOnlyBeyondPayload' /\ BitsTaken'
        /\ RawIsValue'
    BY <2>1 DEF Inv, TypeOK, LocalsSet, LoopInv, ThrowsOnlyBeyondPayload, BitsTaken, RawIsValue
  <2>3. LittleEndianExact' /\ BigEndianExact'
    BY <2>1 DEF Inv, LittleEndianExact, BigEndianExact, Aligned, InOneByte,
                LittleEndianBits, BigEndianBytes, TwosComplement
  <2>4. QED
    BY <2>2, <2>3 DEF Inv
<1>2. QED
  BY <1>1, CheckRangeInv, TakeBitsInv, ReadOutOfRangeInv, LoopEndsInv, AddPieceInv,
     ShiftTooFarInv, ExtendInv DEF Next

(* Inv is an invariant of parseSignal.                                     *)
LEMMA SpecInv == Spec => []Inv
BY InitInv, StepInv, PTL DEF Spec

(***************************************************************************)
(* input.at() throws only for a frame whose dlc is larger than its         *)
(* payload: the check at the start of parseSignal covers every read of the *)
(* loop.                                                                   *)
(***************************************************************************)
THEOREM ParseSignalStaysInFrame == Spec => []ThrowsOnlyBeyondPayload
<1>1. Inv => ThrowsOnlyBeyondPayload
  BY DEF Inv
<1>2. QED
  BY <1>1, SpecInv, PTL

(***************************************************************************)
(* A little-endian signal shorter than an int that starts with a byte, or  *)
(* lies within one, has the value that its bits spell, sign and all.       *)
(***************************************************************************)
THEOREM ParseSignalReadsLittleEndian == Spec => []LittleEndianExact
<1>1. Inv => LittleEndianExact
  BY DEF Inv
<1>2. QED
  BY <1>1, SpecInv, PTL

(***************************************************************************)
(* A big-endian signal of whole bytes has the value that its bytes spell,  *)
(* sign and all, up to the full width of the payload.                      *)
(***************************************************************************)
THEOREM ParseSignalReadsBigEndian == Spec => []BigEndianExact
<1>1. Inv => BigEndianExact
  BY DEF Inv
<1>2. QED
  BY <1>1, SpecInv, PTL

(***************************************************************************)
(* The locals of parseSignal keep their types: raw its width, startBit and *)
(* len do not wrap below zero.                                             *)
(***************************************************************************)
THEOREM ParseSignalTypeOK == Spec => []TypeOK
<1>1. Inv => TypeOK
  BY DEF Inv
<1>2. QED
  BY <1>1, SpecInv, PTL
=============================================================================
