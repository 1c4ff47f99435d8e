------------------------ MODULE SignalProcessorProofs ------------------------
(***************************************************************************)
(* SignalProcessor for every power of two N and every signal: the filter   *)
(* averages, the carry loop counts in bit-reversed order, the butterflies  *)
(* compute the discrete Fourier transform, and the detector finds a tone   *)
(* and not silence.                                                        *)
(*                                                                         *)
(* The first part is about the binary digits of an index and the carry of  *)
(* the permutation loop, the second about sums of samples times powers of  *)
(* z, the third about the steps of the program.                            *)
(***************************************************************************)
EXTENDS SignalProcessor, NumberTheorems

-----------------------------------------------------------------------------

\* The powers of two below N: what the binary digits of an index count.
Digits == PowersOfTwo \ {N}

\* N is even, and its half is a power of two as well.
LEMMA Sizes ==
    /\ N \in Nat \ {0} /\ N > 1 /\ Half \in Nat \ {0} /\ N = 2 * Half
    /\ N \in Powers /\ Half \in Powers
<1>1. N \in 1..N /\ N \in Powers /\ N # 1
  BY ProcessorAssumption DEF PowersOfTwo, Powers
<1>2. N \in Nat \ {0} /\ N > 1
  BY <1>1 DEF Powers
<1>3. N = 2 * Half /\ Half \in Powers
  BY <1>1, PowerHalf DEF Half
<1>4. Half \in Nat \ {0}
  BY <1>3 DEF Powers
<1> QED BY <1>1, <1>2, <1>3, <1>4

\* The digits are the powers of two below N.
LEMMA DigitFacts ==
    /\ \A b \in Digits : b \in Nat \ {0} /\ b \in Powers /\ b < N
    /\ \A b \in Powers : b < N => b \in Digits
<1>1. N \in Nat
  BY Sizes
<1>2. ASSUME NEW b \in Digits PROVE b \in Nat \ {0} /\ b \in Powers /\ b < N
  BY <1>1 DEF Digits, PowersOfTwo, Powers
<1>3. ASSUME NEW b \in Powers, b < N PROVE b \in Digits
  BY <1>1, <1>3 DEF Digits, PowersOfTwo, Powers
<1> QED BY <1>2, <1>3

\* Each digit has its mirror image.
LEMMA Mirror ==
    ASSUME NEW b \in Digits
    PROVE  /\ Half \div b \in Digits /\ Half \div (Half \div b) = b
           /\ Half = (Half \div b) * b
<1>1. b \in Nat \ {0} /\ b \in Powers /\ b < N
  BY DigitFacts
<1>2. PICK q \in Nat \ {0} : N = q * (2 * b)
  BY <1>1, Sizes, PowerGap
<1>3. Half = q * b
  BY <1>1, <1>2, Sizes
<1>4. Half \div b = q
  <2>1. Half = q * b + 0 /\ 0 \in 0..(b - 1) /\ Half \in Int /\ q \in Int
    BY <1>1, <1>3, Sizes
  <2> QED BY ONLY <1>1, <2>1, DivModUnique
<1>5. Half \div q = b
  <2>1. Half = b * q + 0 /\ 0 \in 0..(q - 1) /\ Half \in Int /\ b \in Int
    BY <1>1, <1>3, Sizes
  <2> QED BY ONLY <1>2, <2>1, DivModUnique
<1>6. q \in Powers
  BY <1>1, <1>3, Sizes, PowerFactor
<1>7. q < N
  BY <1>1, <1>3, Sizes
<1> QED BY <1>3, <1>4, <1>5, <1>6, <1>7, DigitFacts

\* The mirror image turns the order around.
LEMMA MirrorOrder ==
    ASSUME NEW b \in Digits, NEW c \in Digits, b < c
    PROVE  Half \div c < Half \div b
<1> DEFINE x == Half \div b
           y == Half \div c
<1>1. x \in Digits /\ y \in Digits /\ x * b = y * c
  BY Mirror
<1> HIDE DEF x, y
<1>2. b \in Nat \ {0} /\ c \in Nat \ {0} /\ x \in Nat \ {0} /\ y \in Nat \ {0}
  BY <1>1, DigitFacts
<1>3. CASE x <= y
  <2>1. x * b <= y * b /\ y * b < y * c
    BY <1>2, <1>3
  <2> QED BY <1>1, <1>2, <2>1
<1>4. CASE y < x
  BY <1>4 DEF x, y
<1> QED BY <1>2, <1>3, <1>4
-----------------------------------------------------------------------------
\* A digit is the part of the number that the remainders by b and by 2b differ in.
LEMMA BitValue ==
    ASSUME NEW a \in Nat, NEW b \in Nat \ {0}
    PROVE  /\ Bit(a, b) \in {0, 1}
           /\ a % (2 * b) = (a % b) + b * Bit(a, b)
<1> DEFINE q == a \div b
           r == a % b
           h == q \div 2
           t == q % 2
<1>1. a = q * b + r /\ q \in Int /\ r \in 0..(b - 1)
  BY DivMod
<1> HIDE DEF q, r
<1>2. q = h * 2 + t /\ h \in Int /\ t \in {0, 1}
  BY <1>1
<1>3. Bit(a, b) = t
  BY DEF Bit, q
<1> HIDE DEF h, t
<1>4. a = h * (2 * b) + (r + b * t)
  BY <1>1, <1>2
<1>5. r + b * t \in 0..(2 * b - 1)
  BY <1>1, <1>2
<1>6. a % (2 * b) = r + b * t
  <2>1. a \in Int /\ 2 * b \in Nat \ {0} /\ h \in Int
    BY <1>2
  <2> QED BY ONLY <1>4, <1>5, <2>1, DivModUnique
<1> QED BY <1>2, <1>3, <1>6 DEF r

\* It does not change when a multiple of 2b is added.
LEMMA BitShift ==
    ASSUME NEW a \in Nat, NEW c \in Nat, NEW b \in Nat \ {0}, NEW t \in Int,
           c = a + t * (2 * b)
    PROVE  Bit(c, b) = Bit(a, b)
<1> DEFINE q == a \div b
           r == a % b
<1>1. a = q * b + r /\ q \in Int /\ r \in 0..(b - 1)
  BY DivMod
<1> HIDE DEF q, r
<1>2. c = (q + 2 * t) * b + r
  BY <1>1
<1>3. c \div b = q + 2 * t
  <2>1. c \in Int /\ q + 2 * t \in Int
    BY <1>1
  <2> QED BY ONLY <1>1, <1>2, <2>1, DivModUnique
<1>4. (q + 2 * t) % 2 = q % 2
  BY <1>1
<1> QED BY <1>3, <1>4 DEF Bit, q

\* A number below b has no digit b.
LEMMA BitSmall ==
    ASSUME NEW b \in Nat \ {0}, NEW a \in 0..(b - 1)
    PROVE  Bit(a, b) = 0
<1>1. a \in Int /\ 0 \in Int /\ a = 0 * b + a
  OBVIOUS
<1>2. a \div b = 0
  BY ONLY <1>1, DivModUnique
<1> QED BY <1>2 DEF Bit

\* The remainder by a power of two keeps the digits below it.
LEMMA BitLow ==
    ASSUME NEW a \in Nat, NEW p \in Powers, NEW b \in Powers
    PROVE  Bit(a % p, b) = IF b < p THEN Bit(a, b) ELSE 0
<1>1. p \in Nat \ {0} /\ b \in Nat \ {0} /\ a \in Int
  BY DEF Powers
<1> DEFINE q == a \div p
           r == a % p
<1>2. a = q * p + r /\ q \in Int /\ r \in 0..(p - 1)
  BY ONLY <1>1, DivMod
<1> HIDE DEF q, r
<1>3. CASE b < p
  <2>1. PICK t \in Nat \ {0} : p = t * (2 * b)
    BY <1>3, PowerGap
  <2>2. a = r + (q * t) * (2 * b) /\ q * t \in Int /\ r \in Nat
    BY <1>1, <1>2, <2>1
  <2>3. Bit(a, b) = Bit(r, b)
    BY ONLY <1>1, <2>2, BitShift, a \in Nat
  <2> QED BY <1>3, <2>3 DEF r
<1>4. CASE ~(b < p)
  <2>1. r \in 0..(b - 1)
    BY <1>1, <1>2, <1>4
  <2>2. Bit(r, b) = 0
    BY <1>1, <2>1, BitSmall
  <2> QED BY <1>4, <2>2 DEF r
<1> QED BY <1>3, <1>4

\* Taking the remainder away clears these digits and keeps the others.
LEMMA BitHigh ==
    ASSUME NEW a \in Nat, NEW p \in Powers, NEW b \in Powers
    PROVE  Bit(a - (a % p), b) = IF b < p THEN 0 ELSE Bit(a, b)
<1>1. p \in Nat \ {0} /\ b \in Nat \ {0} /\ a \in Int
  BY DEF Powers
<1> DEFINE q == a \div p
           r == a % p
           c == a - r
<1>2. a = q * p + r /\ q \in Int /\ r \in 0..(p - 1)
  BY ONLY <1>1, DivMod
<1> HIDE DEF q, r
<1>3. q >= 0
  <2>1. CASE q <= -1
    <3>1. q * p <= -p
      BY <1>1, <1>2, <2>1
    <3> QED BY <1>1, <1>2, <3>1
  <2> QED BY <1>2, <2>1
<1>4. c = q * p /\ c \in Nat
  BY <1>1, <1>2, <1>3
<1> HIDE DEF c
<1>5. CASE b < p
  <2>1. PICK t \in Nat \ {0} : p = t * (2 * b)
    BY <1>5, PowerGap
  <2>2. c = 0 + (q * t) * (2 * b) /\ q * t \in Int /\ 0 \in Nat
    BY <1>1, <1>2, <1>4, <2>1
  <2>3. Bit(c, b) = Bit(0, b)
    BY ONLY <1>1, <1>4, <2>2, BitShift
  <2>4. Bit(0, b) = 0
    BY <1>1, BitSmall
  <2> QED BY <1>5, <2>3, <2>4 DEF c, r
<1>6. CASE ~(b < p)
  <2>1. PICK t \in Nat \ {0} : b = t * p
    BY <1>1, <1>6, PowersDivide
  <2> DEFINE u == a \div b
             v == a % b
  <2>2. a = u * b + v /\ u \in Int /\ v \in 0..(b - 1)
    BY ONLY <1>1, DivMod
  <2> HIDE DEF u, v
  <2>3. q * p >= u * b
    <3>1. u * b = (u * t) * p
      BY <1>1, <2>1, <2>2
    <3>2. CASE q < u * t
      <4>1. q + 1 <= u * t
        BY <1>2, <2>2, <3>2
      <4>2. (q + 1) * p <= (u * t) * p
        BY <1>1, <1>2, <2>2, <4>1
      <4>3. (q + 1) * p = q * p + p
        BY <1>1, <1>2
      <4> QED BY <1>1, <1>2, <2>2, <3>1, <4>2, <4>3
    <3>3. CASE u * t <= q
      BY <1>1, <1>2, <2>2, <3>1, <3>3
    <3> QED BY <1>2, <2>2, <3>2, <3>3
  <2>4. c = u * b + (v - r) /\ v - r \in 0..(b - 1) /\ c \in Int
    BY <1>1, <1>2, <1>4, <2>2, <2>3
  <2>5. c \div b = u
    BY ONLY <1>1, <2>2, <2>4, DivModUnique
  <2> QED BY <1>6, <2>5 DEF Bit, c, r, u
<1> QED BY <1>5, <1>6

\* Adding a power of two whose digit is clear sets that digit and no other.
LEMMA BitSet ==
    ASSUME NEW a \in Nat, NEW h \in Powers, Bit(a, h) = 0, NEW b \in Powers
    PROVE  Bit(a + h, b) = IF b = h THEN 1 ELSE Bit(a, b)
<1>1. h \in Nat \ {0} /\ b \in Nat \ {0} /\ a \in Int /\ a + h \in Nat
  BY DEF Powers
<1>2. CASE b = h
  <2> DEFINE q == a \div h
             r == a % h
  <2>1. a = q * h + r /\ q \in Int /\ r \in 0..(h - 1) /\ q % 2 = 0
    BY ONLY <1>1, DivMod, Bit(a, h) = 0 DEF Bit
  <2> HIDE DEF q, r
  <2>2. a + h = (q + 1) * h + r /\ q + 1 \in Int /\ a + h \in Int
    BY <1>1, <2>1
  <2>3. (a + h) \div h = q + 1
    BY ONLY <1>1, <2>1, <2>2, DivModUnique
  <2>4. (q + 1) % 2 = 1
    BY <2>1
  <2> QED BY <1>2, <2>3, <2>4 DEF Bit
<1>3. CASE b < h
  <2>1. PICK t \in Nat \ {0} : h = t * (2 * b)
    BY <1>3, PowerGap
  <2>2. a + h = a + t * (2 * b) /\ t \in Int
    BY <1>1, <2>1
  <2>3. Bit(a + h, b) = Bit(a, b)
    BY ONLY <1>1, <2>2, BitShift, a \in Nat
  <2> QED BY <1>1, <1>3, <2>3
<1>4. CASE h < b
  <2>1. PICK t \in Nat \ {0} : b = t * (2 * h)
    BY <1>4, PowerGap
  <2>2. a % (2 * h) \in 0..(h - 1)
    <3>1. a % (2 * h) = (a % h) + h * Bit(a, h)
      BY ONLY <1>1, BitValue, a \in Nat
    <3>2. a % h \in 0..(h - 1)
      BY ONLY <1>1, DivMod
    <3>3. (a % h) + h * 0 = a % h
      BY ONLY <1>1, <3>2
    <3> QED BY <3>1, <3>2, <3>3
  <2> DEFINE u == a \div b
             v == a % b
             y == v \div (2 * h)
             z == v % (2 * h)
  <2>3. a = u * b + v /\ u \in Int /\ v \in 0..(b - 1)
    BY ONLY <1>1, DivMod
  <2>4. v = y * (2 * h) + z /\ y \in Int /\ z \in 0..(2 * h - 1)
    <3>1. v \in Int /\ 2 * h \in Nat \ {0}
      BY <1>1, <2>3
    <3> HIDE DEF v
    <3> QED BY ONLY <3>1, DivMod
  <2> HIDE DEF u, v, y, z
  <2>5. z = a % (2 * h)
    <3>1. a = (u * t + y) * (2 * h) + z /\ u * t + y \in Int
      BY <1>1, <2>1, <2>3, <2>4
    <3>2. 2 * h \in Nat \ {0}
      BY <1>1
    <3> QED BY ONLY <1>1, <2>4, <3>1, <3>2, DivModUnique
  <2>6. y + 1 <= t
    <3>1. CASE y >= t
      <4>1. y * (2 * h) >= t * (2 * h)
        BY <1>1, <2>4, <3>1
      <4> QED BY <1>1, <2>1, <2>3, <2>4, <4>1
    <3> QED BY <2>4, <3>1
  <2>7. v + h \in 0..(b - 1)
    <3>1. (y + 1) * (2 * h) <= t * (2 * h)
      BY <1>1, <2>4, <2>6
    <3>2. (y + 1) * (2 * h) = y * (2 * h) + 2 * h
      BY <1>1, <2>4
    <3>3. z < h
      BY <1>1, <2>2, <2>4, <2>5
    <3> QED BY <1>1, <2>1, <2>3, <2>4, <3>1, <3>2, <3>3
  <2>8. a + h = u * b + (v + h) /\ a + h \in Int
    BY <1>1, <2>3
  <2>9. (a + h) \div b = u
    BY ONLY <1>1, <2>3, <2>7, <2>8, DivModUnique
  <2> QED BY <1>1, <1>4, <2>9 DEF Bit, u
<1> QED BY <1>1, <1>2, <1>3, <1>4

\* If all digits below p are ones, the remainder by p is the greatest one.
LEMMA LowOnes ==
    ASSUME NEW a \in Nat, NEW p \in Powers, \A b \in Powers : b < p => Bit(a, b) = 1
    PROVE  a % p = p - 1
<1> DEFINE T == {x \in Nat : x <= p => a % x = x - 1}
<1>1. p \in Nat
  BY DEF Powers
<1>2. 1 \in T
  OBVIOUS
<1>3. ASSUME NEW x \in Powers, x \in T PROVE 2 * x \in T
  <2>1. x \in Nat \ {0} /\ 2 * x \in Nat
    BY DEF Powers
  <2>2. ASSUME 2 * x <= p PROVE a % (2 * x) = 2 * x - 1
    <3>1. x < p
      BY <1>1, <2>1, <2>2
    <3>2. a % x = x - 1 /\ Bit(a, x) = 1
      BY <1>1, <1>3, <2>1, <3>1
    <3>3. a % (2 * x) = (a % x) + x * Bit(a, x)
      BY <2>1, BitValue
    <3>4. (x - 1) + x * 1 = 2 * x - 1
      BY <2>1
    <3> QED BY <3>2, <3>3, <3>4
  <2> QED BY <2>1, <2>2
<1>4. p \in T
  <2> HIDE DEF T
  <2> QED BY <1>2, <1>3, PowerInduction
<1> QED BY <1>1, <1>4

\* Two indices with the same digits are equal.
LEMMA BitsDetermine ==
    ASSUME NEW a \in Index, NEW c \in Index, \A b \in Digits : Bit(a, b) = Bit(c, b)
    PROVE  a = c
<1> DEFINE T == {x \in Nat : x <= N => a % x = c % x}
<1>1. N \in Nat \ {0} /\ a \in Nat /\ c \in Nat /\ a < N /\ c < N
  BY Sizes DEF Index
<1>2. 1 \in T
  BY <1>1
<1>3. ASSUME NEW x \in Powers, x \in T PROVE 2 * x \in T
  <2>1. x \in Nat \ {0} /\ 2 * x \in Nat
    BY DEF Powers
  <2>2. ASSUME 2 * x <= N PROVE a % (2 * x) = c % (2 * x)
    <3>1. x < N
      BY <1>1, <2>1, <2>2
    <3>2. a % x = c % x /\ Bit(a, x) = Bit(c, x)
      BY <1>1, <1>3, <2>1, <3>1, DigitFacts
    <3>3. a % (2 * x) = (a % x) + x * Bit(a, x) /\ c % (2 * x) = (c % x) + x * Bit(c, x)
      BY ONLY <1>1, <2>1, BitValue
    <3> QED BY <3>2, <3>3
  <2> QED BY <2>1, <2>2
<1>4. N \in T
  <2> HIDE DEF T
  <2> QED BY <1>2, <1>3, PowerInduction, Sizes
<1>5. \A x \in 0..(N - 1) : x % N = x
  <2>1. \A x \in 0..(N - 1) : x = 0 * N + x /\ x \in Int
    BY <1>1
  <2> QED BY <1>1, <2>1, DivModUnique
<1> QED BY <1>1, <1>4, <1>5
-----------------------------------------------------------------------------
\* The digits of r are those of a in reverse order.
IsReversal(a, r) == \A b \in Digits : Bit(r, Half \div b) = Bit(a, b)

\* CarryBit and NextJ for any value of j.
Carry(r) == Max({b \in Digits : Bit(r, b) = 0})
Increment(r) == (r % Carry(r)) + Carry(r)

\* There are finitely many digits.
LEMMA DigitsFinite == IsFiniteSet(Digits) /\ Digits \in SUBSET Int
<1>1. Digits \subseteq 1..N
  BY DEF Digits, PowersOfTwo
<1>2. IsFiniteSet(1..N) /\ N \in Int
  BY Sizes, FS_Interval
<1>3. IsFiniteSet(Digits)
  BY <1>1, <1>2, FS_Subset
<1>4. Digits \in SUBSET Int
  BY DigitFacts
<1> QED BY <1>3, <1>4

\* The carry has a place to stop unless a is the last index.
LEMMA CarryStops ==
    ASSUME NEW a \in Index, a + 1 < N, NEW r \in Index, IsReversal(a, r)
    PROVE  /\ Carry(r) \in Digits /\ Bit(r, Carry(r)) = 0
           /\ \A b \in Digits : Carry(r) < b => Bit(r, b) = 1
<1> DEFINE Z == {b \in Digits : Bit(r, b) = 0}
<1>1. a \in Nat /\ r \in Nat /\ a < N /\ N \in Nat \ {0}
  BY Sizes DEF Index
<1>2. \A b \in Digits : Bit(r, b) \in {0, 1} /\ Bit(a, b) \in {0, 1}
  BY <1>1, DigitFacts, BitValue
<1>3. Z # {}
  <2> SUFFICES ASSUME Z = {} PROVE FALSE
    OBVIOUS
  <2>1. \A b \in Digits : Bit(a, b) = 1
    <3>1. \A b \in Digits : Bit(r, b) = 1
      BY <1>2
    <3> QED BY <3>1, Mirror DEF IsReversal
  <2>2. \A b \in Powers : b < N => Bit(a, b) = 1
    BY <2>1, DigitFacts
  <2>3. a % N = N - 1
    BY <1>1, <2>2, LowOnes, Sizes
  <2>4. a = 0 * N + a /\ a \in Int /\ 0 \in Int /\ a \in 0..(N - 1)
    BY <1>1
  <2>5. a % N = a
    BY ONLY <1>1, <2>4, DivModUnique
  <2> QED BY <1>1, <2>3, <2>5
<1>4. IsFiniteSet(Z) /\ Z \in SUBSET Int
  BY DigitsFinite, FS_Subset
<1>5. Carry(r) \in Z /\ \A b \in Z : b <= Carry(r)
  <2> HIDE DEF Z
  <2>1. Max(Z) \in Z /\ \A b \in Z : b <= Max(Z)
    BY <1>3, <1>4, Extremes
  <2> QED BY <2>1 DEF Carry, Z
<1>6. ASSUME NEW b \in Digits, Carry(r) < b PROVE Bit(r, b) = 1
  <2>1. b \in Nat /\ Carry(r) \in Nat
    BY <1>5, DigitFacts
  <2>2. b \notin Z
    BY <1>5, <1>6, <2>1
  <2> QED BY <1>2, <2>2
<1> QED BY <1>5, <1>6

\* One carry in reversed order adds one.
LEMMA CarryStep ==
    ASSUME NEW a \in Index, a + 1 < N, NEW r \in Index, IsReversal(a, r)
    PROVE  Increment(r) \in Index /\ IsReversal(a + 1, Increment(r))
<1> DEFINE p == Carry(r)
           q == Half \div p
<1>1. p \in Digits /\ Bit(r, p) = 0 /\ \A b \in Digits : p < b => Bit(r, b) = 1
  BY CarryStops
<1> HIDE DEF p
<1>2. q \in Digits /\ Half \div q = p
  BY <1>1, Mirror
<1> HIDE DEF q
<1>3. /\ p \in Nat \ {0} /\ p \in Powers /\ p < N /\ q \in Nat \ {0} /\ q \in Powers
      /\ a \in Nat /\ r \in Nat /\ N \in Nat
  BY <1>1, <1>2, DigitFacts, Sizes DEF Index
<1>4. \A b \in Digits : b \in Powers /\ b \in Nat \ {0} /\ Half \div b \in Digits /\ Half \div b \in Powers
  BY DigitFacts, Mirror
\* The digits of a: ones below q, and a clear q.
<1>5. Bit(a, q) = 0
  BY <1>1, <1>2 DEF IsReversal
<1>6. ASSUME NEW b \in Powers, b < q PROVE Bit(a, b) = 1
  <2>1. b \in Nat /\ q < N
    BY <1>2, DigitFacts DEF Powers
  <2>2. b \in Digits
    BY <1>3, <1>6, <2>1, DigitFacts
  <2>3. p < Half \div b
    BY <1>2, <1>6, <2>2, MirrorOrder
  <2> QED BY <1>1, <1>4, <2>2, <2>3 DEF IsReversal
<1>7. a % q = q - 1
  BY <1>3, <1>6, LowOnes
\* a + 1 is a without these ones and with q.
<1> DEFINE c == a - (a % q)
<1>8. a + 1 = c + q /\ c \in Nat
  <2>1. a % q <= a
    <3>1. a = (a \div q) * q + (a % q) /\ a \div q \in Int
      BY ONLY <1>3, DivMod, a \in Int
    <3> DEFINE x == a \div q
    <3>2. x >= 0
      <4>1. a = x * q + (q - 1) /\ x \in Int
        BY <1>7, <3>1
      <4> HIDE DEF x
      <4>2. CASE x <= -1
        <5>1. x * q <= -q
          BY <1>3, <4>1, <4>2
        <5> QED BY <1>3, <4>1, <5>1
      <4> QED BY <4>1, <4>2
    <3>3. x * q >= 0 /\ x \in Int
      BY <1>3, <3>1, <3>2
    <3> HIDE DEF x
    <3>4. a = x * q + (q - 1)
      BY <1>7, <3>1 DEF x
    <3> QED BY <1>3, <1>7, <3>3, <3>4
  <2> QED BY <1>3, <1>7, <2>1
<1>9. \A b \in Powers : Bit(c, b) = IF b < q THEN 0 ELSE Bit(a, b)
  BY <1>3, BitHigh
<1> HIDE DEF c
<1>10. \A b \in Powers : Bit(a + 1, b) = IF b < q THEN 0 ELSE IF b = q THEN 1 ELSE Bit(a, b)
  <2>1. Bit(c, q) = 0
    BY <1>3, <1>5, <1>9
  <2>2. \A b \in Powers : Bit(c + q, b) = IF b = q THEN 1 ELSE Bit(c, b)
    BY <1>3, <1>8, <2>1, BitSet
  <2>3. ~(q < q)
    BY <1>3
  <2> QED BY <1>8, <1>9, <2>2, <2>3
\* The digits of the new j.
<1> DEFINE d == r % p
<1>11. d \in 0..(p - 1)
  BY ONLY <1>3, DivMod, r \in Int
<1>12. \A b \in Powers : Bit(d, b) = IF b < p THEN Bit(r, b) ELSE 0
  BY <1>3, BitLow
<1>13. Increment(r) = d + p
  BY DEF Increment, p
<1> HIDE DEF d
<1>14. \A b \in Powers : Bit(d + p, b) = IF b = p THEN 1 ELSE IF b < p THEN Bit(r, b) ELSE 0
  <2>1. Bit(d, p) = 0 /\ d \in Nat
    BY <1>3, <1>11, <1>12
  <2>2. \A b \in Powers : Bit(d + p, b) = IF b = p THEN 1 ELSE Bit(d, b)
    BY <1>3, <2>1, BitSet
  <2> QED BY <1>12, <2>2
<1>15. d + p \in Index
  <2>1. PICK t \in Nat \ {0} : N = t * (2 * p)
    BY <1>3, Sizes, PowerGap
  <2>2. t * (2 * p) >= 2 * p
    BY <1>3
  <2> QED BY <1>3, <1>11, <2>1, <2>2 DEF Index
<1>16. ASSUME NEW b \in Digits PROVE Bit(d + p, Half \div b) = Bit(a + 1, b)
  <2>1. CASE b < q
    <3>1. p < Half \div b
      BY <1>2, <2>1, MirrorOrder
    <3>2. Half \div b # p /\ ~(Half \div b < p)
      BY <1>3, <1>4, <3>1, DigitFacts
    <3> QED BY <1>4, <1>10, <1>14, <2>1, <3>2
  <2>2. CASE b = q
    BY <1>2, <1>3, <1>4, <1>10, <1>14, <2>2
  <2>3. CASE q < b
    <3>1. Half \div b < p
      BY <1>2, <2>3, MirrorOrder
    <3>2. Half \div b # p /\ ~(b < q) /\ b # q
      BY <1>3, <1>4, <2>3, <3>1, DigitFacts
    <3>3. Bit(r, Half \div b) = Bit(a, b)
      BY DEF IsReversal
    <3> QED BY <1>4, <1>10, <1>14, <3>1, <3>2, <3>3
  <2> QED BY <1>3, <1>4, <2>1, <2>2, <2>3
<1> QED BY <1>13, <1>15, <1>16 DEF IsReversal

\* Every index has a reversal, and Reversal gives it.
LEMMA ReversalExists ==
    ASSUME NEW a \in Index
    PROVE  Reversal(a) \in Index /\ IsReversal(a, Reversal(a))
<1> DEFINE T == {x \in Nat : x < N => \E r \in Index : IsReversal(x, r)}
<1>1. 0 \in T
  <2>1. 0 \in Index
    BY Sizes DEF Index
  <2>2. \A b \in Digits : Bit(0, b) = 0
    BY DigitFacts, BitSmall
  <2>3. IsReversal(0, 0)
    BY <2>2, Mirror DEF IsReversal
  <2> QED BY <2>1, <2>3
<1>2. ASSUME NEW x \in T PROVE x + 1 \in T
  <2> SUFFICES ASSUME x + 1 < N PROVE \E r \in Index : IsReversal(x + 1, r)
    OBVIOUS
  <2>1. x < N /\ x \in Index
    BY Sizes DEF Index
  <2>2. PICK r \in Index : IsReversal(x, r)
    BY <2>1
  <2> QED BY <2>1, <2>2, CarryStep
<1>3. T = Nat
  <2>1. T \in SUBSET Nat
    OBVIOUS
  <2> HIDE DEF T
  <2>2. \A x \in T : x + 1 \in T
    BY <1>2
  <2> QED BY <1>1, <2>1, <2>2, Induction
<1>4. \E r \in Index : IsReversal(a, r)
  BY <1>3, Sizes DEF Index
<1>5. Reversal(a) = CHOOSE r \in Index : IsReversal(a, r)
  BY DEF Reversal, IsReversal, Digits
<1> QED BY <1>4, <1>5

\* An index with the digits of a in reverse order is the reversal of a.
LEMMA ReversalUnique ==
    ASSUME NEW a \in Index, NEW r \in Index, IsReversal(a, r)
    PROVE  r = Reversal(a)
<1> DEFINE s == Reversal(a)
<1>1. s \in Index /\ IsReversal(a, s)
  BY ReversalExists
<1> HIDE DEF s
<1>2. ASSUME NEW b \in Digits PROVE Bit(r, b) = Bit(s, b)
  <2>1. Half \div b \in Digits /\ Half \div (Half \div b) = b
    BY Mirror
  <2>2. Bit(r, Half \div (Half \div b)) = Bit(s, Half \div (Half \div b))
    BY <1>1, <2>1 DEF IsReversal
  <2> QED BY <2>1, <2>2
<1>3. r = s
  BY <1>1, <1>2, BitsDetermine
<1> QED BY <1>3 DEF s

\* Reversing twice changes nothing.
LEMMA ReversalTwice ==
    ASSUME NEW a \in Index
    PROVE  Reversal(Reversal(a)) = a
<1> DEFINE r == Reversal(a)
<1>1. r \in Index /\ IsReversal(a, r)
  BY ReversalExists
<1> HIDE DEF r
<1>2. IsReversal(r, a)
  <2> SUFFICES ASSUME NEW b \in Digits PROVE Bit(a, Half \div b) = Bit(r, b)
    BY DEF IsReversal
  <2>1. Half \div b \in Digits /\ Half \div (Half \div b) = b
    BY Mirror
  <2>2. Bit(r, Half \div (Half \div b)) = Bit(a, Half \div b)
    BY <1>1, <2>1 DEF IsReversal
  <2> QED BY <2>1, <2>2
<1>3. a = Reversal(r)
  BY <1>1, <1>2, ReversalUnique
<1> QED BY <1>3 DEF r

\* Zero is its own reversal.
LEMMA ReversalZero == 0 \in Index /\ Reversal(0) = 0
<1>1. 0 \in Index
  BY Sizes DEF Index
<1>2. \A b \in Digits : Bit(0, b) = 0
  BY DigitFacts, BitSmall
<1>3. IsReversal(0, 0)
  BY <1>2, Mirror DEF IsReversal
<1> QED BY <1>1, <1>3, ReversalUnique

\* The carry takes the reversal of one index to that of the next.
LEMMA ReversalNext ==
    ASSUME NEW a \in Index, a + 1 < N
    PROVE  a + 1 \in Index /\ Increment(Reversal(a)) = Reversal(a + 1)
<1>1. a + 1 \in Index
  BY Sizes DEF Index
<1>2. Increment(Reversal(a)) \in Index /\ IsReversal(a + 1, Increment(Reversal(a)))
  BY ReversalExists, CarryStep
<1> QED BY <1>1, <1>2, ReversalUnique

\* The two ends of a butterfly: their reversals differ in the mirrored digit.
LEMMA ReversalPair ==
    ASSUME NEW a \in Index, NEW h \in Digits, Bit(a, h) = 0
    PROVE  /\ a + h \in Index /\ Reversal(a + h) = Reversal(a) + (Half \div h)
           /\ Bit(Reversal(a), Half \div h) = 0
<1> DEFINE r == Reversal(a)
           m == Half \div h
<1>1. r \in Index /\ IsReversal(a, r) /\ m \in Digits
  BY ReversalExists, Mirror
<1>2. Bit(r, m) = 0
  BY <1>1 DEF IsReversal
<1> HIDE DEF r
<1>3. /\ a \in Nat /\ r \in Nat /\ h \in Powers /\ m \in Powers /\ h \in Nat \ {0} /\ m \in Nat \ {0}
      /\ h < N /\ m < N /\ N \in Nat
  BY <1>1, DigitFacts, Sizes DEF Index
<1>4. ASSUME NEW x \in Index, NEW p \in Digits, Bit(x, p) = 0 PROVE x + p \in Index
  <2>1. x \in Nat /\ x < N /\ p \in Powers /\ p \in Nat \ {0} /\ p < N /\ N \in Nat \ {0} /\ N \in Powers
    BY DigitFacts, Sizes DEF Index
  <2>2. Bit(x + p, N) = Bit(x, N)
    BY <1>4, <2>1, BitSet
  <2>3. Bit(x, N) = 0
    BY <2>1, BitSmall
  <2>4. CASE x + p >= N
    <3>1. x + p = 1 * N + (x + p - N) /\ x + p - N \in 0..(N - 1) /\ x + p \in Int /\ 1 \in Int
      BY <2>1, <2>4
    <3>2. (x + p) \div N = 1
      BY ONLY <2>1, <3>1, DivModUnique
    <3> QED BY <2>2, <2>3, <3>2 DEF Bit
  <2> QED BY <2>1, <2>4 DEF Index
<1>5. a + h \in Index /\ r + m \in Index
  BY <1>1, <1>2, <1>4
<1>6. IsReversal(a + h, r + m)
  <2> SUFFICES ASSUME NEW b \in Digits PROVE Bit(r + m, Half \div b) = Bit(a + h, b)
    BY DEF IsReversal
  <2>1. b \in Powers /\ Half \div b \in Digits /\ Half \div b \in Powers
    BY DigitFacts, Mirror
  <2>2. (Half \div b = m) <=> (b = h)
    BY Mirror
  <2>3. Bit(a + h, b) = IF b = h THEN 1 ELSE Bit(a, b)
    BY <1>3, <2>1, BitSet
  <2>4. Bit(r + m, Half \div b) = IF Half \div b = m THEN 1 ELSE Bit(r, Half \div b)
    <3> HIDE DEF m
    <3> QED BY <1>2, <1>3, <2>1, BitSet
  <2>5. Bit(r, Half \div b) = Bit(a, b)
    BY <1>1 DEF IsReversal
  <2> QED BY <2>2, <2>3, <2>4, <2>5
<1>7. r + m = Reversal(a + h)
  BY <1>5, <1>6, ReversalUnique
<1> QED BY <1>2, <1>5, <1>7 DEF r
-----------------------------------------------------------------------------
\* The samples a with a = r modulo M whose factor z^((a-r)q) is z^s.
Members(M, r, q, s) == {a \in Index : a % M = r /\ ((a - r) * q) % N = s}
\* Their sum.
Terms(x, M, r, q, s) == SumFunctionOnSet(x, Members(M, r, q, s))

\* Value q of the Fourier transform of these samples.
Part(x, M, r, q) == [m \in Bins |-> Terms(x, M, r, q, m) - Terms(x, M, r, q, m + Half)]

\* Sums of samples are integers.
LEMMA TermsType ==
    ASSUME NEW x \in [Index -> Int], NEW M, NEW r, NEW q, NEW s
    PROVE  /\ Terms(x, M, r, q, s) \in Int /\ IsFiniteSet(Members(M, r, q, s))
           /\ Members(M, r, q, s) \subseteq Index
<1>1. IsFiniteSet(Index)
  BY Sizes, FS_Interval DEF Index
<1>2. Members(M, r, q, s) \subseteq Index
  BY DEF Members
<1>3. IsFiniteSet(Members(M, r, q, s))
  BY <1>1, <1>2, FS_Subset
<1>4. \A a \in Members(M, r, q, s) : x[a] \in Int
  BY <1>2
<1> QED BY <1>2, <1>3, <1>4, SumType DEF Terms

\* Half a turn takes the exponent t to this one.
Opposite(t) == IF t < Half THEN t + Half ELSE t - Half

\* Half a turn forth or back.
LEMMA HalfTurn ==
    ASSUME NEW y \in Int
    PROVE  /\ y % N \in Index
           /\ (y + Half) % N = Opposite(y % N)
           /\ (y - Half) % N = Opposite(y % N)
<1> DEFINE c == y \div N
           t == y % N
<1>1. N \in Nat \ {0} /\ N = 2 * Half /\ Half \in Nat
  BY Sizes
<1>2. y = c * N + t /\ c \in Int /\ t \in 0..(N - 1)
  BY ONLY <1>1, DivMod, y \in Int
<1> HIDE DEF c, t
<1>3. CASE t < Half
  <2> DEFINE f == y + Half
             b == y - Half
             u == t + Half
  <2>1. /\ f = c * N + u /\ u \in 0..(N - 1) /\ f \in Int
        /\ b = (c - 1) * N + u /\ c - 1 \in Int /\ b \in Int
    BY <1>1, <1>2, <1>3
  <2> HIDE DEF f, b, u
  <2>2. f % N = u
    BY ONLY <1>1, <1>2, <2>1, DivModUnique
  <2>3. b % N = u
    BY ONLY <1>1, <1>2, <2>1, DivModUnique
  <2> QED BY <1>2, <1>3, <2>2, <2>3 DEF t, f, b, u, Opposite, Index
<1>4. CASE ~(t < Half)
  <2> DEFINE f == y + Half
             b == y - Half
             u == t - Half
  <2>1. /\ b = c * N + u /\ u \in 0..(N - 1) /\ b \in Int
        /\ f = (c + 1) * N + u /\ c + 1 \in Int /\ f \in Int
    BY <1>1, <1>2, <1>4
  <2> HIDE DEF f, b, u
  <2>2. f % N = u
    BY ONLY <1>1, <1>2, <2>1, DivModUnique
  <2>3. b % N = u
    BY ONLY <1>1, <1>2, <2>1, DivModUnique
  <2> QED BY <1>2, <1>4, <2>2, <2>3 DEF t, f, b, u, Opposite, Index
<1> QED BY <1>3, <1>4

\* A coefficient of a number times z^e: what collects z^t less what collects -z^t.
LEMMA RotatePart ==
    ASSUME NEW x \in [Index -> Int], NEW M, NEW r, NEW q, NEW e \in Int, NEW m \in Bins
    PROVE  Rotate(Part(x, M, r, q), e)[m] =
               Terms(x, M, r, q, (m - e) % N) - Terms(x, M, r, q, Opposite((m - e) % N))
<1> DEFINE t == (m - e) % N
           T(c) == Terms(x, M, r, q, c)
<1>1. m \in Int /\ m - e \in Int /\ N = 2 * Half /\ Half \in Nat /\ N \in Nat
  BY Sizes DEF Bins
<1>2. t \in Index
  BY ONLY <1>1, HalfTurn
<1>3. T(t) \in Int /\ T(t - Half) \in Int
  BY TermsType
<1>4. Rotate(Part(x, M, r, q), e)[m] = IF t < Half THEN Part(x, M, r, q)[t] ELSE -Part(x, M, r, q)[t - Half]
  BY DEF Rotate
<1>5. CASE t < Half
  <2>1. t \in Bins
    BY <1>1, <1>2, <1>5 DEF Bins, Index
  <2>2. Part(x, M, r, q)[t] = T(t) - T(t + Half)
    BY <2>1 DEF Part
  <2> QED BY <1>4, <1>5, <2>2 DEF Opposite
<1>6. CASE ~(t < Half)
  <2>1. t - Half \in Bins /\ (t - Half) + Half = t
    BY <1>1, <1>2, <1>6 DEF Bins, Index
  <2>2. Part(x, M, r, q)[t - Half] = T(t - Half) - T(t)
    BY <2>1 DEF Part
  <2> QED BY <1>3, <1>4, <1>6, <2>2 DEF Opposite
<1> QED BY <1>5, <1>6

\* A transform of length 2h over every M-th sample, from those of length h over
\* every D-th: the values c and d are made of, and the exponent e between them.
Pairs(M, h, r, c, D, R, e, d) ==
    /\ M \in Nat \ {0} /\ h \in Nat \ {0} /\ Half = M * h /\ r \in 0..(M - 1) /\ c \in Nat
    /\ D = 2 * M /\ R = r + M /\ e = M * c /\ d = c + h

\* One butterfly: two values of the transform of length 2h are a value of each of
\* the two transforms of length h, the second one rotated, added and subtracted.
LEMMA Combine ==
    ASSUME NEW x \in [Index -> Int], NEW M, NEW h, NEW r, NEW c, NEW D, NEW R, NEW e, NEW d,
           Pairs(M, h, r, c, D, R, e, d)
    PROVE  /\ Part(x, M, r, c) = Add(Part(x, D, r, c), Rotate(Part(x, D, R, c), e))
           /\ Part(x, M, r, d) = Subtract(Part(x, D, r, c), Rotate(Part(x, D, R, c), e))
<1> /\ M \in Nat \ {0} /\ h \in Nat \ {0} /\ Half = M * h /\ r \in 0..(M - 1) /\ c \in Nat
    /\ D = 2 * M /\ R = r + M /\ e = M * c /\ d = c + h
  BY DEF Pairs
<1> DEFINE P0 == Part(x, 2 * M, r, c)
           P1 == Part(x, 2 * M, r + M, c)
           T0(s) == Terms(x, 2 * M, r, c, s)
           T1(s) == Terms(x, 2 * M, r + M, c, s)
           odd == Rotate(P1, M * c)
<1>0. ASSUME NEW s \in Index, NEW g \in {0, 1}, NEW q, q = c + g * h,
             NEW o, o = M * c + g * Half, NEW u, u = (s - o) % N
      PROVE  Terms(x, M, r, q, s) = T0(s) + T1(u)
  <2> DEFINE A == Members(M, r, q, s)
             A0 == Members(2 * M, r, c, s)
             A1 == Members(2 * M, r + M, c, u)
  <2>1. /\ N \in Nat \ {0} /\ N = 2 * (M * h) /\ Half \in Nat /\ 2 * M \in Nat \ {0}
        /\ q \in Int /\ o \in Int /\ s \in 0..(N - 1)
    BY <1>0, Sizes DEF Index
  <2>a. \A y, t \in Int : (y + t * N) % N = y % N
    BY ONLY <2>1, ModAdd
  <2>2. ASSUME NEW a \in Index PROVE a \in A <=> a \in A0 \cup A1
    <3>1. a \in Nat /\ a \in Int
      BY Sizes DEF Index
    <3>2. a % M = r <=> a % (2 * M) = r \/ a % (2 * M) = r + M
      <4>1. Rem(a, M) = r <=> Rem(a, 2 * M) = r \/ Rem(a, 2 * M) = r + M
        BY ONLY <3>1, RemDouble, M \in Nat \ {0}, r \in 0..(M - 1)
      <4> QED BY ONLY <4>1 DEF Rem
    <3> DEFINE f == a \div (2 * M)
    <3>3. a = f * (2 * M) + (a % (2 * M)) /\ f \in Int
      BY ONLY <2>1, <3>1, DivMod
    <3> HIDE DEF f
    <3>4. r # r + M
      OBVIOUS
    <3>5. CASE a % (2 * M) = r
      <4> DEFINE y == (a - r) * c
                 v == g * f
      <4>1. a - r = f * (2 * M)
        BY <3>1, <3>3, <3>5
      <4>2. (a - r) * q = y + v * N /\ v \in Int /\ y \in Int
        <5>1. (a - r) * q = (a - r) * c + g * ((a - r) * h)
          BY <1>0, <2>1, <3>1
        <5>2. (a - r) * h = f * N
          BY <2>1, <3>3, <4>1
        <5> QED BY <1>0, <2>1, <3>1, <3>3, <5>1, <5>2
      <4> HIDE DEF v, y
      <4>3. ((a - r) * q) % N = y % N
        BY ONLY <2>a, <4>2
      <4> QED BY <3>2, <3>4, <3>5, <4>3 DEF Members, y
    <3>6. CASE a % (2 * M) = r + M
      <4> DEFINE y == (a - (r + M)) * c
                 v == g * f
      <4>1. a - (r + M) = f * (2 * M)
        BY <3>1, <3>3, <3>6
      <4>2. (a - r) * q = (y + o) + v * N /\ v \in Int /\ y \in Int /\ y + o \in Int
        <5>1. (a - r) * q = (a - (r + M)) * c + M * c + g * ((a - r) * h)
          BY <1>0, <2>1, <3>1
        <5>2. (a - r) * h = f * N + Half
          BY <2>1, <3>1, <3>3, <4>1
        <5> QED BY <1>0, <2>1, <3>1, <3>3, <5>1, <5>2
      <4> HIDE DEF v, y
      <4>3. ((a - r) * q) % N = (y + o) % N
        BY ONLY <2>a, <4>2
      <4>4. (y + o) % N = s <=> y % N = u
        <5> DEFINE z == y + o
                   b == s - o
        <5>1. /\ N \in Nat \ {0} /\ s \in 0..(N - 1) /\ s \in Int /\ y \in Int /\ z \in Int
              /\ b \in Int /\ z - y = s - b
          BY <2>1, <4>2
        <5>2. u = b % N
          BY <1>0
        <5> HIDE DEF z, b
        <5>3. z % N = s % N <=> \E t \in Int : z = s + t * N
          BY ONLY <5>1, ModEqual
        <5>4. y % N = b % N <=> \E t \in Int : y = b + t * N
          BY ONLY <5>1, ModEqual
        <5>5. \A t \in Int : z = s + t * N <=> y = b + t * N
          BY ONLY <5>1
        <5>6. s % N = s
          BY ONLY <5>1, ModSmall
        <5> QED BY ONLY <5>2, <5>3, <5>4, <5>5, <5>6 DEF z
      <4> QED BY <3>2, <3>4, <3>6, <4>3, <4>4 DEF Members, y
    <3>7. CASE a % (2 * M) # r /\ a % (2 * M) # r + M
      BY <3>2, <3>7 DEF Members
    <3> QED BY <3>5, <3>6, <3>7
  <2>3. A0 \cap A1 = {}
    BY DEF Members
  <2>4. IsFiniteSet(A0) /\ IsFiniteSet(A1) /\ A \subseteq Index /\ A0 \subseteq Index /\ A1 \subseteq Index
    BY TermsType
  <2> HIDE DEF A, A0, A1
  <2>5. A = A0 \cup A1
    BY <2>2, <2>4
  <2>6. \A a \in A0 \cup A1 : x[a] \in Int
    BY <2>4
  <2>7. SumFunctionOnSet(x, A) = SumFunctionOnSet(x, A0) + SumFunctionOnSet(x, A1)
    BY <2>3, <2>4, <2>5, <2>6, SumUnion
  <2> QED BY <2>7 DEF Terms, A, A0, A1
<1> SUFFICES ASSUME NEW m \in Bins
             PROVE  /\ Part(x, M, r, c)[m] = P0[m] + odd[m]
                    /\ Part(x, M, r, c + h)[m] = P0[m] - odd[m]
  BY DEF Add, Subtract, Part
<1> DEFINE y == m - M * c
           t == y % N
<1>1. /\ N \in Nat \ {0} /\ N = 2 * Half /\ Half \in Nat /\ m \in Int /\ M * c \in Int /\ y \in Int
      /\ m \in Index /\ m + Half \in Index
  BY Sizes DEF Bins, Index
<1>2. /\ (m + Half) - M * c = y + Half
      /\ m - (M * c + Half) = y - Half /\ (m + Half) - (M * c + Half) = y
  BY <1>1
<1>3. (y + Half) % N = Opposite(t) /\ (y - Half) % N = Opposite(t)
  BY ONLY <1>1, HalfTurn
<1>4. odd[m] = T1(t) - T1(Opposite(t))
  BY ONLY <1>1, RotatePart, x \in [Index -> Int], m \in Bins
<1>5. /\ Terms(x, M, r, c, m) = T0(m) + T1(t)
      /\ Terms(x, M, r, c, m + Half) = T0(m + Half) + T1(Opposite(t))
  <2>1. \A s \in Index : \A u : u = (s - M * c) % N => Terms(x, M, r, c, s) = T0(s) + T1(u)
    <3>1. c = c + 0 * h /\ M * c = M * c + 0 * Half /\ 0 \in {0, 1}
      BY <1>1
    <3> QED BY <1>0, <3>1
  <2> QED BY <1>1, <1>2, <1>3, <2>1
<1>6. /\ Terms(x, M, r, c + h, m) = T0(m) + T1(Opposite(t))
      /\ Terms(x, M, r, c + h, m + Half) = T0(m + Half) + T1(t)
  <2>1. \A s \in Index : \A u : u = (s - (M * c + Half)) % N => Terms(x, M, r, c + h, s) = T0(s) + T1(u)
    <3>1. c + h = c + 1 * h /\ (M * c + Half) = M * c + 1 * Half /\ 1 \in {0, 1}
      BY <1>1
    <3> QED BY <1>0, <3>1
  <2> QED BY <1>1, <1>2, <1>3, <2>1
<1>7. /\ P0[m] = T0(m) - T0(m + Half)
      /\ Part(x, M, r, c)[m] = Terms(x, M, r, c, m) - Terms(x, M, r, c, m + Half)
      /\ Part(x, M, r, c + h)[m] = Terms(x, M, r, c + h, m) - Terms(x, M, r, c + h, m + Half)
  BY DEF Part
<1>8. \A s : T0(s) \in Int /\ T1(s) \in Int
  BY TermsType
<1> HIDE DEF P0, P1, T0, T1, odd, t
<1> QED BY <1>4, <1>5, <1>6, <1>7, <1>8

\* The transform of one sample is that sample.
LEMMA PartOfOne ==
    ASSUME NEW x \in [Index -> Int], NEW r \in Index
    PROVE  Part(x, N, r, 0) = Real(x[r])
<1>1. N \in Nat \ {0} /\ N > 1 /\ Half \in Nat \ {0} /\ Index = 0..(N - 1) /\ 0 \in 0..(N - 1)
  BY Sizes DEF Index
<1>2. \A a \in 0..(N - 1) : a % N = a
  BY ONLY <1>1, ModSmall
<1>3. ASSUME NEW s \in Index PROVE Members(N, r, 0, s) = IF s = 0 THEN {r} ELSE {}
  <2>1. ASSUME NEW a \in Index PROVE a % N = a /\ ((a - r) * 0) % N = 0
    BY <1>1, <1>2
  <2> QED BY <2>1 DEF Members
<1>4. SumFunctionOnSet(x, {r}) = x[r]
  <2>1. IsFiniteSet({r}) /\ {r} \ {r} = {} /\ \A e \in {r} : x[e] \in Int
    BY FS_Singleton
  <2>2. SumFunctionOnSet(x, {r}) = x[r] + SumFunctionOnSet(x, {r} \ {r})
    BY <2>1, SumRemove
  <2> QED BY <2>1, <2>2, SumEmpty
<1>5. ASSUME NEW s \in Index PROVE Terms(x, N, r, 0, s) = IF s = 0 THEN x[r] ELSE 0
  BY <1>3, <1>4, SumEmpty DEF Terms
<1>6. ASSUME NEW m \in Bins
      PROVE  Terms(x, N, r, 0, m) - Terms(x, N, r, 0, m + Half) = IF m = 0 THEN x[r] ELSE 0
  <2>1. m \in Index /\ m + Half \in Index /\ m + Half # 0
    BY Sizes DEF Bins, Index
  <2> QED BY <1>5, <2>1
<1> QED BY <1>6 DEF Part, Real

\* The transform of all the samples is the discrete Fourier transform.
LEMMA PartOfAll ==
    ASSUME NEW x \in [Index -> Int], NEW q \in Int
    PROVE  Part(x, 1, 0, q) = Dft(x, q)
<1>1. ASSUME NEW s PROVE Members(1, 0, q, s) = {a \in Index : (a * q) % N = s}
  <2>1. ASSUME NEW a \in Index PROVE a % 1 = 0 /\ (a - 0) * q = a * q
    BY Sizes DEF Index
  <2> QED BY <2>1 DEF Members
<1> QED BY <1>1 DEF Part, Dft, Terms

\* What data[c] holds when the butterflies of length L are done.
Value(x, L, c) == Part(x, N \div L, Reversal(c) % (N \div L), c % L)

\* A length of the butterflies: it is even, and it divides N.
LEMMA LengthFacts ==
    ASSUME NEW L \in PowersOfTwo \ {1}, NEW h, h = L \div 2, NEW M, M = N \div L
    PROVE  /\ L \in Powers /\ L = 2 * h /\ h \in Powers /\ h \in Digits
           /\ h \in Nat \ {0} /\ L \in Nat \ {0} /\ L <= N
           /\ M \in Nat \ {0} /\ N = M * L /\ Half = M * h /\ Half \div h = M /\ N \div h = 2 * M
<1>1. L \in Powers /\ L = 2 * h /\ h \in Powers /\ h \in Digits /\ h \in Nat \ {0} /\ L \in Nat \ {0}
  <2>1. L \in Powers /\ L \in 1..N
    BY DEF PowersOfTwo, Powers
  <2>2. L = 2 * h /\ h \in Powers
    BY <2>1, PowerHalf
  <2>3. h \in Nat \ {0} /\ L \in Nat \ {0}
    BY <2>1, <2>2 DEF Powers
  <2>4. h \in 1..N /\ h # N
    BY <2>1, <2>2, <2>3, Sizes
  <2> QED BY <2>1, <2>2, <2>3, <2>4 DEF Digits, PowersOfTwo, Powers
<1>2. M \in Nat \ {0} /\ N = M * L /\ Half = M * h /\ Half \div h = M /\ N \div h = 2 * M
  <2>1. N \in Nat \ {0} /\ N \in Powers /\ L <= N
    BY Sizes DEF PowersOfTwo
  <2>2. PICK q \in Nat \ {0} : N = q * L
    BY <1>1, <2>1, PowersDivide
  <2>3. N = q * L + 0 /\ q \in Int /\ 0 \in 0..(L - 1) /\ N \in Int
    BY <1>1, <2>1, <2>2
  <2>4. N \div L = q
    BY ONLY <1>1, <2>3, DivModUnique
  <2>5. Half = q * h + 0 /\ 0 \in 0..(h - 1) /\ Half \in Int
    BY <1>1, <2>2, Sizes
  <2>6. Half \div h = q
    BY ONLY <1>1, <2>3, <2>5, DivModUnique
  <2>7. N = (2 * q) * h + 0 /\ 2 * q \in Int
    BY <1>1, <2>2
  <2>8. N \div h = 2 * q
    BY ONLY <1>1, <2>3, <2>5, <2>7, DivModUnique
  <2> QED BY <2>2, <2>4, <2>5, <2>6, <2>8
<1> QED BY <1>1, <1>2, Sizes DEF PowersOfTwo

\* The butterfly on c and c + len/2 takes their values from one length to the next.
LEMMA ButterflyValues ==
    ASSUME NEW x \in [Index -> Int], NEW L \in PowersOfTwo \ {1}, NEW c \in Index,
           NEW h, h = L \div 2, c % L < h
    PROVE  LET even == Value(x, h, c)
               odd == Rotate(Value(x, h, c + h), (c % L) * (N \div L))
           IN  /\ c + h \in Index
               /\ Value(x, L, c) = Add(even, odd) /\ Value(x, L, c + h) = Subtract(even, odd)
<1> DEFINE M == N \div L
           n == c % L
           R == Reversal(c)
           r == R % M
<1>1. L \in Powers /\ L = 2 * h /\ h \in Powers /\ h \in Digits /\ h \in Nat \ {0} /\ L \in Nat \ {0}
  BY LengthFacts
<1>2. M \in Nat \ {0} /\ N = M * L /\ Half = M * h /\ Half \div h = M /\ N \div h = 2 * M
  BY LengthFacts
<1> HIDE DEF M
<1>3. c \in Nat /\ c \in Int /\ R \in Nat /\ R \in Int /\ R \in Index
  BY ReversalExists, Sizes DEF Index
<1>4. Bit(c, h) = 0 /\ c % h = n /\ n \in 0..(h - 1)
  <2>1. Bit(c, h) \in {0, 1} /\ c % (2 * h) = (c % h) + h * Bit(c, h)
    BY <1>1, <1>3, BitValue
  <2>2. c % h \in 0..(h - 1)
    BY ONLY <1>1, <1>3, DivMod
  <2>3. n = (c % h) + h * Bit(c, h) /\ n < h
    BY <1>1, <2>1
  <2> DEFINE v == c % h
  <2> HIDE DEF v, n
  <2>4. Bit(c, h) = 0
    <3>1. v \in 0..(h - 1) /\ n = v + h * Bit(c, h) /\ n < h
      BY <2>2, <2>3 DEF v
    <3>2. Bit(c, h) # 1
      BY <1>1, <3>1
    <3> QED BY <2>1, <3>2
  <2> QED BY <1>1, <2>2, <2>3, <2>4
<1>5. /\ c + h \in Index /\ Reversal(c + h) = R + M /\ Bit(R, M) = 0
  BY <1>1, <1>2, <1>4, ReversalPair
<1>6. r \in 0..(M - 1) /\ R % (2 * M) = r
  <2>1. r \in 0..(M - 1)
    BY ONLY <1>2, <1>3, DivMod
  <2>2. R % (2 * M) = r + M * Bit(R, M)
    BY <1>2, <1>3, BitValue
  <2> QED BY <1>2, <1>5, <2>1, <2>2
<1> HIDE DEF r, n, R
<1>7. (R + M) % (2 * M) = r + M /\ (R + M) % M = r
  <2> DEFINE u == R \div (2 * M)
             z == R + M
             D == 2 * M
             p == r + M
  <2>1. D \in Nat \ {0} /\ z \in Int
    BY <1>2, <1>3
  <2>2. R = u * D + (R % D) /\ u \in Int
    BY ONLY <2>1, <1>3, DivMod
  <2>3. /\ z = u * D + p /\ p \in 0..(D - 1)
        /\ z = (2 * u + 1) * M + r /\ 2 * u + 1 \in Int
    <3>1. R = u * D + r
      BY <1>6, <2>2
    <3> HIDE DEF u
    <3> QED BY <1>2, <1>3, <1>6, <2>2, <3>1
  <2> HIDE DEF u, z, D, p
  <2>4. z % D = p
    BY ONLY <2>1, <2>2, <2>3, DivModUnique
  <2>5. z % M = r
    BY ONLY <1>2, <1>6, <2>1, <2>3, DivModUnique
  <2> QED BY <2>4, <2>5 DEF z, D, p
<1>8. (c + h) % h = n /\ (c + h) % L = n + h
  <2> DEFINE u == c \div L
             z == c + h
             p == n + h
  <2>1. c = u * L + n /\ u \in Int
    BY ONLY <1>1, <1>3, DivMod DEF n
  <2> HIDE DEF u
  <2>2. /\ z = u * L + p /\ p \in 0..(L - 1) /\ z \in Int
        /\ z = (2 * u + 1) * h + n /\ 2 * u + 1 \in Int
    BY <1>1, <1>3, <1>4, <2>1
  <2> HIDE DEF z, p
  <2>3. z % L = p
    BY ONLY <1>1, <2>1, <2>2, DivModUnique
  <2>4. z % h = n
    BY ONLY <1>1, <1>4, <2>2, DivModUnique
  <2> QED BY <2>3, <2>4 DEF z, p
<1>9. /\ Value(x, L, c) = Part(x, M, r, n)
      /\ Value(x, h, c) = Part(x, 2 * M, r, n)
  BY <1>2, <1>4, <1>6 DEF Value, M, r, n, R
<1>10. /\ Value(x, L, c + h) = Part(x, M, r, n + h)
       /\ Value(x, h, c + h) = Part(x, 2 * M, r + M, n)
  BY <1>2, <1>5, <1>7, <1>8 DEF Value, M
<1>11. /\ Part(x, M, r, n) =
             Add(Part(x, 2 * M, r, n), Rotate(Part(x, 2 * M, r + M, n), M * n))
       /\ Part(x, M, r, n + h) =
             Subtract(Part(x, 2 * M, r, n), Rotate(Part(x, 2 * M, r + M, n), M * n))
  <2>1. Pairs(M, h, r, n, 2 * M, r + M, M * n, n + h)
    BY <1>1, <1>2, <1>4, <1>6 DEF Pairs
  <2> QED BY ONLY <2>1, Combine, x \in [Index -> Int]
<1>12. M * n = n * M
  BY <1>1, <1>2, <1>4
<1> QED BY <1>5, <1>9, <1>10, <1>11, <1>12 DEF n, M

-----------------------------------------------------------------------------
\* The loop variables: where each loop is, and what the ones that have not begun
\* or are over are left at.
LoopInv ==
    /\ stage = "filter" => i \in Index /\ j = 0
    /\ stage = "reverse" => i \in 1..(N - 1) /\ j = Reversal(i - 1)
    /\ stage \in {"filter", "reverse"} => len = 2 /\ base = 0 /\ k = 0 /\ w = 0
    /\ stage = "butterfly" =>
           /\ len \in PowersOfTwo \ {1} /\ base % len = 0 /\ base + len <= N
           /\ k < len \div 2 /\ w = k * (N \div len)
    /\ stage \in {"magnitude", "detect", "done"} => base = 0 /\ k = 0 /\ w = 0

\* Filtered sample a lies between the least and the greatest of its taps.
Within(a) == LET taps == {samples[b] : b \in Taps(a)}
             IN  6 * Min(taps) <= filtered[a] /\ filtered[a] <= 6 * Max(taps)
\* So do all the samples filtered so far.
FilterInv == \A a \in Index : stage # "filter" \/ a < i => Within(a)

\* The butterflies of this length that index c takes part in are done.
Done(c) == c < base + k \/ (base + len \div 2 <= c /\ c < base + len \div 2 + k)

\* What data holds in the course of the permutation and of the butterflies.
DataInv ==
    /\ stage = "reverse" =>
           \A a \in Index : data[a] = Real(filtered[IF a < i \/ Reversal(a) < i THEN Reversal(a) ELSE a])
    /\ stage = "butterfly" =>
           \A c \in Index : data[c] = Value(filtered, IF Done(c) THEN len ELSE len \div 2, c)
    /\ stage \in {"magnitude", "detect", "done"} => \A b \in Index : data[b] = Dft(filtered, b)

\* The peak that the detector finds.
Peak == Max({spectrum[b] : b \in Bins} \cup {0})

\* What the magnitudes and the detection are computed from.
DetectionInv ==
    /\ stage \in {"detect", "done"} => \A b \in Bins : spectrum[b] = 0 <=> data[b] = Real(0)
    /\ stage = "done" => detection = [targetDetected |-> Detected(Peak, SumFunction(spectrum)),
                                      peakMagnitude |-> Peak]

\* The inductive invariant.
ProcessorInv == TypeOK /\ LoopInv /\ FilterInv /\ DataInv /\ DetectionInv

\* The operations on complex numbers give complex numbers.
LEMMA ComplexType ==
    /\ \A x \in Int : Real(x) \in [Bins -> Int]
    /\ \A a, b \in [Bins -> Int] : Add(a, b) \in [Bins -> Int] /\ Subtract(a, b) \in [Bins -> Int]
    /\ \A a \in [Bins -> Int], e \in Int : Rotate(a, e) \in [Bins -> Int]
<1>1. \A x \in Int : Real(x) \in [Bins -> Int]
  BY DEF Real
<1>2. \A a, b \in [Bins -> Int] : Add(a, b) \in [Bins -> Int] /\ Subtract(a, b) \in [Bins -> Int]
  BY DEF Add, Subtract
<1>3. ASSUME NEW a \in [Bins -> Int], NEW e \in Int PROVE Rotate(a, e) \in [Bins -> Int]
  <2>1. ASSUME NEW m \in Bins
        PROVE  (LET r == (m - e) % N IN IF r < Half THEN a[r] ELSE -a[r - Half]) \in Int
    <3> DEFINE r == (m - e) % N
    <3>1. m - e \in Int
      BY DEF Bins
    <3>2. r \in Index
      BY ONLY <3>1, HalfTurn
    <3> HIDE DEF r
    <3>3. CASE r < Half
      <4>1. r \in Bins
        BY <3>2, <3>3, Sizes DEF Bins, Index
      <4> QED BY <3>3, <4>1 DEF r
    <3>4. CASE ~(r < Half)
      <4>1. r - Half \in Bins
        BY <3>2, <3>4, Sizes DEF Bins, Index
      <4>2. -a[r - Half] \in Int
        BY <4>1
      <4> QED BY <3>4, <4>2 DEF r
    <3> QED BY <3>3, <3>4
  <2> QED BY <2>1 DEF Rotate
<1> QED BY <1>1, <1>2, <1>3

\* Every sample has one neighbour or two, so an average is a whole number of sixths.
LEMMA CountOfTaps == ASSUME NEW a \in Index PROVE Count(a) \in {2, 3}
<1> DEFINE below == a - 1
           above == a + 1
<1>1. a \in Nat /\ a < N /\ N > 1 /\ N \in Nat
  BY Sizes DEF Index
<1>2. below # a /\ a # above /\ above # below
  BY <1>1
<1>3. /\ a = 0 => Taps(a) = {a, above}
      /\ a # 0 /\ a + 1 = N => Taps(a) = {below, a}
      /\ a # 0 /\ a + 1 # N => Taps(a) = {below, a} \cup {above}
  BY <1>1 DEF Taps
<1> HIDE DEF below, above
<1>4. ASSUME NEW x, NEW y, x # y PROVE IsFiniteSet({x, y}) /\ Cardinality({x, y}) = 2
  <2>1. IsFiniteSet({x}) /\ Cardinality({x}) = 1 /\ {x, y} = {x} \cup {y} /\ y \notin {x}
    BY <1>4, FS_Singleton
  <2> QED BY <2>1, FS_AddElement
<1>5. Cardinality({a, above}) = 2 /\ Cardinality({below, a}) = 2 /\ IsFiniteSet({below, a})
  BY ONLY <1>2, <1>4
<1>6. Cardinality({below, a} \cup {above}) = 3
  <2>1. above \notin {below, a}
    BY <1>2
  <2>2. Cardinality({below, a} \cup {above}) = Cardinality({below, a}) + 1
    BY ONLY <1>5, <2>1, FS_AddElement
  <2> QED BY ONLY <1>5, <2>2
<1> QED BY <1>3, <1>5, <1>6 DEF Count

\* The average of two or three numbers lies between the least and the greatest.
LEMMA AverageBounds ==
    ASSUME NEW sum \in Int, NEW n \in {2, 3}, NEW lo \in Int, NEW hi \in Int,
           lo * n <= sum, sum <= hi * n
    PROVE  /\ Average(sum, n) \in Int /\ Average(sum, n) * n = 6 * sum
           /\ 6 * lo <= Average(sum, n) /\ Average(sum, n) <= 6 * hi
<1>1. CASE n = 2
  <2>1. Average(sum, n) = 3 * sum
    BY <1>1 DEF Average
  <2> QED BY <1>1, <2>1
<1>2. CASE n = 3
  <2>1. Average(sum, n) = 2 * sum
    BY <1>2 DEF Average
  <2> QED BY <1>2, <2>1
<1> QED BY <1>1, <1>2

\* What the filter computes lies between the least and the greatest tap.
LEMMA MeanOfTaps ==
    ASSUME NEW x \in [Index -> Int], NEW a \in Index
    PROVE  LET taps == {x[b] : b \in Taps(a)}
               mean == Average(SumFunctionOnSet(x, Taps(a)), Count(a))
           IN  mean \in Int /\ 6 * Min(taps) <= mean /\ mean <= 6 * Max(taps)
<1> DEFINE T == Taps(a)
           taps == {x[b] : b \in T}
           n == Cardinality(T)
           sum == SumFunctionOnSet(x, T)
<1>1. T \subseteq Index /\ a \in T
  BY Sizes DEF Taps, Index
<1>2. IsFiniteSet(T)
  <2>1. IsFiniteSet(Index)
    BY Sizes, FS_Interval DEF Index
  <2> QED BY ONLY <1>1, <2>1, FS_Subset
<1>3. n \in {2, 3}
  BY CountOfTaps DEF Count
<1>4. taps \in SUBSET Int /\ taps # {} /\ IsFiniteSet(taps)
  <2>1. IsFiniteSet(taps)
    BY ONLY <1>2, ImageFinite
  <2> QED BY <1>1, <2>1
<1> HIDE DEF T, n, sum
<1>5. Max(taps) \in Int /\ Min(taps) \in Int /\ \A y \in taps : Min(taps) <= y /\ y <= Max(taps)
  BY <1>4, Extremes
<1>6. \A b \in T : x[b] \in Int /\ Min(taps) <= x[b] /\ x[b] <= Max(taps)
  BY <1>1, <1>5
<1>7. sum \in Int
  BY <1>2, <1>6, SumType DEF sum
<1> DEFINE lo == Min(taps)
           hi == Max(taps)
<1> HIDE DEF lo, hi, taps
<1>8. lo \in Int /\ hi \in Int /\ \A b \in T : x[b] \in Int /\ lo <= x[b] /\ x[b] <= hi
  BY <1>5, <1>6 DEF lo, hi
<1>9. lo * n <= sum /\ sum <= hi * n
  BY ONLY <1>2, <1>8, SumBounds DEF n, sum
<1>10. Average(sum, n) \in Int /\ 6 * lo <= Average(sum, n) /\ Average(sum, n) <= 6 * hi
  BY ONLY <1>3, <1>7, <1>8, <1>9, AverageBounds
<1> QED BY <1>10 DEF Count, T, n, sum, lo, hi, taps

\* What the loop variables start from is of their types.
LEMMA Two == 2 \in PowersOfTwo /\ 0 \in Bins /\ 0 \in Index /\ 2 * N \in Nat
<1>1. 2 * 1 \in Powers
  BY PowerOne, PowerDouble
<1>2. 2 \in 1..N
  BY Sizes
<1> QED BY <1>1, <1>2, Sizes DEF PowersOfTwo, Powers, Bins, Index

\* The inductive invariant holds when process() is called.
LEMMA InvInit == Init => ProcessorInv
<1> SUFFICES ASSUME Init PROVE ProcessorInv
  OBVIOUS
<1>1. TypeOK
  <2>1. samples \in [Index -> Int]
    BY ProcessorAssumption DEF Init
  <2>2. data \in [Index -> [Bins -> Int]] /\ filtered \in [Index -> Int] /\ spectrum \in [Bins -> Nat]
    BY ComplexType DEF Init
  <2>3. i \in 0..N
    BY Sizes DEF Init
  <2> QED BY <2>1, <2>2, <2>3, Two DEF Init, TypeOK
<1>2. LoopInv
  BY Two DEF Init, LoopInv
<1>3. FilterInv
  BY DEF Init, FilterInv, Index
<1> QED BY <1>1, <1>2, <1>3 DEF Init, ProcessorInv, DataInv, DetectionInv

\* A step of the filter keeps it.
LEMMA InvFilter == ProcessorInv /\ Filter => ProcessorInv'
<1> SUFFICES ASSUME ProcessorInv, Filter PROVE ProcessorInv'
  OBVIOUS
<1> DEFINE mean == Average(SumFunctionOnSet(samples, Taps(i)), Count(i))
<1>1. /\ stage = "filter" /\ i \in Index /\ samples \in [Index -> Int] /\ filtered \in [Index -> Int]
      /\ j = 0 /\ len = 2 /\ base = 0 /\ k = 0 /\ w = 0
      /\ UNCHANGED <<samples, j, len, base, k, w, spectrum, detection>>
  BY DEF ProcessorInv, TypeOK, LoopInv, Filter
<1>2. /\ mean \in Int /\ 6 * Min({samples[b] : b \in Taps(i)}) <= mean
      /\ mean <= 6 * Max({samples[b] : b \in Taps(i)})
  BY <1>1, MeanOfTaps
<1>3. filtered' = [filtered EXCEPT ![i] = mean]
  BY DEF Filter
<1> HIDE DEF mean
<1>4. filtered' \in [Index -> Int]
  BY <1>1, <1>2, <1>3
<1>5. ASSUME NEW a \in Index, a < i \/ a = i PROVE Within(a)'
  <2>1. CASE a = i
    <3>1. filtered'[a] = mean
      BY <1>1, <1>3, <2>1
    <3> QED BY <1>1, <1>2, <2>1, <3>1 DEF Within, Taps
  <2>2. CASE a # i
    <3>1. filtered'[a] = filtered[a]
      BY <1>1, <1>3, <2>2
    <3>2. Within(a)
      BY <1>5, <2>2 DEF ProcessorInv, FilterInv
    <3> QED BY <1>1, <3>1, <3>2 DEF Within, Taps
  <2> QED BY <2>1, <2>2
<1>6. CASE i + 1 < N
  <2>1. stage' = "filter" /\ i' = i + 1 /\ data' = data
    BY <1>1, <1>6 DEF Filter
  <2>2. i + 1 \in Index /\ i + 1 \in 0..N
    BY <1>1, <1>6, Sizes DEF Index
  <2>3. TypeOK'
    BY <1>1, <1>4, <2>1, <2>2 DEF ProcessorInv, TypeOK
  <2>4. LoopInv'
    BY <1>1, <2>1, <2>2 DEF LoopInv
  <2>5. FilterInv'
    <3>1. \A a \in Index : a < i + 1 => a < i \/ a = i
      BY <1>1 DEF Index
    <3> QED BY <1>5, <2>1, <3>1 DEF FilterInv
  <2> QED BY <2>1, <2>3, <2>4, <2>5 DEF ProcessorInv, DataInv, DetectionInv
<1>7. CASE ~(i + 1 < N)
  <2>1. stage' = "reverse" /\ i' = 1 /\ data' = [a \in Index |-> Real(filtered'[a])]
    BY <1>1, <1>3, <1>7 DEF Filter, mean
  <2>2. 1 \in 1..(N - 1) /\ 1 \in 0..N /\ i = N - 1 /\ 1 - 1 = 0
    BY <1>1, <1>7, Sizes DEF Index
  <2>3. TypeOK'
    <3>1. data' \in [Index -> [Bins -> Int]]
      BY <1>4, <2>1, ComplexType
    <3> QED BY <1>1, <1>4, <2>1, <2>2, <3>1, Two DEF ProcessorInv, TypeOK
  <2>4. LoopInv'
    BY <1>1, <2>1, <2>2, ReversalZero DEF LoopInv
  <2>5. FilterInv'
    <3>1. \A a \in Index : a < i \/ a = i
      BY <2>2, Sizes DEF Index
    <3> QED BY <1>5, <3>1 DEF FilterInv
  <2>6. DataInv'
    <3>1. ASSUME NEW a \in Index
          PROVE  filtered'[IF a < 1 \/ Reversal(a) < 1 THEN Reversal(a) ELSE a] = filtered'[a]
      <4>1. Reversal(a) \in Index /\ Reversal(Reversal(a)) = a
        BY ReversalExists, ReversalTwice
      <4>2. a < 1 \/ Reversal(a) < 1 => Reversal(a) = a
        <5>1. a < 1 => a = 0
          BY DEF Index
        <5>2. Reversal(a) < 1 => Reversal(a) = 0
          BY <4>1 DEF Index
        <5> QED BY <4>1, <5>1, <5>2, ReversalZero
      <4> QED BY <4>2
    <3> QED BY <2>1, <3>1 DEF DataInv
  <2> QED BY <2>1, <2>3, <2>4, <2>5, <2>6 DEF ProcessorInv, DetectionInv
<1> QED BY <1>6, <1>7

\* Before the first butterfly each value is the transform of one sample.
LEMMA ValueStart ==
    ASSUME NEW x \in [Index -> Int], NEW c \in Index
    PROVE  Value(x, 1, c) = Real(x[Reversal(c)])
<1>1. Reversal(c) \in Index /\ c \in Int
  <2>1. Reversal(c) \in Index
    BY ReversalExists
  <2> QED BY <2>1 DEF Index
<1>2. N \div 1 = N /\ c % 1 = 0
  BY <1>1, Sizes
<1>3. Reversal(c) % N = Reversal(c)
  <2>1. N \in Nat \ {0} /\ Reversal(c) \in 0..(N - 1)
    BY <1>1, Sizes DEF Index
  <2> QED BY ONLY <2>1, ModSmall
<1> QED BY <1>1, <1>2, <1>3, PartOfOne DEF Value

\* After the last each is a value of the discrete Fourier transform.
LEMMA ValueEnd ==
    ASSUME NEW x \in [Index -> Int], NEW c \in Index
    PROVE  Value(x, N, c) = Dft(x, c)
<1>1. N \in Nat \ {0} /\ N \in Int /\ c \in 0..(N - 1) /\ c \in Int /\ Reversal(c) \in Int
  <2>1. Reversal(c) \in Index
    BY ReversalExists
  <2> QED BY <2>1, Sizes DEF Index
<1>2. N \div N = 1
  <2>1. N = 1 * N + 0 /\ 1 \in Int /\ 0 \in 0..(N - 1)
    BY <1>1
  <2> QED BY ONLY <1>1, <2>1, DivModUnique
<1>3. c % N = c
  BY ONLY <1>1, ModSmall
<1>4. Reversal(c) % 1 = 0
  BY <1>1
<1> QED BY <1>1, <1>2, <1>3, <1>4, PartOfAll DEF Value

\* Each value is a complex number.
LEMMA ValueType ==
    ASSUME NEW x \in [Index -> Int], NEW L, NEW c
    PROVE  Value(x, L, c) \in [Bins -> Int]
BY TermsType DEF Value, Part

\* After the filter the filtered samples stay what they are.
LEMMA FilterOver ==
    ASSUME FilterInv, stage # "filter", UNCHANGED <<samples, filtered>>
    PROVE  FilterInv'
<1>1. ASSUME NEW a \in Index PROVE Within(a)'
  <2>1. Within(a)
    BY DEF FilterInv
  <2> QED BY <2>1 DEF Within, Taps
<1> QED BY <1>1 DEF FilterInv

\* A step of the permutation keeps the invariant.
LEMMA InvReverse == ProcessorInv /\ Reverse => ProcessorInv'
<1> SUFFICES ASSUME ProcessorInv, Reverse PROVE ProcessorInv'
  OBVIOUS
<1> DEFINE r == Reversal(i)
           moved(a) == a < i \/ Reversal(a) < i
           later(a) == a < i + 1 \/ Reversal(a) < i + 1
<1>1. /\ stage = "reverse" /\ i \in 1..(N - 1) /\ j = Reversal(i - 1)
      /\ samples \in [Index -> Int] /\ filtered \in [Index -> Int] /\ data \in [Index -> [Bins -> Int]]
      /\ len = 2 /\ base = 0 /\ k = 0 /\ w = 0 /\ i' = i + 1
      /\ UNCHANGED <<samples, filtered, len, base, k, w, spectrum, detection>>
      /\ \A a \in Index : data[a] = Real(filtered[IF moved(a) THEN Reversal(a) ELSE a])
  BY DEF ProcessorInv, TypeOK, LoopInv, DataInv, Reverse
<1>2. i \in Index /\ i - 1 \in Index /\ i \in Nat
  BY <1>1, Sizes DEF Index
<1>3. r \in Index /\ Reversal(r) = i /\ \A a \in Index : Reversal(a) \in Index /\ Reversal(Reversal(a)) = a
  BY <1>2, ReversalExists, ReversalTwice
<1>4. NextJ = r
  <2> DEFINE p == i - 1
  <2>0. p \in Index /\ p + 1 < N /\ p + 1 = i
    BY <1>1, <1>2, Sizes
  <2> HIDE DEF p
  <2>1. Increment(Reversal(p)) = Reversal(p + 1)
    BY ONLY <2>0, ReversalNext
  <2>2. NextJ = Increment(j)
    BY DEF NextJ, CarryBit, Increment, Carry, Digits
  <2> QED BY <1>1, <2>0, <2>1, <2>2 DEF p
<1> HIDE DEF r
<1>5. /\ j' = r /\ data' = IF i < r THEN [data EXCEPT ![i] = data[r], ![r] = data[i]] ELSE data
      /\ stage' = IF i + 1 < N THEN stage ELSE "butterfly"
  BY <1>4 DEF Reverse, Swaps
<1>6. data' \in [Index -> [Bins -> Int]]
  BY <1>1, <1>2, <1>3, <1>5
<1>7. \A a \in Index : data'[a] = Real(filtered[IF later(a) THEN Reversal(a) ELSE a])
  <2> SUFFICES ASSUME NEW a \in Index
               PROVE  data'[a] = Real(filtered[IF later(a) THEN Reversal(a) ELSE a])
    OBVIOUS
  <2>1. a \in Nat /\ r \in Nat /\ Reversal(a) \in Nat
    BY <1>3, Sizes DEF Index
  <2>2. CASE a # i /\ a # r
    <3>1. data'[a] = data[a]
      BY <1>1, <1>5, <2>2
    <3>2. Reversal(a) # i
      BY <1>3, <2>2 DEF r
    <3>3. later(a) <=> moved(a)
      BY <1>2, <2>1, <2>2, <3>2
    <3> QED BY <1>1, <3>1, <3>3
  <2>3. CASE a = i
    <3>1. later(a)
      BY <1>2, <2>3
    <3>2. CASE i < r
      <4>1. data'[i] = data[r] /\ ~moved(r)
        BY <1>1, <1>2, <1>3, <1>5, <2>1, <3>2
      <4> QED BY <1>1, <1>3, <2>3, <3>1, <4>1 DEF r
    <3>3. CASE ~(i < r)
      <4>1. data'[i] = data[i] /\ (moved(i) \/ r = i)
        BY <1>2, <1>5, <2>1, <3>3 DEF r
      <4> QED BY <1>1, <1>2, <2>3, <3>1, <4>1 DEF r
    <3> QED BY <3>2, <3>3
  <2>4. CASE a = r /\ a # i
    <3>1. later(a)
      BY <1>2, <1>3, <2>4
    <3>2. CASE i < r
      <4>1. data'[r] = data[i] /\ ~moved(i)
        BY <1>1, <1>2, <1>3, <1>5, <2>1, <3>2 DEF r
      <4> QED BY <1>1, <1>2, <1>3, <2>4, <3>1, <4>1
    <3>3. CASE ~(i < r)
      <4>1. data'[r] = data[r] /\ moved(r)
        BY <1>2, <1>5, <2>1, <2>4, <3>3
      <4> QED BY <1>1, <1>3, <2>4, <3>1, <4>1
    <3> QED BY <3>2, <3>3
  <2> QED BY <2>2, <2>3, <2>4
<1>8. stage' \in {"reverse", "butterfly"} /\ i + 1 \in 0..N
  BY <1>1, <1>5, Sizes
<1>9. TypeOK'
  BY <1>1, <1>3, <1>5, <1>6, <1>8 DEF ProcessorInv, TypeOK
<1>10. FilterInv'
  BY <1>1, FilterOver DEF ProcessorInv
<1>11. DetectionInv'
  BY <1>8 DEF DetectionInv
<1>12. CASE i + 1 < N
  <2>1. stage' = "reverse" /\ i + 1 \in 1..(N - 1) /\ (i + 1) - 1 = i
    BY <1>1, <1>5, <1>12, Sizes
  <2>2. LoopInv'
    BY <1>1, <1>5, <2>1 DEF LoopInv, r
  <2>3. DataInv'
    BY <1>1, <1>7, <2>1 DEF DataInv
  <2> QED BY <1>9, <1>10, <1>11, <2>2, <2>3 DEF ProcessorInv
<1>13. CASE ~(i + 1 < N)
  <2>1. stage' = "butterfly" /\ i + 1 = N
    BY <1>1, <1>5, <1>13, Sizes
  <2>2. LoopInv'
    <3>1. 0 % 2 = 0 /\ 0 + 2 <= N /\ 2 \div 2 = 1 /\ 0 < 1 /\ 0 = 0 * (N \div 2)
      BY Sizes
    <3> QED BY <1>1, <2>1, <3>1, Two DEF LoopInv
  <2>3. DataInv'
    <3>1. ASSUME NEW c \in Index PROVE ~Done(c)' /\ data'[c] = Value(filtered, 1, c)
      <4>1. 2 \div 2 = 1 /\ c \in Nat /\ c < i + 1
        BY <2>1, Sizes DEF Index
      <4>2. ~Done(c)'
        BY <1>1, <4>1 DEF Done
      <4>3. data'[c] = Real(filtered[Reversal(c)])
        BY <1>7, <4>1
      <4> QED BY <1>1, <4>2, <4>3, ValueStart
    <3>2. 2 \div 2 = 1
      OBVIOUS
    <3> QED BY <1>1, <2>1, <3>1, <3>2 DEF DataInv
  <2> QED BY <1>9, <1>10, <1>11, <2>2, <2>3 DEF ProcessorInv
<1> QED BY <1>12, <1>13

\* A butterfly keeps the invariant.
LEMMA InvButterfly == ProcessorInv /\ Butterfly => ProcessorInv'
<1> SUFFICES ASSUME ProcessorInv, Butterfly PROVE ProcessorInv'
  OBVIOUS
<1> DEFINE h == len \div 2
           M == N \div len
           c1 == base + k
           c2 == c1 + h
<1>1. /\ stage = "butterfly" /\ len \in PowersOfTwo \ {1}
      /\ base \in Index /\ base % len = 0 /\ base + len <= N
      /\ k \in Nat /\ k < h /\ w = k * M
      /\ samples \in [Index -> Int] /\ filtered \in [Index -> Int] /\ data \in [Index -> [Bins -> Int]]
      /\ UNCHANGED <<samples, filtered, i, j, spectrum, detection>>
      /\ \A c \in Index : data[c] = Value(filtered, IF Done(c) THEN len ELSE h, c)
  <2>1. stage = "butterfly" /\ UNCHANGED <<samples, filtered, i, j, spectrum, detection>>
    BY DEF Butterfly
  <2>2. /\ base \in Index /\ k \in Nat
        /\ samples \in [Index -> Int] /\ filtered \in [Index -> Int] /\ data \in [Index -> [Bins -> Int]]
    BY DEF ProcessorInv, TypeOK, Bins
  <2>3. /\ len \in PowersOfTwo \ {1} /\ base % len = 0 /\ base + len <= N
        /\ k < h /\ w = k * M
    BY <2>1 DEF ProcessorInv, LoopInv
  <2>4. \A c \in Index : data[c] = Value(filtered, IF Done(c) THEN len ELSE h, c)
    BY <2>1 DEF ProcessorInv, DataInv
  <2> QED BY <2>1, <2>2, <2>3, <2>4
<1>2. /\ len = 2 * h /\ h \in Nat \ {0} /\ len \in Nat \ {0} /\ len <= N /\ len \in Powers
      /\ M \in Nat \ {0} /\ N = M * len /\ Half = M * h
  BY <1>1, LengthFacts
<1>3. N \in Nat \ {0} /\ N = 2 * Half /\ Half \in Nat \ {0} /\ N \in Powers
  BY Sizes
<1>4. PICK q \in Nat : base = q * len
  <2>1. base \in Nat /\ base \in Int
    BY <1>1 DEF Index
  <2>2. base = (base \div len) * len + (base % len) /\ base \div len \in Int
    BY ONLY <1>2, <2>1, DivMod
  <2> DEFINE u == base \div len
  <2> HIDE DEF u
  <2>3. base = u * len /\ u \in Int
    BY <1>1, <1>2, <2>2 DEF u
  <2>4. u >= 0
    <3>1. ASSUME u < 0 PROVE FALSE
      <4>1. PICK d \in Nat : u = -1 - d
        <5>1. -1 - u \in Nat /\ u = -1 - (-1 - u)
          BY <2>3, <3>1
        <5> QED BY <5>1
      <4>2. u * len = -len - d * len /\ d * len >= 0
        BY <1>2, <4>1
      <4> QED BY <1>2, <2>1, <2>3, <4>2
    <3> QED BY <2>3, <3>1
  <2> QED BY <2>3, <2>4
<1> HIDE DEF h, M
<1>5. c1 \in Index /\ c1 \in Nat /\ c1 % len = k /\ c1 \in Int
  <2>1. c1 \in Nat /\ c1 < N
    BY <1>1, <1>2, <1>3 DEF Index
  <2>2. c1 = q * len + k /\ q \in Int /\ k \in 0..(len - 1) /\ c1 \in Int
    BY <1>1, <1>2, <1>4
  <2> HIDE DEF c1
  <2>3. c1 % len = k
    BY ONLY <1>2, <2>2, DivModUnique
  <2> QED BY <1>3, <2>1, <2>2, <2>3 DEF Index
<1>6. /\ c2 \in Index
      /\ Value(filtered, len, c1) = Add(Value(filtered, h, c1), Rotate(Value(filtered, h, c2), w))
      /\ Value(filtered, len, c2) = Subtract(Value(filtered, h, c1), Rotate(Value(filtered, h, c2), w))
  <2>1. c1 % len < h /\ h = len \div 2 /\ w = (c1 % len) * (N \div len)
    BY <1>1, <1>5 DEF h, M
  <2> HIDE DEF c1
  <2> QED BY <1>1, <1>5, <2>1, ButterflyValues
<1>7. data[c1] = Value(filtered, h, c1) /\ data[c2] = Value(filtered, h, c2) /\ c1 # c2
  <2>1. ~Done(c1) /\ ~Done(c2) /\ c1 # c2
    BY <1>1, <1>2, <1>5 DEF Done, h, Index
  <2> QED BY <1>1, <1>5, <1>6, <2>1
<1>8. data' = [data EXCEPT ![c1] = Value(filtered, len, c1), ![c2] = Value(filtered, len, c2)]
  BY <1>6, <1>7 DEF Butterfly, h
<1>9. \A c \in Index : data'[c] = Value(filtered, IF Done(c) \/ c = c1 \/ c = c2 THEN len ELSE h, c)
  <2> HIDE DEF c1, c2
  <2> QED BY <1>1, <1>5, <1>6, <1>7, <1>8
<1>10. data' \in [Index -> [Bins -> Int]]
  BY <1>1, <1>8, ValueType
<1>11. FilterInv'
  BY <1>1, FilterOver DEF ProcessorInv
<1>12. ASSUME NEW a \in Nat, a < h PROVE a * M \in Bins /\ a \in Bins
  <2>1. PICK d \in Nat : h = (a + 1) + d
    <3>1. h - (a + 1) \in Nat /\ h = (a + 1) + (h - (a + 1))
      BY <1>2, <1>12
    <3> QED BY <3>1
  <2>2. M * h = a * M + M + M * d /\ M * d >= 0 /\ a * M >= 0
    BY <1>2, <2>1
  <2>3. a * M < Half /\ a * M \in Nat
    BY <1>2, <2>2
  <2>4. h <= Half
    <3>1. PICK f \in Nat : M = f + 1
      <4>1. M - 1 \in Nat /\ M = (M - 1) + 1
        BY <1>2
      <4> QED BY <4>1
    <3>2. M * h = f * h + h /\ f * h >= 0
      BY <1>2, <3>1
    <3> QED BY <1>2, <3>2
  <2> QED BY <1>2, <1>3, <1>12, <2>3, <2>4 DEF Bins
<1>e. \/ /\ k + 1 < h
         /\ k' = k + 1 /\ w' = (w + WLen) % N /\ UNCHANGED <<stage, base, len>>
      \/ /\ k + 1 = h /\ k' = 0 /\ w' = 0
         /\ IF base + len < N THEN base' = base + len /\ UNCHANGED <<stage, len>>
            ELSE /\ base' = 0 /\ len' = 2 * len
                 /\ stage' = IF 2 * len <= N THEN stage ELSE "magnitude"
  BY DEF Butterfly, h
<1>13. CASE k + 1 < h
  <2>1. /\ k' = k + 1 /\ w' = (w + M) % N /\ stage' = stage /\ base' = base /\ len' = len
    BY <1>2, <1>13, <1>e DEF WLen, M
  <2>2. w' = (k + 1) * M /\ (k + 1) * M \in Bins /\ k + 1 \in Bins
    <3>1. (k + 1) * M \in Bins /\ k + 1 \in Bins
      BY <1>1, <1>12, <1>13
    <3>2. w + M = (k + 1) * M
      BY <1>1, <1>2
    <3>3. (k + 1) * M \in 0..(N - 1)
      BY <1>3, <3>1 DEF Bins
    <3> DEFINE v == (k + 1) * M
    <3> HIDE DEF v
    <3>4. v % N = v
      BY ONLY <1>3, <3>3, ModSmall DEF v
    <3> QED BY <2>1, <3>1, <3>2, <3>4 DEF v
  <2>3. TypeOK'
    BY <1>1, <1>10, <2>1, <2>2 DEF ProcessorInv, TypeOK
  <2>4. LoopInv'
    BY <1>1, <1>13, <2>1, <2>2 DEF LoopInv, h, M
  <2>5. DataInv'
    <3>1. ASSUME NEW c \in Index PROVE Done(c)' <=> Done(c) \/ c = c1 \/ c = c2
      BY <1>1, <1>2, <2>1 DEF Done, h, Index
    <3> QED BY <1>1, <1>9, <2>1, <3>1 DEF DataInv, h
  <2> QED BY <1>1, <1>11, <2>1, <2>3, <2>4, <2>5 DEF ProcessorInv, DetectionInv
<1>14. CASE k + 1 = h /\ base + len < N
  <2>1. k' = 0 /\ w' = 0 /\ base' = base + len /\ stage' = stage /\ len' = len
    BY <1>2, <1>14, <1>e
  <2>2. base + len \in Index /\ (base + len) % len = 0 /\ (base + len) + len <= N
    <3>1. base + len \in Index
      BY <1>1, <1>2, <1>3, <1>14 DEF Index
    <3>2. base + len = (q + 1) * len /\ q + 1 \in Int
      BY <1>2, <1>4
    <3>3. (base + len) % len = 0
      <4>1. base + len \in Int
        BY <1>2, <1>4
      <4> DEFINE z == base + len
      <4> HIDE DEF z
      <4>2. z \in Int /\ z = (q + 1) * len + 0 /\ 0 \in 0..(len - 1)
        BY <1>2, <3>2, <4>1 DEF z
      <4>3. z % len = 0
        BY ONLY <1>2, <3>2, <4>2, DivModUnique
      <4> QED BY <4>3 DEF z
    <3>4. q + 2 <= M
      <4>1. ASSUME M < q + 2 PROVE FALSE
        <5>1. PICK d \in Nat : q + 1 = M + d
          <6>1. (q + 1) - M \in Nat /\ q + 1 = M + ((q + 1) - M)
            BY <1>2, <4>1
          <6> QED BY <6>1
        <5>2. (q + 1) * len = M * len + d * len /\ d * len >= 0
          BY <1>2, <5>1
        <5> QED BY <1>2, <1>3, <1>14, <3>2, <5>2
      <4> QED BY <1>2, <4>1
    <3>5. PICK d \in Nat : M = (q + 2) + d
      <4>1. M - (q + 2) \in Nat /\ M = (q + 2) + (M - (q + 2))
        BY <1>2, <3>4
      <4> QED BY <4>1
    <3>6. M * len = q * len + len + len + d * len /\ d * len >= 0
      BY <1>2, <3>5
    <3> QED BY <1>2, <1>4, <3>1, <3>3, <3>6
  <2>3. TypeOK'
    BY <1>1, <1>10, <2>1, <2>2, Two DEF ProcessorInv, TypeOK
  <2>4. LoopInv'
    <3>1. 0 = 0 * M /\ 0 < h
      BY <1>2
    <3> QED BY <1>1, <2>1, <2>2, <3>1 DEF LoopInv, h, M
  <2>5. DataInv'
    <3>1. ASSUME NEW c \in Index PROVE Done(c)' <=> Done(c) \/ c = c1 \/ c = c2
      BY <1>1, <1>2, <1>14, <2>1 DEF Done, h, Index
    <3> QED BY <1>1, <1>9, <2>1, <3>1 DEF DataInv, h
  <2> QED BY <1>1, <1>11, <2>1, <2>3, <2>4, <2>5 DEF ProcessorInv, DetectionInv
<1>15. CASE k + 1 = h /\ ~(base + len < N)
  <2>1. /\ k' = 0 /\ w' = 0 /\ base' = 0 /\ len' = 2 * len
        /\ stage' = IF 2 * len <= N THEN stage ELSE "magnitude"
    BY <1>2, <1>15, <1>e
  <2>2. \A c \in Index : data'[c] = Value(filtered, len, c)
    <3>1. ASSUME NEW c \in Index PROVE Done(c) \/ c = c1 \/ c = c2
      BY SMTT(30), <1>1, <1>2, <1>3, <1>15 DEF Done, h, Index
    <3> QED BY <1>9, <3>1
  <2>3. CASE 2 * len <= N
    <3>1. 2 * len \in PowersOfTwo \ {1} /\ (2 * len) \div 2 = len
      <4>1. 2 * len \in Powers /\ 2 * len \in 1..N /\ 2 * len # 1
        BY <1>2, <1>3, <2>3, PowerDouble
      <4> QED BY <1>2, <4>1 DEF PowersOfTwo, Powers
    <3>2. stage' = "butterfly"
      BY <1>1, <2>1, <2>3
    <3>3. TypeOK'
      BY <1>1, <1>10, <2>1, <3>1, <3>2, Two DEF ProcessorInv, TypeOK
    <3>4. LoopInv'
      <4>1. 0 % (2 * len) = 0 /\ 0 + 2 * len <= N /\ 0 < len
        BY <1>2, <2>3
      <4>2. 0 = 0 * (N \div (2 * len))
        BY <3>1, LengthFacts
      <4> QED BY <2>1, <3>1, <3>2, <4>1, <4>2 DEF LoopInv
    <3>5. DataInv'
      <4>1. ASSUME NEW c \in Index PROVE ~Done(c)'
        BY <1>2, <2>1, <3>1 DEF Done, Index
      <4> QED BY <1>1, <2>1, <2>2, <3>1, <3>2, <4>1 DEF DataInv
    <3> QED BY <1>11, <3>2, <3>3, <3>4, <3>5 DEF ProcessorInv, DetectionInv
  <2>4. CASE ~(2 * len <= N)
    <3>1. len = N
      <4>1. ASSUME len < N PROVE FALSE
        <5>1. PICK f \in Nat \ {0} : N = f * (2 * len)
          BY <1>2, <1>3, <4>1, PowerGap
        <5>2. PICK d \in Nat : f = d + 1
          <6>1. f - 1 \in Nat /\ f = (f - 1) + 1
            OBVIOUS
          <6> QED BY <6>1
        <5>3. N = d * (2 * len) + 2 * len /\ d * (2 * len) >= 0
          BY <1>2, <5>1, <5>2
        <5> QED BY <1>2, <1>3, <2>4, <5>3
      <4> QED BY <1>2, <1>3, <4>1
    <3>2. stage' = "magnitude" /\ len' = 2 * N
      BY <2>1, <2>4, <3>1
    <3>3. TypeOK'
      BY <1>1, <1>10, <2>1, <3>2, Two DEF ProcessorInv, TypeOK
    <3>4. LoopInv'
      BY <2>1, <3>2 DEF LoopInv
    <3>5. DataInv'
      BY <1>1, <2>2, <3>1, <3>2, ValueEnd DEF DataInv
    <3> QED BY <1>11, <3>2, <3>3, <3>4, <3>5 DEF ProcessorInv, DetectionInv
  <2> QED BY <2>3, <2>4
<1> QED
  <2>1. k + 1 < h \/ k + 1 = h
    BY <1>1, <1>2
  <2> QED BY <1>13, <1>14, <1>15, <2>1

\* The magnitudes keep it.
LEMMA InvMagnitude == ProcessorInv /\ Magnitude => ProcessorInv'
<1> SUFFICES ASSUME ProcessorInv, Magnitude PROVE ProcessorInv'
  OBVIOUS
<1>1. /\ stage = "magnitude" /\ stage' = "detect"
      /\ UNCHANGED <<samples, filtered, data, i, j, len, base, k, w, detection>>
  BY DEF Magnitude
<1>2. spectrum' \in [Bins -> Nat]
  <2>1. spectrum' \in [Bins -> Magnitudes \cup {0}]
    BY DEF Magnitude
  <2>2. Magnitudes \cup {0} \subseteq Nat
    BY ProcessorAssumption
  <2> QED BY ONLY <2>1, <2>2
<1>3. TypeOK'
  BY <1>1, <1>2 DEF ProcessorInv, TypeOK
<1>4. LoopInv'
  BY <1>1 DEF ProcessorInv, LoopInv
<1>5. FilterInv'
  BY <1>1, FilterOver DEF ProcessorInv
<1>6. DataInv'
  BY <1>1 DEF ProcessorInv, DataInv
<1>7. DetectionInv'
  BY <1>1 DEF Magnitude, DetectionInv
<1> QED BY <1>3, <1>4, <1>5, <1>6, <1>7 DEF ProcessorInv

\* The peak is the greatest magnitude.
LEMMA PeakFacts ==
    ASSUME spectrum \in [Bins -> Nat]
    PROVE  /\ Peak \in Nat /\ (Peak = 0 \/ \E b \in Bins : Peak = spectrum[b])
           /\ \A b \in Bins : spectrum[b] <= Peak
           /\ IsFiniteSet(Bins)
<1> DEFINE image == {spectrum[b] : b \in Bins}
           S == image \cup {0}
<1>1. IsFiniteSet(Bins)
  BY Sizes, FS_Interval DEF Bins
<1>2. IsFiniteSet(image)
  BY ONLY <1>1, ImageFinite
<1>3. IsFiniteSet(S)
  BY <1>2, FS_AddElement
<1>4. S \in SUBSET Int /\ S # {} /\ S \subseteq Nat
  OBVIOUS
<1>5. Max(S) \in S /\ \A y \in S : y <= Max(S)
  BY ONLY <1>3, <1>4, Extremes
<1> QED BY <1>1, <1>4, <1>5 DEF Peak

\* The detector keeps it.
LEMMA InvDetect == ProcessorInv /\ Detect => ProcessorInv'
<1> SUFFICES ASSUME ProcessorInv, Detect PROVE ProcessorInv'
  OBVIOUS
<1>1. /\ stage = "detect" /\ stage' = "done"
      /\ UNCHANGED <<samples, filtered, data, i, j, len, base, k, w, spectrum>>
      /\ detection' = [targetDetected |-> Detected(Peak, SumFunction(spectrum)), peakMagnitude |-> Peak]
  BY DEF Detect, Peak
<1>2. Peak \in Nat
  BY PeakFacts DEF ProcessorInv, TypeOK
<1>3. Detected(Peak, SumFunction(spectrum)) \in BOOLEAN
  BY DEF Detected
<1>4. TypeOK'
  BY <1>1, <1>2, <1>3 DEF ProcessorInv, TypeOK
<1>5. LoopInv'
  BY <1>1 DEF ProcessorInv, LoopInv
<1>6. FilterInv'
  BY <1>1, FilterOver DEF ProcessorInv
<1>7. DataInv'
  BY <1>1 DEF ProcessorInv, DataInv
<1>8. DetectionInv'
  <2>1. Peak' = Peak
    BY <1>1 DEF Peak
  <2> QED BY <1>1, <2>1 DEF ProcessorInv, DetectionInv
<1> QED BY <1>4, <1>5, <1>6, <1>7, <1>8 DEF ProcessorInv

\* Whatever process() does, the invariant holds.
LEMMA InvHolds == Spec => []ProcessorInv
<1>1. ProcessorInv /\ [Next]_vars => ProcessorInv'
  <2> SUFFICES ASSUME ProcessorInv, [Next]_vars PROVE ProcessorInv'
    OBVIOUS
  <2>1. CASE Next
    BY <2>1, InvFilter, InvReverse, InvButterfly, InvMagnitude, InvDetect DEF Next
  <2>2. CASE UNCHANGED vars
    <3> USE <2>2 DEF vars
    <3>1. TypeOK'
      BY DEF ProcessorInv, TypeOK
    <3>2. LoopInv'
      BY DEF ProcessorInv, LoopInv
    <3>3. FilterInv'
      BY DEF ProcessorInv, FilterInv, Within, Taps
    <3>4. DataInv'
      BY DEF ProcessorInv, DataInv, Done
    <3>5. DetectionInv'
      BY DEF ProcessorInv, DetectionInv, Peak
    <3> QED BY <3>1, <3>2, <3>3, <3>4, <3>5 DEF ProcessorInv
  <2> QED BY <2>1, <2>2
<1> QED BY InvInit, <1>1, PTL DEF Spec

\* Every variable keeps its type and no loop of the filter, of the permutation or
\* of the butterflies leaves the buffers, for every power of two as their length
\* and every signal.
THEOREM TypeCorrect == Spec => []TypeOK
<1>1. ProcessorInv => TypeOK
  BY DEF ProcessorInv
<1> QED BY InvHolds, <1>1, PTL

\* NoiseFilter::apply() averages: no filtered sample is outside its taps.
THEOREM FilterAverages == Spec => []FilterWithinTaps
<1>1. ProcessorInv => FilterWithinTaps
  BY DEF ProcessorInv, FilterInv, Within, FilterWithinTaps
<1> QED BY InvHolds, <1>1, PTL

\* The carry loop of FFT::apply() counts in bit-reversed order, and the swaps
\* carry out the bit-reversal permutation.
THEOREM PermutationHolds == Spec => []PermutationReversesBits
<1>1. ProcessorInv => PermutationReversesBits
  BY DEF ProcessorInv, LoopInv, DataInv, PermutationReversesBits
<1> QED BY InvHolds, <1>1, PTL

\* FFT::apply() computes the discrete Fourier transform of the filtered samples,
\* for every power of two as the length and every signal.
THEOREM FftCorrect == Spec => []FftIsDft
<1>1. ProcessorInv => FftIsDft
  BY DEF ProcessorInv, DataInv, FftIsDft
<1> QED BY InvHolds, <1>1, PTL

\* The whole of process(): silence is never reported as a target, and a signal
\* whose power is all in one bin always is.
THEOREM DetectionCorrect == Spec => []ToneDetectedSilenceNot
<1>1. ProcessorInv => ToneDetectedSilenceNot
  <2> SUFFICES ASSUME ProcessorInv, stage = "done"
               PROVE  LET active == {b \in Bins : Dft(filtered, b) # Real(0)}
                      IN  /\ active = {} => ~detection.targetDetected
                          /\ Cardinality(active) = 1 /\ Half > 4 => detection.targetDetected
    BY DEF ToneDetectedSilenceNot
  <2> DEFINE active == {b \in Bins : Dft(filtered, b) # Real(0)}
             sum == SumFunctionOnSet(spectrum, Bins)
  <2>1. /\ spectrum \in [Bins -> Nat] /\ \A b \in Index : data[b] = Dft(filtered, b)
        /\ \A b \in Bins : spectrum[b] = 0 <=> data[b] = Real(0)
        /\ detection = [targetDetected |-> Detected(Peak, SumFunction(spectrum)), peakMagnitude |-> Peak]
    BY DEF ProcessorInv, TypeOK, DataInv, DetectionInv
  <2>2. \A b \in Bins : b \in active <=> spectrum[b] # 0
    <3>1. Bins \subseteq Index
      BY Sizes DEF Bins, Index
    <3> QED BY <2>1, <3>1
  <2>3. /\ Peak \in Nat /\ (Peak = 0 \/ \E b \in Bins : Peak = spectrum[b])
        /\ \A b \in Bins : spectrum[b] <= Peak
        /\ IsFiniteSet(Bins)
    BY <2>1, PeakFacts
  <2>4. detection.targetDetected <=> Peak * Half > 4 * sum
    <3>1. SumFunction(spectrum) = sum
      BY <2>1 DEF SumFunction
    <3> QED BY <2>1, <3>1 DEF Detected
  <2>5. ASSUME NEW S \in SUBSET Bins, \A b \in S : spectrum[b] = 0
        PROVE  SumFunctionOnSet(spectrum, S) = 0
    <3>1. IsFiniteSet(S)
      BY <2>3, FS_Subset
    <3>2. \A b \in S : spectrum[b] \in Int /\ 0 <= spectrum[b] /\ spectrum[b] <= 0
      BY <2>1, <2>5
    <3>3. 0 \in Int
      OBVIOUS
    <3>4. /\ 0 * Cardinality(S) <= SumFunctionOnSet(spectrum, S)
          /\ SumFunctionOnSet(spectrum, S) <= 0 * Cardinality(S)
      BY ONLY <3>1, <3>2, <3>3, SumBounds
    <3>5. Cardinality(S) \in Nat
      BY <3>1, FS_CardinalityType
    <3>6. SumFunctionOnSet(spectrum, S) \in Int
      BY <3>1, <3>2, SumType
    <3> QED BY <3>4, <3>5, <3>6
  <2>6. ASSUME active = {} PROVE ~detection.targetDetected
    <3>1. \A b \in Bins : spectrum[b] = 0
      BY <2>2, <2>6
    <3>2. sum = 0 /\ Peak = 0
      BY <2>3, <2>5, <3>1
    <3> QED BY <2>4, <3>2, Sizes
  <2>7. ASSUME Cardinality(active) = 1, Half > 4 PROVE detection.targetDetected
    <3>1. IsFiniteSet(active)
      BY <2>3, FS_Subset
    <3>2. PICK b : active = {b}
      BY <2>7, <3>1, FS_Singleton
    <3>3. b \in Bins /\ spectrum[b] # 0 /\ \A c \in Bins \ {b} : spectrum[c] = 0
      BY <2>2, <3>2
    <3>4. SumFunctionOnSet(spectrum, Bins \ {b}) = 0
      BY <2>5, <3>3
    <3>5. sum = spectrum[b] + SumFunctionOnSet(spectrum, Bins \ {b})
      <4>1. \A c \in Bins : spectrum[c] \in Int
        BY <2>1
      <4> QED BY ONLY <2>3, <3>3, <4>1, SumRemove
    <3> DEFINE p == spectrum[b]
    <3>6. p \in Nat \ {0} /\ sum = p /\ Peak = p
      BY <2>1, <2>3, <3>3, <3>4, <3>5
    <3> HIDE DEF p, sum
    <3>7. PICK d \in Nat : Half = 5 + d
      <4>1. Half - 5 \in Nat /\ Half = 5 + (Half - 5)
        BY <2>7, Sizes
      <4> QED BY <4>1
    <3>8. p * Half = 4 * p + p + p * d /\ p * d >= 0
      BY <3>6, <3>7
    <3>9. p * Half > 4 * p
      BY <3>6, <3>8
    <3> QED BY <2>4, <3>6, <3>9
  <2> QED BY <2>6, <2>7
<1> QED BY InvHolds, <1>1, PTL
=============================================================================
