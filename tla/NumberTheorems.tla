--------------------------- MODULE NumberTheorems ---------------------------
(***************************************************************************)
(* Facts about natural numbers that the proofs of this project need and    *)
(* the library does not state in a form its provers can use: induction     *)
(* over sets instead of predicates, quotient and remainder, powers of two, *)
(* greatest and least members, and the sums of FiniteSetsExt.              *)
(***************************************************************************)
EXTENDS Integers, FiniteSets, FiniteSetsExt, Functions, FiniteSetTheorems,
        WellFoundedInduction, TLAPS

\* Every set of natural numbers that is not empty has a least member.
LEMMA Least ==
    ASSUME NEW T \in SUBSET Nat, T # {}
    PROVE  \E n \in T : \A m \in T : n <= m
<1> DEFINE R == OpToRel(<, Nat)
<1>1. \A x, y \in Nat : <<y, x>> \in R <=> y < x
  BY DEF OpToRel
<1>2. IsWellFoundedOn(R, Nat)
  BY NatLessThanWellFounded
<1> HIDE DEF R
<1>3. PICK x \in T : \A y \in T : ~(<<y, x>> \in R)
  BY <1>2, WFMin
<1>4. \A y \in T : ~(y < x)
  BY <1>1, <1>3
<1> QED BY <1>4

\* Induction over the natural numbers: a set that holds 0 and, with n, n + 1.
LEMMA Induction ==
    ASSUME NEW T \in SUBSET Nat, 0 \in T, \A n \in T : n + 1 \in T
    PROVE  T = Nat
<1> SUFFICES ASSUME Nat \ T # {} PROVE FALSE
  OBVIOUS
<1>1. PICK n \in Nat \ T : \A m \in Nat \ T : n <= m
  BY Least
<1>2. n - 1 \in Nat
  OBVIOUS
<1>3. n - 1 \in T
  BY <1>1, <1>2
<1> QED BY <1>1, <1>3

\* Induction over the subsets of a finite set: a family that holds the empty set
\* and every subset all of whose subsets with one element less it holds.
LEMMA SetInduction ==
    ASSUME NEW S, IsFiniteSet(S), NEW F \in SUBSET (SUBSET S), {} \in F,
           \A A \in SUBSET S : A # {} /\ (\A e \in A : A \ {e} \in F) => A \in F
    PROVE  F = SUBSET S
<1> SUFFICES ASSUME NEW B \in SUBSET S, B \notin F PROVE FALSE
  OBVIOUS
<1> DEFINE Bad == {A \in SUBSET S : A \notin F}
           Sizes == {Cardinality(A) : A \in Bad}
<1>1. \A A \in SUBSET S : IsFiniteSet(A) /\ Cardinality(A) \in Nat
  BY FS_Subset, FS_CardinalityType
<1>2. Sizes \in SUBSET Nat /\ Sizes # {}
  BY <1>1
<1>3. PICK n \in Sizes : \A m \in Sizes : n <= m
  BY <1>2, Least
<1>4. PICK A \in Bad : n = Cardinality(A)
  BY <1>3
<1>5. PICK e \in A : A \ {e} \notin F
  BY <1>4
<1>6. A \ {e} \in Bad
  BY <1>5
<1>7. Cardinality(A \ {e}) = Cardinality(A) - 1
  BY <1>1, <1>5, FS_RemoveElement
<1>8. Cardinality(A \ {e}) \in Sizes
  BY <1>6
<1>9. n <= n - 1
  BY <1>3, <1>4, <1>7, <1>8
<1> QED BY <1>1, <1>4, <1>9

-----------------------------------------------------------------------------
\* What quotient and remainder are.
LEMMA DivMod ==
    ASSUME NEW a \in Int, NEW n \in Nat \ {0}
    PROVE  a = (a \div n) * n + (a % n) /\ a \div n \in Int /\ a % n \in 0..(n - 1)
<1>1. n \in Int /\ n > 0
  OBVIOUS
<1>2. a = (a \div n) * n + (a % n)
  BY <1>1
<1>3. a \div n \in Int /\ a % n \in 0..(n - 1)
  OBVIOUS
<1> QED BY <1>2, <1>3

\* No other pair is.
LEMMA DivModUnique ==
    ASSUME NEW a \in Int, NEW n \in Nat \ {0}, NEW q \in Int, NEW r \in 0..(n - 1),
           a = q * n + r
    PROVE  a \div n = q /\ a % n = r
<1> DEFINE x == a \div n
           y == a % n
<1>1. x * n + y = q * n + r /\ x \in Int /\ y \in 0..(n - 1)
  BY DivMod
<1> HIDE DEF x, y
<1>2. (x - q) * n = r - y
  BY <1>1
<1>3. x - q = 0
  <2>1. CASE x - q >= 1
    <3>1. (x - q) * n >= n
      BY <1>1, <2>1
    <3> QED BY <1>1, <1>2, <3>1
  <2>2. CASE x - q <= -1
    <3>1. (x - q) * n <= -n
      BY <1>1, <2>2
    <3> QED BY <1>1, <1>2, <3>1
  <2> QED BY <1>1, <2>1, <2>2
<1>4. x = q /\ y = r
  BY <1>1, <1>2, <1>3
<1> QED BY <1>4 DEF x, y

\* A remainder of zero means a multiple.
LEMMA Multiple ==
    ASSUME NEW b \in Int, NEW d \in Nat \ {0}
    PROVE  b % d = 0 <=> \E q \in Int : b = q * d
<1>1. ASSUME b % d = 0 PROVE \E q \in Int : b = q * d
  <2>1. b = (b \div d) * d + 0 /\ b \div d \in Int
    BY <1>1, DivMod
  <2>2. b = (b \div d) * d
    BY <2>1
  <2> QED BY <2>1, <2>2
<1>2. ASSUME NEW q \in Int, b = q * d PROVE b % d = 0
  <2>1. b = q * d + 0 /\ 0 \in 0..(d - 1)
    BY <1>2
  <2> QED BY <2>1, DivModUnique
<1> QED BY <1>1, <1>2

\* Equal remainders mean a difference that is a multiple.
LEMMA ModEqual ==
    ASSUME NEW a \in Int, NEW b \in Int, NEW n \in Nat \ {0}
    PROVE  a % n = b % n <=> \E t \in Int : a = b + t * n
<1> DEFINE p == a \div n
           q == b \div n
           u == a % n
           v == b % n
<1>1. a = p * n + u /\ p \in Int /\ u \in 0..(n - 1) /\ b = q * n + v /\ q \in Int /\ v \in 0..(n - 1)
  BY DivMod
<1>2. ASSUME u = v PROVE \E t \in Int : a = b + t * n
  <2> HIDE DEF p, q, u, v
  <2>1. a = b + (p - q) * n /\ p - q \in Int
    BY <1>1, <1>2
  <2> QED BY <2>1
<1>3. ASSUME NEW t \in Int, a = b + t * n PROVE u = v
  <2>1. a = (q + t) * n + v /\ q + t \in Int
    <3> HIDE DEF p, q, u, v
    <3> QED BY <1>1, <1>3
  <2> HIDE DEF q, v
  <2> QED BY <1>1, <2>1, DivModUnique
<1> QED BY <1>2, <1>3

\* Adding a multiple does not change the remainder.
LEMMA ModAdd ==
    ASSUME NEW n \in Nat \ {0}, NEW a \in Int, NEW t \in Int
    PROVE  (a + t * n) % n = a % n
<1>1. a + t * n \in Int /\ \E x \in Int : a + t * n = a + x * n
  OBVIOUS
<1> DEFINE b == a + t * n
<1> HIDE DEF b
<1>2. b \in Int /\ \E x \in Int : b = a + x * n
  BY ONLY <1>1 DEF b
<1>3. b % n = a % n
  BY <1>2, ModEqual
<1> QED BY <1>3 DEF b

\* A number that is small enough is its own remainder.
LEMMA ModSmall ==
    ASSUME NEW n \in Nat \ {0}, NEW a \in 0..(n - 1)
    PROVE  a % n = a /\ a \div n = 0
<1>1. a = 0 * n + a /\ a \in Int /\ 0 \in Int
  OBVIOUS
<1> QED BY <1>1, DivModUnique

\* The remainder of a by n, as an operator of its own: the provers match a term
\* of this form where they would compute with the term a % n.
Rem(a, n) == a % n

\* The remainder by m is one of two remainders by 2m.
LEMMA RemDouble ==
    ASSUME NEW a \in Int, NEW m \in Nat \ {0}, NEW r \in 0..(m - 1)
    PROVE  Rem(a, m) = r <=> Rem(a, 2 * m) = r \/ Rem(a, 2 * m) = r + m
<1> DEFINE u == a \div (2 * m)
           v == a % (2 * m)
<1>1. 2 * m \in Nat \ {0}
  OBVIOUS
<1>2. a = u * (2 * m) + v /\ u \in Int /\ v \in 0..(2 * m - 1)
  BY ONLY <1>1, DivMod, a \in Int
<1> HIDE DEF u, v
<1>3. CASE v < m
  <2>1. a = (2 * u) * m + v /\ 2 * u \in Int /\ v \in 0..(m - 1)
    BY <1>2, <1>3
  <2>2. a % m = v
    BY <2>1, DivModUnique
  <2>3. v # r + m
    BY <1>2, <1>3
  <2> QED BY <2>2, <2>3 DEF v, Rem
<1>4. CASE m <= v
  <2>1. a = (2 * u + 1) * m + (v - m) /\ 2 * u + 1 \in Int /\ v - m \in 0..(m - 1)
    BY <1>2, <1>4
  <2>2. a % m = v - m
    BY <2>1, DivModUnique
  <2>3. v # r /\ (v - m = r <=> v = r + m)
    BY <1>2, <1>4
  <2> QED BY <2>2, <2>3 DEF v, Rem
<1> QED BY <1>2, <1>3, <1>4

\* A power of two is a number that no odd number but 1 divides.
Powers == {b \in Nat \ {0} : \A d \in 2..b : b % d = 0 => d % 2 = 0}

\* One is the least power of two.
LEMMA PowerOne == 1 \in Powers
BY DEF Powers

\* Half of any other is one.
LEMMA PowerHalf ==
    ASSUME NEW b \in Powers, b # 1
    PROVE  b = 2 * (b \div 2) /\ b \div 2 \in Powers
<1>1. b \in 2..b /\ b % b = 0
  <2>1. b = 1 * b /\ b \in Nat \ {0}
    BY DEF Powers
  <2>2. b % b = 0
    BY <2>1, Multiple
  <2> QED BY <2>1, <2>2
<1>2. b % 2 = 0
  BY <1>1 DEF Powers
<1> DEFINE c == b \div 2
<1>3. b = 2 * c /\ c \in Nat \ {0}
  BY <1>1, <1>2 DEF Powers
<1> HIDE DEF c
<1>4. ASSUME NEW d \in 2..c, c % d = 0 PROVE d % 2 = 0
  <2>1. d \in Nat \ {0} /\ d \in 2..b /\ c \in Int /\ b \in Int /\ c % d = 0
    BY <1>3, <1>4
  <2>2. PICK q \in Int : c = q * d
    BY ONLY <2>1, Multiple
  <2>3. \E p \in Int : b = p * d
    <3>1. b = (2 * q) * d
      BY <1>3, <2>1, <2>2
    <3> QED BY <3>1
  <2>4. b % d = 0
    BY ONLY <2>1, <2>3, Multiple
  <2> QED BY <2>1, <2>4 DEF Powers
<1>5. c \in Powers
  BY <1>3, <1>4 DEF Powers
<1> QED BY <1>3, <1>5 DEF c

\* So is the double of one.
LEMMA PowerDouble ==
    ASSUME NEW b \in Powers
    PROVE  2 * b \in Powers
<1>1. b \in Nat \ {0}
  BY DEF Powers
<1>2. ASSUME NEW d \in 2..(2 * b), (2 * b) % d = 0, d % 2 # 0 PROVE FALSE
  <2>1. PICK q \in Int : 2 * b = q * d
    BY <1>1, <1>2, Multiple
  <2>2. PICK e \in Int : d = 2 * e + 1
    BY <1>2
  <2>3. b - q * e \in Int /\ q = 2 * (b - q * e)
    BY <1>1, <2>1, <2>2
  <2>4. PICK p \in Int : q = 2 * p
    BY ONLY <2>3
  <2>5. b = p * d
    BY <1>1, <2>1, <2>4
  <2>6. b % d = 0
    BY <1>1, <2>5, Multiple
  <2>7. d <= b
    <3>1. p >= 1
      <4>1. CASE p <= 0
        <5>1. p * d <= 0
          BY <4>1
        <5> QED BY <1>1, <2>5, <5>1
      <4> QED BY <4>1
    <3>2. p * d >= d
      BY <3>1
    <3> QED BY <2>5, <3>2
  <2> QED BY <1>1, <1>2, <2>6, <2>7 DEF Powers
<1> QED BY <1>1, <1>2 DEF Powers

\* Induction over the powers of two: a set that holds 1 and the double of each.
LEMMA PowerInduction ==
    ASSUME NEW T, 1 \in T, \A b \in Powers : b \in T => 2 * b \in T
    PROVE  Powers \subseteq T
<1> DEFINE Bad == Powers \ T
<1> SUFFICES ASSUME Bad # {} PROVE FALSE
  OBVIOUS
<1>1. PICK b \in Bad : \A c \in Bad : b <= c
  <2>1. Bad \in SUBSET Nat
    BY DEF Powers
  <2> HIDE DEF Bad
  <2> QED BY <2>1, Least
<1>2. b = 2 * (b \div 2) /\ b \div 2 \in Powers
  BY PowerHalf
<1>3. b \div 2 < b
  BY <1>2 DEF Powers
<1>4. b \div 2 \in T
  <2>1. b \div 2 \in Nat /\ b \in Nat
    BY <1>2 DEF Powers
  <2> QED BY <1>1, <1>2, <1>3, <2>1
<1> QED BY <1>2, <1>4

\* The smaller of two powers of two divides the greater.
LEMMA PowersDivide ==
    ASSUME NEW a \in Powers, NEW b \in Powers, a <= b
    PROVE  \E q \in Nat \ {0} : b = q * a
<1> DEFINE T == {x \in Nat : \A y \in Powers : x <= y => \E q \in Nat \ {0} : y = q * x}
<1>1. 1 \in T
  <2>1. \A y \in Powers : y \in Nat \ {0} /\ y = y * 1
    BY DEF Powers
  <2> QED BY <2>1
<1>2. ASSUME NEW x \in Powers, x \in T PROVE 2 * x \in T
  <2> SUFFICES ASSUME NEW y \in Powers, 2 * x <= y PROVE \E q \in Nat \ {0} : y = q * (2 * x)
    BY <1>2
  <2>1. x \in Nat \ {0} /\ y \in Nat \ {0}
    BY DEF Powers
  <2>2. y = 2 * (y \div 2) /\ y \div 2 \in Powers
    BY <2>1, PowerHalf
  <2>3. PICK z \in Powers : y = 2 * z
    BY <2>2
  <2>4. z \in Nat /\ x <= z
    BY <2>1, <2>3 DEF Powers
  <2>5. PICK q \in Nat \ {0} : z = q * x
    BY <1>2, <2>4
  <2>6. y = q * (2 * x)
    BY <2>1, <2>3, <2>5
  <2> QED BY <2>6
<1>3. Powers \subseteq T
  <2> HIDE DEF T
  <2> QED BY <1>1, <1>2, PowerInduction
<1> QED BY <1>3

\* Even its double does.
LEMMA PowerGap ==
    ASSUME NEW a \in Powers, NEW b \in Powers, a < b
    PROVE  \E q \in Nat \ {0} : b = q * (2 * a)
<1>1. a \in Nat \ {0} /\ b \in Nat \ {0} /\ 2 * a \in Powers
  BY PowerDouble DEF Powers
<1>2. PICK q \in Nat \ {0} : b = q * a
  BY <1>1, PowersDivide
<1>3. q # 1
  BY <1>1, <1>2
<1>4. q * a >= 2 * a
  BY <1>1, <1>3
<1> QED BY <1>1, <1>2, <1>4, PowersDivide

\* What divides a power of two is a power of two.
LEMMA PowerFactor ==
    ASSUME NEW a \in Powers, NEW b \in Nat \ {0}, NEW c \in Nat \ {0}, a = b * c
    PROVE  b \in Powers
<1>1. ASSUME NEW d \in 2..b, b % d = 0 PROVE d % 2 = 0
  <2>1. d \in Nat \ {0} /\ a \in Nat \ {0} /\ d <= b
    BY DEF Powers
  <2>2. PICK q \in Int : b = q * d
    BY <1>1, <2>1, Multiple
  <2>3. a = (q * c) * d /\ q * c \in Int
    BY <2>1, <2>2
  <2>4. \E p \in Int : a = p * d
    BY <2>3
  <2>5. a % d = 0
    BY ONLY <2>1, <2>4, Multiple
  <2>6. b <= a
    OBVIOUS
  <2> QED BY <2>1, <2>5, <2>6 DEF Powers
<1> QED BY <1>1 DEF Powers
-----------------------------------------------------------------------------
\* The recursion by which the library defines the sum of x over the subsets of S.
SumStep(x, g, s) ==
    IF s = {} THEN 0 ELSE x[CHOOSE e \in s : TRUE] + g[s \ {CHOOSE e \in s : TRUE}]
\* g gives the sum of x over each subset of S.
IsSum(x, S, g) == g = [s \in SUBSET S |-> SumStep(x, g, s)]

\* The sum is taken from a function that satisfies it.
LEMMA SumIsChosen ==
    ASSUME NEW x, NEW S
    PROVE  SumFunctionOnSet(x, S) = (CHOOSE g : IsSum(x, S, g))[S]
BY DEF SumFunctionOnSet, FoldFunctionOnSet, MapThenFoldSet, SumStep, IsSum

\* There is such a function: it can be extended to sets of one element more.
LEMMA SumExists ==
    ASSUME NEW x, NEW S, IsFiniteSet(S)
    PROVE  \E g : IsSum(x, S, g)
<1> DEFINE Small(n) == {s \in SUBSET S : Cardinality(s) <= n}
           Defines(g, n) == g = [s \in Small(n) |-> SumStep(x, g, s)]
           T == {n \in Nat : \E g : Defines(g, n)}
<1>1. \A A \in SUBSET S : IsFiniteSet(A) /\ Cardinality(A) \in Nat
  BY FS_Subset, FS_CardinalityType
<1>2. \A A \in SUBSET S : \A e \in A : Cardinality(A \ {e}) = Cardinality(A) - 1
  BY <1>1, FS_RemoveElement
<1>3. \A A \in SUBSET S : Cardinality(A) <= 0 => A = {}
  BY <1>1, FS_EmptySet
<1>4. 0 \in T
  <2> DEFINE g == [s \in Small(0) |-> 0]
  <2>1. \A s \in Small(0) : SumStep(x, g, s) = 0
    BY <1>3 DEF SumStep
  <2>2. Defines(g, 0)
    BY <2>1
  <2> QED BY <2>2
<1>5. ASSUME NEW n \in T PROVE n + 1 \in T
  <2>1. PICK g : Defines(g, n)
    OBVIOUS
  <2> DEFINE h == [s \in Small(n + 1) |-> SumStep(x, g, s)]
  <2>2. Small(n) \subseteq Small(n + 1)
    BY <1>1
  <2>3. \A s \in Small(n) : g[s] = SumStep(x, g, s) /\ h[s] = g[s]
    BY <2>1, <2>2
  <2>4. ASSUME NEW s \in Small(n + 1) PROVE SumStep(x, h, s) = SumStep(x, g, s)
    <3>1. CASE s = {}
      BY <3>1 DEF SumStep
    <3>2. CASE s # {}
      <4> DEFINE e == CHOOSE e \in s : TRUE
      <4>1. e \in s
        BY <3>2
      <4> HIDE DEF e
      <4>2. s \ {e} \in Small(n)
        BY <1>1, <1>2, <4>1
      <4>3. h[s \ {e}] = g[s \ {e}]
        BY <2>3, <4>2
      <4> QED BY <3>2, <4>3 DEF SumStep, e
    <3> QED BY <3>1, <3>2
  <2>5. Defines(h, n + 1)
    BY <2>4
  <2> HIDE DEF h, Defines
  <2> QED BY <2>5
<1>6. T = Nat
  <2> HIDE DEF T
  <2>1. T \in SUBSET Nat
    BY DEF T
  <2>2. \A n \in T : n + 1 \in T
    BY <1>5
  <2> QED BY <2>1, <2>2, <1>4, Induction
<1>7. PICK g : Defines(g, Cardinality(S))
  BY <1>1, <1>6
<1>8. Small(Cardinality(S)) = SUBSET S
  BY FS_Subset, <1>1
<1> QED BY <1>7, <1>8 DEF IsSum

\* There is only one: the sum over a subset does not depend on S.
LEMMA SumIsSum ==
    ASSUME NEW x, NEW S, IsFiniteSet(S), NEW g, IsSum(x, S, g), NEW A \in SUBSET S
    PROVE  g[A] = SumFunctionOnSet(x, A)
<1> DEFINE h == CHOOSE h : IsSum(x, A, h)
<1>1. IsFiniteSet(A)
  BY FS_Subset
<1>2. IsSum(x, A, h)
  BY <1>1, SumExists
<1> HIDE DEF h
<1> DEFINE Agree == {B \in SUBSET A : g[B] = h[B]}
<1>3. \A B \in SUBSET A : g[B] = SumStep(x, g, B) /\ h[B] = SumStep(x, h, B)
  BY <1>2 DEF IsSum
<1>4. {} \in Agree
  BY <1>3 DEF SumStep
<1>5. ASSUME NEW B \in SUBSET A, B # {}, \A e \in B : B \ {e} \in Agree PROVE B \in Agree
  <2> DEFINE e == CHOOSE e \in B : TRUE
  <2>1. e \in B
    BY <1>5
  <2>2. g[B] = x[e] + g[B \ {e}] /\ h[B] = x[e] + h[B \ {e}]
    BY <1>3, <1>5 DEF SumStep
  <2> HIDE DEF e
  <2> QED BY <1>5, <2>1, <2>2
<1>6. Agree = SUBSET A
  <2> HIDE DEF Agree
  <2>1. Agree \in SUBSET (SUBSET A)
    BY DEF Agree
  <2> QED BY <1>1, <1>4, <1>5, <2>1, SetInduction
<1>7. g[A] = h[A]
  BY <1>6
<1> QED BY <1>7, SumIsChosen DEF h

\* The sum over no index is zero.
LEMMA SumEmpty ==
    ASSUME NEW x
    PROVE  SumFunctionOnSet(x, {}) = 0
<1>1. PICK g : IsSum(x, {}, g)
  BY SumExists, FS_EmptySet
<1>2. g[{}] = 0
  BY <1>1 DEF IsSum, SumStep
<1> QED BY <1>1, <1>2, SumIsSum, FS_EmptySet

\* It adds up some index and the sum of the others.
LEMMA SumChosen ==
    ASSUME NEW x, NEW S, IsFiniteSet(S), S # {}
    PROVE  \E e \in S : SumFunctionOnSet(x, S) = x[e] + SumFunctionOnSet(x, S \ {e})
<1>1. PICK g : IsSum(x, S, g)
  BY SumExists
<1> DEFINE e == CHOOSE e \in S : TRUE
<1>2. e \in S
  OBVIOUS
<1>3. g[S] = x[e] + g[S \ {e}]
  BY <1>1 DEF IsSum, SumStep
<1> HIDE DEF e
<1>4. \A A \in SUBSET S : g[A] = SumFunctionOnSet(x, A)
  BY <1>1, SumIsSum
<1> QED BY <1>2, <1>3, <1>4

\* A sum of numbers is a number.
LEMMA SumType ==
    ASSUME NEW x, NEW S, IsFiniteSet(S), NEW Num \in {Nat, Int}, \A e \in S : x[e] \in Num
    PROVE  SumFunctionOnSet(x, S) \in Num
<1> DEFINE F == {A \in SUBSET S : SumFunctionOnSet(x, A) \in Num}
<1>1. {} \in F
  BY SumEmpty
<1>2. ASSUME NEW A \in SUBSET S, A # {}, \A e \in A : A \ {e} \in F PROVE A \in F
  <2>1. PICK e \in A : SumFunctionOnSet(x, A) = x[e] + SumFunctionOnSet(x, A \ {e})
    BY <1>2, FS_Subset, SumChosen
  <2>2. SumFunctionOnSet(x, A \ {e}) \in Num /\ x[e] \in Num
    BY <1>2, <2>1
  <2> QED BY <2>1, <2>2
<1>3. F = SUBSET S
  <2> HIDE DEF F
  <2>1. F \in SUBSET (SUBSET S)
    BY DEF F
  <2> QED BY <1>1, <1>2, <2>1, SetInduction
<1> QED BY <1>3

\* The order does not matter: any index may come first.
LEMMA SumRemove ==
    ASSUME NEW x, NEW S, IsFiniteSet(S), \A e \in S : x[e] \in Int, NEW d \in S
    PROVE  SumFunctionOnSet(x, S) = x[d] + SumFunctionOnSet(x, S \ {d})
<1> DEFINE Sum(A) == SumFunctionOnSet(x, A)
           F == {A \in SUBSET S : \A a \in A : Sum(A) = x[a] + Sum(A \ {a})}
<1>1. \A A \in SUBSET S : IsFiniteSet(A) /\ Sum(A) \in Int
  BY FS_Subset, SumType
<1>2. \A A \in SUBSET S : A # {} => \E e \in A : Sum(A) = x[e] + Sum(A \ {e})
  BY <1>1, SumChosen
<1> HIDE DEF Sum
<1>3. {} \in F
  OBVIOUS
<1>4. ASSUME NEW A \in SUBSET S, A # {}, \A e \in A : A \ {e} \in F, NEW a \in A
      PROVE  Sum(A) = x[a] + Sum(A \ {a})
  <2>1. PICK e \in A : Sum(A) = x[e] + Sum(A \ {e})
    BY <1>2, <1>4
  <2>2. CASE e = a
    BY <2>1, <2>2
  <2>3. CASE e # a
    <3>1. /\ Sum(A \ {e}) = x[a] + Sum((A \ {e}) \ {a})
          /\ Sum(A \ {a}) = x[e] + Sum((A \ {a}) \ {e})
      BY <1>4, <2>1, <2>3
    <3>2. (A \ {e}) \ {a} = (A \ {a}) \ {e}
      OBVIOUS
    <3>3. Sum((A \ {e}) \ {a}) \in Int /\ x[a] \in Int /\ x[e] \in Int
      BY <1>1
    <3> DEFINE rest == Sum((A \ {e}) \ {a})
    <3>4. Sum(A) = x[e] + (x[a] + rest) /\ Sum(A \ {a}) = x[e] + rest /\ rest \in Int
      BY <2>1, <3>1, <3>2, <3>3
    <3> HIDE DEF rest
    <3> QED BY <3>3, <3>4
  <2> QED BY <2>2, <2>3
<1>5. F = SUBSET S
  <2>1. \A A \in SUBSET S : A # {} /\ (\A e \in A : A \ {e} \in F) => A \in F
    BY <1>4
  <2>2. F \in SUBSET (SUBSET S)
    OBVIOUS
  <2> HIDE DEF F
  <2> QED BY <1>3, <2>1, <2>2, SetInduction
<1>6. Sum(S) = x[d] + Sum(S \ {d})
  BY <1>5
<1> QED BY <1>6 DEF Sum

\* The sum over two disjoint sets is the sum of the two sums.
LEMMA SumUnion ==
    ASSUME NEW x, NEW S, NEW T, IsFiniteSet(S), IsFiniteSet(T), S \cap T = {},
           \A e \in S \cup T : x[e] \in Int
    PROVE  SumFunctionOnSet(x, S \cup T) = SumFunctionOnSet(x, S) + SumFunctionOnSet(x, T)
<1> DEFINE Sum(A) == SumFunctionOnSet(x, A)
           F == {A \in SUBSET S : Sum(A \cup T) = Sum(A) + Sum(T)}
<1>1. IsFiniteSet(S \cup T)
  BY FS_Union
<1>2. \A A \in SUBSET (S \cup T) : IsFiniteSet(A) /\ Sum(A) \in Int
  BY <1>1, FS_Subset, SumType
<1>3. Sum({}) = 0
  BY SumEmpty
<1>4. ASSUME NEW A \in SUBSET (S \cup T), NEW a \in A PROVE Sum(A) = x[a] + Sum(A \ {a})
  <2>1. IsFiniteSet(A) /\ \A e \in A : x[e] \in Int
    BY <1>2
  <2> QED BY ONLY <2>1, a \in A, SumRemove
<1> HIDE DEF Sum
<1>5. {} \in F
  <2>1. {} \cup T = T
    OBVIOUS
  <2> QED BY <1>2, <1>3, <2>1
<1>6. ASSUME NEW A \in SUBSET S, A # {}, \A e \in A : A \ {e} \in F PROVE A \in F
  <2>1. PICK e \in A : TRUE
    BY <1>6
  <2>2. A \cup T \in SUBSET (S \cup T) /\ (A \cup T) \ {e} = (A \ {e}) \cup T
    OBVIOUS
  <2>3. Sum(A \cup T) = x[e] + Sum((A \ {e}) \cup T)
    BY <1>4, <2>2
  <2>4. Sum(A) = x[e] + Sum(A \ {e})
    BY <1>4
  <2>5. Sum(A \ {e}) \in Int /\ Sum(T) \in Int /\ x[e] \in Int
    BY <1>2
  <2>6. Sum((A \ {e}) \cup T) = Sum(A \ {e}) + Sum(T)
    BY <1>6
  <2> QED BY <2>3, <2>4, <2>5, <2>6
<1>7. F = SUBSET S
  <2> HIDE DEF F
  <2>1. F \in SUBSET (SUBSET S)
    BY DEF F
  <2> QED BY <1>5, <1>6, <2>1, SetInduction
<1>8. Sum(S \cup T) = Sum(S) + Sum(T)
  BY <1>7
<1> QED BY <1>8 DEF Sum

\* Numbers between lo and hi add up to something between as many times lo and hi.
LEMMA SumBounds ==
    ASSUME NEW x, NEW S, IsFiniteSet(S), NEW lo \in Int, NEW hi \in Int,
           \A e \in S : x[e] \in Int /\ lo <= x[e] /\ x[e] <= hi
    PROVE  /\ lo * Cardinality(S) <= SumFunctionOnSet(x, S)
           /\ SumFunctionOnSet(x, S) <= hi * Cardinality(S)
<1> DEFINE Sum(A) == SumFunctionOnSet(x, A)
           F == {A \in SUBSET S : lo * Cardinality(A) <= Sum(A) /\ Sum(A) <= hi * Cardinality(A)}
<1>1. \A A \in SUBSET S : IsFiniteSet(A) /\ Cardinality(A) \in Nat /\ Sum(A) \in Int
  BY FS_Subset, FS_CardinalityType, SumType
<1>2. {} \in F
  <2>1. Cardinality({}) = 0 /\ Sum({}) = 0
    BY FS_EmptySet, SumEmpty
  <2> QED BY <2>1
<1>3. ASSUME NEW A \in SUBSET S, NEW a \in A PROVE Sum(A) = x[a] + Sum(A \ {a})
  <2>1. IsFiniteSet(A) /\ \A e \in A : x[e] \in Int
    BY <1>1
  <2> QED BY ONLY <2>1, a \in A, SumRemove
<1>4. \A A \in SUBSET S : \A a \in A : Cardinality(A \ {a}) = Cardinality(A) - 1
  BY <1>1, FS_RemoveElement
<1> HIDE DEF Sum
<1>5. ASSUME NEW A \in SUBSET S, A # {}, \A e \in A : A \ {e} \in F PROVE A \in F
  <2>1. PICK e \in A : TRUE
    BY <1>5
  <2> DEFINE c == Cardinality(A \ {e})
             r == Sum(A \ {e})
  <2>0. c = Cardinality(A) - 1 /\ Cardinality(A) \in Nat /\ A \ {e} \in SUBSET S /\ A \ {e} \in F
    BY <1>1, <1>4, <1>5
  <2>2. /\ Sum(A) = x[e] + r /\ Cardinality(A) = c + 1 /\ c \in Nat /\ r \in Int
        /\ lo * c <= r /\ r <= hi * c
    <3>1. Sum(A) = x[e] + r /\ r \in Int
      BY <1>1, <1>3, <2>0
    <3>2. c \in Nat /\ Cardinality(A) = c + 1
      BY <1>1, <2>0
    <3> QED BY <2>0, <3>1, <3>2
  <2> HIDE DEF c, r
  <2>3. x[e] \in Int /\ lo <= x[e] /\ x[e] <= hi
    OBVIOUS
  <2>4. lo * (c + 1) = lo * c + lo /\ hi * (c + 1) = hi * c + hi /\ lo * c \in Int /\ hi * c \in Int
    BY <2>2
  <2>5. lo * (c + 1) <= x[e] + r /\ x[e] + r <= hi * (c + 1)
    BY <2>2, <2>3, <2>4
  <2> QED BY <2>2, <2>5
<1>6. F = SUBSET S
  <2> HIDE DEF F
  <2>1. F \in SUBSET (SUBSET S)
    BY DEF F
  <2> QED BY <1>2, <1>5, <2>1, SetInduction
<1>7. S \in F
  BY <1>6
<1> QED BY <1>7 DEF Sum

\* Finitely many integers have a greatest and a least.
LEMMA Extremes ==
    ASSUME NEW S \in SUBSET Int, IsFiniteSet(S), S # {}
    PROVE  /\ Max(S) \in S /\ \A y \in S : y <= Max(S)
           /\ Min(S) \in S /\ \A y \in S : Min(S) <= y
<1> DEFINE F == {A \in SUBSET S : A # {} => /\ \E x \in A : \A y \in A : x >= y
                                            /\ \E x \in A : \A y \in A : x <= y}
<1>1. {} \in F
  OBVIOUS
<1>2. ASSUME NEW A \in SUBSET S, A # {}, \A e \in A : A \ {e} \in F PROVE A \in F
  <2>1. PICK e \in A : A \ {e} \in F
    BY <1>2
  <2>2. CASE A = {e}
    BY <2>2
  <2>3. CASE A # {e}
    <3>1. PICK u \in A \ {e} : \A y \in A \ {e} : u >= y
      BY <2>1, <2>3
    <3>2. PICK v \in A \ {e} : \A y \in A \ {e} : v <= y
      BY <2>1, <2>3
    <3>3. \A y \in A : y = e \/ y \in A \ {e}
      OBVIOUS
    <3>4. \E x \in A : \A y \in A : x >= y
      <4>1. CASE u >= e
        BY <3>1, <3>3, <4>1
      <4>2. CASE e > u
        BY <3>1, <3>3, <4>2
      <4> QED BY <4>1, <4>2
    <3>5. \E x \in A : \A y \in A : x <= y
      <4>1. CASE v <= e
        BY <3>2, <3>3, <4>1
      <4>2. CASE e < v
        BY <3>2, <3>3, <4>2
      <4> QED BY <4>1, <4>2
    <3> QED BY <3>4, <3>5
  <2> QED BY <2>2, <2>3
<1>3. F = SUBSET S
  <2> HIDE DEF F
  <2>1. F \in SUBSET (SUBSET S)
    BY DEF F
  <2> QED BY <1>1, <1>2, <2>1, SetInduction
<1>4. (\E x \in S : \A y \in S : x >= y) /\ (\E x \in S : \A y \in S : x <= y)
  BY <1>3
<1>5. Max(S) \in S /\ \A y \in S : Max(S) >= y
  BY <1>4 DEF Max
<1>6. Min(S) \in S /\ \A y \in S : Min(S) <= y
  BY <1>4 DEF Min
<1> QED BY <1>5, <1>6

\* A function has finitely many values on a finite set.
LEMMA ImageFinite ==
    ASSUME NEW x, NEW S, IsFiniteSet(S)
    PROVE  IsFiniteSet({x[e] : e \in S})
<1> DEFINE T == {x[e] : e \in S}
           f == [e \in S |-> x[e]]
<1>1. f \in Surjection(S, T)
  BY DEF Surjection
<1> HIDE DEF f
<1> QED BY ONLY <1>1, FS_Surjection, IsFiniteSet(S)
=============================================================================
