---------------------------- MODULE ShellProofs ----------------------------
(***************************************************************************)
(* Theorems about the kernel shell: what it asks of the process table, what   *)
(* it shows of it and what it calculates, for every table size, burst, width  *)
(* of an int and set of lines.                                               *)
(***************************************************************************)
EXTENDS KernelShell, ProcessProofs, SequenceTheorems

-----------------------------------------------------------------------------
(* Numbers that wrap.                                                       *)

\* Quotient and rest of a division by a positive number.
LEMMA DivMod ==
  ASSUME NEW x \in Int, NEW w \in Nat \ {0}
  PROVE  /\ x \div w \in Int /\ x % w \in 0 .. w - 1
         /\ x = w * (x \div w) + (x % w)
         /\ x \in 0 .. w - 1 => x % w = x
BY SMT

\* There is only one such quotient and rest.
LEMMA ModUnique ==
  ASSUME NEW w \in Nat \ {0}, NEW q \in Int, NEW r \in 0 .. w - 1,
         NEW p \in Int, NEW s \in 0 .. w - 1, w * q + r = w * p + s
  PROVE  q = p /\ r = s
PROOF
<1> DEFINE d == q - p
<1>1. d \in Int /\ r \in Int /\ s \in Int /\ w \in Int
      /\ s - r < w /\ r - s < w
  BY SMT
<1>2. w * d = s - r
  BY SMT
<1> HIDE DEF d
<1>3. d = 0
  <2>1. CASE d >= 1
    <3>1. w * d >= w
      BY <1>1, <2>1, SMT
    <3> QED  BY <1>1, <1>2, <3>1, SMT
  <2>2. CASE d <= -1
    <3>1. w * d <= -w
      BY <1>1, <2>2, SMT
    <3> QED  BY <1>1, <1>2, <3>1, SMT
  <2> QED  BY <1>1, <2>1, <2>2, SMT
<1>4. w * d = 0
  BY <1>1, <1>3, SMT
<1> QED  BY <1>1, <1>2, <1>3, <1>4, SMT DEF d

Width == 2 * (IntMax + 1)

\* The ints are as many consecutive numbers as the width.
LEMMA WidthType ==
  /\ Width \in Nat \ {0} /\ Width \in Int /\ MIN_INT \in Int
  /\ IntMax \in Int /\ IntMax = MIN_INT + Width - 1
  /\ \A n \in Int : Wrap(n) = ((n - MIN_INT) % Width) + MIN_INT
BY KernelShellAssumption DEF Width, MIN_INT, Wrap

\* Numbers that differ by a multiple of the width are the same int.
LEMMA WrapShifts ==
  ASSUME NEW n \in Int, NEW k \in Int
  PROVE  Wrap(n + k * Width) = Wrap(n)
PROOF
<1> DEFINE a == n - MIN_INT
           b == n + k * Width - MIN_INT
<1>1. a \in Int /\ b \in Int /\ b = a + k * Width /\ n + k * Width \in Int
  BY WidthType, SMT
<1>2. Wrap(n) = (a % Width) + MIN_INT /\ Wrap(n + k * Width) = (b % Width) + MIN_INT
  BY <1>1, WidthType
<1> HIDE DEF a, b
<1> DEFINE p == a \div Width
           q == b \div Width
           r == a % Width
           s == b % Width
<1>3. p \in Int /\ r \in 0 .. Width - 1 /\ a = Width * p + r
  BY <1>1, WidthType, DivMod
<1>4. q \in Int /\ s \in 0 .. Width - 1 /\ b = Width * q + s
  BY <1>1, WidthType, DivMod
<1> HIDE DEF p, q, r, s
<1>5. Width * (p + k) + r = Width * q + s
  <2>1. Width * (p + k) = Width * p + k * Width
    BY <1>3, WidthType, SMT
  <2>2. Width * p \in Int /\ k * Width \in Int /\ r \in Int
    BY <1>3, WidthType, SMT
  <2> QED  BY <1>1, <1>3, <1>4, <2>1, <2>2, SMT
<1>6. p + k \in Int
  BY <1>3
<1>7. r = s
  BY <1>3, <1>4, <1>5, <1>6, WidthType, ModUnique
<1> QED  BY <1>2, <1>7 DEF r, s

\* Wrap returns an int, and an int as it is.
LEMMA WrapIsInt ==
  ASSUME NEW n \in Int
  PROVE  /\ Wrap(n) \in Ints
         /\ \E k \in Int : Wrap(n) = n + k * Width
         /\ n \in Ints => Wrap(n) = n
PROOF
<1> DEFINE a == n - MIN_INT
<1>1. Wrap(n) = (a % Width) + MIN_INT /\ a \in Int /\ n = a + MIN_INT
  BY WidthType
<1> HIDE DEF a
<1> DEFINE q == a \div Width
           r == a % Width
<1>2. /\ q \in Int /\ r \in 0 .. Width - 1
      /\ a = Width * q + r
      /\ a \in 0 .. Width - 1 => r = a
  BY <1>1, WidthType, DivMod
<1> HIDE DEF q, r
<1>3. Wrap(n) = r + MIN_INT
  BY <1>1 DEF r
<1>4. Wrap(n) \in Ints
  BY <1>2, <1>3, WidthType, SMT DEF Ints
<1>5. \E k \in Int : Wrap(n) = n + k * Width
  <2>1. -q \in Int
    BY <1>2
  <2>2. (-q) * Width = - (Width * q) /\ Width * q \in Int
    BY <1>2, WidthType, SMT
  <2>3. Wrap(n) = n + (-q) * Width
    BY <1>1, <1>2, <1>3, <2>2, WidthType, SMT
  <2> QED  BY <2>1, <2>3
<1>6. ASSUME n \in Ints
      PROVE  Wrap(n) = n
  <2>1. a \in 0 .. Width - 1
    BY <1>1, <1>6, WidthType, SMT DEF Ints
  <2> QED  BY <1>1, <1>2, <1>3, <2>1
<1> QED  BY <1>4, <1>5, <1>6

\* It makes no difference whether a number wraps on the way or at the end.
LEMMA WrapOnTheWay ==
  ASSUME NEW n \in Int, NEW d \in Int
  PROVE  /\ Wrap(Wrap(n) * 10 + d) = Wrap(10 * n + d)
         /\ Wrap(-Wrap(n)) = Wrap(-n)
         /\ Wrap(Wrap(n)) = Wrap(n)
PROOF
<1>1. Width \in Int
  BY KernelShellAssumption DEF Width
<1>2. PICK k \in Int : Wrap(n) = n + k * Width
  BY WrapIsInt
<1>3. Wrap(n) * 10 + d = (10 * n + d) + (10 * k) * Width
  BY <1>1, <1>2, SMT
<1>4. -Wrap(n) = -n + (-k) * Width
  BY <1>1, <1>2, SMT
<1>5. 10 * n + d \in Int /\ 10 * k \in Int /\ -n \in Int /\ -k \in Int
  OBVIOUS
<1>6. Wrap((10 * n + d) + (10 * k) * Width) = Wrap(10 * n + d)
  BY <1>5, WrapShifts
<1>7. Wrap(-n + (-k) * Width) = Wrap(-n)
  BY <1>5, WrapShifts
<1>8. Wrap(n + k * Width) = Wrap(n)
  BY WrapShifts
<1> QED  BY <1>2, <1>3, <1>4, <1>6, <1>7, <1>8

-----------------------------------------------------------------------------
(* Digits.                                                                  *)

DigitSet == ToSet(Digits)

\* Each digit has its value, and the sign is no digit.
LEMMA DigitsAre ==
  /\ \A v \in 0 .. 9 : Digits[v + 1] \in DigitSet /\ DigitValue(Digits[v + 1]) = v
  /\ \A c \in DigitSet : DigitValue(c) \in 0 .. 9
  /\ "-" \notin DigitSet
PROOF
<1>1. DOMAIN Digits = 1 .. 10
  BY DEF Digits
<1>2. DigitSet = {Digits[d] : d \in 1 .. 10}
  BY <1>1 DEF DigitSet, ToSet
<1>3. \A d, e \in 1 .. 10 : Digits[d] = Digits[e] => d = e
  BY SMT DEF Digits
<1>4. ASSUME NEW e \in 1 .. 10
      PROVE  DigitValue(Digits[e]) = e - 1
  <2>1. (CHOOSE d \in 1 .. 10 : Digits[d] = Digits[e]) = e
    BY <1>3
  <2> QED  BY <2>1 DEF DigitValue
<1>5. \A v \in 0 .. 9 : v + 1 \in 1 .. 10 /\ (v + 1) - 1 = v
  BY SMT
<1>6. \A e \in 1 .. 10 : e - 1 \in 0 .. 9
  BY SMT
<1>7. "-" \notin DigitSet
  BY <1>2, SMT DEF Digits
<1> HIDE DEF Digits
<1> QED  BY <1>2, <1>4, <1>5, <1>6, <1>7

\* The powers of ten are defined for every exponent.
LEMMA PowerRecursion ==
  /\ Power10[0] = 1
  /\ \A n \in Nat : Power10[n + 1] = 10 * Power10[n]
  /\ \A n \in Nat : Power10[n] \in Nat
PROOF
<1> DEFINE B    == {0}
           b    == [n \in Nat |-> 1]
           p    == [n \in Nat |-> IF n = 0 THEN 0 ELSE n - 1]
           step == [q \in Nat \X Nat |-> 10 * q[2]]
           F(f) == f = [n \in Nat |-> IF n = 0 THEN 1 ELSE 10 * f[n - 1]]
<1>1. b \in [Nat -> Nat] /\ p \in [Nat -> Nat]
  BY SMT
<1>2. \A n \in Nat \ B : p[n] < n
  BY SMT
<1>3. step \in [Nat \X Nat -> Nat]
  <2>1. \A q \in Nat \X Nat : 10 * q[2] \in Nat
    OBVIOUS
  <2> QED  BY <2>1
<1>4. \E f \in [Nat -> Nat] : F(f)
  <2>1. ASSUME NEW f \in [Nat -> Nat], NEW n \in Nat
        PROVE  BackStep(f, B, b, p, step, n) = IF n = 0 THEN 1 ELSE 10 * f[n - 1]
    <3>1. CASE n = 0
      BY <3>1 DEF BackStep
    <3>2. CASE n # 0
      <4>1. p[n] = n - 1 /\ p[n] \in Nat
        BY <3>2, <1>1
      <4>2. <<n, f[p[n]]>> \in Nat \X Nat
        BY <4>1
      <4> DEFINE v == f[p[n]]
      <4>3. <<n, v>> \in Nat \X Nat
        BY <4>2
      <4> HIDE DEF v
      <4>4. step[<<n, v>>] = 10 * v
        BY <4>3
      <4> HIDE DEF p, step
      <4> QED  BY <3>2, <4>1, <4>4 DEF BackStep, v
    <3> QED  BY <3>1, <3>2
  <2> HIDE DEF B, b, p, step
  <2>2. BackType(Nat, B, b, p, step)
    BY <1>1, <1>2, <1>3, Zenon DEF BackType
  <2>3. PICK f : BackFunction(f, Nat, B, b, p, step)
    BY <2>2, BackRecursion, Zenon
  <2>4. f \in [Nat -> Nat] /\ \A n \in Nat : f[n] = BackStep(f, B, b, p, step, n)
    BY <2>3 DEF BackFunction
  <2>5. \A n \in Nat : f[n] = IF n = 0 THEN 1 ELSE 10 * f[n - 1]
    BY <2>1, <2>4
  <2>6. F(f)
    BY <2>4, <2>5
  <2> HIDE DEF F
  <2> QED  BY <2>4, <2>6
<1>5. Power10 = CHOOSE f : F(f)
  BY DEF Power10
<1>6. PICK g \in [Nat -> Nat] : F(g)
  BY <1>4
<1>7. F(Power10)
  <2> HIDE DEF F
  <2> QED  BY <1>5, <1>6
<1>8. \A n \in Nat : Power10[n] = IF n = 0 THEN 1 ELSE 10 * Power10[n - 1]
  BY <1>7
<1>9. Power10[0] = 1
  BY <1>8
<1>10. \A n \in Nat : Power10[n + 1] = 10 * Power10[n]
  <2>1. \A n \in Nat : n + 1 \in Nat /\ n + 1 # 0 /\ (n + 1) - 1 = n
    BY SMT
  <2> QED  BY <1>8, <2>1
<1> DEFINE N == {n \in Nat : Power10[n] \in Nat}
<1>11. 0 \in N /\ \A n \in Nat : n \in N => n + 1 \in N
  <2>1. \A m \in Nat : 10 * m \in Nat
    OBVIOUS
  <2> QED  BY <1>9, <1>10, <2>1
<1>12. Nat \subseteq N
  <2> HIDE DEF N
  <2> QED  BY <1>11, SetInduction
<1> QED  BY <1>9, <1>10, <1>12

\* One power at a time, for the provers.
LEMMA PowerType ==
  ASSUME NEW n \in Nat
  PROVE  Power10[n] \in Int /\ Power10[n + 1] = 10 * Power10[n]
PROOF
<1>1. Power10[n] \in Nat
  BY PowerRecursion, Zenon
<1>2. Power10[n + 1] = 10 * Power10[n]
  BY PowerRecursion, Zenon
<1> QED  BY <1>1, <1>2

\* The value of the digits, one more digit at a time.
Weighed(s) == [i \in 1 .. Len(s) |-> DigitValue(s[i]) * Power10[Len(s) - i]]

\* The value of the digits is the sum of the weighed digits.
LEMMA ValueType ==
  ASSUME NEW s \in Seq(DigitSet)
  PROVE  /\ Weighed(s) \in [1 .. Len(s) -> Int]
         /\ Value(s) = SumFunction(Weighed(s))
         /\ Value(s) \in Int
PROOF
<1>1. Len(s) \in Nat /\ \A i \in 1 .. Len(s) : s[i] \in DigitSet
  BY LenProperties, ElementOfSeq
<1>2. ASSUME NEW i \in 1 .. Len(s)
      PROVE  DigitValue(s[i]) * Power10[Len(s) - i] \in Int
  <2> DEFINE k == Len(s) - i
             d == DigitValue(s[i])
  <2>1. k \in Nat
    BY <1>1, SMT
  <2>2. d \in Int
    BY <1>1, DigitsAre
  <2> HIDE DEF k, d
  <2>3. Power10[k] \in Int
    BY <2>1, PowerType, Zenon
  <2>4. d * Power10[k] \in Int
    BY <2>2, <2>3
  <2> QED  BY <2>4 DEF d, k
<1>3. Weighed(s) \in [1 .. Len(s) -> Int]
  BY <1>2 DEF Weighed
<1>4. Value(s) = SumFunction(Weighed(s))
  BY DEF Value, Weighed
<1> DEFINE S == 1 .. Len(s)
<1>5. IsFiniteSet(S) /\ Weighed(s) \in [S -> Int]
  BY <1>1, <1>3, FS_Interval
<1> HIDE DEF S
<1>6. SumFunction(Weighed(s)) \in Int
  BY <1>5, SumIsInt
<1> QED  BY <1>3, <1>4, <1>6

\* No digits are worth nothing.
LEMMA ValueEmpty == Value(<<>>) = 0
PROOF
<1>1. DOMAIN Weighed(<<>>) = {}
  BY SMT DEF Weighed
<1>2. Value(<<>>) = SumFunction(Weighed(<<>>))
  BY DEF Value, Weighed
<1> QED  BY <1>1, <1>2, SumOfNothing

\* A digit appended multiplies the value by ten and adds its own.
LEMMA ValueAppend ==
  ASSUME NEW s \in Seq(DigitSet), NEW c \in DigitSet
  PROVE  Value(Append(s, c)) = 10 * Value(s) + DigitValue(c)
PROOF
<1> DEFINE t == Append(s, c)
           n == Len(s)
           f == Weighed(s)
           h == Weighed(t)
           D == 1 .. n
           E == 1 .. (n + 1)
<1>1. /\ t \in Seq(DigitSet) /\ Len(t) = n + 1 /\ n \in Nat
      /\ \A i \in 1 .. n : t[i] = s[i]
      /\ t[n + 1] = c
  BY AppendProperties, LenProperties
<1> HIDE DEF t
<1>2. IsFiniteSet(D) /\ IsFiniteSet(E) /\ n + 1 \in E /\ E \ {n + 1} = D
  <2>1. IsFiniteSet(D) /\ IsFiniteSet(E)
    <3>1. 1 \in Int /\ n \in Int /\ n + 1 \in Int
      BY <1>1
    <3> QED  BY <3>1, FS_Interval, Zenon
  <2>2. n + 1 \in E /\ E \ {n + 1} = D
    BY <1>1, SMT
  <2> QED  BY <2>1, <2>2
<1>3. f \in [D -> Int] /\ h \in [E -> Int]
  BY <1>1, ValueType
<1>4. h[n + 1] = DigitValue(c)
  <2>1. h[n + 1] = DigitValue(c) * Power10[(n + 1) - (n + 1)]
    BY <1>1, <1>2 DEF Weighed
  <2>2. (n + 1) - (n + 1) = 0
    BY <1>1, SMT
  <2>3. DigitValue(c) \in Int
    BY DigitsAre
  <2>4. h[n + 1] = DigitValue(c) * 1
    BY <2>1, <2>2, PowerRecursion, Zenon
  <2> QED  BY <2>3, <2>4
<1>5. ASSUME NEW i \in D
      PROVE  h[i] = 10 * f[i]
  <2> DEFINE k == n - i
             d == DigitValue(s[i])
             w == Power10[k]
  <2>1. k \in Nat /\ (n + 1) - i = k + 1 /\ i \in E
    BY <1>1, SMT
  <2>2. h[i] = d * Power10[k + 1]
    BY <1>1, <2>1 DEF Weighed
  <2>3. f[i] = d * w
    BY DEF Weighed
  <2> HIDE DEF k
  <2>4. Power10[k + 1] = 10 * w /\ w \in Int
    BY <2>1, PowerType, Zenon DEF w
  <2>5. d \in Int
    BY ElementOfSeq, DigitsAre
  <2> HIDE DEF d, w
  <2>6. d * (10 * w) = 10 * (d * w)
    BY <2>4, <2>5, SMT
  <2> QED  BY <2>2, <2>3, <2>4, <2>6
<1>6. Value(s) = SumFunction(f) /\ Value(t) = SumFunction(h)
  BY <1>1, ValueType
<1> DEFINE r == [i \in D |-> h[i]]
<1> HIDE DEF f, h, D, E
<1>7. r \in [D -> Int] /\ \A i \in D : r[i] = h[i] /\ r[i] = 10 * f[i]
  BY <1>2, <1>3, <1>5
<1> HIDE DEF r
<1>8. SumFunction(h) = h[n + 1] + SumFunction(r)
  <2>1. IntValued(h, E) /\ IntValued(r, E \ {n + 1})
    BY <1>2, <1>3, <1>7 DEF IntValued
  <2>2. \A i \in E \ {n + 1} : r[i] = h[i]
    BY <1>2, <1>7
  <2>3. IsFiniteSet(E)
    BY <1>2
  <2> DEFINE m == n + 1
  <2>4. m \in E
    BY <1>2
  <2>5. Without(r, h, E, m)
    BY <2>1, <2>2 DEF Without
  <2> HIDE DEF m
  <2>6. \A f0, h0 : Without(h0, f0, E, m) => SumFunction(f0) = f0[m] + SumFunction(h0)
    BY <2>3, <2>4, SumWithout, Zenon
  <2>7. SumFunction(h) = h[m] + SumFunction(r)
    BY <2>5, <2>6
  <2> QED  BY <2>7 DEF m
<1>9. SumFunction(r) = 10 * SumFunction(f)
  <2>1. 10 \in Int
    OBVIOUS
  <2>2. \A i \in D : r[i] = 10 * f[i]
    BY <1>7
  <2>3. IntValued(f, D) /\ IntValued(r, D)
    BY <1>3, <1>7 DEF IntValued
  <2> QED  BY <1>2, <2>1, <2>2, <2>3, SumScaled
<1>10. SumFunction(f) \in Int /\ DigitValue(c) \in Int
  BY <1>2, <1>3, SumIsInt, DigitsAre
<1> QED  BY <1>4, <1>6, <1>8, <1>9, <1>10 DEF t

-----------------------------------------------------------------------------
(* katoi folds from the left, by the largest index of what is left.          *)

\* A set of indices has its maximum.
LEMMA LargestIndex ==
  ASSUME NEW n \in Nat, NEW t \in SUBSET (1 .. n), t # {}
  PROVE  Max(t) \in t /\ \A y \in t : y <= Max(t)
PROOF
<1> DEFINE T == {k \in Nat : n - k \in t}
<1>1. \A y \in t : y \in 1 .. n
  OBVIOUS
<1>2. \A y \in 1 .. n : n - y \in Nat /\ n - (n - y) = y /\ y \in Int
  BY SMT
<1>3. T \subseteq Nat /\ T # {}
  BY <1>1, <1>2
<1>4. PICK k \in T : \A j \in T : k <= j
  <2> HIDE DEF T
  <2> QED  BY <1>3, LeastNatural, Zenon
<1>5. n - k \in t /\ k \in Nat
  BY <1>4
<1>6. ASSUME NEW y \in t
      PROVE  n - k >= y
  <2>1. n - y \in T
    BY <1>1, <1>2
  <2>2. k <= n - y /\ y \in Int
    BY <1>1, <1>2, <1>4, <2>1
  <2> QED  BY <1>5, <2>2, SMT
<1>7. \E x \in t : \A y \in t : x >= y
  BY <1>5, <1>6
<1>8. Max(t) \in t /\ \A y \in t : Max(t) >= y
  BY <1>7 DEF Max
<1> QED  BY <1>1, <1>2, <1>8

\* The largest index of a prefix is its length.
LEMMA LastIndex ==
  ASSUME NEW m \in Nat
  PROVE  Max(1 .. (m + 1)) = m + 1
PROOF
<1> DEFINE x == Max(1 .. (m + 1))
<1>1. m + 1 \in Nat /\ m + 1 \in 1 .. (m + 1)
  BY SMT
<1>2. x \in 1 .. (m + 1) /\ \A y \in 1 .. (m + 1) : y <= x
  BY <1>1, LargestIndex
<1> HIDE DEF x
<1>3. x = m + 1
  BY <1>1, <1>2, SMT
<1> QED  BY <1>3 DEF x

ValueOf(s) == FoldLeft(LAMBDA v, c : Wrap(v * 10 + DigitValue(c)), 0, s)

ValueStep(g, s, t) ==
  IF t = {} THEN 0
  ELSE LET x == Max(t) IN Wrap(g[t \ {x}] * 10 + DigitValue(s[x]))

\* The definition of the community modules, its operator arguments applied.
LEMMA ValueIsChoice ==
  ASSUME NEW s
  PROVE  ValueOf(s) =
           (CHOOSE g : g = [t \in SUBSET DOMAIN s |-> ValueStep(g, s, t)])[DOMAIN s]
BY Zenon DEF ValueOf, FoldLeft, MapThenFoldSet, ValueStep

\* The value of the digits, one step for each set of indices.
LEMMA ValueRecursion ==
  ASSUME NEW s \in Seq(DigitSet)
  PROVE  \E h : /\ \A t \in SUBSET (1 .. Len(s)) : h[t] = ValueStep(h, s, t)
                /\ ValueOf(s) = h[1 .. Len(s)]
PROOF
<1> DEFINE D    == 1 .. Len(s)
           c    == [t \in SUBSET D |-> Max(t)]
           step == [p \in D \X Int |-> Wrap(p[2] * 10 + DigitValue(s[p[1]]))]
<1>1. Len(s) \in Nat /\ DOMAIN s = D /\ \A i \in D : s[i] \in DigitSet
  BY LenProperties, ElementOfSeq
<1>2. IsFiniteSet(D)
  <2>1. 1 \in Int /\ Len(s) \in Int
    BY <1>1
  <2> QED  BY <2>1, FS_Interval, Zenon
<1>3. \A t \in SUBSET D : t # {} => c[t] \in t
  BY <1>1, LargestIndex
<1>4. \A i \in D, v \in Int : Wrap(v * 10 + DigitValue(s[i])) \in Int
  <2>1. ASSUME NEW i \in D, NEW v \in Int
        PROVE  Wrap(v * 10 + DigitValue(s[i])) \in Int
    <3> DEFINE d == DigitValue(s[i])
    <3>1. d \in Int
      BY <1>1, DigitsAre
    <3> HIDE DEF d
    <3>2. v * 10 + d \in Int
      BY <3>1
    <3>3. Wrap(v * 10 + d) \in Ints
      BY <3>2, WrapIsInt
    <3>4. Ints \subseteq Int
      BY SMT DEF Ints
    <3> QED  BY <3>3, <3>4 DEF d
  <2> QED  BY <2>1
<1>5. step \in [D \X Int -> Int]
  BY <1>4
<1> HIDE DEF D
<1>6. ASSUME NEW g, NEW t \in SUBSET D, g[t \ {c[t]}] \in Int
      PROVE  FoldStep(g, D, 0, step, c, t) = ValueStep(g, s, t)
  <2>1. CASE t = {}
    BY <2>1 DEF FoldStep, ValueStep
  <2>2. CASE t # {}
    <3> DEFINE x == Max(t)
    <3>1. c[t] = x /\ x \in D
      BY <1>3, <2>2
    <3> HIDE DEF c, x
    <3>2. <<x, g[t \ {x}]>> \in D \X Int
      BY <1>6, <3>1
    <3>3. step[<<x, g[t \ {x}]>>] = Wrap(g[t \ {x}] * 10 + DigitValue(s[x]))
      BY <3>2
    <3> HIDE DEF step
    <3>4. FoldStep(g, D, 0, step, c, t) = Wrap(g[t \ {x}] * 10 + DigitValue(s[x]))
      BY <2>2, <3>1, <3>3 DEF FoldStep
    <3> USE DEF x
    <3> QED  BY <2>2, <3>4 DEF ValueStep
  <2> QED  BY <2>1, <2>2
<1> HIDE DEF step, c
<1>7. PICK g \in [SUBSET D -> Int] :
             \A t \in SUBSET D : g[t] = FoldStep(g, D, 0, step, c, t)
  <2>1. 0 \in Int
    OBVIOUS
  <2>2. \A base \in Int : \A st \in [D \X Int -> Int] : \A d :
          (\A t \in SUBSET D : t # {} => d[t] \in t) =>
            \E g \in [SUBSET D -> Int] :
              \A t \in SUBSET D : g[t] = FoldStep(g, D, base, st, d, t)
    BY <1>2, FoldRecursion, Zenon
  <2>3. \A d :
          (\A t \in SUBSET D : t # {} => d[t] \in t) =>
            \E g \in [SUBSET D -> Int] :
              \A t \in SUBSET D : g[t] = FoldStep(g, D, 0, step, d, t)
    BY <1>5, <2>1, <2>2, Zenon
  <2> QED  BY <1>3, <2>3, Zenon
<1>8. \A t \in SUBSET D : g[t] = ValueStep(g, s, t)
  <2>1. \A t \in SUBSET D : g[t \ {c[t]}] \in Int
    BY <1>7
  <2> QED  BY <1>6, <1>7, <2>1
<1> DEFINE h == CHOOSE h : h = [t \in SUBSET DOMAIN s |-> ValueStep(h, s, t)]
<1>9. g = [t \in SUBSET DOMAIN s |-> ValueStep(g, s, t)]
  BY <1>1, <1>7, <1>8
<1>10. h = [t \in SUBSET DOMAIN s |-> ValueStep(h, s, t)]
  BY <1>9
<1>11. ValueOf(s) = h[D]
  BY <1>1, ValueIsChoice
<1> HIDE DEF h
<1>12. \A t \in SUBSET D : h[t] = ValueStep(h, s, t)
  BY <1>1, <1>10
<1> QED  BY <1>11, <1>12 DEF D

\* katoi's loop finds what the digits write down, wrapped.
LEMMA LoopValue ==
  ASSUME NEW s \in Seq(DigitSet)
  PROVE  ValueOf(s) = Wrap(Value(s))
PROOF
<1> DEFINE n == Len(s)
           prefix(m) == SubSeq(s, 1, m)
<1>1. n \in Nat
  BY LenProperties
<1>2. PICK h : /\ \A t \in SUBSET (1 .. n) : h[t] = ValueStep(h, s, t)
               /\ ValueOf(s) = h[1 .. n]
  BY ValueRecursion
<1> DEFINE Z == {m \in Nat : m <= n => h[1 .. m] = Wrap(Value(prefix(m)))}
<1>3. 0 \in Z
  <2>1. 1 .. 0 = {}
    BY SMT
  <2>2. h[1 .. 0] = 0
    BY <1>2, <2>1 DEF ValueStep
  <2>3. prefix(0) = <<>>
    BY <1>1, SubSeqProperties, EmptySeq
  <2>4. 0 \in Ints /\ 0 \in Int
    BY WidthType, KernelShellAssumption, SMT DEF Ints, MIN_INT
  <2>5. Wrap(0) = 0
    BY <2>4, WrapIsInt
  <2>6. Wrap(Value(prefix(0))) = 0
    BY <2>3, <2>5, ValueEmpty
  <2> QED  BY <2>2, <2>6
<1>4. ASSUME NEW m \in Nat, m \in Z, m + 1 <= n
      PROVE  h[1 .. (m + 1)] = Wrap(Value(prefix(m + 1)))
  <2> DEFINE e == m + 1
             v == Value(prefix(m))
             d == DigitValue(s[e])
             t == 1 .. e
             u == 1 .. m
  <2>1. e \in 1 .. n /\ t \in SUBSET (1 .. n) /\ t # {} /\ t \ {e} = u /\ m <= n
    <3>1. e \in 1 .. n /\ m <= n /\ e \in t
      BY <1>1, <1>4, SMT
    <3>2. \A i \in t : i \in 1 .. n
      BY <1>1, <1>4, SMT
    <3>3. t \ {e} = u
      BY SMT
    <3> QED  BY <3>1, <3>2, <3>3
  <2>2. s[e] \in DigitSet
    BY <2>1, ElementOfSeq
  <2>3. prefix(m) \in Seq(DigitSet) /\ prefix(e) = Append(prefix(m), s[e])
    BY <1>1, <2>1, SubSeqProperties, AppendProperties
  <2>4. v \in Int /\ d \in Int
    <3>1. v \in Int
      <4> DEFINE q == prefix(m)
      <4>1. q \in Seq(DigitSet)
        BY <2>3
      <4> HIDE DEF q
      <4>2. Value(q) \in Int
        BY <4>1, ValueType
      <4> QED  BY <4>2 DEF q
    <3>2. d \in Int
      BY <2>2, DigitsAre
    <3> QED  BY <3>1, <3>2
  <2>5. Value(prefix(e)) = 10 * v + d
    BY <2>2, <2>3, ValueAppend
  <2>6. h[u] = Wrap(v)
    BY <1>4, <2>1
  <2>7. Max(t) = e
    BY LastIndex
  <2> HIDE DEF t, u, e, v, d
  <2>8. h[t] = Wrap(h[u] * 10 + DigitValue(s[e]))
    BY <1>2, <2>1, <2>7 DEF ValueStep
  <2>9. Wrap(Wrap(v) * 10 + d) = Wrap(10 * v + d)
    BY <2>4, WrapOnTheWay
  <2>10. h[t] = Wrap(Value(prefix(e)))
    BY <2>5, <2>6, <2>8, <2>9 DEF d
  <2> QED  BY <2>10 DEF t, e
<1>5. \A m \in Nat : m \in Z => m + 1 \in Z
  BY <1>4
<1>6. Nat \subseteq Z
  <2> HIDE DEF Z
  <2> QED  BY <1>3, <1>5, SetInduction
<1>7. h[1 .. n] = Wrap(Value(prefix(n)))
  BY <1>1, <1>6
<1>8. prefix(n) = s
  BY <1>1, SubSeqProperties
<1> QED  BY <1>2, <1>7, <1>8

-----------------------------------------------------------------------------
\* The definition of the community modules, its operator argument applied.
LEMMA LeadingIs ==
  ASSUME NEW s
  PROVE  LET I     == {i \in 1 .. Len(s) : s[i] \notin DigitSet}
             other == IF I # {} THEN Min(I) ELSE 0
         IN  LeadingDigits(s) = IF other = 0 THEN s ELSE SubSeq(s, 1, other - 1)
BY Zenon DEF LeadingDigits, SelectInSeq, DigitSet

\* What is taken for a number is made of digits, and all digits are taken.
LEMMA LeadingType ==
  ASSUME NEW S, NEW s \in Seq(S)
  PROVE  /\ LeadingDigits(s) \in Seq(DigitSet)
         /\ s \in Seq(DigitSet) => LeadingDigits(s) = s
PROOF
<1> DEFINE I     == {i \in 1 .. Len(s) : s[i] \notin DigitSet}
           other == IF I # {} THEN Min(I) ELSE 0
<1>1. Len(s) \in Nat
  BY LenProperties
<1>2. LeadingDigits(s) = IF other = 0 THEN s ELSE SubSeq(s, 1, other - 1)
  BY LeadingIs
<1>3. CASE I = {}
  <2>1. other = 0
    BY <1>3
  <2>2. LeadingDigits(s) = s
    BY <1>2, <2>1
  <2>3. \A i \in 1 .. Len(s) : s[i] \in DigitSet
    BY <1>3
  <2>4. SubSeq(s, 1, Len(s)) \in Seq(DigitSet)
    BY <1>1, <2>3, SubSeqProperties
  <2>5. SubSeq(s, 1, Len(s)) = s
    BY SubSeqFull
  <2> QED  BY <2>2, <2>4, <2>5
<1>4. CASE I # {}
  <2>1. I \subseteq Nat
    BY <1>1, SMT
  <2>2. \E x \in I : \A y \in I : x <= y
    <3> HIDE DEF I
    <3> QED  BY <1>4, <2>1, LeastNatural, Zenon
  <2>3. other \in I /\ \A y \in I : other <= y
    <3> HIDE DEF I
    <3>1. Min(I) \in I /\ \A y \in I : Min(I) <= y
      BY <2>2 DEF Min
    <3> QED  BY <1>4, <3>1
  <2> HIDE DEF other
  <2>4. other \in 1 .. Len(s) /\ s[other] \notin DigitSet
    BY <2>3
  <2>5. \A i \in 1 .. other - 1 : s[i] \in DigitSet
    <3>1. \A i \in 1 .. other - 1 : i \in 1 .. Len(s) /\ ~(other <= i)
      BY <1>1, <2>4, SMT
    <3> QED  BY <2>3, <3>1
  <2>6. other # 0 /\ other - 1 \in Int
    BY <1>1, <2>4, SMT
  <2>7. LeadingDigits(s) = SubSeq(s, 1, other - 1)
    BY <1>2, <2>6 DEF other
  <2>8. SubSeq(s, 1, other - 1) \in Seq(DigitSet)
    BY <2>5, <2>6, SubSeqProperties
  <2>9. s \notin Seq(DigitSet)
    BY <2>4, ElementOfSeq
  <2> QED  BY <2>7, <2>8, <2>9
<1> QED  BY <1>3, <1>4

\* katoi takes the sign off, reads the digits and puts the sign back.
LEMMA KatoiIs ==
  ASSUME NEW s
  PROVE  katoi(s) =
           LET value == ValueOf(LeadingDigits(IF Head(s) = "-" THEN Tail(s) ELSE s))
           IN  Wrap(IF Head(s) = "-" THEN -value ELSE value)
BY Zenon DEF ValueOf, katoi, FoldLeft, MapThenFoldSet

Words == Seq(STRING) \ {<<>>}

\* katoi reads the number that a word writes down, wrapped to an int
\* (kernel_shell.c:34-47).
THEOREM KatoiReads ==
  ASSUME NEW word \in Words
  PROVE  Written(word) \in Int /\ katoi(word) = Wrap(Written(word))
PROOF
<1>1. word \in Seq(STRING) /\ Tail(word) \in Seq(STRING)
  BY HeadTailProperties DEF Words
<1> DEFINE t == LeadingDigits(IF Head(word) = "-" THEN Tail(word) ELSE word)
           v == Value(t)
<1>2. t \in Seq(DigitSet)
  <2>1. CASE Head(word) = "-"
    BY <1>1, <2>1, LeadingType
  <2>2. CASE Head(word) # "-"
    BY <1>1, <2>2, LeadingType
  <2> QED  BY <2>1, <2>2
<1>3. Written(word) = IF Head(word) = "-" THEN -v ELSE v
  BY DEF Written
<1>4. katoi(word) = Wrap(IF Head(word) = "-" THEN -ValueOf(t) ELSE ValueOf(t))
  BY KatoiIs
<1> HIDE DEF t
<1>5. v \in Int /\ ValueOf(t) = Wrap(v)
  BY <1>2, ValueType, LoopValue
<1> HIDE DEF v
<1>6. Wrap(Wrap(v)) = Wrap(v) /\ Wrap(-Wrap(v)) = Wrap(-v)
  <2>1. 0 \in Int
    OBVIOUS
  <2> QED  BY <1>5, <2>1, WrapOnTheWay
<1>7. CASE Head(word) = "-"
  BY <1>3, <1>4, <1>5, <1>6, <1>7
<1>8. CASE Head(word) # "-"
  BY <1>3, <1>4, <1>5, <1>6, <1>8
<1> QED  BY <1>7, <1>8

-----------------------------------------------------------------------------
(* Decimal and katoi undo each other.                                        *)

Text == Seq(DigitSet) \ {<<>>}

\* The recursive function is a choice of a function that meets its equation.
LEMMA DecimalIsChoice ==
  Decimal = CHOOSE d : d = [n \in Nat |-> IF n < 10 THEN <<Digits[n + 1]>>
                                ELSE Append(d[n \div 10], Digits[(n % 10) + 1])]
BY DEF Decimal

\* The last digit of a number and what is before it.
LEMMA ByTen ==
  ASSUME NEW n \in Nat
  PROVE  /\ n \div 10 \in Nat /\ (n % 10) \in 0 .. 9
         /\ n = 10 * (n \div 10) + (n % 10)
         /\ n >= 10 => n \div 10 < n
BY SMT

\* A number is written by writing its tenth and appending the last digit.
LEMMA DecimalRecursion ==
  ASSUME NEW n \in Nat
  PROVE  /\ Decimal[n] \in Text
         /\ n < 10 => Decimal[n] = <<Digits[n + 1]>>
         /\ n >= 10 => Decimal[n] = Append(Decimal[n \div 10], Digits[(n % 10) + 1])
PROOF
<1> DEFINE B    == 0 .. 9
           b    == [m \in Nat |-> IF m < 10 THEN <<Digits[m + 1]>> ELSE <<Digits[1]>>]
           p    == [m \in Nat |-> m \div 10]
           step == [q \in Nat \X Text |-> Append(q[2], Digits[(q[1] % 10) + 1])]
           G(f, m) == IF m < 10 THEN <<Digits[m + 1]>>
                      ELSE Append(f[m \div 10], Digits[(m % 10) + 1])
           F(f) == f = [m \in Nat |-> G(f, m)]
<1>1. \A c \in DigitSet : <<c>> \in Text
  <2>1. ASSUME NEW c \in DigitSet
        PROVE  <<c>> \in Text
    <3>1. <<>> \in Seq(DigitSet)
      BY EmptySeq, Zenon
    <3>2. Append(<<>>, c) \in Seq(DigitSet) /\ Append(<<>>, c) # <<>>
      BY <3>1, AppendProperties
    <3>3. Append(<<>>, c) = <<c>>
      OBVIOUS
    <3> QED  BY <3>2, <3>3 DEF Text
  <2> QED  BY <2>1
<1>2. \A m \in Nat : m < 10 => Digits[m + 1] \in DigitSet
  <2>1. \A m \in Nat : m < 10 => m \in 0 .. 9
    BY SMT
  <2> QED  BY <2>1, DigitsAre
<1>3. b \in [Nat -> Text]
  <2>1. Digits[1] \in DigitSet
    <3>1. 0 \in Nat /\ 0 < 10 /\ 0 + 1 = 1
      BY SMT
    <3> QED  BY <1>2, <3>1
  <2> HIDE DEF Digits
  <2> QED  BY <1>1, <1>2, <2>1
<1>4. p \in [Nat -> Nat] /\ \A m \in Nat \ B : p[m] < m
  <2>1. \A m \in Nat \ B : m >= 10
    BY SMT
  <2> QED  BY <2>1, ByTen
<1>5. \A m \in Nat, t \in Text : Append(t, Digits[(m % 10) + 1]) \in Text
  <2>1. \A m \in Nat : Digits[(m % 10) + 1] \in DigitSet
    BY ByTen, DigitsAre
  <2> QED  BY <2>1, AppendProperties DEF Text
<1>6. step \in [Nat \X Text -> Text]
  BY <1>5
<1>7. ASSUME NEW f \in [Nat -> Text], NEW m \in Nat
      PROVE  BackStep(f, B, b, p, step, m) = G(f, m)
  <2>1. CASE m < 10
    <3>1. m \in B
      BY <2>1, SMT
    <3> QED  BY <2>1, <3>1 DEF BackStep
  <2>2. CASE ~(m < 10)
    <3>1. m \notin B
      BY <2>2, SMT
    <3> DEFINE v == f[m \div 10]
    <3>2. p[m] = m \div 10 /\ v \in Text
      BY ByTen
    <3>3. <<m, v>> \in Nat \X Text
      BY <3>2
    <3> HIDE DEF v
    <3>4. step[<<m, v>>] = Append(v, Digits[(m % 10) + 1])
      BY <3>3
    <3> HIDE DEF step, p, B
    <3>5. BackStep(f, B, b, p, step, m) = Append(v, Digits[(m % 10) + 1])
      BY <3>1, <3>2, <3>4 DEF BackStep, v
    <3> QED  BY <2>2, <3>5 DEF v
  <2> QED  BY <2>1, <2>2
<1>8. PICK f : BackFunction(f, Text, B, b, p, step)
  <2> HIDE DEF B, b, p, step
  <2>1. BackType(Text, B, b, p, step)
    BY <1>3, <1>4, <1>6, Zenon DEF BackType
  <2> QED  BY <2>1, BackRecursion, Zenon
<1>9. f \in [Nat -> Text] /\ \A m \in Nat : f[m] = BackStep(f, B, b, p, step, m)
  <2> HIDE DEF B, b, p, step
  <2> QED  BY <1>8 DEF BackFunction
<1>10. \A m \in Nat : f[m] = G(f, m)
  <2> HIDE DEF G, B, b, p, step
  <2> QED  BY <1>7, <1>9
<1>11. F(f)
  <2> HIDE DEF G
  <2> QED  BY <1>9, <1>10
<1> DEFINE d == CHOOSE d : F(d)
<1>12. Decimal = d
  BY DecimalIsChoice
<1>13. F(d)
  <2> HIDE DEF F
  <2> QED  BY <1>11
<1> HIDE DEF d
<1>14. \A m \in Nat : d[m] = G(d, m)
  <2> HIDE DEF G
  <2> QED  BY <1>13
<1>15. \A m \in Nat : /\ m < 10 => d[m] = <<Digits[m + 1]>>
                      /\ m >= 10 => d[m] = Append(d[m \div 10], Digits[(m % 10) + 1])
  <2>1. \A m \in Nat : m >= 10 => ~(m < 10)
    BY SMT
  <2> QED  BY <1>14, <2>1
<1> DEFINE T == {m \in Nat : d[m] \notin Text}
<1>16. ASSUME T # {}
       PROVE  FALSE
  <2>1. PICK m \in T : \A k \in T : m <= k
    <3>1. T \subseteq Nat
      OBVIOUS
    <3> HIDE DEF T
    <3> QED  BY <1>16, <3>1, LeastNatural, Zenon
  <2>2. m \in Nat /\ d[m] \notin Text
    BY <2>1
  <2>3. CASE m < 10
    BY <1>1, <1>2, <1>15, <2>2, <2>3
  <2>4. CASE m >= 10
    <3>1. m \div 10 \in Nat /\ ~(m <= m \div 10)
      BY <2>2, <2>4, SMT
    <3>2. d[m \div 10] \in Text
      BY <2>1, <3>1
    <3>3. d[m] = Append(d[m \div 10], Digits[(m % 10) + 1])
      BY <1>15, <2>2, <2>4
    <3> QED  BY <1>5, <2>2, <3>2, <3>3
  <2>5. m < 10 \/ m >= 10
    BY <2>2, SMT
  <2> QED  BY <2>3, <2>4, <2>5
<1>17. d[n] \in Text
  BY <1>16
<1> QED  BY <1>12, <1>15, <1>17

-----------------------------------------------------------------------------
\* A single digit is worth its value.
LEMMA OneDigit ==
  ASSUME NEW c \in DigitSet
  PROVE  Value(<<c>>) = DigitValue(c)
PROOF
<1>1. <<>> \in Seq(DigitSet)
  BY EmptySeq, Zenon
<1>2. Append(<<>>, c) = <<c>>
  OBVIOUS
<1>3. Value(Append(<<>>, c)) = 10 * Value(<<>>) + DigitValue(c)
  BY <1>1, ValueAppend
<1>4. DigitValue(c) \in Int
  BY DigitsAre
<1> QED  BY <1>2, <1>3, <1>4, ValueEmpty

\* The digits that print_int collects write the number down.
LEMMA DecimalValue ==
  ASSUME NEW n \in Nat
  PROVE  Value(Decimal[n]) = n
PROOF
<1> DEFINE T == {m \in Nat : Value(Decimal[m]) # m}
<1> SUFFICES ASSUME T # {}
             PROVE  FALSE
  OBVIOUS
<1>1. PICK m \in T : \A k \in T : m <= k
  <2>1. T \subseteq Nat
    OBVIOUS
  <2> HIDE DEF T
  <2> QED  BY <2>1, LeastNatural, Zenon
<1>2. m \in Nat /\ Value(Decimal[m]) # m
  BY <1>1
<1>3. CASE m < 10
  <2>1. m \in 0 .. 9
    BY <1>2, <1>3, SMT
  <2>2. Digits[m + 1] \in DigitSet /\ DigitValue(Digits[m + 1]) = m
    BY <2>1, DigitsAre
  <2>3. Decimal[m] = <<Digits[m + 1]>>
    BY <1>2, <1>3, DecimalRecursion
  <2> HIDE DEF Digits
  <2> QED  BY <1>2, <2>2, <2>3, OneDigit
<1>4. CASE m >= 10
  <2> DEFINE k == m \div 10
             d == m % 10
             c == Digits[d + 1]
             s == Decimal[k]
  <2>1. k \in Nat /\ ~(m <= k) /\ d \in 0 .. 9 /\ m = 10 * k + d
    BY <1>2, <1>4, ByTen, SMT
  <2>2. Value(s) = k
    BY <1>1, <2>1
  <2>3. s \in Seq(DigitSet)
    BY <2>1, DecimalRecursion DEF Text
  <2>4. c \in DigitSet /\ DigitValue(c) = d
    BY <2>1, DigitsAre
  <2>5. Decimal[m] = Append(s, c)
    BY <1>2, <1>4, DecimalRecursion
  <2> HIDE DEF s, c, d, k
  <2>6. Value(Append(s, c)) = 10 * k + d
    BY <2>2, <2>3, <2>4, ValueAppend
  <2> QED  BY <1>2, <2>1, <2>5, <2>6
<1>5. m < 10 \/ m >= 10
  BY <1>2, SMT
<1> QED  BY <1>3, <1>4, <1>5

\* The sign is told from the digits.
LEMMA Signed ==
  ASSUME NEW t \in Text
  PROVE  /\ Head(t) # "-"
         /\ Head(<<"-">> \o t) = "-" /\ Tail(<<"-">> \o t) = t
PROOF
<1>1. t \in Seq(DigitSet) /\ t # <<>>
  BY DEF Text
<1>2. Head(t) \in DigitSet
  BY <1>1, HeadTailProperties
<1>3. Head(t) # "-"
  BY <1>2, DigitsAre
<1> DEFINE S == DigitSet \cup {"-"}
           m == <<"-">>
           w == m \o t
<1>4. t \in Seq(S) /\ m \in Seq(S)
  <2>1. t \in Seq(S)
    BY <1>1, SeqMonotonic
  <2>2. <<>> \in Seq(S)
    BY EmptySeq, Zenon
  <2>3. Append(<<>>, "-") \in Seq(S)
    BY <2>2, AppendProperties
  <2>4. Append(<<>>, "-") = m
    OBVIOUS
  <2> QED  BY <2>1, <2>3, <2>4
<1>5. Len(m) = 1 /\ m[1] = "-" /\ Len(t) \in Nat
  BY <1>1, LenProperties
<1> HIDE DEF m
<1>6. /\ w \in Seq(S) /\ Len(w) = Len(m) + Len(t)
      /\ \A i \in 1 .. Len(m) + Len(t) : w[i] = IF i <= Len(m) THEN m[i] ELSE t[i - Len(m)]
  <2> HIDE DEF S
  <2> QED  BY <1>4, ConcatProperties, Zenon
<1>7. Len(w) = 1 + Len(t) /\ w[1] = "-" /\ \A i \in 1 .. Len(t) : w[i + 1] = t[i]
  <2>1. 1 \in 1 .. Len(m) + Len(t) /\ 1 <= Len(m)
    BY <1>5, SMT
  <2>2. w[1] = "-"
    BY <1>5, <1>6, <2>1
  <2>3. ASSUME NEW i \in 1 .. Len(t)
        PROVE  w[i + 1] = t[i]
    <3>1. i + 1 \in 1 .. 1 + Len(t) /\ ~(i + 1 <= 1) /\ (i + 1) - 1 = i
      BY <1>5, SMT
    <3> QED  BY <1>5, <1>6, <3>1
  <2> QED  BY <1>5, <1>6, <2>2, <2>3
<1> HIDE DEF w
<1>8. w # <<>>
  BY <1>5, <1>7
<1>9. Head(w) = "-"
  BY <1>6, <1>7, <1>8
<1>10. /\ Tail(w) \in Seq(S) /\ Len(Tail(w)) = Len(w) - 1
       /\ \A i \in 1 .. Len(Tail(w)) : Tail(w)[i] = w[i + 1]
  <2> HIDE DEF S
  <2> QED  BY <1>6, <1>8, HeadTailProperties
<1>11. Len(Tail(w)) = Len(t)
  BY <1>5, <1>7, <1>10, SMT
<1>12. Tail(w) = t
  <2> HIDE DEF S
  <2>1. \A i \in 1 .. Len(Tail(w)) : Tail(w)[i] = t[i]
    BY <1>7, <1>10, <1>11
  <2> QED  BY <1>4, <1>10, <1>11, <2>1, SeqEqual
<1> QED  BY <1>3, <1>9, <1>12 DEF w, m

\* What print_int shows of an int that is not the smallest is that number
\* (kernel_shell.c:49-67).
THEOREM PrintedIsWritten ==
  ASSUME NEW r \in Ints \ {MIN_INT}, NEW text \in print_int(r)
  PROVE  Written(text) = r
PROOF
<1>1. r \in Int /\ r > MIN_INT
  BY WidthType, SMT DEF Ints
<1>2. CASE r >= 0
  <2>1. text = Decimal[r] /\ r \in Nat
    BY <1>1, <1>2 DEF print_int
  <2>2. Decimal[r] \in Text
    BY <2>1, DecimalRecursion
  <2>3. Head(text) # "-" /\ LeadingDigits(text) = text
    BY <2>1, <2>2, Signed, LeadingType DEF Text
  <2> QED  BY <2>1, <2>3, DecimalValue DEF Written
<1>3. CASE r < 0
  <2>1. -r \in Nat /\ ~(r >= 0)
    BY <1>1, <1>3, SMT
  <2>2. text = <<"-">> \o Decimal[-r]
    BY <1>1, <2>1 DEF print_int
  <2> DEFINE n == -r
  <2>3. r = -n /\ n \in Nat
    BY <1>1, <2>1
  <2> DEFINE t == Decimal[n]
  <2>4. t \in Text
    BY <2>3, DecimalRecursion
  <2>5. text = <<"-">> \o t
    BY <2>2
  <2>6. Value(t) = n
    BY <2>3, DecimalValue
  <2> HIDE DEF t, n
  <2>7. Head(text) = "-" /\ Tail(text) = t
    BY <2>4, <2>5, Signed
  <2>8. LeadingDigits(t) = t
    BY <2>4, LeadingType DEF Text
  <2> QED  BY <2>3, <2>6, <2>7, <2>8 DEF Written
<1>4. r >= 0 \/ r < 0
  BY <1>1, SMT
<1> QED  BY <1>2, <1>3, <1>4

-----------------------------------------------------------------------------
(* Division.                                                                *)

\* A quotient with a rest below the divisor is the quotient.
LEMMA DivIs ==
  ASSUME NEW a \in Nat, NEW b \in Nat \ {0}, NEW p \in Int, NEW m \in 0 .. b - 1,
         a = b * p + m
  PROVE  a \div b = p
PROOF
<1> DEFINE q == a \div b
           k == a % b
<1>1. q \in Int /\ k \in 0 .. b - 1 /\ a = b * q + k
  BY DivMod
<1> HIDE DEF q, k
<1>2. b * q + k = b * p + m
  BY <1>1
<1>3. q = p
  BY <1>1, <1>2, ModUnique
<1> QED  BY <1>3 DEF q

\* The quotient towards zero is the only number that leaves so small a rest.
LEMMA QuotientIs ==
  ASSUME NEW x \in Int, NEW y \in Int, NEW r \in Int, Exact(x, "/", y, r)
  PROVE  Quotient(x, y) = r
PROOF
<1> DEFINE z == r * y
<1>1. /\ y # 0 /\ z \in Int
      /\ z \in (IF x < 0 THEN x .. 0 ELSE 0 .. x)
      /\ x - z \in (IF y < 0 THEN y + 1 .. -y - 1 ELSE -y + 1 .. y - 1)
  BY DEF Exact
<1>2. (-y) * (-r) = z /\ y * r = z /\ (-y) * r = -z /\ y * (-r) = -z
  BY SMT
<1> HIDE DEF z
<1>3. CASE x >= 0 /\ y > 0
  <2>1. x \in Nat /\ y \in Nat \ {0} /\ x - z \in 0 .. y - 1 /\ x = z + (x - z)
    BY <1>1, <1>3, SMT
  <2>2. x \div y = r
    BY <1>2, <2>1, DivIs
  <2>3. ~(x < 0) /\ ~(y < 0)
    BY <1>3, SMT
  <2> QED  BY <2>2, <2>3 DEF Quotient
<1>4. CASE x >= 0 /\ y < 0
  <2>1. x \in Nat /\ -y \in Nat \ {0} /\ -r \in Int /\ x - z \in 0 .. -y - 1 /\ x = z + (x - z)
    BY <1>1, <1>4, SMT
  <2>2. x \div (-y) = -r
    BY <1>2, <2>1, DivIs
  <2>3. ~(x < 0) /\ y < 0 /\ -(-r) = r
    BY <1>4, SMT
  <2> QED  BY <2>2, <2>3 DEF Quotient
<1>5. CASE x < 0 /\ y > 0
  <2>1. -x \in Nat /\ y \in Nat \ {0} /\ -r \in Int /\ z - x \in 0 .. y - 1 /\ -x = -z + (z - x)
    BY <1>1, <1>5, SMT
  <2>2. (-x) \div y = -r
    BY <1>2, <2>1, DivIs
  <2>3. x < 0 /\ ~(y < 0) /\ -(-r) = r
    BY <1>5, SMT
  <2> QED  BY <2>2, <2>3 DEF Quotient
<1>6. CASE x < 0 /\ y < 0
  <2>1. -x \in Nat /\ -y \in Nat \ {0} /\ z - x \in 0 .. -y - 1 /\ -x = -z + (z - x)
    BY <1>1, <1>6, SMT
  <2>2. (-x) \div (-y) = r
    BY <1>2, <2>1, DivIs
  <2>3. x < 0 /\ y < 0
    BY <1>6
  <2> QED  BY <2>2, <2>3 DEF Quotient
<1>7. (x >= 0 \/ x < 0) /\ (y > 0 \/ y < 0)
  BY <1>1, SMT
<1> QED  BY <1>3, <1>4, <1>5, <1>6, <1>7

\* An exact result that is an int is what is computed.
LEMMA ComputedIs ==
  ASSUME NEW x \in Int, NEW y \in Int, NEW op, NEW r \in Ints, Exact(x, op, y, r)
  PROVE  Computed(x, op, y) = r
PROOF
<1>1. Ints \subseteq Int
  BY WidthType, SMT DEF Ints
<1>2. Wrap(r) = r
  BY <1>1, WrapIsInt
<1>3. CASE op = "+"
  BY <1>2, <1>3 DEF Computed, Exact
<1>4. CASE op = "-"
  BY <1>2, <1>4 DEF Computed, Exact
<1>5. CASE op = "*"
  BY <1>2, <1>5 DEF Computed, Exact
<1>6. CASE op = "/"
  BY <1>1, <1>6, QuotientIs DEF Computed
<1>7. op \in {"+", "-", "*", "/"}
  BY DEF Exact
<1> QED  BY <1>3, <1>4, <1>5, <1>6, <1>7

-----------------------------------------------------------------------------
(* The words of a line.                                                     *)

\* Of the elements of a set of indices, there is an n-th one.
LEMMA NthElement ==
  ASSUME NEW m \in Nat, NEW S \in SUBSET (1 .. m)
  PROVE  /\ Cardinality(S) \in Nat
         /\ \A n \in 1 .. Cardinality(S) :
              \E i \in S : Cardinality({j \in S : j <= i}) = n
PROOF
<1> DEFINE Has(t) == \A n \in 1 .. Cardinality(t) :
                       \E i \in t : Cardinality({j \in t : j <= i}) = n
           Z == {t \in SUBSET (1 .. m) : Has(t)}
<1>1. IsFiniteSet(1 .. m)
  <2>1. 1 \in Int /\ m \in Int
    OBVIOUS
  <2> QED  BY <2>1, FS_Interval, Zenon
<1>2. \A t \in SUBSET (1 .. m) : IsFiniteSet(t) /\ Cardinality(t) \in Nat
  BY <1>1, FS_Subset, FS_CardinalityType
<1>3. {} \in Z
  <2>1. Cardinality({}) = 0
    BY FS_EmptySet
  <2>2. 1 .. 0 = {}
    BY SMT
  <2> QED  BY <2>1, <2>2
<1>4. ASSUME NEW t \in SUBSET (1 .. m), t # {}, \A x \in t : t \ {x} \in Z
      PROVE  t \in Z
  <2> DEFINE x == Max(t)
             u == t \ {x}
             c == Cardinality(t)
  <2>1. x \in t /\ \A y \in t : y <= x
    BY <1>4, LargestIndex
  <2>2. Has(u)
    BY <1>4, <2>1
  <2>3. c \in Nat /\ Cardinality(u) = c - 1
    <3>1. IsFiniteSet(t) /\ Cardinality(t) \in Nat
      BY <1>2
    <3> HIDE DEF x
    <3>2. Cardinality(t \ {x}) = Cardinality(t) - 1
      BY <2>1, <3>1, FS_RemoveElement
    <3> QED  BY <3>1, <3>2
  <2> HIDE DEF x
  <2>4. {j \in t : j <= x} = t
    BY <2>1
  <2>5. ASSUME NEW i \in u
        PROVE  {j \in t : j <= i} = {j \in u : j <= i}
    <3>1. i \in 1 .. m /\ x \in 1 .. m /\ i <= x /\ i # x
      BY <2>1
    <3>2. ~(x <= i)
      BY <3>1, SMT
    <3> QED  BY <3>2
  <2>6. ASSUME NEW n \in 1 .. c
        PROVE  \E i \in t : Cardinality({j \in t : j <= i}) = n
    <3>1. CASE n = c
      BY <2>1, <2>4, <3>1
    <3>2. CASE n # c
      <4> HIDE DEF u, c
      <4>1. n \in 1 .. Cardinality(u)
        BY <2>3, <3>2, SMT
      <4>2. PICK i \in u : Cardinality({j \in u : j <= i}) = n
        BY <2>2, <4>1
      <4>3. i \in t
        BY <4>2 DEF u
      <4> QED  BY <2>5, <4>2, <4>3
    <3> QED  BY <3>1, <3>2
  <2> QED  BY <2>6
<1>5. \A t \in SUBSET (1 .. m) : t # {} /\ (\A x \in t : t \ {x} \in Z) => t \in Z
  BY <1>4
<1>6. SUBSET (1 .. m) \subseteq Z
  <2> HIDE DEF Z
  <2> QED  BY <1>1, <1>3, <1>5, SubsetInduction
<1> QED  BY <1>2, <1>6

\* Every word that starts has an end in the line.
LEMMA EndOfWord ==
  ASSUME NEW line \in Seq(STRING), NEW i \in Starts(line)
  PROVE  i \in 1 .. Len(line) /\ End(line, i) \in i .. Len(line)
PROOF
<1>1. Len(line) \in Nat
  BY LenProperties
<1>2. i \in 1 .. Len(line) /\ line[i] # SPACE
  BY DEF Starts
<1> DEFINE stop(j) == j = Len(line) \/ line[j + 1] = SPACE
           T       == {j \in Nat : j \in i .. Len(line) /\ stop(j)}
<1>3. T \subseteq Nat /\ Len(line) \in T
  BY <1>1, <1>2, SMT
<1>4. PICK j \in T : \A k \in T : j <= k
  <2> HIDE DEF T
  <2> QED  BY <1>3, LeastNatural, Zenon
<1>5. j \in i .. Len(line) /\ stop(j)
  BY <1>4
<1>6. ASSUME NEW k \in i .. j
      PROVE  line[k] # SPACE
  <2>1. CASE k = i
    BY <1>2, <2>1
  <2>2. CASE k # i
    <3>1. /\ k - 1 \in Nat /\ k - 1 \in i .. Len(line) /\ k - 1 # Len(line)
          /\ (k - 1) + 1 = k /\ ~(j <= k - 1)
      BY <1>1, <1>2, <1>5, <2>2, SMT
    <3>2. ~stop(k - 1)
      BY <1>4, <3>1
    <3> QED  BY <3>1, <3>2
  <2> QED  BY <2>1, <2>2
<1>7. \E e \in i .. Len(line) : (\A k \in i .. e : line[k] # SPACE) /\ stop(e)
  BY <1>5, <1>6
<1>8. End(line, i) \in i .. Len(line)
  BY <1>7 DEF End
<1> QED  BY <1>2, <1>8

\* tokenize returns words, none of them empty.
LEMMA TokensAreWords ==
  ASSUME NEW argv \in Entered, NEW n \in 1 .. Len(argv)
  PROVE  argv[n] \in Words
PROOF
<1>1. PICK line \in Lines : argv = tokenize(line)
  BY DEF Entered
<1>2. line \in Seq(STRING)
  BY KernelShellAssumption
<1> DEFINE words == Cardinality(Starts(line))
           argc  == IF words > KSHELL_MAX_TOKENS THEN KSHELL_MAX_TOKENS ELSE words
<1>3. Len(line) \in Nat /\ Starts(line) \in SUBSET (1 .. Len(line))
  BY <1>2, LenProperties DEF Starts
<1>4. words \in Nat /\ \A k \in 1 .. words :
        \E i \in Starts(line) : Cardinality({j \in Starts(line) : j <= i}) = k
  BY <1>3, NthElement
<1>5. argc \in Nat /\ argc <= words
  BY <1>4, KernelShellAssumption, SMT
<1>6. argv = [k \in 1 .. argc |-> SubSeq(line, Start(line, k), End(line, Start(line, k)))]
  BY <1>1 DEF tokenize
<1> HIDE DEF argc, words
<1>7. Len(argv) = argc
  BY <1>5, <1>6
<1> DEFINE i == Start(line, n)
           e == End(line, i)
<1>8. argv[n] = SubSeq(line, i, e)
  BY <1>6, <1>7
<1>9. n \in 1 .. words
  BY <1>4, <1>5, <1>7, SMT
<1>10. i \in Starts(line)
  BY <1>4, <1>9 DEF Start
<1> HIDE DEF i, e
<1>11. i \in 1 .. Len(line) /\ e \in i .. Len(line)
  BY <1>2, <1>10, EndOfWord DEF e
<1>12. i \in Int /\ e \in Int /\ i <= e /\ \A k \in i .. e : k \in 1 .. Len(line)
  BY <1>3, <1>11, SMT
<1>13. \A k \in i .. e : line[k] \in STRING
  BY <1>2, <1>12, ElementOfSeq
<1>14. SubSeq(line, i, e) \in Seq(STRING) /\ Len(SubSeq(line, i, e)) = e - i + 1
  BY <1>12, <1>13, SubSeqProperties
<1>15. SubSeq(line, i, e) # <<>>
  BY <1>12, <1>14, SMT
<1> QED  BY <1>8, <1>14, <1>15 DEF Words

-----------------------------------------------------------------------------
(* What calc answers.                                                       *)

\* What is the case of an answer of calc to some line.
Answered(kind, argv, text) ==
  LET x  == katoi(argv[2])
      y  == katoi(argv[4])
      op == argv[3][1]
  IN  /\ argv[2] \in Words /\ argv[4] \in Words
      /\ \/ /\ kind = "result"
            /\ op \in {"+", "-", "*"} \/ (op = "/" /\ y # 0)
            /\ text \in print_int(Computed(x, op, y))
         \/ kind = "math_error" /\ op = "/" /\ y = 0
         \/ kind = "fault" /\ op = "/" /\ y # 0 /\ Faults(x, y)

CalcAnswered ==
  reply.kind \in {"result", "math_error", "fault"} =>
    Answered(reply.kind, reply.argv, reply.text)

\* calc's answers are those of the operands as katoi reads them.
LEMMA CalcAnswers ==
  ASSUME NEW argv \in Entered, cmd_calc(argv)
  PROVE  CalcAnswered'
PROOF
<1> USE DEF Calculated, Reply
<1>1. CASE Len(argv) < 4
  <2>1. Message
    BY <1>1 DEF cmd_calc
  <2> QED  BY <2>1 DEF Message, Answers, CalcAnswered
<1>2. CASE ~(Len(argv) < 4)
  <2> DEFINE x  == katoi(argv[2])
             y  == katoi(argv[4])
             op == argv[3][1]
  <2>1. argv[2] \in Words /\ argv[4] \in Words
    <3>1. Len(argv) \in Nat
      BY TokensAreWords
    <3>2. 2 \in 1 .. Len(argv) /\ 4 \in 1 .. Len(argv)
      BY <1>2, <3>1, SMT
    <3> QED  BY <3>2, TokensAreWords
  <2>2. \/ /\ op \in {"+", "-", "*"} \/ (Division(op, y) /\ ~Faults(x, y))
           /\ \E text \in print_int(Computed(x, op, y)) :
                Calculated(argv, "result", text)
        \/ /\ Division(op, y) /\ Faults(x, y)
           /\ Calculated(argv, "fault", <<>>)
        \/ /\ op = "/" /\ ~Division(op, y)
           /\ Calculated(argv, "math_error", <<>>)
        \/ /\ op \notin {"+", "-", "*", "/"}
           /\ Message
    BY <1>2, Zenon DEF cmd_calc
  <2>3. ASSUME op \in {"+", "-", "*"} \/ (Division(op, y) /\ ~Faults(x, y)),
               NEW text \in print_int(Computed(x, op, y)),
               Calculated(argv, "result", text)
        PROVE  CalcAnswered'
    <3>1. reply'.kind = "result" /\ reply'.argv = argv /\ reply'.text = text
      BY <2>3
    <3>2. Answered("result", argv, text)
      BY <2>1, <2>3, Zenon DEF Answered, Division
    <3> QED  BY <3>1, <3>2 DEF CalcAnswered
  <2>4. ASSUME Division(op, y), Faults(x, y), Calculated(argv, "fault", <<>>)
        PROVE  CalcAnswered'
    <3>1. reply'.kind = "fault" /\ reply'.argv = argv /\ reply'.text = <<>>
      BY <2>4
    <3>2. Answered("fault", argv, <<>>)
      BY <2>1, <2>4, Zenon DEF Answered, Division
    <3> QED  BY <3>1, <3>2 DEF CalcAnswered
  <2>5. ASSUME op = "/", ~Division(op, y), Calculated(argv, "math_error", <<>>)
        PROVE  CalcAnswered'
    <3>1. reply'.kind = "math_error" /\ reply'.argv = argv /\ reply'.text = <<>>
      BY <2>5
    <3>2. Answered("math_error", argv, <<>>)
      BY <2>1, <2>5, Zenon DEF Answered, Division
    <3> QED  BY <3>1, <3>2 DEF CalcAnswered
  <2>6. ASSUME Message
        PROVE  CalcAnswered'
    BY <2>6 DEF Message, Answers, CalcAnswered
  <2> HIDE DEF x, y, op
  <2> QED  BY <2>2, <2>3, <2>4, <2>5, <2>6
<1> QED  BY <1>1, <1>2

\* No other command leaves an answer of calc.
LEMMA OthersDoNotCalculate ==
  ASSUME NEW argv,
         \/ Message \/ cmd_mkproc(argv) \/ cmd_mkthr(argv) \/ cmd_policy(argv)
         \/ cmd_sched(argv) \/ Answers("list", process_dump_all)
  PROVE  CalcAnswered'
PROOF
<1>1. CASE Message
  BY <1>1 DEF Message, Answers, Reply, CalcAnswered
<1>2. CASE cmd_mkproc(argv)
  <2>1. \E text : reply' = Reply("created", <<text>>)
    BY <1>2 DEF cmd_mkproc
  <2> QED  BY <2>1 DEF Reply, CalcAnswered
<1>3. CASE cmd_mkthr(argv)
  <2>1. Message \/ \E text, under : reply' = Reply("created", <<text, under>>)
    BY <1>3, Zenon DEF cmd_mkthr
  <2> QED  BY <2>1 DEF Message, Answers, Reply, CalcAnswered
<1>4. CASE cmd_policy(argv)
  <2>1. Message \/ \E text : reply' = Reply("policy", text)
    BY <1>4, Zenon DEF cmd_policy, Answers
  <2> QED  BY <2>1 DEF Message, Answers, Reply, CalcAnswered
<1>5. CASE cmd_sched(argv)
  <2>1. reply' = Reply("scheduling", <<>>)
    BY <1>5 DEF cmd_sched
  <2> QED  BY <2>1 DEF Reply, CalcAnswered
<1>6. CASE Answers("list", process_dump_all)
  BY <1>6 DEF Answers, Reply, CalcAnswered
<1> QED  BY <1>1, <1>2, <1>3, <1>4, <1>5, <1>6

\* So the last answer of calc is one, whatever happened before.
LEMMA CalcAnsweredInvariance == ShellSpec => []CalcAnswered
PROOF
<1>1. ShellInit => CalcAnswered
  BY DEF ShellInit, Reply, CalcAnswered
<1>2. CalcAnswered /\ [ShellNext]_shellVars => CalcAnswered'
  <2> SUFFICES ASSUME CalcAnswered, [ShellNext]_shellVars
               PROVE  CalcAnswered'
    OBVIOUS
  <2>1. ASSUME NEW argv \in Entered, execute_line(argv)
        PROVE  CalcAnswered'
    <3>1. \/ cmd_calc(argv)
          \/ Message \/ cmd_mkproc(argv) \/ cmd_mkthr(argv) \/ cmd_policy(argv)
          \/ cmd_sched(argv) \/ Answers("list", process_dump_all)
      BY <2>1, Zenon DEF execute_line
    <3> QED  BY <3>1, CalcAnswers, OthersDoNotCalculate
  <2>2. ASSUME sched_step
        PROVE  CalcAnswered'
    <3>1. reply' = reply \/ \E text : reply' = Reply("figures", text)
      BY <2>2, Zenon DEF sched_step
    <3> QED  BY <3>1 DEF Reply, CalcAnswered
  <2>3. ASSUME UNCHANGED shellVars
        PROVE  CalcAnswered'
    BY <2>3 DEF shellVars, CalcAnswered
  <2> QED  BY <2>1, <2>2, <2>3 DEF ShellNext
<1> QED  BY <1>1, <1>2, PTL DEF ShellSpec

\* What calc prints of two ints is their exact result, rounded towards zero,
\* and Math Error means a zero divisor (kernel_shell.c:134-163), for every width
\* of int and every line.
THEOREM CalcExact == ShellSpec => []CalcRight
PROOF
<1>1. CalcAnswered => CalcRight
  <2> DEFINE x  == Written(reply.argv[2])
             y  == Written(reply.argv[4])
             op == reply.argv[3][1]
  <2> SUFFICES ASSUME CalcAnswered, reply.kind \in {"result", "math_error"},
                      x \in Ints, y \in Ints
               PROVE  /\ reply.kind = "math_error" <=> (op = "/" /\ y = 0)
                      /\ \A r \in Ints \ {MIN_INT} :
                           Exact(x, op, y, r) => Written(reply.text) = r
    BY Zenon DEF CalcRight
  <2>1. Answered(reply.kind, reply.argv, reply.text)
    BY DEF CalcAnswered
  <2>2. reply.argv[2] \in Words /\ reply.argv[4] \in Words
    BY <2>1 DEF Answered
  <2>3. /\ x \in Int /\ katoi(reply.argv[2]) = x
        /\ y \in Int /\ katoi(reply.argv[4]) = y
    <3>1. x \in Int /\ katoi(reply.argv[2]) = Wrap(x)
      BY <2>2, KatoiReads
    <3>2. y \in Int /\ katoi(reply.argv[4]) = Wrap(y)
      BY <2>2, KatoiReads
    <3> HIDE DEF x, y
    <3> QED  BY <3>1, <3>2, WrapIsInt
  <2>4. \/ /\ reply.kind = "result"
           /\ op \in {"+", "-", "*"} \/ (op = "/" /\ y # 0)
           /\ reply.text \in print_int(Computed(x, op, y))
        \/ reply.kind = "math_error" /\ op = "/" /\ y = 0
    <3> HIDE DEF x, y
    <3> QED  BY <2>1, <2>3 DEF Answered
  <2> HIDE DEF x, y, op
  <2>5. reply.kind = "math_error" <=> (op = "/" /\ y = 0)
    BY <2>4
  <2>6. ASSUME NEW r \in Ints \ {MIN_INT}, Exact(x, op, y, r)
        PROVE  Written(reply.text) = r
    <3>1. reply.kind = "result"
      BY <2>4, <2>6 DEF Exact
    <3>2. Computed(x, op, y) = r
      BY <2>3, <2>6, ComputedIs
    <3>3. reply.text \in print_int(r)
      BY <2>4, <3>1, <3>2
    <3> QED  BY <3>3, PrintedIsWritten
  <2> QED  BY <2>5, <2>6
<1> QED  BY <1>1, CalcAnsweredInvariance, PTL

\* The one division that reaches the processor's exception is that of the
\* smallest int by -1 (kernel_shell.c:150-154).
THEOREM FaultOfMinByMinusOne == ShellSpec => []FaultOnlyAtMin
PROOF
<1>1. ASSUME NEW v \in Int, NEW r \in Ints, Wrap(v) = r
      PROVE  (v - MIN_INT) % (2 * (IntMax + 1)) = r - MIN_INT
  <2> DEFINE m == (v - MIN_INT) % Width
  <2>1. Wrap(v) = m + MIN_INT /\ v - MIN_INT \in Int
    BY WidthType
  <2>2. m \in Int
    BY <2>1, WidthType, DivMod
  <2>3. (v - MIN_INT) % (2 * (IntMax + 1)) = m
    BY DEF Width
  <2> HIDE DEF m
  <2>4. m = r - MIN_INT
    BY <1>1, <2>1, <2>2, WidthType
  <2> QED  BY <2>3, <2>4
<1>2. ASSUME NEW v \in Int, Wrap(v) = -1
      PROVE  (v + 1) % (2 * (IntMax + 1)) = 0
  <2>1. -1 \in Ints /\ MIN_INT \in Int /\ IntMax \in Int /\ MIN_INT = -IntMax - 1
    BY KernelShellAssumption, SMT DEF Ints, MIN_INT
  <2> DEFINE a == v - MIN_INT
             q == a \div Width
             b == v + 1
             p == b \div Width
             s == b % Width
  <2>2. a % Width = IntMax
    <3>1. (v - MIN_INT) % (2 * (IntMax + 1)) = (-1) - MIN_INT
      BY <1>1, <1>2, <2>1
    <3>2. (-1) - MIN_INT = IntMax
      BY <2>1, SMT
    <3> QED  BY <3>1, <3>2 DEF Width
  <2>3. a \in Int /\ b \in Int
    BY <2>1
  <2>4. q \in Int /\ a = Width * q + IntMax
    <3> HIDE DEF a
    <3> QED  BY <2>2, <2>3, WidthType, DivMod
  <2>5. p \in Int /\ s \in 0 .. Width - 1 /\ b = Width * p + s
    <3> HIDE DEF b
    <3> QED  BY <2>3, WidthType, DivMod
  <2> HIDE DEF q, p, s
  <2>6. Width * q \in Int /\ Width * q + 0 = Width * p + s
    <3>1. Width * q \in Int /\ Width * p \in Int
      BY <2>4, <2>5, WidthType
    <3>2. s \in Int
      BY <2>5, WidthType
    <3> QED  BY <2>1, <2>4, <2>5, <3>1, <3>2, SMT
  <2>7. 0 \in 0 .. Width - 1
    BY WidthType
  <2>8. s = 0
    <3>1. Width \in Nat \ {0} /\ q \in Int /\ p \in Int
      BY <2>4, <2>5, WidthType
    <3>2. \A r0, s0 \in 0 .. Width - 1 : Width * q + r0 = Width * p + s0 => r0 = s0
      BY <3>1, ModUnique, Zenon
    <3>3. 0 = s
      BY <2>5, <2>6, <2>7, <3>2, Zenon
    <3> QED  BY <3>3
  <2> QED  BY <2>8 DEF s, Width
<1>3. CalcAnswered => FaultOnlyAtMin
  <2> DEFINE x  == Written(reply.argv[2])
             y  == Written(reply.argv[4])
  <2> SUFFICES ASSUME CalcAnswered, reply.kind = "fault"
               PROVE  /\ reply.argv[3][1] = "/"
                      /\ (x - MIN_INT) % (2 * (IntMax + 1)) = 0
                      /\ (y + 1) % (2 * (IntMax + 1)) = 0
    BY Zenon DEF FaultOnlyAtMin
  <2>1. Answered(reply.kind, reply.argv, reply.text)
    BY DEF CalcAnswered
  <2>2. reply.argv[2] \in Words /\ reply.argv[4] \in Words
    BY <2>1 DEF Answered
  <2>3. /\ x \in Int /\ katoi(reply.argv[2]) = Wrap(x)
        /\ y \in Int /\ katoi(reply.argv[4]) = Wrap(y)
    BY <2>2, KatoiReads
  <2> HIDE DEF x, y
  <2>4. reply.argv[3][1] = "/" /\ Wrap(x) = MIN_INT /\ Wrap(y) = -1
    BY <2>1, <2>3 DEF Answered, Faults
  <2>5. MIN_INT \in Ints /\ MIN_INT - MIN_INT = 0
    BY WidthType, KernelShellAssumption, SMT DEF Ints
  <2> QED  BY <1>1, <1>2, <2>3, <2>4, <2>5
<1> QED  BY <1>3, CalcAnsweredInvariance, PTL
-----------------------------------------------------------------------------
(* The shell in front of the table.                                         *)

\* A number on the line, or its default, is an int.
LEMMA NumberIsInt ==
  ASSUME NEW argv \in Entered, NEW n \in Nat \ {0}, NEW default \in Ints
  PROVE  Number(argv, n, default) \in Ints
<1>1. CASE Len(argv) >= n
  <2>1. Len(argv) \in Nat
    BY TokensAreWords
  <2>2. argv[n] \in Words
    BY <1>1, <2>1, TokensAreWords
  <2>3. katoi(argv[n]) \in Ints
    BY <2>2, KatoiReads, WrapIsInt
  <2>. QED BY <1>1, <2>3 DEF Number
<1>2. CASE ~(Len(argv) >= n)
  BY <1>2 DEF Number
<1>. QED BY <1>1, <1>2

\* The small numbers are ints and so are those the commands make of an int.
LEMMA LimitedIsInt ==
  /\ 5 \in Ints /\ 3 \in Ints
  /\ \A x \in Ints : AtLeast1(x) \in Ints /\ AtLeast1(x) >= 1
  /\ \A x \in Ints : SchedTimes(x) \in 1 .. SCHED_MAX
BY KernelShellAssumption, SMT DEF Ints, MIN_INT, AtLeast1, SchedTimes

\* What mkproc and mkthr pass on as a burst is a positive int.
LEMMA BurstIsInt ==
  ASSUME NEW argv \in Entered, NEW n \in Nat \ {0}, NEW default \in {3, 5}
  PROVE  /\ Burst(argv, n, default) \in Ints \ {MIN_INT}
         /\ Burst(argv, n, default) >= 1
<1>1. default \in Ints
  BY LimitedIsInt
<1>2. Number(argv, n, default) \in Ints
  BY <1>1, NumberIsInt
<1>3. Burst(argv, n, default) \in Ints /\ Burst(argv, n, default) >= 1
  BY <1>2, LimitedIsInt DEF Burst
<1>4. ~(MIN_INT >= 1)
  BY KernelShellAssumption, SMT DEF MIN_INT
<1>. QED BY <1>3, <1>4

\* The parent that mkthr passes on is an int.
LEMMA ParentIsInt ==
  ASSUME NEW argv \in Entered, Len(argv) >= 2
  PROVE  katoi(argv[2]) \in Ints
<1>1. 5 \in Ints /\ 2 \in Nat \ {0}
  BY LimitedIsInt
<1>. QED BY <1>1, NumberIsInt DEF Number

\* What a command asks of the process table is one of its operations.
LEMMA CommandIsOperation ==
  ASSUME NEW argv \in Entered, execute_line(argv)
  PROVE  Next \/ UNCHANGED vars
<1>1. CASE Message
  BY <1>1, Zenon DEF Message, Answers
<1>2. CASE cmd_calc(argv)
  BY <1>2, Zenon DEF cmd_calc, Calculated, Message, Answers
<1>. /\ 2 \in Nat \ {0} /\ 3 \in Nat \ {0} /\ 5 \in {3, 5} /\ 3 \in {3, 5}
     /\ dummy_process \in Funcs /\ \A x \in Ints : x \in Bursts /\ x \in ParentPids
  BY KernelShellAssumption
<1>3. CASE cmd_mkproc(argv)
  <2>1. create_process_burst(dummy_process, Burst(argv, 2, 5))
    BY <1>3, Zenon DEF cmd_mkproc
  <2>2. Burst(argv, 2, 5) \in Bursts
    BY BurstIsInt
  <2>. QED BY <2>1, <2>2, Zenon DEF Next
<1>4. CASE cmd_mkthr(argv)
  <2>1. CASE Message
    BY <2>1, Zenon DEF Message, Answers
  <2>2. CASE ~Message
    <3>1. /\ Len(argv) >= 2
          /\ create_thread(dummy_process, katoi(argv[2]), Burst(argv, 3, 3))
      BY <1>4, <2>2, Zenon DEF cmd_mkthr
    <3>2. Burst(argv, 3, 3) \in Bursts /\ katoi(argv[2]) \in ParentPids
      BY <3>1, BurstIsInt, ParentIsInt
    <3>. QED BY <3>1, <3>2, Zenon DEF Next
  <2>. QED BY <2>1, <2>2
<1>5. CASE cmd_policy(argv)
  <2>1. \/ UNCHANGED vars
        \/ process_set_policy("RR")
        \/ process_set_policy("SRTF")
    BY <1>5, Zenon DEF cmd_policy, Message, Answers
  <2>2. "RR" \in SchedPolicy \cup {"other"} /\ "SRTF" \in SchedPolicy \cup {"other"}
    BY DEF SchedPolicy
  <2>. QED BY <2>1, <2>2, Zenon DEF Next
<1>6. CASE cmd_sched(argv)
  <2>1. process_schedule_times(SchedTimes(Number(argv, 2, 5)))
    BY <1>6, Zenon DEF cmd_sched
  <2>2. Number(argv, 2, 5) \in Ints
    BY NumberIsInt, LimitedIsInt
  <2>3. SchedTimes(Number(argv, 2, 5)) \in Batches
    BY <2>2, LimitedIsInt, KernelShellAssumption, Zenon
  <2>. QED BY <2>1, <2>3, Zenon DEF Next
<1>7. CASE Answers("list", process_dump_all)
  BY <1>7, Zenon DEF Answers
<1>. QED BY <1>1, <1>2, <1>3, <1>4, <1>5, <1>6, <1>7, Zenon DEF execute_line

\* Every step of the shell is one of the process table or leaves it alone.
LEMMA ShellStep == [ShellNext]_shellVars => [Next]_vars
<1>1. ASSUME ShellNext PROVE [Next]_vars
  <2>1. CASE sched_step
    BY <2>1, Zenon DEF sched_step, Next
  <2>2. CASE \E argv \in Entered : execute_line(argv)
    BY <2>2, CommandIsOperation, Zenon
  <2>. QED BY <1>1, <2>1, <2>2, Zenon DEF ShellNext
<1>2. ASSUME UNCHANGED shellVars PROVE UNCHANGED vars
  BY <1>2, Zenon DEF shellVars
<1>. QED BY <1>1, <1>2

\* The shell uses the process table as its specification says: what is true of
\* Process is true behind the shell, whatever lines are typed.
LEMMA ShellRunsProcess == ShellSpec => Spec
<1>1. ShellInit => Init
  BY DEF ShellInit
<1>. QED BY <1>1, ShellStep, PTL DEF ShellSpec, Spec

\* So behind the shell no process completes early or lingers, and the running
\* one is known (process.c:91-140).
THEOREM BehindTheShell == ShellSpec => [](RunningIsCurrent /\ LiveHasWork)
BY ShellRunsProcess, OneRunner, WorkIsLeft, PTL

-----------------------------------------------------------------------------
(* The figures the shell prints.                                            *)

\* Every entry handed out is live or counted as completed; the shell never
\* clears the figures.
Tally == Cardinality(Live) + stat_completed_tasks = process_count

\* Nothing is added while a batch runs, so old figures stay true.
Reported == FiguresAgree /\ (batch_left > 0 => reply.kind = "scheduling")

\* The processes that live are finitely many.
LEMMA LiveFinite ==
  ASSUME IInv
  PROVE  /\ Live \subseteq UsedSlots /\ IsFiniteSet(Live)
         /\ Cardinality(Live) \in Nat
         /\ stat_completed_tasks \in Nat /\ process_count \in Nat
<1>1. process_count \in Nat /\ stat_completed_tasks \in Nat
  BY ProcessAssumption, SMT DEF IInv, TypeOK
<1>2. IsFiniteSet(UsedSlots)
  BY <1>1, FS_Interval, SMT DEF UsedSlots
<1>3. Live \subseteq UsedSlots
  BY DEF Live
<1>. QED BY <1>1, <1>2, <1>3, FS_Subset, FS_CardinalityType

\* The listing shows each live process once, as a process or as a thread.
LEMMA ListingIsLive ==
  ASSUME IInv
  PROVE  Listed(process_dump_all) = Cardinality(Live)
<1>. DEFINE P == {i \in Live : process_table[i].is_thread = FALSE}
            T == {i \in Live : process_table[i].is_thread = TRUE}
<1>1. P \cup T = Live
  <2>1. \A i \in Live : process_table[i].is_thread \in BOOLEAN
    <3>1. \A i \in Live : i \in Slots
      BY LiveFinite, ProcessAssumption, SMT DEF IInv, TypeOK, UsedSlots, Slots
    <3>2. \A i \in Slots : process_table[i] \in PCB
      BY DEF IInv, TypeOK
    <3>. QED BY <3>1, <3>2 DEF PCB
  <2>. QED BY <2>1, Zenon
<1>2. P \cap T = {}
  OBVIOUS
<1>3. /\ IsFiniteSet(P) /\ IsFiniteSet(T)
      /\ Cardinality(P) \in Nat /\ Cardinality(T) \in Nat
  <2>1. P \in SUBSET Live /\ T \in SUBSET Live
    OBVIOUS
  <2>. QED BY <2>1, LiveFinite, FS_Subset, FS_CardinalityType
<1>4. Cardinality(P \cup T) = Cardinality(P) + Cardinality(T)
  <2>1. Cardinality(P \cap T) = 0
    BY <1>2, FS_EmptySet
  <2>2. Cardinality(P \cup T) = Cardinality(P) + Cardinality(T) - Cardinality(P \cap T)
    BY <1>3, FS_Union
  <2>. QED BY <1>3, <2>1, <2>2, SMT
<1>5. CASE Live = {}
  <2>1. Cardinality(Live) = 0
    BY <1>5, FS_EmptySet
  <2>. QED BY <1>5, <2>1 DEF Listed, Counts, process_dump_all
<1>6. CASE Live # {}
  <2>1. process_dump_all = <<[process |-> Cardinality(P), thread |-> Cardinality(T)]>>
    BY <1>6 DEF Counts, process_dump_all
  <2>. HIDE DEF P, T
  <2>2. Listed(process_dump_all) = Cardinality(P) + Cardinality(T)
    BY <2>1 DEF Listed
  <2>. QED BY <1>1, <1>4, <2>2
<1>. QED BY <1>5, <1>6

ShowsNow ==
  \/ reply.kind = "list" /\ reply.text = process_dump_all
  \/ /\ reply.kind = "figures"
     /\ reply.text.list = process_dump_all /\ reply.text.completed = stat_completed_tasks

\* What is listed adds up because the table does.
LEMMA TallyIsShown == IInv /\ Tally /\ ShowsNow => FiguresAgree
<1>. SUFFICES ASSUME IInv, Tally, ShowsNow PROVE FiguresAgree
  OBVIOUS
<1>1. Listed(process_dump_all) + stat_completed_tasks = process_count
  BY ListingIsLive DEF Tally
<1>. QED BY <1>1, Zenon DEF FiguresAgree, ShowsNow

\* A call of schedule() takes the process that completes from the live ones,
\* and nothing else.
LEMMA LiveAfter ==
  ASSUME IInv, ScheduleIteration
  PROVE  Live' = IF CurrentCompletes THEN Live \ {current_index} ELSE Live
<1>1. \A i \in UsedSlots :
        /\ process_table[i].state \in ProcessState
        /\ i # current_index => process_table[i].state # "RUNNING"
        /\ process_table[i].state # "WAITING"
  BY ProcessAssumption, SMT
  DEF IInv, TypeOK, RunningIsCurrent, LiveHasWork, PCB, UsedSlots, Slots
<1>2. ASSUME NEW i \in UsedSlots, ~(i = current_index /\ CurrentRuns)
      PROVE  i \in Ready <=> process_table[i].state # "UNUSED"
  <2>1. TickedTable[i] = process_table[i]
    BY <1>2, ProcessAssumption, SMT
    DEF TickedTable, IInv, TypeOK, CurrentRuns, UsedSlots, Slots
  <2>2. process_table[i].state \in {"READY", "UNUSED"}
    <3>1. process_table[i].state # "RUNNING"
      BY <1>1, <1>2 DEF CurrentRuns
    <3>. QED BY <1>1, <3>1 DEF ProcessState
  <2>. QED BY <1>2, <2>1, <2>2 DEF Ready
<1>3. ASSUME CurrentRuns
      PROVE  current_index \in Ready <=> ~CurrentCompletes
  <2>1. /\ current_index \in UsedSlots /\ current_index \in Slots
        /\ process_table[current_index] \in PCB
        /\ process_table[current_index].state = "RUNNING"
        /\ process_table[current_index].remaining_ticks > 0
    <3>1. current_index \in UsedSlots /\ current_index \in Slots
      BY <1>3, ProcessAssumption, SMT DEF CurrentRuns, IInv, TypeOK, UsedSlots, Slots
    <3>2. process_table[current_index] \in PCB
      BY <3>1 DEF IInv, TypeOK
    <3>. QED BY <1>3, <3>1, <3>2, SMT DEF CurrentRuns, IInv, LiveHasWork, PCB
  <2>2. LET q == demote_running(run_current_tick(process_table[current_index]))
        IN  /\ q.state \in {"READY", "UNUSED"}
            /\ run_current_tick(process_table[current_index]).state = "UNUSED"
                 <=> q.state = "UNUSED"
    BY <2>1, TickOfRunning, Zenon
  <2>3. TickedTable[current_index]
          = demote_running(run_current_tick(process_table[current_index]))
    BY <1>3, <2>1 DEF TickedTable, IInv, TypeOK
  <2>. QED BY <1>3, <2>1, <2>2, <2>3, Zenon DEF Ready, CurrentCompletes
<1>4. Live' = Ready
  BY ElectsIfAny
<1>5. CurrentCompletes => CurrentRuns
  BY DEF CurrentCompletes
<1>6. CurrentRuns => current_index \in Live
  BY DEF CurrentRuns, Live
<1>7. Ready \subseteq UsedSlots /\ Live \subseteq UsedSlots
  BY DEF Ready, Live
<1>8. \A i \in UsedSlots : i \in Live <=> process_table[i].state # "UNUSED"
  BY DEF Live
<1>9. CASE CurrentCompletes
  <2>1. \A i : i \in Ready <=> i \in Live /\ i # current_index
    BY <1>2, <1>3, <1>5, <1>7, <1>8, <1>9, Zenon
  <2>. QED BY <1>4, <1>9, <2>1
<1>10. CASE ~CurrentCompletes
  <2>1. \A i : i \in Ready <=> i \in Live
    BY <1>2, <1>3, <1>6, <1>7, <1>8, <1>10, Zenon
  <2>. QED BY <1>4, <1>10, <2>1
<1>. QED BY <1>9, <1>10

\* schedule() keeps the tally, and the count of the completed ones cannot wrap:
\* there are no more of them than entries.
LEMMA ScheduleKeepsTally ==
  ASSUME IInv, Tally, ScheduleIteration
  PROVE  Tally'
<1>1. CurrentCompletes => current_index \in Live
  BY DEF CurrentCompletes, CurrentRuns, Live
<1>2. Cardinality(Live') = IF CurrentCompletes THEN Cardinality(Live) - 1 ELSE Cardinality(Live)
  BY <1>1, LiveAfter, LiveFinite, FS_RemoveElement
<1>3. CurrentCompletes => Cardinality(Live) > 0
  <2>1. Cardinality(Live') \in Nat
    <3>1. IsFiniteSet(Live')
      BY LiveAfter, LiveFinite, FS_RemoveElement
    <3>. QED BY <3>1, FS_CardinalityType
  <2>. QED BY <1>2, <2>1, LiveFinite, SMT
<1>4. CurrentCompletes => Bump(stat_completed_tasks) = stat_completed_tasks + 1
  <2>1. CurrentCompletes => stat_completed_tasks < StatModulus - 1
    BY <1>3, LiveFinite, ProcessAssumption, KernelShellAssumption, SMT DEF Tally, IInv, TypeOK
  <2>. QED BY <2>1, BumpInRange, SMT DEF IInv, TypeOK
<1>5. /\ stat_completed_tasks' = IF CurrentCompletes THEN stat_completed_tasks + 1
                                                    ELSE stat_completed_tasks
      /\ UNCHANGED process_count
  BY <1>4 DEF ScheduleIteration, schedule
<1>. QED BY <1>2, <1>5, LiveFinite, SMT DEF Tally

\* A new entry keeps the tally.
LEMMA CreationKeepsTally ==
  ASSUME IInv, Tally, NEW func, NEW pcb, pcb.state = "READY", AddEntry(func, pcb)
  PROVE  Tally'
<1>1. UNCHANGED <<stat_schedule_calls, stat_context_switches, stat_completed_tasks,
                  current_index>>
  BY DEF AddEntry, statVars
<1>2. CASE UNCHANGED tableVars
  <2>1. Live' = Live /\ process_count' = process_count
    BY <1>2 DEF tableVars, Live, UsedSlots
  <2>. QED BY <1>1, <2>1 DEF Tally
<1>3. CASE /\ process_count < MAX_PROCESSES
           /\ process_count' = process_count + 1
           /\ process_table' = [process_table EXCEPT ![process_count] = pcb]
  <2>1. process_count \in Nat /\ process_count \in Slots
    BY <1>3, ProcessAssumption, SMT DEF IInv, TypeOK, Slots
  <2>2. UsedSlots' = UsedSlots \cup {process_count} /\ process_count \notin UsedSlots
    BY <1>3, <2>1, SMT DEF UsedSlots
  <2>3. /\ process_table'[process_count].state = "READY"
        /\ \A i \in UsedSlots : process_table'[i] = process_table[i]
    BY <1>3, <2>1, <2>2, SMT DEF IInv, TypeOK, UsedSlots, Slots
  <2>4. Live' = Live \cup {process_count} /\ process_count \notin Live
    BY <2>2, <2>3 DEF Live
  <2>5. Cardinality(Live') = Cardinality(Live) + 1
    BY <2>4, LiveFinite, FS_AddElement
  <2>. QED BY <1>1, <1>3, <2>5, LiveFinite, SMT DEF Tally
<1>. QED BY <1>2, <1>3 DEF AddEntry

\* Every step of the shell keeps the tally.
LEMMA StepKeepsTally ==
  IInv /\ Tally /\ Reported /\ [ShellNext]_shellVars => Tally' /\ Reported'
<1>1. ASSUME IInv, Tally, UNCHANGED vars PROVE Tally'
  BY <1>1, Zenon DEF Tally, Live, UsedSlots, vars, tableVars, statVars
<1>2. ASSUME IInv, Tally, Reported, sched_step PROVE Tally' /\ Reported'
  <2>1. Tally' /\ IInv'
    BY <1>2, ScheduleKeepsTally, ScheduleIInv DEF sched_step
  <2>2. batch_left \in Nat /\ batch_left > 0 /\ batch_left' = batch_left - 1
        /\ UNCHANGED process_count
    BY <1>2, SMT DEF sched_step, ScheduleIteration, schedule, IInv, TypeOK
  <2>3. CASE batch_left = 1
    <3>1. ShowsNow'
      BY <1>2, <2>3 DEF sched_step, Reply, ShowsNow
    <3>2. FiguresAgree'
      BY <2>1, <3>1, TallyIsShown, PTL
    <3>. QED BY <2>1, <2>2, <2>3, <3>2, SMT DEF Reported
  <2>4. CASE batch_left # 1
    <3>1. reply' = reply /\ reply.kind = "scheduling"
      BY <1>2, <2>2, <2>4 DEF sched_step, Reported
    <3>. QED BY <2>1, <3>1 DEF Reported, FiguresAgree
  <2>. QED BY <2>3, <2>4
<1>3. ASSUME IInv, Tally, batch_left = 0, NEW argv \in Entered, execute_line(argv)
      PROVE  Tally' /\ Reported'
  <2>1. CASE cmd_mkproc(argv)
    <3>. DEFINE burst == Burst(argv, 2, 5)
    <3>1. /\ AddEntry(dummy_process, NewPcb(FALSE, 0, burst))
          /\ \E text : reply' = Reply("created", text)
      BY <2>1, Zenon DEF cmd_mkproc, create_process_burst
    <3>2. NewPcb(FALSE, 0, burst).state = "READY"
      BY DEF NewPcb
    <3>3. Tally'
      BY <1>3, <3>1, <3>2, CreationKeepsTally, Zenon
    <3>4. reply'.kind = "created" /\ batch_left' = 0
      BY <1>3, <3>1 DEF Reply, AddEntry
    <3>. QED BY <3>3, <3>4 DEF Reported, FiguresAgree
  <2>2. ASSUME NEW parent, NEW burst, NEW text,
               create_thread(dummy_process, parent, burst), reply' = Reply("created", text)
        PROVE  Tally' /\ Reported'
    <3>1. AddEntry(dummy_process, NewPcb(TRUE, parent, burst))
      BY <2>2 DEF create_thread
    <3>2. NewPcb(TRUE, parent, burst).state = "READY"
      BY DEF NewPcb
    <3>3. Tally'
      BY <1>3, <3>1, <3>2, CreationKeepsTally, Zenon
    <3>4. reply'.kind = "created" /\ batch_left' = 0
      BY <1>3, <2>2, <3>1 DEF Reply, AddEntry
    <3>. QED BY <3>3, <3>4 DEF Reported, FiguresAgree
  <2>3. ASSUME NEW kind, NEW text, kind \notin {"figures", "list"}, Answers(kind, text)
        PROVE  Tally' /\ Reported'
    <3>1. reply'.kind = kind /\ batch_left' = 0
      BY <1>3, <2>3 DEF Answers, Reply, vars
    <3>. QED BY <1>1, <1>3, <2>3, <3>1 DEF Answers, Reported, FiguresAgree
  <2>4. CASE Answers("list", process_dump_all)
    <3>1. process_dump_all' = process_dump_all
      BY <2>4, Zenon
      DEF Answers, process_dump_all, Counts, Live, UsedSlots, vars, tableVars, statVars
    <3>2. ShowsNow' /\ batch_left' = 0
      BY <1>3, <2>4, <3>1 DEF Answers, Reply, ShowsNow, vars
    <3>3. IInv' /\ Tally'
      BY <1>1, <1>3, <2>4, NextIInv DEF Answers
    <3>4. FiguresAgree'
      BY <3>2, <3>3, TallyIsShown, PTL
    <3>. QED BY <3>2, <3>3, <3>4 DEF Reported
  <2>5. CASE cmd_calc(argv)
    <3>1. \/ Message
          \/ \E kind \in {"result", "fault", "math_error"} : \E text :
               Calculated(argv, kind, text)
      BY <2>5, Zenon DEF cmd_calc
    <3>2. ASSUME NEW kind \in {"result", "fault", "math_error"}, NEW text,
                 Calculated(argv, kind, text)
          PROVE  Tally' /\ Reported'
      <4>1. reply'.kind = kind /\ batch_left' = 0
        BY <1>3, <3>2 DEF Calculated, Reply, vars
      <4>. QED BY <1>1, <1>3, <3>2, <4>1 DEF Calculated, Reported, FiguresAgree
    <3>. QED BY <2>3, <3>1, <3>2 DEF Message
  <2>6. ASSUME NEW p, process_set_policy(p), reply' = Reply("policy", <<p>>)
        PROVE  Tally' /\ Reported'
    <3>1. Tally'
      BY <1>3, <2>6, Zenon DEF process_set_policy, Tally, Live, UsedSlots, tableVars, statVars
    <3>2. reply'.kind = "policy" /\ batch_left' = 0
      BY <1>3, <2>6 DEF process_set_policy, Reply
    <3>. QED BY <3>1, <3>2 DEF Reported, FiguresAgree
  <2>7. CASE cmd_sched(argv)
    <3>1. PICK times : process_schedule_times(times)
      BY <2>7, Zenon DEF cmd_sched
    <3>2. Tally'
      BY <1>3, <3>1, Zenon DEF process_schedule_times, Tally, Live, UsedSlots, tableVars, statVars
    <3>3. reply'.kind = "scheduling"
      BY <2>7 DEF cmd_sched, Reply
    <3>. QED BY <3>2, <3>3 DEF Reported, FiguresAgree
  <2>8. CASE Message
    BY <2>3, <2>8 DEF Message
  <2>9. CASE cmd_mkthr(argv)
    BY <2>2, <2>8, <2>9, Zenon DEF cmd_mkthr
  <2>10. CASE cmd_policy(argv)
    BY <2>3, <2>6, <2>8, <2>10, Zenon DEF cmd_policy
  <2>. QED BY <1>3, <2>1, <2>4, <2>5, <2>7, <2>8, <2>9, <2>10, Zenon DEF execute_line
<1>4. ASSUME Tally, Reported, IInv, UNCHANGED shellVars PROVE Tally' /\ Reported'
  <2>1. UNCHANGED vars
    BY <1>4, Zenon DEF shellVars
  <2>2. /\ reply' = reply /\ batch_left' = batch_left
        /\ stat_completed_tasks' = stat_completed_tasks /\ process_count' = process_count
    BY <1>4, <2>1 DEF shellVars, vars, tableVars, statVars
  <2>. QED BY <1>1, <1>4, <2>1, <2>2 DEF Reported, FiguresAgree
<1>5. ASSUME IInv, Tally, Reported, ShellNext PROVE Tally' /\ Reported'
  BY <1>2, <1>3, <1>5, Zenon DEF ShellNext
<1>. QED BY <1>4, <1>5

\* What proclist and sched print adds up, for every line typed and however often
\* the call counter has wrapped (process.c:14-32, 67-71, 233, 329).
THEOREM FiguresAddUp == ShellSpec => []FiguresAgree
<1>1. ShellInit => Tally /\ Reported
  <2>. SUFFICES ASSUME ShellInit PROVE Tally /\ Reported
    OBVIOUS
  <2>1. Live = {}
    BY SMT DEF ShellInit, Init, Live, UsedSlots
  <2>2. Cardinality(Live) = 0
    BY <2>1, FS_EmptySet
  <2>. QED BY <2>2, SMT DEF ShellInit, Init, Tally, Reported, FiguresAgree, Reply
<1>2. ShellSpec => []IInv
  BY ShellRunsProcess, Invariance, PTL
<1>. QED BY <1>1, <1>2, StepKeepsTally, PTL DEF ShellSpec, Reported

-----------------------------------------------------------------------------
(* What the shell reports as created.                                       *)

\* The entry a step adds is the one it was asked to add.
LEMMA EntryAdded ==
  ASSUME IInv, NEW func, NEW pcb, AddEntry(func, pcb), process_count' > process_count
  PROVE  process_table'[process_count] = pcb
<1>1. /\ process_count < MAX_PROCESSES
      /\ process_table' = [process_table EXCEPT ![process_count] = pcb]
  BY SMT DEF AddEntry, tableVars, IInv, TypeOK
<1>2. process_count \in Slots
  BY <1>1, ProcessAssumption, SMT DEF IInv, TypeOK, Slots
<1>. QED BY <1>1, <1>2 DEF IInv, TypeOK

\* Only mkproc and mkthr add an entry.
LEMMA WhoCreates ==
  ASSUME IInv, ShellNext, process_count' > process_count
  PROVE  \E argv \in Entered : cmd_mkproc(argv) \/ (cmd_mkthr(argv) /\ ~Message)
<1>1. process_count \in Int /\ process_count' # process_count
  BY SMT DEF IInv, TypeOK
<1>2. ~ UNCHANGED vars
  BY <1>1 DEF vars, tableVars
<1>3. ~ sched_step
  BY <1>1, Zenon DEF sched_step, ScheduleIteration, schedule
<1>4. PICK argv \in Entered : execute_line(argv)
  BY <1>3, Zenon DEF ShellNext
<1>5. ~Message /\ ~Answers("list", process_dump_all)
  BY <1>2, Zenon DEF Message, Answers
<1>6. ~cmd_calc(argv)
  BY <1>2, <1>5, Zenon DEF cmd_calc, Calculated
<1>7. ~cmd_policy(argv)
  BY <1>1, <1>2, <1>5, Zenon DEF cmd_policy, process_set_policy, Answers, tableVars
<1>8. ~cmd_sched(argv)
  BY <1>1, Zenon DEF cmd_sched, process_schedule_times, tableVars
<1>. QED BY <1>4, <1>5, <1>6, <1>7, <1>8, Zenon DEF execute_line

\* Every new entry has been reported, with its numbers, whatever the words of
\* the line overflow to (kernel_shell.c:197-231, process.c:119-152).
THEOREM ReportsAreTrue == ShellSpec => CreatedAsReported
<1>. DEFINE new == process_table'[process_count]
            Report == /\ reply'.kind = "created"
                      /\ Written(reply'.text[1]) = new.burst_ticks
                      /\ new.is_thread <=> Len(reply'.text) = 2
                      /\ new.is_thread /\ new.parent_pid # MIN_INT =>
                           Written(reply'.text[2]) = new.parent_pid
<1>1. ASSUME IInv, ShellNext, process_count' > process_count
      PROVE  Report
  <2>1. PICK argv \in Entered : cmd_mkproc(argv) \/ (cmd_mkthr(argv) /\ ~Message)
    BY <1>1, WhoCreates, Zenon
  <2>2. CASE cmd_mkproc(argv)
    <3>. DEFINE burst == Burst(argv, 2, 5)
    <3>1. burst \in Ints \ {MIN_INT} /\ burst >= 1
      BY BurstIsInt
    <3>. HIDE DEF burst
    <3>2. PICK text \in print_int(burst) : reply' = Reply("created", <<text>>)
      BY <2>2, Zenon DEF cmd_mkproc, burst
    <3>3. AddEntry(dummy_process, NewPcb(FALSE, 0, burst))
      BY <2>2, Zenon DEF cmd_mkproc, create_process_burst, burst
    <3>4. new = NewPcb(FALSE, 0, burst)
      BY <1>1, <3>3, EntryAdded, Zenon
    <3>5. new.burst_ticks = burst /\ new.is_thread = FALSE
      BY <3>1, <3>4, SMT DEF NewPcb, ClampBurst, Ints
    <3>6. Written(text) = burst
      BY <3>1, PrintedIsWritten
    <3>7. reply'.kind = "created" /\ reply'.text = <<text>>
      BY <3>2 DEF Reply
    <3>. HIDE DEF new
    <3>. QED BY <3>5, <3>6, <3>7
  <2>3. CASE cmd_mkthr(argv) /\ ~Message
    <3>. DEFINE burst == Burst(argv, 3, 3)
                parent == katoi(argv[2])
    <3>1. /\ Len(argv) >= 2
          /\ create_thread(dummy_process, parent, burst)
          /\ \E text \in print_int(burst), under \in print_int(parent) :
               reply' = Reply("created", <<text, under>>)
      BY <2>3, Zenon DEF cmd_mkthr
    <3>2. burst \in Ints \ {MIN_INT} /\ burst >= 1 /\ parent \in Ints
      BY <3>1, BurstIsInt, ParentIsInt
    <3>. HIDE DEF burst, parent
    <3>3. PICK text \in print_int(burst), under \in print_int(parent) :
            reply' = Reply("created", <<text, under>>)
      BY <3>1
    <3>4. new = NewPcb(TRUE, parent, burst)
      BY <1>1, <3>1, EntryAdded, Zenon DEF create_thread
    <3>5. new.burst_ticks = burst /\ new.is_thread = TRUE /\ new.parent_pid = parent
      BY <3>2, <3>4, SMT DEF NewPcb, ClampBurst, Ints
    <3>6. Written(text) = burst
      BY <3>2, PrintedIsWritten
    <3>7. parent # MIN_INT => Written(under) = parent
      BY <3>2, PrintedIsWritten
    <3>8. reply'.kind = "created" /\ reply'.text = <<text, under>>
      BY <3>3 DEF Reply
    <3>. HIDE DEF new
    <3>. QED BY <3>5, <3>6, <3>7, <3>8
  <2>. QED BY <2>1, <2>2, <2>3
<1>2. ASSUME IInv, [ShellNext]_shellVars
      PROVE  [process_count' > process_count => Report]_vars
  <2>. HIDE DEF Report
  <2>1. UNCHANGED shellVars => UNCHANGED vars
    BY DEF shellVars
  <2>. QED BY <1>1, <1>2, <2>1
<1>3. ShellSpec => []IInv
  BY ShellRunsProcess, Invariance, PTL
<1>. QED BY <1>2, <1>3, PTL DEF ShellSpec, CreatedAsReported
=============================================================================
