---------------------------- MODULE WireProofs ----------------------------
(***************************************************************************)
(* Proofs about Wire, for every base, every size of buffer and read, and   *)
(* everything that may be sent: what is written in digits is read back,    *)
(* what is encoded is decoded, a receiver that nothing brings out of step  *)
(* hands out exactly what has arrived, a receiver keeps no more than a     *)
(* limit, and the position record is read back although the file is never  *)
(* truncated.                                                              *)
(***************************************************************************)
EXTENDS Wire, SliceFacts, TLAPS

\* A function on 1..n is a sequence of length n.
LEMMA Fcn ==
    ASSUME NEW S, NEW n \in Nat, NEW f \in [1..n -> S]
    PROVE  f \in Seq(S) /\ Len(f) = n
<1>1. f \in Seq(S)
  BY SeqDef
<1>2. DOMAIN f = 1..Len(f) /\ Len(f) \in Nat
  BY <1>1, LenProperties
<1> QED
  BY <1>1, <1>2

-----------------------------------------------------------------------------
(* Recursive functions exist. *)

\* f is what n steps of g make of z.
Iterates(f, S, z, g, n) ==
    f \in [0..n -> S] /\ f[0] = z /\ \A i \in 1..n : f[i] = g[<<i, f[i - 1]>>]

\* A step function can be iterated.
LEMMA IterateExists ==
    ASSUME NEW S, NEW z \in S, NEW n \in Nat, NEW g \in [(1..n) \X S -> S]
    PROVE  \E f : Iterates(f, S, z, g, n)
<1> DEFINE T == {m \in 0..n : ~ \E f : Iterates(f, S, z, g, m)}
<1>1. ASSUME T # {} PROVE FALSE
  <2>1. T \in SUBSET Nat
    OBVIOUS
  <2>2. PICK m \in T : \A y \in T : m <= y
    BY <1>1, <2>1, MinExists
  <2>3. m \in 0..n
    OBVIOUS
  <2>4. CASE m = 0
    <3> DEFINE f == [i \in 0..0 |-> z]
    <3>1. Iterates(f, S, z, g, 0)
      BY DEF Iterates
    <3> QED
      BY <2>4, <3>1
  <2>5. CASE m # 0
    <3>1. m - 1 \in 0..n /\ m - 1 \notin T
      BY <2>2, <2>3, <2>5
    <3>2. PICK f : Iterates(f, S, z, g, m - 1)
      BY <3>1
    <3> DEFINE h == [i \in 0..m |-> IF i = m THEN g[<<m, f[m - 1]>>] ELSE f[i]]
    <3>3. f \in [0..(m - 1) -> S] /\ f[0] = z
          /\ \A i \in 1..(m - 1) : f[i] = g[<<i, f[i - 1]>>]
      BY <3>2 DEF Iterates
    <3>4. f[m - 1] \in S /\ <<m, f[m - 1]>> \in (1..n) \X S
      BY <2>3, <2>5, <3>3
    <3>5. g[<<m, f[m - 1]>>] \in S
      BY <3>4
    <3>6. h \in [0..m -> S] /\ h[0] = z
      BY <2>3, <2>5, <3>3, <3>5
    <3>7. \A i \in 1..m : h[i] = g[<<i, h[i - 1]>>]
      <4> TAKE i \in 1..m
      <4>1. h[i - 1] = f[i - 1] /\ i \in Nat
        BY <2>3
      <4>2. CASE i = m
        <5>1. h[m] = g[<<m, f[m - 1]>>]
          BY <2>3
        <5> QED
          BY <4>1, <4>2, <5>1
      <4>3. CASE i # m
        <5>1. i \in 1..(m - 1) /\ h[i] = f[i]
          BY <2>3, <4>3
        <5> QED
          BY <3>3, <4>1, <5>1
      <4> QED
        BY <4>2, <4>3
    <3>8. Iterates(h, S, z, g, m)
      BY <3>6, <3>7 DEF Iterates
    <3> QED
      BY <3>8
  <2> QED
    BY <2>4, <2>5
<1> QED
  BY <1>1

\* The weights are what their definition says.
LEMMA WeightDef ==
    /\ Weight \in [0..8 -> Nat]
    /\ Weight[0] = 1
    /\ \A i \in 1..8 : Weight[i] = Base * Weight[i - 1]
<1> DEFINE g == [x \in (1..8) \X Nat |-> Base * x[2]]
<1>1. Base \in Nat
  BY WireAssumption
<1>2. g \in [(1..8) \X Nat -> Nat]
  BY <1>1
<1>3. \A i \in 1..8, n \in Nat : g[<<i, n>>] = Base * n
  OBVIOUS
<1> HIDE DEF g
<1>4. PICK f : Iterates(f, Nat, 1, g, 8)
  BY <1>2, IterateExists
<1>5. f \in [0..8 -> Nat] /\ f[0] = 1 /\ \A i \in 1..8 : f[i] = Base * f[i - 1]
  BY <1>3, <1>4 DEF Iterates
<1>6. f = [i \in 0..8 |-> IF i = 0 THEN 1 ELSE Base * f[i - 1]]
  BY <1>5
<1>7. Weight = [i \in 0..8 |-> IF i = 0 THEN 1 ELSE Base * Weight[i - 1]]
  BY <1>6 DEF Weight
<1>8. Weight[0] = 1 /\ \A i \in 1..8 : Weight[i] = Base * Weight[i - 1]
  BY <1>7
<1>9. \A i \in 0..8 : Weight[i] \in Nat
  <2>0. Weight[0] \in Nat
    BY <1>8
  <2>1. Weight[1] \in Nat
    BY <1>1, <1>8, <2>0
  <2>2. Weight[2] \in Nat
    BY <1>1, <1>8, <2>1
  <2>3. Weight[3] \in Nat
    BY <1>1, <1>8, <2>2
  <2>4. Weight[4] \in Nat
    BY <1>1, <1>8, <2>3
  <2>5. Weight[5] \in Nat
    BY <1>1, <1>8, <2>4
  <2>6. Weight[6] \in Nat
    BY <1>1, <1>8, <2>5
  <2>7. Weight[7] \in Nat
    BY <1>1, <1>8, <2>6
  <2>8. Weight[8] \in Nat
    BY <1>1, <1>8, <2>7
  <2> QED
    BY <2>0, <2>1, <2>2, <2>3, <2>4, <2>5, <2>6, <2>7, <2>8
<1> QED
  BY <1>7, <1>8, <1>9

\* Arithmetic of products, which the solver does not find by itself.
LEMMA Times ==
    ASSUME NEW a \in Nat, NEW b \in Nat, NEW c \in Nat
    PROVE  /\ a * b \in Nat /\ a * (b + c) = a * b + a * c
           /\ (a * b) * c = a * (b * c) /\ a * b = b * a
           /\ b <= c => a * b <= a * c
           /\ a > 0 /\ b > 0 => a * b > 0
OBVIOUS

\* Quotient and remainder.
LEMMA DivMod ==
    ASSUME NEW n \in Nat, NEW d \in Nat, d > 0
    PROVE  /\ n \div d \in Nat /\ n % d \in Nat /\ n % d < d
           /\ n = d * (n \div d) + (n % d)
OBVIOUS

\* There is only one quotient and one remainder.
LEMMA DivUnique ==
    ASSUME NEW n \in Nat, NEW d \in Nat, d > 0, NEW q \in Nat, NEW r \in Nat,
           r < d, n = d * q + r
    PROVE  n \div d = q /\ n % d = r
OBVIOUS
\* One more byte: what is below it, and the byte.
LEMMA ModNext ==
    ASSUME NEW n \in Nat, NEW w \in Nat, w > 0, NEW b \in Nat, b > 0
    PROVE  n % (b * w) = (n % w) + ((n \div w) % b) * w
<1> DEFINE q == n \div w
           r == n % w
           s == q \div b
           t == q % b
           v == t * w + r
<1>1. q \in Nat /\ r \in Nat /\ r < w /\ n = w * q + r
  BY DivMod
<1> HIDE DEF q, r
<1>2. s \in Nat /\ t \in Nat /\ t < b /\ q = b * s + t
  BY <1>1, DivMod
<1> HIDE DEF s, t
<1>3. n = (b * w) * s + v /\ v \in Nat /\ b * w \in Nat
  <2>1. w * q = w * (b * s) + w * t
    BY <1>1, <1>2, Times
  <2>2. w * (b * s) = (b * w) * s /\ w * t = t * w /\ b * s \in Nat /\ w * t \in Nat
        /\ b * w \in Nat
    BY <1>1, <1>2, Times
  <2> QED
    BY <1>1, <2>1, <2>2
<1>4. v < b * w /\ b * w > 0
  <2>1. w * (t + 1) <= w * b /\ w * (t + 1) = w * t + w * 1 /\ w * 1 = w
    BY <1>2, Times
  <2>2. w * t = t * w /\ w * b = b * w /\ b * w > 0 /\ b * w \in Nat /\ w * t \in Nat
    BY <1>2, Times
  <2> QED
    BY <1>1, <2>1, <2>2
<1> HIDE DEF v
<1> DEFINE d == b * w
<1>5. d \in Nat /\ d > 0 /\ v < d /\ n = d * s + v /\ v \in Nat
  BY <1>3, <1>4
<1> HIDE DEF d
<1>6. n % d = v
  BY <1>2, <1>5, DivUnique
<1> QED
  BY <1>6 DEF d, v, r, t, q

\* A byte has at least four values, ...
LEMMA Bases == Base \in Nat /\ Base >= 4
<1>1. Base \in 4..256
  BY WireAssumption, Zenon
<1>2. QED
  BY <1>1

\* ... which are numbers from zero on.
LEMMA ByteDef == Byte \subseteq Nat /\ 0 \in Byte /\ Base - 1 \in Byte
BY Bases DEF Byte

\* No byte counts for nothing.
LEMMA WeightPositive == \A i \in 0..8 : Weight[i] \in Nat /\ Weight[i] > 0
<1> DEFINE T == {i \in 0..8 : ~(Weight[i] > 0)}
<1>1. ASSUME T # {} PROVE FALSE
  <2>1. T \in SUBSET Nat
    OBVIOUS
  <2>2. PICK m \in T : \A y \in T : m <= y
    BY <1>1, <2>1, MinExists
  <2>3. m \in 1..8
    BY WeightDef
  <2>4. Weight[m - 1] > 0 /\ Weight[m - 1] \in Nat
    BY <2>2, <2>3, WeightDef
  <2>5. Weight[m] = Base * Weight[m - 1]
    BY <2>3, WeightDef
  <2>6. Weight[m] > 0
    BY <2>4, <2>5, Bases, Times
  <2> QED
    BY <2>6
<1> QED
  BY <1>1, WeightDef

\* Two bytes hold a command, and an eighth byte leaves room for the message id 1.
LEMMA WeightRoom ==
    /\ Weight[2] >= 16 /\ Weight[3] \in Nat /\ Weight[4] >= Weight[3]
    /\ \A n \in Nat : n < Weight[3] => n \div Weight[3] = 0 /\ n \div Weight[4] = 0
    /\ Weight[8] \div 2 > 1
<1>1. Weight[1] = Base
  BY WeightDef, Bases
<1>2. Weight[2] = Base * Base
  BY <1>1, WeightDef
<1>3. Weight[2] >= 16
  BY <1>2, Bases
<1>4. Weight[4] = Base * Weight[3] /\ Weight[3] \in Nat /\ Weight[3] > 0
  BY WeightDef, WeightPositive
<1>5. Weight[4] >= Weight[3] /\ Weight[4] \in Nat
  BY <1>4, Bases
<1>6. ASSUME NEW n \in Nat, n < Weight[3]
      PROVE  n \div Weight[3] = 0 /\ n \div Weight[4] = 0
  <2>1. n < Weight[4] /\ n = Weight[3] * 0 + n /\ n = Weight[4] * 0 + n
    BY <1>4, <1>5, <1>6
  <2>2. n \div Weight[3] = 0
    BY <1>4, <1>6, <2>1, DivUnique
  <2>3. n \div Weight[4] = 0
    BY <1>4, <1>5, <2>1, DivUnique
  <2> QED
    BY <2>2, <2>3
<1>7. Weight[8] = Base * Weight[7] /\ Weight[7] \in Nat /\ Weight[7] > 0
  BY WeightDef, WeightPositive
<1>8. Weight[8] >= 4 /\ Weight[8] \in Nat
  BY <1>7, Bases
<1>9. Weight[8] \div 2 > 1
  BY <1>8
<1> QED
  BY <1>3, <1>4, <1>5, <1>6, <1>9

\* Digits gives bytes, as many as it is asked for.
LEMMA DigitsType ==
    ASSUME NEW n \in Nat, NEW w \in 0..8
    PROVE  /\ Digits(n, w) \in Seq(Byte) /\ Len(Digits(n, w)) = w
           /\ \A i \in 1..w : Digits(n, w)[i] = (n \div Weight[i - 1]) % Base
<1>1. ASSUME NEW i \in 1..w PROVE (n \div Weight[i - 1]) % Base \in Byte
  <2>1. Weight[i - 1] \in Nat /\ Weight[i - 1] > 0
    BY WeightPositive
  <2>2. n \div Weight[i - 1] \in Nat
    BY <2>1, DivMod
  <2> QED
    BY <2>2, DivMod, Bases DEF Byte
<1>2. Digits(n, w) \in [1..w -> Byte]
  BY <1>1 DEF Digits
<1> QED
  BY <1>2, Fcn DEF Digits

\* The sum Number ends with.
LEMMA NumberDef ==
    ASSUME NEW b \in Seq(Byte), NEW n \in 0..8, Len(b) = n
    PROVE  \E sum \in [0..n -> Nat] :
              /\ sum[0] = 0 /\ Number(b) = sum[n]
              /\ \A i \in 1..n : sum[i] = sum[i - 1] + b[i] * Weight[i - 1]
<1> DEFINE g == [x \in (1..n) \X Nat |-> x[2] + b[x[1]] * Weight[x[1] - 1]]
<1>a. \A i \in 1..n : b[i] \in Nat
  BY ElementOfSeq, ByteDef
<1>b. \A i \in 1..n : Weight[i - 1] \in Nat
  <2> TAKE i \in 1..n
  <2>1. i - 1 \in 0..8
    OBVIOUS
  <2> QED
    BY <2>1, WeightPositive
<1>1. n \in Nat /\ \A i \in 1..n : b[i] \in Nat /\ Weight[i - 1] \in Nat
  BY <1>a, <1>b
<1>2. \A i \in 1..n : b[i] * Weight[i - 1] \in Nat
  BY <1>1
<1>3. g \in [(1..n) \X Nat -> Nat]
  <2>1. ASSUME NEW x \in (1..n) \X Nat PROVE x[2] + b[x[1]] * Weight[x[1] - 1] \in Nat
    <3>1. x[1] \in 1..n /\ x[2] \in Nat
      OBVIOUS
    <3>2. b[x[1]] * Weight[x[1] - 1] \in Nat
      BY <1>2, <3>1
    <3> QED
      BY <3>1, <3>2
  <2> QED
    BY <2>1
<1>4. \A i \in 1..n, s \in Nat : g[<<i, s>>] = s + b[i] * Weight[i - 1]
  OBVIOUS
<1> HIDE DEF g
<1>5. PICK f : Iterates(f, Nat, 0, g, n)
  BY <1>1, <1>3, IterateExists
<1>d. f \in [0..n -> Nat] /\ f[0] = 0 /\ \A i \in 1..n : f[i] = g[<<i, f[i - 1]>>]
  BY <1>5 DEF Iterates
<1>e. \A i \in 1..n : f[i - 1] \in Nat
  <2> TAKE i \in 1..n
  <2>1. i - 1 \in 0..n
    OBVIOUS
  <2> QED
    BY <1>d, <2>1
<1>6. f \in [0..n -> Nat] /\ f[0] = 0
      /\ \A i \in 1..n : f[i] = f[i - 1] + b[i] * Weight[i - 1]
  BY <1>4, <1>d, <1>e
<1> DEFINE Is(s) == s = [i \in 0..n |->
                            IF i = 0 THEN 0 ELSE s[i - 1] + b[i] * Weight[i - 1]]
           sum == CHOOSE s : Is(s)
<1>7. Is(f)
  BY <1>6
<1>8. Is(sum)
  BY <1>7
<1>9. Number(b) = sum[n]
  BY DEF Number
<1> HIDE DEF sum
<1>10. /\ sum[0] = 0 /\ DOMAIN sum = 0..n
       /\ \A i \in 1..n : sum[i] = sum[i - 1] + b[i] * Weight[i - 1]
  BY <1>1, <1>8
<1>11. \A i \in 0..n : sum[i] \in Nat
  <2> DEFINE T == {i \in 0..n : sum[i] \notin Nat}
  <2>1. ASSUME T # {} PROVE FALSE
    <3>1. T \in SUBSET Nat
      BY <1>1
    <3>2. PICK m \in T : \A y \in T : m <= y
      BY <2>1, <3>1, MinExists
    <3>3. m \in 1..n
      BY <1>10
    <3>4. sum[m - 1] \in Nat
      BY <1>1, <3>2, <3>3
    <3>5. sum[m] = sum[m - 1] + b[m] * Weight[m - 1]
      BY <1>10, <3>3
    <3>6. sum[m] \in Nat
      BY <1>2, <3>3, <3>4, <3>5
    <3> QED
      BY <3>6
  <2> QED
    BY <2>1
<1>12. sum \in [0..n -> Nat]
  <2>1. sum = [i \in 0..n |-> sum[i]]
    BY <1>8, <1>10
  <2> QED
    BY <1>11, <2>1
<1> QED
  BY <1>9, <1>10, <1>12

\* Up to eight bytes make a number.
LEMMA NumberType ==
    ASSUME NEW b \in Seq(Byte), NEW n \in 0..8, Len(b) = n
    PROVE  Number(b) \in Nat
<1>1. PICK sum \in [0..n -> Nat] : Number(b) = sum[n]
  BY NumberDef
<1> QED
  BY <1>1

\* What is written in w bytes is read from them.
LEMMA RoundTrip ==
    ASSUME NEW n \in Nat, NEW w \in 0..8, n < Weight[w]
    PROVE  Number(Digits(n, w)) = n
<1> DEFINE b == Digits(n, w)
<1>1. b \in Seq(Byte) /\ Len(b) = w
      /\ \A i \in 1..w : b[i] = (n \div Weight[i - 1]) % Base
  BY DigitsType
<1> HIDE DEF b
<1>2. PICK sum \in [0..w -> Nat] :
              /\ sum[0] = 0 /\ Number(b) = sum[w]
              /\ \A i \in 1..w : sum[i] = sum[i - 1] + b[i] * Weight[i - 1]
  BY <1>1, NumberDef
<1>3. \A i \in 1..w : n % Weight[i] = (n % Weight[i - 1]) + b[i] * Weight[i - 1]
  <2> TAKE i \in 1..w
  <2>1. i \in 1..8 /\ i - 1 \in 0..8
    OBVIOUS
  <2>2. Weight[i - 1] \in Nat /\ Weight[i - 1] > 0
    BY <2>1, WeightPositive
  <2>3. Weight[i] = Base * Weight[i - 1]
    BY <2>1, WeightDef
  <2>4. Base \in Nat /\ Base > 0
    BY Bases
  <2>5. n % (Base * Weight[i - 1])
            = (n % Weight[i - 1]) + ((n \div Weight[i - 1]) % Base) * Weight[i - 1]
    BY <2>2, <2>4, ModNext
  <2>6. b[i] = (n \div Weight[i - 1]) % Base
    BY <1>1
  <2> QED
    BY <2>3, <2>5, <2>6
<1> DEFINE T == {i \in 0..w : sum[i] # n % Weight[i]}
<1>4. ASSUME T # {} PROVE FALSE
  <2>1. T \in SUBSET Nat
    OBVIOUS
  <2>2. PICK m \in T : \A y \in T : m <= y
    BY <1>4, <2>1, MinExists
  <2>3. m # 0
    <3>1. n % 1 = 0
      OBVIOUS
    <3> QED
      BY <1>2, <3>1, WeightDef
  <2>4. m \in 1..w /\ m - 1 \in 0..w /\ m - 1 \notin T
    BY <2>2, <2>3
  <2>5. sum[m - 1] = n % Weight[m - 1]
    BY <2>4
  <2>6. sum[m] = n % Weight[m]
    BY <1>2, <1>3, <2>4, <2>5
  <2> QED
    BY <2>6
<1>5. sum[w] = n % Weight[w]
  BY <1>4
<1>6. n % Weight[w] = n
  <2>1. Weight[w] \in Nat /\ Weight[w] > 0
    BY WeightPositive
  <2>2. n = Weight[w] * 0 + n
    BY <2>1
  <2> QED
    BY <2>1, <2>2, DivUnique
<1> QED
  BY <1>2, <1>5, <1>6 DEF b

\* Concatenation is associative, ...
LEMMA CatAssoc ==
    ASSUME NEW S, NEW u \in Seq(S), NEW v \in Seq(S), NEW w \in Seq(S)
    PROVE  (u \o v) \o w = u \o (v \o w)
BY ConcatAssociative, SMTT(30)

\* ... in a form that Zenon can use for bytes.
LEMMA ByteAssoc == \A u, v, w \in Seq(Byte) : (u \o v) \o w = u \o (v \o w)
BY CatAssoc, SMTT(30)

-----------------------------------------------------------------------------
(* Flattening. *)

\* f[i] is the first i sequences of B, one after another.
Flattens(f, S, B, n) ==
    f \in [0..n -> Seq(S)] /\ f[0] = <<>> /\ \A i \in 1..n : f[i] = f[i - 1] \o B[i]

\* FlattenSeq appends one sequence after the other.
LEMMA FlattenDef ==
    ASSUME NEW S, NEW B \in Seq(Seq(S)), NEW n \in Nat, Len(B) = n
    PROVE  \E f : Flattens(f, S, B, n) /\ FlattenSeq(B) = f[n]
<1> DEFINE g == [x \in (1..n) \X Seq(S) |-> x[2] \o B[x[1]]]
<1>1. \A i \in 1..n : B[i] \in Seq(S)
  BY ElementOfSeq
<1>2. g \in [(1..n) \X Seq(S) -> Seq(S)]
  <2>1. ASSUME NEW x \in (1..n) \X Seq(S) PROVE x[2] \o B[x[1]] \in Seq(S)
    <3>1. x[1] \in 1..n /\ x[2] \in Seq(S)
      OBVIOUS
    <3>2. B[x[1]] \in Seq(S)
      BY <1>1, <3>1
    <3> QED
      BY <3>1, <3>2, ConcatProperties
  <2> QED
    BY <2>1
<1>3. \A i \in 1..n, s \in Seq(S) : g[<<i, s>>] = s \o B[i]
  OBVIOUS
<1> HIDE DEF g
<1>4. <<>> \in Seq(S)
  BY EmptySeq
<1>5. PICK f : Iterates(f, Seq(S), <<>>, g, n)
  BY <1>2, <1>4, IterateExists
<1>6. f \in [0..n -> Seq(S)] /\ f[0] = <<>> /\ \A i \in 1..n : f[i] = g[<<i, f[i - 1]>>]
  BY <1>5 DEF Iterates
<1>7. \A i \in 1..n : f[i - 1] \in Seq(S)
  <2> TAKE i \in 1..n
  <2>1. i - 1 \in 0..n
    OBVIOUS
  <2> QED
    BY <1>6, <2>1
<1>8. \A i \in 1..n : f[i] = f[i - 1] \o B[i]
  BY <1>3, <1>6, <1>7
<1>9. Flattens(f, S, B, n)
  BY <1>6, <1>8 DEF Flattens
<1>10. CASE n = 0
  <2>1. B = <<>>
    BY <1>10, EmptySeq
  <2>2. FlattenSeq(B) = <<>>
    BY <2>1, <1>10 DEF FlattenSeq
  <2> QED
    BY <1>6, <1>9, <1>10, <2>2
<1>11. CASE n # 0
  <2> DEFINE Is(s) == s = [i \in 1..n |-> IF i = 1 THEN B[i] ELSE s[i - 1] \o B[i]]
             flatten == CHOOSE s : Is(s)
             h == [i \in 1..n |-> f[i]]
  <2>1. f[1] = B[1]
    <3>1. 1 \in 1..n /\ 1 - 1 = 0
      BY <1>11
    <3>2. f[1] = f[0] \o B[1] /\ B[1] \in Seq(S)
      BY <1>1, <1>8, <3>1
    <3> QED
      BY <1>6, <3>2, ConcatEmptySeq
  <2>2. \A i \in 1..n : i # 1 => i - 1 \in 1..n /\ f[i] = h[i - 1] \o B[i]
    <3> TAKE i \in 1..n
    <3> HAVE i # 1
    <3>1. i - 1 \in 1..n
      OBVIOUS
    <3>2. h[i - 1] = f[i - 1]
      BY <3>1
    <3> QED
      BY <1>8, <3>1, <3>2
  <2>3. Is(h)
    BY <2>1, <2>2
  <2>4. Is(flatten)
    BY <2>3
  <2>5. FlattenSeq(B) = flatten[n]
    BY <1>11 DEF FlattenSeq
  <2> HIDE DEF flatten, h
  <2>6. flatten[1] = B[1] /\ \A i \in 1..n : i # 1 => flatten[i] = flatten[i - 1] \o B[i]
    <3>1. 1 \in 1..n
      BY <1>11
    <3> QED
      BY <2>4, <3>1
  <2> DEFINE T == {i \in 1..n : flatten[i] # f[i]}
  <2>7. ASSUME T # {} PROVE FALSE
    <3>1. T \in SUBSET Nat
      OBVIOUS
    <3>2. PICK m \in T : \A y \in T : m <= y
      BY <2>7, <3>1, MinExists
    <3>3. m \in 1..n /\ m # 1
      BY <2>1, <2>6
    <3>4. m - 1 \in 1..n /\ m - 1 \notin T
      BY <3>2, <3>3
    <3>5. flatten[m - 1] = f[m - 1]
      BY <3>4
    <3>6. flatten[m] = f[m]
      BY <1>8, <2>6, <3>3, <3>5
    <3> QED
      BY <3>6
  <2>8. flatten[n] = f[n]
    BY <1>11, <2>7
  <2> QED
    BY <1>9, <2>5, <2>8
<1> QED
  BY <1>10, <1>11

\* The bytes of one sequence of messages and then another.
LEMMA FlattenConcat ==
    ASSUME NEW S, NEW A \in Seq(Seq(S)), NEW B \in Seq(Seq(S))
    PROVE  /\ FlattenSeq(A) \in Seq(S)
           /\ FlattenSeq(A \o B) = FlattenSeq(A) \o FlattenSeq(B)
<1>0. \A u, v, w \in Seq(S) : (u \o v) \o w = u \o (v \o w)
  BY CatAssoc
<1>1. PICK a \in Nat : a = Len(A)
  BY LenProperties
<1>2. PICK b \in Nat : b = Len(B)
  BY LenProperties
<1>3. PICK C \in Seq(Seq(S)) :
          /\ C = A \o B /\ Len(C) = a + b
          /\ \A i \in 1..a : C[i] = A[i]
          /\ \A i \in 1..b : C[a + i] = B[i]
  <2>1. /\ A \o B \in Seq(Seq(S)) /\ Len(A \o B) = Len(A) + Len(B)
        /\ \A i \in 1..Len(A) : (A \o B)[i] = A[i]
        /\ \A i \in 1..Len(B) : (A \o B)[Len(A) + i] = B[i]
    BY CatDef
  <2> QED
    BY <1>1, <1>2, <2>1
<1>4. PICK f : Flattens(f, S, A, a) /\ FlattenSeq(A) = f[a]
  BY <1>1, FlattenDef
<1>5. PICK h : Flattens(h, S, B, b) /\ FlattenSeq(B) = h[b]
  BY <1>2, FlattenDef
<1>6. a + b \in Nat
  OBVIOUS
<1>7. PICK k : Flattens(k, S, C, a + b) /\ FlattenSeq(C) = k[a + b]
  <2>1. PICK n \in Nat : n = a + b
    BY <1>6
  <2>2. Len(C) = n
    BY <1>3, <2>1
  <2>3. \E k : Flattens(k, S, C, n) /\ FlattenSeq(C) = k[n]
    BY <2>2, FlattenDef
  <2>4. QED
    BY <2>1, <2>3, Zenon
<1>8. f \in [0..a -> Seq(S)] /\ f[0] = <<>> /\ \A i \in 1..a : f[i] = f[i - 1] \o A[i]
  BY <1>4 DEF Flattens
<1>9. h \in [0..b -> Seq(S)] /\ h[0] = <<>> /\ \A i \in 1..b : h[i] = h[i - 1] \o B[i]
  BY <1>5 DEF Flattens
<1>10. k \in [0..(a + b) -> Seq(S)] /\ k[0] = <<>>
       /\ \A i \in 1..(a + b) : k[i] = k[i - 1] \o C[i]
  BY <1>7 DEF Flattens
<1>11. f[a] \in Seq(S)
  BY <1>8
<1>12. k[a] = f[a]
  <2> DEFINE T == {i \in 0..a : k[i] # f[i]}
  <2>1. ASSUME T # {} PROVE FALSE
    <3>1. T \in SUBSET Nat
      OBVIOUS
    <3>2. PICK m \in T : \A y \in T : m <= y
      BY <2>1, <3>1, MinExists
    <3>3. m \in 1..a
      BY <1>8, <1>10
    <3>4. m - 1 \in 0..a /\ m - 1 \notin T /\ m \in 1..(a + b)
      BY <3>2, <3>3
    <3>5. k[m - 1] = f[m - 1]
      BY <3>4
    <3>6. k[m] = k[m - 1] \o C[m] /\ f[m] = f[m - 1] \o A[m] /\ C[m] = A[m]
      BY <1>3, <1>8, <1>10, <3>3, <3>4
    <3> QED
      BY <3>5, <3>6
  <2>2. a \in 0..a
    OBVIOUS
  <2> QED
    BY <2>1, <2>2
<1>13. k[a + b] = f[a] \o h[b]
  <2> DEFINE P(i) == k[a + i] = f[a] \o h[i]
             T == {i \in 0..b : ~P(i)}
  <2> HIDE DEF P
  <2>1. ASSUME T # {} PROVE FALSE
    <3>1. T \in SUBSET Nat
      OBVIOUS
    <3>2. PICK m \in T : \A y \in T : m <= y
      BY <2>1, <3>1, MinExists
    <3>3. m # 0
      <4>1. f[a] \o <<>> = f[a]
        BY <1>11, ConcatEmptySeq
      <4>2. a + 0 = a
        OBVIOUS
      <4>3. P(0)
        BY <1>9, <1>12, <4>1, <4>2, Zenon DEF P
      <4> QED
        BY <4>3
    <3>4. m \in 1..b /\ m - 1 \in 0..b /\ m - 1 \notin T /\ a + m \in 1..(a + b)
          /\ (a + m) - 1 = a + (m - 1)
      BY <3>2, <3>3
    <3>5. k[a + (m - 1)] = f[a] \o h[m - 1]
      BY <3>4 DEF P
    <3>6. k[a + m] = k[(a + m) - 1] \o C[a + m] /\ h[m] = h[m - 1] \o B[m] /\ C[a + m] = B[m]
      BY <1>3, <1>9, <1>10, <3>4
    <3>7. h[m - 1] \in Seq(S) /\ B[m] \in Seq(S)
      BY <1>2, <1>9, <3>4, ElementOfSeq
    <3>8. (f[a] \o h[m - 1]) \o B[m] = f[a] \o (h[m - 1] \o B[m])
      BY <1>0, <1>11, <3>7, Zenon
    <3>9. k[a + m] = f[a] \o h[m]
      BY <3>4, <3>5, <3>6, <3>8, Zenon
    <3> QED
      BY <3>9 DEF P
  <2>2. b \in 0..b
    OBVIOUS
  <2>3. P(b)
    BY <2>1, <2>2
  <2> QED
    BY <2>3 DEF P
<1> QED
  BY <1>3, <1>4, <1>5, <1>7, <1>11, <1>13

-----------------------------------------------------------------------------
(* Pieces of sequences. *)

\* data is the start of B, as far as both go.
Fronts(data, B) == \A i \in 1..Len(data) : i <= Len(B) => data[i] = B[i]

\* Of two ways to cut the same bytes, each part is the front of the other.
LEMMA CatFronts ==
    ASSUME NEW S, NEW a \in Seq(S), NEW s \in Seq(S), NEW B \in Seq(S), NEW t \in Seq(S),
           a \o s = B \o t
    PROVE  Fronts(a, B)
<1>1. \A i \in 1..Len(a) : (a \o s)[i] = a[i]
  BY CatDef
<1>2. \A i \in 1..Len(B) : (B \o t)[i] = B[i]
  BY CatDef
<1>3. Len(a) \in Nat /\ Len(B) \in Nat
  BY LenProperties
<1> QED
  BY <1>1, <1>2, <1>3 DEF Fronts

\* A slice is known by its elements.
LEMMA SliceIs ==
    ASSUME NEW S, NEW A \in Seq(S), NEW D \in Seq(S), NEW k \in Nat, NEW n \in Nat,
           n = Len(D), k + n <= Len(A), \A i \in 1..n : A[k + i] = D[i]
    PROVE  SubSeq(A, k + 1, k + n) = D
<1>1. k + 1 \in Int /\ k + n \in Int /\ Len(A) \in Nat
  BY LenProperties
<1>2. \A i \in (k + 1)..(k + n) : A[i] \in S
  BY <1>1, ElementOfSeq
<1> DEFINE X == SubSeq(A, k + 1, k + n)
<1>3. /\ X \in Seq(S) /\ Len(X) = IF k + 1 <= k + n THEN (k + n) - (k + 1) + 1 ELSE 0
      /\ \A i \in 1..((k + n) - (k + 1) + 1) : X[i] = A[(k + 1) + i - 1]
  BY <1>1, <1>2, SubSeqProperties
<1> HIDE DEF X
<1>4. Len(X) = n
  BY <1>3
<1>5. \A i \in 1..n : X[i] = D[i]
  <2> TAKE i \in 1..n
  <2>1. i \in 1..((k + n) - (k + 1) + 1) /\ (k + 1) + i - 1 = k + i
    OBVIOUS
  <2>2. X[i] = A[k + i]
    BY <1>3, <2>1
  <2> QED
    BY <2>2
<1>6. X = D
  BY <1>3, <1>4, <1>5, SeqEqual
<1> QED
  BY <1>6 DEF X

\* Length and elements of a slice.
LEMMA SliceType ==
    ASSUME NEW S, NEW A \in Seq(S), NEW m \in Nat, NEW n \in Nat, m >= 1, n <= Len(A)
    PROVE  /\ SubSeq(A, m, n) \in Seq(S)
           /\ Len(SubSeq(A, m, n)) = IF m <= n THEN n - m + 1 ELSE 0
           /\ \A i \in 1..(n - m + 1) : SubSeq(A, m, n)[i] = A[m + i - 1]
<1>1. m \in Int /\ n \in Int /\ Len(A) \in Nat
  BY LenProperties
<1>2. \A i \in m..n : A[i] \in S
  BY <1>1, ElementOfSeq
<1> QED
  BY <1>1, <1>2, SubSeqProperties

\* e is a, of length k, followed by b, of length l.
IsCat(e, S, a, k, b, l) ==
    /\ e \in Seq(S) /\ Len(e) = k + l
    /\ \A i \in 1..k : e[i] = a[i]
    /\ \A i \in 1..l : e[k + i] = b[i]

\* Length and elements of two sequences put together, ...
LEMMA CatTwo ==
    ASSUME NEW S, NEW a \in Seq(S), NEW b \in Seq(S), NEW k, NEW l, Len(a) = k, Len(b) = l,
           NEW e, e = a \o b
    PROVE  IsCat(e, S, a, k, b, l)
<1>1. a \o b \in Seq(S)
  BY CatDef
<1>2. Len(a \o b) = k + l
  BY CatDef
<1>3. \A i \in 1..k : (a \o b)[i] = a[i]
  BY CatDef
<1>4. \A i \in 1..l : (a \o b)[k + i] = b[i]
  BY CatDef
<1> QED
  BY <1>1, <1>2, <1>3, <1>4 DEF IsCat

\* e is a, of length k, then b, which ends at j, then c, of length n.
IsCatThree(e, S, a, k, b, j, c, n) ==
    /\ e \in Seq(S) /\ Len(e) = j + n
    /\ \A i \in 1..k : e[i] = a[i]
    /\ \A i \in 1..(j - k) : e[k + i] = b[i]
    /\ \A i \in 1..n : e[j + i] = c[i]

\* ... and of three.
LEMMA CatThree ==
    ASSUME NEW S, NEW a \in Seq(S), NEW b \in Seq(S), NEW c \in Seq(S),
           NEW k \in Nat, NEW j \in Nat, NEW n \in Nat,
           Len(a) = k, Len(b) = j - k, Len(c) = n, NEW e, e = (a \o b) \o c
    PROVE  IsCatThree(e, S, a, k, b, j, c, n)
<1> DEFINE d == a \o b
<1>1. IsCat(d, S, a, k, b, j - k)
  BY CatTwo
<1>2. e = d \o c
  OBVIOUS
<1> HIDE DEF d
<1>3. /\ d \in Seq(S) /\ Len(d) = k + (j - k)
      /\ \A i \in 1..k : d[i] = a[i]
      /\ \A i \in 1..(j - k) : d[k + i] = b[i]
  BY <1>1 DEF IsCat
<1>4. Len(d) = j
  BY <1>3
<1>5. IsCat(e, S, d, j, c, n)
  BY <1>2, <1>3, <1>4, CatTwo
<1>6. /\ e \in Seq(S) /\ Len(e) = j + n
      /\ \A i \in 1..j : e[i] = d[i]
      /\ \A i \in 1..n : e[j + i] = c[i]
  BY <1>5 DEF IsCat
<1>7. j - k \in Nat
  BY LenProperties
<1>8. \A i \in 1..k : e[i] = a[i]
  BY <1>3, <1>6, <1>7
<1>9. \A i \in 1..(j - k) : e[k + i] = b[i]
  <2> TAKE i \in 1..(j - k)
  <2>1. k + i \in 1..j
    BY <1>7
  <2> QED
    BY <1>3, <1>6, <2>1
<1> QED
  BY <1>6, <1>8, <1>9 DEF IsCatThree

\* The array a starts with the data d.
Under(d, a) == Len(d) <= Len(a) /\ \A i \in 1..Len(d) : a[i] = d[i]

\* What Over makes of b and a.
IsOver(e, b, a) ==
    /\ e \in Seq(Byte) /\ Len(e) >= Len(b) /\ Len(e) >= Len(a)
    /\ \A i \in 1..Len(b) : e[i] = b[i]
    /\ \A i \in 1..Len(a) : i > Len(b) => e[i] = a[i]

\* Writing b over a leaves b, and what is left of a behind it.
LEMMA OverIs ==
    ASSUME NEW b \in Seq(Byte), NEW a \in Seq(Byte), NEW e, e = Over(b, a)
    PROVE  IsOver(e, b, a)
<1>1. PICK n \in Nat, l \in Nat : n = Len(b) /\ l = Len(a)
  BY LenProperties
<1>2. PICK t : t = SubSeq(a, n + 1, l)
  OBVIOUS
<1>3. /\ t \in Seq(Byte) /\ Len(t) = IF n + 1 <= l THEN l - (n + 1) + 1 ELSE 0
      /\ \A i \in 1..(l - (n + 1) + 1) : t[i] = a[(n + 1) + i - 1]
  <2>1. n + 1 \in Nat /\ n + 1 >= 1 /\ l <= Len(a)
    BY <1>1
  <2> QED
    BY <1>1, <1>2, <2>1, SliceType
<1>4. e = b \o t
  BY <1>1, <1>2 DEF Over
<1>5. PICK m \in Nat : m = Len(t)
  BY <1>3, LenProperties
<1>6. IsCat(e, Byte, b, n, t, m)
  BY <1>1, <1>3, <1>4, <1>5, CatTwo
<1>7. /\ e \in Seq(Byte) /\ Len(e) = n + m
      /\ \A i \in 1..n : e[i] = b[i]
      /\ \A i \in 1..m : e[n + i] = t[i]
  BY <1>6 DEF IsCat
<1>8. Len(e) >= n /\ Len(e) >= l
  BY <1>3, <1>5, <1>7
<1>9. ASSUME NEW i \in 1..l, i > n
      PROVE  e[i] = a[i]
  <2>1. PICK j \in 1..m : i = n + j
    <3>1. i - n \in 1..m /\ i = n + (i - n)
      BY <1>3, <1>5, <1>9
    <3> QED
      BY <3>1
  <2>2. j \in 1..(l - (n + 1) + 1) /\ (n + 1) + j - 1 = i
    BY <1>9, <2>1
  <2> QED
    BY <1>3, <1>7, <2>1, <2>2
<1> QED
  BY <1>1, <1>7, <1>8, <1>9 DEF IsOver

\* A slice of an array, past what was written or not, is bytes, ...
LEMMA ShownType ==
    ASSUME NEW a \in Seq(Byte), NEW i \in Nat, NEW j \in Nat, i <= j
    PROVE  Shown(a, i, j) \in Seq(Byte) /\ Len(Shown(a, i, j)) = j - i
<1>1. j - i \in Nat /\ Len(a) \in Nat
  BY LenProperties
<1>2. ASSUME NEW k \in 1..(j - i), i + k <= Len(a)
      PROVE  a[i + k] \in Byte
  <2>1. i + k \in 1..Len(a)
    BY <1>1, <1>2
  <2> QED
    BY <2>1, ElementOfSeq
<1>3. Shown(a, i, j) \in [1..(j - i) -> Byte]
  BY <1>2, ByteDef DEF Shown
<1> QED
  BY <1>1, <1>3, Fcn

\* D is what is shown of a from i to j.
ShownAs(a, i, j, D) == Shown(a, i, j) = D

\* ... and within the data it is a slice of the data.
LEMMA ShownSlice ==
    ASSUME NEW a \in Seq(Byte), NEW d \in Seq(Byte), Under(d, a), NEW i \in Nat, NEW n \in Nat,
           i + n <= Len(d)
    PROVE  ShownAs(a, i, i + n, SubSeq(d, i + 1, i + n))
<1>1. PICK D : D = Shown(a, i, i + n)
  OBVIOUS
<1>2. D \in Seq(Byte) /\ Len(D) = n
  <2>1. i + n \in Nat /\ i <= i + n /\ (i + n) - i = n
    OBVIOUS
  <2>2. Shown(a, i, i + n) \in Seq(Byte) /\ Len(Shown(a, i, i + n)) = (i + n) - i
    BY <2>1, ShownType, Zenon
  <2> QED
    BY <1>1, <2>1, <2>2
<1>3. ASSUME NEW k \in 1..n
      PROVE  d[i + k] = D[k]
  <2>1. Len(d) \in Nat /\ Len(a) \in Nat /\ Len(d) <= Len(a)
    BY LenProperties DEF Under
  <2>2. i + k \in 1..Len(d) /\ i + k <= Len(a) /\ k \in 1..((i + n) - i)
    BY <2>1
  <2>3. D[k] = a[i + k]
    BY <1>1, <2>2 DEF Shown
  <2> QED
    BY <2>2, <2>3 DEF Under
<1> QED
  BY <1>1, <1>2, <1>3, SliceIs DEF ShownAs

-----------------------------------------------------------------------------
(* Messages and their bytes. *)

\* The three protocols and what may be sent in each.
Protos == {"agent", "node", "client"}
MessageRecord == [cmd : 0..9, data : Seq(Byte)]
MessagesOf(proto) == {m \in MessageRecord : Sendable(proto, m)}

\* B has D, of length w, behind its first k bytes.
HasAt(B, k, D, w) == Len(D) = w /\ k + w <= Len(B) /\ \A i \in 1..w : B[k + i] = D[i]

\* Where Pack puts its fields.
IsPacked(P, cmd, d, n) ==
    /\ P \in Seq(Byte) /\ Len(P) = n + 6
    /\ HasAt(P, 0, Digits(n + 2, 4), 4)
    /\ HasAt(P, 4, Digits(cmd, 2), 2)
    /\ HasAt(P, 6, d, n)

\* Pack writes the length, the command and the content.
LEMMA PackShape ==
    ASSUME NEW cmd \in 0..9, NEW d \in Seq(Byte), NEW n \in Nat, n = Len(d),
           NEW P, P = Pack(cmd, d)
    PROVE  IsPacked(P, cmd, d, n)
<1> DEFINE a == Digits(n + 2, 4)
           b == Digits(cmd, 2)
<1>0. n + 2 \in Nat /\ cmd \in Nat /\ 4 \in 0..8 /\ 2 \in 0..8
  OBVIOUS
<1>1. a \in Seq(Byte) /\ Len(a) = 4
  BY <1>0, DigitsType
<1>2. b \in Seq(Byte) /\ Len(b) = 2
  BY <1>0, DigitsType
<1>3. P = (a \o b) \o d
  BY DEF Pack
<1> HIDE DEF a, b
<1>4. Len(b) = 6 - 4 /\ 4 \in Nat /\ 6 \in Nat
  BY <1>2
<1>5. IsCatThree(P, Byte, a, 4, b, 6, d, n)
  BY <1>1, <1>2, <1>3, <1>4, CatThree
<1>6. /\ P \in Seq(Byte) /\ Len(P) = 6 + n
      /\ \A i \in 1..4 : P[i] = a[i]
      /\ \A i \in 1..2 : P[4 + i] = b[i]
      /\ \A i \in 1..n : P[6 + i] = d[i]
  BY <1>5 DEF IsCatThree
<1>7. HasAt(P, 0, a, 4)
  BY <1>1, <1>6 DEF HasAt
<1>8. HasAt(P, 4, b, 2)
  BY <1>2, <1>6 DEF HasAt
<1>9. HasAt(P, 6, d, n)
  BY <1>6 DEF HasAt
<1> QED
  BY <1>6, <1>7, <1>8, <1>9 DEF a, b, IsPacked

\* The header is four bytes.
LEMMA HeaderType == PackageHeader \in Seq(Byte) /\ Len(PackageHeader) = 4
<1>1. PackageHeader \in [1..4 -> Byte]
  BY ByteDef DEF PackageHeader
<1> QED
  BY <1>1, Fcn

\* Where Encode puts its fields.
IsEncoded(E, msg, n) ==
    /\ E \in Seq(Byte) /\ Len(E) = n + 16
    /\ HasAt(E, 0, PackageHeader, 4)
    /\ HasAt(E, 4, Digits(n + 8, 4), 4)
    /\ HasAt(E, 8, Digits(1, 8), 8)
    /\ HasAt(E, 16, msg, n)

\* Encode writes the header, the length, the message id and the content.
LEMMA EncodeShape ==
    ASSUME NEW msg \in Seq(Byte), NEW n \in Nat, n = Len(msg), NEW E, E = Encode(1, msg)
    PROVE  IsEncoded(E, msg, n)
<1> DEFINE a == PackageHeader
           b == Digits(n + 8, 4)
           c == Digits(1, 8)
           x == (a \o b) \o c
<1>0. n + 8 \in Nat /\ 1 \in Nat /\ 4 \in 0..8 /\ 8 \in 0..8
  OBVIOUS
<1>1. a \in Seq(Byte) /\ Len(a) = 4
  BY HeaderType
<1>2. b \in Seq(Byte) /\ Len(b) = 4
  BY <1>0, DigitsType
<1>3. c \in Seq(Byte) /\ Len(c) = 8
  BY <1>0, DigitsType
<1>4. E = x \o msg
  BY DEF Encode
<1>5. x = (a \o b) \o c
  OBVIOUS
<1> HIDE DEF a, b, c, x
<1>6. Len(b) = 8 - 4 /\ 4 \in Nat /\ 8 \in Nat
  BY <1>2
<1>7. IsCatThree(x, Byte, a, 4, b, 8, c, 8)
  BY <1>1, <1>2, <1>3, <1>5, <1>6, CatThree
<1>8. /\ x \in Seq(Byte) /\ Len(x) = 16
      /\ \A i \in 1..4 : x[i] = a[i]
      /\ \A i \in 1..4 : x[4 + i] = b[i]
      /\ \A i \in 1..8 : x[8 + i] = c[i]
  BY <1>7 DEF IsCatThree
<1>9. IsCat(E, Byte, x, 16, msg, n)
  BY <1>4, <1>8, CatTwo
<1>10. /\ E \in Seq(Byte) /\ Len(E) = 16 + n
       /\ \A i \in 1..16 : E[i] = x[i]
       /\ \A i \in 1..n : E[16 + i] = msg[i]
  BY <1>9 DEF IsCat
<1>11. \A i \in 1..4 : E[0 + i] = a[i]
  <2> TAKE i \in 1..4
  <2>1. i \in 1..16 /\ 0 + i = i
    OBVIOUS
  <2> QED
    BY <1>8, <1>10, <2>1
<1>12. \A i \in 1..4 : E[4 + i] = b[i]
  <2> TAKE i \in 1..4
  <2>1. 4 + i \in 1..16
    OBVIOUS
  <2> QED
    BY <1>8, <1>10, <2>1
<1>13. \A i \in 1..8 : E[8 + i] = c[i]
  <2> TAKE i \in 1..8
  <2>1. 8 + i \in 1..16
    OBVIOUS
  <2> QED
    BY <1>8, <1>10, <2>1
<1>14. HasAt(E, 0, a, 4)
  <2>1. Len(a) = 4
    BY <1>1
  <2>2. 0 + 4 <= Len(E)
    BY <1>10
  <2> HIDE DEF a, b, c
  <2> QED
    BY <2>1, <2>2, <1>11 DEF HasAt
<1>15. HasAt(E, 4, b, 4)
  <2>1. Len(b) = 4
    BY <1>2
  <2>2. 4 + 4 <= Len(E)
    BY <1>10
  <2> HIDE DEF a, b, c
  <2> QED
    BY <2>1, <2>2, <1>12 DEF HasAt
<1>16. HasAt(E, 8, c, 8)
  <2>1. Len(c) = 8
    BY <1>3
  <2>2. 8 + 8 <= Len(E)
    BY <1>10
  <2> HIDE DEF a, b, c
  <2> QED
    BY <2>1, <2>2, <1>13 DEF HasAt
<1>17. HasAt(E, 16, msg, n)
  BY <1>10 DEF HasAt
<1> QED
  BY <1>10, <1>14, <1>15, <1>16, <1>17 DEF a, b, c, IsEncoded

\* A field of a message, read from the start of a buffer.
Slice(data, x, y, D) == SubSeq(data, x, y) = D

\* A field that has arrived is read as it was written.
LEMMA Field ==
    ASSUME NEW data \in Seq(Byte), NEW B \in Seq(Byte), Fronts(data, B),
           NEW D \in Seq(Byte), NEW k \in Nat, NEW w \in Nat, HasAt(B, k, D, w),
           k + w <= Len(data), NEW x, NEW y, x = k + 1, y = k + w
    PROVE  Slice(data, x, y, D)
<1>1. \A i \in 1..w : data[k + i] = D[i]
  <2> TAKE i \in 1..w
  <2>1. Len(data) \in Nat /\ Len(B) \in Nat
    BY LenProperties
  <2>2. k + i \in 1..Len(data) /\ k + i <= Len(B)
    BY <2>1 DEF HasAt
  <2>3. data[k + i] = B[k + i]
    BY <2>2 DEF Fronts
  <2> QED
    BY <2>3 DEF HasAt
<1>2. Len(D) = w
  BY DEF HasAt
<1>3. SubSeq(data, k + 1, k + w) = D
  BY <1>1, <1>2, SliceIs
<1> QED
  BY <1>3 DEF Slice

\* A number, read from the start of a buffer.
LEMMA NumberField ==
    ASSUME NEW data \in Seq(Byte), NEW B \in Seq(Byte), Fronts(data, B),
           NEW n \in Nat, NEW w \in 0..8, NEW k \in Nat, HasAt(B, k, Digits(n, w), w),
           n < Weight[w], k + w <= Len(data), NEW x, NEW y, x = k + 1, y = k + w
    PROVE  Number(SubSeq(data, x, y)) = n
<1> DEFINE D == Digits(n, w)
<1>1. D \in Seq(Byte)
  BY DigitsType
<1>2. Number(D) = n
  BY RoundTrip
<1>3. HasAt(B, k, D, w) /\ w \in Nat
  OBVIOUS
<1> HIDE DEF D
<1>4. Slice(data, x, y, D)
  BY <1>1, <1>3, Field
<1> QED
  BY <1>2, <1>4 DEF Slice

\* The fields of Pack, read from the start of a buffer.
LEMMA PackFields ==
    ASSUME NEW cmd \in 0..9, NEW d \in Seq(Byte), NEW n \in Nat, n = Len(d), n + 2 < Weight[4],
           NEW P, P = Pack(cmd, d), NEW data \in Seq(Byte), Fronts(data, P), Len(data) >= 6
    PROVE  /\ Number(SubSeq(data, 1, 4)) = n + 2
           /\ Number(SubSeq(data, 5, 6)) = cmd
           /\ Len(data) >= n + 6 => Slice(data, 7, n + 6, d)
<1>1. /\ P \in Seq(Byte)
      /\ HasAt(P, 0, Digits(n + 2, 4), 4)
      /\ HasAt(P, 4, Digits(cmd, 2), 2)
      /\ HasAt(P, 6, d, n)
  BY PackShape DEF IsPacked
<1>2. Len(data) \in Nat
  BY LenProperties
<1>3. n + 2 \in Nat /\ 4 \in 0..8 /\ 2 \in 0..8 /\ 0 \in Nat /\ 4 \in Nat /\ 6 \in Nat
  OBVIOUS
<1>4. cmd \in Nat /\ cmd < Weight[2]
  <2>0. 2 \in 0..8
    OBVIOUS
  <2>1. Weight[2] >= 16 /\ Weight[2] \in Nat
    BY <2>0, WeightRoom, WeightPositive, Zenon
  <2> QED
    BY <2>1
<1>5. Number(SubSeq(data, 1, 4)) = n + 2
  <2>1. 0 + 4 <= Len(data) /\ 1 = 0 + 1 /\ 4 = 0 + 4
    BY <1>2
  <2> QED
    BY <1>1, <1>3, <2>1, NumberField
<1>6. Number(SubSeq(data, 5, 6)) = cmd
  <2>1. 4 + 2 <= Len(data) /\ 5 = 4 + 1 /\ 6 = 4 + 2
    BY <1>2
  <2> QED
    BY <1>1, <1>3, <1>4, <2>1, NumberField
<1>7. ASSUME Len(data) >= n + 6 PROVE Slice(data, 7, n + 6, d)
  <2>1. 6 + n <= Len(data) /\ 7 = 6 + 1 /\ n + 6 = 6 + n
    BY <1>2, <1>7
  <2> QED
    BY <1>1, <1>3, <2>1, Field
<1> QED
  BY <1>5, <1>6, <1>7

-----------------------------------------------------------------------------
(* Decoding what was encoded. *)

\* The service and the subscriber take a message when it is there, and wait for it before.
Taken(r, cmd, d, n, data) ==
    r = IF Len(data) < n + 6 THEN Wait ELSE Message(cmd, d, n + 6)

\* DecodeClient and DecodeNode read what Pack wrote.
LEMMA PlainDecode ==
    ASSUME NEW cmd \in 0..9, NEW d \in Seq(Byte), NEW n \in Nat, n = Len(d), n + 2 < Weight[4],
           NEW P, P = Pack(cmd, d), NEW data \in Seq(Byte), Fronts(data, P)
    PROVE  /\ Taken(DecodeClient(data), cmd, d, n, data)
           /\ cmd = CMD_TICK \/ (cmd = CMD_SET_PRO /\ n > 0)
                  => Taken(DecodeNode(data), cmd, d, n, data)
<1>1. Len(data) \in Nat
  BY LenProperties
<1>2. CASE Len(data) < 6
  <2>1. Len(data) < n + 6
    BY <1>1, <1>2
  <2>2. DecodeClient(data) = Wait /\ DecodeNode(data) = Wait
    BY <1>2 DEF DecodeClient, DecodeNode
  <2> QED
    BY <2>1, <2>2 DEF Taken
<1>3. CASE Len(data) >= 6
  <2> DEFINE l == Number(SubSeq(data, 1, 4))
             c == Number(SubSeq(data, 5, 6))
  <2>1. l = n + 2 /\ c = cmd /\ (Len(data) >= n + 6 => Slice(data, 7, n + 6, d))
    BY <1>3, PackFields
  <2>2. DecodeClient(data) =
            IF Len(data) < 6 THEN Wait
            ELSE IF ~hasCmd(c) THEN Drop
            ELSE IF Len(data) < l + 4 THEN Wait
            ELSE IF l < 2 THEN Panic
            ELSE Message(c, SubSeq(data, 7, l + 4), l + 4)
    BY DEF DecodeClient
  <2>3. DecodeNode(data) =
            IF Len(data) < 6 \/ Len(data) < l + 4 THEN Wait
            ELSE IF ~hasCmd(c) THEN Drop
            ELSE IF l < 2 \/ (c = CMD_SET_PRO /\ l = 2) THEN Panic
            ELSE IF c \notin {CMD_SET_PRO, CMD_TICK} THEN Drop
            ELSE Message(c, SubSeq(data, 7, l + 4), l + 4)
    BY DEF DecodeNode
  <2> HIDE DEF l, c
  <2>4. l + 4 = n + 6 /\ ~(Len(data) < 6) /\ hasCmd(c) /\ ~(l < 2) /\ (l = 2 => n = 0)
    BY <1>1, <1>3, <2>1 DEF hasCmd
  <2>5. CASE Len(data) < n + 6
    <3>1. DecodeClient(data) = Wait /\ DecodeNode(data) = Wait
      BY <2>2, <2>3, <2>4, <2>5
    <3> QED
      BY <2>5, <3>1 DEF Taken
  <2>6. CASE ~(Len(data) < n + 6)
    <3>1. SubSeq(data, 7, l + 4) = d
      BY <1>1, <2>1, <2>4, <2>6 DEF Slice
    <3>2. DecodeClient(data) = Message(cmd, d, n + 6)
      BY <2>1, <2>2, <2>4, <2>6, <3>1
    <3>3. ASSUME cmd = CMD_TICK \/ (cmd = CMD_SET_PRO /\ n > 0)
          PROVE  DecodeNode(data) = Message(cmd, d, n + 6)
      <4>1. ~(c = CMD_SET_PRO /\ l = 2) /\ c \in {CMD_SET_PRO, CMD_TICK}
        BY <2>1, <2>4, <3>3 DEF CMD_SET_PRO, CMD_TICK
      <4> QED
        BY <2>1, <2>3, <2>4, <2>6, <3>1, <4>1
    <3> QED
      BY <2>6, <3>2, <3>3 DEF Taken
  <2> QED
    BY <2>5, <2>6
<1> QED
  BY <1>1, <1>2, <1>3

\* The agent takes a package when it is there, and waits for it before.
LEMMA AgentDecode ==
    ASSUME NEW msg \in Seq(Byte), NEW n \in Nat, n = Len(msg), n + 8 < Weight[4],
           NEW E, E = Encode(1, msg), NEW data \in Seq(Byte), Fronts(data, E),
           Len(data) <= PackageMaxLength,
           NEW a \in Seq(Byte), Under(data, a), Shown(a, 0, 4) = PackageHeader
    PROVE  Decode(data, a) =
               IF Len(data) < n + 16 THEN {Wait} ELSE {Unpack(msg, n + 16)}
<1>1. Len(data) \in Nat /\ PackageMaxLength \in Nat /\ Len(a) \in Nat /\ Len(data) <= Len(a)
  BY LenProperties, WireAssumption DEF Under
<1> DEFINE clen == Number(Shown(a, 0 + 4, 0 + 8))
           msgID == Number(Shown(a, 0 + 8, 0 + 16))
           end == 0 + clen + 8
           past(x) == IF x > Len(a) THEN {Drop} ELSE {}
<1>2. Decode(data, a) =
          IF data = <<>> THEN {Wait}
          ELSE IF Len(data) > PackageMaxLength THEN {Drop}
          ELSE IF Len(data) < 16 THEN {Wait}
          ELSE IF clen < 8 THEN {Drop}
          ELSE IF Len(data) < clen + 8 THEN {Wait} \cup past(0 + 8)
          ELSE IF msgID = 0 \/ msgID >= Weight[8] \div 2 THEN {Wait} \cup past(end)
          ELSE {Unpack(Shown(a, 0 + 16, end), end)} \cup past(end)
  BY DEF Decode
<1>3. CASE Len(data) < 16
  BY <1>1, <1>2, <1>3
<1>4. CASE Len(data) >= 16
  <2>1. /\ E \in Seq(Byte)
        /\ HasAt(E, 4, Digits(n + 8, 4), 4)
        /\ HasAt(E, 8, Digits(1, 8), 8)
        /\ HasAt(E, 16, msg, n)
    BY EncodeShape DEF IsEncoded
  <2>2. n + 8 \in Nat /\ 1 \in Nat /\ 4 \in 0..8 /\ 8 \in 0..8 /\ 4 \in Nat /\ 8 \in Nat
        /\ 16 \in Nat
    OBVIOUS
  <2>3. 1 < Weight[8]
    <3>1. Weight[8] \in Nat /\ Weight[8] \div 2 > 1
      BY WeightRoom, WeightPositive
    <3> QED
      BY <3>1
  <2>4. clen = n + 8
    <3>1. 4 + 4 <= Len(data) /\ 5 = 4 + 1 /\ 8 = 4 + 4
      BY <1>1, <1>4
    <3>2. ShownAs(a, 4, 4 + 4, SubSeq(data, 4 + 1, 4 + 4))
      BY <2>2, <3>1, ShownSlice
    <3>3. Number(SubSeq(data, 5, 8)) = n + 8
      BY <2>1, <2>2, <3>1, NumberField
    <3>4. 0 + 4 = 4 /\ 0 + 8 = 4 + 4
      OBVIOUS
    <3> QED
      BY <3>1, <3>2, <3>3, <3>4 DEF ShownAs
  <2>5. msgID = 1
    <3>1. 8 + 8 <= Len(data) /\ 9 = 8 + 1 /\ 16 = 8 + 8
      BY <1>1, <1>4
    <3>2. ShownAs(a, 8, 8 + 8, SubSeq(data, 8 + 1, 8 + 8))
      BY <2>2, <3>1, ShownSlice
    <3>3. Number(SubSeq(data, 9, 16)) = 1
      BY <2>1, <2>2, <2>3, <3>1, NumberField
    <3>4. 0 + 8 = 8 /\ 0 + 16 = 8 + 8
      OBVIOUS
    <3> QED
      BY <3>1, <3>2, <3>3, <3>4 DEF ShownAs
  <2>6. ~(msgID = 0 \/ msgID >= Weight[8] \div 2)
    <3>1. Weight[8] \div 2 > 1 /\ Weight[8] \in Nat
      BY WeightRoom, WeightPositive
    <3> QED
      BY <2>5, <3>1
  <2> HIDE DEF clen, msgID
  <2>7. end = n + 16 /\ clen + 8 = n + 16 /\ ~(clen < 8)
    BY <2>4
  <2> HIDE DEF end
  <2>8. data # <<>> /\ ~(Len(data) > PackageMaxLength) /\ ~(Len(data) < 16)
        /\ past(0 + 8) = {}
    BY <1>1, <1>4, EmptySeq
  <2>9. CASE Len(data) < n + 16
    BY <1>2, <2>7, <2>8, <2>9
  <2>10. CASE ~(Len(data) < n + 16)
    <3>1. 16 + n <= Len(data) /\ 17 = 16 + 1 /\ n + 16 = 16 + n
      BY <1>1, <2>10
    <3>2. Slice(data, 17, n + 16, msg)
      BY <2>1, <2>2, <3>1, Field
    <3>3. ShownAs(a, 16, 16 + n, SubSeq(data, 16 + 1, 16 + n))
      BY <2>2, <3>1, ShownSlice
    <3>4. Shown(a, 0 + 16, end) = msg
      <4>1. 0 + 16 = 16 /\ end = 16 + n
        BY <2>7
      <4>2. SubSeq(data, 17, 16 + n) = msg
        BY <3>1, <3>2 DEF Slice
      <4>3. Shown(a, 16, 16 + n) = msg
        BY <3>1, <3>3, <4>2 DEF ShownAs
      <4> QED
        BY <4>1, <4>3
    <3>5. past(end) = {}
      BY <1>1, <2>7, <2>10
    <3> QED
      BY <1>2, <2>6, <2>7, <2>8, <2>10, <3>4, <3>5
  <2> QED
    BY <2>9, <2>10
<1> QED
  BY <1>1, <1>3, <1>4

\* What is in the agent's package of a message.
Inner(m) == IF m.cmd = CMD_TICK THEN <<0>> ELSE Pack(m.cmd, m.data)

\* What the agent encodes fits the length it writes.
LEMMA InnerShape ==
    ASSUME NEW m \in MessagesOf("agent")
    PROVE  /\ Inner(m) \in Seq(Byte) /\ Len(Inner(m)) \in Nat /\ Len(Inner(m)) + 8 < Weight[4]
           /\ Bytes("agent", m) = Encode(1, Inner(m))
<1>1. /\ m.cmd \in 0..9 /\ m.data \in Seq(Byte)
      /\ Len(m.data) + 14 < Weight[4]
  BY DEF MessagesOf, MessageRecord, Sendable
<1>2. Len(m.data) \in Nat /\ Weight[4] \in Nat
  <2>1. m.data \in Seq(Byte) /\ 4 \in 0..8
    BY <1>1
  <2>2. Len(m.data) \in Nat
    BY <2>1
  <2>3. Weight[4] \in Nat
    BY <2>1, WeightPositive, Zenon
  <2>4. QED
    BY <2>2, <2>3
<1>3. Bytes("agent", m) = Encode(1, Inner(m))
  BY DEF Bytes, Inner
<1>4. CASE m.cmd = CMD_TICK
  <2>1. <<0>> \in Seq(Byte) /\ Len(<<0>>) = 1
    BY ByteDef
  <2> QED
    BY <1>1, <1>2, <1>3, <1>4, <2>1 DEF Inner
<1>5. CASE m.cmd # CMD_TICK
  <2> DEFINE P == Pack(m.cmd, m.data)
             n == Len(m.data)
  <2>1. IsPacked(P, m.cmd, m.data, n)
    BY <1>1, <1>2, PackShape
  <2>2. P \in Seq(Byte) /\ Len(P) = n + 6
    BY <2>1 DEF IsPacked
  <2>3. Inner(m) = P
    BY <1>5 DEF Inner
  <2> HIDE DEF P
  <2> QED
    BY <1>1, <1>2, <1>3, <2>2, <2>3
<1> QED
  BY <1>4, <1>5

\* The agent's callback gets back what was packed.
LEMMA UnpackInner ==
    ASSUME NEW m \in MessagesOf("agent"), NEW size
    PROVE  Unpack(Inner(m), size) = Message(m.cmd, m.data, size)
<1>1. /\ m.cmd \in 0..9 /\ m.data \in Seq(Byte)
      /\ Len(m.data) + 14 < Weight[4]
      /\ m.cmd = CMD_TICK => m.data = <<>>
  BY DEF MessagesOf, MessageRecord, Sendable
<1>2. Len(m.data) \in Nat /\ Weight[4] \in Nat
  <2>1. m.data \in Seq(Byte) /\ 4 \in 0..8
    BY <1>1
  <2>2. Len(m.data) \in Nat
    BY <2>1
  <2>3. Weight[4] \in Nat
    BY <2>1, WeightPositive, Zenon
  <2>4. QED
    BY <2>2, <2>3
<1>3. CASE m.cmd = CMD_TICK
  <2>1. Inner(m) = <<0>>
    BY <1>3 DEF Inner
  <2>2. Unpack(<<0>>, size) = Message(CMD_TICK, <<>>, size)
    BY DEF Unpack
  <2> QED
    BY <1>1, <1>3, <2>1, <2>2
<1>4. CASE m.cmd # CMD_TICK
  <2>1. PICK d \in Seq(Byte), cmd \in 0..9 : d = m.data /\ cmd = m.cmd
    BY <1>1
  <2>2. PICK n \in Nat : n = Len(d)
    BY <1>2, <2>1
  <2>3. PICK P : P = Pack(cmd, d)
    OBVIOUS
  <2>4. Inner(m) = P
    BY <1>4, <2>1, <2>3 DEF Inner
  <2>5. IsPacked(P, cmd, d, n)
    BY <2>2, <2>3, PackShape
  <2>6. P \in Seq(Byte) /\ Len(P) = n + 6
    BY <2>5 DEF IsPacked
  <2>7. Fronts(P, P)
    BY DEF Fronts
  <2>8. n + 2 < Weight[4] /\ Len(P) >= 6 /\ Len(P) >= n + 6
    BY <1>1, <1>2, <2>1, <2>2, <2>6
  <2> DEFINE clen == Number(SubSeq(P, 1, 4))
             c == Number(SubSeq(P, 5, 6))
  <2>9. clen = n + 2 /\ c = cmd /\ Slice(P, 7, n + 6, d)
    BY <2>2, <2>3, <2>6, <2>7, <2>8, PackFields, SMTT(30)
  <2>10. Unpack(P, size) =
            IF P = <<0>> THEN Message(CMD_TICK, <<>>, size)
            ELSE IF Len(P) < 4 THEN Drop
            ELSE IF Len(P) < clen + 4 THEN Message(-1, <<>>, size)
            ELSE IF Len(P) < 6 \/ clen < 2 THEN Drop
            ELSE Message(c, SubSeq(P, 7, clen + 4), size)
    BY DEF Unpack
  <2> HIDE DEF clen, c
  <2>11. /\ P # <<0>> /\ ~(Len(P) < 4) /\ ~(Len(P) < clen + 4)
         /\ ~(Len(P) < 6 \/ clen < 2)
    <3>1. Len(<<0>>) = 1
      OBVIOUS
    <3>2. Len(P) # 1
      BY <2>6
    <3>3. P # <<0>>
      BY <3>1, <3>2
    <3>4. ~(Len(P) < 4) /\ ~(Len(P) < clen + 4) /\ ~(Len(P) < 6) /\ ~(clen < 2)
      BY <2>6, <2>9
    <3> QED
      BY <3>3, <3>4
  <2>12. SubSeq(P, 7, clen + 4) = d
    <3>1. clen + 4 = n + 6
      BY <2>9
    <3> QED
      BY <2>9, <3>1 DEF Slice
  <2> QED
    BY <2>1, <2>4, <2>9, <2>10, <2>11, <2>12
<1> QED
  BY <1>3, <1>4

\* The subscriber's library writes the length in three bytes and a zero.
LEMMA LengthOfSmall ==
    ASSUME NEW l \in Nat, l < Weight[3]
    PROVE  LengthOf(l) = Digits(l, 4)
<1> DEFINE D == Digits(l, 5)
           F == Digits(l, 4)
           G == SubSeq(D, 1, 3)
           L == G \o <<D[5]>>
<1>0. 4 \in 0..8 /\ 5 \in 0..8
  OBVIOUS
<1>1. /\ D \in Seq(Byte) /\ Len(D) = 5
      /\ \A i \in 1..5 : D[i] = (l \div Weight[i - 1]) % Base
  BY <1>0, DigitsType
<1>2. /\ F \in Seq(Byte) /\ Len(F) = 4
      /\ \A i \in 1..4 : F[i] = (l \div Weight[i - 1]) % Base
  BY <1>0, DigitsType
<1>3. L = LengthOf(l)
  BY DEF LengthOf
<1> HIDE DEF D, F
<1>4. l \div Weight[3] = 0 /\ l \div Weight[4] = 0
  BY WeightRoom
<1>5. D[5] = 0 /\ F[4] = 0
  <2>1. 0 % Base = 0
    BY Bases
  <2>2. 5 - 1 = 4 /\ 4 - 1 = 3 /\ 5 \in 1..5 /\ 4 \in 1..4
    OBVIOUS
  <2>3. D[5] = (l \div Weight[4]) % Base
    BY <1>1, <2>2
  <2>4. F[4] = (l \div Weight[3]) % Base
    BY <1>2, <2>2
  <2> QED
    BY <1>4, <2>1, <2>3, <2>4
<1>6. G \in Seq(Byte) /\ Len(G) = 3 /\ \A i \in 1..3 : G[i] = D[i]
  <2>0. \A i \in 1..3 : i \in 1..Len(D)
    BY <1>1
  <2>6. \A i \in 1..Len(D) : D[i] \in Byte
    BY <1>1, ElementOfSeq
  <2>1. 1 \in Int /\ 3 \in Int /\ \A i \in 1..3 : D[i] \in Byte
    BY <2>0, <2>6
  <2>2. G \in Seq(Byte)
    BY <2>1, SubSeqProperties
  <2>3. Len(G) = IF 1 <= 3 THEN 3 - 1 + 1 ELSE 0
    BY <2>1, SubSeqProperties
  <2>4. \A i \in 1..(3 - 1 + 1) : G[i] = D[1 + i - 1]
    BY <2>1, SubSeqProperties
  <2> HIDE DEF G
  <2>5. \A i \in 1..3 : i \in 1..(3 - 1 + 1) /\ 1 + i - 1 = i
    OBVIOUS
  <2> QED
    BY <2>2, <2>3, <2>4, <2>5
<1>7. <<D[5]>> \in Seq(Byte) /\ Len(<<D[5]>>) = 1 /\ <<D[5]>>[1] = 0
  BY <1>5, ByteDef
<1> DEFINE z == <<D[5]>>
<1>8. z \in Seq(Byte) /\ Len(z) = 1 /\ z[1] = 0 /\ L = G \o z
  BY <1>7
<1> HIDE DEF G, L, z
<1>9. IsCat(L, Byte, G, 3, z, 1)
  BY <1>6, <1>8, CatTwo
<1>10. /\ L \in Seq(Byte) /\ Len(L) = 4
       /\ \A i \in 1..3 : L[i] = G[i]
       /\ \A i \in 1..1 : L[3 + i] = z[i]
  BY <1>9 DEF IsCat
<1>11. L[4] = 0
  <2>1. 1 \in 1..1 /\ 3 + 1 = 4
    OBVIOUS
  <2> QED
    BY <1>8, <1>10, <2>1
<1>12. \A i \in 1..3 : L[i] = F[i]
  BY <1>1, <1>2, <1>6, <1>10
<1>13. \A i \in 1..4 : L[i] = F[i]
  <2> TAKE i \in 1..4
  <2>1. i \in 1..3 \/ i = 4
    OBVIOUS
  <2> QED
    BY <1>5, <1>11, <1>12, <2>1
<1>14. L = F
  BY <1>2, <1>10, <1>13, SeqEqual
<1> QED
  BY <1>3, <1>14 DEF F

\* In every protocol the bytes are those of Pack, the agent's in a package.
LEMMA PlainBytes ==
    ASSUME NEW proto \in {"node", "client"}, NEW m \in MessagesOf(proto)
    PROVE  /\ Bytes(proto, m) = Pack(m.cmd, m.data)
           /\ m.cmd \in 0..9 /\ m.data \in Seq(Byte)
           /\ Len(m.data) \in Nat /\ Len(m.data) + 2 < Weight[4]
           /\ proto = "node" => \/ m.cmd = CMD_TICK
                                \/ m.cmd = CMD_SET_PRO /\ Len(m.data) > 0
<1>1. m.cmd \in 0..9 /\ m.data \in Seq(Byte)
  BY DEF MessagesOf, MessageRecord
<1>2. Len(m.data) \in Nat
  BY <1>1, LenProperties
<1>3. CASE proto = "client"
  <2>1. Bytes(proto, m) = Pack(m.cmd, m.data)
    BY <1>3 DEF Bytes
  <2>2. Len(m.data) + 2 < Weight[4]
    BY <1>3 DEF MessagesOf, Sendable
  <2> QED
    BY <1>1, <1>2, <1>3, <2>1, <2>2
<1>4. CASE proto = "node"
  <2>1. /\ \/ m.cmd = CMD_TICK /\ m.data = <<>>
           \/ m.cmd = CMD_SET_PRO /\ m.data # <<>> /\ Head(m.data) = 0
        /\ Len(m.data) + 2 < Weight[3]
    BY <1>4 DEF MessagesOf, Sendable
  <2>2. Len(m.data) + 2 < Weight[4] /\ Len(m.data) + 2 \in Nat
    <3>0. 4 \in 0..8
      OBVIOUS
    <3>1. Weight[3] \in Nat /\ Weight[4] \in Nat /\ Weight[4] >= Weight[3]
      BY <3>0, WeightRoom, WeightPositive, Zenon
    <3> QED
      BY <1>2, <2>1, <3>1
  <2>3. LengthOf(Len(m.data) + 2) = Digits(Len(m.data) + 2, 4)
    BY <2>1, <2>2, LengthOfSmall
  <2>4. CASE m.cmd = CMD_TICK /\ m.data = <<>>
    <3>1. Bytes(proto, m) = pack(CMD_TICK, <<>>)
      BY <1>4, <2>4 DEF Bytes
    <3> QED
      BY <1>1, <1>2, <1>4, <2>2, <2>3, <2>4, <3>1 DEF pack, Pack
  <2>5. CASE m.cmd = CMD_SET_PRO /\ m.data # <<>> /\ Head(m.data) = 0
    <3>1. Bytes(proto, m) = setPro(Tail(m.data))
      <4>1. m.cmd # CMD_TICK
        BY <2>5 DEF CMD_SET_PRO, CMD_TICK
      <4> QED
        BY <1>4, <4>1 DEF Bytes
    <3>2. PICK d \in Seq(Byte) : d = m.data
      BY <1>1
    <3>3. PICK t \in Seq(Byte) : t = Tail(d) /\ Len(t) = Len(d) - 1
      BY <2>5, <3>2, HeadTailProperties
    <3>4. Len(t) + 3 = Len(d) + 2
      BY <1>2, <3>2, <3>3
    <3> DEFINE x == Digits(Len(d) + 2, 4)
               y == Digits(CMD_SET_PRO, 2)
               u == x \o y
               z == <<0>>
    <3>5. Bytes(proto, m) = (u \o z) \o t
      BY <2>3, <3>1, <3>2, <3>3, <3>4 DEF setPro
    <3>6. u \in Seq(Byte)
      <4>1. x \in Seq(Byte)
        <5>1. Len(d) + 2 \in Nat /\ 4 \in 0..8
          BY <2>2, <3>2
        <5> QED
          BY <5>1, DigitsType
      <4>2. y \in Seq(Byte)
        BY DigitsType DEF CMD_SET_PRO
      <4> HIDE DEF x, y
      <4> QED
        BY <4>1, <4>2, ConcatProperties
    <3>7. z \in Seq(Byte)
      BY ByteDef
    <3>8. Pack(m.cmd, m.data) = u \o d
      BY <2>5, <3>2 DEF Pack
    <3>9. z \o t = d
      <4>1. <<Head(d)>> \o Tail(d) = d
        <5>1. Append(<<>>, Head(d)) \o Tail(d) = <<>> \o d
          BY <2>5, <3>2, EmptySeq, CatShift
        <5>2. <<>> \o d = d
          BY <3>2, ConcatEmptySeq
        <5>3. Append(<<>>, Head(d)) = <<Head(d)>>
          OBVIOUS
        <5> QED
          BY <5>1, <5>2, <5>3
      <4> QED
        BY <2>5, <3>2, <3>3, <4>1
    <3> HIDE DEF u, z
    <3>10. (u \o z) \o t = u \o (z \o t)
      BY <3>6, <3>7, ByteAssoc, ZenonT(30)
    <3>11. Bytes(proto, m) = Pack(m.cmd, m.data)
      BY <3>5, <3>8, <3>9, <3>10
    <3>12. Len(m.data) > 0
      BY <1>2, <3>2, <3>3
    <3> QED
      BY <1>1, <1>2, <1>4, <2>2, <2>5, <3>11, <3>12
  <2> QED
    BY <2>1, <2>4, <2>5
<1> QED
  BY <1>3, <1>4

\* What decoding a buffer comes to.
ResultsOf(proto, data, a) ==
    CASE proto = "agent" -> Decode(data, a)
      [] proto = "node" -> {DecodeNode(data)}
      [] proto = "client" -> {DecodeClient(data)}

\* A message of bytes B at the start of the buffer is waited for, or taken.
Decoded(R, m, B, data) ==
    R = IF Len(data) < Len(B) THEN {Wait} ELSE {Message(m.cmd, m.data, Len(B))}

\* The bytes of a message are bytes, at least six; the agent's start with a header.
LEMMA BytesShape ==
    ASSUME NEW proto \in Protos, NEW m \in MessagesOf(proto), NEW B, B = Bytes(proto, m)
    PROVE  /\ B \in Seq(Byte) /\ Len(B) \in Nat /\ Len(B) >= 6
           /\ proto = "agent" => \A i \in 1..4 : B[i] = PackageHeader[i]
<1>1. CASE proto = "agent"
  <2>1. PICK msg \in Seq(Byte), n \in Nat : n = Len(msg) /\ B = Encode(1, msg)
    BY <1>1, InnerShape
  <2>2. IsEncoded(B, msg, n)
    BY <2>1, EncodeShape
  <2>3. B \in Seq(Byte) /\ Len(B) = n + 16 /\ \A i \in 1..4 : B[0 + i] = PackageHeader[i]
    BY <2>2 DEF IsEncoded, HasAt
  <2>4. \A i \in 1..4 : 0 + i = i
    OBVIOUS
  <2> QED
    BY <2>3, <2>4
<1>2. CASE proto # "agent"
  <2>1. proto \in {"node", "client"}
    BY <1>2 DEF Protos
  <2>2. PICK d \in Seq(Byte), cmd \in 0..9, n \in Nat : n = Len(d) /\ B = Pack(cmd, d)
    BY <2>1, PlainBytes
  <2>3. IsPacked(B, cmd, d, n)
    BY <2>2, PackShape
  <2>4. B \in Seq(Byte) /\ Len(B) = n + 6
    BY <2>3 DEF IsPacked
  <2> QED
    BY <1>2, <2>4
<1> QED
  BY <1>1, <1>2

\* Decoding gives back what was encoded, however the bytes were cut.
LEMMA Decodes ==
    ASSUME NEW proto \in Protos, NEW m \in MessagesOf(proto), NEW B, B = Bytes(proto, m),
           NEW data \in Seq(Byte), Fronts(data, B), NEW a \in Seq(Byte), Under(data, a),
           proto = "agent" => /\ Len(data) <= PackageMaxLength
                              /\ data = <<>> \/ Shown(a, 0, 4) = PackageHeader
    PROVE  Decoded(ResultsOf(proto, data, a), m, B, data)
<1>1. CASE proto = "agent"
  <2>1. PICK msg \in Seq(Byte), n \in Nat : /\ n = Len(msg) /\ B = Encode(1, msg)
                                            /\ n + 8 < Weight[4] /\ msg = Inner(m)
    BY <1>1, InnerShape
  <2>2. IsEncoded(B, msg, n)
    BY <2>1, EncodeShape
  <2>3. Len(B) = n + 16
    BY <2>2 DEF IsEncoded
  <2>4. ResultsOf(proto, data, a) = Decode(data, a)
    BY <1>1 DEF ResultsOf
  <2>5. CASE data = <<>>
    <3>1. Decode(data, a) = {Wait}
      BY <2>5 DEF Decode
    <3>2. Len(data) = 0
      BY <2>5
    <3> QED
      BY <2>3, <2>4, <3>1, <3>2 DEF Decoded
  <2>6. CASE data # <<>>
    <3>1. Shown(a, 0, 4) = PackageHeader /\ Len(data) <= PackageMaxLength
      BY <1>1, <2>6
    <3>2. Decode(data, a) = IF Len(data) < n + 16 THEN {Wait} ELSE {Unpack(msg, n + 16)}
      BY <2>1, <3>1, AgentDecode
    <3>3. Unpack(msg, n + 16) = Message(m.cmd, m.data, n + 16)
      BY <1>1, <2>1, UnpackInner
    <3> QED
      BY <2>3, <2>4, <3>1, <3>2, <3>3 DEF Decoded
  <2> QED
    BY <2>5, <2>6
<1>2. CASE proto # "agent"
  <2>1. proto \in {"node", "client"}
    BY <1>2 DEF Protos
  <2>2. PICK d \in Seq(Byte), cmd \in 0..9, n \in Nat :
            /\ d = m.data /\ cmd = m.cmd /\ n = Len(d) /\ B = Pack(cmd, d)
            /\ n + 2 < Weight[4]
            /\ proto = "node" => cmd = CMD_TICK \/ (cmd = CMD_SET_PRO /\ n > 0)
    BY <2>1, PlainBytes
  <2>3. IsPacked(B, cmd, d, n)
    BY <2>2, PackShape
  <2>4. Len(B) = n + 6
    BY <2>3 DEF IsPacked
  <2>5. /\ Taken(DecodeClient(data), cmd, d, n, data)
        /\ cmd = CMD_TICK \/ (cmd = CMD_SET_PRO /\ n > 0)
               => Taken(DecodeNode(data), cmd, d, n, data)
    BY <2>2, PlainDecode
  <2>6. CASE proto = "client"
    <3>1. ResultsOf(proto, data, a) = {DecodeClient(data)}
      BY <2>6 DEF ResultsOf
    <3> QED
      BY <2>2, <2>4, <2>5, <3>1 DEF Taken, Decoded
  <2>7. CASE proto = "node"
    <3>1. ResultsOf(proto, data, a) = {DecodeNode(data)}
      BY <2>7 DEF ResultsOf
    <3> QED
      BY <2>2, <2>4, <2>5, <2>7, <3>1 DEF Taken, Decoded
  <2> QED
    BY <2>1, <2>6, <2>7
<1> QED
  BY <1>1, <1>2

-----------------------------------------------------------------------------
(* Streams. *)

\* The bytes of each message of a sequence.
LEMMA EachBytes ==
    ASSUME NEW proto \in Protos, NEW ms \in Seq(MessagesOf(proto)),
           NEW bs, bs = [i \in DOMAIN ms |-> Bytes(proto, ms[i])]
    PROVE  /\ bs \in Seq(Seq(Byte)) /\ Len(bs) = Len(ms)
           /\ \A i \in 1..Len(ms) : bs[i] = Bytes(proto, ms[i])
<1>1. DOMAIN ms = 1..Len(ms) /\ Len(ms) \in Nat
  BY LenProperties
<1>2. ASSUME NEW i \in 1..Len(ms) PROVE Bytes(proto, ms[i]) \in Seq(Byte)
  <2>1. ms[i] \in MessagesOf(proto)
    BY ElementOfSeq
  <2> QED
    BY <2>1, BytesShape
<1>3. bs \in [1..Len(ms) -> Seq(Byte)]
  BY <1>1, <1>2
<1> QED
  BY <1>1, <1>3, Fcn

\* The bytes of two sequences of messages are one after the other, ...
LEMMA AllBytesConcat ==
    ASSUME NEW proto \in Protos, NEW x \in Seq(MessagesOf(proto)),
           NEW y \in Seq(MessagesOf(proto))
    PROVE  AllBytes(proto, x \o y) = AllBytes(proto, x) \o AllBytes(proto, y)
<1> DEFINE z == x \o y
           bx == [i \in DOMAIN x |-> Bytes(proto, x[i])]
           by == [i \in DOMAIN y |-> Bytes(proto, y[i])]
           bz == [i \in DOMAIN z |-> Bytes(proto, z[i])]
           bc == bx \o by
<1>1. PICK k \in Nat, l \in Nat : k = Len(x) /\ l = Len(y)
  BY LenProperties
<1>2. IsCat(z, MessagesOf(proto), x, k, y, l)
  BY <1>1, CatTwo
<1>3. /\ z \in Seq(MessagesOf(proto)) /\ Len(z) = k + l
      /\ \A i \in 1..k : z[i] = x[i]
      /\ \A i \in 1..l : z[k + i] = y[i]
  BY <1>2 DEF IsCat
<1>4. /\ AllBytes(proto, x) = FlattenSeq(bx) /\ AllBytes(proto, y) = FlattenSeq(by)
      /\ AllBytes(proto, z) = FlattenSeq(bz)
  BY DEF AllBytes
<1> HIDE DEF z
<1>5. bx \in Seq(Seq(Byte)) /\ Len(bx) = k /\ \A i \in 1..k : bx[i] = Bytes(proto, x[i])
  BY <1>1, EachBytes
<1>6. by \in Seq(Seq(Byte)) /\ Len(by) = l /\ \A i \in 1..l : by[i] = Bytes(proto, y[i])
  BY <1>1, EachBytes
<1>7. /\ bz \in Seq(Seq(Byte)) /\ Len(bz) = k + l
      /\ \A i \in 1..(k + l) : bz[i] = Bytes(proto, z[i])
  <2>0. z \in Seq(MessagesOf(proto))
    BY <1>3
  <2>1. /\ bz \in Seq(Seq(Byte)) /\ Len(bz) = Len(z)
        /\ \A i \in 1..Len(z) : bz[i] = Bytes(proto, z[i])
    BY <2>0, EachBytes
  <2> HIDE DEF bz
  <2> QED
    BY <1>3, <2>1
<1> HIDE DEF bx, by, bz
<1>8. IsCat(bc, Seq(Byte), bx, k, by, l)
  BY <1>5, <1>6, CatTwo
<1>9. FlattenSeq(bc) = FlattenSeq(bx) \o FlattenSeq(by)
  BY <1>5, <1>6, FlattenConcat
<1> HIDE DEF bc
<1>10. /\ bc \in Seq(Seq(Byte)) /\ Len(bc) = k + l
       /\ \A i \in 1..k : bc[i] = bx[i]
       /\ \A i \in 1..l : bc[k + i] = by[i]
  BY <1>8 DEF IsCat
<1>11. \A i \in 1..(k + l) : bz[i] = bc[i]
  <2> TAKE i \in 1..(k + l)
  <2>1. CASE i \in 1..k
    BY <1>3, <1>5, <1>7, <1>10, <2>1
  <2>2. CASE i \notin 1..k
    <3>1. PICK j \in 1..l : i = k + j
      <4>1. i - k \in 1..l /\ i = k + (i - k)
        BY <2>2
      <4> QED
        BY <4>1
    <3>2. bz[k + j] = Bytes(proto, y[j]) /\ bc[k + j] = Bytes(proto, y[j])
      BY <1>3, <1>6, <1>7, <1>10, <3>1
    <3> QED
      BY <3>1, <3>2
  <2> QED
    BY <2>1, <2>2
<1>12. bz = bc
  BY <1>7, <1>10, <1>11, SeqEqual
<1> QED
  BY <1>4, <1>9, <1>12 DEF z

\* ... and are bytes;
LEMMA AllBytesType ==
    ASSUME NEW proto \in Protos, NEW ms \in Seq(MessagesOf(proto))
    PROVE  AllBytes(proto, ms) \in Seq(Byte) /\ Len(AllBytes(proto, ms)) \in Nat
<1> DEFINE bs == [i \in DOMAIN ms |-> Bytes(proto, ms[i])]
<1>1. bs \in Seq(Seq(Byte))
  BY EachBytes
<1>2. AllBytes(proto, ms) = FlattenSeq(bs)
  BY DEF AllBytes
<1> HIDE DEF bs
<1>3. FlattenSeq(bs) \in Seq(Byte)
  BY <1>1, FlattenConcat
<1> QED
  BY <1>2, <1>3, LenProperties

\* no message has none, ...
LEMMA AllBytesNone == \A proto : AllBytes(proto, <<>>) = <<>>
<1> TAKE proto
<1>1. [i \in DOMAIN <<>> |-> Bytes(proto, <<>>[i])] = <<>>
  OBVIOUS
<1>2. FlattenSeq(<<>>) = <<>>
  BY DEF FlattenSeq
<1> QED
  BY <1>1, <1>2 DEF AllBytes

\* ... and one message has its own.
LEMMA AllBytesOne ==
    ASSUME NEW proto \in Protos, NEW m \in MessagesOf(proto)
    PROVE  AllBytes(proto, <<m>>) = Bytes(proto, m)
<1> DEFINE B == Bytes(proto, m)
<1>1. B \in Seq(Byte)
  BY BytesShape
<1>2. [i \in DOMAIN <<m>> |-> Bytes(proto, <<m>>[i])] = <<B>>
  OBVIOUS
<1>3. AllBytes(proto, <<m>>) = FlattenSeq(<<B>>)
  BY <1>2 DEF AllBytes
<1> HIDE DEF B
<1> DEFINE A == <<B>>
<1>4. A \in Seq(Seq(Byte)) /\ Len(A) = 1 /\ A[1] = B
  BY <1>1
<1> HIDE DEF A
<1>5. PICK f : Flattens(f, Byte, A, 1) /\ FlattenSeq(A) = f[1]
  BY <1>4, FlattenDef
<1>6. f[0] = <<>> /\ f[1] = f[1 - 1] \o A[1]
  <2>1. 1 \in 1..1
    OBVIOUS
  <2> QED
    BY <1>5, <2>1 DEF Flattens
<1>7. f[1] = <<>> \o B
  <2>1. 1 - 1 = 0
    OBVIOUS
  <2> QED
    BY <1>4, <1>6, <2>1, Zenon
<1>8. <<>> \o B = B
  BY <1>1, ConcatEmptySeq
<1> QED
  BY <1>3, <1>5, <1>7, <1>8 DEF A, B

\* The bytes of the first message, then those of the others.
LEMMA AllBytesFirst ==
    ASSUME NEW proto \in Protos, NEW ms \in Seq(MessagesOf(proto)), ms # <<>>
    PROVE  /\ Head(ms) \in MessagesOf(proto) /\ Tail(ms) \in Seq(MessagesOf(proto))
           /\ AllBytes(proto, ms) = Bytes(proto, Head(ms)) \o AllBytes(proto, Tail(ms))
<1> DEFINE M == MessagesOf(proto)
           h == Head(ms)
           t == Tail(ms)
<1>1. h \in M /\ t \in Seq(M)
  BY HeadTailProperties
<1>2. Append(<<>>, h) \o t = <<>> \o ms
  BY EmptySeq, CatShift
<1>3. <<>> \o ms = ms
  BY ConcatEmptySeq
<1> HIDE DEF h, t, M
<1>4. Append(<<>>, h) = <<h>>
  OBVIOUS
<1>5. <<h>> \o t = ms
  BY <1>2, <1>3, <1>4
<1>6. <<h>> \in Seq(M)
  BY <1>1
<1>7. AllBytes(proto, <<h>> \o t) = AllBytes(proto, <<h>>) \o AllBytes(proto, t)
  BY <1>1, <1>6, AllBytesConcat DEF M
<1>8. AllBytes(proto, <<h>>) = Bytes(proto, h)
  BY <1>1, AllBytesOne DEF M
<1>9. AllBytes(proto, ms) = Bytes(proto, h) \o AllBytes(proto, t)
  BY <1>5, <1>7, <1>8
<1> QED
  BY <1>1, <1>9 DEF h, t, M

\* A set of numbers up to n has a maximum.
LEMMA MaxIs ==
    ASSUME NEW n \in Nat, NEW T, T \subseteq 0..n, T # {}
    PROVE  Max(T) \in T /\ \A y \in T : y <= Max(T)
<1> DEFINE U == {n - y : y \in T}
<1>1. U \in SUBSET Nat /\ U # {}
  <2>1. \A y \in T : y \in 0..n
    OBVIOUS
  <2>2. \A y \in T : n - y \in Nat
    BY <2>1
  <2> QED
    BY <2>2
<1>2. PICK u \in U : \A v \in U : u <= v
  BY <1>1, MinExists
<1>3. PICK x \in T : u = n - x
  OBVIOUS
<1>4. \A y \in T : y <= x
  <2> TAKE y \in T
  <2>1. n - y \in U
    OBVIOUS
  <2>2. n - x <= n - y
    BY <1>2, <1>3, <2>1
  <2>3. x \in 0..n /\ y \in 0..n
    OBVIOUS
  <2> QED
    BY <2>2, <2>3
<1>5. \E z \in T : \A y \in T : y <= z
  BY <1>4
<1>6. \E z \in T : \A y \in T : z >= y
  BY <1>5
<1>7. Max(T) \in T /\ \A y \in T : Max(T) >= y
  BY <1>6 DEF Max
<1> QED
  BY <1>7

\* The bytes a read takes, and the bytes it leaves.
Cut(b, s, n, k, c, r) ==
    /\ c \in Seq(Byte) /\ r \in Seq(Byte) /\ Len(c) = Len(b) + k /\ Len(r) = n - k
    /\ c \o r = b \o s

\* A read moves bytes from the stream to the buffer and loses none.
LEMMA CutStream ==
    ASSUME NEW b \in Seq(Byte), NEW s \in Seq(Byte), NEW n \in Nat, n = Len(s), NEW k \in 0..n,
           NEW c, c = b \o SubSeq(s, 1, k), NEW r, r = SubSeq(s, k + 1, n)
    PROVE  Cut(b, s, n, k, c, r)
<1> DEFINE a == SubSeq(s, 1, k)
<1>1. 1 \in Nat /\ k \in Nat /\ k + 1 \in Nat /\ 1 >= 1 /\ k + 1 >= 1 /\ k <= Len(s) /\ n <= Len(s)
  OBVIOUS
<1>2. a \in Seq(Byte)
  BY <1>1, SliceType
<1>3. Len(a) = IF 1 <= k THEN k - 1 + 1 ELSE 0
  BY <1>1, SliceType
<1>4. r \in Seq(Byte)
  BY <1>1, SliceType
<1>5. Len(r) = IF k + 1 <= n THEN n - (k + 1) + 1 ELSE 0
  BY <1>1, SliceType
<1>6. a \o r = s
  <2>1. 1 \in 1..(Len(s) + 1) /\ k \in (1 - 1)..Len(s) /\ n \in k..Len(s)
    OBVIOUS
  <2>2. SubSeq(s, 1, k) \o SubSeq(s, k + 1, n) = SubSeq(s, 1, n)
    BY <2>1, ConcatAdjacentSubSeq
  <2>3. SubSeq(s, 1, n) = s
    BY SubSeqFull
  <2> QED
    BY <2>2, <2>3
<1>7. c = b \o a
  OBVIOUS
<1> HIDE DEF a
<1>8. Len(a) = k /\ Len(r) = n - k
  BY <1>3, <1>5
<1>9. c \in Seq(Byte) /\ Len(c) = Len(b) + Len(a)
  BY <1>2, <1>7, ConcatProperties
<1>10. (b \o a) \o r = b \o (a \o r)
  BY <1>2, <1>4, ByteAssoc, ZenonT(30)
<1> QED
  BY <1>4, <1>6, <1>7, <1>8, <1>9, <1>10 DEF Cut

\* What is in the buffer and what is to come are the bytes of q and p, of which q
\* has arrived and p has not.
InStep(proto, b, s, q, p) ==
    /\ b \in Seq(Byte) /\ s \in Seq(Byte)
    /\ q \in Seq(MessagesOf(proto)) /\ p \in Seq(MessagesOf(proto))
    /\ b \o s = AllBytes(proto, q \o p)
    /\ Len(s) <= Len(AllBytes(proto, p))
    /\ p # <<>> => Len(s) > Len(AllBytes(proto, Tail(p)))

\* The bytes that are left when j messages of p have arrived.
Left(proto, p, j) == Len(AllBytes(proto, SubSeq(p, j + 1, Len(p))))

\* How many messages of p have arrived when the bytes r are left.
Done(proto, p, r) == Max({j \in 0..Len(p) : Len(r) <= Left(proto, p, j)})

\* What a read of k bytes makes of a receiver in step.
IsRead(proto, b, p, k, c, r, q, t) ==
    InStep(proto, c, r, q, t) /\ Len(c) = Len(b) + k /\ q \o t = p

\* A read keeps the receiver in step.
LEMMA ReadInStep ==
    ASSUME NEW proto \in Protos, NEW b, NEW s, NEW p, InStep(proto, b, s, <<>>, p),
           NEW n \in Nat, n = Len(s), NEW k \in 0..n,
           NEW c, c = b \o SubSeq(s, 1, k), NEW r, r = SubSeq(s, k + 1, n),
           NEW d, d = Done(proto, p, r),
           NEW q, q = SubSeq(p, 1, d), NEW t, t = SubSeq(p, d + 1, Len(p))
    PROVE  IsRead(proto, b, p, k, c, r, q, t)
<1>0. /\ b \in Seq(Byte) /\ s \in Seq(Byte) /\ p \in Seq(MessagesOf(proto))
      /\ b \o s = AllBytes(proto, <<>> \o p)
      /\ n <= Len(AllBytes(proto, p))
  BY DEF InStep
<1> DEFINE M == MessagesOf(proto)
           T == {j \in 0..Len(p) : Len(r) <= Left(proto, p, j)}
           l == Len(p)
<1>a. Cut(b, s, n, k, c, r)
  BY <1>0, CutStream
<1>1. /\ c \in Seq(Byte) /\ r \in Seq(Byte) /\ Len(c) = Len(b) + k /\ Len(r) = n - k
      /\ c \o r = b \o s
  BY <1>a DEF Cut
<1>2. <<>> \o p = p
  BY <1>0, ConcatEmptySeq
<1>3. l \in Nat
  BY <1>0, LenProperties
<1>4. Left(proto, p, 0) = Len(AllBytes(proto, p)) /\ Len(AllBytes(proto, p)) \in Nat
  <2>1. SubSeq(p, 0 + 1, Len(p)) = p
    BY <1>0, SubSeqFull
  <2> QED
    BY <1>0, <2>1, AllBytesType DEF Left
<1>5. 0 \in T
  BY <1>0, <1>1, <1>3, <1>4
<1>6. d \in T /\ \A j \in T : j <= d
  <2>1. T \subseteq 0..l /\ T # {}
    BY <1>5
  <2>2. d = Max(T)
    BY DEF Done
  <2> HIDE DEF T, l
  <2> QED
    BY <1>3, <2>1, <2>2, MaxIs
<1>7. d \in 0..l /\ Len(r) <= Left(proto, p, d)
  BY <1>6
<1>8. q \in Seq(M) /\ t \in Seq(M)
  <2>0. d \in Nat /\ d <= l
    <3> HIDE DEF l
    <3> QED
      BY <1>3, <1>7
  <2>1. 1 \in Nat /\ d \in Nat /\ d + 1 \in Nat /\ 1 >= 1 /\ d + 1 >= 1 /\ d <= Len(p)
        /\ l <= Len(p)
    <3>1. l <= Len(p) /\ d <= Len(p)
      BY <1>3, <2>0
    <3> HIDE DEF l
    <3> QED
      BY <2>0, <3>1
  <2>2. q \in Seq(M)
    BY <1>0, <2>1, SliceType
  <2>3. t \in Seq(M)
    BY <1>0, <1>3, <2>1, SliceType
  <2> QED
    BY <2>2, <2>3
<1>9. q \o t = p
  <2>1. 1 \in 1..(Len(p) + 1) /\ d \in (1 - 1)..Len(p) /\ l \in d..Len(p)
    BY <1>3, <1>7
  <2>2. SubSeq(p, 1, d) \o SubSeq(p, d + 1, l) = SubSeq(p, 1, l)
    BY <1>0, <2>1, ConcatAdjacentSubSeq
  <2>3. SubSeq(p, 1, l) = p
    BY <1>0, SubSeqFull
  <2> QED
    BY <2>2, <2>3
<1>10. c \o r = AllBytes(proto, q \o t)
  BY <1>0, <1>1, <1>2, <1>9
<1>11. Len(r) <= Len(AllBytes(proto, t))
  BY <1>7 DEF Left
<1>12. ASSUME t # <<>> PROVE Len(r) > Len(AllBytes(proto, Tail(t)))
  <2>1. d + 1 \in 1..l /\ d + 1 \in 0..l
    <3>1. ASSUME ~(d < l) PROVE FALSE
      <4>1. l < d + 1 /\ d + 1 \in Int /\ l \in Int
        BY <1>3, <1>7, <3>1
      <4>2. t = <<>>
        BY <4>1, SubSeqEmpty
      <4> QED
        BY <1>12, <4>2
    <3>2. d \in 0..l /\ l \in Nat
      BY <1>3, <1>7
    <3> HIDE DEF l
    <3> QED
      BY <3>1, <3>2
  <2>2. l \in (d + 1)..Len(p)
    BY <1>3, <2>1
  <2>3. Tail(SubSeq(p, d + 1, l)) = SubSeq(p, (d + 1) + 1, l)
    BY <1>0, <2>1, <2>2, HeadTailOfSubSeq
  <2>4. d + 1 \notin T
    <3>1. ~(d + 1 <= d)
      BY <1>3, <1>7
    <3> HIDE DEF T
    <3> QED
      BY <1>6, <3>1
  <2>5. ~(Len(r) <= Left(proto, p, d + 1))
    BY <2>1, <2>4
  <2>6. Left(proto, p, d + 1) = Len(AllBytes(proto, Tail(t)))
    BY <2>3 DEF Left
  <2>7. Tail(t) \in Seq(M)
    BY <1>8, <1>12, HeadTailProperties
  <2>8. Len(AllBytes(proto, Tail(t))) \in Nat
    BY <2>7, AllBytesType
  <2>9. Len(r) \in Nat
    BY <1>1, LenProperties
  <2> QED
    BY <2>5, <2>6, <2>8, <2>9
<1> QED
  BY <1>1, <1>8, <1>9, <1>10, <1>11, <1>12 DEF InStep, IsRead

\* c is b without its first k bytes.
IsDrop(c, b, k, n) ==
    c \in Seq(Byte) /\ Len(c) = n - k /\ \A i \in 1..(n - k) : c[i] = b[k + i]

\* Dropping the bytes of a message leaves the others.
LEMMA DropFront ==
    ASSUME NEW b \in Seq(Byte), NEW n \in Nat, NEW k \in Nat, n = Len(b), k <= n,
           NEW c, c = SubSeq(b, k + 1, n)
    PROVE  IsDrop(c, b, k, n)
<1>1. k + 1 \in Int /\ n \in Int
  OBVIOUS
<1>2. \A i \in (k + 1)..n : b[i] \in Byte
  BY ElementOfSeq
<1> DEFINE X == SubSeq(b, k + 1, n)
<1>3. /\ X \in Seq(Byte) /\ Len(X) = IF k + 1 <= n THEN n - (k + 1) + 1 ELSE 0
      /\ \A i \in 1..(n - (k + 1) + 1) : X[i] = b[(k + 1) + i - 1]
  BY <1>1, <1>2, SubSeqProperties
<1>4. X = c
  OBVIOUS
<1> HIDE DEF X
<1>5. Len(X) = n - k
  BY <1>3
<1>6. \A i \in 1..(n - k) : X[i] = b[k + i]
  <2> TAKE i \in 1..(n - k)
  <2>1. i \in 1..(n - (k + 1) + 1) /\ (k + 1) + i - 1 = k + i
    OBVIOUS
  <2> QED
    BY <1>3, <2>1
<1> QED
  BY <1>3, <1>4, <1>5, <1>6 DEF IsDrop

\* The first message that has not arrived is not whole.
LEMMA NotYet ==
    ASSUME NEW proto \in Protos, NEW b, NEW s, NEW p, InStep(proto, b, s, <<>>, p), p # <<>>,
           NEW B, B = Bytes(proto, Head(p))
    PROVE  Fronts(b, B) /\ Len(b) < Len(B) /\ Head(p) \in MessagesOf(proto)
<1>1. /\ b \in Seq(Byte) /\ s \in Seq(Byte) /\ p \in Seq(MessagesOf(proto))
      /\ b \o s = AllBytes(proto, <<>> \o p)
      /\ Len(s) > Len(AllBytes(proto, Tail(p)))
  BY DEF InStep
<1>2. <<>> \o p = p
  BY <1>1, ConcatEmptySeq
<1>3. /\ Head(p) \in MessagesOf(proto) /\ Tail(p) \in Seq(MessagesOf(proto))
      /\ AllBytes(proto, p) = B \o AllBytes(proto, Tail(p))
  BY <1>1, AllBytesFirst
<1>4. PICK t \in Seq(Byte) : t = AllBytes(proto, Tail(p))
  BY <1>3, AllBytesType
<1>5. B \in Seq(Byte)
  BY <1>3, BytesShape
<1>6. b \o s = B \o t /\ Len(s) > Len(t)
  BY <1>1, <1>2, <1>3, <1>4
<1>7. Fronts(b, B)
  BY <1>1, <1>5, <1>6, CatFronts
<1>8. Len(b \o s) = Len(b) + Len(s) /\ Len(B \o t) = Len(B) + Len(t)
  BY <1>1, <1>5, ConcatProperties
<1>9. Len(b) \in Nat /\ Len(s) \in Nat /\ Len(B) \in Nat /\ Len(t) \in Nat
  BY <1>1, <1>5, LenProperties
<1>10. Len(b) + Len(s) = Len(B) + Len(t)
  BY <1>6, <1>8
<1>11. Len(b) < Len(B)
  BY <1>6, <1>9, <1>10
<1> QED
  BY <1>3, <1>7, <1>11

\* A message that has arrived is whole, and behind it are the next.
LEMMA Arrived ==
    ASSUME NEW proto \in Protos, NEW b, NEW s, NEW q, NEW p, InStep(proto, b, s, q, p), q # <<>>,
           NEW B, B = Bytes(proto, Head(q)), NEW c, c = SubSeq(b, Len(B) + 1, Len(b))
    PROVE  /\ Fronts(b, B) /\ ~(Len(b) < Len(B)) /\ Head(q) \in MessagesOf(proto)
           /\ Len(c) <= Len(b)
           /\ InStep(proto, c, s, Tail(q), p)
<1> DEFINE M == MessagesOf(proto)
           h == Head(q)
           t == Tail(q)
<1>1. /\ b \in Seq(Byte) /\ s \in Seq(Byte) /\ q \in Seq(M) /\ p \in Seq(M)
      /\ b \o s = AllBytes(proto, q \o p)
      /\ Len(s) <= Len(AllBytes(proto, p))
      /\ p # <<>> => Len(s) > Len(AllBytes(proto, Tail(p)))
  BY DEF InStep
<1>2. h \in M /\ t \in Seq(M) /\ AllBytes(proto, q) = B \o AllBytes(proto, t)
  BY <1>1, AllBytesFirst
<1> HIDE DEF M, h, t
<1>3. AllBytes(proto, q \o p) = AllBytes(proto, q) \o AllBytes(proto, p)
  BY <1>1, AllBytesConcat DEF M
<1>4. AllBytes(proto, t \o p) = AllBytes(proto, t) \o AllBytes(proto, p)
  BY <1>1, <1>2, AllBytesConcat DEF M
<1>5. PICK T \in Seq(Byte) : T = AllBytes(proto, t)
  BY <1>2, AllBytesType DEF M
<1>6. PICK P \in Seq(Byte) : P = AllBytes(proto, p)
  BY <1>1, AllBytesType DEF M
<1>7. B \in Seq(Byte)
  BY <1>2, BytesShape DEF M, h
<1>8. (B \o T) \o P = B \o (T \o P)
  BY <1>7, ByteAssoc, Zenon
<1>9. PICK X \in Seq(Byte) : X = T \o P /\ Len(X) = Len(T) + Len(P)
  BY ConcatProperties
<1>10. b \o s = B \o X
  BY <1>1, <1>2, <1>3, <1>5, <1>6, <1>8, <1>9, Zenon
<1>11. Fronts(b, B)
  BY <1>1, <1>7, <1>10, CatFronts
<1>12. Len(b \o s) = Len(b) + Len(s) /\ Len(B \o X) = Len(B) + Len(X)
  BY <1>1, <1>7, ConcatProperties
<1>13. Len(b) \in Nat /\ Len(s) \in Nat /\ Len(B) \in Nat /\ Len(T) \in Nat /\ Len(P) \in Nat
       /\ Len(X) \in Nat
  BY <1>1, <1>7, LenProperties
<1>14. Len(b) + Len(s) = Len(B) + Len(X) /\ Len(s) <= Len(P)
  BY <1>1, <1>6, <1>10, <1>12
<1>15. ~(Len(b) < Len(B))
  BY <1>9, <1>13, <1>14
<1>n. PICK n \in Nat, k \in Nat : n = Len(b) /\ k = Len(B)
  BY <1>13
<1>16. /\ c \in Seq(Byte) /\ Len(c) = n - k
       /\ \A i \in 1..(n - k) : c[i] = b[k + i]
  <2>1. k <= n /\ c = SubSeq(b, k + 1, n)
    BY <1>n, <1>15
  <2>2. IsDrop(c, b, k, n)
    BY <1>1, <1>n, <2>1, DropFront
  <2> QED
    BY <2>2 DEF IsDrop
<1>17. c \o s = X
  <2> DEFINE C == c \o s
  <2>l. PICK l \in Nat : l = Len(s)
    BY <1>13
  <2>1. IsCat(C, Byte, c, n - k, s, l)
    BY <1>1, <1>16, <2>l, CatTwo
  <2>2. /\ C \in Seq(Byte) /\ Len(C) = (n - k) + l
        /\ \A i \in 1..(n - k) : C[i] = c[i]
        /\ \A i \in 1..l : C[(n - k) + i] = s[i]
    BY <2>1 DEF IsCat
  <2>3. PICK Z : Z = b \o s
    OBVIOUS
  <2>4. IsCat(Z, Byte, b, n, s, l)
    BY <1>1, <1>n, <2>3, <2>l, CatTwo
  <2>5. /\ \A i \in 1..n : Z[i] = b[i]
        /\ \A i \in 1..l : Z[n + i] = s[i]
    BY <2>4 DEF IsCat
  <2>6. IsCat(Z, Byte, B, k, X, Len(X))
    BY <1>7, <1>10, <1>n, <2>3, CatTwo
  <2>7. \A i \in 1..Len(X) : Z[k + i] = X[i]
    BY <2>6 DEF IsCat
  <2> HIDE DEF C
  <2>8. Len(C) = Len(X) /\ k \in Nat /\ n \in Nat /\ l \in Nat /\ k <= n /\ Len(X) = (n - k) + l
    BY <1>13, <1>14, <1>15, <1>n, <2>2, <2>l
  <2>9. \A i \in 1..Len(C) : C[i] = X[i]
    <3> TAKE i \in 1..Len(C)
    <3>1. i \in 1..Len(X) /\ Z[k + i] = X[i]
      BY <2>7, <2>8
    <3>2. CASE i <= n - k
      <4>1. i \in 1..(n - k) /\ k + i \in 1..n
        BY <2>8, <3>1, <3>2
      <4>2. C[i] = b[k + i] /\ Z[k + i] = b[k + i]
        BY <1>16, <2>2, <2>5, <4>1
      <4> QED
        BY <3>1, <4>2
    <3>3. CASE ~(i <= n - k)
      <4>1. PICK j \in 1..l : i = (n - k) + j /\ k + i = n + j
        <5>1. i - (n - k) \in 1..l /\ i = (n - k) + (i - (n - k)) /\ k + i = n + (i - (n - k))
          BY <2>8, <3>1, <3>3
        <5> QED
          BY <5>1
      <4>2. C[(n - k) + j] = s[j] /\ Z[n + j] = s[j]
        BY <2>2, <2>5
      <4> QED
        BY <3>1, <4>1, <4>2
    <3> QED
      BY <3>2, <3>3
  <2>10. C = X
    BY <2>2, <2>8, <2>9, SeqEqual
  <2> QED
    BY <2>10 DEF C
<1>18. c \o s = AllBytes(proto, t \o p)
  BY <1>4, <1>5, <1>6, <1>9, <1>17, Zenon
<1>19. Len(c) <= Len(b)
  BY <1>n, <1>16
<1>20. InStep(proto, c, s, t, p)
  BY <1>1, <1>2, <1>16, <1>18 DEF InStep, M
<1> QED
  BY <1>2, <1>11, <1>15, <1>19, <1>20 DEF h, t, M

-----------------------------------------------------------------------------
(* Types. *)

\* The messages of this behaviour.
Sent == {sent.messages[i] : i \in DOMAIN sent.messages}

\* Types, with what the induction needs: the stream holds no more than what is pending.
TInv ==
    /\ TypeOK /\ Under(buffer, array) /\ pending \in Seq(Sent)
    /\ Len(stream) <= Len(AllBytes(sent.proto, pending))

\* What is sent may be sent in its protocol, ...
LEMMA SentType ==
    ASSUME sent \in Traffic
    PROVE  /\ sent.proto \in Protos /\ sent.messages \in Seq(Sent)
           /\ Sent \subseteq MessagesOf(sent.proto)
<1>1. /\ sent.proto \in Protos /\ sent.messages \in Seq(MessageRecord)
  BY WireAssumption DEF Protos, MessageRecord
<1>2. \A i \in DOMAIN sent.messages : Sendable(sent.proto, sent.messages[i])
  BY WireAssumption
<1>3. PICK ms \in Seq(MessageRecord) : ms = sent.messages
  BY <1>1
<1>4. DOMAIN ms = 1..Len(ms) /\ Len(ms) \in Nat /\ \A i \in 1..Len(ms) : ms[i] \in MessageRecord
  BY LenProperties, ElementOfSeq
<1>5. Sent = {ms[i] : i \in DOMAIN ms}
  BY <1>3 DEF Sent
<1>6. Sent \subseteq MessagesOf(sent.proto)
  BY <1>2, <1>3, <1>4, <1>5 DEF MessagesOf
<1>7. ms \in Seq(Sent)
  <2>1. ms \in [1..Len(ms) -> Sent]
    <3>1. ms \in [1..Len(ms) -> MessageRecord]
      BY LenProperties
    <3>2. \A i \in 1..Len(ms) : ms[i] \in Sent
      BY <1>4, <1>5
    <3> QED
      BY <3>1, <3>2
  <2> QED
    BY <1>4, <2>1, Fcn
<1> QED
  BY <1>1, <1>3, <1>6, <1>7

\* ... and so may what is pending.
LEMMA PendingType ==
    ASSUME sent \in Traffic, NEW p \in Seq(Sent)
    PROVE  p \in Seq(MessagesOf(sent.proto)) /\ AllBytes(sent.proto, p) \in Seq(Byte)
<1>1. sent.proto \in Protos /\ Sent \subseteq MessagesOf(sent.proto)
  BY SentType
<1>2. p \in Seq(MessagesOf(sent.proto))
  BY <1>1, SeqMonotonic
<1> QED
  BY <1>1, <1>2, AllBytesType

\* A slice of bytes is bytes.
LEMMA Cells ==
    ASSUME NEW data \in Seq(Byte), NEW x \in Nat, x >= 1, NEW y \in Int, y <= Len(data)
    PROVE  SubSeq(data, x, y) \in Seq(Byte)
<1>1. Len(data) \in Nat
  BY LenProperties
<1>2. \A i \in x..y : data[i] \in Byte
  BY <1>1, ElementOfSeq
<1>3. x \in Int /\ y \in Int
  OBVIOUS
<1> QED
  BY <1>2, <1>3, SubSeqProperties

\* A field of up to eight bytes is a number.
LEMMA NumberAt ==
    ASSUME NEW data \in Seq(Byte), NEW x \in Nat, x >= 1, NEW w \in 1..8, NEW y \in Nat,
           y = x + w - 1, y <= Len(data)
    PROVE  Number(SubSeq(data, x, y)) \in Nat
<1> DEFINE X == SubSeq(data, x, y)
<1>1. X \in Seq(Byte)
  BY SliceType
<1>2. Len(X) = IF x <= y THEN y - x + 1 ELSE 0
  BY SliceType
<1> HIDE DEF X
<1>3. Len(X) = w /\ w \in 0..8
  BY <1>2
<1>4. Number(X) \in Nat
  BY <1>1, <1>3, NumberType
<1> QED
  BY <1>4 DEF X

\* What a message that is taken looks like.
Typed(r) == r.kind = "message" => r.data \in Seq(Byte) /\ r.size \in Nat

\* Whatever is decoded, a message has bytes and a size: in the agent's callback, ...
LEMMA UnpackType ==
    ASSUME NEW content \in Seq(Byte), NEW size \in Nat
    PROVE  Typed(Unpack(content, size))
<1> DEFINE clen == Number(SubSeq(content, 1, 4))
           c == Number(SubSeq(content, 5, 6))
           d == SubSeq(content, 7, clen + 4)
<1>0. Unpack(content, size) =
        IF content = <<0>> THEN Message(CMD_TICK, <<>>, size)
        ELSE IF Len(content) < 4 THEN Drop
        ELSE IF Len(content) < clen + 4 THEN Message(-1, <<>>, size)
        ELSE IF Len(content) < 6 \/ clen < 2 THEN Drop
        ELSE Message(c, d, size)
  BY DEF Unpack
<1>1. Drop.kind # "message"
  BY DEF Drop, Wait
<1>2. \A x, y : Message(x, y, size).data = y /\ Message(x, y, size).size = size
  BY DEF Message
<1>3. <<>> \in Seq(Byte) /\ Len(content) \in Nat
  BY EmptySeq, LenProperties
<1>4. ASSUME ~(Len(content) < 4), ~(Len(content) < clen + 4) PROVE d \in Seq(Byte)
  <2>1. 1 \in Nat /\ 1 >= 1 /\ 4 \in 1..8 /\ 4 \in Nat /\ 4 = 1 + 4 - 1 /\ 4 <= Len(content)
    BY <1>3, <1>4
  <2>2. clen \in Nat
    BY <2>1, NumberAt
  <2> HIDE DEF clen
  <2>3. 7 \in Nat /\ 7 >= 1 /\ clen + 4 \in Int /\ clen + 4 <= Len(content)
    BY <1>3, <1>4, <2>2
  <2> QED
    BY <2>3, Cells
<1> HIDE DEF clen, c, d
<1>5. \A x, y : y \in Seq(Byte) => Typed(Message(x, y, size))
  BY <1>2 DEF Typed
<1>6. Typed(Drop)
  BY <1>1 DEF Typed
<1>7. CASE content = <<0>>
  BY <1>0, <1>3, <1>5, <1>7
<1>8. CASE content # <<0>> /\ Len(content) < 4
  BY <1>0, <1>6, <1>8
<1>9. CASE content # <<0>> /\ ~(Len(content) < 4) /\ Len(content) < clen + 4
  BY <1>0, <1>3, <1>5, <1>9
<1>10. CASE content # <<0>> /\ ~(Len(content) < 4) /\ ~(Len(content) < clen + 4)
  BY <1>0, <1>4, <1>5, <1>6, <1>10
<1> QED
  BY <1>7, <1>8, <1>9, <1>10

\* ... in the service and the subscriber, ...
LEMMA PlainType ==
    ASSUME NEW data \in Seq(Byte)
    PROVE  Typed(DecodeNode(data)) /\ Typed(DecodeClient(data))
<1> DEFINE clen == Number(SubSeq(data, 1, 4))
           c == Number(SubSeq(data, 5, 6))
           d == SubSeq(data, 7, clen + 4)
<1>1. DecodeNode(data) =
        IF Len(data) < 6 \/ Len(data) < clen + 4 THEN Wait
        ELSE IF ~hasCmd(c) THEN Drop
        ELSE IF clen < 2 \/ (c = CMD_SET_PRO /\ clen = 2) THEN Panic
        ELSE IF c \notin {CMD_SET_PRO, CMD_TICK} THEN Drop
        ELSE Message(c, d, clen + 4)
  BY DEF DecodeNode
<1>2. DecodeClient(data) =
        IF Len(data) < 6 THEN Wait
        ELSE IF ~hasCmd(c) THEN Drop
        ELSE IF Len(data) < clen + 4 THEN Wait
        ELSE IF clen < 2 THEN Panic
        ELSE Message(c, d, clen + 4)
  BY DEF DecodeClient
<1>3. Drop.kind # "message" /\ Wait.kind # "message" /\ Panic.kind # "message"
  BY DEF Drop, Wait, Panic
<1>4. Message(c, d, clen + 4).data = d /\ Message(c, d, clen + 4).size = clen + 4
  BY DEF Message
<1>5. Len(data) \in Nat
  BY LenProperties
<1>6. ASSUME ~(Len(data) < 6), ~(Len(data) < clen + 4) PROVE d \in Seq(Byte) /\ clen + 4 \in Nat
  <2>1. 1 \in Nat /\ 1 >= 1 /\ 4 \in 1..8 /\ 4 \in Nat /\ 4 = 1 + 4 - 1 /\ 4 <= Len(data)
    BY <1>5, <1>6
  <2>2. clen \in Nat
    BY <2>1, NumberAt
  <2> HIDE DEF clen
  <2>3. 7 \in Nat /\ 7 >= 1 /\ clen + 4 \in Int /\ clen + 4 <= Len(data) /\ clen + 4 \in Nat
    BY <1>5, <1>6, <2>2
  <2> QED
    BY <2>3, Cells
<1> HIDE DEF clen, c, d
<1> QED
  BY <1>1, <1>2, <1>3, <1>4, <1>6 DEF Typed

\* ... in the agent's codec, even out of step, ...
LEMMA AgentType ==
    ASSUME NEW data \in Seq(Byte), NEW a \in Seq(Byte), NEW r \in Decode(data, a)
    PROVE  Typed(r)
<1> DEFINE headers == {i \in 0..(Len(data) - 4) : SubSeq(data, i + 1, i + 4) = PackageHeader}
           atStart == Shown(a, 0, 4) = PackageHeader
           start == IF atStart THEN 0 ELSE Min(headers)
           clen == Number(Shown(a, start + 4, start + 8))
           msgID == Number(Shown(a, start + 8, start + 16))
           end == start + clen + 8
           past(n) == IF n > Len(a) THEN {Drop} ELSE {}
           u == Unpack(Shown(a, start + 16, end), end)
<1>1. r \in IF data = <<>> THEN {Wait}
            ELSE IF ~atStart /\ headers = {} THEN {Drop}
            ELSE IF Len(data) > PackageMaxLength THEN {Drop}
            ELSE IF Len(data) < 16 THEN {Wait}
            ELSE IF clen < 8 THEN {Drop}
            ELSE IF Len(data) < clen + 8 THEN {Wait} \cup past(start + 8)
            ELSE IF msgID = 0 \/ msgID >= Weight[8] \div 2 THEN {Wait} \cup past(end)
            ELSE {u} \cup past(end)
  BY DEF Decode
<1>2. \A x \in {Wait, Drop} : x.kind # "message"
  BY DEF Wait, Drop
<1>3. Len(data) \in Nat
  BY LenProperties
<1>4. ASSUME atStart \/ headers # {} PROVE start \in Nat
  <2>1. CASE atStart
    BY <2>1
  <2>2. CASE ~atStart
    <3>1. headers \in SUBSET Nat /\ headers # {}
      BY <1>3, <1>4, <2>2
    <3> HIDE DEF headers
    <3>2. \E x \in headers : \A y \in headers : x <= y
      BY <3>1, MinExists
    <3>3. Min(headers) \in headers
      BY <3>2 DEF Min
    <3> QED
      BY <2>2, <3>1, <3>3
  <2> QED
    BY <2>1, <2>2
<1> HIDE DEF headers, start, atStart
<1>5. ASSUME start \in Nat, ~(clen < 8) PROVE Typed(u)
  <2>1. start + 4 \in Nat /\ start + 8 \in Nat /\ start + 4 <= start + 8
        /\ (start + 8) - (start + 4) = 4 /\ 4 \in 0..8
    BY <1>5
  <2>2. Shown(a, start + 4, start + 8) \in Seq(Byte)
        /\ Len(Shown(a, start + 4, start + 8)) = (start + 8) - (start + 4)
    BY <2>1, ShownType
  <2>3. clen \in Nat
    BY <2>1, <2>2, NumberType
  <2> HIDE DEF clen
  <2>4. start + 16 \in Nat /\ end \in Nat /\ start + 16 <= end
    BY <1>5, <2>3
  <2> HIDE DEF end
  <2>5. Shown(a, start + 16, end) \in Seq(Byte)
    BY <2>4, ShownType
  <2> QED
    BY <2>4, <2>5, UnpackType
<1> HIDE DEF u, msgID, end, clen
<1>6. \A n : past(n) \subseteq {Drop}
  OBVIOUS
<1> HIDE DEF past
<1>7. r \in {Wait, Drop} \/ (r = u /\ (atStart \/ headers # {}) /\ ~(clen < 8))
  BY <1>1, <1>6
<1> QED
  BY <1>2, <1>4, <1>5, <1>7 DEF Typed

\* ... and so in onMessage.
LEMMA ResultType ==
    ASSUME TInv, NEW r \in Results
    PROVE  Typed(r)
<1>1. buffer \in Seq(Byte) /\ array \in Seq(Byte) /\ sent \in Traffic
  BY DEF TInv, TypeOK
<1>2. sent.proto \in Protos
  BY <1>1, SentType
<1>3. CASE sent.proto = "agent"
  <2>1. r \in Decode(buffer, array)
    BY <1>3 DEF Results
  <2> QED
    BY <1>1, <2>1, AgentType
<1>4. CASE sent.proto = "node"
  <2>1. r = DecodeNode(buffer)
    BY <1>4 DEF Results
  <2> QED
    BY <1>1, <2>1, PlainType
<1>5. CASE sent.proto = "client"
  <2>1. r = DecodeClient(buffer)
    BY <1>5 DEF Results
  <2> QED
    BY <1>1, <2>1, PlainType
<1> QED
  BY <1>2, <1>3, <1>4, <1>5 DEF Protos

\* A buffer of bytes stays one when it is set, ...
LEMMA SetBufferType ==
    ASSUME TInv, NEW b \in Seq(Byte), SetBuffer(b)
    PROVE  buffer' \in Seq(Byte) /\ array' \in Seq(Byte) /\ Under(buffer', array')
<1>1. array \in Seq(Byte)
  BY DEF TInv, TypeOK
<1>2. PICK e : e = Over(b, array)
  OBVIOUS
<1>3. IsOver(e, b, array)
  BY <1>1, <1>2, OverIs
<1>4. e \in Seq(Byte) /\ Under(b, e)
  BY <1>3 DEF IsOver, Under
<1>5. buffer' = b /\ array' = e
  BY <1>2 DEF SetBuffer
<1> QED
  BY <1>4, <1>5

\* ... and when it is made anew.
LEMMA NewBufferType ==
    ASSUME NewBuffer
    PROVE  buffer' \in Seq(Byte) /\ array' \in Seq(Byte) /\ Under(buffer', array')
<1>1. <<>> \in Seq(Byte) /\ Len(<<>>) = 0
  BY EmptySeq
<1> QED
  BY <1>1 DEF NewBuffer, Under

\* What writing over a file leaves.
IsWritten(g, f, r, n) ==
    /\ g \in Seq(Byte) /\ Len(g) >= n
    /\ \A i \in 1..n : g[i] = r[i]

\* The file starts with the record that was written to it.
LEMMA WriteType ==
    ASSUME file \in Seq(Byte), NEW r \in Seq(Byte), WriteAt(r), NEW n, n = Len(r)
    PROVE  IsWritten(file', file, r, n)
<1>1. PICK e : e = Over(r, file)
  OBVIOUS
<1>2. IsOver(e, r, file)
  BY <1>1, OverIs
<1>3. file' = e
  BY <1>1 DEF WriteAt
<1> QED
  BY <1>2, <1>3 DEF IsOver, IsWritten

\* The types hold at the start, ...
LEMMA TypeInit ==
    ASSUME Init
    PROVE  TInv
<1>1. sent \in Traffic /\ MaxBreaks \in Nat
  BY WireAssumption DEF Init
<1>2. sent.messages \in Seq(Sent)
  BY <1>1, SentType
<1>3. AllBytes(sent.proto, sent.messages) \in Seq(Byte)
  BY <1>1, <1>2, PendingType
<1>4. <<>> \in Seq(Byte)
  BY EmptySeq
<1>5. /\ stream \in Seq(Byte) /\ buffer \in Seq(Byte) /\ file \in Seq(Byte)
      /\ array \in Seq(Byte) /\ pending \in Seq(Sent)
  BY <1>2, <1>3, <1>4 DEF Init
<1>a. Under(buffer, array)
  BY DEF Init, Under
<1>6. at \in {"read", "decode", "halted"} /\ {split, torn} \subseteq BOOLEAN
  BY DEF Init
<1>7. breaks \in 0..MaxBreaks
  BY <1>1 DEF Init
<1>8. Len(stream) <= Len(AllBytes(sent.proto, pending))
  <2>1. stream = AllBytes(sent.proto, pending) /\ Len(stream) \in Nat
    BY <1>5, LenProperties DEF Init
  <2> QED
    BY <2>1
<1> QED
  BY <1>1, <1>5, <1>6, <1>7, <1>8, <1>a DEF TInv, TypeOK

\* What the types are when they are what they were, but for what is changed.
LEMMA TypeKept ==
    ASSUME TInv, sent' = sent,
           stream' \in Seq(Byte), buffer' \in Seq(Byte), array' \in Seq(Byte), file' \in Seq(Byte),
           Under(buffer', array'), pending' \in Seq(Sent),
           at' \in {"read", "decode", "halted"}, split' \in BOOLEAN, torn' \in BOOLEAN,
           breaks' \in 0..MaxBreaks, Len(stream') <= Len(AllBytes(sent.proto, pending'))
    PROVE  TInv'
<1>1. Sent' = Sent
  BY DEF Sent
<1>2. pending' \in Seq(Sent)'
  BY <1>1
<1> QED
  BY <1>2 DEF TInv, TypeOK

\* The parts of the invariant.
LEMMA TypeParts ==
    ASSUME TInv
    PROVE  /\ sent \in Traffic /\ stream \in Seq(Byte) /\ buffer \in Seq(Byte)
           /\ array \in Seq(Byte) /\ file \in Seq(Byte) /\ Under(buffer, array)
           /\ pending \in Seq(Sent) /\ at \in {"read", "decode", "halted"}
           /\ split \in BOOLEAN /\ torn \in BOOLEAN
           /\ breaks \in 0..MaxBreaks /\ MaxBreaks \in Nat
           /\ Len(stream) <= Len(AllBytes(sent.proto, pending))
BY WireAssumption DEF TInv, TypeOK

\* ... are kept by a read, ...
LEMMA TypeRead ==
    ASSUME TInv, NEW k \in 1..ReadSize, Read(k)
    PROVE  TInv'
<1>0. /\ sent \in Traffic /\ stream \in Seq(Byte) /\ buffer \in Seq(Byte)
      /\ file \in Seq(Byte) /\ pending \in Seq(Sent)
      /\ split \in BOOLEAN /\ torn \in BOOLEAN /\ breaks \in 0..MaxBreaks
      /\ Len(stream) <= Len(AllBytes(sent.proto, pending))
  BY TypeParts
<1>1. PICK n \in Nat : n = Len(stream)
  BY <1>0, LenProperties
<1>2. /\ k \in Nat /\ k <= n
      /\ SetBuffer(buffer \o SubSeq(stream, 1, k))
      /\ stream' = SubSeq(stream, k + 1, n)
  BY <1>1 DEF Read
<1>3. PICK c, r : c = buffer \o SubSeq(stream, 1, k) /\ r = SubSeq(stream, k + 1, n)
  OBVIOUS
<1>a. k \in 0..n
  BY <1>2
<1>4. Cut(buffer, stream, n, k, c, r)
  BY <1>0, <1>1, <1>3, <1>a, CutStream
<1>5. c \in Seq(Byte) /\ r \in Seq(Byte) /\ r = stream' /\ Len(r) = n - k
  BY <1>2, <1>3, <1>4 DEF Cut
<1>6. buffer' \in Seq(Byte) /\ array' \in Seq(Byte) /\ Under(buffer', array')
  BY <1>2, <1>3, <1>5, SetBufferType
<1>7. pending' \in Seq(Sent) /\ Len(stream') <= Len(AllBytes(sent.proto, pending'))
  <2> DEFINE T == {j \in 0..Len(pending) : Len(r) <= Left(sent.proto, pending, j)}
  <2>1. PICK d : pending' = SubSeq(pending, d + 1, Len(pending)) /\ d = Max(T)
    BY <1>5 DEF Read, Left
  <2>2. PICK l \in Nat : l = Len(pending)
    BY <1>0, LenProperties
  <2>3. 0 \in T
    <3>1. SubSeq(pending, 0 + 1, Len(pending)) = pending
      BY <1>0, SubSeqFull
    <3>2. Left(sent.proto, pending, 0) = Len(AllBytes(sent.proto, pending))
      BY <3>1 DEF Left
    <3>3. Len(AllBytes(sent.proto, pending)) \in Nat
      BY <1>0, PendingType, LenProperties
    <3>4. Len(r) <= Len(AllBytes(sent.proto, pending))
      BY <1>0, <1>1, <1>2, <1>5, <3>3
    <3> QED
      BY <2>2, <3>2, <3>4
  <2>4. T \subseteq 0..l /\ T # {}
    BY <2>2, <2>3
  <2>5. \A j \in T : Len(r) <= Left(sent.proto, pending, j)
    OBVIOUS
  <2> HIDE DEF T
  <2>6. d \in T
    BY <2>1, <2>4, MaxIs
  <2>7. d \in 0..l
    BY <2>4, <2>6
  <2>8. d + 1 \in Nat /\ d + 1 >= 1 /\ l <= Len(pending) /\ pending' = SubSeq(pending, d + 1, l)
    BY <2>1, <2>2, <2>7
  <2>9. SubSeq(pending, d + 1, l) \in Seq(Sent)
    BY <1>0, <2>8, SliceType
  <2>10. Len(r) <= Len(AllBytes(sent.proto, SubSeq(pending, d + 1, l)))
    BY <2>2, <2>5, <2>6 DEF Left
  <2> QED
    BY <1>5, <2>8, <2>9, <2>10
<1>8. /\ sent' = sent /\ file' = file /\ torn' = torn /\ breaks' = breaks /\ at' = "decode"
      /\ split' \in BOOLEAN
  BY <1>0 DEF Read
<1> QED
  BY <1>0, <1>5, <1>6, <1>7, <1>8, TypeKept

\* ... by a new connection, ...
LEMMA TypeReconnect ==
    ASSUME TInv, NEW k \in 1..(Len(pending) + 1), Reconnect(k)
    PROVE  TInv'
<1>0. /\ sent \in Traffic /\ buffer \in Seq(Byte) /\ array \in Seq(Byte) /\ Under(buffer, array)
      /\ file \in Seq(Byte) /\ pending \in Seq(Sent) /\ at \in {"read", "decode", "halted"}
      /\ split \in BOOLEAN /\ torn \in BOOLEAN /\ breaks \in 0..MaxBreaks /\ MaxBreaks \in Nat
  BY TypeParts
<1>1. PICK l \in Nat : l = Len(pending)
  BY <1>0, LenProperties
<1>2. PICK p : p = SubSeq(pending, k, l)
  OBVIOUS
<1>3. /\ pending' = p /\ stream' = AllBytes(sent.proto, p)
      /\ breaks > 0 /\ breaks' = breaks - 1
      /\ sent' = sent /\ at' = at /\ file' = file /\ split' = split
  BY <1>1, <1>2 DEF Reconnect
<1>4. p \in Seq(Sent)
  <2>1. k \in Nat /\ k >= 1 /\ l <= Len(pending)
    BY <1>1
  <2> QED
    BY <1>0, <1>2, <2>1, SliceType
<1>5. stream' \in Seq(Byte) /\ Len(stream') <= Len(AllBytes(sent.proto, pending'))
  <2>1. AllBytes(sent.proto, p) \in Seq(Byte)
    BY <1>0, <1>4, PendingType
  <2>2. Len(AllBytes(sent.proto, p)) \in Nat
    BY <2>1, LenProperties
  <2> QED
    BY <1>3, <2>1, <2>2
<1>6. /\ buffer' \in Seq(Byte) /\ array' \in Seq(Byte) /\ Under(buffer', array')
      /\ torn' \in BOOLEAN
  <2>1. CASE sent.proto = "node"
    <3>1. NewBuffer /\ torn' = torn
      BY <2>1 DEF Reconnect
    <3> QED
      BY <1>0, <3>1, NewBufferType
  <2>2. CASE sent.proto # "node"
    <3>1. torn' = (torn \/ buffer # <<>>) /\ buffer' = buffer /\ array' = array
      BY <2>2 DEF Reconnect
    <3> QED
      BY <1>0, <3>1
  <2> QED
    BY <2>1, <2>2
<1>7. breaks' \in 0..MaxBreaks
  BY <1>0, <1>3
<1> QED
  BY <1>0, <1>3, <1>4, <1>5, <1>6, <1>7, TypeKept

\* ... by onMessage, ...
LEMMA TypeMessage ==
    ASSUME TInv, onMessageWait \/ onMessageDrop \/ onMessagePanics \/ onMessage
    PROVE  TInv'
<1>0. /\ sent \in Traffic /\ buffer \in Seq(Byte) /\ array \in Seq(Byte) /\ Under(buffer, array)
      /\ stream \in Seq(Byte)
      /\ file \in Seq(Byte) /\ pending \in Seq(Sent) /\ at \in {"read", "decode", "halted"}
      /\ split \in BOOLEAN /\ torn \in BOOLEAN /\ breaks \in 0..MaxBreaks
      /\ Len(stream) <= Len(AllBytes(sent.proto, pending))
  BY TypeParts
<1>1. /\ sent' = sent /\ pending' = pending /\ stream' = stream /\ split' = split
      /\ torn' = torn /\ breaks' = breaks
  BY DEF onMessageWait, onMessageDrop, onMessagePanics, onMessage
<1>2. /\ buffer' \in Seq(Byte) /\ array' \in Seq(Byte) /\ Under(buffer', array')
      /\ file' \in Seq(Byte) /\ at' \in {"read", "decode", "halted"}
  <2>1. CASE onMessageWait
    BY <1>0, <2>1 DEF onMessageWait
  <2>2. CASE onMessageDrop
    <3>1. NewBuffer /\ file' = file /\ at' = "read"
      BY <2>2 DEF onMessageDrop
    <3> QED
      BY <1>0, <3>1, NewBufferType
  <2>4. CASE onMessagePanics
    BY <1>0, <2>4 DEF onMessagePanics
  <2>3. CASE onMessage
    <3>1. PICK r \in Results :
            /\ r.kind = "message"
            /\ LET pos == sent.proto = "agent" /\ r.cmd = CMD_POS
                   bad == pos /\ Len(r.data) < 18
               IN  /\ IF bad \/ r.size > Len(buffer) THEN NewBuffer
                      ELSE SetBuffer(SubSeq(buffer, r.size + 1, Len(buffer)))
                   /\ at' = IF bad THEN "read" ELSE "decode"
                   /\ IF pos /\ ~bad THEN WriteAt(r.data) ELSE UNCHANGED file
      BY <2>3 DEF onMessage
    <3>2. r.data \in Seq(Byte) /\ r.size \in Nat
      BY <3>1, ResultType DEF Typed
    <3>3. SubSeq(buffer, r.size + 1, Len(buffer)) \in Seq(Byte)
      <4>1. r.size + 1 \in Nat /\ r.size + 1 >= 1
        BY <3>2
      <4>2. Len(buffer) \in Int /\ Len(buffer) <= Len(buffer)
        BY <1>0, LenProperties
      <4> QED
        BY <1>0, <4>1, <4>2, Cells
    <3>4. buffer' \in Seq(Byte) /\ array' \in Seq(Byte) /\ Under(buffer', array')
      BY <3>1, <3>3, NewBufferType, SetBufferType
    <3>5. file' \in Seq(Byte)
      <4>1. CASE WriteAt(r.data)
        <5>1. IsWritten(file', file, r.data, Len(r.data))
          BY <1>0, <3>2, <4>1, WriteType
        <5> QED
          BY <5>1 DEF IsWritten
      <4>2. CASE UNCHANGED file
        BY <1>0, <4>2
      <4> QED
        BY <3>1, <4>1, <4>2
    <3>6. at' \in {"read", "decode", "halted"}
      BY <3>1
    <3> QED
      BY <3>4, <3>5, <3>6
  <2> QED
    BY <2>1, <2>2, <2>3, <2>4
<1> QED
  BY <1>0, <1>1, <1>2, TypeKept

\* ... and so by every step.
LEMMA TypeNext ==
    ASSUME TInv, [Next]_vars
    PROVE  TInv'
<1>1. CASE Next
  BY <1>1, TypeRead, TypeReconnect, TypeMessage DEF Next
<1>2. CASE UNCHANGED vars
  BY <1>2 DEF vars, TInv, TypeOK, Sent
<1> QED
  BY <1>1, <1>2


-----------------------------------------------------------------------------
(* What the callbacks get. *)

\* Nothing has happened that may bring the receiver out of step.
Clean == ~torn /\ ~split /\ (sent.proto = "agent" => Short)

\* The agent's array starts with a header, or is new.
HeadSeen == Shown(array, 0, 4) = PackageHeader \/ (buffer = <<>> /\ array = <<>>)

\* The file starts with the last position that was handed out.
Kept ==
    IF PositionsOut = {} THEN file = <<>>
    ELSE LET r == out[Max(PositionsOut)].data IN IsWritten(file, file, r, Len(r))

\* The messages q have arrived and are not yet handed out.
Aligned(q) ==
    /\ InStep(sent.proto, buffer, stream, q, pending)
    /\ out \in Seq(MessagesOf(sent.proto)) /\ due = out \o q
    /\ at = "read" => q = <<>>
    /\ sent.proto = "agent" => HeadSeen /\ Len(buffer) <= PackageMaxLength /\ Kept

\* Until something brings the receiver out of step, it is in step.
FrameInv == Clean => \E q : Aligned(q)

\* What brings the receiver out of step is remembered.
LEMMA CleanBefore ==
    ASSUME TInv, [Next]_vars, Clean'
    PROVE  Clean
<1>1. sent' = sent /\ (split => split') /\ (torn => torn')
  <2>1. CASE \E k \in 1..ReadSize : Read(k)
    <3>1. PICK k \in 1..ReadSize : Read(k)
      BY <2>1
    <3>2. sent' = sent /\ torn' = torn
          /\ split' = (split \/ (sent.proto = "agent" /\ array = <<>> /\ Len(buffer') < 4))
      BY <3>1 DEF Read
    <3>3. split => split'
      BY <3>2, Zenon
    <3>4. QED
      BY <3>2, <3>3, Zenon
  <2>2. CASE \E k \in 1..(Len(pending) + 1) : Reconnect(k)
    <3>1. PICK k \in 1..(Len(pending) + 1) : Reconnect(k)
      BY <2>2
    <3>2. sent' = sent /\ split' = split
      BY <3>1 DEF Reconnect
    <3>3. torn' = torn \/ torn' = (torn \/ buffer # <<>>)
      BY <3>1, Zenon DEF Reconnect
    <3>4. torn => torn'
      BY <3>3, Zenon
    <3>5. QED
      BY <3>2, <3>4, Zenon
  <2>3. CASE onMessageWait \/ onMessageDrop \/ onMessagePanics \/ onMessage
    <3>1. sent' = sent /\ split' = split /\ torn' = torn
      BY <2>3 DEF onMessageWait, onMessageDrop, onMessagePanics, onMessage
    <3>2. QED
      BY <3>1, Zenon
  <2>4. CASE UNCHANGED vars
    BY <2>4, Zenon DEF vars
  <2>5. QED
    BY <2>1, <2>2, <2>3, <2>4, Zenon DEF Next
<1>2. Short' = Short
  BY <1>1 DEF Short
<1>3. QED
  BY <1>1, <1>2 DEF Clean

\* The parts of Aligned after a step.
LEMMA AlignedAfter ==
    ASSUME sent' = sent, NEW q, InStep(sent.proto, buffer', stream', q, pending'),
           out' \in Seq(MessagesOf(sent.proto)), due' = out' \o q,
           at' = "read" => q = <<>>,
           sent.proto = "agent" => HeadSeen' /\ Len(buffer') <= PackageMaxLength /\ Kept'
    PROVE  (\E r : Aligned(r))'
BY DEF Aligned

\* The file is right as long as nothing is handed out or written.
LEMMA KeptStays ==
    ASSUME Kept, out' = out, file' = file
    PROVE  Kept'
BY DEF Kept, PositionsOut

\* A new connection starts in step, with an empty buffer.
LEMMA Fresh ==
    ASSUME NEW proto \in Protos, NEW p \in Seq(MessagesOf(proto)), NEW s, s = AllBytes(proto, p)
    PROVE  InStep(proto, <<>>, s, <<>>, p)
<1>1. <<>> \o p = p /\ <<>> \in Seq(MessagesOf(proto)) /\ <<>> \in Seq(Byte)
  OBVIOUS
<1>2. s \in Seq(Byte) /\ Len(s) \in Nat /\ Len(s) <= Len(AllBytes(proto, p))
  BY AllBytesType
<1>3. <<>> \o s = AllBytes(proto, <<>> \o p)
  BY <1>1, <1>2
<1>4. ASSUME p # <<>>
      PROVE  Len(s) > Len(AllBytes(proto, Tail(p)))
  <2>1. PICK B : B = Bytes(proto, Head(p))
    OBVIOUS
  <2>2. Head(p) \in MessagesOf(proto) /\ Tail(p) \in Seq(MessagesOf(proto))
        /\ s = B \o AllBytes(proto, Tail(p))
    BY <1>4, <2>1, AllBytesFirst
  <2>3. B \in Seq(Byte) /\ Len(B) \in Nat /\ Len(B) >= 6
    BY <2>1, <2>2, BytesShape
  <2>4. AllBytes(proto, Tail(p)) \in Seq(Byte) /\ Len(AllBytes(proto, Tail(p))) \in Nat
    BY <2>2, AllBytesType
  <2>5. Len(s) = Len(B) + Len(AllBytes(proto, Tail(p)))
    BY <2>2, <2>3, <2>4
  <2>6. QED
    BY <2>3, <2>4, <2>5
<1>5. QED
  BY <1>1, <1>2, <1>3, <1>4 DEF InStep

\* The receiver is in step at the start, ...
LEMMA FrameInit ==
    ASSUME Init, TInv
    PROVE  FrameInv
<1>a. sent \in Traffic /\ sent.proto \in Protos /\ pending = sent.messages /\ pending \in Seq(Sent)
  BY TypeParts, SentType DEF Init
<1>b. pending \in Seq(MessagesOf(sent.proto))
  BY <1>a, PendingType
<1>1. <<>> \in Seq(MessagesOf(sent.proto)) /\ <<>> \o <<>> = <<>>
  OBVIOUS
<1>2. stream = AllBytes(sent.proto, pending) /\ buffer = <<>>
  BY DEF Init
<1>3. InStep(sent.proto, buffer, stream, <<>>, pending)
  BY <1>a, <1>b, <1>2, Fresh
<1>4. sent.proto = "agent" => HeadSeen /\ Len(buffer) <= PackageMaxLength /\ Kept
  <2>1. HeadSeen
    BY DEF HeadSeen, Init
  <2>2. Len(buffer) <= PackageMaxLength
    BY <1>2, WireAssumption
  <2>3. PositionsOut = {} /\ file = <<>>
    BY DEF Init, PositionsOut
  <2>4. QED
    BY <2>1, <2>2, <2>3 DEF Kept
<1>5. Aligned(<<>>)
  BY <1>1, <1>3, <1>4 DEF Aligned, Init
<1>6. QED
  BY <1>5 DEF FrameInv

\* An array shows a header at its start when one was written there: no byte of a
\* header is zero.
LEMMA HeadThere ==
    ASSUME NEW a \in Seq(Byte)
    PROVE  Shown(a, 0, 4) = PackageHeader
               <=> Len(a) >= 4 /\ \A i \in 1..4 : a[i] = PackageHeader[i]
<1>1. PICK D : D = Shown(a, 0, 4)
  OBVIOUS
<1>2. D = [k \in 1..4 |-> IF k <= Len(a) THEN a[k] ELSE 0]
  BY <1>1 DEF Shown
<1>3. PackageHeader = [k \in 1..4 |-> PackageHeader[k]]
      /\ \A k \in 1..4 : PackageHeader[k] = Base - 1 /\ PackageHeader[k] # 0
  BY Bases DEF PackageHeader
<1>4. Len(a) \in Nat
  BY LenProperties
<1>5. ASSUME D = PackageHeader
      PROVE  Len(a) >= 4 /\ \A i \in 1..4 : a[i] = PackageHeader[i]
  <2>1. ASSUME NEW k \in 1..4
        PROVE  k <= Len(a) /\ a[k] = PackageHeader[k]
    <3>1. D[k] = PackageHeader[k] /\ PackageHeader[k] # 0
      BY <1>3, <1>5
    <3> QED
      BY <1>2, <3>1
  <2>2. 4 \in 1..4
    OBVIOUS
  <2>3. 4 <= Len(a)
    BY <2>1, <2>2
  <2> QED
    BY <1>4, <2>1, <2>3
<1>6. ASSUME Len(a) >= 4, \A i \in 1..4 : a[i] = PackageHeader[i]
      PROVE  D = PackageHeader
  <2>1. \A k \in 1..4 : (IF k <= Len(a) THEN a[k] ELSE 0) = PackageHeader[k]
    BY <1>4, <1>6
  <2> QED
    BY <1>2, <1>3, <2>1
<1> QED
  BY <1>1, <1>5, <1>6

\* Writing a header, or part of one over one, leaves a header in the array.
LEMMA HeadCopied ==
    ASSUME NEW a \in Seq(Byte), NEW b \in Seq(Byte), NEW n \in Nat, n = Len(b),
           NEW e, e = Over(b, a),
           \A i \in 1..4 : i <= n => b[i] = PackageHeader[i],
           n >= 4 \/ Shown(a, 0, 4) = PackageHeader
    PROVE  Shown(e, 0, 4) = PackageHeader
<1>1. /\ e \in Seq(Byte) /\ Len(e) >= n /\ Len(e) >= Len(a)
      /\ \A i \in 1..n : e[i] = b[i]
      /\ \A i \in 1..Len(a) : i > n => e[i] = a[i]
  BY OverIs DEF IsOver
<1>2. Len(a) \in Nat /\ Len(e) \in Nat
  BY <1>1, LenProperties
<1>3. n >= 4 \/ (Len(a) >= 4 /\ \A i \in 1..4 : a[i] = PackageHeader[i])
  BY HeadThere
<1>4. Len(e) >= 4
  BY <1>1, <1>2, <1>3
<1>5. ASSUME NEW i \in 1..4
      PROVE  e[i] = PackageHeader[i]
  <2>1. CASE i <= n
    <3>1. i \in 1..n
      BY <2>1
    <3> QED
      BY <1>1, <2>1, <3>1
  <2>2. CASE ~(i <= n)
    <3>1. i \in 1..Len(a) /\ i > n /\ a[i] = PackageHeader[i]
      BY <1>2, <1>3, <2>2
    <3> QED
      BY <1>1, <3>1
  <2> QED
    BY <2>1, <2>2
<1> QED
  BY <1>1, <1>4, <1>5, HeadThere

\* What is in the agent's buffer starts with a header, as far as it goes.
LEMMA HeaderFirst ==
    ASSUME NEW b, NEW s, NEW q, NEW p, InStep("agent", b, s, q, p), NEW n \in Nat, n = Len(b)
    PROVE  \A i \in 1..4 : i <= n => b[i] = PackageHeader[i]
<1>1. PICK ms : ms = q \o p
  OBVIOUS
<1>2. b \in Seq(Byte) /\ s \in Seq(Byte) /\ ms \in Seq(MessagesOf("agent"))
      /\ b \o s = AllBytes("agent", ms)
  BY <1>1 DEF InStep
<1>a. "agent" \in Protos
  BY DEF Protos
<1>3. CASE ms = <<>>
  <2>1. b \o s = <<>>
    BY <1>2, <1>3, AllBytesNone
  <2>2. Len(b \o s) = Len(b) + Len(s)
    BY <1>2
  <2>3. n = 0
    BY <1>2, <2>1, <2>2
  <2>4. QED
    BY <2>3
<1>4. CASE ms # <<>>
  <2>1. PICK B : B = Bytes("agent", Head(ms))
    OBVIOUS
  <2>2. Head(ms) \in MessagesOf("agent") /\ Tail(ms) \in Seq(MessagesOf("agent"))
        /\ AllBytes("agent", ms) = B \o AllBytes("agent", Tail(ms))
    BY <1>a, <1>2, <1>4, <2>1, AllBytesFirst
  <2>3. B \in Seq(Byte) /\ Len(B) \in Nat /\ Len(B) >= 6 /\ \A i \in 1..4 : B[i] = PackageHeader[i]
    BY <1>a, <2>1, <2>2, BytesShape
  <2>4. AllBytes("agent", Tail(ms)) \in Seq(Byte)
    BY <1>a, <2>2, AllBytesType
  <2>5. Fronts(b, B)
    BY <1>2, <2>2, <2>3, <2>4, CatFronts
  <2>6. QED
    BY <2>3, <2>5 DEF Fronts
<1>5. QED
  BY <1>3, <1>4

\* ... after a read, ...
LEMMA FrameRead ==
    ASSUME TInv, Clean, Clean', NEW q, Aligned(q), NEW k \in 1..ReadSize, Read(k)
    PROVE  (\E r : Aligned(r))'
<1>a. /\ sent \in Traffic /\ stream \in Seq(Byte) /\ buffer \in Seq(Byte) /\ pending \in Seq(Sent)
      /\ sent.proto \in Protos /\ ReadSize \in Nat /\ PackageMaxLength \in Nat
  BY TypeParts, SentType, WireAssumption
<1>b. /\ InStep(sent.proto, buffer, stream, <<>>, pending)
      /\ out \in Seq(MessagesOf(sent.proto)) /\ due = out
  <2>1. q = <<>> /\ out \in Seq(MessagesOf(sent.proto)) /\ due = out \o q
    BY DEF Aligned, Read
  <2>2. InStep(sent.proto, buffer, stream, q, pending)
    BY DEF Aligned
  <2>3. out \o <<>> = out
    BY <2>1
  <2>4. QED
    BY <2>1, <2>2, <2>3
<1>1. PICK n \in Nat : n = Len(stream)
  BY <1>a
<1>2. k \in 0..n /\ k >= 1 /\ k <= ReadSize
  BY <1>a, <1>1 DEF Read
<1>3. buffer' = buffer \o SubSeq(stream, 1, k) /\ stream' = SubSeq(stream, k + 1, n)
      /\ sent' = sent
  BY <1>1 DEF Read, SetBuffer
<1>4. PICK d : d = Max({j \in 0..Len(pending) : Len(stream') <= Left(sent.proto, pending, j)})
  OBVIOUS
<1>5. due' = due \o SubSeq(pending, 1, d) /\ pending' = SubSeq(pending, d + 1, Len(pending))
  BY <1>4 DEF Read, Left
<1>6. PICK q1 : q1 = SubSeq(pending, 1, d)
  OBVIOUS
<1>7. InStep(sent.proto, buffer', stream', q1, pending') /\ Len(buffer') = Len(buffer) + k
      /\ q1 \o pending' = pending
  <2>1. PICK c, r, t : c = buffer' /\ r = stream' /\ t = pending'
    OBVIOUS
  <2>2. c = buffer \o SubSeq(stream, 1, k) /\ r = SubSeq(stream, k + 1, n)
        /\ t = SubSeq(pending, d + 1, Len(pending))
        /\ d = Done(sent.proto, pending, r)
    BY <1>3, <1>4, <1>5, <2>1 DEF Done
  <2>3. IsRead(sent.proto, buffer, pending, k, c, r, q1, t)
    BY <1>a, <1>b, <1>1, <1>2, <1>6, <2>2, ReadInStep
  <2>4. QED
    BY <2>1, <2>3 DEF IsRead
<1>8. pending # <<>>
  <2>1. SUFFICES ASSUME pending = <<>> PROVE FALSE
    OBVIOUS
  <2>2. Len(stream) <= Len(AllBytes(sent.proto, <<>>))
    BY <2>1, TypeParts
  <2>3. Len(stream) <= 0
    BY <2>2, AllBytesNone
  <2>4. QED
    BY <2>3, <1>1, <1>2
<1>9. PICK B : B = Bytes(sent.proto, Head(pending))
  OBVIOUS
<1>10. Len(buffer) < Len(B) /\ Head(pending) \in MessagesOf(sent.proto)
  BY <1>a, <1>b, <1>8, <1>9, NotYet
<1>11. ASSUME sent.proto = "agent"
       PROVE  HeadSeen' /\ Len(buffer') <= PackageMaxLength /\ Kept'
  <2>1. Len(buffer) \in Nat /\ Len(B) \in Nat /\ B \in Seq(Byte) /\ Len(B) >= 6
        /\ \A i \in 1..4 : B[i] = PackageHeader[i]
    BY <1>a, <1>9, <1>10, <1>11, BytesShape
  <2>2. Len(B) - 1 + ReadSize <= PackageMaxLength
    <3>1. Head(pending) \in Sent
      BY <1>a, <1>8
    <3>2. PICK i \in DOMAIN sent.messages : Head(pending) = sent.messages[i]
      BY <3>1 DEF Sent
    <3>3. Short
      BY <1>11 DEF Clean
    <3>4. QED
      BY <1>9, <3>2, <3>3 DEF Short
  <2>3. Len(buffer') <= PackageMaxLength
    BY <1>a, <1>2, <1>7, <1>10, <2>1, <2>2
  <2>4. PICK m \in Nat : m = Len(buffer')
    BY <1>7, <1>2, <2>1
  <2>5. \A i \in 1..4 : i <= m => buffer'[i] = PackageHeader[i]
    BY <1>7, <1>11, <2>4, HeaderFirst
  <2>6. m >= 4 \/ Shown(array, 0, 4) = PackageHeader
    <3>1. HeadSeen
      BY <1>11 DEF Aligned
    <3>2. ~(array = <<>> /\ m < 4)
      <4>1. split' = (split \/ (sent.proto = "agent" /\ array = <<>> /\ Len(buffer') < 4))
        BY DEF Read
      <4>2. ~split'
        BY DEF Clean
      <4>3. ~(sent.proto = "agent" /\ array = <<>> /\ Len(buffer') < 4)
        BY <4>1, <4>2, Zenon
      <4>4. QED
        BY <1>11, <2>4, <4>3
    <3>3. QED
      BY <3>1, <3>2, <2>4 DEF HeadSeen
  <2>7. Shown(array', 0, 4) = PackageHeader
    <3>1. buffer' \in Seq(Byte) /\ array' = Over(buffer', array)
      BY <1>7 DEF InStep, Read, SetBuffer
    <3>2. PICK b, e : b \in Seq(Byte) /\ b = buffer' /\ e = array' /\ e = Over(b, array)
      BY <3>1
    <3>3. array \in Seq(Byte)
      BY TypeParts
    <3>4. Shown(e, 0, 4) = PackageHeader
      BY <2>4, <2>5, <2>6, <3>2, <3>3, HeadCopied
    <3>5. QED
      BY <3>2, <3>4
  <2>8. Kept'
    BY <1>11, KeptStays DEF Aligned, Read
  <2>9. QED
    BY <2>3, <2>7, <2>8 DEF HeadSeen
<1>12. at' = "read" => q1 = <<>>
  BY DEF Read
<1>13. out' \in Seq(MessagesOf(sent.proto)) /\ due' = out' \o q1
  BY <1>b, <1>5, <1>6 DEF Read
<1>14. QED
  BY <1>3, <1>7, <1>11, <1>12, <1>13, AlignedAfter


\* ... on a new connection, ...
LEMMA FrameReconnect ==
    ASSUME TInv, Clean, Clean', NEW q, Aligned(q), NEW k \in 1..(Len(pending) + 1), Reconnect(k)
    PROVE  (\E r : Aligned(r))'
<1>a. /\ sent \in Traffic /\ pending \in Seq(Sent) /\ sent.proto \in Protos
      /\ sent' = sent /\ at' = at /\ out' = out /\ due' = due /\ file' = file /\ at = "read"
  BY TypeParts, SentType DEF Reconnect
<1>1. q = <<>> /\ out \in Seq(MessagesOf(sent.proto)) /\ due = out \o q
  BY <1>a DEF Aligned
<1>2. PICK p : p = pending'
  OBVIOUS
<1>3. p = SubSeq(pending, k, Len(pending)) /\ stream' = AllBytes(sent.proto, p)
  BY <1>2, <1>a DEF Reconnect
<1>4. p \in Seq(MessagesOf(sent.proto))
  <2>1. p \in Seq(Sent)
    BY <1>2, <1>a, TypeReconnect, TypeParts DEF TInv, Sent
  <2>2. QED
    BY <1>a, <2>1, PendingType
<1>5. buffer' = <<>> /\ (sent.proto = "agent" => HeadSeen')
  <2>1. CASE sent.proto = "node"
    BY <2>1 DEF Reconnect, NewBuffer
  <2>2. CASE sent.proto # "node"
    <3>1. torn' = (torn \/ buffer # <<>>) /\ buffer' = buffer /\ array' = array
      BY <2>2 DEF Reconnect
    <3>2. ~torn'
      BY DEF Clean
    <3>3. buffer = <<>>
      BY <3>1, <3>2, Zenon
    <3>4. sent.proto = "agent" => HeadSeen
      BY DEF Aligned
    <3>5. QED
      BY <3>1, <3>3, <3>4 DEF HeadSeen
  <2>3. QED
    BY <2>1, <2>2
<1>6. InStep(sent.proto, buffer', stream', <<>>, pending')
  BY <1>2, <1>3, <1>4, <1>5, <1>a, Fresh
<1>7. sent.proto = "agent" => HeadSeen' /\ Len(buffer') <= PackageMaxLength /\ Kept'
  <2>1. Len(buffer') <= PackageMaxLength
    BY <1>5, WireAssumption
  <2>2. sent.proto = "agent" => Kept'
    BY <1>a, KeptStays DEF Aligned
  <2>3. QED
    BY <1>5, <2>1, <2>2
<1>8. QED
  BY <1>a, <1>1, <1>6, <1>7, AlignedAfter

\* When all that was sent is handed out, nothing is left in the buffer.
LEMMA NothingKept ==
    ASSUME NEW proto, NEW b, NEW s, InStep(proto, b, s, <<>>, <<>>)
    PROVE  b = <<>>
<1>1. b \in Seq(Byte) /\ s \in Seq(Byte) /\ b \o s = AllBytes(proto, <<>> \o <<>>)
  BY DEF InStep
<1>2. <<>> \o <<>> = <<>>
  OBVIOUS
<1>3. b \o s = <<>>
  BY <1>1, <1>2, AllBytesNone
<1>4. QED
  BY <1>1, <1>3

\* In step, the receiver waits if nothing has arrived in full, ...
LEMMA NothingArrived ==
    ASSUME TInv, Aligned(<<>>)
    PROVE  Results = {Wait}
<1>a. sent.proto \in Protos /\ buffer \in Seq(Byte) /\ stream \in Seq(Byte)
  BY TypeParts, SentType
<1>b. InStep(sent.proto, buffer, stream, <<>>, pending)
  BY DEF Aligned
<1>c. Results = ResultsOf(sent.proto, buffer, array)
  BY DEF Results, ResultsOf
<1>d. array \in Seq(Byte) /\ Under(buffer, array)
  BY TypeParts
<1>1. CASE pending = <<>>
  <2>1. buffer = <<>>
    BY <1>b, <1>1, NothingKept
  <2>2. Len(buffer) < 6
    BY <2>1
  <2>3. Decode(buffer, array) = {Wait}
    BY <2>1, Zenon DEF Decode
  <2>4. DecodeNode(buffer) = Wait /\ DecodeClient(buffer) = Wait
    BY <2>2 DEF DecodeNode, DecodeClient
  <2>5. QED
    BY <1>a, <2>3, <2>4 DEF Results, Protos
<1>2. CASE pending # <<>>
  <2>1. PICK B : B = Bytes(sent.proto, Head(pending))
    OBVIOUS
  <2>2. Fronts(buffer, B) /\ Len(buffer) < Len(B) /\ Head(pending) \in MessagesOf(sent.proto)
    BY <1>a, <1>b, <1>2, <2>1, NotYet
  <2>3. sent.proto = "agent" => /\ Len(buffer) <= PackageMaxLength
                                /\ buffer = <<>> \/ Shown(array, 0, 4) = PackageHeader
    BY DEF Aligned, HeadSeen
  <2>4. Decoded(ResultsOf(sent.proto, buffer, array), Head(pending), B, buffer)
    BY <1>a, <1>d, <2>1, <2>2, <2>3, Decodes
  <2>5. QED
    BY <1>c, <2>2, <2>4 DEF Decoded
<1>3. QED
  BY <1>1, <1>2

\* ... and otherwise takes the first message that has.
LEMMA OneArrived ==
    ASSUME TInv, NEW q, Aligned(q), q # <<>>, NEW m, m = Head(q),
           NEW B, B = Bytes(sent.proto, m), NEW c, c = SubSeq(buffer, Len(B) + 1, Len(buffer))
    PROVE  /\ Results = {Message(m.cmd, m.data, Len(B))} /\ m \in MessagesOf(sent.proto)
           /\ Len(B) <= Len(buffer) /\ Len(B) >= 6 /\ Len(B) \in Nat /\ Len(c) <= Len(buffer)
           /\ InStep(sent.proto, c, stream, Tail(q), pending)
<1>a. sent.proto \in Protos /\ buffer \in Seq(Byte) /\ Len(buffer) \in Nat
  BY TypeParts, SentType
<1>b. InStep(sent.proto, buffer, stream, q, pending)
  BY DEF Aligned
<1>1. /\ Fronts(buffer, B) /\ ~(Len(buffer) < Len(B)) /\ m \in MessagesOf(sent.proto)
      /\ Len(c) <= Len(buffer) /\ InStep(sent.proto, c, stream, Tail(q), pending)
  BY <1>a, <1>b, Arrived
<1>c. array \in Seq(Byte) /\ Under(buffer, array)
  BY TypeParts
<1>2. sent.proto = "agent" => /\ Len(buffer) <= PackageMaxLength
                              /\ buffer = <<>> \/ Shown(array, 0, 4) = PackageHeader
  BY DEF Aligned, HeadSeen
<1>3. Decoded(ResultsOf(sent.proto, buffer, array), m, B, buffer)
  BY <1>a, <1>c, <1>1, <1>2, Decodes
<1>4. Results = ResultsOf(sent.proto, buffer, array)
  BY DEF Results, ResultsOf
<1>5. Len(B) \in Nat /\ Len(B) >= 6
  BY <1>a, <1>1, BytesShape
<1>6. QED
  BY <1>a, <1>1, <1>3, <1>4, <1>5 DEF Decoded


\* ... when onMessage waits, ...
LEMMA FrameWait ==
    ASSUME TInv, NEW q, Aligned(q), onMessageWait
    PROVE  (\E r : Aligned(r))'
<1>1. q = <<>>
  <2>1. SUFFICES ASSUME q # <<>> PROVE FALSE
    OBVIOUS
  <2>2. PICK m, B : m = Head(q) /\ B = Bytes(sent.proto, m)
    OBVIOUS
  <2>3. Results = {Message(m.cmd, m.data, Len(B))}
    BY <2>1, <2>2, OneArrived
  <2>4. Wait = Message(m.cmd, m.data, Len(B))
    BY <2>3 DEF onMessageWait
  <2>5. Wait.kind = "wait" /\ Message(m.cmd, m.data, Len(B)).kind = "message"
    BY DEF Wait, Message
  <2>6. QED
    BY <2>4, <2>5
<1>2. /\ sent' = sent /\ buffer' = buffer /\ stream' = stream /\ pending' = pending
      /\ out' = out /\ due' = due /\ array' = array /\ file' = file
  BY DEF onMessageWait
<1>3. sent.proto = "agent" => HeadSeen' /\ Len(buffer') <= PackageMaxLength /\ Kept'
  BY <1>2, KeptStays DEF Aligned, HeadSeen
<1>4. InStep(sent.proto, buffer', stream', q, pending') /\ out' \in Seq(MessagesOf(sent.proto))
      /\ due' = out' \o q
  BY <1>2 DEF Aligned
<1>5. QED
  BY <1>1, <1>2, <1>3, <1>4, AlignedAfter

\* In step, no buffer is dropped and nothing panics.
LEMMA FrameDrop ==
    ASSUME TInv, NEW q, Aligned(q), onMessageDrop \/ onMessagePanics
    PROVE  FALSE
<1>1. PICK r \in Results : r.kind \in {"drop", "panic"}
  <2>1. Drop \in Results \/ Panic \in Results
    BY DEF onMessageDrop, onMessagePanics
  <2>2. Drop.kind = "drop" /\ Panic.kind = "panic"
    BY DEF Drop, Panic, Wait
  <2>3. QED
    BY <2>1, <2>2
<1>2. CASE q = <<>>
  <2>1. r = Wait
    BY <1>1, <1>2, NothingArrived
  <2>2. QED
    BY <1>1, <2>1 DEF Wait
<1>3. CASE q # <<>>
  <2>1. PICK m, B : m = Head(q) /\ B = Bytes(sent.proto, m)
    OBVIOUS
  <2>2. Results = {Message(m.cmd, m.data, Len(B))}
    BY <1>3, <2>1, OneArrived
  <2>3. r = Message(m.cmd, m.data, Len(B))
    BY <1>1, <2>2
  <2>4. QED
    BY <1>1, <2>3 DEF Message
<1>4. QED
  BY <1>2, <1>3

\* The parts of a message that may be sent.
LEMMA MessageIs ==
    ASSUME NEW proto, NEW m \in MessagesOf(proto)
    PROVE  /\ m.cmd \in 0..9 /\ m.data \in Seq(Byte) /\ m = [cmd |-> m.cmd, data |-> m.data]
           /\ proto = "agent" /\ m.cmd = CMD_POS => IsRecord(m.data)
<1>1. m \in MessageRecord /\ Sendable(proto, m)
  BY DEF MessagesOf
<1>2. m.cmd \in 0..9 /\ m.data \in Seq(Byte) /\ m = [cmd |-> m.cmd, data |-> m.data]
  BY <1>1 DEF MessageRecord
<1>3. proto = "agent" /\ m.cmd = CMD_POS => IsRecord(m.data)
  BY <1>1 DEF Sendable
<1>4. QED
  BY <1>2, <1>3

\* The step of onMessage when the receiver is in step.
LEMMA TakesMessage ==
    ASSUME TInv, NEW q, Aligned(q), onMessage, NEW m, m = Head(q), NEW B, B = Bytes(sent.proto, m)
    PROVE  /\ q # <<>> /\ at' = "decode" /\ out' = Append(out, m)
           /\ SetBuffer(SubSeq(buffer, Len(B) + 1, Len(buffer)))
           /\ sent.proto = "agent" =>
                 IF m.cmd = CMD_POS THEN WriteAt(m.data) ELSE file' = file
<1>1. PICK r \in Results :
        /\ r.kind = "message"
        /\ LET pos == sent.proto = "agent" /\ r.cmd = CMD_POS
               bad == pos /\ Len(r.data) < 18
           IN  /\ IF bad \/ r.size > Len(buffer) THEN NewBuffer
                  ELSE SetBuffer(SubSeq(buffer, r.size + 1, Len(buffer)))
               /\ at' = IF bad THEN "read" ELSE "decode"
               /\ IF pos /\ ~bad THEN WriteAt(r.data) ELSE UNCHANGED file
               /\ out' = IF bad \/ r.cmd = -1 THEN out
                         ELSE Append(out, [cmd |-> r.cmd, data |-> r.data])
  BY DEF onMessage
<1>2. q # <<>>
  <2>1. SUFFICES ASSUME q = <<>> PROVE FALSE
    OBVIOUS
  <2>2. r = Wait
    BY <1>1, <2>1, NothingArrived
  <2>3. QED
    BY <1>1, <2>2 DEF Wait
<1>3. Results = {Message(m.cmd, m.data, Len(B))} /\ m \in MessagesOf(sent.proto)
      /\ ~(Len(B) > Len(buffer))
  <2>1. Results = {Message(m.cmd, m.data, Len(B))} /\ m \in MessagesOf(sent.proto)
        /\ Len(B) <= Len(buffer) /\ Len(B) \in Nat
    BY <1>2, OneArrived
  <2>2. Len(buffer) \in Nat
    BY TypeParts, LenProperties
  <2>3. QED
    BY <2>1, <2>2
<1>4. r = Message(m.cmd, m.data, Len(B))
  BY <1>1, <1>3
<1>5. r.cmd = m.cmd /\ r.data = m.data /\ r.size = Len(B)
  BY <1>4 DEF Message
<1>6. /\ m.cmd \in 0..9 /\ m = [cmd |-> m.cmd, data |-> m.data]
      /\ sent.proto = "agent" /\ m.cmd = CMD_POS => IsRecord(m.data)
  BY <1>3, MessageIs
<1>7. ~(sent.proto = "agent" /\ m.cmd = CMD_POS /\ Len(m.data) < 18)
  <2>1. MinRead \in Nat
    BY WireAssumption
  <2>2. IsRecord(m.data) => ~(Len(m.data) < 18)
    BY <2>1 DEF IsRecord
  <2>3. QED
    BY <1>6, <2>2
<1>8. m.cmd # -1
  BY <1>6
<1>9. SetBuffer(SubSeq(buffer, Len(B) + 1, Len(buffer))) /\ at' = "decode"
  BY <1>1, <1>3, <1>5, <1>7, Zenon
<1>10. out' = Append(out, m)
  <2>1. out' = IF (sent.proto = "agent" /\ m.cmd = CMD_POS /\ Len(m.data) < 18) \/ m.cmd = -1
               THEN out ELSE Append(out, [cmd |-> m.cmd, data |-> m.data])
    BY <1>1, <1>5
  <2>2. QED
    BY <1>6, <1>7, <1>8, <2>1
<1>11. sent.proto = "agent" => IF m.cmd = CMD_POS THEN WriteAt(m.data) ELSE file' = file
  BY <1>1, <1>5, <1>7, Zenon
<1>12. QED
  BY <1>2, <1>9, <1>10, <1>11


\* The file is right after a message: a position is written to it when it is handed out.
LEMMA KeptMessage ==
    ASSUME TInv, Kept, NEW S, out \in Seq(S), NEW m \in S, m.data \in Seq(Byte),
           out' = Append(out, m),
           IF m.cmd = CMD_POS THEN WriteAt(m.data) ELSE file' = file
    PROVE  Kept'
<1>1. PICK n \in Nat : n = Len(out)
  OBVIOUS
<1>2. /\ DOMAIN out = 1..n /\ DOMAIN out' = 1..(n + 1) /\ out'[n + 1] = m
      /\ \A i \in 1..n : out'[i] = out[i]
  BY <1>1
<1>3. PositionsOut \subseteq 0..n /\ PositionsOut' \subseteq 0..(n + 1)
  BY <1>1, <1>2 DEF PositionsOut
<1>4. CASE m.cmd = CMD_POS
  <2>1. n + 1 \in PositionsOut'
    BY <1>1, <1>2, <1>4 DEF PositionsOut
  <2>2. Max(PositionsOut') = n + 1
    <3>1. PICK T : T = PositionsOut'
      OBVIOUS
    <3>2. n + 1 \in Nat /\ T \subseteq 0..(n + 1) /\ T # {}
      BY <1>1, <1>3, <2>1, <3>1
    <3>3. Max(T) \in T /\ \A y \in T : y <= Max(T)
      BY <3>2, MaxIs
    <3>4. Max(T) \in 0..(n + 1) /\ n + 1 <= Max(T)
      BY <2>1, <3>1, <3>2, <3>3
    <3>a. Max(T) = n + 1
      BY <3>4
    <3>5. QED
      BY <3>1, <3>a
  <2>3. file \in Seq(Byte) /\ WriteAt(m.data)
    BY <1>4, TypeParts
  <2>4. IsWritten(file', file, m.data, Len(m.data))
    BY <2>3, WriteType
  <2>5. IsWritten(file', file', m.data, Len(m.data))
    BY <2>4 DEF IsWritten
  <2>6. Kept' = (IF PositionsOut' = {} THEN file' = <<>>
                 ELSE LET r == out'[Max(PositionsOut')].data IN IsWritten(file', file', r, Len(r)))
    BY DEF Kept
  <2>7. QED
    BY <1>2, <2>1, <2>2, <2>5, <2>6
<1>5. CASE m.cmd # CMD_POS
  <2>1. PositionsOut' = PositionsOut
    BY <1>1, <1>2, <1>5 DEF PositionsOut
  <2>2. file' = file
    BY <1>5
  <2>3. CASE PositionsOut = {}
    BY <2>1, <2>2, <2>3 DEF Kept
  <2>4. CASE PositionsOut # {}
    <3>1. Max(PositionsOut) \in PositionsOut
      BY <1>3, <2>4, MaxIs
    <3>2. out'[Max(PositionsOut)] = out[Max(PositionsOut)]
      BY <1>2, <3>1 DEF PositionsOut
    <3>3. QED
      BY <2>1, <2>2, <2>4, <3>2 DEF Kept
  <2>5. QED
    BY <2>3, <2>4
<1>6. QED
  BY <1>4, <1>5

\* The first of q may be counted with what is before it.
LEMMA MoveHead ==
    ASSUME NEW S, NEW o \in Seq(S), NEW q \in Seq(S), q # <<>>
    PROVE  o \o q = Append(o, Head(q)) \o Tail(q)
<1>1. Head(q) \in S /\ Tail(q) \in Seq(S) /\ <<Head(q)>> \in Seq(S)
  OBVIOUS
<1>2. q = <<Head(q)>> \o Tail(q)
  OBVIOUS
<1>3. Append(o, Head(q)) = o \o <<Head(q)>>
  BY <1>1, AppendIsConcat
<1>4. (o \o <<Head(q)>>) \o Tail(q) = o \o (<<Head(q)>> \o Tail(q))
  BY <1>1, CatAssoc, SMTT(30)
<1>5. QED
  BY <1>2, <1>3, <1>4, Zenon

\* ... when onMessage takes a message, ...
LEMMA FrameMessage ==
    ASSUME TInv, NEW q, Aligned(q), onMessage
    PROVE  (\E r : Aligned(r))'
<1>a. sent.proto \in Protos /\ buffer \in Seq(Byte) /\ Len(buffer) \in Nat
  BY TypeParts, SentType
<1>b. sent' = sent /\ stream' = stream /\ pending' = pending /\ due' = due
  BY DEF onMessage
<1>1. PICK m, B, c :
        m = Head(q) /\ B = Bytes(sent.proto, m) /\ c = SubSeq(buffer, Len(B) + 1, Len(buffer))
  OBVIOUS
<1>2. /\ q # <<>> /\ at' = "decode" /\ out' = Append(out, m) /\ SetBuffer(c)
      /\ sent.proto = "agent" => IF m.cmd = CMD_POS THEN WriteAt(m.data) ELSE file' = file
  BY <1>1, TakesMessage
<1>3. /\ m \in MessagesOf(sent.proto) /\ Len(B) <= Len(buffer) /\ Len(B) >= 6 /\ Len(B) \in Nat
      /\ Len(c) <= Len(buffer) /\ InStep(sent.proto, c, stream, Tail(q), pending)
  BY <1>1, <1>2, OneArrived
<1>4. buffer' = c /\ c \in Seq(Byte)
  BY <1>2, <1>3 DEF SetBuffer, InStep
<1>5. q \in Seq(MessagesOf(sent.proto)) /\ out \in Seq(MessagesOf(sent.proto)) /\ due = out \o q
  BY DEF Aligned, InStep
<1>6. out' \in Seq(MessagesOf(sent.proto))
  BY <1>2, <1>3, <1>5
<1>7. due' = out' \o Tail(q)
  <2>1. out \o q = Append(out, Head(q)) \o Tail(q)
    BY <1>2, <1>5, MoveHead
  <2>2. QED
    BY <1>b, <1>1, <1>2, <1>5, <2>1
<1>8. ASSUME sent.proto = "agent"
      PROVE  HeadSeen' /\ Len(buffer') <= PackageMaxLength /\ Kept'
  <2>1. HeadSeen /\ Len(buffer) <= PackageMaxLength /\ Kept /\ PackageMaxLength \in Nat
    BY <1>8, WireAssumption DEF Aligned
  <2>2. Shown(array, 0, 4) = PackageHeader
    <3>1. buffer # <<>>
      BY <1>a, <1>3
    <3>2. QED
      BY <2>1, <3>1 DEF HeadSeen
  <2>3. PICK n \in Nat : n = Len(c)
    BY <1>4
  <2>4. \A i \in 1..4 : i <= n => c[i] = PackageHeader[i]
    BY <1>3, <1>8, <2>3, HeaderFirst
  <2>5. Shown(array', 0, 4) = PackageHeader
    <3>1. array \in Seq(Byte)
      BY TypeParts
    <3>2. PICK e : e = array' /\ e = Over(c, array)
      BY <1>2 DEF SetBuffer
    <3>3. Shown(e, 0, 4) = PackageHeader
      BY <1>4, <2>2, <2>3, <2>4, <3>1, <3>2, HeadCopied
    <3>4. QED
      BY <3>2, <3>3
  <2>6. Len(buffer') <= PackageMaxLength
    BY <1>a, <1>3, <1>4, <2>1, <2>3
  <2>7. Kept'
    <3>1. m.data \in Seq(Byte)
      BY <1>3, MessageIs
    <3>2. QED
      BY <1>2, <1>3, <1>5, <1>8, <2>1, <3>1, KeptMessage
  <2>8. QED
    BY <2>5, <2>6, <2>7 DEF HeadSeen
<1>9. QED
  BY <1>b, <1>2, <1>3, <1>4, <1>6, <1>7, <1>8, AlignedAfter

\* ... and so after every step.
LEMMA FrameNext ==
    ASSUME TInv, FrameInv, [Next]_vars
    PROVE  FrameInv'
<1>1. SUFFICES ASSUME Clean' PROVE (\E r : Aligned(r))'
  BY DEF FrameInv
<1>2. Clean
  BY <1>1, CleanBefore
<1>3. PICK q : Aligned(q)
  BY <1>2 DEF FrameInv
<1>4. CASE \E k \in 1..ReadSize : Read(k)
  BY <1>1, <1>2, <1>3, <1>4, FrameRead
<1>5. CASE \E k \in 1..(Len(pending) + 1) : Reconnect(k)
  BY <1>1, <1>2, <1>3, <1>5, FrameReconnect
<1>6. CASE onMessageWait
  BY <1>3, <1>6, FrameWait
<1>7. CASE onMessageDrop \/ onMessagePanics
  BY <1>3, <1>7, FrameDrop
<1>8. CASE onMessage
  BY <1>3, <1>8, FrameMessage
<1>9. CASE UNCHANGED vars
  BY <1>3, <1>9 DEF vars, Aligned, HeadSeen, Kept, PositionsOut
<1>10. QED
  BY <1>4, <1>5, <1>6, <1>7, <1>8, <1>9 DEF Next

\* The inductive invariant.
LEMMA AlwaysFramed == Spec => [](TInv /\ FrameInv)
<1>1. Init => TInv /\ FrameInv
  BY TypeInit, FrameInit
<1>2. TInv /\ FrameInv /\ [Next]_vars => (TInv /\ FrameInv)'
  BY TypeNext, FrameNext
<1>3. QED
  BY <1>1, <1>2, PTL DEF Spec

\* In step, what was handed out is what has arrived, up to the messages q.
LEMMA AlignedFramed == TInv /\ FrameInv => Framed
<1>1. SUFFICES ASSUME TInv, FrameInv, Clean
               PROVE  IF at = "read" THEN out = due ELSE IsPrefix(out, due)
  BY Zenon DEF Framed, Clean
<1>2. PICK q : Aligned(q)
  BY <1>1 DEF FrameInv
<1>3. /\ out \in Seq(MessagesOf(sent.proto)) /\ q \in Seq(MessagesOf(sent.proto))
      /\ due = out \o q /\ (at = "read" => q = <<>>)
  BY <1>2 DEF Aligned, InStep
<1>4. CASE at = "read"
  <2>1. out \o <<>> = out
    BY <1>3
  <2>2. QED
    BY <1>3, <1>4, <2>1
<1>5. CASE at # "read"
  <2>1. IsPrefix(out, due)
    BY <1>3 DEF IsPrefix
  <2>2. QED
    BY <1>5, <2>1
<1>6. QED
  BY <1>4, <1>5

\* However a stream is cut into reads, in each of the three protocols, what the
\* callbacks of onMessage get is what was sent, in order and to the last message
\* that has arrived, unless a connection broke inside a message, the agent's
\* first read ended inside a header or its messages do not fit its buffer.
THEOREM FramesArrive == Spec => []Framed
<1>1. TInv /\ FrameInv => Framed
  BY AlignedFramed
<1>2. QED
  BY <1>1, AlwaysFramed, PTL

-----------------------------------------------------------------------------
(* What a receiver keeps. *)

\* In step or out of it, the agent waits for more only below its limit, and only
\* the agent's header can be split.
LimitInv ==
    /\ split => sent.proto = "agent"
    /\ sent.proto = "agent" /\ at = "read" => Len(buffer) <= PackageMaxLength

\* Above the limit Decode drops the buffer, whatever is in it.
LEMMA LimitDrops ==
    ASSUME NEW data \in Seq(Byte), NEW a, Wait \in Decode(data, a)
    PROVE  Len(data) <= PackageMaxLength
<1>1. Len(data) \in Nat /\ PackageMaxLength \in Nat
  BY LenProperties, WireAssumption
<1>2. SUFFICES ASSUME Len(data) > PackageMaxLength PROVE FALSE
  BY <1>1
<1>3. data # <<>>
  BY <1>1, <1>2
<1>4. Decode(data, a) = {Drop}
  BY <1>2, <1>3 DEF Decode
<1>5. Wait # Drop
  BY DEF Wait, Drop
<1>6. QED
  BY <1>4, <1>5

\* Every step keeps the limit.
LEMMA LimitNext ==
    ASSUME TInv, LimitInv, [Next]_vars
    PROVE  LimitInv'
<1>a. <<>> \in Seq(Byte) /\ Len(<<>>) <= PackageMaxLength
  BY WireAssumption
<1>1. CASE \E k \in 1..ReadSize : Read(k)
  <2>1. /\ sent' = sent /\ at' = "decode"
        /\ split' = (split \/ (sent.proto = "agent" /\ array = <<>> /\ Len(buffer') < 4))
    BY <1>1 DEF Read
  <2>2. split' => sent.proto = "agent"
    BY <2>1, Zenon DEF LimitInv
  <2>3. QED
    BY <2>1, <2>2 DEF LimitInv
<1>2. CASE \E k \in 1..(Len(pending) + 1) : Reconnect(k)
  <2>1. /\ sent' = sent /\ at' = at /\ split' = split
        /\ buffer' = <<>> \/ buffer' = buffer
    BY <1>2 DEF Reconnect, NewBuffer
  <2>2. QED
    BY <1>a, <2>1 DEF LimitInv
<1>3. CASE onMessageWait
  <2>1. sent' = sent /\ split' = split /\ buffer' = buffer /\ Wait \in Results
    BY <1>3 DEF onMessageWait
  <2>2. ASSUME sent.proto = "agent"
        PROVE  Len(buffer) <= PackageMaxLength
    <3>1. Wait \in Decode(buffer, array)
      BY <2>1, <2>2 DEF Results
    <3>2. QED
      BY <3>1, TypeParts, LimitDrops
  <2>3. QED
    BY <2>1, <2>2 DEF LimitInv
<1>4. CASE onMessageDrop
  BY <1>a, <1>4 DEF onMessageDrop, NewBuffer, LimitInv
<1>5. CASE onMessagePanics
  BY <1>5 DEF onMessagePanics, LimitInv
<1>6. CASE onMessage
  <2>1. sent' = sent /\ split' = split /\ (at' = "read" => buffer' = <<>>)
    <3>1. sent' = sent /\ split' = split
      BY <1>6 DEF onMessage
    <3>2. at' = "decode" \/ NewBuffer
      BY <1>6 DEF onMessage
    <3>3. QED
      BY <3>1, <3>2 DEF NewBuffer
  <2>2. QED
    BY <1>a, <2>1 DEF LimitInv
<1>7. CASE UNCHANGED vars
  BY <1>7 DEF vars, LimitInv
<1>8. QED
  BY <1>1, <1>2, <1>3, <1>4, <1>5, <1>6, <1>7 DEF Next

\* In step, what a receiver without a limit keeps is part of one message.
LEMMA PartKept ==
    ASSUME TInv, FrameInv, ~torn, ~split, sent.proto # "agent", at = "read"
    PROVE  IF pending = <<>> THEN buffer = <<>>
           ELSE Len(buffer) < Len(Bytes(sent.proto, Head(pending)))
<1>1. Clean
  BY DEF Clean
<1>2. PICK q : Aligned(q)
  BY <1>1 DEF FrameInv
<1>3. q = <<>>
  BY <1>2 DEF Aligned
<1>4. InStep(sent.proto, buffer, stream, <<>>, pending)
  BY <1>2, <1>3 DEF Aligned
<1>5. sent.proto \in Protos
  BY TypeParts, SentType
<1>6. CASE pending = <<>>
  BY <1>4, <1>6, NothingKept
<1>7. CASE pending # <<>>
  BY <1>4, <1>5, <1>7, NotYet
<1>8. QED
  BY <1>6, <1>7

\* Nothing that is received makes a receiver keep more and more: the agent's never
\* waits above its limit, and the other two, which have none, keep less than one
\* message, until a connection broke inside one.
THEOREM LittleIsKept == Spec => []BufferBounded
<1>1. Init => LimitInv
  BY WireAssumption DEF Init, LimitInv
<1>2. TInv /\ LimitInv /\ [Next]_vars => LimitInv'
  BY LimitNext
<1>3. TInv /\ FrameInv /\ LimitInv => BufferBounded
  <2>1. SUFFICES ASSUME TInv, FrameInv, LimitInv, at = "read"
                 PROVE  IF sent.proto = "agent" THEN Len(buffer) <= PackageMaxLength
                        ELSE torn \/ IF pending = <<>> THEN buffer = <<>>
                             ELSE Len(buffer) < Len(Bytes(sent.proto, Head(pending)))
    BY Zenon DEF BufferBounded
  <2>2. CASE sent.proto = "agent"
    BY <2>1, <2>2 DEF LimitInv
  <2>3. CASE sent.proto # "agent"
    <3>1. ~split
      BY <2>1, <2>3 DEF LimitInv
    <3>2. QED
      BY <2>1, <2>3, <3>1, PartKept
  <2>4. QED
    BY <2>2, <2>3
<1>4. QED
  BY <1>1, <1>2, <1>3, AlwaysFramed, PTL DEF Spec

-----------------------------------------------------------------------------
(* The position record. *)

\* Positions whose fields fit their width.
Fitting ==
    {p \in [file : Seq(Byte), pos : Nat, index : Nat] :
        16 + Len(p.file) < Weight[2] /\ p.pos < Weight[8] /\ p.index < Weight[8]}

\* Where packPos puts its fields.
IsRecordOf(R, f, n, pos, index) ==
    /\ R \in Seq(Byte) /\ Len(R) = 18 + n
    /\ HasAt(R, 0, Digits(16 + n, 2), 2)
    /\ HasAt(R, 2, Digits(pos, 8), 8)
    /\ HasAt(R, 10, Digits(index, 8), 8)
    /\ HasAt(R, 18, f, n)

\* packPos writes the length, the position, the index and the name.
LEMMA RecordShape ==
    ASSUME NEW p, p.file \in Seq(Byte), p.pos \in Nat, p.index \in Nat,
           NEW n \in Nat, n = Len(p.file), NEW R, R = packPos(p)
    PROVE  IsRecordOf(R, p.file, n, p.pos, p.index)
<1> DEFINE a == Digits(16 + n, 2)
           b == Digits(p.pos, 8)
           c == Digits(p.index, 8)
           x == (a \o b) \o c
           f == p.file
<1>0. 16 + n \in Nat /\ 2 \in 0..8 /\ 8 \in 0..8
  OBVIOUS
<1>1. a \in Seq(Byte) /\ Len(a) = 2
  BY <1>0, DigitsType
<1>2. b \in Seq(Byte) /\ Len(b) = 8
  BY <1>0, DigitsType
<1>3. c \in Seq(Byte) /\ Len(c) = 8
  BY <1>0, DigitsType
<1>4. R = x \o f
  BY DEF packPos
<1>5. x = (a \o b) \o c /\ f \in Seq(Byte) /\ Len(f) = n
  OBVIOUS
<1> HIDE DEF a, b, c, x, f
<1>6. Len(b) = 10 - 2 /\ 2 \in Nat /\ 8 \in Nat /\ 10 \in Nat
  BY <1>2
<1>7. IsCatThree(x, Byte, a, 2, b, 10, c, 8)
  BY <1>1, <1>2, <1>3, <1>5, <1>6, CatThree
<1>8. /\ x \in Seq(Byte) /\ Len(x) = 18
      /\ \A i \in 1..2 : x[i] = a[i]
      /\ \A i \in 1..8 : x[2 + i] = b[i]
      /\ \A i \in 1..8 : x[10 + i] = c[i]
  BY <1>7 DEF IsCatThree
<1>9. IsCat(R, Byte, x, 18, f, n)
  BY <1>4, <1>5, <1>8, CatTwo
<1>10. /\ R \in Seq(Byte) /\ Len(R) = 18 + n
       /\ \A i \in 1..18 : R[i] = x[i]
       /\ \A i \in 1..n : R[18 + i] = f[i]
  BY <1>9 DEF IsCat
<1>11. \A i \in 1..2 : R[0 + i] = a[i]
  <2> TAKE i \in 1..2
  <2>1. i \in 1..18 /\ 0 + i = i
    OBVIOUS
  <2> QED
    BY <1>8, <1>10, <2>1
<1>12. \A i \in 1..8 : R[2 + i] = b[i]
  <2> TAKE i \in 1..8
  <2>1. 2 + i \in 1..18
    OBVIOUS
  <2> QED
    BY <1>8, <1>10, <2>1
<1>13. \A i \in 1..8 : R[10 + i] = c[i]
  <2> TAKE i \in 1..8
  <2>1. 10 + i \in 1..18
    OBVIOUS
  <2> QED
    BY <1>8, <1>10, <2>1
<1>14. HasAt(R, 0, a, 2)
  BY <1>1, <1>10, <1>11 DEF HasAt
<1>a. 2 + 8 <= Len(R) /\ 10 + 8 <= Len(R)
  <2>1. Len(R) = 18 + n
    BY <1>10
  <2>2. 2 + 8 <= 18 + n /\ 10 + 8 <= 18 + n
    OBVIOUS
  <2>3. QED
    BY <2>1, <2>2, Zenon
<1>15. HasAt(R, 2, b, 8)
  BY <1>2, <1>12, <1>a, Zenon DEF HasAt
<1>16. HasAt(R, 10, c, 8)
  BY <1>3, <1>13, <1>a, Zenon DEF HasAt
<1>17. HasAt(R, 18, f, n)
  BY <1>5, <1>10 DEF HasAt
<1> QED
  BY <1>10, <1>14, <1>15, <1>16, <1>17 DEF a, b, c, f, IsRecordOf

\* unpackPos finds the position that packPos wrote at the start of any data,
\* whatever follows it: the record's own length ends the name, so that what is
\* left in the file of a longer record, or the zeros of the reader's buffer, do
\* not become part of it.
THEOREM RecordReadBack ==
    ASSUME NEW p \in Fitting, NEW data \in Seq(Byte), Fronts(data, packPos(p)),
           Len(data) >= Len(packPos(p))
    PROVE  unpackPos(data) = p
<1>1. /\ p.file \in Seq(Byte) /\ p.pos \in Nat /\ p.index \in Nat
      /\ 16 + Len(p.file) < Weight[2] /\ p.pos < Weight[8] /\ p.index < Weight[8]
  BY DEF Fitting
<1>2. PICK n \in Nat : n = Len(p.file)
  BY <1>1
<1>3. PICK R : R = packPos(p)
  OBVIOUS
<1>4. IsRecordOf(R, p.file, n, p.pos, p.index)
  BY <1>1, <1>2, <1>3, RecordShape
<1>5. /\ R \in Seq(Byte) /\ Len(R) = 18 + n
      /\ HasAt(R, 0, Digits(16 + n, 2), 2) /\ HasAt(R, 2, Digits(p.pos, 8), 8)
      /\ HasAt(R, 10, Digits(p.index, 8), 8) /\ HasAt(R, 18, p.file, n)
  BY <1>4 DEF IsRecordOf
<1>6. PICK l \in Nat : l = Len(data)
  OBVIOUS
<1>7. Fronts(data, R) /\ 18 + n <= l
  BY <1>3, <1>5, <1>6
<1>8. 16 + n \in Nat /\ 0 \in Nat /\ 2 \in Nat /\ 10 \in Nat /\ 18 \in Nat
      /\ 2 \in 0..8 /\ 8 \in 0..8
  OBVIOUS
<1>9. Number(SubSeq(data, 1, 2)) = 16 + n
  <2>1. 0 + 2 <= Len(data) /\ 1 = 0 + 1 /\ 2 = 0 + 2 /\ 16 + n < Weight[2]
    BY <1>1, <1>2, <1>6, <1>7
  <2>2. QED
    BY <1>5, <1>7, <1>8, <2>1, NumberField
<1>10. Number(SubSeq(data, 3, 10)) = p.pos
  <2>1. 2 + 8 <= Len(data) /\ 3 = 2 + 1 /\ 10 = 2 + 8
    BY <1>6, <1>7
  <2>2. QED
    BY <1>1, <1>5, <1>7, <1>8, <2>1, NumberField
<1>11. Number(SubSeq(data, 11, 18)) = p.index
  <2>1. 10 + 8 <= Len(data) /\ 11 = 10 + 1 /\ 18 = 10 + 8
    BY <1>6, <1>7
  <2>2. QED
    BY <1>1, <1>5, <1>7, <1>8, <2>1, NumberField
<1>12. SubSeq(data, 19, (16 + n) + 2) = p.file
  <2>1. 18 + n <= Len(data) /\ 19 = 18 + 1 /\ (16 + n) + 2 = 18 + n
    BY <1>6, <1>7
  <2>2. Slice(data, 19, (16 + n) + 2, p.file)
    BY <1>1, <1>5, <1>7, <1>8, <2>1, Field
  <2>3. QED
    BY <2>2 DEF Slice
<1>13. ~((16 + n) + 2 < 18 \/ 16 + n > Len(data) - 2)
  BY <1>6, <1>7
<1>14. unpackPos(data) = [file |-> p.file, pos |-> p.pos, index |-> p.index]
  BY <1>9, <1>10, <1>11, <1>12, <1>13 DEF unpackPos
<1>15. p = [file |-> p.file, pos |-> p.pos, index |-> p.index]
  BY DEF Fitting
<1>16. QED
  BY <1>14, <1>15

\* Data with the same front have the same slices of it.
LEMMA SameSlice ==
    ASSUME NEW D \in Seq(Byte), NEW r \in Seq(Byte), NEW n \in Nat, n = Len(r), n <= Len(D),
           \A i \in 1..n : D[i] = r[i], NEW x \in Nat, x >= 1, NEW y \in Nat, y <= n
    PROVE  SubSeq(D, x, y) = SubSeq(r, x, y)
<1>1. PICK u, v : u = SubSeq(D, x, y) /\ v = SubSeq(r, x, y)
  OBVIOUS
<1>2. y <= Len(D) /\ y <= Len(r) /\ Len(D) \in Nat
  OBVIOUS
<1>3. /\ u \in Seq(Byte) /\ Len(u) = IF x <= y THEN y - x + 1 ELSE 0
      /\ \A i \in 1..(y - x + 1) : u[i] = D[x + i - 1]
  BY <1>1, <1>2, SliceType
<1>4. /\ v \in Seq(Byte) /\ Len(v) = IF x <= y THEN y - x + 1 ELSE 0
      /\ \A i \in 1..(y - x + 1) : v[i] = r[x + i - 1]
  BY <1>1, <1>2, SliceType
<1>5. ASSUME NEW i \in 1..Len(u)
      PROVE  u[i] = v[i]
  <2>1. i \in 1..(y - x + 1) /\ x + i - 1 \in 1..n
    BY <1>3
  <2>2. QED
    BY <1>3, <1>4, <2>1
<1>6. u = v
  BY <1>3, <1>4, <1>5, SeqEqual
<1>7. QED
  BY <1>1, <1>6

\* A record that is followed by anything is read as the record.
LEMMA RestIgnored ==
    ASSUME NEW D \in Seq(Byte), NEW r \in Seq(Byte), IsRecord(r), NEW n \in Nat, n = Len(r),
           n <= Len(D), \A i \in 1..n : D[i] = r[i]
    PROVE  unpackPos(D) = unpackPos(r)
<1>1. n >= 18 /\ Number(SubSeq(r, 1, 2)) = n - 2
  BY WireAssumption DEF IsRecord
<1>2. /\ SubSeq(D, 1, 2) = SubSeq(r, 1, 2)
      /\ SubSeq(D, 3, 10) = SubSeq(r, 3, 10)
      /\ SubSeq(D, 11, 18) = SubSeq(r, 11, 18)
      /\ SubSeq(D, 19, n) = SubSeq(r, 19, n)
  <2>1. ASSUME NEW x \in Nat, x >= 1, NEW y \in Nat, y <= n
        PROVE  Slice(D, x, y, SubSeq(r, x, y))
    BY <2>1, SameSlice DEF Slice
  <2>2. /\ 1 \in Nat /\ 3 \in Nat /\ 11 \in Nat /\ 19 \in Nat
        /\ 1 >= 1 /\ 3 >= 1 /\ 11 >= 1 /\ 19 >= 1
        /\ 2 \in Nat /\ 10 \in Nat /\ 18 \in Nat /\ 2 <= n /\ 10 <= n /\ 18 <= n /\ n <= n
    BY <1>1
  <2>3. Slice(D, 1, 2, SubSeq(r, 1, 2)) /\ Slice(D, 3, 10, SubSeq(r, 3, 10))
    BY <2>1, <2>2, Zenon
  <2>4. Slice(D, 11, 18, SubSeq(r, 11, 18)) /\ Slice(D, 19, n, SubSeq(r, 19, n))
    BY <2>1, <2>2, Zenon
  <2>5. QED
    BY <2>3, <2>4 DEF Slice
<1>3. (n - 2) + 2 = n /\ ~(n < 18) /\ ~(n - 2 > Len(D) - 2) /\ ~(n - 2 > Len(r) - 2)
  BY <1>1
<1>4. unpackPos(r) = [file |-> SubSeq(r, 19, n), pos |-> Number(SubSeq(r, 3, 10)),
                      index |-> Number(SubSeq(r, 11, 18))]
  BY <1>1, <1>3 DEF unpackPos
<1>5. unpackPos(D) = [file |-> SubSeq(D, 19, n), pos |-> Number(SubSeq(D, 3, 10)),
                      index |-> Number(SubSeq(D, 11, 18))]
  BY <1>1, <1>2, <1>3 DEF unpackPos
<1>6. QED
  BY <1>2, <1>4, <1>5

\* What is read from the file after a restart.
LEMMA KeptRead ==
    ASSUME TInv, sent.proto = "agent", out \in Seq(MessagesOf("agent")), Kept
    PROVE  getBinlogPositionCache = IF PositionsOut = {} THEN NoPos
                                    ELSE unpackPos(out[Max(PositionsOut)].data)
<1>1. CASE PositionsOut = {}
  BY <1>1 DEF Kept, getBinlogPositionCache
<1>2. CASE PositionsOut # {}
  <2>1. PICK n \in Nat : n = Len(out) /\ DOMAIN out = 1..n
    OBVIOUS
  <2>2. PositionsOut \subseteq 0..n
    BY <2>1 DEF PositionsOut
  <2>3. PICK k : k = Max(PositionsOut)
    OBVIOUS
  <2>4. k \in PositionsOut
    BY <1>2, <2>1, <2>2, <2>3, MaxIs
  <2>5. k \in DOMAIN out /\ out[k].cmd = CMD_POS
    BY <2>4 DEF PositionsOut
  <2>6. out[k] \in MessagesOf("agent")
    BY <2>1, <2>5
  <2>7. PICK r : r = out[k].data
    OBVIOUS
  <2>8. r \in Seq(Byte) /\ IsRecord(r)
    BY <2>5, <2>6, <2>7, MessageIs
  <2>9. PICK l \in Nat : l = Len(r) /\ l >= 18 /\ l <= MinRead
    BY <2>8, WireAssumption DEF IsRecord
  <2>10. IsWritten(file, file, r, l)
    BY <1>2, <2>3, <2>7, <2>9 DEF Kept
  <2>11. file \in Seq(Byte) /\ Len(file) >= l /\ (\A i \in 1..l : file[i] = r[i]) /\ MinRead \in Nat
    BY <2>10, WireAssumption DEF IsWritten
  <2>12. PICK D : D = [i \in 1..MinRead |-> IF i <= Len(file) THEN file[i] ELSE 0]
    OBVIOUS
  <2>13. D \in Seq(Byte) /\ Len(D) = MinRead
    <3>1. D \in [1..MinRead -> Byte]
      <4>1. ASSUME NEW i \in 1..MinRead, i <= Len(file)
            PROVE  file[i] \in Byte
        BY <2>11, <4>1
      <4>2. QED
        BY <2>12, <4>1, ByteDef
    <3>2. QED
      BY <2>11, <3>1, Fcn
  <2>14. l <= Len(D) /\ \A i \in 1..l : D[i] = r[i]
    <3>1. l <= Len(D)
      BY <2>9, <2>11, <2>13
    <3>2. ASSUME NEW i \in 1..l
          PROVE  D[i] = r[i]
      <4>1. i \in 1..MinRead /\ i <= Len(file)
        BY <2>9, <2>11
      <4>2. QED
        BY <2>11, <2>12, <4>1
    <3>3. QED
      BY <3>1, <3>2
  <2>15. unpackPos(D) = unpackPos(r)
    BY <2>8, <2>9, <2>13, <2>14, RestIgnored
  <2>16. file # <<>>
    BY <2>9, <2>11
  <2>17. getBinlogPositionCache = unpackPos(D)
    BY <2>12, <2>16 DEF getBinlogPositionCache
  <2>18. QED
    BY <1>2, <2>3, <2>7, <2>15, <2>17
<1>3. QED
  BY <1>1, <1>2

\* After a restart the cache holds the last position that was received, although
\* saveBinlogPositionCache never truncates it, as long as the agent's client is in step.
\* (Out of step it may take old bytes, or a header inside a message, for a
\* package, and what it then saves as a position need not be a record.)
THEOREM PositionSurvives == Spec => []PositionKept
<1>1. TInv /\ FrameInv => PositionKept
  <2>1. SUFFICES ASSUME TInv, FrameInv, ~split, Short, ~torn, sent.proto = "agent"
                 PROVE  getBinlogPositionCache = IF PositionsOut = {} THEN NoPos
                                                 ELSE unpackPos(out[Max(PositionsOut)].data)
    BY Zenon DEF PositionKept
  <2>2. PICK q : Aligned(q)
    BY <2>1, Zenon DEF FrameInv, Clean
  <2>3. out \in Seq(MessagesOf("agent")) /\ Kept
    BY <2>1, <2>2 DEF Aligned
  <2>4. QED
    BY <2>1, <2>3, KeptRead
<1>2. QED
  BY <1>1, AlwaysFramed, PTL


\* What packPos writes is a record, so that positions are sent as the assumption
\* on what is sent has it, if the name of the binlog file fits the reader.
THEOREM RecordsSent ==
    ASSUME NEW p \in Fitting, Len(packPos(p)) <= MinRead
    PROVE  IsRecord(packPos(p))
<1>1. /\ p.file \in Seq(Byte) /\ p.pos \in Nat /\ p.index \in Nat
      /\ 16 + Len(p.file) < Weight[2]
  BY DEF Fitting
<1>2. PICK n \in Nat : n = Len(p.file)
  BY <1>1
<1>3. PICK R : R = packPos(p)
  OBVIOUS
<1>4. IsRecordOf(R, p.file, n, p.pos, p.index)
  BY <1>1, <1>2, <1>3, RecordShape
<1>5. R \in Seq(Byte) /\ Len(R) = 18 + n /\ HasAt(R, 0, Digits(16 + n, 2), 2)
  BY <1>4 DEF IsRecordOf
<1>6. Fronts(R, R)
  BY DEF Fronts
<1>7. /\ 16 + n \in Nat /\ 2 \in 0..8 /\ 0 \in Nat /\ 16 + n < Weight[2]
      /\ 0 + 2 <= Len(R) /\ 1 = 0 + 1 /\ 2 = 0 + 2
  BY <1>1, <1>2, <1>5
<1>8. Number(SubSeq(R, 1, 2)) = 16 + n
  BY <1>5, <1>6, <1>7, NumberField
<1>9. Len(R) \in 18..MinRead /\ 16 + n = Len(R) - 2
  BY <1>3, <1>5, WireAssumption
<1>10. QED
  BY <1>3, <1>8, <1>9 DEF IsRecord
=============================================================================
