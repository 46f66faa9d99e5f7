----------------------------- MODULE SliceFacts -----------------------------
(***************************************************************************)
(* Facts about queues and Go slices that the proofs about the subscription *)
(* services and about the agent's server share.  A slice is a header h (an *)
(* array's index h.arr and a length h.len) over the arrays A there are.    *)
(* The first lemma, that a set of numbers has a least one, is also what    *)
(* stands in for induction in the proofs about the binlog service.         *)
(***************************************************************************)
EXTENDS Integers, Sequences, SequenceTheorems, WellFoundedInduction,
        NaturalsInduction, TLAPS

LEMMA MinExists ==
    ASSUME NEW T \in SUBSET Nat, T # {}
    PROVE  \E x \in T : \A y \in T : x <= y
<1>1. PICK x \in T : \A y \in T : ~ (<<y, x>> \in OpToRel(<, Nat))
  BY NatLessThanWellFounded, WFMin
<1>2. \A y \in T : ~(y < x)
  BY <1>1 DEF OpToRel
<1> QED
  BY <1>2

LEMMA SeqSet ==
    ASSUME NEW S, NEW A \in Seq(S), NEW a \in 1..Len(A), NEW x \in S
    PROVE  LET B == [A EXCEPT ![a] = x]
           IN  /\ B \in Seq(S) /\ Len(B) = Len(A) /\ B[a] = x
               /\ \A b \in 1..Len(A) : b # a => B[b] = A[b]
BY ExceptSeq

-----------------------------------------------------------------------------
(* Queues: one sequence after another. *)

LEMMA CatDef ==
    ASSUME NEW S, NEW w \in Seq(S), NEW q \in Seq(S)
    PROVE  /\ w \o q \in Seq(S) /\ Len(w \o q) = Len(w) + Len(q)
           /\ Len(w) \in Nat /\ Len(q) \in Nat /\ DOMAIN (w \o q) = 1..(Len(w) + Len(q))
           /\ \A i \in 1..Len(w) : (w \o q)[i] = w[i]
           /\ \A i \in 1..Len(q) : (w \o q)[Len(w) + i] = q[i]
<1>1. /\ w \o q \in Seq(S) /\ Len(w \o q) = Len(w) + Len(q)
      /\ Len(w) \in Nat /\ Len(q) \in Nat
  BY ConcatProperties, LenProperties
<1>2. \A i \in 1..(Len(w) + Len(q)) :
        (w \o q)[i] = IF i <= Len(w) THEN w[i] ELSE q[i - Len(w)]
  BY ConcatProperties
<1>3. \A i \in 1..Len(w) : (w \o q)[i] = w[i]
  BY <1>1, <1>2
<1>4. \A i \in 1..Len(q) : (w \o q)[Len(w) + i] = q[i]
  BY <1>1, <1>2
<1>5. DOMAIN (w \o q) = 1..(Len(w) + Len(q))
  BY <1>1
<1> QED
  BY <1>1, <1>3, <1>4, <1>5

\* A message is added.
Added(a, b, m) ==
    /\ Len(b) = Len(a) + 1 /\ b[Len(a) + 1] = m
    /\ \A i \in 1..Len(a) : b[i] = a[i]

\* The k-th message is dropped.
Dropped(a, b, k) ==
    /\ k \in 1..Len(a) /\ Len(b) = Len(a) - 1
    /\ \A i \in 1..Len(b) : b[i] = a[IF i < k THEN i ELSE i + 1]

LEMMA CatAdd ==
    ASSUME NEW S, NEW w \in Seq(S), NEW q \in Seq(S), NEW m \in S
    PROVE  Added(w \o q, w \o Append(q, m), m)
<1> DEFINE p == Append(q, m)
<1>1. p \in Seq(S) /\ Len(p) = Len(q) + 1 /\ p[Len(q) + 1] = m
      /\ \A i \in 1..Len(q) : p[i] = q[i]
  BY AppendProperties
<1> HIDE DEF p
<1> DEFINE a == w \o q
           b == w \o p
           W == Len(w)
           Q == Len(q)
<1>2. /\ Len(a) = W + Q /\ Len(b) = W + (Q + 1) /\ W \in Nat /\ Q \in Nat
      /\ \A i \in 1..W : a[i] = w[i] /\ b[i] = w[i]
      /\ \A i \in 1..Q : a[W + i] = q[i]
      /\ \A i \in 1..(Q + 1) : b[W + i] = p[i]
  <2>1. /\ Len(a) = W + Q /\ W \in Nat /\ Q \in Nat
        /\ \A i \in 1..W : a[i] = w[i]
        /\ \A i \in 1..Q : a[W + i] = q[i]
    BY CatDef
  <2>2. /\ Len(b) = W + Len(p)
        /\ \A i \in 1..W : b[i] = w[i]
        /\ \A i \in 1..Len(p) : b[W + i] = p[i]
    <3>1. p \in Seq(S)
      BY <1>1
    <3> QED
      BY <3>1, CatDef
  <2> HIDE DEF a, b, W, Q
  <2> QED
    BY <1>1, <2>1, <2>2 DEF Q
<1> HIDE DEF a, b, W
<1>3. b[W + (Q + 1)] = m
  BY <1>1, <1>2
<1>4. ASSUME NEW i \in 1..(W + Q) PROVE b[i] = a[i]
  <2>1. CASE i <= W
    BY <1>2, <2>1
  <2>2. CASE i > W
    <3> DEFINE j == i - W
    <3>1. j \in 1..Q /\ j \in 1..(Q + 1) /\ W + j = i
      BY <1>2, <2>2
    <3> HIDE DEF j
    <3>2. b[i] = p[j] /\ a[i] = q[j] /\ p[j] = q[j]
      BY <1>1, <1>2, <3>1
    <3> QED
      BY <3>2
  <2> QED
    BY <1>2, <2>1, <2>2
<1>5. Len(b) = Len(a) + 1 /\ b[Len(a) + 1] = m
  BY <1>2, <1>3
<1>6. \A i \in 1..Len(a) : b[i] = a[i]
  BY <1>2, <1>4
<1> QED
  BY <1>5, <1>6 DEF Added, a, b, p

LEMMA CatDrop ==
    ASSUME NEW S, NEW w \in Seq(S), NEW q \in Seq(S), q # <<>>
    PROVE  /\ Dropped(w \o q, w \o Tail(q), Len(w) + 1)
           /\ (w \o q)[Len(w) + 1] = Head(q)
<1> DEFINE p == Tail(q)
           Q == Len(q)
<1>1. /\ p \in Seq(S) /\ Len(p) = Q - 1 /\ Head(q) = q[1]
      /\ Q \in Nat /\ Q > 0
      /\ \A i \in 1..Len(p) : p[i] = q[i + 1]
  BY HeadTailProperties, LenProperties, EmptySeq
<1> HIDE DEF p, Q
<1> DEFINE a == w \o q
           b == w \o p
           W == Len(w)
<1>2. /\ Len(a) = W + Q /\ Len(b) = W + Len(p) /\ W \in Nat
      /\ \A i \in 1..W : a[i] = w[i] /\ b[i] = w[i]
      /\ \A i \in 1..Q : a[W + i] = q[i]
      /\ \A i \in 1..Len(p) : b[W + i] = p[i]
  <2>1. /\ Len(a) = W + Q /\ W \in Nat
        /\ \A i \in 1..W : a[i] = w[i]
        /\ \A i \in 1..Q : a[W + i] = q[i]
    BY CatDef DEF Q
  <2>2. /\ Len(b) = W + Len(p)
        /\ \A i \in 1..W : b[i] = w[i]
        /\ \A i \in 1..Len(p) : b[W + i] = p[i]
    <3>1. p \in Seq(S)
      BY <1>1
    <3> QED
      BY <3>1, CatDef
  <2> HIDE DEF a, b, W
  <2> QED
    BY <2>1, <2>2
<1> HIDE DEF a, b, W
<1>3. a[W + 1] = Head(q)
  <2>1. 1 \in 1..Q
    BY <1>1
  <2>2. a[W + 1] = q[1]
    BY <1>2, <2>1
  <2> QED
    BY <1>1, <2>2
<1>4. ASSUME NEW i \in 1..(W + (Q - 1))
      PROVE  b[i] = a[IF i < W + 1 THEN i ELSE i + 1]
  <2>1. CASE i < W + 1
    <3>1. i \in 1..W
      BY <1>1, <1>2, <2>1
    <3> QED
      BY <1>2, <2>1, <3>1
  <2>2. CASE ~(i < W + 1)
    <3> DEFINE j == i - W
    <3>0. Q \in Nat /\ Q > 0 /\ W \in Nat
      BY <1>1, <1>2
    <3>1. j \in 1..(Q - 1) /\ j + 1 \in 1..Q /\ W + j = i /\ W + (j + 1) = i + 1
      BY <2>2, <3>0
    <3> HIDE DEF j
    <3>2. b[i] = p[j] /\ p[j] = q[j + 1] /\ a[i + 1] = q[j + 1]
      BY <1>1, <1>2, <3>1
    <3> QED
      BY <2>2, <3>2
  <2> QED
    BY <2>1, <2>2
<1>5. W + 1 \in 1..Len(a) /\ Len(b) = Len(a) - 1 /\ Len(b) = W + (Q - 1)
  BY <1>1, <1>2
<1>6. Dropped(a, b, W + 1)
  BY <1>4, <1>5 DEF Dropped
<1> QED
  BY <1>3, <1>6 DEF a, b, p, W

LEMMA CatShift ==
    ASSUME NEW S, NEW w \in Seq(S), NEW q \in Seq(S), q # <<>>
    PROVE  Append(w, Head(q)) \o Tail(q) = w \o q
<1> DEFINE p == Tail(q)
           v == Append(w, Head(q))
           Q == Len(q)
           W == Len(w)
           a == w \o q
           b == v \o p
<1>1. /\ p \in Seq(S) /\ Len(p) = Q - 1 /\ Head(q) = q[1] /\ Head(q) \in S
      /\ Q \in Nat /\ Q > 0
      /\ \A i \in 1..Len(p) : p[i] = q[i + 1]
  BY HeadTailProperties, LenProperties, EmptySeq
<1>2. v \in Seq(S) /\ Len(v) = W + 1 /\ v[W + 1] = q[1] /\ \A i \in 1..W : v[i] = w[i]
  BY <1>1, AppendProperties
<1>3. /\ a \in Seq(S) /\ Len(a) = W + Q /\ W \in Nat
      /\ \A i \in 1..W : a[i] = w[i]
      /\ \A i \in 1..Q : a[W + i] = q[i]
  BY CatDef
<1> HIDE DEF a, p, v
<1>4. /\ b \in Seq(S) /\ Len(b) = Len(v) + Len(p)
      /\ \A i \in 1..Len(v) : b[i] = v[i]
      /\ \A i \in 1..Len(p) : b[Len(v) + i] = p[i]
  <2>1. v \in Seq(S) /\ p \in Seq(S)
    BY <1>1, <1>2
  <2> QED
    BY <2>1, CatDef
<1> HIDE DEF b, Q, W
<1>5. Len(b) = W + Q
  BY <1>1, <1>2, <1>3, <1>4
<1>6. ASSUME NEW i \in 1..(W + Q) PROVE b[i] = a[i]
  <2>1. CASE i <= W
    BY <1>2, <1>3, <1>4, <2>1
  <2>2. CASE i = W + 1
    BY <1>1, <1>2, <1>3, <1>4, <2>2
  <2>3. CASE i > W + 1
    <3> DEFINE j == i - (W + 1)
    <3>0. Q \in Nat /\ Q > 0 /\ W \in Nat
      BY <1>1, <1>3
    <3>1. j \in 1..(Q - 1) /\ j + 1 \in 1..Q /\ (W + 1) + j = i /\ W + (j + 1) = i
      BY <2>3, <3>0
    <3> HIDE DEF j
    <3>2. b[i] = p[j] /\ p[j] = q[j + 1]
      BY <1>1, <1>2, <1>4, <3>1
    <3>3. a[i] = q[j + 1]
      BY <1>3, <3>1
    <3> QED
      BY <3>2, <3>3
  <2> QED
    BY <1>3, <2>1, <2>2, <2>3
<1>7. b = a
  BY <1>3, <1>4, <1>5, <1>6, SeqEqual
<1> QED
  BY <1>7 DEF a, b, p, v

-----------------------------------------------------------------------------
(* Slices. *)

\* The elements that header h shows in the arrays A, and that none is shown twice.
View(A, h) == {A[h.arr][i] : i \in 1..h.len}
Distinct(A, h) == \A i, j \in 1..h.len : A[h.arr][i] = A[h.arr][j] => i = j

\* The header lies within the array it is of.
Within(A, h) == h.arr \in 1..Len(A) /\ h.len <= Len(A[h.arr])

\* Header h is of the slice k, or of one before it.
Earlier(h, k) == h.arr <= k.arr /\ (h.arr = k.arr => h.len <= k.len)

\* Arrays keep what header h shows.
Keeps(A, B, h) == \A i \in 1..h.len : B[h.arr][i] = A[h.arr][i]

LEMMA KeptView ==
    ASSUME NEW A, NEW B, NEW h, Keeps(A, B, h)
    PROVE  View(B, h) = View(A, h) /\ (Distinct(A, h) => Distinct(B, h))
<1>1. View(B, h) = View(A, h)
  BY DEF Keeps, View
<1>2. Distinct(A, h) => Distinct(B, h)
  BY DEF Keeps, Distinct
<1> QED
  BY <1>1, <1>2

\* append: in place while the array has room, otherwise in a new one of twice the
\* size, filled up with nil.
HasRoom(A, h) == h.len < Len(A[h.arr])
Appended(A, h, n, nil) ==
    IF HasRoom(A, h) THEN [A EXCEPT ![h.arr][h.len + 1] = n]
    ELSE LET cap == IF h.len = 0 THEN 1 ELSE 2 * h.len
             new == [i \in 1..cap |-> IF i <= h.len THEN A[h.arr][i]
                                      ELSE IF i = h.len + 1 THEN n ELSE nil]
         IN  Append(A, new)
AppendedArr(A, h) == IF HasRoom(A, h) THEN h.arr ELSE Len(A) + 1

\* The arrays B and the array c come from A by appending n to the slice h.
Grown(S, A, B, h, c, n, nil) ==
    /\ B \in Seq(Seq(S)) /\ c \in 1..Len(B) /\ h.len + 1 <= Len(B[c])
    /\ B[c][h.len + 1] = n
    /\ \A i \in 1..h.len : B[c][i] = A[h.arr][i]
    /\ Len(A) <= Len(B)
    /\ \A a \in 1..Len(A) :
         /\ Len(B[a]) = Len(A[a])
         /\ \A i \in 1..Len(A[a]) :
             B[a][i] = A[a][i] \/ (a = h.arr /\ i = h.len + 1 /\ B[a][i] = n)
    /\ \A a \in 1..Len(B) : a \notin 1..Len(A) =>
         /\ a = c
         /\ \A i \in 1..Len(B[a]) : i <= h.len \/ B[a][i] \in {n, nil}
    /\ c = h.arr \/ c = Len(A) + 1

LEMMA AppendedEffect ==
    ASSUME NEW S, NEW A \in Seq(Seq(S)), NEW nil \in S, NEW n \in S,
           NEW h, h.arr \in Nat, h.len \in Nat, Within(A, h)
    PROVE  Grown(S, A, Appended(A, h, n, nil), h, AppendedArr(A, h), n, nil)
<1> DEFINE B == Appended(A, h, n, nil)
<1>1. /\ h.arr \in 1..Len(A) /\ A[h.arr] \in Seq(S) /\ h.len <= Len(A[h.arr])
      /\ Len(A[h.arr]) \in Nat /\ Len(A) \in Nat /\ h.len \in Nat /\ h.arr \in Nat
  <2>1. h.arr \in 1..Len(A) /\ h.len <= Len(A[h.arr])
    BY DEF Within
  <2>2. A[h.arr] \in Seq(S) /\ Len(A) \in Nat
    BY <2>1
  <2>3. Len(A[h.arr]) \in Nat
    BY <2>2
  <2> QED
    BY <2>1, <2>2, <2>3
<1>2. CASE HasRoom(A, h)
  <2> DEFINE x == [A[h.arr] EXCEPT ![h.len + 1] = n]
  <2>1. h.len + 1 \in 1..Len(A[h.arr])
    BY <1>1, <1>2 DEF HasRoom
  <2>2. /\ x \in Seq(S) /\ Len(x) = Len(A[h.arr]) /\ x[h.len + 1] = n
        /\ \A i \in 1..Len(A[h.arr]) : i # h.len + 1 => x[i] = A[h.arr][i]
    BY <1>1, <2>1, SeqSet
  <2>3. B = [A EXCEPT ![h.arr] = x]
    BY <1>2 DEF Appended
  <2>4. AppendedArr(A, h) = h.arr
    BY <1>2 DEF AppendedArr
  <2> HIDE DEF x, B
  <2>5. /\ B \in Seq(Seq(S)) /\ Len(B) = Len(A) /\ B[h.arr] = x
        /\ \A a \in 1..Len(A) : a # h.arr => B[a] = A[a]
    BY <1>1, <2>2, <2>3, SeqSet
  <2>6. \A i \in 1..h.len : i \in 1..Len(A[h.arr]) /\ i # h.len + 1
    BY <1>1
  <2>7. \A i \in 1..h.len : B[h.arr][i] = A[h.arr][i]
    BY <2>2, <2>5, <2>6
  <2>8. \A a \in 1..Len(A) :
            /\ Len(B[a]) = Len(A[a])
            /\ \A i \in 1..Len(A[a]) :
                B[a][i] = A[a][i] \/ (a = h.arr /\ i = h.len + 1 /\ B[a][i] = n)
    BY <2>2, <2>5
  <2>9. h.len + 1 <= Len(B[h.arr])
    BY <1>1, <2>1, <2>2, <2>5
  <2> QED
    BY <1>1, <2>2, <2>4, <2>5, <2>7, <2>8, <2>9 DEF B, Grown
<1>3. CASE ~HasRoom(A, h)
  <2> DEFINE cap == IF h.len = 0 THEN 1 ELSE 2 * h.len
             x == [i \in 1..cap |-> IF i <= h.len THEN A[h.arr][i]
                                    ELSE IF i = h.len + 1 THEN n ELSE nil]
  <2>1. cap \in Nat /\ h.len + 1 \in 1..cap /\ h.len = Len(A[h.arr])
    BY <1>1, <1>3 DEF HasRoom
  <2>2. B = Append(A, x) /\ AppendedArr(A, h) = Len(A) + 1
    BY <1>3 DEF Appended, AppendedArr
  <2> HIDE DEF cap
  <2>3. \A i \in 1..cap : (IF i <= h.len THEN A[h.arr][i]
                           ELSE IF i = h.len + 1 THEN n ELSE nil) \in S
    BY <1>1, <2>1
  <2>4. x \in Seq(S) /\ Len(x) = cap
    BY <2>1, <2>3
  <2>5. x[h.len + 1] = n /\ \A i \in 1..h.len : x[i] = A[h.arr][i]
    BY <1>1, <2>1
  <2>6. \A i \in 1..cap : i <= h.len \/ x[i] \in {n, nil}
    BY <1>1, <2>1
  <2> HIDE DEF x, B
  <2>7. /\ B \in Seq(Seq(S)) /\ Len(B) = Len(A) + 1 /\ B[Len(A) + 1] = x
        /\ \A a \in 1..Len(A) : B[a] = A[a]
    BY <1>1, <2>2, <2>4, AppendProperties
  <2>8. \A a \in 1..Len(B) : a \notin 1..Len(A) => a = Len(A) + 1
    BY <1>1, <2>7
  <2>9. h.len + 1 <= Len(B[Len(A) + 1])
    BY <1>1, <2>1, <2>4, <2>7
  <2>10. Len(A) <= Len(B) /\ Len(A) + 1 \in 1..Len(B)
    BY <1>1, <2>7
  <2> QED
    BY <1>1, <2>2, <2>4, <2>5, <2>6, <2>7, <2>8, <2>9, <2>10 DEF B, Grown
<1> QED
  BY <1>2, <1>3

\* The elements after the k-th move one place towards the beginning.
Removed(A, h, k) ==
    [A EXCEPT ![h.arr] = [i \in DOMAIN @ |->
        IF k <= i /\ i < h.len THEN @[i + 1] ELSE @[i]]]

\* The arrays B come from A by removing the k-th element of the slice h.
Shrunk(S, A, B, h, k) ==
    /\ B \in Seq(Seq(S)) /\ Len(B) = Len(A)
    /\ \A a \in 1..Len(A) :
         Len(B[a]) = Len(A[a]) /\ (a # h.arr => B[a] = A[a])
    /\ \A i \in 1..Len(A[h.arr]) :
         B[h.arr][i] = IF k <= i /\ i < h.len THEN A[h.arr][i + 1] ELSE A[h.arr][i]
    /\ \A i \in 1..Len(A[h.arr]) :
         k <= i /\ i < h.len => i + 1 \in 1..Len(A[h.arr]) /\ i + 1 \in 1..h.len

LEMMA RemovedEffect ==
    ASSUME NEW S, NEW A \in Seq(Seq(S)), NEW h, h.arr \in Nat, h.len \in Nat, Within(A, h),
           NEW k \in 1..h.len
    PROVE  Shrunk(S, A, Removed(A, h, k), h, k)
<1> DEFINE B == Removed(A, h, k)
           y == A[h.arr]
           x == [i \in DOMAIN y |-> IF k <= i /\ i < h.len THEN y[i + 1] ELSE y[i]]
<1>1. h.arr \in 1..Len(A) /\ h.len <= Len(y) /\ h.len \in Nat
  BY DEF Within
<1>2. y \in Seq(S)
  BY <1>1
<1>3. B = [A EXCEPT ![h.arr] = x]
  BY DEF Removed
<1> HIDE DEF B, y
<1>4. DOMAIN y = 1..Len(y) /\ Len(y) \in Nat
  BY <1>2
<1>5. \A i \in 1..Len(y) : k <= i /\ i < h.len => i + 1 \in 1..Len(y) /\ i + 1 \in 1..h.len
  BY <1>1, <1>4
<1>6. \A i \in 1..Len(y) : (IF k <= i /\ i < h.len THEN y[i + 1] ELSE y[i]) \in S
  BY <1>2, <1>4, <1>5
<1>7. x \in Seq(S) /\ Len(x) = Len(y)
  BY <1>4, <1>6
<1>8. \A i \in 1..Len(y) : x[i] = IF k <= i /\ i < h.len THEN y[i + 1] ELSE y[i]
  BY <1>4
<1> HIDE DEF x
<1>9. /\ B \in Seq(Seq(S)) /\ Len(B) = Len(A) /\ B[h.arr] = x
      /\ \A b \in 1..Len(A) : b # h.arr => B[b] = A[b]
  BY <1>1, <1>3, <1>7, SeqSet
<1>10. \A a \in 1..Len(A) : Len(B[a]) = Len(A[a]) /\ (a # h.arr => B[a] = A[a])
  BY <1>7, <1>9 DEF y
<1> QED
  BY <1>5, <1>8, <1>9, <1>10 DEF B, y, Shrunk

-----------------------------------------------------------------------------
(* How often a message is in a queue. *)

Never(s, b) == \A i \in 1..Len(s) : s[i] # b
Once(s, b) == \E i \in 1..Len(s) : s[i] = b /\ \A j \in 1..Len(s) : s[j] = b => j = i

LEMMA SmallCounts ==
    ASSUME NEW S, NEW m \in S, NEW b
    PROVE  /\ Never(<<>>, b) /\ ~Once(<<>>, b)
           /\ Never(<<m>>, b) <=> m # b
           /\ Once(<<m>>, b) <=> m = b
<1>1. Len(<<>>) = 0 /\ Len(<<m>>) = 1 /\ <<m>>[1] = m /\ 1..0 = {} /\ 1..1 = {1}
  OBVIOUS
<1>2. Never(<<>>, b) /\ ~Once(<<>>, b)
  BY <1>1 DEF Never, Once
<1>3. Never(<<m>>, b) <=> m # b
  BY <1>1 DEF Never
<1>4. Once(<<m>>, b) <=> m = b
  BY <1>1 DEF Once
<1> QED
  BY <1>2, <1>3, <1>4

LEMMA CatCounts ==
    ASSUME NEW S, NEW w \in Seq(S), NEW q \in Seq(S), NEW b
    PROVE  /\ Never(w \o q, b) <=> Never(w, b) /\ Never(q, b)
           /\ Once(w \o q, b) <=> \/ Once(w, b) /\ Never(q, b)
                                  \/ Never(w, b) /\ Once(q, b)
<1> DEFINE a == w \o q
           W == Len(w)
           Q == Len(q)
<1>1. /\ Len(a) = W + Q /\ W \in Nat /\ Q \in Nat
      /\ \A i \in 1..W : a[i] = w[i]
      /\ \A i \in 1..Q : a[W + i] = q[i]
  BY CatDef
<1> HIDE DEF a, W, Q
<1>2. /\ \A i \in 1..W : i \in 1..(W + Q)
      /\ \A i \in 1..Q : W + i \in 1..(W + Q) /\ W + i \notin 1..W
      /\ \A i \in 1..(W + Q) : i \in 1..W \/ \E j \in 1..Q : i = W + j
      /\ \A i, j \in 1..Q : W + i = W + j => i = j
  <2>1. \A i \in 1..W : i \in 1..(W + Q)
    BY <1>1
  <2>2. \A i \in 1..Q : W + i \in 1..(W + Q) /\ W + i \notin 1..W
    BY <1>1
  <2>3. ASSUME NEW i \in 1..(W + Q), i \notin 1..W PROVE \E j \in 1..Q : i = W + j
    <3>1. i - W \in 1..Q /\ i = W + (i - W)
      BY <1>1, <2>3
    <3> QED
      BY <3>1
  <2>4. \A i, j \in 1..Q : W + i = W + j => i = j
    BY <1>1
  <2> QED
    BY <2>1, <2>2, <2>3, <2>4
<1>3. Never(a, b) <=> Never(w, b) /\ Never(q, b)
  <2>1. ASSUME Never(a, b) PROVE Never(w, b) /\ Never(q, b)
    BY <1>1, <1>2, <2>1 DEF Never, W, Q
  <2>2. ASSUME Never(w, b), Never(q, b), NEW i \in 1..(W + Q) PROVE a[i] # b
    <3>1. (\A j \in 1..W : w[j] # b) /\ (\A j \in 1..Q : q[j] # b)
      BY <2>2 DEF Never, W, Q
    <3>2. CASE i \in 1..W
      BY <1>1, <3>1, <3>2
    <3>3. ASSUME NEW j \in 1..Q, i = W + j PROVE a[i] # b
      BY <1>1, <3>1, <3>3
    <3> QED
      BY <1>2, <3>2, <3>3
  <2> QED
    BY <1>1, <2>1, <2>2 DEF Never
<1>4. ASSUME Once(a, b)
      PROVE  (Once(w, b) /\ Never(q, b)) \/ (Never(w, b) /\ Once(q, b))
  <2>1. PICK i \in 1..(W + Q) : a[i] = b /\ \A j \in 1..(W + Q) : a[j] = b => j = i
    BY <1>1, <1>4 DEF Once
  <2>2. CASE i \in 1..W
    <3>1. Once(w, b)
      BY <1>1, <1>2, <2>1, <2>2 DEF Once, W
    <3>2. ASSUME NEW j \in 1..Q PROVE q[j] # b
      BY <1>1, <1>2, <2>1, <2>2
    <3>3. Never(q, b)
      BY <3>2 DEF Never, Q
    <3> QED
      BY <3>1, <3>3
  <2>3. CASE i \notin 1..W
    <3>1. PICK j \in 1..Q : i = W + j
      BY <1>2, <2>3
    <3>2. q[j] = b
      BY <1>1, <2>1, <3>1
    <3>3. \A k \in 1..Q : q[k] = b => k = j
      BY <1>1, <1>2, <2>1, <3>1
    <3>4. Once(q, b)
      BY <3>2, <3>3 DEF Once, Q
    <3>5. ASSUME NEW k \in 1..W PROVE w[k] # b
      BY <1>1, <1>2, <2>1, <2>3
    <3>6. Never(w, b)
      BY <3>5 DEF Never, W
    <3> QED
      BY <3>4, <3>6
  <2> QED
    BY <2>2, <2>3
<1>5. ASSUME Once(w, b), Never(q, b) PROVE Once(a, b)
  <2>1. PICK i \in 1..W : w[i] = b /\ \A j \in 1..W : w[j] = b => j = i
    BY <1>5 DEF Once, W
  <2>2. i \in 1..(W + Q) /\ a[i] = b
    BY <1>1, <1>2, <2>1
  <2>3. ASSUME NEW j \in 1..(W + Q), a[j] = b PROVE j = i
    <3>1. CASE j \in 1..W
      BY <1>1, <2>1, <2>3, <3>1
    <3>2. CASE j \notin 1..W
      BY <1>1, <1>2, <1>5, <2>3, <3>2 DEF Never, Q
    <3> QED
      BY <3>1, <3>2
  <2> QED
    BY <1>1, <2>2, <2>3 DEF Once
<1>6. ASSUME Never(w, b), Once(q, b) PROVE Once(a, b)
  <2>1. PICK i \in 1..Q : q[i] = b /\ \A j \in 1..Q : q[j] = b => j = i
    BY <1>6 DEF Once, Q
  <2>2. W + i \in 1..(W + Q) /\ a[W + i] = b
    BY <1>1, <1>2, <2>1
  <2>3. ASSUME NEW j \in 1..(W + Q), a[j] = b PROVE j = W + i
    <3>1. j \notin 1..W
      BY <1>1, <1>6, <2>3 DEF Never, W
    <3>2. PICK k \in 1..Q : j = W + k
      BY <1>2, <2>3, <3>1
    <3> QED
      BY <1>1, <2>1, <2>3, <3>2
  <2> QED
    BY <1>1, <2>2, <2>3 DEF Once
<1> QED
  BY <1>3, <1>4, <1>5, <1>6 DEF a

LEMMA AppendCounts ==
    ASSUME NEW S, NEW q \in Seq(S), NEW m \in S, NEW b
    PROVE  /\ Never(Append(q, m), b) <=> Never(q, b) /\ m # b
           /\ Once(Append(q, m), b) <=> \/ Once(q, b) /\ m # b
                                        \/ Never(q, b) /\ m = b
<1>1. <<m>> \in Seq(S)
  OBVIOUS
<1>2. Append(q, m) = q \o <<m>>
  BY AppendIsConcat
<1> DEFINE o == <<m>>
<1>3. o \in Seq(S) /\ Append(q, m) = q \o o
  BY <1>1, <1>2
<1>4. (Never(o, b) <=> m # b) /\ (Once(o, b) <=> m = b)
  BY SmallCounts
<1> HIDE DEF o
<1>5. /\ Never(q \o o, b) <=> Never(q, b) /\ Never(o, b)
      /\ Once(q \o o, b) <=> (Once(q, b) /\ Never(o, b)) \/ (Never(q, b) /\ Once(o, b))
  BY <1>3, CatCounts
<1> QED
  BY <1>3, <1>4, <1>5

LEMMA TakeCounts ==
    ASSUME NEW S, NEW q \in Seq(S), q # <<>>, NEW b
    PROVE  /\ Head(q) \in S /\ Tail(q) \in Seq(S)
           /\ Never(q, b) <=> Never(<<Head(q)>>, b) /\ Never(Tail(q), b)
           /\ Once(q, b) <=> \/ Once(<<Head(q)>>, b) /\ Never(Tail(q), b)
                             \/ Never(<<Head(q)>>, b) /\ Once(Tail(q), b)
<1>1. Head(q) \in S /\ Tail(q) \in Seq(S)
  BY HeadTailProperties
<1>2. <<Head(q)>> \in Seq(S)
  BY <1>1
<1>3. q = <<Head(q)>> \o Tail(q)
  <2>1. <<>> \in Seq(S)
    OBVIOUS
  <2>2. Append(<<>>, Head(q)) \o Tail(q) = <<>> \o q
    BY <2>1, CatShift
  <2>3. <<>> \o q = q /\ Append(<<>>, Head(q)) = <<Head(q)>>
    BY <1>1, ConcatEmptySeq
  <2> QED
    BY <2>2, <2>3
<1> DEFINE h == <<Head(q)>>
           t == Tail(q)
<1>4. h \in Seq(S) /\ t \in Seq(S) /\ q = h \o t
  BY <1>1, <1>2, <1>3
<1> HIDE DEF h, t
<1>5. /\ Never(h \o t, b) <=> Never(h, b) /\ Never(t, b)
      /\ Once(h \o t, b) <=> (Once(h, b) /\ Never(t, b)) \/ (Never(h, b) /\ Once(t, b))
  BY <1>4, CatCounts
<1>6. /\ Never(q, b) <=> Never(h, b) /\ Never(t, b)
      /\ Once(q, b) <=> (Once(h, b) /\ Never(t, b)) \/ (Never(h, b) /\ Once(t, b))
  BY <1>4, <1>5
<1> QED
  BY <1>1, <1>6 DEF h, t

-----------------------------------------------------------------------------
(* What append and a removal do to a slice that shows no element twice. *)

LEMMA GrownView ==
    ASSUME NEW S, NEW A, NEW B, NEW h, NEW c, NEW n, NEW nil, Grown(S, A, B, h, c, n, nil),
           h.len \in Nat, Distinct(A, h), n \notin View(A, h),
           NEW k, k.arr = c, k.len = h.len + 1
    PROVE  Distinct(B, k) /\ View(B, k) = View(A, h) \cup {n}
<1>1. /\ \A i \in 1..h.len : B[c][i] = A[h.arr][i]
      /\ B[c][h.len + 1] = n
  BY DEF Grown
<1>2. \A i \in 1..k.len : i \in 1..h.len \/ i = h.len + 1
  OBVIOUS
<1>3. \A i \in 1..h.len : i \in 1..k.len
  OBVIOUS
<1>4. h.len + 1 \in 1..k.len
  OBVIOUS
<1>5. \A i \in 1..h.len : B[c][i] \in View(A, h) /\ B[c][i] # n
  BY <1>1 DEF View
<1>6. Distinct(B, k)
  BY <1>1, <1>2, <1>5 DEF Distinct
<1>7. View(B, k) = View(A, h) \cup {n}
  <2>1. ASSUME NEW x \in View(B, k) PROVE x \in View(A, h) \cup {n}
    <3>1. PICK i \in 1..k.len : x = B[c][i]
      BY <2>1 DEF View
    <3> QED
      BY <1>1, <1>2, <1>5, <3>1
  <2>2. ASSUME NEW x \in View(A, h) PROVE x \in View(B, k)
    <3>1. PICK i \in 1..h.len : x = A[h.arr][i]
      BY <2>2 DEF View
    <3>2. i \in 1..k.len /\ x = B[c][i]
      BY <1>1, <1>3, <3>1
    <3> QED
      BY <3>2 DEF View
  <2>3. n \in View(B, k)
    BY <1>1, <1>4 DEF View
  <2> QED
    BY <2>1, <2>2, <2>3
<1> QED
  BY <1>6, <1>7

LEMMA ShrunkView ==
    ASSUME NEW S, NEW A \in Seq(Seq(S)), NEW B, NEW h, NEW k, Shrunk(S, A, B, h, k),
           h.len \in Nat, Within(A, h), k \in 1..h.len, Distinct(A, h),
           NEW g, g.arr = h.arr, g.len = h.len - 1
    PROVE  Distinct(B, g) /\ View(B, g) = View(A, h) \ {A[h.arr][k]}
<1> DEFINE y == A[h.arr]
           z == B[h.arr]
<1>1. /\ Len(y) \in Nat /\ h.len <= Len(y)
      /\ \A i \in 1..Len(y) : z[i] = IF k <= i /\ i < h.len THEN y[i + 1] ELSE y[i]
      /\ \A i, j \in 1..h.len : y[i] = y[j] => i = j
  <2>1. h.arr \in 1..Len(A) /\ h.len <= Len(y)
    BY DEF Within
  <2>2. y \in Seq(S)
    BY <2>1
  <2> QED
    BY <2>1, <2>2 DEF Shrunk, Distinct
<1> HIDE DEF y, z
<1>2. ASSUME NEW i \in 1..g.len
      PROVE  \/ i < k /\ i \in 1..h.len /\ z[i] = y[i]
             \/ i >= k /\ i + 1 \in 1..h.len /\ z[i] = y[i + 1]
  <2>1. i \in 1..Len(y) /\ i < h.len /\ i \in 1..h.len /\ i + 1 \in 1..h.len
    BY <1>1
  <2> QED
    BY <1>1, <2>1
<1>3. ASSUME NEW i \in 1..g.len, NEW j \in 1..g.len, z[i] = z[j] PROVE i = j
  <2>1. i \in Int /\ j \in Int
    OBVIOUS
  <2>2. CASE i < k /\ j < k
    BY <1>1, <1>2, <1>3, <2>1, <2>2
  <2>3. CASE i < k /\ ~(j < k)
    <3>1. y[i] = y[j + 1] /\ i \in 1..h.len /\ j + 1 \in 1..h.len
      BY <1>2, <1>3, <2>1, <2>3
    <3>2. i = j + 1
      BY <1>1, <3>1
    <3> QED
      BY <2>1, <2>3, <3>2
  <2>4. CASE ~(i < k) /\ j < k
    <3>1. y[i + 1] = y[j] /\ i + 1 \in 1..h.len /\ j \in 1..h.len
      BY <1>2, <1>3, <2>1, <2>4
    <3>2. i + 1 = j
      BY <1>1, <3>1
    <3> QED
      BY <2>1, <2>4, <3>2
  <2>5. CASE ~(i < k) /\ ~(j < k)
    <3>1. y[i + 1] = y[j + 1] /\ i + 1 \in 1..h.len /\ j + 1 \in 1..h.len
      BY <1>2, <1>3, <2>1, <2>5
    <3>2. i + 1 = j + 1
      BY <1>1, <3>1
    <3> QED
      BY <2>1, <3>2
  <2> QED
    BY <2>2, <2>3, <2>4, <2>5
<1>4. ASSUME NEW i \in 1..g.len PROVE z[i] # y[k] /\ \E j \in 1..h.len : z[i] = y[j]
  <2>1. i \in Int /\ k \in Int /\ k \in 1..h.len
    OBVIOUS
  <2>2. CASE i < k
    BY <1>1, <1>2, <2>1, <2>2
  <2>3. CASE ~(i < k)
    <3>1. z[i] = y[i + 1] /\ i + 1 \in 1..h.len /\ i + 1 # k
      BY <1>2, <2>1, <2>3
    <3> QED
      BY <1>1, <2>1, <3>1
  <2> QED
    BY <2>2, <2>3
<1>5. ASSUME NEW j \in 1..h.len, j # k PROVE \E i \in 1..g.len : z[i] = y[j]
  <2>1. j \in Int /\ k \in Int
    OBVIOUS
  <2>2. CASE j < k
    <3>1. j \in 1..g.len
      BY <2>2
    <3> QED
      BY <1>2, <2>1, <2>2, <3>1
  <2>3. CASE j > k
    <3> DEFINE i == j - 1
    <3>1. i \in 1..g.len /\ ~(i < k) /\ i + 1 = j
      BY <2>3
    <3> HIDE DEF i
    <3>2. z[i] = y[j]
      BY <1>2, <2>1, <3>1
    <3> QED
      BY <3>1, <3>2
  <2> QED
    BY <1>5, <2>1, <2>2, <2>3
<1>6. Distinct(B, g)
  BY <1>3 DEF Distinct, z
<1>7. View(B, g) = View(A, h) \ {A[h.arr][k]}
  <2>1. ASSUME NEW x \in View(B, g) PROVE x \in View(A, h) /\ x # A[h.arr][k]
    <3>1. PICK i \in 1..g.len : x = z[i]
      BY <2>1 DEF View, z
    <3>2. x # y[k] /\ \E j \in 1..h.len : x = y[j]
      BY <1>4, <3>1
    <3> QED
      BY <3>2 DEF View, y
  <2>2. ASSUME NEW x \in View(A, h), x # A[h.arr][k] PROVE x \in View(B, g)
    <3>1. PICK j \in 1..h.len : x = y[j]
      BY <2>2 DEF View, y
    <3>2. j # k
      BY <2>2, <3>1 DEF y
    <3>3. \E i \in 1..g.len : x = z[i]
      BY <1>5, <3>1, <3>2
    <3> QED
      BY <3>3 DEF View, z
  <2> QED
    BY <2>1, <2>2
<1> QED
  BY <1>6, <1>7
=============================================================================
