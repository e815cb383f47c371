----------------------------- MODULE SortProofs -----------------------------
(***************************************************************************)
(* Proofs about Sort: for arrays of any size, any elements, and any way of *)
(* comparing, sort stays in its array and only rearranges it; with a       *)
(* consistent comparison it sorts.                                         *)
(***************************************************************************)
EXTENDS Sort, FiniteSetTheorems, FunctionTheorems, SequenceTheorems, TLAPS

Bounds == Int \X Int

\* The parts are in the array, and one after the other.
WellParted(ps, n) ==
    /\ ps \in Seq(Bounds)
    /\ \A k \in 1 .. Len(ps) : 1 <= ps[k][1] /\ ps[k][2] <= n
    /\ \A j, k \in 1 .. Len(ps) : j < k => ps[j][2] < ps[k][1]

Together(ps, i, j) == \E k \in 1 .. Len(ps) : ps[k][1] <= i /\ j <= ps[k][2]

\* What is not in the same part is in order.
Settled(a, ps) ==
    \A i, j \in 1 .. Len(a) : i < j => Together(ps, i, j) \/ a[i] <= a[j]

SameElements(a, b) ==
    \A e \in SortElems : Cardinality(Occurrences(a, e)) = Cardinality(Occurrences(b, e))

-----------------------------------------------------------------------------
LEMMA ElemsAreInt ==
  ASSUME NEW a \in Seq(SortElems)
  PROVE  \A i \in 1 .. Len(a) : a[i] \in Int
<1>1. \A i \in 1 .. Len(a) : a[i] \in SortElems
  OBVIOUS
<1> QED  BY <1>1, SortAssumption

LEMMA SwapKeeps ==
  ASSUME NEW a \in Seq(SortElems), NEW m \in 1 .. Len(a), NEW n \in 1 .. Len(a)
  PROVE  LET b == Swapped(a, m, n)
         IN  /\ b \in Seq(SortElems) /\ Len(b) = Len(a)
             /\ b[m] = a[n] /\ b[n] = a[m]
             /\ \A i \in 1 .. Len(a) : i # m /\ i # n => b[i] = a[i]
             /\ SameElements(b, a)
<1> DEFINE b == Swapped(a, m, n)
<1>1. /\ b \in Seq(SortElems) /\ Len(b) = Len(a)
      /\ b[m] = a[n] /\ b[n] = a[m]
      /\ \A i \in 1 .. Len(a) : i # m /\ i # n => b[i] = a[i]
  BY DEF Swapped
<1>2. ASSUME NEW e \in SortElems
      PROVE  Cardinality(Occurrences(b, e)) = Cardinality(Occurrences(a, e))
  <2> HIDE DEF b
  <2> DEFINE S == Occurrences(b, e)
             T == Occurrences(a, e)
             to(i) == IF i = m THEN n ELSE IF i = n THEN m ELSE i
             f == [i \in S |-> to(i)]
  <2>1. S \subseteq 1 .. Len(a) /\ T \subseteq 1 .. Len(a)
    BY <1>1 DEF Occurrences
  <2>2. IsFiniteSet(S)
    <3>1. Len(a) \in Nat /\ IsFiniteSet(1 .. Len(a))
      BY FS_Interval
    <3> QED  BY <2>1, <3>1, FS_Subset
  <2>3. \A i \in 1 .. Len(a) : to(i) \in 1 .. Len(a) /\ to(to(i)) = i /\ a[to(i)] = b[i]
    BY <1>1
  <2>4. \A i \in S : to(i) \in T
    BY <1>1, <2>1, <2>3 DEF Occurrences
  <2>5. \A i \in T : to(i) \in S
    BY <1>1, <2>1, <2>3 DEF Occurrences
  <2>6. f \in Bijection(S, T)
    <3> HIDE DEF S, T
    <3>1. f \in [S -> T]
      BY <2>4
    <3>2. \A i, j \in S : f[i] = f[j] => i = j
      BY <2>1, <2>3
    <3>3. \A t \in T : \E i \in S : f[i] = t
      BY <2>1, <2>3, <2>5
    <3> QED  BY <3>1, <3>2, <3>3, Fun_IsBij
  <2>7. ExistsBijection(S, T)
    BY <2>6 DEF ExistsBijection
  <2> QED  BY <2>2, <2>7, FS_Bijection
<1> QED  BY <1>1, <1>2 DEF SameElements

\* A swap within the first part.
LEMMA SwapSettled ==
  ASSUME NEW a \in Seq(SortElems), NEW ps, WellParted(ps, Len(a)), ps # << >>,
         NEW m \in ps[1][1] .. ps[1][2], NEW n \in ps[1][1] .. ps[1][2],
         Settled(a, ps)
  PROVE  Settled(Swapped(a, m, n), ps)
<1> DEFINE b == Swapped(a, m, n)
           lo == ps[1][1]
           hi == ps[1][2]
<1>1. /\ Len(a) \in Nat /\ Len(ps) \in Nat /\ Len(ps) > 0
      /\ lo \in Int /\ hi \in Int /\ 1 <= lo /\ hi <= Len(a)
      /\ \A k \in 1 .. Len(ps) : ps[k][1] \in Int /\ ps[k][2] \in Int
  <2>1. ps \in Seq(Bounds)
    BY DEF WellParted
  <2>2. Len(ps) \in Nat /\ Len(ps) > 0
    BY <2>1
  <2>3. \A k \in 1 .. Len(ps) : ps[k] \in Bounds
    BY <2>1
  <2> QED  BY <2>2, <2>3 DEF WellParted, Bounds
<1>2. m \in 1 .. Len(a) /\ n \in 1 .. Len(a)
  BY <1>1
<1>3. /\ b \in Seq(SortElems) /\ Len(b) = Len(a)
      /\ b[m] = a[n] /\ b[n] = a[m]
      /\ \A i \in 1 .. Len(a) : i # m /\ i # n => b[i] = a[i]
  BY <1>2, SwapKeeps
<1> HIDE DEF b
\* An element of the first part was in it before.
<1>4. \A i \in 1 .. Len(a) : \E x \in 1 .. Len(a) :
         /\ b[i] = a[x]
         /\ IF i \in lo .. hi THEN x \in lo .. hi ELSE x = i
  <2> SUFFICES ASSUME NEW i \in 1 .. Len(a)
               PROVE  \E x \in 1 .. Len(a) :
                         /\ b[i] = a[x]
                         /\ IF i \in lo .. hi THEN x \in lo .. hi ELSE x = i
    OBVIOUS
  <2>1. CASE i = m
    BY <1>2, <1>3, <2>1
  <2>2. CASE i = n
    BY <1>2, <1>3, <2>2
  <2>3. CASE i # m /\ i # n
    BY <1>3, <2>3
  <2> QED  BY <2>1, <2>2, <2>3
<1>5. ASSUME NEW i \in 1 .. Len(a), NEW j \in 1 .. Len(a), i < j, ~Together(ps, i, j)
      PROVE  b[i] <= b[j]
  <2>1. PICK x \in 1 .. Len(a) : b[i] = a[x] /\ IF i \in lo .. hi THEN x \in lo .. hi ELSE x = i
    BY <1>4
  <2>2. PICK y \in 1 .. Len(a) : b[j] = a[y] /\ IF j \in lo .. hi THEN y \in lo .. hi ELSE y = j
    BY <1>4
  <2>3. ~ (lo <= i /\ j <= hi)
    BY <1>1, <1>5 DEF Together
  <2>4. x < y
    BY <1>1, <1>5, <2>1, <2>2, <2>3
  <2>5. ~Together(ps, x, y)
    <3> SUFFICES ASSUME NEW k \in 1 .. Len(ps), ps[k][1] <= x, y <= ps[k][2]
                 PROVE  FALSE
      BY DEF Together
    <3>1. CASE k = 1
      BY <1>1, <1>5, <2>1, <2>2, <2>3, <3>1
    <3>2. CASE k # 1
      <4>1. hi < ps[k][1]
        BY <1>1, <3>2 DEF WellParted
      <4>2. i = x /\ j = y
        BY <1>1, <2>1, <2>2, <2>4, <4>1
      <4> QED  BY <1>5, <4>2 DEF Together
    <3> QED  BY <3>1, <3>2
  <2>6. a[x] <= a[y]
    BY <2>4, <2>5 DEF Settled
  <2> QED  BY <2>1, <2>2, <2>6
<1>6. Settled(b, ps)
  BY <1>3, <1>5 DEF Settled
<1> QED  BY <1>6 DEF b

\* What the parts are made of.
LEMMA PartFacts ==
  ASSUME NEW ps, NEW n \in Nat, WellParted(ps, n), ps # << >>
  PROVE  /\ Len(ps) \in Nat /\ Len(ps) > 0 /\ ps \in Seq(Bounds)
         /\ \A k \in 1 .. Len(ps) :
               /\ ps[k] \in Bounds /\ ps[k][1] \in Int /\ ps[k][2] \in Int
               /\ 1 <= ps[k][1] /\ ps[k][2] <= n
         /\ \A j, k \in 1 .. Len(ps) : j < k => ps[j][2] < ps[k][1]
<1>1. ps \in Seq(Bounds)
  BY DEF WellParted
<1>2. Len(ps) \in Nat /\ Len(ps) > 0
  BY <1>1
<1>3. \A k \in 1 .. Len(ps) : ps[k] \in Bounds
  BY <1>1
<1> QED  BY <1>1, <1>2, <1>3 DEF WellParted, Bounds

\* The first part is done with.
LEMMA DropOK ==
  ASSUME NEW n \in Nat, NEW ps, WellParted(ps, n), ps # << >>
  PROVE  /\ WellParted(Tail(ps), n)
         /\ \A a \in Seq(SortElems) :
               /\ Len(a) = n /\ Settled(a, ps)
               /\ \A i, j \in ps[1][1] .. ps[1][2] : i < j => a[i] <= a[j]
               => Settled(a, Tail(ps))
<1> DEFINE qs == Tail(ps)
           w == Len(qs)
           m == Len(ps)
<1>0. /\ m \in Nat /\ m > 0 /\ ps \in Seq(Bounds)
      /\ \A k \in 1 .. m :
            /\ ps[k][1] \in Int /\ ps[k][2] \in Int
            /\ 1 <= ps[k][1] /\ ps[k][2] <= n
      /\ \A j, k \in 1 .. m : j < k => ps[j][2] < ps[k][1]
  BY PartFacts
<1>1. /\ qs \in Seq(Bounds) /\ w \in Nat /\ w = m - 1
      /\ \A k \in 1 .. w : qs[k] = ps[k + 1]
  BY <1>0
<1> HIDE DEF qs, w, m
<1>2. WellParted(qs, n)
  <2>1. ASSUME NEW k \in 1 .. w  PROVE  1 <= qs[k][1] /\ qs[k][2] <= n
    <3>1. k + 1 \in 1 .. m /\ qs[k] = ps[k + 1]
      BY <1>0, <1>1
    <3> QED  BY <1>0, <3>1
  <2>2. ASSUME NEW j \in 1 .. w, NEW k \in 1 .. w, j < k  PROVE  qs[j][2] < qs[k][1]
    <3>1. /\ k + 1 \in 1 .. m /\ qs[k] = ps[k + 1] /\ j + 1 \in 1 .. m /\ qs[j] = ps[j + 1]
          /\ j + 1 < k + 1
      BY <1>0, <1>1, <2>2
    <3> QED  BY <1>0, <3>1
  <2> QED  BY <1>1, <2>1, <2>2 DEF WellParted, w
<1>3. ASSUME NEW a \in Seq(SortElems), Len(a) = n, Settled(a, ps),
             \A i, j \in ps[1][1] .. ps[1][2] : i < j => a[i] <= a[j]
      PROVE  Settled(a, qs)
  <2> SUFFICES ASSUME NEW i \in 1 .. Len(a), NEW j \in 1 .. Len(a), i < j,
                      ~(a[i] <= a[j])
               PROVE  Together(qs, i, j)
    BY DEF Settled
  <2>1. PICK k \in 1 .. m : ps[k][1] <= i /\ j <= ps[k][2]
    BY <1>3 DEF Settled, Together, m
  <2>2. k # 1
    BY <1>0, <1>3, <2>1
  <2>3. k - 1 \in 1 .. w /\ qs[k - 1] = ps[k]
    BY <1>0, <1>1, <2>1, <2>2
  <2> QED  BY <2>1, <2>3 DEF Together, w
<1> QED  BY <1>2, <1>3 DEF qs

Sides(ps, p) == << <<ps[1][1], p - 1>>, <<p + 1, ps[1][2]>> >> \o Tail(ps)

\* The first part falls into what is before p and what is after it.
LEMMA SplitOK ==
  ASSUME NEW n \in Nat, NEW ps, WellParted(ps, n), ps # << >>,
         NEW p \in ps[1][1] .. ps[1][2]
  PROVE  /\ WellParted(Sides(ps, p), n)
         /\ \A a \in Seq(SortElems) :
               /\ Len(a) = n /\ Settled(a, ps)
               /\ \A i \in ps[1][1] .. p - 1 : a[i] <= a[p]
               /\ \A i \in p + 1 .. ps[1][2] : a[p] <= a[i]
               => Settled(a, Sides(ps, p))
<1> DEFINE qs == Sides(ps, p)
           lo == ps[1][1]
           hi == ps[1][2]
           two == << <<lo, p - 1>>, <<p + 1, hi>> >>
           rest == Tail(ps)
           w == Len(qs)
           m == Len(ps)
<1>0. /\ m \in Nat /\ m > 0 /\ ps \in Seq(Bounds)
      /\ \A k \in 1 .. m :
            /\ ps[k][1] \in Int /\ ps[k][2] \in Int
            /\ 1 <= ps[k][1] /\ ps[k][2] <= n
      /\ \A j, k \in 1 .. m : j < k => ps[j][2] < ps[k][1]
  BY PartFacts
<1>1. lo \in Int /\ hi \in Int /\ p \in Int /\ 1 <= lo /\ hi <= n
  BY <1>0
<1>2. /\ rest \in Seq(Bounds) /\ Len(rest) = m - 1
      /\ \A k \in 1 .. m - 1 : rest[k] = ps[k + 1]
  BY <1>0
<1>3. two \in Seq(Bounds) /\ Len(two) = 2 /\ two[1] = <<lo, p - 1>> /\ two[2] = <<p + 1, hi>>
  BY <1>1 DEF Bounds
<1> HIDE DEF lo, hi, rest, two, m, w
<1>4. qs = two \o rest
  BY DEF Sides, two, rest, lo, hi
<1> HIDE DEF qs
<1>5. /\ qs \in Seq(Bounds) /\ w = m + 1
      /\ qs[1] = <<lo, p - 1>> /\ qs[2] = <<p + 1, hi>>
      /\ \A k \in 3 .. w : qs[k] = ps[k - 1]
  <2>1. two \in Seq(Bounds) /\ rest \in Seq(Bounds)
    BY <1>2, <1>3
  <2>2. /\ two \o rest \in Seq(Bounds) /\ Len(two \o rest) = Len(two) + Len(rest)
        /\ \A k \in 1 .. Len(two) + Len(rest) :
              (two \o rest)[k] = IF k <= Len(two) THEN two[k] ELSE rest[k - Len(two)]
    BY <2>1, ConcatProperties
  <2>3. Len(two) = 2 /\ Len(rest) = m - 1 /\ Len(two \o rest) = w
    BY <1>2, <1>3, <1>4 DEF w
  <2>4. /\ qs \in Seq(Bounds) /\ w = m + 1
        /\ \A k \in 1 .. m + 1 : qs[k] = IF k <= 2 THEN two[k] ELSE rest[k - 2]
    BY <1>0, <1>4, <2>2, <2>3
  <2>5. ASSUME NEW k \in 3 .. w  PROVE  qs[k] = ps[k - 1]
    <3>1. k - 2 \in 1 .. m - 1 /\ (k - 2) + 1 = k - 1 /\ k \in 1 .. m + 1 /\ ~(k <= 2)
      BY <1>0, <2>4
    <3>2. rest[k - 2] = ps[k - 1]
      BY <1>2, <3>1
    <3> QED  BY <2>4, <3>1, <3>2
  <2>6. qs[1] = two[1] /\ qs[2] = two[2]
    BY <1>0, <2>4
  <2> QED  BY <1>3, <2>4, <2>5, <2>6
<1>6. WellParted(qs, n)
  <2>1. \A k \in 1 .. w : \/ k = 1
                          \/ k = 2
                          \/ k \in 3 .. w /\ k - 1 \in 2 .. m /\ k - 1 \in 1 .. m /\ qs[k] = ps[k - 1]
    BY <1>0, <1>5
  <2>2. ASSUME NEW k \in 2 .. m  PROVE  hi < ps[k][1] /\ ps[k][1] \in Int
    BY <1>0 DEF hi
  <2>3. /\ qs[1][1] = lo /\ qs[1][2] = p - 1 /\ qs[2][1] = p + 1 /\ qs[2][2] = hi
        /\ lo <= p /\ p <= hi
    BY <1>5 DEF lo, hi
  <2>4. ASSUME NEW k \in 1 .. w
        PROVE  1 <= qs[k][1] /\ qs[k][2] <= n
    BY <1>0, <1>1, <2>1, <2>3
  <2>5. ASSUME NEW j \in 1 .. w, NEW k \in 1 .. w, j < k
        PROVE  qs[j][2] < qs[k][1]
    <3>1. CASE k \in {1, 2}
      BY <1>1, <2>3, <2>5, <3>1
    <3>2. CASE k \in 3 .. w /\ j \in {1, 2}
      BY <1>1, <2>1, <2>2, <2>3, <3>2
    <3>3. CASE k \in 3 .. w /\ j \in 3 .. w
      <4>1. k - 1 \in 1 .. m /\ j - 1 \in 1 .. m /\ j - 1 < k - 1
        BY <1>0, <1>5, <2>5, <3>3
      <4>2. qs[j] = ps[j - 1] /\ qs[k] = ps[k - 1]
        BY <1>5, <3>3
      <4> QED  BY <1>0, <4>1, <4>2
    <3> QED  BY <2>1, <3>1, <3>2, <3>3
  <2> QED  BY <1>5, <2>4, <2>5 DEF WellParted, w
<1>7. ASSUME NEW a \in Seq(SortElems), Len(a) = n, Settled(a, ps),
             \A i \in lo .. p - 1 : a[i] <= a[p],
             \A i \in p + 1 .. hi : a[p] <= a[i]
      PROVE  Settled(a, qs)
  <2> SUFFICES ASSUME NEW i \in 1 .. Len(a), NEW j \in 1 .. Len(a), i < j,
                      ~(a[i] <= a[j])
               PROVE  Together(qs, i, j)
    BY DEF Settled
  <2>1. PICK k \in 1 .. m : ps[k][1] <= i /\ j <= ps[k][2]
    BY <1>7 DEF Settled, Together, m
  <2>2. CASE k # 1
    <3>1. k + 1 \in 3 .. w /\ k + 1 \in 1 .. w /\ (k + 1) - 1 = k
      BY <1>0, <1>5, <2>1, <2>2
    <3>2. qs[k + 1] = ps[k]
      BY <1>5, <3>1
    <3> QED  BY <2>1, <3>1, <3>2 DEF Together, w
  <2>3. CASE k = 1
    <3>1. /\ lo <= i /\ j <= hi /\ 1 \in 1 .. w /\ 2 \in 1 .. w
          /\ qs[1][1] = lo /\ qs[1][2] = p - 1 /\ qs[2][1] = p + 1 /\ qs[2][2] = hi
      BY <1>0, <1>5, <2>1, <2>3 DEF lo, hi
    <3>2. CASE j < p
      BY <1>1, <3>1, <3>2 DEF Together, w
    <3>3. CASE p < i
      BY <1>1, <3>1, <3>3 DEF Together, w
    <3>4. CASE i <= p /\ p <= j
      <4>1. a[i] \in Int /\ a[j] \in Int /\ a[p] \in Int
        <5>1. p \in 1 .. Len(a)
          BY <1>1, <1>7, <3>4
        <5>2. \A x \in 1 .. Len(a) : a[x] \in SortElems
          OBVIOUS
        <5> QED  BY <5>1, <5>2, SortAssumption
      <4>2. a[i] <= a[p] /\ a[p] <= a[j]
        BY <1>1, <1>7, <3>1, <3>4, <4>1
      <4> QED  BY <4>1, <4>2
    <3> QED  BY <1>1, <3>2, <3>3, <3>4
  <2> QED  BY <2>2, <2>3
<1> QED  BY <1>6, <1>7 DEF qs, lo, hi

\* The pivot goes between what is at most the pivot and what is at least it.
LEMMA PivotOK ==
  ASSUME NEW a \in Seq(SortElems), NEW ps, WellParted(ps, Len(a)), ps # << >>,
         NEW p \in ps[1][1] .. ps[1][2], Settled(a, ps),
         \A i \in ps[1][1] + 1 .. p : a[i] <= a[ps[1][1]],
         \A i \in p + 1 .. ps[1][2] : a[ps[1][1]] <= a[i]
  PROVE  Settled(Swapped(a, ps[1][1], p), Sides(ps, p))
<1> DEFINE lo == ps[1][1]
           hi == ps[1][2]
           b == Swapped(a, lo, p)
           n == Len(a)
<1>1. n \in Nat
  OBVIOUS
<1>2. lo \in Int /\ hi \in Int /\ 1 <= lo /\ hi <= n
  BY <1>1, PartFacts
<1>3. lo \in 1 .. n /\ p \in 1 .. n /\ lo \in lo .. hi
  BY <1>2
<1>4. /\ b \in Seq(SortElems) /\ Len(b) = n
      /\ b[lo] = a[p] /\ b[p] = a[lo]
      /\ \A i \in 1 .. n : i # lo /\ i # p => b[i] = a[i]
  BY <1>3, SwapKeeps
<1>5. Settled(b, ps)
  BY <1>3, SwapSettled
<1>6. \A i \in 1 .. n : a[i] \in Int
  BY ElemsAreInt
<1> HIDE DEF b, n
<1>7. \A i \in lo .. p - 1 : b[i] <= b[p]
  <2> SUFFICES ASSUME NEW i \in lo .. p - 1  PROVE  b[i] <= b[p]
    OBVIOUS
  <2>1. CASE i = lo
    BY <1>2, <1>3, <1>4, <2>1
  <2>2. CASE i # lo
    BY <1>2, <1>3, <1>4, <2>2
  <2> QED  BY <2>1, <2>2
<1>8. \A i \in p + 1 .. hi : b[p] <= b[i]
  BY <1>2, <1>3, <1>4
<1>9. Settled(b, Sides(ps, p))
  BY <1>1, <1>4, <1>5, <1>7, <1>8, SplitOK DEF n
<1> QED  BY <1>9 DEF b

InOrder(a, lo, k) == \A i, j \in lo .. k : i < j => a[i] <= a[j]

\* What a pass of arr_bsort has got in order: the elements above top, and the
\* largest so far at low.
PassOrder(a, lo, hi, k, t) ==
    /\ \A j \in t + 1 .. hi : \A i \in lo .. j - 1 : a[i] <= a[j]
    /\ \A i \in lo .. k : a[i] <= a[k]

LEMMA PassOrderStep ==
  ASSUME NEW a \in Seq(SortElems), NEW lo \in Int, NEW hi \in Int, NEW k \in Int, NEW t \in Int,
         1 <= lo, lo <= k, k < t, t <= hi, hi <= Len(a),
         PassOrder(a, lo, hi, k, t)
  PROVE  /\ a[k] <= a[k + 1] => /\ PassOrder(a, lo, hi, k + 1, t)
                                /\ InOrder(a, lo, k) => InOrder(a, lo, k + 1)
         /\ a[k] > a[k + 1] => PassOrder(Swapped(a, k, k + 1), lo, hi, k + 1, t)
<1> DEFINE n == Len(a)
           b == Swapped(a, k, k + 1)
<1>1. n \in Nat /\ k \in 1 .. n /\ k + 1 \in 1 .. n /\ hi <= n
  OBVIOUS
<1>2. \A i \in 1 .. n : a[i] \in Int
  BY ElemsAreInt
<1>3. /\ b[k] = a[k + 1] /\ b[k + 1] = a[k]
      /\ \A i \in 1 .. n : i # k /\ i # k + 1 => b[i] = a[i]
  BY <1>1, SwapKeeps
<1> HIDE DEF b, n
<1>4. /\ \A j \in t + 1 .. hi : \A i \in lo .. j - 1 : a[i] <= a[j]
      /\ \A i \in lo .. k : a[i] <= a[k]
  BY DEF PassOrder
<1>5. ASSUME a[k] <= a[k + 1]
      PROVE  /\ PassOrder(a, lo, hi, k + 1, t)
             /\ InOrder(a, lo, k) => InOrder(a, lo, k + 1)
  <2>1. \A i \in lo .. k + 1 : a[i] <= a[k + 1]
    <3> SUFFICES ASSUME NEW i \in lo .. k + 1  PROVE  a[i] <= a[k + 1]
      OBVIOUS
    <3>1. CASE i = k + 1
      BY <1>1, <1>2, <3>1
    <3>2. CASE i \in lo .. k
      <4>1. i \in 1 .. n
        BY <1>1, <3>2
      <4> QED  BY <1>1, <1>2, <1>4, <1>5, <3>2, <4>1
    <3> QED  BY <3>1, <3>2
  <2>2. ASSUME InOrder(a, lo, k), NEW i \in lo .. k + 1, NEW j \in lo .. k + 1, i < j
        PROVE  a[i] <= a[j]
    <3>1. CASE j = k + 1
      BY <2>1, <3>1
    <3>2. CASE j \in lo .. k
      <4>1. i \in lo .. k
        BY <2>2, <3>2
      <4> QED  BY <2>2, <3>2, <4>1 DEF InOrder
    <3> QED  BY <3>1, <3>2
  <2>3. InOrder(a, lo, k) => InOrder(a, lo, k + 1)
    BY <2>2 DEF InOrder
  <2> QED  BY <1>4, <2>1, <2>3 DEF PassOrder
<1>6. ASSUME a[k] > a[k + 1]
      PROVE  PassOrder(b, lo, hi, k + 1, t)
  <2>1. \A i \in lo .. k + 1 : b[i] <= b[k + 1]
    <3> SUFFICES ASSUME NEW i \in lo .. k + 1  PROVE  b[i] <= b[k + 1]
      OBVIOUS
    <3>1. CASE i = k + 1
      BY <1>1, <1>2, <1>3, <3>1
    <3>2. CASE i = k
      BY <1>1, <1>2, <1>3, <1>6, <3>2
    <3>3. CASE i \in lo .. k - 1
      <4>1. i \in 1 .. n /\ i \in lo .. k /\ i # k /\ i # k + 1
        BY <1>1, <3>3
      <4> QED  BY <1>3, <1>4, <4>1
    <3> QED  BY <3>1, <3>2, <3>3
  <2>2. ASSUME NEW j \in t + 1 .. hi, NEW i \in lo .. j - 1
        PROVE  b[i] <= b[j]
    <3>1. j \in 1 .. n /\ j # k /\ j # k + 1 /\ b[j] = a[j]
      BY <1>1, <1>3, <2>2
    <3>2. k \in lo .. j - 1 /\ k + 1 \in lo .. j - 1 /\ i \in 1 .. n
      BY <1>1, <2>2
    <3>3. a[i] <= a[j] /\ a[k] <= a[j] /\ a[k + 1] <= a[j]
      BY <1>4, <2>2, <3>2
    <3> QED  BY <1>3, <3>1, <3>2, <3>3
  <2> QED  BY <2>1, <2>2 DEF PassOrder
<1> QED  BY <1>5, <1>6 DEF b

\* What the loops of arr_qsort have got in order.
PivotOrder(a, lo, hi, l, h, v) ==
    /\ v = a[lo]
    /\ \A i \in lo + 1 .. l - 1 : a[i] <= v
    /\ \A i \in h + 1 .. hi : v <= a[i]

PartitionInv ==
    /\ First < low /\ low <= high /\ high <= End
    /\ doing = "up" => ~flag
    /\ doing = "down" /\ ~flag => low = high
    /\ doing = "last" => low = high
    /\ ~fickle => /\ PivotOrder(arr, First, End, low, high, pivot)
                  /\ doing = "down" /\ flag => arr[low] > pivot

BubbleInv ==
    /\ First <= low /\ low < top /\ top <= End
    /\ ~fickle => PassOrder(arr, First, End, low, top)
    /\ ~fickle /\ ~flag => InOrder(arr, First, low)

States == {"idle", "part", "bubble", "up", "down", "last", "sorted", "raised"}

ArrayInv ==
    /\ arr \in Seq(SortElems) /\ given0 \in Seq(SortElems) /\ Len(arr) = Len(given0)
    /\ SameElements(arr, given0)

PartsInv ==
    /\ WellParted(parts, Len(arr))
    /\ doing \in {"bubble", "up", "down", "last"} => parts # << >>
    /\ doing = "sorted" => parts = << >>
    /\ ~fickle => Settled(arr, parts)

LoopsInv ==
    /\ low \in Int /\ high \in Int /\ top \in Int
    /\ doing \in {"up", "down", "last"} => PartitionInv
    /\ doing = "bubble" => BubbleInv

SortInv ==
    /\ doing \in States /\ fickle \in BOOLEAN /\ flag \in BOOLEAN
    /\ ArrayInv /\ PartsInv /\ LoopsInv

LEMMA SortStarts ==  SortInit => SortInv
<1> SUFFICES ASSUME SortInit  PROVE  SortInv
  OBVIOUS
<1>1. ArrayInv
  BY DEF SortInit, ArrayInv, SameElements
<1>2. Len(arr) = 0 /\ parts = << >> /\ doing = "idle"
  BY DEF SortInit
<1>3. WellParted(parts, Len(arr)) /\ Settled(arr, parts)
  BY <1>2 DEF WellParted, Settled
<1>4. PartsInv
  BY <1>2, <1>3 DEF PartsInv
<1>5. doing \in States /\ LoopsInv
  BY <1>2 DEF SortInit, LoopsInv, States
<1>6. fickle \in BOOLEAN /\ flag \in BOOLEAN
  BY Zenon DEF SortInit
<1> QED  BY <1>1, <1>4, <1>5, <1>6 DEF SortInv

\* The head of the list of parts, where a part is being sorted.
LEMMA InPart ==
  ASSUME SortInv, parts # << >>
  PROVE  /\ Len(arr) \in Nat
         /\ First = parts[1][1] /\ End = parts[1][2]
         /\ First \in Int /\ End \in Int /\ 1 <= First /\ End <= Len(arr)
         /\ \A i \in 1 .. Len(arr) : arr[i] \in Int
<1>1. arr \in Seq(SortElems) /\ WellParted(parts, Len(arr))
  BY DEF SortInv, ArrayInv, PartsInv
<1>2. Len(arr) \in Nat
  BY <1>1
<1>3. /\ Len(parts) \in Nat /\ Len(parts) > 0 /\ parts \in Seq(Bounds)
      /\ parts[1][1] \in Int /\ parts[1][2] \in Int
      /\ 1 <= parts[1][1] /\ parts[1][2] <= Len(arr)
  BY <1>1, <1>2, PartFacts
<1>4. Head(parts) = parts[1]
  BY <1>3
<1> QED  BY <1>1, <1>2, <1>3, <1>4, ElemsAreInt DEF First, End

LEMMA CallSortKeeps ==  SortInv /\ CallSort => SortInv'
<1> SUFFICES ASSUME SortInv, CallSort  PROVE  SortInv'
  OBVIOUS
<1>1. PICK n \in 0 .. MaxSize : arr' \in [1 .. n -> SortElems] /\ parts' = << <<1, n>> >>
  BY DEF CallSort
<1>2. n \in Nat
  BY <1>1, SortAssumption
<1>3. arr' \in Seq(SortElems) /\ Len(arr') = n /\ given0' = arr'
  BY <1>1, <1>2 DEF CallSort
<1>4. ArrayInv'
  BY <1>3 DEF ArrayInv, SameElements
<1>5. parts' \in Seq(Bounds) /\ Len(parts') = 1 /\ parts'[1] = <<1, n>>
  BY <1>1, <1>2 DEF Bounds
<1>6. WellParted(parts', Len(arr'))
  BY <1>2, <1>3, <1>5 DEF WellParted
<1>7. Settled(arr', parts')
  <2>1. \A i, j \in 1 .. n : Together(parts', i, j)
    BY <1>2, <1>5 DEF Together
  <2> QED  BY <1>3, <2>1 DEF Settled
<1>8. PartsInv'
  BY <1>6, <1>7 DEF PartsInv, CallSort
<1> QED  BY <1>4, <1>8 DEF SortInv, LoopsInv, CallSort, States

LEMMA NextPartKeeps ==  SortInv /\ NextPart => SortInv'
<1> SUFFICES ASSUME SortInv, NextPart  PROVE  SortInv'
  OBVIOUS
<1>1. /\ doing = "part" /\ parts # << >>
      /\ arr' = arr /\ given0' = given0 /\ fickle' = fickle
  BY DEF NextPart
<1>2. ArrayInv'
  BY <1>1 DEF SortInv, ArrayInv
<1>3. /\ Len(arr) \in Nat
      /\ First = parts[1][1] /\ End = parts[1][2]
      /\ First \in Int /\ End \in Int /\ 1 <= First /\ End <= Len(arr)
      /\ \A i \in 1 .. Len(arr) : arr[i] \in Int
  BY <1>1, InPart
<1>4. CASE End <= First
  <2>1. parts' = Tail(parts) /\ UNCHANGED <<doing, low, high, top, pivot, flag>>
    BY <1>4 DEF NextPart
  <2>2. PartsInv'
    <3>1. WellParted(parts', Len(arr'))
      BY <1>1, <1>3, <2>1, DropOK DEF SortInv, PartsInv
    <3>2. ~fickle => Settled(arr', parts')
      BY <1>1, <1>3, <1>4, <2>1, DropOK DEF SortInv, PartsInv, ArrayInv
    <3> QED  BY <1>1, <2>1, <3>1, <3>2 DEF PartsInv
  <2> QED  BY <1>1, <1>2, <2>1, <2>2 DEF SortInv, LoopsInv
<1>5. CASE ~(End <= First) /\ End - First < SmallSize
  <2>1. /\ doing' = "bubble" /\ low' = First /\ top' = End /\ flag' = FALSE
        /\ UNCHANGED <<parts, high, pivot>>
    BY <1>5 DEF NextPart
  <2>2. PartsInv'
    BY <1>1, <2>1 DEF SortInv, PartsInv
  <2>3. PassOrder(arr, First, End, First, End) /\ InOrder(arr, First, First)
    BY <1>3, <1>5 DEF PassOrder, InOrder
  <2>4. First' = First /\ End' = End
    BY <2>1 DEF First, End
  <2>5. BubbleInv'
    BY <1>1, <1>3, <1>5, <2>1, <2>3, <2>4 DEF BubbleInv
  <2>6. flag' \in BOOLEAN /\ fickle' \in BOOLEAN
    BY Zenon, <1>1, <2>1 DEF SortInv
  <2>7. LoopsInv' /\ doing' \in States
    BY <1>1, <1>3, <2>1, <2>5 DEF SortInv, LoopsInv, States
  <2> QED  BY <1>2, <2>2, <2>6, <2>7 DEF SortInv
<1>6. CASE ~(End <= First) /\ ~(End - First < SmallSize)
  <2>1. /\ doing' = "up" /\ low' = First + 1 /\ high' = End /\ flag' = FALSE
        /\ pivot' = arr[First] /\ UNCHANGED <<parts, top>>
    BY <1>6 DEF NextPart
  <2>2. PartsInv'
    BY <1>1, <2>1 DEF SortInv, PartsInv
  <2>3. PivotOrder(arr, First, End, First + 1, End, arr[First])
    BY <1>3, <1>6 DEF PivotOrder
  <2>4. First' = First /\ End' = End
    BY <2>1 DEF First, End
  <2>5. PartitionInv'
    BY <1>1, <1>3, <1>6, <2>1, <2>3, <2>4 DEF PartitionInv
  <2>6. flag' \in BOOLEAN /\ fickle' \in BOOLEAN
    BY Zenon, <1>1, <2>1 DEF SortInv
  <2>7. LoopsInv' /\ doing' \in States
    BY <1>1, <1>3, <2>1, <2>5 DEF SortInv, LoopsInv, States
  <2> QED  BY <1>2, <2>2, <2>6, <2>7 DEF SortInv
<1> QED  BY <1>4, <1>5, <1>6

LEMMA BubbleKeeps ==  SortInv /\ Bubble => SortInv'
<1> SUFFICES ASSUME SortInv, Bubble  PROVE  SortInv'
  OBVIOUS
<1>1. /\ doing = "bubble" /\ given0' = given0 /\ fickle' = fickle /\ high' = high
      /\ parts # << >> /\ BubbleInv /\ fickle \in BOOLEAN /\ flag \in BOOLEAN
      /\ low \in Int /\ top \in Int /\ high \in Int
  BY DEF Bubble, SortInv, PartsInv, LoopsInv
<1>2. /\ Len(arr) \in Nat
      /\ First = parts[1][1] /\ End = parts[1][2]
      /\ First \in Int /\ End \in Int /\ 1 <= First /\ End <= Len(arr)
      /\ \A i \in 1 .. Len(arr) : arr[i] \in Int
  BY <1>1, InPart
<1>3. First <= low /\ low < top /\ top <= End
  BY <1>1 DEF BubbleInv
<1>4. PICK c \in Compared(arr[low], arr[low + 1]) :
        /\ arr' = IF c > 0 THEN Swapped(arr, low, low + 1) ELSE arr
        /\ Pass(flag \/ c > 0)
  BY DEF Bubble
<1>5. c \in Int
  BY DEF Compared
<1> DEFINE f == flag \/ c > 0
<1>6. /\ low \in 1 .. Len(arr) /\ low + 1 \in 1 .. Len(arr)
      /\ low \in parts[1][1] .. parts[1][2] /\ low + 1 \in parts[1][1] .. parts[1][2]
  BY <1>1, <1>2, <1>3
<1>7. /\ arr \in Seq(SortElems) /\ given0 \in Seq(SortElems) /\ Len(arr) = Len(given0)
      /\ SameElements(arr, given0) /\ WellParted(parts, Len(arr))
      /\ ~fickle => Settled(arr, parts)
  BY DEF SortInv, ArrayInv, PartsInv
<1>8. /\ arr' \in Seq(SortElems) /\ Len(arr') = Len(arr) /\ SameElements(arr', given0)
  <2>1. CASE c > 0
    BY <1>4, <1>6, <1>7, <2>1, SwapKeeps DEF SameElements
  <2>2. CASE ~(c > 0)
    BY <1>4, <1>7, <2>2
  <2> QED  BY <2>1, <2>2
<1>9. ArrayInv'
  BY <1>1, <1>7, <1>8 DEF ArrayInv
<1>10. ~fickle => Settled(arr', parts)
  <2>1. CASE c > 0
    BY <1>1, <1>4, <1>6, <1>7, <2>1, SwapSettled
  <2>2. CASE ~(c > 0)
    BY <1>4, <1>7, <2>2
  <2> QED  BY <2>1, <2>2
<1>11. ASSUME ~fickle
       PROVE  /\ PassOrder(arr', First, End, low + 1, top)
              /\ ~f => InOrder(arr', First, low + 1)
  <2>1. PassOrder(arr, First, End, low, top) /\ (~flag => InOrder(arr, First, low))
    BY <1>1, <1>11 DEF BubbleInv
  <2>2. arr[low] \in Int /\ arr[low + 1] \in Int /\ (c > 0 <=> arr[low] > arr[low + 1])
    BY <1>2, <1>4, <1>6, <1>11 DEF Compared
  <2>3. CASE c > 0
    BY <1>1, <1>2, <1>3, <1>4, <1>7, <2>1, <2>2, <2>3, PassOrderStep
  <2>4. CASE ~(c > 0)
    <3>1. PassOrder(arr, First, End, low + 1, top) /\ (InOrder(arr, First, low) => InOrder(arr, First, low + 1))
      BY <1>1, <1>2, <1>3, <1>7, <2>1, <2>2, <2>4, PassOrderStep
    <3> QED  BY <1>4, <2>1, <2>4, <3>1
  <2> QED  BY <2>3, <2>4
<1>12. f \in BOOLEAN /\ Pass(f)
  BY <1>4
<1> HIDE DEF f
<1>13. \A i \in 1 .. Len(arr') : arr'[i] \in Int
  BY <1>8, ElemsAreInt
<1>14. CASE low + 1 < top
  <2>1. low' = low + 1 /\ flag' = f /\ UNCHANGED <<top, parts, doing>>
    BY <1>12, <1>14 DEF Pass
  <2>2. First' = First /\ End' = End
    BY <2>1 DEF First, End
  <2>3. BubbleInv'
    BY <1>1, <1>2, <1>3, <1>11, <1>14, <2>1, <2>2 DEF BubbleInv
  <2>4. PartsInv'
    BY <1>1, <1>7, <1>8, <1>10, <2>1 DEF PartsInv
  <2>5. flag' \in BOOLEAN /\ fickle' \in BOOLEAN
    BY Zenon, <1>1, <1>12, <2>1
  <2>6. LoopsInv' /\ doing' \in States
    BY <1>1, <2>1, <2>3 DEF LoopsInv, States
  <2> QED  BY <1>9, <2>4, <2>5, <2>6 DEF SortInv
<1>15. CASE ~(low + 1 < top) /\ f /\ top - 1 > First
  <2>1. low' = First /\ top' = top - 1 /\ flag' = FALSE /\ UNCHANGED <<parts, doing>>
    BY <1>12, <1>15 DEF Pass
  <2>2. First' = First /\ End' = End
    BY <2>1 DEF First, End
  <2>3. ASSUME ~fickle
        PROVE  PassOrder(arr', First, End, First, top - 1) /\ InOrder(arr', First, First)
    <3>0. low + 1 = top
      BY <1>1, <1>3, <1>15
    <3>1. PassOrder(arr', First, End, top, top)
      BY <1>11, <2>3, <3>0
    <3>2. ASSUME NEW j \in top .. End, NEW i \in First .. j - 1  PROVE  arr'[i] <= arr'[j]
      BY <1>1, <1>2, <1>3, <3>1 DEF PassOrder
    <3>3. arr'[First] \in Int
      BY <1>2, <1>3, <1>8, <1>13, <1>1
    <3> QED  BY <1>1, <1>2, <3>2, <3>3 DEF PassOrder, InOrder
  <2>4. BubbleInv'
    BY <1>1, <1>2, <1>3, <1>15, <2>1, <2>2, <2>3 DEF BubbleInv
  <2>5. PartsInv'
    BY <1>1, <1>7, <1>8, <1>10, <2>1 DEF PartsInv
  <2>6. flag' \in BOOLEAN /\ fickle' \in BOOLEAN
    BY Zenon, <1>1, <2>1
  <2>7. LoopsInv' /\ doing' \in States
    BY <1>1, <1>2, <2>1, <2>4 DEF LoopsInv, States
  <2> QED  BY <1>9, <2>5, <2>6, <2>7 DEF SortInv
<1>16. CASE ~(low + 1 < top) /\ ~(f /\ top - 1 > First)
  <2>1. parts' = Tail(parts) /\ doing' = "part" /\ UNCHANGED <<low, top, flag>>
    BY <1>12, <1>16 DEF Pass
  <2>2. ASSUME ~fickle, NEW i \in First .. End, NEW j \in First .. End, i < j
        PROVE  arr'[i] <= arr'[j]
    <3>0. low + 1 = top
      BY <1>1, <1>3, <1>16
    <3>1. PassOrder(arr', First, End, top, top) /\ (~f => InOrder(arr', First, top))
      BY <1>11, <2>2, <3>0
    <3>2. CASE j > top
      BY <1>1, <1>2, <1>3, <2>2, <3>1, <3>2 DEF PassOrder
    <3>3. CASE j = top
      BY <1>1, <1>2, <1>3, <2>2, <3>1, <3>3 DEF PassOrder
    <3>4. CASE j < top
      <4>1. ~f
        BY <1>1, <1>2, <1>3, <1>16, <2>2, <3>4
      <4> QED  BY <1>1, <1>2, <1>3, <2>2, <3>1, <3>4, <4>1 DEF InOrder
    <3> QED  BY <1>1, <3>2, <3>3, <3>4
  <2>3. WellParted(parts', Len(arr'))
    BY <1>1, <1>2, <1>7, <1>8, <2>1, DropOK
  <2>4. ~fickle => Settled(arr', parts')
    BY <1>1, <1>2, <1>7, <1>8, <1>10, <2>1, <2>2, DropOK
  <2>5. PartsInv'
    BY <1>1, <2>1, <2>3, <2>4 DEF PartsInv
  <2> QED  BY <1>1, <1>9, <2>1, <2>5 DEF SortInv, LoopsInv, States
<1> QED  BY <1>14, <1>15, <1>16

\* What the invariant says while a part is being parted.
LEMMA Parting ==
  ASSUME SortInv, doing \in {"up", "down", "last"}
  PROVE  /\ parts # << >> /\ PartitionInv
         /\ low \in Int /\ high \in Int /\ top \in Int
         /\ First < low /\ low <= high /\ high <= End
         /\ Len(arr) \in Nat /\ arr \in Seq(SortElems) /\ given0 \in Seq(SortElems)
         /\ Len(arr) = Len(given0) /\ SameElements(arr, given0) /\ WellParted(parts, Len(arr))
         /\ First = parts[1][1] /\ End = parts[1][2]
         /\ First \in Int /\ End \in Int /\ 1 <= First /\ End <= Len(arr)
         /\ \A i \in 1 .. Len(arr) : arr[i] \in Int
         /\ ~fickle => /\ Settled(arr, parts)
                       /\ PivotOrder(arr, First, End, low, high, pivot)
                       /\ pivot \in Int
<1>1. parts # << >> /\ PartitionInv
  BY DEF SortInv, PartsInv, LoopsInv
<1>2. /\ Len(arr) \in Nat
      /\ First = parts[1][1] /\ End = parts[1][2]
      /\ First \in Int /\ End \in Int /\ 1 <= First /\ End <= Len(arr)
      /\ \A i \in 1 .. Len(arr) : arr[i] \in Int
  BY <1>1, InPart
<1>3. low \in Int /\ high \in Int /\ top \in Int /\ First < low /\ low <= high /\ high <= End
  BY <1>1 DEF SortInv, LoopsInv, PartitionInv
<1>4. ~fickle => PivotOrder(arr, First, End, low, high, pivot)
  BY <1>1 DEF PartitionInv
<1>5. First \in 1 .. Len(arr)
  BY <1>2, <1>3
<1>6. ~fickle => pivot \in Int
  BY <1>2, <1>4, <1>5 DEF PivotOrder
<1>7. /\ arr \in Seq(SortElems) /\ given0 \in Seq(SortElems)
      /\ Len(arr) = Len(given0) /\ SameElements(arr, given0) /\ WellParted(parts, Len(arr))
      /\ ~fickle => Settled(arr, parts)
  BY DEF SortInv, ArrayInv, PartsInv
<1> QED  BY <1>1, <1>2, <1>3, <1>4, <1>6, <1>7

LEMMA UpKeeps ==  SortInv /\ Up => SortInv'
<1> SUFFICES ASSUME SortInv, Up  PROVE  SortInv'
  OBVIOUS
<1>1. /\ doing = "up" /\ arr' = arr /\ given0' = given0 /\ fickle' = fickle
      /\ parts' = parts /\ high' = high /\ top' = top /\ pivot' = pivot
  BY DEF Up
<1>2. /\ parts # << >> /\ low \in Int /\ high \in Int /\ top \in Int
      /\ First < low /\ low <= high /\ high <= End
      /\ First \in Int /\ End \in Int /\ 1 <= First /\ End <= Len(arr)
      /\ \A i \in 1 .. Len(arr) : arr[i] \in Int
      /\ ~fickle => PivotOrder(arr, First, End, low, high, pivot) /\ pivot \in Int
  BY <1>1, Parting
<1>3. First' = First /\ End' = End
  BY <1>1 DEF First, End
<1>4. ArrayInv' /\ (doing' \in {"up", "down"} => PartsInv')
  BY <1>1, <1>2 DEF SortInv, ArrayInv, PartsInv
<1>5. ~flag
  BY <1>1 DEF SortInv, LoopsInv, PartitionInv
<1>6. CASE low >= high
  <2>1. doing' = "down" /\ low' = low /\ flag' = flag
    BY <1>6 DEF Up
  <2>2. PartitionInv'
    BY <1>1, <1>2, <1>3, <1>5, <1>6, <2>1 DEF PartitionInv
  <2>3. flag' \in BOOLEAN /\ fickle' \in BOOLEAN
    BY Zenon, <1>1, <2>1 DEF SortInv
  <2>4. LoopsInv' /\ doing' \in States
    BY <1>1, <1>2, <2>1, <2>2 DEF LoopsInv, States
  <2> QED  BY <1>4, <2>1, <2>3, <2>4 DEF SortInv
<1>7. CASE ~(low >= high)
  <2>1. PICK c \in Compared(arr[low], pivot) :
          IF c > 0 THEN flag' = TRUE /\ doing' = "down" /\ UNCHANGED low
          ELSE low' = low + 1 /\ UNCHANGED <<doing, flag>>
    BY <1>7 DEF Up
  <2>2. c \in Int
    BY DEF Compared
  <2>3. low \in 1 .. Len(arr)
    BY <1>2, <1>7
  <2>4. ~fickle => (c > 0 <=> arr[low] > pivot)
    BY <1>2, <2>1, <2>3 DEF Compared
  <2>5. CASE c > 0
    <3>1. flag' = TRUE /\ doing' = "down" /\ low' = low
      BY <2>1, <2>5
    <3>2. PartitionInv'
      BY <1>1, <1>2, <1>3, <1>7, <2>4, <2>5, <3>1 DEF PartitionInv
    <3>3. flag' \in BOOLEAN /\ fickle' \in BOOLEAN
      BY Zenon, <1>1, <3>1 DEF SortInv
    <3>4. LoopsInv' /\ doing' \in States
      BY <1>1, <1>2, <3>1, <3>2 DEF LoopsInv, States
    <3> QED  BY <1>4, <3>1, <3>3, <3>4 DEF SortInv
  <2>6. CASE ~(c > 0)
    <3>1. low' = low + 1 /\ doing' = "up" /\ flag' = flag
      BY <1>1, <2>1, <2>6
    <3>2. ~fickle => PivotOrder(arr, First, End, low + 1, high, pivot)
      <4> SUFFICES ASSUME ~fickle  PROVE  PivotOrder(arr, First, End, low + 1, high, pivot)
        OBVIOUS
      <4>1. arr[low] <= pivot
        BY <1>2, <2>3, <2>4, <2>6
      <4>2. \A i \in First + 1 .. low : i = low \/ i \in First + 1 .. low - 1
        BY <1>2
      <4> QED  BY <1>2, <4>1, <4>2 DEF PivotOrder
    <3>3. PartitionInv'
      BY <1>1, <1>2, <1>3, <1>5, <1>7, <3>1, <3>2 DEF PartitionInv
    <3>4. flag' \in BOOLEAN /\ fickle' \in BOOLEAN
      BY Zenon, <1>1, <3>1 DEF SortInv
    <3>5. LoopsInv' /\ doing' \in States
      BY <1>1, <1>2, <3>1, <3>3 DEF LoopsInv, States
    <3> QED  BY <1>4, <3>1, <3>4, <3>5 DEF SortInv
  <2> QED  BY <2>5, <2>6
<1> QED  BY <1>6, <1>7

\* A part split where it may be: the sides remain.
LEMMA SplitKeeps ==
  ASSUME NEW a \in Seq(SortElems), NEW p \in First .. End,
         SortInv, parts # << >>, Len(a) = Len(arr), SameElements(a, given0),
         ~fickle => /\ Settled(a, parts)
                    /\ \A i \in First + 1 .. p : a[i] <= a[First]
                    /\ \A i \in p + 1 .. End : a[First] <= a[i],
         Split(a, p), given0' = given0, fickle' = fickle,
         low' \in Int, high' \in Int, top' \in Int
  PROVE  SortInv'
<1>1. /\ arr' = Swapped(a, First, p) /\ parts' = Sides(parts, p)
      /\ doing' = "part" /\ flag' = flag
  <2>1. First = parts[1][1] /\ End = parts[1][2]
    BY InPart
  <2> QED  BY <2>1 DEF Split, Sides
<1>2. /\ Len(arr) \in Nat
      /\ First = parts[1][1] /\ End = parts[1][2]
      /\ First \in Int /\ End \in Int /\ 1 <= First /\ End <= Len(arr)
  BY InPart
<1>3. First \in 1 .. Len(a) /\ p \in 1 .. Len(a) /\ p \in parts[1][1] .. parts[1][2]
  BY <1>2
<1>4. arr' \in Seq(SortElems) /\ Len(arr') = Len(arr) /\ SameElements(arr', a)
  BY <1>1, <1>3, SwapKeeps
<1>5. ArrayInv'
  BY <1>4 DEF SortInv, ArrayInv, SameElements
<1>6. WellParted(parts, Len(arr))
  BY DEF SortInv, PartsInv
<1>7. WellParted(parts', Len(arr'))
  BY <1>1, <1>2, <1>3, <1>4, <1>6, SplitOK
<1>8. ~fickle => Settled(arr', parts')
  BY <1>1, <1>2, <1>3, <1>6, PivotOK
<1>9. PartsInv'
  BY <1>1, <1>7, <1>8 DEF PartsInv
<1>10. flag' \in BOOLEAN /\ fickle' \in BOOLEAN
  BY Zenon, <1>1 DEF SortInv
<1>11. LoopsInv' /\ doing' \in States
  BY <1>1 DEF LoopsInv, States
<1> QED  BY <1>5, <1>9, <1>10, <1>11 DEF SortInv

LEMMA LastLookKeeps ==  SortInv /\ LastLook => SortInv'
<1> SUFFICES ASSUME SortInv, LastLook  PROVE  SortInv'
  OBVIOUS
<1>1. /\ doing = "last" /\ given0' = given0 /\ fickle' = fickle
      /\ low' = low /\ high' = high /\ top' = top
  BY DEF LastLook
<1>2. /\ parts # << >> /\ low \in Int /\ high \in Int /\ top \in Int
      /\ First < low /\ low = high /\ high <= End
      /\ First \in Int /\ End \in Int /\ 1 <= First /\ End <= Len(arr)
      /\ arr \in Seq(SortElems) /\ SameElements(arr, given0)
      /\ \A i \in 1 .. Len(arr) : arr[i] \in Int
      /\ ~fickle => /\ Settled(arr, parts)
                    /\ PivotOrder(arr, First, End, low, high, pivot)
                    /\ pivot \in Int
  BY <1>1, Parting DEF PartitionInv
<1>3. PICK c \in Compared(arr[high], pivot) : Split(arr, IF c > 0 THEN high - 1 ELSE high)
  BY DEF LastLook
<1> DEFINE p == IF c > 0 THEN high - 1 ELSE high
<1>4. c \in Int /\ high \in 1 .. Len(arr) /\ p \in First .. End
  BY <1>2 DEF Compared
<1>5. ASSUME ~fickle
      PROVE  /\ \A i \in First + 1 .. p : arr[i] <= arr[First]
             /\ \A i \in p + 1 .. End : arr[First] <= arr[i]
  <2>1. c > 0 <=> arr[high] > pivot
    BY <1>2, <1>4, <1>5, <1>3 DEF Compared
  <2> QED  BY <1>2, <1>4, <1>5, <2>1 DEF PivotOrder
<1> HIDE DEF p
<1>6. Split(arr, p)
  BY <1>3 DEF p
<1> QED  BY <1>1, <1>2, <1>4, <1>5, <1>6, SplitKeeps

LEMMA DownKeeps ==  SortInv /\ Down => SortInv'
<1> SUFFICES ASSUME SortInv, Down  PROVE  SortInv'
  OBVIOUS
<1>1. /\ doing = "down" /\ given0' = given0 /\ fickle' = fickle
      /\ top' = top /\ pivot' = pivot
  BY DEF Down
<1>2. /\ parts # << >> /\ low \in Int /\ high \in Int /\ top \in Int
      /\ First < low /\ low <= high /\ high <= End
      /\ First \in Int /\ End \in Int /\ 1 <= First /\ End <= Len(arr)
      /\ First = parts[1][1] /\ End = parts[1][2] /\ WellParted(parts, Len(arr))
      /\ arr \in Seq(SortElems) /\ SameElements(arr, given0) /\ Len(arr) \in Nat
      /\ \A i \in 1 .. Len(arr) : arr[i] \in Int
      /\ ~fickle => /\ Settled(arr, parts)
                    /\ PivotOrder(arr, First, End, low, high, pivot)
                    /\ pivot \in Int
  BY <1>1, Parting
<1>3. /\ flag \/ low = high
      /\ ~fickle /\ flag => arr[low] > pivot
  BY <1>1, Parting DEF PartitionInv
<1>4. low \in 1 .. Len(arr) /\ high \in 1 .. Len(arr)
  BY <1>2
<1>5. CASE low >= high /\ flag
  <2>1. Split(arr, low - 1) /\ low' = low /\ high' = high
    BY <1>5 DEF Down
  <2>2. low - 1 \in First .. End
    BY <1>2
  <2>3. ASSUME ~fickle
        PROVE  /\ \A i \in First + 1 .. low - 1 : arr[i] <= arr[First]
               /\ \A i \in (low - 1) + 1 .. End : arr[First] <= arr[i]
    BY <1>2, <1>3, <1>4, <1>5, <2>3 DEF PivotOrder
  <2> QED  BY <1>1, <1>2, <2>1, <2>2, <2>3, SplitKeeps
<1>6. CASE low >= high /\ ~flag
  <2>1. doing' = "last" /\ UNCHANGED <<arr, parts, flag, low, high>>
    BY <1>6 DEF Down
  <2>2. First' = First /\ End' = End
    BY <2>1 DEF First, End
  <2>3. PartitionInv'
    BY <1>1, <1>2, <1>6, <2>1, <2>2 DEF PartitionInv
  <2>4. ArrayInv' /\ PartsInv'
    BY <1>1, <1>2, <2>1 DEF SortInv, ArrayInv, PartsInv
  <2>5. flag' \in BOOLEAN /\ fickle' \in BOOLEAN
    BY Zenon, <1>1, <2>1 DEF SortInv
  <2>6. LoopsInv' /\ doing' \in States
    BY <1>1, <1>2, <2>1, <2>3 DEF LoopsInv, States
  <2> QED  BY <2>4, <2>5, <2>6 DEF SortInv
<1>7. CASE ~(low >= high)
  <2>1. PICK c \in Compared(arr[high], pivot) :
          IF c >= 0 THEN high' = high - 1 /\ UNCHANGED <<arr, parts, doing, low, flag>>
          ELSE /\ low' = low + 1 /\ high' = high - 1
               /\ IF low' > high' THEN Split(Swapped(arr, low, high), high')
                  ELSE /\ arr' = Swapped(arr, low, high)
                       /\ doing' = "up" /\ flag' = FALSE /\ UNCHANGED parts
    BY <1>7 DEF Down
  <2>2. c \in Int
    BY DEF Compared
  <2>3. flag /\ low < high
    BY <1>2, <1>3, <1>7
  <2>4. ~fickle => (c >= 0 <=> arr[high] >= pivot)
    BY <1>2, <1>4, <2>1 DEF Compared
  <2>5. CASE c >= 0
    <3>1. high' = high - 1 /\ UNCHANGED <<arr, parts, doing, low, flag>>
      BY <2>1, <2>5
    <3>2. First' = First /\ End' = End
      BY <3>1 DEF First, End
    <3>3. ~fickle => PivotOrder(arr, First, End, low, high - 1, pivot)
      <4> SUFFICES ASSUME ~fickle  PROVE  PivotOrder(arr, First, End, low, high - 1, pivot)
        OBVIOUS
      <4>1. arr[high] >= pivot
        BY <2>4, <2>5
      <4>2. \A i \in (high - 1) + 1 .. End : i = high \/ i \in high + 1 .. End
        BY <1>2
      <4> QED  BY <1>2, <1>4, <4>1, <4>2 DEF PivotOrder
    <3>4. PartitionInv'
      BY <1>1, <1>2, <1>3, <2>3, <3>1, <3>2, <3>3 DEF PartitionInv
    <3>5. ArrayInv' /\ PartsInv'
      BY <1>1, <1>2, <3>1 DEF SortInv, ArrayInv, PartsInv
    <3>6. flag' \in BOOLEAN /\ fickle' \in BOOLEAN
      BY Zenon, <1>1, <3>1 DEF SortInv
    <3>7. LoopsInv' /\ doing' \in States
      BY <1>1, <1>2, <3>1, <3>4 DEF LoopsInv, States
    <3> QED  BY <3>5, <3>6, <3>7 DEF SortInv
  <2>6. CASE ~(c >= 0)
    <3> DEFINE b == Swapped(arr, low, high)
    <3>1. /\ low' = low + 1 /\ high' = high - 1
          /\ IF low' > high' THEN Split(b, high')
             ELSE arr' = b /\ doing' = "up" /\ flag' = FALSE /\ parts' = parts
      BY <2>1, <2>6
    <3>2. /\ b \in Seq(SortElems) /\ Len(b) = Len(arr)
          /\ b[low] = arr[high] /\ b[high] = arr[low]
          /\ \A i \in 1 .. Len(arr) : i # low /\ i # high => b[i] = arr[i]
          /\ SameElements(b, arr)
      BY <1>2, <1>4, SwapKeeps
    <3>3. SameElements(b, given0)
      BY <1>2, <3>2 DEF SameElements
    <3>4. ~fickle => Settled(b, parts)
      <4>1. low \in parts[1][1] .. parts[1][2] /\ high \in parts[1][1] .. parts[1][2]
        BY <1>2
      <4> QED  BY <1>2, <4>1, SwapSettled
    <3> HIDE DEF b
    <3>5. First \in 1 .. Len(arr) /\ First # low /\ First # high /\ b[First] = arr[First]
      BY <1>2, <3>2
    <3>6. ~fickle => PivotOrder(b, First, End, low + 1, high - 1, pivot)
      <4> SUFFICES ASSUME ~fickle  PROVE  PivotOrder(b, First, End, low + 1, high - 1, pivot)
        OBVIOUS
      <4>1. b[low] <= pivot /\ pivot <= b[high]
        BY <1>2, <1>3, <1>4, <2>3, <2>4, <2>6, <3>2
      <4>2. PivotOrder(arr, First, End, low, high, pivot)
        BY <1>2
      <4>3. ASSUME NEW i \in First + 1 .. (low + 1) - 1  PROVE  b[i] <= pivot
        <5>1. CASE i = low
          BY <4>1, <5>1
        <5>2. CASE i # low
          <6>1. i \in 1 .. Len(arr) /\ i # high /\ i \in First + 1 .. low - 1
            BY <1>2, <2>3, <5>2
          <6> QED  BY <3>2, <4>2, <5>2, <6>1 DEF PivotOrder
        <5> QED  BY <5>1, <5>2
      <4>4. ASSUME NEW i \in (high - 1) + 1 .. End  PROVE  pivot <= b[i]
        <5>1. CASE i = high
          BY <4>1, <5>1
        <5>2. CASE i # high
          <6>1. i \in 1 .. Len(arr) /\ i # low /\ i \in high + 1 .. End
            BY <1>2, <2>3, <5>2
          <6> QED  BY <3>2, <4>2, <5>2, <6>1 DEF PivotOrder
        <5> QED  BY <5>1, <5>2
      <4> QED  BY <3>5, <4>2, <4>3, <4>4 DEF PivotOrder
    <3>7. CASE low' > high'
      <4>1. Split(b, high - 1) /\ low + 1 > high - 1 /\ low' \in Int /\ high' \in Int
        BY <1>2, <3>1, <3>7
      <4>2. high - 1 \in First .. End /\ high - 1 = low
        BY <1>2, <2>3, <4>1
      <4>3. ASSUME ~fickle
            PROVE  /\ \A i \in First + 1 .. high - 1 : b[i] <= b[First]
                   /\ \A i \in (high - 1) + 1 .. End : b[First] <= b[i]
        <5>1. PivotOrder(b, First, End, low + 1, high - 1, pivot)
          BY <3>6, <4>3
        <5>2. high - 1 = (low + 1) - 1
          BY <1>2, <4>2
        <5> QED  BY <5>1, <5>2 DEF PivotOrder
      <4> QED  BY <1>1, <1>2, <3>2, <3>3, <3>4, <4>1, <4>2, <4>3, SplitKeeps
    <3>8. CASE ~(low' > high')
      <4>1. arr' = b /\ doing' = "up" /\ flag' = FALSE /\ parts' = parts
        BY <3>1, <3>8
      <4>2. First' = First /\ End' = End
        BY <4>1 DEF First, End
      <4>3. PartitionInv'
        BY <1>1, <1>2, <3>1, <3>6, <3>8, <4>1, <4>2 DEF PartitionInv
      <4>4. ArrayInv'
        BY <1>1, <3>2, <3>3, <4>1 DEF SortInv, ArrayInv
      <4>5. PartsInv'
        BY <1>1, <1>2, <3>2, <3>4, <4>1 DEF PartsInv
      <4>6. flag' \in BOOLEAN /\ fickle' \in BOOLEAN
        BY Zenon, <1>1, <4>1 DEF SortInv
      <4>7. LoopsInv' /\ doing' \in States
        BY <1>1, <1>2, <3>1, <4>1, <4>3 DEF LoopsInv, States
      <4> QED  BY <4>4, <4>5, <4>6, <4>7 DEF SortInv
    <3> QED  BY <3>7, <3>8
  <2> QED  BY <2>5, <2>6
<1> QED  BY <1>5, <1>6, <1>7

LEMMA OthersKeep ==  SortInv /\ (CompareRaises \/ Sorted \/ SortReturns \/ UNCHANGED svars) => SortInv'
<1> SUFFICES ASSUME SortInv, CompareRaises \/ Sorted \/ SortReturns \/ UNCHANGED svars
             PROVE  SortInv'
  OBVIOUS
<1>1. CASE CompareRaises \/ Sorted
  <2>1. /\ UNCHANGED <<arr, given0, fickle, parts, low, high, top, pivot, flag>>
        /\ doing' = "raised" \/ (doing' = "sorted" /\ parts = << >>)
    BY <1>1 DEF CompareRaises, Sorted
  <2>2. ArrayInv' /\ PartsInv'
    BY <2>1 DEF SortInv, ArrayInv, PartsInv
  <2>3. flag' \in BOOLEAN /\ fickle' \in BOOLEAN
    BY Zenon, <2>1 DEF SortInv
  <2>4. LoopsInv' /\ doing' \in States
    BY <2>1 DEF SortInv, LoopsInv, States
  <2> QED  BY <2>2, <2>3, <2>4 DEF SortInv
<1>2. CASE SortReturns
  <2>1. ArrayInv'
    BY <1>2 DEF SortReturns, ArrayInv, SameElements
  <2>2. Len(arr') = 0 /\ parts' = << >> /\ doing' = "idle" /\ arr' = << >>
    BY <1>2 DEF SortReturns
  <2>3. WellParted(parts', Len(arr')) /\ Settled(arr', parts')
    BY <2>2 DEF WellParted, Settled
  <2>4. PartsInv'
    BY <2>2, <2>3 DEF PartsInv
  <2>5. flag' \in BOOLEAN /\ fickle' \in BOOLEAN
    BY Zenon, <1>2 DEF SortReturns
  <2>6. LoopsInv' /\ doing' \in States
    BY <1>2 DEF SortReturns, LoopsInv, States
  <2> QED  BY <2>1, <2>4, <2>5, <2>6 DEF SortInv
<1>3. CASE UNCHANGED svars
  <2>1. First' = First /\ End' = End
    BY <1>3 DEF First, End, svars
  <2>2. (PartitionInv' <=> PartitionInv) /\ (BubbleInv' <=> BubbleInv)
    BY <1>3, <2>1 DEF svars, PartitionInv, BubbleInv
  <2>3. LoopsInv' /\ ArrayInv' /\ PartsInv'
    BY <1>3, <2>2 DEF svars, SortInv, LoopsInv, ArrayInv, PartsInv
  <2> QED  BY <1>3, <2>3 DEF svars, SortInv
<1> QED  BY <1>1, <1>2, <1>3

LEMMA SortInvariance ==  SortSpec => []SortInv
<1>1. SortInv /\ [SortNext]_svars => SortInv'
  BY CallSortKeeps, NextPartKeeps, BubbleKeeps, UpKeeps, DownKeeps, LastLookKeeps, OthersKeep
     DEF SortNext, SortStep
<1> QED  BY <1>1, SortStarts, PTL DEF SortSpec

\* arr_qsort and arr_bsort stay in the part they sort, whatever the size of the
\* array and however the comparison answers.
THEOREM SortStaysInside ==  SortSpec => []SortTypeOK
<1>1. SortInv => SortTypeOK
  BY DEF SortInv, ArrayInv, LoopsInv, PartitionInv, BubbleInv, SortTypeOK, States
<1> QED  BY <1>1, SortInvariance, PTL

\* sort only rearranges the array, also when the comparison contradicts itself
\* or raises; and with a consistent one the array is in order in the end.
THEOREM SortCorrect ==  SortSpec => []SortKeeps
<1>1. ASSUME SortInv  PROVE  SortKeeps
  <2>1. \A e \in SortElems :
           Cardinality(Occurrences(arr, e)) = Cardinality(Occurrences(given0, e))
    BY <1>1 DEF SortInv, ArrayInv, SameElements
  <2>2. ASSUME doing = "sorted", ~fickle, NEW n \in 1 .. Len(arr) - 1
        PROVE  arr[n] <= arr[n + 1]
    <3>1. parts = << >> /\ Settled(arr, parts) /\ arr \in Seq(SortElems)
      BY <1>1, <2>2 DEF SortInv, ArrayInv, PartsInv
    <3>2. n \in 1 .. Len(arr) /\ n + 1 \in 1 .. Len(arr) /\ n < n + 1
      BY <3>1
    <3>3. ~Together(parts, n, n + 1)
      BY <3>1 DEF Together
    <3> QED  BY <3>1, <3>2, <3>3 DEF Settled
  <2> QED  BY <2>1, <2>2 DEF SortKeeps
<1> QED  BY <1>1, SortInvariance, PTL

-----------------------------------------------------------------------------
(* Sorting gets nearer to its end with every step, whatever the comparison *)
(* answers: what SortEnds rests on, besides fairness.                      *)

\* The indices of the parts still to be sorted.
Unsorted(ps) == UNION {ps[k][1] .. ps[k][2] : k \in 1 .. Len(ps)}

Loops == {"bubble", "up", "down", "last"}

\* In a call of sort: a part is taken, its loops run, all is over.
SortStage ==
    CASE doing = "part" -> 3
      [] doing \in Loops -> 2
      [] doing \in {"sorted", "raised"} -> 1
      [] OTHER -> 0

\* What the loops have still to go through, and the steps until that gets less.
Width == IF doing = "bubble" THEN top ELSE high - low

Turns ==
    CASE doing = "bubble" -> top - low
      [] doing = "up" -> 2
      [] doing = "down" -> 1
      [] OTHER -> 0

\* There is less to be sorted, or there are fewer parts, or the part is nearer its end.
SortAdvances ==
    /\ Unsorted(parts') \subseteq Unsorted(parts)
    /\ \/ Unsorted(parts') # Unsorted(parts)
       \/ Len(parts') < Len(parts)
       \/ /\ parts' = parts
          /\ \/ SortStage' < SortStage
             \/ SortStage' = SortStage /\ (Width' < Width \/ (Width' = Width /\ Turns' < Turns))

\* None of that goes below zero.
SortMeasured ==
    /\ Unsorted(parts) \subseteq 1 .. Len(arr)
    /\ doing \in Loops => Width \in Nat /\ Turns \in Nat

\* Where the first part is, the others are not.
LEMMA FirstPart ==
  ASSUME NEW ps, NEW n \in Nat, WellParted(ps, n), ps # << >>
  PROVE  /\ \A i : i \in Unsorted(ps) <=> i \in ps[1][1] .. ps[1][2] \/ i \in Unsorted(Tail(ps))
         /\ \A i \in ps[1][1] .. ps[1][2] : i \notin Unsorted(Tail(ps))
         /\ Len(Tail(ps)) < Len(ps)
<1> DEFINE qs == Tail(ps)
           m == Len(ps)
<1>1. /\ m \in Nat /\ m > 0 /\ ps \in Seq(Bounds)
      /\ \A k \in 1 .. m : ps[k][1] \in Int /\ ps[k][2] \in Int
      /\ \A j, k \in 1 .. m : j < k => ps[j][2] < ps[k][1]
  BY PartFacts
<1>2. Len(qs) = m - 1 /\ \A k \in 1 .. m - 1 : qs[k] = ps[k + 1]
  BY <1>1
<1> HIDE DEF qs, m
<1>3. ASSUME NEW i  PROVE  i \in Unsorted(qs) <=> \E k \in 2 .. m : i \in ps[k][1] .. ps[k][2]
  <2>1. ASSUME NEW k \in 1 .. m - 1, i \in qs[k][1] .. qs[k][2]
        PROVE  \E l \in 2 .. m : i \in ps[l][1] .. ps[l][2]
    <3>1. k + 1 \in 2 .. m /\ qs[k] = ps[k + 1]
      BY <1>1, <1>2
    <3> QED  BY <2>1, <3>1
  <2>2. ASSUME NEW l \in 2 .. m, i \in ps[l][1] .. ps[l][2]
        PROVE  \E k \in 1 .. m - 1 : i \in qs[k][1] .. qs[k][2]
    <3>1. l - 1 \in 1 .. m - 1 /\ qs[l - 1] = ps[l]
      BY <1>1, <1>2
    <3> QED  BY <2>2, <3>1
  <2> QED  BY <1>2, <2>1, <2>2 DEF Unsorted
<1>4. ASSUME NEW i
      PROVE  i \in Unsorted(ps) <=> i \in ps[1][1] .. ps[1][2] \/ i \in Unsorted(qs)
  <2>1. \A k \in 1 .. m : k = 1 \/ k \in 2 .. m
    BY <1>1
  <2>2. 1 \in 1 .. m /\ \A k \in 2 .. m : k \in 1 .. m
    BY <1>1
  <2>3. i \in Unsorted(ps) <=> \E k \in 1 .. m : i \in ps[k][1] .. ps[k][2]
    BY DEF Unsorted, m
  <2> QED  BY <1>3, <2>1, <2>2, <2>3
<1>5. ASSUME NEW i \in ps[1][1] .. ps[1][2], i \in Unsorted(qs)  PROVE  FALSE
  <2>1. PICK k \in 2 .. m : i \in ps[k][1] .. ps[k][2]
    BY <1>3, <1>5
  <2>2. 1 \in 1 .. m /\ k \in 1 .. m /\ 1 < k
    BY <1>1
  <2> QED  BY <1>1, <2>1, <2>2
<1> QED  BY <1>1, <1>2, <1>4, <1>5 DEF qs, m

LEMMA InSides ==
  ASSUME NEW ps, NEW n \in Nat, WellParted(ps, n), ps # << >>, NEW p \in ps[1][1] .. ps[1][2]
  PROVE  /\ Unsorted(Sides(ps, p)) \subseteq Unsorted(ps)
         /\ p \in Unsorted(ps) /\ p \notin Unsorted(Sides(ps, p))
<1> DEFINE lo == ps[1][1]
           hi == ps[1][2]
           two == << <<lo, p - 1>>, <<p + 1, hi>> >>
           rest == Tail(ps)
           m == Len(ps)
<1>1. /\ m \in Nat /\ m > 0 /\ ps \in Seq(Bounds) /\ lo \in Int /\ hi \in Int /\ p \in Int
      /\ lo <= p /\ p <= hi
  BY PartFacts
<1>2. rest \in Seq(Bounds) /\ Len(rest) \in Nat /\ Len(rest) = m - 1
  BY <1>1
<1>3. two \in Seq(Bounds) /\ Len(two) = 2 /\ two[1] = <<lo, p - 1>> /\ two[2] = <<p + 1, hi>>
  BY <1>1 DEF Bounds
<1>4. /\ Sides(ps, p) = two \o rest
      /\ \A i : i \in Unsorted(ps) <=> i \in lo .. hi \/ i \in Unsorted(rest)
      /\ p \notin Unsorted(rest)
  BY FirstPart DEF Sides
<1> HIDE DEF lo, hi, rest, two, m
<1>5. /\ Len(two \o rest) = Len(rest) + 2
      /\ \A k \in 1 .. Len(rest) + 2 : (two \o rest)[k] = IF k <= 2 THEN two[k] ELSE rest[k - 2]
  <2>1. /\ Len(two \o rest) = Len(two) + Len(rest)
        /\ \A k \in 1 .. Len(two) + Len(rest) :
              (two \o rest)[k] = IF k <= Len(two) THEN two[k] ELSE rest[k - Len(two)]
    BY <1>2, <1>3, ConcatProperties
  <2>2. Len(two) + Len(rest) = Len(rest) + 2
    BY <1>2, <1>3
  <2>3. Len(two) = 2
    BY <1>3
  <2> QED  BY <2>1, <2>2, <2>3
<1>6. ASSUME NEW i, i \in Unsorted(Sides(ps, p))
      PROVE  i \in lo .. p - 1 \/ i \in p + 1 .. hi \/ i \in Unsorted(rest)
  <2> DEFINE qs == two \o rest
  <2>1. PICK k \in 1 .. Len(rest) + 2 : i \in qs[k][1] .. qs[k][2]
    BY <1>4, <1>5, <1>6 DEF Unsorted
  <2>2. CASE k <= 2
    <3>1. (k = 1 \/ k = 2) /\ qs[k] = two[k]
      BY <1>2, <1>5, <2>2
    <3> HIDE DEF qs
    <3> QED  BY <1>3, <2>1, <3>1
  <2>3. CASE ~(k <= 2)
    <3>1. k - 2 \in 1 .. Len(rest) /\ qs[k] = rest[k - 2]
      BY <1>2, <1>5, <2>3
    <3> HIDE DEF qs
    <3> QED  BY <2>1, <3>1 DEF Unsorted
  <2> QED  BY <2>2, <2>3
<1>7. ASSUME NEW i, i \in Unsorted(Sides(ps, p))  PROVE  i \in Unsorted(ps) /\ i # p
  <2>1. i \in lo .. hi \/ i \in Unsorted(rest)
    BY <1>1, <1>6, <1>7
  <2>2. i # p
    BY <1>1, <1>4, <1>6, <1>7
  <2> QED  BY <1>4, <2>1, <2>2
<1>8. p \in Unsorted(ps)
  BY <1>1, <1>4
<1> QED  BY <1>7, <1>8

\* A part is done with.
LEMMA DropAdvances ==
  ASSUME SortInv, parts # << >>, parts' = Tail(parts)
  PROVE  SortAdvances
<1>1. WellParted(parts, Len(arr)) /\ Len(arr) \in Nat
  BY InPart DEF SortInv, PartsInv
<1>2. Len(parts') < Len(parts) /\ Unsorted(parts') \subseteq Unsorted(parts)
  BY <1>1, FirstPart
<1> QED  BY <1>2 DEF SortAdvances

\* A pivot is at its place.
LEMMA SplitAdvances ==
  ASSUME NEW a, NEW p \in First .. End, SortInv, parts # << >>, Split(a, p)
  PROVE  SortAdvances
<1>1. First = parts[1][1] /\ End = parts[1][2] /\ Len(arr) \in Nat
  BY InPart
<1>2. parts' = Sides(parts, p) /\ p \in parts[1][1] .. parts[1][2] /\ WellParted(parts, Len(arr))
  BY <1>1 DEF Split, Sides, SortInv, PartsInv
<1>3. Unsorted(parts') \subseteq Unsorted(parts) /\ p \in Unsorted(parts) /\ p \notin Unsorted(parts')
  BY <1>1, <1>2, InSides
<1> QED  BY <1>3 DEF SortAdvances

LEMMA NextPartAdvances ==  SortInv /\ NextPart => SortAdvances
<1> SUFFICES ASSUME SortInv, NextPart  PROVE  SortAdvances
  OBVIOUS
<1>1. doing = "part" /\ parts # << >>
  BY DEF NextPart
<1>2. parts' = Tail(parts) \/ (parts' = parts /\ doing' \in Loops)
  BY DEF NextPart, Loops
<1>3. CASE parts' = Tail(parts)
  BY <1>1, <1>3, DropAdvances
<1>4. CASE parts' = parts /\ doing' \in Loops
  BY <1>1, <1>4 DEF SortAdvances, SortStage, Loops
<1> QED  BY <1>2, <1>3, <1>4

LEMMA BubbleAdvances ==  SortInv /\ Bubble => SortAdvances
<1> SUFFICES ASSUME SortInv, Bubble  PROVE  SortAdvances
  OBVIOUS
<1>1. doing = "bubble" /\ parts # << >> /\ low \in Int /\ top \in Int /\ low < top
  BY DEF Bubble, SortInv, PartsInv, LoopsInv, BubbleInv
<1> DEFINE Nearer == top' = top - 1 \/ (top' = top /\ low' = low + 1)
<1>2. parts' = Tail(parts) \/ (parts' = parts /\ doing' = doing /\ Nearer)
  BY DEF Bubble, Pass
<1>3. CASE parts' = Tail(parts)
  BY <1>1, <1>3, DropAdvances
<1>4. CASE parts' = parts /\ doing' = doing /\ Nearer
  <2>1. SortStage' = SortStage
    BY <1>1, <1>4 DEF SortStage
  <2>2. Width' < Width \/ (Width' = Width /\ Turns' < Turns)
    BY <1>1, <1>4 DEF Width, Turns
  <2>3. parts' = parts
    BY <1>4
  <2> QED  BY <2>1, <2>2, <2>3 DEF SortAdvances
<1> HIDE DEF Nearer
<1> QED  BY <1>2, <1>3, <1>4

LEMMA UpAdvances ==  SortInv /\ Up => SortAdvances
<1> SUFFICES ASSUME SortInv, Up  PROVE  SortAdvances
  OBVIOUS
<1>1. doing = "up" /\ parts' = parts /\ low \in Int /\ high \in Int /\ high' = high
  BY DEF Up, SortInv, LoopsInv
<1>2. (doing' = "down" /\ low' = low) \/ (doing' = doing /\ low' = low + 1)
  BY DEF Up
<1>3. SortStage' = SortStage
  BY <1>1, <1>2 DEF SortStage, Loops
<1>4. Width' < Width \/ (Width' = Width /\ Turns' < Turns)
  BY <1>1, <1>2 DEF Width, Turns
<1> QED  BY <1>1, <1>3, <1>4 DEF SortAdvances

LEMMA DownAdvances ==  SortInv /\ Down => SortAdvances
<1> SUFFICES ASSUME SortInv, Down  PROVE  SortAdvances
  OBVIOUS
<1>1. doing = "down"
  BY DEF Down
<1>2. /\ parts # << >> /\ low \in Int /\ high \in Int
      /\ First < low /\ low <= high /\ high <= End /\ First \in Int /\ End \in Int
  BY <1>1, Parting
<1>3. \/ /\ parts' = parts
         /\ \/ doing' = "last" /\ low' = low /\ high' = high
            \/ doing' = doing /\ low' = low /\ high' = high - 1
            \/ doing' = "up" /\ low' = low + 1 /\ high' = high - 1
      \/ Split(arr, low - 1)
      \/ high' = high - 1 /\ low' = low + 1 /\ low' > high' /\ low < high /\ Split(Swapped(arr, low, high), high')
  BY <1>1, <1>2 DEF Down
<1>4. CASE Split(arr, low - 1)
  <2>1. low - 1 \in First .. End
    BY <1>2
  <2> QED  BY <1>2, <1>4, <2>1, SplitAdvances
<1>5. CASE high' = high - 1 /\ low < high /\ Split(Swapped(arr, low, high), high')
  <2>1. high - 1 \in First .. End
    BY <1>2, <1>5
  <2> QED  BY <1>2, <1>5, <2>1, SplitAdvances
<1>6. CASE /\ parts' = parts
           /\ \/ doing' = "last" /\ low' = low /\ high' = high
              \/ doing' = doing /\ low' = low /\ high' = high - 1
              \/ doing' = "up" /\ low' = low + 1 /\ high' = high - 1
  <2>1. SortStage' = SortStage
    BY <1>1, <1>6 DEF SortStage, Loops
  <2>2. Width' < Width \/ (Width' = Width /\ Turns' < Turns)
    BY <1>1, <1>2, <1>6 DEF Width, Turns
  <2> QED  BY <1>6, <2>1, <2>2 DEF SortAdvances
<1> QED  BY <1>3, <1>4, <1>5, <1>6

LEMMA LastLookAdvances ==  SortInv /\ LastLook => SortAdvances
<1> SUFFICES ASSUME SortInv, LastLook  PROVE  SortAdvances
  OBVIOUS
<1>1. doing = "last"
  BY DEF LastLook
<1>2. /\ parts # << >> /\ low \in Int /\ high \in Int
      /\ First < low /\ low <= high /\ high <= End /\ First \in Int /\ End \in Int
  BY <1>1, Parting
<1>3. PICK c \in Compared(arr[high], pivot) : Split(arr, IF c > 0 THEN high - 1 ELSE high)
  BY DEF LastLook
<1>4. (IF c > 0 THEN high - 1 ELSE high) \in First .. End
  BY <1>2
<1> QED  BY <1>2, <1>3, <1>4, SplitAdvances

LEMMA EndsAdvance ==  SortInv /\ (Sorted \/ SortReturns \/ CompareRaises) => SortAdvances
<1>1. ASSUME Sorted \/ CompareRaises  PROVE  SortAdvances
  BY <1>1 DEF Sorted, CompareRaises, SortAdvances, SortStage, Loops
<1>2. ASSUME SortInv, SortReturns  PROVE  SortAdvances
  <2>1. parts' = << >> /\ doing' = "idle" /\ SortStage = 1
    BY <1>2 DEF SortReturns, SortStage, Loops
  <2>2. parts \in Seq(Bounds) /\ Unsorted(parts') = {}
    BY <1>2, <2>1 DEF SortInv, PartsInv, WellParted, Unsorted
  <2>3. CASE parts = << >>
    <3>1. SortStage' = 0
      BY <2>1 DEF SortStage, Loops
    <3> QED  BY <2>1, <2>2, <2>3, <3>1 DEF SortAdvances
  <2>4. CASE parts # << >>
    BY <2>1, <2>2, <2>4 DEF SortAdvances
  <2> QED  BY <2>3, <2>4
<1> QED  BY <1>1, <1>2

LEMMA SortMeasures ==  SortInv => SortMeasured
<1> SUFFICES ASSUME SortInv  PROVE  SortMeasured
  OBVIOUS
<1>1. Unsorted(parts) \subseteq 1 .. Len(arr)
  <2>1. /\ arr \in Seq(SortElems) /\ WellParted(parts, Len(arr)) /\ Len(arr) \in Nat
    BY DEF SortInv, ArrayInv, PartsInv
  <2>2. \A k \in 1 .. Len(parts) : parts[k] \in Bounds /\ 1 <= parts[k][1] /\ parts[k][2] <= Len(arr)
    BY <2>1 DEF WellParted
  <2>3. \A k \in 1 .. Len(parts) : parts[k][1] .. parts[k][2] \subseteq 1 .. Len(arr)
    BY <2>1, <2>2 DEF Bounds
  <2> QED  BY <2>3 DEF Unsorted
<1>2. CASE doing = "bubble"
  <2>1. low \in Int /\ top \in Int /\ First <= low /\ low < top /\ parts # << >>
    BY <1>2 DEF SortInv, PartsInv, LoopsInv, BubbleInv
  <2>2. First \in Int /\ 1 <= First
    BY <2>1, InPart
  <2>3. top \in Nat /\ top - low \in Nat
    BY <2>1, <2>2
  <2> QED  BY <1>1, <1>2, <2>3 DEF SortMeasured, Width, Turns
<1>3. CASE doing \in {"up", "down", "last"}
  <2>1. high - low \in Nat
    BY <1>3, Parting
  <2> QED  BY <1>1, <1>3, <2>1 DEF SortMeasured, Width, Turns
<1>4. CASE doing \notin Loops
  BY <1>1, <1>4 DEF SortMeasured
<1> QED  BY <1>2, <1>3, <1>4 DEF Loops

\* Of arrays of any size, and of comparisons that contradict themselves too: every step
\* of a sort leaves fewer elements to be sorted, or fewer parts, or brings the loops
\* of arr_qsort and arr_bsort nearer to their end.  So none can go on for ever.
THEOREM SortGoesOn ==
    SortSpec => []SortMeasured /\ [][CallSort \/ SortAdvances]_svars
<1>1. SortInv /\ SortNext => CallSort \/ SortAdvances
  BY NextPartAdvances, BubbleAdvances, UpAdvances, DownAdvances, LastLookAdvances, EndsAdvance
     DEF SortNext, SortStep
<1> QED  BY <1>1, SortInvariance, SortMeasures, PTL DEF SortSpec

=============================================================================
