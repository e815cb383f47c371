---------------------------- MODULE TablesProofs ----------------------------
(***************************************************************************)
(* Proofs about HashDict and SetIter.  First what a list operation does to *)
(* the bucket lists (Lists); then what a search may rely on while user     *)
(* code runs inside it (TableInv), and from it the iterator's guarantees   *)
(* (IterOK, SetIterOK) and the refinement of KVMap (SearchInv).            *)
(***************************************************************************)
EXTENDS SetIter, FiniteSetTheorems, SequenceTheorems, TLAPS

Entries == [key : Keys, val : Vals \cup {NoVal}]

InUse(en) == {c \in Cells : en[c] # Free}

\* The bucket lists and the cells: no cell is in two places, the cells listed
\* are those in use, each in the bucket of its key.
Lists(ch, en) ==
    /\ ch \in [Buckets -> Seq(Cells)]
    /\ en \in [Cells -> Entries \cup {Free}]
    /\ \A a, b \in Buckets : \A i \in 1 .. Len(ch[a]), j \in 1 .. Len(ch[b]) :
           ch[a][i] = ch[b][j] => a = b /\ i = j
    /\ \A b \in Buckets : \A i \in 1 .. Len(ch[b]) :
           en[ch[b][i]] # Free /\ BucketOf(en[ch[b][i]].key) = b
    /\ \A c \in InUse(en) : \E i \in 1 .. Len(ch[BucketOf(en[c].key)]) :
           ch[BucketOf(en[c].key)][i] = c

\* What cons, the removal of a cell and the filling of a cell make of the lists.
WithHead(ch, b, c) == [ch EXCEPT ![b] = <<c>> \o @]

Without(ch, b, k) == [ch EXCEPT ![b] = RemoveAt(@, k)]

WithEntry(en, c, e) == [en EXCEPT ![c] = e]

TableOK(ch, en, n) ==
    Lists(ch, en) /\ IsFiniteSet(InUse(en)) /\ n = Cardinality(InUse(en))

-----------------------------------------------------------------------------
(* Keys and buckets.                                                       *)

LEMMA BucketOK ==
  ASSUME NEW k \in Keys
  PROVE  BucketOf(k) \in Buckets
<1>1. HashOf(k) \in Nat /\ Size \in Nat \ {0}
  BY HashDictAssumption
<1> DEFINE h == HashOf(k)
<1> HIDE DEF h
<1>2. h % Size \in 0 .. Size - 1
  BY <1>1 DEF h
<1> QED  BY <1>2 DEF BucketOf, Buckets, h

LEMMA PairFacts ==
  /\ \A k \in Keys : \A v \in Vals \cup {NoVal} :
         Pair(k, v) \in Entries /\ Pair(k, v) # Free /\ Pair(k, v).key = k /\ Pair(k, v).val = v
  /\ \A e \in Entries : e.key \in Keys /\ e # Free
BY HashDictAssumption DEF Pair, Entries, Free

\* What is taken out of a sequence, and what is left in order.
LEMMA RemovedOK ==
  ASSUME NEW S, NEW s \in Seq(S), NEW n \in 1 .. Len(s)
  PROVE  /\ RemoveAt(s, n) \in Seq(S) /\ Len(RemoveAt(s, n)) = Len(s) - 1
         /\ \A i \in 1 .. Len(s) - 1 :
                RemoveAt(s, n)[i] = IF i < n THEN s[i] ELSE s[i + 1]
<1> DEFINE u == SubSeq(s, 1, n - 1)
           w == SubSeq(s, n + 1, Len(s))
<1>1. /\ u \in Seq(S) /\ Len(u) = n - 1
      /\ \A i \in 1 .. n - 1 : u[i] = s[i]
  BY SubSeqProperties
<1>2. /\ w \in Seq(S) /\ Len(w) = Len(s) - n
      /\ \A i \in 1 .. Len(s) - n : w[i] = s[n + i]
  <2>1. CASE n = Len(s)
    BY <2>1, EmptySeq
  <2>2. CASE n # Len(s)
    <3>1. n + 1 \in 1 .. Len(s)  BY <2>2
    <3> QED  BY <3>1, SubSeqProperties
  <2> QED  BY <2>1, <2>2
<1>3. RemoveAt(s, n) = u \o w
  BY DEF RemoveAt
<1> HIDE DEF u, w
<1>4. /\ u \o w \in Seq(S) /\ Len(u \o w) = Len(u) + Len(w)
      /\ \A i \in 1 .. Len(u) + Len(w) : (u \o w)[i] = IF i <= Len(u) THEN u[i] ELSE w[i - Len(u)]
  BY <1>1, <1>2, ConcatProperties
<1>5. ASSUME NEW i \in 1 .. Len(s) - 1
      PROVE  RemoveAt(s, n)[i] = IF i < n THEN s[i] ELSE s[i + 1]
  <2>1. CASE i < n
    BY <2>1, <1>1, <1>2, <1>3, <1>4
  <2>2. CASE i >= n
    <3>1. i - Len(u) \in 1 .. Len(s) - n /\ n + (i - Len(u)) = i + 1  BY <2>2, <1>1
    <3>2. w[i - Len(u)] = s[i + 1]  BY <3>1, <1>2
    <3> QED  BY <2>2, <3>2, <1>1, <1>2, <1>3, <1>4
  <2> QED  BY <2>1, <2>2
<1> QED  BY <1>1, <1>2, <1>3, <1>4, <1>5

LEMMA ConsedOK ==
  ASSUME NEW S, NEW s \in Seq(S), NEW c \in S
  PROVE  /\ <<c>> \o s \in Seq(S) /\ Len(<<c>> \o s) = Len(s) + 1
         /\ \A i \in 1 .. Len(s) + 1 :
                (<<c>> \o s)[i] = IF i = 1 THEN c ELSE s[i - 1]
OBVIOUS

-----------------------------------------------------------------------------
(* What cons and the removal of a cell do to the lists.                    *)

\* A cell has one place.
LEMMA OnePlace ==
  ASSUME NEW ch, NEW en, Lists(ch, en), NEW a \in Buckets, NEW b \in Buckets,
         NEW i \in 1 .. Len(ch[a]), NEW j \in 1 .. Len(ch[b]), ch[a][i] = ch[b][j]
  PROVE  a = b /\ i = j
BY DEF Lists

\* A free cell goes to the head of its bucket.
LEMMA ConsKeeps ==
  ASSUME NEW ch, NEW en, NEW n, TableOK(ch, en, n),
         NEW c \in Cells, en[c] = Free, NEW e \in Entries,
         NEW b \in Buckets, b = BucketOf(e.key)
  PROVE  LET ch2 == WithHead(ch, b, c)
             en2 == WithEntry(en, c, e)
         IN  /\ TableOK(ch2, en2, n + 1)
             /\ InUse(en2) = InUse(en) \cup {c} /\ c \notin InUse(en)
             /\ Len(ch2[b]) = Len(ch[b]) + 1
             /\ \A i \in 1 .. Len(ch2[b]) : ch2[b][i] = IF i = 1 THEN c ELSE ch[b][i - 1]
             /\ \A a \in Buckets : a # b => ch2[a] = ch[a]
             /\ en2[c] = e /\ \A d \in Cells : d # c => en2[d] = en[d]
<1> DEFINE ch2 == WithHead(ch, b, c)
           en2 == WithEntry(en, c, e)
           s2 == <<c>> \o ch[b]
<1>1. /\ ch \in [Buckets -> Seq(Cells)] /\ en \in [Cells -> Entries \cup {Free}]
      /\ \A a \in Buckets : Len(ch[a]) \in Nat
  BY DEF TableOK, Lists
<1>2. /\ s2 \in Seq(Cells) /\ Len(s2) = Len(ch[b]) + 1
      /\ \A i \in 1 .. Len(ch[b]) + 1 : s2[i] = IF i = 1 THEN c ELSE ch[b][i - 1]
  BY <1>1, ConsedOK
<1>3. ch2 = [ch EXCEPT ![b] = s2]
  BY DEF WithHead
<1> HIDE DEF s2
<1>4. /\ ch2 \in [Buckets -> Seq(Cells)] /\ ch2[b] = s2
      /\ \A a \in Buckets : a # b => ch2[a] = ch[a]
  BY <1>1, <1>2, <1>3
<1>5. /\ en2 \in [Cells -> Entries \cup {Free}] /\ en2[c] = e /\ e # Free /\ e.key \in Keys
      /\ \A d \in Cells : d # c => en2[d] = en[d]
  BY <1>1, PairFacts DEF WithEntry
<1>6. InUse(en2) = InUse(en) \cup {c} /\ c \notin InUse(en)
  BY <1>1, <1>5 DEF InUse
<1>7. n + 1 = Cardinality(InUse(en2)) /\ IsFiniteSet(InUse(en2))
  BY <1>6, FS_AddElement DEF TableOK
<1>8. ASSUME NEW a \in Buckets, NEW i \in 1 .. Len(ch[a])
      PROVE  ch[a][i] \in Cells /\ ch[a][i] # c /\ en2[ch[a][i]] = en[ch[a][i]]
  <2>1. ch[a][i] \in Cells  BY <1>1
  <2>2. en[ch[a][i]] # Free  BY DEF TableOK, Lists
  <2> QED  BY <2>1, <2>2, <1>5
<1> HIDE DEF ch2, en2
<1> DEFINE old(a, i) == IF a = b THEN i - 1 ELSE i
<1>9. ASSUME NEW a \in Buckets, NEW i \in 1 .. Len(ch2[a])
      PROVE  \/ a = b /\ i = 1 /\ ch2[a][i] = c
             \/ old(a, i) \in 1 .. Len(ch[a]) /\ ch2[a][i] = ch[a][old(a, i)]
  <2>1. CASE a # b
    BY <2>1, <1>4
  <2>2. CASE a = b /\ i = 1
    <3>1. 1 \in 1 .. Len(ch[b]) + 1  BY <1>1
    <3> QED  BY <2>2, <3>1, <1>2, <1>4
  <2>3. CASE a = b /\ i # 1
    <3>1. i \in 1 .. Len(ch[b]) + 1  BY <2>3, <1>2, <1>4
    <3>2. i - 1 \in 1 .. Len(ch[b])  BY <2>3, <3>1, <1>1
    <3> QED  BY <2>3, <3>1, <3>2, <1>2, <1>4
  <2> QED  BY <2>1, <2>2, <2>3
<1>10. ASSUME NEW a1 \in Buckets, NEW a2 \in Buckets, NEW i \in 1 .. Len(ch2[a1]),
              NEW j \in 1 .. Len(ch2[a2]), ch2[a1][i] = ch2[a2][j]
       PROVE  a1 = a2 /\ i = j
  <2>1. i \in Int /\ j \in Int  OBVIOUS
  <2> DEFINE x == old(a1, i)
             y == old(a2, j)
  <2>2. CASE x \in 1 .. Len(ch[a1]) /\ ch2[a1][i] = ch[a1][x]
    <3>1. ch2[a1][i] # c  BY <2>2, <1>8
    <3>2. y \in 1 .. Len(ch[a2]) /\ ch2[a2][j] = ch[a2][y]  BY <3>1, <1>9, <1>10
    <3>3. a1 = a2 /\ x = y
      <4>1. Lists(ch, en)  BY DEF TableOK
      <4>2. ch[a1][x] = ch[a2][y]  BY <2>2, <3>2, <1>10
      <4> HIDE DEF x, y
      <4> QED  BY <4>1, <4>2, <2>2, <3>2, OnePlace
    <3> QED  BY <3>3, <2>1
  <2>3. CASE a1 = b /\ i = 1 /\ ch2[a1][i] = c
    <3>1. ch2[a2][j] = c  BY <2>3, <1>10
    <3>2. ~(y \in 1 .. Len(ch[a2]) /\ ch2[a2][j] = ch[a2][y])  BY <3>1, <1>8
    <3> QED  BY <2>3, <3>2, <1>9
  <2> QED  BY <2>2, <2>3, <1>9
<1> HIDE DEF old
<1>11. ASSUME NEW a \in Buckets, NEW i \in 1 .. Len(ch2[a])
       PROVE  en2[ch2[a][i]] # Free /\ BucketOf(en2[ch2[a][i]].key) = a
  <2>1. \A x \in Buckets : \A k \in 1 .. Len(ch[x]) :
            en2[ch[x][k]] # Free /\ BucketOf(en2[ch[x][k]].key) = x
    BY <1>8 DEF TableOK, Lists
  <2>2. CASE a = b /\ i = 1 /\ ch2[a][i] = c
    BY <2>2, <1>5
  <2>3. CASE old(a, i) \in 1 .. Len(ch[a]) /\ ch2[a][i] = ch[a][old(a, i)]
    BY <2>1, <2>3
  <2> QED  BY <2>2, <2>3, <1>9
<1>12. ASSUME NEW d \in InUse(en2)
       PROVE  \E i \in 1 .. Len(ch2[BucketOf(en2[d].key)]) : ch2[BucketOf(en2[d].key)][i] = d
  <2>1. CASE d = c
    <3>1. 1 \in 1 .. Len(ch2[b]) /\ ch2[b][1] = c  BY <1>1, <1>2, <1>4
    <3> QED  BY <2>1, <3>1, <1>5
  <2>2. CASE d # c
    <3>1. d \in InUse(en) /\ en2[d] = en[d]  BY <2>2, <1>5, <1>6 DEF InUse
    <3>2. en[d] \in Entries  BY <3>1, <1>1 DEF InUse
    <3> DEFINE a == BucketOf(en[d].key)
    <3>3. a \in Buckets  BY <3>2, PairFacts, BucketOK
    <3>4. PICK i \in 1 .. Len(ch[a]) : ch[a][i] = d
      BY <3>1 DEF TableOK, Lists
    <3>5. CASE a # b
      BY <3>1, <3>3, <3>4, <3>5, <1>4
    <3>6. CASE a = b
      <4>1. i + 1 \in 1 .. Len(ch[b]) + 1 /\ i + 1 # 1 /\ (i + 1) - 1 = i
        BY <3>6, <1>1
      <4>2. ch2[b][i + 1] = d /\ i + 1 \in 1 .. Len(ch2[b])
        BY <4>1, <3>4, <3>6, <1>2, <1>4
      <4> QED  BY <4>2, <3>1, <3>6
    <3> QED  BY <3>5, <3>6
  <2> QED  BY <2>1, <2>2
<1>13. Lists(ch2, en2)
  BY <1>4, <1>5, <1>10, <1>11, <1>12 DEF Lists
<1> QED  BY <1>2, <1>4, <1>5, <1>6, <1>7, <1>13 DEF TableOK, ch2, en2

\* The cell at a place of a bucket list goes.
LEMMA UnlinkKeeps ==
  ASSUME NEW ch, NEW en, NEW n \in Nat, TableOK(ch, en, n),
         NEW b \in Buckets, NEW k \in 1 .. Len(ch[b])
  PROVE  LET c   == ch[b][k]
             ch2 == Without(ch, b, k)
             en2 == WithEntry(en, c, Free)
         IN  /\ TableOK(ch2, en2, n - 1) /\ n - 1 \in Nat
             /\ InUse(en2) = InUse(en) \ {c} /\ c \in InUse(en)
             /\ en2[c] = Free /\ \A d \in Cells : d # c => en2[d] = en[d]
<1> DEFINE c   == ch[b][k]
           ch2 == Without(ch, b, k)
           en2 == WithEntry(en, c, Free)
           s2  == RemoveAt(ch[b], k)
<1>1. /\ ch \in [Buckets -> Seq(Cells)] /\ en \in [Cells -> Entries \cup {Free}]
      /\ \A a \in Buckets : Len(ch[a]) \in Nat
  BY DEF TableOK, Lists
<1>2. /\ s2 \in Seq(Cells) /\ Len(s2) = Len(ch[b]) - 1
      /\ \A i \in 1 .. Len(ch[b]) - 1 : s2[i] = IF i < k THEN ch[b][i] ELSE ch[b][i + 1]
  BY <1>1, RemovedOK
<1>3. ch2 = [ch EXCEPT ![b] = s2]
  BY DEF Without
<1> HIDE DEF s2
<1>4. /\ ch2 \in [Buckets -> Seq(Cells)] /\ ch2[b] = s2
      /\ \A a \in Buckets : a # b => ch2[a] = ch[a]
  BY <1>1, <1>2, <1>3
<1>5. c \in Cells /\ c \in InUse(en)
  BY <1>1 DEF TableOK, Lists, InUse
<1>6. /\ en2 \in [Cells -> Entries \cup {Free}] /\ en2[c] = Free
      /\ \A d \in Cells : d # c => en2[d] = en[d]
  BY <1>1, <1>5 DEF WithEntry
<1>7. InUse(en2) = InUse(en) \ {c}
  BY <1>1, <1>5, <1>6 DEF InUse
<1>8. /\ n - 1 = Cardinality(InUse(en2)) /\ IsFiniteSet(InUse(en2))
      /\ n - 1 \in Nat
  <2>1. IsFiniteSet(InUse(en)) /\ n = Cardinality(InUse(en))  BY DEF TableOK
  <2>2. IsFiniteSet(InUse(en2)) /\ Cardinality(InUse(en2)) = n - 1
    BY <2>1, <1>5, <1>7, FS_RemoveElement
  <2> QED  BY <2>2, FS_CardinalityType
<1>9. \A x, y \in Buckets : \A i \in 1 .. Len(ch[x]), j \in 1 .. Len(ch[y]) :
          ch[x][i] = ch[y][j] => x = y /\ i = j
  BY DEF TableOK, Lists
<1> DEFINE old(a, i) == IF a = b /\ i >= k THEN i + 1 ELSE i
<1> HIDE DEF ch2, en2, c
<1>10. ASSUME NEW a \in Buckets, NEW i \in 1 .. Len(ch2[a])
       PROVE  /\ old(a, i) \in 1 .. Len(ch[a]) /\ ch2[a][i] = ch[a][old(a, i)]
              /\ ~(a = b /\ old(a, i) = k)
  <2>1. CASE a # b
    BY <2>1, <1>4
  <2>2. CASE a = b
    <3>1. i \in 1 .. Len(ch[b]) - 1  BY <2>2, <1>2, <1>4
    <3> QED  BY <2>2, <3>1, <1>1, <1>2, <1>4
  <2> QED  BY <2>1, <2>2
<1>11. ASSUME NEW a1 \in Buckets, NEW a2 \in Buckets, NEW i \in 1 .. Len(ch2[a1]),
              NEW j \in 1 .. Len(ch2[a2]), ch2[a1][i] = ch2[a2][j]
       PROVE  a1 = a2 /\ i = j
  <2>1. a1 = a2 /\ old(a1, i) = old(a2, j)
    <3>1. Lists(ch, en)  BY DEF TableOK
    <3> DEFINE x == old(a1, i)
               y == old(a2, j)
    <3>2. /\ x \in 1 .. Len(ch[a1]) /\ y \in 1 .. Len(ch[a2])
          /\ ch[a1][x] = ch2[a1][i] /\ ch[a2][y] = ch2[a2][j]
      BY <1>10
    <3> HIDE DEF x, y
    <3>3. a1 = a2 /\ x = y  BY <3>1, <3>2, <1>11, OnePlace
    <3> QED  BY <3>3 DEF x, y
  <2>2. i \in Int /\ j \in Int /\ k \in Int  OBVIOUS
  <2> QED  BY <2>1, <2>2
<1> HIDE DEF old
<1>12. ASSUME NEW a \in Buckets, NEW i \in 1 .. Len(ch2[a])
       PROVE  en2[ch2[a][i]] # Free /\ BucketOf(en2[ch2[a][i]].key) = a
  <2> DEFINE d == ch[a][old(a, i)]
  <2>1. d = ch2[a][i] /\ d \in Cells
    BY <1>1, <1>10
  <2>2. d # c
    BY <1>9, <1>10 DEF c
  <2>3. en[d] # Free /\ BucketOf(en[d].key) = a
    BY <1>10 DEF TableOK, Lists
  <2> QED  BY <2>1, <2>2, <2>3, <1>6
<1>13. ASSUME NEW d \in InUse(en2)
       PROVE  \E i \in 1 .. Len(ch2[BucketOf(en2[d].key)]) : ch2[BucketOf(en2[d].key)][i] = d
  <2>1. d \in InUse(en) /\ d # c /\ en2[d] = en[d]
    BY <1>6, <1>7 DEF InUse
  <2>2. en[d] \in Entries  BY <2>1, <1>1 DEF InUse
  <2> DEFINE a == BucketOf(en[d].key)
  <2>3. a \in Buckets  BY <2>2, PairFacts, BucketOK
  <2>4. PICK i \in 1 .. Len(ch[a]) : ch[a][i] = d
    BY <2>1 DEF TableOK, Lists
  <2>5. CASE a # b
    BY <2>1, <2>3, <2>4, <2>5, <1>4
  <2>6. CASE a = b /\ i < k
    <3>1. i \in 1 .. Len(ch[b]) - 1  BY <2>6, <1>1
    <3>2. ch2[b][i] = d /\ i \in 1 .. Len(ch2[b])  BY <3>1, <2>4, <2>6, <1>2, <1>4
    <3> QED  BY <3>2, <2>1, <2>6
  <2>7. CASE a = b /\ i >= k
    <3>1. i # k  BY <2>1, <2>4, <2>7 DEF c
    <3>2. i - 1 \in 1 .. Len(ch[b]) - 1 /\ i - 1 >= k /\ (i - 1) + 1 = i
      BY <3>1, <2>7, <1>1
    <3>3. ch2[b][i - 1] = d /\ i - 1 \in 1 .. Len(ch2[b])
      BY <3>2, <2>4, <2>7, <1>2, <1>4
    <3> QED  BY <3>3, <2>1, <2>7
  <2>8. i \in Int /\ k \in Int  OBVIOUS
  <2> QED  BY <2>5, <2>6, <2>7, <2>8
<1>14. Lists(ch2, en2)
  BY <1>4, <1>6, <1>11, <1>12, <1>13 DEF Lists
<1> QED  BY <1>5, <1>6, <1>7, <1>8, <1>14 DEF TableOK, ch2, en2, c

-----------------------------------------------------------------------------
(* The sequence of the operations in progress.                             *)

LEMMA PushedOK ==
  ASSUME NEW S, NEW s \in Seq(S), NEW c \in S
  PROVE  /\ Append(s, c) \in Seq(S) /\ Len(Append(s, c)) = Len(s) + 1
         /\ Append(s, c) # << >> /\ Last(Append(s, c)) = c
         /\ \A i \in 1 .. Len(s) : Append(s, c)[i] = s[i]
         /\ ToSet(Append(s, c)) = ToSet(s) \cup {c}
<1> DEFINE t == Append(s, c)
<1>1. /\ t \in Seq(S) /\ Len(t) = Len(s) + 1 /\ t[Len(s) + 1] = c /\ Len(s) \in Nat
      /\ \A i \in 1 .. Len(s) : t[i] = s[i]
  OBVIOUS
<1> HIDE DEF t
<1>2. DOMAIN t = 1 .. Len(s) + 1 /\ DOMAIN s = 1 .. Len(s)
  BY <1>1
<1>3. ToSet(t) = ToSet(s) \cup {c}
  <2>1. ASSUME NEW x \in ToSet(t)  PROVE x \in ToSet(s) \cup {c}
    BY <2>1, <1>1, <1>2 DEF ToSet
  <2>2. ASSUME NEW x \in ToSet(s) \cup {c}  PROVE x \in ToSet(t)
    <3>1. CASE x = c
      <4>1. Len(s) + 1 \in DOMAIN t  BY <1>1, <1>2
      <4> QED  BY <4>1, <3>1, <1>1 DEF ToSet
    <3>2. CASE x \in ToSet(s)
      <4>1. PICK i \in 1 .. Len(s) : s[i] = x  BY <3>2, <1>2 DEF ToSet
      <4>2. i \in DOMAIN t /\ t[i] = x  BY <4>1, <1>1, <1>2
      <4> QED  BY <4>2 DEF ToSet
    <3> QED  BY <3>1, <3>2
  <2> QED  BY <2>1, <2>2
<1>4. t # << >> /\ Last(t) = c
  BY <1>1 DEF Last
<1> QED  BY <1>1, <1>3, <1>4 DEF t

LEMMA PoppedOK ==
  ASSUME NEW S, NEW s \in Seq(S), s # << >>
  PROVE  /\ Front(s) \in Seq(S) /\ Len(Front(s)) = Len(s) - 1 /\ Len(s) \in Nat \ {0}
         /\ \A i \in 1 .. Len(s) - 1 : Front(s)[i] = s[i]
         /\ Last(s) \in S /\ Last(s) \in ToSet(s) /\ ToSet(Front(s)) \subseteq ToSet(s)
         /\ Len(s) = 1 => Front(s) = << >> /\ ToSet(Front(s)) = {}
<1>1. Len(s) \in Nat \ {0} /\ DOMAIN s = 1 .. Len(s)
  OBVIOUS
<1>2. \A i \in 1 .. Len(s) - 1 : s[i] \in S
  BY <1>1
<1>3. /\ Front(s) \in Seq(S) /\ Len(Front(s)) = Len(s) - 1
      /\ \A i \in 1 .. Len(s) - 1 : Front(s)[i] = s[i]
  BY <1>1, <1>2, SubSeqProperties DEF Front
<1>4. Last(s) \in S /\ Last(s) \in ToSet(s)
  BY <1>1 DEF Last, ToSet
<1>5. ToSet(Front(s)) \subseteq ToSet(s)
  <2>1. DOMAIN Front(s) = 1 .. Len(s) - 1  BY <1>3
  <2> QED  BY <2>1, <1>1, <1>3 DEF ToSet
<1>6. ASSUME Len(s) = 1  PROVE Front(s) = << >> /\ ToSet(Front(s)) = {}
  <2>1. Len(Front(s)) = 0  BY <1>3, <1>6
  <2>2. Front(s) = << >>  BY <2>1, <1>3, EmptySeq
  <2> QED  BY <2>2 DEF ToSet
<1> QED  BY <1>1, <1>3, <1>4, <1>5, <1>6

WithTop(s, c) == [s EXCEPT ![Len(s)] = c]

LEMMA TopSetOK ==
  ASSUME NEW S, NEW s \in Seq(S), s # << >>, NEW c \in S
  PROVE  LET t == WithTop(s, c)
         IN  /\ t \in Seq(S) /\ Len(t) = Len(s) /\ t # << >> /\ Last(t) = c
             /\ ToSet(t) \subseteq ToSet(s) \cup {c}
<1> DEFINE t == WithTop(s, c)
<1>1. Len(s) \in Nat \ {0} /\ DOMAIN s = 1 .. Len(s)
  OBVIOUS
<1>2. /\ t \in Seq(S) /\ Len(t) = Len(s) /\ t[Len(s)] = c
      /\ \A i \in 1 .. Len(s) : t[i] = IF i = Len(s) THEN c ELSE s[i]
  <2>1. Len(s) \in 1 .. Len(s)
    BY <1>1
  <2>2. t \in Seq(S) /\ Len(t) = Len(s)
    BY <1>1, ExceptSeq DEF WithTop
  <2> QED  BY <1>1, <2>1, <2>2 DEF WithTop
<1> HIDE DEF t
<1>3. DOMAIN t = 1 .. Len(s)
  BY <1>2
<1>4. ToSet(t) \subseteq ToSet(s) \cup {c}
  BY <1>1, <1>2, <1>3 DEF ToSet
<1>5. t # << >> /\ Last(t) = c
  BY <1>1, <1>2 DEF Last
<1> QED  BY <1>2, <1>4, <1>5 DEF t

-----------------------------------------------------------------------------
(* Pointers into the lists.                                                *)

\* p is the bucket b or a cell in its list.
PtrOK(p, b) == p = b \/ (p \in Held /\ BucketOf(entry[p].key) = b)

\* Home and IndexIn, of given lists.
HomeIn(ch, c) == CHOOSE b \in Buckets : c \in ToSet(ch[b])

PlaceIn(ch, b, c) == CHOOSE i \in 1 .. Len(ch[b]) : ch[b][i] = c

LEMMA HomeIs ==
  ASSUME NEW ch, NEW en, Lists(ch, en), NEW b \in Buckets, NEW i \in 1 .. Len(ch[b])
  PROVE  HomeIn(ch, ch[b][i]) = b /\ PlaceIn(ch, b, ch[b][i]) = i
<1> DEFINE c == ch[b][i]
<1>1. \A a \in Buckets : ch[a] \in Seq(Cells) /\ DOMAIN ch[a] = 1 .. Len(ch[a])
  BY DEF Lists
<1>2. c \in ToSet(ch[b])
  BY <1>1 DEF ToSet
<1>3. ASSUME NEW a \in Buckets, c \in ToSet(ch[a])  PROVE a = b
  <2>1. PICK j \in 1 .. Len(ch[a]) : ch[a][j] = ch[b][i]
    BY <1>1, <1>3 DEF ToSet
  <2> QED  BY <2>1, OnePlace
<1>4. \A j \in 1 .. Len(ch[b]) : ch[b][j] = c => j = i
  BY OnePlace
<1> HIDE DEF c
<1>5. HomeIn(ch, c) = b
  BY <1>2, <1>3 DEF HomeIn
<1>6. PlaceIn(ch, b, c) = i
  <2>1. ch[b][i] = c  BY DEF c
  <2> QED  BY <2>1, <1>4 DEF PlaceIn
<1> QED  BY <1>5, <1>6 DEF c

\* A cell in use has its place in the bucket of its key.
LEMMA PlaceOfCell ==
  ASSUME NEW ch, NEW en, Lists(ch, en), NEW c \in InUse(en)
  PROVE  LET b == BucketOf(en[c].key)
         IN  /\ b \in Buckets /\ HomeIn(ch, c) = b
             /\ PlaceIn(ch, b, c) \in 1 .. Len(ch[b]) /\ ch[b][PlaceIn(ch, b, c)] = c
<1> DEFINE b == BucketOf(en[c].key)
<1>1. en[c] \in Entries
  BY DEF Lists, InUse
<1>2. b \in Buckets
  BY <1>1, PairFacts, BucketOK
<1>3. PICK i \in 1 .. Len(ch[b]) : ch[b][i] = c
  BY DEF Lists
<1> HIDE DEF b
<1>4. HomeIn(ch, c) = b /\ PlaceIn(ch, b, c) = i
  BY <1>2, <1>3, HomeIs
<1> QED  BY <1>2, <1>3, <1>4 DEF b

LEMMA BucketsAreNotCells ==  Buckets \cap Cells = {} /\ Held = InUse(entry) /\ Nil \notin Cells
BY HashDictAssumption DEF Buckets, Held, InUse

\* What a pointer names and what it points at.
LEMMA PtrFacts ==
  ASSUME Lists(chain, entry), NEW b \in Buckets, NEW p, PtrOK(p, b)
  PROVE  /\ ListOf(p) = b /\ ~Stale(p)
         /\ Place(p) \in 0 .. Len(chain[b])
         /\ p \in Held => Place(p) \in 1 .. Len(chain[b]) /\ chain[b][Place(p)] = p
         /\ p \notin Held => p = b /\ Place(p) = 0
         /\ Place(p) = Len(chain[b]) => Deref(p) = Nil
         /\ Place(p) < Len(chain[b]) =>
                /\ Deref(p) = chain[b][Place(p) + 1] /\ Deref(p) \in Held /\ Deref(p) # Nil
                /\ PtrOK(Deref(p), b) /\ Place(Deref(p)) = Place(p) + 1
<1>1. chain[b] \in Seq(Cells) /\ Len(chain[b]) \in Nat
  BY DEF Lists
<1>2. ASSUME NEW i \in 1 .. Len(chain[b])
      PROVE  /\ chain[b][i] \in Held /\ PtrOK(chain[b][i], b) /\ chain[b][i] # Nil
             /\ chain[b][i] \notin Buckets
             /\ Place(chain[b][i]) = i /\ ListOf(chain[b][i]) = b
  <2>1. chain[b][i] \in Cells  BY <1>1
  <2>2. chain[b][i] \in Held /\ BucketOf(entry[chain[b][i]].key) = b
    BY <2>1 DEF Lists, Held
  <2>3. Home(chain[b][i]) = b /\ IndexIn(b, chain[b][i]) = i
    BY HomeIs DEF Home, IndexIn, HomeIn, PlaceIn
  <2> QED  BY <2>1, <2>2, <2>3, BucketsAreNotCells DEF Place, ListOf, PtrOK
<1>3. /\ ListOf(p) = b /\ ~Stale(p) /\ Place(p) \in 0 .. Len(chain[b])
      /\ p \in Held => Place(p) \in 1 .. Len(chain[b]) /\ chain[b][Place(p)] = p
      /\ p \notin Held => p = b /\ Place(p) = 0
  <2>1. CASE p \in Held
    <3>1. p \in InUse(entry) /\ BucketOf(entry[p].key) = b
      BY <2>1, BucketsAreNotCells DEF PtrOK, Held
    <3>2. PICK i \in 1 .. Len(chain[b]) : chain[b][i] = p
      BY <3>1 DEF Lists
    <3> QED  BY <2>1, <3>2, <1>2 DEF Stale
  <2>2. CASE p \notin Held
    <3>1. p = b  BY <2>2 DEF PtrOK
    <3> QED  BY <2>2, <3>1, <1>1, BucketsAreNotCells DEF ListOf, Place, Stale
  <2> QED  BY <2>1, <2>2
<1>4. ASSUME Place(p) = Len(chain[b])  PROVE Deref(p) = Nil
  BY <1>1, <1>3, <1>4 DEF Deref, FirstFrom
<1>5. ASSUME Place(p) < Len(chain[b])
      PROVE  Deref(p) = chain[b][Place(p) + 1] /\ Place(p) + 1 \in 1 .. Len(chain[b])
  BY <1>1, <1>3, <1>5 DEF Deref, FirstFrom
<1> QED  BY <1>2, <1>3, <1>4, <1>5

-----------------------------------------------------------------------------
(* The inductive invariant of a table.                                     *)

\* What the equal methods call leaves the cells of a list where they are: true
\* of every set, and of dictionaries whose equal methods only look things up.
Gentle == kind = "set" \/ callbacks \cap {"atput", "del"} = {}

CallRecs ==
    [op : OpsOf.set \cup OpsOf.dict, key : Keys, val : Vals \cup {NoVal},
     p : Buckets \cup Cells, seen : Keys \cup {Nil}, q : Cells \cup {Nil},
     pc : {"look", "equal"}]

\* An operation in progress holds pointers into the list of its key.  q is still
\* what p points at, unless elements have been put before it.
CallOK(c) ==
    /\ c.op \in OpsOf[kind]
    /\ PtrOK(c.p, BucketOf(c.key))
    /\ c.pc = "equal" => c.q \in Held /\ PtrOK(c.q, BucketOf(c.key))
    /\ c.pc = "equal" /\ kind = "dict" => Deref(c.p) = c.q

CallsOK ==
    /\ calls \in Seq(CallRecs) /\ Len(calls) <= MaxDepth
    /\ \A c \in ToSet(calls) : CallOK(c)
    /\ \A m \in 1 .. Len(calls) : m > 1 => calls[m].op \in callbacks

TableInv ==
    /\ TableOK(chain, entry, cnt) /\ cnt \in Nat
    /\ kind \in {"set", "dict"} /\ callbacks \in Methods
    /\ frozen \in BOOLEAN /\ wild \in BOOLEAN
    /\ CallsOK

\* A put, or an atput of a new key.
Grows ==
    \E c \in Cells \ Held, e \in Entries :
        /\ chain' = WithHead(chain, BucketOf(e.key), c)
        /\ entry' = WithEntry(entry, c, e)
        /\ cnt' = cnt + 1

SameTable == UNCHANGED <<chain, entry, cnt>>

LEMMA OpsFacts ==
  /\ OpsOf["set"] = {"at", "put"} /\ OpsOf["dict"] = {"at", "ate", "atput", "del"}
  /\ OpsOf.set \cup OpsOf.dict = {"at", "put", "ate", "atput", "del"}
BY DEF OpsOf

\* A table that grows is a table, and pointers into its lists stay good.
LEMMA GrowsOK ==
  ASSUME TableOK(chain, entry, cnt), cnt \in Nat, Grows
  PROVE  /\ TableOK(chain', entry', cnt') /\ cnt' \in Nat
         /\ \A d \in Held : d \in Held' /\ entry'[d] = entry[d]
         /\ \A p, b : PtrOK(p, b) => PtrOK(p, b)'
<1>1. PICK c \in Cells \ Held, e \in Entries :
          /\ chain' = WithHead(chain, BucketOf(e.key), c)
          /\ entry' = WithEntry(entry, c, e)
          /\ cnt' = cnt + 1
  BY DEF Grows
<1>2. e.key \in Keys /\ BucketOf(e.key) \in Buckets /\ c \in Cells /\ entry[c] = Free
  BY PairFacts, BucketOK DEF Held
<1>3. /\ TableOK(chain', entry', cnt')
      /\ \A d \in Cells : d # c => entry'[d] = entry[d]
  BY <1>1, <1>2, ConsKeeps
<1>4. \A d \in Held : d \in Held' /\ entry'[d] = entry[d]
  BY <1>1, <1>3 DEF Held
<1>5. ASSUME NEW p, NEW b, PtrOK(p, b)  PROVE PtrOK(p, b)'
  BY <1>4, <1>5 DEF PtrOK
<1> QED  BY <1>1, <1>3, <1>4, <1>5

\* An operation in progress stays as it should be while the table grows under it,
\* which only happens to sets, or stays the same.
LEMMA CallsStay ==
  ASSUME TableInv, UNCHANGED <<kind, callbacks>>, NEW c, CallOK(c),
         UNCHANGED <<chain, entry>> \/ (kind = "set" /\ Grows)
  PROVE  CallOK(c)'
<1>1. CASE UNCHANGED <<chain, entry>>
  BY <1>1 DEF CallOK, PtrOK, Held, Deref, FirstFrom, ListOf, Place, Home, IndexIn
<1>2. CASE kind = "set" /\ Grows
  BY <1>2, GrowsOK, OpsFacts DEF TableInv, CallOK
<1> QED  BY <1>1, <1>2

\* The innermost operation ends, the others go on.
LEMMA EndsOK ==
  ASSUME TableInv, UNCHANGED <<kind, callbacks>>, calls # << >>, calls' = Front(calls),
         UNCHANGED <<chain, entry>> \/ (kind = "set" /\ Grows) \/ Len(calls) = 1
  PROVE  CallsOK'
<1>1. /\ calls \in Seq(CallRecs) /\ Len(calls) <= MaxDepth
      /\ \A c \in ToSet(calls) : CallOK(c)
      /\ \A m \in 1 .. Len(calls) : m > 1 => calls[m].op \in callbacks
      /\ MaxDepth \in Nat \ {0}
  BY HashDictAssumption DEF TableInv, CallsOK
<1>2. /\ Front(calls) \in Seq(CallRecs) /\ Len(Front(calls)) = Len(calls) - 1 /\ Len(calls) \in Nat \ {0}
      /\ \A i \in 1 .. Len(calls) - 1 : Front(calls)[i] = calls[i]
      /\ ToSet(Front(calls)) \subseteq ToSet(calls)
      /\ Len(calls) = 1 => ToSet(Front(calls)) = {}
  BY <1>1, PoppedOK
<1>3. ASSUME NEW c \in ToSet(calls')  PROVE CallOK(c)'
  BY <1>1, <1>2, <1>3, CallsStay
<1>4. Len(calls') <= MaxDepth /\ \A m \in 1 .. Len(calls') : m > 1 => calls'[m].op \in callbacks
  BY <1>1, <1>2
<1> QED  BY <1>2, <1>3, <1>4 DEF CallsOK

\* The innermost operation goes on, with other pointers.
LEMMA TopReplaced ==
  ASSUME TableInv, UNCHANGED <<kind, callbacks, chain, entry>>, calls # << >>,
         NEW c \in CallRecs, CallOK(c), c.op = Top.op,
         calls' = [calls EXCEPT ![Len(calls)] = c]
  PROVE  CallsOK'
<1> DEFINE t == WithTop(calls, c)
<1>1. calls \in Seq(CallRecs) /\ calls # << >>
  BY DEF TableInv, CallsOK
<1>2. /\ t \in Seq(CallRecs) /\ Len(t) = Len(calls) /\ Last(t) = c
      /\ \A i \in 1 .. Len(calls) : t[i] = IF i = Len(calls) THEN c ELSE calls[i]
      /\ ToSet(t) \subseteq ToSet(calls) \cup {c}
  <2>1. DOMAIN calls = 1 .. Len(calls)
    BY <1>1
  <2>2. \A i \in 1 .. Len(calls) : t[i] = IF i = Len(calls) THEN c ELSE calls[i]
    BY <2>1 DEF WithTop
  <2>3. /\ t \in Seq(CallRecs) /\ Len(t) = Len(calls) /\ Last(t) = c
        /\ ToSet(t) \subseteq ToSet(calls) \cup {c}
    BY <1>1, TopSetOK
  <2> QED  BY <2>2, <2>3
<1>3. calls' = t
  BY DEF WithTop
<1> HIDE DEF t
<1>4. ASSUME NEW d \in ToSet(calls')  PROVE CallOK(d)'
  BY <1>2, <1>3, <1>4, CallsStay DEF TableInv, CallsOK
<1>5. ASSUME NEW m \in 1 .. Len(calls'), m > 1  PROVE calls'[m].op \in callbacks
  <2>1. calls[m].op \in callbacks
    BY <1>2, <1>3, <1>5 DEF TableInv, CallsOK
  <2>2. CASE m # Len(calls)
    BY <2>1, <2>2, <1>2, <1>3, <1>5
  <2>3. CASE m = Len(calls)
    BY <2>1, <2>3, <1>2, <1>3 DEF Last, Top
  <2> QED  BY <2>2, <2>3
<1> QED  BY <1>2, <1>3, <1>4, <1>5 DEF CallsOK, TableInv

\* A call begins.
LEMMA StartKeeps ==
  ASSUME TableInv, UNCHANGED <<kind, callbacks>>, NEW op \in OpsOf.set \cup OpsOf.dict,
         NEW k \in Keys, NEW v \in Vals \cup {NoVal}, Start(op, k, v)
  PROVE  TableInv' /\ UNCHANGED <<chain, entry, cnt, frozen, wild>>
<1>1. UNCHANGED <<chain, entry, cnt, frozen, wild>>
  BY DEF Start
<1>2. CASE op = "atput" /\ frozen
  <2>1. UNCHANGED calls  BY <1>2 DEF Start
  <2>2. CallsOK'
    BY <1>1, <2>1, CallsStay DEF TableInv, CallsOK
  <2> QED  BY <1>1, <2>2 DEF TableInv
<1>3. CASE ~(op = "atput" /\ frozen)
  <2> DEFINE c == SearchFor(op, k, v)
  <2>1. calls' = Append(calls, c)
    BY <1>3 DEF Start
  <2>2. c \in CallRecs /\ c.op = op /\ c.key = k /\ c.p = BucketOf(k) /\ c.pc = "look"
    BY BucketOK DEF SearchFor, CallRecs
  <2>3. /\ op \in OpsOf[kind]
        /\ calls = << >> \/ (op \in callbacks /\ Len(calls) < MaxDepth)
    BY DEF Start, CanCall
  <2> HIDE DEF c
  <2>4. calls \in Seq(CallRecs) /\ Len(calls) \in Nat /\ MaxDepth \in Nat \ {0}
    BY HashDictAssumption DEF TableInv, CallsOK
  <2>5. /\ calls' \in Seq(CallRecs) /\ Len(calls') = Len(calls) + 1
        /\ Last(calls') = c /\ ToSet(calls') = ToSet(calls) \cup {c}
        /\ \A i \in 1 .. Len(calls) : calls'[i] = calls[i]
    BY <2>1, <2>2, <2>4, PushedOK
  <2>6. calls'[Len(calls')] = c
    BY <2>5 DEF Last
  <2>7. CallOK(c)'
    BY <1>1, <2>2, <2>3 DEF CallOK, PtrOK
  <2>8. ASSUME NEW d \in ToSet(calls')  PROVE CallOK(d)'
    BY <1>1, <2>5, <2>7, CallsStay DEF TableInv, CallsOK
  <2>9. Len(calls') <= MaxDepth
    <3>1. CASE calls = << >>  BY <3>1, <2>4, <2>5
    <3>2. CASE Len(calls) < MaxDepth  BY <3>2, <2>4, <2>5
    <3> QED  BY <3>1, <3>2, <2>3
  <2>10. ASSUME NEW m \in 1 .. Len(calls'), m > 1  PROVE calls'[m].op \in callbacks
    <3>1. CASE m \in 1 .. Len(calls)
      BY <3>1, <2>5, <2>10 DEF TableInv, CallsOK
    <3>2. CASE m = Len(calls')
      <4>1. calls # << >>  BY <3>2, <2>4, <2>5, <2>10
      <4> QED  BY <3>2, <4>1, <2>2, <2>3, <2>6
    <3> QED  BY <3>1, <3>2, <2>4, <2>5
  <2>11. CallsOK'
    BY <2>5, <2>8, <2>9, <2>10 DEF CallsOK
  <2> QED  BY <1>1, <2>11 DEF TableInv
<1> QED  BY <1>1, <1>2, <1>3

-----------------------------------------------------------------------------
(* The end of a search.                                                    *)

LEMMA TopFacts ==
  ASSUME TableInv, calls # << >>
  PROVE  /\ Top \in CallRecs /\ CallOK(Top) /\ Len(calls) \in Nat \ {0}
         /\ BucketOf(Top.key) \in Buckets /\ Top.key \in Keys /\ Top.val \in Vals \cup {NoVal}
         /\ Top.op \in OpsOf[kind] /\ PtrOK(Top.p, BucketOf(Top.key)) /\ ~Stale(Top.p)
         /\ Gentle /\ Top.op \in {"atput", "del"} => Len(calls) = 1
<1>1. calls \in Seq(CallRecs)
  BY DEF TableInv, CallsOK
<1>2. Top \in CallRecs /\ Top \in ToSet(calls) /\ Len(calls) \in Nat \ {0}
  BY <1>1, PoppedOK DEF Top
<1>3. CallOK(Top)
  BY <1>2 DEF TableInv, CallsOK
<1>4. Top.key \in Keys /\ Top.val \in Vals \cup {NoVal}
  BY <1>2 DEF CallRecs
<1>5. BucketOf(Top.key) \in Buckets
  BY <1>4, BucketOK
<1>6. Top.op \in OpsOf[kind] /\ PtrOK(Top.p, BucketOf(Top.key))
  BY <1>3 DEF CallOK
<1>7. ~Stale(Top.p)
  BY <1>5, <1>6, PtrFacts DEF TableInv, TableOK
<1>8. ASSUME Gentle, Top.op \in {"atput", "del"}  PROVE Len(calls) = 1
  <2>1. \A o \in callbacks : o \notin {"atput", "del"}
    BY <1>6, <1>8, OpsFacts DEF Gentle
  <2>2. Len(calls) > 1 => Top.op \in callbacks
    <3>1. \A m \in 1 .. Len(calls) : m > 1 => calls[m].op \in callbacks
      BY DEF TableInv, CallsOK
    <3>2. Len(calls) \in 1 .. Len(calls) /\ Top = calls[Len(calls)]
      BY <1>2 DEF Top, Last
    <3> QED  BY <3>1, <3>2
  <2>3. Top.op \notin callbacks
    BY <2>1, <1>8
  <2> DEFINE n == Len(calls)
  <2>4. n \in Nat /\ n # 0 /\ ~(n > 1)
    BY <2>2, <2>3, <1>2
  <2> HIDE DEF n
  <2>5. n = 1
    BY <2>4
  <2> QED  BY <2>5 DEF n
<1> QED  BY <1>2, <1>3, <1>4, <1>5, <1>6, <1>7, <1>8

IsTable(t) == DOMAIN t = {"chain", "entry", "cnt"}

\* The records of Consed and Counted, taken apart.
LEMMA ConsedFields ==
  ASSUME NEW t, IsTable(t), NEW b, NEW c, NEW e
  PROVE  /\ Consed(t, b, c, e).chain = WithHead(t.chain, b, c)
         /\ Consed(t, b, c, e).entry = WithEntry(t.entry, c, e)
         /\ Consed(t, b, c, e).cnt = t.cnt
         /\ IsTable(Consed(t, b, c, e))
BY DEF Consed, IsTable, WithHead, WithEntry

LEMMA CountedFields ==
  ASSUME NEW t, IsTable(t), NEW m
  PROVE  /\ Counted(t, m).chain = t.chain /\ Counted(t, m).entry = t.entry
         /\ Counted(t, m).cnt = t.cnt + m
BY DEF Counted, IsTable

LEMMA TableIs ==
  IsTable(Table) /\ Table.chain = chain /\ Table.entry = entry /\ Table.cnt = cnt
BY DEF Table, IsTable

\* The cells of S are held as they were, and n with the entry e.
Filled(S, n, e) ==
    /\ Held' = S \cup {n} /\ n \notin S /\ entry'[n] = e
    /\ \A d \in S : entry'[d] = entry[d]

\* A search that finds nothing: the table stays or grows by one cell.
LEMMA MissingKeeps ==
  ASSUME TableInv, Gentle, UNCHANGED <<kind, callbacks, frozen, wild>>, calls # << >>, Missing
  PROVE  /\ TableInv' /\ (SameTable \/ Grows)
         /\ Top.op \in {"at", "ate", "del"} => SameTable
         /\ Top.op \in {"put", "atput"} => \E n \in Cells \ Held : Filled(Held, n, Pair(Top.key, Top.val))
<1> DEFINE b == BucketOf(Top.key)
<1>1. /\ Top \in CallRecs /\ Top.op \in OpsOf[kind] /\ b \in Buckets /\ Top.key \in Keys
      /\ Top.val \in Vals \cup {NoVal} /\ (Top.op \in {"atput", "del"} => Len(calls) = 1)
  BY TopFacts
<1>2. calls' = Front(calls) /\ kind \in {"set", "dict"}
  BY DEF Missing, Return, ReturnGiven, TableInv
<1>3. CASE Top.op \in {"at", "ate", "del"}
  <2>1. SameTable
    BY <1>3 DEF Missing, SameTable
  <2>2. CallsOK'
    BY <1>2, <2>1, EndsOK DEF SameTable
  <2> QED  BY <1>3, <2>1, <2>2 DEF TableInv, SameTable
<1>4. CASE Top.op \in {"put", "atput"}
  <2>1. PICK c \in NewCell :
            Commit(Counted(Consed(Table, b, c, Pair(Top.key, Top.val)), 1))
    BY <1>4 DEF Missing
  <2> DEFINE e == Pair(Top.key, Top.val)
  <2>2. e \in Entries /\ e.key = Top.key
    BY <1>1, PairFacts
  <2> HIDE DEF e
  <2>3. LET u == Counted(Consed(Table, b, c, e), 1)
        IN  /\ u.chain = WithHead(chain, b, c)
            /\ u.entry = WithEntry(entry, c, e) /\ u.cnt = cnt + 1
    <3> DEFINE w == Consed(Table, b, c, e)
    <3>1. /\ IsTable(w) /\ w.cnt = cnt
          /\ w.chain = WithHead(chain, b, c) /\ w.entry = WithEntry(entry, c, e)
      BY TableIs, ConsedFields
    <3> HIDE DEF w
    <3>2. Counted(w, 1).chain = w.chain /\ Counted(w, 1).entry = w.entry /\ Counted(w, 1).cnt = w.cnt + 1
      BY <3>1, CountedFields
    <3> QED  BY <3>1, <3>2 DEF w
  <2>4. /\ chain' = WithHead(chain, b, c) /\ entry' = WithEntry(entry, c, e)
        /\ cnt' = cnt + 1
    BY <2>1, <2>3 DEF Commit, e
  <2>5. Grows
    BY <2>2, <2>4 DEF Grows, NewCell
  <2>9. Filled(Held, c, Pair(Top.key, Top.val))
    <3>1. TableOK(chain, entry, cnt) /\ entry[c] = Free /\ c \in Cells /\ b = BucketOf(e.key)
      BY <2>2 DEF TableInv, NewCell, Held
    <3> HIDE DEF b
    <3>2. /\ InUse(entry') = InUse(entry) \cup {c} /\ c \notin InUse(entry)
          /\ entry'[c] = e /\ \A d \in Cells : d # c => entry'[d] = entry[d]
      BY <2>2, <2>4, <3>1, <1>1, ConsKeeps
    <3>3. Held = InUse(entry) /\ Held' = InUse(entry') /\ Held \subseteq Cells
      BY DEF Held, InUse
    <3> QED  BY <3>2, <3>3 DEF Filled, e
  <2>6. TableOK(chain', entry', cnt') /\ cnt' \in Nat
    BY <2>5, GrowsOK DEF TableInv
  <2>7. CallsOK'
    <3>1. CASE kind = "set"
      BY <3>1, <2>5, <1>2, EndsOK
    <3>2. CASE kind = "dict"
      <4>1. Len(calls) = 1  BY <3>2, <1>1, <1>4, OpsFacts
      <4> QED  BY <4>1, <1>2, EndsOK
    <3> QED  BY <3>1, <3>2, <1>2
  <2>8. c \in Cells \ Held
    BY DEF NewCell
  <2> QED  BY <1>4, <2>5, <2>6, <2>7, <2>8, <2>9 DEF TableInv
<1> QED  BY <1>1, <1>3, <1>4, <1>2, OpsFacts

\* What del and atput do with the cell that they have found.
LEMMA UnlinkedIs ==
  ASSUME TableInv, NEW b \in Buckets, NEW p, PtrOK(p, b), Place(p) < Len(chain[b])
  PROVE  LET k == Place(p) + 1
             c == chain[b][k]
             t == Unlinked(Table, p)
         IN  /\ k \in 1 .. Len(chain[b]) /\ Deref(p) = c
             /\ IsTable(t) /\ t.cnt = cnt
             /\ t.chain = Without(chain, b, k) /\ t.entry = WithEntry(entry, c, Free)
<1> DEFINE k == Place(p) + 1
           c == chain[b][k]
<1>1. Lists(chain, entry) /\ Len(chain[b]) \in Nat
  BY DEF TableInv, TableOK, Lists
<1>2. /\ ListOf(p) = b /\ Place(p) \in 0 .. Len(chain[b])
      /\ Deref(p) = c /\ c # Nil
  BY <1>1, PtrFacts
<1>3. k \in 1 .. Len(chain[b])
  BY <1>1, <1>2
<1>4. Unlinked(Table, p) =
          [Table EXCEPT !.chain[b] = RemoveAt(@, k), !.entry[c] = Free]
  BY <1>2 DEF Unlinked
<1> HIDE DEF k, c
<1>5. LET t == [Table EXCEPT !.chain[b] = RemoveAt(@, k), !.entry[c] = Free]
      IN  /\ IsTable(t) /\ t.cnt = cnt
          /\ t.chain = Without(chain, b, k) /\ t.entry = WithEntry(entry, c, Free)
  BY TableIs DEF IsTable, Without, WithEntry
<1> QED  BY <1>2, <1>3, <1>4, <1>5 DEF k, c

\* A search that finds its key: only a del or an atput from outside of any other
\* operation changes the table.
LEMMA FoundKeeps ==
  ASSUME TableInv, Gentle, UNCHANGED <<kind, callbacks, frozen, wild>>, InEqual, Found
  PROVE  /\ TableInv' /\ (SameTable \/ kind = "dict")
         /\ Top.op \in {"at", "ate", "put"} => SameTable
         /\ Top.op = "del" =>
                Held' = Held \ {Top.q} /\ \A d \in Held' : entry'[d] = entry[d]
         /\ Top.op = "atput" =>
                \E n \in Cells : Filled(Held \ {Top.q}, n, Pair(Top.key, Top.val))
<1> DEFINE b == BucketOf(Top.key)
           p == Top.p
<1>1. /\ Top \in CallRecs /\ Top.op \in OpsOf[kind] /\ b \in Buckets /\ Top.key \in Keys
      /\ Top.val \in Vals \cup {NoVal} /\ (Top.op \in {"atput", "del"} => Len(calls) = 1)
      /\ CallOK(Top) /\ PtrOK(p, b)
  BY TopFacts DEF InEqual
<1>2. calls' = Front(calls) /\ kind \in {"set", "dict"} /\ calls # << >>
  <2>1. Top.op \in {"at", "ate", "put", "del", "atput"}
    BY <1>1, OpsFacts DEF TableInv
  <2>2. calls' = Front(calls)
    BY <2>1 DEF Found, Return, ReturnGiven
  <2> QED  BY <2>2 DEF TableInv, InEqual
<1>3. CASE Top.op \in {"at", "ate", "put"}
  <2>1. SameTable
    BY <1>3 DEF Found, SameTable
  <2>2. CallsOK'
    BY <1>2, <2>1, EndsOK DEF SameTable
  <2> QED  BY <1>3, <2>1, <2>2 DEF TableInv, SameTable
<1>4. CASE Top.op \in {"del", "atput"}
  <2>1. kind = "dict" /\ Len(calls) = 1
    BY <1>1, <1>2, <1>4, OpsFacts
  <2>2. Deref(p) \in Held /\ Nil \notin Held /\ Deref(p) = Top.q
    BY <1>1, <2>1, BucketsAreNotCells DEF InEqual, CallOK, Held
  <2>3. Lists(chain, entry) /\ Len(chain[b]) \in Nat
    BY <1>1 DEF TableInv, TableOK, Lists
  <2>4. Place(p) < Len(chain[b])
    BY <2>2, <2>3, <1>1, PtrFacts
  <2> DEFINE k   == Place(p) + 1
             c   == chain[b][k]
             ch2 == Without(chain, b, k)
             en2 == WithEntry(entry, c, Free)
             t   == Unlinked(Table, p)
  <2>5. /\ k \in 1 .. Len(chain[b]) /\ IsTable(t)
        /\ t.chain = ch2 /\ t.entry = en2 /\ t.cnt = cnt /\ c = Top.q
    BY <1>1, <2>2, <2>4, UnlinkedIs
  <2>6. /\ TableOK(ch2, en2, cnt - 1) /\ cnt - 1 \in Nat
        /\ InUse(en2) = Held \ {c} /\ Held \subseteq Cells
        /\ \A d \in Held \ {c} : en2[d] = entry[d]
    <3> HIDE DEF k
    <3>1. /\ TableOK(ch2, en2, cnt - 1) /\ cnt - 1 \in Nat
          /\ InUse(en2) = InUse(entry) \ {c}
          /\ \A d \in Cells : d # c => en2[d] = entry[d]
      BY <1>1, <2>5, UnlinkKeeps DEF TableInv
    <3> QED  BY <3>1, BucketsAreNotCells DEF Held
  <2>7. CallsOK'
    BY <1>2, <2>1, EndsOK
  <2>8. CASE Top.op = "del"
    <3>1. Commit(Counted(t, -1))
      BY <2>5, <2>8 DEF Found
    <3> HIDE DEF ch2, en2, t
    <3>2. chain' = ch2 /\ entry' = en2 /\ cnt' = cnt + (-1)
      BY <3>1, <2>5, CountedFields DEF Commit
    <3>3. cnt + (-1) = cnt - 1
      BY DEF TableInv
    <3>4. Held' = Held \ {Top.q}
      BY <3>2, <2>5, <2>6 DEF Held, InUse
    <3> QED  BY <3>2, <3>3, <3>4, <2>1, <2>5, <2>6, <2>7, <2>8 DEF TableInv
  <2>9. CASE Top.op = "atput"
    <3> DEFINE e == Pair(Top.key, Top.val)
    <3>1. PICK n \in {x \in Cells : Unlinked(Table, p).entry[x] = Free} :
              Commit(Consed(Unlinked(Table, p), b, n, e))
      BY <2>9 DEF Found
    <3>2. e \in Entries /\ e.key = Top.key
      BY <1>1, PairFacts
    <3> HIDE DEF e, ch2, en2, t
    <3>3. LET u == Consed(t, b, n, e)
          IN  u.chain = WithHead(ch2, b, n) /\ u.entry = WithEntry(en2, n, e) /\ u.cnt = cnt
      BY <2>5, ConsedFields
    <3>4. /\ chain' = WithHead(ch2, b, n) /\ entry' = WithEntry(en2, n, e)
          /\ cnt' = cnt
      BY <3>1, <3>3 DEF Commit, t
    <3>5. n \in Cells /\ en2[n] = Free
      BY <3>1, <2>5 DEF t
    <3>6. cnt = (cnt - 1) + 1 /\ cnt \in Nat
      BY DEF TableInv
    <3>7. b \in Buckets /\ b = BucketOf(e.key)
      BY <1>1, <3>2
    <3> HIDE DEF b
    <3>8. TableOK(WithHead(ch2, b, n), WithEntry(en2, n, e), (cnt - 1) + 1)
      BY <2>6, <3>2, <3>5, <3>7, ConsKeeps
    <3>9. TableOK(chain', entry', cnt') /\ cnt' \in Nat
      BY <3>4, <3>6, <3>8
    <3>10. /\ InUse(entry') = InUse(en2) \cup {n} /\ n \notin InUse(en2)
           /\ entry'[n] = e /\ \A d \in Cells : d # n => entry'[d] = en2[d]
      BY <2>6, <3>2, <3>4, <3>5, <3>7, ConsKeeps
    <3>11. Held' = InUse(entry') /\ InUse(en2) \subseteq Cells
      BY DEF Held, InUse
    <3>12. Filled(Held \ {Top.q}, n, Pair(Top.key, Top.val))
      BY <3>10, <3>11, <2>5, <2>6 DEF Filled, e
    <3> QED  BY <3>5, <3>9, <3>12, <2>1, <2>7, <2>9 DEF TableInv
  <2> QED  BY <2>8, <2>9, <1>4
<1> QED  BY <1>1, <1>2, <1>3, <1>4, OpsFacts

-----------------------------------------------------------------------------
(* The steps of a table.                                                   *)

LEMMA LookKeeps ==
  ASSUME TableInv, Gentle, UNCHANGED <<kind, callbacks>>, Look
  PROVE  TableInv' /\ (SameTable \/ Grows) /\ UNCHANGED <<frozen, wild>>
<1> DEFINE b == BucketOf(Top.key)
<1>1. /\ calls # << >> /\ Top \in CallRecs /\ b \in Buckets /\ PtrOK(Top.p, b) /\ ~Stale(Top.p)
      /\ Top.op \in OpsOf[kind]
  BY TopFacts DEF Look
<1>2. UNCHANGED <<frozen, wild>>
  BY <1>1 DEF Look
<1>3. CASE Deref(Top.p) = Nil
  <2>1. Missing  BY <1>1, <1>3 DEF Look
  <2> QED  BY <2>1, <1>1, <1>2, MissingKeeps
<1>4. CASE Deref(Top.p) # Nil
  <2> DEFINE q == Deref(Top.p)
             c == [Top EXCEPT !.pc = "equal", !.q = q, !.seen = entry[q].key]
  <2>1. SameTable /\ calls' = [calls EXCEPT ![Len(calls)] = c]
    BY <1>1, <1>4 DEF Look, SameTable, Top, Last
  <2>2. q \in Held /\ PtrOK(q, b)
    <3>1. Lists(chain, entry) /\ Len(chain[b]) \in Nat
      BY <1>1 DEF TableInv, TableOK, Lists
    <3>2. Place(Top.p) \in 0 .. Len(chain[b]) /\ Place(Top.p) # Len(chain[b])
      BY <3>1, <1>1, <1>4, PtrFacts
    <3> QED  BY <3>1, <3>2, <1>1, PtrFacts
  <2>3. q \in Cells /\ entry[q].key \in Keys
    BY <2>2, PairFacts DEF Held, TableInv, TableOK, Lists
  <2> HIDE DEF q
  <2>4. c \in CallRecs
    BY <2>3, <1>1 DEF CallRecs
  <2>5. /\ c.op = Top.op /\ c.key = Top.key /\ c.p = Top.p /\ c.q = q /\ c.pc = "equal"
    BY <1>1 DEF CallRecs
  <2> HIDE DEF c
  <2>6. CallOK(c)
    BY <2>2, <2>5, <1>1 DEF CallOK, q
  <2>7. CallsOK'
    BY <2>1, <2>4, <2>5, <2>6, <1>1, TopReplaced DEF SameTable
  <2> QED  BY <2>1, <2>7, <1>2 DEF TableInv, SameTable
<1> QED  BY <1>3, <1>4

\* While equal runs, what a search of a dictionary points at is a cell in use.
LEMMA PointsAtCell ==
  ASSUME Gentle, CallOK(Top), InEqual, kind = "dict"
  PROVE  Deref(Top.p) # Nil
BY BucketsAreNotCells DEF CallOK, InEqual, Held

LEMMA EqualReturnsKeeps ==
  ASSUME TableInv, Gentle, UNCHANGED <<kind, callbacks>>, EqualReturns
  PROVE  TableInv' /\ (SameTable \/ kind = "dict") /\ UNCHANGED <<frozen, wild>>
<1> DEFINE b == BucketOf(Top.key)
<1>1. /\ InEqual /\ calls # << >> /\ Top \in CallRecs /\ b \in Buckets /\ PtrOK(Top.p, b)
      /\ ~Stale(Top.p) /\ Top.op \in OpsOf[kind] /\ CallOK(Top)
  BY TopFacts DEF EqualReturns, InEqual
<1>2. CASE Equal(Top.key, Top.seen)
  <2>1. Found /\ UNCHANGED <<frozen, wild>>
    BY <1>1, <1>2, PointsAtCell DEF EqualReturns
  <2> QED  BY <2>1, <1>1, FoundKeeps
<1>3. CASE ~Equal(Top.key, Top.seen)
  <2> DEFINE c == [Top EXCEPT !.pc = "look", !.p = Top.q]
  <2>1. /\ SameTable /\ calls' = [calls EXCEPT ![Len(calls)] = c]
        /\ UNCHANGED <<frozen, wild>>
    BY <1>1, <1>3 DEF EqualReturns, SameTable, Top, Last
  <2>2. Top.q \in Held /\ PtrOK(Top.q, b)
    BY <1>1 DEF CallOK, InEqual
  <2>3. c \in CallRecs
    BY <2>2, <1>1 DEF CallRecs, Held
  <2>4. /\ c.op = Top.op /\ c.key = Top.key /\ c.p = Top.q /\ c.pc = "look"
    BY <1>1 DEF CallRecs
  <2> HIDE DEF c
  <2>5. CallOK(c)
    BY <2>2, <2>4, <1>1 DEF CallOK
  <2>6. CallsOK'
    BY <2>1, <2>3, <2>4, <2>5, <1>1, TopReplaced DEF SameTable
  <2> QED  BY <2>1, <2>6 DEF TableInv, SameTable
<1> QED  BY <1>2, <1>3

\* A step keeps the invariant and follows no stale pointer; a set only grows.
LEMMA TableSteps ==
  ASSUME TableInv, Gentle, TNext
  PROVE  /\ TableInv' /\ UNCHANGED <<kind, wild>>
         /\ kind = "set" => SameTable \/ Grows
<1>1. UNCHANGED <<kind, callbacks>>
  BY DEF TNext
<1>2. ASSUME NEW k \in Keys, NEW op \in OpsOf.set \cup OpsOf.dict, NEW v \in Vals \cup {NoVal},
             Start(op, k, v)
      PROVE  TableInv' /\ SameTable /\ UNCHANGED wild
  BY <1>1, <1>2, StartKeeps DEF SameTable
<1>3. CASE \E k \in Keys :
              \/ \E op \in {"at", "ate", "del"} : Start(op, k, NoVal)
              \/ Room /\ Start("put", k, NoVal)
              \/ Room /\ \E v \in Vals : Start("atput", k, v)
  BY <1>1, <1>2, <1>3, OpsFacts
<1>4. CASE Look
  BY <1>1, <1>4, LookKeeps
<1>5. CASE EqualReturns
  BY <1>1, <1>5, EqualReturnsKeeps, OpsFacts
<1>6. CASE EqualRaises
  <2>1. calls # << >> /\ calls' = Front(calls) /\ UNCHANGED <<chain, entry, cnt, frozen, wild>>
    BY <1>6 DEF EqualRaises, InEqual
  <2>2. CallsOK'
    BY <1>1, <2>1, EndsOK
  <2> QED  BY <2>1, <2>2, <1>1 DEF TableInv, SameTable
<1>7. CASE Freeze
  <2>1. UNCHANGED <<chain, entry, cnt, calls, wild>> /\ frozen' = TRUE
    BY <1>7 DEF Freeze
  <2>2. CallsOK'
    BY <2>1, <1>1, CallsStay DEF TableInv, CallsOK
  <2> QED  BY <2>1, <2>2, <1>1 DEF TableInv, SameTable
<1> QED  BY <1>1, <1>3, <1>4, <1>5, <1>6, <1>7 DEF TNext

LEMMA TableStarts ==  TInit => TableInv
<1> SUFFICES ASSUME TInit  PROVE TableInv
  OBVIOUS
<1>1. /\ chain = [b \in Buckets |-> << >>] /\ entry = [c \in Cells |-> Free] /\ cnt = 0
      /\ calls = << >> /\ kind \in {"set", "dict"} /\ callbacks \in Methods
      /\ frozen = FALSE /\ wild = FALSE
  BY DEF TInit
<1>2. InUse(entry) = {}
  BY <1>1 DEF InUse
<1>3. IsFiniteSet(InUse(entry)) /\ Cardinality(InUse(entry)) = 0
  BY <1>2, FS_EmptySet
<1>4. Lists(chain, entry)
  <2>1. chain \in [Buckets -> Seq(Cells)] /\ \A b \in Buckets : Len(chain[b]) = 0
    BY <1>1, EmptySeq
  <2>2. entry \in [Cells -> Entries \cup {Free}]
    BY <1>1
  <2> QED  BY <2>1, <2>2, <1>2 DEF Lists
<1>5. CallsOK
  <2>1. calls \in Seq(CallRecs) /\ Len(calls) = 0 /\ ToSet(calls) = {}
    BY <1>1, EmptySeq DEF ToSet
  <2> QED  BY <2>1, HashDictAssumption DEF CallsOK
<1> QED  BY <1>1, <1>3, <1>4, <1>5 DEF TableInv, TableOK

-----------------------------------------------------------------------------
(* The inductive invariant of an iterator.                                 *)

IterOK ==
    /\ idx \in 0 .. Size /\ li \in Cells \cup {Nil}
    /\ phase \in {"none", "going", "done"} /\ seen \subseteq Cells /\ due \subseteq Cells
    /\ phase = "going" /\ idx < Size => li \in Cells

\* A set never loses a cell: the iterator's pointer stays good, and what it has
\* returned and had to return stays in the set.
SetIterOK ==
    kind = "set" =>
        /\ ~wild /\ seen \subseteq Held /\ due \subseteq Held
        /\ phase = "going" /\ idx < Size => PtrOK(li, idx) /\ li \in Held
        /\ EachOnce /\ NoneMissed

\* Every nonempty set of naturals has a least element.
LEMMA LeastElement ==
  ASSUME NEW T \in SUBSET Nat, T # {}
  PROVE  \E x \in T : \A y \in T : x <= y
<1> DEFINE R == {ss \in Nat \X Nat : ss[1] < ss[2]}
<1>1. IsWellFoundedOn(R, Nat)
  BY NatLessThanWellFounded DEF OpToRel
<1> HIDE DEF R
<1>2. PICK x \in T : \A y \in T : ~(<<y, x>> \in R)
  BY <1>1, WFMin
<1>3. ASSUME NEW y \in T, y < x  PROVE FALSE
  <2>1. <<y, x>> \in R  BY <1>3 DEF R
  <2> QED  BY <2>1, <1>2
<1> QED  BY <1>3, SMT

LEMMA FirstBucketIs ==
  ASSUME NEW b \in 0 .. Size
  PROVE  LET n == FirstBucket(b)
         IN  /\ n \in b .. Size
             /\ n = Size \/ chain[n] # << >>
             /\ \A m \in b .. n - 1 : chain[m] = << >>
<1> DEFINE T == {n \in b .. Size : n = Size \/ chain[n] # << >>}
<1>1. Size \in Nat \ {0}
  BY HashDictAssumption
<1>2. T \in SUBSET Nat /\ Size \in T
  BY <1>1
<1>3. PICK n \in T : \A y \in T : n <= y
  <2> HIDE DEF T
  <2> QED  BY <1>2, LeastElement
<1>4. ASSUME NEW m \in b .. n - 1  PROVE chain[m] = << >>
  BY <1>1, <1>3, <1>4
<1>5. \E x \in b .. Size :
          /\ x = Size \/ chain[x] # << >>
          /\ \A m \in b .. x - 1 : chain[m] = << >>
  BY <1>3, <1>4
<1> QED  BY <1>5 DEF FirstBucket

\* The head of the bucket that a scan ends at.
LEMMA BucketHeadIs ==
  ASSUME TableInv, NEW b \in Buckets, chain[b] # << >>
  PROVE  /\ 1 \in 1 .. Len(chain[b]) /\ BucketHead(b) = chain[b][1] /\ BucketHead(b) \in Cells
         /\ PtrOK(BucketHead(b), b) /\ BucketHead(b) \in Held /\ PlaceIn(chain, b, BucketHead(b)) = 1
<1>1. Lists(chain, entry) /\ chain[b] \in Seq(Cells) /\ b # Size
  <2>1. Size \in Nat \ {0}
    BY HashDictAssumption
  <2>2. b # Size
    BY <2>1 DEF Buckets
  <2> QED  BY <2>2 DEF TableInv, TableOK, Lists
<1>2. 1 \in 1 .. Len(chain[b]) /\ BucketHead(b) = chain[b][1] /\ chain[b][1] \in Cells
  BY <1>1 DEF BucketHead
<1>3. chain[b][1] \in Held /\ BucketOf(entry[chain[b][1]].key) = b
  BY <1>1, <1>2 DEF Lists, Held
<1>4. PlaceIn(chain, b, chain[b][1]) = 1
  BY <1>1, <1>2, HomeIs
<1> QED  BY <1>2, <1>3, <1>4 DEF PtrOK

\* The cells ahead, by bucket and place.
LEMMA AheadIs ==
  ASSUME NEW c
  PROVE  c \in Ahead <=>
             /\ phase = "going" /\ idx # Size /\ c \in Held
             /\ \/ HomeIn(chain, c) > idx
                \/ HomeIn(chain, c) = idx /\ PlaceIn(chain, idx, c) >= PlaceIn(chain, idx, li)
BY DEF Ahead, Home, IndexIn, HomeIn, PlaceIn

LEMMA AheadIsNext ==
  ASSUME NEW c
  PROVE  c \in Ahead' <=>
             /\ phase' = "going" /\ idx' # Size /\ c \in Held'
             /\ \/ HomeIn(chain', c) > idx'
                \/ HomeIn(chain', c) = idx' /\ PlaceIn(chain', idx', c) >= PlaceIn(chain', idx', li')
BY DEF Ahead, Home, IndexIn, HomeIn, PlaceIn

-----------------------------------------------------------------------------
(* The steps of an iterator.                                               *)

LEMMA BeginKeeps ==
  ASSUME TableInv, Begin, ~wild, UNCHANGED tvars, kind = "set" => ~again
  PROVE  IterOK' /\ SetIterOK'
<1> DEFINE n == FirstBucket(0)
<1>1. /\ idx' = n /\ li' = BucketHead(n) /\ phase' = "going" /\ seen' = {} /\ again' = again
      /\ due' = Held
  BY DEF Begin
<1>2. UNCHANGED <<kind, chain, entry, wild>> /\ Held' = Held /\ Held \subseteq Cells
  BY DEF tvars, Held
<1>3. /\ n \in 0 .. Size /\ Size \in Nat \ {0} /\ (n = Size \/ chain[n] # << >>)
      /\ \A m \in 0 .. n - 1 : chain[m] = << >>
  BY FirstBucketIs, HashDictAssumption
<1> HIDE DEF n
<1>4. n # Size => n \in Buckets
  BY <1>3 DEF Buckets
<1>5. IF n = Size THEN li' = Nil
      ELSE li' \in Cells /\ PtrOK(li', n) /\ li' \in Held /\ PlaceIn(chain, n, li') = 1
  BY <1>1, <1>3, <1>4, BucketHeadIs DEF BucketHead
<1>6. IterOK'
  BY <1>1, <1>2, <1>3, <1>5 DEF IterOK
<1>7. Held \subseteq Ahead'
  <2> SUFFICES ASSUME NEW c \in Held  PROVE c \in Ahead'
    OBVIOUS
  <2> DEFINE b == BucketOf(entry[c].key)
             i == PlaceIn(chain, b, c)
  <2>1. c \in InUse(entry) /\ Lists(chain, entry)
    BY BucketsAreNotCells DEF TableInv, TableOK
  <2>2. b \in Buckets /\ HomeIn(chain, c) = b /\ i \in 1 .. Len(chain[b]) /\ chain[b][i] = c
    BY <2>1, PlaceOfCell
  <2>3. chain[b] # << >> /\ i \in Nat /\ i >= 1
    BY <2>2
  <2>4. b \in 0 .. Size - 1
    BY <2>2 DEF Buckets
  <2>5. b >= n
    BY <2>3, <2>4, <1>3
  <2>6. n # Size
    BY <2>4, <2>5, <1>3
  <2>7. b > n \/ (b = n /\ i >= PlaceIn(chain, n, li'))
    BY <2>3, <2>4, <2>5, <2>6, <1>3, <1>5
  <2> HIDE DEF b
  <2> QED  BY <2>2, <2>6, <2>7, <1>1, <1>2, AheadIsNext
<1>8. SetIterOK'
  <2>1. ASSUME phase' = "going", idx' < Size  PROVE PtrOK(li, idx)' /\ li' \in Held'
    <3>1. n # Size  BY <2>1, <1>1, <1>3
    <3> QED  BY <3>1, <1>1, <1>2, <1>5 DEF PtrOK
  <2>2. kind = "set" => EachOnce' /\ NoneMissed'
    BY <1>1, <1>2, <1>7 DEF EachOnce, NoneMissed
  <2>3. ~wild' /\ seen' \subseteq Held' /\ due' \subseteq Held'
    BY <1>1, <1>2
  <2> QED  BY <2>1, <2>2, <2>3, <1>2 DEF SetIterOK
<1> QED  BY <1>6, <1>8

\* Every cell keeps its bucket while the table grows, and moves up by one in the
\* bucket that grows.
LEMMA GrowMoves ==
  ASSUME TableInv, NEW x \in Cells \ Held, NEW e \in Entries,
         chain' = WithHead(chain, BucketOf(e.key), x), entry' = WithEntry(entry, x, e),
         cnt' = cnt + 1
  PROVE  \A c \in Held :
             LET b    == BucketOf(entry[c].key)
                 more == IF b = BucketOf(e.key) THEN 1 ELSE 0
             IN  /\ b \in Buckets /\ HomeIn(chain, c) = b /\ HomeIn(chain', c) = b
                 /\ PlaceIn(chain, b, c) \in Nat
                 /\ PlaceIn(chain', b, c) = PlaceIn(chain, b, c) + more
                 /\ Len(chain[b]) \in Nat /\ Len(chain'[b]) = Len(chain[b]) + more
<1> DEFINE a == BucketOf(e.key)
<1>1. e.key \in Keys /\ a \in Buckets /\ x \in Cells /\ entry[x] = Free
  BY PairFacts, BucketOK DEF Held
<1> HIDE DEF a
<1>2. /\ Lists(chain', entry') /\ Lists(chain, entry)
      /\ Len(chain'[a]) = Len(chain[a]) + 1
      /\ \A i \in 1 .. Len(chain'[a]) : chain'[a][i] = IF i = 1 THEN x ELSE chain[a][i - 1]
      /\ \A b \in Buckets : b # a => chain'[b] = chain[b]
  BY <1>1, ConsKeeps DEF TableInv, TableOK, a
<1> DEFINE more(b) == IF b = a THEN 1 ELSE 0
<1>3. ASSUME NEW c \in Held
      PROVE  LET b == BucketOf(entry[c].key)
             IN  /\ b \in Buckets /\ HomeIn(chain, c) = b /\ HomeIn(chain', c) = b
                 /\ PlaceIn(chain, b, c) \in Nat
                 /\ PlaceIn(chain', b, c) = PlaceIn(chain, b, c) + more(b)
                 /\ Len(chain[b]) \in Nat /\ Len(chain'[b]) = Len(chain[b]) + more(b)
  <2> DEFINE b == BucketOf(entry[c].key)
             i == PlaceIn(chain, b, c)
  <2>1. c \in InUse(entry)
    BY BucketsAreNotCells
  <2>2. b \in Buckets /\ HomeIn(chain, c) = b /\ i \in 1 .. Len(chain[b]) /\ chain[b][i] = c
    BY <2>1, <1>2, PlaceOfCell
  <2> HIDE DEF b, i
  <2>3. Len(chain[b]) \in Nat
    BY <2>2, <1>2 DEF Lists
  <2>4. i + more(b) \in 1 .. Len(chain'[b]) /\ chain'[b][i + more(b)] = c
    <3>1. CASE b # a
      BY <3>1, <2>2, <2>3, <1>2
    <3>2. CASE b = a
      <4>1. i + 1 \in 1 .. Len(chain'[a]) /\ i + 1 # 1 /\ (i + 1) - 1 = i
        BY <3>2, <2>2, <2>3, <1>2
      <4> QED  BY <4>1, <3>2, <2>2, <1>2
    <3> QED  BY <3>1, <3>2
  <2> HIDE DEF more
  <2>5. HomeIn(chain', c) = b /\ PlaceIn(chain', b, c) = i + more(b)
    <3> DEFINE m == i + more(b)
    <3>1. m \in 1 .. Len(chain'[b]) /\ chain'[b][m] = c  BY <2>4
    <3> HIDE DEF m
    <3>2. HomeIn(chain', chain'[b][m]) = b /\ PlaceIn(chain', b, chain'[b][m]) = m
      BY <3>1, <2>2, <1>2, HomeIs
    <3> QED  BY <3>1, <3>2 DEF m
  <2>6. Len(chain'[b]) = Len(chain[b]) + more(b)
    <3>1. CASE b = a
      BY <3>1, <1>2 DEF more
    <3>2. CASE b # a
      BY <3>2, <2>2, <2>3, <1>2 DEF more
    <3> QED  BY <3>1, <3>2
  <2> QED  BY <2>2, <2>3, <2>5, <2>6 DEF b, i
<1> QED  BY <1>3 DEF a

\* The iterator while elements are put: what was ahead stays ahead.
LEMMA GrowKeeps ==
  ASSUME TableInv, kind = "set", Grows, IterOK, SetIterOK, UNCHANGED ivars, UNCHANGED <<kind, wild>>
  PROVE  SetIterOK'
<1>1. PICK x \in Cells \ Held, e \in Entries :
          /\ chain' = WithHead(chain, BucketOf(e.key), x)
          /\ entry' = WithEntry(entry, x, e)
          /\ cnt' = cnt + 1
  BY DEF Grows
<1> DEFINE a == BucketOf(e.key)
<1> HIDE DEF a
<1>2. \A d \in Held : d \in Held' /\ entry'[d] = entry[d]
  BY GrowsOK DEF TableInv
<1>3. \A p, b : PtrOK(p, b) => PtrOK(p, b)'
  BY GrowsOK DEF TableInv
<1> DEFINE more(b) == IF b = a THEN 1 ELSE 0
\* Every cell keeps its bucket, and moves up by one in the bucket that grows.
<1>4. ASSUME NEW c \in Held
      PROVE  LET b == BucketOf(entry[c].key)
             IN  /\ b \in Buckets /\ HomeIn(chain, c) = b /\ HomeIn(chain', c) = b
                 /\ PlaceIn(chain, b, c) \in Nat
                 /\ PlaceIn(chain', b, c) = PlaceIn(chain, b, c) + more(b)
  BY <1>1, GrowMoves DEF a
<1>5. ASSUME NEW c \in Held  PROVE c \in Ahead' <=> c \in Ahead
  <2>1. UNCHANGED <<phase, idx, li, seen, again, due>>
    BY DEF ivars
  <2>2. CASE phase # "going" \/ idx = Size
    BY <2>1, <2>2, AheadIs, AheadIsNext
  <2>3. CASE phase = "going" /\ idx # Size
    <3> DEFINE b == BucketOf(entry[c].key)
    <3>1. idx < Size /\ idx \in Nat
      BY <2>3, HashDictAssumption DEF IterOK
    <3>2. li \in Held /\ BucketOf(entry[li].key) = idx
      <4>1. li \in Held /\ PtrOK(li, idx)
        BY <2>3, <3>1 DEF SetIterOK
      <4>2. idx \notin Held
        BY <3>1, BucketsAreNotCells, HashDictAssumption DEF Held, Buckets
      <4> QED  BY <4>1, <4>2 DEF PtrOK
    <3>3. /\ PlaceIn(chain, idx, li) \in Nat
          /\ PlaceIn(chain', idx, li) = PlaceIn(chain, idx, li) + more(idx)
      BY <3>2, <1>4
    <3>4. /\ HomeIn(chain, c) = b /\ HomeIn(chain', c) = b
          /\ PlaceIn(chain, b, c) \in Nat
          /\ PlaceIn(chain', b, c) = PlaceIn(chain, b, c) + more(b)
      BY <1>4
    <3>5. more(idx) \in Nat
      OBVIOUS
    <3> HIDE DEF more, b
    <3>6. b = idx => (PlaceIn(chain', idx, c) >= PlaceIn(chain', idx, li')
                        <=> PlaceIn(chain, idx, c) >= PlaceIn(chain, idx, li))
      BY <3>3, <3>4, <3>5, <2>1
    <3> QED  BY <2>1, <2>3, <3>4, <3>6, <1>2, AheadIs, AheadIsNext
  <2> QED  BY <2>2, <2>3
<1>6. UNCHANGED <<phase, idx, li, seen, again, due, kind, wild>>
  BY DEF ivars
<1>7. Ahead' \cap seen' = {}
  BY <1>5, <1>6 DEF SetIterOK, EachOnce
<1>8. phase # "none" => due' \subseteq seen' \cup Ahead'
  BY <1>5, <1>6 DEF SetIterOK, NoneMissed
<1>9. EachOnce' /\ NoneMissed'
  BY <1>6, <1>7, <1>8 DEF SetIterOK, EachOnce, NoneMissed
<1>10. seen' \subseteq Held' /\ due' \subseteq Held' /\ ~wild'
  BY <1>2, <1>6 DEF SetIterOK
<1>11. ASSUME phase' = "going", idx' < Size  PROVE PtrOK(li, idx)' /\ li' \in Held'
  BY <1>2, <1>3, <1>6, <1>11 DEF SetIterOK, PtrOK
<1> QED  BY <1>9, <1>10, <1>11 DEF SetIterOK

\* next of a set's iterator returns what is first ahead and leaves the rest ahead.
LEMMA IterNextAhead ==
  ASSUME TableInv, IterOK, SetIterOK, kind = "set", IterNext, idx < Size
  PROVE  /\ UNCHANGED <<tvars, phase, due>>
         /\ li \in Ahead /\ li \in Held /\ seen' = seen \cup {li} /\ again' = (again \/ li \in seen)
         /\ Ahead' = Ahead \ {li}
         /\ idx' \in 0 .. Size /\ li' \in Cells \cup {Nil}
         /\ idx' < Size => PtrOK(li', idx') /\ li' \in Held
<1> DEFINE j == PlaceIn(chain, idx, li)
           after == Deref(li)
<1>1. /\ phase = "going" /\ idx \in 0 .. Size /\ Size \in Nat \ {0} /\ idx \in Buckets
      /\ Lists(chain, entry) /\ chain[idx] \in Seq(Cells) /\ Len(chain[idx]) \in Nat
  <2>1. Size \in Nat \ {0}  BY HashDictAssumption
  <2>2. phase = "going" /\ idx \in 0 .. Size
    BY DEF IterNext, IterOK
  <2>3. idx \in Buckets
    BY <2>1, <2>2 DEF Buckets
  <2>4. Lists(chain, entry) /\ \A b \in Buckets : chain[b] \in Seq(Cells)
    BY DEF TableInv, TableOK, Lists
  <2>5. chain[idx] \in Seq(Cells) /\ Len(chain[idx]) \in Nat
    BY <2>3, <2>4
  <2> QED  BY <2>1, <2>2, <2>3, <2>4, <2>5
<1>2. li \in Held /\ PtrOK(li, idx) /\ ~Stale(li) /\ li \in Cells
  BY <1>1, PtrFacts DEF SetIterOK, Held
<1>3. /\ seen' = seen \cup {li} /\ again' = (again \/ li \in seen)
      /\ Advance(after) /\ UNCHANGED <<tvars, phase, due>>
  BY <1>2, <1>1 DEF IterNext
<1>4. UNCHANGED <<chain, entry, kind, wild>> /\ Held' = Held
  BY <1>3 DEF tvars, Held
<1>5. BucketOf(entry[li].key) = idx
  BY <1>1, <1>2, BucketsAreNotCells DEF PtrOK
<1>6. HomeIn(chain, li) = idx /\ j \in 1 .. Len(chain[idx]) /\ chain[idx][j] = li
  BY <1>1, <1>2, <1>5, BucketsAreNotCells, PlaceOfCell
<1>7. Place(li) = j
  <2>1. li \notin Buckets  BY <1>2, BucketsAreNotCells DEF Held
  <2> QED  BY <2>1, <1>6 DEF Place, Home, IndexIn, HomeIn, PlaceIn
<1>8. li \in Ahead
  BY <1>1, <1>2, <1>6, AheadIs
\* Where the other cells are.
<1>9. ASSUME NEW c \in Held
      PROVE  LET b == HomeIn(chain, c)
             IN  /\ b \in Buckets /\ PlaceIn(chain, b, c) \in 1 .. Len(chain[b])
                 /\ chain[b][PlaceIn(chain, b, c)] = c /\ chain[b] # << >>
  <2> DEFINE b == HomeIn(chain, c)
  <2>1. b \in Buckets /\ PlaceIn(chain, b, c) \in 1 .. Len(chain[b]) /\ chain[b][PlaceIn(chain, b, c)] = c
    BY <1>1, BucketsAreNotCells, PlaceOfCell
  <2> QED  BY <2>1
<1>10. CASE j < Len(chain[idx])
  <2>1. /\ after = chain[idx][j + 1] /\ after \in Held /\ after # Nil /\ PtrOK(after, idx)
    BY <1>1, <1>2, <1>7, <1>10, PtrFacts
  <2>2. li' = after /\ idx' = idx /\ after \in Cells
    BY <1>3, <2>1 DEF Advance, Held
  <2>3. PlaceIn(chain, idx, after) = j + 1
    <3>1. j + 1 \in 1 .. Len(chain[idx])  BY <1>6, <1>10
    <3> QED  BY <3>1, <2>1, <1>1, HomeIs
  <2> HIDE DEF after, j
  <2>4. ASSUME NEW c  PROVE c \in Ahead' <=> c \in Ahead \ {li}
    <3> DEFINE k == PlaceIn(chain, idx, c)
    <3>1. c \in Ahead' <=>
              c \in Held /\ (HomeIn(chain, c) > idx \/ (HomeIn(chain, c) = idx /\ k >= j + 1))
      BY <1>1, <1>3, <1>4, <2>2, <2>3, AheadIsNext
    <3>2. c \in Ahead <=>
              c \in Held /\ (HomeIn(chain, c) > idx \/ (HomeIn(chain, c) = idx /\ k >= j))
      BY <1>1, AheadIs DEF j
    <3>3. c \in Held /\ HomeIn(chain, c) = idx => k \in Nat /\ (k = j <=> c = li)
      BY <1>6, <1>9 DEF j
    <3>4. ~(HomeIn(chain, li) > idx) /\ j \in Nat
      BY <1>1, <1>6
    <3> HIDE DEF k
    <3> QED  BY <3>1, <3>2, <3>3, <3>4
  <2> QED  BY <2>1, <2>2, <2>4, <1>1, <1>2, <1>3, <1>8
<1>11. CASE ~(j < Len(chain[idx]))
  <2>1. j = Len(chain[idx]) /\ after = Nil
    BY <1>1, <1>2, <1>6, <1>7, <1>11, PtrFacts
  <2> DEFINE n == FirstBucket(idx + 1)
  <2>2. idx' = n /\ li' = IF idx + 1 = Size THEN li ELSE BucketHead(n)
    BY <1>3, <2>1 DEF Advance
  <2>3. /\ n \in idx + 1 .. Size /\ (n = Size \/ chain[n] # << >>)
        /\ \A m \in idx + 1 .. n - 1 : chain[m] = << >>
    <3>1. idx + 1 \in 0 .. Size  BY <1>1
    <3> QED  BY <3>1, FirstBucketIs
  <2> HIDE DEF n, j, after
  <2>4. ASSUME NEW c  PROVE c \in Ahead \ {li} <=> c \in Held /\ HomeIn(chain, c) >= n
    <3>1. c \in Ahead <=>
              c \in Held /\ (HomeIn(chain, c) > idx \/ (HomeIn(chain, c) = idx /\ PlaceIn(chain, idx, c) >= j))
      BY <1>1, AheadIs DEF j
    <3>2. c \in Held /\ HomeIn(chain, c) = idx /\ PlaceIn(chain, idx, c) >= j => c = li
      BY <1>6, <1>9, <2>1 DEF j
    <3>3. ~(HomeIn(chain, li) > idx)
      BY <1>1, <1>6
    <3>4. c \in Held => HomeIn(chain, c) \in 0 .. Size - 1 /\ chain[HomeIn(chain, c)] # << >>
      BY <1>9 DEF Buckets
    <3>5. c \in Held => (HomeIn(chain, c) > idx <=> HomeIn(chain, c) >= n)
      BY <3>4, <2>3, <1>1
    <3>6. HomeIn(chain, li) = idx /\ ~(idx >= n)
      BY <1>1, <1>6, <2>3
    <3> QED  BY <3>1, <3>2, <3>3, <3>5, <3>6
  <2>5. CASE n = Size
    <3>1. Ahead' = {}
      BY <2>2, <2>5, AheadIsNext
    <3>2. \A c \in Held : ~(HomeIn(chain, c) >= Size)
      BY <1>9, <1>1 DEF Buckets
    <3>3. Ahead' = Ahead \ {li}
      BY <3>1, <3>2, <2>4, <2>5
    <3>4. li' \in Cells \cup {Nil} /\ idx' = Size
      BY <2>2, <2>5, <1>2 DEF BucketHead
    <3> QED  BY <3>3, <3>4, <1>1, <1>2, <1>3, <1>8
  <2>6. CASE n # Size
    <3>1. n \in Buckets /\ chain[n] # << >> /\ idx + 1 # Size
      BY <2>3, <2>6, <1>1 DEF Buckets
    <3>2. /\ BucketHead(n) \in Cells /\ PtrOK(BucketHead(n), n) /\ BucketHead(n) \in Held
          /\ PlaceIn(chain, n, BucketHead(n)) = 1
      BY <3>1, BucketHeadIs
    <3>3. li' = BucketHead(n) /\ idx' = n /\ n \in 0 .. Size
      BY <3>1, <2>2, <2>3, <1>1
    <3>4. ASSUME NEW c  PROVE c \in Ahead' <=> c \in Ahead \ {li}
      <4>1. c \in Ahead' <=>
                c \in Held /\ (HomeIn(chain, c) > n \/ (HomeIn(chain, c) = n /\ PlaceIn(chain, n, c) >= 1))
        BY <1>1, <1>3, <1>4, <2>6, <3>2, <3>3, AheadIsNext
      <4>2. c \in Held => /\ HomeIn(chain, c) \in Nat
                          /\ HomeIn(chain, c) = n => PlaceIn(chain, n, c) \in Nat /\ PlaceIn(chain, n, c) >= 1
        BY <1>9, <1>1 DEF Buckets
      <4>3. n \in Nat
        BY <3>3
      <4> QED  BY <4>1, <4>2, <4>3, <2>4
    <3>5. Ahead' = Ahead \ {li}
      BY <3>4
    <3> QED  BY <3>2, <3>3, <3>5, <1>1, <1>2, <1>3, <1>8
  <2> QED  BY <2>5, <2>6
<1> QED  BY <1>10, <1>11, <1>6

LEMMA IterNextKeeps ==
  ASSUME TableInv, IterOK, SetIterOK, IterNext
  PROVE  IterOK' /\ SetIterOK'
<1>1. /\ phase = "going" /\ idx \in 0 .. Size /\ Size \in Nat \ {0} /\ ~wild
  BY HashDictAssumption DEF IterNext, IterOK
<1>2. CASE idx >= Size
  <2>1. phase' = "done" /\ UNCHANGED <<tvars, idx, li, seen, again, due>>
    BY <1>2 DEF IterNext
  <2>2. UNCHANGED <<kind, wild, entry>> /\ Held' = Held
    BY <2>1 DEF tvars, Held
  <2>3. Ahead = {} /\ Ahead' = {}
    BY <1>1, <1>2, <2>1, AheadIs, AheadIsNext
  <2>4. IterOK'
    BY <2>1 DEF IterOK
  <2>5. SetIterOK'
    BY <1>1, <2>1, <2>2, <2>3 DEF SetIterOK, EachOnce, NoneMissed
  <2> QED  BY <2>4, <2>5
<1>3. CASE idx < Size /\ kind = "set"
  <2>1. /\ UNCHANGED <<tvars, phase, due>>
        /\ li \in Ahead /\ li \in Held /\ seen' = seen \cup {li} /\ again' = (again \/ li \in seen)
        /\ Ahead' = Ahead \ {li}
        /\ idx' \in 0 .. Size /\ li' \in Cells \cup {Nil}
        /\ idx' < Size => PtrOK(li', idx') /\ li' \in Held
    BY <1>3, IterNextAhead
  <2>2. UNCHANGED <<kind, wild, entry>> /\ Held' = Held /\ Held \subseteq Cells
    BY <2>1 DEF tvars, Held
  <2>3. IterOK'
    BY <2>1, <2>2 DEF IterOK
  <2>4. EachOnce'
    BY <2>1, <2>2, <1>3 DEF SetIterOK, EachOnce
  <2>5. NoneMissed'
    BY <2>1, <2>2, <1>1, <1>3 DEF SetIterOK, NoneMissed
  <2>6. ASSUME idx' < Size  PROVE PtrOK(li, idx)' /\ li' \in Held'
    BY <2>1, <2>2, <2>6 DEF PtrOK
  <2> QED  BY <2>1, <2>2, <2>3, <2>4, <2>5, <2>6, <1>1, <1>3 DEF SetIterOK
<1>4. CASE idx < Size /\ kind # "set"
  <2>1. UNCHANGED <<kind, callbacks>>
    BY DEF IterNext, GoWild, tvars
  <2>2. CASE Stale(li)
    <3>1. UNCHANGED ivars
      BY <1>4, <2>2, <1>1 DEF IterNext
    <3> QED  BY <3>1, <2>1, <1>4 DEF ivars, IterOK, SetIterOK
  <2>3. CASE ~Stale(li)
    <3>1. /\ seen' = seen \cup {li} /\ Advance(Deref(li)) /\ UNCHANGED <<tvars, phase, due>>
          /\ li \in Cells /\ li \in Held
      BY <1>4, <2>3, <1>1 DEF IterNext, IterOK, Stale
    <3>2. Deref(li) \in Cells \cup {Nil}
      <4> DEFINE b == BucketOf(entry[li].key)
      <4>1. Lists(chain, entry) /\ li \in InUse(entry)
        BY <3>1, BucketsAreNotCells DEF TableInv, TableOK
      <4>2. b \in Buckets /\ PtrOK(li, b)
        BY <3>1, <4>1, PlaceOfCell DEF PtrOK
      <4>3. Len(chain[b]) \in Nat
        BY <4>1, <4>2 DEF Lists
      <4> HIDE DEF b
      <4> QED  BY <4>1, <4>2, <4>3, PtrFacts DEF Held
    <3>3. /\ idx' \in 0 .. Size /\ li' \in Cells \cup {Nil}
          /\ idx' < Size => li' \in Cells
      <4>1. CASE Deref(li) # Nil
        BY <1>1, <3>1, <3>2, <4>1 DEF Advance
      <4>2. CASE Deref(li) = Nil
        <5> DEFINE n == FirstBucket(idx + 1)
        <5>1. n \in idx + 1 .. Size /\ (n = Size \/ chain[n] # << >>)
          <6>1. idx + 1 \in 0 .. Size  BY <1>1, <1>4
          <6> QED  BY <6>1, FirstBucketIs
        <5>2. idx' = n /\ li' = IF idx + 1 = Size THEN li ELSE BucketHead(n)
          BY <3>1, <4>2 DEF Advance
        <5> HIDE DEF n
        <5>3. n # Size => n \in Buckets /\ BucketHead(n) \in Cells
          <6>1. n # Size => n \in Buckets /\ chain[n] # << >>
            BY <5>1, <1>1 DEF Buckets
          <6> QED  BY <6>1, BucketHeadIs
        <5>4. BucketHead(Size) = Nil
          BY DEF BucketHead
        <5> QED  BY <1>1, <3>1, <5>1, <5>2, <5>3, <5>4
      <4> QED  BY <4>1, <4>2
    <3> QED  BY <3>1, <3>3, <2>1, <1>4 DEF IterOK, SetIterOK
  <2> QED  BY <2>2, <2>3
<1> QED  BY <1>1, <1>2, <1>3, <1>4

-----------------------------------------------------------------------------
(* The invariant of the composition.                                       *)

Inv == Gentle => TableInv /\ IterOK /\ SetIterOK

LEMMA InvStarts ==  Init => Inv
<1> SUFFICES ASSUME Init  PROVE TableInv /\ IterOK /\ SetIterOK
  BY DEF Inv
<1>1. TableInv
  BY TableStarts DEF Init
<1>2. /\ idx = 0 /\ li = Nil /\ phase = "none" /\ seen = {} /\ again = FALSE /\ due = {} /\ wild = FALSE
  BY DEF Init, TInit
<1>3. Ahead = {}
  BY <1>2 DEF Ahead
<1>4. IterOK
  BY <1>2, HashDictAssumption DEF IterOK
<1>5. SetIterOK
  BY <1>2, <1>3 DEF SetIterOK, EachOnce, NoneMissed
<1> QED  BY <1>1, <1>4, <1>5

\* The table while only the iterator moves.
LEMMA SameTableKeeps ==
  ASSUME TableInv, UNCHANGED <<kind, callbacks, chain, entry, cnt, frozen, calls>>, wild' \in BOOLEAN
  PROVE  TableInv'
<1>1. CallsOK'
  BY CallsStay DEF TableInv, CallsOK
<1> QED  BY <1>1 DEF TableInv

\* The iterator while the lists are as they were.
LEMMA SameListsKeep ==
  ASSUME SetIterOK, UNCHANGED <<kind, chain, entry, wild>>, UNCHANGED ivars
  PROVE  SetIterOK'
<1>1. Held' = Held /\ UNCHANGED <<idx, li, phase, seen, again, due>>
  BY DEF Held, ivars
<1>2. \A p, b : PtrOK(p, b)' <=> PtrOK(p, b)
  BY <1>1 DEF PtrOK
<1>3. ASSUME NEW c  PROVE c \in Ahead' <=> c \in Ahead
  BY <1>1, AheadIs, AheadIsNext
<1>4. EachOnce' /\ NoneMissed' <=> EachOnce /\ NoneMissed
  BY <1>1, <1>3 DEF EachOnce, NoneMissed
<1>5. PtrOK(li, idx)' <=> PtrOK(li, idx)
  BY <1>1 DEF PtrOK
<1> QED  BY <1>1, <1>4, <1>5 DEF SetIterOK

LEMMA InvSteps ==  Inv /\ [Next]_vars => Inv'
<1> SUFFICES ASSUME Inv, [Next]_vars, Gentle'  PROVE (TableInv /\ IterOK /\ SetIterOK)'
  BY DEF Inv
<1>1. UNCHANGED <<kind, callbacks>>
  BY DEF Next, TNext, ToIter, Reset, IterNext, GoWild, vars, tvars
<1>2. Gentle /\ TableInv /\ IterOK /\ SetIterOK
  BY <1>1 DEF Inv, Gentle
<1>3. CASE UNCHANGED vars
  <2>1. UNCHANGED tvars /\ UNCHANGED ivars
    BY <1>3 DEF vars
  <2>2. TableInv'
    BY <2>1, <1>2, SameTableKeeps DEF tvars, TableInv
  <2>3. SetIterOK'
    BY <2>1, <1>2, SameListsKeep DEF tvars
  <2>4. IterOK'
    BY <2>1, <1>2 DEF ivars, IterOK
  <2> QED  BY <2>2, <2>3, <2>4
<1>4. CASE TNext /\ UNCHANGED ivars
  <2>1. TableInv' /\ UNCHANGED <<kind, wild>> /\ (kind = "set" => SameTable \/ Grows)
    BY <1>2, <1>4, TableSteps
  <2>2. IterOK'
    BY <1>2, <1>4 DEF ivars, IterOK
  <2>3. SetIterOK'
    <3>1. CASE kind = "set" /\ SameTable
      BY <2>1, <3>1, <1>2, <1>4, SameListsKeep DEF SameTable
    <3>2. CASE kind = "set" /\ Grows
      BY <2>1, <3>2, <1>2, <1>4, GrowKeeps
    <3>3. CASE kind # "set"
      BY <2>1, <3>3 DEF SetIterOK
    <3> QED  BY <2>1, <3>1, <3>2, <3>3
  <2> QED  BY <2>1, <2>2, <2>3
<1>5. ASSUME UNCHANGED <<kind, callbacks, chain, entry, cnt, frozen, calls>>, wild' \in BOOLEAN
      PROVE  TableInv'
  BY <1>2, <1>5, SameTableKeeps
<1>6. ASSUME Begin, UNCHANGED tvars, ~wild  PROVE (TableInv /\ IterOK /\ SetIterOK)'
  <2>1. TableInv'
    BY <1>2, <1>5, <1>6 DEF tvars, TableInv
  <2>2. kind = "set" => ~again
    BY <1>2 DEF SetIterOK, EachOnce
  <2> QED  BY <2>1, <2>2, <1>2, <1>6, BeginKeeps
<1>7. CASE ToIter
  BY <1>6, <1>7 DEF ToIter
<1>8. CASE Reset
  BY <1>6, <1>8 DEF Reset
<1>9. CASE IterNext
  <2>1. UNCHANGED <<kind, callbacks, chain, entry, cnt, frozen, calls>> /\ wild' \in BOOLEAN
    BY <1>2, <1>9 DEF IterNext, GoWild, tvars, TableInv
  <2> QED  BY <2>1, <1>2, <1>5, <1>9, IterNextKeeps
<1> QED  BY <1>3, <1>4, <1>7, <1>8, <1>9 DEF Next

LEMMA Invariance ==  Spec => []Inv
<1>1. Init => Inv
  BY InvStarts
<1>2. Inv /\ [Next]_vars => Inv'
  BY InvSteps
<1> QED  BY <1>1, <1>2, PTL DEF Spec

-----------------------------------------------------------------------------
(* What follows.                                                           *)

LEMMA TypesFollow ==  TableInv /\ IterOK => IterTypeOK
<1> SUFFICES ASSUME TableInv, IterOK  PROVE IterTypeOK
  OBVIOUS
<1>1. entry \in [Cells -> [key : Keys \cup {Nil}, val : Vals \cup {NoVal, Nil}]]
  <2>1. Entries \cup {Free} \subseteq [key : Keys \cup {Nil}, val : Vals \cup {NoVal, Nil}]
    BY DEF Entries, Free, Pair
  <2> QED  BY <2>1 DEF TableInv, TableOK, Lists
<1>2. TypeOK
  BY <1>1 DEF TypeOK, TableInv, TableOK, Lists, CallsOK
<1> QED  BY <1>2 DEF IterTypeOK, IterOK

LEMMA CountFollows ==  TableInv => CntExact
<1> SUFFICES ASSUME TableInv  PROVE CntExact
  OBVIOUS
<1>1. /\ Lists(chain, entry) /\ Held = InUse(entry)
      /\ \A b \in Buckets : chain[b] \in Seq(Cells) /\ DOMAIN chain[b] = 1 .. Len(chain[b])
  BY BucketsAreNotCells DEF TableInv, TableOK, Lists
<1>2. ASSUME NEW b \in Buckets  PROVE IsInjective(chain[b])
  <2>1. ASSUME NEW i \in 1 .. Len(chain[b]), NEW j \in 1 .. Len(chain[b]), chain[b][i] = chain[b][j]
        PROVE  i = j
    BY <1>1, <2>1, OnePlace
  <2> QED  BY <1>1, <2>1 DEF IsInjective
<1>3. ASSUME NEW a \in Buckets, NEW b \in Buckets, a # b
      PROVE  ToSet(chain[a]) \cap ToSet(chain[b]) = {}
  <2> SUFFICES ASSUME NEW c \in ToSet(chain[a]), c \in ToSet(chain[b])  PROVE FALSE
    OBVIOUS
  <2>1. PICK i \in 1 .. Len(chain[a]) : chain[a][i] = c  BY <1>1 DEF ToSet
  <2>2. PICK j \in 1 .. Len(chain[b]) : chain[b][j] = c  BY <1>1 DEF ToSet
  <2> QED  BY <1>1, <1>3, <2>1, <2>2, OnePlace
<1>4. UNION {ToSet(chain[b]) : b \in Buckets} = Held
  <2>1. ASSUME NEW b \in Buckets, NEW c \in ToSet(chain[b])  PROVE c \in Held
    <3>1. PICK i \in 1 .. Len(chain[b]) : chain[b][i] = c  BY <1>1 DEF ToSet
    <3>2. c \in Cells /\ entry[c] # Free  BY <1>1, <3>1 DEF Lists
    <3> QED  BY <3>2 DEF Held
  <2>2. ASSUME NEW c \in Held  PROVE \E b \in Buckets : c \in ToSet(chain[b])
    <3> DEFINE b == BucketOf(entry[c].key)
    <3>1. b \in Buckets /\ PlaceIn(chain, b, c) \in 1 .. Len(chain[b]) /\ chain[b][PlaceIn(chain, b, c)] = c
      BY <1>1, PlaceOfCell
    <3> HIDE DEF b
    <3>2. c \in ToSet(chain[b])
      BY <1>1, <3>1 DEF ToSet
    <3> QED  BY <3>1, <3>2
  <2> QED  BY <2>1, <2>2
<1>5. cnt = Cardinality(Held)
  BY <1>1 DEF TableInv, TableOK
<1> QED  BY <1>2, <1>3, <1>4, <1>5 DEF CntExact

\* The variables have their types as long as no equal method moves the cells of
\* the table that it is called from.
THEOREM TablesTyped ==  Spec => [](Gentle => IterTypeOK)
<1>1. Inv => (Gentle => IterTypeOK)
  BY TypesFollow DEF Inv
<1> QED  BY <1>1, Invariance, PTL

\* The count of a set or dictionary is the number of its cells, each in one list,
\* also in the middle of a search and after a search that an equal method gave up.
THEOREM CountIsExact ==  Spec => [](Gentle => CntExact)
<1>1. Inv => (Gentle => CntExact)
  BY CountFollows DEF Inv
<1> QED  BY <1>1, Invariance, PTL

\* Iterating over a frozen set returns no element twice, whatever is put meanwhile.
THEOREM SetReturnsEachOnce ==  Spec => []EachOnce
<1>1. Inv => EachOnce
  BY DEF Inv, Gentle, SetIterOK, EachOnce
<1> QED  BY <1>1, Invariance, PTL

\* It misses none of the elements that were in the set when it began.
THEOREM SetMissesNone ==  Spec => []NoneMissed
<1>1. Inv => NoneMissed
  BY DEF Inv, Gentle, SetIterOK, NoneMissed
<1> QED  BY <1>1, Invariance, PTL

\* In a set, no search and no iterator follows a pointer into a freed cell,
\* whatever the equal methods of the elements do.
THEOREM SetsNeverWild ==  Spec => [](kind = "set" => ~wild)
<1>1. Inv => (kind = "set" => ~wild)
  BY DEF Inv, Gentle, SetIterOK
<1> QED  BY <1>1, Invariance, PTL

\* What is left of IterationEnds, for sets, without fairness: next ends the iteration
\* or returns an element of the set that it has not returned, so it can go on no longer
\* than there are cells.
THEOREM NextReturnsAnother ==
  Spec => [][kind = "set" /\ IterNext =>
                 phase' = "done" \/ (li \in Held \ seen /\ seen' = seen \cup {li})]_vars
<1> DEFINE Another == phase' = "done" \/ (li \in Held \ seen /\ seen' = seen \cup {li})
<1>1. Inv /\ [Next]_vars => [kind = "set" /\ IterNext => Another]_vars
  <2> HIDE DEF Another
  <2> SUFFICES ASSUME Inv, [Next]_vars, kind = "set", IterNext  PROVE Another
    OBVIOUS
  <2> SUFFICES ASSUME phase' # "done"  PROVE li \in Held \ seen /\ seen' = seen \cup {li}
    BY DEF Another
  <2>1. UNCHANGED <<kind, callbacks, entry>>
    BY DEF IterNext, GoWild, tvars
  <2>2. SetIterOK'
    BY <2>1, InvSteps DEF Inv, Gentle
  <2>3. ~again' /\ ~wild' /\ seen' \subseteq Held'
    BY <2>1, <2>2 DEF SetIterOK, EachOnce
  <2>4. seen' = seen \cup {li} /\ again' = (again \/ li \in seen)
    BY <2>3 DEF IterNext, GoWild
  <2>5. Held' = Held
    BY <2>1 DEF Held
  <2> QED  BY <2>3, <2>4, <2>5
<1> QED  BY <1>1, Invariance, PTL DEF Spec

-----------------------------------------------------------------------------
(* A search gets on although the list that it walks grows.                 *)

\* The steps that a call has still to make before its list ends: two for each
\* cell after the one that it has come to.
ToGo(c) ==
    LET n == Len(chain[BucketOf(c.key)])
    IN  IF c.pc = "look" THEN 2 * (n - Place(c.p)) + 1 ELSE 2 * (n - Place(c.q)) + 2

Left(m) == IF m <= Len(calls) THEN ToGo(calls[m]) ELSE 0

\* No call that goes on is given more to do, and a step of the innermost one
\* leaves it less.
SearchAdvances ==
    /\ \A m \in 1 .. Len(calls) : Left(m)' <= Left(m)
    /\ Look \/ EqualReturns => \E m \in 1 .. Len(calls) : Left(m)' < Left(m)

\* Only the innermost operation is not in an equal method.
InnerOnly == \A m \in 1 .. Len(calls) : m < Len(calls) => calls[m].pc = "equal"

PlaceOf(ch, p) == IF p \in Buckets THEN 0 ELSE PlaceIn(ch, HomeIn(ch, p), p)

After(ch, b, p) == Len(ch[b]) - PlaceOf(ch, p)

ToGoIn(ch, c) ==
    LET b == BucketOf(c.key)
    IN  IF c.pc = "look" THEN 2 * After(ch, b, c.p) + 1 ELSE 2 * After(ch, b, c.q) + 2

LeftIn(ch, cs, m) == IF m <= Len(cs) THEN ToGoIn(ch, cs[m]) ELSE 0

LEMMA LeftIs ==
  ASSUME NEW m
  PROVE  Left(m) = LeftIn(chain, calls, m) /\ Left(m)' = LeftIn(chain', calls', m)
BY DEF Left, LeftIn, ToGo, ToGoIn, After, PlaceOf, Place, PlaceIn, HomeIn, Home, IndexIn

\* What comes after a pointer into a list.
LEMMA AfterFacts ==
  ASSUME Lists(chain, entry), NEW b \in Buckets, NEW p, PtrOK(p, b)
  PROVE  /\ After(chain, b, p) \in Nat
         /\ p \in Held => After(chain, b, p) < Len(chain[b])
         /\ Deref(p) # Nil => /\ PtrOK(Deref(p), b) /\ Deref(p) \in Held
                              /\ After(chain, b, Deref(p)) = After(chain, b, p) - 1
<1>1. Len(chain[b]) \in Nat
  BY DEF Lists
<1>2. \A x : PlaceOf(chain, x) = Place(x)
  BY DEF PlaceOf, Place, PlaceIn, HomeIn, Home, IndexIn
<1>3. /\ Place(p) \in 0 .. Len(chain[b])
      /\ p \in Held => Place(p) \in 1 .. Len(chain[b])
      /\ Deref(p) # Nil => /\ Place(p) < Len(chain[b]) /\ PtrOK(Deref(p), b) /\ Deref(p) \in Held
                           /\ Place(Deref(p)) = Place(p) + 1
  BY <1>1, PtrFacts
<1> QED  BY <1>1, <1>2, <1>3 DEF After

\* Putting a cell at the head of a list adds nothing after the cells it has.
LEMMA GrowAfter ==
  ASSUME TableInv, Grows, NEW c \in Held
  PROVE  LET b == BucketOf(entry[c].key)
         IN  After(chain', b, c) = After(chain, b, c)
<1>1. PICK x \in Cells \ Held, e \in Entries :
          /\ chain' = WithHead(chain, BucketOf(e.key), x)
          /\ entry' = WithEntry(entry, x, e)
          /\ cnt' = cnt + 1
  BY DEF Grows
<1> DEFINE b    == BucketOf(entry[c].key)
           more == IF b = BucketOf(e.key) THEN 1 ELSE 0
<1>2. /\ HomeIn(chain, c) = b /\ HomeIn(chain', c) = b
      /\ PlaceIn(chain, b, c) \in Nat /\ PlaceIn(chain', b, c) = PlaceIn(chain, b, c) + more
      /\ Len(chain[b]) \in Nat /\ Len(chain'[b]) = Len(chain[b]) + more
  BY <1>1, GrowMoves
<1>3. more \in Nat /\ c \notin Buckets
  BY BucketsAreNotCells DEF Held
<1> HIDE DEF b, more
<1>4. PlaceOf(chain, c) = PlaceIn(chain, b, c) /\ PlaceOf(chain', c) = PlaceIn(chain', b, c)
  BY <1>2, <1>3 DEF PlaceOf
<1>5. After(chain', b, c) = After(chain, b, c)
  BY <1>2, <1>3, <1>4 DEF After
<1> QED  BY <1>5 DEF b

LEMMA ToGoPositive ==
  ASSUME Lists(chain, entry), NEW c \in CallRecs, CallOK(c)
  PROVE  ToGoIn(chain, c) \in Nat \ {0}
<1> DEFINE b == BucketOf(c.key)
<1>1. b \in Buckets /\ c.pc \in {"look", "equal"}
  BY BucketOK DEF CallRecs
<1>2. c.pc = "look" => After(chain, b, c.p) \in Nat
  BY <1>1, AfterFacts DEF CallOK
<1>3. c.pc = "equal" => After(chain, b, c.q) \in Nat
  BY <1>1, AfterFacts DEF CallOK
<1> QED  BY <1>1, <1>2, <1>3 DEF ToGoIn

\* A call that waits in an equal method is given no more to do.
LEMMA ToGoStays ==
  ASSUME TableInv, NEW c \in CallRecs, CallOK(c),
         UNCHANGED <<chain, entry>> \/ (c.pc = "equal" /\ Grows)
  PROVE  ToGoIn(chain', c) = ToGoIn(chain, c)
<1> DEFINE b == BucketOf(c.key)
<1>1. CASE UNCHANGED <<chain, entry>>
  BY <1>1
<1>2. CASE c.pc = "equal" /\ Grows
  <2>1. b \in Buckets /\ c.q \in Held /\ PtrOK(c.q, b)
    BY <1>2, BucketOK DEF CallRecs, CallOK
  <2>2. BucketOf(entry[c.q].key) = b
    BY <2>1, BucketsAreNotCells DEF PtrOK, Held
  <2>3. After(chain', b, c.q) = After(chain, b, c.q)
    BY <1>2, <2>1, <2>2, GrowAfter
  <2> QED  BY <1>2, <2>3 DEF ToGoIn
<1> QED  BY <1>1, <1>2

\* Every call in progress has something to do.
LEMMA LeftPositive ==
  ASSUME TableInv
  PROVE  /\ Len(calls) \in Nat
         /\ \A m \in 1 .. Len(calls) :
                /\ calls[m] \in CallRecs /\ CallOK(calls[m])
                /\ ToGoIn(chain, calls[m]) \in Nat \ {0} /\ Left(m) = ToGoIn(chain, calls[m])
<1>1. calls \in Seq(CallRecs) /\ \A c \in ToSet(calls) : CallOK(c)
  BY DEF TableInv, CallsOK
<1>2. Lists(chain, entry)
  BY DEF TableInv, TableOK
<1>3. ASSUME NEW m \in 1 .. Len(calls)
      PROVE  /\ calls[m] \in CallRecs /\ CallOK(calls[m])
             /\ ToGoIn(chain, calls[m]) \in Nat \ {0} /\ Left(m) = ToGoIn(chain, calls[m])
  <2>1. calls[m] \in CallRecs /\ CallOK(calls[m])
    BY <1>1 DEF ToSet
  <2> QED  BY <1>2, <2>1, ToGoPositive, LeftIs DEF LeftIn
<1> QED  BY <1>1, <1>3

NoneGains == \A m \in 1 .. Len(calls) : Left(m)' <= Left(m)

OneLoses == \E m \in 1 .. Len(calls) : Left(m)' < Left(m)

\* The innermost call ends.
LEMMA PopAdvances ==
  ASSUME TableInv, InnerOnly, calls # << >>, calls' = Front(calls),
         UNCHANGED <<chain, entry>> \/ Grows \/ Len(calls) = 1
  PROVE  InnerOnly' /\ NoneGains /\ OneLoses
<1>1. PICK n \in Nat \ {0} : /\ n = Len(calls) /\ Len(calls') = n - 1
                            /\ \A m \in 1 .. n - 1 : calls'[m] = calls[m]
  <2>1. calls \in Seq(CallRecs)
    BY DEF TableInv, CallsOK
  <2> QED  BY <2>1, PoppedOK
<1>2. \A m \in 1 .. n : /\ calls[m] \in CallRecs /\ CallOK(calls[m])
                        /\ ToGoIn(chain, calls[m]) \in Nat \ {0}
                        /\ Left(m) = ToGoIn(chain, calls[m])
  BY <1>1, LeftPositive
<1>3. ASSUME NEW m \in 1 .. n - 1
      PROVE  calls[m].pc = "equal" /\ Left(m)' = Left(m)
  <2>1. m \in 1 .. n /\ m < n /\ n # 1 /\ m <= n - 1
    BY <1>1
  <2>2. calls[m].pc = "equal"
    BY <1>1, <2>1 DEF InnerOnly
  <2>3. ToGoIn(chain', calls[m]) = ToGoIn(chain, calls[m])
    BY <1>1, <1>2, <2>1, <2>2, ToGoStays
  <2>4. Left(m)' = ToGoIn(chain', calls'[m])
    BY <1>1, <2>1, LeftIs DEF LeftIn
  <2> QED  BY <1>1, <1>2, <2>1, <2>2, <2>3, <2>4
<1>4. n \in 1 .. n /\ Left(n)' = 0
  <2>1. ~(n <= Len(calls'))
    BY <1>1
  <2> QED  BY <1>1, <2>1, LeftIs DEF LeftIn
<1>5. InnerOnly'
  BY <1>1, <1>3 DEF InnerOnly
<1>6. \A m \in 1 .. n : m \in 1 .. n - 1 \/ m = n
  BY <1>1
<1>7. NoneGains
  BY <1>1, <1>2, <1>3, <1>4, <1>6 DEF NoneGains
<1>8. OneLoses
  BY <1>1, <1>2, <1>4 DEF OneLoses
<1> QED  BY <1>5, <1>7, <1>8

\* The innermost call takes a step along the list.
LEMMA TopAdvances ==
  ASSUME TableInv, InnerOnly, calls # << >>, UNCHANGED <<chain, entry>>,
         NEW c, ToGoIn(chain, c) \in Nat, ToGoIn(chain, c) < ToGoIn(chain, Top),
         calls' = [calls EXCEPT ![Len(calls)] = c]
  PROVE  InnerOnly' /\ NoneGains /\ OneLoses
<1>1. PICK n \in Nat \ {0} :
          /\ n = Len(calls) /\ Len(calls') = n /\ Top = calls[n]
          /\ \A m \in 1 .. n : calls'[m] = IF m = n THEN c ELSE calls[m]
  <2>1. calls \in Seq(CallRecs)
    BY DEF TableInv, CallsOK
  <2>2. DOMAIN calls = 1 .. Len(calls) /\ Len(calls) \in Nat \ {0}
    BY <2>1
  <2>3. /\ Len(calls') = Len(calls) /\ Top = calls[Len(calls)]
        /\ \A m \in 1 .. Len(calls) : calls'[m] = IF m = Len(calls) THEN c ELSE calls[m]
    BY <2>2 DEF Top, Last
  <2> QED  BY <2>2, <2>3
<1>2. \A m \in 1 .. n : /\ ToGoIn(chain, calls[m]) \in Nat \ {0}
                        /\ Left(m) = ToGoIn(chain, calls[m])
  BY <1>1, LeftPositive
<1>3. ASSUME NEW m \in 1 .. n
      PROVE  Left(m)' = ToGoIn(chain, IF m = n THEN c ELSE calls[m])
  BY <1>1, LeftIs DEF LeftIn
<1>4. InnerOnly'
  <2>1. \A m \in 1 .. n : m < n => calls[m].pc = "equal" /\ calls'[m] = calls[m]
    BY <1>1 DEF InnerOnly
  <2> QED  BY <1>1, <2>1 DEF InnerOnly
<1>5. NoneGains
  BY <1>1, <1>2, <1>3 DEF NoneGains
<1>6. n \in 1 .. n
  BY <1>1
<1>7. OneLoses
  BY <1>1, <1>2, <1>3, <1>6 DEF OneLoses
<1> QED  BY <1>4, <1>5, <1>7

\* Nothing happens to the calls that are there.
LEMMA CallsWait ==
  ASSUME TableInv, InnerOnly, UNCHANGED <<chain, entry, calls>>
  PROVE  InnerOnly' /\ NoneGains
<1>1. \A m \in 1 .. Len(calls) : Left(m)' = Left(m) /\ Left(m) \in Nat
  BY LeftIs, LeftPositive
<1>2. NoneGains
  BY <1>1 DEF NoneGains
<1> QED  BY <1>2 DEF InnerOnly

\* A call begins.
LEMMA StartAdvances ==
  ASSUME TableInv, InnerOnly, NEW op \in OpsOf.set \cup OpsOf.dict,
         NEW k \in Keys, NEW v \in Vals \cup {NoVal}, Start(op, k, v)
  PROVE  InnerOnly' /\ NoneGains
<1>1. UNCHANGED <<chain, entry>>
  BY DEF Start
<1>2. CASE op = "atput" /\ frozen
  BY <1>1, <1>2, CallsWait DEF Start
<1>3. CASE ~(op = "atput" /\ frozen)
  <2> DEFINE c == SearchFor(op, k, v)
             n == Len(calls)
  <2>1. calls' = Append(calls, c) /\ c \in CallRecs
    BY <1>3, BucketOK DEF Start, SearchFor, CallRecs
  <2>2. calls \in Seq(CallRecs) /\ n \in Nat
    BY DEF TableInv, CallsOK
  <2>3. Len(calls') = n + 1 /\ \A m \in 1 .. n : calls'[m] = calls[m]
    BY <2>1, <2>2, PushedOK
  <2>4. n > 0 => calls[n].pc = "equal"
    BY <2>2 DEF Start, CanCall, InEqual, Top, Last
  <2> HIDE DEF n
  <2>5. InnerOnly'
    <3> SUFFICES ASSUME NEW m \in 1 .. n  PROVE calls[m].pc = "equal"
      BY <2>2, <2>3 DEF InnerOnly
    <3> QED  BY <2>2, <2>4 DEF InnerOnly, n
  <2>6. \A m \in 1 .. n : Left(m)' = Left(m) /\ Left(m) \in Nat
    BY <1>1, <2>2, <2>3, LeftIs, LeftPositive DEF LeftIn, n
  <2>7. NoneGains
    BY <2>6 DEF NoneGains, n
  <2> QED  BY <2>5, <2>7
<1> QED  BY <1>2, <1>3

\* Looking at the next cell takes a call one step further, or ends it.
LEMMA LookAdvances ==
  ASSUME TableInv, Gentle, InnerOnly, UNCHANGED <<kind, callbacks>>, Look
  PROVE  InnerOnly' /\ NoneGains /\ OneLoses
<1> DEFINE b == BucketOf(Top.key)
<1>1. /\ calls # << >> /\ Top \in CallRecs /\ b \in Buckets /\ PtrOK(Top.p, b) /\ ~Stale(Top.p)
      /\ Top.op \in OpsOf[kind] /\ Top.pc = "look"
  BY TopFacts DEF Look
<1>2. CASE Deref(Top.p) = Nil
  <2>1. Missing /\ UNCHANGED <<frozen, wild>>
    BY <1>1, <1>2 DEF Look
  <2>2. SameTable \/ Grows
    BY <1>1, <2>1, MissingKeeps
  <2>3. calls' = Front(calls)
    BY <2>1 DEF Missing, Return, ReturnGiven
  <2> QED  BY <1>1, <2>2, <2>3, PopAdvances DEF SameTable
<1>3. CASE Deref(Top.p) # Nil
  <2> DEFINE q == Deref(Top.p)
             c == [Top EXCEPT !.pc = "equal", !.q = q, !.seen = entry[q].key]
  <2>1. UNCHANGED <<chain, entry>> /\ calls' = [calls EXCEPT ![Len(calls)] = c]
    BY <1>1, <1>3 DEF Look, Top, Last
  <2>2. /\ After(chain, b, Top.p) \in Nat /\ After(chain, b, q) \in Nat
        /\ After(chain, b, q) = After(chain, b, Top.p) - 1
    <3>1. Lists(chain, entry)
      BY DEF TableInv, TableOK
    <3>2. PtrOK(q, b)
      BY <1>1, <1>3, <3>1, AfterFacts
    <3> QED  BY <1>1, <1>3, <3>1, <3>2, AfterFacts
  <2> HIDE DEF q
  <2>3. c.key = Top.key /\ c.q = q /\ c.pc = "equal"
    BY <1>1 DEF CallRecs
  <2> HIDE DEF c
  <2>4. /\ ToGoIn(chain, c) = 2 * After(chain, b, q) + 2
        /\ ToGoIn(chain, Top) = 2 * After(chain, b, Top.p) + 1
    BY <1>1, <2>3 DEF ToGoIn
  <2>5. ToGoIn(chain, c) \in Nat /\ ToGoIn(chain, c) < ToGoIn(chain, Top)
    BY <2>2, <2>4
  <2> QED  BY <1>1, <2>1, <2>5, TopAdvances
<1> QED  BY <1>2, <1>3

\* So does the answer of an equal method, whatever this has done to the table.
LEMMA EqualReturnsAdvances ==
  ASSUME TableInv, Gentle, InnerOnly, UNCHANGED <<kind, callbacks>>, EqualReturns
  PROVE  InnerOnly' /\ NoneGains /\ OneLoses
<1> DEFINE b == BucketOf(Top.key)
<1>1. /\ InEqual /\ calls # << >> /\ Top \in CallRecs /\ b \in Buckets /\ ~Stale(Top.p)
      /\ Top.op \in OpsOf[kind] /\ CallOK(Top) /\ Top.pc = "equal"
      /\ Top.op \in {"atput", "del"} => Len(calls) = 1
  BY TopFacts DEF EqualReturns, InEqual
<1>2. CASE Equal(Top.key, Top.seen)
  <2>1. Found /\ UNCHANGED <<frozen, wild>>
    BY <1>1, <1>2, PointsAtCell DEF EqualReturns
  <2>2. Top.op \in {"at", "ate", "put", "del", "atput"}
    BY <1>1, OpsFacts DEF TableInv
  <2>3. calls' = Front(calls)
    BY <2>1, <2>2 DEF Found, Return, ReturnGiven
  <2>4. SameTable \/ Len(calls) = 1
    BY <1>1, <2>1, <2>2, FoundKeeps
  <2> QED  BY <1>1, <2>3, <2>4, PopAdvances DEF SameTable
<1>3. CASE ~Equal(Top.key, Top.seen)
  <2> DEFINE c == [Top EXCEPT !.pc = "look", !.p = Top.q]
  <2>1. UNCHANGED <<chain, entry>> /\ calls' = [calls EXCEPT ![Len(calls)] = c]
    BY <1>1, <1>3 DEF EqualReturns, Top, Last
  <2>2. After(chain, b, Top.q) \in Nat
    BY <1>1, AfterFacts DEF CallOK, TableInv, TableOK
  <2>3. c.key = Top.key /\ c.p = Top.q /\ c.pc = "look"
    BY <1>1 DEF CallRecs
  <2> HIDE DEF c
  <2>4. /\ ToGoIn(chain, c) = 2 * After(chain, b, Top.q) + 1
        /\ ToGoIn(chain, Top) = 2 * After(chain, b, Top.q) + 2
    BY <1>1, <2>3 DEF ToGoIn
  <2>5. ToGoIn(chain, c) \in Nat /\ ToGoIn(chain, c) < ToGoIn(chain, Top)
    BY <2>2, <2>4
  <2> QED  BY <1>1, <2>1, <2>5, TopAdvances
<1> QED  BY <1>2, <1>3

\* Every step of the program leaves every search as much to do as before, or less.
LEMMA StepsAdvance ==
  ASSUME TableInv, Gentle, InnerOnly, [Next]_vars
  PROVE  InnerOnly' /\ SearchAdvances
<1>1. UNCHANGED <<kind, callbacks>>
  BY DEF Next, TNext, ToIter, Reset, IterNext, GoWild, vars, tvars
<1>2. CASE Look \/ EqualReturns
  BY <1>1, <1>2, LookAdvances, EqualReturnsAdvances DEF SearchAdvances, NoneGains, OneLoses
<1>3. CASE ~(Look \/ EqualReturns)
  <2>1. InnerOnly' /\ NoneGains
    <3>1. CASE UNCHANGED vars \/ ToIter \/ Reset \/ IterNext \/ Freeze
      <4>1. UNCHANGED <<chain, entry, calls>>
        BY <3>1 DEF vars, tvars, ToIter, Reset, IterNext, GoWild, Freeze
      <4> QED  BY <4>1, CallsWait
    <3>2. CASE EqualRaises
      <4>1. calls # << >> /\ calls' = Front(calls) /\ UNCHANGED <<chain, entry>>
        BY <3>2 DEF EqualRaises, InEqual
      <4> QED  BY <4>1, PopAdvances
    <3>3. CASE \E k \in Keys :
                  \/ \E op \in {"at", "ate", "del"} : Start(op, k, NoVal)
                  \/ Room /\ Start("put", k, NoVal)
                  \/ Room /\ \E v \in Vals : Start("atput", k, v)
      BY <3>3, StartAdvances, OpsFacts
    <3> QED  BY <1>3, <3>1, <3>2, <3>3 DEF Next, TNext
  <2> QED  BY <1>3, <2>1 DEF SearchAdvances, NoneGains
<1> QED  BY <1>2, <1>3

\* The part of SearchEnds that needs no fairness: an operation in progress always
\* has a positive number of steps to make, no step of the program adds to it, not
\* even a put by the equal method that it waits for, and every step of a search
\* makes the number of one of them less.
THEOREM SearchesAdvance ==
  Spec => /\ [](Gentle => \A m \in 1 .. Len(calls) : Left(m) \in Nat \ {0})
          /\ [][Gentle => SearchAdvances]_vars
<1> DEFINE Inner == Gentle => InnerOnly
           Positive == Gentle => \A m \in 1 .. Len(calls) : Left(m) \in Nat \ {0}
<1>1. Init => Inner
  BY DEF Init, TInit, InnerOnly
<1>2. Inv /\ Inner /\ [Next]_vars => Inner' /\ [Gentle => SearchAdvances]_vars
  <2> SUFFICES ASSUME Inv, Inner, [Next]_vars  PROVE Inner' /\ (Gentle => SearchAdvances)
    OBVIOUS
  <2>1. UNCHANGED <<kind, callbacks>>
    BY DEF Next, TNext, ToIter, Reset, IterNext, GoWild, vars, tvars
  <2>2. Gentle' <=> Gentle
    BY <2>1 DEF Gentle
  <2>3. Gentle => InnerOnly' /\ SearchAdvances
    BY StepsAdvance DEF Inv
  <2> QED  BY <2>2, <2>3
<1>3. Inv => Positive
  BY LeftPositive DEF Inv
<1> HIDE DEF Inner, Positive
<1>4. Spec => []Positive /\ [][Gentle => SearchAdvances]_vars
  BY <1>1, <1>2, <1>3, Invariance, PTL DEF Spec
<1> QED  BY <1>4 DEF Positive

-----------------------------------------------------------------------------
(* A table whose equal methods only look things up is a map.               *)

\* What the program's equal and hash methods must agree on: keys that are equal
\* to one key are equal to each other, and are in one bucket.
EqualsAgree ==
    /\ \A j, k \in Keys : Equal(j, k) => Equal(k, j) /\ BucketOf(j) = BucketOf(k)
    /\ \A j, k, l \in Keys : Equal(j, k) /\ Equal(k, l) => Equal(j, l)

\* A search: every cell up to p has another key, and q is the cell that p points at.
SearchOK(c) ==
    /\ \A i \in 1 .. Place(c.p) : ~Equal(c.key, entry[chain[BucketOf(c.key)][i]].key)
    /\ c.pc = "equal" => c.q = Deref(c.p) /\ c.seen = entry[c.q].key
    /\ IF c.op = "atput" THEN c.val \in Vals /\ ~frozen ELSE c.val = NoVal

KeysUnique == \A c, d \in Held : Equal(entry[c].key, entry[d].key) => c = d

SearchInv == KeysUnique /\ \A c \in ToSet(calls) : SearchOK(c)

Mapped == {entry[c] : c \in Held}

Matches(k) == {e \in Mapped : Equal(k, e.key)}

MapStep == Map!KNext \/ UNCHANGED Map!kvars

LEMMA LooksOnlyIsGentle ==  LooksOnly => Gentle
BY DEF LooksOnly, Gentle

\* Only the outermost operation changes the table.
LEMMA TopAlone ==
  ASSUME LooksOnly, TableInv, calls # << >>, Top.op \notin {"at", "ate"}
  PROVE  Len(calls) = 1
<1>1. calls \in Seq(CallRecs) /\ \A m \in 1 .. Len(calls) : m > 1 => calls[m].op \in callbacks
  BY DEF TableInv, CallsOK
<1> DEFINE n == Len(calls)
<1>2. n \in Nat /\ n # 0 /\ Top = calls[n] /\ n \in 1 .. Len(calls)
  BY <1>1 DEF Top, Last
<1>3. ~(n > 1)
  <2>1. n > 1 => calls[n].op \in callbacks
    BY <1>1, <1>2
  <2> QED  BY <1>2, <2>1 DEF LooksOnly
<1> HIDE DEF n
<1>4. n = 1
  BY <1>2, <1>3
<1> QED  BY <1>4 DEF n

LEMMA SearchStays ==
  ASSUME UNCHANGED <<chain, entry, frozen>>, NEW c, SearchOK(c)
  PROVE  SearchOK(c)'
<1>1. Place(c.p)' = Place(c.p) /\ Deref(c.p)' = Deref(c.p)
  BY DEF Deref, FirstFrom, ListOf, Place, Home, IndexIn
<1> QED  BY <1>1 DEF SearchOK

\* The innermost operation ends, the others go on searching.
LEMMA SearchEndsOK ==
  ASSUME TableInv, SearchInv, calls # << >>, calls' = Front(calls), UNCHANGED frozen,
         (UNCHANGED <<chain, entry>>) \/ (Len(calls) = 1 /\ KeysUnique')
  PROVE  SearchInv'
<1>1. /\ ToSet(Front(calls)) \subseteq ToSet(calls)
      /\ Len(calls) = 1 => ToSet(Front(calls)) = {}
  BY PoppedOK DEF TableInv, CallsOK
<1>2. CASE UNCHANGED <<chain, entry>>
  <2>1. KeysUnique'
    BY <1>2 DEF SearchInv, KeysUnique, Held
  <2>2. \A c \in ToSet(calls') : SearchOK(c)'
    BY <1>1, <1>2, SearchStays DEF SearchInv
  <2> QED  BY <2>1, <2>2 DEF SearchInv
<1>3. CASE Len(calls) = 1 /\ KeysUnique'
  BY <1>1, <1>3 DEF SearchInv
<1> QED  BY <1>2, <1>3

\* A search that has come to the end of the list: no key of the table is equal.
LEMMA NoMatch ==
  ASSUME TableInv, EqualsAgree, NEW k \in Keys,
         \A i \in 1 .. Len(chain[BucketOf(k)]) : ~Equal(k, entry[chain[BucketOf(k)][i]].key),
         NEW c \in Held
  PROVE  ~Equal(k, entry[c].key) /\ ~Equal(entry[c].key, k) /\ entry[c].key \in Keys
<1> DEFINE b == BucketOf(entry[c].key)
<1>1. Lists(chain, entry) /\ c \in InUse(entry)
  BY BucketsAreNotCells DEF TableInv, TableOK
<1>2. entry[c].key \in Keys
  BY <1>1, PairFacts DEF Lists, InUse
<1>3. PlaceIn(chain, b, c) \in 1 .. Len(chain[b]) /\ chain[b][PlaceIn(chain, b, c)] = c
  BY <1>1, PlaceOfCell
<1>4. ~Equal(k, entry[c].key)
  <2>1. CASE b = BucketOf(k)
    BY <2>1, <1>3
  <2>2. CASE b # BucketOf(k)
    BY <2>2, <1>2 DEF EqualsAgree
  <2> QED  BY <2>1, <2>2
<1> QED  BY <1>2, <1>4 DEF EqualsAgree

\* One that has found an equal key: no other cell has one.
LEMMA OneMatch ==
  ASSUME TableInv, EqualsAgree, KeysUnique, NEW k \in Keys, NEW q \in Held,
         Equal(k, entry[q].key), NEW c \in Held
  PROVE  /\ Equal(k, entry[c].key) <=> c = q
         /\ Equal(entry[c].key, k) <=> c = q
         /\ entry[c].key \in Keys
<1>1. \A d \in Held : entry[d].key \in Keys
  BY PairFacts DEF TableInv, TableOK, Lists, Held
<1>2. ASSUME Equal(k, entry[c].key)  PROVE c = q
  <2>1. Equal(entry[q].key, k)  BY <1>1 DEF EqualsAgree
  <2>2. Equal(entry[q].key, entry[c].key)  BY <1>1, <1>2, <2>1 DEF EqualsAgree
  <2> QED  BY <2>2 DEF KeysUnique
<1> QED  BY <1>1, <1>2 DEF EqualsAgree

\* The map after a cell was filled.
LEMMA FilledMap ==
  ASSUME NEW S \in SUBSET Held, NEW n, NEW e, Filled(S, n, e), e.key \in Keys, KeysUnique,
         \A d \in S : ~Equal(e.key, entry[d].key) /\ ~Equal(entry[d].key, e.key)
  PROVE  Mapped' = {entry[d] : d \in S} \cup {e} /\ KeysUnique'
<1>1. Mapped' = {entry[d] : d \in S} \cup {e}
  BY DEF Mapped, Filled
<1>2. ASSUME NEW c \in Held', NEW d \in Held', Equal(entry'[c].key, entry'[d].key)  PROVE c = d
  <2>1. CASE c \in S /\ d \in S
    BY <2>1, <1>2 DEF Filled, KeysUnique
  <2>2. CASE c = n /\ d \in S
    BY <2>2, <1>2 DEF Filled
  <2>3. CASE c \in S /\ d = n
    BY <2>3, <1>2 DEF Filled
  <2> QED  BY <2>1, <2>2, <2>3, <1>2 DEF Filled
<1> QED  BY <1>1, <1>2 DEF KeysUnique

\* The terms of the map are those of the table.
LEMMA MapTerms ==
  /\ {entry[c] : c \in Held} = Mapped
  /\ \A k : Map!Matching(k) = Matches(k)
  /\ \A op, k, what, e : Map!Result(op, k, what, e) = Result(op, k, what, e)
  /\ \A k, v : Map!Pair(k, v) = Pair(k, v)
  /\ Map!NoPair = NoPair /\ Map!NoResult = NoResult
BY DEF Mapped, Map!Matching, Matches, Map!Result, Result, Map!Pair, Pair, Map!NoPair, NoPair,
       Map!NoResult, NoResult

LEMMA MapTermsNext ==  {entry[c] : c \in Held}' = Mapped'
BY DEF Mapped

LEMMA MapDel ==
  ASSUME NEW k \in Keys, kind = "dict", UNCHANGED <<kind, frozen>>,
         Mapped' = Mapped \ Matches(k), ret' = Result("del", k, "value", Pair(k, NoVal))
  PROVE  Map!KNext
<1>1. Map!Del(k)
  BY MapTerms, MapTermsNext DEF Map!Del
<1> QED  BY <1>1 DEF Map!KNext

LEMMA MapPut ==
  ASSUME NEW k \in Keys, kind = "set", UNCHANGED <<kind, frozen>>,
         Mapped' = IF Matches(k) = {} THEN Mapped \cup {Pair(k, NoVal)} ELSE Mapped,
         ret' = Result("put", k, "value", Pair(k, NoVal))
  PROVE  Map!KNext
<1>1. Map!Put(k)
  BY MapTerms, MapTermsNext DEF Map!Put
<1> QED  BY <1>1 DEF Map!KNext

LEMMA MapAtPut ==
  ASSUME NEW k \in Keys, NEW v \in Vals, kind = "dict", ~frozen, UNCHANGED <<kind, frozen>>,
         Mapped' = (Mapped \ Matches(k)) \cup {Pair(k, v)},
         ret' = Result("atput", k, "value", Pair(k, v))
  PROVE  Map!KNext
<1>1. Map!AtPut(k, v)
  BY MapTerms, MapTermsNext DEF Map!AtPut
<1> QED  BY <1>1 DEF Map!KNext

LEMMA MapLooks ==
  ASSUME NEW k \in Keys, UNCHANGED <<kind, frozen>>, Mapped' = Mapped,
         \/ kind = "set" /\ ret' = Result("at", k, IF Matches(k) = {} THEN "false" ELSE "true", NoPair)
         \/ kind = "dict" /\ Matches(k) = {} /\ ret' = Result("at", k, "nil", NoPair)
         \/ kind = "dict" /\ Matches(k) = {} /\ ret' = Result("ate", k, "system.no-member", NoPair)
         \/ kind = "dict" /\ \E e \in Matches(k) : ret' = Result("at", k, "pair", e)
         \/ kind = "dict" /\ \E e \in Matches(k) : ret' = Result("ate", k, "value", Pair(NoVal, e.val))
  PROVE  Map!KNext
<1>1. Map!Member(k) \/ Map!At(k) \/ Map!Ate(k)
  BY MapTerms, MapTermsNext DEF Map!Member, Map!At, Map!Ate
<1> QED  BY <1>1 DEF Map!KNext

\* The end of a search that has found nothing is the operation of the map.
LEMMA MissingMaps ==
  ASSUME LooksOnly, EqualsAgree, TableInv, SearchInv, UNCHANGED <<kind, callbacks, frozen, wild>>,
         calls # << >>, Missing, Place(Top.p) = Len(chain[BucketOf(Top.key)])
  PROVE  SearchInv' /\ Map!KNext
<1> DEFINE k == Top.key
<1>1. /\ k \in Keys /\ Top.op \in OpsOf[kind] /\ kind \in {"set", "dict"} /\ Top \in ToSet(calls)
      /\ SearchOK(Top)
  BY TopFacts, PoppedOK DEF TableInv, CallsOK, Top, SearchInv
<1>2. \A i \in 1 .. Len(chain[BucketOf(k)]) : ~Equal(k, entry[chain[BucketOf(k)][i]].key)
  BY <1>1 DEF SearchOK
<1>3. \A c \in Held : ~Equal(k, entry[c].key) /\ ~Equal(entry[c].key, k) /\ entry[c].key \in Keys
  BY <1>1, <1>2, NoMatch
<1>4. Matches(k) = {}
  BY <1>3 DEF Matches, Mapped
<1>5. /\ Top.op \in {"at", "ate", "del"} => SameTable
      /\ Top.op \in {"put", "atput"} => \E n \in Cells \ Held : Filled(Held, n, Pair(k, Top.val))
  BY LooksOnlyIsGentle, MissingKeeps
<1>6. calls' = Front(calls)
  BY DEF Missing, Return, ReturnGiven
<1>7. CASE Top.op \in {"at", "ate", "del"}
  <2>1. UNCHANGED <<chain, entry>> /\ Mapped' = Mapped
    BY <1>5, <1>7 DEF SameTable, Held, Mapped
  <2>2. SearchInv'
    BY <1>6, <2>1, SearchEndsOK
  <2>3. CASE Top.op = "at" /\ kind = "set"
    <3>1. ret' = Result("at", k, "false", NoPair)
      BY <2>3 DEF Missing, Return
    <3> QED  BY <1>1, <1>4, <2>1, <2>2, <2>3, <3>1, MapLooks
  <2>4. CASE Top.op = "at" /\ kind = "dict"
    <3>1. ret' = Result("at", k, "nil", NoPair)
      BY <2>4 DEF Missing, Return
    <3> QED  BY <1>1, <1>4, <2>1, <2>2, <2>4, <3>1, MapLooks
  <2>5. CASE Top.op = "ate"
    <3>1. ret' = Result("ate", k, "system.no-member", NoPair) /\ kind = "dict"
      BY <2>5, <1>1, OpsFacts DEF Missing, Return
    <3> QED  BY <1>1, <1>4, <2>1, <2>2, <3>1, MapLooks
  <2>6. CASE Top.op = "del"
    <3>1. ret' = Result("del", k, "value", Pair(k, NoVal)) /\ kind = "dict"
      BY <2>6, <1>1, OpsFacts DEF Missing, Return, ReturnGiven, SearchOK
    <3>2. Mapped' = Mapped \ Matches(k)
      BY <1>4, <2>1
    <3> QED  BY <1>1, <2>2, <3>1, <3>2, MapDel
  <2> QED  BY <1>1, <1>7, <2>3, <2>4, <2>5, <2>6
<1>8. CASE Top.op \in {"put", "atput"}
  <2> DEFINE e == Pair(k, Top.val)
  <2>1. PICK n \in Cells \ Held : Filled(Held, n, e)
    BY <1>5, <1>8
  <2>2. e.key = k
    BY DEF Pair
  <2>3. Mapped' = Mapped \cup {e} /\ KeysUnique'
    <3>1. \A d \in Held : ~Equal(e.key, entry[d].key) /\ ~Equal(entry[d].key, e.key)
      BY <1>3, <2>2
    <3>2. e.key \in Keys /\ KeysUnique
      BY <1>1, <2>2 DEF SearchInv
    <3> HIDE DEF e
    <3> QED  BY <2>1, <3>1, <3>2, FilledMap DEF Mapped
  <2>4. SearchInv'
    BY <1>6, <1>8, <2>3, TopAlone, SearchEndsOK
  <2>5. ret' = Result(Top.op, k, "value", e)
    BY <1>8 DEF Missing, Return, ReturnGiven
  <2>6. CASE Top.op = "put"
    <3>1. kind = "set" /\ e = Pair(k, NoVal)
      BY <1>1, <2>6, OpsFacts DEF SearchOK
    <3> HIDE DEF e
    <3> QED  BY <1>1, <1>4, <2>3, <2>4, <2>5, <2>6, <3>1, MapPut
  <2>7. CASE Top.op = "atput"
    <3>1. kind = "dict" /\ ~frozen /\ Top.val \in Vals
      BY <1>1, <2>7, OpsFacts DEF SearchOK
    <3>2. Mapped' = (Mapped \ Matches(k)) \cup {e}
      BY <1>4, <2>3
    <3> QED  BY <1>1, <2>4, <2>5, <2>7, <3>1, <3>2, MapAtPut
  <2> QED  BY <1>8, <2>6, <2>7
<1> QED  BY <1>1, <1>7, <1>8, OpsFacts

\* So is the end of a search that has found its key.
LEMMA FoundMaps ==
  ASSUME LooksOnly, EqualsAgree, TableInv, SearchInv, UNCHANGED <<kind, callbacks, frozen, wild>>,
         InEqual, Found, Equal(Top.key, Top.seen)
  PROVE  SearchInv' /\ Map!KNext
<1> DEFINE k == Top.key
           q == Top.q
           Rest == {entry[c] : c \in Held \ {q}}
<1>1. /\ k \in Keys /\ Top.op \in OpsOf[kind] /\ kind \in {"set", "dict"} /\ Top \in ToSet(calls)
      /\ SearchOK(Top) /\ calls # << >> /\ q \in Held
  BY TopFacts, PoppedOK DEF TableInv, CallsOK, Top, SearchInv, InEqual, CallOK
<1>2. /\ Deref(Top.p) = q /\ q # Nil /\ Equal(k, entry[q].key) /\ entry[q] \in Mapped
  BY <1>1, BucketsAreNotCells DEF InEqual, SearchOK, Held, Mapped
<1>3. \A c \in Held : /\ Equal(k, entry[c].key) <=> c = q
                      /\ Equal(entry[c].key, k) <=> c = q
                      /\ entry[c].key \in Keys
  BY <1>1, <1>2, OneMatch DEF SearchInv
<1>4. Matches(k) = {entry[q]} /\ entry[q] \in Matches(k) /\ Mapped \ Matches(k) = Rest
  BY <1>1, <1>3 DEF Matches, Mapped
<1>5. /\ Top.op \in {"at", "ate", "put"} => SameTable
      /\ Top.op = "del" => Held' = Held \ {q} /\ \A d \in Held' : entry'[d] = entry[d]
      /\ Top.op = "atput" => \E n \in Cells : Filled(Held \ {q}, n, Pair(k, Top.val))
  BY LooksOnlyIsGentle, FoundKeeps
<1>6. calls' = Front(calls)
  <2>1. Top.op \in {"at", "ate", "put", "del", "atput"}
    BY <1>1, OpsFacts
  <2> QED  BY <2>1 DEF Found, Return, ReturnGiven
<1>7. CASE Top.op \in {"at", "ate", "put"}
  <2>1. UNCHANGED <<chain, entry>> /\ Mapped' = Mapped
    BY <1>5, <1>7 DEF SameTable, Held, Mapped
  <2>2. SearchInv'
    BY <1>6, <1>1, <2>1, SearchEndsOK
  <2>3. CASE Top.op = "at" /\ kind = "set"
    <3>1. ret' = Result("at", k, "true", NoPair)
      BY <2>3 DEF Found, Return
    <3> QED  BY <1>1, <1>4, <2>1, <2>2, <2>3, <3>1, MapLooks
  <2>4. CASE Top.op = "at" /\ kind = "dict"
    <3>1. ret' = Result("at", k, "pair", entry[q])
      BY <1>2, <2>4 DEF Found, Return
    <3> QED  BY <1>1, <1>4, <2>1, <2>2, <2>4, <3>1, MapLooks
  <2>5. CASE Top.op = "ate"
    <3>1. ret' = Result("ate", k, "value", Pair(NoVal, entry[q].val)) /\ kind = "dict"
      BY <1>1, <1>2, <2>5, OpsFacts DEF Found, Return
    <3> QED  BY <1>1, <1>4, <2>1, <2>2, <3>1, MapLooks
  <2>6. CASE Top.op = "put"
    <3>1. ret' = Result("put", k, "value", Pair(k, NoVal)) /\ kind = "set"
      BY <1>1, <2>6, OpsFacts DEF Found, Return, ReturnGiven, SearchOK
    <3> QED  BY <1>1, <1>4, <2>1, <2>2, <3>1, MapPut
  <2> QED  BY <1>1, <1>7, <2>3, <2>4, <2>5, <2>6
<1>8. CASE Top.op = "del"
  <2>1. Mapped' = Rest
    BY <1>5, <1>8 DEF Mapped
  <2>2. KeysUnique'
    BY <1>5, <1>8 DEF SearchInv, KeysUnique
  <2>3. SearchInv'
    BY <1>1, <1>6, <1>8, <2>2, TopAlone, SearchEndsOK
  <2>4. ret' = Result("del", k, "value", Pair(k, NoVal)) /\ kind = "dict"
    BY <1>1, <1>8, OpsFacts DEF Found, Return, ReturnGiven, SearchOK
  <2> HIDE DEF Rest
  <2> QED  BY <1>1, <1>4, <2>1, <2>3, <2>4, MapDel
<1>9. CASE Top.op = "atput"
  <2> DEFINE e == Pair(k, Top.val)
  <2>1. PICK n \in Cells : Filled(Held \ {q}, n, e)
    BY <1>5, <1>9
  <2>2. e.key = k
    BY DEF Pair
  <2>3. Mapped' = Rest \cup {e} /\ KeysUnique'
    <3>1. \A d \in Held \ {q} : ~Equal(e.key, entry[d].key) /\ ~Equal(entry[d].key, e.key)
      BY <1>3, <2>2
    <3>2. e.key \in Keys /\ KeysUnique /\ Held \ {q} \in SUBSET Held
      BY <1>1, <2>2 DEF SearchInv
    <3> HIDE DEF e
    <3> QED  BY <2>1, <3>1, <3>2, FilledMap
  <2>4. SearchInv'
    BY <1>1, <1>6, <1>9, <2>3, TopAlone, SearchEndsOK
  <2>5. kind = "dict" /\ ~frozen /\ Top.val \in Vals /\ ret' = Result("atput", k, "value", e)
    BY <1>1, <1>9, OpsFacts DEF Found, Return, ReturnGiven, SearchOK
  <2> HIDE DEF Rest
  <2> QED  BY <1>1, <1>4, <2>3, <2>4, <2>5, MapAtPut
<1> QED  BY <1>1, <1>7, <1>8, <1>9, OpsFacts

-----------------------------------------------------------------------------
(* The steps that only search.                                             *)

LEMMA SearchGoesOn ==
  ASSUME TableInv, SearchInv, UNCHANGED <<chain, entry, frozen>>, calls # << >>,
         NEW c \in CallRecs, SearchOK(c), calls' = [calls EXCEPT ![Len(calls)] = c]
  PROVE  SearchInv'
<1> DEFINE t == WithTop(calls, c)
<1>1. ToSet(t) \subseteq ToSet(calls) \cup {c}
  BY TopSetOK DEF TableInv, CallsOK
<1>2. calls' = t
  BY DEF WithTop
<1> HIDE DEF t
<1>3. \A d \in ToSet(calls') : SearchOK(d)'
  BY <1>1, <1>2, SearchStays DEF SearchInv
<1>4. KeysUnique'
  BY DEF SearchInv, KeysUnique, Held
<1> QED  BY <1>3, <1>4 DEF SearchInv

LEMMA SameMapped ==
  ASSUME UNCHANGED <<kind, entry, frozen, ret>>
  PROVE  MapStep
BY DEF MapStep, Map!kvars, Held

\* A call begins, or is refused.
LEMMA StartMaps ==
  ASSUME TableInv, SearchInv, UNCHANGED <<kind, callbacks>>, NEW op \in OpsOf.set \cup OpsOf.dict,
         NEW k \in Keys, NEW v \in Vals \cup {NoVal}, Start(op, k, v),
         IF op = "atput" THEN v \in Vals ELSE v = NoVal
  PROVE  SearchInv' /\ MapStep
<1>1. UNCHANGED <<kind, chain, entry, frozen>> /\ op \in OpsOf[kind]
  BY DEF Start, CanCall
<1>2. Mapped' = Mapped /\ KeysUnique'
  BY <1>1 DEF Mapped, SearchInv, KeysUnique, Held
<1>3. CASE op = "atput" /\ frozen
  <2>1. UNCHANGED calls /\ ret' = Result("atput", k, "system.frozen", NoPair) /\ kind = "dict"
    BY <1>1, <1>3, OpsFacts DEF Start, TableInv
  <2>2. SearchInv'
    BY <1>1, <1>2, <2>1, SearchStays DEF SearchInv
  <2>3. Map!Refuse(k)
    BY <1>1, <1>2, <1>3, <2>1, MapTerms, MapTermsNext DEF Map!Refuse
  <2> QED  BY <1>1, <2>2, <2>3 DEF MapStep, Map!KNext
<1>4. CASE ~(op = "atput" /\ frozen)
  <2> DEFINE c == SearchFor(op, k, v)
  <2>1. calls' = Append(calls, c) /\ ret' = NoResult
    BY <1>4 DEF Start
  <2>2. c \in CallRecs /\ c.op = op /\ c.key = k /\ c.p = BucketOf(k) /\ c.pc = "look" /\ c.val = v
    BY BucketOK DEF SearchFor, CallRecs
  <2>3. Place(BucketOf(k)) = 0
    BY BucketOK DEF Place
  <2> HIDE DEF c
  <2>4. SearchOK(c)
    BY <1>4, <2>2, <2>3 DEF SearchOK
  <2>5. ToSet(calls') = ToSet(calls) \cup {c}
    BY <2>1, <2>2, PushedOK DEF TableInv, CallsOK
  <2>6. \A d \in ToSet(calls') : SearchOK(d)'
    BY <1>1, <2>4, <2>5, SearchStays DEF SearchInv
  <2>7. Map!Call
    BY <1>1, <1>2, <2>1, MapTerms, MapTermsNext DEF Map!Call
  <2> QED  BY <1>1, <1>2, <2>6, <2>7 DEF MapStep, Map!KNext, SearchInv
<1> QED  BY <1>3, <1>4

\* Looking at the next cell ends the search, or calls equal with its key.
LEMMA LookMaps ==
  ASSUME LooksOnly, EqualsAgree, TableInv, SearchInv, UNCHANGED <<kind, callbacks>>, Look
  PROVE  SearchInv' /\ MapStep
<1> DEFINE b == BucketOf(Top.key)
<1>1. /\ calls # << >> /\ Top \in CallRecs /\ b \in Buckets /\ PtrOK(Top.p, b) /\ ~Stale(Top.p)
      /\ UNCHANGED <<frozen, wild>>
  BY TopFacts DEF Look
<1>2. Lists(chain, entry) /\ Len(chain[b]) \in Nat /\ SearchOK(Top)
  BY <1>1, PoppedOK DEF TableInv, TableOK, Lists, CallsOK, SearchInv, Top
<1>3. CASE Deref(Top.p) = Nil
  <2>1. Missing
    BY <1>1, <1>3 DEF Look
  <2>2. Place(Top.p) = Len(chain[b])
    BY <1>1, <1>2, <1>3, PtrFacts
  <2> QED  BY <1>1, <2>1, <2>2, MissingMaps DEF MapStep
<1>4. CASE Deref(Top.p) # Nil
  <2> DEFINE q == Deref(Top.p)
             c == [Top EXCEPT !.pc = "equal", !.q = q, !.seen = entry[q].key]
  <2>1. UNCHANGED <<chain, entry, ret>> /\ calls' = [calls EXCEPT ![Len(calls)] = c]
    BY <1>1, <1>4 DEF Look, Top, Last
  <2>2. q \in Held
    <3>1. Place(Top.p) \in 0 .. Len(chain[b]) /\ Place(Top.p) # Len(chain[b])
      BY <1>1, <1>2, <1>4, PtrFacts
    <3> QED  BY <1>1, <1>2, <3>1, PtrFacts
  <2>3. q \in Cells /\ entry[q].key \in Keys
    BY <2>2, PairFacts DEF Held, TableInv, TableOK, Lists
  <2> HIDE DEF q
  <2>4. c \in CallRecs
    BY <2>3, <1>1 DEF CallRecs
  <2>5. /\ c.op = Top.op /\ c.key = Top.key /\ c.p = Top.p /\ c.q = q /\ c.val = Top.val
        /\ c.seen = entry[q].key
    BY <1>1 DEF CallRecs
  <2> HIDE DEF c
  <2>6. SearchOK(c)
    BY <1>2, <2>5 DEF SearchOK, q
  <2>7. SearchInv'
    BY <1>1, <2>1, <2>4, <2>6, SearchGoesOn
  <2> QED  BY <1>1, <2>1, <2>7, SameMapped
<1> QED  BY <1>3, <1>4

\* equal's answer ends the search, or takes it one cell further.
LEMMA EqualReturnsMaps ==
  ASSUME LooksOnly, EqualsAgree, TableInv, SearchInv, UNCHANGED <<kind, callbacks>>, EqualReturns
  PROVE  SearchInv' /\ MapStep
<1> DEFINE b == BucketOf(Top.key)
<1>1. /\ InEqual /\ calls # << >> /\ Top \in CallRecs /\ b \in Buckets /\ PtrOK(Top.p, b)
      /\ ~Stale(Top.p) /\ CallOK(Top) /\ Top.q \in Held
  BY TopFacts DEF EqualReturns, InEqual, CallOK
<1>2. Lists(chain, entry) /\ Len(chain[b]) \in Nat /\ SearchOK(Top)
  BY <1>1, PoppedOK DEF TableInv, TableOK, Lists, CallsOK, SearchInv, Top
<1>3. CASE Equal(Top.key, Top.seen)
  <2>1. Found /\ UNCHANGED <<frozen, wild>>
    BY <1>1, <1>3, LooksOnlyIsGentle, PointsAtCell DEF EqualReturns
  <2> QED  BY <1>1, <1>3, <2>1, FoundMaps DEF MapStep
<1>4. CASE ~Equal(Top.key, Top.seen)
  <2> DEFINE c == [Top EXCEPT !.pc = "look", !.p = Top.q]
             n == Place(Top.p)
  <2>1. UNCHANGED <<chain, entry, ret, frozen>> /\ calls' = [calls EXCEPT ![Len(calls)] = c]
    BY <1>1, <1>4 DEF EqualReturns, Top, Last
  <2>2. /\ Top.q = Deref(Top.p) /\ Top.seen = entry[Top.q].key
        /\ \A i \in 1 .. n : ~Equal(Top.key, entry[chain[b][i]].key)
    BY <1>1, <1>2 DEF SearchOK, InEqual
  <2>3. n \in 0 .. Len(chain[b]) /\ n < Len(chain[b])
    <3>1. Top.q # Nil
      BY <1>1, BucketsAreNotCells DEF Held
    <3> QED  BY <1>1, <1>2, <2>2, <3>1, PtrFacts
  <2>4. Top.q = chain[b][n + 1] /\ Place(Top.q) = n + 1
    BY <1>1, <1>2, <2>2, <2>3, PtrFacts
  <2>5. \A i \in 1 .. Place(Top.q) : ~Equal(Top.key, entry[chain[b][i]].key)
    <3> HIDE DEF n
    <3>1. ASSUME NEW i \in 1 .. n + 1  PROVE ~Equal(Top.key, entry[chain[b][i]].key)
      <4>1. CASE i \in 1 .. n
        BY <2>2, <4>1
      <4>2. CASE i = n + 1
        BY <1>4, <2>2, <2>4, <4>2
      <4> QED  BY <2>3, <4>1, <4>2
    <3> QED  BY <2>4, <3>1
  <2>6. c \in CallRecs
    BY <1>1 DEF CallRecs, Held
  <2>7. c.op = Top.op /\ c.key = Top.key /\ c.p = Top.q /\ c.pc = "look" /\ c.val = Top.val
    BY <1>1 DEF CallRecs
  <2> HIDE DEF c
  <2>8. SearchOK(c)
    BY <1>2, <2>5, <2>7 DEF SearchOK
  <2>9. SearchInv'
    BY <1>1, <2>1, <2>6, <2>8, SearchGoesOn
  <2> QED  BY <2>1, <2>9, SameMapped
<1> QED  BY <1>3, <1>4

\* Every step of the table and of its iterator is one of the map, or none.
LEMMA MapSteps ==
  ASSUME LooksOnly, EqualsAgree, TableInv, SearchInv, [Next]_vars
  PROVE  SearchInv' /\ MapStep
<1>1. ASSUME UNCHANGED <<kind, chain, entry, frozen, calls, ret>>  PROVE SearchInv' /\ MapStep
  <2>1. SearchInv'
    BY <1>1, SearchStays DEF SearchInv, KeysUnique, Held
  <2> QED  BY <1>1, <2>1, SameMapped
<1>2. CASE UNCHANGED vars \/ ToIter \/ Reset \/ IterNext
  BY <1>1, <1>2 DEF vars, tvars, ToIter, Reset, IterNext, GoWild
<1>3. CASE TNext
  <2>1. UNCHANGED <<kind, callbacks>>
    BY <1>3 DEF TNext
  <2>2. CASE \E k \in Keys :
                \/ \E op \in {"at", "ate", "del"} : Start(op, k, NoVal)
                \/ Room /\ Start("put", k, NoVal)
                \/ Room /\ \E v \in Vals : Start("atput", k, v)
    BY <2>1, <2>2, StartMaps, OpsFacts
  <2>3. CASE Look
    BY <2>1, <2>3, LookMaps
  <2>4. CASE EqualReturns
    BY <2>1, <2>4, EqualReturnsMaps
  <2>5. CASE EqualRaises
    <3>1. /\ calls # << >> /\ calls' = Front(calls)
          /\ UNCHANGED <<chain, entry, frozen, ret>>
      BY <2>5 DEF EqualRaises, InEqual
    <3> QED  BY <2>1, <3>1, SearchEndsOK, SameMapped
  <2>6. CASE Freeze
    <3>1. UNCHANGED <<chain, entry, calls, ret>> /\ calls = << >> /\ frozen' = TRUE
      BY <2>6 DEF Freeze
    <3>2. SearchInv'
      BY <3>1 DEF SearchInv, KeysUnique, Held, ToSet
    <3>3. Map!Freeze
      BY <3>1 DEF Map!Freeze, Held
    <3> QED  BY <2>1, <3>2, <3>3 DEF MapStep, Map!KNext
  <2> QED  BY <1>3, <2>2, <2>3, <2>4, <2>5, <2>6 DEF TNext
<1> QED  BY <1>2, <1>3 DEF Next

LEMMA MapStarts ==  TInit => SearchInv /\ Map!KInit
<1> SUFFICES ASSUME TInit  PROVE SearchInv /\ Map!KInit
  OBVIOUS
<1>1. Held = {} /\ calls = << >>
  BY DEF TInit, Held
<1>2. SearchInv
  BY <1>1 DEF SearchInv, KeysUnique, ToSet
<1>3. {entry[c] : c \in Held} = {}
  BY <1>1
<1>4. Map!KInit
  BY <1>3, MapTerms DEF TInit, Map!KInit
<1> QED  BY <1>2, <1>4

\* Nobody gives the keys other methods.
LEMMA StillLooksOnly ==  [Next]_vars => (LooksOnly' <=> LooksOnly)
<1> SUFFICES ASSUME [Next]_vars  PROVE LooksOnly' <=> LooksOnly
  OBVIOUS
<1>1. UNCHANGED callbacks
  BY DEF Next, TNext, ToIter, Reset, IterNext, GoWild, vars, tvars
<1> QED  BY <1>1 DEF LooksOnly

LEMMA MapInvariance ==
  ASSUME EqualsAgree
  PROVE  Spec => /\ [](LooksOnly => SearchInv)
                 /\ [][LooksOnly => Map!KNext]_(Map!kvars)
<1> DEFINE MapInv == LooksOnly => SearchInv
           LooksInv == LooksOnly => TableInv
<1>1. Init => MapInv
  BY MapStarts DEF Init
<1>2. LooksInv /\ MapInv /\ [Next]_vars => MapInv' /\ [LooksOnly => Map!KNext]_(Map!kvars)
  <2> SUFFICES ASSUME LooksInv, MapInv, [Next]_vars
               PROVE  MapInv' /\ [LooksOnly => Map!KNext]_(Map!kvars)
    OBVIOUS
  <2>1. CASE LooksOnly
    BY <2>1, MapSteps DEF MapStep
  <2>2. CASE ~LooksOnly
    BY <2>2, StillLooksOnly
  <2> QED  BY <2>1, <2>2
<1>3. Inv => LooksInv
  BY LooksOnlyIsGentle DEF Inv
<1>4. Spec => []LooksInv
  BY <1>3, Invariance, PTL
<1> QED  BY <1>1, <1>2, <1>4, PTL DEF Spec

\* A set or a dictionary whose equal methods only look things up is a map that
\* changes in one step, at the end of a search, whatever these methods look up in
\* it meanwhile and whichever of them raise.
THEOREM TablesAreMaps ==
  ASSUME EqualsAgree
  PROVE  Spec => MapSpec
<1>1. Init => Map!KInit
  BY MapStarts DEF Init
<1> QED  BY <1>1, MapInvariance, PTL DEF Spec, MapSpec

\* Such a table never holds two cells with equal keys, whatever its equal methods
\* look up between the search that finds no cell of a key and the cons of one.
THEOREM KeysStayUnique ==
  ASSUME EqualsAgree
  PROVE  Spec => [](LooksOnly => KeysUnique)
<1>1. (LooksOnly => SearchInv) => (LooksOnly => KeysUnique)
  BY DEF SearchInv
<1> QED  BY <1>1, MapInvariance, PTL

\* So such a table refines the map: nothing but the map's steps is ever seen of it.
THEOREM TablesRefineMaps ==
  ASSUME EqualsAgree
  PROVE  Spec => (LooksOnly => Map!KSpec)
<1>1. LooksOnly /\ [Next]_vars => LooksOnly'
  BY StillLooksOnly
<1>2. LooksOnly /\ [LooksOnly => Map!KNext]_(Map!kvars) => [Map!KNext]_(Map!kvars)
  OBVIOUS
<1> QED  BY <1>1, <1>2, TablesAreMaps, PTL DEF Spec, MapSpec, Map!KSpec

=============================================================================
