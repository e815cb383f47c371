-------------------------- MODULE EvaluatorProofs --------------------------
(***************************************************************************)
(* What Iteration shows on small instances, for any number of containers   *)
(* of any lengths; and what is proved of calls, environments, sorting and  *)
(* iteration by themselves, for the evaluator that does all of them.       *)
(***************************************************************************)
EXTENDS Evaluator, CallProofs, ScopesProofs, SortProofs, NaturalsInduction, WellFoundedInduction

Rows == [1 .. N -> 1 .. NoElem]

Types ==
    /\ step \in {"off", "fetch", "call", "advance", "over", "cut", "crashed"}
    /\ comb \in Single \cup {"none", "mapcar", "outer"}
    /\ lens \in Seq(0 .. MaxLen) /\ params \in [needs : Nat, takes : Nat]
    /\ pos \in [1 .. N -> Nat] /\ \A g \in 1 .. N : pos[g] \in 0 .. lens[g]
    /\ row \in Rows /\ log \in Seq(Rows)
    /\ IF step = "off" THEN comb = "none" /\ N = 0 /\ log = << >> /\ gen = 0
       ELSE comb # "none" /\ gen \in 1 .. N
    /\ comb \in Single => N = 1
    /\ step = "advance" => comb = "outer"

\* foreach, reduce and filter are mapcar of one list.  The calls are made with the
\* rows of first, second, ... elements, as long as a list has one.
RowOf(k) == [g \in 1 .. N |-> IF k <= lens[g] THEN k ELSE NoElem]

Some(k) == \E g \in 1 .. N : k <= lens[g]

AtRow(k, g) == pos[g] = IF k <= lens[g] THEN k ELSE lens[g]

RowByRow ==
    LET k == Len(log)
    IN  /\ \A m \in 1 .. k : log[m] = RowOf(m) /\ Some(m)
        /\ step = "fetch" =>
              \A g \in 1 .. N : IF g <= gen THEN AtRow(k, g)
                                ELSE AtRow(k + 1, g) /\ row[g] = RowOf(k + 1)[g]
        /\ step = "call" =>
              row = RowOf(k + 1) /\ Some(k + 1) /\ \A g \in 1 .. N : AtRow(k + 1, g)
        /\ step = "over" => ~Some(k + 1)
        /\ step # "crashed"

\* The combinations of outer, the first and the last of their elements.
Combos ==
    {c \in Rows :
        /\ \E g \in 1 .. N : lens[g] > 0
        /\ \A g \in 1 .. N : IF lens[g] = 0 THEN c[g] = NoElem ELSE c[g] <= lens[g]}

Initial(g) == IF lens[g] = 0 THEN NoElem ELSE 1

Final(g) == IF lens[g] = 0 THEN NoElem ELSE lens[g]

AtElem(g) == pos[g] = IF lens[g] = 0 THEN 0 ELSE row[g]

LogUpTo(c) == \A d \in Combos : d \in ToSet(log) <=> d = c \/ Before(d, c)

\* The lists that are not empty: as many arguments every call of outer gets.
Filled == {g \in 1 .. N : lens[g] # 0}

Odometer ==
    /\ log # << >> => Accepted /\ params.needs <= Cardinality(Filled)
    /\ step = "crashed" => log = << >> /\ \E g \in 1 .. N : lens[g] = 0
    /\ ToSet(log) \subseteq Combos
    /\ \A m \in 1 .. Len(log) - 1 : Before(log[m], log[m + 1])
    /\ step = "fetch" =>
          /\ log = << >>
          /\ \A g \in 1 .. N : IF g < gen THEN row[g] = Initial(g) /\ AtElem(g) ELSE pos[g] = 0
    /\ step = "call" =>
          /\ row \in Combos /\ \A g \in 1 .. N : AtElem(g)
          /\ \A d \in Combos : d \in ToSet(log) <=> Before(d, row)
    /\ step = "advance" =>
          /\ log # << >> /\ LogUpTo(Last(log))
          /\ \A g \in 1 .. N :
                /\ AtElem(g)
                /\ IF g <= gen THEN row[g] = Last(log)[g]
                   ELSE row[g] = Initial(g) /\ Last(log)[g] = Final(g)
    /\ step = "cut" => log = << >> \/ LogUpTo(Last(log))
    /\ step = "over" => ToSet(log) = Combos

IInv ==
    /\ Types
    /\ comb \in Single \cup {"mapcar"} => RowByRow
    /\ comb = "outer" => Odometer

-----------------------------------------------------------------------------
\* Sequences, and numbers.
LEMMA ElementIs ==
    ASSUME NEW S, NEW s \in Seq(S) PROVE Len(s) \in Nat /\ \A i \in 1 .. Len(s) : s[i] \in S
    OBVIOUS

LEMMA FunctionIs ==
    ASSUME NEW S, NEW n \in Nat, NEW s \in [1 .. n -> S] PROVE s \in Seq(S) /\ Len(s) = n
    OBVIOUS

LEMMA AppendIs ==
    ASSUME NEW S, NEW s \in Seq(S), NEW e \in S
    PROVE  /\ Append(s, e) \in Seq(S) /\ Len(Append(s, e)) = Len(s) + 1
           /\ \A i \in 1 .. Len(s) : Append(s, e)[i] = s[i]
           /\ Append(s, e)[Len(s) + 1] = e
           /\ Last(Append(s, e)) = e /\ Append(s, e) # << >>
           /\ \A d : d \in ToSet(Append(s, e)) <=> d = e \/ d \in ToSet(s)
<1>1. /\ Append(s, e) \in Seq(S) /\ Len(Append(s, e)) = Len(s) + 1
      /\ \A i \in 1 .. Len(s) : Append(s, e)[i] = s[i]
      /\ Append(s, e)[Len(s) + 1] = e
      /\ DOMAIN Append(s, e) = 1 .. Len(s) + 1 /\ DOMAIN s = 1 .. Len(s) /\ Len(s) \in Nat
    OBVIOUS
<1>2. Last(Append(s, e)) = e /\ Append(s, e) # << >> BY <1>1 DEF Last
<1>3. ASSUME NEW d PROVE d \in ToSet(Append(s, e)) <=> d = e \/ d \in ToSet(s)
    <2>1. ASSUME d \in ToSet(Append(s, e)) PROVE d = e \/ d \in ToSet(s)
        <3>1. PICK i \in 1 .. Len(s) + 1 : d = Append(s, e)[i] BY <1>1, <2>1 DEF ToSet
        <3>2. CASE i = Len(s) + 1 BY <1>1, <3>1, <3>2
        <3>3. CASE i # Len(s) + 1
            <4>1. i \in 1 .. Len(s) BY <1>1, <3>3
            <4> QED BY <1>1, <3>1, <4>1 DEF ToSet
        <3> QED BY <3>2, <3>3
    <2>2. ASSUME d = e PROVE d \in ToSet(Append(s, e))
        <3>1. Len(s) + 1 \in 1 .. Len(s) + 1 BY <1>1
        <3> QED BY <1>1, <2>2, <3>1 DEF ToSet
    <2>3. ASSUME d \in ToSet(s) PROVE d \in ToSet(Append(s, e))
        <3>1. PICK i \in 1 .. Len(s) : d = s[i] BY <1>1, <2>3 DEF ToSet
        <3>2. i \in 1 .. Len(s) + 1 BY <1>1
        <3> QED BY <1>1, <3>1, <3>2 DEF ToSet
    <2> QED BY <2>1, <2>2, <2>3
<1> QED BY <1>1, <1>2, <1>3

LEMMA LastIs ==
    ASSUME NEW S, NEW s \in Seq(S), s # << >>
    PROVE  /\ Len(s) \in Nat \ {0} /\ Last(s) = s[Len(s)] /\ Last(s) \in S
           /\ Last(s) \in ToSet(s)
<1>1. Len(s) \in Nat \ {0} /\ Len(s) \in DOMAIN s OBVIOUS
<1> QED BY <1>1 DEF Last, ToSet

LEMMA LeastElement ==
    ASSUME NEW T \in SUBSET Nat, T # {}
    PROVE  \E e \in T : \A j \in T : e <= j
<1> DEFINE R == {ss \in Nat \X Nat : ss[1] < ss[2]}
<1>1. IsWellFoundedOn(R, Nat)
    BY NatLessThanWellFounded DEF OpToRel
<1> HIDE DEF R
<1>2. PICK e \in T : \A j \in T : ~(<<j, e>> \in R)
    BY <1>1, WFMin
<1>3. ASSUME NEW j \in T, j < e PROVE FALSE
    <2>1. <<j, e>> \in R BY <1>3 DEF R
    <2> QED BY <2>1, <1>2
<1> QED BY <1>3, SMT

-----------------------------------------------------------------------------
\* What is true of a state with the invariant.
LEMMA Typed ==
    ASSUME Types
    PROVE  /\ N \in Nat /\ NoElem \in Nat \ {0} /\ NoElem = MaxLen + 1 /\ MaxLen \in Nat
           /\ \A g \in 1 .. N : /\ lens[g] \in 0 .. MaxLen /\ lens[g] \in Nat /\ lens[g] < NoElem
                                /\ pos[g] \in Nat /\ pos[g] <= lens[g] /\ row[g] \in 1 .. NoElem
           /\ Len(log) \in Nat
<1>0. lens \in Seq(0 .. MaxLen) BY DEF Types
<1>1. N \in Nat /\ \A g \in 1 .. N : lens[g] \in 0 .. MaxLen BY <1>0, ElementIs DEF N
<1>2. MaxLen \in Nat /\ NoElem \in Nat \ {0} /\ NoElem = MaxLen + 1
    BY IterationAssumption DEF NoElem
<1>3. \A g \in 1 .. N : pos[g] \in Nat /\ pos[g] \in 0 .. lens[g] /\ row[g] \in 1 .. NoElem
    BY DEF Types, Rows
<1>4. \A g \in 1 .. N : lens[g] \in Nat /\ lens[g] < NoElem BY <1>1, <1>2
<1>5. Len(log) \in Nat BY DEF Types
<1> QED BY <1>1, <1>2, <1>3, <1>4, <1>5

\* next.
Fetched(g) == [row EXCEPT ![g] = NextOf(g)]

LEMMA NextIs ==
    ASSUME Types, NEW g \in 1 .. N
    PROVE  /\ Moved(g) \in [1 .. N -> Nat] /\ \A h \in 1 .. N : Moved(g)[h] \in 0 .. lens[h]
           /\ Fetched(g) \in Rows /\ NextOf(g) \in 1 .. NoElem
           /\ \A h \in 1 .. N : h # g => Moved(g)[h] = pos[h] /\ Fetched(g)[h] = row[h]
           /\ Fetched(g)[g] = NextOf(g)
           /\ Moved(g)[g] = IF pos[g] < lens[g] THEN pos[g] + 1 ELSE pos[g]
           /\ NextOf(g) = IF pos[g] < lens[g] THEN pos[g] + 1 ELSE NoElem
<1>1. NextOf(g) = IF pos[g] < lens[g] THEN pos[g] + 1 ELSE NoElem BY DEF NextOf
<1>2. NextOf(g) \in 1 .. NoElem BY <1>1, Typed
<1>3. /\ Fetched(g) \in Rows /\ Fetched(g)[g] = NextOf(g)
      /\ \A h \in 1 .. N : h # g => Fetched(g)[h] = row[h]
    BY <1>2 DEF Types, Rows, Fetched
<1> DEFINE q == IF pos[g] < lens[g] THEN pos[g] + 1 ELSE pos[g]
<1>4. q \in 0 .. lens[g] /\ q \in Nat BY Typed
<1>5. Moved(g) = [pos EXCEPT ![g] = q] BY DEF Moved
<1> HIDE DEF q
<1>6. /\ Moved(g) \in [1 .. N -> Nat] /\ Moved(g)[g] = q
      /\ \A h \in 1 .. N : h # g => Moved(g)[h] = pos[h]
    BY <1>4, <1>5 DEF Types
<1>7. \A h \in 1 .. N : Moved(g)[h] \in 0 .. lens[h] BY <1>4, <1>6 DEF Types
<1> QED BY <1>1, <1>2, <1>3, <1>6, <1>7 DEF q

LEMMA AtNextRow ==
    ASSUME Types, NEW g \in 1 .. N, NEW k \in Nat, AtRow(k, g)
    PROVE  /\ NextOf(g) = IF k + 1 <= lens[g] THEN k + 1 ELSE NoElem
           /\ (IF pos[g] < lens[g] THEN pos[g] + 1 ELSE pos[g])
                  = IF k + 1 <= lens[g] THEN k + 1 ELSE lens[g]
<1>1. CASE k + 1 <= lens[g] BY <1>1, Typed DEF AtRow, NextOf
<1>2. CASE ~(k + 1 <= lens[g]) BY <1>2, Typed DEF AtRow, NextOf
<1> QED BY <1>1, <1>2

-----------------------------------------------------------------------------
\* The steps.
LEMMA InitHolds == IterationInit => IInv
<1> SUFFICES ASSUME IterationInit PROVE IInv OBVIOUS
<1>1. N = 0 BY DEF IterationInit, N
<1>2. NoElem \in Nat BY IterationAssumption DEF NoElem
<1>3. Types BY <1>1, <1>2 DEF IterationInit, NoParams, Types, Rows, Single
<1> QED BY <1>3 DEF IInv, IterationInit, Single

LEMMA StutterKeeps == IInv /\ UNCHANGED lvars => IInv'
<1> SUFFICES ASSUME IInv, UNCHANGED lvars PROVE IInv' OBVIOUS
<1>1. /\ comb' = comb /\ params' = params /\ lens' = lens /\ pos' = pos /\ row' = row
      /\ gen' = gen /\ step' = step /\ log' = log /\ N' = N
    BY DEF lvars, N
<1>2. Types' BY <1>1 DEF IInv, Types, Rows
<1>3. RowByRow' = RowByRow BY <1>1 DEF RowByRow, RowOf, Some, AtRow
<1>4. Odometer' = Odometer
    BY <1>1 DEF Odometer, Combos, Rows, Initial, Final, AtElem, LogUpTo, Before, Filled,
              Accepted, Told
<1> QED BY <1>1, <1>2, <1>3, <1>4 DEF IInv

LEMMA BeginKeeps ==
    ASSUME IInv, NEW f \in Single \cup {"mapcar", "outer"}, NEW n \in 1 .. MaxLists,
           NEW ls \in [1 .. n -> 0 .. MaxLen], NEW takes \in 0 .. MaxLists + 1,
           NEW needs \in 0 .. takes, Begin(f, needs, takes, ls)
    PROVE  IInv'
<1>1. n \in Nat /\ n >= 1 BY IterationAssumption
<1>2. ls \in Seq(0 .. MaxLen) /\ Len(ls) = n BY <1>1, FunctionIs
<1>3. /\ step = "off" /\ step' = "fetch" /\ comb' = f /\ lens' = ls /\ (f \in Single => n = 1)
      /\ pos' = [g \in 1 .. n |-> 0] /\ row' = [g \in 1 .. n |-> NoElem]
      /\ gen' = (IF f = "mapcar" THEN n ELSE 1) /\ log' = log
      /\ params' = [needs |-> needs, takes |-> takes]
    BY <1>2 DEF Begin
<1>11. params' \in [needs : Nat, takes : Nat]
    <2>1. takes \in Nat /\ needs \in Nat BY IterationAssumption
    <2> QED BY <1>3, <2>1
<1>4. log' = << >> BY <1>3 DEF IInv, Types
<1>5. N' = n BY <1>2, <1>3 DEF N
<1>6. \A g \in 1 .. n : ls[g] \in Nat /\ 0 <= ls[g] BY IterationAssumption
<1>7. NoElem \in 1 .. NoElem BY IterationAssumption DEF NoElem
<1>8. Types' BY <1>1, <1>2, <1>3, <1>4, <1>5, <1>6, <1>7, <1>11 DEF Types, Rows, Single
<1>9. ASSUME f \in Single \cup {"mapcar"} PROVE RowByRow'
    <2>1. gen' = n BY <1>1, <1>3, <1>9 DEF Single
    <2>2. Len(log') = 0 BY <1>4
    <2>3. \A g \in 1 .. n : g <= n /\ pos'[g] = (IF 0 <= ls[g] THEN 0 ELSE ls[g]) BY <1>1, <1>3, <1>6
    <2> QED BY <1>3, <1>5, <2>1, <2>2, <2>3 DEF RowByRow, AtRow
<1>10. ASSUME f = "outer" PROVE Odometer'
    <2>1. gen' = 1 /\ \A g \in 1 .. n : ~(g < 1) /\ pos'[g] = 0 BY <1>1, <1>3, <1>10
    <2>2. ToSet(log') = {} /\ Len(log') = 0 BY <1>4 DEF ToSet
    <2> QED BY <1>3, <1>4, <1>5, <2>1, <2>2 DEF Odometer
<1> QED BY <1>3, <1>8, <1>9, <1>10 DEF IInv

LEMMA ClearedKeeps == IInv /\ Cleared => IInv'
<1> SUFFICES ASSUME IInv, Cleared PROVE IInv' OBVIOUS
<1>1. N' = 0 BY DEF Cleared, N
<1>2. NoElem \in Nat BY IterationAssumption DEF NoElem
<1>3. Types' BY <1>1, <1>2 DEF Cleared, NoParams, Types, Rows, Single
<1> QED BY <1>3 DEF IInv, Cleared, Single

LEMMA FetchOneKeeps == IInv /\ FetchOne => IInv'
<1> SUFFICES ASSUME IInv, FetchOne PROVE IInv' OBVIOUS
<1> DEFINE e == NextOf(1)
           k == Len(log)
<1>1. /\ step = "fetch" /\ comb \in Single /\ N = 1 /\ gen = 1
      /\ pos' = Moved(1) /\ row' = <<e>>
      /\ step' = (IF e = NoElem THEN "over" ELSE "call")
      /\ comb' = comb /\ params' = params /\ lens' = lens /\ gen' = gen /\ log' = log /\ N' = N
    <2>1. /\ step = "fetch" /\ comb \in Single /\ row' = <<e>>
          /\ pos' = Moved(1) /\ step' = (IF row'[1] = NoElem THEN "over" ELSE "call")
          /\ comb' = comb /\ params' = params /\ lens' = lens /\ gen' = gen /\ log' = log
        BY DEF FetchOne
    <2> HIDE DEF e
    <2>2. N = 1 /\ gen \in 1 .. N /\ N' = N BY <2>1 DEF IInv, Types, N
    <2>3. row'[1] = e BY <2>1
    <2> QED BY <2>1, <2>2, <2>3
<1>2. Types BY DEF IInv
<1>3. 1 \in 1 .. N /\ \A g \in 1 .. N : g = 1 BY <1>1
<1>4. /\ pos' \in [1 .. N -> Nat] /\ \A h \in 1 .. N : pos'[h] \in 0 .. lens[h]
      /\ e \in 1 .. NoElem
      /\ pos'[1] = IF pos[1] < lens[1] THEN pos[1] + 1 ELSE pos[1]
    BY <1>1, <1>2, <1>3, NextIs
<1>5. k \in Nat /\ AtRow(k, 1) BY <1>1, <1>2, <1>3, Typed DEF IInv, RowByRow
<1>6. /\ e = IF k + 1 <= lens[1] THEN k + 1 ELSE NoElem
      /\ pos'[1] = IF k + 1 <= lens[1] THEN k + 1 ELSE lens[1]
    BY <1>2, <1>3, <1>4, <1>5, AtNextRow
<1>7. lens[1] < NoElem /\ lens[1] \in Nat /\ NoElem \in Nat BY <1>2, <1>3, Typed
<1> HIDE DEF e, k
<1>8. row' \in Rows' BY <1>1, <1>4 DEF Rows
<1>9. Types' BY <1>1, <1>2, <1>4, <1>8 DEF Types, Rows, Single
<1>10. row' = [g \in 1 .. N |-> IF k + 1 <= lens[g] THEN k + 1 ELSE NoElem]
    <2>1. \A x : <<x>> = [g \in 1 .. 1 |-> x] OBVIOUS
    <2>2. [g \in 1 .. N |-> IF k + 1 <= lens[g] THEN k + 1 ELSE NoElem] = [g \in 1 .. 1 |-> e]
        BY <1>1, <1>6
    <2> QED BY <1>1, <2>1, <2>2
<1>11. e = NoElem <=> ~(k + 1 <= lens[1]) BY <1>5, <1>6, <1>7
<1>12. \A m \in 1 .. k : log[m] = RowOf(m) /\ Some(m) BY <1>1 DEF IInv, RowByRow, k
<1>13. RowByRow'
    <2>1. \A m \in 1 .. Len(log') : log'[m] = RowOf(m)' /\ Some(m)'
        BY <1>1, <1>12 DEF RowOf, Some, k
    <2>2. step' # "fetch" /\ (step' = "call" <=> k + 1 <= lens[1]) BY <1>1, <1>11
    <2>3. step' = "over" <=> ~(k + 1 <= lens[1]) BY <1>1, <1>11
    <2>4. row' = RowOf(Len(log) + 1)' BY <1>1, <1>10 DEF RowOf, k
    <2>5. Some(Len(log) + 1)' <=> k + 1 <= lens[1] BY <1>1, <1>3 DEF Some, k
    <2>6. \A g \in 1 .. N : AtRow(Len(log) + 1, g)' BY <1>1, <1>3, <1>6 DEF AtRow, k
    <2> QED BY <1>1, <2>1, <2>2, <2>3, <2>4, <2>5, <2>6 DEF RowByRow
<1> QED BY <1>1, <1>9, <1>13 DEF IInv, Single

LEMMA FetchRowKeeps == IInv /\ FetchRow => IInv'
<1> SUFFICES ASSUME IInv, FetchRow PROVE IInv' OBVIOUS
<1> DEFINE k == Len(log)
<1>1. /\ step = "fetch" /\ comb = "mapcar"
      /\ pos' = Moved(gen) /\ row' = [row EXCEPT ![gen] = NextOf(gen)]
      /\ IF gen > 1 THEN gen' = gen - 1 /\ step' = step
         ELSE /\ gen' = N
              /\ step' = IF \A g \in 1 .. N : row'[g] = NoElem THEN "over" ELSE "call"
      /\ comb' = comb /\ params' = params /\ lens' = lens /\ log' = log /\ N' = N
    BY DEF FetchRow, N
<1>2. Types /\ RowByRow BY <1>1 DEF IInv
<1>3. gen \in 1 .. N /\ N \in Nat /\ k \in Nat BY <1>1, <1>2, Typed DEF Types
<1>4. /\ pos' \in [1 .. N -> Nat] /\ \A h \in 1 .. N : pos'[h] \in 0 .. lens[h]
      /\ row' \in Rows
      /\ \A h \in 1 .. N : h # gen => pos'[h] = pos[h] /\ row'[h] = row[h]
      /\ row'[gen] = NextOf(gen)
      /\ pos'[gen] = IF pos[gen] < lens[gen] THEN pos[gen] + 1 ELSE pos[gen]
    <2>1. row' = Fetched(gen) BY <1>1 DEF Fetched
    <2>2. pos' = Moved(gen) BY <1>1
    <2>3. /\ Moved(gen) \in [1 .. N -> Nat] /\ \A h \in 1 .. N : Moved(gen)[h] \in 0 .. lens[h]
          /\ Fetched(gen) \in Rows
          /\ \A h \in 1 .. N : h # gen => Moved(gen)[h] = pos[h] /\ Fetched(gen)[h] = row[h]
          /\ Fetched(gen)[gen] = NextOf(gen)
          /\ Moved(gen)[gen] = IF pos[gen] < lens[gen] THEN pos[gen] + 1 ELSE pos[gen]
        BY <1>2, <1>3, NextIs
    <2> QED BY <2>1, <2>2, <2>3
<1>5. \A g \in 1 .. N : IF g <= gen THEN AtRow(k, g)
                        ELSE AtRow(k + 1, g) /\ row[g] = RowOf(k + 1)[g]
    BY <1>1, <1>2 DEF RowByRow
<1>6. /\ row'[gen] = IF k + 1 <= lens[gen] THEN k + 1 ELSE NoElem
      /\ pos'[gen] = IF k + 1 <= lens[gen] THEN k + 1 ELSE lens[gen]
    <2>1. AtRow(k, gen) BY <1>3, <1>5
    <2> QED BY <1>2, <1>3, <1>4, <2>1, AtNextRow
<1>7. \A g \in 1 .. N : IF g < gen THEN pos'[g] = IF k <= lens[g] THEN k ELSE lens[g]
                        ELSE /\ pos'[g] = IF k + 1 <= lens[g] THEN k + 1 ELSE lens[g]
                             /\ row'[g] = IF k + 1 <= lens[g] THEN k + 1 ELSE NoElem
    <2> SUFFICES ASSUME NEW g \in 1 .. N
                 PROVE  IF g < gen THEN pos'[g] = IF k <= lens[g] THEN k ELSE lens[g]
                        ELSE /\ pos'[g] = IF k + 1 <= lens[g] THEN k + 1 ELSE lens[g]
                             /\ row'[g] = IF k + 1 <= lens[g] THEN k + 1 ELSE NoElem
        OBVIOUS
    <2>1. CASE g < gen BY <1>3, <1>4, <1>5, <2>1 DEF AtRow
    <2>2. CASE g = gen BY <1>3, <1>6, <2>2
    <2>3. CASE g > gen BY <1>3, <1>4, <1>5, <2>3 DEF AtRow, RowOf
    <2> QED BY <1>3, <2>1, <2>2, <2>3
<1>8. \A m \in 1 .. k : log[m] = RowOf(m) /\ Some(m) BY <1>2 DEF RowByRow
<1>9. \A g \in 1 .. N : lens[g] < NoElem /\ lens[g] \in Nat /\ NoElem \in Nat BY <1>2, Typed
<1> HIDE DEF k
<1>10. CASE gen > 1
    <2>1. gen' \in 1 .. N /\ gen' = gen - 1 /\ step' = "fetch" BY <1>1, <1>3, <1>10
    <2>2. Types' BY <1>1, <1>2, <1>4, <2>1 DEF Types, Rows, Single
    <2>3. \A g \in 1 .. N : g <= gen' <=> g < gen BY <1>3, <2>1
    <2>4. RowByRow' BY <1>1, <1>7, <1>8, <2>1, <2>3 DEF RowByRow, AtRow, RowOf, Some, k
    <2> QED BY <1>1, <2>2, <2>4 DEF IInv
<1>11. CASE ~(gen > 1)
    <2>1. /\ gen = 1 /\ gen' = N
          /\ step' = IF \A g \in 1 .. N : row'[g] = NoElem THEN "over" ELSE "call"
        BY <1>1, <1>3, <1>11
    <2>0. gen' \in 1 .. N /\ step' \in {"over", "call"} BY <1>3, <2>1
    <2>2. Types' BY <1>1, <1>2, <1>4, <2>0 DEF Types, Rows, Single
    <2>3. \A g \in 1 .. N : /\ pos'[g] = IF k + 1 <= lens[g] THEN k + 1 ELSE lens[g]
                            /\ row'[g] = IF k + 1 <= lens[g] THEN k + 1 ELSE NoElem
        BY <1>7, <2>1
    <2>4. (\A g \in 1 .. N : row'[g] = NoElem) <=> ~Some(k + 1)
        BY <1>3, <1>9, <2>3 DEF Some
    <2>5. row' = RowOf(k + 1) BY <1>4, <2>3 DEF RowOf, Rows
    <2>6. step' # "fetch" /\ (step' = "call" <=> Some(k + 1)) /\ (step' = "over" <=> ~Some(k + 1))
        BY <2>1, <2>4
    <2>7. RowByRow'
        <3>1. \A m \in 1 .. Len(log') : log'[m] = RowOf(m)' /\ Some(m)'
            BY <1>1, <1>8 DEF RowOf, Some, k
        <3>2. row' = RowOf(Len(log) + 1)' BY <1>1, <2>5 DEF RowOf, k
        <3>3. Some(Len(log) + 1)' <=> Some(k + 1) BY <1>1 DEF Some, k
        <3>4. \A g \in 1 .. N : AtRow(Len(log) + 1, g)' BY <1>1, <2>3 DEF AtRow, k
        <3> QED BY <1>1, <2>6, <3>1, <3>2, <3>3, <3>4 DEF RowByRow
    <2> QED BY <1>1, <2>2, <2>7 DEF IInv
<1> QED BY <1>10, <1>11

-----------------------------------------------------------------------------
\* The order of the calls.
LEMMA BeforeTransitive ==
    ASSUME Types, NEW a \in Rows, NEW b \in Rows, NEW c \in Rows, Before(a, b), Before(b, c)
    PROVE  Before(a, c)
<1>0. N \in Nat /\ \A g \in 1 .. N : a[g] \in Nat /\ b[g] \in Nat /\ c[g] \in Nat
    BY Typed DEF Rows
<1>1. PICK g \in 1 .. N : a[g] < b[g] /\ \A k \in 1 .. g - 1 : a[k] = b[k] BY DEF Before
<1>2. PICK h \in 1 .. N : b[h] < c[h] /\ \A k \in 1 .. h - 1 : b[k] = c[k] BY DEF Before
<1>3. g \in Nat /\ h \in Nat BY <1>0
<1>4. CASE g < h
    <2>1. g \in 1 .. h - 1 /\ \A k \in 1 .. g - 1 : k \in 1 .. h - 1 BY <1>0, <1>3, <1>4
    <2>2. a[g] < c[g] /\ \A k \in 1 .. g - 1 : a[k] = c[k] BY <1>1, <1>2, <2>1
    <2> QED BY <2>2 DEF Before
<1>5. CASE g = h
    <2>1. a[g] < c[g] BY <1>0, <1>1, <1>2, <1>5
    <2>2. \A k \in 1 .. g - 1 : a[k] = c[k] BY <1>1, <1>2, <1>5
    <2> QED BY <2>1, <2>2 DEF Before
<1>6. CASE g > h
    <2>1. h \in 1 .. g - 1 /\ \A k \in 1 .. h - 1 : k \in 1 .. g - 1 BY <1>0, <1>3, <1>6
    <2>2. a[h] < c[h] /\ \A k \in 1 .. h - 1 : a[k] = c[k] BY <1>1, <1>2, <2>1
    <2> QED BY <2>2 DEF Before
<1> QED BY <1>3, <1>4, <1>5, <1>6

\* Of the combinations that begin alike, the one that goes on with the last elements
\* is the last.
LEMMA FinalIsLast ==
    ASSUME Types, NEW a \in Combos, NEW b \in Combos, NEW h \in 0 .. N,
           \A g \in 1 .. N : IF g <= h THEN b[g] = a[g] ELSE a[g] = Final(g)
    PROVE  b = a \/ Before(b, a)
<1> DEFINE T == {g \in 1 .. N : b[g] # a[g]}
<1>1. a \in Rows /\ b \in Rows BY DEF Combos
<1>2. CASE T = {}
    <2>1. \A g \in 1 .. N : b[g] = a[g] BY <1>2
    <2> HIDE DEF T
    <2>2. a = [g \in 1 .. N |-> a[g]] /\ b = [g \in 1 .. N |-> b[g]] BY <1>1 DEF Rows
    <2>3. [g \in 1 .. N |-> a[g]] = [g \in 1 .. N |-> b[g]] BY <2>1
    <2> QED BY <2>2, <2>3
<1>3. CASE T # {}
    <2>1. T \in SUBSET Nat OBVIOUS
    <2>2. PICK e \in T : \A j \in T : e <= j BY <1>3, <2>1, LeastElement
    <2>3. e \in 1 .. N /\ b[e] # a[e] OBVIOUS
    <2>4. N \in Nat /\ h \in Nat /\ e \in Nat BY Typed
    <2>5. a[e] = Final(e) BY <2>3
    <2>6. lens[e] # 0 /\ a[e] = lens[e] BY <2>3, <2>5 DEF Combos, Final
    <2>7. b[e] <= lens[e] /\ b[e] \in Nat /\ lens[e] \in Nat
        <3>1. b[e] <= lens[e] BY <2>3, <2>6 DEF Combos
        <3>2. b[e] \in 1 .. NoElem /\ lens[e] \in Nat /\ NoElem \in Nat
            BY <1>1, <2>3, Typed DEF Rows
        <3> QED BY <3>1, <3>2
    <2>8. b[e] < a[e] BY <2>3, <2>6, <2>7
    <2>9. \A j \in 1 .. e - 1 : b[j] = a[j]
        <3> SUFFICES ASSUME NEW j \in 1 .. e - 1, b[j] # a[j] PROVE FALSE OBVIOUS
        <3>1. j \in 1 .. N /\ ~(e <= j) BY <2>3, <2>4
        <3>2. j \in T BY <3>1
        <3> QED BY <2>2, <3>1, <3>2
    <2> QED BY <2>3, <2>8, <2>9 DEF Before
<1> QED BY <1>2, <1>3

LEMMA CombosSame ==
    ASSUME lens' = lens
    PROVE  /\ N' = N /\ Combos' = Combos /\ Rows' = Rows /\ Filled' = Filled
           /\ \A g : Initial(g)' = Initial(g) /\ Final(g)' = Final(g)
           /\ \A a, b : Before(a, b)' <=> Before(a, b)
<1>1. N' = N BY DEF N
<1> QED BY <1>1 DEF Combos, Rows, Initial, Final, Before, Filled

LEMMA AcceptedSame ==
    ASSUME comb' = comb, params' = params, lens' = lens
    PROVE  Accepted' <=> Accepted
<1>1. N' = N BY DEF N
<1> QED BY <1>1 DEF Accepted, Told

LEMMA FetchFirstKeeps == IInv /\ FetchFirst => IInv'
<1> SUFFICES ASSUME IInv, FetchFirst PROVE IInv' OBVIOUS
<1>1. /\ step = "fetch" /\ comb = "outer"
      /\ pos' = Moved(gen) /\ row' = [row EXCEPT ![gen] = NextOf(gen)]
      /\ IF gen < N THEN gen' = gen + 1 /\ step' = step
         ELSE /\ gen' = gen
              /\ step' = IF \A g \in 1 .. N : row'[g] = NoElem THEN "over" ELSE "call"
      /\ comb' = comb /\ params' = params /\ lens' = lens /\ log' = log
    BY DEF FetchFirst
<1>2. Types /\ Odometer BY <1>1 DEF IInv
<1>3. gen \in 1 .. N /\ N \in Nat /\ gen \in Nat BY <1>1, <1>2, Typed DEF Types
<1>4. /\ pos' \in [1 .. N -> Nat] /\ \A h \in 1 .. N : pos'[h] \in 0 .. lens[h]
      /\ row' \in Rows
      /\ \A h \in 1 .. N : h # gen => pos'[h] = pos[h] /\ row'[h] = row[h]
      /\ row'[gen] = NextOf(gen)
      /\ pos'[gen] = IF pos[gen] < lens[gen] THEN pos[gen] + 1 ELSE pos[gen]
      /\ NextOf(gen) = IF pos[gen] < lens[gen] THEN pos[gen] + 1 ELSE NoElem
    <2>1. row' = Fetched(gen) BY <1>1 DEF Fetched
    <2>2. pos' = Moved(gen) BY <1>1
    <2>3. /\ Moved(gen) \in [1 .. N -> Nat] /\ \A h \in 1 .. N : Moved(gen)[h] \in 0 .. lens[h]
          /\ Fetched(gen) \in Rows
          /\ \A h \in 1 .. N : h # gen => Moved(gen)[h] = pos[h] /\ Fetched(gen)[h] = row[h]
          /\ Fetched(gen)[gen] = NextOf(gen)
          /\ Moved(gen)[gen] = IF pos[gen] < lens[gen] THEN pos[gen] + 1 ELSE pos[gen]
          /\ NextOf(gen) = IF pos[gen] < lens[gen] THEN pos[gen] + 1 ELSE NoElem
        BY <1>2, <1>3, NextIs
    <2> QED BY <2>1, <2>2, <2>3
<1>5. /\ log = << >>
      /\ \A g \in 1 .. N : IF g < gen THEN row[g] = Initial(g) /\ AtElem(g) ELSE pos[g] = 0
    BY <1>1, <1>2 DEF Odometer
<1>6. ToSet(log) = {} /\ Len(log) = 0 BY <1>5 DEF ToSet
<1>7. /\ N' = N /\ Combos' = Combos /\ Rows' = Rows /\ Filled' = Filled
      /\ \A g : Initial(g)' = Initial(g) /\ Final(g)' = Final(g)
      /\ \A a, b : Before(a, b)' <=> Before(a, b)
    BY <1>1, CombosSame
<1>8. \A g \in 1 .. N : lens[g] \in Nat /\ lens[g] < NoElem /\ NoElem \in Nat
    BY <1>2, Typed
<1>9. \A g \in 1 .. N : IF g <= gen THEN row'[g] = Initial(g) /\ AtElem(g)' ELSE pos'[g] = 0
    <2> SUFFICES ASSUME NEW g \in 1 .. N
                 PROVE  IF g <= gen THEN row'[g] = Initial(g) /\ AtElem(g)' ELSE pos'[g] = 0
        OBVIOUS
    <2>1. CASE g < gen BY <1>1, <1>3, <1>4, <1>5, <2>1 DEF AtElem
    <2>2. CASE g = gen
        <3>1. pos[gen] = 0 /\ lens[gen] \in Nat BY <1>3, <1>5, <1>8
        <3> QED BY <1>1, <1>3, <1>4, <2>2, <3>1 DEF AtElem, Initial
    <2>3. CASE g > gen BY <1>3, <1>4, <1>5, <2>3
    <2> QED BY <1>3, <2>1, <2>2, <2>3
<1>10. CASE gen < N
    <2>1. gen' \in 1 .. N /\ gen' = gen + 1 /\ step' = "fetch" BY <1>1, <1>3, <1>10
    <2>2. Types' BY <1>1, <1>2, <1>4, <1>7, <2>1 DEF Types, Single
    <2>3. \A g \in 1 .. N : g <= gen <=> g < gen' BY <1>3, <2>1
    <2>4. \A g \in 1 .. N : IF g < gen' THEN row'[g] = Initial(g)' /\ AtElem(g)' ELSE pos'[g] = 0
        BY <1>7, <1>9, <2>3
    <2>5. Odometer' BY <1>1, <1>5, <1>6, <1>7, <2>1, <2>4 DEF Odometer
    <2> QED BY <1>1, <2>2, <2>5 DEF IInv, Single
<1>11. CASE ~(gen < N)
    <2>1. /\ gen' = gen
          /\ step' = IF \A g \in 1 .. N : row'[g] = NoElem THEN "over" ELSE "call"
        BY <1>1, <1>11
    <2>2. Types' BY <1>1, <1>2, <1>3, <1>4, <1>7, <2>1 DEF Types, Single
    <2>3. \A g \in 1 .. N : row'[g] = Initial(g) /\ AtElem(g)' BY <1>3, <1>9, <1>11
    <2>4. ASSUME \A g \in 1 .. N : row'[g] = NoElem PROVE Combos = {}
        <3> SUFFICES ASSUME NEW g \in 1 .. N, lens[g] > 0 PROVE FALSE BY DEF Combos
        <3>1. lens[g] # 0 /\ 1 < NoElem BY <1>8
        <3> QED BY <2>3, <2>4, <3>1 DEF Initial
    <2>5. ASSUME ~ \A g \in 1 .. N : row'[g] = NoElem PROVE row' \in Combos
        <3>1. PICK g \in 1 .. N : row'[g] # NoElem BY <2>5
        <3>2. lens[g] > 0 BY <1>8, <2>3, <3>1 DEF Initial
        <3>3. \A h \in 1 .. N : IF lens[h] = 0 THEN row'[h] = NoElem ELSE row'[h] <= lens[h]
            BY <1>8, <2>3 DEF Initial
        <3> QED BY <1>4, <3>2, <3>3 DEF Combos
    <2>6. ASSUME NEW d \in Combos PROVE ~Before(d, row')
        <3> SUFFICES ASSUME NEW g \in 1 .. N, d[g] < row'[g] PROVE FALSE BY DEF Before
        <3>1. d[g] \in 1 .. NoElem /\ (lens[g] = 0 => d[g] = NoElem) BY DEF Combos, Rows
        <3>2. row'[g] = Initial(g) BY <2>3
        <3> QED BY <1>8, <3>1, <3>2 DEF Initial
    <2>7. \A g \in 1 .. N' : AtElem(g)' BY <1>7, <2>3
    <2>8. /\ step' # "fetch" /\ step' # "advance" /\ step' # "cut" /\ step' # "crashed"
          /\ (step' = "call" => row' \in Combos) /\ (step' = "over" => Combos = {})
        BY <2>1, <2>4, <2>5
    <2>9. \A d \in Combos' : d \in ToSet(log') <=> Before(d, row)'
        <3> SUFFICES ASSUME NEW d \in Combos PROVE ~Before(d, row)' BY <1>1, <1>6, <1>7
        <3> QED BY <1>7, <2>6 DEF Before
    <2>10. ToSet(log') = {} /\ 1 .. Len(log') - 1 = {} BY <1>1, <1>6
    <2>11. step' = "call" => row' \in Combos' BY <1>7, <2>8
    <2>12. step' = "over" => ToSet(log') = Combos' BY <1>7, <2>8, <2>10
    <2>13. Odometer' BY <1>1, <1>5, <2>7, <2>8, <2>9, <2>10, <2>11, <2>12 DEF Odometer
    <2> QED BY <1>1, <2>2, <2>13 DEF IInv, Single
<1> QED BY <1>10, <1>11

\* A call comes after those before it.
LEMMA CalledInOrder ==
    ASSUME Types, Odometer, step = "call", comb = "outer"
    PROVE  /\ Append(log, row) \in Seq(Rows)
           /\ ToSet(Append(log, row)) \subseteq Combos
           /\ \A m \in 1 .. Len(Append(log, row)) - 1 :
                 Before(Append(log, row)[m], Append(log, row)[m + 1])
           /\ Append(log, row) # << >> /\ Last(Append(log, row)) = row
           /\ \A d \in Combos : d \in ToSet(Append(log, row)) <=> d = row \/ Before(d, row)
<1> DEFINE l == Append(log, row)
<1>1. log \in Seq(Rows) /\ row \in Rows /\ Len(log) \in Nat BY DEF Types
<1>2. /\ l \in Seq(Rows) /\ Len(l) = Len(log) + 1
      /\ \A i \in 1 .. Len(log) : l[i] = log[i]
      /\ l[Len(log) + 1] = row
      /\ Last(l) = row /\ l # << >>
      /\ \A d : d \in ToSet(l) <=> d = row \/ d \in ToSet(log)
    BY <1>1, AppendIs
<1> HIDE DEF l
<1>3. row \in Combos /\ \A d \in Combos : d \in ToSet(log) <=> Before(d, row) BY DEF Odometer
<1>4. ToSet(log) \subseteq Combos BY DEF Odometer
<1>5. ToSet(l) \subseteq Combos BY <1>2, <1>3, <1>4
<1>6. ASSUME NEW m \in 1 .. Len(l) - 1 PROVE Before(l[m], l[m + 1])
    <2>1. m \in 1 .. Len(log) BY <1>1, <1>2
    <2>2. CASE m = Len(log)
        <3>1. l[m] = log[m] /\ l[m + 1] = row BY <1>2, <2>1, <2>2
        <3>2. log[m] \in ToSet(log) BY <1>1, <2>1 DEF ToSet
        <3> QED BY <1>3, <1>4, <3>1, <3>2
    <2>3. CASE m # Len(log)
        <3>1. m \in 1 .. Len(log) - 1 /\ m + 1 \in 1 .. Len(log) BY <1>1, <2>1, <2>3
        <3>2. l[m] = log[m] /\ l[m + 1] = log[m + 1] BY <1>2, <2>1, <3>1
        <3>3. Before(log[m], log[m + 1]) BY <3>1 DEF Odometer
        <3> QED BY <3>2, <3>3
    <2> QED BY <2>2, <2>3
<1>7. \A d \in Combos : d \in ToSet(l) <=> d = row \/ Before(d, row) BY <1>2, <1>3
<1> QED BY <1>2, <1>5, <1>6, <1>7 DEF l

LEMMA RowCalled ==
    ASSUME Types, RowByRow, step = "call"
    PROVE  /\ Append(log, row) \in Seq(Rows) /\ Len(Append(log, row)) = Len(log) + 1
           /\ \A m \in 1 .. Len(Append(log, row)) : Append(log, row)[m] = RowOf(m) /\ Some(m)
<1> DEFINE l == Append(log, row)
<1>1. log \in Seq(Rows) /\ row \in Rows /\ Len(log) \in Nat BY DEF Types
<1>2. /\ l \in Seq(Rows) /\ Len(l) = Len(log) + 1
      /\ \A i \in 1 .. Len(log) : l[i] = log[i]
      /\ l[Len(log) + 1] = row
    BY <1>1, AppendIs
<1> HIDE DEF l
<1>3. /\ \A m \in 1 .. Len(log) : log[m] = RowOf(m) /\ Some(m)
      /\ row = RowOf(Len(log) + 1) /\ Some(Len(log) + 1)
    BY DEF RowByRow
<1>4. ASSUME NEW m \in 1 .. Len(l) PROVE l[m] = RowOf(m) /\ Some(m)
    <2>1. CASE m = Len(log) + 1 BY <1>2, <1>3, <2>1
    <2>2. CASE m # Len(log) + 1
        <3>1. m \in 1 .. Len(log) BY <1>1, <1>2, <2>2
        <3> QED BY <1>2, <1>3, <3>1
    <2> QED BY <2>1, <2>2
<1> QED BY <1>2, <1>4 DEF l

\* A call of outer gives the function the elements of the lists that are not empty.
LEMMA GivenIs ==
    ASSUME Types, row \in Combos, comb = "outer"
    PROVE  Given = Cardinality(Filled)
<1>1. \A g \in 1 .. N : row[g] # NoElem <=> lens[g] # 0
    <2> SUFFICES ASSUME NEW g \in 1 .. N PROVE row[g] # NoElem <=> lens[g] # 0 OBVIOUS
    <2>1. IF lens[g] = 0 THEN row[g] = NoElem ELSE row[g] <= lens[g] BY DEF Combos
    <2>2. lens[g] \in Nat /\ lens[g] < NoElem /\ NoElem \in Nat BY Typed
    <2> QED BY <2>1, <2>2
<1>2. {g \in 1 .. N : row[g] # NoElem} = Filled BY <1>1 DEF Filled
<1> QED BY <1>2 DEF Given

\* The function is not called, because of the count or for want of an argument.
LEMMA NotCalledKeeps == IInv /\ (NumArgs \/ BindMissing) => IInv'
<1> SUFFICES ASSUME IInv, NumArgs \/ BindMissing PROVE IInv' OBVIOUS
<1>1. /\ step = "call" /\ comb' = comb /\ params' = params /\ lens' = lens
      /\ pos' = pos /\ row' = row /\ gen' = gen /\ log' = log
      /\ \/ step' = "cut" /\ ~Accepted
         \/ step' = "crashed" /\ Accepted /\ ~Enough
    BY DEF NumArgs, BindMissing
<1>2. Types BY DEF IInv
<1>3. /\ N' = N /\ Combos' = Combos /\ Rows' = Rows /\ Filled' = Filled
      /\ \A a, b : Before(a, b)' <=> Before(a, b)
    BY <1>1, CombosSame
<1>4. Types' BY <1>1, <1>2, <1>3 DEF Types, Single
<1>5. N \in Nat /\ params.needs \in Nat BY <1>2, Typed DEF Types
<1>6. ASSUME comb \in Single \cup {"mapcar"} PROVE RowByRow'
    <2>1. RowByRow BY <1>6 DEF IInv
    <2>2. Given = Told BY <1>6 DEF Given, Single
    <2>3. step' = "cut" BY <1>1, <2>2 DEF Accepted, Enough
    <2>4. \A m \in 1 .. Len(log') : log'[m] = RowOf(m)' /\ Some(m)'
        BY <1>1, <1>3, <2>1 DEF RowByRow, RowOf, Some
    <2> QED BY <2>3, <2>4 DEF RowByRow
<1>7. ASSUME comb = "outer" PROVE Odometer'
    <2>1. /\ Odometer /\ row \in Combos BY <1>1, <1>7 DEF IInv, Odometer
    <2>2. Given = Cardinality(Filled) BY <1>2, <1>7, <2>1, GivenIs
    <2>3. Told = N BY <1>7 DEF Told
    <2>4. ASSUME step' = "crashed" PROVE log = << >> /\ \E g \in 1 .. N : lens[g] = 0
        <3>1. Accepted /\ ~Enough BY <1>1, <2>4
        <3>2. log = << >> BY <2>1, <2>2, <3>1 DEF Odometer, Enough
        <3>3. ASSUME \A g \in 1 .. N : lens[g] # 0 PROVE FALSE
            <4>1. Filled = 1 .. N BY <3>3 DEF Filled
            <4>2. Cardinality(1 .. N) = N BY <1>5, FS_Interval
            <4> QED BY <2>2, <2>3, <3>1, <4>1, <4>2 DEF Accepted, Enough
        <3> QED BY <3>2, <3>3
    <2>5. step' = "cut" => log = << >> BY <1>1, <2>1 DEF Odometer
    <2>6. \A m \in 1 .. Len(log') - 1 : Before(log[m], log[m + 1])'
        BY <1>1, <1>3, <2>1 DEF Odometer, Before
    <2>7. /\ ToSet(log') \subseteq Combos'
          /\ log' # << >> => Accepted' /\ params'.needs <= Cardinality(Filled)'
        BY <1>1, <1>3, <2>1, AcceptedSame DEF Odometer
    <2>8. step' \in {"cut", "crashed"} BY <1>1
    <2> QED BY <1>1, <1>3, <2>4, <2>5, <2>6, <2>7, <2>8 DEF Odometer
<1> QED BY <1>1, <1>4, <1>6, <1>7 DEF IInv

LEMMA CallKeeps == IInv /\ CallFunction => IInv'
<1> SUFFICES ASSUME IInv, CallFunction PROVE IInv' OBVIOUS
<1>1. /\ step = "call" /\ Accepted /\ Enough /\ log' = Append(log, row)
      /\ step' = (IF comb = "outer" THEN "advance" ELSE "fetch")
      /\ gen' = (IF comb \in {"outer", "mapcar"} THEN N ELSE 1)
      /\ comb' = comb /\ params' = params /\ lens' = lens /\ pos' = pos /\ row' = row
    BY DEF CallFunction
<1>2. Types BY DEF IInv
<1>3. /\ N' = N /\ Combos' = Combos /\ Rows' = Rows /\ Filled' = Filled
      /\ \A g : Initial(g)' = Initial(g) /\ Final(g)' = Final(g)
      /\ \A a, b : Before(a, b)' <=> Before(a, b)
    BY <1>1, CombosSame
<1>4. log' \in Seq(Rows) BY <1>1, <1>2, AppendIs DEF Types
<1>5. gen' = N /\ N \in Nat /\ N >= 1 /\ Len(log) \in Nat
    BY <1>1, <1>2, Typed DEF Types, Single
<1>6. Types' BY <1>1, <1>2, <1>3, <1>4, <1>5 DEF Types, Single
<1>7. ASSUME comb \in Single \cup {"mapcar"} PROVE RowByRow'
    <2>1. RowByRow /\ step' = "fetch" BY <1>1, <1>7 DEF IInv, Single
    <2>2. /\ Len(log') = Len(log) + 1
          /\ \A m \in 1 .. Len(log') : log'[m] = RowOf(m) /\ Some(m)
        BY <1>1, <1>2, <2>1, RowCalled
    <2>3. \A m \in 1 .. Len(log') : log'[m] = RowOf(m)' /\ Some(m)'
        BY <1>1, <1>3, <2>2 DEF RowOf, Some
    <2>4. \A g \in 1 .. N : AtRow(Len(log) + 1, g) BY <1>1, <2>1 DEF RowByRow
    <2>5. \A g \in 1 .. N : g <= gen' /\ AtRow(Len(log), g)' BY <1>1, <1>5, <2>2, <2>4 DEF AtRow
    <2> QED BY <1>3, <2>1, <2>3, <2>5 DEF RowByRow
<1>8. ASSUME comb = "outer" PROVE Odometer'
    <2>1. Odometer /\ step' = "advance" BY <1>1, <1>8 DEF IInv
    <2>2. /\ ToSet(log') \subseteq Combos
          /\ \A m \in 1 .. Len(log') - 1 : Before(log'[m], log'[m + 1])
          /\ log' # << >> /\ Last(log') = row
          /\ \A d \in Combos : d \in ToSet(log') <=> d = row \/ Before(d, row)
        BY <1>1, <1>2, <1>8, <2>1, CalledInOrder
    <2>3. \A m \in 1 .. Len(log') - 1 : Before(log[m], log[m + 1])' BY <1>3, <2>2 DEF Before
    <2>4. LogUpTo(Last(log))' BY <1>3, <2>2 DEF LogUpTo, Before
    <2>5. \A g \in 1 .. N : AtElem(g)' /\ g <= gen' /\ row'[g] = Last(log')[g]
        BY <1>1, <1>5, <2>1, <2>2 DEF Odometer, AtElem
    <2>6. Accepted' /\ params'.needs <= Cardinality(Filled)'
        BY <1>1, <1>2, <1>3, <1>8, <2>1, AcceptedSame, GivenIs DEF Odometer, Enough
    <2> QED BY <1>3, <2>1, <2>2, <2>3, <2>4, <2>5, <2>6 DEF Odometer
<1> QED BY <1>1, <1>6, <1>7, <1>8 DEF IInv

LEMMA LeaveKeeps == IInv /\ Leave => IInv'
<1> SUFFICES ASSUME IInv, Leave PROVE IInv' OBVIOUS
<1>1. /\ step = "call" /\ Accepted /\ Enough /\ log' = Append(log, row) /\ step' = "cut"
      /\ comb' = comb /\ params' = params /\ lens' = lens /\ pos' = pos /\ row' = row /\ gen' = gen
    BY DEF Leave
<1>2. Types BY DEF IInv
<1>3. /\ N' = N /\ Combos' = Combos /\ Rows' = Rows /\ Filled' = Filled
      /\ \A a, b : Before(a, b)' <=> Before(a, b)
    BY <1>1, CombosSame
<1>4. log' \in Seq(Rows) BY <1>1, <1>2, AppendIs DEF Types
<1>5. Types' BY <1>1, <1>2, <1>3, <1>4 DEF Types, Single
<1>6. ASSUME comb \in Single \cup {"mapcar"} PROVE RowByRow'
    <2>1. RowByRow BY <1>6 DEF IInv
    <2>2. /\ Len(log') = Len(log) + 1
          /\ \A m \in 1 .. Len(log') : log'[m] = RowOf(m) /\ Some(m)
        BY <1>1, <1>2, <2>1, RowCalled
    <2>3. \A m \in 1 .. Len(log') : log'[m] = RowOf(m)' /\ Some(m)'
        BY <1>1, <1>3, <2>2 DEF RowOf, Some
    <2> QED BY <1>1, <2>3 DEF RowByRow
<1>7. ASSUME comb = "outer" PROVE Odometer'
    <2>1. Odometer BY <1>7 DEF IInv
    <2>2. /\ ToSet(log') \subseteq Combos
          /\ \A m \in 1 .. Len(log') - 1 : Before(log'[m], log'[m + 1])
          /\ log' # << >> /\ Last(log') = row
          /\ \A d \in Combos : d \in ToSet(log') <=> d = row \/ Before(d, row)
        BY <1>1, <1>2, <1>7, <2>1, CalledInOrder
    <2>3. \A m \in 1 .. Len(log') - 1 : Before(log[m], log[m + 1])' BY <1>3, <2>2 DEF Before
    <2>4. LogUpTo(Last(log))' BY <1>3, <2>2 DEF LogUpTo, Before
    <2>5. Accepted' /\ params'.needs <= Cardinality(Filled)'
        BY <1>1, <1>2, <1>3, <1>7, <2>1, AcceptedSame, GivenIs DEF Odometer, Enough
    <2> QED BY <1>1, <1>3, <2>2, <2>3, <2>4, <2>5 DEF Odometer
<1> QED BY <1>1, <1>5, <1>6, <1>7 DEF IInv

\* The next combination: those before it are the last one and those before that.
LEMMA NextCombination ==
    ASSUME Types, NEW a \in Combos, NEW b \in Rows, NEW h \in 1 .. N,
           a[h] < lens[h], b[h] = a[h] + 1,
           \A g \in 1 .. N : IF g < h THEN b[g] = a[g]
                             ELSE g # h => b[g] = Initial(g) /\ a[g] = Final(g)
    PROVE  /\ b \in Combos
           /\ \A d \in Combos : d = a \/ Before(d, a) <=> Before(d, b)
<1>0. /\ N \in Nat /\ h \in Nat /\ NoElem \in Nat
      /\ \A g \in 1 .. N : g \in Nat /\ lens[g] \in Nat /\ lens[g] < NoElem
    BY Typed
<1>1. a \in Rows /\ \A g \in 1 .. N : a[g] \in Nat /\ b[g] \in Nat BY <1>0 DEF Combos, Rows
<1>2. b \in Combos
    <2>1. lens[h] > 0 BY <1>0, <1>1
    <2>2. ASSUME NEW g \in 1 .. N
          PROVE  IF lens[g] = 0 THEN b[g] = NoElem ELSE b[g] <= lens[g]
        <3>1. CASE g < h BY <3>1 DEF Combos
        <3>2. CASE g = h BY <1>0, <1>1, <3>2
        <3>3. CASE g > h
            <4>1. b[g] = Initial(g) BY <1>0, <3>3
            <4> QED BY <1>0, <4>1 DEF Initial
        <3> QED BY <1>0, <3>1, <3>2, <3>3
    <2> QED BY <2>1, <2>2 DEF Combos
<1>3. Before(a, b)
    <2>1. a[h] < b[h] BY <1>1
    <2>2. \A g \in 1 .. h - 1 : a[g] = b[g]
        <3> SUFFICES ASSUME NEW g \in 1 .. h - 1 PROVE a[g] = b[g] OBVIOUS
        <3>1. g \in 1 .. N /\ g < h BY <1>0
        <3> QED BY <3>1
    <2> QED BY <2>1, <2>2 DEF Before
<1>4. ASSUME NEW d \in Combos, d = a \/ Before(d, a) PROVE Before(d, b)
    <2>1. d \in Rows BY DEF Combos
    <2>2. CASE d = a BY <1>3, <2>2
    <2>3. CASE Before(d, a) BY <1>1, <1>3, <2>1, <2>3, BeforeTransitive
    <2> QED BY <1>4, <2>2, <2>3
<1>5. ASSUME NEW d \in Combos, Before(d, b) PROVE d = a \/ Before(d, a)
    <2>0. d \in Rows /\ \A g \in 1 .. N : d[g] \in 1 .. NoElem BY DEF Combos, Rows
    <2>1. PICK g \in 1 .. N : d[g] < b[g] /\ \A j \in 1 .. g - 1 : d[j] = b[j]
        BY <1>5 DEF Before
    <2>2. \A j \in 1 .. g - 1 : j \in 1 .. N /\ j < g BY <1>0
    <2>3. CASE g < h
        <3>1. d[g] < a[g] BY <2>1, <2>3
        <3>2. ASSUME NEW j \in 1 .. g - 1 PROVE d[j] = a[j]
            <4>1. j \in 1 .. N /\ j < h BY <1>0, <2>2, <2>3
            <4> QED BY <2>1, <4>1
        <3> QED BY <3>1, <3>2 DEF Before
    <2>4. CASE g = h
        <3>1. ASSUME NEW j \in 1 .. g - 1 PROVE d[j] = a[j]
            <4>1. j \in 1 .. N /\ j < h BY <2>2, <2>4
            <4> QED BY <2>1, <4>1
        <3>2. d[g] \in Nat /\ a[g] \in Nat /\ d[g] < a[g] + 1 BY <1>0, <1>1, <2>0, <2>1, <2>4
        <3>3. CASE d[g] < a[g] BY <3>1, <3>3 DEF Before
        <3>4. CASE d[g] = a[g]
            <4>1. ASSUME NEW i \in 1 .. N PROVE IF i <= h THEN d[i] = a[i] ELSE a[i] = Final(i)
                <5>1. CASE i < h
                    <6>1. i \in 1 .. g - 1 BY <1>0, <2>4, <5>1
                    <6> QED BY <1>0, <3>1, <5>1, <6>1
                <5>2. CASE i = h BY <1>0, <2>4, <3>4, <5>2
                <5>3. CASE i > h BY <1>0, <5>3
                <5> QED BY <1>0, <5>1, <5>2, <5>3
            <4>2. h \in 0 .. N BY <1>0
            <4> QED BY <4>1, <4>2, FinalIsLast
        <3> QED BY <3>2, <3>3, <3>4
    <2>5. CASE g > h
        <3>1. b[g] = Initial(g) BY <1>0, <2>5
        <3>2. lens[g] = 0 => d[g] = NoElem BY DEF Combos
        <3>3. d[g] \in Nat /\ 1 <= d[g] BY <1>0, <2>0
        <3> QED BY <1>0, <2>1, <3>1, <3>2, <3>3 DEF Initial
    <2> QED BY <1>0, <2>3, <2>4, <2>5
<1> QED BY <1>2, <1>4, <1>5

LEMMA AdvanceKeeps == IInv /\ AdvanceOuter => IInv'
<1> SUFFICES ASSUME IInv, AdvanceOuter PROVE IInv' OBVIOUS
<1> DEFINE a == Last(log)
<1>1. /\ step = "advance" /\ comb' = comb /\ params' = params /\ lens' = lens /\ log' = log
    BY DEF AdvanceOuter
<1>2. Types /\ comb = "outer" /\ Odometer BY <1>1 DEF IInv, Types
<1>3. gen \in 1 .. N /\ N \in Nat /\ gen \in Nat BY <1>1, <1>2, Typed DEF Types
<1>4. /\ N' = N /\ Combos' = Combos /\ Rows' = Rows /\ Filled' = Filled
      /\ \A g : Initial(g)' = Initial(g) /\ Final(g)' = Final(g)
      /\ \A c, b : Before(c, b)' <=> Before(c, b)
    BY <1>1, CombosSame
<1>5. /\ log # << >> /\ ToSet(log) \subseteq Combos
      /\ \A m \in 1 .. Len(log) - 1 : Before(log[m], log[m + 1])
      /\ Accepted /\ params.needs <= Cardinality(Filled)
      /\ \A d \in Combos : d \in ToSet(log) <=> d = a \/ Before(d, a)
      /\ \A g \in 1 .. N :
            /\ AtElem(g)
            /\ IF g <= gen THEN row[g] = a[g] ELSE row[g] = Initial(g) /\ a[g] = Final(g)
    BY <1>1, <1>2 DEF Odometer, LogUpTo
<1>6. a \in Combos /\ a \in Rows BY <1>2, <1>5, LastIs DEF Types
<1>7. \A g \in 1 .. N : /\ lens[g] \in Nat /\ lens[g] < NoElem /\ NoElem \in Nat /\ g \in Nat
                        /\ a[g] \in 1 .. NoElem /\ a[g] \in Nat
                        /\ IF lens[g] = 0 THEN a[g] = NoElem ELSE a[g] <= lens[g]
    <2>1. \A g \in 1 .. N : IF lens[g] = 0 THEN a[g] = NoElem ELSE a[g] <= lens[g]
        BY <1>6 DEF Combos
    <2>2. \A g \in 1 .. N : a[g] \in 1 .. NoElem /\ a[g] \in Nat BY <1>6 DEF Rows
    <2> QED BY <1>2, <2>1, <2>2, Typed
<1>8. /\ \A m \in 1 .. Len(log') - 1 : Before(log[m], log[m + 1])'
      /\ Accepted' /\ params'.needs <= Cardinality(Filled)'
    BY <1>1, <1>4, <1>5, AcceptedSame DEF Before
<1> HIDE DEF a
<1>9. CASE pos[gen] < lens[gen]
    <2>1. /\ pos' = Moved(gen) /\ row' = [row EXCEPT ![gen] = NextOf(gen)]
          /\ step' = "call" /\ gen' = gen
        BY <1>9 DEF AdvanceOuter
    <2>2. row' = Fetched(gen) BY <2>1 DEF Fetched
    <2>3. /\ Moved(gen) \in [1 .. N -> Nat] /\ \A h \in 1 .. N : Moved(gen)[h] \in 0 .. lens[h]
          /\ Fetched(gen) \in Rows
          /\ \A h \in 1 .. N : h # gen => Moved(gen)[h] = pos[h] /\ Fetched(gen)[h] = row[h]
          /\ Fetched(gen)[gen] = NextOf(gen)
          /\ Moved(gen)[gen] = IF pos[gen] < lens[gen] THEN pos[gen] + 1 ELSE pos[gen]
          /\ NextOf(gen) = IF pos[gen] < lens[gen] THEN pos[gen] + 1 ELSE NoElem
        BY <1>2, <1>3, NextIs
    <2>4. /\ pos' \in [1 .. N -> Nat] /\ \A h \in 1 .. N : pos'[h] \in 0 .. lens[h]
          /\ row' \in Rows
          /\ \A h \in 1 .. N : h # gen => pos'[h] = pos[h] /\ row'[h] = row[h]
          /\ row'[gen] = pos[gen] + 1 /\ pos'[gen] = pos[gen] + 1
        BY <1>9, <2>1, <2>2, <2>3
    <2>5. lens[gen] # 0 /\ pos[gen] = a[gen] /\ a[gen] < lens[gen]
        <3>1. pos[gen] \in Nat /\ lens[gen] \in Nat BY <1>2, <1>3, Typed
        <3>2. lens[gen] # 0 BY <1>9, <3>1
        <3>3. AtElem(gen) /\ row[gen] = a[gen] BY <1>3, <1>5
        <3> QED BY <1>9, <3>2, <3>3 DEF AtElem
    <2>6. ASSUME NEW g \in 1 .. N
          PROVE  IF g < gen THEN row'[g] = a[g]
                 ELSE g # gen => row'[g] = Initial(g) /\ a[g] = Final(g)
        <3>1. CASE g < gen BY <1>3, <1>5, <2>4, <3>1
        <3>2. CASE g > gen BY <1>3, <1>5, <2>4, <3>2
        <3> QED BY <1>3, <3>1, <3>2
    <2>7. /\ row' \in Combos
          /\ \A d \in Combos : d = a \/ Before(d, a) <=> Before(d, row')
        BY <1>2, <1>3, <1>6, <2>4, <2>5, <2>6, NextCombination
    <2>8. \A d \in Combos' : d \in ToSet(log') <=> Before(d, row)'
        <3> SUFFICES ASSUME NEW d \in Combos PROVE d \in ToSet(log) <=> Before(d, row')
            BY <1>1, <1>4 DEF Before
        <3> QED BY <1>5, <2>7
    <2>9. \A g \in 1 .. N : AtElem(g)'
        <3> SUFFICES ASSUME NEW g \in 1 .. N PROVE AtElem(g)' OBVIOUS
        <3>1. CASE g = gen BY <1>1, <2>4, <2>5, <3>1 DEF AtElem
        <3>2. CASE g # gen BY <1>1, <1>5, <2>4, <3>2 DEF AtElem
        <3> QED BY <3>1, <3>2
    <2>10. Types' BY <1>1, <1>2, <1>3, <1>4, <2>1, <2>4 DEF Types, Single
    <2>11. Odometer' BY <1>1, <1>4, <1>5, <1>8, <2>1, <2>7, <2>8, <2>9 DEF Odometer
    <2> QED BY <1>1, <1>2, <2>10, <2>11 DEF IInv, Single
<1>10. CASE ~(pos[gen] < lens[gen])
    <2> DEFINE p == IF lens[gen] = 0 THEN 0 ELSE 1
               r == IF lens[gen] = 0 THEN NoElem ELSE 1
    <2>1. /\ pos' = [pos EXCEPT ![gen] = p] /\ row' = [row EXCEPT ![gen] = r]
          /\ IF gen > 1 THEN gen' = gen - 1 /\ step' = step ELSE step' = "over" /\ gen' = gen
        BY <1>10 DEF AdvanceOuter
    <2>2. /\ lens[gen] \in Nat /\ pos[gen] \in Nat /\ pos[gen] <= lens[gen]
          /\ NoElem \in Nat \ {0} /\ row[gen] = a[gen] /\ AtElem(gen)
          /\ IF lens[gen] = 0 THEN a[gen] = NoElem ELSE a[gen] <= lens[gen]
        BY <1>2, <1>3, <1>5, <1>7, Typed
    <2>3. p \in 0 .. lens[gen] /\ p \in Nat /\ r \in 1 .. NoElem BY <2>2
    <2>4. a[gen] = Final(gen) BY <1>10, <2>2 DEF AtElem, Final
    <2>5. r = Initial(gen) /\ p = IF lens[gen] = 0 THEN 0 ELSE r BY DEF Initial
    <2> HIDE DEF p, r
    <2>6. /\ pos' \in [1 .. N -> Nat] /\ pos'[gen] = p
          /\ \A h \in 1 .. N : h # gen => pos'[h] = pos[h]
        BY <1>2, <1>3, <2>1, <2>3 DEF Types
    <2>7. /\ row' \in Rows /\ row'[gen] = r
          /\ \A h \in 1 .. N : h # gen => row'[h] = row[h]
        BY <1>2, <1>3, <2>1, <2>3 DEF Types, Rows
    <2>8. \A h \in 1 .. N : pos'[h] \in 0 .. lens[h] BY <1>2, <2>3, <2>6 DEF Types
    <2>9. ASSUME NEW g \in 1 .. N
          PROVE  /\ AtElem(g)'
                 /\ IF g < gen THEN row'[g] = a[g] ELSE row'[g] = Initial(g) /\ a[g] = Final(g)
        <3>1. CASE g < gen BY <1>1, <1>3, <1>5, <2>6, <2>7, <3>1 DEF AtElem
        <3>2. CASE g = gen BY <1>1, <2>4, <2>5, <2>6, <2>7, <3>2 DEF AtElem
        <3>3. CASE g > gen BY <1>1, <1>3, <1>5, <2>6, <2>7, <3>3 DEF AtElem
        <3> QED BY <1>3, <3>1, <3>2, <3>3
    <2>10. CASE gen > 1
        <3>1. gen' = gen - 1 /\ gen' \in 1 .. N /\ step' = "advance" BY <1>1, <1>3, <2>1, <2>10
        <3>2. Types' BY <1>1, <1>2, <1>4, <2>6, <2>7, <2>8, <3>1 DEF Types, Single
        <3>3. \A g \in 1 .. N : g <= gen' <=> g < gen BY <1>3, <3>1
        <3>4. Last(log') = a BY <1>1 DEF a
        <3>5. LogUpTo(Last(log))'
            BY <1>1, <1>4, <1>5, <3>4 DEF LogUpTo, Before
        <3>6. \A g \in 1 .. N :
                 /\ AtElem(g)'
                 /\ IF g <= gen' THEN row'[g] = Last(log')[g]
                    ELSE row'[g] = Initial(g)' /\ Last(log')[g] = Final(g)'
            BY <1>4, <2>9, <3>3, <3>4
        <3>7. Odometer' BY <1>1, <1>4, <1>5, <1>8, <3>1, <3>5, <3>6 DEF Odometer
        <3> QED BY <1>1, <1>2, <3>2, <3>7 DEF IInv, Single
    <2>11. CASE ~(gen > 1)
        <3>1. gen = 1 /\ gen' = gen /\ step' = "over" BY <1>3, <2>1, <2>11
        <3>2. Types' BY <1>1, <1>2, <1>3, <1>4, <2>6, <2>7, <2>8, <3>1 DEF Types, Single
        <3>3. ASSUME NEW d \in Combos PROVE d \in ToSet(log)
            <4>1. \A g \in 1 .. N : IF g <= 0 THEN d[g] = a[g] ELSE a[g] = Final(g)
                BY <1>7, <2>9, <3>1
            <4>2. 0 \in 0 .. N BY <1>3
            <4>3. d = a \/ Before(d, a) BY <1>2, <1>6, <4>1, <4>2, FinalIsLast
            <4> QED BY <1>5, <4>3
        <3>4. ToSet(log) = Combos BY <1>5, <3>3
        <3>5. Odometer' BY <1>1, <1>4, <1>5, <1>8, <3>1, <3>4 DEF Odometer
        <3> QED BY <1>1, <1>2, <3>2, <3>5 DEF IInv, Single
    <2> QED BY <2>10, <2>11
<1> QED BY <1>9, <1>10

-----------------------------------------------------------------------------
\* The invariant holds of every step of foreach, mapcar, outer, reduce and filter: the
\* iterators are at a row, or are the wheels of an odometer that show the next call.
THEOREM IterationInvariant == IterationSpec => []IInv
<1>1. IInv /\ [IterationNext]_lvars => IInv'
    <2> SUFFICES ASSUME IInv, IterationNext PROVE IInv' BY StutterKeeps
    <2>1. ASSUME NEW f \in Single \cup {"mapcar", "outer"}, NEW n \in 1 .. MaxLists,
                 NEW ls \in [1 .. n -> 0 .. MaxLen], NEW takes \in 0 .. MaxLists + 1,
                 NEW needs \in 0 .. takes, Begin(f, needs, takes, ls)
          PROVE  IInv'
        BY <2>1, BeginKeeps
    <2> QED BY <2>1, FetchOneKeeps, FetchRowKeeps, FetchFirstKeeps, CallKeeps, NotCalledKeeps,
               AdvanceKeeps, ClearedKeeps, LeaveKeeps
            DEF IterationNext, IterationStep, IterationReturns, Restart
<1> QED BY <1>1, InitHolds, PTL DEF IterationSpec

\* Over containers of any lengths: the state is of its type, iterators stay in their
\* containers.
THEOREM IterationTyped == IterationSpec => []IterationTypeOK
<1>1. IInv => IterationTypeOK
    <2> SUFFICES ASSUME IInv PROVE IterationTypeOK OBVIOUS
    <2>1. Types BY DEF IInv
    <2>2. N \in Nat /\ Len(pos) = N /\ Len(row) = N
        BY <2>1, Typed, FunctionIs DEF Types, Rows
    <2>3. \A g \in 1 .. N : pos[g] \in 0 .. lens[g] /\ row[g] \in 1 .. NoElem
        BY <2>1, Typed DEF Types
    <2>4. gen \in 0 .. N BY <2>1, <2>2 DEF Types
    <2> QED BY <2>1, <2>2, <2>3, <2>4 DEF IterationTypeOK, Types
<1> QED BY <1>1, IterationInvariant, PTL

\* What the rows are of which foreach, mapcar, reduce and filter call.
LEMMA DueRows ==
    ASSUME Types, comb \in Single \cup {"mapcar"}
    PROVE  \A c : c \in Due <=> \E k \in 1 .. MaxLen : Some(k) /\ c = RowOf(k)
<1>1. CASE comb = "mapcar"
    <2>1. Due = {RowOf(k) : k \in {k \in 1 .. MaxLen : Some(k)}}
        BY <1>1 DEF Due, RowOf, Some, Single
    <2> QED BY <2>1
<1>2. CASE comb \in Single
    <2>1. N = 1 /\ Due = {<<k>> : k \in 1 .. lens[1]} BY <1>2 DEF Types, Due, Single
    <2>2. lens[1] \in Nat /\ lens[1] <= MaxLen /\ MaxLen \in Nat
        <3>1. 1 \in 1 .. N BY <2>1
        <3> QED BY <3>1, Typed
    <2>3. \A k \in 1 .. MaxLen : Some(k) <=> k <= lens[1] BY <2>1 DEF Some
    <2>4. ASSUME NEW k \in 1 .. lens[1] PROVE RowOf(k) = <<k>>
        <3>1. \A x : <<x>> = [g \in 1 .. 1 |-> x] OBVIOUS
        <3>2. RowOf(k) = [g \in 1 .. 1 |-> k] BY <2>1, <2>2 DEF RowOf
        <3> QED BY <3>1, <3>2
    <2>5. \A k : k \in 1 .. lens[1] <=> k \in 1 .. MaxLen /\ Some(k) BY <2>2, <2>3
    <2> QED BY <2>1, <2>4, <2>5
<1> QED BY <1>1, <1>2

LEMMA RowsInOrder ==
    ASSUME Types, NEW m \in Nat, Some(m)
    PROVE  Before(RowOf(m), RowOf(m + 1))
<1> DEFINE T == {g \in 1 .. N : m <= lens[g]}
<1>1. T \in SUBSET Nat /\ T # {} BY DEF Some
<1>2. PICK e \in T : \A j \in T : e <= j BY <1>1, LeastElement
<1>3. e \in 1 .. N /\ m <= lens[e] /\ e \in Nat /\ N \in Nat BY Typed
<1>4. \A g \in 1 .. N : lens[g] \in Nat /\ lens[g] < NoElem /\ NoElem \in Nat BY Typed
<1>5. RowOf(m)[e] < RowOf(m + 1)[e]
    <2>1. /\ RowOf(m)[e] = IF m <= lens[e] THEN m ELSE NoElem
          /\ RowOf(m + 1)[e] = IF m + 1 <= lens[e] THEN m + 1 ELSE NoElem
        BY <1>3 DEF RowOf
    <2>2. lens[e] \in Nat /\ lens[e] < NoElem /\ NoElem \in Nat BY <1>3, <1>4
    <2>3. RowOf(m)[e] = m /\ m < NoElem BY <1>3, <2>1, <2>2
    <2> QED BY <2>1, <2>2, <2>3
<1>6. ASSUME NEW j \in 1 .. e - 1 PROVE RowOf(m)[j] = RowOf(m + 1)[j]
    <2>1. j \in 1 .. N /\ ~(e <= j) BY <1>3
    <2>2. ~(m <= lens[j]) BY <1>2, <2>1
    <2>3. ~(m + 1 <= lens[j]) BY <1>4, <2>1, <2>2
    <2> QED BY <2>1, <2>2, <2>3 DEF RowOf
<1> QED BY <1>3, <1>5, <1>6 DEF Before

LEMMA RowsBefore ==
    ASSUME Types, NEW k \in Nat, NEW n \in Nat, Before(RowOf(k), RowOf(n))
    PROVE  k < n
<1>1. PICK g \in 1 .. N : RowOf(k)[g] < RowOf(n)[g] BY DEF Before
<1>2. lens[g] \in Nat /\ lens[g] < NoElem /\ NoElem \in Nat BY Typed
<1>3. /\ RowOf(k)[g] = IF k <= lens[g] THEN k ELSE NoElem
      /\ RowOf(n)[g] = IF n <= lens[g] THEN n ELSE NoElem
    BY DEF RowOf
<1>4. (IF k <= lens[g] THEN k ELSE NoElem) < (IF n <= lens[g] THEN n ELSE NoElem)
    BY <1>1, <1>3
<1> QED BY <1>2, <1>4

LEMMA RowsCalled ==
    ASSUME Types, RowByRow, comb \in Single \cup {"mapcar"} PROVE CallsInOrder
<1> DEFINE n == Len(log)
<1>1. n \in Nat /\ DOMAIN log = 1 .. n /\ MaxLen \in Nat BY Typed DEF Types
<1>2. \A m \in 1 .. n : log[m] = RowOf(m) /\ Some(m) BY DEF RowByRow
<1>3. \A m \in Nat \ {0} : Some(m) => m \in 1 .. MaxLen
    <2> SUFFICES ASSUME NEW m \in Nat \ {0}, NEW g \in 1 .. N, m <= lens[g]
                 PROVE  m \in 1 .. MaxLen
        BY DEF Some
    <2>1. lens[g] \in 0 .. MaxLen BY Typed
    <2> QED BY <1>1, <2>1
<1>4. \A c : c \in ToSet(log) <=> \E m \in 1 .. n : c = RowOf(m)
    BY <1>1, <1>2 DEF ToSet
<1>5. ToSet(log) \subseteq Due
    <2> SUFFICES ASSUME NEW m \in 1 .. n PROVE RowOf(m) \in Due BY <1>4
    <2>1. m \in Nat \ {0} /\ Some(m) BY <1>1, <1>2
    <2> QED BY <1>3, <2>1, DueRows
<1>6. ASSUME NEW m \in 1 .. n - 1 PROVE Before(log[m], log[m + 1])
    <2>1. m \in 1 .. n /\ m + 1 \in 1 .. n /\ m \in Nat BY <1>1
    <2>2. log[m] = RowOf(m) /\ log[m + 1] = RowOf(m + 1) /\ Some(m) BY <1>2, <2>1
    <2> QED BY <2>1, <2>2, RowsInOrder
<1>7. ASSUME log # << >>, NEW c \in Due, Before(c, Last(log)) PROVE c \in ToSet(log)
    <2>1. n \in 1 .. n /\ Last(log) = log[n] BY <1>1, <1>7, LastIs DEF Types
    <2>2. PICK k \in 1 .. MaxLen : c = RowOf(k) BY DueRows
    <2>3. Before(RowOf(k), RowOf(n)) /\ k \in Nat BY <1>1, <1>2, <1>7, <2>1, <2>2
    <2>4. k < n BY <1>1, <2>3, RowsBefore
    <2>5. k \in 1 .. n BY <1>1, <2>4
    <2> QED BY <1>4, <2>2, <2>5
<1>8. ASSUME step = "over" PROVE ToSet(log) = Due
    <2>1. ~Some(n + 1) BY <1>8 DEF RowByRow
    <2>2. ASSUME NEW k \in 1 .. MaxLen, Some(k) PROVE k \in 1 .. n
        <3>1. PICK g \in 1 .. N : k <= lens[g] BY <2>2 DEF Some
        <3>2. ~(n + 1 <= lens[g]) /\ lens[g] \in Nat BY <2>1, Typed DEF Some
        <3> QED BY <1>1, <3>1, <3>2
    <2>3. Due \subseteq ToSet(log) BY <1>4, <2>2, DueRows
    <2> QED BY <1>5, <2>3
<1>9. step # "crashed" BY DEF RowByRow
<1> QED BY <1>5, <1>6, <1>7, <1>8, <1>9 DEF CallsInOrder

LEMMA CombosCalled ==
    ASSUME Types, Odometer, comb = "outer" PROVE CallsInOrder
<1>1. Due = Combos BY DEF Due, Combos, Rows, Single
<1>2. /\ ToSet(log) \subseteq Combos
      /\ \A m \in 1 .. Len(log) - 1 : Before(log[m], log[m + 1])
      /\ step = "over" => ToSet(log) = Combos
      /\ step = "crashed" => log = << >> /\ \E g \in 1 .. N : lens[g] = 0
    BY DEF Odometer
<1>3. ASSUME log # << >>, NEW c \in Combos, Before(c, Last(log)) PROVE c \in ToSet(log)
    <2>1. CASE step \in {"advance", "cut"} BY <1>3, <2>1 DEF Odometer, LogUpTo
    <2>2. CASE step = "call"
        <3>1. Last(log) \in Combos /\ Last(log) \in ToSet(log) BY <1>2, <1>3, LastIs DEF Types
        <3>2. row \in Combos /\ \A d \in Combos : d \in ToSet(log) <=> Before(d, row)
            BY <2>2 DEF Odometer
        <3>3. Before(Last(log), row) BY <3>1, <3>2
        <3>4. c \in Rows /\ Last(log) \in Rows /\ row \in Rows BY <3>1, <3>2 DEF Combos
        <3>5. Before(c, row) BY <1>3, <3>3, <3>4, BeforeTransitive
        <3> QED BY <3>2, <3>5
    <2>3. CASE step = "over" BY <1>2, <2>3
    <2>4. step # "off" /\ step # "fetch" /\ step # "crashed" BY <1>3 DEF Types, Odometer
    <2> QED BY <2>1, <2>2, <2>3, <2>4 DEF Types
<1> QED BY <1>1, <1>2, <1>3 DEF CallsInOrder

\* Over containers of any lengths: a function that takes as many arguments as it is told
\* of is called with the elements in their order, outer with the last list running fastest;
\* none is missed, none comes twice.  With another count it is not called at all.  The
\* process ends only in outer, with an empty list, and before the first call.
THEOREM CallsOrdered == IterationSpec => []CallsInOrder
<1>1. IInv => CallsInOrder
    <2> SUFFICES ASSUME IInv PROVE CallsInOrder OBVIOUS
    <2>1. CASE comb \in Single \cup {"mapcar"} BY <2>1, RowsCalled DEF IInv
    <2>2. CASE comb = "outer" BY <2>2, CombosCalled DEF IInv
    <2>3. CASE comb = "none"
        <3>1. log = << >> /\ step = "off" BY <2>3 DEF IInv, Types
        <3>2. ToSet(log) = {} /\ 1 .. Len(log) - 1 = {} BY <3>1 DEF ToSet
        <3> QED BY <3>1, <3>2 DEF CallsInOrder
    <2> QED BY <2>1, <2>2, <2>3 DEF IInv, Types
<1> QED BY <1>1, IterationInvariant, PTL

-----------------------------------------------------------------------------
\* Every step of an iteration gets nearer to its end: what IterationDone rests on,
\* besides fairness.

\* The calls still to be made.
Remaining == Due \ ToSet(log)

\* On the way to the next call, or to the end.
IterationStage ==
    CASE step \in {"fetch", "advance"} -> 3
      [] step = "call" -> 2
      [] step \in {"over", "cut", "crashed"} -> 1
      [] OTHER -> 0

\* The iterators still to be asked before it.
Asked == IF step = "fetch" /\ comb = "outer" THEN N - gen ELSE gen

IterationAdvances ==
    /\ Remaining' \subseteq Remaining
    /\ \/ Remaining' # Remaining
       \/ IterationStage' < IterationStage
       \/ IterationStage' = IterationStage /\ Asked' < Asked

IterationMeasured == Remaining \subseteq Rows /\ N \in Nat /\ Asked \in Nat

LEMMA DueSame ==
    ASSUME comb' = comb, lens' = lens
    PROVE  Due' = Due /\ N' = N
<1>1. N' = N BY DEF N
<1> QED BY <1>1 DEF Due

\* No call is made twice.
LEMMA RowIsNew ==
    ASSUME IInv, step = "call"
    PROVE  row \in Due /\ row \notin ToSet(log) /\ log \in Seq(Rows) /\ row \in Rows
<1>1. Types /\ log \in Seq(Rows) /\ row \in Rows BY DEF IInv, Types
<1>2. CASE comb = "outer"
    <2>1. Due = Combos BY <1>2 DEF Due, Combos, Rows, Single
    <2>2. row \in Combos /\ (row \in ToSet(log) <=> Before(row, row)) BY <1>2 DEF IInv, Odometer
    <2>3. \A g \in 1 .. N : row[g] \in Nat BY <1>1, Typed
    <2>4. ~Before(row, row) BY <2>3 DEF Before
    <2> QED BY <1>1, <2>1, <2>2, <2>4
<1>3. CASE comb \in Single \cup {"mapcar"}
    <2> DEFINE k == Len(log)
    <2>1. /\ row = RowOf(k + 1) /\ Some(k + 1)
          /\ \A m \in 1 .. k : log[m] = RowOf(m)
        BY <1>3 DEF IInv, RowByRow
    <2>2. k \in Nat /\ DOMAIN log = 1 .. k /\ MaxLen \in Nat BY <1>1, Typed DEF Types
    <2> HIDE DEF k
    <2>3. PICK g \in 1 .. N : k + 1 <= lens[g] BY <2>1 DEF Some
    <2>4. lens[g] \in 0 .. MaxLen BY <1>1, Typed
    <2>5. k + 1 \in 1 .. MaxLen BY <2>2, <2>3, <2>4
    <2>6. row \in Due BY <1>1, <1>3, <2>1, <2>5, DueRows
    <2>7. ASSUME NEW m \in 1 .. k, log[m] = row PROVE FALSE
        <3>1. RowOf(m)[g] = RowOf(k + 1)[g] BY <2>1, <2>7
        <3>2. m <= lens[g] BY <2>2, <2>3, <2>4
        <3>3. RowOf(m)[g] = m /\ RowOf(k + 1)[g] = k + 1 BY <2>3, <3>2 DEF RowOf
        <3> QED BY <2>2, <3>1, <3>3
    <2>8. row \notin ToSet(log) BY <2>2, <2>7 DEF ToSet
    <2> QED BY <1>1, <2>6, <2>8
<1>4. comb # "none" BY DEF IInv, Types
<1> QED BY <1>1, <1>2, <1>3, <1>4 DEF Types

LEMMA CallAdvances == IInv /\ (CallFunction \/ Leave) => IterationAdvances
<1> SUFFICES ASSUME IInv, CallFunction \/ Leave PROVE IterationAdvances OBVIOUS
<1>1. step = "call" /\ log' = Append(log, row) /\ comb' = comb /\ params' = params /\ lens' = lens
    BY DEF CallFunction, Leave
<1>2. row \in Due /\ row \notin ToSet(log) /\ log \in Seq(Rows) /\ row \in Rows
    BY <1>1, RowIsNew
<1>3. \A d : d \in ToSet(Append(log, row)) <=> d = row \/ d \in ToSet(log)
    BY <1>2, AppendIs
<1>4. Remaining' = Due \ ToSet(Append(log, row)) BY <1>1, DueSame DEF Remaining
<1>5. Remaining' \subseteq Remaining /\ row \in Remaining /\ row \notin Remaining'
    BY <1>2, <1>3, <1>4 DEF Remaining
<1> QED BY <1>5 DEF IterationAdvances

\* A call that is refused, or that ends the process, is the last.
LEMMA NotCalledAdvances == IInv /\ (NumArgs \/ BindMissing) => IterationAdvances
<1> SUFFICES ASSUME IInv, NumArgs \/ BindMissing PROVE IterationAdvances OBVIOUS
<1>1. /\ step = "call" /\ step' \in {"cut", "crashed"}
      /\ comb' = comb /\ lens' = lens /\ log' = log
    BY DEF NumArgs, BindMissing
<1>2. Remaining' = Remaining BY <1>1, DueSame DEF Remaining
<1>3. IterationStage' < IterationStage BY <1>1 DEF IterationStage
<1> QED BY <1>2, <1>3 DEF IterationAdvances

LEMMA FetchAdvances == IInv /\ (FetchOne \/ FetchRow \/ FetchFirst) => IterationAdvances
<1> SUFFICES ASSUME IInv, FetchOne \/ FetchRow \/ FetchFirst PROVE IterationAdvances OBVIOUS
<1>1. /\ step = "fetch" /\ comb' = comb /\ params' = params /\ lens' = lens /\ log' = log
      /\ comb \in Single \cup {"mapcar", "outer"}
    BY DEF FetchOne, FetchRow, FetchFirst
<1>2. Remaining' = Remaining /\ N' = N BY <1>1, DueSame DEF Remaining
<1>3. N \in Nat /\ gen \in 1 .. N BY <1>1, Typed DEF IInv, Types
<1>4. \/ step' \in {"over", "call"}
      \/ step' = "fetch" /\ comb = "mapcar" /\ gen' = gen - 1
      \/ step' = "fetch" /\ comb = "outer" /\ gen' = gen + 1
    BY <1>1 DEF FetchOne, FetchRow, FetchFirst
<1>5. CASE step' \in {"over", "call"}
    <2>1. IterationStage' < IterationStage BY <1>1, <1>5 DEF IterationStage
    <2> QED BY <1>2, <2>1 DEF IterationAdvances
<1>6. CASE \/ step' = "fetch" /\ comb = "mapcar" /\ gen' = gen - 1
           \/ step' = "fetch" /\ comb = "outer" /\ gen' = gen + 1
    <2>1. IterationStage' = IterationStage BY <1>1, <1>6 DEF IterationStage
    <2>2. Asked' < Asked BY <1>1, <1>2, <1>3, <1>6 DEF Asked
    <2> QED BY <1>2, <2>1, <2>2 DEF IterationAdvances
<1> QED BY <1>4, <1>5, <1>6

LEMMA NextAdvances ==
    IInv /\ (AdvanceOuter \/ IterationReturns \/ Restart) => IterationAdvances
<1>1. ASSUME IInv, AdvanceOuter PROVE IterationAdvances
    <2>1. step = "advance" /\ comb' = comb /\ params' = params /\ lens' = lens /\ log' = log
        BY <1>1 DEF AdvanceOuter
    <2>2. Remaining' = Remaining BY <2>1, DueSame DEF Remaining
    <2>3. gen \in Nat BY <1>1, <2>1, Typed DEF IInv, Types
    <2>4. step' \in {"call", "over"} \/ (step' = "advance" /\ gen' = gen - 1)
        BY <1>1, <2>1 DEF AdvanceOuter
    <2>5. CASE step' \in {"call", "over"}
        <3>1. IterationStage' < IterationStage BY <2>1, <2>5 DEF IterationStage
        <3> QED BY <2>2, <3>1 DEF IterationAdvances
    <2>6. CASE step' = "advance" /\ gen' = gen - 1
        <3>1. IterationStage' = IterationStage BY <2>1, <2>6 DEF IterationStage
        <3>2. Asked' < Asked BY <2>1, <2>3, <2>6 DEF Asked
        <3> QED BY <2>2, <3>1, <3>2 DEF IterationAdvances
    <2> QED BY <2>4, <2>5, <2>6
<1>2. ASSUME IterationReturns \/ Restart PROVE IterationAdvances
    <2>1. step \in {"over", "cut", "crashed"} /\ step' = "off" /\ comb' = "none"
        BY <1>2 DEF IterationReturns, Restart, Cleared
    <2>2. Remaining' = {} BY <2>1 DEF Remaining, Due, Single
    <2>3. IterationStage' < IterationStage BY <2>1 DEF IterationStage
    <2> QED BY <2>2, <2>3 DEF IterationAdvances
<1> QED BY <1>1, <1>2

LEMMA IterationMeasures == IInv => IterationMeasured
<1> SUFFICES ASSUME IInv PROVE IterationMeasured OBVIOUS
<1>1. Types BY DEF IInv
<1>2. N \in Nat /\ gen \in 0 .. N /\ gen \in Nat BY <1>1, Typed DEF Types
<1>3. Asked \in Nat BY <1>2 DEF Asked
<1>4. Due \subseteq Rows
    <2>1. CASE comb = "none" BY <2>1 DEF Due, Single
    <2>2. CASE comb = "outer" BY <2>2 DEF Due, Rows, Single
    <2>3. CASE comb \in Single \cup {"mapcar"}
        <3>1. ASSUME NEW k \in 1 .. MaxLen PROVE RowOf(k) \in Rows
            <4>1. k \in 1 .. NoElem /\ NoElem \in 1 .. NoElem BY <1>1, Typed
            <4> QED BY <4>1 DEF RowOf, Rows
        <3> QED BY <1>1, <2>3, <3>1, DueRows
    <2> QED BY <1>1, <2>1, <2>2, <2>3 DEF Types
<1> QED BY <1>2, <1>3, <1>4 DEF IterationMeasured, Remaining

\* Over containers of any lengths: every step leaves fewer calls to be made, or is nearer
\* to the next one, and none goes on for ever asking iterators, however many of the
\* containers are empty and whatever count the function takes.
THEOREM IterationGoesOn ==
    IterationSpec => []IterationMeasured /\ [][step = "off" \/ IterationAdvances]_lvars
<1>1. IInv /\ IterationNext => step = "off" \/ IterationAdvances
    <2>1. ASSUME NEW f, NEW needs, NEW takes, NEW ls, Begin(f, needs, takes, ls)
          PROVE  step = "off"
        BY <2>1 DEF Begin
    <2> QED BY <2>1, CallAdvances, NotCalledAdvances, FetchAdvances, NextAdvances
            DEF IterationNext, IterationStep
<1> QED BY <1>1, IterationInvariant, IterationMeasures, PTL DEF IterationSpec

-----------------------------------------------------------------------------
(* The evaluator.                                                          *)

\* Whichever part a behaviour is about, it is a behaviour of each of the four: the
\* others stand still.
THEOREM PartsRun == Spec => CallSpec /\ ScopesSpec /\ SortSpec /\ IterationSpec
<1>1. Init => CallInit /\ ScopesInit /\ SortInit /\ IterationInit
  BY DEF Init
<1>2. [Next]_vars => [CallNext]_cvars /\ [ScopesNext]_evars /\ [SortNext]_svars /\ [IterationNext]_lvars
  <2>1. UNCHANGED vars => UNCHANGED cvars /\ UNCHANGED evars /\ UNCHANGED svars /\ UNCHANGED lvars
    BY DEF vars
  <2> QED  BY <2>1 DEF Next
<1> QED  BY <1>1, <1>2, PTL DEF Spec, CallSpec, ScopesSpec, SortSpec, IterationSpec

\* The type of the whole state, for any program, array, lists and depth.
THEOREM EvaluatorTyped == Spec => []EvaluatorTypeOK
<1>1. CallTypeOK /\ ScopesTypeOK /\ SortTypeOK /\ IterationTypeOK => EvaluatorTypeOK
  BY DEF EvaluatorTypeOK
<1> QED  BY <1>1, PartsRun, CallTyped, ScopesTyped, SortStaysInside, IterationTyped, PTL

\* What is proved of the parts holds of the evaluator: pushed environments and
\* frames are left, a name stands for the nearest method, modules hide the names
\* of their callers, constants stay, sort loses nothing, iterations miss nothing, and
\* of them only an outer over an empty list can end the process (CallsInOrder).
THEOREM EvaluatorSafe ==
    Spec => /\ [](ScopesKept /\ NearestMethod /\ ModuleHides /\ SortKeeps /\ CallsInOrder)
            /\ ConstantsKept
BY PartsRun, FramesCorrect, NearestFound, ModulesHide, SortCorrect, CallsOrdered,
   ConstantsAreKept, PTL

\* And calls keep their promise, with the callables for which the counts are right.
THEOREM EvaluatorKeepsPromise == Counted => (Spec => CallsKeepPromise)
BY PartsRun, PromiseKept

=============================================================================
