----------------------------- MODULE HeapProofs -----------------------------
(***************************************************************************)
(* Proofs about Heap: for any number of pages, cells, slots and objects,   *)
(* reference counts are exact at every step of a release and of a          *)
(* collection, what can be reached is kept and all else is collected, as   *)
(* long as the types of the objects are those for which sx_free and        *)
(* sx_mark follow all references (Sound).                                  *)
(***************************************************************************)
EXTENDS Heap, FiniteSetTheorems, FunctionTheorems, SequenceTheorems, TLAPS

\* How often x is a value of f.
At(f, x) == Cardinality({s \in DOMAIN f : f[s] = x})

One(p) == IF p THEN 1 ELSE 0

-----------------------------------------------------------------------------
(* Counting.                                                               *)

LEMMA AtNat ==
  ASSUME NEW f, IsFiniteSet(DOMAIN f), NEW x
  PROVE  /\ At(f, x) \in Nat
         /\ At(f, x) > 0 <=> \E s \in DOMAIN f : f[s] = x
<1> DEFINE S == {s \in DOMAIN f : f[s] = x}
<1>1. IsFiniteSet(S)
  BY FS_Subset
<1>2. Cardinality(S) \in Nat /\ (Cardinality(S) = 0 <=> S = {})
  BY <1>1, FS_CardinalityType, FS_EmptySet
<1>3. S = {} <=> ~ \E s \in DOMAIN f : f[s] = x
  OBVIOUS
<1> QED  BY <1>2, <1>3 DEF At

LEMMA AtAdd ==
  ASSUME NEW f, NEW g, NEW k, k \notin DOMAIN f, IsFiniteSet(DOMAIN f),
         DOMAIN g = DOMAIN f \cup {k}, \A s \in DOMAIN f : g[s] = f[s], NEW x
  PROVE  At(g, x) = At(f, x) + One(g[k] = x)
<1> DEFINE S == {s \in DOMAIN f : f[s] = x}
           T == {s \in DOMAIN g : g[s] = x}
<1>1. IsFiniteSet(S) /\ Cardinality(S) \in Nat /\ k \notin S
  BY FS_Subset, FS_CardinalityType
<1>2. T = IF g[k] = x THEN S \cup {k} ELSE S
  OBVIOUS
<1> HIDE DEF S, T
<1>3. Cardinality(T) = Cardinality(S) + One(g[k] = x)
  <2>1. CASE g[k] = x
    BY <1>1, <1>2, <2>1, FS_AddElement DEF One
  <2>2. CASE g[k] # x
    BY <1>1, <1>2, <2>2 DEF One
  <2> QED  BY <2>1, <2>2
<1> QED  BY <1>3 DEF At, S, T

\* A change at k alone.
LEMMA AtChange ==
  ASSUME NEW f, NEW g, NEW k \in DOMAIN f, IsFiniteSet(DOMAIN f),
         DOMAIN g = DOMAIN f, \A s \in DOMAIN f : s # k => g[s] = f[s], NEW x
  PROVE  At(g, x) = At(f, x) - One(f[k] = x) + One(g[k] = x)
<1> DEFINE D == DOMAIN f \ {k}
           h == [s \in D |-> f[s]]
<1>1. IsFiniteSet(DOMAIN h) /\ k \notin DOMAIN h /\ DOMAIN f = DOMAIN h \cup {k}
  BY FS_RemoveElement
<1>2. \A s \in DOMAIN h : f[s] = h[s] /\ g[s] = h[s]
  OBVIOUS
<1> HIDE DEF h
<1>3. At(f, x) = At(h, x) + One(f[k] = x) /\ At(g, x) = At(h, x) + One(g[k] = x)
  BY <1>1, <1>2, AtAdd
<1>4. At(h, x) \in Nat
  BY <1>1, AtNat
<1> QED  BY <1>3, <1>4 DEF One

\* Values of g are the values of f, each as often.
LEMMA AtBijection ==
  ASSUME NEW f, NEW g, IsFiniteSet(DOMAIN f), NEW b \in Bijection(DOMAIN f, DOMAIN g),
         \A s \in DOMAIN f : g[b[s]] = f[s], NEW x
  PROVE  At(g, x) = At(f, x)
<1> DEFINE S == {s \in DOMAIN f : f[s] = x}
           T == {s \in DOMAIN g : g[s] = x}
           c == [s \in S |-> b[s]]
<1>1. /\ b \in [DOMAIN f -> DOMAIN g]
      /\ \A s, t \in DOMAIN f : b[s] = b[t] => s = t
      /\ \A t \in DOMAIN g : \E s \in DOMAIN f : b[s] = t
  BY DEF Bijection, Injection, Surjection, IsInjective
<1>2. c \in [S -> T] /\ (\A s, t \in S : c[s] = c[t] => s = t)
  BY <1>1
<1>3. \A t \in T : \E s \in S : c[s] = t
  BY <1>1
<1>4. c \in Bijection(S, T)
  <2> HIDE DEF c, S, T
  <2> QED  BY <1>2, <1>3, Fun_IsBij
<1>5. ExistsBijection(S, T)
  BY <1>4 DEF ExistsBijection
<1>6. IsFiniteSet(S)
  BY FS_Subset
<1> QED  BY <1>5, <1>6, FS_Bijection DEF At

LEMMA AtSeq ==
  ASSUME NEW S, NEW w \in Seq(S)
  PROVE  /\ IsFiniteSet(DOMAIN w) /\ DOMAIN w = 1 .. Len(w)
         /\ \A x : At(w, x) \in Nat /\ (At(w, x) > 0 <=> \E i \in 1 .. Len(w) : w[i] = x)
<1>1. DOMAIN w = 1 .. Len(w) /\ Len(w) \in Nat
  OBVIOUS
<1>2. IsFiniteSet(DOMAIN w)
  BY <1>1, FS_Interval
<1> QED  BY <1>1, <1>2, AtNat

LEMMA AtConcat ==
  ASSUME NEW S, NEW v \in Seq(S), NEW w \in Seq(S), NEW x
  PROVE  At(v \o w, x) = At(v, x) + At(w, x)
<1> DEFINE m == Len(v)
           n == Len(w)
           c == v \o w
           A == {i \in 1 .. m : v[i] = x}
           B == {i \in 1 .. n : w[i] = x}
           C == {i \in m + 1 .. m + n : c[i] = x}
           T == {i \in 1 .. m + n : c[i] = x}
           f == [i \in B |-> i + m]
<1>1. m \in Nat /\ n \in Nat
  OBVIOUS
<1>2. /\ Len(c) = m + n /\ c \in Seq(S)
      /\ \A i \in 1 .. m + n : c[i] = IF i <= m THEN v[i] ELSE w[i - m]
  BY ConcatProperties
<1>3. At(v, x) = Cardinality(A) /\ At(w, x) = Cardinality(B) /\ At(c, x) = Cardinality(T)
  <2>1. DOMAIN v = 1 .. m /\ DOMAIN w = 1 .. n /\ DOMAIN c = 1 .. m + n
    BY <1>2
  <2> QED  BY <2>1 DEF At
<1> HIDE DEF c, m, n
<1>4. T = A \cup C /\ A \cap C = {}
  BY <1>1, <1>2
<1>5. IsFiniteSet(1 .. m) /\ IsFiniteSet(1 .. n) /\ IsFiniteSet(m + 1 .. m + n)
  BY <1>1, FS_Interval
<1>6. IsFiniteSet(A) /\ IsFiniteSet(B) /\ IsFiniteSet(C)
  BY <1>5, FS_Subset
<1>7. Cardinality(C) = Cardinality(B)
  <2>1. /\ f \in [B -> C] /\ \A i, j \in B : f[i] = f[j] => i = j
    BY <1>1, <1>2
  <2>2. \A k \in C : \E i \in B : f[i] = k
    <3> SUFFICES ASSUME NEW k \in C  PROVE \E i \in B : f[i] = k
      OBVIOUS
    <3>1. k - m \in B
      BY <1>1, <1>2
    <3>2. f[k - m] = k
      BY <1>1, <3>1
    <3> QED  BY <3>1, <3>2
  <2>3. f \in Bijection(B, C)
    <3> HIDE DEF f, B, C
    <3> QED  BY <2>1, <2>2, Fun_IsBij
  <2>4. ExistsBijection(B, C)
    BY <2>3 DEF ExistsBijection
  <2> QED  BY <1>6, <2>4, FS_Bijection
<1>8. Cardinality(T) = Cardinality(A) + Cardinality(C)
  <2> HIDE DEF T, A, C
  <2>1. Cardinality(T) = Cardinality(A) + Cardinality(C) - Cardinality({})
    BY <1>4, <1>6, FS_Union
  <2>2. Cardinality(A) \in Nat /\ Cardinality(C) \in Nat /\ Cardinality({}) = 0
    BY <1>6, FS_CardinalityType, FS_EmptySet
  <2> QED  BY <2>1, <2>2
<1> QED  BY <1>3, <1>7, <1>8 DEF c

LEMMA AtOne ==
  ASSUME NEW e, NEW x
  PROVE  At(<<e>>, x) = One(e = x)
<1> DEFINE S == {s \in DOMAIN <<e>> : <<e>>[s] = x}
<1>1. DOMAIN <<e>> = {1} /\ <<e>>[1] = e
  OBVIOUS
<1>2. S = IF e = x THEN {1} ELSE {}
  BY <1>1
<1>3. Cardinality({1}) = 1 /\ Cardinality({}) = 0
  BY FS_Singleton, FS_EmptySet
<1> QED  BY <1>2, <1>3 DEF At, One

LEMMA AtEmpty ==
  ASSUME NEW x
  PROVE  At(<< >>, x) = 0
<1>1. {s \in DOMAIN << >> : << >>[s] = x} = {}
  OBVIOUS
<1> QED  BY <1>1, FS_EmptySet DEF At

LEMMA AtHead ==
  ASSUME NEW S, NEW w \in Seq(S), w # << >>, NEW x
  PROVE  At(w, x) = At(Tail(w), x) + One(Head(w) = x)
<1>1. w = <<Head(w)>> \o Tail(w) /\ Head(w) \in S /\ Tail(w) \in Seq(S) /\ <<Head(w)>> \in Seq(S)
  BY HeadTailProperties
<1>2. At(w, x) = At(<<Head(w)>>, x) + At(Tail(w), x)
  BY <1>1, AtConcat
<1>3. At(Tail(w), x) \in Nat
  BY <1>1, AtSeq
<1> QED  BY <1>2, <1>3, AtOne DEF One

-----------------------------------------------------------------------------
(* Objects and their fields.                                               *)

Names == {"name", "filename", "mode", "data", "expr", "dict", "sha1", "car", "cdr",
          "inst_of", "parent", "class_vars", "class_methods", "inst_methods",
          "class", "func", "sx", "cl"}

Fields(t) == IF t = "none" THEN {} ELSE FieldsOf(t)

Records == UNION {[F -> Values] : F \in SUBSET Names}

Objects == [type : AllTypes \cup {"none"}, refs : Records, ref_cnt : Nat,
            list : {"unmapped", "free", "white", "grey"}]

\* What the object o counts for in the references to x.
Used(o, x) == IF o.ref_cnt > 0 THEN At(o.refs, x) ELSE 0

\* The fields of objects in use that hold x.
Uses(h, x) ==
    UNION {{<<d, f>> : f \in {f \in DOMAIN h[d].refs : h[d].refs[f] = x}} :
              d \in {d \in Cells : h[d].ref_cnt > 0}}

\* The types whose references sx_free releases, and those whose references sx_mark
\* marks.
Sound ==
    /\ \A t \in Types : {Released[t][i] : i \in DOMAIN Released[t]} = FieldsOf(t)
    /\ Collects => \A t \in Types : {Marked[t][i] : i \in DOMAIN Marked[t]} = FieldsOf(t)

\* A list of fields, without repetition.
Listing(names) ==
    /\ names \in Seq(Names)
    /\ \A i, j \in 1 .. Len(names) : names[i] = names[j] => i = j

LEMMA CellsFinite == IsFiniteSet(Cells) /\ Cells \cap {Nil} = {}
  BY HeapAssumption, FS_UNION DEF Cells

LEMMA PagesApart ==
  ASSUME NEW c \in Cells
  PROVE  /\ PageOf(c) \in Pages /\ c \in PageOf(c)
         /\ \A p \in Pages : c \in p <=> p = PageOf(c)
         /\ \A p \in Pages : p \subseteq Cells /\ IsFiniteSet(p) /\ p # {}
<1>1. \E p \in Pages : c \in p
  BY DEF Cells
<1>2. PageOf(c) \in Pages /\ c \in PageOf(c)
  BY <1>1 DEF PageOf
<1>3. \A p, q \in Pages : p # q => p \cap q = {}
  BY HeapAssumption
<1> QED  BY <1>2, <1>3, HeapAssumption DEF Cells

LEMMA NamesFinite == IsFiniteSet(Names)
<1> DEFINE f == <<"name", "filename", "mode", "data", "expr", "dict", "sha1", "car", "cdr",
                  "inst_of", "parent", "class_vars", "class_methods", "inst_methods",
                  "class", "func", "sx", "cl">>
<1>1. IsFiniteSet(1 .. 18)
  <2> DEFINE n == 18
  <2>1. n \in Int
    OBVIOUS
  <2> HIDE DEF n
  <2>2. IsFiniteSet(1 .. n)
    BY <2>1, FS_Interval
  <2> QED  BY <2>2 DEF n
<1>2. f \in Surjection(1 .. 18, Names)
  <2>1. f \in [1 .. 18 -> Names]
    BY DEF Names
  <2>2. \A x \in Names : \E i \in 1 .. 18 : f[i] = x
    BY DEF Names
  <2> QED  BY <2>1, <2>2 DEF Surjection
<1> QED  BY <1>1, <1>2, FS_Surjection

LEMMA RecordFinite ==
  ASSUME NEW r \in Records
  PROVE  IsFiniteSet(DOMAIN r) /\ DOMAIN r \subseteq Names /\ \A f \in DOMAIN r : r[f] \in Values
<1>1. PICK F \in SUBSET Names : r \in [F -> Values]
  BY DEF Records
<1> QED  BY <1>1, NamesFinite, FS_Subset

LEMMA RetainedIs ==
      /\ Retained["str"] = << >>
      /\ Retained["sym"] = << >>
      /\ Retained["subr"] = <<"name">>
      /\ Retained["file"] = <<"filename", "mode">>
      /\ Retained["array"] = <<"data">>
      /\ Retained["closure"] = <<"expr", "dict">>
      /\ Retained["module"] = <<"name", "sha1", "dict">>
      /\ Retained["lib"] = <<"name", "sha1", "dict">>
      /\ Retained["dptr"] = <<"car", "cdr">>
      /\ Retained["obj"] = <<"inst_of", "dict">>
      /\ Retained["class"] = <<"inst_of", "name", "parent", "class_vars", "class_methods", "inst_methods">>
      /\ Retained["method"] = <<"class", "func">>
      /\ Retained["blob"] = <<"inst_of">>
      /\ Retained["iter"] = <<"sx">>
      /\ Retained["closuregen"] = <<"cl", "dict">>
  BY DEF Retained

LEMMA ReleasedIs ==
      /\ Released["str"] = << >>
      /\ Released["sym"] = << >>
      /\ Released["subr"] = <<"name">>
      /\ Released["file"] = <<"filename", "mode">>
      /\ Released["array"] = <<"data">>
      /\ Released["closure"] = <<"expr", "dict">>
      /\ Released["module"] = << >>
      /\ Released["lib"] = <<"name", "sha1", "dict">>
      /\ Released["dptr"] = <<"car", "cdr">>
      /\ Released["obj"] = <<"dict", "inst_of">>
      /\ Released["class"] = <<"name", "parent", "class_vars", "class_methods", "inst_methods", "inst_of">>
      /\ Released["method"] = << >>
      /\ Released["blob"] = <<"inst_of">>
      /\ Released["iter"] = <<"sx">>
      /\ Released["closuregen"] = <<"cl", "dict">>
  BY RetainedIs DEF Released, Retained

LEMMA MarkedIs ==
      /\ Marked["str"] = << >>
      /\ Marked["sym"] = << >>
      /\ Marked["subr"] = <<"name">>
      /\ Marked["file"] = <<"filename", "mode">>
      /\ Marked["array"] = <<"data">>
      /\ Marked["closure"] = <<"expr", "dict">>
      /\ Marked["module"] = <<"dict">>
      /\ Marked["lib"] = <<"dict">>
      /\ Marked["dptr"] = <<"car", "cdr">>
      /\ Marked["obj"] = << >>
      /\ Marked["class"] = << >>
      /\ Marked["method"] = << >>
      /\ Marked["blob"] = << >>
      /\ Marked["iter"] = <<"sx">>
      /\ Marked["closuregen"] = <<"cl", "dict">>
  BY RetainedIs DEF Marked, Retained

LEMMA Listings ==
  /\ Listing(<< >>)
  /\ Listing(<<"name">>)
  /\ Listing(<<"data">>)
  /\ Listing(<<"dict">>)
  /\ Listing(<<"inst_of">>)
  /\ Listing(<<"sx">>)
  /\ Listing(<<"filename", "mode">>)
  /\ Listing(<<"expr", "dict">>)
  /\ Listing(<<"car", "cdr">>)
  /\ Listing(<<"inst_of", "dict">>)
  /\ Listing(<<"dict", "inst_of">>)
  /\ Listing(<<"class", "func">>)
  /\ Listing(<<"cl", "dict">>)
  /\ Listing(<<"name", "sha1", "dict">>)
  /\ Listing(<<"inst_of", "name", "parent", "class_vars", "class_methods", "inst_methods">>)
  /\ Listing(<<"name", "parent", "class_vars", "class_methods", "inst_methods", "inst_of">>)
<1>1. Listing(<< >>)
  BY DEF Listing
<1>2. ASSUME NEW x \in Names  PROVE Listing(<<x>>)
  BY DEF Listing
<1>3. ASSUME NEW x \in Names, NEW y \in Names, x # y  PROVE Listing(<<x, y>>)
  <2> DEFINE s == <<x, y>>
  <2>1. s \in Seq(Names) /\ Len(s) = 2 /\ s[1] = x /\ s[2] = y
    OBVIOUS
  <2>2. \A i, j \in 1 .. 2 : s[i] = s[j] => i = j
    BY <1>3
  <2> HIDE DEF s
  <2>3. Listing(s)
    BY <2>1, <2>2 DEF Listing
  <2> QED  BY <2>3 DEF s
<1>4. ASSUME NEW x \in Names, NEW y \in Names, NEW z \in Names, x # y, x # z, y # z
      PROVE  Listing(<<x, y, z>>)
  <2> DEFINE s == <<x, y, z>>
  <2>1. s \in Seq(Names) /\ Len(s) = 3 /\ s[1] = x /\ s[2] = y /\ s[3] = z
    OBVIOUS
  <2>2. \A i, j \in 1 .. 3 : s[i] = s[j] => i = j
    BY <1>4
  <2> HIDE DEF s
  <2>3. Listing(s)
    BY <2>1, <2>2 DEF Listing
  <2> QED  BY <2>3 DEF s
<1>5. Listing(<<"inst_of", "name", "parent", "class_vars", "class_methods", "inst_methods">>)
  <2> DEFINE s == <<"inst_of", "name", "parent", "class_vars", "class_methods", "inst_methods">>
  <2>1. s \in Seq(Names) /\ Len(s) = 6
    BY DEF Names
  <2>2. \A i, j \in 1 .. 6 : s[i] = s[j] => i = j
    OBVIOUS
  <2> HIDE DEF s
  <2>3. Listing(s)
    BY <2>1, <2>2 DEF Listing
  <2> QED  BY <2>3 DEF s
<1>6. Listing(<<"name", "parent", "class_vars", "class_methods", "inst_methods", "inst_of">>)
  <2> DEFINE s == <<"name", "parent", "class_vars", "class_methods", "inst_methods", "inst_of">>
  <2>1. s \in Seq(Names) /\ Len(s) = 6
    BY DEF Names
  <2>2. \A i, j \in 1 .. 6 : s[i] = s[j] => i = j
    OBVIOUS
  <2> HIDE DEF s
  <2>3. Listing(s)
    BY <2>1, <2>2 DEF Listing
  <2> QED  BY <2>3 DEF s
<1>7. Listing(<<"name">>)
  BY <1>2 DEF Names
<1>8. Listing(<<"data">>)
  BY <1>2 DEF Names
<1>9. Listing(<<"dict">>)
  BY <1>2 DEF Names
<1>10. Listing(<<"inst_of">>)
  BY <1>2 DEF Names
<1>11. Listing(<<"sx">>)
  BY <1>2 DEF Names
<1>12. Listing(<<"filename", "mode">>)
  BY <1>3 DEF Names
<1>13. Listing(<<"expr", "dict">>)
  BY <1>3 DEF Names
<1>14. Listing(<<"car", "cdr">>)
  BY <1>3 DEF Names
<1>15. Listing(<<"inst_of", "dict">>)
  BY <1>3 DEF Names
<1>16. Listing(<<"dict", "inst_of">>)
  BY <1>3 DEF Names
<1>17. Listing(<<"class", "func">>)
  BY <1>3 DEF Names
<1>18. Listing(<<"cl", "dict">>)
  BY <1>3 DEF Names
<1>19. Listing(<<"name", "sha1", "dict">>)
  BY <1>4 DEF Names
<1> QED  BY <1>1, <1>5, <1>6, <1>7, <1>8, <1>9, <1>10, <1>11, <1>12, <1>13, <1>14, <1>15, <1>16, <1>17, <1>18, <1>19

LEMMA FieldsAre ==
  /\ FieldsOf("str") = {}
  /\ FieldsOf("sym") = {}
  /\ FieldsOf("subr") = {"name"}
  /\ FieldsOf("file") = {"filename", "mode"}
  /\ FieldsOf("array") = {"data"}
  /\ FieldsOf("closure") = {"expr", "dict"}
  /\ FieldsOf("module") = {"name", "sha1", "dict"}
  /\ FieldsOf("lib") = {"name", "sha1", "dict"}
  /\ FieldsOf("dptr") = {"car", "cdr"}
  /\ FieldsOf("obj") = {"inst_of", "dict"}
  /\ FieldsOf("class") = {"inst_of", "name", "parent", "class_vars", "class_methods", "inst_methods"}
  /\ FieldsOf("method") = {"class", "func"}
  /\ FieldsOf("blob") = {"inst_of"}
  /\ FieldsOf("iter") = {"sx"}
  /\ FieldsOf("closuregen") = {"cl", "dict"}
<1>1. FieldsOf("str") = {}
  BY RetainedIs DEF FieldsOf
<1>2. FieldsOf("sym") = {}
  BY RetainedIs DEF FieldsOf
<1>3. FieldsOf("subr") = {"name"}
  BY RetainedIs DEF FieldsOf
<1>4. FieldsOf("file") = {"filename", "mode"}
  BY RetainedIs DEF FieldsOf
<1>5. FieldsOf("array") = {"data"}
  BY RetainedIs DEF FieldsOf
<1>6. FieldsOf("closure") = {"expr", "dict"}
  BY RetainedIs DEF FieldsOf
<1>7. FieldsOf("module") = {"name", "sha1", "dict"}
  BY RetainedIs DEF FieldsOf
<1>8. FieldsOf("lib") = {"name", "sha1", "dict"}
  BY RetainedIs DEF FieldsOf
<1>9. FieldsOf("dptr") = {"car", "cdr"}
  BY RetainedIs DEF FieldsOf
<1>10. FieldsOf("obj") = {"inst_of", "dict"}
  BY RetainedIs DEF FieldsOf
<1>11. FieldsOf("class") = {"inst_of", "name", "parent", "class_vars", "class_methods", "inst_methods"}
  BY RetainedIs DEF FieldsOf
<1>12. FieldsOf("method") = {"class", "func"}
  BY RetainedIs DEF FieldsOf
<1>13. FieldsOf("blob") = {"inst_of"}
  BY RetainedIs DEF FieldsOf
<1>14. FieldsOf("iter") = {"sx"}
  BY RetainedIs DEF FieldsOf
<1>15. FieldsOf("closuregen") = {"cl", "dict"}
  BY RetainedIs DEF FieldsOf
<1> QED  BY <1>1, <1>2, <1>3, <1>4, <1>5, <1>6, <1>7, <1>8, <1>9, <1>10, <1>11, <1>12, <1>13, <1>14, <1>15

LEMMA Tables ==
  ASSUME NEW t \in AllTypes
  PROVE  /\ Listing(Retained[t]) /\ Listing(Released[t]) /\ Listing(Marked[t])
         /\ FieldsOf(t) \subseteq Names
         /\ t \in ModuleTypes => "sha1" \in FieldsOf(t)
<1>1. t \in {"str", "sym", "subr", "file", "array", "closure", "module", "lib", "dptr", "obj",
             "class", "method", "blob", "iter", "closuregen"}
  BY DEF AllTypes, Retained
<1>2. Listing(Retained[t])
  BY <1>1, Listings, RetainedIs
<1>3. Listing(Released[t])
  BY <1>1, Listings, ReleasedIs
<1>4. Listing(Marked[t])
  BY <1>1, Listings, MarkedIs
<1>5. FieldsOf(t) \subseteq Names
  BY <1>1, FieldsAre DEF Names
<1>6. t \in ModuleTypes => "sha1" \in FieldsOf(t)
  BY FieldsAre DEF ModuleTypes
<1> QED  BY <1>2, <1>3, <1>4, <1>5, <1>6

-----------------------------------------------------------------------------
(* References through fields.                                              *)

\* Those of c, and those of the others.
LEMMA UsesSplit ==
  ASSUME NEW h \in [Cells -> Objects], NEW c \in Cells, NEW x
  PROVE  LET others == {u \in Uses(h, x) : u[1] # c}
         IN  /\ IsFiniteSet(Uses(h, x)) /\ IsFiniteSet(others)
             /\ Cardinality(others) \in Nat /\ Used(h[c], x) \in Nat
             /\ Cardinality(Uses(h, x)) = Cardinality(others) + Used(h[c], x)
<1> DEFINE U == Uses(h, x)
           others == {u \in U : u[1] # c}
           mine == {u \in U : u[1] = c}
           F == {f \in DOMAIN h[c].refs : h[c].refs[f] = x}
           b == [u \in mine |-> u[2]]
<1>1. U \subseteq Cells \X Names
  <2>1. \A d \in Cells : DOMAIN h[d].refs \subseteq Names
    BY RecordFinite DEF Objects
  <2> QED  BY <2>1 DEF Uses
<1>2. IsFiniteSet(Cells \X Names)
  BY CellsFinite, NamesFinite, FS_Product
<1>3. IsFiniteSet(U) /\ IsFiniteSet(others) /\ IsFiniteSet(mine)
  <2>1. others \subseteq Cells \X Names /\ mine \subseteq Cells \X Names
    BY <1>1
  <2> QED  BY <1>1, <1>2, <2>1, FS_Subset
<1>4. \A u \in mine : u[1] = c /\ u[2] \in F /\ h[c].ref_cnt > 0
  BY DEF Uses
<1>5. h[c].ref_cnt > 0 => \A f \in F : <<c, f>> \in mine
  BY DEF Uses
<1>6. IsFiniteSet(F) /\ At(h[c].refs, x) = Cardinality(F) /\ Cardinality(F) \in Nat
  <2>1. IsFiniteSet(DOMAIN h[c].refs)
    BY RecordFinite DEF Objects
  <2> QED  BY <2>1, FS_Subset, FS_CardinalityType DEF At
<1>7. Cardinality(mine) = Used(h[c], x)
  <2>1. CASE h[c].ref_cnt > 0
    <3>1. b \in [mine -> F]
      BY <1>4
    <3>2. \A u, v \in mine : b[u] = b[v] => u = v
      <4>1. \A u \in mine : u \in Cells \X Names
        BY <1>1
      <4> QED  BY <1>4, <4>1
    <3>3. \A f \in F : \E u \in mine : b[u] = f
      <4> SUFFICES ASSUME NEW f \in F  PROVE \E u \in mine : b[u] = f
        OBVIOUS
      <4>1. <<c, f>> \in mine /\ b[<<c, f>>] = f
        BY <1>5, <2>1
      <4> QED  BY <4>1
    <3>4. b \in Bijection(mine, F)
      <4> HIDE DEF b, mine, F
      <4> QED  BY <3>1, <3>2, <3>3, Fun_IsBij
    <3>5. ExistsBijection(mine, F)
      BY <3>4 DEF ExistsBijection
    <3>6. Cardinality(F) = Cardinality(mine)
      BY <1>3, <3>5, FS_Bijection
    <3> QED  BY <1>6, <2>1, <3>6 DEF Used
  <2>2. CASE ~(h[c].ref_cnt > 0)
    <3>1. mine = {}
      BY <1>4, <2>2
    <3> QED  BY <2>2, <3>1, FS_EmptySet DEF Used
  <2> QED  BY <2>1, <2>2
<1>8. Cardinality(U) = Cardinality(others) + Cardinality(mine)
  <2>1. U = others \cup mine /\ others \cap mine = {}
    OBVIOUS
  <2> HIDE DEF U, others, mine
  <2>2. Cardinality(U) = Cardinality(others) + Cardinality(mine) - Cardinality({})
    BY <1>3, <2>1, FS_Union
  <2>3. Cardinality(others) \in Nat /\ Cardinality(mine) \in Nat /\ Cardinality({}) = 0
    BY <1>3, FS_CardinalityType, FS_EmptySet
  <2> QED  BY <2>2, <2>3
<1>9. Cardinality(others) \in Nat
  BY <1>3, FS_CardinalityType
<1>10. Used(h[c], x) \in Nat
  BY <1>6 DEF Used
<1> QED  BY <1>3, <1>7, <1>8, <1>9, <1>10

\* Objects of which all is the same that counts.
Alike(o, q) ==
    /\ o.ref_cnt > 0 <=> q.ref_cnt > 0
    /\ o.ref_cnt > 0 => o.refs = q.refs

LEMMA UsesChange ==
  ASSUME NEW h \in [Cells -> Objects], NEW g \in [Cells -> Objects], NEW c \in Cells, NEW x,
         \A d \in Cells : d # c => Alike(h[d], g[d])
  PROVE  /\ Cardinality(Uses(h, x)) \in Nat
         /\ Cardinality(Uses(g, x)) =
              Cardinality(Uses(h, x)) - Used(h[c], x) + Used(g[c], x)
<1> DEFINE A == {u \in Uses(h, x) : u[1] # c}
           B == {u \in Uses(g, x) : u[1] # c}
<1>1. A = B
  <2>1. ASSUME NEW u \in A  PROVE u \in B
    BY <2>1 DEF Uses, Alike
  <2>2. ASSUME NEW u \in B  PROVE u \in A
    BY <2>2 DEF Uses, Alike
  <2> QED  BY <2>1, <2>2
<1>2. /\ Cardinality(A) \in Nat /\ Used(h[c], x) \in Nat
      /\ Cardinality(Uses(h, x)) = Cardinality(A) + Used(h[c], x)
  BY UsesSplit
<1>3. /\ Used(g[c], x) \in Nat
      /\ Cardinality(Uses(g, x)) = Cardinality(B) + Used(g[c], x)
  BY UsesSplit
<1> HIDE DEF A, B
<1> QED  BY <1>1, <1>2, <1>3

LEMMA UsesSame ==
  ASSUME NEW h \in [Cells -> Objects], NEW g \in [Cells -> Objects], NEW x,
         \A d \in Cells : Alike(h[d], g[d])
  PROVE  Cardinality(Uses(g, x)) = Cardinality(Uses(h, x))
<1>1. Uses(h, x) = Uses(g, x)
  <2>1. ASSUME NEW u \in Uses(h, x)  PROVE u \in Uses(g, x)
    BY <2>1 DEF Uses, Alike
  <2>2. ASSUME NEW u \in Uses(g, x)  PROVE u \in Uses(h, x)
    BY <2>2 DEF Uses, Alike
  <2> QED  BY <2>1, <2>2
<1> QED  BY <1>1

\* A reference through a field of an object that is referred to.
LEMMA UsedField ==
  ASSUME NEW h \in [Cells -> Objects], NEW d \in Cells, h[d].ref_cnt > 0,
         NEW f \in DOMAIN h[d].refs
  PROVE  Cardinality(Uses(h, h[d].refs[f])) > 0
<1> DEFINE x == h[d].refs[f]
<1>1. <<d, f>> \in Uses(h, x)
  BY DEF Uses
<1>2. IsFiniteSet(Uses(h, x))
  BY UsesSplit
<1> HIDE DEF x
<1>3. Cardinality(Uses(h, x)) \in Nat /\ Cardinality(Uses(h, x)) # 0
  BY <1>1, <1>2, FS_EmptySet, FS_CardinalityType
<1>4. Cardinality(Uses(h, x)) > 0
  BY <1>3
<1> QED  BY <1>4 DEF x

-----------------------------------------------------------------------------
(* Sequences of calls.                                                     *)

LEMMA CallsCount ==
  ASSUME NEW S, NEW vals \in Seq(S), NEW op, NEW op2, NEW x
  PROVE  At(Calls(op, vals), Call(op2, x)) = IF op = op2 THEN At(vals, x) ELSE 0
<1> DEFINE A == {i \in DOMAIN Calls(op, vals) : Calls(op, vals)[i] = Call(op2, x)}
           B == {i \in DOMAIN vals : vals[i] = x}
<1>1. DOMAIN Calls(op, vals) = 1 .. Len(vals) /\ DOMAIN vals = 1 .. Len(vals)
  BY DEF Calls
<1>2. \A i \in 1 .. Len(vals) :
         Calls(op, vals)[i] = Call(op2, x) <=> op = op2 /\ vals[i] = x
  BY DEF Calls, Call
<1>3. A = IF op = op2 THEN B ELSE {}
  BY <1>1, <1>2
<1> QED  BY <1>3, FS_EmptySet DEF At

LEMMA FieldsCount ==
  ASSUME NEW names, Listing(names), NEW r,
         DOMAIN r = {names[i] : i \in DOMAIN names}, NEW x
  PROVE  LET vals == [i \in 1 .. Len(names) |-> r[names[i]]]
         IN  At(vals, x) = At(r, x)
<1> DEFINE vals == [i \in 1 .. Len(names) |-> r[names[i]]]
<1>1. DOMAIN names = 1 .. Len(names) /\ Len(names) \in Nat
  BY DEF Listing
<1>2. names \in Bijection(1 .. Len(names), DOMAIN r)
  <2>1. names \in [1 .. Len(names) -> DOMAIN r]
    BY <1>1 DEF Listing
  <2>2. \A t \in DOMAIN r : \E i \in 1 .. Len(names) : names[i] = t
    BY <1>1
  <2> QED  BY <2>1, <2>2, Fun_IsBij DEF Listing
<1>3. IsFiniteSet(1 .. Len(names))
  BY <1>1, FS_Interval
<1>4. DOMAIN vals = 1 .. Len(names) /\ \A i \in DOMAIN vals : r[names[i]] = vals[i]
  OBVIOUS
<1> HIDE DEF vals
<1>5. At(r, x) = At(vals, x)
  BY <1>2, <1>3, <1>4, AtBijection
<1> QED  BY <1>5 DEF vals

LEMMA OrderCount ==
  ASSUME NEW S, IsFiniteSet(S), NEW s \in SetToSeqs(S), NEW x
  PROVE  /\ s \in Seq(S)
         /\ At(s, x) = One(x \in S)
<1> DEFINE D == 1 .. Cardinality(S)
           T == {i \in DOMAIN s : s[i] = x}
<1>1. s \in [D -> S] /\ \A i, j \in D : i # j => s[i] # s[j]
  BY DEF SetToSeqs
<1>2. Cardinality(S) \in Nat
  BY FS_CardinalityType
<1>3. Cardinality(D) = Cardinality(S)
  BY <1>2, FS_Interval
<1>4. s \in Surjection(D, S)
  <2>1. s \in Injection(D, S)
    BY <1>1 DEF Injection, IsInjective
  <2> HIDE DEF D
  <2> QED  BY <1>3, <2>1, FS_Injection
<1>5. s \in Seq(S)
  BY <1>1, <1>2
<1>6. CASE x \in S
  <2>1. PICK i \in D : s[i] = x
    BY <1>4, <1>6 DEF Surjection
  <2>2. T = {i}
    BY <1>1, <2>1
  <2> QED  BY <1>5, <1>6, <2>2, FS_Singleton DEF At, One
<1>7. CASE x \notin S
  <2>1. T = {}
    BY <1>1, <1>7
  <2> QED  BY <1>5, <1>7, <2>1, FS_EmptySet DEF At, One
<1> QED  BY <1>6, <1>7

-----------------------------------------------------------------------------
(* The invariant.                                                          *)

Marks == [op : {"mark"}, sx : Values]

Releases == [op : {"release"}, sx : Values]

Frees == [op : {"free1"}, sx : Cells]

SweepCall == Call("sweep", Nil)

SymCall == Call("sym_collect", Nil)

AllocCall == Call("alloc", Nil)

LastCalls == {SweepCall, SymCall, AllocCall}

\* What comes after the recursive calls: nothing, or the rest of a collection.
Ends == {<< >>, <<AllocCall>>, <<SymCall>>, <<SymCall, AllocCall>>}

Swept == {<<SweepCall, SymCall>>, <<SweepCall, SymCall, AllocCall>>}

\* The calls of work are of S, up to an end of B.
InPhase(w, S, B) == \E front \in Seq(S), back \in B : w = front \o back

Releasing == InPhase(work, Releases \cup Frees, Ends)

Marking == InPhase(work, Marks, Swept)

Sweeping == InPhase(work, Frees, Swept)

\* An object with the fields of its type.  A module has a sha1.
Made == {o \in Objects :
            /\ o.type \in Types \cup {"sym", "none"}
            /\ DOMAIN o.refs = Fields(o.type)
            /\ o.type \in ModuleTypes => o.refs["sha1"] \in Cells}

HeapTypes ==
    /\ cell \in [Cells -> Made]
    /\ in_use_cnt \in [Pages -> Nat]
    /\ slot \in [Slots -> Values]
    /\ permanent \subseteq sym_set /\ sym_set \subseteq Cells
    /\ \A c \in sym_set : cell[c].type = "sym"
    /\ loaded \in [DOMAIN loaded -> Cells] /\ DOMAIN loaded \subseteq Cells
    /\ Collects => DOMAIN loaded = {}
    /\ status \in {"run", "fatal"}

\* RefCntExact, in terms of At.
Balance(x) ==
    cell[x].ref_cnt + At(work, Call("mark", x))
      = At(slot, x) + One(x \in sym_set) + One(x \in DOMAIN loaded) + At(loaded, x)
        + Cardinality(Uses(cell, x)) + At(work, Call("release", x))

Balanced == \A x \in Cells : Balance(x)

\* What is marked is in use, and so is all it refers to.
MarksInUse ==
    /\ \A c \in Cells : At(work, Call("mark", c)) > 0 => InUse(c)
    /\ \A c \in Cells : InUse(c) =>
           \A f \in DOMAIN cell[c].refs : cell[c].refs[f] # Nil => InUse(cell[c].refs[f])

Phased ==
    \/ Releasing /\ OnList("grey") = {}
    \/ Collects /\ Marking /\ MarksInUse
    \/ Collects /\ Sweeping

\* Objects without references are grey or about to be freed, once.
Reclaimed(c) ==
    /\ cell[c].list = "grey" => cell[c].ref_cnt = 0
    /\ cell[c].ref_cnt > 0 => InUse(c)
    /\ InUse(c) => cell[c].type # "none"
    /\ At(work, Call("free1", c)) <= One(InUse(c) /\ cell[c].ref_cnt = 0)
    /\ InUse(c) /\ cell[c].ref_cnt = 0 /\ cell[c].list # "grey" => At(work, Call("free1", c)) = 1

PageCounted(p) ==
    /\ in_use_cnt[p] = Cardinality({c \in p : InUse(c)})
    /\ \A c \in p : cell[c].list = "unmapped" <=> in_use_cnt[p] = 0

\* An object can be made with these fields.
Wanted(w) ==
    /\ w = Want(w.type, w.refs, w.dst)
    /\ w.type \in Types /\ w.dst \in Slots
    /\ w.refs \in [FieldsOf(w.type) -> {Nil} \cup {slot[s] : s \in Slots}]
    /\ w.type \in ModuleTypes => w.refs["sha1"] # Nil

WantOK == At(work, AllocCall) > 0 => Wanted(want)

\* Tables do not hold what they refer to.
TablesOK ==
    /\ \A k \in DOMAIN loaded :
           /\ cell[loaded[k]].type \in ModuleTypes
           /\ cell[loaded[k]].refs["sha1"] = k
           /\ cell[loaded[k]].ref_cnt > 1
    /\ At(work, SymCall) = 0 => \A c \in sym_set \ permanent : cell[c].ref_cnt > 1

HeapInv ==
    /\ HeapTypes /\ Balanced /\ Phased /\ \A c \in Cells : Reclaimed(c)
    /\ \A p \in Pages : PageCounted(p)
    /\ WantOK /\ TablesOK

-----------------------------------------------------------------------------
(* The shape of work.                                                      *)

AllCalls == Marks \cup Releases \cup Frees \cup LastCalls

LEMMA BackSeqs ==
  Ends \subseteq Seq(LastCalls) /\ Swept \subseteq Seq(LastCalls)
<1>1. << >> \in Seq(LastCalls) /\ <<AllocCall>> \in Seq(LastCalls) /\ <<SymCall>> \in Seq(LastCalls)
  BY DEF LastCalls
<1>2. <<SymCall, AllocCall>> \in Seq(LastCalls) /\ <<SweepCall, SymCall>> \in Seq(LastCalls)
  BY DEF LastCalls
<1>3. <<SweepCall, SymCall, AllocCall>> \in Seq(LastCalls)
  BY DEF LastCalls
<1> QED  BY <1>1, <1>2, <1>3 DEF Ends, Swept

LEMMA ConcatParts ==
  ASSUME NEW S, NEW e \in S, NEW w \in Seq(S)
  PROVE  /\ <<e>> \o w # << >> /\ Head(<<e>> \o w) = e /\ Tail(<<e>> \o w) = w
<1> DEFINE c == <<e>> \o w
           t == Tail(c)
<1>1. /\ c \in Seq(S) /\ Len(c) = 1 + Len(w)
      /\ \A i \in 1 .. Len(c) : c[i] = IF i <= 1 THEN e ELSE w[i - 1]
  <2>1. <<e>> \in Seq(S) /\ Len(<<e>>) = 1 /\ <<e>>[1] = e
    OBVIOUS
  <2>2. /\ c \in Seq(S) /\ Len(c) = Len(<<e>>) + Len(w)
        /\ \A i \in 1 .. Len(<<e>>) + Len(w) : c[i] = IF i <= Len(<<e>>) THEN <<e>>[i] ELSE w[i - Len(<<e>>)]
    BY <2>1, ConcatProperties
  <2> QED  BY <2>1, <2>2
<1> HIDE DEF c
<1>2. Len(w) \in Nat
  OBVIOUS
<1>3. c # << >> /\ Head(c) = e
  BY <1>1, <1>2
<1>4. /\ t \in Seq(S) /\ Len(t) = Len(w) /\ \A i \in 1 .. Len(t) : t[i] = c[i + 1]
  BY <1>1, <1>2, <1>3
<1> HIDE DEF t
<1>5. \A i \in 1 .. Len(w) : t[i] = w[i]
  BY <1>1, <1>2, <1>4
<1>6. t = w
  BY <1>4, <1>5, SeqEqual
<1> QED  BY <1>3, <1>6 DEF c, t

LEMMA PhaseSeq ==
  ASSUME NEW S, NEW B, B \subseteq Seq(LastCalls), NEW w, InPhase(w, S, B)
  PROVE  w \in Seq(S \cup LastCalls)
<1>1. PICK f \in Seq(S), b \in B : w = f \o b
  BY DEF InPhase
<1>2. f \in Seq(S \cup LastCalls)
  BY SeqMonotonic
<1>3. b \in Seq(S \cup LastCalls)
  BY SeqMonotonic
<1> QED  BY <1>1, <1>2, <1>3, ConcatProperties

LEMMA PhaseHead ==
  ASSUME NEW S, NEW B, B \subseteq Seq(LastCalls), NEW w, InPhase(w, S, B),
         w # << >>, Head(w) \notin LastCalls
  PROVE  Head(w) \in S /\ InPhase(Tail(w), S, B)
<1> DEFINE T == S \cup LastCalls
<1>1. PICK f \in Seq(S), b \in B : w = f \o b
  BY DEF InPhase
<1>2. b \in Seq(LastCalls) /\ b \in Seq(T) /\ f \in Seq(T)
  BY SeqMonotonic
<1>3. f # << >>
  <2> SUFFICES ASSUME f = << >>  PROVE FALSE
    OBVIOUS
  <2>1. w = b
    BY <1>1, <1>2, ConcatEmptySeq
  <2>2. b \in Seq(LastCalls) /\ b # << >>
    BY <1>2, <2>1
  <2>3. Head(b) \in LastCalls
    BY <2>2, HeadTailProperties
  <2> QED  BY <2>1, <2>3
<1> DEFINE e == Head(f)
           u == Tail(f)
<1>4. e \in S /\ u \in Seq(S) /\ f = <<e>> \o u
  BY <1>3, HeadTailProperties
<1> HIDE DEF e, u
<1>5. u \in Seq(T) /\ e \in T /\ <<e>> \in Seq(T) /\ u \o b \in Seq(T)
  BY <1>2, <1>4, SeqMonotonic, ConcatProperties
<1>6. w = <<e>> \o (u \o b)
  BY <1>1, <1>2, <1>4, <1>5, ConcatAssociative
<1>7. Head(w) = e /\ Tail(w) = u \o b
  BY <1>5, <1>6, ConcatParts
<1> QED  BY <1>4, <1>7 DEF InPhase

LEMMA PhaseAdd ==
  ASSUME NEW S, NEW B, B \subseteq Seq(LastCalls), NEW w, InPhase(w, S, B), NEW e \in Seq(S)
  PROVE  InPhase(e \o w, S, B)
<1>1. PICK f \in Seq(S), b \in B : w = f \o b
  BY DEF InPhase
<1>2. b \in Seq(S \cup LastCalls) /\ f \in Seq(S \cup LastCalls) /\ e \in Seq(S \cup LastCalls)
  BY SeqMonotonic
<1>3. e \o w = (e \o f) \o b
  BY <1>1, <1>2, ConcatAssociative
<1>4. e \o f \in Seq(S)
  BY ConcatProperties
<1> QED  BY <1>3, <1>4 DEF InPhase

LEMMA PhaseBack ==
  ASSUME NEW S, NEW B, B \subseteq Seq(LastCalls), NEW w, InPhase(w, S, B),
         w # << >>, Head(w) \notin S
  PROVE  w \in B
<1>1. PICK f \in Seq(S), b \in B : w = f \o b
  BY DEF InPhase
<1>2. b \in Seq(S \cup LastCalls) /\ f \in Seq(S \cup LastCalls)
  BY SeqMonotonic
<1>3. f = << >>
  <2> SUFFICES ASSUME f # << >>  PROVE FALSE
    OBVIOUS
  <2> DEFINE e == Head(f)
             u == Tail(f)
  <2>1. e \in S /\ u \in Seq(S) /\ f = <<e>> \o u
    BY HeadTailProperties
  <2> HIDE DEF e, u
  <2>2. /\ u \in Seq(S \cup LastCalls) /\ e \in S \cup LastCalls
        /\ <<e>> \in Seq(S \cup LastCalls) /\ u \o b \in Seq(S \cup LastCalls)
    BY <1>2, <2>1, SeqMonotonic, ConcatProperties
  <2>3. w = <<e>> \o (u \o b)
    BY <1>1, <1>2, <2>1, <2>2, ConcatAssociative
  <2>4. Head(w) = e
    BY <2>2, <2>3, ConcatParts
  <2> QED  BY <2>1, <2>4
<1>4. w = b
  BY <1>1, <1>2, <1>3, ConcatEmptySeq
<1> QED  BY <1>4

LEMMA PhaseEnd ==
  ASSUME NEW S, NEW B, B \subseteq Seq(LastCalls), NEW b \in B
  PROVE  InPhase(b, S, B)
<1>1. b \in Seq(LastCalls) /\ << >> \in Seq(S)
  OBVIOUS
<1>2. b = << >> \o b
  BY <1>1, ConcatEmptySeq
<1> QED  BY <1>1, <1>2 DEF InPhase

LEMMA Absent ==
  ASSUME NEW S, NEW w \in Seq(S), NEW x, x \notin S
  PROVE  At(w, x) = 0
<1>1. At(w, x) \in Nat /\ (At(w, x) > 0 => \E i \in 1 .. Len(w) : w[i] = x)
  BY AtSeq
<1>2. \A i \in 1 .. Len(w) : w[i] \in S
  OBVIOUS
<1> QED  BY <1>1, <1>2

LEMMA CallIs ==
  /\ \A op, x : Call(op, x).op = op /\ Call(op, x).sx = x
  /\ \A op1, op2, x, y : Call(op1, x) = Call(op2, y) <=> op1 = op2 /\ x = y
  /\ \A m \in Marks : m.op = "mark" /\ m.sx \in Values /\ m = Call("mark", m.sx)
  /\ \A m \in Releases : m.op = "release" /\ m.sx \in Values /\ m = Call("release", m.sx)
  /\ \A m \in Frees : m.op = "free1" /\ m.sx \in Cells /\ m = Call("free1", m.sx)
  /\ \A x \in Values : Call("mark", x) \in Marks /\ Call("release", x) \in Releases
  /\ \A x \in Cells : Call("free1", x) \in Frees
  /\ \A m \in LastCalls : m.op \in {"sweep", "sym_collect", "alloc"}
<1>1. \A op, x : Call(op, x).op = op /\ Call(op, x).sx = x
  BY DEF Call
<1>2. \A op1, op2, x, y : Call(op1, x) = Call(op2, y) <=> op1 = op2 /\ x = y
  BY DEF Call
<1>3. \A m \in Marks : m.op = "mark" /\ m.sx \in Values /\ m = Call("mark", m.sx)
  BY DEF Call, Marks
<1>4. \A m \in Releases : m.op = "release" /\ m.sx \in Values /\ m = Call("release", m.sx)
  BY DEF Call, Releases
<1>5. \A m \in Frees : m.op = "free1" /\ m.sx \in Cells /\ m = Call("free1", m.sx)
  BY DEF Call, Frees
<1>6. \A x \in Values : Call("mark", x) \in Marks /\ Call("release", x) \in Releases
  BY DEF Call, Marks, Releases
<1>7. \A x \in Cells : Call("free1", x) \in Frees
  BY DEF Call, Frees
<1>8. \A m \in LastCalls : m.op \in {"sweep", "sym_collect", "alloc"}
  BY DEF Call, LastCalls, SweepCall, SymCall, AllocCall
<1> QED  BY <1>1, <1>2, <1>3, <1>4, <1>5, <1>6, <1>7, <1>8

\* In each phase some calls cannot be pending.
LEMMA WorkSeq ==
  ASSUME Phased
  PROVE  /\ work \in Seq(AllCalls) /\ \A x : At(work, x) \in Nat
         /\ Releasing \/ Sweeping => \A x : At(work, Call("mark", x)) = 0
         /\ Marking \/ Sweeping => \A x : At(work, Call("release", x)) = 0
         /\ Marking => \A x : At(work, Call("free1", x)) = 0
<1>1. Releasing => work \in Seq((Releases \cup Frees) \cup LastCalls)
  BY BackSeqs, PhaseSeq DEF Releasing
<1>2. Marking => work \in Seq(Marks \cup LastCalls)
  BY BackSeqs, PhaseSeq DEF Marking
<1>3. Sweeping => work \in Seq(Frees \cup LastCalls)
  BY BackSeqs, PhaseSeq DEF Sweeping
<1>4. work \in Seq(AllCalls)
  <2>1. CASE Releasing
    BY <1>1, <2>1, SeqMonotonic DEF AllCalls
  <2>2. CASE Marking
    BY <1>2, <2>2, SeqMonotonic DEF AllCalls
  <2>3. CASE Sweeping
    BY <1>3, <2>3, SeqMonotonic DEF AllCalls
  <2> QED  BY <2>1, <2>2, <2>3 DEF Phased
<1>5. \A x : At(work, x) \in Nat
  BY <1>4, AtSeq
<1>6. Releasing \/ Sweeping => \A x : At(work, Call("mark", x)) = 0
  <2>1. \A x : Call("mark", x) \notin (Releases \cup Frees) \cup LastCalls
    BY CallIs
  <2>2. \A x : Call("mark", x) \notin Frees \cup LastCalls
    BY CallIs
  <2> QED  BY <1>1, <1>3, <2>1, <2>2, Absent
<1>7. Marking \/ Sweeping => \A x : At(work, Call("release", x)) = 0
  <2>1. \A x : Call("release", x) \notin Marks \cup LastCalls
    BY CallIs
  <2>2. \A x : Call("release", x) \notin Frees \cup LastCalls
    BY CallIs
  <2> QED  BY <1>2, <1>3, <2>1, <2>2, Absent
<1>8. Marking => \A x : At(work, Call("free1", x)) = 0
  <2>1. \A x : Call("free1", x) \notin Marks \cup LastCalls
    BY CallIs
  <2> QED  BY <1>2, <2>1, Absent
<1> QED  BY <1>4, <1>5, <1>6, <1>7, <1>8

\* Calls e take the place of the first.
LEMMA Pushed ==
  ASSUME Phased, work # << >>, NEW e \in Seq(AllCalls)
  PROVE  /\ Rest \in Seq(AllCalls) /\ Now \in AllCalls
         /\ \A x : At(Rest, x) = At(work, x) - One(Now = x) /\ At(Rest, x) \in Nat
         /\ \A x : /\ At(e \o Rest, x) = At(e, x) + At(work, x) - One(Now = x)
                   /\ At(e, x) \in Nat /\ At(e \o Rest, x) \in Nat
<1>1. work \in Seq(AllCalls)
  BY WorkSeq
<1>2. Rest \in Seq(AllCalls) /\ Now \in AllCalls
  BY <1>1, HeadTailProperties DEF Now, Rest
<1>3. \A x : At(work, x) = At(Rest, x) + One(Now = x)
  BY <1>1, AtHead DEF Now, Rest
<1>4. \A x : At(Rest, x) \in Nat /\ At(e, x) \in Nat /\ At(work, x) \in Nat
  BY <1>1, <1>2, AtSeq
<1>5. \A x : At(e \o Rest, x) = At(e, x) + At(Rest, x)
  BY <1>2, AtConcat
<1>6. \A x : One(Now = x) \in {0, 1}
  BY DEF One
<1>7. ASSUME NEW x
      PROVE  /\ At(Rest, x) = At(work, x) - One(Now = x)
             /\ At(e \o Rest, x) = At(e, x) + At(work, x) - One(Now = x)
             /\ At(e \o Rest, x) \in Nat
  <2> DEFINE r == At(Rest, x)
             n == At(e, x)
             w == At(work, x)
             t == At(e \o Rest, x)
             o == One(Now = x)
  <2>1. r \in Nat /\ n \in Nat /\ w \in Nat /\ o \in {0, 1} /\ w = r + o /\ t = n + r
    BY <1>3, <1>4, <1>5, <1>6
  <2> HIDE DEF r, n, w, t, o
  <2>2. r = w - o /\ t = n + w - o /\ t \in Nat
    BY <2>1
  <2> QED  BY <2>2 DEF r, n, w, t, o
<1> QED  BY <1>2, <1>4, <1>7

\* Where a call is made.
LEMMA Turn ==
  ASSUME Phased, work # << >>
  PROVE  /\ Calling("release") => /\ Releasing /\ OnList("grey") = {} /\ Now \in Releases
                                  /\ InPhase(Rest, Releases \cup Frees, Ends)
         /\ Calling("free1") => /\ Now \in Frees
                                /\ \/ /\ Releasing /\ OnList("grey") = {}
                                      /\ InPhase(Rest, Releases \cup Frees, Ends)
                                   \/ Collects /\ Sweeping /\ InPhase(Rest, Frees, Swept)
         /\ Calling("mark") => /\ Collects /\ Marking /\ MarksInUse /\ Now \in Marks
                               /\ InPhase(Rest, Marks, Swept)
         /\ Calling("sweep") => Collects /\ Sweeping /\ work \in Swept /\ Now = SweepCall
         /\ Calling("sym_collect") => /\ Releasing /\ OnList("grey") = {} /\ Now = SymCall
                                      /\ work \in {<<SymCall>>, <<SymCall, AllocCall>>}
         /\ Calling("alloc") => /\ Releasing /\ OnList("grey") = {}
                                /\ work = <<AllocCall>> /\ Now = AllocCall
<1>1. CASE Releasing /\ OnList("grey") = {}
  <2>1. CASE Now \in LastCalls
    <3>1. Now \notin Releases \cup Frees
      BY <2>1, CallIs
    <3>2. work \in Ends
      BY <1>1, <3>1, BackSeqs, PhaseBack DEF Releasing, Now
    <3>3. \/ work = <<AllocCall>> /\ Now = AllocCall
          \/ work \in {<<SymCall>>, <<SymCall, AllocCall>>} /\ Now = SymCall
      BY <3>2 DEF Ends, Now
    <3> QED  BY <1>1, <3>3, CallIs DEF Calling, AllocCall, SymCall
  <2>2. CASE Now \notin LastCalls
    <3>1. Now \in Releases \cup Frees /\ InPhase(Rest, Releases \cup Frees, Ends)
      BY <1>1, <2>2, BackSeqs, PhaseHead DEF Releasing, Now, Rest
    <3> QED  BY <1>1, <3>1, CallIs DEF Calling
  <2> QED  BY <2>1, <2>2
<1>2. CASE Collects /\ Marking /\ MarksInUse
  <2>1. CASE Now \in LastCalls
    <3>1. Now \notin Marks
      BY <2>1, CallIs
    <3>2. work \in Swept
      BY <1>2, <3>1, BackSeqs, PhaseBack DEF Marking, Now
    <3>3. Now = SweepCall
      BY <3>2 DEF Swept, Now
    <3>4. Sweeping
      BY <3>2, BackSeqs, PhaseEnd DEF Sweeping
    <3> QED  BY <1>2, <3>2, <3>3, <3>4, CallIs DEF Calling, SweepCall
  <2>2. CASE Now \notin LastCalls
    <3>1. Now \in Marks /\ InPhase(Rest, Marks, Swept)
      BY <1>2, <2>2, BackSeqs, PhaseHead DEF Marking, Now, Rest
    <3> QED  BY <1>2, <3>1, CallIs DEF Calling
  <2> QED  BY <2>1, <2>2
<1>3. CASE Collects /\ Sweeping
  <2>1. CASE Now \in LastCalls
    <3>1. Now \notin Frees
      BY <2>1, CallIs
    <3>2. work \in Swept
      BY <1>3, <3>1, BackSeqs, PhaseBack DEF Sweeping, Now
    <3>3. Now = SweepCall
      BY <3>2 DEF Swept, Now
    <3> QED  BY <1>3, <3>2, <3>3, CallIs DEF Calling, SweepCall
  <2>2. CASE Now \notin LastCalls
    <3>1. Now \in Frees /\ InPhase(Rest, Frees, Swept)
      BY <1>3, <2>2, BackSeqs, PhaseHead DEF Sweeping, Now, Rest
    <3> QED  BY <1>3, <3>1, CallIs DEF Calling
  <2> QED  BY <2>1, <2>2
<1> QED  BY <1>1, <1>2, <1>3 DEF Phased

-----------------------------------------------------------------------------
(* References and counts.                                                  *)

LEMMA Terms ==
  ASSUME HeapTypes, NEW x
  PROVE  /\ cell \in [Cells -> Objects]
         /\ DOMAIN slot = Slots /\ IsFiniteSet(Slots) /\ IsFiniteSet(DOMAIN loaded)
         /\ At(slot, x) \in Nat /\ (At(slot, x) > 0 <=> \E s \in Slots : slot[s] = x)
         /\ At(loaded, x) \in Nat /\ (At(loaded, x) > 0 <=> \E k \in DOMAIN loaded : loaded[k] = x)
         /\ One(x \in sym_set) \in {0, 1} /\ One(x \in DOMAIN loaded) \in {0, 1}
         /\ Cardinality(Uses(cell, x)) \in Nat
<1>1. DOMAIN slot = Slots /\ IsFiniteSet(Slots)
  <2>1. NSlots \in Int /\ 1 \in Int
    BY HeapAssumption
  <2>2. IsFiniteSet(Slots)
    BY <2>1, FS_Interval DEF Slots
  <2> QED  BY <2>2 DEF HeapTypes
<1>2. IsFiniteSet(DOMAIN loaded)
  BY CellsFinite, FS_Subset DEF HeapTypes
<1>3. cell \in [Cells -> Objects]
  BY DEF HeapTypes, Made
<1>4. Cardinality(Uses(cell, x)) \in Nat
  <2>1. Cells # {}
    BY HeapAssumption DEF Cells
  <2>2. PICK c \in Cells : TRUE
    BY <2>1
  <2>3. \A d \in Cells : Alike(cell[d], cell[d])
    BY DEF Alike
  <2> QED  BY <1>3, <2>2, <2>3, UsesChange
<1> QED  BY <1>1, <1>2, <1>3, <1>4, AtNat DEF One

LEMMA Exactly ==
  ASSUME HeapTypes
  PROVE  RefCntExact <=> Balanced
<1>1. ASSUME NEW x \in Cells
      PROVE  cell[x].ref_cnt + Pending("mark", x) = References(x) + Pending("release", x)
                <=> Balance(x)
  <2>1. DOMAIN slot = Slots
    BY <1>1, Terms
  <2>2. Cardinality({s \in Slots : slot[s] = x}) = At(slot, x)
    BY <2>1 DEF At
  <2>3. Cardinality({x} \cap sym_set) = One(x \in sym_set)
    <3>1. {x} \cap sym_set = IF x \in sym_set THEN {x} ELSE {}
      OBVIOUS
    <3> QED  BY <3>1, FS_Singleton, FS_EmptySet DEF One
  <2>4. Cardinality({x} \cap DOMAIN loaded) = One(x \in DOMAIN loaded)
    <3>1. {x} \cap DOMAIN loaded = IF x \in DOMAIN loaded THEN {x} ELSE {}
      OBVIOUS
    <3> QED  BY <3>1, FS_Singleton, FS_EmptySet DEF One
  <2>5. Cardinality({k \in DOMAIN loaded : loaded[k] = x}) = At(loaded, x)
    BY DEF At
  <2>6. Pending("mark", x) = At(work, Call("mark", x)) /\ Pending("release", x) = At(work, Call("release", x))
    BY DEF Pending, At
  <2>7. References(x) = At(slot, x) + One(x \in sym_set) + One(x \in DOMAIN loaded)
                        + At(loaded, x) + Cardinality(Uses(cell, x))
    BY <2>2, <2>3, <2>4, <2>5 DEF References, Uses
  <2> QED  BY <2>6, <2>7 DEF Balance
<1> QED  BY <1>1 DEF RefCntExact, Balanced

\* Something other than a pending call refers to x.
Referred(x) ==
    \/ \E s \in Slots : slot[s] = x
    \/ x \in sym_set
    \/ x \in DOMAIN loaded
    \/ \E k \in DOMAIN loaded : loaded[k] = x
    \/ \E d \in Cells : cell[d].ref_cnt > 0 /\ \E f \in DOMAIN cell[d].refs : cell[d].refs[f] = x

LEMMA Live ==
  ASSUME HeapTypes, Phased, NEW x \in Cells, Balance(x), Reclaimed(x),
         At(work, Call("mark", x)) = 0
  PROVE  /\ Referred(x) \/ At(work, Call("release", x)) > 0 => cell[x].ref_cnt > 0 /\ InUse(x)
         /\ Referred(x) /\ At(work, Call("release", x)) > 0 => cell[x].ref_cnt > 1
<1> DEFINE S == At(slot, x)
           Y == One(x \in sym_set)
           K == One(x \in DOMAIN loaded)
           L == At(loaded, x)
           U == Cardinality(Uses(cell, x))
           R == At(work, Call("release", x))
           n == cell[x].ref_cnt
<1>1. S \in Nat /\ Y \in Nat /\ K \in Nat /\ L \in Nat /\ U \in Nat /\ R \in Nat
  BY Terms, WorkSeq
<1>2. n \in Nat
  BY DEF HeapTypes, Made, Objects
<1>3. Referred(x) => S > 0 \/ Y > 0 \/ K > 0 \/ L > 0 \/ U > 0
  <2>1. ASSUME NEW d \in Cells, cell[d].ref_cnt > 0, NEW f \in DOMAIN cell[d].refs, cell[d].refs[f] = x
        PROVE  U > 0
    <3>1. cell \in [Cells -> Objects]
      BY Terms
    <3>2. Cardinality(Uses(cell, cell[d].refs[f])) > 0
      BY <2>1, <3>1, UsedField
    <3> QED  BY <2>1, <3>2
  <2>2. (\E s \in Slots : slot[s] = x) => S > 0
    BY Terms
  <2>3. (\E k \in DOMAIN loaded : loaded[k] = x) => L > 0
    BY Terms
  <2>4. (x \in sym_set => Y > 0) /\ (x \in DOMAIN loaded => K > 0)
    BY DEF One
  <2> HIDE DEF S, Y, K, L, U
  <2> QED  BY <2>1, <2>2, <2>3, <2>4 DEF Referred
<1>4. n = S + Y + K + L + U + R
  <2>1. n + 0 = S + Y + K + L + U + R
    BY DEF Balance
  <2> HIDE DEF S, Y, K, L, U, R, n
  <2> QED  BY <1>1, <1>2, <2>1
<1>5. Referred(x) \/ R > 0 => n > 0
  <2> HIDE DEF S, Y, K, L, U, R, n
  <2> QED  BY <1>1, <1>3, <1>4
<1>6. Referred(x) /\ R > 0 => n > 1
  <2> HIDE DEF S, Y, K, L, U, R, n
  <2> QED  BY <1>1, <1>3, <1>4
<1> QED  BY <1>5, <1>6 DEF Reclaimed

\* A change of one count alone.
Counted(g, c, n) ==
    /\ g \in [Cells -> Made]
    /\ \A d \in Cells : d # c => g[d] = cell[d]
    /\ g[c].type = cell[c].type /\ g[c].refs = cell[c].refs /\ g[c].list = cell[c].list
    /\ g[c].ref_cnt = n

LEMMA CountChange ==
  ASSUME HeapTypes, NEW c \in Cells, NEW n \in Nat
  PROVE  Counted([cell EXCEPT ![c].ref_cnt = n], c, n)
<1>1. [cell[c] EXCEPT !.ref_cnt = n] \in Made
  BY DEF HeapTypes, Made, Objects
<1>2. /\ [cell[c] EXCEPT !.ref_cnt = n].type = cell[c].type
      /\ [cell[c] EXCEPT !.ref_cnt = n].refs = cell[c].refs
      /\ [cell[c] EXCEPT !.ref_cnt = n].list = cell[c].list
      /\ [cell[c] EXCEPT !.ref_cnt = n].ref_cnt = n
  BY DEF HeapTypes, Made, Objects
<1> QED  BY <1>1, <1>2 DEF Counted, HeapTypes

LEMMA CountedUses ==
  ASSUME HeapTypes, NEW c \in Cells, NEW n \in Nat, NEW g, Counted(g, c, n), NEW x
  PROVE  /\ (n > 0 <=> cell[c].ref_cnt > 0) =>
               Cardinality(Uses(g, x)) = Cardinality(Uses(cell, x))
         /\ n = 0 /\ cell[c].ref_cnt > 0 =>
               /\ At(cell[c].refs, x) \in Nat
               /\ Cardinality(Uses(g, x)) = Cardinality(Uses(cell, x)) - At(cell[c].refs, x)
         /\ n > 0 /\ cell[c].ref_cnt = 0 =>
               /\ At(cell[c].refs, x) \in Nat
               /\ Cardinality(Uses(g, x)) = Cardinality(Uses(cell, x)) + At(cell[c].refs, x)
<1>1. cell \in [Cells -> Objects] /\ g \in [Cells -> Objects]
  BY Terms DEF Counted, Made
<1>2. \A d \in Cells : d # c => Alike(cell[d], g[d])
  BY DEF Counted, Alike
<1>3. /\ Cardinality(Uses(cell, x)) \in Nat
      /\ Cardinality(Uses(g, x)) = Cardinality(Uses(cell, x)) - Used(cell[c], x) + Used(g[c], x)
  BY <1>1, <1>2, UsesChange
<1>4. At(cell[c].refs, x) \in Nat
  <2>1. IsFiniteSet(DOMAIN cell[c].refs)
    BY <1>1, RecordFinite DEF Objects
  <2> QED  BY <2>1, AtNat
<1>5. g[c].ref_cnt = n /\ g[c].refs = cell[c].refs /\ cell[c].ref_cnt \in Nat
  BY <1>1 DEF Counted, Objects
<1>6. /\ Used(cell[c], x) = IF cell[c].ref_cnt > 0 THEN At(cell[c].refs, x) ELSE 0
      /\ Used(g[c], x) = IF n > 0 THEN At(cell[c].refs, x) ELSE 0
  BY <1>5 DEF Used
<1> HIDE DEF Counted
<1> QED  BY <1>3, <1>4, <1>5, <1>6

LEMMA CallsSeq ==
  ASSUME NEW vals \in Seq(Values)
  PROVE  /\ Calls("release", vals) \in Seq(Releases) /\ Calls("mark", vals) \in Seq(Marks)
<1>1. \A i \in 1 .. Len(vals) : vals[i] \in Values
  OBVIOUS
<1>2. \A i \in 1 .. Len(vals) : Call("release", vals[i]) \in Releases /\ Call("mark", vals[i]) \in Marks
  BY <1>1, CallIs
<1>3. Len(vals) \in Nat
  OBVIOUS
<1> QED  BY <1>2, <1>3 DEF Calls

\* What an object with the type t refers to, by a list of its fields.
LEMMA FieldCalls ==
  ASSUME HeapTypes, NEW c \in Cells, NEW names, Listing(names),
         DOMAIN cell[c].refs = {names[i] : i \in DOMAIN names}
  PROVE  /\ FieldValues(c, names) \in Seq(Values)
         /\ \A x : At(FieldValues(c, names), x) = At(cell[c].refs, x)
<1> DEFINE r == cell[c].refs
<1>1. r \in Records
  BY DEF HeapTypes, Made, Objects
<1>2. \A f \in DOMAIN r : r[f] \in Values
  BY <1>1, RecordFinite
<1>3. DOMAIN names = 1 .. Len(names) /\ Len(names) \in Nat
  BY DEF Listing
<1>4. DOMAIN r = {names[i] : i \in DOMAIN names}
  OBVIOUS
<1>5. FieldValues(c, names) = [i \in 1 .. Len(names) |-> r[names[i]]]
  BY DEF FieldValues
<1> HIDE DEF r
<1>6. FieldValues(c, names) \in Seq(Values)
  BY <1>2, <1>3, <1>4, <1>5
<1>7. \A x : At(FieldValues(c, names), x) = At(r, x)
  BY <1>4, <1>5, FieldsCount
<1> QED  BY <1>6, <1>7 DEF r

LEMMA TypesOf ==
  ASSUME Sound, HeapTypes, NEW c \in Cells, cell[c].type # "none"
  PROVE  LET t == cell[c].type
         IN  /\ t \in AllTypes /\ DOMAIN cell[c].refs = FieldsOf(t)
             /\ {Released[t][i] : i \in DOMAIN Released[t]} = FieldsOf(t)
             /\ Collects => {Marked[t][i] : i \in DOMAIN Marked[t]} = FieldsOf(t)
<1>1. cell[c].type \in Types \cup {"sym"} /\ cell[c].type \in AllTypes
  BY DEF HeapTypes, Made, Objects
<1>2. DOMAIN cell[c].refs = FieldsOf(cell[c].type)
  BY DEF HeapTypes, Made, Fields
<1>3. CASE cell[c].type \in Types
  BY <1>1, <1>2, <1>3 DEF Sound
<1>4. CASE cell[c].type = "sym"
  <2>1. {Released["sym"][i] : i \in DOMAIN Released["sym"]} = FieldsOf("sym")
    BY FieldsAre, ReleasedIs
  <2>2. {Marked["sym"][i] : i \in DOMAIN Marked["sym"]} = FieldsOf("sym")
    BY FieldsAre, MarkedIs
  <2> QED  BY <1>1, <1>2, <1>4, <2>1, <2>2
<1> QED  BY <1>1, <1>3, <1>4

\* sx_free releases every reference of the object, and frees it once.
LEMMA FreeCount ==
  ASSUME Sound, HeapTypes, NEW c \in Cells, cell[c].type # "none"
  PROVE  /\ FreeCalls(c) \in Seq(Releases \cup Frees)
         /\ \A x : /\ At(FreeCalls(c), Call("release", x)) = At(cell[c].refs, x)
                   /\ At(FreeCalls(c), Call("free1", x)) = One(x = c)
<1> DEFINE t == cell[c].type
           r == cell[c].refs
           S == Releases \cup Frees
           e == <<Call("free1", c)>>
<1>1. t \in AllTypes /\ DOMAIN r = FieldsOf(t) /\ {Released[t][i] : i \in DOMAIN Released[t]} = FieldsOf(t)
  BY TypesOf
<1>2. e \in Seq(S)
  BY CallIs
<1>3. \A x : At(e, Call("release", x)) = 0 /\ At(e, Call("free1", x)) = One(x = c)
  <2> SUFFICES ASSUME NEW x  PROVE At(e, Call("release", x)) = 0 /\ At(e, Call("free1", x)) = One(x = c)
    OBVIOUS
  <2>1. At(e, Call("release", x)) = One(Call("free1", c) = Call("release", x))
    BY AtOne
  <2>2. At(e, Call("free1", x)) = One(Call("free1", c) = Call("free1", x))
    BY AtOne
  <2> QED  BY <2>1, <2>2, CallIs DEF One
<1> HIDE DEF e
<1>4. CASE t # "dptr"
  <2> DEFINE v == Calls("release", FieldValues(c, Released[t]))
  <2>1. Listing(Released[t])
    BY <1>1, Tables
  <2>2. FieldValues(c, Released[t]) \in Seq(Values) /\ \A x : At(FieldValues(c, Released[t]), x) = At(r, x)
    BY <1>1, <2>1, FieldCalls
  <2>3. v \in Seq(S)
    BY <2>2, CallsSeq, SeqMonotonic
  <2>4. \A x : At(v, Call("release", x)) = At(r, x) /\ At(v, Call("free1", x)) = 0
    BY <2>2, CallsCount
  <2>5. FreeCalls(c) = v \o e
    BY <1>4 DEF FreeCalls, e
  <2> HIDE DEF v, r, t, S
  <2>6. \A x : /\ At(FreeCalls(c), Call("release", x)) = At(v, Call("release", x)) + 0
               /\ At(FreeCalls(c), Call("free1", x)) = At(v, Call("free1", x)) + One(x = c)
    BY <1>2, <1>3, <2>3, <2>5, AtConcat
  <2>7. v \o e \in Seq(S)
    BY <1>2, <2>3, ConcatProperties
  <2>8. \A x : At(v, Call("release", x)) \in Nat /\ One(x = c) \in Nat
    BY <2>3, AtSeq DEF One
  <2>9. ASSUME NEW x
        PROVE  /\ At(FreeCalls(c), Call("release", x)) = At(r, x)
               /\ At(FreeCalls(c), Call("free1", x)) = One(x = c)
    <3>1. At(v, Call("release", x)) \in Nat /\ One(x = c) \in Nat
      BY <2>8
    <3>2. /\ At(FreeCalls(c), Call("release", x)) = At(v, Call("release", x)) + 0
          /\ At(FreeCalls(c), Call("free1", x)) = 0 + One(x = c)
      BY <2>4, <2>6
    <3>3. At(v, Call("release", x)) = At(r, x)
      BY <2>4
    <3> QED  BY <3>1, <3>2, <3>3
  <2> QED  BY <2>5, <2>7, <2>9 DEF r, S
<1>5. CASE t = "dptr"
  <2> DEFINE p == <<r["car"]>>
             q == <<r["cdr"]>>
             a == Calls("release", p)
             d == Calls("release", q)
             n == <<"car", "cdr">>
  <2>1. DOMAIN r = {"car", "cdr"}
    BY <1>1, <1>5, FieldsAre
  <2>2. r["car"] \in Values /\ r["cdr"] \in Values
    <3>1. r \in Records
      BY DEF HeapTypes, Made, Objects
    <3> HIDE DEF r
    <3> QED  BY <2>1, <3>1, RecordFinite
  <2>3. \A x : At(r, x) = One(r["car"] = x) + One(r["cdr"] = x)
    <3> SUFFICES ASSUME NEW x  PROVE At(r, x) = One(r["car"] = x) + One(r["cdr"] = x)
      OBVIOUS
    <3>1. Listing(n)
      BY Listings
    <3>2. {n[i] : i \in DOMAIN n} = {"car", "cdr"}
      <4>1. DOMAIN n = {1, 2}
        OBVIOUS
      <4> QED  BY <4>1
    <3>3. [i \in 1 .. Len(n) |-> r[n[i]]] = <<r["car"], r["cdr"]>>
      OBVIOUS
    <3>4. At([i \in 1 .. Len(n) |-> r[n[i]]], x) = At(r, x)
      <4>1. DOMAIN r = {n[i] : i \in DOMAIN n}
        BY <2>1, <3>2
      <4> HIDE DEF n, r
      <4> QED  BY <3>1, <4>1, FieldsCount
    <3>5. <<r["car"], r["cdr"]>> = p \o q
      OBVIOUS
    <3>6. p \in Seq(Values) /\ q \in Seq(Values)
      BY <2>2
    <3>7. At(p, x) = One(r["car"] = x) /\ At(q, x) = One(r["cdr"] = x)
      BY AtOne
    <3> HIDE DEF r, n, p, q
    <3>8. At(p \o q, x) = At(p, x) + At(q, x)
      BY <3>6, AtConcat
    <3> QED  BY <3>3, <3>4, <3>5, <3>7, <3>8
  <2>4. p \in Seq(Values) /\ q \in Seq(Values)
    BY <2>2
  <2>5. a \in Seq(S) /\ d \in Seq(S)
    <3>1. a \in Seq(Releases) /\ d \in Seq(Releases)
      BY <2>4, CallsSeq
    <3> HIDE DEF a, d
    <3> QED  BY <3>1, SeqMonotonic
  <2>6. \A x : /\ At(a, Call("release", x)) = One(r["car"] = x) /\ At(a, Call("free1", x)) = 0
               /\ At(d, Call("release", x)) = One(r["cdr"] = x) /\ At(d, Call("free1", x)) = 0
    <3>1. \A x : At(p, x) = One(r["car"] = x) /\ At(q, x) = One(r["cdr"] = x)
      BY AtOne
    <3> HIDE DEF r, p, q
    <3>2. \A x : /\ At(a, Call("release", x)) = At(p, x) /\ At(a, Call("free1", x)) = 0
                 /\ At(d, Call("release", x)) = At(q, x) /\ At(d, Call("free1", x)) = 0
      BY <2>4, CallsCount
    <3> QED  BY <3>1, <3>2
  <2>7. FreeCalls(c) = (a \o e) \o d
    BY <1>5 DEF FreeCalls, e
  <2> HIDE DEF a, d, t, S, n, r, p, q
  <2>8. a \o e \in Seq(S) /\ (a \o e) \o d \in Seq(S)
    BY <1>2, <2>5, ConcatProperties
  <2>9. ASSUME NEW x
        PROVE  /\ At(FreeCalls(c), Call("release", x)) = At(r, x)
               /\ At(FreeCalls(c), Call("free1", x)) = One(x = c)
    <3>1. \A y : At(FreeCalls(c), y) = At(a, y) + At(e, y) + At(d, y)
      <4>1. \A y : At(a \o e, y) = At(a, y) + At(e, y)
        BY <1>2, <2>5, AtConcat
      <4>2. \A y : At((a \o e) \o d, y) = At(a \o e, y) + At(d, y)
        BY <2>5, <2>8, AtConcat
      <4> QED  BY <2>7, <4>1, <4>2
    <3>2. /\ At(FreeCalls(c), Call("release", x)) = One(r["car"] = x) + 0 + One(r["cdr"] = x)
          /\ At(FreeCalls(c), Call("free1", x)) = 0 + One(x = c) + 0
      BY <1>3, <2>6, <3>1
    <3>3. One(r["car"] = x) \in Nat /\ One(r["cdr"] = x) \in Nat /\ One(x = c) \in Nat
      BY DEF One
    <3>4. At(r, x) = One(r["car"] = x) + One(r["cdr"] = x)
      BY <2>3
    <3> QED  BY <3>2, <3>3, <3>4
  <2> QED  BY <2>7, <2>8, <2>9 DEF r, S
<1> QED  BY <1>4, <1>5

\* sx_mark marks every reference of the object.
LEMMA MarkCount ==
  ASSUME Sound, Collects, HeapTypes, NEW c \in Cells, cell[c].type # "none"
  PROVE  LET v == FieldValues(c, Marked[cell[c].type])
         IN  /\ v \in Seq(Values) /\ Calls("mark", v) \in Seq(Marks)
             /\ \A x : At(v, x) = At(cell[c].refs, x)
             /\ \A x : At(Calls("mark", v), Call("mark", x)) = At(cell[c].refs, x)
<1> DEFINE t == cell[c].type
           v == FieldValues(c, Marked[t])
<1>1. /\ t \in AllTypes /\ DOMAIN cell[c].refs = FieldsOf(t)
      /\ {Marked[t][i] : i \in DOMAIN Marked[t]} = FieldsOf(t)
  BY TypesOf
<1>2. Listing(Marked[t])
  BY <1>1, Tables
<1>3. v \in Seq(Values) /\ \A x : At(v, x) = At(cell[c].refs, x)
  BY <1>1, <1>2, FieldCalls
<1> HIDE DEF v
<1>4. Calls("mark", v) \in Seq(Marks)
  BY <1>3, CallsSeq
<1>5. \A x : At(Calls("mark", v), Call("mark", x)) = At(v, x)
  BY <1>3, CallsCount
<1> QED  BY <1>3, <1>4, <1>5 DEF v

-----------------------------------------------------------------------------
(* Parts of the invariant that a step leaves alone.                        *)

LEMMA PagesKept ==
  ASSUME \A p \in Pages : PageCounted(p), in_use_cnt' = in_use_cnt,
         \A c \in Cells : /\ InUse(c)' <=> InUse(c)
                          /\ cell'[c].list = "unmapped" <=> cell[c].list = "unmapped"
  PROVE  (\A p \in Pages : PageCounted(p))'
<1>1. ASSUME NEW p \in Pages  PROVE PageCounted(p)'
  <2>1. \A c \in p : c \in Cells
    BY DEF Cells
  <2>2. {c \in p : InUse(c)'} = {c \in p : InUse(c)}
    BY <2>1
  <2> QED  BY <2>1, <2>2 DEF PageCounted
<1> QED  BY <1>1

LEMMA WantKept ==
  ASSUME WantOK, UNCHANGED <<slot, want>>,
         At(work', AllocCall) > 0 => At(work, AllocCall) > 0
  PROVE  WantOK'
  BY DEF WantOK, Wanted, Want

\* What changes neither the heap nor the tables.
LEMMA ReclaimedKept ==
  ASSUME NEW c \in Cells, Reclaimed(c), cell'[c] = cell[c],
         At(work', Call("free1", c)) = At(work, Call("free1", c))
  PROVE  Reclaimed(c)'
  BY DEF Reclaimed, InUse

\* A call with nil is taken off, and all others stay.
LEMMA NilCalls ==
  ASSUME HeapInv, CallNil
  PROVE  /\ \A x \in Cells : \A op : At(work', Call(op, x)) = At(work, Call(op, x))
         /\ At(work', AllocCall) = At(work, AllocCall) /\ At(work', SymCall) = At(work, SymCall)
<1>1. /\ work # << >> /\ Now.sx = Nil /\ work' = Rest
      /\ Calling("release") \/ Calling("mark")
  BY DEF CallNil, Calling
<1>2. Phased
  BY DEF HeapInv
<1>3. Now \in Releases \cup Marks
  BY <1>1, <1>2, Turn
<1>4. \A x : At(Rest, x) = At(work, x) - One(Now = x)
  <2>1. << >> \in Seq(AllCalls)
    OBVIOUS
  <2> QED  BY <1>1, <1>2, <2>1, Pushed
<1>5. \A x : At(work, x) \in Nat
  BY <1>2, WorkSeq
<1>6. ASSUME NEW x, Now # x  PROVE At(work', x) = At(work, x)
  <2>1. One(Now = x) = 0
    BY <1>6 DEF One
  <2> QED  BY <1>1, <1>4, <1>5, <2>1
<1>7. \A x \in Cells : \A op : Now # Call(op, x)
  BY <1>1, CallIs, CellsFinite
<1>8. Now # AllocCall /\ Now # SymCall
  BY <1>3, CallIs DEF AllocCall, SymCall
<1> QED  BY <1>6, <1>7, <1>8

LEMMA NilStep ==
  ASSUME HeapInv, CallNil
  PROVE  HeapInv'
<1>1. /\ work # << >> /\ Running /\ Now.sx = Nil /\ work' = Rest
      /\ Calling("release") \/ Calling("mark")
      /\ UNCHANGED <<cell, in_use_cnt, slot, sym_set, permanent, loaded, want, status>>
  BY DEF CallNil, Calling
<1>2. HeapTypes /\ Balanced /\ Phased /\ WantOK /\ TablesOK
  BY DEF HeapInv
<1>8. \A x \in Cells : \A op : At(work', Call(op, x)) = At(work, Call(op, x))
  BY NilCalls
<1>9. At(work', AllocCall) = At(work, AllocCall) /\ At(work', SymCall) = At(work, SymCall)
  BY NilCalls
<1>10. HeapTypes'
  BY <1>1, <1>2 DEF HeapTypes
<1>11. Balanced'
  BY <1>1, <1>2, <1>8 DEF Balanced, Balance, Uses
<1>12. Phased'
  <2>1. CASE Calling("release")
    <3>1. Releasing' /\ OnList("grey")' = {}
      BY <1>1, <1>2, <2>1, Turn DEF Releasing, OnList
    <3> QED  BY <3>1 DEF Phased
  <2>2. CASE Calling("mark")
    <3>1. Collects /\ MarksInUse /\ Marking'
      BY <1>1, <1>2, <2>2, Turn DEF Marking
    <3>2. MarksInUse'
      BY <1>1, <1>8, <3>1 DEF MarksInUse, InUse
    <3> QED  BY <3>1, <3>2 DEF Phased
  <2> QED  BY <1>1, <2>1, <2>2
<1>13. (\A c \in Cells : Reclaimed(c))'
  <2>1. ASSUME NEW c \in Cells  PROVE Reclaimed(c)'
    BY <1>1, <1>8, ReclaimedKept DEF HeapInv
  <2> QED  BY <2>1
<1>14. (\A p \in Pages : PageCounted(p))'
  BY <1>1, PagesKept DEF HeapInv, InUse
<1>15. WantOK'
  BY <1>1, <1>2, <1>9, WantKept
<1>16. TablesOK'
  BY <1>1, <1>2, <1>9 DEF TablesOK
<1> QED  BY <1>10, <1>11, <1>12, <1>13, <1>14, <1>15, <1>16 DEF HeapInv

-----------------------------------------------------------------------------
(* sx_release.                                                             *)

LEMMA ReleaseStart ==
  ASSUME HeapInv, Calling("release"), Now.sx # Nil, NEW c, c = Now.sx,
         NEW n, n = cell[c].ref_cnt - 1
  PROVE  /\ work # << >> /\ c \in Cells /\ Now = Call("release", c)
         /\ Releasing /\ OnList("grey") = {} /\ InPhase(Rest, Releases \cup Frees, Ends)
         /\ \A x : At(work, Call("mark", x)) = 0
         /\ n \in Nat /\ cell[c].ref_cnt = n + 1 /\ Counted(Decremented(c), c, n)
         /\ InUse(c) /\ cell[c].type # "none" /\ cell[c].list # "grey"
         /\ Referred(c) => n > 0
<1>1. work # << >> /\ HeapTypes /\ Phased /\ Balanced /\ \A x \in Cells : Reclaimed(x)
  BY DEF HeapInv, Calling
<1>2. Releasing /\ OnList("grey") = {} /\ Now \in Releases /\ InPhase(Rest, Releases \cup Frees, Ends)
  BY <1>1, Turn
<1>3. c \in Cells /\ Now = Call("release", c)
  BY <1>2, CallIs DEF Values
<1>4. \A x : At(work, Call("mark", x)) = 0
  BY <1>1, <1>2, WorkSeq
<1>5. At(work, Call("release", c)) > 0
  <2>1. work \in Seq(AllCalls)
    BY <1>1, WorkSeq
  <2>2. At(work, Call("release", c)) = At(Tail(work), Call("release", c)) + 1
    BY <1>1, <1>3, <2>1, AtHead DEF Now, One
  <2>3. At(Tail(work), Call("release", c)) \in Nat
    BY <1>1, <2>1, HeadTailProperties, AtSeq
  <2> QED  BY <2>2, <2>3
<1>6. cell[c].ref_cnt > 0 /\ InUse(c) /\ (Referred(c) => cell[c].ref_cnt > 1)
  BY <1>1, <1>3, <1>4, <1>5, Live DEF Balanced
<1>7. cell[c].ref_cnt \in Nat
  BY <1>1, <1>3 DEF HeapTypes, Made, Objects
<1>8. n \in Nat /\ cell[c].ref_cnt = n + 1 /\ (Referred(c) => n > 0)
  BY <1>6, <1>7
<1>9. Counted(Decremented(c), c, n)
  <2>1. Decremented(c) = [cell EXCEPT ![c].ref_cnt = n]
    BY DEF Decremented
  <2> QED  BY <1>1, <1>3, <1>8, <2>1, CountChange
<1>10. cell[c].type # "none" /\ cell[c].list # "grey"
  BY <1>1, <1>2, <1>3, <1>6 DEF Reclaimed, OnList
<1> QED  BY <1>1, <1>2, <1>3, <1>4, <1>6, <1>8, <1>9, <1>10

\* What is the same for the four cases of sx_release.
LEMMA ReleaseFrame ==
  ASSUME HeapInv, Calling("release"), Now.sx # Nil, NEW c, c = Now.sx,
         NEW n, n = cell[c].ref_cnt - 1, cell' = Decremented(c),
         NEW e \in Seq(Releases \cup Frees), work' = e \o Rest,
         \A x : At(e, Call("free1", x)) = IF n = 0 THEN One(x = c) ELSE 0,
         UNCHANGED <<in_use_cnt, slot, permanent, want, status>>,
         permanent \subseteq sym_set', sym_set' \subseteq sym_set,
         loaded' \in [DOMAIN loaded' -> Cells], DOMAIN loaded' \subseteq DOMAIN loaded,
         Balanced',
         \A k \in DOMAIN loaded' : loaded'[k] = loaded[k] /\ (loaded[k] = c => n > 1),
         c \in sym_set' \ permanent => n > 1
  PROVE  HeapInv'
<1>1. /\ work # << >> /\ c \in Cells /\ Now = Call("release", c)
      /\ Releasing /\ OnList("grey") = {} /\ InPhase(Rest, Releases \cup Frees, Ends)
      /\ \A x : At(work, Call("mark", x)) = 0
      /\ n \in Nat /\ cell[c].ref_cnt = n + 1 /\ Counted(Decremented(c), c, n)
      /\ InUse(c) /\ cell[c].type # "none" /\ cell[c].list # "grey"
  BY ReleaseStart
<1>2. HeapTypes /\ Phased /\ (\A x \in Cells : Reclaimed(x)) /\ WantOK /\ TablesOK
  BY DEF HeapInv
<1>3. /\ cell' \in [Cells -> Made]
      /\ \A d \in Cells : d # c => cell'[d] = cell[d]
      /\ cell'[c].type = cell[c].type /\ cell'[c].refs = cell[c].refs
      /\ cell'[c].list = cell[c].list /\ cell'[c].ref_cnt = n
  BY <1>1 DEF Counted
<1>4. \A d \in Cells : cell'[d].type = cell[d].type /\ cell'[d].refs = cell[d].refs /\ cell'[d].list = cell[d].list
  BY <1>3
<1>5. e \in Seq(AllCalls) /\ \A op, x : op \notin {"release", "free1"} => At(e, Call(op, x)) = 0
  <2>1. e \in Seq(AllCalls)
    BY SeqMonotonic DEF AllCalls
  <2>2. \A op, x : op \notin {"release", "free1"} => Call(op, x) \notin Releases \cup Frees
    BY CallIs
  <2> QED  BY <2>1, <2>2, Absent
<1>6. \A x : /\ At(work', x) = At(e, x) + At(work, x) - One(Now = x)
             /\ At(e, x) \in Nat /\ At(work, x) \in Nat
  BY <1>1, <1>2, <1>5, Pushed, WorkSeq
<1>7. \A op, x : op \notin {"release", "free1"} => At(work', Call(op, x)) = At(work, Call(op, x))
  <2> SUFFICES ASSUME NEW op, NEW x, op \notin {"release", "free1"}
               PROVE  At(work', Call(op, x)) = At(work, Call(op, x))
    OBVIOUS
  <2>1. One(Now = Call(op, x)) = 0
    BY <1>1, CallIs DEF One
  <2>2. At(e, Call(op, x)) = 0
    BY <1>5
  <2> QED  BY <1>6, <2>1, <2>2
<1>8. \A x : At(work', Call("free1", x)) =
                At(work, Call("free1", x)) + (IF n = 0 THEN One(x = c) ELSE 0)
  <2> SUFFICES ASSUME NEW x
               PROVE  At(work', Call("free1", x)) =
                         At(work, Call("free1", x)) + (IF n = 0 THEN One(x = c) ELSE 0)
    OBVIOUS
  <2>1. One(Now = Call("free1", x)) = 0
    BY <1>1, CallIs DEF One
  <2> QED  BY <1>6, <2>1
<1>9. HeapTypes'
  <2>1. \A d \in sym_set' : cell'[d].type = "sym"
    BY <1>2, <1>4 DEF HeapTypes
  <2> QED  BY <1>2, <1>3, <2>1 DEF HeapTypes
<1>10. Phased'
  <2>1. InPhase(e \o Rest, Releases \cup Frees, Ends)
    BY <1>1, BackSeqs, PhaseAdd
  <2>2. OnList("grey")' = {}
    BY <1>1, <1>4 DEF OnList
  <2> QED  BY <2>1, <2>2 DEF Phased, Releasing
<1>11. (\A d \in Cells : Reclaimed(d))'
  <2>1. ASSUME NEW d \in Cells, d # c  PROVE Reclaimed(d)'
    <3>1. At(work', Call("free1", d)) = At(work, Call("free1", d))
      BY <1>6, <1>8, <2>1 DEF One
    <3> QED  BY <1>2, <1>3, <2>1, <3>1, ReclaimedKept
  <2>2. Reclaimed(c)'
    <3>1. At(work, Call("free1", c)) = 0
      <4>1. At(work, Call("free1", c)) <= 0
        BY <1>1, <1>2 DEF Reclaimed, One
      <4> QED  BY <1>6, <4>1
    <3>2. At(work', Call("free1", c)) = IF n = 0 THEN 1 ELSE 0
      BY <1>8, <3>1 DEF One
    <3>3. InUse(c)' /\ cell'[c].type # "none" /\ cell'[c].list # "grey"
      BY <1>1, <1>3 DEF InUse
    <3>4. One(InUse(c)' /\ cell'[c].ref_cnt = 0) = IF n = 0 THEN 1 ELSE 0
      BY <1>3, <3>3 DEF One
    <3> QED  BY <3>2, <3>3, <3>4, <1>3 DEF Reclaimed
  <2> QED  BY <2>1, <2>2
<1>12. (\A p \in Pages : PageCounted(p))'
  <2>1. \A d \in Cells : /\ InUse(d)' <=> InUse(d)
                         /\ cell'[d].list = "unmapped" <=> cell[d].list = "unmapped"
    BY <1>4 DEF InUse
  <2> QED  BY <2>1, PagesKept DEF HeapInv
<1>13. WantOK'
  BY <1>2, <1>7, WantKept DEF AllocCall
<1>14. TablesOK'
  <2>1. ASSUME NEW k \in DOMAIN loaded'
        PROVE  /\ cell'[loaded'[k]].type \in ModuleTypes
               /\ cell'[loaded'[k]].refs["sha1"] = k
               /\ cell'[loaded'[k]].ref_cnt > 1
    <3>1. loaded'[k] = loaded[k] /\ loaded[k] \in Cells /\ (loaded[k] = c => n > 1)
      BY <1>2 DEF HeapTypes
    <3>2. /\ cell[loaded[k]].type \in ModuleTypes /\ cell[loaded[k]].refs["sha1"] = k
          /\ cell[loaded[k]].ref_cnt > 1
      BY <1>2 DEF TablesOK
    <3> QED  BY <1>3, <1>4, <3>1, <3>2
  <2>2. ASSUME At(work', SymCall) = 0, NEW d \in sym_set' \ permanent'
        PROVE  cell'[d].ref_cnt > 1
    <3>1. At(work, SymCall) = 0
      BY <1>7, <2>2 DEF SymCall
    <3>2. d \in sym_set \ permanent /\ d \in Cells
      BY <1>2, <2>2 DEF HeapTypes
    <3>3. cell[d].ref_cnt > 1
      BY <1>2, <3>1, <3>2 DEF TablesOK
    <3> QED  BY <1>3, <2>2, <3>2, <3>3
  <2> QED  BY <2>1, <2>2 DEF TablesOK
<1> QED  BY <1>9, <1>10, <1>11, <1>12, <1>13, <1>14 DEF HeapInv

\* The calls e and what a release takes out of the tables make up for it.
LEMMA ReleaseBalance ==
  ASSUME HeapInv, Calling("release"), Now.sx # Nil, NEW c, c = Now.sx,
         NEW n, n = cell[c].ref_cnt - 1, cell' = Decremented(c), slot' = slot,
         NEW e \in Seq(Releases \cup Frees), work' = e \o Rest,
         IsFiniteSet(DOMAIN loaded'), NEW x \in Cells,
         At(e, Call("release", x)) =
             (IF n = 0 THEN At(cell[c].refs, x) ELSE 0)
             + One(x \in sym_set) - One(x \in sym_set')
             + One(x \in DOMAIN loaded) - One(x \in DOMAIN loaded')
             + At(loaded, x) - At(loaded', x)
  PROVE  Balance(x)'
<1>1. /\ work # << >> /\ c \in Cells /\ Now = Call("release", c)
      /\ Releasing /\ InPhase(Rest, Releases \cup Frees, Ends)
      /\ \A y : At(work, Call("mark", y)) = 0
      /\ n \in Nat /\ cell[c].ref_cnt = n + 1 /\ Counted(Decremented(c), c, n)
  BY ReleaseStart
<1>2. HeapTypes /\ Phased /\ Balance(x)
  BY DEF HeapInv, Balanced
<1> DEFINE S == At(slot, x)
           Y == One(x \in sym_set)
           K == One(x \in DOMAIN loaded)
           L == At(loaded, x)
           U == Cardinality(Uses(cell, x))
           R == At(work, Call("release", x))
           r == cell[x].ref_cnt
           Y1 == One(x \in sym_set')
           K1 == One(x \in DOMAIN loaded')
           L1 == At(loaded', x)
           U1 == Cardinality(Uses(cell', x))
           R1 == At(work', Call("release", x))
           r1 == cell'[x].ref_cnt
           E == At(e, Call("release", x))
           F == At(cell[c].refs, x)
           o == One(x = c)
<1>3. S \in Nat /\ Y \in Nat /\ K \in Nat /\ L \in Nat /\ U \in Nat
  <2>1. S \in Nat /\ L \in Nat /\ U \in Nat
    BY <1>2, Terms, Zenon
  <2>2. Y \in {0, 1} /\ K \in {0, 1}
    BY DEF One
  <2> QED  BY <2>1, <2>2
<1>4. L1 \in Nat /\ Y1 \in Nat /\ K1 \in Nat
  <2>1. Y1 \in {0, 1} /\ K1 \in {0, 1}
    BY DEF One
  <2>3. L1 \in Nat
    BY AtNat
  <2> QED  BY <2>1, <2>3
<1>5. U1 = U - (IF n = 0 THEN F ELSE 0) /\ F \in Nat
  <2>0. Counted(cell', c, n) /\ HeapTypes /\ c \in Cells /\ n \in Nat
    BY <1>1, <1>2
  <2>1. (n > 0 <=> cell[c].ref_cnt > 0) => U1 = U
    BY ONLY <2>0, CountedUses
  <2>2. n = 0 /\ cell[c].ref_cnt > 0 => F \in Nat /\ U1 = U - F
    BY ONLY <2>0, CountedUses
  <2>3. F \in Nat
    <3>1. IsFiniteSet(DOMAIN cell[c].refs)
      BY <1>1, <1>2, RecordFinite DEF HeapTypes, Made, Objects
    <3> QED  BY <3>1, AtNat
  <2> HIDE DEF U, U1, F
  <2> QED  BY <1>1, <1>3, <2>1, <2>2, <2>3
<1>6. r1 = r - o /\ o \in {0, 1} /\ r \in Nat
  <2>1. r \in Nat
    BY <1>2 DEF HeapTypes, Made, Objects
  <2>2. (x = c => r1 = n) /\ (x # c => r1 = r)
    BY <1>1 DEF Counted
  <2> QED  BY <1>1, <2>1, <2>2 DEF One
<1>7. e \in Seq(AllCalls)
  BY SeqMonotonic DEF AllCalls
<1>8. R1 = E + R - o /\ R \in Nat /\ E \in Nat
  <2>1. \A y : /\ At(work', y) = At(e, y) + At(work, y) - One(Now = y)
               /\ At(e, y) \in Nat
    BY <1>1, <1>2, <1>7, Pushed
  <2>2. One(Now = Call("release", x)) = o
    BY <1>1, CallIs DEF One
  <2>3. R \in Nat
    BY <1>2, WorkSeq
  <2> QED  BY <2>1, <2>2, <2>3
<1>9. At(work', Call("mark", x)) = 0
  <2>1. InPhase(e \o Rest, Releases \cup Frees, Ends)
    BY <1>1, BackSeqs, PhaseAdd
  <2>2. work' \in Seq((Releases \cup Frees) \cup LastCalls)
    BY <2>1, BackSeqs, PhaseSeq
  <2>3. Call("mark", x) \notin (Releases \cup Frees) \cup LastCalls
    BY CallIs
  <2> QED  BY <2>2, <2>3, Absent
<1>10. r = S + Y + K + L + U + R
  <2>1. r + 0 = S + Y + K + L + U + R
    BY <1>1, <1>2 DEF Balance
  <2> HIDE DEF r, S, Y, K, L, U, R
  <2> QED  BY <1>3, <1>6, <1>8, <2>1
<1>11. E = (IF n = 0 THEN F ELSE 0) + Y - Y1 + K - K1 + L - L1
  OBVIOUS
<1>12. r1 + 0 = S + Y1 + K1 + L1 + U1 + R1
  <2> HIDE DEF r, S, Y, K, L, U, R, r1, Y1, K1, L1, U1, R1, E, F, o
  <2> QED  BY <1>3, <1>4, <1>5, <1>6, <1>8, <1>10, <1>11
<1> QED  BY <1>9, <1>12 DEF Balance

LEMMA AtTwo ==
  ASSUME NEW S, NEW k \in S, NEW m \in S, NEW x
  PROVE  <<k, m>> \in Seq(S) /\ At(<<k, m>>, x) = One(k = x) + One(m = x)
<1> DEFINE p == <<k>>
           q == <<m>>
<1>1. p \in Seq(S) /\ q \in Seq(S) /\ <<k, m>> \in Seq(S)
  OBVIOUS
<1>4. <<k, m>> = p \o q
  <2> DEFINE t == <<k, m>>
             u == p \o q
  <2>1. t \in Seq(S) /\ Len(t) = 2 /\ t[1] = k /\ t[2] = m
    OBVIOUS
  <2>2. /\ u \in Seq(S) /\ Len(u) = Len(p) + Len(q)
        /\ \A i \in 1 .. Len(p) + Len(q) : u[i] = IF i <= Len(p) THEN p[i] ELSE q[i - Len(p)]
    BY <1>1, ConcatProperties
  <2>3. Len(p) = 1 /\ Len(q) = 1 /\ p[1] = k /\ q[1] = m
    OBVIOUS
  <2> HIDE DEF p, q, t, u
  <2>4. \A i \in 1 .. Len(t) : t[i] = u[i]
    BY <2>1, <2>2, <2>3
  <2>5. Len(t) = Len(u)
    BY <2>1, <2>2, <2>3
  <2>6. t = u
    BY <2>1, <2>2, <2>4, <2>5, SeqEqual
  <2> QED  BY <2>6 DEF t, u
<1>2. At(p, x) = One(k = x) /\ At(q, x) = One(m = x)
  BY AtOne
<1> HIDE DEF p, q
<1>3. At(p \o q, x) = At(p, x) + At(q, x)
  BY <1>1, AtConcat
<1> QED  BY <1>1, <1>2, <1>3, <1>4

LEMMA ReleaseStep ==
  ASSUME Sound, HeapInv, Release
  PROVE  HeapInv'
<1> DEFINE c == Now.sx
           n == cell[c].ref_cnt - 1
<1>1. /\ Calling("release") /\ c # Nil /\ cell' = Decremented(c)
      /\ UNCHANGED <<in_use_cnt, slot, permanent, want, status>>
  BY DEF Release
<1>2. /\ \/ /\ n = 0
            /\ work' = FreeCalls(c) \o Rest
            /\ UNCHANGED <<sym_set, loaded>>
         \/ /\ n = 1 /\ c \in sym_set \ permanent
            /\ sym_set' = sym_set \ {c}
            /\ work' = Calls("release", <<c>>) \o Rest
            /\ UNCHANGED loaded
         \/ \E k \in EntriesOf(c) :
            /\ n = 1
            /\ loaded' = Restrict(loaded, DOMAIN loaded \ {k})
            /\ work' = Calls("release", <<k, loaded[k]>>) \o Rest
            /\ UNCHANGED sym_set
         \/ /\ n # 0 /\ ~(n = 1 /\ (c \in sym_set \ permanent \/ EntriesOf(c) # {}))
            /\ work' = Rest
            /\ UNCHANGED <<sym_set, loaded>>
  BY DEF Release
<1> HIDE DEF c, n
<1>3. c = Now.sx /\ n = cell[c].ref_cnt - 1
  BY DEF c, n
<1>4. /\ work # << >> /\ c \in Cells /\ InPhase(Rest, Releases \cup Frees, Ends)
      /\ n \in Nat /\ cell[c].type # "none" /\ (Referred(c) => n > 0)
  BY <1>1, <1>3, ReleaseStart
<1>5. HeapTypes /\ TablesOK /\ Phased
  BY DEF HeapInv
<1>6. /\ permanent \subseteq sym_set /\ loaded \in [DOMAIN loaded -> Cells]
      /\ DOMAIN loaded \subseteq Cells /\ IsFiniteSet(DOMAIN loaded)
  BY <1>5, Terms DEF HeapTypes
<1>7. \A x : One(x \in sym_set) \in Nat /\ One(x \in DOMAIN loaded) \in Nat /\ At(loaded, x) \in Nat
  <2>1. \A x : One(x \in sym_set) \in {0, 1} /\ One(x \in DOMAIN loaded) \in {0, 1}
    BY DEF One
  <2>2. \A x : At(loaded, x) \in Nat
    BY <1>6, AtNat
  <2> QED  BY <2>1, <2>2
<1>8. CASE n = 0 /\ work' = FreeCalls(c) \o Rest /\ UNCHANGED <<sym_set, loaded>>
  <2> DEFINE e == FreeCalls(c)
  <2>1. /\ e \in Seq(Releases \cup Frees)
        /\ \A x : At(e, Call("release", x)) = At(cell[c].refs, x) /\ At(e, Call("free1", x)) = One(x = c)
    BY <1>4, <1>5, FreeCount
  <2>2. ~ Referred(c)
    BY <1>4, <1>8
  <2> HIDE DEF e
  <2>3. Balanced'
    <3> SUFFICES ASSUME NEW x \in Cells  PROVE Balance(x)'
      BY DEF Balanced
    <3>1. At(cell[c].refs, x) \in Nat
      <4>1. IsFiniteSet(DOMAIN cell[c].refs)
        BY <1>4, <1>5, RecordFinite DEF HeapTypes, Made, Objects
      <4> QED  BY <4>1, AtNat
    <3>2. At(e, Call("release", x)) =
             (IF n = 0 THEN At(cell[c].refs, x) ELSE 0)
             + One(x \in sym_set) - One(x \in sym_set')
             + One(x \in DOMAIN loaded) - One(x \in DOMAIN loaded')
             + At(loaded, x) - At(loaded', x)
      BY <1>7, <1>8, <2>1, <3>1
    <3>3. work' = e \o Rest /\ IsFiniteSet(DOMAIN loaded')
      BY <1>6, <1>8 DEF e
    <3> QED  BY <1>1, <1>3, <2>1, <3>2, <3>3, ReleaseBalance
  <2>4. \A x : At(e, Call("free1", x)) = IF n = 0 THEN One(x = c) ELSE 0
    BY <1>8, <2>1
  <2>5. \A k \in DOMAIN loaded' : loaded'[k] = loaded[k] /\ (loaded[k] = c => n > 1)
    BY <1>8, <2>2 DEF Referred
  <2>6. c \in sym_set' \ permanent => n > 1
    BY <1>8, <2>2 DEF Referred
  <2>7. work' = e \o Rest
    BY <1>8 DEF e
  <2>8. permanent \subseteq sym_set' /\ sym_set' \subseteq sym_set
    BY <1>6, <1>8
  <2>9. loaded' \in [DOMAIN loaded' -> Cells] /\ DOMAIN loaded' \subseteq DOMAIN loaded
    BY <1>6, <1>8
  <2>10. e \in Seq(Releases \cup Frees)
    BY <2>1
  <2> QED  BY <1>1, <1>3, <2>10, <2>3, <2>4, <2>5, <2>6, <2>7, <2>8, <2>9, ReleaseFrame
<1>9. CASE /\ n = 1 /\ c \in sym_set \ permanent /\ sym_set' = sym_set \ {c}
           /\ work' = Calls("release", <<c>>) \o Rest /\ UNCHANGED loaded
  <2> DEFINE v == <<c>>
             e == Calls("release", v)
  <2>1. v \in Seq(Values) /\ \A x : At(v, x) = One(c = x)
    BY <1>4, AtOne DEF Values
  <2>2. work' = e \o Rest
    BY <1>9
  <2> HIDE DEF v
  <2>3. e \in Seq(Releases \cup Frees)
    BY <2>1, CallsSeq, SeqMonotonic
  <2>4. \A x : At(e, Call("release", x)) = One(c = x) /\ At(e, Call("free1", x)) = 0
    BY <2>1, CallsCount
  <2> HIDE DEF e
  <2>5. Balanced'
    <3> SUFFICES ASSUME NEW x \in Cells  PROVE Balance(x)'
      BY DEF Balanced
    <3>1. One(c = x) = One(x \in sym_set) - One(x \in sym_set')
      BY <1>9 DEF One
    <3>2. One(x \in sym_set') \in {0, 1}
      BY DEF One
    <3>3. At(e, Call("release", x)) =
             (IF n = 0 THEN At(cell[c].refs, x) ELSE 0)
             + One(x \in sym_set) - One(x \in sym_set')
             + One(x \in DOMAIN loaded) - One(x \in DOMAIN loaded')
             + At(loaded, x) - At(loaded', x)
      BY <1>7, <1>9, <2>4, <3>1, <3>2
    <3>4. IsFiniteSet(DOMAIN loaded')
      BY <1>6, <1>9
    <3> QED  BY <1>1, <1>3, <2>2, <2>3, <3>3, <3>4, ReleaseBalance
  <2>6. \A x : At(e, Call("free1", x)) = IF n = 0 THEN One(x = c) ELSE 0
    BY <1>9, <2>4
  <2>7. \A k \in DOMAIN loaded' : loaded'[k] = loaded[k] /\ (loaded[k] = c => n > 1)
    <3>1. cell[c].type = "sym" /\ "sym" \notin ModuleTypes
      BY <1>5, <1>9 DEF HeapTypes, ModuleTypes
    <3>2. \A k \in DOMAIN loaded : loaded[k] # c
      BY <1>5, <3>1 DEF TablesOK
    <3> QED  BY <1>9, <3>2
  <2>8. /\ c \notin sym_set' \ permanent /\ permanent \subseteq sym_set' /\ sym_set' \subseteq sym_set
        /\ loaded' \in [DOMAIN loaded' -> Cells] /\ DOMAIN loaded' \subseteq DOMAIN loaded
    BY <1>6, <1>9
  <2> QED  BY <1>1, <1>3, <2>2, <2>3, <2>5, <2>6, <2>7, <2>8, ReleaseFrame
<1>10. ASSUME NEW k \in EntriesOf(c), n = 1, loaded' = Restrict(loaded, DOMAIN loaded \ {k}),
              work' = Calls("release", <<k, loaded[k]>>) \o Rest, sym_set' = sym_set
       PROVE  HeapInv'
  <2> DEFINE m == loaded[k]
             v == <<k, m>>
             e == Calls("release", v)
  <2>1. /\ k \in DOMAIN loaded /\ k \in Values /\ m \in Values
        /\ cell[c].type \in ModuleTypes /\ cell[c].refs["sha1"] = k
    BY <1>6, <1>10 DEF EntriesOf, Values
  <2>2. work' = e \o Rest
    BY <1>10
  <2> HIDE DEF m
  <2>3. v \in Seq(Values) /\ \A x : At(v, x) = One(k = x) + One(m = x)
    BY <2>1, AtTwo
  <2> HIDE DEF v
  <2>4. e \in Seq(Releases \cup Frees)
    BY <2>3, CallsSeq, SeqMonotonic
  <2>5. \A x : At(e, Call("release", x)) = One(k = x) + One(m = x) /\ At(e, Call("free1", x)) = 0
    BY <2>3, CallsCount
  <2> HIDE DEF e
  <2>6. /\ DOMAIN loaded' = DOMAIN loaded \ {k} /\ k \notin DOMAIN loaded'
        /\ DOMAIN loaded = DOMAIN loaded' \cup {k}
        /\ \A x \in DOMAIN loaded' : loaded'[x] = loaded[x]
        /\ loaded' \in [DOMAIN loaded' -> Cells] /\ IsFiniteSet(DOMAIN loaded')
    <3>1. DOMAIN loaded' = DOMAIN loaded \ {k} /\ \A x \in DOMAIN loaded' : loaded'[x] = loaded[x]
      BY <1>10 DEF Restrict
    <3>2. loaded' \in [DOMAIN loaded' -> Cells]
      BY <1>6, <1>10, <3>1 DEF Restrict
    <3>3. IsFiniteSet(DOMAIN loaded')
      BY <1>6, <3>1, FS_Subset
    <3> QED  BY <2>1, <3>1, <3>2, <3>3
  <2>7. Balanced'
    <3> SUFFICES ASSUME NEW x \in Cells  PROVE Balance(x)'
      BY DEF Balanced
    <3>1. At(loaded, x) = At(loaded', x) + One(m = x)
      <4>1. /\ k \notin DOMAIN loaded' /\ IsFiniteSet(DOMAIN loaded')
            /\ DOMAIN loaded = DOMAIN loaded' \cup {k}
            /\ \A s \in DOMAIN loaded' : loaded[s] = loaded'[s]
        BY <2>6
      <4>2. At(loaded, x) = At(loaded', x) + One(loaded[k] = x)
        BY ONLY <4>1, AtAdd
      <4> QED  BY <4>2 DEF m
    <3>2. One(x \in DOMAIN loaded) = One(x \in DOMAIN loaded') + One(k = x)
      BY <2>6 DEF One
    <3>3. /\ One(x \in DOMAIN loaded') \in {0, 1} /\ One(k = x) \in {0, 1} /\ One(m = x) \in {0, 1}
      BY DEF One
    <3>4. At(loaded', x) \in Nat
      BY <2>6, AtNat
    <3>5. One(x \in sym_set) - One(x \in sym_set') = 0
      BY <1>7, <1>10
    <3>6. At(e, Call("release", x)) =
             (IF n = 0 THEN At(cell[c].refs, x) ELSE 0)
             + One(x \in sym_set) - One(x \in sym_set')
             + One(x \in DOMAIN loaded) - One(x \in DOMAIN loaded')
             + At(loaded, x) - At(loaded', x)
      <4>1. (IF n = 0 THEN At(cell[c].refs, x) ELSE 0) = 0
        BY <1>10
      <4>2. At(e, Call("release", x)) = One(k = x) + One(m = x)
        BY <2>5
      <4>3. One(x \in sym_set') = One(x \in sym_set) /\ One(x \in sym_set) \in Nat
        BY <1>7, <1>10
      <4> QED  BY <3>1, <3>2, <3>3, <3>4, <4>1, <4>2, <4>3
    <3> QED  BY <1>1, <1>3, <2>2, <2>4, <2>6, <3>6, ReleaseBalance
  <2>8. \A x : At(e, Call("free1", x)) = IF n = 0 THEN One(x = c) ELSE 0
    BY <1>10, <2>5
  <2>9. \A x \in DOMAIN loaded' : loaded'[x] = loaded[x] /\ (loaded[x] = c => n > 1)
    <3>1. \A x \in DOMAIN loaded : loaded[x] = c => x = k
      BY <1>5, <2>1 DEF TablesOK
    <3> QED  BY <2>6, <3>1
  <2>10. c \notin sym_set
    BY <1>5, <2>1 DEF HeapTypes, ModuleTypes
  <2>11. c \notin sym_set' \ permanent /\ permanent \subseteq sym_set' /\ sym_set' \subseteq sym_set
    BY <1>6, <1>10, <2>10
  <2>12. DOMAIN loaded' \subseteq DOMAIN loaded /\ loaded' \in [DOMAIN loaded' -> Cells]
    BY <2>6
  <2> QED  BY <1>1, <1>3, <2>2, <2>4, <2>7, <2>8, <2>9, <2>11, <2>12, ReleaseFrame
<1>11. CASE /\ n # 0 /\ ~(n = 1 /\ (c \in sym_set \ permanent \/ EntriesOf(c) # {}))
            /\ work' = Rest /\ UNCHANGED <<sym_set, loaded>>
  <2> DEFINE e == << >>
  <2>1. e \in Seq(Releases \cup Frees) /\ \A x : At(e, x) = 0
    BY AtEmpty
  <2>2. work' = e \o Rest
    <3>1. Rest \in Seq((Releases \cup Frees) \cup LastCalls)
      BY <1>4, BackSeqs, PhaseSeq
    <3> QED  BY <1>11, <3>1, ConcatEmptySeq
  <2> HIDE DEF e
  <2>3. Balanced'
    <3> SUFFICES ASSUME NEW x \in Cells  PROVE Balance(x)'
      BY DEF Balanced
    <3>1. At(e, Call("release", x)) =
             (IF n = 0 THEN At(cell[c].refs, x) ELSE 0)
             + One(x \in sym_set) - One(x \in sym_set')
             + One(x \in DOMAIN loaded) - One(x \in DOMAIN loaded')
             + At(loaded, x) - At(loaded', x)
      BY <1>7, <1>11, <2>1
    <3>2. IsFiniteSet(DOMAIN loaded')
      BY <1>6, <1>11
    <3> QED  BY <1>1, <1>3, <2>1, <2>2, <3>1, <3>2, ReleaseBalance
  <2>4. \A x : At(e, Call("free1", x)) = IF n = 0 THEN One(x = c) ELSE 0
    BY <1>11, <2>1
  <2>5. \A k \in DOMAIN loaded' : loaded'[k] = loaded[k] /\ (loaded[k] = c => n > 1)
    <3> SUFFICES ASSUME NEW k \in DOMAIN loaded, loaded[k] = c  PROVE n > 1
      BY <1>11
    <3>1. cell[c].type \in ModuleTypes /\ cell[c].refs["sha1"] = k
      BY <1>5 DEF TablesOK
    <3>2. k \in EntriesOf(c)
      BY <3>1 DEF EntriesOf
    <3> QED  BY <1>4, <1>11, <3>2
  <2>6. c \in sym_set' \ permanent => n > 1
    BY <1>4, <1>11
  <2>7. permanent \subseteq sym_set' /\ sym_set' \subseteq sym_set
    BY <1>6, <1>11
  <2>8. loaded' \in [DOMAIN loaded' -> Cells] /\ DOMAIN loaded' \subseteq DOMAIN loaded
    BY <1>6, <1>11
  <2> QED  BY <1>1, <1>3, <2>1, <2>2, <2>3, <2>4, <2>5, <2>6, <2>7, <2>8, ReleaseFrame
<1> QED  BY <1>2, <1>8, <1>9, <1>10, <1>11

-----------------------------------------------------------------------------
(* sx_free1.                                                               *)

LEMMA Blank ==
  /\ FreeCell \in Made /\ Unmapped \in Made
  /\ FreeCell.ref_cnt = 0 /\ FreeCell.list = "free" /\ FreeCell.type = "none"
  /\ Unmapped.ref_cnt = 0 /\ Unmapped.list = "unmapped" /\ Unmapped.type = "none"
<1>1. NoFields \in Records /\ DOMAIN NoFields = {}
  BY DEF NoFields, Records
<1>2. "none" \notin ModuleTypes
  BY DEF ModuleTypes
<1> QED  BY <1>1, <1>2 DEF FreeCell, Unmapped, Made, Objects, Fields

\* Counts and references are as before.
LEMMA BalanceKept ==
  ASSUME HeapTypes, cell' \in [Cells -> Made], NEW x \in Cells, Balance(x),
         cell'[x].ref_cnt = cell[x].ref_cnt,
         \A d \in Cells : Alike(cell[d], cell'[d]),
         At(work', Call("mark", x)) = At(work, Call("mark", x)),
         At(work', Call("release", x)) = At(work, Call("release", x)),
         UNCHANGED <<slot, sym_set, loaded>>
  PROVE  Balance(x)'
<1>1. cell \in [Cells -> Objects] /\ cell' \in [Cells -> Objects]
  BY DEF HeapTypes, Made
<1>2. Cardinality(Uses(cell', x)) = Cardinality(Uses(cell, x))
  BY <1>1, UsesSame
<1> QED  BY <1>2 DEF Balance

\* The cell c leaves the objects in use, and a page may go with it.
Freed(c) ==
    /\ c \in Cells /\ InUse(c) /\ cell[c].ref_cnt = 0
    /\ \A x : At(work, Call("mark", x)) = 0
    /\ \A d \in Cells :
          /\ InUse(d)' <=> InUse(d) /\ d # c
          /\ \/ d # c /\ cell'[d] = cell[d]
             \/ cell'[d].type = "none" /\ cell[d].ref_cnt = 0

LEMMA FreeStep ==
  ASSUME HeapInv, Free1
  PROVE  HeapInv' /\ Freed(Now.sx)
<1>0. PICK c, p, n : c = Now.sx /\ p = PageOf(c) /\ n = in_use_cnt[p]
  OBVIOUS
<1>1. /\ Calling("free1") /\ work # << >>
      /\ in_use_cnt' = [in_use_cnt EXCEPT ![p] = @ - 1]
      /\ cell' = [d \in Cells |->
             IF PageOf(d) = p /\ n = 1 THEN Unmapped
             ELSE IF d = c THEN FreeCell ELSE cell[d]]
      /\ work' = Rest
      /\ UNCHANGED <<slot, sym_set, permanent, loaded, want, status>>
  BY <1>0 DEF Free1, Calling
<1>2. /\ HeapTypes /\ Balanced /\ Phased /\ WantOK /\ TablesOK
      /\ (\A x \in Cells : Reclaimed(x)) /\ \A q \in Pages : PageCounted(q)
  BY DEF HeapInv
<1> DEFINE used == {d \in p : InUse(d)}
<1>3. c \in Cells /\ Now = Call("free1", c)
  BY <1>0, <1>1, <1>2, Turn, CallIs
<1>4. p \in Pages /\ c \in p /\ (\A q \in Pages : c \in q <=> q = p) /\ p \subseteq Cells /\ IsFiniteSet(p)
  BY <1>0, <1>3, PagesApart
<1>5. \A x : /\ At(work', x) = At(work, x) - One(Now = x)
             /\ At(work', x) \in Nat /\ At(work, x) \in Nat
  <2>1. << >> \in Seq(AllCalls)
    OBVIOUS
  <2> QED  BY <1>1, <1>2, <2>1, Pushed, WorkSeq
<1>6. \A x : Now # x => At(work', x) = At(work, x)
  <2> SUFFICES ASSUME NEW x, Now # x  PROVE At(work', x) = At(work, x)
    OBVIOUS
  <2>1. One(Now = x) = 0
    BY DEF One
  <2> QED  BY <1>5, <2>1
<1>7. At(work, Call("free1", c)) = 1 /\ At(work', Call("free1", c)) = 0 /\ InUse(c) /\ cell[c].ref_cnt = 0
  <2>1. One(Now = Call("free1", c)) = 1
    BY <1>3 DEF One
  <2>2. At(work, Call("free1", c)) >= 1
    BY <1>5, <2>1
  <2>3. At(work, Call("free1", c)) <= One(InUse(c) /\ cell[c].ref_cnt = 0)
    BY <1>2, <1>3 DEF Reclaimed
  <2>4. InUse(c) /\ cell[c].ref_cnt = 0 /\ At(work, Call("free1", c)) <= 1
    <3> DEFINE q == InUse(c) /\ cell[c].ref_cnt = 0
    <3>1. ~ q => One(q) = 0
      BY DEF One
    <3>2. q => One(q) = 1
      BY DEF One
    <3>3. At(work, Call("free1", c)) <= One(q)
      BY <2>3
    <3>4. q
      <4> HIDE DEF q
      <4> QED  BY <1>5, <2>2, <3>1, <3>3
    <3> QED  BY <3>2, <3>3, <3>4
  <2> QED  BY <1>5, <2>1, <2>2, <2>4
<1>8. \A x : At(work, Call("mark", x)) = 0
  BY <1>1, <1>2, Turn, WorkSeq
<1>9. /\ n = Cardinality(used) /\ n \in Nat \ {0} /\ c \in used /\ IsFiniteSet(used)
      /\ Cardinality(used \ {c}) = n - 1
      /\ n = 1 => \A d \in p : d # c => ~ InUse(d)
  <2>1. IsFiniteSet(used) /\ c \in used
    BY <1>4, <1>7, FS_Subset
  <2>2. n = Cardinality(used) /\ n \in Nat
    BY <1>0, <1>2, <1>4 DEF PageCounted, HeapTypes
  <2>3. Cardinality(used \ {c}) = n - 1 /\ IsFiniteSet(used \ {c})
    <3> HIDE DEF used
    <3> QED  BY <2>1, <2>2, FS_RemoveElement
  <2>4. n # 0
    <3> HIDE DEF used
    <3> QED  BY <2>1, <2>2, FS_EmptySet
  <2>5. n = 1 => used \ {c} = {}
    <3> HIDE DEF used
    <3> QED  BY <2>3, FS_EmptySet
  <2> QED  BY <2>1, <2>2, <2>3, <2>4, <2>5
\* Of the cells that change only c is in use, and none has references.
<1> DEFINE gone(d) == (PageOf(d) = p /\ n = 1) \/ d = c
<1>10. \A d \in Cells : PageOf(d) = p <=> d \in p
  BY <1>4, PagesApart
<1>11. \A d \in Cells : gone(d) => cell[d].ref_cnt = 0 /\ (InUse(d) => d = c)
  <2>1. \A d \in Cells : ~ InUse(d) => cell[d].ref_cnt = 0
    BY <1>2 DEF Reclaimed, HeapTypes, Made, Objects
  <2> QED  BY <1>7, <1>9, <1>10, <2>1
<1>12. /\ cell' \in [Cells -> Made]
       /\ \A d \in Cells : gone(d) => /\ cell'[d].ref_cnt = 0 /\ cell'[d].type = "none"
                                      /\ cell'[d].list \in {"free", "unmapped"}
       /\ \A d \in Cells : ~ gone(d) => cell'[d] = cell[d]
  <2>1. cell \in [Cells -> Made]
    BY <1>2 DEF HeapTypes
  <2> QED  BY <1>1, <2>1, Blank
<1>13. \A d \in Cells : cell'[d].ref_cnt = cell[d].ref_cnt /\ Alike(cell[d], cell'[d])
  <2>1. ASSUME NEW d \in Cells, gone(d)  PROVE cell'[d].ref_cnt = 0 /\ cell[d].ref_cnt = 0
    BY <1>11, <1>12, <2>1
  <2>2. ASSUME NEW d \in Cells, ~ gone(d)  PROVE cell'[d] = cell[d]
    BY <1>12, <2>2
  <2> HIDE DEF gone
  <2> QED  BY <2>1, <2>2 DEF Alike
<1>14. \A d \in Cells : Referred(d) => cell[d].ref_cnt > 0 /\ ~ gone(d)
  <2>1. \A d \in Cells : Referred(d) => cell[d].ref_cnt > 0
    BY <1>2, <1>8, Live DEF Balanced
  <2> HIDE DEF gone
  <2> QED  BY <1>11, <2>1
<1>15. \A d \in Cells : InUse(d)' <=> InUse(d) /\ d # c
  <2>1. ASSUME NEW d \in Cells, gone(d)  PROVE InUse(d)' <=> InUse(d) /\ d # c
    BY <1>11, <1>12, <2>1 DEF InUse
  <2>2. ASSUME NEW d \in Cells, ~ gone(d)  PROVE InUse(d)' <=> InUse(d) /\ d # c
    BY <1>12, <2>2 DEF InUse
  <2> QED  BY <2>1, <2>2
<1>16. \A q \in Pages : in_use_cnt'[q] = IF q = p THEN n - 1 ELSE in_use_cnt[q]
  BY <1>0, <1>1, <1>2 DEF HeapTypes
<1>17. HeapTypes'
  <2>1. in_use_cnt' \in [Pages -> Nat]
    <3>1. n - 1 \in Nat
      BY <1>9
    <3> QED  BY <1>0, <1>1, <1>2, <3>1 DEF HeapTypes
  <2>2. \A d \in sym_set : d \in Cells /\ Referred(d)
    BY <1>2 DEF HeapTypes, Referred
  <2>3. \A d \in sym_set : cell'[d].type = "sym"
    <3> HIDE DEF gone
    <3> QED  BY <1>2, <1>12, <1>14, <2>2 DEF HeapTypes
  <2> QED  BY <1>1, <1>2, <1>12, <2>1, <2>3 DEF HeapTypes
<1>18. Balanced'
  <2> SUFFICES ASSUME NEW x \in Cells  PROVE Balance(x)'
    BY DEF Balanced
  <2>1. Now # Call("mark", x) /\ Now # Call("release", x)
    BY <1>3, CallIs
  <2>2. At(work', Call("mark", x)) = At(work, Call("mark", x)) /\ At(work', Call("release", x)) = At(work, Call("release", x))
    BY <1>6, <2>1
  <2>3. UNCHANGED <<slot, sym_set, loaded>>
    BY <1>1
  <2>4. Balance(x)
    BY <1>2 DEF Balanced
  <2>5. cell' \in [Cells -> Made]
    BY <1>12
  <2> HIDE DEF gone
  <2> QED  BY <1>2, <1>13, <2>2, <2>3, <2>4, <2>5, BalanceKept
<1>19. Phased'
  <2>1. CASE Releasing /\ OnList("grey") = {} /\ InPhase(Rest, Releases \cup Frees, Ends)
    <3>1. OnList("grey")' = {}
      <4> SUFFICES ASSUME NEW d \in Cells, cell'[d].list = "grey"  PROVE FALSE
        BY DEF OnList
      <4>1. ~ gone(d)
        BY <1>12
      <4>2. cell[d].list = "grey"
        BY <1>12, <4>1
      <4> QED  BY <2>1, <4>2 DEF OnList
    <3> QED  BY <1>1, <2>1, <3>1 DEF Phased, Releasing
  <2>2. CASE Collects /\ Sweeping /\ InPhase(Rest, Frees, Swept)
    BY <1>1, <2>2 DEF Phased, Sweeping
  <2> QED  BY <1>1, <1>2, <2>1, <2>2, Turn
<1>20. (\A d \in Cells : Reclaimed(d))'
  <2>1. ASSUME NEW d \in Cells, d # c  PROVE At(work', Call("free1", d)) = At(work, Call("free1", d))
    <3>1. Now # Call("free1", d)
      BY <1>3, <2>1, CallIs
    <3> QED  BY <1>6, <3>1
  <2>2. ASSUME NEW d \in Cells, ~ gone(d)  PROVE Reclaimed(d)'
    BY <1>2, <1>12, <2>1, <2>2, ReclaimedKept
  <2>3. ASSUME NEW d \in Cells, gone(d)  PROVE Reclaimed(d)'
    <3>1. At(work', Call("free1", d)) = 0
      <4>1. CASE d = c
        BY <1>7, <4>1
      <4>2. CASE d # c
        <5>1. ~ InUse(d)
          BY <1>11, <2>3, <4>2
        <5>2. At(work, Call("free1", d)) <= 0
          BY <1>2, <5>1 DEF Reclaimed, One
        <5>3. At(work, Call("free1", d)) \in Nat
          BY <1>5
        <5> QED  BY <2>1, <4>2, <5>2, <5>3
      <4> QED  BY <4>1, <4>2
    <3>2. ~ InUse(d)' /\ cell'[d].list # "grey" /\ cell'[d].ref_cnt = 0
      BY <1>12, <2>3 DEF InUse
    <3> QED  BY <3>1, <3>2 DEF Reclaimed, One
  <2> HIDE DEF gone
  <2> QED  BY <2>2, <2>3
<1>21. (\A q \in Pages : PageCounted(q))'
  <2>1. ASSUME NEW q \in Pages, q # p  PROVE PageCounted(q)'
    <3>1. \A d \in q : d \in Cells /\ ~ gone(d)
      <4>1. \A d \in q : d \in Cells /\ PageOf(d) = q
        BY PagesApart DEF Cells
      <4> QED  BY <1>4, <2>1, <4>1, PagesApart
    <3>2. \A d \in q : cell'[d] = cell[d]
      BY <1>12, <3>1
    <3>3. {d \in q : InUse(d)'} = {d \in q : InUse(d)}
      BY <3>2 DEF InUse
    <3> QED  BY <1>2, <1>16, <2>1, <3>2, <3>3 DEF PageCounted
  <2>2. PageCounted(p)'
    <3>1. {d \in p : InUse(d)'} = used \ {c}
      BY <1>4, <1>15
    <3>2. in_use_cnt'[p] = Cardinality({d \in p : InUse(d)'})
      BY <1>4, <1>9, <1>16, <3>1
    <3>3. \A d \in p : cell'[d].list = "unmapped" <=> n - 1 = 0
      <4> SUFFICES ASSUME NEW d \in p  PROVE cell'[d].list = "unmapped" <=> n - 1 = 0
        OBVIOUS
      <4>1. d \in Cells /\ PageOf(d) = p
        BY <1>4, <1>10
      <4>2. cell[d].list # "unmapped"
        BY <1>0, <1>2, <1>4, <1>9 DEF PageCounted
      <4>3. cell'[d] = IF n = 1 THEN Unmapped ELSE IF d = c THEN FreeCell ELSE cell[d]
        BY <1>1, <4>1
      <4> QED  BY <1>9, <4>2, <4>3, Blank
    <3> QED  BY <1>4, <1>16, <3>2, <3>3 DEF PageCounted
  <2> QED  BY <2>1, <2>2
<1>22. WantOK' /\ At(work', SymCall) = At(work, SymCall)
  <2>1. Now # AllocCall /\ Now # SymCall
    BY <1>3, CallIs DEF AllocCall, SymCall
  <2> QED  BY <1>1, <1>2, <1>6, <2>1, WantKept
<1>23. TablesOK'
  <2>1. \A k \in DOMAIN loaded : loaded[k] \in Cells /\ Referred(loaded[k])
    BY <1>2 DEF HeapTypes, Referred
  <2>2. \A k \in DOMAIN loaded : cell'[loaded[k]] = cell[loaded[k]]
    <3> HIDE DEF gone
    <3> QED  BY <1>12, <1>14, <2>1
  <2>3. sym_set \subseteq Cells
    BY <1>2 DEF HeapTypes
  <2> HIDE DEF gone
  <2>4. ASSUME NEW k \in DOMAIN loaded'
        PROVE  /\ cell'[loaded'[k]].type \in ModuleTypes
               /\ cell'[loaded'[k]].refs["sha1"] = k
               /\ cell'[loaded'[k]].ref_cnt > 1
    BY <1>1, <1>2, <2>2 DEF TablesOK
  <2>5. ASSUME At(work', SymCall) = 0, NEW d \in sym_set' \ permanent'  PROVE cell'[d].ref_cnt > 1
    BY <1>1, <1>2, <1>13, <1>22, <2>3, <2>5 DEF TablesOK
  <2> QED  BY <2>4, <2>5 DEF TablesOK
<1>24. Freed(c)
  <2>1. ASSUME NEW d \in Cells
        PROVE  \/ d # c /\ cell'[d] = cell[d]
               \/ cell'[d].type = "none" /\ cell[d].ref_cnt = 0
    <3>1. CASE gone(d)
      BY <1>11, <1>12, <3>1
    <3>2. CASE ~ gone(d)
      BY <1>12, <3>2
    <3> QED  BY <3>1, <3>2
  <2> QED  BY <1>3, <1>7, <1>8, <1>15, <2>1 DEF Freed
<1> QED  BY <1>0, <1>17, <1>18, <1>19, <1>20, <1>21, <1>22, <1>23, <1>24 DEF HeapInv

-----------------------------------------------------------------------------
(* sx_mark.                                                                *)

LEMMA MarkStep ==
  ASSUME Sound, HeapInv, Mark
  PROVE  HeapInv'
<1>0. PICK c, n : c = Now.sx /\ n = cell[c].ref_cnt
  OBVIOUS
<1>1. /\ Calling("mark") /\ work # << >> /\ c # Nil
      /\ UNCHANGED <<in_use_cnt, slot, sym_set, permanent, loaded, want, status>>
  BY <1>0 DEF Mark, Calling
<1>2. /\ HeapTypes /\ Balanced /\ Phased /\ WantOK /\ TablesOK
      /\ (\A x \in Cells : Reclaimed(x)) /\ \A q \in Pages : PageCounted(q)
  BY DEF HeapInv
<1>3. /\ c \in Cells /\ Now = Call("mark", c) /\ Collects /\ Marking /\ MarksInUse
      /\ InPhase(Rest, Marks, Swept)
  BY <1>0, <1>1, <1>2, Turn, CallIs DEF Values
<1>4. \A x : At(work, x) \in Nat
  BY <1>2, WorkSeq
<1>5. \A x : At(work, Call("free1", x)) = 0 /\ At(work, Call("release", x)) = 0
  BY <1>2, <1>3, WorkSeq
<1>6. InUse(c) /\ cell[c].type # "none" /\ n \in Nat
  <2>1. At(work, Call("mark", c)) >= 1
    <3>1. << >> \in Seq(AllCalls)
      OBVIOUS
    <3>2. At(Rest, Call("mark", c)) = At(work, Call("mark", c)) - One(Now = Call("mark", c))
          /\ At(Rest, Call("mark", c)) \in Nat
      BY <1>1, <1>2, <3>1, Pushed
    <3>3. One(Now = Call("mark", c)) = 1
      BY <1>3 DEF One
    <3> QED  BY <1>4, <3>2, <3>3
  <2>2. At(work, Call("mark", c)) > 0
    BY <1>4, <2>1
  <2> QED  BY <1>0, <1>2, <1>3, <2>2 DEF MarksInUse, Reclaimed, HeapTypes, Made, Objects
<1> DEFINE v == IF n = 0 THEN FieldValues(c, Marked[cell[c].type]) ELSE << >>
           e == Calls("mark", v)
<1>7. /\ v \in Seq(Values) /\ e \in Seq(Marks)
      /\ \A x : At(v, x) = IF n = 0 THEN At(cell[c].refs, x) ELSE 0
      /\ \A x : At(e, Call("mark", x)) = At(v, x)
  <2>1. CASE n = 0
    BY <1>2, <1>3, <1>6, <2>1, MarkCount
  <2>2. CASE n # 0
    <3>1. v = << >> /\ v \in Seq(Values)
      BY <2>2
    <3>2. \A x : At(v, x) = 0
      BY <3>1, AtEmpty
    <3> HIDE DEF v
    <3>3. e \in Seq(Marks)
      BY <3>1, CallsSeq
    <3>4. \A x : At(e, Call("mark", x)) = At(v, x)
      <4> SUFFICES ASSUME NEW x  PROVE At(e, Call("mark", x)) = At(v, x)
        OBVIOUS
      <4>1. v \in Seq(Values)
        BY <3>1
      <4>2. At(Calls("mark", v), Call("mark", x)) = At(v, x)
        BY ONLY <4>1, CallsCount
      <4> QED  BY <4>2
    <3> QED  BY <2>2, <3>1, <3>2, <3>3, <3>4
  <2> QED  BY <2>1, <2>2
<1>8. /\ Rest \in Seq(AllCalls) /\ work' = e \o Rest
  <2>1. << >> \in Seq(AllCalls)
    OBVIOUS
  <2>2. Rest \in Seq(AllCalls)
    BY <1>1, <1>2, <2>1, Pushed
  <2>3. CASE n = 0
    BY <1>0, <2>2, <2>3 DEF Mark
  <2>4. CASE n # 0
    <3>1. e = << >>
      BY <2>4 DEF Calls
    <3>2. work' = Rest
      BY <1>0, <2>4 DEF Mark
    <3> QED  BY <2>2, <3>1, <3>2, ConcatEmptySeq
  <2> QED  BY <2>2, <2>3, <2>4
<1> HIDE DEF e, v
<1>9. /\ cell' \in [Cells -> Made]
      /\ \A d \in Cells : d # c => cell'[d] = cell[d]
      /\ cell'[c].type = cell[c].type /\ cell'[c].refs = cell[c].refs
      /\ cell'[c].ref_cnt = n + 1
      /\ cell'[c].list = IF n = 0 THEN "white" ELSE cell[c].list
  <2>1. n + 1 \in Nat
    BY <1>6
  <2> DEFINE g == [cell EXCEPT ![c].ref_cnt = n + 1]
  <2>2. Counted(g, c, n + 1)
    BY <1>2, <1>3, <2>1, CountChange
  <2>3. Incremented(c) = g
    BY <1>0 DEF Incremented
  <2>4. g \in [Cells -> Made] /\ \A d \in Cells : d # c => g[d] = cell[d]
    BY <2>2 DEF Counted
  <2>5. /\ g[c].type = cell[c].type /\ g[c].refs = cell[c].refs
        /\ g[c].list = cell[c].list /\ g[c].ref_cnt = n + 1
    BY <2>2 DEF Counted
  <2> HIDE DEF g
  <2>6. CASE n = 0
    <3>1. cell' = [g EXCEPT ![c].list = "white"]
      BY <1>0, <2>3, <2>6 DEF Mark
    <3>2. [g[c] EXCEPT !.list = "white"] \in Made
      BY <1>3, <2>4 DEF Made, Objects
    <3>3. /\ cell'[c] = [g[c] EXCEPT !.list = "white"]
          /\ cell' \in [Cells -> Made] /\ \A d \in Cells : d # c => cell'[d] = g[d]
      BY <1>3, <2>4, <3>1, <3>2
    <3>4. /\ cell'[c].type = g[c].type /\ cell'[c].refs = g[c].refs
          /\ cell'[c].ref_cnt = g[c].ref_cnt /\ cell'[c].list = "white"
      BY <1>3, <2>4, <3>3 DEF Made, Objects
    <3> QED  BY <2>4, <2>5, <2>6, <3>3, <3>4
  <2>7. CASE n # 0
    <3>1. cell' = g
      BY <1>0, <2>3, <2>7 DEF Mark
    <3> QED  BY <2>4, <2>5, <2>7, <3>1
  <2> QED  BY <2>6, <2>7
<1>10. /\ e \in Seq(AllCalls) /\ \A op, x : op # "mark" => At(e, Call(op, x)) = 0
  <2>1. e \in Seq(AllCalls)
    BY <1>7, SeqMonotonic DEF AllCalls
  <2>2. \A op, x : op # "mark" => Call(op, x) \notin Marks
    BY CallIs
  <2> QED  BY <1>7, <2>1, <2>2, Absent
<1>11. \A x : /\ At(work', x) = At(e, x) + At(work, x) - One(Now = x)
              /\ At(e, x) \in Nat /\ At(work', x) \in Nat
  BY <1>1, <1>2, <1>8, <1>10, Pushed
<1>12. \A op, x : op # "mark" => At(work', Call(op, x)) = At(work, Call(op, x))
  <2> SUFFICES ASSUME NEW op, NEW x, op # "mark"
               PROVE  At(work', Call(op, x)) = At(work, Call(op, x))
    OBVIOUS
  <2>1. One(Now = Call(op, x)) = 0
    BY <1>3, CallIs DEF One
  <2>2. At(e, Call(op, x)) = 0
    BY <1>10
  <2> QED  BY <1>4, <1>11, <2>1, <2>2
<1>13. \A d \in Cells : (InUse(d)' <=> InUse(d)) /\ (cell'[d].list = "unmapped" <=> cell[d].list = "unmapped")
  BY <1>6, <1>9 DEF InUse
<1>14. HeapTypes'
  BY <1>1, <1>2, <1>9 DEF HeapTypes
<1>15. Balanced'
  <2> SUFFICES ASSUME NEW x \in Cells  PROVE Balance(x)'
    BY DEF Balanced
  <2> DEFINE S == At(slot, x)
             Y == One(x \in sym_set)
             K == One(x \in DOMAIN loaded)
             L == At(loaded, x)
             U == Cardinality(Uses(cell, x))
             m == At(work, Call("mark", x))
             r == cell[x].ref_cnt
             U1 == Cardinality(Uses(cell', x))
             m1 == At(work', Call("mark", x))
             r1 == cell'[x].ref_cnt
             F == At(cell[c].refs, x)
             o == One(x = c)
  <2>1. S \in Nat /\ L \in Nat /\ U \in Nat
    BY <1>2, Terms, Zenon
  <2>2. Y \in {0, 1} /\ K \in {0, 1} /\ o \in {0, 1}
    BY DEF One
  <2>3. F \in Nat /\ U1 = U + (IF n = 0 THEN F ELSE 0)
    <3>1. cell \in [Cells -> Objects] /\ cell' \in [Cells -> Objects]
      BY <1>2, <1>9, Terms DEF Made
    <3>2. \A d \in Cells : d # c => Alike(cell[d], cell'[d])
      BY <1>9 DEF Alike
    <3>3. U1 = U - Used(cell[c], x) + Used(cell'[c], x)
      BY ONLY <1>3, <3>1, <3>2, UsesChange
    <3>4. F \in Nat
      <4>1. IsFiniteSet(DOMAIN cell[c].refs)
        BY <1>3, <3>1, RecordFinite DEF Objects
      <4> QED  BY <4>1, AtNat
    <3>5. Used(cell[c], x) = IF n > 0 THEN F ELSE 0
      BY <1>0 DEF Used
    <3>6. Used(cell'[c], x) = F
      <4>1. cell'[c].ref_cnt > 0 /\ cell'[c].refs = cell[c].refs
        BY <1>6, <1>9
      <4> QED  BY <4>1 DEF Used
    <3> HIDE DEF U, U1, F
    <3> QED  BY <1>6, <2>1, <3>3, <3>4, <3>5, <3>6
  <2>4. r \in Nat /\ r1 = r + o
    <3>1. r \in Nat
      BY <1>2 DEF HeapTypes, Made, Objects
    <3> QED  BY <1>0, <1>9, <3>1 DEF One
  <2>5. m \in Nat /\ m1 = (IF n = 0 THEN F ELSE 0) + m - o
    <3>1. One(Now = Call("mark", x)) = o
      BY <1>3, CallIs DEF One
    <3>2. m1 = At(e, Call("mark", x)) + m - One(Now = Call("mark", x))
      BY <1>11
    <3>3. At(e, Call("mark", x)) = IF n = 0 THEN F ELSE 0
      BY <1>7
    <3> QED  BY <1>4, <3>1, <3>2, <3>3
  <2>6. r + m = S + Y + K + L + U + At(work, Call("release", x))
    BY <1>2 DEF Balanced, Balance
  <2>7. At(work, Call("release", x)) = 0 /\ At(work', Call("release", x)) = 0
    BY <1>5, <1>12
  <2>8. r1 + m1 = S + Y + K + L + U1 + 0
    <3> HIDE DEF S, Y, K, L, U, m, r, U1, m1, r1, F, o
    <3> QED  BY <2>1, <2>2, <2>3, <2>4, <2>5, <2>6, <2>7
  <2> QED  BY <1>1, <2>7, <2>8 DEF Balance
<1>16. Phased'
  <2>1. Marking'
    <3>1. InPhase(e \o Rest, Marks, Swept)
      BY <1>3, <1>7, BackSeqs, PhaseAdd
    <3> QED  BY <1>8, <3>1 DEF Marking
  <2>2. ASSUME NEW d \in Cells, cell'[d].list \in {"white", "grey"},
               NEW f \in DOMAIN cell'[d].refs, cell'[d].refs[f] # Nil
        PROVE  cell'[cell'[d].refs[f]].list \in {"white", "grey"}
    <3>1. cell'[d].refs = cell[d].refs
      BY <1>9
    <3>2. InUse(d) /\ cell[d].refs[f] # Nil /\ f \in DOMAIN cell[d].refs
      BY <1>13, <2>2, <3>1 DEF InUse
    <3>3. InUse(cell[d].refs[f])
      BY <1>3, <3>2 DEF MarksInUse
    <3>4. cell[d].refs[f] \in Cells
      <4>1. cell[d].refs \in Records
        BY <1>2 DEF HeapTypes, Made, Objects
      <4>2. cell[d].refs[f] \in Values
        BY <3>2, <4>1, RecordFinite
      <4> QED  BY <3>2, <4>2 DEF Values
    <3> QED  BY <1>13, <3>1, <3>3, <3>4 DEF InUse
  <2>3. ASSUME NEW x \in Cells, At(work', Call("mark", x)) > 0  PROVE InUse(x)'
    <3>1. CASE At(work, Call("mark", x)) > 0
      BY <1>3, <1>13, <3>1 DEF MarksInUse
    <3>2. CASE ~ (At(work, Call("mark", x)) > 0)
      <4>1. At(v, x) > 0
        <5>1. One(Now = Call("mark", x)) \in {0, 1}
          BY DEF One
        <5>2. At(work', Call("mark", x)) = At(v, x) + At(work, Call("mark", x)) - One(Now = Call("mark", x))
          BY <1>7, <1>11
        <5>3. At(v, x) \in Nat
          BY <1>7, AtSeq
        <5> QED  BY <1>4, <2>3, <3>2, <5>1, <5>2, <5>3
      <4>2. n = 0 /\ At(cell[c].refs, x) > 0
        BY <1>7, <4>1
      <4>3. PICK f \in DOMAIN cell[c].refs : cell[c].refs[f] = x
        <5>1. IsFiniteSet(DOMAIN cell[c].refs)
          BY <1>2, <1>3, RecordFinite DEF HeapTypes, Made, Objects
        <5> QED  BY <4>2, <5>1, AtNat
      <4>4. x # Nil
        BY CellsFinite
      <4>5. InUse(x)
        BY <1>3, <1>6, <4>3, <4>4 DEF MarksInUse
      <4> QED  BY <1>13, <4>5
    <3> QED  BY <3>1, <3>2
  <2>4. MarksInUse'
    BY <2>2, <2>3 DEF MarksInUse, InUse
  <2> QED  BY <1>3, <2>1, <2>4 DEF Phased
<1>17. (\A d \in Cells : Reclaimed(d))'
  <2>1. ASSUME NEW d \in Cells, d # c  PROVE Reclaimed(d)'
    BY <1>2, <1>9, <1>12, <2>1, ReclaimedKept
  <2>2. Reclaimed(c)'
    <3>1. InUse(c)' /\ cell'[c].type # "none" /\ cell'[c].ref_cnt > 0 /\ cell'[c].ref_cnt # 0
      BY <1>3, <1>6, <1>9, <1>13
    <3>2. At(work', Call("free1", c)) = 0
      BY <1>5, <1>12
    <3>3. cell'[c].list # "grey"
      BY <1>0, <1>2, <1>3, <1>9 DEF Reclaimed
    <3> QED  BY <3>1, <3>2, <3>3 DEF Reclaimed, One
  <2> QED  BY <2>1, <2>2
<1>18. (\A q \in Pages : PageCounted(q))'
  BY <1>1, <1>2, <1>13, PagesKept
<1>19. WantOK'
  BY <1>1, <1>2, <1>12, WantKept DEF AllocCall
<1>20. TablesOK'
  <2>1. DOMAIN loaded' = {}
    BY <1>1, <1>2, <1>3 DEF HeapTypes
  <2>2. ASSUME At(work', SymCall) = 0, NEW d \in sym_set' \ permanent'  PROVE cell'[d].ref_cnt > 1
    <3>1. At(work, SymCall) = 0 /\ d \in sym_set \ permanent /\ d \in Cells
      BY <1>1, <1>2, <1>12, <2>2 DEF SymCall, HeapTypes
    <3>2. cell[d].ref_cnt > 1
      BY <1>2, <3>1 DEF TablesOK
    <3>3. CASE d = c
      BY <1>0, <1>6, <1>9, <3>2, <3>3
    <3>4. CASE d # c
      BY <1>9, <3>1, <3>2, <3>4
    <3> QED  BY <3>3, <3>4
  <2> QED  BY <2>1, <2>2 DEF TablesOK
<1> QED  BY <1>14, <1>15, <1>16, <1>17, <1>18, <1>19, <1>20 DEF HeapInv

-----------------------------------------------------------------------------
(* The phases of collect() after marking.                                  *)

LEMMA InFront ==
  ASSUME Phased, NEW m \in AllCalls
  PROVE  \A x : /\ At(<<m>> \o work, x) = One(m = x) + At(work, x)
                /\ At(work, x) \in Nat
<1> DEFINE e == <<m>>
<1>1. work \in Seq(AllCalls) /\ e \in Seq(AllCalls)
  BY WorkSeq
<1>2. \A x : At(e, x) = One(m = x)
  BY AtOne
<1> HIDE DEF e
<1>3. \A x : At(e \o work, x) = At(e, x) + At(work, x)
  BY <1>1, AtConcat
<1> QED  BY <1>2, <1>3, WorkSeq DEF e

LEMMA TailsAre ==
  ASSUME NEW a, NEW b, NEW c
  PROVE  Tail(<<a>>) = << >> /\ Tail(<<a, b>>) = <<b>> /\ Tail(<<a, b, c>>) = <<b, c>>
<1> DEFINE S == {a, b, c}
<1>1. ASSUME NEW s \in Seq(S), NEW t \in Seq(S), Len(s) = Len(t) + 1,
             \A i \in 1 .. Len(t) : t[i] = s[i + 1]
      PROVE  Tail(s) = t
  <2>1. Len(t) \in Nat /\ Len(s) \in Nat /\ s # << >>
    BY <1>1
  <2>2. Tail(s) \in Seq(S) /\ Len(Tail(s)) = Len(s) - 1 /\ \A i \in 1 .. Len(Tail(s)) : Tail(s)[i] = s[i + 1]
    BY <2>1, HeadTailProperties
  <2> DEFINE u == Tail(s)
  <2> HIDE DEF u, S
  <2>3. u \in Seq(S) /\ Len(u) = Len(t) /\ \A i \in 1 .. Len(u) : u[i] = t[i]
    BY <1>1, <2>1, <2>2 DEF u
  <2>4. u = t
    BY <2>3, SeqEqual
  <2> QED  BY <2>4 DEF u
<1>2. Tail(<<a>>) = << >>
  <2> DEFINE s == <<a>>
             t == << >>
  <2>1. s \in Seq(S) /\ t \in Seq(S) /\ Len(s) = 1 /\ Len(t) = 0
    OBVIOUS
  <2>2. \A i \in 1 .. 0 : t[i] = s[i + 1]
    OBVIOUS
  <2> HIDE DEF s, t, S
  <2> QED  BY <1>1, <2>1, <2>2 DEF s, t
<1>3. Tail(<<a, b>>) = <<b>>
  <2> DEFINE s == <<a, b>>
             t == <<b>>
  <2>1. s \in Seq(S) /\ t \in Seq(S) /\ Len(s) = 2 /\ Len(t) = 1
    OBVIOUS
  <2>2. \A i \in 1 .. 1 : t[i] = s[i + 1]
    OBVIOUS
  <2> HIDE DEF s, t, S
  <2> QED  BY <1>1, <2>1, <2>2 DEF s, t
<1>4. Tail(<<a, b, c>>) = <<b, c>>
  <2> DEFINE s == <<a, b, c>>
             t == <<b, c>>
  <2>1. s \in Seq(S) /\ t \in Seq(S) /\ Len(s) = 3 /\ Len(t) = 2
    OBVIOUS
  <2>2. \A i \in 1 .. 2 : t[i] = s[i + 1]
    OBVIOUS
  <2> HIDE DEF s, t, S
  <2> QED  BY <1>1, <2>1, <2>2 DEF s, t
<1> QED  BY <1>2, <1>3, <1>4

LEMMA SweepStep ==
  ASSUME HeapInv, Sweep
  PROVE  HeapInv'
<1>1. /\ Calling("sweep") /\ work # << >>
      /\ \/ \E c \in OnList("grey") : work' = <<Call("free1", c)>> \o work
         \/ OnList("grey") = {} /\ work' = Rest
      /\ UNCHANGED <<cell, in_use_cnt, slot, sym_set, permanent, loaded, want, status>>
  BY DEF Sweep, Calling
<1>2. /\ HeapTypes /\ Balanced /\ Phased /\ WantOK /\ TablesOK
      /\ (\A x \in Cells : Reclaimed(x)) /\ \A q \in Pages : PageCounted(q)
  BY DEF HeapInv
<1>3. Collects /\ Sweeping /\ work \in Swept /\ Now = SweepCall
  BY <1>1, <1>2, Turn
<1>4. HeapTypes' /\ \A q \in Pages : PageCounted(q)'
  <2>1. HeapTypes'
    BY <1>1, <1>2 DEF HeapTypes
  <2>2. (\A q \in Pages : PageCounted(q))'
    BY <1>1, <1>2, PagesKept DEF InUse
  <2> QED  BY <2>1, <2>2
<1>5. ASSUME NEW c \in OnList("grey"), work' = <<Call("free1", c)>> \o work
      PROVE  HeapInv'
  <2> DEFINE m == Call("free1", c)
  <2>1. c \in Cells /\ cell[c].list = "grey" /\ m \in Frees /\ m \in AllCalls
    BY <1>5, CallIs DEF OnList, AllCalls
  <2>2. \A x : At(work', x) = One(m = x) + At(work, x) /\ At(work, x) \in Nat
    BY <1>2, <1>5, <2>1, InFront
  <2>3. \A x : x # m => At(work', x) = At(work, x)
    <3> SUFFICES ASSUME NEW x, x # m  PROVE At(work', x) = At(work, x)
      OBVIOUS
    <3>1. One(m = x) = 0
      BY DEF One
    <3> QED  BY <2>2, <3>1
  <2>4. \A op, x : Call(op, x) # m <=> op # "free1" \/ x # c
    BY CallIs
  <2> HIDE DEF m
  <2>5. Balanced'
    BY <1>1, <1>2, <2>3, <2>4 DEF Balanced, Balance, Uses
  <2>6. Phased'
    <3> DEFINE e == <<m>>
    <3>1. e \in Seq(Frees)
      BY <2>1
    <3> HIDE DEF e
    <3>2. InPhase(e \o work, Frees, Swept)
      BY <1>3, <3>1, BackSeqs, PhaseAdd DEF Sweeping
    <3>3. Sweeping'
      BY <1>5, <3>2 DEF Sweeping, e, m
    <3> QED  BY <1>3, <3>3 DEF Phased
  <2>7. (\A d \in Cells : Reclaimed(d))'
    <3>1. ASSUME NEW d \in Cells, d # c  PROVE Reclaimed(d)'
      BY <1>1, <1>2, <2>3, <2>4, <3>1, ReclaimedKept
    <3>2. Reclaimed(c)'
      <4>1. At(work, Call("free1", c)) = 0
        <5>1. Call("free1", c) \notin LastCalls
          BY CallIs
        <5>2. work \in Seq(LastCalls)
          BY <1>3, BackSeqs
        <5> QED  BY <5>1, <5>2, Absent
      <4>2. At(work', Call("free1", c)) = 1
        BY <2>2, <4>1 DEF One, m
      <4>3. InUse(c) /\ cell[c].ref_cnt = 0 /\ cell[c].type # "none"
        BY <1>2, <2>1 DEF Reclaimed, InUse
      <4>4. InUse(c)' /\ cell'[c].ref_cnt = 0 /\ cell'[c].type # "none"
        BY <1>1, <4>3 DEF InUse
      <4> QED  BY <4>2, <4>4 DEF Reclaimed, One
    <3> QED  BY <3>1, <3>2
  <2>8. WantOK'
    BY <1>1, <1>2, <2>3, <2>4, WantKept DEF AllocCall
  <2>9. TablesOK'
    <3>1. At(work', SymCall) = At(work, SymCall)
      BY <2>3, <2>4 DEF SymCall
    <3> QED  BY <1>1, <1>2, <3>1 DEF TablesOK
  <2> QED  BY <1>4, <2>5, <2>6, <2>7, <2>8, <2>9 DEF HeapInv
<1>6. CASE OnList("grey") = {} /\ work' = Rest
  <2>1. \A x : At(work', x) = At(work, x) - One(Now = x) /\ At(work, x) \in Nat
    <3>1. << >> \in Seq(AllCalls)
      OBVIOUS
    <3> QED  BY <1>1, <1>2, <1>6, <3>1, Pushed, WorkSeq
  <2>2. \A x : x # SweepCall => At(work', x) = At(work, x)
    <3> SUFFICES ASSUME NEW x, x # SweepCall  PROVE At(work', x) = At(work, x)
      OBVIOUS
    <3>1. One(Now = x) = 0
      BY <1>3 DEF One
    <3> QED  BY <2>1, <3>1
  <2>3. /\ \A op, x : op # "sweep" => Call(op, x) # SweepCall
        /\ SymCall # SweepCall /\ AllocCall # SweepCall
    BY CallIs DEF SweepCall, SymCall, AllocCall
  <2>4. Balanced'
    BY <1>1, <1>2, <2>2, <2>3 DEF Balanced, Balance, Uses
  <2>5. Phased'
    <3>1. Rest \in Ends
      <4>1. CASE work = <<SweepCall, SymCall>>
        BY <4>1, TailsAre DEF Ends, Rest
      <4>2. CASE work = <<SweepCall, SymCall, AllocCall>>
        BY <4>2, TailsAre DEF Ends, Rest
      <4> QED  BY <1>3, <4>1, <4>2 DEF Swept
    <3>2. Releasing'
      BY <1>6, <3>1, BackSeqs, PhaseEnd DEF Releasing
    <3>3. OnList("grey")' = {}
      BY <1>1, <1>6 DEF OnList
    <3> QED  BY <3>2, <3>3 DEF Phased
  <2>6. (\A d \in Cells : Reclaimed(d))'
    <3>1. ASSUME NEW d \in Cells  PROVE Reclaimed(d)'
      BY <1>1, <1>2, <2>2, <2>3, ReclaimedKept
    <3> QED  BY <3>1
  <2>7. WantOK'
    BY <1>1, <1>2, <2>2, <2>3, WantKept
  <2>8. TablesOK'
    BY <1>1, <1>2, <2>2, <2>3 DEF TablesOK
  <2> QED  BY <1>4, <2>4, <2>5, <2>6, <2>7, <2>8 DEF HeapInv
<1> QED  BY <1>1, <1>5, <1>6

LEMMA SymStep ==
  ASSUME HeapInv, SymCollect
  PROVE  HeapInv'
<1> DEFINE lone == {c \in sym_set \ permanent : cell[c].ref_cnt = 1}
<1>1. /\ Calling("sym_collect") /\ work # << >>
      /\ \/ \E c \in lone : sym_set' = sym_set \ {c} /\ work' = <<Call("release", c)>> \o work
         \/ lone = {} /\ work' = Rest /\ UNCHANGED sym_set
      /\ UNCHANGED <<cell, in_use_cnt, slot, permanent, loaded, want, status>>
  BY DEF SymCollect, Calling
<1>2. /\ HeapTypes /\ Balanced /\ Phased /\ WantOK /\ TablesOK
      /\ (\A x \in Cells : Reclaimed(x)) /\ \A q \in Pages : PageCounted(q)
  BY DEF HeapInv
<1>3. /\ Releasing /\ OnList("grey") = {} /\ Now = SymCall
      /\ work \in {<<SymCall>>, <<SymCall, AllocCall>>}
  BY <1>1, <1>2, Turn
<1>4. (\A q \in Pages : PageCounted(q))' /\ OnList("grey")' = {}
  <2>1. (\A q \in Pages : PageCounted(q))'
    BY <1>1, <1>2, PagesKept DEF InUse
  <2> QED  BY <1>1, <1>3, <2>1 DEF OnList
<1>5. ASSUME NEW c \in lone, sym_set' = sym_set \ {c}, work' = <<Call("release", c)>> \o work
      PROVE  HeapInv'
  <2> DEFINE m == Call("release", c)
  <2>1. /\ c \in Cells /\ c \in sym_set \ permanent
        /\ m \in Releases \cup Frees /\ m \in AllCalls
    BY <1>2, <1>5, CallIs DEF HeapTypes, AllCalls, Values
  <2>2. \A x : At(work', x) = One(m = x) + At(work, x) /\ At(work, x) \in Nat
    BY <1>2, <1>5, <2>1, InFront
  <2>3. \A x : x # m => At(work', x) = At(work, x)
    <3> SUFFICES ASSUME NEW x, x # m  PROVE At(work', x) = At(work, x)
      OBVIOUS
    <3>1. One(m = x) = 0
      BY DEF One
    <3> QED  BY <2>2, <3>1
  <2>4. \A op, x : Call(op, x) # m <=> op # "release" \/ x # c
    BY CallIs
  <2> HIDE DEF m
  <2>5. Balanced'
    <3> SUFFICES ASSUME NEW x \in Cells  PROVE Balance(x)'
      BY DEF Balanced
    <3>1. Balance(x) /\ At(work', Call("mark", x)) = At(work, Call("mark", x))
      BY <1>2, <2>3, <2>4 DEF Balanced
    <3>2. CASE x # c
      <4>1. At(work', Call("release", x)) = At(work, Call("release", x))
        BY <2>3, <2>4, <3>2
      <4>2. One(x \in sym_set') = One(x \in sym_set)
        BY <1>5, <3>2 DEF One
      <4> QED  BY <1>1, <3>1, <4>1, <4>2 DEF Balance, Uses
    <3>3. CASE x = c
      <4> DEFINE S == At(slot, x)
                 K == One(x \in DOMAIN loaded)
                 L == At(loaded, x)
                 U == Cardinality(Uses(cell, x))
                 R == At(work, Call("release", x))
                 R1 == At(work', Call("release", x))
                 r == cell[x].ref_cnt
                 a == At(work, Call("mark", x))
      <4>1. One(x \in sym_set') = 0 /\ One(x \in sym_set) = 1
        BY <1>5, <2>1, <3>3 DEF One
      <4>2. R1 = 1 + R /\ R \in Nat
        BY <2>2, <3>3 DEF One, m
      <4>3. S \in Nat /\ L \in Nat /\ U \in Nat
        BY <1>2, Terms, Zenon
      <4>4. K \in {0, 1}
        BY DEF One
      <4>5. r + a = S + 1 + K + L + U + R
        BY <3>1, <4>1 DEF Balance
      <4>6. r + a = S + 0 + K + L + U + R1
        <5>1. r + a = S + 1 + K + L + U + R
          BY <4>5
        <5> HIDE DEF S, K, L, U, R, R1, r, a
        <5> QED  BY <4>2, <4>3, <4>4, <5>1
      <4> QED  BY <1>1, <3>1, <4>1, <4>6 DEF Balance, Uses
    <3> QED  BY <3>2, <3>3
  <2>6. Phased'
    <3> DEFINE e == <<m>>
    <3>1. e \in Seq(Releases \cup Frees)
      BY <2>1
    <3> HIDE DEF e
    <3>2. InPhase(e \o work, Releases \cup Frees, Ends)
      BY <1>3, <3>1, BackSeqs, PhaseAdd DEF Releasing
    <3>3. Releasing'
      BY <1>5, <3>2 DEF Releasing, e, m
    <3> QED  BY <1>4, <3>3 DEF Phased
  <2>7. (\A d \in Cells : Reclaimed(d))'
    <3>1. ASSUME NEW d \in Cells  PROVE Reclaimed(d)'
      BY <1>1, <1>2, <2>3, <2>4, ReclaimedKept
    <3> QED  BY <3>1
  <2>8. WantOK'
    BY <1>1, <1>2, <2>3, <2>4, WantKept DEF AllocCall
  <2>9. TablesOK'
    <3>1. At(work, SymCall) > 0
      <4>1. work \in Seq(AllCalls) /\ work[1] = SymCall /\ 1 \in 1 .. Len(work)
        BY <1>2, <1>3, WorkSeq
      <4> QED  BY <4>1, AtSeq
    <3>2. At(work', SymCall) # 0
      <4>1. SymCall # m
        BY <2>4 DEF SymCall
      <4>2. At(work', SymCall) = At(work, SymCall)
        BY <2>3, <4>1
      <4> QED  BY <2>2, <3>1, <4>2
    <3> QED  BY <1>1, <1>2, <3>2 DEF TablesOK
  <2>10. HeapTypes'
    BY <1>1, <1>2, <1>5, <2>1 DEF HeapTypes
  <2> QED  BY <1>4, <2>5, <2>6, <2>7, <2>8, <2>9, <2>10 DEF HeapInv
<1>6. CASE lone = {} /\ work' = Rest /\ UNCHANGED sym_set
  <2>1. \A x : At(work', x) = At(work, x) - One(Now = x) /\ At(work, x) \in Nat
    <3>1. << >> \in Seq(AllCalls)
      OBVIOUS
    <3> QED  BY <1>1, <1>2, <1>6, <3>1, Pushed, WorkSeq
  <2>2. \A x : x # SymCall => At(work', x) = At(work, x)
    <3> SUFFICES ASSUME NEW x, x # SymCall  PROVE At(work', x) = At(work, x)
      OBVIOUS
    <3>1. One(Now = x) = 0
      BY <1>3 DEF One
    <3> QED  BY <2>1, <3>1
  <2>3. (\A op, x : op # "sym_collect" => Call(op, x) # SymCall) /\ AllocCall # SymCall
    BY CallIs DEF SymCall, AllocCall
  <2>4. Balanced'
    BY <1>1, <1>2, <1>6, <2>2, <2>3 DEF Balanced, Balance, Uses
  <2>5. Phased'
    <3>1. Rest \in Ends
      BY <1>3, TailsAre DEF Ends, Rest
    <3>2. Releasing'
      BY <1>6, <3>1, BackSeqs, PhaseEnd DEF Releasing
    <3> QED  BY <1>4, <3>2 DEF Phased
  <2>6. (\A d \in Cells : Reclaimed(d))'
    <3>1. ASSUME NEW d \in Cells  PROVE Reclaimed(d)'
      BY <1>1, <1>2, <2>2, <2>3, ReclaimedKept
    <3> QED  BY <3>1
  <2>7. WantOK'
    BY <1>1, <1>2, <2>2, <2>3, WantKept
  <2>8. TablesOK'
    <3>1. ASSUME NEW c \in sym_set \ permanent  PROVE cell[c].ref_cnt > 1
      <4>1. c \in Cells /\ Referred(c)
        BY <1>2 DEF HeapTypes, Referred
      <4>2. At(work, Call("mark", c)) = 0
        BY <1>2, <1>3, WorkSeq
      <4>3. cell[c].ref_cnt > 0
        BY <1>2, <4>1, <4>2, Live DEF Balanced
      <4>4. cell[c].ref_cnt # 1 /\ cell[c].ref_cnt \in Nat
        BY <1>2, <1>6, <4>1 DEF HeapTypes, Made, Objects
      <4> QED  BY <4>3, <4>4
    <3> QED  BY <1>1, <1>2, <1>6, <3>1 DEF TablesOK
  <2>9. HeapTypes'
    BY <1>1, <1>2, <1>6 DEF HeapTypes
  <2> QED  BY <1>4, <2>4, <2>5, <2>6, <2>7, <2>8, <2>9 DEF HeapInv
<1> QED  BY <1>1, <1>5, <1>6

-----------------------------------------------------------------------------
(* The program: nothing is pending but, at most, an allocation.            *)

LEMMA Settled ==
  ASSUME HeapInv, work \in {<< >>, <<AllocCall>>}
  PROVE  /\ Releasing /\ OnList("grey") = {}
         /\ \A op, x : op # "alloc" => At(work, Call(op, x)) = 0
         /\ At(work, SymCall) = 0
         /\ \A x \in Cells : /\ Referred(x) => cell[x].ref_cnt > 0
                             /\ InUse(x) <=> cell[x].ref_cnt > 0
                             /\ cell[x].ref_cnt \in Nat
<1>1. /\ HeapTypes /\ Balanced /\ Phased /\ \A x \in Cells : Reclaimed(x)
  BY DEF HeapInv
<1>2. work \notin Swept /\ \A S : InPhase(work, S, Swept) => S \cap LastCalls # {}
  <2>1. work \notin Swept
    <3>1. \A b \in Swept : Len(b) \in {2, 3}
      BY DEF Swept
    <3>2. Len(work) \in {0, 1}
      OBVIOUS
    <3> QED  BY <3>1, <3>2
  <2>2. ASSUME NEW S, InPhase(work, S, Swept), S \cap LastCalls = {}  PROVE FALSE
    <3>1. CASE work = << >>
      <4>1. PICK f \in Seq(S), b \in Swept : work = f \o b
        BY <2>2 DEF InPhase
      <4>2. f \in Seq(S \cup LastCalls) /\ b \in Seq(S \cup LastCalls)
        BY BackSeqs, SeqMonotonic
      <4>3. b = << >>
        BY <3>1, <4>1, <4>2, ConcatEqualIffEmpty
      <4> QED  BY <4>1, <4>3 DEF Swept
    <3>2. CASE work = <<AllocCall>>
      <4>1. Head(work) = AllocCall /\ work # << >> /\ AllocCall \in LastCalls
        BY <3>2 DEF LastCalls
      <4>2. Head(work) \notin S
        BY <2>2, <4>1
      <4> QED  BY <2>1, <2>2, <4>1, <4>2, BackSeqs, PhaseBack
    <3> QED  BY <3>1, <3>2
  <2> QED  BY <2>1, <2>2
<1>3. Releasing /\ OnList("grey") = {}
  <2>1. Marks \cap LastCalls = {} /\ Frees \cap LastCalls = {}
    BY CallIs
  <2> QED  BY <1>1, <1>2, <2>1 DEF Phased, Marking, Sweeping
<1>4. \A x : x # AllocCall => At(work, x) = 0
  <2>1. CASE work = << >>
    BY <2>1, AtEmpty
  <2>2. CASE work = <<AllocCall>>
    <3> SUFFICES ASSUME NEW x, x # AllocCall  PROVE At(work, x) = 0
      OBVIOUS
    <3>1. At(work, x) = One(AllocCall = x)
      BY <2>2, AtOne
    <3> QED  BY <3>1 DEF One
  <2> QED  BY <2>1, <2>2
<1>5. (\A op, x : op # "alloc" => At(work, Call(op, x)) = 0) /\ At(work, SymCall) = 0
  <2>1. (\A op, x : op # "alloc" => Call(op, x) # AllocCall) /\ SymCall # AllocCall
    BY CallIs DEF SymCall, AllocCall
  <2> QED  BY <1>4, <2>1
<1>6. ASSUME NEW x \in Cells
      PROVE  /\ Referred(x) => cell[x].ref_cnt > 0
             /\ InUse(x) <=> cell[x].ref_cnt > 0
             /\ cell[x].ref_cnt \in Nat
  <2>1. cell[x].ref_cnt \in Nat
    BY <1>1 DEF HeapTypes, Made, Objects
  <2>2. Referred(x) => cell[x].ref_cnt > 0
    BY <1>1, <1>5, Live DEF Balanced
  <2>3. InUse(x) /\ cell[x].ref_cnt = 0 => FALSE
    <3>1. cell[x].list # "grey"
      BY <1>3 DEF OnList
    <3>2. At(work, Call("free1", x)) = 0
      BY <1>5
    <3> QED  BY <1>1, <3>1, <3>2 DEF Reclaimed
  <2>4. cell[x].ref_cnt > 0 => InUse(x)
    BY <1>1 DEF Reclaimed
  <2>5. cell[x].ref_cnt = 0 \/ cell[x].ref_cnt > 0
    BY <2>1
  <2> QED  BY <2>1, <2>2, <2>3, <2>4, <2>5
<1> QED  BY <1>3, <1>5, <1>6

\* The release of the value that was overwritten is all that is pending.
LEMMA Overwritten ==
  ASSUME NEW v \in Values, work' = Calls("release", <<v>>)
  PROVE  /\ Releasing'
         /\ \A x : At(work', Call("release", x)) = One(v = x)
         /\ \A op, x : op # "release" => At(work', Call(op, x)) = 0
<1> DEFINE s == <<v>>
           e == Calls("release", s)
<1>1. s \in Seq(Values) /\ \A x : At(s, x) = One(v = x)
  BY AtOne
<1>2. work' = e
  OBVIOUS
<1> HIDE DEF s
<1>3. e \in Seq(Releases)
  BY <1>1, CallsSeq
<1>4. \A op, x : At(e, Call(op, x)) = IF op = "release" THEN At(s, x) ELSE 0
  BY <1>1, CallsCount
<1> HIDE DEF e
<1>5. e \in Seq(Releases \cup Frees) /\ << >> \in Ends /\ e = e \o << >>
  BY <1>3, SeqMonotonic, ConcatEmptySeq DEF Ends
<1>6. Releasing'
  BY <1>2, <1>5 DEF Releasing, InPhase
<1> QED  BY <1>1, <1>2, <1>4, <1>6

\* The fields of a new object.
LEMMA WantedFields ==
  ASSUME HeapTypes, NEW w, Wanted(w)
  PROVE  /\ w.type \in AllTypes /\ w.type # "none" /\ w.refs \in Records
         /\ w.dst \in Slots /\ IsFiniteSet(DOMAIN w.refs)
         /\ \A l \in {"white"}, n \in Nat :
               [type |-> w.type, refs |-> w.refs, list |-> l, ref_cnt |-> n] \in Made
         /\ \A x : /\ At(w.refs, x) \in Nat
                   /\ x \in Cells /\ At(w.refs, x) > 0 => \E s \in Slots : slot[s] = x
<1>1. w.type \in AllTypes /\ w.type # "none"
  <2>1. "none" \notin AllTypes
    BY DEF AllTypes, Retained
  <2> QED  BY <2>1, HeapAssumption DEF Wanted
<1>2. w.refs \in [FieldsOf(w.type) -> Values] /\ DOMAIN w.refs = FieldsOf(w.type)
  <2>1. {Nil} \cup {slot[s] : s \in Slots} \subseteq Values
    BY DEF HeapTypes, Values
  <2> QED  BY <2>1 DEF Wanted
<1>3. w.refs \in Records
  <2>1. FieldsOf(w.type) \in SUBSET Names
    BY <1>1, Tables
  <2> QED  BY <1>2, <2>1 DEF Records
<1>4. IsFiniteSet(DOMAIN w.refs)
  BY <1>3, RecordFinite
<1>5. w.type \in ModuleTypes => w.refs["sha1"] \in Cells
  <2>1. w.type \in ModuleTypes => "sha1" \in FieldsOf(w.type)
    BY <1>1, Tables
  <2> QED  BY <1>2, <2>1 DEF Wanted, Values
<1>6. ASSUME NEW n \in Nat
      PROVE  [type |-> w.type, refs |-> w.refs, list |-> "white", ref_cnt |-> n] \in Made
  <2> DEFINE o == [type |-> w.type, refs |-> w.refs, list |-> "white", ref_cnt |-> n]
  <2>1. o.type = w.type /\ o.refs = w.refs /\ o \in Objects
    BY <1>1, <1>3 DEF Objects
  <2>2. w.type \in Types /\ DOMAIN o.refs = Fields(w.type)
    BY <1>1, <1>2, <2>1 DEF Wanted, Fields
  <2> HIDE DEF o
  <2>3. o \in Made
    BY <1>5, <2>1, <2>2 DEF Made
  <2> QED  BY <2>3 DEF o
<1>7. ASSUME NEW x
      PROVE  /\ At(w.refs, x) \in Nat
             /\ x \in Cells /\ At(w.refs, x) > 0 => \E s \in Slots : slot[s] = x
  <2>1. At(w.refs, x) \in Nat /\ (At(w.refs, x) > 0 => \E f \in DOMAIN w.refs : w.refs[f] = x)
    BY <1>4, AtNat
  <2>2. x \in Cells => x # Nil
    BY CellsFinite
  <2>3. \A f \in DOMAIN w.refs : w.refs[f] = Nil \/ \E s \in Slots : slot[s] = w.refs[f]
    BY DEF Wanted
  <2> QED  BY <2>1, <2>2, <2>3
<1> QED  BY <1>1, <1>3, <1>4, <1>6, <1>7 DEF Wanted

\* The cell c holds an object with the fields r, and its page is mapped.
Built(c, r) ==
    /\ cell'[c].refs = r
    /\ \A d \in Cells :
          /\ InUse(d)' <=> InUse(d) \/ d = c
          /\ d # c => \/ cell'[d].refs = cell[d].refs
                      \/ ~ InUse(d) /\ cell'[d].refs = NoFields

\* A constructor, with a cell that nothing refers to.
LEMMA BuildStep ==
  ASSUME HeapInv, work \in {<< >>, <<AllocCall>>}, NEW w, Wanted(w),
         NEW c \in Cells, ~ InUse(c), Build(w, c)
  PROVE  HeapInv' /\ Built(c, w.refs)
<1>0. PICK o, z, p : o = cell'[c] /\ z = slot[w.dst] /\ p = PageOf(c)
  OBVIOUS
<1>1. /\ HeapTypes /\ Balanced /\ Phased /\ TablesOK
      /\ (\A x \in Cells : Reclaimed(x)) /\ \A q \in Pages : PageCounted(q)
  BY DEF HeapInv
<1>2. /\ w.type \in AllTypes /\ w.type # "none" /\ w.refs \in Records
      /\ w.dst \in Slots /\ IsFiniteSet(DOMAIN w.refs)
      /\ \A n \in Nat : [type |-> w.type, refs |-> w.refs, list |-> "white", ref_cnt |-> n] \in Made
      /\ \A x : /\ At(w.refs, x) \in Nat
                /\ x \in Cells /\ At(w.refs, x) > 0 => \E s \in Slots : slot[s] = x
  BY <1>1, WantedFields
<1>3. /\ OnList("grey") = {} /\ At(work, SymCall) = 0
      /\ \A op, x : op # "alloc" => At(work, Call(op, x)) = 0
      /\ \A x \in Cells : /\ Referred(x) => cell[x].ref_cnt > 0
                          /\ InUse(x) <=> cell[x].ref_cnt > 0
                          /\ cell[x].ref_cnt \in Nat
  BY Settled
<1>4. cell[c].ref_cnt = 0 /\ \A x \in Cells : At(w.refs, x) > 0 => cell[x].ref_cnt > 0
  <2>1. \A x \in Cells : At(w.refs, x) > 0 => Referred(x)
    BY <1>2 DEF Referred
  <2> QED  BY <1>3, <2>1
<1> DEFINE tabled == {c} \cap {d \in Cells : w.type = "sym"}
<1>5. /\ tabled = (IF w.type = "sym" THEN {c} ELSE {})
      /\ Cardinality(tabled) = One(w.type = "sym")
  <2>1. tabled = (IF w.type = "sym" THEN {c} ELSE {})
    OBVIOUS
  <2> QED  BY <2>1, FS_Singleton, FS_EmptySet DEF One
<1>6. /\ cell' = [d \in Cells |->
             IF d = c
             THEN [type |-> w.type, refs |-> w.refs, list |-> "white",
                   ref_cnt |-> 1 + One(w.type = "sym")]
             ELSE [WithPage(c)[d] EXCEPT !.ref_cnt = @ + At(w.refs, d)]]
      /\ in_use_cnt' = [in_use_cnt EXCEPT ![p] = @ + 1]
      /\ slot' = [slot EXCEPT ![w.dst] = c]
      /\ sym_set' = sym_set \cup tabled
      /\ work' = Calls("release", <<z>>)
      /\ UNCHANGED <<permanent, loaded, status>>
  <2>1. \A d : Retains(d, w.refs) = At(w.refs, d)
    BY DEF Retains, At
  <2> HIDE DEF tabled
  <2> QED  BY <1>0, <1>5, <2>1 DEF Build, tabled
<1>7. /\ o \in Made /\ o.type = w.type /\ o.refs = w.refs /\ o.list = "white"
      /\ o.ref_cnt = 1 + One(w.type = "sym") /\ One(w.type = "sym") \in {0, 1}
  <2>1. One(w.type = "sym") \in {0, 1}
    BY DEF One
  <2>2. 1 + One(w.type = "sym") \in Nat
    BY <2>1
  <2>3. o = [type |-> w.type, refs |-> w.refs, list |-> "white",
             ref_cnt |-> 1 + One(w.type = "sym")]
    BY <1>0, <1>6
  <2> QED  BY <1>2, <2>1, <2>2, <2>3
\* The other cells: those of the page join the free list.
<1>8. ASSUME NEW d \in Cells, d # c
      PROVE  /\ cell'[d] \in Made
             /\ cell'[d].ref_cnt = cell[d].ref_cnt + At(w.refs, d)
             /\ cell[d].ref_cnt > 0 <=> cell'[d].ref_cnt > 0
             /\ cell[d].ref_cnt > 0 => /\ cell'[d].refs = cell[d].refs
                                       /\ cell'[d].type = cell[d].type
                                       /\ cell'[d].list = cell[d].list
             /\ cell[d].ref_cnt = 0 => cell'[d].list \in {"free", "unmapped"}
             /\ cell'[d].list = "unmapped" <=> cell[d].list = "unmapped" /\ PageOf(d) # p
  <2>1. cell'[d] = [WithPage(c)[d] EXCEPT !.ref_cnt = @ + At(w.refs, d)]
    BY <1>6, <1>8
  <2>2. cell[d] \in Made /\ At(w.refs, d) \in Nat
    BY <1>1, <1>2 DEF HeapTypes
  <2>3. At(w.refs, d) > 0 => cell[d].ref_cnt > 0
    BY <1>4
  <2>4. InUse(d) <=> cell[d].ref_cnt > 0
    BY <1>3
  <2>5. CASE PageOf(d) = p /\ cell[d].list = "unmapped"
    <3>1. WithPage(c)[d] = FreeCell
      BY <1>0, <2>5 DEF WithPage
    <3>2. cell[d].ref_cnt = 0
      BY <2>2, <2>4, <2>5 DEF InUse, Made, Objects
    <3>3. At(w.refs, d) = 0
      BY <2>2, <2>3, <3>2
    <3>4. cell'[d] = FreeCell
      BY <2>1, <3>1, <3>3 DEF FreeCell
    <3> QED  BY <2>5, <3>2, <3>3, <3>4, Blank
  <2>6. CASE ~ (PageOf(d) = p /\ cell[d].list = "unmapped")
    <3>1. WithPage(c)[d] = cell[d]
      BY <1>0, <2>6 DEF WithPage
    <3>2. cell'[d] = [cell[d] EXCEPT !.ref_cnt = @ + At(w.refs, d)]
      BY <2>1, <3>1
    <3>3. cell'[d] \in Made /\ cell'[d].ref_cnt = cell[d].ref_cnt + At(w.refs, d)
          /\ cell'[d].refs = cell[d].refs /\ cell'[d].type = cell[d].type
          /\ cell'[d].list = cell[d].list
      BY <2>2, <3>2 DEF Made, Objects
    <3>4. cell[d].list \in {"unmapped", "free", "white", "grey"} /\ cell[d].ref_cnt \in Nat
      BY <2>2 DEF Made, Objects
    <3> QED  BY <2>2, <2>3, <2>4, <2>6, <3>3, <3>4 DEF InUse
  <2> QED  BY <2>5, <2>6
<1>9. cell' \in [Cells -> Made]
  <2>1. DOMAIN cell' = Cells /\ cell' = [d \in Cells |-> cell'[d]]
    BY <1>6
  <2>2. \A d \in Cells : cell'[d] \in Made
    BY <1>0, <1>7, <1>8
  <2> QED  BY <2>1, <2>2
<1>10. z \in Values /\ p \in Pages /\ c \in p /\ (\A q \in Pages : c \in q <=> q = p)
       /\ p \subseteq Cells /\ IsFiniteSet(p)
  BY <1>0, <1>1, <1>2, PagesApart DEF HeapTypes
<1>11. /\ Releasing'
       /\ \A x : At(work', Call("release", x)) = One(z = x)
       /\ \A op, x : op # "release" => At(work', Call(op, x)) = 0
  BY <1>6, <1>10, Overwritten
<1>12. \A d \in Cells : Referred(d) => d # c /\ cell[d].ref_cnt > 0
  BY <1>3, <1>4
<1>13. HeapTypes'
  <2>1. in_use_cnt' \in [Pages -> Nat]
    BY <1>1, <1>6, <1>10 DEF HeapTypes
  <2>2. slot' \in [Slots -> Values]
    BY <1>1, <1>2, <1>6 DEF HeapTypes, Values
  <2>3. \A d \in sym_set : d \in Cells /\ Referred(d)
    BY <1>1 DEF HeapTypes, Referred
  <2>4. \A d \in sym_set : cell'[d].type = "sym"
    BY <1>1, <1>8, <1>12, <2>3 DEF HeapTypes
  <2>5. \A d \in sym_set' : d \in Cells /\ cell'[d].type = "sym"
    BY <1>0, <1>5, <1>6, <1>7, <2>3, <2>4
  <2>6. permanent' \subseteq sym_set' /\ sym_set' \subseteq Cells
    BY <1>1, <1>6, <2>5 DEF HeapTypes
  <2> HIDE DEF tabled
  <2> QED  BY <1>1, <1>6, <1>9, <2>1, <2>2, <2>5, <2>6 DEF HeapTypes
<1>14. ASSUME NEW x \in Cells
       PROVE  /\ At(slot', x) = At(slot, x) - One(z = x) + One(c = x)
              /\ Cardinality(Uses(cell', x)) = Cardinality(Uses(cell, x)) + At(w.refs, x)
              /\ cell[x].ref_cnt = At(slot, x) + One(x \in sym_set) + One(x \in DOMAIN loaded)
                    + At(loaded, x) + Cardinality(Uses(cell, x))
  <2>1. At(slot', x) = At(slot, x) - One(z = x) + One(c = x)
    <3>1. DOMAIN slot = Slots /\ IsFiniteSet(Slots)
      BY <1>1, Terms, Zenon
    <3>2. DOMAIN slot' = DOMAIN slot /\ slot'[w.dst] = c /\ \A s \in Slots : s # w.dst => slot'[s] = slot[s]
      BY <1>2, <1>6, <3>1
    <3>3. At(slot', x) = At(slot, x) - One(slot[w.dst] = x) + One(slot'[w.dst] = x)
      BY ONLY <1>2, <3>1, <3>2, AtChange
    <3> QED  BY <1>0, <3>2, <3>3
  <2>2. Cardinality(Uses(cell', x)) = Cardinality(Uses(cell, x)) + At(w.refs, x)
    <3>1. cell \in [Cells -> Objects] /\ cell' \in [Cells -> Objects]
      BY <1>1, <1>9 DEF HeapTypes, Made
    <3>2. \A d \in Cells : d # c => Alike(cell[d], cell'[d])
      BY <1>8 DEF Alike
    <3>3. /\ Cardinality(Uses(cell, x)) \in Nat
          /\ Cardinality(Uses(cell', x)) = Cardinality(Uses(cell, x)) - Used(cell[c], x) + Used(cell'[c], x)
      BY <3>1, <3>2, UsesChange
    <3>4. Used(cell[c], x) = 0
      BY <1>4 DEF Used
    <3>5. Used(cell'[c], x) = At(w.refs, x)
      BY <1>0, <1>7 DEF Used
    <3> QED  BY <1>2, <3>3, <3>4, <3>5
  <2>3. At(work, Call("mark", x)) = 0 /\ At(work, Call("release", x)) = 0
    BY <1>3
  <2>4. cell[x].ref_cnt + 0 = At(slot, x) + One(x \in sym_set) + One(x \in DOMAIN loaded)
                    + At(loaded, x) + Cardinality(Uses(cell, x)) + 0
    BY <1>1, <2>3 DEF Balanced, Balance
  <2>5. /\ At(slot, x) \in Nat /\ At(loaded, x) \in Nat /\ Cardinality(Uses(cell, x)) \in Nat
        /\ One(x \in sym_set) \in {0, 1} /\ One(x \in DOMAIN loaded) \in {0, 1}
    BY <1>1, Terms, Zenon
  <2>6. cell[x].ref_cnt \in Nat
    BY <1>3
  <2>7. cell[x].ref_cnt = At(slot, x) + One(x \in sym_set) + One(x \in DOMAIN loaded)
                    + At(loaded, x) + Cardinality(Uses(cell, x))
    BY ONLY <2>4, <2>5, <2>6
  <2> QED  BY <2>1, <2>2, <2>7
<1>15. Balanced'
  <2> SUFFICES ASSUME NEW x \in Cells  PROVE Balance(x)'
    BY DEF Balanced
  <2> DEFINE r == cell[x].ref_cnt
             A == At(w.refs, x)
             S == At(slot, x)
             Y == One(x \in sym_set)
             K == One(x \in DOMAIN loaded)
             L == At(loaded, x)
             U == Cardinality(Uses(cell, x))
             R1 == One(z = x)
             I == One(c = x)
             Y1 == One(x \in sym_set')
             T == One(w.type = "sym")
  <2>1. /\ S \in Nat /\ L \in Nat /\ U \in Nat /\ Y \in {0, 1} /\ K \in {0, 1}
    BY <1>1, Terms, Zenon
  <2>2. A \in Nat /\ r \in Nat /\ T \in {0, 1}
    BY <1>2, <1>3, <1>7
  <2>3. r = S + Y + K + L + U
    BY <1>14
  <2>4. At(slot', x) = S - R1 + I /\ Cardinality(Uses(cell', x)) = U + A
    BY <1>14
  <2>5. At(work', Call("release", x)) = R1 /\ At(work', Call("mark", x)) = 0
    BY <1>11
  <2>6. R1 \in {0, 1}
    BY DEF One
  <2>7. CASE x # c
    <3>1. I = 0 /\ Y1 = Y
      BY <1>5, <1>6, <2>7 DEF One
    <3>2. cell'[x].ref_cnt = r + A
      BY <1>8, <2>7
    <3>3. r + A + 0 = (S - R1 + I) + Y1 + K + L + (U + A) + R1
      <4> HIDE DEF r, A, S, Y, K, L, U, R1, I, Y1, T
      <4> QED  BY ONLY <2>1, <2>2, <2>3, <2>6, <3>1
    <3> QED  BY <1>6, <2>4, <2>5, <3>2, <3>3 DEF Balance
  <2>8. CASE x = c
    <3>1. r = 0 /\ A = 0
      BY <1>2, <1>4, <2>8
    <3>2. S = 0 /\ Y = 0 /\ K = 0 /\ L = 0 /\ U = 0
      <4> HIDE DEF r, A, S, Y, K, L, U, R1, I, Y1, T
      <4> QED  BY ONLY <2>1, <2>3, <3>1
    <3>3. R1 = 0
      <4>1. z = x => S > 0
        BY <1>0, <1>1, <1>2, Terms
      <4> QED  BY <3>2, <4>1 DEF One
    <3>4. I = 1 /\ Y1 = T
      <4>1. x \notin sym_set
        BY <3>2 DEF One
      <4>2. x \in sym_set' <=> w.type = "sym"
        BY <1>5, <1>6, <2>8, <4>1
      <4> QED  BY <2>8, <4>2 DEF One
    <3>5. cell'[x].ref_cnt = 1 + T
      BY <1>0, <1>7, <2>8
    <3>6. 1 + T + 0 = (S - R1 + I) + Y1 + K + L + (U + A) + R1
      <4> HIDE DEF r, A, S, Y, K, L, U, R1, I, Y1, T
      <4> QED  BY ONLY <2>2, <3>1, <3>2, <3>3, <3>4
    <3> QED  BY <1>6, <2>4, <2>5, <3>5, <3>6 DEF Balance
  <2> QED  BY <2>7, <2>8
<1>16. \A d \in Cells : cell'[d].list # "grey" /\ (InUse(d)' <=> InUse(d) \/ d = c)
  <2> SUFFICES ASSUME NEW d \in Cells
               PROVE  cell'[d].list # "grey" /\ (InUse(d)' <=> InUse(d) \/ d = c)
    OBVIOUS
  <2>1. CASE d = c
    BY <1>0, <1>7, <2>1 DEF InUse
  <2>2. CASE d # c
    <3>1. cell[d].list # "grey"
      BY <1>3 DEF OnList
    <3>2. cell[d].ref_cnt = 0 \/ cell[d].ref_cnt > 0
      BY <1>3
    <3> QED  BY <1>3, <1>8, <2>2, <3>1, <3>2 DEF InUse
  <2> QED  BY <2>1, <2>2
<1>17. Phased'
  BY <1>11, <1>16 DEF Phased, OnList
<1>18. (\A d \in Cells : Reclaimed(d))'
  <2> SUFFICES ASSUME NEW d \in Cells  PROVE Reclaimed(d)'
    OBVIOUS
  <2>1. At(work', Call("free1", d)) = 0
    BY <1>11
  <2>2. CASE d = c
    <3>1. /\ cell'[d].list = "white" /\ cell'[d].ref_cnt > 0 /\ cell'[d].type # "none"
      BY <1>0, <1>2, <1>7, <2>2
    <3> QED  BY <2>1, <3>1 DEF Reclaimed, InUse, One
  <2>3. CASE d # c /\ cell[d].ref_cnt > 0
    <3>1. cell'[d].ref_cnt > 0 /\ cell'[d].type = cell[d].type /\ InUse(d)' /\ cell'[d].list # "grey"
      BY <1>3, <1>8, <1>16, <2>3
    <3>2. cell[d].type # "none"
      BY <1>1, <1>3, <2>3 DEF Reclaimed
    <3> QED  BY <2>1, <3>1, <3>2 DEF Reclaimed, One
  <2>4. CASE d # c /\ cell[d].ref_cnt = 0
    <3>1. ~ (cell'[d].ref_cnt > 0) /\ ~ InUse(d)' /\ cell'[d].list # "grey"
      BY <1>3, <1>8, <1>16, <2>4
    <3> QED  BY <2>1, <3>1 DEF Reclaimed, One
  <2>5. cell[d].ref_cnt = 0 \/ cell[d].ref_cnt > 0
    BY <1>3
  <2> QED  BY <2>2, <2>3, <2>4, <2>5
<1>19. (\A q \in Pages : PageCounted(q))'
  <2>1. ASSUME NEW q \in Pages, q # p  PROVE PageCounted(q)'
    <3>1. \A d \in q : d \in Cells /\ PageOf(d) = q /\ d # c
      BY <1>10, <2>1, PagesApart DEF Cells
    <3>2. {d \in q : InUse(d)'} = {d \in q : InUse(d)}
      BY <1>16, <3>1
    <3>3. in_use_cnt'[q] = in_use_cnt[q]
      BY <1>1, <1>6, <2>1 DEF HeapTypes
    <3>4. \A d \in q : cell'[d].list = "unmapped" <=> cell[d].list = "unmapped"
      BY <1>8, <2>1, <3>1
    <3> QED  BY <1>1, <3>2, <3>3, <3>4 DEF PageCounted
  <2>2. PageCounted(p)'
    <3> DEFINE used == {d \in p : InUse(d)}
    <3>1. {d \in p : InUse(d)'} = used \cup {c}
      BY <1>10, <1>16
    <3>2. in_use_cnt'[p] = in_use_cnt[p] + 1 /\ in_use_cnt[p] \in Nat
      BY <1>1, <1>6, <1>10 DEF HeapTypes
    <3>3. in_use_cnt[p] = Cardinality(used) /\ IsFiniteSet(used) /\ c \notin used
      BY <1>1, <1>10, FS_Subset DEF PageCounted
    <3>4. in_use_cnt'[p] = Cardinality(used \cup {c})
      <4> HIDE DEF used
      <4> QED  BY <3>2, <3>3, FS_AddElement
    <3>5. \A d \in p : cell'[d].list # "unmapped"
      <4> SUFFICES ASSUME NEW d \in p  PROVE cell'[d].list # "unmapped"
        OBVIOUS
      <4>1. d \in Cells /\ PageOf(d) = p
        BY <1>10, PagesApart
      <4> QED  BY <1>0, <1>7, <1>8, <4>1
    <3>6. in_use_cnt'[p] = Cardinality({d \in p : InUse(d)'})
      BY <3>1, <3>4
    <3>7. in_use_cnt'[p] # 0
      BY <3>2
    <3> HIDE DEF used
    <3> QED  BY <3>5, <3>6, <3>7 DEF PageCounted
  <2> QED  BY <2>1, <2>2
<1>20. WantOK'
  BY <1>11 DEF WantOK, AllocCall
<1>21. TablesOK'
  <2>1. \A k \in DOMAIN loaded : loaded[k] \in Cells /\ Referred(loaded[k])
    BY <1>1 DEF HeapTypes, Referred
  <2>2. ASSUME NEW d \in Cells, d # c, cell[d].ref_cnt > 1  PROVE cell'[d].ref_cnt > 1
    <3>1. cell'[d].ref_cnt = cell[d].ref_cnt + At(w.refs, d)
      BY <1>8, <2>2
    <3>2. cell[d].ref_cnt \in Nat /\ At(w.refs, d) \in Nat
      BY <1>2, <1>3
    <3> QED  BY <2>2, <3>1, <3>2
  <2>3. ASSUME NEW k \in DOMAIN loaded'
        PROVE  /\ cell'[loaded'[k]].type \in ModuleTypes
               /\ cell'[loaded'[k]].refs["sha1"] = k
               /\ cell'[loaded'[k]].ref_cnt > 1
    <3>1. PICK d \in Cells : d = loaded[k] /\ d = loaded'[k] /\ d # c /\ cell[d].ref_cnt > 0
      BY <1>6, <1>12, <2>1, <2>3
    <3>2. cell[d].type \in ModuleTypes /\ cell[d].refs["sha1"] = k /\ cell[d].ref_cnt > 1
      BY <1>1, <1>6, <2>3, <3>1 DEF TablesOK
    <3> QED  BY <1>8, <2>2, <3>1, <3>2
  <2>4. ASSUME NEW d \in sym_set' \ permanent'  PROVE cell'[d].ref_cnt > 1
    <3>1. CASE d \in sym_set
      <4>1. d \in Cells /\ d # c
        BY <1>1, <1>12, <3>1 DEF HeapTypes, Referred
      <4>2. cell[d].ref_cnt > 1
        BY <1>1, <1>3, <1>6, <2>4, <3>1 DEF TablesOK
      <4> QED  BY <2>2, <4>1, <4>2
    <3>2. CASE d \notin sym_set
      <4>1. d = c /\ w.type = "sym"
        BY <1>5, <1>6, <2>4, <3>2
      <4>2. One(w.type = "sym") = 1
        BY <4>1 DEF One
      <4>3. cell'[d].ref_cnt = 2
        BY <1>0, <1>7, <4>1, <4>2
      <4> QED  BY <4>3
    <3> QED  BY <3>1, <3>2
  <2> QED  BY <2>3, <2>4 DEF TablesOK
<1>22. Built(c, w.refs)
  <2>1. ASSUME NEW d \in Cells, d # c
        PROVE  \/ cell'[d].refs = cell[d].refs
               \/ ~ InUse(d) /\ cell'[d].refs = NoFields
    <3>1. cell'[d].refs = WithPage(c)[d].refs
      <4>1. WithPage(c)[d] \in Made
        BY <1>1, Blank DEF WithPage, HeapTypes
      <4> QED  BY <1>6, <2>1, <4>1 DEF Made, Objects
    <3>2. \/ WithPage(c)[d] = cell[d]
          \/ cell[d].list = "unmapped" /\ WithPage(c)[d] = FreeCell
      BY <2>1 DEF WithPage
    <3> QED  BY <3>1, <3>2 DEF InUse, FreeCell
  <2> QED  BY <1>0, <1>7, <1>16, <2>1 DEF Built
<1> QED  BY <1>13, <1>15, <1>17, <1>18, <1>19, <1>20, <1>21, <1>22 DEF HeapInv

\* A cell that sx_alloc can hand out is not in use.
LEMMA Fresh ==
  ASSUME HeapInv, NEW c \in UNION FreshPages
  PROVE  c \in Cells /\ ~ InUse(c)
<1>1. PICK p \in Pages : in_use_cnt[p] = 0 /\ c \in p
  BY DEF FreshPages
<1>2. PageCounted(p)
  BY DEF HeapInv
<1>3. cell[c].list = "unmapped"
  BY <1>1, <1>2 DEF PageCounted
<1> QED  BY <1>1, <1>3 DEF InUse, Cells

LEMMA StatusStep ==
  ASSUME HeapInv, status' \in {"run", "fatal"},
         UNCHANGED <<cell, in_use_cnt, slot, sym_set, permanent, loaded, want, work>>
  PROVE  HeapInv'
<1>1. HeapTypes'
  BY DEF HeapInv, HeapTypes
<1>2. Balanced'
  BY DEF HeapInv, Balanced, Balance, Uses
<1>3. Phased'
  BY DEF HeapInv, Phased, Releasing, Marking, Sweeping, MarksInUse, OnList, InUse
<1>4. (\A c \in Cells : Reclaimed(c))'
  BY DEF HeapInv, Reclaimed, InUse
<1>5. (\A p \in Pages : PageCounted(p))'
  BY PagesKept DEF HeapInv, InUse
<1>6. WantOK'
  BY WantKept DEF HeapInv
<1>7. TablesOK'
  BY DEF HeapInv, TablesOK
<1> QED  BY <1>1, <1>2, <1>3, <1>4, <1>5, <1>6, <1>7 DEF HeapInv

LEMMA RetryStep ==
  ASSUME HeapInv, Retry
  PROVE  HeapInv'
<1>1. Calling("alloc") /\ work # << >> /\ Phased
  BY DEF Retry, Calling, HeapInv
<1>2. work = <<AllocCall>>
  BY <1>1, Turn
<1>3. Wanted(want)
  <2>1. At(work, AllocCall) = One(AllocCall = AllocCall)
    BY <1>2, AtOne
  <2> QED  BY <2>1 DEF One, HeapInv, WantOK
<1>4. ASSUME NEW c \in UNION FreshPages, Build(want, c)  PROVE HeapInv'
  BY <1>2, <1>3, <1>4, Fresh, BuildStep
<1>5. CASE /\ status' = "fatal"
           /\ UNCHANGED <<cell, in_use_cnt, slot, sym_set, permanent, loaded, want, work>>
  BY <1>5, StatusStep
<1> QED  BY <1>4, <1>5 DEF Retry

\* What a collection has to do.
LEMMA CollectWork ==
  ASSUME HeapTypes, NEW symbols \in SetToSeqs(sym_set), NEW w,
         \/ w = CollectCalls(symbols)
         \/ w = CollectCalls(symbols) \o <<AllocCall>>
  PROVE  /\ InPhase(w, Marks, Swept)
         /\ \A x : /\ At(w, Call("mark", x)) = At(slot, x) + One(x \in sym_set)
                   /\ At(w, Call("release", x)) = 0 /\ At(w, Call("free1", x)) = 0
         /\ At(w, SymCall) > 0
         /\ w = CollectCalls(symbols) => At(w, AllocCall) = 0
<1> DEFINE F1 == Calls("mark", slot)
           F2 == Calls("mark", symbols)
           F == F1 \o F2
           C == <<SweepCall, SymCall>>
           A == <<AllocCall>>
<1>1. slot \in Seq(Values)
  <2>1. slot \in [1 .. NSlots -> Values] /\ NSlots \in Nat
    BY HeapAssumption DEF HeapTypes, Slots
  <2> QED  BY <2>1
<1>2. symbols \in Seq(Values) /\ \A x : At(symbols, x) = One(x \in sym_set)
  <2>1. sym_set \subseteq Values /\ IsFiniteSet(sym_set)
    BY CellsFinite, FS_Subset DEF HeapTypes, Values
  <2>2. symbols \in Seq(sym_set)
    BY <2>1, OrderCount
  <2>3. \A x : At(symbols, x) = One(x \in sym_set)
    BY <2>1, OrderCount
  <2> QED  BY <2>1, <2>2, <2>3, SeqMonotonic
<1>3. F1 \in Seq(Marks) /\ F2 \in Seq(Marks)
  BY <1>1, <1>2, CallsSeq
<1>4. \A x : At(F1, Call("mark", x)) = At(slot, x) /\ At(F2, Call("mark", x)) = At(symbols, x)
  BY <1>1, <1>2, CallsCount
<1> HIDE DEF F1, F2
<1>5. F \in Seq(Marks) /\ \A x : At(F, Call("mark", x)) = At(slot, x) + One(x \in sym_set)
  <2>1. F \in Seq(Marks)
    BY <1>3, ConcatProperties
  <2>2. \A x : At(F, Call("mark", x)) = At(F1, Call("mark", x)) + At(F2, Call("mark", x))
    BY <1>3, AtConcat
  <2> QED  BY <1>2, <1>4, <2>1, <2>2
<1> HIDE DEF F
<1>6. C \in Seq(LastCalls) /\ A \in Seq(LastCalls) /\ C \in Swept /\ C \o A \in Swept
  <2>1. C \in Seq(LastCalls) /\ A \in Seq(LastCalls) /\ C \in Swept
    BY DEF LastCalls, Swept
  <2>2. C \o A = <<SweepCall, SymCall, AllocCall>>
    <3> DEFINE t == <<SweepCall, SymCall, AllocCall>>
               u == C \o A
    <3>1. t \in Seq(LastCalls) /\ Len(t) = 3 /\ t[1] = SweepCall /\ t[2] = SymCall /\ t[3] = AllocCall
      BY DEF LastCalls
    <3>2. /\ u \in Seq(LastCalls) /\ Len(u) = Len(C) + Len(A)
          /\ \A i \in 1 .. Len(C) + Len(A) : u[i] = IF i <= Len(C) THEN C[i] ELSE A[i - Len(C)]
      BY <2>1, ConcatProperties
    <3>3. Len(C) = 2 /\ Len(A) = 1 /\ C[1] = SweepCall /\ C[2] = SymCall /\ A[1] = AllocCall
      OBVIOUS
    <3> HIDE DEF C, A, t, u
    <3>4. \A i \in 1 .. Len(t) : t[i] = u[i]
      BY <3>1, <3>2, <3>3
    <3>5. Len(t) = Len(u)
      BY <3>1, <3>2, <3>3
    <3>6. t = u
      BY <3>1, <3>2, <3>4, <3>5, SeqEqual
    <3> QED  BY <3>6 DEF t, u
  <2> QED  BY <2>1, <2>2 DEF Swept
<1>7. C = <<SweepCall, SymCall>> /\ At(C, AllocCall) = 0
  <2>1. C \in Seq({SweepCall, SymCall})
    OBVIOUS
  <2>2. AllocCall \notin {SweepCall, SymCall}
    BY CallIs DEF AllocCall, SweepCall, SymCall
  <2> HIDE DEF C
  <2> QED  BY <2>1, <2>2, Absent DEF C
<1>8. CollectCalls(symbols) = F \o C
  BY DEF CollectCalls, F, F1, F2, SweepCall, SymCall
<1> HIDE DEF C, A
<1>9. PICK B \in Swept : w = F \o B /\ (w = CollectCalls(symbols) => At(B, AllocCall) = 0)
  <2>1. CASE w = CollectCalls(symbols)
    BY <1>6, <1>7, <1>8, <2>1
  <2>2. CASE w = CollectCalls(symbols) \o <<AllocCall>> /\ w # CollectCalls(symbols)
    <3>1. F \in Seq(Marks \cup LastCalls) /\ C \in Seq(Marks \cup LastCalls) /\ A \in Seq(Marks \cup LastCalls)
      BY <1>5, <1>6, SeqMonotonic
    <3>2. (F \o C) \o A = F \o (C \o A)
      BY <3>1, ConcatAssociative
    <3> QED  BY <1>6, <1>8, <2>2, <3>2 DEF A
  <2> QED  BY <2>1, <2>2
<1>10. B \in Seq(LastCalls) /\ At(B, SymCall) > 0
  <2>1. B \in Seq(LastCalls)
    BY BackSeqs
  <2>2. 2 \in 1 .. Len(B) /\ B[2] = SymCall
    BY DEF Swept
  <2> QED  BY <2>1, <2>2, AtSeq
<1>11. \A y : At(w, y) = At(F, y) + At(B, y) /\ At(F, y) \in Nat /\ At(B, y) \in Nat
  <2>1. F \in Seq(Marks \cup LastCalls) /\ B \in Seq(Marks \cup LastCalls)
    BY <1>5, <1>10, SeqMonotonic
  <2> QED  BY <1>9, <2>1, AtConcat, AtSeq
<1>12. \A y : (y \notin Marks => At(F, y) = 0) /\ (y \notin LastCalls => At(B, y) = 0)
  BY <1>5, <1>10, Absent
<1>13. ASSUME NEW x
       PROVE  /\ At(w, Call("mark", x)) = At(slot, x) + One(x \in sym_set)
              /\ At(w, Call("release", x)) = 0 /\ At(w, Call("free1", x)) = 0
  <2>1. /\ Call("mark", x) \notin LastCalls /\ Call("release", x) \notin LastCalls
        /\ Call("free1", x) \notin LastCalls
        /\ Call("release", x) \notin Marks /\ Call("free1", x) \notin Marks
    BY CallIs
  <2>2. /\ At(B, Call("mark", x)) = 0 /\ At(B, Call("release", x)) = 0 /\ At(B, Call("free1", x)) = 0
        /\ At(F, Call("release", x)) = 0 /\ At(F, Call("free1", x)) = 0
    BY <1>12, <2>1
  <2>3. At(F, Call("mark", x)) \in Nat
    BY <1>11
  <2> QED  BY <1>5, <1>11, <2>2, <2>3
<1>14. AllocCall \notin Marks
  BY CallIs DEF AllocCall
<1>15. InPhase(w, Marks, Swept)
  BY <1>5, <1>9 DEF InPhase
<1> QED  BY <1>9, <1>10, <1>11, <1>12, <1>13, <1>14, <1>15

\* An object at the beginning of a collection.
LEMMA GreyedIs ==
  ASSUME HeapTypes, cell' = Greyed, NEW c \in Cells, ~ InUse(c) => cell[c].ref_cnt = 0
  PROVE  /\ cell'[c] \in Made /\ cell'[c].ref_cnt = 0
         /\ cell'[c].type = cell[c].type /\ cell'[c].refs = cell[c].refs
         /\ IF InUse(c) THEN cell'[c].list = "grey" ELSE cell'[c] = cell[c]
<1>1. cell'[c] = IF InUse(c) THEN [cell[c] EXCEPT !.list = "grey", !.ref_cnt = 0] ELSE cell[c]
  BY DEF Greyed
<1>2. cell[c] \in Made
  BY DEF HeapTypes
<1>3. ~ InUse(c) => cell[c].ref_cnt = 0
  OBVIOUS
<1>4. CASE InUse(c)
  <2>1. cell'[c] = [cell[c] EXCEPT !.list = "grey", !.ref_cnt = 0]
    BY <1>1, <1>4
  <2> DEFINE o == [cell[c] EXCEPT !.list = "grey"]
  <2>2. o \in Objects /\ o.list = "grey" /\ o.type = cell[c].type /\ o.refs = cell[c].refs
    BY <1>2 DEF Made, Objects
  <2>3. cell'[c] = [o EXCEPT !.ref_cnt = 0]
    BY <2>1
  <2> HIDE DEF o
  <2>4. /\ cell'[c] \in Objects /\ cell'[c].ref_cnt = 0 /\ cell'[c].list = "grey"
    BY <2>2, <2>3 DEF Objects
  <2>5. cell'[c].type = cell[c].type /\ cell'[c].refs = cell[c].refs
    BY <2>2, <2>3 DEF Objects
  <2>6. cell'[c] \in Made
    BY <1>2, <2>4, <2>5 DEF Made
  <2> QED  BY <1>4, <2>4, <2>5, <2>6
<1>5. CASE ~ InUse(c)
  BY <1>1, <1>2, <1>3, <1>5
<1> QED  BY <1>4, <1>5

\* collect().
LEMMA CollectStep ==
  ASSUME HeapInv, work = << >>, Collects, cell' = Greyed,
         NEW symbols \in SetToSeqs(sym_set),
         \/ work' = CollectCalls(symbols) /\ want' = want
         \/ work' = CollectCalls(symbols) \o <<AllocCall>> /\ Wanted(want'),
         UNCHANGED <<in_use_cnt, slot, sym_set, permanent, loaded, status>>
  PROVE  HeapInv'
<1>1. /\ HeapTypes /\ (\A x \in Cells : Reclaimed(x)) /\ (\A q \in Pages : PageCounted(q))
      /\ DOMAIN loaded = {}
  BY DEF HeapInv, HeapTypes
<1>2. \A x \in Cells : /\ Referred(x) => cell[x].ref_cnt > 0
                       /\ InUse(x) <=> cell[x].ref_cnt > 0
                       /\ cell[x].ref_cnt \in Nat
  BY Settled
<1>3. /\ InPhase(work', Marks, Swept)
      /\ \A x : /\ At(work', Call("mark", x)) = At(slot, x) + One(x \in sym_set)
                /\ At(work', Call("release", x)) = 0 /\ At(work', Call("free1", x)) = 0
      /\ At(work', SymCall) > 0
      /\ work' = CollectCalls(symbols) => At(work', AllocCall) = 0
  BY <1>1, CollectWork
<1>4. ASSUME NEW c \in Cells
      PROVE  /\ cell'[c] \in Made /\ cell'[c].ref_cnt = 0
             /\ cell'[c].type = cell[c].type /\ cell'[c].refs = cell[c].refs
             /\ IF InUse(c) THEN cell'[c].list = "grey" ELSE cell'[c] = cell[c]
  BY <1>1, <1>2, GreyedIs
<1>5. cell' \in [Cells -> Made] /\ \A c \in Cells : InUse(c)' <=> InUse(c)
  <2>1. cell' = [c \in Cells |-> cell'[c]]
    BY DEF Greyed
  <2>2. cell' \in [Cells -> Made]
    BY <1>4, <2>1
  <2> QED  BY <1>4, <2>2 DEF InUse
<1>6. HeapTypes'
  BY <1>1, <1>4, <1>5 DEF HeapTypes
<1>7. Balanced'
  <2> SUFFICES ASSUME NEW x \in Cells  PROVE Balance(x)'
    BY DEF Balanced
  <2>1. Cardinality(Uses(cell', x)) = 0
    <3>1. Uses(cell', x) = {}
      BY <1>4 DEF Uses
    <3> QED  BY <3>1, FS_EmptySet
  <2>2. At(loaded, x) = 0 /\ One(x \in DOMAIN loaded) = 0
    BY <1>1, FS_EmptySet DEF At, One
  <2>3. At(slot, x) \in Nat /\ One(x \in sym_set) \in {0, 1}
    BY <1>1, Terms, Zenon
  <2>4. At(work', Call("mark", x)) = At(slot, x) + One(x \in sym_set) /\ At(work', Call("release", x)) = 0
    BY <1>3
  <2>5. cell'[x].ref_cnt = 0
    BY <1>4
  <2> DEFINE S == At(slot, x)
             Y == One(x \in sym_set)
  <2>6. 0 + (S + Y) = S + Y + 0 + 0 + 0 + 0
    <3> HIDE DEF S, Y
    <3>1. S \in Nat /\ Y \in {0, 1}
      BY <2>3 DEF S, Y
    <3> QED  BY <3>1
  <2> QED  BY <2>1, <2>2, <2>4, <2>5, <2>6 DEF Balance
<1>8. Phased'
  <2>1. ASSUME NEW c \in Cells, At(work', Call("mark", c)) > 0  PROVE InUse(c)'
    <3>1. At(slot, c) \in Nat /\ One(c \in sym_set) \in {0, 1}
      BY <1>1, Terms, Zenon
    <3>2. At(slot, c) > 0 \/ One(c \in sym_set) > 0
      BY <1>3, <2>1, <3>1
    <3>3. At(slot, c) > 0 => \E s \in Slots : slot[s] = c
      BY <1>1, Terms, Zenon
    <3>4. One(c \in sym_set) > 0 => c \in sym_set
      BY DEF One
    <3>5. Referred(c)
      BY <3>2, <3>3, <3>4 DEF Referred
    <3> QED  BY <1>2, <1>5, <3>5
  <2>2. ASSUME NEW c \in Cells, InUse(c)', NEW f \in DOMAIN cell'[c].refs, cell'[c].refs[f] # Nil
        PROVE  cell'[c].refs[f] \in Cells /\ InUse(cell[c].refs[f])
    <3>1. cell[c].ref_cnt > 0 /\ cell'[c].refs = cell[c].refs
      BY <1>2, <1>4, <1>5, <2>2
    <3>2. cell[c].refs \in Records
      BY <1>1 DEF HeapTypes, Made, Objects
    <3>3. cell[c].refs[f] \in Cells
      BY <2>2, <3>1, <3>2, RecordFinite DEF Values
    <3>4. Referred(cell[c].refs[f])
      BY <2>2, <3>1 DEF Referred
    <3> QED  BY <1>2, <3>1, <3>3, <3>4
  <2>3. ASSUME NEW c \in Cells, InUse(c)', NEW f \in DOMAIN cell'[c].refs, cell'[c].refs[f] # Nil
        PROVE  cell'[cell'[c].refs[f]].list \in {"white", "grey"}
    <3>1. PICK y \in Cells : y = cell'[c].refs[f] /\ y = cell[c].refs[f] /\ InUse(y)
      BY <1>4, <2>2, <2>3
    <3>2. InUse(y)'
      BY <1>5, <3>1
    <3> QED  BY <3>1, <3>2 DEF InUse
  <2>4. MarksInUse'
    BY <2>1, <2>3 DEF MarksInUse, InUse
  <2>5. Marking'
    BY <1>3 DEF Marking
  <2> QED  BY <2>4, <2>5 DEF Phased
<1>9. (\A c \in Cells : Reclaimed(c))'
  <2> SUFFICES ASSUME NEW c \in Cells  PROVE Reclaimed(c)'
    OBVIOUS
  <2>1. InUse(c)' => cell'[c].list = "grey" /\ cell'[c].type # "none"
    <3>1. InUse(c)' => InUse(c)
      BY <1>5
    <3>2. InUse(c) => cell[c].type # "none"
      BY <1>1 DEF Reclaimed
    <3> QED  BY <1>4, <3>1, <3>2
  <2>2. cell'[c].ref_cnt = 0 /\ At(work', Call("free1", c)) = 0
    BY <1>3, <1>4
  <2> QED  BY <2>1, <2>2 DEF Reclaimed, One
<1>10. (\A q \in Pages : PageCounted(q))'
  <2>1. \A c \in Cells : cell'[c].list = "unmapped" <=> cell[c].list = "unmapped"
    BY <1>4 DEF InUse
  <2> QED  BY <1>1, <1>5, <2>1, PagesKept
<1>11. WantOK'
  BY <1>3 DEF WantOK, Wanted, Want
<1>12. TablesOK'
  BY <1>1, <1>3 DEF TablesOK
<1> QED  BY <1>6, <1>7, <1>8, <1>9, <1>10, <1>11, <1>12 DEF HeapInv

\* What sx_alloc hands out is not in use.
LEMMA Handed ==
  ASSUME HeapInv, NEW c \in Available
  PROVE  c \in Cells /\ ~ InUse(c)
<1>1. CASE c \in Free
  BY <1>1 DEF Free, OnList, InUse
<1>2. CASE c \in UNION FreshPages
  BY <1>2, Fresh
<1> QED  BY <1>1, <1>2 DEF Available

\* The arguments of a constructor make an object.
LEMMA ContentsWanted ==
  ASSUME NEW t \in Types, NEW d \in Slots, NEW r \in Contents(t)
  PROVE  Wanted(Want(t, r, d))
<1>1. r \in [FieldsOf(t) -> {Nil} \cup {slot[s] : s \in Slots}] /\ \A f \in FieldsOf(t) : CanHold(f, r[f])
  BY DEF Contents
<1>2. t \in AllTypes /\ (t \in ModuleTypes => "sha1" \in FieldsOf(t))
  BY HeapAssumption, Tables
<1>3. t \in ModuleTypes => r["sha1"] # Nil
  BY <1>1, <1>2 DEF CanHold
<1> QED  BY <1>1, <1>3 DEF Wanted, Want

LEMMA NewStep ==
  ASSUME HeapInv, NEW t \in Types, NEW d \in Slots, New(t, d)
  PROVE  HeapInv'
<1>1. work = << >>
  BY DEF New, Idle
<1>2. PICK r \in Contents(t) :
         \/ \E c \in Available : Build(Want(t, r, d), c)
         \/ /\ Collects /\ cell' = Greyed /\ want' = Want(t, r, d)
            /\ \E symbols \in SetToSeqs(sym_set) :
                   work' = CollectCalls(symbols) \o <<AllocCall>>
            /\ UNCHANGED <<in_use_cnt, slot, sym_set, permanent, loaded, status>>
  BY DEF New, AllocCall
<1>3. Wanted(Want(t, r, d))
  BY ContentsWanted
<1>4. ASSUME NEW c \in Available, Build(Want(t, r, d), c)  PROVE HeapInv'
  <2>1. c \in Cells /\ ~ InUse(c)
    BY <1>4, Handed
  <2> QED  BY <1>1, <1>3, <1>4, <2>1, BuildStep
<1>5. CASE /\ Collects /\ cell' = Greyed /\ want' = Want(t, r, d)
           /\ \E symbols \in SetToSeqs(sym_set) :
                  work' = CollectCalls(symbols) \o <<AllocCall>>
           /\ UNCHANGED <<in_use_cnt, slot, sym_set, permanent, loaded, status>>
  <2>1. PICK symbols \in SetToSeqs(sym_set) : work' = CollectCalls(symbols) \o <<AllocCall>>
    BY <1>5
  <2>2. Wanted(want')
    BY <1>3, <1>5
  <2> QED  BY <1>1, <1>5, <2>1, <2>2, CollectStep
<1> QED  BY <1>2, <1>4, <1>5

\* The program's changes: one count goes up, and what was overwritten is released.
LEMMA CountedUp ==
  ASSUME HeapInv, work = << >>, NEW v \in Values, v = Nil \/ Referred(v),
         NEW g, g = IF v = Nil THEN cell ELSE Incremented(v)
  PROVE  /\ g \in [Cells -> Made]
         /\ \A d \in Cells :
               /\ g[d].ref_cnt = cell[d].ref_cnt + One(v = d)
               /\ g[d].ref_cnt > 0 <=> cell[d].ref_cnt > 0
               /\ g[d].type = cell[d].type /\ g[d].refs = cell[d].refs /\ g[d].list = cell[d].list
<1>1. HeapTypes
  BY DEF HeapInv
<1>2. \A x \in Cells : (Referred(x) => cell[x].ref_cnt > 0) /\ cell[x].ref_cnt \in Nat
  BY Settled
<1>3. CASE v = Nil
  <2>1. g = cell
    BY <1>3
  <2>2. \A d \in Cells : One(v = d) = 0
    BY <1>3, CellsFinite DEF One
  <2> QED  BY <1>1, <1>2, <2>1, <2>2 DEF HeapTypes
<1>4. CASE v # Nil
  <2>1. v \in Cells /\ cell[v].ref_cnt > 0 /\ cell[v].ref_cnt \in Nat
    BY <1>2, <1>4 DEF Values
  <2>2. PICK n : n = cell[v].ref_cnt + 1
    OBVIOUS
  <2>3. n \in Nat /\ n > 0
    BY <2>1, <2>2
  <2>4. g = [cell EXCEPT ![v].ref_cnt = n]
    BY <1>4, <2>2 DEF Incremented
  <2>5. Counted(g, v, n)
    BY <1>1, <2>1, <2>3, <2>4, CountChange
  <2>6. ASSUME NEW d \in Cells
        PROVE  /\ g[d].ref_cnt = cell[d].ref_cnt + One(v = d)
               /\ g[d].ref_cnt > 0 <=> cell[d].ref_cnt > 0
               /\ g[d].type = cell[d].type /\ g[d].refs = cell[d].refs /\ g[d].list = cell[d].list
    <3>1. CASE d = v
      BY <2>1, <2>2, <2>3, <2>5, <3>1 DEF Counted, One
    <3>2. CASE d # v
      <4>1. g[d] = cell[d] /\ One(v = d) = 0
        BY <2>5, <3>2 DEF Counted, One
      <4> QED  BY <1>2, <4>1
    <3> QED  BY <3>1, <3>2
  <2> QED  BY <2>5, <2>6 DEF Counted
<1> QED  BY <1>3, <1>4

\* What a step of the program keeps when it leaves the objects where they are.
LEMMA ProgramStep ==
  ASSUME HeapInv, work = << >>, HeapTypes', Balanced', TablesOK', Releasing',
         \A x : At(work', Call("free1", x)) = 0, At(work', AllocCall) = 0,
         UNCHANGED in_use_cnt,
         \A d \in Cells : /\ cell'[d].ref_cnt > 0 <=> cell[d].ref_cnt > 0
                          /\ cell'[d].type = cell[d].type /\ cell'[d].list = cell[d].list
  PROVE  HeapInv'
<1>1. /\ HeapTypes /\ (\A x \in Cells : Reclaimed(x)) /\ (\A q \in Pages : PageCounted(q))
  BY DEF HeapInv
<1>2. OnList("grey") = {} /\ \A x \in Cells : InUse(x) <=> cell[x].ref_cnt > 0
  BY Settled
<1>3. \A d \in Cells : (InUse(d)' <=> InUse(d)) /\ cell'[d].list # "grey"
  BY <1>2 DEF InUse, OnList
<1>4. Phased'
  BY <1>3 DEF Phased, OnList
<1>5. (\A d \in Cells : Reclaimed(d))'
  <2> SUFFICES ASSUME NEW d \in Cells  PROVE Reclaimed(d)'
    OBVIOUS
  <2>1. At(work', Call("free1", d)) = 0 /\ cell'[d].list # "grey"
    BY <1>3
  <2>2. InUse(d)' <=> cell'[d].ref_cnt > 0
    BY <1>2, <1>3
  <2>3. InUse(d)' => cell'[d].type # "none"
    BY <1>1, <1>3 DEF Reclaimed
  <2>4. InUse(d)' => cell'[d].ref_cnt # 0
    BY <2>2
  <2> QED  BY <2>1, <2>2, <2>3, <2>4 DEF Reclaimed, One
<1>6. (\A q \in Pages : PageCounted(q))'
  BY <1>1, <1>3, PagesKept
<1>7. WantOK'
  BY DEF WantOK
<1> QED  BY <1>4, <1>5, <1>6, <1>7 DEF HeapInv

\* The tables are as they were and no count went down.
LEMMA TablesKept ==
  ASSUME HeapInv, work = << >>, UNCHANGED <<sym_set, permanent, loaded>>,
         \A d \in Cells : /\ cell'[d].ref_cnt \in Nat /\ cell'[d].ref_cnt >= cell[d].ref_cnt
                          /\ cell'[d].type = cell[d].type
                          /\ cell[d].type \in ModuleTypes => cell'[d].refs = cell[d].refs
  PROVE  TablesOK'
<1>1. HeapTypes /\ TablesOK /\ At(work, SymCall) = 0
  BY Settled DEF HeapInv
<1>2. \A d \in Cells : cell[d].ref_cnt \in Nat
  BY Settled
<1>3. \A d \in Cells : cell[d].ref_cnt > 1 => cell'[d].ref_cnt > 1
  BY <1>2
<1>4. sym_set \subseteq Cells /\ \A k \in DOMAIN loaded : loaded[k] \in Cells
  BY <1>1 DEF HeapTypes
<1> QED  BY <1>1, <1>3, <1>4 DEF TablesOK

\* Counts and references when the program runs.
LEMMA IdleBalance ==
  ASSUME HeapInv, work = << >>, NEW x \in Cells
  PROVE  /\ cell[x].ref_cnt = At(slot, x) + One(x \in sym_set) + One(x \in DOMAIN loaded)
                 + At(loaded, x) + Cardinality(Uses(cell, x))
         /\ At(slot, x) \in Nat /\ At(loaded, x) \in Nat /\ Cardinality(Uses(cell, x)) \in Nat
         /\ One(x \in sym_set) \in {0, 1} /\ One(x \in DOMAIN loaded) \in {0, 1}
<1>1. HeapTypes /\ Balance(x)
  BY DEF HeapInv, Balanced
<1>2. At(work, Call("mark", x)) = 0 /\ At(work, Call("release", x)) = 0
  BY AtEmpty
<1>3. cell[x].ref_cnt + 0 = At(slot, x) + One(x \in sym_set) + One(x \in DOMAIN loaded)
                  + At(loaded, x) + Cardinality(Uses(cell, x)) + 0
  BY <1>1, <1>2 DEF Balance
<1>4. /\ At(slot, x) \in Nat /\ At(loaded, x) \in Nat /\ Cardinality(Uses(cell, x)) \in Nat
      /\ One(x \in sym_set) \in {0, 1} /\ One(x \in DOMAIN loaded) \in {0, 1}
  BY <1>1, Terms, Zenon
<1>5. cell[x].ref_cnt \in Nat
  BY Settled
<1>6. cell[x].ref_cnt = At(slot, x) + One(x \in sym_set) + One(x \in DOMAIN loaded)
                  + At(loaded, x) + Cardinality(Uses(cell, x))
  BY ONLY <1>3, <1>4, <1>5
<1> QED  BY <1>4, <1>6

\* What the program can name is referred to.
LEMMA Named ==
  ASSUME HeapInv, work = << >>, NEW v \in Expressible
  PROVE  v \in Values /\ (v = Nil \/ Referred(v))
<1>1. HeapTypes
  BY DEF HeapInv
<1>2. \A x \in Cells : Referred(x) => cell[x].ref_cnt > 0
  BY Settled
<1>3. CASE v \in sym_set
  BY <1>1, <1>3 DEF HeapTypes, Referred, Values
<1>4. CASE v \in Range(loaded)
  BY <1>1, <1>4 DEF HeapTypes, Referred, Values, Range
<1>5. ASSUME NEW s \in Slots, v = slot[s]
      PROVE  v \in Values /\ (v = Nil \/ Referred(v))
  BY <1>1, <1>5 DEF HeapTypes, Referred, Values
<1>6. ASSUME NEW s \in Slots, slot[s] # Nil, NEW f \in DOMAIN cell[slot[s]].refs, v = cell[slot[s]].refs[f]
      PROVE  v \in Values /\ (v = Nil \/ Referred(v))
  <2>1. slot[s] \in Cells /\ Referred(slot[s])
    BY <1>1, <1>6 DEF HeapTypes, Referred, Values
  <2>2. cell[slot[s]].refs \in Records
    BY <1>1, <2>1 DEF HeapTypes, Made, Objects
  <2>3. v \in Values
    BY <1>6, <2>2, RecordFinite
  <2>4. Referred(v)
    BY <1>2, <1>6, <2>1 DEF Referred
  <2> QED  BY <2>3, <2>4
<1> QED  BY <1>3, <1>4, <1>5, <1>6 DEF Expressible, Values

\* sx_assign.
LEMMA AssignStep ==
  ASSUME HeapInv, NEW e \in Slots, NEW v \in Expressible, Assign(e, v)
  PROVE  HeapInv'
<1>1. /\ work = << >> /\ slot' = [slot EXCEPT ![e] = v]
      /\ cell' = IF v = Nil THEN cell ELSE Incremented(v)
      /\ UNCHANGED <<in_use_cnt, sym_set, permanent, loaded, want, status>>
  BY DEF Assign, Idle
<1>2. PICK z : z = slot[e] /\ work' = Calls("release", <<z>>)
  BY DEF Assign
<1>3. HeapTypes
  BY DEF HeapInv
<1>4. v \in Values /\ (v = Nil \/ Referred(v))
  BY <1>1, Named
<1>5. /\ cell' \in [Cells -> Made]
      /\ \A d \in Cells :
            /\ cell'[d].ref_cnt = cell[d].ref_cnt + One(v = d)
            /\ cell'[d].ref_cnt > 0 <=> cell[d].ref_cnt > 0
            /\ cell'[d].type = cell[d].type /\ cell'[d].refs = cell[d].refs
            /\ cell'[d].list = cell[d].list
  BY <1>1, <1>4, CountedUp
<1>6. z \in Values
  BY <1>2, <1>3 DEF HeapTypes
<1>7. /\ Releasing'
      /\ \A x : At(work', Call("release", x)) = One(z = x)
      /\ \A op, x : op # "release" => At(work', Call(op, x)) = 0
  BY <1>2, <1>6, Overwritten
<1>8. HeapTypes'
  BY <1>1, <1>3, <1>4, <1>5 DEF HeapTypes
<1>9. Balanced'
  <2> SUFFICES ASSUME NEW x \in Cells  PROVE Balance(x)'
    BY DEF Balanced
  <2>1. /\ cell[x].ref_cnt = At(slot, x) + One(x \in sym_set) + One(x \in DOMAIN loaded)
                + At(loaded, x) + Cardinality(Uses(cell, x))
        /\ At(slot, x) \in Nat /\ At(loaded, x) \in Nat /\ Cardinality(Uses(cell, x)) \in Nat
        /\ One(x \in sym_set) \in {0, 1} /\ One(x \in DOMAIN loaded) \in {0, 1}
    BY <1>1, IdleBalance
  <2>2. At(slot', x) = At(slot, x) - One(z = x) + One(v = x)
    <3>1. DOMAIN slot = Slots /\ IsFiniteSet(Slots)
      BY <1>3, Terms, Zenon
    <3>2. DOMAIN slot' = DOMAIN slot /\ slot'[e] = v /\ \A s \in Slots : s # e => slot'[s] = slot[s]
      BY <1>1, <3>1
    <3>3. e \in DOMAIN slot
      BY <3>1
    <3>4. At(slot', x) = At(slot, x) - One(slot[e] = x) + One(slot'[e] = x)
      BY ONLY <3>1, <3>2, <3>3, AtChange
    <3> QED  BY <1>2, <3>2, <3>4
  <2>3. Cardinality(Uses(cell', x)) = Cardinality(Uses(cell, x))
    <3>1. cell \in [Cells -> Objects] /\ cell' \in [Cells -> Objects]
      BY <1>3, <1>5 DEF HeapTypes, Made
    <3>2. \A d \in Cells : Alike(cell[d], cell'[d])
      BY <1>5 DEF Alike
    <3> QED  BY <3>1, <3>2, UsesSame
  <2>4. At(work', Call("release", x)) = One(z = x) /\ At(work', Call("mark", x)) = 0
    BY <1>7
  <2>5. cell'[x].ref_cnt = cell[x].ref_cnt + One(v = x)
    BY <1>5
  <2> DEFINE r == cell[x].ref_cnt
             V == One(v = x)
             Z == One(z = x)
             S == At(slot, x)
             Y == One(x \in sym_set)
             K == One(x \in DOMAIN loaded)
             L == At(loaded, x)
             U == Cardinality(Uses(cell, x))
  <2>6. r + V + 0 = (S - Z + V) + Y + K + L + U + Z
    <3>1. r = S + Y + K + L + U /\ S \in Nat /\ L \in Nat /\ U \in Nat /\ Y \in {0, 1} /\ K \in {0, 1}
      BY <2>1
    <3>2. V \in {0, 1} /\ Z \in {0, 1}
      BY DEF One
    <3> HIDE DEF r, V, Z, S, Y, K, L, U
    <3> QED  BY ONLY <3>1, <3>2
  <2> QED  BY <1>1, <2>2, <2>3, <2>4, <2>5, <2>6 DEF Balance
<1>10. TablesOK'
  <2>1. \A d \in Cells : cell'[d].ref_cnt \in Nat /\ cell'[d].ref_cnt >= cell[d].ref_cnt
    <3> SUFFICES ASSUME NEW d \in Cells
                 PROVE  cell'[d].ref_cnt \in Nat /\ cell'[d].ref_cnt >= cell[d].ref_cnt
      OBVIOUS
    <3>1. cell[d].ref_cnt \in Nat /\ One(v = d) \in {0, 1}
      BY <1>3 DEF HeapTypes, Made, Objects, One
    <3> QED  BY <1>5, <3>1
  <2> QED  BY <1>1, <1>5, <2>1, TablesKept
<1>11. At(work', AllocCall) = 0
  BY <1>7 DEF AllocCall
<1> QED  BY <1>1, <1>5, <1>7, <1>8, <1>9, <1>10, <1>11, ProgramStep

\* sx_move.
LEMMA MoveStep ==
  ASSUME HeapInv, NEW e \in Slots, NEW a \in Slots, e # a, Move(e, a)
  PROVE  HeapInv'
<1>1. /\ work = << >> /\ slot' = [slot EXCEPT ![e] = slot[a], ![a] = Nil]
      /\ UNCHANGED <<cell, in_use_cnt, sym_set, permanent, loaded, want, status>>
  BY DEF Move, Idle
<1>2. PICK z, v : z = slot[e] /\ v = slot[a] /\ work' = Calls("release", <<z>>)
  BY DEF Move
<1>3. HeapTypes
  BY DEF HeapInv
<1>4. z \in Values /\ v \in Values /\ Nil \in Values
  BY <1>2, <1>3 DEF HeapTypes, Values
<1>5. /\ Releasing'
      /\ \A x : At(work', Call("release", x)) = One(z = x)
      /\ \A op, x : op # "release" => At(work', Call(op, x)) = 0
  BY <1>2, <1>4, Overwritten
<1>6. HeapTypes'
  <2>1. slot' \in [Slots -> Values]
    BY <1>1, <1>2, <1>3, <1>4 DEF HeapTypes
  <2> QED  BY <1>1, <1>3, <2>1 DEF HeapTypes
<1>7. Balanced'
  <2> SUFFICES ASSUME NEW x \in Cells  PROVE Balance(x)'
    BY DEF Balanced
  <2>1. /\ cell[x].ref_cnt = At(slot, x) + One(x \in sym_set) + One(x \in DOMAIN loaded)
                + At(loaded, x) + Cardinality(Uses(cell, x))
        /\ At(slot, x) \in Nat /\ At(loaded, x) \in Nat /\ Cardinality(Uses(cell, x)) \in Nat
        /\ One(x \in sym_set) \in {0, 1} /\ One(x \in DOMAIN loaded) \in {0, 1}
    BY <1>1, IdleBalance
  <2>2. At(slot', x) = At(slot, x) - One(z = x)
    <3>1. DOMAIN slot = Slots /\ IsFiniteSet(Slots) /\ At(slot, x) \in Nat
      BY <1>3, Terms, Zenon
    <3>2. PICK g : g = [slot EXCEPT ![e] = v]
      OBVIOUS
    <3>3. /\ DOMAIN g = DOMAIN slot /\ g[e] = v /\ g[a] = v
          /\ \A s \in Slots : s # e => g[s] = slot[s]
      BY <1>2, <3>1, <3>2
    <3>4. DOMAIN slot' = DOMAIN g /\ slot'[a] = Nil /\ \A s \in Slots : s # a => slot'[s] = g[s]
      BY <1>1, <1>2, <3>1, <3>2, <3>3
    <3>5. e \in DOMAIN slot /\ a \in DOMAIN g /\ IsFiniteSet(DOMAIN g)
      BY <3>1, <3>3
    <3>6. At(g, x) = At(slot, x) - One(slot[e] = x) + One(g[e] = x)
      BY ONLY <3>1, <3>3, <3>5, AtChange
    <3>7. At(slot', x) = At(g, x) - One(g[a] = x) + One(slot'[a] = x)
      BY ONLY <3>1, <3>3, <3>4, <3>5, AtChange
    <3>8. One(Nil = x) = 0 /\ One(v = x) \in {0, 1} /\ One(z = x) \in {0, 1}
      BY CellsFinite DEF One
    <3> QED  BY <1>2, <3>1, <3>3, <3>4, <3>6, <3>7, <3>8
  <2>3. At(work', Call("release", x)) = One(z = x) /\ At(work', Call("mark", x)) = 0
    BY <1>5
  <2> DEFINE r == cell[x].ref_cnt
             Z == One(z = x)
             S == At(slot, x)
             Y == One(x \in sym_set)
             K == One(x \in DOMAIN loaded)
             L == At(loaded, x)
             U == Cardinality(Uses(cell, x))
  <2>4. r + 0 = (S - Z) + Y + K + L + U + Z
    <3>1. r = S + Y + K + L + U /\ S \in Nat /\ L \in Nat /\ U \in Nat /\ Y \in {0, 1} /\ K \in {0, 1}
      BY <2>1
    <3>2. Z \in {0, 1}
      BY DEF One
    <3> HIDE DEF r, Z, S, Y, K, L, U
    <3> QED  BY ONLY <3>1, <3>2
  <2> QED  BY <1>1, <2>2, <2>3, <2>4 DEF Balance, Uses
<1>8. TablesOK'
  <2>1. \A d \in Cells : cell[d].ref_cnt \in Nat
    BY <1>3 DEF HeapTypes, Made, Objects
  <2> QED  BY <1>1, <2>1, TablesKept
<1>9. At(work', AllocCall) = 0
  BY <1>5 DEF AllocCall
<1> QED  BY <1>1, <1>5, <1>6, <1>7, <1>8, <1>9, ProgramStep

\* The elements of an array.
LEMMA SetFieldStep ==
  ASSUME HeapInv, NEW a \in Slots, slot[a] # Nil, cell[slot[a]].type = "array",
         NEW f \in FieldsOf("array"), NEW v \in Expressible, SetField(slot[a], f, v)
  PROVE  HeapInv'
<1>0. PICK c, z : c = slot[a] /\ z = cell[c].refs[f]
  OBVIOUS
<1>1. /\ work = << >> /\ work' = Calls("release", <<z>>)
      /\ UNCHANGED <<in_use_cnt, slot, sym_set, permanent, loaded, want, status>>
  BY <1>0 DEF SetField, Idle
<1>2. PICK g : /\ g = (IF v = Nil THEN cell ELSE Incremented(v))
               /\ cell' = [g EXCEPT ![c].refs[f] = v]
  BY <1>0 DEF SetField
<1>3. HeapTypes
  BY DEF HeapInv
<1>4. v \in Values /\ (v = Nil \/ Referred(v))
  BY <1>1, Named
<1>5. /\ g \in [Cells -> Made]
      /\ \A d \in Cells :
            /\ g[d].ref_cnt = cell[d].ref_cnt + One(v = d)
            /\ g[d].ref_cnt > 0 <=> cell[d].ref_cnt > 0
            /\ g[d].type = cell[d].type /\ g[d].refs = cell[d].refs
            /\ g[d].list = cell[d].list
  BY <1>1, <1>2, <1>4, CountedUp
<1>6. /\ c \in Cells /\ cell[c].type = "array" /\ cell[c].ref_cnt > 0
      /\ cell[c].refs \in Records /\ f \in DOMAIN cell[c].refs
  <2>1. c \in Cells /\ Referred(c) /\ cell[c].type = "array"
    BY <1>0, <1>3 DEF HeapTypes, Values, Referred
  <2>2. cell[c].ref_cnt > 0
    BY <1>1, <2>1, Settled
  <2>3. cell[c].refs \in Records /\ DOMAIN cell[c].refs = FieldsOf("array")
    BY <1>3, <2>1 DEF HeapTypes, Made, Objects, Fields
  <2> QED  BY <2>1, <2>2, <2>3
<1>7. z \in Values
  BY <1>0, <1>6, RecordFinite
<1>8. PICK r : r = [cell[c].refs EXCEPT ![f] = v]
  OBVIOUS
<1>9. /\ r \in Records /\ DOMAIN r = DOMAIN cell[c].refs /\ r[f] = v
      /\ \A n \in DOMAIN r : n # f => r[n] = cell[c].refs[n]
  <2>1. PICK F \in SUBSET Names : cell[c].refs \in [F -> Values]
    BY <1>6 DEF Records
  <2>2. r \in [F -> Values]
    BY <1>4, <1>8, <2>1
  <2> QED  BY <1>6, <1>8, <2>1, <2>2 DEF Records
<1>10. /\ cell'[c] \in Made /\ cell'[c].refs = r
       /\ cell'[c].ref_cnt = g[c].ref_cnt /\ cell'[c].type = g[c].type /\ cell'[c].list = g[c].list
       /\ \A d \in Cells : d # c => cell'[d] = g[d]
       /\ cell' \in [Cells -> Made]
  <2>1. g[c] \in Made /\ g[c].refs = cell[c].refs /\ g[c].type = "array"
    BY <1>5, <1>6
  <2>2. cell' = [g EXCEPT ![c] = [g[c] EXCEPT !.refs = r]]
    BY <1>2, <1>8, <2>1
  <2>3. PICK o : o = [g[c] EXCEPT !.refs = r]
    OBVIOUS
  <2>4. /\ o \in Objects /\ o.refs = r /\ o.ref_cnt = g[c].ref_cnt
        /\ o.type = g[c].type /\ o.list = g[c].list
    BY <1>9, <2>1, <2>3 DEF Made, Objects
  <2>5. o \in Made
    BY <1>9, <2>1, <2>4 DEF Made, ModuleTypes
  <2> QED  BY <1>5, <1>6, <2>2, <2>3, <2>4, <2>5
<1>11. \A d \in Cells : /\ cell'[d].ref_cnt = cell[d].ref_cnt + One(v = d)
                        /\ cell'[d].ref_cnt > 0 <=> cell[d].ref_cnt > 0
                        /\ cell'[d].type = cell[d].type /\ cell'[d].list = cell[d].list
                        /\ d # c => cell'[d].refs = cell[d].refs
  <2> SUFFICES ASSUME NEW d \in Cells
               PROVE  /\ cell'[d].ref_cnt = g[d].ref_cnt
                      /\ cell'[d].type = g[d].type /\ cell'[d].list = g[d].list
                      /\ d # c => cell'[d].refs = g[d].refs
    BY <1>5
  <2> QED  BY <1>10
<1>12. /\ Releasing'
       /\ \A x : At(work', Call("release", x)) = One(z = x)
       /\ \A op, x : op # "release" => At(work', Call(op, x)) = 0
  BY <1>1, <1>7, Overwritten
<1>13. HeapTypes'
  BY <1>1, <1>3, <1>10, <1>11 DEF HeapTypes
<1>14. Balanced'
  <2> SUFFICES ASSUME NEW x \in Cells  PROVE Balance(x)'
    BY DEF Balanced
  <2>1. /\ cell[x].ref_cnt = At(slot, x) + One(x \in sym_set) + One(x \in DOMAIN loaded)
                + At(loaded, x) + Cardinality(Uses(cell, x))
        /\ At(slot, x) \in Nat /\ At(loaded, x) \in Nat /\ Cardinality(Uses(cell, x)) \in Nat
        /\ One(x \in sym_set) \in {0, 1} /\ One(x \in DOMAIN loaded) \in {0, 1}
    BY <1>1, IdleBalance
  <2>2. Cardinality(Uses(cell', x)) = Cardinality(Uses(cell, x)) - One(z = x) + One(v = x)
    <3>1. cell \in [Cells -> Objects] /\ cell' \in [Cells -> Objects]
      BY <1>3, <1>10 DEF HeapTypes, Made
    <3>2. \A d \in Cells : d # c => Alike(cell[d], cell'[d])
      BY <1>11 DEF Alike
    <3>3. Cardinality(Uses(cell', x)) = Cardinality(Uses(cell, x)) - Used(cell[c], x) + Used(cell'[c], x)
      BY <1>6, <3>1, <3>2, UsesChange
    <3>4. Used(cell[c], x) = At(cell[c].refs, x) /\ Used(cell'[c], x) = At(r, x)
      BY <1>6, <1>10, <1>11 DEF Used
    <3>5. IsFiniteSet(DOMAIN cell[c].refs)
      BY <1>6, RecordFinite
    <3>6. PICK q : q = cell[c].refs
      OBVIOUS
    <3>7. /\ f \in DOMAIN q /\ IsFiniteSet(DOMAIN q) /\ DOMAIN r = DOMAIN q
          /\ \A n \in DOMAIN q : n # f => r[n] = q[n]
      BY <1>6, <1>9, <3>5, <3>6
    <3>8. At(r, x) = At(q, x) - One(q[f] = x) + One(r[f] = x) /\ At(q, x) \in Nat
      BY ONLY <3>7, AtChange, AtNat
    <3>9. At(r, x) = At(q, x) - One(z = x) + One(v = x) /\ At(q, x) \in Nat
      BY <1>0, <1>9, <3>6, <3>8
    <3>10. One(z = x) \in {0, 1} /\ One(v = x) \in {0, 1}
      BY DEF One
    <3> QED  BY <2>1, <3>3, <3>4, <3>6, <3>9, <3>10
  <2>3. At(work', Call("release", x)) = One(z = x) /\ At(work', Call("mark", x)) = 0
    BY <1>12
  <2>4. cell'[x].ref_cnt = cell[x].ref_cnt + One(v = x)
    BY <1>11
  <2> DEFINE n == cell[x].ref_cnt
             V == One(v = x)
             Z == One(z = x)
             S == At(slot, x)
             Y == One(x \in sym_set)
             K == One(x \in DOMAIN loaded)
             L == At(loaded, x)
             U == Cardinality(Uses(cell, x))
  <2>5. n + V + 0 = S + Y + K + L + (U - Z + V) + Z
    <3>1. n = S + Y + K + L + U /\ S \in Nat /\ L \in Nat /\ U \in Nat /\ Y \in {0, 1} /\ K \in {0, 1}
      BY <2>1
    <3>2. V \in {0, 1} /\ Z \in {0, 1}
      BY DEF One
    <3> HIDE DEF n, V, Z, S, Y, K, L, U
    <3> QED  BY ONLY <3>1, <3>2
  <2> QED  BY <1>1, <2>2, <2>3, <2>4, <2>5 DEF Balance
<1>15. TablesOK'
  <2>1. \A d \in Cells : cell'[d].ref_cnt \in Nat /\ cell'[d].ref_cnt >= cell[d].ref_cnt
    <3> SUFFICES ASSUME NEW d \in Cells
                 PROVE  cell'[d].ref_cnt \in Nat /\ cell'[d].ref_cnt >= cell[d].ref_cnt
      OBVIOUS
    <3>1. cell[d].ref_cnt \in Nat /\ One(v = d) \in {0, 1}
      BY <1>3 DEF HeapTypes, Made, Objects, One
    <3> QED  BY <1>11, <3>1
  <2>2. \A d \in Cells : cell[d].type \in ModuleTypes => cell'[d].refs = cell[d].refs
    BY <1>6, <1>11 DEF ModuleTypes
  <2> QED  BY <1>1, <1>11, <2>1, <2>2, TablesKept
<1>16. At(work', AllocCall) = 0
  BY <1>12 DEF AllocCall
<1> QED  BY <1>1, <1>11, <1>12, <1>13, <1>14, <1>15, <1>16, ProgramStep

\* A module is entered into the dictionary of loaded modules.
LEMMA LoadStep ==
  ASSUME Sound, HeapInv, NEW a \in Slots, Load(a)
  PROVE  HeapInv'
<1>0. PICK m, k : m = slot[a] /\ k = cell[m].refs["sha1"]
  OBVIOUS
<1>1. /\ work = << >> /\ m # Nil /\ cell[m].type \in ModuleTypes
      /\ loaded' = [x \in DOMAIN loaded \cup {k} |-> IF x = k THEN m ELSE loaded[x]]
      /\ work' = IF k \in DOMAIN loaded THEN Calls("release", <<k, loaded[k]>>) ELSE << >>
      /\ UNCHANGED <<in_use_cnt, slot, sym_set, permanent, want, status>>
  BY <1>0 DEF Load, Idle
<1>2. PICK g : g = Incremented(m) /\ cell' = [g EXCEPT ![k].ref_cnt = @ + 1]
  BY <1>0 DEF Load
<1>3. HeapTypes /\ TablesOK
  BY DEF HeapInv
<1>4. /\ m \in Cells /\ Referred(m) /\ cell[m].ref_cnt > 0
      /\ cell[m] \in Made /\ cell[m].type \in Types /\ cell[m].type \in AllTypes
  <2>1. m \in Cells /\ Referred(m)
    BY <1>0, <1>1, <1>3 DEF HeapTypes, Values, Referred
  <2>2. cell[m].ref_cnt > 0
    BY <1>1, <2>1, Settled
  <2>3. cell[m].type \in Types
    BY <1>1, <1>3, <2>1 DEF HeapTypes, Made, ModuleTypes
  <2> QED  BY <1>3, <2>1, <2>2, <2>3, HeapAssumption DEF HeapTypes
<1>5. k \in Cells /\ Referred(k) /\ cell[k].ref_cnt > 0
  <2>1. k \in Cells
    BY <1>0, <1>1, <1>4 DEF Made
  <2>2. "sha1" \in DOMAIN cell[m].refs
    <3>1. "sha1" \in FieldsOf(cell[m].type) /\ cell[m].type # "none"
      BY <1>1, <1>4, Tables DEF ModuleTypes
    <3> QED  BY <1>4, <3>1 DEF Made, Fields
  <2>3. Referred(k)
    BY <1>0, <1>4, <2>2 DEF Referred
  <2> QED  BY <1>1, <2>1, <2>3, Settled
<1>6. ~ Collects
  <2> SUFFICES ASSUME Collects  PROVE FALSE
    OBVIOUS
  <2>1. {Marked[cell[m].type][i] : i \in DOMAIN Marked[cell[m].type]} = FieldsOf(cell[m].type)
    BY <1>4 DEF Sound
  <2>2. cell[m].type = "module" \/ cell[m].type = "lib"
    BY <1>1 DEF ModuleTypes
  <2>3. "sha1" \in FieldsOf(cell[m].type)
    BY <1>1, <1>4, Tables
  <2>4. Marked[cell[m].type] = <<"dict">>
    BY <2>2, MarkedIs
  <2> QED  BY <2>1, <2>3, <2>4
\* The counts.
<1>7. /\ g \in [Cells -> Made]
      /\ \A d \in Cells :
            /\ g[d].ref_cnt = cell[d].ref_cnt + One(m = d)
            /\ g[d].ref_cnt > 0 <=> cell[d].ref_cnt > 0
            /\ g[d].type = cell[d].type /\ g[d].refs = cell[d].refs
            /\ g[d].list = cell[d].list
  <2>1. m \in Values /\ m # Nil
    BY <1>1, <1>4 DEF Values
  <2>2. g = IF m = Nil THEN cell ELSE Incremented(m)
    BY <1>2, <2>1
  <2> QED  BY <1>1, <1>4, <2>1, <2>2, CountedUp
<1>8. /\ cell' \in [Cells -> Made]
      /\ \A d \in Cells :
            /\ cell'[d].ref_cnt = cell[d].ref_cnt + One(m = d) + One(k = d)
            /\ cell'[d].ref_cnt > 0 <=> cell[d].ref_cnt > 0
            /\ cell'[d].ref_cnt \in Nat /\ cell'[d].ref_cnt >= cell[d].ref_cnt
            /\ cell'[d].type = cell[d].type /\ cell'[d].refs = cell[d].refs
            /\ cell'[d].list = cell[d].list
  <2>1. PICK o : o = [g[k] EXCEPT !.ref_cnt = @ + 1]
    OBVIOUS
  <2>2. cell' = [g EXCEPT ![k] = o]
    BY <1>2, <1>5, <1>7, <2>1
  <2>3. g[k] \in Made /\ g[k].ref_cnt \in Nat
    BY <1>5, <1>7 DEF Made, Objects
  <2>4. /\ o \in Objects /\ o.refs = g[k].refs /\ o.ref_cnt = g[k].ref_cnt + 1
        /\ o.type = g[k].type /\ o.list = g[k].list
    BY <2>1, <2>3 DEF Made, Objects
  <2>5. o \in Made
    BY <2>3, <2>4 DEF Made
  <2>6. cell' \in [Cells -> Made] /\ cell'[k] = o /\ \A d \in Cells : d # k => cell'[d] = g[d]
    BY <1>5, <1>7, <2>2, <2>5
  <2>7. ASSUME NEW d \in Cells
        PROVE  /\ cell'[d].ref_cnt = g[d].ref_cnt + One(k = d)
               /\ cell'[d].type = g[d].type /\ cell'[d].refs = g[d].refs
               /\ cell'[d].list = g[d].list
    <3>1. CASE d = k
      BY <2>4, <2>6, <3>1 DEF One
    <3>2. CASE d # k
      <4>1. cell'[d] = g[d] /\ One(k = d) = 0 /\ g[d].ref_cnt \in Nat
        BY <1>7, <2>6, <3>2 DEF One, Made, Objects
      <4> QED  BY <4>1
    <3> QED  BY <3>1, <3>2
  <2>8. ASSUME NEW d \in Cells
        PROVE  /\ cell'[d].ref_cnt = cell[d].ref_cnt + One(m = d) + One(k = d)
               /\ cell'[d].ref_cnt > 0 <=> cell[d].ref_cnt > 0
               /\ cell'[d].ref_cnt \in Nat /\ cell'[d].ref_cnt >= cell[d].ref_cnt
    <3>1. cell[d].ref_cnt \in Nat /\ One(m = d) \in {0, 1} /\ One(k = d) \in {0, 1}
      BY <1>3 DEF HeapTypes, Made, Objects, One
    <3>2. (m = d => cell[d].ref_cnt > 0) /\ (k = d => cell[d].ref_cnt > 0)
      BY <1>4, <1>5
    <3>3. (m # d => One(m = d) = 0) /\ (k # d => One(k = d) = 0)
      BY DEF One
    <3>4. cell'[d].ref_cnt = cell[d].ref_cnt + One(m = d) + One(k = d)
      BY <1>7, <2>7
    <3> QED  BY <3>1, <3>2, <3>3, <3>4
  <2> QED  BY <1>7, <2>6, <2>7, <2>8
\* The entry, and the release of what it held.
<1>9. /\ DOMAIN loaded' = DOMAIN loaded \cup {k} /\ loaded'[k] = m
      /\ \A x \in DOMAIN loaded : x # k => loaded'[x] = loaded[x]
      /\ \A x \in DOMAIN loaded' : loaded'[x] \in Cells
      /\ IsFiniteSet(DOMAIN loaded)
  <2>1. IsFiniteSet(DOMAIN loaded)
    BY <1>3, Terms, Zenon
  <2>2. \A x \in DOMAIN loaded : loaded[x] \in Cells
    BY <1>3 DEF HeapTypes
  <2> QED  BY <1>1, <1>4, <2>1, <2>2
<1>10. /\ Releasing' /\ At(work', AllocCall) = 0
       /\ \A x : /\ At(work', Call("free1", x)) = 0 /\ At(work', Call("mark", x)) = 0
                 /\ At(work', Call("release", x)) =
                       IF k \in DOMAIN loaded THEN One(k = x) + One(loaded[k] = x) ELSE 0
  <2>1. CASE k \notin DOMAIN loaded
    <3>1. work' = << >> /\ << >> \in Ends
      BY <1>1, <2>1 DEF Ends
    <3>2. Releasing'
      BY <3>1, BackSeqs, PhaseEnd DEF Releasing
    <3> QED  BY <2>1, <3>1, <3>2, AtEmpty
  <2>2. CASE k \in DOMAIN loaded
    <3>1. PICK o \in Cells : o = loaded[k] /\ work' = Calls("release", <<k, o>>)
      BY <1>1, <1>3, <2>2 DEF HeapTypes
    <3>2. k \in Values /\ o \in Values
      BY <1>5 DEF Values
    <3>3. PICK s : s = <<k, o>>
      OBVIOUS
    <3>4. s \in Seq(Values) /\ \A x : At(s, x) = One(k = x) + One(o = x)
      BY <3>2, <3>3, AtTwo
    <3>5. PICK e : e = Calls("release", s) /\ work' = e
      BY <3>1, <3>3
    <3>6. e \in Seq(Releases)
      BY <3>4, <3>5, CallsSeq
    <3>7. \A op, x : At(e, Call(op, x)) = IF op = "release" THEN At(s, x) ELSE 0
      BY <3>4, <3>5, CallsCount
    <3>8. e \in Seq(Releases \cup Frees) /\ << >> \in Ends /\ e = e \o << >>
      BY <3>6, SeqMonotonic, ConcatEmptySeq DEF Ends
    <3>9. Releasing'
      BY <3>5, <3>8 DEF Releasing, InPhase
    <3> QED  BY <2>2, <3>1, <3>4, <3>5, <3>7, <3>9 DEF AllocCall
  <2> QED  BY <2>1, <2>2
<1>11. HeapTypes'
  <2>1. loaded' \in [DOMAIN loaded' -> Cells]
    BY <1>1, <1>9
  <2>2. DOMAIN loaded' \subseteq Cells
    BY <1>3, <1>5, <1>9 DEF HeapTypes
  <2>3. \A c \in sym_set' : cell'[c].type = "sym"
    BY <1>1, <1>3, <1>8 DEF HeapTypes
  <2> QED  BY <1>1, <1>3, <1>6, <1>8, <2>1, <2>2, <2>3 DEF HeapTypes
<1>12. Balanced'
  <2> SUFFICES ASSUME NEW x \in Cells  PROVE Balance(x)'
    BY DEF Balanced
  <2>1. /\ cell[x].ref_cnt = At(slot, x) + One(x \in sym_set) + One(x \in DOMAIN loaded)
                + At(loaded, x) + Cardinality(Uses(cell, x))
        /\ At(slot, x) \in Nat /\ At(loaded, x) \in Nat /\ Cardinality(Uses(cell, x)) \in Nat
        /\ One(x \in sym_set) \in {0, 1} /\ One(x \in DOMAIN loaded) \in {0, 1}
    BY <1>1, IdleBalance
  <2>2. Cardinality(Uses(cell', x)) = Cardinality(Uses(cell, x))
    <3>1. cell \in [Cells -> Objects] /\ cell' \in [Cells -> Objects]
      BY <1>3, <1>8 DEF HeapTypes, Made
    <3>2. \A d \in Cells : Alike(cell[d], cell'[d])
      BY <1>8 DEF Alike
    <3> QED  BY <3>1, <3>2, UsesSame
  <2>3. At(work', Call("mark", x)) = 0
    BY <1>10
  <2>4. cell'[x].ref_cnt = cell[x].ref_cnt + One(m = x) + One(k = x)
    BY <1>8
  <2> DEFINE n == cell[x].ref_cnt
             V == One(m = x)
             Z == One(k = x)
             S == At(slot, x)
             Y == One(x \in sym_set)
             K == One(x \in DOMAIN loaded)
             L == At(loaded, x)
             U == Cardinality(Uses(cell, x))
             K1 == One(x \in DOMAIN loaded')
             L1 == At(loaded', x)
             R1 == At(work', Call("release", x))
  <2>5. K1 + L1 + R1 = K + L + V + Z
    <3>1. CASE k \notin DOMAIN loaded
      <4>1. L1 = L + V
        <5>1. At(loaded', x) = At(loaded, x) + One(loaded'[k] = x)
          <6>1. \A s \in DOMAIN loaded : loaded'[s] = loaded[s]
            BY <1>9, <3>1
          <6> QED  BY ONLY <1>9, <3>1, <6>1, AtAdd
        <5> QED  BY <1>9, <5>1
      <4>2. K1 = K + Z
        <5>1. x \in DOMAIN loaded' <=> x \in DOMAIN loaded \/ x = k
          BY <1>9
        <5>2. ~ (x \in DOMAIN loaded /\ x = k)
          BY <3>1
        <5> QED  BY <5>1, <5>2 DEF One
      <4>3. R1 = 0
        BY <1>10, <3>1
      <4>4. L \in Nat /\ K \in {0, 1} /\ V \in {0, 1} /\ Z \in {0, 1}
        BY <2>1 DEF One
      <4> HIDE DEF n, V, Z, S, Y, K, L, U, K1, L1, R1
      <4> QED  BY ONLY <4>1, <4>2, <4>3, <4>4
    <3>2. CASE k \in DOMAIN loaded
      <4> DEFINE O == One(loaded[k] = x)
      <4>1. L1 = L - O + V
        <5>1. At(loaded', x) = At(loaded, x) - One(loaded[k] = x) + One(loaded'[k] = x)
          <6>1. DOMAIN loaded' = DOMAIN loaded
            BY <1>9, <3>2
          <6> QED  BY ONLY <1>9, <3>2, <6>1, AtChange
        <5> QED  BY <1>9, <5>1
      <4>2. K1 = K
        <5>1. DOMAIN loaded' = DOMAIN loaded
          BY <1>9, <3>2
        <5> QED  BY <5>1
      <4>3. R1 = Z + O
        BY <1>10, <3>2
      <4>4. L \in Nat /\ K \in {0, 1} /\ V \in {0, 1} /\ Z \in {0, 1} /\ O \in {0, 1}
        BY <2>1 DEF One
      <4> HIDE DEF n, V, Z, S, Y, K, L, U, K1, L1, R1, O
      <4> QED  BY ONLY <4>1, <4>2, <4>3, <4>4
    <3> QED  BY <3>1, <3>2
  <2>6. K1 \in {0, 1} /\ L1 \in Nat /\ R1 \in Nat
    <3>1. IsFiniteSet(DOMAIN loaded')
      BY <1>9, FS_AddElement
    <3>2. At(loaded', x) \in Nat
      BY <3>1, AtNat
    <3>3. R1 \in Nat
      <4>1. CASE k \in DOMAIN loaded
        BY <1>10, <4>1 DEF One
      <4>2. CASE k \notin DOMAIN loaded
        BY <1>10, <4>2
      <4> QED  BY <4>1, <4>2
    <3> QED  BY <3>2, <3>3 DEF One
  <2>7. n + V + Z + 0 = S + Y + K1 + L1 + U + R1
    <3>1. n = S + Y + K + L + U /\ S \in Nat /\ L \in Nat /\ U \in Nat /\ Y \in {0, 1} /\ K \in {0, 1}
      BY <2>1
    <3>2. V \in {0, 1} /\ Z \in {0, 1}
      BY DEF One
    <3> HIDE DEF n, V, Z, S, Y, K, L, U, K1, L1, R1
    <3> QED  BY ONLY <2>5, <2>6, <3>1, <3>2
  <2> QED  BY <1>1, <2>2, <2>3, <2>4, <2>7 DEF Balance
<1>13. TablesOK'
  <2>1. ASSUME NEW x \in DOMAIN loaded'
        PROVE  /\ cell'[loaded'[x]].type \in ModuleTypes
               /\ cell'[loaded'[x]].refs["sha1"] = x
               /\ cell'[loaded'[x]].ref_cnt > 1
    <3>1. CASE x = k
      <4>1. One(m = m) = 1 /\ One(k = m) \in {0, 1} /\ cell[m].ref_cnt \in Nat
        BY <1>4 DEF One, Made, Objects
      <4>2. cell'[m].ref_cnt = cell[m].ref_cnt + One(m = m) + One(k = m)
        BY <1>4, <1>8
      <4>3. cell'[m].ref_cnt > 1
        BY <1>4, <4>1, <4>2
      <4> QED  BY <1>0, <1>1, <1>4, <1>8, <1>9, <3>1, <4>3
    <3>2. CASE x # k
      <4>1. PICK d \in Cells : /\ d = loaded'[x] /\ d = loaded[x]
                               /\ cell[d].type \in ModuleTypes /\ cell[d].refs["sha1"] = x
                               /\ cell[d].ref_cnt > 1
        BY <1>3, <1>9, <2>1, <3>2 DEF TablesOK
      <4>2. cell[d].ref_cnt \in Nat
        BY <1>3 DEF HeapTypes, Made, Objects
      <4> QED  BY <1>8, <4>1, <4>2
    <3> QED  BY <3>1, <3>2
  <2>2. ASSUME NEW d \in sym_set' \ permanent'  PROVE cell'[d].ref_cnt > 1
    <3>1. d \in Cells /\ d \in sym_set \ permanent
      BY <1>1, <1>3, <2>2 DEF HeapTypes
    <3>2. At(work, SymCall) = 0
      BY <1>1, Settled
    <3>3. cell[d].ref_cnt > 1 /\ cell[d].ref_cnt \in Nat
      BY <1>3, <3>1, <3>2 DEF TablesOK, HeapTypes, Made, Objects
    <3> QED  BY <1>8, <3>1, <3>3
  <2> QED  BY <2>1, <2>2 DEF TablesOK
<1> QED  BY <1>1, <1>8, <1>10, <1>11, <1>12, <1>13, ProgramStep

-----------------------------------------------------------------------------
(* The invariant holds.                                                    *)

LEMMA InitOK ==
  ASSUME Init
  PROVE  HeapInv
<1>1. PICK c \in Cells :
         /\ cell = [d \in Cells |->
                IF d = c THEN [type |-> "sym", refs |-> NoFields, ref_cnt |-> 1,
                               list |-> "white"]
                ELSE IF PageOf(d) = PageOf(c) THEN FreeCell ELSE Unmapped]
         /\ in_use_cnt = [p \in Pages |-> IF p = PageOf(c) THEN 1 ELSE 0]
         /\ sym_set = {c} /\ permanent = {c}
         /\ slot = [s \in Slots |-> Nil]
         /\ loaded = << >> /\ want = NoWant /\ work = << >> /\ status = "run"
  BY DEF Init
<1>2. PICK o : o = [type |-> "sym", refs |-> NoFields, ref_cnt |-> 1, list |-> "white"]
  OBVIOUS
<1>3. NoFields \in Records /\ DOMAIN NoFields = {}
  BY DEF NoFields, Records
<1>4. o \in Made /\ o.type = "sym" /\ o.refs = NoFields /\ o.ref_cnt = 1 /\ o.list = "white"
  <2>1. "sym" \in AllTypes /\ "sym" # "none" /\ "sym" \notin ModuleTypes
    BY DEF AllTypes, Retained, ModuleTypes
  <2>2. o \in Objects
    BY <1>2, <1>3, <2>1 DEF Objects
  <2>3. Fields("sym") = {}
    BY FieldsAre DEF Fields
  <2> QED  BY <1>2, <1>3, <2>1, <2>2, <2>3 DEF Made
<1>5. ASSUME NEW d \in Cells
      PROVE  /\ cell[d] \in Made /\ (d = c => cell[d] = o)
             /\ d # c => /\ cell[d].ref_cnt = 0 /\ cell[d].list \in {"free", "unmapped"}
             /\ cell[d].list = "unmapped" <=> PageOf(d) # PageOf(c)
  BY <1>1, <1>2, <1>4, Blank
<1>6. DOMAIN loaded = {} /\ loaded \in [DOMAIN loaded -> Cells]
  BY <1>1
<1>7. HeapTypes
  <2>1. cell \in [Cells -> Made]
    <3>1. cell = [d \in Cells |-> cell[d]]
      BY <1>1
    <3> QED  BY <1>5, <3>1
  <2>2. slot \in [Slots -> Values]
    BY <1>1 DEF Values
  <2>3. in_use_cnt \in [Pages -> Nat]
    BY <1>1
  <2>4. \A d \in sym_set : cell[d].type = "sym"
    BY <1>1, <1>4, <1>5
  <2> QED  BY <1>1, <1>6, <2>1, <2>2, <2>3, <2>4 DEF HeapTypes
<1>8. \A x : At(work, x) = 0
  BY <1>1, AtEmpty
<1>9. Balanced
  <2> SUFFICES ASSUME NEW x \in Cells  PROVE Balance(x)
    BY DEF Balanced
  <2>1. At(slot, x) = 0
    <3>1. {s \in DOMAIN slot : slot[s] = x} = {}
      BY <1>1, CellsFinite
    <3> QED  BY <3>1, FS_EmptySet DEF At
  <2>2. At(loaded, x) = 0 /\ One(x \in DOMAIN loaded) = 0
    BY <1>6, FS_EmptySet DEF At, One
  <2>3. Cardinality(Uses(cell, x)) = 0
    <3>1. \A d \in Cells : cell[d].ref_cnt > 0 => DOMAIN cell[d].refs = {}
      BY <1>3, <1>4, <1>5
    <3>2. Uses(cell, x) = {}
      BY <3>1 DEF Uses
    <3> QED  BY <3>2, FS_EmptySet
  <2>4. One(x \in sym_set) = cell[x].ref_cnt
    BY <1>1, <1>4, <1>5 DEF One
  <2>5. cell[x].ref_cnt \in {0, 1}
    BY <1>4, <1>5
  <2> QED  BY <1>8, <2>1, <2>2, <2>3, <2>4, <2>5 DEF Balance
<1>10. Phased
  <2>1. OnList("grey") = {}
    BY <1>4, <1>5 DEF OnList
  <2>2. Releasing
    BY <1>1, BackSeqs, PhaseEnd DEF Releasing, Ends
  <2> QED  BY <2>1, <2>2 DEF Phased
<1>11. \A d \in Cells : Reclaimed(d)
  BY <1>4, <1>5, <1>8 DEF Reclaimed, InUse, One
<1>12. \A p \in Pages : PageCounted(p)
  <2> SUFFICES ASSUME NEW p \in Pages  PROVE PageCounted(p)
    OBVIOUS
  <2>1. \A d \in p : d \in Cells /\ PageOf(d) = p
    BY PagesApart DEF Cells
  <2>2. \A d \in Cells : InUse(d) <=> d = c
    BY <1>4, <1>5 DEF InUse
  <2>3. {d \in p : InUse(d)} = IF p = PageOf(c) THEN {c} ELSE {}
    BY <2>1, <2>2, PagesApart
  <2>4. in_use_cnt[p] = IF p = PageOf(c) THEN 1 ELSE 0
    BY <1>1
  <2>5. \A d \in p : cell[d].list = "unmapped" <=> in_use_cnt[p] = 0
    BY <1>5, <2>1, <2>4
  <2> QED  BY <2>3, <2>4, <2>5, FS_Singleton, FS_EmptySet DEF PageCounted
<1>13. WantOK /\ TablesOK
  BY <1>1, <1>6, <1>8 DEF WantOK, TablesOK
<1> QED  BY <1>7, <1>9, <1>10, <1>11, <1>12, <1>13 DEF HeapInv

LEMMA NextOK ==
  ASSUME Sound, HeapInv, [Next]_vars
  PROVE  HeapInv'
<1>1. CASE CallNil
  BY <1>1, NilStep
<1>2. CASE Release
  BY <1>2, ReleaseStep
<1>3. CASE Free1
  BY <1>3, FreeStep
<1>4. CASE Mark
  BY <1>4, MarkStep
<1>5. CASE Sweep
  BY <1>5, SweepStep
<1>6. CASE SymCollect
  BY <1>6, SymStep
<1>7. CASE Retry
  BY <1>7, RetryStep
<1>8. ASSUME NEW t \in Types, NEW d \in Slots, New(t, d)  PROVE HeapInv'
  BY <1>8, NewStep
<1>9. ASSUME NEW s \in Slots, NEW v \in Expressible, Assign(s, v)  PROVE HeapInv'
  BY <1>9, AssignStep
<1>10. ASSUME NEW d \in Slots, NEW s \in Slots, d # s, Move(d, s)  PROVE HeapInv'
  BY <1>10, MoveStep
<1>11. ASSUME NEW s \in Slots, NEW v \in Expressible, slot[s] # Nil, cell[slot[s]].type = "array",
              NEW f \in FieldsOf("array"), SetField(slot[s], f, v)
       PROVE  HeapInv'
  BY <1>11, SetFieldStep
<1>12. ASSUME NEW s \in Slots, Load(s)  PROVE HeapInv'
  BY <1>12, LoadStep
<1>13. CASE Collect
  <2>1. PICK symbols \in SetToSeqs(sym_set) : work' = CollectCalls(symbols)
    BY <1>13 DEF Collect
  <2>2. /\ work = << >> /\ Collects /\ cell' = Greyed
        /\ UNCHANGED <<in_use_cnt, slot, sym_set, permanent, loaded, want, status>>
    BY <1>13 DEF Collect, Idle
  <2> QED  BY <2>1, <2>2, CollectStep
<1>14. CASE UNCHANGED vars
  <2>1. status' \in {"run", "fatal"}
    BY <1>14 DEF vars, HeapInv, HeapTypes
  <2> QED  BY <1>14, <2>1, StatusStep DEF vars
<1> QED  BY <1>1, <1>2, <1>3, <1>4, <1>5, <1>6, <1>7, <1>8, <1>9, <1>10, <1>11, <1>12, <1>13, <1>14
         DEF Next, Stopped

\* The invariant of the memory manager, for the types that are Sound.
THEOREM HeapInvariant ==
  ASSUME Sound
  PROVE  Spec => []HeapInv
<1>1. Init => HeapInv
  BY InitOK
<1>2. HeapInv /\ [Next]_vars => HeapInv'
  BY NextOK
<1> QED  BY <1>1, <1>2, PTL DEF Spec

-----------------------------------------------------------------------------
(* The properties of Heap.                                                 *)

\* Reference counts are exact at every step of a release and of a collection.
THEOREM CountsAreExact ==
  ASSUME Sound
  PROVE  Spec => []RefCntExact
<1>1. HeapInv => RefCntExact
  BY Exactly DEF HeapInv
<1> QED  BY <1>1, HeapInvariant, PTL

\* The heap, the tables and the pending calls keep their types.
THEOREM HeapTyped ==
  ASSUME Sound
  PROVE  Spec => []TypeOK
<1>1. ASSUME HeapInv  PROVE TypeOK
  <2>1. HeapTypes /\ Phased
    BY <1>1 DEF HeapInv
  <2>2. ASSUME NEW c \in Cells
        PROVE  /\ cell[c].type \in AllTypes \cup {"none"}
               /\ DOMAIN cell[c].refs = IF cell[c].type = "none" THEN {} ELSE FieldsOf(cell[c].type)
               /\ \A f \in DOMAIN cell[c].refs : cell[c].refs[f] \in Values
               /\ cell[c].ref_cnt \in Nat
               /\ cell[c].list \in {"unmapped", "free", "white", "grey"}
    <3>1. cell[c] \in Made /\ cell[c] \in Objects /\ cell[c].refs \in Records
      BY <2>1 DEF HeapTypes, Made, Objects
    <3>2. \A f \in DOMAIN cell[c].refs : cell[c].refs[f] \in Values
      BY <3>1, RecordFinite
    <3> QED  BY <3>1, <3>2 DEF Made, Objects, Fields
  <2>3. Range(loaded) \subseteq Cells
    BY <2>1 DEF HeapTypes, Range
  <2>4. \A i \in DOMAIN work : work[i].sx \in Values
    <3>1. work \in Seq(AllCalls)
      BY <2>1, WorkSeq
    <3>2. \A m \in AllCalls : m.sx \in Values
      <4>1. \A m \in LastCalls : m.sx = Nil
        BY DEF LastCalls, SweepCall, SymCall, AllocCall, Call
      <4> QED  BY <4>1, CallIs DEF AllCalls, Values
    <3> QED  BY <3>1, <3>2
  <2> QED  BY <2>1, <2>2, <2>3, <2>4 DEF TypeOK, HeapTypes
<1> QED  BY <1>1, HeapInvariant, PTL

\* While the program runs, an object is in use just when it is referred to, and
\* pages come and go with the objects in them.
THEOREM NoObjectLingers ==
  ASSUME Sound
  PROVE  Spec => []NothingLingers
<1>1. ASSUME HeapInv, Idle  PROVE \A c \in Cells : InUse(c) <=> cell[c].ref_cnt > 0
  BY <1>1, Settled DEF Idle
<1>2. ASSUME HeapInv, NEW p \in Pages
      PROVE  LET used == {c \in p : InUse(c)}
             IN  /\ in_use_cnt[p] = Cardinality(used)
                 /\ used = {} <=> \A c \in p : cell[c].list = "unmapped"
  <2> DEFINE used == {c \in p : InUse(c)}
  <2>1. in_use_cnt[p] = Cardinality(used) /\ \A c \in p : cell[c].list = "unmapped" <=> in_use_cnt[p] = 0
    BY <1>2 DEF HeapInv, PageCounted
  <2>2. IsFiniteSet(used) /\ p # {}
    BY HeapAssumption, FS_Subset
  <2>3. used = {} <=> in_use_cnt[p] = 0
    <3> HIDE DEF used
    <3> QED  BY <2>1, <2>2, FS_EmptySet
  <2> HIDE DEF used
  <2>4. used = {} <=> \A c \in p : cell[c].list = "unmapped"
    BY <2>1, <2>2, <2>3
  <2> QED  BY <2>1, <2>4 DEF used
<1>3. HeapInv => NothingLingers
  BY <1>1, <1>2 DEF NothingLingers
<1> QED  BY <1>3, HeapInvariant, PTL

\* The symbol table and the dictionary of loaded modules keep nothing alive.
THEOREM TablesHoldNothing ==
  ASSUME Sound
  PROVE  Spec => []TablesDoNotHold
<1>1. ASSUME HeapInv, Idle, NEW c \in (sym_set \ permanent) \cup Range(loaded)
      PROVE  cell[c].ref_cnt > 1
  <2>1. TablesOK /\ At(work, SymCall) = 0
    BY <1>1, Settled DEF HeapInv, Idle
  <2> QED  BY <1>1, <2>1 DEF TablesOK, Range
<1>2. HeapInv => TablesDoNotHold
  BY <1>1 DEF TablesDoNotHold
<1> QED  BY <1>2, HeapInvariant, PTL

-----------------------------------------------------------------------------
(* What the program can reach.                                             *)

Roots == M!Held \cup sym_set

Alive == {c \in Cells : cell[c].ref_cnt > 0}

LEMMA ClosedIs ==
  ASSUME NEW R, NEW S \in SUBSET Cells
  PROVE  /\ M!Closed(R, S) <=>
               R \subseteq S /\ \A c \in S : \A f \in DOMAIN cell[c].refs :
                                   cell[c].refs[f] \in S \cup {Nil}
         /\ M!Closed(R, S) => M!Reachable(R) \subseteq S
<1>1. \A c \in S : [d \in Cells |-> cell[d].refs][c] = cell[c].refs
  OBVIOUS
<1>2. M!Closed(R, S) <=>
         R \subseteq S /\ \A c \in S : \A f \in DOMAIN cell[c].refs :
                             cell[c].refs[f] \in S \cup {Nil}
  BY <1>1 DEF M!Closed
<1>3. M!Closed(R, S) => M!Reachable(R) \subseteq S
  BY DEF M!Reachable
<1> QED  BY <1>2, <1>3

LEMMA RootsReferred ==
  ASSUME HeapInv, NEW x \in Roots \cup Range(loaded)
  PROVE  x \in Cells /\ Referred(x)
<1>1. HeapTypes
  BY DEF HeapInv
<1>2. M!Held = {slot[s] : s \in Slots} \ {Nil}
  BY DEF M!Held, M!Slots, Slots
<1>3. CASE x \in M!Held
  BY <1>1, <1>2, <1>3 DEF HeapTypes, Values, Referred
<1>4. CASE x \in sym_set
  BY <1>1, <1>4 DEF HeapTypes, Referred
<1>5. CASE x \in Range(loaded)
  BY <1>1, <1>5 DEF HeapTypes, Referred, Range
<1> QED  BY <1>3, <1>4, <1>5 DEF Roots

\* What is referred to refers to no free cell, but while a collection counts.
LEMMA AliveClosed ==
  ASSUME HeapInv, \A x : At(work, Call("mark", x)) = 0
  PROVE  M!Closed(Roots \cup Range(loaded), Alive)
<1>1. HeapTypes /\ \A x \in Cells : Referred(x) => cell[x].ref_cnt > 0
  BY Live DEF HeapInv, Balanced
<1>2. Roots \cup Range(loaded) \subseteq Alive
  BY <1>1, RootsReferred DEF Alive
<1>3. ASSUME NEW c \in Alive, NEW f \in DOMAIN cell[c].refs
      PROVE  cell[c].refs[f] \in Alive \cup {Nil}
  <2>1. c \in Cells /\ cell[c].ref_cnt > 0 /\ cell[c].refs \in Records
    BY <1>1 DEF Alive, HeapTypes, Made, Objects
  <2>2. cell[c].refs[f] \in Values
    BY <2>1, RecordFinite
  <2>3. Referred(cell[c].refs[f])
    BY <2>1 DEF Referred
  <2> QED  BY <1>1, <2>2, <2>3 DEF Alive, Values
<1>4. Alive \in SUBSET Cells
  BY DEF Alive
<1> QED  BY <1>2, <1>3, <1>4, ClosedIs

\* While a collection marks, that is so of what is in use.
LEMMA UsedClosed ==
  ASSUME HeapInv, Collects, Marking, MarksInUse
  PROVE  M!Closed(Roots \cup Range(loaded), {c \in Cells : InUse(c)})
<1> DEFINE S == {c \in Cells : InUse(c)}
<1>1. /\ HeapTypes /\ DOMAIN loaded = {}
      /\ \A x : At(work, Call("release", x)) = 0
  BY WorkSeq DEF HeapInv, HeapTypes
<1>2. Range(loaded) = {}
  BY <1>1 DEF Range
<1>3. ASSUME NEW x \in Roots  PROVE x \in S
  <2>1. x \in Cells /\ x \in Roots
    BY <1>3, RootsReferred
  <2> DEFINE n == cell[x].ref_cnt
             A == At(work, Call("mark", x))
             H == At(slot, x)
             Y == One(x \in sym_set)
             K == One(x \in DOMAIN loaded)
             L == At(loaded, x)
             U == Cardinality(Uses(cell, x))
  <2>2. n + A = H + Y + K + L + U + 0
    BY <1>1, <2>1 DEF HeapInv, Balanced, Balance
  <2>3. H \in Nat /\ L \in Nat /\ U \in Nat /\ Y \in {0, 1} /\ K \in {0, 1}
    BY <1>1, Terms, Zenon
  <2>4. n \in Nat /\ A \in Nat
    BY <1>1, <2>1, WorkSeq DEF HeapInv, HeapTypes, Made, Objects
  <2>5. H > 0 \/ Y > 0
    <3>1. CASE x \in sym_set
      BY <3>1 DEF One
    <3>2. CASE x \in M!Held
      <4>1. \E s \in Slots : slot[s] = x
        BY <3>2 DEF M!Held, M!Slots, Slots
      <4> QED  BY <1>1, <4>1, Terms
    <3> QED  BY <2>1, <3>1, <3>2 DEF Roots
  <2>6. n > 0 \/ A > 0
    <3> HIDE DEF n, A, H, Y, K, L, U
    <3> QED  BY ONLY <2>2, <2>3, <2>4, <2>5
  <2>7. InUse(x)
    BY <2>1, <2>6 DEF HeapInv, Reclaimed, MarksInUse
  <2> QED  BY <2>1, <2>7
<1>4. ASSUME NEW c \in S, NEW f \in DOMAIN cell[c].refs
      PROVE  cell[c].refs[f] \in S \cup {Nil}
  <2>1. c \in Cells /\ InUse(c) /\ cell[c].refs \in Records
    BY <1>1 DEF HeapTypes, Made, Objects
  <2>2. cell[c].refs[f] \in Values
    BY <2>1, RecordFinite
  <2> QED  BY <2>1, <2>2 DEF MarksInUse, Values
<1>5. S \in SUBSET Cells
  OBVIOUS
<1> HIDE DEF S
<1>6. M!Closed(Roots \cup Range(loaded), S)
  BY <1>2, <1>3, <1>4, <1>5, ClosedIs
<1> QED  BY <1>6 DEF S

\* A slot, a table or a field of a reachable object never refers to a free cell.
THEOREM NoDanglingReference ==
  ASSUME Sound
  PROVE  Spec => []NothingDangles
<1>1. ASSUME HeapInv  PROVE NothingDangles
  <2> DEFINE S == {c \in Cells : InUse(c)}
             R == Roots \cup Range(loaded)
  <2>1. M!Reachable(R) \subseteq S
    <3>1. CASE Collects /\ Marking /\ MarksInUse
      <4>1. S \in SUBSET Cells /\ M!Closed(R, S)
        BY <1>1, <3>1, UsedClosed
      <4> HIDE DEF S, R
      <4> QED  BY <4>1, ClosedIs
    <3>2. CASE Releasing \/ Sweeping
      <4>1. \A x : At(work, Call("mark", x)) = 0
        BY <1>1, <3>2, WorkSeq DEF HeapInv
      <4>2. Alive \in SUBSET Cells /\ M!Closed(R, Alive)
        BY <1>1, <4>1, AliveClosed DEF Alive
      <4>3. M!Reachable(R) \subseteq Alive
        <5> HIDE DEF R
        <5> QED  BY <4>2, ClosedIs
      <4>4. Alive \subseteq S
        BY <1>1 DEF Alive, HeapInv, Reclaimed
      <4> QED  BY <4>3, <4>4
    <3> QED  BY <1>1, <3>1, <3>2 DEF HeapInv, Phased
  <2>2. M!Held \cup sym_set \cup Range(loaded) = R
    BY DEF Roots
  <2> HIDE DEF R
  <2> QED  BY <2>1, <2>2 DEF NothingDangles
<1> QED  BY <1>1, HeapInvariant, PTL

\* What a collection cleans up could not be reached.
THEOREM OnlyGarbageSwept ==
  ASSUME Sound
  PROVE  Spec => []SweptUnreachable
<1>1. ASSUME HeapInv, Calling("sweep")  PROVE OnList("grey") \cap M!Reachable(Roots) = {}
  <2>1. Sweeping
    BY <1>1, Turn DEF HeapInv, Calling
  <2>2. \A x : At(work, Call("mark", x)) = 0
    BY <1>1, <2>1, WorkSeq DEF HeapInv
  <2>3. Alive \in SUBSET Cells /\ M!Closed(Roots, Alive)
    BY <1>1, <2>2, AliveClosed, ClosedIs DEF Alive
  <2>4. M!Reachable(Roots) \subseteq Alive
    BY <2>3, ClosedIs
  <2>5. OnList("grey") \cap Alive = {}
    BY <1>1 DEF OnList, Alive, HeapInv, Reclaimed
  <2> QED  BY <2>4, <2>5
<1>2. HeapInv => SweptUnreachable
  BY <1>1 DEF SweptUnreachable, Roots
<1> QED  BY <1>2, HeapInvariant, PTL

-----------------------------------------------------------------------------
(* Heap implements Memory, as long as no modules are loaded.               *)

\* A cell that is not in use refers to nothing.
Emptied == \A c \in Cells : ~ InUse(c) => cell[c].refs = NoFields

\* A step of Memory, or none.
MemoryStep == M!Next \/ UNCHANGED M!memory_vars

LEMMA NothingLoaded ==
  ASSUME HeapInv, Types \cap ModuleTypes = {}
  PROVE  DOMAIN loaded = {}
<1> SUFFICES ASSUME NEW k \in DOMAIN loaded  PROVE FALSE
  OBVIOUS
<1>1. loaded[k] \in Cells /\ cell[loaded[k]].type \in ModuleTypes
  BY DEF HeapInv, HeapTypes, TablesOK
<1>2. cell[loaded[k]].type \in Types \cup {"sym", "none"}
  BY <1>1 DEF HeapInv, HeapTypes, Made
<1> QED  BY <1>1, <1>2 DEF ModuleTypes

\* Counts, lists and pages do not matter to Memory.
LEMMA NoMemoryStep ==
  ASSUME Emptied, UNCHANGED <<slot, sym_set>>,
         \A d \in Cells : cell'[d].refs = cell[d].refs /\ (InUse(d)' <=> InUse(d))
  PROVE  Emptied' /\ MemoryStep
<1>1. [d \in Cells |-> cell'[d].refs] = [d \in Cells |-> cell[d].refs]
  OBVIOUS
<1>2. {d \in Cells : InUse(d)'} = {d \in Cells : InUse(d)}
  OBVIOUS
<1>3. UNCHANGED M!memory_vars
  BY <1>1, <1>2 DEF M!memory_vars
<1> QED  BY <1>3 DEF MemoryStep, Emptied

\* A symbol that only the symbol table refers to.
LEMMA ForgetStep ==
  ASSUME HeapInv, Emptied, \A x : At(work, Call("mark", x)) = 0, UNCHANGED slot,
         NEW c \in sym_set, At(slot, c) = 0, Cardinality(Uses(cell, c)) = 0,
         sym_set' = sym_set \ {c},
         \A d \in Cells : cell'[d].refs = cell[d].refs /\ (InUse(d)' <=> InUse(d))
  PROVE  Emptied' /\ MemoryStep
<1> DEFINE S == Alive \ {c}
<1>1. HeapTypes /\ cell \in [Cells -> Objects]
  BY Terms DEF HeapInv
<1>2. Alive \in SUBSET Cells /\ M!Closed(Roots \cup Range(loaded), Alive)
  BY AliveClosed DEF Alive
<1>3. /\ Roots \subseteq Alive
      /\ \A d \in Alive : \A f \in DOMAIN cell[d].refs : cell[d].refs[f] \in Alive \cup {Nil}
  BY <1>2, ClosedIs
<1>4. c \notin M!Held
  <2>1. M!Held = {slot[s] : s \in Slots} \ {Nil}
    BY DEF M!Held, M!Slots, Slots
  <2>2. ~ \E s \in Slots : slot[s] = c
    BY <1>1, Terms
  <2> QED  BY <2>1, <2>2
<1>5. \A d \in Alive : \A f \in DOMAIN cell[d].refs : cell[d].refs[f] # c
  <2> SUFFICES ASSUME NEW d \in Alive, NEW f \in DOMAIN cell[d].refs, cell[d].refs[f] = c
               PROVE  FALSE
    OBVIOUS
  <2>1. Cardinality(Uses(cell, cell[d].refs[f])) > 0
    BY <1>1, UsedField DEF Alive
  <2> QED  BY <2>1
<1>6. S \in SUBSET Cells /\ M!Held \subseteq S
      /\ \A d \in S : \A f \in DOMAIN cell[d].refs : cell[d].refs[f] \in S \cup {Nil}
  BY <1>2, <1>3, <1>4, <1>5 DEF Roots
<1>7. M!Reachable(M!Held) \subseteq S
  <2> HIDE DEF S
  <2> QED  BY <1>6, ClosedIs
<1>8. c \in Cells /\ c \notin M!Reachable(M!Held)
  BY <1>1, <1>7 DEF HeapTypes
<1>9. [d \in Cells |-> cell'[d].refs] = [d \in Cells |-> cell[d].refs]
  OBVIOUS
<1>10. {d \in Cells : InUse(d)'} = {d \in Cells : InUse(d)}
  OBVIOUS
<1>11. M!Forget(c)
  BY <1>8, <1>9, <1>10 DEF M!Forget
<1> QED  BY <1>8, <1>11 DEF MemoryStep, M!Next, Emptied

\* A count goes down, and with it may go the name of a symbol.
LEMMA ReleasePromise ==
  ASSUME HeapInv, Emptied, DOMAIN loaded = {}, Release
  PROVE  Emptied' /\ MemoryStep
<1>0. PICK c : c = Now.sx
  OBVIOUS
<1>1. /\ Calling("release") /\ work # << >> /\ c # Nil /\ cell' = Decremented(c)
      /\ UNCHANGED slot
      /\ \/ UNCHANGED sym_set
         \/ cell[c].ref_cnt - 1 = 1 /\ c \in sym_set \ permanent /\ sym_set' = sym_set \ {c}
  BY <1>0 DEF Release, Calling
<1>2. HeapTypes /\ Phased /\ Balanced
  BY DEF HeapInv
<1>3. c \in Cells /\ Now = Call("release", c) /\ \A x : At(work, Call("mark", x)) = 0
  <2>1. Releasing /\ Now \in Releases
    BY <1>1, <1>2, Turn
  <2> QED  BY <1>0, <1>1, <1>2, <2>1, CallIs, WorkSeq DEF Values
<1>4. \A d \in Cells : cell'[d].refs = cell[d].refs /\ (InUse(d)' <=> InUse(d))
  <2>1. \A d \in Cells : cell[d] \in Objects
    BY <1>2 DEF HeapTypes, Made
  <2>2. \A d \in Cells : cell'[d].refs = cell[d].refs /\ cell'[d].list = cell[d].list
    BY <1>1, <1>2, <1>3, <2>1 DEF Decremented, HeapTypes, Objects
  <2> QED  BY <2>2 DEF InUse
<1>5. CASE UNCHANGED sym_set
  BY <1>1, <1>4, <1>5, NoMemoryStep
<1>6. CASE cell[c].ref_cnt - 1 = 1 /\ c \in sym_set \ permanent /\ sym_set' = sym_set \ {c}
  <2>1. At(work, Call("release", c)) > 0 /\ At(work, Call("release", c)) \in Nat
    <3>1. work \in Seq(AllCalls) /\ 1 \in 1 .. Len(work) /\ work[1] = Call("release", c)
      BY <1>1, <1>2, <1>3, WorkSeq DEF Now
    <3> QED  BY <3>1, AtSeq
  <2>2. At(slot, c) = 0 /\ Cardinality(Uses(cell, c)) = 0
    <3> DEFINE n == cell[c].ref_cnt
               H == At(slot, c)
               K == One(c \in DOMAIN loaded)
               L == At(loaded, c)
               U == Cardinality(Uses(cell, c))
               R == At(work, Call("release", c))
    <3>1. One(c \in sym_set) = 1
      BY <1>6 DEF One
    <3>2. n + 0 = H + 1 + K + L + U + R
      BY <1>2, <1>3, <3>1 DEF Balanced, Balance
    <3>3. H \in Nat /\ L \in Nat /\ U \in Nat /\ K \in {0, 1}
      BY <1>2, Terms, Zenon
    <3>4. R \in Nat /\ R > 0
      BY <2>1
    <3>5. n \in Nat /\ n - 1 = 1
      BY <1>2, <1>3, <1>6 DEF HeapTypes, Made, Objects
    <3> HIDE DEF n, H, K, L, U, R
    <3>6. H = 0 /\ U = 0
      BY ONLY <3>2, <3>3, <3>4, <3>5
    <3> QED  BY <3>6 DEF H, U
  <2> QED  BY <1>1, <1>3, <1>4, <1>6, <2>2, ForgetStep
<1> QED  BY <1>1, <1>5, <1>6

\* The symbols that a collection drops.
LEMMA SymPromise ==
  ASSUME HeapInv, Emptied, SymCollect
  PROVE  Emptied' /\ MemoryStep
<1> DEFINE lone == {c \in sym_set \ permanent : cell[c].ref_cnt = 1}
<1>1. /\ Calling("sym_collect") /\ work # << >>
      /\ \/ \E c \in lone : sym_set' = sym_set \ {c}
         \/ UNCHANGED sym_set
      /\ UNCHANGED <<cell, slot>>
  BY DEF SymCollect, Calling
<1>2. HeapTypes /\ Phased /\ Balanced
  BY DEF HeapInv
<1>3. \A x : At(work, Call("mark", x)) = 0 /\ At(work, x) \in Nat
  BY <1>1, <1>2, Turn, WorkSeq
<1>4. \A d \in Cells : cell'[d].refs = cell[d].refs /\ (InUse(d)' <=> InUse(d))
  BY <1>1 DEF InUse
<1>5. ASSUME NEW c \in lone, sym_set' = sym_set \ {c}  PROVE Emptied' /\ MemoryStep
  <2>1. c \in sym_set /\ c \in Cells /\ cell[c].ref_cnt = 1
    BY <1>2 DEF HeapTypes
  <2>2. At(slot, c) = 0 /\ Cardinality(Uses(cell, c)) = 0
    <3> DEFINE H == At(slot, c)
               K == One(c \in DOMAIN loaded)
               L == At(loaded, c)
               U == Cardinality(Uses(cell, c))
               R == At(work, Call("release", c))
    <3>1. One(c \in sym_set) = 1
      BY <2>1 DEF One
    <3>2. 1 + 0 = H + 1 + K + L + U + R
      BY <1>2, <1>3, <2>1, <3>1 DEF Balanced, Balance
    <3>3. H \in Nat /\ L \in Nat /\ U \in Nat /\ K \in {0, 1}
      BY <1>2, Terms, Zenon
    <3>4. R \in Nat
      BY <1>3
    <3> HIDE DEF H, K, L, U, R
    <3>5. H = 0 /\ U = 0
      BY ONLY <3>2, <3>3, <3>4
    <3> QED  BY <3>5 DEF H, U
  <2> QED  BY <1>1, <1>3, <1>4, <1>5, <2>1, <2>2, ForgetStep
<1>6. CASE UNCHANGED sym_set
  BY <1>1, <1>4, <1>6, NoMemoryStep
<1> QED  BY <1>1, <1>5, <1>6

\* Only what cannot be reached is reclaimed.
LEMMA FreePromise ==
  ASSUME HeapInv, Emptied, Free1
  PROVE  Emptied' /\ MemoryStep
<1>0. PICK c : c = Now.sx
  OBVIOUS
<1>1. HeapInv' /\ Freed(c)
  BY <1>0, FreeStep
<1>2. UNCHANGED <<slot, sym_set>>
  BY DEF Free1
<1>3. ASSUME NEW d \in Cells  PROVE cell'[d].type = "none" => cell'[d].refs = NoFields
  <2>1. cell'[d].type = "none" => cell'[d].refs \in Records /\ DOMAIN cell'[d].refs = {}
    BY <1>1 DEF HeapInv, HeapTypes, Made, Objects, Fields
  <2>2. \A r \in Records : DOMAIN r = {} => r = NoFields
    BY DEF Records, NoFields
  <2> QED  BY <2>1, <2>2
<1>4. Emptied'
  <2> SUFFICES ASSUME NEW d \in Cells, ~ InUse(d)'  PROVE cell'[d].refs = NoFields
    BY DEF Emptied
  <2>1. CASE d # c /\ cell'[d] = cell[d]
    BY <1>1, <2>1 DEF Freed, Emptied
  <2>2. CASE cell'[d].type = "none"
    BY <1>3, <2>2
  <2> QED  BY <1>1, <2>1, <2>2 DEF Freed
<1>5. \A d \in Cells : cell'[d].refs = IF d = c THEN NoFields ELSE cell[d].refs
  <2> SUFFICES ASSUME NEW d \in Cells
               PROVE  cell'[d].refs = IF d = c THEN NoFields ELSE cell[d].refs
    OBVIOUS
  <2>1. CASE d = c
    BY <1>1, <1>3, <2>1 DEF Freed
  <2>2. CASE d # c /\ InUse(d)
    <3>1. cell[d].ref_cnt > 0 \/ cell'[d] = cell[d] \/ cell'[d].type = "none"
      BY <1>1 DEF Freed
    <3>2. InUse(d)' /\ cell'[d].type # "none"
      BY <1>1, <2>2 DEF Freed, HeapInv, Reclaimed
    <3>3. cell'[d] = cell[d]
      BY <1>1, <2>2, <3>2 DEF Freed
    <3> QED  BY <2>2, <3>3
  <2>3. CASE d # c /\ ~ InUse(d)
    <3>1. ~ InUse(d)'
      BY <1>1, <2>3 DEF Freed
    <3> QED  BY <1>4, <2>3, <3>1 DEF Emptied
  <2> QED  BY <2>1, <2>2, <2>3
<1>6. c \notin M!Reachable(M!Held \cup sym_set)
  <2>1. Alive \in SUBSET Cells /\ M!Closed(Roots, Alive)
    BY <1>1, AliveClosed, ClosedIs DEF Alive, Freed
  <2>2. M!Reachable(Roots) \subseteq Alive
    BY <2>1, ClosedIs
  <2>3. c \notin Alive
    BY <1>1 DEF Freed, Alive
  <2> QED  BY <2>2, <2>3 DEF Roots
<1>7. c \in Cells /\ InUse(c)
  BY <1>1 DEF Freed
<1>8. {d \in Cells : InUse(d)'} = {d \in Cells : InUse(d)} \ {c}
  BY <1>1 DEF Freed
<1>9. [d \in Cells |-> cell'[d].refs] = [[d \in Cells |-> cell[d].refs] EXCEPT ![c] = NoFields]
  BY <1>5, <1>7
<1>10. M!NoFields = NoFields
  BY DEF M!NoFields, NoFields
<1>11. M!Reclaim(c)
  BY <1>2, <1>6, <1>7, <1>8, <1>9, <1>10 DEF M!Reclaim
<1> QED  BY <1>4, <1>7, <1>11 DEF MemoryStep, M!Next

\* Marking counts, and leaves objects where they are.
LEMMA MarkPromise ==
  ASSUME HeapInv, Emptied, Mark
  PROVE  Emptied' /\ MemoryStep
<1>0. PICK c : c = Now.sx
  OBVIOUS
<1>1. /\ Calling("mark") /\ work # << >> /\ c # Nil /\ UNCHANGED <<slot, sym_set>>
      /\ \/ cell' = [Incremented(c) EXCEPT ![c].list = "white"]
         \/ cell' = Incremented(c)
  BY <1>0 DEF Mark, Calling
<1>2. HeapTypes /\ Phased
  BY DEF HeapInv
<1>3. c \in Cells /\ InUse(c)
  <2>1. MarksInUse /\ Now \in Marks /\ work \in Seq(AllCalls)
    BY <1>1, <1>2, Turn, WorkSeq
  <2>2. c \in Cells /\ Now = Call("mark", c)
    BY <1>0, <1>1, <2>1, CallIs DEF Values
  <2>3. At(work, Call("mark", c)) > 0
    <3>1. 1 \in 1 .. Len(work) /\ work[1] = Call("mark", c)
      BY <1>1, <2>1, <2>2 DEF Now
    <3> QED  BY <2>1, <3>1, AtSeq
  <2> QED  BY <2>1, <2>2, <2>3 DEF MarksInUse
<1>4. PICK n, o : n = cell[c].ref_cnt + 1 /\ o = [cell[c] EXCEPT !.ref_cnt = n]
  OBVIOUS
<1>5. cell[c] \in Objects /\ n \in Nat /\ Incremented(c) = [cell EXCEPT ![c] = o]
  BY <1>2, <1>3, <1>4 DEF HeapTypes, Made, Objects, Incremented
<1>6. o \in Objects /\ o.refs = cell[c].refs /\ o.list = cell[c].list
  BY <1>4, <1>5 DEF Objects
<1>7. \A d \in Cells : cell'[d].refs = cell[d].refs /\ (InUse(d)' <=> InUse(d))
  <2>1. CASE cell' = [Incremented(c) EXCEPT ![c].list = "white"]
    <3>1. PICK q : q = [o EXCEPT !.list = "white"]
      OBVIOUS
    <3>2. cell' = [cell EXCEPT ![c] = q]
      BY <1>2, <1>3, <1>5, <2>1, <3>1 DEF HeapTypes
    <3>3. q.refs = cell[c].refs /\ q.list = "white"
      BY <1>6, <3>1 DEF Objects
    <3> QED  BY <1>2, <1>3, <3>2, <3>3 DEF HeapTypes, InUse
  <2>2. CASE cell' = Incremented(c)
    BY <1>2, <1>3, <1>5, <1>6, <2>2 DEF HeapTypes, InUse
  <2> QED  BY <1>1, <2>1, <2>2
<1> QED  BY <1>1, <1>7, NoMemoryStep

LEMMA NilPromise ==
  ASSUME Emptied, UNCHANGED <<cell, slot, sym_set>>
  PROVE  Emptied' /\ MemoryStep
<1>1. \A d \in Cells : cell'[d].refs = cell[d].refs /\ (InUse(d)' <=> InUse(d))
  BY DEF InUse
<1> QED  BY <1>1, NoMemoryStep

\* A collection begins by moving what is in use to another list.
LEMMA GreyedPromise ==
  ASSUME HeapInv, Emptied, cell' = Greyed, UNCHANGED <<slot, sym_set>>
  PROVE  Emptied' /\ MemoryStep
<1>1. \A d \in Cells : cell[d] \in Objects
  BY DEF HeapInv, HeapTypes, Made
<1>2. \A d \in Cells : cell'[d].refs = cell[d].refs /\ (InUse(d)' <=> InUse(d))
  BY <1>1 DEF Greyed, InUse, Objects
<1> QED  BY <1>2, NoMemoryStep

\* What slots hold can be expressed.
LEMMA SlotExpressible ==
  ASSUME HeapTypes, NEW x, x = Nil \/ \E s \in Slots : slot[s] = x
  PROVE  x \in Values /\ M!Expressible(x)
<1>1. M!Held = {slot[s] : s \in Slots} \ {Nil}
  BY DEF M!Held, M!Slots, Slots
<1> QED  BY <1>1 DEF HeapTypes, Values, M!Expressible

\* A new object is in a cell that nothing used.
LEMMA BuildPromise ==
  ASSUME HeapInv, Emptied, work \in {<< >>, <<AllocCall>>}, NEW w, Wanted(w),
         NEW c \in Cells, ~ InUse(c), Build(w, c)
  PROVE  Emptied' /\ MemoryStep
<1>1. HeapInv' /\ Built(c, w.refs)
  BY BuildStep
<1>2. HeapTypes
  BY DEF HeapInv
<1>3. /\ w.type \in AllTypes /\ w.dst \in Slots
      /\ w.refs \in [FieldsOf(w.type) -> {Nil} \cup {slot[s] : s \in Slots}]
  BY <1>2, WantedFields DEF Wanted
<1>4. slot' = [slot EXCEPT ![w.dst] = c] /\ sym_set' \in {sym_set, sym_set \cup {c}}
  BY DEF Build
<1>5. InUse(c)'
  BY <1>1 DEF Built
<1>6. ASSUME NEW d \in Cells, d # c
      PROVE  cell'[d].refs = cell[d].refs
  BY <1>1, <1>6 DEF Built, Emptied
<1>7. Emptied'
  <2> SUFFICES ASSUME NEW d \in Cells, ~ InUse(d)'  PROVE cell'[d].refs = NoFields
    BY DEF Emptied
  <2>1. d # c /\ ~ InUse(d)
    BY <1>1, <1>5 DEF Built
  <2> QED  BY <1>6, <2>1 DEF Emptied
<1>8. [d \in Cells |-> cell'[d].refs] = [[d \in Cells |-> cell[d].refs] EXCEPT ![c] = w.refs]
  BY <1>1, <1>6 DEF Built
<1>9. {d \in Cells : InUse(d)'} = {d \in Cells : InUse(d)} \cup {c}
  BY <1>1 DEF Built
<1>10. w.refs \in [FieldsOf(w.type) -> {v \in M!Values : M!Expressible(v)}]
  <2>1. \A x \in {Nil} \cup {slot[s] : s \in Slots} : x \in M!Values /\ M!Expressible(x)
    BY <1>2, SlotExpressible DEF M!Values, Values
  <2> QED  BY <1>3, <2>1
<1>11. FieldsOf(w.type) \in {FieldsOf(t) : t \in AllTypes}
  BY <1>3
<1>12. c \in Cells \ {d \in Cells : InUse(d)}
  OBVIOUS
<1>13. M!New(w.dst, c)
  BY <1>4, <1>8, <1>9, <1>10, <1>11, <1>12 DEF M!New
<1>14. w.dst \in M!Slots
  BY <1>3 DEF M!Slots, Slots
<1> QED  BY <1>7, <1>13, <1>14 DEF MemoryStep, M!Next

\* sx_alloc, also when it asks for a page after a collection.
LEMMA RetryPromise ==
  ASSUME HeapInv, Emptied, Retry
  PROVE  Emptied' /\ MemoryStep
<1>1. Calling("alloc") /\ work # << >> /\ Phased
  BY DEF Retry, Calling, HeapInv
<1>2. work = <<AllocCall>>
  BY <1>1, Turn
<1>3. Wanted(want)
  <2>1. At(work, AllocCall) = One(AllocCall = AllocCall)
    BY <1>2, AtOne
  <2> QED  BY <2>1 DEF One, HeapInv, WantOK
<1>4. ASSUME NEW c \in UNION FreshPages, Build(want, c)  PROVE Emptied' /\ MemoryStep
  BY <1>2, <1>3, <1>4, Fresh, BuildPromise
<1>5. CASE UNCHANGED <<cell, slot, sym_set>>
  BY <1>5, NilPromise
<1> QED  BY <1>4, <1>5 DEF Retry

LEMMA NewPromise ==
  ASSUME HeapInv, Emptied, NEW t \in Types, NEW d \in Slots, New(t, d)
  PROVE  Emptied' /\ MemoryStep
<1>1. work = << >>
  BY DEF New, Idle
<1>2. PICK r \in Contents(t) :
         \/ \E c \in Available : Build(Want(t, r, d), c)
         \/ cell' = Greyed /\ UNCHANGED <<slot, sym_set>>
  BY DEF New
<1>3. Wanted(Want(t, r, d))
  BY ContentsWanted
<1>4. ASSUME NEW c \in Available, Build(Want(t, r, d), c)  PROVE Emptied' /\ MemoryStep
  <2>1. c \in Cells /\ ~ InUse(c)
    BY <1>4, Handed
  <2> QED  BY <1>1, <1>3, <1>4, <2>1, BuildPromise
<1>5. CASE cell' = Greyed /\ UNCHANGED <<slot, sym_set>>
  BY <1>5, GreyedPromise
<1> QED  BY <1>2, <1>4, <1>5

\* Without modules, what the program can name is what it can express.
LEMMA NamedPromise ==
  ASSUME HeapInv, DOMAIN loaded = {}, work = << >>, NEW v \in Expressible
  PROVE  v \in Values /\ M!Expressible(v)
<1>1. HeapTypes /\ Range(loaded) = {}
  BY DEF HeapInv, Range
<1>2. M!Held = {slot[s] : s \in Slots} \ {Nil}
  BY DEF M!Held, M!Slots, Slots
<1>3. v \in Values
  BY Named
<1>4. CASE v \in {Nil} \cup sym_set \cup {slot[s] : s \in Slots}
  BY <1>2, <1>3, <1>4 DEF M!Expressible
<1>5. ASSUME NEW s \in Slots, slot[s] # Nil, NEW f \in DOMAIN cell[slot[s]].refs,
             v = cell[slot[s]].refs[f]
      PROVE  M!Expressible(v)
  <2>1. slot[s] \in Cells /\ slot[s] \in M!Held
    BY <1>1, <1>2, <1>5 DEF HeapTypes, Values
  <2>2. [d \in Cells |-> cell[d].refs][slot[s]] = cell[slot[s]].refs
    BY <2>1
  <2> QED  BY <1>5, <2>1, <2>2 DEF M!Expressible
<1> QED  BY <1>1, <1>3, <1>4, <1>5 DEF Expressible

LEMMA AssignPromise ==
  ASSUME HeapInv, Emptied, DOMAIN loaded = {},
         NEW s \in Slots, NEW v \in Expressible, Assign(s, v)
  PROVE  Emptied' /\ MemoryStep
<1>1. /\ work = << >> /\ slot' = [slot EXCEPT ![s] = v] /\ UNCHANGED sym_set
      /\ cell' = IF v = Nil THEN cell ELSE Incremented(v)
  BY DEF Assign, Idle
<1>2. v \in Values /\ M!Expressible(v) /\ (v = Nil \/ Referred(v))
  BY <1>1, Named, NamedPromise
<1>3. \A d \in Cells : cell'[d].refs = cell[d].refs /\ (InUse(d)' <=> InUse(d))
  <2>1. \A d \in Cells : cell'[d].refs = cell[d].refs /\ cell'[d].list = cell[d].list
    BY <1>1, <1>2, CountedUp
  <2> QED  BY <2>1 DEF InUse
<1>4. [d \in Cells |-> cell'[d].refs] = [d \in Cells |-> cell[d].refs]
  BY <1>3
<1>5. {d \in Cells : InUse(d)'} = {d \in Cells : InUse(d)}
  BY <1>3
<1>6. M!Assign(s, v) /\ s \in M!Slots /\ v \in M!Values
  BY <1>1, <1>2, <1>4, <1>5 DEF M!Assign, M!Slots, Slots, M!Values, Values
<1> QED  BY <1>3, <1>6 DEF MemoryStep, M!Next, Emptied

LEMMA MovePromise ==
  ASSUME Emptied, NEW d \in Slots, NEW s \in Slots, Move(d, s)
  PROVE  Emptied' /\ MemoryStep
<1>1. M!Move(d, s) /\ d \in M!Slots /\ s \in M!Slots
  BY DEF Move, M!Move, M!Slots, Slots, InUse
<1>2. Emptied'
  BY DEF Move, Emptied, InUse
<1> QED  BY <1>1, <1>2 DEF MemoryStep, M!Next

LEMMA SetFieldPromise ==
  ASSUME HeapInv, Emptied, DOMAIN loaded = {}, NEW a \in Slots, slot[a] # Nil,
         cell[slot[a]].type = "array", NEW f \in FieldsOf("array"), NEW v \in Expressible,
         SetField(slot[a], f, v)
  PROVE  Emptied' /\ MemoryStep
<1>0. PICK c : c = slot[a]
  OBVIOUS
<1>1. work = << >> /\ UNCHANGED <<slot, sym_set>>
  BY DEF SetField, Idle
<1>2. PICK g : /\ g = (IF v = Nil THEN cell ELSE Incremented(v))
               /\ cell' = [g EXCEPT ![c].refs[f] = v]
  BY <1>0 DEF SetField
<1>3. HeapTypes
  BY DEF HeapInv
<1>4. v \in Values /\ M!Expressible(v) /\ (v = Nil \/ Referred(v))
  BY <1>1, Named, NamedPromise
<1>5. /\ g \in [Cells -> Made]
      /\ \A d \in Cells : g[d].refs = cell[d].refs /\ g[d].list = cell[d].list
  BY <1>1, <1>2, <1>4, CountedUp
<1>6. c \in Cells /\ f \in DOMAIN cell[c].refs /\ c \in M!Held
  <2>1. c \in Cells /\ cell[c].type = "array"
    BY <1>0, <1>3 DEF HeapTypes, Values
  <2>2. DOMAIN cell[c].refs = FieldsOf("array")
    BY <1>3, <2>1 DEF HeapTypes, Made, Fields
  <2> QED  BY <1>0, <2>1, <2>2 DEF M!Held, M!Slots, Slots
<1>7. PICK r : r = [cell[c].refs EXCEPT ![f] = v]
  OBVIOUS
<1>8. PICK o : o = [g[c] EXCEPT !.refs = r]
  OBVIOUS
<1>9. cell' = [g EXCEPT ![c] = o] /\ g[c] \in Objects
  BY <1>2, <1>5, <1>6, <1>7, <1>8 DEF Made
<1>10. o.refs = r /\ o.list = cell[c].list
  BY <1>5, <1>6, <1>8, <1>9 DEF Objects
<1>11. \A d \in Cells : /\ cell'[d].refs = IF d = c THEN r ELSE cell[d].refs
                        /\ InUse(d)' <=> InUse(d)
  BY <1>5, <1>6, <1>9, <1>10 DEF InUse
<1>12. InUse(c)
  <2>1. Referred(c)
    BY <1>0, <1>3, <1>6 DEF Referred
  <2> QED  BY <1>1, <1>6, <2>1, Settled
<1>13. Emptied'
  BY <1>11, <1>12 DEF Emptied
<1> DEFINE R == [d \in Cells |-> cell[d].refs]
<1>14. R[c] = cell[c].refs
  BY <1>6
<1>15. [d \in Cells |-> cell'[d].refs] = [R EXCEPT ![c] = r]
  BY <1>6, <1>11
<1>16. [R EXCEPT ![c] = r] = [R EXCEPT ![c] = [R[c] EXCEPT ![f] = v]]
  BY <1>7, <1>14
<1>17. {d \in Cells : InUse(d)'} = {d \in Cells : InUse(d)}
  BY <1>11
<1>18. M!SetField(c, f, v)
  BY <1>1, <1>4, <1>6, <1>14, <1>15, <1>16, <1>17 DEF M!SetField
<1>19. f \in DOMAIN R[c] /\ v \in M!Values
  BY <1>4, <1>6, <1>14 DEF M!Values, Values
<1> QED  BY <1>6, <1>13, <1>18, <1>19 DEF MemoryStep, M!Next

LEMMA InitPromise ==
  ASSUME Init
  PROVE  M!Init /\ Emptied
<1>1. PICK c \in Cells :
         /\ cell = [d \in Cells |->
                IF d = c THEN [type |-> "sym", refs |-> NoFields, ref_cnt |-> 1,
                               list |-> "white"]
                ELSE IF PageOf(d) = PageOf(c) THEN FreeCell ELSE Unmapped]
         /\ sym_set = {c} /\ slot = [s \in Slots |-> Nil]
  BY DEF Init
<1>2. /\ FreeCell.refs = NoFields /\ Unmapped.refs = NoFields
      /\ FreeCell.list = "free" /\ Unmapped.list = "unmapped"
  BY DEF FreeCell, Unmapped
<1>3. \A d \in Cells : cell[d].refs = NoFields /\ (InUse(d) <=> d = c)
  BY <1>1, <1>2 DEF InUse
<1>4. [d \in Cells |-> cell[d].refs] = [d \in Cells |-> NoFields] /\ {d \in Cells : InUse(d)} = {c}
  BY <1>3
<1>5. M!NoFields = NoFields
  BY DEF M!NoFields, NoFields
<1>6. M!Init
  BY <1>1, <1>4, <1>5 DEF M!Init, M!Slots, Slots
<1> QED  BY <1>3, <1>6 DEF Emptied

LEMMA NextPromise ==
  ASSUME HeapInv, Emptied, Types \cap ModuleTypes = {}, [Next]_vars
  PROVE  Emptied' /\ MemoryStep
<1>0. DOMAIN loaded = {}
  BY NothingLoaded
<1>1. CASE CallNil \/ Sweep \/ UNCHANGED vars \/ Stopped
  BY <1>1, NilPromise DEF CallNil, Sweep, vars, Stopped
<1>2. CASE Release
  BY <1>0, <1>2, ReleasePromise
<1>3. CASE Free1
  BY <1>3, FreePromise
<1>4. CASE Mark
  BY <1>4, MarkPromise
<1>5. CASE SymCollect
  BY <1>5, SymPromise
<1>6. CASE Retry
  BY <1>6, RetryPromise
<1>7. ASSUME NEW t \in Types, NEW d \in Slots, New(t, d)  PROVE Emptied' /\ MemoryStep
  BY <1>7, NewPromise
<1>8. ASSUME NEW s \in Slots, NEW v \in Expressible, Assign(s, v)  PROVE Emptied' /\ MemoryStep
  BY <1>0, <1>8, AssignPromise
<1>9. ASSUME NEW d \in Slots, NEW s \in Slots, Move(d, s)  PROVE Emptied' /\ MemoryStep
  BY <1>9, MovePromise
<1>10. ASSUME NEW s \in Slots, NEW v \in Expressible, slot[s] # Nil, cell[slot[s]].type = "array",
              NEW f \in FieldsOf("array"), SetField(slot[s], f, v)
       PROVE  Emptied' /\ MemoryStep
  BY <1>0, <1>10, SetFieldPromise
<1>11. ASSUME NEW s \in Slots, Load(s)  PROVE FALSE
  <2>1. slot[s] \in Cells /\ cell[slot[s]].type \in ModuleTypes
    BY <1>11 DEF Load, HeapInv, HeapTypes, Values
  <2>2. cell[slot[s]].type \in Types \cup {"sym", "none"}
    BY <2>1 DEF HeapInv, HeapTypes, Made
  <2> QED  BY <2>1, <2>2 DEF ModuleTypes
<1>12. CASE Collect
  BY <1>12, GreyedPromise DEF Collect
<1> QED  BY <1>1, <1>2, <1>3, <1>4, <1>5, <1>6, <1>7, <1>8, <1>9, <1>10, <1>11, <1>12 DEF Next

\* For types that are Sound and are not modules, Heap implements Memory: nothing that the
\* program can reach is reclaimed or changes, by counting or by a collection.
THEOREM MemoryImplemented ==
  ASSUME Sound, Types \cap ModuleTypes = {}
  PROVE  Spec => MemorySpec
<1>1. Init => M!Init /\ Emptied
  BY InitPromise
<1>2. HeapInv /\ Emptied /\ [Next]_vars => Emptied' /\ [M!Next]_(M!memory_vars)
  BY NextPromise DEF MemoryStep
<1>3. Spec => []HeapInv
  BY HeapInvariant
<1> QED  BY <1>1, <1>2, <1>3, PTL DEF Spec, MemorySpec, M!Spec

-----------------------------------------------------------------------------
(* A collection takes all garbage.                                         *)

\* A collection has found x, or is going to.
Found(x) ==
    \/ cell[x].ref_cnt > 0 /\ At(work, Call("release", x)) = 0
    \/ At(work, Call("mark", x)) > 0

\* What is released before a collection ends is a symbol that nothing refers to.
Leaving(x) == At(work, Call("release", x)) > 0 => cell[x].ref_cnt = 1 /\ cell[x].type = "sym"

\* Until a collection has dropped its symbols, it finds only what can be reached.
FindsReachable ==
    At(work, SymCall) > 0 =>
        \A x \in Cells : (Found(x) => x \in M!Reachable(Roots)) /\ Leaving(x)

LEMMA ReachClosed ==
  ASSUME NEW R
  PROVE  /\ R \cap Cells \subseteq M!Reachable(R) /\ M!Reachable(R) \subseteq Cells
         /\ \A c \in M!Reachable(R) : \A f \in DOMAIN cell[c].refs :
               cell[c].refs[f] \in Cells => cell[c].refs[f] \in M!Reachable(R)
<1>1. R \cap Cells \subseteq M!Reachable(R) /\ M!Reachable(R) \subseteq Cells
  BY DEF M!Reachable, M!Closed
<1>2. ASSUME NEW c \in M!Reachable(R), NEW f \in DOMAIN cell[c].refs, cell[c].refs[f] \in Cells
      PROVE  cell[c].refs[f] \in M!Reachable(R)
  <2> SUFFICES ASSUME NEW S \in SUBSET Cells, M!Closed(R, S)  PROVE cell[c].refs[f] \in S
    BY <1>2 DEF M!Reachable
  <2>1. c \in S
    BY <1>2 DEF M!Reachable
  <2>2. cell[c].refs[f] \in S \cup {Nil}
    BY <2>1, ClosedIs
  <2> QED  BY <1>2, <2>2, CellsFinite
<1> QED  BY <1>1, <1>2

\* Without one object that refers to nothing, all else can still be reached.
LEMMA ReachKept ==
  ASSUME HeapTypes, NEW c, c \in Cells => DOMAIN cell[c].refs = {},
         Roots' \cup {c} = Roots \cup {c},
         \A d \in M!Reachable(Roots) : cell'[d].refs = cell[d].refs,
         NEW x \in M!Reachable(Roots), x # c
  PROVE  x \in M!Reachable(Roots)'
<1> DEFINE Q == M!Reachable(Roots)
<1>1. Q \subseteq Cells /\ Roots \subseteq Q
  <2>1. Roots \subseteq Cells
    BY DEF Roots, M!Held, M!Slots, Slots, HeapTypes, Values
  <2> QED  BY <2>1, ReachClosed
<1>2. \A d \in Q : \A f \in DOMAIN cell[d].refs : cell[d].refs[f] \in Q \cup {Nil}
  <2> SUFFICES ASSUME NEW d \in Q, NEW f \in DOMAIN cell[d].refs
               PROVE  cell[d].refs[f] \in Q \cup {Nil}
    OBVIOUS
  <2>1. cell[d].refs \in Records
    BY <1>1 DEF HeapTypes, Made, Objects
  <2>2. cell[d].refs[f] \in Cells \cup {Nil}
    BY <2>1, RecordFinite DEF Values
  <2> QED  BY <2>2, ReachClosed
<1>3. ASSUME NEW S \in SUBSET Cells, M!Closed(Roots, S)'  PROVE x \in S
  <2>1. Roots' \subseteq S
    BY <1>3 DEF M!Closed
  <2>2. \A d \in S : \A f \in DOMAIN cell'[d].refs : cell'[d].refs[f] \in S \cup {Nil}
    <3>1. \A d \in S : [e \in Cells |-> cell'[e].refs][d] = cell'[d].refs
      OBVIOUS
    <3> QED  BY <1>3, <3>1 DEF M!Closed
  <2> DEFINE T == (S \cup {c}) \cap Q
  <2>3. T \in SUBSET Cells /\ Roots \subseteq T
    BY <1>1, <2>1
  <2>4. ASSUME NEW d \in T, NEW f \in DOMAIN cell[d].refs  PROVE cell[d].refs[f] \in T \cup {Nil}
    <3>1. d \in Q /\ d \in Cells /\ d # c
      BY <1>1, <2>4
    <3>2. d \in S /\ cell'[d].refs = cell[d].refs
      BY <2>4, <3>1
    <3>3. cell[d].refs[f] \in S \cup {Nil}
      BY <2>2, <2>4, <3>2
    <3> QED  BY <1>2, <2>4, <3>1, <3>3
  <2>5. M!Closed(Roots, T)
    <3> HIDE DEF T
    <3> QED  BY <2>3, <2>4, ClosedIs
  <2>6. x \in T
    <3> HIDE DEF T
    <3> QED  BY <2>3, <2>5 DEF M!Reachable
  <2> QED  BY <2>6
<1> QED  BY <1>1, <1>3 DEF M!Reachable

\* What is found by a step was found or can be reached.
LEMMA FindsKept ==
  ASSUME HeapTypes, UNCHANGED <<slot, sym_set>>,
         \A d \in M!Reachable(Roots) : cell'[d].refs = cell[d].refs,
         At(work', SymCall) > 0 =>
             \A x \in Cells : (Found(x)' => x \in M!Reachable(Roots)) /\ Leaving(x)'
  PROVE  FindsReachable'
<1>1. Nil \notin Cells /\ Roots' = Roots
  BY CellsFinite DEF Roots, M!Held
<1>2. \A x \in M!Reachable(Roots) : x \in M!Reachable(Roots)'
  <2> SUFFICES ASSUME NEW x \in M!Reachable(Roots)  PROVE x \in M!Reachable(Roots)'
    OBVIOUS
  <2>1. x # Nil
    BY <1>1, ReachClosed
  <2> QED  BY <1>1, <2>1, ReachKept
<1> QED  BY <1>2 DEF FindsReachable

LEMMA FindsNil ==
  ASSUME HeapInv, FindsReachable, CallNil
  PROVE  FindsReachable'
<1>1. UNCHANGED <<cell, slot, sym_set>>
  BY DEF CallNil
<1>2. /\ \A x \in Cells : \A op : At(work', Call(op, x)) = At(work, Call(op, x))
      /\ At(work', SymCall) = At(work, SymCall)
  BY NilCalls
<1>3. \A x \in Cells : (Found(x)' <=> Found(x)) /\ (Leaving(x)' <=> Leaving(x))
  BY <1>1, <1>2 DEF Found, Leaving
<1> QED  BY <1>1, <1>2, <1>3, FindsKept DEF HeapInv, FindsReachable

\* Before a collection ends, a release frees a symbol.
LEMMA FindsRelease ==
  ASSUME Sound, HeapInv, FindsReachable, Release
  PROVE  FindsReachable'
<1>0. PICK c, n : c = Now.sx /\ n = cell[c].ref_cnt - 1
  OBVIOUS
<1>1. /\ Calling("release") /\ c # Nil /\ cell' = Decremented(c) /\ UNCHANGED slot
      /\ \/ n = 0 /\ work' = FreeCalls(c) \o Rest /\ UNCHANGED sym_set
         \/ n = 1 /\ work' = Calls("release", <<c>>) \o Rest
         \/ \E k \in EntriesOf(c) : n = 1 /\ work' = Calls("release", <<k, loaded[k]>>) \o Rest
         \/ n # 0 /\ work' = Rest
  BY <1>0 DEF Release
<1>2. /\ work # << >> /\ c \in Cells /\ Now = Call("release", c)
      /\ \A x : At(work, Call("mark", x)) = 0
      /\ n \in Nat /\ cell[c].ref_cnt = n + 1 /\ Counted(Decremented(c), c, n)
      /\ cell[c].type # "none"
  BY <1>0, <1>1, ReleaseStart
<1>3. HeapTypes /\ Phased /\ Balanced
  BY DEF HeapInv
<1>4. \A x : At(work, x) \in Nat
  BY <1>3, WorkSeq
<1>5. PICK e \in Seq(Releases \cup Frees) :
         work' = e \o Rest /\ (n = 0 => e = FreeCalls(c) /\ UNCHANGED sym_set)
  <2>1. CASE n = 0 /\ work' = FreeCalls(c) \o Rest /\ UNCHANGED sym_set
    <3>1. FreeCalls(c) \in Seq(Releases \cup Frees)
      BY <1>2, <1>3, FreeCount
    <3> QED  BY <2>1, <3>1
  <2>2. CASE n = 1 /\ work' = Calls("release", <<c>>) \o Rest
    <3>1. <<c>> \in Seq(Values)
      BY <1>2 DEF Values
    <3>2. Calls("release", <<c>>) \in Seq(Releases \cup Frees)
      BY <3>1, CallsSeq, SeqMonotonic
    <3>3. n # 0
      BY <2>2
    <3> QED  BY <2>2, <3>2, <3>3, Zenon
  <2>3. ASSUME NEW k \in EntriesOf(c), n = 1, work' = Calls("release", <<k, loaded[k]>>) \o Rest
        PROVE  \E d \in Seq(Releases \cup Frees) :
                  work' = d \o Rest /\ (n = 0 => d = FreeCalls(c) /\ UNCHANGED sym_set)
    <3>1. k \in DOMAIN loaded
      BY <2>3 DEF EntriesOf
    <3>2. <<k, loaded[k]>> \in Seq(Values)
      BY <1>3, <3>1 DEF HeapTypes, Values
    <3>3. Calls("release", <<k, loaded[k]>>) \in Seq(Releases \cup Frees)
      BY <3>2, CallsSeq, SeqMonotonic
    <3>4. n # 0
      BY <2>3
    <3> QED  BY <2>3, <3>3, <3>4, Zenon
  <2>4. CASE n # 0 /\ work' = Rest
    <3>1. Rest \in Seq(AllCalls)
      <4>1. << >> \in Seq(AllCalls)
        OBVIOUS
      <4> QED  BY <1>2, <1>3, <4>1, Pushed
    <3>2. << >> \in Seq(Releases \cup Frees) /\ Rest = << >> \o Rest
      BY <3>1, ConcatEmptySeq
    <3> QED  BY <2>4, <3>2
  <2> QED  BY <1>1, <2>1, <2>2, <2>3, <2>4
<1>6. \A x : At(work', x) = At(e, x) + At(work, x) - One(Now = x) /\ At(e, x) \in Nat
  <2>1. e \in Seq(AllCalls)
    BY SeqMonotonic DEF AllCalls
  <2> QED  BY <1>2, <1>3, <1>5, <2>1, Pushed
<1>7. At(work', SymCall) = At(work, SymCall) /\ \A x : At(work', Call("mark", x)) = 0
  <2>1. SymCall \notin Releases \cup Frees /\ \A x : Call("mark", x) \notin Releases \cup Frees
    BY CallIs DEF SymCall
  <2>2. Now # SymCall /\ \A x : Now # Call("mark", x)
    BY <1>2, CallIs DEF SymCall
  <2>3. One(Now = SymCall) = 0 /\ \A x : One(Now = Call("mark", x)) = 0
    BY <2>2 DEF One
  <2>4. At(e, SymCall) = 0 /\ \A x : At(e, Call("mark", x)) = 0
    BY <2>1, Absent
  <2> QED  BY <1>2, <1>4, <1>6, <2>3, <2>4
<1>8. ASSUME At(work', SymCall) > 0  PROVE FindsReachable'
  <2>1. cell[c].ref_cnt = 1 /\ cell[c].type = "sym" /\ At(work, Call("release", c)) = 1
    <3> DEFINE R == At(work, Call("release", c))
    <3>1. R \in Nat /\ R > 0
      <4>1. work \in Seq(AllCalls) /\ 1 \in 1 .. Len(work) /\ work[1] = Call("release", c)
        BY <1>2, <1>3, WorkSeq DEF Now
      <4> QED  BY <4>1, AtSeq
    <3>2. cell[c].ref_cnt = 1 /\ cell[c].type = "sym"
      BY <1>2, <1>7, <1>8, <3>1 DEF FindsReachable, Leaving
    <3> DEFINE H == At(slot, c)
               Y == One(c \in sym_set)
               K == One(c \in DOMAIN loaded)
               L == At(loaded, c)
               U == Cardinality(Uses(cell, c))
    <3>3. 1 + 0 = H + Y + K + L + U + R
      BY <1>2, <1>3, <3>2 DEF Balanced, Balance
    <3>4. H \in Nat /\ L \in Nat /\ U \in Nat /\ K \in {0, 1} /\ Y \in {0, 1}
      BY <1>3, Terms, Zenon
    <3> HIDE DEF H, Y, K, L, U, R
    <3>5. R = 1
      BY ONLY <3>1, <3>3, <3>4
    <3> QED  BY <3>2, <3>5 DEF R
  <2>2. n = 0 /\ e = FreeCalls(c) /\ UNCHANGED <<slot, sym_set>>
    BY <1>1, <1>2, <1>5, <2>1
  <2>3. \A x : At(e, Call("release", x)) = 0
    <3>1. DOMAIN cell[c].refs = {}
      BY <1>2, <1>3, <2>1, FieldsAre DEF HeapTypes, Made, Fields
    <3>2. \A x : At(cell[c].refs, x) = 0
      <4>1. \A x : {s \in DOMAIN cell[c].refs : cell[c].refs[s] = x} = {}
        BY <3>1
      <4> QED  BY <4>1, FS_EmptySet DEF At
    <3> QED  BY <1>2, <1>3, <2>2, <3>2, FreeCount
  <2>4. At(work', Call("release", c)) = 0
    <3>1. One(Now = Call("release", c)) = 1
      BY <1>2 DEF One
    <3> QED  BY <1>6, <2>1, <2>3, <3>1
  <2>5. ASSUME NEW x \in Cells, x # c
        PROVE  At(work', Call("release", x)) = At(work, Call("release", x)) /\ cell'[x] = cell[x]
    <3>1. One(Now = Call("release", x)) = 0
      BY <1>2, <2>5, CallIs DEF One
    <3> QED  BY <1>1, <1>2, <1>4, <1>6, <2>3, <2>5, <3>1 DEF Counted
  <2>6. \A d \in Cells : cell'[d].refs = cell[d].refs
    BY <1>1, <1>2, <2>5 DEF Counted
  <2>7. ASSUME NEW x \in Cells
        PROVE  (Found(x)' => x \in M!Reachable(Roots)) /\ Leaving(x)'
    <3>1. CASE x = c
      <4>1. cell'[c].ref_cnt = 0
        BY <1>1, <1>2, <2>2 DEF Counted
      <4> QED  BY <1>7, <2>4, <3>1, <4>1 DEF Found, Leaving
    <3>2. CASE x # c
      BY <1>2, <1>7, <1>8, <2>5, <3>2 DEF Found, Leaving, FindsReachable
    <3> QED  BY <3>1, <3>2
  <2> QED  BY <1>3, <2>2, <2>6, <2>7, FindsKept, ReachClosed
<1> QED  BY <1>8 DEF FindsReachable

LEMMA FindsFree ==
  ASSUME HeapInv, FindsReachable, Free1
  PROVE  FindsReachable'
<1>0. PICK c : c = Now.sx
  OBVIOUS
<1>1. Freed(c)
  BY <1>0, FreeStep
<1>2. Calling("free1") /\ work # << >> /\ work' = Rest /\ UNCHANGED <<slot, sym_set>>
  BY DEF Free1, Calling
<1>3. HeapTypes /\ Phased
  BY DEF HeapInv
<1>4. \A op, x : op # "free1" => At(work', Call(op, x)) = At(work, Call(op, x))
  <2> SUFFICES ASSUME NEW op, NEW x, op # "free1"
               PROVE  At(work', Call(op, x)) = At(work, Call(op, x))
    OBVIOUS
  <2>1. Now \in Frees
    BY <1>2, <1>3, Turn
  <2>2. One(Now = Call(op, x)) = 0
    BY <2>1, CallIs DEF One
  <2>3. << >> \in Seq(AllCalls)
    OBVIOUS
  <2>4. At(work', Call(op, x)) = At(work, Call(op, x)) - One(Now = Call(op, x))
    BY <1>2, <1>3, <2>3, Pushed
  <2>5. At(work, Call(op, x)) \in Nat
    BY <1>3, WorkSeq
  <2> QED  BY <2>2, <2>4, <2>5
<1>5. M!Reachable(Roots) \subseteq Alive
  <2>1. Alive \in SUBSET Cells /\ M!Closed(Roots, Alive)
    BY <1>1, AliveClosed, ClosedIs DEF Alive, Freed
  <2> QED  BY <2>1, ClosedIs
<1>6. \A d \in Cells : \/ cell'[d] = cell[d]
                       \/ cell'[d].ref_cnt = 0 /\ cell[d].ref_cnt = 0
  <2>1. HeapInv'
    BY FreeStep
  <2>2. ASSUME NEW d \in Cells, cell'[d].type = "none"  PROVE cell'[d].ref_cnt = 0
    <3>1. Reclaimed(d)' /\ cell'[d].ref_cnt \in Nat
      BY <2>1 DEF HeapInv, HeapTypes, Made, Objects
    <3> QED  BY <2>2, <3>1 DEF Reclaimed
  <2> QED  BY <1>1, <2>2 DEF Freed
<1>7. \A d \in M!Reachable(Roots) : cell'[d].refs = cell[d].refs
  BY <1>5, <1>6 DEF Alive
<1>8. ASSUME At(work', SymCall) > 0, NEW x \in Cells
      PROVE  (Found(x)' => x \in M!Reachable(Roots)) /\ Leaving(x)'
  <2>1. At(work, SymCall) > 0
    BY <1>4, <1>8 DEF SymCall
  <2>2. /\ At(work', Call("mark", x)) = At(work, Call("mark", x))
        /\ At(work', Call("release", x)) = At(work, Call("release", x))
    BY <1>4
  <2> QED  BY <1>6, <2>1, <2>2 DEF Found, Leaving, FindsReachable
<1> QED  BY <1>2, <1>3, <1>7, <1>8, FindsKept

LEMMA FindsMark ==
  ASSUME Sound, HeapInv, FindsReachable, Mark
  PROVE  FindsReachable'
<1>0. PICK c, n : c = Now.sx /\ n = cell[c].ref_cnt
  OBVIOUS
<1>1. /\ Calling("mark") /\ work # << >> /\ c # Nil /\ UNCHANGED <<slot, sym_set>>
      /\ IF n = 0
         THEN /\ cell' = [Incremented(c) EXCEPT ![c].list = "white"]
              /\ work' = Calls("mark", FieldValues(c, Marked[cell[c].type])) \o Rest
         ELSE cell' = Incremented(c) /\ work' = Rest
  BY <1>0 DEF Mark, Calling
<1>2. HeapTypes /\ Phased
  BY DEF HeapInv
<1>3. /\ c \in Cells /\ Now = Call("mark", c) /\ Collects /\ Marking /\ MarksInUse
      /\ \A x : At(work, x) \in Nat /\ At(work, Call("release", x)) = 0
  BY <1>0, <1>1, <1>2, Turn, CallIs, WorkSeq DEF Values
<1>4. At(work, Call("mark", c)) > 0
  <2>1. work \in Seq(AllCalls) /\ 1 \in 1 .. Len(work) /\ work[1] = Call("mark", c)
    BY <1>1, <1>2, <1>3, WorkSeq DEF Now
  <2> QED  BY <2>1, AtSeq
<1>5. n \in Nat /\ cell[c].type # "none"
  <2>1. InUse(c)
    BY <1>3, <1>4 DEF MarksInUse
  <2> QED  BY <1>0, <1>2, <1>3, <2>1 DEF HeapInv, Reclaimed, HeapTypes, Made, Objects
<1>6. PICK v \in Seq(Values) :
         /\ work' = Calls("mark", v) \o Rest /\ Calls("mark", v) \in Seq(Marks)
         /\ \A x : At(v, x) > 0 => At(cell[c].refs, x) > 0
         /\ \A x : At(Calls("mark", v), Call("mark", x)) = At(v, x)
  <2>1. CASE n = 0
    BY <1>1, <1>2, <1>3, <1>5, <2>1, MarkCount
  <2>2. CASE n # 0
    <3> DEFINE v == << >>
    <3>1. v \in Seq(Values)
      OBVIOUS
    <3>2. \A x : At(v, x) = 0
      BY AtEmpty
    <3>3. Calls("mark", v) = << >>
      BY DEF Calls
    <3>4. Rest \in Seq(AllCalls)
      <4>1. << >> \in Seq(AllCalls)
        OBVIOUS
      <4> QED  BY <1>1, <1>2, <4>1, Pushed
    <3>5. << >> \o Rest = Rest
      BY <3>4, ConcatEmptySeq
    <3>6. work' = Calls("mark", v) \o Rest
      BY <1>1, <2>2, <3>3, <3>5
    <3>7. Calls("mark", v) \in Seq(Marks) /\ \A x : At(Calls("mark", v), Call("mark", x)) = At(v, x)
      <4>1. \A x : At(Calls("mark", v), Call("mark", x)) = 0
        BY <3>3, AtEmpty
      <4>2. << >> \in Seq(Marks)
        OBVIOUS
      <4>3. Calls("mark", v) \in Seq(Marks)
        BY ONLY <3>3, <4>2
      <4> QED  BY <3>2, <4>1, <4>3
    <3> HIDE DEF v
    <3> QED  BY <3>1, <3>2, <3>6, <3>7
  <2> QED  BY <2>1, <2>2
<1> DEFINE e == Calls("mark", v)
<1>7. \A x : At(work', x) = At(e, x) + At(work, x) - One(Now = x) /\ At(e, x) \in Nat
  <2>1. e \in Seq(AllCalls)
    BY <1>6, SeqMonotonic DEF AllCalls
  <2> HIDE DEF e
  <2> QED  BY <1>1, <1>2, <1>6, <2>1, Pushed DEF e
<1>8. At(work', SymCall) = At(work, SymCall) /\ \A x : At(work', Call("release", x)) = 0
  <2>1. SymCall \notin Marks /\ \A x : Call("release", x) \notin Marks
    BY CallIs DEF SymCall
  <2>2. One(Now = SymCall) = 0 /\ \A x : One(Now = Call("release", x)) = 0
    BY <1>3, CallIs DEF One, SymCall
  <2>3. At(e, SymCall) = 0 /\ \A x : At(e, Call("release", x)) = 0
    BY <1>6, <2>1, Absent
  <2> QED  BY <1>3, <1>7, <2>2, <2>3
<1>9. /\ \A d \in Cells : cell'[d].refs = cell[d].refs
      /\ \A d \in Cells : d # c => cell'[d] = cell[d]
  <2>1. PICK o : o = [cell[c] EXCEPT !.ref_cnt = n + 1]
    OBVIOUS
  <2>2. cell[c] \in Objects /\ Incremented(c) = [cell EXCEPT ![c] = o]
    BY <1>0, <1>2, <1>3, <2>1 DEF HeapTypes, Made, Incremented
  <2>3. o.refs = cell[c].refs /\ o \in Objects
    BY <1>5, <2>1, <2>2 DEF Objects
  <2>4. CASE n = 0
    <3>1. PICK q : q = [o EXCEPT !.list = "white"]
      OBVIOUS
    <3>2. cell' = [cell EXCEPT ![c] = q]
      BY <1>1, <1>2, <1>3, <2>2, <2>4, <3>1 DEF HeapTypes
    <3>3. q.refs = cell[c].refs
      BY <2>3, <3>1 DEF Objects
    <3> QED  BY <1>2, <1>3, <3>2, <3>3 DEF HeapTypes
  <2>5. CASE n # 0
    BY <1>1, <1>2, <1>3, <2>2, <2>3, <2>5 DEF HeapTypes
  <2> QED  BY <2>4, <2>5
<1>10. ASSUME At(work', SymCall) > 0, NEW x \in Cells
       PROVE  (Found(x)' => x \in M!Reachable(Roots)) /\ Leaving(x)'
  <2>1. c \in M!Reachable(Roots) /\ (Found(x) => x \in M!Reachable(Roots))
    BY <1>3, <1>4, <1>8, <1>10 DEF FindsReachable, Found
  <2>2. ASSUME At(work', Call("mark", x)) > 0  PROVE x \in M!Reachable(Roots)
    <3>1. CASE At(work, Call("mark", x)) > 0
      BY <2>1, <3>1 DEF Found
    <3>2. CASE At(work, Call("mark", x)) = 0
      <4>1. At(e, Call("mark", x)) > 0
        <5>1. One(Now = Call("mark", x)) \in {0, 1}
          BY DEF One
        <5>2. At(work', Call("mark", x)) = At(e, Call("mark", x)) + 0 - One(Now = Call("mark", x))
              /\ At(e, Call("mark", x)) \in Nat
          BY <1>7, <3>2
        <5> HIDE DEF e
        <5> QED  BY <2>2, <5>1, <5>2
      <4>2. At(cell[c].refs, x) > 0
        BY <1>6, <4>1
      <4>3. cell[c].refs \in Records
        BY <1>2, <1>3 DEF HeapTypes, Made, Objects
      <4>4. \E f \in DOMAIN cell[c].refs : cell[c].refs[f] = x
        BY <4>2, <4>3, RecordFinite, AtNat
      <4> QED  BY <2>1, <4>4, ReachClosed
    <3> QED  BY <1>3, <3>1, <3>2
  <2>3. ASSUME cell'[x].ref_cnt > 0  PROVE x \in M!Reachable(Roots)
    <3>1. CASE x = c
      BY <2>1, <3>1
    <3>2. CASE x # c
      BY <1>3, <1>9, <2>1, <2>3, <3>2 DEF Found
    <3> QED  BY <3>1, <3>2
  <2> QED  BY <1>8, <2>2, <2>3 DEF Found, Leaving
<1> QED  BY <1>1, <1>2, <1>9, <1>10, FindsKept, ReachClosed

LEMMA FindsSweep ==
  ASSUME HeapInv, FindsReachable, Sweep
  PROVE  FindsReachable'
<1>1. /\ Calling("sweep") /\ work # << >>
      /\ \/ \E c \in OnList("grey") : work' = <<Call("free1", c)>> \o work
         \/ work' = Rest
      /\ UNCHANGED <<cell, slot, sym_set>>
  BY DEF Sweep, Calling
<1>2. HeapTypes /\ Phased
  BY DEF HeapInv
<1>3. Now = SweepCall /\ \A x : At(work, x) \in Nat
  BY <1>1, <1>2, Turn, WorkSeq
<1>4. /\ At(work', SymCall) = At(work, SymCall)
      /\ \A x : /\ At(work', Call("mark", x)) = At(work, Call("mark", x))
                /\ At(work', Call("release", x)) = At(work, Call("release", x))
  <2> SUFFICES ASSUME NEW op \in {"sym_collect", "mark", "release"}, NEW x
               PROVE  At(work', Call(op, x)) = At(work, Call(op, x))
    BY DEF SymCall
  <2>1. ASSUME NEW c \in OnList("grey"), work' = <<Call("free1", c)>> \o work
        PROVE  At(work', Call(op, x)) = At(work, Call(op, x))
    <3>1. Call("free1", c) \in AllCalls
      BY <2>1, CallIs DEF OnList, AllCalls
    <3>2. One(Call("free1", c) = Call(op, x)) = 0
      BY CallIs DEF One
    <3>3. At(work', Call(op, x)) = One(Call("free1", c) = Call(op, x)) + At(work, Call(op, x))
      BY <1>2, <2>1, <3>1, InFront
    <3> QED  BY <1>3, <3>2, <3>3
  <2>2. CASE work' = Rest
    <3>1. << >> \in Seq(AllCalls)
      OBVIOUS
    <3>2. At(work', Call(op, x)) = At(work, Call(op, x)) - One(Now = Call(op, x))
      BY <1>1, <1>2, <2>2, <3>1, Pushed
    <3>3. One(Now = Call(op, x)) = 0
      BY <1>3, CallIs DEF One, SweepCall
    <3> QED  BY <1>3, <3>2, <3>3
  <2> QED  BY <1>1, <2>1, <2>2
<1>5. \A x \in Cells : (Found(x)' <=> Found(x)) /\ (Leaving(x)' <=> Leaving(x))
  BY <1>1, <1>4 DEF Found, Leaving
<1> QED  BY <1>1, <1>2, <1>4, <1>5, FindsKept, ReachClosed DEF FindsReachable

\* A symbol that is dropped is the only object that cannot be reached any more.
LEMMA FindsSym ==
  ASSUME HeapInv, FindsReachable, SymCollect
  PROVE  FindsReachable'
<1> DEFINE lone == {c \in sym_set \ permanent : cell[c].ref_cnt = 1}
<1>1. /\ Calling("sym_collect") /\ work # << >>
      /\ \/ \E c \in lone : sym_set' = sym_set \ {c} /\ work' = <<Call("release", c)>> \o work
         \/ work' = Rest /\ UNCHANGED sym_set
      /\ UNCHANGED <<cell, slot>>
  BY DEF SymCollect, Calling
<1>2. HeapTypes /\ Phased /\ Balanced
  BY DEF HeapInv
<1>3. /\ work \in {<<SymCall>>, <<SymCall, AllocCall>>} /\ Now = SymCall
      /\ \A x : At(work, Call("mark", x)) = 0 /\ At(work, x) \in Nat
  BY <1>1, <1>2, Turn, WorkSeq
<1>4. At(work, SymCall) = 1
  <2>1. CASE work = <<SymCall>>
    <3>1. At(work, SymCall) = One(SymCall = SymCall)
      BY <2>1, AtOne
    <3> QED  BY <3>1 DEF One
  <2>2. CASE work = <<SymCall, AllocCall>>
    <3>1. work \in Seq(LastCalls) /\ Head(work) = SymCall
      BY <2>2 DEF LastCalls
    <3>2. Tail(work) = <<AllocCall>>
      BY <2>2, TailsAre
    <3>3. At(<<AllocCall>>, SymCall) = One(AllocCall = SymCall)
      BY AtOne
    <3>4. At(Tail(work), SymCall) = One(AllocCall = SymCall)
      BY ONLY <3>2, <3>3
    <3>5. At(work, SymCall) = One(AllocCall = SymCall) + One(SymCall = SymCall)
      BY <1>1, <3>1, <3>4, AtHead
    <3> QED  BY <3>5, CallIs DEF One, AllocCall, SymCall
  <2> QED  BY <1>3, <2>1, <2>2
<1>5. ASSUME NEW c \in lone, sym_set' = sym_set \ {c}, work' = <<Call("release", c)>> \o work
      PROVE  FindsReachable'
  <2>1. c \in sym_set /\ c \in Cells /\ cell[c].ref_cnt = 1 /\ cell[c].type = "sym"
    BY <1>2 DEF HeapTypes
  <2>2. At(slot, c) = 0
    <3> DEFINE H == At(slot, c)
               K == One(c \in DOMAIN loaded)
               L == At(loaded, c)
               U == Cardinality(Uses(cell, c))
               R == At(work, Call("release", c))
    <3>1. One(c \in sym_set) = 1
      BY <2>1 DEF One
    <3>2. 1 + 0 = H + 1 + K + L + U + R
      BY <1>2, <1>3, <2>1, <3>1 DEF Balanced, Balance
    <3>3. H \in Nat /\ L \in Nat /\ U \in Nat /\ K \in {0, 1}
      BY <1>2, Terms, Zenon
    <3>4. R \in Nat
      BY <1>3
    <3> HIDE DEF H, K, L, U, R
    <3>5. H = 0
      BY ONLY <3>2, <3>3, <3>4
    <3> QED  BY <3>5 DEF H
  <2>3. Roots' \cup {c} = Roots \cup {c}
    BY <1>1, <1>5, <2>1 DEF Roots, M!Held
  <2>4. DOMAIN cell[c].refs = {}
    BY <1>2, <2>1, FieldsAre DEF HeapTypes, Made, Fields
  <2>5. Call("release", c) \in AllCalls
    BY <2>1, CallIs DEF AllCalls, Values
  <2>6. \A x : At(work', x) = One(Call("release", c) = x) + At(work, x)
    BY <1>2, <1>5, <2>5, InFront
  <2>7. ASSUME NEW x \in Cells
        PROVE  (Found(x)' => x \in M!Reachable(Roots)') /\ Leaving(x)'
    <3>1. At(work', Call("mark", x)) = 0
      <4>1. One(Call("release", c) = Call("mark", x)) = 0
        BY CallIs DEF One
      <4> QED  BY <1>3, <2>6, <4>1
    <3>2. CASE x = c
      <4>1. One(Call("release", c) = Call("release", x)) = 1
        BY <3>2 DEF One
      <4>2. At(work', Call("release", x)) = 1 + At(work, Call("release", x))
            /\ At(work, Call("release", x)) \in Nat
        BY <1>3, <2>6, <4>1
      <4>3. At(work', Call("release", x)) # 0
        BY <4>2
      <4> QED  BY <1>1, <2>1, <3>1, <3>2, <4>3 DEF Found, Leaving
    <3>3. CASE x # c
      <4>1. One(Call("release", c) = Call("release", x)) = 0
        BY <3>3, CallIs DEF One
      <4>2. At(work', Call("release", x)) = At(work, Call("release", x))
        BY <1>3, <2>6, <4>1
      <4>3. (Found(x) => x \in M!Reachable(Roots)) /\ Leaving(x)
        BY <1>4 DEF FindsReachable
      <4>4. x \in M!Reachable(Roots) => x \in M!Reachable(Roots)'
        BY <1>1, <1>2, <2>3, <2>4, <3>3, ReachKept
      <4> QED  BY <1>1, <3>1, <4>2, <4>3, <4>4 DEF Found, Leaving
    <3> QED  BY <3>2, <3>3
  <2> QED  BY <2>7 DEF FindsReachable
<1>6. CASE work' = Rest
  <2>1. << >> \in Seq(AllCalls)
    OBVIOUS
  <2>2. At(work', SymCall) = 1 - One(Now = SymCall)
    BY <1>1, <1>2, <1>4, <1>6, <2>1, Pushed
  <2>3. At(work', SymCall) = 0
    BY <1>3, <2>2 DEF One
  <2> QED  BY <2>3 DEF FindsReachable
<1> QED  BY <1>1, <1>5, <1>6

\* A collection begins with all there is to find still to be marked.
LEMMA FindsGreyed ==
  ASSUME HeapInv, work = << >>, cell' = Greyed, UNCHANGED <<slot, sym_set>>,
         NEW symbols \in SetToSeqs(sym_set),
         \/ work' = CollectCalls(symbols)
         \/ work' = CollectCalls(symbols) \o <<AllocCall>>
  PROVE  FindsReachable'
<1>1. HeapTypes /\ \A x \in Cells : InUse(x) <=> cell[x].ref_cnt > 0
  BY Settled DEF HeapInv
<1>2. \A x : /\ At(work', Call("mark", x)) = At(slot, x) + One(x \in sym_set)
             /\ At(work', Call("release", x)) = 0
  BY <1>1, CollectWork
<1>3. \A d \in Cells : ~ InUse(d) => cell[d].ref_cnt = 0
  BY <1>1 DEF HeapTypes, Made, Objects
<1>4. \A d \in Cells : cell'[d].refs = cell[d].refs /\ ~ (cell'[d].ref_cnt > 0)
  <2>1. \A d \in Cells : cell'[d].refs = cell[d].refs /\ cell'[d].ref_cnt = 0
    BY <1>1, <1>3, GreyedIs
  <2> QED  BY <2>1
<1>5. ASSUME NEW x \in Cells, Found(x)'  PROVE x \in M!Reachable(Roots)
  <2>1. At(slot, x) + One(x \in sym_set) > 0
    BY <1>2, <1>4, <1>5 DEF Found
  <2>2. At(slot, x) \in Nat /\ (At(slot, x) > 0 <=> \E s \in Slots : slot[s] = x)
    BY <1>1, Terms
  <2>3. x \in sym_set \/ \E s \in Slots : slot[s] = x
    BY <2>1, <2>2 DEF One
  <2>4. x \in Roots
    BY <2>3, CellsFinite DEF Roots, M!Held, M!Slots, Slots
  <2> QED  BY <2>4, ReachClosed
<1>6. \A x \in Cells : Leaving(x)'
  BY <1>2 DEF Leaving
<1> QED  BY <1>1, <1>4, <1>5, <1>6, FindsKept, ReachClosed

\* A program's step leaves only releases to be made.
LEMMA FindsAfterwards ==
  ASSUME NEW v \in Values, work' = Calls("release", <<v>>)
  PROVE  FindsReachable'
<1>1. At(work', SymCall) = 0
  BY Overwritten DEF SymCall
<1> QED  BY <1>1 DEF FindsReachable

LEMMA FindsBuilt ==
  ASSUME HeapInv, NEW w, Wanted(w), NEW c, Build(w, c)
  PROVE  FindsReachable'
<1>1. slot[w.dst] \in Values
  BY DEF Wanted, HeapInv, HeapTypes
<1> QED  BY <1>1, FindsAfterwards DEF Build

LEMMA FindsNext ==
  ASSUME Sound, HeapInv, FindsReachable, [Next]_vars
  PROVE  FindsReachable'
<1>0. HeapTypes /\ Phased /\ slot \in [Slots -> Values]
  BY DEF HeapInv, HeapTypes
<1>1. CASE CallNil
  BY <1>1, FindsNil
<1>2. CASE Release
  BY <1>2, FindsRelease
<1>3. CASE Free1
  BY <1>3, FindsFree
<1>4. CASE Mark
  BY <1>4, FindsMark
<1>5. CASE Sweep
  BY <1>5, FindsSweep
<1>6. CASE SymCollect
  BY <1>6, FindsSym
<1>7. CASE Retry
  <2>1. work = <<AllocCall>>
    BY <1>0, <1>7, Turn DEF Retry, Calling
  <2>2. Wanted(want) /\ At(work, SymCall) = 0
    <3>1. At(work, AllocCall) = One(AllocCall = AllocCall) /\ At(work, SymCall) = One(AllocCall = SymCall)
      BY <2>1, AtOne
    <3> QED  BY <3>1, CallIs DEF One, HeapInv, WantOK, AllocCall, SymCall
  <2> QED  BY <1>7, <2>2, FindsBuilt DEF Retry, FindsReachable
<1>8. ASSUME NEW t \in Types, NEW d \in Slots, New(t, d)  PROVE FindsReachable'
  <2>1. work = << >>
    BY <1>8 DEF New, Idle
  <2>2. PICK r \in Contents(t) :
           \/ \E c \in Available : Build(Want(t, r, d), c)
           \/ /\ cell' = Greyed /\ UNCHANGED <<slot, sym_set>>
              /\ \E symbols \in SetToSeqs(sym_set) :
                     work' = CollectCalls(symbols) \o <<AllocCall>>
    BY <1>8 DEF New, AllocCall
  <2>3. Wanted(Want(t, r, d))
    BY ContentsWanted
  <2> QED  BY <2>1, <2>2, <2>3, FindsBuilt, FindsGreyed
<1>9. ASSUME NEW s \in Slots, NEW v \in Expressible, Assign(s, v)  PROVE FindsReachable'
  BY <1>0, <1>9, FindsAfterwards DEF Assign
<1>10. ASSUME NEW d \in Slots, NEW s \in Slots, Move(d, s)  PROVE FindsReachable'
  BY <1>0, <1>10, FindsAfterwards DEF Move
<1>11. ASSUME NEW s \in Slots, NEW v \in Expressible, slot[s] # Nil, cell[slot[s]].type = "array",
              NEW f \in FieldsOf("array"), SetField(slot[s], f, v)
       PROVE  FindsReachable'
  <2>1. slot[s] \in Cells
    BY <1>0, <1>11 DEF Values
  <2>2. cell[slot[s]].refs \in Records /\ f \in DOMAIN cell[slot[s]].refs
    BY <1>0, <1>11, <2>1 DEF HeapTypes, Made, Objects, Fields
  <2>3. cell[slot[s]].refs[f] \in Values
    BY <2>2, RecordFinite
  <2> QED  BY <1>11, <2>3, FindsAfterwards DEF SetField
<1>12. ASSUME NEW s \in Slots, Load(s)  PROVE FindsReachable'
  <2>1. PICK k : work' = IF k \in DOMAIN loaded THEN Calls("release", <<k, loaded[k]>>) ELSE << >>
    BY <1>12 DEF Load
  <2>2. CASE k \in DOMAIN loaded
    <3> DEFINE l == <<k, loaded[k]>>
    <3>1. l \in Seq(Values)
      BY <1>0, <2>2 DEF HeapTypes, Values
    <3> HIDE DEF l
    <3>2. At(Calls("release", l), Call("sym_collect", Nil)) = 0
      BY <3>1, CallsCount
    <3> QED  BY <2>1, <2>2, <3>2 DEF FindsReachable, SymCall, l
  <2>3. CASE k \notin DOMAIN loaded
    <3>1. At(work', SymCall) = 0
      BY <2>1, <2>3, AtEmpty
    <3> QED  BY <3>1 DEF FindsReachable
  <2> QED  BY <2>2, <2>3
<1>13. CASE Collect
  BY <1>13, FindsGreyed DEF Collect, Idle
<1>14. CASE UNCHANGED vars
  <2>1. UNCHANGED <<cell, slot, sym_set, work>>
    BY <1>14 DEF vars
  <2>2. \A x \in Cells : (Found(x)' <=> Found(x)) /\ (Leaving(x)' <=> Leaving(x))
    BY <2>1 DEF Found, Leaving
  <2> QED  BY <1>0, <2>1, <2>2, FindsKept DEF FindsReachable
<1> QED  BY <1>1, <1>2, <1>3, <1>4, <1>5, <1>6, <1>7, <1>8, <1>9, <1>10, <1>11, <1>12, <1>13, <1>14
         DEF Next, Stopped

\* A collection takes all garbage, cycles too: once the grey list has been swept, all
\* that is in use can be reached.
THEOREM CollectionsComplete ==
  ASSUME Sound
  PROVE  Spec => []CollectionComplete
<1>1. Init => FindsReachable
  <2> SUFFICES ASSUME Init  PROVE FindsReachable
    OBVIOUS
  <2>1. work = << >>
    BY DEF Init
  <2> QED  BY <2>1, AtEmpty DEF FindsReachable
<1>2. HeapInv /\ FindsReachable /\ [Next]_vars => FindsReachable'
  BY FindsNext
<1>3. ASSUME HeapInv, FindsReachable, Calling("sym_collect"), NEW x \in Cells, InUse(x)
      PROVE  x \in M!Reachable(Roots)
  <2>1. HeapTypes /\ Phased /\ work # << >> /\ Reclaimed(x)
    BY <1>3 DEF HeapInv, Calling
  <2>2. OnList("grey") = {} /\ work \in {<<SymCall>>, <<SymCall, AllocCall>>}
    BY <1>3, <2>1, Turn
  <2>3. work \in Seq({SymCall, AllocCall})
    <3>1. <<SymCall>> \in Seq({SymCall, AllocCall}) /\ <<SymCall, AllocCall>> \in Seq({SymCall, AllocCall})
      OBVIOUS
    <3> QED  BY ONLY <2>2, <3>1
  <2>4. At(work, Call("free1", x)) = 0 /\ At(work, Call("release", x)) = 0
    <3>1. Call("free1", x) \notin {SymCall, AllocCall} /\ Call("release", x) \notin {SymCall, AllocCall}
      BY CallIs DEF SymCall, AllocCall
    <3> QED  BY <2>3, <3>1, Absent
  <2>5. At(work, SymCall) > 0
    <3>1. 1 \in 1 .. Len(work) /\ work[1] = SymCall
      BY <2>2
    <3> QED  BY <2>3, <3>1, AtSeq
  <2>6. cell[x].ref_cnt > 0
    <3>1. cell[x].ref_cnt \in Nat /\ cell[x].list # "grey"
      BY <2>1, <2>2 DEF HeapTypes, Made, Objects, OnList
    <3>2. cell[x].ref_cnt # 0
      BY <1>3, <2>1, <2>4, <3>1 DEF Reclaimed
    <3> QED  BY <3>1, <3>2
  <2> QED  BY <1>3, <2>4, <2>5, <2>6 DEF FindsReachable, Found
<1>4. HeapInv /\ FindsReachable => CollectionComplete
  BY <1>3 DEF CollectionComplete, Roots
<1> QED  BY <1>1, <1>2, <1>4, HeapInvariant, PTL DEF Spec

=============================================================================
