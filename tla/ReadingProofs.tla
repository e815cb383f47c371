--------------------------- MODULE ReadingProofs ---------------------------
(***************************************************************************)
(* What Loader shows on small instances, for every program, path and file  *)
(* system, and Reader, for every text.                                     *)
(***************************************************************************)
EXTENDS Reading, TLAPS, NaturalsInduction, WellFoundedInduction

LoadTypes ==
    [name : Names, file : Files, sha1 : Sha1s, module : Nat, left : Seq(Names)]

TypesOfModules ==
    /\ modules \in Seq([sha1 : Sha1s, over : BOOLEAN])
    /\ refs \in Seq(Nat) /\ Len(refs) = Len(modules)
    /\ table \in [Sha1s -> {0, Nil} \cup Ids]
    /\ again \subseteq Sha1s

Types ==
    /\ TypesOfModules
    /\ disk \in [Files -> Sha1s \cup {NoFile}]
    /\ loading \in Seq(LoadTypes)

\* A load that is going on has a module that is not over, in use and its own, except
\* the innermost between the checksum and the file.
HasModule(k, m) ==
    /\ m \in Ids /\ refs[m] > 0 /\ modules[m].over = FALSE
    /\ modules[m].sha1 = loading[k].sha1
    /\ \A j \in DOMAIN loading : loading[j].module = m => j = k

Loads ==
    \A k \in DOMAIN loading :
        \/ loading[k].module = 0 /\ k = Len(loading)
        \/ HasModule(k, loading[k].module)

\* What the table gives.
Entries ==
    \A c \in Sha1s : table[c] > 0 =>
        /\ refs[table[c]] > 0 /\ modules[table[c]].over /\ modules[table[c]].sha1 = c

InUse(i, over) == refs[i] > 0 /\ modules[i].over = over

\* A module in use that is not over has neither an entry of its sha1 beside it nor
\* another one like it, unless its sha1 was loaded again.
Unfinished ==
    \A i \in Ids : InUse(i, FALSE) /\ modules[i].sha1 \notin again =>
        /\ table[modules[i].sha1] \in {0, Nil}
        /\ \A j \in Ids : InUse(j, FALSE) /\ modules[j].sha1 = modules[i].sha1 => j = i

\* A module in use that is over is in the table, unless its sha1 was loaded again.
Finished ==
    \A i \in Ids : InUse(i, TRUE) /\ modules[i].sha1 \notin again => table[modules[i].sha1] = i

IInv == Types /\ Loads /\ Entries /\ Unfinished /\ Finished

-----------------------------------------------------------------------------
\* Sequences.
LEMMA ElementIs ==
    ASSUME NEW S, NEW s \in Seq(S) PROVE \A i \in 1 .. Len(s) : s[i] \in S
    OBVIOUS

LEMMA ReplacedIs ==
    ASSUME NEW S, NEW s \in Seq(S), NEW i \in 1 .. Len(s), NEW e \in S
    PROVE  /\ [s EXCEPT ![i] = e] \in Seq(S) /\ Len([s EXCEPT ![i] = e]) = Len(s)
           /\ \A j \in 1 .. Len(s) : [s EXCEPT ![i] = e][j] = IF j = i THEN e ELSE s[j]
    OBVIOUS

LEMMA AppendIs ==
    ASSUME NEW S, NEW s \in Seq(S), NEW e \in S
    PROVE  /\ Append(s, e) \in Seq(S) /\ Len(Append(s, e)) = Len(s) + 1
           /\ DOMAIN Append(s, e) = 1 .. Len(s) + 1
           /\ \A i \in 1 .. Len(s) : Append(s, e)[i] = s[i]
           /\ Append(s, e)[Len(s) + 1] = e
    OBVIOUS

LEMMA InitialIs ==
    ASSUME NEW S, NEW s \in Seq(S), NEW k \in 0 .. Len(s)
    PROVE  /\ SubSeq(s, 1, k) \in Seq(S) /\ Len(SubSeq(s, 1, k)) = k
           /\ DOMAIN SubSeq(s, 1, k) = 1 .. k
           /\ \A i \in 1 .. k : SubSeq(s, 1, k)[i] = s[i]
    OBVIOUS

LEMMA FrontIs ==
    ASSUME NEW S, NEW s \in Seq(S), s # << >>
    PROVE  /\ Len(s) \in Nat \ {0} /\ Last(s) = s[Len(s)] /\ Last(s) \in S
           /\ Front(s) \in Seq(S) /\ Len(Front(s)) = Len(s) - 1
           /\ DOMAIN Front(s) = 1 .. Len(s) - 1
           /\ \A i \in 1 .. Len(s) - 1 : Front(s)[i] = s[i]
<1>1. Len(s) \in Nat \ {0} /\ Len(s) - 1 \in 0 .. Len(s) OBVIOUS
<1>2. Last(s) = s[Len(s)] /\ Front(s) = SubSeq(s, 1, Len(s) - 1) BY DEF Last, Front
<1>3. s[Len(s)] \in S BY <1>1
<1> DEFINE n == Len(s) - 1
<1> HIDE DEF n
<1>4. /\ SubSeq(s, 1, n) \in Seq(S) /\ Len(SubSeq(s, 1, n)) = n
      /\ DOMAIN SubSeq(s, 1, n) = 1 .. n
      /\ \A i \in 1 .. n : SubSeq(s, 1, n)[i] = s[i]
    <2>1. n \in 0 .. Len(s) BY <1>1 DEF n
    <2> QED BY <2>1, InitialIs
<1> QED BY <1>1, <1>2, <1>3, <1>4 DEF n

LEMMA ConcatOneIs ==
    ASSUME NEW S, NEW s \in Seq(S), NEW e \in S
    PROVE  /\ s \o <<e>> \in Seq(S) /\ Len(s \o <<e>>) = Len(s) + 1
           /\ DOMAIN (s \o <<e>>) = 1 .. Len(s) + 1
           /\ \A i \in 1 .. Len(s) : (s \o <<e>>)[i] = s[i]
           /\ (s \o <<e>>)[Len(s) + 1] = e
    OBVIOUS

-----------------------------------------------------------------------------
\* The directory of a file is one of those of the path.
LEMMA LeastElement ==
    ASSUME NEW T \in SUBSET Nat, T # {}
    PROVE  \E e \in T : \A j \in T : e <= j
<1> DEFINE R == {ss \in Nat \X Nat : ss[1] < ss[2]}
<1>1. IsWellFoundedOn(R, Nat)
    BY NatLessThanWellFounded DEF OpToRel
<1> HIDE DEF R
<1>2. PICK e \in T : \A j \in T : ~(<<j, e>> \in R)
    BY <1>1, WFMin
<1>3. ASSUME NEW j \in T, j < e PROVE FALSE
    <2>1. <<j, e>> \in R BY <1>3 DEF R
    <2> QED BY <2>1, <1>2
<1> QED BY <1>3, SMT

LEMMA FindIsFile ==
    ASSUME Types, NEW n \in Names PROVE Find(n) \in Files
<1> DEFINE having == {k \in 1 .. Len(Path) : disk[<<Path[k], n>>] # NoFile}
<1>1. Path \in Seq(ToSet(Path)) /\ Path # << >> /\ Files = ToSet(Path) \X Names
    BY LoaderAssumption
<1>2. \A k \in 1 .. Len(Path) : Path[k] \in ToSet(Path) BY <1>1 DEF ToSet
<1>3. CASE having = {}
    BY <1>1, <1>2, <1>3, Last(Path) = Path[Len(Path)], Len(Path) \in 1 .. Len(Path) DEF Find, Last
<1>4. CASE having # {}
    <2>1. having \subseteq Nat OBVIOUS
    <2>2. \E k \in having : \A j \in having : k <= j BY <1>4, <2>1, LeastElement
    <2>3. (CHOOSE k \in having : \A j \in having : k <= j) \in having BY <2>2
    <2> DEFINE first == CHOOSE k \in having : \A j \in having : k <= j
    <2>4. Find(n) = <<Path[first], n>> BY <1>4 DEF Find
    <2>5. first \in 1 .. Len(Path) BY <2>3
    <2> HIDE DEF first
    <2> QED BY <1>1, <1>2, <2>4, <2>5
<1> QED BY <1>3, <1>4

-----------------------------------------------------------------------------
\* What is true of a state with the invariant.
LEMMA AliveIs ==
    ASSUME Types, Entries, NEW i \in Ids PROVE Alive(i) <=> refs[i] > 0
<1> DEFINE c == modules[i].sha1
<1>0. /\ modules \in Seq([sha1 : Sha1s, over : BOOLEAN])
      /\ refs \in Seq(Nat) /\ Len(refs) = Len(modules)
    BY DEF Types, TypesOfModules
<1>1. modules[i] \in [sha1 : Sha1s, over : BOOLEAN] /\ refs[i] \in Nat
    BY <1>0, ElementIs DEF Ids
<1>4. c \in Sha1s BY <1>1
<1>2. CASE table[c] = i
    <2>1. refs[i] > 0 BY <1>1, <1>4, <1>2 DEF Entries, Ids
    <2> QED BY <1>1, <1>2, <2>1 DEF Alive, Count
<1>3. CASE table[c] # i BY <1>1, <1>3 DEF Alive, Count
<1> QED BY <1>2, <1>3

LEMMA InnermostIs ==
    ASSUME Types, loading # << >>
    PROVE  /\ Len(loading) \in Nat \ {0} /\ Len(loading) \in DOMAIN loading
           /\ Innermost = loading[Len(loading)] /\ Innermost \in LoadTypes
    BY FrontIs DEF Types, TypesOfModules, Innermost

\* A load goes on with the innermost load over, or all of several.
LEMMA FewerLoads ==
    ASSUME Types, Loads, NEW n \in 0 .. Len(loading),
           DOMAIN loading' = 1 .. n, Len(loading') = n,
           \A k \in 1 .. n : loading'[k] = loading[k],
           Ids \subseteq Ids',
           \A i \in Ids : modules'[i].sha1 = modules[i].sha1,
           \A k \in 1 .. n : loading[k].module # 0 =>
               /\ refs'[loading[k].module] > 0
               /\ modules'[loading[k].module].over = modules[loading[k].module].over,
           n < Len(loading) \/ loading = << >>
    PROVE  Loads'
<1>1. DOMAIN loading = 1 .. Len(loading) /\ Len(loading) \in Nat BY DEF Types, TypesOfModules
<1> SUFFICES ASSUME NEW k \in 1 .. n
             PROVE  HasModule(k, loading[k].module)'
    BY DEF Loads, HasModule
<1> DEFINE m == loading[k].module
<1>6. n # 0 /\ n < Len(loading)
    <2>1. n \in Nat /\ n # 0 BY <1>1, SMT
    <2>2. loading # << >> BY <1>1, <2>1
    <2> QED BY <2>1, <2>2
<1>2. k \in DOMAIN loading /\ k # Len(loading) /\ loading'[k] = loading[k]
    <2>1. k \in Nat /\ 1 <= k /\ k <= n BY <1>6
    <2>2. n \in Nat BY <1>1
    <2> DEFINE l == Len(loading)
    <2>4. l \in Nat /\ n < l BY <1>1, <1>6
    <2> HIDE DEF l
    <2>5. k \in 1 .. l /\ k # l BY <2>1, <2>2, <2>4
    <2>3. k \in 1 .. Len(loading) /\ k # Len(loading) BY <2>5 DEF l
    <2> QED BY <1>1, <2>3
<1>3. m # 0 /\ HasModule(k, m) BY <1>2 DEF Loads, HasModule, Ids
<1>4. \A j \in 1 .. n : loading'[j].module = m => j = k
    BY <1>1, <1>3 DEF HasModule
<1>5. m' = m BY <1>2
<1> QED BY <1>2, <1>3, <1>4 DEF HasModule

\* A new module.
LEMMA NewGives ==
    ASSUME Types, Entries, loading # << >>, NEW over \in BOOLEAN, New(over)
    PROVE  /\ Len(modules') = Len(modules) + 1 /\ Len(modules) \in Nat
           /\ modules' \in Seq([sha1 : Sha1s, over : BOOLEAN])
           /\ refs' \in Seq(Nat) /\ Len(refs') = Len(modules')
           /\ Ids' = Ids \cup {Len(modules')} /\ Len(modules') \notin Ids
           /\ \A i \in Ids : modules'[i] = modules[i] /\ refs'[i] = refs[i]
           /\ modules'[Len(modules')].sha1 = Innermost.sha1
           /\ modules'[Len(modules')].over = over
           /\ refs'[Len(modules')] = 1
           /\ again \subseteq again' /\ again' \subseteq Sha1s
           /\ \A i \in Ids : InUse(i, FALSE) /\ modules[i].sha1 = Innermost.sha1
                               => modules[i].sha1 \in again'
<1> DEFINE e == [sha1 |-> Innermost.sha1, over |-> over]
<1>1. Innermost.sha1 \in Sha1s BY InnermostIs DEF LoadTypes
<1>2. e \in [sha1 : Sha1s, over : BOOLEAN] BY <1>1
<1>3. modules' = Append(modules, e) /\ refs' = Append(refs, 1) BY DEF New
<1>4. e.sha1 = Innermost.sha1 /\ e.over = over OBVIOUS
<1> HIDE DEF e
<1>5. /\ modules' \in Seq([sha1 : Sha1s, over : BOOLEAN])
      /\ Len(modules') = Len(modules) + 1 /\ Len(modules) \in Nat
      /\ \A i \in 1 .. Len(modules) : modules'[i] = modules[i]
      /\ modules'[Len(modules')] = e
    BY <1>2, <1>3, AppendIs DEF Types, TypesOfModules
<1>6. /\ refs' \in Seq(Nat) /\ Len(refs') = Len(modules) + 1
      /\ \A i \in 1 .. Len(modules) : refs'[i] = refs[i]
      /\ refs'[Len(modules) + 1] = 1
    BY <1>3, AppendIs DEF Types, TypesOfModules
<1>7. \A i \in Ids : Alive(i) <=> refs[i] > 0 BY AliveIs
<1>8. \A i \in Ids : InUse(i, FALSE) /\ modules[i].sha1 = Innermost.sha1
                      => modules[i].sha1 \in again'
    <2> SUFFICES ASSUME NEW i \in Ids, InUse(i, FALSE), modules[i].sha1 = Innermost.sha1
                 PROVE  modules[i].sha1 \in again'
        OBVIOUS
    <2>1. Alive(i) /\ ~modules[i].over BY <1>7 DEF InUse
    <2>2. i \in {j \in Ids : Alive(j) /\ ~modules[j].over} BY <2>1
    <2>3. Innermost.sha1 \in {modules[j].sha1 : j \in {j \in Ids : Alive(j) /\ ~modules[j].over}}
        BY <2>2
    <2>4. Innermost.sha1 \in again' BY <2>3 DEF New
    <2> QED BY <2>4
<1>9. again \subseteq again' /\ again' \subseteq Sha1s BY <1>1 DEF New, Types, TypesOfModules
<1>10. Len(modules') \in Nat /\ Ids = 1 .. Len(modules) /\ Ids' = 1 .. Len(modules')
    BY <1>5 DEF Ids
<1>11. Ids' = Ids \cup {Len(modules')} /\ Len(modules') \notin Ids
    BY <1>5, <1>10
<1>12. \A i \in Ids : modules'[i] = modules[i] /\ refs'[i] = refs[i]
    BY <1>5, <1>6, <1>10
<1>13. modules'[Len(modules')].sha1 = Innermost.sha1 /\ modules'[Len(modules')].over = over
    BY <1>4, <1>5
<1>14. refs'[Len(modules')] = 1 /\ refs' \in Seq(Nat) /\ Len(refs') = Len(modules')
    BY <1>5, <1>6
<1> QED BY <1>5, <1>8, <1>9, <1>11, <1>12, <1>13, <1>14

-----------------------------------------------------------------------------
\* What becomes of the modules: the parts of the invariant that are about them.
Held == Entries /\ Unfinished /\ Finished

LEMMA ModulesTyped ==
    ASSUME Types
    PROVE  /\ Len(modules) \in Nat /\ Ids = 1 .. Len(modules) /\ DOMAIN refs = Ids
           /\ \A i \in Ids : /\ modules[i] \in [sha1 : Sha1s, over : BOOLEAN]
                              /\ modules[i].sha1 \in Sha1s /\ modules[i].over \in BOOLEAN
                              /\ refs[i] \in Nat /\ i \in Nat /\ i > 0
           /\ \A c \in Sha1s : table[c] \in {0, Nil} \cup Ids
<1>1. Len(modules) \in Nat /\ Ids = 1 .. Len(modules) /\ DOMAIN refs = Ids BY DEF Types, TypesOfModules, Ids
<1>2. \A i \in Ids : modules[i] \in [sha1 : Sha1s, over : BOOLEAN] /\ refs[i] \in Nat
    BY <1>1, ElementIs DEF Types, TypesOfModules
<1>3. \A i \in Ids : i \in Nat /\ i > 0 BY <1>1
<1>4. \A c \in Sha1s : table[c] \in {0, Nil} \cup Ids BY DEF Types, TypesOfModules
<1> QED BY <1>1, <1>2, <1>3, <1>4

\* References come to modules that are in use.
LEMMA MoreReferences ==
    ASSUME Held, UNCHANGED <<modules, table, again>>,
           \A i \in Ids : refs[i] > 0 <=> refs'[i] > 0,
           \A c \in Sha1s : table[c] > 0 => table[c] \in Ids
    PROVE  Held'
<1>1. Ids' = Ids BY DEF Ids
<1>2. Entries' BY <1>1 DEF Held, Entries
<1>3. Unfinished' BY <1>1 DEF Held, Unfinished, InUse
<1>4. Finished' BY <1>1 DEF Held, Finished, InUse
<1> QED BY <1>2, <1>3, <1>4 DEF Held

LEMMA ReleaseKeeps ==
    ASSUME Types, Held, NEW ids, \A i \in Ids : i \in ids => refs[i] > 0,
           Release(ids), UNCHANGED <<modules, again>>
    PROVE  /\ Held' /\ TypesOfModules'
           /\ \A i \in Ids : refs'[i] = IF i \in ids THEN refs[i] - 1 ELSE refs[i]
<1> DEFINE less == [i \in Ids |-> IF i \in ids THEN refs[i] - 1 ELSE refs[i]]
           freed == {i \in Ids : i \in ids /\ Count(table, less, i) = 1}
<1>1. /\ refs' = less
      /\ table' = [c \in Sha1s |-> IF \E i \in freed : modules[i].sha1 = c THEN 0 ELSE table[c]]
    BY DEF Release
<1>2. Ids' = Ids BY DEF Ids
<1>3. \A i \in Ids : less[i] = IF i \in ids THEN refs[i] - 1 ELSE refs[i] OBVIOUS
<1>4. less \in [Ids -> Nat]
    <2>1. \A i \in Ids : (IF i \in ids THEN refs[i] - 1 ELSE refs[i]) \in Nat BY ModulesTyped
    <2> QED BY <2>1
<1>5. \A i \in Ids : less[i] > 0 => refs[i] > 0 BY <1>3, <1>4, ModulesTyped
<1>6. \A i \in freed : /\ i \in Ids /\ i \in ids /\ refs[i] > 0
                        /\ IF table[modules[i].sha1] = i THEN less[i] = 0 ELSE less[i] = 1
    BY <1>4, ModulesTyped DEF Count
<1>7. \A i \in Ids : i \in ids /\ table[modules[i].sha1] = i /\ less[i] = 0 => i \in freed
    BY <1>4, ModulesTyped DEF Count
<1>8. \A c \in Sha1s : table'[c] = table[c] \/ table'[c] = 0 BY <1>1
<1>9. \A c \in Sha1s : (\E i \in freed : modules[i].sha1 = c) => table'[c] = 0 BY <1>1
<1>10. \A c \in Sha1s : table'[c] # table[c] => \E i \in freed : modules[i].sha1 = c BY <1>1
<1>11. /\ refs' \in Seq(Nat) /\ Len(refs') = Len(modules')
    BY <1>1, <1>4, ModulesTyped
<1>12. table' \in [Sha1s -> {0, Nil} \cup Ids'] BY <1>1, <1>2, ModulesTyped
<1> HIDE DEF less, freed
<1>13. TypesOfModules' BY <1>11, <1>12 DEF Types, TypesOfModules
<1>14. Entries'
    <2> SUFFICES ASSUME NEW c \in Sha1s, table'[c] > 0
                 PROVE  /\ refs'[table[c]] > 0 /\ modules[table[c]].over
                        /\ modules[table[c]].sha1 = c /\ table'[c] = table[c]
        BY DEF Entries
    <2>1. table'[c] = table[c] BY <1>8
    <2>2. table[c] \in Ids BY <2>1, ModulesTyped DEF Nil
    <2>3. /\ refs[table[c]] > 0 /\ modules[table[c]].over /\ modules[table[c]].sha1 = c
        BY <2>1 DEF Held, Entries
    <2>4. less[table[c]] # 0
        <3> SUFFICES ASSUME less[table[c]] = 0 PROVE FALSE OBVIOUS
        <3>1. table[c] \in ids BY <1>3, <2>2, <2>3
        <3>2. table[c] \in freed BY <1>7, <2>2, <2>3, <3>1
        <3> QED BY <1>9, <2>3, <3>2
    <2>5. less[table[c]] > 0 BY <1>4, <2>2, <2>4
    <2> QED BY <1>1, <2>1, <2>3, <2>5
<1>15. Unfinished'
    <2> SUFFICES ASSUME NEW i \in Ids, refs'[i] > 0, modules[i].over = FALSE, modules[i].sha1 \notin again
                 PROVE  /\ table'[modules[i].sha1] \in {0, Nil}
                        /\ \A j \in Ids : refs'[j] > 0 /\ modules[j].over = FALSE
                                /\ modules[j].sha1 = modules[i].sha1 => j = i
        BY <1>2 DEF Unfinished, InUse
    <2>1. InUse(i, FALSE) BY <1>1, <1>5 DEF InUse
    <2>2. table[modules[i].sha1] \in {0, Nil} BY <2>1 DEF Held, Unfinished
    <2>3. table'[modules[i].sha1] \in {0, Nil} BY <1>8, <2>2, ModulesTyped
    <2>4. ASSUME NEW j \in Ids, refs'[j] > 0, modules[j].over = FALSE, modules[j].sha1 = modules[i].sha1
          PROVE  j = i
        <3>1. InUse(j, FALSE) BY <1>1, <1>5, <2>4 DEF InUse
        <3> QED BY <2>1, <2>4, <3>1 DEF Held, Unfinished
    <2> QED BY <2>3, <2>4
<1>16. Finished'
    <2> SUFFICES ASSUME NEW i \in Ids, refs'[i] > 0, modules[i].over = TRUE, modules[i].sha1 \notin again
                 PROVE  table'[modules[i].sha1] = i
        BY <1>2 DEF Finished, InUse
    <2> DEFINE c == modules[i].sha1
    <2>1. c \in Sha1s BY ModulesTyped
    <2>2. InUse(i, TRUE) BY <1>1, <1>5 DEF InUse
    <2>3. table[c] = i BY <2>2 DEF Held, Finished
    <2>4. ASSUME table'[c] # table[c] PROVE FALSE
        <3>1. PICK j \in freed : modules[j].sha1 = c BY <1>10, <2>1, <2>4
        <3>2. j \in Ids /\ refs[j] > 0 BY <1>6
        <3>3. CASE j = i
            <4>1. less[i] = 0 BY <1>6, <2>3, <3>3
            <4> QED BY <1>1, <4>1
        <3>4. CASE j # i /\ modules[j].over = TRUE
            BY <2>3, <3>1, <3>2, <3>4 DEF Held, Finished, InUse
        <3>5. CASE j # i /\ modules[j].over = FALSE
            <4>1. table[c] \in {0, Nil} BY <3>1, <3>2, <3>5 DEF Held, Unfinished, InUse
            <4> QED BY <2>3, <4>1, ModulesTyped DEF Nil
        <3> QED BY <3>2, <3>3, <3>4, <3>5, ModulesTyped
    <2> QED BY <2>3, <2>4
<1> QED BY <1>1, <1>3, <1>13, <1>14, <1>15, <1>16 DEF Held

-----------------------------------------------------------------------------
\* The steps.
LEMMA InitHolds == LoaderInit => IInv
<1> SUFFICES ASSUME LoaderInit PROVE IInv OBVIOUS
<1>1. Len(modules) = 0 /\ Ids = {} /\ Len(loading) = 0 /\ DOMAIN loading = {} BY DEF LoaderInit, Ids
<1>2. Types BY <1>1 DEF LoaderInit, Types, TypesOfModules
<1>3. Loads BY <1>1 DEF Loads
<1>4. Entries BY DEF LoaderInit, Entries
<1>5. Unfinished /\ Finished BY <1>1 DEF Unfinished, Finished
<1> QED BY <1>2, <1>3, <1>4, <1>5 DEF IInv

LEMMA StutterKeeps == IInv /\ UNCHANGED mvars => IInv'
    BY DEF IInv, mvars, Types, TypesOfModules, Loads, HasModule, Entries, Unfinished, Finished,
           InUse, Ids

\* A load goes on, and the modules are not touched.
LEMMA ModulesKept ==
    ASSUME IInv, UNCHANGED <<modules, refs, table, again>>
    PROVE  Held' /\ TypesOfModules'
<1>1. Ids' = Ids BY DEF Ids
<1> QED BY <1>1 DEF IInv, Held, Types, TypesOfModules, Entries, Unfinished, Finished, InUse

\* The innermost load is at its next load.
LEMMA TailKeeps ==
    ASSUME IInv, loading # << >>, Innermost.left # << >>,
           UNCHANGED <<modules, refs, table, again>>,
           NEW after, after = [loading EXCEPT ![Len(loading)].left = Tail(@)]
    PROVE  /\ after \in Seq(LoadTypes) /\ Len(after) = Len(loading)
           /\ \A k \in DOMAIN loading : /\ after[k].module = loading[k].module
                                        /\ after[k].sha1 = loading[k].sha1
<1> DEFINE n == Len(loading)
<1>1. /\ n \in Nat \ {0} /\ n \in DOMAIN loading /\ DOMAIN loading = 1 .. n
      /\ Innermost = loading[n] /\ Innermost \in LoadTypes
    BY InnermostIs DEF IInv, Types, TypesOfModules
<1>2. Innermost.left \in Seq(Names) BY <1>1 DEF LoadTypes
<1>3. Tail(Innermost.left) \in Seq(Names) BY <1>2
<1> DEFINE e == [Innermost EXCEPT !.left = Tail(@)]
<1>4. e \in LoadTypes /\ e.module = Innermost.module /\ e.sha1 = Innermost.sha1
    BY <1>1, <1>3 DEF LoadTypes
<1>5. after = [loading EXCEPT ![n] = e] BY <1>1
<1> HIDE DEF e
<1>6. loading \in Seq(LoadTypes) BY DEF IInv, Types
<1>7. after \in Seq(LoadTypes) /\ Len(after) = Len(loading) BY <1>1, <1>4, <1>5, <1>6
<1>8. \A k \in DOMAIN loading : after[k] = IF k = n THEN e ELSE loading[k] BY <1>1, <1>5
<1> QED BY <1>1, <1>4, <1>7, <1>8

LEMMA LeaveOutKeeps == IInv /\ LeaveOut => IInv'
<1> SUFFICES ASSUME IInv, LeaveOut PROVE IInv' OBVIOUS
<1>1. /\ loading # << >> /\ Innermost.left # << >>
      /\ UNCHANGED <<modules, refs, table, again>> /\ disk' = disk
      /\ loading' = [loading EXCEPT ![Len(loading)].left = Tail(@)]
    BY DEF LeaveOut
<1>2. Held' /\ TypesOfModules' BY <1>1, ModulesKept
<1>3. /\ loading' \in Seq(LoadTypes) /\ Len(loading') = Len(loading)
      /\ \A k \in DOMAIN loading : /\ loading'[k].module = loading[k].module
                                   /\ loading'[k].sha1 = loading[k].sha1
    BY <1>1, TailKeeps
<1>4. DOMAIN loading' = DOMAIN loading BY <1>3 DEF IInv, Types
<1>5. Loads' BY <1>1, <1>3, <1>4 DEF IInv, Loads, HasModule, Ids
<1>6. Types' BY <1>1, <1>2, <1>3 DEF IInv, Types
<1> QED BY <1>2, <1>5, <1>6 DEF IInv, Held

LEMMA LoadKeeps == ASSUME IInv, NEW n \in Names, Load(n) PROVE IInv'
<1> DEFINE e == [name |-> n, file |-> Find(n), sha1 |-> disk[Find(n)], module |-> 0, left |-> << >>]
           before == IF loading = << >> THEN << >>
                     ELSE [loading EXCEPT ![Len(loading)].left = Tail(@)]
<1>1. /\ CanLoad /\ disk[Find(n)] # NoFile /\ loading' = before \o <<e>>
      /\ UNCHANGED <<modules, refs, table, again>> /\ disk' = disk
    BY DEF Load
<1>2. Find(n) \in Files BY FindIsFile DEF IInv
<1>3. disk[Find(n)] \in Sha1s BY <1>1, <1>2 DEF IInv, Types
<1>4. e \in LoadTypes /\ e.module = 0 BY <1>2, <1>3 DEF LoadTypes
<1>5. loading # << >> => Innermost.left # << >> /\ Innermost.module # 0 BY <1>1 DEF CanLoad
<1>6. /\ before \in Seq(LoadTypes) /\ Len(before) = Len(loading)
      /\ \A k \in DOMAIN loading : /\ before[k].module = loading[k].module
                                   /\ before[k].sha1 = loading[k].sha1
    <2>1. CASE loading = << >> BY <2>1
    <2>2. CASE loading # << >>
        <3>1. before = [loading EXCEPT ![Len(loading)].left = Tail(@)] BY <2>2
        <3> HIDE DEF before
        <3> QED BY <1>1, <1>5, <2>2, <3>1, TailKeeps
    <2> QED BY <2>1, <2>2
<1> HIDE DEF before, e
<1>7. /\ loading' \in Seq(LoadTypes) /\ Len(loading') = Len(loading) + 1
      /\ DOMAIN loading' = 1 .. Len(loading) + 1
      /\ \A k \in 1 .. Len(loading) : loading'[k] = before[k]
      /\ loading'[Len(loading) + 1] = e
    BY <1>1, <1>4, <1>6, ConcatOneIs
<1>8. DOMAIN loading = 1 .. Len(loading) /\ Len(loading) \in Nat BY DEF IInv, Types
<1>9. \A k \in DOMAIN loading : HasModule(k, loading[k].module)
    <2> SUFFICES ASSUME NEW k \in DOMAIN loading, ~HasModule(k, loading[k].module) PROVE FALSE
        OBVIOUS
    <2>1. loading[k].module = 0 /\ k = Len(loading) BY DEF IInv, Loads
    <2>2. loading # << >> BY <1>8
    <2> QED BY <1>5, <2>1, <2>2, InnermostIs DEF IInv
<1>10. \A k \in DOMAIN loading : loading[k].module # 0 BY <1>9 DEF HasModule, Ids
<1>11. Loads'
    <2> SUFFICES ASSUME NEW k \in DOMAIN loading'
                 PROVE  \/ loading'[k].module = 0 /\ k = Len(loading')
                        \/ HasModule(k, loading[k].module)' /\ loading'[k].module = loading[k].module
        BY DEF Loads, HasModule
    <2>1. CASE k = Len(loading) + 1 BY <1>4, <1>7, <2>1
    <2>2. CASE k # Len(loading) + 1
        <3>1. k \in DOMAIN loading BY <1>7, <1>8, <2>2
        <3>2. \A j \in DOMAIN loading' : loading'[j].module = loading[k].module => j = k
            BY <1>4, <1>6, <1>7, <1>8, <1>9, <1>10, <3>1 DEF HasModule
        <3> QED BY <1>1, <1>6, <1>7, <1>8, <1>9, <3>1, <3>2 DEF HasModule, Ids
    <2> QED BY <2>1, <2>2
<1>12. Held' /\ TypesOfModules' BY <1>1, ModulesKept
<1>13. Types' BY <1>1, <1>7, <1>12 DEF IInv, Types
<1> QED BY <1>11, <1>12, <1>13 DEF IInv, Held

LEMMA WriteKeeps == ASSUME IInv, NEW f \in Files, Write(f) PROVE IInv'
<1>1. disk' \in [Files -> Sha1s \cup {NoFile}]
    <2>1. PICK c \in OnDisk[f] : disk' = [disk EXCEPT ![f] = c] BY DEF Write
    <2>2. c \in Sha1s \cup {NoFile} BY LoaderAssumption
    <2> QED BY <2>1, <2>2 DEF IInv, Types
<1>2. UNCHANGED <<modules, refs, table, again>> /\ loading' = loading BY DEF Write
<1>3. Held' /\ TypesOfModules' BY <1>2, ModulesKept
<1>4. Types' BY <1>1, <1>2, <1>3 DEF IInv, Types
<1>5. Loads' BY <1>2 DEF IInv, Loads, HasModule, Ids
<1> QED BY <1>3, <1>4, <1>5 DEF IInv, Held

\* References to modules that are in use.
LEMMA KnownKeeps == IInv /\ Known => IInv'
<1> SUFFICES ASSUME IInv, Known PROVE IInv' OBVIOUS
<1> DEFINE t == table[Innermost.sha1]
<1>1. /\ loading # << >> /\ Innermost.module = 0 /\ loading' = Front(loading)
      /\ UNCHANGED <<modules, table, again>> /\ disk' = disk
      /\ t # 0 /\ refs' = IF t = Nil THEN refs ELSE [refs EXCEPT ![t] = @ + 1]
    BY DEF Known, Opening
<1>2. /\ loading' \in Seq(LoadTypes) /\ Len(loading') = Len(loading) - 1
      /\ DOMAIN loading' = 1 .. Len(loading) - 1 /\ Len(loading) \in Nat \ {0}
      /\ \A k \in 1 .. Len(loading) - 1 : loading'[k] = loading[k]
    BY <1>1, FrontIs DEF IInv, Types
<1>3. Innermost.sha1 \in Sha1s BY <1>1, InnermostIs DEF IInv, LoadTypes
<1>4. t = Nil \/ t \in Ids BY <1>1, <1>3, ModulesTyped DEF IInv
<1>5. t # Nil => refs[t] > 0 /\ refs[t] \in Nat
    BY <1>3, <1>4, ModulesTyped DEF IInv, Entries
<1>6. /\ refs' \in Seq(Nat) /\ Len(refs') = Len(refs)
      /\ \A i \in Ids : refs'[i] = IF i = t THEN refs[i] + 1 ELSE refs[i]
    <2>1. CASE t = Nil
        BY <1>1, <2>1, ModulesTyped DEF IInv, Types, TypesOfModules, Nil
    <2>2. CASE t # Nil
        <3>1. refs' = [refs EXCEPT ![t] = @ + 1] /\ t \in DOMAIN refs /\ refs[t] + 1 \in Nat
            BY <1>1, <1>4, <1>5, <2>2, ModulesTyped DEF IInv
        <3> HIDE DEF t
        <3> QED BY <3>1, ModulesTyped DEF IInv, Types, TypesOfModules
    <2> QED BY <2>1, <2>2
<1> HIDE DEF t
<1>7. \A i \in Ids : refs[i] > 0 <=> refs'[i] > 0
    <2> SUFFICES ASSUME NEW i \in Ids PROVE refs[i] > 0 <=> refs'[i] > 0 OBVIOUS
    <2>1. i > 0 /\ i \in Nat /\ refs[i] \in Nat BY ModulesTyped DEF IInv
    <2>2. CASE i = t
        <3>1. refs[i] > 0 BY <1>5, <2>1, <2>2 DEF Nil
        <3> QED BY <1>6, <2>1, <2>2, <3>1
    <2>3. CASE i # t BY <1>6, <2>3
    <2> QED BY <2>2, <2>3
<1>8. Held' BY <1>1, <1>7, MoreReferences, ModulesTyped DEF IInv, Held, Nil
<1>9. Ids' = Ids BY <1>1 DEF Ids
<1>10. Types' BY <1>1, <1>2, <1>6, <1>9 DEF IInv, Types, TypesOfModules
<1>11. Loads'
    <2> DEFINE n == Len(loading) - 1
    <2>1. n \in 0 .. Len(loading) /\ n < Len(loading) BY <1>2
    <2>2. \A k \in 1 .. n : loading[k].module # 0 => loading[k].module \in Ids /\ refs[loading[k].module] > 0
        BY <1>2 DEF IInv, Loads, HasModule, Types
    <2>3. \A k \in 1 .. n : loading[k].module # 0 => refs'[loading[k].module] > 0
        BY <1>7, <2>2
    <2>4. DOMAIN loading' = 1 .. n /\ Len(loading') = n /\ \A k \in 1 .. n : loading'[k] = loading[k]
        BY <1>2
    <2> HIDE DEF n
    <2> QED BY <1>1, <1>9, <2>1, <2>3, <2>4, FewerLoads DEF IInv
<1> QED BY <1>8, <1>10, <1>11 DEF IInv, Held

LEMMA KeepKeeps == ASSUME IInv, NEW i \in Ids, Keep(i) PROVE IInv'
<1>1. /\ refs[i] > 0 /\ refs' = [refs EXCEPT ![i] = @ + 1] /\ i \in DOMAIN refs
      /\ UNCHANGED <<modules, table, again>> /\ disk' = disk /\ loading' = loading
    BY LoaderAssumption, ModulesTyped DEF Keep, IInv
<1>2. refs[i] \in Nat /\ Ids' = Ids BY <1>1, ModulesTyped DEF IInv, Ids
<1>3. /\ refs' \in Seq(Nat) /\ Len(refs') = Len(refs)
      /\ \A j \in Ids : refs'[j] = IF j = i THEN refs[j] + 1 ELSE refs[j]
    BY <1>1, <1>2, ModulesTyped DEF IInv, Types, TypesOfModules
<1>4. \A j \in Ids : refs[j] > 0 <=> refs'[j] > 0 BY <1>1, <1>2, <1>3
<1>5. Held' BY <1>1, <1>4, MoreReferences, ModulesTyped DEF IInv, Held, Nil
<1>6. Types' BY <1>1, <1>2, <1>3 DEF IInv, Types, TypesOfModules
<1>7. Loads' BY <1>1, <1>2, <1>4 DEF IInv, Loads, HasModule
<1> QED BY <1>5, <1>6, <1>7 DEF IInv, Held

LEMMA DropKeeps == ASSUME IInv, NEW i \in Ids, Drop(i) PROVE IInv'
<1>1. /\ Release({i}) /\ UNCHANGED <<modules, again>> /\ disk' = disk /\ loading' = loading
      /\ refs[i] > (IF InLoad(i) THEN 1 ELSE 0)
    BY DEF Drop
<1>2. refs[i] > 0 /\ refs[i] \in Nat /\ Ids' = Ids BY <1>1, ModulesTyped DEF IInv, Ids
<1>3. /\ Held' /\ TypesOfModules'
      /\ \A j \in Ids : refs'[j] = IF j \in {i} THEN refs[j] - 1 ELSE refs[j]
    <2>1. \A j \in Ids : j \in {i} => refs[j] > 0 BY <1>2
    <2> QED BY <1>1, <2>1, ReleaseKeeps DEF IInv, Held
<1>4. Types' BY <1>1, <1>3 DEF IInv, Types
<1>5. \A k \in DOMAIN loading : loading[k].module \in Ids /\ refs[loading[k].module] > 0
                                 => refs'[loading[k].module] > 0
    <2> SUFFICES ASSUME NEW k \in DOMAIN loading, loading[k].module \in Ids,
                        refs[loading[k].module] > 0
                 PROVE  refs'[loading[k].module] > 0
        OBVIOUS
    <2>1. CASE loading[k].module = i
        <3>1. InLoad(i) BY <2>1 DEF InLoad, IInv, Types
        <3> QED BY <1>1, <1>2, <1>3, <2>1, <3>1
    <2>2. CASE loading[k].module # i BY <1>3, <2>2
    <2> QED BY <2>1, <2>2
<1>6. Loads' BY <1>1, <1>2, <1>5 DEF IInv, Loads, HasModule
<1> QED BY <1>3, <1>4, <1>6 DEF IInv, Held

LEMMA LoadFailsKeeps == IInv /\ LoadFails => IInv'
<1> SUFFICES ASSUME IInv, LoadFails PROVE IInv' OBVIOUS
<1>1. PICK k \in 1 .. Len(loading) :
          /\ loading' = SubSeq(loading, 1, k - 1)
          /\ Release({loading[j].module : j \in k .. Len(loading)})
          /\ UNCHANGED <<disk, modules, again>>
    BY DEF LoadFails
<1> DEFINE n == k - 1
           ids == {loading[j].module : j \in k .. Len(loading)}
<1>2. /\ Len(loading) \in Nat /\ DOMAIN loading = 1 .. Len(loading)
      /\ n \in 0 .. Len(loading) /\ n < Len(loading) /\ k \in Nat /\ k = n + 1
    BY DEF IInv, Types
<1>3. loading' = SubSeq(loading, 1, n) /\ Release(ids) BY <1>1
<1> HIDE DEF n
<1>4. /\ loading' \in Seq(LoadTypes) /\ Len(loading') = n /\ DOMAIN loading' = 1 .. n
      /\ \A j \in 1 .. n : loading'[j] = loading[j]
    BY <1>2, <1>3, InitialIs DEF IInv, Types
<1>5. \A i \in Ids : i \in ids => refs[i] > 0
    <2> SUFFICES ASSUME NEW j \in k .. Len(loading), loading[j].module \in Ids
                 PROVE  refs[loading[j].module] > 0
        OBVIOUS
    <2>1. j \in DOMAIN loading BY <1>2
    <2>2. loading[j].module # 0 BY ModulesTyped DEF IInv
    <2> QED BY <2>1, <2>2 DEF IInv, Loads, HasModule
<1>6. \A j \in 1 .. n : loading[j].module # 0 =>
            loading[j].module \in Ids /\ refs[loading[j].module] > 0 /\ loading[j].module \notin ids
    <2> SUFFICES ASSUME NEW j \in 1 .. n, loading[j].module # 0
                 PROVE  /\ loading[j].module \in Ids /\ refs[loading[j].module] > 0
                        /\ \A h \in k .. Len(loading) : loading[h].module # loading[j].module
        OBVIOUS
    <2>1. j \in DOMAIN loading /\ \A h \in k .. Len(loading) : h \in DOMAIN loading /\ h # j
        BY <1>2
    <2>2. HasModule(j, loading[j].module) BY <2>1 DEF IInv, Loads
    <2> QED BY <2>1, <2>2 DEF HasModule
<1> HIDE DEF ids
<1>7. /\ Held' /\ TypesOfModules'
      /\ \A i \in Ids : refs'[i] = IF i \in ids THEN refs[i] - 1 ELSE refs[i]
    BY <1>1, <1>3, <1>5, ReleaseKeeps DEF IInv, Held
<1>8. \A j \in 1 .. n : loading[j].module # 0 => refs'[loading[j].module] > 0 BY <1>6, <1>7
<1>9. Ids' = Ids BY <1>1 DEF Ids
<1>10. Loads' BY <1>1, <1>2, <1>4, <1>8, <1>9, FewerLoads DEF IInv
<1>11. Types' BY <1>1, <1>4, <1>7 DEF IInv, Types
<1> QED BY <1>7, <1>10, <1>11 DEF IInv, Held

\* A module more, and the end of a load.
LEMMA OpenFileKeeps == IInv /\ OpenFile => IInv'
<1> SUFFICES ASSUME IInv, OpenFile PROVE IInv' OBVIOUS
<1> DEFINE n == Len(loading)
           m == Len(modules')
           left == LoadsOf[disk[Innermost.file]]
<1>1. /\ loading # << >> /\ Innermost.module = 0 /\ table[Innermost.sha1] = 0
      /\ disk[Innermost.file] # NoFile /\ New(FALSE) /\ table' = table /\ disk' = disk
      /\ loading' = [loading EXCEPT ![n].module = m, ![n].left = left]
    BY DEF OpenFile, Opening, Entered
<1>2. /\ n \in Nat \ {0} /\ n \in DOMAIN loading /\ DOMAIN loading = 1 .. n
      /\ Innermost = loading[n] /\ Innermost \in LoadTypes
    BY <1>1, InnermostIs DEF IInv, Types
<1>3. left \in Seq(Names)
    <2>1. disk[Innermost.file] \in Sha1s BY <1>1, <1>2 DEF IInv, Types, LoadTypes
    <2> QED BY <2>1, LoaderAssumption
<1>4. /\ m = Len(modules) + 1 /\ Len(modules) \in Nat
      /\ modules' \in Seq([sha1 : Sha1s, over : BOOLEAN])
      /\ refs' \in Seq(Nat) /\ Len(refs') = m
      /\ Ids' = Ids \cup {m} /\ m \notin Ids
      /\ \A i \in Ids : modules'[i] = modules[i] /\ refs'[i] = refs[i]
      /\ modules'[m].sha1 = Innermost.sha1
      /\ modules'[m].over = FALSE
      /\ refs'[m] = 1
      /\ again \subseteq again' /\ again' \subseteq Sha1s
      /\ \A i \in Ids : InUse(i, FALSE) /\ modules[i].sha1 = Innermost.sha1
                          => modules[i].sha1 \in again'
    <2>1. FALSE \in BOOLEAN OBVIOUS
    <2> QED BY <1>1, <2>1, NewGives DEF IInv
<1> DEFINE e == [Innermost EXCEPT !.module = m, !.left = left]
<1>5. e \in LoadTypes /\ e.module = m /\ e.sha1 = Innermost.sha1
    <2>1. m \in Nat BY <1>4
    <2> HIDE DEF m, left
    <2> QED BY <1>2, <1>3, <2>1 DEF LoadTypes
<1>6. loading' = [loading EXCEPT ![n] = e] BY <1>1, <1>2
<1> HIDE DEF e, m, left
<1>7. loading' \in Seq(LoadTypes) /\ Len(loading') = n /\ DOMAIN loading' = DOMAIN loading
    BY <1>2, <1>5, <1>6 DEF IInv, Types
<1>8. \A k \in DOMAIN loading : loading'[k] = IF k = n THEN e ELSE loading[k] BY <1>6
<1> HIDE DEF n
<1>9. Ids \subseteq Ids' /\ \A c \in Sha1s : table[c] > 0 => table[c] \in Ids
    BY <1>4, ModulesTyped DEF IInv, Nil
<1>10. Types'
    <2>1. table' \in [Sha1s -> {0, Nil} \cup Ids'] BY <1>1, <1>9 DEF IInv, Types, TypesOfModules
    <2> QED BY <1>1, <1>4, <1>7, <2>1 DEF IInv, Types, TypesOfModules, m
<1>11. Loads'
    <2> SUFFICES ASSUME NEW k \in DOMAIN loading PROVE HasModule(k, loading[k].module)'
        BY <1>7 DEF Loads, HasModule
    <2>1. m \in Ids' /\ \A j \in DOMAIN loading : j # n => HasModule(j, loading[j].module)
        BY <1>4 DEF IInv, Loads, n
    <2>2. \A j \in DOMAIN loading : j # n => loading[j].module # m
        BY <1>4, <2>1 DEF HasModule
    <2>3. CASE k = n
        BY <1>4, <1>5, <1>7, <1>8, <2>1, <2>2, <2>3 DEF HasModule
    <2>4. CASE k # n
        <3>1. loading'[k] = loading[k] /\ HasModule(k, loading[k].module) BY <1>8, <2>1, <2>4
        <3>2. \A j \in DOMAIN loading : loading'[j].module = loading[k].module => j = k
            BY <1>5, <1>8, <2>1, <2>2, <2>4, <3>1 DEF HasModule
        <3> QED BY <1>4, <1>7, <1>9, <3>1, <3>2 DEF HasModule
    <2> QED BY <2>3, <2>4
<1>12. Entries' BY <1>1, <1>4, <1>9 DEF IInv, Entries
<1>13. Unfinished'
    <2> SUFFICES ASSUME NEW i \in Ids', refs'[i] > 0, modules'[i].over = FALSE,
                        modules'[i].sha1 \notin again'
                 PROVE  /\ table[modules'[i].sha1] \in {0, Nil}
                        /\ \A j \in Ids' : refs'[j] > 0 /\ modules'[j].over = FALSE
                                /\ modules'[j].sha1 = modules'[i].sha1 => j = i
        BY <1>1 DEF Unfinished, InUse
    <2>1. CASE i = m BY <1>1, <1>4, <2>1 DEF InUse
    <2>2. CASE i # m
        <3>1. i \in Ids /\ InUse(i, FALSE) /\ modules[i].sha1 \notin again
            BY <1>4, <2>2 DEF InUse
        <3>2. modules[i].sha1 # Innermost.sha1 BY <1>4, <3>1
        <3> QED BY <1>4, <2>2, <3>1, <3>2 DEF IInv, Unfinished, InUse
    <2> QED BY <2>1, <2>2
<1>14. Finished' BY <1>1, <1>4 DEF IInv, Finished, InUse
<1> QED BY <1>10, <1>11, <1>12, <1>13, <1>14 DEF IInv

\* The innermost load is taken off.
LEMMA FrontKeeps ==
    ASSUME IInv, loading # << >>, loading' = Front(loading), Ids \subseteq Ids',
           \A i \in Ids : modules'[i].sha1 = modules[i].sha1 /\ refs'[i] = refs[i],
           \A i \in Ids : i # Innermost.module => modules'[i].over = modules[i].over
    PROVE  Loads' /\ loading' \in Seq(LoadTypes)
<1> DEFINE n == Len(loading) - 1
<1>1. /\ loading' \in Seq(LoadTypes) /\ Len(loading') = n
      /\ DOMAIN loading' = 1 .. n /\ Len(loading) \in Nat \ {0}
      /\ \A k \in 1 .. n : loading'[k] = loading[k]
    BY FrontIs DEF IInv, Types
<1>2. n \in 0 .. Len(loading) /\ n < Len(loading) BY <1>1
<1>3. \A k \in 1 .. n : k \in DOMAIN loading /\ k # Len(loading) BY <1>1 DEF IInv, Types
<1> HIDE DEF n
<1>4. /\ Innermost = loading[Len(loading)] /\ Len(loading) \in DOMAIN loading
    BY InnermostIs DEF IInv
<1>5. ASSUME NEW k \in 1 .. n
      PROVE  /\ loading[k].module \in Ids /\ refs[loading[k].module] > 0
             /\ loading[k].module # Innermost.module
    <2>1. HasModule(k, loading[k].module) BY <1>3 DEF IInv, Loads
    <2> QED BY <1>3, <1>4, <2>1 DEF HasModule
<1>6. \A k \in 1 .. n : loading[k].module # 0 =>
          /\ refs'[loading[k].module] > 0
          /\ modules'[loading[k].module].over = modules[loading[k].module].over
    BY <1>5
<1> QED BY <1>1, <1>2, <1>6, FewerLoads DEF IInv

LEMMA OpenLibKeeps == IInv /\ OpenLib => IInv'
<1> SUFFICES ASSUME IInv, OpenLib PROVE IInv' OBVIOUS
<1> DEFINE c == Innermost.sha1
           m == Len(modules')
<1>1. /\ loading # << >> /\ Innermost.module = 0 /\ table[c] = 0
      /\ disk' = disk /\ loading' = Front(loading)
    BY DEF OpenLib, Opening
<1>2. c \in Sha1s BY <1>1, InnermostIs DEF IInv, LoadTypes
<1>3. CASE disk[Innermost.file] = NoInit
    <2>1. table' = [table EXCEPT ![c] = Nil] /\ UNCHANGED <<modules, refs, again>>
        BY <1>3 DEF OpenLib
    <2>2. Ids' = Ids BY <2>1 DEF Ids
    <2>3. \A d \in Sha1s : table'[d] = IF d = c THEN Nil ELSE table[d]
        BY <2>1 DEF IInv, Types, TypesOfModules
    <2>4. table' \in [Sha1s -> {0, Nil} \cup Ids'] BY <2>1, <2>2 DEF IInv, Types, TypesOfModules
    <2>5. Loads' /\ loading' \in Seq(LoadTypes) BY <1>1, <2>1, <2>2, FrontKeeps
    <2>6. Types' BY <1>1, <2>1, <2>4, <2>5 DEF IInv, Types, TypesOfModules
    <2>7. Entries' BY <2>1, <2>3 DEF IInv, Entries, Nil
    <2>8. Unfinished' BY <2>1, <2>2, <2>3, ModulesTyped DEF IInv, Unfinished, InUse
    <2>9. Finished'
        <3> SUFFICES ASSUME NEW i \in Ids, InUse(i, TRUE), modules[i].sha1 \notin again
                     PROVE  table'[modules[i].sha1] = i
            BY <2>1, <2>2 DEF Finished, InUse
        <3>1. table[modules[i].sha1] = i /\ i > 0 /\ modules[i].sha1 \in Sha1s
            BY ModulesTyped DEF IInv, Finished
        <3> QED BY <1>1, <2>3, <3>1
    <2> QED BY <2>5, <2>6, <2>7, <2>8, <2>9 DEF IInv
<1>4. CASE disk[Innermost.file] # NoInit
    <2>1. New(TRUE) /\ table' = [table EXCEPT ![c] = m] BY <1>4 DEF OpenLib
    <2>2. /\ m = Len(modules) + 1 /\ Len(modules) \in Nat
          /\ modules' \in Seq([sha1 : Sha1s, over : BOOLEAN])
          /\ refs' \in Seq(Nat) /\ Len(refs') = m
          /\ Ids' = Ids \cup {m} /\ m \notin Ids
          /\ \A i \in Ids : modules'[i] = modules[i] /\ refs'[i] = refs[i]
          /\ modules'[m].sha1 = c
          /\ modules'[m].over = TRUE
          /\ refs'[m] = 1
          /\ again \subseteq again' /\ again' \subseteq Sha1s
          /\ \A i \in Ids : InUse(i, FALSE) /\ modules[i].sha1 = c
                              => modules[i].sha1 \in again'
        <3>1. TRUE \in BOOLEAN OBVIOUS
        <3> QED BY <1>1, <2>1, <3>1, NewGives DEF IInv
    <2> HIDE DEF m
    <2>3. \A d \in Sha1s : table'[d] = IF d = c THEN m ELSE table[d]
        BY <2>1 DEF IInv, Types, TypesOfModules
    <2>4. table' \in [Sha1s -> {0, Nil} \cup Ids']
        BY <2>1, <2>2 DEF IInv, Types, TypesOfModules
    <2>5. Loads' /\ loading' \in Seq(LoadTypes)
        <3>1. Ids \subseteq Ids' BY <2>2
        <3> QED BY <1>1, <2>2, <3>1, FrontKeeps
    <2>6. Types' BY <1>1, <2>2, <2>4, <2>5 DEF IInv, Types, TypesOfModules, m
    <2>7. Entries'
        <3> SUFFICES ASSUME NEW d \in Sha1s, table'[d] > 0
                     PROVE  /\ refs'[table'[d]] > 0 /\ modules'[table'[d]].over
                            /\ modules'[table'[d]].sha1 = d
            BY DEF Entries
        <3>1. CASE d = c BY <2>2, <2>3, <3>1
        <3>2. CASE d # c
            <4>1. table'[d] = table[d] /\ table[d] \in Ids BY <2>3, <3>2, ModulesTyped DEF IInv, Nil
            <4> QED BY <2>2, <4>1 DEF IInv, Entries
        <3> QED BY <3>1, <3>2
    <2>8. Unfinished'
        <3> SUFFICES ASSUME NEW i \in Ids', refs'[i] > 0, modules'[i].over = FALSE,
                            modules'[i].sha1 \notin again'
                     PROVE  /\ table'[modules'[i].sha1] \in {0, Nil}
                            /\ \A j \in Ids' : refs'[j] > 0 /\ modules'[j].over = FALSE
                                    /\ modules'[j].sha1 = modules'[i].sha1 => j = i
            BY DEF Unfinished, InUse
        <3>1. i # m BY <2>2
        <3>2. i \in Ids /\ InUse(i, FALSE) /\ modules[i].sha1 \notin again
            BY <2>2, <3>1 DEF InUse
        <3>3. modules[i].sha1 # c /\ modules[i].sha1 \in Sha1s
            BY <2>2, <3>1, <3>2, ModulesTyped DEF IInv
        <3>4. table'[modules'[i].sha1] \in {0, Nil}
            <4>1. table[modules[i].sha1] \in {0, Nil} BY <3>2 DEF IInv, Unfinished
            <4>2. modules'[i] = modules[i] BY <2>2, <3>2
            <4> QED BY <2>3, <3>3, <4>1, <4>2
        <3>5. ASSUME NEW j \in Ids', refs'[j] > 0, modules'[j].over = FALSE,
                     modules'[j].sha1 = modules'[i].sha1
              PROVE  j = i
            <4>1. j # m BY <2>2, <3>5
            <4>2. j \in Ids /\ InUse(j, FALSE) BY <2>2, <3>5, <4>1 DEF InUse
            <4> QED BY <2>2, <3>2, <3>5, <4>2 DEF IInv, Unfinished
        <3> QED BY <3>4, <3>5
    <2>9. Finished'
        <3> SUFFICES ASSUME NEW i \in Ids', refs'[i] > 0, modules'[i].over = TRUE,
                            modules'[i].sha1 \notin again'
                     PROVE  table'[modules'[i].sha1] = i
            BY DEF Finished, InUse
        <3>1. CASE i = m BY <1>2, <2>2, <2>3, <3>1
        <3>2. CASE i # m
            <4>1. i \in Ids /\ InUse(i, TRUE) /\ modules[i].sha1 \notin again
                BY <2>2, <3>2 DEF InUse
            <4>2. table[modules[i].sha1] = i /\ i > 0 /\ modules[i].sha1 \in Sha1s
                BY <4>1, ModulesTyped DEF IInv, Finished
            <4> QED BY <1>1, <2>2, <2>3, <4>1, <4>2
        <3> QED BY <3>1, <3>2
    <2> QED BY <2>5, <2>6, <2>7, <2>8, <2>9 DEF IInv
<1> QED BY <1>3, <1>4

LEMMA LoadedKeeps == IInv /\ Loaded => IInv'
<1> SUFFICES ASSUME IInv, Loaded PROVE IInv' OBVIOUS
<1> DEFINE c == Innermost.sha1
           m == Innermost.module
           old == table[c]
           put == [table EXCEPT ![c] = m]
<1>1. /\ loading # << >> /\ m # 0 /\ disk' = disk /\ loading' = Front(loading)
      /\ refs' = refs /\ again' = again
      /\ modules' = [modules EXCEPT ![m].over = TRUE]
      /\ table' = IF old > 0 /\ old # m THEN Removed(put, refs, old) ELSE put
    BY DEF Loaded, Opening
<1>2. /\ Len(loading) \in DOMAIN loading /\ Innermost = loading[Len(loading)]
      /\ Innermost \in LoadTypes
    BY <1>1, InnermostIs DEF IInv
<1>3. c \in Sha1s BY <1>2 DEF LoadTypes
<1>4. /\ m \in Ids /\ refs[m] > 0 /\ modules[m].over = FALSE /\ modules[m].sha1 = c
    BY <1>1, <1>2 DEF IInv, Loads, HasModule
<1>5. /\ modules' \in Seq([sha1 : Sha1s, over : BOOLEAN]) /\ Len(modules') = Len(modules)
      /\ \A i \in Ids : /\ modules'[i].sha1 = modules[i].sha1
                         /\ modules'[i].over = IF i = m THEN TRUE ELSE modules[i].over
    <2> DEFINE e == [modules[m] EXCEPT !.over = TRUE]
    <2>1. modules[m] \in [sha1 : Sha1s, over : BOOLEAN] BY <1>4, ModulesTyped DEF IInv
    <2>2. e \in [sha1 : Sha1s, over : BOOLEAN] /\ e.sha1 = modules[m].sha1 /\ e.over = TRUE
        BY <2>1
    <2>3. modules' = [modules EXCEPT ![m] = e] BY <1>1
    <2> HIDE DEF e, m
    <2>4. modules \in Seq([sha1 : Sha1s, over : BOOLEAN]) /\ m \in 1 .. Len(modules)
        BY <1>4, ModulesTyped DEF IInv, Types, TypesOfModules
    <2>5. /\ modules' \in Seq([sha1 : Sha1s, over : BOOLEAN]) /\ Len(modules') = Len(modules)
          /\ \A i \in 1 .. Len(modules) : modules'[i] = IF i = m THEN e ELSE modules[i]
        BY <2>2, <2>3, <2>4, ReplacedIs
    <2>6. \A i \in Ids : modules'[i] = IF i = m THEN e ELSE modules[i] BY <2>5 DEF Ids
    <2> QED BY <2>2, <2>5, <2>6
<1>6. Ids' = Ids BY <1>5 DEF Ids
<1>7. /\ \A d \in Sha1s : d # c => table'[d] = table[d]
      /\ table'[c] \in {m, 0} /\ (~(old > 0) => table'[c] = m)
      /\ table' \in [Sha1s -> {0, Nil} \cup Ids]
    <2>1. /\ put \in [Sha1s -> {0, Nil} \cup Ids] /\ put[c] = m
          /\ \A d \in Sha1s : d # c => put[d] = table[d]
        BY <1>3, <1>4 DEF IInv, Types, TypesOfModules
    <2> HIDE DEF put
    <2>2. CASE ~(old > 0 /\ old # m) BY <1>1, <2>1, <2>2
    <2>3. CASE old > 0 /\ old # m
        <3>1. old \in Ids BY <1>3, <2>3, ModulesTyped DEF IInv, Nil
        <3>2. modules[old].sha1 = c BY <1>3, <2>3 DEF IInv, Entries
        <3> HIDE DEF c, m, old
        <3>3. table' = put \/ table' = [put EXCEPT ![c] = 0]
            BY <1>1, <2>3, <3>2 DEF Removed
        <3>4. CASE table' = put BY <2>1, <2>3, <3>4
        <3>5. CASE table' = [put EXCEPT ![c] = 0] BY <1>3, <2>1, <2>3, <3>5
        <3> QED BY <3>3, <3>4, <3>5
    <2> QED BY <2>2, <2>3
<1>8. m \in Nat /\ m > 0 BY <1>4, ModulesTyped DEF IInv
<1>9. Loads' /\ loading' \in Seq(LoadTypes) BY <1>1, <1>5, <1>6, FrontKeeps
<1> HIDE DEF c, m, old, put
<1>10. Types' BY <1>1, <1>5, <1>6, <1>7, <1>9 DEF IInv, Types, TypesOfModules
<1>11. Entries'
    <2> SUFFICES ASSUME NEW d \in Sha1s, table'[d] > 0
                 PROVE  /\ refs[table'[d]] > 0 /\ modules'[table'[d]].over
                        /\ modules'[table'[d]].sha1 = d
        BY <1>1 DEF Entries
    <2>1. CASE d = c
        <3>1. table'[d] = m BY <1>7, <2>1
        <3> QED BY <1>4, <1>5, <2>1, <3>1
    <2>2. CASE d # c
        <3>1. table'[d] = table[d] /\ table[d] \in Ids BY <1>7, <2>2, ModulesTyped DEF IInv, Nil
        <3> QED BY <1>5, <3>1 DEF IInv, Entries
    <2> QED BY <2>1, <2>2
<1>12. Unfinished'
    <2> SUFFICES ASSUME NEW i \in Ids, refs[i] > 0, modules'[i].over = FALSE,
                        modules'[i].sha1 \notin again
                 PROVE  /\ table'[modules'[i].sha1] \in {0, Nil}
                        /\ \A j \in Ids : refs[j] > 0 /\ modules'[j].over = FALSE
                                /\ modules'[j].sha1 = modules'[i].sha1 => j = i
        BY <1>1, <1>6 DEF Unfinished, InUse
    <2>1. i # m /\ InUse(i, FALSE) /\ modules[i].sha1 \notin again BY <1>5 DEF InUse
    <2>2. InUse(m, FALSE) BY <1>4 DEF InUse
    <2>3. modules[i].sha1 # c BY <1>4, <2>1, <2>2 DEF IInv, Unfinished
    <2>4. table'[modules'[i].sha1] \in {0, Nil}
        <3>1. table[modules[i].sha1] \in {0, Nil} BY <2>1 DEF IInv, Unfinished
        <3>2. modules[i].sha1 \in Sha1s BY ModulesTyped DEF IInv
        <3> QED BY <1>5, <1>7, <2>3, <3>1, <3>2
    <2>5. \A j \in Ids : refs[j] > 0 /\ modules'[j].over = FALSE
                        /\ modules'[j].sha1 = modules'[i].sha1 => j = i
        BY <1>5, <2>1 DEF IInv, Unfinished, InUse
    <2> QED BY <2>4, <2>5
<1>13. Finished'
    <2> SUFFICES ASSUME NEW i \in Ids, refs[i] > 0, modules'[i].over = TRUE,
                        modules'[i].sha1 \notin again
                 PROVE  table'[modules'[i].sha1] = i
        BY <1>1, <1>6 DEF Finished, InUse
    <2>0. modules'[i].sha1 = modules[i].sha1 BY <1>5
    <2> SUFFICES table'[modules[i].sha1] = i BY <2>0
    <2>1. modules[i].sha1 \in Sha1s BY ModulesTyped DEF IInv
    <2>2. CASE i = m
        <3>1. InUse(m, FALSE) BY <1>4 DEF InUse
        <3>2. old \in {0, Nil} BY <1>4, <2>0, <2>2, <3>1 DEF IInv, Unfinished, old
        <3> QED BY <1>4, <1>7, <2>2, <3>2 DEF Nil
    <2>3. CASE i # m
        <3>1. InUse(i, TRUE) BY <1>5, <2>3 DEF InUse
        <3>2. table[modules[i].sha1] = i /\ i > 0 BY <2>0, <3>1, ModulesTyped DEF IInv, Finished
        <3>3. ASSUME modules[i].sha1 = c PROVE FALSE
            <4>1. InUse(m, FALSE) /\ modules[m].sha1 = c BY <1>4 DEF InUse
            <4>2. table[c] \in {0, Nil} BY <1>4, <2>0, <3>3, <4>1 DEF IInv, Unfinished
            <4> QED BY <3>2, <3>3, <4>2 DEF Nil
        <3> QED BY <1>7, <2>1, <3>2, <3>3
    <2> QED BY <2>2, <2>3
<1> QED BY <1>9, <1>10, <1>11, <1>12, <1>13 DEF IInv

-----------------------------------------------------------------------------
\* The invariant holds of every step of cf_module_new, of every failure, release and write:
\* a load is kept apart from the modules that are over, and what is in use and over is in
\* the table.
THEOREM LoaderInvariant == LoaderSpec => []IInv
<1>1. ASSUME IInv, LoaderNext PROVE IInv'
    <2>1. ASSUME NEW n \in Names, Load(n) PROVE IInv' BY <1>1, <2>1, LoadKeeps
    <2>2. ASSUME NEW i \in Ids, Keep(i) PROVE IInv' BY <1>1, <2>2, KeepKeeps
    <2>3. ASSUME NEW i \in Ids, Drop(i) PROVE IInv' BY <1>1, <2>3, DropKeeps
    <2>4. ASSUME NEW f \in Files, Write(f) PROVE IInv' BY <1>1, <2>4, WriteKeeps
    <2> QED BY <1>1, <2>1, <2>2, <2>3, <2>4, LeaveOutKeeps, KnownKeeps, OpenFileKeeps,
               OpenLibKeeps, LoadedKeeps, LoadFailsKeeps DEF LoaderNext
<1>2. IInv /\ [LoaderNext]_mvars => IInv' BY <1>1, StutterKeeps
<1> QED BY <1>2, InitHolds, PTL DEF LoaderSpec

\* Of any program: the state is of its type, and in particular sx_release never takes a
\* count below zero.
THEOREM LoaderTyped == LoaderSpec => []LoaderTypeOK
<1>1. IInv => LoaderTypeOK
    <2> SUFFICES ASSUME IInv PROVE LoaderTypeOK OBVIOUS
    <2>1. Len(refs) = Len(modules) BY DEF IInv, Types, TypesOfModules
    <2> QED BY <2>1, ModulesTyped DEF IInv, LoaderTypeOK
<1> QED BY <1>1, LoaderInvariant, PTL

\* Of any program: the module cf_module_new finds in __loaded__ has been loaded to its end
\* and is in use, and no contents are there twice that have not been loaded beside an
\* unfinished module of theirs.
THEOREM LoadedOnce == LoaderSpec => []LoadedModules
<1>1. IInv => LoadedModules
    <2> SUFFICES ASSUME IInv PROVE LoadedModules OBVIOUS
    <2>1. \A i \in Ids : Alive(i) <=> refs[i] > 0 BY AliveIs DEF IInv
    <2>2. ASSUME NEW i \in Ids, NEW j \in Ids, modules[i].sha1 = modules[j].sha1,
                 modules[i].over, modules[j].over, modules[i].sha1 \notin again,
                 Alive(i), Alive(j)
          PROVE  i = j
        <3>1. modules[i].over = TRUE /\ modules[j].over = TRUE
            BY <2>2, ModulesTyped DEF IInv
        <3>2. InUse(i, TRUE) /\ InUse(j, TRUE) BY <2>1, <2>2, <3>1 DEF InUse
        <3> QED BY <2>2, <3>2 DEF IInv, Finished
    <2> QED BY <2>2 DEF IInv, Entries, LoadedModules
<1> QED BY <1>1, LoaderInvariant, PTL

-----------------------------------------------------------------------------
(* The reader.                                                             *)

Kinds == {"list", "dotted", "quote"}

\* What is open is lists and quotes, whatever forms are in them.
OpenOK(e) == e = [kind |-> e.kind, items |-> e.items, tail |-> e.tail] /\ e.kind \in Kinds

OpenForms(c) == c \in Seq(ToSet(c)) /\ \A k \in 1 .. Len(c) : OpenOK(c[k])

Places == {"skip", "comment", "elem", "inner comment", "close", "token", "string", "escape",
           "hex", "hex 0", "hex 1",
           "value", "stop", "failed"}

InsideOf == [l \in {"elem", "inner comment", "close"} |->
    IF l = "elem" THEN {"list"} ELSE IF l = "close" THEN {"dotted"} ELSE {"list", "dotted"}]

InString1 == IF lex \in Quoted THEN 1 ELSE 0

\* Where in the text the reader is.
PlaceOK ==
    /\ input \in Inputs /\ at \in 1 .. Len(Text) + 1 /\ lost \in 0 .. Len(Text) + 1
    /\ lex \in Places
    /\ lex = "stop" => AtEnd /\ ctx = << >>
    /\ lex = "failed" => ~input.line
    /\ lost # 0 => input.line

\* The forms around that place.
AroundOK ==
    /\ OpenForms(ctx)
    /\ lex # "failed" => depth = Len(ctx) + InString1
    /\ lex \in DOMAIN InsideOf => ctx # << >> /\ Last(ctx).kind \in InsideOf[lex]

ReadInv == PlaceOK /\ AroundOK

\* How far the reader has still to go without taking a character: a step that takes
\* none comes to a place of a lower rank, or leaves a quote.
Rank ==
    CASE lex \in {"stop", "failed"} -> 0
      [] lex = "value" -> IF ~AtEnd /\ Char = ")" THEN 3 ELSE 4
      [] lex = "token" -> IF AtEnd THEN 2 ELSE IF Char = ")" THEN 4 ELSE 1
      [] lex = "skip" -> IF AtEnd /\ ctx = << >> THEN 1 ELSE 2
      [] OTHER -> IF AtEnd \/ Char = ")" THEN 2 ELSE 3

Advances ==
    \/ at' > at
    \/ at' = at /\ (Rank' < Rank \/ (Rank' = Rank /\ Len(ctx') < Len(ctx)))

LEMMA OwnElements ==
    ASSUME NEW S, NEW s \in Seq(S)
    PROVE  s \in Seq(ToSet(s))
<1>1. s = [k \in 1 .. Len(s) |-> s[k]] /\ Len(s) \in Nat
    OBVIOUS
<1>2. \A k \in 1 .. Len(s) : s[k] \in ToSet(s)
    BY <1>1 DEF ToSet
<1>3. s \in [1 .. Len(s) -> ToSet(s)]
    BY <1>1, <1>2
<1> QED BY <1>1, <1>3

LEMMA Opened ==
    ASSUME NEW c, OpenForms(c), NEW e, OpenOK(e)
    PROVE  /\ OpenForms(Append(c, e)) /\ Len(Append(c, e)) = Len(c) + 1
           /\ Append(c, e) # << >> /\ Last(Append(c, e)) = e
<1> DEFINE S == ToSet(c) \cup {e}
           d == Append(c, e)
<1>1. c \in Seq(S) /\ e \in S
    <2>1. c \in Seq(ToSet(c)) BY DEF OpenForms
    <2>2. c \in [1 .. Len(c) -> ToSet(c)] /\ Len(c) \in Nat BY <2>1
    <2>3. c \in [1 .. Len(c) -> S] BY <2>2
    <2> QED BY <2>2, <2>3
<1> HIDE DEF S
<1>2. /\ d \in Seq(S) /\ Len(d) = Len(c) + 1 /\ Len(c) \in Nat
      /\ \A i \in 1 .. Len(c) : d[i] = c[i]
      /\ d[Len(c) + 1] = e
    BY <1>1, AppendIs
<1> HIDE DEF d
<1>3. d \in Seq(ToSet(d)) BY <1>2, OwnElements
<1>4. \A k \in 1 .. Len(d) : OpenOK(d[k])
    <2> SUFFICES ASSUME NEW k \in 1 .. Len(d) PROVE OpenOK(d[k]) OBVIOUS
    <2>1. k \in 1 .. Len(c) \/ k = Len(c) + 1 BY <1>2
    <2> QED BY <1>2, <2>1 DEF OpenForms
<1>5. d # << >> /\ Last(d) = e BY <1>2 DEF Last
<1> QED BY <1>2, <1>3, <1>4, <1>5 DEF OpenForms, d

LEMMA OneClosed ==
    ASSUME NEW c, OpenForms(c), c # << >>
    PROVE  /\ OpenForms(Front(c)) /\ Len(Front(c)) = Len(c) - 1 /\ Len(c) \in Nat \ {0}
           /\ OpenOK(Last(c))
<1>1. c \in Seq(ToSet(c)) BY DEF OpenForms
<1>2. /\ Len(c) \in Nat \ {0} /\ Last(c) = c[Len(c)]
      /\ Front(c) \in Seq(ToSet(c)) /\ Len(Front(c)) = Len(c) - 1
      /\ \A i \in 1 .. Len(c) - 1 : Front(c)[i] = c[i]
    BY <1>1, FrontIs
<1>3. Front(c) \in Seq(ToSet(Front(c))) BY <1>2, OwnElements
<1>4. \A i \in 1 .. Len(c) - 1 : i \in 1 .. Len(c) BY <1>2
<1>5. Len(c) \in 1 .. Len(c) BY <1>2
<1> QED BY <1>2, <1>3, <1>4, <1>5 DEF OpenForms

\* Only the innermost form that is open changes.
LEMMA InnermostChanged ==
    ASSUME NEW c, OpenForms(c), c # << >>, NEW e, OpenOK(e)
    PROVE  LET d == [c EXCEPT ![Len(c)] = e]
           IN  OpenForms(d) /\ Len(d) = Len(c) /\ d # << >> /\ Last(d) = e
<1> DEFINE S == ToSet(c) \cup {e}
           d == [c EXCEPT ![Len(c)] = e]
<1>1. c \in Seq(S) /\ e \in S /\ Len(c) \in Nat \ {0}
    <2>1. c \in Seq(ToSet(c)) BY DEF OpenForms
    <2>2. c \in [1 .. Len(c) -> ToSet(c)] /\ Len(c) \in Nat BY <2>1
    <2>3. c \in [1 .. Len(c) -> S] BY <2>2
    <2> QED BY <2>2, <2>3, OneClosed
<1> HIDE DEF S
<1>2. Len(c) \in 1 .. Len(c) BY <1>1
<1>3. /\ d \in Seq(S) /\ Len(d) = Len(c)
      /\ \A j \in 1 .. Len(c) : d[j] = IF j = Len(c) THEN e ELSE c[j]
    BY <1>1, <1>2, ReplacedIs
<1> HIDE DEF d
<1>4. d \in Seq(ToSet(d)) BY <1>3, OwnElements
<1>5. \A k \in 1 .. Len(d) : OpenOK(d[k]) BY <1>3 DEF OpenForms
<1>6. d # << >> /\ Last(d) = e BY <1>1, <1>2, <1>3 DEF Last
<1> QED BY <1>3, <1>4, <1>5, <1>6 DEF OpenForms, d

LEMMA OpenUpdated ==
    ASSUME NEW e, OpenOK(e), NEW x, NEW y
    PROVE  /\ OpenOK([e EXCEPT !.items = x]) /\ [e EXCEPT !.items = x].kind = e.kind
           /\ OpenOK([e EXCEPT !.items = x, !.tail = y])
           /\ [e EXCEPT !.items = x, !.tail = y].kind = e.kind
<1>1. PICK k, i, t : k \in Kinds /\ e = [kind |-> k, items |-> i, tail |-> t]
    BY DEF OpenOK
<1>2. [e EXCEPT !.items = x] = [kind |-> k, items |-> x, tail |-> t]
    BY <1>1
<1>3. [e EXCEPT !.items = x, !.tail = y] = [kind |-> k, items |-> x, tail |-> y]
    <2>1. ASSUME NEW f, f = [kind |-> k, items |-> x, tail |-> t]
          PROVE  [f EXCEPT !.tail = y] = [kind |-> k, items |-> x, tail |-> y]
        BY <2>1
    <2>2. [e EXCEPT !.items = x, !.tail = y] = [[e EXCEPT !.items = x] EXCEPT !.tail = y]
        OBVIOUS
    <2> DEFINE f == [e EXCEPT !.items = x]
    <2>3. f = [kind |-> k, items |-> x, tail |-> t] BY <1>2
    <2> HIDE DEF f
    <2>4. [f EXCEPT !.tail = y] = [kind |-> k, items |-> x, tail |-> y] BY <2>1, <2>3
    <2> QED BY <2>2, <2>4 DEF f
<1> QED BY <1>1, <1>2, <1>3 DEF OpenOK

\* A text has a length, and every line an end.
LEMMA TextIs ==
    ASSUME PlaceOK
    PROVE  Len(Text) \in Nat
<1>1. input.first \in Seq(STRING) /\ input.rest \in Seq(STRING)
    BY ReaderAssumption DEF PlaceOK
<1>2. ASSUME NEW S, NEW s \in Seq(S), NEW t \in Seq(S) PROVE Len(s \o t) \in Nat
    OBVIOUS
<1> QED BY <1>1, <1>2 DEF Text

LEMMA LineHasEnd ==
    ASSUME PlaceOK, NEW n \in 1 .. Len(Text) + 1
    PROVE  LineAfter(n) \in n .. Len(Text) + 1
<1> DEFINE ends == {k \in n .. Len(Text) + 1 : k = Len(Text) + 1 \/ Text[k - 1] = "nl"}
<1>1. Len(Text) \in Nat BY TextIs
<1>2. Len(Text) + 1 \in ends /\ ends \subseteq Nat BY <1>1
<1>3. PICK k \in ends : \A j \in ends : k <= j BY <1>2, LeastElement
<1>4. ASSUME NEW j \in n .. k - 1 PROVE Text[j - 1] # "nl"
    <2>1. j \in n .. Len(Text) + 1 /\ ~(k <= j) BY <1>1, <1>3
    <2> QED BY <1>3, <2>1
<1>5. /\ k \in n .. Len(Text) + 1
      /\ k = Len(Text) + 1 \/ Text[k - 1] = "nl"
      /\ \A j \in n .. k - 1 : Text[j - 1] # "nl"
    BY <1>3, <1>4
<1> QED BY <1>5 DEF LineAfter

\* What a step does to the place in the text, when it is not an error.
LEMMA GoesOn ==
    ASSUME PlaceOK, input' = input, lost' = lost, at' \in at .. Len(Text) + 1,
           lex' \in Places \ {"stop", "failed"}
    PROVE  PlaceOK' /\ Text' = Text /\ at' \in Nat /\ at \in Nat
<1>1. Len(Text) \in Nat BY TextIs
<1>2. Text' = Text BY DEF Text
<1> QED BY <1>1, <1>2 DEF PlaceOK

LEMMA NextChar ==
    ASSUME PlaceOK, ~AtEnd
    PROVE  at + 1 \in at .. Len(Text) + 1 /\ at \in Nat
BY TextIs DEF PlaceOK, AtEnd

LEMMA AtTheEnd ==
    ASSUME PlaceOK, AtEnd
    PROVE  at = Len(Text) + 1 /\ at \in at .. Len(Text) + 1
BY TextIs DEF PlaceOK, AtEnd

\* After an error nothing is open, or the reading is over.
LEMMA ErrorOK ==
    ASSUME ReadInv, NEW n \in at .. Len(Text) + 1, Error(n)
    PROVE  /\ ReadInv' /\ Text' = Text /\ at' >= n
           /\ lex' = "failed" \/ (lex' = "skip" /\ ctx' = << >>)
<1>1. Len(Text) \in Nat /\ at \in 1 .. Len(Text) + 1 /\ n \in 1 .. Len(Text) + 1
    BY TextIs DEF ReadInv, PlaceOK
<1>2. CASE input.line
    <2> DEFINE k == LineAfter(n)
    <2>1. k \in n .. Len(Text) + 1 BY <1>1, LineHasEnd DEF ReadInv
    <2>2. Reset(k) BY <1>2 DEF Error
    <2> HIDE DEF k
    <2>3. /\ input' = input /\ at' = k /\ lex' = "skip" /\ ctx' = << >> /\ depth' = 0
          /\ lost' \in {k, lost}
        BY <2>2 DEF Reset
    <2>4. Text' = Text BY <2>3 DEF Text
    <2>5. at' \in 1 .. Len(Text) + 1 /\ lost' \in 0 .. Len(Text) + 1
        BY <1>1, <2>1, <2>3 DEF ReadInv, PlaceOK
    <2>6. PlaceOK'
        BY <1>2, <2>3, <2>4, <2>5 DEF ReadInv, PlaceOK, Places
    <2>7. AroundOK'
        BY <2>3 DEF AroundOK, OpenForms, InString1, Quoted, InsideOf, ToSet
    <2> QED BY <1>1, <2>1, <2>3, <2>4, <2>6, <2>7 DEF ReadInv
<1>3. CASE ~input.line
    <2>1. lex' = "failed" /\ at' = n /\ UNCHANGED <<input, ctx, depth, lost>>
        BY <1>3 DEF Error
    <2>2. Text' = Text BY <2>1 DEF Text
    <2>3. PlaceOK' BY <1>1, <1>3, <2>1, <2>2 DEF ReadInv, PlaceOK, Places
    <2>4. AroundOK' BY <2>1 DEF ReadInv, AroundOK, InsideOf
    <2> QED BY <1>1, <2>1, <2>2, <2>3, <2>4 DEF ReadInv
<1> QED BY <1>2, <1>3

Step == ReadInv' /\ Advances

LEMMA ErrorAhead ==
    ASSUME ReadInv, ~AtEnd, Error(at + 1)
    PROVE  Step
<1>1. at + 1 \in at .. Len(Text) + 1 /\ at \in Nat BY NextChar DEF ReadInv
<1>2. ReadInv' /\ at' >= at + 1 BY <1>1, ErrorOK
<1>3. at' \in Nat BY <1>2, TextIs DEF ReadInv, PlaceOK
<1> QED BY <1>1, <1>2, <1>3 DEF Step, Advances

\* An error at the end of the text.
LEMMA ErrorAtEnd ==
    ASSUME ReadInv, AtEnd, Error(at), lex \notin {"stop", "failed"},
           ~(lex = "skip" /\ ctx = << >>)
    PROVE  Step
<1>1. at = Len(Text) + 1 /\ at \in at .. Len(Text) + 1 BY AtTheEnd DEF ReadInv
<1>2. /\ ReadInv' /\ Text' = Text /\ at' >= at
      /\ lex' = "failed" \/ (lex' = "skip" /\ ctx' = << >>)
    BY <1>1, ErrorOK
<1>3. at' \in 1 .. Len(Text) + 1 /\ Len(Text) \in Nat BY <1>2, TextIs DEF ReadInv, PlaceOK
<1>4. at' = at BY <1>1, <1>2, <1>3
<1>5. AtEnd' BY <1>1, <1>2, <1>3, <1>4 DEF AtEnd
<1>6. Rank \in {2, 4} BY DEF Rank
<1>7. Rank' \in {0, 1} BY <1>2, <1>5 DEF Rank
<1>8. Rank' < Rank BY <1>6, <1>7
<1> QED BY <1>2, <1>4, <1>8 DEF Step, Advances

LEMMA EndOfTextOK ==
    ASSUME ReadInv, AtEnd, EndOfText, lex \in {"skip", "comment"}
    PROVE  Step
<1>1. CASE ctx # << >>
    BY <1>1, ErrorAtEnd DEF EndOfText
<1>2. CASE ctx = << >>
    <2>1. lex' = "stop" /\ UNCHANGED <<input, at, ctx, tok, val, depth, values, lost>>
        BY <1>2 DEF EndOfText
    <2>2. Text' = Text BY <2>1 DEF Text
    <2>3. PlaceOK' BY <1>2, <2>1, <2>2 DEF ReadInv, PlaceOK, Places, AtEnd
    <2>4. AroundOK' BY <2>1 DEF ReadInv, AroundOK, InString1, Quoted, InsideOf
    <2>5. Rank' = 0 /\ Rank \in {1, 2} BY <2>1 DEF Rank
    <2>6. Rank' < Rank BY <2>5
    <2> QED BY <2>1, <2>3, <2>4, <2>6 DEF Step, Advances, ReadInv
<1> QED BY <1>1, <1>2

\* A character is taken.
LEMMA TakeOK ==
    ASSUME ReadInv, ~AtEnd, input' = input, lost' = lost, at' = at + 1, AroundOK',
           lex' \in Places \ {"stop", "failed"}
    PROVE  Step
<1>1. at + 1 \in at .. Len(Text) + 1 /\ at \in Nat BY NextChar DEF ReadInv
<1>2. PlaceOK' BY <1>1, GoesOn DEF ReadInv
<1> QED BY <1>1, <1>2 DEF Step, Advances, ReadInv

LEMMA CommentOK == ASSUME ReadInv, Comment PROVE Step
<1>1. CASE AtEnd BY <1>1, EndOfTextOK DEF Comment
<1>2. CASE ~AtEnd
    <2>1. /\ lex = "comment" /\ at' = at + 1 /\ lex' \in {"skip", "comment"}
          /\ UNCHANGED <<input, ctx, depth, lost>>
        BY <1>2 DEF Comment, Take
    <2>2. AroundOK' BY <2>1 DEF ReadInv, AroundOK, InString1, Quoted, InsideOf
    <2> QED BY <1>2, <2>1, <2>2, TakeOK DEF Places
<1> QED BY <1>1, <1>2

LEMMA OpenIs ==
    ASSUME AroundOK, NEW kind \in {"list", "quote"}, NEW l, Open(kind, l),
           lex \notin {"failed"} \cup Quoted, l = IF kind = "list" THEN "elem" ELSE "skip"
    PROVE  AroundOK' /\ UNCHANGED <<input, lost>> /\ at' = at + 1 /\ lex' = l
<1> DEFINE e == [kind |-> kind, items |-> << >>, tail |-> << >>]
<1>1. OpenOK(e) /\ e.kind = kind BY DEF OpenOK, Kinds
<1>2. /\ ctx' = Append(ctx, e) /\ depth' = depth + 1 /\ lex' = l /\ at' = at + 1
      /\ UNCHANGED <<input, lost>>
    BY DEF Open
<1> HIDE DEF e
<1>3. /\ OpenForms(ctx') /\ Len(ctx') = Len(ctx) + 1 /\ ctx' # << >> /\ Last(ctx') = e
    BY <1>1, <1>2, Opened DEF AroundOK
<1>4. Len(ctx) \in Nat BY DEF AroundOK, OpenForms
<1>5. InString1 = 0 /\ InString1' = 0 BY <1>2 DEF InString1, Quoted
<1>6. depth = Len(ctx) + 0 BY <1>5 DEF AroundOK
<1>7. depth' = Len(ctx') + InString1' BY <1>2, <1>3, <1>4, <1>5, <1>6
<1> QED BY <1>1, <1>2, <1>3, <1>7 DEF AroundOK, InsideOf

LEMMA SkipOK == ASSUME ReadInv, Skip PROVE Step
<1>1. CASE AtEnd BY <1>1, EndOfTextOK DEF Skip
<1>2. CASE ~AtEnd /\ (Take("skip") \/ Take("comment"))
    <2>1. /\ lex = "skip" /\ at' = at + 1 /\ lex' \in {"skip", "comment"}
          /\ UNCHANGED <<input, ctx, depth, lost>>
        BY <1>2 DEF Skip, Take
    <2>2. AroundOK' BY <2>1 DEF ReadInv, AroundOK, InString1, Quoted, InsideOf
    <2> QED BY <1>2, <2>1, <2>2, TakeOK DEF Places
<1>3. CASE ~AtEnd /\ (Open("list", "elem") \/ Open("quote", "skip"))
    <2>1. lex = "skip" BY DEF Skip
    <2>2. /\ AroundOK' /\ UNCHANGED <<input, lost>> /\ at' = at + 1
          /\ lex' \in {"elem", "skip"}
        BY <1>3, <2>1, OpenIs DEF ReadInv, Quoted
    <2> QED BY <1>3, <2>2, TakeOK DEF Places
<1>4. CASE ~AtEnd /\ Error(at + 1) BY <1>4, ErrorAhead
<1>5. CASE ~AtEnd /\ Char = "quote" /\ lex' = "string" /\ at' = at + 1 /\ depth' = depth + 1
           /\ UNCHANGED <<input, ctx, val, values, lost>>
    <2>1. lex = "skip" BY DEF Skip
    <2>0. Len(ctx) \in Nat BY DEF ReadInv, AroundOK, OpenForms
    <2>2. AroundOK' BY <1>5, <2>0, <2>1 DEF ReadInv, AroundOK, InString1, Quoted, InsideOf
    <2> QED BY <1>5, <2>2, TakeOK DEF Places
<1>6. CASE ~AtEnd /\ Char # ")" /\ lex' = "token"
           /\ UNCHANGED <<input, at, ctx, val, depth, values, lost>>
    <2>1. lex = "skip" BY DEF Skip
    <2>2. AroundOK' BY <1>6, <2>1 DEF ReadInv, AroundOK, InString1, Quoted, InsideOf
    <2>3. at' \in at .. Len(Text) + 1 BY <1>6, TextIs DEF ReadInv, PlaceOK
    <2>4. PlaceOK' /\ Text' = Text BY <1>6, <2>3, GoesOn DEF ReadInv, Places
    <2>5. ~AtEnd' /\ Char' = Char /\ Char # ")" BY <1>6, <2>4 DEF AtEnd, Char
    <2>6. Rank = 2 /\ Rank' = 1 BY <1>6, <2>1, <2>5 DEF Rank
    <2>7. Rank' < Rank BY <2>6
    <2> QED BY <1>6, <2>2, <2>4, <2>7 DEF Step, Advances, ReadInv
<1> QED BY <1>1, <1>2, <1>3, <1>4, <1>5, <1>6 DEF Skip

\* A form has been read, and the list or string it was is not open any more.
LEMMA ValueOK ==
    ASSUME ReadInv, ~AtEnd, NEW d, ReadValue(d), at' = at + 1,
           \/ lex \in {"elem", "close"} /\ Closed
           \/ lex \in Quoted /\ depth' = depth - 1 /\ UNCHANGED ctx
           \/ lex = "token" /\ UNCHANGED <<ctx, depth>>
    PROVE  Step
<1>1. lex' = "value" /\ UNCHANGED <<input, lost>> BY DEF ReadValue
<1>2. Len(ctx) \in Nat /\ OpenForms(ctx) BY DEF ReadInv, AroundOK, OpenForms
<1>3. OpenForms(ctx') /\ depth' = Len(ctx')
    <2>1. CASE lex \in {"elem", "close"} /\ Closed
        <3>1. ctx # << >> BY <2>1 DEF ReadInv, AroundOK, InsideOf
        <3>2. depth = Len(ctx) + 0 BY <2>1 DEF ReadInv, AroundOK, InString1, Quoted
        <3>3. ctx' = Front(ctx) /\ depth' = depth - 1 BY <2>1 DEF Closed
        <3> QED BY <1>2, <3>1, <3>2, <3>3, OneClosed
    <2>2. CASE lex \in Quoted /\ depth' = depth - 1 /\ UNCHANGED ctx
        <3>1. depth = Len(ctx) + 1 BY <2>2 DEF ReadInv, AroundOK, InString1, Quoted
        <3> QED BY <1>2, <2>2, <3>1
    <2>3. CASE lex = "token" /\ UNCHANGED <<ctx, depth>>
        <3>1. depth = Len(ctx) + 0 BY <2>3 DEF ReadInv, AroundOK, InString1, Quoted
        <3> QED BY <1>2, <2>3, <3>1
    <2> QED BY <2>1, <2>2, <2>3
<1>4. Len(ctx') \in Nat BY <1>3 DEF OpenForms
<1>5. InString1' = 0 BY <1>1 DEF InString1, Quoted
<1>6. AroundOK' BY <1>1, <1>3, <1>4, <1>5 DEF AroundOK, InsideOf
<1> QED BY <1>1, <1>6, TakeOK DEF Places

LEMMA CloseListOK ==
    ASSUME ReadInv, ~AtEnd, lex \in {"elem", "close"}, CloseList
    PROVE  Step
<1> DEFINE d == [List(Last(ctx).items) EXCEPT !.tail = Last(ctx).tail]
<1>1. \/ Error(at + 1)
      \/ \E v : ReadValue(v) /\ Closed /\ at' = at + 1
    BY DEF CloseList
<1>2. CASE Error(at + 1) BY <1>2, ErrorAhead
<1>3. ASSUME NEW v, ReadValue(v), Closed, at' = at + 1 PROVE Step
    BY <1>3, ValueOK
<1> QED BY <1>1, <1>2, <1>3

LEMMA ElemOK == ASSUME ReadInv, Elem PROVE Step
<1>0. lex = "elem" /\ OpenForms(ctx) /\ ctx # << >> BY DEF Elem, ReadInv, AroundOK, InsideOf
<1>1. CASE AtEnd BY <1>0, <1>1, ErrorAtEnd DEF Elem
<1>2. CASE ~AtEnd /\ (Take("elem") \/ Take("inner comment"))
    <2>1. /\ at' = at + 1 /\ lex' \in {"elem", "inner comment"}
          /\ UNCHANGED <<input, ctx, depth, lost>>
        BY <1>2 DEF Take
    <2>2. AroundOK' BY <1>0, <2>1 DEF ReadInv, AroundOK, InString1, Quoted, InsideOf
    <2> QED BY <1>2, <2>1, <2>2, TakeOK DEF Places
<1>3. CASE ~AtEnd /\ CloseList BY <1>0, <1>3, CloseListOK
<1>4. CASE ~AtEnd /\ Error(at + 1) BY <1>4, ErrorAhead
<1>5. CASE ~AtEnd /\ ctx' = [ctx EXCEPT ![Len(ctx)].kind = "dotted"] /\ lex' = "skip"
           /\ at' = at + 1 /\ UNCHANGED <<input, tok, val, depth, values, lost>>
    <2> DEFINE e == [ctx[Len(ctx)] EXCEPT !.kind = "dotted"]
    <2>1. Last(ctx) = ctx[Len(ctx)] BY DEF Last
    <2>2. OpenOK(ctx[Len(ctx)]) BY <1>0, <2>1, OneClosed
    <2>3. OpenOK(e) BY <2>2 DEF OpenOK, Kinds
    <2>4. ctx' = [ctx EXCEPT ![Len(ctx)] = e] BY <1>5
    <2> HIDE DEF e
    <2>5. OpenForms(ctx') /\ Len(ctx') = Len(ctx) BY <1>0, <2>3, <2>4, InnermostChanged
    <2>6. AroundOK' BY <1>0, <1>5, <2>5 DEF ReadInv, AroundOK, InString1, Quoted, InsideOf
    <2> QED BY <1>5, <2>6, TakeOK DEF Places
<1>6. CASE ~AtEnd /\ Char # ")" /\ lex' = "skip"
           /\ UNCHANGED <<input, at, ctx, tok, val, depth, values, lost>>
    <2>1. AroundOK' BY <1>0, <1>6 DEF ReadInv, AroundOK, InString1, Quoted, InsideOf
    <2>2. at' \in at .. Len(Text) + 1 BY <1>6, TextIs DEF ReadInv, PlaceOK
    <2>3. PlaceOK' /\ Text' = Text BY <1>6, <2>2, GoesOn DEF ReadInv, Places
    <2>4. ~AtEnd' /\ Char' = Char BY <1>6, <2>3 DEF AtEnd, Char
    <2>5. Rank = 3 /\ Rank' = 2 BY <1>0, <1>6, <2>4 DEF Rank
    <2>6. Rank' < Rank BY <2>5
    <2> QED BY <1>6, <2>1, <2>3, <2>6 DEF Step, Advances, ReadInv
<1> QED BY <1>1, <1>2, <1>3, <1>4, <1>5, <1>6 DEF Elem

LEMMA CloseOK == ASSUME ReadInv, Close PROVE Step
<1>0. lex = "close" BY DEF Close
<1>1. CASE AtEnd BY <1>0, <1>1, ErrorAtEnd DEF Close
<1>2. CASE ~AtEnd /\ Take("inner comment")
    <2>1. /\ at' = at + 1 /\ lex' = "inner comment" /\ UNCHANGED <<input, ctx, depth, lost>>
        BY <1>2 DEF Take
    <2>2. AroundOK' BY <1>0, <2>1 DEF ReadInv, AroundOK, InString1, Quoted, InsideOf
    <2> QED BY <1>2, <2>1, <2>2, TakeOK DEF Places
<1>3. CASE ~AtEnd /\ CloseList BY <1>0, <1>3, CloseListOK
<1>4. CASE ~AtEnd /\ Error(at + 1) BY <1>4, ErrorAhead
<1> QED BY <1>1, <1>2, <1>3, <1>4 DEF Close

LEMMA InnerCommentOK == ASSUME ReadInv, InnerComment, ~UNCHANGED rvars PROVE Step
<1>1. /\ lex = "inner comment" /\ ~AtEnd
      /\ lex' = IF Char # "nl" THEN "inner comment"
                ELSE IF Last(ctx).kind = "dotted" THEN "close" ELSE "elem"
      /\ at' = at + 1 /\ UNCHANGED <<input, ctx, depth, lost>>
    BY DEF InnerComment, Take
<1>2. AroundOK' BY <1>1 DEF ReadInv, AroundOK, InString1, Quoted, InsideOf
<1> QED BY <1>1, <1>2, TakeOK DEF Places

LEMMA TokenOK == ASSUME ReadInv, Token PROVE Step
<1>0. lex = "token" BY DEF Token
<1>1. CASE AtEnd BY <1>0, <1>1, ErrorAtEnd DEF Token
<1>2. CASE ~AtEnd /\ EndToken(at + 1)
    <2>1. Error(at + 1) \/ (ReadValue(SymObj(tok)) /\ at' = at + 1 /\ UNCHANGED <<ctx, depth>>)
        BY <1>2 DEF EndToken
    <2> QED BY <1>0, <1>2, <2>1, ErrorAhead, ValueOK
<1>3. CASE ~AtEnd /\ Error(at + 1) BY <1>3, ErrorAhead
<1>4. CASE ~AtEnd /\ Char = ")" /\ EndToken(at)
    <2>1. at \in Nat /\ at \in at .. Len(Text) + 1 BY TextIs DEF ReadInv, PlaceOK
    <2>2. Rank = 4 BY <1>0, <1>4 DEF Rank
    <2>3. CASE Error(at)
        <3>1. /\ ReadInv' /\ Text' = Text /\ at' >= at
              /\ lex' = "failed" \/ (lex' = "skip" /\ ctx' = << >>)
            BY <2>1, <2>3, ErrorOK
        <3>2. at' \in Nat BY <3>1, TextIs DEF ReadInv, PlaceOK
        <3>3. Rank' \in {0, 1, 2} BY <3>1 DEF Rank
        <3>4. Rank' < Rank BY <2>2, <3>3
        <3>5. at' > at \/ at' = at BY <2>1, <3>1, <3>2
        <3> QED BY <3>1, <3>4, <3>5 DEF Step, Advances
    <2>4. CASE ReadValue(SymObj(tok)) /\ at' = at /\ UNCHANGED <<ctx, depth>>
        <3>1. lex' = "value" /\ UNCHANGED <<input, lost, ctx, depth, at>> BY <2>4 DEF ReadValue
        <3>2. AroundOK' BY <1>0, <3>1 DEF ReadInv, AroundOK, InString1, Quoted, InsideOf
        <3>3. PlaceOK' /\ Text' = Text BY <2>1, <3>1, GoesOn DEF ReadInv, Places
        <3>4. ~AtEnd' /\ Char' = Char BY <1>4, <3>1, <3>3 DEF AtEnd, Char
        <3>5. Rank' = 3 BY <1>4, <3>1, <3>4 DEF Rank
        <3>6. Rank' < Rank BY <2>2, <3>5
        <3> QED BY <3>1, <3>2, <3>3, <3>6 DEF Step, Advances, ReadInv
    <2> QED BY <1>4, <2>3, <2>4 DEF EndToken
<1>5. CASE ~AtEnd /\ tok' = Append(tok, Char) /\ at' = at + 1
           /\ UNCHANGED <<input, ctx, lex, val, depth, values, lost>>
    <2>1. AroundOK' BY <1>0, <1>5 DEF ReadInv, AroundOK, InString1, Quoted, InsideOf
    <2> QED BY <1>0, <1>5, <2>1, TakeOK DEF Places
<1> QED BY <1>1, <1>2, <1>3, <1>4, <1>5 DEF Token

LEMMA StringOK == ASSUME ReadInv, String \/ Escape \/ Hex PROVE Step
<1>0. lex \in Quoted BY DEF String, Escape, Hex, Quoted
<1>1. CASE AtEnd BY <1>0, <1>1, ErrorAtEnd DEF String, Escape, Hex, Quoted
<1>2. CASE ~AtEnd /\ EndString
    BY <1>0, <1>2, ValueOK DEF EndString
<1>3. CASE ~AtEnd /\ at' = at + 1 /\ lex' \in Quoted /\ UNCHANGED <<input, ctx, depth, lost>>
    <2>1. AroundOK' BY <1>0, <1>3 DEF ReadInv, AroundOK, InString1, InsideOf, Quoted
    <2> QED BY <1>3, <2>1, TakeOK DEF Places, Quoted
<1>4. CASE ~AtEnd /\ Error(at + 1) BY <1>4, ErrorAhead
<1>5. \/ EndString \/ AtEnd \/ Error(at + 1)
      \/ at' = at + 1 /\ lex' \in Quoted /\ UNCHANGED <<input, ctx, depth, lost>>
    BY DEF String, Escape, Hex, Take, InString, Quoted
<1> QED BY <1>1, <1>2, <1>3, <1>4, <1>5

\* A form that is passed on lowers the rank, or leaves a quote.
LEMMA DeliverOK == ASSUME ReadInv, Deliver PROVE Step
<1>0. /\ lex = "value" /\ OpenForms(ctx) /\ Len(ctx) \in Nat /\ depth = Len(ctx) + 0
      /\ UNCHANGED <<input, at, lost>>
    BY DEF Deliver, ReadInv, AroundOK, OpenForms, InString1, Quoted
<1>1. at \in Nat /\ at' \in at .. Len(Text) + 1 BY <1>0, TextIs DEF ReadInv, PlaceOK
<1>2. Text' = Text /\ Char' = Char /\ (AtEnd' <=> AtEnd)
    BY <1>0 DEF Text, Char, AtEnd
<1>3. ASSUME lex' \in {"skip", "elem", "close"}, AroundOK' PROVE Step
    <2>1. PlaceOK' BY <1>0, <1>1, <1>3, GoesOn DEF ReadInv, Places
    <2>2. IF ~AtEnd /\ Char = ")" THEN Rank = 3 ELSE Rank = 4 BY <1>0 DEF Rank
    <2>3. IF ~AtEnd /\ Char = ")" THEN Rank' = 2 ELSE Rank' \in {1, 2, 3}
        BY <1>2, <1>3 DEF Rank
    <2>4. Rank' < Rank BY <2>2, <2>3
    <2> QED BY <1>0, <1>3, <2>1, <2>4 DEF Step, Advances, ReadInv
<1>4. CASE ctx = << >> /\ lex' = "skip" /\ UNCHANGED <<ctx, depth>>
    <2>1. AroundOK' BY <1>0, <1>4 DEF AroundOK, InString1, Quoted, InsideOf
    <2> QED BY <1>3, <1>4, <2>1
<1>5. ASSUME ctx # << >>, NEW e, OpenOK(e), ctx' = [ctx EXCEPT ![Len(ctx)] = e],
             lex' \in {"elem", "close"}, e.kind \in InsideOf[lex'], UNCHANGED depth
      PROVE  Step
    <2>1. OpenForms(ctx') /\ Len(ctx') = Len(ctx) /\ ctx' # << >> /\ Last(ctx') = e
        BY <1>0, <1>5, InnermostChanged
    <2>2. depth' = Len(ctx') + InString1' BY <1>0, <1>5, <2>1 DEF InString1, Quoted
    <2>3. AroundOK' BY <1>5, <2>1, <2>2 DEF AroundOK
    <2> QED BY <1>3, <1>5, <2>3
<1>6. ctx # << >> => OpenOK(Last(ctx)) /\ Last(ctx) = ctx[Len(ctx)] /\ Len(ctx) \in 1 .. Len(ctx)
    BY <1>0, OneClosed DEF Last
<1>7. CASE ctx # << >> /\ Last(ctx).kind = "list" /\ lex' = "elem" /\ UNCHANGED depth
           /\ ctx' = [ctx EXCEPT ![Len(ctx)].items = Append(@, val)]
    <2> DEFINE e == [ctx[Len(ctx)] EXCEPT !.items = Append(@, val)]
    <2>0. Last(ctx).kind = "list" BY <1>7
    <2>1. OpenOK(e) /\ e.kind = "list" BY <1>6, <1>7, <2>0, OpenUpdated
    <2>2. ctx' = [ctx EXCEPT ![Len(ctx)] = e] BY <1>7
    <2> HIDE DEF e
    <2> QED BY <1>5, <1>7, <2>1, <2>2 DEF InsideOf
<1>8. CASE ctx # << >> /\ Last(ctx).kind = "dotted" /\ lex' = "close" /\ UNCHANGED depth
           /\ ctx' = [ctx EXCEPT ![Len(ctx)].items = @ \o val.items,
                                 ![Len(ctx)].tail = IF val.kind = "list" THEN val.tail ELSE <<val>>]
    <2> DEFINE rest == IF val.kind = "list" THEN val.tail ELSE <<val>>
               e == [ctx[Len(ctx)] EXCEPT !.items = @ \o val.items, !.tail = rest]
    <2>1. Last(ctx).kind = "dotted" BY <1>8
    <2>2. OpenOK(e) /\ e.kind = "dotted"
        <3> DEFINE c == ctx[Len(ctx)]
                   more == c.items \o val.items
        <3>1. OpenOK(c) /\ c.kind = "dotted" BY <1>6, <1>8, <2>1
        <3>2. e = [c EXCEPT !.items = more, !.tail = rest] OBVIOUS
        <3> HIDE DEF c, more, rest
        <3>3. /\ OpenOK([c EXCEPT !.items = more, !.tail = rest])
              /\ [c EXCEPT !.items = more, !.tail = rest].kind = c.kind
            BY <3>1, OpenUpdated
        <3> HIDE DEF e
        <3> QED BY <3>1, <3>2, <3>3
    <2>3. ctx' = [ctx EXCEPT ![Len(ctx)] = e] BY <1>0, <1>6, <1>8 DEF OpenForms
    <2> HIDE DEF e
    <2> QED BY <1>5, <1>8, <2>2, <2>3 DEF InsideOf
<1>9. CASE ctx # << >> /\ Closed /\ UNCHANGED lex
    <2>1. OpenForms(ctx') /\ Len(ctx') = Len(ctx) - 1 /\ depth' = depth - 1
        BY <1>0, <1>9, OneClosed DEF Closed
    <2>2. AroundOK' BY <1>0, <1>9, <2>1 DEF AroundOK, InString1, Quoted, InsideOf
    <2>3. PlaceOK' BY <1>0, <1>1, <1>9, GoesOn DEF ReadInv, Places
    <2>4. Rank' = Rank BY <1>0, <1>2, <1>9 DEF Rank
    <2>5. Len(ctx') < Len(ctx) BY <1>0, <2>1
    <2> QED BY <1>0, <2>2, <2>3, <2>4, <2>5 DEF Step, Advances, ReadInv
<1> QED BY <1>4, <1>7, <1>8, <1>9 DEF Deliver

LEMMA ReadStepOK == ASSUME ReadInv, ReaderNext, ~UNCHANGED rvars PROVE Step
BY SkipOK, CommentOK, ElemOK, CloseOK, InnerCommentOK, TokenOK, StringOK, DeliverOK
   DEF ReaderNext, ReaderStep, Stopped

LEMMA ReadStutters == ASSUME ReadInv, UNCHANGED rvars PROVE ReadInv'
BY DEF ReadInv, PlaceOK, AroundOK, rvars, Text, AtEnd, OpenForms, InString1, Quoted, InsideOf

LEMMA ReadStarts == ReaderInit => ReadInv
<1> SUFFICES ASSUME ReaderInit PROVE ReadInv OBVIOUS
<1>1. /\ input \in Inputs /\ at = 1 /\ ctx = << >> /\ lex = "skip" /\ depth = 0 /\ lost = 0
    BY DEF ReaderInit
<1>2. Len(Text) \in Nat
    <2>1. input.first \in Seq(STRING) /\ input.rest \in Seq(STRING)
        BY <1>1, ReaderAssumption
    <2>2. ASSUME NEW S, NEW s \in Seq(S), NEW t \in Seq(S) PROVE Len(s \o t) \in Nat
        OBVIOUS
    <2> QED BY <2>1, <2>2 DEF Text
<1>3. PlaceOK BY <1>1, <1>2 DEF PlaceOK, Places
<1>4. AroundOK BY <1>1 DEF AroundOK, OpenForms, InString1, Quoted, InsideOf, ToSet
<1> QED BY <1>3, <1>4 DEF ReadInv

THEOREM ReaderInvariant == ReaderSpec => []ReadInv
<1>1. ReadInv /\ [ReaderNext]_rvars => ReadInv'
    BY ReadStepOK, ReadStutters DEF Step
<1> QED BY <1>1, ReadStarts, PTL DEF ReaderSpec

\* Of any text, however deep its forms and wherever its errors are: the depth
\* sx_read keeps is that of the forms that are open.
THEOREM ReaderTyped == ReaderSpec => []ReaderTypeOK
<1>1. ReadInv => ReaderTypeOK
    BY DEF ReadInv, PlaceOK, AroundOK, OpenForms, OpenOK, Kinds, InString1, Quoted, InsideOf, ReaderTypeOK
<1> QED BY <1>1, ReaderInvariant, PTL

\* Of any text: what ends is read to its end, and no form is open then; only a file is
\* given up, and only typed lines are read on after an error.
NoneLeftOpen ==
    /\ lex = "stop" => AtEnd /\ ctx = << >> /\ depth = 0
    /\ lex = "failed" => ~input.line
    /\ lost # 0 => input.line

THEOREM TextsReadToTheEnd == ReaderSpec => []NoneLeftOpen
<1>1. ReadInv => NoneLeftOpen
    <2> SUFFICES ASSUME ReadInv PROVE NoneLeftOpen OBVIOUS
    <2>1. lex = "stop" => depth = Len(<< >>) + 0
        BY DEF ReadInv, PlaceOK, AroundOK, InString1, Quoted
    <2> QED BY <2>1 DEF ReadInv, PlaceOK, NoneLeftOpen
<1> QED BY <1>1, ReaderInvariant, PTL

\* Of any text: the reader never goes round in circles.  Every step takes a character
\* (or drops the rest of a line), or lowers Rank, which is at most 4, or leaves
\* a quote.  So it can only stop, or wait in the one place that takes no step,
\* which ReadingEnds names.
THEOREM ReaderAdvances == ReaderSpec => [][Advances]_rvars
<1>1. ReadInv /\ [ReaderNext]_rvars => [Advances]_rvars
    BY ReadStepOK DEF Step
<1> QED BY <1>1, ReaderInvariant, PTL DEF ReaderSpec

-----------------------------------------------------------------------------
(* Both.                                                                   *)

\* A behaviour is one of the reader and one of the loader: one of them stands still.
THEOREM PartsRun == Spec => ReaderSpec /\ LoaderSpec
<1>1. Init => ReaderInit /\ LoaderInit
    BY DEF Init
<1>2. [Next]_<<part, rvars, mvars>> => [ReaderNext]_rvars /\ [LoaderNext]_mvars
    BY DEF Next
<1> QED BY <1>1, <1>2, PTL DEF Spec, ReaderSpec, LoaderSpec

\* The type of the whole state, for any texts, files, path and program.
THEOREM ReadingTyped == Spec => []ReadingTypeOK
<1>1. ReaderTypeOK /\ LoaderTypeOK => ReadingTypeOK
    BY DEF ReadingTypeOK
<1> QED BY <1>1, PartsRun, ReaderTyped, LoaderTyped, PTL

\* And the loaded modules are what LoadedOnce says.
THEOREM ReadingSafe == Spec => []LoadedModules
BY PartsRun, LoadedOnce, PTL

=============================================================================
