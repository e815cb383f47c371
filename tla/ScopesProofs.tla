---------------------------- MODULE ScopesProofs ----------------------------
(***************************************************************************)
(* Proofs about Scopes, for any number of frames, dictionaries and modules. *)
(***************************************************************************)
EXTENDS Scopes, TLAPS

ModuleIds == Modules \cup {"main", NoModule}

EnvFrames == [dict : AllDicts, module : ModuleIds, up : Nat]

Saves == [base : Nat, filling : Dicts \cup {NoDict}]

\* What the links of a stack of frames are: a module's frame is linked to the
\* global environment, any other to the frame below it.
Linked(s) ==
    /\ Len(s) >= 2 /\ s[1].up = 0 /\ s[2].up = 1
    /\ \A k \in 3 .. Len(s) : s[k].up = IF s[k].module = NoModule THEN k - 1 ELSE 2

\* The functions that will restore the frames were entered one in the other.
Ordered(p, top) ==
    /\ \A k \in 1 .. Len(p) : p[k].base \in 2 .. top
    /\ \A j, k \in 1 .. Len(p) : j <= k => p[j].base <= p[k].base

\* A dictionary that let is filling is nowhere else, and not frozen.
Apart(s, p, c) ==
    \A k \in 1 .. Len(p) : p[k].filling # NoDict =>
        /\ p[k].filling \notin c
        /\ \A j \in 1 .. Len(s) : s[j].dict # p[k].filling
        /\ \A j \in 1 .. Len(p) : j # k => p[j].filling # p[k].filling

FrameOn(s, d, m) ==
    [dict |-> d, module |-> m, up |-> IF m = NoModule THEN Len(s) ELSE 2]

Shape(s, p) ==
    /\ s \in Seq(EnvFrames) /\ p \in Seq(Saves)
    /\ Linked(s) /\ Ordered(p, Len(s))

\* The inductive invariant.
ScopesInv ==
    /\ Shape(scopes, pending)
    /\ bound \in [AllDicts -> [Syms -> Vals \cup {Unbound}]]
    /\ const \subseteq AllDicts
    /\ Apart(scopes, pending, const)

-----------------------------------------------------------------------------
(* The stack of frames.                                                    *)

\* A frame pushed on a linked stack is linked as the rule says.
LEMMA PushLinked ==
  ASSUME NEW s \in Seq(EnvFrames), Linked(s),
         NEW d \in AllDicts, NEW m \in ModuleIds
  PROVE  LET t == Append(s, FrameOn(s, d, m))
         IN  /\ t \in Seq(EnvFrames) /\ Linked(t) /\ Len(t) = Len(s) + 1
             /\ \A k \in 1 .. Len(s) : t[k] = s[k]
             /\ t[Len(t)].dict = d
<1> DEFINE f == FrameOn(s, d, m)
           t == Append(s, f)
<1>1. f \in EnvFrames /\ f.dict = d /\ f.module = m
      /\ f.up = (IF m = NoModule THEN Len(s) ELSE 2)
  BY DEF EnvFrames, FrameOn
<1>2. Len(s) \in Nat /\ Len(s) >= 2  BY DEF Linked
<1> HIDE DEF f
<1>3. /\ t \in Seq(EnvFrames) /\ Len(t) = Len(s) + 1 /\ t[Len(s) + 1] = f
      /\ \A k \in 1 .. Len(s) : t[k] = s[k]
  BY <1>1, <1>2
<1> HIDE DEF t
<1>4. Linked(t)  BY <1>1, <1>2, <1>3 DEF Linked
<1>5. t[Len(t)].dict = d  BY <1>1, <1>2, <1>3
<1> QED  BY <1>3, <1>4, <1>5 DEF t, f

\* The frames that a return or an exception leaves are linked as before.
LEMMA CutLinked ==
  ASSUME NEW s \in Seq(EnvFrames), Linked(s), NEW n \in 2 .. Len(s), NEW t,
         t = SubSeq(s, 1, n)
  PROVE  /\ t \in Seq(EnvFrames) /\ Linked(t) /\ Len(t) = n
         /\ \A k \in 1 .. n : t[k] = s[k]
<1>1. t \in Seq(EnvFrames) /\ Len(t) = n /\ \A k \in 1 .. n : t[k] = s[k]
  OBVIOUS
<1> QED  BY <1>1 DEF Linked

-----------------------------------------------------------------------------
(* Each way to change the frames.                                          *)

\* Entering a dictionary that let is not filling.
LEMMA EnterOK ==
  ASSUME ScopesInv, NEW d \in AllDicts, NEW m \in ModuleIds, Enter(d, m),
         \A k \in 1 .. Len(pending) : pending[k].filling # d
  PROVE  Shape(scopes', pending') /\ Apart(scopes', pending', const)
<1> DEFINE r == [base |-> Len(scopes), filling |-> NoDict]
<1>1. /\ scopes \in Seq(EnvFrames) /\ Linked(scopes) /\ pending \in Seq(Saves)
      /\ Ordered(pending, Len(scopes)) /\ Len(scopes) \in Nat /\ Len(pending) \in Nat
  BY DEF ScopesInv, Shape
<1>2. scopes' = Append(scopes, FrameOn(scopes, d, m))
  BY DEF Enter, Pushed, UpOf, Top, Global, FrameOn
<1>3. /\ scopes' \in Seq(EnvFrames) /\ Linked(scopes') /\ Len(scopes') = Len(scopes) + 1
      /\ \A k \in 1 .. Len(scopes) : scopes'[k] = scopes[k]
      /\ scopes'[Len(scopes')].dict = d
  <2> DEFINE t == Append(scopes, FrameOn(scopes, d, m))
  <2>1. /\ t \in Seq(EnvFrames) /\ Linked(t) /\ Len(t) = Len(scopes) + 1
        /\ \A k \in 1 .. Len(scopes) : t[k] = scopes[k]
        /\ t[Len(t)].dict = d
    BY <1>1, PushLinked
  <2>2. scopes' = t  BY <1>2
  <2> HIDE DEF t
  <2> QED  BY <2>1, <2>2
<1>4. r \in Saves /\ r.base = Len(scopes) /\ r.filling = NoDict
  BY <1>1 DEF Saves
<1>5. pending' = Append(pending, r)
  BY DEF Enter, Pending, Top
<1> HIDE DEF r
<1>6. /\ pending' \in Seq(Saves) /\ Len(pending') = Len(pending) + 1
      /\ pending'[Len(pending) + 1] = r
      /\ \A k \in 1 .. Len(pending) : pending'[k] = pending[k]
  BY <1>1, <1>4, <1>5
<1>7. Ordered(pending', Len(scopes'))
  <2>1. Len(scopes) >= 2  BY <1>1 DEF Linked
  <2>2. \A k \in 1 .. Len(pending') :
          \/ k = Len(pending) + 1 /\ pending'[k].base = Len(scopes)
          \/ /\ k \in 1 .. Len(pending) /\ pending'[k] = pending[k]
             /\ pending[k].base \in 2 .. Len(scopes)
    BY <1>1, <1>4, <1>6 DEF Ordered
  <2>3. \A k \in 1 .. Len(pending') : pending'[k].base \in 2 .. Len(scopes')
    BY <1>1, <1>3, <2>1, <2>2
  <2>4. \A j, k \in 1 .. Len(pending') : j <= k => pending'[j].base <= pending'[k].base
    BY <1>1, <1>6, <2>1, <2>2 DEF Ordered
  <2> QED  BY <2>3, <2>4 DEF Ordered
<1>8. Apart(scopes, pending, const)
  BY DEF ScopesInv
<1>9. Apart(scopes', pending', const)
  <2> SUFFICES ASSUME NEW k \in 1 .. Len(pending'), pending'[k].filling # NoDict
               PROVE  /\ pending'[k].filling \notin const
                      /\ \A j \in 1 .. Len(scopes') : scopes'[j].dict # pending'[k].filling
                      /\ \A j \in 1 .. Len(pending') :
                            j # k => pending'[j].filling # pending'[k].filling
    BY DEF Apart
  <2>1. k \in 1 .. Len(pending) /\ pending'[k] = pending[k]
    BY <1>1, <1>4, <1>6
  <2>2. pending[k].filling \notin const
    BY <1>8, <2>1 DEF Apart
  <2>3. \A j \in 1 .. Len(scopes') : scopes'[j].dict # pending'[k].filling
    BY <1>1, <1>3, <1>8, <2>1 DEF Apart
  <2>4. ASSUME NEW j \in 1 .. Len(pending'), j # k
        PROVE  pending'[j].filling # pending'[k].filling
    <3>1. CASE j = Len(pending) + 1
      BY <3>1, <1>4, <1>6
    <3>2. CASE j \in 1 .. Len(pending)
      BY <3>2, <1>6, <1>8, <2>1, <2>4 DEF Apart
    <3> QED  BY <3>1, <3>2, <1>1, <1>6
  <2> QED  BY <2>1, <2>2, <2>3, <2>4
<1> QED  BY <1>3, <1>6, <1>7, <1>9 DEF Shape

\* What is kept of the frames and of the functions that will restore them.
LEMMA CutOK ==
  ASSUME ScopesInv, NEW k \in 1 .. Len(pending),
         scopes' = SubSeq(scopes, 1, pending[k].base),
         pending' = SubSeq(pending, 1, k - 1)
  PROVE  Shape(scopes', pending') /\ Apart(scopes', pending', const)
<1>1. /\ scopes \in Seq(EnvFrames) /\ Linked(scopes) /\ pending \in Seq(Saves)
      /\ Ordered(pending, Len(scopes)) /\ Len(scopes) \in Nat /\ Len(pending) \in Nat
      /\ Apart(scopes, pending, const)
  BY DEF ScopesInv, Shape
<1>2. pending[k].base \in 2 .. Len(scopes)
  BY <1>1 DEF Ordered
<1>3. /\ scopes' \in Seq(EnvFrames) /\ Linked(scopes') /\ Len(scopes') = pending[k].base
      /\ \A j \in 1 .. pending[k].base : scopes'[j] = scopes[j]
  BY <1>1, <1>2, CutLinked
<1>4. /\ pending' \in Seq(Saves) /\ Len(pending') = k - 1
      /\ \A j \in 1 .. k - 1 : pending'[j] = pending[j]
  BY <1>1
<1>5. Ordered(pending', Len(scopes'))
  <2>1. ASSUME NEW j \in 1 .. Len(pending')
        PROVE  /\ j \in 1 .. Len(pending) /\ j <= k /\ pending'[j] = pending[j]
               /\ pending[j].base \in 2 .. Len(scopes) /\ pending[j].base <= pending[k].base
    BY <1>1, <1>4 DEF Ordered
  <2>2. \A j \in 1 .. Len(pending') : pending'[j].base \in 2 .. Len(scopes')
    BY <1>2, <1>3, <2>1
  <2>3. \A i, j \in 1 .. Len(pending') : i <= j => pending'[i].base <= pending'[j].base
    BY <1>1, <2>1 DEF Ordered
  <2> QED  BY <2>2, <2>3 DEF Ordered
<1>6. Apart(scopes', pending', const)
  BY <1>1, <1>2, <1>3, <1>4 DEF Apart
<1> QED  BY <1>3, <1>4, <1>5, <1>6 DEF Shape

\* An exception.
LEMMA UnwindingOK ==
  ASSUME ScopesInv, Unwinding
  PROVE  Shape(scopes', pending') /\ Apart(scopes', pending', const)
<1>1. CASE pending = << >>
  BY <1>1 DEF Unwinding, ScopesInv
<1>2. CASE pending # << >>
  <2>1. PICK k \in 1 .. Len(pending) :
          /\ scopes' = SubSeq(scopes, 1, pending[k].base)
          /\ pending' = SubSeq(pending, 1, k - 1)
    BY <1>2 DEF Unwinding
  <2> QED  BY <2>1, CutOK
<1> QED  BY <1>1, <1>2

\* A return.
LEMMA LeaveOK ==
  ASSUME ScopesInv, LeaveScope
  PROVE  Shape(scopes', pending') /\ Apart(scopes', pending', const)
<1>1. pending \in Seq(Saves) /\ pending # << >> /\ Len(pending) \in Nat
  BY DEF ScopesInv, Shape, LeaveScope
<1>2. Len(pending) \in 1 .. Len(pending)
  BY <1>1
<1>3. /\ scopes' = SubSeq(scopes, 1, pending[Len(pending)].base)
      /\ pending' = SubSeq(pending, 1, Len(pending) - 1)
  BY DEF LeaveScope, Last, Front
<1> QED  BY <1>2, <1>3, CutOK

\* let begins to fill a dictionary that is in use nowhere.
LEMMA LetBeginsOK ==
  ASSUME ScopesInv, NEW d \in Dicts, LetBegins(d)
  PROVE  Shape(scopes', pending') /\ Apart(scopes', pending', const')
<1> DEFINE r == [base |-> Len(scopes), filling |-> d]
<1>1. /\ scopes \in Seq(EnvFrames) /\ Linked(scopes) /\ pending \in Seq(Saves)
      /\ Ordered(pending, Len(scopes)) /\ Len(scopes) \in Nat /\ Len(pending) \in Nat
      /\ Apart(scopes, pending, const) /\ Len(scopes) >= 2
  BY DEF ScopesInv, Shape, Linked
<1>2. r \in Saves /\ r.base = Len(scopes) /\ r.filling = d
  BY <1>1 DEF Saves
<1>3. pending' = Append(pending, r) /\ scopes' = scopes /\ const' = const \ {d}
  BY DEF LetBegins, Pending, Top
<1>4. /\ \A k \in 1 .. Len(scopes) : scopes[k].dict # d
      /\ \A k \in 1 .. Len(pending) : pending[k].filling # d
  BY DEF LetBegins, InUse, Top
<1> HIDE DEF r
<1>5. /\ pending' \in Seq(Saves) /\ Len(pending') = Len(pending) + 1
      /\ pending'[Len(pending) + 1] = r
      /\ \A k \in 1 .. Len(pending) : pending'[k] = pending[k]
  BY <1>1, <1>2, <1>3
<1>6. Ordered(pending', Len(scopes'))
  <2>1. \A k \in 1 .. Len(pending') :
          \/ k = Len(pending) + 1 /\ pending'[k].base = Len(scopes)
          \/ /\ k \in 1 .. Len(pending) /\ pending'[k] = pending[k]
             /\ pending[k].base \in 2 .. Len(scopes)
    BY <1>1, <1>2, <1>5 DEF Ordered
  <2>2. \A k \in 1 .. Len(pending') : pending'[k].base \in 2 .. Len(scopes')
    BY <1>1, <1>3, <2>1
  <2>3. \A j, k \in 1 .. Len(pending') : j <= k => pending'[j].base <= pending'[k].base
    BY <1>1, <1>5, <2>1 DEF Ordered
  <2> QED  BY <2>2, <2>3 DEF Ordered
<1>7. ASSUME NEW k \in 1 .. Len(pending'), pending'[k].filling # NoDict
      PROVE  /\ pending'[k].filling \notin const'
             /\ \A j \in 1 .. Len(scopes') : scopes'[j].dict # pending'[k].filling
             /\ \A j \in 1 .. Len(pending') :
                   j # k => pending'[j].filling # pending'[k].filling
  <2>1. CASE k = Len(pending) + 1
    BY <2>1, <1>1, <1>2, <1>3, <1>4, <1>5
  <2>2. CASE k \in 1 .. Len(pending)
    <3>1. pending'[k] = pending[k]  BY <2>2, <1>5
    <3>2. /\ pending[k].filling \notin const'
          /\ \A j \in 1 .. Len(scopes') : scopes'[j].dict # pending[k].filling
      BY <2>2, <3>1, <1>1, <1>3, <1>7 DEF Apart
    <3>3. ASSUME NEW j \in 1 .. Len(pending'), j # k
          PROVE  pending'[j].filling # pending[k].filling
      <4>1. CASE j = Len(pending) + 1
        BY <4>1, <2>2, <1>2, <1>4, <1>5
      <4>2. CASE j \in 1 .. Len(pending)
        BY <4>2, <2>2, <3>1, <3>3, <1>1, <1>5, <1>7 DEF Apart
      <4> QED  BY <4>1, <4>2, <1>1, <1>5
    <3> QED  BY <3>1, <3>2, <3>3
  <2> QED  BY <2>1, <2>2, <1>1, <1>5
<1>8. Apart(scopes', pending', const')
  BY <1>7 DEF Apart
<1> QED  BY <1>1, <1>3, <1>5, <1>6, <1>8 DEF Shape

\* let enters the dictionary it has filled.
LEMMA LetBodyOK ==
  ASSUME ScopesInv, LetBody
  PROVE  Shape(scopes', pending') /\ Apart(scopes', pending', const)
<1> DEFINE n == Len(pending)
           d == pending[n].filling
           r == [pending[n] EXCEPT !.filling = NoDict]
<1>1. /\ scopes \in Seq(EnvFrames) /\ Linked(scopes) /\ pending \in Seq(Saves)
      /\ Ordered(pending, Len(scopes)) /\ Len(scopes) \in Nat /\ n \in Nat
      /\ Apart(scopes, pending, const) /\ Len(scopes) >= 2
  BY DEF ScopesInv, Shape, Linked
<1>2. pending # << >> /\ Filling = d /\ d # NoDict
  BY DEF LetBody, Filling, Last
<1>3. n \in 1 .. n /\ pending[n] \in Saves
  BY <1>1, <1>2
<1>4. /\ r \in Saves /\ r.base = pending[n].base /\ r.filling = NoDict
      /\ d \in Dicts /\ d \in AllDicts
  BY <1>2, <1>3 DEF Saves, AllDicts
<1>5. scopes' = Append(scopes, FrameOn(scopes, d, NoModule))
  BY <1>2 DEF LetBody, Pushed, UpOf, Top, FrameOn
<1>6. pending' = [pending EXCEPT ![n] = r]
  BY DEF LetBody
<1> HIDE DEF r
<1>7. /\ pending' \in Seq(Saves) /\ Len(pending') = n /\ pending'[n] = r
      /\ \A k \in 1 .. n - 1 : pending'[k] = pending[k]
  BY <1>1, <1>3, <1>4, <1>6
<1>8. /\ scopes' \in Seq(EnvFrames) /\ Linked(scopes') /\ Len(scopes') = Len(scopes) + 1
      /\ \A k \in 1 .. Len(scopes) : scopes'[k] = scopes[k]
      /\ scopes'[Len(scopes) + 1].dict = d
  <2> DEFINE t == Append(scopes, FrameOn(scopes, d, NoModule))
  <2>0. NoModule \in ModuleIds  BY DEF ModuleIds
  <2> HIDE DEF d
  <2>1. /\ t \in Seq(EnvFrames) /\ Linked(t) /\ Len(t) = Len(scopes) + 1
        /\ \A k \in 1 .. Len(scopes) : t[k] = scopes[k]
        /\ t[Len(t)].dict = d
    BY <1>1, <1>4, <2>0, PushLinked
  <2>2. scopes' = t  BY <1>5
  <2> HIDE DEF t
  <2> QED  BY <2>1, <2>2
<1>9. Ordered(pending', Len(scopes'))
  <2>1. ASSUME NEW k \in 1 .. n
        PROVE  pending'[k].base = pending[k].base /\ pending[k].base \in 2 .. Len(scopes)
    <3>1. k = n \/ k \in 1 .. n - 1  BY <1>1
    <3> QED  BY <3>1, <1>1, <1>4, <1>7 DEF Ordered
  <2>2. \A j, k \in 1 .. n : j <= k => pending[j].base <= pending[k].base
    BY <1>1 DEF Ordered
  <2>3. \A k \in 1 .. n : pending'[k].base \in 2 .. Len(scopes')
    BY <2>1, <1>1, <1>8
  <2>4. \A j, k \in 1 .. n : j <= k => pending'[j].base <= pending'[k].base
    BY <2>1, <2>2
  <2> HIDE DEF n
  <2>5. Len(pending') = n  BY <1>7
  <2> QED  BY <2>3, <2>4, <2>5 DEF Ordered
<1>10. ASSUME NEW k \in 1 .. Len(pending'), pending'[k].filling # NoDict
       PROVE  /\ pending'[k].filling \notin const
              /\ \A j \in 1 .. Len(scopes') : scopes'[j].dict # pending'[k].filling
              /\ \A j \in 1 .. Len(pending') :
                    j # k => pending'[j].filling # pending'[k].filling
  <2>1. k \in 1 .. n - 1 /\ pending'[k] = pending[k] /\ k \in 1 .. n /\ k # n
    BY <1>1, <1>4, <1>7, <1>10
  <2>2. /\ pending[k].filling \notin const
        /\ \A j \in 1 .. Len(scopes) : scopes[j].dict # pending[k].filling
        /\ \A j \in 1 .. n : j # k => pending[j].filling # pending[k].filling
    BY <2>1, <1>1, <1>10 DEF Apart
  <2>3. d # pending[k].filling
    BY <2>1, <2>2, <1>3
  <2>4. ASSUME NEW j \in 1 .. Len(scopes')  PROVE scopes'[j].dict # pending[k].filling
    <3>1. j = Len(scopes) + 1 \/ j \in 1 .. Len(scopes)  BY <1>1, <1>8
    <3> QED  BY <3>1, <1>8, <2>2, <2>3
  <2>5. ASSUME NEW j \in 1 .. Len(pending'), j # k
        PROVE  pending'[j].filling # pending[k].filling
    <3>1. CASE j = n
      BY <3>1, <1>4, <1>7, <1>10, <2>1
    <3>2. CASE j # n
      <4>1. j \in 1 .. n - 1 /\ j \in 1 .. n  BY <3>2, <1>1, <1>7
      <4> QED  BY <4>1, <1>7, <2>2, <2>5
    <3> QED  BY <3>1, <3>2
  <2> QED  BY <2>1, <2>2, <2>4, <2>5
<1>11. Apart(scopes', pending', const)
  BY <1>10 DEF Apart
<1> QED  BY <1>7, <1>8, <1>9, <1>11 DEF Shape

-----------------------------------------------------------------------------
(* The invariant, and what it means.                                       *)

Bindings == [AllDicts -> [Syms -> Vals \cup {Unbound}]]

\* A step keeps the invariant, and keeps what was and remains frozen.
Kept == ScopesInv' /\ \A d \in const \cap const' : bound'[d] = bound[d]

\* Frames as the lemmas above have left them, and well-typed bindings.
LEMMA KeptBy ==
  ASSUME ScopesInv, Shape(scopes', pending'), Apart(scopes', pending', const'),
         bound' \in Bindings, const' \subseteq AllDicts,
         \A d \in const \cap const' : bound'[d] = bound[d]
  PROVE  Kept
BY DEF Kept, ScopesInv, Bindings

\* Less is frozen.
LEMMA LessApart ==
  ASSUME NEW s, NEW p, NEW b, NEW c, b \subseteq c, Apart(s, p, c)
  PROVE  Apart(s, p, b)
BY DEF Apart

LEMMA RaiseKept ==
  ASSUME ScopesInv, RaiseScope
  PROVE  Kept
<1>1. Unwinding /\ bound' = bound /\ const' = const  BY DEF RaiseScope
<1>2. Shape(scopes', pending') /\ Apart(scopes', pending', const)  BY <1>1, UnwindingOK
<1> QED  BY <1>1, <1>2, KeptBy DEF ScopesInv, Bindings

\* Binding or unbinding a name in a dictionary that some frame has.
LEMMA BindKept ==
  ASSUME ScopesInv, NEW d \in AllDicts, NEW s \in Syms, NEW v \in Vals \cup {Unbound},
         BindIn(d, s, v)
  PROVE  Kept
<1>1. CASE d \in const
  BY <1>1, RaiseKept DEF BindIn
<1>2. CASE d \notin const
  <2>1. /\ bound' = [bound EXCEPT ![d][s] = v]
        /\ scopes' = scopes /\ const' = const /\ pending' = pending
    BY <1>2 DEF BindIn
  <2>2. bound \in Bindings  BY DEF ScopesInv, Bindings
  <2>3. bound' \in Bindings  BY <2>1, <2>2 DEF Bindings
  <2>4. \A e \in const \cap const' : bound'[e] = bound[e]
    BY <1>2, <2>1, <2>2 DEF Bindings, ScopesInv
  <2> QED  BY <2>1, <2>3, <2>4, KeptBy DEF ScopesInv
<1> QED  BY <1>1, <1>2

\* A dictionary that is nowhere in use gets other bindings.
LEMMA FreshKept ==
  ASSUME ScopesInv, NEW d \in Dicts, NEW b \in [Syms -> Vals \cup {Unbound}],
         Shape(scopes', pending'), Apart(scopes', pending', const'),
         bound' = [bound EXCEPT ![d] = b], const' = const \ {d}
  PROVE  Kept
<1>1. bound \in Bindings /\ const \subseteq AllDicts  BY DEF ScopesInv, Bindings
<1>2. bound' \in Bindings  BY <1>1 DEF Bindings
<1>3. \A e \in const \cap const' : bound'[e] = bound[e]  BY <1>1 DEF Bindings
<1> QED  BY <1>1, <1>2, <1>3, KeptBy

\* The same when it is entered at once.
LEMMA EnterFreshKept ==
  ASSUME ScopesInv, NEW d \in Dicts \ InUse, NEW b \in [Syms -> Vals \cup {Unbound}],
         Enter(d, NoModule), bound' = [bound EXCEPT ![d] = b], const' = const \ {d}
  PROVE  Kept
<1>1. \A k \in 1 .. Len(pending) : pending[k].filling # d  BY DEF InUse
<1>2. d \in AllDicts /\ NoModule \in ModuleIds  BY DEF AllDicts, ModuleIds
<1>3. Shape(scopes', pending') /\ Apart(scopes', pending', const)
  BY <1>1, <1>2, EnterOK
<1>4. Apart(scopes', pending', const')  BY <1>3, LessApart
<1> QED  BY <1>3, <1>4, FreshKept

\* A dictionary that let is not filling is entered.
LEMMA EnterKept ==
  ASSUME ScopesInv, NEW d \in AllDicts, NEW m \in ModuleIds, Enter(d, m),
         \A k \in 1 .. Len(pending) : pending[k].filling # d,
         bound' = bound, const' = const
  PROVE  Kept
<1>1. Shape(scopes', pending') /\ Apart(scopes', pending', const)  BY EnterOK
<1> QED  BY <1>1, KeptBy DEF ScopesInv, Bindings

\* The dictionaries of frames are known, and are not being filled.
LEMMA InFrame ==
  ASSUME ScopesInv, NEW k \in 1 .. Len(scopes)
  PROVE  /\ scopes[k].dict \in AllDicts /\ scopes[k].module \in ModuleIds
         /\ \A j \in 1 .. Len(pending) : pending[j].filling # scopes[k].dict
<1>1. scopes \in Seq(EnvFrames) /\ pending \in Seq(Saves)  BY DEF ScopesInv, Shape
<1>2. scopes[k] \in EnvFrames  BY <1>1
<1>3. \A j \in 1 .. Len(pending) : pending[j].filling # NoDict =>
          pending[j].filling # scopes[k].dict
  BY DEF ScopesInv, Apart
<1>4. NoDict \notin AllDicts  BY ScopesAssumption DEF NoDict, AllDicts
<1>5. scopes[k].dict \in AllDicts /\ scopes[k].module \in ModuleIds  BY <1>2 DEF EnvFrames
<1> QED  BY <1>3, <1>4, <1>5

\* The current frame, and the one above it in a search.
LEMMA UpFrame ==
  ASSUME ScopesInv
  PROVE  /\ Top \in 1 .. Len(scopes)
         /\ scopes[Top].up \in 0 .. Len(scopes)
<1>1. scopes \in Seq(EnvFrames) /\ Linked(scopes) /\ Len(scopes) \in Nat
  BY DEF ScopesInv, Shape
<1> QED  BY <1>1 DEF Linked, Top

\* Every step of the program.
LEMMA StepKept ==
  ASSUME ScopesInv, ScopesNext
  PROVE  Kept
<1>1. /\ scopes \in Seq(EnvFrames) /\ Len(scopes) \in Nat /\ Top = Len(scopes)
      /\ Top \in 1 .. Len(scopes) /\ scopes[Top].up \in 0 .. Len(scopes)
      /\ bound \in Bindings /\ const \subseteq AllDicts
  BY UpFrame DEF ScopesInv, Shape, Top, Bindings
<1>2. Empty \in [Syms -> Vals \cup {Unbound}]  BY DEF Empty
<1>3. ASSUME NEW d \in Dicts, NEW s \in Syms, NEW v \in Vals, CallLambda(d, s, v)
      PROVE  Kept
  <2>1. [Empty EXCEPT ![s] = v] \in [Syms -> Vals \cup {Unbound}]  BY <1>2
  <2> QED  BY <1>3, <2>1, EnterFreshKept DEF CallLambda
<1>4. ASSUME NEW d \in Dicts, LetStar(d)  PROVE Kept
  BY <1>2, <1>4, EnterFreshKept DEF LetStar
<1>5. ASSUME NEW d \in Dicts, LetBegins(d)  PROVE Kept
  <2>1. Shape(scopes', pending') /\ Apart(scopes', pending', const')
    BY <1>5, LetBeginsOK
  <2> QED  BY <1>2, <1>5, <2>1, FreshKept DEF LetBegins
<1>6. ASSUME NEW d \in AllDicts, EnterDict(d)  PROVE Kept
  <2>1. NoModule \in ModuleIds  BY DEF ModuleIds
  <2> QED  BY <1>6, <2>1, EnterKept DEF EnterDict
<1>7. ASSUME NEW m \in Modules \cup {"main"}, EnterModule(m)  PROVE Kept
  <2>1. m \in AllDicts /\ m \in ModuleIds  BY DEF AllDicts, ModuleIds
  <2>2. m \notin Dicts /\ m # NoDict  BY ScopesAssumption DEF NoDict
  <2>3. \A k \in 1 .. Len(pending) : pending[k] \in Saves
    BY DEF ScopesInv, Shape
  <2>4. \A k \in 1 .. Len(pending) : pending[k].filling # m
    BY <2>2, <2>3 DEF Saves
  <2> QED  BY <1>7, <2>1, <2>4, EnterKept DEF EnterModule
<1>8. ASSUME NEW s \in Syms, NEW v \in Vals, LetBinds(s, v)  PROVE Kept
  <2>1. /\ Filling # NoDict /\ bound' = [bound EXCEPT ![Filling][s] = v]
        /\ scopes' = scopes /\ const' = const /\ pending' = pending
    BY <1>8 DEF LetBinds
  <2>2. pending \in Seq(Saves) /\ Apart(scopes, pending, const)
    BY DEF ScopesInv, Shape
  <2>3. /\ Len(pending) \in 1 .. Len(pending) /\ Filling = pending[Len(pending)].filling
    BY <2>1, <2>2 DEF Filling, Last
  <2>4. Filling \notin const  BY <2>1, <2>2, <2>3 DEF Apart
  <2>5. bound' \in Bindings  BY <1>1, <2>1 DEF Bindings
  <2>6. \A e \in const \cap const' : bound'[e] = bound[e]
    BY <1>1, <2>1, <2>4 DEF Bindings
  <2> QED  BY <1>1, <2>1, <2>5, <2>6, KeptBy DEF ScopesInv
<1>9. ASSUME NEW s \in Syms, NEW v \in Vals, Setq(s, v)  PROVE Kept
  BY <1>1, <1>9, InFrame, BindKept DEF Setq, Current
<1>10. ASSUME NEW s \in Syms, Unsetq(s)  PROVE Kept
  BY <1>1, <1>10, InFrame, BindKept DEF Unsetq, Current
<1>11. ASSUME NEW s \in Syms, NEW v \in Vals, SetqUp(s, v)  PROVE Kept
  <2>1. CASE scopes[Top].up = 0
    BY <1>11, <2>1, RaiseKept DEF SetqUp
  <2>2. CASE scopes[Top].up # 0
    <3>1. scopes[Top].up \in 1 .. Len(scopes)  BY <1>1, <2>2
    <3>2. scopes[scopes[Top].up].dict \in AllDicts  BY <3>1, InFrame
    <3>3. BindIn(scopes[scopes[Top].up].dict, s, v)  BY <1>11, <2>2 DEF SetqUp
    <3> QED  BY <3>2, <3>3, BindKept
  <2> QED  BY <2>1, <2>2
<1>12. ASSUME LetBody  PROVE Kept
  <2>1. Shape(scopes', pending') /\ Apart(scopes', pending', const)
    BY <1>12, LetBodyOK
  <2> QED  BY <1>1, <1>12, <2>1, KeptBy DEF LetBody
<1>13. ASSUME PrognUp  PROVE Kept
  <2>1. CASE scopes[Top].up = 0
    BY <1>13, <2>1, RaiseKept DEF PrognUp
  <2>2. CASE scopes[Top].up # 0
    <3> DEFINE e == scopes[Top].up
    <3>1. e \in 1 .. Len(scopes)  BY <1>1, <2>2
    <3>2. Enter(scopes[e].dict, scopes[e].module) /\ bound' = bound /\ const' = const
      BY <1>13, <2>2 DEF PrognUp
    <3> HIDE DEF e
    <3> QED  BY <3>1, <3>2, InFrame, EnterKept
  <2> QED  BY <2>1, <2>2
<1>14. ASSUME FreezeScope  PROVE Kept
  <2>1. /\ const' = const \cup {Current}
        /\ scopes' = scopes /\ bound' = bound /\ pending' = pending
    BY <1>14 DEF FreezeScope
  <2>2. /\ Current \in AllDicts
        /\ \A j \in 1 .. Len(pending) : pending[j].filling # Current
    BY <1>1, InFrame DEF Current
  <2>3. Apart(scopes, pending, const) /\ Shape(scopes, pending)  BY DEF ScopesInv
  <2>4. Apart(scopes', pending', const')  BY <2>1, <2>2, <2>3 DEF Apart
  <2> QED  BY <1>1, <2>1, <2>2, <2>3, <2>4, KeptBy
<1>15. ASSUME LeaveScope  PROVE Kept
  <2>1. Shape(scopes', pending') /\ Apart(scopes', pending', const)
    BY <1>15, LeaveOK
  <2> QED  BY <1>1, <1>15, <2>1, KeptBy DEF LeaveScope
<1>16. ASSUME RaiseScope  PROVE Kept
  BY <1>16, RaiseKept
<1> QED
  BY <1>3, <1>4, <1>5, <1>6, <1>7, <1>8, <1>9, <1>10, <1>11, <1>12, <1>13, <1>14,
     <1>15, <1>16
  DEF ScopesNext

\* main's frame and the global one are there from the start.
LEMMA InitInv ==
  ASSUME ScopesInit
  PROVE  ScopesInv
<1>1. /\ scopes = << [dict |-> "main", module |-> "main", up |-> 0],
                     [dict |-> "global", module |-> NoModule, up |-> 1] >>
      /\ pending = << >> /\ const = {"main"} /\ bound = [d \in AllDicts |-> Empty]
  BY DEF ScopesInit
<1>2. /\ [dict |-> "main", module |-> "main", up |-> 0] \in EnvFrames
      /\ [dict |-> "global", module |-> NoModule, up |-> 1] \in EnvFrames
  BY DEF EnvFrames, AllDicts, ModuleIds
<1>3. /\ scopes \in Seq(EnvFrames) /\ Len(scopes) = 2
      /\ scopes[1].up = 0 /\ scopes[2].up = 1
  BY <1>1, <1>2
<1>4. Linked(scopes)  BY <1>3 DEF Linked
<1>5. pending \in Seq(Saves) /\ Len(pending) = 0  BY <1>1
<1>6. Ordered(pending, Len(scopes)) /\ Apart(scopes, pending, const)
  BY <1>5 DEF Ordered, Apart
<1>7. bound \in Bindings /\ const \subseteq AllDicts
  BY <1>1 DEF Bindings, Empty, AllDicts
<1> QED  BY <1>3, <1>4, <1>5, <1>6, <1>7 DEF ScopesInv, Shape, Bindings

\* Whatever is entered, bound, left and raised in whatever order, the frames are
\* linked as the rule says and what let fills is out of reach.
THEOREM ScopesInvariance == ScopesSpec => []ScopesInv
<1>1. ScopesInit => ScopesInv  BY InitInv
<1>2. ScopesInv /\ [ScopesNext]_evars => ScopesInv'
  <2>1. ASSUME ScopesInv, ScopesNext  PROVE ScopesInv'
    BY <2>1, StepKept DEF Kept
  <2>2. ASSUME ScopesInv, UNCHANGED evars  PROVE ScopesInv'
    BY <2>2 DEF evars, ScopesInv, Shape, Linked, Ordered, Apart
  <2> QED  BY <2>1, <2>2
<1> QED  BY <1>1, <1>2, PTL DEF ScopesSpec

\* The type of the state, and that every search through the frames ends.
THEOREM ScopesTyped == ScopesSpec => []ScopesTypeOK
<1>1. ScopesInv => ScopesTypeOK
  <2> SUFFICES ASSUME ScopesInv  PROVE ScopesTypeOK
    OBVIOUS
  <2>1. /\ scopes \in Seq(EnvFrames) /\ pending \in Seq(Saves) /\ Linked(scopes)
        /\ Ordered(pending, Len(scopes)) /\ Top = Len(scopes) /\ Len(scopes) \in Nat
    BY DEF ScopesInv, Shape, Top
  <2>2. ASSUME NEW k \in 1 .. Top
        PROVE  /\ scopes[k].dict \in AllDicts
               /\ scopes[k].module \in Modules \cup {"main", NoModule}
               /\ scopes[k].up \in 0 .. k - 1
    <3>1. scopes[k] \in EnvFrames  BY <2>1
    <3>2. scopes[k].up \in 0 .. k - 1
      <4>1. k = 1 \/ k = 2 \/ k \in 3 .. Len(scopes)  BY <2>1
      <4> QED  BY <4>1, <2>1 DEF Linked
    <3> QED  BY <3>1, <3>2 DEF EnvFrames, ModuleIds
  <2>3. \A k \in 1 .. Len(pending) : pending[k].base \in 2 .. Top
    BY <2>1 DEF Ordered
  <2> QED  BY <2>2, <2>3 DEF ScopesInv, ScopesTypeOK
<1> QED  BY <1>1, ScopesInvariance, PTL

\* Code of a module never sees a name of the functions that called into it.
THEOREM ModulesHide == ScopesSpec => []ModuleHides
<1>1. ScopesInv => ModuleHides
  <2> SUFFICES ASSUME ScopesInv, NEW m \in 3 .. Top, scopes[m].module # NoModule
               PROVE  \E S \in SUBSET (1 .. Top) : SearchIn(S) /\ S \cap (3 .. m - 1) = {}
    BY DEF ModuleHides
  <2> DEFINE S == {1, 2} \cup (m .. Top)
  <2>1. Linked(scopes) /\ Top = Len(scopes) /\ Top \in Nat
    BY DEF ScopesInv, Shape, Top
  <2>2. S \in SUBSET (1 .. Top) /\ S \cap (3 .. m - 1) = {} /\ Top \in S
    BY <2>1
  <2>3. ASSUME NEW k \in S  PROVE scopes[k].up \in S \cup {0}
    <3>1. CASE k = 1  BY <3>1, <2>1 DEF Linked
    <3>2. CASE k = 2  BY <3>2, <2>1 DEF Linked
    <3>3. CASE k \in m .. Top
      <4>1. scopes[k].up = IF scopes[k].module = NoModule THEN k - 1 ELSE 2
        BY <3>3, <2>1 DEF Linked
      <4> QED  BY <3>3, <4>1, <2>1
    <3> QED  BY <3>1, <3>2, <3>3
  <2> HIDE DEF S
  <2> QED  BY <2>2, <2>3 DEF SearchIn
<1> QED  BY <1>1, ScopesInvariance, PTL

\* No way of binding or unbinding changes a frozen dictionary.
THEOREM ConstantsAreKept == ScopesSpec => ConstantsKept
<1>1. ScopesInv /\ [ScopesNext]_evars
        => [ \A d \in const \cap const' : bound'[d] = bound[d] ]_evars
  <2>1. ASSUME ScopesInv, ScopesNext
        PROVE  \A d \in const \cap const' : bound'[d] = bound[d]
    BY <2>1, StepKept DEF Kept
  <2> QED  BY <2>1
<1> QED  BY <1>1, ScopesInvariance, PTL DEF ScopesSpec, ConstantsKept

=============================================================================
