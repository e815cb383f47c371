--------------------------- MODULE VmStackProofs ---------------------------
(***************************************************************************)
(* Proofs about VmStack.  First the VM primitives: what each keeps true of *)
(* one struct vm (VmOK).  Then how the frame stack and the C stack fit     *)
(* together (Layout), which every exit from a call must restore.           *)
(* Last which frames each activation has, exactly (Tidy), and who handles  *)
(* an exception.                                                           *)
(***************************************************************************)
EXTENDS VmStack, FiniteSetTheorems, SequenceTheorems, WellFoundedInduction,
        TLAPS

Owned(v) == {i \in DOMAIN v.frames : v.frames[i].type = "MEM" /\ v.frames[i].data}

\* What every VM primitive preserves.
VmOK(v) ==
    /\ v \in Vms
    /\ Linked(v)
    /\ v.bufs = Cardinality(Owned(v))
    /\ \A i \in DOMAIN v.frames :
           v.frames[i].type \in JumpTypes => v.frames[i].save.fp = i

\* The frames of w are those of v and one more.
OneMore(v, w, t, save) ==
    LET n == Len(v.frames)
    IN  /\ DOMAIN w.frames = 1 .. n + 1
        /\ Len(w.frames) = n + 1
        /\ \A i \in 1 .. n : w.frames[i] = v.frames[i]
        /\ w.frames[n + 1].type = t /\ w.frames[n + 1].save = save
        /\ w.sp = v.sp /\ w.except_lvl = v.except_lvl

Shape(w) ==
    /\ w \in Vms
    /\ Linked(w)
    /\ \A i \in DOMAIN w.frames :
           w.frames[i].type \in JumpTypes => w.frames[i].save.fp = i

-----------------------------------------------------------------------------
(* Least elements.                                                         *)

\* Every nonempty set of naturals has a least element.
LEMMA LeastElement ==
  ASSUME NEW T \in SUBSET Nat, T # {}
  PROVE  \E x \in T : \A y \in T : x <= y
<1> DEFINE R == {ss \in Nat \X Nat : ss[1] < ss[2]}
<1>1. IsWellFoundedOn(R, Nat)
  BY NatLessThanWellFounded DEF OpToRel
<1> HIDE DEF R
<1>2. PICK x \in T : \A y \in T : ~(<<y, x>> \in R)
  BY <1>1, WFMin
<1>3. ASSUME NEW y \in T, y < x  PROVE FALSE
  <2>1. <<y, x>> \in R  BY <1>3 DEF R
  <2> QED  BY <2>1, <1>2
<1> QED  BY <1>3, SMT

-----------------------------------------------------------------------------
(* The VM primitives.                                                      *)

\* Pushing a frame: the new frame heads its type's chain.
LEMMA PushOK ==
  ASSUME NEW v, VmOK(v), NEW t \in FrameTypes, NEW save \in Saves,
         NEW data \in BOOLEAN,
         t \in JumpTypes => save.fp = Len(v.frames) + 1
  PROVE  LET w == PushRecord(v, t, save, data)
         IN  /\ Shape(w) /\ OneMore(v, w, t, save)
             /\ w.frames[Len(v.frames) + 1].data = data /\ w.bufs = v.bufs
<1> DEFINE w == PushRecord(v, t, save, data)
           n == Len(v.frames)
           r == [type |-> t, type_prev |-> v.type_fp[t],
                 save |-> save, data |-> data]
<1>1. /\ v \in Vms /\ v.frames \in Seq(Frames) /\ n \in Nat
      /\ v.type_fp \in [FrameTypes -> Nat] /\ r \in Frames
      /\ DOMAIN v.frames = 1 .. n
  BY DEF VmOK, Vms, Frames
<1>2. /\ w.frames = Append(v.frames, r) /\ w \in Vms
      /\ w.type_fp = [v.type_fp EXCEPT ![t] = n + 1]
      /\ w.sp = v.sp /\ w.except_lvl = v.except_lvl
      /\ w.debug_lvl = v.debug_lvl /\ w.bufs = v.bufs
  <2>1. w = [v EXCEPT !.frames = Append(v.frames, r),
                      !.type_fp = [v.type_fp EXCEPT ![t] = n + 1]]
    BY DEF PushRecord
  <2>2. /\ Append(v.frames, r) \in Seq(Frames)
        /\ [v.type_fp EXCEPT ![t] = n + 1] \in [FrameTypes -> Nat]
    BY <1>1
  <2> HIDE DEF w, r, n
  <2> QED  BY <1>1, <2>1, <2>2 DEF Vms
<1>3. /\ Len(w.frames) = n + 1 /\ DOMAIN w.frames = 1 .. n + 1
      /\ \A i \in 1 .. n : w.frames[i] = v.frames[i]
      /\ w.frames[n + 1] = r
  BY <1>1, <1>2
<1>4. \A i \in DOMAIN w.frames :
          w.frames[i].type \in JumpTypes => w.frames[i].save.fp = i
  BY <1>1, <1>3 DEF VmOK
<1>5. ASSUME NEW u \in FrameTypes
      PROVE  FramesOf(w, u) = FramesOf(v, u) \cup (IF u = t THEN {n + 1} ELSE {})
  BY <1>1, <1>3 DEF FramesOf
<1>6. Linked(w)
  <2>1. ASSUME NEW u \in FrameTypes
        PROVE  TopmostBelow(w, u, Len(w.frames) + 1, w.type_fp[u])
    BY <1>1, <1>2, <1>3, <1>5 DEF VmOK, Linked, TopmostBelow, FramesOf
  <2>2. ASSUME NEW i \in DOMAIN w.frames
        PROVE  TopmostBelow(w, w.frames[i].type, i, w.frames[i].type_prev)
    <3>1. CASE i = n + 1
      BY <3>1, <1>1, <1>3, <1>5 DEF VmOK, Linked, TopmostBelow, FramesOf
    <3>2. CASE i \in 1 .. n
      <4>1. w.frames[i] = v.frames[i] /\ v.frames[i] \in Frames
        BY <3>2, <1>1, <1>3
      <4>2. v.frames[i].type \in FrameTypes /\ v.frames[i].type_prev \in Nat
        BY <4>1 DEF Frames
      <4>3. TopmostBelow(v, v.frames[i].type, i, v.frames[i].type_prev)
        BY <3>2, <1>1 DEF VmOK, Linked
      <4> HIDE DEF w, r
      <4> QED  BY <3>2, <1>1, <4>1, <4>2, <4>3, <1>5 DEF TopmostBelow
    <3>3. i \in 1 .. n + 1  BY <1>3
    <3>4. i = n + 1 \/ i \in 1 .. n  BY <3>3, <1>1
    <3> QED  BY <3>1, <3>2, <3>4
  <2> QED  BY <2>1, <2>2 DEF Linked
<1> QED  BY <1>2, <1>3, <1>4, <1>6 DEF Shape, OneMore

\* Owned buffers are counted by a natural number.
LEMMA OwnedFinite ==
  ASSUME NEW v, v \in Vms
  PROVE  IsFiniteSet(Owned(v)) /\ Cardinality(Owned(v)) \in Nat
<1>1. /\ v.frames \in Seq(Frames) /\ Len(v.frames) \in Nat
      /\ DOMAIN v.frames = 1 .. Len(v.frames)
  BY DEF Vms
<1>2. IsFiniteSet(1 .. Len(v.frames))
  BY <1>1, FS_Interval
<1>3. Owned(v) \subseteq 1 .. Len(v.frames)
  BY <1>1 DEF Owned
<1> QED  BY <1>2, <1>3, FS_Subset, FS_CardinalityType

\* Only the frames, their chains and the buffers matter to VmOK.
LEMMA SameFramesOK ==
  ASSUME NEW v, VmOK(v), NEW w \in Vms,
         w.frames = v.frames, w.type_fp = v.type_fp, w.bufs = v.bufs
  PROVE  VmOK(w)
BY DEF VmOK, Linked, TopmostBelow, FramesOf, Owned

\* frame_push, frame_longjmp_push: a frame without a buffer.
LEMMA PushPlainOK ==
  ASSUME NEW v, VmOK(v), NEW t \in FrameTypes, NEW save \in Saves,
         t \in JumpTypes => save.fp = Len(v.frames) + 1
  PROVE  LET w == PushRecord(v, t, save, FALSE)
         IN  VmOK(w) /\ OneMore(v, w, t, save)
<1> DEFINE w == PushRecord(v, t, save, FALSE)
           n == Len(v.frames)
<1>1. v \in Vms /\ n \in Nat /\ DOMAIN v.frames = 1 .. n
  BY DEF VmOK, Vms
<1>2. /\ Shape(w) /\ OneMore(v, w, t, save)
      /\ w.frames[n + 1].data = FALSE /\ w.bufs = v.bufs
  BY PushOK, Zenon
<1> HIDE DEF w
<1>3. Owned(w) = Owned(v)
  BY <1>1, <1>2 DEF Owned, OneMore
<1>4. VmOK(w)
  BY <1>2, <1>3 DEF VmOK, Shape
<1> QED  BY <1>2, <1>4 DEF w

\* ebuf_push: the new frame owns one buffer more.
LEMMA EbufPushOK ==
  ASSUME NEW v, VmOK(v)
  PROVE  LET w == ebuf_push(v)
         IN  VmOK(w) /\ OneMore(v, w, "MEM", NoSave)
<1> DEFINE u == PushRecord(v, "MEM", NoSave, TRUE)
           w == ebuf_push(v)
           n == Len(v.frames)
<1>1. v \in Vms /\ n \in Nat /\ DOMAIN v.frames = 1 .. n
  BY DEF VmOK, Vms
<1>2. /\ Shape(u) /\ OneMore(v, u, "MEM", NoSave)
      /\ u.frames[n + 1].data = TRUE /\ u.bufs = v.bufs
  <2>1. "MEM" \in FrameTypes /\ "MEM" \notin JumpTypes /\ NoSave \in Saves
    BY DEF FrameTypes, JumpTypes, NoSave, Saves
  <2> QED  BY <2>1, PushOK, Zenon
<1>3. w = [u EXCEPT !.bufs = u.bufs + 1]
  BY DEF ebuf_push
<1> HIDE DEF u, w
<1>4. /\ w \in Vms /\ w.frames = u.frames /\ w.type_fp = u.type_fp
      /\ w.bufs = v.bufs + 1 /\ w.sp = u.sp /\ w.except_lvl = u.except_lvl
      /\ w.debug_lvl = u.debug_lvl
  <2>1. u \in Vms  BY <1>2 DEF Shape
  <2>2. w \in Vms /\ w.bufs = u.bufs + 1 /\ w = [u EXCEPT !.bufs = u.bufs + 1]
    BY <2>1, <1>3 DEF Vms
  <2>3. v.bufs = u.bufs  BY <1>2
  <2> QED  BY <2>1, <2>2, <2>3 DEF Vms
<1>5. Shape(w) /\ OneMore(v, w, "MEM", NoSave)
  <2>1. Linked(w)
    BY <1>2, <1>4 DEF Shape, Linked, TopmostBelow, FramesOf
  <2>2. OneMore(v, w, "MEM", NoSave)
    BY <1>2, <1>4 DEF OneMore
  <2> QED  BY <2>1, <2>2, <1>2, <1>4 DEF Shape
<1>6. Owned(w) = Owned(v) \cup {n + 1} /\ n + 1 \notin Owned(v)
  BY <1>1, <1>2, <1>4, SMTT(30) DEF Owned, OneMore
<1>7. Cardinality(Owned(w)) = Cardinality(Owned(v)) + 1
  BY <1>1, <1>6, OwnedFinite, FS_AddElement
<1>8. VmOK(w)
  BY <1>4, <1>5, <1>7 DEF VmOK, Shape
<1> QED  BY <1>5, <1>8 DEF w

\* w is v with only its lowest n frames.
Cut(v, w, n) ==
    /\ Len(w.frames) = n /\ DOMAIN w.frames = 1 .. n
    /\ \A i \in 1 .. n : w.frames[i] = v.frames[i]
    /\ w.except_lvl = IF Popped(v, n, "EXCEPT") = {} THEN v.except_lvl ELSE 0

\* After frame_unwind every type's chain starts at its topmost frame left.
LEMMA UnwindChain ==
  ASSUME NEW v, VmOK(v), NEW n \in 0 .. Len(v.frames), NEW t \in FrameTypes
  PROVE  TopmostBelow(v, t, n + 1, UnwoundChain(v, n, t))
<1> DEFINE P == Popped(v, n, t)
<1>1. /\ v \in Vms /\ Len(v.frames) \in Nat
      /\ v.frames \in Seq(Frames) /\ DOMAIN v.frames = 1 .. Len(v.frames)
  BY DEF VmOK, Vms
<1>2. P \in SUBSET Nat /\ P = {i \in FramesOf(v, t) : i > n}
  BY <1>1 DEF Popped, FramesOf
<1>3. UnwoundChain(v, n, t) =
         IF P = {} THEN v.type_fp[t]
          ELSE v.frames[CHOOSE i \in P : \A j \in P : i <= j].type_prev
  BY DEF UnwoundChain
<1>4. TopmostBelow(v, t, Len(v.frames) + 1, v.type_fp[t])
  BY DEF VmOK, Linked
<1>5. FramesOf(v, t) \subseteq 1 .. Len(v.frames)
  BY <1>1 DEF FramesOf
<1>6. CASE P = {}
  <2>1. UnwoundChain(v, n, t) = v.type_fp[t]  BY <1>3, <1>6
  <2> HIDE DEF P
  <2> QED  BY <2>1, <1>1, <1>2, <1>4, <1>5, <1>6 DEF TopmostBelow
<1>7. CASE P # {}
  <2> DEFINE low == CHOOSE i \in P : \A j \in P : i <= j
  <2>1. low \in P /\ \A j \in P : low <= j
    <3> HIDE DEF P
    <3> QED  BY <1>2, <1>7, LeastElement
  <2>2. UnwoundChain(v, n, t) = v.frames[low].type_prev
    BY <1>3, <1>7
  <2> HIDE DEF low, P
  <2>3. low \in FramesOf(v, t) /\ low > n
    BY <2>1, <1>2
  <2>4. TopmostBelow(v, t, low, UnwoundChain(v, n, t))
    BY <2>2, <2>3 DEF VmOK, Linked, FramesOf
  <2> QED  BY <2>1, <2>3, <2>4, <1>1, <1>2, <1>5 DEF TopmostBelow
<1> QED  BY <1>6, <1>7

\* frame_unwind keeps the lowest n frames and everything VmOK says.
LEMMA UnwindOK ==
  ASSUME NEW v, VmOK(v), NEW n \in 0 .. Len(v.frames)
  PROVE  LET w == frame_unwind(v, n)
         IN  VmOK(w) /\ Cut(v, w, n) /\ w.sp = v.sp /\ w.debug_lvl = v.debug_lvl
<1> DEFINE w == frame_unwind(v, n)
           owned == {i \in Popped(v, n, "MEM") : v.frames[i].data}
           excepts == Popped(v, n, "EXCEPT")
<1>1. /\ v \in Vms /\ Len(v.frames) \in Nat
      /\ v.frames \in Seq(Frames) /\ DOMAIN v.frames = 1 .. Len(v.frames)
  BY DEF VmOK, Vms
<1>2. /\ SubSeq(v.frames, 1, n) \in Seq(Frames)
      /\ Len(SubSeq(v.frames, 1, n)) = n
      /\ \A i \in 1 .. n : SubSeq(v.frames, 1, n)[i] = v.frames[i]
  BY <1>1
<1>3. /\ IsFiniteSet(excepts) /\ Cardinality(excepts) \in Nat
      /\ Cardinality(excepts) = 0 <=> excepts = {}
  <2>1. excepts \in SUBSET (1 .. Len(v.frames))
    BY <1>1 DEF Popped
  <2>2. IsFiniteSet(1 .. Len(v.frames))
    BY <1>1, FS_Interval
  <2> HIDE DEF excepts
  <2>3. IsFiniteSet(excepts)
    BY <2>1, <2>2, FS_Subset
  <2> QED  BY <2>3, FS_CardinalityType, FS_EmptySet
<1>4. /\ w.frames = SubSeq(v.frames, 1, n) /\ w.sp = v.sp
      /\ w.debug_lvl = v.debug_lvl
      /\ w.type_fp = [t \in FrameTypes |-> UnwoundChain(v, n, t)]
      /\ w.bufs = v.bufs - Cardinality(owned)
      /\ w.except_lvl = IF Cardinality(excepts) > v.except_lvl THEN 0
                        ELSE v.except_lvl - Cardinality(excepts)
      /\ w = [frames |-> w.frames, type_fp |-> w.type_fp, sp |-> w.sp,
              except_lvl |-> w.except_lvl, debug_lvl |-> w.debug_lvl,
              bufs |-> w.bufs]
  <2> HIDE DEF owned, excepts
  <2>1. w = [v EXCEPT !.frames = SubSeq(v.frames, 1, n),
                      !.type_fp = [t \in FrameTypes |-> UnwoundChain(v, n, t)],
                      !.except_lvl = IF Cardinality(excepts) > v.except_lvl THEN 0
                                     ELSE v.except_lvl - Cardinality(excepts),
                      !.bufs = v.bufs - Cardinality(owned)]
    BY DEF frame_unwind, owned, excepts
  <2> HIDE DEF w
  <2> QED  BY <1>1, <2>1 DEF Vms
<1> HIDE DEF w
<1>5. w.except_lvl = IF excepts = {} THEN v.except_lvl ELSE 0
  <2>1. v.except_lvl \in {0, 1}  BY <1>1 DEF Vms
  <2> HIDE DEF excepts
  <2> QED  BY <2>1, <1>3, <1>4
<1>6. Cut(v, w, n)
  BY <1>2, <1>4, <1>5 DEF Cut
<1>7. w.bufs = Cardinality(Owned(w)) /\ w.bufs \in Nat
  <2>1. Owned(v) = Owned(w) \cup owned /\ Owned(w) \cap owned = {}
    BY <1>1, <1>6 DEF Owned, Popped, Cut
  <2>2. IsFiniteSet(Owned(v)) /\ v.bufs = Cardinality(Owned(v))
    BY <1>1, OwnedFinite DEF VmOK
  <2>3. IsFiniteSet(Owned(w)) /\ IsFiniteSet(owned)
    BY <2>1, <2>2, FS_Subset
  <2>4. /\ Cardinality(Owned(v)) = Cardinality(Owned(w)) + Cardinality(owned)
        /\ Cardinality(Owned(w)) \in Nat /\ Cardinality(owned) \in Nat
    <3> HIDE DEF owned
    <3>1. Cardinality(Owned(w) \cap owned) = 0  BY <2>1, FS_EmptySet
    <3>2. Cardinality(Owned(w) \cup owned)
             = Cardinality(Owned(w)) + Cardinality(owned)
                 - Cardinality(Owned(w) \cap owned)
      BY <2>3, FS_Union
    <3> QED  BY <2>1, <2>3, <3>1, <3>2, FS_CardinalityType
  <2> QED  BY <2>2, <2>4, <1>4
<1>8. \A t \in FrameTypes : FramesOf(w, t) = {i \in FramesOf(v, t) : i <= n}
  BY <1>1, <1>6 DEF FramesOf, Cut
<1>9. Linked(w) /\ \A t \in FrameTypes : w.type_fp[t] \in Nat
  <2>1. ASSUME NEW t \in FrameTypes
        PROVE  /\ TopmostBelow(w, t, n + 1, w.type_fp[t])
               /\ w.type_fp[t] \in Nat
    <3>1. TopmostBelow(v, t, n + 1, w.type_fp[t])
      BY <1>4, UnwindChain
    <3>2. FramesOf(v, t) \subseteq 1 .. Len(v.frames)
      BY <1>1 DEF FramesOf
    <3> QED  BY <3>1, <3>2, <1>1, <1>8 DEF TopmostBelow
  <2>2. ASSUME NEW i \in DOMAIN w.frames
        PROVE  TopmostBelow(w, w.frames[i].type, i, w.frames[i].type_prev)
    <3>1. /\ i \in 1 .. n /\ i \in DOMAIN v.frames
          /\ w.frames[i] = v.frames[i] /\ v.frames[i] \in Frames
      BY <1>1, <1>6 DEF Cut
    <3>2. v.frames[i].type \in FrameTypes
      BY <3>1 DEF Frames
    <3>3. TopmostBelow(v, v.frames[i].type, i, v.frames[i].type_prev)
      BY <3>1 DEF VmOK, Linked
    <3>4. FramesOf(v, v.frames[i].type) \subseteq Nat
      BY <1>1 DEF FramesOf
    <3> QED  BY <3>1, <3>2, <3>3, <3>4, <1>8 DEF TopmostBelow
  <2> QED  BY <2>1, <2>2, <1>6 DEF Linked, Cut
<1>10. w \in Vms
  BY <1>1, <1>2, <1>4, <1>5, <1>7, <1>9 DEF Vms
<1>11. \A i \in DOMAIN w.frames :
           w.frames[i].type \in JumpTypes => w.frames[i].save.fp = i
  BY <1>1, <1>6 DEF VmOK, Cut
<1>12. VmOK(w)
  BY <1>7, <1>9, <1>10, <1>11 DEF VmOK
<1> QED  BY <1>12, <1>6, <1>4 DEF w

\* str_neweb: the topmost frame gives its buffer up.
LEMMA StrNewebOK ==
  ASSUME NEW v, VmOK(v), v.frames # <<>>,
         v.frames[Len(v.frames)].type = "MEM", v.frames[Len(v.frames)].data
  PROVE  LET w == str_neweb(v)
         IN  /\ VmOK(w)
             /\ Len(w.frames) = Len(v.frames) /\ DOMAIN w.frames = DOMAIN v.frames
             /\ \A i \in DOMAIN v.frames : /\ w.frames[i].type = v.frames[i].type
                                           /\ w.frames[i].save = v.frames[i].save
             /\ w.sp = v.sp /\ w.except_lvl = v.except_lvl
<1> DEFINE n == Len(v.frames)
           w == str_neweb(v)
           r == [v.frames[n] EXCEPT !.data = FALSE]
<1>1. /\ v \in Vms /\ n \in Nat \ {0} /\ v.frames \in Seq(Frames)
      /\ DOMAIN v.frames = 1 .. n /\ v.frames[n] \in Frames
  BY DEF VmOK, Vms
<1>2. v.type_fp["MEM"] = n
  <2>1. TopmostBelow(v, "MEM", n + 1, v.type_fp["MEM"])
    BY DEF VmOK, Linked, FrameTypes
  <2>2. n \in FramesOf(v, "MEM") /\ FramesOf(v, "MEM") \subseteq 1 .. n
    BY <1>1 DEF FramesOf
  <2> QED  BY <2>1, <2>2, <1>1 DEF TopmostBelow
<1>3. w = [v EXCEPT !.frames = [v.frames EXCEPT ![n] = r], !.bufs = v.bufs - 1]
  BY <1>2 DEF str_neweb
<1>4. /\ r \in Frames /\ r.type = "MEM" /\ r.save = v.frames[n].save
      /\ r.type_prev = v.frames[n].type_prev /\ r.data = FALSE
  BY <1>1 DEF Frames
<1> HIDE DEF w, r
<1>5. Owned(v) = {i \in Owned(v) : i # n} \cup {n}
  BY <1>1 DEF Owned
<1>6. /\ w.frames = [v.frames EXCEPT ![n] = r] /\ w.type_fp = v.type_fp
      /\ w.bufs = v.bufs - 1 /\ w.sp = v.sp /\ w.except_lvl = v.except_lvl
  BY <1>1, <1>3 DEF Vms
<1>7. /\ w.frames \in Seq(Frames) /\ Len(w.frames) = n
      /\ DOMAIN w.frames = 1 .. n
      /\ \A i \in 1 .. n : w.frames[i] = IF i = n THEN r ELSE v.frames[i]
  BY <1>1, <1>4, <1>6
<1>8. \A i \in 1 .. n : /\ w.frames[i].type = v.frames[i].type
                        /\ w.frames[i].save = v.frames[i].save
                        /\ w.frames[i].type_prev = v.frames[i].type_prev
  BY <1>1, <1>4, <1>7
<1>9. Owned(w) = Owned(v) \ {n} /\ n \in Owned(v)
  BY <1>1, <1>4, <1>7, <1>8 DEF Owned
<1>10. w.bufs = Cardinality(Owned(w)) /\ w.bufs \in Nat
  <2>1. IsFiniteSet(Owned(v)) /\ v.bufs = Cardinality(Owned(v))
    BY <1>1, OwnedFinite DEF VmOK
  <2>2. /\ IsFiniteSet(Owned(w))
        /\ Cardinality(Owned(w)) = Cardinality(Owned(v)) - 1
    BY <2>1, <1>9, FS_RemoveElement
  <2> QED  BY <2>1, <2>2, <1>6, FS_CardinalityType
<1>11. w \in Vms
  <2> DEFINE F == [v.frames EXCEPT ![n] = r]
             B == v.bufs - 1
  <2>1. F \in Seq(Frames) /\ B \in Nat
    BY <1>6, <1>7, <1>10
  <2>2. w = [v EXCEPT !.frames = F, !.bufs = B]
    BY <1>3
  <2> HIDE DEF F, B
  <2> QED  BY <2>1, <2>2, <1>1 DEF Vms
<1>12. Linked(w)
  <2>1. \A t \in FrameTypes : FramesOf(w, t) = FramesOf(v, t)
    BY <1>1, <1>7, <1>8 DEF FramesOf
  <2>2. \A t \in FrameTypes : TopmostBelow(w, t, Len(w.frames) + 1, w.type_fp[t])
    BY <2>1, <1>6, <1>7 DEF VmOK, Linked, TopmostBelow
  <2>3. ASSUME NEW i \in DOMAIN w.frames
        PROVE  TopmostBelow(w, w.frames[i].type, i, w.frames[i].type_prev)
    <3>1. /\ w.frames[i].type = v.frames[i].type
          /\ w.frames[i].type_prev = v.frames[i].type_prev
          /\ v.frames[i].type \in FrameTypes
      <4>1. i \in 1 .. n /\ v.frames[i] \in Frames
        BY <1>1, <1>7
      <4> QED  BY <4>1, <1>8 DEF Frames
    <3>2. TopmostBelow(v, v.frames[i].type, i, v.frames[i].type_prev)
      BY <1>1, <1>7 DEF VmOK, Linked
    <3> QED  BY <3>1, <3>2, <2>1 DEF TopmostBelow
  <2> QED  BY <2>2, <2>3 DEF Linked
<1>13. VmOK(w)
  BY <1>1, <1>7, <1>8, <1>10, <1>11, <1>12 DEF VmOK
<1> QED  BY <1>1, <1>6, <1>7, <1>8, <1>13 DEF w

\* vm_state_restore: the frames of the save, its sp, and the level's rule.
LEMMA RestoreOK ==
  ASSUME NEW v, VmOK(v), NEW save \in Saves, save.fp <= Len(v.frames)
  PROVE  LET w == vm_state_restore(v, save)
         IN  VmOK(w) /\ Cut(v, w, save.fp) /\ w.sp = save.sp
<1> DEFINE u == frame_unwind(v, save.fp)
           w == vm_state_restore(v, save)
<1>1. /\ save.fp \in 0 .. Len(v.frames) /\ save.sp \in Nat /\ save.debug_lvl \in Nat
  BY DEF VmOK, Vms, Saves
<1>2. VmOK(u) /\ Cut(v, u, save.fp)
  BY <1>1, UnwindOK, Zenon
<1>3. w = [u EXCEPT !.sp = save.sp, !.debug_lvl = save.debug_lvl]
  BY DEF vm_state_restore
<1> HIDE DEF u, w
<1>4. /\ w \in Vms /\ w.frames = u.frames /\ w.type_fp = u.type_fp
      /\ w.bufs = u.bufs /\ w.except_lvl = u.except_lvl /\ w.sp = save.sp
  <2>1. u \in Vms  BY <1>2 DEF VmOK
  <2> QED  BY <2>1, <1>1, <1>3 DEF Vms
<1>5. VmOK(w)  BY <1>2, <1>4, SameFramesOK
<1>6. Cut(v, w, save.fp)  BY <1>2, <1>4 DEF Cut
<1> QED  BY <1>4, <1>5, <1>6 DEF w

-----------------------------------------------------------------------------
(* How the C stack and the frame stack fit together.                       *)

\* The lowest the frame stack can be while a is innermost.
Floor(a) == IF a.jb # 0 THEN a.jb ELSE a.save.fp + 2

\* What the invariant says of one activation.
ActOK(v, a) ==
    /\ a \in Activations
    /\ a.fn \in {"rep", "debug", "prog", "while"} => a.jb # 0
    /\ a.fn = "try" /\ a.phase # "final" => a.jb # 0
    /\ a.phase = "handler" => a.fn = "try"
    /\ a.phase = "goto" => a.fn = "prog"
    /\ a.jb # 0 =>
          /\ a.fn \in {"rep", "debug"} \cup JumpFns
          /\ a.jb \in FramesOf(v, JumpTypeOf[a.fn])
          /\ a.save.fp < a.jb
          /\ a.fn # "rep" => a.save.fp + 3 <= a.jb
          /\ v.frames[a.jb].save.sp = a.save.sp + SlotsAtSetjmp(a)

CanCall == {"eval", "body", "handler", "final"}

\* The frames of the activations are disjoint and in the order of the calls,
\* every jump frame has its owner, and the slots add up.
Layout(v, c) ==
    /\ c \in Seq(Activations) /\ Len(c) >= 1 /\ c[1].fn = "rep"
    /\ \A k \in 1 .. Len(c) : ActOK(v, c[k])
    /\ \A k, l \in 1 .. Len(c) : k < l =>
           /\ Floor(c[k]) <= c[l].save.fp
           /\ c[k].phase \in CanCall
           /\ c[l].fn # "rep"
    /\ Floor(c[Len(c)]) <= Len(v.frames)
    /\ c[Len(c)].phase = "read" =>
           /\ Floor(c[Len(c)]) < Len(v.frames)
           /\ v.frames[Len(v.frames)].type = "MEM"
    /\ \A i \in DOMAIN v.frames : v.frames[i].type \in JumpTypes =>
           \E k \in 1 .. Len(c) : c[k].jb = i
    /\ \A k \in 1 .. Len(c) : k + 1 \in 1 .. Len(c) =>
           c[k + 1].save.sp = SpOver(c[k]) + CallSlots
    /\ v.sp = SpOver(c[Len(c)])

\* The lowest n frames of v are frames of w, and no frame above can be
\* jumped to.
Keeps(v, w, n) ==
    /\ n \in 0 .. Len(v.frames) /\ n <= Len(w.frames)
    /\ \A i \in 1 .. n : w.frames[i].type = v.frames[i].type
                         /\ w.frames[i].save = v.frames[i].save
    /\ \A i \in n + 1 .. Len(w.frames) : w.frames[i].type \notin JumpTypes

\* The C stack d is c up to activation k, which has become a.
Becomes(c, d, k, a) ==
    /\ d \in Seq(Activations) /\ Len(d) = k /\ d[k] = a
    /\ \A j \in 1 .. k : j # k => d[j] = c[j]
    /\ a.fn = c[k].fn /\ a.save = c[k].save

\* The fields of the activations on a well-typed C stack have their types.
LEMMA ActivationTypes ==
  ASSUME NEW a \in Activations
  PROVE  /\ a.jb \in Nat /\ a.save \in Saves /\ a.save.fp \in Nat
         /\ a.save.sp \in Nat /\ Floor(a) \in Nat
BY DEF Activations, Saves, Floor

\* Slots are counted by naturals.
LEMMA SlotsNat ==
  ASSUME NEW a \in Activations
  PROVE  SlotsAtSetjmp(a) \in Nat /\ SlotsHeld(a) \in Nat /\ SpOver(a) \in Nat
<1>1. a.fn \in AllFns \cup {"rep", "debug"} /\ a.save.sp \in Nat
  BY ActivationTypes DEF Activations
<1>2. SlotsAtSetjmp(a) \in Nat
  BY <1>1 DEF SlotsAtSetjmp, WorkSlots, AllFns
<1> QED  BY <1>1, <1>2 DEF SpOver, SlotsHeld

\* Activation k becomes the innermost one and n frames are kept: the common
\* part of returns, longjmps and the steps inside one activation.
LEMMA InnermostLayout ==
  ASSUME NEW v, NEW c, VmOK(v), Layout(v, c),
         NEW k \in 1 .. Len(c), NEW w, VmOK(w), NEW n, Keeps(v, w, n),
         NEW d, NEW a, Becomes(c, d, k, a), ActOK(w, a),
         a.jb = c[k].jb \/ (a.jb = 0 /\ c[k].jb > n),
         Floor(a) <= n,
         \A l \in 1 .. Len(c) : l > k /\ c[l].jb # 0 => c[l].jb > n,
         a.phase = "read" => n < Len(w.frames)
                             /\ w.frames[Len(w.frames)].type = "MEM",
         w.sp = SpOver(a)
  PROVE  Layout(w, d)
<1>1. /\ v \in Vms /\ w \in Vms /\ Len(v.frames) \in Nat /\ Len(w.frames) \in Nat
      /\ DOMAIN v.frames = 1 .. Len(v.frames)
      /\ DOMAIN w.frames = 1 .. Len(w.frames)
      /\ Len(c) \in Nat /\ n \in Nat /\ k \in Nat
  BY DEF VmOK, Vms, Layout, Keeps
<1>2. \A j \in 1 .. k : j # k => d[j] = c[j]
  BY DEF Becomes
<1>3. d \in Seq(Activations) /\ Len(d) = k /\ d[k] = a
  BY DEF Becomes
<1>4. \A j \in 1 .. Len(c) : /\ c[j] \in Activations /\ c[j].jb \in Nat
                             /\ c[j].save.fp \in Nat /\ Floor(c[j]) \in Nat
  BY ActivationTypes DEF Layout, ActOK
<1>5. d[1].fn = "rep"
  BY <1>1, <1>2, <1>3 DEF Layout, Becomes
<1>6. Floor(a) \in Nat /\ a.jb \in Nat /\ a.save = c[k].save
  BY DEF ActOK, Activations, Saves, Floor, Becomes
<1>7. ASSUME NEW j \in 1 .. k, j # k
      PROVE  c[j].jb <= n /\ Floor(c[j]) <= n
  <2>1. Floor(c[j]) <= c[k].save.fp
    BY <1>1, <1>7 DEF Layout
  <2>2. c[k].save.fp <= Floor(a)
    BY <1>6, <1>4 DEF Floor, ActOK
  <2>3. c[j].jb <= Floor(c[j])
    BY <1>1, <1>4 DEF Floor
  <2> QED  BY <2>1, <2>2, <2>3, <1>1, <1>4, <1>6
<1>8. ASSUME NEW j \in 1 .. Len(d)  PROVE ActOK(w, d[j])
  <2>1. CASE j = k
    BY <2>1, <1>3
  <2>2. CASE j # k
    <3>1. /\ d[j] = c[j] /\ ActOK(v, c[j]) /\ c[j].jb <= n /\ j \in 1 .. k
      BY <2>2, <1>1, <1>2, <1>3, <1>7 DEF Layout
    <3>2. c[j].jb # 0 => c[j].jb \in 1 .. n
      BY <3>1, <1>1, <1>4
    <3>3. c[j].jb # 0 =>
             /\ w.frames[c[j].jb].type = v.frames[c[j].jb].type
             /\ w.frames[c[j].jb].save = v.frames[c[j].jb].save
      BY <3>2 DEF Keeps
    <3> QED  BY <3>1, <3>2, <3>3, <1>1, SMTT(30) DEF ActOK, FramesOf, Keeps
  <2> QED  BY <2>1, <2>2
<1>9. ASSUME NEW j \in 1 .. Len(d), NEW l \in 1 .. Len(d), j < l
      PROVE  /\ Floor(d[j]) <= d[l].save.fp /\ d[j].phase \in CanCall
             /\ d[l].fn # "rep"
  <2>1. /\ d[j] = c[j] /\ d[l].save = c[l].save /\ d[l].fn = c[l].fn
        /\ j \in 1 .. Len(c) /\ l \in 1 .. Len(c)
    BY <1>9, <1>1, <1>2, <1>3 DEF Becomes
  <2> QED  BY <2>1, <1>9 DEF Layout
<1>10. ASSUME NEW i \in DOMAIN w.frames, w.frames[i].type \in JumpTypes
       PROVE  \E j \in 1 .. Len(d) : d[j].jb = i
  <2>1. i \in 1 .. n /\ v.frames[i].type \in JumpTypes /\ i \in DOMAIN v.frames
    BY <1>10, <1>1 DEF Keeps
  <2>2. PICK j \in 1 .. Len(c) : c[j].jb = i
    BY <2>1 DEF Layout
  <2>3. j <= k
    BY <2>1, <2>2, <1>1
  <2>4. CASE j = k
    BY <2>1, <2>2, <2>4, <1>1, <1>3
  <2>5. CASE j # k
    BY <2>2, <2>3, <2>5, <1>1, <1>2, <1>3
  <2> QED  BY <2>4, <2>5
<1>11. ASSUME NEW j \in 1 .. Len(d), j + 1 \in 1 .. Len(d)
       PROVE  d[j + 1].save.sp = SpOver(d[j]) + CallSlots
  <2>1. /\ d[j] = c[j] /\ d[j + 1].save = c[j + 1].save
        /\ j \in 1 .. Len(c) /\ j + 1 \in 1 .. Len(c)
    BY <1>11, <1>1, <1>2, <1>3 DEF Becomes
  <2> QED  BY <2>1 DEF Layout
<1>12. /\ Floor(d[Len(d)]) <= Len(w.frames)
       /\ d[Len(d)].phase = "read" =>
              /\ Floor(d[Len(d)]) < Len(w.frames)
              /\ w.frames[Len(w.frames)].type = "MEM"
  BY <1>1, <1>3, <1>6 DEF Keeps
<1>13. w.sp = SpOver(d[Len(d)]) /\ Len(d) >= 1
  BY <1>1, <1>3
<1> QED  BY <1>3, <1>5, <1>8, <1>9, <1>10, <1>11, <1>12, <1>13 DEF Layout

\* A new innermost activation, with the frames it has pushed.
LEMMA EnterLayout ==
  ASSUME NEW v, NEW c, VmOK(v), Layout(v, c), c[Len(c)].phase \in CanCall,
         NEW w, VmOK(w), Len(v.frames) + 2 <= Len(w.frames),
         \A i \in 1 .. Len(v.frames) : w.frames[i] = v.frames[i],
         NEW a, ActOK(w, a), a.fn # "rep", a.phase # "read",
         a.save.fp = Len(v.frames), a.save.sp = v.sp + CallSlots,
         Floor(a) <= Len(w.frames),
         \A i \in Len(v.frames) + 1 .. Len(w.frames) :
             w.frames[i].type \in JumpTypes => i = a.jb,
         w.sp = SpOver(a)
  PROVE  Layout(w, Append(c, a))
<1> DEFINE d == Append(c, a)
<1>1. /\ v \in Vms /\ w \in Vms /\ Len(v.frames) \in Nat /\ Len(w.frames) \in Nat
      /\ DOMAIN v.frames = 1 .. Len(v.frames)
      /\ DOMAIN w.frames = 1 .. Len(w.frames)
      /\ Len(c) \in Nat \ {0} /\ c \in Seq(Activations) /\ a \in Activations
  BY DEF VmOK, Vms, Layout, ActOK
<1>2. /\ d \in Seq(Activations) /\ Len(d) = Len(c) + 1 /\ d[Len(c) + 1] = a
      /\ \A j \in 1 .. Len(c) : d[j] = c[j]
  BY <1>1
<1> HIDE DEF d
<1>3. \A j \in 1 .. Len(c) : /\ c[j].jb \in Nat /\ Floor(c[j]) \in Nat
                             /\ c[j].save.fp \in Nat
  BY ActivationTypes DEF Layout, ActOK
<1>4. ASSUME NEW j \in 1 .. Len(c)
      PROVE  c[j].jb <= Floor(c[j]) /\ Floor(c[j]) <= Len(v.frames)
  <2>1. c[j].jb <= Floor(c[j])  BY <1>3 DEF Floor
  <2>2. CASE j = Len(c)  BY <2>1, <2>2 DEF Layout
  <2>3. CASE j # Len(c)
    <3>1. Floor(c[j]) <= c[Len(c)].save.fp
      BY <2>3, <1>1 DEF Layout
    <3>2. c[Len(c)].save.fp <= Floor(c[Len(c)])
      BY <1>1, <1>3 DEF Floor, Layout, ActOK
    <3>3. Floor(c[Len(c)]) <= Len(v.frames)  BY DEF Layout
    <3>4. Len(c) \in 1 .. Len(c)  BY <1>1
    <3> QED  BY <2>1, <3>1, <3>2, <3>3, <3>4, <1>1, <1>3
  <2> QED  BY <2>2, <2>3
<1>5. ASSUME NEW j \in 1 .. Len(d)  PROVE ActOK(w, d[j])
  <2>1. CASE j = Len(c) + 1
    BY <2>1, <1>2
  <2>2. CASE j # Len(c) + 1
    <3>1. j \in 1 .. Len(c) /\ d[j] = c[j] /\ ActOK(v, c[j])
      BY <2>2, <1>1, <1>2 DEF Layout
    <3>2. c[j].jb # 0 => c[j].jb \in 1 .. Len(v.frames)
      BY <3>1, <1>1, <1>3, <1>4
    <3>3. c[j].jb # 0 => w.frames[c[j].jb] = v.frames[c[j].jb]
      BY <3>2
    <3> QED  BY <3>1, <3>2, <3>3, <1>1, SMTT(30) DEF ActOK, FramesOf
  <2> QED  BY <2>1, <2>2
<1>6. ASSUME NEW j \in 1 .. Len(d), NEW l \in 1 .. Len(d), j < l
      PROVE  /\ Floor(d[j]) <= d[l].save.fp /\ d[j].phase \in CanCall
             /\ d[l].fn # "rep"
  <2>1. j \in 1 .. Len(c) /\ d[j] = c[j]
    BY <1>6, <1>1, <1>2
  <2>2. CASE l = Len(c) + 1
    <3>1. d[l] = a /\ Floor(c[j]) <= Len(v.frames)
      BY <2>1, <2>2, <1>2, <1>4
    <3>2. c[j].phase \in CanCall
      BY <2>1, <1>1 DEF Layout
    <3> QED  BY <2>1, <3>1, <3>2
  <2>3. CASE l # Len(c) + 1
    <3>1. l \in 1 .. Len(c) /\ d[l] = c[l]
      BY <2>3, <1>1, <1>2
    <3> QED  BY <2>1, <3>1, <1>6 DEF Layout
  <2> QED  BY <2>2, <2>3
<1>7. ASSUME NEW i \in DOMAIN w.frames, w.frames[i].type \in JumpTypes
      PROVE  \E j \in 1 .. Len(d) : d[j].jb = i
  <2>1. CASE i \in 1 .. Len(v.frames)
    <3>1. PICK j \in 1 .. Len(c) : c[j].jb = i
      BY <2>1, <1>1, <1>7 DEF Layout
    <3>2. j \in 1 .. Len(d) /\ d[j] = c[j]
      BY <1>1, <1>2
    <3> QED  BY <3>1, <3>2
  <2>2. CASE i \notin 1 .. Len(v.frames)
    <3>1. i = a.jb
      BY <2>2, <1>1, <1>7
    <3>2. Len(c) + 1 \in 1 .. Len(d)
      BY <1>1, <1>2
    <3> QED  BY <3>1, <3>2, <1>2
  <2> QED  BY <2>1, <2>2
<1>8. ASSUME NEW j \in 1 .. Len(d), j + 1 \in 1 .. Len(d)
      PROVE  d[j + 1].save.sp = SpOver(d[j]) + CallSlots
  <2>1. j \in 1 .. Len(c) /\ d[j] = c[j]
    BY <1>8, <1>1, <1>2
  <2>2. CASE j = Len(c)
    BY <2>1, <2>2, <1>2 DEF Layout
  <2>3. CASE j # Len(c)
    <3>1. j + 1 \in 1 .. Len(c) /\ d[j + 1] = c[j + 1]
      BY <2>1, <2>3, <1>1, <1>2
    <3> QED  BY <2>1, <3>1 DEF Layout
  <2> QED  BY <2>2, <2>3
<1>9. /\ d[1].fn = "rep" /\ Len(d) >= 1
      /\ d[Len(d)] = a
  BY <1>1, <1>2 DEF Layout
<1>10. Layout(w, d)
  BY <1>2, <1>5, <1>6, <1>7, <1>8, <1>9 DEF Layout
<1> QED  BY <1>10 DEF d

\* frame_push of a frame nobody jumps to.
LEMMA FramePushOK ==
  ASSUME NEW v, VmOK(v), NEW t \in FrameTypes, t \notin JumpTypes
  PROVE  /\ VmOK(frame_push(v, t))
         /\ OneMore(v, frame_push(v, t), t, NoSave)
<1>1. NoSave \in Saves  BY DEF NoSave, Saves
<1> QED  BY <1>1, PushPlainOK, Zenon DEF frame_push

\* frame_func_push: a plain frame, and the call depth goes up in a debug build.
LEMMA FuncPushOK ==
  ASSUME NEW v, VmOK(v)
  PROVE  /\ VmOK(frame_func_push(v))
         /\ OneMore(v, frame_func_push(v), "FUNC", NoSave)
<1> DEFINE u == frame_push(v, "FUNC")
           w == frame_func_push(v)
           k == u.debug_lvl + (IF Debug THEN 1 ELSE 0)
<1>1. VmOK(u) /\ OneMore(v, u, "FUNC", NoSave)
  <2>1. "FUNC" \in FrameTypes /\ "FUNC" \notin JumpTypes
    BY DEF FrameTypes, JumpTypes
  <2> QED  BY <2>1, FramePushOK, Zenon
<1>2. w = [u EXCEPT !.debug_lvl = k]
  BY DEF frame_func_push
<1> HIDE DEF u, w
<1>3. u \in Vms /\ k \in Nat
  BY <1>1 DEF VmOK, Vms
<1> HIDE DEF k
<1>4. /\ w \in Vms /\ w.frames = u.frames /\ w.type_fp = u.type_fp
      /\ w.bufs = u.bufs /\ w.except_lvl = u.except_lvl /\ w.sp = u.sp
  BY <1>2, <1>3 DEF Vms
<1>5. VmOK(w)  BY <1>1, <1>4, SameFramesOK
<1>6. OneMore(v, w, "FUNC", NoSave)  BY <1>1, <1>4 DEF OneMore
<1> QED  BY <1>5, <1>6 DEF w

\* frame_longjmp_push saves the state with the new frame in place.
LEMMA LongjmpPushOK ==
  ASSUME NEW v, VmOK(v), NEW t \in FrameTypes
  PROVE  LET save == [sp |-> v.sp, fp |-> Len(v.frames) + 1,
                      debug_lvl |-> v.debug_lvl]
         IN  /\ VmOK(frame_longjmp_push(v, t))
             /\ OneMore(v, frame_longjmp_push(v, t), t, save)
<1> DEFINE save == [sp |-> v.sp, fp |-> Len(v.frames) + 1,
                    debug_lvl |-> v.debug_lvl]
<1>1. save \in Saves /\ save.fp = Len(v.frames) + 1
  BY DEF VmOK, Vms, Saves
<1>2. [vm_state_save(v) EXCEPT !.fp = @ + 1] = save
  BY DEF vm_state_save
<1> HIDE DEF save
<1>3. frame_longjmp_push(v, t) = PushRecord(v, t, save, FALSE)
  BY <1>2 DEF frame_longjmp_push
<1>4. VmOK(PushRecord(v, t, save, FALSE))
      /\ OneMore(v, PushRecord(v, t, save, FALSE), t, save)
  BY <1>1, PushPlainOK, Zenon
<1> QED  BY <1>3, <1>4 DEF save

\* eval_alloc only moves sp.
LEMMA EvalAllocOK ==
  ASSUME NEW v, VmOK(v), NEW n \in Nat
  PROVE  LET w == eval_alloc(v, n)
         IN  /\ VmOK(w) /\ w.frames = v.frames /\ w.sp = v.sp + n
             /\ w.except_lvl = v.except_lvl /\ w.debug_lvl = v.debug_lvl
<1> DEFINE w == eval_alloc(v, n)
           m == v.sp + n
<1>1. v \in Vms /\ m \in Nat  BY DEF VmOK, Vms
<1>2. w = [v EXCEPT !.sp = m]  BY DEF eval_alloc
<1> HIDE DEF w, m
<1>3. /\ w \in Vms /\ w.frames = v.frames /\ w.type_fp = v.type_fp
      /\ w.bufs = v.bufs /\ w.sp = m /\ w.except_lvl = v.except_lvl
      /\ w.debug_lvl = v.debug_lvl
  BY <1>1, <1>2 DEF Vms
<1>4. VmOK(w)  BY <1>3, SameFramesOK
<1> QED  BY <1>3, <1>4 DEF w, m

-----------------------------------------------------------------------------
(* Entering a function.                                                    *)

\* w is v with frames pushed, of which only the last may be jumped to, and
\* that one only by a function that sets a jmp_buf.
Entered(v, w, fn) ==
    /\ VmOK(w)
    /\ Len(v.frames) <= Len(w.frames)
    /\ \A i \in 1 .. Len(v.frames) : w.frames[i] = v.frames[i]
    /\ \A i \in Len(v.frames) + 1 .. Len(w.frames) :
           w.frames[i].type \in JumpTypes => fn \in JumpFns /\ i = Len(w.frames)
    /\ fn \in JumpFns =>
           /\ Len(w.frames) = Len(v.frames) + 1
           /\ w.frames[Len(w.frames)].type = JumpFrame[fn]
           /\ w.frames[Len(w.frames)].save.sp = v.sp
    /\ w.sp = v.sp /\ w.except_lvl = v.except_lvl

\* What a function pushes on entry sits above the frames of its call, its jump
\* frame on top, if it has one, with the state of its setjmp saved in it.
LEMMA EnterFramesOK ==
  ASSUME NEW v, VmOK(v), NEW fn \in AllFns
  PROVE  Entered(v, EnterFrames(fn, v), fn)
<1> DEFINE w == EnterFrames(fn, v)
<1>1. v \in Vms /\ Len(v.frames) \in Nat /\ DOMAIN v.frames = 1 .. Len(v.frames)
  BY DEF VmOK, Vms
<1>2. /\ {"FUNC", "ENV", "INPUT", "PROG", "WHILE", "EXCEPT"} \subseteq FrameTypes
      /\ {"FUNC", "ENV", "INPUT"} \cap JumpTypes = {}
  BY DEF FrameTypes, JumpTypes
<1>3. CASE fn \in JumpFns
  <2> DEFINE t == JumpFrame[fn]
  <2>1. t \in FrameTypes  BY <1>2, <1>3 DEF JumpFns, JumpFrame
  <2>2. w = frame_longjmp_push(v, t)  BY <1>3 DEF EnterFrames, JumpFns
  <2> HIDE DEF w, t
  <2>3. /\ VmOK(w)
        /\ OneMore(v, w, t, [sp |-> v.sp, fp |-> Len(v.frames) + 1,
                             debug_lvl |-> v.debug_lvl])
    BY <2>1, <2>2, LongjmpPushOK
  <2>4. Entered(v, w, fn)
    BY <2>3, <1>1, <1>3 DEF Entered, OneMore, t
  <2> QED  BY <2>4 DEF w
<1>4. CASE fn = "subr"
  <2>1. w = v  BY <1>4 DEF EnterFrames, JumpFns
  <2> HIDE DEF w
  <2> QED  BY <2>1, <1>1, <1>4 DEF Entered, JumpFns, w
<1>5. CASE fn = "let"
  <2>1. w = frame_push(v, "ENV")  BY <1>5 DEF EnterFrames, JumpFns
  <2> HIDE DEF w
  <2>2. VmOK(w) /\ OneMore(v, w, "ENV", NoSave)
    BY <2>1, <1>2, FramePushOK
  <2>9. Entered(v, w, fn)
    BY <2>2, <1>1, <1>2, <1>5 DEF Entered, OneMore, JumpFns
  <2> QED  BY <2>9 DEF w
<1>6. CASE fn = "lambda"
  <2> DEFINE u == frame_func_push(v)
  <2>1. w = frame_push(u, "ENV")  BY <1>6 DEF EnterFrames, JumpFns
  <2> HIDE DEF w, u
  <2>2. VmOK(u) /\ OneMore(v, u, "FUNC", NoSave)
    BY FuncPushOK DEF u
  <2>3. VmOK(w) /\ OneMore(u, w, "ENV", NoSave)
    BY <2>1, <2>2, <1>2, FramePushOK
  <2>9. Entered(v, w, fn)
    BY <2>2, <2>3, <1>1, <1>2, <1>6, SMTT(30) DEF Entered, OneMore, JumpFns
  <2> QED  BY <2>9 DEF w
<1>7. CASE fn = "load"
  <2> DEFINE u == frame_push(v, "INPUT")
  <2>1. w = frame_push(u, "ENV")  BY <1>7 DEF EnterFrames, JumpFns
  <2> HIDE DEF w, u
  <2>2. VmOK(u) /\ OneMore(v, u, "INPUT", NoSave)
    BY <1>2, FramePushOK DEF u
  <2>3. VmOK(w) /\ OneMore(u, w, "ENV", NoSave)
    BY <2>1, <2>2, <1>2, FramePushOK
  <2>9. Entered(v, w, fn)
    BY <2>2, <2>3, <1>1, <1>2, <1>7 DEF Entered, OneMore, JumpFns
  <2> QED  BY <2>9 DEF w
<1> QED  BY <1>3, <1>4, <1>5, <1>6, <1>7 DEF AllFns, JumpFns

\* method_call_run's own two frames.
LEMMA CallFramesOK ==
  ASSUME NEW v, VmOK(v)
  PROVE  LET w == CallFrames(v)
         IN  /\ VmOK(w)
             /\ Len(w.frames) = Len(v.frames) + 2
             /\ \A i \in 1 .. Len(v.frames) : w.frames[i] = v.frames[i]
             /\ \A i \in Len(v.frames) + 1 .. Len(w.frames) :
                    w.frames[i].type \notin JumpTypes
             /\ w.sp = v.sp /\ w.except_lvl = v.except_lvl
<1> DEFINE u == frame_push(v, "CLASS")
           w == CallFrames(v)
<1>1. v \in Vms /\ Len(v.frames) \in Nat
  BY DEF VmOK, Vms
<1>2. w = frame_func_push(u)  BY DEF CallFrames
<1>3. "CLASS" \in FrameTypes /\ {"CLASS", "FUNC"} \cap JumpTypes = {}
  BY DEF FrameTypes, JumpTypes
<1> HIDE DEF u, w
<1>4. VmOK(u) /\ OneMore(v, u, "CLASS", NoSave)
  BY <1>3, FramePushOK DEF u
<1>5. VmOK(w) /\ OneMore(u, w, "FUNC", NoSave)
  BY <1>2, <1>4, FuncPushOK
<1>6. /\ Len(w.frames) = Len(v.frames) + 2
      /\ \A i \in 1 .. Len(v.frames) : w.frames[i] = v.frames[i]
      /\ w.frames[Len(v.frames) + 1].type = "CLASS"
      /\ w.frames[Len(v.frames) + 2].type = "FUNC"
      /\ w.sp = v.sp /\ w.except_lvl = v.except_lvl
  BY <1>1, <1>4, <1>5 DEF OneMore
<1>7. \A i \in Len(v.frames) + 1 .. Len(w.frames) :
          w.frames[i].type \notin JumpTypes
  BY <1>1, <1>3, <1>6
<1> QED  BY <1>5, <1>6, <1>7 DEF w

\* The activation a call creates, and the VM state it starts in.
LEMMA CallLayout ==
  ASSUME NEW v, NEW c, VmOK(v), Layout(v, c), c[Len(c)].phase \in CanCall,
         NEW fn \in AllFns
  PROVE  LET v0 == eval_alloc(v, CallSlots)
             v1 == EnterFrames(fn, eval_alloc(CallFrames(v0), WorkSlots[fn]))
             jb == IF fn \in JumpFns THEN Len(v1.frames) ELSE 0
             ph == IF fn = "load" THEN "idle" ELSE "body"
             a  == Activation(fn, ph, vm_state_save(v0), jb, 0)
         IN  /\ VmOK(v1) /\ Layout(v1, Append(c, a))
             /\ v1.except_lvl = v.except_lvl
<1> DEFINE v0 == eval_alloc(v, CallSlots)
           v2 == CallFrames(v0)
           v3 == eval_alloc(v2, WorkSlots[fn])
           v1 == EnterFrames(fn, v3)
           jb == IF fn \in JumpFns THEN Len(v1.frames) ELSE 0
           ph == IF fn = "load" THEN "idle" ELSE "body"
           a  == Activation(fn, ph, vm_state_save(v0), jb, 0)
<1>1. WorkSlots[fn] \in Nat /\ CallSlots = 3
  BY DEF AllFns, WorkSlots, CallSlots
<1> HIDE DEF v0, v1, v2, v3
<1>2. /\ VmOK(v0) /\ v0.frames = v.frames /\ v0.sp = v.sp + 3
      /\ v0.except_lvl = v.except_lvl
  BY <1>1, EvalAllocOK DEF v0
<1>3. /\ VmOK(v2) /\ Len(v2.frames) = Len(v0.frames) + 2
      /\ \A i \in 1 .. Len(v0.frames) : v2.frames[i] = v0.frames[i]
      /\ \A i \in Len(v0.frames) + 1 .. Len(v2.frames) :
             v2.frames[i].type \notin JumpTypes
      /\ v2.sp = v0.sp /\ v2.except_lvl = v0.except_lvl
  BY <1>2, CallFramesOK DEF v2
<1>4. /\ VmOK(v3) /\ v3.frames = v2.frames /\ v3.sp = v2.sp + WorkSlots[fn]
      /\ v3.except_lvl = v2.except_lvl
  BY <1>1, <1>3, EvalAllocOK DEF v3
<1>5. Entered(v3, v1, fn)
  BY <1>4, EnterFramesOK DEF v1
<1>6. /\ VmOK(v1) /\ v1 \in Vms /\ v \in Vms /\ v0 \in Vms
      /\ Len(v.frames) \in Nat /\ Len(v1.frames) \in Nat
      /\ DOMAIN v1.frames = 1 .. Len(v1.frames) /\ v.sp \in Nat
  BY <1>2, <1>5 DEF Entered, VmOK, Vms
<1>7. /\ Len(v.frames) + 2 <= Len(v1.frames)
      /\ \A i \in 1 .. Len(v.frames) : v1.frames[i] = v.frames[i]
      /\ \A i \in Len(v.frames) + 1 .. Len(v1.frames) :
             v1.frames[i].type \in JumpTypes => fn \in JumpFns /\ i = Len(v1.frames)
      /\ fn \in JumpFns =>
             /\ Len(v1.frames) = Len(v.frames) + 3
             /\ v1.frames[Len(v1.frames)].type = JumpFrame[fn]
             /\ v1.frames[Len(v1.frames)].save.sp = v.sp + 3 + WorkSlots[fn]
      /\ v1.sp = v.sp + 3 + WorkSlots[fn] /\ v1.except_lvl = v.except_lvl
  <2>1. /\ Len(v3.frames) = Len(v.frames) + 2
        /\ \A i \in 1 .. Len(v.frames) : v3.frames[i] = v.frames[i]
        /\ \A i \in Len(v.frames) + 1 .. Len(v3.frames) :
               v3.frames[i].type \notin JumpTypes
        /\ v3.sp = v.sp + 3 + WorkSlots[fn] /\ v3.except_lvl = v.except_lvl
    BY <1>1, <1>2, <1>3, <1>4, <1>6
  <2>2. \A i \in 1 .. Len(v.frames) : v1.frames[i] = v.frames[i]
    BY <2>1, <1>5, <1>6 DEF Entered
  <2>3. ASSUME NEW i \in Len(v.frames) + 1 .. Len(v1.frames),
               v1.frames[i].type \in JumpTypes
        PROVE  fn \in JumpFns /\ i = Len(v1.frames)
    <3>1. CASE i <= Len(v3.frames)
      <4>1. v1.frames[i] = v3.frames[i]
        BY <3>1, <2>1, <1>5, <1>6 DEF Entered
      <4> QED  BY <3>1, <4>1, <2>1, <2>3, <1>6
    <3>2. CASE i > Len(v3.frames)
      BY <3>2, <2>1, <2>3, <1>5, <1>6 DEF Entered
    <3> QED  BY <3>1, <3>2, <2>1, <1>6
  <2>4. Len(v.frames) + 2 <= Len(v1.frames)
    BY <2>1, <1>5, <1>6 DEF Entered
  <2> QED  BY <2>1, <2>2, <2>3, <2>4, <1>5, <1>6 DEF Entered
<1>8. /\ a.fn = fn /\ a.phase = ph /\ a.jb = jb /\ a.save.fp = Len(v.frames)
      /\ a.save.sp = v.sp + 3 /\ jb \in Nat
      /\ a \in Activations
  <2>1. vm_state_save(v0) \in Saves
    BY <1>6 DEF vm_state_save, Saves, Vms
  <2>2. jb \in Nat /\ ph \in Phases
    BY <1>6 DEF Phases
  <2>3. a \in Activations
    <3> HIDE DEF jb, ph
    <3> QED  BY <2>1, <2>2 DEF Activation, Activations
  <2> QED  BY <2>2, <2>3, <1>2 DEF Activation, vm_state_save
<1> HIDE DEF a
<1>9. SlotsAtSetjmp(a) = WorkSlots[fn] /\ SpOver(a) = v.sp + 3 + WorkSlots[fn]
  BY <1>1, <1>6, <1>8 DEF SlotsAtSetjmp, SpOver, SlotsHeld, AllFns
<1>10. ActOK(v1, a)
  <2>1. CASE fn \in JumpFns
    <3>1. JumpFrame[fn] = JumpTypeOf[fn] /\ fn \notin {"rep", "debug", "load"}
      BY <2>1 DEF JumpFns, JumpFrame, JumpTypeOf
    <3>2. jb = Len(v1.frames) /\ jb # 0 /\ jb \in DOMAIN v1.frames
      BY <2>1, <1>6, <1>7
    <3> QED  BY <2>1, <3>1, <3>2, <1>6, <1>7, <1>8, <1>9 DEF ActOK, FramesOf
  <2>2. CASE fn \notin JumpFns
    BY <2>2, <1>8 DEF ActOK, JumpFns, AllFns
  <2> QED  BY <2>1, <2>2
<1>11. /\ a.fn # "rep" /\ a.phase # "read" /\ Floor(a) <= Len(v1.frames)
       /\ \A i \in Len(v.frames) + 1 .. Len(v1.frames) :
             v1.frames[i].type \in JumpTypes => i = a.jb
  BY <1>6, <1>7, <1>8 DEF Floor, AllFns
<1>12. Layout(v1, Append(c, a))
  BY <1>1, <1>6, <1>7, <1>8, <1>9, <1>10, <1>11, EnterLayout
<1> QED  BY <1>6, <1>7, <1>12 DEF a, v0, v1, v2, v3

-----------------------------------------------------------------------------
(* Leaving functions.                                                      *)

\* A raised exception level means that a handler runs.
Level(v, c) == v.except_lvl = 1 => \E k \in 1 .. Len(c) : c[k].phase = "handler"

\* The handler that raised the level is still there, or its frame went and
\* took the level down.
LEMMA LevelKept ==
  ASSUME NEW v, NEW c, VmOK(v), Layout(v, c), Level(v, c),
         NEW k \in 1 .. Len(c), NEW n \in Nat, NEW w, NEW d, NEW a,
         Becomes(c, d, k, a),
         \A l \in 1 .. Len(c) : l > k /\ c[l].jb # 0 => c[l].jb > n,
         c[k].phase = "handler" => a.phase = "handler",
         w.except_lvl = 1 =>
             v.except_lvl = 1 /\ (k = Len(c) \/ Popped(v, n, "EXCEPT") = {})
  PROVE  Level(w, d)
<1> SUFFICES ASSUME w.except_lvl = 1
             PROVE  \E j \in 1 .. Len(d) : d[j].phase = "handler"
  BY DEF Level
<1>1. /\ v \in Vms /\ Len(v.frames) \in Nat /\ Len(c) \in Nat
      /\ DOMAIN v.frames = 1 .. Len(v.frames)
  BY DEF VmOK, Vms, Layout
<1>2. PICK l \in 1 .. Len(c) : c[l].phase = "handler"
  BY DEF Level
<1>3. l <= k
  <2>1. CASE k = Len(c)
    BY <2>1, <1>1
  <2>2. CASE Popped(v, n, "EXCEPT") = {}
    <3>1. ActOK(v, c[l])  BY DEF Layout
    <3>2. /\ c[l].fn = "try" /\ c[l].jb # 0 /\ c[l].jb \in Nat
          /\ c[l].jb \in FramesOf(v, "EXCEPT")
      BY <3>1, <1>2, ActivationTypes DEF ActOK, JumpTypeOf
    <3>3. c[l].jb <= n
      BY <2>2, <3>2, <1>1 DEF Popped, FramesOf
    <3> QED  BY <3>2, <3>3, <1>1
  <2> QED  BY <2>1, <2>2
<1>4. CASE l = k
  BY <1>2, <1>4, <1>1 DEF Becomes
<1>5. CASE l # k
  <2>1. l \in 1 .. Len(d) /\ d[l] = c[l]
    BY <1>3, <1>5, <1>1 DEF Becomes
  <2> QED  BY <2>1, <1>2
<1> QED  BY <1>4, <1>5

\* Popping to m frames and then to n is popping to n at once.
LEMMA CutCut ==
  ASSUME NEW v, NEW u, NEW w, VmOK(v), VmOK(u), VmOK(w),
         NEW m \in 0 .. Len(v.frames), NEW n \in 0 .. m,
         Cut(v, u, m), Cut(u, w, n)
  PROVE  Cut(v, w, n)
<1>1. /\ Len(v.frames) \in Nat /\ DOMAIN v.frames = 1 .. Len(v.frames)
      /\ Len(u.frames) = m
  BY DEF VmOK, Vms, Cut
<1>2. Popped(v, n, "EXCEPT") = Popped(u, n, "EXCEPT") \cup Popped(v, m, "EXCEPT")
  BY <1>1 DEF Popped, Cut
<1>3. \A i \in 1 .. n : w.frames[i] = v.frames[i]
  BY <1>1 DEF Cut
<1>4. w.except_lvl = IF Popped(v, n, "EXCEPT") = {} THEN v.except_lvl ELSE 0
  BY <1>2 DEF Cut
<1> QED  BY <1>3, <1>4 DEF Cut

\* What an activation's frames are survives a cut above them.
LEMMA CutKeeps ==
  ASSUME NEW v, NEW w, VmOK(v), VmOK(w), NEW n \in 0 .. Len(v.frames),
         Cut(v, w, n)
  PROVE  Keeps(v, w, n)
<1>1. Len(v.frames) \in Nat  BY DEF VmOK, Vms
<1> QED  BY <1>1 DEF Cut, Keeps

\* Activation k returns, out of a VM state u that still has its frames.
LEMMA ReturnOK ==
  ASSUME NEW v, NEW c, VmOK(v), Layout(v, c), NEW k \in 2 .. Len(c),
         NEW u, VmOK(u), NEW m \in 0 .. Len(v.frames), Cut(v, u, m),
         c[k].save.fp <= m
  PROVE  LET w == ReturnFrom(u, c[k])
             d == SubSeq(c, 1, k - 1)
         IN  /\ VmOK(w) /\ Layout(w, d) /\ Len(d) >= 1 /\ d[1] = c[1]
             /\ \A j \in 1 .. Len(d) : d[j] = c[j] /\ j \in 1 .. Len(c)
             /\ Level(v, c) => Level(w, d)
<1> DEFINE r == vm_state_restore(u, c[k].save)
           w == ReturnFrom(u, c[k])
           d == SubSeq(c, 1, k - 1)
           n == c[k].save.fp
           a == c[k - 1]
<1>1. /\ Len(v.frames) \in Nat /\ Len(c) \in Nat /\ c \in Seq(Activations)
      /\ k - 1 \in 1 .. Len(c) /\ k \in 1 .. Len(c) /\ (k - 1) + 1 = k
  <2>1. Len(v.frames) \in Nat  BY DEF VmOK, Vms
  <2>2. Len(c) \in Nat /\ c \in Seq(Activations)  BY DEF Layout
  <2> QED  BY <2>1, <2>2
<1>2. ActOK(v, c[k]) /\ ActOK(v, a)
  BY <1>1 DEF Layout
<1>3. c[k].save \in Saves /\ n \in Nat /\ c[k].save.sp \in Nat
  BY <1>2, ActivationTypes DEF ActOK
<1>4. Len(u.frames) = m  BY DEF Cut
<1>5. VmOK(r) /\ Cut(u, r, n) /\ r.sp = c[k].save.sp
  BY <1>3, <1>4, RestoreOK, Zenon
<1>6. Cut(v, r, n)
  BY <1>3, <1>5, CutCut
<1>7. c[k].save.sp = SpOver(a) + CallSlots /\ SpOver(a) \in Nat
  <2>1. c[k].save.sp = SpOver(a) + CallSlots
    BY <1>1 DEF Layout
  <2>2. SpOver(a) \in Nat
    BY <1>2, SlotsNat DEF ActOK
  <2> QED  BY <2>1, <2>2, <1>1
<1>8. w = [r EXCEPT !.sp = r.sp - CallSlots]
  BY DEF ReturnFrom
<1>9. /\ w \in Vms /\ w.frames = r.frames /\ w.type_fp = r.type_fp
      /\ w.bufs = r.bufs /\ w.except_lvl = r.except_lvl
      /\ w.sp = SpOver(a)
  <2> DEFINE q == r.sp - CallSlots
  <2>1. q = SpOver(a) /\ q \in Nat
    BY <1>5, <1>7 DEF CallSlots
  <2>2. r \in Vms  BY <1>5 DEF VmOK
  <2>3. w = [r EXCEPT !.sp = q]  BY <1>8
  <2> HIDE DEF q, w, r
  <2> QED  BY <2>1, <2>2, <2>3 DEF Vms
<1> HIDE DEF w, r
<1>10. VmOK(w) /\ Cut(v, w, n)
  <2>1. VmOK(w)  BY <1>5, <1>9, SameFramesOK
  <2> QED  BY <2>1, <1>6, <1>9 DEF Cut
<1>11. Keeps(v, w, n)
  BY <1>3, <1>10, CutKeeps
<1>12. /\ d \in Seq(Activations) /\ Len(d) = k - 1
       /\ \A j \in 1 .. k - 1 : d[j] = c[j]
  BY <1>1
<1>13. Becomes(c, d, k - 1, a)
  BY <1>1, <1>12 DEF Becomes
<1>14. Floor(a) <= n /\ a.phase \in CanCall
  BY <1>1 DEF Layout
<1>15. ASSUME NEW l \in 1 .. Len(c), l > k - 1, c[l].jb # 0
       PROVE  c[l].jb > n
  <2>1. ActOK(v, c[l])  BY DEF Layout
  <2>2. c[l].save.fp < c[l].jb /\ c[l].save.fp \in Nat /\ c[l].jb \in Nat
    BY <2>1, <1>15, ActivationTypes DEF ActOK
  <2>3. n <= c[l].save.fp
    <3>1. CASE l = k  BY <3>1, <1>3
    <3>2. CASE l # k
      <4>1. Floor(c[k]) <= c[l].save.fp
        BY <3>2, <1>1, <1>15 DEF Layout
      <4>2. n <= Floor(c[k]) /\ Floor(c[k]) \in Nat
        BY <1>2, <1>3, ActivationTypes DEF Floor, ActOK
      <4> QED  BY <4>1, <4>2, <2>2, <1>3
    <3> QED  BY <3>1, <3>2
  <2> QED  BY <2>2, <2>3, <1>3
<1>16. ActOK(w, a)
  <2>1. a.jb # 0 => a.jb \in 1 .. n
    BY <1>2, <1>3, <1>14, ActivationTypes DEF Floor, ActOK
  <2>2. a.jb # 0 => w.frames[a.jb] = v.frames[a.jb] /\ a.jb \in DOMAIN w.frames
    BY <2>1, <1>10 DEF Cut
  <2> QED  BY <2>2, <1>2 DEF ActOK, FramesOf
<1>17. Layout(w, d)
  <2>1. a.phase # "read"  BY <1>14 DEF CanCall
  <2> HIDE DEF a, d, n
  <2> QED  BY <2>1, <1>1, <1>9, <1>10, <1>11, <1>13, <1>14, <1>15, <1>16,
             InnermostLayout DEF a
<1>18. ASSUME Level(v, c)  PROVE Level(w, d)
  <2>1. w.except_lvl = 1 =>
            v.except_lvl = 1 /\ Popped(v, n, "EXCEPT") = {}
    BY <1>10 DEF Cut
  <2>2. c[k - 1].phase = "handler" => a.phase = "handler"
    OBVIOUS
  <2> HIDE DEF d, n, a
  <2> QED  BY <2>1, <2>2, <1>1, <1>3, <1>13, <1>15, <1>18, LevelKept
<1>19. Len(d) >= 1 /\ d[1] = c[1]
       /\ \A j \in 1 .. Len(d) : d[j] = c[j] /\ j \in 1 .. Len(c)
  BY <1>1, <1>12
<1> QED  BY <1>10, <1>17, <1>18, <1>19 DEF w

\* longjmp lands in activation k, which goes on in phase ph.
LEMMA LandOK ==
  ASSUME NEW v, NEW c, VmOK(v), Layout(v, c), NEW k \in 1 .. Len(c),
         c[k].jb # 0, NEW w, VmOK(w), Keeps(v, w, c[k].jb),
         NEW ph \in Phases, ph # "read",
         ph = "handler" => c[k].fn = "try",
         ph = "goto" => c[k].fn = "prog",
         NEW d, d = SetTopOf(SubSeq(c, 1, k), ph),
         w.sp = c[k].save.sp + SlotsAtSetjmp(c[k])
                  + IF ph = "handler" THEN 1 ELSE 0
  PROVE  /\ Layout(w, d)
         /\ Becomes(c, d, k, [c[k] EXCEPT !.phase = ph])
         /\ \A l \in 1 .. Len(c) : l > k /\ c[l].jb # 0 => c[l].jb > c[k].jb
<1> DEFINE a == [c[k] EXCEPT !.phase = ph]
           n == c[k].jb
<1>1. /\ Len(v.frames) \in Nat /\ Len(w.frames) \in Nat
      /\ DOMAIN v.frames = 1 .. Len(v.frames)
      /\ DOMAIN w.frames = 1 .. Len(w.frames)
      /\ Len(c) \in Nat /\ c \in Seq(Activations)
  BY DEF VmOK, Vms, Layout
<1>2. ActOK(v, c[k]) /\ c[k] \in Activations
  BY DEF Layout, ActOK
<1>3. /\ a \in Activations /\ a.fn = c[k].fn /\ a.save = c[k].save
      /\ a.jb = c[k].jb /\ a.phase = ph
  BY <1>2 DEF Activations
<1>4. Becomes(c, d, k, a)
  <2> DEFINE e == SubSeq(c, 1, k)
  <2>1. /\ e \in Seq(Activations) /\ Len(e) = k
        /\ \A j \in 1 .. k : e[j] = c[j]
    BY <1>1
  <2>2. d = [e EXCEPT ![k] = [e[k] EXCEPT !.phase = ph]]
    BY <2>1 DEF SetTopOf
  <2>3. e[k] = c[k]
    BY <2>1
  <2> HIDE DEF e
  <2>4. d = [e EXCEPT ![k] = a]
    BY <2>2, <2>3, Zenon
  <2> HIDE DEF a
  <2>5. d \in Seq(Activations) /\ Len(d) = k /\ d[k] = a
    BY <2>1, <2>4, <1>3
  <2>6. ASSUME NEW j \in 1 .. k, j # k  PROVE d[j] = c[j]
    BY <2>1, <2>4, <2>6
  <2> QED  BY <2>5, <2>6, <1>3 DEF Becomes
<1>5. n \in 1 .. Len(v.frames) /\ n \in Nat
  BY <1>1, <1>2 DEF ActOK, FramesOf
<1>6. ActOK(w, a)
  <2>1. /\ n \in DOMAIN w.frames /\ w.frames[n].type = v.frames[n].type
        /\ w.frames[n].save = v.frames[n].save
    BY <1>1, <1>5 DEF Keeps
  <2> HIDE DEF a
  <2> QED  BY <2>1, <1>2, <1>3 DEF ActOK, FramesOf, SlotsAtSetjmp
<1>7. Floor(a) <= n
  BY <1>3, <1>5 DEF Floor
<1>8. ASSUME NEW l \in 1 .. Len(c), l > k, c[l].jb # 0
      PROVE  c[l].jb > n
  <2>1. /\ ActOK(v, c[l]) /\ Floor(c[k]) <= c[l].save.fp
    BY <1>8, <1>1 DEF Layout
  <2>2. c[l].save.fp < c[l].jb /\ c[l].save.fp \in Nat /\ c[l].jb \in Nat
    BY <2>1, <1>8, ActivationTypes DEF ActOK
  <2> QED  BY <2>1, <2>2, <1>5 DEF Floor
<1>9. w.sp = SpOver(a)
  <2>1. SlotsAtSetjmp(a) = SlotsAtSetjmp(c[k])
    BY <1>3 DEF SlotsAtSetjmp
  <2>2. SlotsAtSetjmp(c[k]) \in Nat /\ c[k].save.sp \in Nat
    BY <1>2, SlotsNat, ActivationTypes
  <2> HIDE DEF a
  <2> QED  BY <2>1, <2>2, <1>3 DEF SpOver, SlotsHeld
<1>10. Layout(w, d)
  <2> HIDE DEF a, n
  <2> QED  BY <1>3, <1>4, <1>5, <1>6, <1>7, <1>8, <1>9, InnermostLayout DEF n
<1> QED  BY <1>4, <1>8, <1>10

\* The frame x that a longjmp goes to, and the activation k that owns it.
Owns(v, c, t, x, k) ==
    /\ x \in DOMAIN v.frames /\ v.frames[x].type = t
    /\ k \in 1 .. Len(c) /\ c[k].jb = x /\ JumpTypeOf[c[k].fn] = t
    /\ c[k].fn \in {"rep", "debug"} \cup JumpFns
    /\ v.frames[x].save \in Saves /\ v.frames[x].save.fp = x
    /\ v.frames[x].save.sp = c[k].save.sp + SlotsAtSetjmp(c[k])
    /\ Popped(v, x, t) = {}

\* The innermost frame of a jump type has a live owner, and it is the innermost
\* activation whose jmp_buf has that type.
LEMMA OwnerOK ==
  ASSUME NEW v, NEW c, VmOK(v), Layout(v, c), NEW t \in JumpTypes,
         v.type_fp[t] # 0
  PROVE  Owns(v, c, t, v.type_fp[t], Owner(c, v.type_fp[t]))
<1> DEFINE x == v.type_fp[t]
           k == Owner(c, x)
<1>1. /\ Len(v.frames) \in Nat /\ DOMAIN v.frames = 1 .. Len(v.frames)
      /\ v.frames \in Seq(Frames)
      /\ t \in FrameTypes
  BY DEF VmOK, Vms, JumpTypes, FrameTypes
<1>2. TopmostBelow(v, t, Len(v.frames) + 1, x)
  BY <1>1 DEF VmOK, Linked
<1>3. x \in DOMAIN v.frames /\ v.frames[x].type = t
  BY <1>2 DEF TopmostBelow, FramesOf
<1>4. Popped(v, x, t) = {}
  BY <1>1, <1>2, <1>3 DEF TopmostBelow, FramesOf, Popped
<1>5. \E j \in 1 .. Len(c) : c[j].jb = x
  BY <1>3 DEF Layout
<1>6. k \in 1 .. Len(c) /\ c[k].jb = x
  BY <1>5 DEF Owner
<1>7. ActOK(v, c[k])
  BY <1>6 DEF Layout
<1>8. v.frames[x] \in Frames
  BY <1>1, <1>3
<1>9. v.frames[x].save \in Saves /\ v.frames[x].save.fp = x
  BY <1>3, <1>8 DEF VmOK, Frames
<1>10. x # 0  OBVIOUS
<1> HIDE DEF x, k
<1>11. Owns(v, c, t, x, k)
  BY <1>3, <1>4, <1>6, <1>7, <1>9, <1>10 DEF ActOK, FramesOf, Owns
<1> QED  BY <1>11 DEF x, k

\* There is always an EXCEPT frame to raise to: the loop's own.
LEMMA SomeHandler ==
  ASSUME NEW v, NEW c, VmOK(v), Layout(v, c)
  PROVE  v.type_fp["EXCEPT"] # 0
<1>1. /\ Len(v.frames) \in Nat /\ DOMAIN v.frames = 1 .. Len(v.frames)
  BY DEF VmOK, Vms
<1>2. TopmostBelow(v, "EXCEPT", Len(v.frames) + 1, v.type_fp["EXCEPT"])
  BY DEF VmOK, Linked, FrameTypes
<1>3. ActOK(v, c[1]) /\ c[1].fn = "rep"
  BY DEF Layout
<1>4. c[1].jb \in FramesOf(v, "EXCEPT")
  BY <1>3 DEF ActOK, JumpTypeOf
<1> QED  BY <1>1, <1>2, <1>4 DEF TopmostBelow, FramesOf

-----------------------------------------------------------------------------
(* The inductive invariant.                                                *)

\* In a release build there is one loop that reports exceptions, the one at
\* the bottom, so an exception it catches was raised outside every handler.
Quiet(v, c, et) ==
    ~Debug => /\ et = c[1].jb
              /\ \A k \in 1 .. Len(c) : c[k].fn # "debug"
              /\ Level(v, c)

Good(v, c, et) ==
    /\ VmOK(v) /\ Layout(v, c)
    /\ et \in Nat
    /\ Quiet(v, c, et)

Statuses == {"run", "exit", "fatal", "double", "aborted"}

IInv == Good(vm, cstk, except_top) /\ status \in Statuses

\* Stopping changes nothing but the status.
LEMMA StopOK ==
  ASSUME IInv, NEW how \in Statuses, Stop(how)
  PROVE  IInv'
BY DEF IInv, Stop, Good, VmOK, Linked, TopmostBelow, FramesOf, Owned, Layout,
       ActOK, SpOver, SlotsHeld, SlotsAtSetjmp, Floor, Quiet, Level

\* Going on leads to the given state, or to a fatal stop.
LEMMA ContinueOK ==
  ASSUME IInv, NEW v, NEW c, Good(v, c, except_top), Continue(v, c)
  PROVE  IInv'
<1>1. CASE Fits(v)
  <2>1. /\ vm' = v /\ cstk' = c /\ except_top' = except_top
        /\ status' = status
    BY <1>1 DEF Continue
  <2> QED  BY <2>1 DEF IInv
<1>2. CASE ~Fits(v)
  <2>1. Stop("fatal")  BY <1>2 DEF Continue
  <2> QED  BY <2>1, StopOK DEF Statuses
<1> QED  BY <1>1, <1>2

\* The innermost activation is replaced.
LEMMA InnermostBecomes ==
  ASSUME NEW c, c \in Seq(Activations), Len(c) >= 1, NEW a \in Activations,
         a.fn = c[Len(c)].fn, a.save = c[Len(c)].save
  PROVE  Becomes(c, [c EXCEPT ![Len(c)] = a], Len(c), a)
BY DEF Becomes

\* A step of the innermost activation that keeps its n lowest frames.
LEMMA InnerOK ==
  ASSUME NEW v, NEW c, NEW et, Good(v, c, et),
         NEW w, VmOK(w), NEW n, Keeps(v, w, n),
         NEW d, NEW a, Becomes(c, d, Len(c), a), ActOK(w, a),
         a.jb = c[Len(c)].jb \/ (a.jb = 0 /\ c[Len(c)].jb > n),
         Floor(a) <= n,
         a.phase = "read" => n < Len(w.frames)
                             /\ w.frames[Len(w.frames)].type = "MEM",
         w.sp = SpOver(a),
         c[Len(c)].phase = "handler" => a.phase = "handler",
         w.except_lvl = 1 => v.except_lvl = 1
  PROVE  Good(w, d, et)
<1> DEFINE k == Len(c)
<1>1. /\ VmOK(v) /\ Layout(v, c) /\ et \in Nat /\ Quiet(v, c, et)
      /\ k \in Nat /\ k \in 1 .. Len(c) /\ c \in Seq(Activations)
      /\ a \in Activations
  BY DEF Good, Layout, ActOK
<1>2. /\ d \in Seq(Activations) /\ Len(d) = k /\ d[k] = a
      /\ \A j \in 1 .. k : j # k => d[j] = c[j]
      /\ a.fn = c[k].fn
  BY DEF Becomes
<1> HIDE DEF k
<1>3. Becomes(c, d, k, a)
  BY DEF k
<1>4. \A l \in 1 .. Len(c) : ~(l > k)
  BY <1>1 DEF k
<1>5. Layout(w, d)
  <2>1. a.jb = c[k].jb \/ (a.jb = 0 /\ c[k].jb > n)
    BY DEF k
  <2> QED  BY <2>1, <1>1, <1>3, <1>4, InnermostLayout
<1>6. ASSUME Level(v, c)  PROVE Level(w, d)
  <2>1. c[k].phase = "handler" => a.phase = "handler"
    BY DEF k
  <2>2. w.except_lvl = 1 =>
            v.except_lvl = 1 /\ (k = Len(c) \/ Popped(v, Len(c), "EXCEPT") = {})
    BY DEF k
  <2>3. Len(c) \in Nat  BY <1>1 DEF k
  <2>4. \A l \in 1 .. Len(c) : l > k /\ c[l].jb # 0 => c[l].jb > Len(c)
    BY <1>4
  <2> QED  BY <2>1, <2>2, <2>3, <2>4, <1>1, <1>3, <1>6, LevelKept
<1>7. Quiet(w, d, et)
  <2> SUFFICES ASSUME ~Debug
               PROVE  /\ et = d[1].jb /\ Level(w, d)
                      /\ \A j \in 1 .. Len(d) : d[j].fn # "debug"
    BY DEF Quiet
  <2>1. et = c[1].jb /\ Level(v, c)
        /\ \A j \in 1 .. Len(c) : c[j].fn # "debug"
    BY <1>1 DEF Quiet
  <2>2. CASE k = 1
    <3>1. a.jb # 0
      <4>1. c[1].fn = "rep"  BY <1>1 DEF Layout
      <4>2. a.fn = "rep"  BY <4>1, <2>2, <1>2
      <4> QED  BY <4>2 DEF ActOK
    <3>2. a.jb = c[1].jb  BY <3>1, <2>2 DEF k
    <3> QED  BY <2>1, <2>2, <3>2, <1>1, <1>2, <1>6 DEF k
  <2>3. CASE k # 1
    <3>1. 1 \in 1 .. k  BY <1>1
    <3>2. d[1] = c[1]  BY <3>1, <2>3, <1>2
    <3>3. \A j \in 1 .. Len(d) : d[j].fn # "debug"
      <4> TAKE j \in 1 .. Len(d)
      <4>1. j \in 1 .. Len(c) /\ d[j].fn = c[j].fn
        BY <1>1, <1>2 DEF k
      <4> QED  BY <4>1, <2>1
    <3> QED  BY <3>2, <3>3, <2>1, <1>6
  <2> QED  BY <2>2, <2>3
<1> QED  BY <1>1, <1>5, <1>7 DEF Good

\* Only the phase of the innermost activation changes, and the VM does not.
LEMMA PhaseOK ==
  ASSUME NEW v, NEW c, NEW et, Good(v, c, et), NEW ph \in Phases,
         ph \in {"idle", "eval", "body"},
         c[Len(c)].phase \in {"idle", "eval", "goto"}
  PROVE  Good(v, SetTopOf(c, ph), et)
<1> DEFINE a == [c[Len(c)] EXCEPT !.phase = ph]
<1>1. /\ VmOK(v) /\ Layout(v, c) /\ Len(c) \in 1 .. Len(c)
      /\ ActOK(v, c[Len(c)]) /\ c[Len(c)] \in Activations
      /\ v \in Vms /\ Len(v.frames) \in Nat
  <2>1. VmOK(v) /\ Layout(v, c)  BY DEF Good
  <2>2. Len(c) \in 1 .. Len(c)  BY <2>1 DEF Layout
  <2>3. ActOK(v, c[Len(c)])  BY <2>1, <2>2 DEF Layout
  <2> QED  BY <2>1, <2>2, <2>3 DEF ActOK, VmOK, Vms
<1>2. /\ a \in Activations /\ a.fn = c[Len(c)].fn /\ a.save = c[Len(c)].save
      /\ a.jb = c[Len(c)].jb /\ a.phase = ph
  BY <1>1 DEF Activations
<1>3. SetTopOf(c, ph) = [c EXCEPT ![Len(c)] = a]
  BY DEF SetTopOf
<1> HIDE DEF a
<1>4. ActOK(v, a)
  BY <1>1, <1>2 DEF ActOK, SlotsAtSetjmp
<1>5. Floor(a) <= Len(v.frames) /\ v.sp = SpOver(a)
  BY <1>1, <1>2 DEF Layout, Floor, SpOver, SlotsHeld, SlotsAtSetjmp
<1>6. Keeps(v, v, Len(v.frames))
  BY <1>1 DEF Keeps
<1>7. a.phase # "read" /\ c[Len(c)].phase # "handler"
  BY <1>2
<1>8. Becomes(c, SetTopOf(c, ph), Len(c), a)
  <2>1. c \in Seq(Activations) /\ Len(c) >= 1
    BY <1>1 DEF Layout
  <2> QED  BY <1>2, <1>3, <2>1, InnermostBecomes, Zenon
<1> QED  BY <1>1, <1>2, <1>4, <1>5, <1>6, <1>7, <1>8, InnerOK

\* Call preserves the invariant.
LEMMA CallOK ==
  ASSUME IInv, NEW fn \in Fns, Call(fn)
  PROVE  IInv'
<1> DEFINE v0 == eval_alloc(vm, CallSlots)
           v1 == EnterFrames(fn, eval_alloc(CallFrames(v0), WorkSlots[fn]))
           jb == IF fn \in JumpFns THEN Len(v1.frames) ELSE 0
           ph == IF fn = "load" THEN "idle" ELSE "body"
           a  == Activation(fn, ph, vm_state_save(v0), jb, 0)
           d  == Append(cstk, a)
<1>1. fn \in AllFns  BY VmStackAssumption
<1>2. /\ VmOK(vm) /\ Layout(vm, cstk) /\ except_top \in Nat
      /\ Quiet(vm, cstk, except_top)
      /\ cstk \in Seq(Activations) /\ Len(cstk) \in Nat \ {0}
  BY DEF IInv, Good, Layout
<1>3. Top.phase \in CanCall /\ Continue(v1, d)
  BY DEF Call, Evaluating, CanCall
<1>4. VmOK(v1) /\ Layout(v1, d) /\ v1.except_lvl = vm.except_lvl
  BY <1>1, <1>2, <1>3, CallLayout, Zenon DEF Top
<1>5. a.fn # "debug"
  BY <1>1 DEF Activation, AllFns
<1> HIDE DEF a, v1
<1>6. /\ Len(d) = Len(cstk) + 1 /\ d[Len(cstk) + 1] = a
      /\ \A k \in 1 .. Len(cstk) : d[k] = cstk[k]
  BY <1>2
<1> HIDE DEF d
<1>7. ASSUME Level(vm, cstk)  PROVE Level(v1, d)
  BY <1>2, <1>4, <1>6, <1>7 DEF Level
<1>8. Quiet(v1, d, except_top)
  BY <1>2, <1>5, <1>6, <1>7 DEF Quiet
<1>9. Good(v1, d, except_top)
  BY <1>2, <1>4, <1>8 DEF Good
<1> QED  BY <1>3, <1>9, ContinueOK

\* The activations below k are left: the ones of a return.
LEMMA LeftOK ==
  ASSUME NEW v, NEW c, NEW et, Good(v, c, et), NEW k \in 2 .. Len(c),
         NEW u, VmOK(u), NEW m \in 0 .. Len(v.frames), Cut(v, u, m),
         c[k].save.fp <= m,
         NEW et2 \in Nat, et2 = et \/ Debug
  PROVE  Good(ReturnFrom(u, c[k]), SubSeq(c, 1, k - 1), et2)
<1> DEFINE w == ReturnFrom(u, c[k])
           d == SubSeq(c, 1, k - 1)
<1>1. VmOK(v) /\ Layout(v, c) /\ Quiet(v, c, et)
  BY DEF Good
<1>2. /\ VmOK(w) /\ Layout(w, d) /\ Len(d) >= 1 /\ d[1] = c[1]
      /\ \A j \in 1 .. Len(d) : d[j] = c[j] /\ j \in 1 .. Len(c)
      /\ Level(v, c) => Level(w, d)
  BY <1>1, ReturnOK, Zenon
<1> HIDE DEF w, d
<1>3. Quiet(w, d, et2)
  BY <1>1, <1>2 DEF Quiet
<1>4. Good(w, d, et2)
  BY <1>2, <1>3 DEF Good
<1> QED  BY <1>4 DEF w, d

\* Popping nothing is a cut at the top.
LEMMA CutAll ==
  ASSUME NEW v, VmOK(v)
  PROVE  Cut(v, v, Len(v.frames)) /\ Len(v.frames) \in 0 .. Len(v.frames)
<1>1. /\ v \in Vms /\ Len(v.frames) \in Nat
      /\ DOMAIN v.frames = 1 .. Len(v.frames)
  BY DEF VmOK, Vms
<1>2. Popped(v, Len(v.frames), "EXCEPT") = {}
  BY <1>1 DEF Popped
<1> QED  BY <1>1, <1>2 DEF Cut

\* The activations that are not the loop's own are above it.
LEMMA AboveLoop ==
  ASSUME NEW v, NEW c, VmOK(v), Layout(v, c), NEW k \in 1 .. Len(c),
         c[k].fn # "rep"
  PROVE  k \in 2 .. Len(c)
<1>1. c[1].fn = "rep" /\ Len(c) \in Nat  BY DEF Layout
<1> QED  BY <1>1

\* Return preserves the invariant, out of a try as well as of any other call.
LEMMA ReturnStep ==
  ASSUME IInv, Return
  PROVE  IInv'
<1> DEFINE k == Len(cstk)
           w == ReturnFrom(vm, cstk[k])
           x == frame_pop(vm, cstk[k].jb)
           y == ReturnFrom(x, cstk[k])
           d == SubSeq(cstk, 1, k - 1)
<1>1. /\ VmOK(vm) /\ Layout(vm, cstk) /\ except_top \in Nat
      /\ Good(vm, cstk, except_top) /\ status \in Statuses
      /\ k \in Nat /\ k \in 1 .. Len(cstk) /\ ActOK(vm, cstk[k])
      /\ Floor(cstk[k]) <= Len(vm.frames) /\ Len(vm.frames) \in Nat
      /\ DOMAIN vm.frames = 1 .. Len(vm.frames)
  BY DEF IInv, Good, Layout, VmOK, Vms
<1>2. cstk[k].fn # "rep"
  BY DEF Return, Top, AllFns
<1>3. k \in 2 .. Len(cstk)
  BY <1>1, <1>2, AboveLoop
<1>4. cstk[k].save.fp \in Nat /\ cstk[k].jb \in Nat
  BY <1>1, ActivationTypes DEF ActOK
<1>5. cstk' = d /\ except_top' = except_top /\ status' = status
  BY DEF Return
<1> HIDE DEF k
<1>6. Good(w, d, except_top)
  <2>1. cstk[k].save.fp <= Len(vm.frames)
    BY <1>1, <1>4 DEF Floor, ActOK
  <2> QED  BY <2>1, <1>1, <1>3, CutAll, LeftOK
<1>7. CASE vm' = w
  BY <1>1, <1>5, <1>6, <1>7 DEF IInv
<1>8. CASE /\ Top.fn = "try" /\ Top.phase \in {"body", "handler"}
           /\ vm' = ReturnFrom(frame_pop(vm, Top.jb), Top)
  <2>1. vm' = y /\ cstk[k].fn = "try" /\ cstk[k].phase # "final"
    BY <1>8 DEF Top, k
  <2>2. cstk[k].jb # 0 /\ cstk[k].save.fp < cstk[k].jb
        /\ cstk[k].jb \in 1 .. Len(vm.frames)
    BY <2>1, <1>1 DEF ActOK, FramesOf
  <2>3. cstk[k].jb - 1 \in 0 .. Len(vm.frames)
        /\ cstk[k].save.fp <= cstk[k].jb - 1
    BY <2>2, <1>1, <1>4
  <2>4. VmOK(x) /\ Cut(vm, x, cstk[k].jb - 1)
    BY <2>3, <1>1, UnwindOK, Zenon DEF frame_pop
  <2> HIDE DEF x
  <2>5. Good(y, d, except_top)
    BY <2>3, <2>4, <1>1, <1>3, LeftOK
  <2> QED  BY <2>1, <2>5, <1>1, <1>5 DEF IInv
<1> QED  BY <1>7, <1>8 DEF Return, Top, k

\* TryFinal preserves the invariant: only the try's own frame goes.
LEMMA TryFinalOK ==
  ASSUME IInv, TryFinal
  PROVE  IInv'
<1> DEFINE b == cstk[Len(cstk)]
           a == [b EXCEPT !.phase = "final", !.jb = 0]
           n == b.jb - 1
           w == frame_pop(vm, b.jb)
           d == [cstk EXCEPT ![Len(cstk)] = a]
<1>1. /\ VmOK(vm) /\ Layout(vm, cstk) /\ Good(vm, cstk, except_top)
      /\ status \in Statuses /\ Len(cstk) \in 1 .. Len(cstk)
      /\ Len(vm.frames) \in Nat /\ DOMAIN vm.frames = 1 .. Len(vm.frames)
      /\ cstk \in Seq(Activations)
  BY DEF IInv, Good, Layout, VmOK, Vms
<1>2. ActOK(vm, b) /\ vm.sp = SpOver(b) /\ b.fn = "try" /\ b.phase = "body"
  BY <1>1 DEF Layout, TryFinal, Top
<1>3. vm' = w /\ cstk' = d /\ except_top' = except_top /\ status' = status
  BY DEF TryFinal, Top
<1>4. b \in Activations /\ b.jb \in Nat /\ b.save.fp \in Nat
  BY <1>2, ActivationTypes DEF ActOK
<1>5. /\ a \in Activations /\ a.fn = "try" /\ a.fn = b.fn /\ a.save = b.save
      /\ a.jb = 0 /\ a.phase = "final"
  BY <1>2, <1>4 DEF Activations, Phases
<1> HIDE DEF b
<1>6. /\ b.jb \in 1 .. Len(vm.frames) /\ b.save.fp + 3 <= b.jb
      /\ n \in 0 .. Len(vm.frames) /\ b.save.fp + 2 <= n /\ b.jb > n
  BY <1>1, <1>2, <1>4 DEF ActOK, FramesOf
<1>7. VmOK(w) /\ Cut(vm, w, n) /\ w.sp = vm.sp
  BY <1>1, <1>6, UnwindOK, Zenon DEF frame_pop
<1> HIDE DEF w, n, a
<1>8. Keeps(vm, w, n)
  BY <1>1, <1>6, <1>7, CutKeeps
<1>9. ActOK(w, a) /\ Floor(a) <= n
  BY <1>2, <1>5, <1>6 DEF ActOK, Floor
<1>10. w.sp = SpOver(a)
  BY <1>2, <1>5, <1>7 DEF SpOver, SlotsHeld, SlotsAtSetjmp
<1>11. Becomes(cstk, d, Len(cstk), a)
  BY <1>1, <1>5, InnermostBecomes DEF b
<1>12. w.except_lvl = 1 => vm.except_lvl = 1
  BY <1>7 DEF Cut
<1> HIDE DEF d
<1>13. Good(w, d, except_top)
  <2>1. a.jb = 0 /\ cstk[Len(cstk)].jb > n
    BY <1>5, <1>6 DEF b
  <2>2. a.phase # "read" /\ cstk[Len(cstk)].phase # "handler"
    BY <1>2, <1>5 DEF b
  <2> QED  BY <2>1, <2>2, <1>1, <1>7, <1>8, <1>9, <1>10, <1>11, <1>12, InnerOK
<1> QED  BY <1>1, <1>3, <1>13 DEF IInv

\* ReadToken preserves the invariant: the buffer's frame is on top.
LEMMA ReadTokenOK ==
  ASSUME IInv, ReadToken
  PROVE  IInv'
<1> DEFINE b == cstk[Len(cstk)]
           a == [b EXCEPT !.phase = "read"]
           n == Len(vm.frames)
           w == ebuf_push(vm)
           d == SetTopOf(cstk, "read")
<1>1. /\ VmOK(vm) /\ Layout(vm, cstk) /\ Good(vm, cstk, except_top)
      /\ Len(cstk) \in 1 .. Len(cstk) /\ n \in Nat
      /\ cstk \in Seq(Activations)
  BY DEF IInv, Good, Layout, VmOK, Vms
<1>2. ActOK(vm, b) /\ vm.sp = SpOver(b) /\ b.phase = "idle" /\ Floor(b) <= n
  BY <1>1 DEF Layout, ReadToken, Top
<1>3. Continue(w, d)
  BY DEF ReadToken
<1>4. b \in Activations /\ b.jb \in Nat /\ b.save.fp \in Nat
  BY <1>2, ActivationTypes DEF ActOK
<1>5. /\ a \in Activations /\ a.fn = b.fn /\ a.save = b.save
      /\ a.jb = b.jb /\ a.phase = "read"
  BY <1>4 DEF Activations, Phases
<1> HIDE DEF b
<1>7. VmOK(w) /\ OneMore(vm, w, "MEM", NoSave)
  BY <1>1, EbufPushOK, Zenon
<1> HIDE DEF w, a
<1>8. /\ Keeps(vm, w, n) /\ n < Len(w.frames)
      /\ w.frames[Len(w.frames)].type = "MEM"
      /\ w.sp = vm.sp /\ w.except_lvl = vm.except_lvl
  BY <1>1, <1>7 DEF Keeps, OneMore, JumpTypes
<1>9. ActOK(w, a) /\ Floor(a) <= n
  <2>1. b.jb # 0 => /\ b.jb \in 1 .. n /\ w.frames[b.jb] = vm.frames[b.jb]
                    /\ b.jb \in DOMAIN w.frames
    BY <1>1, <1>2, <1>4, <1>7 DEF Floor, OneMore
  <2> QED  BY <2>1, <1>2, <1>5 DEF ActOK, Floor, FramesOf, SlotsAtSetjmp
<1>10. w.sp = SpOver(a)
  BY <1>2, <1>5, <1>8 DEF SpOver, SlotsHeld, SlotsAtSetjmp
<1>11. Becomes(cstk, d, Len(cstk), a)
  <2>1. d = [cstk EXCEPT ![Len(cstk)] = a]
    BY DEF SetTopOf, a, b
  <2>2. /\ Len(cstk) >= 1 /\ a.fn = cstk[Len(cstk)].fn
        /\ a.save = cstk[Len(cstk)].save
    BY <1>1, <1>5 DEF b
  <2> QED  BY <1>1, <1>5, <2>1, <2>2, InnermostBecomes, Zenon
<1> HIDE DEF d, n
<1>13. Good(w, d, except_top)
  <2>1. a.jb = cstk[Len(cstk)].jb /\ cstk[Len(cstk)].phase # "handler"
    BY <1>2, <1>5 DEF b
  <2> QED  BY <2>1, <1>1, <1>5, <1>7, <1>8, <1>9, <1>10, <1>11, InnerOK
<1> QED  BY <1>3, <1>13, ContinueOK

\* TakeToken preserves the invariant: the frame on top is the buffer's.
LEMMA TakeTokenOK ==
  ASSUME IInv, TakeToken
  PROVE  IInv'
<1> DEFINE a == cstk[Len(cstk)]
           n == Len(vm.frames) - 1
           w == str_neweb(vm)
<1>1. /\ VmOK(vm) /\ Layout(vm, cstk) /\ Good(vm, cstk, except_top)
      /\ Len(cstk) \in 1 .. Len(cstk) /\ Len(vm.frames) \in Nat
      /\ DOMAIN vm.frames = 1 .. Len(vm.frames)
      /\ cstk \in Seq(Activations) /\ status \in Statuses
      /\ vm.frames \in Seq(Frames)
  BY DEF IInv, Good, Layout, VmOK, Vms
<1>2. /\ ActOK(vm, a) /\ vm.sp = SpOver(a) /\ a.phase = "read"
      /\ Floor(a) < Len(vm.frames)
      /\ vm.frames[Len(vm.frames)].type = "MEM"
      /\ vm.frames[Len(vm.frames)].data
  BY <1>1 DEF Layout, TakeToken, Top
<1>3. vm' = w /\ cstk' = cstk /\ except_top' = except_top /\ status' = status
  BY DEF TakeToken
<1>4. a \in Activations /\ a.jb \in Nat /\ a.save.fp \in Nat /\ Floor(a) \in Nat
  BY <1>2, ActivationTypes DEF ActOK
<1>5. n \in 0 .. Len(vm.frames) /\ n < Len(vm.frames) /\ Floor(a) <= n
  BY <1>1, <1>2, <1>4
<1>6. vm.frames # <<>>
  BY <1>1, <1>5
<1>7. /\ VmOK(w)
      /\ Len(w.frames) = Len(vm.frames) /\ DOMAIN w.frames = DOMAIN vm.frames
      /\ \A i \in DOMAIN vm.frames : /\ w.frames[i].type = vm.frames[i].type
                                     /\ w.frames[i].save = vm.frames[i].save
      /\ w.sp = vm.sp /\ w.except_lvl = vm.except_lvl
  BY <1>1, <1>2, <1>6, StrNewebOK, Zenon
<1> HIDE DEF w, a
<1>8. /\ Keeps(vm, w, n) /\ n < Len(w.frames)
      /\ w.frames[Len(w.frames)].type = "MEM"
  <2>1. \A i \in n + 1 .. Len(w.frames) : i = Len(vm.frames)
    BY <1>1, <1>7
  <2> HIDE DEF n
  <2> QED  BY <2>1, <1>1, <1>2, <1>5, <1>7, SMTT(30) DEF Keeps, JumpTypes
<1>9. ActOK(w, a)
  <2>1. a.jb # 0 => a.jb \in DOMAIN vm.frames
    BY <1>2 DEF ActOK, FramesOf
  <2> QED  BY <2>1, <1>2, <1>7 DEF ActOK, FramesOf
<1>11. Becomes(cstk, cstk, Len(cstk), a)
  BY <1>1 DEF Becomes, a
<1> HIDE DEF n
<1>13. Good(w, cstk, except_top)
  <2>1. a.jb = cstk[Len(cstk)].jb /\ cstk[Len(cstk)].phase # "handler"
    BY <1>2 DEF a
  <2> QED  BY <2>1, <1>1, <1>2, <1>5, <1>7, <1>8, <1>9, <1>11, InnerOK
<1> QED  BY <1>1, <1>3, <1>13 DEF IInv

\* ReadDone preserves the invariant: the frame popped is the buffer's.
LEMMA ReadDoneOK ==
  ASSUME IInv, ReadDone
  PROVE  IInv'
<1> DEFINE b == cstk[Len(cstk)]
           a == [b EXCEPT !.phase = "eval"]
           n == Len(vm.frames) - 1
           w == frame_pop(vm, Len(vm.frames))
           d == SetTopOf(cstk, "eval")
<1>1. /\ VmOK(vm) /\ Layout(vm, cstk) /\ Good(vm, cstk, except_top)
      /\ Len(cstk) \in 1 .. Len(cstk) /\ Len(vm.frames) \in Nat
      /\ cstk \in Seq(Activations) /\ status \in Statuses
  BY DEF IInv, Good, Layout, VmOK, Vms
<1>2. ActOK(vm, b) /\ vm.sp = SpOver(b) /\ b.phase = "read"
      /\ Floor(b) < Len(vm.frames)
  BY <1>1 DEF Layout, ReadDone, Top
<1>3. vm' = w /\ cstk' = d /\ except_top' = except_top /\ status' = status
  BY DEF ReadDone
<1>4. b \in Activations /\ b.jb \in Nat /\ b.save.fp \in Nat /\ Floor(b) \in Nat
  BY <1>2, ActivationTypes DEF ActOK
<1>5. /\ a \in Activations /\ a.fn = b.fn /\ a.save = b.save
      /\ a.jb = b.jb /\ a.phase = "eval"
  BY <1>4 DEF Activations, Phases
<1> HIDE DEF b
<1>6. n \in 0 .. Len(vm.frames) /\ Floor(b) <= n
  BY <1>1, <1>2, <1>4
<1>7. VmOK(w) /\ Cut(vm, w, n) /\ w.sp = vm.sp
  BY <1>1, <1>6, UnwindOK, Zenon DEF frame_pop
<1> HIDE DEF w, a, n
<1>8. Keeps(vm, w, n) /\ (w.except_lvl = 1 => vm.except_lvl = 1)
  BY <1>1, <1>6, <1>7, CutKeeps DEF Cut
<1>9. ActOK(w, a) /\ Floor(a) <= n
  <2>1. b.jb # 0 => b.jb \in 1 .. n
    BY <1>4, <1>6 DEF Floor
  <2>2. b.jb # 0 => /\ w.frames[b.jb] = vm.frames[b.jb]
                    /\ b.jb \in DOMAIN w.frames
    BY <2>1, <1>7 DEF Cut
  <2> QED  BY <2>2, <1>2, <1>5, <1>6 DEF ActOK, Floor, FramesOf, SlotsAtSetjmp
<1>10. w.sp = SpOver(a)
  BY <1>2, <1>5, <1>7 DEF SpOver, SlotsHeld, SlotsAtSetjmp
<1>11. Becomes(cstk, d, Len(cstk), a)
  <2>1. d = [cstk EXCEPT ![Len(cstk)] = a]
    BY DEF SetTopOf, a, b
  <2>2. /\ Len(cstk) >= 1 /\ a.fn = cstk[Len(cstk)].fn
        /\ a.save = cstk[Len(cstk)].save
    BY <1>1, <1>5 DEF b
  <2> QED  BY <1>1, <1>5, <2>1, <2>2, InnermostBecomes, Zenon
<1> HIDE DEF d
<1>13. Good(w, d, except_top)
  <2>1. /\ a.jb = cstk[Len(cstk)].jb /\ cstk[Len(cstk)].phase # "handler"
        /\ a.phase # "read"
    BY <1>2, <1>5 DEF b
  <2> QED  BY <2>1, <1>1, <1>7, <1>8, <1>9, <1>10, <1>11, InnerOK
<1> QED  BY <1>1, <1>3, <1>13 DEF IInv

\* EvalDone preserves the invariant, or aborts.
LEMMA EvalDoneOK ==
  ASSUME IInv, EvalDone
  PROVE  IInv'
<1>1. Good(vm, cstk, except_top) /\ status \in Statuses
  BY DEF IInv
<1>2. cstk[Len(cstk)].phase = "eval"
  BY DEF EvalDone, Top
<1>3. Good(vm, SetTopOf(cstk, "idle"), except_top)
  BY <1>1, <1>2, PhaseOK DEF Phases
<1>4. CASE Stop("aborted")
  BY <1>4, StopOK DEF Statuses
<1>5. CASE cstk' = SetTopOf(cstk, "idle") /\ UNCHANGED <<vm, except_top, status>>
  BY <1>1, <1>3, <1>5 DEF IInv
<1> QED  BY <1>4, <1>5 DEF EvalDone

-----------------------------------------------------------------------------
(* Non-local exits.                                                        *)

\* The activation a longjmp lands in keeps its jb and is not a new loop.
LEMMA LandGood ==
  ASSUME NEW v, NEW c, NEW et, Good(v, c, et), NEW k \in 1 .. Len(c),
         NEW w, VmOK(w), NEW d, Layout(w, d),
         NEW a, Becomes(c, d, k, a), a.jb = c[k].jb,
         ~Debug /\ et = c[1].jb /\ Level(v, c) => Level(w, d)
  PROVE  Good(w, d, et)
<1>1. VmOK(v) /\ Layout(v, c) /\ et \in Nat /\ Quiet(v, c, et)
  BY DEF Good
<1> SUFFICES ASSUME ~Debug  PROVE Quiet(w, d, et)
  BY <1>1 DEF Good, Quiet
<1>2. /\ et = c[1].jb /\ Level(v, c)
      /\ \A j \in 1 .. Len(c) : c[j].fn # "debug"
  BY <1>1 DEF Quiet
<1>3. /\ Len(d) = k /\ d[k] = a
      /\ \A j \in 1 .. k : j # k => d[j] = c[j]
  BY DEF Becomes
<1>4. Len(c) \in Nat
  BY <1>1 DEF Layout
<1>5. a.fn = c[k].fn /\ a.jb = c[k].jb
  BY DEF Becomes
<1>6. ASSUME NEW j \in 1 .. Len(d)
      PROVE  /\ j \in 1 .. Len(c) /\ d[j].fn = c[j].fn /\ d[j].jb = c[j].jb
  BY <1>3, <1>4, <1>5
<1>7. 1 \in 1 .. Len(d)  BY <1>3
<1> QED  BY <1>2, <1>6, <1>7 DEF Quiet

\* What a caught exception leads to: back in the owner of the innermost EXCEPT
\* frame, in its handler or, for a loop, at the prompt.
LEMMA CaughtTry ==
  ASSUME NEW v, NEW c, NEW et, Good(v, c, et), NEW k \in 1 .. Len(c),
         c[k].fn = "try", c[k].jb # 0,
         NEW r, VmOK(r), Keeps(v, r, c[k].jb),
         r.sp = c[k].save.sp + SlotsAtSetjmp(c[k])
  PROVE  Good(eval_alloc(r, 1), SetTopOf(SubSeq(c, 1, k), "handler"), et)
<1> DEFINE w == eval_alloc(r, 1)
           d == SetTopOf(SubSeq(c, 1, k), "handler")
<1>1. VmOK(v) /\ Layout(v, c)
  BY DEF Good
<1>2. VmOK(w) /\ w.frames = r.frames /\ w.sp = r.sp + 1
  BY EvalAllocOK
<1> HIDE DEF w, d
<1>3. Keeps(v, w, c[k].jb)
  BY <1>2 DEF Keeps
<1>4. w.sp = c[k].save.sp + SlotsAtSetjmp(c[k]) + 1
  BY <1>2
<1> DEFINE a == [c[k] EXCEPT !.phase = "handler"]
<1>5. Layout(w, d) /\ Becomes(c, d, k, a)
  <2>1. "handler" \in Phases  BY DEF Phases
  <2>2. d = SetTopOf(SubSeq(c, 1, k), "handler")  BY DEF d
  <2>3. w.sp = c[k].save.sp + SlotsAtSetjmp(c[k])
                 + (IF "handler" = "handler" THEN 1 ELSE 0)
    BY <1>4
  <2> QED  BY <2>1, <2>2, <2>3, <1>1, <1>2, <1>3, LandOK
<1>6. Level(w, d)
  <2>1. c[k] \in Activations  BY <1>1 DEF Layout, ActOK
  <2>2. Len(d) = k /\ d[k].phase = "handler" /\ k \in 1 .. k
    BY <1>5, <2>1 DEF Becomes, Activations
  <2> QED  BY <2>2 DEF Level
<1>7. Good(w, d, et)
  <2>1. c[k] \in Activations  BY <1>1 DEF Layout, ActOK
  <2>2. a.jb = c[k].jb  BY <2>1 DEF Activations
  <2> HIDE DEF a
  <2> QED  BY <2>2, <1>2, <1>5, <1>6, LandGood
<1> QED  BY <1>7 DEF w, d

\* The same for rep() and debug_rep(): back at the prompt with a new REP frame.
LEMMA CaughtLoop ==
  ASSUME NEW v, NEW c, NEW et, Good(v, c, et), NEW k \in 1 .. Len(c),
         c[k].fn \in {"rep", "debug"}, c[k].jb # 0,
         NEW r, VmOK(r), Keeps(v, r, c[k].jb), Len(r.frames) = c[k].jb,
         r.sp = c[k].save.sp + SlotsAtSetjmp(c[k]),
         c[k].jb = et => r.except_lvl = 0
  PROVE  Good(frame_longjmp_push(r, "REP"),
              SetTopOf(SubSeq(c, 1, k), "idle"), et)
<1> DEFINE w == frame_longjmp_push(r, "REP")
           d == SetTopOf(SubSeq(c, 1, k), "idle")
           save == [sp |-> r.sp, fp |-> Len(r.frames) + 1,
                    debug_lvl |-> r.debug_lvl]
<1>1. /\ VmOK(v) /\ Layout(v, c) /\ Quiet(v, c, et)
      /\ Len(v.frames) \in Nat /\ Len(r.frames) \in Nat /\ Len(c) \in Nat
      /\ c[k] \in Activations
  BY DEF Good, VmOK, Vms, Layout, ActOK
<1>2. VmOK(w) /\ OneMore(r, w, "REP", save)
  BY LongjmpPushOK, Zenon DEF FrameTypes
<1> HIDE DEF w, d, save
<1>3. Keeps(v, w, c[k].jb)
  <2> DEFINE n == Len(r.frames)
  <2>1. /\ n \in Nat /\ n = c[k].jb /\ Len(w.frames) = n + 1
        /\ \A i \in 1 .. n : w.frames[i] = r.frames[i]
        /\ w.frames[n + 1].type = "REP"
    BY <1>1, <1>2 DEF OneMore
  <2>2. Keeps(v, r, n)  OBVIOUS
  <2> HIDE DEF n
  <2>3. \A i \in n + 1 .. Len(w.frames) : w.frames[i].type \notin JumpTypes
    <3> TAKE i \in n + 1 .. Len(w.frames)
    <3>1. i = n + 1  BY <2>1
    <3> QED  BY <3>1, <2>1 DEF JumpTypes
  <2>4. n \in 0 .. Len(v.frames) /\ n <= Len(w.frames)
    BY <2>1, <2>2 DEF Keeps
  <2>5. \A i \in 1 .. n : /\ w.frames[i].type = v.frames[i].type
                          /\ w.frames[i].save = v.frames[i].save
    <3> TAKE i \in 1 .. n
    <3>1. w.frames[i] = r.frames[i]  BY <2>1
    <3>2. /\ r.frames[i].type = v.frames[i].type
          /\ r.frames[i].save = v.frames[i].save
      BY <2>2, Zenon DEF Keeps
    <3> QED  BY <3>1, <3>2
  <2>6. Keeps(v, w, n)
    BY <2>3, <2>4, <2>5 DEF Keeps
  <2> QED  BY <2>1, <2>6
<1>4. w.sp = r.sp /\ w.except_lvl = r.except_lvl
  BY <1>2 DEF OneMore
<1> DEFINE a == [c[k] EXCEPT !.phase = "idle"]
<1>5. Layout(w, d) /\ Becomes(c, d, k, a)
  <2>1. "idle" \in Phases  BY DEF Phases
  <2>2. d = SetTopOf(SubSeq(c, 1, k), "idle")  BY DEF d
  <2>3. w.sp = c[k].save.sp + SlotsAtSetjmp(c[k])
                 + (IF "idle" = "handler" THEN 1 ELSE 0)
    <3>1. SlotsAtSetjmp(c[k]) \in Nat /\ c[k].save.sp \in Nat
      BY <1>1, SlotsNat, ActivationTypes
    <3> QED  BY <3>1, <1>4
  <2> QED  BY <2>1, <2>2, <2>3, <1>1, <1>2, <1>3, LandOK
<1>6. ASSUME ~Debug, et = c[1].jb  PROVE Level(w, d)
  <2>1. c[k].fn = "rep"
    BY <1>1, <1>6 DEF Quiet
  <2>2. k = 1
    <3>1. ASSUME k # 1  PROVE FALSE
      BY <2>1, <3>1, <1>1 DEF Layout
    <3> QED  BY <3>1
  <2> QED  BY <2>2, <1>4, <1>6 DEF Level
<1>7. Good(w, d, et)
  <2>1. c[k] \in Activations  BY <1>1 DEF Layout, ActOK
  <2>2. a.jb = c[k].jb  BY <2>1 DEF Activations
  <2> HIDE DEF a
  <2> QED  BY <2>2, <1>2, <1>5, <1>6, LandGood
<1> QED  BY <1>7 DEF w, d

\* except_raise1 and frame_except_raise preserve the invariant.
LEMMA ExceptRaiseOK ==
  ASSUME IInv, ExceptRaise
  PROVE  IInv'
<1> DEFINE x == vm.type_fp["EXCEPT"]
           k == Owner(cstk, x)
           w == [vm EXCEPT !.except_lvl = IF x = except_top THEN 0 ELSE 1]
           r == vm_state_restore(w, vm.frames[x].save)
           e == SubSeq(cstk, 1, k)
<1>1. /\ VmOK(vm) /\ Layout(vm, cstk) /\ Good(vm, cstk, except_top)
      /\ vm \in Vms /\ Len(cstk) \in Nat /\ cstk \in Seq(Activations)
      /\ Len(vm.frames) \in Nat /\ DOMAIN vm.frames = 1 .. Len(vm.frames)
  BY DEF IInv, Good, Layout, VmOK, Vms
<1>2. Owns(vm, cstk, "EXCEPT", x, k)
  <2>1. x # 0 /\ "EXCEPT" \in JumpTypes
    BY <1>1, SomeHandler DEF JumpTypes
  <2> QED  BY <2>1, <1>1, OwnerOK, Zenon
<1>3. cstk[k].fn \in {"rep", "debug", "try"} /\ x # 0
  BY <1>1, <1>2 DEF JumpFns, JumpTypeOf, Owns
<1>4. /\ VmOK(w) /\ w.frames = vm.frames
      /\ w.except_lvl = IF x = except_top THEN 0 ELSE 1
  <2> DEFINE q == IF x = except_top THEN 0 ELSE 1
  <2>1. q \in {0, 1} /\ w = [vm EXCEPT !.except_lvl = q]
    OBVIOUS
  <2> HIDE DEF q, w
  <2>2. /\ w \in Vms /\ w.frames = vm.frames /\ w.type_fp = vm.type_fp
        /\ w.bufs = vm.bufs /\ w.except_lvl = q
    BY <2>1, <1>1 DEF Vms
  <2>3. VmOK(w)  BY <2>2, <1>1, SameFramesOK
  <2> QED  BY <2>2, <2>3 DEF q
<1>5. ExceptRaise => \/ Stop("double")
                     \/ Caught(r, longjmp(cstk, x))
  BY DEF ExceptRaise
<1>6. longjmp(cstk, x) = e
  BY DEF longjmp
<1>7. Len(e) = k /\ e[k] = cstk[k]
  BY <1>1, <1>2 DEF Owns
<1> HIDE DEF w, k, x, e
<1>8. VmOK(r) /\ Cut(w, r, x) /\ r.sp = vm.frames[x].save.sp
  <2>1. vm.frames[x].save.fp <= Len(w.frames)
    BY <1>1, <1>2, <1>4 DEF Owns
  <2>2. vm.frames[x].save \in Saves /\ vm.frames[x].save.fp = x
    BY <1>2 DEF Owns
  <2> QED  BY <2>1, <2>2, <1>4, RestoreOK
<1> HIDE DEF r
<1>9. /\ Keeps(vm, r, x) /\ Len(r.frames) = x
      /\ r.except_lvl = IF x = except_top THEN 0 ELSE 1
  <2>1. Popped(w, x, "EXCEPT") = {}
    BY <1>2, <1>4 DEF Popped, Owns
  <2>2. \A i \in 1 .. x : r.frames[i] = vm.frames[i]
    BY <1>4, <1>8 DEF Cut
  <2> QED  BY <2>1, <2>2, <1>1, <1>2, <1>4, <1>8 DEF Keeps, Cut, Owns
<1>10. CASE Stop("double")
  BY <1>10, StopOK DEF Statuses
<1>11. CASE Caught(r, e)
  <2>1. CASE cstk[k].fn = "try"
    <3>1. Continue(eval_alloc(r, 1), SetTopOf(e, "handler"))
      BY <2>1, <1>7, <1>11 DEF Caught
    <3>2. Good(eval_alloc(r, 1), SetTopOf(e, "handler"), except_top)
      BY <2>1, <1>1, <1>2, <1>3, <1>8, <1>9, CaughtTry DEF e, Owns
    <3> QED  BY <3>1, <3>2, ContinueOK
  <2>2. CASE cstk[k].fn # "try" /\ cstk[k].fn = "rep" /\ ~Interactive
    <3>1. Stop("exit")
      BY <2>2, <1>7, <1>11 DEF Caught
    <3> QED  BY <3>1, StopOK DEF Statuses
  <2>3. CASE cstk[k].fn # "try" /\ ~(cstk[k].fn = "rep" /\ ~Interactive)
    <3>1. Continue(frame_longjmp_push(r, "REP"), SetTopOf(e, "idle"))
      BY <2>3, <1>7, <1>11 DEF Caught
    <3>2. Good(frame_longjmp_push(r, "REP"), SetTopOf(e, "idle"), except_top)
      BY <2>3, <1>1, <1>2, <1>3, <1>8, <1>9, CaughtLoop DEF e, Owns
    <3> QED  BY <3>1, <3>2, ContinueOK
  <2> QED  BY <2>1, <2>2, <2>3
<1> QED  BY <1>5, <1>6, <1>10, <1>11

\* Raise preserves the invariant.
LEMMA RaiseOK ==
  ASSUME IInv, Raise
  PROVE  IInv'
BY ExceptRaiseOK DEF Raise

\* FindLabel preserves the invariant.
LEMMA FindLabelOK ==
  ASSUME IInv, FindLabel
  PROVE  IInv'
<1>1. Good(vm, cstk, except_top) /\ status \in Statuses
  BY DEF IInv
<1>2. CASE ExceptRaise
  BY <1>2, ExceptRaiseOK
<1>3. CASE cstk' = SetTopOf(cstk, "body") /\ UNCHANGED <<vm, except_top, status>>
  <2>1. cstk[Len(cstk)].phase = "goto"
    BY DEF FindLabel, Top
  <2>2. Good(vm, SetTopOf(cstk, "body"), except_top)
    BY <2>1, <1>1, PhaseOK DEF Phases
  <2> QED  BY <2>2, <1>1, <1>3 DEF IInv
<1> QED  BY <1>2, <1>3 DEF FindLabel

\* vm_state_restore to the frame a longjmp goes to.
LEMMA JumpOK ==
  ASSUME NEW v, NEW c, VmOK(v), Layout(v, c), NEW t \in JumpTypes,
         v.type_fp[t] # 0, NEW x, x = v.type_fp[t],
         NEW k, k = Owner(c, x),
         NEW w, w = vm_state_restore(v, v.frames[x].save)
  PROVE  /\ VmOK(w) /\ Cut(v, w, x) /\ Keeps(v, w, x)
         /\ w.sp = c[k].save.sp + SlotsAtSetjmp(c[k])
         /\ k \in 1 .. Len(c) /\ c[k].jb = x /\ x # 0
         /\ x \in 1 .. Len(v.frames)
         /\ JumpTypeOf[c[k].fn] = t
         /\ c[k].fn \in {"rep", "debug"} \cup JumpFns
         /\ ActOK(v, c[k])
<1>1. Owns(v, c, t, x, k)
  BY OwnerOK
<1>2. Len(v.frames) \in Nat /\ DOMAIN v.frames = 1 .. Len(v.frames)
  BY DEF VmOK, Vms
<1>3. /\ v.frames[x].save \in Saves /\ v.frames[x].save.fp = x
      /\ x \in 1 .. Len(v.frames)
  BY <1>1, <1>2 DEF Owns
<1>4. /\ VmOK(w) /\ Cut(v, w, x) /\ w.sp = v.frames[x].save.sp
  <2>1. v.frames[x].save.fp <= Len(v.frames)
    BY <1>2, <1>3
  <2> QED  BY <2>1, <1>3, RestoreOK
<1>5. Keeps(v, w, x)
  BY <1>2, <1>3, <1>4, CutKeeps
<1> QED  BY <1>1, <1>3, <1>4, <1>5 DEF Owns, Layout

\* Landing in activation k keeps the invariant when the exception level does.
LEMMA LandKept ==
  ASSUME NEW v, NEW c, NEW et, Good(v, c, et), NEW k \in 1 .. Len(c),
         NEW n \in Nat, NEW w, VmOK(w), NEW d, Layout(w, d),
         NEW a, Becomes(c, d, k, a), a.jb = c[k].jb,
         c[k].phase # "handler",
         \A l \in 1 .. Len(c) : l > k /\ c[l].jb # 0 => c[l].jb > n,
         w.except_lvl = 1 => v.except_lvl = 1 /\ Popped(v, n, "EXCEPT") = {}
  PROVE  Good(w, d, et)
<1>1. VmOK(v) /\ Layout(v, c)
  BY DEF Good
<1>2. ASSUME Level(v, c)  PROVE Level(w, d)
  BY <1>1, <1>2, LevelKept
<1> QED  BY <1>2, LandGood

\* A longjmp after which the activation goes on evaluating.
LEMMA JumpGood ==
  ASSUME NEW v, NEW c, NEW et, Good(v, c, et), NEW t \in {"PROG", "WHILE"},
         v.type_fp[t] # 0, NEW x, x = v.type_fp[t],
         NEW k, k = Owner(c, x),
         NEW w, w = vm_state_restore(v, v.frames[x].save),
         NEW ph \in Phases, ph \notin {"read", "handler"},
         ph = "goto" => t = "PROG",
         NEW d, d = SetTopOf(SubSeq(c, 1, k), ph)
  PROVE  Good(w, d, et)
<1>1. VmOK(v) /\ Layout(v, c) /\ Len(c) \in Nat /\ t \in JumpTypes
  BY DEF Good, Layout, JumpTypes
<1>2. /\ VmOK(w) /\ Cut(v, w, x) /\ Keeps(v, w, x)
      /\ w.sp = c[k].save.sp + SlotsAtSetjmp(c[k])
      /\ k \in 1 .. Len(c) /\ c[k].jb = x /\ x # 0
      /\ x \in 1 .. Len(v.frames)
      /\ JumpTypeOf[c[k].fn] = t
      /\ c[k].fn \in {"rep", "debug"} \cup JumpFns
      /\ ActOK(v, c[k])
  BY <1>1, JumpOK
<1>3. c[k].fn \in {"prog", "while"} /\ (t = "PROG" => c[k].fn = "prog")
  BY <1>2 DEF JumpFns, JumpTypeOf
<1>4. /\ Layout(w, d)
      /\ Becomes(c, d, k, [c[k] EXCEPT !.phase = ph])
      /\ \A l \in 1 .. Len(c) : l > k /\ c[l].jb # 0 => c[l].jb > c[k].jb
  <2>1. Keeps(v, w, c[k].jb) /\ c[k].jb # 0
    BY <1>2, SMTT(30)
  <2>2. SlotsAtSetjmp(c[k]) \in Nat /\ c[k].save.sp \in Nat
    BY <1>2, SlotsNat, ActivationTypes DEF ActOK
  <2>3. w.sp = c[k].save.sp + SlotsAtSetjmp(c[k])
                 + (IF ph = "handler" THEN 1 ELSE 0)
    BY <2>2, <1>2, SMTT(30)
  <2> QED  BY <2>1, <2>3, <1>1, <1>2, <1>3, LandOK, SMTT(30)
<1>5. c[k].phase # "handler"
  BY <1>2, <1>3, SMTT(30) DEF ActOK
<1>6. w.except_lvl = 1 => v.except_lvl = 1 /\ Popped(v, x, "EXCEPT") = {}
  BY <1>2, SMTT(30) DEF Cut
<1>7. /\ x \in Nat
      /\ \A l \in 1 .. Len(c) : l > k /\ c[l].jb # 0 => c[l].jb > x
  BY <1>2, <1>4
<1> DEFINE a == [c[k] EXCEPT !.phase = ph]
<1>8. Becomes(c, d, k, a) /\ a.jb = c[k].jb
  BY <1>2, <1>4, SMTT(30) DEF ActOK, Activations
<1>9. VmOK(w) /\ Layout(w, d) /\ k \in 1 .. Len(c)
  BY <1>2, <1>4
<1> HIDE DEF a
<1> QED  BY <1>5, <1>6, <1>7, <1>8, <1>9, LandKept, SMTT(30)

\* Goto preserves the invariant.
LEMMA GotoOK ==
  ASSUME IInv, Goto
  PROVE  IInv'
<1>1. Good(vm, cstk, except_top) /\ status \in Statuses
  BY DEF IInv
<1>2. CASE PROGFP = 0
  BY <1>2, ExceptRaiseOK DEF Goto
<1>3. CASE PROGFP # 0
  <2> DEFINE w == JumpTo(PROGFP)
             d == SetTopOf(longjmp(cstk, PROGFP), "goto")
  <2>1. vm' = w /\ cstk' = d /\ UNCHANGED <<except_top, status>>
    BY <1>3 DEF Goto
  <2>2. /\ w = vm_state_restore(vm, vm.frames[vm.type_fp["PROG"]].save)
        /\ d = SetTopOf(SubSeq(cstk, 1, Owner(cstk, vm.type_fp["PROG"])), "goto")
        /\ vm.type_fp["PROG"] # 0
    BY <1>3 DEF JumpTo, longjmp, PROGFP
  <2> HIDE DEF w, d
  <2>3. Good(w, d, except_top)
    BY <2>2, <1>1, JumpGood DEF Phases
  <2> QED  BY <2>1, <2>3, <1>1 DEF IInv
<1> QED  BY <1>2, <1>3

\* ContinueLoop preserves the invariant.
LEMMA ContinueLoopOK ==
  ASSUME IInv, ContinueLoop
  PROVE  IInv'
<1>1. /\ Good(vm, cstk, except_top) /\ status \in Statuses
      /\ VmOK(vm) /\ Layout(vm, cstk) /\ "WHILE" \in JumpTypes
      /\ Len(cstk) \in Nat /\ cstk \in Seq(Activations)
  BY DEF IInv, Good, Layout, JumpTypes
<1>2. CASE WHILEFP = 0
  BY <1>2, ExceptRaiseOK DEF ContinueLoop
<1>3. CASE WHILEFP # 0
  <2> DEFINE x == vm.type_fp["WHILE"]
             k == Owner(cstk, x)
             w == vm_state_restore(vm, vm.frames[x].save)
             d == SubSeq(cstk, 1, k)
             ph == cstk[k].phase
  <2>1. /\ vm' = w /\ cstk' = d /\ UNCHANGED <<except_top, status>>
        /\ x # 0
    BY <1>3 DEF ContinueLoop, JumpTo, longjmp, WHILEFP
  <2>2. /\ k \in 1 .. Len(cstk) /\ ActOK(vm, cstk[k])
        /\ JumpTypeOf[cstk[k].fn] = "WHILE"
        /\ cstk[k].fn \in {"rep", "debug"} \cup JumpFns
    <3>1. x # 0  BY <2>1
    <3> HIDE DEF x, k, w
    <3>2. x = vm.type_fp["WHILE"]  BY DEF x
    <3>3. k = Owner(cstk, x)  BY DEF k
    <3>4. w = vm_state_restore(vm, vm.frames[x].save)  BY DEF w
    <3> QED  BY <3>1, <3>2, <3>3, <3>4, <1>1, JumpOK
  <2>3. cstk[k].fn = "while"
    BY <2>2 DEF JumpFns, JumpTypeOf
  <2>4. cstk[k].phase \in CanCall
    <3>1. CASE k = Len(cstk)
      BY <3>1 DEF ContinueLoop, Evaluating, Top, CanCall
    <3>2. CASE k # Len(cstk)
      BY <3>2, <2>2, <1>1 DEF Layout
    <3> QED  BY <3>1, <3>2
  <2>5. ph \in Phases /\ ph \notin {"read", "handler", "goto"}
    BY <2>2, <2>3, <2>4 DEF ActOK, CanCall, Phases
  <2>6. d = SetTopOf(d, ph)
    <3>1. /\ d \in Seq(Activations) /\ Len(d) = k /\ d[k] = cstk[k]
          /\ cstk[k] \in Activations
      BY <1>1, <2>2 DEF ActOK
    <3> HIDE DEF d, k
    <3>2. [d[k] EXCEPT !.phase = ph] = d[k]
      BY <3>1 DEF Activations
    <3>3. SetTopOf(d, ph) = [d EXCEPT ![k] = d[k]]
      BY <3>1, <3>2 DEF SetTopOf
    <3> QED  BY <3>1, <3>3
  <2> HIDE DEF ph
  <2>7. Good(w, SetTopOf(d, ph), except_top)
    <3> DEFINE e == SetTopOf(d, ph)
    <3>1. e = SetTopOf(SubSeq(cstk, 1, k), ph)  OBVIOUS
    <3>2. x # 0  BY <2>1
    <3> HIDE DEF x, k, w, d, e
    <3>3. x = vm.type_fp["WHILE"]  BY DEF x
    <3>4. k = Owner(cstk, x)  BY DEF k
    <3>5. w = vm_state_restore(vm, vm.frames[x].save)  BY DEF w
    <3>6. Good(w, e, except_top)
      BY <3>1, <3>2, <3>3, <3>4, <3>5, <2>5, <1>1, JumpGood
    <3> QED  BY <3>6 DEF e
  <2> HIDE DEF w, d
  <2>8. Good(w, d, except_top)
    BY <2>6, <2>7
  <2> QED  BY <2>1, <2>8, <1>1 DEF IInv
<1> QED  BY <1>2, <1>3

\* A longjmp after which the activation returns.
LEMMA JumpReturn ==
  ASSUME NEW v, NEW c, NEW et, Good(v, c, et), NEW t \in {"PROG", "WHILE"},
         v.type_fp[t] # 0, NEW x, x = v.type_fp[t],
         NEW k, k = Owner(c, x),
         NEW w, w = vm_state_restore(v, v.frames[x].save)
  PROVE  Good(ReturnFrom(w, c[k]), SubSeq(c, 1, k - 1), et)
<1>1. /\ VmOK(v) /\ Layout(v, c) /\ Len(c) \in Nat /\ t \in JumpTypes
      /\ et \in Nat /\ Len(v.frames) \in Nat
  BY DEF Good, Layout, JumpTypes, VmOK, Vms
<1>2. /\ VmOK(w) /\ Cut(v, w, x)
      /\ k \in 1 .. Len(c) /\ c[k].jb = x /\ x # 0
      /\ x \in 1 .. Len(v.frames)
      /\ JumpTypeOf[c[k].fn] = t
      /\ c[k].fn \in {"rep", "debug"} \cup JumpFns
      /\ ActOK(v, c[k])
  BY <1>1, JumpOK
<1>3. c[k].fn # "rep"
  BY <1>2 DEF JumpTypeOf
<1>4. k \in 2 .. Len(c)
  BY <1>1, <1>2, <1>3, AboveLoop
<1>5. c[k].save.fp <= x /\ x \in 0 .. Len(v.frames)
  <2>1. c[k].save.fp \in Nat  BY <1>2, ActivationTypes DEF ActOK
  <2> QED  BY <2>1, <1>1, <1>2 DEF ActOK
<1> QED  BY <1>1, <1>2, <1>4, <1>5, LeftOK

\* ProgReturn preserves the invariant.
LEMMA ProgReturnOK ==
  ASSUME IInv, ProgReturn
  PROVE  IInv'
<1>1. Good(vm, cstk, except_top) /\ status \in Statuses
  BY DEF IInv
<1>2. CASE PROGFP = 0
  BY <1>2, ExceptRaiseOK DEF ProgReturn
<1>3. CASE PROGFP # 0
  <2> DEFINE x == vm.type_fp["PROG"]
             k == Owner(cstk, x)
             w == vm_state_restore(vm, vm.frames[x].save)
             d == SubSeq(cstk, 1, k - 1)
  <2>1. /\ vm' = ReturnFrom(w, cstk[k]) /\ cstk' = d
        /\ UNCHANGED <<except_top, status>> /\ x # 0
    BY <1>3 DEF ProgReturn, JumpTo, PROGFP
  <2>2. Good(ReturnFrom(w, cstk[k]), d, except_top)
    <3>1. x # 0  BY <2>1
    <3> HIDE DEF x, k, w
    <3>2. x = vm.type_fp["PROG"]  BY DEF x
    <3>3. k = Owner(cstk, x)  BY DEF k
    <3>4. w = vm_state_restore(vm, vm.frames[x].save)  BY DEF w
    <3> QED  BY <3>1, <3>2, <3>3, <3>4, <1>1, JumpReturn
  <2> QED  BY <2>1, <2>2, <1>1 DEF IInv
<1> QED  BY <1>2, <1>3

\* Break preserves the invariant.
LEMMA BreakOK ==
  ASSUME IInv, Break
  PROVE  IInv'
<1>1. Good(vm, cstk, except_top) /\ status \in Statuses
  BY DEF IInv
<1>2. CASE WHILEFP = 0
  BY <1>2, ExceptRaiseOK DEF Break
<1>3. CASE WHILEFP # 0
  <2> DEFINE x == vm.type_fp["WHILE"]
             k == Owner(cstk, x)
             w == vm_state_restore(vm, vm.frames[x].save)
             d == SubSeq(cstk, 1, k - 1)
  <2>1. /\ vm' = ReturnFrom(w, cstk[k]) /\ cstk' = d
        /\ UNCHANGED <<except_top, status>> /\ x # 0
    BY <1>3 DEF Break, JumpTo, WHILEFP
  <2>2. Good(ReturnFrom(w, cstk[k]), d, except_top)
    <3>1. x # 0  BY <2>1
    <3> HIDE DEF x, k, w
    <3>2. x = vm.type_fp["WHILE"]  BY DEF x
    <3>3. k = Owner(cstk, x)  BY DEF k
    <3>4. w = vm_state_restore(vm, vm.frames[x].save)  BY DEF w
    <3> QED  BY <3>1, <3>2, <3>3, <3>4, <1>1, JumpReturn
  <2> QED  BY <2>1, <2>2, <1>1 DEF IInv
<1> QED  BY <1>2, <1>3

-----------------------------------------------------------------------------
(* The debugger's loop.                                                    *)

\* DebugRep preserves the invariant: its loop is a jump target like a try.
LEMMA DebugRepOK ==
  ASSUME IInv, DebugRep
  PROVE  IInv'
<1> DEFINE v0 == eval_alloc(vm, CallSlots)
           u1 == CallFrames(v0)
           u2 == eval_alloc(u1, WorkSlots["debug"])
           v1 == frame_push(u2, "INPUT")
           v2 == frame_longjmp_push(v1, "EXCEPT")
           v3 == frame_longjmp_push(v2, "REP")
           n  == Len(vm.frames)
           jb == Len(v2.frames)
           a  == Activation("debug", "idle", vm_state_save(v0), jb,
                            v1.type_fp["EXCEPT"])
           d  == Append(cstk, a)
           s2 == [sp |-> v1.sp, fp |-> Len(v1.frames) + 1,
                  debug_lvl |-> v1.debug_lvl]
           s3 == [sp |-> v2.sp, fp |-> Len(v2.frames) + 1,
                  debug_lvl |-> v2.debug_lvl]
<1>1. /\ VmOK(vm) /\ Layout(vm, cstk) /\ vm \in Vms /\ n \in Nat
      /\ status \in Statuses /\ vm.sp \in Nat
      /\ Debug /\ cstk[Len(cstk)].phase \in CanCall
  BY DEF IInv, Good, VmOK, Vms, DebugRep, Evaluating, Top, CanCall
<1>2. \/ Stop("fatal")
      \/ /\ vm' = v3 /\ cstk' = d /\ except_top' = jb /\ status' = status
  BY DEF DebugRep
<1> HIDE DEF v0, u1, u2, v1, v2, v3, n, s2, s3
<1>3. VmOK(v0) /\ v0.frames = vm.frames /\ v0.sp = vm.sp + 3
  BY <1>1, EvalAllocOK DEF v0, CallSlots
<1>4. /\ VmOK(u1) /\ Len(u1.frames) = Len(v0.frames) + 2
      /\ \A i \in 1 .. Len(v0.frames) : u1.frames[i] = v0.frames[i]
      /\ \A i \in Len(v0.frames) + 1 .. Len(u1.frames) :
             u1.frames[i].type \notin JumpTypes
      /\ u1.sp = v0.sp
  BY <1>3, CallFramesOK DEF u1
<1>5. VmOK(u2) /\ u2.frames = u1.frames /\ u2.sp = u1.sp + 4
  BY <1>4, EvalAllocOK DEF u2, WorkSlots
<1>6. /\ {"INPUT", "EXCEPT", "REP"} \subseteq FrameTypes
      /\ "INPUT" \notin JumpTypes /\ "REP" \notin JumpTypes
  BY DEF FrameTypes, JumpTypes
<1>7. VmOK(v1) /\ OneMore(u2, v1, "INPUT", NoSave)
  BY <1>5, <1>6, FramePushOK DEF v1
<1>8. VmOK(v2) /\ OneMore(v1, v2, "EXCEPT", s2)
  BY <1>6, <1>7, LongjmpPushOK, Zenon DEF v2, s2
<1>9. VmOK(v3) /\ OneMore(v2, v3, "REP", s3)
  BY <1>6, <1>8, LongjmpPushOK, Zenon DEF v3, s3
<1>10. /\ Len(u2.frames) = n + 2 /\ Len(v1.frames) = n + 3
       /\ Len(v2.frames) = n + 4 /\ Len(v3.frames) = n + 5
       /\ DOMAIN v3.frames = 1 .. n + 5
  BY <1>1, <1>3, <1>4, <1>5, <1>7, <1>8, <1>9 DEF OneMore, n
<1>11. ASSUME NEW i \in 1 .. n  PROVE v3.frames[i] = vm.frames[i]
  <2>1. u2.frames[i] = vm.frames[i]
    BY <1>3, <1>4, <1>5 DEF n
  <2>2. v1.frames[i] = u2.frames[i]
    BY <1>1, <1>7, <1>10 DEF OneMore
  <2>3. v2.frames[i] = v1.frames[i]
    BY <1>1, <1>8, <1>10 DEF OneMore
  <2>4. v3.frames[i] = v2.frames[i]
    BY <1>1, <1>9, <1>10 DEF OneMore
  <2> QED  BY <2>1, <2>2, <2>3, <2>4
<1>12. /\ v3.frames[n + 4].type = "EXCEPT" /\ v3.frames[n + 4].save = s2
       /\ v3.frames[n + 5].type = "REP"
       /\ v3.frames[n + 3].type = "INPUT"
       /\ v3.frames[n + 1].type \notin JumpTypes
       /\ v3.frames[n + 2].type \notin JumpTypes
  <2>1. v3.frames[n + 4] = v2.frames[n + 4] /\ v3.frames[n + 5].type = "REP"
    BY <1>1, <1>9, <1>10 DEF OneMore
  <2>2. /\ v2.frames[n + 4].type = "EXCEPT" /\ v2.frames[n + 4].save = s2
        /\ v3.frames[n + 3] = v1.frames[n + 3]
        /\ v1.frames[n + 3].type = "INPUT"
    BY <1>1, <1>7, <1>8, <1>9, <1>10 DEF OneMore
  <2>3. \A i \in n + 1 .. n + 2 : v3.frames[i] = u1.frames[i]
    BY <1>1, <1>5, <1>7, <1>8, <1>9, <1>10 DEF OneMore
  <2>4. \A i \in n + 1 .. n + 2 : u1.frames[i].type \notin JumpTypes
    BY <1>1, <1>3, <1>4, <1>5, <1>10 DEF n
  <2>5. n + 1 \in n + 1 .. n + 2 /\ n + 2 \in n + 1 .. n + 2
    BY <1>1
  <2> QED  BY <2>1, <2>2, <2>3, <2>4, <2>5
<1>13. v1.sp = vm.sp + 7 /\ v3.sp = vm.sp + 7 /\ s2.sp = vm.sp + 7
  BY <1>1, <1>3, <1>4, <1>5, <1>7, <1>8, <1>9 DEF OneMore, s2
<1>14. /\ a \in Activations /\ a.fn = "debug" /\ a.phase = "idle"
       /\ a.jb = n + 4 /\ a.save.fp = n /\ a.save.sp = vm.sp + 3
  <2>1. vm_state_save(v0) \in Saves
    BY <1>3 DEF vm_state_save, Saves, VmOK, Vms
  <2>2. v1.type_fp["EXCEPT"] \in Nat /\ jb = n + 4 /\ jb \in Nat
    BY <1>1, <1>6, <1>7, <1>10 DEF VmOK, Vms
  <2>3. a \in Activations
    <3> HIDE DEF jb
    <3> QED  BY <2>1, <2>2 DEF Activation, Activations, Phases
  <2> QED  BY <2>2, <2>3, <1>3 DEF Activation, vm_state_save, n
<1> HIDE DEF a
<1>15. SlotsAtSetjmp(a) = 4 /\ SpOver(a) = vm.sp + 7
  BY <1>1, <1>14 DEF SlotsAtSetjmp, SpOver, SlotsHeld, WorkSlots
<1>16. ActOK(v3, a)
  <2>1. a.jb # 0 /\ a.save.fp < a.jb /\ a.save.fp + 3 <= a.jb
    BY <1>1, <1>14
  <2>2. n + 4 \in DOMAIN v3.frames
    BY <1>1, <1>10
  <2>3. a.jb \in FramesOf(v3, "EXCEPT")
    BY <2>2, <1>12, <1>14 DEF FramesOf
  <2>4. JumpTypeOf[a.fn] = "EXCEPT"
    BY <1>14 DEF JumpTypeOf
  <2>5. a.save.sp + SlotsAtSetjmp(a) = vm.sp + 7
    BY <1>1, <1>14, <1>15
  <2>6. v3.frames[a.jb].save = s2
    BY <1>12, <1>14
  <2>7. v3.frames[a.jb].save.sp = a.save.sp + SlotsAtSetjmp(a)
    BY <2>5, <2>6, <1>13
  <2> QED  BY <2>1, <2>3, <2>4, <2>7, <1>14 DEF ActOK
<1>17. ASSUME NEW i \in n + 1 .. n + 5, v3.frames[i].type \in JumpTypes
       PROVE  i = a.jb
  <2>1. i \in {n + 1, n + 2, n + 3, n + 4, n + 5}  BY <1>1
  <2> QED  BY <2>1, <1>6, <1>12, <1>14, <1>17
<1>18. Layout(v3, d)
  <2>1. Len(vm.frames) + 2 <= Len(v3.frames)
    BY <1>1, <1>10 DEF n
  <2>2. /\ a.save.fp = Len(vm.frames) /\ a.save.sp = vm.sp + CallSlots
        /\ Floor(a) <= Len(v3.frames) /\ v3.sp = SpOver(a)
    BY <1>1, <1>10, <1>13, <1>14, <1>15 DEF n, CallSlots, Floor
  <2>3. \A i \in 1 .. Len(vm.frames) : v3.frames[i] = vm.frames[i]
    BY <1>11 DEF n
  <2>4. \A i \in Len(vm.frames) + 1 .. Len(v3.frames) :
            v3.frames[i].type \in JumpTypes => i = a.jb
    BY <1>10, <1>17 DEF n
  <2>5. a.fn # "rep" /\ a.phase # "read"
    BY <1>14
  <2> QED  BY <2>1, <2>2, <2>3, <2>4, <2>5, <1>1, <1>9, <1>16, EnterLayout
<1>19. jb \in Nat  BY <1>1, <1>10
<1> HIDE DEF d, jb
<1>20. Good(v3, d, jb)
  BY <1>1, <1>9, <1>18, <1>19 DEF Good, Quiet
<1>21. CASE Stop("fatal")
  BY <1>21, StopOK DEF Statuses
<1>22. CASE vm' = v3 /\ cstk' = d /\ except_top' = jb /\ status' = status
  BY <1>1, <1>20, <1>22 DEF IInv
<1> QED  BY <1>2, <1>21, <1>22

\* DebugResume preserves the invariant.
LEMMA DebugResumeOK ==
  ASSUME IInv, DebugResume
  PROVE  IInv'
<1> DEFINE k == Len(cstk)
           w == ReturnFrom(vm, cstk[k])
           d == SubSeq(cstk, 1, k - 1)
<1>1. /\ VmOK(vm) /\ Layout(vm, cstk) /\ Quiet(vm, cstk, except_top)
      /\ Good(vm, cstk, except_top) /\ status \in Statuses
      /\ k \in Nat /\ k \in 1 .. Len(cstk) /\ ActOK(vm, cstk[k])
      /\ Floor(cstk[k]) <= Len(vm.frames) /\ Len(vm.frames) \in Nat
  BY DEF IInv, Good, Layout, VmOK, Vms
<1>2. cstk[k].fn = "debug"
  BY DEF DebugResume, Top
<1>3. k \in 2 .. Len(cstk)
  BY <1>1, <1>2, AboveLoop
<1>4. /\ cstk[k].save.fp \in Nat /\ cstk[k].jb \in Nat /\ cstk[k].old \in Nat
  BY <1>1, ActivationTypes DEF ActOK, Activations
<1>5. vm' = w /\ cstk' = d /\ except_top' = cstk[k].old /\ status' = status
  BY DEF DebugResume, Top
<1>6. Debug \in BOOLEAN /\ Debug
  BY <1>1, <1>2, VmStackAssumption DEF Quiet
<1> HIDE DEF k
<1>7. Good(w, d, cstk[k].old)
  <2>1. cstk[k].save.fp <= Len(vm.frames)
    BY <1>1, <1>4 DEF Floor, ActOK
  <2> QED  BY <2>1, <1>1, <1>3, <1>4, <1>6, CutAll, LeftOK
<1> QED  BY <1>1, <1>5, <1>7 DEF IInv

-----------------------------------------------------------------------------
(* The theorems.                                                           *)

\* The empty VM is well formed.
LEMMA EmptyOK == VmOK(EmptyVm) /\ EmptyVm.frames = <<>> /\ EmptyVm.sp = 0
<1> DEFINE v == EmptyVm
           z == [t \in FrameTypes |-> 0]
<1>1. /\ v.frames = <<>> /\ Len(v.frames) = 0 /\ DOMAIN v.frames = {}
      /\ v.bufs = 0 /\ v.sp = 0 /\ \A t \in FrameTypes : v.type_fp[t] = 0
  BY DEF EmptyVm
<1>2. v \in Vms
  <2>1. z \in [FrameTypes -> Nat] /\ <<>> \in Seq(Frames)
    OBVIOUS
  <2> HIDE DEF z
  <2> QED  BY <2>1 DEF EmptyVm, Vms, z
<1> HIDE DEF v
<1>3. Linked(v)
  BY <1>1 DEF Linked, TopmostBelow, FramesOf
<1>4. Owned(v) = {}
  BY <1>1 DEF Owned
<1>5. v.bufs = Cardinality(Owned(v))
  BY <1>1, <1>4, FS_EmptySet
<1>6. VmOK(v)
  BY <1>1, <1>2, <1>3, <1>5 DEF VmOK
<1> QED  BY <1>1, <1>6 DEF v

\* The invariant holds at the first prompt.
LEMMA InitOK == Init => IInv
<1> SUFFICES ASSUME Init  PROVE IInv
  OBVIOUS
<1> DEFINE v1 == frame_push(EmptyVm, "ENV")
           v2 == frame_push(v1, "ENV")
           v3 == frame_push(v2, "INPUT")
           v4 == eval_alloc(v3, 3)
           v5 == frame_longjmp_push(v4, "EXCEPT")
           v6 == frame_longjmp_push(v5, "REP")
           a  == Activation("rep", "idle", vm_state_save(v3), 4, 0)
           s5 == [sp |-> v4.sp, fp |-> Len(v4.frames) + 1,
                  debug_lvl |-> v4.debug_lvl]
           s6 == [sp |-> v5.sp, fp |-> Len(v5.frames) + 1,
                  debug_lvl |-> v5.debug_lvl]
<1>1. vm = v6 /\ cstk = <<a>> /\ except_top = 4 /\ status = "run"
  BY DEF Init, RepBase
<1> HIDE DEF v1, v2, v3, v4, v5, v6, s5, s6
<1>2. /\ {"ENV", "INPUT", "EXCEPT", "REP"} \subseteq FrameTypes
      /\ {"ENV", "INPUT", "REP"} \cap JumpTypes = {}
  BY DEF FrameTypes, JumpTypes
<1>3. VmOK(v1) /\ OneMore(EmptyVm, v1, "ENV", NoSave)
  BY <1>2, EmptyOK, FramePushOK DEF v1
<1>4. VmOK(v2) /\ OneMore(v1, v2, "ENV", NoSave)
  BY <1>2, <1>3, FramePushOK DEF v2
<1>5. VmOK(v3) /\ OneMore(v2, v3, "INPUT", NoSave)
  BY <1>2, <1>4, FramePushOK DEF v3
<1>6. /\ VmOK(v4) /\ v4.frames = v3.frames /\ v4.sp = v3.sp + 3
      /\ v4.except_lvl = v3.except_lvl
  BY <1>5, EvalAllocOK DEF v4
<1>7. VmOK(v5) /\ OneMore(v4, v5, "EXCEPT", s5)
  BY <1>2, <1>6, LongjmpPushOK, Zenon DEF v5, s5
<1>8. VmOK(v6) /\ OneMore(v5, v6, "REP", s6)
  BY <1>2, <1>7, LongjmpPushOK, Zenon DEF v6, s6
<1>9. /\ Len(v3.frames) = 3 /\ Len(v5.frames) = 4 /\ Len(v6.frames) = 5
      /\ DOMAIN v6.frames = 1 .. 5
      /\ v3.sp = 0 /\ v6.sp = 3 /\ s5.sp = 3 /\ v6.except_lvl = 0
  <2>1. EmptyVm.sp = 0 /\ Len(EmptyVm.frames) = 0 /\ EmptyVm.except_lvl = 0
    BY DEF EmptyVm
  <2>2. Len(v1.frames) = 1 /\ v1.sp = 0 /\ v1.except_lvl = 0
    BY <2>1, <1>3 DEF OneMore
  <2>3. Len(v2.frames) = 2 /\ v2.sp = 0 /\ v2.except_lvl = 0
    BY <2>2, <1>4 DEF OneMore
  <2>4. Len(v3.frames) = 3 /\ v3.sp = 0 /\ v3.except_lvl = 0
    BY <2>3, <1>5 DEF OneMore
  <2>5. Len(v5.frames) = 4 /\ v5.sp = 3 /\ v5.except_lvl = 0 /\ s5.sp = 3
    BY <2>4, <1>6, <1>7 DEF OneMore, s5
  <2> QED  BY <2>4, <2>5, <1>8 DEF OneMore
<1>10. /\ v6.frames[1].type = "ENV" /\ v6.frames[2].type = "ENV"
       /\ v6.frames[3].type = "INPUT"
       /\ v6.frames[4].type = "EXCEPT" /\ v6.frames[4].save = s5
       /\ v6.frames[5].type = "REP"
  <2>1. Len(EmptyVm.frames) = 0
    BY DEF EmptyVm
  <2>2. v1.frames[1].type = "ENV" /\ Len(v1.frames) = 1
    BY <2>1, <1>3 DEF OneMore
  <2>3. /\ v2.frames[1].type = "ENV" /\ v2.frames[2].type = "ENV"
        /\ Len(v2.frames) = 2
    BY <2>2, <1>4 DEF OneMore
  <2>4. /\ v3.frames[1].type = "ENV" /\ v3.frames[2].type = "ENV"
        /\ v3.frames[3].type = "INPUT"
    BY <2>3, <1>5 DEF OneMore
  <2>5. /\ v5.frames[1].type = "ENV" /\ v5.frames[2].type = "ENV"
        /\ v5.frames[3].type = "INPUT" /\ v5.frames[4].type = "EXCEPT"
        /\ v5.frames[4].save = s5
    BY <2>4, <1>6, <1>7, <1>9 DEF OneMore
  <2> QED  BY <2>5, <1>8, <1>9 DEF OneMore
<1>11. /\ a \in Activations /\ a.fn = "rep" /\ a.phase = "idle" /\ a.jb = 4
       /\ a.save.fp = 3 /\ a.save.sp = 0
  <2>1. vm_state_save(v3) \in Saves
    BY <1>5, <1>9 DEF vm_state_save, Saves, VmOK, Vms
  <2>2. vm_state_save(v3).fp = 3 /\ vm_state_save(v3).sp = 0
    BY <1>9 DEF vm_state_save
  <2> QED  BY <2>1, <2>2 DEF Activation, Activations, Phases
<1> HIDE DEF a
<1>12. /\ SlotsAtSetjmp(a) = 3 /\ SpOver(a) = 3 /\ Floor(a) = 4
  BY <1>11 DEF SlotsAtSetjmp, SpOver, SlotsHeld, Floor
<1>13. ActOK(v6, a)
  <2>1. a.jb \in FramesOf(v6, "EXCEPT") /\ JumpTypeOf[a.fn] = "EXCEPT"
    BY <1>9, <1>10, <1>11 DEF FramesOf, JumpTypeOf
  <2>2. v6.frames[a.jb].save.sp = a.save.sp + SlotsAtSetjmp(a)
    BY <1>9, <1>10, <1>11, <1>12
  <2> QED  BY <2>1, <2>2, <1>11 DEF ActOK
<1>14. cstk \in Seq(Activations) /\ Len(cstk) = 1 /\ cstk[1] = a
  BY <1>1, <1>11
<1>15. \A i \in DOMAIN v6.frames : v6.frames[i].type \in JumpTypes => i = 4
  <2> TAKE i \in DOMAIN v6.frames
  <2>1. i \in {1, 2, 3, 4, 5}  BY <1>9
  <2> QED  BY <2>1, <1>2, <1>10
<1>16. Layout(vm, cstk)
  BY <1>1, <1>9, <1>11, <1>12, <1>13, <1>14, <1>15 DEF Layout
<1>17. Quiet(vm, cstk, except_top)
  BY <1>1, <1>9, <1>11, <1>14 DEF Quiet, Level
<1> QED  BY <1>1, <1>8, <1>16, <1>17 DEF IInv, Good, Statuses

\* Every action preserves the invariant.
LEMMA NextOK == IInv /\ [Next]_vars => IInv'
<1> SUFFICES ASSUME IInv, [Next]_vars  PROVE IInv'
  OBVIOUS
<1>1. ASSUME NEW fn \in Fns, Call(fn)  PROVE IInv'
  BY <1>1, CallOK
<1>2. CASE Return        BY <1>2, ReturnStep
<1>3. CASE TryFinal      BY <1>3, TryFinalOK
<1>4. CASE ReadToken     BY <1>4, ReadTokenOK
<1>5. CASE TakeToken     BY <1>5, TakeTokenOK
<1>6. CASE ReadDone      BY <1>6, ReadDoneOK
<1>7. CASE EvalDone      BY <1>7, EvalDoneOK
<1>8. CASE EndOfInput    BY <1>8, StopOK DEF EndOfInput, Statuses
<1>9. CASE Raise         BY <1>9, RaiseOK
<1>10. CASE Goto         BY <1>10, GotoOK
<1>11. CASE FindLabel    BY <1>11, FindLabelOK
<1>12. CASE ProgReturn   BY <1>12, ProgReturnOK
<1>13. CASE Break        BY <1>13, BreakOK
<1>14. CASE ContinueLoop BY <1>14, ContinueLoopOK
<1>15. CASE DebugRep     BY <1>15, DebugRepOK
<1>16. CASE DebugResume  BY <1>16, DebugResumeOK
<1>17. CASE UNCHANGED vars
  <2>1. /\ vm' = vm /\ cstk' = cstk /\ except_top' = except_top
        /\ status' = status
    BY <1>17 DEF vars
  <2> QED  BY <2>1 DEF IInv
<1>18. CASE Stopped      BY <1>17, <1>18 DEF Stopped
<1> QED
  BY <1>1, <1>2, <1>3, <1>4, <1>5, <1>6, <1>7, <1>8, <1>9, <1>10, <1>11,
     <1>12, <1>13, <1>14, <1>15, <1>16, <1>17, <1>18 DEF Next

\* The inductive invariant holds throughout: whatever frame_push, frame_pop1,
\* vm_state_restore and longjmp do, frames, slots and activations stay aligned.
THEOREM Invariance == Spec => []IInv
<1>1. Init => IInv  BY InitOK
<1>2. IInv /\ [Next]_vars => IInv'  BY NextOK
<1> QED  BY <1>1, <1>2, PTL DEF Spec

\* Whatever is called, raised or jumped to, struct vm and the C stack stay
\* well typed: no frame pointer, slot count or exception level goes negative.
THEOREM TypeCorrect == Spec => []TypeOK
<1>1. IInv => TypeOK
  <2> SUFFICES ASSUME IInv  PROVE TypeOK
    OBVIOUS
  <2>1. Layout(vm, cstk)  BY DEF IInv, Good
  <2>2. cstk \in Seq(Activations) /\ cstk # <<>>
    BY <2>1 DEF Layout
  <2> QED  BY <2>2 DEF IInv, Good, VmOK, TypeOK, Statuses
<1> QED  BY <1>1, Invariance, PTL

\* frame_push, frame_pop1 and longjmp keep every vm->type_fp[t] and every
\* type_prev pointing at the topmost live frame of its type below.
THEOREM ChainsCorrect == Spec => []TypeChains
<1>1. IInv => TypeChains
  BY DEF IInv, Good, VmOK, TypeChains
<1> QED  BY <1>1, Invariance, PTL

\* No longjmp of goto, return, break, continue or raise goes to a jmp_buf whose
\* function has returned: every jump frame has its live activation.
THEOREM JumpsCorrect == Spec => []JumpTargetsLive
<1>1. IInv => JumpTargetsLive
  <2> SUFFICES ASSUME IInv  PROVE JumpTargetsLive
    OBVIOUS
  <2>1. Layout(vm, cstk) /\ DOMAIN cstk = 1 .. Len(cstk)
    BY DEF IInv, Good, Layout
  <2>2. ASSUME NEW i \in DOMAIN vm.frames, vm.frames[i].type \in JumpTypes
        PROVE  \E k \in DOMAIN cstk : cstk[k].jb = i
    BY <2>1, <2>2 DEF Layout
  <2>3. ASSUME NEW k \in DOMAIN cstk, cstk[k].jb # 0
        PROVE  /\ cstk[k].jb \in FramesOf(vm, JumpTypeOf[cstk[k].fn])
               /\ \A l \in DOMAIN cstk : l > k => cstk[l].save.fp >= cstk[k].jb
    <3>1. ActOK(vm, cstk[k])
      BY <2>1 DEF Layout
    <3>2. cstk[k].jb \in FramesOf(vm, JumpTypeOf[cstk[k].fn])
      BY <3>1, <2>3 DEF ActOK
    <3>3. ASSUME NEW l \in DOMAIN cstk, l > k
          PROVE  cstk[l].save.fp >= cstk[k].jb
      <4>1. Floor(cstk[k]) <= cstk[l].save.fp /\ ActOK(vm, cstk[l])
        BY <2>1, <3>3 DEF Layout
      <4>2. cstk[l].save.fp \in Nat /\ cstk[k].jb \in Nat
        BY <3>1, <4>1, ActivationTypes DEF ActOK
      <4> QED  BY <4>1, <4>2, <2>3 DEF Floor
    <3> QED  BY <3>2, <3>3
  <2> QED  BY <2>2, <2>3 DEF JumpTargetsLive
<1> QED  BY <1>1, Invariance, PTL

\* However deep the calls and whichever way they end, vm_state_restore puts sp
\* back to the slots of the activation that goes on.
THEOREM SlotsCorrect == Spec => []SlotsBalanced
<1>1. IInv => SlotsBalanced
  <2> SUFFICES ASSUME IInv  PROVE SlotsBalanced
    OBVIOUS
  <2>1. Layout(vm, cstk) /\ DOMAIN cstk = 1 .. Len(cstk)
    BY DEF IInv, Good, Layout
  <2>2. ASSUME NEW k \in DOMAIN cstk, cstk[k].jb # 0
        PROVE  vm.frames[cstk[k].jb].save.sp
                 = cstk[k].save.sp + SlotsAtSetjmp(cstk[k])
    <3>1. ActOK(vm, cstk[k])
      BY <2>1 DEF Layout
    <3> QED  BY <3>1, <2>2 DEF ActOK
  <2>3. vm.sp = SpOver(Top)
    BY <2>1 DEF Layout, Top
  <2> QED  BY <2>1, <2>2, <2>3 DEF SlotsBalanced, Layout
<1> QED  BY <1>1, Invariance, PTL

\* ebuf_push, str_neweb and frame_pop1 neither leak a reader buffer nor free it
\* twice, an exception out of the reader included.
THEOREM BuffersCorrect == Spec => []BuffersOwned
<1>1. IInv => BuffersOwned
  <2> SUFFICES ASSUME IInv  PROVE BuffersOwned
    OBVIOUS
  <2>1. Owned(vm) = {i \in FramesOf(vm, "MEM") : vm.frames[i].data}
    BY DEF Owned, FramesOf
  <2>2. vm.bufs = Cardinality(Owned(vm))
    BY DEF IInv, Good, VmOK
  <2> QED  BY <2>1, <2>2 DEF BuffersOwned
<1> QED  BY <1>1, Invariance, PTL

\* In a release build the level that turns the next exception into a fatal
\* "Double exception" is never left up once the handler has been left.
THEOREM LevelCorrect == Spec => []HandlerLevel
<1>1. IInv => HandlerLevel
  BY DEF IInv, Good, Quiet, Level, HandlerLevel, Layout
<1> QED  BY <1>1, Invariance, PTL

-----------------------------------------------------------------------------
(* Which frames there are, exactly: each activation has the frames that    *)
(* its function pushes, in order, and nothing else (Tidy).                 *)

CallTypes == <<"CLASS", "FUNC">>

OwnTypes ==
    [rep    |-> <<"EXCEPT", "REP">>,
     debug  |-> <<"CLASS", "FUNC", "INPUT", "EXCEPT", "REP">>,
     load   |-> <<"CLASS", "FUNC", "INPUT", "ENV">>,
     subr   |-> <<"CLASS", "FUNC">>,
     lambda |-> <<"CLASS", "FUNC", "FUNC", "ENV">>,
     let    |-> <<"CLASS", "FUNC", "ENV">>,
     prog   |-> <<"CLASS", "FUNC", "PROG">>,
     while  |-> <<"CLASS", "FUNC", "WHILE">>,
     try    |-> <<"CLASS", "FUNC", "EXCEPT">>]

Own(a) ==
    CASE a.phase = "final" -> CallTypes
      [] a.phase = "read"  -> Append(OwnTypes[a.fn], "MEM")
      [] OTHER             -> OwnTypes[a.fn]

\* Where among them its jump frame is.
JumpAt == [rep |-> 1, debug |-> 4, prog |-> 3, while |-> 3, try |-> 3]

Loops == {"rep", "load", "debug"}

Neat(a) ==
    /\ a.fn \in Loops <=> a.phase \in {"idle", "read", "eval"}
    /\ a.phase = "final" => a.fn = "try" /\ a.jb = 0
    /\ a.jb # 0 => a.jb = a.save.fp + JumpAt[a.fn]

\* The functions entered in the lowest n frames.
Depth(v, n) == Cardinality({i \in 1 .. n : v.frames[i].type = "FUNC"})

\* debug_lvl counts them, now and at every setjmp.
Counts(v) == Debug =>
    /\ v.debug_lvl = Depth(v, Len(v.frames))
    /\ \A i \in 1 .. Len(v.frames) : v.frames[i].type \in JumpTypes =>
           v.frames[i].save.debug_lvl = Depth(v, i)

\* Where the frames of activation k end.
Above(v, c, k) == IF k = Len(c) THEN Len(v.frames) ELSE c[k + 1].save.fp

Exact(v, c, k) ==
    /\ Neat(c[k])
    /\ Above(v, c, k) = c[k].save.fp + Len(Own(c[k]))
    /\ \A i \in 1 .. Len(Own(c[k])) : v.frames[c[k].save.fp + i].type = Own(c[k])[i]
    /\ Debug => c[k].save.debug_lvl = Depth(v, c[k].save.fp)

Tidy(v, c) == Counts(v) /\ \A k \in 1 .. Len(c) : Exact(v, c, k)

\* w has the lowest m frames of v, and above them frames of the types s.
Over(v, m, w, s) ==
    /\ VmOK(w) /\ Counts(w)
    /\ m \in Nat /\ m <= Len(v.frames) /\ Len(w.frames) = m + Len(s)
    /\ \A i \in 1 .. m : w.frames[i].type = v.frames[i].type
    /\ \A i \in 1 .. Len(s) : w.frames[m + i].type = s[i]

\* An activation's frames have types.
LEMMA OwnOK ==
  ASSUME NEW a \in Activations
  PROVE  Own(a) \in Seq(FrameTypes) /\ Len(Own(a)) \in Nat
<1>1. OwnTypes[a.fn] \in Seq(FrameTypes)
  <2>1. {"FUNC", "ENV", "CLASS", "EXCEPT", "REP", "PROG", "WHILE", "INPUT"} \subseteq FrameTypes
    BY DEF FrameTypes
  <2>2. a.fn \in {"rep", "debug", "load", "subr", "lambda", "let", "prog", "while", "try"}
    BY DEF Activations, AllFns
  <2>3. OwnTypes["debug"] \in Seq(FrameTypes)
    BY <2>1 DEF OwnTypes
  <2>4. OwnTypes["load"] \in Seq(FrameTypes) /\ OwnTypes["lambda"] \in Seq(FrameTypes)
    BY <2>1 DEF OwnTypes
  <2>5. /\ OwnTypes["rep"] \in Seq(FrameTypes) /\ OwnTypes["subr"] \in Seq(FrameTypes)
        /\ OwnTypes["let"] \in Seq(FrameTypes) /\ OwnTypes["prog"] \in Seq(FrameTypes)
        /\ OwnTypes["while"] \in Seq(FrameTypes) /\ OwnTypes["try"] \in Seq(FrameTypes)
    BY <2>1 DEF OwnTypes
  <2> QED  BY <2>2, <2>3, <2>4, <2>5
<1>2. CallTypes \in Seq(FrameTypes) /\ "MEM" \in FrameTypes
  BY DEF CallTypes, FrameTypes
<1> QED  BY <1>1, <1>2 DEF Own

\* Appending a type.
LEMMA AppendOK ==
  ASSUME NEW s \in Seq(FrameTypes), NEW t \in FrameTypes, NEW r, r = Append(s, t)
  PROVE  /\ r \in Seq(FrameTypes) /\ Len(r) = Len(s) + 1 /\ r[Len(s) + 1] = t
         /\ \A i \in 1 .. Len(s) : r[i] = s[i]
OBVIOUS

\* How many functions were entered depends on the frames' types only.
LEMMA DepthSame ==
  ASSUME NEW v, NEW w, NEW n \in Nat, \A i \in 1 .. n : w.frames[i].type = v.frames[i].type
  PROVE  Depth(w, n) = Depth(v, n)
<1>1. {i \in 1 .. n : w.frames[i].type = "FUNC"} = {i \in 1 .. n : v.frames[i].type = "FUNC"}
  OBVIOUS
<1> QED  BY <1>1 DEF Depth

\* The same for every part of the stack.
LEMMA DepthsSame ==
  ASSUME NEW v, NEW w, NEW n \in Nat, \A i \in 1 .. n : w.frames[i].type = v.frames[i].type
  PROVE  \A j \in 0 .. n : Depth(w, j) = Depth(v, j)
<1> SUFFICES ASSUME NEW j \in 0 .. n  PROVE Depth(w, j) = Depth(v, j)
  OBVIOUS
<1>1. j \in Nat /\ \A i \in 1 .. j : w.frames[i].type = v.frames[i].type
  OBVIOUS
<1> QED  BY <1>1, DepthSame

\* One frame more is one function more, or none.
LEMMA DepthNext ==
  ASSUME NEW v, NEW n \in Nat
  PROVE  /\ Depth(v, n) \in Nat
         /\ Depth(v, n + 1) = Depth(v, n) + IF v.frames[n + 1].type = "FUNC" THEN 1 ELSE 0
<1> DEFINE S == {i \in 1 .. n : v.frames[i].type = "FUNC"}
           T == {i \in 1 .. n + 1 : v.frames[i].type = "FUNC"}
<1>1. IsFiniteSet(S) /\ Cardinality(S) \in Nat
  <2>1. IsFiniteSet(1 .. n) /\ S \subseteq 1 .. n
    BY FS_Interval
  <2> HIDE DEF S
  <2> QED  BY <2>1, FS_Subset, FS_CardinalityType
<1>4. Depth(v, n) = Cardinality(S) /\ Depth(v, n + 1) = Cardinality(T)
  BY DEF Depth
<1>2. CASE v.frames[n + 1].type = "FUNC"
  <2>1. T = S \cup {n + 1} /\ n + 1 \notin S
    BY <1>2
  <2> HIDE DEF S, T
  <2>2. Cardinality(T) = Cardinality(S) + 1
    BY <1>1, <2>1, FS_AddElement
  <2> QED  BY <1>1, <1>2, <1>4, <2>2
<1>3. CASE v.frames[n + 1].type # "FUNC"
  <2>1. T = S
    BY <1>3
  <2> HIDE DEF S, T
  <2> QED  BY <1>1, <1>3, <1>4, <2>1
<1> QED  BY <1>2, <1>3

\* One frame more.
LEMMA OverMore ==
  ASSUME NEW v, NEW m, NEW w, NEW s \in Seq(FrameTypes), Over(v, m, w, s),
         NEW t \in FrameTypes, NEW save, NEW x, VmOK(x), OneMore(w, x, t, save),
         x.debug_lvl = w.debug_lvl + (IF t = "FUNC" /\ Debug THEN 1 ELSE 0),
         t \in JumpTypes => save.debug_lvl = w.debug_lvl
  PROVE  Over(v, m, x, Append(s, t)) /\ Append(s, t) \in Seq(FrameTypes)
<1> DEFINE n == Len(w.frames)
           r == Append(s, t)
<1>1. /\ n \in Nat /\ n = m + Len(s) /\ Len(s) \in Nat /\ m \in Nat
      /\ Len(x.frames) = n + 1 /\ \A i \in 1 .. n : x.frames[i] = w.frames[i]
      /\ x.frames[n + 1].type = t /\ x.frames[n + 1].save = save
  BY DEF Over, OneMore, VmOK, Vms
<1>2. /\ r \in Seq(FrameTypes) /\ Len(r) = Len(s) + 1 /\ r[Len(s) + 1] = t
      /\ \A i \in 1 .. Len(s) : r[i] = s[i]
  OBVIOUS
<1> HIDE DEF r
<1>3. \A i \in 1 .. Len(r) : x.frames[m + i].type = r[i]
  <2> SUFFICES ASSUME NEW i \in 1 .. Len(r)  PROVE x.frames[m + i].type = r[i]
    OBVIOUS
  <2>1. CASE i \in 1 .. Len(s)
    <3>1. w.frames[m + i].type = s[i]  BY <2>1 DEF Over
    <3>2. m + i \in 1 .. n  BY <2>1, <1>1
    <3> QED  BY <2>1, <3>1, <3>2, <1>1, <1>2
  <2>2. CASE i = Len(s) + 1
    <3>1. m + i = n + 1  BY <2>2, <1>1
    <3> QED  BY <2>2, <3>1, <1>1, <1>2
  <2> QED  BY <1>1, <1>2, <2>1, <2>2
<1>4. \A i \in 1 .. m : x.frames[i].type = v.frames[i].type
  BY <1>1 DEF Over
<1>5. \A i \in 0 .. n : Depth(x, i) = Depth(w, i)
  BY <1>1, DepthsSame
<1>6. Depth(x, n + 1) = Depth(w, n) + IF t = "FUNC" THEN 1 ELSE 0
  <2>1. Depth(x, n) = Depth(w, n)  BY <1>1, <1>5
  <2>2. Depth(x, n + 1) = Depth(x, n) + IF x.frames[n + 1].type = "FUNC" THEN 1 ELSE 0
    BY <1>1, DepthNext
  <2> HIDE DEF n
  <2> QED  BY <1>1, <2>1, <2>2
<1>7. Depth(w, n) \in Nat
  BY <1>1, DepthNext
<1>8. Counts(x)
  <2> SUFFICES ASSUME Debug
               PROVE  /\ x.debug_lvl = Depth(x, Len(x.frames))
                      /\ \A i \in 1 .. Len(x.frames) : x.frames[i].type \in JumpTypes =>
                             x.frames[i].save.debug_lvl = Depth(x, i)
    BY DEF Counts
  <2>1. /\ w.debug_lvl = Depth(w, n)
        /\ \A i \in 1 .. n : w.frames[i].type \in JumpTypes => w.frames[i].save.debug_lvl = Depth(w, i)
    BY DEF Over, Counts
  <2>2. x.debug_lvl = Depth(x, n + 1)
    BY <1>6, <1>7, <2>1
  <2>3. t \in JumpTypes => save.debug_lvl = Depth(x, n + 1)
    BY <1>6, <1>7, <2>1 DEF JumpTypes
  <2> HIDE DEF n
  <2>4. ASSUME NEW i \in 1 .. n + 1, x.frames[i].type \in JumpTypes
        PROVE  x.frames[i].save.debug_lvl = Depth(x, i)
    <3>1. CASE i = n + 1  BY <3>1, <2>3, <2>4, <1>1
    <3>2. CASE i \in 1 .. n  BY <3>2, <2>1, <2>4, <1>1, <1>5
    <3> QED  BY <3>1, <3>2, <1>1
  <2> QED  BY <1>1, <2>2, <2>4
<1> QED  BY <1>1, <1>2, <1>3, <1>4, <1>8 DEF Over, r

\* PushRecord leaves debug_lvl alone.
LEMMA PushLvl ==
  ASSUME NEW v \in Vms, NEW t, NEW save, NEW data
  PROVE  PushRecord(v, t, save, data).debug_lvl = v.debug_lvl
BY DEF PushRecord, Vms

\* frame_push of a frame that is neither a function's nor a jump frame.
LEMMA OverFrame ==
  ASSUME NEW v, NEW m, NEW w, NEW s \in Seq(FrameTypes), Over(v, m, w, s),
         NEW t \in FrameTypes \ JumpTypes, t # "FUNC"
  PROVE  Over(v, m, frame_push(w, t), Append(s, t)) /\ Append(s, t) \in Seq(FrameTypes)
<1> DEFINE x == frame_push(w, t)
<1>1. VmOK(w) /\ w \in Vms /\ w.debug_lvl \in Nat
  BY DEF Over, VmOK, Vms
<1>2. VmOK(x) /\ OneMore(w, x, t, NoSave)
  BY <1>1, FramePushOK
<1>3. x.debug_lvl = w.debug_lvl
  BY <1>1, PushLvl DEF frame_push
<1> HIDE DEF x
<1>4. x.debug_lvl = w.debug_lvl + (IF t = "FUNC" /\ Debug THEN 1 ELSE 0)
  BY <1>1, <1>3
<1>5. Over(v, m, x, Append(s, t)) /\ Append(s, t) \in Seq(FrameTypes)
  BY <1>2, <1>4, OverMore
<1> QED  BY <1>5 DEF x

\* frame_func_push, which counts the function it enters.
LEMMA OverFunc ==
  ASSUME NEW v, NEW m, NEW w, NEW s \in Seq(FrameTypes), Over(v, m, w, s)
  PROVE  /\ Over(v, m, frame_func_push(w), Append(s, "FUNC"))
         /\ Append(s, "FUNC") \in Seq(FrameTypes)
<1> DEFINE x == frame_func_push(w)
           u == frame_push(w, "FUNC")
<1>1. VmOK(w) /\ w \in Vms /\ w.debug_lvl \in Nat /\ "FUNC" \in FrameTypes \ JumpTypes
  BY DEF Over, VmOK, Vms, FrameTypes, JumpTypes
<1>2. VmOK(x) /\ OneMore(w, x, "FUNC", NoSave)
  BY <1>1, FuncPushOK
<1>3. u.debug_lvl = w.debug_lvl /\ VmOK(u)
  BY <1>1, PushLvl, FramePushOK DEF frame_push
<1>4. x.debug_lvl = u.debug_lvl + IF Debug THEN 1 ELSE 0
  <2>1. x = [u EXCEPT !.debug_lvl = u.debug_lvl + IF Debug THEN 1 ELSE 0]
    BY DEF frame_func_push
  <2> HIDE DEF u, x
  <2> QED  BY <1>3, <2>1 DEF VmOK, Vms
<1> HIDE DEF x, u
<1>5. Over(v, m, x, Append(s, "FUNC")) /\ Append(s, "FUNC") \in Seq(FrameTypes)
  BY <1>1, <1>2, <1>3, <1>4, OverMore
<1> QED  BY <1>5 DEF x

\* frame_longjmp_push, which saves the level with the frame.
LEMMA OverLongjmp ==
  ASSUME NEW v, NEW m, NEW w, NEW s \in Seq(FrameTypes), Over(v, m, w, s),
         NEW t \in FrameTypes, t # "FUNC"
  PROVE  Over(v, m, frame_longjmp_push(w, t), Append(s, t)) /\ Append(s, t) \in Seq(FrameTypes)
<1> DEFINE x == frame_longjmp_push(w, t)
           save == [sp |-> w.sp, fp |-> Len(w.frames) + 1, debug_lvl |-> w.debug_lvl]
<1>1. VmOK(w) /\ w \in Vms /\ w.debug_lvl \in Nat
  BY DEF Over, VmOK, Vms
<1>2. VmOK(x) /\ OneMore(w, x, t, save)
  BY <1>1, LongjmpPushOK, Zenon
<1>3. x.debug_lvl = w.debug_lvl /\ save.debug_lvl = w.debug_lvl
  BY <1>1, PushLvl DEF frame_longjmp_push
<1> HIDE DEF x, save
<1>4. x.debug_lvl = w.debug_lvl + (IF t = "FUNC" /\ Debug THEN 1 ELSE 0)
  BY <1>1, <1>3
<1>5. Over(v, m, x, Append(s, t)) /\ Append(s, t) \in Seq(FrameTypes)
  BY <1>2, <1>3, <1>4, OverMore
<1> QED  BY <1>5 DEF x

\* ebuf_push.
LEMMA OverEbuf ==
  ASSUME NEW v, NEW m, NEW w, NEW s \in Seq(FrameTypes), Over(v, m, w, s)
  PROVE  Over(v, m, ebuf_push(w), Append(s, "MEM"))
<1> DEFINE x == ebuf_push(w)
           u == PushRecord(w, "MEM", NoSave, TRUE)
<1>1. VmOK(w) /\ w \in Vms /\ w.debug_lvl \in Nat /\ "MEM" \in FrameTypes /\ "MEM" \notin JumpTypes
  BY DEF Over, VmOK, Vms, FrameTypes, JumpTypes
<1>2. VmOK(x) /\ OneMore(w, x, "MEM", NoSave)
  BY <1>1, EbufPushOK, Zenon
<1>3. u.debug_lvl = w.debug_lvl
  BY <1>1, PushLvl
<1>4. x.debug_lvl = u.debug_lvl
  <2>1. DOMAIN u = DOMAIN w
    BY DEF PushRecord, Vms
  <2>2. x = [u EXCEPT !.bufs = u.bufs + 1]
    BY DEF ebuf_push
  <2> HIDE DEF u, x
  <2> QED  BY <1>1, <2>1, <2>2 DEF Vms
<1> HIDE DEF x, u
<1>5. x.debug_lvl = w.debug_lvl + (IF "MEM" = "FUNC" /\ Debug THEN 1 ELSE 0)
  BY <1>1, <1>3, <1>4
<1>6. Over(v, m, x, Append(s, "MEM"))
  BY <1>1, <1>2, <1>5, OverMore
<1> QED  BY <1>6 DEF x

\* Frames of the same types and saves, and the same level.
LEMMA OverSame ==
  ASSUME NEW v, NEW m, NEW w, NEW s, Over(v, m, w, s), NEW x, VmOK(x),
         Len(x.frames) = Len(w.frames), x.debug_lvl = w.debug_lvl,
         \A i \in 1 .. Len(w.frames) : /\ x.frames[i].type = w.frames[i].type
                                       /\ x.frames[i].save = w.frames[i].save,
         s \in Seq(FrameTypes)
  PROVE  Over(v, m, x, s)
<1>1. Len(w.frames) \in Nat /\ Len(w.frames) = m + Len(s) /\ m \in Nat /\ Len(s) \in Nat
  BY DEF Over, VmOK, Vms
<1>2. \A i \in 0 .. Len(w.frames) : Depth(x, i) = Depth(w, i)
  <2>1. \A i \in 1 .. Len(w.frames) : x.frames[i].type = w.frames[i].type
    OBVIOUS
  <2> QED  BY <1>1, <2>1, DepthsSame
<1>3. Counts(x)
  <2>1. Counts(w)  BY DEF Over
  <2>2. ASSUME Debug, NEW i \in 1 .. Len(x.frames), x.frames[i].type \in JumpTypes
        PROVE  x.frames[i].save.debug_lvl = Depth(x, i)
    <3>1. i \in 1 .. Len(w.frames) /\ Depth(x, i) = Depth(w, i)  BY <1>1, <1>2
    <3> QED  BY <2>1, <2>2, <3>1 DEF Counts
  <2>3. Debug => x.debug_lvl = Depth(x, Len(x.frames))
    <3>1. Depth(x, Len(w.frames)) = Depth(w, Len(w.frames))  BY <1>1, <1>2
    <3> QED  BY <2>1, <3>1 DEF Counts
  <2> QED  BY <2>2, <2>3 DEF Counts
<1> QED  BY <1>1, <1>3 DEF Over

\* eval_alloc pushes no frame.
LEMMA OverAlloc ==
  ASSUME NEW v, NEW m, NEW w, NEW s \in Seq(FrameTypes), Over(v, m, w, s), NEW n \in Nat
  PROVE  Over(v, m, eval_alloc(w, n), s)
<1>1. VmOK(w)  BY DEF Over
<1>2. /\ VmOK(eval_alloc(w, n)) /\ eval_alloc(w, n).frames = w.frames
      /\ eval_alloc(w, n).debug_lvl = w.debug_lvl
  BY <1>1, EvalAllocOK
<1> QED  BY <1>2, OverSame

\* One frame less, which is no function's.
LEMMA OverPop ==
  ASSUME NEW v, NEW m, NEW w, NEW s \in Seq(FrameTypes), NEW t \in FrameTypes, t # "FUNC",
         Over(v, m, w, Append(s, t))
  PROVE  Over(v, m, frame_pop(w, Len(w.frames)), s)
<1> DEFINE r == Append(s, t)
           x == frame_pop(w, Len(w.frames))
           n == Len(w.frames) - 1
<1>1. /\ Len(r) = Len(s) + 1 /\ r[Len(s) + 1] = t /\ Len(s) \in Nat
      /\ \A i \in 1 .. Len(s) : r[i] = s[i]
  OBVIOUS
<1> HIDE DEF r
<1>2. /\ VmOK(w) /\ m \in Nat /\ n = m + Len(s) /\ n \in Nat /\ n \in 0 .. Len(w.frames)
      /\ Len(w.frames) = n + 1 /\ w.frames[n + 1].type = t
  <2>1. /\ VmOK(w) /\ m \in Nat /\ Len(w.frames) = m + Len(r)
        /\ w.frames[m + Len(r)].type = r[Len(r)]
    BY <1>1 DEF Over, r
  <2> QED  BY <1>1, <2>1
<1>3. VmOK(x) /\ Cut(w, x, n) /\ x.debug_lvl = w.debug_lvl
  BY <1>2, UnwindOK DEF frame_pop
<1> HIDE DEF x, n
<1>4. Len(x.frames) = n /\ \A i \in 1 .. n : x.frames[i] = w.frames[i]
  BY <1>3 DEF Cut
<1>5. \A i \in 0 .. n : Depth(x, i) = Depth(w, i)
  BY <1>2, <1>4, DepthsSame
<1>6. Depth(w, n + 1) = Depth(w, n)
  <2>1. Depth(w, n) \in Nat
    BY <1>2, DepthNext
  <2>2. Depth(w, n + 1) = Depth(w, n) + IF w.frames[n + 1].type = "FUNC" THEN 1 ELSE 0
    BY <1>2, DepthNext
  <2> QED  BY <1>2, <2>1, <2>2
<1>7. Counts(x)
  <2>1. Counts(w)  BY DEF Over
  <2>2. ASSUME Debug, NEW i \in 1 .. n, x.frames[i].type \in JumpTypes
        PROVE  x.frames[i].save.debug_lvl = Depth(x, i)
    BY <1>2, <1>4, <1>5, <2>1, <2>2 DEF Counts
  <2>3. Debug => x.debug_lvl = Depth(x, n)
    BY <1>2, <1>3, <1>5, <1>6, <2>1 DEF Counts
  <2> QED  BY <1>4, <2>2, <2>3 DEF Counts
<1>8. ASSUME NEW i \in 1 .. Len(s)  PROVE x.frames[m + i].type = s[i]
  <2>1. w.frames[m + i].type = r[i]  BY <1>1 DEF Over, r
  <2>2. m + i \in 1 .. n  BY <1>2, <1>1
  <2> QED  BY <2>1, <2>2, <1>1, <1>4
<1>9. ASSUME NEW i \in 1 .. m  PROVE x.frames[i].type = v.frames[i].type
  <2>1. w.frames[i].type = v.frames[i].type /\ m <= Len(v.frames)  BY DEF Over
  <2>2. i \in 1 .. n  BY <1>1, <1>2
  <2> QED  BY <2>1, <2>2, <1>4
<1>10. Over(v, m, x, s)
  <2>1. m <= Len(v.frames)  BY DEF Over
  <2> QED  BY <2>1, <1>1, <1>2, <1>3, <1>4, <1>7, <1>8, <1>9 DEF Over
<1> QED  BY <1>10 DEF x

-----------------------------------------------------------------------------
(* Activations and their frames.                                           *)

\* The activations' frames begin where those of the ones below have ended.
LEMMA SavesNested ==
  ASSUME NEW v, NEW c, VmOK(v), Layout(v, c), NEW k \in 1 .. Len(c)
  PROVE  /\ c[k] \in Activations /\ c[k].save \in Saves /\ c[k].save.fp \in Nat
         /\ c[k].save.fp <= Len(v.frames) /\ Len(v.frames) \in Nat /\ Len(c) \in Nat
         /\ \A l \in 1 .. Len(c) : k < l => c[k].save.fp <= c[l].save.fp
<1>1. \A l \in 1 .. Len(c) : ActOK(v, c[l]) /\ c[l] \in Activations /\ c[l].save.fp \in Nat
                             /\ c[l].jb \in Nat /\ Floor(c[l]) \in Nat
  BY ActivationTypes DEF Layout, ActOK
<1>2. \A l \in 1 .. Len(c) : c[l].save.fp <= Floor(c[l])
  BY <1>1 DEF Floor, ActOK
<1>3. \A l \in 1 .. Len(c) : k < l => Floor(c[k]) <= c[l].save.fp
  BY DEF Layout
<1>4. Len(v.frames) \in Nat /\ Len(c) \in Nat /\ Len(c) \in 1 .. Len(c)
      /\ Floor(c[Len(c)]) <= Len(v.frames)
  BY DEF Layout, VmOK, Vms
<1>5. \A l \in 1 .. Len(c) : k < l => c[k].save.fp <= c[l].save.fp
  BY <1>1, <1>2, <1>3
<1>6. c[Len(c)].save.fp <= Len(v.frames)
  BY <1>1, <1>2, <1>4
<1>7. c[k].save.fp <= Len(v.frames)
  <2>1. CASE k = Len(c)  BY <2>1, <1>6
  <2>2. CASE k # Len(c)
    <3>1. c[k].save.fp <= c[Len(c)].save.fp  BY <2>2, <1>4, <1>5
    <3> QED  BY <3>1, <1>1, <1>4, <1>6
  <2> QED  BY <2>1, <2>2
<1>8. c[k].save \in Saves
  BY <1>1, ActivationTypes
<1> QED  BY <1>1, <1>4, <1>5, <1>7, <1>8

\* An activation's end is not above the next one's beginning.
LEMMA AboveOK ==
  ASSUME NEW v, NEW c, VmOK(v), Layout(v, c), NEW k \in 1 .. Len(c)
  PROVE  /\ Above(v, c, k) \in Nat /\ Above(v, c, k) <= Len(v.frames)
         /\ \A l \in 1 .. Len(c) : k < l => Above(v, c, k) <= c[l].save.fp
<1>1. Len(c) \in Nat /\ Len(v.frames) \in Nat
  BY SavesNested
<1>2. CASE k = Len(c)
  BY <1>1, <1>2 DEF Above
<1>3. CASE k # Len(c)
  <2>1. k + 1 \in 1 .. Len(c) /\ Above(v, c, k) = c[k + 1].save.fp
    BY <1>1, <1>3 DEF Above
  <2>2. /\ c[k + 1].save.fp \in Nat /\ c[k + 1].save.fp <= Len(v.frames)
        /\ \A l \in 1 .. Len(c) : k + 1 < l => c[k + 1].save.fp <= c[l].save.fp
    BY <2>1, SavesNested
  <2>3. \A l \in 1 .. Len(c) : k < l => k + 1 < l \/ l = k + 1
    BY <1>1
  <2> QED  BY <2>1, <2>2, <2>3
<1> QED  BY <1>2, <1>3

\* Activation k is innermost and has the frames it should have.
LEMMA TidyTop ==
  ASSUME NEW v, NEW c, VmOK(v), Layout(v, c), Tidy(v, c),
         NEW k \in 1 .. Len(c) + 1, NEW a \in Activations, Neat(a),
         a.save.fp = IF k = Len(c) + 1 THEN Len(v.frames) ELSE c[k].save.fp,
         Debug => a.save.debug_lvl = Depth(v, a.save.fp),
         NEW w, Over(v, a.save.fp, w, Own(a)),
         NEW d, Len(d) = k, d[k] = a, \A j \in 1 .. k : j # k => d[j] = c[j]
  PROVE  Tidy(w, d)
<1> DEFINE m == a.save.fp
<1>1. /\ Len(c) \in Nat /\ 1 \in 1 .. Len(c)
      /\ VmOK(w) /\ Counts(w) /\ m \in Nat /\ m <= Len(v.frames)
      /\ Len(v.frames) \in Nat
      /\ Len(w.frames) = m + Len(Own(a)) /\ Len(Own(a)) \in Nat
      /\ \A i \in 1 .. m : w.frames[i].type = v.frames[i].type
      /\ \A i \in 1 .. Len(Own(a)) : w.frames[m + i].type = Own(a)[i]
  BY OwnOK DEF Over, Layout, VmOK, Vms
<1>2. \A i \in 0 .. m : Depth(w, i) = Depth(v, i)
  BY <1>1, DepthsSame
<1>3. Exact(w, d, k)
  <2>1. Above(w, d, k) = Len(w.frames)
    BY DEF Above
  <2>2. Debug => a.save.debug_lvl = Depth(w, m)
    BY <1>1, <1>2
  <2> QED  BY <1>1, <2>1, <2>2 DEF Exact
<1>4. ASSUME NEW j \in 1 .. k, j # k  PROVE Exact(w, d, j)
  <2>1. j \in 1 .. Len(c) /\ d[j] = c[j] /\ Exact(v, c, j) /\ j + 1 \in 1 .. k
    BY <1>1, <1>4 DEF Tidy
  <2>2. /\ c[j].save.fp \in Nat /\ Above(v, c, j) \in Nat /\ Above(v, c, j) <= Len(v.frames)
        /\ \A l \in 1 .. Len(c) : j < l => Above(v, c, j) <= c[l].save.fp
        /\ c[j] \in Activations
    BY <2>1, SavesNested, AboveOK
  <2>3. Above(v, c, j) <= m
    <3>1. CASE k = Len(c) + 1
      BY <3>1, <2>2
    <3>2. CASE k # Len(c) + 1
      <4>1. k \in 1 .. Len(c) /\ j < k  BY <3>2, <1>1, <1>4
      <4> QED  BY <3>2, <4>1, <2>2
    <3> QED  BY <3>1, <3>2
  <2>4. Above(w, d, j) = Above(v, c, j)
    <3>1. Above(w, d, j) = d[j + 1].save.fp
      BY <1>4 DEF Above
    <3>2. CASE j + 1 = k
      <4>1. Above(w, d, j) = m  BY <3>1, <3>2
      <4>2. Above(v, c, j) = m
        BY <3>2, <1>1, <2>1 DEF Above
      <4> QED  BY <4>1, <4>2
    <3>3. CASE j + 1 # k
      <4>1. d[j + 1] = c[j + 1] /\ j # Len(c)
        BY <3>3, <1>1, <2>1
      <4> QED  BY <3>1, <4>1 DEF Above
    <3> QED  BY <3>2, <3>3
  <2>5. /\ Neat(c[j]) /\ Above(v, c, j) = c[j].save.fp + Len(Own(c[j])) /\ Len(Own(c[j])) \in Nat
        /\ \A i \in 1 .. Len(Own(c[j])) : v.frames[c[j].save.fp + i].type = Own(c[j])[i]
        /\ Debug => c[j].save.debug_lvl = Depth(v, c[j].save.fp)
    BY <2>1, <2>2, OwnOK DEF Exact
  <2>6. ASSUME NEW i \in 1 .. Len(Own(c[j]))
        PROVE  w.frames[c[j].save.fp + i].type = Own(c[j])[i]
    <3>1. c[j].save.fp + Len(Own(c[j])) <= m
      BY <2>3, <2>5
    <3> DEFINE p == c[j].save.fp
               q == Len(Own(c[j]))
    <3>2. p \in Nat /\ q \in Nat /\ m \in Nat /\ i \in 1 .. q /\ p + q <= m
      BY <3>1, <2>2, <2>5, <1>1
    <3> HIDE DEF p, q, m
    <3>3. p + i \in 1 .. m
      BY <3>2
    <3> USE DEF p, q, m
    <3>4. c[j].save.fp + i \in 1 .. m
      BY <3>3
    <3> QED  BY <3>4, <2>5, <1>1
  <2>7. Debug => c[j].save.debug_lvl = Depth(w, c[j].save.fp)
    <3>1. c[j].save.fp \in 0 .. m
      BY <2>2, <2>3, <2>5, <1>1
    <3> QED  BY <3>1, <2>5, <1>2
  <2> QED  BY <2>1, <2>4, <2>5, <2>6, <2>7 DEF Exact
<1> QED  BY <1>1, <1>3, <1>4 DEF Tidy

\* The innermost activation is gone with all its frames.
LEMMA TidyLeave ==
  ASSUME NEW v, NEW c, VmOK(v), Layout(v, c), Tidy(v, c), NEW k \in 2 .. Len(c),
         NEW w, Over(v, c[k].save.fp, w, << >>),
         NEW d, Len(d) = k - 1, \A j \in 1 .. k - 1 : d[j] = c[j]
  PROVE  Tidy(w, d)
<1> DEFINE l == k - 1
           a == c[l]
<1>1. /\ Len(c) \in Nat /\ l \in 1 .. Len(c) /\ l \in 1 .. Len(c) + 1 /\ l # Len(c) + 1 /\ l # Len(c)
      /\ Exact(v, c, l) /\ a \in Activations /\ a.save.fp \in Nat /\ l + 1 = k
      /\ a.save.fp <= Len(v.frames) /\ Len(v.frames) \in Nat
  <2>1. Len(c) \in Nat  BY SavesNested
  <2>2. l \in 1 .. Len(c) /\ l # Len(c) + 1 /\ l # Len(c) /\ l \in 1 .. Len(c) + 1  BY <2>1
  <2> QED  BY <2>1, <2>2, SavesNested DEF Tidy
<1> HIDE DEF l
<1>2. /\ Neat(a) /\ c[k].save.fp = a.save.fp + Len(Own(a)) /\ Len(Own(a)) \in Nat
      /\ \A i \in 1 .. Len(Own(a)) : v.frames[a.save.fp + i].type = Own(a)[i]
      /\ Debug => a.save.debug_lvl = Depth(v, a.save.fp)
  BY <1>1, OwnOK DEF Exact, Above
<1>3. Over(v, a.save.fp, w, Own(a))
  <2>1. /\ VmOK(w) /\ Counts(w) /\ Len(w.frames) = c[k].save.fp
        /\ \A i \in 1 .. c[k].save.fp : w.frames[i].type = v.frames[i].type
    BY <1>1, <1>2 DEF Over
  <2>2. ASSUME NEW i \in 1 .. Len(Own(a))  PROVE w.frames[a.save.fp + i].type = Own(a)[i]
    <3>1. a.save.fp + i \in 1 .. c[k].save.fp  BY <1>1, <1>2
    <3> QED  BY <3>1, <2>1, <1>2
  <2>3. \A i \in 1 .. a.save.fp : w.frames[i].type = v.frames[i].type
    BY <2>1, <1>1, <1>2
  <2> QED  BY <2>1, <2>2, <2>3, <1>1, <1>2 DEF Over
<1>4. Len(d) = l /\ d[l] = a /\ \A j \in 1 .. l : j # l => d[j] = c[j]
  BY <1>1 DEF l
<1>5. a.save.fp = IF l = Len(c) + 1 THEN Len(v.frames) ELSE c[l].save.fp
  BY <1>1
<1>6. l \in 1 .. Len(c) + 1 /\ a \in Activations /\ Neat(a)
  BY <1>1, <1>2
<1>7. Debug => a.save.debug_lvl = Depth(v, a.save.fp)
  BY <1>2
<1> HIDE DEF a
<1>8. Tidy(w, d)
  BY ONLY VmOK(v), Layout(v, c), Tidy(v, c), <1>3, <1>4, <1>5, <1>6, <1>7, TidyTop
<1> QED  BY <1>8

\* vm_state_restore to a state that was saved when activation k had pushed its
\* first frames, the types s.
LEMMA OverRestore ==
  ASSUME NEW v, NEW c, VmOK(v), Layout(v, c), Tidy(v, c), NEW k \in 1 .. Len(c),
         NEW s \in Seq(FrameTypes), Len(s) <= Len(Own(c[k])),
         \A i \in 1 .. Len(s) : s[i] = Own(c[k])[i],
         NEW save \in Saves, save.fp = c[k].save.fp + Len(s),
         Debug => save.debug_lvl = Depth(v, save.fp),
         NEW u, VmOK(u), save.fp <= Len(u.frames), Len(u.frames) <= Len(v.frames),
         \A i \in 1 .. Len(u.frames) : u.frames[i] = v.frames[i]
  PROVE  Over(v, c[k].save.fp, vm_state_restore(u, save), s)
<1> DEFINE m == c[k].save.fp
           n == save.fp
           w == vm_state_restore(u, save)
           x == frame_unwind(u, n)
<1>1. /\ Exact(v, c, k) /\ Counts(v) /\ c[k] \in Activations /\ m \in Nat /\ m <= Len(v.frames)
      /\ Len(v.frames) \in Nat /\ Len(u.frames) \in Nat /\ n \in Nat /\ Len(s) \in Nat
      /\ Len(Own(c[k])) \in Nat /\ n \in 0 .. Len(u.frames) /\ n = m + Len(s)
  <2>1. c[k] \in Activations /\ m \in Nat /\ m <= Len(v.frames) /\ Len(v.frames) \in Nat
    BY SavesNested
  <2> QED  BY <2>1, OwnOK DEF Tidy, VmOK, Vms, Saves
<1>2. VmOK(w) /\ Cut(u, w, n)
  BY <1>1, RestoreOK
<1>3. w.debug_lvl = save.debug_lvl
  <2>1. VmOK(x)
    BY <1>1, UnwindOK
  <2> HIDE DEF x
  <2>2. x \in Vms  BY <2>1 DEF VmOK
  <2> QED  BY <2>2 DEF vm_state_restore, x, Vms
<1> HIDE DEF w, x
<1>4. Len(w.frames) = n /\ \A i \in 1 .. n : w.frames[i] = v.frames[i]
  BY <1>1, <1>2 DEF Cut
<1>5. \A i \in 0 .. n : Depth(w, i) = Depth(v, i)
  BY <1>1, <1>4, DepthsSame
<1>6. Counts(w)
  <2>1. ASSUME Debug, NEW i \in 1 .. n, w.frames[i].type \in JumpTypes
        PROVE  w.frames[i].save.debug_lvl = Depth(w, i)
    <3>1. i \in 1 .. Len(v.frames) /\ Depth(w, i) = Depth(v, i) /\ w.frames[i] = v.frames[i]
      BY <1>1, <1>4, <1>5
    <3> QED  BY <2>1, <3>1, <1>1 DEF Counts
  <2>2. Debug => w.debug_lvl = Depth(w, n)
    <3>1. Depth(w, n) = Depth(v, n)  BY <1>1, <1>5
    <3> QED  BY <3>1, <1>3
  <2> QED  BY <1>4, <2>1, <2>2 DEF Counts
<1>7. ASSUME NEW i \in 1 .. Len(s)  PROVE w.frames[m + i].type = s[i]
  <2>1. m + i \in 1 .. n /\ i \in 1 .. Len(Own(c[k]))  BY <1>1
  <2>2. v.frames[m + i].type = Own(c[k])[i]  BY <2>1, <1>1 DEF Exact
  <2> QED  BY <2>1, <2>2, <1>4
<1>8. ASSUME NEW i \in 1 .. m  PROVE w.frames[i].type = v.frames[i].type
  <2>1. i \in 1 .. n  BY <1>1
  <2> QED  BY <2>1, <1>4
<1>9. Over(v, m, w, s)
  BY <1>1, <1>2, <1>4, <1>6, <1>7, <1>8 DEF Over
<1> QED  BY <1>9 DEF w

\* Where the steps start from: all the frames there are.
LEMMA OverAll ==
  ASSUME NEW v, NEW c, VmOK(v), Layout(v, c), Tidy(v, c)
  PROVE  /\ Over(v, Len(v.frames), v, << >>)
         /\ Over(v, c[Len(c)].save.fp, v, Own(c[Len(c)]))
<1>1. Len(c) \in 1 .. Len(c) /\ Len(v.frames) \in Nat /\ Counts(v) /\ Exact(v, c, Len(c))
  BY DEF Layout, VmOK, Vms, Tidy
<1>2. c[Len(c)].save.fp \in Nat /\ c[Len(c)].save.fp <= Len(v.frames)
  BY <1>1, SavesNested
<1> QED  BY <1>1, <1>2 DEF Over, Exact, Above

-----------------------------------------------------------------------------
(* Every step leaves the frames tidy.                                      *)

TidyInv == Tidy(vm, cstk)

\* What the steps start from.
LEMMA TidyBegins ==
  ASSUME IInv, TidyInv
  PROVE  /\ VmOK(vm) /\ Layout(vm, cstk) /\ Tidy(vm, cstk)
         /\ Len(cstk) \in Nat \ {0} /\ Len(cstk) \in 1 .. Len(cstk) /\ cstk \in Seq(Activations)
         /\ Len(vm.frames) \in Nat /\ DOMAIN vm.frames = 1 .. Len(vm.frames)
         /\ \A k \in 1 .. Len(cstk) : cstk[k] \in Activations /\ ActOK(vm, cstk[k]) /\ Neat(cstk[k])
         /\ Over(vm, Len(vm.frames), vm, << >>)
         /\ Over(vm, Top.save.fp, vm, Own(Top))
<1>1. /\ VmOK(vm) /\ Layout(vm, cstk) /\ Tidy(vm, cstk)
  BY DEF IInv, Good, TidyInv
<1>2. Over(vm, Len(vm.frames), vm, << >>) /\ Over(vm, Top.save.fp, vm, Own(Top))
  BY <1>1, OverAll DEF Top
<1> QED  BY <1>1, <1>2 DEF Layout, VmOK, Vms, ActOK, Tidy, Exact

\* Going on leads to the given state; a fatal stop changes nothing.
LEMMA TidyContinue ==
  ASSUME TidyInv, NEW v, NEW c, Fits(v) => Tidy(v, c), Continue(v, c)
  PROVE  TidyInv'
BY DEF Continue, Stop, TidyInv

\* A step that leaves both stacks alone.
LEMMA TidyStop ==
  ASSUME TidyInv, UNCHANGED <<vm, cstk>>
  PROVE  TidyInv'
BY DEF TidyInv

\* The innermost activation goes on as a.
LEMMA TidyInner ==
  ASSUME IInv, TidyInv, NEW a \in Activations, Neat(a), a.save = Top.save,
         NEW w, Over(vm, Top.save.fp, w, Own(a)),
         NEW d, d = [cstk EXCEPT ![Len(cstk)] = a]
  PROVE  Tidy(w, d)
<1> DEFINE k == Len(cstk)
<1>1. /\ VmOK(vm) /\ Layout(vm, cstk) /\ Tidy(vm, cstk)
      /\ k \in Nat \ {0} /\ cstk \in Seq(Activations)
      /\ Top = cstk[k] /\ Exact(vm, cstk, k) /\ k # k + 1 /\ k \in 1 .. k + 1
  BY TidyBegins DEF Top, Tidy
<1>2. Len(d) = k /\ d[k] = a /\ \A j \in 1 .. k : j # k => d[j] = cstk[j]
  BY <1>1
<1>3. /\ a.save.fp = (IF k = Len(cstk) + 1 THEN Len(vm.frames) ELSE cstk[k].save.fp)
      /\ Debug => a.save.debug_lvl = Depth(vm, a.save.fp)
      /\ Over(vm, a.save.fp, w, Own(a))
  BY <1>1 DEF Exact
<1> HIDE DEF k
<1>4. k \in 1 .. Len(cstk) + 1
  BY <1>1 DEF k
<1>5. VmOK(vm) /\ Layout(vm, cstk) /\ Tidy(vm, cstk)
  BY <1>1
<1>6. Tidy(w, d)
  BY ONLY <1>2, <1>3, <1>4, <1>5, a \in Activations, Neat(a), TidyTop
<1> QED  BY <1>6

\* The frames of a call, put together.
LEMMA EmptyAppend ==
  /\ Append(<< >>, "CLASS") = <<"CLASS">>
  /\ Append(<<"CLASS">>, "FUNC") = CallTypes
  /\ CallTypes \in Seq(FrameTypes) /\ <<"CLASS">> \in Seq(FrameTypes)
  /\ << >> \in Seq(FrameTypes)
<1>1. "CLASS" \in FrameTypes /\ "FUNC" \in FrameTypes
  BY DEF FrameTypes
<1>2. << >> \in Seq(FrameTypes) /\ Append(<< >>, "CLASS") = <<"CLASS">>
  OBVIOUS
<1>3. <<"CLASS">> \in Seq(FrameTypes)
  <2>1. Append(<< >>, "CLASS") \in Seq(FrameTypes)
    BY <1>1, <1>2
  <2> QED  BY <2>1, <1>2
<1>4. Append(<<"CLASS">>, "FUNC") = CallTypes
  <2> DEFINE s == Append(<<"CLASS">>, "FUNC")
  <2>1. s \in Seq(FrameTypes) /\ Len(s) = 2 /\ s[1] = "CLASS" /\ s[2] = "FUNC"
    BY <1>1, <1>3
  <2>2. DOMAIN s = 1 .. 2
    BY <2>1
  <2> HIDE DEF s
  <2>3. CallTypes = [i \in 1 .. 2 |-> CallTypes[i]] /\ CallTypes[1] = "CLASS" /\ CallTypes[2] = "FUNC"
    BY DEF CallTypes
  <2>4. s = [i \in 1 .. 2 |-> s[i]]
    BY <2>1, <2>2
  <2>5. \A i \in 1 .. 2 : i = 1 \/ i = 2
    OBVIOUS
  <2>6. s = CallTypes
    BY <2>1, <2>3, <2>4, <2>5
  <2> QED  BY <2>6 DEF s
<1>5. CallTypes \in Seq(FrameTypes)
  BY <1>1 DEF CallTypes
<1> QED  BY <1>2, <1>3, <1>4, <1>5

\* The frames of a call, before those of the function.
LEMMA OverCall ==
  ASSUME IInv, TidyInv, NEW n \in Nat
  PROVE  Over(vm, Len(vm.frames), eval_alloc(CallFrames(eval_alloc(vm, CallSlots)), n), CallTypes)
<1> DEFINE m == Len(vm.frames)
           v0 == eval_alloc(vm, CallSlots)
           v1 == frame_push(v0, "CLASS")
           v2 == frame_func_push(v1)
<1>1. Over(vm, m, vm, << >>) /\ << >> \in Seq(FrameTypes) /\ CallSlots \in Nat
  BY TidyBegins DEF CallSlots
<1>2. CallFrames(v0) = v2
  BY DEF CallFrames
<1>3. Over(vm, m, v0, << >>)
  BY <1>1, OverAlloc
<1>4. "CLASS" \in FrameTypes \ JumpTypes
  BY DEF FrameTypes, JumpTypes
<1> HIDE DEF v0, m
<1>5. Over(vm, m, v1, <<"CLASS">>)
  <2>1. Over(vm, m, frame_push(v0, "CLASS"), Append(<< >>, "CLASS"))
    BY ONLY <1>1, <1>3, <1>4, "CLASS" # "FUNC", OverFrame
  <2> QED  BY <2>1, EmptyAppend
<1> HIDE DEF v1
<1>6. Over(vm, m, v2, CallTypes)
  BY <1>5, OverFunc, EmptyAppend
<1> HIDE DEF v2
<1>7. Over(vm, m, eval_alloc(v2, n), CallTypes)
  BY <1>6, OverAlloc, EmptyAppend
<1> QED  BY <1>2, <1>7 DEF m, v0

\* The types of the functions' frames, put together.
LEMMA OwnAppended ==
  /\ OwnTypes["subr"] = CallTypes
  /\ OwnTypes["lambda"] = Append(Append(CallTypes, "FUNC"), "ENV")
  /\ OwnTypes["let"] = Append(CallTypes, "ENV")
  /\ OwnTypes["load"] = Append(Append(CallTypes, "INPUT"), "ENV")
  /\ OwnTypes["prog"] = Append(CallTypes, "PROG")
  /\ OwnTypes["while"] = Append(CallTypes, "WHILE")
  /\ OwnTypes["try"] = Append(CallTypes, "EXCEPT")
  /\ OwnTypes["debug"] = Append(Append(Append(CallTypes, "INPUT"), "EXCEPT"), "REP")
  /\ OwnTypes["rep"] = Append(Append(<< >>, "EXCEPT"), "REP")
BY DEF OwnTypes, CallTypes

\* The frames a function pushes are those listed for it.
LEMMA OverEnter ==
  ASSUME NEW v, NEW m, NEW w, Over(v, m, w, CallTypes), NEW fn \in AllFns
  PROVE  Over(v, m, EnterFrames(fn, w), OwnTypes[fn])
<1>1. /\ CallTypes \in Seq(FrameTypes)
      /\ {"FUNC", "ENV", "INPUT", "PROG", "WHILE", "EXCEPT"} \subseteq FrameTypes
      /\ "ENV" \in FrameTypes \ JumpTypes /\ "INPUT" \in FrameTypes \ JumpTypes
  BY EmptyAppend DEF FrameTypes, JumpTypes
<1>2. CASE fn = "subr"
  BY <1>2, OwnAppended DEF EnterFrames, JumpFns
<1>3. CASE fn \in JumpFns
  <2> DEFINE t == JumpFrame[fn]
  <2>1. t \in FrameTypes /\ t # "FUNC" /\ OwnTypes[fn] = Append(CallTypes, t)
    <3>1. CASE fn = "prog"   BY <3>1, <1>1, OwnAppended DEF JumpFrame
    <3>2. CASE fn = "while"  BY <3>2, <1>1, OwnAppended DEF JumpFrame
    <3>3. CASE fn = "try"    BY <3>3, <1>1, OwnAppended DEF JumpFrame
    <3>4. fn = "prog" \/ fn = "while" \/ fn = "try"
      BY <1>3 DEF JumpFns
    <3> HIDE DEF t
    <3> QED  BY <3>1, <3>2, <3>3, <3>4, Zenon
  <2>2. EnterFrames(fn, w) = frame_longjmp_push(w, t)
    BY <1>3 DEF EnterFrames, JumpFns
  <2> HIDE DEF t
  <2> QED  BY <1>1, <2>1, <2>2, OverLongjmp
<1>4. CASE fn = "lambda"
  <2> DEFINE x == frame_func_push(w)
             s == Append(CallTypes, "FUNC")
  <2>1. EnterFrames(fn, w) = frame_push(x, "ENV")
    BY <1>4 DEF EnterFrames, JumpFns
  <2>2. Over(v, m, x, s) /\ s \in Seq(FrameTypes)
    BY <1>1, OverFunc
  <2>3. OwnTypes[fn] = Append(s, "ENV")
    BY <1>4, OwnAppended
  <2> HIDE DEF x, s
  <2> QED  BY <1>1, <2>1, <2>2, <2>3, OverFrame
<1>5. CASE fn = "let"
  <2>1. EnterFrames(fn, w) = frame_push(w, "ENV")
    BY <1>5 DEF EnterFrames, JumpFns
  <2> QED  BY <1>1, <1>5, <2>1, OverFrame, OwnAppended
<1>6. CASE fn = "load"
  <2> DEFINE x == frame_push(w, "INPUT")
             s == Append(CallTypes, "INPUT")
  <2>1. EnterFrames(fn, w) = frame_push(x, "ENV")
    BY <1>6 DEF EnterFrames, JumpFns
  <2>2. Over(v, m, x, s) /\ s \in Seq(FrameTypes)
    BY <1>1, OverFrame
  <2>3. OwnTypes[fn] = Append(s, "ENV")
    BY <1>6, OwnAppended
  <2> HIDE DEF x, s
  <2> QED  BY <1>1, <2>1, <2>2, <2>3, OverFrame
<1> QED  BY <1>2, <1>3, <1>4, <1>5, <1>6 DEF AllFns, JumpFns

\* A new activation.
LEMMA TidyEnter ==
  ASSUME IInv, TidyInv, NEW a \in Activations, Neat(a),
         a.save = vm_state_save(eval_alloc(vm, CallSlots)),
         NEW w, Over(vm, Len(vm.frames), w, Own(a))
  PROVE  Tidy(w, Append(cstk, a))
<1> DEFINE k == Len(cstk) + 1
           d == Append(cstk, a)
<1>1. /\ VmOK(vm) /\ Layout(vm, cstk) /\ Tidy(vm, cstk)
      /\ Len(cstk) \in Nat \ {0} /\ cstk \in Seq(Activations)
      /\ k \in 1 .. Len(cstk) + 1
  BY TidyBegins
<1>2. Len(d) = k /\ d[k] = a /\ \A j \in 1 .. k : j # k => d[j] = cstk[j]
  BY <1>1
<1>3. CallSlots \in Nat
  BY DEF CallSlots
<1>4. a.save.fp = Len(vm.frames) /\ a.save.debug_lvl = vm.debug_lvl
  <2> DEFINE v0 == eval_alloc(vm, CallSlots)
  <2>1. v0.frames = vm.frames /\ v0.debug_lvl = vm.debug_lvl
    BY <1>1, <1>3, EvalAllocOK
  <2> HIDE DEF v0
  <2>2. vm_state_save(v0).fp = Len(v0.frames) /\ vm_state_save(v0).debug_lvl = v0.debug_lvl
    BY DEF vm_state_save
  <2> QED  BY <2>1, <2>2 DEF v0
<1>5. Debug => a.save.debug_lvl = Depth(vm, a.save.fp)
  BY <1>1, <1>4 DEF Tidy, Counts
<1> HIDE DEF d
<1>6. Tidy(w, d)
  BY <1>1, <1>2, <1>4, <1>5, TidyTop
<1> QED  BY <1>6 DEF d

\* A call pushes its own frames and the function's, and saves the level before.
LEMMA CallTidy ==
  ASSUME IInv, TidyInv, NEW fn \in Fns, Call(fn)
  PROVE  TidyInv'
<1> DEFINE v0 == eval_alloc(vm, CallSlots)
           v1 == EnterFrames(fn, eval_alloc(CallFrames(v0), WorkSlots[fn]))
           jb == IF fn \in JumpFns THEN Len(v1.frames) ELSE 0
           ph == IF fn = "load" THEN "idle" ELSE "body"
           a  == Activation(fn, ph, vm_state_save(v0), jb, 0)
           m  == Len(vm.frames)
<1>1. fn \in AllFns /\ WorkSlots[fn] \in Nat /\ m \in Nat /\ CallSlots \in Nat /\ VmOK(vm)
  BY VmStackAssumption, TidyBegins DEF AllFns, WorkSlots, CallSlots
<1>2. Continue(v1, Append(cstk, a))
  BY DEF Call
<1>3. Over(vm, m, v1, OwnTypes[fn])
  BY <1>1, OverCall, OverEnter
<1>4. VmOK(v1) /\ Len(v1.frames) = m + Len(OwnTypes[fn])
  BY <1>3 DEF Over
<1>5. vm_state_save(v0) \in Saves /\ vm_state_save(v0).fp = m
  BY <1>1, EvalAllocOK DEF vm_state_save, Saves, VmOK, Vms
<1> HIDE DEF v1, v0, m
<1>6. fn \in JumpFns => Len(OwnTypes[fn]) = 3 /\ JumpAt[fn] = 3
  <2> SUFFICES ASSUME fn \in JumpFns  PROVE Len(OwnTypes[fn]) = 3 /\ JumpAt[fn] = 3
    OBVIOUS
  <2>4. fn = "prog" \/ fn = "while" \/ fn = "try"
    BY DEF JumpFns
  <2>1. CASE fn = "prog"   BY <2>1 DEF OwnTypes, JumpAt
  <2>2. CASE fn = "while"  BY <2>2 DEF OwnTypes, JumpAt
  <2>3. CASE fn = "try"    BY <2>3 DEF OwnTypes, JumpAt
  <2> QED  BY <2>1, <2>2, <2>3, <2>4, Zenon
<1>7. jb \in Nat /\ (jb # 0 => jb = m + JumpAt[fn])
  <2>1. CASE fn \in JumpFns
    <3>1. Len(v1.frames) = m + 3 /\ JumpAt[fn] = 3
      BY <2>1, <1>4, <1>6
    <3> QED  BY <2>1, <3>1, <1>1
  <2>2. CASE fn \notin JumpFns
    BY <2>2
  <2> QED  BY <2>1, <2>2
<1>8. /\ a.fn = fn /\ a.phase = ph /\ a.jb = jb /\ a.save = vm_state_save(v0) /\ a.save.fp = m
      /\ a \in Activations
  BY <1>1, <1>5, <1>7 DEF Activation, Activations, Phases
<1> HIDE DEF jb, a
<1>9. Neat(a)
  BY <1>1, <1>7, <1>8 DEF Neat, Loops, AllFns
<1>10. Own(a) = OwnTypes[fn]
  BY <1>8 DEF Own
<1>11. Tidy(v1, Append(cstk, a))
  BY <1>3, <1>8, <1>9, <1>10, TidyEnter DEF m, v0
<1> QED  BY <1>2, <1>11, TidyContinue

\* What is left of an activation's frames when a longjmp lands in it.
Landing ==
    [rep   |-> <<"EXCEPT">>,
     debug |-> <<"CLASS", "FUNC", "INPUT", "EXCEPT">>,
     prog  |-> <<"CLASS", "FUNC", "PROG">>,
     while |-> <<"CLASS", "FUNC", "WHILE">>,
     try   |-> <<"CLASS", "FUNC", "EXCEPT">>]

\* They are its first ones, up to the jump frame.
LEMMA LandingTypes ==
  ASSUME NEW fn \in {"rep", "debug"} \cup JumpFns
  PROVE  /\ Landing[fn] \in Seq(FrameTypes) /\ OwnTypes[fn] \in Seq(FrameTypes)
         /\ Len(Landing[fn]) = JumpAt[fn] /\ JumpAt[fn] \in Nat
         /\ Len(Landing[fn]) <= Len(OwnTypes[fn])
         /\ \A i \in 1 .. Len(Landing[fn]) : Landing[fn][i] = OwnTypes[fn][i]
         /\ fn \in JumpFns => Landing[fn] = OwnTypes[fn]
         /\ fn \in {"rep", "debug"} => OwnTypes[fn] = Append(Landing[fn], "REP")
<1>1. {"FUNC", "INPUT", "CLASS", "EXCEPT", "REP", "PROG", "WHILE"} \subseteq FrameTypes
  BY DEF FrameTypes
<1>2. CASE fn = "rep"
  BY <1>1, <1>2 DEF Landing, OwnTypes, JumpAt, JumpFns
<1>3. CASE fn = "debug"
  BY <1>1, <1>3 DEF Landing, OwnTypes, JumpAt, JumpFns
<1>4. CASE fn = "prog"
  BY <1>1, <1>4 DEF Landing, OwnTypes, JumpAt, JumpFns
<1>5. CASE fn = "while"
  BY <1>1, <1>5 DEF Landing, OwnTypes, JumpAt, JumpFns
<1>6. CASE fn = "try"
  BY <1>1, <1>6 DEF Landing, OwnTypes, JumpAt, JumpFns
<1>7. fn = "rep" \/ fn = "debug" \/ fn = "prog" \/ fn = "while" \/ fn = "try"
  BY DEF JumpFns
<1> QED  BY ONLY <1>2, <1>3, <1>4, <1>5, <1>6, <1>7, Zenon

\* The same, for an activation that may have pushed a buffer's frame since.
LEMMA LandingOK ==
  ASSUME NEW a \in Activations, Neat(a), a.jb # 0, a.fn \in {"rep", "debug"} \cup JumpFns
  PROVE  /\ Len(Landing[a.fn]) <= Len(Own(a))
         /\ \A i \in 1 .. Len(Landing[a.fn]) : Landing[a.fn][i] = Own(a)[i]
<1> DEFINE fn == a.fn
           s == Landing[fn]
           q == OwnTypes[fn]
<1>0. fn \in {"rep", "debug"} \cup JumpFns
  OBVIOUS
<1> HIDE DEF fn
<1>1. /\ s \in Seq(FrameTypes) /\ q \in Seq(FrameTypes) /\ Len(s) <= Len(q)
      /\ Len(s) \in Nat /\ Len(q) \in Nat
      /\ \A i \in 1 .. Len(s) : s[i] = q[i]
  <2>1. /\ Landing[fn] \in Seq(FrameTypes) /\ OwnTypes[fn] \in Seq(FrameTypes)
        /\ Len(Landing[fn]) <= Len(OwnTypes[fn])
        /\ \A i \in 1 .. Len(Landing[fn]) : Landing[fn][i] = OwnTypes[fn][i]
    BY ONLY <1>0, LandingTypes
  <2> HIDE DEF s, q
  <2>2. s \in Seq(FrameTypes) /\ q \in Seq(FrameTypes) /\ Len(s) <= Len(q)
        /\ \A i \in 1 .. Len(s) : s[i] = q[i]
    BY <2>1 DEF s, q
  <2> QED  BY <2>2
<1>2. Own(a) = q \/ Own(a) = Append(q, "MEM")
  BY DEF Own, Neat, fn
<1> HIDE DEF s, q
<1>3. Len(Append(q, "MEM")) = Len(q) + 1 /\ \A i \in 1 .. Len(q) : Append(q, "MEM")[i] = q[i]
  BY <1>1
<1>4. Len(s) <= Len(Own(a)) /\ \A i \in 1 .. Len(s) : s[i] = Own(a)[i]
  BY <1>1, <1>2, <1>3
<1> QED  BY <1>4 DEF s, fn

\* A longjmp to the innermost jump frame of type t.
LEMMA OverJump ==
  ASSUME IInv, TidyInv, NEW t \in JumpTypes, NEW x, x = vm.type_fp[t], x # 0,
         NEW k, k = Owner(cstk, x),
         NEW u, VmOK(u), u.frames = vm.frames,
         NEW r, r = vm_state_restore(u, vm.frames[x].save)
  PROVE  /\ k \in 1 .. Len(cstk) /\ cstk[k].jb = x /\ JumpTypeOf[cstk[k].fn] = t
         /\ cstk[k].fn \in {"rep", "debug"} \cup JumpFns
         /\ Over(vm, cstk[k].save.fp, r, Landing[cstk[k].fn])
<1> DEFINE save == vm.frames[x].save
           s == Landing[cstk[k].fn]
<1>1. /\ VmOK(vm) /\ Layout(vm, cstk) /\ Tidy(vm, cstk)
      /\ Len(vm.frames) \in Nat /\ DOMAIN vm.frames = 1 .. Len(vm.frames)
      /\ \A j \in 1 .. Len(cstk) : cstk[j] \in Activations /\ Neat(cstk[j])
  BY TidyBegins
<1>2. Owns(vm, cstk, t, x, k)
  BY <1>1, OwnerOK, Zenon
<1>3. /\ k \in 1 .. Len(cstk) /\ cstk[k].jb = x /\ JumpTypeOf[cstk[k].fn] = t
      /\ cstk[k].fn \in {"rep", "debug"} \cup JumpFns
      /\ x \in 1 .. Len(vm.frames) /\ vm.frames[x].type = t
      /\ save \in Saves /\ save.fp = x
  BY <1>1, <1>2 DEF Owns
<1>4. cstk[k] \in Activations /\ Neat(cstk[k])
  BY <1>1, <1>3
<1>5. s \in Seq(FrameTypes) /\ Len(s) = JumpAt[cstk[k].fn]
  BY <1>3, LandingTypes
<1>6. Len(s) <= Len(Own(cstk[k])) /\ \A i \in 1 .. Len(s) : s[i] = Own(cstk[k])[i]
  BY <1>3, <1>4, LandingOK
<1>7. save.fp = cstk[k].save.fp + Len(s)
  BY <1>3, <1>4, <1>5 DEF Neat
<1>8. Debug => save.debug_lvl = Depth(vm, save.fp)
  BY <1>1, <1>3 DEF Tidy, Counts
<1>9. save.fp <= Len(u.frames) /\ Len(u.frames) <= Len(vm.frames)
      /\ \A i \in 1 .. Len(u.frames) : u.frames[i] = vm.frames[i]
  BY <1>1, <1>3
<1>10. r = vm_state_restore(u, save)
  OBVIOUS
<1> HIDE DEF save, s
<1>11. Over(vm, cstk[k].save.fp, vm_state_restore(u, save), s)
  BY ONLY <1>1, <1>3, <1>5, <1>6, <1>7, <1>8, <1>9, VmOK(u), OverRestore
<1> QED  BY <1>3, <1>10, <1>11 DEF s

\* The activation a longjmp landed in goes on in phase ph.
LEMMA TidyLand ==
  ASSUME IInv, TidyInv, NEW k \in 1 .. Len(cstk), NEW ph \in Phases,
         NEW a, a = [cstk[k] EXCEPT !.phase = ph], Neat(a),
         NEW w, Over(vm, cstk[k].save.fp, w, Own(a)),
         NEW d, d = SetTopOf(SubSeq(cstk, 1, k), ph)
  PROVE  Tidy(w, d)
<1>1. /\ VmOK(vm) /\ Layout(vm, cstk) /\ Tidy(vm, cstk)
      /\ Len(cstk) \in Nat \ {0} /\ cstk \in Seq(Activations)
      /\ cstk[k] \in Activations /\ Exact(vm, cstk, k)
  BY TidyBegins DEF Tidy
<1>2. a \in Activations /\ a.save = cstk[k].save
  BY <1>1 DEF Activations
<1>3. Len(d) = k /\ d[k] = a /\ \A j \in 1 .. k : j # k => d[j] = cstk[j]
  <2> DEFINE e == SubSeq(cstk, 1, k)
  <2>1. Len(e) = k /\ e \in Seq(Activations) /\ \A j \in 1 .. k : e[j] = cstk[j]
    BY <1>1
  <2>2. d = [e EXCEPT ![Len(e)] = [e[Len(e)] EXCEPT !.phase = ph]]
    BY DEF SetTopOf
  <2> HIDE DEF e
  <2>3. e[Len(e)] = cstk[k]  BY <2>1
  <2>4. d = [e EXCEPT ![k] = a]  BY <2>1, <2>2, <2>3
  <2> QED  BY <2>1, <2>4
<1>4. /\ k \in 1 .. Len(cstk) + 1
      /\ a.save.fp = (IF k = Len(cstk) + 1 THEN Len(vm.frames) ELSE cstk[k].save.fp)
      /\ Debug => a.save.debug_lvl = Depth(vm, a.save.fp)
      /\ Over(vm, a.save.fp, w, Own(a))
  BY <1>1, <1>2 DEF Exact
<1>5. Tidy(w, d)
  <2>1. VmOK(vm) /\ Layout(vm, cstk) /\ Tidy(vm, cstk) /\ a \in Activations
    BY <1>1, <1>2
  <2> QED  BY ONLY <2>1, <1>3, <1>4, Neat(a), TidyTop
<1> QED  BY <1>5

\* An activation returns, out of a state that still has its frames.
LEMMA TidyReturn ==
  ASSUME IInv, TidyInv, NEW k \in 2 .. Len(cstk),
         NEW u, VmOK(u), NEW m \in 0 .. Len(vm.frames), Cut(vm, u, m), cstk[k].save.fp <= m
  PROVE  Tidy(ReturnFrom(u, cstk[k]), SubSeq(cstk, 1, k - 1))
<1> DEFINE b == cstk[k]
           r == vm_state_restore(u, b.save)
           w == ReturnFrom(u, b)
           d == SubSeq(cstk, 1, k - 1)
<1>1. /\ VmOK(vm) /\ Layout(vm, cstk) /\ Tidy(vm, cstk)
      /\ Len(cstk) \in Nat \ {0} /\ cstk \in Seq(Activations) /\ k \in 1 .. Len(cstk)
      /\ Exact(vm, cstk, k) /\ Len(vm.frames) \in Nat
  BY TidyBegins DEF Tidy
<1>2. VmOK(w)
  BY <1>1, ReturnOK
<1>3. /\ b.save \in Saves /\ b.save.fp \in Nat /\ b \in Activations
      /\ Len(u.frames) = m /\ \A i \in 1 .. m : u.frames[i] = vm.frames[i]
  BY <1>1, SavesNested DEF Cut
<1>4. /\ << >> \in Seq(FrameTypes) /\ Len(<< >>) = 0 /\ Len(Own(b)) \in Nat
      /\ \A i \in 1 .. Len(<< >>) : << >>[i] = Own(b)[i]
  BY <1>3, OwnOK
<1>5. Debug => b.save.debug_lvl = Depth(vm, b.save.fp)
  BY <1>1 DEF Exact
<1>6. /\ Len(<< >>) <= Len(Own(b)) /\ b.save.fp = b.save.fp + Len(<< >>)
      /\ b.save.fp <= Len(u.frames) /\ Len(u.frames) <= Len(vm.frames)
      /\ \A i \in 1 .. Len(u.frames) : u.frames[i] = vm.frames[i]
  BY <1>3, <1>4
<1>7. Over(vm, b.save.fp, r, << >>)
  BY ONLY <1>1, <1>3, <1>4, <1>5, <1>6, VmOK(u), OverRestore
<1>8. w.frames = r.frames /\ w.debug_lvl = r.debug_lvl
  <2>1. r \in Vms  BY <1>7 DEF Over, VmOK
  <2>2. w = [r EXCEPT !.sp = r.sp - CallSlots]
    BY DEF ReturnFrom
  <2> HIDE DEF r, w
  <2> QED  BY <2>1, <2>2 DEF Vms
<1>9. Len(d) = k - 1 /\ \A j \in 1 .. k - 1 : d[j] = cstk[j]
  BY <1>1
<1> HIDE DEF r, w, d
<1>10. Over(vm, b.save.fp, w, << >>)
  BY <1>2, <1>4, <1>7, <1>8, OverSame
<1>11. Tidy(w, d)
  BY <1>1, <1>9, <1>10, TidyLeave
<1> QED  BY <1>11 DEF w, d

\* A return drops all the frames of the call, those of a try's body included.
LEMMA ReturnTidy ==
  ASSUME IInv, TidyInv, Return
  PROVE  TidyInv'
<1> DEFINE k == Len(cstk)
           b == cstk[k]
           x == frame_pop(vm, b.jb)
           d == SubSeq(cstk, 1, k - 1)
<1>1. /\ VmOK(vm) /\ Layout(vm, cstk) /\ k \in Nat /\ k \in 1 .. Len(cstk)
      /\ b \in Activations /\ ActOK(vm, b) /\ Neat(b)
      /\ Len(vm.frames) \in Nat /\ DOMAIN vm.frames = 1 .. Len(vm.frames)
  BY TidyBegins
<1>2. b.fn # "rep"
  BY DEF Return, Top, AllFns
<1>3. k \in 2 .. Len(cstk)
  BY <1>1, <1>2, AboveLoop
<1>4. b.save.fp \in Nat /\ b.jb \in Nat /\ b.save.fp <= Len(vm.frames)
  BY <1>1, ActivationTypes, SavesNested
<1>5. cstk' = d
  BY DEF Return
<1>6. \/ vm' = ReturnFrom(vm, b)
      \/ b.fn = "try" /\ b.phase # "final" /\ vm' = ReturnFrom(x, b)
  BY DEF Return, Top
<1> HIDE DEF k, d
<1>7. CASE vm' = ReturnFrom(vm, b)
  <2>1. Cut(vm, vm, Len(vm.frames)) /\ Len(vm.frames) \in 0 .. Len(vm.frames)
    BY <1>1, CutAll
  <2>2. Tidy(ReturnFrom(vm, b), d)
    BY <2>1, <1>1, <1>3, <1>4, TidyReturn DEF d
  <2> QED  BY <2>2, <1>5, <1>7 DEF TidyInv
<1>8. CASE b.fn = "try" /\ b.phase # "final" /\ vm' = ReturnFrom(x, b)
  <2>1. b.jb # 0 /\ b.save.fp < b.jb /\ b.jb \in 1 .. Len(vm.frames)
    BY <1>8, <1>1 DEF ActOK, FramesOf
  <2>2. b.jb - 1 \in 0 .. Len(vm.frames) /\ b.save.fp <= b.jb - 1
    BY <2>1, <1>1, <1>4
  <2>3. VmOK(x) /\ Cut(vm, x, b.jb - 1)
    BY <2>2, <1>1, UnwindOK, Zenon DEF frame_pop
  <2> HIDE DEF x
  <2>4. Tidy(ReturnFrom(x, b), d)
    BY <2>2, <2>3, <1>3, TidyReturn DEF d
  <2> QED  BY <2>4, <1>5, <1>8 DEF TidyInv
<1> QED  BY <1>6, <1>7, <1>8

\* A phase an activation can go on in with the frames its function pushes.
LEMMA NeatIn ==
  ASSUME NEW b \in Activations, Neat(b), NEW ph \in Phases \ {"final", "read"},
         b.fn \in Loops <=> ph \in {"idle", "read", "eval"}
  PROVE  LET a == [b EXCEPT !.phase = ph]
         IN  /\ a \in Activations /\ Neat(a) /\ a.save = b.save
             /\ Own(a) = OwnTypes[b.fn]
<1> DEFINE a == [b EXCEPT !.phase = ph]
<1>1. /\ a \in Activations /\ a.fn = b.fn /\ a.phase = ph /\ a.save = b.save /\ a.jb = b.jb
  BY DEF Activations
<1> HIDE DEF a
<1>2. Neat(a) /\ Own(a) = OwnTypes[b.fn]
  BY <1>1 DEF Neat, Own
<1> QED  BY <1>1, <1>2 DEF a

\* The third argument of a try is evaluated without its frame.
LEMMA TryFinalTidy ==
  ASSUME IInv, TidyInv, TryFinal
  PROVE  TidyInv'
<1> DEFINE b == Top
           a == [b EXCEPT !.phase = "final", !.jb = 0]
           w == frame_pop(vm, Len(vm.frames))
           d == [cstk EXCEPT ![Len(cstk)] = a]
<1>1. /\ VmOK(vm) /\ Layout(vm, cstk) /\ b \in Activations /\ ActOK(vm, b) /\ Neat(b)
      /\ Over(vm, b.save.fp, vm, Own(b)) /\ Len(vm.frames) \in Nat
  BY TidyBegins DEF Top
<1>2. b.fn = "try" /\ b.phase = "body" /\ vm' = frame_pop(vm, b.jb) /\ cstk' = d
  BY DEF TryFinal, Top
<1>3. /\ a \in Activations /\ a.fn = "try" /\ a.phase = "final" /\ a.save = b.save /\ a.jb = 0
  BY <1>1, <1>2 DEF Activations, Phases
<1> HIDE DEF a, b, d
<1>4. Own(b) = Append(CallTypes, "EXCEPT") /\ Own(a) = CallTypes /\ Neat(a)
  BY <1>2, <1>3, OwnAppended DEF Own, Neat, Loops
<1>5. b.jb = Len(vm.frames)
  <2>1. b.jb # 0 /\ b.jb = b.save.fp + 3
    BY <1>1, <1>2 DEF ActOK, Neat, JumpAt
  <2>2. Len(Own(b)) = 3
    BY <1>2 DEF Own, OwnTypes
  <2> QED  BY <2>1, <2>2, <1>1 DEF Over
<1>6. Over(vm, b.save.fp, w, CallTypes)
  <2>1. "EXCEPT" \in FrameTypes /\ "EXCEPT" # "FUNC" /\ CallTypes \in Seq(FrameTypes)
    BY EmptyAppend DEF FrameTypes
  <2>2. Over(vm, b.save.fp, vm, Append(CallTypes, "EXCEPT"))
    BY <1>1, <1>4
  <2> QED  BY ONLY <2>1, <2>2, OverPop
<1> HIDE DEF w
<1>7. Tidy(w, d)
  <2>1. a.save = Top.save /\ Over(vm, Top.save.fp, w, Own(a))
    BY <1>3, <1>4, <1>6 DEF b
  <2> QED  BY ONLY IInv, TidyInv, <1>3, <1>4, <2>1, TidyInner DEF d
<1> QED  BY <1>2, <1>5, <1>7 DEF TidyInv, w

\* The reader's buffer has the topmost frame.
LEMMA ReadTokenTidy ==
  ASSUME IInv, TidyInv, ReadToken
  PROVE  TidyInv'
<1> DEFINE b == Top
           a == [b EXCEPT !.phase = "read"]
           w == ebuf_push(vm)
           d == [cstk EXCEPT ![Len(cstk)] = a]
<1>1. /\ b \in Activations /\ Neat(b) /\ Over(vm, b.save.fp, vm, Own(b)) /\ Own(b) \in Seq(FrameTypes)
  BY TidyBegins, OwnOK DEF Top
<1>2. b.phase = "idle" /\ Continue(w, d)
  BY DEF ReadToken, SetTopOf, Top
<1>3. /\ a \in Activations /\ a.fn = b.fn /\ a.phase = "read" /\ a.save = b.save /\ a.jb = b.jb
  BY <1>1 DEF Activations, Phases
<1> HIDE DEF a, b, d
<1>4. Own(a) = Append(Own(b), "MEM") /\ Neat(a)
  BY <1>1, <1>2, <1>3 DEF Own, Neat
<1>5. Over(vm, b.save.fp, w, Own(a))
  <2>1. Over(vm, b.save.fp, w, Append(Own(b), "MEM"))
    BY <1>1, OverEbuf
  <2> QED  BY <2>1, <1>4
<1> HIDE DEF w
<1>6. Tidy(w, d)
  <2>1. a.save = Top.save /\ Over(vm, Top.save.fp, w, Own(a))
    BY <1>3, <1>5 DEF b
  <2> QED  BY ONLY IInv, TidyInv, <1>3, <1>4, <2>1, TidyInner DEF d
<1> QED  BY <1>2, <1>6, TidyContinue

\* Taking the buffer over leaves the frames where they are.
LEMMA TakeTokenTidy ==
  ASSUME IInv, TidyInv, TakeToken
  PROVE  TidyInv'
<1> DEFINE w == str_neweb(vm)
           a == Top
<1>1. /\ VmOK(vm) /\ Layout(vm, cstk) /\ a \in Activations /\ Neat(a)
      /\ Over(vm, a.save.fp, vm, Own(a)) /\ Own(a) \in Seq(FrameTypes)
      /\ Len(vm.frames) \in Nat /\ DOMAIN vm.frames = 1 .. Len(vm.frames) /\ vm \in Vms
      /\ cstk \in Seq(Activations) /\ Len(cstk) \in 1 .. Len(cstk) /\ Len(cstk) \in Nat
  BY TidyBegins, OwnOK DEF Top, VmOK
<1>2. vm' = w /\ cstk' = cstk /\ vm.frames[Len(vm.frames)].data /\ a.phase = "read"
  BY DEF TakeToken
<1>3. vm.frames[Len(vm.frames)].type = "MEM" /\ vm.frames # << >>
  <2>1. a = cstk[Len(cstk)]  BY DEF Top
  <2>2. Floor(cstk[Len(cstk)]) < Len(vm.frames) /\ vm.frames[Len(vm.frames)].type = "MEM"
    BY <2>1, <1>1, <1>2 DEF Layout
  <2>3. Floor(cstk[Len(cstk)]) \in Nat
    BY <2>1, <1>1, ActivationTypes
  <2>4. Len(vm.frames) # 0
    BY <2>2, <2>3, <1>1
  <2> QED  BY <2>2, <2>4
<1>4. /\ VmOK(w) /\ Len(w.frames) = Len(vm.frames)
      /\ \A i \in DOMAIN vm.frames : /\ w.frames[i].type = vm.frames[i].type
                                     /\ w.frames[i].save = vm.frames[i].save
  BY <1>1, <1>2, <1>3, StrNewebOK, Zenon
<1>5. w.debug_lvl = vm.debug_lvl
  BY <1>1 DEF str_neweb, Vms
<1> HIDE DEF w, a
<1>6. Over(vm, a.save.fp, w, Own(a))
  BY <1>1, <1>4, <1>5, OverSame
<1>7. Tidy(w, cstk)
  <2>1. cstk = [cstk EXCEPT ![Len(cstk)] = a]
    BY <1>1 DEF a, Top
  <2>2. a.save = Top.save /\ Over(vm, Top.save.fp, w, Own(a))
    BY <1>6 DEF a
  <2> QED  BY ONLY IInv, TidyInv, <1>1, <2>1, <2>2, TidyInner
<1> QED  BY <1>2, <1>7 DEF TidyInv

\* ebuf_pop drops the buffer's frame and no other.
LEMMA ReadDoneTidy ==
  ASSUME IInv, TidyInv, ReadDone
  PROVE  TidyInv'
<1> DEFINE b == Top
           a == [b EXCEPT !.phase = "eval"]
           w == frame_pop(vm, Len(vm.frames))
           d == [cstk EXCEPT ![Len(cstk)] = a]
           s == OwnTypes[b.fn]
<1>1. b \in Activations /\ Neat(b) /\ Over(vm, b.save.fp, vm, Own(b))
  BY TidyBegins DEF Top
<1>2. b.phase = "read" /\ vm' = w /\ cstk' = d
  BY DEF ReadDone, SetTopOf, Top
<1>3. b.fn \in Loops
  BY <1>1, <1>2 DEF Neat
<1>4. a \in Activations /\ Neat(a) /\ a.save = b.save /\ Own(a) = s
  BY <1>1, <1>3, NeatIn DEF Phases
<1>5. Own(b) = Append(s, "MEM") /\ s \in Seq(FrameTypes)
  <2>1. Own(a) \in Seq(FrameTypes)
    BY <1>4, OwnOK
  <2> QED  BY <2>1, <1>2, <1>4 DEF Own
<1> HIDE DEF a, b, d, s
<1>6. Over(vm, b.save.fp, w, s)
  <2>1. "MEM" \in FrameTypes /\ "MEM" # "FUNC"
    BY DEF FrameTypes
  <2>2. Over(vm, b.save.fp, vm, Append(s, "MEM"))
    BY <1>1, <1>5
  <2> QED  BY ONLY <2>1, <2>2, <1>5, OverPop
<1> HIDE DEF w
<1>7. Tidy(w, d)
  <2>1. a.save = Top.save /\ Over(vm, Top.save.fp, w, Own(a))
    BY <1>4, <1>6 DEF b
  <2> QED  BY ONLY IInv, TidyInv, <1>4, <2>1, TidyInner DEF d
<1> QED  BY <1>2, <1>7 DEF TidyInv

\* The innermost activation only goes on to another phase.
LEMMA PhaseTidy ==
  ASSUME IInv, TidyInv, NEW ph \in Phases \ {"final", "read"},
         Top.phase \notin {"final", "read"},
         Top.fn \in Loops <=> ph \in {"idle", "read", "eval"}
  PROVE  Tidy(vm, SetTopOf(cstk, ph))
<1> DEFINE b == Top
           a == [b EXCEPT !.phase = ph]
           d == SetTopOf(cstk, ph)
<1>1. b \in Activations /\ Neat(b) /\ Over(vm, b.save.fp, vm, Own(b))
  BY TidyBegins DEF Top
<1>2. d = [cstk EXCEPT ![Len(cstk)] = a]
  BY DEF SetTopOf, Top
<1>3. b.phase \notin {"final", "read"} /\ (b.fn \in Loops <=> ph \in {"idle", "read", "eval"})
  OBVIOUS
<1> HIDE DEF b, d
<1>4. a \in Activations /\ Neat(a) /\ a.save = b.save /\ Own(a) = OwnTypes[b.fn]
  BY <1>1, <1>3, NeatIn
<1>5. Own(b) = Own(a)
  BY <1>3, <1>4 DEF Own
<1> HIDE DEF a
<1>6. a.save = Top.save /\ Over(vm, Top.save.fp, vm, Own(a))
  BY <1>1, <1>4, <1>5 DEF b
<1>7. Tidy(vm, d)
  BY ONLY IInv, TidyInv, <1>2, <1>4, <1>6, TidyInner
<1> QED  BY <1>7 DEF d

\* When a form has been evaluated only the loop's own frames are left.
LEMMA EvalDoneTidy ==
  ASSUME IInv, TidyInv, EvalDone
  PROVE  TidyInv'
<1>1. Top.phase = "eval" /\ Neat(Top)
  BY TidyBegins DEF EvalDone, Top
<1>2. Tidy(vm, SetTopOf(cstk, "idle"))
  <2>1. Top.fn \in Loops
    BY <1>1 DEF Neat
  <2> QED  BY <2>1, <1>1, PhaseTidy DEF Phases
<1>3. \/ Stop("aborted")
      \/ cstk' = SetTopOf(cstk, "idle") /\ vm' = vm
  BY DEF EvalDone
<1> QED  BY <1>2, <1>3, TidyStop DEF Stop, TidyInv

\* except_raise1 and frame_except_raise.
LEMMA ExceptRaiseTidy ==
  ASSUME IInv, TidyInv, ExceptRaise
  PROVE  TidyInv'
<1> DEFINE x == vm.type_fp["EXCEPT"]
           k == Owner(cstk, x)
           b == cstk[k]
           w == [vm EXCEPT !.except_lvl = IF x = except_top THEN 0 ELSE 1]
           r == vm_state_restore(w, vm.frames[x].save)
           e == SubSeq(cstk, 1, k)
           s == Landing[b.fn]
<1>1. /\ VmOK(vm) /\ Layout(vm, cstk) /\ vm \in Vms
      /\ cstk \in Seq(Activations) /\ Len(cstk) \in Nat
      /\ \A j \in 1 .. Len(cstk) : cstk[j] \in Activations /\ ActOK(vm, cstk[j]) /\ Neat(cstk[j])
  BY TidyBegins DEF VmOK
<1>2. VmOK(w) /\ w.frames = vm.frames
  <2> DEFINE q == IF x = except_top THEN 0 ELSE 1
  <2>1. q \in {0, 1} /\ w = [vm EXCEPT !.except_lvl = q]
    OBVIOUS
  <2> HIDE DEF q, w
  <2>2. /\ w \in Vms /\ w.frames = vm.frames /\ w.type_fp = vm.type_fp /\ w.bufs = vm.bufs
    BY <2>1, <1>1 DEF Vms
  <2>3. VmOK(w)  BY <2>2, <1>1, SameFramesOK
  <2> QED  BY <2>2, <2>3
<1>3. x # 0 /\ "EXCEPT" \in JumpTypes
  BY <1>1, SomeHandler DEF JumpTypes
<1>4. Stop("double") \/ Caught(r, longjmp(cstk, x))
  BY DEF ExceptRaise
<1>5. longjmp(cstk, x) = e /\ x = vm.type_fp["EXCEPT"] /\ k = Owner(cstk, x)
      /\ r = vm_state_restore(w, vm.frames[x].save)
  BY DEF longjmp
<1> HIDE DEF x, k, w, r
<1>6. /\ k \in 1 .. Len(cstk) /\ b.jb = x /\ JumpTypeOf[b.fn] = "EXCEPT"
      /\ b.fn \in {"rep", "debug"} \cup JumpFns
      /\ Over(vm, b.save.fp, r, s)
  BY ONLY IInv, TidyInv, <1>2, <1>3, <1>5, OverJump
<1>7. b \in Activations /\ ActOK(vm, b) /\ Neat(b) /\ b.fn \in {"rep", "debug", "try"}
  BY <1>1, <1>6 DEF JumpTypeOf, JumpFns
<1>8. Len(e) = k /\ e[k] = b
  BY <1>1, <1>6
<1>9. /\ s \in Seq(FrameTypes)
      /\ b.fn = "try" => s = OwnTypes[b.fn]
      /\ b.fn # "try" => OwnTypes[b.fn] = Append(s, "REP")
  <2> DEFINE fn == b.fn
  <2>1. fn \in {"rep", "debug"} \cup JumpFns /\ fn \in {"rep", "debug", "try"}
    BY <1>6, <1>7
  <2> HIDE DEF fn
  <2>2. /\ Landing[fn] \in Seq(FrameTypes)
        /\ fn \in JumpFns => Landing[fn] = OwnTypes[fn]
        /\ fn \in {"rep", "debug"} => OwnTypes[fn] = Append(Landing[fn], "REP")
    BY <2>1, LandingTypes
  <2>3. "try" \in JumpFns  BY DEF JumpFns
  <2> QED  BY <2>1, <2>2, <2>3 DEF fn
<1> HIDE DEF b, e, s
<1>10. CASE Stop("double")
  BY <1>10, TidyStop DEF Stop
<1>11. CASE Caught(r, e)
  <2>1. CASE b.fn = "try"
    <3> DEFINE a == [cstk[k] EXCEPT !.phase = "handler"]
               u == eval_alloc(r, 1)
               d == SetTopOf(e, "handler")
    <3>1. Continue(u, d)
      BY <2>1, <1>8, <1>11 DEF Caught
    <3>2. a \in Activations /\ Neat(a) /\ a.save = b.save /\ Own(a) = OwnTypes[b.fn]
      BY <2>1, <1>7, NeatIn DEF Phases, Loops, b
    <3>3. Over(vm, b.save.fp, u, s)
      <4>1. 1 \in Nat  OBVIOUS
      <4> QED  BY <4>1, <1>6, <1>9, OverAlloc
    <3> HIDE DEF a, u
    <3>4. Over(vm, cstk[k].save.fp, u, Own(a))
      BY <2>1, <1>9, <3>2, <3>3 DEF b
    <3>5. a = [cstk[k] EXCEPT !.phase = "handler"] /\ d = SetTopOf(SubSeq(cstk, 1, k), "handler")
          /\ "handler" \in Phases
      BY DEF a, e, Phases
    <3> HIDE DEF d
    <3>6. Tidy(u, d)
      BY ONLY IInv, TidyInv, <1>6, <3>2, <3>4, <3>5, TidyLand
    <3> QED  BY <3>1, <3>6, TidyContinue
  <2>2. CASE b.fn # "try" /\ b.fn = "rep" /\ ~Interactive
    <3>1. Stop("exit")
      BY <2>2, <1>8, <1>11 DEF Caught
    <3> QED  BY <3>1, TidyStop DEF Stop
  <2>3. CASE b.fn # "try" /\ ~(b.fn = "rep" /\ ~Interactive)
    <3> DEFINE a == [cstk[k] EXCEPT !.phase = "idle"]
               u == frame_longjmp_push(r, "REP")
               d == SetTopOf(e, "idle")
    <3>1. Continue(u, d)
      BY <2>3, <1>8, <1>11 DEF Caught
    <3>2. a \in Activations /\ Neat(a) /\ a.save = b.save /\ Own(a) = OwnTypes[b.fn]
      <4>1. b.fn \in Loops  BY <2>3, <1>7 DEF Loops
      <4> QED  BY <4>1, <1>7, NeatIn DEF Phases, b
    <3>3. Over(vm, b.save.fp, u, Append(s, "REP"))
      <4>1. "REP" \in FrameTypes /\ "REP" # "FUNC"  BY DEF FrameTypes
      <4> QED  BY <4>1, <1>6, <1>9, OverLongjmp
    <3> HIDE DEF a, u
    <3>4. Over(vm, cstk[k].save.fp, u, Own(a))
      BY <2>3, <1>9, <3>2, <3>3 DEF b
    <3>5. a = [cstk[k] EXCEPT !.phase = "idle"] /\ d = SetTopOf(SubSeq(cstk, 1, k), "idle")
          /\ "idle" \in Phases
      BY DEF a, e, Phases
    <3> HIDE DEF d
    <3>6. Tidy(u, d)
      BY ONLY IInv, TidyInv, <1>6, <3>2, <3>4, <3>5, TidyLand
    <3> QED  BY <3>1, <3>6, TidyContinue
  <2> QED  BY <2>1, <2>2, <2>3
<1> QED  BY <1>4, <1>5, <1>10, <1>11

\* A goto whose label is found stays in the prog; else it raises.
LEMMA FindLabelTidy ==
  ASSUME IInv, TidyInv, FindLabel
  PROVE  TidyInv'
<1>1. CASE ExceptRaise
  BY <1>1, ExceptRaiseTidy
<1>2. CASE cstk' = SetTopOf(cstk, "body") /\ UNCHANGED <<vm, except_top, status>>
  <2>1. Top.phase = "goto" /\ Neat(Top)
    BY TidyBegins DEF FindLabel, Top
  <2>2. Top.fn \notin Loops
    BY <2>1 DEF Neat
  <2>3. Tidy(vm, SetTopOf(cstk, "body"))
    BY <2>1, <2>2, PhaseTidy DEF Phases
  <2> QED  BY <2>3, <1>2 DEF TidyInv
<1> QED  BY <1>1, <1>2 DEF FindLabel

\* A longjmp after which a prog or a while goes on in phase ph.
LEMMA JumpTidy ==
  ASSUME IInv, TidyInv, NEW t \in {"PROG", "WHILE"}, NEW x, x = vm.type_fp[t], x # 0,
         NEW k, k = Owner(cstk, x), NEW ph \in Phases \ {"final", "read", "idle", "eval"}
  PROVE  Tidy(JumpTo(x), SetTopOf(SubSeq(cstk, 1, k), ph))
<1> DEFINE r == JumpTo(x)
           b == cstk[k]
           a == [b EXCEPT !.phase = ph]
           d == SetTopOf(SubSeq(cstk, 1, k), ph)
<1>1. VmOK(vm) /\ t \in JumpTypes /\ r = vm_state_restore(vm, vm.frames[x].save)
  BY TidyBegins DEF JumpTypes, JumpTo
<1> HIDE DEF r
<1>2. /\ k \in 1 .. Len(cstk) /\ JumpTypeOf[cstk[k].fn] = t
      /\ cstk[k].fn \in {"rep", "debug"} \cup JumpFns
      /\ Over(vm, cstk[k].save.fp, r, Landing[cstk[k].fn])
  <2>1. vm.frames = vm.frames  OBVIOUS
  <2> QED  BY ONLY IInv, TidyInv, <1>1, <2>1, x = vm.type_fp[t], x # 0, k = Owner(cstk, x), OverJump
<1>3. b \in Activations /\ Neat(b) /\ b.fn \in {"prog", "while"}
  <2>1. b \in Activations /\ Neat(b)
    BY <1>2, TidyBegins
  <2>2. b.fn \in {"prog", "while"}
    BY <1>2 DEF JumpTypeOf, JumpFns
  <2> QED  BY <2>1, <2>2
<1>4. Landing[b.fn] = OwnTypes[b.fn]
  <2> DEFINE fn == b.fn
  <2>1. fn \in {"rep", "debug"} \cup JumpFns /\ fn \in JumpFns
    BY <1>3 DEF JumpFns
  <2> HIDE DEF fn
  <2>2. Landing[fn] = OwnTypes[fn]
    BY <2>1, LandingTypes
  <2> QED  BY <2>2 DEF fn
<1>5. a \in Activations /\ Neat(a) /\ a.save = b.save /\ Own(a) = OwnTypes[b.fn]
  <2>1. b.fn \in Loops <=> ph \in {"idle", "read", "eval"}
    BY <1>3 DEF Loops
  <2> QED  BY <2>1, <1>3, NeatIn
<1>6. a = [cstk[k] EXCEPT !.phase = ph] /\ d = SetTopOf(SubSeq(cstk, 1, k), ph) /\ ph \in Phases
  OBVIOUS
<1> HIDE DEF a, b, d
<1>7. Over(vm, cstk[k].save.fp, r, Own(a))
  BY <1>2, <1>4, <1>5 DEF b
<1>8. Tidy(r, d)
  BY ONLY IInv, TidyInv, <1>2, <1>5, <1>6, <1>7, TidyLand
<1> QED  BY <1>8 DEF r, d

\* goto lands in the innermost prog, with its frame.
LEMMA GotoTidy ==
  ASSUME IInv, TidyInv, Goto
  PROVE  TidyInv'
<1>1. CASE PROGFP = 0
  BY <1>1, ExceptRaiseTidy DEF Goto
<1>2. CASE PROGFP # 0
  <2> DEFINE x == PROGFP
             k == Owner(cstk, x)
  <2>1. vm' = JumpTo(x) /\ cstk' = SetTopOf(SubSeq(cstk, 1, k), "goto")
    BY <1>2 DEF Goto, longjmp
  <2>2. x = vm.type_fp["PROG"] /\ x # 0 /\ k = Owner(cstk, x)
    BY <1>2 DEF PROGFP
  <2> HIDE DEF x, k
  <2>3. Tidy(JumpTo(x), SetTopOf(SubSeq(cstk, 1, k), "goto"))
    BY <2>2, JumpTidy DEF Phases
  <2> QED  BY <2>1, <2>3 DEF TidyInv
<1> QED  BY <1>1, <1>2

\* continue lands in the innermost while, with its frame.
LEMMA ContinueLoopTidy ==
  ASSUME IInv, TidyInv, ContinueLoop
  PROVE  TidyInv'
<1>1. CASE WHILEFP = 0
  BY <1>1, ExceptRaiseTidy DEF ContinueLoop
<1>2. CASE WHILEFP # 0
  <2> DEFINE x == WHILEFP
             k == Owner(cstk, x)
             d == SubSeq(cstk, 1, k)
             ph == cstk[k].phase
  <2>1. vm' = JumpTo(x) /\ cstk' = d
    BY <1>2 DEF ContinueLoop, longjmp
  <2>2. x = vm.type_fp["WHILE"] /\ x # 0 /\ k = Owner(cstk, x)
    BY <1>2 DEF WHILEFP
  <2>3. VmOK(vm) /\ Layout(vm, cstk) /\ "WHILE" \in JumpTypes
    BY TidyBegins DEF JumpTypes
  <2> HIDE DEF x, k
  <2>4. Owns(vm, cstk, "WHILE", x, k)
    BY <2>2, <2>3, OwnerOK, Zenon
  <2>5. k \in 1 .. Len(cstk) /\ cstk[k].fn = "while"
    BY <2>4 DEF Owns, JumpFns, JumpTypeOf
  <2>6. cstk[k] \in Activations /\ ActOK(vm, cstk[k]) /\ Neat(cstk[k])
    BY <2>5, TidyBegins
  <2>7. cstk[k].phase \in CanCall
    <3>1. CASE k = Len(cstk)
      BY <3>1 DEF ContinueLoop, Evaluating, Top, CanCall
    <3>2. CASE k # Len(cstk)
      BY <3>2, <2>3, <2>5 DEF Layout
    <3> QED  BY <3>1, <3>2
  <2>8. ph \in Phases \ {"final", "read", "idle", "eval"}
    BY <2>5, <2>6, <2>7 DEF Neat, CanCall, Loops, Phases
  <2>9. d = SetTopOf(d, ph)
    <3>1. /\ d \in Seq(Activations) /\ Len(d) = k /\ d[k] = cstk[k]
      BY <2>3, <2>5 DEF Layout
    <3> HIDE DEF d
    <3>2. [d[k] EXCEPT !.phase = ph] = d[k]
      BY <3>1, <2>6 DEF Activations
    <3>3. SetTopOf(d, ph) = [d EXCEPT ![k] = d[k]]
      BY <3>1, <3>2 DEF SetTopOf
    <3> QED  BY <3>1, <3>3
  <2> HIDE DEF ph
  <2>10. Tidy(JumpTo(x), SetTopOf(d, ph))
    BY <2>2, <2>8, JumpTidy
  <2> HIDE DEF d
  <2> QED  BY <2>1, <2>9, <2>10 DEF TidyInv
<1> QED  BY <1>1, <1>2

\* A longjmp after which a prog or a while returns.
LEMMA JumpReturnTidy ==
  ASSUME IInv, TidyInv, NEW t \in {"PROG", "WHILE"}, NEW x, x = vm.type_fp[t], x # 0,
         NEW k, k = Owner(cstk, x)
  PROVE  Tidy(ReturnFrom(JumpTo(x), cstk[k]), SubSeq(cstk, 1, k - 1))
<1> DEFINE w == JumpTo(x)
<1>1. /\ VmOK(vm) /\ Layout(vm, cstk) /\ t \in JumpTypes /\ Len(vm.frames) \in Nat
      /\ w = vm_state_restore(vm, vm.frames[x].save)
  BY TidyBegins DEF JumpTypes, JumpTo
<1> HIDE DEF w
<1>2. /\ VmOK(w) /\ Cut(vm, w, x)
      /\ k \in 1 .. Len(cstk) /\ cstk[k].jb = x
      /\ x \in 1 .. Len(vm.frames)
      /\ JumpTypeOf[cstk[k].fn] = t
      /\ cstk[k].fn \in {"rep", "debug"} \cup JumpFns
      /\ ActOK(vm, cstk[k])
  BY <1>1, JumpOK
<1>3. cstk[k].fn # "rep"
  BY <1>2 DEF JumpTypeOf
<1>4. k \in 2 .. Len(cstk)
  BY <1>1, <1>2, <1>3, AboveLoop
<1>5. cstk[k].save.fp <= x /\ x \in 0 .. Len(vm.frames)
  <2>1. cstk[k].save.fp \in Nat  BY <1>2, ActivationTypes DEF ActOK
  <2> QED  BY <2>1, <1>1, <1>2 DEF ActOK
<1>6. Tidy(ReturnFrom(w, cstk[k]), SubSeq(cstk, 1, k - 1))
  BY <1>2, <1>4, <1>5, TidyReturn
<1> QED  BY <1>6 DEF w

\* return leaves the innermost prog.
LEMMA ProgReturnTidy ==
  ASSUME IInv, TidyInv, ProgReturn
  PROVE  TidyInv'
<1>1. CASE PROGFP = 0
  BY <1>1, ExceptRaiseTidy DEF ProgReturn
<1>2. CASE PROGFP # 0
  <2> DEFINE x == PROGFP
             k == Owner(cstk, x)
  <2>1. vm' = ReturnFrom(JumpTo(x), cstk[k]) /\ cstk' = SubSeq(cstk, 1, k - 1)
    BY <1>2 DEF ProgReturn
  <2>2. x = vm.type_fp["PROG"] /\ x # 0 /\ k = Owner(cstk, x)
    BY <1>2 DEF PROGFP
  <2> HIDE DEF x, k
  <2>3. Tidy(ReturnFrom(JumpTo(x), cstk[k]), SubSeq(cstk, 1, k - 1))
    BY <2>2, JumpReturnTidy
  <2> QED  BY <2>1, <2>3 DEF TidyInv
<1> QED  BY <1>1, <1>2

\* break leaves the innermost while.
LEMMA BreakTidy ==
  ASSUME IInv, TidyInv, Break
  PROVE  TidyInv'
<1>1. CASE WHILEFP = 0
  BY <1>1, ExceptRaiseTidy DEF Break
<1>2. CASE WHILEFP # 0
  <2> DEFINE x == WHILEFP
             k == Owner(cstk, x)
  <2>1. vm' = ReturnFrom(JumpTo(x), cstk[k]) /\ cstk' = SubSeq(cstk, 1, k - 1)
    BY <1>2 DEF Break
  <2>2. x = vm.type_fp["WHILE"] /\ x # 0 /\ k = Owner(cstk, x)
    BY <1>2 DEF WHILEFP
  <2> HIDE DEF x, k
  <2>3. Tidy(ReturnFrom(JumpTo(x), cstk[k]), SubSeq(cstk, 1, k - 1))
    BY <2>2, JumpReturnTidy
  <2> QED  BY <2>1, <2>3 DEF TidyInv
<1> QED  BY <1>1, <1>2

\* The debugger's loop is left with all its frames.
LEMMA DebugResumeTidy ==
  ASSUME IInv, TidyInv, DebugResume
  PROVE  TidyInv'
<1> DEFINE k == Len(cstk)
           b == cstk[k]
           d == SubSeq(cstk, 1, k - 1)
<1>1. /\ VmOK(vm) /\ Layout(vm, cstk) /\ k \in Nat /\ k \in 1 .. Len(cstk)
      /\ Len(vm.frames) \in Nat
  BY TidyBegins
<1>2. b.fn # "rep" /\ vm' = ReturnFrom(vm, b) /\ cstk' = d
  BY DEF DebugResume, Top
<1>3. k \in 2 .. Len(cstk)
  BY <1>1, <1>2, AboveLoop
<1>4. b.save.fp <= Len(vm.frames)
  BY <1>1, SavesNested
<1> HIDE DEF k, d
<1>5. Cut(vm, vm, Len(vm.frames)) /\ Len(vm.frames) \in 0 .. Len(vm.frames)
  BY <1>1, CutAll
<1>6. Tidy(ReturnFrom(vm, b), d)
  BY <1>1, <1>3, <1>4, <1>5, TidyReturn DEF d
<1> QED  BY <1>2, <1>6 DEF TidyInv

\* debug_rep pushes the input's frame and a loop's two.
LEMMA DebugRepTidy ==
  ASSUME IInv, TidyInv, DebugRep
  PROVE  TidyInv'
<1> DEFINE v0 == eval_alloc(vm, CallSlots)
           u2 == eval_alloc(CallFrames(v0), WorkSlots["debug"])
           v1 == frame_push(u2, "INPUT")
           v2 == frame_longjmp_push(v1, "EXCEPT")
           v3 == frame_longjmp_push(v2, "REP")
           jb == Len(v2.frames)
           a  == Activation("debug", "idle", vm_state_save(v0), jb, v1.type_fp["EXCEPT"])
           m  == Len(vm.frames)
           s1 == Append(CallTypes, "INPUT")
           s2 == Append(s1, "EXCEPT")
<1>1. /\ WorkSlots["debug"] \in Nat /\ CallSlots \in Nat /\ VmOK(vm) /\ m \in Nat
  BY TidyBegins DEF WorkSlots, CallSlots
<1>2. \/ Stop("fatal")
      \/ vm' = v3 /\ cstk' = Append(cstk, a)
  BY DEF DebugRep
<1>3. Over(vm, m, u2, CallTypes) /\ CallTypes \in Seq(FrameTypes)
  BY <1>1, OverCall, EmptyAppend
<1>4. vm_state_save(v0) \in Saves /\ vm_state_save(v0).fp = m
  BY <1>1, EvalAllocOK DEF vm_state_save, Saves, VmOK, Vms
<1>5. /\ "INPUT" \in FrameTypes \ JumpTypes /\ "INPUT" # "FUNC"
      /\ "EXCEPT" \in FrameTypes /\ "REP" \in FrameTypes
  BY DEF FrameTypes, JumpTypes
<1> HIDE DEF u2, m, s1, s2
<1>6. Over(vm, m, v1, s1) /\ s1 \in Seq(FrameTypes)
  BY <1>3, <1>5, OverFrame DEF s1
<1> HIDE DEF v1
<1>7. Over(vm, m, v2, s2) /\ s2 \in Seq(FrameTypes)
  BY <1>5, <1>6, OverLongjmp DEF s2
<1> HIDE DEF v2
<1>8. Over(vm, m, v3, OwnTypes["debug"])
  <2>1. OwnTypes["debug"] = Append(s2, "REP")
    BY OwnAppended DEF s1, s2
  <2>2. Over(vm, m, v3, Append(s2, "REP"))
    BY <1>5, <1>7, OverLongjmp
  <2> QED  BY <2>1, <2>2
<1> HIDE DEF v3, v0
<1>9. jb = m + 4
  <2>1. Len(s1) = 3 /\ Len(s2) = 4
    <3>1. Len(CallTypes) = 2  BY DEF CallTypes
    <3>2. Len(s1) = Len(CallTypes) + 1  BY <1>3, <1>5, AppendOK DEF s1
    <3>3. Len(s2) = Len(s1) + 1  BY <1>5, <1>6, AppendOK DEF s2
    <3> QED  BY <3>1, <3>2, <3>3
  <2> QED  BY <2>1, <1>7 DEF Over
<1>10. v1.type_fp["EXCEPT"] \in Nat
  BY <1>5, <1>6 DEF Over, VmOK, Vms
<1>11. /\ a.fn = "debug" /\ a.phase = "idle" /\ a.jb = m + 4 /\ a.save = vm_state_save(v0)
       /\ a.save.fp = m /\ a \in Activations
  BY <1>1, <1>4, <1>9, <1>10 DEF Activation, Activations, Phases
<1> HIDE DEF a
<1>12. Neat(a) /\ Own(a) = OwnTypes["debug"]
  BY <1>1, <1>11 DEF Neat, Own, Loops, JumpAt
<1>13. Tidy(v3, Append(cstk, a))
  BY <1>8, <1>11, <1>12, TidyEnter DEF m, v0
<1>14. CASE Stop("fatal")
  BY <1>14, TidyStop DEF Stop
<1>15. CASE vm' = v3 /\ cstk' = Append(cstk, a)
  BY <1>13, <1>15 DEF TidyInv
<1> QED  BY <1>2, <1>14, <1>15

\* The first prompt has the frames of rep() above the main module's.
LEMMA InitTidy == Init => TidyInv
<1> SUFFICES ASSUME Init  PROVE TidyInv
  OBVIOUS
<1> DEFINE v0 == EmptyVm
           v1 == frame_push(v0, "ENV")
           v2 == frame_push(v1, "ENV")
           v3 == frame_push(v2, "INPUT")
           v4 == eval_alloc(v3, 3)
           v5 == frame_longjmp_push(v4, "EXCEPT")
           v6 == frame_longjmp_push(v5, "REP")
           a  == Activation("rep", "idle", vm_state_save(v3), 4, 0)
           s1 == Append(<< >>, "ENV")
           s2 == Append(s1, "ENV")
           s3 == Append(s2, "INPUT")
           s5 == Append(s3, "EXCEPT")
           s6 == Append(s5, "REP")
<1>1. vm = v6 /\ cstk = <<a>>
  BY DEF Init, RepBase
<1> HIDE DEF v1, v2, v3, v4, v5, v6, s1, s2, s3, s5, s6
<1>2. /\ "ENV" \in FrameTypes \ JumpTypes /\ "INPUT" \in FrameTypes \ JumpTypes
      /\ "EXCEPT" \in FrameTypes /\ "REP" \in FrameTypes
      /\ << >> \in Seq(FrameTypes)
  BY DEF FrameTypes, JumpTypes
<1>3. Over(v0, 0, v0, << >>)
  <2>1. VmOK(v0) /\ v0.frames = << >> /\ v0.debug_lvl = 0
    BY EmptyOK DEF EmptyVm
  <2> HIDE DEF v0
  <2>2. Depth(v0, 0) = 0
    <3>1. {i \in 1 .. 0 : v0.frames[i].type = "FUNC"} = {}
      OBVIOUS
    <3> QED  BY <3>1, FS_EmptySet DEF Depth
  <2>3. Len(v0.frames) = 0
    BY <2>1
  <2>4. Counts(v0)
    BY <2>1, <2>2, <2>3 DEF Counts
  <2> QED  BY <2>1, <2>3, <2>4 DEF Over
<1> HIDE DEF v0
<1>4. Over(v0, 0, v1, s1) /\ s1 \in Seq(FrameTypes)
  BY <1>2, <1>3, OverFrame DEF v1, s1
<1>5. Over(v0, 0, v2, s2) /\ s2 \in Seq(FrameTypes)
  BY <1>2, <1>4, OverFrame DEF v2, s2
<1>6. Over(v0, 0, v3, s3) /\ s3 \in Seq(FrameTypes)
  BY <1>2, <1>5, OverFrame DEF v3, s3
<1>7. Over(v0, 0, v4, s3)
  <2>1. 3 \in Nat  OBVIOUS
  <2> QED  BY <2>1, <1>6, OverAlloc DEF v4
<1>8. Over(v0, 0, v5, s5) /\ s5 \in Seq(FrameTypes)
  BY <1>2, <1>6, <1>7, OverLongjmp DEF v5, s5
<1>9. Over(v0, 0, v6, s6) /\ s6 \in Seq(FrameTypes)
  BY <1>2, <1>8, OverLongjmp DEF v6, s6
<1>10. Len(s3) = 3
  <2>1. Len(s1) = Len(<< >>) + 1  BY <1>2, AppendOK DEF s1
  <2>2. Len(s2) = Len(s1) + 1     BY <1>2, <1>4, AppendOK DEF s2
  <2>3. Len(s3) = Len(s2) + 1     BY <1>2, <1>5, AppendOK DEF s3
  <2> QED  BY <2>1, <2>2, <2>3
<1>11. /\ Len(s5) = 4 /\ s5[4] = "EXCEPT" /\ \A i \in 1 .. 3 : s5[i] = s3[i]
  <2>1. /\ Len(s5) = Len(s3) + 1 /\ s5[Len(s3) + 1] = "EXCEPT"
        /\ \A i \in 1 .. Len(s3) : s5[i] = s3[i]
    BY <1>2, <1>6, AppendOK DEF s5
  <2> QED  BY <2>1, <1>10
<1>12. /\ Len(s6) = 5 /\ s6[4] = "EXCEPT" /\ s6[5] = "REP" /\ \A i \in 1 .. 3 : s6[i] = s3[i]
  <2>1. /\ Len(s6) = Len(s5) + 1 /\ s6[Len(s5) + 1] = "REP"
        /\ \A i \in 1 .. Len(s5) : s6[i] = s5[i]
    BY <1>2, <1>8, AppendOK DEF s6
  <2>2. \A i \in 1 .. 4 : s6[i] = s5[i]
    BY <2>1, <1>11
  <2>3. \A i \in 1 .. 3 : i \in 1 .. 4
    OBVIOUS
  <2> QED  BY <2>1, <2>2, <2>3, <1>11
<1>13. /\ Len(v6.frames) = 5 /\ Counts(v6) /\ v6.frames[4].type = "EXCEPT"
       /\ v6.frames[5].type = "REP" /\ \A i \in 1 .. 3 : v6.frames[i].type = s3[i]
  <2>1. \A i \in 1 .. 5 : v6.frames[0 + i].type = s6[i]
    BY <1>9, <1>12 DEF Over
  <2>2. \A i \in 1 .. 5 : 0 + i = i
    OBVIOUS
  <2>3. \A i \in 1 .. 5 : v6.frames[i].type = s6[i]
    BY <2>1, <2>2
  <2>4. 4 \in 1 .. 5 /\ 5 \in 1 .. 5 /\ \A i \in 1 .. 3 : i \in 1 .. 5
    OBVIOUS
  <2> QED  BY <2>3, <2>4, <1>9, <1>12 DEF Over
<1>14. /\ Len(v3.frames) = 3 /\ Counts(v3) /\ VmOK(v3) /\ \A i \in 1 .. 3 : v3.frames[i].type = s3[i]
  <2>1. \A i \in 1 .. 3 : v3.frames[0 + i].type = s3[i]
    BY <1>6, <1>10 DEF Over
  <2>2. \A i \in 1 .. 3 : 0 + i = i
    OBVIOUS
  <2>3. \A i \in 1 .. 3 : v3.frames[i].type = s3[i]
    BY <2>1, <2>2
  <2> QED  BY <2>3, <1>6, <1>10 DEF Over
<1>15. Debug => v3.debug_lvl = Depth(v6, 3)
  <2>1. 3 \in Nat /\ \A i \in 1 .. 3 : v6.frames[i].type = v3.frames[i].type
    BY <1>13, <1>14
  <2>2. Depth(v6, 3) = Depth(v3, 3)
    BY ONLY <2>1, DepthSame
  <2> QED  BY <2>2, <1>14 DEF Counts
<1>16. /\ a.fn = "rep" /\ a.phase = "idle" /\ a.jb = 4 /\ a.save.fp = 3
       /\ a.save.debug_lvl = v3.debug_lvl
  BY <1>14 DEF Activation, vm_state_save
<1> HIDE DEF a
<1>17. Neat(a) /\ Own(a) = <<"EXCEPT", "REP">>
  BY <1>16 DEF Neat, Own, OwnTypes, Loops, JumpAt
<1> DEFINE c == <<a>>
           o == <<"EXCEPT", "REP">>
<1>18. c[1] = a /\ Len(c) = 1 /\ Len(o) = 2 /\ o[1] = "EXCEPT" /\ o[2] = "REP"
  OBVIOUS
<1>19. cstk = c /\ Own(a) = o
  BY <1>1, <1>17
<1> HIDE DEF c, o
<1>20. Exact(v6, c, 1)
  <2>1. Above(v6, c, 1) = 5
    BY <1>13, <1>18 DEF Above
  <2>2. \A i \in 1 .. 2 : v6.frames[3 + i].type = o[i]
    <3> TAKE i \in 1 .. 2
    <3>1. CASE i = 1  BY <3>1, <1>13, <1>18
    <3>2. CASE i = 2  BY <3>2, <1>13, <1>18
    <3> QED  BY <3>1, <3>2
  <2>3. Debug => a.save.debug_lvl = Depth(v6, a.save.fp)
    BY <1>15, <1>16
  <2>4. 5 = a.save.fp + Len(Own(a)) /\ a.save.fp = 3 /\ Len(Own(a)) = 2
    <3>1. Len(Own(a)) = 2  BY <1>18, <1>19, Zenon
    <3>2. a.save.fp = 3    BY <1>16
    <3> HIDE DEF o
    <3> QED  BY ONLY <3>1, <3>2
  <2>5. \A i \in 1 .. Len(Own(a)) : v6.frames[a.save.fp + i].type = Own(a)[i]
    BY <2>2, <2>4, <1>19
  <2> QED  BY <2>1, <2>3, <2>4, <2>5, <1>17, <1>18 DEF Exact
<1>21. Tidy(v6, c)
  <2>1. \A k \in 1 .. Len(c) : k = 1
    BY <1>18
  <2> QED  BY <2>1, <1>13, <1>20 DEF Tidy
<1> QED  BY <1>1, <1>19, <1>21 DEF TidyInv

\* Every action leaves the frames tidy.
LEMMA NextTidy == IInv /\ TidyInv /\ [Next]_vars => TidyInv'
<1> SUFFICES ASSUME IInv, TidyInv, [Next]_vars  PROVE TidyInv'
  OBVIOUS
<1>1. ASSUME NEW fn \in Fns, Call(fn)  PROVE TidyInv'
  BY <1>1, CallTidy
<1>2. CASE Return        BY <1>2, ReturnTidy
<1>3. CASE TryFinal      BY <1>3, TryFinalTidy
<1>4. CASE ReadToken     BY <1>4, ReadTokenTidy
<1>5. CASE TakeToken     BY <1>5, TakeTokenTidy
<1>6. CASE ReadDone      BY <1>6, ReadDoneTidy
<1>7. CASE EvalDone      BY <1>7, EvalDoneTidy
<1>8. CASE EndOfInput    BY <1>8, TidyStop DEF EndOfInput, Stop
<1>9. CASE Raise         BY <1>9, ExceptRaiseTidy DEF Raise
<1>10. CASE Goto         BY <1>10, GotoTidy
<1>11. CASE FindLabel    BY <1>11, FindLabelTidy
<1>12. CASE ProgReturn   BY <1>12, ProgReturnTidy
<1>13. CASE Break        BY <1>13, BreakTidy
<1>14. CASE ContinueLoop BY <1>14, ContinueLoopTidy
<1>15. CASE DebugRep     BY <1>15, DebugRepTidy
<1>16. CASE DebugResume  BY <1>16, DebugResumeTidy
<1>17. CASE UNCHANGED vars
  BY <1>17, TidyStop DEF vars
<1>18. CASE Stopped      BY <1>17, <1>18 DEF Stopped
<1> QED
  BY <1>1, <1>2, <1>3, <1>4, <1>5, <1>6, <1>7, <1>8, <1>9, <1>10, <1>11,
     <1>12, <1>13, <1>14, <1>15, <1>16, <1>17, <1>18 DEF Next

\* The frame stack is exactly the frames of the activations, in order, whatever
\* calls, returns and longjmps came before.
THEOREM FramesTidy == Spec => [](IInv /\ TidyInv)
<1>1. Init => IInv /\ TidyInv
  BY InitOK, InitTidy
<1>2. (IInv /\ TidyInv) /\ [Next]_vars => (IInv /\ TidyInv)'
  BY NextOK, NextTidy
<1> QED  BY <1>1, <1>2, PTL DEF Spec

\* At a prompt of rep() or debug_rep(), and between the forms of load_file(),
\* there are just the frames the loop itself pushed.
THEOREM PromptCorrect == Spec => []PromptClean
<1>1. IInv /\ TidyInv => PromptClean
  <2> SUFFICES ASSUME IInv, TidyInv, Top.phase \in {"idle", "eval"}
               PROVE  [i \in 1 .. Len(vm.frames) - Top.save.fp |->
                          vm.frames[Top.save.fp + i].type] = LoopFrames(Top)
    BY DEF PromptClean
  <2> DEFINE p == Top.save.fp
             s == LoopFrames(Top)
             n == Len(vm.frames) - p
             f == [i \in 1 .. n |-> vm.frames[p + i].type]
  <2>1. /\ Top \in Activations /\ Neat(Top) /\ Over(vm, p, vm, Own(Top))
        /\ Len(vm.frames) \in Nat
    BY TidyBegins DEF Top
  <2>2. Top.fn = "rep" \/ Top.fn = "load" \/ Top.fn = "debug"
    BY <2>1 DEF Neat, Loops
  <2>3. Own(Top) = s
    BY <2>2 DEF Own, OwnTypes, LoopFrames
  <2>4. s \in Seq(FrameTypes)
    BY <2>1, <2>3, OwnOK
  <2> HIDE DEF s, p
  <2>5. Len(s) \in Nat /\ n = Len(s) /\ \A i \in 1 .. Len(s) : vm.frames[p + i].type = s[i]
    BY <2>1, <2>3, <2>4 DEF Over
  <2>6. s = [i \in 1 .. Len(s) |-> s[i]]
    BY <2>4
  <2> HIDE DEF n
  <2>7. f = s
    BY <2>5, <2>6
  <2> QED  BY <2>7 DEF n, p, s
<1> QED  BY <1>1, FramesTidy, PTL

\* debug_lvl is the number of functions entered and not left, longjmps past
\* debug_leave included.
THEOREM DebugLevelCorrect == Spec => []DebugLvlCountsCalls
<1>1. IInv /\ TidyInv => DebugLvlCountsCalls
  <2> SUFFICES ASSUME IInv, TidyInv, Debug
               PROVE  vm.debug_lvl = Cardinality(FramesOf(vm, "FUNC"))
    BY DEF DebugLvlCountsCalls
  <2>1. Tidy(vm, cstk) /\ DOMAIN vm.frames = 1 .. Len(vm.frames)
    BY TidyBegins
  <2>2. vm.debug_lvl = Depth(vm, Len(vm.frames))
    BY <2>1 DEF Tidy, Counts
  <2>3. {i \in 1 .. Len(vm.frames) : vm.frames[i].type = "FUNC"} = FramesOf(vm, "FUNC")
    BY <2>1 DEF FramesOf
  <2> QED  BY <2>2, <2>3 DEF Depth
<1> QED  BY <1>1, FramesTidy, PTL

-----------------------------------------------------------------------------
(* Who handles an exception.                                               *)

\* What HandledByInnermost says of a step.
Handled ==
    \A k \in DOMAIN cstk' :
        (cstk'[k].phase = "handler" /\ cstk'[k] # cstk[k]) =>
            /\ Guarding(cstk[k])
            /\ \A l \in DOMAIN cstk : l > k => ~Guarding(cstk[l])

\* Steps that start no handler.
LEMMA NoneStarted ==
  ASSUME \A k \in DOMAIN cstk' : cstk'[k] = cstk[k] \/ cstk'[k].phase # "handler"
  PROVE  Handled
BY DEF Handled

\* A step that leaves the C stack alone.
LEMMA StepNoneStarted ==
  ASSUME cstk' = cstk  PROVE Handled
BY NoneStarted

\* A call.
LEMMA PushNoneStarted ==
  ASSUME cstk \in Seq(Activations), NEW a, a.phase # "handler",
         cstk' = Append(cstk, a)
  PROVE  Handled
<1>1. \A k \in DOMAIN cstk' : k \in 1 .. Len(cstk) + 1
  OBVIOUS
<1>2. \A k \in 1 .. Len(cstk) + 1 : cstk'[k] = cstk[k] \/ cstk'[k] = a
  OBVIOUS
<1> QED  BY <1>1, <1>2, NoneStarted

\* A return.
LEMMA PopNoneStarted ==
  ASSUME cstk \in Seq(Activations), NEW k \in 0 .. Len(cstk), cstk' = SubSeq(cstk, 1, k)
  PROVE  Handled
<1>1. \A j \in DOMAIN cstk' : cstk'[j] = cstk[j]
  OBVIOUS
<1> QED  BY <1>1, NoneStarted

\* A jump into an activation that goes on in another phase.
LEMMA LandNoneStarted ==
  ASSUME cstk \in Seq(Activations), NEW k \in 1 .. Len(cstk), NEW ph \in Phases,
         ph # "handler", cstk' = SetTopOf(SubSeq(cstk, 1, k), ph)
  PROVE  Handled
<1> DEFINE e == SubSeq(cstk, 1, k)
           a == [cstk[k] EXCEPT !.phase = ph]
<1>1. Len(e) = k /\ e \in Seq(Activations) /\ \A j \in 1 .. k : e[j] = cstk[j]
  OBVIOUS
<1>2. cstk' = [e EXCEPT ![Len(e)] = [e[Len(e)] EXCEPT !.phase = ph]]
  BY DEF SetTopOf
<1>3. a.phase = ph
  <2>1. cstk[k] \in Activations  OBVIOUS
  <2> QED  BY <2>1 DEF Activations
<1> HIDE DEF e
<1>4. cstk' = [e EXCEPT ![k] = a]
  <2>1. e[Len(e)] = cstk[k]  BY <1>1
  <2> QED  BY <1>1, <1>2, <2>1
<1> HIDE DEF a
<1>5. \A j \in DOMAIN cstk' : cstk'[j] = cstk[j] \/ cstk'[j] = a
  BY <1>1, <1>4
<1> QED  BY <1>3, <1>5, NoneStarted

\* except_raise1 enters the handler of the innermost try.
LEMMA ExceptRaiseHandled ==
  ASSUME IInv, TidyInv, ExceptRaise
  PROVE  Handled
<1> DEFINE x == vm.type_fp["EXCEPT"]
           k == Owner(cstk, x)
           w == [vm EXCEPT !.except_lvl = IF x = except_top THEN 0 ELSE 1]
           r == vm_state_restore(w, vm.frames[x].save)
           e == SubSeq(cstk, 1, k)
<1>1. /\ VmOK(vm) /\ Layout(vm, cstk) /\ cstk \in Seq(Activations) /\ Len(cstk) \in Nat
      /\ Len(vm.frames) \in Nat /\ DOMAIN vm.frames = 1 .. Len(vm.frames)
      /\ \A j \in 1 .. Len(cstk) : cstk[j] \in Activations /\ ActOK(vm, cstk[j]) /\ Neat(cstk[j])
  BY TidyBegins
<1>2. Owns(vm, cstk, "EXCEPT", x, k)
  <2>1. x # 0 /\ "EXCEPT" \in JumpTypes
    BY <1>1, SomeHandler DEF JumpTypes
  <2> QED  BY <2>1, <1>1, OwnerOK, Zenon
<1>3. Stop("double") \/ Caught(r, e)
  BY DEF ExceptRaise, longjmp
<1> HIDE DEF w, k, x, r
<1>4. /\ k \in 1 .. Len(cstk) /\ cstk[k].jb = x /\ x \in 1 .. Len(vm.frames)
      /\ Popped(vm, x, "EXCEPT") = {}
  BY <1>1, <1>2 DEF Owns
<1>5. Len(e) = k /\ e[k] = cstk[k] /\ e \in Seq(Activations) /\ \A j \in 1 .. k : e[j] = cstk[j]
  BY <1>1, <1>4
<1>6. CASE cstk' = cstk
  BY <1>6, StepNoneStarted
<1>7. CASE cstk' = SetTopOf(e, "idle")
  BY <1>1, <1>4, <1>7, LandNoneStarted DEF Phases
<1>8. CASE cstk[k].fn = "try" /\ cstk' = SetTopOf(e, "handler")
  <2> DEFINE b == cstk[k]
             a == [b EXCEPT !.phase = "handler"]
  <2>1. cstk' = [e EXCEPT ![k] = a]
    BY <1>5, <1>8 DEF SetTopOf
  <2>2. b \in Activations /\ ActOK(vm, b) /\ Neat(b) /\ b.jb # 0 /\ b.fn = "try"
    BY <1>1, <1>4, <1>8
  <2>3. b.phase \in {"body", "handler"}
    BY <2>2 DEF Activations, Phases, Neat, Loops, ActOK
  <2>4. a = b \/ Guarding(b)
    BY <2>2, <2>3 DEF Guarding, Activations
  <2>5. ASSUME NEW l \in DOMAIN cstk, l > k, Guarding(cstk[l])  PROVE FALSE
    <3>1. /\ l \in 1 .. Len(cstk) /\ ActOK(vm, cstk[l]) /\ cstk[l] \in Activations
          /\ cstk[l].fn = "try" /\ cstk[l].jb # 0 /\ cstk[l].jb \in FramesOf(vm, "EXCEPT")
          /\ cstk[l].save.fp < cstk[l].jb /\ cstk[l].save.fp \in Nat /\ cstk[l].jb \in Nat
      <4>1. l \in 1 .. Len(cstk) /\ cstk[l].fn = "try" /\ cstk[l].phase = "body"
        BY <1>1, <2>5 DEF Guarding
      <4>2. ActOK(vm, cstk[l]) /\ cstk[l] \in Activations
        BY <4>1, <1>1
      <4>3. cstk[l].jb \in Nat /\ cstk[l].save.fp \in Nat
        BY <4>2, ActivationTypes
      <4>4. JumpTypeOf[cstk[l].fn] = "EXCEPT"
        BY <4>1 DEF JumpTypeOf
      <4>5. cstk[l].jb # 0 /\ cstk[l].jb \in FramesOf(vm, "EXCEPT") /\ cstk[l].save.fp < cstk[l].jb
        BY <4>1, <4>2, <4>4 DEF ActOK
      <4> QED  BY <4>1, <4>2, <4>3, <4>5
    <3>2. Floor(cstk[k]) <= cstk[l].save.fp
      BY <1>1, <1>4, <2>5, <3>1 DEF Layout
    <3>3. x < cstk[l].jb
      BY <1>4, <2>2, <3>1, <3>2 DEF Floor
    <3>4. cstk[l].jb \in Popped(vm, x, "EXCEPT")
      BY <1>1, <1>4, <3>1, <3>3 DEF Popped, FramesOf
    <3> QED  BY <1>4, <3>4
  <2> HIDE DEF a, e
  <2>6. \A j \in DOMAIN cstk' : j # k => cstk'[j] = cstk[j]
    BY <1>5, <2>1
  <2>7. k \in DOMAIN cstk' => cstk'[k] = a
    BY <1>5, <2>1
  <2> QED  BY <2>4, <2>5, <2>6, <2>7 DEF Handled
<1>9. \/ cstk' = cstk
      \/ cstk' = SetTopOf(e, "idle")
      \/ cstk[k].fn = "try" /\ cstk' = SetTopOf(e, "handler")
  <2> HIDE DEF e
  <2> QED  BY <1>3, <1>5 DEF Stop, Caught, Continue
<1> QED  BY <1>6, <1>7, <1>8, <1>9

\* Every step that starts a handler starts the innermost one.
LEMMA NextHandled == IInv /\ TidyInv /\ Next => Handled
<1> SUFFICES ASSUME IInv, TidyInv, Next  PROVE Handled
  OBVIOUS
<1> DEFINE n == Len(cstk)
<1>0. /\ VmOK(vm) /\ Layout(vm, cstk) /\ cstk \in Seq(Activations) /\ n \in Nat /\ n \in 1 .. Len(cstk)
      /\ n - 1 \in 0 .. Len(cstk) /\ "PROG" \in JumpTypes /\ "WHILE" \in JumpTypes
      /\ cstk = SubSeq(cstk, 1, n) /\ {"idle", "read", "eval", "body", "goto", "final"} \subseteq Phases
  BY TidyBegins DEF Phases, JumpTypes
<1>1. ASSUME NEW fn \in Fns, Call(fn)  PROVE Handled
  <2>1. \/ cstk' = cstk
        \/ \E a : a.phase # "handler" /\ cstk' = Append(cstk, a)
    BY <1>1 DEF Call, Continue, Stop, Activation
  <2>2. ASSUME NEW a, a.phase # "handler", cstk' = Append(cstk, a)  PROVE Handled
    BY <1>0, <2>2, PushNoneStarted
  <2> QED  BY <2>1, <2>2, StepNoneStarted
<1>2. ASSUME NEW k \in 0 .. n, cstk' = SubSeq(cstk, 1, k)  PROVE Handled
  BY <1>0, <1>2, PopNoneStarted
<1>3. ASSUME NEW ph \in Phases, ph # "handler", cstk' = SetTopOf(cstk, ph)  PROVE Handled
  BY <1>0, <1>3, LandNoneStarted
<1>4. ASSUME NEW t \in {"PROG", "WHILE"}, vm.type_fp[t] # 0
      PROVE  Owner(cstk, vm.type_fp[t]) \in 1 .. n
  <2>1. Owns(vm, cstk, t, vm.type_fp[t], Owner(cstk, vm.type_fp[t]))
    BY <1>0, <1>4, OwnerOK
  <2> QED  BY <2>1 DEF Owns
<1> HIDE DEF n
<1>5. CASE Return        BY <1>0, <1>2, <1>5 DEF Return, n
<1>6. CASE TryFinal
  <2> DEFINE a == [cstk[n] EXCEPT !.phase = "final", !.jb = 0]
  <2>1. cstk' = [cstk EXCEPT ![n] = a]
    BY <1>6 DEF TryFinal, n
  <2>2. a.phase # "handler"
    <3>1. cstk[n] \in Activations  BY <1>0
    <3> QED  BY <3>1 DEF Activations
  <2> HIDE DEF a
  <2>3. \A j \in DOMAIN cstk' : cstk'[j] = cstk[j] \/ cstk'[j] = a
    BY <1>0, <2>1
  <2> QED  BY <2>2, <2>3, NoneStarted
<1>7. CASE ReadToken     BY <1>0, <1>3, <1>7, StepNoneStarted DEF ReadToken, Continue, Stop
<1>8. CASE TakeToken     BY <1>8, StepNoneStarted DEF TakeToken
<1>9. CASE ReadDone      BY <1>0, <1>3, <1>9 DEF ReadDone
<1>10. CASE EvalDone     BY <1>0, <1>3, <1>10, StepNoneStarted DEF EvalDone, Stop
<1>11. CASE EndOfInput   BY <1>11, StepNoneStarted DEF EndOfInput, Stop
<1>12. CASE Raise        BY <1>12, ExceptRaiseHandled DEF Raise
<1>13. CASE Goto
  <2>1. CASE ExceptRaise  BY <2>1, ExceptRaiseHandled
  <2>2. CASE PROGFP # 0
    <3> DEFINE k == Owner(cstk, vm.type_fp["PROG"])
    <3>1. k \in 1 .. n  BY <1>4, <2>2 DEF PROGFP
    <3>2. cstk' = SetTopOf(SubSeq(cstk, 1, k), "goto")
      BY <1>13, <2>2 DEF Goto, longjmp, PROGFP
    <3> HIDE DEF k
    <3> QED  BY <3>1, <3>2, <1>0, LandNoneStarted DEF n
  <2> QED  BY <2>1, <2>2, <1>13 DEF Goto
<1>14. CASE FindLabel
  <2>1. CASE ExceptRaise  BY <2>1, ExceptRaiseHandled
  <2>2. CASE cstk' = SetTopOf(cstk, "body")  BY <2>2, <1>0, <1>3
  <2> QED  BY <2>1, <2>2, <1>14 DEF FindLabel
<1>15. CASE ProgReturn
  <2>1. CASE ExceptRaise  BY <2>1, ExceptRaiseHandled
  <2>2. CASE PROGFP # 0
    <3> DEFINE k == Owner(cstk, vm.type_fp["PROG"])
    <3>1. k \in 1 .. n  BY <1>4, <2>2 DEF PROGFP
    <3>2. cstk' = SubSeq(cstk, 1, k - 1)
      BY <1>15, <2>2 DEF ProgReturn, PROGFP
    <3> HIDE DEF k
    <3>3. k - 1 \in 0 .. n  BY <3>1, <1>0
    <3> QED  BY <3>2, <3>3, <1>2
  <2> QED  BY <2>1, <2>2, <1>15 DEF ProgReturn
<1>16. CASE Break
  <2>1. CASE ExceptRaise  BY <2>1, ExceptRaiseHandled
  <2>2. CASE WHILEFP # 0
    <3> DEFINE k == Owner(cstk, vm.type_fp["WHILE"])
    <3>1. k \in 1 .. n  BY <1>4, <2>2 DEF WHILEFP
    <3>2. cstk' = SubSeq(cstk, 1, k - 1)
      BY <1>16, <2>2 DEF Break, WHILEFP
    <3> HIDE DEF k
    <3>3. k - 1 \in 0 .. n  BY <3>1, <1>0
    <3> QED  BY <3>2, <3>3, <1>2
  <2> QED  BY <2>1, <2>2, <1>16 DEF Break
<1>17. CASE ContinueLoop
  <2>1. CASE ExceptRaise  BY <2>1, ExceptRaiseHandled
  <2>2. CASE WHILEFP # 0
    <3> DEFINE k == Owner(cstk, vm.type_fp["WHILE"])
    <3>1. k \in 1 .. n  BY <1>4, <2>2 DEF WHILEFP
    <3>2. cstk' = SubSeq(cstk, 1, k)
      BY <1>17, <2>2 DEF ContinueLoop, longjmp, WHILEFP
    <3> HIDE DEF k
    <3> QED  BY <3>1, <3>2, <1>0, <1>2
  <2> QED  BY <2>1, <2>2, <1>17 DEF ContinueLoop
<1>18. CASE DebugRep
  <2>1. \/ cstk' = cstk
        \/ \E a : a.phase # "handler" /\ cstk' = Append(cstk, a)
    BY <1>18 DEF DebugRep, Stop, Activation
  <2>2. ASSUME NEW a, a.phase # "handler", cstk' = Append(cstk, a)  PROVE Handled
    BY <1>0, <2>2, PushNoneStarted
  <2> QED  BY <2>1, <2>2, StepNoneStarted
<1>19. CASE DebugResume  BY <1>0, <1>2, <1>19 DEF DebugResume, n
<1>20. CASE Stopped      BY <1>20, StepNoneStarted DEF Stopped, vars
<1> QED
  BY <1>1, <1>5, <1>6, <1>7, <1>8, <1>9, <1>10, <1>11, <1>12, <1>13, <1>14,
     <1>15, <1>16, <1>17, <1>18, <1>19, <1>20 DEF Next

\* No try is skipped: whatever returned or was jumped out of, an exception goes
\* to the innermost try whose body is in progress.
THEOREM HandlersCorrect == Spec => HandledByInnermost
<1>1. IInv /\ TidyInv /\ [Next]_vars => [Handled]_vars
  BY NextHandled
<1>2. Spec => [][Handled]_vars
  BY <1>1, FramesTidy, PTL DEF Spec
<1>3. [Handled]_vars <=>
        [\A k \in DOMAIN cstk' :
          (cstk'[k].phase = "handler" /\ cstk'[k] # cstk[k]) =>
              /\ Guarding(cstk[k])
              /\ \A l \in DOMAIN cstk : l > k => ~Guarding(cstk[l])]_vars
  BY DEF Handled
<1> QED  BY <1>2, <1>3, PTL DEF HandledByInnermost
=============================================================================
