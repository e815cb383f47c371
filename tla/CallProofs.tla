----------------------------- MODULE CallProofs -----------------------------
(***************************************************************************)
(* Proofs about CallProtocol: it implements CallPromise, for any callables *)
(* that are Counted, any number of arguments and any chain of parents.     *)
(***************************************************************************)
EXTENDS CallProtocol, SequenceTheorems, TLAPS

Part == Functions \cup Wrappers

\* A callable: wrappers around a function.
IsCallable(f) ==
    /\ f \in Seq(Part) /\ f # << >> /\ Last(f) \in Functions
    /\ \A i \in 1 .. Len(f) - 1 : f[i] \in Wrappers

Looking == stage \in {"find", "apply", "run"}

\* The arguments are as the selector says: forms, values, or a value and forms.
AsSelected ==
    /\ sel = "call" => \A i \in 1 .. Len(arglist) : arglist[i] = "form"
    /\ sel = "calln" => \A i \in 1 .. Len(arglist) : arglist[i] = "value"
    /\ sel = "call1" =>
          /\ Len(arglist) > 0 /\ arglist[1] = "value"
          /\ \A i \in 2 .. Len(arglist) : arglist[i] = "form"

\* An object's lambda gets the count of the selector, and new never replaces a
\* selector for which arguments are forms or values throughout.
CountKept ==
    /\ Last(todo) = "object" =>
          /\ \/ sel = "call" /\ passed = 0
             \/ sel = "calln" /\ passed = -1
          /\ sel = "calln" => ~Through(todo, "closure")
    /\ Through(todo, "new") => sel = "call1"

\* In the loop over the arguments: those before turn are values, those from turn
\* on are what left says.
TurnKept ==
    /\ turn \in 1 .. Len(arglist) + 1 /\ left \in -1 .. 1
    /\ \A i \in 1 .. turn - 1 : arglist[i] = "value"
    /\ left = -1 => \A i \in turn .. Len(arglist) : arglist[i] = "value"
    /\ left = 0 => \A i \in turn .. Len(arglist) : arglist[i] = "form"
    /\ left = 1 =>
          /\ turn <= Len(arglist) /\ arglist[turn] = "value"
          /\ \A i \in turn + 1 .. Len(arglist) : arglist[i] = "form"

\* The inductive invariant.
CallInv ==
    /\ stage \in {"idle", "receiver", "find", "apply", "run", "args", "body", "return"}
    /\ arglist \in Seq({"form", "value"}) /\ Len(arglist) <= MaxArgs
    /\ stage # "idle" => IsCallable(todo) /\ sel \in {"call", "call1", "calln"}
    /\ stage = "receiver" =>
          /\ sel = "call1" /\ Len(arglist) > 0 /\ Last(todo) # "object"
          /\ \A i \in 1 .. Len(arglist) : arglist[i] = "form"
    /\ Looking /\ Last(todo) \in Evaluated => AsSelected /\ CountKept
    /\ stage = "args" => Last(todo) \in Evaluated /\ TurnKept

\* A step of the promise, or none.
Promise == Promised!Next \/ UNCHANGED Promised!vars

-----------------------------------------------------------------------------
LEMMA WrapOne ==
  ASSUME NEW f, IsCallable(f), NEW w \in Wrappers
  PROVE  LET g == <<w>> \o f
         IN  /\ IsCallable(g) /\ Last(g) = Last(f)
             /\ \A p : p # w => (Through(g, p) <=> Through(f, p))
<1> DEFINE g == <<w>> \o f
<1>1. /\ f \in Seq(Part) /\ Len(f) \in Nat /\ Len(f) > 0 /\ w \in Part
  BY DEF IsCallable, Part
<1>2. /\ g \in Seq(Part) /\ Len(g) = Len(f) + 1 /\ g[1] = w
      /\ \A i \in 1 .. Len(f) : g[i + 1] = f[i]
      /\ \A i \in 2 .. Len(g) : g[i] = f[i - 1]
  BY <1>1
<1>3. Last(g) = Last(f)
  BY <1>1, <1>2 DEF Last
<1>4. IsCallable(g)
  <2>1. g # << >>
    BY <1>2
  <2>2. ASSUME NEW i \in 1 .. Len(g) - 1  PROVE g[i] \in Wrappers
    BY <1>1, <1>2 DEF IsCallable
  <2> QED  BY <1>2, <1>3, <2>1, <2>2 DEF IsCallable
<1>5. ASSUME NEW p, p # w  PROVE Through(g, p) <=> Through(f, p)
  <2>1. ASSUME Through(g, p)  PROVE Through(f, p)
    <3>1. PICK i \in 1 .. Len(g) : g[i] = p
      BY <2>1 DEF Through
    <3>2. i # 1 /\ i - 1 \in 1 .. Len(f) /\ f[i - 1] = p
      BY <3>1, <1>5, <1>1, <1>2
    <3> QED  BY <3>2 DEF Through
  <2>2. ASSUME Through(f, p)  PROVE Through(g, p)
    <3>1. PICK i \in 1 .. Len(f) : f[i] = p
      BY <2>2 DEF Through
    <3>2. i + 1 \in 1 .. Len(g) /\ g[i + 1] = p
      BY <3>1, <1>1, <1>2
    <3> QED  BY <3>2 DEF Through
  <2> QED  BY <2>1, <2>2
<1> QED  BY <1>3, <1>4, <1>5

LEMMA UnwrapOne ==
  ASSUME NEW f, IsCallable(f), Head(f) \in Wrappers
  PROVE  LET g == Tail(f)
         IN  /\ IsCallable(g) /\ Last(g) = Last(f)
             /\ \A p : Through(g, p) => Through(f, p)
<1> DEFINE g == Tail(f)
<1>1. /\ f \in Seq(Part) /\ Len(f) \in Nat /\ Len(f) > 0 /\ Head(f) = f[1]
  BY DEF IsCallable, Part
<1>2. Len(f) > 1
  <2>1. Functions \cap Wrappers = {}
    BY DEF Functions, Wrappers
  <2> QED  BY <1>1, <2>1 DEF IsCallable, Last
<1>3. /\ g \in Seq(Part) /\ Len(g) = Len(f) - 1
      /\ \A i \in 1 .. Len(g) : g[i] = f[i + 1]
  BY <1>1, <1>2
<1>4. Last(g) = Last(f)
  BY <1>1, <1>2, <1>3 DEF Last
<1>5. IsCallable(g)
  <2>1. g # << >>
    <3> HIDE DEF g
    <3> QED  BY <1>2, <1>3
  <2>2. ASSUME NEW i \in 1 .. Len(g) - 1  PROVE g[i] \in Wrappers
    BY <1>1, <1>2, <1>3 DEF IsCallable
  <2> QED  BY <1>3, <1>4, <2>1, <2>2 DEF IsCallable
<1>6. ASSUME NEW p, Through(g, p)  PROVE Through(f, p)
  <2>1. PICK i \in 1 .. Len(g) : g[i] = p
    BY <1>6 DEF Through
  <2>2. i + 1 \in 1 .. Len(f) /\ f[i + 1] = p
    BY <2>1, <1>1, <1>3
  <2> QED  BY <2>2 DEF Through
<1> QED  BY <1>4, <1>5, <1>6

\* A callable whose first part is a function is that function.
LEMMA FunctionAlone ==
  ASSUME NEW f, IsCallable(f), Head(f) \in Functions
  PROVE  Last(f) = Head(f)
<1> DEFINE n == Len(f)
<1>1. f \in Seq(Part) /\ Head(f) = f[1]
  BY DEF IsCallable, Part
<1>2. n \in Nat /\ n > 0
  BY DEF IsCallable, Part
<1>3. f[1] \notin Wrappers
  BY <1>1 DEF Functions, Wrappers
<1>4. \A i \in 1 .. n - 1 : f[i] \in Wrappers
  BY DEF IsCallable
<1>5. n = 1
  <2> HIDE DEF n
  <2> QED  BY <1>2, <1>3, <1>4
<1> QED  BY <1>1, <1>5 DEF Last

-----------------------------------------------------------------------------
LEMMA IdleArgs == << >> \in Seq({"form", "value"}) /\ Len(<< >>) = 0
OBVIOUS

\* What every state that is between calls has in common, for the promise.
LEMMA EndOK ==
  ASSUME CallInv, EndCall
  PROVE  CallInv' /\ Promise
<1>1. CallInv'
  BY IdleArgs, CallAssumption DEF CallInv, EndCall, Looking
<1>2. CASE ~InCall
  <2>1. UNCHANGED Promised!vars
    BY <1>2 DEF EndCall, InCall, Promised!vars
  <2> QED  BY <1>1, <2>1 DEF Promise
<1>3. CASE InCall
  <2>1. Promised!End
    BY <1>3 DEF EndCall, InCall, Promised!End
  <2> QED  BY <1>1, <2>1 DEF Promise, Promised!Next
<1> QED  BY <1>2, <1>3

\* The arguments a call begins with.
LEMMA Uniform ==
  ASSUME NEW n \in 0 .. MaxArgs, NEW v \in {"form", "value"}
  PROVE  LET a == [i \in 1 .. n |-> v]
         IN  /\ a \in Seq({"form", "value"}) /\ Len(a) = n /\ Len(a) <= MaxArgs
             /\ \A i \in 1 .. n : a[i] = v
BY CallAssumption

\* A call of a callable whose arguments are as they have to be, by the value of f
\* or after a look-up, starts as promised.
LEMMA StartPromise ==
  ASSUME ~InCall, InCall', stage' = "apply", IsCallable(todo'),
         arglist' \in Seq({"form", "value"}), Len(arglist') <= MaxArgs
  PROVE  Promised!Start
<1>1. Len(arglist') \in 0 .. MaxArgs /\ arglist' \in [1 .. Len(arglist') -> {"form", "value"}]
  BY CallAssumption
<1>2. Last(todo)' \in Evaluated \cup (Functions \ Evaluated)
  BY DEF IsCallable, Last
<1> QED  BY <1>1, <1>2 DEF InCall, Promised!Start

LEMMA ByValueOK ==
  ASSUME Counted, CallInv, NEW f \in Callables, NEW n \in 0 .. MaxArgs, CallByValue(f, n)
  PROVE  CallInv' /\ Promise
<1>1. IsCallable(f) /\ ~Through(f, "new")
  BY CallAssumption DEF IsCallable, Part, Counted
<1>2. /\ stage = "idle" /\ stage' = "apply" /\ todo' = f /\ sel' = "call" /\ passed' = 0
      /\ arglist' = [i \in 1 .. n |-> "form"]
  BY DEF CallByValue
<1>3. /\ arglist' \in Seq({"form", "value"}) /\ Len(arglist') <= MaxArgs /\ Len(arglist') = n
      /\ \A i \in 1 .. n : arglist'[i] = "form"
  BY <1>2, Uniform
<1>4. AsSelected'
  BY <1>2, <1>3 DEF AsSelected
<1>5. CountKept'
  BY <1>1, <1>2 DEF CountKept
<1>6. CallInv'
  BY <1>1, <1>2, <1>3, <1>4, <1>5 DEF CallInv, Looking
<1>7. Promised!Start
  BY <1>1, <1>2, <1>3, StartPromise DEF InCall
<1> QED  BY <1>6, <1>7 DEF Promise, Promised!Next

LEMMA ByNameOK ==
  ASSUME Counted, CallInv, NEW f \in Methods, NEW n \in 0 .. MaxArgs, CallByName(f, n)
  PROVE  CallInv' /\ Promise
<1>1. IsCallable(f) /\ Last(f) # "object"
  BY CallAssumption DEF IsCallable, Part, Counted
<1>2. /\ stage = "idle" /\ stage' = "receiver" /\ n > 0 /\ todo' = f /\ sel' = "call1"
      /\ arglist' = [i \in 1 .. n |-> "form"]
  BY DEF CallByName
<1>3. /\ arglist' \in Seq({"form", "value"}) /\ Len(arglist') <= MaxArgs /\ Len(arglist') = n
      /\ \A i \in 1 .. n : arglist'[i] = "form"
  BY <1>2, Uniform
<1>4. CallInv'
  BY <1>1, <1>2, <1>3 DEF CallInv, Looking
<1>5. UNCHANGED Promised!vars
  BY <1>2 DEF InCall, Promised!vars
<1> QED  BY <1>4, <1>5 DEF Promise

LEMMA ValuesOK ==
  ASSUME Counted, CallInv, NEW f \in Funcalled, NEW n \in 0 .. MaxArgs,
         CallValues(f, n) \/ CallMethod(f, n)
  PROVE  CallInv' /\ Promise
<1>1. /\ IsCallable(f)
      /\ Through(f, "new") => Last(f) \notin Evaluated
      /\ Last(f) = "object" => ~Through(f, "closure")
  BY CallAssumption DEF IsCallable, Part, Counted
<1>2. /\ stage = "idle" /\ stage' \in {"apply", "find"} /\ todo' = f
      /\ sel' = "calln" /\ passed' = -1
      /\ arglist' = [i \in 1 .. n |-> "value"]
  BY DEF CallValues, CallMethod
<1>3. /\ arglist' \in Seq({"form", "value"}) /\ Len(arglist') <= MaxArgs /\ Len(arglist') = n
      /\ \A i \in 1 .. n : arglist'[i] = "value"
  BY <1>2, Uniform
<1>4. AsSelected'
  BY <1>2, <1>3 DEF AsSelected
<1>5. Last(todo') \in Evaluated => CountKept'
  BY <1>1, <1>2 DEF CountKept
<1>6. CallInv'
  BY <1>1, <1>2, <1>3, <1>4, <1>5 DEF CallInv, Looking
<1>7. CASE stage' = "apply"
  <2>1. Promised!Start
    BY <1>1, <1>2, <1>3, <1>7, StartPromise DEF InCall
  <2> QED  BY <1>6, <2>1 DEF Promise, Promised!Next
<1>8. CASE stage' = "find"
  <2>1. UNCHANGED Promised!vars
    BY <1>2, <1>8 DEF InCall, Promised!vars
  <2> QED  BY <1>6, <2>1 DEF Promise
<1> QED  BY <1>2, <1>7, <1>8

\* The receiver becomes a value.
LEMMA ReceiverOK ==
  ASSUME CallInv, Receiver
  PROVE  CallInv' /\ Promise
<1>1. /\ stage = "receiver" /\ stage' = "find" /\ todo' = todo /\ sel' = sel
      /\ arglist' = [arglist EXCEPT ![1] = "value"]
      /\ sel = "call1" /\ Len(arglist) > 0 /\ Last(todo) # "object" /\ IsCallable(todo)
      /\ \A i \in 1 .. Len(arglist) : arglist[i] = "form"
      /\ arglist \in Seq({"form", "value"}) /\ Len(arglist) <= MaxArgs
  BY DEF Receiver, callee, CallInv
<1>2. /\ arglist' \in Seq({"form", "value"}) /\ Len(arglist') = Len(arglist)
      /\ arglist'[1] = "value" /\ \A i \in 2 .. Len(arglist) : arglist'[i] = "form"
  BY <1>1
<1>3. AsSelected' /\ CountKept'
  BY <1>1, <1>2 DEF AsSelected, CountKept
<1>4. CallInv'
  BY <1>1, <1>2, <1>3 DEF CallInv, Looking
<1>5. UNCHANGED Promised!vars
  BY <1>1 DEF InCall, Promised!vars
<1> QED  BY <1>4, <1>5 DEF Promise

\* The method that has been found is put around its function.
LEMMA LookOK ==
  ASSUME CallInv, Look
  PROVE  CallInv' /\ Promise
<1>1. CASE table = NoTable
  BY <1>1, EndOK DEF Look
<1>2. CASE table # NoTable /\ table \in defs
  <2>1. /\ stage = "find" /\ stage' = "apply" /\ todo' = <<"method">> \o todo
        /\ sel' = sel /\ passed' = passed /\ arglist' = arglist
    BY <1>2 DEF Look, given
  <2>2. /\ IsCallable(todo) /\ sel \in {"call", "call1", "calln"}
        /\ arglist \in Seq({"form", "value"}) /\ Len(arglist) <= MaxArgs
        /\ Last(todo) \in Evaluated => AsSelected /\ CountKept
    BY <2>1 DEF CallInv, Looking
  <2>3. /\ IsCallable(todo') /\ Last(todo') = Last(todo)
        /\ \A p : p # "method" => (Through(todo', p) <=> Through(todo, p))
    BY <2>1, <2>2, WrapOne DEF Wrappers
  <2>4. Last(todo') \in Evaluated => AsSelected' /\ CountKept'
    BY <2>1, <2>2, <2>3 DEF AsSelected, CountKept
  <2>5. CallInv'
    BY <2>1, <2>2, <2>3, <2>4 DEF CallInv, Looking
  <2>6. Promised!Start
    BY <2>1, <2>2, <2>3, StartPromise DEF InCall
  <2> QED  BY <2>5, <2>6 DEF Promise, Promised!Next
<1>3. CASE table # NoTable /\ table \notin defs
  <2>1. UNCHANGED <<stage, todo, sel, passed, arglist, turn, left>>
    BY <1>3 DEF Look, callee, given
  <2>2. CallInv'
    BY <2>1 DEF CallInv, Looking, AsSelected, CountKept, TurnKept
  <2>3. UNCHANGED Promised!vars
    BY <2>1 DEF InCall, Promised!vars
  <2> QED  BY <2>2, <2>3 DEF Promise
<1> QED  BY <1>1, <1>2, <1>3

LEMMA ApplyOK ==
  ASSUME CallInv, Apply
  PROVE  CallInv' /\ Promise
<1>1. CASE todo = <<"thing">>
  BY <1>1, EndOK DEF Apply
<1>2. CASE todo # <<"thing">>
  <2>1. stage = "apply" /\ stage' = "run" /\ UNCHANGED <<todo, sel, passed, arglist, turn, left>>
    BY <1>2 DEF Apply, callee, given
  <2>2. CallInv'
    BY <2>1 DEF CallInv, Looking, AsSelected, CountKept, TurnKept
  <2>3. UNCHANGED Promised!vars
    BY <2>1 DEF InCall, Promised!vars
  <2> QED  BY <2>2, <2>3 DEF Promise
<1> QED  BY <1>1, <1>2

\* A wrapper that passes on a count of its own and leaves the selector.
LEMMA UnwrapOK ==
  ASSUME CallInv, stage = "run", stage' = "apply", Head(todo) \in Wrappers, todo' = Tail(todo),
         UNCHANGED <<sel, arglist, turn, left>>,
         Last(todo) = "object" /\ CountKept => passed' = passed
  PROVE  CallInv' /\ Promise
<1>1. /\ IsCallable(todo) /\ sel \in {"call", "call1", "calln"}
      /\ arglist \in Seq({"form", "value"}) /\ Len(arglist) <= MaxArgs
      /\ Last(todo) \in Evaluated => AsSelected /\ CountKept
  BY DEF CallInv, Looking
<1>2. /\ IsCallable(todo') /\ Last(todo') = Last(todo)
      /\ \A p : Through(todo', p) => Through(todo, p)
  BY <1>1, UnwrapOne
<1>3. Last(todo') \in Evaluated => AsSelected' /\ CountKept'
  BY <1>1, <1>2 DEF AsSelected, CountKept
<1>4. CallInv'
  BY <1>1, <1>2, <1>3 DEF CallInv, Looking
<1>5. UNCHANGED Promised!vars
  BY <1>2 DEF InCall, Promised!vars
<1> QED  BY <1>4, <1>5 DEF Promise

LEMMA RunMethodOK ==
  ASSUME CallInv, RunMethod
  PROVE  CallInv' /\ Promise
<1>1. /\ stage = "run" /\ stage' = "apply" /\ Head(todo) \in Wrappers /\ todo' = Tail(todo)
      /\ UNCHANGED <<sel, arglist, turn, left>> /\ passed' = SuppressedBy[sel]
  BY DEF RunMethod, given, Wrappers
<1>2. Last(todo) = "object" /\ CountKept => passed' = passed
  BY <1>1 DEF CountKept, SuppressedBy
<1> QED  BY <1>1, <1>2, UnwrapOK

LEMMA RunClosureOK ==
  ASSUME CallInv, RunClosure
  PROVE  CallInv' /\ Promise
<1>1. /\ stage = "run" /\ stage' = "apply" /\ Head(todo) = "closure" /\ todo' = Tail(todo)
      /\ UNCHANGED <<sel, arglist, turn, left>> /\ passed' = 0
  BY DEF RunClosure, given
<1>2. todo \in Seq(Part) /\ todo # << >>
  BY <1>1 DEF CallInv, IsCallable
<1>3. Through(todo, "closure")
  <2>1. Len(todo) > 0 /\ Len(todo) \in Nat /\ todo[1] = "closure"
    BY <1>1, <1>2
  <2> QED  BY <2>1 DEF Through
<1>4. Last(todo) = "object" /\ CountKept => passed' = passed
  BY <1>1, <1>3 DEF CountKept
<1> QED  BY <1>1, <1>4, UnwrapOK DEF Wrappers

\* new starts with the selector for one value again, which it had if it matters.
LEMMA RunNewOK ==
  ASSUME CallInv, RunNew
  PROVE  CallInv' /\ Promise
<1>1. /\ stage = "run" /\ Head(todo) = "new" /\ UNCHANGED <<arglist, turn, left>>
      /\ IsCallable(todo) /\ sel \in {"call", "call1", "calln"}
      /\ arglist \in Seq({"form", "value"}) /\ Len(arglist) <= MaxArgs
      /\ Last(todo) \in Evaluated => AsSelected /\ CountKept
  BY DEF RunNew, given, CallInv, Looking
<1>2. /\ IsCallable(Tail(todo)) /\ Last(Tail(todo)) = Last(todo)
      /\ \A p : Through(Tail(todo), p) => Through(todo, p)
  BY <1>1, UnwrapOne DEF Wrappers
<1>3. CASE Tail(todo) = <<"thing">>
  <2>1. stage' = "return" /\ UNCHANGED <<todo, sel, passed>>
    BY <1>3 DEF RunNew, callee
  <2>2. CallInv'
    BY <1>1, <2>1 DEF CallInv, Looking
  <2>3. Last(todo) \notin Evaluated
    <3>1. Last(<<"thing">>) = "thing"
      BY DEF Last
    <3> QED  BY <1>2, <1>3, <3>1 DEF Evaluated
  <2>4. Promised!Body
    BY <1>1, <2>1, <2>3 DEF InCall, Promised!Body
  <2> QED  BY <2>2, <2>4 DEF Promise, Promised!Next
<1>4. CASE Tail(todo) # <<"thing">>
  <2>1. stage' = "apply" /\ todo' = <<"method">> \o Tail(todo) /\ sel' = "call1"
    BY <1>4 DEF RunNew
  <2>2. IsCallable(todo') /\ Last(todo') = Last(todo)
    BY <1>2, <2>1, WrapOne DEF Wrappers
  <2>3. Through(todo, "new")
    <3>1. todo \in Seq(Part) /\ todo # << >>
      BY <1>1 DEF IsCallable
    <3>2. Len(todo) > 0 /\ Len(todo) \in Nat /\ todo[1] = "new"
      BY <1>1, <3>1
    <3> QED  BY <3>2 DEF Through
  <2>4. Last(todo) \in Evaluated => sel = "call1" /\ Last(todo) # "object" /\ AsSelected
    BY <1>1, <2>3 DEF CountKept
  <2>5. Last(todo') \in Evaluated => AsSelected' /\ CountKept'
    BY <1>1, <2>1, <2>2, <2>4 DEF AsSelected, CountKept
  <2>6. CallInv'
    BY <1>1, <2>1, <2>2, <2>5 DEF CallInv, Looking
  <2>7. UNCHANGED Promised!vars
    BY <1>1, <2>1, <2>2 DEF InCall, Promised!vars
  <2> QED  BY <2>6, <2>7 DEF Promise
<1> QED  BY <1>3, <1>4

\* The loop over the arguments begins with the count that the selector stands for.
LEMMA RunFunctionOK ==
  ASSUME CallInv, RunFunction
  PROVE  CallInv' /\ Promise
<1>1. CASE EndCall
  BY <1>1, EndOK
<1>2. CASE ~EndCall
  <2>1. /\ stage = "run" /\ Head(todo) \in Evaluated /\ stage' = "args"
        /\ turn' = 1 /\ left' = Suppressed /\ UNCHANGED <<todo, sel, passed, arglist>>
    BY <1>2 DEF RunFunction, callee
  <2>2. /\ IsCallable(todo) /\ sel \in {"call", "call1", "calln"}
        /\ arglist \in Seq({"form", "value"}) /\ Len(arglist) <= MaxArgs
        /\ Last(todo) \in Evaluated => AsSelected /\ CountKept
    BY <2>1 DEF CallInv, Looking
  <2>3. Last(todo) = Head(todo)
    BY <2>1, <2>2, FunctionAlone DEF Evaluated, Functions
  <2>4. AsSelected /\ CountKept
    BY <2>1, <2>2, <2>3
  <2>5. /\ sel = "call" => left' = 0
        /\ sel = "call1" => left' = 1
        /\ sel = "calln" => left' = -1
    BY <2>1, <2>4 DEF CountKept, Suppressed, SuppressedBy
  <2>6. TurnKept'
    <3>1. Len(arglist) \in Nat
      BY <2>2
    <3> QED  BY <2>1, <2>2, <2>4, <2>5, <3>1 DEF AsSelected, TurnKept
  <2>7. CallInv'
    BY <2>1, <2>2, <2>3, <2>6 DEF CallInv, Looking
  <2>8. UNCHANGED Promised!vars
    BY <2>1 DEF InCall, Promised!vars
  <2> QED  BY <2>7, <2>8 DEF Promise
<1> QED  BY <1>1, <1>2

LEMMA RunSpecialOK ==
  ASSUME CallInv, RunSpecial
  PROVE  CallInv' /\ Promise
<1>1. /\ stage = "run" /\ Head(todo) \in {"nsubr", "nlambda", "macro"} /\ stage' = "body"
      /\ UNCHANGED <<todo, sel, arglist>>
      /\ IsCallable(todo)
  BY DEF RunSpecial, callee, given, CallInv
<1>2. Last(todo) \notin Evaluated
  <2>1. Last(todo) = Head(todo)
    BY <1>1, FunctionAlone DEF Functions
  <2> QED  BY <1>1, <2>1 DEF Evaluated
<1>3. CallInv'
  BY <1>1 DEF CallInv, Looking
<1>4. Promised!Body
  BY <1>1, <1>2 DEF InCall, Promised!Body
<1> QED  BY <1>3, <1>4 DEF Promise, Promised!Next

\* One argument is evaluated, or passed over as the count says.
LEMMA ArgumentOK ==
  ASSUME CallInv, Argument
  PROVE  CallInv' /\ Promise
<1>1. /\ stage = "args" /\ stage' = "args" /\ turn <= Len(arglist) /\ turn' = turn + 1
      /\ UNCHANGED <<todo, sel>>
      /\ IsCallable(todo) /\ sel \in {"call", "call1", "calln"}
      /\ arglist \in Seq({"form", "value"}) /\ Len(arglist) <= MaxArgs /\ Len(arglist) \in Nat
      /\ Last(todo) \in Evaluated /\ TurnKept
      /\ turn \in 1 .. Len(arglist)
  BY DEF Argument, callee, CallInv, TurnKept
<1>2. CASE left = 0
  <2>1. /\ \A i \in turn .. Len(arglist) : arglist[i] = "form"
        /\ \A i \in 1 .. turn - 1 : arglist[i] = "value"
    BY <1>1, <1>2 DEF TurnKept
  <2>2. arglist' = [arglist EXCEPT ![turn] = "value"] /\ left' = 0
    <3>1. arglist[turn] = "form"
      BY <1>1, <2>1
    <3> QED  BY <1>2, <3>1 DEF Argument
  <2>3. /\ arglist' \in Seq({"form", "value"}) /\ Len(arglist') = Len(arglist)
        /\ arglist'[turn] = "value"
        /\ \A i \in 1 .. Len(arglist) : i # turn => arglist'[i] = arglist[i]
    BY <1>1, <2>2
  <2>4. TurnKept'
    BY <1>1, <2>1, <2>2, <2>3 DEF TurnKept
  <2>5. CallInv'
    BY <1>1, <2>3, <2>4 DEF CallInv, Looking
  <2>6. Promised!EvalArg
    <3>1. InCall /\ InCall' /\ Last(todo)' = Last(todo)
      BY <1>1 DEF InCall
    <3>2. \E i \in 1 .. Len(arglist) :
            /\ arglist[i] = "form" /\ \A j \in 1 .. i - 1 : arglist[j] = "value"
            /\ arglist' = [arglist EXCEPT ![i] = "value"]
      <4>1. turn \in 1 .. Len(arglist) /\ arglist[turn] = "form"
        BY <1>1, <2>1
      <4> QED  BY <2>1, <2>2, <4>1
    <3> QED  BY <1>1, <3>1, <3>2 DEF Promised!EvalArg
  <2> QED  BY <2>5, <2>6 DEF Promise, Promised!Next
<1>3. CASE left # 0
  <2>1. arglist' = arglist /\ left' = IF left > 0 THEN left - 1 ELSE left
    BY <1>3 DEF Argument
  <2>2. left \in {-1, 1} /\ arglist[turn] = "value"
    BY <1>1, <1>3 DEF TurnKept
  <2>3. TurnKept'
    BY <1>1, <2>1, <2>2 DEF TurnKept
  <2>4. CallInv'
    BY <1>1, <2>1, <2>3 DEF CallInv, Looking
  <2>5. UNCHANGED Promised!vars
    BY <1>1, <2>1 DEF InCall, Promised!vars
  <2> QED  BY <2>4, <2>5 DEF Promise
<1> QED  BY <1>2, <1>3

\* The loop is over: all arguments are values.
LEMMA EnterBodyOK ==
  ASSUME CallInv, EnterBody
  PROVE  CallInv' /\ Promise
<1>1. /\ stage = "args" /\ stage' = "body" /\ turn > Len(arglist) /\ UNCHANGED <<todo, sel, arglist>>
      /\ TurnKept
  BY DEF EnterBody, callee, given, CallInv
<1>2. \A i \in 1 .. Len(arglist) : arglist[i] = "value"
  BY <1>1 DEF TurnKept, CallInv
<1>3. CallInv'
  BY <1>1 DEF CallInv, Looking
<1>4. Promised!Body
  BY <1>1, <1>2 DEF InCall, Promised!Body
<1> QED  BY <1>3, <1>4 DEF Promise, Promised!Next

\* What happens after the body is no part of the promise.
LEMMA AfterOK ==
  ASSUME CallInv, BodyEnds \/ Unwind
  PROVE  CallInv' /\ Promise
<1>1. stage \in {"body", "return"} /\ stage' = "return" /\ UNCHANGED <<todo, sel, arglist>>
  BY DEF BodyEnds, Unwind, callee, given
<1>2. CallInv'
  BY <1>1 DEF CallInv, Looking
<1>3. UNCHANGED Promised!vars
  BY <1>1 DEF InCall, Promised!vars
<1> QED  BY <1>2, <1>3 DEF Promise

\* Every step.
LEMMA CallStepOK ==
  ASSUME Counted, CallInv, CallNext
  PROVE  CallInv' /\ Promise
<1>1. CASE CallStart
  BY <1>1, ByValueOK, ByNameOK, ValuesOK DEF CallStart
<1>2. CASE CallStep
  <2>1. ASSUME Returned \/ Raise  PROVE EndCall
    BY <2>1 DEF Returned, Raise
  <2> QED  BY <1>2, <2>1, EndOK, ReceiverOK, LookOK, ApplyOK, RunMethodOK, RunClosureOK, RunNewOK,
              RunFunctionOK, RunSpecialOK, ArgumentOK, EnterBodyOK, AfterOK DEF CallStep
<1> QED  BY <1>1, <1>2 DEF CallNext

LEMMA CallInitOK ==
  ASSUME CallInit
  PROVE  CallInv /\ Promised!Init
<1>1. CallInv
  BY IdleArgs, CallAssumption DEF CallInit, CallInv, Looking
<1>2. Promised!Init
  BY DEF CallInit, InCall, Promised!Init
<1> QED  BY <1>1, <1>2

\* The arguments are at every moment as the selector and the counts say.
THEOREM CallInvariance == Counted => (CallSpec => []CallInv)
<1> SUFFICES ASSUME Counted  PROVE CallSpec => []CallInv
  OBVIOUS
<1>1. CallInit => CallInv
  BY CallInitOK
<1>2. CallInv /\ [CallNext]_cvars => CallInv'
  <2>1. ASSUME CallInv, CallNext  PROVE CallInv'
    BY <2>1, CallStepOK
  <2>2. ASSUME CallInv, UNCHANGED cvars  PROVE CallInv'
    BY <2>2 DEF cvars, callee, given, CallInv, Looking, AsSelected, CountKept, TurnKept
  <2> QED  BY <2>1, <2>2
<1> QED  BY <1>1, <1>2, PTL DEF CallSpec

\* However many methods, closures and class methods are around a function, each
\* argument of a call is evaluated once and in order, or none is.
THEOREM PromiseKept == Counted => (CallSpec => CallsKeepPromise)
<1> SUFFICES ASSUME Counted  PROVE CallSpec => CallsKeepPromise
  OBVIOUS
<1>1. CallInit => Promised!Init
  BY CallInitOK
<1>2. CallInv /\ [CallNext]_cvars => [Promised!Next]_(Promised!vars)
  <2>1. ASSUME CallInv, CallNext  PROVE [Promised!Next]_(Promised!vars)
    BY <2>1, CallStepOK DEF Promise
  <2>2. ASSUME UNCHANGED cvars  PROVE UNCHANGED Promised!vars
    BY <2>2 DEF cvars, callee, given, InCall, Promised!vars
  <2> QED  BY <2>1, <2>2
<1>3. CallSpec => []CallInv
  BY CallInvariance
<1> QED  BY <1>1, <1>2, <1>3, PTL DEF CallSpec, CallsKeepPromise, Promised!PromiseSpec

\* No argument is ever evaluated a second time.
THEOREM ArgumentsOnce == Counted => (CallSpec => []EvaluatedOnce)
<1> SUFFICES ASSUME Counted  PROVE CallSpec => []EvaluatedOnce
  OBVIOUS
<1>1. CallInv => EvaluatedOnce
  BY DEF CallInv, EvaluatedOnce
<1> QED  BY <1>1, CallInvariance, PTL

-----------------------------------------------------------------------------
(* The frames of a call, and the look-up of its method: whatever callables *)
(* there are.                                                              *)

Closures == Seq({"closure"})

\* A call is of a callable, however it is unwrapped.
CallableInv == stage # "idle" => IsCallable(todo)

LEMMA CallableKept ==
  ASSUME CallableInv, CallNext
  PROVE  CallableInv'
<1>1. ASSUME CallStart  PROVE CallableInv'
  <2>1. \E f \in Callables \cup Methods \cup Funcalled : todo' = f
    BY <1>1 DEF CallStart, CallByValue, CallByName, CallValues, CallMethod
  <2> QED  BY <2>1, CallAssumption DEF CallableInv, IsCallable, Part
<1>2. ASSUME EndCall  PROVE CallableInv'
  BY <1>2 DEF EndCall, CallableInv
<1>3. ASSUME ~EndCall, Look  PROVE CallableInv'
  <2>1. stage = "find" /\ todo' \in {todo, <<"method">> \o todo}
    BY <1>3 DEF Look, callee
  <2> QED  BY <2>1, WrapOne DEF CallableInv, Wrappers
<1>4. ASSUME RunMethod \/ RunClosure \/ RunNew  PROVE CallableInv'
  <2>1. /\ stage = "run" /\ Head(todo) \in Wrappers
        /\ todo' \in {todo, Tail(todo), <<"method">> \o Tail(todo)}
    BY <1>4 DEF RunMethod, RunClosure, RunNew, callee, Wrappers
  <2>2. IsCallable(todo) /\ IsCallable(Tail(todo))
    BY <2>1, UnwrapOne DEF CallableInv
  <2>3. IsCallable(<<"method">> \o Tail(todo))
    BY <2>2, WrapOne DEF Wrappers
  <2> QED  BY <2>1, <2>2, <2>3 DEF CallableInv
<1>5. ASSUME ~EndCall,
             Receiver \/ Apply \/ RunFunction \/ RunSpecial \/ Argument \/ EnterBody \/ BodyEnds \/ Unwind
      PROVE  CallableInv'
  <2>1. stage # "idle" /\ todo' = todo
    BY <1>5 DEF Receiver, Apply, RunFunction, RunSpecial, Argument, EnterBody, BodyEnds, Unwind, callee
  <2> QED  BY <2>1 DEF CallableInv
<1> QED  BY <1>1, <1>2, <1>3, <1>4, <1>5 DEF CallNext, CallStep, Returned, Raise

\* Only a body has locals; frames are pushed where a saved state will remove them,
\* and the first such state is that of the caller.
FramesInv ==
    /\ stage \in {"idle", "receiver", "find", "apply", "run", "args"} => envs \in Closures
    /\ stage \in {"idle", "receiver", "find", "apply", "run"} => classes \in Seq(Part)
    /\ stage = "body" => \E e \in Closures : envs = e \o Locals
    /\ argenvs \subseteq Closures
    /\ saves \in Seq([envs : Nat, classes : Nat])
    /\ stage \in {"idle", "receiver", "find"} => saves = << >>
    /\ stage \in {"run", "args", "body"} => saves # << >>
    /\ IF saves = << >> THEN envs = << >> /\ classes = << >>
       ELSE saves[1] = [envs |-> 0, classes |-> 0]

LEMMA PushFrame ==
  ASSUME NEW S, NEW s \in Seq(S), NEW x \in S
  PROVE  /\ Append(s, x) \in Seq(S) /\ Append(s, x) # << >>
         /\ s # << >> => Append(s, x)[1] = s[1]
         /\ s = << >> => Append(s, x)[1] = x
<1>1. Append(s, x) \in Seq(S) /\ Len(Append(s, x)) = Len(s) + 1 /\ Len(s) \in Nat
  OBVIOUS
<1>2. Append(s, x) # << >>
  OBVIOUS
<1>3. s # << >> => Len(s) > 0
  OBVIOUS
<1> QED  BY <1>1, <1>2, <1>3

LEMMA CutFrames ==
  ASSUME NEW S, NEW s \in Seq(S), NEW n \in 0 .. Len(s)
  PROVE  /\ SubSeq(s, 1, n) \in Seq(S) /\ Len(SubSeq(s, 1, n)) = n
         /\ \A i \in 1 .. n : SubSeq(s, 1, n)[i] = s[i]
OBVIOUS

LEMMA EndFrames ==
  ASSUME EndCall
  PROVE  FramesInv'
BY DEF EndCall, FramesInv, Closures

LEMMA StartFrames ==
  ASSUME FramesInv, stage \in {"idle", "receiver", "find", "apply"},
         stage' \in {"receiver", "find", "apply"},
         stage = "apply" => stage' = "apply", UNCHANGED <<argenvs, pushed>>
  PROVE  FramesInv'
<1>1. UNCHANGED <<argenvs, envs, classes, saves>>
  BY DEF pushed
<1> QED  BY <1>1 DEF FramesInv

LEMMA StepFrames ==
  ASSUME CallableInv, FramesInv, CallStep
  PROVE  FramesInv'
<1>1. CASE EndCall
  BY <1>1, EndFrames
<1>2. ASSUME ~EndCall, Receiver \/ Look  PROVE FramesInv'
  <2>1. /\ stage \in {"receiver", "find"} /\ stage' \in {"find", "apply"}
        /\ UNCHANGED <<argenvs, pushed>>
    BY <1>2 DEF Receiver, Look, given
  <2> QED  BY <2>1, StartFrames
<1>3. ASSUME ~EndCall, Apply  PROVE FramesInv'
  <2>1. /\ stage = "apply" /\ stage' = "run" /\ UNCHANGED <<envs, argenvs>>
        /\ saves' = Append(saves, [envs |-> Len(envs), classes |-> Len(classes)])
        /\ classes' = Append(classes, Head(todo))
    BY <1>3 DEF Apply, given
  <2>2. /\ envs \in Closures /\ classes \in Seq(Part) /\ argenvs \subseteq Closures
        /\ saves \in Seq([envs : Nat, classes : Nat])
        /\ saves = << >> => envs = << >> /\ classes = << >>
        /\ saves # << >> => saves[1] = [envs |-> 0, classes |-> 0]
    BY <2>1 DEF FramesInv
  <2>3. Head(todo) \in Part
    BY <2>1 DEF CallableInv, IsCallable
  <2>4. [envs |-> Len(envs), classes |-> Len(classes)] \in [envs : Nat, classes : Nat]
    BY <2>2 DEF Closures
  <2>5. saves = << >> => Len(envs) = 0 /\ Len(classes) = 0
    BY <2>2
  <2>6. /\ saves' \in Seq([envs : Nat, classes : Nat]) /\ saves' # << >>
        /\ saves'[1] = [envs |-> 0, classes |-> 0]
    <3> DEFINE new == [envs |-> Len(envs), classes |-> Len(classes)]
               Saves == [envs : Nat, classes : Nat]
    <3>1. new \in Saves /\ saves \in Seq(Saves) /\ saves' = Append(saves, new)
      BY <2>1, <2>2, <2>4
    <3>2. saves = << >> => new = [envs |-> 0, classes |-> 0]
      BY <2>5
    <3>3. /\ Append(saves, new) \in Seq(Saves) /\ Append(saves, new) # << >>
          /\ saves # << >> => Append(saves, new)[1] = saves[1]
          /\ saves = << >> => Append(saves, new)[1] = new
      <4> HIDE DEF new, Saves
      <4> QED  BY <3>1, PushFrame
    <3> QED  BY <3>1, <3>2, <3>3, <2>2
  <2>7. classes' \in Seq(Part)
    BY <2>1, <2>2, <2>3, PushFrame
  <2> QED  BY <2>1, <2>2, <2>6, <2>7 DEF FramesInv
<1>4. ASSUME RunMethod \/ RunClosure \/ RunNew  PROVE FramesInv'
  <2>1. /\ stage = "run" /\ stage' \in {"apply", "return"} /\ UNCHANGED <<argenvs, saves>>
        /\ classes' \in {classes, Append(classes, "method")}
        /\ envs' \in {envs, Append(envs, "closure")}
    BY <1>4 DEF RunMethod, RunClosure, RunNew, given, pushed
  <2>2. /\ envs \in Closures /\ classes \in Seq(Part) /\ argenvs \subseteq Closures
        /\ saves \in Seq([envs : Nat, classes : Nat]) /\ saves # << >>
        /\ saves[1] = [envs |-> 0, classes |-> 0]
    BY <2>1 DEF FramesInv
  <2>3. Append(envs, "closure") \in Closures
    BY <2>2, PushFrame DEF Closures
  <2>4. Append(classes, "method") \in Seq(Part)
    BY <2>2, PushFrame DEF Part, Wrappers
  <2> QED  BY <2>1, <2>2, <2>3, <2>4 DEF FramesInv
<1>5. ASSUME ~EndCall, RunFunction \/ Argument  PROVE FramesInv'
  <2>1. /\ stage \in {"run", "args"} /\ stage' = "args" /\ UNCHANGED <<envs, classes, saves>>
        /\ argenvs' \in {argenvs, argenvs \cup {envs}}
    BY <1>5 DEF RunFunction, Argument, pushed
  <2> QED  BY <2>1 DEF FramesInv
<1>6. ASSUME RunSpecial \/ EnterBody  PROVE FramesInv'
  <2>1. /\ stage \in {"run", "args"} /\ stage' = "body" /\ envs' = envs \o Locals
        /\ UNCHANGED <<todo, argenvs, classes, saves>>
    BY <1>6 DEF RunSpecial, EnterBody, callee, given
  <2>2. Locals' = Locals
    BY <2>1 DEF Locals
  <2> QED  BY <2>1, <2>2 DEF FramesInv
<1>7. ASSUME BodyEnds  PROVE FramesInv'
  <2>1. /\ stage = "body" /\ stage' = "return"
        /\ envs' = SubSeq(envs, 1, Len(envs) - Len(Locals))
        /\ argenvs' \in {argenvs, argenvs \cup {envs'}}
        /\ UNCHANGED <<classes, saves>>
    BY <1>7 DEF BodyEnds
  <2>2. envs' \in Closures
    <3>1. PICK e \in Closures : envs = e \o Locals
      BY <2>1 DEF FramesInv
    <3>2. /\ envs \in Seq({"closure", "locals"}) /\ Len(Locals) \in Nat
          /\ Len(envs) = Len(e) + Len(Locals) /\ \A i \in 1 .. Len(e) : envs[i] = e[i]
      <4>1. CASE Locals = << >>
        BY <3>1, <4>1 DEF Closures
      <4>2. CASE Locals = <<"locals">>
        BY <3>1, <4>2 DEF Closures
      <4> QED  BY <4>1, <4>2 DEF Locals
    <3>3. /\ Len(e) \in 0 .. Len(envs) /\ envs' = SubSeq(envs, 1, Len(e))
          /\ e \in Seq({"closure", "locals"})
      BY <2>1, <3>2 DEF Closures
    <3>4. envs' = e
      BY <3>2, <3>3, CutFrames, SeqEqual
    <3> QED  BY <3>4
  <2> QED  BY <2>1, <2>2 DEF FramesInv
<1>8. ASSUME Unwind  PROVE FramesInv'
  <2>1. /\ stage = "return" /\ stage' = "return" /\ argenvs' = argenvs /\ saves # << >>
        /\ envs' = SubSeq(envs, 1, Last(saves).envs)
        /\ classes' = SubSeq(classes, 1, Last(saves).classes)
        /\ saves' = SubSeq(saves, 1, Len(saves) - 1)
    BY <1>8 DEF Unwind, given, Front
  <2>2. /\ saves \in Seq([envs : Nat, classes : Nat]) /\ Len(saves) \in Nat /\ Len(saves) > 0
        /\ saves[1] = [envs |-> 0, classes |-> 0] /\ argenvs \subseteq Closures
    BY <2>1 DEF FramesInv
  <2>3. /\ saves' \in Seq([envs : Nat, classes : Nat]) /\ Len(saves') = Len(saves) - 1
        /\ Len(saves) > 1 => saves'[1] = saves[1]
    <3> DEFINE n == Len(saves)
               S == [envs : Nat, classes : Nat]
    <3>1. n \in Nat /\ n > 0 /\ saves \in Seq(S) /\ Len(saves) = n
      BY <2>2
    <3>2. saves' = SubSeq(saves, 1, n - 1)
      BY <2>1
    <3> HIDE DEF n, S
    <3>3. n - 1 \in 0 .. n /\ (n > 1 => 1 \in 1 .. n - 1)
      BY <3>1
    <3>4. /\ saves' \in Seq(S) /\ Len(saves') = n - 1
          /\ \A i \in 1 .. n - 1 : saves'[i] = saves[i]
      BY <3>1, <3>2, <3>3, CutFrames
    <3> QED  BY <3>3, <3>4 DEF n, S
  <2>4. CASE Len(saves) = 1
    <3>1. saves' = << >>
      BY <2>3, <2>2, <2>1, <2>4
    <3>2. Last(saves) = [envs |-> 0, classes |-> 0]
      BY <2>2, <2>4 DEF Last
    <3>3. envs' = << >> /\ classes' = << >>
      BY <2>1, <3>2
    <3>4. saves' \in Seq([envs : Nat, classes : Nat])
      BY <2>3
    <3> QED  BY <2>1, <2>2, <3>1, <3>3, <3>4 DEF FramesInv
  <2>5. CASE Len(saves) > 1
    <3>1. saves' # << >>
      <4>1. Len(saves') > 0
        BY <2>2, <2>3, <2>5
      <4> QED  BY <4>1
    <3> QED  BY <2>1, <2>2, <2>3, <2>5, <3>1 DEF FramesInv
  <2>6. Len(saves) = 1 \/ Len(saves) > 1
    <3> DEFINE n == Len(saves)
    <3>1. n \in Nat /\ n > 0
      BY <2>2
    <3> HIDE DEF n
    <3>2. n = 1 \/ n > 1
      BY <3>1
    <3> QED  BY <3>2 DEF n
  <2> QED  BY <2>4, <2>5, <2>6
<1> QED  BY <1>1, <1>2, <1>3, <1>4, <1>5, <1>6, <1>7, <1>8 DEF CallStep, Returned, Raise

LEMMA FramesKept ==
  ASSUME CallableInv, FramesInv, [CallNext]_cvars
  PROVE  FramesInv'
<1>1. ASSUME CallStart  PROVE FramesInv'
  <2>1. /\ stage = "idle" /\ stage' \in {"receiver", "find", "apply"}
        /\ UNCHANGED <<argenvs, pushed>>
    BY <1>1 DEF CallStart, CallByValue, CallByName, CallValues, CallMethod
  <2> QED  BY <2>1, StartFrames
<1>2. ASSUME UNCHANGED cvars  PROVE FramesInv'
  BY <1>2 DEF cvars, callee, given, pushed, FramesInv, Locals
<1> QED  BY <1>1, <1>2, StepFrames DEF CallNext

\* Arguments and expansions are evaluated where the locals of the function are out
\* of sight, and a call leaves no frame behind.
THEOREM FramesCorrect == CallSpec => []ScopesKept
<1>1. CallInit => CallableInv /\ FramesInv
  BY DEF CallInit, CallableInv, FramesInv, Closures
<1>2. CallableInv /\ FramesInv /\ [CallNext]_cvars => CallableInv' /\ FramesInv'
  <2>1. ASSUME CallableInv, UNCHANGED cvars  PROVE CallableInv'
    BY <2>1 DEF cvars, callee, CallableInv
  <2> QED  BY <2>1, CallableKept, FramesKept
<1>3. CallableInv /\ FramesInv => ScopesKept
  <2> SUFFICES ASSUME FramesInv  PROVE ScopesKept
    OBVIOUS
  <2>1. ASSUME NEW e \in argenvs  PROVE "locals" \notin ToSet(e)
    <3>1. e \in Closures
      BY DEF FramesInv
    <3> QED  BY <3>1 DEF Closures, ToSet
  <2>2. stage = "return" /\ saves = << >> => envs = << >> /\ classes = << >>
    BY DEF FramesInv
  <2> QED  BY <2>1, <2>2 DEF ScopesKept
<1> QED  BY <1>1, <1>2, <1>3, PTL DEF CallSpec

\* What has been looked at so far does not define the name.
LookupInv ==
    /\ defs \subseteq Tables /\ table \in Tables \cup {NoTable}
    /\ table \in Tables =>
        \A t \in defs :
            /\ t[1] = table[1] => t[2] >= table[2]
            /\ ~ (t[1] = "class" /\ table[1] = "inst")

LEMMA LookupStarts ==
  ASSUME StartLookup
  PROVE  LookupInv'
<1>1. PICK kind \in {"class", "inst"} :
        /\ table' = <<kind, 1>>
        /\ defs' \subseteq (IF kind = "class" THEN Tables ELSE {"inst"} \X (1 .. NClasses))
  BY DEF StartLookup
<1>2. 1 \in 1 .. NClasses
  BY CallAssumption
<1>3. table' \in Tables /\ defs' \subseteq Tables
  BY <1>1, <1>2 DEF Tables
<1>4. ASSUME NEW t \in defs'
      PROVE  /\ t[2] >= 1
             /\ ~ (t[1] = "class" /\ kind = "inst")
  <2>1. t[2] \in 1 .. NClasses /\ NClasses \in Nat
    BY <1>3, <1>4, CallAssumption DEF Tables
  <2>2. kind = "inst" => t[1] = "inst"
    BY <1>1, <1>4
  <2> QED  BY <2>1, <2>2
<1>5. table'[1] = kind /\ table'[2] = 1
  BY <1>1
<1> QED  BY <1>3, <1>4, <1>5 DEF LookupInv

LEMMA LookupGoesOn ==
  ASSUME LookupInv, table \in Tables, table \notin defs, table' = After(table), defs' = defs
  PROVE  LookupInv'
<1>1. /\ table[1] \in {"class", "inst"} /\ table[2] \in 1 .. NClasses /\ NClasses \in Nat
      /\ table = <<table[1], table[2]>>
  BY CallAssumption DEF Tables
<1>2. ASSUME NEW t \in defs
      PROVE  /\ t[1] \in {"class", "inst"} /\ t[2] \in 1 .. NClasses
             /\ t[1] = table[1] => t[2] >= table[2] /\ t[2] # table[2]
             /\ ~ (t[1] = "class" /\ table[1] = "inst")
  <2>1. t \in Tables
    BY <1>2 DEF LookupInv
  <2>2. t[1] \in {"class", "inst"} /\ t[2] \in 1 .. NClasses /\ t = <<t[1], t[2]>>
    BY <2>1 DEF Tables
  <2>3. t # table
    BY <1>2
  <2> QED  BY <1>1, <1>2, <2>2, <2>3 DEF LookupInv
<1>3. CASE table[2] < NClasses
  <2>1. table' = <<table[1], table[2] + 1>>
    BY <1>3 DEF After
  <2>2. table' \in Tables /\ table'[1] = table[1] /\ table'[2] = table[2] + 1
    BY <1>1, <1>3, <2>1 DEF Tables
  <2> QED  BY <1>1, <1>2, <2>2 DEF LookupInv
<1>4. CASE ~(table[2] < NClasses) /\ table[1] = "class"
  <2>1. table' = <<"inst", 1>> /\ table'[1] = "inst" /\ table'[2] = 1
    BY <1>4 DEF After
  <2>2. 1 \in 1 .. NClasses
    BY <1>1
  <2>3. table' \in Tables
    BY <2>1, <2>2 DEF Tables
  <2>4. ASSUME NEW t \in defs  PROVE t[1] # "class" /\ t[2] >= 1
    BY <1>1, <1>2, <1>4
  <2> QED  BY <2>1, <2>3, <2>4 DEF LookupInv
<1>5. CASE ~(table[2] < NClasses) /\ table[1] # "class"
  <2>1. table' = NoTable
    BY <1>5 DEF After
  <2>2. NoTable \notin Tables
    BY DEF NoTable, Tables
  <2> QED  BY <2>1, <2>2 DEF LookupInv
<1> QED  BY <1>3, <1>4, <1>5

LEMMA LookupKept ==
  ASSUME LookupInv, [CallNext]_cvars
  PROVE  LookupInv'
<1>1. ASSUME EndCall  PROVE LookupInv'
  <2>1. NoTable \notin Tables
    BY DEF NoTable, Tables
  <2> QED  BY <1>1, <2>1 DEF EndCall, LookupInv
<1>2. ASSUME UNCHANGED lookup  PROVE LookupInv'
  BY <1>2 DEF lookup, LookupInv
<1>3. ASSUME CallStart  PROVE LookupInv'
  <2>1. StartLookup \/ UNCHANGED lookup
    BY <1>3 DEF CallStart, CallByValue, CallByName, CallValues, CallMethod
  <2> QED  BY <2>1, <1>2, LookupStarts
<1>4. ASSUME Look  PROVE LookupInv'
  <2>1. \/ EndCall \/ UNCHANGED lookup
        \/ table # NoTable /\ table \notin defs /\ table' = After(table) /\ defs' = defs
    BY <1>4 DEF Look
  <2> QED  BY <2>1, <1>1, <1>2, LookupGoesOn DEF LookupInv
<1>5. ASSUME ~EndCall, CallStep, ~Look  PROVE LookupInv'
  <2>1. StartLookup \/ UNCHANGED lookup
    BY <1>5 DEF CallStep, Receiver, Apply, RunMethod, RunClosure, RunNew, RunFunction, RunSpecial,
                Argument, EnterBody, BodyEnds, Unwind, Returned, Raise
  <2> QED  BY <2>1, <1>2, LookupStarts
<1>6. ASSUME UNCHANGED cvars  PROVE LookupInv'
  BY <1>6, <1>2 DEF cvars
<1> QED  BY <1>1, <1>3, <1>4, <1>5, <1>6 DEF CallNext

\* A class may have any number of parents: the nearest method is called, class
\* methods before instance methods.
THEOREM NearestFound == CallSpec => []NearestMethod
<1>1. CallInit => LookupInv
  <2>1. NoTable \notin Tables
    BY DEF NoTable, Tables
  <2> QED  BY <2>1 DEF CallInit, LookupInv
<1>2. LookupInv /\ [CallNext]_cvars => LookupInv'
  BY LookupKept
<1>3. LookupInv => NearestMethod
  BY DEF LookupInv, NearestMethod
<1> QED  BY <1>1, <1>2, <1>3, PTL DEF CallSpec

-----------------------------------------------------------------------------
(* The type of the state, whatever callables there are.                    *)

ArgStates == {"form", "value", "again"}

\* A call starts with no argument taken, and takes each of them at most once.
ArgsInv ==
    /\ stage \in {"idle", "receiver", "find", "apply", "run", "args", "body", "return"}
    /\ sel \in {"none", "call", "call1", "calln"} /\ passed \in -1 .. 1 /\ left \in -1 .. 1
    /\ arglist \in Seq(ArgStates) /\ Len(arglist) <= MaxArgs
    /\ turn \in 0 .. Len(arglist) + 1
    /\ IF stage = "idle" THEN todo = << >> /\ turn = 0 ELSE sel # "none"

\* The frames that are to stay when the locals are gone.
Base == IF stage = "body" THEN Len(envs) - Len(Locals) ELSE Len(envs)

\* The states that will be restored are stacked in the order of the frames.
StackInv ==
    /\ stage = "return" => envs \in Closures
    /\ \A i \in 1 .. Len(saves) : saves[i].envs <= Base
    /\ \A i, j \in 1 .. Len(saves) : i <= j => saves[i].envs <= saves[j].envs

LEMMA ChangedSeq ==
  ASSUME NEW S, NEW s \in Seq(S), NEW i, NEW x \in S
  PROVE  [s EXCEPT ![i] = x] \in Seq(S) /\ Len([s EXCEPT ![i] = x]) = Len(s)
<1>1. CASE i \in 1 .. Len(s)
  BY <1>1, ExceptSeq
<1>2. CASE i \notin 1 .. Len(s)
  <2>1. s = [j \in 1 .. Len(s) |-> s[j]]
    OBVIOUS
  <2>2. [s EXCEPT ![i] = x] = [j \in 1 .. Len(s) |-> IF j = i THEN x ELSE s[j]]
    BY <2>1
  <2>3. [j \in 1 .. Len(s) |-> IF j = i THEN x ELSE s[j]] = [j \in 1 .. Len(s) |-> s[j]]
    BY <1>2
  <2>4. [s EXCEPT ![i] = x] = s
    BY <2>1, <2>2, <2>3
  <2> QED  BY <2>4
<1> QED  BY <1>1, <1>2

LEMMA StartArgs ==
  ASSUME ArgsInv, CallStart
  PROVE  ArgsInv'
<1>1. PICK n \in 0 .. MaxArgs, x \in {"form", "value"} :
        /\ arglist' = [i \in 1 .. n |-> x] /\ stage = "idle"
        /\ stage' \in {"receiver", "find", "apply"} /\ UNCHANGED <<turn, left>>
        /\ sel' \in {"call", "call1", "calln"} /\ passed' \in {-1, 0, 1}
  BY DEF CallStart, CallByValue, CallByName, CallValues, CallMethod
<1>2. n \in Nat /\ n <= MaxArgs
  BY CallAssumption
<1>3. arglist' \in Seq(ArgStates) /\ Len(arglist') = n
  BY <1>1, <1>2 DEF ArgStates
<1>4. passed' \in -1 .. 1
  BY <1>1
<1>5. turn' = 0 /\ left' \in -1 .. 1
  BY <1>1 DEF ArgsInv
<1> QED  BY <1>1, <1>2, <1>3, <1>4, <1>5 DEF ArgsInv

LEMMA StepArgs ==
  ASSUME ArgsInv, CallStep
  PROVE  ArgsInv'
<1>0. /\ arglist \in Seq(ArgStates) /\ Len(arglist) <= MaxArgs /\ Len(arglist) \in Nat
      /\ MaxArgs \in Nat /\ turn \in 0 .. Len(arglist) + 1
      /\ sel \in {"none", "call", "call1", "calln"} /\ passed \in -1 .. 1 /\ left \in -1 .. 1
  BY CallAssumption DEF ArgsInv
<1>1. CASE EndCall
  <2>1. << >> \in Seq(ArgStates) /\ Len(<< >>) = 0
    BY EmptySeq
  <2> QED  BY <1>1, <2>1, <1>0 DEF EndCall, ArgsInv
<1>2. CASE Receiver
  <2>1. arglist' \in Seq(ArgStates) /\ Len(arglist') = Len(arglist)
    <3>1. "value" \in ArgStates  BY DEF ArgStates
    <3>2. arglist' = [arglist EXCEPT ![1] = "value"]
      BY <1>2 DEF Receiver
    <3> QED  BY <1>0, <3>1, <3>2, ChangedSeq
  <2>2. stage = "receiver" /\ stage' = "find" /\ UNCHANGED <<todo, sel, passed, turn, left>>
    BY <1>2 DEF Receiver, callee
  <2> QED  BY <1>0, <2>1, <2>2 DEF ArgsInv
<1>3. ASSUME stage # "idle", stage' \in {"find", "apply", "run", "args", "body", "return"},
             sel' \in {sel, "call1"}, passed' \in -1 .. 1, left' \in -1 .. 1,
             turn' \in {turn, 1}, UNCHANGED arglist
      PROVE  ArgsInv'
  BY <1>0, <1>3 DEF ArgsInv
<1>4. ASSUME ~EndCall, Look \/ Apply \/ EnterBody \/ RunClosure \/ RunNew \/ RunSpecial
                        \/ BodyEnds \/ Unwind
      PROVE  ArgsInv'
  <2>1. /\ UNCHANGED <<arglist, turn, left>> /\ sel' \in {sel, "call1"}
        /\ passed' \in {passed, 0, 1} /\ stage # "idle"
        /\ stage' \in {"find", "apply", "run", "body", "return"}
    BY <1>4 DEF Look, Apply, EnterBody, RunClosure, RunNew, RunSpecial, BodyEnds, Unwind,
                callee, given
  <2>2. passed' \in -1 .. 1
    BY <1>0, <2>1
  <2> QED  BY <1>0, <1>3, <2>1, <2>2
<1>6. ASSUME stage # "idle"  PROVE SuppressedBy[sel] \in -1 .. 1
  <2>1. sel \in {"call", "call1", "calln"}
    BY <1>0, <1>6 DEF ArgsInv
  <2> QED  BY <2>1 DEF SuppressedBy
<1>7. CASE RunMethod
  <2>1. /\ UNCHANGED <<arglist, turn, left, sel>> /\ passed' = SuppressedBy[sel]
        /\ stage = "run" /\ stage' = "apply"
    BY <1>7 DEF RunMethod, given
  <2> QED  BY <1>0, <1>3, <1>6, <2>1
<1>8. ASSUME ~EndCall, RunFunction  PROVE ArgsInv'
  <2>1. /\ stage' = "args" /\ turn' = 1 /\ left' = Suppressed
        /\ UNCHANGED <<sel, passed, arglist>> /\ stage = "run"
    BY <1>8 DEF RunFunction, callee
  <2>2. Suppressed \in -1 .. 1
    BY <1>0, <1>6, <2>1 DEF Suppressed
  <2> QED  BY <1>0, <1>3, <2>1, <2>2
<1>5. CASE Argument
  <2>1. /\ stage = "args" /\ turn <= Len(arglist) /\ turn' = turn + 1
        /\ UNCHANGED <<stage, sel, passed>> /\ left' \in {left, left - 1}
        /\ left' = left - 1 => left > 0
        /\ \E x \in ArgStates : arglist' \in {arglist, [arglist EXCEPT ![turn] = x]}
    BY <1>0, <1>5 DEF Argument, callee, ArgStates
  <2>2. arglist' \in Seq(ArgStates) /\ Len(arglist') = Len(arglist)
    BY <1>0, <2>1
  <2> QED  BY <1>0, <2>1, <2>2 DEF ArgsInv
<1> QED  BY <1>1, <1>2, <1>4, <1>5, <1>7, <1>8 DEF CallStep, Returned, Raise

LEMMA ArgsKept ==
  ASSUME ArgsInv, [CallNext]_cvars
  PROVE  ArgsInv'
<1>1. ASSUME UNCHANGED cvars  PROVE ArgsInv'
  BY <1>1 DEF cvars, callee, given, ArgsInv
<1> QED  BY <1>1, StartArgs, StepArgs DEF CallNext

\* What is restored was there when it was saved, and has not been cut since.
LEMMA StackKept ==
  ASSUME CallableInv, FramesInv, StackInv, CallStep
  PROVE  StackInv'
<1>0. /\ saves \in Seq([envs : Nat, classes : Nat]) /\ Len(saves) \in Nat
      /\ \A i \in 1 .. Len(saves) : saves[i].envs \in Nat
      /\ Len(Locals) \in {0, 1}
  <2>1. saves \in Seq([envs : Nat, classes : Nat])
    BY DEF FramesInv
  <2>2. ASSUME NEW i \in 1 .. Len(saves)  PROVE saves[i].envs \in Nat
    <3>1. saves[i] \in [envs : Nat, classes : Nat]
      BY <2>1, ElementOfSeq
    <3> QED  BY <3>1
  <2>3. Len(<< >>) = 0 /\ Len(<<"locals">>) = 1
    OBVIOUS
  <2>4. Len(Locals) \in {0, 1}
    BY <2>3 DEF Locals
  <2> QED  BY <2>1, <2>2, <2>4
<1>1. CASE EndCall
  BY <1>1 DEF EndCall, StackInv
<1>2. ASSUME ~EndCall, Receiver \/ Look  PROVE StackInv'
  <2>1. stage \in {"receiver", "find"} /\ saves' = saves /\ stage' # "return"
    BY <1>2 DEF Receiver, Look, pushed
  <2>2. saves = << >>
    BY <2>1 DEF FramesInv
  <2> QED  BY <2>1, <2>2 DEF StackInv
<1>3. ASSUME ~EndCall, Apply  PROVE StackInv'
  <2> DEFINE n == Len(saves)
             new == [envs |-> Len(envs), classes |-> Len(classes)]
  <2>1. /\ stage = "apply" /\ stage' = "run" /\ envs' = envs /\ saves' = Append(saves, new)
    BY <1>3 DEF Apply
  <2>2. envs \in Closures /\ Len(envs) \in Nat /\ Base = Len(envs) /\ Base' = Len(envs)
    BY <2>1 DEF FramesInv, Closures, Base
  <2>3. /\ Len(saves') = n + 1 /\ saves'[n + 1] = new /\ \A i \in 1 .. n : saves'[i] = saves[i]
    BY <1>0, <2>1
  <2>4. new.envs = Len(envs)
    OBVIOUS
  <2>5. \A i \in 1 .. n + 1 : i \in 1 .. n \/ i = n + 1
    BY <1>0
  <2> HIDE DEF n, new
  <2>6. n \in Nat  BY <1>0 DEF n
  <2>7. ASSUME NEW i \in 1 .. n + 1  PROVE saves'[i].envs <= Len(envs)
    BY <1>0, <2>2, <2>3, <2>4, <2>5 DEF StackInv, n
  <2>8. ASSUME NEW i \in 1 .. n + 1, NEW j \in 1 .. n + 1, i <= j
        PROVE  saves'[i].envs <= saves'[j].envs
    <3>1. CASE j = n + 1  BY <3>1, <2>3, <2>4, <2>7
    <3>2. CASE j # n + 1
      <4>1. i \in 1 .. n /\ j \in 1 .. n  BY <3>2, <2>6, <2>8
      <4> QED  BY <4>1, <2>3, <2>8 DEF StackInv, n
    <3> QED  BY <3>1, <3>2
  <2> QED  BY <2>1, <2>2, <2>3, <2>7, <2>8 DEF StackInv
<1>4. ASSUME RunMethod \/ RunClosure \/ RunNew  PROVE StackInv'
  <2>1. /\ stage = "run" /\ stage' \in {"apply", "return"} /\ saves' = saves
        /\ envs' \in {envs, Append(envs, "closure")}
    BY <1>4 DEF RunMethod, RunClosure, RunNew, pushed
  <2>2. envs \in Closures /\ Len(envs) \in Nat
    BY <2>1 DEF FramesInv, Closures
  <2>3. envs' \in Closures /\ Base' = Len(envs') /\ Base = Len(envs) /\ Len(envs) <= Len(envs')
        /\ Len(envs') \in Nat
    BY <2>1, <2>2 DEF Base, Closures
  <2> QED  BY <1>0, <2>1, <2>2, <2>3 DEF StackInv
<1>5. ASSUME ~EndCall, RunFunction \/ Argument  PROVE StackInv'
  <2>1. /\ stage \in {"run", "args"} /\ stage' = "args" /\ UNCHANGED <<envs, saves>>
    BY <1>5 DEF RunFunction, Argument, pushed
  <2> QED  BY <2>1 DEF StackInv, Base
<1>6. ASSUME RunSpecial \/ EnterBody  PROVE StackInv'
  <2>1. /\ stage \in {"run", "args"} /\ stage' = "body" /\ envs' = envs \o Locals
        /\ UNCHANGED <<todo, saves>>
    BY <1>6 DEF RunSpecial, EnterBody, callee, given
  <2>2. Locals' = Locals /\ envs \in Closures /\ Len(envs) \in Nat
    BY <2>1 DEF Locals, FramesInv, Closures
  <2>3. Len(envs') = Len(envs) + Len(Locals)
    BY <2>1, <2>2 DEF Closures, Locals
  <2>4. Base' = Len(envs) /\ Base = Len(envs)
    BY <1>0, <2>1, <2>2, <2>3 DEF Base
  <2> QED  BY <2>1, <2>4 DEF StackInv
<1>7. ASSUME BodyEnds  PROVE StackInv'
  <2>1. /\ stage = "body" /\ stage' = "return"
        /\ envs' = SubSeq(envs, 1, Len(envs) - Len(Locals)) /\ UNCHANGED saves
    BY <1>7 DEF BodyEnds
  <2>2. PICK e \in Closures : envs = e \o Locals
    BY <2>1 DEF FramesInv
  <2>3. /\ envs \in Seq({"closure", "locals"}) /\ Len(Locals) \in Nat /\ Len(e) \in Nat
        /\ Len(envs) = Len(e) + Len(Locals) /\ \A i \in 1 .. Len(e) : envs[i] = e[i]
    <3>1. CASE Locals = << >>
      BY <2>2, <3>1 DEF Closures
    <3>2. CASE Locals = <<"locals">>
      BY <2>2, <3>2 DEF Closures
    <3> QED  BY <3>1, <3>2 DEF Locals
  <2>4. /\ Len(e) \in 0 .. Len(envs) /\ envs' = SubSeq(envs, 1, Len(e))
        /\ e \in Seq({"closure", "locals"})
    BY <2>1, <2>3 DEF Closures
  <2>5. envs' = e
    BY <2>3, <2>4, CutFrames, SeqEqual
  <2>6. Base = Len(e) /\ Base' = Len(e)
    BY <2>1, <2>3, <2>5 DEF Base
  <2> QED  BY <2>1, <2>5, <2>6 DEF StackInv
<1>8. ASSUME Unwind  PROVE StackInv'
  <2> DEFINE n == Len(saves)
             m == Last(saves).envs
  <2>1. /\ stage = "return" /\ stage' = "return" /\ saves # << >>
        /\ envs' = SubSeq(envs, 1, m) /\ saves' = SubSeq(saves, 1, n - 1)
    BY <1>8 DEF Unwind, Front
  <2>2. n \in Nat /\ n > 0 /\ n - 1 \in 0 .. n /\ m = saves[n].envs
    BY <1>0, <2>1 DEF Last
  <2>3. envs \in Closures /\ Len(envs) \in Nat /\ Base = Len(envs)
    BY <2>1 DEF StackInv, Base, Closures
  <2>4. m \in 0 .. Len(envs) /\ n \in 1 .. n
    BY <1>0, <2>2, <2>3 DEF StackInv
  <2>5. envs' \in Closures /\ Len(envs') = m
    <3> HIDE DEF m
    <3> QED  BY <2>1, <2>3, <2>4, CutFrames DEF Closures
  <2>6. Len(saves') = n - 1 /\ \A i \in 1 .. n - 1 : saves'[i] = saves[i]
    <3>1. SubSeq(saves, 1, n - 1) = saves'
      BY <2>1
    <3> HIDE DEF n
    <3>2. n = Len(saves)  BY DEF n
    <3> QED  BY <3>1, <3>2, <2>2, <1>0, CutFrames
  <2>7. Base' = m
    BY <2>1, <2>5 DEF Base
  <2>8. \A i \in 1 .. n - 1 : i \in 1 .. n /\ i <= n
    BY <2>2
  <2> HIDE DEF n, m
  <2>9. ASSUME NEW i \in 1 .. n - 1  PROVE saves'[i].envs <= m
    <3>1. saves[i].envs <= saves[n].envs
      BY <2>4, <2>8 DEF StackInv, n
    <3> QED  BY <3>1, <2>2, <2>6
  <2> QED  BY <2>1, <2>5, <2>6, <2>7, <2>8, <2>9 DEF StackInv, n
<1> QED  BY <1>1, <1>2, <1>3, <1>4, <1>5, <1>6, <1>7, <1>8 DEF CallStep, Returned, Raise

LEMMA StackStays ==
  ASSUME CallableInv, FramesInv, StackInv, [CallNext]_cvars
  PROVE  StackInv'
<1>1. ASSUME CallStart  PROVE StackInv'
  <2>1. stage = "idle" /\ stage' \in {"receiver", "find", "apply"} /\ saves' = saves
    BY <1>1 DEF CallStart, CallByValue, CallByName, CallValues, CallMethod, pushed
  <2>2. saves = << >>
    BY <2>1 DEF FramesInv
  <2> QED  BY <2>1, <2>2 DEF StackInv
<1>2. ASSUME UNCHANGED cvars  PROVE StackInv'
  BY <1>2 DEF cvars, callee, given, pushed, StackInv, Base, Locals
<1> QED  BY <1>1, <1>2, StackKept DEF CallNext

\* Every variable of a call has its type, however many parts its callable has and
\* also while the frames pushed for them are removed one by one.
THEOREM CallTyped == CallSpec => []CallTypeOK
<1> DEFINE Inv == ArgsInv /\ LookupInv /\ CallableInv /\ FramesInv /\ StackInv
<1>1. CallInit => Inv
  <2>1. << >> \in Seq(ArgStates) /\ Len(<< >>) = 0 /\ 0 <= MaxArgs
    BY EmptySeq, CallAssumption
  <2>2. CallInit => ArgsInv
    BY <2>1 DEF CallInit, ArgsInv
  <2>3. NoTable \notin Tables
    BY DEF NoTable, Tables
  <2> QED  BY <2>2, <2>3 DEF CallInit, LookupInv, CallableInv, FramesInv, Closures, StackInv
<1>2. Inv /\ [CallNext]_cvars => Inv'
  <2>1. ASSUME CallableInv, UNCHANGED cvars  PROVE CallableInv'
    BY <2>1 DEF cvars, callee, CallableInv
  <2> QED  BY <2>1, ArgsKept, LookupKept, CallableKept, FramesKept, StackStays
<1>3. Inv => CallTypeOK
  <2> SUFFICES ASSUME Inv  PROVE CallTypeOK
    OBVIOUS
  <2>1. /\ \A i \in 1 .. Len(arglist) : arglist[i] \in ArgStates
        /\ turn \in 0 .. MaxArgs + 1
    <3>1. arglist \in Seq(ArgStates) /\ Len(arglist) \in Nat /\ MaxArgs \in Nat
      BY CallAssumption DEF ArgsInv
    <3> QED  BY <3>1 DEF ArgsInv
  <2>2. ToSet(todo) \subseteq Functions \cup Wrappers
    <3>1. todo \in Seq(Part)
      <4>1. CASE stage = "idle"
        BY <4>1, EmptySeq DEF ArgsInv
      <4>2. CASE stage # "idle"
        BY <4>2 DEF CallableInv, IsCallable
      <4> QED  BY <4>1, <4>2
    <3> QED  BY <3>1 DEF ToSet, Part
  <2>3. ToSet(envs) \subseteq {"closure", "locals"}
    <3>1. envs \in Seq({"closure", "locals"})
      <4>1. CASE stage = "body"
        <5>1. PICK e \in Closures : envs = e \o Locals
          BY <4>1 DEF FramesInv
        <5>2. e \in Seq({"closure", "locals"})
          BY DEF Closures
        <5>3. Locals \in Seq({"closure", "locals"})
          <6>1. << >> \in Seq({"closure", "locals"}) /\ <<"locals">> \in Seq({"closure", "locals"})
            OBVIOUS
          <6> QED  BY <6>1 DEF Locals
        <5> QED  BY <5>1, <5>2, <5>3
      <4>2. CASE stage # "body"
        <5>1. envs \in Closures
          BY <4>2 DEF ArgsInv, FramesInv, StackInv
        <5> QED  BY <5>1 DEF Closures
      <4> QED  BY <4>1, <4>2
    <3> QED  BY <3>1 DEF ToSet
  <2> QED  BY <2>1, <2>2, <2>3 DEF CallTypeOK, ArgsInv, LookupInv, ArgStates
<1> QED  BY <1>1, <1>2, <1>3, PTL DEF CallSpec

=============================================================================
