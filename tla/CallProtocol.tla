---------------------------- MODULE CallProtocol ----------------------------
(***************************************************************************)
(* Calls (src/src/main.c, cf_dptr_eval and what it calls).  A callable is a *)
(* function, or a method (a class and a callable), a closure (a dictionary *)
(* and a callable) or the class method new, around another callable.       *)
(* method_call_apply takes it apart, one method of class Method, Closure,   *)
(* Subr or Dptr at a time: call, call1 and calln evaluate all arguments,    *)
(* all but the first, or none.                                             *)
(*                                                                         *)
(* Here a callable is the sequence of its parts, outermost first; the last *)
(* is the kind of the function.  Evaluating an argument and running a body *)
(* are one step each: what they do to the stacks is in VmStack.            *)
(***************************************************************************)
EXTENDS Integers, Sequences, SequencesExt

CONSTANTS
    Callables,   \* what the program calls as the value of a form
    Methods,     \* what it calls by name as a method
    Funcalled,   \* what it calls, or has called as a method, with values
    MaxArgs,     \* bound on the number of arguments
    NClasses     \* length of the chain of parents of a receiver's class

\* "object" has a class of the program's whose methods call, call1 and calln
\* are lambdas, "thing" has none.
Functions == {"subr", "nsubr", "lambda", "nlambda", "macro", "object", "thing"}

Wrappers == {"method", "closure", "new"}

Evaluated == {"subr", "lambda", "object"}

ASSUME CallAssumption ==
    /\ MaxArgs \in Nat /\ NClasses \in Nat \ {0}
    /\ \A f \in Callables \cup Methods \cup Funcalled :
          f \in Seq(Functions \cup Wrappers) /\ f # << >> /\ Last(f) \in Functions
          /\ \A i \in 1 .. Len(f) - 1 : f[i] \in Wrappers

VARIABLES
    stage,    \* where the C code is
    todo,     \* the parts of the callable still to be taken apart
    sel,      \* the selector: call, call1 or calln
    passed,   \* args_eval_suppress_cnt
    arglist,  \* the arguments: "form", "value", or "again" if evaluated twice
    turn,     \* the argument whose turn it is
    left,     \* the copy of the count that goes down
    argenvs,  \* the environments in which arguments were evaluated
    defs,     \* the method tables that define the name
    table,    \* the table looked at last
    envs,     \* the environment frames on top of the caller's
    classes,  \* the class frames on top of the caller's
    saves     \* vm_state_save of each method_call_run

callee == <<todo, sel, passed>>
given == <<arglist, turn, left, argenvs>>
lookup == <<defs, table>>
pushed == <<envs, classes, saves>>
cvars == <<stage, callee, given, lookup, pushed>>

\* The class methods of a class receiver and of its parents come first, then
\* the instance methods of the receiver's class and of its parents.
Tables == {"class", "inst"} \X (1 .. NClasses)

NoTable == <<"none", 0>>

\* Mutant: the instance methods come before the parents.
After_parents_last(t) ==
    IF t[1] = "class" THEN <<"inst", t[2]>>
    ELSE IF t[2] < NClasses THEN <<"class", t[2] + 1>> ELSE NoTable

\* The next table of method_find: method_find_type goes up, then the next kind.
After(t) ==
    IF t[2] < NClasses THEN <<t[1], t[2] + 1>>
    ELSE IF t[1] = "class" THEN <<"inst", 1>> ELSE NoTable

-----------------------------------------------------------------------------
\* (f args...): f has a value, or is a form that has one.
CallByValue(f, n) ==
    /\ stage = "idle" /\ stage' = "apply"
    /\ todo' = f /\ sel' = "call" /\ passed' = 0
    /\ arglist' = [i \in 1 .. n |-> "form"]
    /\ UNCHANGED <<turn, left, argenvs, lookup, pushed>>

\* (name receiver args...) where name is not bound: f is the method's function.
CallByName(f, n) ==
    /\ stage = "idle" /\ stage' = "receiver" /\ n > 0
    /\ todo' = f /\ sel' = "call1" /\ passed' = 1
    /\ arglist' = [i \in 1 .. n |-> "form"]
    /\ UNCHANGED <<turn, left, argenvs, lookup, pushed>>

\* funccall, apply, and the interpreter's own calls.
CallValues(f, n) ==
    /\ stage = "idle" /\ stage' = "apply"
    /\ todo' = f /\ sel' = "calln" /\ passed' = -1
    /\ arglist' = [i \in 1 .. n |-> "value"]
    /\ UNCHANGED <<turn, left, argenvs, lookup, pushed>>

\* The receiver is, or is not, a class; any of the tables may define the name.
StartLookup ==
    \E kind \in {"class", "inst"} :
        /\ table' = <<kind, 1>>
        /\ defs' \in SUBSET (IF kind = "class" THEN Tables ELSE {"inst"} \X (1 .. NClasses))

\* method-funccall, method-apply, and the interpreter's own calls of methods.
CallMethod(f, n) ==
    /\ stage = "idle" /\ stage' = "find" /\ n > 0
    /\ todo' = f /\ sel' = "calln" /\ passed' = -1
    /\ arglist' = [i \in 1 .. n |-> "value"]
    /\ StartLookup
    /\ UNCHANGED <<turn, left, argenvs, pushed>>

\* The receiver is evaluated; if the name begins with a minus sign, the form is
\* the receiver.
Receiver ==
    /\ stage = "receiver" /\ stage' = "find"
    /\ arglist' = [arglist EXCEPT ![1] = "value"]
    /\ StartLookup
    /\ UNCHANGED <<callee, turn, left, argenvs, pushed>>

\* The end of a call.  After an exception the handler restores the stacks.
EndCall ==
    /\ stage' = "idle" /\ todo' = << >> /\ sel' = "none" /\ passed' = 0
    /\ arglist' = << >> /\ turn' = 0 /\ left' = 0 /\ argenvs' = {}
    /\ defs' = {} /\ table' = NoTable
    /\ envs' = << >> /\ classes' = << >> /\ saves' = << >>

Look ==
    /\ stage = "find"
    /\ IF table = NoTable
       THEN EndCall                             \* except_no_method
       ELSE IF table \in defs
       THEN /\ stage' = "apply" /\ todo' = <<"method">> \o todo
            /\ UNCHANGED <<sel, passed, given, lookup, pushed>>
       ELSE /\ table' = After(table)
            /\ UNCHANGED <<stage, callee, given, defs, pushed>>

\* method_call_apply and method_call_run: find the selector in the class of the
\* callable, save the stacks, push that class's frame.
Apply ==
    /\ stage = "apply"
    /\ IF todo = <<"thing">> THEN EndCall
       ELSE /\ stage' = "run"
            /\ saves' = Append(saves, [envs |-> Len(envs), classes |-> Len(classes)])
            /\ classes' = Append(classes, Head(todo))
            /\ UNCHANGED <<callee, given, lookup, envs>>

SuppressedBy == [call |-> 0, call1 |-> 1, calln |-> -1]

\* cf_method_call, cf_method_call1 and cf_method_calln.
RunMethod ==
    /\ stage = "run" /\ Head(todo) = "method" /\ stage' = "apply"
    /\ classes' = Append(classes, "method")
    /\ todo' = Tail(todo) /\ passed' = SuppressedBy[sel]
    /\ UNCHANGED <<sel, given, lookup, envs, saves>>

\* cf_closure_call, cf_closure_call1 and cf_closure_calln: the dictionary is
\* entered before any argument is evaluated, and the count passed on is 0.
RunClosure ==
    /\ stage = "run" /\ Head(todo) = "closure" /\ stage' = "apply"
    /\ envs' = Append(envs, "closure")
    /\ todo' = Tail(todo) /\ passed' = 0
    /\ UNCHANGED <<sel, given, lookup, classes, saves>>

\* cf_obj_new: the new object takes the place of the class, and the method
\* __init__, if there is one, gets the remaining arguments as they came.
RunNew ==
    /\ stage = "run" /\ Head(todo) = "new"
    /\ IF Tail(todo) = <<"thing">>
       THEN stage' = "return" /\ UNCHANGED callee
       ELSE /\ stage' = "apply" /\ todo' = <<"method">> \o Tail(todo)
            /\ sel' = "call1" /\ passed' = 1
    /\ UNCHANGED <<given, lookup, pushed>>

\* Mutant: call1 suppresses nothing.
Suppressed_none == IF Last(todo) = "object" THEN passed ELSE IF sel = "calln" THEN -1 ELSE 0

\* subr_call and dptr_call take their count from the selector.  The lambda that a
\* class has as its method call gets the one passed on, and the object itself is
\* its first argument.
Suppressed ==
    IF Last(todo) # "object" THEN SuppressedBy[sel]
    ELSE IF passed > 0 THEN passed - 1 ELSE passed

\* A function whose arguments are evaluated; args_lambda checks their number.
RunFunction ==
    /\ stage = "run" /\ Head(todo) \in Evaluated
    /\ \/ /\ stage' = "args" /\ turn' = 1 /\ left' = Suppressed
          /\ UNCHANGED <<callee, arglist, argenvs, lookup, pushed>>
       \/ Head(todo) # "subr" /\ EndCall

Locals == IF Head(todo) \in {"subr", "nsubr", "new"} THEN << >> ELSE <<"locals">>

\* A function that gets forms.
RunSpecial ==
    /\ stage = "run" /\ Head(todo) \in {"nsubr", "nlambda", "macro"} /\ stage' = "body"
    /\ envs' = envs \o Locals
    /\ UNCHANGED <<callee, given, lookup, classes, saves>>

\* One turn of the loop in subr_call and args_lambda.
Argument ==
    /\ stage = "args" /\ turn <= Len(arglist)
    /\ turn' = turn + 1
    /\ IF left = 0
       THEN /\ arglist' = [arglist EXCEPT ![turn] = IF @ = "form" THEN "value" ELSE "again"]
            /\ argenvs' = argenvs \cup {envs}
            /\ UNCHANGED left
       ELSE /\ left' = IF left > 0 THEN left - 1 ELSE left
            /\ UNCHANGED <<arglist, argenvs>>
    /\ UNCHANGED <<stage, callee, lookup, pushed>>

\* All arguments are there; those of a lambda are bound in a dictionary of its own.
EnterBody ==
    /\ stage = "args" /\ turn > Len(arglist) /\ stage' = "body"
    /\ envs' = envs \o Locals
    /\ UNCHANGED <<callee, given, lookup, classes, saves>>

\* Mutant: the expansion is evaluated before the macro's dictionary is left.
BodyEnds_inside ==
    /\ stage = "body" /\ stage' = "return"
    /\ envs' = SubSeq(envs, 1, Len(envs) - Len(Locals))
    /\ argenvs' = IF Head(todo) = "macro" THEN argenvs \cup {envs} ELSE argenvs
    /\ UNCHANGED <<callee, arglist, turn, left, lookup, classes, saves>>

\* The body is over, and _dptr_call leaves its dictionary.  What a macro has
\* returned is evaluated.
BodyEnds ==
    /\ stage = "body" /\ stage' = "return"
    /\ envs' = SubSeq(envs, 1, Len(envs) - Len(Locals))
    /\ argenvs' = IF Head(todo) = "macro" THEN argenvs \cup {envs'} ELSE argenvs
    /\ UNCHANGED <<callee, arglist, turn, left, lookup, classes, saves>>

\* vm_state_restore at the end of each method_call_run.
Unwind ==
    /\ stage = "return" /\ saves # << >>
    /\ envs' = SubSeq(envs, 1, Last(saves).envs)
    /\ classes' = SubSeq(classes, 1, Last(saves).classes)
    /\ saves' = Front(saves)
    /\ UNCHANGED <<stage, callee, given, lookup>>

\* The caller has its value.
Returned == stage = "return" /\ saves = << >> /\ EndCall

\* An exception in an argument, a body, or the evaluation of an expansion.
Raise == stage \in {"receiver", "args", "body", "return"} /\ EndCall

CallInit ==
    /\ stage = "idle" /\ todo = << >> /\ sel = "none" /\ passed = 0
    /\ arglist = << >> /\ turn = 0 /\ left = 0 /\ argenvs = {}
    /\ defs = {} /\ table = NoTable
    /\ envs = << >> /\ classes = << >> /\ saves = << >>

CallStart ==
    \E n \in 0 .. MaxArgs :
        \/ \E f \in Callables : CallByValue(f, n)
        \/ \E f \in Methods : CallByName(f, n)
        \/ \E f \in Funcalled : CallValues(f, n) \/ CallMethod(f, n)

CallStep ==
    \/ Receiver \/ Look \/ Apply \/ RunMethod \/ RunClosure \/ RunNew
    \/ RunFunction \/ RunSpecial \/ Argument \/ EnterBody
    \/ BodyEnds \/ Unwind \/ Returned \/ Raise

CallNext == CallStart \/ CallStep

CallSpec == CallInit /\ [][CallNext]_cvars

Through(f, part) == \E i \in 1 .. Len(f) : f[i] = part

\* Callables with which the counts passed on come out right.  Objects with call
\* methods of their own are counted as an argument of these only when there is a
\* count, new starts with one again, and a closure passes none on.
Counted ==
    /\ \A f \in Callables : ~Through(f, "new")
    /\ \A f \in Methods : Last(f) # "object"
    /\ \A f \in Funcalled :
          /\ Through(f, "new") => Last(f) \notin Evaluated
          /\ Last(f) = "object" => ~Through(f, "closure")

-----------------------------------------------------------------------------
\* The type of the state.
CallTypeOK ==
    /\ stage \in {"idle", "receiver", "find", "apply", "run", "args", "body", "return"}
    /\ sel \in {"none", "call", "call1", "calln"} /\ passed \in -1 .. 1 /\ left \in -1 .. 1
    /\ \A i \in 1 .. Len(arglist) : arglist[i] \in {"form", "value", "again"}
    /\ turn \in 0 .. MaxArgs + 1
    /\ defs \subseteq Tables /\ table \in Tables \cup {NoTable}
    /\ ToSet(todo) \subseteq Functions \cup Wrappers
    /\ ToSet(envs) \subseteq {"closure", "locals"}

\* What a call promises: a call begins when its receiver is known.
InCall == stage \notin {"idle", "receiver", "find"}

Promised == INSTANCE CallPromise WITH
    Evaluating <- Evaluated, Special <- Functions \ Evaluated,
    kind <- IF InCall THEN Last(todo) ELSE "none",
    args <- IF InCall THEN arglist ELSE << >>,
    phase <- IF ~InCall THEN "idle"
             ELSE IF stage \in {"apply", "run", "args"} THEN "args" ELSE "body"

\* However many methods, closures and class methods wrap a function, its
\* arguments are evaluated once, from left to right, before it starts; those of
\* an nsubr, nlambda or macro are not evaluated, and those of funccall not again.
CallsKeepPromise == Promised!PromiseSpec

\* The comments in cf_funccall and cf_apply: arguments that have been evaluated
\* are not evaluated again.
EvaluatedOnce == \A i \in 1 .. Len(arglist) : arglist[i] # "again"

\* No argument and no expansion is evaluated where it sees the locals of the
\* function it is for, and nothing the call has pushed is left when it is over.
ScopesKept ==
    /\ \A e \in argenvs : "locals" \notin ToSet(e)
    /\ stage = "return" /\ saves = << >> => envs = << >> /\ classes = << >>

\* A name stands for the nearest method: no table that method_find goes through
\* before the one it has come to defines it.
NearestMethod ==
    table \in defs =>
        \A t \in defs :
            /\ t[1] = table[1] => t[2] >= table[2]
            /\ ~ (t[1] = "class" /\ table[1] = "inst")

=============================================================================
