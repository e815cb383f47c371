------------------------------- MODULE Scopes -------------------------------
(***************************************************************************)
(* Environments (src/src/main.c): dictionaries on a stack of frames, each   *)
(* with a link to the frame where a search goes on.  The link is the frame *)
(* below, so that names are found where a function is called from, but for *)
(* a module's frame it is the global environment.                          *)
(***************************************************************************)
EXTENDS Integers, Sequences, FiniteSets, SequencesExt

CONSTANTS
    Syms, Vals,
    Dicts,       \* dictionaries the program makes
    Modules,     \* modules; each has a dictionary of the same name
    NoModule, Unbound,
    MaxScopes    \* bound on the frames

ASSUME ScopesAssumption ==
    /\ Modules \cap Dicts = {} /\ NoModule \notin Modules \cup {"main"}
    /\ {"main", "global", "none"} \cap (Modules \cup Dicts) = {}
    /\ Unbound \notin Vals /\ MaxScopes \in Nat /\ MaxScopes >= 2

VARIABLES
    scopes,   \* struct frame_env: dict, module, up
    bound,    \* the bindings of each dictionary
    const,    \* the frozen dictionaries
    pending   \* the functions that will restore the frames: how many there were,
              \* and the dictionary let is filling, which is in no frame yet

evars == <<scopes, bound, const, pending>>

AllDicts == {"main", "global"} \cup Dicts \cup Modules

NoDict == "none"

Top == Len(scopes)
Current == scopes[Top].dict

\* frame_env_push_module with a module, when env_global is there.
Global == 2

\* Mutant: a module's frame is linked to its caller's.
UpOf_caller(module) == Top

\* frame_env_push and frame_env_push_module.
UpOf(module) == IF module = NoModule THEN Top ELSE Global

Pushed(d, module) == Append(scopes, [dict |-> d, module |-> module, up |-> UpOf(module)])

\* vm_state_save.
Pending(d) == Append(pending, [base |-> Top, filling |-> d])

Empty == [s \in Syms |-> Unbound]

InUse == {scopes[k].dict : k \in 1 .. Top} \cup {pending[k].filling : k \in 1 .. Len(pending)}

-----------------------------------------------------------------------------
Enter(d, module) ==
    /\ Top < MaxScopes
    /\ scopes' = Pushed(d, module) /\ pending' = Pending(NoDict)

\* A lambda's arguments have been bound in a new dictionary, which is then entered.
CallLambda(d, s, v) ==
    /\ d \in Dicts \ InUse /\ Enter(d, NoModule)
    /\ bound' = [bound EXCEPT ![d] = [Empty EXCEPT ![s] = v]]
    /\ const' = const \ {d}

\* let* enters its dictionary first; load_lib does the same with a module's.
LetStar(d) ==
    /\ d \in Dicts \ InUse /\ Enter(d, NoModule)
    /\ bound' = [bound EXCEPT ![d] = Empty] /\ const' = const \ {d}

\* let evaluates and binds one value after the other outside of its dictionary.
LetBegins(d) ==
    /\ d \in Dicts \ InUse /\ Top < MaxScopes
    /\ pending' = Pending(d)
    /\ bound' = [bound EXCEPT ![d] = Empty] /\ const' = const \ {d}
    /\ UNCHANGED scopes

Filling == IF pending = << >> THEN NoDict ELSE Last(pending).filling

LetBinds(s, v) ==
    /\ Filling # NoDict
    /\ bound' = [bound EXCEPT ![Filling][s] = v]
    /\ UNCHANGED <<scopes, const, pending>>

LetBody ==
    /\ Filling # NoDict
    /\ scopes' = Pushed(Filling, NoModule)
    /\ pending' = [pending EXCEPT ![Len(pending)].filling = NoDict]
    /\ UNCHANGED <<bound, const>>

\* A closure is called or entered, or a dictionary entered; the program has no hold
\* of one that let is filling.
EnterDict(d) ==
    /\ \A k \in 1 .. Len(pending) : pending[k].filling # d
    /\ Enter(d, NoModule) /\ UNCHANGED <<bound, const>>

\* A module is entered, or its file loaded.
EnterModule(m) == Enter(m, m) /\ UNCHANGED <<bound, const>>

\* What a function has entered is left when it returns.
LeaveScope ==
    /\ pending # << >>
    /\ scopes' = SubSeq(scopes, 1, Last(pending).base) /\ pending' = Front(pending)
    /\ UNCHANGED <<bound, const>>

\* An exception ends any number of functions, or all when it is not handled.
Unwinding ==
    IF pending = << >> THEN UNCHANGED <<scopes, pending>>
    ELSE \E k \in 1 .. Len(pending) :
            /\ scopes' = SubSeq(scopes, 1, pending[k].base)
            /\ pending' = SubSeq(pending, 1, k - 1)

RaiseScope == Unwinding /\ UNCHANGED <<bound, const>>

\* progn-up: the body is evaluated in the environment one up, pushed again.
PrognUp ==
    LET e == scopes[Top].up
    IN  IF e = 0 THEN RaiseScope
        ELSE Enter(scopes[e].dict, scopes[e].module) /\ UNCHANGED <<bound, const>>

\* Mutant: a constant's binding can be changed.
BindIn_frozen(d, s, v) ==
    bound' = [bound EXCEPT ![d][s] = v] /\ UNCHANGED <<scopes, const, pending>>

\* env_bind_dict and env_unbind_dict.
BindIn(d, s, v) ==
    IF d \in const THEN RaiseScope
    ELSE bound' = [bound EXCEPT ![d][s] = v] /\ UNCHANGED <<scopes, const, pending>>

\* setq, set and def bind in the current dictionary, unsetq removes.
Setq(s, v) == BindIn(Current, s, v)
Unsetq(s) == BindIn(Current, s, Unbound)

SetqUp(s, v) ==
    IF scopes[Top].up = 0 THEN RaiseScope ELSE BindIn(scopes[scopes[Top].up].dict, s, v)

\* The program freezes a dictionary it has, such as the current one.
FreezeScope ==
    /\ const' = const \cup {Current}
    /\ UNCHANGED <<scopes, bound, pending>>

ScopesInit ==
    /\ scopes = << [dict |-> "main", module |-> "main", up |-> 0],
                   [dict |-> "global", module |-> NoModule, up |-> 1] >>
    /\ bound = [d \in AllDicts |-> Empty]
    /\ const = {"main"} /\ pending = << >>

ScopesNext ==
    \/ \E d \in Dicts :
          \/ LetStar(d) \/ LetBegins(d)
          \/ \E s \in Syms, v \in Vals : CallLambda(d, s, v)
    \/ \E d \in AllDicts \ {"main"} : EnterDict(d)
    \/ \E m \in Modules \cup {"main"} : EnterModule(m)
    \/ \E s \in Syms, v \in Vals : LetBinds(s, v) \/ Setq(s, v) \/ SetqUp(s, v)
    \/ \E s \in Syms : Unsetq(s)
    \/ LetBody \/ PrognUp \/ FreezeScope \/ LeaveScope \/ RaiseScope

ScopesSpec == ScopesInit /\ [][ScopesNext]_evars

-----------------------------------------------------------------------------
\* The type of the state; links go down, so that every search ends.
ScopesTypeOK ==
    /\ \A k \in 1 .. Top :
          /\ scopes[k].dict \in AllDicts /\ scopes[k].module \in Modules \cup {"main", NoModule}
          /\ scopes[k].up \in 0 .. k - 1
    /\ bound \in [AllDicts -> [Syms -> Vals \cup {Unbound}]]
    /\ const \subseteq AllDicts
    /\ \A k \in 1 .. Len(pending) : pending[k].base \in 2 .. Top

\* A search from the current frame goes through no frame outside of S.
SearchIn(S) ==
    /\ Top \in S
    /\ \A k \in S : scopes[k].up \in S \cup {0}

\* Code of a module never sees a name of the functions that called into the module:
\* from its frame the search goes on in the global environment, whatever has been
\* entered, bound or left since.
ModuleHides ==
    \A m \in 3 .. Top :
        scopes[m].module # NoModule =>
            \E S \in SUBSET (1 .. Top) : SearchIn(S) /\ S \cap (3 .. m - 1) = {}

\* Whatever frames lead to it, nothing that binds or unbinds a name changes a
\* frozen dictionary; main's constants stay what they are.
ConstantsKept ==
    [][ \A d \in const \cap const' : bound'[d] = bound[d] ]_evars

=============================================================================
