---------------------------- MODULE CallPromise ----------------------------
(***************************************************************************)
(* What a call promises, however its function was found and wrapped: each   *)
(* argument that is still a form is evaluated once, from left to right,    *)
(* before the function starts, or none is when the function takes forms.   *)
(* CallProtocol implements it.                                             *)
(***************************************************************************)
EXTENDS Naturals, Sequences

CONSTANTS
    MaxArgs,
    Evaluating,  \* kinds of functions whose arguments are evaluated
    Special      \* kinds that get forms

VARIABLES
    kind,   \* of the function at the end of the call
    args,   \* "form", or "value" once evaluated
    phase   \* "idle", "args", "body"

vars == <<kind, args, phase>>

Init == kind = "none" /\ args = << >> /\ phase = "idle"

\* The program calls a function.  A call by name has looked at its receiver;
\* funccall and apply have evaluated all arguments themselves.
Start ==
    /\ phase = "idle" /\ phase' = "args"
    /\ kind' \in Evaluating \cup Special
    /\ \E n \in 0 .. MaxArgs : args' \in [1 .. n -> {"form", "value"}]

EvalArg ==
    /\ phase = "args" /\ kind \in Evaluating
    /\ \E i \in 1 .. Len(args) :
          /\ args[i] = "form" /\ \A j \in 1 .. i - 1 : args[j] = "value"
          /\ args' = [args EXCEPT ![i] = "value"]
    /\ UNCHANGED <<kind, phase>>

Body ==
    /\ phase = "args" /\ phase' = "body"
    /\ kind \in Evaluating => \A i \in 1 .. Len(args) : args[i] = "value"
    /\ UNCHANGED <<kind, args>>

\* It returns, or an exception ends it at any moment.
End ==
    /\ phase # "idle" /\ phase' = "idle"
    /\ kind' = "none" /\ args' = << >>

Next == Start \/ EvalArg \/ Body \/ End

PromiseSpec == Init /\ [][Next]_vars

=============================================================================
