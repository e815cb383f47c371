----------------------------- MODULE Evaluator -----------------------------
(***************************************************************************)
(* What the evaluator does, side by side: calls, environments, sorting and *)
(* iteration.  They share no state but the stacks, which are in VmStack, so *)
(* a behaviour is about one of them.                                       *)
(***************************************************************************)
EXTENDS CallProtocol, Scopes, Sort, Iteration

VARIABLE part    \* which of them runs

vars == <<part, cvars, evars, svars, lvars>>

Init ==
    /\ part \in {"calls", "scopes", "sort", "iteration"}
    /\ CallInit /\ ScopesInit /\ SortInit /\ IterationInit

Next ==
    /\ part' = part
    /\ \/ part = "calls" /\ CallNext /\ UNCHANGED <<evars, svars, lvars>>
       \/ part = "scopes" /\ ScopesNext /\ UNCHANGED <<cvars, svars, lvars>>
       \/ part = "sort" /\ SortNext /\ UNCHANGED <<cvars, evars, lvars>>
       \/ part = "iteration" /\ IterationNext /\ UNCHANGED <<cvars, evars, svars>>

\* The loops of sort and of the iterations are C code, which runs on.
Spec ==
    /\ Init /\ [][Next]_vars
    /\ WF_svars(SortStep) /\ WF_lvars(IterationStep)

\* The type of the state.
EvaluatorTypeOK == CallTypeOK /\ ScopesTypeOK /\ SortTypeOK /\ IterationTypeOK

=============================================================================
