------------------------------ MODULE Iteration ------------------------------
(***************************************************************************)
(* foreach, mapcar, outer, reduce and filter (src/src/main.c) over the      *)
(* iterators of lists, arrays and byte arrays.  An iterator is how many     *)
(* elements it has returned; next answers nil at the end and stays there,  *)
(* reset goes back to the start.  An element stands for its number, from 1. *)
(***************************************************************************)
EXTENDS Integers, Sequences, SequencesExt, FiniteSets

CONSTANTS
    MaxLists,    \* bound on the containers one call goes through
    MaxLen       \* bound on their lengths

ASSUME IterationAssumption == MaxLists \in Nat \ {0} /\ MaxLen \in Nat

\* reduce and filter make a list of their argument first, foreach does not.
Single == {"foreach", "reduce", "filter"}

NoElem == MaxLen + 1   \* nil in the place of an element of a list that is over

VARIABLES
    comb,      \* the function, or "none"
    params,    \* of the program's function: those it needs, and all it takes
    lens,      \* the lengths of the containers
    pos,       \* the iterators
    row,       \* the elements fetched: work[-3] of mapcar, vals of outer
    gen,       \* the iterator whose turn it is
    step,      \* "off", "fetch", "call", "advance", "over", "cut", "crashed"
    log        \* the elements of each call of the program's function

lvars == <<comb, params, lens, pos, row, gen, step, log>>

N == Len(lens)

\* next of an iterator: its position and the element afterwards.
NextOf(g) == IF pos[g] < lens[g] THEN pos[g] + 1 ELSE NoElem

Moved(g) == [pos EXCEPT ![g] = IF @ < lens[g] THEN @ + 1 ELSE @]

\* A lambda's parameters with a default come last.  subrs take the number they need, and
\* an nlambda, which gets the list of its arguments, any number.
Begin(f, needs, takes, ls) ==
    /\ step = "off" /\ step' = "fetch"
    /\ params' = [needs |-> needs, takes |-> takes]
    /\ comb' = f /\ lens' = ls /\ (f \in Single => Len(ls) = 1)
    /\ pos' = [g \in 1 .. Len(ls) |-> 0] /\ row' = [g \in 1 .. Len(ls) |-> NoElem]
    /\ gen' = IF f = "mapcar" THEN Len(ls) ELSE 1
    /\ UNCHANGED log

\* The loops of foreach, reduce and filter.
FetchOne ==
    /\ step = "fetch" /\ comb \in Single
    /\ pos' = Moved(1) /\ row' = <<NextOf(1)>>
    /\ step' = IF row'[1] = NoElem THEN "over" ELSE "call"
    /\ UNCHANGED <<comb, params, lens, gen, log>>

\* mapcar asks all iterators, the last one first, and is over when all are.
FetchRow ==
    /\ step = "fetch" /\ comb = "mapcar"
    /\ pos' = Moved(gen) /\ row' = [row EXCEPT ![gen] = NextOf(gen)]
    /\ IF gen > 1 THEN gen' = gen - 1 /\ UNCHANGED step
       ELSE /\ gen' = N
            /\ step' = IF \A g \in 1 .. N : row'[g] = NoElem THEN "over" ELSE "call"
    /\ UNCHANGED <<comb, params, lens, log>>

\* Mutant: when all lists are empty, they are asked again.
FetchFirst_waits ==
    /\ step = "fetch" /\ comb = "outer"
    /\ pos' = Moved(gen) /\ row' = [row EXCEPT ![gen] = NextOf(gen)]
    /\ IF gen < N THEN gen' = gen + 1 /\ UNCHANGED step
       ELSE IF \A g \in 1 .. N : row'[g] = NoElem THEN gen' = 1 /\ UNCHANGED step
       ELSE gen' = gen /\ step' = "call"
    /\ UNCHANGED <<comb, params, lens, log>>

\* outer asks for the first elements; there is nothing to call the function with
\* when all lists are empty.
FetchFirst ==
    /\ step = "fetch" /\ comb = "outer"
    /\ pos' = Moved(gen) /\ row' = [row EXCEPT ![gen] = NextOf(gen)]
    /\ IF gen < N THEN gen' = gen + 1 /\ UNCHANGED step
       ELSE /\ gen' = gen
            /\ step' = IF \A g \in 1 .. N : row'[g] = NoElem THEN "over" ELSE "call"
    /\ UNCHANGED <<comb, params, lens, log>>

\* The count of arguments a call passes on: all containers', or reduce's value so far
\* and the element.
Told == IF comb = "reduce" THEN 2 ELSE N

\* The arguments there are: outer leaves out the elements of empty lists, which it counts.
Given == IF comb = "outer" THEN Cardinality({g \in 1 .. N : row[g] # NoElem}) ELSE Told

\* The function looks at the count only, and then takes an argument for each parameter
\* without a default.
Accepted == params.needs <= Told /\ Told <= params.takes

Enough == params.needs <= Given

CallFunction ==
    /\ step = "call" /\ Accepted /\ Enough /\ log' = Append(log, row)
    /\ step' = IF comb = "outer" THEN "advance" ELSE "fetch"
    /\ gen' = IF comb \in {"outer", "mapcar"} THEN N ELSE 1
    /\ UNCHANGED <<comb, params, lens, pos, row>>

\* The count is wrong: an exception before anything is bound.
NumArgs ==
    /\ step = "call" /\ ~Accepted /\ step' = "cut"
    /\ UNCHANGED <<comb, params, lens, pos, row, gen, log>>

\* The count is right and the arguments run out: car of a null pointer, in a debug
\* build the assertion in front of it.
BindMissing ==
    /\ step = "call" /\ Accepted /\ ~Enough /\ step' = "crashed"
    /\ UNCHANGED <<comb, params, lens, pos, row, gen, log>>

\* The function of foreach leaves the loop with break, any function with an
\* exception.  continue is the end of one call of it.
Leave ==
    /\ step = "call" /\ Accepted /\ Enough /\ step' = "cut" /\ log' = Append(log, row)
    /\ UNCHANGED <<comb, params, lens, pos, row, gen>>

\* Mutant: an exhausted list is not started again.
AdvanceOuter_once ==
    /\ step = "advance"
    /\ IF pos[gen] < lens[gen]
       THEN /\ pos' = Moved(gen) /\ row' = [row EXCEPT ![gen] = NextOf(gen)]
            /\ step' = "call" /\ UNCHANGED gen
       ELSE /\ UNCHANGED <<pos, row>>
            /\ IF gen > 1 THEN gen' = gen - 1 /\ UNCHANGED step
               ELSE step' = "over" /\ UNCHANGED gen
    /\ UNCHANGED <<comb, params, lens, log>>

\* The next combination in outer: the last iterator that is not at its end goes
\* on, those after it are reset and give their first element again.
AdvanceOuter ==
    /\ step = "advance"
    /\ IF pos[gen] < lens[gen]
       THEN /\ pos' = Moved(gen) /\ row' = [row EXCEPT ![gen] = NextOf(gen)]
            /\ step' = "call" /\ UNCHANGED gen
       ELSE /\ pos' = [pos EXCEPT ![gen] = IF lens[gen] = 0 THEN 0 ELSE 1]
            /\ row' = [row EXCEPT ![gen] = IF lens[gen] = 0 THEN NoElem ELSE 1]
            /\ IF gen > 1 THEN gen' = gen - 1 /\ UNCHANGED step
               ELSE step' = "over" /\ UNCHANGED gen
    /\ UNCHANGED <<comb, params, lens, log>>

NoParams == [needs |-> 0, takes |-> 0]

IterationInit ==
    /\ comb = "none" /\ params = NoParams /\ lens = << >> /\ pos = << >> /\ row = << >>
    /\ gen = 0 /\ step = "off" /\ log = << >>

Cleared ==
    /\ comb' = "none" /\ params' = NoParams /\ lens' = << >> /\ pos' = << >> /\ row' = << >>
    /\ gen' = 0 /\ step' = "off" /\ log' = << >>

IterationReturns == step \in {"over", "cut"} /\ Cleared

\* The interpreter is started again.
Restart == step = "crashed" /\ Cleared

IterationStep ==
    \/ FetchOne \/ FetchRow \/ FetchFirst \/ CallFunction \/ NumArgs \/ BindMissing
    \/ AdvanceOuter \/ IterationReturns

IterationNext ==
    \/ \E f \in Single \cup {"mapcar", "outer"}, n \in 1 .. MaxLists :
          \E ls \in [1 .. n -> 0 .. MaxLen], takes \in 0 .. MaxLists + 1 :
             \E needs \in 0 .. takes : Begin(f, needs, takes, ls)
    \/ IterationStep
    \/ Leave
    \/ Restart

IterationSpec == IterationInit /\ [][IterationNext]_lvars

-----------------------------------------------------------------------------
\* The type of the state.
IterationTypeOK ==
    /\ comb \in Single \cup {"none", "mapcar", "outer"}
    /\ Len(pos) = N /\ Len(row) = N /\ gen \in 0 .. N
    /\ \A g \in 1 .. N : pos[g] \in 0 .. lens[g] /\ row[g] \in 1 .. NoElem

\* The calls a function is to make.
Due ==
    CASE comb = "none" -> {}
      [] comb \in Single -> {<<k>> : k \in 1 .. lens[1]}
      [] comb = "mapcar" ->
            {[g \in 1 .. N |-> IF k <= lens[g] THEN k ELSE NoElem] :
                k \in {k \in 1 .. MaxLen : \E g \in 1 .. N : k <= lens[g]}}
      [] comb = "outer" ->
            {c \in [1 .. N -> 1 .. NoElem] :
                /\ \E g \in 1 .. N : lens[g] > 0
                /\ \A g \in 1 .. N : IF lens[g] = 0 THEN c[g] = NoElem ELSE c[g] <= lens[g]}

Before(a, b) == \E g \in 1 .. N : a[g] < b[g] /\ \A k \in 1 .. g - 1 : a[k] = b[k]

\* Each function calls the program's function in the order of the elements, outer
\* with the last list running fastest; none is missed and none comes twice, and a
\* loop that is left early has made the first calls of those it would have made.  Only
\* outer, with an empty list, ends the process, and if it does then at the first call.
CallsInOrder ==
    /\ ToSet(log) \subseteq Due
    /\ \A m \in 1 .. Len(log) - 1 : Before(log[m], log[m + 1])
    /\ log # << >> => \A c \in Due : Before(c, Last(log)) => c \in ToSet(log)
    /\ step = "over" => ToSet(log) = Due
    /\ step = "crashed" => comb = "outer" /\ log = << >> /\ \E g \in 1 .. N : lens[g] = 0

\* Over containers that have an end, every iteration comes to its end, though an outer
\* over an empty list may end the process (see CallsInOrder).
IterationDone == step = "fetch" ~> step \in {"off", "crashed"}

\* What args_lambda() asserts of every parameter without a default:
\* DEBUG_ASSERT(y != 0), there is an argument for it.
ArgumentsThere == step # "crashed"

=============================================================================
