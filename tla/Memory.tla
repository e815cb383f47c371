------------------------------- MODULE Memory -------------------------------
(***************************************************************************)
(* What the memory manager of src/src/main.c promises a program: an object *)
(* keeps its contents for as long as the program can reach it from an      *)
(* eval-stack slot or as a symbol, and nothing but an object the program   *)
(* cannot reach is ever reclaimed.  Reference counts, lists and pages do   *)
(* not appear.                                                             *)
(***************************************************************************)
EXTENDS Naturals

CONSTANTS
    Cells,   \* where an object can be
    Nil,     \* the value nil
    NSlots,  \* slots of the eval stack
    Shapes   \* the sets of fields objects have

VARIABLES
    slot,  \* the eval stack: what each slot refers to
    refs,  \* refs[c][f]: what field f of the object at c refers to
    used,  \* the cells that hold an object
    named  \* the symbols, which the reader can get by name

memory_vars == <<slot, refs, used, named>>

Slots == 1 .. NSlots

Values == Cells \cup {Nil}

NoFields == [f \in {} |-> Nil]

Held == {slot[s] : s \in Slots} \ {Nil}

Closed(R, S) ==
    /\ R \subseteq S
    /\ \A c \in S : \A f \in DOMAIN refs[c] : refs[c][f] \in S \cup {Nil}

\* The least set that holds R and all that its members refer to.
Reachable(R) == {c \in Cells : \A S \in SUBSET Cells : Closed(R, S) => c \in S}

\* What an expression can evaluate to without allocating.
Expressible(v) ==
    \/ v \in Held \cup named \cup {Nil}
    \/ \E c \in Held : \E f \in DOMAIN refs[c] : v = refs[c][f]

Init ==
    /\ slot = [s \in Slots |-> Nil]
    /\ named \in SUBSET Cells
    /\ used = named
    /\ refs = [c \in Cells |-> NoFields]

Assign(s, v) ==
    /\ Expressible(v)
    /\ slot' = [slot EXCEPT ![s] = v]
    /\ UNCHANGED <<refs, used, named>>

Move(d, s) ==
    /\ slot' = [slot EXCEPT ![d] = slot[s], ![s] = Nil]
    /\ UNCHANGED <<refs, used, named>>

SetField(c, f, v) ==
    /\ c \in Held /\ f \in DOMAIN refs[c] /\ Expressible(v)
    /\ refs' = [refs EXCEPT ![c] = [@ EXCEPT ![f] = v]]
    /\ UNCHANGED <<slot, used, named>>

\* Only a cell nothing uses receives a new object; some get a name at once.
New(s, c) ==
    /\ c \in Cells \ used
    /\ used' = used \cup {c}
    /\ slot' = [slot EXCEPT ![s] = c]
    /\ named' \in {named, named \cup {c}}
    /\ \E F \in Shapes : \E r \in [F -> {v \in Values : Expressible(v)}] :
           refs' = [refs EXCEPT ![c] = r]

\* A name does not keep an object, but the object keeps its name.
Forget(c) ==
    /\ c \in named \ Reachable(Held)
    /\ named' = named \ {c}
    /\ UNCHANGED <<slot, refs, used>>

Reclaim(c) ==
    /\ c \in used \ Reachable(Held \cup named)
    /\ used' = used \ {c}
    /\ refs' = [refs EXCEPT ![c] = NoFields]
    /\ UNCHANGED <<slot, named>>

Next ==
    \/ \E s \in Slots, v \in Values : Assign(s, v)
    \/ \E d, s \in Slots : Move(d, s)
    \/ \E c \in Cells, v \in Values : \E f \in DOMAIN refs[c] : SetField(c, f, v)
    \/ \E s \in Slots, c \in Cells : New(s, c)
    \/ \E c \in Cells : Forget(c) \/ Reclaim(c)

Spec == Init /\ [][Next]_memory_vars
-----------------------------------------------------------------------------
\* The promise itself: what can be reached is there.  A slot, a symbol or a
\* field of a reachable object never refers to a reclaimed cell.
NothingDangles == Reachable(Held \cup named) \subseteq used
=============================================================================
