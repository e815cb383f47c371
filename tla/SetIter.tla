------------------------------ MODULE SetIter ------------------------------
(***************************************************************************)
(* Iterating over a frozen set or dictionary (src/src/main.c, toiter, next *)
(* and reset of setiter), while the program goes on using the table.  The  *)
(* iterator keeps a bucket index and a pointer to the cell that comes      *)
(* next, which it does not retain; put and del do not look at frozen.      *)
(***************************************************************************)
EXTENDS HashDict

CONSTANT MaxResets   \* bound on how often the program starts again

VARIABLES
    idx, li,   \* struct sx_iterval
    phase,     \* "none", "going", or "done" once next has returned nil
    seen,      \* the cells whose elements have been returned
    again,     \* an element has been returned twice
    due,       \* the cells in the table when the iteration began
    resets

ivars == <<idx, li, phase, seen, again, due, resets>>

vars == <<tvars, ivars>>

\* The first bucket that is not empty, from b on; Size when there is none.
FirstBucket(b) ==
    CHOOSE n \in b .. Size :
        /\ n = Size \/ chain[n] # << >>
        /\ \A m \in b .. n - 1 : chain[m] = << >>

BucketHead(b) == IF b = Size THEN Nil ELSE Head(chain[b])

\* Mutant: the scan starts at the second bucket.
Begin_second ==
    /\ idx' = FirstBucket(1) /\ li' = BucketHead(FirstBucket(1))
    /\ phase' = "going" /\ seen' = {} /\ UNCHANGED again /\ due' = Held

\* The scan for the first element, in toiter and in reset.
Begin ==
    /\ idx' = FirstBucket(0) /\ li' = BucketHead(FirstBucket(0))
    /\ phase' = "going" /\ seen' = {} /\ UNCHANGED again /\ due' = Held

ToIter ==
    /\ ~wild /\ calls = << >> /\ phase = "none"
    /\ frozen                                    \* else system.not-frozen
    /\ Begin
    /\ UNCHANGED <<tvars, resets>>

Reset ==
    /\ ~wild /\ calls = << >> /\ phase # "none" /\ resets < MaxResets
    /\ Begin
    /\ resets' = resets + 1
    /\ UNCHANGED tvars

\* Mutant: the scan starts at the bucket that has just been exhausted.
Advance_same(after) ==
    IF after # Nil THEN li' = after /\ UNCHANGED idx
    ELSE li' = BucketHead(FirstBucket(idx)) /\ idx' = FirstBucket(idx)

\* Mutant: the index is stepped once more after the scan.
Advance_past(after) ==
    IF after # Nil THEN li' = after /\ UNCHANGED idx
    ELSE li' = BucketHead(FirstBucket(idx + 1)) /\ idx' = FirstBucket(idx + 1) + 1

\* i->li = cdr(li), or the head of the next bucket that has one.  After the
\* last bucket li is not used any more, and may still name the last cell.
Advance(after) ==
    IF after # Nil THEN li' = after /\ UNCHANGED idx
    ELSE LET b == FirstBucket(idx + 1)
         IN  idx' = b /\ li' = IF idx + 1 = Size THEN li ELSE BucketHead(b)

IterNext ==
    /\ ~wild /\ calls = << >> /\ phase = "going"
    /\ IF idx >= Size
       THEN phase' = "done" /\ UNCHANGED <<tvars, idx, li, seen, again, due, resets>>
       ELSE IF Stale(li)
       THEN GoWild /\ UNCHANGED ivars
       ELSE /\ seen' = seen \cup {li} /\ again' = (again \/ li \in seen)
            /\ Advance(Deref(li))
            /\ UNCHANGED <<tvars, phase, due, resets>>

Init ==
    /\ TInit
    /\ idx = 0 /\ li = Nil /\ phase = "none" /\ seen = {} /\ again = FALSE
    /\ due = {} /\ resets = 0

Next == (TNext /\ UNCHANGED ivars) \/ ToIter \/ Reset \/ IterNext

\* foreach, mapcar and outer call next until it returns nil.
Spec == Init /\ [][Next]_vars /\ SF_vars(IterNext)
        /\ \A d \in 1 .. MaxDepth : SF_vars(Progress(d) /\ UNCHANGED ivars)

-----------------------------------------------------------------------------
IterTypeOK ==
    /\ TypeOK
    /\ idx \in 0 .. Size /\ li \in Cells \cup {Nil}
    /\ phase \in {"none", "going", "done"} /\ seen \subseteq Cells /\ due \subseteq Cells

\* What the iteration has still to return if nothing more is put.
Ahead ==
    IF phase # "going" \/ idx = Size THEN {}
    ELSE {c \in Held : LET b == Home(c)
                       IN  b > idx \/ (b = idx /\ IndexIn(b, c) >= IndexIn(b, li))}

\* No element comes twice, and none that is still ahead has come already, even
\* when elements are put into the frozen set meanwhile.
EachOnce == kind = "set" => ~again /\ Ahead \cap seen = {}

\* No element that was there at the start is lost.
NoneMissed == kind = "set" /\ phase # "none" => due \subseteq seen \cup Ahead

\* An iteration that is driven by a loop comes to its end.
IterationEnds == phase = "going" ~> (phase = "done" \/ wild)

\* A frozen table does not change.
FrozenImmutable == [][frozen => entry' = entry]_vars

=============================================================================
