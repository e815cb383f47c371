----------------------------- MODULE HashDict -----------------------------
(***************************************************************************)
(* Sets and dictionaries (src/src/main.c): an array of bucket lists and a  *)
(* count.  A search compares keys by calling their equal method, which may *)
(* be the user's: it may raise, and it may use the same table again while  *)
(* the search holds a pointer into a bucket list.                          *)
(*                                                                         *)
(* A pointer p of the code is a bucket or a cell; what it points at is the   *)
(* first cell of the bucket, or the cell after that cell.                  *)
(***************************************************************************)
EXTENDS Integers, Sequences, SequencesExt

CONSTANTS
    Keys, Vals,
    HashOf(_),    \* what sx_hash returns for a key
    Equal(_, _),  \* what the equal method returns
    NoVal,        \* nil
    Size,         \* buckets: a power of two that never changes
    Cells,        \* list cells to be had
    Nil,          \* C's null pointer
    Methods,      \* what equal methods may call on the same table: the sets of operations
    MaxDepth      \* nesting of operations

OpsOf == [set |-> {"at", "put"}, dict |-> {"at", "ate", "atput", "del"}]

ASSUME HashDictAssumption ==
    /\ Size \in Nat \ {0} /\ \E n \in 0 .. Size : Size = 2 ^ n
    /\ Nil \notin Cells \cup Keys /\ Cells \cap (0 .. Size - 1) = {} /\ MaxDepth \in Nat \ {0}
    /\ Methods \subseteq SUBSET (OpsOf.set \cup OpsOf.dict)
    /\ \A k \in Keys : HashOf(k) \in Nat
    /\ \A j, k \in Keys : Equal(j, k) \in BOOLEAN

VARIABLES
    kind,    \* "set" or "dict"
    callbacks, \* what the equal methods of this program call
    chain,   \* struct sx_arrayval: the cells of each bucket list
    entry,   \* what a cell holds: an element, or a key and its value
    cnt,     \* the count of struct sx_setval
    frozen,
    calls,   \* operations in progress, innermost last
    ret,     \* what the last operation returned or raised
    wild     \* a pointer into a freed cell, or a null one, has been followed

tvars == <<kind, callbacks, chain, entry, cnt, frozen, calls, ret, wild>>

Buckets == 0 .. Size - 1

Pair(k, v) == [key |-> k, val |-> v]

NoPair == Pair(NoVal, NoVal)

\* What the operation op on the key k has answered.
Result(op, k, what, e) == [op |-> op, of |-> k, what |-> what, key |-> e.key, val |-> e.val]

NoResult == Result("none", NoVal, "nil", NoPair)

Free == Pair(Nil, Nil)

Held == {c \in Cells : entry[c] # Free}

\* hash & (a->size - 1)
BucketOf(k) == HashOf(k) % Size

Home(c) == CHOOSE b \in Buckets : c \in ToSet(chain[b])

IndexIn(b, c) == CHOOSE i \in 1 .. Len(chain[b]) : chain[b][i] = c

FirstFrom(b, i) == IF i <= Len(chain[b]) THEN chain[b][i] ELSE Nil

\* The place in the bucket list that a pointer names; 0 is the bucket itself.
Place(p) == IF p \in Buckets THEN 0 ELSE IndexIn(Home(p), p)

ListOf(p) == IF p \in Buckets THEN p ELSE Home(p)

\* *p
Deref(p) == FirstFrom(ListOf(p), Place(p) + 1)

Stale(p) == p \in Cells \ Held

-----------------------------------------------------------------------------
(* The operations' effects on the table, as functions from one [chain,     *)
(* entry, cnt] to the next.                                                *)

Table == [chain |-> chain, entry |-> entry, cnt |-> cnt]

\* cons(bucket, ..., *bucket)
Consed(t, b, c, e) == [t EXCEPT !.chain[b] = <<c>> \o @, !.entry[c] = e]

Counted(t, n) == [t EXCEPT !.cnt = @ + n]

\* sx_assign(p, cdr(*p)): the cell goes.
Unlinked(t, p) ==
    [t EXCEPT !.chain[ListOf(p)] = RemoveAt(@, Place(p) + 1), !.entry[Deref(p)] = Free]

Commit(t) == chain' = t.chain /\ entry' = t.entry /\ cnt' = t.cnt

\* The cell that cons takes, when there is one.
NewCell == Cells \ Held

-----------------------------------------------------------------------------
(* A search and what is done with its result.                              *)

Top == Last(calls)

InEqual == calls # << >> /\ Top.pc = "equal"

\* A call: what it searches for, the pointer it holds, and the key that
\* equal has been called with.
SearchFor(op, k, v) ==
    [op |-> op, key |-> k, val |-> v, p |-> BucketOf(k), seen |-> Nil, q |-> Nil,
     pc |-> "look"]

\* The program, or the equal method it is in, calls an operation.
CanCall(op) ==
    /\ ~wild /\ op \in OpsOf[kind]
    /\ \/ calls = << >>
       \/ InEqual /\ op \in callbacks /\ Len(calls) < MaxDepth

\* cf_dict_atput refuses a frozen dictionary; cf_set_put and cf_dict_del
\* take no notice.
Start(op, k, v) ==
    /\ CanCall(op)
    /\ IF op = "atput" /\ frozen
       THEN ret' = Result(op, k, "system.frozen", NoPair) /\ UNCHANGED calls
       ELSE calls' = Append(calls, SearchFor(op, k, v)) /\ ret' = NoResult
    /\ UNCHANGED <<chain, entry, cnt, frozen, wild>>

Return(what, e) == calls' = Front(calls) /\ ret' = Result(Top.op, Top.key, what, e)

\* What the operations that change the table return: their last argument.
ReturnGiven == Return("value", Pair(Top.key, Top.val))

\* The end of a search that has found nothing.
Missing ==
    LET b == BucketOf(Top.key)
    IN  CASE Top.op = "at"  -> /\ Return(IF kind = "set" THEN "false" ELSE "nil", NoPair)
                               /\ UNCHANGED <<chain, entry, cnt>>
          [] Top.op = "ate" -> Return("system.no-member", NoPair) /\ UNCHANGED <<chain, entry, cnt>>
          [] Top.op = "del" -> ReturnGiven /\ UNCHANGED <<chain, entry, cnt>>
          [] OTHER ->
             /\ \E c \in NewCell :
                    Commit(Counted(Consed(Table, b, c, Pair(Top.key, Top.val)), 1))
             /\ ReturnGiven

\* Mutant: del does not count down.
Found_uncounted ==
    LET p == Top.p
        e == IF Deref(p) = Nil THEN NoPair ELSE entry[Deref(p)]
    IN  /\ Commit(IF Top.op \in {"del", "atput"} THEN Unlinked(Table, p) ELSE Table)
        /\ IF Top.op \in {"at", "ate"} THEN Return("pair", e) ELSE ReturnGiven

\* The end of one whose result is Top.p.  The caller follows it again; at of a
\* set only looks whether it is null.
Found ==
    LET p == Top.p
        b == BucketOf(Top.key)
        e == IF Deref(p) = Nil THEN NoPair ELSE entry[Deref(p)]
    IN  CASE Top.op = "at"  -> /\ IF kind = "set" THEN Return("true", NoPair) ELSE Return("pair", e)
                               /\ UNCHANGED <<chain, entry, cnt>>
          [] Top.op = "ate" -> Return("value", Pair(NoVal, e.val)) /\ UNCHANGED <<chain, entry, cnt>>
          [] Top.op = "put" -> ReturnGiven /\ UNCHANGED <<chain, entry, cnt>>
          [] Top.op = "del" -> Commit(Counted(Unlinked(Table, p), -1)) /\ ReturnGiven
          [] Top.op = "atput" ->
             /\ LET t == Unlinked(Table, p)
                IN  \E n \in {x \in Cells : t.entry[x] = Free} :
                        Commit(Consed(t, b, n, Pair(Top.key, Top.val)))
             /\ ReturnGiven

\* Following a pointer into a freed cell, or a null one: nothing is known of what comes next.
GoWild == wild' = TRUE /\ UNCHANGED <<kind, callbacks, chain, entry, cnt, frozen, calls, ret>>

\* q = *p: the end of the list, or a call of equal with the key in q.
Look ==
    /\ ~wild /\ calls # << >> /\ Top.pc = "look"
    /\ IF Stale(Top.p) THEN GoWild
       ELSE /\ IF Deref(Top.p) = Nil
               THEN Missing
               ELSE /\ calls' = [calls EXCEPT ![Len(calls)] =
                           [@ EXCEPT !.pc = "equal", !.q = Deref(Top.p),
                                     !.seen = entry[Deref(Top.p)].key]]
                    /\ UNCHANGED <<chain, entry, cnt, ret>>
            /\ UNCHANGED <<frozen, wild>>

\* Mutant: only the first cell of a bucket is compared.
EqualReturns_first ==
    /\ ~wild /\ InEqual
    /\ IF Equal(Top.key, Top.seen) THEN Found ELSE Missing
    /\ UNCHANGED <<frozen, wild>>

\* Mutant: p stays where it is.
EqualReturns_stays ==
    /\ ~wild /\ InEqual
    /\ IF Equal(Top.key, Top.seen)
       THEN Found /\ UNCHANGED <<frozen, wild>>
       ELSE /\ calls' = [calls EXCEPT ![Len(calls)] = [@ EXCEPT !.pc = "look"]]
            /\ UNCHANGED <<chain, entry, cnt, frozen, ret, wild>>

\* equal returns.  Found: the caller follows p, and in a dictionary what p points at, which
\* equal may have deleted.  Not found: p = &q->cdr.
EqualReturns ==
    /\ ~wild /\ InEqual
    /\ IF Equal(Top.key, Top.seen)
       THEN IF Stale(Top.p) \/ (kind = "dict" /\ Deref(Top.p) = Nil)
            THEN GoWild
            ELSE Found /\ UNCHANGED <<frozen, wild>>
       ELSE /\ calls' = [calls EXCEPT ![Len(calls)] = [@ EXCEPT !.pc = "look", !.p = Top.q]]
            /\ UNCHANGED <<chain, entry, cnt, frozen, ret, wild>>

\* equal raises: the operation is given up; an equal method around it may
\* catch the exception or raise on.
EqualRaises ==
    /\ ~wild /\ InEqual
    /\ calls' = Front(calls)
    /\ UNCHANGED <<chain, entry, cnt, frozen, ret, wild>>

Freeze ==
    /\ ~wild /\ calls = << >> /\ ~frozen
    /\ frozen' = TRUE
    /\ UNCHANGED <<chain, entry, cnt, calls, ret, wild>>

TInit ==
    /\ kind \in {"set", "dict"} /\ callbacks \in Methods
    /\ chain = [b \in Buckets |-> << >>]
    /\ entry = [c \in Cells |-> Free]
    /\ cnt = 0 /\ frozen = FALSE
    /\ calls = << >> /\ ret = NoResult /\ wild = FALSE

\* Room for the cells that the operations in progress may need.
Room == Cardinality(Held) + Len(calls) < Cardinality(Cells)

TNext ==
    /\ \/ \E k \in Keys :
             \/ \E op \in {"at", "ate", "del"} : Start(op, k, NoVal)
             \/ Room /\ Start("put", k, NoVal)
             \/ Room /\ \E v \in Vals : Start("atput", k, v)
       \/ Look \/ EqualReturns \/ EqualRaises \/ Freeze
    /\ UNCHANGED <<kind, callbacks>>

\* A call of equal that does not run the table's operations for ever returns.
Progress(d) == Len(calls) = d /\ (Look \/ EqualReturns) /\ UNCHANGED <<kind, callbacks>>

TSpec ==
    /\ TInit /\ [][TNext]_tvars
    /\ \A d \in 1 .. MaxDepth : SF_tvars(Progress(d))

-----------------------------------------------------------------------------
TypeOK ==
    /\ chain \in [Buckets -> Seq(Cells)]
    /\ entry \in [Cells -> [key : Keys \cup {Nil}, val : Vals \cup {NoVal, Nil}]]
    /\ kind \in {"set", "dict"} /\ callbacks \in Methods /\ cnt \in Nat /\ frozen \in BOOLEAN /\ wild \in BOOLEAN
    /\ Len(calls) <= MaxDepth

\* The lists hold exactly the cells in use, each once, and the count is their
\* number: also half way through a search, and after one was given up.
CntExact ==
    /\ \A b \in Buckets : IsInjective(chain[b])
    /\ \A a, b \in Buckets : a # b => ToSet(chain[a]) \cap ToSet(chain[b]) = {}
    /\ UNION {ToSet(chain[b]) : b \in Buckets} = Held
    /\ cnt = Cardinality(Held)

\* A search over a list that user code adds to comes to an end.
SearchEnds == calls # << >> ~> (calls = << >> \/ wild)

\* The promise: the cells' entries are the map, and an operation happens when
\* its search ends.  It is kept unless an equal method changes the table that it
\* is called from.
Map == INSTANCE KVMap WITH map <- {entry[c] : c \in Held}

LooksOnly == callbacks \subseteq {"at", "ate"}

MapSpec == Map!KInit /\ [][LooksOnly => Map!KNext]_(Map!kvars)

=============================================================================
