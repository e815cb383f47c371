-------------------------------- MODULE Heap --------------------------------
(***************************************************************************)
(* The memory manager of the interpreter (src/src/main.c, section "Memory  *)
(* management", and collect()): reference counts, the free list and the    *)
(* in-use lists, pages, and the mark-and-sweep collector that takes what   *)
(* counting leaves behind.                                                 *)
(*                                                                         *)
(* sx_release, sx_mark and sx_free call each other recursively; work is    *)
(* what their C activations have still to do, innermost call first.  The   *)
(* program goes on when work is empty.                                     *)
(***************************************************************************)
EXTENDS Integers, Sequences, FiniteSets, SequencesExt

CONSTANTS
    Pages,    \* the pages mmap can deliver, each the set of its cells
    NSlots,   \* slots of the eval stack
    Nil,      \* the null sx_t
    Types,    \* the types of the objects the program makes
    Collects  \* whether collect() is ever called: by sx_alloc or by the program

\* The references an object of each type retains when it is made.  The data of
\* arrays, sets and dictionaries is represented by one element.
Retained == [
    str        |-> << >>,
    sym        |-> << >>,
    subr       |-> <<"name">>,
    file       |-> <<"filename", "mode">>,
    array      |-> <<"data">>,
    closure    |-> <<"expr", "dict">>,
    module     |-> <<"name", "sha1", "dict">>,
    lib        |-> <<"name", "sha1", "dict">>,
    dptr       |-> <<"car", "cdr">>,
    obj        |-> <<"inst_of", "dict">>,
    class      |-> <<"inst_of", "name", "parent", "class_vars",
                     "class_methods", "inst_methods">>,
    method     |-> <<"class", "func">>,
    blob       |-> <<"inst_of">>,
    iter       |-> <<"sx">>,
    closuregen |-> <<"cl", "dict">>]

AllTypes == DOMAIN Retained

ModuleTypes == {"module", "lib"}

\* Mutant: a closure's dictionary is forgotten.
Marked_nodict == [Retained EXCEPT !.closure = <<"expr">>]

\* The references sx_mark follows.
Marked == [Retained EXCEPT !.module = <<"dict">>, !.lib = <<"dict">>,
                           !.obj = << >>, !.class = << >>, !.method = << >>,
                           !.blob = << >>]

\* Mutant: the class of an object is forgotten.
Released_noclass == [Retained EXCEPT !.module = << >>, !.method = << >>,
                                     !.obj = <<"dict">>]

\* The references sx_free and sx_cleanup release, in their order.  A module
\* read from a file (module) has no dlhdl, one from a library (lib) has.
Released == [Retained EXCEPT !.module = << >>, !.method = << >>,
                             !.obj = <<"dict", "inst_of">>,
                             !.class = <<"name", "parent", "class_vars",
                                 "class_methods", "inst_methods", "inst_of">>]

ASSUME HeapAssumption ==
    /\ IsFiniteSet(Pages) /\ Pages # {} /\ \A p \in Pages : IsFiniteSet(p) /\ p # {}
    /\ \A p, q \in Pages : p # q => p \cap q = {}
    /\ NSlots \in Nat \ {0} /\ Nil \notin UNION Pages
    /\ Types \subseteq AllTypes /\ Collects \in BOOLEAN

Cells == UNION Pages

Values == Cells \cup {Nil}

Slots == 1 .. NSlots

PageOf(c) == CHOOSE p \in Pages : c \in p

VARIABLES
    cell,        \* struct sx: type, fields, ref_cnt, and the list it is on
    in_use_cnt,  \* struct sx_page_hdr, by page
    slot,        \* the eval stack
    sym_set,     \* symbols in the symbol table
    permanent,   \* symbols made at start-up
    loaded,      \* the dictionary of loaded modules, by sha1
    want,        \* the object an interrupted sx_alloc is for, or NoWant
    work,        \* pending calls: [op, sx]
    status       \* "run" or "fatal"

vars == <<cell, in_use_cnt, slot, sym_set, permanent, loaded, want, work, status>>

NoFields == [f \in {} |-> Nil]

NoWant == [type |-> "none"]

FreeCell == [type |-> "none", refs |-> NoFields, ref_cnt |-> 0, list |-> "free"]

Unmapped == [FreeCell EXCEPT !.list = "unmapped"]

InUse(c) == cell[c].list \in {"white", "grey"}

OnList(list) == {c \in Cells : cell[c].list = list}

-----------------------------------------------------------------------------
(* Calls waiting to be made.                                               *)

Call(op, c) == [op |-> op, sx |-> c]

\* op on each of a sequence of values.
Calls(op, vals) == [i \in 1 .. Len(vals) |-> Call(op, vals[i])]

FieldValues(c, names) == [i \in 1 .. Len(names) |-> cell[c].refs[names[i]]]

\* What sx_free does, last the cleanup.  A pair is freed between its car and
\* its cdr, and its list is followed in a loop.
FreeCalls(c) ==
    IF cell[c].type = "dptr"
    THEN Calls("release", <<cell[c].refs["car"]>>) \o <<Call("free1", c)>>
         \o Calls("release", <<cell[c].refs["cdr"]>>)
    ELSE Calls("release", FieldValues(c, Released[cell[c].type]))
         \o <<Call("free1", c)>>

\* Mutant: the symbol table is not marked.
CollectCalls_nosymbols(symbols) ==
    Calls("mark", slot) \o <<Call("sweep", Nil), Call("sym_collect", Nil)>>

\* collect(): count from nothing, mark from the stack, clean up what is left
\* grey, and drop the symbols only the table holds.  The table is on the stack.
CollectCalls(symbols) ==
    Calls("mark", slot) \o Calls("mark", symbols)
    \o <<Call("sweep", Nil), Call("sym_collect", Nil)>>

Greyed == [c \in Cells |->
    IF InUse(c) THEN [cell[c] EXCEPT !.list = "grey", !.ref_cnt = 0] ELSE cell[c]]

-----------------------------------------------------------------------------
(* sx_release, sx_free1, sx_mark and the phases of collect().              *)

Running == status = "run"

Idle == Running /\ work = << >>

Now == Head(work)

Rest == Tail(work)

\* The head of work is a call of op.
Calling(op) == Running /\ work # << >> /\ Now.op = op

\* sx_release and sx_mark of nil.
CallNil ==
    /\ Calling("release") \/ Calling("mark")
    /\ Now.sx = Nil /\ work' = Rest
    /\ UNCHANGED <<cell, in_use_cnt, slot, sym_set, permanent, loaded, want, status>>

Decremented(c) == [cell EXCEPT ![c].ref_cnt = @ - 1]

Incremented(c) == [cell EXCEPT ![c].ref_cnt = @ + 1]

\* Mutant: only the count is looked at, not what the tables hold.
Release_plain ==
    /\ Calling("release") /\ Now.sx # Nil
    /\ LET c == Now.sx
       IN  /\ cell' = Decremented(c)
           /\ work' = (IF cell[c].ref_cnt = 1 THEN FreeCalls(c) ELSE << >>) \o Rest
    /\ UNCHANGED <<in_use_cnt, slot, sym_set, permanent, loaded, want, status>>

\* What module_free deletes: the entry of the module's sha1, whosever it is.
EntriesOf(c) ==
    IF cell[c].type \in ModuleTypes THEN DOMAIN loaded \cap {cell[c].refs["sha1"]}
    ELSE {}

\* sx_release.  At one reference a symbol leaves the symbol table and a module
\* the dictionary of loaded modules.
Release ==
    /\ Calling("release") /\ Now.sx # Nil
    /\ LET c == Now.sx
           n == cell[c].ref_cnt - 1
       IN  /\ cell' = Decremented(c)
           /\ \/ /\ n = 0
                 /\ work' = FreeCalls(c) \o Rest
                 /\ UNCHANGED <<sym_set, loaded>>
              \/ /\ n = 1 /\ c \in sym_set \ permanent
                 /\ sym_set' = sym_set \ {c}
                 /\ work' = Calls("release", <<c>>) \o Rest
                 /\ UNCHANGED loaded
              \/ \E k \in EntriesOf(c) :
                 /\ n = 1
                 /\ loaded' = Restrict(loaded, DOMAIN loaded \ {k})
                 /\ work' = Calls("release", <<k, loaded[k]>>) \o Rest
                 /\ UNCHANGED sym_set
              \/ /\ n # 0 /\ ~(n = 1 /\ (c \in sym_set \ permanent \/ EntriesOf(c) # {}))
                 /\ work' = Rest
                 /\ UNCHANGED <<sym_set, loaded>>
    /\ UNCHANGED <<in_use_cnt, slot, permanent, want, status>>

\* Mutant: the page header is not counted down.
Free1_uncounted ==
    /\ Calling("free1")
    /\ cell' = [cell EXCEPT ![Now.sx] = FreeCell]
    /\ work' = Rest
    /\ UNCHANGED <<in_use_cnt, slot, sym_set, permanent, loaded, want, status>>

\* sx_free1: onto the free list, and the page goes with its last cell.
Free1 ==
    /\ Calling("free1")
    /\ LET c == Now.sx
           p == PageOf(c)
       IN  /\ in_use_cnt' = [in_use_cnt EXCEPT ![p] = @ - 1]
           /\ cell' = [d \in Cells |->
                  IF PageOf(d) = p /\ in_use_cnt[p] = 1 THEN Unmapped
                  ELSE IF d = c THEN FreeCell ELSE cell[d]]
    /\ work' = Rest
    /\ UNCHANGED <<slot, sym_set, permanent, loaded, want, status>>

\* Mutant: what a marked object refers to is not marked.
Mark_shallow ==
    /\ Calling("mark") /\ Now.sx # Nil
    /\ cell' = [Incremented(Now.sx) EXCEPT ![Now.sx].list = "white"]
    /\ work' = Rest
    /\ UNCHANGED <<in_use_cnt, slot, sym_set, permanent, loaded, want, status>>

\* sx_mark: the first mark moves the object to the white list and goes on.
Mark ==
    /\ Calling("mark") /\ Now.sx # Nil
    /\ LET c == Now.sx
       IN  IF cell[c].ref_cnt = 0
           THEN /\ cell' = [Incremented(c) EXCEPT ![c].list = "white"]
                /\ work' = Calls("mark", FieldValues(c, Marked[cell[c].type])) \o Rest
           ELSE cell' = Incremented(c) /\ work' = Rest
    /\ UNCHANGED <<in_use_cnt, slot, sym_set, permanent, loaded, want, status>>

\* Mutant: a clean-up releases references, like sx_free.
Sweep_freeing ==
    /\ Calling("sweep")
    /\ \/ \E c \in OnList("grey") : work' = FreeCalls(c) \o work
       \/ OnList("grey") = {} /\ work' = Rest
    /\ UNCHANGED <<cell, in_use_cnt, slot, sym_set, permanent, loaded, want, status>>

\* Mutant: the loop follows a list that each clean-up unlinks.
Sweep_once ==
    /\ Calling("sweep")
    /\ \/ \E c \in OnList("grey") : work' = <<Call("free1", c)>> \o Rest
       \/ OnList("grey") = {} /\ work' = Rest
    /\ UNCHANGED <<cell, in_use_cnt, slot, sym_set, permanent, loaded, want, status>>

\* The loop over the grey list: sx_cleanup releases no references.
Sweep ==
    /\ Calling("sweep")
    /\ \/ \E c \in OnList("grey") : work' = <<Call("free1", c)>> \o work
       \/ OnList("grey") = {} /\ work' = Rest
    /\ UNCHANGED <<cell, in_use_cnt, slot, sym_set, permanent, loaded, want, status>>

\* Mutant: symbols that only garbage referred to stay in the table.
SymCollect_none ==
    /\ Calling("sym_collect")
    /\ work' = Rest
    /\ UNCHANGED <<cell, in_use_cnt, slot, sym_set, permanent, loaded, want, status>>

\* sym_collect: symbols that were marked from the table alone.
SymCollect ==
    /\ Calling("sym_collect")
    /\ LET lone == {c \in sym_set \ permanent : cell[c].ref_cnt = 1}
       IN  \/ \E c \in lone : /\ sym_set' = sym_set \ {c}
                              /\ work' = <<Call("release", c)>> \o work
           \/ lone = {} /\ work' = Rest /\ UNCHANGED sym_set
    /\ UNCHANGED <<cell, in_use_cnt, slot, permanent, loaded, want, status>>

-----------------------------------------------------------------------------
(* sx_alloc and the constructors.                                          *)

Free == OnList("free")

FreshPages == {p \in Pages : in_use_cnt[p] = 0}

\* Cells sx_alloc can hand out: of the free list, or else of a new page.
Available ==
    IF Free # {} THEN Free ELSE UNION FreshPages

\* The page of c joins the free list if it is new.
WithPage(c) == [d \in Cells |->
    IF PageOf(d) = PageOf(c) /\ cell[d].list = "unmapped" THEN FreeCell ELSE cell[d]]

\* Mutant: a value is retained once, however often it is referred to.
Retains_once(v, r) == IF \E f \in DOMAIN r : r[f] = v THEN 1 ELSE 0

\* sx_retain of v by a new object whose fields are r.
Retains(v, r) == Cardinality({f \in DOMAIN r : r[f] = v})

\* A constructor with the cell c: retain what the object refers to and assign it
\* to its slot.  A new symbol is entered into the symbol table.
Build(w, c) ==
    LET tabled == {c} \cap {d \in Cells : w.type = "sym"}
    IN  /\ cell' = [d \in Cells |->
               IF d = c
               THEN [type |-> w.type, refs |-> w.refs, list |-> "white",
                     ref_cnt |-> 1 + Cardinality(tabled)]
               ELSE [WithPage(c)[d] EXCEPT !.ref_cnt = @ + Retains(d, w.refs)]]
        /\ in_use_cnt' = [in_use_cnt EXCEPT ![PageOf(c)] = @ + 1]
        /\ slot' = [slot EXCEPT ![w.dst] = c]
        /\ sym_set' = sym_set \cup tabled
        /\ work' = Calls("release", <<slot[w.dst]>>)
        /\ want' = NoWant
        /\ UNCHANGED <<permanent, loaded, status>>

Want(t, r, d) == [type |-> t, refs |-> r, dst |-> d]

\* What the program can name: nil, what slots hold, and what those refer to.
Expressible ==
    {Nil} \cup sym_set \cup Range(loaded) \cup {slot[s] : s \in Slots}
    \cup UNION {{cell[slot[s]].refs[f] : f \in DOMAIN cell[slot[s]].refs} :
                   s \in {s \in Slots : slot[s] # Nil}}

\* What the fields that matter to the memory manager can hold.
FieldTypes == [name |-> {"str", "sym"}, sha1 |-> {"str"}, dict |-> {"array"},
               class |-> {"class"}, func |-> {"subr", "dptr"},
               filename |-> {"str"}, mode |-> {"str"}, inst_of |-> {"class"},
               parent |-> {"class"}, class_vars |-> {"array"},
               class_methods |-> {"array"}, inst_methods |-> {"array"},
               cl |-> {"closure"}]

\* A nil field stands for an object that plays no part.
CanHold(f, v) ==
    \/ v = Nil /\ f \notin {"sha1", "class", "func", "cl"}
    \/ v # Nil /\ (f \in DOMAIN FieldTypes => cell[v].type \in FieldTypes[f])

FieldsOf(t) == {Retained[t][i] : i \in DOMAIN Retained[t]}

\* The arguments of a constructor are on the stack.
Contents(t) ==
    {r \in [FieldsOf(t) -> {Nil} \cup {slot[s] : s \in Slots}] :
        \A f \in FieldsOf(t) : CanHold(f, r[f])}

New(t, d) ==
    /\ Idle
    /\ \E r \in Contents(t) :
           \/ \E c \in Available : Build(Want(t, r, d), c)
           \/ /\ Available = {} /\ Collects
              /\ cell' = Greyed
              /\ want' = Want(t, r, d)
              /\ \E symbols \in SetToSeqs(sym_set) :
                     work' = CollectCalls(symbols) \o <<Call("alloc", Nil)>>
              /\ UNCHANGED <<in_use_cnt, slot, sym_set, permanent, loaded, status>>

\* After the collection sx_alloc asks for a page again, whatever the free list
\* has become, and gives up if there is none.
Retry ==
    /\ Calling("alloc")
    /\ \/ \E c \in UNION FreshPages : Build(want, c)
       \/ /\ FreshPages = {}
          /\ status' = "fatal"
          /\ UNCHANGED <<cell, in_use_cnt, slot, sym_set, permanent, loaded, want, work>>

-----------------------------------------------------------------------------
(* The program, between calls of the memory manager.                       *)

\* Mutant: the new value is not retained.
Assign_unretained(s, v) ==
    /\ Idle
    /\ slot' = [slot EXCEPT ![s] = v]
    /\ work' = Calls("release", <<slot[s]>>)
    /\ UNCHANGED <<cell, in_use_cnt, sym_set, permanent, loaded, want, status>>

\* sx_assign, sx_assign_nil and eval_pop.
Assign(s, v) ==
    /\ Idle
    /\ cell' = IF v = Nil THEN cell ELSE Incremented(v)
    /\ slot' = [slot EXCEPT ![s] = v]
    /\ work' = Calls("release", <<slot[s]>>)
    /\ UNCHANGED <<in_use_cnt, sym_set, permanent, loaded, want, status>>

\* sx_move
Move(d, s) ==
    /\ Idle
    /\ slot' = [slot EXCEPT ![d] = slot[s], ![s] = Nil]
    /\ work' = Calls("release", <<slot[d]>>)
    /\ UNCHANGED <<cell, in_use_cnt, sym_set, permanent, loaded, want, status>>

\* The elements of arrays, sets and dictionaries are all that changes.
SetField(c, f, v) ==
    /\ Idle
    /\ cell' = [IF v = Nil THEN cell ELSE Incremented(v)
                 EXCEPT ![c].refs[f] = v]
    /\ work' = Calls("release", <<cell[c].refs[f]>>)
    /\ UNCHANGED <<in_use_cnt, slot, sym_set, permanent, loaded, want, status>>

\* Mutant: the entry does not retain its key.
Load_unkeyed(s) ==
    /\ Idle
    /\ slot[s] # Nil /\ cell[slot[s]].type \in ModuleTypes
    /\ slot[s] \notin Range(loaded)
    /\ LET k == cell[slot[s]].refs["sha1"]
       IN  /\ cell' = Incremented(slot[s])
           /\ loaded' = [x \in DOMAIN loaded \cup {k} |-> IF x = k THEN slot[s] ELSE loaded[x]]
           /\ work' = IF k \in DOMAIN loaded THEN Calls("release", <<k, loaded[k]>>)
                      ELSE << >>
    /\ UNCHANGED <<in_use_cnt, slot, sym_set, permanent, want, status>>

\* dict_atput in cf_module_new, once the file of the module in slot s has been
\* evaluated: an entry of the same sha1 is released first.
Load(s) ==
    /\ Idle
    /\ slot[s] # Nil /\ cell[slot[s]].type \in ModuleTypes
    /\ slot[s] \notin Range(loaded)
    /\ LET m == slot[s]
           k == cell[m].refs["sha1"]
       IN  /\ cell' = [Incremented(m) EXCEPT ![k].ref_cnt = @ + 1]
           /\ loaded' = [x \in DOMAIN loaded \cup {k} |-> IF x = k THEN m ELSE loaded[x]]
           /\ work' = IF k \in DOMAIN loaded THEN Calls("release", <<k, loaded[k]>>)
                      ELSE << >>
    /\ UNCHANGED <<in_use_cnt, slot, sym_set, permanent, want, status>>

Collect ==
    /\ Idle
    /\ Collects
    /\ cell' = Greyed
    /\ \E symbols \in SetToSeqs(sym_set) : work' = CollectCalls(symbols)
    /\ UNCHANGED <<in_use_cnt, slot, sym_set, permanent, loaded, want, status>>

-----------------------------------------------------------------------------
\* A page with one symbol of env_init, which is never dropped.
Init ==
    \E c \in Cells :
        /\ cell = [d \in Cells |->
               IF d = c THEN [type |-> "sym", refs |-> NoFields, ref_cnt |-> 1,
                              list |-> "white"]
               ELSE IF PageOf(d) = PageOf(c) THEN FreeCell ELSE Unmapped]
        /\ in_use_cnt = [p \in Pages |-> IF p = PageOf(c) THEN 1 ELSE 0]
        /\ sym_set = {c} /\ permanent = {c}
        /\ slot = [s \in Slots |-> Nil]
        /\ loaded = << >> /\ want = NoWant /\ work = << >> /\ status = "run"

Stopped == ~Running /\ UNCHANGED vars

Next ==
    \/ CallNil \/ Release \/ Free1 \/ Mark \/ Sweep \/ SymCollect \/ Retry
    \/ \E t \in Types, d \in Slots : New(t, d)
    \/ \E s \in Slots, v \in Expressible : Assign(s, v)
    \/ \E d, s \in Slots : d # s /\ Move(d, s)
    \/ \E s \in Slots, v \in Expressible :
           /\ slot[s] # Nil /\ cell[slot[s]].type = "array"
           /\ \E f \in FieldsOf("array") : SetField(slot[s], f, v)
    \/ \E s \in Slots : Load(s)
    \/ Collect
    \/ Stopped

Spec == Init /\ [][Next]_vars
-----------------------------------------------------------------------------
(* Properties.                                                             *)

\* The heap, the tables and the pending calls have their types.
TypeOK ==
    /\ \A c \in Cells :
           /\ cell[c].type \in AllTypes \cup {"none"}
           /\ DOMAIN cell[c].refs = IF cell[c].type = "none" THEN {} ELSE FieldsOf(cell[c].type)
           /\ \A f \in DOMAIN cell[c].refs : cell[c].refs[f] \in Values
           /\ cell[c].ref_cnt \in Nat
           /\ cell[c].list \in {"unmapped", "free", "white", "grey"}
    /\ in_use_cnt \in [Pages -> Nat]
    /\ slot \in [Slots -> Values]
    /\ permanent \subseteq sym_set /\ sym_set \subseteq Cells
    /\ DOMAIN loaded \subseteq Cells /\ Range(loaded) \subseteq Cells
    /\ \A i \in DOMAIN work : work[i].sx \in Values
    /\ status \in {"run", "fatal"}

\* The pending calls of op on c.
Pending(op, c) == Cardinality({i \in DOMAIN work : work[i] = Call(op, c)})

\* What refers to c: slots, the symbol table, the dictionary of loaded modules
\* and fields of objects that are themselves referred to.
References(c) ==
    Cardinality({s \in Slots : slot[s] = c})
    + Cardinality({c} \cap sym_set)
    + Cardinality({c} \cap DOMAIN loaded)
    + Cardinality({k \in DOMAIN loaded : loaded[k] = c})
    + Cardinality(UNION {{<<d, f>> : f \in {f \in DOMAIN cell[d].refs :
                                               cell[d].refs[f] = c}} :
                           d \in {d \in Cells : cell[d].ref_cnt > 0}})

\* A reference count is exact, also half way through the release of a deep
\* structure and half way through marking: it lacks only the marks still to come
\* and exceeds the references only by the releases still to come.
RefCntExact ==
    \A c \in Cells :
        cell[c].ref_cnt + Pending("mark", c) = References(c) + Pending("release", c)

\* While the program runs, no object without references lingers, every mapped
\* page has an object in use and the page header counts those it has.
NothingLingers ==
    Idle => /\ \A c \in Cells : InUse(c) <=> cell[c].ref_cnt > 0
            /\ \A p \in Pages :
                   LET used == {c \in p : InUse(c)}
                   IN  /\ in_use_cnt[p] = Cardinality(used)
                       /\ used = {} <=> \A c \in p : cell[c].list = "unmapped"

\* A symbol or a loaded module that only its table refers to is dropped at once:
\* the tables do not keep an object alive.
TablesDoNotHold ==
    Idle => \A c \in (sym_set \ permanent) \cup Range(loaded) : cell[c].ref_cnt > 1

\* What sx_free is to do (the comment before sx_cleanup): "free MUST release
\* references to other sexprs", so that no object is counted too often.
FreeReleases == Idle => \A c \in Cells : cell[c].ref_cnt <= References(c)

M == INSTANCE Memory WITH
         Shapes <- {FieldsOf(t) : t \in AllTypes},
         refs <- [c \in Cells |-> cell[c].refs],
         used <- {c \in Cells : InUse(c)},
         named <- sym_set

\* Nothing that the program can reach is ever reclaimed, and nothing that it can
\* reach changes under its hands: not by counting, not by a collection at any
\* moment, nor by both in turn.
MemorySpec == M!Spec

\* A slot, a table or a field of a reachable object never refers to a free cell.
NothingDangles == M!Reachable(M!Held \cup sym_set \cup Range(loaded)) \subseteq {c \in Cells : InUse(c)}

\* What marking is to do (the comment before sx_cleanup): of an object that is
\* cleaned up by a collection, "the object was unreachable during marking".
SweptUnreachable ==
    Calling("sweep") => OnList("grey") \cap M!Reachable(M!Held \cup sym_set) = {}

\* A collection takes all garbage, cycles too: once the grey list has been swept,
\* all that is in use can be reached.
CollectionComplete ==
    Calling("sym_collect") => {c \in Cells : InUse(c)} \subseteq M!Reachable(M!Held \cup sym_set)
=============================================================================
