# A TLA+ development of the ll6 Lisp interpreter

This directory holds TLA+ modules that model the interpreter in `src/`, TLC
configurations that check them on small instances, and TLAPS proofs of theorems
about them. `PROJECT.json` maps every definition to the lines it models.

## 1. Inventory of the system

ll6 is a Lisp interpreter in C: one process, one thread. Nearly all of it is
`src/src/main.c`; libraries (`os.c`, `socket.c`, `regexp.c`, `serialize.c`, ...)
are loaded as shared objects, and some programs in the language itself live in
`src/libs`. There is no concurrency; what is hard is control that leaves many C
activations at once (`setjmp`/`longjmp`), memory shared by reference counts *and*
a collector, evaluation that re-enters data structures while they are being
read, and the limits of stacks, pages and integers.

| Component | State | Operations | Interacts with | Hard part | What makes it correct |
|---|---|---|---|---|---|
| VM stacks (`main.c` 873-1464) | frame stack, one chain per frame type (`type_fp`, `type_prev`), eval stack `sp`, `except_lvl`, `debug_lvl`, `except_top` | `frame_push`, `frame_pop1`, `frame_unwind`, `vm_state_save/restore`, `frame_longjmp_*`, `except_raise1`, `eval_alloc/unwind` | every function of the evaluator | an exit may drop any number of frames of any mixture of types | chains never dangle, no jump to a dead function, no slot or buffer leaks, innermost handler runs, exception level comes down |
| Memory manager (205-860, 1483-1511) | cells with `ref_cnt`, free list, white and grey in-use lists, pages with `in_use_cnt` | `sx_alloc`, `sx_retain`, `sx_release`, `sx_free`, `sx_cleanup`, `sx_free1`, `sx_mark`, `collect` | all values; eval-stack slots are the roots | recursion of releases, cycles, per-type tables of what is released and what is marked | a cell is freed when and only when it cannot be reached |
| Symbol table (1700-1845) | one set of interned symbols | `sym_new*`, `sym_free`, `sym_collect` | memory manager | its own reference must not keep a symbol alive | one cell per name; unused symbols go |
| Sets and dictionaries (2622-2870) | arrays of bucket lists, `cnt` | `set_find`, `_set_put`, `_set_del`, `dict_*` | `equal` and `hash` methods, possibly the user's | user code runs in the middle of a search | a map; `cnt` is its size |
| Environments (1399-1425, 2870-3100) | ENV frames with `up` links | lookup, `setq`, `let`, `def` | VM stacks, dictionaries | frames refer to dictionaries without retaining them | lexical lookup as the language promises |
| Evaluation and calls (2336-2560, 3700-3800, 5550-5800) | none of its own | `sx_eval`, `method_find`, `method_call_*`, argument binding, closures | all | three-level call protocol, evaluation suppression | each argument evaluated exactly once |
| Reader (3000-3700) | input frame: depth, echo, buffer | `sx_read` and the lexer | VM stacks (buffers), symbol table | end of input anywhere, errors in the middle of a form | one form per read, resynchronised after an error |
| Printer (3800-3862) | `visited` flag of each cell | `sx_repr`, `sx_tostring` | user methods | circular data; exceptions on the way | terminates, leaves no flag behind |
| Iterators, generators, freezing (8590-9345) | index and cell of an iteration, `frozen` flag | `toiter`, `next`, `reset`, `freeze` | containers | container changed during an iteration | every element once |
| Lists, arrays, strings | none of their own | slice, sort, append, ... | | boundary arithmetic | reference definitions |
| Modules (7250-7530) | loaded-modules dictionary | `cf_module_new`, `load_file`, `load_lib`, `module_free` | reader, memory manager, VM stacks | circular loads, unloading from a release | loaded once, unloaded when unused |
| Classes and objects | method dictionaries | `class_new`, `method_find` | dictionaries | inheritance | nearest definition wins |
| Loop and debugger (8682-8824) | REP, EXCEPT, INPUT frames | `rep`, `debug_rep` | all | errors at the prompt, nested loops | the prompt finds the stacks clean |
| `serialize.c` | none | encode, decode | | length encodings | round trip |
| `socket.c`, `os.c`, `regexp.c`, `math.c`, `datetime.c` | none | wrappers of library calls | | errors of the calls | |
| `libs/hpmake*.l` | dependency graph | make | | cycles, timestamps | |

`threads.c`, `gtk*.c`, `gtk.cpp` and `packedarray.c` are experiments the build leaves out.

## 2. Modules, and what is left

The order followed importance: what every program run depends on came first.

| Module | Models | Composes, implements |
|---|---|---|
| `VmStack` | stacks and non-local exits | |
| `VmStackProofs` | | theorems about `VmStack` |
| `Heap` | reference counts, collector, pages, the tables of symbols and loaded modules | implements `Memory` |
| `Memory` | what a memory manager promises | |
| `HeapProofs` | | theorems about `Heap` |
| `HashDict` | sets and dictionaries with `equal` methods of the program | implements `KVMap` |
| `KVMap` | a finite map | |
| `SetIter` | iteration over a frozen set or dictionary | extends `HashDict` |
| `TablesProofs` | | theorems about `HashDict` and `SetIter` |
| `CallProtocol` | calls, method lookup, argument evaluation | implements `CallPromise` |
| `CallPromise` | what a call promises of its arguments | |
| `CallProofs` | | theorems about `CallProtocol` |
| `Scopes` | environment frames and bindings | |
| `ScopesProofs` | | theorems about `Scopes` |
| `Sort` | sorting in place with comparisons of the program | |
| `SortProofs` | | theorems about `Sort` |
| `Iteration` | `foreach`, `mapcar`, `outer`, `reduce`, `filter` | |
| `Evaluator` | what a program does, one part at a time | composes `CallProtocol`, `Scopes`, `Sort`, `Iteration` |
| `EvaluatorProofs` | | theorems about `Iteration`, and about `Evaluator` from those about its parts |
| `Reader` | `sx_read` | |
| `Loader` | modules: path, checksum, loading, the dictionary of what is loaded | |
| `Reading` | reading a text, loading modules | composes `Reader` and `Loader` |
| `ReadingProofs` | | theorems about `Reader` and `Loader`, and about `Reading` from them |
| `MCVmStack`, `MCHeap`, `MCTables`, `MCEvaluator`, `MCReader` | | the instances TLC checks |

`Evaluator` and `Reading` put several components side by side; their variable `part` says
which one a behaviour is about.

Left for later: a copying constructor in `Heap`; the printer with its visited flags;
generators; numbers in `Reader`; a round trip for `serialize.c`.

No module that is proved about declares a RECURSIVE operator.

## 3. VmStack

**State.** `vm` is `struct vm`: `frames` is the frame stack as a sequence of
records (type, `type_prev`, the `vm_state_save` of a jump frame, and for a MEM
frame whether it still owns its buffer); `type_fp` the chain heads; `sp` the
number of eval slots in use; `except_lvl`; `debug_lvl`; and `bufs`, the heap
buffers allocated and not yet freed or taken over. `cstk` is the C stack: one
activation per running `cf_*` function, `rep()` or `debug_rep()`, with the state
`method_call_run` saved around it and the frame whose `jmp_buf` it has set.
`except_top` is the variable of that name. `status` says how the process ended.

**Actions.** A program is any sequence of: a call of a plain subr, a closure, a
`let`, `prog`, `while`, `try` or file load (`Call`); its return (`Return`); the
end of a `try` body with a third argument (`TryFinal`); the steps of reading
(`ReadToken`, `TakeToken`, `ReadDone`, `EvalDone`, `EndOfInput`); the exits
(`Raise`, `Goto`, `FindLabel`, `ProgReturn`, `Break`, `ContinueLoop`); and in a
debug build the debugger's loop (`DebugRep`, `DebugResume`). `longjmp` cuts the
C stack back to the activation that owns the frame. Overflow of either stack is
the code's `fatal()`.

**Abstractions.** Values are left out; slots and frames are counted in units, not
bytes. A form or token is one buffer. Reporting an uncaught exception evaluates
`repr`, which may raise again: a choice between reporting and a double
exception. A breakpoint is a `(debug)` call in front of a body.

**Runs.**

| Run | Shows | Bounds |
|---|---|---|
| `vm_release` | `TypeOK`, `TypeChains`, `JumpTargetsLive`, `SlotsBalanced`, `PromptClean`, `BuffersOwned`, `HandlerLevel`, `HandledByInnermost` in a release build | 17 frames, 40 slots: the loop's five and three or four nested calls, enough for a `try` in a `try` handler, a load inside a `prog` and every exit across them; stack overflow is reached too |
| `vm_debug` | `DebugLvlCountsCalls` with the debugger entered anywhere | 17 frames, 24 slots: a debugger inside a try, and one inside a debugger |

**Fairness.** None: all properties are safety properties. Nothing makes a
program end.

**Deadlock** is checked: a stopped process stutters in `Stopped`, so a running
interpreter that can do nothing would be reported.

## 4. Heap and Memory

**Memory** is what the memory manager promises: objects with fields, slots of the
eval stack, symbols. `Reclaim` takes only what can be reached neither from a slot
nor from a symbol, `Forget` drops only a symbol no slot leads to, and nothing else
ever changes an object. **Heap** is how it is done, and implements it (`MemorySpec`):
every step of a release, a mark or a sweep is a step of `Memory` or none.

**State.** `cell` is every `struct sx` of every page: its type, the references it
holds, `ref_cnt`, and the list it is on (free, white, grey, or unmapped with its
page). `in_use_cnt` is the page header; `slot` the eval stack; `sym_set` and
`loaded` the two tables whose references do not count as uses. `sx_release`,
`sx_mark` and `sx_free` recurse; `work` is the sequence of calls their C
activations have still to make, so that everything can be looked at half way
through the release of a deep structure or through a collection. `want` is the
object for which `sx_alloc` is waiting while it collects. Calls with nil return at
once (`CallNil`).

**Tables.** `Retained`, `Released` and `Marked` give, per type, the references its
constructor retains, `sx_free` (with `sx_cleanup`) releases and `sx_mark`
follows. Where the three differ the code is wrong, and two runs show it.

**Abstractions.** An array, set or dictionary holds one element; a nil field stands for an
object that plays no part; the list nodes inside the two tables are not cells of
their own; strings are equal when they are the same; any free cell may be the next.
A constructor is one step, so the copying ones that allocate twice are not
covered. Releases that reach a table run the evaluator, of which only the effect
on the table is modelled.

**Runs.** Two slots; four cells in two pages, one of them a symbol of start-up. That is
enough for a closure in a cycle with its dictionary, a page that empties while its
objects are being released or swept, an object that two fields, a slot and a table
refer to, and a second library of the same sha1. Cells and pages are
interchangeable (`Symmetry`): no definition chooses among them but by the page a
cell is in.

| Run | Shows |
|---|---|
| `heap_collect` | with arrays, closures, generators and symbols (types that `sx_mark` handles in full), collections at any moment and a failing `mmap`: `RefCntExact` at every intermediate step, `NothingLingers`, `TablesDoNotHold`, `SweptUnreachable`, `CollectionComplete`, and that `Heap` implements `Memory` |
| `heap_modules` | by counting alone, with libraries in the table of loaded modules, objects, classes, iterators and files: counts, tables, and `NothingDangles` |
| `heap_leak` | finds `FreeReleases` violated: methods and modules read from a file keep references |
| `heap_unmarked` | finds `SweptUnreachable` violated |

In `heap_modules` and `heap_leak` there is always a cell to be had: `Collects` is
FALSE, since the collector does not handle those types.

**Fairness.** None. **Deadlock** is checked.

## 5. KVMap, HashDict and SetIter

**KVMap** is what a table promises: no two of its keys are equal, and every operation
is one step that answers for the map as it is then.

**State.** `chain` is the array of bucket lists, as sequences of cells; `entry`
what a cell holds; `cnt` the count; `calls` the operations in progress, each with
the C pointer `p` that the search holds (a bucket, or a cell whose `cdr` it names);
`ret` what the last operation answered (a call has no answer until its search ends).
A search stops at every key to call `equal`, which may be a method of the program:
it may return, raise, or call the operations in `callbacks` on the same table. What
the methods call belongs to the program: each behaviour has one set of `Methods`. A pointer into a cell
that was freed meanwhile, or a null pointer, ends what can be said when it is followed (`wild`). A table is a set or a
dictionary (`kind`); `put` on a set and `del` take no notice of `frozen`, as in
the code. `SetIter` adds an iterator, which keeps a bucket index and a pointer it
does not retain.

| Run | Shows |
|---|---|
| `tables` | `CntExact`: chains and count agree half way through an operation and after one was given up; `EachOnce`, `NoneMissed`: an iteration over a set gives every element once although `put` goes on; `MapSpec`: with `equal` methods that only read (`LooksOnly`) the table is the map `KVMap`; `SearchEnds` and `IterationEnds` |
| `frozen_dict` | finds `FrozenImmutable` violated: `put` changes a frozen set, as `del` would a dictionary |

Bounds: two buckets, three keys of which two share a bucket, three cells, operations
nested twice, one reset; `equal` methods that put into a set or delete from a dictionary, and
ones that look up: enough for a search that meets a key put behind its back, or loses the
cell it points at, for
an iteration across buckets with an addition ahead of it, and one behind. `EachOnce`
and `NoneMissed` are about sets, because `del` and `atput` exist for dictionaries only.
`MapSpec` needs `LooksOnly`: a method that puts the key that is being looked for makes the
answer "not there" late, and one that deletes can take the cell the search holds. Methods
that call `atput` are left out of the instance, which grows too large with them; a trial
showed that they can keep a search going for ever, by moving the other keys to the head.

**Fairness.** Strong on each nesting level's steps (`Progress`) and on `IterNext`: the
C code runs on by itself until `equal` is called, `equal` is assumed to return again
and again, and `foreach`, `mapcar` and `outer` call `next` until it says nil. It is
strong because operations of the inner level come in between.

**Deadlock** is not checked: nothing follows `wild`, and the cells may run out.

## 6. CallProtocol, Scopes, Sort and Iteration

**CallProtocol.** A callable is the sequence of its parts, outermost first: methods,
closures and `new` around a function. `stage` is where the C code is; `sel` the method
it looks for (`call`, `call1`, `calln`: evaluate all arguments, all but the first,
none); `passed` and `left` the two counts that suppress evaluation; `arglist` what has
become of each argument; `envs`, `classes` and `saves` the frames pushed and the saved
states that will remove them. **CallPromise** is four actions: a call evaluates each
argument that is still a form once, in order, before the body, or none for functions
that take forms; `CallsKeepPromise` says `CallProtocol` implements it.

**Scopes.** `scopes` is the ENV frames with their `up` links, `bound` the dictionaries,
`const` the frozen ones, `pending` the functions that will restore the frames, with the
dictionary `let` is filling, which is in no frame yet. An action for each way of entering, binding,
leaving, unwinding.

**Sort.** The loops of `arr_qsort` and `arr_bsort`, one comparison a step. A comparison is consistent
or answers as it likes (`fickle`), and may raise. The C recursion is the list `parts`. This is
the default build: in a debug build `arr_sort_chk` (7807-7830) goes over the result, calls the
comparison again and asserts its answers, so that an inconsistent comparison aborts there. A
comparison that changes the array it is sorting is not modelled.

**Iteration.** One step per call of `next`; `log` is the elements of each call of the
program's function, compared with what is `Due`. `params` is how many arguments the function
needs and takes, `Told` the count it is passed, `Given` the arguments there are: outer counts
all its lists, and leaves out the elements of the empty ones. So a call can be refused
(`NumArgs`), go through, or run out of arguments (`BindMissing`), which ends the process;
`Restart` starts another. `CallsInOrder` says that only an outer over an empty list does
that, before its first call.

The four are independent of each other in the code but for the stacks, which are in
`VmStack`; `Evaluator` has them side by side.

| Run | Shows | Bounds |
|---|---|---|
| `evaluator` | `CallsKeepPromise`, `ScopesKept`, `NearestMethod`; `ModuleHides`, `ConstantsKept`; `SortKeeps`, `SortEnds`; `CallsInOrder`, `IterationDone` | three arguments, every function kind, up to two wrappers, a class with one parent: a suppressed, an evaluated and a last argument, and a method at every place. Five frames, two dictionaries, one module: closure in module in `let`. Arrays of five with bubble sort up to three, so that both run and both sides of a split do. Three lists of up to three, empty ones included, and functions of up to four parameters, with and without defaults |
| `args_twice` | finds `EvaluatedOnce` violated: a closure around an object with `call` methods of its own | two arguments |
| `outer_empty` | finds `ArgumentsThere` violated: a lambda of two parameters, called by `outer` over an empty list and one of one element | two lists of up to one |

`MCCallables`, `MCMethods` and `MCFuncalled` leave out the callables that
`args_twice` is about, and objects and `new` where the same count goes wrong.

**Fairness.** Weak on the steps of a sort and of an iteration: C code runs on, and a comparison or
function of the program that returns is assumed to do so (raising is a step too).
`SortEnds` does not need consistent answers, and `IterationDone` holds whatever the
function answers and takes; the process may end instead, as `CallsInOrder` says.

## 7. Reader and Loader

**Reader.** One step per character or form; `ctx` is the C recursion, `lex` the place
in it, `depth` is `INFP->depth`. A text comes from a file (`line = FALSE`), where an
error ends the reading, or is typed at `rep`'s prompt, where it resets the reader and drops
the rest of the line. The loop of `debug_rep` (8764-8765) does not reset `depth` after an
error, and is not modelled. In a string the escapes are the quote, the backslash, `\n` and the
two digits of a code (`Hex`); `\r` and `\t` are left out. `ReadsBack` compares the forms read
with the forms the text was written from (`due`, made by `Meaning` and `Written` in `MCReader`), in four layouts: tight,
spaced, over lines, with comments that hold parentheses. Nothing is written before the
parenthesis that closes a dotted pair, where two blanks would be an error. It also says that lines
typed before, whatever is in them, make no difference.

**Loader.** `cf_module_new`: `disk`, every module made with its references from
the program, the dictionary `table`, the loads in progress. A load may leave out or
fail in the loads of its file; anybody may write files, also between the checksum
and the opening. A release that leaves one reference removes the entry of the
module's sha1, which may be another module's. `again` remembers the sha1s that were
loaded while a module of that sha1 was still loading or had failed: only for those can
two modules of one file be in use (`LoadedModules`).

| Run | Shows | Bounds |
|---|---|---|
| `reading` | `ReadsBack`, `ReadingTypeOK`, `ReadingEnds`; `LoadedModules` | texts of any three characters, strings with codes of up to three digits or other characters, forms nested twice, all layouts; a file that loads itself, one in front of it on the path, a library that may lack its function; three modules, loads nested twice, two references |

`ReaderAssumption` says that texts are sequences, `LoaderAssumption` what files and paths are.

**Fairness.** Weak on the steps of the reader: there is always a character or the end.
`ReadingEnds` names the one way of not ending: a comment within a list that ends with
the text, where `sx_read_getc_skip_comments` waits for a newline for ever.

## 8. Proofs

**`VmStackProofs`** proves, for every stack capacity, build and set of calls (under
`VmStackAssumption`: the stacks have room for the prompt), `Spec => []P` for
`TypeOK`, `TypeChains`, `JumpTargetsLive`, `SlotsBalanced`, `BuffersOwned`,
`HandlerLevel`, `PromptClean` and `DebugLvlCountsCalls`, and the action property
`HandledByInnermost`. None of them is inductive alone: a return restores a state saved
long before, so one has to know what is true of every save below it. The
inductive invariant is

    IInv == Good(vm, cstk, except_top) /\ status \in Statuses

- `VmOK`: types, chains, buffer count, and that a jump frame saved itself as `fp`;
- `Layout`: activations and frames are interleaved the way they were pushed.
  Each activation's save lies above the *floor* of the one below (its own jump
  frame, or its call's frames), its slots begin where the slots of the one below
  end, every jump frame has exactly one activation, only activations that are
  evaluating have others above them, and a reader's buffer frame is on top;
- `Quiet`: in a release build `except_top` is the loop's own frame and a raised
  exception level belongs to a running handler, or to nothing at all.

The primitives come first (`PushOK`, `UnwindOK`, `RestoreOK`, ...), each as a
lemma about one `struct vm`. Then two lemmas about shapes: entering a call
(`CallLayout`) and ending up in activation *k* with its frames (`ReturnOK`,
`LandOK`); every exit is an instance. One lemma per action (`CallOK`,
`ReturnStep`, `RaiseOK`, `GotoOK`, ...) gives `NextOK`, and `Invariance` follows.

`Layout` says where each activation's frames lie, not which they are. `PromptClean` and
`DebugLvlCountsCalls` need that too, and it is a second invariant, `TidyInv`, on top of the
first (`FramesTidy`). `Own(a)` is the sequence of frame types that an activation has on the
stack in its phase; `Exact` says that between its save and the next activation's there are just those
frames, in order, with its jump frame where `JumpAt` has it; `Counts` that `debug_lvl`
is the number of FUNC frames (`Depth`) now, and was when each jump frame saved it. So the
stack is at all times what the activations need, whatever was jumped out of.
`HandledByInnermost` is about a step: only `ExceptRaise` starts a handler (all other steps, by
`NoneStarted`, do not), and the top of the EXCEPT chain is the innermost `try` in
progress because each jump frame has just one activation.

**`ScopesProofs`** proves `ScopesTypeOK`, `ModuleHides` and `ConstantsKept` of
`ScopesSpec` for any symbols, values, dictionaries, modules and depth, from
`ScopesAssumption` (the names of dictionaries and modules are apart). The invariant
`ScopesInv` adds to the types that each frame is linked by the rule its module field
says (`Linked`), that the states to be restored are stacked in the order of the frames
(`Ordered`: without it a return could cut a frame that a later one counts on), and
that what `let` is filling is in no frame and not frozen (`Apart`: `LetBinds` does not
look at `const`, so `ConstantsKept` rests on it). From `Linked` alone, a search
from inside a module stays above the module's frame until it goes to the global one.

**`CallProofs`** proves of `CallSpec`, for any number of arguments, chain of parents and
set of callables: `ScopesKept` and `NearestMethod`; and, under `Counted`,
`CallsKeepPromise` (the refinement of `CallPromise`) and `EvaluatedOnce`. `Counted`
describes the callables with which the suppression counts come out right: `new` stands
around no function that is called as a form, and in `funccall` only around one that takes
its arguments as they are; a method is not itself an object with methods; and
no closure stands between `funccall` and an object. The callable of
`args_twice` is not `Counted`; those of `evaluator` are. The invariant
`CallInv` says what the counts mean at each stage: before the loop over the arguments the
selector tells which arguments are values (`AsSelected`), and the count an object will be
given agrees with it (`CountKept`); in the loop, `left` tells it of the arguments from
`turn` on (`TurnKept`). Evaluating only forms, and all of them, follows. `FramesInv` (only
a body has locals, and the first saved state is the caller's) and `LookupInv` (no table
searched so far has the method) carry the other two. `CallTypeOK` needs `ArgsInv` (the
counts, and that the loop turns to each argument once) and `StackInv`: the saved states are stacked in the order of
the frames, so that removing one never leaves a table or an environment that a later
one was to remove.

**`SortProofs`** proves `SortTypeOK` and `SortKeeps` of `SortSpec`, for arrays of any size
and content, any `SmallSize`, and comparisons that contradict themselves or raise. That
elements are neither lost nor doubled needs only that every step is a swap of two indices
inside the array (`SwapKeeps`, by a bijection between the occurrences). That the array
ends up in order needs `Settled`: elements that are not in the same unsorted part are in
order. `SplitOK`, `DropOK` and `SwapSettled` say that splitting a part at a pivot,
finishing a part and swapping within one preserve it; `PivotOrder` and `PassOrder` are the
loop invariants of `arr_qsort` and `arr_bsort` that make the split and the end of a part
legitimate.

**`HeapProofs`** proves of `Heap`, for any pages, cells, slots and types that are `Sound`
(`Released`, and `Marked` if there are collections, name just the retained fields;
the runs `heap_leak` and `heap_unmarked` show what becomes of the others): `RefCntExact`,
`TypeOK`, `NothingLingers`, `TablesDoNotHold`, `NothingDangles`, `SweptUnreachable` and
`CollectionComplete`; and, when no type is a module, `MemorySpec`: that `Heap` implements `Memory`. With
modules it does not: their table is not among the roots of `Memory`. The invariant
`HeapInv` consists of

- `Balanced`: counts are exact, given what `work` has still to mark and to release (`At`
  counts the occurrences of a value in a sequence, record or table);
- `Phased`: `work` is one of three kinds, each with what may follow it. While
  *releasing* nothing is grey; while *marking*, all that is to be marked, and all that an
  object in use refers to, is in use; while *sweeping* there are only objects to clean up;
- `Reclaimed`: an object without references is grey, or there is exactly one call that
  frees it, so that none is freed twice;
- `PageCounted`, `WantOK`, `TablesOK`: page headers count, the object an interrupted
  `sx_alloc` is for can still be made, and tables hold nothing alone.

Counting is by lemmas on `At` and on `Uses`, the fields that hold a value
(`UsesChange`: one object changes; `FreeCount`, `MarkCount`: one object is replaced by
calls for its fields). Exact counts make the objects with references a closed set that
holds the roots (`AliveClosed`), or the objects in use while marks are still to come
(`UsedClosed`): hence what is freed cannot be reached. For the refinement `Emptied`
adds that cells not in use hold no references; each action is then a step of `Memory`
(`BuildPromise`, `FreePromise`, `ForgetStep`, ...) or leaves what it sees alone. For
`CollectionComplete`, `FindsReachable` says that what is marked, or is still to be, can be
reached, and that only a symbol nothing refers to is released before the collection ends;
dropping such a symbol makes nothing else unreachable (`ReachKept`).

**`TablesProofs`** proves about `HashDict` and `SetIter`, for any keys, `hash`, `equal`,
number of buckets and depth of nesting:

- `EachOnce`, `NoneMissed` and that no pointer into a freed cell is followed
  (`SetsNeverWild`), of every set, whatever its elements' methods do to it;
- `IterTypeOK` and `CntExact`, of every set, and of every dictionary whose methods call
  neither `atput` nor `del` on it (`Gentle`). With other dictionaries a search may follow a freed
  cell, or a null pointer, after which neither the code nor the model can say anything;
- `MapSpec` (and with it the refinement of `KVMap`, `TablesRefineMaps`), for an `equal` that
  is symmetric, transitive and agrees with the buckets (`EqualsAgree`: what the
  language asks of `equal` and `hash` methods; an int and a float that are equal break it,
  which is among the hazards).

`TableInv` says that cells and lists agree (`Lists`: no cell in two places, each in the
bucket of its key) and, of every operation in progress, that its pointers lie in the list of
its key (`CallOK`). A set only grows, at the heads of its lists (`Grows`), so that what a search or
the iterator holds stays where it was; `IterOK` and `SetIterOK` add what the iterator has still to
return. For the map, `SearchInv` says of each search that all cells it has passed have other keys, and
that no two keys in the table are equal.

**`ReadingProofs`** proves `LoadedModules` and `LoaderTypeOK` of `LoaderSpec` for any modules,
files, path and bounds. In `IInv`, `Loads` says that each load in progress has a module of its
own that is in use and not over (the innermost has none yet between the checksum and the file); `Entries` that the
table names only modules in use and over, by their sha1; `Unfinished` that a module not over has neither
an entry nor a twin of its sha1, and `Finished` that one that is over is the one in the table, unless its
sha1 was loaded again.

Of `ReaderSpec` it proves, for every text, `ReaderTypeOK`, in which `depth` is the number of open
forms, and two facts that no run checks by name: `NoneLeftOpen` (a reader that
stops has read all of the text and left no form open) and `Advances`, which is what remains of `ReadingEnds`
without fairness. `ReadInv` knows which forms can be around each place of the
lexer (`AroundOK`). A step takes a character, or lowers `Rank`, or leaves a quote; so no
text makes the reader go in circles, and it can only stop or wait where `ReadingEnds` says.
`ReadingTyped` and `ReadingSafe` put both together.

**`EvaluatorProofs`** proves `CallsInOrder` and `IterationTypeOK` of `IterationSpec` for any number of
lists of any length and functions of any parameters: the calls that are made are those that
are due, and the process ends only in an outer over an empty list, before its first call. For
that `IInv` knows that a function that has been called once needs no more arguments than there
are lists with elements (`Filled`). `foreach`, `reduce` and `filter` are `mapcar` of one list (`RowByRow`:
all iterators stand at the row being made). For `outer`, `Odometer` says that the calls made so
far are all combinations up to the last, in the order of `Before`; `NextCombination`
(nothing lies between a combination and its successor) and `FinalIsLast` are the two facts it needs.
`PartsRun` says that a behaviour of `Evaluator` is one of each part; so `EvaluatorTyped`, `EvaluatorSafe`
and `EvaluatorKeepsPromise` follow from the theorems of the parts.

Model-checked only:

- liveness, which is out of the prover's reach: `SortEnds`, `SearchEnds`,
  `IterationEnds`, `IterationDone`, `ReadingEnds`;
- `ReadsBack`, which compares forms of any nesting with a recursive definition: induction over data;
- the violations of section 9.

`Reachable` in `Memory` quantifies over all closed sets instead of recursing, so that it
can be proved about.

## 9. What was found

Runs that find a statement of the repository violated:

- `sx_free` has no case for method objects, and a module read from a file returns
  before its name, sha1 and dictionary are released: all are retained for ever
  (`heap_leak`).
- `sx_mark` does not follow objects, classes, methods, blobs, or a module's name and
  sha1: a collection, also the one `sx_alloc` makes when `mmap` fails, frees the
  dictionaries of objects and classes in use (`heap_unmarked`).
- `put` changes a frozen set, which the run shows, and `del` a frozen dictionary (`frozen_dict`).
- a function called with `calln` through a closure around an object with methods of
  its own evaluates arguments that are values already (`args_twice`).
- `outer` passes the count of all its lists, but no element of those that are empty: a lambda
  with a parameter for each list is bound past the end of its arguments, a null pointer, and
  one with a parameter for each element is refused with num-args (`outer_empty`).

Noted while modelling; the models do what the code does, and no property says otherwise:

- After a collection in `sx_alloc` only a new page is asked for again: it gives up with
  "Out of memory" even if the collection filled the free list (`Retry`).
- `module_free` deletes by sha1, so the release of a module that was superseded, or
  whose load failed, removes the living module's entry; the file is then loaded again
  (the exception in `LoadedModules`).
- A library without its init function yields nil, and nil is remembered for its sha1.
- A comment within a list at the end of the text is never ended (see `reading`).
- `debug_rep()` asserts `vm->sp == &work[-3]` (8809) though it has four slots (8747): in a
  debug build, command `p` of the debugger always aborts (`EvalDone` stops there).
- `debug_rep()` saves the innermost `EXCEPT` frame as the old `except_top`, which
  is why `HandlerLevel` is claimed for release builds only; a `try` completed inside a
  handler lowers `except_lvl` for the outer handler too.
- `tutorial.md` says symbol lookup ends at a module's environment; the code goes on to
  the global environment and main's. `ModuleHides` says what does hold.
- `ate` raises `system.no-member` where its documentation has key-not-found.
- An `equal` method that puts into the table it is asked about can make `at` return the
  pair of another key, or follow a freed cell (`wild`).
- Arguments of a call of a closure are evaluated inside the closure's dictionary, so
  its names hide the caller's (`argenvs` in `CallProtocol`).
- Two blanks after the last form of a dotted pair are a syntax error, `\x00` ends a
  string, and `::=` cannot be read.

## 10. Not modelled

- **Printer**: a conversion; its visited flags are not modelled.
- **Numbers, math**: floating point is out of TLC's reach; the integer operations are
  single C expressions.
- **Generators** of closures and files, and dict-specific iterator accessors.
- **List, string, slice and array functions** other than `sort`: sequential conversions.
- **`serialize.c`**: a sequential encoding and decoding without state.
- **`os.c`, `socket.c`, `regexp.c`, `datetime.c`**: wrappers of library and system calls.
- **Start-up tables and options, GTK bindings, `packedarray.c`, `threads.c`** (the last
  two are not compiled), makefiles and awk scripts, and the programs in the language
  itself (`libs/`).
