------------------------------- MODULE Loader -------------------------------
(***************************************************************************)
(* Modules (src/src/main.c, cf_module_new): a file or library is looked    *)
(* for on the path, known by the sha1 of its contents, and loaded unless   *)
(* the dictionary of loaded modules has it.  The dictionary's reference    *)
(* does not keep a module: sx_release removes the entry of the sha1 when   *)
(* one reference is left.                                                  *)
(***************************************************************************)
EXTENDS Integers, Sequences, FiniteSets, SequencesExt

CONSTANTS
    Names,       \* what modules are called in a program
    Libs,        \* those of them that end in .so
    Path,        \* the directories looked through, the working directory last
    OnDisk,      \* what each file can contain, by directory and name
    LoadsOf,     \* the modules that each contents loads, in order
    NoFile, NoInit,  \* contents: none, and a library without the function
    MaxModules, MaxNested, MaxRefs  \* bounds

Sha1s == DOMAIN LoadsOf

Files == DOMAIN OnDisk

Nil == -1

ASSUME LoaderAssumption ==
    /\ Libs \subseteq Names /\ NoInit \in Sha1s /\ NoFile \notin Sha1s
    /\ Path # << >> /\ Path \in Seq(ToSet(Path)) /\ Files = ToSet(Path) \X Names
    /\ \A f \in Files : OnDisk[f] \subseteq Sha1s \cup {NoFile}
    /\ \A c \in Sha1s : LoadsOf[c] \in Seq(Names)
    /\ MaxModules \in Nat /\ MaxNested \in Nat /\ MaxRefs \in Nat

VARIABLES
    disk,      \* what the files contain
    modules,   \* every module made so far: its sha1, and whether its load is over
    refs,      \* how often the program and loads that are going on refer to each
    table,     \* Module.__loaded__, by sha1: a module, Nil, or 0
    loading,   \* the loads that are going on, the innermost last
    again      \* the sha1s that have been loaded while a module of which the load is
               \* going on, or has failed, was in use

mvars == <<disk, modules, refs, table, loading, again>>

Ids == 1 .. Len(modules)

Count(t, r, i) == r[i] + (IF t[modules[i].sha1] = i THEN 1 ELSE 0)

Alive(i) == Count(table, refs, i) > 0

\* path_find_unsafe; what no directory has is tried as it is.
Find(n) ==
    LET having == {k \in 1 .. Len(Path) : disk[<<Path[k], n>>] # NoFile}
    IN  IF having = {} THEN <<Last(Path), n>>
        ELSE <<Path[CHOOSE k \in having : \A j \in having : k <= j], n>>

\* module_free of a module, with a table t, when it has one reference.
Removed(t, r, i) == IF Count(t, r, i) = 1 THEN [t EXCEPT ![modules[i].sha1] = 0] ELSE t

\* sx_release of one reference to each of several modules.  In which order does not
\* matter: what their module_free does to the table is to take entries out.
Release(ids) ==
    LET less == [i \in Ids |-> IF i \in ids THEN refs[i] - 1 ELSE refs[i]]
        freed == {i \in Ids : i \in ids /\ Count(table, less, i) = 1}
    IN  /\ refs' = less
        /\ table' = [c \in Sha1s |-> IF \E i \in freed : modules[i].sha1 = c THEN 0 ELSE table[c]]

Innermost == Last(loading)

\* Between the checksum and the file nothing of the program runs.
Opening == loading # << >> /\ Innermost.module = 0

CanLoad ==
    IF loading = << >> THEN Len(modules) < MaxModules
    ELSE Innermost.module # 0 /\ Innermost.left # << >> /\ Len(loading) < MaxNested

-----------------------------------------------------------------------------
\* The checksum; a load does the loads of its file in their order, but an if may
\* leave out any of them.
Load(n) ==
    /\ CanLoad /\ disk[Find(n)] # NoFile
    /\ loading # << >> => n = Head(Innermost.left)
    /\ loading' = (IF loading = << >> THEN << >>
                   ELSE [loading EXCEPT ![Len(loading)].left = Tail(@)])
                  \o << [name |-> n, file |-> Find(n), sha1 |-> disk[Find(n)],
                         module |-> 0, left |-> << >>] >>
    /\ UNCHANGED <<disk, modules, refs, table, again>>

LeaveOut ==
    /\ loading # << >> /\ Innermost.module # 0 /\ Innermost.left # << >>
    /\ loading' = [loading EXCEPT ![Len(loading)].left = Tail(@)]
    /\ UNCHANGED <<disk, modules, refs, table, again>>

\* Already loaded: the program gets the module that is there.
Known ==
    /\ Opening /\ table[Innermost.sha1] # 0
    /\ table[Innermost.sha1] # Nil => refs[table[Innermost.sha1]] < MaxRefs
    /\ refs' = IF table[Innermost.sha1] = Nil THEN refs
               ELSE [refs EXCEPT ![table[Innermost.sha1]] = @ + 1]
    /\ loading' = Front(loading) /\ UNCHANGED <<disk, modules, table, again>>

\* Mutant: the module is entered before its file has been read.
Entered_early(i) == [table EXCEPT ![Innermost.sha1] = i]

\* load_file and load_lib make the module; it is in the table after its load only.
Entered(i) == table

New(over) ==
    /\ modules' = Append(modules, [sha1 |-> Innermost.sha1, over |-> over])
    /\ refs' = Append(refs, 1)
    /\ again' = again \cup ({Innermost.sha1} \cap
                         {modules[i].sha1 : i \in {i \in Ids : Alive(i) /\ ~modules[i].over}})

\* load_file opens the file, as it is now.
OpenFile ==
    /\ Opening /\ Innermost.name \notin Libs /\ table[Innermost.sha1] = 0
    /\ disk[Innermost.file] # NoFile /\ Len(modules) < MaxModules
    /\ New(FALSE)
    /\ table' = Entered(Len(modules'))
    /\ loading' = [loading EXCEPT ![Len(loading)].module = Len(modules'),
                                  ![Len(loading)].left = LoadsOf[disk[Innermost.file]]]
    /\ UNCHANGED disk

\* load_lib; without its function the library is nil, and remembered as that.
OpenLib ==
    /\ Opening /\ Innermost.name \in Libs /\ table[Innermost.sha1] = 0
    /\ disk[Innermost.file] # NoFile /\ Len(modules) < MaxModules
    /\ IF disk[Innermost.file] = NoInit
       THEN table' = [table EXCEPT ![Innermost.sha1] = Nil] /\ UNCHANGED <<modules, refs, again>>
       ELSE New(TRUE) /\ table' = [table EXCEPT ![Innermost.sha1] = Len(modules')]
    /\ loading' = Front(loading) /\ UNCHANGED disk

\* The end of the file.  The module takes the place of one that was loaded in the
\* meantime, whose release may remove the entry.
Loaded ==
    /\ loading # << >> /\ ~Opening /\ Innermost.left = << >>
    /\ modules' = [modules EXCEPT ![Innermost.module].over = TRUE]
    /\ LET old == table[Innermost.sha1]
           put == [table EXCEPT ![Innermost.sha1] = Innermost.module]
       IN  table' = IF old > 0 /\ old # Innermost.module THEN Removed(put, refs, old) ELSE put
    /\ loading' = Front(loading) /\ UNCHANGED <<disk, refs, again>>

\* An exception ends the innermost loads; the slots of their modules, which are all
\* different, are released.
LoadFails ==
    \E k \in 1 .. Len(loading) :
        /\ loading' = SubSeq(loading, 1, k - 1)
        /\ Release({loading[j].module : j \in k .. Len(loading)})
        /\ UNCHANGED <<disk, modules, again>>

InLoad(i) == \E k \in 1 .. Len(loading) : loading[k].module = i

\* The program keeps another reference to a module, which may be the one it is in,
\* or drops one.
Keep(i) ==
    /\ ~Opening /\ refs[i] \in 1 .. MaxRefs - 1
    /\ refs' = [refs EXCEPT ![i] = @ + 1] /\ UNCHANGED <<disk, modules, table, loading, again>>

Drop(i) ==
    /\ ~Opening /\ refs[i] > (IF InLoad(i) THEN 1 ELSE 0)
    /\ Release({i}) /\ UNCHANGED <<disk, modules, loading, again>>

\* Somebody writes or removes a file.
Write(f) ==
    /\ disk' \in {[disk EXCEPT ![f] = c] : c \in OnDisk[f]}
    /\ UNCHANGED <<modules, refs, table, loading, again>>

LoaderInit ==
    /\ disk \in [Files -> Sha1s \cup {NoFile}] /\ \A f \in Files : disk[f] \in OnDisk[f]
    /\ modules = << >> /\ refs = << >> /\ table = [c \in Sha1s |-> 0]
    /\ loading = << >> /\ again = {}

LoaderNext ==
    \/ \E n \in Names : Load(n)
    \/ LeaveOut \/ Known \/ OpenFile \/ OpenLib \/ Loaded \/ LoadFails
    \/ \E i \in Ids : Keep(i) \/ Drop(i)
    \/ \E f \in Files : Write(f)

LoaderSpec == LoaderInit /\ [][LoaderNext]_mvars

-----------------------------------------------------------------------------
\* The type of the state.
LoaderTypeOK ==
    /\ Len(refs) = Len(modules) /\ \A i \in Ids : refs[i] \in Nat
    /\ \A c \in Sha1s : table[c] \in {0, Nil} \cup Ids

\* Whatever loads what, fails half way, or is dropped or written meanwhile: the
\* dictionary only ever gives a module that is in use and has been loaded to its
\* end, under its own sha1.  What is there is not loaded a second time, unless a module of the
\* same contents was in use that has not been loaded to its end: the release of
\* that one removes the other's entry.
LoadedModules ==
    /\ \A c \in Sha1s : table[c] > 0 =>
          /\ refs[table[c]] > 0
          /\ modules[table[c]].over /\ modules[table[c]].sha1 = c
    /\ \A i, j \in Ids :
          i # j /\ modules[i].sha1 = modules[j].sha1 /\ modules[i].over /\ modules[j].over
             => modules[i].sha1 \in again \/ ~Alive(i) \/ ~Alive(j)

=============================================================================
