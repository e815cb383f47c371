------------------------------ MODULE VmStack ------------------------------
(***************************************************************************)
(* The control stacks of the interpreter (src/src/main.c, section "VM"):   *)
(* the frame stack with its one chain per frame type, the eval stack, the  *)
(* exception level, and the C activations that setjmp and longjmp move     *)
(* between.  A program is the nondeterministic choice of what the          *)
(* innermost activation evaluates next.                                    *)
(*                                                                         *)
(* Frames are numbered from the bottom of the frame stack; 0 is C's null   *)
(* frame pointer.  vm.fp is Len(vm.frames); sp counts eval-stack slots.    *)
(***************************************************************************)
EXTENDS Integers, Sequences, FiniteSets

CONSTANTS
    MaxFrames,    \* capacity of the frame stack, in frames (option -S)
    MaxEval,      \* capacity of the eval stack, in slots (option -s)
    Debug,        \* built without NDEBUG: debug_lvl, asserts and debug_rep
    Interactive,  \* input of the read-eval-print loop is a terminal
    Fns           \* the calls the evaluated program makes, out of AllFns

AllFns == {"subr", "lambda", "let", "prog", "while", "try", "load"}

ASSUME VmStackAssumption ==
    /\ MaxFrames \in Nat \ {0, 1, 2, 3, 4}
    /\ MaxEval \in Nat \ {0, 1, 2, 3}
    /\ Debug \in BOOLEAN /\ Interactive \in BOOLEAN
    /\ Fns \subseteq AllFns

FrameTypes == {"FUNC", "ENV", "CLASS", "MEM", "EXCEPT",
               "REP", "PROG", "WHILE", "INPUT"}

VARIABLES
    vm,          \* struct vm, and bufs: the heap buffers that frames own
    except_top,  \* frame of the loop that reports uncaught exceptions
    cstk,        \* C activations of cf_* functions, rep() and debug_rep()
    status       \* "run", or how the process ended

vars == <<vm, except_top, cstk, status>>

-----------------------------------------------------------------------------
(* The VM primitives, as functions from one struct vm to the next.         *)

NoSave == [sp |-> 0, fp |-> 0, debug_lvl |-> 0]

vm_state_save(v) ==
    [sp |-> v.sp, fp |-> Len(v.frames), debug_lvl |-> v.debug_lvl]

eval_alloc(v, n) == [v EXCEPT !.sp = @ + n]

PushRecord(v, t, save, data) ==
    [v EXCEPT !.frames = Append(@, [type |-> t, type_prev |-> v.type_fp[t],
                                    save |-> save, data |-> data]),
              !.type_fp = [@ EXCEPT ![t] = Len(v.frames) + 1]]

frame_push(v, t) == PushRecord(v, t, NoSave, FALSE)

frame_func_push(v) ==
    [frame_push(v, "FUNC") EXCEPT !.debug_lvl = @ + IF Debug THEN 1 ELSE 0]

\* The state is saved after the push, so the saved fp is the frame itself.
frame_longjmp_push(v, t) ==
    PushRecord(v, t, [vm_state_save(v) EXCEPT !.fp = @ + 1], FALSE)

\* The buffer a MEM frame owns is freed when the frame goes.
ebuf_push(v) == [PushRecord(v, "MEM", NoSave, TRUE) EXCEPT !.bufs = @ + 1]

\* Mutant: frame_mem_mark_taken is forgotten.
str_neweb_not_taken(v) == [v EXCEPT !.bufs = @ - 1]

\* str_new_type takes the buffer over and the frame forgets it.
str_neweb(v) ==
    [v EXCEPT !.frames[v.type_fp["MEM"]].data = FALSE, !.bufs = @ - 1]

Popped(v, n, t) == {i \in n + 1 .. Len(v.frames) : v.frames[i].type = t}

\* Mutant: the guard on the decrement of except_lvl is dropped.
frame_unwind_unguarded(v, n) ==
    [v EXCEPT !.frames = SubSeq(@, 1, n),
              !.except_lvl = @ - Cardinality(Popped(v, n, "EXCEPT"))]

\* Mutant: all frames are dropped at once, chains and level are left alone.
frame_unwind_fp_only(v, n) == [v EXCEPT !.frames = SubSeq(@, 1, n)]

\* Every popped frame hands its type's chain back to its type_prev, so the
\* lowest one popped decides.
UnwoundChain(v, n, t) ==
    IF Popped(v, n, t) = {} THEN v.type_fp[t]
    ELSE LET low == CHOOSE i \in Popped(v, n, t) :
                        \A j \in Popped(v, n, t) : i <= j
         IN  v.frames[low].type_prev

\* Mutant: a popped EXCEPT frame does not take the level down.
frame_unwind_keeps_lvl(v, n) ==
    [v EXCEPT !.frames = SubSeq(@, 1, n),
              !.type_fp = [t \in FrameTypes |-> UnwoundChain(v, n, t)]]

(***************************************************************************)
(* frame_pop1 in a loop until n frames are left.  debug_lvl is left alone: *)
(* wherever FUNC frames are popped, vm_state_restore overwrites what       *)
(* debug_leave would have done to it.                                      *)
(***************************************************************************)
frame_unwind(v, n) ==
    LET excepts == Cardinality(Popped(v, n, "EXCEPT"))
        owned   == {i \in Popped(v, n, "MEM") : v.frames[i].data}
    IN  [v EXCEPT !.frames = SubSeq(@, 1, n),
                  !.type_fp = [t \in FrameTypes |-> UnwoundChain(v, n, t)],
                  !.except_lvl = IF excepts > @ THEN 0 ELSE @ - excepts,
                  !.bufs = @ - Cardinality(owned)]

frame_pop(v, i) == frame_unwind(v, i - 1)

\* Mutant: the eval stack is not unwound.
vm_state_restore_no_sp(v, save) ==
    [frame_unwind(v, save.fp) EXCEPT !.debug_lvl = save.debug_lvl]

\* Mutant: debug_lvl is not restored.
vm_state_restore_no_lvl(v, save) ==
    [frame_unwind(v, save.fp) EXCEPT !.sp = save.sp]

\* except_lvl is deliberately not restored.
vm_state_restore(v, save) ==
    [frame_unwind(v, save.fp) EXCEPT !.sp = save.sp,
                                     !.debug_lvl = save.debug_lvl]

Fits(v) == Len(v.frames) <= MaxFrames /\ v.sp <= MaxEval

-----------------------------------------------------------------------------
(* The C stack.  An activation records the state saved by method_call_run  *)
(* around the call, and in jb the frame whose jmp_buf it has set.          *)

Activation(fn, phase, save, jb, old) ==
    [fn |-> fn, phase |-> phase, save |-> save, jb |-> jb, old |-> old]

Top == cstk[Len(cstk)]

SetTopOf(c, phase) == [c EXCEPT ![Len(c)] = [@ EXCEPT !.phase = phase]]

Running == status = "run"

\* The activation is inside sx_eval, so any expression may come next.
Evaluating ==
    Running /\ Top.phase \in {"eval", "body", "handler", "final"}

Stop(how) == status' = how /\ UNCHANGED <<vm, except_top, cstk>>

\* fatal() when either stack is exhausted, else go on.
Continue(v, c) ==
    IF Fits(v)
    THEN vm' = v /\ cstk' = c /\ UNCHANGED <<except_top, status>>
    ELSE Stop("fatal")

\* Slots of method_call1_internal and method_call_apply, outside the save.
CallSlots == 3

\* The slots each function takes for its own work.
WorkSlots == [subr |-> 2, lambda |-> 1, let |-> 2, prog |-> 2, while |-> 1,
              try |-> 1, load |-> 5, debug |-> 4]

\* The frame that a function which sets a jmp_buf pushes for it.
JumpFns == {"prog", "while", "try"}

JumpFrame == [prog |-> "PROG", while |-> "WHILE", try |-> "EXCEPT"]

EnterFrames(fn, v) ==
    CASE fn \in JumpFns -> frame_longjmp_push(v, JumpFrame[fn])
      [] fn = "lambda" -> frame_push(frame_func_push(v), "ENV")
      [] fn = "let"    -> frame_push(v, "ENV")
      [] fn = "load"   -> frame_push(frame_push(v, "INPUT"), "ENV")
      [] OTHER         -> v

\* method_call_run: save, push the class and function frames, run fn.
CallFrames(v) == frame_func_push(frame_push(v, "CLASS"))

Call(fn) ==
    /\ Evaluating
    /\ LET v0 == eval_alloc(vm, CallSlots)
           v1 == EnterFrames(fn, eval_alloc(CallFrames(v0), WorkSlots[fn]))
           jb == IF fn \in JumpFns THEN Len(v1.frames) ELSE 0
           ph == IF fn = "load" THEN "idle" ELSE "body"
       IN  Continue(v1, Append(cstk, Activation(fn, ph, vm_state_save(v0), jb, 0)))

\* Mutant: method_call_run unwinds the eval stack only.
ReturnFrom_sp_only(v, a) == [v EXCEPT !.sp = a.save.sp - CallSlots]

\* The function returns: method_call_run restores, its callers unwind.
ReturnFrom(v, a) ==
    LET w == vm_state_restore(v, a.save)
    IN  [w EXCEPT !.sp = w.sp - CallSlots]

Return ==
    /\ Running
    /\ \/ /\ Top.fn \in AllFns \ {"try", "load"} /\ Top.phase = "body"
          /\ vm' = ReturnFrom(vm, Top)
       \/ Top.fn = "load" /\ Top.phase = "idle" /\ vm' = ReturnFrom(vm, Top)  \* EOF
       \/ Top.fn = "try" /\ Top.phase = "final" /\ vm' = ReturnFrom(vm, Top)
       \/ /\ Top.fn = "try" /\ Top.phase \in {"body", "handler"}
          /\ vm' = ReturnFrom(frame_pop(vm, Top.jb), Top)
    /\ cstk' = SubSeq(cstk, 1, Len(cstk) - 1)
    /\ UNCHANGED <<except_top, status>>

\* Mutant: the frame stays for the third argument.
TryFinal_in_try ==
    /\ Running
    /\ Top.fn = "try" /\ Top.phase = "body"
    /\ cstk' = SetTopOf(cstk, "final")
    /\ UNCHANGED <<vm, except_top, status>>

\* cf_try with three arguments: the body is done, its frame goes, and the
\* third argument is evaluated outside the try.
TryFinal ==
    /\ Running
    /\ Top.fn = "try" /\ Top.phase = "body"
    /\ vm' = frame_pop(vm, Top.jb)
    /\ cstk' = [cstk EXCEPT ![Len(cstk)] = [@ EXCEPT !.phase = "final", !.jb = 0]]
    /\ UNCHANGED <<except_top, status>>

-----------------------------------------------------------------------------
(* Reading, by rep(), load_file() and debug_rep()'s command p.             *)

ReadToken ==
    /\ Running
    /\ Top.phase = "idle"
    /\ Continue(ebuf_push(vm), SetTopOf(cstk, "read"))

\* The token becomes a string or a symbol, which may still prove malformed.
TakeToken ==
    /\ Running
    /\ Top.phase = "read"
    /\ vm.frames[Len(vm.frames)].data
    /\ vm' = str_neweb(vm)
    /\ UNCHANGED <<except_top, cstk, status>>

\* Mutant: ebuf_pop is forgotten.
ReadDone_no_pop ==
    /\ Running
    /\ Top.phase = "read"
    /\ cstk' = SetTopOf(cstk, "eval")
    /\ UNCHANGED <<vm, except_top, status>>

ReadDone ==
    /\ Running
    /\ Top.phase = "read"
    /\ vm' = frame_pop(vm, Len(vm.frames))
    /\ cstk' = SetTopOf(cstk, "eval")
    /\ UNCHANGED <<except_top, status>>

\* Where the slots allocated by rep() and debug_rep() end; both assert that
\* sp is back at &work[-3].
AssertedSp(a) == a.save.sp + 3

EvalDone ==
    /\ Running
    /\ Top.phase = "eval"
    /\ IF Debug /\ Top.fn \in {"rep", "debug"} /\ vm.sp # AssertedSp(Top)
       THEN Stop("aborted")
       ELSE /\ cstk' = SetTopOf(cstk, "idle")
            /\ UNCHANGED <<vm, except_top, status>>

EndOfInput ==
    /\ Running
    /\ Top.fn = "rep" /\ Top.phase = "idle"
    /\ Stop("exit")

-----------------------------------------------------------------------------
(* Non-local exits.                                                        *)

Owner(c, i) == CHOOSE k \in 1 .. Len(c) : c[k].jb = i

\* longjmp to frame i: the C activations above its owner cease to exist.
longjmp(c, i) == SubSeq(c, 1, Owner(c, i))

PROGFP == vm.type_fp["PROG"]
WHILEFP == vm.type_fp["WHILE"]

JumpTo(i) == vm_state_restore(vm, vm.frames[i].save)

\* What the owner of the EXCEPT frame does when setjmp returns again.
Caught(v, c) ==
    LET fn == c[Len(c)].fn
    IN  IF fn = "try"
        THEN Continue(eval_alloc(v, 1), SetTopOf(c, "handler"))
        ELSE IF fn = "rep" /\ ~Interactive
        THEN Stop("exit")
        ELSE Continue(frame_longjmp_push(v, "REP"), SetTopOf(c, "idle"))

\* Mutant: the handler is looked for past the innermost EXCEPT frame, if any.
ExceptRaise_skips ==
    LET x == vm.type_fp["EXCEPT"]
        y == IF vm.frames[x].type_prev = 0 THEN x ELSE vm.frames[x].type_prev
        w == [vm EXCEPT !.except_lvl = IF y = except_top THEN 0 ELSE 1]
    IN  Caught(vm_state_restore(w, vm.frames[y].save), longjmp(cstk, y))

\* except_raise1 and frame_except_raise.  Reporting an uncaught exception
\* evaluates, which may itself raise.
ExceptRaise ==
    LET x        == vm.type_fp["EXCEPT"]
        uncaught == x = except_top
        w        == [vm EXCEPT !.except_lvl = IF uncaught THEN 0 ELSE 1]
    IN  IF vm.except_lvl + 1 > 1
        THEN Stop("double")
        ELSE \/ uncaught /\ Stop("double")
             \/ Caught(vm_state_restore(w, vm.frames[x].save), longjmp(cstk, x))

Raise ==
    /\ Evaluating \/ (Running /\ Top.phase = "read")
    /\ ExceptRaise

\* cf_goto ends in the prog's setjmp ...
Goto ==
    /\ Evaluating
    /\ IF PROGFP = 0
       THEN ExceptRaise
       ELSE /\ vm' = JumpTo(PROGFP)
            /\ cstk' = SetTopOf(longjmp(cstk, PROGFP), "goto")
            /\ UNCHANGED <<except_top, status>>

\* ... where cf_prog looks the label up.
FindLabel ==
    /\ Running
    /\ Top.phase = "goto"
    /\ \/ ExceptRaise                              \* no such label
       \/ /\ cstk' = SetTopOf(cstk, "body")
          /\ UNCHANGED <<vm, except_top, status>>

ProgReturn ==
    /\ Evaluating
    /\ IF PROGFP = 0
       THEN ExceptRaise
       ELSE LET k == Owner(cstk, PROGFP)
            IN  /\ vm' = ReturnFrom(JumpTo(PROGFP), cstk[k])
                /\ cstk' = SubSeq(cstk, 1, k - 1)
                /\ UNCHANGED <<except_top, status>>

Break ==
    /\ Evaluating
    /\ IF WHILEFP = 0
       THEN ExceptRaise
       ELSE LET k == Owner(cstk, WHILEFP)
            IN  /\ vm' = ReturnFrom(JumpTo(WHILEFP), cstk[k])
                /\ cstk' = SubSeq(cstk, 1, k - 1)
                /\ UNCHANGED <<except_top, status>>

ContinueLoop ==
    /\ Evaluating
    /\ IF WHILEFP = 0
       THEN ExceptRaise
       ELSE /\ vm' = JumpTo(WHILEFP)
            /\ cstk' = longjmp(cstk, WHILEFP)
            /\ UNCHANGED <<except_top, status>>

-----------------------------------------------------------------------------
(* debug_rep(), entered by (debug).  At a breakpoint or a step the code    *)
(* enters it from frame_func_push instead; that is modelled as a (debug)   *)
(* in front of the function's body.  What it saves as old_except_top is    *)
(* XFP, the innermost EXCEPT frame.                                        *)

DebugRep ==
    /\ Evaluating
    /\ Debug
    /\ LET v0 == eval_alloc(vm, CallSlots)
           v1 == frame_push(eval_alloc(CallFrames(v0), WorkSlots["debug"]), "INPUT")
           v2 == frame_longjmp_push(v1, "EXCEPT")
           v3 == frame_longjmp_push(v2, "REP")
           jb == Len(v2.frames)
           a  == Activation("debug", "idle", vm_state_save(v0), jb, v1.type_fp["EXCEPT"])
       IN  IF Fits(v3)
           THEN vm' = v3 /\ cstk' = Append(cstk, a) /\ except_top' = jb
                /\ UNCHANGED status
           ELSE Stop("fatal")

DebugResume ==
    /\ Running
    /\ Top.fn = "debug" /\ Top.phase = "idle"
    /\ except_top' = Top.old
    /\ vm' = ReturnFrom(vm, Top)
    /\ cstk' = SubSeq(cstk, 1, Len(cstk) - 1)
    /\ UNCHANGED status

-----------------------------------------------------------------------------
EmptyVm == [frames |-> <<>>, type_fp |-> [t \in FrameTypes |-> 0], sp |-> 0,
            except_lvl |-> 0, debug_lvl |-> 0, bufs |-> 0]

\* rep() at its first prompt: the main module's and the global environment,
\* the input, and the loop's own two frames.  sp counts from here on.
RepBase == frame_push(frame_push(frame_push(EmptyVm, "ENV"), "ENV"), "INPUT")

Init ==
    /\ vm = frame_longjmp_push(
                frame_longjmp_push(eval_alloc(RepBase, 3), "EXCEPT"), "REP")
    /\ except_top = 4
    /\ cstk = <<Activation("rep", "idle", vm_state_save(RepBase), 4, 0)>>
    /\ status = "run"

Stopped == ~Running /\ UNCHANGED vars

Next ==
    \/ \E fn \in Fns : Call(fn)
    \/ Return
    \/ TryFinal
    \/ ReadToken \/ TakeToken \/ ReadDone \/ EvalDone \/ EndOfInput
    \/ Raise \/ Goto \/ FindLabel \/ ProgReturn \/ Break \/ ContinueLoop
    \/ DebugRep \/ DebugResume
    \/ Stopped

Spec == Init /\ [][Next]_vars
-----------------------------------------------------------------------------
(* Properties.                                                             *)

Saves == [sp : Nat, fp : Nat, debug_lvl : Nat]

Frames == [type : FrameTypes, type_prev : Nat, save : Saves, data : BOOLEAN]

Vms == [frames : Seq(Frames), type_fp : [FrameTypes -> Nat], sp : Nat,
        except_lvl : {0, 1}, debug_lvl : Nat, bufs : Nat]

Phases == {"idle", "read", "eval", "body", "goto", "handler", "final"}

Activations == [fn : AllFns \cup {"rep", "debug"}, phase : Phases,
                save : Saves, jb : Nat, old : Nat]

\* The VM, the C stack and the process status have their types.
TypeOK ==
    /\ vm \in Vms
    /\ except_top \in Nat
    /\ cstk \in Seq(Activations) /\ cstk # <<>>
    /\ status \in {"run", "exit", "fatal", "double", "aborted"}

FramesOf(v, t) == {i \in DOMAIN v.frames : v.frames[i].type = t}

\* p is the topmost of the frames below i of type t, or null if none is.
TopmostBelow(v, t, i, p) ==
    /\ p \in {0} \cup FramesOf(v, t) /\ p < i
    /\ \A j \in FramesOf(v, t) : j < i => j <= p

Linked(v) ==
    /\ \A t \in FrameTypes :
           TopmostBelow(v, t, Len(v.frames) + 1, v.type_fp[t])
    /\ \A i \in DOMAIN v.frames :
           TopmostBelow(v, v.frames[i].type, i, v.frames[i].type_prev)

\* However frames are popped -- one by one, by a return, or many at once by a
\* longjmp -- vm->type_fp[t] is the innermost live frame of type t, and
\* type_prev leads to the next one: XFP, PROGFP, ENVFP never dangle.
TypeChains == Linked(vm)

JumpTypes == {"EXCEPT", "PROG", "WHILE"}

JumpTypeOf == [prog |-> "PROG", while |-> "WHILE", try |-> "EXCEPT",
               rep |-> "EXCEPT", debug |-> "EXCEPT"]

\* longjmp is only defined while the function that called setjmp has not
\* returned: the frames that can be jumped to are exactly the jb of the live
\* activations, each of the type its function pushes, nested as the calls are.
JumpTargetsLive ==
    /\ \A i \in DOMAIN vm.frames : vm.frames[i].type \in JumpTypes =>
           \E k \in DOMAIN cstk : cstk[k].jb = i
    /\ \A k \in DOMAIN cstk : cstk[k].jb # 0 =>
           /\ cstk[k].jb \in FramesOf(vm, JumpTypeOf[cstk[k].fn])
           /\ \A l \in DOMAIN cstk : l > k => cstk[l].save.fp >= cstk[k].jb

\* The slots an activation has when it calls setjmp, and now.
SlotsAtSetjmp(a) == IF a.fn = "rep" THEN 3 ELSE WorkSlots[a.fn]

SlotsHeld(a) == SlotsAtSetjmp(a) + IF a.phase = "handler" THEN 1 ELSE 0

SpOver(a) == a.save.sp + SlotsHeld(a)

\* No path out of a call leaks or drops eval-stack slots: each activation
\* starts right above its caller's slots, a longjmp returns to the slots held
\* at the setjmp, and sp is where the innermost activation left it.  rep()
\* asserts the case of the prompt: DEBUG_ASSERT(vm->sp == &work[-3]).
SlotsBalanced ==
    /\ \A k \in DOMAIN cstk : k + 1 \in DOMAIN cstk =>
           cstk[k + 1].save.sp = SpOver(cstk[k]) + CallSlots
    /\ \A k \in DOMAIN cstk : cstk[k].jb # 0 =>
           vm.frames[cstk[k].jb].save.sp = cstk[k].save.sp + SlotsAtSetjmp(cstk[k])
    /\ vm.sp = SpOver(Top)

\* At a prompt, or between the forms of a file, no frame of what was evaluated
\* before is left: the frames are those the loop itself keeps.
LoopFrames(a) ==
    CASE a.fn = "rep"   -> <<"EXCEPT", "REP">>
      [] a.fn = "load"  -> <<"CLASS", "FUNC", "INPUT", "ENV">>
      [] a.fn = "debug" -> <<"CLASS", "FUNC", "INPUT", "EXCEPT", "REP">>

PromptClean ==
    Top.phase \in {"idle", "eval"} =>
        [i \in 1 .. Len(vm.frames) - Top.save.fp |->
            vm.frames[Top.save.fp + i].type] = LoopFrames(Top)

\* The trace indentation and the debugger's "next" count the calls in progress:
\* debug_lvl survives longjmps that drop FUNC frames without debug_leave.
DebugLvlCountsCalls ==
    Debug => vm.debug_lvl = Cardinality(FramesOf(vm, "FUNC"))

\* A reader buffer is owned by exactly one MEM frame, which frees it however
\* the read ends, or by the string made of it: none leaks, none is freed twice.
BuffersOwned ==
    vm.bufs = Cardinality({i \in FramesOf(vm, "MEM") : vm.frames[i].data})

\* The level that makes the next exception a fatal "Double exception" is up
\* only while a handler runs: a handler left by any route, return, goto, break
\* or continue, takes it down again.  (debug_rep's stale except_top breaks this
\* in a debug build: see hazards.)
HandlerLevel ==
    ~Debug /\ vm.except_lvl = 1 =>
        \E k \in DOMAIN cstk : cstk[k].phase = "handler"

Guarding(a) == a.fn = "try" /\ a.phase = "body"

\* An exception is handled by the innermost try whose body is in progress:
\* none is skipped, whatever returns and jumps left the others.  (A handler that
\* completed a try of its own may be entered again: see hazards.)
HandledByInnermost ==
    [][\A k \in DOMAIN cstk' :
          (cstk'[k].phase = "handler" /\ cstk'[k] # cstk[k]) =>
              /\ Guarding(cstk[k])
              /\ \A l \in DOMAIN cstk : l > k => ~Guarding(cstk[l])]_vars
=============================================================================
