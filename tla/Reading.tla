------------------------------ MODULE Reading ------------------------------
(***************************************************************************)
(* Reader and Loader, side by side.  load_file calls the reader for the    *)
(* forms of a file; what they share is the stacks, which are in VmStack, so *)
(* a behaviour is about one of them.                                       *)
(***************************************************************************)
EXTENDS Reader, Loader

VARIABLE part    \* "read" or "load"

\* What the one that does not run has.
AnInput == CHOOSE i \in Inputs : TRUE

ADisk == [f \in Files |-> CHOOSE c \in OnDisk[f] : TRUE]

Init ==
    /\ part \in {"read", "load"}
    /\ ReaderInit /\ (part = "load" => input = AnInput)
    /\ LoaderInit /\ (part = "read" => disk = ADisk)

Next ==
    /\ part' = part
    /\ \/ part = "read" /\ ReaderNext /\ UNCHANGED mvars
       \/ part = "load" /\ LoaderNext /\ UNCHANGED rvars

Spec == Init /\ [][Next]_<<part, rvars, mvars>> /\ WF_rvars(part = "read" /\ ReaderStep)

\* The type of the state.
ReadingTypeOK == ReaderTypeOK /\ LoaderTypeOK

\* Reading a text comes to an end, unless it has reached the end within a comment
\* within a list.
ReadingEnds == part = "read" ~> Ended

=============================================================================
