-------------------------------- MODULE Sort --------------------------------
(***************************************************************************)
(* Sorting an array in place (src/src/main.c, arr_qsort and arr_bsort).    *)
(* Every comparison may be a call of the program's: it may raise an        *)
(* exception, and nothing makes its answers consistent.  Indices count     *)
(* from 1 through the whole array; the C recursion is the list of the      *)
(* parts still to be sorted.                                               *)
(***************************************************************************)
EXTENDS Integers, Sequences, FiniteSets

CONSTANTS
    SortElems,   \* the elements, integers that compare as such
    MaxSize,     \* bound on the size of the array
    SmallSize    \* sizes up to this one are sorted by arr_bsort (6 in the code)

ASSUME SortAssumption ==
    SortElems \subseteq Int /\ MaxSize \in Nat /\ SmallSize \in Nat \ {0}

VARIABLES
    arr,      \* the array
    given0,   \* its contents when sort was called
    fickle,   \* the program's comparison answers as it likes
    parts,    \* the parts still to be sorted, as <<first, last>>
    doing,    \* "idle", "part", "bubble", "up", "down", "last", "sorted", "raised"
    low, high,   \* the indices of the loops
    top,      \* arr_bsort: the last index of this pass
    pivot,    \* arr_qsort: pivot_value
    flag      \* f of arr_bsort, f_lo of arr_qsort

svars == <<arr, given0, fickle, parts, doing, low, high, top, pivot, flag>>

First == Head(parts)[1]
End == Head(parts)[2]

\* sx_cmp_with_callable.
Compared(a, b) ==
    IF fickle THEN {-1, 0, 1}
    ELSE {IF a < b THEN -1 ELSE IF a = b THEN 0 ELSE 1}

Swapped(a, m, n) == [a EXCEPT ![m] = a[n], ![n] = a[m]]

CallSort ==
    /\ doing = "idle" /\ doing' = "part"
    /\ \E n \in 0 .. MaxSize : arr' \in [1 .. n -> SortElems] /\ parts' = << <<1, n>> >>
    /\ given0' = arr' /\ fickle' \in BOOLEAN
    /\ UNCHANGED <<low, high, top, pivot, flag>>

\* Mutant: parts of two are taken for sorted.
NextPart_two ==
    /\ doing = "part" /\ parts # << >>
    /\ IF End - First <= 1 THEN parts' = Tail(parts) /\ UNCHANGED <<doing, low, high, top, pivot, flag>>
       ELSE IF End - First < SmallSize
       THEN /\ doing' = "bubble" /\ low' = First /\ top' = End /\ flag' = FALSE
            /\ UNCHANGED <<parts, high, pivot>>
       ELSE /\ doing' = "up" /\ low' = First + 1 /\ high' = End /\ flag' = FALSE
            /\ pivot' = arr[First] /\ UNCHANGED <<parts, top>>
    /\ UNCHANGED <<arr, given0, fickle>>

\* The head of arr_qsort and of arr_bsort.
NextPart ==
    /\ doing = "part" /\ parts # << >>
    /\ IF End <= First THEN parts' = Tail(parts) /\ UNCHANGED <<doing, low, high, top, pivot, flag>>
       ELSE IF End - First < SmallSize
       THEN /\ doing' = "bubble" /\ low' = First /\ top' = End /\ flag' = FALSE
            /\ UNCHANGED <<parts, high, pivot>>
       ELSE /\ doing' = "up" /\ low' = First + 1 /\ high' = End /\ flag' = FALSE
            /\ pivot' = arr[First] /\ UNCHANGED <<parts, top>>
    /\ UNCHANGED <<arr, given0, fickle>>

\* Mutant: a pass that swapped is repeated with the same end.
Pass_again(swapped) ==
    IF low + 1 < top THEN low' = low + 1 /\ flag' = swapped /\ UNCHANGED <<top, parts, doing>>
    ELSE IF swapped
    THEN low' = First /\ flag' = FALSE /\ UNCHANGED <<top, parts, doing>>
    ELSE parts' = Tail(parts) /\ doing' = "part" /\ UNCHANGED <<low, top, flag>>

\* The loops of arr_bsort: the end comes down by one each pass, and a pass
\* without a swap is the last.
Pass(swapped) ==
    IF low + 1 < top THEN low' = low + 1 /\ flag' = swapped /\ UNCHANGED <<top, parts, doing>>
    ELSE IF swapped /\ top - 1 > First
    THEN low' = First /\ top' = top - 1 /\ flag' = FALSE /\ UNCHANGED <<parts, doing>>
    ELSE parts' = Tail(parts) /\ doing' = "part" /\ UNCHANGED <<low, top, flag>>

Bubble ==
    /\ doing = "bubble"
    /\ \E c \in Compared(arr[low], arr[low + 1]) :
          /\ arr' = IF c > 0 THEN Swapped(arr, low, low + 1) ELSE arr
          /\ Pass(flag \/ c > 0)
    /\ UNCHANGED <<given0, fickle, high, pivot>>

\* Mutant: the loop looks beyond where the other one has come to.
Up_past ==
    /\ doing = "up"
    /\ IF low > high THEN doing' = "down" /\ UNCHANGED <<low, flag>>
       ELSE \E c \in Compared(arr[low], pivot) :
               IF c > 0 THEN flag' = TRUE /\ doing' = "down" /\ UNCHANGED low
               ELSE low' = low + 1 /\ UNCHANGED <<doing, flag>>
    /\ UNCHANGED <<arr, given0, fickle, parts, high, top, pivot>>

\* The first inner loop of arr_qsort: up to an element above the pivot.
Up ==
    /\ doing = "up"
    /\ IF low >= high THEN doing' = "down" /\ UNCHANGED <<low, flag>>
       ELSE \E c \in Compared(arr[low], pivot) :
               IF c > 0 THEN flag' = TRUE /\ doing' = "down" /\ UNCHANGED low
               ELSE low' = low + 1 /\ UNCHANGED <<doing, flag>>
    /\ UNCHANGED <<arr, given0, fickle, parts, high, top, pivot>>

\* The pivot goes to p, and both sides remain to be sorted.
Split(a, p) ==
    /\ arr' = Swapped(a, First, p)
    /\ parts' = << <<First, p - 1>>, <<p + 1, End>> >> \o Tail(parts)
    /\ doing' = "part" /\ UNCHANGED flag

\* The second inner loop: down to an element below the pivot; the two are swapped.
Down ==
    /\ doing = "down"
    /\ IF low >= high
       THEN /\ IF flag THEN Split(arr, low - 1)
               ELSE doing' = "last" /\ UNCHANGED <<arr, parts, flag>>
            /\ UNCHANGED <<low, high>>
       ELSE \E c \in Compared(arr[high], pivot) :
               IF c >= 0 THEN high' = high - 1 /\ UNCHANGED <<arr, parts, doing, low, flag>>
               ELSE /\ low' = low + 1 /\ high' = high - 1
                    /\ IF low' > high' THEN Split(Swapped(arr, low, high), high')
                       ELSE /\ arr' = Swapped(arr, low, high)
                            /\ doing' = "up" /\ flag' = FALSE /\ UNCHANGED parts
    /\ UNCHANGED <<given0, fickle, top, pivot>>

\* i ran into j, whose element has not been looked at.
LastLook ==
    /\ doing = "last"
    /\ \E c \in Compared(arr[high], pivot) : Split(arr, IF c > 0 THEN high - 1 ELSE high)
    /\ UNCHANGED <<given0, fickle, low, high, top, pivot>>

\* The program's comparison raises an exception, or gives no integer.
CompareRaises ==
    /\ doing \in {"bubble", "up", "down", "last"} /\ doing' = "raised"
    /\ UNCHANGED <<arr, given0, fickle, parts, low, high, top, pivot, flag>>

Sorted ==
    /\ doing = "part" /\ parts = << >> /\ doing' = "sorted"
    /\ UNCHANGED <<arr, given0, fickle, parts, low, high, top, pivot, flag>>

SortInit ==
    /\ arr = << >> /\ given0 = << >> /\ fickle = FALSE /\ parts = << >> /\ doing = "idle"
    /\ low = 0 /\ high = 0 /\ top = 0 /\ pivot = 0 /\ flag = FALSE

\* The array is the program's again.
SortReturns ==
    /\ doing \in {"sorted", "raised"} /\ doing' = "idle"
    /\ arr' = << >> /\ given0' = << >> /\ fickle' = FALSE /\ parts' = << >>
    /\ low' = 0 /\ high' = 0 /\ top' = 0 /\ pivot' = 0 /\ flag' = FALSE

SortStep == NextPart \/ Bubble \/ Up \/ Down \/ LastLook \/ Sorted \/ SortReturns

SortNext == CallSort \/ SortStep \/ CompareRaises

SortSpec == SortInit /\ [][SortNext]_svars

-----------------------------------------------------------------------------
Occurrences(a, e) == {n \in 1 .. Len(a) : a[n] = e}

\* The type of the state; within a part the indices stay in it.
SortTypeOK ==
    /\ arr \in Seq(SortElems) /\ Len(arr) = Len(given0)
    /\ doing \in {"up", "down", "last"} =>
          First < low /\ low <= high /\ high <= End /\ (doing = "last" => low = high)
    /\ doing = "bubble" => First <= low /\ low < top /\ top <= End

\* Whatever the comparison does, also if it raises in the middle, sort loses and
\* doubles no element.  With a consistent one the array ends up sorted.
SortKeeps ==
    /\ \A e \in SortElems :
          Cardinality(Occurrences(arr, e)) = Cardinality(Occurrences(given0, e))
    /\ doing = "sorted" /\ ~fickle => \A n \in 1 .. Len(arr) - 1 : arr[n] <= arr[n + 1]

\* Sorting ends, with answers that contradict each other, too.
SortEnds == doing = "part" ~> doing = "idle"

=============================================================================
