------------------------------- MODULE MCHeap -------------------------------
EXTENDS Heap

CONSTANTS c1, c2, c3, c4

TwoPages == {{c1, c2}, {c3, c4}}

\* Nothing depends on which cell or page is which.
Symmetry ==
    {f \in Permutations(Cells) : \A p \in Pages : {f[c] : c \in p} \in Pages}
=============================================================================
