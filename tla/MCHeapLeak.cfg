SPECIFICATION Spec
CONSTANTS
    c1 = c1  c2 = c2  c3 = c3  c4 = c4
    Pages <- TwoPages
    NSlots = 2
    Nil = Nil
    Types = {"class", "subr", "method", "module", "str"}
    Collects = FALSE
SYMMETRY Symmetry
INVARIANT FreeReleases
