SPECIFICATION Spec
CONSTANTS
    c1 = c1  c2 = c2  c3 = c3  c4 = c4
    Pages <- TwoPages
    NSlots = 2
    Nil = Nil
    Types = {"lib", "str", "dptr", "obj", "class", "iter", "file"}
    Collects = FALSE
SYMMETRY Symmetry
INVARIANTS RefCntExact TablesDoNotHold NothingDangles
