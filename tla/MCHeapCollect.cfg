SPECIFICATION Spec
CONSTANTS
    c1 = c1  c2 = c2  c3 = c3  c4 = c4
    Pages <- TwoPages
    NSlots = 2
    Nil = Nil
    Types = {"array", "closure", "sym", "closuregen"}
    Collects = TRUE
SYMMETRY Symmetry
INVARIANTS TypeOK RefCntExact NothingLingers TablesDoNotHold SweptUnreachable CollectionComplete
PROPERTY MemorySpec
