SPECIFICATION Spec
CONSTANTS
    Keys <- MCKeys
    Vals = {"v"}
    HashOf <- MCHashOf
    Equal <- MCEqual
    NoVal = NoVal
    Size = 2
    Cells = {c1, c2, c3}
    Nil = Nil
    Methods <- MCMethods
    MaxDepth = 2
    MaxResets = 1
INVARIANTS IterTypeOK CntExact EachOnce NoneMissed
PROPERTIES MapSpec SearchEnds IterationEnds
CHECK_DEADLOCK FALSE
