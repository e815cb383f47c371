SPECIFICATION Spec
CONSTANTS
    Callables <- MCCallables
    Methods <- MCMethods
    Funcalled <- MCTwice
    MaxArgs = 2
    NClasses = 2
    Syms = {"x"}  Vals = {"v"}
    Dicts = {"d1", "d2"}
    Modules = {"m"}
    NoModule = "no module"  Unbound = "unbound"
    MaxScopes = 2
    SortElems = {1, 2, 3}
    MaxSize = 1
    SmallSize = 3
    MaxLists = 1
    MaxLen = 1
INVARIANTS EvaluatedOnce
