SPECIFICATION Spec
CONSTANTS
    Callables <- MCCallables
    Methods <- MCMethods
    Funcalled <- MCFuncalled
    MaxArgs = 3
    NClasses = 2
    Syms = {"x"}  Vals = {"v"}
    Dicts = {"d1", "d2"}
    Modules = {"m"}
    NoModule = "no module"  Unbound = "unbound"
    MaxScopes = 5
    SortElems = {1, 2, 3}
    MaxSize = 5
    SmallSize = 3
    MaxLists = 3
    MaxLen = 3
INVARIANTS EvaluatorTypeOK ScopesKept NearestMethod ModuleHides SortKeeps CallsInOrder
PROPERTIES CallsKeepPromise ConstantsKept SortEnds IterationDone
