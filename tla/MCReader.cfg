SPECIFICATION Spec
CONSTANTS
    Inputs <- MCInputs
    MaxText = 3
    Names = {"f", "l"}
    Libs = {"l"}
    Path <- MCPath
    OnDisk <- MCOnDisk
    LoadsOf <- MCLoadsOf
    NoFile = "none"
    NoInit = "noinit"
    MaxModules = 3
    MaxNested = 2
    MaxRefs = 2
INVARIANTS ReadingTypeOK ReadsBack LoadedModules
PROPERTIES ReadingEnds
