SPECIFICATION Spec
CONSTANTS
    MaxFrames = 17
    MaxEval = 24
    Debug = TRUE
    Interactive = FALSE
    Fns = {"subr", "lambda", "let", "prog", "while", "try", "load"}
INVARIANT DebugLvlCountsCalls
