SPECIFICATION Spec
CONSTANTS
    MaxFrames = 17
    MaxEval = 40
    Debug = FALSE
    Interactive = TRUE
    Fns = {"subr", "lambda", "let", "prog", "while", "try", "load"}
INVARIANTS TypeOK TypeChains JumpTargetsLive SlotsBalanced PromptClean BuffersOwned HandlerLevel
PROPERTY HandledByInnermost
