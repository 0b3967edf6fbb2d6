SPECIFICATION MCSpec
CONSTANTS
    e1 = e1
    e2 = e2
    Event <- MCEvent
    Node <- MCNode
    Param <- MCParam
    Target <- MCTarget
    RootParams <- MCRootParams
    Params <- MCParams
    Generator <- MCGenerator
    Call <- MCCall
    Function <- MCFunction
    Handler = "h"
    Signatures <- MCSignatures
INVARIANTS
    ContextsAreLeft
CHECK_DEADLOCK FALSE
