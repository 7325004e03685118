\* Two concurrent calls, two live job paths, rchannel of one result,
\* other clients' jobs finishing too.
CONSTANTS
    Callers = {c1, c2}
    Jobs = {j1, j2}
    RCap = 1
    Foreign = Foreign
    None = None
SPECIFICATION Spec
SYMMETRY MCSymmetry
INVARIANT OwnCompletionRegistered
