\* One client calling the tools one after another.
CONSTANTS
    Callers = {c1}
    Jobs = {j1, j2, j3}
    RCap = 1
    Foreign = Foreign
    None = None
SPECIFICATION Spec
INVARIANT ResultToOwnJob
