\* Two requests served concurrently, with the runtime's race detector.
CONSTANTS
    Procs = {p1, p2}
    Absent = Absent
    Tokens <- ConcurrentTokens
SPECIFICATION SpecRacy
INVARIANT NoRuntimeAbort
CHECK_DEADLOCK FALSE
