\* Two requests served concurrently.
CONSTANTS
    Procs = {p1, p2}
    Absent = Absent
    Tokens <- ConcurrentTokens
SPECIFICATION Spec
INVARIANT GrantMatchesOwnToken
