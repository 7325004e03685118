\* One request at a time, every signed token carrying every claim.
CONSTANTS
    Procs = {p1}
    Absent = Absent
    Tokens <- SerialTokens
SPECIFICATION Spec
INVARIANT GrantMatchesOwnToken
INVARIANT SerialInv
