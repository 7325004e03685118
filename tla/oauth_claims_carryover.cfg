\* One request at a time; the issuer may sign a token without "scope".
CONSTANTS
    Procs = {p1}
    Absent = Absent
    Tokens <- PartialClaimTokens
SPECIFICATION Spec
INVARIANT GrantMatchesOwnToken
