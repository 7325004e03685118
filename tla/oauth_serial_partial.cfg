\* One request at a time; the issuer may sign tokens lacking "scope" or "exp".
CONSTANTS
    Procs = {p1}
    Absent = Absent
    Tokens <- PartialClaimTokens
SPECIFICATION Spec
INVARIANT PartialInv
