CONSTANTS
    Controllers <- MCControllers
    HttpAddrs <- MCHttpAddrs
    Timeouts <- MCTimeouts
SPECIFICATION Spec
INVARIANT NoauthFlagHonoured
\* main exits or returns: the process really stops.
CHECK_DEADLOCK FALSE
