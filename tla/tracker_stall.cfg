\* One client, three live job paths, rchannel of one result:
\* timed-out jobs leave their results unread.
CONSTANTS
    Callers = {c1}
    Jobs = {j1, j2, j3}
    RCap = 1
    Foreign = Foreign
    None = None
SPECIFICATION Spec
PROPERTY CallsReturn
\* The stall is a state where the call and the signal goroutine both block
\* for good; the property, not deadlock detection, is what this run asks.
CHECK_DEADLOCK FALSE
