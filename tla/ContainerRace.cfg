CONSTANTS
    t1 = t1
    t2 = t2
    t3 = t3
    Callers <- MCCallers
    Closers <- NoClosers
    NoHandle = NoHandle
    Failures = FALSE
    ApiModes = {FALSE}
    MaxHandles = 3
    MaxClients = 2
SPECIFICATION Spec
INVARIANT OpenedOnce
