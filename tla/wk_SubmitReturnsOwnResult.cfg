\* One user thread disconnects while the other calls through the same
\* worker (RemoteControl with own_thread, documented as thread safe).
CONSTANTS
    c1 = c1
    c2 = c2
    fin = fin
    Callers <- MCCallers
    Fin = fin
    none = none
    NoActor = none
    MaxCalls = 2
    ExplicitDisconnect = TRUE
SPECIFICATION Spec
CHECK_DEADLOCK FALSE
INVARIANT SubmitReturnsOwnResult
