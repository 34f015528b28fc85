\* Two user threads calling through one worker; the communicator is
\* disconnected only by its finalizer, once no call is in progress.
\* The program ends when the calls are made, so deadlock is not checked.
CONSTANTS
    c1 = c1
    c2 = c2
    fin = fin
    Callers <- MCCallers
    Fin = fin
    none = none
    NoActor = none
    MaxCalls = 3
    ExplicitDisconnect = FALSE
SPECIFICATION Spec
CHECK_DEADLOCK FALSE
INVARIANTS TypeOK SubmitReturnsOwnResult
PROPERTIES CallsComplete
