CONSTANTS
    NumRules = 1
    MaxWrites = 2
    QueueLen = 1
    Replies = {"INJECTED", "REJECTED", "TIMEOUT"}
    MaxTimeouts = 1
SPECIFICATION Spec
INVARIANT NoSilentLoss
