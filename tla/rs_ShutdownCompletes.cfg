CONSTANTS
    NumRules = 1
    MaxWrites = 2
    QueueLen = 1
    Replies = {"INJECTED", "RECEIVED"}
    MaxTimeouts = 0
SPECIFICATION Spec
PROPERTY ShutdownCompletes
