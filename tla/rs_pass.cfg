\* A peer that may answer RECEIVED (the C++ peer buffers values); one rule, queue_length 2.
CONSTANTS
    NumRules = 1
    MaxWrites = 3
    QueueLen = 2
    Replies = {"INJECTED", "RECEIVED", "TIMEOUT"}
    MaxTimeouts = 1
SPECIFICATION Spec
INVARIANT TypeOK
INVARIANT PeerNeverRegresses
PROPERTY RequestAllServed
PROPERTY QueueDrains
PROPERTY PeerConverges
