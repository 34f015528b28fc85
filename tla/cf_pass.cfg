CONSTANTS
    NumComps <- MCNumComps
    MaxStarts <- MCMaxStarts
    MaxTriggers <- MCMaxTriggers
    MaxValues <- MCMaxValues
    MaxFaults <- MCMaxFaults
SPECIFICATION Spec
\* The application's main thread makes a bounded number of manager calls
\* and then returns: the system may stop.
CHECK_DEADLOCK FALSE
INVARIANTS TypeOK
PROPERTIES TriggersServed ValuesServed ShutdownCompletes
