CONSTANTS
    w1 = w1
    rw = rw
    data = data
    status = status
    q1 = q1
    rq = rq
    Writers <- MCWriters
    Topics <- MCTopics
    Receivers <- MCReceivers
    MaxLen <- MCMaxLen
    MaxSets <- MCMaxSets
    RecQueue = rq
    RecWriter = rw
    StatusTopic = status
    MAX_QUEUE_SIZE_LIMIT <- MCMaxQueueSizeLimit
    LimitCalls = {1}
    MaxSettingsCalls = 2
    MaxRecordings = 1
    MaxStatus = 1
    ExtMemLen <- MCExtMemLen
    ExtMemCalls = {data}
    CompressionCalls = {data}
    DisableCalls = {status}
    ZlibFails = {2}
SPECIFICATION Spec
\* The application makes a bounded number of calls and returns.
CHECK_DEADLOCK FALSE
INVARIANTS TypeOK QueueKeepsLastMaxlen DeliveredToRegistered
PROPERTIES RecorderDrains RecordingReadsBack IndexedReadAgrees
