------------------------- MODULE MC_ValueRecorder -------------------------
(* Model-checking instance of ValueRecorder on the ValueStore. *)
EXTENDS ValueRecorder, TLC

CONSTANTS w1, rw, data, status, q1, rq

\* One application writer; rw, the write thread, sets status values concurrently.
MCWriters == {w1, rw}
MCTopics == {data, status}
\* q1: a component's ValueQueue with maxlen 1; rq: the recorder's Queue.
MCReceivers == {q1, rq}
MCMaxLen == (q1 :> 1) @@ (rq :> 0)
MCMaxSets == 4
\* Data values carry a 2-byte ExtMem blob; the application may enable its
\* recording and compression at any time.
MCExtMemLen == (data :> 2) @@ (status :> 0)
\* MAX_QUEUE_SIZE_LIMIT is 2^32, beyond any queue length reached here: no
\* entry is dropped until the application sets a limit.
MCMaxQueueSizeLimit == MCMaxSets + 1
=============================================================================
