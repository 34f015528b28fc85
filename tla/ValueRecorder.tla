---------------------------- MODULE ValueRecorder ----------------------------
(***************************************************************************)
(* The ValueRecorder (mcf_core/value_recorder.py) on the ValueStore.      *)
(*                                                                         *)
(* start() opens the file, registers the recorder's Queue as an all-topic *)
(* receiver and starts write_thread; stop() expires the queue, sets the   *)
(* stop request, joins the thread and closes the file.  write_thread pops *)
(* the queue until it is empty, serializes an entry when the queue size   *)
(* after the pop is below the write queue size limit or the entry is a    *)
(* status record, and otherwise drops it; then it sleeps and checks the   *)
(* stop request.  After a serialize, StatusMonitor.serialize_end may (once *)
(* a second has passed) set a status value into the store, from the write *)
(* thread, which the recorder's own queue then receives.                  *)
(*                                                                         *)
(* The application's writers set values on data topics and one consumer  *)
(* component pops its ValueQueue.  A recording is the sequence of entries *)
(* written to the file between one start and the next stop; the file is  *)
(* what _serialize writes for them, cell by cell (see RecordReader).      *)
(*                                                                         *)
(* The application's main thread may change the recorder's settings at    *)
(* any time, under the recorder's lock: disable a topic, enable ExtMem    *)
(* serialization or compression of a topic, set the write queue size      *)
(* limit.  _serialize reads them under the same lock, once per entry.     *)
(***************************************************************************)
EXTENDS ValueStore, RecordReader

CONSTANTS
    RecQueue,        \* the recorder's Queue, a member of Receivers
    RecWriter,       \* the write thread, as a caller of set_value (in Writers)
    StatusTopic,     \* RECORDER_STATUS_TOPIC
    MAX_QUEUE_SIZE_LIMIT, \* the initial _queue_size_limit
    MaxRecordings,   \* bound on start() calls
    MaxStatus,       \* bound on status outputs
    ExtMemLen,       \* [Topics -> Nat]: length of a value's ExtMem blob, 0 = the
                     \* value serializes without one (len(serialized) == 2)
    ExtMemCalls,     \* topics the application passes to enable_ext_mem_serialization
    CompressionCalls,\* ... to enable_ext_mem_compression
    DisableCalls,    \* ... to disable_serialization
    LimitCalls,      \* limits it passes to set_write_queue_size_limit
    MaxSettingsCalls,\* bound on the settings the application changes
    ZlibFails        \* values whose ExtMem zlib.compress raises zlib.error on

ASSUME /\ RecQueue \in Receivers /\ MaxLen[RecQueue] = 0
       /\ RecWriter \in Writers /\ StatusTopic \in Topics
       /\ MAX_QUEUE_SIZE_LIMIT \in Nat /\ MaxRecordings \in Nat /\ MaxStatus \in Nat
       /\ ExtMemLen \in [Topics -> Nat] /\ ExtMemLen[StatusTopic] = 0
       /\ ExtMemCalls \cup CompressionCalls \cup DisableCalls \subseteq Topics
       /\ LimitCalls \subseteq Nat /\ MaxSettingsCalls \in Nat
       /\ ZlibFails \subseteq 1..MaxSets

AppWriters == Writers \ {RecWriter}
DataTopics == Topics \ {StatusTopic}
AppQueues == Receivers \ {RecQueue}

VARIABLES
    file,         \* _file is not None
    mpc,          \* the main thread: idle, or in stop() joining the write thread
    tpc,          \* the write thread: none | loop | drain | notify
    stop_request, \* _stop_request
    drop_flag,    \* _recorder_status.drop_flag
    queue_size_limit,          \* _queue_size_limit
    disabled_topics,           \* _disabled_topics
    enabled_ext_mem_topics,    \* _enabled_ext_mem_topics
    compressed_ext_mem_topics, \* _compressed_ext_mem_topics
    recordings,   \* history: the entries written, one sequence per start(),
                  \* each with whether its ExtMem was packed
    dropped,      \* history: the entries dropped
    outputs,      \* status values set so far
    files         \* the content of each recording's file

settings == <<queue_size_limit, disabled_topics, enabled_ext_mem_topics,
             compressed_ext_mem_topics>>
recVars == <<file, mpc, tpc, stop_request, drop_flag, recordings, dropped,
             outputs, files, settings>>
vars == <<storeVars, recVars>>

TypeOK ==
    /\ StoreTypeOK
    /\ file \in BOOLEAN /\ mpc \in {"idle", "join"}
    /\ tpc \in {"none", "loop", "drain", "notify"}
    /\ stop_request \in BOOLEAN /\ drop_flag \in BOOLEAN
    /\ queue_size_limit \in {MAX_QUEUE_SIZE_LIMIT} \cup LimitCalls
    /\ disabled_topics \subseteq DisableCalls
    /\ enabled_ext_mem_topics \subseteq ExtMemCalls
    /\ compressed_ext_mem_topics \subseteq CompressionCalls
    /\ recordings \in Seq(Seq([item : Items, pack : BOOLEAN])) /\ dropped \in Seq(Items)
    /\ outputs \in 0..MaxStatus /\ Len(files) = Len(recordings)
    \* the write thread only runs while the file is open
    /\ tpc # "none" => file

Init ==
    /\ StoreInit
    /\ file = FALSE /\ mpc = "idle" /\ tpc = "none" /\ stop_request = FALSE
    /\ drop_flag = FALSE /\ recordings = <<>> /\ dropped = <<>>
    /\ outputs = 0 /\ files = <<>>
    /\ queue_size_limit = MAX_QUEUE_SIZE_LIMIT /\ disabled_topics = {}
    /\ enabled_ext_mem_topics = {} /\ compressed_ext_mem_topics = {}

-----------------------------------------------------------------------------
(* The main thread. *)

\* ValueRecorder.start with a file that opens: register the queue (skipped
\* when a previous start registered it), a new write_thread, stop request
\* cleared.  StatusMonitor.start at the top of the thread resets the status.
Start ==
    /\ ~file /\ mpc = "idle" /\ Len(recordings) < MaxRecordings
    /\ file' = TRUE
    /\ AddAllTopicReceiver(RecQueue)
    /\ tpc' = "loop" /\ stop_request' = FALSE /\ drop_flag' = FALSE
    /\ recordings' = Append(recordings, <<>>) /\ files' = Append(files, <<>>)
    /\ UNCHANGED <<settings, mpc, dropped, outputs>>

\* ValueRecorder.stop, first part: expire the queue (no effect, see
\* ValueStore) and set the stop request.
StopBegin ==
    /\ file /\ mpc = "idle"
    /\ stop_request' = TRUE /\ mpc' = "join"
    /\ UNCHANGED <<settings, storeVars, file, tpc, drop_flag, recordings, dropped, outputs,
                   files>>

\* Mutant: stop() closes the file without joining the write thread.
StopJoinNoWait ==
    /\ mpc = "join"
    /\ file' = FALSE /\ mpc' = "idle"
    /\ UNCHANGED <<settings, storeVars, tpc, stop_request, drop_flag, recordings, dropped,
                   outputs, files>>

\* ValueRecorder.stop, the rest: the join returns when the thread has ended;
\* the file is closed and _file = None.
StopJoin ==
    /\ mpc = "join" /\ tpc = "none"
    /\ file' = FALSE /\ mpc' = "idle"
    /\ UNCHANGED <<settings, storeVars, tpc, stop_request, drop_flag, recordings, dropped,
                   outputs, files>>

-----------------------------------------------------------------------------
(* write_thread. *)

\* Mutant: the thread also ends when it finds the queue empty.
WriteLoopExitWhenIdle ==
    /\ tpc = "loop"
    /\ tpc' = IF stop_request \/ queue[RecQueue] = <<>> THEN "none" ELSE "drain"
    /\ UNCHANGED <<settings, storeVars, file, mpc, stop_request, drop_flag, recordings, dropped,
                   outputs, files>>

\* `while not self._stop_request.is_set()`, after the sleep.
WriteLoop ==
    /\ tpc = "loop"
    /\ tpc' = IF stop_request THEN "none" ELSE "drain"
    /\ UNCHANGED <<settings, storeVars, file, mpc, stop_request, drop_flag, recordings, dropped,
                   outputs, files>>

\* _serialize, the four entries written for a queue entry: PacketHeader
\* (its timestamp left out), the value's fields (the value id stands for
\* them), the ExtMemHeader and the ExtMem data, which is zlib-compressed on
\* a compressed topic unless zlib fails on it, then written raw.  Whether
\* ExtMem is packed and compressed is read under the lock, from the settings
\* as they are when the entry is serialized.
PackExtMem(t) == ExtMemLen[t] > 0 /\ t \in enabled_ext_mem_topics
ExtMemData(item) == [i \in 1..ExtMemLen[item.topic] |-> item.id]
Frame(item) ==
    LET pack == PackExtMem(item.topic)
        raw == IF pack THEN ExtMemData(item) ELSE <<>>
        compressed == pack /\ item.topic \in compressed_ext_mem_topics
                      /\ item.id \notin ZlibFails
        data == IF compressed THEN Compress(raw) ELSE raw
    IN  << Obj("pheader", <<item.topic, item.id>>), Obj("value", item.id),
           Obj("mheader", <<Len(raw), pack, IF compressed THEN Len(data) ELSE 0>>) >>
        \o [i \in DOMAIN data |-> Raw(data[i])]

\* _serialize appends the entry to the open file.
Serialize(item) ==
    /\ recordings' = [recordings EXCEPT ![Len(recordings)] =
                        Append(@, [item |-> item, pack |-> PackExtMem(item.topic)])]
    /\ files' = [files EXCEPT ![Len(files)] = @ \o Frame(item)]

\* The recorder's Queue.pop, under its lock: on a non-empty deque the oldest
\* entry (its topic looked up in _topic_id_map) and the size left behind
\* it; an empty deque gives an empty QueueEntry and the thread sleeps.
PopEntry == Head(queue[RecQueue])
PopSize == Len(queue[RecQueue]) - 1

\* write_thread keeps a popped entry when the size left is below the
\* limit (read without the lock) or it is a status record.
Kept == PopSize < queue_size_limit \/ PopEntry.topic = StatusTopic

\* The pop finds the deque empty: the inner loop ends and the thread sleeps.
WriteIdle ==
    /\ tpc = "drain" /\ queue[RecQueue] = <<>>
    /\ tpc' = "loop"
    /\ UNCHANGED <<storeVars, settings, file, mpc, stop_request, drop_flag, recordings,
                   dropped, outputs, files>>

\* A kept entry of an enabled topic: _serialize writes it, then
\* serialize_end calls _output_status if a second has passed.
WriteEntry ==
    /\ tpc = "drain" /\ queue[RecQueue] # <<>>
    /\ Kept /\ PopEntry.topic \notin disabled_topics
    /\ queue' = [queue EXCEPT ![RecQueue] = Tail(@)]
    /\ Serialize(PopEntry)
    /\ \/ /\ tpc' = "drain"
          /\ UNCHANGED <<store, receivers, allTopic, wpc, wtodo, witem, lastId,
                         delivered, valueTopic, regAt, outputs, drop_flag>>
       \/ /\ outputs < MaxStatus
          /\ SetValueLocked(RecWriter, StatusTopic)
          /\ UNCHANGED <<receivers, allTopic, delivered, regAt>>
          /\ outputs' = outputs + 1
          \* with no receiver to notify, _init_status follows
          /\ IF wpc'[RecWriter] = "notify"
               THEN tpc' = "notify" /\ UNCHANGED drop_flag
               ELSE tpc' = "drain" /\ drop_flag' = FALSE
    /\ UNCHANGED <<settings, file, mpc, stop_request, dropped>>

\* A kept entry of a disabled topic: _serialize returns at once, before
\* serialize_end; nothing is written or reported.
WriteSkipDisabled ==
    /\ tpc = "drain" /\ queue[RecQueue] # <<>>
    /\ Kept /\ PopEntry.topic \in disabled_topics
    /\ queue' = [queue EXCEPT ![RecQueue] = Tail(@)]
    /\ UNCHANGED <<store, receivers, allTopic, wpc, wtodo, witem, lastId, delivered,
                   valueTopic, regAt, recVars>>

\* Any other entry: StatusMonitor.report_dropped.
WriteDrop ==
    /\ tpc = "drain" /\ queue[RecQueue] # <<>>
    /\ ~Kept
    /\ queue' = [queue EXCEPT ![RecQueue] = Tail(@)]
    /\ dropped' = Append(dropped, PopEntry) /\ drop_flag' = TRUE
    /\ UNCHANGED <<store, receivers, allTopic, wpc, wtodo, witem, lastId, delivered,
                   valueTopic, regAt, settings, file, mpc, tpc, stop_request, recordings,
                   outputs, files>>

\* write_thread's inner loop, one Queue.pop and what follows it.
WritePop == WriteIdle \/ WriteEntry \/ WriteSkipDisabled \/ WriteDrop

\* The status value's set_value, after the lock, from the write thread;
\* _output_status then resets the status (_init_status).
WriteNotify ==
    /\ tpc = "notify"
    /\ NotifyReceiver(RecWriter)
    /\ tpc' = IF wpc'[RecWriter] = "idle" THEN "drain" ELSE "notify"
    /\ drop_flag' = IF wpc'[RecWriter] = "idle" THEN FALSE ELSE drop_flag
    /\ UNCHANGED <<settings, file, mpc, stop_request, recordings, dropped, outputs, files>>

-----------------------------------------------------------------------------
(* The recorder's settings, changed by the main thread under the lock.    *)

runVars == <<file, mpc, tpc, stop_request, drop_flag, recordings, dropped, outputs,
             files>>

\* ValueRecorder.disable_serialization.
DisableSerialization(t) ==
    /\ mpc = "idle"
    /\ disabled_topics' = disabled_topics \cup {t}
    /\ UNCHANGED <<storeVars, runVars, queue_size_limit, enabled_ext_mem_topics,
                   compressed_ext_mem_topics>>

\* ValueRecorder.enable_ext_mem_serialization.
EnableExtMemSerialization(t) ==
    /\ mpc = "idle"
    /\ enabled_ext_mem_topics' = enabled_ext_mem_topics \cup {t}
    /\ UNCHANGED <<storeVars, runVars, queue_size_limit, disabled_topics,
                   compressed_ext_mem_topics>>

\* ValueRecorder.enable_ext_mem_compression: the topic is added even when
\* its ExtMem is not serialized (only a warning is logged); it takes effect
\* once it is.
EnableExtMemCompression(t) ==
    /\ mpc = "idle"
    /\ compressed_ext_mem_topics' = compressed_ext_mem_topics \cup {t}
    /\ UNCHANGED <<storeVars, runVars, queue_size_limit, disabled_topics,
                   enabled_ext_mem_topics>>

\* ValueRecorder.set_write_queue_size_limit.
SetWriteQueueSizeLimit(l) ==
    /\ mpc = "idle"
    /\ queue_size_limit' = l
    /\ UNCHANGED <<storeVars, runVars, disabled_topics, enabled_ext_mem_topics,
                   compressed_ext_mem_topics>>

\* The settings changed so far.
SettingsChanged ==
    Cardinality(disabled_topics) + Cardinality(enabled_ext_mem_topics)
    + Cardinality(compressed_ext_mem_topics)
    + (IF queue_size_limit = MAX_QUEUE_SIZE_LIMIT THEN 0 ELSE 1)

SettingsStep ==
    /\ SettingsChanged < MaxSettingsCalls
    /\ \/ \E t \in DisableCalls : DisableSerialization(t)
       \/ \E t \in ExtMemCalls : EnableExtMemSerialization(t)
       \/ \E t \in CompressionCalls : EnableExtMemCompression(t)
       \/ \E l \in LimitCalls : SetWriteQueueSizeLimit(l)

-----------------------------------------------------------------------------
(* The application. *)

AppStep ==
    \/ \E w \in AppWriters, t \in DataTopics : SetValue(w, t)
    \/ \E w \in AppWriters : NotifyReceiver(w)
    \/ \E r \in AppQueues, t \in DataTopics : AddReceiver(r, t)
    \/ \E r \in AppQueues : Pop(r)

Next ==
    \/ AppStep /\ UNCHANGED recVars
    \/ Start \/ StopBegin \/ StopJoin
    \/ WriteLoop \/ WritePop \/ WriteNotify
    \/ SettingsStep

\* The write thread polls with a sleep and is runnable whenever enabled;
\* the main thread finishes a stop() it has begun.  When writers write and
\* when the application starts and stops recording is its own choice.
Spec == Init /\ [][Next]_vars /\ WF_vars(WriteLoop) /\ WF_vars(WritePop)
                /\ WF_vars(WriteNotify) /\ WF_vars(StopJoin)

-----------------------------------------------------------------------------
(* Properties. *)

\* The write thread keeps up: every entry in the recorder's queue is
\* eventually popped (written or dropped) unless a stop is requested.  The
\* thread must neither end nor sleep for good while entries wait.
InRecQueue(id) == \E i \in DOMAIN queue[RecQueue] : queue[RecQueue][i].id = id
RecorderDrains ==
    \A id \in ValueIds : InRecQueue(id) ~> (~InRecQueue(id) \/ stop_request)


\* What a reader is to get back of a recorded entry: topic, value id,
\* value and ExtMem (None where none was packed).
Written(e) ==
    <<e.item.topic, e.item.id, e.item.id,
      IF e.pack THEN Bytes(ExtMemData(e.item)) ELSE NoExtMem>>
ReadBack(f, rec) ==
    IF rec = Corrupt THEN <<"corrupt">>
    ELSE <<rec.topic, rec.valueid, rec.value, get_extmem(f, rec)>>
Cut(f, n) == SubSeq(f, 1, n)

\* Spec 4.5 and the framing round trip: after every write to a recording,
\* records_generator finds every record _serialize wrote, with topic,
\* value id, value and ExtMem intact, by framing alone (skipping compressed
\* and raw ExtMem by the header's sizes).  A file cut anywhere, as a killed
\* process leaves it between or inside the four writes, reads back as a
\* prefix of the entries; only the last record read may have a cut ExtMem.
ReadsBack(f, items) ==
    \A n \in 0..Len(f) :
        LET recs == records_generator(Cut(f, n), Topics) IN
        /\ Len(recs) <= Len(items)
        /\ n = Len(f) => Len(recs) = Len(items)
        /\ \A i \in 1..Len(recs) :
              LET got == ReadBack(Cut(f, n), recs[i]) IN
              IF i < Len(recs) \/ n = Len(f) THEN got = Written(items[i])
              ELSE SubSeq(got, 1, 3) = SubSeq(Written(items[i]), 1, 3)
RecordingReadsBack ==
    [][files' # files => ReadsBack(files'[Len(files')], recordings'[Len(recordings')])]_vars

\* Spec 4.5 (a) against (b): after every write to a recording,
\* records(start_idx, end_idx) over index(filter) returns the same records
\* as the filtered records_generator, positions start_idx .. end_idx - 1 of
\* it, and nothing for an empty or invalid range; for every filter (here:
\* by topic) and range.
Slice(g, s, e) ==
    IF s < 0 \/ s >= Len(g) \/ e < s THEN <<>>
    ELSE SubSeq(g, s + 1, IF e < Len(g) THEN e ELSE Len(g))
IndexAgrees(f) ==
    \A F \in SUBSET Topics :
        LET g == records_generator(f, F)
            ix == index(f, F)
        IN  \A s, e \in -1..Len(g) + 1 : records(f, ix, s, e) = Slice(g, s, e)
IndexedReadAgrees == [][files' # files => IndexAgrees(files'[Len(files')])]_vars
=============================================================================
