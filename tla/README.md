# TLA+ models of MCF (flux-mcf, Python implementation)

This directory holds TLC-checkable TLA+ models of the Python side of MCF
(`src/mcf_py`). MCF is a component-based pub/sub middleware with three layers:

- a shared, topic-keyed value store;
- components that run one thread each and are woken by a trigger;
- a remote bridge that replicates topics to a peer process over ZeroMQ REQ/REP.

`PROJECT.json` lists the components, the runs, the mutants, the definition-to-source
map, the findings and the hazards. This file explains them.

## 1. The system: parts, state, operations, interactions

| Part | Source | State it keeps | Operations that change it |
|---|---|---|---|
| Event / EventSource | `mcf_core/events.py` | `_flag`, `_expired`; list of events | `trigger`, `wait_and_clear`, `clear`, `expire`, `add_event`, `_notify_events` (prunes expired events) |
| ValueStore | `mcf_core/value_store.py` | per topic: latest value and receivers; all-topic receivers | `set_value` (replace under lock, notify receivers after unlock), `get_value`, `add_receiver`, `add_all_topic_receiver` |
| ValueQueue | `mcf_core/value_store.py` | deque of (value, topic), `maxlen`, `_expired` | `receive` (evict oldest when `0 < maxlen <= len`, append, trigger events), `peek`, `pop`, `expire` |
| Component | `mcf_core/component_framework.py` | thread, `_trigger` Event, startup/shutdown requests, trigger handlers, value handlers | `ctrl_configure`, `ctrl_start`, `ctrl_run`, `ctrl_stop`, `abort`, `_thread_main` loop, `set_value`, `get_value` |
| ComponentManager | `mcf_core/component_framework.py` | registered components, ids, state REGISTERED/CONFIGURED/RUNNING | `register_component`, `configure`, `startup`, `shutdown` |
| RemoteStatusTracker | `mcf_remote/remote_service.py` | link state DOWN/UNSURE/UP, ping interval, last ping/pong times, freshness nonce | `run_cyclic`, `pong_received`, `message_received_in_down`, `sending_timeout` |
| RemotePair | `mcf_remote/remote_service.py` | tracker, pong queue, `_oldState`, send lock | `send_value`, `ping_received`, `pong_received`, `observe_state_change`, `cycle`, `receive` |
| RemoteService | `mcf_remote/remote_service.py` | send rules (queue, `forced_send`, `send_pending`), receive rules, `_initialized` | `_handle_triggers`, `_handle_send(_single)`, `send_all`, `reset_pending_values`, `value_received`, `blocked_value_*_received`, three helper threads |
| ZMQ/msgpack transport | `mcf_remote/zmq_msgpack_comm.py` | one REQ socket (sender), one REP socket (receiver) | `send_value`/`send_ping`/`send_pong`/commands (one round trip each, TIMEOUT after `send_timeout` ms), `Receiver.receive` dispatch |
| ValueRecorder | `mcf_core/value_recorder.py` | recorder queue, size limit, write thread, status monitor | `start`, `stop`, `write_thread`, `_serialize` |
| RecordReader | `mcf/record_reader.py` | file offsets | `index`, `records`, `records_generator`, `get_extmem` |
| OwnThreadWorker / ReusableThread | `mcf/worker.py` | pending call, result, events | `submit`, `run`, `join`, `finish` |
| Remote control client | `mcf/remote_control.py`, `mcf/zmq_communicator.py` | a REQ socket | request/response wrappers |

The parts interact as follows.

- A component's `set_value` writes the ValueStore. After releasing the store lock,
  the store hands the value to every receiver's ValueQueue.
- Each ValueQueue triggers the Events registered with it. Among them is the trigger
  of the component that reads the queue.
- The RemoteService is itself a component, and its thread runs `_handle_triggers`:
  1. observe the link state;
  2. send `request_all` once, the first time the link is up;
  3. send every rule's queued or forced value with one REQ/REP round trip each;
  4. run the status tracker, which sends pings and queued pongs.
- A receive thread answers the peer's REQs on the REP socket:
  - pings and pongs go to the tracker;
  - `sendAll` sets every rule's `forced_send`;
  - values are injected into the local store;
  - `valueInjected`/`valueRejected` are meant to release the backpressure flag.
- A cyclic thread triggers the component every ping interval.

### Hard behaviours

- **Peek, send and pop are three steps.** `_handle_send_single` peeks a rule's
  queue, blocks in a round trip, then pops. Meanwhile the writer thread may append
  to the bounded deque and evict the value being sent.
- **The store update and the queue notify are separate.** `set_value` replaces the
  store entry under the lock, but feeds the queues only after releasing it. A
  forced send reads the store in between.
- **Replies can be lost.** Every round trip can end in TIMEOUT, which demotes the
  link to UNSURE. The value stays queued and is sent again.
- **Backpressure.** A RECEIVED answer blocks the rule (`send_pending`) until the
  peer reports the value injected or rejected, or the link leaves UP.
- **The heartbeat runs on timers.** UNSURE pings with a doubling interval, UP
  pings slowly and watches `pong_timeout`, and only a pong carrying the freshness
  nonce of the latest ping counts.
- **The component thread's shutdown.** `ctrl_stop` sets the request and joins the
  thread, which must leave its loop.

### Correctness properties, per part

- **Bridge send path:**
  - no value is lost except by the queue's documented drop policy;
  - no value is transmitted twice;
  - the peer never receives an older value after a newer one;
  - every `sendAll` is served;
  - the peer's store ends holding the latest value, although the peer rejects
    values before its own `_initialized` latch;
  - queues drain while the link stays up;
  - backpressure is eventually released;
  - shutdown completes.
- **Status tracker:**
  - UP only while pongs keep arriving within `pong_timeout`;
  - a healthy link eventually becomes and stays UP;
  - after a partition heals, the link recovers ("retry via the heartbeat", spec §7).
- **ValueQueue:**
  - it holds the last `maxlen` values in order;
  - expired receivers stop receiving.
- **Component lifecycle:**
  - no trigger is lost;
  - handlers never run after a stop;
  - the manager reaches RUNNING only with every component started.
- **Recorder:** it records each value at most once and in order, and drops only
  over its limit.
- **Framing:** decoding inverts encoding.

## 2. Modules and runs

### RemoteService.tla (bridge send path and the peer's reception), checked through MC_RemoteService.tla

The module models the sending side of one RemoteService together with the threads
it races with, and the receiving side of the peer it sends to.

**State.**
- `store` and `queue` are the ValueStore entry and ValueQueue of each send rule.
- `wpc` and `wval` are the writer component in the middle of `set_value`.
- `trigger`, `shutdown` and `stopRequested` are the component's Event and requests.
- `forced`, `pending` and `initialized` are the SendState flags and `_initialized`.
- `link` and `oldState` are the tracker state and `RemotePair._oldState`.
- `mpc`, `todo`, `more`, `inflight` and `fval` are the component thread's program
  counter inside `_handle_triggers`, `_handle_send` and `_handle_send_single`.
- `rpc` and `peerBuffered` are the receive thread and the peer's buffered value.
- `acked` and `evicted` are history variables: what the peer acknowledged, and what
  the queue dropped.
- `peerInit`, `peerStore` and `sendAllSent` are the peer: its `_initialized` latch,
  its ValueStore entry of each rule's topic, and its `sendAll` command in flight.

**Actions.**
- `SetValueStore` and `NotifyReceivers` are the two halves of `ValueStore.set_value`.
- Each step of the send loop is an action:
  - `Wait` is `wait_and_clear`;
  - `HandleTriggers` is `observe_state_change` plus `request_all`;
  - `SendLoop`, `SendRuleStep`, `ForcedCheck` and `Reply` make up
    `_handle_send`/`_handle_send_single`;
  - `Cycle` is `RemotePair.cycle`;
  - `Exit` is the end of the thread loop.
- The receive thread is `LinkMessage`, `RequestAll` (a `sendAll` command reaching
  `send_all`) and `BlockedValueReported`.
- The peer's `value_received` decides the answer in `Reply` (`PeerAnswers`): REJECTED
  while the peer's `_initialized` is unset, otherwise an answer of `Replies`.
  INJECTED and RECEIVED put the value into `peerStore`. A TIMEOUT leaves open what
  the peer did with the request: it may have handled it late, or never.
- `PeerInitialize` is the peer's `_handle_triggers` setting its latch and calling
  `send_request_all`, once.
- `CyclicTrigger` and `CtrlStop` are the cyclic thread and `ComponentManager.shutdown`.

**Abstractions.**
- The transport is abstracted to the set of answers the peer may give once
  initialized (`Replies`), plus TIMEOUT. REJECTED in `Replies` stands for a peer
  without a receive rule or type for the topic; rs_pass leaves it out, because a
  value rejected for that reason is dropped by design.
- A RECEIVED answer (a C++ peer buffering the value) puts the value into `peerStore`
  at once; the injection it stands for comes later.
- One topic name per rule. `value_received` looks the receive rule up by the remote
  topic and then calls `set_value(topic, ...)` with that remote name, not with the
  rule's local topic (remote_service.py:619). With `add_receive_rule(local, remote)`
  and different names, the value lands under the wrong topic. A plain unit test
  shows this; the model does not.
- The link state is abstracted to the transitions each thread can cause.
  RemoteLink.tla, below, models the tracker in detail.
- A value injected by the peer after the sender's TIMEOUT is applied at the
  step where the TIMEOUT is taken (`Reply`). It is never delayed past a later
  round trip. So an injection that lands after a newer value, following a
  reconnect, is not modelled. `PeerNeverRegresses` does not cover that case.

**Fairness.** The component thread, the writers and the cyclic thread are weakly
fair, because they are threads that are never blocked forever when enabled. The
peer's report of a buffered value is weakly fair too: the C++ peer sends it once
the value is injected. Link changes and the stop request are left to the
environment.

The peer's `PeerInitialize` is weakly fair: its tracker comes UP
(`LinkRecurrentlyUp` in RemoteLink). `RequestAll` is strongly fair. It waits
for `_lock_send`, which the component thread takes for each pass and then leaves
free while it waits for its next trigger. A thread blocked on a lock that is
released and left free acquires it.

| Run | cfg | Expect | What it shows |
|---|---|---|---|
| rs_pass | rs_pass.cfg | pass | One rule, 3 writes, `queue_length` 2, peer answers INJECTED/RECEIVED/TIMEOUT once initialized (the C++ peer may buffer and answer RECEIVED). `TypeOK` (queue within maxlen), `PeerNeverRegresses`, and, while no RECEIVED answer blocks the rule and no shutdown is requested (by `ctrl_stop` or by an abort), `RequestAllServed`, `QueueDrains` and `PeerConverges`. The peer rejects everything before its latch; there is no other REJECTED (see Abstractions). |
| rs_NoSilentLoss | rs_NoSilentLoss.cfg | violation | `queue_length` 1: the peeked value is evicted during the round trip and the pop discards the newer, never-sent value. |
| rs_NoDuplicateTransmission | rs_NoDuplicateTransmission.cfg | violation | A forced send reads the store between `set_value`'s store update and its queue notify; the same value is then sent again from the queue, despite the comment in `_handle_send_single` that the queue check prevents it. |
| rs_ShutdownCompletes | rs_ShutdownCompletes.cfg | violation | With `send_pending` set and values queued, `_handle_send` loops forever without checking the shutdown request, so `ctrl_stop`'s join never returns. |

**Bounds.** One or two rules and two or three writes per rule are enough to reach
the interesting cases:
- a queue that is full while a value is in flight;
- a forced send racing a write;
- a second pass of the send loop.

One TIMEOUT and the peer's one `sendAll` reach the retry path and the forced path.

**What `PeerConverges` shows.** Values written before the peer sets its latch are
popped on REJECTED and never resent from the queue. A timed-out send may have been
injected late. Neither leaves the peer stale: the peer's `sendAll` sets
`forced_send`, and the forced send reads the store's latest value. Both
conditions matter:
- a `send_all` that only wakes the send cycle (the mutant) leaves the peer without
  the last value;
- with REJECTED in `Replies` the property fails.

It also depends on `queue_length` 2. With the default `queue_len` 1, TLC finds
it violated: the eviction that `rs_NoSilentLoss` shows loses the last value.
So the property holds only for queues longer than one.

The property assumes the `sendAll` arrives. `send_request_all` only logs a
TIMEOUT, and the latch is never set again, so a lost `sendAll` leaves the peer
stale until the topic is written again; this is listed as a hazard.

A peer restart (a new process: empty store, latch unset, a new `sendAll`) is not
in the model: with it the liveness check takes about four minutes instead of one.

### RemoteLink.tla and LinkMonitor.tla (link monitoring), checked through MC_RemoteLink.tla

RemoteLink models two connected RemoteServices, `Peers`, as far as their link
state is concerned. Each peer has three threads, and the model keeps their
interleaving:
- the **component thread** (`cpc`): `wait_and_clear`, then `_handle_triggers`;
- the **receive thread** (`rpc`): `RemotePair.receive` on the REP socket;
- the **cyclic thread** (`cyc`): `trigger()`, then `wait_for_event(ping_interval)`.

**State.**
- `st`, `iv`, `sincePing` and `sincePong` are the tracker's `_remote_state`,
  `_ping_interval`, and the times since `_last_ping_time` and `_last_pong_time`.
- `oldSt`, `pongQ` and `initialized` are `RemotePair._oldState`, `_pong_queue`
  and `RemoteService._initialized`.
- `req` and `rep` are the REQ socket: requests the peer has not read yet, and
  whether a reply has arrived since the last send.
- `waited` is how long the current round trip has waited (at most `SendTimeout`).
- `connected` and `partitions` are the network.
- `answered` is a history variable: the peer has read the latest ping.

**Actions.**
- The component thread:
  - `CHandle` is `observe_state_change` (leaving UP reconnects the socket and
    drops its queued requests), then the first `send_request_all` or `_handle_send`;
  - `CReqAllDone` and `CValueDone` end those round trips (a value's TIMEOUT calls
    `sending_timeout`);
  - `CCyclic` and `CPingDone` are `run_cyclic` before and after the ping's round
    trip, which holds `_condition` and `_lock`;
  - `CSendPong` and `CPongDone` are `_send_pongs`.
- The receive thread:
  - `RTake` reads one request and answers it. A ping or pong whose listener needs
    a lock held by the component thread leaves the thread blocked;
  - `RPing` and `RPong` finish those blocked listeners;
  - `RDown` is `message_received_in_down`.
- The cyclic thread: `YWake`.
- The environment:
  - `Tick` advances every timer by one;
  - `Partition` loses everything in flight;
  - `Heal` reconnects.

**Time.** A tick happens only when no thread has an immediate step to take. The
code compares `now > last + interval` strictly. When the counters are equal, the
order of events within the tick decides, so `Exceeds` allows both outcomes. The
timers saturate one tick beyond the largest bound they are compared with. The
cfgs use `PingMin = 1`, `PingMax = 2`, `PongTimeout = 3` and `SendTimeout = 1`:
one tick is half of `ping_interval_max`, so the defaults' ordering holds
(100 ms < 3000 ms < 5000 ms < 2 x 3000 ms).

**Freshness.** Only whether a nonce equals the sender's latest nonce matters. So a
ping or pong carries `cur`, and each new ping makes every older message with the
same nonce stale.

**Abstract specification.** `LinkMonitor` is the state machine of the class
comments of `RemoteState` and `RemoteStatusTracker`:
- UP only from UNSURE;
- UNSURE or UP may give up to DOWN;
- any state may fall back to UNSURE;
- an UNSURE tracker is eventually resolved (weak fairness).

RemoteLink implements it under `link <- st`.

**Fairness.** Every thread of each peer, `Tick` and `Heal` are weakly fair:
- every thread is a thread that the OS schedules;
- time passes;
- a partition eventually heals, because a network failure that never ends leaves
  nothing to check.

**Bounds.** At most one partition, allowed only while both trackers are UP: the
question is whether an established link survives a failure. With more, the state
space grows past 10 million states without adding new cases. `DataTraffic`
switches on one value send per cycle while UP, which brings in send timeouts and
`sending_timeout`. The safety-only partition run uses symmetry over the two
peers.

| Run | cfg | Expect | What it shows |
|---|---|---|---|
| rl_pass | rl_pass.cfg | pass | Peers sending values, network without failures: `PromotionAnswersLatestPing` (UP only on the pong of the latest ping), `LinkRecurrentlyUp` (a peer that gave up comes back), `ImplementsLinkMonitor`. |
| rl_partition | rl_partition.cfg | pass | Idle peers with one partition: promotion and bounds still hold. |
| rl_UpIsStable | rl_UpIsStable.cfg | violation | On an idle link, the cyclic thread's wake finds the UP ping one instant early. The ping comes about 2 x `ping_interval_max` after the last one, past `pong_timeout`, and a link whose peer answered every ping goes DOWN. |
| rl_LinkNeverDead | rl_LinkNeverDead.cfg | violation | After a partition both trackers end DOWN. DOWN sends nothing and leaves only on a message from the peer, so the healed link stays dead (spec section 7: "retry via the heartbeat"). |

### ComponentFramework.tla (component scheduler), checked through MC_ComponentFramework.tla

The module models the ComponentManager's `configure`, `startup` and `shutdown`,
called by the application's main thread, and the thread of each component
(`_thread_main`) with one trigger handler and one value queue with a handler.
Components are numbered in registration order, which is the order the manager's
dict iterates them.

**State.**
- `state` is the manager entry's REGISTERED/CONFIGURED/RUNNING.
- `thread`, `startup_request`, `shutdown_request` and `flag` are `_thread is not
  None`, the two `threading.Event`s and the trigger Event's `_flag`.
- `received` is the ValueHandler's `ValueReceivedEvent._flag`.
- `cpc` is the component thread's place in `_thread_main`: `startup`, `loop`,
  `wait` (blocked in `wait_and_clear`), `woken` (notified, not yet holding the
  condition's lock), `handlers`, `vcheck`, `vhandle`, `finally`, `none` (ended).
- `mpc`, `started` and `stopping` are the main thread inside `startup` and
  `shutdown`.
- `srcpc` is a `ValueQueue.receive` between its two event triggers.
- `owed` and `valueOwed` are history variables for the properties.

**Actions.**
- `Configure` is `configure` with `ctrl_configure`.
- `StartupStart` is `startup`'s first loop and the `is_running` poll, with
  `CtrlStart`. `StartupRun` is one pass of the `ctrl_run` loop: one component, in
  dict order, gets its run request and becomes RUNNING. The components after it
  are not yet requested to run. `StartupDone` is the return.
- `ShutdownBegin`, `StopRequest` (the first half of `ctrl_stop`) and `StopJoin`
  (its join, then CONFIGURED once all are joined) are `shutdown`. Components are
  stopped one at a time, in dict order.
- The thread steps are:
  - `ThreadBegin`: the startup hook and the poll;
  - `ThreadLoop`: the `while` check and `wait_and_clear` when the flag is set or
    the thread blocks;
  - `ThreadWake`: `wait_and_clear` after `notify_all`;
  - `TriggerHandler`;
  - `ValueCheck` (`active`, `clear`) and `ValueHandle`;
  - `HandlerRaises` (the `except` clause and `abort`);
  - `ThreadExit` (`finally`).
- `ExternalTrigger` is `Component.trigger` from another thread.
  `ReceiveValue`/`ReceiveTrigger` are `ValueQueue.receive`: the value, then
  `_notify_events` triggering the ValueReceivedEvent and then the component
  trigger, in the order `ValueHandler.__init__` added them.

**Abstractions.** Handler bodies are not modelled; a handler may raise (bounded
by `MaxFaults`). A value handler is taken to consume what its queue holds when
it is called. Logging, timing and tracing are left out.

**Fairness.** Every component thread step and the second half of a
`ValueQueue.receive` are weakly fair: they are OS threads that are runnable
when enabled. The main thread is weakly fair once inside `startup` or
`shutdown`. When it calls them, and other threads' triggers, values and
faults, are the environment's choice and not fair.

**Bounds.** Two components, so `shutdown` stops one while the other still runs.
Two startups, so a component is restarted with the trigger flag that `ctrl_stop`
left set. One external trigger and one fault. Two values, so the second can arrive while
the value handler of the first runs: the case where clearing the
ValueReceivedEvent after the handler would lose it. The run reaches about
194k states in about 90 s.

| Run | cfg | Expect | What it shows |
|---|---|---|---|
| cf_pass | cf_pass.cfg | pass | `TriggersServed` (no lost wake-up in the single-slot Event), `ValuesServed` (a value that arrives while the value handler runs is handled, because the ValueReceivedEvent is cleared before the handler runs), `ShutdownCompletes` (`ctrl_stop` wakes a blocked, busy or aborted thread). `TypeOK` includes that a live thread is the one `_thread` refers to. This is what breaks when `shutdown` marks a component CONFIGURED before its thread has ended. |

The model also shows a divergence that no run checks, because a
single-threaded test of `startup` shows it directly. `ComponentManager.startup` calls only
`ctrl_run` (`component_framework.py:124`, `:358`), so a component that became
RUNNING, whose trigger nobody else fires and whose queues receive nothing,
never runs its trigger handler. Spec §4.3 says startup fires one initial
trigger per started component.

### ValueStore.tla, ValueRecorder.tla and RecordReader.tla (store, queues, recorder, record files), checked through MC_ValueRecorder.tla

`ValueStore` is `value_store.py`. `ValueRecorder` EXTENDS it and
`RecordReader` and adds `value_recorder.py`. `RecordReader` is
`mcf/record_reader.py`: operators, with no variables, over a file's content.
An application step is a store action with the recorder's variables
unchanged.

**State.**
- `store`, `receivers` and `allTopic` are the `_MapEntry` values, their
  receiver lists and `_all_topic_receivers`.
- `queue` is the deque of each receiver. `MaxLen` 0 is an unbounded queue, the
  recorder's `Queue` among them.
- `wpc`, `wtodo` and `witem` are a writer in the second phase of `set_value`,
  with the receiver copies it still has to notify.
- `file`, `mpc`, `tpc`, `stop_request` and `drop_flag` are the recorder's
  `_file`, the main thread in `stop()`, the write thread (`loop`, `drain`,
  `notify`, `none`), `_stop_request` and the shared status' `drop_flag`.
- `queue_size_limit`, `disabled_topics`, `enabled_ext_mem_topics` and
  `compressed_ext_mem_topics` are the recorder's settings, as `__init__`
  sets them (no limit, empty sets) and the main thread changes them.
- `recordings` is the entries written, one sequence per `start`, each with
  whether its ExtMem was packed, and `files`
  is what `_serialize` wrote for them to that recording's file. `delivered`,
  `valueTopic`, `regAt` (when each receiver first registered for a topic) and
  `dropped` are history variables for the properties. A value is numbered by the order of its
  locked phase.

**Actions.**
- The store actions are:
  - `AddReceiver` and `AddAllTopicReceiver`, both skipping a receiver that is
    already listed;
  - `SetValueLocked`, the locked phase: replace the entry and copy the lists;
  - `NotifyReceiver`, one `receive` of the copied list, all-topic receivers
    first;
  - `Receive`, which evicts the oldest entry when `0 < maxlen <= len`;
  - `Pop`, the consumer's `pop_with_topic`.
- The recorder actions are:
  - `Start`: `start`, with `StatusMonitor.start` resetting the status;
  - `StopBegin`: `expire` and the stop request;
  - `StopJoin`: the join and `close`;
  - `WriteLoop`: the stop check;
  - `WritePop`: one pop of the inner loop, via `PopEntry` and `PopSize`
    (the recorder `Queue.pop`: oldest entry and the size left). It is one of
    `WriteIdle` (the deque is empty: sleep), `WriteEntry`, `WriteSkipDisabled`
    and `WriteDrop`. An entry is `Kept` when the size after the pop is below
    the limit or it is a status value. `WriteEntry` serializes a kept entry;
    then `_output_status` may call `set_value` on the status topic.
    `WriteSkipDisabled` is `_serialize`'s early return for a disabled topic,
    which skips `serialize_end`. `WriteDrop` is `report_dropped`.
  - `WriteNotify`: the notify half of that `set_value`, then `_init_status`.
- The settings actions are `DisableSerialization`, `EnableExtMemSerialization`,
  `EnableExtMemCompression` and `SetWriteQueueSizeLimit`. The main thread
  takes them at any time outside `stop()`, also while the write thread
  serializes. `_serialize` reads the topic's settings once per entry, so one
  file can hold records of a topic with and without ExtMem, compressed or
  not.
- `Frame` is `_serialize`'s four writes for an entry:
  1. the packet header (topic, value id);
  2. the value;
  3. the `ExtMemHeader` (raw size, present, compressed size or 0);
  4. the ExtMem bytes, zlib-compressed on a compressed topic, or raw when
     `zlib.compress` fails.

**The file and the reader.** A file is a sequence of cells. Each cell is one
msgpack object or one raw ExtMem byte. `msgpack.Unpacker` reads an object
whole, or raises `OutOfData` when the file ends inside it. Cutting the file
inside an object is therefore the same as cutting it before the object.

An object remembers the framing field it was written as. An unpack that lands
on a raw byte, or on the wrong field, has lost the record boundaries. The code
then produces garbage or an exception; the model yields `Corrupt`.

- `records_generator` is `GenerateFrom`.
- `index` is `IndexFrom`: the start cell of each record the filter accepts.
- `records` is `RecordsFrom`, with its range checks.
- `get_extmem` reads a short blob at the end of the file and raises
  `zlib.error` on a cut stream.
- A filter is the set of topics it accepts.
- zlib is a header byte, the body and a trailer. It differs in length from the
  raw data and is cut-detectable, which is all the reader relies on.

**Abstractions.**
- `expire` only sets a flag that `receive` ignores, and `set_value` drops the
  pruned list. So expiry changes nothing and is not a variable.
- `ExtMemLen` gives the length of a topic's ExtMem blob. `ExtMemCalls`,
  `CompressionCalls`, `DisableCalls` and `LimitCalls` are the arguments the
  application passes to the settings calls, and `MaxSettingsCalls` bounds how
  many settings change. `ZlibFails` lists the values whose compression
  raises: `zlib.compress` is a function of its input. The timestamp is left
  out. `MAX_QUEUE_SIZE_LIMIT` (2^32) is given a value above every queue
  length the run reaches.
- The one-second status timer is a free choice after each serialize, bounded
  by `MaxStatus`.

**Fairness.** The write thread's steps and the join are weakly fair: the write
thread is an OS thread that polls every 10 ms. The application's writes,
registrations, pops, `start` and `stop` are the environment's choice.

**Bounds.**
- One application writer, one data topic and the status topic.
- One consumer queue with `maxlen` 1, so eviction happens.
- Two settings changes, among: enable ExtMem and compression of the data
  topic, disable the status topic, set the queue size limit to 1. Two calls
  are what a compressed ExtMem needs; a limit of 1 makes a burst of two
  values drop one.
- One recording. A restart of the recorder is out of reach at these bounds
  (see Section 4).
- Four `set_value` calls and one status value.
- Data values carry a 2-byte ExtMem, except value 2, whose compression fails.
  This exercises the compressed, raw and absent ExtMem paths, switched on in
  the middle of a recording; the status topic has no ExtMem.

With these bounds the run reaches 190k states in about 75 s. Both read-back
properties are action properties checked when a file changes. This is
equivalent to an invariant, because only `Start` and `WriteEntry` write files,
and it is much cheaper.

| Run | cfg | Expect | What it shows |
|---|---|---|---|
| vr_pass | vr_pass.cfg | pass | `QueueKeepsLastMaxlen` (spec 8: each queue is an in-order suffix of what it received, at most `maxlen` long, under concurrent notifies and pops), `DeliveredToRegistered` (spec 8: a finished `set_value` reached exactly once every receiver registered before its locked phase, and no receiver registered after it; this is judged from the registration history, not from the copy the model takes. It holds even when a registration comes between the copy and the notify.), `RecorderDrains` (the write thread empties its queue, including its own status values, unless a stop is requested), `RecordingReadsBack` (spec 4.5's framing round trip, while the main thread switches ExtMem, compression, a disabled topic and the queue limit mid-recording: every file reads back through `records_generator` as exactly the entries written, with their ExtMem, and a file cut anywhere, as a killed recorder leaves it, reads back as a prefix in which only the last record's ExtMem may be cut), `IndexedReadAgrees` (`records(start, end)` over `index(filter)` is the generator's slice for every filter and every range, including negative, empty and past-the-end ones). `TypeOK` includes that the write thread runs only while the file is open, i.e. `stop()` joins before it closes. |

A cut inside the ExtMem bytes still yields the last record. Its `get_extmem`
then returns short data, or raises `zlib.error`. `RecordingReadsBack` states
this behaviour rather than hiding it: the stricter form fails on such a cut.
The spec says nothing about cut files.

The model also reaches a code bug that no run checks, because a unit test of
`stop` and `start` shows it directly. `Queue.expire` only sets a flag: `receive`
ignores it, and `set_value` never prunes the receiver. `stop()` neither drains
nor clears the queue, and `start()` reuses it. So a value queued before `stop()`,
or set while the recorder was stopped, is written into the next recording.
`Queue.expire`'s docstring says it removes the queue from the value store.

### RemoteControlClient.tla (remote control over its own thread), checked through MC_RemoteControlClient.tla

`RemoteControlClient` models `RemoteControl` built with `own_thread=True`.
Every socket operation is handed to one `ReusableThread` through
`OwnThreadWorker.submit` (`mcf/worker.py`), over `ZmqCommunicator`'s connected
REQ socket (`mcf/zmq_communicator.py`).

**State.**
- `tpc`, `start_signal`, `finished`, `finish_ind` and `timed_out` are the
  thread and its `_start_signal`, `_one_run_finished`, `_finish_indicator` and
  `_connection_timed_out`.
- `lock`, `args` and `result` are `OwnThreadWorker`'s lock holder, `self.args`
  and `self.result`.
- `worker` and `socket` are whether `ZmqCommunicator.worker` and `.socket` are
  set.
- `pc` and `op` are each calling thread's place in `submit`, `join`,
  `disconnect` and `finish`.
- `myId` and `ret` are history variables: the job each caller submitted and
  what its call returned.

**Actions.**
- The caller's side:
  - `CallSend` is `RemoteControl._send`, which fails with AttributeError once
    `worker` is None.
  - `Acquire` takes the lock, stores the args and restarts the thread.
  - `JoinCheck` reads `_connection_timed_out`. `JoinWait` waits on the event
    and `JoinClear` clears it and raises on a timeout.
  - `SubmitEnd` and `SubmitRaise` are the end of `submit`.
  - `Disconnect`, `Shutdown`, `FinishSet` and `WorkerNone` are
    `ZmqCommunicator.disconnect` with `finish()`.
- The thread's side:
  - `TWait` and `TCheck` are the top of `run()`.
  - `TCall` is `_run`, with `RunSend` and `RunDisconnect`. A send on a closed
    socket ends the thread without setting the event.
  - `TRecv` is `_receive`: the reply in time, or `TimedOut`, `run()`'s except
    clause.

**Abstractions.** A reply is the number of the job it answers. `_receive`'s
polling loop is one step that either gets the reply or times out. `connect`,
which makes a new worker, is not modelled: the model starts connected.

**Fairness.** The thread and every caller inside a call are weakly fair. The
polling loop always ends, so `TRecv` needs no fair server. When callers call is
their own choice.

**Bounds.** Two callers with three calls each, so calls contend for the lock,
and a call follows a timeout. `Fin` (`__del__`) disconnects once no call is in
progress. `ExplicitDisconnect` lets callers call `disconnect` themselves.

| Run | cfg | Expect | What it shows |
|---|---|---|---|
| wk_pass | wk_pass.cfg | pass | `SubmitReturnsOwnResult` (a send returns the reply to its own request: the hand-off through the shared `args`/`result` and the two events is correct under the lock, including after a timeout kills the thread), `CallsComplete` (every call returns or raises). `TypeOK` includes that only the lock holder is inside `submit`. |
| wk_SubmitReturnsOwnResult | wk_SubmitReturnsOwnResult.cfg | violation | A caller's `disconnect` ends the thread through `finish()`. Another caller's send then consumes the thread's last finished event and returns `_disconnect`'s `None` as its reply, without its request being sent. The `finish().join()` then waits for good. With the same setting `CallsComplete` fails too. |

## 3. Plan

Modules are listed with the most important behaviour first.

1. **RemoteService** (done): the bridge send path, above.
2. **RemoteLink** and **LinkMonitor** (done), above. Left for later: a
   reduced-width freshness counter, and more than one partition with
   symmetry.
3. **The receiving side** (done in RemoteService): the peer's `value_received`
   and its `_initialized` latch with its one `sendAll`. Left for later:
   - a peer restart and a lost `sendAll`;
   - two complete RemoteServices on RemoteLink;
   - the receive rule's topic mapping (see Abstractions above).
4. **ValueStore** (done), above. Expiry has no effect in the code, so it is not
   a variable.
5. **ComponentFramework** (done), above. `register_component` is not modelled.
   Its duplicate check runs outside the lock and its id counter is unlocked,
   but every caller in the repository registers from the main thread, one
   component after another (see section 4).
6. **ValueRecorder** (done), above, with its settings calls. Left for later:
   two recorders sharing the `ValueRecorderStatus` and `ExtMemHeader`
   classes, and a restart together with the settings calls.
7. **RecordReader** (done), above.
8. **Worker** (done) as RemoteControlClient, above. Left for later: `connect`
   with a new worker per connection.

## 4. Not modelled

- **Encoding.** The msgpack byte encoding and deflate are left out, because
  no property depends on bytes. The record framing is modelled (item 7): a
  msgpack object is one cell.
- **Registration.** `register_component` does its duplicate checks and
  `_get_next_comp_id` outside the manager's lock. Two threads registering at
  once could both pass the checks or get the same id; a second entry under
  one id would replace the first. Every caller in the repository (tests,
  bridge runner, demos) registers sequentially before `configure`, so the
  model starts with all components REGISTERED.
- **Recorder restart.** With the settings calls interleaved anywhere, a
  second recording takes the run from 190k to about 700k states, beyond
  what a passing run can explore in time. `vr_pass` therefore has one
  recording. A restart matters for one hazard: the recorder's queue stays
  registered after `stop()`. What it receives while stopped, and what the
  write thread left in it when the stop came during its sleep, is written at
  the start of the next recording.
- **Tracing.** `mcf_core/component_tracing.py` and `component_trace_messages.py`
  only produce diagnostic events.
- **Tools, demos and tests.** `mcf_tools` (type generator, viewers,
  trace-to-CTF converter, playback GUI), the demos and the tests are offline
  tools, code generators and I/O.
- **Small helpers.** The logger, helpers, `value.py`, `exception.py` and
  `connection.py` keep no state that matters.
