--------------------------- MODULE RemoteService ---------------------------
(***************************************************************************)
(* The sending side of the MCF remote bridge (mcf_remote/remote_service.py)*)
(* together with the parts of the local process it races with:            *)
(*                                                                         *)
(*  - one writer component per send rule, calling ValueStore.set_value on  *)
(*    the rule's local topic: the store entry is replaced under the store  *)
(*    lock, and only afterwards, without any lock, the rule's ValueQueue   *)
(*    receives the value (value_store.py set_value / ValueQueue.receive);  *)
(*  - the RemoteService component thread running _handle_triggers:         *)
(*    observe_state_change, the one-time request_all, the _handle_send     *)
(*    loop over all send rules (one REQ/REP round trip per send), and      *)
(*    cycle() of the status tracker;                                       *)
(*  - the receive thread, which turns peer messages into pong / state      *)
(*    changes, sendAll requests and valueInjected commands;                *)
(*  - the cyclic trigger thread and the ComponentManager's shutdown;     *)
(*  - the peer's receiving side: its RemoteService.value_received, which   *)
(*    rejects every value until the peer's own _initialized latch is set,  *)
(*    and its _handle_triggers, which sets the latch and sends the one     *)
(*    sendAll command.                                                    *)
(*                                                                         *)
(* The link state (RemoteStatusTracker.remote_state) is abstracted here to *)
(* the transitions each thread may make; RemoteLink.tla models the         *)
(* tracker itself.  Values of a rule are numbered 1..MaxWrites in the      *)
(* order the writer sets them; 0 stands for None.                          *)
(***************************************************************************)
EXTENDS Naturals, Sequences, SequencesExt

CONSTANTS
    NumRules,      \* number of send rules (iterated in insertion order)
    MaxWrites,     \* values the writer sets on each rule's local topic
    QueueLen,      \* queue_length of every send rule (maxlen of its ValueQueue)
    Replies,       \* replies the peer's REQ/REP answer to a value may carry
    MaxTimeouts    \* bound on send round trips that end in TIMEOUT

ASSUME /\ NumRules \in Nat \ {0}
       /\ MaxWrites \in Nat \ {0}
       /\ QueueLen \in Nat
       /\ Replies \subseteq {"INJECTED", "RECEIVED", "REJECTED", "TIMEOUT"}
       /\ MaxTimeouts \in Nat

Rules == 1..NumRules
None == 0
Value == 1..MaxWrites
RuleOrder == [i \in 1..NumRules |-> i]      \* dict order of _send_rules
States == {"DOWN", "UNSURE", "UP"}
Acked == {"INJECTED", "RECEIVED", "REJECTED"}
NoSend == [rule |-> 0, val |-> None, path |-> "none"]

VARIABLES
    store,        \* ValueStore entry of each rule's local topic
    queue,        \* the rule's ValueQueue (oldest first)
    wpc, wval,    \* writer thread of each rule: step of set_value and the value it sets
    trigger,      \* the component's trigger Event flag
    shutdown,     \* Component._shutdown_request
    stopRequested,\* ComponentManager.shutdown() has called ctrl_stop
    forced,       \* SendState.forced_send per rule
    pending,      \* SendState.send_pending per rule
    initialized,  \* RemoteService._initialized
    link,         \* RemoteStatusTracker._remote_state
    oldState,     \* RemotePair._oldState
    mpc,          \* component thread: wait | handle | send | fcheck | reply | cycle | stopped
    todo,         \* send rules left in the current pass of the _handle_send loop
    more,         \* more_values_to_send
    inflight,     \* the value sent and waiting for its reply
    fval,         \* value read from the store by a forced send
    rpc,          \* receive thread: run | dead
    peerBuffered, \* the peer answered RECEIVED and still owes valueInjected
    timeouts,
    acked,        \* history: values the peer answered INJECTED/RECEIVED/REJECTED, per rule
    evicted,      \* history: values dropped by the queue's maxlen policy, per rule
    peerInit,     \* the peer's RemoteService._initialized
    peerStore,    \* the peer's ValueStore entry of each rule's topic
    sendAllSent   \* the peer's sendAll command is on its way to the receive thread

vars == <<store, queue, wpc, wval, trigger, shutdown, stopRequested, forced,
          pending, initialized, link, oldState, mpc, todo, more, inflight, fval,
          rpc, peerBuffered, timeouts, acked, evicted, peerInit, peerStore,
          sendAllSent>>

peerVars == <<peerInit, peerStore, sendAllSent>>

TypeOK ==
    /\ store \in [Rules -> {None} \cup Value]
    /\ queue \in [Rules -> Seq(Value)]
    /\ \A r \in Rules : QueueLen > 0 => Len(queue[r]) <= QueueLen
    /\ wpc \in [Rules -> {"set", "notify"}]
    /\ wval \in [Rules -> 1..MaxWrites + 1]
    /\ {trigger, shutdown, stopRequested, initialized, more} \subseteq BOOLEAN
    /\ forced \in [Rules -> BOOLEAN] /\ pending \in [Rules -> BOOLEAN]
    /\ link \in States /\ oldState \in States
    /\ mpc \in {"wait", "handle", "send", "fcheck", "reply", "cycle", "stopped"}
    /\ todo \in Seq(Rules)
    /\ inflight \in [rule: Rules, val: Value, path: {"queue", "forced"}] \cup {NoSend}
    /\ fval \in {None} \cup Value
    /\ rpc \in {"run", "dead"}
    /\ peerBuffered \in [Rules -> BOOLEAN]
    /\ timeouts \in 0..MaxTimeouts
    /\ acked \in [Rules -> Seq(Value)]
    /\ evicted \in [Rules -> SUBSET Value]
    /\ peerInit \in BOOLEAN /\ sendAllSent \in BOOLEAN
    /\ peerStore \in [Rules -> {None} \cup Value]

Init ==
    /\ store = [r \in Rules |-> None]
    /\ queue = [r \in Rules |-> <<>>]
    /\ wpc = [r \in Rules |-> "set"]
    /\ wval = [r \in Rules |-> 1]
    /\ trigger = FALSE /\ shutdown = FALSE /\ stopRequested = FALSE
    /\ forced = [r \in Rules |-> FALSE] /\ pending = [r \in Rules |-> FALSE]
    /\ initialized = FALSE
    /\ link = "UNSURE" /\ oldState = "UNSURE"
    /\ mpc = "wait" /\ todo = <<>> /\ more = FALSE
    /\ inflight = NoSend /\ fval = None
    /\ rpc = "run" /\ peerBuffered = [r \in Rules |-> FALSE]
    /\ timeouts = 0
    /\ acked = [r \in Rules |-> <<>>]
    /\ evicted = [r \in Rules |-> {}]
    /\ peerInit = FALSE /\ sendAllSent = FALSE
    /\ peerStore = [r \in Rules |-> None]

-----------------------------------------------------------------------------
(* The writer: Component.set_value -> ValueStore.set_value.                *)

\* Under the store and entry locks: replace the entry's value, snapshot the
\* receivers (the rule's queue, registered at configure time).
SetValueStore(r) ==
    /\ wpc[r] = "set" /\ wval[r] <= MaxWrites
    /\ store' = [store EXCEPT ![r] = wval[r]]
    /\ wpc' = [wpc EXCEPT ![r] = "notify"]
    /\ UNCHANGED <<queue, wval, trigger, evicted>>

QueueFullOffByOne(q) == 0 < QueueLen /\ QueueLen < Len(q)

\* ValueQueue.receive: drop the oldest entry when 0 < maxlen <= len.
QueueFull(q) == 0 < QueueLen /\ QueueLen <= Len(q)

ReceivedAtFront(q, v) == <<v>> \o (IF QueueFull(q) THEN Tail(q) ELSE q)

\* ValueQueue.receive: the deque after the new value is appended.
Received(q, v) == Append(IF QueueFull(q) THEN Tail(q) ELSE q, v)

\* After releasing the locks: the queue receives the value and fires its
\* events, among them the component trigger.
NotifyReceivers(r) ==
    /\ wpc[r] = "notify"
    /\ queue' = [queue EXCEPT ![r] = Received(@, wval[r])]
    /\ evicted' = [evicted EXCEPT ![r] =
                    IF QueueFull(queue[r]) THEN @ \cup {Head(queue[r])} ELSE @]
    /\ trigger' = TRUE
    /\ wval' = [wval EXCEPT ![r] = @ + 1]
    /\ wpc' = [wpc EXCEPT ![r] = "set"]
    /\ UNCHANGED store

Writer(r) ==
    /\ SetValueStore(r) \/ NotifyReceivers(r)
    /\ UNCHANGED <<shutdown, stopRequested, forced, pending, initialized, link,
                   oldState, mpc, todo, more, inflight, fval, rpc, peerBuffered,
                   timeouts, acked>>
    /\ UNCHANGED peerVars

-----------------------------------------------------------------------------
(* The component thread (Component._thread_main) running the trigger       *)
(* handler _handle_triggers.                                               *)

\* Event.wait_and_clear on the component trigger, loop condition checked.
Wait ==
    /\ mpc = "wait" /\ ~shutdown /\ trigger
    /\ trigger' = FALSE
    /\ mpc' = "handle"
    /\ UNCHANGED <<store, queue, wpc, wval, shutdown, stopRequested, forced, pending,
                   initialized, link, oldState, todo, more, inflight, fval, rpc,
                   peerBuffered, timeouts, acked, evicted>>
    /\ UNCHANGED peerVars

\* The loop ends on a shutdown request; Component.shutdown() joins the threads.
Exit ==
    /\ mpc = "wait" /\ shutdown
    /\ mpc' = "stopped"
    /\ UNCHANGED <<store, queue, wpc, wval, trigger, shutdown, stopRequested, forced,
                   pending, initialized, link, oldState, todo, more, inflight, fval,
                   rpc, peerBuffered, timeouts, acked, evicted>>
    /\ UNCHANGED peerVars

\* RemotePair.observe_state_change: leaving UP resets the sender socket and
\* calls reset_pending_values.
LeftUp == oldState # link /\ oldState = "UP"

\* Mutant: more_values_to_send not set before the _handle_send loop.
HandleTriggersNoMore ==
    /\ mpc = "handle"
    /\ IF shutdown
         THEN /\ mpc' = "wait"
              /\ UNCHANGED <<pending, oldState, initialized, more>>
         ELSE /\ pending' = IF LeftUp THEN [r \in Rules |-> FALSE] ELSE pending
              /\ oldState' = link
              /\ initialized' = (initialized \/ link = "UP")
              /\ mpc' = IF initialized' THEN "send" ELSE "cycle"
              /\ UNCHANGED more
    /\ UNCHANGED <<store, queue, wpc, wval, trigger, shutdown, stopRequested, forced,
                   link, todo, inflight, fval, rpc, peerBuffered, timeouts,
                   acked, evicted>>
    /\ UNCHANGED peerVars

\* _handle_triggers up to the _handle_send loop: observe_state_change, then
\* the one request_all on first becoming connected.  The handler is skipped
\* when a shutdown was requested.
HandleTriggers ==
    /\ mpc = "handle"
    /\ IF shutdown
         THEN /\ mpc' = "wait"
              /\ UNCHANGED <<pending, oldState, initialized, more>>
         ELSE /\ pending' = IF LeftUp THEN [r \in Rules |-> FALSE] ELSE pending
              /\ oldState' = link
              /\ initialized' = (initialized \/ link = "UP")
              /\ mpc' = IF initialized' THEN "send" ELSE "cycle"
              /\ more' = TRUE
    /\ UNCHANGED <<store, queue, wpc, wval, trigger, shutdown, stopRequested, forced,
                   link, todo, inflight, fval, rpc, peerBuffered, timeouts,
                   acked, evicted>>
    /\ UNCHANGED peerVars

\* Head of "while more_values_to_send": start a pass over all rules under
\* _lock_send, or leave the loop.
SendLoop ==
    /\ mpc = "send" /\ todo = <<>>
    /\ IF more
         THEN /\ more' = FALSE
              /\ todo' = RuleOrder
              /\ mpc' = "send"
         ELSE /\ mpc' = "cycle"
              /\ UNCHANGED <<more, todo>>
    /\ UNCHANGED <<store, queue, wpc, wval, trigger, shutdown, stopRequested, forced,
                   pending, initialized, link, oldState, inflight, fval, rpc,
                   peerBuffered, timeouts, acked, evicted>>
    /\ UNCHANGED peerVars

\* End of one rule's turn in the pass: "if forced_send or not queue.empty".
NextRule(r, forcedNow, queueNow) ==
    /\ more' = (more \/ forcedNow \/ queueNow # <<>>)
    /\ todo' = Tail(todo)
    /\ mpc' = "send"

\* _handle_send_single sends from the queue: no send pending, queue not empty.
QueuedSend(r) == ~pending[r] /\ queue[r] # <<>>

\* Mutant: the "elif state.forced_send" branch missing.
ForcedReadNever(r) == FALSE

\* ... or, on an empty queue, reads the store for a forced send.
ForcedRead(r) == ~pending[r] /\ queue[r] = <<>> /\ forced[r]

\* One rule of the pass: the connected check and _handle_send_single up to
\* the send (queue path) or up to get_value (forced path).
SendRuleStep ==
    /\ mpc = "send" /\ todo # <<>>
    /\ LET r == Head(todo) IN
       \/ /\ link # "UP"                               \* break
          /\ todo' = <<>> /\ mpc' = "send"
          /\ UNCHANGED <<more, inflight, fval>>
       \/ /\ link = "UP" /\ ~QueuedSend(r) /\ ~ForcedRead(r)
          /\ NextRule(r, forced[r], queue[r])
          /\ UNCHANGED <<inflight, fval>>
       \/ /\ link = "UP" /\ QueuedSend(r)             \* peek and send
          /\ inflight' = [rule |-> r, val |-> Head(queue[r]), path |-> "queue"]
          /\ mpc' = "reply"
          /\ UNCHANGED <<todo, more, fval>>
       \/ /\ link = "UP" /\ ForcedRead(r)
          /\ fval' = store[r]                          \* get_value(topic)
          /\ mpc' = "fcheck"
          /\ UNCHANGED <<todo, more, inflight>>
    /\ UNCHANGED <<store, queue, wpc, wval, trigger, shutdown, stopRequested, forced,
                   pending, initialized, link, oldState, rpc, peerBuffered,
                   timeouts, acked, evicted>>
    /\ UNCHANGED peerVars

\* Forced send after get_value: abandon it when the queue meanwhile holds a
\* value or the store held None, otherwise send the value read.
ForcedCheck ==
    /\ mpc = "fcheck"
    /\ LET r == Head(todo) IN
       \/ /\ queue[r] # <<>> \/ fval = None
          /\ forced' = [forced EXCEPT ![r] = FALSE]
          /\ NextRule(r, FALSE, queue[r])
          /\ UNCHANGED inflight
       \/ /\ queue[r] = <<>> /\ fval # None
          /\ inflight' = [rule |-> r, val |-> fval, path |-> "forced"]
          /\ mpc' = "reply"
          /\ UNCHANGED <<forced, todo, more>>
    /\ UNCHANGED <<store, queue, wpc, wval, trigger, shutdown, stopRequested, pending,
                   initialized, link, oldState, fval, rpc, peerBuffered,
                   timeouts, acked, evicted>>
    /\ UNCHANGED peerVars

\* The answers on which _handle_send_single pops the queue and clears
\* forced_send; anything else (TIMEOUT) leaves both for the next pass.
Answered(res) == res \in Acked

\* The peer's RemoteService.value_received on a value it has a receive
\* rule for: REJECTED while its _initialized is unset, otherwise one of
\* the answers Replies allows (INJECTED after set_value; RECEIVED from a
\* buffering C++ peer; REJECTED for an unknown type).
PeerAnswers == IF peerInit THEN Replies \ {"TIMEOUT"} ELSE {"REJECTED"}

\* The answers on which the value enters the peer's store.
Injects(res) == res \in {"INJECTED", "RECEIVED"}

\* The queue after the answer res to a send on the given path: popped when
\* the value was peeked from it and answered.
AfterReply(q, path, res) == IF Answered(res) /\ path = "queue" THEN Tail(q) ELSE q

\* The reply to a value send (RemotePair.send_value): TIMEOUT calls
\* sending_timeout, which puts the tracker into UNSURE; the three answers
\* pop the queue (queue path) and clear forced_send; RECEIVED sets send_pending.
\* The peer handled the value as "seen" says: the answer itself, or, when
\* the round trip timed out, whatever it did with a request that arrived
\* late ("lost": never).
Reply ==
    /\ mpc = "reply"
    /\ \E res \in PeerAnswers \cup (Replies \cap {"TIMEOUT"}),
         seen \in PeerAnswers \cup {"lost"} :
         LET r == inflight.rule
             ok == Answered(res)
             popped == AfterReply(queue[r], inflight.path, res)
             forcedNow == IF ok THEN FALSE ELSE forced[r]
         IN /\ res = "TIMEOUT" => timeouts < MaxTimeouts
            /\ queue' = [queue EXCEPT ![r] = popped]
            /\ forced' = [forced EXCEPT ![r] = forcedNow]
            /\ pending' = [pending EXCEPT ![r] = @ \/ res = "RECEIVED"]
            /\ res # "TIMEOUT" => seen = res
            /\ peerStore' = [peerStore EXCEPT ![r] = IF Injects(seen) THEN inflight.val ELSE @]
            /\ peerBuffered' = [peerBuffered EXCEPT ![r] = @ \/ seen = "RECEIVED"]
            /\ acked' = [acked EXCEPT ![r] = IF ok THEN Append(@, inflight.val) ELSE @]
            /\ link' = IF res = "TIMEOUT" THEN "UNSURE" ELSE link
            /\ timeouts' = timeouts + (IF res = "TIMEOUT" THEN 1 ELSE 0)
            /\ NextRule(r, forcedNow, popped)
    /\ inflight' = NoSend
    /\ UNCHANGED <<store, wpc, wval, trigger, shutdown, stopRequested, initialized,
                   oldState, fval, rpc, evicted, peerInit, sendAllSent>>

\* RemotePair.cycle: run_cyclic may demote UNSURE (ping interval exhausted)
\* or UP (pong timeout) to DOWN, and never leaves DOWN; queued pongs are
\* sent.  Then the (empty) value-queue handler runs and the loop repeats.
CyclicNext(s) == CASE s = "UNSURE" -> {"UNSURE", "DOWN"}
                   [] s = "UP"     -> {"UP", "DOWN"}
                   [] s = "DOWN"   -> {"DOWN"}

Cycle ==
    /\ mpc = "cycle"
    /\ link' \in CyclicNext(link)
    /\ mpc' = "wait"
    /\ UNCHANGED <<store, queue, wpc, wval, trigger, shutdown, stopRequested, forced,
                   pending, initialized, oldState, todo, more, inflight, fval, rpc,
                   peerBuffered, timeouts, acked, evicted>>
    /\ UNCHANGED peerVars

Terminated ==
    /\ mpc = "stopped"
    /\ UNCHANGED vars

-----------------------------------------------------------------------------
(* The receive thread (_receive_thread_main -> RemotePair.receive).        *)

\* _lock_send is held by the component thread for a whole pass.
SendLockHeld == mpc \in {"fcheck", "reply"} \/ (mpc = "send" /\ todo # <<>>)

\* A pong carrying the latest freshness (UNSURE -> UP), or any message while
\* DOWN (message_received_in_down).
LinkMessage ==
    /\ rpc = "run" /\ ~shutdown
    /\ \/ link = "UNSURE" /\ link' = "UP"
       \/ link = "DOWN" /\ link' = "UNSURE"
    /\ UNCHANGED <<store, queue, wpc, wval, trigger, shutdown, stopRequested, forced,
                   pending, initialized, oldState, mpc, todo, more, inflight, fval,
                   rpc, peerBuffered, timeouts, acked, evicted>>
    /\ UNCHANGED peerVars

\* command sendAll -> request_all_received -> RemoteService.send_all.
\* Mutant: send_all only wakes the send cycle, like trigger_send_cycle.
RequestAllTriggerOnly ==
    /\ rpc = "run" /\ ~shutdown /\ ~SendLockHeld /\ sendAllSent
    /\ sendAllSent' = FALSE
    /\ trigger' = TRUE
    /\ UNCHANGED forced

RequestAllReceived ==
    /\ rpc = "run" /\ ~shutdown /\ ~SendLockHeld /\ sendAllSent
    /\ sendAllSent' = FALSE
    /\ forced' = [r \in Rules |-> TRUE]
    /\ trigger' = TRUE

RequestAll ==
    /\ RequestAllReceived
    /\ UNCHANGED <<store, queue, wpc, wval, shutdown, stopRequested, pending,
                   initialized, link, oldState, mpc, todo, more, inflight, fval, rpc,
                   peerBuffered, timeouts, acked, evicted, peerInit, peerStore>>

\* command valueInjected(topic) / valueRejected(topic): the receiver calls
\* RemotePair.blocked_value_injected_received(topic), which takes no topic
\* argument; the TypeError ends the receive thread in abort().
BlockedValueReported(r) ==
    /\ rpc = "run" /\ ~shutdown /\ peerBuffered[r]
    /\ peerBuffered' = [peerBuffered EXCEPT ![r] = FALSE]
    /\ rpc' = "dead"
    /\ shutdown' = TRUE
    /\ trigger' = TRUE
    /\ UNCHANGED <<store, queue, wpc, wval, stopRequested, forced, pending,
                   initialized, link, oldState, mpc, todo, more, inflight, fval,
                   timeouts, acked, evicted>>
    /\ UNCHANGED peerVars

\* The peer's _handle_triggers once its tracker sees this side UP (its
\* pings are answered by this side's receive thread): set _initialized and
\* send_request_all.
PeerInitialize ==
    /\ ~peerInit /\ rpc = "run" /\ ~shutdown
    /\ peerInit' = TRUE /\ sendAllSent' = TRUE
    /\ UNCHANGED <<store, queue, wpc, wval, trigger, shutdown, stopRequested, forced,
                   pending, initialized, link, oldState, mpc, todo, more, inflight,
                   fval, rpc, peerBuffered, timeouts, acked, evicted, peerStore>>

\* The cyclic thread triggers the component every ping interval.
CyclicTrigger ==
    /\ ~shutdown /\ ~trigger
    /\ trigger' = TRUE
    /\ UNCHANGED <<store, queue, wpc, wval, shutdown, stopRequested, forced, pending,
                   initialized, link, oldState, mpc, todo, more, inflight, fval, rpc,
                   peerBuffered, timeouts, acked, evicted>>
    /\ UNCHANGED peerVars

\* ComponentManager.shutdown -> Component.ctrl_stop.
CtrlStop ==
    /\ ~stopRequested
    /\ stopRequested' = TRUE /\ shutdown' = TRUE /\ trigger' = TRUE
    /\ UNCHANGED <<store, queue, wpc, wval, forced, pending, initialized, link,
                   oldState, mpc, todo, more, inflight, fval, rpc, peerBuffered,
                   timeouts, acked, evicted>>
    /\ UNCHANGED peerVars

-----------------------------------------------------------------------------
MainStep == Wait \/ Exit \/ HandleTriggers \/ SendLoop \/ SendRuleStep
            \/ ForcedCheck \/ Reply \/ Cycle

Next ==
    \/ \E r \in Rules : Writer(r)
    \/ MainStep
    \/ LinkMessage \/ RequestAll \/ \E r \in Rules : BlockedValueReported(r)
    \/ PeerInitialize
    \/ CyclicTrigger \/ CtrlStop
    \/ Terminated

\* Threads are scheduled fairly; the peer eventually reports a value it
\* buffered, eventually sets its _initialized latch (its tracker comes UP:
\* LinkRecurrentlyUp, RemoteLink.tla) and its sendAll is received.  Link
\* changes, peer crashes and the shutdown are the environment's choice.
\* send_all waits for _lock_send, which the component thread takes for
\* each pass and leaves free while it waits for its next trigger; a thread
\* blocked on a lock that is released and left free acquires it, hence
\* strong fairness for RequestAll.
Fairness ==
    /\ WF_vars(MainStep)
    /\ WF_vars(PeerInitialize) /\ SF_vars(RequestAll)
    /\ \A r \in Rules : WF_vars(Writer(r)) /\ WF_vars(BlockedValueReported(r))
    /\ WF_vars(CyclicTrigger)

Spec == Init /\ [][Next]_vars /\ Fairness

-----------------------------------------------------------------------------
(* Properties.                                                             *)

\* Values the writer has completely set (store written and queue notified).
Written(r) == 1..(wval[r] - 1)

\* No silent loss (spec 7): every value set on a rule's topic is answered by
\* the peer, dropped by the queue's documented maxlen policy, or still
\* queued.  _handle_send_single peeks, sends, and pops after the reply; the
\* writer's ValueQueue.receive may evict the peeked value meanwhile.
NoSilentLoss ==
    \A r \in Rules : \A v \in Written(r) :
        \/ v \in Range(acked[r])
        \/ v \in evicted[r]
        \/ v \in Range(queue[r])

\* The comment in _handle_send_single: the queue check after get_value
\* keeps a forced send from transmitting a value that will be sent again
\* from the queue.  No value reaches the peer twice for the same rule.
NoDuplicateTransmission ==
    \A r \in Rules : IsInjective(acked[r])

\* With one writer per topic the peer never receives an older value of a
\* rule after a newer one, whether it came from the queue or a forced send.
PeerNeverRegresses ==
    \A r \in Rules : \A i, j \in DOMAIN acked[r] :
        i < j => acked[r][i] <= acked[r][j]

\* The bridge is eventually consistent: unless the link keeps leaving UP, a
\* shutdown is requested or a RECEIVED answer blocks the rule, the peer's
\* store keeps coming back to the local store's value of each rule's topic
\* (the writer stops, so it ends holding the last value written).
\* The peer's value_received rejects everything before its _initialized
\* latch while this side already sends and pops on REJECTED; a timed-out
\* send may have been injected late; a restarted peer has lost its store.
\* Only the sendAll the peer sends when it sets the latch makes send_all
\* resend the latest value.
PeerConverges ==
    \A r \in Rules :
        []<>(link # "UP" \/ shutdown \/ pending[r] \/ peerStore[r] = store[r])

\* Every sendAll request is served: once the link stays up, each rule's
\* forced_send flag is eventually cleared, unless the component's shutdown
\* is requested (by ctrl_stop or abort) or a RECEIVED answer blocks the
\* rule.
RequestAllServed ==
    <>[](link = "UP") =>
        \A r \in Rules : forced[r] ~> (~forced[r] \/ shutdown \/ pending[r])

\* While the link stays up, no RECEIVED answer blocks the rule and no shutdown
\* is requested (by ctrl_stop or abort), every
\* value in a rule's queue is eventually sent: _handle_send repeats its
\* pass while a queue is non-empty and pops on each answer.
QueueDrains ==
    <>[](link = "UP") =>
        \A r \in Rules : (queue[r] # <<>>) ~> (queue[r] = <<>> \/ shutdown \/ pending[r])

\* ComponentManager.shutdown joins the component thread: after ctrl_stop the
\* thread eventually leaves its loop.
ShutdownCompletes ==
    stopRequested ~> (mpc = "stopped")
=============================================================================
