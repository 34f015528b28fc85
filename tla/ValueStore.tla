----------------------------- MODULE ValueStore -----------------------------
(***************************************************************************)
(* The ValueStore and its receivers (mcf_core/value_store.py).            *)
(*                                                                         *)
(* set_value runs in two phases: under the store's lock it replaces the   *)
(* entry's value and copies the all-topic and the topic's receiver lists; *)
(* after the lock it calls receive on each copied receiver in turn, the   *)
(* all-topic receivers first.  Each receive is one step, so other         *)
(* writers, registrations and consumers interleave between them.          *)
(*                                                                         *)
(* A receiver is a queue with a maxlen (0 = unbounded): ValueQueue, or    *)
(* the ValueRecorder's Queue, whose receive is the same append without    *)
(* eviction.  expire() sets a flag that neither receive nor set_value     *)
(* acts on (set_value discards the pruned list that                       *)
(* _notify_receivers_and_cleanup returns), so expiry changes nothing here.*)
(*                                                                         *)
(* Every set_value writes a new value, numbered in the order of its first *)
(* phase.                                                                  *)
(***************************************************************************)
EXTENDS Naturals, Sequences, SequencesExt

CONSTANTS
    Writers,    \* threads that call set_value
    Topics,     \* topics (keys)
    Receivers,  \* receiver queues
    MaxLen,     \* [Receivers -> Nat]: the queue's maxlen, 0 = unbounded
    MaxSets     \* bound on set_value calls

ASSUME MaxLen \in [Receivers -> Nat] /\ MaxSets \in Nat

ValueIds == 1..MaxSets
\* A queue entry: the value and the topic it came from.
Items == [id : ValueIds, topic : Topics]
NoItem == [id |-> 0, topic |-> CHOOSE t \in Topics : TRUE]

VARIABLES
    store,      \* _MapEntry.value per topic, 0 = None (no entry)
    receivers,  \* _MapEntry.receivers per topic
    allTopic,   \* _all_topic_receivers
    queue,      \* the deque of each receiver
    wpc,        \* a writer: idle, or notifying after the lock
    wtodo,      \* the receivers it still has to notify (the copies)
    witem,      \* the value it is setting
    lastId,     \* the number of the last value set
    delivered,  \* history: everything each receiver received, in order
    valueTopic, \* history: the topic each value was set on
    regAt       \* history: per receiver and topic, lastId when it was first
                \* registered for the topic (or for all topics); MaxSets if never

storeVars == <<store, receivers, allTopic, queue, wpc, wtodo, witem, lastId,
               delivered, valueTopic, regAt>>

StoreTypeOK ==
    /\ store \in [Topics -> 0..MaxSets]
    /\ receivers \in [Topics -> Seq(Receivers)] /\ allTopic \in Seq(Receivers)
    /\ queue \in [Receivers -> Seq(Items)] /\ delivered \in [Receivers -> Seq(Items)]
    /\ wpc \in [Writers -> {"idle", "notify"}] /\ wtodo \in [Writers -> Seq(Receivers)]
    /\ witem \in [Writers -> Items \cup {NoItem}]
    /\ lastId \in 0..MaxSets /\ valueTopic \in [ValueIds -> Topics]
    /\ regAt \in [Receivers -> [Topics -> 0..MaxSets]]

StoreInit ==
    /\ store = [t \in Topics |-> 0]
    /\ receivers = [t \in Topics |-> <<>>] /\ allTopic = <<>>
    /\ queue = [r \in Receivers |-> <<>>] /\ delivered = [r \in Receivers |-> <<>>]
    /\ wpc = [w \in Writers |-> "idle"] /\ wtodo = [w \in Writers |-> <<>>]
    /\ witem = [w \in Writers |-> NoItem]
    /\ lastId = 0 /\ valueTopic = [i \in ValueIds |-> NoItem.topic]
    /\ regAt = [r \in Receivers |-> [t \in Topics |-> MaxSets]]

\* History: r is registered for the topics ts now, unless it was before.
Registered(r, ts) ==
    regAt' = [regAt EXCEPT ![r] = [t \in Topics |->
                 IF t \in ts /\ lastId < @[t] THEN lastId ELSE @[t]]]

\* Mutant: add_receiver without the check for a receiver already listed.
AddReceiverNoDedup(r, t) ==
    /\ receivers' = [receivers EXCEPT ![t] = Append(@, r)]
    /\ Registered(r, {t})
    /\ UNCHANGED <<store, allTopic, queue, wpc, wtodo, witem, lastId, delivered, valueTopic>>

\* ValueStore.add_receiver: append, unless the receiver is already listed.
AddReceiver(r, t) ==
    /\ r \notin ToSet(receivers[t])
    /\ receivers' = [receivers EXCEPT ![t] = Append(@, r)]
    /\ Registered(r, {t})
    /\ UNCHANGED <<store, allTopic, queue, wpc, wtodo, witem, lastId, delivered, valueTopic>>

\* ValueStore.add_all_topic_receiver; a receiver already listed is skipped.
AddAllTopicReceiver(r) ==
    /\ allTopic' = IF r \in ToSet(allTopic) THEN allTopic ELSE Append(allTopic, r)
    /\ Registered(r, Topics)
    /\ UNCHANGED <<store, receivers, queue, wpc, wtodo, witem, lastId, delivered, valueTopic>>

\* ValueStore.set_value, under the lock: the new value replaces the entry's
\* and both receiver lists are copied, all-topic receivers first.  A value
\* without receivers needs no second phase.
SetValueLocked(w, t) ==
    /\ wpc[w] = "idle" /\ lastId < MaxSets
    /\ LET id == lastId + 1
           copies == allTopic \o receivers[t]
       IN /\ store' = [store EXCEPT ![t] = id]
          /\ lastId' = id
          /\ witem' = [witem EXCEPT ![w] = [id |-> id, topic |-> t]]
          /\ wtodo' = [wtodo EXCEPT ![w] = copies]
          /\ wpc' = [wpc EXCEPT ![w] = IF copies = <<>> THEN "idle" ELSE "notify"]
          /\ valueTopic' = [valueTopic EXCEPT ![id] = t]

\* ValueStore.set_value by a thread that does nothing else in the step.
SetValue(w, t) ==
    /\ SetValueLocked(w, t)
    /\ UNCHANGED <<receivers, allTopic, queue, delivered, regAt>>

\* Mutant: the eviction test is 0 < maxlen < len.
ReceiveOffByOne(r, item) ==
    queue' = [queue EXCEPT ![r] =
                Append(IF 0 < MaxLen[r] /\ MaxLen[r] < Len(@) THEN Tail(@) ELSE @, item)]

\* ValueQueue.receive under the queue's lock: drop the oldest entry when
\* 0 < maxlen <= len, then append.
Receive(r, item) ==
    queue' = [queue EXCEPT ![r] =
                Append(IF 0 < MaxLen[r] /\ MaxLen[r] <= Len(@) THEN Tail(@) ELSE @, item)]

\* _notify_receivers_and_cleanup, one receiver: the next copied receiver
\* receives the value.
NotifyReceiver(w) ==
    /\ wpc[w] = "notify"
    /\ LET r == Head(wtodo[w]) IN
         /\ Receive(r, witem[w])
         /\ delivered' = [delivered EXCEPT ![r] = Append(@, witem[w])]
    /\ wtodo' = [wtodo EXCEPT ![w] = Tail(@)]
    /\ wpc' = [wpc EXCEPT ![w] = IF Tail(wtodo[w]) = <<>> THEN "idle" ELSE "notify"]
    /\ UNCHANGED <<store, receivers, allTopic, witem, lastId, valueTopic, regAt>>

\* ValueQueue.pop_with_topic by the consuming component: remove the oldest
\* entry; an empty queue returns None.
Pop(r) ==
    /\ queue[r] # <<>>
    /\ queue' = [queue EXCEPT ![r] = Tail(@)]
    /\ UNCHANGED <<store, receivers, allTopic, wpc, wtodo, witem, lastId, delivered, valueTopic,
                   regAt>>

\* A value whose set_value has finished notifying.
Done(id) == id <= lastId /\ \A w \in Writers : ~(wpc[w] = "notify" /\ witem[w].id = id)

-----------------------------------------------------------------------------
(* Properties. *)

\* Spec 8: a bounded ValueQueue retains exactly the last maxlen items in
\* arrival order: every queue is a contiguous, in-order suffix of what it
\* received (consumers and eviction only remove from the front) and holds
\* at most maxlen entries, whatever writers and consumers interleave.
QueueKeepsLastMaxlen ==
    \A r \in Receivers :
        /\ IsSuffix(queue[r], delivered[r])
        /\ MaxLen[r] > 0 => Len(queue[r]) <= MaxLen[r]

\* Spec 8: set_value delivers a value to every receiver registered on its
\* topic and to every all-topic receiver, each exactly once.  Judged by
\* when the receiver registered, not by the copy set_value took: one that
\* registered before the value's locked phase gets it exactly once, even
\* when the notify comes after later registrations; one that registered
\* after it does not get it (the copies are taken under the lock).
DeliveredToRegistered ==
    \A id \in ValueIds : Done(id) =>
        \A r \in Receivers :
            Cardinality({i \in DOMAIN delivered[r] : delivered[r][i].id = id})
                = IF regAt[r][valueTopic[id]] < id THEN 1 ELSE 0
=============================================================================
