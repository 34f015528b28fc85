----------------------------- MODULE RemoteLink -----------------------------
(***************************************************************************)
(* The link monitoring of two connected MCF RemoteServices                *)
(* (mcf_remote/remote_service.py: RemoteStatusTracker, RemotePair, the    *)
(* component, receive and cyclic threads) over the ZMQ REQ/REP transport  *)
(* (mcf_remote/zmq_msgpack_comm.py), with discrete time.                  *)
(*                                                                         *)
(* Each peer p runs three threads that touch its tracker:                 *)
(*  - the component thread: wait_and_clear on the trigger, then           *)
(*    _handle_triggers = observe_state_change, optionally one value send, *)
(*    cycle() = run_cyclic (which may send a ping) and _send_pongs;       *)
(*  - the receive thread: RemotePair.receive on the REP socket;            *)
(*  - the cyclic thread: trigger, then wait_for_event(ping_interval).     *)
(* Every send is one REQ round trip that blocks the component thread for  *)
(* up to SendTimeout, holding RemotePair._lock, and for a ping also the   *)
(* tracker's _condition (run_cyclic holds it while calling _send_ping).   *)
(*                                                                         *)
(* Time: one tick of the clock advances every elapsed-time counter.  The  *)
(* code's "now > last + interval" is strict; when the counters are equal  *)
(* the sub-tick order decides, so both outcomes are allowed.  A tick       *)
(* happens only when no thread has an immediate step to take.             *)
(*                                                                         *)
(* Freshness: a ping carries its sender's nonce and a pong carries the    *)
(* nonce it answers.  Only equality with the sender's latest nonce        *)
(* matters, so each message carries cur = "equals the latest nonce", and  *)
(* a new ping makes every older message of that nonce stale.              *)
(***************************************************************************)
EXTENDS Naturals, Sequences

CONSTANTS
    PingMin,        \* ping_interval_min, in ticks
    PingMax,        \* ping_interval_max
    PongTimeout,    \* pong_timeout
    SendTimeout,    \* the sender's send_timeout (REMOTE_SERVICE_TIMEOUT_MS)
    DataTraffic,    \* whether the components send values while UP
    MaxPartitions,  \* bound on network partitions
    Peers           \* the two connected RemoteServices

ASSUME /\ PingMin \in Nat \ {0} /\ PingMax \in Nat /\ PingMin <= PingMax
       /\ PongTimeout \in Nat /\ SendTimeout \in Nat \ {0}
       /\ DataTraffic \in BOOLEAN /\ MaxPartitions \in Nat
       /\ \E a, b \in Peers : a # b /\ Peers = {a, b}

\* The peer at the other end of p's link.
Other(p) == CHOOSE q \in Peers : q # p
States == {"DOWN", "UNSURE", "UP"}
Kinds == {"ping", "pong", "value", "command"}
\* A time since the last ping (pong) is only ever compared with an interval
\* (the pong timeout), so it saturates one tick beyond: PingNever
\* (PongNever) also stands for "datetime(1970, 1, 1)".
PingNever == PingMax + 1
PongNever == PongTimeout + 1
\* Values _ping_interval takes: min, doubled while UNSURE (the last doubling
\* exceeds max and leaves the state DOWN with that interval), and max.
Intervals == ({PingMin * (2 ^ k) : k \in 0..PingMax} \cap 1..(2 * PingMax)) \cup {PingMax}

VARIABLES
    st,          \* RemoteStatusTracker._remote_state
    iv,          \* _ping_interval
    sincePing,   \* now - _last_ping_time (saturating at PingNever)
    sincePong,   \* now - _last_pong_time (saturating at PongNever)
    cyc,         \* time left in the cyclic thread's wait_for_event; 0: woken
    oldSt,       \* RemotePair._oldState
    pongQ,       \* RemotePair._pong_queue: for each queued nonce, whether it is the peer's latest
    trig,        \* the component's trigger Event flag
    cpc,         \* component thread: wait | reqall | value | cyclic | ping | pongs | pong
    initialized, \* RemoteService._initialized: request_all has been sent
    waited,      \* time the component thread has waited for the current reply
    pongLate,    \* run_cyclic in UP: "now > _last_pong_time + pong_timeout", read before the ping
    rpc,         \* receive thread: recv | ping | pong | down
    rcur,        \* freshness flag of the ping or pong the receive thread is blocked on
    req,         \* requests p's REQ socket has sent and the peer has not read (FIFO)
    rep,         \* a reply has arrived at p's REQ socket since its last send
    connected,   \* the network between the peers is up
    partitions,
    answered     \* history: the peer's receive thread has read p's latest ping

\* What _set_remote_state writes.
tracker == <<st, iv, sincePing, sincePong, cyc>>
vars == <<tracker, oldSt, pongQ, trig, cpc, initialized, waited, pongLate, rpc, rcur, req, rep,
          connected, partitions, answered>>

Msg == [kind : Kinds, cur : BOOLEAN]

TypeOK ==
    /\ st \in [Peers -> States] /\ oldSt \in [Peers -> States]
    /\ iv \in [Peers -> Intervals]
    /\ sincePing \in [Peers -> 0..PingNever] /\ sincePong \in [Peers -> 0..PongNever]
    /\ cyc \in [Peers -> 0..(2 * PingMax)]
    /\ pongQ \in [Peers -> Seq(BOOLEAN)]
    /\ trig \in [Peers -> BOOLEAN]
    /\ cpc \in [Peers -> {"wait", "reqall", "value", "cyclic", "ping", "pongs", "pong"}]
    /\ initialized \in [Peers -> BOOLEAN]
    /\ waited \in [Peers -> 0..SendTimeout] /\ pongLate \in [Peers -> BOOLEAN]
    /\ rpc \in [Peers -> {"recv", "ping", "pong", "down"}] /\ rcur \in [Peers -> BOOLEAN]
    /\ req \in [Peers -> Seq(Msg)] /\ rep \in [Peers -> BOOLEAN]
    /\ connected \in BOOLEAN /\ partitions \in 0..MaxPartitions
    /\ answered \in [Peers -> BOOLEAN]

\* RemoteStatusTracker.__init__ (UNSURE, interval min, times at 1970),
\* RemotePair.__init__ (_oldState UNSURE, empty pong queue), and the
\* threads before their first step (the cyclic thread first triggers).
Init ==
    /\ st = [p \in Peers |-> "UNSURE"] /\ oldSt = [p \in Peers |-> "UNSURE"]
    /\ iv = [p \in Peers |-> PingMin]
    /\ sincePing = [p \in Peers |-> PingNever] /\ sincePong = [p \in Peers |-> PongNever]
    /\ cyc = [p \in Peers |-> 0]
    /\ pongQ = [p \in Peers |-> <<>>]
    /\ trig = [p \in Peers |-> FALSE]
    /\ cpc = [p \in Peers |-> "wait"] /\ initialized = [p \in Peers |-> FALSE]
    /\ waited = [p \in Peers |-> 0]
    /\ pongLate = [p \in Peers |-> FALSE]
    /\ rpc = [p \in Peers |-> "recv"] /\ rcur = [p \in Peers |-> FALSE]
    /\ req = [p \in Peers |-> <<>>] /\ rep = [p \in Peers |-> FALSE]
    /\ connected = TRUE /\ partitions = 0
    /\ answered = [p \in Peers |-> FALSE]

-----------------------------------------------------------------------------
(* Helpers.                                                                *)

\* "now > last + bound" on tick counters: decided by the sub-tick order when equal.
Exceeds(elapsed, bound) ==
    IF elapsed > bound THEN {TRUE} ELSE IF elapsed < bound THEN {FALSE} ELSE BOOLEAN

\* RemotePair._lock is held by the component thread across each round trip;
\* the tracker's _condition across a ping's round trip.
LockHeld(p) == cpc[p] \in {"value", "ping", "pongs", "pong"}
CondHeld(p) == cpc[p] = "ping"

\* A REQ send: the message reaches the peer's REP socket unless the network
\* is down.  With REQ_RELAXED (and without REQ_CORRELATE) a send discards the
\* replies already received, and the next reply to arrive, even a late one
\* to an earlier request, is taken as the answer.
Send(p, m) ==
    /\ req' = [req EXCEPT ![p] = IF connected THEN Append(@, m) ELSE @]
    /\ rep' = [rep EXCEPT ![p] = FALSE]

\* _set_remote_state, called while the interval is i: UNSURE restarts
\* probing at the minimal interval with _last_ping_time at 1970, UP slows
\* probing to the maximal interval; notify_all wakes the cyclic thread.
\* The times the code does not read again in the new state are reset:
\* _last_ping_time in DOWN (no pings; DOWN is left only to UNSURE) and
\* _last_pong_time outside UP (the promotion, the only way into UP, sets it
\* to the time of the pong).
SetStateFrom(p, s, i) ==
    /\ st' = [st EXCEPT ![p] = s]
    /\ iv' = [iv EXCEPT ![p] = CASE s = "UNSURE" -> PingMin
                                 [] s = "UP"     -> PingMax
                                 [] OTHER        -> i]
    /\ sincePing' = [sincePing EXCEPT ![p] = IF s = "UP" THEN @ ELSE PingNever]
    /\ sincePong' = [sincePong EXCEPT ![p] = IF s = "UP" THEN 0 ELSE PongNever]
    /\ cyc' = [cyc EXCEPT ![p] = 0]

SetState(p, s) == SetStateFrom(p, s, iv[p])

\* A new ping of p: every message carrying p's earlier nonce becomes stale.
StaleFor(p, q) ==
    /\ pongQ' = [pongQ EXCEPT ![q] = [i \in DOMAIN @ |-> FALSE]]
    /\ rcur' = [rcur EXCEPT ![q] = IF rpc[q] = "ping" THEN FALSE ELSE @,
                            ![p] = IF rpc[p] = "pong" THEN FALSE ELSE @]

\* The messages of one kind in a pipe, marked as carrying an old nonce.
StaleMsgs(pipe, kind) ==
    [i \in DOMAIN pipe |-> IF pipe[i].kind = kind THEN [pipe[i] EXCEPT !.cur = FALSE]
                                                 ELSE pipe[i]]

-----------------------------------------------------------------------------
(* The component thread of peer p.                                         *)

\* Mutant: a REQ socket without RCVTIMEO, which waits for the reply forever.
RoundTripEndsNoTimeout(p) == rep[p]

\* A round trip of p's REQ socket ends: a reply arrived, or send_timeout passed.
RoundTripEnds(p) == rep[p] \/ waited[p] = SendTimeout

\* RemoteService._handle_send while the link is UP: send a value (one
\* round trip), from the REQ queue r; otherwise go on to cycle().
HandleSend(p, r) ==
    \/ /\ DataTraffic /\ st[p] = "UP"
       /\ req' = [req EXCEPT ![p] = IF connected THEN Append(r, [kind |-> "value", cur |-> FALSE])
                                                ELSE r]
       /\ cpc' = [cpc EXCEPT ![p] = "value"]
    \/ /\ req' = [req EXCEPT ![p] = r]
       /\ cpc' = [cpc EXCEPT ![p] = "cyclic"]

\* Component._thread_main: wait_and_clear returns on a set trigger, and
\* _handle_triggers runs: observe_state_change (leaving UP reconnects the
\* REQ socket, dropping what it had queued, and resets pending values);
\* the first time the link is UP, send_request_all (a round trip without
\* _lock); then _handle_send.
CHandle(p) ==
    /\ cpc[p] = "wait" /\ trig[p]
    /\ trig' = [trig EXCEPT ![p] = FALSE]
    /\ oldSt' = [oldSt EXCEPT ![p] = st[p]]
    /\ rep' = [rep EXCEPT ![p] = FALSE]
    /\ LET reqNow == IF oldSt[p] = "UP" /\ st[p] # "UP" THEN <<>> ELSE req[p]
       IN \/ /\ ~initialized[p] /\ st[p] = "UP"
             /\ initialized' = [initialized EXCEPT ![p] = TRUE]
             /\ req' = [req EXCEPT ![p] = IF connected THEN Append(reqNow, [kind |-> "command", cur |-> FALSE])
                                                      ELSE reqNow]
             /\ cpc' = [cpc EXCEPT ![p] = "reqall"]
          \/ /\ initialized[p] \/ st[p] # "UP"
             /\ HandleSend(p, reqNow)
             /\ UNCHANGED initialized
    /\ UNCHANGED <<tracker, pongQ, waited, pongLate, rpc, rcur, connected, partitions,
                   answered>>

\* send_request_all returns (its TIMEOUT is only logged); _handle_send.
CReqAllDone(p) ==
    /\ cpc[p] = "reqall" /\ RoundTripEnds(p)
    /\ rep' = [rep EXCEPT ![p] = FALSE]
    /\ waited' = [waited EXCEPT ![p] = 0]
    /\ HandleSend(p, req[p])
    /\ UNCHANGED <<tracker, oldSt, pongQ, trig, initialized, pongLate, rpc, rcur, connected,
                   partitions, answered>>

\* cycle() after run_cyclic: _send_pongs, which returns to wait_and_clear
\* when the pong queue is empty.
SendPongs(p) == IF pongQ[p] = <<>> THEN "wait" ELSE "pongs"

\* RemotePair.send_value returns: a reply, or TIMEOUT, which calls
\* RemoteStatusTracker.sending_timeout (state UNSURE).
CValueDone(p) ==
    /\ cpc[p] = "value" /\ RoundTripEnds(p)
    /\ IF rep[p] THEN UNCHANGED tracker ELSE SetState(p, "UNSURE")
    /\ rep' = [rep EXCEPT ![p] = FALSE]
    /\ cpc' = [cpc EXCEPT ![p] = "cyclic"]
    /\ waited' = [waited EXCEPT ![p] = 0]
    /\ UNCHANGED <<initialized, oldSt, pongQ, trig, pongLate, rpc, rcur, req, connected, partitions,
                   answered>>

\* RemoteStatusTracker.run_cyclic under _condition.  In UNSURE and UP a due
\* ping is sent (_send_ping: _last_ping_time = now, freshness + 1) and the
\* thread blocks in the round trip, holding _condition and _lock; UP also
\* reads the pong timeout against now.  Otherwise (or in DOWN) cycle() goes
\* on to _send_pongs.
CCyclic(p) ==
    /\ cpc[p] = "cyclic"
    /\ \E due \in Exceeds(sincePing[p], iv[p]), late \in Exceeds(sincePong[p], PongTimeout) :
         IF st[p] # "DOWN" /\ due
           THEN /\ sincePing' = [sincePing EXCEPT ![p] = 0]
                /\ StaleFor(p, Other(p))
                /\ req' = [req EXCEPT
                      ![p] = LET old == StaleMsgs(@, "ping") IN
                             IF connected THEN Append(old, [kind |-> "ping", cur |-> TRUE]) ELSE old,
                      ![Other(p)] = StaleMsgs(@, "pong")]
                /\ rep' = [rep EXCEPT ![p] = FALSE]
                /\ answered' = [answered EXCEPT ![p] = FALSE]
                /\ pongLate' = [pongLate EXCEPT ![p] = (st[p] = "UP" /\ late)]
                /\ cpc' = [cpc EXCEPT ![p] = "ping"]
           ELSE /\ cpc' = [cpc EXCEPT ![p] = SendPongs(p)]
                /\ UNCHANGED <<sincePing, pongQ, rcur, req, rep, answered, pongLate>>
    /\ UNCHANGED <<initialized, st, iv, sincePong, cyc, oldSt, trig, waited, rpc, connected, partitions>>

\* The ping's round trip ends (a reply, or TIMEOUT, which send_ping only
\* logs), and run_cyclic finishes: UNSURE doubles the interval and gives up
\* (DOWN) once it exceeds the maximum; UP goes DOWN if the pong was late.
CPingDone(p) ==
    /\ cpc[p] = "ping" /\ RoundTripEnds(p)
    /\ CASE st[p] = "UNSURE" /\ 2 * iv[p] > PingMax -> SetStateFrom(p, "DOWN", 2 * iv[p])
         [] st[p] = "UNSURE" -> /\ iv' = [iv EXCEPT ![p] = 2 * @]
                                /\ UNCHANGED <<st, sincePing, sincePong, cyc>>
         [] st[p] = "UP" /\ pongLate[p] -> SetState(p, "DOWN")
         [] OTHER -> UNCHANGED tracker
    /\ rep' = [rep EXCEPT ![p] = FALSE]
    /\ cpc' = [cpc EXCEPT ![p] = SendPongs(p)]
    /\ waited' = [waited EXCEPT ![p] = 0]
    /\ pongLate' = [pongLate EXCEPT ![p] = FALSE]
    /\ UNCHANGED <<initialized, oldSt, pongQ, trig, rpc, rcur, req, connected, partitions, answered>>

\* RemotePair._send_pongs: under _lock, send a pong for each queued nonce.
CSendPong(p) ==
    /\ cpc[p] = "pongs" /\ pongQ[p] # <<>>
    /\ pongQ' = [pongQ EXCEPT ![p] = Tail(@)]
    /\ Send(p, [kind |-> "pong", cur |-> Head(pongQ[p])])
    /\ cpc' = [cpc EXCEPT ![p] = "pong"]
    /\ UNCHANGED <<initialized, tracker, oldSt, trig, waited, pongLate, rpc, rcur, connected, partitions,
                   answered>>

\* send_pong's round trip ends (TIMEOUT is only logged).
CPongDone(p) ==
    /\ cpc[p] = "pong" /\ RoundTripEnds(p)
    /\ rep' = [rep EXCEPT ![p] = FALSE]
    /\ cpc' = [cpc EXCEPT ![p] = SendPongs(p)]
    /\ waited' = [waited EXCEPT ![p] = 0]
    /\ UNCHANGED <<initialized, tracker, oldSt, pongQ, trig, pongLate, rpc, rcur, req, connected,
                   partitions, answered>>

-----------------------------------------------------------------------------
(* The receive thread of peer p: ZmqMsgPackReceiver.receive on the REP     *)
(* socket, then RemotePair.receive's check for DOWN.                       *)

\* Mutant: RemotePair.receive without the call of message_received_in_down.
AfterMessageNoDown(p, s) == "recv"

\* After a message: message_received_in_down if the state read is DOWN.
AfterMessage(p, s) == IF s = "DOWN" THEN "down" ELSE "recv"

\* RemotePair.ping_received under _lock: queue the nonce and trigger the
\* component; then RemotePair.receive's check for DOWN.
PingReceived(p, c) ==
    /\ pongQ' = [pongQ EXCEPT ![p] = Append(@, c)]
    /\ trig' = [trig EXCEPT ![p] = TRUE]
    /\ rpc' = [rpc EXCEPT ![p] = AfterMessage(p, st[p])]

\* Mutant: pong_received without the freshness comparison.
PongReceivedAnyNonce(p, c) ==
    /\ CASE st[p] = "UNSURE" -> SetState(p, "UP")
         [] st[p] = "UP" -> /\ sincePong' = [sincePong EXCEPT ![p] = 0]
                            /\ UNCHANGED <<st, iv, sincePing, cyc>>
         [] OTHER -> UNCHANGED tracker
    /\ rpc' = [rpc EXCEPT ![p] = AfterMessage(p, st'[p])]

\* Mutant: pong_received promotes from any state other than UP.
PongReceivedFromDown(p, c) ==
    /\ CASE c /\ st[p] # "UP" -> SetState(p, "UP")
         [] c /\ st[p] = "UP" -> /\ sincePong' = [sincePong EXCEPT ![p] = 0]
                                 /\ UNCHANGED <<st, iv, sincePing, cyc>>
         [] OTHER -> UNCHANGED tracker
    /\ rpc' = [rpc EXCEPT ![p] = AfterMessage(p, st'[p])]

\* RemoteStatusTracker.pong_received under _condition: a pong with the
\* latest nonce promotes UNSURE to UP and, in UP, records the pong time.
PongReceived(p, c) ==
    /\ CASE c /\ st[p] = "UNSURE" -> SetState(p, "UP")
         [] c /\ st[p] = "UP" -> /\ sincePong' = [sincePong EXCEPT ![p] = 0]
                                 /\ UNCHANGED <<st, iv, sincePing, cyc>>
         [] OTHER -> UNCHANGED tracker
    /\ rpc' = [rpc EXCEPT ![p] = AfterMessage(p, st'[p])]

\* ZmqMsgPackReceiver.receive: read the next request.  A ping or pong is
\* answered at once and its listener runs next, unless the lock it takes
\* is held (then the thread blocks: RPing, RPong); a value is answered
\* after value_received; a sendAll command is answered, then send_all
\* sets forced_send on every rule and triggers the component.
RTake(p) ==
    LET q == Other(p)
        m == Head(req[q])
        blocked == \/ m.kind = "ping" /\ LockHeld(p)
                   \/ m.kind = "pong" /\ CondHeld(p)
    IN /\ rpc[p] = "recv" /\ req[q] # <<>>
       /\ req' = [req EXCEPT ![q] = Tail(@)]
       /\ rep' = [rep EXCEPT ![q] = TRUE]
       /\ answered' = [answered EXCEPT ![q] = IF m.kind = "ping" /\ m.cur THEN TRUE ELSE @]
       /\ \/ /\ blocked
             /\ rpc' = [rpc EXCEPT ![p] = m.kind]
             /\ rcur' = [rcur EXCEPT ![p] = m.cur]
             /\ UNCHANGED <<tracker, pongQ, trig>>
          \/ /\ ~blocked /\ m.kind = "ping"
             /\ PingReceived(p, m.cur)
             /\ UNCHANGED <<tracker, rcur>>
          \/ /\ ~blocked /\ m.kind = "pong"
             /\ PongReceived(p, m.cur)
             /\ UNCHANGED <<pongQ, trig, rcur>>
          \/ /\ m.kind = "value"
             /\ rpc' = [rpc EXCEPT ![p] = AfterMessage(p, st[p])]
             /\ UNCHANGED <<tracker, pongQ, trig, rcur>>
          \/ /\ m.kind = "command"
             /\ trig' = [trig EXCEPT ![p] = TRUE]
             /\ rpc' = [rpc EXCEPT ![p] = AfterMessage(p, st[p])]
             /\ UNCHANGED <<tracker, pongQ, rcur>>
       /\ UNCHANGED <<initialized, oldSt, cpc, waited, pongLate, connected, partitions>>

\* The blocked ping handler gets _lock.
RPing(p) ==
    /\ rpc[p] = "ping" /\ ~LockHeld(p)
    /\ PingReceived(p, rcur[p])
    /\ rcur' = [rcur EXCEPT ![p] = FALSE]
    /\ UNCHANGED <<initialized, tracker, oldSt, cpc, waited, pongLate, req, rep, connected, partitions,
                   answered>>

\* The blocked pong handler gets _condition.
RPong(p) ==
    /\ rpc[p] = "pong" /\ ~CondHeld(p)
    /\ PongReceived(p, rcur[p])
    /\ rcur' = [rcur EXCEPT ![p] = FALSE]
    /\ UNCHANGED <<initialized, oldSt, pongQ, trig, cpc, waited, pongLate, req, rep, connected,
                   partitions, answered>>

\* RemoteStatusTracker.message_received_in_down under _condition: UNSURE.
RDown(p) ==
    /\ rpc[p] = "down" /\ ~CondHeld(p)
    /\ SetState(p, "UNSURE")
    /\ rpc' = [rpc EXCEPT ![p] = "recv"]
    /\ UNCHANGED <<initialized, oldSt, pongQ, trig, cpc, waited, pongLate, rcur, req, rep, connected,
                   partitions, answered>>

-----------------------------------------------------------------------------
(* The cyclic thread of peer p (_trigger_cyclic_thread_main): trigger the  *)
(* component, then wait_for_event: take _condition, read the interval and  *)
(* wait on it.  Woken by the timeout or by notify_all (cyc = 0), the wait  *)
(* needs _condition back, which a ping's round trip holds.                 *)
YWake(p) ==
    /\ cyc[p] = 0 /\ ~CondHeld(p)
    /\ trig' = [trig EXCEPT ![p] = TRUE]
    /\ cyc' = [cyc EXCEPT ![p] = iv[p]]
    /\ UNCHANGED <<initialized, st, iv, sincePing, sincePong, oldSt, pongQ, cpc, waited, pongLate, rpc,
                   rcur, req, rep, connected, partitions, answered>>

-----------------------------------------------------------------------------
(* Time and the network.                                                   *)

\* A step some thread of p takes without waiting for time to pass.
Urgent(p) ==
    \/ cpc[p] = "wait" /\ trig[p]
    \/ cpc[p] \in {"cyclic", "pongs"}
    \/ cpc[p] \in {"reqall", "value", "ping", "pong"} /\ RoundTripEnds(p)
    \/ rpc[p] = "recv" /\ req[Other(p)] # <<>>
    \/ rpc[p] = "ping" /\ ~LockHeld(p)
    \/ rpc[p] \in {"pong", "down"} /\ ~CondHeld(p)
    \/ cyc[p] = 0 /\ ~CondHeld(p)

Inc(x, never) == IF x < never THEN x + 1 ELSE never

Tick ==
    /\ \A p \in Peers : ~Urgent(p)
    /\ sincePing' = [p \in Peers |-> Inc(sincePing[p], PingNever)]
    /\ sincePong' = [p \in Peers |-> Inc(sincePong[p], PongNever)]
    /\ cyc' = [p \in Peers |-> IF cyc[p] > 0 THEN cyc[p] - 1 ELSE 0]
    /\ waited' = [p \in Peers |-> IF cpc[p] \in {"reqall", "value", "ping", "pong"}
                                    THEN waited[p] + 1 ELSE waited[p]]
    /\ UNCHANGED <<initialized, st, iv, oldSt, pongQ, trig, cpc, pongLate, rpc, rcur, req, rep,
                   connected, partitions, answered>>

\* The network fails: what is in flight is lost, and so is what is sent
\* until it heals.
Partition ==
    /\ connected /\ partitions < MaxPartitions /\ \A p \in Peers : st[p] = "UP"
    /\ connected' = FALSE /\ partitions' = partitions + 1
    /\ req' = [p \in Peers |-> <<>>] /\ rep' = [p \in Peers |-> FALSE]
    /\ UNCHANGED <<initialized, tracker, oldSt, pongQ, trig, cpc, waited, pongLate, rpc, rcur, answered>>

Heal ==
    /\ ~connected
    /\ connected' = TRUE
    /\ UNCHANGED <<initialized, tracker, oldSt, pongQ, trig, cpc, waited, pongLate, rpc, rcur, req, rep,
                   partitions, answered>>

-----------------------------------------------------------------------------
Component(p) == CHandle(p) \/ CReqAllDone(p) \/ CValueDone(p) \/ CCyclic(p) \/ CPingDone(p)
                \/ CSendPong(p) \/ CPongDone(p)
Receiver(p) == RTake(p) \/ RPing(p) \/ RPong(p) \/ RDown(p)

Next ==
    \/ \E p \in Peers : Component(p) \/ Receiver(p) \/ YWake(p)
    \/ Tick \/ Partition \/ Heal

\* Every thread is scheduled fairly and time advances; a partition heals.
Fairness ==
    /\ \A p \in Peers : WF_vars(Component(p)) /\ WF_vars(Receiver(p)) /\ WF_vars(YWake(p))
    /\ WF_vars(Tick) /\ WF_vars(Heal)

Spec == Init /\ [][Next]_vars /\ Fairness
-----------------------------------------------------------------------------
(* Properties.                                                             *)

\* pong_received promotes UNSURE to UP only for the nonce of the latest
\* ping: whenever a tracker becomes UP, the peer's receive thread has read
\* the latest ping that tracker sent (and no later ping has been sent).
PromotionAnswersLatestPing ==
    [][\A p \in Peers : st[p] # "UP" /\ st'[p] = "UP" => answered[p]]_vars

\* While the network does not fail, an UP tracker is never given up: the
\* peer answers every ping, so run_cyclic in UP never finds the last pong
\* older than pong_timeout (spec: UP pings at the slow rate
\* ping_interval_max, below pong_timeout, and "if no pong within
\* pong_timeout" the link goes DOWN).
UpIsStable == [][\A p \in Peers : connected /\ st[p] = "UP" => st'[p] # "DOWN"]_vars

\* On a network that does not fail, each tracker keeps coming back UP:
\* a peer that gave up is woken by the next message of the other
\* (message_received_in_down) and probes again.
LinkRecurrentlyUp == \A p \in Peers : []<>(st[p] = "UP")

\* Both trackers DOWN with nothing queued, in flight or being handled: no
\* thread will ever send again (DOWN sends no pings, values go only while
\* UP, pongs only answer pings), so neither tracker can leave DOWN.
Dead ==
    \A p \in Peers : /\ st[p] = "DOWN" /\ pongQ[p] = <<>> /\ req[p] = <<>>
                     /\ rpc[p] = "recv" /\ cpc[p] \in {"wait", "cyclic"}

\* Once the network is up, the link is never dead: the heartbeat retries
\* (spec: transport failures downgrade the link and "retry via the
\* heartbeat rather than terminating").
LinkNeverDead == connected => ~Dead

\* The trackers implement the abstract LinkMonitor.
LM == INSTANCE LinkMonitor WITH link <- st
ImplementsLinkMonitor == LM!Spec

=============================================================================
