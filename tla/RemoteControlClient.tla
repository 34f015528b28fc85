------------------------- MODULE RemoteControlClient -------------------------
(***************************************************************************)
(* RemoteControl built with own_thread=True (mcf/remote_control.py,       *)
(* mcf/zmq_communicator.py, mcf/worker.py), on a connected REQ socket.    *)
(*                                                                         *)
(* Every socket operation is handed to one ReusableThread through         *)
(* OwnThreadWorker.submit: under the worker's lock the caller stores its  *)
(* args, sets _start_signal and joins on _one_run_finished; the thread     *)
(* clears _start_signal, checks _finish_indicator, runs the callable,     *)
(* stores self.result and sets _one_run_finished.  _receive polls the     *)
(* socket and raises RCConnectionTimeout when no reply came in time;      *)
(* run() catches it, marks the thread timed out and finished, and ends.   *)
(* Any other exception ends the thread without setting _one_run_finished. *)
(*                                                                         *)
(* ZmqCommunicator.disconnect checks self.socket (unlocked), submits      *)
(* _disconnect (ignoring RCConnectionTimeout), calls worker.shutdown()    *)
(* (ReusableThread.finish: set the indicator, restart, join) and sets     *)
(* self.worker to None.  It runs from ZmqCommunicator.__del__ (Fin) once  *)
(* no caller uses the object, and, when ExplicitDisconnect, from a        *)
(* caller's RemoteControl.disconnect while others may be calling.         *)
(***************************************************************************)
EXTENDS Naturals

CONSTANTS
    Callers,             \* user threads calling RemoteControl methods
    Fin,                 \* the thread running ZmqCommunicator.__del__
    NoActor,             \* no thread holds the lock
    MaxCalls,            \* bound on calls per caller
    ExplicitDisconnect   \* whether callers call RemoteControl.disconnect

ASSUME Fin \notin Callers /\ NoActor \notin Callers \cup {Fin} /\ MaxCalls \in Nat /\ ExplicitDisconnect \in BOOLEAN

Actors == Callers \cup {Fin}
\* A submitted call: the callable (_send or _disconnect) and a number.
Jobs == [op : {"send", "disconnect"}, id : Nat]
NoJob == [op |-> "none", id |-> 0]
\* What a call hands back: a result (0 = None), or how it failed.
Outcomes == [k : {"result", "timeout", "error", "none"}, v : Nat]
Returned(v) == [k |-> "result", v |-> v]
Failed(k) == [k |-> k, v |-> 0]

VARIABLES
    \* ReusableThread
    tpc,          \* the thread: wait | check | call | recv | dead
    start_signal, \* _start_signal
    finished,     \* _one_run_finished
    finish_ind,   \* _finish_indicator
    timed_out,    \* _connection_timed_out
    \* OwnThreadWorker and ZmqCommunicator
    lock,         \* the holder of OwnThreadWorker.lock, or NoActor
    args,         \* self.args, as the job, or NoJob
    result,       \* self.result
    worker,       \* ZmqCommunicator.worker is not None
    socket,       \* ZmqCommunicator.socket is not None
    \* the calling threads
    pc,           \* idle | acquire | join | jwait | clear | end | raised
                  \* | shutdown | fset | fjoin | fjwait | fclear | wnone
    op,           \* the operation in progress
    calls,        \* calls made so far
    nextId,       \* numbers the jobs
    myId,         \* history: the number of each actor's last submitted job
    ret           \* history: what each actor's last call returned

vars == <<tpc, start_signal, finished, finish_ind, timed_out, lock, args, result,
          worker, socket, pc, op, calls, nextId, myId, ret>>

PCs == {"idle", "acquire", "join", "jwait", "fjwait", "clear", "end", "raised", "shutdown", "fset",
        "fjoin", "fclear", "wnone"}

TypeOK ==
    /\ tpc \in {"wait", "check", "call", "recv", "dead"}
    /\ start_signal \in BOOLEAN /\ finished \in BOOLEAN
    /\ finish_ind \in BOOLEAN /\ timed_out \in BOOLEAN
    /\ lock \in Actors \cup {NoActor} /\ args \in Jobs \cup {NoJob}
    /\ result \in Nat /\ worker \in BOOLEAN /\ socket \in BOOLEAN
    /\ pc \in [Actors -> PCs] /\ op \in [Actors -> {"send", "disconnect"}]
    /\ calls \in [Actors -> Nat] /\ nextId \in Nat
    /\ myId \in [Actors -> Nat] /\ ret \in [Actors -> Outcomes]
    \* only the lock holder is inside submit
    /\ \A a \in Actors : pc[a] \in {"join", "jwait", "clear", "end", "raised"} => lock = a

\* A connected communicator: OwnThreadWorker.__init__ started the thread,
\* which waits for its start signal; _connect has opened the socket.
Init ==
    /\ tpc = "wait" /\ start_signal = FALSE /\ finished = FALSE
    /\ finish_ind = FALSE /\ timed_out = FALSE
    /\ lock = NoActor /\ args = NoJob /\ result = 0
    /\ worker = TRUE /\ socket = TRUE
    /\ pc = [a \in Actors |-> "idle"] /\ op = [a \in Actors |-> "send"]
    /\ calls = [a \in Actors |-> 0] /\ nextId = 0
    /\ myId = [a \in Actors |-> 0] /\ ret = [a \in Actors |-> Failed("none")]

-----------------------------------------------------------------------------
(* OwnThreadWorker.submit and ReusableThread.join, in the calling thread. *)

\* Mutant: submit does not wait for the lock.
AcquireNoLock(a) ==
    /\ pc[a] = "acquire"
    /\ lock' = a
    /\ args' = [op |-> op[a], id |-> nextId + 1]
    /\ nextId' = nextId + 1 /\ myId' = [myId EXCEPT ![a] = nextId + 1]
    /\ start_signal' = TRUE
    /\ pc' = [pc EXCEPT ![a] = "join"]
    /\ UNCHANGED <<tpc, finished, finish_ind, timed_out, result, worker, socket, op,
                   calls, ret>>

\* submit: take the lock, store the args, restart() sets the start signal.
Acquire(a) ==
    /\ pc[a] = "acquire" /\ lock = NoActor
    /\ lock' = a
    /\ args' = [op |-> op[a], id |-> nextId + 1]
    /\ nextId' = nextId + 1 /\ myId' = [myId EXCEPT ![a] = nextId + 1]
    /\ start_signal' = TRUE
    /\ pc' = [pc EXCEPT ![a] = "join"]
    /\ UNCHANGED <<tpc, finished, finish_ind, timed_out, result, worker, socket, op,
                   calls, ret>>

\* join: `if not self._connection_timed_out:` read once; if set, skip the
\* wait.  Used by submit (join) and by finish (fjoin).
JoinCheck(a) ==
    /\ pc[a] \in {"join", "fjoin"}
    /\ pc' = [pc EXCEPT ![a] = CASE pc[a] = "join" /\ timed_out  -> "clear"
                                 [] pc[a] = "join"               -> "jwait"
                                 [] timed_out                    -> "fclear"
                                 [] OTHER                        -> "fjwait"]
    /\ UNCHANGED <<tpc, start_signal, finished, finish_ind, timed_out, lock, args,
                   result, worker, socket, op, calls, nextId, myId, ret>>

\* Mutant: the clear after the wait is left out.
JoinClearKeepsEvent(a) ==
    /\ pc[a] \in {"clear", "fclear"}
    /\ IF pc[a] = "clear"
         THEN /\ pc' = [pc EXCEPT ![a] = IF timed_out THEN "raised" ELSE "end"]
              /\ UNCHANGED ret
         ELSE /\ pc' = [pc EXCEPT ![a] = IF timed_out THEN "idle" ELSE "wnone"]
              /\ ret' = IF timed_out THEN [ret EXCEPT ![a] = Failed("timeout")] ELSE ret
    /\ UNCHANGED <<tpc, start_signal, finished, finish_ind, timed_out, lock, args, result,
                   worker, socket, op, calls, nextId, myId>>

\* `self._one_run_finished.wait()`.
JoinWait(a) ==
    /\ pc[a] \in {"jwait", "fjwait"} /\ finished
    /\ pc' = [pc EXCEPT ![a] = IF pc[a] = "jwait" THEN "clear" ELSE "fclear"]
    /\ UNCHANGED <<tpc, start_signal, finished, finish_ind, timed_out, lock, args,
                   result, worker, socket, op, calls, nextId, myId, ret>>

\* join, the rest: clear the event, then raise RCConnectionTimeout if the
\* thread timed out.  Out of finish(), the exception leaves disconnect().
JoinClear(a) ==
    /\ pc[a] \in {"clear", "fclear"}
    /\ finished' = FALSE
    /\ IF pc[a] = "clear"
         THEN /\ pc' = [pc EXCEPT ![a] = IF timed_out THEN "raised" ELSE "end"]
              /\ UNCHANGED ret
         ELSE /\ pc' = [pc EXCEPT ![a] = IF timed_out THEN "idle" ELSE "wnone"]
              /\ ret' = IF timed_out THEN [ret EXCEPT ![a] = Failed("timeout")] ELSE ret
    /\ UNCHANGED <<tpc, start_signal, finish_ind, timed_out, lock, args, result, worker,
                   socket, op, calls, nextId, myId>>

\* submit after the join: clear the args, read self.result, release the
\* lock.  A send returns the result; disconnect goes on to shutdown().
SubmitEnd(a) ==
    /\ pc[a] = "end"
    /\ args' = NoJob /\ lock' = NoActor
    /\ ret' = [ret EXCEPT ![a] = Returned(result)]
    /\ pc' = [pc EXCEPT ![a] = IF op[a] = "send" THEN "idle" ELSE "shutdown"]
    /\ UNCHANGED <<tpc, start_signal, finished, finish_ind, timed_out, result, worker,
                   socket, op, calls, nextId, myId>>

\* The join raised: `finally` releases the lock (self.args stays set).  A
\* send raises to the user; disconnect catches it and goes on.
SubmitRaise(a) ==
    /\ pc[a] = "raised"
    /\ lock' = NoActor
    /\ ret' = [ret EXCEPT ![a] = Failed("timeout")]
    /\ pc' = [pc EXCEPT ![a] = IF op[a] = "send" THEN "idle" ELSE "shutdown"]
    /\ UNCHANGED <<tpc, start_signal, finished, finish_ind, timed_out, args, result,
                   worker, socket, op, calls, nextId, myId>>

-----------------------------------------------------------------------------
(* ZmqCommunicator.disconnect after its submit, and ReusableThread.finish. *)

\* `self.worker.shutdown()`: AttributeError if another disconnect already set
\* the worker to None; finish() does nothing if the indicator is set.
Shutdown(a) ==
    /\ pc[a] = "shutdown"
    /\ pc' = [pc EXCEPT ![a] = CASE ~worker    -> "idle"
                                 [] finish_ind -> "wnone"
                                 [] OTHER      -> "fset"]
    /\ ret' = IF worker THEN ret ELSE [ret EXCEPT ![a] = Failed("error")]
    /\ UNCHANGED <<tpc, start_signal, finished, finish_ind, timed_out, lock, args,
                   result, worker, socket, op, calls, nextId, myId>>

\* finish: set the indicator and restart() the thread, then join.
FinishSet(a) ==
    /\ pc[a] = "fset"
    /\ finish_ind' = TRUE /\ start_signal' = TRUE
    /\ pc' = [pc EXCEPT ![a] = "fjoin"]
    /\ UNCHANGED <<tpc, finished, timed_out, lock, args, result, worker, socket, op,
                   calls, nextId, myId, ret>>

\* `self.worker = None`.
WorkerNone(a) ==
    /\ pc[a] = "wnone"
    /\ worker' = FALSE
    /\ pc' = [pc EXCEPT ![a] = "idle"]
    /\ UNCHANGED <<tpc, start_signal, finished, finish_ind, timed_out, lock, args,
                   result, socket, op, calls, nextId, myId, ret>>

-----------------------------------------------------------------------------
(* ReusableThread.run. *)

\* `self._start_signal.wait()` and `clear()`.
TWait ==
    /\ tpc = "wait" /\ start_signal
    /\ start_signal' = FALSE /\ tpc' = "check"
    /\ UNCHANGED <<finished, finish_ind, timed_out, result, socket>>

\* The finish indicator: set the finished event and return.
TCheck ==
    /\ tpc = "check"
    /\ IF finish_ind THEN tpc' = "dead" /\ finished' = TRUE
                     ELSE tpc' = "call" /\ UNCHANGED finished
    /\ UNCHANGED <<start_signal, finish_ind, timed_out, result, socket>>

\* _send's socket.send: on a socket that _disconnect set to None it raises
\* AttributeError, which ends run() without setting the finished event.
RunSend ==
    /\ tpc' = IF socket THEN "recv" ELSE "dead"
    /\ UNCHANGED <<finished, result, socket>>

\* _disconnect: close the socket, destroy the context; returns None.
RunDisconnect ==
    /\ socket' = FALSE /\ result' = 0
    /\ finished' = TRUE /\ tpc' = "wait"

\* OwnThreadWorker._run, called by run(): returns at once when self.args is
\* None, otherwise calls the submitted function and stores self.result.
TCall ==
    /\ tpc = "call"
    /\ CASE args = NoJob         -> finished' = TRUE /\ tpc' = "wait"
                                    /\ UNCHANGED <<result, socket>>
         [] args.op = "send"     -> RunSend
         [] OTHER                -> RunDisconnect
    /\ UNCHANGED <<start_signal, finish_ind, timed_out>>

\* run()'s `except RCConnectionTimeout`: timed out, finished, and the
\* finish indicator set; the thread ends.
TimedOut ==
    /\ timed_out' = TRUE /\ finished' = TRUE /\ finish_ind' = TRUE
    /\ tpc' = "dead"

\* Mutant: the except clause does not set the finished event.
TRecvNoFinished ==
    /\ tpc = "recv"
    /\ \/ /\ result' = args.id /\ finished' = TRUE /\ tpc' = "wait"
          /\ UNCHANGED <<finish_ind, timed_out>>
       \/ /\ timed_out' = TRUE /\ finish_ind' = TRUE
          /\ tpc' = "dead" /\ UNCHANGED <<result, finished>>
    /\ UNCHANGED <<start_signal, socket>>

\* _receive: the reply to the request arrives within the polling loop, or
\* RCConnectionTimeout, which run() turns into timed out, finished, done.
TRecv ==
    /\ tpc = "recv"
    /\ \/ /\ result' = args.id /\ finished' = TRUE /\ tpc' = "wait"
          /\ UNCHANGED <<finish_ind, timed_out>>
       \/ TimedOut /\ UNCHANGED result
    /\ UNCHANGED <<start_signal, socket>>

ThreadStep ==
    /\ TWait \/ TCheck \/ TCall \/ TRecv
    /\ UNCHANGED <<lock, args, worker, pc, op, calls, nextId, myId, ret>>

-----------------------------------------------------------------------------
(* The callers. *)

\* RemoteControl._send -> ZmqCommunicator.send -> worker.submit(_send):
\* AttributeError when a disconnect has set the worker to None.  Callers
\* stop once the object is being finalized.
CallSend(c) ==
    /\ pc[c] = "idle" /\ calls[c] < MaxCalls /\ calls[Fin] = 0
    /\ calls' = [calls EXCEPT ![c] = @ + 1]
    /\ op' = [op EXCEPT ![c] = "send"]
    /\ IF worker THEN pc' = [pc EXCEPT ![c] = "acquire"] /\ ret' = [ret EXCEPT ![c] = Failed("none")]
                 ELSE ret' = [ret EXCEPT ![c] = Failed("error")] /\ UNCHANGED pc
    /\ UNCHANGED <<tpc, start_signal, finished, finish_ind, timed_out, lock, args,
                   result, worker, socket, nextId, myId>>

\* ZmqCommunicator.disconnect: nothing when self.socket is None, else submit
\* _disconnect.  Fin runs it once no caller is inside a call.
Disconnect(a) ==
    /\ pc[a] = "idle"
    /\ \/ a = Fin /\ calls[Fin] = 0 /\ \A c \in Callers : pc[c] = "idle"
       \/ a \in Callers /\ ExplicitDisconnect /\ calls[a] < MaxCalls /\ calls[Fin] = 0
    /\ calls' = [calls EXCEPT ![a] = @ + 1]
    /\ op' = [op EXCEPT ![a] = "disconnect"]
    /\ ret' = [ret EXCEPT ![a] = Failed("none")]
    /\ pc' = IF socket THEN [pc EXCEPT ![a] = "acquire"] ELSE pc
    /\ UNCHANGED <<tpc, start_signal, finished, finish_ind, timed_out, lock, args,
                   result, worker, socket, nextId, myId>>

ActorStep(a) ==
    \/ Acquire(a) \/ JoinCheck(a) \/ JoinWait(a) \/ JoinClear(a) \/ SubmitEnd(a) \/ SubmitRaise(a)
    \/ Shutdown(a) \/ FinishSet(a) \/ WorkerNone(a)

Next ==
    \/ ThreadStep
    \/ \E a \in Actors : ActorStep(a) \/ Disconnect(a)
    \/ \E c \in Callers : CallSend(c)

\* The worker thread and every caller inside a call are OS threads that run
\* when runnable; _receive's polling loop always ends.  When callers call is
\* their own choice.
Spec == Init /\ [][Next]_vars /\ WF_vars(ThreadStep)
                /\ \A a \in Actors : WF_vars(ActorStep(a))

-----------------------------------------------------------------------------
(* Properties. *)

\* RemoteControl with own_thread is documented as thread safe: a send
\* that returns gives the reply to its own request, never the result of
\* another caller's job or a stale self.result from an earlier run.
SubmitReturnsOwnResult ==
    \A c \in Callers : op[c] = "send" /\ ret[c].k = "result" => ret[c].v = myId[c]

\* Every call into the communicator returns or raises: no caller blocks
\* for ever in join(), whether the thread replies, times out or is told to
\* finish.
CallsComplete == \A a \in Actors : (pc[a] # "idle") ~> (pc[a] = "idle")
=============================================================================
