------------------------- MODULE ComponentFramework -------------------------
(***************************************************************************)
(* The component scheduler of MCF (mcf_core/component_framework.py and     *)
(* mcf_core/events.py): the ComponentManager's lifecycle operations, run  *)
(* by the application's main thread, and the thread of each component.    *)
(*                                                                         *)
(* Each component has one trigger handler and one value queue with a      *)
(* handler (Component.ValueHandler): a value received into the queue      *)
(* triggers the handler's ValueReceivedEvent and then the component's     *)
(* trigger Event.  Other threads (another component, a cyclic thread)     *)
(* may call Component.trigger at any time.                                *)
(*                                                                         *)
(* Components are numbered in registration order, the order in which the  *)
(* manager's dict iterates them.  All are registered (REGISTERED) at the  *)
(* start; register_component itself is not modelled (see the README).     *)
(***************************************************************************)
EXTENDS Naturals, FiniteSets

CONSTANTS
    NumComps,       \* number of registered components
    MaxStarts,      \* bound on ComponentManager.startup calls
    MaxTriggers,    \* bound on Component.trigger calls by other threads
    MaxValues,      \* bound on values received into the components' queues
    MaxFaults       \* bound on handlers that raise

ASSUME /\ NumComps \in Nat \ {0} /\ MaxStarts \in Nat /\ MaxTriggers \in Nat
       /\ MaxValues \in Nat /\ MaxFaults \in Nat

Comps == 1..NumComps
CompStates == {"REGISTERED", "CONFIGURED", "RUNNING"}

VARIABLES
    state,            \* CompMapEntry.state
    thread,           \* Component._thread is not None (is_running)
    startup_request,  \* Component._startup_request
    shutdown_request, \* Component._shutdown_request
    flag,             \* Component._trigger._flag
    received,         \* the ValueHandler's ValueReceivedEvent._flag
    cpc,              \* the component thread, see ThreadSteps
    mpc,              \* the main thread inside the manager: idle | starting | stop | join
    started,          \* ComponentManager.startup's components_started
    stopping,         \* ComponentManager.shutdown's components still to stop
    srcpc,            \* a ValueQueue.receive in progress: between its two triggers
    owed,             \* history: a trigger came while running, no trigger handler ran since
    valueOwed,        \* history: a value came while running, the value handler did not run since
    starts, triggers, values, faults   \* counters for the bounds

ThreadSteps == {"none", "startup", "loop", "wait", "woken", "handlers", "vcheck",
                "vhandle", "finally"}

vars == <<state, thread, startup_request, shutdown_request, flag, received, cpc, mpc,
          started, stopping, srcpc, owed, valueOwed, starts, triggers,
          values, faults>>

TypeOK ==
    /\ state \in [Comps -> CompStates] /\ thread \in [Comps -> BOOLEAN]
    /\ startup_request \in [Comps -> BOOLEAN] /\ shutdown_request \in [Comps -> BOOLEAN]
    /\ flag \in [Comps -> BOOLEAN] /\ received \in [Comps -> BOOLEAN]
    /\ cpc \in [Comps -> ThreadSteps]
    /\ mpc \in {"idle", "starting", "stop", "join"}
    /\ started \subseteq Comps /\ stopping \subseteq Comps
    /\ srcpc \in [Comps -> {"idle", "mid"}]
    /\ owed \in [Comps -> BOOLEAN] /\ valueOwed \in [Comps -> BOOLEAN]
    /\ starts \in 0..MaxStarts /\ triggers \in 0..MaxTriggers
    /\ values \in 0..MaxValues /\ faults \in 0..MaxFaults
    \* a live thread is the one _thread refers to
    /\ \A c \in Comps : cpc[c] # "none" => thread[c]

\* Component.__init__ (no thread, Events cleared) and register_component.
Init ==
    /\ state = [c \in Comps |-> "REGISTERED"] /\ thread = [c \in Comps |-> FALSE]
    /\ startup_request = [c \in Comps |-> FALSE] /\ shutdown_request = [c \in Comps |-> FALSE]
    /\ flag = [c \in Comps |-> FALSE] /\ received = [c \in Comps |-> FALSE]
    /\ cpc = [c \in Comps |-> "none"]
    /\ mpc = "idle" /\ started = {} /\ stopping = {}
    /\ srcpc = [c \in Comps |-> "idle"]
    /\ owed = [c \in Comps |-> FALSE] /\ valueOwed = [c \in Comps |-> FALSE]
    /\ starts = 0 /\ triggers = 0 /\ values = 0 /\ faults = 0

\* The thread of c runs its loop and has not been asked to stop.
Serving(c) == thread[c] /\ startup_request[c] /\ ~shutdown_request[c]

(***************************************************************************)
(* Event.trigger (events.py): set the flag and wake a thread blocked in   *)
(* wait_and_clear.  The component's trigger Event is never expired.      *)
(***************************************************************************)
\* Mutant: the flag is set but the waiting thread is not notified.
TriggerEventNoNotify(c) ==
    /\ flag' = [flag EXCEPT ![c] = TRUE]
    /\ UNCHANGED cpc

TriggerEvent(c) ==
    /\ flag' = [flag EXCEPT ![c] = TRUE]
    /\ cpc' = IF cpc[c] = "wait" THEN [cpc EXCEPT ![c] = "woken"] ELSE cpc

\* History: a trigger that comes while the component serves is owed a run
\* of its trigger handler.
Owe(c) == owed' = IF Serving(c) THEN [owed EXCEPT ![c] = TRUE] ELSE owed


-----------------------------------------------------------------------------
(* The main thread's calls of the ComponentManager, each under its _lock. *)

\* ComponentManager.configure with Component.ctrl_configure: a REGISTERED
\* component is never running, so ctrl_configure does not return early.
Configure ==
    /\ mpc = "idle"
    /\ \E c \in Comps : state[c] = "REGISTERED"
    /\ state' = [c \in Comps |-> IF state[c] = "REGISTERED" THEN "CONFIGURED" ELSE state[c]]
    /\ UNCHANGED <<thread, startup_request, shutdown_request, flag, received, cpc, mpc,
                   started, stopping, srcpc, owed, valueOwed, starts,
                   triggers, values, faults>>

\* ComponentManager.startup, first loop: ctrl_start for every CONFIGURED
\* component (a new thread, both requests cleared; the trigger flag is left
\* as it is).  The is_running poll that follows passes at once, since
\* ctrl_start sets _thread before it returns.
\* Component.ctrl_start for each component of cs: one that is running only
\* logs an error; the others get a new thread, both requests are cleared
\* and the thread starts.
CtrlStart(cs) ==
    LET fresh == {c \in cs : ~thread[c]} IN
      /\ thread' = [c \in Comps |-> thread[c] \/ c \in fresh]
      /\ cpc' = [c \in Comps |-> IF c \in fresh THEN "startup" ELSE cpc[c]]
      /\ startup_request' = [c \in Comps |-> startup_request[c] /\ c \notin fresh]
      /\ shutdown_request' = [c \in Comps |-> shutdown_request[c] /\ c \notin fresh]
      \* history: what the previous thread owed ended with its shutdown request
      /\ owed' = [c \in Comps |-> owed[c] /\ c \notin fresh]
      /\ valueOwed' = [c \in Comps |-> valueOwed[c] /\ c \notin fresh]

StartupStart ==
    /\ mpc = "idle" /\ starts < MaxStarts
    /\ LET cs == {c \in Comps : state[c] = "CONFIGURED"}
       IN /\ started' = cs
          /\ CtrlStart(cs)
    /\ mpc' = "starting" /\ starts' = starts + 1
    /\ UNCHANGED <<state, flag, received, stopping, srcpc,
                   triggers, values, faults>>

\* ComponentManager.startup, last loop, one component per step in dict
\* order: ctrl_run sets its _startup_request, then its entry becomes
\* RUNNING (the state is read only by the manager's own thread).  No
\* trigger is fired.  The components after it are not yet requested to run.
NextToRun == CHOOSE c \in started : \A d \in started : c <= d

StartupRun ==
    /\ mpc = "starting" /\ started # {}
    /\ LET c == NextToRun IN
         /\ startup_request' = [startup_request EXCEPT ![c] = TRUE]
         /\ state' = [state EXCEPT ![c] = "RUNNING"]
         /\ started' = started \ {c}
    /\ UNCHANGED <<mpc, thread, shutdown_request, flag, received, cpc, stopping, srcpc, owed,
                   valueOwed, starts, triggers, values, faults>>

\* The loop has run for every started component: startup returns.
StartupDone ==
    /\ mpc = "starting" /\ started = {}
    /\ mpc' = "idle"
    /\ UNCHANGED <<state, thread, startup_request, shutdown_request, flag, received, cpc,
                   started, stopping, srcpc, owed, valueOwed, starts, triggers, values,
                   faults>>

\* ComponentManager.shutdown: the components to stop are the RUNNING ones
\* (with none, the call changes nothing).
ShutdownBegin ==
    /\ mpc = "idle"
    /\ \E c \in Comps : state[c] = "RUNNING"
    /\ stopping' = {c \in Comps : state[c] = "RUNNING"}
    /\ mpc' = "stop"
    /\ UNCHANGED <<state, thread, startup_request, shutdown_request, flag, received, cpc,
                   started, srcpc, owed, valueOwed, starts, triggers,
                   values, faults>>

\* The component ComponentManager.shutdown stops next, in dict order.
NextToStop == CHOOSE c \in stopping : \A d \in stopping : c <= d

\* Mutant: ctrl_stop without self._trigger.trigger().
StopRequestNoTrigger ==
    /\ mpc = "stop"
    /\ LET c == NextToStop IN
         /\ shutdown_request' = [shutdown_request EXCEPT ![c] = TRUE]
         /\ UNCHANGED <<flag, cpc>>
    /\ mpc' = "join"
    /\ UNCHANGED <<state, thread, startup_request, received, started, stopping, srcpc,
                   owed, valueOwed, starts, triggers, values, faults>>

\* Component.ctrl_stop, first half: request shutdown and trigger.
StopRequest ==
    /\ mpc = "stop"
    /\ LET c == NextToStop IN
         /\ thread[c]
         /\ shutdown_request' = [shutdown_request EXCEPT ![c] = TRUE]
         /\ TriggerEvent(c)
    /\ mpc' = "join"
    /\ UNCHANGED <<state, thread, startup_request, received, started, stopping, srcpc,
                   owed, valueOwed, starts, triggers, values, faults>>

\* Mutant: the manager does not wait for the thread to end.
StopJoinNoWait ==
    /\ mpc = "join"
    /\ LET c == NextToStop IN
         /\ thread' = [thread EXCEPT ![c] = FALSE]
         /\ stopping' = stopping \ {c}
         /\ IF stopping' = {}
              THEN /\ mpc' = "idle"
                   /\ state' = [d \in Comps |-> IF state[d] = "RUNNING" THEN "CONFIGURED" ELSE state[d]]
              ELSE /\ mpc' = "stop" /\ UNCHANGED state
    /\ UNCHANGED <<startup_request, shutdown_request, flag, received, cpc, started, srcpc,
                   owed, valueOwed, starts, triggers, values, faults>>

\* Component.ctrl_stop, second half: the join returns once the thread has
\* ended, then _thread = None.  When the last one is stopped, the
\* is_running poll passes and all of them become CONFIGURED.
StopJoin ==
    /\ mpc = "join"
    /\ LET c == NextToStop IN
         /\ cpc[c] = "none"
         /\ thread' = [thread EXCEPT ![c] = FALSE]
         /\ stopping' = stopping \ {c}
         /\ IF stopping' = {}
              THEN /\ mpc' = "idle"
                   /\ state' = [d \in Comps |-> IF state[d] = "RUNNING" THEN "CONFIGURED" ELSE state[d]]
              ELSE /\ mpc' = "stop" /\ UNCHANGED state
    /\ UNCHANGED <<startup_request, shutdown_request, flag, received, cpc, started, srcpc,
                   owed, valueOwed, starts, triggers, values, faults>>

-----------------------------------------------------------------------------
(***************************************************************************)
(* Component._thread_main, one step per thread of component c.            *)
(***************************************************************************)

\* self.startup(), then poll until a run or a shutdown request.
ThreadBegin(c) ==
    /\ cpc[c] = "startup" /\ (startup_request[c] \/ shutdown_request[c])
    /\ cpc' = [cpc EXCEPT ![c] = "loop"]
    /\ UNCHANGED <<state, thread, startup_request, shutdown_request, flag, received, mpc,
                   started, stopping, srcpc, owed, valueOwed, starts,
                   triggers, values, faults>>

\* `while not self.shutdown_request` and Event.wait_and_clear: under the
\* condition's lock, a set flag is cleared at once, else the thread waits.
ThreadLoop(c) ==
    /\ cpc[c] = "loop"
    /\ IF shutdown_request[c]
         THEN cpc' = [cpc EXCEPT ![c] = "finally"] /\ UNCHANGED flag
         ELSE IF flag[c]
                THEN /\ flag' = [flag EXCEPT ![c] = FALSE]
                     /\ cpc' = [cpc EXCEPT ![c] = "handlers"]
                ELSE cpc' = [cpc EXCEPT ![c] = "wait"] /\ UNCHANGED flag
    /\ UNCHANGED <<state, thread, startup_request, shutdown_request, received, mpc,
                   started, stopping, srcpc, owed, valueOwed, starts,
                   triggers, values, faults>>

\* Event.wait_and_clear, after notify_all: reacquire the lock, clear the flag.
ThreadWake(c) ==
    /\ cpc[c] = "woken"
    /\ flag' = [flag EXCEPT ![c] = FALSE]
    /\ cpc' = [cpc EXCEPT ![c] = "handlers"]
    /\ UNCHANGED <<state, thread, startup_request, shutdown_request, received, mpc,
                   started, stopping, srcpc, owed, valueOwed, starts,
                   triggers, values, faults>>

\* The trigger handler, called if no shutdown is requested, returns.
TriggerHandler(c) ==
    /\ cpc[c] = "handlers"
    /\ cpc' = [cpc EXCEPT ![c] = "vcheck"]
    /\ IF shutdown_request[c]
         THEN UNCHANGED owed
         ELSE owed' = [owed EXCEPT ![c] = FALSE]
    /\ UNCHANGED <<state, thread, startup_request, shutdown_request, flag, received, mpc,
                   started, stopping, srcpc, valueOwed, starts, triggers, values, faults>>

\* `if (not self.shutdown_request) and vhandler.active`: clear the
\* ValueReceivedEvent, then call the handler; otherwise back to the loop.
ValueCheck(c) ==
    /\ cpc[c] = "vcheck"
    /\ IF ~shutdown_request[c] /\ received[c]
         THEN /\ received' = [received EXCEPT ![c] = FALSE]
              /\ cpc' = [cpc EXCEPT ![c] = "vhandle"]
              /\ valueOwed' = [valueOwed EXCEPT ![c] = FALSE]
         ELSE cpc' = [cpc EXCEPT ![c] = "loop"] /\ UNCHANGED <<received, valueOwed>>
    /\ UNCHANGED <<state, thread, startup_request, shutdown_request, flag, mpc, started,
                   stopping, srcpc, owed, starts, triggers, values, faults>>

\* Mutant: the ValueReceivedEvent is cleared when the handler returns.
ValueHandleClears(c) ==
    /\ cpc[c] = "vhandle"
    /\ cpc' = [cpc EXCEPT ![c] = "loop"]
    /\ received' = [received EXCEPT ![c] = FALSE]
    /\ UNCHANGED <<state, thread, startup_request, shutdown_request, flag, mpc,
                   started, stopping, srcpc, owed, valueOwed, starts,
                   triggers, values, faults>>

\* The value handler returns.
ValueHandle(c) ==
    /\ cpc[c] = "vhandle"
    /\ cpc' = [cpc EXCEPT ![c] = "loop"]
    /\ UNCHANGED <<state, thread, startup_request, shutdown_request, flag, received, mpc,
                   started, stopping, srcpc, owed, valueOwed, starts,
                   triggers, values, faults>>

\* A trigger or value handler raises: the `except` clause calls abort().
HandlerRaises(c) ==
    /\ cpc[c] \in {"handlers", "vhandle"} /\ ~shutdown_request[c] /\ faults < MaxFaults
    /\ shutdown_request' = [shutdown_request EXCEPT ![c] = TRUE]
    /\ flag' = [flag EXCEPT ![c] = TRUE]
    /\ cpc' = [cpc EXCEPT ![c] = "finally"]
    /\ faults' = faults + 1
    /\ UNCHANGED <<state, thread, startup_request, received, mpc, started, stopping, srcpc,
                   owed, valueOwed, starts, triggers, values>>

\* The `finally` clause runs self.shutdown(); the thread ends.  _thread
\* stays set until ctrl_stop has joined it.
ThreadExit(c) ==
    /\ cpc[c] = "finally"
    /\ cpc' = [cpc EXCEPT ![c] = "none"]
    /\ UNCHANGED <<state, thread, startup_request, shutdown_request, flag, received, mpc,
                   started, stopping, srcpc, owed, valueOwed, starts,
                   triggers, values, faults>>

-----------------------------------------------------------------------------
(* Other threads. *)

\* Component.trigger, called by another thread.
ExternalTrigger(c) ==
    /\ triggers < MaxTriggers
    /\ TriggerEvent(c) /\ Owe(c)
    /\ triggers' = triggers + 1
    /\ UNCHANGED <<state, thread, startup_request, shutdown_request, received, mpc,
                   started, stopping, srcpc, valueOwed, starts, values,
                   faults>>

\* ValueQueue.receive under the queue's lock: append the value, then
\* EventSource._notify_events triggers the events in the order they were
\* added: first the ValueReceivedEvent (no thread waits on it) ...
ReceiveValue(c) ==
    /\ srcpc[c] = "idle" /\ values < MaxValues
    /\ received' = [received EXCEPT ![c] = TRUE]
    /\ valueOwed' = IF Serving(c) THEN [valueOwed EXCEPT ![c] = TRUE] ELSE valueOwed
    /\ srcpc' = [srcpc EXCEPT ![c] = "mid"]
    /\ values' = values + 1
    /\ UNCHANGED <<state, thread, startup_request, shutdown_request, flag, cpc, mpc,
                   started, stopping, owed, starts, triggers, faults>>

\* Mutant: ValueHandler registers only its ValueReceivedEvent at the queue.
ReceiveTriggerMissing(c) ==
    /\ srcpc[c] = "mid"
    /\ srcpc' = [srcpc EXCEPT ![c] = "idle"]
    /\ UNCHANGED <<state, thread, startup_request, shutdown_request, flag, received, cpc,
                   mpc, started, stopping, owed, valueOwed, starts, triggers,
                   values, faults>>

\* ... then the component's trigger Event.
ReceiveTrigger(c) ==
    /\ srcpc[c] = "mid"
    /\ TriggerEvent(c) /\ Owe(c)
    /\ srcpc' = [srcpc EXCEPT ![c] = "idle"]
    /\ UNCHANGED <<state, thread, startup_request, shutdown_request, received, mpc,
                   started, stopping, valueOwed, starts, triggers, values,
                   faults>>

-----------------------------------------------------------------------------
ThreadStep(c) ==
    \/ ThreadBegin(c) \/ ThreadLoop(c) \/ ThreadWake(c) \/ TriggerHandler(c)
    \/ ValueCheck(c) \/ ValueHandle(c) \/ ThreadExit(c)

Next ==
    \/ Configure \/ StartupStart \/ StartupRun \/ StartupDone
    \/ ShutdownBegin \/ StopRequest \/ StopJoin
    \/ \E c \in Comps : \/ ThreadStep(c) \/ HandlerRaises(c)
                        \/ ExternalTrigger(c) \/ ReceiveValue(c) \/ ReceiveTrigger(c)

\* Threads are scheduled by the OS: a thread that can step eventually does.
\* The main thread finishes a manager call it has begun; when it calls one
\* is the application's choice, and so are triggers, values and faults.
Fairness ==
    /\ WF_vars(StartupRun) /\ WF_vars(StartupDone) /\ WF_vars(StopRequest) /\ WF_vars(StopJoin)
    /\ \A c \in Comps : WF_vars(ThreadStep(c)) /\ WF_vars(ReceiveTrigger(c))

Spec == Init /\ [][Next]_vars /\ Fairness

-----------------------------------------------------------------------------
(* Properties. *)

\* A Component.trigger while the component serves is followed by a run of
\* its trigger handler, unless a shutdown is requested: the single-slot
\* flag of Event.wait_and_clear loses no wake-up.
TriggersServed ==
    \A c \in Comps : owed[c] ~> (~owed[c] \/ shutdown_request[c])

\* A value received into the queue while the component serves is followed
\* by a call of its value handler, unless a shutdown is requested: the
\* ValueReceivedEvent is cleared before the handler runs, not after.
ValuesServed ==
    \A c \in Comps : valueOwed[c] ~> (~valueOwed[c] \/ shutdown_request[c])

\* ComponentManager.shutdown returns: every RUNNING component's thread,
\* blocked in wait_and_clear, in a handler or already ended by abort(),
\* reaches its end, so each ctrl_stop join returns.
ShutdownCompletes == (mpc \in {"stop", "join"}) ~> (mpc = "idle")

=============================================================================
