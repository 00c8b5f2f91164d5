----------------------------- MODULE Lifecycle -----------------------------
(***************************************************************************)
(* Starting and stopping a Runtime (btstack-core/src/runtime.rs): the      *)
(* process-wide ACTIVE flag that guards BTstack's global state, the worker *)
(* thread from rs_init to rs_deinit, the ready handshake of start(), and   *)
(* shutdown() from an application thread, from a callback on the worker    *)
(* itself, and by dropping the Runtime there.  Each start that gets past   *)
(* ACTIVE makes a new runtime, numbered in order.                          *)
(***************************************************************************)
EXTENDS Integers, FiniteSets

CONSTANTS
    Threads,     \* application threads
    MaxStarts    \* bound: starts that get past ACTIVE

ASSUME LifecycleAssumption == MaxStarts \in Nat

VARIABLES
    ACTIVE,       \* the flag
    app,          \* what each application thread is doing
    rt,           \* the runtime it started last, 0 before the first
    nextRuntime,  \* number of the next runtime
    worker,       \* the phase of each runtime's worker thread
    result,       \* how run() and stop_controller() ended, so far
    ready,        \* the ready message was sent
    stopQueued,   \* a Stop is in the command channel
    dropped,      \* the Runtime was dropped on its own worker
    initialised,  \* runtimes between rs_init and rs_deinit
    transport,    \* runtimes whose worker holds its HCI transport
    powered,      \* runtimes whose controller may be on
    errorEvent    \* runtimes whose application was sent Error

workerVars == <<ACTIVE, worker, result, ready, initialised, transport, powered, errorEvent>>
vars == <<workerVars, app, rt, nextRuntime, stopQueued, dropped>>

Runtimes == 1 .. MaxStarts

TypeOK ==
    /\ ACTIVE \in BOOLEAN
    /\ app \in [Threads -> {"idle", "spawning", "starting", "giving_up", "running", "joining"}]
    /\ rt \in [Threads -> 0 .. MaxStarts]
    /\ nextRuntime \in 1 .. MaxStarts + 1
    /\ worker \in [Runtimes -> {"none", "setup", "startup", "serving", "stopping", "deinit",
                                "cleanup", "cleaned", "ended"}]
    /\ result \in [Runtimes -> {"none", "ok", "error"}]
    /\ ready \in [Runtimes -> BOOLEAN] /\ stopQueued \in [Runtimes -> BOOLEAN]
    /\ dropped \in [Runtimes -> BOOLEAN]
    /\ initialised \subseteq Runtimes /\ transport \subseteq Runtimes
    /\ powered \subseteq Runtimes /\ errorEvent \subseteq Runtimes

Init ==
    /\ ACTIVE = FALSE
    /\ app = [t \in Threads |-> "idle"] /\ rt = [t \in Threads |-> 0]
    /\ nextRuntime = 1
    /\ worker = [r \in Runtimes |-> "none"] /\ result = [r \in Runtimes |-> "none"]
    /\ ready = [r \in Runtimes |-> FALSE] /\ stopQueued = [r \in Runtimes |-> FALSE]
    /\ dropped = [r \in Runtimes |-> FALSE]
    /\ initialised = {} /\ transport = {} /\ powered = {} /\ errorEvent = {}

-----------------------------------------------------------------------------
(* start() on an application thread *)

\* Fault: the flag is not tested.
NotExchanged == TRUE

Reservable == ~ACTIVE

\* compare_exchange; when it fails start() returns an error and drops the
\* transport, and nothing else changes.
Reserve(t) ==
    /\ app[t] = "idle" /\ Reservable /\ nextRuntime <= MaxStarts
    /\ ACTIVE' = TRUE
    /\ app' = [app EXCEPT ![t] = "spawning"]
    /\ rt' = [rt EXCEPT ![t] = nextRuntime]
    /\ nextRuntime' = nextRuntime + 1
    /\ UNCHANGED <<worker, result, ready, initialised, transport, powered, errorEvent,
                   stopQueued, dropped>>

Spawn(t) ==
    /\ app[t] = "spawning"
    /\ app' = [app EXCEPT ![t] = "starting"]
    /\ worker' = [worker EXCEPT ![rt[t]] = "setup"]
    /\ transport' = transport \cup {rt[t]}
    /\ UNCHANGED <<ACTIVE, rt, nextRuntime, result, ready, initialised, powered, errorEvent,
                   stopQueued, dropped>>

SpawnFails(t) ==
    /\ app[t] = "spawning"
    /\ ACTIVE' = FALSE
    /\ app' = [app EXCEPT ![t] = "idle"]
    /\ worker' = [worker EXCEPT ![rt[t]] = "ended"]
    /\ UNCHANGED <<rt, nextRuntime, result, ready, initialised, transport, powered, errorEvent,
                   stopQueued, dropped>>

\* The ready message arrives within 25 seconds.
StartOk(t) ==
    /\ app[t] = "starting" /\ ready[rt[t]]
    /\ app' = [app EXCEPT ![t] = "running"]
    /\ UNCHANGED <<workerVars, rt, nextRuntime, stopQueued, dropped>>

\* It does not, or the worker left run() without sending it: shut down.
StartGivesUp(t) ==
    /\ app[t] = "starting" /\ ~ready[rt[t]]
    /\ app' = [app EXCEPT ![t] = "giving_up"]
    /\ stopQueued' = [stopQueued EXCEPT ![rt[t]] = TRUE]
    /\ UNCHANGED <<workerVars, rt, nextRuntime, dropped>>

-----------------------------------------------------------------------------
(* shutdown() *)

Shutdown(t) ==
    /\ app[t] = "running"
    /\ app' = [app EXCEPT ![t] = "joining"]
    /\ stopQueued' = [stopQueued EXCEPT ![rt[t]] = TRUE]
    /\ UNCHANGED <<workerVars, rt, nextRuntime, dropped>>

\* Fault: the thread is not joined.
NoJoin(r) == TRUE

Joined(r) == worker[r] = "ended"

JoinReturns(t) ==
    /\ app[t] \in {"joining", "giving_up"} /\ Joined(rt[t])
    /\ app' = [app EXCEPT ![t] = "idle"]
    /\ UNCHANGED <<workerVars, rt, nextRuntime, stopQueued, dropped>>

InCallback(r) == worker[r] \in {"startup", "serving", "stopping"}

\* On the worker itself shutdown() only tries to queue a Stop, which fails
\* when the channel is full, and returns an error.
CallbackShutdown(t) ==
    /\ app[t] = "running" /\ InCallback(rt[t])
    /\ stopQueued' = [stopQueued EXCEPT ![rt[t]] = TRUE]
    /\ UNCHANGED <<workerVars, app, rt, nextRuntime, dropped>>

\* Dropping the Runtime there also detaches the thread and closes the channel.
CallbackDrop(t) ==
    /\ app[t] = "running" /\ InCallback(rt[t])
    /\ dropped' = [dropped EXCEPT ![rt[t]] = TRUE]
    /\ \E queued \in BOOLEAN : stopQueued' = [stopQueued EXCEPT ![rt[t]] = @ \/ queued]
    /\ app' = [app EXCEPT ![t] = "idle"]
    /\ UNCHANGED <<workerVars, rt, nextRuntime>>

-----------------------------------------------------------------------------
(* The worker thread *)

Setup(r) ==
    /\ worker[r] = "setup"
    /\ worker' = [worker EXCEPT ![r] = "startup"]
    /\ initialised' = initialised \cup {r}
    /\ powered' = powered \cup {r}
    /\ UNCHANGED <<ACTIVE, app, rt, nextRuntime, result, ready, transport, errorEvent,
                   stopQueued, dropped>>

\* LE Set Advertising Enable completes with status 0.
AdvertisingEnabled(r) ==
    /\ worker[r] = "startup"
    /\ worker' = [worker EXCEPT ![r] = "serving"]
    /\ ready' = [ready EXCEPT ![r] = TRUE]
    /\ UNCHANGED <<ACTIVE, app, rt, nextRuntime, result, initialised, transport, powered,
                   errorEvent, stopQueued, dropped>>

LeaveRun(r, how) ==
    /\ worker[r] \in {"startup", "serving"}
    /\ worker' = [worker EXCEPT ![r] = "stopping"]
    /\ result' = [result EXCEPT ![r] = how]
    /\ UNCHANGED <<ACTIVE, app, rt, nextRuntime, ready, initialised, transport, powered,
                   errorEvent, stopQueued, dropped>>

\* rs_start fails, a command or the transport fails, a callback panics, or
\* advertising is not on after 20 seconds.
RunFails(r) == LeaveRun(r, "error")

\* Fault: the closed channel does not end run().
OnlyStop(r) == stopQueued[r]

ToldToStop(r) == stopQueued[r] \/ dropped[r]

TakeStop(r) == ToldToStop(r) /\ LeaveRun(r, "ok")

\* Fault: the result of stop_controller() is dropped.
RunAlone(run, stop) == run

\* Result::and
Both(run, stop) == IF run = "ok" THEN stop ELSE run

Tell(r) == errorEvent' = IF result'[r] = "error" THEN errorEvent \cup {r} ELSE errorEvent

\* stop_controller() ends with the controller off, or fails: three seconds
\* are over, the transport fails, or it panics.
StopController(r) ==
    /\ worker[r] = "stopping"
    /\ worker' = [worker EXCEPT ![r] = "deinit"]
    /\ \E stop \in {"ok", "error"} :
         /\ result' = [result EXCEPT ![r] = Both(@, stop)]
         /\ powered' = IF stop = "ok" THEN powered \ {r} ELSE powered
    /\ Tell(r)
    /\ UNCHANGED <<ACTIVE, app, rt, nextRuntime, ready, initialised, transport,
                   stopQueued, dropped>>

Deinit(r) ==
    /\ worker[r] = "deinit"
    /\ worker' = [worker EXCEPT ![r] = "cleanup"]
    /\ initialised' = initialised \ {r}
    /\ UNCHANGED <<ACTIVE, app, rt, nextRuntime, result, ready, transport, powered, errorEvent,
                   stopQueued, dropped>>

\* STATE and TRANSPORT are set to None, which drops the transport.
DropTransport(r) ==
    /\ worker[r] = "cleanup"
    /\ worker' = [worker EXCEPT ![r] = "cleaned"]
    /\ transport' = transport \ {r}
    /\ UNCHANGED <<ACTIVE, app, rt, nextRuntime, result, ready, initialised, powered, errorEvent,
                   stopQueued, dropped>>

GuardDropsIn == {"cleaned"}

\* ActiveGuard is the last local to be dropped.
ReleaseActive(r) ==
    /\ worker[r] \in GuardDropsIn
    /\ ACTIVE' = FALSE
    /\ worker' = [worker EXCEPT ![r] = "ended"]
    /\ UNCHANGED <<app, rt, nextRuntime, result, ready, initialised, transport, powered,
                   errorEvent, stopQueued, dropped>>

-----------------------------------------------------------------------------
Worker(r) ==
    \/ Setup(r) \/ AdvertisingEnabled(r) \/ TakeStop(r) \/ StopController(r) \/ Deinit(r)
    \/ DropTransport(r) \/ ReleaseActive(r)

Starting(t) == Spawn(t) \/ SpawnFails(t) \/ StartOk(t) \/ StartGivesUp(t) \/ JoinReturns(t)

Next ==
    \/ \E t \in Threads :
         Reserve(t) \/ Starting(t) \/ Shutdown(t) \/ CallbackShutdown(t) \/ CallbackDrop(t)
    \/ \E r \in Runtimes : Worker(r) \/ RunFails(r)

Spec == Init /\ [][Next]_vars

\* Threads run; receives and joins return when they can.  A worker that waits
\* for a silent controller gives up after 20 seconds; one that serves need not
\* fail.
Fairness ==
    /\ \A r \in Runtimes : WF_vars(Worker(r) \/ (worker[r] = "startup" /\ RunFails(r)))
    /\ \A t \in Threads : WF_vars(Starting(t))

FairSpec == Spec /\ Fairness

-----------------------------------------------------------------------------
(* Properties *)

\* BTstack's globals have one owner, and whoever finds ACTIVE clear finds no
\* trace of the runtime before: BTstack is deinitialised, the transport
\* dropped, and no worker is on its way.
ExclusiveStack ==
    /\ Cardinality(initialised) <= 1
    /\ ~ACTIVE => initialised = {} /\ transport = {}
                  /\ \A r \in Runtimes : worker[r] \in {"none", "ended"}

\* When start() failed or shutdown() returned on an application thread, the
\* worker is gone and the transport with it, so the caller may close the device.
JoinMeansGone ==
    \A t \in Threads : app[t] = "idle" /\ rt[t] # 0 /\ ~dropped[rt[t]]
        => worker[rt[t]] = "ended" /\ rt[t] \notin transport

\* shutdown() returns Ok only after HCI_STATE_OFF.
OkMeansOff == \A r \in Runtimes : worker[r] = "ended" /\ result[r] = "ok" => r \notin powered

\* A runtime that ended in error, in run() or while stopping, said so in an
\* Error event, which a detached application has nothing else to learn from.
ErrorReported == \A r \in Runtimes : worker[r] = "ended" /\ result[r] = "error" => r \in errorEvent

\* Whoever joins the worker or follows its events is told how it ended.
TruthfulEnd == OkMeansOff /\ ErrorReported

\* start() returns, with a server or with an error.
StartReturns ==
    \A t \in Threads : app[t] \in {"spawning", "starting", "giving_up"}
        ~> app[t] \in {"idle", "running"}

\* A Runtime dropped on its own worker still ends and frees the process for
\* the next start, although its Stop may have been lost.
DropEnds == \A r \in Runtimes : dropped[r] ~> worker[r] = "ended"

\* shutdown() on an application thread returns.
ShutdownReturns == \A t \in Threads : app[t] = "joining" ~> app[t] = "idle"

\* Nobody hangs: whoever starts, drops or shuts down a runtime gets to the end.
NothingHangs == StartReturns /\ DropEnds /\ ShutdownReturns
=============================================================================
