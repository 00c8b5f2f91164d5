---------------------------- MODULE NativeServer ----------------------------
(***************************************************************************)
(* The UniFFI object of the Android example (native/src/lib.rs): one USB   *)
(* server session with its worker thread, the stop flag, the JoinHandle in *)
(* a mutex, and the oneshot channel run() waits on.  Every thread that has *)
(* a reference may call stop() or run(); dropping the last reference calls *)
(* stop() as well.                                                         *)
(***************************************************************************)
EXTENDS Integers

CONSTANTS
    Callers,   \* threads that call stop() or run(), once each
    Nobody     \* holds the mutex when no caller does

ASSUME NativeAssumption == Nobody \notin Callers

VARIABLES
    stop,        \* the flag serve() polls
    worker,      \* where the gatt-android thread is
    descriptor,  \* the worker owns the duplicated descriptor
    served,      \* how serve() ended
    channel,     \* the oneshot channel
    completion,  \* the receiver has not been taken by run()
    handle,      \* the JoinHandle has not been taken by stop()
    mutex,       \* who holds the lock around the JoinHandle
    caller,      \* what each caller is doing
    result       \* what its run() returns

workerVars == <<worker, descriptor, served, channel>>
callVars == <<stop, completion, handle, mutex, caller, result>>
vars == <<workerVars, callVars>>

TypeOK ==
    /\ stop \in BOOLEAN /\ descriptor \in BOOLEAN
    /\ completion \in BOOLEAN /\ handle \in BOOLEAN
    /\ worker \in {"entered", "opened", "looping", "leaving", "released", "sent", "exited"}
    /\ served \in {"none", "ok", "error", "panic"}
    /\ channel \in {"open", "ok", "error", "closed"}
    /\ mutex \in Callers \cup {Nobody}
    /\ caller \in [Callers -> {"idle", "awaiting", "locking", "joining", "returned", "refused"}]
    /\ result \in [Callers -> {"none", "ok", "error", "cancelled"}]

\* new() has duplicated the descriptor and spawned the worker.
Init ==
    /\ stop = FALSE
    /\ worker = "entered" /\ descriptor = TRUE /\ served = "none" /\ channel = "open"
    /\ completion = TRUE /\ handle = TRUE /\ mutex = Nobody
    /\ caller = [c \in Callers |-> "idle"]
    /\ result = [c \in Callers |-> "none"]

-----------------------------------------------------------------------------
(* The worker: serve(), then the oneshot *)

Move(from, to) == worker = from /\ worker' = to

\* serve() returns or unwinds; what it owns is dropped on the way out.
Leave(from, how) ==
    /\ Move(from, "leaving")
    /\ served' = how
    /\ UNCHANGED <<descriptor, channel, callVars>>

\* The flag was raised before the worker ran.
NothingToServe == stop /\ Leave("entered", "ok")

OpenUsb == ~stop /\ Move("entered", "opened") /\ UNCHANGED <<descriptor, served, channel, callVars>>

StartServer == Move("opened", "looping") /\ UNCHANGED <<descriptor, served, channel, callVars>>

\* from_fd or start() fails.
ServeFails == Leave("entered", "error") \/ Leave("opened", "error")

\* The loop sees the flag and shuts the server down, which may fail.
LoopStops == stop /\ \E how \in {"ok", "error"} : Leave("looping", how)

\* An Error event, or the end of the event channel.
LoopFails == Leave("looping", "error")

Panics == \E from \in {"entered", "opened", "looping"} : Leave(from, "panic")

\* The server and the transport are dropped: BTstack's thread is joined and
\* the descriptor closed before serve() is back in the worker's closure.
Release ==
    /\ Move("leaving", "released")
    /\ descriptor' = FALSE
    /\ UNCHANGED <<served, channel, callVars>>

\* A panic drops the sender without a message.
Message == IF served = "panic" THEN "closed" ELSE served

Complete ==
    /\ Move("released", "sent")
    /\ channel' = Message
    /\ UNCHANGED <<descriptor, served, callVars>>

Exit == Move("sent", "exited") /\ UNCHANGED <<descriptor, served, channel, callVars>>

-----------------------------------------------------------------------------
(* stop() *)

At(c, from, to) == caller[c] = from /\ caller' = [caller EXCEPT ![c] = to]

Stop(c) ==
    /\ At(c, "idle", "locking")
    /\ stop' = TRUE
    /\ UNCHANGED <<workerVars, completion, handle, mutex, result>>

\* Fault: the lock is released before the join.
LockOnlyTakes(c) == mutex' = mutex

\* The lock is kept across the join.
KeepLock(c) == mutex' = c

TakeHandle(c) ==
    /\ mutex = Nobody
    /\ \/ /\ handle
          /\ At(c, "locking", "joining")
          /\ handle' = FALSE
          /\ KeepLock(c)
       \/ /\ ~handle
          /\ At(c, "locking", "returned")
          /\ UNCHANGED <<handle, mutex>>
    /\ UNCHANGED <<workerVars, stop, completion, result>>

ThreadEnded == worker = "exited"

JoinReturns(c) ==
    /\ ThreadEnded
    /\ At(c, "joining", "returned")
    /\ mutex' = Nobody
    /\ UNCHANGED <<workerVars, stop, completion, handle, result>>

-----------------------------------------------------------------------------
(* run() *)

\* The first poll takes the receiver; a second run() is refused.
Run(c) ==
    /\ \/ completion /\ At(c, "idle", "awaiting")
       \/ ~completion /\ At(c, "idle", "refused")
    /\ completion' = FALSE
    /\ UNCHANGED <<workerVars, stop, handle, mutex, result>>

\* Leaving run(), by completion or because its future is dropped, drops the
\* guard, which calls stop().
LeaveRun(c, how) ==
    /\ At(c, "awaiting", "locking")
    /\ result' = [result EXCEPT ![c] = how]
    /\ stop' = TRUE
    /\ UNCHANGED <<workerVars, completion, handle, mutex>>

\* Fault: a closed channel is taken for a clean end.
ClosedIsOk == IF channel = "error" THEN "error" ELSE "ok"

Outcome == IF channel = "ok" THEN "ok" ELSE "error"

RunCompletes(c) == channel # "open" /\ LeaveRun(c, Outcome)

RunCancelled(c) == LeaveRun(c, "cancelled")

-----------------------------------------------------------------------------
Worker ==
    \/ NothingToServe \/ OpenUsb \/ StartServer \/ ServeFails \/ LoopStops
    \/ Release \/ Complete \/ Exit

Proceed(c) == TakeHandle(c) \/ JoinReturns(c) \/ RunCompletes(c)

Terminated == worker = "exited" /\ UNCHANGED vars

Next ==
    \/ Worker \/ LoopFails \/ Panics
    \/ \E c \in Callers : Stop(c) \/ Run(c) \/ RunCancelled(c) \/ Proceed(c)
    \/ Terminated

Spec == Init /\ [][Next]_vars

\* Threads run.  Opening, starting and stopping the server have time-outs, and
\* the loop looks at the flag in every turn; a loop nobody stops need not end.
Fairness == WF_vars(Worker) /\ \A c \in Callers : WF_vars(Proceed(c))

FairSpec == Spec /\ Fairness

-----------------------------------------------------------------------------
(* Properties *)

\* stop() is a barrier for every caller, the one that joins, the ones that find
\* the handle taken, and the guard of a cancelled run(): whoever is back may
\* close the USB connection, since the thread is gone and the descriptor closed.
Barrier == \A c \in Callers : caller[c] = "returned" => worker = "exited" /\ ~descriptor
=============================================================================
