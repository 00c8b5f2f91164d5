--------------------------- MODULE NativeSession ---------------------------
(***************************************************************************)
(* A whole session of the Android example: the object of NativeServer whose*)
(* worker runs the loop of EventLoop (native/src/android.rs) over the      *)
(* events of the BTstack worker.  Both share the stop flag; what serve()   *)
(* returns is what the loop returns.                                       *)
(***************************************************************************)
EXTENDS NativeServer, Sequences

CONSTANTS Connections, TX, MaxEvents

VARIABLES stream, open, subscribed, over, pc, read, subscribers, toNotify, returned

loopVars == <<stream, open, subscribed, over, pc, read, subscribers, toNotify, returned>>
sessionVars == <<vars, loopVars>>

Loop == INSTANCE EventLoop WITH result <- returned

SessionInit == Init /\ Loop!Init

\* The loop runs from the start of the server to its return.
Looping == worker = "looping" /\ Loop!Loop /\ UNCHANGED vars

\* A panic unwinds through serve(), which drops the server on its way.
PanicsInLoop ==
    /\ pc # "returned"
    /\ Leave("looping", "panic")
    /\ pc' = "drop"
    /\ UNCHANGED <<stream, open, subscribed, over, read, subscribers, toNotify, returned>>

PanicsBefore ==
    /\ Leave("entered", "panic") \/ Leave("opened", "panic")
    /\ UNCHANGED loopVars

Unwinding == worker = "leaving" /\ Loop!DropServer /\ UNCHANGED vars

ReturnFromLoop == pc = "returned" /\ Leave("looping", returned) /\ UNCHANGED loopVars

\* The server is dropped before the descriptor that serve() was given.
ReleaseSession == pc \in {"head", "returned"} /\ Release /\ UNCHANGED loopVars

\* The server's peers and its worker.
Peers == worker = "looping" /\ (Loop!Stream \/ Loop!WorkerFails) /\ UNCHANGED vars

SessionWorker ==
    \/ (NothingToServe \/ OpenUsb \/ StartServer \/ ServeFails \/ Complete \/ Exit) /\ UNCHANGED loopVars
    \/ Looping \/ ReturnFromLoop \/ Unwinding \/ ReleaseSession

Calls(c) == (Stop(c) \/ Run(c) \/ RunCancelled(c) \/ Proceed(c)) /\ UNCHANGED loopVars

SessionNext ==
    \/ SessionWorker \/ Peers \/ PanicsInLoop \/ PanicsBefore
    \/ \E c \in Callers : Calls(c)
    \/ Terminated /\ UNCHANGED loopVars

\* The threads run; start(), notify() and shutdown() have time-outs.
SessionSpec ==
    /\ SessionInit /\ [][SessionNext]_sessionVars
    /\ WF_sessionVars(SessionWorker)
    /\ \A c \in Callers : WF_sessionVars(Proceed(c) /\ UNCHANGED loopVars)

-----------------------------------------------------------------------------
(* Properties *)

\* The session is what NativeServer says of it: the loop returns Ok only after
\* the flag was raised, and once it is raised the loop returns, whatever the
\* peers do and however many values fail.
ServesSession == FairSpec

\* run() reports success only if the server was shut down in order; an Error
\* event, a failed shutdown, a worker that ended unasked and a panic are errors.
RunTellsTheTruth ==
    \A c \in Callers : result[c] = "ok" =>
        served = "ok" /\ \A i \in DOMAIN stream : stream[i].type # "Error"

\* Nobody waits for ever: stop() returns, and run() returns when the worker of
\* the session, or BTstack's worker under it, is over.
CallersReturn ==
    \A c \in Callers :
        /\ caller[c] = "locking" ~> caller[c] = "returned"
        /\ caller[c] = "awaiting" /\ (served # "none" \/ over) ~> caller[c] = "returned"

\* The table of subscribers is right whenever the loop has read everything.
CaughtUp == Loop!CaughtUp

\* Dead subscribers leave the table, or the loop is over.
DeadLeave ==
    \A g \in Connections :
        g \in subscribers /\ g \notin open ~> g \notin subscribers \/ worker # "looping"
=============================================================================
