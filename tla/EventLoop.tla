----------------------------- MODULE EventLoop -----------------------------
(***************************************************************************)
(* The loop both examples run over the server (gatt-peripheral/src/main.rs,*)
(* native/src/android.rs): it reads events one by one, keeps the table of  *)
(* subscribers, notifies each of them once a second and stops when the flag*)
(* is raised.  notify() may take three seconds for each subscriber, and the*)
(* stream runs ahead meanwhile.                                            *)
(***************************************************************************)
EXTENDS Integers, Sequences

CONSTANTS
    Connections,   \* generations: what GattConnection::id() returns
    TX,            \* the one characteristic of the examples that notifies
    MaxEvents      \* bound: events before the worker ends

VARIABLES
    stream, open, subscribed, over,   \* what the worker sends
    stop,         \* the flag, or the seconds are over
    pc,           \* where the loop is
    read,         \* events received so far
    subscribers,  \* the table, keyed by connection.id()
    toNotify,     \* what the present round of notify() has ahead
    result        \* what the function returns

Channel == INSTANCE EventStream WITH Characteristics <- {TX}

streamVars == <<stream, open, subscribed, over>>
loopVars == <<pc, read, subscribers, toNotify, result>>
vars == <<streamVars, stop, loopVars>>

TypeOK ==
    /\ Channel!StreamTypeOK
    /\ stop \in BOOLEAN
    /\ pc \in {"head", "receive", "tick", "notify", "shutdown", "drop", "returned"}
    /\ read \in 0 .. Len(stream)
    /\ subscribers \subseteq Connections /\ toNotify \subseteq subscribers
    /\ result \in {"none", "ok", "error"}

Init ==
    /\ Channel!StreamInit
    /\ stop = FALSE /\ pc = "head" /\ read = 0
    /\ subscribers = {} /\ toNotify = {} /\ result = "none"

\* The worker and its peers.
Stream == Len(stream) < MaxEvents /\ ~over /\ Channel!Report /\ UNCHANGED <<stop, loopVars>>

RaiseStop == ~stop /\ stop' = TRUE /\ UNCHANGED <<streamVars, loopVars>>

\* The loop does not count on the Error event.
WorkerFails == (\E reported \in BOOLEAN : Channel!End(reported)) /\ UNCHANGED <<stop, loopVars>>

-----------------------------------------------------------------------------
LoopHead ==
    /\ pc = "head"
    /\ pc' = IF stop THEN "shutdown" ELSE "receive"
    /\ UNCHANGED <<streamVars, stop, read, subscribers, toNotify, result>>

\* Fault: the Disconnected arm only logs.
KeepDead(e) ==
    IF e.type # "SubscriptionChanged" THEN subscribers
    ELSE IF e.enabled THEN subscribers \cup {e.connection} ELSE subscribers \ {e.connection}

Updated(e) ==
    IF e.type = "SubscriptionChanged" /\ e.enabled THEN subscribers \cup {e.connection}
    ELSE IF e.type \in {"SubscriptionChanged", "Disconnected"} THEN subscribers \ {e.connection}
    ELSE subscribers

\* recv_timeout() has an event.
Receive ==
    /\ pc = "receive" /\ read < Len(stream)
    /\ read' = read + 1
    /\ subscribers' = Updated(stream[read + 1])
    /\ IF stream[read + 1].type = "Error" THEN pc' = "drop" /\ result' = "error"
                                          ELSE pc' = "tick" /\ UNCHANGED result
    /\ UNCHANGED <<streamVars, stop, toNotify>>

Timeout ==
    /\ pc = "receive" /\ read = Len(stream) /\ ~over
    /\ pc' = "tick"
    /\ UNCHANGED <<streamVars, stop, read, subscribers, toNotify, result>>

\* Fault: every error of recv_timeout() is taken for a time-out.
Retry == pc' = "tick" /\ UNCHANGED result

GiveUp == pc' = "drop" /\ result' = "error"

ChannelClosed ==
    /\ pc = "receive" /\ read = Len(stream) /\ over
    /\ GiveUp
    /\ UNCHANGED <<streamVars, stop, read, subscribers, toNotify>>

\* A second has passed since the last round, or not.
Tick ==
    /\ pc = "tick"
    /\ \/ pc' = "notify" /\ toNotify' = subscribers
       \/ pc' = "head" /\ UNCHANGED toNotify
    /\ UNCHANGED <<streamVars, stop, read, subscribers, result>>

\* Fault: a value that fails is tried again at once.
Served(g) == IF g \in open THEN {g} ELSE {}

\* An error is logged, and the next subscriber has its turn.
Tried(g) == {g}

Notify(g) ==
    /\ pc = "notify" /\ g \in toNotify
    /\ toNotify' = toNotify \ Tried(g)
    /\ UNCHANGED <<streamVars, stop, pc, read, subscribers, result>>

RoundDone ==
    /\ pc = "notify" /\ toNotify = {}
    /\ pc' = "head"
    /\ UNCHANGED <<streamVars, stop, read, subscribers, toNotify, result>>

\* Fault: what the worker returned is not looked at.
NotLookedAt == "ok"

\* A worker that ended before it was told to did so with an error.
JoinResult == "error"

\* shutdown() joins the worker.
Shutdown ==
    /\ pc = "shutdown"
    /\ pc' = "returned"
    /\ \/ over /\ result' = JoinResult /\ UNCHANGED streamVars
       \/ \E failed \in BOOLEAN : Channel!End(failed) /\ result' = IF failed THEN "error" ELSE "ok"
    /\ UNCHANGED <<stop, read, subscribers, toNotify>>

\* An early return drops the server, which shuts it down as well.
DropServer ==
    /\ pc = "drop"
    /\ pc' = "returned"
    /\ \/ over /\ UNCHANGED streamVars
       \/ \E failed \in BOOLEAN : Channel!End(failed)
    /\ UNCHANGED <<stop, read, subscribers, toNotify, result>>

-----------------------------------------------------------------------------
Loop ==
    \/ LoopHead \/ Receive \/ Timeout \/ ChannelClosed \/ Tick \/ RoundDone
    \/ (\E g \in Connections : Notify(g)) \/ Shutdown \/ DropServer

Terminated == pc = "returned" /\ UNCHANGED vars

Next == Stream \/ RaiseStop \/ WorkerFails \/ Loop \/ Terminated

Spec == Init /\ [][Next]_vars

\* The loop runs; notify() and shutdown() have time-outs of their own.
FairSpec == Spec /\ WF_vars(Loop)

-----------------------------------------------------------------------------
(* Property *)

\* Once the loop has read everything there is, its table names exactly the
\* connections whose CCCD is set, however subscriptions, disconnections and
\* new connections followed each other.
CaughtUp ==
    read = Len(stream) /\ ~over => subscribers = {s[1] : s \in subscribed}
=============================================================================
