---------------------------- MODULE GattRuntime ----------------------------
(***************************************************************************)
(* The worker of btstack-core/src/runtime.rs from the moment the server is *)
(* ready: the loop of run(), the notification queue, the connection and    *)
(* subscription tables, and the application that calls notify() and        *)
(* shutdown().  The worker thread owns all of BTstack (Bridge.tla); the    *)
(* application reaches it through the bounded channel of commands and sees *)
(* it through the unbounded channel of ServerEvents.                       *)
(*                                                                         *)
(* Runtime is not Sync, so one application thread makes the calls; several *)
(* commands are in the channel only because calls time out.                *)
(***************************************************************************)
EXTENDS Bridge

CONSTANTS
    Attributes,    \* attribute handles of the notifying characteristics
    Lens,          \* lengths of the values the application notifies
    QueueCap,      \* entries of State::pending, 128 in the code
    CmdCap,        \* capacity of the command channel, 128 in the code
    Batch,         \* commands taken in one iteration of run(), 128 in the code
    MaxNotify,     \* bound: calls of notify()
    MaxWrites      \* bound: CCCD writes the peers make

ASSUME RuntimeAssumption ==
    /\ Lens \subseteq Nat
    /\ {QueueCap, CmdCap, Batch} \subseteq Nat \ {0}
    /\ {MaxNotify, MaxWrites} \subseteq Nat

VARIABLES
    pc,              \* where the worker is in its loop
    taken,           \* commands taken in this iteration
    connections,     \* generation of the connection of a handle, 0 when none
    conn_mtu,        \* GattConnection::mtu of that connection
    subscriptions,   \* pairs (handle, attribute) whose CCCD is set
    pending,         \* accepted notifications, per handle in queue order
    NEXT_CONNECTION, \* next generation
    FAILURE,         \* a transport error a callback left behind
    result,          \* how run() ended
    commands,        \* the command channel
    calls,           \* what became of each notify() call
    stopSent,        \* how far shutdown() has come with its Stop
    events,          \* every ServerEvent sent so far
    accepted,        \* history: the calls whose value was queued
    sent,            \* history: what each link's peer was sent, in order
    writes           \* history: number of CCCD writes

workerVars == <<taken, connections, conn_mtu, subscriptions, pending,
                NEXT_CONNECTION, FAILURE, result>>
appVars == <<commands, calls, stopSent>>
historyVars == <<events, accepted, sent, writes>>
vars == <<bridgeVars, pc, workerVars, appVars, historyVars>>

Calls == 1 .. MaxNotify
Links == 1 .. MaxLinks
Running == pc \in {"commands", "receive", "poll", "drain"}

Notification == [id : Calls, generation : Nat \ {0}, attr : Attributes, len : Lens]
Stop == [op |-> "Stop"]
Command == {Stop} \cup
           [op : {"Notify"}, handle : Handles, generation : Nat \ {0}, id : Calls,
            attr : Attributes, len : Lens]

ServerEvent == [type : {"Connected", "Disconnected", "SubscriptionChanged", "NotificationFailed"},
                handle : Handles, generation : Nat \ {0},
                attrs : SUBSET Attributes, enabled : BOOLEAN]
               \cup [type : {"Error"}, handle : {NoHandle}, generation : {0},
                     attrs : {{}}, enabled : {FALSE}]

Report(type, h, g) ==
    [type |-> type, handle |-> h, generation |-> g, attrs |-> {}, enabled |-> FALSE]

Transmission == [id : Calls, generation : Nat \ {0}, len : Lens, mtu : Nat]

TypeOK ==
    /\ BridgeTypeOK
    /\ pc \in {"commands", "receive", "poll", "drain", "stopping", "done"}
    /\ taken \in 0 .. Batch
    /\ connections \in [Handles -> Nat]
    /\ conn_mtu \in [Handles -> Nat]
    /\ subscriptions \subseteq Handles \X Attributes
    /\ pending \in [Handles -> Seq(Notification)]
    /\ NEXT_CONNECTION \in Nat \ {0}
    /\ FAILURE \in BOOLEAN
    /\ result \in {"none", "ok", "error"}
    /\ commands \in Seq(Command)
    /\ calls \in [Calls -> {"none", "waiting", "ok", "refused", "timeout"}]
    /\ stopSent \in {"no", "blocked", "sent"}
    /\ events \in Seq(ServerEvent)
    /\ accepted \subseteq Calls
    /\ sent \in [Links -> Seq(Transmission)]
    /\ writes \in 0 .. MaxWrites

Init ==
    /\ BridgeInit
    /\ pc = "commands" /\ taken = 0
    /\ connections = [h \in Handles |-> 0]
    /\ conn_mtu = [h \in Handles |-> 0]
    /\ subscriptions = {}
    /\ pending = [h \in Handles |-> << >>]
    /\ NEXT_CONNECTION = 1
    /\ FAILURE = FALSE /\ result = "none"
    /\ commands = << >> /\ calls = [c \in Calls |-> "none"] /\ stopSent = "no"
    /\ events = << >> /\ accepted = {} /\ sent = [l \in Links |-> << >>] /\ writes = 0

-----------------------------------------------------------------------------
(* The application *)

Idle == \A c \in Calls : calls[c] # "waiting"
NextCall(c) == calls[c] = "none" /\ \A d \in Calls : d < c => calls[d] # "none"

\* Connections the application may hold: those a Connected event handed to it.
Known == {<<events[i].handle, events[i].generation>> :
             i \in {j \in DOMAIN events : events[j].type = "Connected"}}

\* notify(): refused at once when the channel is full or the worker is gone.
Notify(c, h, g, a, n) ==
    /\ Idle /\ NextCall(c) /\ stopSent = "no" /\ <<h, g>> \in Known
    /\ IF Running /\ Len(commands) < CmdCap
       THEN /\ commands' = Append(commands,
                  [op |-> "Notify", handle |-> h, generation |-> g, id |-> c,
                   attr |-> a, len |-> n])
            /\ calls' = [calls EXCEPT ![c] = "waiting"]
       ELSE /\ calls' = [calls EXCEPT ![c] = "refused"]
            /\ UNCHANGED commands
    /\ UNCHANGED <<bridgeVars, pc, workerVars, stopSent, historyVars>>

\* Three seconds pass before the worker answers.
CallTimeout(c) ==
    /\ calls[c] = "waiting"
    /\ calls' = [calls EXCEPT ![c] = "timeout"]
    /\ UNCHANGED <<bridgeVars, pc, workerVars, commands, stopSent, historyVars>>

\* Fault: the Stop is dropped when the channel is full.
TrySendStop ==
    \/ Running /\ commands' = IF Len(commands) < CmdCap THEN Append(commands, Stop) ELSE commands
    \/ ~Running /\ UNCHANGED commands

\* A blocking send: the Stop waits for room, unless the receiver is gone.
SendStop ==
    \/ Running /\ Len(commands) < CmdCap /\ commands' = Append(commands, Stop)
    \/ ~Running /\ UNCHANGED commands

\* shutdown(): send Stop, then join the thread.  A full channel blocks the call.
Shutdown ==
    /\ Idle /\ stopSent = "no"
    /\ \/ SendStop /\ stopSent' = "sent"
       \/ /\ Running /\ Len(commands) >= CmdCap
          /\ stopSent' = "blocked" /\ UNCHANGED commands
    /\ UNCHANGED <<bridgeVars, pc, workerVars, calls, historyVars>>

\* The blocked send goes on.
StopSends ==
    /\ stopSent = "blocked"
    /\ SendStop /\ stopSent' = "sent"
    /\ UNCHANGED <<bridgeVars, pc, workerVars, calls, historyVars>>

-----------------------------------------------------------------------------
(* run(): commands *)

\* Fault: one command too many.
MayTakeOneMore == pc = "commands" /\ taken <= Batch

MayTake == pc = "commands" /\ taken < Batch

\* Returning from run() drops the command channel with everything in it, and
\* a caller still waiting sees its answer channel close.
Exit(r) ==
    /\ pc' = "stopping" /\ result' = r
    /\ commands' = << >>
    /\ calls' = [c \in Calls |-> IF calls[c] = "waiting" THEN "timeout" ELSE calls[c]]

TakeStop ==
    /\ MayTake
    /\ commands # << >> /\ Head(commands) = Stop
    /\ Exit("ok")
    /\ UNCHANGED <<bridgeVars, taken, connections, conn_mtu, subscriptions, pending,
                   NEXT_CONNECTION, FAILURE, stopSent, historyVars>>

Backlog == SumFunction([h \in Handles |-> Len(pending[h])])

\* Fault: the ATT header is forgotten.
PayloadWithHeader(mtu) == mtu

\* usize::saturating_sub: the payload of a notification under an MTU.
Payload(mtu) == IF mtu < 3 THEN 0 ELSE mtu - 3

\* The tests before a value is queued.  (A value for an unknown characteristic
\* is refused like one for an attribute nobody subscribed to.)
Acceptable(m) ==
    /\ connections[m.handle] = m.generation
    /\ <<m.handle, m.attr>> \in subscriptions
    /\ m.len <= Payload(conn_mtu[m.handle])
    /\ Backlog < QueueCap

\* Fault: the capacity is tested again after the push.
VerdictAfterPush(m) ==
    IF Acceptable(m) /\ Backlog + 1 < QueueCap THEN "ok" ELSE "refused"

Verdict(m) == IF Acceptable(m) THEN "ok" ELSE "refused"

\* Fault: push_front.
EnqueueFirst(queue, m) == <<m>> \o queue

Enqueue(queue, m) == Append(queue, m)

\* The answer is lost when the call has timed out.
Answer(c, a) == calls' = [calls EXCEPT ![c] = IF @ = "waiting" THEN a ELSE @]

TakeNotify ==
    /\ MayTake
    /\ commands # << >> /\ Head(commands) # Stop
    /\ taken' = taken + 1
    /\ commands' = Tail(commands)
    /\ LET m == Head(commands) IN
         /\ \/ /\ Acceptable(m)
               /\ pending' = [pending EXCEPT ![m.handle] = Enqueue(@,
                     [id |-> m.id, generation |-> m.generation, attr |-> m.attr, len |-> m.len])]
               /\ RequestSend(m.handle, EVENTS, inflight)
               /\ accepted' = accepted \cup {m.id}
            \/ ~Acceptable(m) /\ UNCHANGED <<pending, send_requests, EVENTS, accepted>>
         /\ Answer(m.id, Verdict(m))
    /\ UNCHANGED <<link, nextLink, att_mtu, inflight, pc, connections, conn_mtu,
                   subscriptions, NEXT_CONNECTION, FAILURE, result, stopSent, events, sent,
                   writes>>

CommandsDone ==
    /\ pc = "commands"
    /\ commands = << >> \/ taken = Batch
    /\ pc' = "receive" /\ taken' = 0
    /\ UNCHANGED <<bridgeVars, connections, conn_mtu, subscriptions, pending,
                   NEXT_CONNECTION, FAILURE, result, appVars, historyVars>>

-----------------------------------------------------------------------------
(* run(): one packet, then rs_poll *)

\* Fault: packets are received until there is none.
AfterEveryPacket == {"receive", "poll"}

\* run() takes one packet, then polls and drains EVENTS before the next.
AfterPacket == {"poll"}

\* One call of receive(): a packet that changes what is modelled, another
\* packet or none, or a transport error or malformed packet that ends run().
ReceivePacket ==
    /\ pc = "receive"
    /\ pc' \in AfterPacket
    /\ \/ \E h \in Handles : LeConnected(h) \/ LeDisconnected(h) \/ NumCompleted(h)
       \/ CommandFailed
       \/ UNCHANGED bridgeVars
    /\ UNCHANGED <<workerVars, appVars, historyVars>>

ReceiveFails ==
    /\ pc = "receive"
    /\ Exit("error")
    /\ UNCHANGED <<bridgeVars, taken, connections, conn_mtu, subscriptions, pending,
                   NEXT_CONNECTION, FAILURE, stopSent, historyVars>>

\* The write callback on a CCCD.  An ATT request is handled while its packet
\* is received, or in rs_poll if it had to wait for a buffer: nothing happens
\* in between, so both are this step.  A link whose Connected event is still
\* in EVENTS is unknown and gets UnlikelyError.
CccdWrite(h, a, on) ==
    /\ pc \in {"poll", "stopping"} /\ writes < MaxWrites
    /\ AttRespond(h)
    /\ writes' = writes + 1
    /\ IF connections[h] = 0
       THEN UNCHANGED <<subscriptions, events>>
       ELSE /\ subscriptions' = IF on THEN subscriptions \cup {<<h, a>>}
                                      ELSE subscriptions \ {<<h, a>>}
            /\ events' = Append(events, [type |-> "SubscriptionChanged", handle |-> h,
                  generation |-> connections[h], attrs |-> {a}, enabled |-> on])
    /\ UNCHANGED <<link, nextLink, att_mtu, send_requests, EVENTS, pc, taken, connections,
                   conn_mtu, pending, NEXT_CONNECTION, FAILURE, result, appVars, accepted, sent>>

\* BTstack at work inside rs_receive and rs_poll.
PollCanSend(i) ==
    /\ pc \in {"poll", "stopping"} /\ CanSend(i)
    /\ UNCHANGED <<pc, workerVars, appVars, historyVars>>

PollExchangeMtu(h) ==
    /\ pc \in {"poll", "stopping"} /\ ExchangeMtu(h)
    /\ UNCHANGED <<pc, workerVars, appVars, historyVars>>

\* A failed send, of this poll or of an earlier notification, ends run().
PollDone ==
    /\ pc = "poll"
    /\ \/ /\ ~FAILURE
          /\ pc' = "drain"
          /\ UNCHANGED <<FAILURE, result, commands, calls>>
       \/ /\ FAILURE' = FALSE
          /\ Exit("error")
    /\ UNCHANGED <<bridgeVars, taken, connections, conn_mtu, subscriptions, pending,
                   NEXT_CONNECTION, stopSent, historyVars>>

-----------------------------------------------------------------------------
(* run(): EVENTS, until it is empty *)

\* The event run() has just popped.
Popped(kind) == pc = "drain" /\ EVENTS # << >> /\ Head(EVENTS).kind = kind

DrainConnected ==
    /\ Popped("Connected")
    /\ LET e == Head(EVENTS) IN
         /\ connections' = [connections EXCEPT ![e.handle] = NEXT_CONNECTION]
         /\ conn_mtu' = [conn_mtu EXCEPT ![e.handle] = e.value]
         /\ NEXT_CONNECTION' = NEXT_CONNECTION + 1
         /\ events' = Append(events, Report("Connected", e.handle, NEXT_CONNECTION))
    /\ EVENTS' = Tail(EVENTS)
    /\ UNCHANGED <<link, nextLink, att_mtu, inflight, send_requests, pc, taken,
                   subscriptions, pending, FAILURE, result, appVars, accepted, sent, writes>>

\* Faults: the state of a handle outlives its link.
Kept(queue) == queue
KeptCccds(h) == subscriptions

\* What State keeps of a handle once its link is gone.
Discarded(queue) == << >>
Forgotten(h) == subscriptions \ ({h} \X Attributes)
Removed(h) == [connections EXCEPT ![h] = 0]

DrainDisconnected ==
    /\ Popped("Disconnected")
    /\ LET h == Head(EVENTS).handle IN
         /\ subscriptions' = Forgotten(h)
         /\ pending' = [pending EXCEPT ![h] = Discarded(@)]
         /\ connections' = Removed(h)
         /\ events' = IF connections[h] = 0 THEN events
                      ELSE Append(events, Report("Disconnected", h, connections[h]))
    /\ EVENTS' = Tail(EVENTS)
    /\ UNCHANGED <<link, nextLink, att_mtu, inflight, send_requests, pc, taken, conn_mtu,
                   NEXT_CONNECTION, FAILURE, result, appVars, accepted, sent, writes>>

DrainMtu ==
    /\ Popped("MtuExchanged")
    /\ LET e == Head(EVENTS) IN
         conn_mtu' = [conn_mtu EXCEPT ![e.handle] =
                         IF connections[e.handle] = 0 THEN @ ELSE e.value]
    /\ EVENTS' = Tail(EVENTS)
    /\ UNCHANGED <<link, nextLink, att_mtu, inflight, send_requests, pc, taken, connections,
                   subscriptions, pending, NEXT_CONNECTION, FAILURE, result, appVars,
                   historyVars>>

\* flush_notification when nothing is queued for the link.
FlushNothing ==
    /\ Popped("CanSend") /\ pending[Head(EVENTS).handle] = << >>
    /\ EVENTS' = Tail(EVENTS)
    /\ UNCHANGED <<link, nextLink, att_mtu, inflight, send_requests, pc, workerVars,
                   appVars, historyVars>>

\* rs_notify for a notification, and the event that reports its failure.
Transmit(h, m, status) ==
    /\ IF status = "sent"
       THEN /\ inflight' = [inflight EXCEPT ![h] = @ + 1]
            /\ sent' = [sent EXCEPT ![link[h]] = Append(@,
                  [id |-> m.id, generation |-> m.generation, len |-> m.len,
                   mtu |-> att_mtu[h]])]
            /\ UNCHANGED events
       ELSE /\ events' = Append(events, Report("NotificationFailed", h, m.generation))
            /\ UNCHANGED <<inflight, sent>>
    /\ FAILURE' = (FAILURE \/ status = "transport failed")

\* Fault: one grant is taken to serve the whole queue.
RequestNoMore(h, rest) == EVENTS' = Tail(EVENTS) /\ UNCHANGED send_requests

\* Another grant is requested while the link has more to send.
RequestMore(h, rest) ==
    IF rest = << >> THEN EVENTS' = Tail(EVENTS) /\ UNCHANGED send_requests
                    ELSE RequestSend(h, Tail(EVENTS), inflight')

\* flush_notification: the first notification of the link leaves the queue,
\* is sent if the peer still subscribes, and the rest asks for its turn.
Flush ==
    /\ Popped("CanSend")
    /\ LET h == Head(EVENTS).handle
           m == Head(pending[h]) IN
         /\ pending[h] # << >>
         /\ pending' = [pending EXCEPT ![h] = Tail(@)]
         /\ \/ /\ <<h, m.attr>> \in subscriptions
               /\ \E status \in NotifyStatus(h) : Transmit(h, m, status)
            \/ /\ <<h, m.attr>> \notin subscriptions
               /\ UNCHANGED <<inflight, sent, events, FAILURE>>
         /\ RequestMore(h, Tail(pending[h]))
    /\ UNCHANGED <<link, nextLink, att_mtu, pc, taken, connections, conn_mtu, subscriptions,
                   NEXT_CONNECTION, result, appVars, accepted, writes>>

DrainCommandFailed ==
    /\ Popped("CommandFailed")
    /\ EVENTS' = Tail(EVENTS)
    /\ Exit("error")
    /\ UNCHANGED <<link, nextLink, att_mtu, inflight, send_requests, taken, connections,
                   conn_mtu, subscriptions, pending, NEXT_CONNECTION, FAILURE, stopSent,
                   historyVars>>

DrainDone ==
    /\ pc = "drain" /\ EVENTS = << >>
    /\ pc' = "commands"
    /\ UNCHANGED <<bridgeVars, workerVars, appVars, historyVars>>

-----------------------------------------------------------------------------
(* stop_controller() *)

\* BTstack powers the controller down; packets are received and callbacks
\* run, but nobody reads EVENTS any more.
StopPump ==
    /\ pc = "stopping"
    /\ \E h \in Handles : LeConnected(h) \/ LeDisconnected(h) \/ NumCompleted(h)
    /\ UNCHANGED <<pc, workerVars, appVars, historyVars>>

\* The controller is off, or the three seconds are over, or the transport
\* failed: report an error, drop the state.
Finish ==
    /\ pc = "stopping"
    /\ pc' = "done"
    /\ result' \in IF result = "ok" THEN {"ok", "error"} ELSE {result}
    /\ events' = IF result' = "error" THEN Append(events, Report("Error", NoHandle, 0))
                                      ELSE events
    /\ connections' = [h \in Handles |-> 0]
    /\ subscriptions' = {}
    /\ pending' = [h \in Handles |-> << >>]
    /\ UNCHANGED <<bridgeVars, taken, conn_mtu, NEXT_CONNECTION, FAILURE, appVars,
                   accepted, sent, writes>>

-----------------------------------------------------------------------------
Application ==
    \/ \E c \in Calls, k \in Known, a \in Attributes, n \in Lens : Notify(c, k[1], k[2], a, n)
    \/ \E c \in Calls : CallTimeout(c)
    \/ Shutdown \/ StopSends

\* The steps the worker takes on its own.
Worker ==
    \/ TakeStop \/ TakeNotify \/ CommandsDone
    \/ ReceivePacket \/ PollDone
    \/ DrainConnected \/ DrainDisconnected \/ DrainMtu \/ FlushNothing \/ Flush
    \/ DrainCommandFailed \/ DrainDone
    \/ Finish

\* The steps the peers, the controller and BTstack decide.
Environment ==
    \/ ReceiveFails \/ StopPump
    \/ \E h \in Handles, a \in Attributes, on \in BOOLEAN : CccdWrite(h, a, on)
    \/ \E i \in Slots : PollCanSend(i)
    \/ \E h \in Handles : PollExchangeMtu(h)

Terminated == pc = "done" /\ UNCHANGED vars

Next == Application \/ Worker \/ Environment \/ Terminated

Spec == Init /\ [][Next]_vars

\* The worker keeps running, and a blocked send goes on once there is room; while
\* the worker polls, BTstack serves every waiting registration in turn and the
\* controller completes the packets it holds.
Fairness ==
    /\ WF_vars(Worker) /\ WF_vars(StopSends)
    /\ \A i \in Slots : SF_vars(PollCanSend(i))
    /\ \A h \in Handles : SF_vars(ReceivePacket /\ NumCompleted(h))

FairSpec == Spec /\ Fairness

-----------------------------------------------------------------------------
(* Properties *)

QueuedFor(h, kinds) == {i \in DOMAIN EVENTS : EVENTS[i].kind \in kinds /\ EVENTS[i].handle = h}

\* While run() loops, its connection table names exactly the links BTstack has,
\* under the generation of that very link, except for a handle whose link event
\* still waits in EVENTS: then either the link is up and unknown or it is gone
\* and still known.  A handle is never reused before run() saw its old link go.
TablesAgree ==
    Running => \A h \in Handles :
        /\ QueuedFor(h, LinkEvents) = {} => connections[h] = link[h]
        /\ QueuedFor(h, {"Connected"}) # {} => connections[h] = 0 /\ link[h] # 0
        /\ QueuedFor(h, {"Disconnected"}) # {} => link[h] = 0

\* A notification accepted for one connection never leaves on the link of
\* another, although the controller reuses handles and commands, grants and
\* disconnections cross in their queues.
NoCrossDelivery == \A l \in Links : \A i \in DOMAIN sent[l] : sent[l][i].generation = l

\* The queue and the CCCD table hold nothing of a connection that is gone, and
\* every queued notification belongs to the connection its handle now names.
StateForLiveOnly ==
    \A h \in Handles :
        /\ \A i \in DOMAIN pending[h] : pending[h][i].generation = connections[h]
        /\ connections[h] = 0 => subscriptions \cap ({h} \X Attributes) = {}

\* A live link with something queued always has a grant on its way: its
\* registration waits in a slot or its can-send event waits in EVENTS.
NoLostWakeup ==
    Running => \A h \in Handles :
        pending[h] # << >> /\ link[h] # 0
            => BusyFor(h) # {} \/ QueuedFor(h, {"CanSend"}) # {}

\* Each link transmits its notifications in the order of the notify() calls,
\* none of them twice.
DeliveredInOrder ==
    \A l \in Links : \A i, j \in DOMAIN sent[l] : i < j => sent[l][i].id < sent[l][j].id

\* The answer tells the truth: Ok means the value was queued, an error other
\* than a time-out means it was not and never will be sent.
AnswersAgree ==
    \A c \in Calls :
        /\ calls[c] = "ok" => c \in accepted
        /\ calls[c] \in {"none", "refused"} => c \notin accepted

\* BTstack cuts a notification at the ATT MTU; none is ever long enough to be
\* cut, although the length was checked when the value was queued.
NoTruncation ==
    \A l \in Links : \A i \in DOMAIN sent[l] : sent[l][i].len + 3 <= sent[l][i].mtu

\* An accepted notification does not stay in the queue for ever: it is sent,
\* fails, or goes with its connection.
AcceptedLeaves ==
    \A h \in Handles : \A c \in Calls :
        (\E i \in DOMAIN pending[h] : pending[h][i].id = c)
            ~> (\A i \in DOMAIN pending[h] : pending[h][i].id # c)

\* shutdown() returns: its Stop finds room in the channel and is taken however
\* many commands, packets and grants are ahead of it, and the worker ends.
ShutdownEnds == stopSent # "no" ~> pc = "done"

\* A grant is honoured when it is used: a live link whose can-send event is
\* being handled has a buffer to send in.
GrantHonoured ==
    pc = "drain" /\ EVENTS # << >> /\ Head(EVENTS).kind = "CanSend"
        /\ link[Head(EVENTS).handle] # 0 /\ pending[Head(EVENTS).handle] # << >>
        => HasAclBuffer

\* A CCCD write is attributed to the connection of the link it came in on,
\* although the table is behind the links and handles are reused.  It may not
\* be while the controller is stopped: nobody drains EVENTS then.
CccdOfItsLink ==
    [][Running /\ writes' # writes /\ events' # events =>
          events'[Len(events')].generation = link[events'[Len(events')].handle]]_vars

-----------------------------------------------------------------------------
(* Refinement: the runtime provides the notification service *)

Opened == 1 .. NEXT_CONNECTION - 1
OpenNow == {connections[h] : h \in Handles} \ {0}
Ids(seq) == [i \in DOMAIN seq |-> seq[i].id]
QueueOf(g) == IF g \in OpenNow THEN Ids(pending[CHOOSE h \in Handles : connections[h] = g])
                               ELSE << >>

Service == INSTANCE NotificationService WITH
    Connections <- Links, Calls <- Calls,
    opened <- Opened, open <- OpenNow,
    queue <- [g \in Links |-> QueueOf(g)],
    accepted <- accepted,
    received <- [g \in Links |-> Ids(sent[g])]

\* Every step of the runtime is a step of the service or changes nothing the
\* service shows: links, grants, buffers, time-outs and the stop are hidden.
ProvidesService == Service!Spec

\* The application cannot see handles: GattConnection::id() is the generation.
Seen(e) == [type |-> e.type, connection |-> e.generation,
            attrs |-> e.attrs, enabled |-> e.enabled]

Channel == INSTANCE EventStream WITH
    Connections <- Links, Characteristics <- Attributes,
    stream <- [i \in DOMAIN events |-> Seen(events[i])],
    open <- OpenNow,
    subscribed <- {<<connections[s[1]], s[2]>> : s \in subscriptions},
    over <- pc = "done"

\* Every step of the runtime sends at most one event, one the channel may send
\* next, and keeps the connections and CCCDs it told of.
ReportsEvents == Channel!StreamSpec
=============================================================================
