------------------------- MODULE GattRuntimeProofs -------------------------
(***************************************************************************)
(* Proofs about GattRuntime, for any handles, links, calls and bounds.  The*)
(* first part is about the tables: the connections the code knows follow   *)
(* BTstack's links, and what it keeps for a connection dies with it.  The  *)
(* second is about what becomes of the notify() calls: their answers are   *)
(* true, what was accepted is sent in order and uncut, and a live link with*)
(* something queued has a grant on its way.  From both follow the          *)
(* refinements: the runtime implements EventStream and NotificationService.*)
(***************************************************************************)
EXTENDS GattRuntime, TLAPS, SequenceTheorems, FiniteSetTheorems

-----------------------------------------------------------------------------
(* Type correctness                                                        *)

\* A callback record built from a known handle is an Event.
LEMMA EventType ==
    ASSUME BridgeTypeOK, NEW h \in Handles, NEW v \in Nat,
           NEW k \in EventKind \ {"CommandFailed"}
    PROVE  event(k, h, v) \in Event
  BY DEF event, Event, BridgeTypeOK

\* rs_request_send leaves the queue as it is or appends one can-send event.
LEMMA RequestSendEffect ==
    ASSUME BridgeTypeOK, NEW h \in Handles, NEW queue \in Seq(Event), NEW used,
           RequestSend(h, queue, used)
    PROVE  /\ send_requests' \in [Slots -> Handles \cup {NoHandle}]
           /\ EVENTS' \in Seq(Event)
           /\ EVENTS' = queue \/ EVENTS' = Append(queue, event("CanSend", h, 0))
  <1>1. event("CanSend", h, 0) \in Event
    BY EventType DEF EventKind
  <1>2. EVENTS' = queue \/ EVENTS' = Append(queue, event("CanSend", h, 0))
    BY DEF RequestSend
  <1>3. EVENTS' \in Seq(Event)
    BY <1>1, <1>2
  <1>4. send_requests' \in [Slots -> Handles \cup {NoHandle}]
    BY DEF RequestSend, BridgeTypeOK
  <1> QED BY <1>2, <1>3, <1>4

\* What the peers and the controller do keeps the bridge well typed.
LEMMA LinkStepType ==
    ASSUME BridgeTypeOK, NEW h \in Handles,
           LeConnected(h) \/ LeDisconnected(h) \/ NumCompleted(h)
    PROVE  BridgeTypeOK'
  <1>1. CASE LeConnected(h)
    <2>1. [kind |-> "Connected", handle |-> h, value |-> DefaultMtu, link |-> nextLink] \in Event
      BY BridgeAssumption DEF Event, EventKind, BridgeTypeOK
    <2>2. EVENTS' \in Seq(Event)
      BY <1>1, <2>1 DEF LeConnected, BridgeTypeOK
    <2> QED BY <1>1, <2>2, BridgeAssumption DEF LeConnected, BridgeTypeOK
  <1>2. CASE LeDisconnected(h)
    <2>1. event("Disconnected", h, 0) \in Event
      BY EventType DEF EventKind
    <2>2. EVENTS' \in Seq(Event)
      BY <1>2, <2>1 DEF LeDisconnected, Push, BridgeTypeOK
    <2> QED BY <1>2, <2>2 DEF LeDisconnected, BridgeTypeOK
  <1>3. CASE NumCompleted(h)
    <2>1. PICK n \in 1 .. inflight[h] : inflight' = [inflight EXCEPT ![h] = @ - n]
      BY <1>3 DEF NumCompleted
    <2>2. inflight[h] \in Nat /\ n \in Nat /\ inflight[h] - n \in Nat
      BY <2>1 DEF BridgeTypeOK
    <2>3. inflight' \in [Handles -> Nat]
      BY <2>1, <2>2 DEF BridgeTypeOK
    <2> QED BY <1>3, <2>3 DEF NumCompleted, BridgeTypeOK
  <1> QED BY <1>1, <1>2, <1>3

\* The callback of a failed command.
LEMMA CommandFailedType ==
    ASSUME BridgeTypeOK, CommandFailed
    PROVE  BridgeTypeOK'
  <1>1. [kind |-> "CommandFailed", handle |-> NoHandle, value |-> 1, link |-> 0] \in Event
    BY DEF Event
  <1>2. EVENTS' \in Seq(Event)
    BY <1>1 DEF CommandFailed, BridgeTypeOK
  <1> QED BY <1>2 DEF CommandFailed, BridgeTypeOK

\* The can-send callback.
LEMMA CanSendType ==
    ASSUME BridgeTypeOK, NEW i \in Slots, CanSend(i)
    PROVE  BridgeTypeOK'
  <1>1. send_requests[i] \in Handles
    BY DEF CanSend, BridgeTypeOK
  <1>2. event("CanSend", send_requests[i], 0) \in Event
    BY <1>1, EventType DEF EventKind
  <1>3. EVENTS' \in Seq(Event)
    BY <1>2 DEF CanSend, Push, BridgeTypeOK
  <1> QED BY <1>3 DEF CanSend, BridgeTypeOK

\* The callback of an MTU exchange.
LEMMA ExchangeMtuType ==
    ASSUME BridgeTypeOK, NEW h \in Handles, ExchangeMtu(h)
    PROVE  BridgeTypeOK'
  <1>1. PICK m \in Mtus :
           /\ AttRespond(h)
           /\ att_mtu' = [att_mtu EXCEPT ![h] = m]
           /\ Push("MtuExchanged", h, m)
           /\ UNCHANGED <<link, nextLink, send_requests>>
    BY DEF ExchangeMtu
  <1>2. m \in Nat
    BY BridgeAssumption
  <1>3. event("MtuExchanged", h, m) \in Event
    BY <1>2, EventType DEF EventKind
  <1>4. EVENTS' \in Seq(Event)
    BY <1>1, <1>3 DEF Push, BridgeTypeOK
  <1> QED BY <1>1, <1>2, <1>4 DEF AttRespond, BridgeTypeOK

\* A step that does not touch the bridge.
LEMMA BridgeUnchanged ==
    ASSUME BridgeTypeOK, UNCHANGED bridgeVars
    PROVE  BridgeTypeOK'
  BY DEF BridgeTypeOK, bridgeVars

\* The initial state is well typed.
LEMMA TypeInit == Init => TypeOK
  <1> SUFFICES ASSUME Init PROVE TypeOK
    OBVIOUS
  <1>1. BridgeTypeOK
    BY BridgeAssumption DEF Init, BridgeInit, BridgeTypeOK
  <1>2. taken \in 0 .. Batch /\ writes \in 0 .. MaxWrites
    BY RuntimeAssumption DEF Init
  <1>3. /\ connections \in [Handles -> Nat] /\ conn_mtu \in [Handles -> Nat]
        /\ subscriptions \subseteq Handles \X Attributes
        /\ pending \in [Handles -> Seq(Notification)]
    BY DEF Init
  <1>4. /\ events \in Seq(ServerEvent) /\ accepted \subseteq Calls
        /\ sent \in [Links -> Seq(Transmission)] /\ commands \in Seq(Command)
    BY DEF Init
  <1>5. /\ pc \in {"commands", "receive", "poll", "drain", "stopping", "done"}
        /\ NEXT_CONNECTION \in Nat \ {0}
        /\ result \in {"none", "ok", "error"}
        /\ calls \in [Calls -> {"none", "waiting", "ok", "refused", "timeout"}]
    BY DEF Init
  <1>6. FAILURE \in BOOLEAN /\ stopSent \in {"no", "blocked", "sent"}
    BY DEF Init
  <1> QED BY <1>1, <1>2, <1>3, <1>4, <1>5, <1>6 DEF TypeOK

\* Returning from run() closes the channel and answers the waiting caller.
LEMMA ExitType ==
    ASSUME TypeOK, NEW r \in {"ok", "error"}, Exit(r)
    PROVE  /\ pc' = "stopping" /\ result' \in {"none", "ok", "error"}
           /\ commands' \in Seq(Command)
           /\ calls' \in [Calls -> {"none", "waiting", "ok", "refused", "timeout"}]
  BY DEF Exit, TypeOK

\* A call of notify() puts a well-typed command into the channel.
LEMMA NotifyType ==
    ASSUME TypeOK, NEW c \in Calls, NEW k \in Known, NEW a \in Attributes, NEW n \in Lens,
           Notify(c, k[1], k[2], a, n)
    PROVE  TypeOK'
  <1>1. PICK i \in DOMAIN events : /\ events[i].type = "Connected"
                                   /\ k = <<events[i].handle, events[i].generation>>
    BY DEF Known
  <1>2. events[i] \in ServerEvent
    BY DEF TypeOK
  <1>3. k[1] \in Handles /\ k[2] \in Nat \ {0}
    BY <1>1, <1>2 DEF ServerEvent
  <1>4. [op |-> "Notify", handle |-> k[1], generation |-> k[2], id |-> c, attr |-> a, len |-> n]
            \in Command
    BY <1>3 DEF Command
  <1>5. commands' \in Seq(Command)
    <2>1. commands \in Seq(Command)
      BY DEF TypeOK
    <2>2. commands' = commands \/ commands' = Append(commands,
            [op |-> "Notify", handle |-> k[1], generation |-> k[2], id |-> c, attr |-> a, len |-> n])
      BY DEF Notify
    <2> QED BY <1>4, <2>1, <2>2, AppendProperties
  <1>6. calls' \in [Calls -> {"none", "waiting", "ok", "refused", "timeout"}]
    BY DEF Notify, TypeOK
  <1> QED BY <1>5, <1>6, BridgeUnchanged DEF Notify, TypeOK, workerVars, historyVars

\* Each step of the worker, the application and the peers keeps every variable
\* in its type.
LEMMA TypeStep == TypeOK /\ [Next]_vars => TypeOK'
  <1> SUFFICES ASSUME TypeOK, [Next]_vars PROVE TypeOK'
    OBVIOUS
  <1>0. BridgeTypeOK
    BY DEF TypeOK
  <1>u. ASSUME UNCHANGED vars PROVE TypeOK'
    BY <1>0, <1>u, BridgeUnchanged DEF vars, TypeOK, workerVars, appVars, historyVars
  <1>1. ASSUME NEW c \in Calls, NEW k \in Known, NEW a \in Attributes, NEW n \in Lens,
               Notify(c, k[1], k[2], a, n)
        PROVE  TypeOK'
    BY <1>1, NotifyType
  <1>2. ASSUME NEW c \in Calls, CallTimeout(c) PROVE TypeOK'
    BY <1>0, <1>2, BridgeUnchanged DEF CallTimeout, TypeOK, workerVars, historyVars
  <1>3. ASSUME Shutdown \/ StopSends PROVE TypeOK'
    <2>1. Stop \in Command
      BY DEF Command
    <2>2. commands' = commands \/ commands' = Append(commands, Stop)
      BY <1>3 DEF Shutdown, StopSends, SendStop
    <2>3. commands' \in Seq(Command)
      <3>1. commands \in Seq(Command)
        BY DEF TypeOK
      <3> QED BY <2>1, <2>2, <3>1, AppendProperties
    <2> QED BY <1>0, <1>3, <2>3, BridgeUnchanged DEF Shutdown, StopSends, TypeOK, workerVars, historyVars
  <1>4. ASSUME TakeStop PROVE TypeOK'
    BY <1>0, <1>4, BridgeUnchanged, ExitType DEF TakeStop, TypeOK, historyVars
  <1>5. ASSUME TakeNotify PROVE TypeOK'
    <2> DEFINE m == Head(commands)
    <2>1. m \in Command /\ m # Stop /\ commands' \in Seq(Command)
      BY <1>5, HeadTailProperties DEF TakeNotify, TypeOK
    <2>2. /\ m.handle \in Handles
          /\ [id |-> m.id, generation |-> m.generation, attr |-> m.attr, len |-> m.len] \in Notification
          /\ m.id \in Calls
      BY <2>1 DEF Command, Notification
    <2>3. taken' \in 0 .. Batch
      BY <1>5, RuntimeAssumption DEF TakeNotify, MayTake, TypeOK
    <2>4. calls' \in [Calls -> {"none", "waiting", "ok", "refused", "timeout"}]
      BY <1>5, <2>2 DEF TakeNotify, Answer, Verdict, TypeOK
    <2>5. EVENTS \in Seq(Event)
      BY <1>0 DEF BridgeTypeOK
    <2>6. CASE Acceptable(m)
      <3>1. /\ pending' = [pending EXCEPT ![m.handle] = Append(@,
                 [id |-> m.id, generation |-> m.generation, attr |-> m.attr, len |-> m.len])]
            /\ RequestSend(m.handle, EVENTS, inflight)
            /\ accepted' = accepted \cup {m.id}
        BY <1>5, <2>6 DEF TakeNotify, Enqueue
      <3>2. pending' \in [Handles -> Seq(Notification)]
        BY <2>2, <3>1, AppendProperties DEF TypeOK
      <3>3. send_requests' \in [Slots -> Handles \cup {NoHandle}] /\ EVENTS' \in Seq(Event)
        BY <1>0, <2>2, <2>5, <3>1, RequestSendEffect
      <3>4. accepted' \subseteq Calls
        BY <2>2, <3>1 DEF TypeOK
      <3> QED BY <1>5, <2>1, <2>3, <2>4, <3>2, <3>3, <3>4
             DEF TakeNotify, MayTake, TypeOK, BridgeTypeOK, historyVars
    <2>7. CASE ~Acceptable(m)
      <3>1. UNCHANGED <<pending, send_requests, EVENTS, accepted>>
        BY <1>5, <2>7 DEF TakeNotify
      <3> QED BY <1>5, <2>1, <2>3, <2>4, <3>1
             DEF TakeNotify, MayTake, TypeOK, BridgeTypeOK, historyVars
    <2> QED BY <2>6, <2>7
  <1>6. ASSUME CommandsDone PROVE TypeOK'
    <2>1. pc' = "receive" /\ taken' = 0 /\ 0 \in 0 .. Batch
      BY <1>6, RuntimeAssumption DEF CommandsDone
    <2>2. UNCHANGED <<connections, conn_mtu, subscriptions, pending, NEXT_CONNECTION, FAILURE,
                      result, appVars, historyVars>>
      BY <1>6 DEF CommandsDone
    <2>3. BridgeTypeOK'
      BY <1>0, <1>6, BridgeUnchanged DEF CommandsDone, bridgeVars
    <2> QED BY <2>1, <2>2, <2>3 DEF TypeOK, appVars, historyVars
  <1>7. ASSUME ReceivePacket PROVE TypeOK'
    <2>1. BridgeTypeOK'
      BY <1>0, <1>7, LinkStepType, CommandFailedType, BridgeUnchanged DEF ReceivePacket
    <2> QED BY <1>7, <2>1 DEF ReceivePacket, AfterPacket, TypeOK, workerVars, appVars, historyVars
  <1>8. ASSUME ReceiveFails PROVE TypeOK'
    BY <1>0, <1>8, BridgeUnchanged, ExitType DEF ReceiveFails, TypeOK, historyVars
  <1>9. ASSUME NEW h \in Handles, NEW a \in Attributes, NEW on \in BOOLEAN, CccdWrite(h, a, on)
        PROVE  TypeOK'
    <2>1. BridgeTypeOK'
      BY <1>0, <1>9 DEF CccdWrite, AttRespond, BridgeTypeOK
    <2>2. writes' \in 0 .. MaxWrites
      BY <1>9, RuntimeAssumption DEF CccdWrite, TypeOK
    <2>3. subscriptions' \subseteq Handles \X Attributes
      BY <1>9 DEF CccdWrite, TypeOK
    <2>4. connections[h] # 0 =>
            [type |-> "SubscriptionChanged", handle |-> h, generation |-> connections[h],
             attrs |-> {a}, enabled |-> on] \in ServerEvent
      BY DEF ServerEvent, TypeOK
    <2>5. events' \in Seq(ServerEvent)
      <3>1. events \in Seq(ServerEvent)
        BY DEF TypeOK
      <3>2. \/ events' = events
            \/ /\ connections[h] # 0
               /\ events' = Append(events,
                    [type |-> "SubscriptionChanged", handle |-> h, generation |-> connections[h],
                     attrs |-> {a}, enabled |-> on])
        BY <1>9 DEF CccdWrite
      <3> QED BY <2>4, <3>1, <3>2, AppendProperties
    <2> QED BY <1>9, <2>1, <2>2, <2>3, <2>5 DEF CccdWrite, TypeOK, appVars
  <1>10. ASSUME NEW i \in Slots, PollCanSend(i) PROVE TypeOK'
    BY <1>0, <1>10, CanSendType DEF PollCanSend, TypeOK, workerVars, appVars, historyVars
  <1>11. ASSUME NEW h \in Handles, PollExchangeMtu(h) PROVE TypeOK'
    BY <1>0, <1>11, ExchangeMtuType DEF PollExchangeMtu, TypeOK, workerVars, appVars, historyVars
  <1>12. ASSUME PollDone PROVE TypeOK'
    BY <1>0, <1>12, BridgeUnchanged, ExitType DEF PollDone, TypeOK, historyVars
  <1>13. ASSUME DrainConnected PROVE TypeOK'
    <2> DEFINE e == Head(EVENTS)
    <2>1. e \in Event /\ e.kind = "Connected" /\ EVENTS' \in Seq(Event)
      BY <1>0, <1>13, HeadTailProperties DEF DrainConnected, Popped, BridgeTypeOK
    <2>2. e.handle \in Handles /\ e.value \in Nat
      BY <2>1 DEF Event
    <2>3. Report("Connected", e.handle, NEXT_CONNECTION) \in ServerEvent
      BY <2>2 DEF Report, ServerEvent, TypeOK
    <2>4. events' \in Seq(ServerEvent)
      BY <1>13, <2>3, AppendProperties DEF DrainConnected, TypeOK
    <2>5. /\ connections' \in [Handles -> Nat] /\ conn_mtu' \in [Handles -> Nat]
          /\ NEXT_CONNECTION' \in Nat \ {0}
      BY <1>13, <2>2 DEF DrainConnected, TypeOK
    <2> QED BY <1>13, <2>1, <2>4, <2>5
           DEF DrainConnected, Popped, TypeOK, BridgeTypeOK, appVars
  <1>14. ASSUME DrainDisconnected PROVE TypeOK'
    <2> DEFINE h == Head(EVENTS).handle
    <2>1. Head(EVENTS) \in Event /\ Head(EVENTS).kind = "Disconnected" /\ EVENTS' \in Seq(Event)
      BY <1>0, <1>14, HeadTailProperties DEF DrainDisconnected, Popped, BridgeTypeOK
    <2>2. h \in Handles
      BY <2>1 DEF Event
    <2>3. connections[h] # 0 => Report("Disconnected", h, connections[h]) \in ServerEvent
      BY <2>2 DEF Report, ServerEvent, TypeOK
    <2>4. events' \in Seq(ServerEvent)
      BY <1>14, <2>3, AppendProperties DEF DrainDisconnected, TypeOK
    <2>5. subscriptions' \subseteq Handles \X Attributes
      BY <1>14 DEF DrainDisconnected, Forgotten, TypeOK
    <2>6. pending' \in [Handles -> Seq(Notification)]
      <3>1. pending' = [pending EXCEPT ![h] = << >>]
        BY <1>14 DEF DrainDisconnected, Discarded
      <3>2. pending \in [Handles -> Seq(Notification)] /\ << >> \in Seq(Notification)
        BY DEF TypeOK
      <3> QED BY <3>1, <3>2
    <2>7. connections' \in [Handles -> Nat]
      BY <1>14 DEF DrainDisconnected, Removed, TypeOK
    <2> QED BY <1>14, <2>1, <2>4, <2>5, <2>6, <2>7
           DEF DrainDisconnected, Popped, TypeOK, BridgeTypeOK, appVars
  <1>15. ASSUME DrainMtu PROVE TypeOK'
    <2> DEFINE e == Head(EVENTS)
    <2>1. e \in Event /\ e.kind = "MtuExchanged" /\ EVENTS' \in Seq(Event)
      BY <1>0, <1>15, HeadTailProperties DEF DrainMtu, Popped, BridgeTypeOK
    <2>2. e.handle \in Handles /\ e.value \in Nat
      BY <2>1 DEF Event
    <2>3. conn_mtu' \in [Handles -> Nat]
      BY <1>15, <2>2 DEF DrainMtu, TypeOK
    <2> QED BY <1>15, <2>1, <2>3 DEF DrainMtu, Popped, TypeOK, BridgeTypeOK, appVars, historyVars
  <1>16. ASSUME FlushNothing PROVE TypeOK'
    <2>1. EVENTS' \in Seq(Event)
      BY <1>0, <1>16, HeadTailProperties DEF FlushNothing, Popped, BridgeTypeOK
    <2> QED BY <1>16, <2>1
           DEF FlushNothing, Popped, TypeOK, BridgeTypeOK, workerVars, appVars, historyVars
  <1>17. ASSUME Flush PROVE TypeOK'
    <2> DEFINE h == Head(EVENTS).handle
    <2> DEFINE m == Head(pending[h])
    <2>1. /\ Head(EVENTS) \in Event /\ Head(EVENTS).kind = "CanSend"
          /\ Tail(EVENTS) \in Seq(Event)
      BY <1>0, <1>17, HeadTailProperties DEF Flush, Popped, BridgeTypeOK
    <2>2. h \in Handles
      BY <2>1 DEF Event
    <2>3. pending[h] \in Seq(Notification) /\ pending[h] # << >>
      BY <1>17, <2>2 DEF Flush, TypeOK
    <2>4. m \in Notification /\ Tail(pending[h]) \in Seq(Notification)
      BY <2>3, HeadTailProperties
    <2>5. pending' \in [Handles -> Seq(Notification)]
      <3>1. pending' = [pending EXCEPT ![h] = Tail(pending[h])]
        BY <1>17, <2>2 DEF Flush, TypeOK
      <3> QED BY <2>4, <3>1 DEF TypeOK
    <2>6. send_requests' \in [Slots -> Handles \cup {NoHandle}] /\ EVENTS' \in Seq(Event)
      <3>1. RequestMore(h, Tail(pending[h]))
        BY <1>17 DEF Flush
      <3>2. CASE Tail(pending[h]) = << >>
        BY <1>0, <2>1, <3>1, <3>2 DEF RequestMore, BridgeTypeOK
      <3>3. CASE Tail(pending[h]) # << >>
        BY <1>0, <2>1, <2>2, <3>1, <3>3, RequestSendEffect DEF RequestMore
      <3> QED BY <3>2, <3>3
    <2>7. \/ UNCHANGED <<inflight, sent, events, FAILURE>>
          \/ \E status \in NotifyStatus(h) : Transmit(h, m, status)
      BY <1>17 DEF Flush
    <2>8. ASSUME NEW status \in NotifyStatus(h), Transmit(h, m, status)
          PROVE  /\ inflight' \in [Handles -> Nat] /\ sent' \in [Links -> Seq(Transmission)]
                 /\ events' \in Seq(ServerEvent) /\ FAILURE' \in BOOLEAN
      <3>1. FAILURE' \in BOOLEAN
        BY <2>8 DEF Transmit
      <3>2. CASE status = "sent"
        <4> DEFINE t == [id |-> m.id, generation |-> m.generation, len |-> m.len,
                         mtu |-> att_mtu[h]]
        <4>1. t \in Transmission
          BY <1>0, <2>2, <2>4 DEF Transmission, Notification, BridgeTypeOK
        <4>2. /\ inflight' = [inflight EXCEPT ![h] = @ + 1]
              /\ sent' = [sent EXCEPT ![link[h]] = Append(@, t)]
              /\ UNCHANGED events
          BY <2>8, <3>2 DEF Transmit
        <4>3. inflight' \in [Handles -> Nat]
          <5>1. inflight \in [Handles -> Nat]
            BY <1>0 DEF BridgeTypeOK
          <5>2. inflight[h] + 1 \in Nat
            BY <2>2, <5>1
          <5>3. inflight' = [inflight EXCEPT ![h] = inflight[h] + 1]
            BY <4>2
          <5> QED BY <5>1, <5>2, <5>3
        <4>4. sent' \in [Links -> Seq(Transmission)]
          <5>1. sent \in [Links -> Seq(Transmission)] /\ sent' = [sent EXCEPT ![link[h]] = Append(@, t)]
            BY <4>2 DEF TypeOK
          <5> HIDE DEF t
          <5>2. \A l \in Links : Append(sent[l], t) \in Seq(Transmission)
            BY <4>1, <5>1, AppendProperties
          <5> QED BY <5>1, <5>2
        <4> QED BY <3>1, <4>2, <4>3, <4>4 DEF TypeOK
      <3>3. CASE status # "sent"
        <4>1. Report("NotificationFailed", h, m.generation) \in ServerEvent
          BY <2>2, <2>4 DEF Report, ServerEvent, Notification
        <4>2. /\ events' = Append(events, Report("NotificationFailed", h, m.generation))
              /\ UNCHANGED <<inflight, sent>>
          BY <2>8, <3>3 DEF Transmit
        <4>3. events \in Seq(ServerEvent)
          BY DEF TypeOK
        <4>4. events' \in Seq(ServerEvent)
          BY <4>1, <4>2, <4>3, AppendProperties
        <4> QED BY <1>0, <3>1, <4>2, <4>4 DEF TypeOK, BridgeTypeOK
      <3> QED BY <3>2, <3>3
    <2>9. /\ inflight' \in [Handles -> Nat] /\ sent' \in [Links -> Seq(Transmission)]
          /\ events' \in Seq(ServerEvent) /\ FAILURE' \in BOOLEAN
      BY <1>0, <2>7, <2>8 DEF TypeOK, BridgeTypeOK
    <2> QED BY <1>17, <2>5, <2>6, <2>9 DEF Flush, Popped, TypeOK, BridgeTypeOK, appVars
  <1>18. ASSUME DrainCommandFailed PROVE TypeOK'
    <2>1. EVENTS' \in Seq(Event)
      BY <1>0, <1>18, HeadTailProperties DEF DrainCommandFailed, Popped, BridgeTypeOK
    <2> QED BY <1>18, <2>1, ExitType
           DEF DrainCommandFailed, Popped, TypeOK, BridgeTypeOK, historyVars
  <1>19. ASSUME DrainDone PROVE TypeOK'
    BY <1>0, <1>19, BridgeUnchanged DEF DrainDone, TypeOK, workerVars, appVars, historyVars
  <1>20. ASSUME StopPump PROVE TypeOK'
    BY <1>0, <1>20, LinkStepType DEF StopPump, TypeOK, workerVars, appVars, historyVars
  <1>21. ASSUME Finish PROVE TypeOK'
    <2>1. Report("Error", NoHandle, 0) \in ServerEvent
      BY DEF Report, ServerEvent
    <2>2. events' \in Seq(ServerEvent)
      BY <1>21, <2>1, AppendProperties DEF Finish, TypeOK
    <2>3. result' \in {"none", "ok", "error"}
      BY <1>21 DEF Finish, TypeOK
    <2> QED BY <1>0, <1>21, <2>2, <2>3, BridgeUnchanged DEF Finish, TypeOK, appVars
  <1> QED
    BY <1>u, <1>1, <1>2, <1>3, <1>4, <1>5, <1>6, <1>7, <1>8, <1>9, <1>10, <1>11, <1>12, <1>13,
       <1>14, <1>15, <1>16, <1>17, <1>18, <1>19, <1>20, <1>21
       DEF Next, Application, Worker, Environment, Terminated

\* Every variable keeps its type, whatever the environment does.
THEOREM TypeCorrect == Spec => []TypeOK
  BY TypeInit, TypeStep, PTL DEF Spec

-----------------------------------------------------------------------------
(* The connection table follows the links *)

\* No link event is queued in q.
Quiet(q) == \A i \in DOMAIN q : q[i].kind \notin LinkEvents

\* How the queue q of callbacks, BTstack's links lk (the next one is nl) and the
\* runtime's connections co (the next one is nc) fit together.  At most one link
\* event is queued.  A queued Connected is about the one link the runtime has not
\* numbered yet; a queued Disconnected is about a handle that is free again; every
\* handle without a queued link event means the same to both sides.
Agree(q, lk, nl, co, nc) ==
    /\ \A i, j \in DOMAIN q : q[i].kind \in LinkEvents /\ q[j].kind \in LinkEvents => i = j
    /\ \A i \in DOMAIN q : q[i].kind = "Connected" =>
           lk[q[i].handle] = nc /\ nl = nc + 1 /\ co[q[i].handle] = 0
    /\ \A i \in DOMAIN q : q[i].kind = "Disconnected" => lk[q[i].handle] = 0
    /\ (\A i \in DOMAIN q : q[i].kind # "Connected") => nl = nc
    /\ \A h \in Handles :
           (\A i \in DOMAIN q : q[i].kind \in LinkEvents => q[i].handle # h) => co[h] = lk[h]

Agreement ==
    Running => /\ Agree(EVENTS, link, nextLink, connections, NEXT_CONNECTION)
               /\ pc \in {"commands", "receive"} => Quiet(EVENTS)

\* A callback about anything but a link does not disturb the agreement.
LEMMA AgreeAppend ==
    ASSUME NEW q \in Seq(Event), NEW e \in Event, e.kind \notin LinkEvents,
           NEW lk, NEW nl, NEW co, NEW nc, Agree(q, lk, nl, co, nc)
    PROVE  /\ Agree(Append(q, e), lk, nl, co, nc)
           /\ Quiet(q) => Quiet(Append(q, e))
  <1> DEFINE r == Append(q, e)
  <1>1. /\ r \in Seq(Event) /\ Len(q) \in Nat
        /\ DOMAIN q = 1 .. Len(q) /\ DOMAIN r = 1 .. Len(q) + 1
        /\ \A i \in 1 .. Len(q) : r[i] = q[i]
        /\ r[Len(q) + 1] = e
    BY AppendProperties, LenProperties
  <1> HIDE DEF r
  <1>2. \A i \in DOMAIN r : r[i].kind \in LinkEvents => i \in DOMAIN q /\ r[i] = q[i]
    BY <1>1
  <1>3. DOMAIN q \subseteq DOMAIN r /\ \A i \in DOMAIN q : r[i] = q[i]
    BY <1>1
  <1>4. Quiet(q) => Quiet(r)
    BY <1>2 DEF Quiet
  <1>5. Agree(r, lk, nl, co, nc)
    BY <1>2, <1>3 DEF Agree, LinkEvents
  <1> QED BY <1>4, <1>5 DEF r

\* Nor does popping one.
LEMMA AgreeTail ==
    ASSUME NEW q \in Seq(Event), q # << >>, Head(q).kind \notin LinkEvents,
           NEW lk, NEW nl, NEW co, NEW nc, Agree(q, lk, nl, co, nc)
    PROVE  Agree(Tail(q), lk, nl, co, nc)
  <1> DEFINE r == Tail(q)
  <1>1. /\ Len(q) \in Nat /\ Len(q) # 0
        /\ DOMAIN q = 1 .. Len(q) /\ DOMAIN r = 1 .. Len(q) - 1
        /\ \A i \in 1 .. Len(q) - 1 : r[i] = q[i + 1]
        /\ q[1] = Head(q)
    BY HeadTailProperties, LenProperties, EmptySeq
  <1> HIDE DEF r
  <1>2. \A i \in DOMAIN r : i + 1 \in DOMAIN q /\ r[i] = q[i + 1] /\ i \in Nat
    BY <1>1
  <1>3. \A i \in DOMAIN q : q[i].kind \in LinkEvents => i - 1 \in DOMAIN r /\ r[i - 1] = q[i]
    BY <1>1
  <1>4. \A i, j \in DOMAIN r : r[i].kind \in LinkEvents /\ r[j].kind \in LinkEvents => i = j
    BY <1>2 DEF Agree
  <1>5. (\A i \in DOMAIN r : r[i].kind # "Connected") => \A i \in DOMAIN q : q[i].kind # "Connected"
    BY <1>3 DEF LinkEvents
  <1>6. \A h \in Handles :
           (\A i \in DOMAIN r : r[i].kind \in LinkEvents => r[i].handle # h)
               => \A i \in DOMAIN q : q[i].kind \in LinkEvents => q[i].handle # h
    BY <1>3
  <1>7. Agree(r, lk, nl, co, nc)
    BY <1>2, <1>4, <1>5, <1>6 DEF Agree
  <1> QED BY <1>7 DEF r


\* A link event enters a queue that holds none: link h comes up, or goes.
LEMMA AgreeConnected ==
    ASSUME NEW q \in Seq(Event), NEW e \in Event, NEW h \in Handles,
           e.kind = "Connected", e.handle = h, Quiet(q),
           NEW lk \in [Handles -> Nat], NEW nl \in Nat \ {0}, lk[h] = 0,
           NEW co \in [Handles -> Nat], NEW nc \in Nat, Agree(q, lk, nl, co, nc)
    PROVE  Agree(Append(q, e), [lk EXCEPT ![h] = nl], nl + 1, co, nc)
  <1> DEFINE r == Append(q, e)
             l == [lk EXCEPT ![h] = nl]
  <1>1. /\ r \in Seq(Event) /\ Len(q) \in Nat
        /\ DOMAIN q = 1 .. Len(q) /\ DOMAIN r = 1 .. Len(q) + 1
        /\ \A i \in 1 .. Len(q) : r[i] = q[i]
        /\ r[Len(q) + 1] = e
    BY AppendProperties, LenProperties
  <1>2. l[h] = nl /\ \A g \in Handles : g # h => l[g] = lk[g]
    OBVIOUS
  <1> HIDE DEF r, l
  <1>3. \A i \in DOMAIN r : r[i].kind \in LinkEvents => i = Len(q) + 1 /\ r[i] = e
    BY <1>1 DEF Quiet
  <1>4. Len(q) + 1 \in DOMAIN r /\ r[Len(q) + 1].kind = "Connected" /\ r[Len(q) + 1].handle = h
    BY <1>1
  <1>5. nl = nc /\ \A g \in Handles : co[g] = lk[g]
    BY DEF Agree, Quiet, LinkEvents
  <1>6. Agree(r, l, nl + 1, co, nc)
    BY <1>2, <1>3, <1>4, <1>5 DEF Agree, LinkEvents
  <1> QED BY <1>6 DEF r, l

\* A link goes down, and the callback of it is queued.
LEMMA AgreeDisconnected ==
    ASSUME NEW q \in Seq(Event), NEW e \in Event, NEW h \in Handles,
           e.kind = "Disconnected", e.handle = h, Quiet(q),
           NEW lk \in [Handles -> Nat], NEW nl \in Nat,
           NEW co \in [Handles -> Nat], NEW nc \in Nat, Agree(q, lk, nl, co, nc)
    PROVE  Agree(Append(q, e), [lk EXCEPT ![h] = 0], nl, co, nc)
  <1> DEFINE r == Append(q, e)
             l == [lk EXCEPT ![h] = 0]
  <1>1. /\ r \in Seq(Event) /\ Len(q) \in Nat
        /\ DOMAIN q = 1 .. Len(q) /\ DOMAIN r = 1 .. Len(q) + 1
        /\ \A i \in 1 .. Len(q) : r[i] = q[i]
        /\ r[Len(q) + 1] = e
    BY AppendProperties, LenProperties
  <1>2. l[h] = 0 /\ \A g \in Handles : g # h => l[g] = lk[g]
    OBVIOUS
  <1> HIDE DEF r, l
  <1>3. \A i \in DOMAIN r : r[i].kind \in LinkEvents => i = Len(q) + 1 /\ r[i] = e
    BY <1>1 DEF Quiet
  <1>4. Len(q) + 1 \in DOMAIN r /\ r[Len(q) + 1].kind = "Disconnected" /\ r[Len(q) + 1].handle = h
    BY <1>1
  <1>5. nl = nc /\ \A g \in Handles : co[g] = lk[g]
    BY DEF Agree, Quiet, LinkEvents
  <1>6. Agree(r, l, nl, co, nc)
    BY <1>2, <1>3, <1>4, <1>5 DEF Agree, LinkEvents
  <1> QED BY <1>6 DEF r, l

\* run() handles the only link event of the queue.
LEMMA AgreePop ==
    ASSUME NEW q \in Seq(Event), q # << >>, NEW h \in Handles, Head(q).handle = h,
           NEW lk \in [Handles -> Nat], NEW nl \in Nat,
           NEW co \in [Handles -> Nat], NEW nc \in Nat, Agree(q, lk, nl, co, nc)
    PROVE  /\ Head(q).kind = "Connected" =>
                Agree(Tail(q), lk, nl, [co EXCEPT ![h] = nc], nc + 1)
           /\ Head(q).kind = "Disconnected" =>
                Agree(Tail(q), lk, nl, [co EXCEPT ![h] = 0], nc)
  <1> DEFINE r == Tail(q)
  <1>1. /\ Len(q) \in Nat /\ Len(q) # 0
        /\ DOMAIN q = 1 .. Len(q) /\ DOMAIN r = 1 .. Len(q) - 1
        /\ \A i \in 1 .. Len(q) - 1 : r[i] = q[i + 1]
        /\ q[1] = Head(q) /\ 1 \in DOMAIN q
    BY HeadTailProperties, LenProperties, EmptySeq
  <1> HIDE DEF r
  <1>2. ASSUME Head(q).kind \in LinkEvents
        PROVE  /\ Quiet(r)
               /\ \A i \in DOMAIN q : q[i].kind \in LinkEvents => i = 1
               /\ \A g \in Handles : g # h => co[g] = lk[g]
    <2>1. \A i \in DOMAIN q : q[i].kind \in LinkEvents => i = 1
      BY <1>1, <1>2 DEF Agree
    <2>2. \A i \in DOMAIN r : i + 1 \in DOMAIN q /\ r[i] = q[i + 1] /\ i + 1 # 1
      BY <1>1
    <2>3. Quiet(r)
      BY <2>1, <2>2 DEF Quiet
    <2>4. \A g \in Handles : g # h => co[g] = lk[g]
      BY <1>1, <2>1 DEF Agree
    <2> QED BY <2>1, <2>3, <2>4
  <1>3. ASSUME Head(q).kind = "Connected"
        PROVE  Agree(r, lk, nl, [co EXCEPT ![h] = nc], nc + 1)
    <2> DEFINE c == [co EXCEPT ![h] = nc]
    <2>1. c[h] = nc /\ \A g \in Handles : g # h => c[g] = co[g]
      OBVIOUS
    <2> HIDE DEF c
    <2>2. lk[h] = nc /\ nl = nc + 1
      BY <1>1, <1>3 DEF Agree
    <2>3. Quiet(r) /\ \A g \in Handles : g # h => co[g] = lk[g]
      BY <1>2, <1>3 DEF LinkEvents
    <2>4. Agree(r, lk, nl, c, nc + 1)
      BY <2>1, <2>2, <2>3 DEF Agree, Quiet, LinkEvents
    <2> QED BY <2>4 DEF c
  <1>4. ASSUME Head(q).kind = "Disconnected"
        PROVE  Agree(r, lk, nl, [co EXCEPT ![h] = 0], nc)
    <2> DEFINE c == [co EXCEPT ![h] = 0]
    <2>1. c[h] = 0 /\ \A g \in Handles : g # h => c[g] = co[g]
      OBVIOUS
    <2> HIDE DEF c
    <2>2. lk[h] = 0
      BY <1>1, <1>4 DEF Agree
    <2>3. Quiet(r) /\ \A g \in Handles : g # h => co[g] = lk[g]
      BY <1>2, <1>4 DEF LinkEvents
    <2>4. nl = nc
      BY <1>1, <1>2, <1>4 DEF Agree, LinkEvents
    <2>5. Agree(r, lk, nl, c, nc)
      BY <2>1, <2>2, <2>3, <2>4 DEF Agree, Quiet, LinkEvents
    <2> QED BY <2>5 DEF c
  <1> QED BY <1>3, <1>4 DEF r

\* No link, and nothing queued.
LEMMA AgreementInit == Init => Agreement
  BY DEF Init, BridgeInit, Agreement, Agree, Quiet

\* A step that appends at most one callback, not about a link, and does not
\* return to the quiet phases, preserves the agreement.
LEMMA AgreementQuietStep ==
    ASSUME TypeOK, Agreement, Running, NEW q \in Seq(Event),
           q = EVENTS \/ (EVENTS # << >> /\ Head(EVENTS).kind \notin LinkEvents /\ q = Tail(EVENTS)),
           EVENTS' = q \/ (\E e \in Event : e.kind \notin LinkEvents /\ EVENTS' = Append(q, e)),
           UNCHANGED <<link, nextLink, connections, NEXT_CONNECTION>>,
           pc' \in {"commands", "receive"} => pc \in {"commands", "receive"} /\ q = EVENTS
    PROVE  Agreement'
  <1>1. Agree(EVENTS, link, nextLink, connections, NEXT_CONNECTION) /\ EVENTS \in Seq(Event)
    BY DEF Agreement, TypeOK, BridgeTypeOK
  <1>2. Agree(q, link, nextLink, connections, NEXT_CONNECTION)
    BY <1>1, AgreeTail
  <1>3. Agree(EVENTS', link, nextLink, connections, NEXT_CONNECTION)
    BY <1>2, AgreeAppend
  <1>4. pc' \in {"commands", "receive"} => Quiet(EVENTS')
    BY <1>2, AgreeAppend DEF Agreement
  <1> QED BY <1>3, <1>4 DEF Agreement, Agree, Quiet

\* Every step keeps the agreement.
LEMMA AgreementStep == TypeOK /\ Agreement /\ [Next]_vars => Agreement'
  <1> SUFFICES ASSUME TypeOK, Agreement, [Next]_vars, Running' PROVE Agreement'
    BY DEF Agreement
  <1>t. /\ EVENTS \in Seq(Event) /\ link \in [Handles -> Nat] /\ nextLink \in Nat \ {0}
        /\ connections \in [Handles -> Nat] /\ NEXT_CONNECTION \in Nat \ {0}
    BY DEF TypeOK, BridgeTypeOK
  \* Everything the agreement mentions stays, or pc only leaves a quiet phase.
  <1>u. ASSUME UNCHANGED <<EVENTS, link, nextLink, connections, NEXT_CONNECTION>>, Running,
               pc' \in {"commands", "receive"} => pc \in {"commands", "receive"}
        PROVE  Agreement'
    BY <1>t, <1>u, AgreementQuietStep
  <1>1. CASE UNCHANGED vars
    BY <1>1, <1>u DEF vars, bridgeVars, workerVars, Running
  <1>2. CASE Application
    BY <1>2, <1>u DEF Application, Notify, CallTimeout, Shutdown, StopSends, bridgeVars, workerVars, Running
  <1>3. CASE TakeNotify
    <2> DEFINE m == Head(commands)
    <2>1. m.handle \in Handles
      BY <1>3, HeadTailProperties DEF TakeNotify, TypeOK, Command
    <2>2. EVENTS' = EVENTS \/ EVENTS' = Append(EVENTS, event("CanSend", m.handle, 0))
      BY <1>3 DEF TakeNotify, RequestSend
    <2>3. event("CanSend", m.handle, 0) \in Event
          /\ event("CanSend", m.handle, 0).kind \notin LinkEvents
      BY <2>1, EventType DEF TypeOK, EventKind, LinkEvents, event
    <2> QED BY <1>3, <1>t, <2>2, <2>3, AgreementQuietStep DEF TakeNotify, MayTake, Running
  <1>4. CASE CommandsDone \/ PollDone
    BY <1>4, <1>u DEF CommandsDone, PollDone, Exit, bridgeVars, Running
  <1>5. CASE ReceivePacket
    <2>1. Agree(EVENTS, link, nextLink, connections, NEXT_CONNECTION) /\ Quiet(EVENTS)
      BY <1>5 DEF Agreement, ReceivePacket, Running
    <2>2. ASSUME NEW h \in Handles, LeConnected(h) PROVE Agreement'
      <3> DEFINE e == [kind |-> "Connected", handle |-> h, value |-> DefaultMtu, link |-> nextLink]
      <3>1. e \in Event /\ e.kind = "Connected" /\ e.handle = h
        BY <1>t, BridgeAssumption DEF Event, EventKind
      <3>2. Agree(Append(EVENTS, e), [link EXCEPT ![h] = nextLink], nextLink + 1, connections,
                  NEXT_CONNECTION)
        BY <1>t, <2>1, <2>2, <3>1, AgreeConnected DEF LeConnected
      <3>3. Agree(EVENTS', link', nextLink', connections', NEXT_CONNECTION')
        BY <1>5, <2>2, <3>2 DEF LeConnected, ReceivePacket, workerVars
      <3> QED BY <1>5, <3>3 DEF Agreement, ReceivePacket, AfterPacket, Agree
    <2>3. ASSUME NEW h \in Handles, LeDisconnected(h) PROVE Agreement'
      <3> DEFINE e == event("Disconnected", h, 0)
      <3>1. e \in Event /\ e.kind = "Disconnected" /\ e.handle = h
        BY EventType DEF EventKind, event, TypeOK
      <3>2. Agree(Append(EVENTS, e), [link EXCEPT ![h] = 0], nextLink, connections,
                  NEXT_CONNECTION)
        BY <1>t, <2>1, <3>1, AgreeDisconnected
      <3>3. Agree(EVENTS', link', nextLink', connections', NEXT_CONNECTION')
        BY <1>5, <2>3, <3>2 DEF LeDisconnected, Push, ReceivePacket, workerVars
      <3> QED BY <1>5, <3>3 DEF Agreement, ReceivePacket, AfterPacket, Agree
    <2>4. ASSUME NEW h \in Handles, NumCompleted(h) PROVE Agreement'
      BY <1>5, <1>u, <2>4 DEF NumCompleted, ReceivePacket, AfterPacket, workerVars, Running
    <2>5. ASSUME CommandFailed PROVE Agreement'
      <3>1. [kind |-> "CommandFailed", handle |-> NoHandle, value |-> 1, link |-> 0] \in Event
        BY DEF Event
      <3> QED BY <1>5, <1>t, <2>5, <3>1, AgreementQuietStep
             DEF CommandFailed, ReceivePacket, AfterPacket, workerVars, Running, LinkEvents
    <2>6. ASSUME UNCHANGED bridgeVars PROVE Agreement'
      BY <1>5, <1>u, <2>6 DEF ReceivePacket, AfterPacket, workerVars, bridgeVars, Running
    <2> QED BY <1>5, <2>2, <2>3, <2>4, <2>5, <2>6 DEF ReceivePacket
  <1>6. ASSUME NEW h \in Handles, NEW a \in Attributes, NEW on \in BOOLEAN, CccdWrite(h, a, on)
        PROVE  Agreement'
    BY <1>6, <1>u DEF CccdWrite, Running
  <1>7. ASSUME NEW i \in Slots, PollCanSend(i) PROVE Agreement'
    <2>1. send_requests[i] \in Handles
      BY <1>7 DEF PollCanSend, CanSend, TypeOK, BridgeTypeOK
    <2>2. event("CanSend", send_requests[i], 0) \in Event
          /\ event("CanSend", send_requests[i], 0).kind \notin LinkEvents
      BY <2>1, EventType DEF TypeOK, EventKind, LinkEvents, event
    <2> QED BY <1>7, <1>t, <2>2, AgreementQuietStep
           DEF PollCanSend, CanSend, Push, workerVars, Running
  <1>8. ASSUME NEW h \in Handles, PollExchangeMtu(h) PROVE Agreement'
    <2>1. PICK v \in Mtus : EVENTS' = Append(EVENTS, event("MtuExchanged", h, v))
      BY <1>8 DEF PollExchangeMtu, ExchangeMtu, Push
    <2>2. event("MtuExchanged", h, v) \in Event
          /\ event("MtuExchanged", h, v).kind \notin LinkEvents
      BY BridgeAssumption, EventType DEF TypeOK, EventKind, LinkEvents, event
    <2> QED BY <1>8, <1>t, <2>1, <2>2, AgreementQuietStep
           DEF PollExchangeMtu, ExchangeMtu, workerVars, Running
  <1>9. CASE DrainConnected
    <2> DEFINE h == Head(EVENTS).handle
    <2>1. Head(EVENTS) \in Event /\ Head(EVENTS).kind = "Connected" /\ EVENTS # << >>
      BY <1>9, <1>t, HeadTailProperties DEF DrainConnected, Popped
    <2>2. h \in Handles
      BY <2>1 DEF Event
    <2>3. Agree(EVENTS, link, nextLink, connections, NEXT_CONNECTION)
      BY <1>9 DEF Agreement, Running, DrainConnected, Popped
    <2>4. Agree(Tail(EVENTS), link, nextLink, [connections EXCEPT ![h] = NEXT_CONNECTION],
                NEXT_CONNECTION + 1)
      BY <1>t, <2>1, <2>2, <2>3, AgreePop
    <2>5. Agree(EVENTS', link', nextLink', connections', NEXT_CONNECTION')
      BY <1>9, <2>4 DEF DrainConnected
    <2> QED BY <1>9, <2>5 DEF Agreement, Agree, DrainConnected, Popped
  <1>10. CASE DrainDisconnected
    <2> DEFINE h == Head(EVENTS).handle
    <2>1. Head(EVENTS) \in Event /\ Head(EVENTS).kind = "Disconnected" /\ EVENTS # << >>
      BY <1>10, <1>t, HeadTailProperties DEF DrainDisconnected, Popped
    <2>2. h \in Handles
      BY <2>1 DEF Event
    <2>3. Agree(EVENTS, link, nextLink, connections, NEXT_CONNECTION)
      BY <1>10 DEF Agreement, Running, DrainDisconnected, Popped
    <2>4. Agree(Tail(EVENTS), link, nextLink, [connections EXCEPT ![h] = 0], NEXT_CONNECTION)
      BY <1>t, <2>1, <2>2, <2>3, AgreePop
    <2>5. Agree(EVENTS', link', nextLink', connections', NEXT_CONNECTION')
      BY <1>10, <2>4 DEF DrainDisconnected, Removed
    <2> QED BY <1>10, <2>5 DEF Agreement, Agree, DrainDisconnected, Popped
  <1>11. CASE DrainMtu \/ FlushNothing
    <2>1. /\ EVENTS # << >> /\ Head(EVENTS).kind \notin LinkEvents /\ EVENTS' = Tail(EVENTS)
          /\ pc = "drain" /\ pc' = "drain"
          /\ UNCHANGED <<link, nextLink, connections, NEXT_CONNECTION>>
      BY <1>11 DEF DrainMtu, FlushNothing, Popped, LinkEvents, workerVars
    <2>2. Tail(EVENTS) \in Seq(Event)
      BY <1>t, <2>1, HeadTailProperties
    <2> QED BY <2>1, <2>2, AgreementQuietStep DEF Running
  <1>12. CASE Flush
    <2> DEFINE h == Head(EVENTS).handle
    <2>1. /\ Head(EVENTS) \in Event /\ Head(EVENTS).kind = "CanSend" /\ EVENTS # << >>
          /\ Tail(EVENTS) \in Seq(Event)
      BY <1>12, <1>t, HeadTailProperties DEF Flush, Popped
    <2>2. h \in Handles
      BY <2>1 DEF Event
    <2>3. event("CanSend", h, 0) \in Event /\ event("CanSend", h, 0).kind \notin LinkEvents
      BY <2>2, EventType DEF TypeOK, EventKind, LinkEvents, event
    <2>4. EVENTS' = Tail(EVENTS) \/ EVENTS' = Append(Tail(EVENTS), event("CanSend", h, 0))
      BY <1>12 DEF Flush, RequestMore, RequestSend
    <2>5. Head(EVENTS).kind \notin LinkEvents
      BY <2>1 DEF LinkEvents
    <2> QED BY <1>12, <2>1, <2>3, <2>4, <2>5, AgreementQuietStep DEF Flush, Popped, Running
  <1>13. CASE DrainDone
    <2>1. Agree(EVENTS, link, nextLink, connections, NEXT_CONNECTION)
      BY <1>13 DEF Agreement, Running, DrainDone
    <2>2. EVENTS' = EVENTS /\ Quiet(EVENTS)
      BY <1>13 DEF DrainDone, bridgeVars, Quiet
    <2> QED BY <1>13, <2>1, <2>2 DEF DrainDone, Agreement, bridgeVars, workerVars, Agree, Quiet
  <1>14. CASE TakeStop \/ ReceiveFails \/ DrainCommandFailed \/ StopPump \/ Finish
    BY <1>14 DEF TakeStop, ReceiveFails, DrainCommandFailed, StopPump, Finish, Exit, Running
  <1> QED
    BY <1>1, <1>2, <1>3, <1>4, <1>5, <1>6, <1>7, <1>8, <1>9, <1>10, <1>11, <1>12, <1>13, <1>14
       DEF Next, Worker, Environment, Terminated


\* Read off the agreement: what it says of one handle.
LEMMA AgreementTables == TypeOK /\ Agreement => TablesAgree
  <1> SUFFICES ASSUME TypeOK, Agreement, Running, NEW h \in Handles
               PROVE  /\ QueuedFor(h, LinkEvents) = {} => connections[h] = link[h]
                      /\ QueuedFor(h, {"Connected"}) # {} => connections[h] = 0 /\ link[h] # 0
                      /\ QueuedFor(h, {"Disconnected"}) # {} => link[h] = 0
    BY DEF TablesAgree
  <1>1. Agree(EVENTS, link, nextLink, connections, NEXT_CONNECTION)
    BY DEF Agreement
  <1>2. NEXT_CONNECTION # 0
    BY DEF TypeOK
  <1> QED BY <1>1, <1>2 DEF Agree, QueuedFor

\* run() numbers the links in the order BTstack establishes them, forgets a
\* connection exactly when its link is gone, and never confuses two links that
\* share a handle.
THEOREM TablesAlwaysAgree == Spec => []TablesAgree
  <1>1. TypeOK /\ Agreement /\ [Next]_vars => TypeOK' /\ Agreement'
    BY TypeStep, AgreementStep
  <1>2. Init => TypeOK /\ Agreement
    BY TypeInit, AgreementInit
  <1> QED BY <1>1, <1>2, AgreementTables, PTL DEF Spec

-----------------------------------------------------------------------------
(* Nothing outlives its connection *)

\* Nothing is kept at first.
LEMMA LiveInit == Init => StateForLiveOnly
  BY DEF Init, StateForLiveOnly

\* What is kept for a connection goes in the step that removes it.
LEMMA LiveStep == TypeOK /\ Agreement /\ StateForLiveOnly /\ [Next]_vars => StateForLiveOnly'
  <1> SUFFICES ASSUME TypeOK, Agreement, StateForLiveOnly, [Next]_vars PROVE StateForLiveOnly'
    OBVIOUS
  <1>u. ASSUME UNCHANGED <<connections, pending, subscriptions>> PROVE StateForLiveOnly'
    BY <1>u DEF StateForLiveOnly
  <1>1. CASE UNCHANGED vars
    BY <1>1, <1>u DEF vars, workerVars
  <1>2. CASE Application
    BY <1>2, <1>u DEF Application, Notify, CallTimeout, Shutdown, StopSends, workerVars
  <1>3. CASE TakeNotify
    <2> DEFINE m == Head(commands)
               n == [id |-> m.id, generation |-> m.generation, attr |-> m.attr, len |-> m.len]
    <2>1. m.handle \in Handles /\ n \in Notification
      BY <1>3, HeadTailProperties DEF TakeNotify, TypeOK, Command, Notification
    <2>2. CASE ~Acceptable(m)
      BY <1>3, <1>u, <2>2 DEF TakeNotify
    <2>3. CASE Acceptable(m)
      <3>1. pending' = [pending EXCEPT ![m.handle] = Append(@, n)]
        BY <1>3, <2>3 DEF TakeNotify, Enqueue
      <3>2. UNCHANGED <<connections, subscriptions>> /\ connections[m.handle] = n.generation
        BY <1>3, <2>3 DEF TakeNotify, Acceptable
      <3>3. ASSUME NEW h \in Handles, NEW i \in DOMAIN pending'[h]
            PROVE  pending'[h][i].generation = connections[h]
        <4>1. CASE h # m.handle
          BY <3>1, <3>3, <4>1 DEF TypeOK, StateForLiveOnly
        <4>2. CASE h = m.handle
          <5>1. pending[h] \in Seq(Notification) /\ pending'[h] = Append(pending[h], n)
            BY <3>1, <4>2 DEF TypeOK
          <5>2. /\ DOMAIN pending[h] = 1 .. Len(pending[h])
                /\ \/ i \in DOMAIN pending[h] /\ pending'[h][i] = pending[h][i]
                   \/ pending'[h][i] = n
            BY <2>1, <3>3, <5>1, AppendProperties, LenProperties
          <5> QED BY <3>2, <4>2, <5>2 DEF StateForLiveOnly
        <4> QED BY <4>1, <4>2
      <3> QED BY <3>2, <3>3 DEF StateForLiveOnly
    <2> QED BY <2>2, <2>3
  <1>4. CASE TakeStop \/ CommandsDone \/ ReceivePacket \/ ReceiveFails \/ PollDone \/ DrainMtu
             \/ FlushNothing \/ DrainCommandFailed \/ DrainDone \/ StopPump
    BY <1>4, <1>u DEF TakeStop, CommandsDone, ReceivePacket, ReceiveFails, PollDone, DrainMtu,
         FlushNothing, DrainCommandFailed, DrainDone, StopPump, workerVars
  <1>5. ASSUME NEW h \in Handles, NEW a \in Attributes, NEW on \in BOOLEAN, CccdWrite(h, a, on)
        PROVE  StateForLiveOnly'
    <2>1. UNCHANGED <<connections, pending>>
      BY <1>5 DEF CccdWrite
    <2>2. subscriptions' \subseteq subscriptions \cup {<<h, a>>}
          /\ (connections[h] = 0 => subscriptions' = subscriptions)
      BY <1>5 DEF CccdWrite
    <2> QED BY <2>1, <2>2 DEF StateForLiveOnly
  <1>6. ASSUME NEW i \in Slots, PollCanSend(i) PROVE StateForLiveOnly'
    BY <1>6, <1>u DEF PollCanSend, workerVars
  <1>7. ASSUME NEW h \in Handles, PollExchangeMtu(h) PROVE StateForLiveOnly'
    BY <1>7, <1>u DEF PollExchangeMtu, workerVars
  <1>8. CASE DrainConnected
    <2> DEFINE g == Head(EVENTS).handle
    <2>1. EVENTS \in Seq(Event) /\ EVENTS # << >> /\ Head(EVENTS).kind = "Connected"
      BY <1>8 DEF DrainConnected, Popped, TypeOK, BridgeTypeOK
    <2>2. g \in Handles /\ EVENTS[1] = Head(EVENTS) /\ 1 \in DOMAIN EVENTS
      BY <2>1, HeadTailProperties, LenProperties, EmptySeq DEF Event
    <2>3. connections[g] = 0
      BY <1>8, <2>1, <2>2 DEF Agreement, Agree, Running, DrainConnected, Popped
    <2>4. \A i \in DOMAIN pending[g] : FALSE
      <3>1. pending[g] \in Seq(Notification)
        BY <2>2 DEF TypeOK
      <3>2. \A i \in DOMAIN pending[g] : pending[g][i] \in Notification
        BY <3>1
      <3> QED BY <2>2, <2>3, <3>2 DEF StateForLiveOnly, Notification
    <2>5. connections' = [connections EXCEPT ![g] = NEXT_CONNECTION]
          /\ UNCHANGED <<pending, subscriptions>>
      BY <1>8 DEF DrainConnected
    <2>6. NEXT_CONNECTION # 0 /\ connections \in [Handles -> Nat]
      BY DEF TypeOK
    <2> QED BY <2>2, <2>4, <2>5, <2>6 DEF StateForLiveOnly
  <1>9. CASE DrainDisconnected
    <2> DEFINE g == Head(EVENTS).handle
    <2>1. /\ subscriptions' = subscriptions \ ({g} \X Attributes)
          /\ pending' = [pending EXCEPT ![g] = << >>]
          /\ connections' = [connections EXCEPT ![g] = 0]
      BY <1>9 DEF DrainDisconnected, Forgotten, Discarded, Removed
    <2>2. pending \in [Handles -> Seq(Notification)] /\ connections \in [Handles -> Nat]
      BY DEF TypeOK
    <2> QED BY <2>1, <2>2 DEF StateForLiveOnly
  <1>10. CASE Flush
    <2> DEFINE g == Head(EVENTS).handle
    <2>1. /\ pending' = [pending EXCEPT ![g] = Tail(@)] /\ pending[g] # << >>
          /\ UNCHANGED <<connections, subscriptions>>
      BY <1>10 DEF Flush
    <2>2. ASSUME NEW h \in Handles, NEW i \in DOMAIN pending'[h]
          PROVE  pending'[h][i].generation = connections[h]
      <3>1. CASE h # g
        BY <2>1, <2>2, <3>1 DEF TypeOK, StateForLiveOnly
      <3>2. CASE h = g
        <4>1. pending[h] \in Seq(Notification) /\ pending'[h] = Tail(pending[h])
          BY <2>1, <3>2 DEF TypeOK
        <4>2. /\ pending[h] # << >> /\ Len(pending[h]) \in Nat
              /\ DOMAIN pending[h] = 1 .. Len(pending[h])
              /\ DOMAIN Tail(pending[h]) = 1 .. Len(pending[h]) - 1
              /\ \A k \in 1 .. Len(pending[h]) - 1 : Tail(pending[h])[k] = pending[h][k + 1]
          BY <2>1, <3>2, <4>1, HeadTailProperties, LenProperties
        <4>3. i + 1 \in DOMAIN pending[h] /\ pending'[h][i] = pending[h][i + 1]
          BY <2>2, <4>1, <4>2
        <4> QED BY <4>3 DEF StateForLiveOnly
      <3> QED BY <3>1, <3>2
    <2> QED BY <2>1, <2>2 DEF StateForLiveOnly
  <1>11. CASE Finish
    BY <1>11 DEF Finish, StateForLiveOnly
  <1> QED
    BY <1>1, <1>2, <1>3, <1>4, <1>5, <1>6, <1>7, <1>8, <1>9, <1>10, <1>11
       DEF Next, Worker, Environment, Terminated

\* A connection that goes takes its notifications and its CCCDs along, so the
\* next user of the handle starts with nothing.
THEOREM NothingOutlivesConnection == Spec => []StateForLiveOnly
  <1>1. TypeOK /\ Agreement /\ StateForLiveOnly /\ [Next]_vars
            => TypeOK' /\ Agreement' /\ StateForLiveOnly'
    BY TypeStep, AgreementStep, LiveStep
  <1>2. Init => TypeOK /\ Agreement /\ StateForLiveOnly
    BY TypeInit, AgreementInit, LiveInit
  <1> QED BY <1>1, <1>2, PTL DEF Spec

-----------------------------------------------------------------------------
(* A notification only reaches the peer it was accepted for *)

\* Nothing was sent at first.
LEMMA CrossInit == Init => NoCrossDelivery
  BY DEF Init, NoCrossDelivery

\* A value is sent under the number of the link it was accepted for.
LEMMA CrossStep ==
    TypeOK /\ Agreement /\ StateForLiveOnly /\ NoCrossDelivery /\ [Next]_vars => NoCrossDelivery'
  <1> SUFFICES ASSUME TypeOK, Agreement, StateForLiveOnly, NoCrossDelivery, [Next]_vars
               PROVE  NoCrossDelivery'
    OBVIOUS
  <1>u. ASSUME UNCHANGED sent PROVE NoCrossDelivery'
    BY <1>u DEF NoCrossDelivery
  <1>1. ASSUME NEW status, NEW h \in Handles, h = Head(EVENTS).handle, Popped("CanSend"),
               pending[h] # << >>, link[h] # 0, Transmit(h, Head(pending[h]), status)
        PROVE  NoCrossDelivery'
    <2> DEFINE m == Head(pending[h])
               t == [id |-> m.id, generation |-> m.generation, len |-> m.len, mtu |-> att_mtu[h]]
    <2>1. pending[h] \in Seq(Notification) /\ m = pending[h][1] /\ 1 \in DOMAIN pending[h]
      BY <1>1, HeadTailProperties, LenProperties, EmptySeq DEF TypeOK
    <2>2. m.generation = connections[h] /\ m.generation # 0
      <3>1. m \in Notification
        BY <1>1, <2>1, HeadTailProperties
      <3> QED BY <2>1, <3>1 DEF StateForLiveOnly, Notification
    <2>3. TablesAgree /\ Running
      BY <1>1, AgreementTables DEF Popped, Running
    <2>4. EVENTS \in Seq(Event)
      BY DEF TypeOK, BridgeTypeOK
    <2>5. QueuedFor(h, LinkEvents) = {}
      <3>1. QueuedFor(h, LinkEvents) = QueuedFor(h, {"Connected"}) \cup QueuedFor(h, {"Disconnected"})
        BY DEF QueuedFor, LinkEvents
      <3> QED BY <1>1, <2>2, <2>3, <3>1 DEF TablesAgree
    <2>6. connections[h] = link[h]
      BY <2>3, <2>5 DEF TablesAgree
    <2>7. sent' = sent \/ sent' = [sent EXCEPT ![link[h]] = Append(@, t)]
      BY <1>1 DEF Transmit
    <2>8. CASE sent' = sent
      BY <1>u, <2>8
    <2>9. CASE sent' = [sent EXCEPT ![link[h]] = Append(@, t)]
      <3>1. ASSUME NEW l \in Links, NEW i \in DOMAIN sent'[l]
            PROVE  sent'[l][i].generation = l
        <4>1. sent[l] \in Seq(Transmission)
          BY DEF TypeOK
        <4>2. CASE l # link[h]
          BY <2>9, <3>1, <4>1, <4>2 DEF TypeOK, NoCrossDelivery
        <4>3. CASE l = link[h]
          <5>1. sent'[l] = Append(sent[l], t)
            BY <2>9, <4>3 DEF TypeOK
          <5>2. t.generation = l
            BY <2>2, <2>6, <4>3
          <5>3. \/ i \in DOMAIN sent[l] /\ sent'[l][i] = sent[l][i]
                \/ sent'[l][i] = t
            BY <3>1, <4>1, <5>1, AppendProperties, LenProperties
          <5> QED BY <5>2, <5>3 DEF NoCrossDelivery
        <4> QED BY <4>2, <4>3
      <3> QED BY <3>1 DEF NoCrossDelivery
    <2> QED BY <2>7, <2>8, <2>9
  <1>2. CASE Flush
    <2> DEFINE h == Head(EVENTS).handle
    <2>1. /\ Popped("CanSend") /\ pending[h] # << >>
          /\ \/ UNCHANGED sent
             \/ \E status \in NotifyStatus(h) : Transmit(h, Head(pending[h]), status)
      BY <1>2 DEF Flush
    <2>2. h \in Handles
      BY <2>1, HeadTailProperties DEF Popped, Event, TypeOK, BridgeTypeOK
    <2>3. CASE UNCHANGED sent
      BY <1>u, <2>3
    <2>4. ASSUME NEW status \in NotifyStatus(h), Transmit(h, Head(pending[h]), status)
          PROVE  NoCrossDelivery'
      <3>1. CASE link[h] = 0
        BY <1>u, <2>4, <3>1 DEF NotifyStatus, Transmit
      <3>2. CASE link[h] # 0
        BY <1>1, <2>1, <2>2, <2>4, <3>2
      <3> QED BY <3>1, <3>2
    <2> QED BY <2>1, <2>3, <2>4
  <1>3. CASE ~Flush
    <2>1. UNCHANGED sent
      BY <1>3 DEF Next, Application, Worker, Environment, Terminated, vars, historyVars,
           Notify, CallTimeout, Shutdown, StopSends, TakeStop, TakeNotify, CommandsDone, ReceivePacket,
           PollDone, DrainConnected, DrainDisconnected, DrainMtu, FlushNothing,
           DrainCommandFailed, DrainDone, Finish, ReceiveFails, StopPump, CccdWrite,
           PollCanSend, PollExchangeMtu
    <2> QED BY <1>u, <2>1
  <1> QED BY <1>2, <1>3

\* A notification accepted for one connection never leaves on another link,
\* however handles are reused and whatever crosses in the queues.
THEOREM NoCrossDeliveryHolds == Spec => []NoCrossDelivery
  <1>1. TypeOK /\ Agreement /\ StateForLiveOnly /\ NoCrossDelivery /\ [Next]_vars
            => TypeOK' /\ Agreement' /\ StateForLiveOnly' /\ NoCrossDelivery'
    BY TypeStep, AgreementStep, LiveStep, CrossStep
  <1>2. Init => TypeOK /\ Agreement /\ StateForLiveOnly /\ NoCrossDelivery
    BY TypeInit, AgreementInit, LiveInit, CrossInit
  <1> QED BY <1>1, <1>2, PTL DEF Spec

-----------------------------------------------------------------------------
(* Connections are told apart *)

\* What every invariant below may use.
Base == TypeOK /\ Agreement /\ StateForLiveOnly

\* The three are inductive together.
LEMMA BaseInvariant == (Init => Base) /\ (Base /\ [Next]_vars => Base')
  BY TypeInit, TypeStep, AgreementInit, AgreementStep, LiveInit, LiveStep DEF Base

\* While run() loops, the write callback reports a subscription under the number
\* of the very link it came in on.
THEOREM CccdOfItsLinkHolds == Spec => CccdOfItsLink
  <1> DEFINE Attributed == Running /\ writes' # writes /\ events' # events =>
                 events'[Len(events')].generation = link[events'[Len(events')].handle]
  <1>1. ASSUME Base, [Next]_vars PROVE [Attributed]_vars
    <2> SUFFICES ASSUME Running, writes' # writes, events' # events
                 PROVE  events'[Len(events')].generation = link[events'[Len(events')].handle]
      OBVIOUS
    <2>1. PICK h \in Handles, a \in Attributes, on \in BOOLEAN : CccdWrite(h, a, on)
      <3>1. CASE ~\E h \in Handles, a \in Attributes, on \in BOOLEAN : CccdWrite(h, a, on)
        <4>1. UNCHANGED writes
          BY <1>1, <3>1 DEF Next, Application, Worker, Environment, Terminated, vars, historyVars,
             Notify, CallTimeout, Shutdown, StopSends, TakeStop, TakeNotify, CommandsDone, ReceivePacket, PollDone,
             DrainConnected, DrainDisconnected, DrainMtu, FlushNothing, Flush, DrainCommandFailed,
             DrainDone, Finish, ReceiveFails, StopPump, PollCanSend, PollExchangeMtu
        <4> QED BY <4>1
      <3> QED BY <3>1
    <2> DEFINE e == [type |-> "SubscriptionChanged", handle |-> h,
                     generation |-> connections[h], attrs |-> {a}, enabled |-> on]
    <2>2. connections[h] # 0 /\ link[h] # 0 /\ events' = Append(events, e)
      BY <2>1 DEF CccdWrite, AttRespond
    <2>3. TypeOK /\ TablesAgree
      BY <1>1, AgreementTables DEF Base
    <2>4. QueuedFor(h, LinkEvents) = {}
      <3>1. QueuedFor(h, LinkEvents) = QueuedFor(h, {"Connected"}) \cup QueuedFor(h, {"Disconnected"})
        BY DEF QueuedFor, LinkEvents
      <3> QED BY <2>2, <2>3, <3>1 DEF TablesAgree
    <2>5. connections[h] = link[h]
      BY <2>3, <2>4 DEF TablesAgree
    <2>6. e \in ServerEvent /\ events \in Seq(ServerEvent)
      BY <2>2, <2>3 DEF ServerEvent, TypeOK
    <2>7. events'[Len(events')] = e
      <3>1. Len(Append(events, e)) = Len(events) + 1 /\ Append(events, e)[Len(events) + 1] = e
        BY <2>6, AppendProperties
      <3> QED BY <2>2, <3>1
    <2>8. e.generation = connections[h] /\ e.handle = h
      OBVIOUS
    <2> HIDE DEF e
    <2> QED BY <2>5, <2>7, <2>8
  <1>2. Base /\ [Next]_vars => [Attributed]_vars
    BY <1>1
  <1> QED BY <1>2, BaseInvariant, PTL DEF Spec, CccdOfItsLink

\* Two connections never have the same number.
Distinct ==
    /\ \A h \in Handles : connections[h] < NEXT_CONNECTION
    /\ \A g, h \in Handles : g # h /\ connections[g] # 0 => connections[g] # connections[h]

\* No connection at first.
LEMMA DistinctInit == Init => Distinct
  BY DEF Init, Distinct

\* A new connection has a number no other ever had.
LEMMA DistinctStep == TypeOK /\ Distinct /\ [Next]_vars => Distinct'
  <1> SUFFICES ASSUME TypeOK, Distinct, [Next]_vars PROVE Distinct'
    OBVIOUS
  <1>t. connections \in [Handles -> Nat] /\ NEXT_CONNECTION \in Nat \ {0} /\ EVENTS \in Seq(Event)
    BY DEF TypeOK, BridgeTypeOK
  <1>1. CASE DrainConnected
    <2> DEFINE h == Head(EVENTS).handle
    <2>1. /\ connections' = [connections EXCEPT ![h] = NEXT_CONNECTION]
          /\ NEXT_CONNECTION' = NEXT_CONNECTION + 1
      BY <1>1 DEF DrainConnected
    <2> HIDE DEF h
    <2>2. \A g \in Handles : connections'[g] = IF g = h THEN NEXT_CONNECTION ELSE connections[g]
      BY <1>t, <2>1
    <2> QED BY <1>t, <2>1, <2>2 DEF Distinct
  <1>2. CASE DrainDisconnected
    <2> DEFINE h == Head(EVENTS).handle
    <2>1. /\ connections' = [connections EXCEPT ![h] = 0]
          /\ NEXT_CONNECTION' = NEXT_CONNECTION
      BY <1>2 DEF DrainDisconnected, Removed
    <2> HIDE DEF h
    <2>2. \A g \in Handles : connections'[g] = IF g = h THEN 0 ELSE connections[g]
      BY <1>t, <2>1
    <2> QED BY <1>t, <2>1, <2>2 DEF Distinct
  <1>3. CASE Finish
    <2>1. /\ \A g \in Handles : connections'[g] = 0
          /\ NEXT_CONNECTION' = NEXT_CONNECTION
      BY <1>3 DEF Finish
    <2> QED BY <1>t, <2>1 DEF Distinct
  <1>4. CASE ~(DrainConnected \/ DrainDisconnected \/ Finish)
    <2>1. UNCHANGED <<connections, NEXT_CONNECTION>>
      BY <1>4 DEF Next, Application, Worker, Environment, Terminated, vars, workerVars,
           Notify, CallTimeout, Shutdown, StopSends, TakeStop, TakeNotify, CommandsDone, ReceivePacket,
           PollDone, DrainMtu, FlushNothing, Flush, DrainCommandFailed, DrainDone, ReceiveFails,
           StopPump, CccdWrite, PollCanSend, PollExchangeMtu
    <2> QED BY <2>1 DEF Distinct
  <1> QED BY <1>1, <1>2, <1>3, <1>4

\* Connections are numbered after the links they are for.
Numbered == NEXT_CONNECTION <= nextLink /\ nextLink <= MaxLinks + 1

\* Links and connections are numbered from one.
LEMMA NumberedInit == Init => Numbered
  BY BridgeAssumption DEF Init, BridgeInit, Numbered

\* Every step keeps the numbers in range.
LEMMA NumberedStep == TypeOK /\ Agreement /\ Numbered /\ [Next]_vars => Numbered'
  <1> SUFFICES ASSUME TypeOK, Agreement, Numbered, [Next]_vars PROVE Numbered'
    OBVIOUS
  <1>t. NEXT_CONNECTION \in Nat /\ nextLink \in Nat /\ MaxLinks \in Nat /\ EVENTS \in Seq(Event)
    BY BridgeAssumption DEF TypeOK, BridgeTypeOK
  <1>1. CASE DrainConnected
    <2>1. /\ EVENTS # << >> /\ Head(EVENTS).kind = "Connected" /\ Running
          /\ NEXT_CONNECTION' = NEXT_CONNECTION + 1 /\ UNCHANGED nextLink
      BY <1>1 DEF DrainConnected, Popped, Running
    <2>2. 1 \in DOMAIN EVENTS /\ EVENTS[1] = Head(EVENTS)
      BY <1>t, <2>1, LenProperties, EmptySeq
    <2>3. nextLink = NEXT_CONNECTION + 1
      BY <2>1, <2>2 DEF Agreement, Agree
    <2> QED BY <1>t, <2>1, <2>3 DEF Numbered
  <1>2. CASE ReceivePacket \/ StopPump
    <2>1. /\ UNCHANGED NEXT_CONNECTION
          /\ UNCHANGED nextLink \/ (nextLink <= MaxLinks /\ nextLink' = nextLink + 1)
      BY <1>2 DEF ReceivePacket, StopPump, LeConnected, LeDisconnected, NumCompleted,
           CommandFailed, bridgeVars, workerVars
    <2> QED BY <1>t, <2>1 DEF Numbered
  <1>3. CASE ~(DrainConnected \/ ReceivePacket \/ StopPump)
    <2>1. UNCHANGED <<nextLink, NEXT_CONNECTION>>
      BY <1>3 DEF Next, Application, Worker, Environment, Terminated, vars, workerVars, bridgeVars,
           Notify, CallTimeout, Shutdown, StopSends, TakeStop, TakeNotify, CommandsDone, ReceiveFails,
           PollDone, DrainDisconnected, DrainMtu, FlushNothing, Flush, DrainCommandFailed,
           DrainDone, Finish, CccdWrite, PollCanSend, CanSend, PollExchangeMtu, ExchangeMtu
    <2> QED BY <2>1 DEF Numbered
  <1> QED BY <1>1, <1>2, <1>3

\* What the refinements rest on.
Naming == Base /\ Distinct /\ Numbered

\* Names of connections are right in every reachable state.
LEMMA NamingInvariant == (Init => Naming) /\ (Naming /\ [Next]_vars => Naming')
  BY BaseInvariant, DistinctInit, DistinctStep, NumberedInit, NumberedStep DEF Naming, Base

\* An open connection was opened, under a number in range.
LEMMA OpenLinks ==
    ASSUME TypeOK, Distinct, Numbered
    PROVE  OpenNow \subseteq Opened /\ Opened \subseteq Links
  BY BridgeAssumption DEF OpenNow, Opened, Links, TypeOK, BridgeTypeOK, Distinct, Numbered

\* What is at the front of a queue belongs to the connection of its handle.
LEMMA FrontIsLive ==
    ASSUME TypeOK, StateForLiveOnly, NEW h \in Handles, pending[h] # << >>
    PROVE  /\ Head(pending[h]) \in Notification
           /\ Head(pending[h]).generation = connections[h] /\ connections[h] # 0
  <1>1. /\ pending[h] \in Seq(Notification) /\ Head(pending[h]) = pending[h][1]
        /\ 1 \in DOMAIN pending[h] /\ Head(pending[h]) \in Notification
    BY HeadTailProperties, LenProperties, EmptySeq DEF TypeOK
  <1> QED BY <1>1 DEF StateForLiveOnly, Notification

\* The handle DrainConnected is about has no connection, and one more link exists.
LEMMA NextConnection ==
    ASSUME TypeOK, Agreement, DrainConnected
    PROVE  LET h == Head(EVENTS).handle
           IN  /\ h \in Handles /\ connections[h] = 0 /\ nextLink = NEXT_CONNECTION + 1
               /\ connections' = [connections EXCEPT ![h] = NEXT_CONNECTION]
  <1>t. EVENTS \in Seq(Event)
    BY DEF TypeOK, BridgeTypeOK
  <1>1. /\ EVENTS # << >> /\ Head(EVENTS).kind = "Connected" /\ Running
        /\ connections' = [connections EXCEPT ![Head(EVENTS).handle] = NEXT_CONNECTION]
    BY DEF DrainConnected, Popped, Running
  <1>2. 1 \in DOMAIN EVENTS /\ EVENTS[1] = Head(EVENTS)
    BY <1>t, <1>1, LenProperties, EmptySeq
  <1>3. Head(EVENTS).handle \in Handles
    BY <1>t, <1>1, HeadTailProperties DEF Event
  <1> QED BY <1>1, <1>2, <1>3 DEF Agreement, Agree

-----------------------------------------------------------------------------
(* GattRuntime is a source of the event stream *)

Stream == [i \in DOMAIN events |-> Seen(events[i])]
Subscribed == {<<connections[s[1]], s[2]>> : s \in subscriptions}
StreamSeen == <<Stream, OpenNow, Subscribed, pc = "done">>

\* No event names a connection that has not been numbered yet.
Reported == \A i \in DOMAIN events : events[i].generation < NEXT_CONNECTION

\* The events a step may send are about no connection or a live one.
LEMMA EventSent ==
    ASSUME Naming, [Next]_vars
    PROVE  \/ events' = events
           \/ \E e \in ServerEvent : /\ events' = Append(events, e)
                                     /\ e.generation < NEXT_CONNECTION'
  <1>t. /\ TypeOK /\ Distinct /\ StateForLiveOnly /\ Agreement
        /\ EVENTS \in Seq(Event) /\ events \in Seq(ServerEvent)
        /\ connections \in [Handles -> Nat] /\ pending \in [Handles -> Seq(Notification)]
        /\ NEXT_CONNECTION \in Nat \ {0}
    BY DEF Naming, Base, TypeOK, BridgeTypeOK
  <1>1. ASSUME NEW h \in Handles, NEW a \in Attributes, NEW on \in BOOLEAN, CccdWrite(h, a, on), ~UNCHANGED events
        PROVE  \E e \in ServerEvent : events' = Append(events, e) /\ e.generation < NEXT_CONNECTION'
    <2> DEFINE e == [type |-> "SubscriptionChanged", handle |-> h,
                     generation |-> connections[h], attrs |-> {a}, enabled |-> on]
    <2>1. connections[h] # 0 /\ events' = Append(events, e) /\ UNCHANGED NEXT_CONNECTION
      BY <1>1 DEF CccdWrite
    <2>2. e \in ServerEvent /\ e.generation < NEXT_CONNECTION
      BY <1>t, <2>1 DEF ServerEvent, Distinct
    <2> QED BY <2>1, <2>2
  <1>2. CASE DrainConnected
    <2>1. PICK h \in Handles : h = Head(EVENTS).handle
      BY <1>2, <1>t, NextConnection
    <2> DEFINE e == Report("Connected", h, NEXT_CONNECTION)
    <2>2. events' = Append(events, e) /\ NEXT_CONNECTION' = NEXT_CONNECTION + 1
      BY <1>2, <2>1 DEF DrainConnected
    <2>3. e \in ServerEvent /\ e.generation = NEXT_CONNECTION
      BY <1>t DEF ServerEvent, Report
    <2> QED BY <1>t, <2>2, <2>3
  <1>3. CASE DrainDisconnected
    <2>1. PICK h \in Handles : h = Head(EVENTS).handle
      BY <1>3, <1>t, HeadTailProperties DEF DrainDisconnected, Popped, Event
    <2> DEFINE e == Report("Disconnected", h, connections[h])
    <2>2. /\ UNCHANGED NEXT_CONNECTION
          /\ events' = IF connections[h] = 0 THEN events ELSE Append(events, e)
      BY <1>3, <2>1 DEF DrainDisconnected
    <2>3. connections[h] # 0 => e \in ServerEvent /\ e.generation < NEXT_CONNECTION
      BY <1>t DEF ServerEvent, Report, Distinct
    <2> QED BY <2>2, <2>3
  <1>4. CASE Flush
    <2>1. PICK h \in Handles : h = Head(EVENTS).handle
      BY <1>4, <1>t, HeadTailProperties DEF Flush, Popped, Event
    <2> DEFINE m == Head(pending[h])
               e == Report("NotificationFailed", h, m.generation)
    <2>2. /\ UNCHANGED NEXT_CONNECTION /\ pending[h] # << >>
          /\ events' = events \/ events' = Append(events, e)
      BY <1>4, <2>1 DEF Flush, Transmit
    <2>3. m.generation = connections[h] /\ connections[h] # 0
      BY <1>t, <2>2, FrontIsLive
    <2>4. e \in ServerEvent /\ e.generation < NEXT_CONNECTION
      BY <1>t, <2>3 DEF ServerEvent, Report, Distinct
    <2> QED BY <2>2, <2>4
  <1>5. CASE Finish
    <2> DEFINE e == Report("Error", NoHandle, 0)
    <2>1. UNCHANGED NEXT_CONNECTION /\ (events' = events \/ events' = Append(events, e))
      BY <1>5 DEF Finish
    <2>2. e \in ServerEvent /\ e.generation < NEXT_CONNECTION
      BY <1>t DEF ServerEvent, Report
    <2> QED BY <2>1, <2>2
  <1>6. CASE ~(DrainConnected \/ DrainDisconnected \/ Flush \/ Finish
               \/ \E h \in Handles, a \in Attributes, on \in BOOLEAN : CccdWrite(h, a, on))
    BY <1>6 DEF Next, Application, Worker, Environment, Terminated, vars, historyVars,
       Notify, CallTimeout, Shutdown, StopSends, TakeStop, TakeNotify, CommandsDone, ReceivePacket,
       PollDone, DrainMtu, FlushNothing, DrainCommandFailed, DrainDone,
       ReceiveFails, StopPump, PollCanSend, PollExchangeMtu
  <1> QED BY <1>1, <1>2, <1>3, <1>4, <1>5, <1>6

\* Numbers are never taken back.
LEMMA NumbersGrow == TypeOK /\ [Next]_vars => NEXT_CONNECTION <= NEXT_CONNECTION'
  <1> SUFFICES ASSUME TypeOK, [Next]_vars PROVE NEXT_CONNECTION <= NEXT_CONNECTION'
    OBVIOUS
  <1>1. NEXT_CONNECTION \in Nat
    BY DEF TypeOK
  <1>2. CASE DrainConnected
    BY <1>1, <1>2 DEF DrainConnected
  <1>3. CASE ~DrainConnected
    <2>1. UNCHANGED NEXT_CONNECTION
      BY <1>3 DEF Next, Application, Worker, Environment, Terminated, vars, workerVars,
           Notify, CallTimeout, Shutdown, StopSends, TakeStop, TakeNotify, CommandsDone, ReceivePacket,
           PollDone, DrainDisconnected, DrainMtu, FlushNothing, Flush, DrainCommandFailed, DrainDone,
           Finish, ReceiveFails, StopPump, CccdWrite, PollCanSend, PollExchangeMtu
    <2> QED BY <1>1, <2>1
  <1> QED BY <1>2, <1>3

\* Every step keeps that.
LEMMA ReportedStep == Naming /\ Reported /\ [Next]_vars => Reported'
  <1> SUFFICES ASSUME Naming, Reported, [Next]_vars PROVE Reported'
    OBVIOUS
  <1>1. /\ events \in Seq(ServerEvent) /\ NEXT_CONNECTION \in Nat
        /\ NEXT_CONNECTION' \in Nat /\ NEXT_CONNECTION <= NEXT_CONNECTION'
    <2>1. TypeOK /\ TypeOK'
      BY TypeStep DEF Naming, Base
    <2> QED BY <2>1, NumbersGrow DEF TypeOK
  <1>2. \A i \in DOMAIN events : events[i].generation \in Nat
    <2>1. \A i \in DOMAIN events : events[i] \in ServerEvent
      BY <1>1, LenProperties, ElementOfSeq
    <2>2. ASSUME NEW e \in ServerEvent PROVE e.generation \in Nat
      <3>1. e.generation \in Nat \ {0} \/ e.generation \in {0}
        BY DEF ServerEvent
      <3> QED BY <3>1
    <2> QED BY <2>1, <2>2
  <1>3. CASE events' = events
    BY <1>1, <1>2, <1>3 DEF Reported
  <1>4. ASSUME NEW e \in ServerEvent, events' = Append(events, e), e.generation < NEXT_CONNECTION'
        PROVE  Reported'
    <2>1. \A i \in DOMAIN events' : (i \in DOMAIN events /\ events'[i] = events[i]) \/ events'[i] = e
      BY <1>1, <1>4, AppendProperties, LenProperties
    <2> QED BY <1>1, <1>2, <1>4, <2>1 DEF Reported
  <1> QED BY <1>3, <1>4, EventSent

\* An event sent is one more in the stream.
LEMMA SeenAppend ==
    ASSUME events \in Seq(ServerEvent), NEW e \in ServerEvent, events' = Append(events, e)
    PROVE  Stream' = Append(Stream, Seen(e))
  <1> DEFINE T == {Seen(d) : d \in ServerEvent}
  <1>1. /\ events' \in Seq(ServerEvent) /\ Len(events') = Len(events) + 1 /\ Len(events) \in Nat
        /\ DOMAIN events = 1 .. Len(events) /\ DOMAIN events' = 1 .. Len(events) + 1
        /\ \A i \in 1 .. Len(events) : events'[i] = events[i]
        /\ events'[Len(events) + 1] = e
    BY AppendProperties, LenProperties
  <1>2. /\ \A i \in 1 .. Len(events) : Seen(events[i]) \in T
        /\ \A i \in 1 .. Len(events) + 1 : Seen(events'[i]) \in T
        /\ Seen(e) \in T
    <2>1. \A i \in 1 .. Len(events) : events[i] \in ServerEvent
      BY ElementOfSeq
    <2>2. \A i \in 1 .. Len(events) + 1 : events'[i] \in ServerEvent
      BY <1>1, ElementOfSeq
    <2> QED BY <2>1, <2>2
  <1> HIDE DEF T
  <1>3. /\ Stream = [i \in 1 .. Len(events) |-> Seen(events[i])]
        /\ Stream' = [i \in 1 .. Len(events) + 1 |-> Seen(events'[i])]
    BY <1>1 DEF Stream, Seen
  <1>4. /\ Stream \in Seq(T) /\ Len(Stream) = Len(events)
        /\ \A i \in 1 .. Len(events) : Stream[i] = Seen(events[i])
    BY <1>1, <1>2, <1>3
  <1>5. /\ Stream' \in Seq(T) /\ Len(Stream') = Len(events) + 1
        /\ \A i \in 1 .. Len(events) + 1 : Stream'[i] = Seen(events'[i])
    BY <1>1, <1>2, <1>3
  <1> DEFINE S == Append(Stream, Seen(e))
  <1>6. /\ S \in Seq(T) /\ Len(S) = Len(events) + 1 /\ S[Len(events) + 1] = Seen(e)
        /\ \A i \in 1 .. Len(events) : S[i] = Stream[i]
    <2>1. /\ S \in Seq(T) /\ Len(S) = Len(Stream) + 1 /\ S[Len(Stream) + 1] = Seen(e)
          /\ \A i \in 1 .. Len(Stream) : S[i] = Stream[i]
      <3>1. Stream \in Seq(T) /\ Seen(e) \in T
        BY <1>2, <1>4
      <3> QED BY <3>1, AppendProperties
    <2> HIDE DEF S
    <2> QED BY <1>4, <2>1
  <1> HIDE DEF S
  <1>7. \A i \in 1 .. Len(events) + 1 : Stream'[i] = S[i]
    BY <1>1, <1>4, <1>5, <1>6
  <1>8. Stream' = S
    BY <1>5, <1>6, <1>7, SeqEqual
  <1> QED BY <1>8 DEF S

\* The stream starts empty.
LEMMA ChannelInit == Init => Channel!StreamInit
  <1> SUFFICES ASSUME Init PROVE Channel!StreamInit
    OBVIOUS
  <1>1. events = << >> /\ OpenNow = {} /\ subscriptions = {} /\ pc # "done"
    BY DEF Init, OpenNow
  <1> QED BY <1>1 DEF Channel!StreamInit

\* A step that changes none of this is none of the channel.
LEMMA StutterOfStream ==
    ASSUME UNCHANGED <<connections, subscriptions, events>>, (pc = "done") = (pc' = "done")
    PROVE  UNCHANGED StreamSeen
  BY DEF StreamSeen, OpenNow, Stream, Subscribed, Seen

\* The write callback on a known link is Subscribe.
LEMMA CccdSubscribes ==
    ASSUME Naming, NEW h \in Handles, NEW a \in Attributes, NEW on \in BOOLEAN,
           CccdWrite(h, a, on), connections[h] # 0
    PROVE  Channel!StreamNext
  <1> DEFINE g == connections[h]
             e == [type |-> "SubscriptionChanged", handle |-> h,
                   generation |-> g, attrs |-> {a}, enabled |-> on]
  <1>1. /\ TypeOK /\ Distinct /\ Numbered /\ events \in Seq(ServerEvent)
        /\ connections \in [Handles -> Nat] /\ subscriptions \subseteq Handles \X Attributes
        /\ events' = Append(events, e) /\ UNCHANGED <<connections, pc>> /\ pc # "done"
        /\ subscriptions' = IF on THEN subscriptions \cup {<<h, a>>} ELSE subscriptions \ {<<h, a>>}
    BY DEF CccdWrite, Naming, Base, TypeOK
  <1>2. g \in OpenNow /\ OpenNow' = OpenNow
    BY <1>1 DEF OpenNow
  <1>3. g \in Links
    BY <1>1, <1>2, OpenLinks
  <1>4. e \in ServerEvent
    BY <1>1 DEF ServerEvent
  <1>5. Stream' = Append(Stream, Seen(e))
    BY <1>1, <1>4, SeenAppend
  <1>6. Seen(e) = [type |-> "SubscriptionChanged", connection |-> g, attrs |-> {a}, enabled |-> on]
    BY DEF Seen
  <1> HIDE DEF e
  <1>7. Subscribed' = {<<connections[s[1]], s[2]>> : s \in subscriptions'}
    BY <1>1 DEF Subscribed
  <1>8. \A s \in subscriptions : s[1] \in Handles /\ s = <<s[1], s[2]>>
    BY <1>1
  <1>9. Subscribed' = IF on THEN Subscribed \cup {<<g, a>>} ELSE Subscribed \ {<<g, a>>}
    <2>1. CASE on
      <3>1. subscriptions' = subscriptions \cup {<<h, a>>}
        BY <1>1, <2>1
      <3>2. Subscribed' = {<<connections[s[1]], s[2]>> : s \in subscriptions}
                            \cup {<<connections[s[1]], s[2]>> : s \in {<<h, a>>}}
        BY <1>7, <3>1
      <3>3. {<<connections[s[1]], s[2]>> : s \in {<<h, a>>}} = {<<g, a>>}
        OBVIOUS
      <3>4. Subscribed' = Subscribed \cup {<<g, a>>}
        BY <3>2, <3>3 DEF Subscribed
      <3> QED BY <2>1, <3>4
    <2>2. CASE ~on
      <3>1. subscriptions' = subscriptions \ {<<h, a>>}
        BY <1>1, <2>2
      <3>2. \A s \in subscriptions : <<connections[s[1]], s[2]>> = <<g, a>> => s = <<h, a>>
        BY <1>1, <1>8 DEF Distinct
      <3>3. Subscribed' = Subscribed \ {<<g, a>>}
        BY <1>7, <3>1, <3>2 DEF Subscribed
      <3> QED BY <2>2, <3>3
    <2> QED BY <2>1, <2>2
  <1>10. Channel!Subscribe(g, a, on)
    BY <1>1, <1>2, <1>5, <1>6, <1>9 DEF Channel!Subscribe, Stream, Subscribed
  <1> QED BY <1>1, <1>3, <1>10 DEF Channel!StreamNext, Channel!Report

\* Draining a connection is Connect.
LEMMA ConnectedReports ==
    ASSUME Naming, Reported, DrainConnected
    PROVE  Channel!StreamNext
  <1> DEFINE g == NEXT_CONNECTION
  <1>1. /\ TypeOK /\ Agreement /\ StateForLiveOnly /\ Numbered /\ events \in Seq(ServerEvent)
        /\ connections \in [Handles -> Nat] /\ subscriptions \subseteq Handles \X Attributes
        /\ g \in Nat \ {0} /\ nextLink \in Nat /\ MaxLinks \in Nat
        /\ UNCHANGED <<subscriptions, pc>> /\ pc = "drain"
    BY BridgeAssumption DEF DrainConnected, Popped, Naming, Base, TypeOK, BridgeTypeOK
  <1>2. PICK h \in Handles : /\ connections[h] = 0 /\ nextLink = g + 1
                             /\ connections' = [connections EXCEPT ![h] = g]
                             /\ events' = Append(events, Report("Connected", h, g))
    BY <1>1, NextConnection DEF DrainConnected
  <1> DEFINE e == Report("Connected", h, g)
  <1>3. g \in Links
    BY <1>1, <1>2 DEF Links, Numbered
  <1>4. OpenNow' = OpenNow \cup {g}
    BY <1>1, <1>2 DEF OpenNow
  <1>5. e \in ServerEvent /\ Seen(e) = Channel!Plain("Connected", g)
    BY <1>1 DEF ServerEvent, Report, Seen, Channel!Plain
  <1>6. Stream' = Append(Stream, Seen(e))
    BY <1>1, <1>2, <1>5, SeenAppend
  <1>7. \A i \in DOMAIN Stream : Stream[i].connection # g
    <2>1. \A i \in DOMAIN Stream : i \in DOMAIN events /\ Stream[i].connection = events[i].generation
      BY DEF Stream, Seen
    <2>2. \A i \in DOMAIN events : events[i].generation # g
      BY <1>1 DEF Reported
    <2> QED BY <2>1, <2>2
  <1>8. Subscribed' = Subscribed
    <2>1. \A s \in subscriptions : connections'[s[1]] = connections[s[1]]
      BY <1>1, <1>2 DEF StateForLiveOnly
    <2>2. Subscribed' = {<<connections'[s[1]], s[2]>> : s \in subscriptions}
      BY <1>1 DEF Subscribed
    <2> QED BY <2>1, <2>2 DEF Subscribed
  <1>9. Channel!Connect(g)
    BY <1>1, <1>4, <1>5, <1>6, <1>7, <1>8 DEF Channel!Connect, Stream, Subscribed
  <1> QED BY <1>1, <1>3, <1>9 DEF Channel!StreamNext, Channel!Report

\* Draining a disconnection is Disconnect, or nothing if it was unknown.
LEMMA DisconnectedReports ==
    ASSUME Naming, DrainDisconnected
    PROVE  Channel!StreamNext \/ UNCHANGED StreamSeen
  <1>1. /\ TypeOK /\ Distinct /\ StateForLiveOnly /\ Numbered /\ events \in Seq(ServerEvent)
        /\ EVENTS \in Seq(Event)
        /\ connections \in [Handles -> Nat] /\ subscriptions \subseteq Handles \X Attributes
        /\ UNCHANGED pc /\ pc = "drain"
    BY DEF DrainDisconnected, Popped, Naming, Base, TypeOK, BridgeTypeOK
  <1>2. PICK h \in Handles : h = Head(EVENTS).handle
    BY <1>1, HeadTailProperties DEF DrainDisconnected, Popped, Event
  \* A constant: Disconnect takes its product with the characteristics.
  <1>g. PICK g \in Nat : g = connections[h]
    BY <1>1
  <1> DEFINE e == Report("Disconnected", h, g)
  <1>3. /\ connections' = [connections EXCEPT ![h] = 0]
        /\ subscriptions' = subscriptions \ ({h} \X Attributes)
        /\ events' = IF g = 0 THEN events ELSE Append(events, e)
    BY <1>2, <1>g DEF DrainDisconnected, Removed, Forgotten
  <1>4. CASE g = 0
    <2>1. connections' = connections /\ subscriptions' = subscriptions
      BY <1>1, <1>3, <1>4, <1>g DEF StateForLiveOnly
    <2> QED BY <1>1, <1>3, <1>4, <1>g, <2>1, StutterOfStream
  <1>5. CASE g # 0
    <2>1. g \in OpenNow /\ OpenNow' = OpenNow \ {g}
      BY <1>1, <1>3, <1>5, <1>g DEF OpenNow, Distinct
    <2>2. g \in Links
      BY <1>1, <2>1, OpenLinks
    <2>3. e \in ServerEvent /\ Seen(e) = Channel!Plain("Disconnected", g)
      BY <1>1, <1>5, <1>g DEF ServerEvent, Report, Seen, Channel!Plain
    <2>4. Stream' = Append(Stream, Seen(e))
      BY <1>1, <1>3, <1>5, <1>g, <2>3, SeenAppend
    <2>5. Subscribed' = Subscribed \ ({g} \X Attributes)
      <3>1. Subscribed' = {<<connections'[s[1]], s[2]>> : s \in subscriptions'}
        BY DEF Subscribed
      <3>2. \A s \in subscriptions : s[1] \in Handles /\ s[2] \in Attributes /\ s = <<s[1], s[2]>>
        BY <1>1
      <3>3. \A s \in subscriptions : s \in subscriptions' <=> s[1] # h
        BY <1>3, <3>2
      <3>4. \A s \in subscriptions : s[1] # h => connections'[s[1]] = connections[s[1]] /\ connections[s[1]] # g
        BY <1>1, <1>3, <1>5, <1>g, <3>2 DEF Distinct
      <3>5. \A s \in subscriptions' : s \in subscriptions
        BY <1>3
      <3>6. ASSUME NEW x \in Subscribed' PROVE x \in Subscribed \ ({g} \X Attributes)
        <4>1. PICK s \in subscriptions' : x = <<connections'[s[1]], s[2]>>
          BY <3>1, <3>6
        <4> QED BY <3>3, <3>4, <3>5, <4>1 DEF Subscribed
      <3>7. ASSUME NEW x \in Subscribed, x \notin {g} \X Attributes PROVE x \in Subscribed'
        <4>1. PICK s \in subscriptions : x = <<connections[s[1]], s[2]>>
          BY <3>7 DEF Subscribed
        <4>2. s[1] # h
          BY <1>g, <3>2, <3>7, <4>1
        <4> QED BY <3>1, <3>3, <3>4, <4>1, <4>2
      <3> QED BY <3>6, <3>7
    <2> HIDE DEF e
    <2>6. Channel!Disconnect(g)
      BY <1>1, <2>1, <2>3, <2>4, <2>5 DEF Channel!Disconnect, Stream, Subscribed
    <2>7. Channel!Report
      BY <2>2, <2>6 DEF Channel!Report
    <2> QED BY <1>1, <2>7 DEF Channel!StreamNext
  <1> QED BY <1>4, <1>5

\* A notification that could not be sent is reported for its live connection.
LEMMA FlushReports ==
    ASSUME Naming, Flush
    PROVE  Channel!StreamNext \/ UNCHANGED StreamSeen
  <1>1. /\ TypeOK /\ StateForLiveOnly /\ Distinct /\ Numbered /\ events \in Seq(ServerEvent)
        /\ EVENTS \in Seq(Event) /\ connections \in [Handles -> Nat]
        /\ UNCHANGED <<connections, subscriptions, pc>> /\ pc = "drain"
    BY DEF Flush, Popped, Naming, Base, TypeOK, BridgeTypeOK
  <1>2. PICK h \in Handles : h = Head(EVENTS).handle
    BY <1>1, HeadTailProperties DEF Flush, Popped, Event
  <1> DEFINE m == Head(pending[h])
             e == Report("NotificationFailed", h, m.generation)
             g == connections[h]
  <1>3. pending[h] # << >> /\ (events' = events \/ events' = Append(events, e))
    BY <1>2 DEF Flush, Transmit
  <1>4. m.generation = g /\ g # 0
    BY <1>1, <1>3, FrontIsLive
  <1>5. CASE events' = events
    BY <1>1, <1>5, StutterOfStream
  <1>6. CASE events' = Append(events, e)
    <2>1. g \in OpenNow /\ OpenNow' = OpenNow
      BY <1>1, <1>4 DEF OpenNow
    <2>2. g \in Links
      BY <1>1, <2>1, OpenLinks
    <2>3. e \in ServerEvent /\ Seen(e) = Channel!Plain("NotificationFailed", g)
      BY <1>1, <1>4 DEF ServerEvent, Report, Seen, Channel!Plain
    <2>4. Stream' = Append(Stream, Seen(e))
      BY <1>1, <1>6, <2>3, SeenAppend
    <2>5. Subscribed' = Subscribed
      BY <1>1 DEF Subscribed
    <2> HIDE DEF e
    <2>6. Channel!Fail(g)
      BY <1>1, <2>1, <2>3, <2>4, <2>5 DEF Channel!Fail, Stream, Subscribed
    <2> QED BY <1>1, <2>2, <2>6 DEF Channel!StreamNext, Channel!Report
  <1> QED BY <1>3, <1>5, <1>6

\* The end of the worker is End.
LEMMA FinishEnds ==
    ASSUME Naming, Finish
    PROVE  Channel!StreamNext
  <1> DEFINE e == Report("Error", NoHandle, 0)
             failed == result' = "error"
  <1>1. /\ events \in Seq(ServerEvent) /\ pc # "done" /\ pc' = "done"
        /\ events' = IF failed THEN Append(events, e) ELSE events
        /\ OpenNow' = {} /\ Subscribed' = {}
    BY DEF Finish, Naming, Base, TypeOK, OpenNow, Subscribed
  <1>2. e \in ServerEvent /\ Seen(e) = Channel!Plain("Error", 0)
    BY DEF ServerEvent, Report, Seen, Channel!Plain
  <1> HIDE DEF e
  <1>3. Stream' = IF failed THEN Append(Stream, Channel!Plain("Error", 0)) ELSE Stream
    <2>1. CASE failed
      BY <1>1, <1>2, <2>1, SeenAppend
    <2>2. CASE ~failed
      BY <1>1, <2>2 DEF Stream, Seen
    <2> QED BY <2>1, <2>2
  <1> HIDE DEF failed
  <1>4. CASE failed
    <2>1. Channel!End(TRUE)
      BY <1>1, <1>3, <1>4 DEF Channel!End, Stream, Subscribed
    <2> QED BY <2>1 DEF Channel!StreamNext
  <1>5. CASE ~failed
    <2>1. Channel!End(FALSE)
      BY <1>1, <1>3, <1>5 DEF Channel!End, Stream, Subscribed
    <2> QED BY <2>1 DEF Channel!StreamNext
  <1> QED BY <1>4, <1>5

\* Every step of the runtime is one of the channel, or none.
LEMMA ChannelStep ==
    ASSUME Naming, Reported, [Next]_vars
    PROVE  [Channel!StreamNext]_(Channel!streamVars)
  <1> SUFFICES Channel!StreamNext \/ UNCHANGED StreamSeen
    BY DEF StreamSeen, Channel!streamVars, Stream, Subscribed
  <1>1. ASSUME NEW h \in Handles, NEW a \in Attributes, NEW on \in BOOLEAN, CccdWrite(h, a, on)
        PROVE  Channel!StreamNext \/ UNCHANGED StreamSeen
    <2>1. CASE connections[h] # 0
      BY <1>1, <2>1, CccdSubscribes
    <2>2. CASE connections[h] = 0
      BY <1>1, <2>2, StutterOfStream DEF CccdWrite
    <2> QED BY <2>1, <2>2
  <1>2. CASE DrainConnected \/ Finish
    BY <1>2, ConnectedReports, FinishEnds
  <1>3. CASE DrainDisconnected \/ Flush
    BY <1>3, DisconnectedReports, FlushReports
  <1>4. CASE ~(DrainConnected \/ DrainDisconnected \/ Flush \/ Finish
               \/ \E h \in Handles, a \in Attributes, on \in BOOLEAN : CccdWrite(h, a, on))
    <2>1. UNCHANGED <<connections, subscriptions, events>> /\ (pc = "done") = (pc' = "done")
      BY <1>4 DEF Next, Application, Worker, Environment, Terminated, vars, workerVars, historyVars,
         Notify, CallTimeout, Shutdown, StopSends, TakeStop, TakeNotify, CommandsDone, ReceivePacket,
         PollDone, DrainMtu, FlushNothing, DrainCommandFailed, DrainDone, Exit, MayTake, AfterPacket,
         ReceiveFails, StopPump, PollCanSend, PollExchangeMtu, Popped
    <2> QED BY <2>1, StutterOfStream
  <1> QED BY <1>1, <1>2, <1>3, <1>4

\* The events the runtime sends are a stream the channel promises: a connection
\* opens once and first, closes at most once and last, its subscriptions can be
\* followed, and nothing comes after the end of the worker.
THEOREM EventStreamProvided == Spec => ReportsEvents
  <1>1. Init => Reported
    BY DEF Init, Reported
  <1>2. Naming /\ Reported /\ [Next]_vars => [Channel!StreamNext]_(Channel!streamVars)
    BY ChannelStep
  <1> QED BY <1>1, <1>2, ReportedStep, NamingInvariant, ChannelInit, PTL
          DEF Spec, ReportsEvents, Channel!StreamSpec

-----------------------------------------------------------------------------
(* What the stream says of one connection *)

\* Told of once: Connected is the first event of a connection and only the
\* first, Disconnected the last, and Error the last of all.
OneLife(s) ==
    \A j \in DOMAIN s :
        IF s[j].type = "Error" THEN j = Len(s)
        ELSE /\ s[j].type = "Connected" <=>
                   \A i \in 1 .. j - 1 : s[i].connection # s[j].connection
             /\ \A i \in 1 .. j - 1 : s[i].connection = s[j].connection => s[i].type # "Disconnected"

\* The connections a reader of the stream takes for open.
StillOpen(s) ==
    {g \in Links : /\ \E i \in DOMAIN s : s[i].connection = g
                   /\ \A i \in DOMAIN s : s[i].connection = g => s[i].type # "Disconnected"}

\* The events as the application has them.
Sayings == [type : {"Connected", "Disconnected", "NotificationFailed", "SubscriptionChanged", "Error"},
            connection : Nat, attrs : SUBSET Attributes, enabled : BOOLEAN]

NoErrorIn(s) == \A i \in DOMAIN s : s[i].type # "Error"

\* Until the worker is done, a reader takes for open what the code has open.
Told ==
    /\ OneLife(Stream)
    /\ pc # "done" => OpenNow = StillOpen(Stream) /\ NoErrorIn(Stream)

\* The indices of a stream that is one event longer.
LEMMA OneEventMore ==
    ASSUME NEW E, NEW s \in Seq(E), NEW e \in E
    PROVE  /\ Len(s) \in Nat /\ DOMAIN s = 1 .. Len(s) /\ DOMAIN Append(s, e) = 1 .. Len(s) + 1
           /\ Len(Append(s, e)) = Len(s) + 1
           /\ Append(s, e)[Len(s) + 1] = e /\ \A i \in 1 .. Len(s) : Append(s, e)[i] = s[i]
  <1>1. /\ Append(s, e) \in Seq(E) /\ Len(Append(s, e)) = Len(s) + 1
        /\ Append(s, e)[Len(s) + 1] = e /\ \A i \in 1 .. Len(s) : Append(s, e)[i] = s[i]
    BY AppendProperties
  <1> QED BY <1>1, LenProperties

\* An event that opens a new connection, or is about an open one, keeps the
\* account straight.
LEMMA LifeGoesOn ==
    ASSUME NEW E, NEW s \in Seq(E), NEW e \in E, OneLife(s), NoErrorIn(s),
           e.connection \in Links, e.type # "Error",
           \/ e.type = "Connected" /\ \A i \in DOMAIN s : s[i].connection # e.connection
           \/ e.type # "Connected" /\ e.connection \in StillOpen(s)
    PROVE  /\ OneLife(Append(s, e)) /\ NoErrorIn(Append(s, e))
           /\ StillOpen(Append(s, e)) = IF e.type = "Disconnected" THEN StillOpen(s) \ {e.connection}
                                        ELSE StillOpen(s) \cup {e.connection}
  <1> DEFINE n == Len(s)
             t == Append(s, e)
  <1>1. /\ n \in Nat /\ DOMAIN s = 1 .. n /\ DOMAIN t = 1 .. n + 1 /\ Len(t) = n + 1
        /\ t[n + 1] = e /\ \A i \in 1 .. n : t[i] = s[i]
    BY OneEventMore
  <1> HIDE DEF n, t
  <1>2. NoErrorIn(t)
    BY <1>1 DEF NoErrorIn
  <1>3. ASSUME NEW j \in 1 .. n
        PROVE  /\ t[j].type = "Connected" <=> \A i \in 1 .. j - 1 : t[i].connection # t[j].connection
               /\ \A i \in 1 .. j - 1 : t[i].connection = t[j].connection => t[i].type # "Disconnected"
    <2>1. t[j] = s[j] /\ \A i \in 1 .. j - 1 : t[i] = s[i]
      BY <1>1
    <2>2. /\ s[j].type = "Connected" <=> \A i \in 1 .. j - 1 : s[i].connection # s[j].connection
          /\ \A i \in 1 .. j - 1 : s[i].connection = s[j].connection => s[i].type # "Disconnected"
      BY <1>1 DEF OneLife, NoErrorIn
    <2> QED BY <2>1, <2>2
  <1>4. /\ e.type = "Connected" <=> \A i \in 1 .. n : s[i].connection # e.connection
        /\ \A i \in 1 .. n : s[i].connection = e.connection => s[i].type # "Disconnected"
    BY <1>1 DEF StillOpen
  <1>5. OneLife(t)
    <2> SUFFICES ASSUME NEW j \in DOMAIN t
                 PROVE  /\ t[j].type = "Connected" <=> \A i \in 1 .. j - 1 : t[i].connection # t[j].connection
                        /\ \A i \in 1 .. j - 1 : t[i].connection = t[j].connection => t[i].type # "Disconnected"
      BY <1>2 DEF OneLife, NoErrorIn
    <2>1. CASE j = n + 1
      <3>1. j - 1 = n /\ t[j] = e
        BY <1>1, <2>1
      <3> QED BY <1>1, <1>4, <3>1
    <2>2. CASE j \in 1 .. n
      BY <1>3, <2>2
    <2> QED BY <1>1, <2>1, <2>2
  <1>6. StillOpen(t) = IF e.type = "Disconnected" THEN StillOpen(s) \ {e.connection}
                       ELSE StillOpen(s) \cup {e.connection}
    <2>1. 1 .. n + 1 = (1 .. n) \cup {n + 1}
      BY <1>1
    <2>2. ASSUME NEW g \in Links
          PROVE  g \in StillOpen(t) <=> /\ g \in StillOpen(s) \/ g = e.connection
                                        /\ g = e.connection => e.type # "Disconnected"
      <3>1. (\E i \in 1 .. n + 1 : t[i].connection = g)
              <=> (\E i \in 1 .. n : s[i].connection = g) \/ g = e.connection
        BY <1>1, <2>1
      <3>2. (\A i \in 1 .. n + 1 : t[i].connection = g => t[i].type # "Disconnected")
              <=> /\ \A i \in 1 .. n : s[i].connection = g => s[i].type # "Disconnected"
                  /\ g = e.connection => e.type # "Disconnected"
        BY <1>1, <2>1
      <3> QED BY <1>1, <1>4, <3>1, <3>2 DEF StillOpen
    <2>3. StillOpen(s) \subseteq Links /\ StillOpen(t) \subseteq Links
      BY DEF StillOpen
    <2> QED BY <2>2, <2>3
  <1> QED BY <1>2, <1>5, <1>6 DEF t

\* The last word.
LEMMA LifeEnds ==
    ASSUME NEW E, NEW s \in Seq(E), NEW e \in E, OneLife(s), NoErrorIn(s), e.type = "Error"
    PROVE  OneLife(Append(s, e))
  <1> DEFINE n == Len(s)
             t == Append(s, e)
  <1>1. /\ n \in Nat /\ DOMAIN s = 1 .. n /\ DOMAIN t = 1 .. n + 1 /\ Len(t) = n + 1
        /\ t[n + 1] = e /\ \A i \in 1 .. n : t[i] = s[i]
    BY OneEventMore
  <1> HIDE DEF n, t
  <1>2. ASSUME NEW j \in 1 .. n
        PROVE  /\ t[j].type # "Error"
               /\ t[j].type = "Connected" <=> \A i \in 1 .. j - 1 : t[i].connection # t[j].connection
               /\ \A i \in 1 .. j - 1 : t[i].connection = t[j].connection => t[i].type # "Disconnected"
    <2>1. t[j] = s[j] /\ \A i \in 1 .. j - 1 : t[i] = s[i]
      BY <1>1
    <2>2. /\ s[j].type # "Error"
          /\ s[j].type = "Connected" <=> \A i \in 1 .. j - 1 : s[i].connection # s[j].connection
          /\ \A i \in 1 .. j - 1 : s[i].connection = s[j].connection => s[i].type # "Disconnected"
      BY <1>1 DEF OneLife, NoErrorIn
    <2> QED BY <2>1, <2>2
  <1>3. \A j \in DOMAIN t : j \in 1 .. n \/ (j = Len(t) /\ t[j].type = "Error")
    BY <1>1
  <1>4. OneLife(t)
    BY <1>2, <1>3 DEF OneLife
  <1> QED BY <1>4 DEF t

\* What a step of the channel may do, as a reader sees it.
LEMMA ChannelTells ==
    ASSUME Channel!StreamNext
    PROVE  /\ pc # "done"
           /\ \/ \E g \in Links : /\ \A i \in DOMAIN Stream : Stream[i].connection # g
                                  /\ Stream' = Append(Stream, Channel!Plain("Connected", g))
                                  /\ OpenNow' = OpenNow \cup {g}
              \/ \E e \in Sayings :
                    /\ e.connection \in OpenNow \cap Links
                    /\ e.type \notin {"Connected", "Error"}
                    /\ Stream' = Append(Stream, e)
                    /\ OpenNow' = IF e.type = "Disconnected" THEN OpenNow \ {e.connection} ELSE OpenNow
              \/ /\ pc' = "done"
                 /\ Stream' = Stream \/ Stream' = Append(Stream, Channel!Plain("Error", 0))
  <1>1. \A type \in {"Connected", "Disconnected", "NotificationFailed"}, g \in Links :
           /\ Channel!Plain(type, g) \in Sayings
           /\ Channel!Plain(type, g).type = type /\ Channel!Plain(type, g).connection = g
    BY DEF Channel!Plain, Sayings, Links
  <1>2. CASE \E failed \in BOOLEAN : Channel!End(failed)
    BY <1>2 DEF Channel!End, Stream
  <1>3. ASSUME pc # "done", NEW g \in Links, Channel!Connect(g)
        PROVE  /\ \A i \in DOMAIN Stream : Stream[i].connection # g
               /\ Stream' = Append(Stream, Channel!Plain("Connected", g))
               /\ OpenNow' = OpenNow \cup {g}
    BY <1>3 DEF Channel!Connect, Stream
  <1>4. ASSUME pc # "done", NEW g \in Links, Channel!Fail(g) \/ Channel!Disconnect(g)
        PROVE  \E e \in Sayings :
                    /\ e.connection \in OpenNow \cap Links
                    /\ e.type \notin {"Connected", "Error"}
                    /\ Stream' = Append(Stream, e)
                    /\ OpenNow' = IF e.type = "Disconnected" THEN OpenNow \ {e.connection} ELSE OpenNow
    <2>1. CASE Channel!Fail(g)
      <3>1. /\ g \in OpenNow /\ Stream' = Append(Stream, Channel!Plain("NotificationFailed", g))
            /\ OpenNow' = OpenNow
        BY <2>1 DEF Channel!Fail, Stream
      <3> QED BY <1>1, <3>1
    <2>2. CASE Channel!Disconnect(g)
      <3>1. /\ g \in OpenNow /\ Stream' = Append(Stream, Channel!Plain("Disconnected", g))
            /\ OpenNow' = OpenNow \ {g}
        BY <2>2 DEF Channel!Disconnect, Stream
      <3> QED BY <1>1, <3>1
    <2> QED BY <1>4, <2>1, <2>2
  <1>5. ASSUME pc # "done", NEW g \in Links, NEW a \in Attributes, NEW on \in BOOLEAN,
               Channel!Subscribe(g, a, on)
        PROVE  \E e \in Sayings :
                    /\ e.connection \in OpenNow \cap Links
                    /\ e.type \notin {"Connected", "Error"}
                    /\ Stream' = Append(Stream, e)
                    /\ OpenNow' = IF e.type = "Disconnected" THEN OpenNow \ {e.connection} ELSE OpenNow
    <2> DEFINE e == [type |-> "SubscriptionChanged", connection |-> g, attrs |-> {a}, enabled |-> on]
    <2>1. g \in OpenNow /\ Stream' = Append(Stream, e) /\ OpenNow' = OpenNow
      BY <1>5 DEF Channel!Subscribe, Stream
    <2>2. e \in Sayings
      BY DEF Sayings, Links
    <2>3. e.connection = g /\ e.type = "SubscriptionChanged"
      OBVIOUS
    <2> HIDE DEF e
    <2>4. g \in OpenNow \cap Links
      BY <2>1
    <2>5. e.type \notin {"Connected", "Error"} /\ e.type # "Disconnected"
      BY <2>3
    <2> WITNESS e \in Sayings
    <2> QED BY <2>1, <2>3, <2>4, <2>5
  <1> QED BY <1>2, <1>3, <1>4, <1>5 DEF Channel!StreamNext, Channel!Report, Channel!End

\* A step of the channel keeps the account.
LEMMA ToldStep ==
    ASSUME Stream \in Seq(Sayings), Told, [Channel!StreamNext]_(Channel!streamVars)
    PROVE  Told'
  <1>1. CASE UNCHANGED (Channel!streamVars)
    <2>1. Stream' = Stream /\ OpenNow' = OpenNow /\ (pc' = "done") = (pc = "done")
      BY <1>1 DEF Channel!streamVars, Stream
    <2> QED BY <2>1 DEF Told, OneLife, StillOpen, NoErrorIn
  <1>2. CASE Channel!StreamNext
    <2> DEFINE E == Sayings
    <2>0. PICK s \in Seq(E) : s = Stream
      OBVIOUS
    <2>1. pc # "done" /\ OneLife(s) /\ NoErrorIn(s) /\ OpenNow = StillOpen(s)
      BY <1>2, <2>0, ChannelTells DEF Told
    <2>2. ASSUME NEW t, t = Stream', OneLife(t), pc' = "done" \/ (NoErrorIn(t) /\ OpenNow' = StillOpen(t))
          PROVE  Told'
      BY <2>2 DEF Told, OneLife, StillOpen, NoErrorIn
    <2>3. ASSUME NEW g \in Links, \A i \in DOMAIN Stream : Stream[i].connection # g,
                 Stream' = Append(Stream, Channel!Plain("Connected", g)), OpenNow' = OpenNow \cup {g}
          PROVE  Told'
      <3> DEFINE e == Channel!Plain("Connected", g)
      <3>1. e \in E /\ e.type = "Connected" /\ e.connection = g
        BY DEF Channel!Plain, Sayings, Links
      <3> HIDE DEF e, E
      <3>2. /\ OneLife(Append(s, e)) /\ NoErrorIn(Append(s, e))
            /\ StillOpen(Append(s, e)) = StillOpen(s) \cup {g}
        BY <2>0, <2>1, <2>3, <3>1, LifeGoesOn
      <3>3. Stream' = Append(s, e)
        BY <2>0, <2>3 DEF e
      <3> QED BY <2>1, <2>2, <2>3, <3>2, <3>3
    <2>4. ASSUME NEW e \in Sayings, e.connection \in OpenNow \cap Links,
                 e.type \notin {"Connected", "Error"}, Stream' = Append(Stream, e),
                 OpenNow' = IF e.type = "Disconnected" THEN OpenNow \ {e.connection} ELSE OpenNow
          PROVE  Told'
      <3> HIDE DEF E
      <3>0. e \in E
        BY DEF E
      <3>1. /\ OneLife(Append(s, e)) /\ NoErrorIn(Append(s, e))
            /\ StillOpen(Append(s, e)) = IF e.type = "Disconnected" THEN StillOpen(s) \ {e.connection}
                                         ELSE StillOpen(s) \cup {e.connection}
        BY <2>1, <2>4, <3>0, LifeGoesOn
      <3>2. OpenNow' = StillOpen(Append(s, e))
        BY <2>1, <2>4, <3>1
      <3>3. Stream' = Append(s, e)
        BY <2>0, <2>4
      <3> QED BY <2>2, <3>1, <3>2, <3>3
    <2>5. ASSUME pc' = "done", Stream' = Stream \/ Stream' = Append(Stream, Channel!Plain("Error", 0))
          PROVE  Told'
      <3> DEFINE e == Channel!Plain("Error", 0)
      <3>1. e \in E /\ e.type = "Error"
        BY DEF Channel!Plain, Sayings
      <3> HIDE DEF e, E
      <3>2. OneLife(Append(s, e))
        BY <2>1, <3>1, LifeEnds
      <3>3. Stream' = s \/ Stream' = Append(s, e)
        BY <2>0, <2>5 DEF e
      <3> QED BY <2>1, <2>2, <2>5, <3>2, <3>3
    <2> QED BY <1>2, <2>3, <2>4, <2>5, ChannelTells
  <1> QED BY <1>1, <1>2

\* The application is told of each connection once: Connected comes first and
\* is not repeated, whatever becomes of the handle nothing comes after
\* Disconnected, and Error is the last event there is.
THEOREM EachConnectionLivesOnce == Spec => []OneLife(Stream)
  <1>1. Init => Told
    <2> SUFFICES ASSUME Init PROVE Told
      OBVIOUS
    <2>1. DOMAIN Stream = {} /\ OpenNow = {}
      BY EmptySeq DEF Init, Stream, OpenNow
    <2> QED BY <2>1 DEF Told, OneLife, StillOpen, NoErrorIn
  <1>2. Naming => Stream \in Seq(Sayings)
    <2> SUFFICES ASSUME Naming PROVE Stream \in Seq(Sayings)
      OBVIOUS
    <2>1. events \in Seq(ServerEvent)
      BY DEF Naming, Base, TypeOK
    <2>2. \A d \in ServerEvent : Seen(d) \in Sayings
      <3>1. ASSUME NEW d \in ServerEvent
            PROVE  /\ d.type \in {"Connected", "Disconnected", "NotificationFailed", "SubscriptionChanged", "Error"}
                   /\ d.generation \in Nat /\ d.attrs \in SUBSET Attributes /\ d.enabled \in BOOLEAN
        <4>1. CASE d \in [type : {"Connected", "Disconnected", "SubscriptionChanged", "NotificationFailed"},
                           handle : Handles, generation : Nat \ {0},
                           attrs : SUBSET Attributes, enabled : BOOLEAN]
          BY <4>1
        <4>2. CASE d \in [type : {"Error"}, handle : {NoHandle}, generation : {0},
                           attrs : {{}}, enabled : {FALSE}]
          <5>1. d.type \in {"Error"} /\ d.generation \in {0} /\ d.attrs \in {{}}
            BY <4>2
          <5>2. d.enabled \in {FALSE}
            BY <4>2, Zenon
          <5>3. d.enabled \in BOOLEAN
            BY <5>2, Zenon
          <5> QED BY <5>1, <5>3
        <4> QED BY <4>1, <4>2 DEF ServerEvent
      <3> QED BY <3>1 DEF Seen, Sayings
    <2>3. /\ DOMAIN events = 1 .. Len(events) /\ Len(events) \in Nat
          /\ \A i \in 1 .. Len(events) : events[i] \in ServerEvent
      BY <2>1, LenProperties, ElementOfSeq
    <2>4. Stream \in [1 .. Len(events) -> Sayings]
      BY <2>2, <2>3 DEF Stream
    <2> QED BY <2>3, <2>4, SeqDef
  <1>3. Naming /\ Reported /\ Told /\ [Next]_vars => Told'
    BY <1>2, ChannelStep, ToldStep
  <1>4. Init => Reported
    BY DEF Init, Reported
  <1>5. Told => OneLife(Stream)
    BY DEF Told
  <1> QED BY <1>1, <1>3, <1>4, <1>5, ReportedStep, NamingInvariant, PTL DEF Spec

-----------------------------------------------------------------------------
(* Answers *)

Notifies == {i \in DOMAIN commands : commands[i] # Stop}

\* The application numbers its calls in order; a command in the channel is one
\* of a call that waits or has given up, newer than every accepted call.
CallsInOrder ==
    /\ \A c, d \in Calls : c < d /\ calls[c] = "none" => calls[d] = "none"
    /\ \A i \in Notifies : calls[commands[i].id] \in {"waiting", "timeout"}
    /\ \A i, j \in Notifies : i < j => commands[i].id < commands[j].id
    /\ \A c \in accepted, i \in Notifies : c < commands[i].id
    /\ \A c \in accepted : calls[c] \in {"ok", "timeout"}
    /\ \A c \in Calls : calls[c] = "ok" => c \in accepted

\* No call was made at first.
LEMMA CallsInOrderInit == Init => CallsInOrder
  BY DEF Init, CallsInOrder, Notifies

\* A command names a call.
LEMMA CommandTypes == ASSUME TypeOK PROVE \A i \in Notifies : commands[i].id \in Calls
  BY DEF TypeOK, Notifies, Command, Stop

\* A command enters the channel.
LEMMA AppendCommand ==
    ASSUME TypeOK, NEW m \in Command, commands' = Append(commands, m)
    PROVE  /\ \A i \in Notifies' : \/ i \in Notifies /\ commands'[i] = commands[i] /\ i \in 1 .. Len(commands)
                                   \/ i = Len(commands) + 1 /\ commands'[i] = m /\ m # Stop
           /\ Len(commands) \in Nat
  <1>1. /\ Len(commands) \in Nat
        /\ DOMAIN commands = 1 .. Len(commands) /\ DOMAIN commands' = 1 .. Len(commands) + 1
        /\ \A i \in 1 .. Len(commands) : commands'[i] = commands[i]
        /\ commands'[Len(commands) + 1] = m
    BY AppendProperties, LenProperties DEF TypeOK
  <1> QED BY <1>1 DEF Notifies

\* Every step keeps the order of the calls.
LEMMA CallsInOrderStep == TypeOK /\ CallsInOrder /\ [Next]_vars => CallsInOrder'
  <1> SUFFICES ASSUME TypeOK, CallsInOrder, [Next]_vars PROVE CallsInOrder'
    OBVIOUS
  <1>t. calls \in [Calls -> {"none", "waiting", "ok", "refused", "timeout"}] /\ accepted \subseteq Calls
    BY DEF TypeOK
  <1>u. ASSUME UNCHANGED <<commands, calls, accepted>> PROVE CallsInOrder'
    BY <1>u DEF CallsInOrder, Notifies
  <1>e. ASSUME NEW r, Exit(r), UNCHANGED accepted PROVE CallsInOrder'
    <2>1. /\ Notifies' = {}
          /\ calls' = [c \in Calls |-> IF calls[c] = "waiting" THEN "timeout" ELSE calls[c]]
      BY <1>e DEF Exit, Notifies
    <2> QED BY <1>t, <1>e, <2>1 DEF CallsInOrder
  <1>1. ASSUME NEW c \in Calls, NEW k \in Known, NEW a \in Attributes, NEW n \in Lens,
               Notify(c, k[1], k[2], a, n)
        PROVE  CallsInOrder'
    <2> DEFINE m == [op |-> "Notify", handle |-> k[1], generation |-> k[2], id |-> c,
                     attr |-> a, len |-> n]
    <2>1. /\ calls[c] = "none" /\ \A d \in Calls : d < c => calls[d] # "none"
          /\ accepted' = accepted
      BY <1>1 DEF Notify, NextCall, historyVars
    <2>2. Calls \subseteq Nat
      BY DEF Calls
    <2>3. \A d \in Calls : calls[d] # "none" => d < c
      BY <2>1, <2>2 DEF CallsInOrder
    <2>4. CASE commands' = Append(commands, m) /\ calls' = [calls EXCEPT ![c] = "waiting"]
      <3>1. m \in Command
        <4>1. PICK i \in DOMAIN events : /\ events[i].type = "Connected"
                                         /\ k = <<events[i].handle, events[i].generation>>
          BY DEF Known
        <4>2. events[i] \in ServerEvent
          BY DEF TypeOK
        <4>3. k[1] \in Handles /\ k[2] \in Nat \ {0}
          BY <4>1, <4>2 DEF ServerEvent
        <4> QED BY <4>3 DEF Command
      <3>2. \A i \in Notifies' : \/ i \in Notifies /\ commands'[i] = commands[i] /\ i \in 1 .. Len(commands)
                                 \/ i = Len(commands) + 1 /\ commands'[i] = m
        BY <2>4, <3>1, AppendCommand
      <3>3. Len(commands) \in Nat
        BY <2>4, <3>1, AppendCommand
      <3>4. m.id = c
        OBVIOUS
      <3>5. \A i \in Notifies : commands[i].id \in Calls /\ commands[i].id < c
        BY <2>3, CommandTypes DEF CallsInOrder
      <3>6. calls'[c] = "waiting" /\ \A d \in Calls : d # c => calls'[d] = calls[d]
        BY <1>t, <2>4
      <3>7. \A i \in Notifies' : calls'[commands'[i].id] \in {"waiting", "timeout"}
        BY <3>2, <3>4, <3>5, <3>6 DEF CallsInOrder
      <3>8. \A i, j \in Notifies' : i < j => commands'[i].id < commands'[j].id
        BY <3>2, <3>3, <3>4, <3>5 DEF CallsInOrder
      <3>9. \A d \in accepted, i \in Notifies' : d < commands'[i].id
        BY <1>t, <2>3, <3>2, <3>4 DEF CallsInOrder
      <3>10. \A d \in accepted : calls'[d] \in {"ok", "timeout"}
        BY <1>t, <2>1, <3>6 DEF CallsInOrder
      <3>11. \A d, e \in Calls : d < e /\ calls'[d] = "none" => calls'[e] = "none"
        BY <2>1, <2>2, <3>6 DEF CallsInOrder
      <3> QED BY <1>t, <2>1, <3>6, <3>7, <3>8, <3>9, <3>10, <3>11 DEF CallsInOrder
    <2>5. CASE commands' = commands /\ calls' = [calls EXCEPT ![c] = "refused"]
      <3>1. calls'[c] = "refused" /\ \A d \in Calls : d # c => calls'[d] = calls[d]
        BY <1>t, <2>5
      <3>2. \A i \in Notifies : commands[i].id \in Calls /\ commands[i].id # c
        BY <2>1, CommandTypes DEF CallsInOrder
      <3>3. Notifies' = Notifies
        BY <2>5 DEF Notifies
      <3>4. \A d, e \in Calls : d < e /\ calls'[d] = "none" => calls'[e] = "none"
        BY <2>1, <2>2, <3>1 DEF CallsInOrder
      <3>5. \A d \in accepted : calls'[d] \in {"ok", "timeout"}
        BY <1>t, <2>1, <3>1 DEF CallsInOrder
      <3> QED BY <1>t, <2>1, <2>5, <3>1, <3>2, <3>3, <3>4, <3>5 DEF CallsInOrder
    <2> QED BY <1>1, <2>4, <2>5 DEF Notify
  <1>2. ASSUME NEW c \in Calls, CallTimeout(c) PROVE CallsInOrder'
    <2>1. /\ calls[c] = "waiting" /\ UNCHANGED <<commands, accepted>>
          /\ calls'[c] = "timeout" /\ \A d \in Calls : d # c => calls'[d] = calls[d]
      BY <1>2, <1>t DEF CallTimeout, historyVars
    <2>2. Notifies' = Notifies /\ \A i \in Notifies : commands[i].id \in Calls
      BY <2>1, CommandTypes DEF Notifies
    <2> QED BY <1>t, <2>1, <2>2 DEF CallsInOrder
  <1>3. ASSUME Shutdown \/ StopSends PROVE CallsInOrder'
    <2>1. UNCHANGED <<calls, accepted>>
      BY <1>3 DEF Shutdown, StopSends, historyVars
    <2>2. CASE commands' = Append(commands, Stop)
      <3>1. Notifies' \subseteq Notifies /\ \A i \in Notifies' : commands'[i] = commands[i]
        BY <2>2, AppendCommand DEF Command
      <3> QED BY <2>1, <3>1 DEF CallsInOrder
    <2> QED BY <1>3, <1>u, <2>1, <2>2 DEF Shutdown, StopSends, SendStop
  <1>4. ASSUME TakeNotify PROVE CallsInOrder'
    <2> DEFINE m == Head(commands)
    <2>1. /\ commands # << >> /\ m # Stop /\ commands' = Tail(commands) /\ commands \in Seq(Command)
          /\ calls' = [calls EXCEPT ![m.id] = IF @ = "waiting" THEN Verdict(m) ELSE @]
          /\ Verdict(m) \in {"ok", "refused"}
      BY <1>4 DEF TakeNotify, Answer, TypeOK, Verdict
    <2>2. /\ Len(commands) \in Nat /\ DOMAIN commands = 1 .. Len(commands) /\ Len(commands) > 0
          /\ DOMAIN commands' = 1 .. Len(commands) - 1 /\ m = commands[1]
          /\ \A i \in 1 .. Len(commands) - 1 : commands'[i] = commands[i + 1]
      BY <2>1, HeadTailProperties, LenProperties, EmptySeq
    <2>3. 1 \in Notifies /\ m.id \in Calls
      BY <2>1, <2>2, CommandTypes DEF Notifies
    <2>4. \A i \in Notifies' : i \in Nat /\ i + 1 \in Notifies /\ commands'[i] = commands[i + 1] /\ 1 < i + 1
      BY <2>2 DEF Notifies
    <2>5. calls[m.id] \in {"waiting", "timeout"} /\ m.id \notin accepted
      <3>1. calls[m.id] \in {"waiting", "timeout"} /\ \A d \in accepted : d < m.id
        BY <2>2, <2>3 DEF CallsInOrder
      <3> QED BY <2>3, <3>1 DEF Calls
    <2>6. /\ calls'[m.id] = IF calls[m.id] = "waiting" THEN Verdict(m) ELSE "timeout"
          /\ \A d \in Calls : d # m.id => calls'[d] = calls[d]
      BY <1>t, <2>1, <2>3, <2>5
    <2>7. \/ Verdict(m) = "ok" /\ accepted' = accepted \cup {m.id}
          \/ Verdict(m) = "refused" /\ accepted' = accepted
      BY <1>4 DEF TakeNotify, Verdict
    <2>8. \A i \in Notifies' : m.id < commands'[i].id /\ commands'[i].id \in Calls /\ commands'[i].id # m.id
      <3>1. \A i \in Notifies' : m.id < commands'[i].id /\ commands'[i].id \in Calls
        BY <2>2, <2>3, <2>4, CommandTypes DEF CallsInOrder
      <3> QED BY <2>3, <3>1 DEF Calls
    <2>9. \A i \in Notifies' : calls'[commands'[i].id] \in {"waiting", "timeout"}
      BY <2>4, <2>6, <2>8 DEF CallsInOrder
    <2>10. \A i, j \in Notifies' : i < j => commands'[i].id < commands'[j].id
      BY <2>4 DEF CallsInOrder
    <2>11. \A d \in accepted', i \in Notifies' : d < commands'[i].id
      BY <2>4, <2>7, <2>8 DEF CallsInOrder
    <2>12. \A d \in accepted' : calls'[d] \in {"ok", "timeout"}
      BY <1>t, <2>5, <2>6, <2>7 DEF CallsInOrder
    <2>13. \A d \in Calls : calls'[d] = "ok" => d \in accepted'
      BY <2>5, <2>6, <2>7 DEF CallsInOrder
    <2>14. \A d, e \in Calls : d < e /\ calls'[d] = "none" => calls'[e] = "none"
      <3>1. calls'[m.id] # "none" /\ calls[m.id] # "none"
        BY <2>1, <2>5, <2>6
      <3> QED BY <2>6, <3>1 DEF CallsInOrder
    <2> QED BY <2>9, <2>10, <2>11, <2>12, <2>13, <2>14 DEF CallsInOrder
  <1>5. ASSUME TakeStop \/ ReceiveFails \/ DrainCommandFailed PROVE CallsInOrder'
    BY <1>5, <1>e DEF TakeStop, ReceiveFails, DrainCommandFailed, historyVars
  <1>6. ASSUME PollDone PROVE CallsInOrder'
    BY <1>6, <1>e, <1>u DEF PollDone, historyVars
  <1>7. ASSUME CommandsDone \/ ReceivePacket \/ DrainConnected \/ DrainDisconnected \/ DrainMtu
               \/ FlushNothing \/ Flush \/ DrainDone \/ StopPump \/ Finish
        PROVE  CallsInOrder'
    BY <1>7, <1>u DEF CommandsDone, ReceivePacket, DrainConnected, DrainDisconnected, DrainMtu,
         FlushNothing, Flush, DrainDone, StopPump, Finish, appVars, historyVars
  <1>8. ASSUME NEW h \in Handles, NEW a \in Attributes, NEW on \in BOOLEAN, CccdWrite(h, a, on)
        PROVE  CallsInOrder'
    BY <1>8, <1>u DEF CccdWrite, appVars
  <1>9. ASSUME NEW i \in Slots, PollCanSend(i) PROVE CallsInOrder'
    BY <1>9, <1>u DEF PollCanSend, appVars, historyVars
  <1>10. ASSUME NEW h \in Handles, PollExchangeMtu(h) PROVE CallsInOrder'
    BY <1>10, <1>u DEF PollExchangeMtu, appVars, historyVars
  <1>11. CASE UNCHANGED vars
    BY <1>11, <1>u DEF vars, appVars, historyVars
  <1> QED
    BY <1>1, <1>2, <1>3, <1>4, <1>5, <1>6, <1>7, <1>8, <1>9, <1>10, <1>11
       DEF Next, Application, Worker, Environment, Terminated

\* notify() never says Ok of a value that was not queued, nor an error other
\* than a time-out of one that was.
THEOREM AnswersAgreeHolds == Spec => []AnswersAgree
  <1>1. CallsInOrder => AnswersAgree
    BY DEF CallsInOrder, AnswersAgree
  <1> QED BY <1>1, TypeInit, TypeStep, CallsInOrderInit, CallsInOrderStep, PTL DEF Spec

-----------------------------------------------------------------------------
(* Order *)

\* Queues grow at the end and shrink at the front: what a link was sent is older
\* than what its connection still queues, and all of it was accepted.
InOrder ==
    /\ \A h \in Handles : \A i \in DOMAIN pending[h] : pending[h][i].id \in accepted
    /\ \A l \in Links : \A i \in DOMAIN sent[l] : sent[l][i].id \in accepted
    /\ \A h \in Handles : \A i, j \in DOMAIN pending[h] :
           i < j => pending[h][i].id < pending[h][j].id
    /\ \A h \in Handles, l \in Links : \A i \in DOMAIN pending[h], k \in DOMAIN sent[l] :
           pending[h][i].generation = l => sent[l][k].id < pending[h][i].id
    /\ DeliveredInOrder

\* Nothing was sent or queued at first.
LEMMA OrderInit == Init => InOrder
  BY DEF Init, InOrder, DeliveredInOrder

\* A value that is queued is newer than everything accepted before it.
LEMMA InOrderAccept ==
    ASSUME TypeOK, CallsInOrder, InOrder, TakeNotify, Acceptable(Head(commands))
    PROVE  InOrder'
  <1> DEFINE m == Head(commands)
             n == [id |-> m.id, generation |-> m.generation, attr |-> m.attr, len |-> m.len]
  <1>1. /\ m.handle \in Handles /\ n \in Notification /\ commands # << >> /\ m # Stop
        /\ m = commands[1] /\ 1 \in DOMAIN commands
    BY HeadTailProperties, LenProperties, EmptySeq DEF TakeNotify, TypeOK, Command, Notification
  <1>2. pending' = [pending EXCEPT ![m.handle] = Append(@, n)]
        /\ accepted' = accepted \cup {m.id} /\ sent' = sent
    BY DEF TakeNotify, Enqueue
  <1>3. n.id = m.id /\ m.id \in Nat /\ \A c \in accepted : c \in Nat /\ c < m.id
    <2>1. \A c \in accepted : c < m.id
      BY <1>1 DEF CallsInOrder, Notifies
    <2> QED BY <1>1, <2>1 DEF TypeOK, Calls, Notification
  <1> HIDE DEF m, n
  <1>4. \A h \in Handles :
            \A i \in DOMAIN pending'[h] :
               \/ i \in DOMAIN pending[h] /\ pending'[h][i] = pending[h][i] /\ i \in 1 .. Len(pending[h])
               \/ i = Len(pending[h]) + 1 /\ pending'[h][i] = n /\ h = m.handle
    <2> SUFFICES ASSUME NEW h \in Handles, NEW i \in DOMAIN pending'[h]
                 PROVE  \/ i \in DOMAIN pending[h] /\ pending'[h][i] = pending[h][i] /\ i \in 1 .. Len(pending[h])
                        \/ i = Len(pending[h]) + 1 /\ pending'[h][i] = n /\ h = m.handle
      OBVIOUS
    <2>1. pending[h] \in Seq(Notification)
      BY DEF TypeOK
    <2>2. CASE h # m.handle
      <3>1. pending'[h] = pending[h]
        BY <1>2, <2>2 DEF TypeOK
      <3> QED BY <2>1, <3>1, LenProperties
    <2>3. CASE h = m.handle
      <3>1. pending'[h] = Append(pending[h], n)
        BY <1>2, <2>3 DEF TypeOK
      <3> QED BY <1>1, <2>1, <2>3, <3>1, AppendProperties, LenProperties
    <2> QED BY <2>2, <2>3
  <1>5. \A h \in Handles : Len(pending[h]) \in Nat
    BY LenProperties DEF TypeOK
  <1>6. \A h \in Handles : \A i \in DOMAIN pending'[h] : pending'[h][i].id \in accepted'
    BY <1>2, <1>3, <1>4 DEF InOrder
  <1>7. \A l \in Links : \A i \in DOMAIN sent'[l] : sent'[l][i].id \in accepted'
    BY <1>2 DEF InOrder
  <1>8. \A h \in Handles : \A i, j \in DOMAIN pending'[h] :
           i < j => pending'[h][i].id < pending'[h][j].id
    BY <1>3, <1>4, <1>5 DEF InOrder
  <1>9. \A h \in Handles, l \in Links : \A i \in DOMAIN pending'[h], k \in DOMAIN sent'[l] :
           pending'[h][i].generation = l => sent'[l][k].id < pending'[h][i].id
    BY <1>2, <1>3, <1>4 DEF InOrder
  <1>10. DeliveredInOrder'
    BY <1>2 DEF InOrder, DeliveredInOrder
  <1> QED BY <1>6, <1>7, <1>8, <1>9, <1>10 DEF InOrder

\* The front of a queue, and what is left of it.
LEMMA PopQueue ==
    ASSUME TypeOK, NEW h \in Handles, pending[h] # << >>,
           pending' = [pending EXCEPT ![h] = Tail(@)]
    PROVE  /\ Head(pending[h]) \in Notification
           /\ 1 \in DOMAIN pending[h] /\ pending[h][1] = Head(pending[h])
           /\ \A i \in DOMAIN pending'[h] :
                 i \in Nat /\ i > 0 /\ i + 1 \in DOMAIN pending[h] /\ pending'[h][i] = pending[h][i + 1]
           /\ \A g \in Handles : g # h => pending'[g] = pending[g]
  <1> DEFINE q == pending[h]
             r == Tail(q)
  <1>1. pending \in [Handles -> Seq(Notification)] /\ q \in Seq(Notification)
    BY DEF TypeOK
  <1>2. pending'[h] = r /\ \A g \in Handles : g # h => pending'[g] = pending[g]
    BY <1>1
  <1>3. /\ Len(q) \in Nat /\ Len(q) > 0 /\ DOMAIN q = 1 .. Len(q)
        /\ DOMAIN r = 1 .. Len(q) - 1
        /\ \A k \in 1 .. Len(q) - 1 : r[k] = q[k + 1]
        /\ q[1] = Head(q) /\ Head(q) \in Notification
    BY <1>1, HeadTailProperties, LenProperties, EmptySeq
  <1> HIDE DEF r
  <1>4. \A i \in DOMAIN r : i \in Nat /\ i > 0 /\ i + 1 \in DOMAIN q /\ r[i] = q[i + 1]
    BY <1>3
  <1>5. 1 \in DOMAIN q
    BY <1>3
  <1> QED BY <1>2, <1>3, <1>4, <1>5

\* flush_notification sends to the link its connection names.
LEMMA FlushLink ==
    ASSUME Base, Flush, ~UNCHANGED sent
    PROVE  LET h == Head(EVENTS).handle
               m == Head(pending[h])
               t == [id |-> m.id, generation |-> m.generation, len |-> m.len, mtu |-> att_mtu[h]]
           IN  /\ h \in Handles /\ connections[h] = link[h] /\ link[h] # 0
               /\ m.generation = link[h]
               /\ sent' = [sent EXCEPT ![link[h]] = Append(@, t)]
  <1> DEFINE h == Head(EVENTS).handle
             m == Head(pending[h])
             t == [id |-> m.id, generation |-> m.generation, len |-> m.len, mtu |-> att_mtu[h]]
  <1>1. /\ Popped("CanSend") /\ pending[h] # << >> /\ pending' = [pending EXCEPT ![h] = Tail(@)]
        /\ \E status \in NotifyStatus(h) : Transmit(h, m, status)
    BY DEF Flush
  <1>2. h \in Handles
    BY <1>1, HeadTailProperties DEF Popped, Event, Base, TypeOK, BridgeTypeOK
  <1>3. link[h] # 0 /\ sent' = [sent EXCEPT ![link[h]] = Append(@, t)]
    BY <1>1 DEF NotifyStatus, Transmit
  <1>4. m \in Notification /\ 1 \in DOMAIN pending[h] /\ pending[h][1] = m
    BY <1>1, <1>2, PopQueue DEF Base
  <1>5. m.generation = connections[h] /\ m.generation # 0
    BY <1>2, <1>4 DEF Base, StateForLiveOnly, Notification
  <1>6. TablesAgree /\ Running
    BY <1>1, AgreementTables DEF Popped, Running, Base
  <1>7. QueuedFor(h, LinkEvents) = {}
    <2>1. QueuedFor(h, LinkEvents) = QueuedFor(h, {"Connected"}) \cup QueuedFor(h, {"Disconnected"})
      BY DEF QueuedFor, LinkEvents
    <2> QED BY <1>2, <1>3, <1>5, <1>6, <2>1 DEF TablesAgree
  <1>8. connections[h] = link[h]
    BY <1>2, <1>6, <1>7 DEF TablesAgree
  <1> QED BY <1>2, <1>3, <1>5, <1>8

\* The front of the queue joins what the link was sent, or is lost.
LEMMA InOrderFlush ==
    ASSUME Base, Distinct, InOrder, Flush
    PROVE  InOrder'
  <1> DEFINE h == Head(EVENTS).handle
             m == Head(pending[h])
             t == [id |-> m.id, generation |-> m.generation, len |-> m.len, mtu |-> att_mtu[h]]
  <1>1. /\ pending[h] # << >> /\ pending' = [pending EXCEPT ![h] = Tail(@)]
        /\ UNCHANGED <<accepted, connections>> /\ Popped("CanSend")
    BY DEF Flush
  <1>2. h \in Handles
    BY <1>1, HeadTailProperties DEF Popped, Event, Base, TypeOK, BridgeTypeOK
  <1>3. /\ m \in Notification /\ 1 \in DOMAIN pending[h] /\ pending[h][1] = m
        /\ \A i \in DOMAIN pending'[h] :
              i \in Nat /\ i > 0 /\ i + 1 \in DOMAIN pending[h] /\ pending'[h][i] = pending[h][i + 1]
        /\ \A g \in Handles : g # h => pending'[g] = pending[g]
    BY <1>1, <1>2, PopQueue DEF Base
  <1>4. \A g \in Handles : \A i \in DOMAIN pending'[g] : pending'[g][i].id \in accepted
    BY <1>2, <1>3 DEF InOrder
  <1>5. \A g \in Handles : \A i, j \in DOMAIN pending'[g] :
           i < j => pending'[g][i].id < pending'[g][j].id
    <2> SUFFICES ASSUME NEW g \in Handles, NEW i \in DOMAIN pending'[g], NEW j \in DOMAIN pending'[g], i < j
                 PROVE  pending'[g][i].id < pending'[g][j].id
      OBVIOUS
    <2>1. CASE g # h
      BY <1>3, <2>1 DEF InOrder
    <2>2. CASE g = h
      <3>1. i + 1 < j + 1
        BY <1>3, <2>2
      <3> QED BY <1>3, <2>2, <3>1 DEF InOrder
    <2> QED BY <2>1, <2>2
  <1>6. \A g \in Handles, l \in Links : \A i \in DOMAIN pending'[g], k \in DOMAIN sent[l] :
           pending'[g][i].generation = l => sent[l][k].id < pending'[g][i].id
    BY <1>2, <1>3 DEF InOrder
  <1>7. CASE UNCHANGED sent
    BY <1>1, <1>4, <1>5, <1>6, <1>7 DEF InOrder, DeliveredInOrder
  <1>8. CASE ~UNCHANGED sent
    <2>1. /\ connections[h] = link[h] /\ link[h] # 0 /\ m.generation = link[h]
          /\ sent' = [sent EXCEPT ![link[h]] = Append(@, t)]
      BY <1>8, FlushLink
    <2>2. t.id = m.id /\ m.id \in Nat /\ m.id \in accepted
      BY <1>2, <1>3 DEF InOrder, Notification, Calls
    <2>3. \A l \in Links : \A k \in DOMAIN sent'[l] :
             \/ k \in DOMAIN sent[l] /\ k \in 1 .. Len(sent[l]) /\ sent'[l][k] = sent[l][k]
             \/ k = Len(sent[l]) + 1 /\ sent'[l][k] = t /\ l = link[h]
      <3> SUFFICES ASSUME NEW l \in Links, NEW k \in DOMAIN sent'[l]
                   PROVE  \/ k \in DOMAIN sent[l] /\ k \in 1 .. Len(sent[l]) /\ sent'[l][k] = sent[l][k]
                          \/ k = Len(sent[l]) + 1 /\ sent'[l][k] = t /\ l = link[h]
        OBVIOUS
      <3>1. sent[l] \in Seq(Transmission) /\ sent \in [Links -> Seq(Transmission)]
        BY DEF Base, TypeOK
      <3>2. CASE l # link[h]
        <4>1. sent'[l] = sent[l]
          BY <2>1, <3>1, <3>2
        <4> QED BY <3>1, <4>1, LenProperties
      <3>3. CASE l = link[h]
        <4>1. sent'[l] = Append(sent[l], t)
          BY <2>1, <3>1, <3>3
        <4>2. t \in Transmission
          BY <1>2, <1>3 DEF Transmission, Notification, Base, TypeOK, BridgeTypeOK
        <4>3. /\ sent'[l] \in Seq(Transmission) /\ Len(sent'[l]) = Len(sent[l]) + 1
              /\ \A i \in 1 .. Len(sent[l]) : sent'[l][i] = sent[l][i]
              /\ sent'[l][Len(sent[l]) + 1] = t
          <5> HIDE DEF t, m, h
          <5>1. sent[l] \in Seq(Transmission)
            BY <3>1
          <5> DEFINE w == Append(sent[l], t)
          <5>2. /\ w \in Seq(Transmission) /\ Len(w) = Len(sent[l]) + 1
                /\ \A i \in 1 .. Len(sent[l]) : w[i] = sent[l][i]
                /\ w[Len(sent[l]) + 1] = t
            BY <4>2, <5>1, AppendProperties
          <5> HIDE DEF w
          <5>3. sent'[l] = w
            BY <4>1 DEF w
          <5> QED BY <5>2, <5>3
        <4>4. /\ k \in 1 .. Len(sent[l]) + 1 /\ DOMAIN sent[l] = 1 .. Len(sent[l])
              /\ Len(sent[l]) \in Nat
          BY <3>1, <4>3, LenProperties
        <4>5. k \in 1 .. Len(sent[l]) \/ k = Len(sent[l]) + 1
          BY <4>4
        <4> QED BY <3>3, <4>3, <4>4, <4>5
      <3> QED BY <3>2, <3>3
    <2> HIDE DEF t
    <2>4. \A l \in Links : \A k \in DOMAIN sent'[l] : sent'[l][k].id \in accepted
      BY <2>2, <2>3 DEF InOrder
    <2>5. \A l \in Links : \A k \in DOMAIN sent[l] : l = link[h] => sent[l][k].id < m.id
      <3> SUFFICES ASSUME NEW l \in Links, NEW k \in DOMAIN sent[l], l = link[h]
                   PROVE  sent[l][k].id < m.id
        OBVIOUS
      <3> HIDE DEF h, m
      <3>1. 1 \in DOMAIN pending[h] /\ pending[h][1] = m /\ m.generation = l
        BY <1>3, <2>1
      <3> QED BY <1>2, <3>1 DEF InOrder
    <2>6. \A g \in Handles : \A i \in DOMAIN pending'[g] :
             pending'[g][i].generation = link[h] => m.id < pending'[g][i].id
      <3> SUFFICES ASSUME NEW g \in Handles, NEW i \in DOMAIN pending'[g],
                          pending'[g][i].generation = link[h]
                   PROVE  m.id < pending'[g][i].id
        OBVIOUS
      <3>1. CASE g # h
        <4>1. pending[g][i].generation = connections[g] /\ pending'[g] = pending[g]
          BY <1>3, <3>1 DEF Base, StateForLiveOnly
        <4>2. connections[g] = connections[h] /\ connections[h] # 0
          BY <2>1, <4>1
        <4> QED BY <1>2, <3>1, <4>2 DEF Distinct
      <3>2. CASE g = h
        <4>1. i + 1 \in DOMAIN pending[h] /\ 1 < i + 1 /\ pending'[h][i] = pending[h][i + 1]
          BY <1>3, <3>2
        <4> QED BY <1>2, <1>3, <3>2, <4>1 DEF InOrder
      <3> QED BY <3>1, <3>2
    <2>7. \A g \in Handles, l \in Links : \A i \in DOMAIN pending'[g], k \in DOMAIN sent'[l] :
             pending'[g][i].generation = l => sent'[l][k].id < pending'[g][i].id
      BY <1>6, <2>2, <2>3, <2>6
    <2>8. DeliveredInOrder'
      <3>1. \A l \in Links : Len(sent[l]) \in Nat
        BY LenProperties DEF Base, TypeOK
      <3>2. \A l \in Links : \A i, j \in DOMAIN sent'[l] : i < j => sent'[l][i].id < sent'[l][j].id
        BY <2>2, <2>3, <2>5, <3>1 DEF InOrder, DeliveredInOrder
      <3> QED BY <3>2 DEF DeliveredInOrder
    <2> QED BY <1>1, <1>4, <1>5, <2>4, <2>7, <2>8 DEF InOrder
  <1> QED BY <1>7, <1>8

\* Every step keeps the order of what is sent and queued.
LEMMA InOrderStep ==
    Base /\ CallsInOrder /\ Distinct /\ InOrder /\ [Next]_vars => InOrder'
  <1> SUFFICES ASSUME Base, CallsInOrder, Distinct, InOrder, [Next]_vars PROVE InOrder'
    OBVIOUS
  <1>u. ASSUME UNCHANGED <<pending, accepted, sent>> PROVE InOrder'
    BY <1>u DEF InOrder, DeliveredInOrder
  <1>1. CASE TakeNotify
    <2>1. CASE Acceptable(Head(commands))
      BY <1>1, <2>1, InOrderAccept DEF Base
    <2>2. CASE ~Acceptable(Head(commands))
      BY <1>1, <1>u, <2>2 DEF TakeNotify
    <2> QED BY <2>1, <2>2
  <1>2. CASE Flush
    BY <1>2, InOrderFlush
  <1>3. CASE DrainDisconnected
    <2> DEFINE g == Head(EVENTS).handle
    <2>1. pending' = [pending EXCEPT ![g] = << >>] /\ UNCHANGED <<accepted, sent>>
      BY <1>3 DEF DrainDisconnected, Discarded
    <2> HIDE DEF g
    <2>2. \A h \in Handles : pending'[h] = IF h = g THEN << >> ELSE pending[h]
      BY <2>1 DEF Base, TypeOK
    <2>3. \A h \in Handles : \A i \in DOMAIN pending'[h] : pending'[h] = pending[h]
      BY <2>2
    <2> QED BY <2>1, <2>3 DEF InOrder, DeliveredInOrder
  <1>4. CASE Finish
    <2>1. \A h \in Handles : pending'[h] = << >>
      BY <1>4 DEF Finish
    <2>2. \A h \in Handles : \A i \in DOMAIN pending'[h] : FALSE
      BY <2>1
    <2>3. UNCHANGED <<accepted, sent>>
      BY <1>4 DEF Finish
    <2> QED BY <2>2, <2>3 DEF InOrder, DeliveredInOrder
  <1>5. CASE ~(TakeNotify \/ Flush \/ DrainDisconnected \/ Finish)
    <2>1. UNCHANGED <<pending, accepted, sent>>
      BY <1>5 DEF Next, Application, Worker, Environment, Terminated, vars, workerVars, historyVars,
           Notify, CallTimeout, Shutdown, StopSends, TakeStop, CommandsDone, ReceivePacket,
           PollDone, DrainConnected, DrainMtu, FlushNothing, DrainCommandFailed, DrainDone,
           ReceiveFails, StopPump, CccdWrite, PollCanSend, PollExchangeMtu
    <2> QED BY <1>u, <2>1
  <1> QED BY <1>1, <1>2, <1>3, <1>4, <1>5

\* A link is sent its notifications in the order of the calls, none twice.
THEOREM DeliveredInOrderHolds == Spec => []DeliveredInOrder
  <1>1. InOrder => DeliveredInOrder
    BY DEF InOrder
  <1>2. Base => TypeOK
    BY DEF Base
  <1> QED BY <1>1, <1>2, BaseInvariant, CallsInOrderInit, CallsInOrderStep, OrderInit, DistinctInit, DistinctStep,
             InOrderStep, PTL DEF Spec

-----------------------------------------------------------------------------
(* Lengths *)

\* The MTU the runtime checks lengths with is never above the one of the link:
\* an exchange that is still queued agreed on the MTU the link has, and nothing
\* is queued when a new link can take the handle.
MtuFollows ==
    /\ \A i \in DOMAIN EVENTS : EVENTS[i].kind = "Connected" => EVENTS[i].value = DefaultMtu
    /\ \A i \in DOMAIN EVENTS : EVENTS[i].kind = "MtuExchanged" =>
           EVENTS[i].value = att_mtu[EVENTS[i].handle] /\ EVENTS[i].value > DefaultMtu
    /\ pc \in {"commands", "receive"} => \A i \in DOMAIN EVENTS : EVENTS[i].kind # "MtuExchanged"
    /\ \A h \in Handles : connections[h] # 0 => conn_mtu[h] <= att_mtu[h]

QueuedFit ==
    \A h \in Handles : \A i \in DOMAIN pending[h] : pending[h][i].len <= Payload(conn_mtu[h])

Fits ==
    /\ \A h \in Handles : DefaultMtu <= att_mtu[h]
    /\ Running => MtuFollows /\ QueuedFit
    /\ NoTruncation

\* Nothing to fit at first.
LEMMA FitsInit == Init => Fits
  BY BridgeAssumption DEF Init, BridgeInit, Fits, MtuFollows, QueuedFit, NoTruncation

\* What a step appends to EVENTS is at its end, what it pops was at the front.
LEMMA QueueStep ==
    ASSUME NEW q \in Seq(Event), NEW e \in Event
    PROVE  /\ \A i \in DOMAIN Append(q, e) :
                 (i \in DOMAIN q /\ Append(q, e)[i] = q[i]) \/ Append(q, e)[i] = e
           /\ q # << >> => /\ Head(q) \in Event /\ \E i \in DOMAIN q : q[i] = Head(q)
                           /\ Tail(q) \in Seq(Event)
                           /\ \A i \in DOMAIN Tail(q) : i + 1 \in DOMAIN q /\ Tail(q)[i] = q[i + 1]
  <1>1. /\ Len(q) \in Nat /\ DOMAIN q = 1 .. Len(q) /\ DOMAIN Append(q, e) = 1 .. Len(q) + 1
        /\ \A i \in 1 .. Len(q) : Append(q, e)[i] = q[i]
        /\ Append(q, e)[Len(q) + 1] = e
    BY AppendProperties, LenProperties
  <1>2. \A i \in DOMAIN Append(q, e) :
           (i \in DOMAIN q /\ Append(q, e)[i] = q[i]) \/ Append(q, e)[i] = e
    BY <1>1
  <1>3. ASSUME q # << >>
        PROVE  /\ Head(q) \in Event /\ \E i \in DOMAIN q : q[i] = Head(q)
               /\ Tail(q) \in Seq(Event)
               /\ \A i \in DOMAIN Tail(q) : i + 1 \in DOMAIN q /\ Tail(q)[i] = q[i + 1]
    <2> DEFINE r == Tail(q)
    <2>1. /\ Len(q) \in Nat /\ Len(q) > 0 /\ DOMAIN q = 1 .. Len(q)
          /\ DOMAIN r = 1 .. Len(q) - 1 /\ r \in Seq(Event)
          /\ \A k \in 1 .. Len(q) - 1 : r[k] = q[k + 1]
          /\ q[1] = Head(q) /\ Head(q) \in Event
      BY <1>3, HeadTailProperties, LenProperties, EmptySeq
    <2> HIDE DEF r
    <2>2. \A i \in DOMAIN r : i + 1 \in DOMAIN q /\ r[i] = q[i + 1]
      BY <2>1
    <2>3. 1 \in DOMAIN q
      BY <2>1
    <2> QED BY <2>1, <2>2, <2>3 DEF r
  <1> QED BY <1>2, <1>3

\* A step that leaves the MTUs alone and queues at most one callback that is
\* about neither a new link nor an MTU.
LEMMA MtuQuietStep ==
    ASSUME TypeOK, MtuFollows, NEW q \in Seq(Event),
           q = EVENTS \/ (EVENTS # << >> /\ q = Tail(EVENTS)),
           EVENTS' = q \/ (\E e \in Event : e.kind \notin {"Connected", "MtuExchanged"}
                                               /\ EVENTS' = Append(q, e)),
           UNCHANGED <<att_mtu, conn_mtu>>,
           \A h \in Handles : connections'[h] # 0 => connections[h] # 0,
           pc' \in {"commands", "receive"} =>
               pc \in {"commands", "receive"} \/ EVENTS = << >>
    PROVE  MtuFollows'
  <1>0. EVENTS \in Seq(Event)
    BY DEF TypeOK, BridgeTypeOK
  <1>1. \A i \in DOMAIN q : \E j \in DOMAIN EVENTS : q[i] = EVENTS[j]
    <2>1. CASE q = EVENTS
      BY <2>1
    <2>2. CASE EVENTS # << >> /\ q = Tail(EVENTS)
      <3>1. \E e : e \in Event
        BY <1>0, <2>2, HeadTailProperties
      <3>2. \A i \in DOMAIN Tail(EVENTS) : i + 1 \in DOMAIN EVENTS /\ Tail(EVENTS)[i] = EVENTS[i + 1]
        BY <1>0, <2>2, <3>1, QueueStep
      <3> QED BY <2>2, <3>2
    <2> QED BY <2>1, <2>2
  <1>2. \A i \in DOMAIN EVENTS' : \/ \E j \in DOMAIN EVENTS : EVENTS'[i] = EVENTS[j]
                                  \/ EVENTS'[i].kind \notin {"Connected", "MtuExchanged"}
    <2>1. CASE EVENTS' = q
      BY <1>1, <2>1
    <2>2. ASSUME NEW e \in Event, e.kind \notin {"Connected", "MtuExchanged"}, EVENTS' = Append(q, e)
          PROVE  \A i \in DOMAIN EVENTS' :
                    \/ \E j \in DOMAIN EVENTS : EVENTS'[i] = EVENTS[j]
                    \/ EVENTS'[i].kind \notin {"Connected", "MtuExchanged"}
      BY <1>1, <2>2, QueueStep
    <2> QED BY <2>1, <2>2
  <1>3. EVENTS = << >> => \A i \in DOMAIN EVENTS : FALSE
    OBVIOUS
  <1> QED BY <1>2, <1>3 DEF MtuFollows

\* A greater MTU leaves no less room.
LEMMA PayloadGrows ==
    ASSUME NEW a \in Nat, NEW b \in Nat, a <= b
    PROVE  Payload(a) <= Payload(b) /\ Payload(a) \in Nat /\ Payload(b) \in Nat
  BY DEF Payload

\* The link whose notification is sent has room for it.
LEMMA FitsFlush ==
    ASSUME Base, Fits, Flush
    PROVE  QueuedFit' /\ NoTruncation'
  <1> DEFINE h == Head(EVENTS).handle
             m == Head(pending[h])
             t == [id |-> m.id, generation |-> m.generation, len |-> m.len, mtu |-> att_mtu[h]]
  <1>1. /\ pending[h] # << >> /\ pending' = [pending EXCEPT ![h] = Tail(@)]
        /\ UNCHANGED <<conn_mtu, connections>> /\ Popped("CanSend")
    BY DEF Flush
  <1>2. h \in Handles
    BY <1>1, HeadTailProperties DEF Popped, Event, Base, TypeOK, BridgeTypeOK
  <1>3. /\ m \in Notification /\ 1 \in DOMAIN pending[h] /\ pending[h][1] = m
        /\ \A i \in DOMAIN pending'[h] :
              i \in Nat /\ i > 0 /\ i + 1 \in DOMAIN pending[h] /\ pending'[h][i] = pending[h][i + 1]
        /\ \A g \in Handles : g # h => pending'[g] = pending[g]
    BY <1>1, <1>2, PopQueue DEF Base
  <1>4. MtuFollows /\ QueuedFit
    BY <1>1 DEF Fits, Popped, Running
  <1>5. QueuedFit'
    BY <1>1, <1>2, <1>3, <1>4 DEF QueuedFit
  <1>6. CASE UNCHANGED sent
    BY <1>5, <1>6 DEF Fits, NoTruncation
  <1>7. CASE ~UNCHANGED sent
    <2>1. /\ connections[h] # 0
          /\ sent' = [sent EXCEPT ![link[h]] = Append(@, t)]
      BY <1>7, FlushLink
    <2>2. /\ m.len \in Nat /\ att_mtu[h] \in Nat /\ conn_mtu[h] \in Nat
          /\ m.len <= Payload(conn_mtu[h]) /\ conn_mtu[h] <= att_mtu[h] /\ att_mtu[h] >= 3
      <3>1. m.len \in Nat
        BY <1>3, RuntimeAssumption DEF Notification
      <3>2. att_mtu[h] \in Nat /\ conn_mtu[h] \in Nat
        BY <1>2 DEF Base, TypeOK, BridgeTypeOK
      <3>3. m.len <= Payload(conn_mtu[h])
        BY <1>2, <1>3, <1>4 DEF QueuedFit
      <3>4. conn_mtu[h] <= att_mtu[h]
        BY <1>2, <1>4, <2>1 DEF MtuFollows
      <3>5. att_mtu[h] >= 3
        BY <1>2, <3>2, BridgeAssumption DEF Fits
      <3> QED BY <3>1, <3>2, <3>3, <3>4, <3>5
    <2>3. t.len + 3 <= t.mtu
      BY <2>2 DEF Payload
    <2>4. t \in Transmission
      BY <1>2, <1>3 DEF Transmission, Notification, Base, TypeOK, BridgeTypeOK
    <2> HIDE DEF t
    <2>5. \A l \in Links : \A k \in DOMAIN sent'[l] : sent'[l][k].len + 3 <= sent'[l][k].mtu
      <3> SUFFICES ASSUME NEW l \in Links, NEW k \in DOMAIN sent'[l]
                   PROVE  sent'[l][k].len + 3 <= sent'[l][k].mtu
        OBVIOUS
      <3>1. sent[l] \in Seq(Transmission) /\ sent \in [Links -> Seq(Transmission)]
        BY DEF Base, TypeOK
      <3>2. CASE sent'[l] = sent[l]
        BY <3>2 DEF Fits, NoTruncation
      <3>3. CASE sent'[l] = Append(sent[l], t)
        <4>1. (k \in DOMAIN sent[l] /\ sent'[l][k] = sent[l][k]) \/ sent'[l][k] = t
          BY <2>4, <3>1, <3>3, AppendProperties, LenProperties
        <4> QED BY <2>3, <4>1 DEF Fits, NoTruncation
      <3> QED BY <2>1, <3>1, <3>2, <3>3
    <2> QED BY <1>5, <2>5 DEF NoTruncation
  <1> QED BY <1>5, <1>6, <1>7

\* Every step keeps the lengths within the MTU.
LEMMA FitsStep == Base /\ Fits /\ [Next]_vars => Fits'
  <1> SUFFICES ASSUME Base, Fits, [Next]_vars PROVE Fits'
    OBVIOUS
  <1>t. /\ TypeOK /\ BridgeTypeOK /\ EVENTS \in Seq(Event)
        /\ att_mtu \in [Handles -> Nat] /\ conn_mtu \in [Handles -> Nat] /\ DefaultMtu \in Nat
    BY BridgeAssumption DEF Base, TypeOK, BridgeTypeOK
  \* Nothing about MTUs, queues or transmissions changes.
  <1>u. ASSUME UNCHANGED <<att_mtu, conn_mtu, connections, pending, sent>>, Running' => Running,
               NEW q \in Seq(Event), q = EVENTS \/ (EVENTS # << >> /\ q = Tail(EVENTS)),
               EVENTS' = q \/ (\E e \in Event : e.kind \notin {"Connected", "MtuExchanged"}
                                                   /\ EVENTS' = Append(q, e)),
               pc' \in {"commands", "receive"} => pc \in {"commands", "receive"} \/ EVENTS = << >>
        PROVE  Fits'
    <2>1. Running' => MtuFollows'
      BY <1>t, <1>u, MtuQuietStep DEF Fits
    <2>2. Running' => QueuedFit'
      BY <1>u DEF Fits, QueuedFit
    <2> QED BY <1>u, <2>1, <2>2 DEF Fits, NoTruncation
  <1>1. CASE UNCHANGED vars
    BY <1>1, <1>t, <1>u DEF vars, bridgeVars, workerVars, historyVars, Running
  <1>2. CASE Application
    BY <1>2, <1>t, <1>u DEF Application, Notify, CallTimeout, Shutdown, StopSends, bridgeVars, workerVars,
         historyVars, Running
  <1>3. CASE CommandsDone \/ PollDone \/ DrainDone \/ (\E h \in Handles, a \in Attributes, on \in BOOLEAN : CccdWrite(h, a, on))
    BY <1>3, <1>t, <1>u DEF CommandsDone, PollDone, DrainDone, CccdWrite, Exit, bridgeVars, workerVars,
         historyVars, Running
  <1>4. CASE TakeStop \/ ReceiveFails \/ DrainCommandFailed
    <2>1. UNCHANGED <<att_mtu, sent>> /\ ~Running'
      BY <1>4 DEF TakeStop, ReceiveFails, DrainCommandFailed, Exit, bridgeVars, historyVars, Running
    <2> QED BY <2>1 DEF Fits, NoTruncation
  <1>5. CASE FlushNothing
    <2>1. Tail(EVENTS) \in Seq(Event) /\ EVENTS # << >> /\ EVENTS' = Tail(EVENTS)
      BY <1>5, <1>t, HeadTailProperties DEF FlushNothing, Popped
    <2> QED BY <1>5, <1>t, <1>u, <2>1 DEF FlushNothing, Popped, workerVars, historyVars, Running
  <1>6. CASE \E i \in Slots : PollCanSend(i)
    <2>1. PICK i \in Slots : PollCanSend(i)
      BY <1>6
    <2>2. send_requests[i] \in Handles
      BY <1>t, <2>1 DEF PollCanSend, CanSend, BridgeTypeOK
    <2>3. event("CanSend", send_requests[i], 0) \in Event
          /\ event("CanSend", send_requests[i], 0).kind = "CanSend"
      BY <1>t, <2>2, EventType DEF EventKind, event
    <2> QED BY <1>t, <1>u, <2>1, <2>3
           DEF PollCanSend, CanSend, Push, workerVars, historyVars, Running
  <1>7. CASE TakeNotify
    <2> DEFINE m == Head(commands)
               n == [id |-> m.id, generation |-> m.generation, attr |-> m.attr, len |-> m.len]
    <2>1. m.handle \in Handles /\ n \in Notification
      BY <1>7, <1>t, HeadTailProperties DEF TakeNotify, TypeOK, Command, Notification
    <2>2. CASE ~Acceptable(m)
      BY <1>7, <1>t, <1>u, <2>2 DEF TakeNotify, Running
    <2>3. CASE Acceptable(m)
      <3>1. pending' = [pending EXCEPT ![m.handle] = Append(@, n)] /\ RequestSend(m.handle, EVENTS, inflight)
        BY <1>7, <2>3 DEF TakeNotify, Enqueue
      <3>2. EVENTS' = EVENTS \/ EVENTS' = Append(EVENTS, event("CanSend", m.handle, 0))
        BY <3>1 DEF RequestSend
      <3>3. event("CanSend", m.handle, 0) \in Event /\ event("CanSend", m.handle, 0).kind = "CanSend"
        BY <1>t, <2>1, EventType DEF EventKind, event
      <3>4. UNCHANGED <<att_mtu, conn_mtu, connections, sent, pc>> /\ Running
        BY <1>7 DEF TakeNotify, MayTake, Running
      <3>5. MtuFollows'
        BY <1>t, <3>2, <3>3, <3>4, MtuQuietStep DEF Fits
      <3>6. n.len <= Payload(conn_mtu[m.handle])
        BY <2>3 DEF Acceptable
      <3> HIDE DEF n, m
      <3>7. QueuedFit'
        <4> SUFFICES ASSUME NEW g \in Handles, NEW i \in DOMAIN pending'[g]
                     PROVE  pending'[g][i].len <= Payload(conn_mtu[g])
          BY <3>4 DEF QueuedFit
        <4>1. pending[g] \in Seq(Notification)
          BY <1>t DEF TypeOK
        <4>2. CASE g # m.handle
          BY <1>t, <3>1, <3>4, <4>2 DEF Fits, QueuedFit, TypeOK
        <4>3. CASE g = m.handle
          <5>1. pending'[g] = Append(pending[g], n)
            BY <1>t, <3>1, <4>3 DEF TypeOK
          <5>2. (i \in DOMAIN pending[g] /\ pending'[g][i] = pending[g][i]) \/ pending'[g][i] = n
            BY <2>1, <4>1, <5>1, AppendProperties, LenProperties
          <5> QED BY <3>4, <3>6, <4>3, <5>2 DEF Fits, QueuedFit
        <4> QED BY <4>2, <4>3
      <3> QED BY <3>4, <3>5, <3>7 DEF Fits, NoTruncation
    <2> QED BY <2>2, <2>3
  <1>8. CASE ReceivePacket
    <2>0. /\ Running /\ pc = "receive" /\ pc' = "poll"
          /\ UNCHANGED <<conn_mtu, connections, pending, sent>>
      BY <1>8 DEF ReceivePacket, AfterPacket, Running, workerVars, historyVars
    <2>1. ASSUME NEW h \in Handles, LeConnected(h) PROVE Fits'
      <3> DEFINE e == [kind |-> "Connected", handle |-> h, value |-> DefaultMtu, link |-> nextLink]
      <3>1. e \in Event /\ e.kind = "Connected" /\ e.value = DefaultMtu
        BY <1>t DEF Event, EventKind, BridgeTypeOK
      <3>2. EVENTS' = Append(EVENTS, e) /\ att_mtu' = [att_mtu EXCEPT ![h] = DefaultMtu] /\ link[h] = 0
        BY <2>1 DEF LeConnected
      <3>3. connections[h] = 0
        BY <2>0, <3>2 DEF Base, Agreement, Agree, Quiet
      <3>4. /\ att_mtu'[h] = DefaultMtu /\ \A g \in Handles : g # h => att_mtu'[g] = att_mtu[g]
        BY <1>t, <3>2
      <3> HIDE DEF e
      <3>5. \A i \in DOMAIN EVENTS' : (i \in DOMAIN EVENTS /\ EVENTS'[i] = EVENTS[i]) \/ EVENTS'[i] = e
        BY <1>t, <3>1, <3>2, QueueStep
      <3>6. MtuFollows /\ \A i \in DOMAIN EVENTS : EVENTS[i].kind # "MtuExchanged"
        BY <2>0 DEF Fits, MtuFollows
      <3>7. MtuFollows'
        BY <2>0, <3>1, <3>3, <3>4, <3>5, <3>6 DEF MtuFollows
      <3>8. \A g \in Handles : DefaultMtu <= att_mtu'[g]
        BY <1>t, <3>4 DEF Fits
      <3> QED BY <2>0, <3>7, <3>8 DEF Fits, QueuedFit, NoTruncation
    <2>2. ASSUME NEW h \in Handles, LeDisconnected(h) PROVE Fits'
      <3>1. event("Disconnected", h, 0) \in Event /\ event("Disconnected", h, 0).kind = "Disconnected"
        BY <1>t, EventType DEF EventKind, event
      <3> QED BY <1>t, <1>u, <2>0, <2>2, <3>1 DEF LeDisconnected, Push
    <2>3. ASSUME CommandFailed PROVE Fits'
      <3>1. [kind |-> "CommandFailed", handle |-> NoHandle, value |-> 1, link |-> 0] \in Event
        BY DEF Event
      <3> QED BY <1>t, <1>u, <2>0, <2>3, <3>1 DEF CommandFailed
    <2>4. ASSUME UNCHANGED <<att_mtu, EVENTS>> PROVE Fits'
      BY <1>t, <1>u, <2>0, <2>4
    <2> QED BY <1>8, <2>1, <2>2, <2>3, <2>4 DEF ReceivePacket, NumCompleted, bridgeVars
  <1>9. ASSUME NEW h \in Handles, PollExchangeMtu(h) PROVE Fits'
    <2>1. PICK v \in Mtus : /\ att_mtu[h] = DefaultMtu /\ v > DefaultMtu
                            /\ att_mtu' = [att_mtu EXCEPT ![h] = v]
                            /\ EVENTS' = Append(EVENTS, event("MtuExchanged", h, v))
      BY <1>9 DEF PollExchangeMtu, ExchangeMtu, Push
    <2>2. /\ pc \in {"poll", "stopping"} /\ pc' = pc
          /\ UNCHANGED <<conn_mtu, connections, pending, sent>>
      BY <1>9 DEF PollExchangeMtu, workerVars, historyVars
    <2>3. v \in Nat
      BY BridgeAssumption
    <2> DEFINE e == event("MtuExchanged", h, v)
    <2>4. e \in Event /\ e.kind = "MtuExchanged" /\ e.value = v /\ e.handle = h
      BY <1>t, <2>3, EventType DEF EventKind, event
    <2> HIDE DEF e
    <2>5. att_mtu'[h] = v /\ \A g \in Handles : g # h => att_mtu'[g] = att_mtu[g]
      BY <1>t, <2>1
    <2>6. \A i \in DOMAIN EVENTS' : (i \in DOMAIN EVENTS /\ EVENTS'[i] = EVENTS[i]) \/ EVENTS'[i] = e
      BY <1>t, <2>1, <2>4, QueueStep DEF e
    <2>7. ASSUME Running' PROVE MtuFollows'
      <3>1. MtuFollows /\ pc = "poll"
        BY <2>2, <2>7 DEF Fits, Running
      <3>2. \A i \in DOMAIN EVENTS : EVENTS[i].kind = "MtuExchanged" =>
               EVENTS[i].handle # h /\ EVENTS[i].handle \in Handles
        <4>1. \A i \in DOMAIN EVENTS : EVENTS[i] \in Event
          BY <1>t
        <4>2. \A i \in DOMAIN EVENTS : EVENTS[i].kind = "MtuExchanged" => EVENTS[i].handle \in Handles
          BY <4>1 DEF Event
        <4> QED BY <1>t, <2>1, <3>1, <4>2 DEF MtuFollows
      <3>3. \A i \in DOMAIN EVENTS' : EVENTS'[i].kind = "MtuExchanged" =>
               EVENTS'[i].value = att_mtu'[EVENTS'[i].handle] /\ EVENTS'[i].value > DefaultMtu
        BY <2>1, <2>4, <2>5, <2>6, <3>1, <3>2 DEF MtuFollows
      <3>4. \A i \in DOMAIN EVENTS' : EVENTS'[i].kind = "Connected" => EVENTS'[i].value = DefaultMtu
        BY <2>4, <2>6, <3>1 DEF MtuFollows
      <3>5. \A g \in Handles : connections[g] # 0 => conn_mtu[g] <= att_mtu'[g]
        BY <1>t, <2>1, <2>3, <2>5, <3>1 DEF MtuFollows
      <3> QED BY <2>2, <3>1, <3>3, <3>4, <3>5 DEF MtuFollows
    <2>8. \A g \in Handles : DefaultMtu <= att_mtu'[g]
      BY <1>t, <2>1, <2>3, <2>5 DEF Fits
    <2> QED BY <2>2, <2>7, <2>8 DEF Fits, QueuedFit, NoTruncation, Running
  <1>10. CASE DrainConnected
    <2> DEFINE g == Head(EVENTS).handle
    <2>0. /\ Running /\ pc' = "drain" /\ pc = "drain" /\ MtuFollows /\ QueuedFit
          /\ EVENTS # << >> /\ Head(EVENTS).kind = "Connected" /\ EVENTS' = Tail(EVENTS)
          /\ connections' = [connections EXCEPT ![g] = NEXT_CONNECTION]
          /\ conn_mtu' = [conn_mtu EXCEPT ![g] = Head(EVENTS).value]
          /\ UNCHANGED <<att_mtu, pending, sent>>
      BY <1>10 DEF DrainConnected, Popped, Running, Fits
    <2>1. g \in Handles /\ Head(EVENTS).value = DefaultMtu /\ Head(EVENTS).kind \in LinkEvents
          /\ \E i \in DOMAIN EVENTS : EVENTS[i] = Head(EVENTS)
      BY <1>t, <2>0, QueueStep, HeadTailProperties DEF Event, LinkEvents, MtuFollows
    <2>2. connections[g] = 0
      BY <2>0, <2>1 DEF Base, Agreement, Agree
    <2>3. \A i \in DOMAIN pending[g] : FALSE
      <3>1. \A i \in DOMAIN pending[g] : pending[g][i] \in Notification
        BY <1>t, <2>1 DEF TypeOK
      <3> QED BY <2>1, <2>2, <3>1 DEF Base, StateForLiveOnly, Notification
    <2>4. conn_mtu'[g] = DefaultMtu /\ \A h \in Handles : h # g => conn_mtu'[h] = conn_mtu[h]
      BY <1>t, <2>0, <2>1
    <2>5. \A h \in Handles : h # g => connections'[h] = connections[h]
      BY <1>t, <2>0 DEF TypeOK
    <2>6. \A i \in DOMAIN EVENTS' : i + 1 \in DOMAIN EVENTS /\ EVENTS'[i] = EVENTS[i + 1]
      BY <1>t, <2>0, QueueStep, HeadTailProperties
    <2> HIDE DEF g
    <2>7. MtuFollows'
      BY <2>0, <2>4, <2>5, <2>6 DEF MtuFollows, Fits
    <2>8. QueuedFit'
      BY <2>0, <2>3, <2>4 DEF QueuedFit
    <2> QED BY <2>0, <2>7, <2>8 DEF Fits, NoTruncation
  <1>11. CASE DrainDisconnected
    <2> DEFINE g == Head(EVENTS).handle
    <2>0. /\ Running /\ pc' = "drain" /\ MtuFollows /\ QueuedFit
          /\ EVENTS # << >> /\ EVENTS' = Tail(EVENTS)
          /\ connections' = [connections EXCEPT ![g] = 0]
          /\ pending' = [pending EXCEPT ![g] = << >>]
          /\ UNCHANGED <<att_mtu, conn_mtu, sent>>
      BY <1>11 DEF DrainDisconnected, Popped, Running, Fits, Removed, Discarded
    <2> HIDE DEF g
    <2>1. \A h \in Handles : connections'[h] # 0 => connections[h] # 0
      BY <1>t, <2>0 DEF TypeOK
    <2>2. Tail(EVENTS) \in Seq(Event)
      BY <1>t, <2>0, HeadTailProperties
    <2>3. MtuFollows'
      BY <1>t, <2>0, <2>1, <2>2, MtuQuietStep
    <2>4. \A h \in Handles : pending'[h] = IF h = g THEN << >> ELSE pending[h]
      BY <1>t, <2>0 DEF TypeOK
    <2>5. \A h \in Handles : \A i \in DOMAIN pending'[h] : pending'[h] = pending[h]
      BY <2>4
    <2>6. QueuedFit'
      BY <2>0, <2>5 DEF QueuedFit
    <2> QED BY <2>0, <2>3, <2>6 DEF Fits, NoTruncation
  <1>12. CASE DrainMtu
    <2> DEFINE g == Head(EVENTS).handle
               v == Head(EVENTS).value
    <2>0. /\ Running /\ pc' = "drain" /\ MtuFollows /\ QueuedFit
          /\ EVENTS # << >> /\ Head(EVENTS).kind = "MtuExchanged" /\ EVENTS' = Tail(EVENTS)
          /\ conn_mtu' = [conn_mtu EXCEPT ![g] = IF connections[g] = 0 THEN @ ELSE v]
          /\ UNCHANGED <<att_mtu, connections, pending, sent>>
      BY <1>12 DEF DrainMtu, Popped, Running, Fits, historyVars
    <2>1. \E i \in DOMAIN EVENTS : EVENTS[i] = Head(EVENTS)
      BY <1>t, <2>0, QueueStep, HeadTailProperties
    <2>2. g \in Handles
      BY <1>t, <2>0, HeadTailProperties DEF Event
    <2>3. v = att_mtu[g]
      BY <2>0, <2>1 DEF MtuFollows
    <2>4. \A i \in DOMAIN EVENTS' : i + 1 \in DOMAIN EVENTS /\ EVENTS'[i] = EVENTS[i + 1]
      BY <1>t, <2>0, QueueStep, HeadTailProperties
    <2> HIDE DEF g, v
    <2>5. /\ \A h \in Handles : conn_mtu'[h] = IF h = g /\ connections[g] # 0 THEN att_mtu[g] ELSE conn_mtu[h]
      BY <1>t, <2>0, <2>2, <2>3
    <2>6. MtuFollows'
      BY <1>t, <2>0, <2>2, <2>4, <2>5 DEF MtuFollows
    <2>7. QueuedFit'
      <3> SUFFICES ASSUME NEW h \in Handles, NEW i \in DOMAIN pending[h]
                   PROVE  pending[h][i].len <= Payload(conn_mtu'[h])
        BY <2>0 DEF QueuedFit
      <3>1. pending[h][i].len <= Payload(conn_mtu[h])
        BY <2>0 DEF QueuedFit
      <3>2. conn_mtu[h] <= conn_mtu'[h] /\ conn_mtu[h] \in Nat /\ conn_mtu'[h] \in Nat
        BY <1>t, <2>0, <2>2, <2>5 DEF MtuFollows
      <3>3. pending[h][i] \in Notification
        BY <1>t DEF TypeOK
      <3>4. pending[h][i].len \in Nat
        BY <3>3, RuntimeAssumption DEF Notification
      <3> QED BY <3>1, <3>2, <3>4, PayloadGrows
    <2> QED BY <2>0, <2>6, <2>7 DEF Fits, NoTruncation
  <1>13. CASE Flush
    <2> DEFINE h == Head(EVENTS).handle
    <2>1. /\ EVENTS # << >> /\ pc = "drain" /\ pc' = "drain"
          /\ UNCHANGED <<att_mtu, conn_mtu, connections>>
          /\ EVENTS' = Tail(EVENTS) \/ EVENTS' = Append(Tail(EVENTS), event("CanSend", h, 0))
      BY <1>13 DEF Flush, Popped, RequestMore, RequestSend
    <2>2. h \in Handles /\ Tail(EVENTS) \in Seq(Event)
      BY <1>13, <1>t, HeadTailProperties DEF Flush, Popped, Event
    <2>3. event("CanSend", h, 0) \in Event /\ event("CanSend", h, 0).kind = "CanSend"
      BY <1>t, <2>2, EventType DEF EventKind, event
    <2>4. MtuFollows
      BY <2>1 DEF Fits, Running
    <2>5. MtuFollows'
      BY <1>t, <2>1, <2>2, <2>3, <2>4, MtuQuietStep
    <2> QED BY <1>13, <2>1, <2>5, FitsFlush DEF Fits
  <1>14. CASE StopPump
    <2>1. ~Running' /\ UNCHANGED sent
      BY <1>14 DEF StopPump, Running, historyVars
    <2>2. \A h \in Handles : DefaultMtu <= att_mtu'[h]
      <3>1. ASSUME NEW g \in Handles, LeConnected(g) PROVE \A h \in Handles : DefaultMtu <= att_mtu'[h]
        BY <1>t, <3>1 DEF LeConnected, Fits
      <3> QED BY <1>14, <3>1 DEF StopPump, LeDisconnected, NumCompleted, Fits
    <2> QED BY <2>1, <2>2 DEF Fits, NoTruncation
  <1>15. CASE Finish
    BY <1>15 DEF Finish, Fits, NoTruncation, Running, bridgeVars
  <1> QED
    BY <1>1, <1>2, <1>3, <1>4, <1>5, <1>6, <1>7, <1>8, <1>9, <1>10, <1>11, <1>12, <1>13, <1>14, <1>15
       DEF Next, Worker, Environment, Terminated

\* No notification is ever longer than the MTU of its link at the moment it is
\* sent, although it was checked earlier, against the MTU run() had heard of.
THEOREM NoTruncationHolds == Spec => []NoTruncation
  <1>1. Fits => NoTruncation
    BY DEF Fits
  <1> QED BY <1>1, BaseInvariant, FitsInit, FitsStep, PTL DEF Spec

-----------------------------------------------------------------------------
(* Grants *)

\* No handle holds two slots of send_requests.
OneSlot ==
    \A i, j \in Slots : send_requests[i] = send_requests[j] /\ send_requests[i] # NoHandle => i = j

\* There is a slot for every link; the code has 16 and does not limit the links.
SlotForEach == Cardinality(Handles) <= NSlots

\* A handle that holds no slot finds one free.
LEMMA SlotsSuffice ==
    ASSUME SlotForEach, TypeOK, OneSlot, NEW h \in Handles, BusyFor(h) = {}
    PROVE  BusyFor(NoHandle) # {}
  <1> SUFFICES ASSUME BusyFor(NoHandle) = {} PROVE FALSE
    OBVIOUS
  <1> DEFINE T == Handles \ {h}
  <1>1. IsFiniteSet(T) /\ Cardinality(T) = Cardinality(Handles) - 1 /\ Cardinality(Handles) \in Nat
    BY BridgeAssumption, FS_RemoveElement, FS_CardinalityType
  <1>2. IsFiniteSet(Slots) /\ Cardinality(Slots) = NSlots /\ NSlots \in Nat
    <2>1. NSlots \in Nat /\ NSlots > 0
      BY BridgeAssumption
    <2>2. 0 \in Int /\ NSlots - 1 \in Int /\ ~(0 > NSlots - 1)
      BY <2>1
    <2> QED BY <2>1, <2>2, FS_Interval DEF Slots
  <1>3. send_requests \in [Slots -> T]
    BY DEF TypeOK, BridgeTypeOK, BusyFor
  <1>4. Cardinality(T) < Cardinality(Slots)
    BY <1>1, <1>2 DEF SlotForEach
  <1>5. \E x, y \in Slots : x # y /\ send_requests[x] = send_requests[y]
    BY <1>1, <1>2, <1>3, <1>4, FS_PigeonHole
  <1> QED BY <1>3, <1>5, BridgeAssumption DEF OneSlot

\* After rs_request_send a live link has a grant on its way, and nobody lost one.
LEMMA RequestWakes ==
    ASSUME SlotForEach, TypeOK, OneSlot, NEW h \in Handles, NEW queue \in Seq(Event), NEW used,
           RequestSend(h, queue, used), UNCHANGED link
    PROVE  /\ OneSlot'
           /\ \A g \in Handles : BusyFor(g) # {} => BusyFor(g)' # {}
           /\ \A g \in Handles : (\E i \in DOMAIN queue : queue[i].kind = "CanSend" /\ queue[i].handle = g)
                                     => QueuedFor(g, {"CanSend"})' # {}
           /\ link[h] # 0 => BusyFor(h)' # {} \/ QueuedFor(h, {"CanSend"})' # {}
  <1>t. send_requests \in [Slots -> Handles \cup {NoHandle}] /\ NoHandle \notin Handles
    BY BridgeAssumption DEF TypeOK, BridgeTypeOK
  <1>1. CASE EVENTS' = queue /\ UNCHANGED send_requests /\ (BusyFor(h) # {} \/ link[h] = 0)
    BY <1>1 DEF OneSlot, BusyFor, QueuedFor
  <1>2. ASSUME NEW i \in Slots, BusyFor(h) = {}, FirstFree(i),
               send_requests' = [send_requests EXCEPT ![i] = h], EVENTS' = queue
        PROVE  /\ OneSlot'
               /\ \A g \in Handles : BusyFor(g) # {} => BusyFor(g)' # {}
               /\ \A g \in Handles : (\E k \in DOMAIN queue : queue[k].kind = "CanSend" /\ queue[k].handle = g)
                                         => QueuedFor(g, {"CanSend"})' # {}
               /\ BusyFor(h)' # {}
    <2>1. /\ send_requests[i] = NoHandle /\ send_requests'[i] = h
          /\ \A j \in Slots : j # i => send_requests'[j] = send_requests[j]
          /\ \A j \in Slots : send_requests[j] # h
      BY <1>t, <1>2 DEF FirstFree, BusyFor
    <2> QED BY <1>t, <1>2, <2>1 DEF OneSlot, BusyFor, QueuedFor
  <1>3. ASSUME EVENTS' = Append(queue, event("CanSend", h, 0)), UNCHANGED send_requests
        PROVE  /\ OneSlot'
               /\ \A g \in Handles : BusyFor(g) # {} => BusyFor(g)' # {}
               /\ \A g \in Handles : (\E k \in DOMAIN queue : queue[k].kind = "CanSend" /\ queue[k].handle = g)
                                         => QueuedFor(g, {"CanSend"})' # {}
               /\ QueuedFor(h, {"CanSend"})' # {}
    <2> DEFINE e == event("CanSend", h, 0)
    <2>1. e \in Event /\ e.kind = "CanSend" /\ e.handle = h
      BY EventType DEF TypeOK, EventKind, event
    <2> HIDE DEF e
    <2>2. /\ Len(queue) \in Nat /\ DOMAIN queue = 1 .. Len(queue)
          /\ DOMAIN EVENTS' = 1 .. Len(queue) + 1
          /\ \A k \in 1 .. Len(queue) : EVENTS'[k] = queue[k]
          /\ EVENTS'[Len(queue) + 1] = e
      BY <1>3, <2>1, AppendProperties, LenProperties DEF e
    <2>3. Len(queue) + 1 \in DOMAIN EVENTS' /\ \A k \in DOMAIN queue : k \in DOMAIN EVENTS' /\ EVENTS'[k] = queue[k]
      BY <2>2
    <2> QED BY <1>3, <2>1, <2>2, <2>3 DEF OneSlot, BusyFor, QueuedFor
  <1>4. \/ EVENTS' = queue /\ UNCHANGED send_requests /\ (BusyFor(h) # {} \/ link[h] = 0)
        \/ \E i \in Slots : /\ BusyFor(h) = {} /\ FirstFree(i)
                            /\ send_requests' = [send_requests EXCEPT ![i] = h] /\ EVENTS' = queue
        \/ EVENTS' = Append(queue, event("CanSend", h, 0)) /\ UNCHANGED send_requests
    BY SlotsSuffice DEF RequestSend
  <1> QED BY <1>1, <1>2, <1>3, <1>4

Wakeup == OneSlot /\ NoLostWakeup

\* Nothing waits at first.
LEMMA WakeupInit == Init => Wakeup
  <1>1. ASSUME Init PROVE OneSlot
    BY <1>1 DEF Init, BridgeInit, OneSlot
  <1> QED BY <1>1 DEF Init, Wakeup, NoLostWakeup

\* A step that queues nothing, for no new link, and takes no grant away.
LEMMA WakeupQuietStep ==
    ASSUME Wakeup, OneSlot', Running' => Running,
           \A h \in Handles : pending'[h] # << >> /\ link'[h] # 0 =>
               /\ pending[h] # << >> /\ link[h] # 0
               /\ BusyFor(h) # {} => BusyFor(h)' # {} \/ QueuedFor(h, {"CanSend"})' # {}
               /\ QueuedFor(h, {"CanSend"}) # {} => QueuedFor(h, {"CanSend"})' # {}
    PROVE  Wakeup'
  BY DEF Wakeup, NoLostWakeup

\* Grants survive what is put behind them, and the pop of something else.
LEMMA GrantsKept ==
    ASSUME TypeOK, NEW h \in Handles,
           \/ EVENTS' = EVENTS
           \/ \E e \in Event : EVENTS' = Append(EVENTS, e)
           \/ /\ EVENTS # << >> /\ EVENTS' = Tail(EVENTS)
              /\ ~(Head(EVENTS).kind = "CanSend" /\ Head(EVENTS).handle = h)
    PROVE  QueuedFor(h, {"CanSend"}) # {} => QueuedFor(h, {"CanSend"})' # {}
  <1>0. EVENTS \in Seq(Event)
    BY DEF TypeOK, BridgeTypeOK
  <1>1. CASE EVENTS' = EVENTS
    BY <1>1 DEF QueuedFor
  <1>2. ASSUME NEW e \in Event, EVENTS' = Append(EVENTS, e)
        PROVE  QueuedFor(h, {"CanSend"}) # {} => QueuedFor(h, {"CanSend"})' # {}
    <2>1. /\ Len(EVENTS) \in Nat /\ DOMAIN EVENTS = 1 .. Len(EVENTS)
          /\ DOMAIN EVENTS' = 1 .. Len(EVENTS) + 1
          /\ \A k \in 1 .. Len(EVENTS) : EVENTS'[k] = EVENTS[k]
      BY <1>0, <1>2, AppendProperties, LenProperties
    <2>2. ASSUME NEW k \in DOMAIN EVENTS PROVE k \in DOMAIN EVENTS' /\ EVENTS'[k] = EVENTS[k]
      <3>1. Len(EVENTS) \in Nat /\ k \in 1 .. Len(EVENTS)
        BY <1>0, LenProperties
      <3>2. k \in 1 .. Len(EVENTS) + 1
        BY <3>1
      <3> QED BY <2>1, <3>1, <3>2
    <2> QED BY <2>2 DEF QueuedFor
  <1>3. CASE /\ EVENTS # << >> /\ EVENTS' = Tail(EVENTS)
             /\ ~(Head(EVENTS).kind = "CanSend" /\ Head(EVENTS).handle = h)
    <2> DEFINE r == Tail(EVENTS)
    <2>1. /\ Len(EVENTS) \in Nat /\ DOMAIN EVENTS = 1 .. Len(EVENTS)
          /\ DOMAIN r = 1 .. Len(EVENTS) - 1
          /\ \A k \in 1 .. Len(EVENTS) - 1 : r[k] = EVENTS[k + 1]
          /\ EVENTS[1] = Head(EVENTS)
      BY <1>0, <1>3, HeadTailProperties, LenProperties, EmptySeq
    <2> HIDE DEF r
    <2>2. \A k \in DOMAIN EVENTS : k # 1 => k - 1 \in DOMAIN r /\ r[k - 1] = EVENTS[k]
      BY <2>1
    <2>3. EVENTS' = r
      BY <1>3 DEF r
    <2>4. ASSUME NEW k \in QueuedFor(h, {"CanSend"}) PROVE k - 1 \in QueuedFor(h, {"CanSend"})'
      <3>1. k \in DOMAIN EVENTS /\ k # 1
        BY <1>3, <2>1 DEF QueuedFor
      <3> QED BY <2>2, <2>3, <3>1 DEF QueuedFor
    <2> QED BY <2>4
  <1> QED BY <1>1, <1>2, <1>3

\* Every step leaves what waits a grant or a request.
LEMMA WakeupStep ==
    ASSUME SlotForEach
    PROVE  Base /\ Wakeup /\ [Next]_vars => Wakeup'
  <1> SUFFICES ASSUME Base, Wakeup, [Next]_vars PROVE Wakeup'
    OBVIOUS
  <1>t. /\ TypeOK /\ BridgeTypeOK /\ EVENTS \in Seq(Event) /\ OneSlot
        /\ send_requests \in [Slots -> Handles \cup {NoHandle}] /\ NoHandle \notin Handles
        /\ link \in [Handles -> Nat] /\ pending \in [Handles -> Seq(Notification)]
    BY BridgeAssumption DEF Base, TypeOK, BridgeTypeOK, Wakeup
  \* A step that only appends to EVENTS or pops something else than a grant.
  <1>u. ASSUME UNCHANGED <<link, pending, send_requests>>, Running' => Running,
               \/ EVENTS' = EVENTS
               \/ \E e \in Event : EVENTS' = Append(EVENTS, e)
               \/ EVENTS # << >> /\ EVENTS' = Tail(EVENTS) /\ Head(EVENTS).kind # "CanSend"
        PROVE  Wakeup'
    <2>1. \A h \in Handles : QueuedFor(h, {"CanSend"}) # {} => QueuedFor(h, {"CanSend"})' # {}
      BY <1>t, <1>u, GrantsKept
    <2>2. OneSlot' /\ \A h \in Handles : BusyFor(h)' = BusyFor(h)
      BY <1>t, <1>u DEF OneSlot, BusyFor
    <2> QED BY <1>u, <2>1, <2>2, WakeupQuietStep
  <1>s. ASSUME ~Running', OneSlot' PROVE Wakeup'
    BY <1>s DEF Wakeup, NoLostWakeup
  <1>1. CASE UNCHANGED vars
    BY <1>1, <1>u DEF vars, bridgeVars, workerVars, Running
  <1>2. CASE Application
    BY <1>2, <1>u DEF Application, Notify, CallTimeout, Shutdown, StopSends, bridgeVars, workerVars, Running
  <1>3. CASE CommandsDone \/ PollDone \/ DrainDone \/ (\E h \in Handles, a \in Attributes, on \in BOOLEAN : CccdWrite(h, a, on))
    BY <1>3, <1>u DEF CommandsDone, PollDone, DrainDone, CccdWrite, Exit, bridgeVars, workerVars, Running
  <1>4. CASE TakeStop \/ ReceiveFails \/ DrainCommandFailed \/ Finish
    <2>1. ~Running' /\ UNCHANGED send_requests
      BY <1>4 DEF TakeStop, ReceiveFails, DrainCommandFailed, Finish, Exit, bridgeVars, Running
    <2> QED BY <1>s, <1>t, <2>1 DEF OneSlot
  <1>5. CASE TakeNotify
    <2>1. PICK h \in Handles : h = Head(commands).handle
      BY <1>5, <1>t, HeadTailProperties DEF TakeNotify, TypeOK, Command
    <2>2. CASE ~Acceptable(Head(commands))
      BY <1>5, <1>u, <2>2 DEF TakeNotify, Running
    <2>3. CASE Acceptable(Head(commands))
      <3>1. /\ RequestSend(h, EVENTS, inflight) /\ UNCHANGED <<link, pc>> /\ Running
            /\ \A g \in Handles : g # h => pending'[g] = pending[g]
        BY <1>5, <1>t, <2>1, <2>3 DEF TakeNotify, MayTake, Running
      <3>2. /\ OneSlot'
            /\ \A g \in Handles : BusyFor(g) # {} => BusyFor(g)' # {}
            /\ \A g \in Handles : (\E i \in DOMAIN EVENTS : EVENTS[i].kind = "CanSend" /\ EVENTS[i].handle = g)
                                      => QueuedFor(g, {"CanSend"})' # {}
            /\ link[h] # 0 => BusyFor(h)' # {} \/ QueuedFor(h, {"CanSend"})' # {}
        BY <1>t, <3>1, RequestWakes
      <3>3. \A g \in Handles : QueuedFor(g, {"CanSend"}) # {} => QueuedFor(g, {"CanSend"})' # {}
        BY <3>2 DEF QueuedFor
      <3> QED BY <3>1, <3>2, <3>3 DEF Wakeup, NoLostWakeup, Running
    <2> QED BY <2>2, <2>3
  <1>6. CASE ReceivePacket
    <2>0. Running /\ pc = "receive" /\ pc' = "poll" /\ UNCHANGED <<pending, connections>>
      BY <1>6 DEF ReceivePacket, AfterPacket, Running, workerVars
    <2>1. ASSUME NEW h \in Handles, LeConnected(h) PROVE Wakeup'
      <3> DEFINE e == [kind |-> "Connected", handle |-> h, value |-> DefaultMtu, link |-> nextLink]
      <3>1. e \in Event
        BY <1>t, BridgeAssumption DEF Event, EventKind, BridgeTypeOK
      <3>2. /\ EVENTS' = Append(EVENTS, e) /\ link[h] = 0 /\ UNCHANGED send_requests
            /\ \A g \in Handles : g # h => link'[g] = link[g]
        BY <1>t, <2>1 DEF LeConnected
      <3>3. pending[h] = << >>
        <4>1. connections[h] = 0
          BY <2>0, <3>2 DEF Base, Agreement, Agree, Quiet
        <4>2. \A i \in DOMAIN pending[h] : pending[h][i].generation = 0 /\ pending[h][i] \in Notification
          BY <1>t, <4>1 DEF Base, StateForLiveOnly
        <4>3. \A i \in DOMAIN pending[h] : FALSE
          BY <4>2 DEF Notification
        <4>4. DOMAIN pending[h] = 1 .. Len(pending[h]) /\ Len(pending[h]) \in Nat
          BY <1>t, LenProperties
        <4>5. Len(pending[h]) = 0
          <5>1. ASSUME Len(pending[h]) > 0 PROVE 1 \in DOMAIN pending[h]
            BY <4>4, <5>1
          <5> QED BY <4>3, <4>4, <5>1
        <4> QED BY <1>t, <4>5, EmptySeq
      <3>4. \A g \in Handles : QueuedFor(g, {"CanSend"}) # {} => QueuedFor(g, {"CanSend"})' # {}
        BY <1>t, <3>1, <3>2, GrantsKept
      <3>5. OneSlot' /\ \A g \in Handles : BusyFor(g)' = BusyFor(g)
        BY <1>t, <3>2 DEF OneSlot, BusyFor
      <3> HIDE DEF e
      <3> QED BY <2>0, <3>2, <3>3, <3>4, <3>5, WakeupQuietStep
    <2>2. ASSUME NEW h \in Handles, LeDisconnected(h) PROVE Wakeup'
      <3>1. event("Disconnected", h, 0) \in Event
        BY <1>t, EventType DEF EventKind
      <3>2. /\ EVENTS' = Append(EVENTS, event("Disconnected", h, 0))
            /\ send_requests' = [i \in Slots |-> IF send_requests[i] = h THEN NoHandle ELSE send_requests[i]]
            /\ link'[h] = 0 /\ \A g \in Handles : g # h => link'[g] = link[g]
        BY <1>t, <2>2 DEF LeDisconnected, Push
      <3>3. \A g \in Handles : QueuedFor(g, {"CanSend"}) # {} => QueuedFor(g, {"CanSend"})' # {}
        BY <1>t, <3>1, <3>2, GrantsKept
      <3>4. OneSlot' /\ \A g \in Handles : g # h => BusyFor(g)' = BusyFor(g)
        BY <1>t, <3>2 DEF OneSlot, BusyFor
      <3> QED BY <2>0, <3>2, <3>3, <3>4, WakeupQuietStep
    <2>3. ASSUME CommandFailed PROVE Wakeup'
      <3>1. [kind |-> "CommandFailed", handle |-> NoHandle, value |-> 1, link |-> 0] \in Event
        BY DEF Event
      <3> QED BY <1>u, <2>0, <2>3, <3>1 DEF CommandFailed
    <2>4. ASSUME UNCHANGED <<link, send_requests, EVENTS>> PROVE Wakeup'
      BY <1>u, <2>0, <2>4
    <2> QED BY <1>6, <2>1, <2>2, <2>3, <2>4 DEF ReceivePacket, NumCompleted, bridgeVars
  <1>7. ASSUME NEW i \in Slots, PollCanSend(i) PROVE Wakeup'
    <2>0. PICK h \in Handles : h = send_requests[i]
      BY <1>7, <1>t DEF PollCanSend, CanSend
    <2>1. /\ send_requests' = [send_requests EXCEPT ![i] = NoHandle]
          /\ EVENTS' = Append(EVENTS, event("CanSend", h, 0)) /\ pc' = pc /\ UNCHANGED <<link, pending>>
      BY <1>7, <2>0 DEF PollCanSend, CanSend, Push, workerVars
    <2>2. event("CanSend", h, 0) \in Event /\ event("CanSend", h, 0).kind = "CanSend"
          /\ event("CanSend", h, 0).handle = h
      BY <1>t, <2>1, EventType DEF EventKind, event
    <2>3. \A g \in Handles : QueuedFor(g, {"CanSend"}) # {} => QueuedFor(g, {"CanSend"})' # {}
      BY <1>t, <2>1, <2>2, GrantsKept
    <2>4. QueuedFor(h, {"CanSend"})' # {}
      <3>1. /\ Len(EVENTS) \in Nat /\ DOMAIN EVENTS' = 1 .. Len(EVENTS) + 1
            /\ EVENTS'[Len(EVENTS) + 1] = event("CanSend", h, 0)
        BY <1>t, <2>1, <2>2, AppendProperties, LenProperties
      <3>2. Len(EVENTS) + 1 \in DOMAIN EVENTS'
        BY <3>1
      <3> QED BY <2>2, <3>1, <3>2 DEF QueuedFor
    <2>5. OneSlot' /\ \A g \in Handles : g # h => (BusyFor(g) # {} => BusyFor(g)' # {})
      BY <1>t, <2>0, <2>1 DEF OneSlot, BusyFor
    <2> QED BY <2>1, <2>3, <2>4, <2>5, WakeupQuietStep DEF Running
  <1>8. ASSUME NEW h \in Handles, PollExchangeMtu(h) PROVE Wakeup'
    <2>1. PICK v \in Mtus : EVENTS' = Append(EVENTS, event("MtuExchanged", h, v))
      BY <1>8 DEF PollExchangeMtu, ExchangeMtu, Push
    <2>2. event("MtuExchanged", h, v) \in Event
      BY <1>t, BridgeAssumption, EventType DEF EventKind
    <2> QED BY <1>8, <1>u, <2>1, <2>2 DEF PollExchangeMtu, ExchangeMtu, workerVars, Running
  <1>9. CASE DrainConnected \/ DrainMtu
    BY <1>9, <1>u DEF DrainConnected, DrainMtu, Popped, Running
  <1>10. CASE DrainDisconnected
    <2> DEFINE g == Head(EVENTS).handle
    <2>1. /\ pending' = [pending EXCEPT ![g] = << >>] /\ UNCHANGED <<link, send_requests>>
          /\ EVENTS # << >> /\ EVENTS' = Tail(EVENTS) /\ Head(EVENTS).kind # "CanSend"
          /\ Running /\ Running'
      BY <1>10 DEF DrainDisconnected, Discarded, Popped, Running
    <2>2. \A h \in Handles : QueuedFor(h, {"CanSend"}) # {} => QueuedFor(h, {"CanSend"})' # {}
      BY <1>t, <2>1, GrantsKept
    <2>3. OneSlot' /\ \A h \in Handles : BusyFor(h)' = BusyFor(h)
      BY <1>t, <2>1 DEF OneSlot, BusyFor
    <2>4. \A h \in Handles : pending'[h] # << >> => pending[h] # << >>
      BY <1>t, <2>1
    <2> QED BY <2>1, <2>2, <2>3, <2>4, WakeupQuietStep
  <1>11. CASE FlushNothing
    <2> DEFINE g == Head(EVENTS).handle
    <2>1. /\ pending[g] = << >> /\ UNCHANGED <<pending, link, send_requests>>
          /\ EVENTS # << >> /\ EVENTS' = Tail(EVENTS) /\ Running /\ Running'
      BY <1>11 DEF FlushNothing, Popped, Running, workerVars
    <2>2. \A h \in Handles : h # g => (QueuedFor(h, {"CanSend"}) # {} => QueuedFor(h, {"CanSend"})' # {})
      BY <1>t, <2>1, GrantsKept
    <2>3. OneSlot' /\ \A h \in Handles : BusyFor(h)' = BusyFor(h)
      BY <1>t, <2>1 DEF OneSlot, BusyFor
    <2> QED BY <2>1, <2>2, <2>3, WakeupQuietStep
  <1>12. CASE Flush
    <2>0. PICK h \in Handles : h = Head(EVENTS).handle
      BY <1>12, <1>t, HeadTailProperties DEF Flush, Popped, Event
    <2>1. /\ EVENTS # << >> /\ pc = "drain" /\ pc' = "drain" /\ pending[h] # << >> /\ UNCHANGED link
          /\ pending' = [pending EXCEPT ![h] = Tail(@)] /\ RequestMore(h, Tail(pending[h]))
      BY <1>12, <2>0 DEF Flush, Popped
    <2>2. Tail(EVENTS) \in Seq(Event)
      BY <1>t, <2>1, HeadTailProperties
    <2>3. pending'[h] = Tail(pending[h]) /\ \A g \in Handles : g # h => pending'[g] = pending[g]
      BY <1>t, <2>1, <2>2
    <2>4. \A g \in Handles : g # h /\ QueuedFor(g, {"CanSend"}) # {} =>
             \E i \in DOMAIN Tail(EVENTS) : Tail(EVENTS)[i].kind = "CanSend" /\ Tail(EVENTS)[i].handle = g
      <3> DEFINE r == Tail(EVENTS)
      <3>1. /\ Len(EVENTS) \in Nat /\ DOMAIN EVENTS = 1 .. Len(EVENTS)
            /\ DOMAIN r = 1 .. Len(EVENTS) - 1
            /\ \A k \in 1 .. Len(EVENTS) - 1 : r[k] = EVENTS[k + 1]
            /\ EVENTS[1] = Head(EVENTS)
        BY <1>t, <2>1, HeadTailProperties, LenProperties, EmptySeq
      <3> HIDE DEF r
      <3>2. \A k \in DOMAIN EVENTS : k # 1 => k - 1 \in DOMAIN r /\ r[k - 1] = EVENTS[k]
        BY <3>1
      <3>3. \A g \in Handles : g # h /\ QueuedFor(g, {"CanSend"}) # {} =>
               \E i \in DOMAIN r : r[i].kind = "CanSend" /\ r[i].handle = g
        BY <2>0, <3>1, <3>2 DEF QueuedFor
      <3> QED BY <3>3 DEF r
    <2>5. CASE Tail(pending[h]) = << >>
      <3>1. EVENTS' = Tail(EVENTS) /\ UNCHANGED send_requests
        BY <2>1, <2>5 DEF RequestMore
      <3>2. \A g \in Handles : g # h /\ QueuedFor(g, {"CanSend"}) # {} => QueuedFor(g, {"CanSend"})' # {}
        BY <2>4, <3>1 DEF QueuedFor
      <3>3. OneSlot' /\ \A g \in Handles : BusyFor(g)' = BusyFor(g)
        BY <1>t, <3>1 DEF OneSlot, BusyFor
      <3> QED BY <2>1, <2>3, <2>5, <3>2, <3>3, WakeupQuietStep DEF Running
    <2>6. CASE Tail(pending[h]) # << >>
      <3>1. RequestSend(h, Tail(EVENTS), inflight')
        BY <2>1, <2>6 DEF RequestMore
      <3>2. /\ OneSlot'
            /\ \A g \in Handles : BusyFor(g) # {} => BusyFor(g)' # {}
            /\ \A g \in Handles : g # h /\ QueuedFor(g, {"CanSend"}) # {} => QueuedFor(g, {"CanSend"})' # {}
            /\ link[h] # 0 => BusyFor(h)' # {} \/ QueuedFor(h, {"CanSend"})' # {}
        BY <1>t, <2>1, <2>2, <2>4, <3>1, RequestWakes
      <3> QED BY <2>1, <2>3, <3>2 DEF Wakeup, NoLostWakeup, Running
    <2> QED BY <2>5, <2>6
  <1>13. CASE StopPump
    <2>1. ~Running'
      BY <1>13 DEF StopPump, Running
    <2>2. OneSlot'
      <3>1. \/ UNCHANGED send_requests
            \/ \E h \in Handles : send_requests' =
                  [i \in Slots |-> IF send_requests[i] = h THEN NoHandle ELSE send_requests[i]]
        BY <1>13 DEF StopPump, LeConnected, LeDisconnected, NumCompleted
      <3> QED BY <1>t, <3>1 DEF OneSlot
    <2> QED BY <1>s, <2>1, <2>2
  <1> QED
    BY <1>1, <1>2, <1>3, <1>4, <1>5, <1>6, <1>7, <1>8, <1>9, <1>10, <1>11, <1>12, <1>13
       DEF Next, Worker, Environment, Terminated

\* As long as there is a slot for every link, no link waits for a grant that
\* nobody asked for.
THEOREM NoLostWakeupHolds == SlotForEach => (Spec => []NoLostWakeup)
  <1> SUFFICES ASSUME SlotForEach PROVE Spec => []NoLostWakeup
    OBVIOUS
  <1>1. Base /\ Wakeup /\ [Next]_vars => Wakeup'
    BY WakeupStep
  <1>2. Wakeup => NoLostWakeup
    BY DEF Wakeup
  <1> QED BY <1>1, <1>2, BaseInvariant, WakeupInit, PTL DEF Spec

-----------------------------------------------------------------------------
(* GattRuntime provides the notification service *)

\* What the refinement rests on.
Seeing == Naming /\ CallsInOrder

\* It is inductive.
LEMMA SeeingInvariant == (Init => Seeing) /\ (Seeing /\ [Next]_vars => Seeing')
  BY NamingInvariant, CallsInOrderInit, CallsInOrderStep DEF Seeing, Naming, Base

\* Nothing is queued for a handle without a connection.
LEMMA NothingQueued ==
    ASSUME TypeOK, StateForLiveOnly, NEW h \in Handles, connections[h] = 0
    PROVE  pending[h] = << >>
  <1>1. pending[h] \in Seq(Notification)
    BY DEF TypeOK
  <1>2. \A i \in DOMAIN pending[h] : pending[h][i].generation = 0 /\ pending[h][i] \in Notification
    BY <1>1 DEF StateForLiveOnly
  <1>3. \A i \in DOMAIN pending[h] : FALSE
    BY <1>2 DEF Notification
  <1>4. DOMAIN pending[h] = 1 .. Len(pending[h]) /\ Len(pending[h]) \in Nat
    BY <1>1, LenProperties
  <1>5. Len(pending[h]) = 0
    <2>1. ASSUME Len(pending[h]) > 0 PROVE 1 \in DOMAIN pending[h]
      BY <1>4, <2>1
    <2> QED BY <1>3, <1>4, <2>1
  <1> QED BY <1>1, <1>5, EmptySeq

\* Both what is queued and what was sent carries the call it comes from.
LEMMA CarryIds ==
    (\A n \in Notification : n.id \in Calls) /\ (\A n \in Transmission : n.id \in Calls)
  BY DEF Notification, Transmission

\* The calls of a queue, one for each value.
LEMMA IdsProperties ==
    ASSUME NEW S, \A n \in S : n.id \in Calls, NEW q \in Seq(S)
    PROVE  /\ Ids(q) \in Seq(Calls) /\ Len(Ids(q)) = Len(q)
           /\ \A i \in 1 .. Len(q) : Ids(q)[i] = q[i].id
  <1>1. Len(q) \in Nat /\ DOMAIN q = 1 .. Len(q) /\ \A i \in 1 .. Len(q) : q[i].id \in Calls
    <2>1. Len(q) \in Nat /\ DOMAIN q = 1 .. Len(q)
      BY LenProperties
    <2>2. \A i \in 1 .. Len(q) : q[i] \in S
      BY ElementOfSeq
    <2> QED BY <2>1, <2>2
  <1>2. Ids(q) = [i \in 1 .. Len(q) |-> q[i].id]
    BY <1>1 DEF Ids
  <1> QED BY <1>1, <1>2

\* The calls of a queue that got one value more.
LEMMA IdsAppend ==
    ASSUME NEW S, \A n \in S : n.id \in Calls, NEW q \in Seq(S), NEW m \in S
    PROVE  Ids(Append(q, m)) = Append(Ids(q), m.id)
  <1>1. /\ Append(q, m) \in Seq(S) /\ Len(Append(q, m)) = Len(q) + 1 /\ Len(q) \in Nat
        /\ \A i \in 1 .. Len(q) : Append(q, m)[i] = q[i]
        /\ Append(q, m)[Len(q) + 1] = m
    BY AppendProperties, LenProperties
  <1>2. /\ Ids(Append(q, m)) \in Seq(Calls) /\ Len(Ids(Append(q, m))) = Len(q) + 1
        /\ \A i \in 1 .. Len(q) + 1 : Ids(Append(q, m))[i] = Append(q, m)[i].id
    BY <1>1, IdsProperties
  <1>3. Ids(q) \in Seq(Calls) /\ Len(Ids(q)) = Len(q) /\ \A i \in 1 .. Len(q) : Ids(q)[i] = q[i].id
    BY IdsProperties
  <1>4. m.id \in Calls
    OBVIOUS
  <1> DEFINE s == Append(Ids(q), m.id)
  <1>5. /\ s \in Seq(Calls) /\ Len(s) = Len(q) + 1
        /\ \A i \in 1 .. Len(q) : s[i] = q[i].id
        /\ s[Len(q) + 1] = m.id
    BY <1>3, <1>4, AppendProperties
  <1> HIDE DEF s
  <1>6. \A i \in 1 .. Len(q) + 1 : Ids(Append(q, m))[i] = s[i]
    BY <1>1, <1>2, <1>5
  <1>7. Ids(Append(q, m)) = s
    BY <1>2, <1>5, <1>6, SeqEqual
  <1> QED BY <1>7 DEF s

\* The calls of a queue that lost its first value.
LEMMA IdsPop ==
    ASSUME NEW S, \A n \in S : n.id \in Calls, NEW q \in Seq(S), q # << >>
    PROVE  Ids(q) # << >> /\ Head(Ids(q)) = Head(q).id /\ Ids(Tail(q)) = Tail(Ids(q))
  <1>1. /\ Tail(q) \in Seq(S) /\ Len(Tail(q)) = Len(q) - 1 /\ Len(q) \in Nat \ {0}
        /\ \A i \in 1 .. Len(q) - 1 : Tail(q)[i] = q[i + 1]
        /\ Head(q) = q[1]
    BY HeadTailProperties, LenProperties, EmptySeq
  <1>2. Ids(q) \in Seq(Calls) /\ Len(Ids(q)) = Len(q) /\ \A i \in 1 .. Len(q) : Ids(q)[i] = q[i].id
    BY IdsProperties
  <1>3. Ids(q) # << >> /\ Head(Ids(q)) = Head(q).id
    BY <1>1, <1>2, EmptySeq
  <1>4. /\ Ids(Tail(q)) \in Seq(Calls) /\ Len(Ids(Tail(q))) = Len(q) - 1
        /\ \A i \in 1 .. Len(q) - 1 : Ids(Tail(q))[i] = Tail(q)[i].id
    BY <1>1, IdsProperties
  <1>5. /\ Tail(Ids(q)) \in Seq(Calls) /\ Len(Tail(Ids(q))) = Len(q) - 1
        /\ \A i \in 1 .. Len(q) - 1 : Tail(Ids(q))[i] = Ids(q)[i + 1]
    BY <1>2, <1>3, HeadTailProperties
  <1>6. \A i \in 1 .. Len(q) - 1 : Ids(Tail(q))[i] = Tail(Ids(q))[i]
    BY <1>1, <1>2, <1>4, <1>5
  <1>7. Ids(Tail(q)) = Tail(Ids(q))
    BY <1>4, <1>5, <1>6, SeqEqual
  <1> QED BY <1>3, <1>7

\* The queue the service shows is the one of the handle that names the connection.
Shown ==
    /\ \A h \in Handles : connections[h] # 0 => QueueOf(connections[h]) = Ids(pending[h])
    /\ \A g : g \notin OpenNow => QueueOf(g) = << >>
    /\ \A g \in OpenNow : \E h \in Handles : connections[h] = g /\ g # 0

\* Distinct numbers give each open connection the queue of its handle.
LEMMA ShownHolds == Distinct => Shown
  <1> SUFFICES ASSUME Distinct PROVE Shown
    OBVIOUS
  <1>1. ASSUME NEW h \in Handles, connections[h] # 0
        PROVE  QueueOf(connections[h]) = Ids(pending[h])
    <2> DEFINE k == CHOOSE g \in Handles : connections[g] = connections[h]
    <2>1. k \in Handles /\ connections[k] = connections[h]
      OBVIOUS
    <2>2. k = h
      BY <1>1, <2>1 DEF Distinct
    <2> QED BY <1>1, <2>2 DEF QueueOf, OpenNow
  <1> QED BY <1>1 DEF Shown, QueueOf, OpenNow

Queues == [g \in Links |-> QueueOf(g)]

\* One queue changes and the connections stay.
LEMMA QueueChange ==
    ASSUME Shown, Shown', UNCHANGED connections, Distinct, TypeOK, Numbered,
           NEW h \in Handles, connections[h] # 0,
           \A k \in Handles : k # h => pending'[k] = pending[k]
    PROVE  /\ connections[h] \in Links /\ connections[h] \in OpenNow
           /\ OpenNow' = OpenNow
           /\ Queues[connections[h]] = Ids(pending[h])
           /\ Queues' = [Queues EXCEPT ![connections[h]] = Ids(pending'[h])]
  <1>1. connections[h] \in OpenNow /\ OpenNow' = OpenNow
    BY DEF OpenNow
  <1>2. connections[h] \in Links
    BY <1>1, OpenLinks
  <1>3. QueueOf(connections[h]) = Ids(pending[h]) /\ QueueOf(connections[h])' = Ids(pending'[h])
    BY DEF Shown
  <1>4. ASSUME NEW g \in Links, g # connections[h] PROVE QueueOf(g)' = QueueOf(g)
    <2>1. CASE g \notin OpenNow
      BY <1>1, <2>1 DEF Shown
    <2>2. CASE g \in OpenNow
      <3>1. PICK k \in Handles : connections[k] = g /\ g # 0
        BY <2>2 DEF Shown
      <3>2. QueueOf(connections[k]) = Ids(pending[k]) /\ QueueOf(connections[k])' = Ids(pending'[k])
        BY <3>1 DEF Shown
      <3> QED BY <1>4, <3>1, <3>2
    <2> QED BY <2>1, <2>2
  <1>5. Queues' = [g \in Links |-> QueueOf(g)']
    BY DEF Queues
  <1> QED BY <1>1, <1>2, <1>3, <1>4, <1>5 DEF Queues

\* The queues of the connections that are gone are gone, the others stay.
LEMMA QueueClose ==
    ASSUME Shown, Shown', TypeOK, Distinct, NEW gone,
           \A h \in Handles : \/ connections'[h] = 0 /\ (connections[h] = 0 \/ connections[h] \in gone)
                             \/ /\ connections'[h] = connections[h] /\ connections[h] \notin gone
                                /\ pending'[h] = pending[h]
    PROVE  /\ OpenNow' = OpenNow \ gone
           /\ Queues' = [g \in Links |-> IF g \in gone THEN << >> ELSE Queues[g]]
  <1>1. OpenNow' = OpenNow \ gone
    BY DEF OpenNow
  <1>2. ASSUME NEW g \in Links PROVE QueueOf(g)' = IF g \in gone THEN << >> ELSE QueueOf(g)
    <2>1. CASE g \notin OpenNow'
      BY <1>1, <2>1 DEF Shown
    <2>2. CASE g \in OpenNow'
      <3>1. PICK k \in Handles : connections'[k] = g /\ g # 0
        BY <2>2 DEF Shown
      <3>2. connections[k] = g /\ g \notin gone /\ pending'[k] = pending[k]
        BY <3>1
      <3>3. QueueOf(connections[k]) = Ids(pending[k]) /\ QueueOf(connections[k])' = Ids(pending'[k])
        BY <3>1, <3>2 DEF Shown
      <3> QED BY <3>1, <3>2, <3>3
    <2> QED BY <2>1, <2>2
  <1>3. Queues' = [g \in Links |-> QueueOf(g)']
    BY DEF Queues
  <1> QED BY <1>1, <1>2, <1>3 DEF Queues

\* What a peer was sent, as the service shows it.
Peers == [g \in Links |-> Ids(sent[g])]
Watched == <<Opened, OpenNow, Queues, accepted, Peers>>

\* The service starts with nothing open.
LEMMA ServiceInit == Init => Service!Init
  <1> SUFFICES ASSUME Init PROVE Service!Init
    OBVIOUS
  <1>1. Opened = {} /\ OpenNow = {} /\ accepted = {}
    BY DEF Init, Opened, OpenNow
  <1>2. \A g \in Links : Ids(sent[g]) = << >>
    BY DEF Init, Ids
  <1> QED BY <1>1, <1>2 DEF Service!Init, QueueOf

\* A step that changes none of this is none of the service.
LEMMA StutterOfService ==
    ASSUME UNCHANGED <<connections, pending, NEXT_CONNECTION, accepted, sent>>
    PROVE  UNCHANGED Watched
  BY DEF Watched, Opened, OpenNow, Queues, QueueOf, Ids, Peers

\* The value at the front of the channel was not accepted before.
LEMMA NextIsNew ==
    ASSUME TypeOK, CallsInOrder, commands # << >>, Head(commands) # Stop
    PROVE  /\ Head(commands).id \in Calls \ accepted /\ Head(commands).handle \in Handles
           /\ [id |-> Head(commands).id, generation |-> Head(commands).generation,
               attr |-> Head(commands).attr, len |-> Head(commands).len] \in Notification
  <1>1. /\ Head(commands) \in Command /\ Head(commands) = commands[1] /\ 1 \in DOMAIN commands
    BY HeadTailProperties, LenProperties, EmptySeq DEF TypeOK
  <1>2. Head(commands).id \in Calls /\ \A c \in accepted : c < Head(commands).id
    BY <1>1 DEF CallsInOrder, Notifies, Command
  <1>3. Head(commands).id \notin accepted
    BY <1>2 DEF Calls
  <1> QED BY <1>1, <1>2, <1>3 DEF Command, Notification

\* TakeNotify of a value it may queue is Accept.
LEMMA TakeNotifyAccepts ==
    ASSUME Seeing, Shown, Shown', TakeNotify, Acceptable(Head(commands))
    PROVE  Service!Next
  <1> DEFINE m == Head(commands)
             n == [id |-> m.id, generation |-> m.generation, attr |-> m.attr, len |-> m.len]
             h == m.handle
             g == connections[h]
  <1>1. /\ TypeOK /\ CallsInOrder /\ Distinct /\ Numbered
        /\ commands # << >> /\ m # Stop
        /\ pending' = [pending EXCEPT ![h] = Append(@, n)]
        /\ accepted' = accepted \cup {m.id}
        /\ UNCHANGED <<connections, NEXT_CONNECTION, sent>>
        /\ connections[h] = m.generation
    BY DEF Seeing, Naming, Base, TakeNotify, Enqueue, Acceptable
  <1>2. m.id \in Calls \ accepted /\ h \in Handles /\ n \in Notification
    BY <1>1, NextIsNew
  <1>3. pending[h] \in Seq(Notification) /\ pending'[h] = Append(pending[h], n)
        /\ \A k \in Handles : k # h => pending'[k] = pending[k]
    BY <1>1, <1>2 DEF TypeOK
  <1>4. g # 0
    BY <1>1, <1>2 DEF Notification
  <1>5. Ids(pending'[h]) = Append(Ids(pending[h]), m.id)
    <2>1. n.id = m.id
      OBVIOUS
    <2> HIDE DEF h, m, n, g
    <2>2. Ids(Append(pending[h], n)) = Append(Ids(pending[h]), n.id)
      BY <1>2, <1>3, IdsAppend, CarryIds
    <2> QED BY <1>3, <2>1, <2>2
  <1> HIDE DEF h, n
  <1>6. /\ g \in Links /\ g \in OpenNow /\ OpenNow' = OpenNow
        /\ Queues[g] = Ids(pending[h])
        /\ Queues' = [Queues EXCEPT ![g] = Ids(pending'[h])]
    BY <1>1, <1>2, <1>3, <1>4, QueueChange
  <1> HIDE DEF g, m
  <1>7. Queues' = [Queues EXCEPT ![g] = Append(Queues[g], m.id)]
    BY <1>5, <1>6
  <1>8. Opened' = Opened /\ Peers' = Peers
    BY <1>1 DEF Opened, Peers, Ids
  <1>9. Service!Accept(g, m.id)
    BY <1>1, <1>2, <1>6, <1>7, <1>8 DEF Service!Accept, Queues, Peers
  <1> QED BY <1>2, <1>6, <1>9 DEF Service!Next

\* Flush is Deliver when the peer still subscribes and BTstack takes the packet,
\* Drop otherwise.
LEMMA FlushDelivers ==
    ASSUME Seeing, Shown, Shown', Flush
    PROVE  Service!Next
  <1> DEFINE h == Head(EVENTS).handle
             m == Head(pending[h])
             t == [id |-> m.id, generation |-> m.generation, len |-> m.len, mtu |-> att_mtu[h]]
             g == connections[h]
  <1>1. /\ TypeOK /\ Distinct /\ Numbered /\ Base /\ StateForLiveOnly
        /\ pending[h] # << >> /\ pending' = [pending EXCEPT ![h] = Tail(@)]
        /\ UNCHANGED <<accepted, connections, NEXT_CONNECTION>> /\ Popped("CanSend")
    BY DEF Flush, Seeing, Naming, Base
  <1>2. h \in Handles
    BY <1>1, HeadTailProperties DEF Popped, Event, TypeOK, BridgeTypeOK
  <1>3. /\ pending[h] \in Seq(Notification) /\ pending'[h] = Tail(pending[h])
        /\ \A k \in Handles : k # h => pending'[k] = pending[k]
    BY <1>1, <1>2 DEF TypeOK
  <1>4. g # 0
    BY <1>1, <1>2, NothingQueued
  <1>5. Ids(pending[h]) # << >> /\ Head(Ids(pending[h])) = m.id /\ Ids(pending'[h]) = Tail(Ids(pending[h]))
    BY <1>1, <1>3, IdsPop, CarryIds
  <1> HIDE DEF h
  <1>6. /\ g \in Links /\ g \in OpenNow /\ OpenNow' = OpenNow
        /\ Queues[g] = Ids(pending[h])
        /\ Queues' = [Queues EXCEPT ![g] = Ids(pending'[h])]
    BY <1>1, <1>2, <1>3, <1>4, QueueChange
  <1>7. /\ Queues[g] # << >> /\ Head(Queues[g]) = m.id
        /\ Queues' = [Queues EXCEPT ![g] = Tail(Queues[g])]
    BY <1>5, <1>6
  <1>8. Opened' = Opened
    BY <1>1 DEF Opened
  <1>9. CASE UNCHANGED sent
    <2>1. Peers' = Peers
      BY <1>9 DEF Peers, Ids
    <2>2. Service!Drop(g)
      BY <1>1, <1>6, <1>7, <1>8, <2>1 DEF Service!Drop, Queues, Peers
    <2> QED BY <1>6, <2>2 DEF Service!Next
  <1>10. CASE ~UNCHANGED sent
    <2>1. link[h] = g /\ sent' = [sent EXCEPT ![g] = Append(@, t)]
      BY <1>1, <1>10, FlushLink DEF h
    <2>2. t \in Transmission /\ t.id = m.id
      <3>1. m \in Notification
        BY <1>1, <1>3, HeadTailProperties
      <3> QED BY <1>1, <1>2, <3>1 DEF Transmission, Notification, TypeOK, BridgeTypeOK
    <2>3. sent \in [Links -> Seq(Transmission)]
      BY <1>1 DEF TypeOK
    <2> HIDE DEF t, g, m
    <2>4. Ids(sent'[g]) = Append(Ids(sent[g]), m.id)
      BY <1>6, <2>1, <2>2, <2>3, IdsAppend, CarryIds
    <2>5. Peers' = [Peers EXCEPT ![g] = Append(@, m.id)]
      <3>1. Peers' = [k \in Links |-> Ids(sent'[k])]
        BY DEF Peers, Ids
      <3>2. \A k \in Links : k # g => sent'[k] = sent[k]
        BY <2>1, <2>3
      <3> QED BY <1>6, <2>4, <3>1, <3>2 DEF Peers
    <2>6. Service!Deliver(g)
      BY <1>1, <1>6, <1>7, <1>8, <2>5 DEF Service!Deliver, Queues, Peers
    <2> QED BY <1>6, <2>6 DEF Service!Next
  <1> QED BY <1>9, <1>10

\* DrainConnected is Open: the next number is new, and nothing is queued yet.
LEMMA ConnectedOpens ==
    ASSUME Seeing, Shown, Shown', DrainConnected
    PROVE  Service!Next
  <1> DEFINE g == NEXT_CONNECTION
  <1>1. /\ TypeOK /\ Distinct /\ Numbered /\ StateForLiveOnly /\ Agreement
        /\ NEXT_CONNECTION' = NEXT_CONNECTION + 1
        /\ UNCHANGED <<pending, accepted, sent>>
    BY DEF DrainConnected, Seeing, Naming, Base, workerVars, appVars
  <1>2. PICK h \in Handles : /\ connections[h] = 0 /\ nextLink = g + 1
                             /\ connections' = [connections EXCEPT ![h] = g]
    BY <1>1, NextConnection
  <1>3. connections \in [Handles -> Nat] /\ g \in Nat \ {0} /\ nextLink \in Nat /\ MaxLinks \in Nat
    BY <1>1, BridgeAssumption DEF TypeOK, BridgeTypeOK
  <1>4. g \in Links /\ g \notin Opened /\ Opened' = Opened \cup {g}
    BY <1>1, <1>2, <1>3 DEF Opened, Links, Numbered
  <1>5. \A k \in Handles : connections'[k] = IF k = h THEN g ELSE connections[k]
    BY <1>2, <1>3
  <1>6. OpenNow' = OpenNow \cup {g} /\ g \notin OpenNow
    BY <1>1, <1>2, <1>3, <1>4, <1>5, OpenLinks DEF OpenNow
  <1>7. \A k \in Links : QueueOf(k)' = QueueOf(k)
    <2> SUFFICES ASSUME NEW k \in Links PROVE QueueOf(k)' = QueueOf(k)
      OBVIOUS
    <2>1. CASE k = g
      <3>1. pending'[h] = << >>
        BY <1>1, <1>2, NothingQueued
      <3>2. QueueOf(connections[h])' = Ids(pending'[h]) /\ connections'[h] = g
        BY <1>2, <1>3, <1>5 DEF Shown
      <3>3. QueueOf(k) = << >>
        BY <1>6, <2>1 DEF Shown
      <3> QED BY <2>1, <3>1, <3>2, <3>3 DEF Ids
    <2>2. CASE k # g /\ k \in OpenNow
      <3>1. PICK j \in Handles : connections[j] = k /\ k # 0
        BY <2>2 DEF Shown
      <3>2. connections'[j] = k
        BY <1>2, <1>5, <3>1
      <3>3. QueueOf(connections[j]) = Ids(pending[j]) /\ QueueOf(connections[j])' = Ids(pending'[j])
        BY <3>1, <3>2 DEF Shown
      <3> QED BY <1>1, <3>1, <3>2, <3>3
    <2>3. CASE k # g /\ k \notin OpenNow
      BY <1>6, <2>3 DEF Shown
    <2> QED BY <2>1, <2>2, <2>3
  <1>8. Queues' = Queues /\ Peers' = Peers
    BY <1>1, <1>7 DEF Queues, Peers, Ids
  <1>9. Service!Open(g)
    BY <1>1, <1>4, <1>6, <1>8 DEF Service!Open, Queues, Peers
  <1> QED BY <1>4, <1>9 DEF Service!Next

\* A connection is closed, or all of them are.
LEMMA CloseStep ==
    ASSUME Seeing, Shown, Shown', NEW gone \in SUBSET OpenNow, gone # {},
           UNCHANGED <<NEXT_CONNECTION, accepted, sent>>,
           \A h \in Handles : \/ connections'[h] = 0 /\ (connections[h] = 0 \/ connections[h] \in gone)
                             \/ /\ connections'[h] = connections[h] /\ connections[h] \notin gone
                                /\ pending'[h] = pending[h]
    PROVE  Service!Next
  <1>1. TypeOK /\ Distinct
    BY DEF Seeing, Naming, Base
  <1>2. /\ OpenNow' = OpenNow \ gone
        /\ Queues' = [g \in Links |-> IF g \in gone THEN << >> ELSE Queues[g]]
    BY <1>1, QueueClose
  <1>3. Opened' = Opened /\ Peers' = Peers
    BY DEF Opened, Peers, Ids
  <1>4. Service!Close(gone)
    BY <1>2, <1>3 DEF Service!Close, Queues, Peers
  <1> QED BY <1>4 DEF Service!Next

\* Draining a disconnection is Close of one connection.
LEMMA DisconnectedCloses ==
    ASSUME Seeing, Shown, Shown', DrainDisconnected
    PROVE  Service!Next \/ UNCHANGED Watched
  <1> DEFINE h == Head(EVENTS).handle
  <1>1. /\ TypeOK /\ Distinct /\ StateForLiveOnly /\ EVENTS \in Seq(Event)
        /\ connections \in [Handles -> Nat] /\ pending \in [Handles -> Seq(Notification)]
        /\ UNCHANGED <<NEXT_CONNECTION, accepted, sent>>
        /\ connections' = [connections EXCEPT ![h] = 0] /\ pending' = [pending EXCEPT ![h] = << >>]
        /\ EVENTS # << >> /\ Head(EVENTS).kind = "Disconnected"
    BY DEF DrainDisconnected, Popped, Removed, Discarded, Seeing, Naming, Base, TypeOK, BridgeTypeOK
  <1>2. h \in Handles
    BY <1>1, HeadTailProperties DEF Event
  <1> HIDE DEF h
  <1>3. CASE connections[h] = 0
    <2>1. pending[h] = << >>
      BY <1>1, <1>2, <1>3, NothingQueued
    <2>2. connections' = connections /\ pending' = pending
      BY <1>1, <1>2, <1>3, <2>1
    <2> QED BY <1>1, <2>2, StutterOfService
  <1>4. CASE connections[h] # 0
    <2> DEFINE gone == {connections[h]}
    <2>1. gone \in SUBSET OpenNow /\ gone # {}
      BY <1>2, <1>4 DEF OpenNow
    <2>2. \A k \in Handles : \/ connections'[k] = 0 /\ connections[k] \in gone
                             \/ /\ connections'[k] = connections[k] /\ connections[k] \notin gone
                                /\ pending'[k] = pending[k]
      BY <1>1, <1>2, <1>4 DEF Distinct
    <2> HIDE DEF gone
    <2> QED BY <1>1, <2>1, <2>2, CloseStep
  <1> QED BY <1>3, <1>4

\* The end of the worker is Close of all.
LEMMA FinishCloses ==
    ASSUME Seeing, Shown, Shown', Finish
    PROVE  Service!Next \/ UNCHANGED Watched
  <1>1. /\ TypeOK /\ StateForLiveOnly /\ UNCHANGED <<NEXT_CONNECTION, accepted, sent>>
        /\ connections' = [h \in Handles |-> 0] /\ pending' = [h \in Handles |-> << >>]
        /\ connections \in [Handles -> Nat] /\ pending \in [Handles -> Seq(Notification)]
    BY DEF Finish, Seeing, Naming, Base, TypeOK
  <1>2. CASE OpenNow = {}
    <2>1. \A h \in Handles : connections[h] = 0 /\ pending[h] = << >>
      <3>1. \A h \in Handles : connections[h] = 0
        BY <1>2 DEF OpenNow
      <3> QED BY <1>1, <3>1, NothingQueued
    <2>2. connections' = connections /\ pending' = pending
      BY <1>1, <2>1
    <2> QED BY <1>1, <2>2, StutterOfService
  <1>3. CASE OpenNow # {}
    <2>1. \A h \in Handles : connections'[h] = 0 /\ (connections[h] = 0 \/ connections[h] \in OpenNow)
      BY <1>1 DEF OpenNow
    <2> QED BY <1>1, <1>3, <2>1, CloseStep
  <1> QED BY <1>2, <1>3

\* Every step of the runtime is one of the service, or none.
LEMMA ServiceStep ==
    ASSUME Seeing, Shown, Shown', [Next]_vars
    PROVE  [Service!Next]_(Service!serviceVars)
  <1> SUFFICES Service!Next \/ UNCHANGED Watched
    BY DEF Watched, Service!serviceVars, Queues, Peers
  <1>1. CASE TakeNotify
    <2>1. CASE Acceptable(Head(commands))
      BY <1>1, <2>1, TakeNotifyAccepts
    <2>2. CASE ~Acceptable(Head(commands))
      BY <1>1, <2>2, StutterOfService DEF TakeNotify
    <2> QED BY <2>1, <2>2
  <1>2. CASE Flush \/ DrainConnected
    BY <1>2, FlushDelivers, ConnectedOpens
  <1>3. CASE DrainDisconnected \/ Finish
    BY <1>3, DisconnectedCloses, FinishCloses
  <1>4. CASE ~(TakeNotify \/ Flush \/ DrainConnected \/ DrainDisconnected \/ Finish)
    <2>1. UNCHANGED <<connections, pending, NEXT_CONNECTION, accepted, sent>>
      BY <1>4 DEF Next, Application, Worker, Environment, Terminated, vars, workerVars, historyVars,
           Notify, CallTimeout, Shutdown, StopSends, TakeStop, CommandsDone, ReceivePacket,
           PollDone, DrainMtu, FlushNothing, DrainCommandFailed, DrainDone,
           ReceiveFails, StopPump, CccdWrite, PollCanSend, PollExchangeMtu
    <2> QED BY <2>1, StutterOfService
  <1> QED BY <1>1, <1>2, <1>3, <1>4

\* Every behaviour of the runtime, seen as queues and deliveries per connection,
\* is one of the notification service: links, grants, buffers, time-outs, the
\* order in which the three queues cross and the end of the worker do not show.
THEOREM NotificationServiceProvided == Spec => ProvidesService
  <1>1. Seeing => Shown
    BY ShownHolds DEF Seeing, Naming
  <1>2. Seeing /\ Shown /\ Shown' /\ [Next]_vars => [Service!Next]_(Service!serviceVars)
    BY ServiceStep
  <1> QED BY <1>1, <1>2, SeeingInvariant, ServiceInit, PTL DEF Spec, ProvidesService, Service!Spec
=============================================================================
