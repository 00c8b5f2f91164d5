------------------------------- MODULE Bridge -------------------------------
(***************************************************************************)
(* The C bridge (btstack-sys/c/bridge.c) between the Rust worker and the   *)
(* BTstack library, with as much of BTstack and of the controller as the   *)
(* bridge and the runtime can observe: which links exist, the ATT MTU of a *)
(* link, the pool of ACL buffers all links share, and the queue EVENTS the *)
(* bridge's callbacks fill.  The actions are fragments: each constrains the*)
(* bridge variables it changes, and GattRuntime.tla composes them into the *)
(* steps of the worker thread, the only thread that ever runs this code.   *)
(*                                                                         *)
(* BTstack itself is not part of the repository (an empty submodule), so   *)
(* its behaviour is taken from how bridge.c and runtime.rs use it.         *)
(***************************************************************************)
EXTENDS Integers, Sequences, FiniteSets, Functions

CONSTANTS
    Handles,      \* HCI connection handles, reused by later links
    NoHandle,     \* marks a send_requests slot that is not busy
    NSlots,       \* entries of send_requests, 16 in the code
    AclBuffers,   \* ACL packets the controller accepts before completing one
    DefaultMtu,   \* ATT MTU of a fresh link, 23 in the code
    Mtus,         \* values an MTU exchange may agree on
    MaxLinks      \* bound: links established in one behaviour

ASSUME BridgeAssumption ==
    /\ NoHandle \notin Handles
    /\ IsFiniteSet(Handles)
    /\ NSlots \in Nat \ {0}
    /\ AclBuffers \in Nat \ {0}
    /\ DefaultMtu \in Nat /\ DefaultMtu >= 3   \* the header of a notification
    /\ Mtus \subseteq Nat
    /\ \A m \in Mtus : DefaultMtu <= m
    /\ MaxLinks \in Nat

VARIABLES
    link,           \* BTstack: number of the link a handle names, 0 when none
    nextLink,       \* number of the next link
    att_mtu,        \* BTstack: the ATT MTU of each link
    inflight,       \* ACL packets the controller has not completed, per link
    send_requests,  \* per slot: the handle whose registration is busy
    EVENTS          \* callbacks not yet seen by run()

bridgeVars == <<link, nextLink, att_mtu, inflight, send_requests, EVENTS>>

Slots == 0 .. NSlots - 1

EventKind == {"Connected", "Disconnected", "MtuExchanged", "CanSend", "CommandFailed"}
LinkEvents == {"Connected", "Disconnected"}

\* The link is a history field: the code passes kind, handle and value only.
Event == [kind : EventKind \ {"CommandFailed"}, handle : Handles, value : Nat, link : Nat]
         \cup [kind : {"CommandFailed"}, handle : {NoHandle}, value : Nat, link : {0}]

event(kind, h, v) == [kind |-> kind, handle |-> h, value |-> v, link |-> link[h]]

Push(kind, h, v) == EVENTS' = Append(EVENTS, event(kind, h, v))

BridgeTypeOK ==
    /\ link \in [Handles -> Nat]
    /\ nextLink \in Nat \ {0}
    /\ att_mtu \in [Handles -> Nat]
    /\ inflight \in [Handles -> Nat]
    /\ send_requests \in [Slots -> Handles \cup {NoHandle}]
    /\ EVENTS \in Seq(Event)

BridgeInit ==
    /\ link = [h \in Handles |-> 0]
    /\ nextLink = 1
    /\ att_mtu = [h \in Handles |-> DefaultMtu]
    /\ inflight = [h \in Handles |-> 0]
    /\ send_requests = [i \in Slots |-> NoHandle]
    /\ EVENTS = << >>

-----------------------------------------------------------------------------
(* Links and the controller's buffers *)

HasRoom(used) == SumFunction(used) < AclBuffers

HasAclBuffer == HasRoom(inflight)

\* A central connects: ATT_EVENT_CONNECTED carries the MTU of the new link.
LeConnected(h) ==
    /\ link[h] = 0 /\ nextLink <= MaxLinks
    /\ link' = [link EXCEPT ![h] = nextLink]
    /\ nextLink' = nextLink + 1
    /\ att_mtu' = [att_mtu EXCEPT ![h] = DefaultMtu]
    /\ EVENTS' = Append(EVENTS, [kind |-> "Connected", handle |-> h,
                                 value |-> DefaultMtu, link |-> nextLink])
    /\ UNCHANGED <<inflight, send_requests>>

\* HCI_EVENT_DISCONNECTION_COMPLETE: the link's slots are freed, its packets
\* return to the pool, and BTstack forgets the connection.
LeDisconnected(h) ==
    /\ link[h] # 0
    /\ send_requests' = [i \in Slots |-> IF send_requests[i] = h THEN NoHandle
                                                                 ELSE send_requests[i]]
    /\ Push("Disconnected", h, 0)
    /\ link' = [link EXCEPT ![h] = 0]
    /\ inflight' = [inflight EXCEPT ![h] = 0]
    /\ UNCHANGED <<nextLink, att_mtu>>

\* The controller reports some of a link's packets as completed.
NumCompleted(h) ==
    /\ \E n \in 1 .. inflight[h] : inflight' = [inflight EXCEPT ![h] = @ - n]
    /\ UNCHANGED <<link, nextLink, att_mtu, send_requests, EVENTS>>

\* HCI_EVENT_COMMAND_COMPLETE with a nonzero status.
CommandFailed ==
    /\ EVENTS' = Append(EVENTS, [kind |-> "CommandFailed", handle |-> NoHandle,
                                 value |-> 1, link |-> 0])
    /\ UNCHANGED <<link, nextLink, att_mtu, inflight, send_requests>>

\* An ATT request is answered when there is a buffer for the response.
AttRespond(h) ==
    /\ link[h] # 0 /\ HasAclBuffer
    /\ inflight' = [inflight EXCEPT ![h] = @ + 1]

\* A link exchanges its MTU once, so the MTU never shrinks.
ExchangeMtu(h) ==
    \E m \in Mtus :
        /\ att_mtu[h] = DefaultMtu /\ m > DefaultMtu
        /\ AttRespond(h)
        /\ att_mtu' = [att_mtu EXCEPT ![h] = m]
        /\ Push("MtuExchanged", h, m)
        /\ UNCHANGED <<link, nextLink, send_requests>>

-----------------------------------------------------------------------------
(* The send_requests slots *)

BusyFor(h) == {i \in Slots : send_requests[i] = h}

FirstFree(i) == send_requests[i] = NoHandle /\ \A j \in Slots : j < i => send_requests[j] # NoHandle

\* can_send: BTstack has room for a notification of the slot's link.
CanSend(i) ==
    /\ send_requests[i] # NoHandle /\ HasAclBuffer
    /\ send_requests' = [send_requests EXCEPT ![i] = NoHandle]
    /\ Push("CanSend", send_requests[i], 0)
    /\ UNCHANGED <<link, nextLink, att_mtu, inflight>>

\* rs_request_send: nothing when the link already has a slot, when all slots
\* are busy, or when BTstack refuses the registration of a dead link.
\* Otherwise the first free slot is registered, and BTstack may call can_send
\* before the registration returns.  The caller has already popped EVENTS down
\* to queue and left used packets with the controller.
RequestSend(h, queue, used) ==
    \/ /\ BusyFor(h) # {} \/ BusyFor(NoHandle) = {} \/ link[h] = 0
       /\ EVENTS' = queue
       /\ UNCHANGED send_requests
    \/ \E i \in Slots :
         /\ BusyFor(h) = {} /\ link[h] # 0 /\ FirstFree(i)
         /\ \/ /\ send_requests' = [send_requests EXCEPT ![i] = h]
               /\ EVENTS' = queue
            \/ /\ HasRoom(used)
               /\ EVENTS' = Append(queue, event("CanSend", h, 0))
               /\ UNCHANGED send_requests

\* rs_notify: BTstack has no such connection, no buffer, or a transport that
\* fails; only "sent" hands the packet to the controller.
NotifyStatus(h) ==
    IF link[h] = 0 THEN {"no connection"}
    ELSE IF HasRoom(inflight) THEN {"sent", "transport failed"} ELSE {"no buffer"}
=============================================================================
