--------------------------- MODULE NusbTransport ---------------------------
(***************************************************************************)
(* The USB transport (btstack-nusb/src/lib.rs): the receive worker that    *)
(* keeps one transfer posted on the interrupt IN and one on the bulk IN    *)
(* endpoint, the bounded channel it fills, and the caller (the BTstack     *)
(* worker) that opens the device, receives, sends commands and ACL packets,*)
(* and drops the transport.  The controller and nusb are external: they    *)
(* complete posted transfers in order, or fail them once the device is     *)
(* removed.                                                                *)
(***************************************************************************)
EXTENDS Integers, Sequences, FiniteSets

CONSTANTS
    IncomingCap,   \* capacity of the channel, 256 in the code
    MaxPackets,    \* bound: packets the controller produces per endpoint
    MaxSends,      \* bound: packets the caller sends
    MaxTraffic,    \* bound: packets produced and sent, taken together
    Sizes          \* lengths of the ACL packets

ASSUME NusbAssumption ==
    /\ IncomingCap \in Nat \ {0}
    /\ {MaxPackets, MaxSends, MaxTraffic} \subseteq Nat
    /\ Sizes \subseteq Nat \ {0}

VARIABLES
    worker,      \* where the hci-usb-rx thread is
    transfer,    \* per IN endpoint: the state of its transfer
    fetched,     \* per IN endpoint: the completion this round has to handle
    produced,    \* per IN endpoint: packets the controller has delivered
    removed,     \* the device is gone
    incoming,    \* the channel
    stop,        \* Drop asked the worker to stop
    log,         \* history: what receive() returned, idle polls left out
    earlier,     \* history: events completed before the completion of an endpoint
    caller,      \* where the BTstack worker is
    out,         \* transfers submitted to ACL OUT and not reaped, by their send
    length,      \* of the ACL packet of each send, 0 while it has none
    transferred, \* sends whose packet the controller took
    broken,      \* sends whose transfer completed with an error
    outcome      \* what each send() returned, its time-out told apart

rxVars == <<worker, transfer, fetched, produced, incoming, earlier>>
sendVars == <<out, length, transferred, broken, outcome>>
vars == <<rxVars, removed, stop, log, caller, sendVars>>

Endpoints == {"event", "acl"}
Sends == 1 .. MaxSends
Packet == [kind : Endpoints, n : 1 .. MaxPackets, earlier : 0 .. MaxPackets]
Failure == [kind |-> "error", n |-> 0, earlier |-> 0]

TypeOK ==
    /\ worker \in {"top", "wait_event", "wait_acl", "event", "acl", "stopped"}
    /\ fetched \in [Endpoints -> {"none", "packet", "empty", "failed"}]
    /\ earlier \in [Endpoints -> 0 .. MaxPackets]
    /\ transfer \in [Endpoints -> {"none", "posted", "packet", "empty", "failed"}]
    /\ produced \in [Endpoints -> 0 .. MaxPackets]
    /\ removed \in BOOLEAN /\ stop \in BOOLEAN
    /\ incoming \in Seq(Packet \cup {Failure}) /\ Len(incoming) <= IncomingCap
    /\ log \in Seq(Packet \cup {Failure})
    /\ caller \in {"opening", "ready", "sending", "commanding", "dropping", "gone"}
    /\ out \in Seq(Sends) /\ length \in [Sends -> Sizes \cup {0}]
    /\ transferred \subseteq Sends /\ broken \subseteq Sends
    /\ outcome \in [Sends -> {"none", "pending", "ok", "error", "timeout"}]

Cancelled == [ep \in Endpoints |-> "none"]

Init ==
    /\ worker = "stopped"
    /\ transfer = Cancelled /\ fetched = Cancelled
    /\ produced = [ep \in Endpoints |-> 0] /\ earlier = [ep \in Endpoints |-> 0]
    /\ removed = FALSE /\ stop = FALSE
    /\ incoming = << >> /\ log = << >> /\ caller = "opening"
    /\ out = << >> /\ length = [s \in Sends |-> 0] /\ transferred = {} /\ broken = {}
    /\ outcome = [s \in Sends |-> "none"]

\* Bound: a run has many packets or many sends; two sends count for three packets.
Traffic == 2 * (produced["event"] + produced["acl"])
           + 3 * Cardinality({s \in Sends : outcome[s] # "none"})

-----------------------------------------------------------------------------
(* from_device() *)

\* The interface is claimed, its endpoints found and opened, both transfers
\* posted by the new thread.
Open ==
    /\ caller = "opening" /\ ~removed
    /\ caller' = "ready" /\ worker' = "top"
    /\ transfer' = [ep \in Endpoints |-> "posted"]
    /\ UNCHANGED <<fetched, produced, incoming, earlier, removed, stop, log, sendVars>>

\* Another owner has the interface, or an endpoint is missing.
OpenFails ==
    /\ caller = "opening"
    /\ caller' = "gone"
    /\ UNCHANGED <<rxVars, removed, stop, log, sendVars>>

-----------------------------------------------------------------------------
(* The controller *)

\* A posted IN transfer completes with the next packet, or with no data.
Complete(ep) ==
    /\ transfer[ep] = "posted" /\ ~removed
    /\ \/ /\ produced[ep] < MaxPackets /\ Traffic + 2 <= MaxTraffic
          /\ produced' = [produced EXCEPT ![ep] = @ + 1]
          /\ transfer' = [transfer EXCEPT ![ep] = "packet"]
          /\ earlier' = [earlier EXCEPT ![ep] = produced["event"]]
       \/ /\ transfer' = [transfer EXCEPT ![ep] = "empty"]
          /\ UNCHANGED <<produced, earlier>>
    /\ UNCHANGED <<worker, fetched, removed, incoming, stop, log, caller, sendVars>>

\* The device is unplugged, or a transfer breaks for another reason.
Remove ==
    /\ ~removed
    /\ removed' = TRUE
    /\ transfer' = [ep \in Endpoints |-> IF transfer[ep] = "posted" THEN "failed"
                                                                   ELSE transfer[ep]]
    /\ UNCHANGED <<worker, fetched, produced, incoming, earlier, stop, log, caller, sendVars>>

\* The control endpoint takes a command.
CompleteCommand(s) ==
    /\ ~removed /\ caller = "commanding" /\ outcome[s] = "pending"
    /\ transferred' = transferred \cup {s}
    /\ UNCHANGED <<rxVars, removed, stop, log, caller, out, length, broken, outcome>>

\* OUT transfers complete in the order they were submitted: the controller takes
\* the packet, or stalls, or is gone.
CompleteOut ==
    /\ \E k \in DOMAIN out :
         /\ out[k] \notin transferred \cup broken
         /\ \A j \in 1 .. k - 1 : out[j] \in transferred \cup broken
         /\ \/ ~removed /\ transferred' = transferred \cup {out[k]} /\ UNCHANGED broken
            \/ broken' = broken \cup {out[k]} /\ UNCHANGED transferred
    /\ UNCHANGED <<rxVars, removed, stop, log, caller, out, length, outcome>>

-----------------------------------------------------------------------------
(* The receive worker *)

\* Each round waits on both endpoints, then handles both completions.
Step(from, to) == worker = from /\ worker' = to

\* The stop flag is read once per round.
TestStop ==
    /\ IF stop THEN Step("top", "stopped") /\ transfer' = Cancelled
               ELSE Step("top", "wait_event") /\ UNCHANGED transfer
    /\ UNCHANGED <<fetched, produced, incoming, earlier, removed, stop, log, caller, sendVars>>

\* wait_next_complete: a completion, or none within two milliseconds.
Wait(ep) ==
    /\ IF ep = "event" THEN Step("wait_event", "wait_acl") ELSE Step("wait_acl", "event")
    /\ IF transfer[ep] = "posted"
         THEN fetched' = [fetched EXCEPT ![ep] = "none"] /\ UNCHANGED transfer
         ELSE /\ fetched' = [fetched EXCEPT ![ep] = transfer[ep]]
              /\ transfer' = [transfer EXCEPT ![ep] = "none"]
    /\ UNCHANGED <<produced, incoming, earlier, removed, stop, log, caller, sendVars>>

Handled(ep) ==
    /\ IF ep = "event" THEN Step("event", "acl") ELSE Step("acl", "top")
    /\ fetched' = [fetched EXCEPT ![ep] = "none"]

NothingFetched(ep) ==
    /\ fetched[ep] = "none"
    /\ Handled(ep)
    /\ UNCHANGED <<transfer, produced, incoming, earlier, removed, stop, log, caller, sendVars>>

\* Fault: ACL data goes first.
TrySendFirst(item) ==
    incoming' = IF Len(incoming) >= IncomingCap THEN incoming
                ELSE IF item.kind = "acl" THEN <<item>> \o incoming ELSE Append(incoming, item)

TrySend(item) == incoming' = IF Len(incoming) < IncomingCap THEN Append(incoming, item)
                                                           ELSE incoming

Repost(ep) == transfer' = [transfer EXCEPT ![ep] = IF removed THEN "failed" ELSE "posted"]

\* Fault: a packet that does not fit is dropped and the worker goes on.
OverflowDrops(ep) == Repost(ep) /\ Handled(ep) /\ UNCHANGED incoming

\* The worker returns, and its endpoints and its end of the channel are dropped.
Return(ep) == Step(ep, "stopped") /\ transfer' = Cancelled /\ fetched' = Cancelled

\* The channel is full: the worker ends, so the caller will see it stopped.
Overflow(ep) == Return(ep) /\ UNCHANGED incoming

\* The packet is copied and passed on, and the transfer posted again.
Fetched(ep) ==
    /\ fetched[ep] = "packet"
    /\ \/ /\ Len(incoming) < IncomingCap
          /\ TrySend([kind |-> ep, n |-> produced[ep], earlier |-> earlier[ep]])
          /\ Repost(ep) /\ Handled(ep)
       \/ Len(incoming) >= IncomingCap /\ Overflow(ep)
    /\ UNCHANGED <<produced, earlier, removed, stop, log, caller, sendVars>>

FetchedNothing(ep) ==
    /\ fetched[ep] = "empty"
    /\ Repost(ep) /\ Handled(ep)
    /\ UNCHANGED <<produced, incoming, earlier, removed, stop, log, caller, sendVars>>

\* A failed transfer ends the worker; its error is lost if the channel is full.
FetchFailed(ep) ==
    /\ fetched[ep] = "failed"
    /\ Return(ep)
    /\ TrySend(Failure)
    /\ UNCHANGED <<produced, earlier, removed, stop, log, caller, sendVars>>

-----------------------------------------------------------------------------
(* The caller *)

\* Fault: a closed channel is taken for a time-out.
NeverClosed == FALSE

Closed == incoming = << >> /\ worker = "stopped"

\* receive(): the next item, or an error once the channel is empty and closed.
\* A receive that times out returns None and changes nothing.
Receive ==
    /\ caller = "ready"
    /\ \/ /\ incoming # << >>
          /\ log' = Append(log, Head(incoming)) /\ incoming' = Tail(incoming)
       \/ /\ Closed
          /\ log = << >> \/ log[Len(log)] # Failure     \* bound: one error is enough
          /\ log' = Append(log, Failure) /\ UNCHANGED incoming
    /\ UNCHANGED <<worker, transfer, fetched, produced, earlier, removed, stop, caller, sendVars>>

NextSend(s) ==
    /\ caller = "ready" /\ Traffic + 3 <= MaxTraffic
    /\ outcome[s] = "none" /\ \A r \in Sends : r < s => outcome[r] # "none"

\* send(1, packet): one control transfer.
SubmitCommand(s) ==
    /\ NextSend(s)
    /\ outcome' = [outcome EXCEPT ![s] = "pending"]
    /\ caller' = "commanding"
    /\ UNCHANGED <<rxVars, removed, stop, log, out, length, transferred, broken>>

\* A send returns.
Returns(s, result) ==
    /\ outcome[s] = "pending"
    /\ outcome' = [outcome EXCEPT ![s] = result]
    /\ caller' = "ready"
    /\ UNCHANGED <<rxVars, removed, stop, log, length, transferred, broken>>

\* Taken, refused, or two seconds over: nusb cancels the transfer then.
CommandReturns(s) ==
    /\ caller = "commanding"
    /\ Returns(s, IF s \in transferred THEN "ok" ELSE "error")
    /\ UNCHANGED out

\* Another kind of packet.
SendUnsupported(s) ==
    /\ NextSend(s)
    /\ outcome' = [outcome EXCEPT ![s] = "error"]
    /\ UNCHANGED <<rxVars, removed, stop, log, caller, out, length, transferred, broken>>

\* send(2, packet): submit, then wait for a completion.
SubmitAcl(s, size) ==
    /\ NextSend(s)
    /\ out' = Append(out, s)
    /\ length' = [length EXCEPT ![s] = size]
    /\ outcome' = [outcome EXCEPT ![s] = "pending"]
    /\ caller' = "sending"
    /\ UNCHANGED <<rxVars, removed, stop, log, transferred, broken>>

OldestComplete == out # << >> /\ Head(out) \in transferred \cup broken

\* Fault: the length of the completion is not compared.
AnyLength(s) == Head(out) \in transferred

\* The status of the completion is success, and its length that of this packet.
Accepted(s) == Head(out) \in transferred /\ length[Head(out)] = length[s]

\* wait_next_complete returns the oldest transfer of the endpoint, whichever
\* send submitted it.
ReapAcl(s) ==
    /\ caller = "sending" /\ OldestComplete
    /\ Returns(s, IF Accepted(s) THEN "ok" ELSE "error")
    /\ out' = Tail(out)

\* Two seconds without a completion: an error; the transfer stays submitted.
SendTimeout(s) ==
    /\ caller = "sending" /\ ~OldestComplete
    /\ Returns(s, "timeout")
    /\ UNCHANGED out

\* Fault: the worker is not told to stop.
DropOnlyJoins == UNCHANGED stop

RaiseStop == stop' = TRUE

DropTransport ==
    /\ caller = "ready"
    /\ RaiseStop /\ caller' = "dropping"
    /\ UNCHANGED <<rxVars, removed, log, sendVars>>

Join ==
    /\ caller = "dropping" /\ worker = "stopped"
    /\ caller' = "gone"
    /\ UNCHANGED <<rxVars, removed, stop, log, sendVars>>

-----------------------------------------------------------------------------
RxWorker ==
    \/ TestStop
    \/ \E ep \in Endpoints :
          \/ Wait(ep) \/ NothingFetched(ep) \/ Fetched(ep) \/ FetchedNothing(ep) \/ FetchFailed(ep)

Controller ==
    \/ Remove \/ CompleteOut
    \/ \E ep \in Endpoints : Complete(ep)
    \/ \E s \in Sends : CompleteCommand(s)

Caller ==
    \/ Open \/ OpenFails \/ Receive \/ DropTransport \/ Join
    \/ \E s \in Sends, size \in Sizes : SubmitAcl(s, size)
    \/ \E s \in Sends : ReapAcl(s) \/ SendTimeout(s)
    \/ \E s \in Sends : SubmitCommand(s) \/ CommandReturns(s) \/ SendUnsupported(s)

Terminated == caller = "gone" /\ UNCHANGED vars

Next == RxWorker \/ Controller \/ Caller \/ Terminated

Spec == Init /\ [][Next]_vars

\* The thread runs; a caller that keeps its transport keeps receiving, its
\* sends end, and a drop that began ends once the worker is gone.
Fairness ==
    /\ WF_vars(RxWorker)
    /\ SF_vars(Receive)
    /\ WF_vars(Join)
    /\ \A s \in Sends : WF_vars(ReapAcl(s) \/ SendTimeout(s) \/ CommandReturns(s))

FairSpec == Spec /\ Fairness

-----------------------------------------------------------------------------
(* Properties *)

\* How many of the first n items the caller received are of this kind.
Received(n, kind) == Cardinality({j \in 1 .. n : log[j].kind = kind})

\* What the caller receives from an endpoint is a gapless prefix of what the
\* controller produced there: a packet is never lost in the middle, repeated or
\* overtaken on its endpoint, and after an error nothing more arrives.
GaplessUntilError ==
    \A i \in DOMAIN log :
        /\ \A j \in 1 .. i - 1 : log[j] # Failure
        /\ log[i] # Failure =>
             log[i].n = 1 + Received(i - 1, log[i].kind)

\* send() may report the success of a packet that is not taken, but only late: a
\* send timed out before, and what it reports is the completion of an earlier
\* packet that was taken and has the same length.  Refused, stalled and broken
\* transfers, commands and unsupported packets do not lead there.
FalseSuccessIsLate ==
    \A s \in Sends : outcome[s] = "ok" /\ s \notin transferred =>
        /\ \E r \in Sends : r < s /\ outcome[r] = "timeout"
        /\ \E q \in Sends : q < s /\ q \in transferred /\ length[q] = length[s]

\* Events and ACL data come from two endpoints that no order holds together: a
\* packet of a new link may reach the caller before the event that opened it.
\* It overtakes one event at most, the one whose transfer is being handled.
OvertakesOneEvent ==
    \A i \in DOMAIN log : Received(i - 1, "event") >= log[i].earlier - 1

\* A removed device or a full channel is not silent: a caller that goes on
\* receiving gets an error.
StopReported ==
    worker = "stopped" /\ caller \in {"ready", "sending", "commanding"}
        ~> (\E i \in DOMAIN log : log[i] = Failure) \/ caller \in {"dropping", "gone"}

\* Dropping the transport ends the worker and returns.
DropReturns == caller = "dropping" ~> caller = "gone"

\* send() is synchronous: success means that this very packet was taken.
SendSynchronous == \A s \in Sends : outcome[s] = "ok" => s \in transferred
=============================================================================
