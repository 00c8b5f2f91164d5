--------------------------- MODULE AndroidSession ---------------------------
(***************************************************************************)
(* The Kotlin side of the Android example: lifecycle owners that start and *)
(* stop (MainActivity, GattLifecycle), the ViewModel that follows the      *)
(* switch, the dongle and its permission, and runGattServer(), which owns  *)
(* the native server between construction and cleanup.  The native server  *)
(* is taken at its contract (NativeServer): run() and stop() return only   *)
(* when its worker is gone.                                                *)
(***************************************************************************)
EXTENDS Integers, Sequences, FiniteSets

CONSTANTS
    Owners,       \* lifecycle owners (activities) that share the ViewModel
    Nobody,       \* holds gattSession when no owner does
    MaxDevices    \* bound: how many times the dongle is plugged in

ASSUME SessionAssumption == Nobody \notin Owners /\ MaxDevices \in Nat

VARIABLES
    started,      \* owners whose Lifecycle is STARTED
    phase,        \* where the coroutine of each owner is
    cancelled,    \* its job was cancelled
    fresh,        \* a change that combine() has not emitted to it yet
    latest,       \* the emission collectLatest holds for it
    gattSession,  \* the process-wide mutex
    connection,   \* the UsbDeviceConnection of its session is open
    native,       \* runGattServer() holds a NativeServer
    server,       \* that NativeServer's worker and descriptor exist
    enabled,      \* the switch
    device,       \* which plugging-in of the dongle is there, 0 for none
    plugged,      \* how often it was plugged in
    permitted,    \* the application may use that device
    permissionDevice,  \* the device a permission was asked for, 0 for none
    dialogs,      \* permission dialogs on the screen, for each device
    broadcasts    \* what the receiver has not got yet

jobVars == <<started, cancelled, gattSession>>
flowVars == <<fresh, latest, enabled>>
nativeVars == <<connection, native, server>>
usbVars == <<device, plugged, permitted>>
askVars == <<permissionDevice, dialogs, broadcasts>>
vars == <<phase, jobVars, flowVars, nativeVars, usbVars, askVars>>

Devices == 1 .. MaxDevices

TypeOK ==
    /\ started \subseteq Owners /\ cancelled \subseteq Owners /\ fresh \subseteq Owners
    /\ phase \in [Owners -> {"idle", "queued", "collecting", "constructing", "constructed",
                             "running", "cleanup", "closing"}]
    /\ latest \in [Owners -> {"none", "on", "off"}]
    /\ gattSession \in Owners \cup {Nobody}
    /\ connection \subseteq Owners /\ native \subseteq Owners /\ server \subseteq Owners
    /\ enabled \in BOOLEAN /\ permitted \in BOOLEAN
    /\ device \in 0 .. MaxDevices /\ plugged \in 0 .. MaxDevices
    /\ permissionDevice \in 0 .. MaxDevices
    /\ dialogs \in [Devices -> Nat]
    /\ broadcasts \in Seq({"permission", "attached", "detached"})

Init ==
    /\ started = {} /\ cancelled = {} /\ fresh = {}
    /\ phase = [o \in Owners |-> "idle"]
    /\ latest = [o \in Owners |-> "none"]
    /\ gattSession = Nobody
    /\ connection = {} /\ native = {} /\ server = {}
    /\ enabled = TRUE
    /\ device = 0 /\ plugged = 0 /\ permitted = FALSE
    /\ permissionDevice = 0
    /\ dialogs = [d \in Devices |-> 0]
    /\ broadcasts = <<>>

-----------------------------------------------------------------------------
(* repeatGattWhileStarted *)

Move(o, from, to) == phase[o] = from /\ phase' = [phase EXCEPT ![o] = to]

Up(o) ==
    /\ o \notin started
    /\ started' = started \cup {o}
    /\ UNCHANGED <<phase, cancelled, gattSession, flowVars, nativeVars, usbVars, askVars>>

\* repeatOnLifecycle cancels the job and does not launch the next one before
\* this one is complete.
Down(o) ==
    /\ o \in started
    /\ started' = started \ {o}
    /\ cancelled' = IF phase[o] = "idle" THEN cancelled ELSE cancelled \cup {o}
    /\ UNCHANGED <<phase, gattSession, flowVars, nativeVars, usbVars, askVars>>

Launch(o) ==
    /\ o \in started
    /\ Move(o, "idle", "queued")
    /\ UNCHANGED <<jobVars, flowVars, nativeVars, usbVars, askVars>>

\* Fault: each owner has a lock of its own.
OwnLock(o) == o \in Owners

SessionFree(o) == gattSession = Nobody

\* withLock, then combine() and its first emission.
AcquireSession(o) ==
    /\ o \notin cancelled /\ SessionFree(o)
    /\ Move(o, "queued", "collecting")
    /\ gattSession' = o
    /\ fresh' = fresh \cup {o}
    /\ UNCHANGED <<started, cancelled, latest, enabled, nativeVars, usbVars, askVars>>

\* Fault: a cancelled holder does not unlock.
KeptLocked == UNCHANGED gattSession

Unlock == gattSession' = Nobody

EndJob(o) ==
    /\ o \in cancelled
    /\ \/ Move(o, "queued", "idle") /\ UNCHANGED gattSession
       \/ Move(o, "collecting", "idle") /\ Unlock
    /\ cancelled' = cancelled \ {o}
    /\ fresh' = fresh \ {o}
    /\ latest' = [latest EXCEPT ![o] = "none"]
    /\ UNCHANGED <<started, enabled, nativeVars, usbVars, askVars>>

-----------------------------------------------------------------------------
(* runWhileStarted: combine(enabled, usbChanges).collectLatest *)

InSession(o) == phase[o] \in {"constructing", "constructed", "running", "cleanup", "closing"}

\* collectLatest takes the emission and cancels the block of the one before.
Emit(o) ==
    /\ o \in fresh /\ latest[o] = "none"
    /\ phase[o] = "collecting" \/ InSession(o)
    /\ fresh' = fresh \ {o}
    /\ latest' = [latest EXCEPT ![o] = IF enabled THEN "on" ELSE "off"]
    /\ UNCHANGED <<phase, enabled, jobVars, nativeVars, usbVars, askVars>>

SessionCancelled(o) == o \in cancelled \/ latest[o] # "none"

NoDevice == device = 0 /\ UNCHANGED <<nativeVars, askVars>>

\* One request at a time.
AskPermission ==
    /\ device # 0 /\ ~permitted
    /\ IF permissionDevice = 0
         THEN permissionDevice' = device /\ dialogs' = [dialogs EXCEPT ![device] = @ + 1]
         ELSE UNCHANGED <<permissionDevice, dialogs>>
    /\ UNCHANGED <<nativeVars, broadcasts>>

OpenDevice(o) ==
    /\ device # 0 /\ permitted
    /\ permissionDevice' = 0
    /\ connection' = connection \cup {o}
    /\ UNCHANGED <<native, server, dialogs, broadcasts>>

OpenFails ==
    /\ device # 0 /\ permitted
    /\ permissionDevice' = 0
    /\ UNCHANGED <<nativeVars, dialogs, broadcasts>>

\* The block for one emission, up to its first suspension.
Collect(o) ==
    /\ o \notin cancelled
    /\ phase[o] = "collecting" /\ latest[o] # "none"
    /\ latest' = [latest EXCEPT ![o] = "none"]
    /\ IF latest[o] = "on"
         THEN \/ (NoDevice \/ AskPermission \/ OpenFails) /\ UNCHANGED phase
              \/ OpenDevice(o) /\ Move(o, "collecting", "constructing")
         ELSE UNCHANGED <<phase, nativeVars, askVars>>
    /\ UNCHANGED <<fresh, enabled, jobVars, usbVars>>

-----------------------------------------------------------------------------
(* runGattServer *)

\* Fault: the result of withContext is assigned, which a cancelled caller
\* never gets.
AssignsResult(o) == native' = IF SessionCancelled(o) THEN native ELSE native \cup {o}

\* Assigned inside NonCancellable.
Assign(o) == native' = native \cup {o}

\* On Dispatchers.IO, not cancellable; the constructor may throw.
Construct(o) ==
    /\ \/ /\ Move(o, "constructing", "constructed")
          /\ Assign(o)
          /\ server' = server \cup {o}
       \/ /\ Move(o, "constructing", "cleanup")
          /\ UNCHANGED <<native, server>>
    /\ UNCHANGED <<connection, jobVars, flowVars, usbVars, askVars>>

\* withContext returns to a coroutine that may be cancelled by now.
EnterRun(o) ==
    /\ Move(o, "constructed", IF SessionCancelled(o) THEN "cleanup" ELSE "running")
    /\ UNCHANGED <<jobVars, flowVars, nativeVars, usbVars, askVars>>

\* The worker ends on its own: it cannot start, or the dongle is gone.
ServerEnds(o) ==
    /\ o \in server
    /\ server' = server \ {o}
    /\ UNCHANGED <<phase, connection, native, jobVars, flowVars, usbVars, askVars>>

\* Fault: run() blocks until the worker ends.
RunBlocks(o) == o \notin server

RunReturns(o) == SessionCancelled(o) \/ o \notin server

\* run() throws, or is cancelled and its guard stops the worker.
LeaveRun(o) ==
    /\ Move(o, "running", "cleanup")
    /\ RunReturns(o)
    /\ server' = server \ {o}
    /\ UNCHANGED <<connection, native, jobVars, flowVars, usbVars, askVars>>

\* stop() and destroy(), in a NonCancellable finally.
StopNative(o) ==
    /\ Move(o, "cleanup", "closing")
    /\ server' = IF o \in native THEN server \ {o} ELSE server
    /\ native' = native \ {o}
    /\ UNCHANGED <<connection, jobVars, flowVars, usbVars, askVars>>

\* The session's finally; an error that is no cancellation ends in the catch.
Close(o) ==
    /\ Move(o, "closing", "collecting")
    /\ connection' = connection \ {o}
    /\ permissionDevice' = IF SessionCancelled(o) THEN permissionDevice ELSE 0
    /\ UNCHANGED <<native, server, dialogs, broadcasts, jobVars, flowVars, usbVars>>

-----------------------------------------------------------------------------
(* The buttons, the dongle, the permission dialog, the receiver *)

\* usbChanges or the switch differ: combine() has something to emit.
Changed == fresh' = {o \in Owners : phase[o] = "collecting" \/ InSession(o)}

Switch(on) ==
    /\ started # {}
    /\ enabled' = on
    /\ Changed
    /\ UNCHANGED <<phase, latest, jobVars, nativeVars, usbVars, askVars>>

\* The button is off while a session is active or a permission pending.
PressStart == connection = {} /\ permissionDevice = 0 /\ Switch(TRUE)

PressStop == enabled /\ Switch(FALSE)

Broadcast(what) == broadcasts' = Append(broadcasts, what)

Attach ==
    /\ device = 0 /\ plugged < MaxDevices
    /\ plugged' = plugged + 1 /\ device' = plugged + 1 /\ permitted' = FALSE
    /\ Broadcast("attached")
    /\ UNCHANGED <<phase, permissionDevice, dialogs, jobVars, flowVars, nativeVars>>

Detach ==
    /\ device # 0
    /\ device' = 0 /\ permitted' = FALSE
    /\ Broadcast("detached")
    /\ UNCHANGED <<phase, plugged, permissionDevice, dialogs, jobVars, flowVars, nativeVars>>

OnScreen(d) == dialogs[d] > 0

\* The user answers, or the dialog of a removed device is dismissed.
Answer(d, granted) ==
    /\ OnScreen(d) /\ (granted => d = device)
    /\ dialogs' = [dialogs EXCEPT ![d] = @ - 1]
    /\ permitted' = (permitted \/ granted)
    /\ Broadcast("permission")
    /\ UNCHANGED <<phase, device, plugged, permissionDevice, jobVars, flowVars, nativeVars>>

\* Fault: only a grant settles the request.
ClearedByGrant == IF permitted THEN 0 ELSE permissionDevice

Settled == 0

OnPermission ==
    /\ permissionDevice' = Settled
    /\ IF permissionDevice = 0
         THEN UNCHANGED <<fresh, enabled>>
         ELSE /\ enabled' = (enabled /\ device = permissionDevice /\ permitted)
              /\ Changed

OnUsbChange(what) ==
    /\ permissionDevice' = IF what = "detached" THEN 0 ELSE permissionDevice
    /\ UNCHANGED enabled
    /\ Changed

OnReceive ==
    /\ broadcasts # <<>>
    /\ broadcasts' = Tail(broadcasts)
    /\ IF Head(broadcasts) = "permission" THEN OnPermission ELSE OnUsbChange(Head(broadcasts))
    /\ UNCHANGED <<phase, latest, dialogs, jobVars, nativeVars, usbVars>>

-----------------------------------------------------------------------------
Coroutine(o) ==
    \/ Launch(o) \/ AcquireSession(o) \/ EndJob(o) \/ Emit(o) \/ Collect(o)
    \/ Construct(o) \/ EnterRun(o) \/ LeaveRun(o) \/ StopNative(o) \/ Close(o)

Next ==
    \/ \E o \in Owners : Coroutine(o) \/ Up(o) \/ Down(o) \/ ServerEnds(o)
    \/ PressStart \/ PressStop \/ Attach \/ Detach \/ OnReceive
    \/ \E d \in Devices, granted \in BOOLEAN : Answer(d, granted)

Spec == Init /\ [][Next]_vars

\* The dispatchers run what can run, and run() and stop() return once the
\* session is cancelled (CallersReturn in NativeSession).  Users, dongles and
\* failures owe nothing.
Fairness == \A o \in Owners : WF_vars(Coroutine(o))

FairSpec == Spec /\ Fairness

-----------------------------------------------------------------------------
(* Properties *)

\* BTstack is one per process: owners that overlap, as two activities do when
\* one follows the other, never have two servers or two open connections.
OneSession == Cardinality(server \cup connection) <= 1

\* The connection stays open as long as the native worker uses its descriptor,
\* wherever the session is cancelled and however it fails.
ConnectionOutlivesServer == server \subseteq connection

\* A pending permission, which greys out Start, still has an answer to come,
\* whatever was unplugged or answered in between.
NoOrphanRequest ==
    permissionDevice # 0 =>
        \/ \E d \in Devices : dialogs[d] > 0
        \/ \E i \in DOMAIN broadcasts : broadcasts[i] # "attached"

\* The switch releases the dongle even when no lifecycle changes.
StopReleases == ~enabled ~> enabled \/ server \cup connection = {}

\* The next owner gets the session once the others are stopped.
OwnerGetsSession ==
    \A o \in Owners : started = {o} ~> started # {o} \/ gattSession = o
=============================================================================
