# A TLA+ model of btstack-gatt-rs

These modules specify the repository from the USB packets up to the two example
applications: the thread that owns BTstack, the queues between it and the application, the
ATT callbacks it runs, the declarations it is started with, the transport below it, and the
sessions the examples build on top. TLC checks small instances of every module; TLAPS proves
37 theorems for every instance.

## 1. The system and its parts

| Part | Source | State | Operations | Interacts by |
|---|---|---|---|---|
| Runtime worker | `btstack-core/src/runtime.rs` 226-451 | `State`: connections, subscriptions, reads, pending; `EVENTS`, `FAILURE` | `run`, `flush_notification`, `stop_controller` | commands in, `ServerEvent`s out, calls into the bridge |
| Runtime handle | `runtime.rs` 54-224 | `commands`, `events`, `worker`, `ACTIVE` | `start`, `notify`, `recv_timeout`, `shutdown`, drop | bounded command channel (128), answer channel per call |
| C bridge | `btstack-sys/c/bridge.c` | `send_requests[16]`, `advertising_requested` | `rs_*`, `event_handler`, `can_send` | callbacks that push to `EVENTS` |
| ATT callbacks | `runtime.rs` 480-621 | `reads`, `subscriptions`, the `RefCell` borrow of `State` | `read`, `write` | called by BTstack, call the application's handlers |
| USB transport | `btstack-nusb/src/lib.rs` | IN transfers, channel (256), stop flag, ACL OUT queue | receive worker, `send`, `receive`, drop | bounded channel from the `hci-usb-rx` thread |
| HCI framing | `runtime.rs` 392-404, `btstack-nusb` | bytes of a transfer | `validate_packet` | an error ends `run` |
| Declarations | `btstack-core/src/gatt.rs`, `advertising.rs`, `btstack-gatt/src/lib.rs` | builders | builders, `validate`, `to_bytes`, registration, lookups | before the start |
| Example loop | `examples/gatt-peripheral/src/main.rs`, `native/src/android.rs` | subscribers, stop flag | `serve`, the loop of `main` | `GattServer` |
| Android native session | `native/src/lib.rs` | stop flag, `JoinHandle` in a mutex, oneshot | `new`, `run`, `stop`, drop | UniFFI |
| Android application | the Kotlin files | coroutines, session mutex, switch, permission | start, stop, collect, receive | UniFFI, broadcasts |
| BTstack, nusb, Android | not in the repository | links, MTU, buffers; transfers; dialogs | | external |

### What is hard, and what makes each part correct

* **Worker.** Five queues cross: commands, `EVENTS`, pending notifications, the
  controller's buffers and the events to the application. Handles are reused, so each
  queue can hold something about a link that is gone. Correct means: nothing of one
  connection reaches another; tables follow the links; a queued value always has a
  grant on its way; answers and events are true and in order; `shutdown()` ends.
* **Lifecycle.** BTstack is process-global. Correct means one owner at a time, released
  last; `start()` and `shutdown()` return, leave nothing behind, and do not claim more
  than happened; a runtime dropped in its own callback still ends.
* **ATT callbacks.** A response takes two calls with the application changing values
  in between. Correct means one fresh snapshot per response, and CCCDs that say the
  same to the peer and to the application.
* **USB transport and framing.** A bounded channel, a device that may go, transfers that time
  out, transfers that hold no packet or two. Correct means no silent gap, an error when the
  worker stops, a drop that returns, and only whole packets for BTstack.
* **Declarations.** Builders called in any order, 31 bytes of advertising, handles and UUIDs
  that must name the same attribute.
* **Example loop and native session.** Events are read one by one while peers move on and
  `notify()` blocks; several threads stop one worker. Correct means a table of subscribers that
  catches up, a `stop()` that is a barrier, a `run()` that returns and tells the truth.
* **Android application.** Coroutines cancelled anywhere, two activities, a dongle that comes
  and goes with its permission. Correct means one session, a descriptor open as long as it is
  used, and a Start button that is never disabled for good.

`PROJECT.json` lists every hazard at its line with the properties that cover it.

## 2. Modules

| Module | Models | Composed with |
|---|---|---|
| `Bridge` | `bridge.c`, and of BTstack and the controller what the bridge sees | action fragments for `GattRuntime` |
| `GattRuntime` | `run`, `notify`, `shutdown`, `stop_controller` | extends `Bridge`; the core |
| `NotificationService` | the abstract promise of `notify()` | `GattRuntime!ProvidesService` |
| `EventStream` | the abstract promise of `recv_timeout()` | `GattRuntime!ReportsEvents` implements it, `EventLoop` reads it |
| `Lifecycle` | `start`, `ACTIVE`, `shutdown`, drop, cleanup | |
| `AttServer` | `read`, `write`, handlers, link events | |
| `NusbTransport` | opening, receive worker, channel, `receive`, `send`, drop | |
| `HciFraming` | USB chunks, transfers, `validate_packet` | |
| `Declarations` | builders, `validate`, `to_bytes`, registration, lookups | |
| `EventLoop` | the loop of both examples | over any `EventStream` |
| `NativeServer` | the UniFFI object, its thread and its callers | `NativeSession!ServesSession` implements it |
| `NativeSession` | the object with the loop as its worker | `NativeServer` and `EventLoop` |
| `AndroidSession` | the Kotlin side | takes the native server at its contract |
| `GattRuntimeProofs`, `LifecycleProofs`, `AttServerProofs`, `NusbTransportProofs`, `HciFramingProofs`, `DeclarationsProofs`, `NativeSessionProofs`, `AndroidSessionProofs` | | theorems, section 4 |
| `MCGattRuntime`, `MCAttServer`, `MCDeclarations`, `MCHciFraming` | | constants and symmetry for TLC |

So the layers meet at abstract specifications: what `EventLoop` assumes of its stream is
what `GattRuntime` is shown to send, and what `AndroidSession` assumes of a native server,
that `run()` and `stop()` return and only when the worker is gone, is what `NativeSession` shows.

Definitions named as faults (`\* Fault: ...`) are not part of any specification. Each is
a plausible mistake in the definition that follows it; substituting it breaks the
property listed in `PROJECT.json`, which shows that the property depends on that code.

### GattRuntime and Bridge

`pc` walks through one iteration of `run()`: *commands* (at most `Batch` `try_recv`s),
*receive* (one packet), *poll* (`rs_poll`, with everything BTstack does in it or while the
packet is received), *drain* (`EVENTS` until empty), and after `run()` *stopping* and
*done*. One action is one turn of one of the inner loops: `TakeNotify` is the whole
`Command::Notify` arm with its `rs_request_send` and its answer; `Flush` is the whole of
`flush_notification` with `rs_notify`, `NotificationFailed` and the next request.
The application's steps interleave with all of them. A link is numbered by BTstack's
side (`link`), a connection by the code's generation (`connections`); the first is a
history field, and `TablesAgree` relates the two.

Abstractions. A value is its call number and its length. `State::pending` is one queue in the
code and one queue per handle here: `flush_notification` takes the first of a handle and
the disconnection removes all of a handle, so only the total matters across handles, and
`Backlog` is that total. A packet that changes nothing modelled, and no packet, are one
case of `ReceivePacket`. An ATT request needs a buffer for its answer, so it is part of
the contest for buffers. `Runtime` is not `Sync`: `notify()` calls do not overlap, and
several commands are in the channel only because earlier calls timed out. A `shutdown()` that finds
the channel full is `"blocked"` until `StopSends` puts its Stop in. `notify()` refuses a value of more
than 512 bytes before it touches anything shared; that check is left out, and lengths are small.
An MTU exchange happens at most once per link and only raises the MTU: `bridge.c` passes on whatever
BTstack says, so this is an assumption on BTstack, and `NoTruncation` rests on it. While
`stop_controller()` pumps, peers may still write CCCDs, which the code attributes to the
connections it still knows.

### Lifecycle

The worker's phases are *setup, startup, serving, stopping, deinit, cleanup, cleaned, ended*,
in the order of lines 101-151; `ActiveGuard` is the first local and drops last.
`RunFails` stands for every error of `run()` (in `GattRuntime` they are told apart).
`CallbackShutdown` and `CallbackDrop` are the calls from a handler on the worker itself,
where `shutdown()` cannot join and its `try_send` may fail.

### AttServer

BTstack answers a read with a probe (`buffer` null) and a copy; both are the same function,
so `request.null` tells which call it is and `NeedsSnapshot` decides whether the value is
taken anew. A handler runs between `CallOnRead` and `OnReadReturns` with `State` mutably
borrowed; meanwhile the application's other threads may change the value. A handler may fail,
panic, return too much, or call `notify()`.

### NusbTransport and HciFraming

The two IN endpoints complete transfers in order; the worker waits on both in every round, copies
a packet into the channel and posts the buffer again. The device may be removed at any time. The
caller opens the device, alternates between `receive()` and `send()` (commands, ACL packets, and
kinds the transport refuses) and finally drops the transport. A received packet is its number
here, a sent one its send and its length, which is all `send()` compares. An ACL OUT transfer may be
taken, stall (an error with the device present), break on removal, or stay submitted past the
time-out; its completion is then the next one `wait_next_complete` returns, whoever waits.
`HciFraming` looks at the same endpoint byte by byte: a transfer ends with a short chunk or with
a full buffer, so one that fills its last chunk goes on unless the controller closes it.

### Declarations

One behaviour is a program that calls the builder up to `MaxCalls` times and then `start()`:
either `validate()` refuses, or the attributes are registered one after another, as the worker
does, and `State::attributes` is filled with the handles BTstack returns. The payload is a sequence
of bytes, where a byte of a name or UUID is the pair of its owner and its place.

### EventLoop, NativeServer, NativeSession

`EventLoop` keeps the table of subscribers by connection; `read` counts the events it has
received, and the stream runs ahead of it as long as the worker is there. `NativeServer` models
`new`, `run` (its guard included), `stop` and drop as steps of callers that share the mutex
with the `JoinHandle`. `NativeSession` replaces the abstract phase *looping* by the loop itself.

### AndroidSession

Each lifecycle owner has one coroutine: it waits for the session mutex, collects the combination
of switch and USB state, constructs, runs and cleans up. Cancellation is a flag the coroutine sees
where it can be cancelled; the constructor and the cleanup run under `NonCancellable`. The receiver's
broadcasts are a queue, so an answer can arrive after the dongle was pulled. The owners share one
ViewModel (switch and permission), which is retained when an activity is re-created. Separate
activities would have one each and share only the mutex; the properties about the mutex do not
depend on it.

## 3. Runs

| Run | Bounds | Shows |
|---|---|---|
| `runtime_crossing` | 2 handles, 2 slots, 1 buffer, 2 links, 2 calls, 2 CCCD writes, channel 1, queue 2, batch 1 | tables follow links, no lost wakeup, true answers, with two links at once |
| `runtime_reuse` | one handle (so one slot: no handle ever holds two) used by two links in turn, MTU 4 and 5, length 2, batch 2, fair controller | no cross delivery, state of live links only, no truncation, order of delivery, CCCD writes attributed to their link, accepted values leave, `shutdown()` ends; both refinements |
| `lifecycle` | 2 threads, 3 starts | one owner, true results, nothing left after a join, nobody hangs |
| `att_server` | 2 handles, 2 characteristics, one change each | one fresh snapshot, CCCDs agree |
| `nusb` | channel of 2, 2 packets per endpoint, 3 sends of 2 lengths; `MaxTraffic` 9: up to 4 packets, 3 packets and 1 send, 1 and 2, or 3 sends | gapless until an error, ACL data at most one event early, a false success only late, stop reported, drop returns |
| `framing` | chunks of 4, buffers of 8 and 16, ACL limit 10, 3 packets with payloads on both sides of each | only whole packets, and every one from a controller that closes them |
| `declarations` | 3 builder calls, 2 services, 2 characteristics, 5 kinds of characteristic, names around the limits | the payload says what was asked, lookups agree |
| `session` | 2 callers, 2 connections, 3 events | barrier, truth of `run()`, table of subscribers, everyone returns; the refinement of `NativeServer` |
| `android` | 2 owners, 2 plug-ins | one session, descriptor outlives worker, no orphan permission, sessions end for the next owner |
| `runtime_grants` | as `runtime_crossing` | finding: a grant may be stale (section 5) |
| `att_notify` | one characteristic | finding: `notify()` in a handler (section 5) |
| `nusb_send` | two sends | finding: late ACL completions (section 5) |

Why the bounds are enough. The hazards of the worker need two links that share a buffer, or one
handle used twice; a queue that is full and not empty; a channel that is full; a batch that ends
before the channel is empty and one that does not. Each occurs: queue, channel and batch have
size one or two, and two calls, one of which may time out, reach every answer. A header of 3
leaves a payload of 1 before and 2 after the exchange, so a value of length 2 is refused, then
accepted. The transport's channel of 2 overflows with
four packets; three sends of two lengths let a completion be late by one send or two, and be told
apart by its length or not; `MaxTraffic` leaves out only runs with both many packets and many sends,
which meet in no property. Three events are the
shortest stream in which a subscriber goes while another comes. Two dongles are enough for an
answer that belongs to the one before. Each property is known to fail in its instance for at
least one plausible fault. The proofs of section 4 do not depend on bounds.

### Fairness

The safety properties of a fair run hold without it. What is assumed, and why the code justifies it:

* `runtime_reuse`: the worker thread is scheduled, and a blocked send of a Stop goes on once the
  channel has room (`WF` of each); BTstack's run loop serves each waiting
  registration while there are buffers (`SF` of `PollCanSend`: the registrations form a queue in
  BTstack); the controller completes the packets it holds (`SF` of the completion: the link layer
  acknowledges or drops the link). Nothing is assumed of peers or the application.
* `lifecycle`: threads run, and a worker waiting for a silent controller gives up after its
  20 seconds; a serving worker need not stop until told.
* `nusb`: the worker and the caller run, and its waits have time-outs as in the code. A caller that
  keeps its transport goes on receiving, as `run()` does.
* `framing`: a packet that was begun is sent, and the two threads run.
* `session`: worker and callers run. `notify()` and `start()` have time-outs of their own and
  `shutdown()` ends (`ShutdownEnds`, `NothingHangs`), so each turn of the loop ends.
* `android`: the dispatchers run what can run. Users, dongles and failures owe nothing.

`CHECK_DEADLOCK FALSE` is set for `Lifecycle` only, where starts are bounded and everything may
have stopped; the other modules say where they terminate.

## 4. Proofs

Each theorem holds for every value of the constants its module's assumption allows. The
assumptions say that bounds and sizes are natural numbers, that queues have room for one element, that
`Handles` is finite, that an MTU exchange never lowers the MTU, that the default MTU has room for
the header of a notification, that the ATT value limit holds the two bytes of a CCCD, that an
owner or caller is not `Nobody`, and that a transfer's buffer is a whole number of chunks. Nothing
else is assumed, except `SlotForEach` where it is named.

**GattRuntimeProofs.** `TypeCorrect`, `TablesAlwaysAgree`, `NothingOutlivesConnection`,
`NoCrossDeliveryHolds`. `NoCrossDelivery` is not inductive: a value is sent on the link BTstack has
now, and accepted under the generation the code remembers, so one needs that the two agree for
every queued value. They agree only up to the link events still in `EVENTS`, and a can-send event
may stand before or behind them. The invariant `Agreement` therefore describes `EVENTS`: at
most one link event is in it, since `run()` takes a single packet before it drains; a handle with
no link event queued has `connections = link`; with `Connected` queued it is unknown and up;
with `Disconnected` queued its link is down, so whatever is still queued under it cannot be
sent. `NEXT_CONNECTION` and `nextLink` advance together in the same way.

`CccdOfItsLinkHolds` follows from the same agreement: while `run()` loops, a peer that writes has no
link event in `EVENTS`, so the connection the callback looks up is that of its link.

The module's second part is about what becomes of the calls.
`AnswersAgreeHolds` rests on `CallsInOrder`: a command in the channel belongs to a call that
waits or gave up and is newer than all that were accepted, so no answer can contradict the queue.
`DeliveredInOrderHolds` rests on `InOrder`: what a link was sent is older than what its
connection still queues; `Distinct` keeps the queues of two connections apart.
`NoTruncationHolds` rests on `MtuFollows`: the MTU the code compares lengths with never
exceeds the link's, because an exchange still in `EVENTS` can only have raised the latter, and nothing
is queued for a handle when a new link takes it (`NothingOutlivesConnection`).
`NoLostWakeupHolds` needs `SlotForEach`, a slot for every handle: no handle holds two slots
(`OneSlot`), so by the pigeonhole principle a handle without one finds one free. Without that
condition it does not hold: `rs_request_send` (`bridge.c:117`) gives up silently when all
sixteen slots are taken by other links.

Both refinements of the runtime are theorems. `EventStreamProvided` (`Spec => ReportsEvents`) and
`NotificationServiceProvided` (`Spec => ProvidesService`) take every step of `run()`, the callbacks
and the application to a step of the abstract module or to none. They need that two connections
never share a number (`Distinct`), that numbers stay below `NEXT_CONNECTION` (`Reported`), and for
the service that the value at the front of the channel is of a call not accepted before. From
the steps of `EventStream` alone follows `EachConnectionLivesOnce`: the application is told of each
connection once, nothing of it after `Disconnected`, and nothing at all after `Error`.

**LifecycleProofs.** `LifecycleTypeCorrect`, `ExclusiveStackHolds`, `JoinMeansGoneHolds`,
`OkMeansOffHolds`, `ErrorAlwaysReported` and their conjunction `TruthfulEndHolds`. The invariant adds
who owns `ACTIVE` (one live worker, or the one thread about to spawn it), that each runtime was
started by one thread, how far a worker has come by what it holds, and when its result is final.

**AttServerProofs.** `OneSnapshotHolds`, `NotStaleHolds`, `SnapshotsForLiveOnlyHolds` and the
action property `PeerAndApplicationAgreeHolds`. BTstack serves one request at a time, so
the invariant follows that request: from its first call on it has a snapshot no older than
itself whose length is what the probe gave, and the CCCDs are what the application was told
of the connections there are, which are one event behind the links.

**NusbTransportProofs.** `PacketsArriveInOrder`, `AclOvertakesOneEvent`, `FalseSuccessOnlyLate`. None of
the three is inductive. The receive side rests on `Flow`, what the caller has received followed by
what waits in the channel: receiving only moves the boundary in it, and only the worker appends.
`Numbered(Flow)` says what the properties say, of the whole of it, and `Counted` that the packets in
it and the one between a transfer and the channel (`Pending`) are all the controller produced, so that
the next packet passed on has the next number. `Rounds` bounds the overtaking: a completion is
handled in the round that fetched it. The send side rests on `OneByOne`: calls do not overlap, the
transfers still submitted are in the order of the calls, and one left behind comes after a time-out
(`Late`): so a send that takes another's completion takes that of an earlier one, and since the lengths
are compared, of one as long as its own. Such a false success does happen (section 5); the theorem
says that nothing but a time-out leads there, a stalled transfer, a command or an
unsupported packet in between included.

**HciFramingProofs.** `OnlyWholePacketsHolds`. As long as `run()` goes on, a transfer begins at the
packet after the last one handed over (`FromNext`), or is the empty one that closed it; so its first
bytes declare the length of that very packet, which it has only if it holds nothing else.

**DeclarationsProofs.** `LookupsAlwaysAgree` and `AlwaysAdvertisesWhatWasAsked`. For the first, the
invariant `TableInvariant` links the two tables in both directions: a registered attribute is the
row of its handle and, with *notify*, the row behind it, and every such row is one of an attribute;
UUIDs are distinct because what is registered was declared at a position already passed, and
`validate()` compared all positions. For the second, `Asked` relates the payload in the builder to the calls
since the last `advertising_data()`, and the rest is about one payload: `Parsed` shows that each length
byte leads to the next structure (`ReadOne`, applied once, twice or three times), `UuidRead` and
`NameFieldIs` that each structure holds what it should. The reader `StartOf` is recursive, but over
the three structures a payload can have, so it unfolds (`StartsAre`); 31 bytes leave room for one UUID
(`OneUuid`).

**NativeSessionProofs.** `BarrierHolds` follows the mutex: a handle that was
taken and not joined is held by the thread that has the lock. `SessionImplementsServer`
(`SessionSpec => Spec`) is the safety part of the refinement `ServesSession`: every step of
the loop is a step of the abstract worker or stutters. By it `SessionBarrier` follows;
`SessionTellsTheTruth` adds that a loop that returns Ok has seen no Error event, and `SessionCaughtUp`
relates the table to the latest event on each connection among the first `read`.

**AndroidSessionProofs.** `OneSessionHolds`, `ConnectionOutlivesServerHolds`,
`NoOrphanRequestHolds`. The invariant `Session`: whoever collects holds the mutex; the connection
is open exactly from before the construction until after the cleanup; a server that exists is one
`runGattServer()` can still stop. `NoOrphanRequest` is inductive: an answer and a removal both
leave a broadcast behind.

Every invariant and every safety property that a run checks is a theorem. Only model-checked is
liveness, which is out of the prover's reach: `AcceptedLeaves`, `ShutdownEnds`, `NothingHangs`,
`StopReported`, `DropReturns`, `EveryPacketArrives`, `CallersReturn`, `DeadLeave`, `StopReleases`,
`OwnerGetsSession`, and the fair half of `ServesSession`.

## 5. Disagreements with the documentation

1. `runtime_grants`. `ARCHITECTURE.md` says notifications are sent only on BTstack's can-send
   callback. The callback only queues an event; the value is sent when `run()` drains it.
   By then another link or an ATT response may have the buffer, and the notification is lost,
   reported as `NotificationFailed`.
2. `nusb_send`. `HciTransport` "sends complete HCI packets synchronously". After a time-out the
   old ACL transfer stays submitted, and its completion is taken for the next packet's. `run()`
   stops after the first failed send, so only packets sent while stopping are affected.
3. `att_notify`. `notify()` means to refuse a call from a handler with an error, but looks into
   `STATE` with `borrow()`, which panics because `read()` and `write()` hold it mutably. The peer
   gets Unlikely Error.

## 6. Not modelled

* The pairing, L2CAP and ATT protocols inside BTstack, which is not in the repository.
* Which USB device is opened and the search through its descriptors: one step that succeeds or fails.
* The argument parser of the command-line example, a single pass over the words with unit tests
  of its own, and `--probe`, which prints endpoints and exits.
* The layout of the screen, status texts, the redirection of output to the log, trace output and
  the wording of errors.
* The build scripts and the smoke test on hardware: no logic of the program.
* Two hazards are listed without a property because nothing in the repository promises otherwise: a
  value queued under one subscription and sent under the next, and a long value read with several
  requests. A third, more links than slots, is the condition `SlotForEach` above.

## 7. Plan

The modules, runs, findings and theorems above are complete. What would add most next:

1. A composition of `NusbTransport` and `GattRuntime`, so that the loss of the device and
   the controller's stop meet in one model.
2. `SessionImplementsServer` for the Kotlin side: `AndroidSession` takes the native server at its
   contract; with the object of `NativeServer` in its place the contract would be a theorem.
