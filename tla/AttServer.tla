------------------------------ MODULE AttServer ------------------------------
(***************************************************************************)
(* The ATT callbacks of btstack-core/src/runtime.rs: read() with its cache *)
(* of snapshots, write() with the CCCDs, the application's on_read and     *)
(* on_write handlers they run while State is mutably borrowed, and the     *)
(* Connected and Disconnected events that frame them.                      *)
(*                                                                         *)
(* BTstack handles one request at a time.  It answers a read with two calls*)
(* of read(): a probe with a null buffer that asks for the length of the   *)
(* whole value, and a copy of the part the response has room for.  The     *)
(* application may change a value at any time.                             *)
(***************************************************************************)
EXTENDS Integers, FiniteSets

CONSTANTS
    Handles,      \* connection handles
    Chars,        \* characteristics
    Readable,     \* those with an on_read handler
    Writable,     \* those with an on_write handler
    Notifying,    \* those with the Notify property, which have a CCCD
    Lens,         \* lengths of the values the application keeps
    MaxValue,     \* longest attribute value, 512 in the code
    Room,         \* bytes of a value that a response has room for
    MaxChanges    \* bound: changes the application makes to each value

ASSUME AttAssumption ==
    /\ Readable \cup Writable \cup Notifying \subseteq Chars
    /\ Lens \subseteq Nat
    /\ {MaxValue, Room, MaxChanges} \subseteq Nat
    /\ MaxValue >= 2

VARIABLES
    linked,         \* links BTstack has
    event,          \* the link event run() has not drained yet
    connections,    \* handles in State::connections
    subscriptions,  \* pairs <<handle, characteristic>> that map to true
    reads,          \* the snapshots, per handle and attribute
    value,          \* what the application's on_read would return
    pc,             \* where the worker is in a request
    request,        \* the request it serves
    borrowed,       \* State is mutably borrowed
    reply,          \* the response, until the next read or write of a value
    told,           \* the last SubscriptionChanged, per handle and characteristic
    notifyCalled    \* how notify() ended, if a handler called it

tables == <<connections, subscriptions, reads>>
links == <<linked, event>>
vars == <<links, tables, value, pc, request, borrowed, reply, told, notifyCalled>>

Attributes == Chars \X {"value", "cccd"}

\* A value is known by the number of changes before it, a CCCD by its bit.
Snapshot == [version : Nat, len : 0 .. MaxValue]
NoSnapshot == [version |-> -1, len |-> 0]

NoEvent == <<"none">>
NoRequest == [op |-> "none"]
NoReply == [status |-> "none"]

Statuses == {"ok", "ReadNotPermitted", "WriteNotPermitted", "InvalidOffset",
             "RequestNotSupported", "InvalidValueLength", "UnlikelyError", "ValueNotAllowed"}

\* probed is the length the probe returned, since the version of the value when
\* the request came.
ReadRequest ==
    [op : {"read"}, conn : Handles, attr : Attributes, offset : 0 .. MaxValue + 1,
     null : BOOLEAN, probed : 0 .. MaxValue, since : Nat]
WriteRequest == [op : {"write"}, conn : Handles, attr : Attributes]

TypeOK ==
    /\ linked \subseteq Handles /\ connections \subseteq Handles
    /\ event \in {NoEvent} \cup {"up", "down"} \X Handles
    /\ subscriptions \subseteq Handles \X Chars
    /\ reads \in [Handles \X Attributes -> Snapshot \cup {NoSnapshot}]
    /\ value \in [Chars -> [version : Nat, len : Lens]]
    /\ pc \in {"idle", "read", "on_read", "filled", "on_write"}
    /\ request \in {NoRequest} \cup ReadRequest \cup WriteRequest
    /\ borrowed \in BOOLEAN
    /\ reply \in {NoReply} \cup [status : Statuses \ {"ok"}]
                 \cup [status : {"ok"}, conn : Handles, attr : Attributes, offset : Nat,
                       len : Nat, version : Nat, probed : Nat, since : Nat]
    /\ told \in [Handles \X Chars -> BOOLEAN]
    /\ notifyCalled \in {"no", "error", "panic"}

Init ==
    /\ linked = {} /\ event = NoEvent
    /\ connections = {} /\ subscriptions = {}
    /\ reads = [k \in Handles \X Attributes |-> NoSnapshot]
    /\ value \in [Chars -> [version : {0}, len : Lens]]
    /\ pc = "idle" /\ request = NoRequest /\ borrowed = FALSE /\ reply = NoReply
    /\ told = [k \in Handles \X Chars |-> FALSE]
    /\ notifyCalled = "no"

-----------------------------------------------------------------------------
(* Links: run() drains the event of one packet before it takes the next *)

LinkUp(h) ==
    /\ pc = "idle" /\ event = NoEvent /\ h \notin linked
    /\ linked' = linked \cup {h} /\ event' = <<"up", h>>
    /\ UNCHANGED <<tables, value, pc, request, borrowed, reply, told, notifyCalled>>

LinkDown(h) ==
    /\ pc = "idle" /\ event = NoEvent /\ h \in linked
    /\ linked' = linked \ {h} /\ event' = <<"down", h>>
    /\ UNCHANGED <<tables, value, pc, request, borrowed, reply, told, notifyCalled>>

DrainConnected ==
    /\ pc = "idle" /\ event[1] = "up"
    /\ event' = NoEvent
    /\ connections' = connections \cup {event[2]}
    /\ told' = [k \in DOMAIN told |-> IF k[1] = event[2] THEN FALSE ELSE told[k]]
    /\ UNCHANGED <<linked, subscriptions, reads, value, pc, request, borrowed, reply,
                   notifyCalled>>

SnapshotsWithout(h) == [k \in DOMAIN reads |-> IF k[1] = h THEN NoSnapshot ELSE reads[k]]
CccdsWithout(h) == subscriptions \ ({h} \X Chars)

DrainDisconnected ==
    /\ pc = "idle" /\ event[1] = "down"
    /\ event' = NoEvent
    /\ subscriptions' = CccdsWithout(event[2])
    /\ reads' = SnapshotsWithout(event[2])
    /\ connections' = connections \ {event[2]}
    /\ UNCHANGED <<linked, value, pc, request, borrowed, reply, told, notifyCalled>>

-----------------------------------------------------------------------------
(* Responses *)

Respond(r) == pc' = "idle" /\ request' = NoRequest /\ reply' = r

Fail(status) == Respond([status |-> status])

-----------------------------------------------------------------------------
(* The application *)

\* A value changes, by another thread or by a handler.
Change(c) ==
    /\ value[c].version < MaxChanges
    /\ \E n \in Lens : value' = [value EXCEPT ![c] = [version |-> @.version + 1, len |-> n]]
    /\ UNCHANGED <<links, tables, pc, request, borrowed, reply, told, notifyCalled>>

\* A handler calls notify(), which looks into STATE to find out that it runs
\* on the BTstack thread: borrow() panics while STATE is mutably borrowed, and
\* the panic unwinds through the handler to the callback's catch_unwind.
CallbackNotify ==
    /\ pc \in {"on_read", "on_write"}
    /\ IF borrowed
       THEN /\ notifyCalled' = "panic"
            /\ borrowed' = FALSE
            /\ Fail("UnlikelyError")
       ELSE notifyCalled' = "error" /\ UNCHANGED <<pc, request, borrowed, reply>>
    /\ UNCHANGED <<links, tables, value, told>>

-----------------------------------------------------------------------------
(* read() *)

\* The attribute is a value, or the CCCD next to one.
Found(attr) == attr[2] = "value" \/ attr[1] \in Notifying

Key == <<request.conn, request.attr>>

\* BTstack receives a Read or a Read Blob request.
Read(h, attr, offset) ==
    /\ pc = "idle" /\ h \in linked
    /\ pc' = "read"
    /\ request' = [op |-> "read", conn |-> h, attr |-> attr, offset |-> offset,
                   null |-> TRUE, probed |-> 0, since |-> value[attr[1]].version]
    /\ reply' = NoReply /\ notifyCalled' = "no"
    /\ UNCHANGED <<links, tables, value, borrowed, told>>

\* Faults: a response starts with an old snapshot; the copy takes a new one.
SnapshotOnce == reads[Key] = NoSnapshot
SnapshotPerCall == TRUE

NeedsSnapshot == request.null \/ reads[Key] = NoSnapshot

ReadRefused ==
    /\ pc = "read"
    /\ \/ request.conn \notin connections /\ Fail("UnlikelyError")
       \/ /\ request.conn \in connections
          /\ \/ ~Found(request.attr)
             \/ request.attr[2] = "value" /\ request.attr[1] \notin Readable /\ NeedsSnapshot
          /\ Fail("ReadNotPermitted")
    /\ UNCHANGED <<links, tables, value, borrowed, told, notifyCalled>>

Served == pc = "read" /\ request.conn \in connections /\ Found(request.attr)

\* Fault: the CCCD is not kept per connection.
AnyCccdBit(h, c) == IF \E g \in connections : <<g, c>> \in subscriptions THEN 1 ELSE 0

CccdBit(h, c) == IF <<h, c>> \in subscriptions THEN 1 ELSE 0

ReadCccd ==
    /\ Served /\ NeedsSnapshot /\ request.attr[2] = "cccd"
    /\ reads' = [reads EXCEPT ![Key] =
                    [version |-> CccdBit(request.conn, request.attr[1]), len |-> 2]]
    /\ pc' = "filled"
    /\ UNCHANGED <<links, connections, subscriptions, value, request, borrowed, reply, told,
                   notifyCalled>>

CallOnRead ==
    /\ Served /\ NeedsSnapshot
    /\ request.attr[2] = "value" /\ request.attr[1] \in Readable
    /\ pc' = "on_read" /\ borrowed' = TRUE
    /\ UNCHANGED <<links, tables, value, request, reply, told, notifyCalled>>

KeepSnapshot ==
    /\ Served /\ ~NeedsSnapshot
    /\ pc' = "filled"
    /\ UNCHANGED <<links, tables, value, request, borrowed, reply, told, notifyCalled>>

Fits(n) == n <= MaxValue

\* The handler returns the value of this moment, or fails, or panics.
OnReadReturns ==
    /\ pc = "on_read"
    /\ borrowed' = FALSE
    /\ LET v == value[request.attr[1]] IN
         \/ /\ Fits(v.len)
            /\ reads' = [reads EXCEPT ![Key] = v]
            /\ pc' = "filled"
            /\ UNCHANGED <<request, reply>>
         \/ ~Fits(v.len) /\ Fail("InvalidValueLength") /\ UNCHANGED reads
         \/ \E e \in Statuses \ {"ok"} : Fail(e) /\ UNCHANGED reads
    /\ UNCHANGED <<links, connections, subscriptions, value, told, notifyCalled>>

Min2(a, b) == IF a < b THEN a ELSE b

\* The probe returns the length, and BTstack goes on to the copy unless its
\* offset is beyond it.
AnswerProbe ==
    /\ pc = "filled" /\ request.null
    /\ LET n == reads[Key].len IN
         IF request.offset > n THEN Fail("InvalidOffset")
         ELSE /\ pc' = "read"
              /\ request' = [request EXCEPT !.null = FALSE, !.probed = n]
              /\ UNCHANGED reply
    /\ UNCHANGED <<links, tables, value, borrowed, told, notifyCalled>>

AnswerCopy ==
    /\ pc = "filled" /\ ~request.null
    /\ LET s == reads[Key] IN
         IF request.offset > s.len THEN Fail("InvalidOffset")
         ELSE Respond([status |-> "ok", conn |-> request.conn, attr |-> request.attr,
                       offset |-> request.offset, len |-> Min2(s.len - request.offset, Room),
                       version |-> s.version, probed |-> request.probed,
                       since |-> request.since])
    /\ UNCHANGED <<links, tables, value, borrowed, told, notifyCalled>>

-----------------------------------------------------------------------------
(* write() *)

Drop(k) == reads' = [reads EXCEPT ![k] = NoSnapshot]

\* The payload has two bytes, and nothing but the Notify bit in them.
CccdOk(payload) == payload \in {"enable", "disable"}

\* A write of a CCCD.  Any refusal leaves everything as it is.
WriteCccd(h, c, payload) ==
    /\ pc = "idle" /\ h \in linked
    /\ IF h \in connections /\ c \in Notifying /\ CccdOk(payload)
       THEN /\ subscriptions' = IF payload = "enable" THEN subscriptions \cup {<<h, c>>}
                                                      ELSE subscriptions \ {<<h, c>>}
            /\ Drop(<<h, <<c, "cccd">>>>)
            /\ told' = [told EXCEPT ![<<h, c>>] = payload = "enable"]
       ELSE UNCHANGED <<subscriptions, reads, told>>
    /\ UNCHANGED <<links, connections, value, pc, request, borrowed, reply, notifyCalled>>

\* A write of a value that reaches the handler: not prepared, at offset zero,
\* not too long.  One that does not changes nothing.
CallOnWrite(h, c) ==
    /\ pc = "idle" /\ h \in linked /\ h \in connections /\ c \in Writable
    /\ pc' = "on_write" /\ borrowed' = TRUE
    /\ request' = [op |-> "write", conn |-> h, attr |-> <<c, "value">>]
    /\ reply' = NoReply /\ notifyCalled' = "no"
    /\ UNCHANGED <<links, tables, value, told>>

\* Only a write the handler accepts drops the snapshot.
OnWriteReturns ==
    /\ pc = "on_write"
    /\ pc' = "idle" /\ request' = NoRequest /\ borrowed' = FALSE
    /\ Drop(Key) \/ UNCHANGED reads
    /\ UNCHANGED <<links, connections, subscriptions, value, reply, told, notifyCalled>>

-----------------------------------------------------------------------------
Payloads == {"enable", "disable", "short", "reserved"}

Next ==
    \/ \E h \in Handles : LinkUp(h) \/ LinkDown(h)
    \/ DrainConnected \/ DrainDisconnected
    \/ \E c \in Chars : Change(c)
    \/ CallbackNotify
    \/ \E h \in Handles, attr \in Attributes, offset \in 0 .. MaxValue + 1 : Read(h, attr, offset)
    \/ ReadRefused \/ ReadCccd \/ CallOnRead \/ KeepSnapshot \/ OnReadReturns
    \/ AnswerProbe \/ AnswerCopy
    \/ \E h \in Handles, c \in Chars :
         CallOnWrite(h, c) \/ \E payload \in Payloads : WriteCccd(h, c, payload)
    \/ OnWriteReturns

Spec == Init /\ [][Next]_vars

-----------------------------------------------------------------------------
(* Properties *)

\* The bytes of a response are of the value whose length the probe gave, even
\* when the application changes the value between the two calls: one snapshot
\* serves both.
OneSnapshot ==
    reply.status = "ok" => reply.len = Min2(reply.probed - reply.offset, Room)

\* No response is older than its request, however long a snapshot has been kept.
NotStale ==
    reply.status = "ok" /\ reply.attr[2] = "value" => reply.version >= reply.since

\* The CCCD a peer reads is what the application was last told of this very
\* connection, FALSE after Connected.
PeerAndApplicationAgree ==
    [][ reply' # reply /\ reply'.status = "ok" /\ reply'.attr[2] = "cccd"
        => (reply'.version = 1) = told[<<reply'.conn, reply'.attr[1]>>] ]_vars

\* A snapshot belongs to a connection the server has, so a later connection
\* with the same handle finds none.
SnapshotsForLiveOnly ==
    \A h \in Handles, attr \in Attributes : h \notin connections => reads[<<h, attr>>] = NoSnapshot

\* A handler that calls notify() gets an error, and goes on.
CallbackNotifyRefused == notifyCalled # "panic"
=============================================================================
