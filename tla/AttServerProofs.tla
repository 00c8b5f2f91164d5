--------------------------- MODULE AttServerProofs ---------------------------
(***************************************************************************)
(* Proofs about AttServer, for any handles, characteristics and values: one*)
(* snapshot serves the two calls of a response, no response is older than its *)
(* request, and a CCCD reads as the application was told.  The argument    *)
(* follows one request from the probe to the copy: BTstack serves one at a *)
(* time, so nothing replaces the snapshot in between.                      *)
(***************************************************************************)
EXTENDS AttServer, TLAPS

-----------------------------------------------------------------------------
(* The inductive invariant                                                 *)

Reading == pc \in {"read", "on_read", "filled"}

\* The request the worker is in.
Requested ==
    /\ pc = "idle" => request = NoRequest
    /\ pc = "on_write" => request \in WriteRequest
    /\ Reading => request \in ReadRequest
    /\ pc = "on_read" =>
         request.null /\ request.attr[2] = "value" /\ request.conn \in connections

\* connections is one event behind the links.
OneBehind ==
    /\ event = NoEvent => connections = linked
    /\ \A h \in Handles :
         /\ event = <<"up", h>> => h \notin connections /\ linked = connections \cup {h}
         /\ event = <<"down", h>> => h \notin linked /\ connections = linked \cup {h}

\* The CCCDs are what the application was told of the connections there are.
Cccds ==
    \A h \in Handles, c \in Chars :
        <<h, c>> \in subscriptions <=> h \in connections /\ told[<<h, c>>]

\* The snapshot of the request under way.
Held(s) ==
    /\ request.conn \in connections
    /\ s \in Snapshot
    /\ request.attr[2] = "value" => s.version >= request.since
    /\ request.attr[2] = "cccd" => s.version = CccdBit(request.conn, request.attr[1])
    /\ ~request.null => request.probed = s.len /\ request.offset <= s.len

\* From the first call on the request has its snapshot; before that, the value
\* is no older than the request.
Serving ==
    Reading =>
        /\ request.since <= value[request.attr[1]].version
        /\ pc = "filled" \/ ~request.null => Held(reads[Key])

IInv ==
    /\ TypeOK /\ Requested /\ OneBehind /\ Cccds /\ Serving
    /\ SnapshotsForLiveOnly /\ OneSnapshot /\ NotStale

-----------------------------------------------------------------------------
\* The invariant holds in the initial state.
LEMMA InitIInv == Init => IInv
<1> SUFFICES ASSUME Init PROVE IInv
    OBVIOUS
<1> USE AttAssumption DEF Init
<1>1. TypeOK
    <2>1. reads \in [Handles \X Attributes -> Snapshot \cup {NoSnapshot}]
        OBVIOUS
    <2>2. value \in [Chars -> [version : Nat, len : Lens]]
        OBVIOUS
    <2>3. told \in [Handles \X Chars -> BOOLEAN]
        OBVIOUS
    <2> QED
        BY <2>1, <2>2, <2>3 DEF TypeOK
<1>2. Requested /\ OneBehind /\ Cccds /\ Serving
    BY DEF Requested, OneBehind, NoEvent, Cccds, Serving, Reading
<1>3. SnapshotsForLiveOnly /\ OneSnapshot /\ NotStale
    BY DEF SnapshotsForLiveOnly, OneSnapshot, NotStale, NoReply
<1> QED
    BY <1>1, <1>2, <1>3 DEF IInv

\* A request is served by one attribute of one connection.
LEMMA KeyOfRequest ==
    ASSUME TypeOK, Requested, Reading
    PROVE  /\ request.conn \in Handles /\ request.attr \in Attributes
           /\ request.attr[1] \in Chars /\ request.attr[2] \in {"value", "cccd"}
           /\ request.null \in BOOLEAN /\ request.since \in Nat /\ request.offset \in Nat
           /\ Key \in Handles \X Attributes
           /\ reads[Key] \in Snapshot \cup {NoSnapshot}
BY AttAssumption DEF TypeOK, Requested, ReadRequest, Attributes, Key

\* A response that fails.
LEMMA FailKeeps ==
    ASSUME IInv, NEW status \in Statuses \ {"ok"}, Fail(status),
           UNCHANGED <<linked, event, connections, subscriptions, reads, value, told>>,
           borrowed' \in BOOLEAN, notifyCalled' \in {"no", "error", "panic"}
    PROVE  IInv'
<1>1. pc' = "idle" /\ request' = NoRequest /\ reply' = [status |-> status]
    BY DEF Fail, Respond
<1>2. TypeOK'
    BY <1>1 DEF IInv, TypeOK
<1>3. (Requested /\ OneBehind /\ Cccds /\ Serving /\ SnapshotsForLiveOnly /\ OneSnapshot /\ NotStale)'
    BY <1>1 DEF IInv, Requested, Reading, OneBehind, Cccds, Serving, SnapshotsForLiveOnly, OneSnapshot,
                NotStale
<1> QED
    BY <1>2, <1>3 DEF IInv

\* Every step keeps it.
LEMMA NextIInv == IInv /\ [Next]_vars => IInv'
<1> SUFFICES ASSUME IInv, [Next]_vars PROVE IInv'
    OBVIOUS
<1> USE AttAssumption
<1> DEFINE Rest == Requested /\ OneBehind /\ Cccds /\ Serving /\ SnapshotsForLiveOnly /\ OneSnapshot
                   /\ NotStale
<1>0. TypeOK /\ Rest
    BY DEF IInv
<1>1. ASSUME NEW h \in Handles, LinkUp(h) \/ LinkDown(h) PROVE IInv'
    <2>1. TypeOK'
        BY <1>0, <1>1 DEF LinkUp, LinkDown, tables, TypeOK
    <2>2. Rest'
        BY <1>0, <1>1 DEF LinkUp, LinkDown, tables, TypeOK, NoEvent, Requested, Reading, OneBehind,
                          Cccds, Serving, SnapshotsForLiveOnly, OneSnapshot, NotStale
    <2> QED
        BY <2>1, <2>2 DEF IInv
<1>2. CASE DrainConnected
    <2>1. PICK h \in Handles : event = <<"up", h>>
        BY <1>0, <1>2 DEF DrainConnected, TypeOK, NoEvent
    <2>2. /\ pc = "idle" /\ event' = NoEvent /\ connections' = connections \cup {h}
          /\ told' = [k \in DOMAIN told |-> IF k[1] = h THEN FALSE ELSE told[k]]
          /\ UNCHANGED <<linked, subscriptions, reads, value, pc, request, borrowed, reply,
                         notifyCalled>>
        BY <1>2, <2>1 DEF DrainConnected
    <2>3. TypeOK'
        BY <1>0, <2>2 DEF TypeOK
    <2>4. Cccds'
        BY <1>0, <2>1, <2>2 DEF TypeOK, OneBehind, Cccds
    <2>5. OneBehind'
        BY <1>0, <2>1, <2>2 DEF OneBehind, NoEvent
    <2>6. (Requested /\ Serving /\ SnapshotsForLiveOnly /\ OneSnapshot /\ NotStale)'
        BY <1>0, <2>2 DEF Requested, Reading, Serving, SnapshotsForLiveOnly, OneSnapshot, NotStale
    <2> QED
        BY <2>3, <2>4, <2>5, <2>6 DEF IInv
<1>3. CASE DrainDisconnected
    <2>1. PICK h \in Handles : event = <<"down", h>>
        BY <1>0, <1>3 DEF DrainDisconnected, TypeOK, NoEvent
    <2>2. /\ pc = "idle" /\ event' = NoEvent /\ connections' = connections \ {h}
          /\ subscriptions' = subscriptions \ ({h} \X Chars)
          /\ reads' = [k \in DOMAIN reads |-> IF k[1] = h THEN NoSnapshot ELSE reads[k]]
          /\ UNCHANGED <<linked, value, pc, request, borrowed, reply, told, notifyCalled>>
        BY <1>3, <2>1 DEF DrainDisconnected, CccdsWithout, SnapshotsWithout
    <2>3. TypeOK'
        BY <1>0, <2>2 DEF TypeOK
    <2>4. Cccds'
        BY <1>0, <2>2 DEF TypeOK, Cccds
    <2>5. OneBehind'
        BY <1>0, <2>1, <2>2 DEF OneBehind, NoEvent
    <2>6. SnapshotsForLiveOnly'
        BY <1>0, <2>2 DEF TypeOK, SnapshotsForLiveOnly
    <2>7. (Requested /\ Serving /\ OneSnapshot /\ NotStale)'
        BY <1>0, <2>2 DEF Requested, Reading, Serving, OneSnapshot, NotStale
    <2> QED
        BY <2>3, <2>4, <2>5, <2>6, <2>7 DEF IInv
<1>4. ASSUME NEW c \in Chars, Change(c) PROVE IInv'
    <2>1. PICK n \in Lens : value' = [value EXCEPT ![c] = [version |-> @.version + 1, len |-> n]]
        BY <1>4 DEF Change
    <2>2. UNCHANGED <<linked, event, connections, subscriptions, reads, pc, request, borrowed, reply,
                      told, notifyCalled>>
        BY <1>4 DEF Change, links, tables
    <2>3. TypeOK'
        BY <1>0, <2>1, <2>2 DEF TypeOK
    <2>4. \A d \in Chars : value[d].version \in Nat /\ value'[d].version \in Nat
                            /\ value'[d].version >= value[d].version
        BY <1>0, <2>1 DEF TypeOK
    <2>5. Serving'
        <3>1. ASSUME Reading PROVE request.since <= value'[request.attr[1]].version
            BY <1>0, <2>4, <3>1, KeyOfRequest DEF Serving
        <3> QED
            BY <1>0, <2>2, <3>1 DEF Serving, Reading, Held, Key, CccdBit
    <2>6. (Requested /\ OneBehind /\ Cccds /\ SnapshotsForLiveOnly /\ OneSnapshot /\ NotStale)'
        BY <1>0, <2>2 DEF Requested, Reading, OneBehind, Cccds, SnapshotsForLiveOnly, OneSnapshot,
                          NotStale
    <2> QED
        BY <2>3, <2>5, <2>6 DEF IInv
<1>5. CASE CallbackNotify
    <2>1. UNCHANGED <<linked, event, connections, subscriptions, reads, value, told>>
        BY <1>5 DEF CallbackNotify, links, tables
    <2>2. CASE borrowed
        BY <1>5, <2>1, <2>2, FailKeeps DEF CallbackNotify, Statuses
    <2>3. CASE ~borrowed
        <3>1. notifyCalled' = "error" /\ UNCHANGED <<pc, request, borrowed, reply>>
            BY <1>5, <2>3 DEF CallbackNotify
        <3>2. TypeOK'
            BY <1>0, <2>1, <3>1 DEF TypeOK
        <3>3. (Requested /\ OneBehind /\ Cccds /\ Serving)'
            BY <1>0, <2>1, <3>1 DEF Requested, Reading, OneBehind, Cccds, Serving, Held, Key, CccdBit
        <3>4. (SnapshotsForLiveOnly /\ OneSnapshot /\ NotStale)'
            BY <1>0, <2>1, <3>1 DEF SnapshotsForLiveOnly, OneSnapshot, NotStale
        <3> QED
            BY <3>2, <3>3, <3>4 DEF IInv
    <2> QED
        BY <2>2, <2>3
<1>6. ASSUME NEW h \in Handles, NEW attr \in Attributes, NEW offset \in 0 .. MaxValue + 1,
             Read(h, attr, offset)
      PROVE  IInv'
    <2>1. UNCHANGED <<linked, event, connections, subscriptions, reads, value, borrowed, told>>
        BY <1>6 DEF Read, links, tables
    <2>2. /\ pc' = "read" /\ reply' = NoReply /\ notifyCalled' = "no"
          /\ request' = [op |-> "read", conn |-> h, attr |-> attr, offset |-> offset,
                         null |-> TRUE, probed |-> 0, since |-> value[attr[1]].version]
        BY <1>6 DEF Read
    <2>3. value[attr[1]].version \in Nat
        BY <1>0 DEF TypeOK, Attributes
    <2>4. request' \in ReadRequest
        BY <2>2, <2>3 DEF ReadRequest
    <2>5. TypeOK'
        BY <1>0, <2>1, <2>2, <2>4 DEF TypeOK
    <2>6. Rest'
        BY <1>0, <2>1, <2>2, <2>3, <2>4
           DEF Requested, Reading, OneBehind, Cccds, Serving, SnapshotsForLiveOnly, OneSnapshot,
               NotStale, NoReply
    <2> QED
        BY <2>5, <2>6 DEF IInv
<1>7. CASE ReadRefused
    <2>1. UNCHANGED <<linked, event, connections, subscriptions, reads, value, borrowed, told,
                      notifyCalled>>
        BY <1>7 DEF ReadRefused, links, tables
    <2>2. Fail("UnlikelyError") \/ Fail("ReadNotPermitted")
        BY <1>7 DEF ReadRefused
    <2>3. borrowed' \in BOOLEAN /\ notifyCalled' \in {"no", "error", "panic"}
        BY <1>0, <2>1 DEF TypeOK
    <2> QED
        BY <2>1, <2>2, <2>3, FailKeeps DEF Statuses
<1>8. CASE ReadCccd
    <2>1. /\ UNCHANGED <<linked, event, connections, subscriptions, value, request, borrowed, reply,
                         told, notifyCalled>>
          /\ pc = "read" /\ pc' = "filled" /\ request.conn \in connections
          /\ request.attr[2] = "cccd" /\ NeedsSnapshot
        BY <1>8 DEF ReadCccd, Served, links
    <2> DEFINE s == [version |-> CccdBit(request.conn, request.attr[1]), len |-> 2]
    <2>2. reads' = [reads EXCEPT ![Key] = s]
        BY <1>8 DEF ReadCccd
    <2>3. s \in Snapshot /\ Key \in Handles \X Attributes /\ request.null
        BY <1>0, <2>1, KeyOfRequest DEF Reading, Snapshot, CccdBit, NeedsSnapshot, Serving, Held, NoSnapshot
    <2>4. TypeOK'
        BY <1>0, <2>1, <2>2, <2>3 DEF TypeOK
    <2>5. reads'[Key] = s /\ Key' = Key
        BY <1>0, <2>1, <2>2, <2>3 DEF TypeOK, Key
    <2>6. Serving'
        BY <1>0, <2>1, <2>3, <2>5 DEF Serving, Reading, Held, CccdBit
    <2>7. SnapshotsForLiveOnly'
        BY <1>0, <2>1, <2>2, <2>3 DEF TypeOK, SnapshotsForLiveOnly, Key
    <2>8. (Requested /\ OneBehind /\ Cccds /\ OneSnapshot /\ NotStale)'
        BY <1>0, <2>1, <2>3 DEF Requested, Reading, OneBehind, Cccds, OneSnapshot, NotStale
    <2> QED
        BY <2>4, <2>6, <2>7, <2>8 DEF IInv
<1>9. CASE CallOnRead
    <2>1. /\ UNCHANGED <<linked, event, connections, subscriptions, reads, value, request, reply, told,
                         notifyCalled>>
          /\ pc = "read" /\ pc' = "on_read" /\ request.conn \in connections /\ borrowed' = TRUE
          /\ request.attr[2] = "value" /\ NeedsSnapshot
        BY <1>9 DEF CallOnRead, Served, links, tables
    <2>2. request.null
        BY <1>0, <2>1, KeyOfRequest DEF Reading, Snapshot, NeedsSnapshot, Serving, Held, NoSnapshot
    <2>3. TypeOK'
        BY <1>0, <2>1 DEF TypeOK
    <2>4. Rest'
        BY <1>0, <2>1, <2>2
           DEF Requested, Reading, OneBehind, Cccds, Serving, SnapshotsForLiveOnly, OneSnapshot, NotStale
    <2> QED
        BY <2>3, <2>4 DEF IInv
<1>10. CASE KeepSnapshot
    <2>1. /\ UNCHANGED <<linked, event, connections, subscriptions, reads, value, request, borrowed,
                         reply, told, notifyCalled>>
          /\ pc = "read" /\ pc' = "filled" /\ request.conn \in connections /\ ~request.null
        BY <1>10 DEF KeepSnapshot, Served, NeedsSnapshot, links, tables
    <2>2. TypeOK'
        BY <1>0, <2>1 DEF TypeOK
    <2>3. Rest'
        BY <1>0, <2>1
           DEF Requested, Reading, OneBehind, Cccds, Serving, Held, Key, CccdBit, SnapshotsForLiveOnly,
               OneSnapshot, NotStale
    <2> QED
        BY <2>2, <2>3 DEF IInv
<1>11. CASE OnReadReturns
    <2>1. /\ UNCHANGED <<linked, event, connections, subscriptions, value, told, notifyCalled>>
          /\ pc = "on_read" /\ borrowed' = FALSE
        BY <1>11 DEF OnReadReturns, links
    <2>2. ASSUME NEW e \in Statuses \ {"ok"}, Fail(e), UNCHANGED reads PROVE IInv'
        BY <2>1, <2>2, FailKeeps, <1>0 DEF TypeOK
    <2> DEFINE v == value[request.attr[1]]
    <2>3. CASE Fits(v.len) /\ reads' = [reads EXCEPT ![Key] = v] /\ pc' = "filled"
               /\ UNCHANGED <<request, reply>>
        <3>1. /\ Key \in Handles \X Attributes /\ request.attr[1] \in Chars
              /\ request.null /\ request.attr[2] = "value"
            BY <1>0, <2>1, KeyOfRequest DEF Reading, Requested
        <3>2. v \in Snapshot /\ request.since <= v.version
            <4>1. v \in [version : Nat, len : Lens]
                BY <1>0, <3>1 DEF TypeOK
            <4>2. v.version \in Nat /\ v.len \in Nat /\ v = [version |-> v.version, len |-> v.len]
                BY <4>1
            <4>3. v.len \in 0 .. MaxValue
                BY <2>3, <4>2 DEF Fits
            <4>4. v \in Snapshot
                BY <4>2, <4>3 DEF Snapshot
            <4> QED
                BY <1>0, <2>1, <4>4 DEF Serving, Reading
        <3>3. request.conn \in connections
            BY <1>0, <2>1 DEF Requested
        <3>4. TypeOK'
            BY <1>0, <2>1, <2>3, <3>1, <3>2 DEF TypeOK
        <3>5. reads'[Key] = v /\ Key' = Key
            BY <1>0, <2>3, <3>1 DEF TypeOK, Key
        <3>6. Serving'
            BY <1>0, <2>1, <2>3, <3>1, <3>2, <3>3, <3>5, KeyOfRequest DEF Serving, Reading, Held, Snapshot
        <3>7. SnapshotsForLiveOnly'
            BY <1>0, <2>1, <2>3, <3>1, <3>3 DEF TypeOK, SnapshotsForLiveOnly, Key
        <3>8. (Requested /\ OneBehind /\ Cccds /\ OneSnapshot /\ NotStale)'
            BY <1>0, <2>1, <2>3 DEF Requested, Reading, OneBehind, Cccds, OneSnapshot, NotStale
        <3> QED
            BY <3>4, <3>6, <3>7, <3>8 DEF IInv
    <2> QED
        BY <1>11, <2>2, <2>3 DEF OnReadReturns, Statuses
<1>12. CASE AnswerProbe
    <2>1. /\ UNCHANGED <<linked, event, connections, subscriptions, reads, value, borrowed, told,
                         notifyCalled>>
          /\ pc = "filled" /\ request.null
        BY <1>12 DEF AnswerProbe, links, tables
    <2> DEFINE n == reads[Key].len
    <2>2. CASE Fail("InvalidOffset")
        <3>1. borrowed' \in BOOLEAN /\ notifyCalled' \in {"no", "error", "panic"}
            BY <1>0, <2>1 DEF TypeOK
        <3> QED
            BY <2>1, <2>2, <3>1, FailKeeps DEF Statuses
    <2>3. CASE /\ request.offset <= n /\ pc' = "read" /\ reply' = reply
               /\ request' = [request EXCEPT !.null = FALSE, !.probed = n]
        <3>1. Held(reads[Key]) /\ request \in ReadRequest
            BY <1>0, <2>1 DEF Serving, Reading, Requested
        <3>2. n \in 0 .. MaxValue
            BY <3>1 DEF Held, Snapshot
        <3>3. /\ request' \in ReadRequest /\ ~request'.null /\ request'.probed = n
              /\ request'.conn = request.conn /\ request'.attr = request.attr
              /\ request'.since = request.since /\ request'.offset = request.offset
            BY <2>3, <3>1, <3>2 DEF ReadRequest
        <3>4. TypeOK'
            BY <1>0, <2>1, <2>3, <3>3 DEF TypeOK
        <3>5. Serving'
            BY <1>0, <2>1, <2>3, <3>1, <3>3 DEF Serving, Reading, Held, Key, CccdBit
        <3>6. (Requested /\ OneBehind /\ Cccds /\ SnapshotsForLiveOnly /\ OneSnapshot /\ NotStale)'
            BY <1>0, <2>1, <2>3, <3>3 DEF Requested, Reading, OneBehind, Cccds, SnapshotsForLiveOnly,
                                          OneSnapshot, NotStale
        <3> QED
            BY <3>4, <3>5, <3>6 DEF IInv
    <2>4. n \in Nat /\ request.offset \in Nat
        BY <1>0, <2>1, KeyOfRequest DEF Reading, Snapshot, NoSnapshot
    <2> QED
        BY <1>12, <2>2, <2>3, <2>4 DEF AnswerProbe
<1>13. CASE AnswerCopy
    <2>1. /\ UNCHANGED <<linked, event, connections, subscriptions, reads, value, borrowed, told,
                         notifyCalled>>
          /\ pc = "filled" /\ ~request.null
        BY <1>13 DEF AnswerCopy, links, tables
    <2> DEFINE s == reads[Key]
    <2>2. /\ s \in Snapshot /\ request \in ReadRequest
          /\ request.attr[2] = "value" => s.version >= request.since
          /\ request.probed = s.len /\ request.offset <= s.len
        BY <1>0, <2>1 DEF Serving, Reading, Requested, Held
    <2>3. /\ s.len \in Nat /\ s.version \in Nat /\ request.offset \in Nat /\ request.probed \in Nat
          /\ request.since \in Nat /\ request.conn \in Handles /\ request.attr \in Attributes
        BY <2>2 DEF Snapshot, ReadRequest
    <2>4. /\ pc' = "idle" /\ request' = NoRequest
          /\ reply' = [status |-> "ok", conn |-> request.conn, attr |-> request.attr,
                       offset |-> request.offset, len |-> Min2(s.len - request.offset, Room),
                       version |-> s.version, probed |-> request.probed,
                       since |-> request.since]
        BY <1>13, <2>2, <2>3 DEF AnswerCopy, Respond
    <2>5. Min2(s.len - request.offset, Room) \in Nat
        BY <2>2, <2>3 DEF Min2
    <2>6. TypeOK'
        BY <1>0, <2>1, <2>3, <2>4, <2>5 DEF TypeOK
    <2>7. OneSnapshot' /\ NotStale'
        BY <2>2, <2>4 DEF OneSnapshot, NotStale
    <2>8. (Requested /\ OneBehind /\ Cccds /\ Serving /\ SnapshotsForLiveOnly)'
        BY <1>0, <2>1, <2>4 DEF Requested, Reading, OneBehind, Cccds, Serving, SnapshotsForLiveOnly
    <2> QED
        BY <2>6, <2>7, <2>8 DEF IInv
<1>14. ASSUME NEW h \in Handles, NEW c \in Chars, NEW payload \in Payloads, WriteCccd(h, c, payload)
       PROVE  IInv'
    <2>1. /\ UNCHANGED <<linked, event, connections, value, pc, request, borrowed, reply, notifyCalled>>
          /\ pc = "idle"
        BY <1>14 DEF WriteCccd, links
    <2>2. CASE /\ h \in connections
               /\ subscriptions' = IF payload = "enable" THEN subscriptions \cup {<<h, c>>}
                                                         ELSE subscriptions \ {<<h, c>>}
               /\ reads' = [reads EXCEPT ![<<h, <<c, "cccd">>>>] = NoSnapshot]
               /\ told' = [told EXCEPT ![<<h, c>>] = (payload = "enable")]
        <3>1. TypeOK'
            <4>1. subscriptions' \subseteq Handles \X Chars
                BY <1>0, <2>2 DEF TypeOK
            <4>2. reads' \in [Handles \X Attributes -> Snapshot \cup {NoSnapshot}]
                BY <1>0, <2>2 DEF TypeOK
            <4>3. told' \in [Handles \X Chars -> BOOLEAN]
                <5>1. (payload = "enable") \in BOOLEAN /\ told \in [Handles \X Chars -> BOOLEAN]
                    BY <1>0 DEF TypeOK
                <5> QED
                    BY <2>2, <5>1
            <4>4. /\ (linked \subseteq Handles /\ connections \subseteq Handles)'
                  /\ event' \in {NoEvent} \cup {"up", "down"} \X Handles
                  /\ value' \in [Chars -> [version : Nat, len : Lens]]
                BY <1>0, <2>1 DEF TypeOK
            <4> QED
                BY <1>0, <2>1, <4>1, <4>2, <4>3, <4>4 DEF TypeOK
        <3>2. Cccds'
            BY <1>0, <2>1, <2>2 DEF TypeOK, Cccds
        <3>3. SnapshotsForLiveOnly'
            BY <1>0, <2>1, <2>2 DEF TypeOK, SnapshotsForLiveOnly
        <3>4. (Requested /\ OneBehind /\ Serving /\ OneSnapshot /\ NotStale)'
            BY <1>0, <2>1 DEF Requested, Reading, OneBehind, Serving, OneSnapshot, NotStale
        <3> QED
            BY <3>1, <3>2, <3>3, <3>4 DEF IInv
    <2>3. CASE UNCHANGED <<subscriptions, reads, told>>
        BY <1>0, <2>1, <2>3 DEF TypeOK, IInv, Requested, Reading, OneBehind, Cccds, Serving,
              SnapshotsForLiveOnly, OneSnapshot, NotStale
    <2> QED
        BY <1>14, <2>2, <2>3 DEF WriteCccd, Drop
<1>15. ASSUME NEW h \in Handles, NEW c \in Chars, CallOnWrite(h, c) PROVE IInv'
    <2>1. /\ UNCHANGED <<linked, event, connections, subscriptions, reads, value, told>>
          /\ pc' = "on_write" /\ borrowed' = TRUE /\ reply' = NoReply /\ notifyCalled' = "no"
          /\ request' = [op |-> "write", conn |-> h, attr |-> <<c, "value">>]
        BY <1>15 DEF CallOnWrite, links, tables
    <2>2. request' \in WriteRequest
        BY <2>1 DEF WriteRequest, Attributes
    <2>3. TypeOK'
        BY <1>0, <2>1, <2>2 DEF TypeOK
    <2>4. Rest'
        BY <1>0, <2>1, <2>2 DEF Requested, Reading, OneBehind, Cccds, Serving, SnapshotsForLiveOnly,
                                OneSnapshot, NotStale, NoReply
    <2> QED
        BY <2>3, <2>4 DEF IInv
<1>16. CASE OnWriteReturns
    <2>1. /\ UNCHANGED <<linked, event, connections, subscriptions, value, reply, told, notifyCalled>>
          /\ pc = "on_write" /\ pc' = "idle" /\ request' = NoRequest /\ borrowed' = FALSE
          /\ reads' = [reads EXCEPT ![Key] = NoSnapshot] \/ reads' = reads
        BY <1>16 DEF OnWriteReturns, Drop, links
    <2>2. reads' \in [Handles \X Attributes -> Snapshot \cup {NoSnapshot}]
        BY <1>0, <2>1 DEF TypeOK
    <2>3. TypeOK'
        BY <1>0, <2>1, <2>2 DEF TypeOK
    <2>4. SnapshotsForLiveOnly'
        BY <1>0, <2>1 DEF TypeOK, SnapshotsForLiveOnly
    <2>5. (Requested /\ OneBehind /\ Cccds /\ Serving /\ OneSnapshot /\ NotStale)'
        BY <1>0, <2>1 DEF Requested, Reading, OneBehind, Cccds, Serving, OneSnapshot, NotStale
    <2> QED
        BY <2>3, <2>4, <2>5 DEF IInv
<1>17. CASE UNCHANGED vars
    <2>1. TypeOK'
        BY <1>0, <1>17 DEF vars, links, tables, TypeOK
    <2>2. Rest'
        BY <1>0, <1>17 DEF vars, links, tables, Requested, Reading, OneBehind, Cccds, Serving, Held, Key,
                           CccdBit, SnapshotsForLiveOnly, OneSnapshot, NotStale
    <2> QED
        BY <2>1, <2>2 DEF IInv
<1> QED
    BY <1>1, <1>2, <1>3, <1>4, <1>5, <1>6, <1>7, <1>8, <1>9, <1>10, <1>11, <1>12, <1>13, <1>14, <1>15,
       <1>16, <1>17 DEF Next

\* The invariant holds in every reachable state.
LEMMA AlwaysIInv == Spec => []IInv
BY InitIInv, NextIInv, PTL DEF Spec

-----------------------------------------------------------------------------
(* Theorems *)

\* Tables, request, response and handlers keep their types.
THEOREM AttTypeCorrect == Spec => []TypeOK
<1>1. IInv => TypeOK
    BY DEF IInv
<1> QED
    BY <1>1, AlwaysIInv, PTL

\* The length a response announced and the bytes it has are of one snapshot.
THEOREM OneSnapshotHolds == Spec => []OneSnapshot
<1>1. IInv => OneSnapshot
    BY DEF IInv
<1> QED
    BY <1>1, AlwaysIInv, PTL

\* A response is no older than its request.
THEOREM NotStaleHolds == Spec => []NotStale
<1>1. IInv => NotStale
    BY DEF IInv
<1> QED
    BY <1>1, AlwaysIInv, PTL

\* read() keeps no snapshot of a connection that is gone.
THEOREM SnapshotsForLiveOnlyHolds == Spec => []SnapshotsForLiveOnly
<1>1. IInv => SnapshotsForLiveOnly
    BY DEF IInv
<1> QED
    BY <1>1, AlwaysIInv, PTL

\* The CCCD a peer reads is the last SubscriptionChanged of its connection.
THEOREM PeerAndApplicationAgreeHolds == Spec => PeerAndApplicationAgree
<1> DEFINE Agree ==
       reply' # reply /\ reply'.status = "ok" /\ reply'.attr[2] = "cccd"
         => (reply'.version = 1) = told[<<reply'.conn, reply'.attr[1]>>]
<1>1. IInv /\ [Next]_vars => [Agree]_vars
    <2> SUFFICES ASSUME IInv, Next, reply' # reply, reply'.status = "ok", reply'.attr[2] = "cccd"
                 PROVE  (reply'.version = 1) = told[<<reply'.conn, reply'.attr[1]>>]
        OBVIOUS
    <2>1. AnswerCopy
        <3>1. ASSUME NEW h \in Handles, LinkUp(h) \/ LinkDown(h) PROVE FALSE
            BY <3>1 DEF LinkUp, LinkDown
        <3>2. ASSUME DrainConnected \/ DrainDisconnected \/ OnWriteReturns PROVE FALSE
            BY <3>2 DEF DrainConnected, DrainDisconnected, OnWriteReturns
        <3>3. ASSUME NEW c \in Chars, Change(c) PROVE FALSE
            BY <3>3 DEF Change
        <3>4. ASSUME NEW h \in Handles, NEW attr \in Attributes, NEW offset \in 0 .. MaxValue + 1,
                     Read(h, attr, offset)
              PROVE  FALSE
            BY <3>4 DEF Read, NoReply
        <3>5. ASSUME NEW h \in Handles, NEW c \in Chars, NEW payload, CallOnWrite(h, c) \/ WriteCccd(h, c, payload)
              PROVE  FALSE
            BY <3>5 DEF CallOnWrite, WriteCccd, NoReply
        <3>6. ASSUME NEW status \in Statuses \ {"ok"}, Fail(status) PROVE FALSE
            BY <3>6 DEF Fail, Respond
        <3>7. ASSUME CallbackNotify \/ ReadRefused PROVE FALSE
            BY <3>6, <3>7 DEF CallbackNotify, ReadRefused, Statuses
        <3>8. ASSUME ReadCccd \/ CallOnRead \/ KeepSnapshot PROVE FALSE
            BY <3>8 DEF ReadCccd, CallOnRead, KeepSnapshot
        <3>9. ASSUME OnReadReturns \/ AnswerProbe PROVE FALSE
            BY <3>6, <3>9 DEF OnReadReturns, AnswerProbe, Statuses
        <3> QED
            BY <3>1, <3>2, <3>3, <3>4, <3>5, <3>7, <3>8, <3>9 DEF Next
    <2>2. /\ reply'.conn = request.conn /\ reply'.attr = request.attr
          /\ reply'.version = reads[Key].version
        BY <2>1 DEF AnswerCopy, Fail, Respond
    <2>3. Held(reads[Key]) /\ request.conn \in Handles /\ request.attr[1] \in Chars
        BY <2>1, KeyOfRequest DEF AnswerCopy, IInv, Serving, Reading
    <2>4. reply'.version = CccdBit(request.conn, request.attr[1]) /\ request.conn \in connections
        BY <2>2, <2>3 DEF Held
    <2>5. told[<<request.conn, request.attr[1]>>] \in BOOLEAN
        BY <2>3 DEF IInv, TypeOK
    <2> QED
        BY <2>2, <2>3, <2>4, <2>5 DEF IInv, Cccds, CccdBit
<1> QED
    BY <1>1, AlwaysIInv, PTL DEF Spec, PeerAndApplicationAgree
=============================================================================
