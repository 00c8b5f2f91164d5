------------------------ MODULE AndroidSessionProofs ------------------------
(***************************************************************************)
(* Theorems about AndroidSession for any number of owners and dongles.     *)
(***************************************************************************)
EXTENDS AndroidSession, FiniteSetTheorems, TLAPS

\* The mutex is held by whoever collects; a connection is open from before the
\* server is constructed until after it was stopped; a server that exists is
\* one that runGattServer() can still stop.
Session ==
    /\ \A o \in Owners : phase[o] = "collecting" \/ InSession(o) => gattSession = o
    /\ \A o \in Owners : o \in connection <=> InSession(o)
    /\ \A o \in server : o \in native /\ phase[o] \in {"constructed", "running", "cleanup"}

-----------------------------------------------------------------------------
\* Before anything was started.
LEMMA InitHolds == Init => TypeOK /\ Session /\ NoOrphanRequest
<1> SUFFICES ASSUME Init PROVE TypeOK /\ Session /\ NoOrphanRequest
    OBVIOUS
<1> USE SessionAssumption DEF Init
<1>1. TypeOK
    <2>1. /\ phase \in [Owners -> {"idle", "queued", "collecting", "constructing", "constructed",
                                   "running", "cleanup", "closing"}]
          /\ latest \in [Owners -> {"none", "on", "off"}] /\ dialogs \in [Devices -> Nat]
        OBVIOUS
    <2>2. enabled \in BOOLEAN /\ permitted \in BOOLEAN
        OBVIOUS
    <2>3. device \in 0 .. MaxDevices /\ plugged \in 0 .. MaxDevices /\ permissionDevice \in 0 .. MaxDevices
        OBVIOUS
    <2>4. broadcasts \in Seq({"permission", "attached", "detached"})
        OBVIOUS
    <2>5. /\ started \subseteq Owners /\ cancelled \subseteq Owners /\ fresh \subseteq Owners
          /\ connection \subseteq Owners /\ native \subseteq Owners /\ server \subseteq Owners
          /\ gattSession \in Owners \cup {Nobody}
        OBVIOUS
    <2> QED
        BY <2>1, <2>2, <2>3, <2>4, <2>5, Zenon DEF TypeOK
<1>2. Session
    BY DEF Session, InSession
<1>3. NoOrphanRequest
    BY DEF NoOrphanRequest
<1> QED
    BY <1>1, <1>2, <1>3

\* One owner's phase changes, the others stay where they are.
LEMMA Moved ==
    ASSUME TypeOK, NEW o \in Owners, NEW from, NEW to, Move(o, from, to)
    PROVE  /\ phase[o] = from /\ phase'[o] = to
           /\ \A p \in Owners : p # o => phase'[p] = phase[p] /\ InSession(p)' = InSession(p)
    BY DEF Move, TypeOK, InSession

\* What a coroutine asks for and does in Collect().
LEMMA CollectEffect ==
    ASSUME TypeOK, NoOrphanRequest, NEW o \in Owners, Collect(o)
    PROVE  /\ permissionDevice' \in 0 .. MaxDevices /\ dialogs' \in [Devices -> Nat]
           /\ broadcasts' = broadcasts /\ NoOrphanRequest'
<1>1. /\ device \in 0 .. MaxDevices /\ permissionDevice \in 0 .. MaxDevices
      /\ dialogs \in [Devices -> Nat] /\ MaxDevices \in Nat
    BY SessionAssumption DEF TypeOK
<1>2. \/ UNCHANGED askVars
      \/ AskPermission
      \/ permissionDevice' = 0 /\ UNCHANGED <<dialogs, broadcasts>>
    BY DEF Collect, NoDevice, OpenFails, OpenDevice
<1>3. CASE UNCHANGED askVars
    BY <1>1, <1>3 DEF askVars, NoOrphanRequest
<1>4. CASE permissionDevice' = 0 /\ UNCHANGED <<dialogs, broadcasts>>
    BY <1>1, <1>4 DEF NoOrphanRequest
<1>5. CASE AskPermission
    <2>1. CASE permissionDevice # 0
        BY <1>1, <1>5, <2>1 DEF AskPermission, NoOrphanRequest
    <2>2. CASE permissionDevice = 0
        <3>1. /\ device \in Devices /\ permissionDevice' = device /\ UNCHANGED broadcasts
              /\ dialogs' = [dialogs EXCEPT ![device] = @ + 1]
            BY <1>1, <1>5, <2>2 DEF AskPermission, Devices
        <3>2. dialogs' \in [Devices -> Nat] /\ dialogs'[device] > 0
            BY <1>1, <3>1
        <3> QED
            BY <1>1, <3>1, <3>2 DEF NoOrphanRequest
    <2> QED
        BY <2>1, <2>2
<1> QED
    BY <1>2, <1>3, <1>4, <1>5

\* Every step keeps the types.
LEMMA TypeStep == TypeOK /\ NoOrphanRequest /\ [Next]_vars => TypeOK'
<1> SUFFICES ASSUME TypeOK, NoOrphanRequest, [Next]_vars PROVE TypeOK'
    OBVIOUS
<1> USE SessionAssumption DEF TypeOK, jobVars, flowVars, nativeVars, usbVars, askVars
<1>1. ASSUME NEW o \in Owners, Launch(o) \/ AcquireSession(o) \/ EndJob(o) \/ Emit(o) PROVE TypeOK'
    BY <1>1 DEF Launch, AcquireSession, EndJob, Emit, Move, Unlock
<1>2. ASSUME NEW o \in Owners, Collect(o) PROVE TypeOK'
    <2>1. /\ permissionDevice' \in 0 .. MaxDevices /\ dialogs' \in [Devices -> Nat]
          /\ broadcasts' = broadcasts
        BY <1>2, CollectEffect
    <2>2. connection' \subseteq Owners /\ native' = native /\ server' = server
        BY <1>2 DEF Collect, NoDevice, AskPermission, OpenFails, OpenDevice
    <2>3. /\ latest' \in [Owners -> {"none", "on", "off"}]
          /\ phase' \in [Owners -> {"idle", "queued", "collecting", "constructing", "constructed",
                                    "running", "cleanup", "closing"}]
        BY <1>2 DEF Collect, Move
    <2> QED
        BY <1>2, <2>1, <2>2, <2>3 DEF Collect
<1>3. ASSUME NEW o \in Owners,
             Construct(o) \/ EnterRun(o) \/ LeaveRun(o) \/ StopNative(o) \/ ServerEnds(o)
      PROVE  TypeOK'
    BY <1>3 DEF Construct, EnterRun, LeaveRun, StopNative, ServerEnds, Move, Assign
<1>4. ASSUME NEW o \in Owners, Close(o) PROVE TypeOK'
    BY <1>4 DEF Close, Move
<1>5. ASSUME NEW o \in Owners, Up(o) \/ Down(o) PROVE TypeOK'
    BY <1>5 DEF Up, Down
<1>6. ASSUME PressStart \/ PressStop PROVE TypeOK'
    BY <1>6 DEF PressStart, PressStop, Switch, Changed
<1>7. ASSUME Attach \/ Detach PROVE TypeOK'
    <2>1. \E what \in {"attached", "detached"} : broadcasts' = Append(broadcasts, what)
        BY <1>7 DEF Attach, Detach, Broadcast
    <2>2. broadcasts' \in Seq({"permission", "attached", "detached"})
        BY <2>1
    <2>3. device' \in 0 .. MaxDevices /\ plugged' \in 0 .. MaxDevices
        BY <1>7 DEF Attach, Detach
    <2>4. permitted' \in BOOLEAN
        BY <1>7, Zenon DEF Attach, Detach
    <2>5. UNCHANGED <<phase, permissionDevice, dialogs, started, cancelled, gattSession, fresh, latest,
                      enabled, connection, native, server>>
        BY <1>7 DEF Attach, Detach
    <2> QED
        BY <2>2, <2>3, <2>4, <2>5
<1>8. ASSUME OnReceive PROVE TypeOK'
    <2>1. broadcasts' \in Seq({"permission", "attached", "detached"})
        BY <1>8 DEF OnReceive
    <2>2. OnPermission \/ OnUsbChange(Head(broadcasts))
        BY <1>8 DEF OnReceive
    <2>3. fresh' \subseteq Owners
        BY <2>2 DEF OnPermission, OnUsbChange, Changed
    <2>4. enabled' \in BOOLEAN
        <3>1. \/ enabled' = enabled
              \/ enabled' = (enabled /\ device = permissionDevice /\ permitted)
            BY <2>2, Zenon DEF OnPermission, OnUsbChange
        <3> QED
            BY <3>1
    <2>5. permissionDevice' \in 0 .. MaxDevices
        BY <2>2 DEF OnPermission, OnUsbChange, Settled
    <2> QED
        BY <1>8, <2>1, <2>3, <2>4, <2>5 DEF OnReceive
<1>9. ASSUME NEW d \in Devices, NEW granted \in BOOLEAN, Answer(d, granted) PROVE TypeOK'
    <2>1. broadcasts' \in Seq({"permission", "attached", "detached"})
        BY <1>9 DEF Answer, Broadcast
    <2>2. dialogs[d] \in Nat /\ dialogs[d] > 0 /\ dialogs' = [dialogs EXCEPT ![d] = dialogs[d] - 1]
        BY <1>9 DEF Answer, OnScreen
    <2>3. dialogs' \in [Devices -> Nat]
        BY <2>2
    <2>4. permitted' \in BOOLEAN
        BY <1>9 DEF Answer
    <2> QED
        BY <1>9, <2>1, <2>3, <2>4 DEF Answer
<1>10. CASE UNCHANGED vars
    BY <1>10 DEF vars
<1> QED
    BY <1>1, <1>2, <1>3, <1>4, <1>5, <1>6, <1>7, <1>8, <1>9, <1>10 DEF Next, Coroutine

\* Every step keeps the mutex, the connection and the server in step.
LEMMA SessionStep == TypeOK /\ Session /\ [Next]_vars => Session'
<1> SUFFICES ASSUME TypeOK, Session, [Next]_vars PROVE Session'
    OBVIOUS
<1>u. ASSUME UNCHANGED <<phase, gattSession, nativeVars>> PROVE Session'
    BY <1>u DEF Session, InSession, nativeVars
<1>1. ASSUME NEW o \in Owners, Launch(o) PROVE Session'
    <2>1. UNCHANGED <<gattSession, connection, native, server>>
        BY <1>1 DEF Launch, jobVars, nativeVars
    <2>2. /\ phase[o] = "idle" /\ phase'[o] = "queued"
          /\ \A p \in Owners : p # o => phase'[p] = phase[p] /\ InSession(p)' = InSession(p)
        BY <1>1, Moved DEF Launch
    <2> QED
        BY <2>1, <2>2 DEF Session, InSession, TypeOK
<1>2. ASSUME NEW o \in Owners, AcquireSession(o) PROVE Session'
    <2>1. gattSession = Nobody /\ gattSession' = o /\ UNCHANGED <<connection, native, server>>
        BY <1>2 DEF AcquireSession, SessionFree, nativeVars
    <2>2. /\ phase[o] = "queued" /\ phase'[o] = "collecting"
          /\ \A p \in Owners : p # o => phase'[p] = phase[p] /\ InSession(p)' = InSession(p)
        BY <1>2, Moved DEF AcquireSession
    <2>3. \A p \in Owners : phase[p] # "collecting" /\ ~InSession(p)
        BY <2>1, SessionAssumption DEF Session
    <2> QED
        BY <2>1, <2>2, <2>3 DEF Session, InSession, TypeOK
<1>3. ASSUME NEW o \in Owners, EndJob(o) PROVE Session'
    <2>1. UNCHANGED <<connection, native, server>>
        BY <1>3 DEF EndJob, nativeVars
    <2>2. \/ Move(o, "queued", "idle") /\ UNCHANGED gattSession
          \/ Move(o, "collecting", "idle") /\ gattSession' = Nobody
        BY <1>3 DEF EndJob, Unlock
    <2>3. /\ phase[o] \in {"queued", "collecting"} /\ phase'[o] = "idle"
          /\ \A p \in Owners : p # o => phase'[p] = phase[p] /\ InSession(p)' = InSession(p)
        BY <2>2, Moved
    <2>4. CASE gattSession' = gattSession
        BY <2>1, <2>3, <2>4 DEF Session, InSession, TypeOK
    <2>5. CASE phase[o] = "collecting"
        <3>1. \A p \in Owners : p # o => phase[p] # "collecting" /\ ~InSession(p)
            BY <2>5 DEF Session
        <3> QED
            BY <2>1, <2>3, <3>1 DEF Session, InSession, TypeOK
    <2> QED
        BY <2>2, <2>4, <2>5 DEF Move
<1>4. ASSUME NEW o \in Owners, Collect(o) PROVE Session'
    <2>1. UNCHANGED <<gattSession, native, server>>
        BY <1>4 DEF Collect, NoDevice, AskPermission, OpenFails, OpenDevice, jobVars, nativeVars
    <2>2. CASE UNCHANGED <<phase, connection>>
        BY <1>u, <2>1, <2>2 DEF nativeVars
    <2>3. CASE connection' = connection \cup {o} /\ Move(o, "collecting", "constructing")
        <3>1. /\ phase[o] = "collecting" /\ phase'[o] = "constructing"
              /\ \A p \in Owners : p # o => phase'[p] = phase[p] /\ InSession(p)' = InSession(p)
            BY <2>3, Moved
        <3> QED
            BY <2>1, <2>3, <3>1 DEF Session, InSession, TypeOK
    <2> QED
        BY <1>4, <2>2, <2>3 DEF Collect, NoDevice, AskPermission, OpenFails, OpenDevice, nativeVars
<1>5. ASSUME NEW o \in Owners, Construct(o) PROVE Session'
    <2>1. UNCHANGED <<gattSession, connection>>
        BY <1>5 DEF Construct, jobVars
    <2>2. /\ phase[o] = "constructing"
          /\ \/ phase'[o] = "constructed" /\ native' = native \cup {o} /\ server' = server \cup {o}
             \/ phase'[o] = "cleanup" /\ UNCHANGED <<native, server>>
          /\ \A p \in Owners : p # o => phase'[p] = phase[p] /\ InSession(p)' = InSession(p)
        BY <1>5, Moved DEF Construct, Assign
    <2> QED
        BY <2>1, <2>2 DEF Session, InSession, TypeOK
<1>6. ASSUME NEW o \in Owners, EnterRun(o) PROVE Session'
    <2>1. UNCHANGED <<gattSession, connection, native, server>>
        BY <1>6 DEF EnterRun, jobVars, nativeVars
    <2>2. /\ phase[o] = "constructed" /\ phase'[o] \in {"cleanup", "running"}
          /\ \A p \in Owners : p # o => phase'[p] = phase[p] /\ InSession(p)' = InSession(p)
        BY <1>6, Moved DEF EnterRun
    <2> QED
        BY <2>1, <2>2 DEF Session, InSession, TypeOK
<1>7. ASSUME NEW o \in Owners, LeaveRun(o) PROVE Session'
    <2>1. UNCHANGED <<gattSession, connection, native>> /\ server' = server \ {o}
        BY <1>7 DEF LeaveRun, jobVars
    <2>2. /\ phase[o] = "running" /\ phase'[o] = "cleanup"
          /\ \A p \in Owners : p # o => phase'[p] = phase[p] /\ InSession(p)' = InSession(p)
        BY <1>7, Moved DEF LeaveRun
    <2> QED
        BY <2>1, <2>2 DEF Session, InSession, TypeOK
<1>8. ASSUME NEW o \in Owners, StopNative(o) PROVE Session'
    <2>1. /\ UNCHANGED <<gattSession, connection>> /\ native' = native \ {o}
          /\ server' = IF o \in native THEN server \ {o} ELSE server
        BY <1>8 DEF StopNative, jobVars
    <2>2. /\ phase[o] = "cleanup" /\ phase'[o] = "closing"
          /\ \A p \in Owners : p # o => phase'[p] = phase[p] /\ InSession(p)' = InSession(p)
        BY <1>8, Moved DEF StopNative
    <2>3. server' = server \ {o}
        BY <2>1 DEF Session
    <2> QED
        BY <2>1, <2>2, <2>3 DEF Session, InSession, TypeOK
<1>9. ASSUME NEW o \in Owners, Close(o) PROVE Session'
    <2>1. UNCHANGED <<gattSession, native, server>> /\ connection' = connection \ {o}
        BY <1>9 DEF Close, jobVars
    <2>2. /\ phase[o] = "closing" /\ phase'[o] = "collecting"
          /\ \A p \in Owners : p # o => phase'[p] = phase[p] /\ InSession(p)' = InSession(p)
        BY <1>9, Moved DEF Close
    <2> QED
        BY <2>1, <2>2 DEF Session, InSession, TypeOK
<1>10. ASSUME NEW o \in Owners, ServerEnds(o) PROVE Session'
    BY <1>10 DEF ServerEnds, Session, InSession, jobVars
<1>11. ASSUME NEW o \in Owners, Emit(o) \/ Up(o) \/ Down(o) PROVE Session'
    BY <1>11, <1>u DEF Emit, Up, Down, jobVars
<1>12. ASSUME PressStart \/ PressStop \/ Attach \/ Detach \/ OnReceive PROVE Session'
    BY <1>12, <1>u DEF PressStart, PressStop, Switch, Attach, Detach, OnReceive, jobVars
<1>13. ASSUME NEW d \in Devices, NEW granted \in BOOLEAN, Answer(d, granted) PROVE Session'
    BY <1>13, <1>u DEF Answer, jobVars
<1>14. CASE UNCHANGED vars
    BY <1>14, <1>u DEF vars, jobVars
<1> QED
    BY <1>1, <1>2, <1>3, <1>4, <1>5, <1>6, <1>7, <1>8, <1>9, <1>10, <1>11, <1>12, <1>13, <1>14
       DEF Next, Coroutine

\* A request is settled by an answer or a removal, and each leaves a broadcast
\* behind that the receiver has yet to see.
LEMMA RequestStep == TypeOK /\ NoOrphanRequest /\ [Next]_vars => NoOrphanRequest'
<1> SUFFICES ASSUME TypeOK, NoOrphanRequest, [Next]_vars PROVE NoOrphanRequest'
    OBVIOUS
<1>t. broadcasts \in Seq({"permission", "attached", "detached"}) /\ dialogs \in [Devices -> Nat]
    BY DEF TypeOK
<1>u. ASSUME UNCHANGED askVars PROVE NoOrphanRequest'
    BY <1>u DEF askVars, NoOrphanRequest
<1>1. ASSUME NEW o \in Owners, Collect(o) PROVE NoOrphanRequest'
    BY <1>1, CollectEffect
<1>2. ASSUME NEW o \in Owners, Close(o) PROVE NoOrphanRequest'
    BY <1>2 DEF Close, NoOrphanRequest
\* What is appended is behind what was there.
<1>3. ASSUME NEW what \in {"permission", "attached", "detached"}, Broadcast(what)
      PROVE  /\ \A i \in DOMAIN broadcasts : i \in DOMAIN broadcasts' /\ broadcasts'[i] = broadcasts[i]
             /\ \E i \in DOMAIN broadcasts' : broadcasts'[i] = what
    BY <1>t, <1>3 DEF Broadcast
<1>4. ASSUME Attach \/ Detach PROVE NoOrphanRequest'
    <2>1. UNCHANGED <<permissionDevice, dialogs>> /\ (Broadcast("attached") \/ Broadcast("detached"))
        BY <1>4 DEF Attach, Detach
    <2>2. \A i \in DOMAIN broadcasts : i \in DOMAIN broadcasts' /\ broadcasts'[i] = broadcasts[i]
        BY <1>3, <2>1
    <2> QED
        BY <2>1, <2>2 DEF NoOrphanRequest
<1>5. ASSUME NEW d \in Devices, NEW granted \in BOOLEAN, Answer(d, granted) PROVE NoOrphanRequest'
    <2>1. \E i \in DOMAIN broadcasts' : broadcasts'[i] = "permission"
        BY <1>3, <1>5 DEF Answer
    <2> QED
        BY <2>1 DEF NoOrphanRequest
<1>6. ASSUME OnReceive PROVE NoOrphanRequest'
    <2>1. CASE Head(broadcasts) # "attached"
        <3>1. Head(broadcasts) \in {"permission", "detached"}
            BY <1>t, <1>6, <2>1 DEF OnReceive
        <3>2. permissionDevice' = 0
            BY <1>6, <3>1 DEF OnReceive, OnPermission, OnUsbChange, Settled
        <3> QED
            BY <3>2 DEF NoOrphanRequest
    <2>2. CASE Head(broadcasts) = "attached"
        <3>1. /\ broadcasts # <<>> /\ broadcasts' = Tail(broadcasts)
              /\ UNCHANGED <<permissionDevice, dialogs>>
            BY <1>6, <2>2 DEF OnReceive, OnUsbChange
        <3>2. \A i \in DOMAIN broadcasts : broadcasts[i] # "attached" =>
                 i - 1 \in DOMAIN broadcasts' /\ broadcasts'[i - 1] = broadcasts[i]
            BY <1>t, <2>2, <3>1
        <3> QED
            BY <3>1, <3>2 DEF NoOrphanRequest
    <2> QED
        BY <2>1, <2>2
<1>7. ASSUME NEW o \in Owners,
             \/ Launch(o) \/ AcquireSession(o) \/ EndJob(o) \/ Emit(o) \/ Construct(o) \/ EnterRun(o)
             \/ LeaveRun(o) \/ StopNative(o) \/ Up(o) \/ Down(o) \/ ServerEnds(o)
      PROVE  NoOrphanRequest'
    BY <1>7, <1>u DEF Launch, AcquireSession, EndJob, Emit, Construct, EnterRun, LeaveRun, StopNative,
         Up, Down, ServerEnds
<1>8. ASSUME PressStart \/ PressStop PROVE NoOrphanRequest'
    BY <1>8, <1>u DEF PressStart, PressStop, Switch
<1>9. CASE UNCHANGED vars
    BY <1>9, <1>u DEF vars
<1> QED
    BY <1>1, <1>2, <1>4, <1>5, <1>6, <1>7, <1>8, <1>9 DEF Next, Coroutine

IInv == TypeOK /\ Session /\ NoOrphanRequest

\* The three together are inductive.
LEMMA IInvHolds == (Init => IInv) /\ (IInv /\ [Next]_vars => IInv')
    BY InitHolds, TypeStep, SessionStep, RequestStep DEF IInv

-----------------------------------------------------------------------------
\* Only the owner that holds the mutex has a connection or a server.
LEMMA AtMostOne == TypeOK /\ Session => OneSession
<1> SUFFICES ASSUME TypeOK, Session PROVE OneSession
    OBVIOUS
<1>1. server \cup connection \subseteq {gattSession}
    BY DEF TypeOK, Session, InSession
<1>2. IsFiniteSet({gattSession}) /\ Cardinality({gattSession}) = 1
    BY FS_Singleton
<1>3. Cardinality(server \cup connection) <= Cardinality({gattSession})
    BY <1>1, <1>2, FS_Subset
<1> QED
    BY <1>2, <1>3 DEF OneSession

\* Owners that overlap never have two servers or two open connections.
THEOREM OneSessionHolds == Spec => []OneSession
<1>1. IInv => OneSession
    BY AtMostOne DEF IInv
<1> QED
    BY <1>1, IInvHolds, PTL DEF Spec

\* The descriptor stays open as long as the native worker uses it.
THEOREM ConnectionOutlivesServerHolds == Spec => []ConnectionOutlivesServer
<1>1. IInv => ConnectionOutlivesServer
    BY DEF IInv, TypeOK, Session, InSession, ConnectionOutlivesServer
<1> QED
    BY <1>1, IInvHolds, PTL DEF Spec

\* A pending permission always has an answer to come.
THEOREM NoOrphanRequestHolds == Spec => []NoOrphanRequest
<1>1. IInv => NoOrphanRequest
    BY DEF IInv
<1> QED
    BY <1>1, IInvHolds, PTL DEF Spec
=============================================================================
