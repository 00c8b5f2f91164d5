------------------------- MODULE NativeSessionProofs -------------------------
(***************************************************************************)
(* Proofs about NativeServer and NativeSession, for any callers,           *)
(* connections and number of events.  First the object alone: stop() is a  *)
(* barrier.  The argument follows the JoinHandle: whoever took it holds the*)
(* lock until the worker has exited, so a caller that finds it gone under a*)
(* free lock finds the worker gone too.  Then the session: it implements   *)
(* that object, run() never reports a success that was none, and the loop's*)
(* table of subscribers is right whenever it has read everything.          *)
(***************************************************************************)
EXTENDS NativeSession, TLAPS, SequenceTheorems

-----------------------------------------------------------------------------
(* The inductive invariant                                                 *)

\* serve() has ended before the descriptor is closed, and that before anything
\* is sent.
Closed ==
    /\ worker \in {"leaving", "released", "sent", "exited"} => served # "none"
    /\ worker \in {"released", "sent", "exited"} => ~descriptor

\* The lock is held by the one caller that joins, who took the handle.
OneJoiner ==
    /\ \A c \in Callers : caller[c] = "joining" => mutex = c
    /\ mutex # Nobody => ~handle

\* A handle that is gone was joined, unless its taker still has the lock.
TakenMeansJoined == ~handle /\ mutex = Nobody => worker = "exited"

IInv == TypeOK /\ Closed /\ OneJoiner /\ TakenMeansJoined /\ Barrier

-----------------------------------------------------------------------------
\* The invariant holds in the initial state.
LEMMA InitIInv == Init => IInv
<1> SUFFICES ASSUME Init PROVE IInv
    OBVIOUS
<1> USE DEF Init
<1>1. TypeOK
    BY DEF TypeOK
<1>2. Closed /\ OneJoiner /\ TakenMeansJoined /\ Barrier
    BY DEF Closed, OneJoiner, TakenMeansJoined, Barrier
<1> QED
    BY <1>1, <1>2 DEF IInv

\* A caller that moves takes nobody else with it.
LEMMA AtMoves ==
    ASSUME TypeOK, NEW c \in Callers, NEW from,
           NEW to \in {"idle", "awaiting", "locking", "joining", "returned", "refused"},
           At(c, from, to)
    PROVE  /\ caller' \in [Callers -> {"idle", "awaiting", "locking", "joining", "returned", "refused"}]
           /\ caller[c] = from /\ caller'[c] = to
           /\ \A d \in Callers \ {c} : caller'[d] = caller[d]
BY DEF At, TypeOK

\* A step of the worker that leaves the callers alone and does not bring a
\* thread back that has exited.
LEMMA WorkerKeeps ==
    ASSUME IInv, TypeOK', Closed', UNCHANGED callVars, worker # "exited"
    PROVE  IInv'
BY DEF IInv, callVars, OneJoiner, TakenMeansJoined, Barrier

\* Every step keeps it.
LEMMA NextIInv == IInv /\ [Next]_vars => IInv'
<1> SUFFICES ASSUME IInv, [Next]_vars PROVE IInv'
    OBVIOUS
<1> USE DEF IInv
<1>1. ASSUME NEW from \in {"entered", "opened", "looping"}, NEW how \in {"ok", "error", "panic"},
             Leave(from, how)
      PROVE  IInv'
    <2>1. TypeOK' /\ Closed' /\ UNCHANGED callVars /\ worker # "exited"
        BY <1>1 DEF Leave, Move, TypeOK, Closed, callVars
    <2> QED
        BY <2>1, WorkerKeeps
<1>2. CASE OpenUsb \/ StartServer \/ Release \/ Complete \/ Exit
    <2>1. UNCHANGED callVars /\ worker # "exited"
        BY <1>2 DEF OpenUsb, StartServer, Release, Complete, Exit, Move, callVars
    <2>2. Message \in {"ok", "error", "closed"} \/ worker \notin {"leaving", "released"}
        BY DEF Message, TypeOK, Closed
    <2>3. /\ worker' \in {"opened", "looping", "released", "sent", "exited"}
          /\ descriptor' \in BOOLEAN /\ channel' \in {"open", "ok", "error", "closed"}
          /\ served' = served /\ Closed'
        <3>1. CASE OpenUsb \/ StartServer
            BY <3>1 DEF OpenUsb, StartServer, Move, TypeOK, Closed
        <3>2. CASE Release
            BY <3>2 DEF Release, Move, TypeOK, Closed
        <3>3. CASE Complete
            BY <3>3, <2>2 DEF Complete, Move, TypeOK, Closed
        <3>4. CASE Exit
            BY <3>4 DEF Exit, Move, TypeOK, Closed
        <3> QED
            BY <1>2, <3>1, <3>2, <3>3, <3>4
    <2>4. TypeOK'
        BY <2>1, <2>3 DEF callVars, TypeOK
    <2> QED
        BY <2>1, <2>3, <2>4, WorkerKeeps
<1>3. ASSUME NEW c \in Callers, Stop(c) PROVE IInv'
    BY <1>3, AtMoves DEF Stop, workerVars, TypeOK, Closed, OneJoiner, TakenMeansJoined, Barrier
<1>4. ASSUME NEW c \in Callers, TakeHandle(c) PROVE IInv'
    <2>1. CASE handle /\ At(c, "locking", "joining") /\ handle' = FALSE /\ KeepLock(c)
        <3>1. \A d \in Callers : caller[d] # "joining"
            BY <1>4, NativeAssumption DEF TakeHandle, OneJoiner
        <3>2. c # Nobody
            BY NativeAssumption
        <3>3. /\ caller' \in [Callers -> {"idle", "awaiting", "locking", "joining", "returned", "refused"}]
              /\ caller'[c] = "joining" /\ \A d \in Callers \ {c} : caller'[d] = caller[d]
            BY <2>1, AtMoves
        <3>4. handle' = FALSE /\ mutex' = c /\ UNCHANGED <<stop, descriptor, worker, served, channel, completion, result>>
            BY <1>4, <2>1 DEF TakeHandle, KeepLock, workerVars
        <3>5. TypeOK'
            BY <3>3, <3>4 DEF TypeOK
        <3>6. Closed' /\ TakenMeansJoined'
            BY <3>2, <3>4 DEF Closed, TakenMeansJoined
        <3>7. OneJoiner'
            BY <3>1, <3>3, <3>4 DEF OneJoiner
        <3>8. Barrier'
            BY <3>3, <3>4 DEF Barrier
        <3> QED
            BY <3>5, <3>6, <3>7, <3>8
    <2>2. CASE ~handle /\ At(c, "locking", "returned") /\ UNCHANGED <<handle, mutex>>
        <3>1. worker = "exited" /\ ~descriptor
            BY <1>4, <2>2 DEF TakeHandle, TakenMeansJoined, Closed
        <3> QED
            BY <1>4, <2>2, <3>1, AtMoves
               DEF TakeHandle, workerVars, TypeOK, Closed, OneJoiner, TakenMeansJoined, Barrier
    <2> QED
        BY <1>4, <2>1, <2>2 DEF TakeHandle
<1>5. ASSUME NEW c \in Callers, JoinReturns(c) PROVE IInv'
    <2>1. mutex = c /\ worker = "exited" /\ ~descriptor
        BY <1>5 DEF JoinReturns, ThreadEnded, At, OneJoiner, Closed
    <2>2. \A d \in Callers \ {c} : caller[d] # "joining"
        BY <2>1 DEF OneJoiner
    <2> QED
        BY <1>5, <2>1, <2>2, AtMoves
           DEF JoinReturns, workerVars, TypeOK, Closed, OneJoiner, TakenMeansJoined, Barrier
<1>6. ASSUME NEW c \in Callers, Run(c) PROVE IInv'
    <2>1. /\ completion' = FALSE
          /\ UNCHANGED <<stop, descriptor, worker, served, channel, handle, mutex, result>>
        BY <1>6 DEF Run, workerVars
    <2>2. PICK to \in {"awaiting", "refused"} : At(c, "idle", to)
        BY <1>6 DEF Run
    <2>3. /\ caller' \in [Callers -> {"idle", "awaiting", "locking", "joining", "returned", "refused"}]
          /\ caller[c] = "idle" /\ caller'[c] = to
          /\ \A d \in Callers \ {c} : caller'[d] = caller[d]
        <3>1. TypeOK /\ to \in {"idle", "awaiting", "locking", "joining", "returned", "refused"}
            OBVIOUS
        <3> HIDE DEF IInv
        <3> QED
            BY <2>2, <3>1, AtMoves
    <2>4. TypeOK'
        <3>1. TypeOK
            OBVIOUS
        <3>2. caller' \in [Callers -> {"idle", "awaiting", "locking", "joining", "returned", "refused"}]
            BY <2>3
        <3> HIDE DEF IInv
        <3> QED
            BY <2>1, <3>1, <3>2 DEF TypeOK
    <2>5. Closed' /\ TakenMeansJoined'
        BY <2>1 DEF Closed, TakenMeansJoined
    <2>6. OneJoiner'
        BY <2>1, <2>2, <2>3 DEF OneJoiner
    <2>7. Barrier'
        BY <2>1, <2>2, <2>3 DEF Barrier
    <2> QED
        BY <2>4, <2>5, <2>6, <2>7
<1>7. ASSUME NEW c \in Callers, NEW how \in {"ok", "error", "cancelled"}, LeaveRun(c, how) PROVE IInv'
    BY <1>7, AtMoves DEF LeaveRun, workerVars, TypeOK, Closed, OneJoiner, TakenMeansJoined, Barrier
<1>8. CASE UNCHANGED vars
    BY <1>8 DEF vars, workerVars, callVars, TypeOK, Closed, OneJoiner, TakenMeansJoined, Barrier
<1>9. CASE Worker
    BY <1>1, <1>2, <1>9 DEF Worker, NothingToServe, ServeFails, LoopStops
<1>10. CASE LoopFails \/ Panics
    BY <1>1, <1>10 DEF LoopFails, Panics
<1>11. ASSUME NEW c \in Callers, Stop(c) \/ Run(c) \/ RunCancelled(c) \/ Proceed(c) PROVE IInv'
    BY <1>3, <1>4, <1>5, <1>6, <1>7, <1>11 DEF RunCancelled, Proceed, RunCompletes, Outcome
<1> QED
    BY <1>8, <1>9, <1>10, <1>11 DEF Next, Terminated

\* The invariant of the object holds in every reachable state.
LEMMA AlwaysIInv == Spec => []IInv
BY InitIInv, NextIInv, PTL DEF Spec

-----------------------------------------------------------------------------
(* Theorems *)

\* Worker, lock, handle, channel and callers keep their types.
THEOREM NativeTypeCorrect == Spec => []TypeOK
<1>1. IInv => TypeOK
    BY DEF IInv
<1> QED
    BY <1>1, AlwaysIInv, PTL

\* Whoever is back from stop() or run() finds the worker gone and the
\* descriptor closed, however many threads call them at once.
THEOREM BarrierHolds == Spec => []Barrier
<1>1. IInv => Barrier
    BY DEF IInv
<1> QED
    BY <1>1, AlwaysIInv, PTL

-----------------------------------------------------------------------------
(* What a sequence of events says of one connection *)

Touches(e, g) == e.connection = g /\ e.type \in {"SubscriptionChanged", "Disconnected"}
TurnsOn(e, g) == e.connection = g /\ e.type = "SubscriptionChanged" /\ e.enabled

\* The latest of the first n events about the CCCD of g turned it on.
LastOn(s, g, n) ==
    \E i \in 1 .. n : TurnsOn(s[i], g) /\ \A j \in i + 1 .. n : ~Touches(s[j], g)

\* What comes later does not change what the first n events say.
LEMMA LastOnPrefix ==
    ASSUME NEW E, NEW s \in Seq(E), NEW e \in E, NEW g, NEW n \in 0 .. Len(s)
    PROVE  LastOn(Append(s, e), g, n) = LastOn(s, g, n)
<1>1. \A i \in 1 .. n : Append(s, e)[i] = s[i]
    OBVIOUS
<1> QED
    BY <1>1 DEF LastOn

\* One event more.
LEMMA LastOnNext ==
    ASSUME NEW s, NEW g, NEW n \in Nat
    PROVE  LastOn(s, g, n + 1)
             <=> IF Touches(s[n + 1], g) THEN TurnsOn(s[n + 1], g) ELSE LastOn(s, g, n)
<1>1. TurnsOn(s[n + 1], g) => Touches(s[n + 1], g)
    BY DEF TurnsOn, Touches
<1>2. ASSUME LastOn(s, g, n + 1)
      PROVE  IF Touches(s[n + 1], g) THEN TurnsOn(s[n + 1], g) ELSE LastOn(s, g, n)
    <2>1. PICK i \in 1 .. n + 1 :
             TurnsOn(s[i], g) /\ \A j \in i + 1 .. n + 1 : ~Touches(s[j], g)
        BY <1>2 DEF LastOn
    <2>2. CASE i = n + 1
        BY <1>1, <2>1, <2>2
    <2>3. CASE i \in 1 .. n
        BY <2>1, <2>3 DEF LastOn
    <2> QED
        BY <2>2, <2>3
<1>3. ASSUME Touches(s[n + 1], g), TurnsOn(s[n + 1], g) PROVE LastOn(s, g, n + 1)
    <2>1. n + 1 \in 1 .. n + 1 /\ n + 1 + 1 .. n + 1 = {}
        OBVIOUS
    <2> QED
        BY <1>3, <2>1 DEF LastOn
<1>4. ASSUME ~Touches(s[n + 1], g), LastOn(s, g, n) PROVE LastOn(s, g, n + 1)
    <2>1. PICK i \in 1 .. n : TurnsOn(s[i], g) /\ \A j \in i + 1 .. n : ~Touches(s[j], g)
        BY <1>4 DEF LastOn
    <2>2. \A j \in i + 1 .. n + 1 : ~Touches(s[j], g)
        BY <1>4, <2>1
    <2> QED
        BY <2>1, <2>2 DEF LastOn
<1> QED
    BY <1>2, <1>3, <1>4

\* Nothing has been said yet.
LEMMA LastOnNothing == ASSUME NEW s, NEW g PROVE ~LastOn(s, g, 0)
BY DEF LastOn

-----------------------------------------------------------------------------
(* The inductive invariant *)

NoError == \A i \in DOMAIN stream : stream[i].type # "Error"

LoopTypeOK ==
    /\ stream \in Seq(Loop!Channel!Event)
    /\ open \subseteq Connections /\ subscribed \subseteq open \X {TX} /\ over \in BOOLEAN
    /\ pc \in {"head", "receive", "tick", "notify", "shutdown", "drop", "returned"}
    /\ read \in 0 .. Len(stream)
    /\ subscribers \subseteq Connections
    /\ returned \in {"none", "ok", "error"}

\* How far worker and loop are tells what they have returned.
Returns ==
    /\ worker \in {"entered", "opened"} => pc = "head" /\ stream = << >>
    /\ pc = "shutdown" => stop
    /\ pc \in {"head", "receive", "tick", "notify", "shutdown"} => returned = "none"
    /\ worker = "looping" /\ pc = "drop" => returned = "error"
    /\ worker = "looping" /\ pc = "returned" => returned # "none"
    /\ worker \in {"entered", "opened", "looping"} => served = "none"
    /\ worker \in {"entered", "opened", "looping", "leaving", "released"} => channel = "open"
    /\ worker \notin {"entered", "opened", "looping"} /\ pc = "drop" => served = "panic"

\* Success is what it says at every stage it passes through.
Honest ==
    /\ ~over => NoError
    /\ returned = "ok" => stop /\ over /\ NoError /\ pc # "drop"
    /\ served = "ok" => NoError
    /\ channel = "ok" => served = "ok"
    /\ \A c \in Callers : result[c] = "ok" => channel = "ok"

\* The table is what the events read say, and the CCCDs what all of them say.
Followed ==
    \A g \in Connections :
        /\ g \in subscribers <=> LastOn(stream, g, read)
        /\ ~over => (<<g, TX>> \in subscribed <=> LastOn(stream, g, Len(stream)))

SInv == IInv /\ LoopTypeOK /\ Returns /\ Honest /\ Followed

\* The invariant of the session holds in the initial state.
LEMMA InitSInv == SessionInit => SInv
<1> SUFFICES ASSUME SessionInit PROVE SInv
    OBVIOUS
<1>1. IInv
    BY InitIInv DEF SessionInit
<1> USE DEF SessionInit, Init, Loop!Init, Loop!Channel!StreamInit
<1>2. LoopTypeOK
    <2>1. << >> \in Seq(Loop!Channel!Event) /\ Len(<< >>) = 0
        BY EmptySeq
    <2>2. stream \in Seq(Loop!Channel!Event) /\ read \in 0 .. Len(stream)
        BY <2>1
    <2>3. /\ open \subseteq Connections /\ subscribed \subseteq open \X {TX}
          /\ subscribers \subseteq Connections /\ over \in BOOLEAN
        OBVIOUS
    <2>4. pc = "head" /\ returned = "none"
        OBVIOUS
    <2> QED
        BY <2>2, <2>3, <2>4 DEF LoopTypeOK
<1>4. Returns
    BY DEF Returns
<1>5. Honest
    BY DEF Honest, NoError
<1>3. Followed
    BY LastOnNothing DEF Followed
<1> QED
    BY <1>1, <1>2, <1>3, <1>4, <1>5 DEF SInv

-----------------------------------------------------------------------------
(* A session step is a step of NativeServer *)

\* Every step of the session is one NativeServer allows, or one it does not see.
LEMMA StepImplements == SInv /\ [SessionNext]_sessionVars => [Next]_vars
<1> SUFFICES ASSUME SInv, [SessionNext]_sessionVars PROVE [Next]_vars
    OBVIOUS
<1>1. CASE SessionWorker
    <2>1. CASE Looping \/ Unwinding
        BY <2>1 DEF Looping, Unwinding
    <2>2. CASE ReturnFromLoop
        <3>1. Leave("looping", returned) /\ returned \in {"ok", "error"} /\ (returned = "ok" => stop)
            BY <2>2 DEF ReturnFromLoop, Leave, Move, SInv, LoopTypeOK, Returns, Honest
        <3> QED
            BY <3>1 DEF Next, Worker, LoopStops, LoopFails
    <2>3. CASE ReleaseSession
        BY <2>3 DEF ReleaseSession, Next, Worker
    <2> QED
        BY <1>1, <2>1, <2>2, <2>3 DEF SessionWorker, Next, Worker
<1>2. CASE Peers
    BY <1>2 DEF Peers
<1>3. CASE PanicsInLoop \/ PanicsBefore
    BY <1>3 DEF PanicsInLoop, PanicsBefore, Next, Panics
<1>4. ASSUME NEW c \in Callers, Calls(c) PROVE Next
    BY <1>4 DEF Calls, Next
<1>5. CASE Terminated /\ UNCHANGED loopVars
    BY <1>5 DEF Next
<1>6. CASE UNCHANGED sessionVars
    BY <1>6 DEF sessionVars
<1> QED
    BY <1>1, <1>2, <1>3, <1>4, <1>5, <1>6 DEF SessionNext

-----------------------------------------------------------------------------
(* Steps of the channel *)

\* A step that sends e and leaves the CCCDs as e says.
Tells(e) ==
    /\ e \in Loop!Channel!Event /\ e.type # "Error"
    /\ stream' = Append(stream, e) /\ over' = over
    /\ open' \subseteq Connections /\ subscribed' \subseteq open' \X {TX}
    /\ \A g \in Connections :
          <<g, TX>> \in subscribed'
            <=> IF Touches(e, g) THEN TurnsOn(e, g) ELSE <<g, TX>> \in subscribed

\* What the channel reports is an event that tells.
LEMMA ReportTells == LoopTypeOK /\ Loop!Channel!Report => \E e : Tells(e)
<1> SUFFICES ASSUME LoopTypeOK, Loop!Channel!Report PROVE \E e : Tells(e)
    OBVIOUS
<1> DEFINE Plain(type, g) == [type |-> type, connection |-> g, attrs |-> {}, enabled |-> FALSE]
<1>1. ASSUME NEW g \in Connections, Loop!Channel!Connect(g) PROVE Tells(Plain("Connected", g))
    <2>1. /\ Plain("Connected", g) \in Loop!Channel!Event
          /\ \A h \in Connections : ~Touches(Plain("Connected", g), h)
        BY DEF Loop!Channel!Event, Touches
    <2> QED
        BY <1>1, <2>1 DEF Loop!Channel!Connect, Loop!Channel!Plain, LoopTypeOK, Tells
<1>2. ASSUME NEW g \in Connections, Loop!Channel!Fail(g)
      PROVE  Tells(Plain("NotificationFailed", g))
    <2>1. /\ Plain("NotificationFailed", g) \in Loop!Channel!Event
          /\ \A h \in Connections : ~Touches(Plain("NotificationFailed", g), h)
        BY DEF Loop!Channel!Event, Touches
    <2> QED
        BY <1>2, <2>1 DEF Loop!Channel!Fail, Loop!Channel!Plain, LoopTypeOK, Tells
<1>3. ASSUME NEW g \in Connections, Loop!Channel!Disconnect(g)
      PROVE  Tells(Plain("Disconnected", g))
    <2>1. /\ Plain("Disconnected", g) \in Loop!Channel!Event
          /\ \A h \in Connections :
                /\ Touches(Plain("Disconnected", g), h) <=> h = g
                /\ ~TurnsOn(Plain("Disconnected", g), h)
        BY DEF Loop!Channel!Event, Touches, TurnsOn
    <2> QED
        BY <1>3, <2>1 DEF Loop!Channel!Disconnect, Loop!Channel!Plain, LoopTypeOK, Tells
<1>4. ASSUME NEW g \in Connections, NEW on \in BOOLEAN, Loop!Channel!Subscribe(g, TX, on)
      PROVE  \E e : Tells(e)
    <2> DEFINE ev == [type |-> "SubscriptionChanged", connection |-> g, attrs |-> {TX},
                      enabled |-> on]
    <2>1. /\ ev \in Loop!Channel!Event
          /\ \A h \in Connections : (Touches(ev, h) <=> h = g) /\ (TurnsOn(ev, h) <=> h = g /\ on)
        BY DEF Loop!Channel!Event, Touches, TurnsOn
    <2>2. \A h \in Connections :
             <<h, TX>> \in subscribed' <=> IF h = g THEN on ELSE <<h, TX>> \in subscribed
        BY <1>4 DEF Loop!Channel!Subscribe
    <2>3. /\ stream' = Append(stream, ev) /\ over' = over
          /\ open' \subseteq Connections /\ subscribed' \subseteq open' \X {TX}
        BY <1>4 DEF Loop!Channel!Subscribe, LoopTypeOK
    <2>4. Tells(ev)
        BY <2>1, <2>2, <2>3 DEF Tells
    <2> QED
        BY <2>4
<1> QED
    BY <1>1, <1>2, <1>3, <1>4 DEF Loop!Channel!Report

\* An event more keeps what is known of the loop.
LEMMA TellsKeeps ==
    ASSUME LoopTypeOK, Followed, NEW e, Tells(e), ~over, UNCHANGED <<read, subscribers>>
    PROVE  /\ stream' \in Seq(Loop!Channel!Event) /\ read' \in 0 .. Len(stream')
           /\ NoError => NoError'
           /\ Followed'
<1>1. /\ e \in Loop!Channel!Event /\ e.type # "Error"
      /\ stream \in Seq(Loop!Channel!Event) /\ read \in 0 .. Len(stream)
      /\ stream' = Append(stream, e) /\ UNCHANGED <<over, read, subscribers>>
    BY DEF Tells, LoopTypeOK
<1>2. /\ stream' \in Seq(Loop!Channel!Event) /\ Len(stream') = Len(stream) + 1
      /\ Len(stream) \in Nat /\ stream'[Len(stream) + 1] = e
      /\ \A i \in 1 .. Len(stream) : stream'[i] = stream[i]
    BY <1>1
<1>3. NoError => NoError'
    BY <1>1, <1>2 DEF NoError
<1>4. ASSUME NEW g \in Connections
      PROVE  /\ g \in subscribers' <=> LastOn(stream', g, read')
             /\ ~over' => (<<g, TX>> \in subscribed' <=> LastOn(stream', g, Len(stream')))
    <2>1. LastOn(stream', g, read) = LastOn(stream, g, read)
        BY <1>1, LastOnPrefix
    <2>2. LastOn(stream', g, Len(stream)) = LastOn(stream, g, Len(stream))
        BY <1>1, <1>2, LastOnPrefix
    <2>3. LastOn(stream', g, Len(stream'))
             <=> IF Touches(e, g) THEN TurnsOn(e, g) ELSE LastOn(stream', g, Len(stream))
        BY <1>2, LastOnNext
    <2>4. g \in subscribers' <=> LastOn(stream', g, read')
        BY <1>1, <2>1 DEF Followed
    <2>5. <<g, TX>> \in subscribed' <=> LastOn(stream', g, Len(stream'))
        BY <2>2, <2>3 DEF Followed, Tells
    <2> QED
        BY <2>4, <2>5
<1> QED
    BY <1>1, <1>2, <1>3, <1>4 DEF Followed

\* The end of the channel keeps it as well.
LEMMA EndKeeps ==
    ASSUME LoopTypeOK, Followed, NEW failed \in BOOLEAN, Loop!Channel!End(failed),
           UNCHANGED <<read, subscribers>>
    PROVE  /\ ~over /\ over' = TRUE
           /\ open' \subseteq Connections /\ subscribed' \subseteq open' \X {TX}
           /\ stream' \in Seq(Loop!Channel!Event) /\ read' \in 0 .. Len(stream')
           /\ ~failed => stream' = stream
           /\ Followed'
<1> DEFINE ev == [type |-> "Error", connection |-> 0, attrs |-> {}, enabled |-> FALSE]
<1>1. ev \in Loop!Channel!Event
    BY DEF Loop!Channel!Event
<1>2. /\ ~over /\ over' = TRUE /\ open' = {} /\ subscribed' = {}
      /\ stream' = IF failed THEN Append(stream, ev) ELSE stream
    BY DEF Loop!Channel!End, Loop!Channel!Plain
<1>3. stream \in Seq(Loop!Channel!Event) /\ read \in 0 .. Len(stream)
    BY DEF LoopTypeOK
<1>4. stream' \in Seq(Loop!Channel!Event) /\ read' \in 0 .. Len(stream')
    BY <1>1, <1>2, <1>3
<1>5. ASSUME NEW g \in Connections PROVE LastOn(stream', g, read') <=> LastOn(stream, g, read)
    BY <1>1, <1>2, <1>3, LastOnPrefix
<1> QED
    BY <1>2, <1>4, <1>5 DEF Followed

-----------------------------------------------------------------------------
(* Steps of the loop *)

\* What the session says of the loop alone.
LoopInv == LoopTypeOK /\ Returns /\ Honest /\ Followed

\* Reading one event more, the table follows it.
LEMMA ReceiveFollows ==
    ASSUME LoopInv, Loop!Receive
    PROVE  /\ read' \in 0 .. Len(stream) /\ subscribers' \subseteq Connections
           /\ \A g \in Connections : g \in subscribers' <=> LastOn(stream, g, read')
<1>1. /\ stream \in Seq(Loop!Channel!Event) /\ read \in 0 .. Len(stream)
      /\ subscribers \subseteq Connections
      /\ read < Len(stream) /\ read' = read + 1 /\ subscribers' = Loop!Updated(stream[read + 1])
    BY DEF LoopInv, LoopTypeOK, Loop!Receive
<1> DEFINE e == stream[read + 1]
<1>2. e \in Loop!Channel!Event /\ read' \in 0 .. Len(stream) /\ read \in Nat
    BY <1>1
<1>3. e.enabled \in BOOLEAN /\ (e.type \in {"SubscriptionChanged", "Disconnected"} => e.connection \in Connections)
    BY <1>2 DEF Loop!Channel!Event
<1>4. \A g \in Connections :
         g \in subscribers' <=> IF Touches(e, g) THEN TurnsOn(e, g) ELSE g \in subscribers
    BY <1>1, <1>3 DEF Loop!Updated, Touches, TurnsOn
<1>5. subscribers' \subseteq Connections
    BY <1>1, <1>3 DEF Loop!Updated
<1>6. \A g \in Connections : g \in subscribers' <=> LastOn(stream, g, read')
    BY <1>1, <1>2, <1>4, LastOnNext DEF LoopInv, Followed
<1> QED
    BY <1>2, <1>5, <1>6

\* Dropping the server keeps it, at the end of the loop and in a panic.
LEMMA DropKeeps == LoopInv /\ Loop!DropServer /\ UNCHANGED vars => LoopInv'
<1> SUFFICES ASSUME LoopInv, Loop!DropServer, UNCHANGED vars PROVE LoopInv'
    OBVIOUS
<1>1. UNCHANGED <<stop, worker, served, channel, result>>
    BY DEF vars, workerVars, callVars
<1>2. pc = "drop" /\ pc' = "returned" /\ returned' = returned /\ UNCHANGED <<read, subscribers>>
    BY DEF Loop!DropServer
<1>3. CASE UNCHANGED <<stream, open, subscribed, over>>
    BY <1>1, <1>2, <1>3 DEF LoopInv, LoopTypeOK, Returns, Honest, NoError, Followed
<1>4. ASSUME NEW failed \in BOOLEAN, Loop!Channel!End(failed) PROVE LoopInv'
    <2>1. /\ ~over /\ over' = TRUE
          /\ open' \subseteq Connections /\ subscribed' \subseteq open' \X {TX}
          /\ stream' \in Seq(Loop!Channel!Event) /\ read' \in 0 .. Len(stream')
          /\ Followed'
        BY <1>2, <1>4, EndKeeps DEF LoopInv
    <2>2. LoopTypeOK'
        BY <1>2, <1>4, <2>1 DEF LoopInv, LoopTypeOK
    <2>3. Returns' /\ Honest'
        BY <1>1, <1>2, <2>1 DEF LoopInv, LoopTypeOK, Returns, Honest, NoError
    <2> QED
        BY <2>1, <2>2, <2>3 DEF LoopInv
<1> QED
    BY <1>3, <1>4 DEF Loop!DropServer, Loop!streamVars

\* A step of the loop while the worker runs it keeps what is known of it.
LEMMA LoopingKeeps == SInv /\ Looping => LoopInv'
<1> SUFFICES ASSUME SInv, Looping PROVE LoopInv'
    OBVIOUS
<1>1. LoopInv /\ worker = "looping" /\ UNCHANGED vars /\ Loop!Loop
    BY DEF SInv, LoopInv, Looping
<1>2. UNCHANGED <<stop, worker, served, channel, result>>
    BY <1>1 DEF vars, workerVars, callVars
<1>3. CASE Loop!LoopHead \/ Loop!Timeout \/ Loop!ChannelClosed \/ Loop!Tick \/ Loop!RoundDone
    <2>1. UNCHANGED <<stream, open, subscribed, over, read, subscribers>>
        BY <1>3 DEF Loop!LoopHead, Loop!Timeout, Loop!ChannelClosed, Loop!GiveUp, Loop!Tick,
                    Loop!RoundDone, Loop!streamVars
    <2>2. /\ pc \in {"head", "receive", "tick", "notify"}
          /\ pc' \in {"receive", "tick", "notify", "head", "shutdown", "drop"}
          /\ pc' = "shutdown" => stop
          /\ IF pc' = "drop" THEN returned' = "error" ELSE returned' = returned
        BY <1>3 DEF Loop!LoopHead, Loop!Timeout, Loop!ChannelClosed, Loop!GiveUp, Loop!Tick,
                    Loop!RoundDone
    <2>3. LoopTypeOK' /\ Followed'
        BY <1>1, <2>1, <2>2 DEF LoopInv, LoopTypeOK, Followed
    <2>4. Returns' /\ Honest'
        BY <1>1, <1>2, <2>1, <2>2 DEF LoopInv, LoopTypeOK, Returns, Honest, NoError
    <2> QED
        BY <2>3, <2>4 DEF LoopInv
<1>4. CASE Loop!Receive
    <2>1. UNCHANGED <<stream, open, subscribed, over>>
        BY <1>4 DEF Loop!Receive, Loop!streamVars
    <2>2. /\ pc = "receive"
          /\ \/ pc' = "drop" /\ returned' = "error"
             \/ pc' = "tick" /\ returned' = returned
        BY <1>4 DEF Loop!Receive
    <2>3. LoopTypeOK' /\ Followed'
        BY <1>1, <1>4, <2>1, <2>2, ReceiveFollows DEF LoopInv, LoopTypeOK, Followed
    <2>4. Returns' /\ Honest'
        BY <1>1, <1>2, <2>1, <2>2 DEF LoopInv, LoopTypeOK, Returns, Honest, NoError
    <2> QED
        BY <2>3, <2>4 DEF LoopInv
<1>5. ASSUME NEW g \in Connections, Loop!Notify(g) PROVE LoopInv'
    <2>1. UNCHANGED <<stream, open, subscribed, over, read, subscribers, pc, returned>>
        BY <1>5 DEF Loop!Notify, Loop!streamVars
    <2> QED
        BY <1>1, <1>2, <2>1 DEF LoopInv, LoopTypeOK, Returns, Honest, NoError, Followed
<1>6. CASE Loop!Shutdown
    <2>1. pc = "shutdown" /\ pc' = "returned" /\ stop /\ UNCHANGED <<read, subscribers>>
        BY <1>1, <1>6 DEF Loop!Shutdown, LoopInv, Returns
    <2>2. CASE over /\ returned' = "error" /\ UNCHANGED <<stream, open, subscribed, over>>
        <3>1. LoopTypeOK' /\ Followed'
            BY <1>1, <2>1, <2>2 DEF LoopInv, LoopTypeOK, Followed
        <3>2. Returns' /\ Honest'
            BY <1>1, <1>2, <2>1, <2>2 DEF LoopInv, LoopTypeOK, Returns, Honest, NoError
        <3> QED
            BY <3>1, <3>2 DEF LoopInv
    <2>3. ASSUME NEW failed \in BOOLEAN, Loop!Channel!End(failed),
                 returned' = IF failed THEN "error" ELSE "ok"
          PROVE  LoopInv'
        <3>1. /\ ~over /\ over' = TRUE
              /\ open' \subseteq Connections /\ subscribed' \subseteq open' \X {TX}
              /\ stream' \in Seq(Loop!Channel!Event) /\ read' \in 0 .. Len(stream')
              /\ ~failed => stream' = stream
              /\ Followed'
            BY <1>1, <2>1, <2>3, EndKeeps DEF LoopInv
        <3>2. LoopTypeOK'
            BY <1>1, <2>1, <2>3, <3>1 DEF LoopInv, LoopTypeOK
        <3>3. Returns' /\ Honest'
            BY <1>1, <1>2, <2>1, <2>3, <3>1 DEF LoopInv, LoopTypeOK, Returns, Honest, NoError
        <3> QED
            BY <3>1, <3>2, <3>3 DEF LoopInv
    <2> QED
        BY <1>6, <2>2, <2>3 DEF Loop!Shutdown, Loop!JoinResult, Loop!streamVars
<1>7. CASE Loop!DropServer
    BY <1>1, <1>7, DropKeeps
<1> QED
    BY <1>1, <1>3, <1>4, <1>5, <1>6, <1>7 DEF Loop!Loop

-----------------------------------------------------------------------------
(* Steps of the session *)

\* Events of the peers, or the end of BTstack's worker.
LEMMA PeersKeep == SInv /\ Peers => LoopInv'
<1> SUFFICES ASSUME SInv, Peers PROVE LoopInv'
    OBVIOUS
<1>1. LoopInv /\ worker = "looping" /\ UNCHANGED vars
    BY DEF SInv, LoopInv, Peers
<1>2. UNCHANGED <<stop, worker, served, channel, result>>
    BY <1>1 DEF vars, workerVars, callVars
<1>3. CASE Loop!Stream
    <2>1. ~over /\ Loop!Channel!Report /\ UNCHANGED <<pc, read, subscribers, returned>>
        BY <1>3 DEF Loop!Stream, Loop!loopVars
    <2>2. PICK e : Tells(e)
        BY <1>1, <2>1, ReportTells DEF LoopInv
    <2>3. /\ stream' \in Seq(Loop!Channel!Event) /\ read' \in 0 .. Len(stream')
          /\ NoError => NoError'
          /\ Followed'
        BY <1>1, <2>1, <2>2, TellsKeeps DEF LoopInv
    <2>4. LoopTypeOK'
        BY <1>1, <2>1, <2>2, <2>3 DEF LoopInv, LoopTypeOK, Tells
    <2>5. Returns' /\ Honest'
        BY <1>1, <1>2, <2>1, <2>2, <2>3 DEF LoopInv, Returns, Honest, Tells
    <2> QED
        BY <2>3, <2>4, <2>5 DEF LoopInv
<1>4. CASE Loop!WorkerFails
    <2>1. PICK failed \in BOOLEAN : Loop!Channel!End(failed)
        BY <1>4 DEF Loop!WorkerFails
    <2>2. UNCHANGED <<pc, read, subscribers, returned>>
        BY <1>4 DEF Loop!WorkerFails, Loop!loopVars
    <2>3. /\ ~over /\ over' = TRUE
          /\ open' \subseteq Connections /\ subscribed' \subseteq open' \X {TX}
          /\ stream' \in Seq(Loop!Channel!Event) /\ read' \in 0 .. Len(stream')
          /\ Followed'
        BY <1>1, <2>1, <2>2, EndKeeps DEF LoopInv
    <2>4. LoopTypeOK'
        BY <1>1, <2>2, <2>3 DEF LoopInv, LoopTypeOK
    <2>5. returned # "ok"
        BY <1>1, <2>3 DEF LoopInv, Honest
    <2>6. Returns' /\ Honest'
        BY <1>1, <1>2, <2>2, <2>3, <2>5 DEF LoopInv, Returns, Honest
    <2> QED
        BY <2>3, <2>4, <2>6 DEF LoopInv
<1> QED
    BY <1>3, <1>4 DEF Peers

\* Every step keeps the invariant.
LEMMA NextSInv == SInv /\ [SessionNext]_sessionVars => SInv'
<1> SUFFICES ASSUME SInv, [SessionNext]_sessionVars PROVE SInv'
    OBVIOUS
<1>1. IInv'
    BY StepImplements, NextIInv DEF SInv
<1>2. SUFFICES LoopInv'
    BY <1>1 DEF SInv, LoopInv
<1>3. LoopInv /\ TypeOK
    BY DEF SInv, IInv, LoopInv
<1>4. ASSUME UNCHANGED loopVars, Returns', Honest' PROVE LoopInv'
    BY <1>3, <1>4 DEF LoopInv, loopVars, LoopTypeOK, Followed
<1>5. ASSUME UNCHANGED loopVars, NEW from \in {"entered", "opened"},
             NEW how \in {"ok", "error", "panic"}, Leave(from, how)
      PROVE  LoopInv'
    BY <1>3, <1>4, <1>5 DEF Leave, Move, callVars, loopVars, LoopInv, Returns, Honest, NoError
<1>6. ASSUME UNCHANGED loopVars, OpenUsb \/ StartServer \/ Complete \/ Exit PROVE LoopInv'
    BY <1>3, <1>4, <1>6
       DEF OpenUsb, StartServer, Complete, Exit, Message, Move, callVars, loopVars, TypeOK, LoopInv,
           Returns, Honest, NoError
<1>7. CASE Looping
    BY <1>7, LoopingKeeps
<1>8. CASE ReturnFromLoop
    BY <1>3, <1>4, <1>8
       DEF ReturnFromLoop, Leave, Move, callVars, loopVars, LoopInv, LoopTypeOK, Returns, Honest,
           NoError
<1>9. CASE Unwinding
    BY <1>3, <1>9, DropKeeps DEF Unwinding
<1>10. CASE ReleaseSession
    BY <1>3, <1>4, <1>10
       DEF ReleaseSession, Release, Move, callVars, loopVars, LoopInv, Returns, Honest, NoError
<1>11. CASE Peers
    BY <1>11, PeersKeep
<1>12. CASE PanicsInLoop
    BY <1>3, <1>12
       DEF PanicsInLoop, Leave, Move, callVars, LoopInv, LoopTypeOK, Returns, Honest, NoError, Followed
<1>13. CASE PanicsBefore
    BY <1>5, <1>13 DEF PanicsBefore
<1>14. ASSUME NEW c \in Callers, Calls(c) PROVE LoopInv'
    <2>1. UNCHANGED <<loopVars, worker, served, channel>> /\ (stop => stop')
        BY <1>14 DEF Calls, Stop, Run, RunCancelled, LeaveRun, Proceed, TakeHandle, JoinReturns,
                     RunCompletes, workerVars
    <2>2. \A d \in Callers : result'[d] = "ok" => channel = "ok"
        BY <1>3, <1>14 DEF Calls, Stop, Run, RunCancelled, LeaveRun, Proceed, TakeHandle, JoinReturns,
                     RunCompletes, Outcome, LoopInv, Honest, TypeOK
    <2> QED
        BY <1>3, <1>4, <2>1, <2>2 DEF loopVars, LoopInv, Returns, Honest, NoError
<1>15. CASE UNCHANGED sessionVars
    BY <1>3, <1>4, <1>15 DEF sessionVars, vars, workerVars, callVars, loopVars, LoopInv, Returns,
                             Honest, NoError
<1>16. CASE SessionWorker
    BY <1>5, <1>6, <1>7, <1>8, <1>9, <1>10, <1>16 DEF SessionWorker, NothingToServe, ServeFails
<1> QED
    BY <1>11, <1>12, <1>13, <1>14, <1>15, <1>16
       DEF SessionNext, Terminated, sessionVars

\* The invariant of the session holds in every reachable state.
LEMMA AlwaysSInv == SessionSpec => []SInv
BY InitSInv, NextSInv, PTL DEF SessionSpec

-----------------------------------------------------------------------------
(* Theorems *)

\* The session is safe as the object NativeServer describes: what the loop
\* does between start and return of the worker is hidden, and it returns Ok
\* only after the flag was raised.
THEOREM SessionImplementsServer == SessionSpec => Spec
<1>1. SessionInit => Init
    BY DEF SessionInit
<1> QED
    BY <1>1, AlwaysSInv, StepImplements, PTL DEF SessionSpec, Spec

\* Whoever is back from stop() or run() finds the session over.
THEOREM SessionBarrier == SessionSpec => []Barrier
BY SessionImplementsServer, BarrierHolds, PTL

\* run() reports success only for a server that was shut down in order and
\* whose channel never had an Error, for any number of events.
THEOREM SessionTellsTheTruth == SessionSpec => []RunTellsTheTruth
<1>1. SInv => RunTellsTheTruth
    BY DEF SInv, Honest, NoError, RunTellsTheTruth
<1> QED
    BY <1>1, AlwaysSInv, PTL

\* A loop that has read everything has the right table of subscribers, however
\* many connections came, subscribed and went.
THEOREM SessionCaughtUp == SessionSpec => []CaughtUp
<1>1. SInv => CaughtUp
    <2> SUFFICES ASSUME SInv, read = Len(stream), ~over
                 PROVE  subscribers = {s[1] : s \in subscribed}
        BY DEF CaughtUp, Loop!CaughtUp
    <2>1. subscribers \subseteq Connections /\ subscribed \subseteq Connections \X {TX}
        BY DEF SInv, LoopTypeOK
    <2>2. \A g \in Connections : g \in subscribers <=> <<g, TX>> \in subscribed
        BY DEF SInv, Followed
    <2>3. \A s \in subscribed : s[1] \in Connections /\ s = <<s[1], TX>>
        BY <2>1
    <2>4. \A g \in subscribers : g \in Connections /\ <<g, TX>> \in subscribed /\ <<g, TX>>[1] = g
        BY <2>1, <2>2
    <2> QED
        BY <2>2, <2>3, <2>4
<1> QED
    BY <1>1, AlwaysSInv, PTL
=============================================================================
