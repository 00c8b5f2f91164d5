-------------------------- MODULE LifecycleProofs --------------------------
(***************************************************************************)
(* Proofs about Lifecycle, for any number of application threads and of    *)
(* starts: the state is well typed, BTstack has one owner at a time, a     *)
(* returned shutdown() leaves nothing behind, and results and Error events *)
(* are true.  All follow from one inductive invariant, IInv.               *)
(***************************************************************************)
EXTENDS Lifecycle, FiniteSetTheorems, TLAPS

-----------------------------------------------------------------------------
(* The inductive invariant                                                 *)

Live(r) == worker[r] \notin {"none", "ended"}

\* Runtimes are numbered in the order of their starts, and each was started by
\* one thread.
Numbered ==
    /\ \A r \in Runtimes : r >= nextRuntime => worker[r] = "none"
    /\ \A t \in Threads : rt[t] < nextRuntime
    /\ \A t \in Threads : app[t] # "idle" => rt[t] # 0
    /\ \A t, u \in Threads : t # u /\ rt[t] = rt[u] => rt[t] = 0

\* ACTIVE is held by one live worker, or by the one thread about to spawn it.
OneOwner ==
    /\ \A r \in Runtimes : Live(r) => ACTIVE
    /\ \A r, s \in Runtimes : Live(r) /\ Live(s) => r = s
    /\ \A t \in Threads : app[t] = "spawning"
         => ACTIVE /\ worker[rt[t]] = "none" /\ \A r \in Runtimes : ~Live(r)
    /\ \A t, u \in Threads : app[t] = "spawning" /\ app[u] = "spawning" => t = u

\* What a worker holds tells how far it has come.
Holdings ==
    /\ \A r \in initialised : worker[r] \in {"startup", "serving", "stopping", "deinit"}
    /\ \A r \in transport : worker[r] \notin {"none", "cleaned", "ended"}

\* From the end of stop_controller() on, the result is final and true.
Results ==
    \A r \in Runtimes :
        /\ worker[r] \in {"none", "setup", "startup", "serving"} => result[r] = "none"
        /\ worker[r] \in {"deinit", "cleanup", "cleaned", "ended"}
             => /\ result[r] = "ok" => r \notin powered
                /\ result[r] = "error" => r \in errorEvent

IInv == TypeOK /\ Numbered /\ OneOwner /\ Holdings /\ Results /\ JoinMeansGone

-----------------------------------------------------------------------------
\* The invariant holds in the initial state.
LEMMA InitIInv == Init => IInv
<1> SUFFICES ASSUME Init PROVE IInv
    OBVIOUS
<1> USE LifecycleAssumption DEF Init, Runtimes
<1>1. TypeOK
    <2>1. /\ ready \in [Runtimes -> BOOLEAN] /\ stopQueued \in [Runtimes -> BOOLEAN]
          /\ dropped \in [Runtimes -> BOOLEAN] /\ ACTIVE \in BOOLEAN
        OBVIOUS
    <2>2. rt \in [Threads -> 0 .. MaxStarts] /\ nextRuntime \in 1 .. MaxStarts + 1
        OBVIOUS
    <2> QED
        BY <2>1, <2>2 DEF TypeOK
<1>2. Numbered /\ OneOwner /\ Holdings /\ Results /\ JoinMeansGone
    BY DEF Numbered, OneOwner, Live, Holdings, Results, JoinMeansGone
<1> QED
    BY <1>1, <1>2 DEF IInv

\* What a thread has started is one of the runtimes.
LEMMA StartedIsRuntime ==
    ASSUME TypeOK
    PROVE  \A t \in Threads : rt[t] # 0 => rt[t] \in Runtimes
BY LifecycleAssumption DEF TypeOK, Runtimes

\* Every step keeps it.
LEMMA NextIInv == IInv /\ [Next]_vars => IInv'
<1> SUFFICES ASSUME IInv, [Next]_vars PROVE IInv'
    OBVIOUS
<1> USE LifecycleAssumption DEF IInv
<1> DEFINE Others == Numbered /\ OneOwner /\ Holdings /\ Results /\ JoinMeansGone
<1>1. ASSUME NEW t \in Threads, Reserve(t) PROVE IInv'
    <2>1. TypeOK'
        BY <1>1 DEF Reserve, TypeOK, Runtimes
    <2>2. Others'
        BY <1>1 DEF Reserve, Reservable, TypeOK, Runtimes, Live, Numbered, OneOwner, Holdings,
                    Results, JoinMeansGone
    <2> QED
        BY <2>1, <2>2
<1>2. ASSUME NEW t \in Threads, Spawn(t) PROVE IInv'
    <2>1. rt[t] \in Runtimes
        BY <1>2 DEF Spawn, TypeOK, Runtimes, Numbered
    <2>2. TypeOK'
        BY <1>2, <2>1 DEF Spawn, TypeOK, Runtimes
    <2>3. Others'
        BY <1>2, <2>1 DEF Spawn, TypeOK, Runtimes, Live, Numbered, OneOwner, Holdings,
                    Results, JoinMeansGone
    <2> QED
        BY <2>2, <2>3
<1>3. ASSUME NEW t \in Threads, SpawnFails(t) PROVE IInv'
    <2>1. rt[t] \in Runtimes
        BY <1>3 DEF SpawnFails, TypeOK, Runtimes, Numbered
    <2>2. TypeOK'
        BY <1>3, <2>1 DEF SpawnFails, TypeOK, Runtimes
    <2>3. Others'
        BY <1>3, <2>1 DEF SpawnFails, TypeOK, Runtimes, Live, Numbered, OneOwner, Holdings,
                    Results, JoinMeansGone
    <2> QED
        BY <2>2, <2>3
<1>4. ASSUME NEW t \in Threads,
             StartOk(t) \/ StartGivesUp(t) \/ Shutdown(t) \/ JoinReturns(t)
                \/ CallbackShutdown(t) \/ CallbackDrop(t)
      PROVE  IInv'
    <2>1. rt[t] \in Runtimes
        BY <1>4 DEF StartOk, StartGivesUp, Shutdown, JoinReturns, CallbackShutdown, CallbackDrop,
                    TypeOK, Runtimes, Numbered
    <2>2. TypeOK'
        <3>1. CASE StartOk(t) \/ StartGivesUp(t) \/ Shutdown(t)
            BY <2>1, <3>1 DEF StartOk, StartGivesUp, Shutdown, workerVars, TypeOK, Runtimes
        <3>2. CASE JoinReturns(t) \/ CallbackShutdown(t) \/ CallbackDrop(t)
            BY <2>1, <3>2 DEF JoinReturns, CallbackShutdown, CallbackDrop, workerVars, TypeOK, Runtimes
        <3> QED
            BY <1>4, <3>1, <3>2
    <2>3. UNCHANGED <<workerVars, rt, nextRuntime>>
        BY <1>4 DEF StartOk, StartGivesUp, Shutdown, JoinReturns, CallbackShutdown, CallbackDrop
    <2>4. \A u \in Threads : app'[u] \in {"idle", "spawning"} 
              => app'[u] = app[u] \/ app'[u] = "idle"
        BY <1>4 DEF StartOk, StartGivesUp, Shutdown, JoinReturns, CallbackShutdown, CallbackDrop,
                    TypeOK
    <2>5. Numbered'
        <3>1. \A u \in Threads : app'[u] # "idle" => rt'[u] # 0
            BY <1>4, <2>3 DEF StartOk, StartGivesUp, Shutdown, JoinReturns, CallbackShutdown,
                              CallbackDrop, TypeOK, Numbered
        <3> QED
            BY <2>3, <3>1 DEF workerVars, Numbered
    <2>6. (OneOwner /\ Holdings /\ Results)'
        BY <2>3, <2>4 DEF workerVars, Live, OneOwner, Holdings, Results
    <2>7. JoinMeansGone'
        BY <1>4, <2>1 DEF StartOk, StartGivesUp, Shutdown, JoinReturns, Joined, CallbackShutdown,
                    CallbackDrop, workerVars, TypeOK, Runtimes, Holdings, JoinMeansGone
    <2> QED
        BY <2>2, <2>5, <2>6, <2>7
<1>5. ASSUME NEW r \in Runtimes, Setup(r) \/ AdvertisingEnabled(r) PROVE IInv'
    <2>1. TypeOK'
        BY <1>5 DEF Setup, AdvertisingEnabled, TypeOK
    <2>2. Numbered'
        BY <1>5 DEF Setup, AdvertisingEnabled, TypeOK, Runtimes, Numbered
    <2>3. OneOwner'
        <3>1. Live(r) /\ \A s \in Runtimes : Live(s)' => s = r
            BY <1>5 DEF Setup, AdvertisingEnabled, TypeOK, Live, OneOwner
        <3>2. \A t \in Threads : app[t] # "spawning"
            BY <3>1 DEF OneOwner
        <3> QED
            BY <1>5, <3>1, <3>2 DEF Setup, AdvertisingEnabled, OneOwner
    <2>4. Holdings'
        BY <1>5 DEF Setup, AdvertisingEnabled, TypeOK, Holdings
    <2>5. JoinMeansGone'
        BY <1>5, StartedIsRuntime DEF Setup, AdvertisingEnabled, TypeOK, JoinMeansGone
    <2>6. Results'
        BY <1>5 DEF Setup, AdvertisingEnabled, TypeOK, Results
    <2> QED
        BY <2>1, <2>2, <2>3, <2>4, <2>5, <2>6
<1>6. ASSUME NEW r \in Runtimes, NEW how \in {"ok", "error"}, LeaveRun(r, how) PROVE IInv'
    <2>1. TypeOK'
        BY <1>6 DEF LeaveRun, TypeOK
    <2>2. Others'
        BY <1>6 DEF LeaveRun, TypeOK, Runtimes, Live, Numbered, OneOwner, Holdings, Results,
                    JoinMeansGone
    <2> QED
        BY <2>1, <2>2
<1>7. ASSUME NEW r \in Runtimes, StopController(r) PROVE IInv'
    <2>1. PICK stop \in {"ok", "error"} :
              /\ result' = [result EXCEPT ![r] = IF @ = "ok" THEN stop ELSE @]
              /\ powered' = IF stop = "ok" THEN powered \ {r} ELSE powered
        BY <1>7 DEF StopController, Both
    <2>2. TypeOK'
        BY <1>7, <2>1 DEF StopController, Tell, TypeOK
    <2>3. (Numbered /\ OneOwner /\ Holdings /\ JoinMeansGone)'
        BY <1>7 DEF StopController, Tell, TypeOK, Runtimes, Live, Numbered, OneOwner, Holdings,
                    JoinMeansGone
    <2>4. Results'
        BY <1>7, <2>1 DEF StopController, Tell, TypeOK, Results
    <2> QED
        BY <2>2, <2>3, <2>4
<1>8. ASSUME NEW r \in Runtimes, Deinit(r) \/ DropTransport(r) \/ ReleaseActive(r) PROVE IInv'
    <2>1. TypeOK'
        <3>1. CASE Deinit(r)
            BY <3>1 DEF Deinit, TypeOK
        <3>2. CASE DropTransport(r)
            BY <3>2 DEF DropTransport, TypeOK
        <3>3. CASE ReleaseActive(r)
            BY <3>3 DEF ReleaseActive, GuardDropsIn, TypeOK
        <3> QED
            BY <1>8, <3>1, <3>2, <3>3
    <2>2. Numbered'
        BY <1>8 DEF Deinit, DropTransport, ReleaseActive, GuardDropsIn, TypeOK, Runtimes, Numbered
    <2>3. OneOwner'
        <3>1. CASE Deinit(r) \/ DropTransport(r)
            BY <3>1 DEF Deinit, DropTransport, TypeOK, Runtimes, Live, OneOwner
        <3>2. CASE ReleaseActive(r)
            <4>1. Live(r) /\ \A s \in Runtimes : ~Live(s)'
                BY <3>2 DEF ReleaseActive, GuardDropsIn, TypeOK, Live, OneOwner
            <4>2. \A t \in Threads : app[t] # "spawning"
                BY <4>1 DEF OneOwner
            <4> QED
                BY <3>2, <4>1, <4>2 DEF ReleaseActive, OneOwner
        <3> QED
            BY <1>8, <3>1, <3>2
    <2>4. Holdings'
        BY <1>8 DEF Deinit, DropTransport, ReleaseActive, GuardDropsIn, TypeOK, Holdings
    <2>5. JoinMeansGone'
        BY <1>8, StartedIsRuntime
           DEF Deinit, DropTransport, ReleaseActive, GuardDropsIn, TypeOK, JoinMeansGone
    <2>6. Results'
        BY <1>8 DEF Deinit, DropTransport, ReleaseActive, GuardDropsIn, TypeOK, Results
    <2> QED
        BY <2>1, <2>2, <2>3, <2>4, <2>5, <2>6
<1>9. CASE UNCHANGED vars
    BY <1>9 DEF vars, workerVars, TypeOK, Live, Numbered, OneOwner, Holdings, Results,
                JoinMeansGone
<1> QED
    BY <1>1, <1>2, <1>3, <1>4, <1>5, <1>6, <1>7, <1>8, <1>9
       DEF Next, Starting, Worker, RunFails, TakeStop

\* The invariant holds in every reachable state.
LEMMA AlwaysIInv == Spec => []IInv
BY InitIInv, NextIInv, PTL DEF Spec

-----------------------------------------------------------------------------
(* Theorems *)

\* The worker, the threads and the flag are always in a state of their types.
THEOREM LifecycleTypeCorrect == Spec => []TypeOK
<1>1. IInv => TypeOK
    BY DEF IInv
<1> QED
    BY <1>1, AlwaysIInv, PTL

\* ActiveGuard: at most one runtime has BTstack initialised, and a process
\* that finds ACTIVE clear finds nothing of the runtimes before.
THEOREM ExclusiveStackHolds == Spec => []ExclusiveStack
<1>1. IInv => ExclusiveStack
    <2> SUFFICES ASSUME IInv PROVE ExclusiveStack
        OBVIOUS
    <2>1. initialised \subseteq Runtimes /\ \A r \in initialised : Live(r)
        BY DEF IInv, TypeOK, Holdings, Live
    <2>2. \A r, s \in initialised : r = s
        BY <2>1 DEF IInv, OneOwner
    <2>3. Cardinality(initialised) <= 1
        <3>1. CASE initialised = {}
            BY <3>1, FS_EmptySet
        <3>2. CASE initialised # {}
            <4>1. PICK r : initialised = {r}
                BY <3>2, <2>2
            <4>2. Cardinality({r}) = 1
                BY FS_Singleton
            <4> QED
                BY <4>1, <4>2
        <3> QED
            BY <3>1, <3>2
    <2>4. ~ACTIVE => \A r \in Runtimes : ~Live(r)
        BY DEF IInv, OneOwner
    <2>5. \A r \in transport : r \in Runtimes /\ Live(r)
        BY DEF IInv, TypeOK, Holdings, Live
    <2> QED
        BY <2>1, <2>3, <2>4, <2>5 DEF ExclusiveStack, Live
<1> QED
    BY <1>1, AlwaysIInv, PTL

\* When start() has failed or shutdown() has returned, the worker has ended
\* and its transport is dropped.
THEOREM JoinMeansGoneHolds == Spec => []JoinMeansGone
<1>1. IInv => JoinMeansGone
    BY DEF IInv
<1> QED
    BY <1>1, AlwaysIInv, PTL

\* A worker that ends with Ok has switched its controller off.
THEOREM OkMeansOffHolds == Spec => []OkMeansOff
<1>1. IInv => OkMeansOff
    BY DEF IInv, Results, OkMeansOff
<1> QED
    BY <1>1, AlwaysIInv, PTL

\* A worker that ends with an error has sent an Error event.
THEOREM ErrorAlwaysReported == Spec => []ErrorReported
<1>1. IInv => ErrorReported
    BY DEF IInv, Results, ErrorReported
<1> QED
    BY <1>1, AlwaysIInv, PTL

\* What shutdown() returns, and what the Error event says, of the end of a
\* worker is true.
THEOREM TruthfulEndHolds == Spec => []TruthfulEnd
<1>1. OkMeansOff /\ ErrorReported => TruthfulEnd
    BY DEF TruthfulEnd
<1> QED
    BY <1>1, OkMeansOffHolds, ErrorAlwaysReported, PTL
=============================================================================
