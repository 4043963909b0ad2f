------------------------- MODULE StateMachineProofs --------------------------
(***************************************************************************)
(* Proofs about the smaller state machines, for all values of their        *)
(* constants: TunnelLifecycle, whose module this one extends, and          *)
(* PathHealth, DeliveryRate, Budget and PairBond, instantiated as H, R, B  *)
(* and P.                                                                  *)
(***************************************************************************)
EXTENDS TunnelLifecycle, Sequences, FiniteSetTheorems, TLAPS

\* The provers for a step that names none, in turn, with their time limits in seconds.
USE SMTT(10), ZenonT(20), SMTT(40), ZenonT(60)

-----------------------------------------------------------------------------
(* TunnelLifecycle: the inductive invariant *)

\* The goroutines of Run that have returned.
Gone(c) == {w \in Workers : worker[c][w] = "gone"}

\* A connect that was not commanded yet has no thread.
Ahead == \A c \in Connects : c > commands => thread[c] = "none"

\* Before AttachTUN there is neither Run nor any of its goroutines.
NotAttached ==
  \A c \in Connects :
    thread[c] \in {"none", "handshake", "establish", "attach"} =>
      run[c] = "off" /\ \A w \in Workers : worker[c][w] = "off"

\* Every result in errCh comes from a goroutine of its own that has returned.
Counted == \A c \in Connects : errs[c] <= Cardinality(Gone(c))

LifeInv == TypeOK /\ Ahead /\ NotAttached /\ Counted /\ ClosedOnExit

-----------------------------------------------------------------------------
(* TunnelLifecycle: types *)

\* There are finitely many goroutines, so those that returned can be counted.
LEMMA GoneIsFinite ==
  /\ IsFiniteSet(Workers) /\ Cardinality(Workers) \in Nat
  /\ \A c : IsFiniteSet(Gone(c)) /\ Cardinality(Gone(c)) \in Nat
            /\ Cardinality(Gone(c)) <= Cardinality(Workers)
<1>1. IsFiniteSet({"tunToNet", "drainReorderToTun"})
  <2>1. IsFiniteSet({"tunToNet"}) /\ IsFiniteSet({"drainReorderToTun"})
    BY FS_Singleton
  <2>2. {"tunToNet", "drainReorderToTun"} = {"tunToNet"} \cup {"drainReorderToTun"}
    OBVIOUS
  <2>3. QED
    BY <2>1, <2>2, FS_Union
<1>2. IsFiniteSet(Workers)
  BY <1>1, LifecycleAssumption, FS_Union DEF Workers
<1>3. ASSUME NEW c PROVE Gone(c) \in SUBSET Workers
  BY DEF Gone
<1>4. QED
  BY <1>2, <1>3, FS_Subset, FS_CardinalityType

LEMMA InitLife == Init => LifeInv
<1> SUFFICES ASSUME Init PROVE LifeInv
  OBVIOUS
<1>1. 0 \in 0..MaxConnects /\ 0 \in 0..Cardinality(Workers)
  BY LifecycleAssumption, GoneIsFinite
<1>2. TypeOK
  BY <1>1 DEF Init, TypeOK, NoTunnel
<1>3. Ahead /\ NotAttached /\ ClosedOnExit
  BY DEF Init, Ahead, NotAttached, ClosedOnExit
<1>4. Counted
  BY GoneIsFinite DEF Init, Counted
<1>5. QED
  BY <1>2, <1>3, <1>4 DEF LifeInv

\* The steps of the service's main thread and of a connect thread keep the types.
LEMMA ServiceTypes ==
  ASSUME TypeOK,
         Connect \/ DisconnectClose \/ DisconnectClear \/ OnDestroyClose \/ OnDestroyClear
  PROVE  TypeOK'
<1> USE DEF TypeOK, goVars, serviceVars
<1>1. CASE Connect
  <2>1. commands' \in 0..MaxConnects
    BY <1>1, LifecycleAssumption DEF Connect
  <2>2. QED
    BY <1>1, <2>1 DEF Connect
<1>2. CASE DisconnectClose \/ OnDestroyClose
  <2>0. CloseTunnel
    BY <1>2 DEF DisconnectClose, OnDestroyClose
  <2>1. ctx' \in [Connects -> {"live", "cancelled"}]
    BY <2>0 DEF CloseTunnel
  <2>2. QED
    BY <1>2, <2>1 DEF DisconnectClose, OnDestroyClose
<1>3. CASE DisconnectClear \/ OnDestroyClear
  <2>1. ClearFields
    BY <1>3 DEF DisconnectClear, OnDestroyClear
  <2>2. 0 \in 0..MaxConnects
    BY LifecycleAssumption
  <2>3. dev' \in [Connects -> BOOLEAN]
    BY <2>1 DEF ClearFields
  <2>4. tunnel' \in 0..MaxConnects /\ tunFd' \in 0..MaxConnects /\ status' = "disconnected"
    BY <2>1, <2>2 DEF ClearFields, NoTunnel
  <2>5. QED
    BY <1>3, <2>3, <2>4 DEF DisconnectClear, OnDestroyClear
<1>4. QED
  BY <1>1, <1>2, <1>3

LEMMA ThreadTypes ==
  ASSUME TypeOK, NEW c \in Connects, ConnectThread(c)
  PROVE  TypeOK'
<1> USE DEF TypeOK, goVars, serviceVars
<1>0. c \in 0..MaxConnects /\ 0 \in 0..MaxConnects
  BY LifecycleAssumption DEF Connects
<1>1. CASE Handshake(c)
  BY <1>1 DEF Handshake
<1>2. CASE Establish(c)
  BY <1>0, <1>2 DEF Establish
<1>3. CASE AttachTUN(c)
  <2>1. /\ thread' \in [Connects -> {"none", "handshake", "establish", "attach", "publish",
                                  "show", "catch", "close", "clear", "over"}]
        /\ run' \in [Connects -> {"off", "select", "closing", "returned", "done"}]
    BY <1>3 DEF AttachTUN
  <2>2. PICK started \in [Workers -> {"off", "run", "gone"}] :
                worker' = worker \/ worker' = [worker EXCEPT ![c] = started]
    BY <1>3 DEF AttachTUN
  <2>3. worker' \in [Connects -> [Workers -> {"off", "run", "gone"}]]
    BY <2>2
  <2>4. helpers' \in [Connects -> BOOLEAN]
    BY <1>3 DEF AttachTUN
  <2>5. QED
    BY <1>3, <2>1, <2>3, <2>4 DEF AttachTUN
<1>4. CASE Publish(c) \/ Show(c) \/ Catch(c)
  BY <1>0, <1>4 DEF Publish, Show, Catch
<1>5. CASE CatchClose(c)
  BY <1>5 DEF CatchClose, CloseTunnel
<1>6. CASE CatchClear(c)
  <2>1. dev' \in [Connects -> BOOLEAN]
    BY <1>6 DEF CatchClear, ClearFields
  <2>2. QED
    BY <1>0, <1>6, <2>1 DEF CatchClear, ClearFields, NoTunnel
<1>7. QED
  BY <1>1, <1>2, <1>3, <1>4, <1>5, <1>6 DEF ConnectThread

\* So do those of Run and its goroutines; errCh never holds more than its capacity.
LEMMA RunTypes ==
  ASSUME TypeOK, NEW c \in Connects,
         RunGoroutine(c) \/ HelpersEnd(c) \/ AwaitExit(c) \/ \E w \in Workers : SendErr(c, w)
  PROVE  TypeOK'
<1> USE DEF TypeOK, goVars, serviceVars
<1>0. Cardinality(Workers) \in Nat /\ errs[c] \in 0..Cardinality(Workers)
  BY GoneIsFinite
<1>1. CASE RunCancelled(c)
  BY <1>1 DEF RunCancelled, CloseAll
<1>2. CASE RunReceives(c) \/ RunFailed(c)
  <2>1. errs[c] - 1 \in 0..Cardinality(Workers)
    BY <1>0, <1>2 DEF RunReceives, RunFailed
  <2>2. errs' = [errs EXCEPT ![c] = @ - 1]
    BY <1>2 DEF RunReceives, RunFailed
  <2>3. errs' \in [Connects -> 0..Cardinality(Workers)]
    BY <2>1, <2>2
  <2>4. run' \in [Connects -> {"off", "select", "closing", "returned", "done"}]
    BY <1>2 DEF RunReceives, RunFailed
  <2>5. CASE RunReceives(c)
    BY <2>3, <2>4, <2>5 DEF RunReceives
  <2>6. CASE RunFailed(c)
    <3>1. dev' \in [Connects -> BOOLEAN] /\ conns' \in [Connects -> BOOLEAN]
      BY <2>6 DEF RunFailed, CloseAll
    <3>2. QED
      BY <2>3, <2>4, <2>6, <3>1 DEF RunFailed
  <2>7. QED
    BY <1>2, <2>5, <2>6
<1>3. CASE RunDone(c)
  BY <1>3 DEF RunDone
<1>4. CASE HelpersEnd(c) \/ AwaitExit(c)
  BY <1>4 DEF HelpersEnd, AwaitExit
<1>5. ASSUME NEW w \in Workers, SendErr(c, w) PROVE TypeOK'
  <2>1. errs[c] + 1 \in 0..Cardinality(Workers)
    BY <1>0, <1>5 DEF SendErr, Capacity
  <2>2. errs' \in [Connects -> 0..Cardinality(Workers)]
    BY <1>5, <2>1 DEF SendErr
  <2>3. worker' \in [Connects -> [Workers -> {"off", "run", "gone"}]]
    BY <1>5 DEF SendErr
  <2>4. QED
    BY <1>5, <2>2, <2>3 DEF SendErr
<1>6. QED
  BY <1>1, <1>2, <1>3, <1>4, <1>5 DEF RunGoroutine

\* Every step keeps the types.
LEMMA TypeStep ==
  ASSUME TypeOK, [Next]_vars
  PROVE  TypeOK'
<1>1. CASE UNCHANGED vars
  BY <1>1 DEF TypeOK, vars, serviceVars, goVars
<1>2. CASE Connect \/ DisconnectClose \/ DisconnectClear \/ OnDestroyClose \/ OnDestroyClear
  BY <1>2, ServiceTypes
<1>3. ASSUME NEW c \in Connects, ConnectThread(c) PROVE TypeOK'
  BY <1>3, ThreadTypes
<1>4. ASSUME NEW c \in Connects,
             RunGoroutine(c) \/ HelpersEnd(c) \/ AwaitExit(c) \/ \E w \in Workers : SendErr(c, w)
      PROVE  TypeOK'
  BY <1>4, RunTypes
<1>5. QED
  BY <1>1, <1>2, <1>3, <1>4 DEF Next, WorkerEnds, WorkerFails

-----------------------------------------------------------------------------
(* TunnelLifecycle: threads, goroutines and errCh *)

\* A connect thread starts with its command.
LEMMA AheadStep ==
  ASSUME LifeInv, [Next]_vars, TypeOK'
  PROVE  Ahead'
<1> USE DEF LifeInv, TypeOK, Ahead, Connects
<1>0. MaxConnects \in Nat
  BY LifecycleAssumption
<1>1. CASE Connect
  BY <1>0, <1>1 DEF Connect
<1>2. CASE UNCHANGED <<commands, thread>>
  BY <1>2
<1>3. ASSUME NEW c \in Connects, ConnectThread(c) PROVE Ahead'
  <2>1. commands' = commands /\ thread[c] # "none"
    BY <1>3 DEF ConnectThread, Handshake, Establish, AttachTUN, Publish, Show, Catch, CatchClose,
                CatchClear, serviceVars
  <2>2. \A d \in Connects : d # c => thread'[d] = thread[d]
    BY <1>3 DEF ConnectThread, Handshake, Establish, AttachTUN, Publish, Show, Catch, CatchClose,
                CatchClear
  <2>3. QED
    BY <2>1, <2>2
<1>4. [Next]_vars => Connect \/ UNCHANGED <<commands, thread>>
                     \/ \E c \in Connects : ConnectThread(c)
  BY DEF Next, vars, serviceVars, DisconnectClose, DisconnectClear, OnDestroyClose,
     OnDestroyClear, RunGoroutine, RunCancelled, RunReceives, RunFailed, RunDone, HelpersEnd,
     AwaitExit, WorkerEnds, WorkerFails, SendErr
<1>5. QED
  BY <1>1, <1>2, <1>3, <1>4

\* While the goroutines and errCh stay as they are, so does the count.
LEMMA CountedUnchanged ==
  ASSUME Counted, UNCHANGED <<worker, errs>>
  PROVE  Counted'
BY DEF Counted, Gone

\* The service and the connect threads: only AttachTUN starts Run and its
\* goroutines, and once they are there no socket and no device is opened.
LEMMA ServiceStep ==
  ASSUME LifeInv, TypeOK',
         \/ Connect \/ DisconnectClose \/ DisconnectClear \/ OnDestroyClose \/ OnDestroyClear
         \/ UNCHANGED vars
  PROVE  NotAttached' /\ Counted' /\ ClosedOnExit'
<1>1. UNCHANGED <<run, worker, errs, conns>>
  BY DEF Connect, DisconnectClose, DisconnectClear, OnDestroyClose, OnDestroyClear, vars, goVars
<1>2. ASSUME NEW c \in Connects PROVE dev'[c] => dev[c]
  BY DEF Connect, DisconnectClose, DisconnectClear, OnDestroyClose, OnDestroyClear, vars, goVars,
     ClearFields
<1>3. ASSUME NEW c \in Connects PROVE thread'[c] = thread[c] \/ thread[c] = "none"
  <2>1. CASE Connect
    <3>1. commands \in Nat /\ commands + 1 > commands
      BY LifecycleAssumption DEF LifeInv, TypeOK
    <3>2. c = commands + 1 => thread[c] = "none"
      BY <3>1 DEF LifeInv, Ahead
    <3>3. QED
      BY <2>1, <3>2 DEF Connect, LifeInv, TypeOK
  <2>2. CASE ~Connect
    BY <2>2 DEF DisconnectClose, DisconnectClear, OnDestroyClose, OnDestroyClear, vars
  <2>3. QED
    BY <2>1, <2>2
<1>4. NotAttached'
  BY <1>1, <1>3 DEF LifeInv, NotAttached
<1>5. ClosedOnExit'
  BY <1>1, <1>2 DEF LifeInv, ClosedOnExit
<1>6. QED
  BY <1>1, <1>4, <1>5, CountedUnchanged DEF LifeInv

LEMMA ThreadStep ==
  ASSUME LifeInv, TypeOK', NEW c \in Connects, ConnectThread(c)
  PROVE  NotAttached' /\ Counted' /\ ClosedOnExit'
<1> USE DEF goVars
<1>1. CASE AttachTUN(c)
  <2>1. run[c] = "off" /\ \A w \in Workers : worker[c][w] = "off"
    BY <1>1 DEF LifeInv, NotAttached, AttachTUN
  <2>2. UNCHANGED <<errs, dev, conns>>
    BY <1>1 DEF AttachTUN
  <2>3. /\ run'[c] \in {"off", "select"} /\ thread'[c] \in {"publish", "catch"}
        /\ \A w \in Workers : worker'[c][w] # "gone"
    BY <1>1, <2>1 DEF AttachTUN, LifeInv, TypeOK
  <2>4. ASSUME NEW d \in Connects, d # c
        PROVE  run'[d] = run[d] /\ worker'[d] = worker[d] /\ thread'[d] = thread[d]
    BY <1>1, <2>4 DEF AttachTUN, LifeInv, TypeOK
  <2>5. NotAttached'
    BY <2>3, <2>4 DEF LifeInv, NotAttached
  <2>6. ClosedOnExit'
    BY <2>2, <2>3, <2>4 DEF LifeInv, ClosedOnExit
  <2>7. ASSUME NEW d \in Connects PROVE errs'[d] <= Cardinality(Gone(d)')
    <3>1. Gone(d)' = Gone(d)
      BY <2>1, <2>3, <2>4 DEF Gone
    <3>2. QED
      BY <2>2, <3>1 DEF LifeInv, Counted
  <2>8. QED
    BY <2>5, <2>6, <2>7 DEF Counted
<1>2. CASE ~AttachTUN(c)
  <2>1. UNCHANGED <<run, worker, errs>>
    BY <1>2 DEF ConnectThread, Handshake, Establish, Publish, Show, Catch, CatchClose,
       CatchClear
  <2>2. ASSUME NEW d \in Connects
        PROVE  \/ thread'[d] = thread[d]
               \/ thread'[d] \notin {"none", "handshake", "establish", "attach"}
               \/ thread[d] \in {"handshake", "establish"}
    BY <1>2 DEF ConnectThread, Handshake, Establish, Publish, Show, Catch, CatchClose, CatchClear,
       LifeInv, TypeOK
  <2>3. NotAttached'
    BY <2>1, <2>2 DEF LifeInv, NotAttached
  <2>4. ASSUME NEW d \in Connects
        PROVE  (dev'[d] => dev[d]) \/ thread[d] = "establish"
    <3>1. \/ dev' = dev
          \/ dev' = [dev EXCEPT ![c] = TRUE] /\ thread[c] = "establish"
          \/ dev' = [b \in Connects |-> IF b = tunFd THEN FALSE ELSE dev[b]]
      BY <1>2 DEF ConnectThread, Handshake, Establish, Publish, Show, Catch, CatchClose,
         CatchClear, ClearFields
    <3>2. dev \in [Connects -> BOOLEAN]
      BY DEF LifeInv, TypeOK
    <3>3. QED
      BY <3>1, <3>2
  <2>5. ASSUME NEW d \in Connects
        PROVE  (conns'[d] => conns[d]) \/ thread[d] = "handshake"
    <3>1. \/ conns' = conns
          \/ conns' = [conns EXCEPT ![c] = TRUE] /\ thread[c] = "handshake"
      BY <1>2 DEF ConnectThread, Handshake, Establish, Publish, Show, Catch, CatchClose,
         CatchClear
    <3>2. conns \in [Connects -> BOOLEAN]
      BY DEF LifeInv, TypeOK
    <3>3. QED
      BY <3>1, <3>2
  <2>6. ClosedOnExit'
    BY <2>1, <2>4, <2>5 DEF LifeInv, ClosedOnExit, NotAttached
  <2>7. QED
    BY <2>1, <2>3, <2>6, CountedUnchanged DEF LifeInv
<1>3. QED
  BY <1>1, <1>2

\* Run: it takes what it receives out of errCh, and it closes the device and the
\* sockets when it leaves its select.
LEMMA RunStep ==
  ASSUME LifeInv, TypeOK', NEW c \in Connects,
         RunGoroutine(c) \/ HelpersEnd(c) \/ AwaitExit(c)
  PROVE  NotAttached' /\ Counted' /\ ClosedOnExit'
<1> USE DEF goVars
<1>1. UNCHANGED <<thread, worker>>
  BY DEF RunGoroutine, RunCancelled, RunReceives, RunFailed, RunDone, HelpersEnd, AwaitExit
<1>2. /\ run'[c] = run[c] \/ run[c] # "off"
      /\ \A d \in Connects : d # c => run'[d] = run[d]
  BY DEF RunGoroutine, RunCancelled, RunReceives, RunFailed, RunDone, HelpersEnd, AwaitExit,
     LifeInv, TypeOK
<1>3. NotAttached'
  BY <1>1, <1>2 DEF LifeInv, NotAttached
<1>4. ASSUME NEW d \in Connects PROVE errs'[d] <= Cardinality(Gone(d)')
  <2>1. errs[d] \in Int /\ errs[d] <= Cardinality(Gone(d)) /\ Cardinality(Gone(d)) \in Int
    BY GoneIsFinite DEF LifeInv, TypeOK, Counted
  <2>2. errs' = errs \/ errs' = [errs EXCEPT ![c] = @ - 1]
    BY DEF RunGoroutine, RunCancelled, RunReceives, RunFailed, RunDone, HelpersEnd, AwaitExit
  <2>3. errs'[d] = errs[d] \/ errs'[d] = errs[d] - 1
    BY <2>2 DEF LifeInv, TypeOK
  <2>4. Gone(d)' = Gone(d)
    BY <1>1 DEF Gone
  <2>5. QED
    BY <2>1, <2>3, <2>4
<1>5. ClosedOnExit'
  <2>1. CASE RunCancelled(c) \/ RunFailed(c)
    <3>1. CloseAll(c)
      BY <2>1 DEF RunCancelled, RunFailed
    <3>2. dev \in [Connects -> BOOLEAN] /\ conns \in [Connects -> BOOLEAN]
      BY DEF LifeInv, TypeOK
    <3>3. ~dev'[c] /\ ~conns'[c]
      BY <3>1, <3>2 DEF CloseAll
    <3>4. ASSUME NEW d \in Connects, d # c PROVE dev'[d] = dev[d] /\ conns'[d] = conns[d]
      BY <3>1, <3>2, <3>4 DEF CloseAll
    <3>5. QED
      BY <1>2, <3>3, <3>4 DEF LifeInv, ClosedOnExit
  <2>2. CASE RunReceives(c) \/ RunDone(c) \/ HelpersEnd(c) \/ AwaitExit(c)
    <3>1. UNCHANGED <<dev, conns>>
      BY <2>2 DEF RunReceives, RunDone, HelpersEnd, AwaitExit
    <3>2. run'[c] = run[c] \/ run[c] \in {"closing", "returned"}
      BY <2>2 DEF RunReceives, RunDone, HelpersEnd, AwaitExit
    <3>3. QED
      BY <1>2, <3>1, <3>2 DEF LifeInv, ClosedOnExit
  <2>3. QED
    BY <2>1, <2>2 DEF RunGoroutine
<1>6. QED
  BY <1>3, <1>4, <1>5 DEF Counted

\* A worker's result is one message more, and one goroutine more that returned.
LEMMA WorkerStep ==
  ASSUME LifeInv, TypeOK', NEW c \in Connects, NEW w \in Workers, SendErr(c, w)
  PROVE  NotAttached' /\ Counted' /\ ClosedOnExit'
<1>1. UNCHANGED <<thread, run, dev, conns>> /\ worker[c][w] = "run"
  BY DEF SendErr
<1>2. worker'[c] = [worker[c] EXCEPT ![w] = "gone"] /\ worker[c] \in [Workers -> {"off", "run", "gone"}]
  BY DEF SendErr, LifeInv, TypeOK
<1>3. ASSUME NEW d \in Connects, d # c PROVE worker'[d] = worker[d] /\ errs'[d] = errs[d]
  BY <1>3 DEF SendErr, LifeInv, TypeOK
<1>4. NotAttached'
  BY <1>1, <1>3 DEF LifeInv, NotAttached
<1>5. ClosedOnExit'
  BY <1>1 DEF LifeInv, ClosedOnExit
<1>6. errs'[c] <= Cardinality(Gone(c)')
  <2>1. Gone(c)' = Gone(c) \cup {w} /\ w \notin Gone(c)
    BY <1>1, <1>2 DEF Gone
  <2>2. IsFiniteSet(Gone(c)) /\ Cardinality(Gone(c)) \in Int
    BY GoneIsFinite
  <2>3. Cardinality(Gone(c)') = Cardinality(Gone(c)) + 1
    BY <2>1, <2>2, FS_AddElement
  <2>4. errs'[c] = errs[c] + 1 /\ errs[c] \in Int /\ errs[c] <= Cardinality(Gone(c))
    BY DEF SendErr, LifeInv, TypeOK, Counted
  <2>5. QED
    BY <2>2, <2>3, <2>4
<1>7. ASSUME NEW d \in Connects, d # c PROVE errs'[d] <= Cardinality(Gone(d)')
  <2>1. Gone(d)' = Gone(d)
    BY <1>3, <1>7 DEF Gone
  <2>2. QED
    BY <1>3, <1>7, <2>1 DEF LifeInv, Counted
<1>8. QED
  BY <1>4, <1>5, <1>6, <1>7 DEF Counted

-----------------------------------------------------------------------------
(* TunnelLifecycle: the theorems *)

\* The inductive invariant holds in every state of the tunnel's life.
THEOREM LifeInvHolds == Spec => []LifeInv
<1>1. LifeInv /\ [Next]_vars => LifeInv'
  <2> SUFFICES ASSUME LifeInv, [Next]_vars PROVE LifeInv'
    OBVIOUS
  <2>1. TypeOK'
    BY TypeStep DEF LifeInv
  <2>2. Ahead'
    BY <2>1, AheadStep
  <2>3. NotAttached' /\ Counted' /\ ClosedOnExit'
    <3>1. ASSUME NEW c \in Connects, ConnectThread(c)
          PROVE  NotAttached' /\ Counted' /\ ClosedOnExit'
      BY <2>1, <3>1, ThreadStep
    <3>2. ASSUME NEW c \in Connects, RunGoroutine(c) \/ HelpersEnd(c) \/ AwaitExit(c)
          PROVE  NotAttached' /\ Counted' /\ ClosedOnExit'
      BY <2>1, <3>2, RunStep
    <3>3. ASSUME NEW c \in Connects, NEW w \in Workers, SendErr(c, w)
          PROVE  NotAttached' /\ Counted' /\ ClosedOnExit'
      BY <2>1, <3>3, WorkerStep
    <3>4. QED
      BY <2>1, <3>1, <3>2, <3>3, ServiceStep DEF Next, WorkerEnds, WorkerFails
  <2>4. QED
    BY <2>1, <2>2, <2>3 DEF LifeInv
<1>2. QED
  BY <1>1, InitLife, PTL DEF Spec

\* The fields of the service, the threads, Run and its goroutines, and errCh keep
\* their types; errCh never holds more than its capacity.
THEOREM TypeCorrect == Spec => []TypeOK
<1>1. LifeInv => TypeOK
  BY DEF LifeInv
<1>2. QED
  BY <1>1, LifeInvHolds, PTL

\* Run's errCh has a slot for every goroutine: none that still runs can find the
\* channel full, whatever Run has received or stopped receiving.
THEOREM NoWorkerBlocks == Spec => []WorkersNeverBlock
<1>1. LifeInv => WorkersNeverBlock
  <2> SUFFICES ASSUME LifeInv, NEW c \in Connects, NEW w \in Workers, worker[c][w] = "run"
               PROVE  errs[c] < Capacity
    BY DEF WorkersNeverBlock
  <2>1. Gone(c) \in SUBSET Workers /\ Gone(c) # Workers
    BY DEF Gone
  <2>2. Cardinality(Gone(c)) <= Cardinality(Workers) /\ Cardinality(Gone(c)) # Cardinality(Workers)
    BY <2>1, GoneIsFinite, FS_Subset
  <2>3. errs[c] <= Cardinality(Gone(c)) /\ errs[c] \in Int
    BY GoneIsFinite DEF LifeInv, Counted, TypeOK
  <2>4. QED
    BY <2>2, <2>3, GoneIsFinite DEF Capacity
<1>2. QED
  BY <1>1, LifeInvHolds, PTL

\* When Run has left its select, and so when AwaitExit returns, the device and the
\* sockets of that tunnel are closed for good.
THEOREM RunLeavesNothingOpen == Spec => []ClosedOnExit
<1>1. LifeInv => ClosedOnExit
  BY DEF LifeInv
<1>2. QED
  BY <1>1, LifeInvHolds, PTL

-----------------------------------------------------------------------------
(* PathHealth: the loss estimate *)

CONSTANTS DegradeLoss, MissedProbesToDegrade, HealthyProbesToUndegrade, PathDeadTimeout,
          MaxSent, MaxFlight
VARIABLES state, age, lossEWMA, missed, healthy, sent, flight, fresh, first, tick,
          prober, reader

H == INSTANCE PathHealth

\* A quotient of a natural number lies between 0 and any bound that the divisor
\* reaches.
LEMMA Quotient ==
  ASSUME NEW a \in Nat, NEW b \in Nat \ {0}, NEW k \in Nat, a <= k * b
  PROVE  a \div b \in 0..k
<1>1. PICK q \in Int : q = a \div b
  OBVIOUS
<1>2. b * q <= a /\ a < b * q + b
  BY <1>1
<1>3. ~(q < 0)
  <2> SUFFICES ASSUME q <= -1 PROVE FALSE
    OBVIOUS
  <2>1. b * q <= b * (-1)
    OBVIOUS
  <2> QED
    BY <1>2, <2>1
<1>4. ~(q > k)
  <2> SUFFICES ASSUME q >= k + 1 PROVE FALSE
    OBVIOUS
  <2>1. b * q >= b * (k + 1) /\ b * (k + 1) = k * b + b
    OBVIOUS
  <2> QED
    BY <1>2, <2>1
<1> QED
  BY <1>1, <1>3, <1>4

\* The loss of an interval is a percentage, also if the receiver counts more
\* packets than were sent; so is the estimate it is folded into.
LEMMA FoldedLoss ==
  ASSUME NEW loss \in 0..100, sent \in Nat, NEW recv \in Nat
  PROVE  H!FoldLoss(loss, recv) \in 0..100
<1>1. H!InstLoss(recv) \in 0..100
  <2>1. CASE sent = 0 \/ recv > sent
    BY <2>1 DEF H!InstLoss
  <2>2. CASE sent # 0 /\ recv <= sent
    <3>1. PICK a \in Nat : a = 100 * recv
      OBVIOUS
    <3>2. a <= 100 * sent /\ sent \in Nat \ {0}
      BY <2>2, <3>1
    <3>3. a \div sent \in 0..100
      BY <3>2, Quotient
    <3> QED
      BY <2>2, <3>1, <3>3 DEF H!InstLoss
  <2> QED
    BY <2>1, <2>2
<1> QED
  BY <1>1 DEF H!FoldLoss

-----------------------------------------------------------------------------
(* PathHealth: the inductive invariant *)

\* The misses that probeLoop may still count before time goes on: the one it is
\* about to count, and the one that a tick in the channel may lead to.
Due == (IF prober.pc = "missed" THEN 1 ELSE 0) + (IF tick THEN 1 ELSE 0)

\* A HandleProbeAck in progress has reset the misses.  Those counted since, and those
\* due, are at most two more than the probe intervals it has been held up for.
AckInv ==
  reader.pc \in {"folded", "stamped", "store"} => missed + Due <= reader.age + 2

\* Unless an answer was held up for so long that its store could hide them, too many
\* misses have degraded the path, or the last of them is about to.
MissInv ==
  (/\ reader.pc = "read" /\ state = "active"
   /\ missed >= MissedProbesToDegrade /\ reader.age < MissedProbesToDegrade - 2)
    => prober.pc = "degrade" /\ prober.missed >= MissedProbesToDegrade

HealthInv == H!TypeOK /\ AckInv /\ MissInv

\* The types of the two goroutines' local states.
Prober == [pc : {"wait", "missed", "degrade", "silent", "kill", "probe", "sent", "gone"},
           missed : 0..MissedProbesToDegrade]
Reader == [pc : {"read", "called", "folded", "stamped", "store"},
           age : 0..PathDeadTimeout + 1, loss : 0..100,
           healthy : 0..HealthyProbesToUndegrade, to : {"active", "degraded"}]

\* A record with a field replaced by another of its type keeps its type.
LEMMA FieldReplaced ==
  ASSUME NEW PC, NEW A, NEW L, NEW HS, NEW T,
         NEW r \in [pc : PC, age : A, loss : L, healthy : HS, to : T]
  PROVE  LET R == [pc : PC, age : A, loss : L, healthy : HS, to : T]
         IN /\ \A x \in PC : [r EXCEPT !.pc = x] \in R
            /\ \A x \in A : [r EXCEPT !.age = x] \in R
            /\ \A x \in L : [r EXCEPT !.loss = x] \in R
            /\ \A x \in HS : [r EXCEPT !.healthy = x] \in R
            /\ \A x \in T : [r EXCEPT !.to = x] \in R
OBVIOUS

LEMMA ReaderField ==
  ASSUME NEW r \in Reader
  PROVE  /\ \A x \in {"read", "called", "folded", "stamped", "store"} :
              [r EXCEPT !.pc = x] \in Reader
         /\ \A x \in 0..PathDeadTimeout + 1 : [r EXCEPT !.age = x] \in Reader
         /\ \A x \in 0..100 : [r EXCEPT !.loss = x] \in Reader
         /\ \A x \in 0..HealthyProbesToUndegrade : [r EXCEPT !.healthy = x] \in Reader
         /\ \A x \in {"active", "degraded"} : [r EXCEPT !.to = x] \in Reader
BY FieldReplaced DEF Reader

LEMMA InitHealth ==
  ASSUME H!HealthAssumption PROVE H!Init => HealthInv
<1> SUFFICES ASSUME H!Init PROVE HealthInv
  OBVIOUS
<1> USE DEF H!HealthAssumption, H!Init
<1>1. /\ prober.pc = "wait" /\ reader.pc = "read" /\ missed = 0
      /\ MissedProbesToDegrade \in Nat \ {0}
  OBVIOUS
<1>2. prober \in Prober /\ reader \in Reader
  BY DEF Prober, Reader
<1>3. H!TypeOK
  <2>1. /\ state \in {"active", "degraded", "dead"} /\ lossEWMA \in 0..100
        /\ missed \in 0..MissedProbesToDegrade /\ healthy \in 0..HealthyProbesToUndegrade
        /\ sent \in 0..MaxSent /\ flight \in 0..MaxFlight
    OBVIOUS
  <2>2. age \in H!Never..H!MaxAge
    BY DEF H!Never, H!MaxAge
  <2>3. fresh \in BOOLEAN /\ first \in BOOLEAN /\ tick \in BOOLEAN
    OBVIOUS
  <2> QED
    BY <1>2, <2>1, <2>2, <2>3 DEF H!TypeOK, H!MaxAge, Prober, Reader
<1>4. ~(missed >= MissedProbesToDegrade)
  BY <1>1
<1> QED
  BY <1>1, <1>3, <1>4 DEF HealthInv, AckInv, MissInv

\* Counters that are capped stay within their limits.
LEMMA Capped ==
  ASSUME NEW n \in Nat, NEW limit \in Nat
  PROVE  /\ H!UpTo(n, limit) \in 0..limit /\ H!UpTo(n, limit) <= n
         /\ n <= limit => H!UpTo(n, limit) = n
         /\ n > limit => H!UpTo(n, limit) = limit
BY DEF H!UpTo

LEMMA StepHealthTypes ==
  ASSUME H!HealthAssumption, H!TypeOK, H!Next PROVE H!TypeOK'
<1> USE DEF H!HealthAssumption, H!Never, H!MaxAge
<1>0. prober \in Prober /\ reader \in Reader
  BY DEF H!TypeOK, Prober, Reader
<1>zero. 0 \in 0..100 /\ 0 \in 0..HealthyProbesToUndegrade /\ 0 \in 0..PathDeadTimeout + 1
  OBVIOUS
<1>1. CASE H!SendData \/ H!Lose
  BY <1>1 DEF H!TypeOK, H!SendData, H!Lose, H!proberVars
<1>2. CASE H!RecordRecv
  BY <1>2 DEF H!TypeOK, H!RecordRecv, H!Stamp
<1>3. CASE H!AckFold
  <2>1. PICK recv \in 0..sent + 1 : lossEWMA' = H!FoldLoss(lossEWMA, recv)
    BY <1>3 DEF H!AckFold
  <2>2. lossEWMA' \in 0..100
    <3>1. lossEWMA \in 0..100 /\ sent \in Nat /\ recv \in Nat
      BY DEF H!TypeOK
    <3> QED
      BY <2>1, <3>1, FoldedLoss
  <2>3. PICK h \in 0..HealthyProbesToUndegrade : h = healthy'
    BY <1>3, Capped DEF H!TypeOK, H!AckFold
  <2>4. PICK l \in 0..100 : l = lossEWMA'
    BY <2>2
  <2>5. reader' = [reader EXCEPT !.pc = "folded", !.loss = l, !.healthy = h]
    BY <1>3, <2>3, <2>4 DEF H!AckFold
  <2>6. reader' \in Reader
    <3>1. PICK q \in Reader : q = [reader EXCEPT !.pc = "folded"]
      BY <1>0, ReaderField
    <3>2. PICK r \in Reader : r = [q EXCEPT !.loss = l]
      BY ReaderField
    <3>3. reader' = [r EXCEPT !.healthy = h]
      BY <2>5, <3>1, <3>2
    <3> QED
      BY <3>3, ReaderField
  <2>7. /\ sent' = 0 /\ missed' = 0
        /\ UNCHANGED <<state, age, flight, fresh, first, tick, prober>>
    BY <1>3 DEF H!AckFold, H!proberVars
  <2> QED
    BY <2>2, <2>3, <2>6, <2>7 DEF H!TypeOK, Reader
<1>4. CASE H!AckStamp
  <2>1. reader' \in Reader
    BY <1>0, <1>4, ReaderField DEF H!AckStamp
  <2>2. reader.age \in -1..PathDeadTimeout + 1
    BY <1>0 DEF Reader
  <2> QED
    BY <1>4, <2>1, <2>2 DEF H!TypeOK, H!AckStamp, H!Stamp, Reader
<1>5. CASE H!AckDecide
  <2>1. PICK pc \in {"store", "read"}, to \in {"active", "degraded"} :
          reader' = [reader EXCEPT !.pc = pc, !.to = to, !.loss = 0, !.healthy = 0]
    BY <1>5 DEF H!AckDecide
  <2>2. PICK q \in Reader : q = [reader EXCEPT !.pc = pc]
    BY <1>0, ReaderField
  <2>3. PICK r \in Reader : r = [q EXCEPT !.to = to]
    BY ReaderField
  <2>4. PICK t \in Reader : t = [r EXCEPT !.loss = 0]
    BY <1>zero, ReaderField
  <2>5. reader' = [t EXCEPT !.healthy = 0]
    BY <2>1, <2>2, <2>3, <2>4
  <2>6. reader' \in Reader
    BY <1>zero, <2>5, ReaderField
  <2> QED
    BY <1>5, <2>6 DEF H!TypeOK, H!AckDecide, Reader, H!proberVars
<1>6. CASE H!AckStore
  <2>1. PICK q \in Reader : q = [reader EXCEPT !.pc = "read"]
    BY <1>0, ReaderField
  <2>2. reader' = [q EXCEPT !.to = "active"]
    BY <1>6, <2>1 DEF H!AckStore
  <2>3. reader' \in Reader
    BY <2>2, ReaderField
  <2>4. reader.to \in {"active", "degraded"}
    BY <1>0 DEF Reader
  <2> QED
    BY <1>6, <2>3, <2>4 DEF H!TypeOK, H!AckStore, Reader, H!proberVars
<1>7. CASE H!AckCall
  <2>1. PICK q \in Reader : q = [reader EXCEPT !.pc = "called"]
    BY <1>0, ReaderField
  <2>2. reader' = [q EXCEPT !.age = 0]
    BY <1>7, <2>1 DEF H!AckCall
  <2>3. reader' \in Reader
    BY <1>zero, <2>2, ReaderField
  <2>4. flight' \in 0..MaxFlight
    BY <1>7 DEF H!TypeOK, H!AckCall
  <2> QED
    BY <1>7, <2>3, <2>4 DEF H!TypeOK, H!AckCall, Reader, H!proberVars
<1>8. CASE H!Elapse
  <2>1. age' \in -1..PathDeadTimeout + 1
    BY <1>8 DEF H!Elapse, H!TypeOK, H!UpTo
  <2>2. PICK n \in 0..PathDeadTimeout + 1 : reader' = [reader EXCEPT !.age = n]
    <3>1. reader.age \in 0..PathDeadTimeout + 1
      BY <1>0 DEF Reader
    <3>2. H!UpTo(reader.age + 1, PathDeadTimeout + 1) \in 0..PathDeadTimeout + 1
      BY <3>1 DEF H!UpTo
    <3> QED
      BY <1>8, <3>1, <3>2 DEF H!Elapse
  <2>3. reader' \in Reader
    BY <1>0, <2>2, ReaderField
  <2> QED
    BY <1>8, <2>1, <2>3 DEF H!TypeOK, H!Elapse, Reader
<1>9. CASE H!Tick
  <2>1. prober' \in Prober
    BY <1>0, <1>9 DEF H!Tick, Prober
  <2> QED
    BY <1>9, <2>1 DEF H!TypeOK, H!Tick, Prober
<1>10. CASE H!MissFold
  <2>1. missed' \in 0..MissedProbesToDegrade
    BY <1>10, Capped DEF H!TypeOK, H!MissFold
  <2>2. prober' \in Prober
    BY <1>10, <2>1 DEF H!MissFold, Prober
  <2> QED
    BY <1>10, <2>1, <2>2 DEF H!TypeOK, H!MissFold, Prober
<1>11. CASE H!MissDegrade
  <2>1. prober' \in Prober
    BY <1>11 DEF H!MissDegrade, Prober
  <2> QED
    BY <1>11, <2>1 DEF H!TypeOK, H!MissDegrade, Prober
<1>12. CASE H!MissSilent \/ H!MissKill
  BY <1>0, <1>12 DEF H!TypeOK, H!MissSilent, H!MissKill, Prober
<1>13. CASE H!SendProbe
  <2>1. flight' \in 0..MaxFlight /\ prober' \in Prober
    BY <1>0, <1>13, Capped DEF H!TypeOK, H!SendProbe, Prober
  <2> QED
    BY <1>13, <2>1 DEF H!TypeOK, H!SendProbe, Prober
<1>14. CASE H!ReadStamp
  BY <1>0, <1>14 DEF H!TypeOK, H!ReadStamp, Prober
<1> QED
  BY <1>1, <1>2, <1>3, <1>4, <1>5, <1>6, <1>7, <1>8, <1>9, <1>10, <1>11, <1>12, <1>13, <1>14
  DEF H!Next, H!HandleProbeAck, H!ProbeLoop

\* While HandleProbeAck runs, a miss needs a tick and a tick needs time.
LEMMA StepHealth ==
  ASSUME H!HealthAssumption, HealthInv, H!Next PROVE HealthInv'
<1> USE DEF H!HealthAssumption
<1>0. /\ prober \in Prober /\ reader \in Reader
      /\ missed \in Nat /\ missed <= MissedProbesToDegrade
      /\ reader.age \in Nat /\ tick \in BOOLEAN /\ Due \in 0..2
  BY DEF HealthInv, H!TypeOK, H!MaxAge, Prober, Reader, Due
<1>1. H!TypeOK'
  BY StepHealthTypes DEF HealthInv
<1>2. CASE H!SendData \/ H!Lose \/ H!RecordRecv
  BY <1>1, <1>2
  DEF HealthInv, AckInv, MissInv, Due, H!SendData, H!Lose, H!RecordRecv, H!proberVars
<1>3. CASE H!AckCall
  <2>1. reader'.pc = "called"
    BY <1>0, <1>3 DEF H!AckCall, Reader
  <2> QED
    BY <1>1, <2>1 DEF HealthInv, AckInv, MissInv
<1>4. CASE H!AckFold
  <2>1. /\ missed' = 0 /\ reader'.pc = "folded" /\ reader'.age = reader.age
        /\ prober' = prober /\ tick' = tick
    BY <1>0, <1>4 DEF H!AckFold, H!proberVars, Reader
  <2>2. Due' = Due
    BY <2>1 DEF Due
  <2> QED
    BY <1>0, <1>1, <2>1, <2>2 DEF HealthInv, AckInv, MissInv
<1>5. CASE H!AckStamp \/ H!AckDecide \/ H!AckStore
  <2>1. /\ reader.pc \in {"folded", "stamped", "store"} /\ reader'.age = reader.age
        /\ missed' = missed /\ prober' = prober /\ tick' = tick
    BY <1>0, <1>5 DEF H!AckStamp, H!AckDecide, H!AckStore, H!Stamp, H!proberVars, Reader
  <2>2. Due' = Due
    BY <2>1 DEF Due
  <2>3. missed + Due <= reader.age + 2
    BY <2>1 DEF HealthInv, AckInv
  <2>4. missed >= MissedProbesToDegrade => ~(reader.age < MissedProbesToDegrade - 2)
    BY <1>0, <2>3
  <2> QED
    BY <1>1, <2>1, <2>2, <2>3, <2>4 DEF HealthInv, AckInv, MissInv
<1>6. CASE H!Elapse
  <2>1. /\ reader'.pc = reader.pc /\ missed' = missed /\ prober' = prober /\ state' = state
        /\ reader.pc = "read" => reader'.age = reader.age
        /\ reader.pc # "read" =>
             \/ reader'.age = reader.age + 1
             \/ reader'.age = PathDeadTimeout + 1
    BY <1>0, <1>6 DEF H!Elapse, H!UpTo, H!MaxAge, Reader
  <2>2. Due' \in 0..2 /\ Due' <= Due + 1
    BY <1>0, <2>1, <1>6 DEF H!Elapse, Due
  <2>3. AckInv'
    BY <1>0, <2>1, <2>2 DEF HealthInv, AckInv
  <2>4. MissInv'
    BY <2>1 DEF HealthInv, MissInv
  <2> QED
    BY <1>1, <2>3, <2>4 DEF HealthInv
<1>7. CASE H!Tick
  <2>1. /\ prober.pc = "wait" /\ prober'.pc # "degrade" /\ tick /\ ~tick'
        /\ reader' = reader /\ missed' = missed /\ state' = state
    BY <1>0, <1>7 DEF H!Tick, Prober
  <2>2. Due' <= Due /\ Due' \in Nat
    BY <2>1 DEF Due
  <2> QED
    BY <1>0, <1>1, <2>1, <2>2 DEF HealthInv, AckInv, MissInv
<1>8. CASE H!MissFold
  <2>1. /\ prober.pc = "missed" /\ prober'.pc = "degrade" /\ prober'.missed = missed'
        /\ reader' = reader /\ tick' = tick /\ missed' \in Nat /\ missed' <= missed + 1
    BY <1>0, <1>8, Capped DEF H!MissFold
  <2>2. Due = Due' + 1 /\ Due' \in Nat
    BY <2>1 DEF Due
  <2> QED
    BY <1>0, <1>1, <2>1, <2>2 DEF HealthInv, AckInv, MissInv
<1>9. CASE H!MissDegrade
  <2>1. /\ prober.pc = "degrade" /\ prober'.pc = "silent"
        /\ reader' = reader /\ tick' = tick /\ missed' = missed
        /\ state' = "active" => state = "active" /\ ~(prober.missed >= MissedProbesToDegrade)
    BY <1>0, <1>9 DEF H!MissDegrade, Prober
  <2>2. Due' = Due
    BY <2>1 DEF Due
  <2> QED
    BY <1>1, <2>1, <2>2 DEF HealthInv, AckInv, MissInv
<1>10. CASE H!MissSilent \/ H!MissKill \/ H!SendProbe \/ H!ReadStamp
  <2>1. /\ prober.pc \notin {"missed", "degrade"} /\ prober'.pc \notin {"missed", "degrade"}
        /\ reader' = reader /\ tick' = tick /\ missed' = missed /\ state' \in {state, "dead"}
    BY <1>0, <1>10 DEF H!MissSilent, H!MissKill, H!SendProbe, H!ReadStamp, Prober
  <2>2. Due' = Due
    BY <2>1 DEF Due
  <2> QED
    BY <1>1, <2>1, <2>2 DEF HealthInv, AckInv, MissInv
<1> QED
  BY <1>2, <1>3, <1>4, <1>5, <1>6, <1>7, <1>8, <1>9, <1>10
  DEF H!Next, H!HandleProbeAck, H!ProbeLoop

-----------------------------------------------------------------------------
(* PathHealth: the theorems *)

\* The invariant of the two goroutines holds in every interleaving, however long
\* either of them is held up.
THEOREM HealthInvHolds ==
  ASSUME H!HealthAssumption PROVE H!Spec => []HealthInv
<1>1. HealthInv /\ UNCHANGED H!vars => HealthInv'
  BY DEF HealthInv, H!TypeOK, AckInv, MissInv, Due, H!vars, H!proberVars
<1>2. HealthInv /\ [H!Next]_(H!vars) => HealthInv'
  BY <1>1, StepHealth
<1> QED
  BY <1>2, InitHealth, PTL DEF H!Spec

\* Estimates, counters and the local copies stay within their ranges; the loss
\* estimate stays a percentage although the relay counts probes and the sender
\* does not.
THEOREM HealthTypeCorrect ==
  ASSUME H!HealthAssumption PROVE H!Spec => []H!TypeOK
<1>1. HealthInv => H!TypeOK
  BY DEF HealthInv
<1> QED
  BY <1>1, HealthInvHolds, PTL

\* HandleProbeMissed's degradation is undone only by a HandleProbeAck that was held up
\* for MissedProbesToDegrade - 2 probe intervals or more.
THEOREM MissesAlwaysDegrade ==
  ASSUME H!HealthAssumption PROVE H!Spec => []H!MissesDegrade
<1>1. HealthInv => H!MissesDegrade
  <2> SUFFICES ASSUME HealthInv PROVE H!MissesDegrade
    OBVIOUS
  <2>1. reader.age \in Nat /\ MissedProbesToDegrade \in Nat
    BY DEF H!HealthAssumption, HealthInv, H!TypeOK, H!MaxAge
  <2> QED
    BY <2>1 DEF HealthInv, MissInv, H!MissesDegrade
<1> QED
  BY <1>1, HealthInvHolds, PTL

\* A path that probeLoop has given up, with no decision of HandleProbeAck left to be
\* stored.
GivenUp == prober.pc = "gone" /\ state = "dead" /\ reader.pc # "store"

\* Such a path stays DEAD: an answer that finds it DEAD changes nothing.
THEOREM GivenUpForEver ==
  ASSUME H!HealthAssumption PROVE H!Spec => H!GivenUpStaysDead
<1>1. HealthInv /\ GivenUp /\ H!Next => GivenUp'
  <2> SUFFICES ASSUME HealthInv, GivenUp, H!Next PROVE GivenUp'
    OBVIOUS
  <2>0. reader \in Reader
    BY DEF HealthInv, H!TypeOK, H!MaxAge, Reader
  <2>1. CASE H!SendData \/ H!Lose \/ H!RecordRecv
    BY <2>1 DEF GivenUp, H!SendData, H!Lose, H!RecordRecv, H!proberVars
  <2>2. CASE H!Elapse \/ H!AckCall \/ H!AckFold \/ H!AckStamp
    <3>1. prober' = prober /\ state' = state /\ reader'.pc \in {reader.pc, "called", "folded", "stamped"}
      BY <2>0, <2>2 DEF H!Elapse, H!AckCall, H!AckFold, H!AckStamp, H!proberVars, Reader
    <3> QED
      BY <3>1 DEF GivenUp
  <2>3. CASE H!AckDecide
    <3>1. prober' = prober /\ state' = state /\ reader'.pc = "read"
      BY <2>0, <2>3 DEF GivenUp, H!AckDecide, H!proberVars, Reader
    <3> QED
      BY <3>1 DEF GivenUp
  <2>4. ~H!AckStore /\ ~H!ProbeLoop
    BY DEF GivenUp, H!AckStore, H!ProbeLoop, H!Tick, H!MissFold, H!MissDegrade, H!MissSilent,
           H!MissKill, H!SendProbe, H!ReadStamp
  <2> QED
    BY <2>1, <2>2, <2>3, <2>4 DEF H!Next, H!HandleProbeAck
<1>2. HealthInv /\ GivenUp /\ [H!Next]_(H!vars) => GivenUp'
  BY <1>1 DEF GivenUp, H!vars, H!proberVars
<1>3. GivenUp => state = "dead"
  BY DEF GivenUp
<1>4. prober.pc = "gone" /\ state = "dead" /\ reader.pc # "store" => GivenUp
  BY DEF GivenUp
<1> QED
  BY <1>2, <1>3, <1>4, HealthInvHolds, PTL DEF H!Spec, H!GivenUpStaysDead

-----------------------------------------------------------------------------
(* DeliveryRate: the congestion controller's ring of samples *)

CONSTANTS btlBwWindow, minCWND, maxCWND, initialCWND, Scaled(_, _)
VARIABLES samples, filled, next, cwnd, seen

R == INSTANCE DeliveryRate

\* Sample keeps track of which rate is in which slot.
LEMMA RingInvHolds ==
  ASSUME btlBwWindow \in Nat \ {0}
  PROVE  R!Spec => []R!RingInv
<1>1. R!Init => R!RingInv
  BY DEF R!Init, R!RingInv, R!Slot
<1>2. R!RingInv /\ [R!Next]_(R!vars) => R!RingInv'
  <2> SUFFICES ASSUME R!RingInv, [R!Next]_(R!vars) PROVE R!RingInv' OBVIOUS
  <2>1. ASSUME NEW bps \in Nat, NEW rtProp \in Nat, R!Sample(bps, rtProp) PROVE R!RingInv'
    <3> DEFINE L == Len(seen)
    <3>1. /\ L \in Nat /\ seen' \in Seq(Nat) /\ Len(seen') = L + 1
          /\ seen'[L + 1] = bps
          /\ \A k \in 1 .. L : seen'[k] = seen[k]
      BY <2>1 DEF R!Sample, R!RingInv
    <3>2. /\ samples' \in [R!Slot -> Nat] /\ samples'[next] = bps
          /\ \A i \in R!Slot : i # next => samples'[i] = samples[i]
      BY <2>1 DEF R!Sample, R!RingInv
    <3>3. /\ next \in Int /\ 0 <= next /\ next < btlBwWindow
          /\ filled \in Int /\ 0 <= filled /\ filled <= btlBwWindow
          /\ next <= L
          /\ filled < btlBwWindow => next = filled /\ L = filled
          /\ filled = btlBwWindow => L >= btlBwWindow + next
      BY DEF R!RingInv, R!Slot
    <3>4. /\ \A i \in R!Slot : i < next => samples[i] = seen[L - next + 1 + i]
          /\ filled = btlBwWindow =>
               \A i \in R!Slot : i >= next => samples[i] = seen[L - next - btlBwWindow + 1 + i]
      BY DEF R!RingInv
    <3>5. \A i \in R!Slot : i \in Int /\ 0 <= i /\ i < btlBwWindow
      BY DEF R!Slot
    <3> HIDE DEF L
    <3>6. CASE next + 1 = btlBwWindow
      <4>1. next' = 0 /\ filled' = btlBwWindow
        BY <2>1, <3>3, <3>6 DEF R!Sample
      <4>2. L + 1 >= btlBwWindow
        BY <3>1, <3>3, <3>6
      <4>3. ASSUME NEW i \in R!Slot PROVE samples'[i] = seen'[L + 1 - btlBwWindow + 1 + i]
        <5>1. CASE i = next
          BY <3>1, <3>2, <3>3, <3>6, <5>1
        <5>2. CASE i < next
          <6>1. L - next + 1 + i \in 1 .. L
            BY <3>1, <3>3, <3>5, <5>2
          <6>2. samples'[i] = seen[L - next + 1 + i]
            BY <3>2, <3>3, <3>4, <3>5, <5>2
          <6>3. L - next + 1 + i = L + 1 - btlBwWindow + 1 + i
            BY <3>1, <3>3, <3>5, <3>6
          <6> QED BY <3>1, <6>1, <6>2, <6>3
        <5> QED BY <3>3, <3>5, <3>6, <5>1, <5>2
      <4>4. /\ next' \in R!Slot /\ filled' \in 0 .. btlBwWindow /\ next' <= L + 1
            /\ ~(filled' < btlBwWindow) /\ L + 1 >= btlBwWindow + next'
        BY <3>1, <4>1, <4>2 DEF R!Slot
      <4>5. \A i \in R!Slot : ~(i < next')
        BY <3>5, <4>1
      <4>6. \A i \in R!Slot : samples'[i] = seen'[Len(seen') - next' - btlBwWindow + 1 + i]
        <5> TAKE i \in R!Slot
        <5>1. Len(seen') - next' - btlBwWindow + 1 + i = L + 1 - btlBwWindow + 1 + i
          BY <3>1, <3>5, <4>1
        <5> QED BY <4>3, <5>1
      <4> QED BY <3>1, <3>2, <4>4, <4>5, <4>6 DEF R!RingInv
    <3>7. CASE next + 1 # btlBwWindow
      <4>1. next' = next + 1 /\ filled' = (IF filled < btlBwWindow THEN filled + 1 ELSE filled)
        BY <2>1, <3>7 DEF R!Sample
      <4>2. /\ next' \in R!Slot /\ filled' \in 0 .. btlBwWindow /\ next' <= Len(seen')
            /\ filled' < btlBwWindow => next' = filled' /\ Len(seen') = filled'
            /\ filled' = btlBwWindow => Len(seen') >= btlBwWindow + next'
            /\ filled' = btlBwWindow => filled = btlBwWindow
        BY <3>1, <3>3, <3>7, <4>1 DEF R!Slot
      <4>3. ASSUME NEW i \in R!Slot, i < next' PROVE samples'[i] = seen'[Len(seen') - next' + 1 + i]
        <5>0. Len(seen') - next' + 1 + i = L - next + 1 + i
          BY <3>1, <3>3, <3>5, <4>1
        <5>1. CASE i = next
          <6>1. L - next + 1 + i = L + 1
            BY <3>1, <3>3, <5>1
          <6> QED BY <3>1, <3>2, <5>0, <5>1, <6>1
        <5>2. CASE i < next
          <6>1. L - next + 1 + i \in 1 .. L
            BY <3>1, <3>3, <3>5, <5>2
          <6>2. samples'[i] = seen[L - next + 1 + i]
            BY <3>2, <3>3, <3>4, <3>5, <5>2
          <6> QED BY <3>1, <5>0, <6>1, <6>2
        <5> QED BY <3>3, <3>5, <4>1, <4>3, <5>1, <5>2
      <4>4. ASSUME filled' = btlBwWindow, NEW i \in R!Slot, i >= next'
            PROVE samples'[i] = seen'[Len(seen') - next' - btlBwWindow + 1 + i]
        <5>0. Len(seen') - next' - btlBwWindow + 1 + i = L - next - btlBwWindow + 1 + i
          BY <3>1, <3>3, <3>5, <4>1
        <5>1. filled = btlBwWindow /\ i > next
          BY <3>3, <3>5, <4>1, <4>2, <4>4
        <5>2. L - next - btlBwWindow + 1 + i \in 1 .. L
          BY <3>1, <3>3, <3>5, <5>1
        <5>3. samples'[i] = seen[L - next - btlBwWindow + 1 + i]
          BY <3>2, <3>3, <3>4, <3>5, <5>1
        <5> QED BY <3>1, <5>0, <5>2, <5>3
      <4> QED BY <3>1, <3>2, <4>2, <4>3, <4>4 DEF R!RingInv
    <3> QED BY <3>6, <3>7
  <2>2. CASE UNCHANGED R!vars
    BY <2>2 DEF R!vars, R!RingInv
  <2> QED BY <2>1, <2>2 DEF R!Next
<1> QED BY <1>1, <1>2, PTL DEF R!Spec

\* DeliveryRate and cwnd are computed from exactly the last btlBwWindow rates.
THEOREM RingIsTheWindowHolds ==
  ASSUME btlBwWindow \in Nat \ {0}
  PROVE  R!Spec => []R!RingIsTheWindow
<1>1. R!RingInv => R!RingIsTheWindow
  <2> SUFFICES ASSUME R!RingInv PROVE R!RingIsTheWindow OBVIOUS
  <2> DEFINE L == Len(seen)
             Old == {samples[i] : i \in {j \in R!Slot : j < filled}}
             New == {seen[k] : k \in {j \in 1 .. L : j > L - btlBwWindow}}
  <2>1. /\ L \in Nat /\ next \in Int /\ 0 <= next /\ next < btlBwWindow
        /\ filled \in Int /\ 0 <= filled /\ filled <= btlBwWindow /\ next <= L
        /\ filled < btlBwWindow => next = filled /\ L = filled
        /\ filled = btlBwWindow => L >= btlBwWindow + next
    BY DEF R!RingInv, R!Slot
  <2>2. /\ \A i \in R!Slot : i < next => samples[i] = seen[L - next + 1 + i]
        /\ filled = btlBwWindow =>
             \A i \in R!Slot : i >= next => samples[i] = seen[L - next - btlBwWindow + 1 + i]
    BY DEF R!RingInv
  <2>3. ASSUME NEW i \in R!Slot, i < filled
        PROVE  \E k \in 1 .. L : k > L - btlBwWindow /\ samples[i] = seen[k]
    <3>0. i \in Int /\ 0 <= i /\ i < btlBwWindow BY DEF R!Slot
    <3>1. CASE i < next
      <4>1. L - next + 1 + i \in 1 .. L /\ L - next + 1 + i > L - btlBwWindow
        BY <2>1, <3>0, <3>1
      <4> QED BY <2>2, <3>1, <4>1
    <3>2. CASE i >= next
      <4>1. filled = btlBwWindow
        BY <2>1, <2>3, <3>0, <3>2
      <4>2. /\ L - next - btlBwWindow + 1 + i \in 1 .. L
            /\ L - next - btlBwWindow + 1 + i > L - btlBwWindow
        BY <2>1, <3>0, <3>2, <4>1
      <4> QED BY <2>2, <3>2, <4>1, <4>2
    <3> QED BY <2>1, <3>0, <3>1, <3>2
  <2>4. ASSUME NEW k \in 1 .. L, k > L - btlBwWindow
        PROVE  \E i \in R!Slot : i < filled /\ samples[i] = seen[k]
    <3>0. k \in Int /\ 1 <= k /\ k <= L BY <2>1
    <3>1. CASE k > L - next
      <4> DEFINE i == k - (L - next + 1)
      <4>1. i \in R!Slot /\ i < next /\ i < filled /\ L - next + 1 + i = k
        BY <2>1, <3>0, <3>1 DEF R!Slot
      <4> HIDE DEF i
      <4>2. samples[i] = seen[k]
        BY <2>2, <4>1
      <4> QED BY <4>1, <4>2
    <3>2. CASE k <= L - next
      <4> DEFINE i == k - (L - next - btlBwWindow + 1)
      <4>0. filled = btlBwWindow
        BY <2>1, <3>0, <3>2
      <4>1. i \in R!Slot /\ i >= next /\ i < filled /\ L - next - btlBwWindow + 1 + i = k
        BY <2>1, <2>4, <3>0, <3>2, <4>0 DEF R!Slot
      <4> HIDE DEF i
      <4>2. samples[i] = seen[k]
        BY <2>2, <4>0, <4>1
      <4> QED BY <4>1, <4>2
    <3> QED BY <2>1, <3>0, <3>1, <3>2
  <2> HIDE DEF L
  <2>5. Old \subseteq New
    BY <2>3
  <2>6. New \subseteq Old
    BY <2>4
  <2> QED BY <2>5, <2>6 DEF R!RingIsTheWindow, L
<1> QED BY <1>1, RingInvHolds, PTL

\* Whatever the samples, a corrupted one included, cwnd stays within its two limits.
THEOREM WindowBoundedHolds ==
  ASSUME minCWND \in Int, maxCWND \in Int, initialCWND \in minCWND .. maxCWND,
         \A m, t \in Nat : Scaled(m, t) \in Int
  PROVE  R!Spec => []R!WindowBounded
<1>1. R!Init => R!WindowBounded
  BY DEF R!Init, R!WindowBounded
<1>2. R!WindowBounded /\ [R!Next]_(R!vars) => R!WindowBounded'
  <2> SUFFICES ASSUME R!WindowBounded, [R!Next]_(R!vars) PROVE R!WindowBounded' OBVIOUS
  <2>1. ASSUME NEW bps \in Nat, NEW rtProp \in Nat, R!Sample(bps, rtProp) PROVE R!WindowBounded'
    <3>1. PICK m \in Nat : cwnd' = R!Clamp(Scaled(m, rtProp))
      BY <2>1 DEF R!Sample
    <3>2. Scaled(m, rtProp) \in Int /\ minCWND <= maxCWND
      OBVIOUS
    <3>3. ASSUME NEW w \in Int PROVE R!Clamp(w) \in minCWND .. maxCWND
      BY <3>2 DEF R!Clamp
    <3> QED BY <3>1, <3>2, <3>3 DEF R!WindowBounded
  <2>2. CASE UNCHANGED R!vars
    BY <2>2 DEF R!vars, R!WindowBounded
  <2> QED BY <2>1, <2>2 DEF R!Next
<1> QED BY <1>1, <1>2, PTL DEF R!Spec

-----------------------------------------------------------------------------
(* Budget: the token bucket of a class *)

CONSTANTS Rate, Cap
VARIABLES now, tokens, last, mark, passed

B == INSTANCE Budget

\* The refill adds at most the time's yield, and a full bucket stays full.
LEMMA RefillBounds ==
  ASSUME Rate \in Nat, Cap \in Nat, B!BudgetInv
  PROVE  /\ B!Refilled \in Nat /\ B!Refilled <= Cap
         /\ B!Refilled <= tokens + (now - last) * Rate
<1>1. (now - last) * Rate \in Nat
  <2>1. now - last \in Nat
    BY DEF B!BudgetInv
  <2> QED BY <2>1
<1> DEFINE y == (now - last) * Rate
<1>2. y \in Nat BY <1>1
<1> HIDE DEF y
<1>3. B!Refilled = IF tokens + y > Cap THEN Cap ELSE tokens + y
  BY DEF B!Refilled, y
<1>4. /\ B!Refilled \in Nat /\ B!Refilled <= Cap /\ B!Refilled <= tokens + y
  BY <1>2, <1>3 DEF B!BudgetInv
<1> QED BY <1>4 DEF y

\* A refill from the last one to now fits the window from mark on.
LEMMA WindowGrows ==
  ASSUME Rate \in Nat, NEW a \in Nat, NEW b \in Nat, NEW c \in Nat, a <= b, b <= c
  PROVE  (b - a) * Rate + (c - b) * Rate = (c - a) * Rate /\ (c - a) * Rate >= 0
<1>1. PICK x \in Nat : b = a + x
  <2>1. b - a \in Nat /\ b = a + (b - a) OBVIOUS
  <2> QED BY <2>1
<1>2. PICK y \in Nat : c = b + y
  <2>1. c - b \in Nat /\ c = b + (c - b) OBVIOUS
  <2> QED BY <2>1
<1>3. b - a = x /\ c - b = y /\ c - a = x + y
  BY <1>1, <1>2
<1>4. x * Rate + y * Rate = (x + y) * Rate /\ (x + y) * Rate >= 0
  OBVIOUS
<1> QED BY <1>3, <1>4

\* Allow never lets a class exceed its configured rate by more than one burst, for
\* every rate and bucket size and every sequence of requests.
THEOREM RateCeilingHolds ==
  ASSUME Rate \in Nat, Cap \in Nat
  PROVE  B!Spec => []B!RateCeiling
<1>1. B!Init => B!BudgetInv
  <2> SUFFICES ASSUME B!Init PROVE B!BudgetInv OBVIOUS
  <2>1. (last - mark) * Rate = 0
    <3>1. last - mark = 0 BY DEF B!Init
    <3> QED BY <3>1
  <2> QED BY <2>1 DEF B!Init, B!BudgetInv
<1>2. B!BudgetInv /\ [B!Next]_(B!vars) => B!BudgetInv'
  <2> SUFFICES ASSUME B!BudgetInv, [B!Next]_(B!vars) PROVE B!BudgetInv' OBVIOUS
  <2>1. CASE B!Tick
    <3>1. now' \in Nat /\ now' >= now /\ last' = last /\ mark' = mark /\ tokens' = tokens /\ passed' = passed
      BY <2>1 DEF B!Tick
    <3> QED BY <3>1 DEF B!BudgetInv
  <2>2. CASE B!Watch
    <3>1. mark' = now /\ passed' = 0 /\ now' = now /\ last' = last /\ tokens' = tokens
      BY <2>2 DEF B!Watch
    <3>2. last >= now => (last - now) * Rate = 0
      <4>1. last >= now => last - now = 0 BY DEF B!BudgetInv
      <4> QED BY <4>1
    <3> QED BY <3>1, <3>2 DEF B!BudgetInv
  <2>3. ASSUME NEW n \in Nat, B!Allow(n) PROVE B!BudgetInv'
    <3>1. last' = now /\ now' = now /\ mark' = mark
      BY <2>3 DEF B!Allow
    <3>2. tokens' \in Nat /\ passed' \in Nat /\ tokens' <= Cap
          /\ passed' + tokens' = passed + B!Refilled
      BY <2>3, RefillBounds DEF B!Allow, B!BudgetInv
    <3>3. passed + B!Refilled <= Cap + (now - mark) * Rate
      <4>1. CASE last < mark
        <5>1. passed = 0 /\ B!Refilled <= Cap /\ B!Refilled \in Nat
          BY <4>1, RefillBounds DEF B!BudgetInv
        <5>2. (now - mark) * Rate \in Nat
          <6>1. now - mark \in Nat BY DEF B!BudgetInv
          <6> QED BY <6>1
        <5> QED BY <5>1, <5>2
      <4>2. CASE last >= mark
        <5> DEFINE u == (last - mark) * Rate
                   v == (now - last) * Rate
                   t == (now - mark) * Rate
        <5>1. u + v = t
          BY <4>2, WindowGrows DEF B!BudgetInv
        <5>2. passed + tokens <= Cap + u /\ B!Refilled <= tokens + v /\ B!Refilled \in Nat
          BY <4>2, RefillBounds DEF B!BudgetInv
        <5>3. u \in Int /\ v \in Int /\ t \in Int
          BY DEF B!BudgetInv
        <5>4. passed \in Nat /\ tokens \in Nat BY DEF B!BudgetInv
        <5> HIDE DEF u, v, t
        <5>5. passed + B!Refilled <= Cap + t
          BY <5>1, <5>2, <5>3, <5>4
        <5> QED BY <5>5 DEF t
      <4> QED BY <4>1, <4>2 DEF B!BudgetInv
    <3>4. (last' - mark') * Rate = (now - mark) * Rate
      BY <3>1
    <3>5. now \in Nat /\ mark \in Nat /\ mark <= now
      BY DEF B!BudgetInv
    <3>6. passed' + tokens' <= Cap + (last' - mark') * Rate
      BY <3>2, <3>3, <3>4
    <3>7. /\ now' \in Nat /\ last' \in Nat /\ mark' \in Nat
          /\ last' <= now' /\ mark' <= now' /\ ~(last' < mark')
      BY <3>1, <3>5
    <3> QED BY <3>2, <3>6, <3>7 DEF B!BudgetInv
  <2>4. CASE UNCHANGED B!vars
    BY <2>4 DEF B!vars, B!BudgetInv
  <2> QED BY <2>1, <2>2, <2>3, <2>4 DEF B!Next
<1>3. B!BudgetInv => B!RateCeiling
  <2> SUFFICES ASSUME B!BudgetInv PROVE B!RateCeiling OBVIOUS
  <2>1. CASE last < mark
    <3>1. (now - mark) * Rate \in Nat
      <4>1. now - mark \in Nat BY DEF B!BudgetInv
      <4> QED BY <4>1
    <3> QED BY <2>1, <3>1 DEF B!BudgetInv, B!RateCeiling
  <2>2. CASE last >= mark
    <3> DEFINE u == (last - mark) * Rate
               v == (now - last) * Rate
               t == (now - mark) * Rate
    <3>1. u + v = t
      BY <2>2, WindowGrows DEF B!BudgetInv
    <3>2. v \in Nat
      <4>1. now - last \in Nat BY DEF B!BudgetInv
      <4> QED BY <4>1
    <3>3. u \in Int /\ t \in Int /\ passed + tokens <= Cap + u /\ passed \in Nat /\ tokens \in Nat
      BY <2>2 DEF B!BudgetInv
    <3> HIDE DEF u, v, t
    <3>4. passed <= Cap + t
      BY <3>1, <3>2, <3>3
    <3> QED BY <3>4 DEF t, B!RateCeiling
  <2> QED BY <2>1, <2>2 DEF B!BudgetInv
<1> QED BY <1>1, <1>2, <1>3, PTL DEF B!Spec

-----------------------------------------------------------------------------
(* PairBond: the pairing codes and the registry of peers *)

CONSTANTS Code, Peer, CodeTTL, MaxPeers
VARIABLES codes, peers, issued, used, issuedAt, said

P == INSTANCE PairBond

\* PairBond's finiteness and cardinality are those the library's theorems are about.
LEMMA SameFiniteness == ASSUME NEW S PROVE P!IsFiniteSet(S) <=> IsFiniteSet(S)
BY DEF P!IsFiniteSet, IsFiniteSet

LEMMA SameCardinality == ASSUME NEW S PROVE P!Cardinality(S) = Cardinality(S)
BY DEF P!Cardinality, Cardinality

LEMMA BoundedPeers ==
  P!PeersBounded <=> IsFiniteSet(peers) /\ Cardinality(peers) <= MaxPeers
BY SameFiniteness, SameCardinality DEF P!PeersBounded

\* Every step keeps PairInv; the one that could break it is ConsumeOK.
LEMMA PairInvHolds ==
  ASSUME CodeTTL \in Nat
  PROVE  P!Spec => []P!PairInv
<1>1. P!Init => P!PairInv
  BY DEF P!Init, P!PairInv, P!UsedAtMostOnce
<1>2. P!PairInv /\ [P!Next]_(P!vars) => P!PairInv'
  <2> SUFFICES ASSUME P!PairInv, [P!Next]_(P!vars) PROVE P!PairInv' OBVIOUS
  <2>0. P!Kept \subseteq codes /\ \A e \in P!Kept : ~e.used
    BY DEF P!Kept
  <2>1. ASSUME NEW c \in Code, P!Issue(c) PROVE P!PairInv'
    <3> DEFINE new == [code |-> c, expires |-> now + CodeTTL, used |-> FALSE]
    <3>1. new \in P!Entry /\ new.code = c /\ new.expires = now + CodeTTL
      BY DEF P!Entry, P!PairInv
    <3>2. codes' = {e \in P!Kept : e.code # c} \cup {new}
      BY <2>1 DEF P!Issue
    <3>3. /\ issued' \in [Code -> Nat] /\ used' = used /\ now' = now
          /\ issuedAt' \in [Code -> Nat]
          /\ issued'[c] = issued[c] + 1 /\ issuedAt'[c] = now
          /\ \A d \in Code : d # c => issued'[d] = issued[d] /\ issuedAt'[d] = issuedAt[d]
      BY <2>1 DEF P!Issue, P!PairInv
    <3> HIDE DEF new
    <3>4. codes' \subseteq P!Entry /\ P!UsedAtMostOnce'
      BY <2>0, <3>1, <3>2, <3>3 DEF P!PairInv, P!UsedAtMostOnce
    <3>5. \A e \in codes' : e = new \/ (e \in codes /\ e.code # c /\ e.code \in Code)
      BY <2>0, <3>2 DEF P!PairInv, P!Entry
    <3>6. \A e \in codes' : ~e.used => used'[e.code] < issued'[e.code]
      BY <3>1, <3>3, <3>5 DEF P!PairInv, P!UsedAtMostOnce
    <3>7. \A e \in codes' : e.expires = issuedAt'[e.code] + CodeTTL
      BY <3>1, <3>3, <3>5 DEF P!PairInv
    <3>8. \A e, f \in codes' : e.code = f.code => e = f
      BY <3>1, <3>5 DEF P!PairInv
    <3> QED BY <3>3, <3>4, <3>6, <3>7, <3>8 DEF P!PairInv
  <2>2. ASSUME codes' = P!Kept, UNCHANGED <<now, issued, used, issuedAt>> PROVE P!PairInv'
    BY <2>0, <2>2 DEF P!PairInv, P!UsedAtMostOnce
  <2>3. ASSUME NEW c \in Code, P!ConsumeOK(c) PROVE P!PairInv'
    <3> DEFINE Spent(e) == [code |-> e.code, expires |-> e.expires, used |-> TRUE]
    <3>1. PICK e \in P!Kept : e.code = c
      BY <2>3 DEF P!ConsumeOK
    <3>2. e \in P!Entry /\ Spent(e) \in P!Entry /\ Spent(e).code = c
          /\ Spent(e).expires = e.expires /\ Spent(e).used
      BY <2>0, <3>1 DEF P!PairInv, P!Entry
    <3>3. {f \in P!Kept : f.code = c} = {e}
      BY <2>0, <3>1 DEF P!PairInv
    <3>4. codes' = {f \in P!Kept : f.code # c} \cup {Spent(e)}
      BY <2>3, <3>3 DEF P!ConsumeOK
    <3>5. /\ used' \in [Code -> Nat] /\ issued' = issued /\ now' = now /\ issuedAt' = issuedAt
          /\ used'[c] = used[c] + 1
          /\ \A d \in Code : d # c => used'[d] = used[d]
      BY <2>3 DEF P!ConsumeOK, P!PairInv
    <3>6. used[c] < issued[c] /\ e.expires = issuedAt[c] + CodeTTL
      BY <2>0, <3>1 DEF P!PairInv
    <3> DEFINE spent == Spent(e)
    <3>7. /\ spent \in P!Entry /\ spent.code = c /\ spent.expires = issuedAt[c] + CodeTTL
          /\ spent.used
      BY <3>2, <3>6
    <3>8. codes' = {f \in P!Kept : f.code # c} \cup {spent}
      BY <3>4
    <3> HIDE DEF spent
    <3>9. \A f \in codes' : f = spent \/ (f \in codes /\ f.code # c /\ f.code \in Code)
      BY <2>0, <3>8 DEF P!PairInv, P!Entry
    <3>10. codes' \subseteq P!Entry
      BY <3>7, <3>9 DEF P!PairInv
    <3>11. P!UsedAtMostOnce'
      BY <3>5, <3>6 DEF P!PairInv, P!UsedAtMostOnce
    <3>12. \A f \in codes' : ~f.used => used'[f.code] < issued'[f.code]
      BY <3>5, <3>7, <3>9 DEF P!PairInv
    <3>13. \A f \in codes' : f.expires = issuedAt'[f.code] + CodeTTL
      BY <3>5, <3>7, <3>9 DEF P!PairInv
    <3>14. \A f, g \in codes' : f.code = g.code => f = g
      BY <3>7, <3>9 DEF P!PairInv
    <3> QED BY <3>5, <3>10, <3>11, <3>12, <3>13, <3>14 DEF P!PairInv
  <2>4. ASSUME codes' = codes, now' \in Nat, UNCHANGED <<issued, used, issuedAt>> PROVE P!PairInv'
    BY <2>4 DEF P!PairInv, P!UsedAtMostOnce
  <2>5. CASE \E c \in Code : P!ConsumeBad(c) \/ P!ConsumeUsed(c)
    BY <2>2, <2>5 DEF P!ConsumeBad, P!ConsumeUsed
  <2>6. CASE (\E p \in Peer : P!Add(p) \/ P!Revoke(p)) \/ P!Tick \/ UNCHANGED P!vars
    BY <2>4, <2>6 DEF P!Add, P!Revoke, P!Tick, P!vars, P!PairInv
  <2> QED BY <2>1, <2>3, <2>5, <2>6 DEF P!Next
<1> QED BY <1>1, <1>2, PTL DEF P!Spec

\* Each pairing code a host issues lets in at most one peer.
THEOREM CodesAreSingleUse ==
  ASSUME CodeTTL \in Nat
  PROVE  P!Spec => []P!UsedAtMostOnce
<1>1. P!PairInv => P!UsedAtMostOnce
  BY DEF P!PairInv
<1> QED BY <1>1, PairInvHolds, PTL

\* Consume accepts no code after its CodeTTL, reissues included.
THEOREM CodesExpire ==
  ASSUME CodeTTL \in Nat
  PROVE  P!Spec => P!AcceptedInTime
<1>1. P!PairInv /\ [P!Next]_(P!vars)
        => [\A c \in Code : used'[c] # used[c] => now <= issuedAt[c] + CodeTTL]_(P!vars)
  <2> SUFFICES ASSUME P!PairInv, P!Next, NEW c \in Code, used'[c] # used[c]
               PROVE  now <= issuedAt[c] + CodeTTL
    OBVIOUS
  <2>1. PICK d \in Code : P!ConsumeOK(d)
    BY DEF P!Next, P!Issue, P!ConsumeBad, P!ConsumeUsed, P!Add, P!Revoke, P!Tick
  <2>2. d = c
    BY <2>1 DEF P!ConsumeOK, P!PairInv
  <2>3. PICK e \in P!Kept : e.code = c /\ now <= e.expires
    BY <2>1, <2>2 DEF P!ConsumeOK
  <2> QED BY <2>3 DEF P!Kept, P!PairInv
<1> QED BY <1>1, PairInvHolds, PTL DEF P!Spec, P!AcceptedInTime

\* A code that was used already is reported as bad, never as used, although the comment
\* on Consume promises ErrCodeUsed for it.
THEOREM UsedIsNeverReported == P!Spec => []P!NeverSaysUsed
<1>1. P!Init => P!NeverSaysUsed
  BY DEF P!Init, P!NeverSaysUsed
<1>2. P!NeverSaysUsed /\ [P!Next]_(P!vars) => P!NeverSaysUsed'
  <2> SUFFICES ASSUME P!NeverSaysUsed, [P!Next]_(P!vars) PROVE P!NeverSaysUsed' OBVIOUS
  <2>1. ASSUME NEW c \in Code, P!ConsumeUsed(c) PROVE FALSE
    BY <2>1 DEF P!ConsumeUsed, P!Kept
  <2> QED BY <2>1 DEF P!Next, P!Issue, P!ConsumeBad, P!ConsumeOK, P!Add, P!Revoke, P!Tick, P!vars, P!NeverSaysUsed
<1> QED BY <1>1, <1>2, PTL DEF P!Spec

\* Add keeps the registry within MaxPeers, whatever is added and revoked.
THEOREM RegistryIsBounded ==
  ASSUME MaxPeers \in Nat
  PROVE  P!Spec => []P!PeersBounded
<1> DEFINE Bounded == IsFiniteSet(peers) /\ Cardinality(peers) <= MaxPeers
<1>1. P!Init => Bounded
  BY FS_EmptySet DEF P!Init
<1>2. Bounded /\ [P!Next]_(P!vars) => Bounded'
  <2> SUFFICES ASSUME Bounded, [P!Next]_(P!vars) PROVE Bounded' OBVIOUS
  <2>0. Cardinality(peers) \in Nat
    BY FS_CardinalityType
  <2>1. ASSUME NEW p \in Peer, P!Add(p) PROVE Bounded'
    <3>1. /\ peers' = peers \cup {p} /\ p \notin peers /\ Cardinality(peers) < MaxPeers
          /\ IsFiniteSet(peers)
      BY <2>1, SameCardinality DEF P!Add
    <3>2. IsFiniteSet(peers \cup {p}) /\ Cardinality(peers \cup {p}) = Cardinality(peers) + 1
      BY <3>1, FS_AddElement
    <3>3. Cardinality(peers) + 1 <= MaxPeers
      BY <2>0, <3>1
    <3> QED
      BY <3>1, <3>2, <3>3
  <2>2. ASSUME NEW p \in Peer, P!Revoke(p) PROVE Bounded'
    <3>1. peers' = peers \ {p} /\ p \in peers /\ Cardinality(peers) <= MaxPeers /\ IsFiniteSet(peers)
      BY <2>2 DEF P!Revoke
    <3>2. IsFiniteSet(peers \ {p}) /\ Cardinality(peers \ {p}) = Cardinality(peers) - 1
      BY <3>1, FS_RemoveElement
    <3>3. Cardinality(peers) - 1 <= MaxPeers
      BY <2>0, <3>1
    <3> QED
      BY <3>1, <3>2, <3>3
  <2>3. CASE UNCHANGED peers
    BY <2>3
  <2> QED
    BY <2>1, <2>2, <2>3 DEF P!Next, P!Issue, P!ConsumeBad, P!ConsumeUsed, P!ConsumeOK, P!Tick, P!vars
<1>3. Bounded => P!PeersBounded
  BY BoundedPeers
<1> QED BY <1>1, <1>2, <1>3, PTL DEF P!Spec
=============================================================================
