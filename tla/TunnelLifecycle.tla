-------------------------- MODULE TunnelLifecycle ---------------------------
(***************************************************************************)
(* The life of a client tunnel on Android, in three layers: the service    *)
(* that connects and disconnects (BondifyVpnService.kt), the Tunnel object *)
(* it holds (mobile/mobile.go), and ClientTunnel.Run with its goroutines   *)
(* (core/bond/client.go).                                                  *)
(*                                                                         *)
(* Every CONNECT starts a thread, which makes its own Tunnel; connects are *)
(* numbered.  The service's main thread disconnects at the user's wish, in *)
(* onRevoke or in onDestroy, also while a connect thread is at work.  A    *)
(* goroutine that Run waits for is a worker.  What the packets do is left  *)
(* to the other modules: here a read or write succeeds, blocks or fails.   *)
(***************************************************************************)
EXTENDS Integers, FiniteSets

CONSTANTS
  Paths,           \* the paths of a tunnel
  MaxConnects      \* bound: CONNECT commands

ASSUME LifecycleAssumption == MaxConnects \in Nat /\ IsFiniteSet(Paths)

Connects == 1..MaxConnects
NoTunnel == 0
Workers == {"tunToNet", "drainReorderToTun"} \cup Paths

\* Mutant: room for one result only.
CapacityOne == 1

\* The capacity of errCh.
Capacity == Cardinality(Workers)

VARIABLES
  commands,      \* CONNECTs so far
  main,          \* where the main thread is: in disconnect(), or between stopSelf
                 \* and the end of onDestroy
  tunnel, tunFd, status,   \* the service's fields
  wanted,        \* the last command was CONNECT (history)
  thread,        \* where each connect thread is
  ctx,           \* whether the Tunnel's context is cancelled
  dev, conns,    \* whether the TUN device and the sockets are open
  run,           \* where the goroutine of AttachTUN is
  worker,        \* the goroutines that report to errCh
  errs,          \* messages in errCh
  helpers,       \* probeLoops and fecMaintenanceLoop run
  result,        \* Run's error, then Tunnel.runErr; "none" after Close
  awaiter        \* the thread in AwaitExit

serviceVars == <<commands, main, tunnel, tunFd, status, wanted>>
goVars == <<ctx, dev, conns, run, worker, errs, helpers, result>>
vars == <<serviceVars, thread, goVars, awaiter>>

TypeOK ==
  /\ commands \in 0..MaxConnects
  /\ main \in {"idle", "clear", "destroy", "destroyClear", "destroyed"}
  /\ tunnel \in 0..MaxConnects /\ tunFd \in 0..MaxConnects
  /\ status \in {"disconnected", "connecting", "connected", "failed"}
  /\ wanted \in BOOLEAN
  /\ thread \in [Connects -> {"none", "handshake", "establish", "attach", "publish",
                              "show", "catch", "close", "clear", "over"}]
  /\ ctx \in [Connects -> {"live", "cancelled"}]
  /\ dev \in [Connects -> BOOLEAN] /\ conns \in [Connects -> BOOLEAN]
  /\ run \in [Connects -> {"off", "select", "closing", "returned", "done"}]
  /\ worker \in [Connects -> [Workers -> {"off", "run", "gone"}]]
  /\ errs \in [Connects -> 0..Cardinality(Workers)]
  /\ helpers \in [Connects -> BOOLEAN]
  /\ result \in [Connects -> {"none", "error"}]
  /\ awaiter \in [Connects -> {"none", "waiting", "returned"}]

Init ==
  /\ commands = 0 /\ main = "idle"
  /\ tunnel = NoTunnel /\ tunFd = NoTunnel /\ status = "disconnected" /\ wanted = FALSE
  /\ thread = [c \in Connects |-> "none"]
  /\ ctx = [c \in Connects |-> "live"]
  /\ dev = [c \in Connects |-> FALSE] /\ conns = [c \in Connects |-> FALSE]
  /\ run = [c \in Connects |-> "off"]
  /\ worker = [c \in Connects |-> [w \in Workers |-> "off"]]
  /\ errs = [c \in Connects |-> 0] /\ helpers = [c \in Connects |-> FALSE]
  /\ result = [c \in Connects |-> "none"] /\ awaiter = [c \in Connects |-> "none"]

-----------------------------------------------------------------------------
(* The service *)

\* onStartCommand with CONNECT: a thread of its own does the work.
Connect ==
  /\ main = "idle" /\ commands < MaxConnects
  /\ commands' = commands + 1 /\ wanted' = TRUE
  /\ status' = "connecting"
  /\ thread' = [thread EXCEPT ![commands + 1] = "handshake"]
  /\ UNCHANGED <<main, tunnel, tunFd, goVars, awaiter>>

\* Paths are acquired and Handshake returns a Tunnel, or one of them throws.
Handshake(c) ==
  /\ thread[c] = "handshake"
  /\ \/ /\ thread' = [thread EXCEPT ![c] = "establish"]
        /\ conns' = [conns EXCEPT ![c] = TRUE]
     \/ /\ thread' = [thread EXCEPT ![c] = "catch"]
        /\ UNCHANGED conns
  /\ UNCHANGED <<serviceVars, ctx, dev, run, worker, errs, helpers, result, awaiter>>

\* The VPN interface is built for the assigned address; establish() may return null.
Establish(c) ==
  /\ thread[c] = "establish"
  /\ \/ /\ thread' = [thread EXCEPT ![c] = "attach"]
        /\ dev' = [dev EXCEPT ![c] = TRUE]
        /\ tunFd' = c
     \/ /\ thread' = [thread EXCEPT ![c] = "catch"]
        /\ UNCHANGED <<dev, tunFd>>
  /\ UNCHANGED <<commands, main, tunnel, status, wanted,
                 ctx, conns, run, worker, errs, helpers, result, awaiter>>

\* AttachTUN adopts the descriptor and starts Run and its goroutines; it fails if
\* the descriptor has been closed meanwhile.
AttachTUN(c) ==
  /\ thread[c] = "attach"
  /\ \/ /\ dev[c]
        /\ thread' = [thread EXCEPT ![c] = "publish"]
        /\ run' = [run EXCEPT ![c] = "select"]
        /\ worker' = [worker EXCEPT ![c] = [w \in Workers |-> "run"]]
        /\ helpers' = [helpers EXCEPT ![c] = TRUE]
     \/ /\ thread' = [thread EXCEPT ![c] = "catch"]
        /\ UNCHANGED <<run, worker, helpers>>
  /\ UNCHANGED <<serviceVars, ctx, dev, conns, errs, result, awaiter>>

\* Only now does the service know the Tunnel.
Publish(c) ==
  /\ thread[c] = "publish"
  /\ tunnel' = c
  /\ thread' = [thread EXCEPT ![c] = "show"]
  /\ UNCHANGED <<commands, main, tunFd, status, wanted, goVars, awaiter>>

\* The status is set, and runThread starts to wait in awaitExit.
Show(c) ==
  /\ thread[c] = "show"
  /\ status' = "connected"
  /\ awaiter' = [awaiter EXCEPT ![c] = "waiting"]
  /\ thread' = [thread EXCEPT ![c] = "over"]
  /\ UNCHANGED <<commands, main, tunnel, tunFd, wanted, goVars>>

\* The handler of an exception shows the failure, then calls disconnect().
Catch(c) ==
  /\ thread[c] = "catch"
  /\ status' = "failed"
  /\ thread' = [thread EXCEPT ![c] = "close"]
  /\ UNCHANGED <<commands, main, tunnel, tunFd, wanted, goVars, awaiter>>

\* The first half of disconnect(): Close of the Tunnel that the service knows.
CloseTunnel ==
  ctx' = [c \in Connects |-> IF c = tunnel THEN "cancelled" ELSE ctx[c]]

\* The second half: the fields are cleared and the descriptor is closed.
ClearFields ==
  /\ tunnel' = NoTunnel /\ tunFd' = NoTunnel /\ status' = "disconnected"
  /\ dev' = [c \in Connects |-> IF c = tunFd THEN FALSE ELSE dev[c]]

\* disconnect() on the main thread, at the user's wish or in onRevoke.  It ends with
\* stopSelf, so that onDestroy follows.
DisconnectClose ==
  /\ main = "idle" /\ commands > 0
  /\ main' = "clear" /\ wanted' = FALSE
  /\ CloseTunnel
  /\ UNCHANGED <<commands, tunnel, tunFd, status, thread, dev, conns, run, worker, errs,
                 helpers, result, awaiter>>

DisconnectClear ==
  /\ main = "clear" /\ main' = "destroy"
  /\ ClearFields
  /\ UNCHANGED <<commands, wanted, thread, ctx, conns, run, worker, errs, helpers, result, awaiter>>

\* onDestroy calls disconnect() once more.
OnDestroyClose ==
  /\ main = "destroy" /\ main' = "destroyClear"
  /\ CloseTunnel
  /\ UNCHANGED <<commands, wanted, tunnel, tunFd, status, thread, dev, conns, run, worker, errs,
                 helpers, result, awaiter>>

OnDestroyClear ==
  /\ main = "destroyClear" /\ main' = "destroyed"
  /\ ClearFields
  /\ UNCHANGED <<commands, wanted, thread, ctx, conns, run, worker, errs, helpers, result, awaiter>>

\* disconnect() on a connect thread that failed.
CatchClose(c) ==
  /\ thread[c] = "close"
  /\ thread' = [thread EXCEPT ![c] = "clear"]
  /\ CloseTunnel
  /\ UNCHANGED <<serviceVars, dev, conns, run, worker, errs, helpers, result, awaiter>>

CatchClear(c) ==
  /\ thread[c] = "clear"
  /\ thread' = [thread EXCEPT ![c] = "over"]
  /\ main' = IF main = "idle" THEN "destroy" ELSE main
  /\ ClearFields
  /\ UNCHANGED <<commands, wanted, ctx, conns, run, worker, errs, helpers, result, awaiter>>

-----------------------------------------------------------------------------
(* Run and its goroutines *)

\* What makes a worker return for certain: the device that closeAll has closed fails
\* tunToNet's read and a closed socket pathReadLoop's; drainReorderToTun selects on
\* the context.  A descriptor that only the service has closed need not wake a read.
MustEnd(c, w) ==
  CASE w = "tunToNet" -> ~dev[c] /\ run[c] \in {"closing", "returned", "done"}
    [] w = "drainReorderToTun" -> ctx[c] = "cancelled"
    [] OTHER -> ~conns[c]

\* Mutant: a worker reports its error and then its return as well.
SendErrTwice(c, w) ==
  /\ worker[c][w] = "run" /\ errs[c] < Capacity
  /\ worker' = [worker EXCEPT ![c][w] = "gone"]
  /\ errs' = [errs EXCEPT ![c] = @ + 2]
  /\ UNCHANGED <<serviceVars, thread, ctx, dev, conns, run, helpers, result, awaiter>>

\* errCh <- ...: a worker hands in its result and is gone; it stays if the channel
\* is full.
SendErr(c, w) ==
  /\ worker[c][w] = "run" /\ errs[c] < Capacity
  /\ worker' = [worker EXCEPT ![c][w] = "gone"]
  /\ errs' = [errs EXCEPT ![c] = @ + 1]
  /\ UNCHANGED <<serviceVars, thread, ctx, dev, conns, run, helpers, result, awaiter>>

WorkerEnds(c, w) == MustEnd(c, w) /\ SendErr(c, w)

\* An error of the device or the socket, or a packet that lets a worker see the
\* cancelled context, may end it as well.
WorkerFails(c, w) == ~MustEnd(c, w) /\ SendErr(c, w)

\* Mutant: the sockets are closed, the device is left to its reader.
CloseAllSockets(c) ==
  /\ conns' = [conns EXCEPT ![c] = FALSE]
  /\ UNCHANGED dev

CloseAll(c) ==
  /\ dev' = [dev EXCEPT ![c] = FALSE]
  /\ conns' = [conns EXCEPT ![c] = FALSE]

\* Run's select takes the cancelled context: it closes everything, then waits for
\* one worker.
RunCancelled(c) ==
  /\ run[c] = "select" /\ ctx[c] = "cancelled"
  /\ CloseAll(c)
  /\ run' = [run EXCEPT ![c] = "closing"]
  /\ UNCHANGED <<serviceVars, thread, ctx, worker, errs, helpers, result, awaiter>>

RunReceives(c) ==
  /\ run[c] = "closing" /\ errs[c] > 0
  /\ errs' = [errs EXCEPT ![c] = @ - 1]
  /\ run' = [run EXCEPT ![c] = "returned"]
  /\ UNCHANGED <<serviceVars, thread, ctx, dev, conns, worker, helpers, result, awaiter>>

\* Run's select takes the first worker's result: everything is closed; the
\* context is not cancelled.
RunFailed(c) ==
  /\ run[c] = "select" /\ errs[c] > 0
  /\ CloseAll(c)
  /\ errs' = [errs EXCEPT ![c] = @ - 1]
  /\ run' = [run EXCEPT ![c] = "returned"]
  /\ result' = [result EXCEPT ![c] = "error"]
  /\ UNCHANGED <<serviceVars, thread, ctx, worker, helpers, awaiter>>

\* Mutant: done is closed only after a clean return.
RunDoneClean(c) ==
  /\ run[c] = "returned" /\ ctx[c] = "cancelled"
  /\ result' = [result EXCEPT ![c] = "none"]
  /\ run' = [run EXCEPT ![c] = "done"]
  /\ UNCHANGED <<serviceVars, thread, ctx, dev, conns, worker, errs, helpers, awaiter>>

\* The goroutine of AttachTUN stores runErr, nil after Close, and closes done.
RunDone(c) ==
  /\ run[c] = "returned"
  /\ result' = [result EXCEPT ![c] = IF ctx[c] = "cancelled" THEN "none" ELSE @]
  /\ run' = [run EXCEPT ![c] = "done"]
  /\ UNCHANGED <<serviceVars, thread, ctx, dev, conns, worker, errs, helpers, awaiter>>

\* probeLoop and fecMaintenanceLoop return when they see the cancelled context.
HelpersEnd(c) ==
  /\ helpers[c] /\ ctx[c] = "cancelled"
  /\ helpers' = [helpers EXCEPT ![c] = FALSE]
  /\ UNCHANGED <<serviceVars, thread, ctx, dev, conns, run, worker, errs, result, awaiter>>

\* AwaitExit returns once done is closed; the service shows an error.
AwaitExit(c) ==
  /\ awaiter[c] = "waiting" /\ run[c] = "done"
  /\ awaiter' = [awaiter EXCEPT ![c] = "returned"]
  /\ status' = IF result[c] = "error" THEN "failed" ELSE status
  /\ UNCHANGED <<commands, main, tunnel, tunFd, wanted, thread, goVars>>

-----------------------------------------------------------------------------
ConnectThread(c) ==
  \/ Handshake(c) \/ Establish(c) \/ AttachTUN(c) \/ Publish(c) \/ Show(c)
  \/ Catch(c) \/ CatchClose(c) \/ CatchClear(c)

RunGoroutine(c) == RunCancelled(c) \/ RunReceives(c) \/ RunFailed(c) \/ RunDone(c)

Next ==
  \/ Connect \/ DisconnectClose \/ DisconnectClear \/ OnDestroyClose \/ OnDestroyClear
  \/ \E c \in Connects :
       \/ ConnectThread(c) \/ RunGoroutine(c) \/ HelpersEnd(c) \/ AwaitExit(c)
       \/ \E w \in Workers : WorkerEnds(c, w) \/ WorkerFails(c, w)

Spec == Init /\ [][Next]_vars

\* Every thread and goroutine that can go on does so.  That commands come and
\* that devices fail is not assumed.
Fairness ==
  /\ WF_vars(DisconnectClear \/ OnDestroyClose \/ OnDestroyClear)
  /\ \A c \in Connects :
       /\ WF_vars(ConnectThread(c)) /\ WF_vars(RunGoroutine(c))
       /\ WF_vars(HelpersEnd(c)) /\ WF_vars(AwaitExit(c))
       /\ \A w \in Workers : WF_vars(WorkerEnds(c, w))
FairSpec == Spec /\ Fairness

-----------------------------------------------------------------------------
(* Properties *)

\* No goroutine is ever stuck on errCh, although Run receives one result only: for
\* every one that still runs there is a free slot, after Run has returned too.
WorkersNeverBlock ==
  \A c \in Connects : \A w \in Workers : worker[c][w] = "run" => errs[c] < Capacity

\* Once Run has left its select, its device and its sockets are closed and stay so:
\* nothing is open any more when AwaitExit returns.
ClosedOnExit ==
  \A c \in Connects :
    run[c] \in {"closing", "returned", "done"} => ~dev[c] /\ ~conns[c]

\* AwaitExit never hangs: once Close is called, or any worker has returned, be it
\* the reader of one path of several, the thread in AwaitExit gets its answer.
AwaitExitReturns ==
  \A c \in Connects :
    /\ awaiter[c] = "waiting"
    /\ ctx[c] = "cancelled" \/ \E w \in Workers : worker[c][w] = "gone"
    ~> awaiter[c] = "returned"

\* Close leaves nothing behind: every worker gets rid of its result although Run
\* receives only one of them, the helper loops return, and device and sockets are
\* closed, whether Close comes before, during or after a failure.
CloseLeavesNothing ==
  \A c \in Connects :
    ctx[c] = "cancelled" ~>
      /\ \A w \in Workers : worker[c][w] = "gone"
      /\ ~helpers[c] /\ ~dev[c] /\ ~conns[c]

-----------------------------------------------------------------------------
(* What the repository says, and the code does not do *)

\* After a disconnect, and until the next CONNECT, every tunnel goes down.
\* onRevoke "must still tear down cleanly, not just die."
DisconnectTearsDown ==
  ~wanted ~> (wanted \/ \A c \in Connects : run[c] \in {"off", "done"})
=============================================================================
