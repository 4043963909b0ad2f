# Bondify: a TLA+ verification project

Bondify bonds several uplinks into one VPN tunnel (the BOND/1 protocol). A client opens one UDP
socket per uplink, performs one Noise handshake with a relay, adds the other uplinks as paths of
the same session, and spreads the packets of a TUN device over the paths. The receiving side
puts them back into order. This directory models the parts of that system whose correctness
depends on interleavings, losses, retries, timers and long histories. TLC checks the models on
small instances; TLAPS proves, for every size, the safety properties that these runs check, and
those of three smaller components that are not run. Liveness stays with TLC.

Source paths below are relative to the repository root.

## Inventory

| Part | State | Operations | What makes it hard |
|---|---|---|---|
| Reorder buffer, `core/reorder/buffer.go` | heap, `inHeap`, cursor, byte count, head timer, bounded channel | `Push`, `onDeadline`, reading `Out` | late timer callbacks, copies, overflow, a slow reader |
| Transport session, `core/crypto/session.go`, `replay.go` | send counter and replay window per path | `Seal`, `Open` | concurrent first use of a path, check and mark in two critical sections, word shifts |
| Session establishment, `core/bond/client.go`, `relay.go`, `pool.go` | three session tables, address pool, dial progress, `ServeReorder`'s index set | `DialHandshake`, `addPath`, the relay's handlers, `livenessLoop`, `ServeReorder` | lost, late and repeated packets; reconnects; retries of what was already done |
| Path health, `core/bond/path.go`, `client.go` | state, loss estimate, probe counters, time of last activity | `HandleProbeAck`, `HandleProbeMissed`, `RecordRecv`, `probeLoop` | two goroutines that mix a mutex with separate atomics |
| Forward error correction, `core/bond/fec.go`, `core/fec/fec.go` | open generation; received generations | `sendSpeed`, `NextSlot`, `Record`, `Flush`, `HandleData`, `HandleFEC`, `GC` | `Flush` between slot and record; failed writes; data beyond the end of a cut generation |
| Schedulers and path choices, `core/sched`, `core/bond/mode.go` | cursors, credits, lambda | `Next` of four tiers, `selectRedundantPaths`, `healthiestPath` | path sets that change between calls, ties, unmeasured paths, map order on the relay |
| Congestion control, `core/cc` | ring of rates, window | `Sample` | a ring that fills and wraps |
| Budgets, `core/budget` | token bucket | `Allow` | every window of time, not only the ones that start at a refill |
| PairBond, `core/pairbond` | codes, registry | `Issue`, `Consume`, `Add`, `Revoke` | collection inside every call, codes drawn twice |
| Lifecycle, the Android service, `mobile/mobile.go`, `ClientTunnel.Run` | service fields, context, device, sockets, goroutines, result channel | `connect`, `disconnect`, `onDestroy`, `Handshake`, `AttachTUN`, `AwaitExit`, `Close` | calls in unexpected order, one failing worker, a disconnect during a connect |
| Noise, wire format, settings, TUN devices, NAT, commands, diagnostics | none, or the operating system's | encoding, I/O | not modelled, see below |

The parts meet as follows. `Seal` and `Open` guard every packet. A packet that opens is counted
on its path (path health), kept for its FEC generation and pushed into the session's reorder
buffer; path states decide what the schedulers may choose; the relay's tables decide which
session, and so which keys and which reorder buffer, a packet meets. The lifecycle decides when
the goroutines that do all this exist.

## Modules

| Module | Models |
|---|---|
| `OrderedDelivery` | what the reorder buffer promises: an increasing stream in which gaps are declared lost and counted |
| `ReorderBuffer` | the buffer; implements `OrderedDelivery` |
| `MCReorderBuffer` | TLC instance; compares `DrainLocked` with the loop of `drainLocked` over all small heaps |
| `ReorderBufferProofs` | proofs about `ReorderBuffer` |
| `ReplayWindow` | the replay window as the set of seen offsets below the maximum |
| `CryptoSession` | `Seal` and `Open` of one direction of a session |
| `MCCryptoSession` | TLC instance with symmetry |
| `CryptoSessionProofs` | proofs about `CryptoSession` and `ReplayBitmap` |
| `ReplayBitmap` | the word array of `replay.go`, compared with `ReplayWindow` |
| `RelaySessions` | dialling, joining paths, and the relay's tables and background loops |
| `RelaySessionsProofs` | proofs about `RelaySessions` |
| `PathHealth` | one client path with its prober and its reader |
| `Fec` | one direction of forward error correction: sender, network and receiver |
| `FecProofs` | proofs about `Fec` |
| `Schedulers` | the four tiers, and the path choices for REDUNDANT copies and for parity |
| `SchedulerFacts` | lemmas about what the operators of `Schedulers` answer |
| `SchedulersProofs` | proofs about `Schedulers` |
| `TunnelLifecycle` | the Android service, the bound `Tunnel` and the goroutines of `Run` |
| `DeliveryRate` | the ring of delivery rates and the window |
| `Budget` | the token bucket |
| `PairBond` | pairing codes and the peer registry |
| `StateMachineProofs` | proofs about `TunnelLifecycle`, `PathHealth`, `DeliveryRate`, `Budget` and `PairBond` |
| `FiniteFacts` | lemmas about sums, loops, ordered lists and credits that several proofs use |

### ReorderBuffer

Each method of `Buffer` runs under one mutex and is one action. The heap counts copies of a
sequence number, so that a missing duplicate check is visible. `Push` covers the early returns,
the insertion, both drains, the overflow release and the timer. A timer is `armed`, then its
callback is `fired` and waits for the mutex, then `OnDeadline` runs; stopping the timer does not
recall a fired callback, as in Go. Packet sizes enter as byte offsets, so that the bytes of a
released run are a difference. `arrived`, `delivered` and `lost` are history.

### CryptoSession, ReplayWindow, ReplayBitmap

`LookupCounter` is `nextSendCounter` up to the unlock, `SealPacket` the atomic increment and the
sealing. `OpenCheck` ends after `CheckOnly`; `OpenVerify` is authentication and `MarkSeen`. There
is one reader per path, as in the client and the relay. The cipher is external: a packet is
intact or it is not. `ReplayBitmap` carries out `CheckOnly`, `MarkSeen` and `shiftWords` on words
of `WordBits` bits, each the set of the positions of its one bits. The loop of `shiftWords`
overwrites the array it reads, from the last word down; a recursive function gives the array after
each iteration. The answers are compared with those of `ReplayWindow` for every counter after
every step.

### RelaySessions

A session stands for the keys that one handled INIT creates. `client[c].pc` is the place in
`DialHandshake` or `addPath`; `try` counts attempts. The relay reads its socket in one goroutine
and changes its tables under one lock, so each handler is one action. `Timeout` ends an attempt
by deadline, or because return traffic was read where the reply was expected. A packet that is
lost, or that a handler drops silently, is one that stays in `net` unread. `livenessLoop` works
on a snapshot of the tables; a session that leaves them in between never returns, so acting on
current sessions is enough. `pending` is the set of sessions with packets ready for the TUN
device. Addresses of packets, and so NAT rebinding, are left out, and so are the error returns of
`handleHandshakeInit` after `Allocate` (`relay.go:523-532`), taken
if the configuration cannot be encoded or the reply not made, when a new client's address stays
allocated. `IPPool.Release` has no caller.

### PathHealth

The fields under `Path.mu` change in one step. `state` and `lastProbeAckAt` are atomics, and every
access that matters is a step of its own: `AckCall`, `AckFold`, `AckStamp`, `AckDecide` and
`AckStore` for `HandleProbeAck`; `Tick`, `MissFold`, `MissDegrade`, `MissSilent`, `MissKill`,
`SendProbe` and `ReadStamp` for `probeLoop` with `HandleProbeMissed`. Time is counted in probe
intervals and passes in `Elapse`, which also fills the ticker's channel of one place, whatever the
two goroutines are doing: neither waits for the other, either may be held up anywhere for any
time, and a tick that is taken late may be followed at once by the next. `reader.age` is the age
of the argument `now` of `HandleProbeAck`, which it stores in `lastProbeAckAt`; it is kept after
the return, as history. The loss estimate is a percentage rounded down; the interval's loss is
computed from what was sent and any count the relay may have received, the probe included. RTT
statistics are left out.

### Fec

`sendSpeed` is four steps, because `fecMaintenanceLoop` may `Flush` between any two of them:
`TakeSlot` (the GSN and `NextSlot`), `Write` or `WriteFails`, and `Record`, which drops a place
that has become stale and closes a full generation. `CloseLocked` computes the number of parity
shards from the loss estimate and sends them in the same step, as the code does under the lock.
On the receiving side each method of `fecGenBuffer` holds its mutex and is one action. A packet is
known by its GSN, so the plaintext that FEC protects is the header with GSN, generation and index.
Reed-Solomon is external: any `n` shards of one codeword determine it, and shards of different
codewords yield something that is no packet, so that mixing generations would be seen.
`written` and `recovered` are history.

### Schedulers

`mode` is what chooses and `side` where it runs. A call sees a view of all paths (state and room,
RTT, goodput, loss), any view at any call; the relay lists any paths in any order, since
`schedPaths` walks a Go map. Each tier is an operator from list, view and state to the set of
its possible answers. That is a single one, except where an out-of-range conversion to
`time.Duration` leaves the outcome to the platform (tier 4) and in `selectRedundantPaths`, whose
`sort.Slice` is not stable. `MaxWeight` bounds how many times the goodput of the slowest measured
path a goodput may be, and so the integer weights of tier 2, where the code divides `float64`
values. One view serves a whole call. The code reads `RTTMin` of a path more than once in a call;
when a sample arrives in between, the tied set may come out different, or empty, and tiers 3 and 4
then return no path (`tier3_min_rtt_cwnd.go:104`) or go on to the slower ones
(`tier4_hol_aware.go:58`). `tied` and `wait` are history.

### TunnelLifecycle

Every CONNECT starts a thread that goes through `Handshake`, `Establish`, `AttachTUN`, `Publish`
and `Show`, or into its `catch` block; the main thread disconnects or destroys the service at any
time, in two steps because the fields it clears are shared. `Run` starts one worker per path and
two more, which report to `errCh`; the helper loops end only with the context. A read or write
blocks, succeeds or fails. `tunToNet` is sure to end once `closeAll` has closed the device; that
the service alone closed the descriptor may wake its read or not.

### DeliveryRate, Budget, PairBond

Each is one mutex-protected object, and each of its methods one action over unbounded naturals.
They have no TLC instance: time, rates and histories have no natural bound, and the proofs cover
all of them. `Budget` computes in whole numbers where the code uses `float64`; `DeliveryRate`
takes the product that is clamped to the window as some whole number.

## Runs

| Run | Instance | Shows |
|---|---|---|
| `reorder` | 5 packets of 1 or 2 bytes, budget 3, channel of 2 | order, single delivery, exact byte count, a timer for every head, refinement of `OrderedDelivery`, nothing is held for ever |
| `crypto_session` | 2 paths, 2 sealing goroutines, 4 counters, window 2 | unique nonces, single acceptance, no counter used up by a damaged packet |
| `replay_bitmap` | 3 words of 3 bits, counters to 20 | the word array answers as the set does |
| `relay_sessions` | 2 clients, 2 paths each, 2 attempts, 2 handshakes, duplication | tables agree, one address per client, paths are joined before use; dialling ends; unused relay paths that were heard die |
| `relay_drain` | 1 client, no duplication | violated: `EverySessionDrained` |
| `relay_keys` | 1 client, no duplication | violated: `KeysAgree` |
| `fec` | generations of 3, 4 packets, loss 0 or 20 %, up to 2 parity shards | unique places, parity after data, what is reconstructed was sent, a completing parity packet leaves nothing missing, partial generations are closed |
| `path_health` | 3 misses, 2 answers, dead after more than 2 intervals, degraded above 5 % | misses degrade a path unless a `HandleProbeAck` took an interval or more; recovery, death, a path that was given up stays DEAD |
| `path_unprobed` | 3 misses, 3 answers, dead after more than 4 intervals, degraded above 15 % | violated: `NoUnprobedPath` |
| `schedulers` | 3 paths, RTTs of 20, 22, 35 ms and unmeasured, goodputs of 1, 2, 4 and unmeasured | every choice of every tier is sound, no path starves, credits sum to zero and stay bounded |
| `lifecycle` | 1 connect, 2 paths | no worker blocks on `errCh`, device and sockets are closed once `Run` has left its select, `AwaitExit` returns, `Close` leaves nothing behind |
| `lifecycle_disconnect` | 1 connect, 1 path | violated: `DisconnectTearsDown` |

Bounds. Five packets suffice for two separate gaps with a run behind each, while the budget
overflows with packets on both sides of a gap. Four counters over a window of 2 let a counter fall
out of the window, and a jump clear it. Nine bits in three words reach shifts within a word,
across one and two words, and beyond the array. Two handshakes of two clients are one of each, with an index of its own, or two of one client, by a
retransmitted or repeated INIT, of which the second replaces the first session; two attempts are
the least with a retransmission. That a client process is started twice is left to the proofs,
which cover the safety properties for any number of dials and handshakes, and to the two violated
relay runs; starting again resets all of the client's state, so `DialEnds` gains little from it.
The thresholds of `path_health` are the least that keep every branch: misses and answers that do
not suffice and that do, silence that degrades a path before or when it kills it, and an estimate
that takes many answers to fall below the threshold; the proofs need that the dead timeout is not
shorter than the misses by more than one. One DATA packet per interval is lost or not, which makes
the loss of an interval 0 or 100 %, and with the probe more may be received than was sent.
Four packets in generations of three give a full generation and one that `Flush` cuts short, with
a packet whose place `Flush` took away; a redundancy of one half (one quarter in the code) yields
two parity shards, the least that may disagree. RTTs of 20 and 22 ms are tied, 35 is not, and 0 is
unmeasured. `Raise` and `Decay` of lambda are 200 and 50 percent instead of 115 and 98, so that
few calls span the range from `LambdaMin` to `LambdaMax`. `MaxWeight` is 4, the ratio of the
largest to the smallest goodput. `WaitBound` is 24, the number of calls that `WeightedBounded`
allows (`Spread`), so that a longer wait would be seen; the code states no bound. One connect has
every interleaving of one connect thread with the main thread, the workers and `Run`. Deadlock is
not checked in the relay, `fec` and lifecycle runs: the bounds on dials, handshakes, packets and
connects end them.

Fairness. A running timer fires, a callback gets the mutex and the reader of `Out` runs on
(`ReorderBuffer`). Read deadlines and tickers go off and goroutines make progress, after any delay
(`RelaySessions`, `PathHealth`). The ticker of `fecMaintenanceLoop` goes off (`Fec`). Threads and
goroutines that can go on do so; that commands come or that devices fail is not assumed
(`TunnelLifecycle`). Arrival of any packet is never assumed. `livenessLoop` is fair only for paths
nobody sends on, since only those grow older than `PathDeadTimeout`.

### Where code and description disagree

A run that TLC must find violated, because a document, comment or test promises what the code
does not do:

- `relay_drain`: `ServeReorder` (`core/bond/relay.go:438`) remembers indices. A client that
  handshakes again, also by a retransmitted INIT, has a new session with a new reorder buffer under
  the old index, and no goroutine drains it.
- `relay_keys`: the client adopts the first response it reads (`core/bond/client.go:166`), while
  the relay has replaced that session when it handled the retransmission. Nothing the client
  sends opens any more, and it does not handshake again.
- `path_unprobed`: `HandleProbeAck` loads the state (`core/bond/path.go:217`) and stores what it
  decided later (222, 226). If `HandleProbeMissed` stores DEAD in between (244) and the next tick
  ends `probeLoop` (`client.go:736`), the path is ACTIVE or DEGRADED afterwards and nobody probes
  it, although "probes continue" for a DEGRADED path (`PROTOCOL.md:170`). This takes a goroutine
  that is held up for about a probe interval (200 ms): `HandleProbeAck` between load and store, or
  `probeLoop`, whose next tick then waits already when it stores DEAD.
- `lifecycle_disconnect`: the connect thread publishes its tunnel only after `AttachTUN`
  (`BondifyVpnService.kt:147`). A disconnect before that finds nothing to close, and the tunnel
  comes up after it.

A property that holds only in the weaker form in which it is stated:

- `MissesDegrade` excepts a `HandleProbeAck` that takes an interval or more (with 3 misses): its
  late store makes the path ACTIVE over the misses counted meanwhile, until the next miss.
  `PROTOCOL.md:240` has "3 missed" lead to DEGRADED.
- `SilentPathsDie` needs a path that was heard. PATH_ADD is sealed once and repeated, and the
  replay window refuses the copies; if the ack is lost the client gives up, and the relay keeps
  the path ACTIVE for ever, because `LastActivity` is 0 for it (`core/bond/relay.go:585`).
- `DegradedRecovers` counts no fresh streak: the count of healthy answers
  (`core/bond/path.go:210`) is not reset when loss degrades a path, so one answer can bring it back.
- `AwaitExitReturns` includes the end of a session by an error on one of several paths
  (`core/bond/client.go:393`), where `PROTOCOL.md:173` lets the session survive.
- `NoStarvation` needs a stable set of fastest paths, since the cursor of tiers 3 and 4 indexes the
  filtered list (`core/sched/tier3_min_rtt_cwnd.go:111`).
- `EveryChoiceSound` allows tier 4 an unmeasured slow path when lambda is at least 1, where a
  conversion overflows (`core/sched/tier4_hol_aware.go:119`).
- `ParityRecovers` speaks of arriving parity only: data that completes a generation after its
  parity recovers nothing (`core/bond/fec.go:150`).
- `UsedIsNeverReported`: `Consume` collects used codes first, so `ErrCodeUsed` is never returned.

Seen while modelling, without a property: the comment that parity never exceeds 25 %
(`core/fec/fec.go:55-56`) ignores the rounding up, which gives a generation of one packet one
parity shard. `core/sched/sched.go:86` says the caller queues a packet that got no path; it is
dropped (`core/bond/client.go:442`). Round robin's "fixed rotation" (`core/sched/sched.go:130`)
follows map order on the relay. `InFlight` is read by every tier and written by nothing, so no
window is ever full. The receiver's loss report counts PROBEs, the sender's PSNs do not. `IPPool`
hands out the broadcast address last (`core/bond/pool.go:66`). `Registry.Add` refuses a known peer
as one too many when the registry is full. In the Android service, a `Failed` status is overwritten
by the `Disconnected` of a later `disconnect`, and a tunnel whose `establish` fails after the
handshake is not closed.

## Proofs

TLAPS proves the following for all values of the constants that satisfy the named assumptions
(`ReorderAssumption`, `WindowAssumption`, `SessionAssumption`, `BitmapAssumption`,
`FecAssumption`, `RelayAssumption`, `HealthAssumption`, `SchedAssumption`,
`LifecycleAssumption`). They say that sizes and thresholds are natural numbers, that the channel,
the window, a word, a generation and the numbers of paths and of attempts are not zero, that
`NoCell` is no goroutine and that a tunnel has finitely many paths. `SchedAssumption` adds that
measured RTTs are shorter than the value that stands for an unmeasured one, that no goodput
is more than `MaxWeight` times another, and the ranges of lambda's constants. The theorems about
components that `StateMachineProofs` and `CryptoSessionProofs` instantiate state their assumptions
as hypotheses.

`ReorderBufferProofs`: `TypeOK`, `Conservation`, `NothingReleasableHeld`, `TimerCoversHead`,
`CurBytesExact`, `OverBudgetNeverGrows`, and the refinement of `OrderedDelivery`. The inductive
invariant adds to these that the helpers always start from a settled buffer (no copies, `inHeap`
equal to the heap, everything held above the cursor) and that whatever was delivered or discarded
lies below the cursor. Without the first, `drainLocked` may stop too early; without the second,
single delivery is not inductive, since a number at or above the cursor that has left the heap
would be accepted by `Push` again. The lemmas say what each locked helper does to a settled
buffer, and the action proofs combine them. The byte count is a sum over the heap, and a drain
changes it by the sum over the run it removes.

`CryptoSessionProofs`: `TypeOK`, `NonceUnique`, `AcceptedAtMostOnce`, `NoFalseRefusal`. The
invariant says that a path has at most one counter cell in use and that the cell equals the number
of sealed packets, that the window holds exactly the accepted counters it can still represent, and
that a reader between check and mark still has an unaccepted counter. The last needs one reader per
path. `BitmapIsTheWindow` is proved for every width and number of words: iteration by iteration,
the loop has moved the words it has passed and left alone those it still has to read; a moved word
together with the carry from its neighbour holds exactly the marks that are `n` offsets higher; so
the marks of the array and the set of `ReplayWindow` change alike (`BitmapInv`).

`FecProofs`: `TypeOK`, `PlacesUnique`, `RecoveredAsSent`, `ParityAfterData`, `ParityRecovers`. The
invariant follows one codeword per generation from the sender to the receiver. At the sender, the
place that `sendSpeed` holds is the next of the open generation or belongs to a closed one, and
nobody has used it (`SlotInv`); the open generation lists the packets with its places in order, and
nothing on the wire lies beyond its end but the packet about to be recorded (`OpenInv`). Parity
under way carries a codeword of a closed generation, the same in all its packets (`NetInv`), and
what the receiver holds of a generation belongs to that codeword (`GenInv`). The last is what makes
reconstruction sound; it holds because a closed generation is never reopened. `ParityRecovers` is
an action property and needs in addition that enough shards include a parity shard if data is
missing, which is a count of disjoint index sets.

`RelaySessionsProofs`: `TypeOK`, `TablesAgree`, `OneAddressPerClient`, `PathsJoinBeforeUse`, with
packets lost, reordered and duplicated. `TablesAgree` is not inductive: a table entry must also be
filed under its session's own index and address, and no address beyond the allocated ones may be in
use (`Indexed`); every session ever made has the address and index of its client's current session
(`Known`), or a returning client could collide with another one; and the addresses handed out
count the clients served (`PoolInv`). For the paths, every packet under way that follows a join
names a path that the relay has made ACTIVE (`PacketInv`), and so does whatever the client counts
(`ClientInv`).

`StateMachineProofs`, `PathHealth`: `TypeOK`, `MissesDegrade`, `GivenUpStaysDead`, whatever holds
the goroutines up. The invariant (`HealthInv`) follows a `HandleProbeAck` that is under way while
`probeLoop` runs: it has reset the misses, and since a miss needs a tick and a tick needs time, at
most two more can be counted or due than the probe intervals it has taken (`AckInv`): one for the
tick that was being handled, one for the tick in the channel. So its store hides a degradation only
if it took long; otherwise the last of too many misses is about to degrade the path or has done so
(`MissInv`). `GivenUpStaysDead` is a second invariant on top: once `probeLoop` has returned from a
DEAD path and no decision waits to be stored, every later answer finds the path DEAD and changes
nothing. `TypeOK` includes that the moving average keeps the loss a percentage.

`StateMachineProofs`, `DeliveryRate`: the filled slots of the ring are the last `btlBwWindow`
samples; the invariant says which sample each slot holds before and after `next`. The window stays
within its limits.

`StateMachineProofs`, `Budget`: in every window of time at most one bucket and the rate times its
length pass. The invariant counts the tokens in the bucket as passed.

`StateMachineProofs`, `PairBond`: a code is accepted at most as often as it was issued and only in
time, `ErrCodeUsed` is never returned, and the registry is bounded. The invariant gives every
unused entry an issue to spare.

`StateMachineProofs`, `TunnelLifecycle`: `TypeOK`, `WorkersNeverBlock`, `ClosedOnExit`, for any
number of connects and paths. The invariant (`LifeInv`) says that a result in `errCh` comes from a
goroutine of its own that has returned (`Counted`), so that a goroutine that still has to report
finds room; and that nothing runs before `AttachTUN` (`NotAttached`) or before its CONNECT
(`Ahead`), so that `Run` starts with an empty channel.

`SchedulersProofs`, from the lemmas of `SchedulerFacts`: `TypeOK`, `EveryChoiceSound`,
`NoStarvation`, `CreditsSumToZero`, `WeightedBounded`, for any number of paths and any sequence of
views. Soundness of the choices follows from `TypeOK` alone, for every view a call may find. For
the rotations, a path that waited `w` calls is at most `n - 1 - w` places ahead of the cursor
among the `n` that rotate (`Fair`); two filtered lists of the same paths are equal, because both
are in increasing order. For the credits of weighted goodput, a bound on each credit is not
inductive, since a path may earn while it has the largest credit but one. The invariant bounds the
paths in groups: any `k` of the `N` paths together are owed at most `k (N - k)` half pays, where a
pay, `MaxWeight * N`, is the most a chosen path hands over in a call (`Owed`). A call in which the
payer is in the group never raises what the group is owed. One in which the payer is outside stays
within the bound because no eligible member ends above what the payer had before it paid, and
because the group with the payer added, and the group without its eligible members, keep theirs. A
path that waits earns at least one credit in each call, which bounds the wait (`Debt`).

`FiniteFacts` has what these proofs share. `SumFunctionOnSet` is defined by an arbitrary order of
the elements, and the first result is that the order does not matter. What calls for an induction
is proved by descent: a statement that fails for some number or finite set fails for a least one.
The recursive functions by which loops are modelled are solved in this way.

Only model-checked: liveness, since fairness and ENABLED are outside the prover. These are
`HeldPacketsLeave`, `DialEnds`, `SilentPathsDie`, `GenerationCloses`, `DegradedRecovers`,
`SilenceKills`, `AwaitExitReturns` and `CloseLeavesNothing`. So is the comparison of `DrainLocked`
with the loop of `drainLocked` in `MCReorderBuffer`, which a recursive operator states.

## Not modelled

- The Noise handshake (`core/crypto/handshake.go`) and the ciphers: an external library.
  `RelaySessions` uses its result, fresh keys for each handled INIT.
- The wire format (`core/proto`), PairBond's message headers and `core/classify`: fixed-offset
  encoding, CBOR and a constant table, without control.
- Settings: one sequential pass over fields, then file I/O.
- TUN devices, NAT set-up, commands and diagnostics: operating system I/O, wiring and read-only
  snapshots. The user interface of the Android app.
- The addresses of packets, and so NAT rebinding at the relay.
- The 16-bit wrap of generation numbers. `GC` removes a generation little more than a second after
  its first shard, in which 65536 generations would have to pass; a model of the wrap would have
  to bound the rate.
- The arithmetic on PSNs behind the loss of an interval; `PathHealth` takes any loss that the
  counters allow. RTT statistics.
- The socket writes of `sendRedundant` and `ServeTUN`. What the copies meet at the receiver is in
  `ReorderBuffer`, where any packet may arrive any number of times; which paths they take is in
  `Schedulers`.
- `Buffer.SetDeadline` and `IPPool.Release`, which only tests or nobody calls.

Worth adding next: NAT rebinding as a step of `RelaySessions`.
