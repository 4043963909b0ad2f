---------------------------- MODULE ReorderBuffer ----------------------------
(***************************************************************************)
(* The reordering buffer of core/reorder/buffer.go: a min-heap of packets  *)
(* keyed by GSN (the session-wide sequence number), a cursor nextExpected, *)
(* a byte budget, one deadline timer for the head of the heap, and the     *)
(* bounded channel out that a TUN writer empties.                          *)
(*                                                                         *)
(* Every operation of the Go type runs under Buffer.mu and is one action   *)
(* here.  What is not under the mutex interleaves: arrivals from several   *)
(* path readers (Push), timer callbacks that have started but still wait   *)
(* for the mutex (fired), and the reader of out (Receive).                 *)
(*                                                                         *)
(* A GSN stands for its packet: every copy of a GSN (REDUNDANT mode's      *)
(* duplicate, a packet rebuilt by FEC) carries the same payload.  Payload  *)
(* sizes enter as byte offsets: packet g is Offset[g+1] - Offset[g] bytes  *)
(* long, so that a run g..h of packets takes Offset[h+1] - Offset[g].      *)
(***************************************************************************)
EXTENDS Integers, FiniteSets, FiniteSetsExt, Functions

CONSTANTS
  MaxGSN,     \* bound: packets carry the numbers 0..MaxGSN
  Offset,     \* byte offset of every packet in the sender's stream
  MaxBytes,   \* Buffer.maxBytes
  OutCap      \* capacity of Buffer.out

ASSUME ReorderAssumption ==
  /\ MaxGSN \in Nat
  /\ Offset \in [0..(MaxGSN + 1) -> Nat]
  /\ \A g \in 0..MaxGSN : Offset[g] <= Offset[g + 1]
  /\ MaxBytes \in Nat
  /\ OutCap \in Nat \ {0}

GSN == 0..MaxGSN

SizeOf(g) == Offset[g + 1] - Offset[g]

VARIABLES
  buf,        \* the fields of Buffer that the locked helpers update
  headSet, headGSN,   \* the head the deadline timer was last started for
  armed,      \* {g} while the timer runs for head g, {} otherwise
  fired,      \* expectedHead of the callbacks that wait for the mutex (two that
              \* wait with the same one have the effect of one)
  unread,     \* number of packets in the channel out
  arrived,    \* history: GSNs that Push put into the heap
  delivered,  \* history: how often a GSN entered out in order
  lost        \* history: how often a GSN was discarded because out was full

timerVars == <<headSet, headGSN, armed>>
outVars == <<unread, delivered, lost>>
vars == <<buf, timerVars, fired, outVars, arrived>>

(***************************************************************************)
(* heap[g] counts the copies of packet g in the heap.                      *)
(***************************************************************************)
Buffers == [heap : [GSN -> Nat], inHeap : SUBSET GSN, nextExpected : 0..(MaxGSN + 1),
            curBytes : Int, forcedReleases : Nat]

TypeOK ==
  /\ buf \in Buffers
  /\ headSet \in BOOLEAN /\ headGSN \in GSN
  /\ armed \in SUBSET GSN /\ fired \in SUBSET GSN
  /\ unread \in 0..OutCap
  /\ arrived \in SUBSET GSN
  /\ delivered \in [GSN -> Nat] /\ lost \in [GSN -> Nat]

-----------------------------------------------------------------------------
(* The locked helpers, as functions from buffer to buffer. *)

Held(b) == {g \in GSN : b.heap[g] > 0}

HeapHead(b) == Min(Held(b))

\* heap.Push with its bookkeeping.
Insert(b, g) ==
  [heap |-> [b.heap EXCEPT ![g] = @ + 1],
   inHeap |-> b.inHeap \cup {g},
   nextExpected |-> b.nextExpected,
   curBytes |-> b.curBytes + SizeOf(g),
   forcedReleases |-> b.forcedReleases]

(***************************************************************************)
(* drainLocked pops while the head is exactly nextExpected.  It stops at   *)
(* the first number that is not held, and would also stop behind a second  *)
(* copy of a packet it has just popped, or at once when the head lies      *)
(* below the cursor.  DrainEnd is the value of the cursor when it stops.   *)
(***************************************************************************)
DrainEnd(b) ==
  IF \E g \in Held(b) : g < b.nextExpected
  THEN b.nextExpected
  ELSE Min({e \in b.nextExpected..(MaxGSN + 1) :
              e \notin Held(b) \/ (e > b.nextExpected /\ b.heap[e - 1] > 1)})

DrainLocked(b) ==
  LET e == DrainEnd(b)
      run == b.nextExpected..(e - 1)
  IN [heap |-> [g \in GSN |-> IF g \in run THEN b.heap[g] - 1 ELSE b.heap[g]],
      inHeap |-> b.inHeap \ run,
      nextExpected |-> e,
      curBytes |-> b.curBytes - (Offset[e] - Offset[b.nextExpected]),
      forcedReleases |-> b.forcedReleases]

\* Mutants: the cursor stays behind the forced head; curBytes keeps its size.
ForceKeepsCursor(b) ==
  IF Held(b) = {} THEN b
  ELSE LET g == HeapHead(b)
       IN [b EXCEPT !.heap[g] = @ - 1, !.inHeap = @ \ {g}, !.curBytes = @ - SizeOf(g),
                    !.forcedReleases = @ + 1]

ForceKeepsBytes(b) ==
  IF Held(b) = {} THEN b
  ELSE LET g == HeapHead(b)
       IN [b EXCEPT !.heap[g] = @ - 1, !.inHeap = @ \ {g}, !.nextExpected = g + 1,
                    !.forcedReleases = @ + 1]

\* forceReleaseHeadLocked: give up the gap before the head and pop the head.
ForceReleaseHead(b) ==
  IF Held(b) = {} THEN b
  ELSE LET g == HeapHead(b)
       IN [heap |-> [b.heap EXCEPT ![g] = @ - 1],
           inHeap |-> b.inHeap \ {g},
           nextExpected |-> g + 1,
           curBytes |-> b.curBytes - SizeOf(g),
           forcedReleases |-> b.forcedReleases + 1]

\* Mutants: no second drain; no release on overflow.
SettleDrainsOnce(b) ==
  LET d == DrainLocked(b)
  IN IF d.curBytes > MaxBytes THEN ForceReleaseHead(d) ELSE d

SettleIgnoresBudget(b) == DrainLocked(b)

\* The tail of Push: drain, and release one head if the budget is exceeded.
Settle(b) ==
  LET d == DrainLocked(b)
  IN IF d.curBytes > MaxBytes THEN DrainLocked(ForceReleaseHead(d)) ELSE d

-----------------------------------------------------------------------------
(***************************************************************************)
(* emitLocked: every pop from the heap offers the packet to out and drops  *)
(* it when the channel is full.  The reader of out needs no mutex, so it   *)
(* may make room in the middle of an operation: the packets that find a    *)
(* free slot at the start are kept for certain, a later one is kept if     *)
(* the reader took a packet just before.                                   *)
(***************************************************************************)
Earliest(S, n) == {g \in S : Cardinality({k \in S : k < g}) < n}

Emit(before, after) ==
  LET popped(g) == before.heap[g] - after.heap[g]
      gone == {g \in GSN : popped(g) > 0}
  IN \E kept \in SUBSET gone :
       /\ Earliest(gone, OutCap - unread) \subseteq kept
       /\ delivered' = [g \in GSN |-> delivered[g] + (IF g \in kept THEN popped(g) ELSE 0)]
       /\ lost' = [g \in GSN |-> lost[g] + (IF g \in gone \ kept THEN popped(g) ELSE 0)]
       /\ unread' = Min({OutCap, unread + Cardinality(kept)})

\* Mutant: any set head counts as covered.
RearmOnlyWhenUnset(b) ==
  IF Held(b) = {}
  THEN headSet' = FALSE /\ armed' = {} /\ UNCHANGED headGSN
  ELSE IF headSet
       THEN UNCHANGED timerVars
       ELSE headSet' = TRUE /\ headGSN' = HeapHead(b) /\ armed' = {HeapHead(b)}

(***************************************************************************)
(* rearmTimerLocked.  Stop() removes a timer that still runs and has no    *)
(* effect on a callback that has started.  The test b.timer != nil is left *)
(* out: headSet is only ever set together with the timer.                  *)
(***************************************************************************)
RearmTimer(b) ==
  IF Held(b) = {}
  THEN headSet' = FALSE /\ armed' = {} /\ UNCHANGED headGSN
  ELSE IF headSet /\ headGSN = HeapHead(b)
       THEN UNCHANGED timerVars
       ELSE headSet' = TRUE /\ headGSN' = HeapHead(b) /\ armed' = {HeapHead(b)}

-----------------------------------------------------------------------------
Init ==
  /\ buf = [heap |-> [g \in GSN |-> 0], inHeap |-> {}, nextExpected |-> 0,
            curBytes |-> 0, forcedReleases |-> 0]
  /\ headSet = FALSE /\ headGSN = 0
  /\ armed = {} /\ fired = {}
  /\ unread = 0
  /\ arrived = {}
  /\ delivered = [g \in GSN |-> 0] /\ lost = [g \in GSN |-> 0]

\* Mutant: no check for a queued copy.
PushWithoutDedup(g) ==
  IF g < buf.nextExpected
  THEN UNCHANGED vars
  ELSE /\ buf' = Settle(Insert(buf, g))
       /\ Emit(Insert(buf, g), buf')
       /\ RearmTimer(buf')
       /\ arrived' = arrived \cup {g}
       /\ UNCHANGED fired

\* Push of a packet without the PUSH flag: a passed or a queued GSN is dropped.
Push(g) ==
  IF g < buf.nextExpected \/ g \in buf.inHeap
  THEN UNCHANGED vars
  ELSE /\ buf' = Settle(Insert(buf, g))
       /\ Emit(Insert(buf, g), buf')
       /\ RearmTimer(buf')
       /\ arrived' = arrived \cup {g}
       /\ UNCHANGED fired

\* Mutant: the channel's capacity is not respected.
PushUrgentUnbounded ==
  /\ unread' = unread + 1
  /\ UNCHANGED <<buf, timerVars, fired, delivered, lost, arrived>>

\* Push of a packet with the PUSH flag: straight to out, or dropped when full.
PushUrgent ==
  /\ unread' = IF unread < OutCap THEN unread + 1 ELSE unread
  /\ UNCHANGED <<buf, timerVars, fired, delivered, lost, arrived>>

\* The runtime starts the callback of an expired timer in its own goroutine.
TimerFires ==
  /\ armed # {}
  /\ fired' = fired \cup armed
  /\ armed' = {}
  /\ UNCHANGED <<buf, headSet, headGSN, outVars, arrived>>

\* Mutant: the timer is not restarted for the next head.
OnDeadlineNoRearm(g) ==
  /\ g \in fired
  /\ fired' = fired \ {g}
  /\ IF Held(buf) = {} \/ HeapHead(buf) # g
     THEN UNCHANGED <<buf, outVars>>
     ELSE buf' = DrainLocked(ForceReleaseHead(buf)) /\ Emit(buf, buf')
  /\ UNCHANGED <<timerVars, arrived>>

\* onDeadline(g): a callback that finds another head, or none, does nothing.
OnDeadline(g) ==
  /\ g \in fired
  /\ fired' = fired \ {g}
  /\ IF Held(buf) = {} \/ HeapHead(buf) # g
     THEN UNCHANGED <<buf, timerVars, outVars>>
     ELSE /\ buf' = DrainLocked(ForceReleaseHead(buf))
          /\ Emit(buf, buf')
          /\ RearmTimer(buf')
  /\ UNCHANGED arrived

\* The TUN writer takes the oldest packet of out.
Receive ==
  /\ unread > 0
  /\ unread' = unread - 1
  /\ UNCHANGED <<buf, timerVars, fired, delivered, lost, arrived>>

Next ==
  \/ \E g \in GSN : Push(g)
  \/ PushUrgent
  \/ TimerFires
  \/ \E g \in GSN : OnDeadline(g)
  \/ Receive

Spec == Init /\ [][Next]_vars

(***************************************************************************)
(* Running timers expire, started callbacks get the mutex (sync.Mutex is   *)
(* starvation free) and the TUN writer keeps reading.  Nothing is assumed  *)
(* of the arrivals.                                                        *)
(***************************************************************************)
Fairness ==
  /\ WF_vars(TimerFires)
  /\ \A g \in GSN : WF_vars(OnDeadline(g))
  /\ WF_vars(Receive)

FairSpec == Spec /\ Fairness

-----------------------------------------------------------------------------
(***************************************************************************)
(* Properties                                                              *)
(***************************************************************************)

\* Every packet that Push put into the heap is in exactly one place: still held,
\* handed to out, or discarded at a full out.  In particular no copy that
\* REDUNDANT mode or FEC adds is delivered twice (Push's dedup, emitLocked).
Conservation ==
  \A g \in GSN :
    buf.heap[g] + delivered[g] + lost[g] = IF g \in arrived THEN 1 ELSE 0

\* After every operation all held packets lie strictly above the cursor: what
\* was releasable has been released, also behind a forced release (the drain
\* after forceReleaseHeadLocked), and inHeap names exactly the held packets.
NothingReleasableHeld ==
  /\ Held(buf) = buf.inHeap
  /\ \A g \in Held(buf) : g > buf.nextExpected

\* A held packet never waits without a deadline: the running timer, or a
\* callback on its way to the mutex, is for the current head, whatever stale
\* callbacks are still queued (rearmTimerLocked's early return, onDeadline).
TimerCoversHead ==
  IF Held(buf) = {}
  THEN ~headSet /\ armed = {}
  ELSE /\ headSet /\ headGSN = HeapHead(buf)
       /\ armed \subseteq {HeapHead(buf)}
       /\ HeapHead(buf) \in armed \cup fired

\* Buffer.curBytes, which Occupancy reports and overflow is decided on, is the
\* total size of the held packets after any interleaving of releases.
CurBytesExact == buf.curBytes = SumFunctionOnSet([g \in GSN |-> SizeOf(g)], Held(buf))

\* Overflow is a soft ceiling (MaxBytes): one Push releases at most one gap, so
\* the budget may be exceeded, but then the heap holds no more packets than before.
OverBudgetNeverGrows ==
  [][buf'.curBytes > MaxBytes => Cardinality(Held(buf')) <= Cardinality(Held(buf))]_vars

Delivery == INSTANCE OrderedDelivery WITH
  Limit <- MaxGSN + 1,
  cursor <- buf.nextExpected,
  sent <- {g \in GSN : delivered[g] > 0},
  dropped <- {g \in GSN : lost[g] > 0},
  losses <- buf.forcedReleases

\* The buffer implements ordered delivery: increasing GSNs, and ForcedReleases
\* counts exactly the gaps declared lost (the comment on ForcedReleases).
ImplementsOrderedDelivery == Delivery!ODSpec

\* Multipath reordering never stalls delivery indefinitely (package comment):
\* a held packet eventually leaves the heap even if the gap before it is never
\* filled and new packets keep arriving.
HeldPacketsLeave == \A g \in GSN : (g \in Held(buf)) ~> (g \notin Held(buf))
=============================================================================
