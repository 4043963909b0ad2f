----------------------------- MODULE PathHealth -----------------------------
(***************************************************************************)
(* The health of one client path: HandleProbeAck, HandleProbeMissed and    *)
(* RecordRecv of core/bond/path.go, as run by the two goroutines of        *)
(* core/bond/client.go that share a path, probeLoop and pathReadLoop.      *)
(*                                                                         *)
(* The fields under Path.mu change in one step; state and lastProbeAckAt   *)
(* are atomics that are read and written outside it, each access a step.   *)
(* Neither goroutine waits for the other: either may be held up between    *)
(* two of its steps while time, counted in probe intervals, goes on and    *)
(* the other runs.  The loss estimate is a percentage.                     *)
(***************************************************************************)
EXTENDS Integers

CONSTANTS
  DegradeLoss,              \* percent of loss above which a path degrades
  MissedProbesToDegrade,
  HealthyProbesToUndegrade,
  PathDeadTimeout,          \* in probe intervals
  MaxSent,                  \* bound: DATA packets sent between two answers
  MaxFlight                 \* bound: probes and answers under way at a time

ASSUME HealthAssumption ==
  /\ DegradeLoss \in 0..99
  /\ MissedProbesToDegrade \in Nat \ {0} /\ HealthyProbesToUndegrade \in Nat \ {0}
  /\ PathDeadTimeout \in Nat /\ MissedProbesToDegrade <= PathDeadTimeout + 1
  /\ MaxSent \in Nat /\ MaxFlight \in Nat

Never == -1   \* the age of lastProbeAckAt = 0

VARIABLES
  state,          \* the path's state
  age,            \* probe intervals since lastProbeAckAt was stored, or Never
  lossEWMA, missed, healthy,   \* loss estimate and counters, under Path.mu
  sent,           \* DATA packets sent on the path since the last PROBE_ACK
  flight,         \* PROBEs and PROBE_ACKs under way
  fresh,          \* lastProbeAckAt differs from probeLoop's lastAckSeen
  first,          \* probeLoop's flag
  tick,           \* the ticker's channel, which has room for one tick, holds it
  prober,         \* where probeLoop is, with HandleProbeMissed's local copy
  reader          \* where HandleProbeAck is, with its local copies; its age is
                  \* that of the argument now, and stays when it returns

proberVars == <<fresh, first, tick, prober>>
vars == <<state, age, lossEWMA, missed, healthy, sent, flight, proberVars, reader>>

\* Counters and ages matter only up to the limits they are compared with.
UpTo(n, limit) == IF n > limit THEN limit ELSE n
MaxAge == PathDeadTimeout + 1

TypeOK ==
  /\ state \in {"active", "degraded", "dead"}
  /\ age \in Never..MaxAge
  /\ lossEWMA \in 0..100
  /\ missed \in 0..MissedProbesToDegrade
  /\ healthy \in 0..HealthyProbesToUndegrade
  /\ sent \in 0..MaxSent /\ fresh \in BOOLEAN /\ first \in BOOLEAN
  /\ tick \in BOOLEAN
  /\ flight \in 0..MaxFlight
  /\ prober \in [pc : {"wait", "missed", "degrade", "silent", "kill",
                       "probe", "sent", "gone"},
                 missed : 0..MissedProbesToDegrade]
  /\ reader \in [pc : {"read", "called", "folded", "stamped", "store"},
                 age : 0..MaxAge, loss : 0..100,
                 healthy : 0..HealthyProbesToUndegrade, to : {"active", "degraded"}]

\* Run starts the goroutines on a path that SetActive has made ACTIVE.
Init ==
  /\ state = "active" /\ age = Never
  /\ lossEWMA = 0 /\ missed = 0 /\ healthy = 0
  /\ sent = 0 /\ flight = 0 /\ fresh = FALSE /\ first = TRUE /\ tick = FALSE
  /\ prober = [pc |-> "wait", missed |-> 0]
  /\ reader = [pc |-> "read", age |-> 0, loss |-> 0, healthy |-> 0, to |-> "active"]

\* Schedulers put DATA only on an ACTIVE path.
SendData ==
  /\ state = "active" /\ sent < MaxSent
  /\ sent' = sent + 1
  /\ UNCHANGED <<state, age, lossEWMA, missed, healthy, flight, proberVars, reader>>

\* A probe or its answer is lost.
Lose ==
  /\ flight > 0
  /\ flight' = flight - 1
  /\ UNCHANGED <<state, age, lossEWMA, missed, healthy, sent, proberVars, reader>>

\* A probe interval passes, and the ticker fires.
Elapse ==
  /\ age' = IF age = Never THEN Never ELSE UpTo(age + 1, MaxAge)
  /\ reader' = [reader EXCEPT !.age = IF reader.pc = "read" THEN @ ELSE UpTo(@ + 1, MaxAge)]
  /\ tick' = TRUE
  /\ UNCHANGED <<state, lossEWMA, missed, healthy, sent, flight, fresh, first, prober>>

\* lastProbeAckAt.Store of a time that is n probe intervals ago
Stamp(n) ==
  /\ age' = n
  /\ fresh' = TRUE

-----------------------------------------------------------------------------
(* pathReadLoop *)

\* A DATA, FEC or PROBE packet: RecordRecv.
RecordRecv ==
  /\ reader.pc = "read"
  /\ Stamp(0)
  /\ UNCHANGED <<state, lossEWMA, missed, healthy, sent, flight, first, tick, prober, reader>>

\* A PROBE_ACK: HandleProbeAck is called with the current time.  An answer it drops,
\* for a clock that went back, is as good as lost.
AckCall ==
  /\ reader.pc = "read" /\ flight > 0
  /\ flight' = flight - 1
  /\ reader' = [reader EXCEPT !.pc = "called", !.age = 0]
  /\ UNCHANGED <<state, age, lossEWMA, missed, healthy, sent, proberVars>>

\* Mutant: more packets received than sent (the receiver counts probes too)
\* make the loss negative.
InstLossUnclamped(recv) == IF sent = 0 THEN 0 ELSE 100 - (100 * recv) \div sent

\* instLoss = 1 - deltaRecv / deltaSent, not below 0; 0 without DATA.
InstLoss(recv) ==
  IF sent = 0 \/ recv > sent THEN 0 ELSE 100 - (100 * recv) \div sent

\* Mutant: an interval without DATA leaves the estimate as it is.
FoldLossSkipsIdle(loss, recv) ==
  IF sent = 0 THEN loss ELSE loss + (InstLoss(recv) - loss) \div 5

\* lossEWMA += 0.2 * (instLoss - lossEWMA)
FoldLoss(loss, recv) == loss + (InstLoss(recv) - loss) \div 5

\* HandleProbeAck, the part under p.mu.  The relay counts the DATA that arrived
\* and the probe itself.
AckFold ==
  /\ reader.pc = "called"
  /\ \E recv \in 0..sent + 1 : lossEWMA' = FoldLoss(lossEWMA, recv)
  /\ sent' = 0
  /\ missed' = 0
  /\ healthy' = UpTo(healthy + 1, HealthyProbesToUndegrade)
  /\ reader' = [reader EXCEPT !.pc = "folded", !.loss = lossEWMA', !.healthy = healthy']
  /\ UNCHANGED <<state, age, flight, proberVars>>

AckStamp ==
  /\ reader.pc = "folded"
  /\ Stamp(reader.age)
  /\ reader' = [reader EXCEPT !.pc = "stamped"]
  /\ UNCHANGED <<state, lossEWMA, missed, healthy, sent, flight, first, tick, prober>>

\* Mutant: an answer revives a DEAD path.
AckDecideRevives ==
  /\ reader.pc = "stamped"
  /\ LET up == /\ state \in {"degraded", "dead"} /\ reader.loss <= DegradeLoss
               /\ reader.healthy >= HealthyProbesToUndegrade
         down == state = "active" /\ reader.loss > DegradeLoss
     IN reader' = [reader EXCEPT !.pc = IF up \/ down THEN "store" ELSE "read",
                                 !.to = IF down THEN "degraded" ELSE "active",
                                 !.loss = 0, !.healthy = 0]
  /\ UNCHANGED <<state, age, lossEWMA, missed, healthy, sent, flight, proberVars>>

\* switch p.State(): the state is loaded and, with the copies taken under the
\* lock, decides what to store.  Copies that are not used again are set to 0.
AckDecide ==
  /\ reader.pc = "stamped"
  /\ LET up == /\ state = "degraded" /\ reader.loss <= DegradeLoss
               /\ reader.healthy >= HealthyProbesToUndegrade
         down == state = "active" /\ reader.loss > DegradeLoss
     IN reader' = [reader EXCEPT !.pc = IF up \/ down THEN "store" ELSE "read",
                                 !.to = IF down THEN "degraded" ELSE "active",
                                 !.loss = 0, !.healthy = 0]
  /\ UNCHANGED <<state, age, lossEWMA, missed, healthy, sent, flight, proberVars>>

\* p.state.Store
AckStore ==
  /\ reader.pc = "store"
  /\ state' = reader.to
  /\ reader' = [reader EXCEPT !.pc = "read", !.to = "active"]
  /\ UNCHANGED <<age, lossEWMA, missed, healthy, sent, flight, proberVars>>

-----------------------------------------------------------------------------
(* probeLoop *)

\* A tick is taken from the channel: a DEAD path ends the loop; no news since the
\* last probe is a miss.
Tick ==
  /\ prober.pc = "wait" /\ tick
  /\ tick' = FALSE
  /\ prober' = [prober EXCEPT !.pc = IF state = "dead" THEN "gone"
                                     ELSE IF first \/ fresh THEN "probe" ELSE "missed"]
  /\ UNCHANGED <<state, age, lossEWMA, missed, healthy, sent, flight, fresh, first, reader>>

\* HandleProbeMissed, the part under p.mu.
MissFold ==
  /\ prober.pc = "missed"
  /\ missed' = UpTo(missed + 1, MissedProbesToDegrade)
  /\ healthy' = 0
  /\ prober' = [pc |-> "degrade", missed |-> missed']
  /\ UNCHANGED <<state, age, lossEWMA, sent, flight, fresh, first, tick, reader>>

\* Mutant: one more miss than MissedProbesToDegrade is needed.
MissDegradeLate ==
  /\ prober.pc = "degrade"
  /\ state' = IF prober.missed > MissedProbesToDegrade /\ state = "active"
              THEN "degraded" ELSE state
  /\ prober' = [pc |-> "silent", missed |-> 0]
  /\ UNCHANGED <<age, lossEWMA, missed, healthy, sent, flight, fresh, first, tick, reader>>

\* Enough misses degrade an ACTIVE path.
MissDegrade ==
  /\ prober.pc = "degrade"
  /\ state' = IF prober.missed >= MissedProbesToDegrade /\ state = "active"
              THEN "degraded" ELSE state
  /\ prober' = [pc |-> "silent", missed |-> 0]
  /\ UNCHANGED <<age, lossEWMA, missed, healthy, sent, flight, fresh, first, tick, reader>>

\* Mutant: a path that misses have already degraded is not tested for silence.
MissSilentIfActive ==
  /\ prober.pc = "silent"
  /\ prober' = [prober EXCEPT !.pc = IF state = "active" /\ age > PathDeadTimeout
                                     THEN "kill" ELSE "probe"]
  /\ UNCHANGED <<state, age, lossEWMA, missed, healthy, sent, flight, fresh, first, tick, reader>>

\* The age of lastProbeAckAt is compared with PathDeadTimeout; a path that was
\* never heard has no age.
MissSilent ==
  /\ prober.pc = "silent"
  /\ prober' = [prober EXCEPT !.pc = IF age > PathDeadTimeout THEN "kill" ELSE "probe"]
  /\ UNCHANGED <<state, age, lossEWMA, missed, healthy, sent, flight, fresh, first, tick, reader>>

MissKill ==
  /\ prober.pc = "kill"
  /\ state' = "dead"
  /\ prober' = [prober EXCEPT !.pc = "probe"]
  /\ UNCHANGED <<age, lossEWMA, missed, healthy, sent, flight, fresh, first, tick, reader>>

\* The probe is written to the socket.
SendProbe ==
  /\ prober.pc = "probe"
  /\ flight' = UpTo(flight + 1, MaxFlight)
  /\ prober' = [prober EXCEPT !.pc = "sent"]
  /\ UNCHANGED <<state, age, lossEWMA, missed, healthy, sent, fresh, first, tick, reader>>

\* lastAckSeen = p.lastProbeAckAt.Load()
ReadStamp ==
  /\ prober.pc = "sent"
  /\ fresh' = FALSE /\ first' = FALSE
  /\ prober' = [prober EXCEPT !.pc = "wait"]
  /\ UNCHANGED <<state, age, lossEWMA, missed, healthy, sent, flight, tick, reader>>

-----------------------------------------------------------------------------
HandleProbeAck == AckFold \/ AckStamp \/ AckDecide \/ AckStore
ProbeLoop ==
  Tick \/ MissFold \/ MissDegrade \/ MissSilent \/ MissKill \/ SendProbe \/ ReadStamp

Next == SendData \/ Lose \/ Elapse \/ RecordRecv \/ AckCall \/ HandleProbeAck \/ ProbeLoop

Spec == Init /\ [][Next]_vars

\* Time goes on, probeLoop runs when it has something to do, and a handler that was
\* entered is left again, both after any delay; that packets arrive is not assumed.
Fairness == WF_vars(Elapse) /\ WF_vars(HandleProbeAck) /\ WF_vars(ProbeLoop)
FairSpec == Spec /\ Fairness

-----------------------------------------------------------------------------
(* Properties *)

\* A path that may still be used, or may recover, is probed: probeLoop sends a probe
\* in every interval, and for a DEGRADED path "probes continue".  This does not hold.
\* HandleProbeAck loads the state, HandleProbeMissed stores DEAD, probeLoop returns,
\* and only then HandleProbeAck stores what it decided.
NoUnprobedPath == state \in {"active", "degraded"} => prober.pc # "gone"

\* That late store is all that can undo DEAD: once probeLoop has returned and no
\* HandleProbeAck has a decision to store, the path stays DEAD for ever, whatever
\* answers still arrive.
GivenUpStaysDead ==
  [](prober.pc = "gone" /\ state = "dead" /\ reader.pc # "store" => [](state = "dead"))

\* Between two ticks a path is ACTIVE after MissedProbesToDegrade misses in a row
\* only if the last HandleProbeAck was held up: it took at least two probe intervals
\* fewer than that number of misses, and stored ACTIVE over them.
MissesDegrade ==
  (/\ prober.pc = "wait" /\ reader.pc = "read" /\ state = "active"
   /\ missed >= MissedProbesToDegrade)
    => reader.age >= MissedProbesToDegrade - 2

\* A DEGRADED path carries no DATA, and still its answers bring it back: if
\* probes are answered for ever and none is missed, the path is not stranded in
\* DEGRADED (the hazard that the comment in HandleProbeAck describes).
DegradedRecovers ==
  (<>[](missed = 0) /\ []<>(reader.pc = "folded")) => []<>(state \in {"active", "dead"})

\* A path that was heard once and then falls silent is DEAD in the end.
SilenceKills ==
  <>[](~fresh /\ age # Never) => <>(state = "dead")
=============================================================================
