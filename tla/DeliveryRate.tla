---------------------------- MODULE DeliveryRate ----------------------------
(***************************************************************************)
(* core/cc/cc.go: the congestion controller of one path.  Sample puts a    *)
(* delivery rate into a ring of btlBwWindow samples and sets cwnd from the *)
(* largest of them.  Here: that the ring is the window of the most recent  *)
(* samples, at every moment of its filling and wrapping.                   *)
(*                                                                         *)
(* Rates are naturals.  Controller.mu makes Sample one step.               *)
(***************************************************************************)
EXTENDS Integers, Sequences

CONSTANTS
  btlBwWindow, minCWND, maxCWND, initialCWND,
  Scaled(_, _)  \* int64(btlBw * rtProp.Seconds() * Gain): some whole number

VARIABLES
  samples, filled, next, cwnd,  \* Controller
  seen                          \* every rate sampled, in order (history)

vars == <<samples, filled, next, cwnd, seen>>

Slot == 0 .. btlBwWindow - 1

\* NewController
Init ==
  /\ samples = [i \in Slot |-> 0]
  /\ filled = 0 /\ next = 0
  /\ cwnd = initialCWND
  /\ seen = <<>>

\* DeliveryRate: the largest of the filled slots, 0 if there is none.
IsMaxOf(m, ring, n) ==
  /\ m = 0 \/ \E i \in Slot : i < n /\ m = ring[i]
  /\ m >= 0 /\ \A i \in Slot : i < n => ring[i] <= m

\* The two limits on the window, in the order of the code.
Clamp(w) ==
  IF (IF w < minCWND THEN minCWND ELSE w) > maxCWND THEN maxCWND
  ELSE IF w < minCWND THEN minCWND ELSE w

\* Sample: a call without an interval or an RTT changes nothing; any other one
\* replaces the oldest slot and recomputes cwnd from the new ring.
Sample(bps, rtProp) ==
  /\ rtProp > 0
  /\ samples' = [samples EXCEPT ![next] = bps]
  /\ next' = IF next + 1 = btlBwWindow THEN 0 ELSE next + 1
  /\ filled' = IF filled < btlBwWindow THEN filled + 1 ELSE filled
  /\ \E m \in Nat : /\ IsMaxOf(m, samples', filled')
                    /\ cwnd' = Clamp(Scaled(m, rtProp))
  /\ seen' = Append(seen, bps)

Next == \E bps, rtProp \in Nat : Sample(bps, rtProp)

Spec == Init /\ [][Next]_vars

-----------------------------------------------------------------------------
\* The filled slots hold exactly the last btlBwWindow rates sampled, or all of them
\* while there are fewer: no sample is lost early and none outlives the window, so
\* a stalled path's old rate leaves DeliveryRate after btlBwWindow samples.
RingIsTheWindow ==
  {samples[i] : i \in {j \in Slot : j < filled}}
    = {seen[k] : k \in {j \in 1 .. Len(seen) : j > Len(seen) - btlBwWindow}}

\* The window is never below minCWND nor above maxCWND, whatever is sampled.
WindowBounded == cwnd \in minCWND .. maxCWND

\* Which sample each slot holds: before next those of this turn of the ring, from
\* next on those of the turn before.
RingInv ==
  /\ seen \in Seq(Nat) /\ samples \in [Slot -> Nat]
  /\ next \in Slot /\ filled \in 0 .. btlBwWindow
  /\ next <= Len(seen)
  /\ filled < btlBwWindow => next = filled /\ Len(seen) = filled
  /\ filled = btlBwWindow => Len(seen) >= btlBwWindow + next
  /\ \A i \in Slot : i < next => samples[i] = seen[Len(seen) - next + 1 + i]
  /\ filled = btlBwWindow =>
       \A i \in Slot : i >= next => samples[i] = seen[Len(seen) - next - btlBwWindow + 1 + i]
=============================================================================
