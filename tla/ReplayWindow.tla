---------------------------- MODULE ReplayWindow ----------------------------
(***************************************************************************)
(* The sliding window of core/crypto/replay.go as the set of offsets that  *)
(* its bitmap marks: offset k stands for the counter max - k.  Window is   *)
(* the number of bits, len(bits)*64 in the code.                           *)
(***************************************************************************)
EXTENDS Integers

CONSTANT Window

ASSUME WindowAssumption == Window \in Nat \ {0}

Offsets == 0..(Window - 1)

NewWindow == [inited |-> FALSE, max |-> 0, seen |-> {}]

\* CheckOnly: not seen and not too old.
CheckOnly(w, counter) ==
  \/ ~w.inited
  \/ counter > w.max
  \/ w.max - counter < Window /\ w.max - counter \notin w.seen

\* Mutants: marks that leave the window are kept; an old counter is not recorded.
MarkSeenUnbounded(w, counter) ==
  IF ~w.inited THEN [inited |-> TRUE, max |-> counter, seen |-> {0}]
  ELSE IF counter > w.max
  THEN [inited |-> TRUE, max |-> counter,
        seen |-> {0} \cup {k + (counter - w.max) : k \in w.seen}]
  ELSE [inited |-> TRUE, max |-> w.max, seen |-> w.seen \cup {w.max - counter}]

MarkSeenForgetsLate(w, counter) ==
  IF ~w.inited THEN [inited |-> TRUE, max |-> counter, seen |-> {0}]
  ELSE IF counter > w.max
  THEN [inited |-> TRUE, max |-> counter,
        seen |-> {k \in Offsets : k = 0 \/ k - (counter - w.max) \in w.seen}]
  ELSE w

\* MarkSeen: a new maximum moves every mark; marks beyond the window are dropped.
MarkSeen(w, counter) ==
  IF ~w.inited THEN [inited |-> TRUE, max |-> counter, seen |-> {0}]
  ELSE IF counter > w.max
  THEN [inited |-> TRUE, max |-> counter,
        seen |-> {k \in Offsets : k = 0 \/ k - (counter - w.max) \in w.seen}]
  ELSE [inited |-> TRUE, max |-> w.max,
        seen |-> w.seen \cup ({w.max - counter} \cap Offsets)]
=============================================================================
