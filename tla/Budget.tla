------------------------------- MODULE Budget -------------------------------
(***************************************************************************)
(* One class of core/budget/budget.go: the token bucket that limits the    *)
(* bytes which Allow lets pass.  An unlimited class has no state.          *)
(*                                                                         *)
(* Time and bytes are whole units, Rate is in bytes per time unit, and the *)
(* bucket holds Cap (the code: one second of the rate).  The code computes *)
(* in float64; its rounding is not modelled.                               *)
(***************************************************************************)
EXTENDS Integers

CONSTANTS Rate, Cap

VARIABLES
  now,          \* the clock
  tokens, last, \* bucket.tokens and bucket.last
  mark,         \* the start of some window of time (history)
  passed        \* bytes that Allow let pass since then (history)

vars == <<now, tokens, last, mark, passed>>

\* New: the bucket starts full.
Init ==
  /\ now \in Nat
  /\ tokens = Cap /\ last = now
  /\ mark = now /\ passed = 0

\* Time goes by.
Tick ==
  /\ now' \in Nat /\ now' >= now
  /\ UNCHANGED <<tokens, last, mark, passed>>

\* Anyone may start to watch a window at any time.
Watch ==
  /\ mark' = now /\ passed' = 0
  /\ UNCHANGED <<now, tokens, last>>

\* The tokens after the refill for the time since the last one.
Refilled ==
  IF tokens + (now - last) * Rate > Cap THEN Cap ELSE tokens + (now - last) * Rate

\* Allow: refill, then take n tokens or refuse.  Without time since the last
\* refill there is nothing to add, and last is now already.
Allow(n) ==
  /\ last' = now
  /\ IF Refilled < n
     THEN tokens' = Refilled /\ passed' = passed
     ELSE tokens' = Refilled - n /\ passed' = passed + n
  /\ UNCHANGED <<now, mark>>

Next == Tick \/ Watch \/ \E n \in Nat : Allow(n)

Spec == Init /\ [][Next]_vars

-----------------------------------------------------------------------------
\* In every window of time, wherever it starts, Allow lets pass no more than one
\* full bucket and what the rate yields during the window.
RateCeiling == passed <= Cap + (now - mark) * Rate

\* What makes it inductive: the tokens in the bucket count as passed already, and
\* a window that starts after the last refill is still empty.
BudgetInv ==
  /\ now \in Nat /\ last \in Nat /\ mark \in Nat /\ passed \in Nat /\ tokens \in Nat
  /\ last <= now /\ mark <= now /\ tokens <= Cap
  /\ last < mark => passed = 0
  /\ last >= mark => passed + tokens <= Cap + (last - mark) * Rate
=============================================================================
