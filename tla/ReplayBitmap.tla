---------------------------- MODULE ReplayBitmap ----------------------------
(***************************************************************************)
(* The representation of the replay window in core/crypto/replay.go: an    *)
(* array of machine words that shiftWords moves in place.  A word is the   *)
(* set of the positions of its one bits, WordBits of them (64 in the       *)
(* code); shifts drop what leaves the word.  The window of sets,           *)
(* ReplayWindow, runs beside it.                                           *)
(***************************************************************************)
EXTENDS Integers

CONSTANTS
  WordBits, Words,   \* width of a word, and len(bits)
  MaxCtr             \* bound: counters run from 0 to MaxCtr

ASSUME BitmapAssumption == WordBits \in Nat \ {0} /\ Words \in Nat \ {0} /\ MaxCtr \in Nat

Set == INSTANCE ReplayWindow WITH Window <- WordBits * Words

VARIABLES win,    \* the replayWindow: inited, max, bits
          model   \* the window as a set of offsets

vars == <<win, model>>

Bits == 0..(WordBits - 1)
Index == 0..(Words - 1)

\* v << n and v >> n
Shl(v, n) == {b \in Bits : b - n \in v}
Shr(v, n) == {b \in Bits : b + n \in v}

\* The word that iteration i of shiftWords computes from the array as it is then.
ShiftedWord(bits, wordShift, bitShift, i) ==
  LET j == i - wordShift
  IN IF j < 0 THEN {}
     ELSE IF bitShift = 0 THEN bits[j]
     ELSE Shl(bits[j], bitShift)
            \cup (IF j - 1 >= 0 THEN Shr(bits[j - 1], WordBits - bitShift) ELSE {})

Zero == [i \in Index |-> {}]

\* Mutant: the words are moved but the bits that cross a word are lost.
shiftWordsNoCarry(bits, n) ==
  [i \in Index |->
     IF i - n \div WordBits < 0 THEN {} ELSE Shl(bits[i - n \div WordBits], n % WordBits)]

\* The loop runs from the last word down, in place: after[k] is the array after k
\* iterations.
shiftWords(bits, n) ==
  LET wordShift == n \div WordBits
      bitShift == n % WordBits
      after[k \in 0..Words] ==
        IF k = 0 THEN bits
        ELSE [after[k - 1] EXCEPT ![Words - k] =
                ShiftedWord(after[k - 1], wordShift, bitShift, Words - k)]
  IN IF wordShift >= Words THEN Zero ELSE after[Words]

CheckOnly(counter) ==
  \/ ~win.inited
  \/ counter > win.max
  \/ LET back == win.max - counter
     IN back < Words * WordBits /\ back % WordBits \notin win.bits[back \div WordBits]

MarkSeen(counter) ==
  /\ model' = Set!MarkSeen(model, counter)
  /\ win' =
       IF ~win.inited
       THEN [inited |-> TRUE, max |-> counter, bits |-> [win.bits EXCEPT ![0] = {0}]]
       ELSE IF counter > win.max
       THEN LET shift == counter - win.max
                moved == IF shift >= Words * WordBits THEN Zero ELSE shiftWords(win.bits, shift)
            IN [inited |-> TRUE, max |-> counter, bits |-> [moved EXCEPT ![0] = @ \cup {0}]]
       ELSE LET back == win.max - counter
                word == back \div WordBits
            IN IF word < Words
               THEN [win EXCEPT !.bits[word] = @ \cup {back % WordBits}]
               ELSE win

Init ==
  /\ win = [inited |-> FALSE, max |-> 0, bits |-> Zero]
  /\ model = Set!NewWindow

Next == \E counter \in 0..MaxCtr : MarkSeen(counter)

Spec == Init /\ [][Next]_vars

-----------------------------------------------------------------------------
\* The bitmap marks exactly the offsets of the window of sets, and CheckOnly
\* answers the same for every counter, after every sequence of MarkSeen calls:
\* shifts by less than a word, by whole words, across words and past the end.
BitmapIsTheWindow ==
  /\ win.inited = model.inited /\ win.max = model.max
  /\ model.seen = {k \in 0..(Words * WordBits - 1) :
                     k % WordBits \in win.bits[k \div WordBits]}
  /\ \A c \in 0..MaxCtr : CheckOnly(c) <=> Set!CheckOnly(model, c)
=============================================================================
