--------------------------- MODULE OrderedDelivery ---------------------------
(***************************************************************************)
(* What a receiver of a bonded stream may rely on: numbers are handed over *)
(* in increasing order and at most once; without a declared loss the       *)
(* stream has no hole; one declared loss opens exactly one hole.  A packet *)
(* whose turn has come is either sent on or dropped by a full queue.       *)
(***************************************************************************)
EXTENDS Integers

CONSTANT Limit          \* bound: the cursor never passes Limit

VARIABLES cursor,       \* every number below it has been decided
          sent, dropped,    \* the numbers handed over, and discarded at a full queue
          losses        \* how often a hole was declared lost

ODvars == <<cursor, sent, dropped, losses>>

ODInit == cursor = 0 /\ sent = {} /\ dropped = {} /\ losses = 0

\* The numbers of S leave, each sent or dropped.
Leave(S) ==
  /\ sent \subseteq sent' /\ dropped \subseteq dropped'
  /\ (sent' \ sent) \cup (dropped' \ dropped) = S
  /\ (sent' \ sent) \cap (dropped' \ dropped) = {}

\* An unbroken run leaves.
InOrder ==
  /\ cursor' \in (cursor + 1)..Limit
  /\ Leave(cursor..(cursor' - 1))
  /\ losses' = losses

\* The hole lo..hi is declared lost; what precedes and follows it leaves.
DeclareLost ==
  /\ cursor' \in (cursor + 1)..Limit
  /\ \E lo, hi \in cursor..(cursor' - 2) :
       lo <= hi /\ Leave((cursor..(cursor' - 1)) \ (lo..hi))
  /\ losses' = losses + 1

ODNext == InOrder \/ DeclareLost

ODSpec == ODInit /\ [][ODNext]_ODvars
=============================================================================
