--------------------------- MODULE MCReorderBuffer ---------------------------
(***************************************************************************)
(* ReorderBuffer on five packets of sizes 1, 2, 1, 2, 1, a budget that two *)
(* or three held packets exceed, and a channel of two slots.               *)
(***************************************************************************)
EXTENDS ReorderBuffer

MCOffset == [g \in 0..(MaxGSN + 1) |-> g + g \div 2]

\* drainLocked as the loop it is in the code: pop while the head is nextExpected.
RECURSIVE DrainLoop(_)
DrainLoop(b) ==
  IF Held(b) # {} /\ HeapHead(b) = b.nextExpected
  THEN LET g == HeapHead(b)
       IN DrainLoop([b EXCEPT !.heap[g] = @ - 1, !.inHeap = @ \ {g},
                              !.curBytes = @ - SizeOf(g), !.nextExpected = @ + 1])
  ELSE b

\* DrainLocked is that loop, on every heap with up to two copies of a packet and
\* every cursor.
ASSUME DrainIsTheLoop ==
  \A h \in [GSN -> 0..2], n \in 0..(MaxGSN + 1) :
    LET b == [heap |-> h, inHeap |-> {g \in GSN : h[g] > 0}, nextExpected |-> n,
              curBytes |-> 9, forcedReleases |-> 0]
    IN DrainLocked(b) = DrainLoop(b)
=============================================================================
