------------------------- MODULE ReorderBufferProofs -------------------------
(***************************************************************************)
(* Proofs about ReorderBuffer, for every number of packets, every budget,  *)
(* every packet size and every channel capacity.                           *)
(***************************************************************************)
EXTENDS ReorderBuffer, FiniteFacts, FiniteSetTheorems, TLAPS

\* The provers for a step that names none, in turn, with their time limits in seconds.
USE SMTT(10), ZenonT(20), SMTT(40), ZenonT(60)

\* A buffer between two pops of one operation: at most one copy of a packet,
\* none below the cursor.
Sound(b) ==
  /\ b \in Buffers
  /\ \A g \in GSN : b.heap[g] \in {0, 1}
  /\ b.inHeap = Held(b)
  /\ \A g \in Held(b) : g >= b.nextExpected

\* A buffer between two operations.
Settled(b) == Sound(b) /\ b.nextExpected \notin Held(b)

\* A non-empty set of naturals has a least element, and Min is it.
LEMMA MinIsLeast ==
  ASSUME NEW S \in SUBSET Nat, S # {}
  PROVE  /\ Min(S) \in S
         /\ \A y \in S : Min(S) <= y
<1>1. \E x \in S : \A y \in S : x <= y
  BY LeastNumber
<1>2. QED
  BY <1>1 DEF Min

\* Taking a packet that is neither queued nor passed keeps the buffer sound.
LEMMA InsertSound ==
  ASSUME NEW b, Settled(b), NEW g \in GSN, g >= b.nextExpected, g \notin b.inHeap
  PROVE  LET c == Insert(b, g)
         IN /\ Sound(c)
            /\ c.heap = [b.heap EXCEPT ![g] = 1]
            /\ c.nextExpected = b.nextExpected
            /\ c.forcedReleases = b.forcedReleases
<1> DEFINE c == Insert(b, g)
<1>1. b \in Buffers /\ b.heap \in [GSN -> Nat] /\ b.heap[g] = 0
  BY DEF Settled, Sound, Buffers, Held
<1>2. SizeOf(g) \in Int
  BY ReorderAssumption DEF SizeOf, GSN
<1>3. /\ c.heap = [b.heap EXCEPT ![g] = 1]
      /\ c.inHeap = b.inHeap \cup {g}
      /\ c.nextExpected = b.nextExpected
      /\ c.curBytes = b.curBytes + SizeOf(g)
      /\ c.forcedReleases = b.forcedReleases
  BY <1>1 DEF Insert, Buffers
<1>4. c \in Buffers
  BY <1>1, <1>2 DEF Insert, Buffers
<1>5. Held(c) = Held(b) \cup {g}
  BY <1>1, <1>3 DEF Held
<1>6. Sound(c)
  BY <1>1, <1>3, <1>4, <1>5 DEF Settled, Sound
<1>7. QED
  BY <1>3, <1>6

\* drainLocked releases one unbroken run, each of its packets once, and leaves
\* nothing releasable.
LEMMA DrainSettles ==
  ASSUME NEW b, Sound(b)
  PROVE  LET d == DrainLocked(b)
         IN /\ Settled(d)
            /\ d.nextExpected >= b.nextExpected
            /\ d.forcedReleases = b.forcedReleases
            /\ \A g \in GSN :
                 d.heap[g] = IF g \in b.nextExpected..(d.nextExpected - 1)
                             THEN 0 ELSE b.heap[g]
            /\ \A g \in b.nextExpected..(d.nextExpected - 1) : g \in Held(b)
<1> DEFINE n == b.nextExpected
           e == DrainEnd(b)
           stops == {x \in n..(MaxGSN + 1) :
                       x \notin Held(b) \/ (x > n /\ b.heap[x - 1] > 1)}
           d == DrainLocked(b)
<1>1. /\ b \in Buffers /\ b.heap \in [GSN -> Nat] /\ n \in 0..(MaxGSN + 1)
      /\ b.inHeap \in SUBSET GSN /\ b.curBytes \in Int /\ b.forcedReleases \in Nat
      /\ \A g \in GSN : b.heap[g] \in {0, 1}
  BY DEF Sound, Buffers
<1>2. MaxGSN \in Nat /\ Offset \in [0..(MaxGSN + 1) -> Nat]
  BY ReorderAssumption
<1>3. e = Min(stops)
  <2>1. ~ \E g \in Held(b) : g < n
    BY <1>1, <1>2 DEF Sound, Held, GSN
  <2>2. QED
    BY <2>1 DEF DrainEnd
<1>4. stops \in SUBSET Nat /\ stops # {}
  <2>1. MaxGSN + 1 \notin Held(b)
    BY <1>2 DEF Held, GSN
  <2>2. MaxGSN + 1 \in stops
    BY <1>1, <1>2, <2>1
  <2>3. \A x \in n..(MaxGSN + 1) : x \in Nat
    BY <1>1, <1>2
  <2>4. QED
    BY <2>2, <2>3
<1>5. e \in stops /\ \A x \in stops : e <= x
  BY <1>3, <1>4, MinIsLeast
<1>6. e \in n..(MaxGSN + 1)
  BY <1>5
<1>7. \A g \in n..(e - 1) : g \in Held(b) /\ b.heap[g] = 1
  <2> SUFFICES ASSUME NEW g \in n..(e - 1) PROVE g \in Held(b) /\ b.heap[g] = 1
    OBVIOUS
  <2>1. g \in n..(MaxGSN + 1) /\ g < e
    BY <1>1, <1>2, <1>6
  <2>2. g \notin stops
    BY <1>1, <1>2, <1>5, <1>6, <2>1
  <2>3. g \in Held(b)
    BY <2>1, <2>2
  <2>4. QED
    BY <1>1, <2>3 DEF Held
<1>8. e \notin Held(b)
  <2>1. CASE e = n
    BY <1>5, <2>1, <1>1
  <2>2. CASE e > n
    <3>1. e - 1 \in n..(e - 1)
      BY <1>1, <1>2, <1>6, <2>2
    <3>2. b.heap[e - 1] = 1
      BY <1>7, <3>1
    <3>3. QED
      BY <1>5, <3>2
  <2>3. QED
    BY <1>1, <1>2, <1>6, <2>1, <2>2
<1>9. /\ d.heap = [g \in GSN |-> IF g \in n..(e - 1) THEN b.heap[g] - 1 ELSE b.heap[g]]
      /\ d.inHeap = b.inHeap \ (n..(e - 1))
      /\ d.nextExpected = e
      /\ d.forcedReleases = b.forcedReleases
  BY DEF DrainLocked
<1>10. \A g \in GSN : d.heap[g] = IF g \in n..(e - 1) THEN 0 ELSE b.heap[g]
  BY <1>1, <1>7, <1>9
<1>11. Held(d) = Held(b) \ (n..(e - 1))
  BY <1>1, <1>10 DEF Held
<1>12. d \in Buffers
  <2>1. d.heap \in [GSN -> Nat]
    BY <1>1, <1>9, <1>10
  <2>2. b.curBytes - (Offset[e] - Offset[n]) \in Int
    BY <1>1, <1>2, <1>6
  <2>3. QED
    BY <1>1, <1>6, <1>9, <2>1, <2>2 DEF DrainLocked, Buffers
<1>13. Settled(d)
  <2>1. \A g \in GSN : d.heap[g] \in {0, 1}
    BY <1>1, <1>10
  <2>2. d.inHeap = Held(d)
    BY <1>9, <1>11 DEF Sound
  <2>3. \A g \in Held(d) : g >= e /\ g # e
    <3> SUFFICES ASSUME NEW g \in Held(d) PROVE g >= e /\ g # e
      OBVIOUS
    <3>1. g \in Held(b) /\ g \in Int /\ g >= n
      BY <1>2, <1>11 DEF Sound, Held, GSN
    <3>2. g \notin n..(e - 1)
      BY <1>11
    <3>3. QED
      BY <1>1, <1>2, <1>6, <1>8, <3>1, <3>2
  <2>4. QED
    BY <1>9, <1>12, <2>1, <2>2, <2>3 DEF Settled, Sound
<1>14. QED
  BY <1>1, <1>2, <1>6, <1>7, <1>9, <1>10, <1>13

\* forceReleaseHeadLocked pops the head and moves the cursor just behind it.
LEMMA ForceReleasesHead ==
  ASSUME NEW b, Sound(b), Held(b) # {}
  PROVE  LET f == ForceReleaseHead(b)
         IN /\ Sound(f)
            /\ HeapHead(b) \in Held(b) /\ HeapHead(b) >= b.nextExpected
            /\ \A g \in Held(b) : HeapHead(b) <= g
            /\ f.nextExpected = HeapHead(b) + 1
            /\ f.forcedReleases = b.forcedReleases + 1
            /\ \A g \in GSN : f.heap[g] = IF g = HeapHead(b) THEN 0 ELSE b.heap[g]
<1> DEFINE h == HeapHead(b)
           f == ForceReleaseHead(b)
<1>1. /\ b \in Buffers /\ b.heap \in [GSN -> Nat]
      /\ b.inHeap \in SUBSET GSN /\ b.curBytes \in Int /\ b.forcedReleases \in Nat
      /\ \A g \in GSN : b.heap[g] \in {0, 1}
  BY DEF Sound, Buffers
<1>2. MaxGSN \in Nat /\ Offset \in [0..(MaxGSN + 1) -> Nat]
  BY ReorderAssumption
<1>3. Held(b) \in SUBSET Nat
  BY <1>2 DEF Held, GSN
<1>4. h \in Held(b) /\ \A g \in Held(b) : h <= g
  BY <1>3, MinIsLeast DEF HeapHead
<1>5. h \in GSN /\ b.heap[h] = 1 /\ h >= b.nextExpected
  BY <1>1, <1>4 DEF Held, Sound
<1>6. f = [heap |-> [b.heap EXCEPT ![h] = @ - 1],
           inHeap |-> b.inHeap \ {h},
           nextExpected |-> h + 1,
           curBytes |-> b.curBytes - SizeOf(h),
           forcedReleases |-> b.forcedReleases + 1]
  BY DEF ForceReleaseHead
<1>7. \A g \in GSN : f.heap[g] = IF g = h THEN 0 ELSE b.heap[g]
  BY <1>1, <1>5, <1>6
<1>8. Held(f) = Held(b) \ {h}
  BY <1>1, <1>7 DEF Held
<1>9. f \in Buffers
  <2>1. SizeOf(h) \in Int
    BY <1>2, <1>5 DEF SizeOf, GSN
  <2>2. [b.heap EXCEPT ![h] = @ - 1] \in [GSN -> Nat]
    BY <1>1, <1>5
  <2>3. h + 1 \in 0..(MaxGSN + 1)
    BY <1>2, <1>5 DEF GSN
  <2>4. QED
    BY <1>1, <1>6, <2>1, <2>2, <2>3 DEF Buffers
<1>10. Sound(f)
  <2>1. \A g \in GSN : f.heap[g] \in {0, 1}
    BY <1>1, <1>7
  <2>2. f.inHeap = Held(f)
    BY <1>6, <1>8 DEF Sound
  <2>3. \A g \in Held(f) : g >= h + 1
    BY <1>2, <1>3, <1>4, <1>8 DEF Held, GSN
  <2>4. f.nextExpected = h + 1
    BY <1>6
  <2>5. QED
    BY <1>9, <2>1, <2>2, <2>3, <2>4 DEF Sound
<1>11. QED
  BY <1>4, <1>5, <1>6, <1>7, <1>10

\* What one operation does to a sound buffer b: the cursor moves up to that of c,
\* everything held below it is popped, nothing else changes, and the numbers
\* passed are either all held or all held but one hole that is declared lost.
Passes(b, c) ==
  /\ Settled(c)
  /\ c.nextExpected >= b.nextExpected
  /\ \A g \in GSN : c.heap[g] = IF g < c.nextExpected THEN 0 ELSE b.heap[g]
  /\ \/ /\ c.forcedReleases = b.forcedReleases
        /\ \A g \in b.nextExpected..(c.nextExpected - 1) : g \in Held(b)
     \/ /\ c.forcedReleases = b.forcedReleases + 1
        /\ \E lo, hi \in b.nextExpected..(c.nextExpected - 2) :
             /\ lo <= hi
             /\ \A g \in b.nextExpected..(c.nextExpected - 1) :
                  g \in Held(b) <=> g \notin lo..hi

LEMMA SoundTypes ==
  ASSUME NEW b, Sound(b)
  PROVE  /\ MaxGSN \in Nat
         /\ b.nextExpected \in 0..(MaxGSN + 1)
         /\ b.forcedReleases \in Nat
         /\ b.heap \in [GSN -> Nat]
         /\ \A g \in GSN : b.heap[g] \in {0, 1} /\ g \in Nat
         /\ \A g \in GSN : g \in Held(b) <=> b.heap[g] = 1
         /\ \A g \in GSN : g < b.nextExpected => b.heap[g] = 0
<1>1. /\ MaxGSN \in Nat
      /\ b.nextExpected \in 0..(MaxGSN + 1)
      /\ b.forcedReleases \in Nat
      /\ b.heap \in [GSN -> Nat]
      /\ \A g \in GSN : b.heap[g] \in {0, 1} /\ g \in Nat
  BY ReorderAssumption DEF Sound, Buffers, GSN
<1>2. \A g \in GSN : g \in Held(b) <=> b.heap[g] = 1
  BY <1>1 DEF Held
<1>3. \A g \in GSN : g \in Held(b) => g >= b.nextExpected
  BY DEF Sound
<1>4. QED
  BY <1>1, <1>2, <1>3

LEMMA DrainPasses ==
  ASSUME NEW b, Sound(b)
  PROVE  /\ Passes(b, DrainLocked(b))
         /\ DrainLocked(b).forcedReleases = b.forcedReleases
         /\ \A g \in b.nextExpected..(DrainLocked(b).nextExpected - 1) : g \in Held(b)
<1> DEFINE d == DrainLocked(b)
<1>1. /\ Settled(d)
      /\ d.nextExpected >= b.nextExpected
      /\ d.forcedReleases = b.forcedReleases
      /\ \A g \in GSN : d.heap[g] = IF g \in b.nextExpected..(d.nextExpected - 1)
                                    THEN 0 ELSE b.heap[g]
      /\ \A g \in b.nextExpected..(d.nextExpected - 1) : g \in Held(b)
  BY DrainSettles
<1>2. d.nextExpected \in 0..(MaxGSN + 1) /\ MaxGSN \in Nat
  BY <1>1, SoundTypes DEF Settled
<1> HIDE DEF d
<1>3. \A g \in GSN : d.heap[g] = IF g < d.nextExpected THEN 0 ELSE b.heap[g]
  BY <1>1, <1>2, SoundTypes
<1>4. Passes(b, d)
  BY <1>1, <1>3 DEF Passes
<1>5. QED
  BY <1>1, <1>4 DEF d

\* A forced release followed by a drain opens exactly one hole.
LEMMA ForcePasses ==
  ASSUME NEW b, Settled(b), Held(b) # {}
  PROVE  /\ Passes(b, DrainLocked(ForceReleaseHead(b)))
         /\ DrainLocked(ForceReleaseHead(b)).forcedReleases = b.forcedReleases + 1
<1> DEFINE f == ForceReleaseHead(b)
           d == DrainLocked(f)
           h == HeapHead(b)
<1>1. Sound(b) /\ b.nextExpected \notin Held(b)
  BY DEF Settled
<1>2. /\ Sound(f) /\ h \in Held(b) /\ h >= b.nextExpected
      /\ \A g \in Held(b) : h <= g
      /\ f.nextExpected = h + 1
      /\ f.forcedReleases = b.forcedReleases + 1
      /\ \A g \in GSN : f.heap[g] = IF g = h THEN 0 ELSE b.heap[g]
  BY <1>1, ForceReleasesHead
<1> HIDE DEF f, h
<1>3. /\ Settled(d)
      /\ d.nextExpected >= h + 1
      /\ d.forcedReleases = b.forcedReleases + 1
      /\ \A g \in GSN : d.heap[g] = IF g < d.nextExpected THEN 0 ELSE f.heap[g]
      /\ \A g \in (h + 1)..(d.nextExpected - 1) : g \in Held(f)
  BY <1>2, DrainPasses DEF Passes
<1>4. d.nextExpected \in 0..(MaxGSN + 1)
  BY <1>3, SoundTypes DEF Settled
<1> HIDE DEF d
<1>5. MaxGSN \in Nat /\ h \in GSN /\ h \in Nat /\ b.nextExpected \in Nat /\ h > b.nextExpected
  <2>1. MaxGSN \in Nat /\ h \in GSN /\ h \in Nat /\ b.nextExpected \in Nat
    BY <1>1, <1>2, SoundTypes DEF Held
  <2>2. QED
    BY <1>1, <1>2, <2>1
<1>6. \A g \in GSN : d.heap[g] = IF g < d.nextExpected THEN 0 ELSE b.heap[g]
  BY <1>2, <1>3, <1>4, <1>5
<1>7. \A g \in b.nextExpected..(d.nextExpected - 1) :
        g \in Held(b) <=> g \notin b.nextExpected..(h - 1)
  <2> SUFFICES ASSUME NEW g \in b.nextExpected..(d.nextExpected - 1)
               PROVE  g \in Held(b) <=> g \notin b.nextExpected..(h - 1)
    OBVIOUS
  <2>1. g \in GSN /\ g \in Int
    BY <1>4, <1>5 DEF GSN
  <2>2. CASE g < h
    BY <1>2, <1>5, <2>1, <2>2
  <2>3. CASE g = h
    BY <1>2, <1>5, <2>3
  <2>4. CASE g > h
    <3>1. g \in Held(f)
      BY <1>3, <1>4, <1>5, <2>1, <2>4
    <3>2. g \in Held(b)
      BY <1>2, <1>5, <2>1, <2>4, <3>1 DEF Held
    <3>3. QED
      BY <1>5, <2>1, <2>4, <3>2
  <2>5. QED
    BY <1>5, <2>1, <2>2, <2>3, <2>4
<1>8. \E lo, hi \in b.nextExpected..(d.nextExpected - 2) :
        /\ lo <= hi
        /\ \A g \in b.nextExpected..(d.nextExpected - 1) : g \in Held(b) <=> g \notin lo..hi
  <2>1. /\ b.nextExpected \in b.nextExpected..(d.nextExpected - 2)
        /\ h - 1 \in b.nextExpected..(d.nextExpected - 2)
        /\ b.nextExpected <= h - 1
    BY <1>3, <1>4, <1>5
  <2>2. QED
    BY <1>7, <2>1
<1>9. Passes(b, d)
  <2>1. d.nextExpected >= b.nextExpected
    BY <1>3, <1>4, <1>5
  <2>2. QED
    BY <1>3, <1>6, <1>8, <2>1 DEF Passes
<1>10. QED
  BY <1>3, <1>9 DEF d, f

\* A drain followed by a further operation is again one operation.
LEMMA PassesAfterDrain ==
  ASSUME NEW b, Sound(b), NEW c, Passes(DrainLocked(b), c)
  PROVE  Passes(b, c)
<1> DEFINE d == DrainLocked(b)
<1>1. /\ Settled(d) /\ d.nextExpected >= b.nextExpected
      /\ d.forcedReleases = b.forcedReleases
      /\ \A g \in GSN : d.heap[g] = IF g < d.nextExpected THEN 0 ELSE b.heap[g]
      /\ \A g \in b.nextExpected..(d.nextExpected - 1) : g \in Held(b)
  BY DrainPasses DEF Passes
<1>2. Passes(d, c)
  OBVIOUS
<1> HIDE DEF d
<1>3. /\ Settled(c) /\ c.nextExpected >= d.nextExpected
      /\ \A g \in GSN : c.heap[g] = IF g < c.nextExpected THEN 0 ELSE d.heap[g]
  BY <1>2 DEF Passes
<1>4. /\ MaxGSN \in Nat
      /\ b.nextExpected \in 0..(MaxGSN + 1)
      /\ d.nextExpected \in 0..(MaxGSN + 1)
      /\ c.nextExpected \in 0..(MaxGSN + 1)
  BY <1>1, <1>3, SoundTypes DEF Settled
<1>5. c.nextExpected >= b.nextExpected
  BY <1>1, <1>3, <1>4
<1>6. \A g \in GSN : c.heap[g] = IF g < c.nextExpected THEN 0 ELSE b.heap[g]
  BY <1>1, <1>3, <1>4 DEF GSN
<1>7. \A g \in b.nextExpected..(c.nextExpected - 1) :
        g \in Held(b) <=> (g < d.nextExpected \/ g \in Held(d))
  <2> SUFFICES ASSUME NEW g \in b.nextExpected..(c.nextExpected - 1)
               PROVE  g \in Held(b) <=> (g < d.nextExpected \/ g \in Held(d))
    OBVIOUS
  <2>1. g \in GSN /\ g \in Int
    BY <1>4 DEF GSN
  <2>2. CASE g < d.nextExpected
    BY <1>1, <1>4, <2>1, <2>2
  <2>3. CASE ~ (g < d.nextExpected)
    BY <1>1, <2>1, <2>3 DEF Held
  <2>4. QED
    BY <2>2, <2>3
<1>8. CASE /\ c.forcedReleases = d.forcedReleases
           /\ \A g \in d.nextExpected..(c.nextExpected - 1) : g \in Held(d)
  <2>1. \A g \in b.nextExpected..(c.nextExpected - 1) : g \in Held(b)
    BY <1>4, <1>7, <1>8
  <2>2. QED
    BY <1>1, <1>3, <1>5, <1>6, <1>8, <2>1 DEF Passes
<1>9. CASE /\ c.forcedReleases = d.forcedReleases + 1
           /\ \E lo, hi \in d.nextExpected..(c.nextExpected - 2) :
                /\ lo <= hi
                /\ \A g \in d.nextExpected..(c.nextExpected - 1) :
                     g \in Held(d) <=> g \notin lo..hi
  <2>1. PICK lo \in d.nextExpected..(c.nextExpected - 2),
             hi \in d.nextExpected..(c.nextExpected - 2) :
                /\ lo <= hi
                /\ \A g \in d.nextExpected..(c.nextExpected - 1) :
                     g \in Held(d) <=> g \notin lo..hi
    BY <1>9
  <2>2. /\ lo \in b.nextExpected..(c.nextExpected - 2)
        /\ hi \in b.nextExpected..(c.nextExpected - 2)
    BY <1>1, <1>4
  <2>3. \A g \in b.nextExpected..(c.nextExpected - 1) : g \in Held(b) <=> g \notin lo..hi
    BY <1>4, <1>7, <2>1
  <2>4. QED
    BY <1>1, <1>3, <1>5, <1>6, <1>9, <2>1, <2>2, <2>3 DEF Passes
<1>10. QED
  BY <1>2, <1>8, <1>9 DEF Passes

\* The tail of Push, with or without an overflow, is one operation.
LEMMA SettlePasses ==
  ASSUME NEW b, Sound(b)
  PROVE  Passes(b, Settle(b))
<1> DEFINE d == DrainLocked(b)
<1>1. Passes(b, d) /\ Settled(d)
  BY DrainPasses DEF Passes
<1>2. CASE ~ (d.curBytes > MaxBytes)
  BY <1>1, <1>2 DEF Settle
<1>3. CASE d.curBytes > MaxBytes /\ Held(d) = {}
  <2>1. Settle(b) = DrainLocked(d)
    BY <1>3 DEF Settle, ForceReleaseHead
  <2>2. Passes(d, DrainLocked(d))
    BY <1>1, DrainPasses DEF Settled
  <2>3. QED
    BY <2>1, <2>2, PassesAfterDrain
<1>4. CASE d.curBytes > MaxBytes /\ Held(d) # {}
  <2>1. Settle(b) = DrainLocked(ForceReleaseHead(d))
    BY <1>4 DEF Settle
  <2>2. Passes(d, DrainLocked(ForceReleaseHead(d)))
    BY <1>1, <1>4, ForcePasses
  <2>3. QED
    BY <2>1, <2>2, PassesAfterDrain
<1>5. QED
  BY <1>2, <1>3, <1>4

\* No packet above the cursor has left the buffer.
Decided ==
  \A g \in GSN : delivered[g] + lost[g] > 0 => g < buf.nextExpected

\* The inductive invariant.
Inv ==
  /\ TypeOK
  /\ Settled(buf)
  /\ Conservation
  /\ Decided
  /\ TimerCoversHead

\* emitLocked offers every popped packet exactly once, to out or to nobody.
LEMMA EmitAccounts ==
  ASSUME TypeOK, NEW b, Sound(b), NEW c, Passes(b, c), Emit(b, c)
  PROVE  /\ unread' \in 0..OutCap
         /\ delivered' \in [GSN -> Nat] /\ lost' \in [GSN -> Nat]
         /\ \A g \in GSN : c.heap[g] + delivered'[g] + lost'[g]
                           = b.heap[g] + delivered[g] + lost[g]
         /\ \A g \in GSN : delivered'[g] >= delivered[g] /\ lost'[g] >= lost[g]
         /\ \A g \in GSN : delivered'[g] = delivered[g] \/ lost'[g] = lost[g]
<1> DEFINE gone == {g \in GSN : b.heap[g] - c.heap[g] > 0}
<1>1. PICK kept \in SUBSET gone :
        /\ delivered' = [g \in GSN |-> delivered[g]
                           + (IF g \in kept THEN b.heap[g] - c.heap[g] ELSE 0)]
        /\ lost' = [g \in GSN |-> lost[g]
                      + (IF g \in gone \ kept THEN b.heap[g] - c.heap[g] ELSE 0)]
        /\ unread' = Min({OutCap, unread + Cardinality(kept)})
  BY DEF Emit
<1>2. /\ \A g \in GSN : b.heap[g] \in {0, 1} /\ c.heap[g] \in {0, 1}
      /\ \A g \in GSN : c.heap[g] <= b.heap[g]
      /\ MaxGSN \in Nat
  BY SoundTypes DEF Passes, Settled
<1>3. \A g \in GSN : delivered[g] \in Nat /\ lost[g] \in Nat
  BY DEF TypeOK
<1>4. unread' \in 0..OutCap
  <2>1. IsFiniteSet(GSN)
    BY <1>2, FS_Interval DEF GSN
  <2>2. Cardinality(kept) \in Nat
    BY <1>1, <2>1, FS_Subset, FS_CardinalityType
  <2>3. OutCap \in Nat /\ unread \in Nat
    BY ReorderAssumption DEF TypeOK
  <2>4. {OutCap, unread + Cardinality(kept)} \in SUBSET Nat
    BY <2>2, <2>3
  <2>5. /\ unread' \in {OutCap, unread + Cardinality(kept)}
        /\ unread' <= OutCap
    BY <1>1, <2>4, MinIsLeast
  <2>6. QED
    BY <2>3, <2>4, <2>5
<1>5. \A g \in GSN :
        /\ delivered'[g] = delivered[g] + (IF g \in kept THEN b.heap[g] - c.heap[g] ELSE 0)
        /\ lost'[g] = lost[g] + (IF g \in gone \ kept THEN b.heap[g] - c.heap[g] ELSE 0)
  BY <1>1
<1>6. \A g \in GSN : (b.heap[g] - c.heap[g]) \in {0, 1} /\ (g \in gone <=> b.heap[g] - c.heap[g] = 1)
  BY <1>2
<1>7. \A g \in GSN : delivered'[g] \in Nat /\ lost'[g] \in Nat
  BY <1>3, <1>5, <1>6
<1>8. \A g \in GSN : c.heap[g] + delivered'[g] + lost'[g] = b.heap[g] + delivered[g] + lost[g]
  BY <1>1, <1>2, <1>3, <1>5, <1>6
<1>9. \A g \in GSN : delivered'[g] >= delivered[g] /\ lost'[g] >= lost[g]
  BY <1>3, <1>5, <1>6
<1>10. \A g \in GSN : delivered'[g] = delivered[g] \/ lost'[g] = lost[g]
  BY <1>3, <1>5, <1>6
<1>11. delivered' \in [GSN -> Nat] /\ lost' \in [GSN -> Nat]
  BY <1>1, <1>7
<1>12. QED
  BY <1>4, <1>8, <1>9, <1>10, <1>11

\* rearmTimerLocked leaves the head of c covered, provided its early return is
\* taken only for a head that is covered already.
LEMMA RearmCovers ==
  ASSUME TypeOK, NEW c, Settled(c), RearmTimer(c),
         headSet /\ headGSN = HeapHead(c) =>
           armed \subseteq {HeapHead(c)} /\ HeapHead(c) \in armed \cup fired'
  PROVE  /\ headSet' \in BOOLEAN /\ headGSN' \in GSN /\ armed' \in SUBSET GSN
         /\ IF Held(c) = {}
            THEN ~headSet' /\ armed' = {}
            ELSE /\ headSet' /\ headGSN' = HeapHead(c)
                 /\ armed' \subseteq {HeapHead(c)}
                 /\ HeapHead(c) \in armed' \cup fired'
<1>1. Held(c) # {} => HeapHead(c) \in GSN
  BY ForceReleasesHead DEF Settled, Held
<1>2. CASE Held(c) = {}
  BY <1>2 DEF RearmTimer, TypeOK
<1>3. CASE Held(c) # {} /\ headSet /\ headGSN = HeapHead(c)
  BY <1>1, <1>3 DEF RearmTimer, TypeOK, timerVars
<1>4. CASE Held(c) # {} /\ ~ (headSet /\ headGSN = HeapHead(c))
  BY <1>1, <1>4 DEF RearmTimer, TypeOK
<1>5. QED
  BY <1>2, <1>3, <1>4

LEMMA InitInv == Init => Inv
<1> SUFFICES ASSUME Init PROVE Inv
  OBVIOUS
<1>1. MaxGSN \in Nat /\ 0 \in GSN /\ 0 \in 0..OutCap
  BY ReorderAssumption DEF GSN
<1>2. buf \in Buffers /\ Held(buf) = {} /\ \A g \in GSN : buf.heap[g] = 0
  BY <1>1 DEF Init, Buffers, Held
<1>3. TypeOK
  BY <1>1, <1>2 DEF Init, TypeOK
<1>4. Settled(buf)
  BY <1>2 DEF Init, Settled, Sound
<1>5. Conservation
  BY <1>2 DEF Init, Conservation
<1>6. Decided
  BY DEF Init, Decided
<1>7. TimerCoversHead
  BY <1>2 DEF Init, TimerCoversHead
<1>8. QED
  BY <1>3, <1>4, <1>5, <1>6, <1>7 DEF Inv

\* Taking a new packet preserves the invariant.
LEMMA PushInv ==
  ASSUME Inv, NEW g \in GSN, Push(g), ~ (g < buf.nextExpected \/ g \in buf.inHeap)
  PROVE  Inv'
<1> DEFINE b == Insert(buf, g)
<1>1. /\ buf' = Settle(b) /\ Emit(b, buf') /\ RearmTimer(buf')
      /\ arrived' = arrived \cup {g} /\ fired' = fired
  BY DEF Push
<1>2. TypeOK /\ Settled(buf) /\ Sound(buf)
  BY DEF Inv, Settled
<1>3. buf.nextExpected \in Int /\ g \in Int /\ g >= buf.nextExpected /\ g \notin buf.inHeap
  BY <1>2, SoundTypes
<1>4. /\ Sound(b) /\ b.heap = [buf.heap EXCEPT ![g] = 1]
      /\ b.nextExpected = buf.nextExpected
  BY <1>2, <1>3, InsertSound
<1> HIDE DEF b
<1>5. Passes(b, buf')
  BY <1>1, <1>4, SettlePasses
<1>6. /\ Settled(buf') /\ buf' \in Buffers
      /\ buf'.nextExpected >= buf.nextExpected
      /\ \A k \in GSN : buf'.heap[k] = IF k < buf'.nextExpected THEN 0 ELSE b.heap[k]
      /\ buf'.nextExpected \in Int
  BY <1>4, <1>5, SoundTypes DEF Passes, Settled, Sound
<1>7. /\ unread' \in 0..OutCap
      /\ delivered' \in [GSN -> Nat] /\ lost' \in [GSN -> Nat]
      /\ \A k \in GSN : buf'.heap[k] + delivered'[k] + lost'[k]
                        = b.heap[k] + delivered[k] + lost[k]
  <2>1. TypeOK /\ Sound(b) /\ Passes(b, buf') /\ Emit(b, buf')
    BY <1>1, <1>2, <1>4, <1>5
  <2>2. QED
    BY <2>1, EmitAccounts
<1>8. /\ buf.heap \in [GSN -> Nat] /\ delivered \in [GSN -> Nat] /\ lost \in [GSN -> Nat]
      /\ buf.heap[g] = 0
  BY <1>2, <1>3, SoundTypes DEF TypeOK, Sound, Held
<1>9. delivered[g] = 0 /\ lost[g] = 0 /\ g \notin arrived
  BY <1>3, <1>8 DEF Inv, Decided, Conservation
<1>10. Conservation'
  <2>1. \A k \in GSN : b.heap[k] + delivered[k] + lost[k] = IF k \in arrived' THEN 1 ELSE 0
    BY <1>1, <1>4, <1>8, <1>9 DEF Inv, Conservation
  <2>2. QED
    BY <1>7, <2>1 DEF Conservation
<1>11. Decided'
  <2> SUFFICES ASSUME NEW k \in GSN, delivered'[k] + lost'[k] > 0
               PROVE  k < buf'.nextExpected
    BY DEF Decided
  <2>1. k \in Int /\ delivered[k] \in Nat /\ lost[k] \in Nat
    BY <1>2, <1>8, SoundTypes
  <2>2. CASE delivered[k] + lost[k] > 0
    BY <1>2, <1>3, <1>6, <2>1, <2>2 DEF Inv, Decided
  <2>3. CASE ~ (delivered[k] + lost[k] > 0)
    <3>1. b.heap[k] # buf'.heap[k]
      BY <1>4, <1>6, <1>7, <2>1, <2>3, SoundTypes DEF Settled
    <3>2. QED
      BY <1>6, <3>1
  <2>4. QED
    BY <2>2, <2>3
<1>12. headSet /\ headGSN = HeapHead(buf') =>
         armed \subseteq {HeapHead(buf')} /\ HeapHead(buf') \in armed \cup fired'
  BY <1>1 DEF Inv, TimerCoversHead
<1>13. /\ headSet' \in BOOLEAN /\ headGSN' \in GSN /\ armed' \in SUBSET GSN
       /\ TimerCoversHead'
  BY <1>1, <1>2, <1>6, <1>12, RearmCovers DEF TimerCoversHead
<1>14. TypeOK'
  BY <1>1, <1>2, <1>6, <1>7, <1>13 DEF TypeOK
<1>15. QED
  BY <1>6, <1>10, <1>11, <1>13, <1>14 DEF Inv

\* A forced release on a deadline preserves the invariant.
LEMMA OnDeadlineInv ==
  ASSUME Inv, NEW g \in GSN, OnDeadline(g), Held(buf) # {}, HeapHead(buf) = g
  PROVE  Inv'
<1>1. /\ buf' = DrainLocked(ForceReleaseHead(buf)) /\ Emit(buf, buf') /\ RearmTimer(buf')
      /\ arrived' = arrived /\ fired' = fired \ {g}
  BY DEF OnDeadline
<1>2. TypeOK /\ Settled(buf) /\ Sound(buf)
  BY DEF Inv, Settled
<1>3. Passes(buf, buf')
  BY <1>1, <1>2, ForcePasses
<1>4. /\ Settled(buf') /\ Sound(buf') /\ buf' \in Buffers
      /\ buf'.nextExpected >= buf.nextExpected
      /\ \A k \in GSN : buf'.heap[k] = IF k < buf'.nextExpected THEN 0 ELSE buf.heap[k]
      /\ buf'.nextExpected \in Int /\ buf.nextExpected \in Int
  BY <1>2, <1>3, SoundTypes DEF Passes, Settled, Sound
<1>5. /\ unread' \in 0..OutCap
      /\ delivered' \in [GSN -> Nat] /\ lost' \in [GSN -> Nat]
      /\ \A k \in GSN : buf'.heap[k] + delivered'[k] + lost'[k]
                        = buf.heap[k] + delivered[k] + lost[k]
  BY <1>1, <1>2, <1>3, EmitAccounts
<1>6. Conservation'
  BY <1>1, <1>5 DEF Inv, Conservation
<1>7. Decided'
  <2> SUFFICES ASSUME NEW k \in GSN, delivered'[k] + lost'[k] > 0
               PROVE  k < buf'.nextExpected
    BY DEF Decided
  <2>1. k \in Int /\ delivered[k] \in Nat /\ lost[k] \in Nat
    BY <1>2, SoundTypes DEF TypeOK
  <2>2. CASE delivered[k] + lost[k] > 0
    BY <1>4, <2>1, <2>2 DEF Inv, Decided
  <2>3. CASE ~ (delivered[k] + lost[k] > 0)
    <3>1. buf.heap[k] # buf'.heap[k]
      BY <1>2, <1>4, <1>5, <2>1, <2>3, SoundTypes
    <3>2. QED
      BY <1>4, <3>1
  <2>4. QED
    BY <2>2, <2>3
<1>8. ~ (headSet /\ headGSN = HeapHead(buf')) \/ Held(buf') = {}
  <2> SUFFICES ASSUME Held(buf') # {} PROVE headGSN # HeapHead(buf')
    OBVIOUS
  <2>1. headGSN = g
    BY DEF Inv, TimerCoversHead
  <2>2. g \in Held(buf) /\ g \in GSN
    BY <1>2, ForceReleasesHead
  <2>3. ForceReleaseHead(buf).nextExpected = g + 1 /\ Sound(ForceReleaseHead(buf))
    BY <1>2, ForceReleasesHead
  <2>4. buf'.nextExpected >= g + 1
    BY <1>1, <2>3, DrainSettles
  <2>5. HeapHead(buf') >= buf'.nextExpected /\ HeapHead(buf') \in GSN
    BY <1>4, ForceReleasesHead DEF Held
  <2>6. g \in Int /\ HeapHead(buf') \in Int
    BY <1>2, <2>5, SoundTypes
  <2>7. QED
    BY <1>4, <2>1, <2>4, <2>5, <2>6
<1>9. /\ headSet' \in BOOLEAN /\ headGSN' \in GSN /\ armed' \in SUBSET GSN
      /\ TimerCoversHead'
  <2>1. Held(buf') # {} => HeapHead(buf') \in GSN
    BY <1>4, ForceReleasesHead DEF Held
  <2>2. CASE Held(buf') = {}
    BY <1>1, <1>2, <2>2 DEF RearmTimer, TimerCoversHead, TypeOK
  <2>3. CASE Held(buf') # {}
    BY <1>1, <1>8, <2>1, <2>3 DEF RearmTimer, TimerCoversHead
  <2>4. QED
    BY <2>2, <2>3
<1>10. TypeOK'
  BY <1>1, <1>2, <1>4, <1>5, <1>9 DEF TypeOK
<1>11. QED
  BY <1>4, <1>6, <1>7, <1>9, <1>10 DEF Inv

LEMMA NextInv == Inv /\ [Next]_vars => Inv'
<1> SUFFICES ASSUME Inv, [Next]_vars PROVE Inv'
  OBVIOUS
<1>1. ASSUME UNCHANGED vars PROVE Inv'
  BY <1>1 DEF Inv, vars, timerVars, outVars, TypeOK, Conservation, Decided, TimerCoversHead
<1>2. ASSUME NEW g \in GSN, Push(g) PROVE Inv'
  <2>1. CASE g < buf.nextExpected \/ g \in buf.inHeap
    BY <1>1, <1>2, <2>1 DEF Push
  <2>2. CASE ~ (g < buf.nextExpected \/ g \in buf.inHeap)
    BY <1>2, <2>2, PushInv
  <2>3. QED
    BY <2>1, <2>2
<1>3. CASE PushUrgent
  <2>1. unread' \in 0..OutCap
    BY <1>3, ReorderAssumption DEF PushUrgent, Inv, TypeOK
  <2>2. QED
    BY <1>3, <2>1 DEF PushUrgent, Inv, timerVars, TypeOK, Conservation, Decided, TimerCoversHead
<1>4. CASE TimerFires
  BY <1>4 DEF TimerFires, Inv, outVars, TypeOK, Conservation, Decided, TimerCoversHead
<1>5. ASSUME NEW g \in GSN, OnDeadline(g) PROVE Inv'
  <2>1. CASE Held(buf) = {} \/ HeapHead(buf) # g
    BY <1>5, <2>1
    DEF OnDeadline, Inv, timerVars, outVars, TypeOK, Conservation, Decided, TimerCoversHead
  <2>2. CASE Held(buf) # {} /\ HeapHead(buf) = g
    BY <1>5, <2>2, OnDeadlineInv
  <2>3. QED
    BY <2>1, <2>2
<1>6. CASE Receive
  <2>1. unread' \in 0..OutCap
    BY <1>6, ReorderAssumption DEF Receive, Inv, TypeOK
  <2>2. QED
    BY <1>6, <2>1 DEF Receive, Inv, timerVars, TypeOK, Conservation, Decided, TimerCoversHead
<1>7. QED
  BY <1>1, <1>2, <1>3, <1>4, <1>5, <1>6 DEF Next

\* The inductive invariant holds of every behaviour of the buffer.
THEOREM InvariantHolds == Spec => []Inv
BY InitInv, NextInv, PTL DEF Spec

\* Every field and history variable keeps its type, for all constants; in
\* particular out never holds more than OutCap packets.
THEOREM TypeCorrect == Spec => []TypeOK
<1>1. Inv => TypeOK
  BY DEF Inv
<1>2. QED
  BY <1>1, InvariantHolds, PTL

\* Push's dedup and emitLocked: whatever copies arrive and however callbacks
\* interleave, a packet is held, delivered or discarded exactly once.
THEOREM DeliveredAtMostOnce == Spec => []Conservation
<1>1. Inv => Conservation
  BY DEF Inv
<1>2. QED
  BY <1>1, InvariantHolds, PTL

\* After every operation, what can be released has been released.
THEOREM ReleasableIsReleased == Spec => []NothingReleasableHeld
<1>1. Inv => NothingReleasableHeld
  <2> SUFFICES ASSUME Inv PROVE NothingReleasableHeld
    OBVIOUS
  <2>1. Sound(buf) /\ buf.nextExpected \notin Held(buf)
    BY DEF Inv, Settled
  <2>2. \A g \in Held(buf) : g \in Int /\ g >= buf.nextExpected /\ g # buf.nextExpected
    BY <2>1, SoundTypes DEF Sound, Held
  <2>3. buf.nextExpected \in Int
    BY <2>1, SoundTypes
  <2>4. QED
    BY <2>1, <2>2, <2>3 DEF NothingReleasableHeld, Sound
<1>2. QED
  BY <1>1, InvariantHolds, PTL

\* The head of the heap always has a running timer or a started callback.
THEOREM HeadIsTimed == Spec => []TimerCoversHead
<1>1. Inv => TimerCoversHead
  BY DEF Inv
<1>2. QED
  BY <1>1, InvariantHolds, PTL

-----------------------------------------------------------------------------
(* Byte accounting *)

\* The total size of a set of packets, and a buffer whose curBytes is exact.
BytesOf(S) == SumFunctionOnSet([g \in GSN |-> SizeOf(g)], S)
Exact(b) == b.curBytes = BytesOf(Held(b))

\* The total size of a set of packets is an integer; one packet more or less
\* changes it by its size.
LEMMA BytesFacts ==
  ASSUME NEW S \in SUBSET GSN
  PROVE  /\ IsFiniteSet(S)
         /\ BytesOf(S) \in Int
         /\ \A g \in S : BytesOf(S \ {g}) = BytesOf(S) - SizeOf(g)
         /\ \A g \in GSN \ S : BytesOf(S \cup {g}) = BytesOf(S) + SizeOf(g)
<1> DEFINE f == [g \in GSN |-> SizeOf(g)]
<1>1. IsFiniteSet(GSN)
  BY ReorderAssumption, FS_Interval DEF GSN
<1>2. IsFiniteSet(S)
  BY <1>1, FS_Subset
<1>3. \A g \in GSN : SizeOf(g) \in Int /\ f[g] = SizeOf(g)
  BY ReorderAssumption DEF SizeOf, GSN
<1> HIDE DEF f
<1>4. \A T \in SUBSET GSN : BytesOf(T) \in Int
  <2> SUFFICES ASSUME NEW T \in SUBSET GSN PROVE BytesOf(T) \in Int
    OBVIOUS
  <2>1. IsFiniteSet(T) /\ \A g \in T : f[g] \in Int
    BY <1>1, <1>3, FS_Subset
  <2>2. QED
    BY <2>1, SumType DEF BytesOf, f
<1>5. ASSUME NEW g \in S PROVE BytesOf(S \ {g}) = BytesOf(S) - SizeOf(g)
  <2>1. BytesOf(S) = f[g] + BytesOf(S \ {g})
    BY <1>2, <1>3, SumRemove DEF BytesOf, f
  <2>2. BytesOf(S) \in Int /\ BytesOf(S \ {g}) \in Int /\ f[g] = SizeOf(g) /\ SizeOf(g) \in Int
    BY <1>3, <1>4
  <2>3. QED
    BY <2>1, <2>2
<1>6. ASSUME NEW g \in GSN \ S PROVE BytesOf(S \cup {g}) = BytesOf(S) + SizeOf(g)
  <2>1. BytesOf(S \cup {g}) = f[g] + BytesOf(S)
    BY <1>2, <1>3, SumAdd DEF BytesOf, f
  <2>2. BytesOf(S) \in Int /\ f[g] = SizeOf(g) /\ SizeOf(g) \in Int
    BY <1>3, <1>4
  <2>3. QED
    BY <2>1, <2>2
<1>7. QED
  BY <1>2, <1>4, <1>5, <1>6

\* An unbroken run of packets takes the difference of two offsets, as
\* drainLocked's repeated subtraction leaves it.
LEMMA RunBytes ==
  ASSUME NEW S \in SUBSET GSN, NEW m \in 0..(MaxGSN + 1), NEW e \in Nat, m <= e,
         \A g \in m..(e - 1) : g \in S
  PROVE  BytesOf(S \ (m..(e - 1))) = BytesOf(S) - (Offset[e] - Offset[m])
<1> DEFINE Rest(x) == S \ (m..(x - 1))
           Bad == {x \in Nat : x \in m..e /\ BytesOf(Rest(x)) # BytesOf(S) - (Offset[x] - Offset[m])}
<1>0. SUFFICES ASSUME Bad # {} PROVE FALSE
  <2>1. e \in Nat /\ e \in m..e
    BY ReorderAssumption
  <2>2. QED
    BY <2>1
<1>1. PICK x \in Bad : \A y \in Bad : x <= y
  <2>1. Bad \in SUBSET Nat
    OBVIOUS
  <2> HIDE DEF Bad
  <2>2. QED
    BY <1>0, <2>1, LeastNumber
<1>2. x \in Nat /\ x \in m..e /\ BytesOf(Rest(x)) # BytesOf(S) - (Offset[x] - Offset[m])
  OBVIOUS
<1>3. MaxGSN \in Nat /\ Offset \in [0..(MaxGSN + 1) -> Nat]
  BY ReorderAssumption
<1>4. m \in Nat /\ e <= MaxGSN + 1
  <2>1. CASE e > m
    <3>1. e - 1 \in m..(e - 1)
      BY <1>3, <2>1
    <3>2. e - 1 \in GSN
      BY <3>1
    <3>3. QED
      BY <1>3, <3>2 DEF GSN
  <2>2. QED
    BY <1>3, <2>1
<1>5. CASE x = m
  <2>1. Rest(m) = S
    BY <1>4
  <2>2. Offset[m] \in Int /\ BytesOf(S) \in Int
    BY <1>3, BytesFacts
  <2>3. QED
    BY <1>2, <1>5, <2>1, <2>2
<1>6. CASE x # m
  <2>1. PICK y \in Nat : x = y + 1 /\ y \in m..e /\ y <= MaxGSN /\ y \in GSN
    <3>1. x - 1 \in Nat /\ x = (x - 1) + 1 /\ x - 1 \in m..e /\ x - 1 <= MaxGSN /\ x - 1 \in GSN
      BY <1>2, <1>3, <1>4, <1>6 DEF GSN
    <3>2. QED
      BY <3>1
  <2>2. y \notin Bad
    <3> HIDE DEF Bad
    <3> QED
      BY <1>1, <1>2, <2>1
  <2>3. BytesOf(Rest(y)) = BytesOf(S) - (Offset[y] - Offset[m])
    BY <2>1, <2>2
  <2>4. y \in Rest(y) /\ Rest(x) = Rest(y) \ {y} /\ Rest(y) \in SUBSET GSN
    BY <1>2, <2>1
  <2> HIDE DEF Rest
  <2>5. BytesOf(Rest(x)) = BytesOf(Rest(y)) - SizeOf(y)
    BY <2>4, BytesFacts
  <2>6. SizeOf(y) = Offset[x] - Offset[y]
    BY <2>1 DEF SizeOf
  <2>7. Offset[x] \in Int /\ Offset[y] \in Int /\ Offset[m] \in Int /\ BytesOf(S) \in Int
    BY <1>2, <1>3, <1>4, <2>1, BytesFacts
  <2>8. QED
    BY <1>2, <2>3, <2>5, <2>6, <2>7
<1>7. QED
  BY <1>5, <1>6

\* What the two helpers that touch one packet do to the set of held packets.
LEMMA InsertHolds ==
  ASSUME NEW b, Settled(b), NEW g \in GSN, g >= b.nextExpected, g \notin b.inHeap
  PROVE  Held(Insert(b, g)) = Held(b) \cup {g}
<1>1. b.heap \in [GSN -> Nat] /\ b.heap[g] = 0
  BY DEF Settled, Sound, Buffers, Held
<1>2. Insert(b, g).heap = [b.heap EXCEPT ![g] = 1]
  BY <1>1 DEF Insert
<1>3. QED
  BY <1>1, <1>2 DEF Held

LEMMA ForceHolds ==
  ASSUME NEW b, Sound(b), Held(b) # {}
  PROVE  Held(ForceReleaseHead(b)) = Held(b) \ {HeapHead(b)}
<1> DEFINE f == ForceReleaseHead(b)
<1>1. HeapHead(b) \in Held(b) /\ \A g \in GSN : f.heap[g] = IF g = HeapHead(b) THEN 0 ELSE b.heap[g]
  BY ForceReleasesHead
<1>2. QED
  BY <1>1, SoundTypes DEF Held

\* Each of the three locked helpers keeps curBytes exact.
LEMMA InsertExact ==
  ASSUME NEW b, Settled(b), Exact(b), NEW g \in GSN, g >= b.nextExpected, g \notin b.inHeap
  PROVE  Exact(Insert(b, g))
<1> DEFINE c == Insert(b, g)
<1>1. /\ b.heap \in [GSN -> Nat] /\ b.heap[g] = 0 /\ Held(b) \in SUBSET GSN /\ g \notin Held(b)
  BY DEF Settled, Sound, Buffers, Held
<1>2. c.curBytes = b.curBytes + SizeOf(g)
  BY DEF Insert
<1>3. Held(c) = Held(b) \cup {g}
  BY InsertHolds
<1>4. BytesOf(Held(b) \cup {g}) = BytesOf(Held(b)) + SizeOf(g)
  BY <1>1, BytesFacts
<1>5. QED
  BY <1>2, <1>3, <1>4 DEF Exact

LEMMA DrainExact ==
  ASSUME NEW b, Sound(b), Exact(b)
  PROVE  Exact(DrainLocked(b))
<1> DEFINE d == DrainLocked(b)
           n == b.nextExpected
           e == d.nextExpected
<1>1. /\ Settled(d) /\ e >= n
      /\ \A g \in GSN : d.heap[g] = IF g \in n..(e - 1) THEN 0 ELSE b.heap[g]
      /\ \A g \in n..(e - 1) : g \in Held(b)
  BY DrainSettles
<1>2. n \in 0..(MaxGSN + 1) /\ e \in Nat /\ Held(b) \in SUBSET GSN
  BY <1>1, SoundTypes DEF Settled, Held
<1>3. Held(d) = Held(b) \ (n..(e - 1))
  BY <1>1, SoundTypes DEF Held
<1>4. d.curBytes = b.curBytes - (Offset[e] - Offset[n])
  BY DEF DrainLocked
<1> HIDE DEF d, e, n
<1>5. BytesOf(Held(b) \ (n..(e - 1))) = BytesOf(Held(b)) - (Offset[e] - Offset[n])
  BY <1>1, <1>2, RunBytes
<1>6. QED
  BY <1>3, <1>4, <1>5 DEF Exact, d

LEMMA ForceExact ==
  ASSUME NEW b, Sound(b), Exact(b), Held(b) # {}
  PROVE  Exact(ForceReleaseHead(b))
<1> DEFINE f == ForceReleaseHead(b)
           h == HeapHead(b)
<1>1. h \in Held(b)
  BY ForceReleasesHead
<1>2. Held(f) = Held(b) \ {h}
  BY ForceHolds
<1>3. f.curBytes = b.curBytes - SizeOf(h)
  BY DEF ForceReleaseHead
<1>4. BytesOf(Held(b) \ {h}) = BytesOf(Held(b)) - SizeOf(h)
  <2>1. Held(b) \in SUBSET GSN
    BY DEF Held
  <2>2. QED
    BY <1>1, <2>1, BytesFacts
<1>5. QED
  BY <1>2, <1>3, <1>4 DEF Exact

LEMMA SettleExact ==
  ASSUME NEW b, Sound(b), Exact(b)
  PROVE  Exact(Settle(b))
<1> DEFINE d == DrainLocked(b)
<1>1. Sound(d) /\ Exact(d)
  BY DrainSettles, DrainExact DEF Settled
<1>2. CASE ~ (d.curBytes > MaxBytes)
  BY <1>1, <1>2 DEF Settle
<1>3. CASE d.curBytes > MaxBytes
  <2>1. Sound(ForceReleaseHead(d)) /\ Exact(ForceReleaseHead(d))
    <3>1. CASE Held(d) = {}
      BY <1>1, <3>1 DEF ForceReleaseHead
    <3>2. CASE Held(d) # {}
      BY <1>1, <3>2, ForceReleasesHead, ForceExact
    <3>3. QED
      BY <3>1, <3>2
  <2>2. QED
    BY <1>3, <2>1, DrainExact DEF Settle
<1>4. QED
  BY <1>2, <1>3

\* One element in and one out leaves a finite set no larger.
LEMMA ExchangeCardinality ==
  ASSUME NEW S, IsFiniteSet(S), NEW g, NEW h \in S \cup {g}, NEW T,
         T \subseteq (S \cup {g}) \ {h}
  PROVE  Cardinality(T) <= Cardinality(S)
<1>1. /\ IsFiniteSet(S \cup {g}) /\ Cardinality(S) \in Nat
      /\ Cardinality(S \cup {g}) \in Nat /\ Cardinality(S \cup {g}) <= Cardinality(S) + 1
  BY FS_AddElement, FS_CardinalityType
<1>2. /\ IsFiniteSet((S \cup {g}) \ {h})
      /\ Cardinality((S \cup {g}) \ {h}) = Cardinality(S \cup {g}) - 1
  BY <1>1, FS_RemoveElement
<1>3. Cardinality(T) \in Nat /\ Cardinality(T) <= Cardinality((S \cup {g}) \ {h})
  BY <1>2, FS_Subset, FS_CardinalityType
<1>4. QED
  BY <1>1, <1>2, <1>3

\* No operation adds a packet to those that it found.
LEMMA PassesShrinks ==
  ASSUME NEW b, Sound(b), NEW c, Passes(b, c)
  PROVE  Held(c) \subseteq Held(b)
BY SoundTypes DEF Passes, Held

\* Occupancy and the overflow test work on the true number of held bytes: no
\* interleaving of pushes, overflows and deadlines makes curBytes drift.
THEOREM CurBytesAreExact == Spec => []CurBytesExact
<1>1. Init => CurBytesExact
  <2> SUFFICES ASSUME Init PROVE CurBytesExact
    OBVIOUS
  <2>1. Held(buf) = {} /\ buf.curBytes = 0
    BY DEF Init, Held
  <2>2. QED
    BY <2>1, SumEmpty DEF CurBytesExact
<1>2. Inv /\ CurBytesExact /\ [Next]_vars => CurBytesExact'
  <2> SUFFICES ASSUME Inv, CurBytesExact, [Next]_vars PROVE Exact(buf')
    BY DEF CurBytesExact, Exact, BytesOf
  <2>1. Settled(buf) /\ Sound(buf) /\ Exact(buf)
    BY DEF Inv, Settled, CurBytesExact, Exact, BytesOf
  <2>2. ASSUME NEW g \in GSN, Push(g), ~ (g < buf.nextExpected \/ g \in buf.inHeap)
        PROVE  Exact(buf')
    <3>1. buf.nextExpected \in Int /\ g \in Int /\ g >= buf.nextExpected /\ g \notin buf.inHeap
      BY <2>1, <2>2, SoundTypes
    <3>2. Sound(Insert(buf, g)) /\ Exact(Insert(buf, g))
      BY <2>1, <3>1, InsertSound, InsertExact
    <3>3. buf' = Settle(Insert(buf, g))
      BY <2>2 DEF Push
    <3>4. QED
      BY <3>2, <3>3, SettleExact
  <2>3. ASSUME NEW g \in GSN, OnDeadline(g), Held(buf) # {}, HeapHead(buf) = g
        PROVE  Exact(buf')
    <3>1. Sound(ForceReleaseHead(buf)) /\ Exact(ForceReleaseHead(buf))
      BY <2>1, <2>3, ForceReleasesHead, ForceExact
    <3>2. buf' = DrainLocked(ForceReleaseHead(buf))
      BY <2>3 DEF OnDeadline
    <3>3. QED
      BY <3>1, <3>2, DrainExact
  <2>4. ASSUME buf' = buf PROVE Exact(buf')
    BY <2>1, <2>4
  <2>5. QED
    BY <2>2, <2>3, <2>4 DEF Next, Push, OnDeadline, PushUrgent, TimerFires, Receive, vars
<1>3. QED
  BY <1>1, <1>2, InvariantHolds, PTL DEF Spec

\* The heap may exceed its byte budget, but a Push that leaves it so has put out at
\* least as many packets as it took in.
THEOREM OverflowNeverGrows == Spec => OverBudgetNeverGrows
<1>1. Inv /\ [Next]_vars
        => [buf'.curBytes > MaxBytes => Cardinality(Held(buf')) <= Cardinality(Held(buf))]_vars
  <2> SUFFICES ASSUME Inv, Next, buf'.curBytes > MaxBytes
               PROVE  Cardinality(Held(buf')) <= Cardinality(Held(buf))
    OBVIOUS
  <2>1. Settled(buf) /\ Sound(buf)
    BY DEF Inv, Settled
  <2>2. Held(buf) \in SUBSET GSN /\ IsFiniteSet(Held(buf)) /\ Cardinality(Held(buf)) \in Nat
    BY BytesFacts, FS_CardinalityType DEF Held
  <2>3. ASSUME NEW g \in GSN, Push(g), ~ (g < buf.nextExpected \/ g \in buf.inHeap)
        PROVE  Cardinality(Held(buf')) <= Cardinality(Held(buf))
    <3>1. buf.nextExpected \in Int /\ g \in Int /\ g >= buf.nextExpected /\ g \notin buf.inHeap
      BY <2>1, <2>3, SoundTypes
    <3>2. Sound(Insert(buf, g)) /\ Held(Insert(buf, g)) = Held(buf) \cup {g}
      BY <2>1, <3>1, InsertSound, InsertHolds
    <3>3. PICK d : d = DrainLocked(Insert(buf, g))
      OBVIOUS
    <3>4. Settled(d) /\ Held(d) \subseteq Held(buf) \cup {g}
      BY <3>2, <3>3, DrainPasses, PassesShrinks DEF Passes
    <3>5. buf' = Settle(Insert(buf, g))
      BY <2>3 DEF Push
    <3>6. d.curBytes > MaxBytes /\ buf' = DrainLocked(ForceReleaseHead(d))
      BY <3>3, <3>5 DEF Settle
    <3>7. CASE Held(d) = {}
      <4>1. Passes(d, buf')
        BY <3>4, <3>6, <3>7, DrainPasses DEF ForceReleaseHead, Settled
      <4>2. Held(buf') = {}
        BY <3>4, <3>7, <4>1, PassesShrinks DEF Settled
      <4>3. QED
        BY <2>2, <4>2, FS_EmptySet
    <3>8. CASE Held(d) # {}
      <4>1. PICK h : h = HeapHead(d)
        OBVIOUS
      <4>2. h \in Held(d) /\ Sound(ForceReleaseHead(d)) /\ Held(ForceReleaseHead(d)) = Held(d) \ {h}
        BY <3>4, <3>8, <4>1, ForceReleasesHead, ForceHolds DEF Settled
      <4>3. Held(buf') \subseteq Held(d) \ {h}
        BY <3>6, <4>2, DrainPasses, PassesShrinks
      <4>4. Held(buf') \subseteq (Held(buf) \cup {g}) \ {h} /\ h \in Held(buf) \cup {g}
        BY <3>4, <4>2, <4>3
      <4>5. QED
        BY <2>2, <4>4, ExchangeCardinality
    <3>9. QED
      BY <3>7, <3>8
  <2>4. ASSUME NEW g \in GSN, OnDeadline(g), Held(buf) # {}, HeapHead(buf) = g
        PROVE  Cardinality(Held(buf')) <= Cardinality(Held(buf))
    <3>1. Passes(buf, buf')
      BY <2>1, <2>4, ForcePasses DEF OnDeadline
    <3>2. Held(buf') \subseteq Held(buf)
      BY <2>1, <3>1, PassesShrinks
    <3>3. QED
      BY <2>2, <3>2, FS_Subset
  <2>5. ASSUME buf' = buf PROVE Cardinality(Held(buf')) <= Cardinality(Held(buf))
    BY <2>2, <2>5
  <2>6. QED
    BY <2>3, <2>4, <2>5 DEF Next, Push, OnDeadline, PushUrgent, TimerFires, Receive, vars
<1>2. QED
  BY <1>1, InvariantHolds, PTL DEF Spec, OverBudgetNeverGrows

-----------------------------------------------------------------------------
(* Refinement *)

\* The sets the refinement mapping uses.
Sent == {g \in GSN : delivered[g] > 0}
Dropped == {g \in GSN : lost[g] > 0}

\* One operation on a sound buffer b, whose packets have not left yet, is a step
\* of OrderedDelivery or leaves its state unchanged.
LEMMA OperationRefines ==
  ASSUME TypeOK, NEW b, Sound(b), Passes(b, buf'), Emit(b, buf'),
         b.nextExpected = buf.nextExpected, b.forcedReleases = buf.forcedReleases,
         \A g \in GSN : b.heap[g] + delivered[g] + lost[g] <= 1
  PROVE  Delivery!ODNext \/ UNCHANGED Delivery!ODvars
<1> DEFINE n == buf.nextExpected
           m == buf'.nextExpected
           gone == {g \in GSN : g < m /\ b.heap[g] = 1}
<1>1. /\ delivered' \in [GSN -> Nat] /\ lost' \in [GSN -> Nat]
      /\ \A g \in GSN : buf'.heap[g] + delivered'[g] + lost'[g]
                        = b.heap[g] + delivered[g] + lost[g]
      /\ \A g \in GSN : delivered'[g] >= delivered[g] /\ lost'[g] >= lost[g]
      /\ \A g \in GSN : delivered'[g] = delivered[g] \/ lost'[g] = lost[g]
  BY EmitAccounts
<1>2. /\ MaxGSN \in Nat /\ n \in 0..(MaxGSN + 1) /\ m \in 0..(MaxGSN + 1) /\ n <= m
      /\ \A g \in GSN : g \in Nat /\ b.heap[g] \in {0, 1}
      /\ \A g \in GSN : g \in Held(b) <=> b.heap[g] = 1
      /\ \A g \in GSN : g < n => b.heap[g] = 0
      /\ \A g \in GSN : buf'.heap[g] = IF g < m THEN 0 ELSE b.heap[g]
  BY SoundTypes DEF Passes, Settled
<1>3. \A g \in GSN : delivered[g] \in Nat /\ lost[g] \in Nat /\ delivered'[g] \in Nat /\ lost'[g] \in Nat
  BY <1>1 DEF TypeOK
<1>4. /\ Sent \subseteq Sent' /\ Dropped \subseteq Dropped'
  BY <1>1, <1>3 DEF Sent, Dropped
<1>5. \A g \in GSN : /\ (g \in Sent' /\ g \notin Sent) \/ (g \in Dropped' /\ g \notin Dropped) <=> g \in gone
                     /\ ~ ((g \in Sent' /\ g \notin Sent) /\ (g \in Dropped' /\ g \notin Dropped))
  <2> SUFFICES ASSUME NEW g \in GSN
               PROVE  /\ (g \in Sent' /\ g \notin Sent) \/ (g \in Dropped' /\ g \notin Dropped) <=> g \in gone
                      /\ ~ ((g \in Sent' /\ g \notin Sent) /\ (g \in Dropped' /\ g \notin Dropped))
    OBVIOUS
  <2>1. /\ g \in Sent <=> delivered[g] > 0
        /\ g \in Sent' <=> delivered'[g] > 0
        /\ g \in Dropped <=> lost[g] > 0
        /\ g \in Dropped' <=> lost'[g] > 0
    BY DEF Sent, Dropped
  <2>2. b.heap[g] + delivered[g] + lost[g] <= 1
    OBVIOUS
  <2>3. CASE g \in gone
    BY <1>1, <1>2, <1>3, <2>1, <2>2, <2>3
  <2>4. CASE g \notin gone
    <3>1. buf'.heap[g] = b.heap[g]
      BY <1>2, <2>4
    <3>2. /\ delivered'[g] + lost'[g] = delivered[g] + lost[g]
          /\ delivered'[g] >= delivered[g] /\ lost'[g] >= lost[g]
      <4>1. b.heap[g] \in Int /\ delivered[g] \in Int /\ lost[g] \in Int
            /\ delivered'[g] \in Int /\ lost'[g] \in Int
        BY <1>2, <1>3
      <4>2. QED
        BY <1>1, <3>1, <4>1
    <3>3. delivered'[g] = delivered[g] /\ lost'[g] = lost[g]
      BY <1>3, <3>2
    <3>4. QED
      BY <2>1, <2>4, <3>3
  <2>5. QED
    BY <2>3, <2>4
<1>6. (Sent' \ Sent) \cup (Dropped' \ Dropped) = gone
  <2>1. Sent' \subseteq GSN /\ Dropped' \subseteq GSN
    BY DEF Sent, Dropped
  <2>2. QED
    BY <1>5, <2>1
<1>7. (Sent' \ Sent) \cap (Dropped' \ Dropped) = {}
  <2>1. Sent' \subseteq GSN /\ Dropped' \subseteq GSN
    BY DEF Sent, Dropped
  <2>2. QED
    BY <1>5, <2>1
<1> HIDE DEF gone
<1>8. CASE n = m
  <2>1. gone = {}
    BY <1>2, <1>8 DEF gone
  <2>2. Sent' = Sent /\ Dropped' = Dropped
    BY <1>4, <1>6, <2>1
  <2>3. buf'.forcedReleases = buf.forcedReleases
    BY <1>2, <1>8 DEF Passes
  <2>4. QED
    BY <1>8, <2>2, <2>3 DEF Delivery!ODvars, Sent, Dropped
<1>9. CASE n < m
  <2>1. m \in (n + 1)..(MaxGSN + 1)
    BY <1>2, <1>9
  <2>2. \A g \in n..(m - 1) : g \in GSN /\ g \in Int
    BY <1>2 DEF GSN
  <2>3. CASE /\ buf'.forcedReleases = b.forcedReleases
             /\ \A g \in n..(m - 1) : g \in Held(b)
    <3>1. gone = n..(m - 1)
      <4>1. \A g \in gone : g \in n..(m - 1)
        BY <1>2 DEF gone
      <4>2. \A g \in n..(m - 1) : g \in gone
        BY <1>2, <2>2, <2>3 DEF gone
      <4>3. QED
        BY <4>1, <4>2
    <3>2. Delivery!Leave(n..(m - 1))
      BY <1>4, <1>6, <1>7, <3>1 DEF Delivery!Leave, Sent, Dropped
    <3>3. Delivery!InOrder
      BY <2>1, <2>3, <3>2 DEF Delivery!InOrder
    <3>4. QED
      BY <3>3 DEF Delivery!ODNext
  <2>4. CASE /\ buf'.forcedReleases = b.forcedReleases + 1
             /\ \E lo, hi \in n..(m - 2) :
                  /\ lo <= hi
                  /\ \A g \in n..(m - 1) : g \in Held(b) <=> g \notin lo..hi
    <3>1. PICK lo \in n..(m - 2), hi \in n..(m - 2) :
                  /\ lo <= hi
                  /\ \A g \in n..(m - 1) : g \in Held(b) <=> g \notin lo..hi
      BY <2>4
    <3>2. gone = (n..(m - 1)) \ (lo..hi)
      <4>1. \A g \in gone : g \in n..(m - 1)
        BY <1>2 DEF gone
      <4>2. \A g \in n..(m - 1) : g \in gone <=> g \notin lo..hi
        BY <1>2, <2>2, <3>1 DEF gone
      <4>3. QED
        BY <4>1, <4>2
    <3>3. Delivery!Leave((n..(m - 1)) \ (lo..hi))
      BY <1>4, <1>6, <1>7, <3>2 DEF Delivery!Leave, Sent, Dropped
    <3>4. Delivery!DeclareLost
      <4>1. lo <= hi /\ buf'.forcedReleases = buf.forcedReleases + 1
        BY <2>4, <3>1
      <4>2. QED
        BY <2>1, <3>3, <4>1 DEF Delivery!DeclareLost
    <3>5. QED
      BY <3>4 DEF Delivery!ODNext
  <2>5. QED
    BY <2>3, <2>4 DEF Passes
<1>10. QED
  BY <1>2, <1>8, <1>9

\* The buffer implements OrderedDelivery.
THEOREM Refinement == Spec => ImplementsOrderedDelivery
<1>1. Init => Delivery!ODInit
  BY DEF Init, Delivery!ODInit
<1>2. Inv /\ [Next]_vars => [Delivery!ODNext]_(Delivery!ODvars)
  <2> SUFFICES ASSUME Inv, [Next]_vars
               PROVE  Delivery!ODNext \/ UNCHANGED Delivery!ODvars
    OBVIOUS
  <2>1. TypeOK /\ Settled(buf) /\ Sound(buf)
    BY DEF Inv, Settled
  <2>2. ASSUME UNCHANGED <<buf, delivered, lost>>
        PROVE  UNCHANGED Delivery!ODvars
    BY <2>2 DEF Delivery!ODvars
  <2>3. ASSUME NEW g \in GSN, Push(g)
        PROVE  Delivery!ODNext \/ UNCHANGED Delivery!ODvars
    <3>1. CASE g < buf.nextExpected \/ g \in buf.inHeap
      BY <2>2, <2>3, <3>1 DEF Push, vars, outVars
    <3>2. CASE ~ (g < buf.nextExpected \/ g \in buf.inHeap)
      <4> DEFINE b == Insert(buf, g)
      <4>1. buf' = Settle(b) /\ Emit(b, buf')
        BY <2>3, <3>2 DEF Push
      <4>2. buf.nextExpected \in Int /\ g \in Int /\ g >= buf.nextExpected /\ g \notin buf.inHeap
        BY <2>1, <3>2, SoundTypes
      <4>3. /\ Sound(b) /\ b.heap = [buf.heap EXCEPT ![g] = 1]
            /\ b.nextExpected = buf.nextExpected
            /\ b.forcedReleases = buf.forcedReleases
        BY <2>1, <4>2, InsertSound
      <4> HIDE DEF b
      <4>4. Passes(b, buf')
        BY <4>1, <4>3, SettlePasses
      <4>5. /\ buf.heap \in [GSN -> Nat] /\ delivered \in [GSN -> Nat] /\ lost \in [GSN -> Nat]
            /\ buf.heap[g] = 0 /\ delivered[g] = 0 /\ lost[g] = 0
        <5>1. /\ buf.heap \in [GSN -> Nat] /\ delivered \in [GSN -> Nat] /\ lost \in [GSN -> Nat]
          BY <2>1, SoundTypes DEF TypeOK
        <5>2. buf.heap[g] = 0
          BY <2>1, <4>2, <5>1 DEF Sound, Held
        <5>3. QED
          BY <4>2, <5>1, <5>2 DEF Inv, Decided
      <4>6. \A k \in GSN : b.heap[k] + delivered[k] + lost[k] <= 1
        <5> SUFFICES ASSUME NEW k \in GSN PROVE b.heap[k] + delivered[k] + lost[k] <= 1
          OBVIOUS
        <5>1. CASE k = g
          BY <4>3, <4>5, <5>1
        <5>2. CASE k # g
          BY <4>3, <4>5, <5>2 DEF Inv, Conservation
        <5>3. QED
          BY <5>1, <5>2
      <4>7. QED
        BY <2>1, <4>1, <4>3, <4>4, <4>6, OperationRefines
    <3>3. QED
      BY <3>1, <3>2
  <2>4. CASE PushUrgent
    BY <2>2, <2>4 DEF PushUrgent
  <2>5. CASE TimerFires
    BY <2>2, <2>5 DEF TimerFires, outVars
  <2>6. ASSUME NEW g \in GSN, OnDeadline(g)
        PROVE  Delivery!ODNext \/ UNCHANGED Delivery!ODvars
    <3>1. CASE Held(buf) = {} \/ HeapHead(buf) # g
      BY <2>2, <2>6, <3>1 DEF OnDeadline, outVars
    <3>2. CASE Held(buf) # {} /\ HeapHead(buf) = g
      <4>1. buf' = DrainLocked(ForceReleaseHead(buf)) /\ Emit(buf, buf')
        BY <2>6, <3>2 DEF OnDeadline
      <4>2. Passes(buf, buf')
        BY <2>1, <3>2, <4>1, ForcePasses
      <4>3. \A k \in GSN : buf.heap[k] + delivered[k] + lost[k] <= 1
        BY DEF Inv, Conservation
      <4>4. QED
        BY <2>1, <4>1, <4>2, <4>3, OperationRefines
    <3>3. QED
      BY <3>1, <3>2
  <2>7. CASE Receive
    BY <2>2, <2>7 DEF Receive
  <2>8. CASE UNCHANGED vars
    BY <2>2, <2>8 DEF vars, outVars
  <2>9. QED
    BY <2>3, <2>4, <2>5, <2>6, <2>7, <2>8 DEF Next
<1>3. QED
  BY <1>1, <1>2, InvariantHolds, PTL DEF Spec, ImplementsOrderedDelivery, Delivery!ODSpec
=============================================================================
