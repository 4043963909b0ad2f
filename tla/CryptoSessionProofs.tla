------------------------- MODULE CryptoSessionProofs -------------------------
(***************************************************************************)
(* Proofs about CryptoSession, for any sets of paths and goroutines, any   *)
(* window size and any number of packets; and about ReplayBitmap,          *)
(* instantiated as M, for any width and number of words.                   *)
(***************************************************************************)
EXTENDS CryptoSession, FiniteFacts, TLAPS

\* The provers for a step that names none, in turn, with their time limits in seconds.
USE SMTT(10), ZenonT(20), SMTT(40), ZenonT(60)

\* The window w knows exactly which counters that are not too old were accepted,
\* when a tells how often each counter was.
WindowExact(w, a) ==
  /\ ~w.inited => \A c \in Ctr : a[c] = 0
  /\ w.inited => \A c \in Ctr :
       /\ a[c] > 0 => c <= w.max
       /\ c <= w.max /\ w.max - c < Window => (w.max - c \in w.seen <=> a[c] > 0)

\* The counter of a path is the number of packets sealed on it.
CounterInv ==
  \A p \in Paths, c \in Ctr :
    sealed[p][c] = IF sendCtrs[p] # NoCell /\ c < cells[p][sendCtrs[p]] THEN 1 ELSE 0

\* A pointer taken out of sendCtrs stays the path's pointer.
SenderInv ==
  \A t \in Threads :
    sender[t].pc = "add" =>
      sender[t].cell = sendCtrs[sender[t].path] /\ sender[t].cell # NoCell

WindowInv == \A p \in Paths : WindowExact(recvWins[p], accepted[p])

\* What CheckOnly found still holds when the AEAD has been verified.
ReaderInv ==
  \A p \in Paths :
    reader[p].pc = "verify" =>
      /\ CheckOnly(recvWins[p], reader[p].ctr)
      /\ reader[p].intact => sealed[p][reader[p].ctr] > 0

\* The inductive invariant.
Inv == TypeOK /\ CounterInv /\ SenderInv /\ WindowInv /\ ReaderInv /\ AcceptedAtMostOnce

-----------------------------------------------------------------------------
\* MarkSeen keeps the window exact, also when counters fall out of it.
LEMMA MarkSeenExact ==
  ASSUME NEW w \in Windows, NEW a \in [Ctr -> Nat], WindowExact(w, a), NEW c \in Ctr
  PROVE  /\ MarkSeen(w, c) \in Windows
         /\ WindowExact(MarkSeen(w, c), [a EXCEPT ![c] = @ + 1])
<1> DEFINE m == MarkSeen(w, c)
           b == [a EXCEPT ![c] = @ + 1]
<1>1. /\ Window \in Nat \ {0} /\ MaxCtr \in Nat
      /\ w.inited \in BOOLEAN /\ w.max \in Ctr /\ w.seen \in SUBSET Offsets
      /\ \A d \in Ctr : d \in Int /\ d >= 0
      /\ w.max \in Int /\ 0 \in Offsets
  BY WindowAssumption, SessionAssumption DEF Windows, Ctr, Offsets
<1>2. \A d \in Ctr : b[d] > 0 <=> (d = c \/ a[d] > 0)
  BY <1>1
<1>3. CASE ~w.inited
  <2>1. m = [inited |-> TRUE, max |-> c, seen |-> {0}]
    BY <1>3 DEF MarkSeen
  <2>2. m \in Windows
    BY <1>1, <2>1 DEF Windows
  <2>3. \A d \in Ctr : b[d] > 0 <=> d = c
    BY <1>1, <1>2, <1>3 DEF WindowExact
  <2>4. WindowExact(m, b)
    BY <1>1, <2>1, <2>3 DEF WindowExact
  <2>5. QED
    BY <2>2, <2>4
<1>4. CASE w.inited /\ c > w.max
  <2> DEFINE s == {k \in Offsets : k = 0 \/ k - (c - w.max) \in w.seen}
  <2>1. m = [inited |-> TRUE, max |-> c, seen |-> s]
    BY <1>4 DEF MarkSeen
  <2>2. m \in Windows
    BY <1>1, <2>1 DEF Windows
  <2>3. ASSUME NEW d \in Ctr
        PROVE  /\ b[d] > 0 => d <= c
               /\ d <= c /\ c - d < Window => (c - d \in s <=> b[d] > 0)
    <3>1. a[d] > 0 => d <= w.max
      BY <1>4 DEF WindowExact
    <3>2. b[d] > 0 => d <= c
      BY <1>1, <1>2, <1>4, <3>1
    <3>3. ASSUME d <= c, c - d < Window PROVE c - d \in s <=> b[d] > 0
      <4>1. c - d \in Offsets
        BY <1>1, <3>3 DEF Offsets
      <4>2. c - d - (c - w.max) = w.max - d
        BY <1>1
      <4>3. c - d \in s <=> (d = c \/ w.max - d \in w.seen)
        BY <1>1, <4>1, <4>2
      <4>4. CASE d <= w.max
        <5>1. w.max - d < Window
          BY <1>1, <1>4, <3>3
        <5>2. w.max - d \in w.seen <=> a[d] > 0
          BY <1>4, <4>4, <5>1 DEF WindowExact
        <5>3. QED
          BY <1>2, <4>3, <5>2
      <4>5. CASE ~ (d <= w.max)
        <5>1. w.max - d \notin w.seen
          BY <1>1, <4>5 DEF Offsets
        <5>2. ~ (a[d] > 0)
          BY <3>1, <4>5
        <5>3. QED
          BY <1>2, <4>3, <5>1, <5>2
      <4>6. QED
        BY <4>4, <4>5
    <3>4. QED
      BY <3>2, <3>3
  <2>4. WindowExact(m, b)
    BY <2>1, <2>3 DEF WindowExact
  <2>5. QED
    BY <2>2, <2>4
<1>5. CASE w.inited /\ ~ (c > w.max)
  <2> DEFINE s == w.seen \cup ({w.max - c} \cap Offsets)
  <2>1. m = [inited |-> TRUE, max |-> w.max, seen |-> s]
    BY <1>5 DEF MarkSeen
  <2>2. m \in Windows
    BY <1>1, <2>1 DEF Windows
  <2>3. ASSUME NEW d \in Ctr
        PROVE  /\ b[d] > 0 => d <= w.max
               /\ d <= w.max /\ w.max - d < Window => (w.max - d \in s <=> b[d] > 0)
    <3>1. /\ a[d] > 0 => d <= w.max
          /\ d <= w.max /\ w.max - d < Window => (w.max - d \in w.seen <=> a[d] > 0)
      BY <1>5 DEF WindowExact
    <3>2. b[d] > 0 => d <= w.max
      BY <1>1, <1>2, <1>5, <3>1
    <3>3. ASSUME d <= w.max, w.max - d < Window PROVE w.max - d \in s <=> b[d] > 0
      <4>1. w.max - d \in Offsets
        BY <1>1, <3>3 DEF Offsets
      <4>2. w.max - d = w.max - c <=> d = c
        BY <1>1
      <4>3. QED
        BY <1>2, <3>1, <3>3, <4>1, <4>2
    <3>4. QED
      BY <3>2, <3>3
  <2>4. WindowExact(m, b)
    BY <2>1, <2>3 DEF WindowExact
  <2>5. QED
    BY <2>2, <2>4
<1>6. QED
  BY <1>1, <1>3, <1>4, <1>5

\* A counter that CheckOnly lets pass has not been accepted before.
LEMMA CheckOnlyMeansNew ==
  ASSUME NEW w \in Windows, NEW a \in [Ctr -> Nat], WindowExact(w, a), NEW c \in Ctr
  PROVE  /\ CheckOnly(w, c) => a[c] = 0
         /\ a[c] = 0 /\ w.max - c < Window => CheckOnly(w, c)
<1>1. Window \in Nat /\ w.max \in Int /\ c \in Int /\ a[c] \in Nat /\ w.inited \in BOOLEAN
  BY WindowAssumption, SessionAssumption DEF Windows, Ctr
<1>2. CASE ~w.inited
  BY <1>1, <1>2 DEF WindowExact, CheckOnly
<1>3. CASE w.inited
  <2>1. /\ a[c] > 0 => c <= w.max
        /\ c <= w.max /\ w.max - c < Window => (w.max - c \in w.seen <=> a[c] > 0)
    BY <1>3 DEF WindowExact
  <2>2. QED
    BY <1>1, <1>3, <2>1 DEF CheckOnly
<1>4. QED
  BY <1>1, <1>2, <1>3

-----------------------------------------------------------------------------
LEMMA InitInv == Init => Inv
<1> SUFFICES ASSUME Init PROVE Inv
  OBVIOUS
<1>1. MaxCtr \in Nat /\ 0 \in Ctr /\ 0 \in 0..(MaxCtr + 1)
  BY SessionAssumption DEF Ctr
<1>2. NewWindow \in Windows
  BY <1>1 DEF NewWindow, Windows
<1>3. TypeOK
  BY <1>1, <1>2 DEF Init, TypeOK
<1>4. CounterInv
  BY DEF Init, CounterInv
<1>5. SenderInv
  BY DEF Init, SenderInv
<1>6. WindowInv
  BY DEF Init, WindowInv, WindowExact, NewWindow
<1>7. ReaderInv
  BY DEF Init, ReaderInv
<1>8. AcceptedAtMostOnce
  BY DEF Init, AcceptedAtMostOnce
<1>9. QED
  BY <1>3, <1>4, <1>5, <1>6, <1>7, <1>8 DEF Inv

LEMMA LookupCounterInv ==
  ASSUME Inv, NEW t \in Threads, NEW p \in Paths, LookupCounter(t, p)
  PROVE  Inv'
<1>1. TypeOK /\ CounterInv /\ SenderInv
  BY DEF Inv
<1>2. MaxCtr \in Nat /\ NoCell \notin Threads /\ \A c \in Ctr : c \in Nat
  BY SessionAssumption DEF Ctr
<1>3. /\ sendCtrs'[p] # NoCell
      /\ sendCtrs' \in [Paths -> Threads \cup {NoCell}]
      /\ \A q \in Paths : sendCtrs[q] # NoCell => sendCtrs'[q] = sendCtrs[q]
  BY <1>1, <1>2 DEF LookupCounter, TypeOK
<1>4. cells' \in [Paths -> [Threads -> 0..(MaxCtr + 1)]]
  <2>1. cells' = cells \/ cells' = [cells EXCEPT ![p][t] = 0]
    BY DEF LookupCounter
  <2>2. 0 \in 0..(MaxCtr + 1) /\ cells \in [Paths -> [Threads -> 0..(MaxCtr + 1)]]
    BY <1>1, <1>2 DEF TypeOK
  <2>3. QED
    BY <2>1, <2>2
<1>5. sender' = [sender EXCEPT ![t] = [pc |-> "add", path |-> p, cell |-> sendCtrs'[p]]]
  BY DEF LookupCounter
<1>6. /\ sealed' = sealed /\ recvWins' = recvWins
      /\ reader' = reader /\ accepted' = accepted
  BY DEF LookupCounter, recvVars
<1>7. TypeOK'
  BY <1>1, <1>3, <1>4, <1>5, <1>6 DEF TypeOK
<1>8. CounterInv'
  <2> SUFFICES ASSUME NEW q \in Paths, NEW c \in Ctr
               PROVE  sealed[q][c] = IF sendCtrs'[q] # NoCell /\ c < cells'[q][sendCtrs'[q]]
                                     THEN 1 ELSE 0
    BY <1>6 DEF CounterInv
  <2>1. CASE sendCtrs[p] # NoCell
    BY <1>1, <2>1 DEF LookupCounter, CounterInv
  <2>2. CASE sendCtrs[p] = NoCell /\ q # p
    BY <1>1, <2>2 DEF LookupCounter, CounterInv, TypeOK
  <2>3. CASE sendCtrs[p] = NoCell /\ q = p
    <3>1. sealed[q][c] = 0
      BY <1>1, <2>3 DEF CounterInv
    <3>2. cells'[p][sendCtrs'[p]] = 0
      BY <1>1, <2>3 DEF LookupCounter, TypeOK
    <3>3. QED
      BY <1>2, <2>3, <3>1, <3>2
  <2>4. QED
    BY <2>1, <2>2, <2>3
<1>9. SenderInv'
  <2> SUFFICES ASSUME NEW u \in Threads, sender'[u].pc = "add"
               PROVE  /\ sender'[u].cell = sendCtrs'[sender'[u].path]
                      /\ sender'[u].cell # NoCell
    BY DEF SenderInv
  <2>1. CASE u = t
    BY <1>1, <1>3, <1>5, <2>1 DEF TypeOK
  <2>2. CASE u # t
    <3>1. sender'[u] = sender[u] /\ sender[u].path \in Paths
      BY <1>1, <1>5, <2>2 DEF TypeOK
    <3>2. QED
      BY <1>1, <1>3, <3>1 DEF SenderInv
  <2>3. QED
    BY <2>1, <2>2
<1>10. WindowInv' /\ ReaderInv' /\ AcceptedAtMostOnce'
  BY <1>6 DEF Inv, WindowInv, ReaderInv, AcceptedAtMostOnce
<1>11. QED
  BY <1>7, <1>8, <1>9, <1>10 DEF Inv

LEMMA SealPacketInv ==
  ASSUME Inv, NEW t \in Threads, SealPacket(t)
  PROVE  Inv'
<1> DEFINE p == sender[t].path
           k == sender[t].cell
           n == cells[p][k]
<1>1. TypeOK /\ CounterInv /\ SenderInv
  BY DEF Inv
<1>2. MaxCtr \in Nat /\ NoCell \notin Threads /\ \A c \in Ctr : c \in Nat
  BY SessionAssumption DEF Ctr
<1>3. /\ sender[t].pc = "add" /\ n <= MaxCtr
      /\ cells' = [cells EXCEPT ![p][k] = n + 1]
      /\ sealed' = [sealed EXCEPT ![p][n] = @ + 1]
      /\ sender' = [sender EXCEPT ![t].pc = "idle"]
      /\ sendCtrs' = sendCtrs /\ recvWins' = recvWins
      /\ reader' = reader /\ accepted' = accepted
  BY DEF SealPacket, recvVars
<1>4. p \in Paths /\ k \in Threads /\ k = sendCtrs[p] /\ k # NoCell
  BY <1>1, <1>3 DEF TypeOK, SenderInv
<1>5. n \in Ctr /\ n \in Nat /\ n + 1 \in 0..(MaxCtr + 1)
  BY <1>1, <1>2, <1>3, <1>4 DEF TypeOK, Ctr
<1> HIDE DEF p, k, n
<1>6. /\ cells' \in [Paths -> [Threads -> 0..(MaxCtr + 1)]]
      /\ sealed' \in [Paths -> [Ctr -> Nat]]
  BY <1>1, <1>3, <1>4, <1>5 DEF TypeOK
<1>7. sender' \in [Threads -> [pc : {"idle", "add"}, path : Paths, cell : Threads \cup {NoCell}]]
  <2>1. sender[t] \in [pc : {"idle", "add"}, path : Paths, cell : Threads \cup {NoCell}]
    BY <1>1 DEF TypeOK
  <2>2. [sender[t] EXCEPT !.pc = "idle"]
          \in [pc : {"idle", "add"}, path : Paths, cell : Threads \cup {NoCell}]
    BY <2>1
  <2>3. sender' = [sender EXCEPT ![t] = [sender[t] EXCEPT !.pc = "idle"]]
    BY <1>3
  <2>4. QED
    BY <1>1, <2>2, <2>3 DEF TypeOK
<1>8. TypeOK'
  BY <1>1, <1>3, <1>6, <1>7 DEF TypeOK
<1>9. \A q \in Paths, c \in Ctr :
        sealed'[q][c] = IF q = p /\ c = n THEN sealed[q][c] + 1 ELSE sealed[q][c]
  BY <1>1, <1>3, <1>4, <1>5 DEF TypeOK
<1>10. CounterInv'
  <2> SUFFICES ASSUME NEW q \in Paths, NEW c \in Ctr
               PROVE  sealed'[q][c] = IF sendCtrs[q] # NoCell /\ c < cells'[q][sendCtrs[q]]
                                      THEN 1 ELSE 0
    BY <1>3 DEF CounterInv
  <2>1. sealed[q][c] = IF sendCtrs[q] # NoCell /\ c < cells[q][sendCtrs[q]] THEN 1 ELSE 0
    BY <1>1 DEF CounterInv
  <2>2. CASE q # p
    <3>1. cells'[q] = cells[q]
      BY <1>1, <1>3, <2>2 DEF TypeOK
    <3>2. QED
      BY <1>9, <2>1, <2>2, <3>1
  <2>3. CASE q = p
    <3>1. cells[q][sendCtrs[q]] = n /\ cells'[q][sendCtrs[q]] = n + 1
      BY <1>1, <1>3, <1>4, <2>3 DEF TypeOK, n
    <3>2. QED
      BY <1>2, <1>4, <1>5, <1>9, <2>1, <2>3, <3>1
  <2>4. QED
    BY <2>2, <2>3
<1>11. SenderInv'
  <2> SUFFICES ASSUME NEW u \in Threads, sender'[u].pc = "add"
               PROVE  /\ sender'[u].cell = sendCtrs'[sender'[u].path]
                      /\ sender'[u].cell # NoCell
    BY DEF SenderInv
  <2>1. u # t /\ sender'[u] = sender[u]
    BY <1>1, <1>3 DEF TypeOK
  <2>2. QED
    BY <1>1, <1>3, <2>1 DEF SenderInv
<1>12. WindowInv'
  BY <1>3 DEF Inv, WindowInv
<1>13. \A q \in Paths, c \in Ctr : sealed[q][c] \in Nat /\ sealed'[q][c] >= sealed[q][c]
  BY <1>1, <1>9 DEF TypeOK
<1>14. ReaderInv'
  <2> SUFFICES ASSUME NEW q \in Paths, reader[q].pc = "verify"
               PROVE  /\ CheckOnly(recvWins[q], reader[q].ctr)
                      /\ reader[q].intact => sealed'[q][reader[q].ctr] > 0
    BY <1>3 DEF ReaderInv
  <2>1. reader[q].ctr \in Ctr
    BY <1>1 DEF TypeOK
  <2>2. /\ CheckOnly(recvWins[q], reader[q].ctr)
        /\ reader[q].intact => sealed[q][reader[q].ctr] > 0
    BY DEF Inv, ReaderInv
  <2>3. sealed'[q][reader[q].ctr] \in Nat
    BY <1>6, <2>1
  <2>4. QED
    BY <1>13, <2>1, <2>2, <2>3
<1>15. AcceptedAtMostOnce'
  <2> SUFFICES ASSUME NEW q \in Paths, NEW c \in Ctr PROVE accepted[q][c] <= sealed'[q][c]
    BY <1>3 DEF AcceptedAtMostOnce
  <2>1. accepted[q][c] <= sealed[q][c]
    BY DEF Inv, AcceptedAtMostOnce
  <2>2. accepted[q][c] \in Nat /\ sealed[q][c] \in Nat /\ sealed'[q][c] \in Nat
    BY <1>1, <1>6 DEF TypeOK
  <2>3. QED
    BY <1>13, <2>1, <2>2
<1>16. QED
  BY <1>8, <1>10, <1>11, <1>12, <1>14, <1>15 DEF Inv

LEMMA OpenCheckInv ==
  ASSUME Inv, NEW p \in Paths, NEW q \in Paths, NEW c \in Ctr, NEW intact \in BOOLEAN,
         OpenCheck(p, q, c, intact)
  PROVE  Inv'
<1>1. TypeOK /\ ReaderInv
  BY DEF Inv
<1>2. /\ sendCtrs' = sendCtrs /\ cells' = cells /\ sender' = sender /\ sealed' = sealed
      /\ recvWins' = recvWins /\ accepted' = accepted
  BY DEF OpenCheck, sendVars
<1>3. reader' \in [Paths -> [pc : {"idle", "verify"}, ctr : Ctr, intact : BOOLEAN]]
  <2>1. \/ reader' = reader
        \/ reader' = [reader EXCEPT ![p] = [pc |-> "verify", ctr |-> c, intact |-> intact]]
    BY DEF OpenCheck
  <2>2. [pc |-> "verify", ctr |-> c, intact |-> intact]
          \in [pc : {"idle", "verify"}, ctr : Ctr, intact : BOOLEAN]
    OBVIOUS
  <2>3. QED
    BY <1>1, <2>1, <2>2 DEF TypeOK
<1>4. TypeOK'
  BY <1>1, <1>2, <1>3 DEF TypeOK
<1>5. CounterInv' /\ SenderInv' /\ WindowInv' /\ AcceptedAtMostOnce'
  BY <1>2 DEF Inv, CounterInv, SenderInv, WindowInv, AcceptedAtMostOnce
<1>6. ReaderInv'
  <2> SUFFICES ASSUME NEW r \in Paths, reader'[r].pc = "verify"
               PROVE  /\ CheckOnly(recvWins[r], reader'[r].ctr)
                      /\ reader'[r].intact => sealed[r][reader'[r].ctr] > 0
    BY <1>2 DEF ReaderInv
  <2>1. CASE reader'[r] = reader[r]
    BY <1>1, <2>1 DEF ReaderInv
  <2>2. CASE reader'[r] # reader[r]
    <3>1. r = p /\ q = p /\ CheckOnly(recvWins[p], c)
          /\ reader'[r] = [pc |-> "verify", ctr |-> c, intact |-> intact]
      BY <1>1, <2>2 DEF OpenCheck, TypeOK
    <3>2. intact => sealed[p][c] > 0
      BY <3>1 DEF OpenCheck
    <3>3. QED
      BY <3>1, <3>2
  <2>3. QED
    BY <2>1, <2>2
<1>7. QED
  BY <1>4, <1>5, <1>6 DEF Inv

LEMMA OpenVerifyInv ==
  ASSUME Inv, NEW p \in Paths, OpenVerify(p)
  PROVE  Inv'
<1> DEFINE c == reader[p].ctr
<1>1. TypeOK /\ WindowInv /\ ReaderInv /\ AcceptedAtMostOnce
  BY DEF Inv
<1>2. /\ sendCtrs' = sendCtrs /\ cells' = cells /\ sender' = sender /\ sealed' = sealed
      /\ reader[p].pc = "verify" /\ reader' = [reader EXCEPT ![p].pc = "idle"]
  BY DEF OpenVerify, sendVars
<1>3. c \in Ctr
  BY <1>1 DEF TypeOK
<1>4. reader' \in [Paths -> [pc : {"idle", "verify"}, ctr : Ctr, intact : BOOLEAN]]
  BY <1>1, <1>2 DEF TypeOK
<1>5. CounterInv' /\ SenderInv'
  BY <1>2 DEF Inv, CounterInv, SenderInv
<1>6. \A q \in Paths : q # p => reader'[q] = reader[q]
  BY <1>1, <1>2 DEF TypeOK
<1>7. reader'[p].pc = "idle"
  BY <1>1, <1>2 DEF TypeOK
<1>8. CASE ~ reader[p].intact
  <2>1. recvWins' = recvWins /\ accepted' = accepted
    BY <1>8 DEF OpenVerify
  <2>2. TypeOK'
    BY <1>1, <1>2, <1>4, <2>1 DEF TypeOK
  <2>3. ReaderInv'
    BY <1>1, <1>2, <1>6, <1>7, <2>1 DEF ReaderInv
  <2>4. WindowInv' /\ AcceptedAtMostOnce'
    BY <1>1, <1>2, <2>1 DEF WindowInv, AcceptedAtMostOnce
  <2>5. QED
    BY <1>5, <2>2, <2>3, <2>4 DEF Inv
<1>9. CASE reader[p].intact
  <2>1. /\ recvWins' = [recvWins EXCEPT ![p] = MarkSeen(recvWins[p], c)]
        /\ accepted' = [accepted EXCEPT ![p][c] = @ + 1]
    BY <1>9 DEF OpenVerify
  <2>2. /\ recvWins[p] \in Windows /\ accepted[p] \in [Ctr -> Nat]
        /\ WindowExact(recvWins[p], accepted[p])
    BY <1>1 DEF TypeOK, WindowInv
  <2>3. /\ MarkSeen(recvWins[p], c) \in Windows
        /\ WindowExact(MarkSeen(recvWins[p], c), [accepted[p] EXCEPT ![c] = @ + 1])
    BY <1>3, <2>2, MarkSeenExact
  <2>4. /\ recvWins'[p] = MarkSeen(recvWins[p], c)
        /\ accepted'[p] = [accepted[p] EXCEPT ![c] = @ + 1]
        /\ \A q \in Paths : q # p => recvWins'[q] = recvWins[q] /\ accepted'[q] = accepted[q]
    BY <1>1, <2>1 DEF TypeOK
  <2>5. recvWins' \in [Paths -> Windows]
    BY <1>1, <2>1, <2>3 DEF TypeOK
  <2>6. accepted' \in [Paths -> [Ctr -> Nat]]
    BY <1>1, <1>3, <2>1 DEF TypeOK
  <2>7. TypeOK'
    BY <1>1, <1>2, <1>4, <2>5, <2>6 DEF TypeOK
  <2>8. WindowInv'
    BY <1>1, <2>3, <2>4 DEF WindowInv
  <2>9. ReaderInv'
    BY <1>1, <1>2, <1>6, <1>7, <2>4 DEF ReaderInv
  <2>10. accepted[p][c] = 0 /\ sealed[p][c] > 0
    <3>1. CheckOnly(recvWins[p], c) /\ sealed[p][c] > 0
      BY <1>1, <1>2, <1>9 DEF ReaderInv
    <3>2. QED
      BY <1>3, <2>2, <3>1, CheckOnlyMeansNew
  <2>11. AcceptedAtMostOnce'
    <3> SUFFICES ASSUME NEW q \in Paths, NEW d \in Ctr PROVE accepted'[q][d] <= sealed[q][d]
      BY <1>2 DEF AcceptedAtMostOnce
    <3>1. accepted[q][d] <= sealed[q][d] /\ sealed[q][d] \in Nat /\ accepted[q][d] \in Nat
      BY <1>1 DEF AcceptedAtMostOnce, TypeOK
    <3>2. CASE q = p /\ d = c
      <4>1. accepted'[q][d] = 1
        BY <1>3, <2>2, <2>4, <2>10, <3>2
      <4>2. QED
        BY <2>10, <3>1, <3>2, <4>1
    <3>3. CASE ~ (q = p /\ d = c)
      <4>1. accepted'[q][d] = accepted[q][d]
        BY <1>3, <2>2, <2>4, <3>3
      <4>2. QED
        BY <3>1, <4>1
    <3>4. QED
      BY <3>2, <3>3
  <2>12. QED
    BY <1>5, <2>7, <2>8, <2>9, <2>11 DEF Inv
<1>10. QED
  BY <1>8, <1>9

\* The inductive invariant holds of every behaviour of the session.
THEOREM InvariantHolds == Spec => []Inv
<1>1. Inv /\ [Next]_vars => Inv'
  <2> SUFFICES ASSUME Inv, [Next]_vars PROVE Inv'
    OBVIOUS
  <2>1. CASE UNCHANGED vars
    BY <2>1 DEF vars, Inv, TypeOK, CounterInv, SenderInv, WindowInv, ReaderInv, AcceptedAtMostOnce
  <2>2. QED
    BY <2>1, LookupCounterInv, SealPacketInv, OpenCheckInv, OpenVerifyInv DEF Next
<1>2. QED
  BY <1>1, InitInv, PTL DEF Spec

\* Every map, counter, window and program counter keeps its type.
THEOREM TypeCorrect == Spec => []TypeOK
<1>1. Inv => TypeOK
  BY DEF Inv
<1>2. QED
  BY <1>1, InvariantHolds, PTL

\* nextSendCounter never hands out a counter twice, for any number of
\* goroutines that Seal on any number of paths.
THEOREM NoncesAreUnique == Spec => []NonceUnique
<1>1. Inv => NonceUnique
  BY DEF Inv, CounterInv, NonceUnique
<1>2. QED
  BY <1>1, InvariantHolds, PTL

\* Open accepts every sealed packet at most once, for every window size.
THEOREM NoReplayAccepted == Spec => []AcceptedAtMostOnce
<1>1. Inv => AcceptedAtMostOnce
  BY DEF Inv
<1>2. QED
  BY <1>1, InvariantHolds, PTL

\* Open refuses a counter only if it was accepted before or is too old.
THEOREM NoCounterIsBurnt == Spec => []NoFalseRefusal
<1>1. Inv => NoFalseRefusal
  <2> SUFFICES ASSUME Inv, NEW p \in Paths, NEW c \in Ctr,
                      accepted[p][c] = 0, recvWins[p].max - c < Window
               PROVE  CheckOnly(recvWins[p], c)
    BY DEF NoFalseRefusal
  <2>1. /\ recvWins[p] \in Windows /\ accepted[p] \in [Ctr -> Nat]
        /\ WindowExact(recvWins[p], accepted[p])
    BY DEF Inv, TypeOK, WindowInv
  <2>2. QED
    BY <2>1, CheckOnlyMeansNew
<1>2. QED
  BY <1>1, InvariantHolds, PTL

-----------------------------------------------------------------------------
(* ReplayBitmap: the window as an array of words *)

CONSTANTS WordBits, Words
VARIABLES win, model

M == INSTANCE ReplayBitmap

\* A quotient and a remainder are what they must be.
LEMMA QuotientIs ==
  ASSUME NEW w \in Nat \ {0}, NEW q \in Int, NEW r \in 0..(w - 1), NEW k \in Int, k = q * w + r
  PROVE  k \div w = q /\ k % w = r
<1>1. PICK a \in Int, b \in 0..(w - 1) : a = k \div w /\ b = k % w /\ k = w * a + b
  OBVIOUS
<1>2. ASSUME NEW x \in Int, NEW y \in Int, NEW e \in 0..(w - 1), NEW f \in 0..(w - 1),
             w * x + e = w * y + f, x < y
      PROVE  FALSE
  <2>1. PICK d \in Nat : y = (x + 1) + d
    BY <1>2
  <2>2. w * y = (w * x + w) + w * d
    BY <2>1
  <2>3. w * d \in Nat /\ w * x \in Int
    BY <2>1
  <2>4. QED
    BY <1>2, <2>2, <2>3
<1>3. w * q + r = w * a + b
  BY <1>1
<1>4. a = q
  BY <1>2, <1>3
<1>5. QED
  BY <1>1, <1>3, <1>4

LEMMA QuotientFacts ==
  ASSUME NEW w \in Nat \ {0}, NEW k \in Nat
  PROVE  k \div w \in Nat /\ k % w \in 0..(w - 1) /\ k = (k \div w) * w + (k % w)
<1>1. PICK a \in Int, b \in 0..(w - 1) : a = k \div w /\ b = k % w /\ k = w * a + b
  OBVIOUS
<1>2. a >= 0
  <2>1. SUFFICES ASSUME a <= -1 PROVE FALSE
    OBVIOUS
  <2>2. PICK d \in Nat : a = -1 - d
    BY <2>1
  <2>3. w * a = -w - w * d /\ w * d \in Nat
    BY <2>2
  <2>4. QED
    BY <1>1, <2>3
<1>3. QED
  BY <1>1, <1>2

\* The places of the bitmap are the bits of its words.
LEMMA Place ==
  ASSUME M!BitmapAssumption, NEW k \in 0..(Words * WordBits - 1)
  PROVE  /\ k \div WordBits \in M!Index /\ k % WordBits \in M!Bits
         /\ k = (k \div WordBits) * WordBits + (k % WordBits)
<1>1. WordBits \in Nat \ {0} /\ Words \in Nat \ {0} /\ Words * WordBits \in Nat /\ k \in Nat
  BY DEF M!BitmapAssumption
<1>2. PICK q \in Nat, r \in 0..(WordBits - 1) :
        q = k \div WordBits /\ r = k % WordBits /\ k = q * WordBits + r
  BY <1>1, QuotientFacts
<1>3. q < Words
  <2>1. SUFFICES ASSUME q >= Words PROVE FALSE
    BY <1>1
  <2>2. PICK d \in Nat : q = Words + d
    BY <1>1, <2>1
  <2>3. q * WordBits = Words * WordBits + d * WordBits /\ d * WordBits \in Nat
    BY <1>1, <2>2
  <2>4. QED
    BY <1>1, <1>2, <2>3
<1>4. QED
  BY <1>1, <1>2, <1>3 DEF M!Index, M!Bits

BitArrays == [M!Index -> SUBSET M!Bits]

\* What the loop of shiftWords has done to the array after k iterations: it goes
\* down, and iteration i reads only words that it has not yet changed.
Shifted(bits, ws, bs, k) ==
  [i \in M!Index |-> IF i >= Words - k THEN M!ShiftedWord(bits, ws, bs, i) ELSE bits[i]]

LEMMA ShiftedReads ==
  ASSUME NEW f, NEW g, NEW ws \in Nat, NEW bs, NEW i \in Nat,
         \A j \in 0..i : f[j] = g[j]
  PROVE  M!ShiftedWord(f, ws, bs, i) = M!ShiftedWord(g, ws, bs, i)
<1>1. CASE i - ws < 0
  BY <1>1 DEF M!ShiftedWord
<1>2. CASE i - ws >= 0 /\ (i - ws) - 1 < 0
  <2>1. f[i - ws] = g[i - ws]
    BY <1>2
  <2>2. ~(i - ws < 0) /\ ~((i - ws) - 1 >= 0)
    BY <1>2
  <2>3. QED
    BY <2>1, <2>2 DEF M!ShiftedWord
<1>3. CASE i - ws >= 0 /\ (i - ws) - 1 >= 0
  <2>1. f[i - ws] = g[i - ws] /\ f[(i - ws) - 1] = g[(i - ws) - 1]
    BY <1>3
  <2>2. QED
    BY <1>3, <2>1 DEF M!ShiftedWord
<1>4. QED
  BY <1>1, <1>2, <1>3

LEMMA ShiftedNext ==
  ASSUME Words \in Nat \ {0}, NEW bits \in BitArrays, NEW ws \in Nat, NEW bs, NEW k \in 1..Words
  PROVE  Shifted(bits, ws, bs, k) =
           [Shifted(bits, ws, bs, k - 1) EXCEPT ![Words - k] =
              M!ShiftedWord(Shifted(bits, ws, bs, k - 1), ws, bs, Words - k)]
<1> DEFINE i == Words - k
           old == Shifted(bits, ws, bs, k - 1)
<1>1. i \in Nat /\ i \in M!Index /\ \A j \in 0..i : j \in M!Index
  BY DEF M!Index
<1>2. \A j \in 0..i : old[j] = bits[j]
  BY <1>1 DEF Shifted
<1>3. M!ShiftedWord(old, ws, bs, i) = M!ShiftedWord(bits, ws, bs, i)
  <2> HIDE DEF old, i
  <2> QED BY <1>1, <1>2, ShiftedReads
<1>4. \A j \in M!Index : j # i => (j >= Words - k <=> j >= Words - (k - 1))
  BY DEF M!Index
<1>5. QED
  BY <1>1, <1>3, <1>4 DEF Shifted

\* The recursion of shiftWords' loop, and that it has one solution.
AfterBody(bits, ws, bs, g, k) ==
  IF k = 0 THEN bits
  ELSE [g[k - 1] EXCEPT ![Words - k] = M!ShiftedWord(g[k - 1], ws, bs, Words - k)]
After(bits, ws, bs, g) == g = [k \in 0..Words |-> AfterBody(bits, ws, bs, g, k)]

LEMMA AfterExists ==
  ASSUME Words \in Nat \ {0}, NEW bits \in BitArrays, NEW ws \in Nat, NEW bs
  PROVE  \E g : After(bits, ws, bs, g)
<1> DEFINE g == [k \in 0..Words |-> Shifted(bits, ws, bs, k)]
<1>1. ASSUME NEW k \in 0..Words PROVE Shifted(bits, ws, bs, k) = AfterBody(bits, ws, bs, g, k)
  <2>1. CASE k = 0
    <3>1. Shifted(bits, ws, bs, 0) = bits
      BY DEF Shifted, BitArrays, M!Index
    <3>2. QED
      BY <2>1, <3>1 DEF AfterBody
  <2>2. CASE k # 0
    <3>1. k \in 1..Words /\ k - 1 \in 0..Words
      BY <2>2
    <3>2. g[k - 1] = Shifted(bits, ws, bs, k - 1)
      BY <3>1
    <3> HIDE DEF g
    <3>3. Shifted(bits, ws, bs, k) =
            [g[k - 1] EXCEPT ![Words - k] = M!ShiftedWord(g[k - 1], ws, bs, Words - k)]
      BY <3>1, <3>2, ShiftedNext
    <3>4. QED
      BY <2>2, <3>3 DEF AfterBody
  <2>3. QED
    BY <2>1, <2>2
<1>2. After(bits, ws, bs, g)
  BY <1>1 DEF After
<1>3. QED
  BY <1>2

LEMMA AfterIsShifted ==
  ASSUME Words \in Nat \ {0}, NEW bits \in BitArrays, NEW ws \in Nat, NEW bs, NEW g,
         After(bits, ws, bs, g)
  PROVE  g[Words] = Shifted(bits, ws, bs, Words)
<1> DEFINE Bad == {k \in 0..Words : g[k] # Shifted(bits, ws, bs, k)}
<1>1. \A k \in 0..Words : g[k] = AfterBody(bits, ws, bs, g, k)
  BY DEF After
<1>2. Bad = {}
  <2>1. SUFFICES ASSUME Bad # {} PROVE FALSE
    OBVIOUS
  <2>2. Bad \in SUBSET Nat
    OBVIOUS
  <2>3. PICK k \in Bad : \A j \in Bad : k <= j
    <3> HIDE DEF Bad
    <3> QED BY <2>1, <2>2, LeastNumber
  <2>4. k \in 0..Words /\ g[k] # Shifted(bits, ws, bs, k)
    BY <2>3
  <2>5. CASE k = 0
    <3>1. Shifted(bits, ws, bs, 0) = bits
      BY DEF Shifted, BitArrays, M!Index
    <3>2. QED
      BY <1>1, <2>4, <2>5, <3>1 DEF AfterBody
  <2>6. CASE k # 0
    <3>1. k \in 1..Words /\ k - 1 \in 0..Words /\ ~(k <= k - 1)
      BY <2>4, <2>6
    <3>2. k - 1 \notin Bad
      BY <2>3, <3>1
    <3>3. g[k - 1] = Shifted(bits, ws, bs, k - 1)
      BY <3>1, <3>2
    <3>4. g[k] = Shifted(bits, ws, bs, k)
      <4>1. Shifted(bits, ws, bs, k) =
              [g[k - 1] EXCEPT ![Words - k] = M!ShiftedWord(g[k - 1], ws, bs, Words - k)]
        BY <3>1, <3>3, ShiftedNext
      <4>2. g[k] = AfterBody(bits, ws, bs, g, k)
        BY <1>1, <2>4
      <4>3. QED
        BY <2>6, <4>1, <4>2 DEF AfterBody
    <3>5. QED
      BY <2>4, <3>4
  <2>7. QED
    BY <2>5, <2>6
<1>3. Words \in 0..Words
  OBVIOUS
<1>4. QED
  BY <1>2, <1>3

\* shiftWords computes every word from the array as it was before the call.
LEMMA ShiftWordsFacts ==
  ASSUME M!BitmapAssumption, NEW bits \in BitArrays, NEW n \in Nat, n \div WordBits < Words
  PROVE  M!shiftWords(bits, n) =
           [i \in M!Index |-> M!ShiftedWord(bits, n \div WordBits, n % WordBits, i)]
<1>1. WordBits \in Nat \ {0} /\ Words \in Nat \ {0}
  BY DEF M!BitmapAssumption
<1>2. PICK ws \in Nat, bs \in 0..(WordBits - 1) :
        ws = n \div WordBits /\ bs = n % WordBits /\ ws < Words
  BY <1>1, QuotientFacts
<1> DEFINE g == CHOOSE g : After(bits, ws, bs, g)
<1>3. After(bits, ws, bs, g)
  BY <1>1, AfterExists
<1>4. M!shiftWords(bits, n) = g[Words]
  <2>1. ~(ws >= Words)
    BY <1>1, <1>2
  <2>2. QED
    BY <1>2, <2>1 DEF M!shiftWords, After, AfterBody
<1> HIDE DEF g
<1>5. g[Words] = Shifted(bits, ws, bs, Words)
  BY <1>1, <1>3, AfterIsShifted
<1>6. \A i \in M!Index : i >= Words - Words
  BY <1>1 DEF M!Index
<1>7. Shifted(bits, ws, bs, Words) = [i \in M!Index |-> M!ShiftedWord(bits, ws, bs, i)]
  BY <1>6 DEF Shifted
<1>8. QED
  BY <1>2, <1>4, <1>5, <1>7

\* The offsets that the bitmap marks.
Marked(bits) == {k \in 0..(Words * WordBits - 1) : k % WordBits \in bits[k \div WordBits]}

LEMMA MarkedAt ==
  ASSUME M!BitmapAssumption, NEW bits, NEW q \in M!Index, NEW r \in M!Bits,
         NEW k, k = q * WordBits + r
  PROVE  k \in 0..(Words * WordBits - 1) /\ (k \in Marked(bits) <=> r \in bits[q])
<1>1. /\ WordBits \in Nat \ {0} /\ Words \in Nat \ {0}
      /\ q \in Int /\ r \in 0..(WordBits - 1) /\ k \in Int
  BY DEF M!BitmapAssumption, M!Index, M!Bits
<1>2. k \in 0..(Words * WordBits - 1)
  <2>1. PICK d \in Nat : Words = (q + 1) + d
    BY <1>1 DEF M!Index
  <2>2. Words * WordBits = (q * WordBits + WordBits) + d * WordBits
    BY <1>1, <2>1
  <2>3. d * WordBits \in Nat /\ q * WordBits \in Nat
    BY <1>1, <2>1 DEF M!Index
  <2>4. QED
    BY <1>1, <2>2, <2>3
<1>3. k \div WordBits = q /\ k % WordBits = r
  BY <1>1, QuotientIs
<1>4. QED
  BY <1>2, <1>3 DEF Marked

LEMMA NegativeIsNotMarked ==
  ASSUME NEW bits, NEW d \in Int, d < 0 PROVE d \notin Marked(bits)
BY DEF Marked

\* A bit of the shifted array is the bit n places below it, be it in the same word
\* or, carried, in the one before.
LEMMA ShiftedMark ==
  ASSUME M!BitmapAssumption, NEW bits \in BitArrays, NEW n \in Nat,
         NEW q \in M!Index, NEW r \in M!Bits
  PROVE  r \in M!ShiftedWord(bits, n \div WordBits, n % WordBits, q) <=>
           (q * WordBits + r) - n \in Marked(bits)
<1>1. WordBits \in Nat \ {0} /\ Words \in Nat \ {0}
  BY DEF M!BitmapAssumption
<1>2. PICK ws \in Nat, bs \in 0..(WordBits - 1) :
        ws = n \div WordBits /\ bs = n % WordBits /\ n = ws * WordBits + bs
  BY <1>1, QuotientFacts
<1>3. PICK j \in Int : j = q - ws /\ j < Words
  BY <1>1 DEF M!Index
<1>4. q \in Int /\ r \in 0..(WordBits - 1) /\ q \in M!Index
  BY DEF M!Index, M!Bits
<1>5. PICK d \in Int : d = (q * WordBits + r) - n /\ d = j * WordBits + (r - bs)
  BY <1>1, <1>2, <1>3, <1>4
<1>6. \A i \in M!Index : bits[i] \in SUBSET (0..(WordBits - 1))
  BY DEF BitArrays, M!Bits
<1>7. CASE j < 0
  <2>1. d < 0
    <3>1. PICK e \in Nat : j = -1 - e
      BY <1>7
    <3>2. j * WordBits = -WordBits - e * WordBits /\ e * WordBits \in Nat
      BY <1>1, <3>1
    <3>3. QED
      BY <1>1, <1>4, <1>5, <3>2
  <2>2. M!ShiftedWord(bits, ws, bs, q) = {}
    BY <1>3, <1>7 DEF M!ShiftedWord
  <2>3. d \notin Marked(bits)
    BY <2>1, NegativeIsNotMarked
  <2>4. QED
    BY <1>2, <1>5, <2>2, <2>3
<1>8. CASE j >= 0 /\ r >= bs
  <2>1. j \in M!Index /\ r - bs \in M!Bits /\ d = j * WordBits + (r - bs)
    BY <1>1, <1>3, <1>4, <1>5, <1>8 DEF M!Index, M!Bits
  <2>2. d \in Marked(bits) <=> r - bs \in bits[j]
    BY <2>1, MarkedAt
  <2>3. ASSUME j - 1 >= 0 PROVE r \notin M!Shr(bits[j - 1], WordBits - bs)
    <3>1. j - 1 \in M!Index
      BY <1>1, <1>3, <2>3 DEF M!Index
    <3>2. r + (WordBits - bs) \notin 0..(WordBits - 1)
      BY <1>1, <1>4, <1>8
    <3>3. QED
      BY <1>6, <3>1, <3>2 DEF M!Shr
  <2>4. r \in M!Shl(bits[j], bs) <=> r - bs \in bits[j]
    BY DEF M!Shl
  <2>5. r \in M!ShiftedWord(bits, ws, bs, q) <=> r - bs \in bits[j]
    <3>1. ~(j < 0)
      BY <1>8
    <3>2. CASE bs = 0
      <4>1. r - bs = r
        BY <1>4, <3>2
      <4>2. QED
        BY <1>3, <3>1, <3>2, <4>1 DEF M!ShiftedWord
    <3>3. CASE bs # 0
      BY <1>3, <2>3, <2>4, <3>1, <3>3 DEF M!ShiftedWord
    <3>4. QED
      BY <3>2, <3>3
  <2>6. QED
    BY <1>2, <1>5, <2>2, <2>5
<1>9. CASE j >= 0 /\ r < bs
  <2>1. bs # 0 /\ ~(j < 0) /\ j \in M!Index
    BY <1>1, <1>3, <1>4, <1>9 DEF M!Index
  <2>2. r \notin M!Shl(bits[j], bs)
    <3>1. r - bs \notin 0..(WordBits - 1)
      BY <1>4, <1>9
    <3>2. QED
      BY <1>6, <2>1, <3>1 DEF M!Shl
  <2>3. CASE j = 0
    <3>1. ~(j - 1 >= 0)
      BY <2>3
    <3>2. r \notin M!ShiftedWord(bits, ws, bs, q)
      BY <1>3, <2>1, <2>2, <3>1 DEF M!ShiftedWord
    <3>3. d < 0
      BY <1>1, <1>4, <1>5, <1>9, <2>3
    <3>4. d \notin Marked(bits)
      BY <3>3, NegativeIsNotMarked
    <3>5. QED
      BY <1>2, <1>5, <3>2, <3>4
  <2>4. CASE j # 0
    <3>1. j - 1 >= 0 /\ j - 1 \in M!Index /\ r + (WordBits - bs) \in M!Bits
      BY <1>1, <1>3, <1>4, <1>9, <2>1, <2>4 DEF M!Index, M!Bits
    <3>2. d = (j - 1) * WordBits + (r + (WordBits - bs))
      <4>1. (j - 1) * WordBits = j * WordBits - WordBits /\ j * WordBits \in Int
        BY <1>1
      <4>2. QED
        BY <1>1, <1>4, <1>5, <4>1
    <3>3. d \in Marked(bits) <=> r + (WordBits - bs) \in bits[j - 1]
      BY <3>1, <3>2, MarkedAt
    <3>4. r \in M!Shr(bits[j - 1], WordBits - bs) <=> r + (WordBits - bs) \in bits[j - 1]
      BY DEF M!Shr
    <3>5. r \in M!ShiftedWord(bits, ws, bs, q) <=> r + (WordBits - bs) \in bits[j - 1]
      BY <1>3, <2>1, <2>2, <3>1, <3>4 DEF M!ShiftedWord
    <3>6. QED
      BY <1>2, <1>5, <3>3, <3>5
  <2>5. QED
    BY <2>3, <2>4
<1>10. QED
  BY <1>4, <1>7, <1>8, <1>9

\* ShiftedWord gives words.
LEMMA ShiftedType ==
  ASSUME M!BitmapAssumption, NEW bits \in BitArrays, NEW n \in Nat
  PROVE  [i \in M!Index |-> M!ShiftedWord(bits, n \div WordBits, n % WordBits, i)] \in BitArrays
<1>1. PICK ws \in Nat, bs \in Int : ws = n \div WordBits /\ bs = n % WordBits
  <2>1. WordBits \in Nat \ {0}
    BY DEF M!BitmapAssumption
  <2>2. n \div WordBits \in Nat /\ n % WordBits \in 0..(WordBits - 1)
    BY <2>1, QuotientFacts
  <2>3. QED
    BY <2>2
<1>2. ASSUME NEW i \in M!Index PROVE M!ShiftedWord(bits, ws, bs, i) \in SUBSET M!Bits
  <2>1. CASE i - ws < 0
    BY <2>1 DEF M!ShiftedWord
  <2>2. CASE ~(i - ws < 0)
    <3>1. i - ws \in M!Index
      BY <1>1, <2>2 DEF M!Index, M!BitmapAssumption
    <3>2. bits[i - ws] \in SUBSET M!Bits
      BY <3>1 DEF BitArrays
    <3>3. \A v, m : M!Shl(v, m) \in SUBSET M!Bits /\ M!Shr(v, m) \in SUBSET M!Bits
      BY DEF M!Shl, M!Shr
    <3>4. QED
      BY <2>2, <3>2, <3>3 DEF M!ShiftedWord
  <2>3. QED
    BY <2>1, <2>2
<1>3. QED
  BY <1>1, <1>2 DEF BitArrays

\* The array that MarkSeen makes of bits when the maximum moves up by n.
Moved(bits, n) == IF n >= Words * WordBits THEN M!Zero ELSE M!shiftWords(bits, n)

\* Every mark moves up by n; those that leave the window are dropped.
LEMMA MarksMove ==
  ASSUME M!BitmapAssumption, NEW bits \in BitArrays, NEW n \in Nat
  PROVE  /\ Moved(bits, n) \in BitArrays
         /\ \A k \in 0..(Words * WordBits - 1) :
              k \in Marked(Moved(bits, n)) <=> k - n \in Marked(bits)
<1>1. WordBits \in Nat \ {0} /\ Words \in Nat \ {0} /\ Words * WordBits \in Nat
  BY DEF M!BitmapAssumption
<1>2. CASE n >= Words * WordBits
  <2>1. Moved(bits, n) = M!Zero
    BY <1>2 DEF Moved
  <2>2. M!Zero \in BitArrays
    BY DEF M!Zero, BitArrays
  <2>3. ASSUME NEW k \in 0..(Words * WordBits - 1)
        PROVE  k \notin Marked(M!Zero) /\ k - n \notin Marked(bits)
    <3>1. k - n < 0 /\ k - n \in Int
      BY <1>1, <1>2
    <3>2. k \div WordBits \in M!Index
      BY Place
    <3>3. QED
      BY <3>1, <3>2, NegativeIsNotMarked DEF Marked, M!Zero
  <2>4. QED
    BY <2>1, <2>2, <2>3
<1>3. CASE ~(n >= Words * WordBits)
  <2> DEFINE new == [i \in M!Index |-> M!ShiftedWord(bits, n \div WordBits, n % WordBits, i)]
  <2>1. n \in 0..(Words * WordBits - 1)
    BY <1>1, <1>3
  <2>2. n \div WordBits < Words
    BY <1>1, <2>1, Place DEF M!Index
  <2>3. Moved(bits, n) = new
    BY <1>3, <2>2, ShiftWordsFacts DEF Moved
  <2>4. new \in BitArrays
    BY ShiftedType
  <2>5. ASSUME NEW k \in 0..(Words * WordBits - 1)
        PROVE  k \in Marked(new) <=> k - n \in Marked(bits)
    <3>1. PICK q \in M!Index, r \in M!Bits :
            q = k \div WordBits /\ r = k % WordBits /\ k = q * WordBits + r
      BY Place
    <3>2. new[q] = M!ShiftedWord(bits, n \div WordBits, n % WordBits, q)
      OBVIOUS
    <3> HIDE DEF new
    <3>3. k \in Marked(new) <=> r \in new[q]
      BY <3>1, MarkedAt
    <3>4. r \in new[q] <=> k - n \in Marked(bits)
      <4>1. r \in M!ShiftedWord(bits, n \div WordBits, n % WordBits, q) <=>
              (q * WordBits + r) - n \in Marked(bits)
        BY ShiftedMark
      <4>2. QED
        BY <3>1, <3>2, <4>1
    <3>5. QED
      BY <3>3, <3>4
  <2> HIDE DEF new
  <2>6. QED
    BY <2>3, <2>4, <2>5
<1>4. QED
  BY <1>2, <1>3

\* Setting one bit marks one offset.
SetBit(bits, q, r) == [bits EXCEPT ![q] = @ \cup {r}]

LEMMA MarkOne ==
  ASSUME M!BitmapAssumption, NEW bits \in BitArrays, NEW q \in M!Index, NEW r \in M!Bits,
         NEW at, at = q * WordBits + r
  PROVE  /\ SetBit(bits, q, r) \in BitArrays
         /\ at \in 0..(Words * WordBits - 1)
         /\ Marked(SetBit(bits, q, r)) = Marked(bits) \cup {at}
<1> DEFINE new == SetBit(bits, q, r)
<1>1. new \in BitArrays /\ new[q] = bits[q] \cup {r} /\ \A i \in M!Index : i # q => new[i] = bits[i]
  BY DEF SetBit, BitArrays
<1> HIDE DEF new
<1>3. at \in 0..(Words * WordBits - 1) /\ at \in Marked(new)
  BY <1>1, MarkedAt
<1>4. ASSUME NEW k \in 0..(Words * WordBits - 1)
      PROVE  k \in Marked(new) <=> (k \in Marked(bits) \/ k = at)
  <2>1. PICK i \in M!Index, b \in M!Bits : k = i * WordBits + b
    BY Place
  <2>2. (k \in Marked(new) <=> b \in new[i]) /\ (k \in Marked(bits) <=> b \in bits[i])
    BY <2>1, MarkedAt
  <2>3. CASE k = at
    BY <1>3, <2>3
  <2>4. CASE k # at
    <3>1. i # q \/ b # r
      BY <2>1, <2>4
    <3>2. b \in new[i] <=> b \in bits[i]
      BY <1>1, <3>1
    <3>3. QED
      BY <2>2, <2>4, <3>2
  <2>5. QED
    BY <2>3, <2>4
<1>5. /\ Marked(new) \in SUBSET (0..(Words * WordBits - 1))
      /\ Marked(bits) \in SUBSET (0..(Words * WordBits - 1))
  BY DEF Marked
<1>6. Marked(new) = Marked(bits) \cup {at}
  BY <1>3, <1>4, <1>5
<1>7. QED
  BY <1>1, <1>3, <1>6 DEF new

\* The bitmap as it is between calls.
BitmapInv ==
  /\ win \in [inited : BOOLEAN, max : Nat, bits : BitArrays]
  /\ model = [inited |-> win.inited, max |-> win.max, seen |-> Marked(win.bits)]
  /\ ~win.inited => win.bits = M!Zero

LEMMA BitmapInit ==
  ASSUME M!BitmapAssumption, M!Init PROVE BitmapInv
<1>1. win = [inited |-> FALSE, max |-> 0, bits |-> M!Zero] /\ model = M!Set!NewWindow
  BY DEF M!Init
<1>2. M!Zero \in BitArrays
  BY DEF M!Zero, BitArrays
<1>3. Marked(M!Zero) = {}
  <2>1. ASSUME NEW k \in 0..(Words * WordBits - 1) PROVE k % WordBits \notin M!Zero[k \div WordBits]
    <3>1. k \div WordBits \in M!Index
      BY Place
    <3>2. QED
      BY <3>1 DEF M!Zero
  <2>2. QED
    BY <2>1 DEF Marked
<1>4. QED
  BY <1>1, <1>2, <1>3 DEF BitmapInv, M!Set!NewWindow

LEMMA BitmapStep ==
  ASSUME M!BitmapAssumption, BitmapInv, [M!Next]_(M!vars) PROVE BitmapInv'
<1> DEFINE Offs == 0..(Words * WordBits - 1)
<1>1. /\ WordBits \in Nat \ {0} /\ Words \in Nat \ {0} /\ MaxCtr \in Nat
      /\ WordBits * Words = Words * WordBits /\ Words * WordBits \in Nat
  BY DEF M!BitmapAssumption
<1>2. /\ win.inited \in BOOLEAN /\ win.max \in Nat /\ win.bits \in BitArrays
      /\ win = [inited |-> win.inited, max |-> win.max, bits |-> win.bits]
      /\ model.inited = win.inited /\ model.max = win.max /\ model.seen = Marked(win.bits)
      /\ ~win.inited => win.bits = M!Zero
  BY DEF BitmapInv
<1>3. 0 \in M!Index /\ 0 \in M!Bits /\ 0 * WordBits + 0 = 0 /\ M!Set!Offsets = Offs
  BY <1>1 DEF M!Index, M!Bits, M!Set!Offsets
<1>4. ASSUME NEW new \in BitArrays, NEW m \in Nat,
             win' = [inited |-> TRUE, max |-> m, bits |-> new],
             model' = [inited |-> TRUE, max |-> m, seen |-> Marked(new)]
      PROVE  BitmapInv'
  BY <1>4 DEF BitmapInv
<1>5. CASE UNCHANGED M!vars
  BY <1>5 DEF M!vars, BitmapInv
<1>6. ASSUME NEW counter \in 0..MaxCtr, M!MarkSeen(counter) PROVE BitmapInv'
  <2>1. counter \in Nat /\ model' = M!Set!MarkSeen(model, counter)
    BY <1>1, <1>6 DEF M!MarkSeen
  <2>2. CASE ~win.inited
    <3> DEFINE new == SetBit(win.bits, 0, 0)
    <3>1. new = [win.bits EXCEPT ![0] = {0}]
      BY <1>2, <1>3, <2>2 DEF SetBit, M!Zero
    <3>2. win' = [inited |-> TRUE, max |-> counter, bits |-> new]
      BY <1>6, <2>2, <3>1 DEF M!MarkSeen
    <3>3. model' = [inited |-> TRUE, max |-> counter, seen |-> {0}]
      BY <1>2, <2>1, <2>2 DEF M!Set!MarkSeen
    <3>4. new \in BitArrays /\ Marked(new) = Marked(win.bits) \cup {0}
      <4>1. win.bits \in BitArrays /\ 0 = 0 * WordBits + 0
        BY <1>2, <1>3
      <4>2. QED
        BY <1>3, <4>1, MarkOne
    <3>5. Marked(win.bits) = {}
      <4>1. \A k \in Offs : k \div WordBits \in M!Index
        BY Place
      <4>2. QED
        BY <1>2, <2>2, <4>1 DEF Marked, M!Zero
    <3> HIDE DEF new
    <3>6. QED
      BY <1>4, <2>1, <3>2, <3>3, <3>4, <3>5
  <2>3. CASE win.inited /\ counter > win.max
    <3>1. PICK n \in Nat : n = counter - win.max /\ n > 0
      BY <1>2, <2>1, <2>3
    <3>2. PICK moved : moved = Moved(win.bits, n)
      OBVIOUS
    <3>3. /\ moved \in BitArrays
          /\ \A k \in Offs : k \in Marked(moved) <=> k - n \in Marked(win.bits)
      BY <1>2, <3>2, MarksMove
    <3> DEFINE new == SetBit(moved, 0, 0)
    <3>4. win' = [inited |-> TRUE, max |-> counter, bits |-> new]
      BY <1>6, <2>3, <3>1, <3>2 DEF M!MarkSeen, Moved, SetBit
    <3>5. model' = [inited |-> TRUE, max |-> counter,
                    seen |-> {k \in Offs : k = 0 \/ k - n \in Marked(win.bits)}]
      BY <1>2, <1>3, <2>1, <2>3, <3>1 DEF M!Set!MarkSeen
    <3>6. new \in BitArrays /\ Marked(new) = Marked(moved) \cup {0} /\ 0 \in Offs
      <4>1. moved \in BitArrays /\ 0 = 0 * WordBits + 0
        BY <1>3, <3>3
      <4>2. QED
        BY <1>3, <4>1, MarkOne
    <3>7. {k \in Offs : k = 0 \/ k - n \in Marked(win.bits)} = Marked(new)
      <4>1. Marked(moved) \in SUBSET Offs
        BY DEF Marked
      <4> HIDE DEF new, Offs
      <4>2. QED
        BY <3>3, <3>6, <4>1
    <3> HIDE DEF new
    <3>8. QED
      BY <1>4, <2>1, <3>4, <3>5, <3>6, <3>7
  <2>4. CASE win.inited /\ ~(counter > win.max)
    <3>1. PICK back \in Nat : back = win.max - counter
      BY <1>2, <2>1, <2>4
    <3>2. model' = [inited |-> TRUE, max |-> win.max,
                    seen |-> Marked(win.bits) \cup ({back} \cap Offs)]
      BY <1>2, <1>3, <2>1, <2>4, <3>1 DEF M!Set!MarkSeen
    <3>3. win' = IF back \div WordBits < Words
                 THEN [win EXCEPT !.bits[back \div WordBits] = @ \cup {back % WordBits}]
                 ELSE win
      BY <1>6, <2>4, <3>1 DEF M!MarkSeen
    <3>4. PICK q \in Nat, r \in 0..(WordBits - 1) :
            q = back \div WordBits /\ r = back % WordBits /\ back = q * WordBits + r
      BY <1>1, QuotientFacts
    <3>5. CASE q < Words
      <4>1. q \in M!Index /\ r \in M!Bits
        BY <1>1, <3>4, <3>5 DEF M!Index, M!Bits
      <4> DEFINE new == SetBit(win.bits, q, r)
      <4>2. new \in BitArrays /\ Marked(new) = Marked(win.bits) \cup {back} /\ back \in Offs
        <5>1. win.bits \in BitArrays /\ back = q * WordBits + r
          BY <1>2, <3>4
        <5>2. QED
          BY <4>1, <5>1, MarkOne
      <4>3. win' = [win EXCEPT !.bits[q] = @ \cup {r}]
        BY <3>3, <3>4, <3>5
      <4>4. win' = [inited |-> TRUE, max |-> win.max, bits |-> new]
        BY <1>2, <2>4, <4>3 DEF SetBit
      <4>5. {back} \cap Offs = {back}
        BY <4>2
      <4> HIDE DEF new
      <4>6. QED
        BY <1>2, <1>4, <3>2, <4>2, <4>4, <4>5
    <3>6. CASE ~(q < Words)
      <4>1. back \notin Offs
        <5>1. PICK e \in Nat : q = Words + e
          BY <1>1, <3>6
        <5>2. q * WordBits = Words * WordBits + e * WordBits /\ e * WordBits \in Nat
          BY <1>1, <5>1
        <5>3. QED
          BY <1>1, <3>4, <5>2
      <4>2. win' = win
        BY <3>3, <3>4, <3>6
      <4>3. Marked(win.bits) \cup ({back} \cap Offs) = Marked(win.bits)
        BY <4>1
      <4>4. win' = [inited |-> TRUE, max |-> win.max, bits |-> win.bits]
        BY <1>2, <2>4, <4>2
      <4>5. QED
        BY <1>2, <1>4, <3>2, <4>3, <4>4
    <3>7. QED
      BY <3>5, <3>6
  <2>5. QED
    BY <1>2, <2>2, <2>3, <2>4
<1>7. QED
  BY <1>5, <1>6 DEF M!Next

LEMMA BitmapAnswers ==
  ASSUME M!BitmapAssumption, BitmapInv PROVE M!BitmapIsTheWindow
<1> DEFINE Offs == 0..(Words * WordBits - 1)
<1>1. /\ WordBits * Words = Words * WordBits /\ Words * WordBits \in Nat /\ MaxCtr \in Nat
      /\ WordBits \in Nat \ {0}
  BY DEF M!BitmapAssumption
<1>2. /\ win.inited \in BOOLEAN /\ win.max \in Nat
      /\ model.inited = win.inited /\ model.max = win.max /\ model.seen = Marked(win.bits)
  BY DEF BitmapInv
<1>3. ASSUME NEW c \in 0..MaxCtr PROVE M!CheckOnly(c) <=> M!Set!CheckOnly(model, c)
  <2>1. CASE ~win.inited \/ c > win.max
    BY <1>2, <2>1 DEF M!CheckOnly, M!Set!CheckOnly
  <2>2. CASE win.inited /\ ~(c > win.max)
    <3>1. PICK back \in Nat : back = win.max - c
      BY <1>1, <1>2, <2>2
    <3>2. M!CheckOnly(c) <=>
            (back < Words * WordBits /\ back % WordBits \notin win.bits[back \div WordBits])
      BY <2>2, <3>1 DEF M!CheckOnly
    <3>3. M!Set!CheckOnly(model, c) <=> (back < Words * WordBits /\ back \notin Marked(win.bits))
      BY <1>1, <1>2, <2>2, <3>1 DEF M!Set!CheckOnly
    <3>4. back < Words * WordBits =>
            (back \in Marked(win.bits) <=> back % WordBits \in win.bits[back \div WordBits])
      <4>1. back < Words * WordBits => back \in Offs
        BY <1>1
      <4>2. QED
        BY <4>1 DEF Marked
    <3>5. QED
      BY <3>2, <3>3, <3>4
  <2>3. QED
    BY <1>2, <2>1, <2>2
<1>4. QED
  BY <1>2, <1>3 DEF M!BitmapIsTheWindow, Marked

\* After every sequence of MarkSeen calls the array of replay.go marks exactly the
\* offsets of the window that the theorems above are about, and CheckOnly answers as
\* that window does, for words of any width and arrays of any length.
THEOREM BitmapIsTheWindowHolds ==
  ASSUME M!BitmapAssumption PROVE M!Spec => []M!BitmapIsTheWindow
<1>1. M!Init => BitmapInv
  BY BitmapInit
<1>2. BitmapInv /\ [M!Next]_(M!vars) => BitmapInv'
  BY BitmapStep
<1>3. BitmapInv => M!BitmapIsTheWindow
  BY BitmapAnswers
<1>4. QED
  BY <1>1, <1>2, <1>3, PTL DEF M!Spec
=============================================================================
