----------------------------- MODULE FecProofs -----------------------------
(* Proofs about Fec, for every generation size, redundancy and stream length. *)
EXTENDS Fec, FiniteSetTheorems, TLAPS

\* The provers for a step that names none, in turn, with their time limits in seconds.
USE SMTT(10), ZenonT(20), SMTT(40), ZenonT(60)

-----------------------------------------------------------------------------
(* The inductive invariant *)

\* A packet that was on the wire with place idx of generation g.
Placed(p, g, idx) == p \in written /\ p.gen = g /\ p.idx = idx

\* w lists, in order, the first packets of generation g.
Codeword(w, g) == \A i \in 1..Len(w) : Placed(w[i], g, i - 1)

\* The place that sendSpeed holds is the next one of its generation, or the
\* generation is closed; nobody else has used it.  Every generation that was
\* opened took a packet.
SlotInv ==
  /\ slot.pc # "idle" =>
       /\ slot.plain \in Plain
       /\ slot.plain.gen <= genID
       /\ slot.plain.gen = genID => slot.plain.idx = Len(shards)
  /\ slot.pc = "reserved" =>
       \A p \in written : ~(p.gen = slot.plain.gen /\ p.idx = slot.plain.idx)
  /\ slot.pc = "written" => slot.plain \in written
  /\ genID + Len(shards) + (IF slot.pc = "idle" THEN 0 ELSE 1) <= gsn

\* The open generation holds the packets with its places, in order; a place at
\* or beyond its end is on the wire only if sendSpeed is about to record it.
OpenInv ==
  /\ shards \in Seq(Plain) /\ Len(shards) < K
  /\ Codeword(shards, genID)
  /\ \A p \in written :
       /\ p.gen <= genID
       /\ p.gen = genID => \/ p.idx < Len(shards)
                           \/ slot.pc = "written" /\ p = slot.plain

\* What a parity packet says about its generation.
Parity(m) ==
  /\ m.type = "fec"
  /\ m.gen \in Gen /\ m.gen < genID
  /\ m.n \in 1..K /\ m.m \in 1..m.n /\ m.idx \in m.n..m.n + m.m - 1
  /\ m.over \in Seq(Plain) /\ Len(m.over) = m.n /\ Codeword(m.over, m.gen)

\* Every packet under way is data that was written or parity of a closed
\* generation, and parity packets of one generation agree.
NetInv ==
  /\ \A m \in net : (m.type = "data" /\ m.plain \in written) \/ Parity(m)
  /\ \A m, k \in net : m.type = "fec" /\ k.type = "fec" /\ m.gen = k.gen =>
       m.over = k.over

Generation == [n : 0..K, m : 0..K, seen : BOOLEAN,
               data : [Index -> Plain \cup {None}], parity : [Index -> Seq(Plain)]]

\* The receiver's generation holds data in its place and parity of one codeword,
\* the one that parity still under way carries too.
GenInv(g) ==
  LET r == gens[g]
  IN /\ ~r.seen => r = NoGen
     /\ \A i \in Index : r.data[i] # None => Placed(r.data[i], g, i)
     /\ \A i \in Index : r.parity[i] # <<>> =>
          /\ g < genID
          /\ Len(r.parity[i]) = r.n
          /\ Codeword(r.parity[i], g)
          /\ \A j \in Index : r.parity[j] # <<>> => r.parity[j] = r.parity[i]
          /\ \A m \in net : m.type = "fec" /\ m.gen = g => m.over = r.parity[i]

IInv ==
  /\ gsn \in 0..MaxPackets /\ genID \in Gen
  /\ slot \in [pc : {"idle", "reserved", "written"}, plain : Plain \cup {None}]
  /\ written \subseteq Plain
  /\ gens \in [Gen -> Generation]
  /\ SlotInv /\ OpenInv /\ NetInv
  /\ \A g \in Gen : GenInv(g)
  /\ PlacesUnique
  /\ RecoveredAsSent

-----------------------------------------------------------------------------
(* Lemmas *)

\* RedundancyFor never asks for more parity than there is data.
LEMMA RedundancyBounded ==
  ASSUME NEW loss \in Losses, NEW n \in Nat
  PROVE  RedundancyFor(loss, n) \in 0..n
<1> DEFINE ratio == IF loss * LossScale > MaxRedundancy THEN MaxRedundancy ELSE loss * LossScale
<1>1. loss \in Nat /\ LossScale \in Nat /\ MaxRedundancy \in Nat
  BY FecAssumption
<1>2. ratio \in Nat
  BY <1>1
<1>3. ratio * n \in Nat
  BY <1>2
<1> HIDE DEF ratio
<1>4. (ratio * n + 999) \div 1000 \in Nat
  <2> DEFINE x == ratio * n
  <2>1. x \in Nat
    BY <1>3
  <2> HIDE DEF x
  <2>2. (x + 999) \div 1000 \in Nat
    BY <2>1
  <2> QED
    BY <2>2 DEF x
<1>5. RedundancyFor(loss, n) =
        IF (ratio * n + 999) \div 1000 > n THEN n ELSE (ratio * n + 999) \div 1000
  BY DEF RedundancyFor, ratio
<1> DEFINE m == (ratio * n + 999) \div 1000
<1>6. m \in Nat /\ RedundancyFor(loss, n) = IF m > n THEN n ELSE m
  BY <1>4, <1>5
<1> HIDE DEF m
<1> QED
  BY <1>6

\* What is on the wire stays on the wire.
LEMMA CodewordStays ==
  ASSUME NEW w, NEW g, written \subseteq written', Codeword(w, g)
  PROVE  Codeword(w, g)'
BY DEF Codeword, Placed

\* The invariant holds at the start.
LEMMA InitIInv == Init => IInv
<1> SUFFICES ASSUME Init PROVE IInv
  OBVIOUS
<1> USE FecAssumption
<1>1. NoGen \in Generation
  BY DEF NoGen, Generation
<1>2. gens \in [Gen -> Generation]
  BY <1>1 DEF Init
<1>3. gsn \in 0..MaxPackets /\ genID \in Gen /\ written \subseteq Plain
  BY DEF Init, Gen
<1>4. slot \in [pc : {"idle", "reserved", "written"}, plain : Plain \cup {None}]
  BY DEF Init
<1>5. SlotInv
  BY DEF Init, SlotInv
<1>6. OpenInv
  BY DEF Init, OpenInv, Codeword
<1>7. NetInv
  BY DEF Init, NetInv
<1>8. \A g \in Gen : GenInv(g)
  BY DEF Init, GenInv, NoGen
<1>9. PlacesUnique /\ RecoveredAsSent
  BY DEF Init, PlacesUnique, RecoveredAsSent
<1> QED
  BY <1>2, <1>3, <1>4, <1>5, <1>6, <1>7, <1>8, <1>9 DEF IInv

-----------------------------------------------------------------------------
(* The sender's steps *)

LEMMA TakeSlotIInv == ASSUME IInv, TakeSlot PROVE IInv'
<1> USE FecAssumption
<1> DEFINE p == [gsn |-> gsn, gen |-> genID, idx |-> Len(shards)]
<1>1. /\ slot.pc = "idle" /\ gsn < MaxPackets /\ gsn' = gsn + 1
      /\ slot' = [pc |-> "reserved", plain |-> p]
      /\ UNCHANGED <<genID, shards, net, gens, written, recovered>>
  BY DEF TakeSlot, NextSlot
<1>2. Len(shards) \in Index /\ p \in Plain
  BY <1>1 DEF IInv, OpenInv, Plain, Index, Gen
<1>3. gsn' \in 0..MaxPackets
  BY <1>1 DEF IInv
<1>4. slot' \in [pc : {"idle", "reserved", "written"}, plain : Plain \cup {None}]
  BY <1>1, <1>2
<1>5. \A q \in written : ~(q.gen = p.gen /\ q.idx = p.idx)
  <2> SUFFICES ASSUME NEW q \in written, q.gen = genID, q.idx = Len(shards) PROVE FALSE
    OBVIOUS
  <2>1. q.idx < Len(shards)
    BY <1>1 DEF IInv, OpenInv
  <2> QED
    BY <2>1, <1>2 DEF Index
<1>6. SlotInv'
  <2>1. genID + Len(shards) + 0 <= gsn
    BY <1>1 DEF IInv, SlotInv
  <2>2. genID + Len(shards) + 1 <= gsn + 1
    BY <2>1, <1>2 DEF IInv, Gen, Index
  <2> QED
    BY <1>1, <1>2, <1>5, <2>2 DEF IInv, SlotInv, Gen
<1>7. OpenInv'
  BY <1>1 DEF IInv, OpenInv, Codeword, Placed
<1>8. NetInv'
  BY <1>1 DEF IInv, NetInv, Parity, Codeword, Placed
<1>9. \A g \in Gen : GenInv(g)'
  BY <1>1 DEF IInv, GenInv, Codeword, Placed
<1>10. PlacesUnique' /\ RecoveredAsSent'
  BY <1>1 DEF IInv, PlacesUnique, RecoveredAsSent
<1> QED
  BY <1>1, <1>3, <1>4, <1>6, <1>7, <1>8, <1>9, <1>10 DEF IInv

LEMMA WriteIInv == ASSUME IInv, Write PROVE IInv'
<1> USE FecAssumption
<1>1. /\ slot.pc = "reserved"
      /\ net' = net \cup {[type |-> "data", plain |-> slot.plain]}
      /\ written' = written \cup {slot.plain}
      /\ slot' = [pc |-> "written", plain |-> slot.plain]
      /\ UNCHANGED <<gsn, genID, shards, gens, recovered>>
  BY DEF Write, IInv
<1>2. slot.plain \in Plain
  BY <1>1 DEF IInv, SlotInv
<1>3. written' \subseteq Plain /\ written \subseteq written'
  BY <1>1, <1>2 DEF IInv
<1>4. slot' \in [pc : {"idle", "reserved", "written"}, plain : Plain \cup {None}]
  BY <1>1, <1>2
<1>5. SlotInv'
  BY <1>1, <1>2 DEF IInv, SlotInv
<1>6. OpenInv'
  <2>1. Codeword(shards, genID)'
    BY <1>1 DEF IInv, OpenInv, Codeword, Placed
  <2>2. \A p \in written' :
          /\ p.gen <= genID
          /\ p.gen = genID => p.idx < Len(shards) \/ p = slot.plain
    BY <1>1, <1>2 DEF IInv, OpenInv, SlotInv
  <2> QED
    BY <1>1, <2>1, <2>2 DEF IInv, OpenInv
<1>7. NetInv'
  <2> DEFINE d == [type |-> "data", plain |-> slot.plain]
  <2>1. \A m \in net : m.type = "data" /\ m.plain \in written => m.plain \in written'
    BY <1>3
  <2>2. \A m \in net : Parity(m) => Parity(m)'
    BY <1>1, <1>3, CodewordStays DEF Parity
  <2>3. d.type = "data" /\ d.plain \in written' /\ d.type # "fec"
    BY <1>1
  <2> QED
    BY <1>1, <2>1, <2>2, <2>3 DEF IInv, NetInv
<1>8. \A g \in Gen : GenInv(g)'
  BY <1>1, <1>3, CodewordStays DEF IInv, GenInv, Placed
<1>9. PlacesUnique'
  BY <1>1 DEF IInv, PlacesUnique, SlotInv
<1>10. RecoveredAsSent'
  BY <1>1 DEF IInv, RecoveredAsSent
<1> QED
  BY <1>1, <1>3, <1>4, <1>5, <1>6, <1>7, <1>8, <1>9, <1>10 DEF IInv

LEMMA WriteFailsIInv == ASSUME IInv, WriteFails PROVE IInv'
<1> USE FecAssumption
<1>1. /\ slot.pc = "reserved" /\ slot' = [pc |-> "idle", plain |-> None]
      /\ UNCHANGED <<gsn, genID, shards, net, gens, written, recovered>>
  BY DEF WriteFails
<1>2. SlotInv'
  <2>1. genID + Len(shards) + 0 <= gsn
    BY <1>1 DEF IInv, SlotInv, OpenInv, Gen
  <2> QED
    BY <1>1, <2>1 DEF SlotInv
<1>3. OpenInv'
  BY <1>1 DEF IInv, OpenInv, Codeword, Placed
<1>4. NetInv'
  BY <1>1 DEF IInv, NetInv, Parity, Codeword, Placed
<1>5. \A g \in Gen : GenInv(g)'
  BY <1>1 DEF IInv, GenInv, Codeword, Placed
<1>6. PlacesUnique' /\ RecoveredAsSent'
  BY <1>1 DEF IInv, PlacesUnique, RecoveredAsSent
<1> QED
  BY <1>1, <1>2, <1>3, <1>4, <1>5, <1>6 DEF IInv

\* closeLocked on the packets sh of the open generation: what it leaves under way
\* and what the receiver holds stay consistent, and the new generation is empty.
LEMMA CloseLockedIInv ==
  ASSUME IInv, NEW sh \in Seq(Plain), Len(sh) \in 1..K, Codeword(sh, genID),
         CloseLocked(sh), genID < MaxPackets, UNCHANGED <<gens, written, recovered>>
  PROVE  /\ genID' = genID + 1 /\ genID' \in Gen /\ shards' = <<>>
         /\ OpenInv' /\ NetInv' /\ \A g \in Gen : GenInv(g)'
<1> USE FecAssumption
<1>1. PICK loss \in Losses : net' = net \cup EncodeParity(genID, sh, RedundancyFor(loss, Len(sh)))
  BY DEF CloseLocked
<1> DEFINE r == RedundancyFor(loss, Len(sh))
           n == Len(sh)
           new == EncodeParity(genID, sh, r)
<1>2. genID' = genID + 1 /\ shards' = <<>> /\ UNCHANGED <<gens, written>>
  BY DEF CloseLocked
<1>3. n \in 1..K /\ r \in 0..n
  BY RedundancyBounded
<1>4. genID \in Nat /\ genID' \in Gen
  BY <1>2 DEF IInv, Gen
<1>6. \A m \in new : /\ m.type = "fec" /\ m.gen = genID /\ m.over = sh
                     /\ m.n = n /\ m.m = r /\ m.idx \in n..n + r - 1 /\ r >= 1
  <2> SUFFICES ASSUME NEW m \in new
               PROVE  /\ m.type = "fec" /\ m.gen = genID /\ m.over = sh
                      /\ m.n = n /\ m.m = r /\ m.idx \in n..n + r - 1 /\ r >= 1
    OBVIOUS
  <2>1. PICK i \in 0..r-1 : m = SendFECParity(genID, n + i, n, r, sh)
    BY DEF EncodeParity
  <2>2. m = [type |-> "fec", gen |-> genID, n |-> n, m |-> r, idx |-> n + i, over |-> sh]
    BY <2>1 DEF SendFECParity
  <2>3. n + i \in n..n + r - 1 /\ r >= 1
    BY <2>1, <1>3
  <2> HIDE DEF r, n
  <2> QED
    BY <2>2, <2>3
<1> HIDE DEF r, n, new
<1>7. \A w, g : Codeword(w, g) => Codeword(w, g)'
  BY <1>2, CodewordStays
<1>8. \A m \in new : Parity(m)'
  <2> SUFFICES ASSUME NEW m \in new PROVE Parity(m)'
    OBVIOUS
  <2>1. m.gen \in Gen /\ m.gen < genID'
    BY <1>2, <1>4, <1>6 DEF Gen
  <2>3. \A i \in 1..Len(m.over) : Placed(m.over[i], m.gen, i - 1)'
    BY <1>2, <1>6 DEF Codeword, Placed
  <2>4. m.n \in 1..K /\ m.m \in 1..m.n /\ m.idx \in m.n..m.n + m.m - 1
    BY <1>3, <1>6
  <2>5. m.over \in Seq(Plain) /\ Len(m.over) = m.n
    BY <1>6 DEF n
  <2> QED
    BY <1>6, <2>1, <2>3, <2>4, <2>5 DEF Parity, Codeword
<1>9. \A m \in net : m.type = "fec" => m.gen < genID /\ Parity(m)
  BY DEF IInv, NetInv, Parity
<1>10. \A m \in net : Parity(m) => Parity(m)'
  BY <1>2, <1>4, <1>7 DEF Parity, Codeword, Placed, Gen
<1>11. NetInv'
  <2>1. \A m \in net' : (m.type = "data" /\ m.plain \in written') \/ Parity(m)'
    BY <1>1, <1>2, <1>8, <1>10 DEF IInv, NetInv, new, r
  <2>2. \A m, k \in net' : m.type = "fec" /\ k.type = "fec" /\ m.gen = k.gen => m.over = k.over
    <3> SUFFICES ASSUME NEW m \in net', NEW k \in net',
                        m.type = "fec", k.type = "fec", m.gen = k.gen
                 PROVE  m.over = k.over
      OBVIOUS
    <3>1. (m \in net \/ m \in new) /\ (k \in net \/ k \in new)
      BY <1>1 DEF new, r
    <3>2. m \in net => m.gen # genID
      BY <1>4, <1>9 DEF Parity, Gen
    <3>3. k \in net => k.gen # genID
      BY <1>4, <1>9 DEF Parity, Gen
    <3>4. CASE m \in net /\ k \in net
      BY <3>4 DEF IInv, NetInv
    <3>5. CASE m \in new /\ k \in new
      BY <3>5, <1>6
    <3> QED
      BY <3>1, <3>2, <3>3, <3>4, <3>5, <1>6
  <2> QED
    BY <2>1, <2>2 DEF NetInv
<1>12. OpenInv'
  <2>1. \A p \in written' : p.gen < genID'
    BY <1>2, <1>4 DEF IInv, OpenInv, Plain, Gen
  <2>2. \A p \in written' : p.gen <= genID' /\ p.gen # genID'
    BY <2>1, <1>2, <1>4 DEF IInv, Plain, Gen
  <2>3. Codeword(<<>>, genID)'
    BY DEF Codeword
  <2> QED
    BY <1>2, <2>2, <2>3 DEF OpenInv, Codeword
<1>13. ASSUME NEW g \in Gen PROVE GenInv(g)'
  <2>1. GenInv(g)
    BY DEF IInv
  <2>2. \A i \in Index : gens[g].parity[i] # <<>> => g < genID /\ g < genID'
    BY <2>1, <1>2, <1>4 DEF GenInv, Gen
  <2>3. \A i \in Index : gens[g].parity[i] # <<>> =>
          \A m \in net' : m.type = "fec" /\ m.gen = g => m.over = gens[g].parity[i]
    <3> SUFFICES ASSUME NEW i \in Index, gens[g].parity[i] # <<>>,
                        NEW m \in net', m.type = "fec", m.gen = g
                 PROVE  m.over = gens[g].parity[i]
      OBVIOUS
    <3>1. m \notin new
      BY <2>2, <1>4, <1>6 DEF Gen
    <3>2. m \in net
      BY <3>1, <1>1 DEF new, r
    <3> QED
      BY <3>2, <2>1 DEF GenInv
  <2> QED
    BY <1>2, <1>7, <2>1, <2>2, <2>3 DEF GenInv, Placed
<1> QED
  BY <1>2, <1>4, <1>11, <1>12, <1>13

LEMMA RecordIInv == ASSUME IInv, Record PROVE IInv'
<1> USE FecAssumption
<1> DEFINE stale == slot.plain.gen # genID \/ slot.plain.idx # Len(shards)
           sh == Append(shards, slot.plain)
<1>1. /\ slot.pc = "written" /\ slot' = [pc |-> "idle", plain |-> None]
      /\ UNCHANGED <<gsn, gens, written, recovered>>
      /\ \/ stale /\ UNCHANGED <<genID, shards, net>>
         \/ ~stale /\ Len(sh) < K /\ shards' = sh /\ UNCHANGED <<genID, net>>
         \/ ~stale /\ Len(sh) >= K /\ CloseLocked(sh)
  BY DEF Record
<1>2. /\ slot.plain \in Plain /\ slot.plain \in written /\ shards \in Seq(Plain)
      /\ Len(shards) \in Nat /\ Len(shards) < K /\ genID \in Nat /\ gsn \in Nat
      /\ genID + Len(shards) + 1 <= gsn
  BY <1>1 DEF IInv, SlotInv, OpenInv, Gen
<1>3. sh \in Seq(Plain) /\ Len(sh) = Len(shards) + 1 /\ sh[Len(shards) + 1] = slot.plain
      /\ \A i \in 1..Len(shards) : sh[i] = shards[i]
  BY <1>2
<1> HIDE DEF sh
<1>4. ~stale => Codeword(sh, genID)
  <2> SUFFICES ASSUME ~stale, NEW i \in 1..Len(sh) PROVE Placed(sh[i], genID, i - 1)
    BY DEF Codeword
  <2>1. CASE i = Len(sh)
    BY <2>1, <1>2, <1>3 DEF Placed
  <2>2. CASE i # Len(sh)
    <3>1. i \in 1..Len(shards)
      BY <2>2, <1>2, <1>3
    <3> QED
      BY <3>1, <1>3 DEF IInv, OpenInv, Codeword
  <2> QED
    BY <2>1, <2>2
<1>5. slot' \in [pc : {"idle", "reserved", "written"}, plain : Plain \cup {None}]
  BY <1>1
<1>6. PlacesUnique' /\ RecoveredAsSent'
  BY <1>1 DEF IInv, PlacesUnique, RecoveredAsSent
<1>7. slot'.pc = "idle" /\ slot'.pc # "reserved" /\ slot'.pc # "written"
  BY <1>1
<1>8. CASE stale /\ UNCHANGED <<genID, shards, net>>
  <2>1. SlotInv'
    BY <1>1, <1>2, <1>7, <1>8 DEF SlotInv
  <2>2. OpenInv'
    <3>1. \A p \in written : p.gen = genID => p.idx < Len(shards)
      BY <1>1, <1>8 DEF IInv, OpenInv, SlotInv
    <3> QED
      BY <1>1, <1>8, <3>1 DEF IInv, OpenInv, Codeword, Placed
  <2>3. NetInv'
    BY <1>1, <1>8 DEF IInv, NetInv, Parity, Codeword, Placed
  <2>4. \A g \in Gen : GenInv(g)'
    BY <1>1, <1>8 DEF IInv, GenInv, Codeword, Placed
  <2> QED
    BY <1>1, <1>5, <1>6, <1>8, <2>1, <2>2, <2>3, <2>4 DEF IInv
<1>9. CASE ~stale /\ Len(sh) < K /\ shards' = sh /\ UNCHANGED <<genID, net>>
  <2>1. SlotInv'
    BY <1>1, <1>2, <1>3, <1>7, <1>9 DEF SlotInv
  <2>2. OpenInv'
    <3>1. \A p \in written : p.gen = genID => p.idx < Len(shards) + 1
      BY <1>2, <1>9 DEF IInv, OpenInv, Plain, Index
    <3>2. Codeword(shards, genID)'
      BY <1>1, <1>4, <1>9 DEF Codeword, Placed
    <3> QED
      BY <1>1, <1>3, <1>9, <3>1, <3>2 DEF IInv, OpenInv
  <2>3. NetInv'
    BY <1>1, <1>9 DEF IInv, NetInv, Parity, Codeword, Placed
  <2>4. \A g \in Gen : GenInv(g)'
    BY <1>1, <1>9 DEF IInv, GenInv, Codeword, Placed
  <2> QED
    BY <1>1, <1>5, <1>6, <1>9, <2>1, <2>2, <2>3, <2>4 DEF IInv
<1>10. CASE ~stale /\ Len(sh) >= K /\ CloseLocked(sh)
  <2>1. Len(sh) \in 1..K /\ genID < MaxPackets
    BY <1>2, <1>3, <1>10 DEF IInv
  <2>2. /\ genID' = genID + 1 /\ genID' \in Gen /\ shards' = <<>>
        /\ OpenInv' /\ NetInv' /\ \A g \in Gen : GenInv(g)'
    BY <1>1, <1>3, <1>4, <1>10, <2>1, CloseLockedIInv
  <2>3. SlotInv'
    BY <1>1, <1>2, <1>7, <2>2 DEF SlotInv
  <2> QED
    BY <1>1, <1>5, <1>6, <2>2, <2>3 DEF IInv
<1> QED
  BY <1>1, <1>8, <1>9, <1>10

LEMMA FlushIInv == ASSUME IInv, Flush PROVE IInv'
<1> USE FecAssumption
<1>1. /\ shards # <<>> /\ CloseLocked(shards)
      /\ UNCHANGED <<gsn, slot, gens, written, recovered>>
  BY DEF Flush
<1>2. /\ shards \in Seq(Plain) /\ Len(shards) \in 1..K /\ Codeword(shards, genID)
      /\ genID \in Nat /\ gsn \in 0..MaxPackets
  BY <1>1 DEF IInv, OpenInv, Gen
<1>3. genID + Len(shards) + (IF slot.pc = "idle" THEN 0 ELSE 1) <= gsn
  BY DEF IInv, SlotInv
<1>4. genID < MaxPackets
  BY <1>2, <1>3
<1>5. /\ genID' = genID + 1 /\ genID' \in Gen /\ shards' = <<>>
      /\ OpenInv' /\ NetInv' /\ \A g \in Gen : GenInv(g)'
  BY <1>1, <1>2, <1>4, CloseLockedIInv
<1>6. SlotInv'
  <2>1. slot.pc # "idle" => slot.plain \in Plain /\ slot.plain.gen <= genID /\ slot.plain.gen \in Nat
    BY DEF IInv, SlotInv, Plain, Gen
  <2>2. slot.pc # "idle" => slot.plain.gen <= genID' /\ slot.plain.gen # genID'
    BY <2>1, <1>2, <1>5
  <2>3. genID' + 0 + (IF slot.pc = "idle" THEN 0 ELSE 1) <= gsn
    BY <1>2, <1>3, <1>5
  <2> QED
    BY <1>1, <1>5, <2>1, <2>2, <2>3 DEF IInv, SlotInv
<1>7. PlacesUnique' /\ RecoveredAsSent'
  BY <1>1 DEF IInv, PlacesUnique, RecoveredAsSent
<1> QED
  BY <1>1, <1>5, <1>6, <1>7 DEF IInv

-----------------------------------------------------------------------------
(* The receiver's steps *)

\* The sender's part of the invariant does not depend on what arrives.
LEMMA SenderUnchanged ==
  ASSUME IInv, UNCHANGED <<senderVars, written>>
  PROVE  SlotInv' /\ OpenInv' /\ PlacesUnique'
<1>1. UNCHANGED <<gsn, slot, genID, shards, written>>
  BY DEF senderVars
<1> QED
  BY <1>1 DEF IInv, SlotInv, OpenInv, PlacesUnique, Codeword, Placed

\* Nor does what is still under way, when a packet is taken out.
LEMMA NetShrinks ==
  ASSUME IInv, net' \subseteq net, UNCHANGED <<senderVars, written>>
  PROVE  NetInv'
<1>1. UNCHANGED <<genID, written>>
  BY DEF senderVars
<1>2. \A m \in net : Parity(m) => Parity(m)'
  BY <1>1 DEF Parity, Codeword, Placed
<1> QED
  BY <1>1, <1>2 DEF IInv, NetInv

\* A generation that a step leaves alone stays consistent.
LEMMA OtherGeneration ==
  ASSUME IInv, net' \subseteq net, UNCHANGED <<senderVars, written>>,
         NEW g \in Gen, gens'[g] = gens[g]
  PROVE  GenInv(g)'
<1>1. UNCHANGED <<genID, written>>
  BY DEF senderVars
<1> QED
  BY <1>1 DEF IInv, GenInv, Codeword, Placed

LEMMA HandleDataIInv == ASSUME IInv, NEW m \in net, HandleData(m) PROVE IInv'
<1> USE FecAssumption
<1> DEFINE set(old, d) == [old EXCEPT !.seen = TRUE, !.data[d.idx] = d]
<1>1. m.type = "data" /\ net' \subseteq net /\ UNCHANGED <<senderVars, written, recovered>>
  BY DEF HandleData
<1>2. PICK d : d = m.plain /\ d \in written /\ d \in Plain /\ d.gen \in Gen /\ d.idx \in Index
  BY <1>1 DEF IInv, NetInv, Parity, Plain
<1>3. PICK g \in Gen : g = d.gen
  BY <1>2
<1>4. PICK old \in Generation : old = gens[g]
  BY <1>3 DEF IInv
<1>5. PICK r : r = set(old, d)
  OBVIOUS
<1>6. /\ r \in Generation /\ r.n = old.n /\ r.m = old.m /\ r.seen = TRUE /\ r.parity = old.parity
      /\ \A i \in Index : r.data[i] = IF i = d.idx THEN d ELSE old.data[i]
  BY <1>2, <1>4, <1>5 DEF Generation
<1>7. gens' = [gens EXCEPT ![g] = r]
  BY <1>2, <1>3, <1>4, <1>5 DEF HandleData
<1>8. gens' \in [Gen -> Generation] /\ gens'[g] = r /\ \A h \in Gen \ {g} : gens'[h] = gens[h]
  BY <1>3, <1>6, <1>7 DEF IInv
<1>9. UNCHANGED <<gsn, slot, genID, shards, written>>
  BY <1>1 DEF senderVars
<1>10. GenInv(g)'
  <2>1. GenInv(g)
    BY <1>3 DEF IInv
  <2>2. \A i \in Index : r.data[i] # None => Placed(r.data[i], g, i)
    <3>1. \A i \in Index : old.data[i] # None => Placed(old.data[i], g, i)
      BY <1>4, <2>1 DEF GenInv
    <3>2. Placed(d, g, d.idx)
      BY <1>2, <1>3 DEF Placed
    <3>3. \A i \in Index : r.data[i] = IF i = d.idx THEN d ELSE old.data[i]
      BY <1>6
    <3> QED
      BY <3>1, <3>2, <3>3
  <2>3. \A i \in Index : r.parity[i] # <<>> =>
          /\ g < genID
          /\ Len(r.parity[i]) = r.n
          /\ Codeword(r.parity[i], g)
          /\ \A j \in Index : r.parity[j] # <<>> => r.parity[j] = r.parity[i]
          /\ \A k \in net : k.type = "fec" /\ k.gen = g => k.over = r.parity[i]
    <3>1. r.parity = gens[g].parity /\ r.n = gens[g].n
      BY <1>4, <1>6
    <3> QED
      BY <3>1, <2>1 DEF GenInv
  <2>4. \A w : Codeword(w, g) => Codeword(w, g)'
    BY <1>9 DEF Codeword, Placed
  <2>5. \A p, i : Placed(p, g, i) => Placed(p, g, i)'
    BY <1>9 DEF Placed
  <2> QED
    BY <1>1, <1>6, <1>8, <1>9, <2>2, <2>3, <2>4, <2>5 DEF GenInv
<1>11. \A h \in Gen : GenInv(h)'
  BY <1>1, <1>8, <1>10, OtherGeneration
<1>12. RecoveredAsSent'
  BY <1>1 DEF IInv, RecoveredAsSent
<1> QED
  BY <1>1, <1>8, <1>9, <1>11, <1>12, SenderUnchanged, NetShrinks DEF IInv

LEMMA GCIInv == ASSUME IInv, NEW g \in Gen, GC(g) PROVE IInv'
<1> USE FecAssumption
<1>1. gens' = [gens EXCEPT ![g] = NoGen] /\ UNCHANGED <<senderVars, net, written, recovered>>
  BY DEF GC
<1>2. NoGen \in Generation
  BY DEF NoGen, Generation
<1>3. gens' \in [Gen -> Generation] /\ gens'[g] = NoGen /\ \A h \in Gen \ {g} : gens'[h] = gens[h]
  BY <1>1, <1>2 DEF IInv
<1>4. GenInv(g)'
  BY <1>3 DEF GenInv, NoGen
<1>5. \A h \in Gen : GenInv(h)'
  BY <1>1, <1>3, <1>4, OtherGeneration
<1>6. RecoveredAsSent'
  BY <1>1 DEF IInv, RecoveredAsSent
<1>7. UNCHANGED <<gsn, slot, genID, shards, written>>
  BY <1>1 DEF senderVars
<1> QED
  BY <1>1, <1>3, <1>5, <1>6, <1>7, SenderUnchanged, NetShrinks DEF IInv

\* What arrived of one codeword determines it: Reconstruct returns the packets of
\* the codeword w for the places that are missing.
LEMMA ReconstructSound ==
  ASSUME IInv, NEW g, NEW w, Codeword(w, g), NEW r \in Generation, Len(w) = r.n,
         \A i \in Index : r.parity[i] # <<>> => r.parity[i] = w,
         \E i \in Index : r.parity[i] # <<>>,
         \A i \in Index : r.data[i] # None => Placed(r.data[i], g, i)
  PROVE  Reconstruct(r) = [i \in MissingData(r) |-> w[i + 1]]
<1> USE FecAssumption
<1> DEFINE words == {r.parity[i] : i \in HaveParity(r)}
<1>1. words = {w}
  BY DEF HaveParity
<1>2. Cardinality(words) = 1
  BY <1>1, FS_Singleton
<1>3. (CHOOSE x \in words : TRUE) = w
  BY <1>1
<1>4. \A i \in HaveData(r) : w[i + 1] = r.data[i]
  <2> SUFFICES ASSUME NEW i \in HaveData(r) PROVE w[i + 1] = r.data[i]
    OBVIOUS
  <2>1. i \in Index /\ i < r.n /\ r.data[i] # None
    BY DEF HaveData
  <2>2. Placed(r.data[i], g, i)
    BY <2>1
  <2>3. i + 1 \in 1..Len(w) /\ (i + 1) - 1 = i
    BY <2>1 DEF Index, Generation
  <2>4. Placed(w[i + 1], g, i)
    BY <2>3 DEF Codeword
  <2> QED
    BY <2>2, <2>4 DEF Placed, IInv, PlacesUnique
<1> DEFINE word == CHOOSE x \in words : TRUE
           sound == Cardinality(words) = 1 /\ \A i \in HaveData(r) : word[i + 1] = r.data[i]
<1>5. Reconstruct(r) = [i \in MissingData(r) |-> IF sound THEN word[i + 1] ELSE None]
  BY DEF Reconstruct
<1>6. word = w /\ sound
  BY <1>2, <1>3, <1>4
<1> HIDE DEF word, sound
<1> QED
  BY <1>5, <1>6

\* HandleFEC keeps a consistent generation consistent, recovers only what was sent
\* with that place, and recovers everything that is missing if it has enough.
LEMMA HandleFECSound ==
  ASSUME IInv, NEW m \in net, m.type = "fec"
  PROVE  LET old == gens[m.gen]
             r == HandleFEC(old, m)
         IN /\ r.gen \in Generation
            /\ ~r.gen.seen => r.gen = NoGen
            /\ \A i \in Index : r.gen.data[i] # None => Placed(r.gen.data[i], m.gen, i)
            /\ \A i \in Index : r.gen.parity[i] # <<>> =>
                 r.gen.parity[i] = m.over /\ Len(m.over) = r.gen.n
            /\ \A i \in DOMAIN r.recovered : Placed(r.recovered[i], m.gen, i)
            /\ r.gen.parity # old.parity /\ Enough(r.gen) => MissingData(r.gen) = {}
<1> USE FecAssumption
<1>1. PICK g \in Gen : g = m.gen
  BY DEF IInv, NetInv, Parity
<1>2. PICK old \in Generation : old = gens[g]
  BY <1>1 DEF IInv
<1>3. PICK w \in Seq(Plain) : w = m.over
  BY DEF IInv, NetInv, Parity
<1>4. Parity(m)
  BY DEF IInv, NetInv
<1>5. /\ m.n \in 1..K /\ m.m \in 1..m.n /\ m.idx - m.n \in Index
      /\ Len(w) = m.n /\ Codeword(w, g) /\ w # <<>>
  <2>1. /\ m.n \in 1..K /\ m.m \in 1..m.n /\ m.idx \in m.n..m.n + m.m - 1
        /\ Len(w) = m.n /\ Codeword(w, g)
    BY <1>1, <1>3, <1>4 DEF Parity
  <2>2. m.idx - m.n \in Index
    BY <2>1 DEF Index
  <2>3. w # <<>>
    BY <2>1
  <2> QED
    BY <2>1, <2>2, <2>3
<1>6. /\ \A i \in Index : old.data[i] # None => Placed(old.data[i], g, i)
      /\ \A i \in Index : old.parity[i] # <<>> => old.parity[i] = w /\ Len(w) = old.n
      /\ ~old.seen => old = NoGen
  <2>1. GenInv(g)
    BY DEF IInv
  <2>2. \A i \in Index : gens[g].data[i] # None => Placed(gens[g].data[i], g, i)
    BY <2>1 DEF GenInv
  <2>3. \A i \in Index : gens[g].parity[i] # <<>> =>
          gens[g].parity[i] = w /\ Len(gens[g].parity[i]) = gens[g].n
    BY <2>1, <1>1, <1>3 DEF GenInv
  <2>4. ~gens[g].seen => gens[g] = NoGen
    BY <2>1 DEF GenInv
  <2> QED
    BY <1>2, <2>2, <2>3, <2>4
<1>7. PICK a \in Index : a = m.idx - m.n
  BY <1>5
<1> DEFINE fits == old.n = 0 \/ (old.n = m.n /\ old.m = m.m)
           kept == [old EXCEPT !.seen = TRUE, !.n = m.n, !.m = m.m, !.parity[a] = w]
<1>8. PICK k : k = kept
  OBVIOUS
<1>9. /\ k \in Generation /\ k.n = m.n /\ k.m = m.m /\ k.seen = TRUE /\ k.data = old.data
      /\ \A i \in Index : k.parity[i] = IF i = a THEN w ELSE old.parity[i]
  <2>1. m.n \in 0..K /\ m.m \in 0..K
    BY <1>5
  <2> QED
    BY <1>2, <1>3, <1>7, <1>8, <2>1 DEF Generation
<1> DEFINE attempt == fits /\ Cardinality(HaveData(k)) < k.n /\ Enough(k)
           got == IF attempt THEN Reconstruct(k) ELSE <<>>
           data == [i \in Index |-> IF attempt /\ i \in DOMAIN got THEN got[i] ELSE k.data[i]]
<1>10. HandleFEC(old, m) = [gen |-> IF fits THEN [k EXCEPT !.data = data] ELSE old,
                            recovered |-> got]
  BY <1>3, <1>7, <1>8 DEF HandleFEC
<1>11. Reconstruct(k) = [i \in MissingData(k) |-> w[i + 1]]
  <2>1. \A i \in Index : k.parity[i] # <<>> => k.parity[i] = w
    BY <1>6, <1>9
  <2>2. k.parity[a] # <<>>
    BY <1>5, <1>7, <1>9
  <2>3. \A i \in Index : k.data[i] # None => Placed(k.data[i], g, i)
    BY <1>6, <1>9
  <2>4. Len(w) = k.n
    BY <1>5, <1>9
  <2> QED
    BY <1>5, <1>9, <2>1, <2>2, <2>3, <2>4, ReconstructSound
<1>12. MissingData(k) \subseteq Index /\ \A i \in MissingData(k) : Placed(w[i + 1], g, i)
  <2> SUFFICES ASSUME NEW i \in MissingData(k) PROVE i \in Index /\ Placed(w[i + 1], g, i)
    OBVIOUS
  <2>1. i \in 0..m.n - 1
    BY <1>9 DEF MissingData
  <2>2. i \in Index /\ i + 1 \in 1..Len(w) /\ (i + 1) - 1 = i
    BY <2>1, <1>5 DEF Index
  <2> QED
    BY <2>2, <1>5 DEF Codeword
<1>13. /\ DOMAIN got = IF attempt THEN MissingData(k) ELSE {}
       /\ \A i \in DOMAIN got : got[i] = w[i + 1] /\ Placed(got[i], g, i)
  <2>1. CASE attempt
    BY <2>1, <1>11, <1>12
  <2>2. CASE ~attempt
    BY <2>2
  <2> QED
    BY <2>1, <2>2
<1> HIDE DEF got
<1>14. PICK d : d = data
  OBVIOUS
<1>15. /\ d \in [Index -> Plain \cup {None}]
       /\ \A i \in Index : d[i] # None => Placed(d[i], g, i)
       /\ attempt => \A i \in MissingData(k) : d[i] = w[i + 1]
       /\ ~attempt => d = k.data
  <2>1. \A i \in Index : d[i] = IF attempt /\ i \in DOMAIN got THEN got[i] ELSE k.data[i]
    BY <1>14
  <2>2. \A i \in Index : d[i] # None => Placed(d[i], g, i)
    BY <2>1, <1>6, <1>9, <1>13
  <2>3. \A i \in Index : d[i] \in Plain \cup {None}
    BY <2>2 DEF Placed, IInv
  <2>4. attempt => \A i \in MissingData(k) : d[i] = w[i + 1]
    BY <2>1, <1>12, <1>13
  <2>5. ~attempt => d = k.data
    BY <1>14, <1>9 DEF Generation
  <2> QED
    BY <1>14, <2>2, <2>3, <2>4, <2>5
<1> DEFINE r == HandleFEC(old, m)
<1>16. r.gen = (IF fits THEN [k EXCEPT !.data = d] ELSE old) /\ r.recovered = got
  BY <1>10, <1>14
<1> HIDE DEF data, kept, r
<1>17. \A i \in DOMAIN r.recovered : Placed(r.recovered[i], g, i)
  BY <1>13, <1>16
<1>18. CASE ~fits
  BY <1>6, <1>16, <1>18, <1>3, <1>17, <1>1, <1>2 DEF r
<1>19. CASE fits
  <2>1. PICK x : x = r.gen
    OBVIOUS
  <2>2. /\ x \in Generation /\ x.n = k.n /\ x.m = k.m /\ x.seen = TRUE /\ x.parity = k.parity /\ x.data = d
    BY <1>9, <1>15, <1>16, <1>19, <2>1 DEF Generation
  <2>3. \A i \in Index : x.parity[i] # <<>> => x.parity[i] = w /\ Len(w) = x.n
    BY <1>5, <1>6, <1>9, <2>2
  <2>4. ASSUME Enough(x) PROVE MissingData(x) = {}
    <3>1. CASE attempt
      <4> SUFFICES ASSUME NEW i \in MissingData(x) PROVE FALSE
        OBVIOUS
      <4>1. i \in 0..k.n - 1 /\ d[i] = None
        BY <2>2 DEF MissingData
      <4>2. i \in Index
        BY <4>1, <1>5, <1>9 DEF Index
      <4>3. CASE i \in MissingData(k)
        <5>1. Placed(None, g, i)
          BY <4>1, <4>3, <3>1, <1>12, <1>15
        <5>2. None \in Plain
          BY <5>1 DEF Placed, IInv
        <5> QED
          BY <5>2 DEF None, Plain
      <4>4. CASE i \notin MissingData(k)
        <5>1. i \notin DOMAIN got
          BY <4>4, <3>1, <1>13
        <5>2. d[i] = k.data[i]
          BY <5>1, <4>2, <1>14 DEF data
        <5> QED
          BY <5>2, <4>1, <4>4 DEF MissingData
      <4> QED
        BY <4>3, <4>4
    <3>2. CASE ~attempt
      <4>1. HaveData(x) = HaveData(k) /\ HaveParity(x) = HaveParity(k) /\ MissingData(x) = MissingData(k)
            /\ Enough(x) = Enough(k)
        BY <3>2, <1>15, <2>2 DEF HaveData, HaveParity, MissingData, Enough
      <4>2. ~(Cardinality(HaveData(k)) < k.n)
        BY <4>1, <3>2, <2>4, <1>19
      <4>3. HaveData(k) \subseteq 0..k.n - 1 /\ IsFiniteSet(0..k.n - 1) /\ Cardinality(0..k.n - 1) = k.n
        <5>1. k.n \in Nat \ {0} /\ k.n - 1 \in Int
          BY <1>5, <1>9
        <5>2. IsFiniteSet(0..k.n - 1) /\ Cardinality(0..k.n - 1) = IF 0 > k.n - 1 THEN 0 ELSE k.n - 1 - 0 + 1
          <6>1. PICK e \in Int : e = k.n - 1
            BY <5>1
          <6>2. IsFiniteSet(0..e) /\ Cardinality(0..e) = IF 0 > e THEN 0 ELSE e - 0 + 1
            BY FS_Interval
          <6> QED
            BY <6>1, <6>2
        <5>3. HaveData(k) \subseteq 0..k.n - 1
          BY <5>1 DEF HaveData, Index
        <5> QED
          BY <5>1, <5>2, <5>3
      <4>4. IsFiniteSet(HaveData(k)) /\ Cardinality(HaveData(k)) \in Nat
        BY <4>3, FS_Subset, FS_CardinalityType
      <4>5. HaveData(k) = 0..k.n - 1
        BY <4>2, <4>3, <4>4, <1>5, <1>9, FS_Subset
      <4> QED
        BY <4>1, <4>5 DEF HaveData, MissingData
    <3> QED
      BY <3>1, <3>2
  <2> QED
    BY <1>1, <1>2, <1>3, <1>15, <1>17, <2>1, <2>2, <2>3, <2>4 DEF r
<1> QED
  BY <1>18, <1>19

LEMMA ReceiveFECIInv == ASSUME IInv, NEW m \in net, ReceiveFEC(m) PROVE IInv'
<1> USE FecAssumption
<1>1. m.type = "fec" /\ net' \subseteq net /\ UNCHANGED <<senderVars, written>>
  BY DEF ReceiveFEC
<1>2. PICK g \in Gen : g = m.gen
  BY <1>1 DEF IInv, NetInv, Parity
<1>3. PICK r : r = HandleFEC(gens[g], m)
  OBVIOUS
<1>4. /\ gens' = [gens EXCEPT ![g] = r.gen]
      /\ recovered' = recovered \cup {[gen |-> g, idx |-> i, plain |-> r.recovered[i]] :
                                        i \in DOMAIN r.recovered}
  BY <1>2, <1>3 DEF ReceiveFEC
<1>5. /\ r.gen \in Generation
      /\ ~r.gen.seen => r.gen = NoGen
      /\ \A i \in Index : r.gen.data[i] # None => Placed(r.gen.data[i], g, i)
      /\ \A i \in Index : r.gen.parity[i] # <<>> =>
           r.gen.parity[i] = m.over /\ Len(m.over) = r.gen.n
      /\ \A i \in DOMAIN r.recovered : Placed(r.recovered[i], g, i)
  BY <1>1, <1>2, <1>3, HandleFECSound
<1>6. gens' \in [Gen -> Generation] /\ gens'[g] = r.gen /\ \A h \in Gen \ {g} : gens'[h] = gens[h]
  BY <1>4, <1>5 DEF IInv
<1>7. UNCHANGED <<gsn, slot, genID, shards, written>>
  BY <1>1 DEF senderVars
<1>8. GenInv(g)'
  <2>1. g < genID /\ Codeword(m.over, g)
    BY <1>1, <1>2 DEF IInv, NetInv, Parity
  <2>2. Codeword(m.over, g)'
    BY <2>1, <1>7 DEF Codeword, Placed
  <2>3. \A p, i : Placed(p, g, i) => Placed(p, g, i)'
    BY <1>7 DEF Placed
  <2>4. \A k \in net' : k.type = "fec" /\ k.gen = g => k.over = m.over
    BY <1>1, <1>2 DEF IInv, NetInv
  <2> QED
    BY <1>5, <1>6, <1>7, <2>1, <2>2, <2>3, <2>4 DEF GenInv
<1>9. \A h \in Gen : GenInv(h)'
  BY <1>1, <1>6, <1>8, OtherGeneration
<1>10. RecoveredAsSent'
  <2>1. \A x \in recovered' : x \in recovered \/
          \E i \in DOMAIN r.recovered : x = [gen |-> g, idx |-> i, plain |-> r.recovered[i]]
    BY <1>4
  <2> QED
    BY <2>1, <1>5, <1>7 DEF IInv, RecoveredAsSent, Placed
<1> QED
  BY <1>1, <1>6, <1>7, <1>9, <1>10, SenderUnchanged, NetShrinks DEF IInv

-----------------------------------------------------------------------------
(* Theorems *)

\* The invariant holds in every reachable state.
THEOREM InvariantHolds == Spec => []IInv
<1>1. ASSUME IInv, [Next]_vars PROVE IInv'
  <2>1. CASE TakeSlot
    BY <1>1, <2>1, TakeSlotIInv
  <2>2. CASE Write
    BY <1>1, <2>2, WriteIInv
  <2>3. CASE WriteFails
    BY <1>1, <2>3, WriteFailsIInv
  <2>4. CASE Record
    BY <1>1, <2>4, RecordIInv
  <2>5. CASE Flush
    BY <1>1, <2>5, FlushIInv
  <2>6. ASSUME NEW g \in Gen, GC(g) PROVE IInv'
    BY <1>1, <2>6, GCIInv
  <2>7. ASSUME NEW m \in net, HandleData(m) PROVE IInv'
    BY <1>1, <2>7, HandleDataIInv
  <2>8. ASSUME NEW m \in net, ReceiveFEC(m) PROVE IInv'
    BY <1>1, <2>8, ReceiveFECIInv
  <2>9. CASE UNCHANGED vars
    <3>1. UNCHANGED <<gsn, slot, genID, shards, net, gens, written, recovered>>
      BY <2>9 DEF vars, senderVars
    <3>2. UNCHANGED <<senderVars, written>>
      BY <3>1 DEF senderVars
    <3>3. \A g \in Gen : GenInv(g)'
      BY <1>1, <3>1, <3>2, OtherGeneration
    <3>4. RecoveredAsSent'
      BY <1>1, <3>1 DEF IInv, RecoveredAsSent
    <3> QED
      BY <1>1, <3>1, <3>2, <3>3, <3>4, SenderUnchanged, NetShrinks DEF IInv
  <2> QED
    BY <1>1, <2>1, <2>2, <2>3, <2>4, <2>5, <2>6, <2>7, <2>8, <2>9
    DEF Next, SendSpeed, FecMaintenanceLoop
<1> QED
  BY InitIInv, <1>1, PTL DEF Spec

\* No two packets on the wire ever claim the same place of a generation.
THEOREM PlacesAreUnique == Spec => []PlacesUnique
BY InvariantHolds, PTL DEF IInv

\* What HandleFEC reconstructs for a place is what the sender wrote with it.
THEOREM RecoveredPacketsAreTheSent == Spec => []RecoveredAsSent
BY InvariantHolds, PTL DEF IInv

\* Parity is emitted only when every packet it covers is on the wire.
THEOREM ParityFollowsData == Spec => []ParityAfterData
<1>1. IInv => ParityAfterData
  BY DEF IInv, NetInv, Parity, Codeword, Placed, ParityAfterData
<1> QED
  BY <1>1, InvariantHolds, PTL

\* A parity packet that completes a generation leaves nothing of it missing.
THEOREM ParityRecoversHolds == Spec => ParityRecovers
<1> DEFINE Step == \A g \in Gen : gens'[g].parity # gens[g].parity /\ Enough(gens'[g])
                                    => MissingData(gens'[g]) = {}
<1>1. ASSUME IInv, [Next]_vars PROVE Step
  <2>1. CASE gens' = gens
    BY <2>1
  <2>2. ASSUME NEW m \in net, HandleData(m) PROVE Step
    <3> SUFFICES ASSUME NEW g \in Gen PROVE gens'[g].parity = gens[g].parity
      OBVIOUS
    <3>1. gens[g] \in Generation
      BY <1>1 DEF IInv
    <3>2. gens' = [gens EXCEPT ![m.plain.gen].seen = TRUE,
                               ![m.plain.gen].data[m.plain.idx] = m.plain]
      BY <2>2 DEF HandleData
    <3> QED
      BY <1>1, <3>1, <3>2 DEF IInv, Generation
  <2>3. ASSUME NEW m \in net, ReceiveFEC(m) PROVE Step
    <3> SUFFICES ASSUME NEW g \in Gen, gens'[g].parity # gens[g].parity, Enough(gens'[g])
                 PROVE  MissingData(gens'[g]) = {}
      OBVIOUS
    <3>1. m.type = "fec" /\ gens' = [gens EXCEPT ![m.gen] = HandleFEC(gens[m.gen], m).gen]
      BY <2>3 DEF ReceiveFEC
    <3>2. g = m.gen /\ gens'[g] = HandleFEC(gens[m.gen], m).gen
      BY <1>1, <3>1 DEF IInv
    <3>3. HandleFEC(gens[m.gen], m).gen.parity # gens[m.gen].parity
            /\ Enough(HandleFEC(gens[m.gen], m).gen)
            => MissingData(HandleFEC(gens[m.gen], m).gen) = {}
      BY <1>1, <3>1, HandleFECSound
    <3> QED
      BY <3>2, <3>3
  <2>4. ASSUME NEW h \in Gen, GC(h) PROVE Step
    <3> SUFFICES ASSUME NEW g \in Gen, gens'[g].parity # gens[g].parity
                 PROVE  MissingData(gens'[g]) = {}
      OBVIOUS
    <3>1. gens' = [gens EXCEPT ![h] = NoGen]
      BY <2>4 DEF GC
    <3>2. gens'[g] = NoGen
      BY <1>1, <3>1 DEF IInv
    <3>3. MissingData(NoGen) = {}
      BY DEF MissingData, NoGen
    <3> QED
      BY <3>2, <3>3
  <2> QED
    BY <1>1, <2>1, <2>2, <2>3, <2>4 DEF Next, SendSpeed, FecMaintenanceLoop, vars,
       TakeSlot, Write, WriteFails, Record, Flush
<1> QED
  BY InvariantHolds, <1>1, PTL DEF Spec, ParityRecovers

\* The state of sender and receiver stays well typed; in particular a generation
\* number is never beyond the number of packets and a generation never reaches K.
THEOREM TypeCorrect == Spec => []TypeOK
<1>1. ASSUME IInv PROVE TypeOK
  <2>1. Len(shards) < K /\ \A i \in 1..Len(shards) : shards[i] \in Plain
    BY <1>1 DEF IInv, OpenInv
  <2>2. \A m \in net :
          \/ m.type = "data" /\ m.plain \in Plain
          \/ /\ m.type = "fec" /\ m.gen \in Gen /\ m.n \in 1..K /\ m.m \in 1..m.n
             /\ m.idx \in m.n..m.n + m.m - 1 /\ Len(m.over) = m.n
    BY <1>1 DEF IInv, NetInv, Parity
  <2>3. \A g \in Gen :
          /\ gens[g].n \in 0..K /\ gens[g].m \in 0..K
          /\ gens[g].data \in [Index -> Plain \cup {None}]
          /\ ~gens[g].seen => gens[g] = NoGen
    BY <1>1 DEF IInv, GenInv, Generation
  <2> QED
    BY <1>1, <2>1, <2>2, <2>3 DEF IInv, TypeOK
<1> QED
  BY <1>1, InvariantHolds, PTL
=============================================================================
