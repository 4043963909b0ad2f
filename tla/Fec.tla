-------------------------------- MODULE Fec --------------------------------
(***************************************************************************)
(* Forward error correction of one direction, from the client's sendSpeed  *)
(* (core/bond/client.go) through fecSender and fecGenBuffer                *)
(* (core/bond/fec.go) to the relay's handleFEC (core/bond/relay.go).       *)
(*                                                                         *)
(* The sender has two goroutines: tunToNet, which sends packet after       *)
(* packet, and fecMaintenanceLoop, which may Flush between the slot, the   *)
(* write and the Record of a packet.  The network loses, delays and        *)
(* reorders; the replay window lets no packet in twice.  A payload is      *)
(* known by its GSN, so the inner plaintext that FEC protects is the       *)
(* header [gsn, gen, idx].                                                 *)
(***************************************************************************)
EXTENDS Integers, Sequences, FiniteSets

CONSTANTS
  K,              \* fec.K: data shards of a full generation
  MaxRedundancy,  \* fec.MaxRedundancy, in permille
  LossScale,      \* fec.LossScale
  Losses,         \* the loss estimates that occur, in permille
  MaxPackets      \* bound: packets the tunnel sends

ASSUME FecAssumption ==
  /\ K \in Nat \ {0} /\ MaxRedundancy \in Nat /\ LossScale \in Nat
  /\ Losses \subseteq Nat /\ Losses # {} /\ MaxPackets \in Nat

Gen == 0..MaxPackets    \* generation numbers; every closed one holds a packet
Index == 0..K-1
Plain == [gsn : 0..MaxPackets-1, gen : Gen, idx : Index]

VARIABLES
  gsn,        \* sendGSN
  slot,       \* the packet that sendSpeed is sending, with its place
  genID, shards,   \* fecSender: the open generation
  net,        \* DATA and FEC packets under way; a lost one stays unread
  gens,       \* fecGenBuffer.gens
  written,    \* packets that were on the wire (history)
  recovered   \* what reconstruction returned (history)

senderVars == <<gsn, slot, genID, shards>>
vars == <<senderVars, net, gens, written, recovered>>

None == [gsn |-> -1, gen |-> -1, idx |-> -1]   \* no packet; also what a
                                               \* reconstruction gone wrong yields
NoGen == [n |-> 0, m |-> 0, seen |-> FALSE,
          data |-> [i \in Index |-> None], parity |-> [i \in Index |-> <<>>]]

TypeOK ==
  /\ gsn \in 0..MaxPackets
  /\ slot \in [pc : {"idle", "reserved", "written"}, plain : Plain \cup {None}]
  /\ genID \in Gen
  /\ Len(shards) < K /\ \A i \in 1..Len(shards) : shards[i] \in Plain
  /\ \A m \in net :
       \/ m.type = "data" /\ m.plain \in Plain
       \/ /\ m.type = "fec" /\ m.gen \in Gen /\ m.n \in 1..K /\ m.m \in 1..m.n
          /\ m.idx \in m.n..m.n + m.m - 1 /\ Len(m.over) = m.n
  /\ \A g \in Gen :
       /\ gens[g].n \in 0..K /\ gens[g].m \in 0..K
       /\ gens[g].data \in [Index -> Plain \cup {None}]
       /\ ~gens[g].seen => gens[g] = NoGen
  /\ written \subseteq Plain

Init ==
  /\ gsn = 0 /\ slot = [pc |-> "idle", plain |-> None]
  /\ genID = 0 /\ shards = <<>>
  /\ net = {} /\ gens = [g \in Gen |-> NoGen]
  /\ written = {} /\ recovered = {}

-----------------------------------------------------------------------------
(* The sender *)

\* NextSlot: the next place of the open generation.
NextSlot == [gen |-> genID, idx |-> Len(shards)]

\* sendSpeed, once a path is chosen: a GSN and a place are taken for the header.
TakeSlot ==
  /\ slot.pc = "idle" /\ gsn < MaxPackets
  /\ gsn' = gsn + 1
  /\ slot' = [pc |-> "reserved", plain |-> [gsn |-> gsn, gen |-> NextSlot.gen, idx |-> NextSlot.idx]]
  /\ UNCHANGED <<genID, shards, net, gens, written, recovered>>

\* The packet is sealed and written to its path's socket.
Write ==
  /\ slot.pc = "reserved"
  /\ net' = net \cup {[type |-> "data", plain |-> slot.plain]}
  /\ written' = written \cup {slot.plain}
  /\ slot' = [slot EXCEPT !.pc = "written"]
  /\ UNCHANGED <<gsn, genID, shards, gens, recovered>>

\* Sealing or the write fails: sendSpeed returns and records nothing.
WriteFails ==
  /\ slot.pc = "reserved"
  /\ slot' = [pc |-> "idle", plain |-> None]
  /\ UNCHANGED <<gsn, genID, shards, net, gens, written, recovered>>

\* ceil(ratio * n) with ratio = min(loss * LossScale, MaxRedundancy), at most n.
RedundancyFor(loss, n) ==
  LET ratio == IF loss * LossScale > MaxRedundancy THEN MaxRedundancy ELSE loss * LossScale
      m == (ratio * n + 999) \div 1000
  IN IF m > n THEN n ELSE m

\* sendFECParity: a parity shard with its geometry.  One for which there is no
\* path, or whose write fails, is like one that is lost.
SendFECParity(g, genIndex, n, m, shard) ==
  [type |-> "fec", gen |-> g, n |-> n, m |-> m, idx |-> genIndex, over |-> shard]

\* The parity for a closed generation: a function of all the packets it covers.
EncodeParity(g, sh, m) == {SendFECParity(g, Len(sh) + i, Len(sh), m, sh) : i \in 0..m-1}

\* Mutant: the generation number is not advanced.
CloseLockedSameID(sh) ==
  /\ \E loss \in Losses :
       net' = net \cup EncodeParity(genID, sh, RedundancyFor(loss, Len(sh)))
  /\ genID' = genID
  /\ shards' = <<>>

\* closeLocked: parity for the generation, sent one by one, and a new, empty
\* generation.
CloseLocked(sh) ==
  /\ \E loss \in Losses :
       net' = net \cup EncodeParity(genID, sh, RedundancyFor(loss, Len(sh)))
  /\ genID' = genID + 1
  /\ shards' = <<>>

\* Mutant: a full generation takes one more shard before it is closed.
RecordPastK ==
  /\ slot.pc = "written"
  /\ slot' = [pc |-> "idle", plain |-> None]
  /\ LET stale == slot.plain.gen # genID \/ slot.plain.idx # Len(shards)
         sh == Append(shards, slot.plain)
     IN \/ stale /\ UNCHANGED <<genID, shards, net>>
        \/ ~stale /\ Len(sh) <= K /\ shards' = sh /\ UNCHANGED <<genID, net>>
        \/ ~stale /\ Len(sh) > K /\ CloseLocked(sh)
  /\ UNCHANGED <<gsn, gens, written, recovered>>

\* Mutant: the packet is recorded before it is on the wire.
RecordEarly ==
  /\ slot.pc \in {"reserved", "written"}
  /\ slot' = IF slot.pc = "written" THEN [pc |-> "idle", plain |-> None] ELSE slot
  /\ LET stale == slot.plain.gen # genID \/ slot.plain.idx # Len(shards)
         sh == Append(shards, slot.plain)
     IN \/ stale /\ UNCHANGED <<genID, shards, net>>
        \/ ~stale /\ Len(sh) < K /\ shards' = sh /\ UNCHANGED <<genID, net>>
        \/ ~stale /\ Len(sh) >= K /\ CloseLocked(sh)
  /\ UNCHANGED <<gsn, gens, written, recovered>>

\* Record after the write: a place that Flush has closed meanwhile is dropped;
\* the K-th shard closes the generation.
Record ==
  /\ slot.pc = "written"
  /\ slot' = [pc |-> "idle", plain |-> None]
  /\ LET stale == slot.plain.gen # genID \/ slot.plain.idx # Len(shards)
         sh == Append(shards, slot.plain)
     IN \/ stale /\ UNCHANGED <<genID, shards, net>>
        \/ ~stale /\ Len(sh) < K /\ shards' = sh /\ UNCHANGED <<genID, net>>
        \/ ~stale /\ Len(sh) >= K /\ CloseLocked(sh)
  /\ UNCHANGED <<gsn, gens, written, recovered>>

\* Mutant: only full generations are closed.
FlushFullOnly ==
  /\ Len(shards) >= K
  /\ CloseLocked(shards)
  /\ UNCHANGED <<gsn, slot, gens, written, recovered>>

\* A tick of fecMaintenanceLoop finds the open generation non-empty and older
\* than FECGenTimeout.
Flush ==
  /\ shards # <<>>
  /\ CloseLocked(shards)
  /\ UNCHANGED <<gsn, slot, gens, written, recovered>>

-----------------------------------------------------------------------------
(* The receiver.  Every operation of fecGenBuffer runs under its mutex. *)

\* handleData with FlagFECProtected: the plaintext is kept for its siblings.
HandleData(m) ==
  /\ m.type = "data"
  /\ net' = net \ {m}
  /\ gens' = [gens EXCEPT ![m.plain.gen].seen = TRUE,
                          ![m.plain.gen].data[m.plain.idx] = m.plain]
  /\ UNCHANGED <<senderVars, written, recovered>>

\* Mutant: data beyond the end of the generation counts as present.
HaveDataAll(g) == {i \in Index : g.data[i] # None}

\* The data shards that belong to the generation and have arrived.
HaveData(g) == {i \in Index : i < g.n /\ g.data[i] # None}
HaveParity(g) == {i \in Index : g.parity[i] # <<>>}
MissingData(g) == {i \in 0..g.n - 1 : g.data[i] = None}
Enough(g) == Cardinality(HaveData(g)) + Cardinality(HaveParity(g)) >= g.n

\* fec.Reconstruct, with Reed-Solomon as a maximum distance separable code: any
\* n shards of one codeword determine it; shards of different codewords yield
\* something else.
Reconstruct(g) ==
  LET words == {g.parity[i] : i \in HaveParity(g)}
      word == CHOOSE w \in words : TRUE
      sound == /\ Cardinality(words) = 1
               /\ \A i \in HaveData(g) : word[i + 1] = g.data[i]
  IN [i \in MissingData(g) |-> IF sound THEN word[i + 1] ELSE None]

\* fecGenBuffer.HandleFEC: the parity shard is kept unless its geometry differs from
\* the generation's, and the missing data is reconstructed if it can be.
HandleFEC(old, m) ==
  LET fits == old.n = 0 \/ (old.n = m.n /\ old.m = m.m)
      g == [old EXCEPT !.seen = TRUE, !.n = m.n, !.m = m.m,
                       !.parity[m.idx - m.n] = m.over]
      attempt == fits /\ Cardinality(HaveData(g)) < g.n /\ Enough(g)
      got == IF attempt THEN Reconstruct(g) ELSE <<>>
      data == [i \in Index |-> IF attempt /\ i \in DOMAIN got THEN got[i] ELSE g.data[i]]
  IN [gen |-> IF fits THEN [g EXCEPT !.data = data] ELSE old, recovered |-> got]

\* Relay.handleFEC: a parity packet arrives, and what it recovers is passed on.
ReceiveFEC(m) ==
  /\ m.type = "fec"
  /\ net' = net \ {m}
  /\ LET r == HandleFEC(gens[m.gen], m)
     IN /\ gens' = [gens EXCEPT ![m.gen] = r.gen]
        /\ recovered' = recovered \cup {[gen |-> m.gen, idx |-> i, plain |-> r.recovered[i]] :
                                          i \in DOMAIN r.recovered}
  /\ UNCHANGED <<senderVars, written>>

\* GC finds that the generation's first shard arrived longer ago than maxAge.
GC(g) ==
  /\ gens[g].seen
  /\ gens' = [gens EXCEPT ![g] = NoGen]
  /\ UNCHANGED <<senderVars, net, written, recovered>>

-----------------------------------------------------------------------------
SendSpeed == TakeSlot \/ Write \/ WriteFails \/ Record

\* The sender's and the receiver's maintenance loop: both do both.
FecMaintenanceLoop == Flush \/ \E g \in Gen : GC(g)

Next ==
  \/ SendSpeed
  \/ FecMaintenanceLoop
  \/ \E m \in net : HandleData(m)
  \/ \E m \in net : ReceiveFEC(m)

Spec == Init /\ [][Next]_vars

\* fecMaintenanceLoop's ticker goes off; that packets are sent or arrive is not
\* assumed.
FairSpec == Spec /\ WF_vars(Flush)

-----------------------------------------------------------------------------
(* Properties *)

\* A packet that reconstruction returns for a place in a generation is the one
\* that the sender put on the wire with that place in its header, however Flush,
\* failed writes, late packets and GC interleave.
RecoveredAsSent ==
  \A r \in recovered : /\ r.plain \in written
                       /\ r.plain.gen = r.gen /\ r.plain.idx = r.idx

\* No two packets on the wire claim the same place of a generation, although a
\* failed write and a Flush during a send both abandon a reserved place.
PlacesUnique ==
  \A p, q \in written : p.gen = q.gen /\ p.idx = q.idx => p = q

\* Parity never overtakes its own generation at the sender: when sendSpeed or
\* Flush emits it, every packet it covers is already on the wire.
ParityAfterData ==
  \A m \in net : m.type = "fec" => \A i \in 1..m.n : m.over[i] \in written

\* HandleFEC leaves nothing missing once n shards are there, also when data with
\* a place beyond the end of the generation (one that Flush cut short) has
\* arrived.
ParityRecovers ==
  [][\A g \in Gen : gens'[g].parity # gens[g].parity /\ Enough(gens'[g])
       => MissingData(gens'[g]) = {}]_vars

\* A partial generation does not stay open on a quiet tunnel: fecMaintenanceLoop
\* closes it, so that again and again nothing waits for its parity.
GenerationCloses == []<>(shards = <<>>)
=============================================================================
