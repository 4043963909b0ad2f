---------------------------- MODULE CryptoSession ----------------------------
(***************************************************************************)
(* One direction of a session of core/crypto/session.go: goroutines that   *)
(* Seal packets on several paths at once, a network that loses, delays,    *)
(* repeats and damages packets, and one reader per path that Opens them.   *)
(*                                                                         *)
(* A nonce is the pair of path and counter that buildNonce lays out.  The  *)
(* map sendCtrs holds a pointer to a counter; a counter cell is named by   *)
(* the goroutine that allocated it, and a pointer is read under the mutex  *)
(* but incremented after the unlock.  Open takes the window's mutex twice, *)
(* in CheckOnly before the AEAD is verified and in MarkSeen after it.      *)
(***************************************************************************)
EXTENDS ReplayWindow

CONSTANTS
  Paths, Threads,
  NoCell,     \* a missing entry of sendCtrs
  MaxCtr      \* bound: counters run from 0 to MaxCtr

ASSUME SessionAssumption == NoCell \notin Threads /\ MaxCtr \in Nat

Ctr == 0..MaxCtr

VARIABLES
  sendCtrs,   \* the cell of every path, or NoCell
  cells,      \* the value of every cell
  sender,     \* [pc, path, cell] of every goroutine in Seal
  sealed,     \* history: how many packets were sealed under a nonce
  recvWins,   \* the replay window of every path
  reader,     \* [pc, ctr, intact] of the reader of every path
  accepted    \* history: how often Open returned a packet of a nonce

sendVars == <<sendCtrs, cells, sender, sealed>>
recvVars == <<recvWins, reader, accepted>>
vars == <<sendCtrs, cells, sender, sealed, recvWins, reader, accepted>>

Windows == [inited : BOOLEAN, max : Ctr, seen : SUBSET Offsets]

TypeOK ==
  /\ sendCtrs \in [Paths -> Threads \cup {NoCell}]
  /\ cells \in [Paths -> [Threads -> 0..(MaxCtr + 1)]]
  /\ sender \in [Threads -> [pc : {"idle", "add"}, path : Paths, cell : Threads \cup {NoCell}]]
  /\ sealed \in [Paths -> [Ctr -> Nat]]
  /\ recvWins \in [Paths -> Windows]
  /\ reader \in [Paths -> [pc : {"idle", "verify"}, ctr : Ctr, intact : BOOLEAN]]
  /\ accepted \in [Paths -> [Ctr -> Nat]]

Init ==
  /\ sendCtrs = [p \in Paths |-> NoCell]
  /\ cells = [p \in Paths |-> [t \in Threads |-> 0]]
  /\ sender \in [Threads -> [pc : {"idle"}, path : Paths, cell : {NoCell}]]
  /\ sealed = [p \in Paths |-> [c \in Ctr |-> 0]]
  /\ recvWins = [p \in Paths |-> NewWindow]
  /\ reader = [p \in Paths |-> [pc |-> "idle", ctr |-> 0, intact |-> FALSE]]
  /\ accepted = [p \in Paths |-> [c \in Ctr |-> 0]]

-----------------------------------------------------------------------------
\* Mutant: a caller does not find the entry another one has made.
LookupCounterMisses(t, p) ==
  /\ sender[t].pc = "idle"
  /\ sendCtrs' = [sendCtrs EXCEPT ![p] = t]
  /\ cells' = [cells EXCEPT ![p][t] = 0]
  /\ sender' = [sender EXCEPT ![t] = [pc |-> "add", path |-> p, cell |-> t]]
  /\ UNCHANGED <<sealed, recvVars>>

\* nextSendCounter up to the unlock: find or create the path's counter.
LookupCounter(t, p) ==
  /\ sender[t].pc = "idle"
  /\ IF sendCtrs[p] = NoCell
     THEN /\ sendCtrs' = [sendCtrs EXCEPT ![p] = t]
          /\ cells' = [cells EXCEPT ![p][t] = 0]
     ELSE UNCHANGED <<sendCtrs, cells>>
  /\ sender' = [sender EXCEPT ![t] = [pc |-> "add", path |-> p, cell |-> sendCtrs'[p]]]
  /\ UNCHANGED <<sealed, recvVars>>

\* The atomic increment, and the rest of Seal: the packet is on its way.
SealPacket(t) ==
  LET p == sender[t].path
      n == cells[p][sender[t].cell]
  IN /\ sender[t].pc = "add"
     /\ n <= MaxCtr
     /\ cells' = [cells EXCEPT ![p][sender[t].cell] = n + 1]
     /\ sealed' = [sealed EXCEPT ![p][n] = @ + 1]
     /\ sender' = [sender EXCEPT ![t].pc = "idle"]
     /\ UNCHANGED <<sendCtrs, recvVars>>

(***************************************************************************)
(* The reader of path p gets a packet that names path q and counter c: an  *)
(* intact copy of a sealed packet, or one damaged on the way, which may    *)
(* name any counter.  Open returns at once if q is not p (the nonce is     *)
(* checked against the path) or if CheckOnly refuses c.                    *)
(***************************************************************************)
OpenCheck(p, q, c, intact) ==
  /\ reader[p].pc = "idle"
  /\ intact => sealed[q][c] > 0
  /\ IF q = p /\ CheckOnly(recvWins[p], c)
     THEN reader' = [reader EXCEPT ![p] = [pc |-> "verify", ctr |-> c, intact |-> intact]]
     ELSE UNCHANGED reader
  /\ UNCHANGED <<sendVars, recvWins, accepted>>

\* Mutant: the counter is marked whether or not the packet is authentic.
OpenVerifyMarksAlways(p) ==
  LET c == reader[p].ctr
  IN /\ reader[p].pc = "verify"
     /\ reader' = [reader EXCEPT ![p].pc = "idle"]
     /\ recvWins' = [recvWins EXCEPT ![p] = MarkSeen(@, c)]
     /\ accepted' = IF reader[p].intact THEN [accepted EXCEPT ![p][c] = @ + 1] ELSE accepted
     /\ UNCHANGED sendVars

\* The rest of Open: only a packet that the AEAD accepts is marked and returned.
OpenVerify(p) ==
  LET c == reader[p].ctr
  IN /\ reader[p].pc = "verify"
     /\ reader' = [reader EXCEPT ![p].pc = "idle"]
     /\ IF reader[p].intact
        THEN /\ recvWins' = [recvWins EXCEPT ![p] = MarkSeen(@, c)]
             /\ accepted' = [accepted EXCEPT ![p][c] = @ + 1]
        ELSE UNCHANGED <<recvWins, accepted>>
     /\ UNCHANGED sendVars

Next ==
  \/ \E t \in Threads, p \in Paths : LookupCounter(t, p)
  \/ \E t \in Threads : SealPacket(t)
  \/ \E p, q \in Paths, c \in Ctr, intact \in BOOLEAN : OpenCheck(p, q, c, intact)
  \/ \E p \in Paths : OpenVerify(p)

Spec == Init /\ [][Next]_vars

-----------------------------------------------------------------------------
(***************************************************************************)
(* Properties                                                              *)
(***************************************************************************)

\* No two packets are sealed under one nonce, however many goroutines Seal on a
\* path for the first time at once and however their increments interleave
\* (the AEAD's one requirement; nextSendCounter).
NonceUnique == \A p \in Paths, c \in Ctr : sealed[p][c] <= 1

\* Open never returns a packet more often than it was sealed: copies are
\* refused although CheckOnly and MarkSeen are two critical sections, also
\* when a counter falls out of the window.
AcceptedAtMostOnce == \A p \in Paths, c \in Ctr : accepted[p][c] <= sealed[p][c]

\* The window refuses nothing it should take: a counter that was never accepted
\* and is not too old passes CheckOnly, whatever damaged packets were seen
\* (the comments on MarkSeen and in Open: no counter is burnt).
NoFalseRefusal ==
  \A p \in Paths, c \in Ctr :
    LET w == recvWins[p]
    IN accepted[p][c] = 0 /\ w.max - c < Window => CheckOnly(w, c)
=============================================================================
