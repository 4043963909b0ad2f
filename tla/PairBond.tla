------------------------------ MODULE PairBond ------------------------------
(***************************************************************************)
(* core/pairbond/pairbond.go: the pairing codes a host hands out, each to  *)
(* be used once and for CodeTTL only, and the registry of paired peers.    *)
(* Every method holds its object's mutex throughout, so each is one step.  *)
(* No package of the repository calls them yet: any order may happen.      *)
(***************************************************************************)
EXTENDS Integers, FiniteSets

CONSTANTS
  Code,         \* the pairing codes GenerateCode draws from
  Peer,         \* the peer IDs
  CodeTTL, MaxPeers

VARIABLES
  now,
  codes,        \* CodeStore.codes: a set of entries, one per code
  peers,        \* Registry.peers: the IDs of the paired peers
  issued, used, \* how often each code was issued and accepted (history)
  issuedAt,     \* when each code was last issued (history)
  said          \* what the last Consume returned

vars == <<now, codes, peers, issued, used, issuedAt, said>>

Entry == [code : Code, expires : Int, used : BOOLEAN]

Init ==
  /\ now \in Nat
  /\ codes = {} /\ peers = {}
  /\ issued = [c \in Code |-> 0] /\ used = [c \in Code |-> 0]
  /\ issuedAt = [c \in Code |-> 0]
  /\ said = "none"

\* gcLocked: the entries that are neither expired nor used.
Kept == {e \in codes : now <= e.expires /\ ~e.used}

\* Issue: a code drawn at random may be outstanding already; the map entry of the
\* earlier one is replaced.
Issue(c) ==
  /\ codes' = {e \in Kept : e.code # c}
                \cup {[code |-> c, expires |-> now + CodeTTL, used |-> FALSE]}
  /\ issued' = [issued EXCEPT ![c] = @ + 1]
  /\ issuedAt' = [issuedAt EXCEPT ![c] = now]
  /\ UNCHANGED <<now, peers, used, said>>

\* Consume of a code that is not in the map once gcLocked has run.
ConsumeBad(c) ==
  /\ \A e \in Kept : e.code # c \/ now > e.expires
  /\ codes' = Kept
  /\ said' = "ErrBadCode"
  /\ UNCHANGED <<now, peers, issued, used, issuedAt>>

\* Consume of a code whose entry is used.
ConsumeUsed(c) ==
  /\ \E e \in Kept : e.code = c /\ now <= e.expires /\ e.used
  /\ codes' = Kept
  /\ said' = "ErrCodeUsed"
  /\ UNCHANGED <<now, peers, issued, used, issuedAt>>

\* Consume of a valid code marks its entry.
ConsumeOK(c) ==
  /\ \E e \in Kept : e.code = c /\ now <= e.expires /\ ~e.used
  /\ codes' = {e \in Kept : e.code # c}
                \cup {[code |-> e.code, expires |-> e.expires, used |-> TRUE] :
                        e \in {f \in Kept : f.code = c}}
  /\ used' = [used EXCEPT ![c] = @ + 1]
  /\ said' = "ok"
  /\ UNCHANGED <<now, peers, issued, issuedAt>>

\* Registry.Add, which looks at the number of peers first; a refusal changes nothing.
Add(p) ==
  /\ Cardinality(peers) < MaxPeers
  /\ p \notin peers
  /\ peers' = peers \cup {p}
  /\ UNCHANGED <<now, codes, issued, used, issuedAt, said>>

Revoke(p) ==
  /\ p \in peers
  /\ peers' = peers \ {p}
  /\ UNCHANGED <<now, codes, issued, used, issuedAt, said>>

Tick ==
  /\ now' \in Nat /\ now' >= now
  /\ UNCHANGED <<codes, peers, issued, used, issuedAt, said>>

Next ==
  \/ \E c \in Code : Issue(c) \/ ConsumeBad(c) \/ ConsumeUsed(c) \/ ConsumeOK(c)
  \/ \E p \in Peer : Add(p) \/ Revoke(p)
  \/ Tick

Spec == Init /\ [][Next]_vars

-----------------------------------------------------------------------------
\* A code is accepted at most as often as it was issued, whatever the order of
\* Issue, Consume and the collections inside them.
UsedAtMostOnce == \A c \in Code : used[c] <= issued[c]

\* Consume accepts no code later than CodeTTL after it was issued.
AcceptedInTime == [][\A c \in Code : used'[c] # used[c] => now <= issuedAt[c] + CodeTTL]_vars

\* Consume never answers ErrCodeUsed: its own collection removes the used entries
\* before it looks.  A code used twice is answered with ErrBadCode.
NeverSaysUsed == said # "ErrCodeUsed"

\* The registry holds at most MaxPeers peers.
PeersBounded == IsFiniteSet(peers) /\ Cardinality(peers) <= MaxPeers

\* What makes the first two inductive: an entry not marked used has an issue to spare,
\* no code has two entries, and an entry expires CodeTTL after its code's last issue.
PairInv ==
  /\ codes \subseteq Entry
  /\ now \in Nat
  /\ issued \in [Code -> Nat] /\ used \in [Code -> Nat] /\ issuedAt \in [Code -> Nat]
  /\ UsedAtMostOnce
  /\ \A e \in codes : ~e.used => used[e.code] < issued[e.code]
  /\ \A e \in codes : e.expires = issuedAt[e.code] + CodeTTL
  /\ \A e, f \in codes : e.code = f.code => e = f
=============================================================================
