---------------------------- MODULE RelaySessions ----------------------------
(***************************************************************************)
(* How sessions come into being: DialHandshake and addPath of              *)
(* core/bond/client.go against the handlers and background loops of        *)
(* core/bond/relay.go, over a network that loses, delays and reorders      *)
(* packets, and duplicates them if MayDuplicate says so.                   *)
(*                                                                         *)
(* A session stands for the transport keys that one handled HANDSHAKE_INIT *)
(* creates: a packet opens under a session exactly if it was sealed under  *)
(* it.  Sessions are numbered in the order the relay makes them; 0 is the  *)
(* nil pointer.  Addresses and payloads are left out.                      *)
(***************************************************************************)
EXTENDS Integers, FiniteSets

CONSTANTS
  Clients,        \* client static keys
  LastPath,       \* a client dials the paths 0..LastPath
  PoolSize,       \* addresses the pool can hand out
  Indices,        \* the session indices newSessionIndex draws from
  Tries,          \* attempts of the handshake and of every PATH_ADD
  MayDuplicate,   \* whether the network repeats packets
  MaxDials,       \* bound: how often a client process is started
  MaxSessions     \* bound: how many handshakes the relay answers

ASSUME RelayAssumption ==
  /\ LastPath \in Nat /\ PoolSize \in Nat /\ Tries \in Nat \ {0}
  /\ MayDuplicate \in BOOLEAN
  /\ MaxDials \in Nat /\ MaxSessions \in Nat

Path == 0..LastPath
Session == 1..MaxSessions
IP == 1..PoolSize

VARIABLES
  client,       \* the state of every client process
  net,          \* packets under way; a lost packet stays here unread, and
                \* identical copies under way together are one element
  made,         \* number of sessions made
  session,      \* the relaySession objects
  byIndex, byTunnelIP, byClientKey,   \* the relay's tables
  allocated,    \* number of addresses the pool has handed out
  seen,         \* ServeReorder's set of indices
  drained,      \* sessions with a drainSessionReorder goroutine
  pending       \* sessions with packets ready in their reorder buffer's out

tables == <<byIndex, byTunnelIP, byClientKey>>
relayVars == <<made, session, tables, allocated, seen, drained, pending>>
vars == <<client, net, relayVars>>

Message ==
  [type : {"init"}, from : Clients, dial : 1..MaxDials]
    \cup [type : {"resp"}, to : Clients, dial : 1..MaxDials, sess : Session]
    \cup [type : {"add", "ack", "data"}, sess : Session, path : Path]

NoSession == [client |-> "none", index |-> "none", ip |-> 0,
              paths |-> [p \in Path |-> "none"], heard |-> {}, opened |-> {}]

TypeOK ==
  /\ client \in [Clients ->
       [pc : {"off", "hello", "await", "add", "awaitAck", "up", "failed"},
        dial : 0..MaxDials, try : 0..Tries, sess : 0..MaxSessions,
        path : Path, paths : SUBSET Path]]
  /\ net \subseteq Message
  /\ made \in 0..MaxSessions
  /\ \A s \in Session :
       IF s > made THEN session[s] = NoSession
       ELSE session[s] \in
         [client : Clients, index : Indices, ip : IP,
          paths : [Path -> {"none", "joining", "active", "dead"}],
          heard : SUBSET Path, opened : SUBSET Path]
  /\ byIndex \in [Indices -> 0..made]
  /\ byTunnelIP \in [IP -> 0..made]
  /\ byClientKey \in [Clients -> 0..made]
  /\ allocated \in 0..PoolSize
  /\ seen \subseteq Indices /\ drained \subseteq 1..made /\ pending \subseteq 1..made

Init ==
  /\ client = [c \in Clients |-> [pc |-> "off", dial |-> 0, try |-> 0, sess |-> 0,
                                  path |-> 0, paths |-> {}]]
  /\ net = {}
  /\ made = 0
  /\ session = [s \in Session |-> NoSession]
  /\ byIndex = [i \in Indices |-> 0]
  /\ byTunnelIP = [a \in IP |-> 0]
  /\ byClientKey = [c \in Clients |-> 0]
  /\ allocated = 0
  /\ seen = {} /\ drained = {} /\ pending = {}

\* m is received; what is sent in reply is out.
Receive(m, out) ==
  /\ m \in net
  /\ net' = (IF MayDuplicate THEN net ELSE net \ {m}) \cup out

-----------------------------------------------------------------------------
(* The client *)

\* A client process starts: new sockets, a new initiator.
Dial(c) ==
  /\ client[c].pc \in {"off", "failed"} /\ client[c].dial < MaxDials
  /\ client' = [client EXCEPT ![c] =
       [pc |-> "hello", dial |-> @.dial + 1, try |-> 0, sess |-> 0,
        path |-> 0, paths |-> {}]]
  /\ UNCHANGED <<net, relayVars>>

\* Mutant: the loop runs once more than configured.
SendInitOneTooMany(c) ==
  /\ client[c].pc = "hello" /\ client[c].try <= Tries
  /\ \/ /\ net' = net \cup {[type |-> "init", from |-> c, dial |-> client[c].dial]}
        /\ client' = [client EXCEPT ![c].pc = "await", ![c].try = @ + 1]
     \/ /\ client' = [client EXCEPT ![c].try = @ + 1]
        /\ UNCHANGED net
  /\ UNCHANGED relayVars

\* The top of the handshake loop: the same INIT is written once more, or the
\* write fails and uses up the attempt.
SendInit(c) ==
  /\ client[c].pc = "hello" /\ client[c].try < Tries
  /\ \/ /\ net' = net \cup {[type |-> "init", from |-> c, dial |-> client[c].dial]}
        /\ client' = [client EXCEPT ![c].pc = "await", ![c].try = @ + 1]
     \/ /\ client' = [client EXCEPT ![c].try = @ + 1]
        /\ UNCHANGED net
  /\ UNCHANGED relayVars

\* The loop is exhausted, or the socket could not be made: DialHandshake fails.
DialFails(c) ==
  /\ client[c].pc = "hello" /\ client[c].try \in {0, Tries}
  /\ client' = [client EXCEPT ![c].pc = "failed"]
  /\ UNCHANGED <<net, relayVars>>

\* Mutant: an attempt that times out is not counted.
TimeoutForgetsTry(c) ==
  /\ client[c].pc \in {"await", "awaitAck"}
  /\ client' = [client EXCEPT ![c].pc = IF @ = "await" THEN "hello" ELSE "add",
                              ![c].try = @ - 1]
  /\ UNCHANGED <<net, relayVars>>

\* A read of the handshake or of addPath ends without the awaited reply: the
\* deadline passes, or return traffic of the session is read in its place.
Timeout(c) ==
  /\ client[c].pc \in {"await", "awaitAck"}
  /\ client' = [client EXCEPT ![c].pc = IF @ = "await" THEN "hello" ELSE "add"]
  /\ UNCHANGED <<net, relayVars>>

\* Where the path loop of DialHandshake goes after path p.
AfterPath(p) ==
  IF p = LastPath THEN [pc |-> "up", path |-> p] ELSE [pc |-> "add", path |-> p + 1]

\* A HANDSHAKE_RESP to any of this dial's INITs completes the handshake: its
\* session is adopted, path 0 is ACTIVE.
RecvResp(c, m) ==
  /\ client[c].pc = "await"
  /\ m.type = "resp" /\ m.to = c /\ m.dial = client[c].dial
  /\ Receive(m, {})
  /\ client' = [client EXCEPT ![c].pc = AfterPath(0).pc, ![c].path = AfterPath(0).path,
                              ![c].sess = m.sess, ![c].try = 0, ![c].paths = {0}]
  /\ UNCHANGED relayVars

\* The top of addPath's loop: the packet sealed before the loop is written.
SendAdd(c) ==
  /\ client[c].pc = "add" /\ client[c].try < Tries
  /\ \/ /\ net' = net \cup {[type |-> "add", sess |-> client[c].sess,
                             path |-> client[c].path]}
        /\ client' = [client EXCEPT ![c].pc = "awaitAck", ![c].try = @ + 1]
     \/ /\ client' = [client EXCEPT ![c].try = @ + 1]
        /\ UNCHANGED net
  /\ UNCHANGED relayVars

\* addPath fails, its attempts used up or its socket refused: the tunnel goes
\* on without the path.
AddFails(c) ==
  /\ client[c].pc = "add" /\ client[c].try \in {0, Tries}
  /\ LET n == AfterPath(client[c].path)
     IN client' = [client EXCEPT ![c].pc = n.pc, ![c].path = n.path, ![c].try = 0]
  /\ UNCHANGED <<net, relayVars>>

\* path_add_ack for the path that is being added: it becomes ACTIVE.
RecvAck(c, m) ==
  /\ client[c].pc = "awaitAck"
  /\ m.type = "ack" /\ m.sess = client[c].sess /\ m.path = client[c].path
  /\ Receive(m, {})
  /\ LET n == AfterPath(client[c].path)
     IN client' = [client EXCEPT ![c].pc = n.pc, ![c].path = n.path, ![c].try = 0,
                                 ![c].paths = @ \cup {client[c].path}]
  /\ UNCHANGED relayVars

\* The running tunnel sends a DATA, FEC or PROBE packet on one of its paths.
SendData(c, p) ==
  /\ client[c].pc = "up" /\ p \in client[c].paths
  /\ net' = net \cup {[type |-> "data", sess |-> client[c].sess, path |-> p]}
  /\ UNCHANGED <<client, relayVars>>

\* Run returns and the process ends: every socket is closed.
Stop(c) ==
  /\ client[c].pc = "up"
  /\ client' = [client EXCEPT ![c].pc = "off"]
  /\ UNCHANGED <<net, relayVars>>

-----------------------------------------------------------------------------
(* The relay.  ServeUDP is one goroutine that handles packet after packet, and *)
(* the tables change under one lock: each handler is one step.                 *)

\* The session that handles a packet sealed under s, if it can open it: the
\* lookup by index finds s itself, not a successor with other keys.
Current(s) == byIndex[session[s].index] = s

NewSession(c, i, a) ==
  [client |-> c, index |-> i, ip |-> a,
   paths |-> [p \in Path |-> IF p = 0 THEN "active" ELSE "none"],
   heard |-> {}, opened |-> {}]

\* newRelaySession, its entry in the three tables, and the response.
Establish(m, i, a) ==
  LET c == m.from
      s == made + 1
  IN /\ made' = s
     /\ session' = [session EXCEPT ![s] = NewSession(c, i, a)]
     /\ byIndex' = [byIndex EXCEPT ![i] = s]
     /\ byTunnelIP' = [byTunnelIP EXCEPT ![a] = s]
     /\ byClientKey' = [byClientKey EXCEPT ![c] = s]
     /\ Receive(m, {[type |-> "resp", to |-> c, dial |-> m.dial, sess |-> s]})

\* Mutant: a returning client is given a new address and index.
HandleInitAlwaysAllocates(m) ==
  /\ m.type = "init" /\ made < MaxSessions
  /\ allocated < PoolSize
  /\ \E i \in {j \in Indices : byIndex[j] = 0} : Establish(m, i, allocated + 1)
  /\ allocated' = allocated + 1
  /\ UNCHANGED <<client, seen, drained, pending>>

\* Mutant: a returning client keeps its address but is given a new index.
HandleInitNewIndex(m) ==
  /\ m.type = "init" /\ made < MaxSessions
  /\ LET old == byClientKey[m.from]
     IN \/ /\ old # 0
           /\ \E i \in {j \in Indices : byIndex[j] = 0} : Establish(m, i, session[old].ip)
           /\ UNCHANGED allocated
        \/ /\ old = 0 /\ allocated < PoolSize
           /\ \E i \in {j \in Indices : byIndex[j] = 0} : Establish(m, i, allocated + 1)
           /\ allocated' = allocated + 1
  /\ UNCHANGED <<client, seen, drained, pending>>

\* Every INIT makes a session with keys of its own.  A known client keeps its
\* address and index; a new one takes the next address and an unused index.  The
\* error returns after Allocate, taken if no reply can be made, are left out.
HandleInit(m) ==
  /\ m.type = "init" /\ made < MaxSessions
  /\ LET old == byClientKey[m.from]
     IN \/ /\ old # 0
           /\ Establish(m, session[old].index, session[old].ip)
           /\ UNCHANGED allocated
        \/ /\ old = 0 /\ allocated < PoolSize
           /\ \E i \in {j \in Indices : byIndex[j] = 0} : Establish(m, i, allocated + 1)
           /\ allocated' = allocated + 1
  /\ UNCHANGED <<client, seen, drained, pending>>

\* Mutant: the path is created and acknowledged but not made ACTIVE.
HandlePathAddStaysJoining(m) ==
  /\ m.type = "add" /\ Current(m.sess) /\ m.path \notin session[m.sess].opened
  /\ session' = [session EXCEPT ![m.sess].paths[m.path] = "joining",
                                ![m.sess].opened = @ \cup {m.path}]
  /\ Receive(m, {[type |-> "ack", sess |-> m.sess, path |-> m.path]})
  /\ UNCHANGED <<client, made, tables, allocated, seen, drained, pending>>

\* The first copy of a PATH_ADD: its path becomes ACTIVE and is acknowledged.
\* Later copies carry the same nonce and do not open.
HandlePathAdd(m) ==
  /\ m.type = "add" /\ Current(m.sess) /\ m.path \notin session[m.sess].opened
  /\ session' = [session EXCEPT ![m.sess].paths[m.path] = "active",
                                ![m.sess].opened = @ \cup {m.path}]
  /\ Receive(m, {[type |-> "ack", sess |-> m.sess, path |-> m.path]})
  /\ UNCHANGED <<client, made, tables, allocated, seen, drained, pending>>

\* handleData, handleFEC, handleProbe: the path exists or is made JOINING, its
\* activity is recorded, and a payload becomes ready in the reorder buffer
\* (or is not: a probe, a parity packet, a gap).
HandleData(m) ==
  /\ m.type = "data" /\ Current(m.sess)
  /\ session' = [session EXCEPT
       ![m.sess].paths[m.path] = IF @ = "none" THEN "joining" ELSE @,
       ![m.sess].heard = @ \cup {m.path}]
  /\ pending' \in {pending, pending \cup {m.sess}}
  /\ Receive(m, {})
  /\ UNCHANGED <<client, made, tables, allocated, seen, drained>>

\* Mutant: only paths that are still JOINING time out.
LivenessLoopJoiningOnly(s, p) ==
  /\ s \in 1..made /\ Current(s)
  /\ session[s].paths[p] = "joining" /\ p \in session[s].heard
  /\ session' = [session EXCEPT ![s].paths[p] = "dead"]
  /\ UNCHANGED <<client, net, made, tables, allocated, seen, drained, pending>>

\* livenessLoop finds that a path's last activity is longer ago than
\* PathDeadTimeout.  LastActivity is 0 for a path that was never heard.
LivenessLoop(s, p) ==
  /\ s \in 1..made /\ Current(s)
  /\ session[s].paths[p] \in {"joining", "active"} /\ p \in session[s].heard
  /\ session' = [session EXCEPT ![s].paths[p] = "dead"]
  /\ UNCHANGED <<client, net, made, tables, allocated, seen, drained, pending>>

\* A tick of ServeReorder: every index not seen before gets a goroutine that
\* drains the session found there now.
ServeReorder ==
  LET new == {i \in Indices \ seen : byIndex[i] # 0}
  IN /\ new # {}
     /\ seen' = seen \cup new
     /\ drained' = drained \cup {byIndex[i] : i \in new}
     /\ UNCHANGED <<client, net, made, session, tables, allocated, pending>>

\* drainSessionReorder writes what is ready to the TUN device.
DrainSessionReorder(s) ==
  /\ s \in drained \cap pending
  /\ pending' = pending \ {s}
  /\ UNCHANGED <<client, net, made, session, tables, allocated, seen, drained>>

-----------------------------------------------------------------------------
ClientStep(c) ==
  \/ Dial(c) \/ SendInit(c) \/ DialFails(c) \/ Timeout(c)
  \/ SendAdd(c) \/ AddFails(c) \/ Stop(c)
  \/ \E p \in Path : SendData(c, p)
  \/ \E m \in net : RecvResp(c, m)
  \/ \E m \in net : RecvAck(c, m)

RelayStep ==
  \/ \E m \in net : HandleInit(m)
  \/ \E m \in net : HandlePathAdd(m)
  \/ \E m \in net : HandleData(m)
  \/ \E s \in Session, p \in Path : LivenessLoop(s, p)
  \/ \E s \in Session : DrainSessionReorder(s)
  \/ ServeReorder

Next ==
  \/ \E c \in Clients : ClientStep(c)
  \/ RelayStep

Spec == Init /\ [][Next]_vars

\* Some client may still send on path p of session s.
InUse(s, p) ==
  \E c \in Clients : /\ client[c].sess = s /\ p \in client[c].paths
                     /\ client[c].pc \in {"add", "awaitAck", "up"}

\* Read deadlines and tickers go off, and the client's loops and the drain
\* goroutines run on.  Delivery is never promised, and the age of a path grows
\* past PathDeadTimeout only once nobody uses the path.
Fairness ==
  /\ \A c \in Clients :
       WF_vars(SendInit(c) \/ DialFails(c) \/ Timeout(c) \/ SendAdd(c) \/ AddFails(c))
  /\ WF_vars(ServeReorder)
  /\ \A s \in Session : WF_vars(DrainSessionReorder(s))
  /\ \A s \in Session, p \in Path : WF_vars(~InUse(s, p) /\ LivenessLoop(s, p))

FairSpec == Spec /\ Fairness

-----------------------------------------------------------------------------
(* Properties *)

\* The three tables of the relay always lead to the same session object, so a
\* packet from the network, a packet from the TUN device and a returning client
\* never meet different sessions.
TablesAgree ==
  /\ \A c \in Clients :
       LET s == byClientKey[c]
       IN s # 0 => /\ session[s].client = c
                   /\ Current(s)
                   /\ byTunnelIP[session[s].ip] = s
  /\ \A i \in Indices : byIndex[i] # 0 => byClientKey[session[byIndex[i]].client] = byIndex[i]
  /\ \A a \in IP : byTunnelIP[a] # 0 => byClientKey[session[byTunnelIP[a]].client] = byTunnelIP[a]

\* However often handleHandshakeInit runs for a client (reconnects,
\* retransmitted or repeated INITs), all its sessions have the address and
\* index of the first, no two clients share either, and the pool has handed out
\* no more addresses than there are clients.
OneAddressPerClient ==
  /\ \A s, t \in 1..made :
       /\ session[s].client = session[t].client <=> session[s].ip = session[t].ip
       /\ session[s].client = session[t].client <=> session[s].index = session[t].index
  /\ allocated = Cardinality({session[s].client : s \in 1..made})

\* A client never uses a path its session at the relay did not register first:
\* what the client counts as joined was made ACTIVE by the relay, and data never
\* reaches the relay on a path that it has to create as JOINING.
PathsJoinBeforeUse ==
  /\ \A c \in Clients :
       client[c].sess # 0 =>
         \A p \in client[c].paths : session[client[c].sess].paths[p] \in {"active", "dead"}
  /\ \A s \in 1..made, p \in Path : session[s].paths[p] # "joining"

\* DialHandshake returns whatever the network does: every attempt of the
\* handshake and of each addPath ends by its deadline and is counted.
DialEnds ==
  \A c \in Clients : client[c].pc = "hello" ~> client[c].pc \in {"up", "failed"}

\* livenessLoop does retire a path that carried traffic once nobody sends on it
\* any more, as long as its session is in the tables.
SilentPathsDie ==
  \A s \in Session, p \in Path :
    <>[](s <= made /\ Current(s) /\ p \in session[s].heard /\ ~InUse(s, p))
      => <>(session[s].paths[p] = "dead")

-----------------------------------------------------------------------------
(* What the repository says, and the code does not do *)

\* "ServeReorder drains every session's reorder buffer to the shared TUN
\* device": what is ready in the buffer of a session that stays in the tables is
\* written in the end.
EverySessionDrained ==
  \A s \in Session : (s \in pending) ~> (s \notin pending \/ ~Current(s))

\* "path 0 established": a client that has completed the handshake and the
\* relay hold the same session keys.
KeysAgree ==
  \A c \in Clients :
    client[c].pc \in {"add", "awaitAck", "up"} => byClientKey[c] = client[c].sess
=============================================================================
