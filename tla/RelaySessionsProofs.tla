------------------------ MODULE RelaySessionsProofs ------------------------
(* Proofs about RelaySessions: any number of clients, paths, dials and         *)
(* handshakes, with or without a network that repeats packets.                 *)
EXTENDS RelaySessions, FiniteSetTheorems, TLAPS

\* The provers for a step that names none, in turn, with their time limits in seconds.
USE SMTT(10), ZenonT(20), SMTT(40), ZenonT(60)

-----------------------------------------------------------------------------
(* The inductive invariant *)

ClientState ==
  [pc : {"off", "hello", "await", "add", "awaitAck", "up", "failed"},
   dial : 0..MaxDials, try : 0..Tries, sess : 0..MaxSessions,
   path : Path, paths : SUBSET Path]

SessionState ==
  [client : Clients, index : Indices, ip : IP,
   paths : [Path -> {"none", "joining", "active", "dead"}],
   heard : SUBSET Path, opened : SUBSET Path]

RelayTypes ==
  /\ made \in 0..MaxSessions
  /\ session \in [Session -> SessionState \cup {NoSession}]
  /\ \A s \in Session : IF s > made THEN session[s] = NoSession ELSE session[s] \in SessionState
  /\ byIndex \in [Indices -> 0..made]
  /\ byTunnelIP \in [IP -> 0..made]
  /\ byClientKey \in [Clients -> 0..made]
  /\ allocated \in 0..PoolSize
  /\ seen \subseteq Indices /\ drained \subseteq 1..made /\ pending \subseteq 1..made

\* The relay has path p of session s, and made it ACTIVE before anything else.
Joined(s, p) == session[s].paths[p] \in {"active", "dead"}

\* A client's session exists at the relay, as do the paths that it counts.
ClientInv(x) ==
  /\ x.pc \in {"hello", "await"} => x.dial >= 1
  /\ x.pc \in {"add", "awaitAck", "up"} => x.sess >= 1
  /\ x.sess <= made
  /\ x.sess # 0 => \A p \in x.paths : Joined(x.sess, p)

\* So do the session of every packet under way and, for the packets that follow
\* a join, the path.
PacketInv(m) ==
  /\ m.type = "resp" => m.sess <= made /\ Joined(m.sess, 0)
  /\ m.type = "add" => m.sess <= made
  /\ m.type \in {"ack", "data"} => m.sess <= made /\ Joined(m.sess, m.path)

\* The tables and the session objects name each other: what one table holds
\* under a key has that key.
Indexed ==
  /\ \A i \in Indices : byIndex[i] # 0 => session[byIndex[i]].index = i
  /\ \A a \in IP : byTunnelIP[a] # 0 => session[byTunnelIP[a]].ip = a /\ a <= allocated

\* A replaced session has the address and index of the client's current one.
Known ==
  \A s \in 1..made :
    LET k == byClientKey[session[s].client]
    IN k # 0 /\ session[s].ip = session[k].ip /\ session[s].index = session[k].index

Served == {session[s].client : s \in 1..made}
PoolInv == IsFiniteSet(Served) /\ allocated = Cardinality(Served)

IInv ==
  /\ client \in [Clients -> ClientState]
  /\ net \subseteq Message
  /\ RelayTypes
  /\ \A c \in Clients : ClientInv(client[c])
  /\ \A m \in net : PacketInv(m)
  /\ \A s \in 1..made, p \in Path : session[s].paths[p] # "joining"
  /\ TablesAgree
  /\ Indexed
  /\ Known
  /\ PoolInv

-----------------------------------------------------------------------------
(* Lemmas *)

\* The fields of a packet, by its type.
LEMMA MessageFields ==
  ASSUME NEW m \in Message
  PROVE  /\ m.type = "init" => m.from \in Clients /\ m.dial \in 1..MaxDials
         /\ m.type = "resp" => m.to \in Clients /\ m.dial \in 1..MaxDials /\ m.sess \in Session
         /\ m.type \in {"add", "ack", "data"} => m.sess \in Session /\ m.path \in Path
BY DEF Message

\* The parts of the invariant that speak of the relay's tables.
LEMMA Parts == ASSUME IInv PROVE RelayTypes /\ TablesAgree /\ Indexed /\ Known /\ PoolInv
BY DEF IInv

\* The sessions that exist.
LEMMA SessionRange ==
  ASSUME RelayTypes, NEW t \in 1..made
  PROVE  /\ t \in Session /\ session[t] \in SessionState
         /\ session[t].client \in Clients
         /\ session[t].index \in Indices /\ session[t].ip \in IP
<1>1. made \in 0..MaxSessions
  BY DEF RelayTypes
<1>2. t \in Session /\ t <= made
  BY <1>1, RelayAssumption DEF Session
<1>3. session[t] \in SessionState
  BY <1>2 DEF RelayTypes
<1> QED
  BY <1>2, <1>3 DEF SessionState

\* The tables point to sessions that exist.
LEMMA TableRange ==
  ASSUME RelayTypes
  PROVE  /\ made \in 0..MaxSessions
         /\ \A j \in Indices : byIndex[j] # 0 => byIndex[j] \in 1..made
         /\ \A b \in IP : byTunnelIP[b] # 0 => byTunnelIP[b] \in 1..made
         /\ \A d \in Clients : byClientKey[d] # 0 => byClientKey[d] \in 1..made
<1>1. made \in 0..MaxSessions
  BY DEF RelayTypes
<1>2. ASSUME NEW k \in 0..made, k # 0 PROVE k \in 1..made
  BY <1>1, <1>2, RelayAssumption
<1>3. \A j \in Indices : byIndex[j] \in 0..made
  BY DEF RelayTypes
<1>4. \A b \in IP : byTunnelIP[b] \in 0..made
  BY DEF RelayTypes
<1>5. \A d \in Clients : byClientKey[d] \in 0..made
  BY DEF RelayTypes
<1> QED
  BY <1>1, <1>2, <1>3, <1>4, <1>5

\* How packets are made.
LEMMA MessageMade ==
  /\ \A c \in Clients, d \in 1..MaxDials : [type |-> "init", from |-> c, dial |-> d] \in Message
  /\ \A c \in Clients, d \in 1..MaxDials, s \in Session :
       [type |-> "resp", to |-> c, dial |-> d, sess |-> s] \in Message
  /\ \A t \in {"add", "ack", "data"}, s \in Session, p \in Path :
       [type |-> t, sess |-> s, path |-> p] \in Message
BY DEF Message

\* A step of a client that gives it the state x and sends what agrees with the
\* relay keeps the invariant.
LEMMA ClientUpdate ==
  ASSUME IInv, NEW c \in Clients, NEW x \in ClientState, ClientInv(x),
         client' = [client EXCEPT ![c] = x], UNCHANGED relayVars,
         net' \subseteq Message, \A m \in net' : m \in net \/ PacketInv(m)
  PROVE  IInv'
<1>1. UNCHANGED <<made, session, byIndex, byTunnelIP, byClientKey, allocated, seen, drained, pending>>
  BY DEF relayVars, tables
<1>2. client' \in [Clients -> ClientState] /\ \A d \in Clients : client'[d] = IF d = c THEN x ELSE client[d]
  BY DEF IInv
<1>3. RelayTypes'
  BY <1>1 DEF IInv, RelayTypes
<1>4. \A d \in Clients : ClientInv(client[d])'
  BY <1>1, <1>2 DEF IInv, ClientInv, Joined
<1>5. \A m \in net' : PacketInv(m)'
  BY <1>1 DEF IInv, PacketInv, Joined
<1>6. TablesAgree' /\ Indexed' /\ Known'
  BY <1>1 DEF IInv, TablesAgree, Current, Indexed, Known
<1>7. PoolInv'
  BY <1>1 DEF IInv, PoolInv, Served
<1>8. \A s \in 1..made', p \in Path : session'[s].paths[p] # "joining"
  BY <1>1 DEF IInv
<1> QED
  BY <1>2, <1>3, <1>4, <1>5, <1>6, <1>7, <1>8 DEF IInv

\* The invariant holds before anyone dials.
LEMMA InitIInv == Init => IInv
<1> SUFFICES ASSUME Init PROVE IInv
  OBVIOUS
<1>1. client \in [Clients -> ClientState] /\ \A c \in Clients : ClientInv(client[c])
  <2>1. 0 \in Path /\ 0 \in 0..MaxDials /\ 0 \in 0..Tries /\ 0 \in 0..MaxSessions
    BY RelayAssumption DEF Path
  <2>2. PICK x : x = [pc |-> "off", dial |-> 0, try |-> 0, sess |-> 0, path |-> 0, paths |-> {}]
    OBVIOUS
  <2>3. x \in ClientState
    BY <2>1, <2>2 DEF ClientState
  <2>4. ClientInv(x)
    BY <2>2 DEF ClientInv, Init
  <2>5. client = [c \in Clients |-> x]
    BY <2>2 DEF Init
  <2> QED
    BY <2>3, <2>4, <2>5
<1>2. RelayTypes
  BY RelayAssumption DEF Init, RelayTypes, Session
<1>3. 1..made = {}
  BY DEF Init
<1>4. TablesAgree /\ Indexed /\ Known
  BY <1>3 DEF Init, TablesAgree, Indexed, Known
<1>5. PoolInv
  <2>1. Served = {}
    BY <1>3 DEF Served
  <2> QED
    BY <2>1, FS_EmptySet DEF Init, PoolInv
<1> QED
  BY <1>1, <1>2, <1>3, <1>4, <1>5 DEF Init, IInv

-----------------------------------------------------------------------------
(* The client's steps *)

LEMMA AfterPathType ==
  ASSUME NEW p \in Path
  PROVE  AfterPath(p).pc \in {"up", "add"} /\ AfterPath(p).path \in Path
BY RelayAssumption DEF AfterPath, Path

LEMMA DialIInv == ASSUME IInv, NEW c \in Clients, Dial(c) PROVE IInv'
<1> USE RelayAssumption
<1>1. PICK x : x = [pc |-> "hello", dial |-> client[c].dial + 1, try |-> 0, sess |-> 0,
                    path |-> 0, paths |-> {}]
  OBVIOUS
<1>2. client' = [client EXCEPT ![c] = x] /\ UNCHANGED <<net, relayVars>> /\ client[c].dial < MaxDials
  BY <1>1 DEF Dial
<1>3. client[c] \in ClientState /\ made \in Nat /\ net \subseteq Message
  BY DEF IInv, RelayTypes
<1>4. x \in ClientState
  BY <1>1, <1>2, <1>3 DEF ClientState, Path
<1>5. ClientInv(x)
  BY <1>1, <1>3 DEF ClientInv, ClientState
<1> QED
  BY <1>2, <1>3, <1>4, <1>5, ClientUpdate

\* The loops of DialHandshake and addPath, and failures that leave the session
\* alone: only the place and the count of attempts change.
LEMMA LocalStep ==
  ASSUME IInv, NEW c \in Clients, UNCHANGED relayVars,
         NEW pc, NEW try \in 0..Tries, NEW path \in Path,
         client' = [client EXCEPT ![c].pc = pc, ![c].try = try, ![c].path = path],
         \/ client[c].pc \in {"hello", "await"} /\ pc \in {"hello", "await", "failed"}
         \/ client[c].pc \in {"add", "awaitAck", "up"} /\ pc \in {"add", "awaitAck", "up", "off"},
         net' \subseteq Message, \A m \in net' : m \in net \/ PacketInv(m)
  PROVE  IInv'
<1> USE RelayAssumption
<1>1. client[c] \in ClientState /\ ClientInv(client[c])
  BY DEF IInv
<1>2. PICK x : x = [client[c] EXCEPT !.pc = pc, !.try = try, !.path = path]
  OBVIOUS
<1>3. /\ x.pc = pc /\ x.try = try /\ x.path = path /\ x.dial = client[c].dial
      /\ x.sess = client[c].sess /\ x.paths = client[c].paths /\ x \in ClientState
  BY <1>1, <1>2 DEF ClientState
<1>4. client' = [client EXCEPT ![c] = x]
  BY <1>2 DEF IInv
<1>5. ClientInv(x)
  BY <1>1, <1>3 DEF ClientInv
<1> QED
  BY <1>3, <1>4, <1>5, ClientUpdate

\* An update of pc and try alone is one that repeats the path.
LEMMA SamePath ==
  ASSUME IInv, NEW c \in Clients, NEW pc, NEW try
  PROVE  [client EXCEPT ![c].pc = pc, ![c].try = try]
           = [client EXCEPT ![c].pc = pc, ![c].try = try, ![c].path = client[c].path]
<1>1. client[c] \in ClientState
  BY DEF IInv
<1>2. [client[c] EXCEPT !.pc = pc, !.try = try]
        = [client[c] EXCEPT !.pc = pc, !.try = try, !.path = client[c].path]
  BY <1>1 DEF ClientState
<1> QED
  BY <1>2 DEF IInv

\* An update of pc alone is one that repeats both.
LEMMA SameTry ==
  ASSUME IInv, NEW c \in Clients, NEW pc
  PROVE  [client EXCEPT ![c].pc = pc] = [client EXCEPT ![c].pc = pc, ![c].try = client[c].try]
<1>1. client[c] \in ClientState
  BY DEF IInv
<1>2. [client[c] EXCEPT !.pc = pc] = [client[c] EXCEPT !.pc = pc, !.try = client[c].try]
  BY <1>1 DEF ClientState
<1> QED
  BY <1>2 DEF IInv

\* The facts of a client's state that its steps use.
LEMMA ClientFacts ==
  ASSUME IInv, NEW c \in Clients
  PROVE  /\ client[c] \in ClientState /\ ClientInv(client[c])
         /\ client[c].try \in 0..Tries /\ client[c].path \in Path
         /\ client[c].dial \in 0..MaxDials /\ client[c].sess \in 0..MaxSessions
         /\ made \in Nat /\ net \subseteq Message
BY DEF IInv, ClientState, RelayTypes

LEMMA SendInitIInv == ASSUME IInv, NEW c \in Clients, SendInit(c) PROVE IInv'
<1> USE RelayAssumption
<1>1. client[c].pc = "hello" /\ client[c].try < Tries /\ UNCHANGED relayVars
  BY DEF SendInit
<1>2. PICK t \in 0..Tries : t = client[c].try + 1
  BY <1>1, ClientFacts
<1>3. PICK p \in Path : p = client[c].path
  BY ClientFacts
<1>4. CASE /\ net' = net \cup {[type |-> "init", from |-> c, dial |-> client[c].dial]}
           /\ client' = [client EXCEPT ![c].pc = "await", ![c].try = @ + 1]
  <2>1. client[c].dial \in 1..MaxDials
    BY <1>1, ClientFacts DEF ClientInv
  <2>2. PICK m : m = [type |-> "init", from |-> c, dial |-> client[c].dial]
    OBVIOUS
  <2>3. m \in Message /\ PacketInv(m)
    BY <2>1, <2>2, MessageMade DEF PacketInv
  <2>4. net' \subseteq Message /\ \A k \in net' : k \in net \/ PacketInv(k)
    BY <1>4, <2>2, <2>3, ClientFacts
  <2>5. client' = [client EXCEPT ![c].pc = "await", ![c].try = t, ![c].path = p]
    BY <1>2, <1>3, <1>4, ClientFacts DEF ClientState, IInv
  <2> QED
    BY <1>1, <2>4, <2>5, LocalStep
<1>5. CASE client' = [client EXCEPT ![c].try = @ + 1] /\ UNCHANGED net
  <2>1. client' = [client EXCEPT ![c].pc = "hello", ![c].try = t, ![c].path = p]
    BY <1>1, <1>2, <1>3, <1>5, ClientFacts DEF ClientState, IInv
  <2>2. net' \subseteq Message /\ \A k \in net' : k \in net \/ PacketInv(k)
    BY <1>5, ClientFacts
  <2> QED
    BY <1>1, <2>1, <2>2, LocalStep
<1> QED
  BY <1>4, <1>5 DEF SendInit

LEMMA DialFailsIInv == ASSUME IInv, NEW c \in Clients, DialFails(c) PROVE IInv'
<1>1. /\ client[c].pc = "hello" /\ client' = [client EXCEPT ![c].pc = "failed"]
      /\ net' = net /\ UNCHANGED relayVars
  BY DEF DialFails
<1>2. PICK t \in 0..Tries, p \in Path : t = client[c].try /\ p = client[c].path
  BY ClientFacts
<1>3. client' = [client EXCEPT ![c].pc = "failed", ![c].try = t, ![c].path = p]
  BY <1>1, <1>2, SamePath, SameTry
<1>4. net' \subseteq Message /\ \A k \in net' : k \in net \/ PacketInv(k)
  BY <1>1, ClientFacts
<1> QED
  BY <1>1, <1>3, <1>4, LocalStep

LEMMA TimeoutIInv == ASSUME IInv, NEW c \in Clients, Timeout(c) PROVE IInv'
<1> DEFINE pc == IF client[c].pc = "await" THEN "hello" ELSE "add"
<1>1. /\ client[c].pc \in {"await", "awaitAck"} /\ client' = [client EXCEPT ![c].pc = pc]
      /\ net' = net /\ UNCHANGED relayVars
  BY DEF Timeout
<1>2. PICK t \in 0..Tries, p \in Path : t = client[c].try /\ p = client[c].path
  BY ClientFacts
<1>3. client' = [client EXCEPT ![c].pc = pc, ![c].try = t, ![c].path = p]
  BY <1>1, <1>2, SamePath, SameTry
<1>4. net' \subseteq Message /\ \A k \in net' : k \in net \/ PacketInv(k)
  BY <1>1 DEF IInv
<1>5. \/ client[c].pc \in {"hello", "await"} /\ pc \in {"hello", "await", "failed"}
      \/ client[c].pc \in {"add", "awaitAck", "up"} /\ pc \in {"add", "awaitAck", "up", "off"}
  BY <1>1
<1> HIDE DEF pc
<1> QED
  BY <1>1, <1>3, <1>4, <1>5, LocalStep

LEMMA SendAddIInv == ASSUME IInv, NEW c \in Clients, SendAdd(c) PROVE IInv'
<1> USE RelayAssumption
<1>1. client[c].pc = "add" /\ client[c].try < Tries /\ UNCHANGED relayVars
  BY DEF SendAdd
<1>2. PICK t \in 0..Tries : t = client[c].try + 1
  BY <1>1, ClientFacts
<1>3. PICK p \in Path : p = client[c].path
  BY ClientFacts
<1>4. CASE /\ net' = net \cup {[type |-> "add", sess |-> client[c].sess, path |-> client[c].path]}
           /\ client' = [client EXCEPT ![c].pc = "awaitAck", ![c].try = @ + 1]
  <2>1. client[c].sess \in Session /\ client[c].sess <= made
    BY <1>1, ClientFacts DEF ClientInv, Session
  <2>2. PICK m : m = [type |-> "add", sess |-> client[c].sess, path |-> p]
    OBVIOUS
  <2>3. m \in Message /\ PacketInv(m)
    BY <2>1, <2>2, MessageMade DEF PacketInv
  <2>4. net' \subseteq Message /\ \A k \in net' : k \in net \/ PacketInv(k)
    BY <1>3, <1>4, <2>2, <2>3, ClientFacts
  <2>5. client' = [client EXCEPT ![c].pc = "awaitAck", ![c].try = t, ![c].path = p]
    BY <1>2, <1>3, <1>4, ClientFacts DEF ClientState, IInv
  <2> QED
    BY <1>1, <2>4, <2>5, LocalStep
<1>5. CASE client' = [client EXCEPT ![c].try = @ + 1] /\ UNCHANGED net
  <2>1. client' = [client EXCEPT ![c].pc = "add", ![c].try = t, ![c].path = p]
    BY <1>1, <1>2, <1>3, <1>5, ClientFacts DEF ClientState, IInv
  <2>2. net' \subseteq Message /\ \A k \in net' : k \in net \/ PacketInv(k)
    BY <1>5, ClientFacts
  <2> QED
    BY <1>1, <2>1, <2>2, LocalStep
<1> QED
  BY <1>4, <1>5 DEF SendAdd

LEMMA AddFailsIInv == ASSUME IInv, NEW c \in Clients, AddFails(c) PROVE IInv'
<1> USE RelayAssumption
<1>1. PICK n : n = AfterPath(client[c].path)
  OBVIOUS
<1>2. /\ client[c].pc = "add" /\ net' = net /\ UNCHANGED relayVars
      /\ client' = [client EXCEPT ![c].pc = n.pc, ![c].path = n.path, ![c].try = 0]
  BY <1>1 DEF AddFails
<1>3. PICK pc \in {"up", "add"}, p \in Path : pc = n.pc /\ p = n.path
  BY <1>1, ClientFacts, AfterPathType
<1>4. client' = [client EXCEPT ![c].pc = pc, ![c].try = 0, ![c].path = p]
  BY <1>2, <1>3, ClientFacts DEF ClientState, IInv
<1>5. net' \subseteq Message /\ \A k \in net' : k \in net \/ PacketInv(k)
  BY <1>2, ClientFacts
<1>6. client[c].pc \in {"add", "awaitAck", "up"} /\ pc \in {"add", "awaitAck", "up", "off"}
  BY <1>2, <1>3
<1>7. 0 \in 0..Tries
  OBVIOUS
<1> QED
  BY <1>2, <1>4, <1>5, <1>6, <1>7, LocalStep

LEMMA StopIInv == ASSUME IInv, NEW c \in Clients, Stop(c) PROVE IInv'
<1>1. /\ client[c].pc = "up" /\ client' = [client EXCEPT ![c].pc = "off"]
      /\ net' = net /\ UNCHANGED relayVars
  BY DEF Stop
<1>2. PICK t \in 0..Tries, p \in Path : t = client[c].try /\ p = client[c].path
  BY ClientFacts
<1>3. client' = [client EXCEPT ![c].pc = "off", ![c].try = t, ![c].path = p]
  BY <1>1, <1>2, SamePath, SameTry
<1>4. net' \subseteq Message /\ \A k \in net' : k \in net \/ PacketInv(k)
  BY <1>1, ClientFacts
<1> QED
  BY <1>1, <1>3, <1>4, LocalStep

\* A packet is received: what is under way afterwards was under way or is a reply.
LEMMA ReceiveFacts ==
  ASSUME NEW m, NEW out, Receive(m, out)
  PROVE  m \in net /\ net' \subseteq net \cup out
BY DEF Receive

LEMMA RecvRespIInv == ASSUME IInv, NEW c \in Clients, NEW m \in net, RecvResp(c, m) PROVE IInv'
<1> USE RelayAssumption
<1>1. m.type = "resp" /\ Receive(m, {}) /\ UNCHANGED relayVars
  BY DEF RecvResp
<1>2. 0 \in Path
  BY DEF Path
<1>3. PICK pc \in {"up", "add"}, p \in Path : pc = AfterPath(0).pc /\ p = AfterPath(0).path
  BY <1>2, AfterPathType
<1>4. PICK s \in Session : s = m.sess /\ s <= made /\ Joined(s, 0)
  BY <1>1, MessageFields DEF IInv, PacketInv
<1>5. PICK x : x = [client[c] EXCEPT !.pc = pc, !.path = p, !.sess = s, !.try = 0, !.paths = {0}]
  OBVIOUS
<1>6. x \in ClientState /\ x.pc = pc /\ x.sess = s /\ x.paths = {0}
  <2>1. client[c] \in ClientState /\ s \in 0..MaxSessions /\ 0 \in 0..Tries /\ {0} \in SUBSET Path
    BY <1>2, <1>4, ClientFacts DEF Session
  <2>2. pc \in {"off", "hello", "await", "add", "awaitAck", "up", "failed"} /\ p \in Path
    BY <1>3
  <2> QED
    BY <1>5, <2>1, <2>2 DEF ClientState
<1>7. ClientInv(x)
  BY <1>3, <1>4, <1>6, ClientFacts DEF ClientInv, Session
<1>8. client' = [client EXCEPT ![c] = x]
  <2>1. client' = [client EXCEPT ![c].pc = pc, ![c].path = p, ![c].sess = s, ![c].try = 0,
                                 ![c].paths = {0}]
    BY <1>3, <1>4 DEF RecvResp
  <2> QED
    BY <1>5, <2>1 DEF IInv
<1>9. net' \subseteq net /\ net \subseteq Message
  BY <1>1, ReceiveFacts, ClientFacts
<1> QED
  BY <1>1, <1>6, <1>7, <1>8, <1>9, ClientUpdate

LEMMA RecvAckIInv == ASSUME IInv, NEW c \in Clients, NEW m \in net, RecvAck(c, m) PROVE IInv'
<1> USE RelayAssumption
<1>1. /\ client[c].pc = "awaitAck" /\ m.type = "ack" /\ m.sess = client[c].sess
      /\ m.path = client[c].path /\ Receive(m, {}) /\ UNCHANGED relayVars
  BY DEF RecvAck
<1>2. PICK q \in Path : q = client[c].path
  BY ClientFacts
<1>3. PICK pc \in {"up", "add"}, p \in Path : pc = AfterPath(q).pc /\ p = AfterPath(q).path
  BY AfterPathType
<1>4. Joined(client[c].sess, q)
  BY <1>1, <1>2 DEF IInv, PacketInv
<1>5. PICK x : x = [client[c] EXCEPT !.pc = pc, !.path = p, !.try = 0,
                                     !.paths = client[c].paths \cup {q}]
  OBVIOUS
<1>6. /\ x \in ClientState /\ x.pc = pc /\ x.sess = client[c].sess
      /\ x.paths = client[c].paths \cup {q}
  <2>1. client[c] \in ClientState /\ 0 \in 0..Tries
    BY ClientFacts
  <2>2. client[c].paths \cup {q} \in SUBSET Path
    BY <1>2, <2>1 DEF ClientState
  <2>3. pc \in {"off", "hello", "await", "add", "awaitAck", "up", "failed"} /\ p \in Path
    BY <1>3
  <2> QED
    BY <1>5, <2>1, <2>2, <2>3 DEF ClientState
<1>7. ClientInv(x)
  BY <1>1, <1>3, <1>4, <1>6, ClientFacts DEF ClientInv
<1>8. client' = [client EXCEPT ![c] = x]
  <2>1. client' = [client EXCEPT ![c].pc = pc, ![c].path = p, ![c].try = 0,
                                 ![c].paths = client[c].paths \cup {q}]
    BY <1>2, <1>3, ClientFacts DEF RecvAck, ClientState, IInv
  <2> QED
    BY <1>5, <2>1 DEF IInv
<1>9. net' \subseteq net /\ net \subseteq Message
  BY <1>1, ReceiveFacts, ClientFacts
<1> QED
  BY <1>1, <1>6, <1>7, <1>8, <1>9, ClientUpdate

LEMMA SendDataIInv == ASSUME IInv, NEW c \in Clients, NEW p \in Path, SendData(c, p) PROVE IInv'
<1>1. /\ client[c].pc = "up" /\ p \in client[c].paths /\ client' = client /\ UNCHANGED relayVars
      /\ net' = net \cup {[type |-> "data", sess |-> client[c].sess, path |-> p]}
  BY DEF SendData
<1>2. client[c].sess \in Session /\ client[c].sess <= made /\ Joined(client[c].sess, p)
  BY <1>1, ClientFacts, RelayAssumption DEF ClientInv, Session
<1>3. PICK m : m = [type |-> "data", sess |-> client[c].sess, path |-> p]
  OBVIOUS
<1>4. m \in Message /\ PacketInv(m)
  BY <1>2, <1>3, MessageMade DEF PacketInv
<1>5. net' \subseteq Message /\ \A k \in net' : k \in net \/ PacketInv(k)
  BY <1>1, <1>3, <1>4, ClientFacts
<1>6. client' = [client EXCEPT ![c] = client[c]]
  BY <1>1 DEF IInv
<1> QED
  BY <1>1, <1>5, <1>6, ClientFacts, ClientUpdate

-----------------------------------------------------------------------------
(* The relay's steps *)

\* A step that changes nothing but the paths of sessions and the record of what
\* was heard, opened or is pending: names, addresses and tables stay.
LEMMA PathUpdate ==
  ASSUME IInv, client' = client,
         UNCHANGED <<made, tables, allocated, seen, drained>>, pending' \subseteq 1..made,
         NEW s \in 1..made, NEW x \in SessionState, session' = [session EXCEPT ![s] = x],
         x.client = session[s].client, x.index = session[s].index, x.ip = session[s].ip,
         \A p \in Path : Joined(s, p) => x.paths[p] \in {"active", "dead"},
         \A p \in Path : x.paths[p] # "joining",
         net' \subseteq Message, \A m \in net' : m \in net \/ PacketInv(m)'
  PROVE  IInv'
<1> USE RelayAssumption
<1>1. UNCHANGED <<made, byIndex, byTunnelIP, byClientKey, allocated, seen, drained>>
  BY DEF tables
<1>2. s \in Session /\ made \in 0..MaxSessions
  BY DEF IInv, RelayTypes, Session
<1>3. \A t \in Session : session'[t] = IF t = s THEN x ELSE session[t]
  BY <1>2 DEF IInv, RelayTypes
<1>4. RelayTypes'
  <2>1. session' \in [Session -> SessionState \cup {NoSession}]
    BY <1>2 DEF IInv, RelayTypes
  <2>2. \A t \in Session : IF t > made THEN session'[t] = NoSession ELSE session'[t] \in SessionState
    BY <1>2, <1>3 DEF IInv, RelayTypes, Session
  <2> QED
    BY <1>1, <2>1, <2>2 DEF IInv, RelayTypes
<1>5. \A t \in 1..made : /\ session'[t].client = session[t].client
                         /\ session'[t].index = session[t].index
                         /\ session'[t].ip = session[t].ip
  BY <1>2, <1>3 DEF Session
<1>6. \A t \in 1..made, p \in Path : Joined(t, p) => Joined(t, p)'
  BY <1>2, <1>3 DEF Joined, Session
<1>7. \A c \in Clients : ClientInv(client[c])'
  <2> SUFFICES ASSUME NEW c \in Clients PROVE ClientInv(client[c])'
    OBVIOUS
  <2>1. client[c].sess # 0 => client[c].sess \in 1..made /\ client[c].paths \subseteq Path
    BY ClientFacts DEF ClientInv, ClientState
  <2> QED
    BY <1>1, <1>6, <2>1, ClientFacts DEF ClientInv
<1>8. \A m \in net : PacketInv(m)'
  <2> SUFFICES ASSUME NEW m \in net PROVE PacketInv(m)'
    OBVIOUS
  <2>1. PacketInv(m) /\ m \in Message /\ 0 \in Path
    BY DEF IInv, Path
  <2>2. m.type \in {"resp", "ack", "data"} => m.sess \in 1..made
    BY <1>2, <2>1, MessageFields DEF PacketInv, Session
  <2> QED
    BY <1>1, <1>6, <2>1, <2>2, MessageFields DEF PacketInv
<1>9. \A t \in 1..made, p \in Path : session'[t].paths[p] # "joining"
  BY <1>2, <1>3 DEF IInv, Session
<1>10. \A i \in Indices : byIndex[i] # 0 => byIndex[i] \in 1..made
  BY <1>2 DEF IInv, RelayTypes
<1>11. \A a \in IP : byTunnelIP[a] # 0 => byTunnelIP[a] \in 1..made
  BY <1>2 DEF IInv, RelayTypes
<1>12. \A c \in Clients : byClientKey[c] # 0 => byClientKey[c] \in 1..made
  BY <1>2 DEF IInv, RelayTypes
<1>13. TablesAgree'
  <2>1. TablesAgree
    BY DEF IInv
  <2> QED
    BY <1>1, <1>5, <1>10, <1>11, <1>12, <2>1 DEF TablesAgree, Current
<1>14. Indexed'
  <2>1. Indexed
    BY DEF IInv
  <2> QED
    BY <1>1, <1>5, <1>10, <1>11, <2>1 DEF Indexed
<1>15. Known'
  <2> SUFFICES ASSUME NEW t \in 1..made
               PROVE  LET k == byClientKey[session'[t].client]
                      IN k # 0 /\ session'[t].ip = session'[k].ip /\ session'[t].index = session'[k].index
    BY <1>1 DEF Known
  <2>1. session[t].client \in Clients
    BY Parts, SessionRange
  <2> QED
    BY <1>5, <1>12, <2>1 DEF IInv, Known
<1>16. PoolInv'
  <2>1. Served' = Served
    BY <1>1, <1>5 DEF Served
  <2> QED
    BY <1>1, <2>1 DEF IInv, PoolInv
<1> QED
  BY <1>1, <1>4, <1>7, <1>8, <1>9, <1>13, <1>14, <1>15, <1>16 DEF IInv

LEMMA HandlePathAddIInv == ASSUME IInv, NEW m \in net, HandlePathAdd(m) PROVE IInv'
<1> USE RelayAssumption
<1>1. /\ m.type = "add" /\ Receive(m, {[type |-> "ack", sess |-> m.sess, path |-> m.path]})
      /\ client' = client /\ UNCHANGED <<made, tables, allocated, seen, drained, pending>>
  BY DEF HandlePathAdd
<1>2. PICK s \in 1..made, p \in Path : s = m.sess /\ p = m.path
  <2>1. m \in Message /\ PacketInv(m) /\ made \in 0..MaxSessions
    BY DEF IInv, RelayTypes
  <2>2. m.sess \in Session /\ m.path \in Path /\ m.sess <= made
    BY <1>1, <2>1, MessageFields DEF PacketInv
  <2> QED
    BY <2>1, <2>2 DEF Session
<1>3. s \in Session /\ session[s] \in SessionState /\ pending' \subseteq 1..made /\ net \subseteq Message
  BY <1>1 DEF IInv, RelayTypes, Session
<1>4. PICK x : x = [session[s] EXCEPT !.paths[p] = "active", !.opened = session[s].opened \cup {p}]
  OBVIOUS
<1>5. /\ x \in SessionState
      /\ x.client = session[s].client /\ x.index = session[s].index /\ x.ip = session[s].ip
      /\ \A q \in Path : x.paths[q] = IF q = p THEN "active" ELSE session[s].paths[q]
  BY <1>2, <1>3, <1>4 DEF SessionState
<1>6. session' = [session EXCEPT ![s] = x]
  <2>1. session' = [session EXCEPT ![s].paths[p] = "active", ![s].opened = session[s].opened \cup {p}]
    BY <1>2, <1>3 DEF HandlePathAdd, IInv, RelayTypes, SessionState
  <2> QED
    BY <2>1, <1>3, <1>4 DEF IInv, RelayTypes
<1>7. PICK k : k = [type |-> "ack", sess |-> s, path |-> p]
  OBVIOUS
<1>8. k \in Message /\ net' \subseteq net \cup {k}
  BY <1>1, <1>2, <1>3, <1>7, MessageMade, ReceiveFacts
<1>9. PacketInv(k)'
  <2>1. session'[s].paths[p] = "active" /\ made' = made
    BY <1>1, <1>3, <1>5, <1>6 DEF IInv, RelayTypes
  <2> QED
    BY <1>2, <1>7, <2>1 DEF PacketInv, Joined
<1>10. /\ \A q \in Path : Joined(s, q) => x.paths[q] \in {"active", "dead"}
       /\ \A q \in Path : x.paths[q] # "joining"
  BY <1>5 DEF Joined, IInv
<1> QED
  BY <1>1, <1>3, <1>5, <1>6, <1>8, <1>9, <1>10, PathUpdate

LEMMA HandleDataIInv == ASSUME IInv, NEW m \in net, HandleData(m) PROVE IInv'
<1> USE RelayAssumption
<1>1. /\ m.type = "data" /\ Receive(m, {}) /\ client' = client
      /\ UNCHANGED <<made, tables, allocated, seen, drained>>
      /\ pending' \in {pending, pending \cup {m.sess}}
  BY DEF HandleData
<1>2. PICK s \in 1..made, p \in Path : s = m.sess /\ p = m.path /\ Joined(s, p)
  <2>1. m \in Message /\ PacketInv(m) /\ made \in 0..MaxSessions
    BY DEF IInv, RelayTypes
  <2>2. m.sess \in Session /\ m.path \in Path /\ m.sess <= made /\ Joined(m.sess, m.path)
    BY <1>1, <2>1, MessageFields DEF PacketInv
  <2> QED
    BY <2>1, <2>2 DEF Session
<1>3. s \in Session /\ session[s] \in SessionState /\ pending' \subseteq 1..made /\ net \subseteq Message
  BY <1>1, <1>2 DEF IInv, RelayTypes, Session
<1>4. PICK x : x = [session[s] EXCEPT !.heard = session[s].heard \cup {p}]
  OBVIOUS
<1>5. /\ x \in SessionState /\ x.paths = session[s].paths
      /\ x.client = session[s].client /\ x.index = session[s].index /\ x.ip = session[s].ip
  BY <1>3, <1>4 DEF SessionState
<1>6. session' = [session EXCEPT ![s] = x]
  <2>1. session[s].paths[p] # "none"
    BY <1>2 DEF Joined
  <2>2. PICK y : y = [session[s] EXCEPT !.paths[p] = session[s].paths[p],
                                        !.heard = session[s].heard \cup {p}]
    OBVIOUS
  <2>3. session' = [session EXCEPT ![s] = y]
    BY <1>2, <1>3, <2>1, <2>2 DEF HandleData, IInv, RelayTypes, SessionState
  <2>4. y = x
    BY <1>3, <1>4, <2>2 DEF SessionState
  <2> QED
    BY <2>3, <2>4
<1>7. net' \subseteq net
  BY <1>1, ReceiveFacts
<1>8. /\ \A q \in Path : Joined(s, q) => x.paths[q] \in {"active", "dead"}
      /\ \A q \in Path : x.paths[q] # "joining"
  BY <1>5 DEF Joined, IInv
<1> QED
  BY <1>1, <1>3, <1>5, <1>6, <1>7, <1>8, PathUpdate

LEMMA LivenessLoopIInv ==
  ASSUME IInv, NEW s \in Session, NEW p \in Path, LivenessLoop(s, p) PROVE IInv'
<1> USE RelayAssumption
<1>1. /\ s \in 1..made /\ net' = net /\ client' = client
      /\ UNCHANGED <<made, tables, allocated, seen, drained, pending>>
      /\ session' = [session EXCEPT ![s].paths[p] = "dead"]
  BY DEF LivenessLoop
<1>2. session[s] \in SessionState /\ pending' \subseteq 1..made /\ net \subseteq Message
  BY <1>1 DEF IInv, RelayTypes
<1>3. PICK x : x = [session[s] EXCEPT !.paths[p] = "dead"]
  OBVIOUS
<1>4. /\ x \in SessionState
      /\ x.client = session[s].client /\ x.index = session[s].index /\ x.ip = session[s].ip
      /\ \A q \in Path : x.paths[q] = IF q = p THEN "dead" ELSE session[s].paths[q]
  BY <1>2, <1>3 DEF SessionState
<1>5. session' = [session EXCEPT ![s] = x]
  BY <1>1, <1>3 DEF IInv, RelayTypes
<1>6. /\ \A q \in Path : Joined(s, q) => x.paths[q] \in {"active", "dead"}
      /\ \A q \in Path : x.paths[q] # "joining"
  BY <1>1, <1>4 DEF Joined, IInv
<1> QED
  BY <1>1, <1>2, <1>4, <1>5, <1>6, PathUpdate

\* ServeReorder and its goroutines touch only their own bookkeeping.
\* A step that changes no client, packet, session or table.
LEMMA SameSessions ==
  ASSUME IInv, RelayTypes',
         UNCHANGED <<client, net, made, session, byIndex, byTunnelIP, byClientKey, allocated>>
  PROVE  IInv'
<1>1. \A c \in Clients : ClientInv(client[c])'
  BY DEF IInv, ClientInv, Joined
<1>2. \A m \in net' : PacketInv(m)'
  BY DEF IInv, PacketInv, Joined
<1>3. TablesAgree'
  BY DEF IInv, TablesAgree, Current
<1>4. Indexed' /\ Known'
  BY DEF IInv, Indexed, Known
<1>5. PoolInv'
  BY DEF IInv, PoolInv, Served
<1>6. /\ client' \in [Clients -> ClientState] /\ net' \subseteq Message
      /\ \A s \in 1..made', p \in Path : session'[s].paths[p] # "joining"
  BY DEF IInv
<1> QED
  BY <1>1, <1>2, <1>3, <1>4, <1>5, <1>6 DEF IInv

LEMMA DrainIInv ==
  ASSUME IInv, ServeReorder \/ \E s \in Session : DrainSessionReorder(s) PROVE IInv'
<1>1. UNCHANGED <<client, net, made, session, byIndex, byTunnelIP, byClientKey, allocated>>
  BY DEF ServeReorder, DrainSessionReorder, tables
<1>2. RelayTypes /\ made \in 0..MaxSessions
  BY DEF IInv, RelayTypes
<1>3. seen' \subseteq Indices /\ drained' \subseteq 1..made /\ pending' \subseteq 1..made
  <2>1. CASE ServeReorder
    <3>1. ASSUME NEW i \in Indices, byIndex[i] # 0 PROVE byIndex[i] \in 1..made
      BY <1>2, <3>1, RelayAssumption DEF RelayTypes
    <3> QED
      BY <1>2, <2>1, <3>1 DEF RelayTypes, ServeReorder
  <2>2. CASE \E s \in Session : DrainSessionReorder(s)
    BY <1>2, <2>2 DEF RelayTypes, DrainSessionReorder
  <2> QED
    BY <2>1, <2>2
<1>4. RelayTypes'
  BY <1>1, <1>2, <1>3 DEF RelayTypes
<1> QED
  BY <1>1, <1>4, SameSessions

\* The address and index handleHandshakeInit takes for client c: those of the
\* session it replaces or, for a new client, unused ones.
Takes(c, i, a) ==
  \/ /\ byClientKey[c] # 0
     /\ i = session[byClientKey[c]].index /\ a = session[byClientKey[c]].ip
     /\ allocated' = allocated
  \/ /\ byClientKey[c] = 0 /\ byIndex[i] = 0
     /\ allocated < PoolSize /\ a = allocated + 1 /\ allocated' = allocated + 1

\* They are no other client's, and the client has no others.
LEMMA TakenPlace ==
  ASSUME IInv, NEW c \in Clients, NEW i \in Indices, NEW a \in IP, Takes(c, i, a)
  PROVE  /\ \A d \in Clients \ {c} : byClientKey[d] # 0 =>
              session[byClientKey[d]].index # i /\ session[byClientKey[d]].ip # a
         /\ \A j \in Indices \ {i} : byIndex[j] # 0 => session[byIndex[j]].client # c
         /\ \A b \in IP \ {a} : byTunnelIP[b] # 0 => session[byTunnelIP[b]].client # c
         /\ \A t \in 1..made : session[t].client = c =>
              byClientKey[c] # 0 /\ session[t].ip = a /\ session[t].index = i
         /\ allocated' \in 0..PoolSize /\ a <= allocated' /\ allocated <= allocated'
<1>1. RelayTypes /\ TablesAgree /\ Indexed /\ Known
  BY Parts
<1>2. allocated \in 0..PoolSize /\ allocated \in Nat
  BY <1>1, RelayAssumption DEF RelayTypes
<1>3. PICK old : old = byClientKey[c]
  OBVIOUS
<1>4. CASE old # 0
  <2>1. i = session[old].index /\ a = session[old].ip /\ allocated' = allocated
    BY <1>3, <1>4 DEF Takes
  <2>2. session[old].client = c /\ byIndex[i] = old /\ byTunnelIP[a] = old
    BY <1>1, <1>3, <1>4, <2>1 DEF TablesAgree, Current
  <2>3. a <= allocated
    BY <1>1, <1>4, <2>2 DEF Indexed
  <2>4. ASSUME NEW d \in Clients \ {c}, byClientKey[d] # 0
        PROVE  session[byClientKey[d]].index # i /\ session[byClientKey[d]].ip # a
    BY <1>1, <2>2, <2>4 DEF TablesAgree, Current
  <2>5. ASSUME NEW j \in Indices \ {i}, byIndex[j] # 0, session[byIndex[j]].client = c PROVE FALSE
    <3>1. byIndex[j] = old
      BY <1>1, <1>3, <2>5 DEF TablesAgree
    <3>2. session[byIndex[j]].index = j
      BY <1>1, <2>5 DEF Indexed
    <3> QED
      BY <2>1, <3>1, <3>2
  <2>6. ASSUME NEW b \in IP \ {a}, byTunnelIP[b] # 0, session[byTunnelIP[b]].client = c PROVE FALSE
    <3>1. byTunnelIP[b] = old
      BY <1>1, <1>3, <2>6 DEF TablesAgree
    <3>2. session[byTunnelIP[b]].ip = b
      BY <1>1, <2>6 DEF Indexed
    <3> QED
      BY <2>1, <3>1, <3>2
  <2>7. ASSUME NEW t \in 1..made, session[t].client = c
        PROVE  byClientKey[c] # 0 /\ session[t].ip = a /\ session[t].index = i
    BY <1>1, <1>3, <2>1, <2>7 DEF Known
  <2>8. allocated' \in 0..PoolSize /\ a <= allocated' /\ allocated <= allocated'
    BY <1>2, <2>1, <2>3
  <2> QED
    BY <2>4, <2>5, <2>6, <2>7, <2>8
<1>5. CASE old = 0
  <2>1. /\ byIndex[i] = 0 /\ allocated < PoolSize
        /\ a = allocated + 1 /\ allocated' = allocated + 1
    BY <1>3, <1>5 DEF Takes
  <2>2. byTunnelIP[a] = 0
    <3> SUFFICES ASSUME byTunnelIP[a] # 0 PROVE FALSE
      OBVIOUS
    <3>1. a <= allocated
      BY <1>1 DEF Indexed
    <3> QED
      BY <1>2, <2>1, <3>1
  <2>3. ASSUME NEW d \in Clients \ {c}, byClientKey[d] # 0
        PROVE  session[byClientKey[d]].index # i /\ session[byClientKey[d]].ip # a
    BY <1>1, <2>1, <2>2, <2>3 DEF TablesAgree, Current
  <2>4. ASSUME NEW j \in Indices, byIndex[j] # 0 PROVE session[byIndex[j]].client # c
    <3>1. byClientKey[session[byIndex[j]].client] = byIndex[j]
      BY <1>1, <2>4 DEF TablesAgree
    <3> QED
      BY <1>3, <1>5, <2>4, <3>1
  <2>5. ASSUME NEW b \in IP, byTunnelIP[b] # 0 PROVE session[byTunnelIP[b]].client # c
    <3>1. byClientKey[session[byTunnelIP[b]].client] = byTunnelIP[b]
      BY <1>1, <2>5 DEF TablesAgree
    <3> QED
      BY <1>3, <1>5, <2>5, <3>1
  <2>6. ASSUME NEW t \in 1..made PROVE session[t].client # c
    <3>1. byClientKey[session[t].client] # 0
      BY <1>1 DEF Known
    <3> QED
      BY <1>3, <1>5, <3>1
  <2>7. allocated' \in 0..PoolSize /\ a <= allocated' /\ allocated <= allocated'
    BY <1>2, <2>1, RelayAssumption
  <2> QED
    BY <2>3, <2>4, <2>5, <2>6, <2>7
<1> QED
  BY <1>4, <1>5


\* Session s, the next one, is filed in all tables.
Filed(c, i, a, s, n) ==
  /\ s = made + 1 /\ made' = s
  /\ n \in SessionState /\ n.client = c /\ n.index = i /\ n.ip = a
  /\ session' = [session EXCEPT ![s] = n]
  /\ byIndex' = [byIndex EXCEPT ![i] = s]
  /\ byTunnelIP' = [byTunnelIP EXCEPT ![a] = s]
  /\ byClientKey' = [byClientKey EXCEPT ![c] = s]

\* What that changes, and what it leaves alone: the sessions and each table.
LEMMA FiledSession ==
  ASSUME RelayTypes, NEW c \in Clients, NEW i \in Indices, NEW a \in IP, NEW s \in Session, NEW n,
         Filed(c, i, a, s, n)
  PROVE  /\ made' = s /\ s # 0 /\ 1..s = 1..made \cup {s}
         /\ session'[s] = n /\ \A t \in 1..made : session'[t] = session[t]
<1>1. made \in 0..MaxSessions /\ s = made + 1 /\ made' = s
  BY DEF RelayTypes, Filed
<1>2. s # 0 /\ s \notin 1..made /\ 1..s = 1..made \cup {s}
  BY <1>1, RelayAssumption
<1>3. session' = [session EXCEPT ![s] = n] /\ DOMAIN session = Session
  BY DEF RelayTypes, Filed
<1>4. session'[s] = n
  BY <1>3
<1>5. ASSUME NEW t \in 1..made PROVE session'[t] = session[t]
  <2>1. t \in Session /\ t # s
    BY <1>2, SessionRange
  <2> QED
    BY <1>3, <2>1
<1> QED
  BY <1>1, <1>2, <1>4, <1>5

LEMMA FiledByIndex ==
  ASSUME RelayTypes, NEW c \in Clients, NEW i \in Indices, NEW a \in IP, NEW s \in Session, NEW n,
         Filed(c, i, a, s, n)
  PROVE  byIndex'[i] = s /\ \A j \in Indices : j # i => byIndex'[j] = byIndex[j]
BY DEF RelayTypes, Filed

LEMMA FiledByTunnelIP ==
  ASSUME RelayTypes, NEW c \in Clients, NEW i \in Indices, NEW a \in IP, NEW s \in Session, NEW n,
         Filed(c, i, a, s, n)
  PROVE  byTunnelIP'[a] = s /\ \A b \in IP : b # a => byTunnelIP'[b] = byTunnelIP[b]
BY DEF RelayTypes, Filed

LEMMA FiledByClientKey ==
  ASSUME RelayTypes, NEW c \in Clients, NEW i \in Indices, NEW a \in IP, NEW s \in Session, NEW n,
         Filed(c, i, a, s, n)
  PROVE  byClientKey'[c] = s /\ \A d \in Clients : d # c => byClientKey'[d] = byClientKey[d]
BY DEF RelayTypes, Filed

LEMMA FiledTypes ==
  ASSUME RelayTypes, NEW c \in Clients, NEW i \in Indices, NEW a \in IP, NEW s \in Session, NEW n,
         Filed(c, i, a, s, n), UNCHANGED <<seen, drained, pending>>, allocated' \in 0..PoolSize
  PROVE  RelayTypes'
<1>1. /\ made \in 0..MaxSessions /\ s = made + 1 /\ made' = s /\ n \in SessionState
      /\ session' = [session EXCEPT ![s] = n]
      /\ session \in [Session -> SessionState \cup {NoSession}]
  BY DEF RelayTypes, Filed
<1>2. session' \in [Session -> SessionState \cup {NoSession}]
  BY <1>1
<1>3. ASSUME NEW t \in Session
      PROVE  IF t > s THEN session'[t] = NoSession ELSE session'[t] \in SessionState
  <2>1. t \in Int /\ s \in Int
    BY RelayAssumption DEF Session
  <2>2. CASE t = s
    BY <1>1, <2>1, <2>2
  <2>3. CASE t # s
    <3>1. session'[t] = session[t] /\ (t > s <=> t > made)
      BY <1>1, <2>1, <2>3, RelayAssumption
    <3> QED
      BY <3>1 DEF RelayTypes
  <2> QED
    BY <2>2, <2>3
<1>4. 0..made \subseteq 0..s /\ 1..made \subseteq 1..s /\ s \in 0..s /\ s \in 0..MaxSessions
  BY <1>1, RelayAssumption DEF Session
<1>5. byIndex' \in [Indices -> 0..s]
  BY <1>4 DEF RelayTypes, Filed
<1>6. byTunnelIP' \in [IP -> 0..s]
  BY <1>4 DEF RelayTypes, Filed
<1>7. byClientKey' \in [Clients -> 0..s]
  BY <1>4 DEF RelayTypes, Filed
<1>8. seen' \subseteq Indices /\ drained' \subseteq 1..s /\ pending' \subseteq 1..s
  BY <1>4 DEF RelayTypes
<1> QED
  BY <1>1, <1>2, <1>3, <1>4, <1>5, <1>6, <1>7, <1>8 DEF RelayTypes

LEMMA FiledTables ==
  ASSUME IInv, NEW c \in Clients, NEW i \in Indices, NEW a \in IP, NEW s \in Session, NEW n,
         Filed(c, i, a, s, n), Takes(c, i, a)
  PROVE  TablesAgree'
<1>1. RelayTypes /\ TablesAgree
  BY Parts
<1>sess. /\ made' = s /\ s # 0 /\ 1..s = 1..made \cup {s}
         /\ session'[s] = n /\ \A t \in 1..made : session'[t] = session[t]
  BY <1>1, FiledSession
<1>idx. byIndex'[i] = s /\ \A j \in Indices : j # i => byIndex'[j] = byIndex[j]
  BY <1>1, FiledByIndex
<1>ips. byTunnelIP'[a] = s /\ \A b \in IP : b # a => byTunnelIP'[b] = byTunnelIP[b]
  BY <1>1, FiledByTunnelIP
<1>keys. byClientKey'[c] = s /\ \A d \in Clients : d # c => byClientKey'[d] = byClientKey[d]
  BY <1>1, FiledByClientKey
<1>new. n.client = c /\ n.index = i /\ n.ip = a
  BY DEF Filed
<1>2. /\ session'[s].client = c /\ session'[s].index = i /\ session'[s].ip = a
      /\ byIndex'[i] = s /\ byTunnelIP'[a] = s /\ byClientKey'[c] = s
  BY <1>sess, <1>idx, <1>ips, <1>keys, <1>new
<1>3. ASSUME NEW d \in Clients, byClientKey'[d] # 0
      PROVE  LET k == byClientKey'[d]
             IN /\ session'[k].client = d /\ byIndex'[session'[k].index] = k
                /\ byTunnelIP'[session'[k].ip] = k
  <2>1. CASE d = c
    BY <1>2, <2>1
  <2>2. CASE d # c
    <3>1. PICK k : k = byClientKey[d] /\ byClientKey'[d] = k
      BY <2>2, <1>keys
    <3>2. k \in 1..made
      BY <1>1, <1>3, <3>1, TableRange
    <3>3. session'[k] = session[k] /\ session[k].index \in Indices /\ session[k].ip \in IP
      BY <1>1, <3>2, <1>sess, SessionRange
    <3>4. session[k].index # i /\ session[k].ip # a
      BY <1>3, <2>2, <3>1, TakenPlace
    <3>5. session[k].client = d /\ byIndex[session[k].index] = k /\ byTunnelIP[session[k].ip] = k
      BY <1>1, <1>3, <3>1 DEF TablesAgree, Current
    <3>6. byIndex'[session[k].index] = k /\ byTunnelIP'[session[k].ip] = k
      BY <3>3, <3>4, <3>5, <1>idx, <1>ips
    <3> QED
      BY <3>1, <3>3, <3>5, <3>6
  <2> QED
    BY <2>1, <2>2
<1>4. ASSUME NEW j \in Indices, byIndex'[j] # 0
      PROVE  byClientKey'[session'[byIndex'[j]].client] = byIndex'[j]
  <2>1. CASE j = i
    BY <1>2, <2>1
  <2>2. CASE j # i
    <3>1. PICK k : k = byIndex[j] /\ byIndex'[j] = k
      BY <2>2, <1>idx
    <3>2. k \in 1..made
      BY <1>1, <1>4, <3>1, TableRange
    <3>3. session'[k] = session[k] /\ session[k].client \in Clients
      BY <1>1, <3>2, <1>sess, SessionRange
    <3>4. session[k].client # c
      BY <1>4, <2>2, <3>1, TakenPlace
    <3>5. byClientKey[session[k].client] = k
      BY <1>1, <1>4, <3>1 DEF TablesAgree
    <3>6. byClientKey'[session[k].client] = k
      BY <3>3, <3>4, <3>5, <1>keys
    <3> QED
      BY <3>1, <3>3, <3>6
  <2> QED
    BY <2>1, <2>2
<1>5. ASSUME NEW b \in IP, byTunnelIP'[b] # 0
      PROVE  byClientKey'[session'[byTunnelIP'[b]].client] = byTunnelIP'[b]
  <2>1. CASE b = a
    BY <1>2, <2>1
  <2>2. CASE b # a
    <3>1. PICK k : k = byTunnelIP[b] /\ byTunnelIP'[b] = k
      BY <2>2, <1>ips
    <3>2. k \in 1..made
      BY <1>1, <1>5, <3>1, TableRange
    <3>3. session'[k] = session[k] /\ session[k].client \in Clients
      BY <1>1, <3>2, <1>sess, SessionRange
    <3>4. session[k].client # c
      BY <1>5, <2>2, <3>1, TakenPlace
    <3>5. byClientKey[session[k].client] = k
      BY <1>1, <1>5, <3>1 DEF TablesAgree
    <3>6. byClientKey'[session[k].client] = k
      BY <3>3, <3>4, <3>5, <1>keys
    <3> QED
      BY <3>1, <3>3, <3>6
  <2> QED
    BY <2>1, <2>2
<1> QED
  BY <1>3, <1>4, <1>5 DEF TablesAgree, Current

LEMMA FiledIndexed ==
  ASSUME IInv, NEW c \in Clients, NEW i \in Indices, NEW a \in IP, NEW s \in Session, NEW n,
         Filed(c, i, a, s, n), Takes(c, i, a)
  PROVE  Indexed'
<1>1. RelayTypes /\ Indexed
  BY Parts
<1>sess. /\ made' = s /\ s # 0 /\ 1..s = 1..made \cup {s}
         /\ session'[s] = n /\ \A t \in 1..made : session'[t] = session[t]
  BY <1>1, FiledSession
<1>idx. byIndex'[i] = s /\ \A j \in Indices : j # i => byIndex'[j] = byIndex[j]
  BY <1>1, FiledByIndex
<1>ips. byTunnelIP'[a] = s /\ \A b \in IP : b # a => byTunnelIP'[b] = byTunnelIP[b]
  BY <1>1, FiledByTunnelIP
<1>new. n.client = c /\ n.index = i /\ n.ip = a
  BY DEF Filed
<1>2. /\ session'[s].index = i /\ session'[s].ip = a
      /\ byIndex'[i] = s /\ byTunnelIP'[a] = s
  BY <1>sess, <1>idx, <1>ips, <1>new
<1>3. a <= allocated' /\ allocated <= allocated' /\ allocated' \in Int
  BY TakenPlace
<1>4. ASSUME NEW j \in Indices, byIndex'[j] # 0 PROVE session'[byIndex'[j]].index = j
  <2>1. CASE j = i
    BY <1>2, <2>1
  <2>2. CASE j # i
    <3>1. PICK k : k = byIndex[j] /\ byIndex'[j] = k
      BY <2>2, <1>idx
    <3>2. k \in 1..made
      BY <1>1, <1>4, <3>1, TableRange
    <3>3. session'[k] = session[k]
      BY <3>2, <1>sess
    <3>4. session[k].index = j
      BY <1>1, <1>4, <3>1 DEF Indexed
    <3> QED
      BY <3>1, <3>3, <3>4
  <2> QED
    BY <2>1, <2>2
<1>5. ASSUME NEW b \in IP, byTunnelIP'[b] # 0
      PROVE  session'[byTunnelIP'[b]].ip = b /\ b <= allocated'
  <2>1. CASE b = a
    BY <1>2, <1>3, <2>1
  <2>2. CASE b # a
    <3>1. PICK k : k = byTunnelIP[b] /\ byTunnelIP'[b] = k
      BY <2>2, <1>ips
    <3>2. k \in 1..made
      BY <1>1, <1>5, <3>1, TableRange
    <3>3. session'[k] = session[k]
      BY <3>2, <1>sess
    <3>4. session[k].ip = b /\ b <= allocated
      BY <1>1, <1>5, <3>1 DEF Indexed
    <3>5. b \in Int /\ allocated \in Int
      BY <1>1, RelayAssumption DEF RelayTypes, IP
    <3>6. b <= allocated'
      BY <1>3, <3>4, <3>5
    <3> QED
      BY <3>1, <3>3, <3>4, <3>6
  <2> QED
    BY <2>1, <2>2
<1> QED
  BY <1>4, <1>5 DEF Indexed

LEMMA FiledKnown ==
  ASSUME IInv, NEW c \in Clients, NEW i \in Indices, NEW a \in IP, NEW s \in Session, NEW n,
         Filed(c, i, a, s, n), Takes(c, i, a)
  PROVE  Known'
<1>1. RelayTypes /\ Known
  BY Parts
<1>sess. /\ made' = s /\ s # 0 /\ 1..s = 1..made \cup {s}
         /\ session'[s] = n /\ \A t \in 1..made : session'[t] = session[t]
  BY <1>1, FiledSession
<1>keys. byClientKey'[c] = s /\ \A d \in Clients : d # c => byClientKey'[d] = byClientKey[d]
  BY <1>1, FiledByClientKey
<1>new. n.client = c /\ n.index = i /\ n.ip = a
  BY DEF Filed
<1>2. /\ session'[s].client = c /\ session'[s].index = i /\ session'[s].ip = a
      /\ byClientKey'[c] = s /\ s # 0 /\ made' = s /\ 1..s = 1..made \cup {s}
  BY <1>sess, <1>keys, <1>new
<1>3. ASSUME NEW t \in 1..s
      PROVE  LET k == byClientKey'[session'[t].client]
             IN k # 0 /\ session'[t].ip = session'[k].ip /\ session'[t].index = session'[k].index
  <2>1. CASE t = s
    BY <1>2, <2>1
  <2>2. CASE t \in 1..made
    <3>1. session'[t] = session[t] /\ session[t].client \in Clients
      BY <1>1, <2>2, <1>sess, SessionRange
    <3>2. CASE session[t].client = c
      <4>1. session[t].ip = a /\ session[t].index = i
        BY <2>2, <3>2, TakenPlace
      <4> QED
        BY <1>2, <3>1, <3>2, <4>1
    <3>3. CASE session[t].client # c
      <4>1. PICK k : k = byClientKey[session[t].client]
        OBVIOUS
      <4>2. k # 0 /\ session[t].ip = session[k].ip /\ session[t].index = session[k].index
        BY <1>1, <2>2, <4>1 DEF Known
      <4>3. k \in 1..made /\ byClientKey'[session[t].client] = k
        <5>1. k \in 1..made
          BY <1>1, <3>1, <4>1, <4>2, TableRange
        <5>2. byClientKey'[session[t].client] = k
          BY <3>1, <3>3, <4>1, <1>keys
        <5> QED
          BY <5>1, <5>2
      <4>4. session'[k] = session[k]
        BY <4>3, <1>sess
      <4> QED
        BY <3>1, <4>2, <4>3, <4>4
    <3> QED
      BY <3>2, <3>3
  <2> QED
    BY <1>2, <2>1, <2>2
<1> QED
  BY <1>2, <1>3 DEF Known

\* As many addresses are handed out as there are clients served.
LEMMA FiledPool ==
  ASSUME IInv, NEW c \in Clients, NEW i \in Indices, NEW a \in IP, NEW s \in Session, NEW n,
         Filed(c, i, a, s, n), Takes(c, i, a)
  PROVE  PoolInv'
<1>1. RelayTypes /\ TablesAgree /\ PoolInv
  BY Parts
<1>2. IsFiniteSet(Served) /\ allocated = Cardinality(Served)
  BY <1>1 DEF PoolInv
<1>3. Served' = Served \cup {c}
  <2>1. /\ made' = s /\ s # 0 /\ 1..s = 1..made \cup {s}
        /\ session'[s] = n /\ \A t \in 1..made : session'[t] = session[t]
    BY <1>1, FiledSession
  <2>2. n.client = c
    BY DEF Filed
  <2> QED
    BY <2>1, <2>2 DEF Served
<1>4. CASE byClientKey[c] # 0
  <2>1. byClientKey[c] \in 1..made
    BY <1>1, <1>4, TableRange
  <2>2. session[byClientKey[c]].client = c
    BY <1>1, <1>4 DEF TablesAgree, Current
  <2>3. c \in Served
    BY <2>1, <2>2 DEF Served
  <2>4. allocated' = allocated
    BY <1>4 DEF Takes
  <2>5. Served' = Served
    BY <1>3, <2>3
  <2> QED
    BY <1>2, <2>4, <2>5 DEF PoolInv
<1>5. CASE byClientKey[c] = 0
  <2>1. c \notin Served
    <3>1. \A t \in 1..made : session[t].client # c
      BY <1>5, TakenPlace
    <3> QED
      BY <3>1 DEF Served
  <2>2. allocated' = allocated + 1
    BY <1>5 DEF Takes
  <2>3. IsFiniteSet(Served \cup {c}) /\ Cardinality(Served \cup {c}) = Cardinality(Served) + 1
    BY <1>2, <2>1, FS_AddElement
  <2> QED
    BY <1>2, <1>3, <2>2, <2>3 DEF PoolInv
<1> QED
  BY <1>4, <1>5

\* The session object that handleHandshakeInit makes.
LEMMA NewSessionFacts ==
  ASSUME NEW c \in Clients, NEW i \in Indices, NEW a \in IP, NEW n, n = NewSession(c, i, a)
  PROVE  /\ n \in SessionState /\ n.client = c /\ n.index = i /\ n.ip = a
         /\ n.paths[0] = "active" /\ \A p \in Path : n.paths[p] # "joining"
<1>1. 0 \in Path
  BY RelayAssumption DEF Path
<1>2. PICK f \in [Path -> {"none", "joining", "active", "dead"}] :
        f = [p \in Path |-> IF p = 0 THEN "active" ELSE "none"]
  OBVIOUS
<1>3. n = [client |-> c, index |-> i, ip |-> a, paths |-> f, heard |-> {}, opened |-> {}]
  BY <1>2 DEF NewSession
<1>4. n \in SessionState
  BY <1>3 DEF SessionState
<1>5. n.client = c /\ n.index = i /\ n.ip = a /\ n.paths = f
  BY <1>3
<1>6. f[0] = "active" /\ \A p \in Path : f[p] # "joining"
  BY <1>1, <1>2
<1> QED
  BY <1>4, <1>5, <1>6

\* handleHandshakeInit, for a known client or a new one.
LEMMA EstablishIInv ==
  ASSUME IInv, NEW m \in net, m.type = "init", made < MaxSessions,
         NEW c \in Clients, c = m.from, NEW i \in Indices, NEW a \in IP,
         Establish(m, i, a), Takes(c, i, a), UNCHANGED <<client, seen, drained, pending>>
  PROVE  IInv'
<1>1. RelayTypes
  BY Parts
<1>2. PICK s \in Session : s = made + 1
  BY <1>1, RelayAssumption DEF RelayTypes, Session
<1>3. PICK n : n = NewSession(c, i, a)
  OBVIOUS
<1>4. /\ n \in SessionState /\ n.client = c /\ n.index = i /\ n.ip = a
      /\ n.paths[0] = "active" /\ \A p \in Path : n.paths[p] # "joining"
  BY <1>3, NewSessionFacts
<1>5. Filed(c, i, a, s, n)
  BY <1>2, <1>3, <1>4 DEF Establish, Filed
<1>6. PICK k : k = [type |-> "resp", to |-> c, dial |-> m.dial, sess |-> s]
  OBVIOUS
<1>7. Receive(m, {k})
  BY <1>2, <1>6 DEF Establish
<1>8. /\ made' = s /\ s # 0 /\ 1..s = 1..made \cup {s}
      /\ session'[s] = n /\ \A t \in 1..made : session'[t] = session[t]
  BY <1>1, <1>5, FiledSession
<1>9. /\ made \in Int /\ s \in Int /\ made <= s
      /\ \A t \in Int : 1 <= t /\ t <= made => t \in 1..made /\ t <= s
  BY <1>1, <1>2, RelayAssumption DEF RelayTypes, Session
<1>10. ASSUME NEW t \in 1..made, NEW p \in Path, Joined(t, p) PROVE Joined(t, p)'
  BY <1>8, <1>10 DEF Joined
<1>11. RelayTypes'
  <2>1. allocated' \in 0..PoolSize
    BY TakenPlace
  <2> QED
    BY <1>1, <1>5, <2>1, FiledTypes
<1>12. ASSUME NEW d \in Clients PROVE ClientInv(client[d])'
  <2>1. PICK x \in ClientState : x = client[d] /\ ClientInv(x)
    BY ClientFacts
  <2>2. x.sess \in Nat /\ x.paths \subseteq Path
    BY <2>1, RelayAssumption DEF ClientState
  <2>3. x.sess <= made
    BY <2>1 DEF ClientInv
  <2>4. x.sess <= made'
    BY <1>8, <1>9, <2>2, <2>3
  <2>5. x.sess # 0 => x.sess \in 1..made
    BY <1>9, <2>2, <2>3
  <2>6. x.sess # 0 => \A p \in x.paths : Joined(x.sess, p)'
    BY <1>10, <2>1, <2>2, <2>5 DEF ClientInv
  <2>7. ClientInv(x)'
    BY <2>1, <2>4, <2>6 DEF ClientInv
  <2> QED
    BY <2>1, <2>7
<1>13. net' \subseteq Message /\ \A x \in net' : PacketInv(x)'
  <2>1. m \in Message /\ net \subseteq Message
    BY DEF IInv
  <2>2. k \in Message
    <3>1. m.dial \in 1..MaxDials
      BY <2>1, MessageFields
    <3> QED
      BY <1>6, <3>1, MessageMade
  <2>3. net' \subseteq net \cup {k}
    BY <1>7, ReceiveFacts
  <2>4. PacketInv(k)'
    <3>1. k.type = "resp" /\ k.sess = s
      BY <1>6
    <3>2. Joined(s, 0)'
      BY <1>4, <1>8 DEF Joined
    <3>3. k.sess <= made'
      BY <1>8, <1>9, <3>1
    <3> QED
      BY <3>1, <3>2, <3>3 DEF PacketInv
  <2>5. ASSUME NEW x \in net PROVE PacketInv(x)'
    <3>1. PacketInv(x) /\ x \in Message /\ 0 \in Path
      <4>1. PacketInv(x)
        BY DEF IInv
      <4>2. 0 \in Path
        BY RelayAssumption DEF Path
      <4> QED
        BY <2>1, <4>1, <4>2
    <3>2. ASSUME x.type \in {"resp", "add", "ack", "data"} PROVE x.sess \in 1..made /\ x.sess <= made'
      <4>1. x.sess \in Session
        BY <3>1, <3>2, MessageFields
      <4>2. x.sess <= made
        BY <3>1, <3>2 DEF PacketInv
      <4>3. x.sess \in Int /\ 1 <= x.sess
        BY <4>1, RelayAssumption DEF Session
      <4> QED
        BY <1>8, <1>9, <4>2, <4>3
    <3>3. x.type = "resp" => Joined(x.sess, 0)'
      BY <1>10, <3>1, <3>2 DEF PacketInv
    <3>4. ASSUME x.type \in {"ack", "data"} PROVE Joined(x.sess, x.path)'
      <4>1. x.path \in Path
        BY <3>1, <3>4, MessageFields
      <4> QED
        BY <1>10, <3>1, <3>2, <3>4, <4>1 DEF PacketInv
    <3> QED
      BY <3>2, <3>3, <3>4 DEF PacketInv
  <2> QED
    BY <2>1, <2>2, <2>3, <2>4, <2>5
<1>14. \A t \in 1..made', p \in Path : session'[t].paths[p] # "joining"
  <2>1. \A t \in 1..made, p \in Path : session[t].paths[p] # "joining"
    BY DEF IInv
  <2> QED
    BY <1>4, <1>8, <2>1
<1>15. TablesAgree' /\ Indexed' /\ Known' /\ PoolInv'
  BY <1>5, FiledTables, FiledIndexed, FiledKnown, FiledPool
<1>16. client' \in [Clients -> ClientState]
  BY DEF IInv
<1> QED
  BY <1>11, <1>12, <1>13, <1>14, <1>15, <1>16 DEF IInv

LEMMA HandleInitIInv == ASSUME IInv, NEW m \in net, HandleInit(m) PROVE IInv'
<1>1. m.type = "init" /\ made < MaxSessions /\ UNCHANGED <<client, seen, drained, pending>>
  BY DEF HandleInit
<1>2. PICK c \in Clients : c = m.from
  BY <1>1, MessageFields DEF IInv
<1>3. RelayTypes
  BY Parts
<1>4. \E i \in Indices, a \in IP : Establish(m, i, a) /\ Takes(c, i, a)
  <2>1. CASE byClientKey[c] # 0
    <3>1. byClientKey[c] \in 1..made
      BY <1>3, <2>1, TableRange
    <3>2. PICK i \in Indices, a \in IP : /\ i = session[byClientKey[c]].index
                                         /\ a = session[byClientKey[c]].ip
      BY <1>3, <3>1, SessionRange
    <3>3. Establish(m, i, a) /\ allocated' = allocated
      BY <1>2, <2>1, <3>2 DEF HandleInit
    <3>4. Takes(c, i, a)
      BY <2>1, <3>2, <3>3 DEF Takes
    <3> QED
      BY <3>3, <3>4
  <2>2. CASE byClientKey[c] = 0
    <3>1. /\ allocated < PoolSize /\ allocated' = allocated + 1
          /\ \E i \in {j \in Indices : byIndex[j] = 0} : Establish(m, i, allocated + 1)
      BY <1>2, <2>2 DEF HandleInit
    <3>2. PICK a \in IP : a = allocated + 1
      BY <1>3, <3>1, RelayAssumption DEF RelayTypes, IP
    <3>3. PICK i \in Indices : byIndex[i] = 0 /\ Establish(m, i, a)
      BY <3>1, <3>2
    <3>4. Takes(c, i, a)
      BY <2>2, <3>1, <3>2, <3>3 DEF Takes
    <3> QED
      BY <3>3, <3>4
  <2> QED
    BY <2>1, <2>2
<1>5. PICK i \in Indices, a \in IP : Establish(m, i, a) /\ Takes(c, i, a)
  BY <1>4
<1> QED
  BY <1>1, <1>2, <1>5, EstablishIInv

-----------------------------------------------------------------------------
\* The invariant holds in every behaviour, for any number of clients, paths,
\* dials, handshakes and addresses, with packets lost, reordered and duplicated.
THEOREM InvariantHolds == Spec => []IInv
<1>1. ASSUME IInv, Next PROVE IInv'
  <2>1. ASSUME NEW c \in Clients, ClientStep(c) PROVE IInv'
    BY <1>1, <2>1, DialIInv, SendInitIInv, DialFailsIInv, TimeoutIInv, SendAddIInv, AddFailsIInv,
       StopIInv, RecvRespIInv, RecvAckIInv, SendDataIInv DEF ClientStep
  <2>2. ASSUME RelayStep PROVE IInv'
    BY <1>1, <2>2, HandleInitIInv, HandlePathAddIInv, HandleDataIInv, LivenessLoopIInv, DrainIInv
    DEF RelayStep
  <2> QED
    BY <1>1, <2>1, <2>2 DEF Next
<1>2. ASSUME IInv, UNCHANGED vars PROVE IInv'
  <2>1. /\ UNCHANGED <<client, net, made, session, byIndex, byTunnelIP, byClientKey, allocated>>
        /\ UNCHANGED <<seen, drained, pending>>
    BY <1>2 DEF vars, relayVars, tables
  <2>2. RelayTypes'
    BY <1>2, <2>1 DEF IInv, RelayTypes
  <2> QED
    BY <1>2, <2>1, <2>2, SameSessions
<1> QED
  BY <1>1, <1>2, InitIInv, PTL DEF Spec

\* The relay's sessions and tables and the client's records keep their types.
THEOREM TypeCorrect == Spec => []TypeOK
<1>1. IInv => TypeOK
  BY DEF IInv, RelayTypes, ClientState, SessionState, TypeOK
<1> QED
  BY <1>1, InvariantHolds, PTL

\* byIndex, byTunnelIP and byClientKey lead to the same session, however
\* handshakes, retries and re-dials interleave.
THEOREM TablesAlwaysAgree == Spec => []TablesAgree
<1>1. IInv => TablesAgree
  BY DEF IInv
<1> QED
  BY <1>1, InvariantHolds, PTL

\* handleHandshakeInit never gives a client a second address or index, and never
\* gives two clients the same one.
THEOREM OneAddressPerClientHolds == Spec => []OneAddressPerClient
<1>1. ASSUME IInv PROVE OneAddressPerClient
  <2>1. ASSUME NEW s \in 1..made
        PROVE  LET k == byClientKey[session[s].client]
               IN /\ session[s].client \in Clients /\ session[s].index \in Indices /\ session[s].ip \in IP
                  /\ session[k].client = session[s].client
                  /\ k = byIndex[session[s].index] /\ k = byTunnelIP[session[s].ip]
    <3>1. RelayTypes /\ Known /\ TablesAgree
      BY <1>1, Parts
    <3>2. PICK k : k = byClientKey[session[s].client]
      OBVIOUS
    <3>3. session[s].client \in Clients /\ session[s].index \in Indices /\ session[s].ip \in IP
      BY <3>1, SessionRange
    <3>4. k # 0 /\ session[s].ip = session[k].ip /\ session[s].index = session[k].index
      BY <3>1, <3>2 DEF Known
    <3>5. /\ session[k].client = session[s].client
          /\ byIndex[session[k].index] = k /\ byTunnelIP[session[k].ip] = k
      BY <3>1, <3>2, <3>3, <3>4 DEF TablesAgree, Current
    <3> QED
      BY <3>2, <3>3, <3>4, <3>5
  <2>2. ASSUME NEW s \in 1..made, NEW t \in 1..made, session[s].client = session[t].client
        PROVE  session[s].ip = session[t].ip /\ session[s].index = session[t].index
    BY <1>1, <2>2 DEF IInv, Known
  <2>3. ASSUME NEW s \in 1..made, NEW t \in 1..made,
               session[s].ip = session[t].ip \/ session[s].index = session[t].index
        PROVE  session[s].client = session[t].client
    BY <2>1, <2>3
  <2>4. allocated = Cardinality({session[s].client : s \in 1..made})
    BY <1>1 DEF IInv, PoolInv, Served
  <2> QED
    BY <2>2, <2>3, <2>4 DEF OneAddressPerClient
<1> QED
  BY <1>1, InvariantHolds, PTL

\* Neither the client nor its data ever runs ahead of handlePathAdd: a path that
\* is used was made ACTIVE at the relay first.
THEOREM PathsJoinFirst == Spec => []PathsJoinBeforeUse
<1>1. IInv => PathsJoinBeforeUse
  BY DEF IInv, ClientInv, Joined, PathsJoinBeforeUse
<1> QED
  BY <1>1, InvariantHolds, PTL
=============================================================================
