------------------------ MODULE PeerConnectionsProofs ------------------------
(***************************************************************************)
(* Proofs about PeerConnections, for any sessions, relays and limits.      *)
(*                                                                         *)
(*   TypeInv   types; an inbound Peer knows whose offer it answers, and    *)
(*             numbers that are not used yet have no object                *)
(*   MapInv    the map of a node has its open Peers, each under its id     *)
(*                                                                         *)
(* MapInv is inductive given TypeInv.  Every action that touches a node's  *)
(* Peers installs one, closes one or all, or changes some in place: one    *)
(* lemma each.                                                             *)
(***************************************************************************)
EXTENDS PeerConnections, FiniteSetTheorems, TLAPS

USE NodesAssumption, ConfigsAssumption, SharesAssumption, BoundsAssumption

MadeObject == {o \in Object : o.direction = "inbound" => o.remote # 0}

NodeTyped(obj, map, count) ==
  /\ obj \in [Numbers -> MadeObject \union {NotMade}]
  /\ map \in [Nodes -> Numbers \union {0}]
  /\ \A k \in Numbers : k > count => obj[k] = NotMade

NodesTyped ==
  /\ made \in [Nodes -> Nat] /\ \A n \in Nodes : made[n] <= MaxPeers[n]
  /\ object \in [Nodes -> [Numbers -> MadeObject \union {NotMade}]]
  /\ peers \in [Nodes -> [Nodes -> Numbers \union {0}]]
  /\ \A n \in Nodes, k \in Numbers : k > made[n] => object[n][k] = NotMade

RestTyped ==
  /\ running \subseteq Nodes
  /\ config \in [Nodes -> PoolConfigs]
  /\ follows \in [Nodes -> SUBSET Nodes]
  /\ hellos \subseteq Nodes
  /\ relay \subseteq Message /\ delivered \subseteq Message /\ decrypting \subseteq Message

Sound(obj, map) ==
  /\ \A m \in Nodes : map[m] # 0 => Open(obj[map[m]]) /\ obj[map[m]].to = m
  /\ \A k \in Numbers : Open(obj[k]) => map[obj[k].to] = k
MapInv == \A n \in Nodes : Sound(object[n], peers[n])

PeersInv == NodesTyped /\ RestTyped /\ MapInv

-----------------------------------------------------------------------------
(* Helpers. *)

LEMMA NumbersPositive ==
  /\ \A k \in Numbers : k \in Nat /\ k # 0
  /\ \A n \in Nodes : \A k \in 1 .. MaxPeers[n] : k \in Numbers
BY DEF Numbers

LEMMA OpenIsMade ==
  ASSUME NEW o \in MadeObject \union {NotMade}, Open(o)
  PROVE  o \in MadeObject /\ o \in Object /\ o.to \in Nodes /\ o # NotMade
BY DEF Open, NotMade, MadeObject, Object

(* Only the node n changes: to the objects obj, the map map and count. *)
LEMMA OneNode ==
  ASSUME PeersInv, NEW n \in Nodes, NEW obj, NEW map, NEW count \in Nat,
         object' = [object EXCEPT ![n] = obj],
         peers' = [peers EXCEPT ![n] = map],
         made' = [made EXCEPT ![n] = count],
         count <= MaxPeers[n],
         NodeTyped(obj, map, count), Sound(obj, map)
  PROVE  NodesTyped' /\ MapInv'
BY DEF PeersInv, NodesTyped, NodeTyped, MapInv

(* Objects that are changed in place, none of them closed. *)
Refreshed(o, new) ==
  /\ Open(new) <=> Open(o)
  /\ Open(new) => new.to = o.to
  /\ o = NotMade => new = NotMade

LEMMA InPlace ==
  ASSUME PeersInv, NEW n \in Nodes, NEW obj \in [Numbers -> MadeObject \union {NotMade}],
         \A k \in Numbers : Refreshed(object[n][k], obj[k]),
         object' = [object EXCEPT ![n] = obj], UNCHANGED <<peers, made>>
  PROVE  NodesTyped' /\ MapInv'
<1>1. NodeTyped(obj, peers[n], made[n])
  BY DEF PeersInv, NodesTyped, NodeTyped, Refreshed
<1>2. Sound(object[n], peers[n])
  BY DEF PeersInv, MapInv
<1>3. \A m \in Nodes : peers[n][m] # 0 => peers[n][m] \in Numbers
  BY DEF PeersInv, NodesTyped
<1>4. Sound(obj, peers[n])
  BY <1>2, <1>3 DEF Sound, Refreshed
<1>5. peers' = [peers EXCEPT ![n] = peers[n]] /\ made' = [made EXCEPT ![n] = made[n]]
  BY DEF PeersInv, NodesTyped
<1>6. made[n] \in Nat /\ made[n] <= MaxPeers[n]
  BY DEF PeersInv, NodesTyped
<1> QED BY <1>1, <1>4, <1>5, <1>6, OneNode

(* One open object of a node is replaced by another state of it. *)
LEMMA OneInPlace ==
  ASSUME PeersInv, NEW n \in Nodes, NEW k \in Numbers, NEW o \in MadeObject,
         Open(o), Open(object[n][k]), o.to = object[n][k].to,
         object' = [object EXCEPT ![n] = [object[n] EXCEPT ![k] = o]],
         UNCHANGED <<peers, made>>
  PROVE  NodesTyped' /\ MapInv'
<1>1. object[n] \in [Numbers -> MadeObject \union {NotMade}]
  BY DEF PeersInv, NodesTyped
<1>2. object[n][k] # NotMade
  BY <1>1, OpenIsMade
<1> DEFINE obj == [object[n] EXCEPT ![k] = o]
<1>3. obj \in [Numbers -> MadeObject \union {NotMade}]
  BY <1>1
<1>4. \A j \in Numbers : Refreshed(object[n][j], obj[j])
  BY <1>1, <1>2 DEF Refreshed
<1>5. object' = [object EXCEPT ![n] = obj]
  OBVIOUS
<1> HIDE DEF obj
<1> QED BY <1>3, <1>4, <1>5, InPlace

(* Closing objects that are in the map keeps the types. *)
LEMMA ClosedTyped ==
  ASSUME PeersInv, NEW n \in Nodes, NEW K,
         \A k \in K \intersect Numbers : Open(object[n][k])
  PROVE  /\ Closed(n, K) \in [Numbers -> MadeObject \union {NotMade}]
         /\ \A k \in K \intersect Numbers : ~Open(Closed(n, K)[k])
         /\ \A k \in Numbers \ K : Closed(n, K)[k] = object[n][k]
         /\ \A k \in Numbers : object[n][k] = NotMade => Closed(n, K)[k] = NotMade
<1>1. object[n] \in [Numbers -> MadeObject \union {NotMade}]
  BY DEF PeersInv, NodesTyped
<1>2. ASSUME NEW k \in K \intersect Numbers
      PROVE  /\ [object[n][k] EXCEPT !.state = "closed"] \in MadeObject
             /\ [object[n][k] EXCEPT !.state = "closed"].state = "closed"
             /\ object[n][k] # NotMade
  <2>1. object[n][k] \in MadeObject /\ object[n][k] # NotMade
    BY <1>1, <1>2, OpenIsMade
  <2> QED BY <2>1 DEF MadeObject, Object
<1> QED BY <1>1, <1>2 DEF Closed, Open

LEMMA InMapIsOpen ==
  ASSUME PeersInv, NEW n \in Nodes, NEW m \in Nodes, peers[n][m] # 0
  PROVE  /\ peers[n][m] \in Numbers
         /\ Open(object[n][peers[n][m]]) /\ object[n][peers[n][m]].to = m
BY DEF PeersInv, NodesTyped, MapInv, Sound

(* close() of an open object takes it, and no other, out of the map. *)
LEMMA CloseKeeps ==
  ASSUME PeersInv, NEW n \in Nodes, NEW k \in Numbers, Open(object[n][k]), Close(n, k)
  PROVE  NodesTyped' /\ MapInv'
<1> DEFINE obj == Closed(n, {k})
           map == [peers[n] EXCEPT ![object[n][k].to] = 0]
<1>1. object[n] \in [Numbers -> MadeObject \union {NotMade}]
      /\ peers[n] \in [Nodes -> Numbers \union {0}]
      /\ made[n] \in Nat /\ made[n] <= MaxPeers[n]
      /\ \A j \in Numbers : j > made[n] => object[n][j] = NotMade
  BY DEF PeersInv, NodesTyped
<1>2. object[n][k].to \in Nodes
  BY <1>1, OpenIsMade
<1>3. /\ obj \in [Numbers -> MadeObject \union {NotMade}]
      /\ ~Open(obj[k])
      /\ \A j \in Numbers \ {k} : obj[j] = object[n][j]
      /\ \A j \in Numbers : object[n][j] = NotMade => obj[j] = NotMade
  BY ClosedTyped
<1>4. Sound(object[n], peers[n])
  BY DEF PeersInv, MapInv
<1>5. object' = [object EXCEPT ![n] = obj] /\ peers' = [peers EXCEPT ![n] = map]
      /\ made' = [made EXCEPT ![n] = made[n]]
  BY DEF Close, PeersInv, NodesTyped
<1> HIDE DEF obj
<1>6. NodeTyped(obj, map, made[n])
  BY <1>1, <1>2, <1>3 DEF NodeTyped
<1>7. Sound(obj, map)
  <2>1. ASSUME NEW m \in Nodes, map[m] # 0 PROVE Open(obj[map[m]]) /\ obj[map[m]].to = m
    <3>1. m # object[n][k].to /\ map[m] = peers[n][m]
      BY <1>1, <1>2, <2>1
    <3>2. map[m] # k /\ map[m] \in Numbers
      BY <1>1, <1>4, <2>1, <3>1 DEF Sound
    <3> QED BY <1>3, <1>4, <2>1, <3>1, <3>2 DEF Sound
  <2>2. ASSUME NEW j \in Numbers, Open(obj[j]) PROVE map[obj[j].to] = j
    <3>1. j # k /\ obj[j] = object[n][j]
      BY <1>3, <2>2
    <3>2. obj[j].to \in Nodes
      BY <1>3, <2>2, OpenIsMade
    <3>3. peers[n][obj[j].to] = j /\ peers[n][object[n][k].to] = k
      BY <1>4, <2>2, <3>1 DEF Sound
    <3> QED BY <1>1, <3>1, <3>2, <3>3
  <2> QED BY <2>1, <2>2 DEF Sound
<1> HIDE DEF map
<1> QED BY <1>1, <1>5, <1>6, <1>7, OneNode

(* A new Peer takes the place of the one there is. *)
LEMMA InstallKeeps ==
  ASSUME PeersInv, NEW n \in Nodes, NEW m \in Nodes, NEW d \in {"inbound", "outbound"},
         NEW r \in Numbers \union {0}, d = "inbound" => r # 0, Install(n, m, d, r)
  PROVE  NodesTyped' /\ MapInv'
<1> DEFINE k == made[n] + 1
           old == peers[n][m]
           new == [to |-> m, direction |-> d, state |-> "new", told |-> FALSE,
                   remote |-> r, pool |-> Classify(n, m)]
           closed == Closed(n, {old})
           obj == [closed EXCEPT ![k] = new]
           map == [peers[n] EXCEPT ![m] = k]
<1>1. object[n] \in [Numbers -> MadeObject \union {NotMade}]
      /\ peers[n] \in [Nodes -> Numbers \union {0}]
      /\ made[n] \in Nat
      /\ \A j \in Numbers : j > made[n] => object[n][j] = NotMade
  BY DEF PeersInv, NodesTyped
<1>2. k \in Numbers /\ k \in Nat /\ k <= MaxPeers[n] /\ k > made[n]
  BY <1>1, NumbersPositive DEF Install
<1>3. new \in MadeObject /\ Open(new) /\ new.to = m
  BY DEF MadeObject, Object, Pools, Classify, Open
<1>4. Sound(object[n], peers[n])
  BY DEF PeersInv, MapInv
<1>5. \A j \in {old} \intersect Numbers : Open(object[n][j]) /\ object[n][j].to = m
  BY <1>1, <1>4, NumbersPositive DEF Sound
<1>6. /\ closed \in [Numbers -> MadeObject \union {NotMade}]
      /\ \A j \in {old} \intersect Numbers : ~Open(closed[j])
      /\ \A j \in Numbers \ {old} : closed[j] = object[n][j]
      /\ \A j \in Numbers : object[n][j] = NotMade => closed[j] = NotMade
  <2>1. \A j \in {old} \intersect Numbers : Open(object[n][j])
    BY <1>5
  <2> QED BY <2>1, ClosedTyped
<1>7. object' = [object EXCEPT ![n] = obj] /\ peers' = [peers EXCEPT ![n] = map]
      /\ made' = [made EXCEPT ![n] = k]
  BY DEF Install, PeersInv, NodesTyped
<1>8. object[n][k] = NotMade /\ ~Open(object[n][k])
  BY <1>1, <1>2 DEF Open, NotMade
<1> HIDE DEF closed, new
<1>9. NodeTyped(obj, map, k)
  <2>1. \A j \in Numbers : j > k => j > made[n] /\ j # k
    BY <1>1, NumbersPositive
  <2> QED BY <1>1, <1>2, <1>3, <1>6, <2>1 DEF NodeTyped
<1>10. Sound(obj, map)
  <2>1. ASSUME NEW i \in Nodes, map[i] # 0 PROVE Open(obj[map[i]]) /\ obj[map[i]].to = i
    <3>1. CASE i = m
      BY <1>1, <1>2, <1>3, <1>6, <3>1
    <3>2. CASE i # m
      <4>1. map[i] = peers[n][i] /\ peers[n][i] \in Numbers
        BY <1>1, <2>1, <3>2
      <4>2. Open(object[n][peers[n][i]]) /\ object[n][peers[n][i]].to = i
        BY <1>4, <2>1, <4>1 DEF Sound
      <4>3. peers[n][i] # k /\ peers[n][i] # old
        BY <1>5, <1>8, <3>2, <4>1, <4>2
      <4> QED BY <1>1, <1>2, <1>6, <4>1, <4>2, <4>3
    <3> QED BY <3>1, <3>2
  <2>2. ASSUME NEW j \in Numbers, Open(obj[j]) PROVE map[obj[j].to] = j
    <3>1. CASE j = k
      BY <1>1, <1>2, <1>3, <1>6, <3>1
    <3>2. CASE j # k
      <4>1. j # old /\ obj[j] = object[n][j] /\ Open(object[n][j])
        BY <1>2, <1>6, <2>2, <3>2
      <4>2. object[n][j].to \in Nodes /\ peers[n][object[n][j].to] = j
        BY <1>1, <1>4, <4>1, OpenIsMade DEF Sound
      <4> QED BY <1>1, <4>1, <4>2
    <3> QED BY <3>1, <3>2
  <2> QED BY <2>1, <2>2 DEF Sound
<1> HIDE DEF obj, map, k
<1> QED BY <1>2, <1>7, <1>9, <1>10, OneNode

(* stop() closes all that is open. *)
LEMMA StopKeeps ==
  ASSUME PeersInv, NEW n \in Nodes, Stop(n)
  PROVE  NodesTyped' /\ MapInv'
<1> DEFINE K == {peers[n][m] : m \in Nodes} \ {0}
           obj == Closed(n, K)
           map == [m \in Nodes |-> 0]
<1>1. object[n] \in [Numbers -> MadeObject \union {NotMade}]
      /\ peers[n] \in [Nodes -> Numbers \union {0}]
      /\ made[n] \in Nat /\ made[n] <= MaxPeers[n]
      /\ \A j \in Numbers : j > made[n] => object[n][j] = NotMade
  BY DEF PeersInv, NodesTyped
<1>2. \A j \in K \intersect Numbers : Open(object[n][j])
  BY InMapIsOpen
<1>3. /\ obj \in [Numbers -> MadeObject \union {NotMade}]
      /\ \A j \in K \intersect Numbers : ~Open(obj[j])
      /\ \A j \in Numbers \ K : obj[j] = object[n][j]
      /\ \A j \in Numbers : object[n][j] = NotMade => obj[j] = NotMade
  BY <1>2, ClosedTyped
<1>4. object' = [object EXCEPT ![n] = obj] /\ peers' = [peers EXCEPT ![n] = map]
      /\ made' = [made EXCEPT ![n] = made[n]]
  BY DEF Stop, PeersInv, NodesTyped
<1>5. \A j \in Numbers : Open(object[n][j]) => j \in K
  <2> SUFFICES ASSUME NEW j \in Numbers, Open(object[n][j]) PROVE j \in K
    OBVIOUS
  <2>1. object[n][j].to \in Nodes
    BY <1>1, OpenIsMade
  <2>2. peers[n][object[n][j].to] = j
    BY DEF PeersInv, MapInv, Sound
  <2> QED BY <2>1, <2>2, NumbersPositive
<1> HIDE DEF obj, K
<1>6. NodeTyped(obj, map, made[n]) /\ Sound(obj, map)
  BY <1>1, <1>3, <1>5 DEF NodeTyped, Sound
<1> HIDE DEF map
<1> QED BY <1>1, <1>4, <1>6, OneNode
-----------------------------------------------------------------------------
(* Every step. *)

LEMMA InitKeeps == Init => PeersInv
<1> SUFFICES ASSUME Init PROVE PeersInv
  OBVIOUS
<1>1. NodesTyped
  BY DEF Init, NodesTyped
<1>2. RestTyped
  BY DEF Init, RestTyped
<1>3. MapInv
  BY DEF Init, MapInv, Sound, Open, NotMade
<1> QED BY <1>1, <1>2, <1>3 DEF PeersInv

LEMMA MessagesTyped ==
  /\ \A msg \in Message : msg.from \in Nodes /\ msg.to \in Nodes /\ msg.object \in Numbers
  /\ \A n, m \in Nodes, k \in Numbers :
       [type |-> "offer", from |-> n, to |-> m, object |-> k] \in Message
  /\ \A n, m \in Nodes, k, j \in Numbers :
       [type |-> "answer", from |-> n, to |-> m, object |-> k, offer |-> j] \in Message
BY DEF Message

LEMMA SendOfferKeeps ==
  ASSUME PeersInv, NEW n \in Nodes, NEW k \in Numbers, SendOffer(n, k)
  PROVE  PeersInv'
<1> DEFINE o == object[n][k]
           new == [o EXCEPT !.told = TRUE]
<1>1. object \in [Nodes -> [Numbers -> MadeObject \union {NotMade}]]
  BY DEF PeersInv, NodesTyped
<1>2. Open(o)
  BY DEF SendOffer, Open
<1>3. o \in MadeObject /\ o \in Object /\ o.to \in Nodes
  BY <1>1, <1>2, OpenIsMade
<1>4. new \in MadeObject /\ Open(new) /\ new.to = o.to
  BY <1>2, <1>3 DEF MadeObject, Object, Open
<1>5. object' = [object EXCEPT ![n] = [object[n] EXCEPT ![k] = new]]
  BY <1>1 DEF SendOffer
<1>6. NodesTyped' /\ MapInv'
  <2> HIDE DEF new
  <2>1. UNCHANGED <<peers, made>>
    BY DEF SendOffer
  <2> QED BY <1>2, <1>4, <1>5, <2>1, OneInPlace
<1>7. [type |-> "offer", from |-> n, to |-> o.to, object |-> k] \in Message
  BY <1>3, MessagesTyped
<1>8. RestTyped'
  BY <1>7 DEF SendOffer, PeersInv, RestTyped, settings
<1> QED BY <1>6, <1>8 DEF PeersInv

LEMMA SendAnswerKeeps ==
  ASSUME PeersInv, NEW n \in Nodes, NEW k \in Numbers, SendAnswer(n, k)
  PROVE  PeersInv'
<1> DEFINE o == object[n][k]
           new == [o EXCEPT !.told = TRUE, !.state = "connecting"]
<1>1. object \in [Nodes -> [Numbers -> MadeObject \union {NotMade}]]
  BY DEF PeersInv, NodesTyped
<1>2. Open(o) /\ o.direction = "inbound"
  BY DEF SendAnswer, Open
<1>3. o \in MadeObject /\ o \in Object /\ o.to \in Nodes
  BY <1>1, <1>2, OpenIsMade
<1>4. new \in MadeObject /\ Open(new) /\ new.to = o.to
  BY <1>2, <1>3 DEF MadeObject, Object, Open
<1>5. object' = [object EXCEPT ![n] = [object[n] EXCEPT ![k] = new]]
  BY <1>1 DEF SendAnswer
<1>6. NodesTyped' /\ MapInv'
  <2> HIDE DEF new
  <2>1. UNCHANGED <<peers, made>>
    BY DEF SendAnswer
  <2> QED BY <1>2, <1>4, <1>5, <2>1, OneInPlace
<1>7. o.remote \in Numbers
  BY <1>2, <1>3 DEF MadeObject, Object
<1>8. [type |-> "answer", from |-> n, to |-> o.to, object |-> k, offer |-> o.remote] \in Message
  BY <1>3, <1>7, MessagesTyped
<1>9. RestTyped'
  BY <1>8 DEF SendAnswer, PeersInv, RestTyped, settings
<1> QED BY <1>6, <1>9 DEF PeersInv

LEMMA HandleHelloKeeps ==
  ASSUME PeersInv, NEW n \in Nodes, NEW m \in Nodes, HandleHello(n, m)
  PROVE  PeersInv'
<1>1. NodesTyped' /\ MapInv'
  <2>1. Install(n, m, "outbound", 0)
    BY DEF HandleHello
  <2> QED BY <2>1, InstallKeeps
<1>2. RestTyped'
  BY DEF HandleHello, PeersInv, RestTyped, settings, messages
<1> QED BY <1>1, <1>2 DEF PeersInv

LEMMA HandleOfferKeeps ==
  ASSUME PeersInv, NEW msg \in decrypting, HandleOffer(msg)
  PROVE  PeersInv'
<1>1. msg.from \in Nodes /\ msg.to \in Nodes /\ msg.object \in Numbers
  BY MessagesTyped DEF PeersInv, RestTyped
<1>2. CASE Install(msg.to, msg.from, "inbound", msg.object)
  <2>1. msg.object # 0
    BY <1>1, NumbersPositive
  <2> QED BY <1>1, <1>2, <2>1, InstallKeeps DEF HandleOffer, PeersInv, RestTyped, settings
<1>3. CASE UNCHANGED own
  BY <1>3 DEF HandleOffer, PeersInv, NodesTyped, RestTyped, MapInv, own, settings
<1> QED BY <1>2, <1>3 DEF HandleOffer

(* A change of one object that keeps its pool keeps all. *)
LEMMA OnePoolKept ==
  ASSUME PeersInv, NEW n \in Nodes, NEW k \in Numbers, NEW o, o.pool = object[n][k].pool,
         object' = [object EXCEPT ![n] = [object[n] EXCEPT ![k] = o]]
  PROVE  \A i \in Nodes, j \in Numbers : object'[i][j].pool = object[i][j].pool
<1>1. object \in [Nodes -> [Numbers -> MadeObject \union {NotMade}]]
  BY DEF PeersInv, NodesTyped
<1>2. object[n] \in [Numbers -> MadeObject \union {NotMade}]
  BY <1>1
<1> TAKE i \in Nodes, j \in Numbers
<1>3. CASE i = n /\ j = k
  BY <1>1, <1>2, <1>3
<1>4. CASE ~(i = n /\ j = k)
  BY <1>1, <1>2, <1>4
<1> QED BY <1>3, <1>4

LEMMA AnswerSetKeeps ==
  ASSUME PeersInv, NEW n \in Nodes, NEW k \in Numbers, NEW r \in Numbers \union {0},
         Open(object[n][k]), object[n][k].direction = "outbound",
         object' = [object EXCEPT ![n][k].remote = r, ![n][k].state = "connecting"],
         UNCHANGED <<peers, made>>
  PROVE  /\ NodesTyped' /\ MapInv'
         /\ \A i \in Nodes, j \in Numbers : object'[i][j].pool = object[i][j].pool
<1> DEFINE o == object[n][k]
           set == [o EXCEPT !.remote = r]
           new == [set EXCEPT !.state = "connecting"]
           mid == [object EXCEPT ![n][k].remote = r]
<1>1. object \in [Nodes -> [Numbers -> MadeObject \union {NotMade}]]
  BY DEF PeersInv, NodesTyped
<1>2. o \in MadeObject \union {NotMade}
  BY <1>1
<1>3. o \in MadeObject /\ o \in Object /\ o.to \in Nodes
  BY <1>2, OpenIsMade
<1>4. new \in MadeObject /\ Open(new) /\ new.to = o.to /\ new.pool = o.pool
  BY <1>3 DEF MadeObject, Object, Open
<1>5. object' = [object EXCEPT ![n] = [object[n] EXCEPT ![k] = new]]
  <2>1. mid = [object EXCEPT ![n] = [object[n] EXCEPT ![k] = set]]
    OBVIOUS
  <2>2. object' = [mid EXCEPT ![n][k].state = "connecting"]
    OBVIOUS
  <2>3. mid[n][k] = set /\ mid[n] = [object[n] EXCEPT ![k] = set]
    BY <1>1, <2>1
  <2>4. object' = [mid EXCEPT ![n] = [mid[n] EXCEPT ![k] = new]]
    BY <2>2, <2>3
  <2>5. DOMAIN mid = Nodes /\ \A m \in Nodes : m # n => mid[m] = object[m]
    BY <1>1, <2>1
  <2>6. [mid[n] EXCEPT ![k] = new] = [object[n] EXCEPT ![k] = new]
    <3> HIDE DEF mid, set, new
    <3>1. object[n] \in [Numbers -> MadeObject \union {NotMade}]
      BY <1>1
    <3> QED BY <2>3, <3>1
  <2> HIDE DEF mid, set, new
  <2>7. object' = [mid EXCEPT ![n] = [object[n] EXCEPT ![k] = new]]
    BY <2>4, <2>6
  <2> QED BY <1>1, <2>5, <2>7
<1> HIDE DEF new
<1>6. NodesTyped' /\ MapInv'
  BY <1>4, <1>5, OneInPlace
<1> HIDE DEF mid, set
<1>7. new.pool = object[n][k].pool
  BY <1>4
<1> HIDE DEF o
<1>8. \A i \in Nodes, j \in Numbers : object'[i][j].pool = object[i][j].pool
  <2>1. object[n] \in [Numbers -> MadeObject \union {NotMade}]
    BY <1>1
  <2> TAKE i \in Nodes, j \in Numbers
  <2>2. CASE i = n /\ j = k
    BY <1>1, <1>5, <1>7, <2>1, <2>2
  <2>3. CASE ~(i = n /\ j = k)
    BY <1>1, <1>5, <2>1, <2>3
  <2> QED BY <2>2, <2>3
<1> QED BY <1>6, <1>8

LEMMA HandleAnswerKeeps ==
  ASSUME PeersInv, NEW msg \in decrypting, HandleAnswer(msg)
  PROVE  /\ PeersInv'
         /\ \A i \in Nodes, j \in Numbers : object'[i][j].pool = object[i][j].pool
<1> DEFINE n == msg.to
           k == peers[n][msg.from]
           remote == IF msg.offer = k THEN msg.object ELSE object[n][k].remote
<1>1. n \in Nodes /\ msg.from \in Nodes /\ msg.object \in Numbers
  BY MessagesTyped DEF PeersInv, RestTyped
<1>2. RestTyped'
  BY DEF HandleAnswer, PeersInv, RestTyped, settings
<1>3. UNCHANGED <<peers, made>>
  BY DEF HandleAnswer
<1>4. CASE /\ k # 0 /\ object[n][k].direction = "outbound"
           /\ object' = [object EXCEPT ![n][k].remote = remote, ![n][k].state = "connecting"]
  <2>1. k \in Numbers /\ Open(object[n][k])
    BY <1>1, <1>4, InMapIsOpen
  <2>2. object[n] \in [Numbers -> MadeObject \union {NotMade}]
    BY <1>1 DEF PeersInv, NodesTyped
  <2> HIDE DEF k, n
  <2>3. object[n][k] \in Object
    BY <2>1, <2>2, OpenIsMade
  <2>4. remote \in Numbers \union {0}
    BY <1>1, <2>3 DEF Object
  <2> HIDE DEF remote
  <2> QED BY <1>1, <1>2, <1>3, <1>4, <2>1, <2>4, AnswerSetKeeps DEF PeersInv
<1>5. CASE UNCHANGED object
  BY <1>2, <1>3, <1>5 DEF PeersInv, NodesTyped, MapInv
<1> QED BY <1>4, <1>5 DEF HandleAnswer

LEMMA ConnectKeeps ==
  ASSUME PeersInv, NEW n \in Nodes, NEW k \in Numbers, Connect(n, k)
  PROVE  PeersInv'
<1> DEFINE o == object[n][k]
           new == [o EXCEPT !.state = "connected"]
<1>1. object \in [Nodes -> [Numbers -> MadeObject \union {NotMade}]]
  BY DEF PeersInv, NodesTyped
<1>2. Open(o)
  BY DEF Connect, Open
<1>3. o \in MadeObject /\ o \in Object /\ o.to \in Nodes
  BY <1>1, <1>2, OpenIsMade
<1>4. new \in MadeObject /\ Open(new) /\ new.to = o.to
  BY <1>2, <1>3 DEF MadeObject, Object, Open
<1>5. object' = [object EXCEPT ![n] = [object[n] EXCEPT ![k] = new]]
  BY <1>1 DEF Connect
<1>6. NodesTyped' /\ MapInv'
  <2> HIDE DEF new
  <2>1. UNCHANGED <<peers, made>>
    BY DEF Connect
  <2> QED BY <1>2, <1>4, <1>5, <2>1, OneInPlace
<1>7. RestTyped'
  BY DEF Connect, PeersInv, RestTyped, settings, messages
<1> QED BY <1>6, <1>7 DEF PeersInv

LEMMA FailKeeps ==
  ASSUME PeersInv, NEW n \in Nodes, NEW k \in Numbers, Fail(n, k) \/ CleanUp(n, k)
  PROVE  PeersInv'
<1>1. Open(object[n][k]) /\ Close(n, k)
  <2>1. CASE Fail(n, k)
    BY <2>1 DEF Fail, Open
  <2>2. CASE CleanUp(n, k)
    <3>1. PICK m \in Nodes : k = peers[n][m] /\ peers[n][m] # 0
      BY <2>2 DEF CleanUp
    <3>2. Open(object[n][peers[n][m]])
      BY <3>1, InMapIsOpen
    <3> QED BY <2>2, <3>1, <3>2 DEF CleanUp
  <2> QED BY <2>1, <2>2
<1>2. RestTyped'
  BY DEF Fail, CleanUp, PeersInv, RestTyped, settings, messages
<1> QED BY <1>1, <1>2, CloseKeeps DEF PeersInv

LEMMA SetPeerClassifierKeeps ==
  ASSUME PeersInv, NEW n \in Nodes, SetPeerClassifier(n)
  PROVE  PeersInv'
<1> DEFINE K == {peers[n][m] : m \in Nodes} \ {0}
           obj == [k \in Numbers |->
             IF k \in K THEN [object[n][k] EXCEPT !.pool = Classify(n, object[n][k].to)]
             ELSE object[n][k]]
<1>1. object[n] \in [Numbers -> MadeObject \union {NotMade}]
  BY DEF PeersInv, NodesTyped
<1>2. ASSUME NEW k \in Numbers, k \in K
      PROVE  /\ [object[n][k] EXCEPT !.pool = Classify(n, object[n][k].to)] \in MadeObject
             /\ Refreshed(object[n][k],
                          [object[n][k] EXCEPT !.pool = Classify(n, object[n][k].to)])
  <2>1. Open(object[n][k])
    BY <1>2, InMapIsOpen
  <2>2. object[n][k] \in MadeObject /\ object[n][k] \in Object /\ object[n][k] # NotMade
    BY <1>1, <2>1, OpenIsMade
  <2>3. Classify(n, object[n][k].to) \in Pools
    BY DEF Classify, Pools
  <2> QED BY <2>1, <2>2, <2>3 DEF MadeObject, Object, Refreshed, Open
<1>3. obj \in [Numbers -> MadeObject \union {NotMade}]
  BY <1>1, <1>2
<1>4. \A k \in Numbers : Refreshed(object[n][k], obj[k])
  BY <1>2 DEF Refreshed
<1>5. object' = [object EXCEPT ![n] = obj] /\ UNCHANGED <<peers, made>>
  BY DEF SetPeerClassifier
<1>6. RestTyped'
  BY DEF SetPeerClassifier, PeersInv, RestTyped, settings, messages
<1> HIDE DEF obj
<1> QED BY <1>3, <1>4, <1>5, <1>6, InPlace DEF PeersInv

(* The Peers stay as they are. *)
LEMMA RestKeeps ==
  ASSUME PeersInv, UNCHANGED <<made, object, peers>>, RestTyped'
  PROVE  PeersInv'
BY DEF PeersInv, NodesTyped, MapInv

LEMMA SignallingKeeps ==
  ASSUME PeersInv, NEW n \in Nodes, Signalling(n)
  PROVE  PeersInv'
<1>1. ASSUME NEW msg \in relay, Receive(msg) PROVE PeersInv'
  <2>1. RestTyped'
    BY <1>1 DEF Receive, PeersInv, RestTyped, settings
  <2> QED BY <1>1, <2>1, RestKeeps DEF Receive, own
<1> QED BY <1>1, SendOfferKeeps, SendAnswerKeeps, HandleHelloKeeps, HandleOfferKeeps,
           HandleAnswerKeeps DEF Signalling

LEMMA NextKeeps == PeersInv /\ [Next]_vars => PeersInv'
<1> SUFFICES ASSUME PeersInv, [Next]_vars PROVE PeersInv'
  OBVIOUS
<1>1. ASSUME NEW n \in Nodes, Signalling(n) PROVE PeersInv'
  BY <1>1, SignallingKeeps
<1>2. ASSUME NEW n \in Nodes, SendHello(n) PROVE PeersInv'
  <2>1. RestTyped' /\ UNCHANGED own
    BY <1>2 DEF SendHello, PeersInv, RestTyped, settings
  <2> QED BY <2>1, RestKeeps DEF own
<1>3. ASSUME NEW n \in Nodes, NEW k \in Numbers, Connect(n, k) PROVE PeersInv'
  BY <1>3, ConnectKeeps
<1>4. ASSUME NEW n \in Nodes, NEW k \in Numbers, Fail(n, k) \/ CleanUp(n, k) PROVE PeersInv'
  BY <1>4, FailKeeps
<1>5. ASSUME NEW n \in Nodes, Start(n) PROVE PeersInv'
  <2>1. RestTyped' /\ UNCHANGED own
    BY <1>5 DEF Start, PeersInv, RestTyped
  <2> QED BY <2>1, RestKeeps DEF own
<1>6. ASSUME NEW n \in Nodes, Stop(n) PROVE PeersInv'
  <2>1. RestTyped'
    BY <1>6 DEF Stop, PeersInv, RestTyped, messages
  <2> QED BY <1>6, <2>1, StopKeeps DEF PeersInv
<1>7. ASSUME NEW n \in Nodes, SetPeerClassifier(n) PROVE PeersInv'
  BY <1>7, SetPeerClassifierKeeps
<1>8. ASSUME NEW n \in Nodes, NEW m \in Nodes, GraphChanges(n, m) PROVE PeersInv'
  <2>1. [follows EXCEPT ![n] = SymDiff(@, {m})] \in [Nodes -> SUBSET Nodes]
    BY DEF SymDiff, PeersInv, RestTyped
  <2>2. RestTyped' /\ UNCHANGED own
    BY <1>8, <2>1 DEF GraphChanges, PeersInv, RestTyped, messages
  <2> QED BY <2>2, RestKeeps DEF own
<1>9. ASSUME NEW n \in Nodes, NEW c \in Configs, SetPoolConfig(n, c) PROVE PeersInv'
  <2>1. RestTyped' /\ UNCHANGED <<made, object, peers>>
    BY <1>9 DEF SetPoolConfig, PeersInv, RestTyped, messages
  <2> QED BY <2>1, RestKeeps
<1>10. CASE UNCHANGED vars
  <2>1. RestTyped' /\ UNCHANGED own
    BY <1>10 DEF vars, settings, own, messages, PeersInv, RestTyped
  <2> QED BY <2>1, RestKeeps DEF own
<1> QED BY <1>1, <1>2, <1>3, <1>4, <1>5, <1>6, <1>7, <1>8, <1>9, <1>10 DEF Next

LEMMA PeersInvariant == Spec => []PeersInv
<1> QED BY InitKeeps, NextKeeps, PTL DEF Spec

-----------------------------------------------------------------------------
(* However offers cross and replace each other, a node has one open Peer     *)
(* per session it is connected to, the one in the map of store.ts:83.        *)
THEOREM NoPeerIsLeftBehind == Spec => []OpenPeersAreInTheMap
<1>1. PeersInv => OpenPeersAreInTheMap
  <2> SUFFICES ASSUME PeersInv, NEW n \in Nodes, NEW k \in Numbers
               PROVE  Open(object[n][k])
                        <=> \E m \in Nodes : peers[n][m] = k /\ object[n][k].to = m
    BY DEF OpenPeersAreInTheMap
  <2>1. ASSUME Open(object[n][k])
        PROVE  \E m \in Nodes : peers[n][m] = k /\ object[n][k].to = m
    <3>1. object[n][k] \in MadeObject \union {NotMade}
      BY DEF PeersInv, NodesTyped
    <3>2. object[n][k].to \in Nodes
      BY <2>1, <3>1, OpenIsMade
    <3> QED BY <2>1, <3>2 DEF PeersInv, MapInv, Sound
  <2>2. ASSUME NEW m \in Nodes, peers[n][m] = k PROVE Open(object[n][k])
    <3>1. k # 0
      BY NumbersPositive
    <3> QED BY <2>2, <3>1, InMapIsOpen
  <2> QED BY <2>1, <2>2
<1> QED BY <1>1, PeersInvariant, PTL

-----------------------------------------------------------------------------
(* The limits of the pools.  A peer counts against the limit of its pool     *)
(* unless it was moved there or the limit was set after it came.             *)

Counted(n, pool) == InPool(n, pool) \ moved[n]
LimitInv ==
  /\ moved \in [Nodes -> SUBSET Nodes]
  /\ PoolsKeepTheirLimits

LEMMA PoolsFinite ==
  ASSUME NEW n, NEW pool, NEW S, S \subseteq InPool(n, pool)
  PROVE  /\ IsFiniteSet(S) /\ Cardinality(S) \in Nat /\ Cardinality(S) <= Total(n, pool)
         /\ Total(n, pool) \in Nat
<1>1. InPool(n, pool) \subseteq Nodes /\ IsFiniteSet(Nodes)
  BY DEF InPool
<1>2. IsFiniteSet(InPool(n, pool))
  BY <1>1, FS_Subset
<1> QED BY <1>2, FS_Subset, FS_CardinalityType DEF Total

(* Peers leave, or are moved: no more count than before. *)
LEMMA FewerCounted ==
  ASSUME LimitInv, PeersInv, config' = config, moved' \in [Nodes -> SUBSET Nodes],
         \A n \in Nodes, pool \in Pools : Counted(n, pool)' \subseteq Counted(n, pool)
  PROVE  LimitInv'
<1> SUFFICES ASSUME NEW n \in Nodes, NEW pool \in Pools
             PROVE  Cardinality(Counted(n, pool)') <= config[n][pool].max
  BY DEF LimitInv, PoolsKeepTheirLimits, Counted
<1>1. Counted(n, pool)' \subseteq Counted(n, pool)
  OBVIOUS
<1>2. Counted(n, pool) \subseteq InPool(n, pool)
  BY DEF Counted
<1>3. Cardinality(Counted(n, pool)) <= config[n][pool].max
  BY DEF LimitInv, PoolsKeepTheirLimits, Counted
<1>4. IsFiniteSet(Counted(n, pool)) /\ Cardinality(Counted(n, pool)) \in Nat
  BY <1>2, PoolsFinite
<1>5. /\ Cardinality(Counted(n, pool)') <= Cardinality(Counted(n, pool))
      /\ Cardinality(Counted(n, pool)') \in Nat
  BY <1>1, <1>4, FS_Subset, FS_CardinalityType
<1>6. config[n][pool].max \in Nat
  BY DEF PeersInv, RestTyped, PoolConfigs, Pools
<1> QED BY <1>3, <1>4, <1>5, <1>6

(* The maps stay, and no Peer in them changes its pool. *)
LEMMA SamePools ==
  ASSUME LimitInv, PeersInv, UNCHANGED <<config, peers, moved>>,
         \A n \in Nodes, k \in Numbers : object'[n][k].pool = object[n][k].pool
  PROVE  LimitInv'
<1>1. ASSUME NEW n \in Nodes, NEW pool \in Pools, NEW m \in Counted(n, pool)'
      PROVE  m \in Counted(n, pool)
  <2>1. /\ m \in Nodes /\ peers[n][m] # 0 /\ m \notin moved[n]
        /\ object'[n][peers[n][m]].pool = pool
    BY <1>1 DEF Counted, InPool, Has, PeerOf
  <2>2. peers[n][m] \in Numbers
    BY <2>1 DEF PeersInv, NodesTyped
  <2> QED BY <2>1, <2>2 DEF Counted, InPool, Has, PeerOf
<1>2. moved' \in [Nodes -> SUBSET Nodes]
  BY DEF LimitInv
<1> QED BY <1>1, <1>2, FewerCounted

(* close() takes a peer out of the map. *)
LEMMA CloseKeepsLimits ==
  ASSUME LimitInv, PeersInv, NEW i \in Nodes, NEW j \in Numbers, Close(i, j), config' = config
  PROVE  LimitInv'
<1> DEFINE to == object[i][j].to
<1>0. /\ peers' = [peers EXCEPT ![i][to] = 0] /\ moved' = [moved EXCEPT ![i] = @ \ {to}]
      /\ object' = [object EXCEPT ![i] = Closed(i, {j})]
  BY DEF Close
<1>1. object \in [Nodes -> [Numbers -> MadeObject \union {NotMade}]]
      /\ peers \in [Nodes -> [Nodes -> Numbers \union {0}]] /\ moved \in [Nodes -> SUBSET Nodes]
  BY DEF PeersInv, NodesTyped, LimitInv
<1>2. \A n \in Nodes, k \in Numbers : object'[n][k].pool = object[n][k].pool
  <2>1. \A k \in Numbers : Closed(i, {j})[k].pool = object[i][k].pool
    BY DEF Closed
  <2> QED BY <1>0, <1>1, <2>1
<1> HIDE DEF to
<1>3. moved' \in [Nodes -> SUBSET Nodes]
  BY <1>0, <1>1
<1>4. ASSUME NEW n \in Nodes, NEW pool \in Pools, NEW m \in Counted(n, pool)'
      PROVE  m \in Counted(n, pool)
  <2>1. /\ m \in Nodes /\ peers'[n][m] # 0 /\ m \notin moved'[n]
        /\ object'[n][peers'[n][m]].pool = pool
    BY <1>4 DEF Counted, InPool, Has, PeerOf
  <2>2. ~(n = i /\ m = to) /\ peers'[n][m] = peers[n][m]
    BY <1>0, <1>1, <2>1
  <2>3. m \notin moved[n] /\ peers[n][m] \in Numbers
    BY <1>0, <1>1, <2>1, <2>2
  <2>4. object'[n][peers[n][m]].pool = pool /\ peers[n][m] # 0
    <3>1. peers'[n][m] = peers[n][m]
      BY <2>2
    <3> QED BY <2>1, <3>1
  <2>5. object'[n][peers[n][m]].pool = object[n][peers[n][m]].pool
    BY <1>2, <2>3
  <2> QED BY <2>1, <2>3, <2>4, <2>5 DEF Counted, InPool, Has, PeerOf
<1> QED BY <1>3, <1>4, FewerCounted

LEMMA NextNumber ==
  ASSUME PeersInv, NEW i \in Nodes, made[i] + 1 <= MaxPeers[i]
  PROVE  /\ made[i] + 1 \in Numbers /\ made[i] + 1 \in Nat
         /\ made[i] + 1 > made[i] /\ made[i] + 1 # 0
<1>1. made[i] \in Nat
  BY DEF PeersInv, NodesTyped
<1>2. MaxPeers[i] \in Nat
  BY BoundsAssumption
<1>3. made[i] + 1 \in 1 .. MaxPeers[i]
  BY <1>1, <1>2
<1> QED BY <1>1, <1>3, NumbersPositive

(* A new Peer for another session: one already in the map keeps its pool or  *)
(* counts as moved, one that is new finds room.                              *)
LEMMA InstallKeepsLimits ==
  ASSUME LimitInv, PeersInv, NEW i \in Nodes, NEW j \in Nodes, NEW d, NEW r, Install(i, j, d, r),
         Has(i, j) \/ canAcceptPeer(i, Classify(i, j)), config' = config
  PROVE  LimitInv'
<1> DEFINE k == made[i] + 1
           class == Classify(i, j)
           closed == Closed(i, {peers[i][j]})
           new == [to |-> j, direction |-> d, state |-> "new", told |-> FALSE,
                   remote |-> r, pool |-> class]
<1>1. object \in [Nodes -> [Numbers -> MadeObject \union {NotMade}]]
      /\ peers \in [Nodes -> [Nodes -> Numbers \union {0}]] /\ moved \in [Nodes -> SUBSET Nodes]
      /\ \A n \in Numbers : n > made[i] => object[i][n] = NotMade
      /\ made[i] \in Nat
  BY DEF PeersInv, NodesTyped, LimitInv
<1>2. /\ peers' = [peers EXCEPT ![i][j] = k]
      /\ object' = [object EXCEPT ![i] = [closed EXCEPT ![k] = new]]
      /\ moved' = IF Has(i, j) /\ PeerOf(i, j).pool # class
                  THEN [moved EXCEPT ![i] = @ \union {j}] ELSE moved
  BY DEF Install
<1>13. k \in Numbers /\ k \in Nat /\ k > made[i] /\ k # 0
  BY NextNumber DEF Install
<1>3. DOMAIN closed = Numbers /\ \A n \in Numbers : closed[n].pool = object[i][n].pool
  BY DEF Closed
<1>4. \A m \in Nodes : peers[i][m] # k
  <2>1. object[i][k] = NotMade /\ ~Open(object[i][k])
    BY <1>1, <1>13 DEF Open, NotMade
  <2> QED BY <1>13, <2>1, InMapIsOpen
<1>5. new.pool = class
  OBVIOUS
<1> HIDE DEF closed, new, k, class
<1>6. object'[i][k].pool = class
  BY <1>1, <1>2, <1>3, <1>5, <1>13
<1>7. \A n \in Nodes, h \in Numbers : ~(n = i /\ h = k) => object'[n][h].pool = object[n][h].pool
  BY <1>1, <1>2, <1>3, <1>13
<1>8. moved' \in [Nodes -> SUBSET Nodes] /\ \A n \in Nodes : moved[n] \subseteq moved'[n]
  BY <1>1, <1>2
<1>9. ASSUME NEW n \in Nodes, NEW pool \in Pools, NEW m \in Counted(n, pool)', ~(n = i /\ m = j)
      PROVE  m \in Counted(n, pool)
  <2>1. /\ m \in Nodes /\ peers'[n][m] # 0 /\ m \notin moved'[n]
        /\ object'[n][peers'[n][m]].pool = pool
    BY <1>9 DEF Counted, InPool, Has, PeerOf
  <2>2. peers'[n][m] = peers[n][m] /\ peers[n][m] \in Numbers
    BY <1>1, <1>2, <1>9, <2>1
  <2>3. object'[n][peers[n][m]].pool = object[n][peers[n][m]].pool
    BY <1>4, <1>7, <2>1, <2>2
  <2> QED BY <1>8, <2>1, <2>2, <2>3 DEF Counted, InPool, Has, PeerOf
<1>10. ASSUME NEW pool \in Pools, j \in Counted(i, pool)'
       PROVE  pool = class /\ (Has(i, j) => j \in Counted(i, pool))
  <2>1. peers'[i][j] = k /\ object'[i][peers'[i][j]].pool = pool /\ j \notin moved'[i]
    BY <1>1, <1>2, <1>10 DEF Counted, InPool, PeerOf
  <2>2. pool = class
    BY <1>6, <2>1
  <2>3. Has(i, j) => PeerOf(i, j).pool = class
    BY <1>1, <1>2, <2>1
  <2> QED BY <1>8, <2>1, <2>2, <2>3 DEF Counted, InPool
<1>11. CASE Has(i, j)
  BY <1>8, <1>9, <1>10, <1>11, FewerCounted
<1>12. CASE ~Has(i, j)
  <2> SUFFICES ASSUME NEW n \in Nodes, NEW pool \in Pools
               PROVE  Cardinality(Counted(n, pool)') <= config[n][pool].max
    BY <1>8 DEF LimitInv, PoolsKeepTheirLimits, Counted
  <2>0. config[n][pool].max \in Nat
    BY DEF PeersInv, RestTyped, PoolConfigs, Pools
  <2>1. Counted(n, pool) \subseteq InPool(n, pool)
    BY DEF Counted
  <2>2. IsFiniteSet(Counted(n, pool)) /\ Cardinality(Counted(n, pool)) \in Nat
        /\ Cardinality(Counted(n, pool)) <= Total(n, pool) /\ Total(n, pool) \in Nat
    BY <2>1, PoolsFinite
  <2>3. CASE n = i /\ pool = class
    <3>1. Total(n, pool) < config[n][pool].max
      BY <1>12, <2>3 DEF canAcceptPeer, class
    <3>2. Counted(n, pool)' \subseteq Counted(n, pool) \union {j}
      BY <1>9
    <3>3. IsFiniteSet(Counted(n, pool) \union {j})
          /\ Cardinality(Counted(n, pool) \union {j}) <= Cardinality(Counted(n, pool)) + 1
          /\ Cardinality(Counted(n, pool) \union {j}) \in Nat
      <4> DEFINE S == Counted(n, pool)
      <4>1. IsFiniteSet(S) /\ Cardinality(S) \in Nat
        BY <2>2
      <4> HIDE DEF S
      <4>2. IsFiniteSet(S \union {j}) /\ (Cardinality(S \union {j}) = Cardinality(S)
                                         \/ Cardinality(S \union {j}) = Cardinality(S) + 1)
        BY <4>1, FS_AddElement
      <4>3. Cardinality(S \union {j}) <= Cardinality(S) + 1 /\ Cardinality(S \union {j}) \in Nat
        BY <4>1, <4>2
      <4> QED BY <4>2, <4>3 DEF S
    <3>4. Cardinality(Counted(n, pool)') <= Cardinality(Counted(n, pool) \union {j})
          /\ Cardinality(Counted(n, pool)') \in Nat
      BY <3>2, <3>3, FS_Subset, FS_CardinalityType
    <3> QED BY <2>0, <2>2, <3>1, <3>3, <3>4
  <2>4. CASE ~(n = i /\ pool = class)
    <3>1. Counted(n, pool)' \subseteq Counted(n, pool)
      BY <1>9, <1>10, <2>4
    <3>2. Cardinality(Counted(n, pool)') <= Cardinality(Counted(n, pool))
          /\ Cardinality(Counted(n, pool)') \in Nat
      BY <2>2, <3>1, FS_Subset, FS_CardinalityType
    <3>3. Cardinality(Counted(n, pool)) <= config[n][pool].max
      BY DEF LimitInv, PoolsKeepTheirLimits, Counted
    <3> QED BY <2>0, <2>2, <3>2, <3>3
  <2> QED BY <2>3, <2>4
<1> QED BY <1>11, <1>12

(* stop() empties the map. *)
LEMMA StopKeepsLimits ==
  ASSUME LimitInv, PeersInv, NEW i \in Nodes, Stop(i)
  PROVE  LimitInv'
<1> DEFINE K == {peers[i][m] : m \in Nodes} \ {0}
<1>1. object \in [Nodes -> [Numbers -> MadeObject \union {NotMade}]]
      /\ peers \in [Nodes -> [Nodes -> Numbers \union {0}]] /\ moved \in [Nodes -> SUBSET Nodes]
  BY DEF PeersInv, NodesTyped, LimitInv
<1>2. /\ peers' = [peers EXCEPT ![i] = [m \in Nodes |-> 0]]
      /\ moved' = [moved EXCEPT ![i] = {}] /\ config' = config
      /\ object' = [object EXCEPT ![i] = Closed(i, K)]
  BY DEF Stop
<1> HIDE DEF K
<1>3. moved' \in [Nodes -> SUBSET Nodes]
  BY <1>1, <1>2
<1>4. ASSUME NEW n \in Nodes, NEW pool \in Pools, NEW m \in Counted(n, pool)'
      PROVE  m \in Counted(n, pool)
  <2>1. /\ m \in Nodes /\ peers'[n][m] # 0 /\ m \notin moved'[n]
        /\ object'[n][peers'[n][m]].pool = pool
    BY <1>4 DEF Counted, InPool, Has, PeerOf
  <2>2. n # i
    BY <1>1, <1>2, <2>1
  <2>3. peers'[n] = peers[n] /\ moved'[n] = moved[n] /\ object'[n] = object[n]
    BY <1>1, <1>2, <2>2
  <2> QED BY <2>1, <2>3 DEF Counted, InPool, Has, PeerOf
<1> QED BY <1>2, <1>3, <1>4, FewerCounted

(* Who changes pools when peers are reclassified counts as moved. *)
LEMMA ClassifierKeepsLimits ==
  ASSUME LimitInv, PeersInv, NEW i \in Nodes, SetPeerClassifier(i)
  PROVE  LimitInv'
<1> DEFINE K == {peers[i][m] : m \in Nodes} \ {0}
           obj == [k \in Numbers |->
             IF k \in K THEN [object[i][k] EXCEPT !.pool = Classify(i, object[i][k].to)]
             ELSE object[i][k]]
<1>1. object \in [Nodes -> [Numbers -> MadeObject \union {NotMade}]]
      /\ peers \in [Nodes -> [Nodes -> Numbers \union {0}]] /\ moved \in [Nodes -> SUBSET Nodes]
  BY DEF PeersInv, NodesTyped, LimitInv
<1>2. /\ object' = [object EXCEPT ![i] = obj] /\ UNCHANGED <<config, peers>>
      /\ moved' = [moved EXCEPT ![i] = @ \union Misplaced(i)]
  BY DEF SetPeerClassifier, settings
<1>3. moved' \in [Nodes -> SUBSET Nodes]
  BY <1>1, <1>2 DEF Misplaced
<1>4. ASSUME NEW m \in Nodes, peers[i][m] # 0, m \notin Misplaced(i)
      PROVE  obj[peers[i][m]].pool = object[i][peers[i][m]].pool
  <2> DEFINE k == peers[i][m]
             o == object[i][k]
  <2>1. k \in Numbers /\ k \in K /\ Open(o) /\ o.to = m
    BY <1>4, InMapIsOpen
  <2>2. o.pool = Classify(i, m)
    BY <1>4 DEF Misplaced, Has, PeerOf
  <2>3. o \in Object
    BY <1>1, <2>1, OpenIsMade
  <2>4. obj[k] = [o EXCEPT !.pool = Classify(i, o.to)]
    BY <2>1
  <2> HIDE DEF obj, K, k, o
  <2>5. obj[k].pool = Classify(i, m)
    BY <2>1, <2>3, <2>4 DEF Object
  <2> QED BY <2>2, <2>5 DEF k, o
<1> HIDE DEF obj, K
<1>5. ASSUME NEW n \in Nodes, NEW pool \in Pools, NEW m \in Counted(n, pool)'
      PROVE  m \in Counted(n, pool)
  <2>1. /\ m \in Nodes /\ peers[n][m] # 0 /\ m \notin moved'[n]
        /\ object'[n][peers[n][m]].pool = pool
    BY <1>2, <1>5 DEF Counted, InPool, Has, PeerOf
  <2>2. m \notin moved[n] /\ (n = i => m \notin Misplaced(i))
    BY <1>1, <1>2, <2>1
  <2>3. object[n][peers[n][m]].pool = pool
    BY <1>1, <1>2, <1>4, <2>1, <2>2
  <2> QED BY <2>1, <2>2, <2>3 DEF Counted, InPool, Has, PeerOf
<1> QED BY <1>2, <1>3, <1>5, FewerCounted

(* Whoever is there when a limit is set counts as moved. *)
LEMMA ConfigKeepsLimits ==
  ASSUME LimitInv, PeersInv, NEW i \in Nodes, NEW c \in Configs, SetPoolConfig(i, c)
  PROVE  LimitInv'
<1>1. /\ moved' = [moved EXCEPT ![i] = {m \in Nodes : Has(i, m)}]
      /\ config' = [config EXCEPT ![i] = c] /\ UNCHANGED <<object, peers>>
      /\ moved \in [Nodes -> SUBSET Nodes] /\ config \in [Nodes -> PoolConfigs]
      /\ c \in PoolConfigs
  BY DEF SetPoolConfig, LimitInv, PeersInv, RestTyped
<1>2. moved' \in [Nodes -> SUBSET Nodes]
  BY <1>1
<1> SUFFICES ASSUME NEW n \in Nodes, NEW pool \in Pools
             PROVE  Cardinality(Counted(n, pool)') <= config'[n][pool].max
  BY <1>2 DEF LimitInv, PoolsKeepTheirLimits, Counted
<1>3. InPool(n, pool)' = InPool(n, pool)
  BY <1>1 DEF InPool, Has, PeerOf
<1>4. CASE n = i
  <2>1. Counted(n, pool)' = {}
    BY <1>1, <1>3, <1>4 DEF Counted, InPool
  <2>2. config'[n][pool].max \in Nat
    BY <1>1, <1>4 DEF PoolConfigs
  <2> QED BY <2>1, <2>2, FS_EmptySet
<1>5. CASE n # i
  <2>1. Counted(n, pool)' = Counted(n, pool) /\ config'[n] = config[n]
    BY <1>1, <1>3, <1>5 DEF Counted
  <2>2. Cardinality(Counted(n, pool)) <= config[n][pool].max
    BY DEF LimitInv, PoolsKeepTheirLimits, Counted
  <2> QED BY <2>1, <2>2
<1> QED BY <1>4, <1>5

LEMMA InitLimits == Init => LimitInv
<1> SUFFICES ASSUME Init PROVE LimitInv
  OBVIOUS
<1>1. moved \in [Nodes -> SUBSET Nodes]
  BY DEF Init
<1>2. ASSUME NEW n \in Nodes, NEW pool \in Pools
      PROVE  Cardinality(InPool(n, pool) \ moved[n]) <= config[n][pool].max
  <2>1. InPool(n, pool) \ moved[n] = {}
    BY DEF Init, InPool, Has
  <2>2. config \in [Nodes -> PoolConfigs]
    BY ConfigsAssumption DEF Init
  <2>3. config[n][pool].max \in Nat
    BY <2>2 DEF PoolConfigs
  <2>4. Cardinality(InPool(n, pool) \ moved[n]) = 0
    BY <2>1, FS_EmptySet
  <2> QED BY <2>3, <2>4
<1> QED BY <1>1, <1>2 DEF LimitInv, PoolsKeepTheirLimits

LEMMA SignallingKeepsLimits ==
  ASSUME LimitInv, PeersInv, NEW n \in Nodes, Signalling(n)
  PROVE  LimitInv'
<1> USE DEF settings, own, messages
<1>1. object \in [Nodes -> [Numbers -> MadeObject \union {NotMade}]]
  BY DEF PeersInv, NodesTyped
<1>2. ASSUME NEW k \in Numbers, SendOffer(n, k) \/ SendAnswer(n, k) PROVE LimitInv'
  <2> DEFINE o == object[n][k]
             sent == [o EXCEPT !.told = TRUE]
             answered == [o EXCEPT !.told = TRUE, !.state = "connecting"]
  <2>1. o \in MadeObject /\ o \in Object
    BY <1>1, <1>2, OpenIsMade DEF SendOffer, SendAnswer, Open
  <2>2. sent.pool = o.pool /\ answered.pool = o.pool
    BY <2>1 DEF Object
  <2>3. CASE SendOffer(n, k)
    <3>1. object' = [object EXCEPT ![n] = [object[n] EXCEPT ![k] = sent]]
      BY <1>1, <2>3 DEF SendOffer
    <3> HIDE DEF sent, answered
    <3>2. \A i \in Nodes, j \in Numbers : object'[i][j].pool = object[i][j].pool
      BY <2>2, <3>1, OnePoolKept
    <3> QED BY <2>3, <3>2, SamePools DEF SendOffer
  <2>4. CASE SendAnswer(n, k)
    <3>1. object' = [object EXCEPT ![n] = [object[n] EXCEPT ![k] = answered]]
      BY <1>1, <2>4 DEF SendAnswer
    <3> HIDE DEF sent, answered
    <3>2. \A i \in Nodes, j \in Numbers : object'[i][j].pool = object[i][j].pool
      BY <2>2, <3>1, OnePoolKept
    <3> QED BY <2>4, <3>2, SamePools DEF SendAnswer
  <2> QED BY <1>2, <2>3, <2>4
<1>3. ASSUME NEW m \in Nodes, HandleHello(n, m) PROVE LimitInv'
  BY <1>3, InstallKeepsLimits DEF HandleHello
<1>4. ASSUME NEW msg \in relay, Receive(msg) PROVE LimitInv'
  BY <1>4, SamePools DEF Receive
<1>5. ASSUME NEW msg \in decrypting, HandleOffer(msg) PROVE LimitInv'
  <2>1. msg.from \in Nodes /\ msg.to \in Nodes
    BY MessagesTyped DEF PeersInv, RestTyped
  <2>2. CASE UNCHANGED own
    BY <1>5, <2>2, SamePools DEF HandleOffer
  <2>3. CASE ~UNCHANGED own
    BY <1>5, <2>1, <2>3, InstallKeepsLimits DEF HandleOffer
  <2> QED BY <2>2, <2>3
<1>6. ASSUME NEW msg \in decrypting, HandleAnswer(msg) PROVE LimitInv'
  <2>1. \A i \in Nodes, j \in Numbers : object'[i][j].pool = object[i][j].pool
    BY <1>6, HandleAnswerKeeps
  <2> QED BY <1>6, <2>1, SamePools DEF HandleAnswer
<1> QED BY <1>2, <1>3, <1>4, <1>5, <1>6 DEF Signalling

LEMMA NextKeepsLimits == PeersInv /\ LimitInv /\ [Next]_vars => LimitInv'
<1> SUFFICES ASSUME PeersInv, LimitInv, [Next]_vars PROVE LimitInv'
  OBVIOUS
<1> USE DEF settings, own, messages
<1>1. ASSUME NEW n \in Nodes, Signalling(n) PROVE LimitInv'
  BY <1>1, SignallingKeepsLimits
<1>2. ASSUME NEW n \in Nodes, SendHello(n) \/ Start(n) PROVE LimitInv'
  BY <1>2, SamePools DEF SendHello, Start
<1>3. ASSUME NEW n \in Nodes, NEW k \in Numbers, Connect(n, k) PROVE LimitInv'
  <2>1. \A i \in Nodes, j \in Numbers : object'[i][j].pool = object[i][j].pool
    BY <1>3 DEF Connect, PeersInv, NodesTyped
  <2> QED BY <1>3, <2>1, SamePools DEF Connect
<1>4. ASSUME NEW n \in Nodes, NEW k \in Numbers, Fail(n, k) \/ CleanUp(n, k) PROVE LimitInv'
  BY <1>4, CloseKeepsLimits DEF Fail, CleanUp
<1>5. ASSUME NEW n \in Nodes, NEW m \in Nodes, GraphChanges(n, m) PROVE LimitInv'
  BY <1>5, SamePools DEF GraphChanges
<1>6. UNCHANGED vars => LimitInv'
  BY SamePools DEF vars
<1> QED BY <1>1, <1>2, <1>3, <1>4, <1>5, <1>6, StopKeepsLimits, ClassifierKeepsLimits,
           ConfigKeepsLimits DEF Next

LEMMA LimitInvariant == Spec => []LimitInv
<1> QED BY InitLimits, NextKeepsLimits, PeersInvariant, PTL DEF Spec

(* A pool is over its limit only by peers that were reclassified, that sent  *)
(* a new offer under another class, or that were there when it was set.      *)
THEOREM LimitsHold == Spec => []PoolsKeepTheirLimits
<1>1. LimitInv => PoolsKeepTheirLimits
  BY DEF LimitInv
<1> QED BY <1>1, LimitInvariant, PTL

(* Variables keep their types, whatever is lost or late. *)
THEOREM ConnectionsTypeCorrect == Spec => []TypeOK
<1>1. PeersInv /\ LimitInv => TypeOK
  <2> SUFFICES ASSUME PeersInv, LimitInv PROVE TypeOK
    OBVIOUS
  <2>1. MadeObject \subseteq Object
    BY DEF MadeObject
  <2>2. object \in [Nodes -> [Numbers -> Object \union {NotMade}]]
    BY <2>1 DEF PeersInv, NodesTyped
  <2> QED BY <2>2 DEF PeersInv, LimitInv, NodesTyped, RestTyped, TypeOK
<1> QED BY <1>1, PeersInvariant, LimitInvariant, PTL

=============================================================================
