--------------------------- MODULE PeerConnections ---------------------------
(***************************************************************************)
(* How WebRTCStores find and connect to each other                         *)
(* (packages/hashtree/src/webrtc/store.ts): hello messages, offers and     *)
(* answers over the relays, the two pools with their limits, the clean-up  *)
(* of connections that do not come up, start() and stop(), and connect(),  *)
(* handleSignaling() and close() of Peer (webrtc/peer.ts).                 *)
(*                                                                         *)
(* A node is one session, named by a number: the order is that of the      *)
(* peers' uuids.  Peer objects are numbered per node, so that one closed   *)
(* and the one that takes its place can be told apart.  Relays delay and   *)
(* reorder messages, and lose those that are never delivered; a hello is a *)
(* replaceable event that they hand out again.  ICE candidates and the     *)
(* browser's connection are abstracted to: two ends whose descriptions     *)
(* name each other may connect, and any end may fail.                      *)
(***************************************************************************)
EXTENDS Integers, FiniteSets, FiniteSetsExt

CONSTANTS
  Nodes,          \* ordered like the uuids: the lower of two initiates
  Configs,        \* the pool configurations set later
  ConfigAtFirst,  \* the one each node starts with
  FollowsAtFirst, \* whom each node's social graph counts as followed at first
  Shares,         \* the nodes each node has a relay in common with
  MaxPeers,       \* bound: Peer objects of each node
  Changing,       \* bound: who may change to follow whom, as pairs
  Watched,        \* bound: the nodes NobodyStaysHalfOpen is checked of
  Settings        \* bound: the nodes that may stop and change their configuration

Pools == {"follows", "other"}
PoolConfigs == [Pools -> [max : Nat, satisfied : Nat]]

ASSUME NodesAssumption ==
  /\ Nodes \subseteq Nat /\ IsFiniteSet(Nodes) /\ Settings \subseteq Nodes /\ Watched \subseteq Nodes
  /\ Changing \subseteq Nodes \X Nodes
ASSUME ConfigsAssumption ==
  /\ Configs \subseteq PoolConfigs /\ ConfigAtFirst \in [Nodes -> PoolConfigs]
  /\ FollowsAtFirst \in [Nodes -> SUBSET Nodes]
ASSUME SharesAssumption ==
  /\ Shares \in [Nodes -> SUBSET Nodes]
  /\ \A n, m \in Nodes : m \in Shares[n] => n \in Shares[m] /\ n # m
ASSUME BoundsAssumption == MaxPeers \in [Nodes -> Nat]

VARIABLES
  running,    \* nodes between start() and stop()
  config,     \* the pool configuration of each node
  follows,    \* the live social graph: whom each node follows
  made,       \* number of Peer objects each node has made
  object,     \* the Peer objects of each node
  peers,      \* Map of each node: the number of its Peer for another, or 0
  moved,      \* history: of these, the ones whose pool or its limit changed since
  hellos,     \* nodes whose hello the relays have
  relay,      \* offers and answers published and not delivered
  delivered,  \* those that the receiver's subscription has delivered
  decrypting  \* messages delivered, awaiting decrypt()

settings == <<running, config, follows>>
own == <<made, object, peers, moved>>
messages == <<hellos, relay, delivered, decrypting>>
vars == <<settings, own, messages>>

Numbers == UNION {1 .. MaxPeers[n] : n \in Nodes}

(* direction and progress of a Peer object: state is connectionState, told   *)
(* says that its offer or answer was sent, remote is the number of the other *)
(* end's object in the description set, 0 for none                           *)
Object == [to : Nodes, direction : {"inbound", "outbound"},
           state : {"new", "connecting", "connected", "closed"},
           told : BOOLEAN, remote : Numbers \union {0}, pool : Pools]
NotMade == [state |-> "none"]

Message ==
  [type : {"offer"}, from : Nodes, to : Nodes, object : Numbers]
    \union [type : {"answer"}, from : Nodes, to : Nodes, object : Numbers, offer : Numbers]

-----------------------------------------------------------------------------
Has(n, m) == peers[n][m] # 0
PeerOf(n, m) == object[n][peers[n][m]]

(* getPoolCounts() *)
InPool(n, pool) == {m \in Nodes : Has(n, m) /\ PeerOf(n, m).pool = pool}
Total(n, pool) == Cardinality(InPool(n, pool))
ConnectedIn(n, pool) ==
  Cardinality({m \in InPool(n, pool) : PeerOf(n, m).state = "connected"})

(* Variation: full pools accept. *)
AcceptAlways(n, pool) == TRUE

canAcceptPeer(n, pool) == Total(n, pool) < config[n][pool].max

isPoolSatisfied(n, pool) == ConnectedIn(n, pool) >= config[n][pool].satisfied
isSatisfied(n) == \A pool \in Pools : isPoolSatisfied(n, pool)

Init ==
  /\ running = Nodes
  /\ config = ConfigAtFirst
  /\ follows = FollowsAtFirst
  /\ made = [n \in Nodes |-> 0]
  /\ object = [n \in Nodes |-> [k \in Numbers |-> NotMade]]
  /\ peers = [n \in Nodes |-> [m \in Nodes |-> 0]]
  /\ hellos = {n \in Nodes : ~isSatisfied(n)}
  /\ moved = [n \in Nodes |-> {}]
  /\ relay = {}
  /\ delivered = {}
  /\ decrypting = {}

(* peerClassifier: reads the social graph as it is now *)
Classify(n, m) == IF m \in follows[n] THEN "follows" ELSE "other"

Open(o) == o.state \in {"new", "connecting", "connected"}

(* Variation: an object that is replaced stays open. *)
ForgetOnly(n, K) == object[n]

(* Variation: a Peer that is closed shows the state it left. *)
Failed(n, K) ==
  [k \in Numbers |-> IF k \in K THEN [object[n][k] EXCEPT !.state = "failed"] ELSE object[n][k]]

(* close() of some objects of n *)
Closed(n, K) ==
  [k \in Numbers |-> IF k \in K THEN [object[n][k] EXCEPT !.state = "closed"] ELSE object[n][k]]

(* a new Peer object for m takes its place in the map; the one it replaces,  *)
(* if any, is closed, whose onClose deletes the entry before                 *)
Install(n, m, direction, remote) ==
  LET k == made[n] + 1 IN
  /\ k <= MaxPeers[n]
  /\ made' = [made EXCEPT ![n] = k]
  /\ peers' = [peers EXCEPT ![n][m] = k]
  /\ moved' = IF Has(n, m) /\ PeerOf(n, m).pool # Classify(n, m)
              THEN [moved EXCEPT ![n] = @ \union {m}] ELSE moved
  /\ object' = [object EXCEPT ![n] = [Closed(n, {peers[n][m]}) EXCEPT ![k] =
       [to |-> m, direction |-> direction, state |-> "new", told |-> FALSE,
        remote |-> remote, pool |-> Classify(n, m)]]]

(* Peer.close() and handlePeerClose(), which deletes by the peer's id *)
Close(n, k) ==
  /\ object' = [object EXCEPT ![n] = Closed(n, {k})]
  /\ peers' = [peers EXCEPT ![n][object[n][k].to] = 0]
  /\ moved' = [moved EXCEPT ![n] = @ \ {object[n][k].to}]
  /\ UNCHANGED made

-----------------------------------------------------------------------------
(* maybeSendHello(), at every interval; the nodes have started before *)
SendHello(n) ==
  /\ n \in running /\ ~isSatisfied(n)
  /\ hellos' = hellos \union {n}
  /\ UNCHANGED <<settings, own, relay, delivered, decrypting>>

(* a hello of m arrives at n: the lower of the two initiates, if it has room *)
HandleHello(n, m) ==
  /\ m \in hellos \intersect Shares[n] /\ n \in running
  /\ ~Has(n, m) /\ canAcceptPeer(n, Classify(n, m)) /\ n < m
  /\ Install(n, m, "outbound", 0)
  /\ UNCHANGED <<settings, messages>>

(* connect() has made the offer: it is published, unless the Peer closed *)
SendOffer(n, k) ==
  LET o == object[n][k] IN
  /\ o.state = "new" /\ o.direction = "outbound" /\ ~o.told
  /\ object' = [object EXCEPT ![n][k].told = TRUE]
  /\ relay' = relay \union {[type |-> "offer", from |-> n, to |-> o.to, object |-> k]}
  /\ UNCHANGED <<settings, made, peers, moved, hellos, delivered, decrypting>>

(* a directed message arrives, and is decrypted *)
Receive(msg) ==
  /\ msg \in relay /\ msg.to \in running
  /\ relay' = relay \ {msg}
  /\ delivered' = delivered \union {msg}
  /\ decrypting' = decrypting \union {msg}
  /\ UNCHANGED <<settings, own, hellos>>

(* handleOffer(): replaces the Peer there is, or needs room for a new one *)
HandleOffer(msg) ==
  LET n == msg.to IN
  /\ msg \in decrypting /\ msg.type = "offer"
  /\ decrypting' = decrypting \ {msg}
  /\ IF Has(n, msg.from) \/ canAcceptPeer(n, Classify(n, msg.from))
     THEN Install(n, msg.from, "inbound", msg.object)
     ELSE UNCHANGED own
  /\ UNCHANGED <<settings, hellos, relay, delivered>>

(* handleSignaling() of an offer has made the answer: it is published and    *)
(* the connection starts, unless the Peer was closed meanwhile               *)
SendAnswer(n, k) ==
  LET o == object[n][k] IN
  /\ o.state = "new" /\ o.direction = "inbound" /\ ~o.told
  /\ object' = [object EXCEPT ![n][k].told = TRUE, ![n][k].state = "connecting"]
  /\ relay' = relay \union
       {[type |-> "answer", from |-> n, to |-> o.to, object |-> k, offer |-> o.remote]}
  /\ UNCHANGED <<settings, made, peers, moved, hellos, delivered, decrypting>>

(* an answer goes to whatever Peer is in the map: setRemoteDescription()     *)
(* takes the first one when that Peer has an offer out, and throws otherwise *)
HandleAnswer(msg) ==
  LET n == msg.to
      k == peers[n][msg.from]
  IN
  /\ msg \in decrypting /\ msg.type = "answer"
  /\ decrypting' = decrypting \ {msg}
  /\ IF /\ k # 0 /\ object[n][k].direction = "outbound"
        /\ object[n][k].told /\ object[n][k].state = "new"
     THEN object' = [object EXCEPT
            ![n][k].remote = IF msg.offer = k THEN msg.object ELSE @,
            ![n][k].state = "connecting"]
     ELSE UNCHANGED object
  /\ UNCHANGED <<settings, made, peers, moved, hellos, relay, delivered>>

(* the browsers connect two ends whose descriptions match *)
Matched(n, k) ==
  LET o == object[n][k] IN
  /\ o.state \in {"connecting", "connected"} /\ o.remote # 0
  /\ LET other == object[o.to][o.remote] IN
     Open(other) /\ other.to = n /\ other.remote = k

Connect(n, k) ==
  /\ object[n][k].state = "connecting" /\ Matched(n, k)
  /\ object' = [object EXCEPT ![n][k].state = "connected"]
  /\ UNCHANGED <<settings, made, peers, moved, messages>>

(* connectionState "failed" or "disconnected", or the data channel closes *)
Fail(n, k) ==
  /\ object[n][k].state \in {"connecting", "connected"}
  /\ Close(n, k)
  /\ UNCHANGED <<settings, messages>>

(* Variation: only inbound connections are given up. *)
StaleInbound(o) == o.state = "new" /\ o.direction = "inbound"

(* state "new" for longer than the connection timeout *)
IsStale(o) == o.state = "new"

(* cleanupConnections(): every other state it looks for has closed the Peer *)
CleanUp(n, k) ==
  /\ n \in running
  /\ k \in {peers[n][m] : m \in Nodes} \ {0} /\ IsStale(object[n][k])
  /\ Close(n, k)
  /\ UNCHANGED <<settings, messages>>

-----------------------------------------------------------------------------
(* start(): the new subscription may deliver again what the last one did,    *)
(* for it asks for the messages of the last minute                           *)
Start(n) ==
  LET again == {msg \in delivered : msg.to = n} IN
  /\ n \in Settings \ running
  /\ running' = running \union {n}
  /\ relay' = relay \union again
  /\ delivered' = delivered \ again
  /\ hellos' = IF isSatisfied(n) THEN hellos ELSE hellos \union {n}
  /\ UNCHANGED <<config, follows, own, decrypting>>

(* stop(): closes the Peers of the map and clears it *)
Stop(n) ==
  /\ n \in running \intersect Settings
  /\ running' = running \ {n}
  /\ object' = [object EXCEPT ![n] = Closed(n, {peers[n][m] : m \in Nodes} \ {0})]
  /\ peers' = [peers EXCEPT ![n] = [m \in Nodes |-> 0]]
  /\ moved' = [moved EXCEPT ![n] = {}]
  /\ UNCHANGED <<config, follows, made, messages>>

(* the social graph learns of a follow or an unfollow *)
GraphChanges(n, m) ==
  /\ <<n, m>> \in Changing
  /\ follows' = [follows EXCEPT ![n] = SymDiff(@, {m})]
  /\ UNCHANGED <<running, config, own, messages>>

Misplaced(n) == {m \in Nodes : Has(n, m) /\ PeerOf(n, m).pool # Classify(n, m)}

(* setPeerClassifier(), when the store hears of it: limits are not looked at *)
SetPeerClassifier(n) ==
  /\ Misplaced(n) # {}
  /\ moved' = [moved EXCEPT ![n] = @ \union Misplaced(n)]
  /\ object' = [object EXCEPT ![n] = [k \in Numbers |->
       IF k \in {peers[n][m] : m \in Nodes} \ {0}
       THEN [object[n][k] EXCEPT !.pool = Classify(n, object[n][k].to)]
       ELSE object[n][k]]]
  /\ UNCHANGED <<settings, made, peers, messages>>

(* setPoolConfig(): connections stay *)
SetPoolConfig(n, c) ==
  /\ n \in Settings /\ config[n] # c
  /\ config' = [config EXCEPT ![n] = c]
  /\ moved' = [moved EXCEPT ![n] = {m \in Nodes : Has(n, m)}]
  /\ UNCHANGED <<running, follows, made, object, peers, messages>>

Signalling(n) ==
  \/ \E k \in Numbers : SendOffer(n, k) \/ SendAnswer(n, k)
  \/ \E m \in Nodes : HandleHello(n, m)
  \/ \E msg \in relay : msg.to = n /\ Receive(msg)
  \/ \E msg \in decrypting : msg.to = n /\ (HandleOffer(msg) \/ HandleAnswer(msg))

Next ==
  \/ \E n \in Nodes : Signalling(n) \/ SendHello(n)
  \/ \E n \in Nodes, k \in Numbers : Connect(n, k) \/ Fail(n, k) \/ CleanUp(n, k)
  \/ \E n \in Nodes : Start(n) \/ Stop(n) \/ SetPeerClassifier(n)
  \/ \E n, m \in Nodes : GraphChanges(n, m)
  \/ \E n \in Nodes, c \in Configs : SetPoolConfig(n, c)

Spec == Init /\ [][Next]_vars

(* what was begun goes on: descriptions are sent, the browser connects two   *)
(* ends that match and gives up an end whose other end is gone               *)
Progress(n, k) ==
  \/ SendOffer(n, k) \/ SendAnswer(n, k) \/ Connect(n, k)
  \/ ~Matched(n, k) /\ Fail(n, k)

(* and the clean-up interval runs *)
Fairness ==
  \A n \in Watched : \A k \in 1 .. MaxPeers[n] :
    WF_vars(Progress(n, k)) /\ WF_vars(CleanUp(n, k))
FairSpec == Spec /\ Fairness

-----------------------------------------------------------------------------
TypeOK ==
  /\ running \subseteq Nodes
  /\ config \in [Nodes -> PoolConfigs]
  /\ follows \in [Nodes -> SUBSET Nodes]
  /\ made \in [Nodes -> Nat]
  /\ \A n \in Nodes : made[n] <= MaxPeers[n]
  /\ object \in [Nodes -> [Numbers -> Object \union {NotMade}]]
  /\ peers \in [Nodes -> [Nodes -> Numbers \union {0}]]
  /\ moved \in [Nodes -> SUBSET Nodes]
  /\ hellos \subseteq Nodes
  /\ relay \subseteq Message /\ delivered \subseteq Message /\ decrypting \subseteq Message

(* The map and the open Peer objects are the same, however offers replace    *)
(* them: none is left behind connected, and none in the map is closed.       *)
(* handlePeerClose() relies on it, for it deletes by id, not by object.      *)
OpenPeersAreInTheMap ==
  \A n \in Nodes, k \in Numbers :
    Open(object[n][k]) <=> \E m \in Nodes : peers[n][m] = k /\ object[n][k].to = m

(* A pool grows over its limit in no other way than by peers that were       *)
(* reclassified, that sent a new offer under another class, or that were     *)
(* there when the limit was set: canAcceptPeer() guards only those that are  *)
(* new, against counts that reclassifying, replacing and closing change      *)
(* between a hello or an offer and the time it is handled.                   *)
PoolsKeepTheirLimits ==
  \A n \in Nodes, pool \in Pools :
    Cardinality(InPool(n, pool) \ moved[n]) <= config[n][pool].max

(* A connection that does not come up is given up: no Peer stays new or      *)
(* connecting and takes the room of another for ever.                        *)
NobodyStaysHalfOpen ==
  \A n \in Watched : \A k \in 1 .. MaxPeers[n] :
    object[n][k].state \in {"new", "connecting"}
      ~> \/ object[n][k].state \in {"connected", "closed"}
         \/ n \notin running
=============================================================================
