----------------------------- MODULE PeerNetwork -----------------------------
(***************************************************************************)
(* Several nodes that forward each other's requests: the answering half of *)
(* Peer (packages/hashtree/src/webrtc/peer.ts: handleRequest, sendData,    *)
(* theirRequests), WebRTCStore.forwardRequest, put() and the asking loop   *)
(* of get() (webrtc/store.ts), and the hops to live (webrtc/protocol.ts).  *)
(*                                                                         *)
(* A run is one invocation of handleRequest, or the loop of a get() of the *)
(* node's own.  The data channels are unordered and reliable while open;   *)
(* PeerRequester has the details of one request, here a request is pending *)
(* until it is answered or times out.  Timers fire at any time.            *)
(***************************************************************************)
EXTENDS Integers, FiniteSets, Sequences, SequencesExt, BagsExt

CONSTANTS
  Nodes, Hashes,
  Links,          \* pairs of nodes with an open data channel at first
  HeldAtFirst,    \* what each node's local store holds at first
  MAX_HTL,
  DecrementAtMax, \* htlConfig.decrementAtMax of the Peer a node has for another
  DecrementAtMin, \* htlConfig.decrementAtMin
  Capacity,       \* maxSize of theirRequests
  MaxRuns,        \* bound: runs of each node at a time, a later request waits
  Fragile,        \* bound: the links that may close
  Gets,           \* bound: the calls of get(), as pairs of node and hash
  Puts            \* bound: the calls of put(), likewise

Pairs == Nodes \X Nodes

ASSUME LinksAssumption ==
  /\ Links \subseteq Pairs
  /\ \A n, m \in Nodes : <<n, m>> \in Links => <<m, n>> \in Links /\ n # m
ASSUME HeldAssumption == HeldAtFirst \in [Nodes -> SUBSET Hashes]
ASSUME HTLAssumption ==
  /\ MAX_HTL \in Nat \ {0}
  /\ DecrementAtMax \in [Pairs -> BOOLEAN] /\ DecrementAtMin \in [Pairs -> BOOLEAN]
ASSUME BoundsAssumption ==
  /\ Fragile \subseteq Links
  /\ Capacity \in Nat \ {0} /\ MaxRuns \in [Nodes -> Nat \ {0}]
  /\ Gets \subseteq Nodes \X Hashes /\ Puts \subseteq Nodes \X Hashes

VARIABLES
  open,          \* pairs <<n, m>>: n's data channel to m is open
  held,          \* the local store of each node
  ourRequests,   \* triples <<n, m, h>>: n has a request of h pending at m
  theirRequests, \* what m asked n and n tracks, least recently used first
  requests,      \* the bag of requests in flight
  responses,     \* the bag of responses in flight
  run,           \* the runs of each node
  pushing,       \* put() has stored h at n and not pushed it yet
  gets, puts     \* the calls still to be made

stores == <<held, theirRequests>>
wires == <<open, requests, responses>>
calls == <<gets, puts>>
vars == <<wires, stores, ourRequests, run, pushing, calls>>

HTL == 0 .. MAX_HTL
Request == {q \in [from : Nodes, to : Nodes, h : Hashes, htl : HTL] : <<q.from, q.to>> \in Links}
Response == {r \in [from : Nodes, to : Nodes, h : Hashes] : <<r.from, r.to>> \in Links}

Slots(n) == 1 .. MaxRuns[n]

(* from: the asker, or the node itself for its own get(); found: what        *)
(* localStore.get read; htl: the hops left; todo: the peers still to ask;    *)
(* at: the one asked; own: the loop sent the request rather than joined it;  *)
(* got: its answer has come                                                  *)
Run == [phase : {"reading", "asking"}, from : Nodes, h : Hashes, htl : HTL,
        found : BOOLEAN, todo : SUBSET Nodes, at : Nodes, own : BOOLEAN, got : BOOLEAN]
Free == [phase |-> "free"]

Init ==
  /\ open = Links
  /\ held = HeldAtFirst
  /\ ourRequests = {}
  /\ theirRequests = [l \in Pairs |-> <<>>]
  /\ requests = EmptyBag
  /\ responses = EmptyBag
  /\ run = [n \in Nodes |-> [s \in Slots(n) |-> Free]]
  /\ pushing = {}
  /\ gets = Gets /\ puts = Puts

-----------------------------------------------------------------------------
(* Variation: a hop is counted whatever is left. *)
CountAlways(htl, link) == htl - 1

(* Variation: no hop is counted. *)
KeepHTL(htl, link) == htl

decrementHTL(htl, link) ==
  CASE htl = 0 -> 0
    [] htl = MAX_HTL -> IF DecrementAtMax[link] THEN htl - 1 ELSE htl
    [] htl = 1 /\ htl # MAX_HTL -> IF DecrementAtMin[link] THEN 0 ELSE htl
    [] OTHER -> htl - 1

shouldForward(htl) == htl > 0

(* LRUCache.delete: a key is in the cache once *)
LRUDelete(keys, h) == RemoveFirst(keys, h)

(* LRUCache.set of a key: it becomes the most recently used; the oldest of   *)
(* the others goes when the cache is full                                    *)
LRUSet(keys, h) ==
  LET others == LRUDelete(keys, h)
  IN Append(IF Len(others) >= Capacity THEN Tail(others) ELSE others, h)

Tracked(n, m) == ToSet(theirRequests[<<n, m>>])

(* Variation: the answer is recorded nowhere. *)
AnswerNothing(n, asker, h) == UNCHANGED responses

(* sendResponse(): dropped when the channel is not open *)
sendResponse(n, asker, h) ==
  responses' = IF <<n, asker>> \in open
               THEN BagAdd(responses, [from |-> n, to |-> asker, h |-> h])
               ELSE responses

isFree(n, s) == run[n][s] = Free /\ \A t \in 1 .. s - 1 : run[n][t] # Free

(* the peers a loop asks: all connected ones but the one excluded *)
OtherPeers(n, exclude) == {m \in Nodes : <<n, m>> \in open /\ m # exclude}

Asking(n, from, h, htl, todo) ==
  [phase |-> "asking", from |-> from, h |-> h, htl |-> htl, found |-> FALSE,
   todo |-> todo, at |-> n, own |-> FALSE, got |-> FALSE]

(* the hops left the loop passes to request(): those of a request received   *)
(* were decremented by handleRequest, with the asker's configuration         *)
LoopHTL(n, r) == IF r.from = n THEN r.htl ELSE decrementHTL(r.htl, <<n, r.from>>)

(* the loop of r goes on: request() joins the request it has pending at the  *)
(* next peer, or sends one; it resolves to null at once for peers whose      *)
(* channel has closed.  With no peer left the loop ends, nothing found.      *)
AskNext(n, s, r) ==
  LET live == {m \in r.todo : <<n, m>> \in open} IN
  \/ /\ live = {}
     /\ run' = [run EXCEPT ![n][s] = Free]
     /\ UNCHANGED <<ourRequests, requests>>
  \/ \E m \in live :
       /\ run' = [run EXCEPT ![n][s] = [r EXCEPT !.at = m, !.todo = live \ {m},
                                            !.own = <<n, m, r.h>> \notin ourRequests]]
       /\ ourRequests' = ourRequests \union {<<n, m, r.h>>}
       /\ requests' =
            IF <<n, m, r.h>> \in ourRequests THEN requests
            ELSE BagAdd(requests, [from |-> n, to |-> m, h |-> r.h,
                                    htl |-> decrementHTL(LoopHTL(n, r), <<n, m>>)])

-----------------------------------------------------------------------------
(* get() of the node's own for a hash its local store lacks *)
Get(n, s, h) ==
  /\ <<n, h>> \in gets /\ h \notin held[n]
  /\ isFree(n, s)
  /\ AskNext(n, s, Asking(n, n, h, MAX_HTL, OtherPeers(n, n)))
  /\ gets' = gets \ {<<n, h>>}
  /\ UNCHANGED <<open, responses, stores, pushing, puts>>

(* onmessage with a request: handleRequest starts to read the local store *)
HandleRequest(q, s) ==
  /\ BagIn(q, requests)
  /\ isFree(q.to, s)
  /\ requests' = BagRemove(requests, q)
  /\ run' = [run EXCEPT ![q.to][s] =
       [phase |-> "reading", from |-> q.from, h |-> q.h, htl |-> q.htl,
        found |-> q.h \in held[q.to], todo |-> {}, at |-> q.to,
        own |-> FALSE, got |-> FALSE]]
  /\ UNCHANGED <<open, responses, stores, ourRequests, pushing, calls>>

(* it has the data *)
AnswerLocally(n, s) ==
  LET r == run[n][s] IN
  /\ r.phase = "reading" /\ r.found
  /\ sendResponse(n, r.from, r.h)
  /\ run' = [run EXCEPT ![n][s] = Free]
  /\ UNCHANGED <<open, requests, stores, ourRequests, pushing, calls>>

(* it has not, and the request has no hops left: silence *)
StaySilent(n, s) ==
  LET r == run[n][s] IN
  /\ r.phase = "reading" /\ ~r.found /\ ~shouldForward(r.htl)
  /\ run' = [run EXCEPT ![n][s] = Free]
  /\ UNCHANGED <<wires, stores, ourRequests, pushing, calls>>

(* it has not: the request is tracked, and forwarded *)
StartForward(n, s) ==
  LET r == run[n][s] IN
  /\ r.phase = "reading" /\ ~r.found /\ shouldForward(r.htl)
  /\ theirRequests' = [theirRequests EXCEPT ![<<n, r.from>>] = LRUSet(@, r.h)]
  /\ AskNext(n, s, Asking(n, r.from, r.h, r.htl, OtherPeers(n, r.from)))
  /\ UNCHANGED <<open, responses, held, pushing, calls>>

(* Variation: the loop awaits the request alone. *)
NoDelay(n, s) == FALSE

(* the race is lost to peerQueryDelay *)
DelayFires(n, s) == run[n][s].phase = "asking" /\ ~run[n][s].got

(* the loop goes on to the next peer *)
GoOn(n, s) ==
  /\ DelayFires(n, s)
  /\ AskNext(n, s, run[n][s])
  /\ UNCHANGED <<open, responses, stores, pushing, calls>>

(* Variation: the data is passed on and not kept. *)
PassOn(n, h) == held

(* localStore.put *)
Keep(n, h) == [held EXCEPT ![n] = @ \union {h}]

(* a peer had it: it is stored, and sent to whom it was forwarded for *)
Found(n, s) ==
  LET r == run[n][s] IN
  /\ r.phase = "asking" /\ r.got
  /\ held' = Keep(n, r.h)
  /\ IF r.from = n
     THEN UNCHANGED <<theirRequests, responses>>
     ELSE /\ theirRequests' = [theirRequests EXCEPT ![<<n, r.from>>] = LRUDelete(@, r.h)]
          /\ sendResponse(n, r.from, r.h)
  /\ run' = [run EXCEPT ![n][s] = Free]
  /\ UNCHANGED <<open, requests, ourRequests, pushing, calls>>

-----------------------------------------------------------------------------
Awaits(n, s, m, h) ==
  run[n][s].phase = "asking" /\ run[n][s].at = m /\ run[n][s].h = h /\ ~run[n][s].got

(* onmessage with a response: resolves the pending request, if there is one, *)
(* for every loop that awaits it                                             *)
HandleResponse(r) ==
  LET n == r.to IN
  /\ BagIn(r, responses)
  /\ responses' = BagRemove(responses, r)
  /\ IF <<n, r.from, r.h>> \in ourRequests
     THEN /\ ourRequests' = ourRequests \ {<<n, r.from, r.h>>}
          /\ run' = [run EXCEPT ![n] = [s \in Slots(n) |->
               IF Awaits(n, s, r.from, r.h) THEN [run[n][s] EXCEPT !.got = TRUE] ELSE run[n][s]]]
     ELSE UNCHANGED <<ourRequests, run>>
  /\ UNCHANGED <<open, requests, stores, pushing, calls>>

(* requestTimeout is longer than peerQueryDelay: by then the loop that sent  *)
(* the request has gone on; one that joined it may await it still            *)
RequestTimeout(n, m, h) ==
  /\ <<n, m, h>> \in ourRequests
  /\ \A s \in Slots(n) : Awaits(n, s, m, h) => ~run[n][s].own
  /\ ourRequests' = ourRequests \ {<<n, m, h>>}
  /\ UNCHANGED <<wires, stores, run, pushing, calls>>

(* put() by the application: the local store, then the peers that asked *)
Put(n, h) ==
  /\ <<n, h>> \in puts /\ h \notin held[n]
  /\ held' = Keep(n, h)
  /\ pushing' = pushing \union {<<n, h>>}
  /\ puts' = puts \ {<<n, h>>}
  /\ UNCHANGED <<wires, theirRequests, ourRequests, run, gets>>

sendToInterestedPeers(n, h) ==
  LET interested == {m \in Nodes : <<n, m>> \in open /\ h \in Tracked(n, m)}
  IN
  /\ <<n, h>> \in pushing
  /\ pushing' = pushing \ {<<n, h>>}
  /\ theirRequests' = [l \in Pairs |->
       IF l[1] = n /\ l[2] \in interested
       THEN LRUDelete(theirRequests[l], h) ELSE theirRequests[l]]
  /\ responses' = responses (+) SetToBag([from : {n}, to : interested, h : {h}])
  /\ UNCHANGED <<open, requests, held, ourRequests, run, calls>>

Without(bag, links) == Restrict(bag, {q \in BagToSet(bag) : <<q.from, q.to>> \notin links})

(* the connection of two nodes closes; what was in flight is lost, pending   *)
(* requests resolve to null                                                  *)
ClosePeer(n, m) ==
  LET both == {<<n, m>>, <<m, n>>} IN
  /\ <<n, m>> \in open \intersect Fragile
  /\ open' = open \ both
  /\ ourRequests' = {o \in ourRequests : <<o[1], o[2]>> \notin both}
  /\ requests' = Without(requests, both)
  /\ responses' = Without(responses, both)
  /\ UNCHANGED <<stores, run, pushing, calls>>

Step(n, s) ==
  \/ AnswerLocally(n, s) \/ StaySilent(n, s) \/ StartForward(n, s)
  \/ GoOn(n, s) \/ Found(n, s)

Deliver ==
  \/ \E q \in BagToSet(requests) : \E s \in Slots(q.to) : HandleRequest(q, s)
  \/ \E r \in BagToSet(responses) : HandleResponse(r)

Next ==
  \/ \E n \in Nodes : \E s \in Slots(n) : Step(n, s)
  \/ Deliver
  \/ \E n \in Nodes, h \in Hashes : \E s \in Slots(n) : Get(n, s, h)
  \/ \E n, m \in Nodes, h \in Hashes : RequestTimeout(n, m, h)
  \/ \E n \in Nodes, h \in Hashes : Put(n, h) \/ sendToInterestedPeers(n, h)
  \/ \E n, m \in Nodes : ClosePeer(n, m)

Spec == Init /\ [][Next]_vars

(* channels deliver, and code that can go on does: a delay is a timer *)
Fairness ==
  /\ WF_vars(Deliver)
  /\ \A n \in Nodes : WF_vars(\E s \in Slots(n) : Step(n, s))
FairSpec == Spec /\ Fairness

-----------------------------------------------------------------------------
TypeOK ==
  /\ open \subseteq Links
  /\ held \in [Nodes -> SUBSET Hashes]
  /\ ourRequests \subseteq Nodes \X Nodes \X Hashes
  /\ theirRequests \in [Pairs -> Seq(Hashes)]
  /\ \A l \in Pairs : Len(theirRequests[l]) <= Capacity /\ IsInjective(theirRequests[l])
  /\ IsABag(requests) /\ BagToSet(requests) \subseteq Request
  /\ IsABag(responses) /\ BagToSet(responses) \subseteq Response
  /\ DOMAIN run = Nodes
  /\ \A n \in Nodes : run[n] \in [Slots(n) -> Run \union {Free}]
  /\ pushing \subseteq Nodes \X Hashes
  /\ gets \subseteq Gets /\ puts \subseteq Puts

(* Who answers has the data: however far a response has come, each node on  *)
(* its way back has stored what it sends (forwardRequest, put).             *)
AnswersAreHeld ==
  \A r \in BagToSet(responses) : r.h \in held[r.from]

(* CopiesIn of Bags, which the prover's library lacks *)
Copies(r, bag) == IF BagIn(r, bag) THEN bag[r] ELSE 0

(* An interest is dropped only with an answer, or for want of room: a run    *)
(* that finds nothing leaves it for a later put().                           *)
InterestIsKept ==
  [][\A n, m \in Nodes, h \in Hashes :
       (h \in Tracked(n, m) /\ h \notin ToSet(theirRequests[<<n, m>>]') /\ <<n, m>> \in open)
         => \/ Copies([from |-> n, to |-> m, h |-> h], responses') >
                 Copies([from |-> n, to |-> m, h |-> h], responses)
            \/ Len(theirRequests[<<n, m>>]) = Capacity]_vars

(* protocol.ts:109: in a loop of peers that forward each other's requests,   *)
(* and that wait for each other, every request dies out and every run ends.  *)
NetworkComesToRest ==
  <>[](/\ requests = EmptyBag
       /\ \A n \in Nodes : \A s \in Slots(n) : run[n][s] = Free)
=============================================================================
