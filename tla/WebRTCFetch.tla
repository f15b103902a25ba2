----------------------------- MODULE WebRTCFetch -----------------------------
(***************************************************************************)
(* WebRTCStore.get() (packages/hashtree/src/webrtc/store.ts): one fetch    *)
(* per hash, shared by the callers that ask meanwhile, asks the connected  *)
(* peers one after the other, not waiting long for any of them, then the   *)
(* fallback stores, and finally waits in pendingReqs for peers that        *)
(* connect.                                                                *)
(*                                                                         *)
(* Three kinds of asynchronous code await a peer's request(): a fetch, the *)
(* tryConnectedPeersForHash() it starts when it begins to wait, and the    *)
(* tryPendingReqs() of each new connection.  A request a peer already has  *)
(* pending is joined; a joiner is not settled by the request timeout (see  *)
(* PeerRequester).  Code resumed by a promise (a microtask) runs before    *)
(* anything else; reading and writing the local store of a fetch's result  *)
(* is one step.  Timers fire at any time, their lengths are left out.      *)
(***************************************************************************)
EXTENDS Naturals, FiniteSets

CONSTANTS
  Peers,          \* peer ids
  Follows,        \* the peers of the follows pool, asked first
  Hashes,
  Gets,           \* calls of get(), each made at most once
  HashOf,         \* the hash each call asks for
  Arrays,         \* the Uint8Array objects hashes are passed in
  ArrayOf,        \* the one of each call: pendingReqs is keyed by it
  SatisfiedFollows, SatisfiedOther, \* satisfiedConnections of the pools
  NoGet, NoPeer, NoHash,
  MaxConnects     \* bound: connections per peer id

ASSUME GetsAssumption ==
  /\ HashOf \in [Gets -> Hashes] /\ ArrayOf \in [Gets -> Arrays]
  /\ NoGet \notin Gets
ASSUME ArraysAssumption ==
  \A g, k \in Gets : ArrayOf[g] = ArrayOf[k] => HashOf[g] = HashOf[k]
ASSUME PoolsAssumption ==
  /\ Follows \subseteq Peers
  /\ SatisfiedFollows \in Nat /\ SatisfiedOther \in Nat /\ MaxConnects \in Nat

VARIABLES
  running,     \* between start() and stop()
  link,        \* connection of each peer id: none, connected, or channel open
  conn,        \* which Peer object of that id is the current one
  asked,       \* ourRequests of the current peers, as pairs of peer and hash
  local,       \* hashes in the local store
  outcome,     \* state of each call's promise
  pendingGets, \* the call whose fetch later calls for a hash join
  fetch,       \* the fetch each call started
  tried,       \* triedPeers of each fetch
  pendingReqs, \* by array, the fetch that waits
  tasks        \* runs of tryConnectedPeersForHash and tryPendingReqs

linkVars == <<running, link, conn>>
fetchVars == <<fetch, tried>>
callVars == <<outcome, pendingGets>>
vars == <<linkVars, asked, local, callVars, fetchVars, pendingReqs, tasks>>

(* a Peer object: an id and which connection of that id it is *)
PeerObject == Peers \X (1 .. MaxConnects)
IsOpen(o) == link[o[1]] = "open" /\ conn[o[1]] = o[2]

(* Variation: peers are told apart by object. *)
ObjectItself(o) == o

(* peer.peerId, what triedPeers holds *)
PeerId(o) == o[1]

Connected == {p \in Peers : link[p] # "none"}
ConnectedPeers == {<<p, conn[p]>> : p \in Connected}

Fetch == [phase : {"none", "asking", "servers", "waiting", "done", "expired"},
          todo : SUBSET PeerObject, at : PeerObject \union {NoPeer},
          own : BOOLEAN, got : {"pending", "data", "null", "lost"}]
Task == [kind : {"now", "new"}, get : Gets, todo : SUBSET PeerObject,
         at : PeerObject, own : BOOLEAN, got : {"pending", "data", "null"}]

NoFetch == [phase |-> "none", todo |-> {}, at |-> NoPeer, own |-> FALSE, got |-> "pending"]

Init ==
  /\ running = TRUE
  /\ link = [p \in Peers |-> "none"]
  /\ conn = [p \in Peers |-> 0]
  /\ asked = {}
  /\ local = {}
  /\ outcome = [g \in Gets |-> "idle"]
  /\ pendingGets = [h \in Hashes |-> NoGet]
  /\ fetch = [g \in Gets |-> NoFetch]
  /\ tried = [g \in Gets |-> {}]
  /\ pendingReqs = [a \in Arrays |-> NoGet]
  /\ tasks = {}

(* Some code can go on without waiting for anything. *)
Runnable(g) ==
  fetch[g].phase = "asking" /\ (fetch[g].at = NoPeer \/ fetch[g].got \in {"data", "null"})
Busy == (\E g \in Gets : Runnable(g)) \/ (\E t \in tasks : t.got # "pending")

-----------------------------------------------------------------------------
(* Settling calls and requests. *)

(* Variation: only the call that started the fetch is settled. *)
OnlyFirst(g) == {g}

(* Variation: calls that have settled are settled again. *)
EverJoined(g) == {k \in Gets : outcome[k] # "idle" /\ HashOf[k] = HashOf[g]}

(* the calls that share the promise of g's fetch *)
Joined(g) == {k \in Gets : outcome[k] = "waiting" /\ HashOf[k] = HashOf[g]}

(* the promise of g's fetch settles: for every call that shares it *)
Settle(g, result) ==
  /\ outcome' = [k \in Gets |-> IF k \in Joined(g) THEN result ELSE outcome[k]]
  /\ pendingGets' = [pendingGets EXCEPT ![HashOf[g]] = NoGet]

(* Variation: the data is not cached. *)
DropData(g) == UNCHANGED local

(* localStore.put(hash, data) *)
Store(g) == local' = local \union {HashOf[g]}

(* request() to a peer object whose channel is open joins the pending       *)
(* request, or sends one                                                    *)
Sends(o, h) == <<o[1], h>> \notin asked

(* who awaits the pending request for a hash of hs at a peer of ps *)
FetchAwaits(g, ps, hs) ==
  /\ fetch[g].phase = "asking" /\ fetch[g].at # NoPeer /\ fetch[g].got = "pending"
  /\ HashOf[g] \in hs
  /\ \E p \in ps : fetch[g].at = <<p, conn[p]>>
TaskAwaits(t, ps, hs) ==
  t.got = "pending" /\ HashOf[t.get] \in hs /\ \E p \in ps : t.at = <<p, conn[p]>>

(* these requests leave ourRequests and settle for everybody who awaits them *)
SettleRequests(ps, hs, r) ==
  /\ asked' = asked \ (ps \X hs)
  /\ fetch' = [g \in Gets |->
       IF FetchAwaits(g, ps, hs) THEN [fetch[g] EXCEPT !.got = r] ELSE fetch[g]]
  /\ tasks' = {IF TaskAwaits(t, ps, hs) THEN [t EXCEPT !.got = r] ELSE t : t \in tasks}

-----------------------------------------------------------------------------
(* Variation: concurrent calls are not deduplicated. *)
AlwaysFetch(g) == TRUE

MustFetch(g) == pendingGets[HashOf[g]] = NoGet

(* get(): reads the local store *)
Get(g) ==
  /\ ~Busy
  /\ outcome[g] = "idle"
  /\ outcome' = [outcome EXCEPT ![g] = IF HashOf[g] \in local THEN "data" ELSE "missed"]
  /\ UNCHANGED <<linkVars, asked, local, pendingGets, fetchVars, pendingReqs, tasks>>

(* get() after the local store had nothing: joins a fetch or starts one *)
GetJoin(g) ==
  /\ ~Busy
  /\ outcome[g] = "missed" /\ ~MustFetch(g)
  /\ outcome' = [outcome EXCEPT ![g] = "waiting"]
  /\ UNCHANGED <<linkVars, asked, local, pendingGets, fetchVars, pendingReqs, tasks>>

GetFetch(g) ==
  /\ ~Busy
  /\ outcome[g] = "missed" /\ MustFetch(g)
  /\ outcome' = [outcome EXCEPT ![g] = "waiting"]
  /\ pendingGets' = [pendingGets EXCEPT ![HashOf[g]] = g]
  /\ fetch' = [fetch EXCEPT ![g].phase = "asking", ![g].todo = ConnectedPeers]
  /\ UNCHANGED <<linkVars, asked, local, tried, pendingReqs, tasks>>

(* fetchFromPeers: the next peer; one whose channel is not open answers null *)
AskNext(g) ==
  /\ fetch[g].phase = "asking" /\ fetch[g].at = NoPeer
  /\ \E o \in fetch[g].todo :
       /\ o[1] \notin Follows => \A q \in fetch[g].todo : q[1] \notin Follows
       /\ tried' = [tried EXCEPT ![g] = @ \union {PeerId(o)}]
       /\ IF IsOpen(o)
          THEN /\ fetch' = [fetch EXCEPT ![g] =
                    [fetch[g] EXCEPT !.todo = @ \ {o}, !.at = o, !.own = Sends(o, HashOf[g]), !.got = "pending"]]
               /\ asked' = asked \union {<<o[1], HashOf[g]>>}
          ELSE fetch' = [fetch EXCEPT ![g].todo = @ \ {o}] /\ UNCHANGED asked
  /\ UNCHANGED <<linkVars, local, callVars, pendingReqs, tasks>>

NoPeersLeft(g) ==
  /\ fetch[g].phase = "asking" /\ fetch[g].at = NoPeer /\ fetch[g].todo = {}
  /\ fetch' = [fetch EXCEPT ![g].phase = "servers"]
  /\ UNCHANGED <<linkVars, asked, local, callVars, tried, pendingReqs, tasks>>

(* the race is won by the request *)
FetchResumes(g) ==
  /\ fetch[g].phase = "asking" /\ fetch[g].at # NoPeer
  /\ \/ /\ fetch[g].got = "null"
        /\ fetch' = [fetch EXCEPT ![g].at = NoPeer]
        /\ UNCHANGED <<local, callVars>>
     \/ /\ fetch[g].got = "data"
        /\ fetch' = [fetch EXCEPT ![g].phase = "done"]
        /\ Store(g)
        /\ Settle(g, "data")
  /\ UNCHANGED <<linkVars, asked, tried, pendingReqs, tasks>>

(* the race is won by the delay: the answer, if one comes, is dropped *)
PeerQueryDelay(g) ==
  /\ ~Busy
  /\ fetch[g].phase = "asking" /\ fetch[g].at # NoPeer
  /\ fetch' = [fetch EXCEPT ![g].at = NoPeer]
  /\ UNCHANGED <<linkVars, asked, local, callVars, tried, pendingReqs, tasks>>

-----------------------------------------------------------------------------
PoolSatisfied(pool, enough) == Cardinality(Connected \intersect pool) >= enough
IsSatisfied ==
  /\ PoolSatisfied(Follows, SatisfiedFollows)
  /\ PoolSatisfied(Peers \ Follows, SatisfiedOther)

(* Variation: triedPeers is not consulted. *)
AnyPeer(o, g) == TRUE

NotTried(o, g) == PeerId(o) \notin tried[g]

(* tryConnectedPeersForHash() for the entry of g, with the peers of todo to  *)
(* go: peers not yet tried are asked in turn; those with no open channel     *)
(* answer null at once.  inArray: g's PendingReq was not spliced out.        *)
NowContinues(g, todo, inArray, others) ==
  LET untried == IF inArray THEN {o \in todo : NotTried(o, g)} ELSE {}
      open == {o \in untried : IsOpen(o)}
      Mark(S) == tried' = [tried EXCEPT ![g] = @ \union {PeerId(o) : o \in S}]
  IN \/ /\ open = {}
        /\ Mark(untried)
        /\ tasks' = others
        /\ UNCHANGED asked
     \/ \E o \in open, before \in SUBSET (untried \ open) :
          /\ Mark(before \union {o})
          /\ tasks' = others \union {[kind |-> "now", get |-> g, todo |-> todo \ (before \union {o}),
                                     at |-> o, own |-> Sends(o, HashOf[g]), got |-> "pending"]}
          /\ asked' = asked \union {<<o[1], HashOf[g]>>}

(* tryPendingReqs() of peer object o over the entries of pendingReqs that    *)
(* have not tried its id                                                     *)
NewContinues(o, isOpen, entries, others) ==
  LET untried == {g \in entries : NotTried(o, g)}
      Mark(S) == tried' = [g \in Gets |-> IF g \in S THEN tried[g] \union {PeerId(o)} ELSE tried[g]]
  IN IF ~isOpen \/ untried = {}
     THEN Mark(untried) /\ tasks' = others /\ UNCHANGED asked
     ELSE \E g \in untried :
          /\ Mark({g})
          /\ tasks' = others \union {[kind |-> "new", get |-> g, todo |-> {},
                                     at |-> o, own |-> Sends(o, HashOf[g]), got |-> "pending"]}
          /\ asked' = asked \union {<<o[1], HashOf[g]>>}

Entries == {pendingReqs[a] : a \in Arrays} \ {NoGet}

(* the fallback stores: one has the data, or none answers with it; then the  *)
(* fetch waits for peers, unless there are enough                            *)
ServersFind(g) ==
  /\ ~Busy
  /\ fetch[g].phase = "servers"
  /\ fetch' = [fetch EXCEPT ![g].phase = "done"]
  /\ Store(g)
  /\ Settle(g, "data")
  /\ UNCHANGED <<linkVars, asked, tried, pendingReqs, tasks>>

GiveUp(g) ==
  /\ ~Busy
  /\ fetch[g].phase = "servers"
  /\ ~running \/ IsSatisfied
  /\ fetch' = [fetch EXCEPT ![g].phase = "done"]
  /\ Settle(g, "null")
  /\ UNCHANGED <<linkVars, asked, local, tried, pendingReqs, tasks>>

WaitForHash(g) ==
  /\ ~Busy
  /\ fetch[g].phase = "servers"
  /\ running /\ ~IsSatisfied
  /\ fetch' = [fetch EXCEPT ![g].phase = "waiting"]
  /\ pendingReqs' = [pendingReqs EXCEPT ![ArrayOf[g]] = g]
  /\ NowContinues(g, ConnectedPeers, TRUE, tasks)
  /\ UNCHANGED <<linkVars, local, callVars>>

(* Variation: the pending entry is left in the map. *)
LeaveEntry(g) == UNCHANGED pendingReqs

(* pendingReqs.delete(hash), or removePendingReq() of the only entry *)
RemoveEntry(g) == pendingReqs' = [pendingReqs EXCEPT ![ArrayOf[g]] = NoGet]

(* the PendingReq of a waiting fetch is resolved *)
Resolve(g, phase, result) ==
  IF g # NoGet /\ fetch[g].phase = "waiting"
  THEN fetch' = [fetch EXCEPT ![g].phase = phase] /\ Settle(g, result)
  ELSE UNCHANGED <<fetch, callVars>>

(* its timer: removePendingReq() takes it out of the array it finds it in *)
PendingReqTimeout(g) ==
  /\ ~Busy
  /\ fetch[g].phase = "waiting"
  /\ IF pendingReqs[ArrayOf[g]] = g
     THEN RemoveEntry(g) /\ Resolve(g, "expired", "null")
     ELSE UNCHANGED pendingReqs /\ Resolve(g, "done", "null")
  /\ UNCHANGED <<linkVars, asked, local, tried, tasks>>

(* a run of tryConnectedPeersForHash or tryPendingReqs goes on with an answer *)
NowResumes(t) ==
  /\ t \in tasks /\ t.kind = "now"
  /\ \/ /\ t.got = "null"
        /\ NowContinues(t.get, t.todo, fetch[t.get].phase # "expired", tasks \ {t})
        /\ UNCHANGED <<local, callVars, fetch, pendingReqs>>
     \/ /\ t.got = "data"
        /\ Store(t.get)
        /\ Resolve(pendingReqs[ArrayOf[t.get]], "done", "data")
        /\ RemoveEntry(t.get)
        /\ tasks' = tasks \ {t}
        /\ UNCHANGED <<asked, tried>>
  /\ UNCHANGED linkVars

NewResumes(t) ==
  /\ t \in tasks /\ t.kind = "new"
  /\ \/ /\ t.got = "null"
        /\ UNCHANGED <<local, callVars, fetch, pendingReqs>>
     \/ /\ t.got = "data"
        /\ Store(t.get)
        /\ Resolve(t.get, "done", "data")
        /\ RemoveEntry(t.get)
  /\ NewContinues(t.at, IsOpen(t.at),
                  {pendingReqs'[a] : a \in Arrays} \ {NoGet}, tasks \ {t})
  /\ UNCHANGED linkVars

-----------------------------------------------------------------------------
(* The peers and what they answer. *)

(* connectionState "connected": tryPendingReqs() runs, the data channel      *)
(* being open by then or not                                                 *)
Connect(p) ==
  /\ ~Busy
  /\ running /\ link[p] = "none" /\ conn[p] < MaxConnects
  /\ conn' = [conn EXCEPT ![p] = @ + 1]
  /\ \E state \in {"connected", "open"} :
       /\ link' = [link EXCEPT ![p] = state]
       /\ NewContinues(<<p, conn'[p]>>, state = "open", Entries, tasks)
  /\ UNCHANGED <<running, local, callVars, fetch, pendingReqs>>

ChannelOpen(p) ==
  /\ ~Busy
  /\ link[p] = "connected"
  /\ link' = [link EXCEPT ![p] = "open"]
  /\ UNCHANGED <<running, conn, asked, local, callVars, fetchVars, pendingReqs, tasks>>

ClosePeer(p) ==
  /\ ~Busy
  /\ link[p] # "none"
  /\ link' = [link EXCEPT ![p] = "none"]
  /\ SettleRequests({p}, Hashes, "null")
  /\ UNCHANGED <<running, conn, local, callVars, tried, pendingReqs>>

Stop ==
  /\ ~Busy
  /\ running
  /\ running' = FALSE
  /\ link' = [p \in Peers |-> "none"]
  /\ SettleRequests(Peers, Hashes, "null")
  /\ UNCHANGED <<conn, local, callVars, tried, pendingReqs>>

Start ==
  /\ ~Busy
  /\ ~running
  /\ running' = TRUE
  /\ UNCHANGED <<link, conn, asked, local, callVars, fetchVars, pendingReqs, tasks>>

(* the peer answers with the data, or with fragments that stall or wrong bytes *)
Response(p, h, r) ==
  /\ ~Busy
  /\ <<p, h>> \in asked
  /\ SettleRequests({p}, {h}, r)
  /\ UNCHANGED <<linkVars, local, callVars, tried, pendingReqs>>

(* the request timeout settles the promise of the request's owner alone *)
RequestTimeout(p, h) ==
  /\ ~Busy
  /\ <<p, h>> \in asked
  /\ asked' = asked \ {<<p, h>>}
  /\ fetch' = [g \in Gets |->
       IF FetchAwaits(g, {p}, {h})
       THEN [fetch[g] EXCEPT !.got = IF fetch[g].own THEN "null" ELSE "lost"] ELSE fetch[g]]
  /\ tasks' = {IF TaskAwaits(t, {p}, {h}) THEN [t EXCEPT !.got = "null"] ELSE t :
                 t \in {u \in tasks : TaskAwaits(u, {p}, {h}) => u.own}}
  /\ UNCHANGED <<linkVars, local, callVars, tried, pendingReqs>>

(* forwardRequest() on behalf of another peer sends requests of its own *)
ForwardRequest(p, h) ==
  /\ ~Busy
  /\ link[p] = "open" /\ <<p, h>> \notin asked
  /\ asked' = asked \union {<<p, h>>}
  /\ UNCHANGED <<linkVars, local, callVars, fetchVars, pendingReqs, tasks>>

(* put() by the application, or the answer of a forwarded request *)
Put(h) ==
  /\ ~Busy
  /\ local' = local \union {h}
  /\ UNCHANGED <<linkVars, asked, callVars, fetchVars, pendingReqs, tasks>>

Delete(h) ==
  /\ ~Busy
  /\ local' = local \ {h}
  /\ UNCHANGED <<linkVars, asked, callVars, fetchVars, pendingReqs, tasks>>

FetchStep(g) ==
  \/ GetJoin(g) \/ GetFetch(g)
  \/ AskNext(g) \/ NoPeersLeft(g) \/ FetchResumes(g) \/ PeerQueryDelay(g)
  \/ ServersFind(g) \/ GiveUp(g) \/ WaitForHash(g) \/ PendingReqTimeout(g)

TaskStep(t) == NowResumes(t) \/ NewResumes(t)

Environment ==
  \/ \E p \in Peers : Connect(p) \/ ChannelOpen(p) \/ ClosePeer(p)
  \/ \E p \in Peers, h \in Hashes :
       \/ Response(p, h, "data") \/ Response(p, h, "null")
       \/ RequestTimeout(p, h) \/ ForwardRequest(p, h)
  \/ \E h \in Hashes : Put(h) \/ Delete(h)
  \/ Stop \/ Start

Next ==
  \/ \E g \in Gets : Get(g) \/ FetchStep(g)
  \/ \E t \in tasks : TaskStep(t)
  \/ Environment

Spec == Init /\ [][Next]_vars

(* promises are awaited, the delay and the timer of a pending request fire,  *)
(* and the fallback stores answer or fail                                    *)
Fairness ==
  /\ \A g \in Gets : WF_vars(FetchStep(g))
  /\ WF_vars(\E t \in tasks : TaskStep(t))
FairSpec == Spec /\ Fairness

-----------------------------------------------------------------------------
TypeOK ==
  /\ running \in BOOLEAN
  /\ link \in [Peers -> {"none", "connected", "open"}]
  /\ conn \in [Peers -> 0 .. MaxConnects]
  /\ asked \subseteq Peers \X Hashes
  /\ local \subseteq Hashes
  /\ outcome \in [Gets -> {"idle", "missed", "waiting", "data", "null"}]
  /\ pendingGets \in [Hashes -> Gets \union {NoGet}]
  /\ fetch \in [Gets -> Fetch]
  /\ tried \in [Gets -> SUBSET Peers]
  /\ pendingReqs \in [Arrays -> Gets \union {NoGet}]
  /\ tasks \subseteq Task

IsFetching(g) == fetch[g].phase \in {"asking", "servers", "waiting"}

(* However calls, answers and timers interleave, one hash is fetched by one  *)
(* fetch at a time, which is the one later calls join.                       *)
OneFetchPerHash ==
  \A g \in Gets : IsFetching(g) => pendingGets[HashOf[g]] = g

(* A fetch that waits is the one its hash's entry in pendingReqs belongs to, *)
(* and an entry belongs to a fetch that waits: answers settle nobody else's  *)
(* promise and no entry outlives its fetch.                                  *)
EntriesAreWaiting ==
  \A a \in Arrays : pendingReqs[a] # NoGet =>
    fetch[pendingReqs[a]].phase = "waiting" /\ ArrayOf[pendingReqs[a]] = a

(* A peer is never sent a second request of a hash for the same fetch: no    *)
(* two of the three asking loops await one peer for it.                      *)
OneLoopPerPeer ==
  \A t, u \in tasks :
    (t.get = u.get /\ t.at[1] = u.at[1]) => t = u

(* What a fetch delivers is cached before its callers go on.                 *)
FetchedIsStored ==
  [][\A g \in Gets : outcome[g] = "waiting" /\ outcome'[g] = "data"
       => HashOf[g] \in local']_vars

(* What a caller of get() relies on: see HashPromises.  A call waits from    *)
(* its look into the local store on.                                         *)
Promises == INSTANCE HashPromises WITH
  Callers <- Gets,
  AtOnce <- {"data"},
  callerHash <- [g \in Gets |-> IF outcome[g] = "idle" THEN NoHash ELSE HashOf[g]],
  outcome <- [g \in Gets |-> IF outcome[g] = "missed" THEN "waiting" ELSE outcome[g]]
ImplementsHashPromises == Promises!Spec

(* Every call of get() settles, whatever peers do: each await of a fetch is  *)
(* raced with a delay or has a timer.                                        *)
EveryGetSettles ==
  \A g \in Gets : outcome[g] \in {"missed", "waiting"} ~> outcome[g] \in {"data", "null"}
=============================================================================
