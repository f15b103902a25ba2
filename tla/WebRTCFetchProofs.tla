------------------------- MODULE WebRTCFetchProofs -------------------------
(***************************************************************************)
(* Proofs about WebRTCFetch, for any peers, hashes, calls and arrays.      *)
(*                                                                         *)
(*   TypeInv     types, and a connection that exists has a number          *)
(*   FetchInv    one fetch per hash, and entries belong to fetches that    *)
(*               wait                                                      *)
(*   LoopInv     who is asked by a loop counts as tried, so that no two    *)
(*               loops ask one peer for one fetch                          *)
(*                                                                         *)
(* Each is inductive given the ones before it.                             *)
(***************************************************************************)
EXTENDS WebRTCFetch, TLAPS

USE GetsAssumption

ConnMade == \A p \in Peers : link[p] # "none" => conn[p] >= 1
TypeInv == TypeOK /\ ConnMade

FetchInv == OneFetchPerHash /\ EntriesAreWaiting

(* the runs of T, with the peers tr counts as tried *)
Loops(T, tr) ==
  /\ \A t \in T : t.at[1] \in tr[t.get]
  /\ \A t, u \in T : (t.get = u.get /\ t.at[1] = u.at[1]) => t = u
LoopInv == Loops(tasks, tried)

-----------------------------------------------------------------------------
(* Types. *)

LEMMA ObjectsTyped ==
  ASSUME NEW o \in PeerObject
  PROVE  o[1] \in Peers /\ o[2] \in 1 .. MaxConnects
BY DEF PeerObject

LEMMA ConnectedTyped ==
  ASSUME TypeInv
  PROVE  ConnectedPeers \subseteq PeerObject
<1> SUFFICES ASSUME NEW p \in Connected
             PROVE  <<p, conn[p]>> \in PeerObject
  BY DEF ConnectedPeers
<1>1. p \in Peers /\ conn[p] \in 0 .. MaxConnects /\ conn[p] >= 1
  BY DEF Connected, TypeInv, TypeOK, ConnMade
<1>2. conn[p] \in 1 .. MaxConnects
  BY <1>1, PoolsAssumption
<1> QED BY <1>1, <1>2 DEF PeerObject

(* Changing parts of the fetch of g keeps its type. *)
LEMMA FetchTyped ==
  ASSUME TypeInv, NEW g \in Gets
  PROVE  /\ fetch[g] \in Fetch
         /\ \A ph \in {"none", "asking", "servers", "waiting", "done", "expired"} :
              [fetch EXCEPT ![g].phase = ph] \in [Gets -> Fetch]
         /\ \A S \in SUBSET PeerObject : [fetch EXCEPT ![g].todo = S] \in [Gets -> Fetch]
         /\ [fetch EXCEPT ![g].at = NoPeer] \in [Gets -> Fetch]
         /\ \A o \in fetch[g].todo : o \in PeerObject
<1>1. fetch \in [Gets -> Fetch] /\ fetch[g] \in Fetch
  BY DEF TypeInv, TypeOK
<1>2. ASSUME NEW ph \in {"none", "asking", "servers", "waiting", "done", "expired"}
      PROVE  [fetch EXCEPT ![g].phase = ph] \in [Gets -> Fetch]
  <2>1. [fetch[g] EXCEPT !.phase = ph] \in Fetch
    BY <1>1 DEF Fetch
  <2> QED BY <1>1, <2>1
<1>3. ASSUME NEW S \in SUBSET PeerObject
      PROVE  [fetch EXCEPT ![g].todo = S] \in [Gets -> Fetch]
  <2>1. [fetch[g] EXCEPT !.todo = S] \in Fetch
    BY <1>1 DEF Fetch
  <2> QED BY <1>1, <2>1
<1>4. [fetch[g] EXCEPT !.at = NoPeer] \in Fetch
  BY <1>1 DEF Fetch
<1>5. \A o \in fetch[g].todo : o \in PeerObject
  BY <1>1 DEF Fetch
<1> QED BY <1>1, <1>2, <1>3, <1>4, <1>5

LEMMA SettleTyped ==
  ASSUME TypeInv, NEW g \in Gets, NEW r \in {"data", "null"}, Settle(g, r)
  PROVE  /\ outcome' \in [Gets -> {"idle", "missed", "waiting", "data", "null"}]
         /\ pendingGets' \in [Hashes -> Gets \union {NoGet}]
BY DEF TypeInv, TypeOK, Settle

LEMMA ResolveTyped ==
  ASSUME TypeInv, NEW g \in Gets \union {NoGet}, NEW ph \in {"done", "expired"},
         NEW r \in {"data", "null"}, Resolve(g, ph, r)
  PROVE  /\ fetch' \in [Gets -> Fetch]
         /\ outcome' \in [Gets -> {"idle", "missed", "waiting", "data", "null"}]
         /\ pendingGets' \in [Hashes -> Gets \union {NoGet}]
<1>1. CASE g # NoGet /\ fetch[g].phase = "waiting"
  <2>1. g \in Gets
    BY <1>1
  <2>2. fetch' = [fetch EXCEPT ![g].phase = ph] /\ Settle(g, r)
    BY <1>1 DEF Resolve
  <2>3. fetch' \in [Gets -> Fetch]
    BY <2>1, <2>2, FetchTyped
  <2> QED BY <2>1, <2>2, <2>3, SettleTyped
<1>2. CASE ~(g # NoGet /\ fetch[g].phase = "waiting")
  BY <1>2 DEF Resolve, callVars, TypeInv, TypeOK
<1> QED BY <1>1, <1>2

(* A request that settles leaves types and phases as they are. *)
LEMMA SettleRequestsTyped ==
  ASSUME TypeInv, NEW ps, NEW hs, NEW r \in {"data", "null"}, SettleRequests(ps, hs, r)
  PROVE  /\ asked' \subseteq Peers \X Hashes
         /\ fetch' \in [Gets -> Fetch]
         /\ tasks' \subseteq Task
<1>1. asked' \subseteq Peers \X Hashes
  BY DEF TypeInv, TypeOK, SettleRequests
<1>2. fetch' \in [Gets -> Fetch]
  <2>1. ASSUME NEW g \in Gets
        PROVE  [fetch[g] EXCEPT !.got = r] \in Fetch /\ fetch[g] \in Fetch
    <3>1. fetch[g] \in Fetch
      BY DEF TypeInv, TypeOK
    <3> QED BY <3>1 DEF Fetch
  <2> QED BY <2>1 DEF SettleRequests
<1>3. tasks' \subseteq Task
  <2>1. \A t \in tasks : [t EXCEPT !.got = r] \in Task /\ t \in Task
    BY DEF TypeInv, TypeOK, Task
  <2> QED BY <2>1 DEF SettleRequests
<1> QED BY <1>1, <1>2, <1>3

NewTask(kind, g, todo, o) ==
  [kind |-> kind, get |-> g, todo |-> todo, at |-> o, own |-> Sends(o, HashOf[g]), got |-> "pending"]

LEMMA NewTaskTyped ==
  ASSUME NEW kind \in {"now", "new"}, NEW g \in Gets, NEW todo \in SUBSET PeerObject,
         NEW o \in PeerObject
  PROVE  NewTask(kind, g, todo, o) \in Task
BY DEF NewTask, Task, Sends

(* one loop more, with task new, awaits a peer its fetch had not tried *)
OneMore(new, others) ==
  /\ new.at[1] \notin tried[new.get] /\ new.at[1] \in tried'[new.get]
  /\ tasks' = others \union {new}
  /\ asked' = asked \union {<<new.at[1], HashOf[new.get]>>}

(* What tryConnectedPeersForHash does next: it ends, or one loop more awaits  *)
(* a peer that was not tried before.                                          *)
LEMMA NowContinuesCases ==
  ASSUME TypeInv, NEW g \in Gets, NEW todo \in SUBSET PeerObject, NEW inArray,
         NEW others, NowContinues(g, todo, inArray, others)
  PROVE  /\ \E S \in SUBSET Peers : tried' = [tried EXCEPT ![g] = @ \union S]
         /\ \/ tasks' = others /\ asked' = asked
            \/ \E new \in Task : OneMore(new, others)
<1> DEFINE untried == IF inArray THEN {o \in todo : NotTried(o, g)} ELSE {}
           open == {o \in untried : IsOpen(o)}
           Ids(S) == {PeerId(o) : o \in S}
<1>1. tried \in [Gets -> SUBSET Peers]
  BY DEF TypeInv, TypeOK
<1>2. untried \subseteq PeerObject /\ open \subseteq untried
  OBVIOUS
<1>3. \A S \in SUBSET untried : Ids(S) \in SUBSET Peers
  BY <1>2, ObjectsTyped DEF PeerId
<1>4. \/ tried' = [tried EXCEPT ![g] = @ \union Ids(untried)] /\ tasks' = others /\ asked' = asked
      \/ \E o \in open, before \in SUBSET (untried \ open) :
           /\ tried' = [tried EXCEPT ![g] = @ \union Ids(before \union {o})]
           /\ tasks' = others \union {NewTask("now", g, todo \ (before \union {o}), o)}
           /\ asked' = asked \union {<<o[1], HashOf[g]>>}
  BY DEF NowContinues, NewTask
<1>5. CASE tried' = [tried EXCEPT ![g] = @ \union Ids(untried)] /\ tasks' = others /\ asked' = asked
  <2>1. Ids(untried) \in SUBSET Peers
    BY <1>3
  <2> HIDE DEF untried, open, Ids
  <2> QED BY <1>5, <2>1
<1>6. ASSUME NEW o \in open, NEW before \in SUBSET (untried \ open),
             /\ tried' = [tried EXCEPT ![g] = @ \union Ids(before \union {o})]
             /\ tasks' = others \union {NewTask("now", g, todo \ (before \union {o}), o)}
             /\ asked' = asked \union {<<o[1], HashOf[g]>>}
      PROVE  /\ \E S \in SUBSET Peers : tried' = [tried EXCEPT ![g] = @ \union S]
             /\ \E new \in Task : OneMore(new, others)
  <2>1. before \union {o} \in SUBSET untried
    OBVIOUS
  <2>2. Ids(before \union {o}) \in SUBSET Peers
    BY <2>1, <1>3
  <2>3. o[1] \in Ids(before \union {o})
    BY DEF PeerId
  <2>4. o \in PeerObject /\ o[1] \notin tried[g]
    BY <1>2 DEF NotTried, PeerId
  <2>5. todo \ (before \union {o}) \in SUBSET PeerObject
    OBVIOUS
  <2>6. o[1] \in tried'[g]
    <3> HIDE DEF untried, open, Ids
    <3> QED BY <1>1, <1>6, <2>3
  <2>7. PICK new \in Task : new = NewTask("now", g, todo \ (before \union {o}), o)
    BY <2>4, <2>5, NewTaskTyped
  <2>8. new.get = g /\ new.at = o
    BY <2>7 DEF NewTask
  <2>9. tasks' = others \union {new} /\ asked' = asked \union {<<new.at[1], HashOf[g]>>}
    BY <1>6, <2>7, <2>8
  <2> HIDE DEF untried, open, Ids
  <2>10. OneMore(new, others)
    BY <2>4, <2>6, <2>8, <2>9 DEF OneMore
  <2> QED BY <1>6, <2>2, <2>10
<1> HIDE DEF untried, open, Ids
<1> QED BY <1>4, <1>5, <1>6

LEMMA NewContinuesCases ==
  ASSUME TypeInv, NEW o \in PeerObject, NEW isOpen, NEW entries \in SUBSET Gets,
         NEW others, NewContinues(o, isOpen, entries, others)
  PROVE  /\ \E S \in SUBSET Gets :
              tried' = [g \in Gets |-> IF g \in S THEN tried[g] \union {o[1]} ELSE tried[g]]
         /\ \/ tasks' = others /\ asked' = asked
            \/ \E new \in Task : OneMore(new, others)
<1> DEFINE untried == {g \in entries : NotTried(o, g)}
<1>1. untried \in SUBSET Gets
  OBVIOUS
<1>2. CASE ~isOpen \/ untried = {}
  BY <1>1, <1>2 DEF NewContinues, PeerId
<1>3. CASE ~(~isOpen \/ untried = {})
  <2>1. PICK g \in untried :
          /\ tried' = [k \in Gets |-> IF k \in {g} THEN tried[k] \union {o[1]} ELSE tried[k]]
          /\ tasks' = others \union {NewTask("new", g, {}, o)}
          /\ asked' = asked \union {<<o[1], HashOf[g]>>}
    BY <1>3 DEF NewContinues, NewTask, PeerId
  <2>2. g \in Gets /\ o[1] \notin tried[g]
    BY DEF NotTried, PeerId
  <2>3. {g} \in SUBSET Gets /\ o[1] \in tried'[g]
    BY <2>1, <2>2
  <2>4. PICK new \in Task : new = NewTask("new", g, {}, o)
    BY <2>2, NewTaskTyped
  <2>5. new.get = g /\ new.at = o
    BY <2>4 DEF NewTask
  <2>6. tasks' = others \union {new} /\ asked' = asked \union {<<o[1], HashOf[new.get]>>}
    BY <2>1, <2>4, <2>5
  <2>7. OneMore(new, others)
    BY <2>2, <2>3, <2>5, <2>6 DEF OneMore
  <2> QED BY <2>1, <2>3, <2>7
<1> QED BY <1>2, <1>3

LEMMA OneMoreTyped ==
  ASSUME NEW others \in SUBSET Task, NEW new \in Task, OneMore(new, others),
         asked \subseteq Peers \X Hashes
  PROVE  tasks' \subseteq Task /\ asked' \subseteq Peers \X Hashes
<1>1. new.at[1] \in Peers /\ HashOf[new.get] \in Hashes
  BY ObjectsTyped DEF Task
<1> QED BY <1>1 DEF OneMore

LEMMA NowContinuesTyped ==
  ASSUME TypeInv, NEW g \in Gets, NEW todo \in SUBSET PeerObject, NEW inArray,
         NEW others \in SUBSET Task, NowContinues(g, todo, inArray, others)
  PROVE  /\ tried' \in [Gets -> SUBSET Peers]
         /\ tasks' \subseteq Task
         /\ asked' \subseteq Peers \X Hashes
<1>1. tried \in [Gets -> SUBSET Peers] /\ asked \subseteq Peers \X Hashes
  BY DEF TypeInv, TypeOK
<1>2. tried' \in [Gets -> SUBSET Peers]
  <2>1. \E S \in SUBSET Peers : tried' = [tried EXCEPT ![g] = @ \union S]
    BY NowContinuesCases
  <2> QED BY <1>1, <2>1
<1>3. CASE tasks' = others /\ asked' = asked
  BY <1>1, <1>2, <1>3
<1>4. ASSUME NEW new \in Task, OneMore(new, others)
      PROVE  tasks' \subseteq Task /\ asked' \subseteq Peers \X Hashes
  BY <1>1, <1>4, OneMoreTyped
<1> QED BY <1>2, <1>3, <1>4, NowContinuesCases

LEMMA NewContinuesTyped ==
  ASSUME TypeInv, NEW o \in PeerObject, NEW isOpen, NEW entries \in SUBSET Gets,
         NEW others \in SUBSET Task, NewContinues(o, isOpen, entries, others)
  PROVE  /\ tried' \in [Gets -> SUBSET Peers]
         /\ tasks' \subseteq Task
         /\ asked' \subseteq Peers \X Hashes
<1>1. tried \in [Gets -> SUBSET Peers] /\ asked \subseteq Peers \X Hashes /\ o[1] \in Peers
  BY ObjectsTyped DEF TypeInv, TypeOK
<1>2. tried' \in [Gets -> SUBSET Peers]
  BY <1>1, NewContinuesCases
<1>3. CASE tasks' = others /\ asked' = asked
  BY <1>1, <1>2, <1>3
<1>4. ASSUME NEW new \in Task, OneMore(new, others)
      PROVE  tasks' \subseteq Task /\ asked' \subseteq Peers \X Hashes
  BY <1>1, <1>4, OneMoreTyped
<1> QED BY <1>2, <1>3, <1>4, NewContinuesCases

(* Every action keeps the types.  Each step names what the action changes;   *)
(* the rest of TypeInv is unchanged.                                         *)
LEMMA TypeStep == TypeInv /\ [Next]_vars => TypeInv'
<1> SUFFICES ASSUME TypeInv, [Next]_vars PROVE TypeInv'
  OBVIOUS
<1> USE DEF TypeInv
<1>0. /\ fetch \in [Gets -> Fetch] /\ tasks \in SUBSET Task
      /\ \A t \in tasks : t \in Task
      /\ \A t \in tasks : t.get \in Gets /\ t.at \in PeerObject /\ t.todo \in SUBSET PeerObject
  BY DEF TypeOK, Task
<1>1. ASSUME NEW g \in Gets, Get(g) \/ GetJoin(g) PROVE TypeInv'
  BY <1>1 DEF Get, GetJoin, TypeOK, ConnMade, linkVars, fetchVars
<1>2. ASSUME NEW g \in Gets, GetFetch(g) PROVE TypeInv'
  <2>1. fetch' \in [Gets -> Fetch]
    <3>1. fetch[g] \in Fetch /\ ConnectedPeers \in SUBSET PeerObject
      BY ConnectedTyped DEF TypeOK
    <3>2. [fetch[g] EXCEPT !.phase = "asking", !.todo = ConnectedPeers] \in Fetch
      BY <3>1 DEF Fetch
    <3> QED BY <1>0, <1>2, <3>2 DEF GetFetch
  <2> QED BY <1>2, <2>1 DEF GetFetch, TypeOK, ConnMade, linkVars
<1>3. ASSUME NEW g \in Gets, AskNext(g) PROVE TypeInv'
  <2>1. PICK o \in fetch[g].todo :
          /\ tried' = [tried EXCEPT ![g] = @ \union {PeerId(o)}]
          /\ IF IsOpen(o)
             THEN /\ fetch' = [fetch EXCEPT ![g] =
                       [fetch[g] EXCEPT !.todo = @ \ {o}, !.at = o, !.own = Sends(o, HashOf[g]), !.got = "pending"]]
                  /\ asked' = asked \union {<<o[1], HashOf[g]>>}
             ELSE fetch' = [fetch EXCEPT ![g].todo = @ \ {o}] /\ UNCHANGED asked
    BY <1>3 DEF AskNext
  <2>2. o \in PeerObject /\ o[1] \in Peers /\ fetch[g] \in Fetch
    BY FetchTyped, ObjectsTyped
  <2>3. tried' \in [Gets -> SUBSET Peers]
    BY <2>1, <2>2 DEF TypeOK, PeerId
  <2>4. asked' \subseteq Peers \X Hashes
    BY <2>1, <2>2 DEF TypeOK
  <2>5. fetch' \in [Gets -> Fetch]
    <3>1. Sends(o, HashOf[g]) \in BOOLEAN
      BY DEF Sends
    <3>2. [fetch[g] EXCEPT !.todo = @ \ {o}, !.at = o, !.own = Sends(o, HashOf[g]), !.got = "pending"] \in Fetch
      BY <2>2, <3>1 DEF Fetch
    <3>3. [fetch[g] EXCEPT !.todo = @ \ {o}] \in Fetch
      BY <2>2 DEF Fetch
    <3>4. CASE IsOpen(o)
      <4>1. fetch' = [fetch EXCEPT ![g] =
              [fetch[g] EXCEPT !.todo = @ \ {o}, !.at = o, !.own = Sends(o, HashOf[g]), !.got = "pending"]]
        BY <1>0, <2>1, <3>4
      <4> QED BY <1>0, <3>2, <4>1
    <3>5. CASE ~IsOpen(o)
      <4>1. fetch' = [fetch EXCEPT ![g] = [fetch[g] EXCEPT !.todo = @ \ {o}]]
        BY <1>0, <2>1, <3>5
      <4> QED BY <1>0, <3>3, <4>1
    <3> QED BY <3>4, <3>5
  <2> QED BY <1>3, <2>3, <2>4, <2>5 DEF AskNext, TypeOK, ConnMade, linkVars, callVars
<1>4. ASSUME NEW g \in Gets, NoPeersLeft(g) \/ PeerQueryDelay(g) PROVE TypeInv'
  <2>1. fetch' \in [Gets -> Fetch]
    <3>1. \/ fetch' = [fetch EXCEPT ![g].phase = "servers"]
          \/ fetch' = [fetch EXCEPT ![g].at = NoPeer]
      BY <1>4 DEF NoPeersLeft, PeerQueryDelay
    <3>2. /\ \A ph \in {"servers", "done"} : [fetch EXCEPT ![g].phase = ph] \in [Gets -> Fetch]
          /\ [fetch EXCEPT ![g].at = NoPeer] \in [Gets -> Fetch]
      BY FetchTyped
    <3> QED BY <3>1, <3>2
  <2> QED BY <1>4, <2>1 DEF NoPeersLeft, PeerQueryDelay, TypeOK, ConnMade, linkVars, callVars
<1>5. ASSUME NEW g \in Gets, FetchResumes(g) PROVE TypeInv'
  <2>1. fetch' \in [Gets -> Fetch]
    <3>1. \/ fetch' = [fetch EXCEPT ![g].phase = "done"]
          \/ fetch' = [fetch EXCEPT ![g].at = NoPeer]
      BY <1>5 DEF FetchResumes
    <3>2. /\ \A ph \in {"servers", "done"} : [fetch EXCEPT ![g].phase = ph] \in [Gets -> Fetch]
          /\ [fetch EXCEPT ![g].at = NoPeer] \in [Gets -> Fetch]
      BY FetchTyped
    <3> QED BY <3>1, <3>2
  <2>2. /\ outcome' \in [Gets -> {"idle", "missed", "waiting", "data", "null"}]
        /\ pendingGets' \in [Hashes -> Gets \union {NoGet}]
    BY <1>5, SettleTyped DEF FetchResumes, TypeOK, callVars
  <2>3. local' \subseteq Hashes
    BY <1>5 DEF FetchResumes, Store, TypeOK
  <2> QED BY <1>5, <2>1, <2>2, <2>3 DEF FetchResumes, TypeOK, ConnMade, linkVars
<1>6. ASSUME NEW g \in Gets, ServersFind(g) \/ GiveUp(g) PROVE TypeInv'
  <2>1. fetch' \in [Gets -> Fetch]
    <3>1. fetch' = [fetch EXCEPT ![g].phase = "done"]
      BY <1>6 DEF ServersFind, GiveUp
    <3>2. /\ \A ph \in {"servers", "done"} : [fetch EXCEPT ![g].phase = ph] \in [Gets -> Fetch]
          /\ [fetch EXCEPT ![g].at = NoPeer] \in [Gets -> Fetch]
      BY FetchTyped
    <3> QED BY <3>1, <3>2
  <2>2. /\ outcome' \in [Gets -> {"idle", "missed", "waiting", "data", "null"}]
        /\ pendingGets' \in [Hashes -> Gets \union {NoGet}]
    BY <1>6, SettleTyped DEF ServersFind, GiveUp
  <2>3. local' \subseteq Hashes
    BY <1>6 DEF ServersFind, GiveUp, Store, TypeOK
  <2> QED BY <1>6, <2>1, <2>2, <2>3 DEF ServersFind, GiveUp, TypeOK, ConnMade, linkVars
<1>7. ASSUME NEW g \in Gets, WaitForHash(g) PROVE TypeInv'
  <2>1. fetch' \in [Gets -> Fetch]
    BY <1>7, FetchTyped DEF WaitForHash
  <2>2. /\ tried' \in [Gets -> SUBSET Peers]
        /\ tasks' \subseteq Task
        /\ asked' \subseteq Peers \X Hashes
    BY <1>0, <1>7, NowContinuesTyped, ConnectedTyped DEF WaitForHash
  <2>3. pendingReqs' \in [Arrays -> Gets \union {NoGet}]
    BY <1>7 DEF WaitForHash, TypeOK
  <2> QED BY <1>7, <2>1, <2>2, <2>3 DEF WaitForHash, TypeOK, ConnMade, linkVars, callVars
<1>8. ASSUME NEW g \in Gets, PendingReqTimeout(g) PROVE TypeInv'
  <2>1. /\ fetch' \in [Gets -> Fetch]
        /\ outcome' \in [Gets -> {"idle", "missed", "waiting", "data", "null"}]
        /\ pendingGets' \in [Hashes -> Gets \union {NoGet}]
    BY <1>8, ResolveTyped DEF PendingReqTimeout
  <2>2. pendingReqs' \in [Arrays -> Gets \union {NoGet}]
    BY <1>8 DEF PendingReqTimeout, RemoveEntry, TypeOK
  <2> QED BY <1>8, <2>1, <2>2 DEF PendingReqTimeout, TypeOK, ConnMade, linkVars
<1>9. ASSUME NEW t \in tasks, NowResumes(t) PROVE TypeInv'
  <2>1. t.get \in Gets /\ t.todo \in SUBSET PeerObject /\ tasks \ {t} \in SUBSET Task
    BY <1>0
  <2>2. UNCHANGED linkVars
    BY <1>9 DEF NowResumes
  <2>3. CASE t.got = "null"
    <3>1. /\ tried' \in [Gets -> SUBSET Peers]
          /\ tasks' \subseteq Task
          /\ asked' \subseteq Peers \X Hashes
      BY <1>9, <2>1, <2>3, NowContinuesTyped DEF NowResumes
    <3> QED BY <1>9, <2>2, <2>3, <3>1 DEF NowResumes, TypeOK, ConnMade, linkVars, callVars
  <2>4. CASE t.got # "null"
    <3>1. pendingReqs[ArrayOf[t.get]] \in Gets \union {NoGet}
      BY <2>1 DEF TypeOK
    <3>2. /\ Store(t.get) /\ RemoveEntry(t.get) /\ tasks' = tasks \ {t} /\ UNCHANGED <<asked, tried>>
          /\ Resolve(pendingReqs[ArrayOf[t.get]], "done", "data")
      BY <1>9, <2>4 DEF NowResumes
    <3>3. /\ fetch' \in [Gets -> Fetch]
          /\ outcome' \in [Gets -> {"idle", "missed", "waiting", "data", "null"}]
          /\ pendingGets' \in [Hashes -> Gets \union {NoGet}]
      BY <3>1, <3>2, ResolveTyped
    <3>4. local' \subseteq Hashes /\ pendingReqs' \in [Arrays -> Gets \union {NoGet}]
      BY <2>1, <3>2 DEF Store, RemoveEntry, TypeOK
    <3> QED BY <2>1, <2>2, <3>2, <3>3, <3>4 DEF TypeOK, ConnMade, linkVars
  <2> QED BY <2>3, <2>4
<1>10. ASSUME NEW t \in tasks, NewResumes(t) PROVE TypeInv'
  <2>1. t.get \in Gets /\ t.at \in PeerObject /\ tasks \ {t} \in SUBSET Task
    BY <1>0
  <2>2. /\ fetch' \in [Gets -> Fetch]
        /\ outcome' \in [Gets -> {"idle", "missed", "waiting", "data", "null"}]
        /\ pendingGets' \in [Hashes -> Gets \union {NoGet}]
        /\ local' \subseteq Hashes
        /\ pendingReqs' \in [Arrays -> Gets \union {NoGet}]
    <3>1. CASE t.got = "null"
      BY <1>10, <3>1 DEF NewResumes, TypeOK, callVars
    <3>2. CASE t.got # "null"
      <4>1. Store(t.get) /\ RemoveEntry(t.get) /\ Resolve(t.get, "done", "data")
        BY <1>10, <3>2 DEF NewResumes
      <4>2. local' \subseteq Hashes /\ pendingReqs' \in [Arrays -> Gets \union {NoGet}]
        BY <2>1, <4>1 DEF Store, RemoveEntry, TypeOK
      <4> QED BY <2>1, <4>1, <4>2, ResolveTyped
    <3> QED BY <3>1, <3>2
  <2>3. {pendingReqs'[a] : a \in Arrays} \ {NoGet} \in SUBSET Gets
    BY <2>2
  <2>4. NewContinues(t.at, IsOpen(t.at), {pendingReqs'[a] : a \in Arrays} \ {NoGet}, tasks \ {t})
    BY <1>10 DEF NewResumes
  <2>5. /\ tried' \in [Gets -> SUBSET Peers]
        /\ tasks' \subseteq Task
        /\ asked' \subseteq Peers \X Hashes
    BY <2>1, <2>3, <2>4, NewContinuesTyped
  <2>6. UNCHANGED linkVars
    BY <1>10 DEF NewResumes
  <2> QED BY <2>2, <2>5, <2>6 DEF TypeOK, ConnMade, linkVars
<1>11. ASSUME NEW p \in Peers, Connect(p) PROVE TypeInv'
  <2>1. conn' = [conn EXCEPT ![p] = conn[p] + 1] /\ conn[p] < MaxConnects /\ conn[p] \in 0 .. MaxConnects
    BY <1>11 DEF Connect, TypeOK
  <2>2. conn' \in [Peers -> 0 .. MaxConnects] /\ conn'[p] \in 1 .. MaxConnects
    BY <2>1, PoolsAssumption DEF TypeOK
  <2>3. PICK state \in {"connected", "open"} :
          /\ link' = [link EXCEPT ![p] = state]
          /\ NewContinues(<<p, conn'[p]>>, state = "open", Entries, tasks)
    BY <1>11 DEF Connect
  <2>4. <<p, conn'[p]>> \in PeerObject /\ Entries \in SUBSET Gets
    BY <2>2 DEF PeerObject, Entries, TypeOK
  <2>5. /\ tried' \in [Gets -> SUBSET Peers]
        /\ tasks' \subseteq Task
        /\ asked' \subseteq Peers \X Hashes
    BY <1>0, <2>3, <2>4, NewContinuesTyped
  <2>6. ConnMade'
    <3> SUFFICES ASSUME NEW q \in Peers, link'[q] # "none" PROVE conn'[q] >= 1
      BY DEF ConnMade
    <3>1. CASE q = p
      BY <2>2, <3>1, PoolsAssumption
    <3>2. CASE q # p
      BY <2>1, <2>3, <3>2 DEF ConnMade, TypeOK
    <3> QED BY <3>1, <3>2
  <2>7. link' \in [Peers -> {"none", "connected", "open"}]
    BY <2>3 DEF TypeOK
  <2> QED BY <1>11, <2>2, <2>5, <2>6, <2>7 DEF Connect, TypeOK, callVars
<1>12. ASSUME NEW p \in Peers, ChannelOpen(p) PROVE TypeInv'
  BY <1>12 DEF ChannelOpen, TypeOK, ConnMade, callVars, fetchVars
<1>13. ASSUME NEW ps \in SUBSET Peers, NEW hs \in SUBSET Hashes, NEW r \in {"data", "null"},
              SettleRequests(ps, hs, r), UNCHANGED <<conn, local, callVars, tried, pendingReqs>>,
              running' \in BOOLEAN, link' \in [Peers -> {"none", "connected", "open"}],
              \A p \in Peers : link'[p] \in {link[p], "none"}
       PROVE  TypeInv'
  <2>1. /\ asked' \subseteq Peers \X Hashes
        /\ fetch' \in [Gets -> Fetch]
        /\ tasks' \subseteq Task
    BY <1>13, SettleRequestsTyped
  <2> QED BY <1>13, <2>1 DEF TypeOK, ConnMade, callVars
<1>14. ASSUME NEW p \in Peers, ClosePeer(p) PROVE TypeInv'
  <2>1. link' \in [Peers -> {"none", "connected", "open"}] /\ running' \in BOOLEAN
    BY <1>14 DEF ClosePeer, TypeOK
  <2>2. \A q \in Peers : link'[q] \in {link[q], "none"}
    BY <1>14 DEF ClosePeer, TypeOK
  <2> QED BY <1>13, <1>14, <2>1, <2>2 DEF ClosePeer
<1>15. CASE Stop
  BY <1>13, <1>15 DEF Stop
<1>16. CASE Start
  BY <1>16 DEF Start, TypeOK, ConnMade, callVars, fetchVars
<1>17. ASSUME NEW p \in Peers, NEW h \in Hashes, NEW r \in {"data", "null"}, Response(p, h, r) PROVE TypeInv'
  <2>1. link' \in [Peers -> {"none", "connected", "open"}] /\ running' \in BOOLEAN
    BY <1>17 DEF Response, linkVars, TypeOK
  <2>2. UNCHANGED <<running, link, conn, local, callVars, tried, pendingReqs>>
    BY <1>17 DEF Response, linkVars
  <2>3. SettleRequests({p}, {h}, r) /\ {p} \in SUBSET Peers /\ {h} \in SUBSET Hashes
    BY <1>17 DEF Response
  <2>4. \A q \in Peers : link'[q] \in {link[q], "none"}
    BY <2>2
  <2> QED BY <1>13, <2>1, <2>2, <2>3, <2>4
<1>18. ASSUME NEW p \in Peers, NEW h \in Hashes, RequestTimeout(p, h) PROVE TypeInv'
  <2>1. asked' \subseteq Peers \X Hashes
    BY <1>18 DEF RequestTimeout, TypeOK
  <2>2. fetch' \in [Gets -> Fetch]
    <3>1. ASSUME NEW g \in Gets, NEW r \in {"null", "lost"}
          PROVE  [fetch[g] EXCEPT !.got = r] \in Fetch /\ fetch[g] \in Fetch
      <4>1. fetch[g] \in Fetch
        BY <1>0
      <4> QED BY <4>1 DEF Fetch
    <3>2. \A g \in Gets : (IF FetchAwaits(g, {p}, {h})
            THEN [fetch[g] EXCEPT !.got = IF fetch[g].own THEN "null" ELSE "lost"] ELSE fetch[g]) \in Fetch
      BY <3>1
    <3> QED BY <1>18, <3>2 DEF RequestTimeout
  <2>3. tasks' \subseteq Task
    <3>1. ASSUME NEW t \in tasks PROVE [t EXCEPT !.got = "null"] \in Task
      BY <1>0 DEF Task
    <3> QED BY <1>0, <1>18, <3>1 DEF RequestTimeout
  <2> QED BY <1>18, <2>1, <2>2, <2>3 DEF RequestTimeout, TypeOK, ConnMade, linkVars, callVars
<1>19. ASSUME NEW p \in Peers, NEW h \in Hashes, ForwardRequest(p, h) PROVE TypeInv'
  BY <1>19 DEF ForwardRequest, TypeOK, ConnMade, linkVars, callVars, fetchVars
<1>20. ASSUME NEW h \in Hashes, Put(h) \/ Delete(h) PROVE TypeInv'
  BY <1>20 DEF Put, Delete, TypeOK, ConnMade, linkVars, callVars, fetchVars
<1>21. CASE UNCHANGED vars
  BY <1>21 DEF vars, linkVars, fetchVars, callVars, TypeOK, ConnMade
<1> QED
  BY <1>1, <1>2, <1>3, <1>4, <1>5, <1>6, <1>7, <1>8, <1>9, <1>10, <1>11, <1>12,
     <1>14, <1>15, <1>16, <1>17, <1>18, <1>19, <1>20, <1>21
     DEF Next, FetchStep, TaskStep, Environment

(* The state is always of its type. *)
THEOREM TypeCorrect == Spec => []TypeOK
<1>1. Init => TypeInv
  BY PoolsAssumption DEF Init, TypeInv, TypeOK, ConnMade, NoFetch, Fetch
<1>2. TypeInv /\ [Next]_vars => TypeInv'
  BY TypeStep
<1> QED BY <1>1, <1>2, PTL DEF Spec, TypeInv

-----------------------------------------------------------------------------
(* One fetch per hash, and entries that wait. *)

PhaseBecomes(g, ph) == fetch' = [fetch EXCEPT ![g].phase = ph]
WithGot(g, x) == [fetch[g] EXCEPT !.got = x]

LEMMA PhaseSet ==
  ASSUME TypeInv, NEW g \in Gets, NEW ph, PhaseBecomes(g, ph)
  PROVE  \A k \in Gets : fetch'[k].phase = IF k = g THEN ph ELSE fetch[k].phase
<1>1. fetch \in [Gets -> Fetch] /\ fetch[g] \in Fetch
  BY DEF TypeInv, TypeOK
<1>2. [fetch[g] EXCEPT !.phase = ph].phase = ph
  BY <1>1 DEF Fetch
<1> QED BY <1>1, <1>2 DEF PhaseBecomes

LEMMA PhaseGot ==
  ASSUME TypeInv, NEW g \in Gets, NEW x
  PROVE  WithGot(g, x).phase = fetch[g].phase
<1>1. fetch[g] \in Fetch
  BY DEF TypeInv, TypeOK
<1> QED BY <1>1 DEF Fetch, WithGot

(* As long as no fetch begins and none stops to wait. *)
LEMMA FetchKept ==
  ASSUME FetchInv, UNCHANGED <<pendingGets, pendingReqs>>,
         \A g \in Gets : \/ fetch'[g].phase = fetch[g].phase
                         \/ fetch[g].phase = "asking" /\ fetch'[g].phase = "servers",
         \A a \in Arrays : pendingReqs[a] \in Gets \union {NoGet}
  PROVE  FetchInv'
<1>1. OneFetchPerHash'
  BY DEF FetchInv, OneFetchPerHash, IsFetching
<1>2. EntriesAreWaiting'
  BY DEF FetchInv, EntriesAreWaiting
<1> QED BY <1>1, <1>2 DEF FetchInv

LEMMA SettleOneFetch ==
  ASSUME TypeInv, FetchInv, NEW g \in Gets, IsFetching(g), NEW r, Settle(g, r),
         NEW ph \in {"done", "expired"}, PhaseBecomes(g, ph)
  PROVE  OneFetchPerHash'
<1> SUFFICES ASSUME NEW k \in Gets, IsFetching(k)' PROVE pendingGets'[HashOf[k]] = k
  BY DEF OneFetchPerHash
<1>0. \A j \in Gets : fetch'[j].phase = IF j = g THEN ph ELSE fetch[j].phase
  BY PhaseSet
<1>1. k # g /\ IsFetching(k)
  BY <1>0 DEF IsFetching
<1>2. pendingGets[HashOf[k]] = k /\ pendingGets[HashOf[g]] = g
  BY <1>1 DEF FetchInv, OneFetchPerHash
<1>3. HashOf[k] # HashOf[g] /\ HashOf[k] \in Hashes
  BY <1>1, <1>2
<1> QED BY <1>2, <1>3 DEF Settle, TypeInv, TypeOK

(* A fetch that did not wait is done. *)
LEMMA DoneFetchInv ==
  ASSUME TypeInv, FetchInv, NEW g \in Gets, fetch[g].phase \in {"asking", "servers"},
         NEW r, Settle(g, r), PhaseBecomes(g, "done"),
         UNCHANGED pendingReqs
  PROVE  FetchInv'
<1>1. OneFetchPerHash'
  BY SettleOneFetch DEF IsFetching
<1>2. EntriesAreWaiting'
  BY PhaseSet DEF FetchInv, EntriesAreWaiting, TypeInv, TypeOK
<1> QED BY <1>1, <1>2 DEF FetchInv

(* The PendingReq of g is resolved, and g is in no array any more. *)
LEMMA ResolveFetchInv ==
  ASSUME TypeInv, FetchInv, NEW g \in Gets \union {NoGet}, NEW ph \in {"done", "expired"},
         NEW r, Resolve(g, ph, r),
         \A a \in Arrays : pendingReqs'[a] # NoGet =>
           pendingReqs'[a] = pendingReqs[a] /\ pendingReqs'[a] # g
  PROVE  FetchInv'
<1>1. CASE g # NoGet /\ fetch[g].phase = "waiting"
  <2>1. g \in Gets /\ PhaseBecomes(g, ph) /\ Settle(g, r) /\ IsFetching(g)
    BY <1>1 DEF Resolve, IsFetching, PhaseBecomes
  <2>2. OneFetchPerHash'
    BY <2>1, SettleOneFetch
  <2>3. \A k \in Gets : k # g => fetch'[k].phase = fetch[k].phase
    BY <2>1, PhaseSet
  <2>4. EntriesAreWaiting'
    BY <2>3 DEF FetchInv, EntriesAreWaiting, TypeInv, TypeOK
  <2> QED BY <2>2, <2>4 DEF FetchInv
<1>2. CASE ~(g # NoGet /\ fetch[g].phase = "waiting")
  <2>1. UNCHANGED <<fetch, outcome, pendingGets>>
    BY <1>2 DEF Resolve, callVars
  <2> QED BY <2>1 DEF FetchInv, OneFetchPerHash, EntriesAreWaiting, IsFetching
<1> QED BY <1>1, <1>2

(* removePendingReq() and pendingReqs.delete() take out what is resolved: an  *)
(* entry of a call is only ever in the array of that call.                    *)
LEMMA RemovedEntry ==
  ASSUME TypeInv, FetchInv, NEW g \in Gets, RemoveEntry(g)
  PROVE  /\ \A a \in Arrays : pendingReqs'[a] # NoGet =>
              pendingReqs'[a] = pendingReqs[a] /\ pendingReqs'[a] # g
         /\ \A a \in Arrays : pendingReqs'[a] # NoGet =>
              pendingReqs'[a] # pendingReqs[ArrayOf[g]]
<1> SUFFICES ASSUME NEW a \in Arrays, pendingReqs'[a] # NoGet
             PROVE  /\ pendingReqs'[a] = pendingReqs[a] /\ pendingReqs'[a] # g
                    /\ pendingReqs'[a] # pendingReqs[ArrayOf[g]]
  OBVIOUS
<1>1. ArrayOf[g] \in Arrays /\ pendingReqs \in [Arrays -> Gets \union {NoGet}]
  BY DEF TypeInv, TypeOK
<1>2. a # ArrayOf[g] /\ pendingReqs'[a] = pendingReqs[a]
  BY <1>1 DEF RemoveEntry
<1>3. ArrayOf[pendingReqs[a]] = a
  BY <1>2 DEF FetchInv, EntriesAreWaiting
<1>4. pendingReqs[ArrayOf[g]] # NoGet => ArrayOf[pendingReqs[ArrayOf[g]]] = ArrayOf[g]
  BY <1>1 DEF FetchInv, EntriesAreWaiting
<1> QED BY <1>2, <1>3, <1>4

LEMMA FetchInvStep == TypeInv /\ FetchInv /\ [Next]_vars => FetchInv'
<1> SUFFICES ASSUME TypeInv, FetchInv, [Next]_vars PROVE FetchInv'
  OBVIOUS
<1>0. /\ \A a \in Arrays : pendingReqs[a] \in Gets \union {NoGet}
      /\ \A t \in tasks : t.get \in Gets
      /\ fetch \in [Gets -> Fetch]
  BY DEF TypeInv, TypeOK, Task
<1>1. CASE UNCHANGED <<fetch, pendingGets, pendingReqs>>
  BY <1>1 DEF FetchInv, OneFetchPerHash, EntriesAreWaiting, IsFetching
<1>2. ASSUME NEW g \in Gets, GetFetch(g) PROVE FetchInv'
  <2>1. \A k \in Gets : fetch'[k].phase = IF k = g THEN "asking" ELSE fetch[k].phase
    <3>1. fetch[g] \in Fetch
      BY <1>0
    <3>2. [fetch[g] EXCEPT !.phase = "asking", !.todo = ConnectedPeers].phase = "asking"
      BY <3>1 DEF Fetch
    <3> QED BY <1>0, <1>2, <3>2 DEF GetFetch
  <2>2. pendingGets[HashOf[g]] = NoGet /\ ~IsFetching(g)
    BY <1>2 DEF GetFetch, MustFetch, FetchInv, OneFetchPerHash
  <2>3. OneFetchPerHash'
    <3> SUFFICES ASSUME NEW k \in Gets, IsFetching(k)' PROVE pendingGets'[HashOf[k]] = k
      BY DEF OneFetchPerHash
    <3>1. CASE k = g
      BY <1>2, <3>1 DEF GetFetch, TypeInv, TypeOK
    <3>2. CASE k # g
      <4>1. pendingGets[HashOf[k]] = k
        BY <2>1, <3>2 DEF IsFetching, FetchInv, OneFetchPerHash
      <4> QED BY <1>2, <2>2, <4>1 DEF GetFetch, TypeInv, TypeOK
    <3> QED BY <3>1, <3>2
  <2>4. EntriesAreWaiting'
    BY <1>0, <1>2, <2>1, <2>2 DEF GetFetch, FetchInv, EntriesAreWaiting, IsFetching
  <2> QED BY <2>3, <2>4 DEF FetchInv
<1>3. ASSUME NEW g \in Gets, AskNext(g) PROVE FetchInv'
  <2>1. PICK o \in fetch[g].todo :
          IF IsOpen(o)
          THEN fetch' = [fetch EXCEPT ![g] =
                 [fetch[g] EXCEPT !.todo = @ \ {o}, !.at = o, !.own = Sends(o, HashOf[g]), !.got = "pending"]]
          ELSE fetch' = [fetch EXCEPT ![g].todo = @ \ {o}]
    BY <1>3 DEF AskNext
  <2>2. [fetch[g] EXCEPT !.todo = @ \ {o}, !.at = o, !.own = Sends(o, HashOf[g]), !.got = "pending"].phase
          = fetch[g].phase
    BY <1>0 DEF Fetch
  <2>3. [fetch[g] EXCEPT !.todo = @ \ {o}].phase = fetch[g].phase
    BY <1>0 DEF Fetch
  <2>4. \A k \in Gets : fetch'[k].phase = fetch[k].phase
    BY <1>0, <2>1, <2>2, <2>3
  <2>5. UNCHANGED <<pendingGets, pendingReqs>>
    BY <1>3 DEF AskNext, callVars
  <2> QED BY <1>0, <2>4, <2>5, FetchKept
<1>4. ASSUME NEW g \in Gets, NoPeersLeft(g) PROVE FetchInv'
  <2>1. \A k \in Gets : fetch'[k].phase = IF k = g THEN "servers" ELSE fetch[k].phase
    <3>1. PhaseBecomes(g, "servers")
      BY <1>4 DEF NoPeersLeft, PhaseBecomes
    <3> QED BY <3>1, PhaseSet
  <2>2. UNCHANGED <<pendingGets, pendingReqs>> /\ fetch[g].phase = "asking"
    BY <1>4 DEF NoPeersLeft, callVars
  <2> QED BY <1>0, <2>1, <2>2, FetchKept
<1>5. ASSUME NEW g \in Gets, fetch' = [fetch EXCEPT ![g].at = NoPeer],
             UNCHANGED <<pendingGets, pendingReqs>> PROVE FetchInv'
  <2>1. [fetch[g] EXCEPT !.at = NoPeer].phase = fetch[g].phase
    BY <1>0 DEF Fetch
  <2>2. \A k \in Gets : fetch'[k].phase = fetch[k].phase
    BY <1>0, <1>5, <2>1
  <2> QED BY <1>0, <1>5, <2>2, FetchKept
<1>6. ASSUME NEW g \in Gets, FetchResumes(g) PROVE FetchInv'
  <2>1. CASE fetch[g].got = "null"
    BY <1>5, <1>6, <2>1 DEF FetchResumes, callVars
  <2>2. CASE fetch[g].got # "null"
    BY <1>6, <2>2, DoneFetchInv DEF FetchResumes, PhaseBecomes
  <2> QED BY <2>1, <2>2
<1>7. ASSUME NEW g \in Gets, ServersFind(g) \/ GiveUp(g) PROVE FetchInv'
  BY <1>7, DoneFetchInv DEF ServersFind, GiveUp, PhaseBecomes
<1>8. ASSUME NEW g \in Gets, WaitForHash(g) PROVE FetchInv'
  <2>1. \A k \in Gets : fetch'[k].phase = IF k = g THEN "waiting" ELSE fetch[k].phase
    <3>1. PhaseBecomes(g, "waiting")
      BY <1>8 DEF WaitForHash, PhaseBecomes
    <3> QED BY <3>1, PhaseSet
  <2>2. fetch[g].phase = "servers" /\ UNCHANGED pendingGets
    BY <1>8 DEF WaitForHash, callVars
  <2>3. OneFetchPerHash'
    BY <2>1, <2>2 DEF FetchInv, OneFetchPerHash, IsFetching
  <2>4. \A a \in Arrays : pendingReqs'[a] = IF a = ArrayOf[g] THEN g ELSE pendingReqs[a]
    BY <1>8 DEF WaitForHash, TypeInv, TypeOK
  <2>5. EntriesAreWaiting'
    BY <1>0, <2>1, <2>4 DEF FetchInv, EntriesAreWaiting
  <2> QED BY <2>3, <2>5 DEF FetchInv
<1>9. ASSUME NEW g \in Gets, PendingReqTimeout(g) PROVE FetchInv'
  <2>1. CASE pendingReqs[ArrayOf[g]] = g
    BY <1>9, <2>1, RemovedEntry, ResolveFetchInv DEF PendingReqTimeout
  <2>2. CASE pendingReqs[ArrayOf[g]] # g
    <3>1. \A a \in Arrays : pendingReqs[a] # g
      BY <2>2 DEF FetchInv, EntriesAreWaiting
    <3> QED BY <1>9, <2>2, <3>1, ResolveFetchInv DEF PendingReqTimeout
  <2> QED BY <2>1, <2>2
<1>10. ASSUME NEW t \in tasks, NowResumes(t) PROVE FetchInv'
  <2>1. CASE t.got = "null"
    BY <1>1, <1>10, <2>1 DEF NowResumes, callVars
  <2>2. CASE t.got # "null"
    <3>1. t.get \in Gets /\ pendingReqs[ArrayOf[t.get]] \in Gets \union {NoGet}
      BY <1>0
    <3>2. Resolve(pendingReqs[ArrayOf[t.get]], "done", "data") /\ RemoveEntry(t.get)
      BY <1>10, <2>2 DEF NowResumes
    <3>3. \A a \in Arrays : pendingReqs'[a] # NoGet =>
            pendingReqs'[a] = pendingReqs[a] /\ pendingReqs'[a] # pendingReqs[ArrayOf[t.get]]
      BY <3>1, <3>2, RemovedEntry
    <3> QED BY <3>1, <3>2, <3>3, ResolveFetchInv
  <2> QED BY <2>1, <2>2
<1>11. ASSUME NEW t \in tasks, NewResumes(t) PROVE FetchInv'
  <2>1. CASE t.got = "null"
    BY <1>1, <1>11, <2>1 DEF NewResumes, callVars
  <2>2. CASE t.got # "null"
    <3>1. t.get \in Gets
      BY <1>0
    <3>2. Resolve(t.get, "done", "data") /\ RemoveEntry(t.get)
      BY <1>11, <2>2 DEF NewResumes
    <3> QED BY <3>1, <3>2, RemovedEntry, ResolveFetchInv
  <2> QED BY <2>1, <2>2
<1>12. ASSUME NEW ps, NEW hs, NEW r, SettleRequests(ps, hs, r), UNCHANGED <<pendingGets, pendingReqs>>
       PROVE  FetchInv'
  <2>1. \A g \in Gets : fetch'[g].phase = fetch[g].phase
    <3>1. \A g \in Gets : fetch'[g] \in {fetch[g], WithGot(g, r)}
      BY <1>12 DEF SettleRequests, WithGot
    <3> QED BY <3>1, PhaseGot
  <2> QED BY <1>0, <1>12, <2>1, FetchKept
<1>13. ASSUME NEW p \in Peers, NEW h \in Hashes, RequestTimeout(p, h) PROVE FetchInv'
  <2>1. \A g \in Gets : fetch'[g].phase = fetch[g].phase
    <3>1. \A g \in Gets :
            fetch'[g] \in {fetch[g], WithGot(g, "null"), WithGot(g, "lost")}
      BY <1>13 DEF RequestTimeout, WithGot
    <3> QED BY <3>1, PhaseGot
  <2> QED BY <1>0, <1>13, <2>1, FetchKept DEF RequestTimeout, callVars
<1>14. ASSUME NEW g \in Gets, Get(g) \/ FetchStep(g) PROVE FetchInv'
  <2>1. CASE Get(g) \/ GetJoin(g)
    BY <1>1, <2>1 DEF Get, GetJoin, fetchVars
  <2>2. CASE PeerQueryDelay(g)
    BY <1>5, <2>2 DEF PeerQueryDelay, callVars
  <2> QED BY <1>2, <1>3, <1>4, <1>6, <1>7, <1>8, <1>9, <1>14, <2>1, <2>2 DEF FetchStep
<1>15. CASE Environment
  <2>1. ASSUME NEW p \in Peers, Connect(p) \/ ChannelOpen(p) PROVE FetchInv'
    BY <1>1, <2>1 DEF Connect, ChannelOpen, callVars, fetchVars
  <2>2. ASSUME NEW p \in Peers, ClosePeer(p) PROVE FetchInv'
    BY <1>12, <2>2 DEF ClosePeer, callVars
  <2>3. CASE Stop
    BY <1>12, <2>3 DEF Stop, callVars
  <2>4. ASSUME NEW p \in Peers, NEW h \in Hashes, NEW r \in {"data", "null"}, Response(p, h, r)
        PROVE FetchInv'
    BY <1>12, <2>4 DEF Response, callVars
  <2>5. CASE \/ Start
             \/ \E h \in Hashes : Put(h) \/ Delete(h)
             \/ \E p \in Peers, h \in Hashes : ForwardRequest(p, h)
    BY <1>1, <2>5 DEF Start, Put, Delete, ForwardRequest, callVars, fetchVars
  <2> QED BY <1>13, <1>15, <2>1, <2>2, <2>3, <2>4, <2>5 DEF Environment
<1>16. CASE UNCHANGED vars
  BY <1>1, <1>16 DEF vars, callVars, fetchVars
<1> QED BY <1>10, <1>11, <1>14, <1>15, <1>16 DEF Next, TaskStep

LEMMA FetchInvariant == Spec => [](TypeInv /\ FetchInv)
<1>1. Init => TypeInv /\ FetchInv
  <2>1. Init => TypeInv
    BY PoolsAssumption DEF Init, TypeInv, TypeOK, ConnMade, NoFetch, Fetch
  <2>2. Init => FetchInv
    BY DEF Init, FetchInv, OneFetchPerHash, EntriesAreWaiting, IsFetching, NoFetch
  <2> QED BY <2>1, <2>2
<1>2. TypeInv /\ FetchInv /\ [Next]_vars => (TypeInv /\ FetchInv)'
  BY TypeStep, FetchInvStep
<1> QED BY <1>1, <1>2, PTL DEF Spec

(* However calls, answers and timers interleave, a hash is fetched by one    *)
(* fetch at a time, which later calls join.                                  *)
THEOREM HashesAreFetchedOnce == Spec => []OneFetchPerHash
BY FetchInvariant, PTL DEF FetchInv

(* Entries of pendingReqs and waiting fetches match: no answer settles the   *)
(* promise of another fetch.                                                 *)
THEOREM EntriesWait == Spec => []EntriesAreWaiting
BY FetchInvariant, PTL DEF FetchInv

-----------------------------------------------------------------------------
(* No two loops ask one peer for one fetch. *)

LEMMA LoopsGrow ==
  ASSUME LoopInv, tasks' \subseteq tasks, \A t \in tasks : tried[t.get] \subseteq tried'[t.get]
  PROVE  LoopInv'
BY DEF LoopInv, Loops

(* the loop that goes on asks a peer that no loop of its fetch has asked *)
LEMMA LoopsOneMore ==
  ASSUME LoopInv, NEW others \in SUBSET tasks, NEW new, OneMore(new, others),
         \A t \in tasks : tried[t.get] \subseteq tried'[t.get]
  PROVE  LoopInv'
BY DEF LoopInv, Loops, OneMore

LEMMA NowContinuesLoops ==
  ASSUME TypeInv, LoopInv, NEW g \in Gets, NEW todo \in SUBSET PeerObject, NEW inArray,
         NEW others \in SUBSET tasks, NowContinues(g, todo, inArray, others)
  PROVE  LoopInv'
<1>1. \A t \in tasks : tried[t.get] \subseteq tried'[t.get]
  <2>1. \A t \in tasks : t.get \in Gets
    BY DEF TypeInv, TypeOK, Task
  <2>2. PICK S \in SUBSET Peers : tried' = [tried EXCEPT ![g] = @ \union S]
    BY NowContinuesCases
  <2> QED BY <2>1, <2>2 DEF TypeInv, TypeOK
<1>2. CASE tasks' = others
  BY <1>1, <1>2, LoopsGrow
<1>3. ASSUME NEW new \in Task, OneMore(new, others) PROVE LoopInv'
  BY <1>1, <1>3, LoopsOneMore
<1> QED BY <1>2, <1>3, NowContinuesCases

LEMMA NewContinuesLoops ==
  ASSUME TypeInv, LoopInv, NEW o \in PeerObject, NEW isOpen, NEW entries \in SUBSET Gets,
         NEW others \in SUBSET tasks, NewContinues(o, isOpen, entries, others)
  PROVE  LoopInv'
<1>1. \A t \in tasks : tried[t.get] \subseteq tried'[t.get]
  <2>1. \A t \in tasks : t.get \in Gets
    BY DEF TypeInv, TypeOK, Task
  <2>2. PICK S \in SUBSET Gets :
          tried' = [g \in Gets |-> IF g \in S THEN tried[g] \union {o[1]} ELSE tried[g]]
    BY NewContinuesCases
  <2> QED BY <2>1, <2>2
<1>2. CASE tasks' = others
  BY <1>1, <1>2, LoopsGrow
<1>3. ASSUME NEW new \in Task, OneMore(new, others) PROVE LoopInv'
  BY <1>1, <1>3, LoopsOneMore
<1> QED BY <1>2, <1>3, NewContinuesCases

(* Answers do not change who awaits whom: the runs of P are answered, those   *)
(* of S go on existing.                                                       *)
Answered(S, P, r) ==
  \A u \in tasks' : \E t \in S :
    \/ t \in P /\ u = [t EXCEPT !.got = r]
    \/ t \notin P /\ u = t

LEMMA SettleRequestsLoops ==
  ASSUME TypeInv, LoopInv, NEW P, NEW r, UNCHANGED tried, NEW S \in SUBSET tasks, Answered(S, P, r)
  PROVE  LoopInv'
<1>1. ASSUME NEW t \in S
      PROVE  [t EXCEPT !.got = r].get = t.get /\ [t EXCEPT !.got = r].at = t.at
  <2>1. t \in Task
    BY DEF TypeInv, TypeOK
  <2> QED BY <2>1 DEF Task
<1>2. \A u \in tasks' : \E t \in S : u.get = t.get /\ u.at = t.at
  BY <1>1 DEF Answered
<1>3. \A u \in tasks' : u.at[1] \in tried'[u.get]
  BY <1>2 DEF LoopInv, Loops
<1>4. ASSUME NEW u \in tasks', NEW v \in tasks', u.get = v.get, u.at[1] = v.at[1]
      PROVE  u = v
  <2>1. PICK t \in S :
          \/ t \in P /\ u = [t EXCEPT !.got = r]
          \/ t \notin P /\ u = t
    BY DEF Answered
  <2>2. PICK w \in S :
          \/ w \in P /\ v = [w EXCEPT !.got = r]
          \/ w \notin P /\ v = w
    BY DEF Answered
  <2>3. t.get = w.get /\ t.at[1] = w.at[1]
    BY <1>1, <1>4, <2>1, <2>2
  <2>4. t = w
    BY <2>3 DEF LoopInv, Loops
  <2> QED BY <2>1, <2>2, <2>4
<1> QED BY <1>3, <1>4 DEF LoopInv, Loops

LEMMA LoopStep == TypeInv /\ TypeInv' /\ LoopInv /\ [Next]_vars => LoopInv'
<1> SUFFICES ASSUME TypeInv, TypeInv', LoopInv, [Next]_vars PROVE LoopInv'
  OBVIOUS
<1>0. /\ \A t \in tasks : t.get \in Gets /\ t.at \in PeerObject /\ t.todo \in SUBSET PeerObject
      /\ ConnectedPeers \in SUBSET PeerObject
      /\ tried \in [Gets -> SUBSET Peers]
  BY ConnectedTyped DEF TypeInv, TypeOK, Task
<1>1. CASE UNCHANGED <<tasks, tried>>
  BY <1>1 DEF LoopInv, Loops
<1>2. ASSUME NEW g \in Gets, AskNext(g) PROVE LoopInv'
  <2>1. PICK o \in fetch[g].todo : tried' = [tried EXCEPT ![g] = @ \union {PeerId(o)}]
    BY <1>2 DEF AskNext
  <2> QED BY <1>0, <1>2, <2>1, LoopsGrow DEF AskNext
<1>3. ASSUME NEW g \in Gets, WaitForHash(g) PROVE LoopInv'
  BY <1>0, <1>3, NowContinuesLoops DEF WaitForHash
<1>4. ASSUME NEW g \in Gets, Get(g) \/ FetchStep(g) PROVE LoopInv'
  <2>1. CASE Get(g) \/ GetJoin(g) \/ GetFetch(g) \/ NoPeersLeft(g) \/ FetchResumes(g) \/ PeerQueryDelay(g)
    BY <1>1, <2>1 DEF Get, GetJoin, GetFetch, NoPeersLeft, FetchResumes, PeerQueryDelay, fetchVars
  <2>2. CASE ServersFind(g) \/ GiveUp(g) \/ PendingReqTimeout(g)
    BY <1>1, <2>2 DEF ServersFind, GiveUp, PendingReqTimeout
  <2> QED BY <1>2, <1>3, <1>4, <2>1, <2>2 DEF FetchStep
<1>5. ASSUME NEW t \in tasks, NowResumes(t) PROVE LoopInv'
  <2>1. CASE t.got = "null"
    BY <1>0, <1>5, <2>1, NowContinuesLoops DEF NowResumes
  <2>2. CASE t.got # "null"
    BY <1>5, <2>2, LoopsGrow DEF NowResumes
  <2> QED BY <2>1, <2>2
<1>6. ASSUME NEW t \in tasks, NewResumes(t) PROVE LoopInv'
  <2>1. {pendingReqs'[a] : a \in Arrays} \ {NoGet} \in SUBSET Gets
    BY DEF TypeInv, TypeOK
  <2>2. NewContinues(t.at, IsOpen(t.at), {pendingReqs'[a] : a \in Arrays} \ {NoGet}, tasks \ {t})
    BY <1>6 DEF NewResumes
  <2> QED BY <1>0, <2>1, <2>2, NewContinuesLoops
<1>7. ASSUME NEW p \in Peers, Connect(p) PROVE LoopInv'
  <2>1. PICK state \in {"connected", "open"} :
          NewContinues(<<p, conn'[p]>>, state = "open", Entries, tasks)
    BY <1>7 DEF Connect
  <2>2. conn' \in [Peers -> 0 .. MaxConnects] /\ conn[p] \in 0 .. MaxConnects /\ conn'[p] = conn[p] + 1
    BY <1>7 DEF Connect, TypeInv, TypeOK
  <2>3. <<p, conn'[p]>> \in PeerObject /\ Entries \in SUBSET Gets
    BY <2>2 DEF PeerObject, Entries, TypeInv, TypeOK
  <2> QED BY <2>1, <2>3, NewContinuesLoops
<1>8. CASE Environment
  <2>1. ASSUME NEW p \in Peers, ChannelOpen(p) PROVE LoopInv'
    BY <1>1, <2>1 DEF ChannelOpen, fetchVars
  <2>2. ASSUME NEW ps, NEW hs, NEW r, SettleRequests(ps, hs, r), UNCHANGED tried PROVE LoopInv'
    <3> DEFINE P == {t \in tasks : TaskAwaits(t, ps, hs)}
    <3>1. Answered(tasks, P, r)
      BY <2>2 DEF SettleRequests, Answered
    <3> HIDE DEF P
    <3> QED BY <2>2, <3>1, SettleRequestsLoops
  <2>3. ASSUME NEW p \in Peers, ClosePeer(p) PROVE LoopInv'
    BY <2>2, <2>3 DEF ClosePeer
  <2>4. CASE Stop
    BY <2>2, <2>4 DEF Stop
  <2>5. ASSUME NEW p \in Peers, NEW h \in Hashes, NEW r, Response(p, h, r) PROVE LoopInv'
    BY <2>2, <2>5 DEF Response
  <2>6. ASSUME NEW p \in Peers, NEW h \in Hashes, RequestTimeout(p, h) PROVE LoopInv'
    <3> DEFINE S == {u \in tasks : TaskAwaits(u, {p}, {h}) => u.own}
               P == {t \in tasks : TaskAwaits(t, {p}, {h})}
    <3>1. Answered(S, P, "null") /\ UNCHANGED tried /\ S \in SUBSET tasks
      BY <2>6 DEF RequestTimeout, Answered
    <3> HIDE DEF S, P
    <3> QED BY <3>1, SettleRequestsLoops
  <2>7. CASE \/ Start
             \/ \E h \in Hashes : Put(h) \/ Delete(h)
             \/ \E p \in Peers, h \in Hashes : ForwardRequest(p, h)
    BY <1>1, <2>7 DEF Start, Put, Delete, ForwardRequest, fetchVars
  <2> QED BY <1>7, <1>8, <2>1, <2>3, <2>4, <2>5, <2>6, <2>7 DEF Environment
<1>9. CASE UNCHANGED vars
  BY <1>1, <1>9 DEF vars, fetchVars
<1> QED BY <1>4, <1>5, <1>6, <1>8, <1>9 DEF Next, TaskStep

(* A peer is never awaited twice for one fetch. *)
THEOREM OnePeerOneLoop == Spec => []OneLoopPerPeer
<1>1. Init => LoopInv
  BY DEF Init, LoopInv, Loops
<1>2. TypeInv /\ TypeInv' /\ LoopInv /\ [Next]_vars => LoopInv'
  BY LoopStep
<1>3. LoopInv => OneLoopPerPeer
  BY DEF LoopInv, Loops, OneLoopPerPeer
<1> QED BY <1>1, <1>2, <1>3, FetchInvariant, PTL DEF Spec

-----------------------------------------------------------------------------
(* What the callers see. *)

(* The five things a step does to the calls. *)
LEMMA CallsCases ==
  ASSUME TypeInv, FetchInv, [Next]_vars
  PROVE  \/ UNCHANGED outcome
         \/ \E g \in Gets : Get(g) \/ GetJoin(g) \/ GetFetch(g)
         \/ \E g \in Gets : Settle(g, "null")
         \/ \E g \in Gets : Settle(g, "data") /\ local' = local \union {HashOf[g]}
<1> DEFINE Goal == \/ UNCHANGED outcome
                   \/ \E g \in Gets : Get(g) \/ GetJoin(g) \/ GetFetch(g)
                   \/ \E g \in Gets : Settle(g, "null")
                   \/ \E g \in Gets : Settle(g, "data") /\ local' = local \union {HashOf[g]}
<1>1. \A t \in tasks : t.get \in Gets
  BY DEF TypeInv, TypeOK, Task
<1>2. ASSUME NEW g \in Gets, Get(g) \/ FetchStep(g) PROVE Goal
  <2>1. CASE AskNext(g) \/ NoPeersLeft(g) \/ PeerQueryDelay(g) \/ WaitForHash(g)
    BY <2>1 DEF AskNext, NoPeersLeft, PeerQueryDelay, WaitForHash, callVars
  <2>2. CASE FetchResumes(g) \/ ServersFind(g) \/ GiveUp(g)
    BY <2>2 DEF FetchResumes, ServersFind, GiveUp, Store, callVars
  <2>3. CASE PendingReqTimeout(g)
    BY <2>3 DEF PendingReqTimeout, Resolve, callVars
  <2> QED BY <1>2, <2>1, <2>2, <2>3 DEF FetchStep
<1>3. ASSUME NEW t \in tasks, TaskStep(t) PROVE Goal
  <2>1. CASE t.got = "null"
    BY <1>3, <2>1 DEF TaskStep, NowResumes, NewResumes, callVars
  <2>2. CASE NewResumes(t) /\ t.got # "null"
    BY <1>1, <2>2 DEF NewResumes, Resolve, Store, callVars
  <2>3. CASE NowResumes(t) /\ t.got # "null"
    <3> DEFINE g == pendingReqs[ArrayOf[t.get]]
    <3>1. Resolve(g, "done", "data") /\ local' = local \union {HashOf[t.get]}
      BY <2>3 DEF NowResumes, Store
    <3>2. CASE g = NoGet
      BY <3>1, <3>2 DEF Resolve, callVars
    <3>3. CASE g # NoGet
      <4>1. t.get \in Gets /\ ArrayOf[t.get] \in Arrays /\ g \in Gets
        BY <1>1, <3>3 DEF TypeInv, TypeOK
      <4>2. HashOf[g] = HashOf[t.get]
        BY <3>3, <4>1, ArraysAssumption DEF FetchInv, EntriesAreWaiting
      <4>3. Settle(g, "data") \/ UNCHANGED outcome
        BY <3>1 DEF Resolve, callVars
      <4> HIDE DEF g
      <4> QED BY <3>1, <4>1, <4>2, <4>3
    <3> QED BY <3>2, <3>3
  <2> QED BY <1>3, <2>1, <2>2, <2>3 DEF TaskStep
<1>4. CASE Environment
  BY <1>4 DEF Environment, Connect, ChannelOpen, ClosePeer, Stop, Start, Response,
              RequestTimeout, ForwardRequest, Put, Delete, callVars
<1>5. CASE UNCHANGED vars
  BY <1>5 DEF vars, callVars
<1> QED BY <1>2, <1>3, <1>4, <1>5 DEF Next

(* Data is cached before the calls it answers go on. *)
THEOREM DataIsCached == Spec => FetchedIsStored
<1> DEFINE Cached == \A g \in Gets : outcome[g] = "waiting" /\ outcome'[g] = "data"
                       => HashOf[g] \in local'
<1>1. TypeInv /\ FetchInv /\ [Next]_vars => [Cached]_vars
  <2> SUFFICES ASSUME TypeInv, FetchInv, [Next]_vars, NEW g \in Gets,
                      outcome[g] = "waiting", outcome'[g] = "data"
               PROVE  HashOf[g] \in local'
    OBVIOUS
  <2>1. outcome \in [Gets -> {"idle", "missed", "waiting", "data", "null"}]
    BY DEF TypeInv, TypeOK
  <2>2. CASE UNCHANGED outcome
    BY <2>2
  <2>3. ASSUME NEW k \in Gets, Get(k) \/ GetJoin(k) \/ GetFetch(k) PROVE FALSE
    BY <2>1, <2>3 DEF Get, GetJoin, GetFetch
  <2>4. ASSUME NEW k \in Gets, Settle(k, "null") PROVE FALSE
    BY <2>4 DEF Settle
  <2>5. ASSUME NEW k \in Gets, Settle(k, "data"), local' = local \union {HashOf[k]}
        PROVE  HashOf[g] \in local'
    BY <2>5 DEF Settle, Joined
  <2> QED BY <2>2, <2>3, <2>4, <2>5, CallsCases
<1> QED BY <1>1, FetchInvariant, PTL DEF Spec, FetchedIsStored

(* get() keeps what HashPromises promises: a call settles once, with null or *)
(* with what the fetch of its own hash delivered.                            *)
THEOREM KeepsPromises == Spec => ImplementsHashPromises
<1> DEFINE hashes == [g \in Gets |-> IF outcome[g] = "idle" THEN NoHash ELSE HashOf[g]]
           states == [g \in Gets |-> IF outcome[g] = "missed" THEN "waiting" ELSE outcome[g]]
<1>1. Init => Promises!Init
  BY DEF Init, Promises!Init
<1>2. TypeInv /\ FetchInv /\ [Next]_vars => [Promises!Next]_<<hashes, states>>
  <2> SUFFICES ASSUME TypeInv, FetchInv, [Next]_vars
               PROVE  Promises!Next \/ (hashes' = hashes /\ states' = states)
    OBVIOUS
  <2>1. outcome \in [Gets -> {"idle", "missed", "waiting", "data", "null"}]
    BY DEF TypeInv, TypeOK
  <2>2. CASE UNCHANGED outcome
    BY <2>2
  <2>3. ASSUME NEW g \in Gets, Get(g) PROVE Promises!Next
    <3>1. outcome[g] = "idle" /\ HashOf[g] \in Hashes
      BY <2>3 DEF Get
    <3>2. PICK now \in {"data", "missed"} : outcome' = [outcome EXCEPT ![g] = now]
      BY <2>3 DEF Get
    <3>3. hashes' = [hashes EXCEPT ![g] = HashOf[g]]
      BY <2>1, <3>2
    <3>4. states' = [states EXCEPT ![g] = IF now = "missed" THEN "waiting" ELSE now]
      BY <2>1, <3>2
    <3>5. Promises!Ask(g, HashOf[g])
      BY <3>1, <3>3, <3>4 DEF Promises!Ask
    <3> QED BY <3>1, <3>5 DEF Promises!Next
  <2>4. ASSUME NEW g \in Gets, GetJoin(g) \/ GetFetch(g)
        PROVE  hashes' = hashes /\ states' = states
    BY <2>1, <2>4 DEF GetJoin, GetFetch
  <2>5. ASSUME NEW g \in Gets, NEW r \in {"data", "null"}, Settle(g, r)
        PROVE  /\ Promises!SettleAll(Joined(g), r)
               /\ Joined(g) \in SUBSET Promises!Waiting
               /\ \A k \in Joined(g) : hashes[k] = HashOf[g]
    <3>1. outcome' = [k \in Gets |-> IF k \in Joined(g) THEN r ELSE outcome[k]]
      BY <2>5 DEF Settle
    <3>2. \A k \in Joined(g) : k \in Gets /\ outcome[k] = "waiting" /\ HashOf[k] = HashOf[g]
      BY DEF Joined
    <3>3. hashes' = hashes
      BY <3>1, <3>2
    <3>4. states' = [k \in Gets |-> IF k \in Joined(g) THEN r ELSE states[k]]
      BY <3>1, <3>2
    <3>5. Promises!SettleAll(Joined(g), r)
      BY <3>3, <3>4 DEF Promises!SettleAll
    <3> QED BY <3>2, <3>5 DEF Promises!Waiting
  <2>6. ASSUME NEW g \in Gets, Settle(g, "null") PROVE Promises!Next
    BY <2>5, <2>6 DEF Promises!Next, Promises!GiveUp
  <2>7. ASSUME NEW g \in Gets, Settle(g, "data") PROVE Promises!Next
    <3>1. HashOf[g] \in Hashes
      OBVIOUS
    <3> QED BY <2>5, <2>7, <3>1 DEF Promises!Next, Promises!Answer
  <2> QED BY <2>2, <2>3, <2>4, <2>6, <2>7, CallsCases
<1> QED BY <1>1, <1>2, FetchInvariant, PTL DEF Spec, ImplementsHashPromises, Promises!Spec
=============================================================================
