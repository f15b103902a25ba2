-------------------------- MODULE PeerNetworkProofs --------------------------
(* Proofs about PeerNetwork, for any network of nodes, hops to live, cache   *)
(* capacity and number of runs.                                              *)
EXTENDS PeerNetwork, SequenceTheorems, TLAPS

(* What the invariant needs of types.                                        *)
StoresInv ==
  /\ DOMAIN held = Nodes
  /\ \A r \in BagToSet(responses) : r.from \in Nodes
  /\ pushing \subseteq Nodes \X Hashes

RunsInv ==
  /\ DOMAIN run = Nodes
  /\ \A n \in Nodes : DOMAIN run[n] = Slots(n)
  /\ \A n \in Nodes : \A s \in Slots(n) : "phase" \in DOMAIN run[n][s]

(* What a run has read in the local store is there when it answers.          *)
FoundIsHeld ==
  \A n \in Nodes : \A s \in Slots(n) :
    run[n][s].phase = "reading" /\ run[n][s].found => run[n][s].h \in held[n]

(* put() pushes what it has stored.                                          *)
PushedIsHeld == \A p \in pushing : p[2] \in held[p[1]]

HeldInv == StoresInv /\ RunsInv /\ FoundIsHeld /\ PushedIsHeld /\ AnswersAreHeld

(* No step removes a block from a store.                                     *)
StoresGrow ==
  DOMAIN held' = DOMAIN held /\ \A n \in Nodes : held[n] \subseteq held'[n]

-----------------------------------------------------------------------------
(* Bags                                                                      *)
LEMMA AddedToBag ==
  ASSUME NEW B, NEW x
  PROVE  BagToSet(BagAdd(B, x)) = BagToSet(B) \union {x}
  BY DEF BagToSet, BagAdd

LEMMA RemovedFromBag ==
  ASSUME NEW B, NEW x
  PROVE  BagToSet(BagRemove(B, x)) \subseteq BagToSet(B)
  BY DEF BagToSet, BagRemove

LEMMA JoinedBags ==
  ASSUME NEW B, NEW S
  PROVE  BagToSet(B (+) SetToBag(S)) = BagToSet(B) \union S
  BY DEF BagToSet, SetToBag, (+)

LEMMA LeftInBag ==
  ASSUME NEW B, NEW links
  PROVE  BagToSet(Without(B, links)) \subseteq BagToSet(B)
  BY DEF Without, BagToSet, Restrict

(* A response sent adds nothing but itself.                                  *)
LEMMA Sent ==
  ASSUME NEW n \in Nodes, NEW asker, NEW h, sendResponse(n, asker, h)
  PROVE  \A r \in BagToSet(responses') :
           r \in BagToSet(responses) \/ (r.from = n /\ r.h = h)
  BY AddedToBag DEF sendResponse

-----------------------------------------------------------------------------
LEMMA HeldInit == Init => HeldInv
  BY HeldAssumption
  DEF Init, HeldInv, StoresInv, RunsInv, FoundIsHeld, PushedIsHeld, AnswersAreHeld, EmptyBag, SetToBag,
      BagToSet, Free

(* A run that ends, or that asks, has read nothing it still has to answer    *)
(* with.                                                                     *)
RunSet(n, s, r) == run' = [run EXCEPT ![n][s] = r]

LEMMA RunsKept ==
  ASSUME HeldInv, StoresGrow, NEW n \in Nodes, NEW s \in Slots(n), NEW r, RunSet(n, s, r),
         "phase" \in DOMAIN r, r.phase = "reading" /\ r.found => r.h \in held[n]
  PROVE  RunsInv' /\ FoundIsHeld'
<1>1. RunsInv'
  BY DEF RunSet, HeldInv, RunsInv, Slots
<1>2. ASSUME NEW m \in Nodes, NEW t \in Slots(m),
             run'[m][t].phase = "reading", run'[m][t].found
      PROVE  run'[m][t].h \in held'[m]
  <2>1. CASE m = n /\ t = s
    <3>1. run'[m][t] = r
      BY <2>1 DEF RunSet, HeldInv, RunsInv
    <3> QED BY <1>2, <2>1, <3>1 DEF StoresGrow
  <2>2. CASE ~(m = n /\ t = s)
    <3>1. run'[m][t] = run[m][t]
      BY <2>2 DEF RunSet, HeldInv, RunsInv
    <3> QED BY <1>2, <3>1 DEF HeldInv, FoundIsHeld, StoresGrow
  <2> QED BY <2>1, <2>2
<1>3. FoundIsHeld'
  BY <1>2 DEF FoundIsHeld, Slots
<1> QED BY <1>1, <1>3

LEMMA RunEnds ==
  ASSUME HeldInv, StoresGrow, NEW n \in Nodes, NEW s \in Slots(n), RunSet(n, s, Free)
  PROVE  RunsInv' /\ FoundIsHeld'
<1>1. "phase" \in DOMAIN Free /\ Free.phase # "reading"
  BY DEF Free
<1> QED BY <1>1, RunsKept

(* A loop that goes on is asking, or has ended.                              *)
LEMMA AskNextKeeps ==
  ASSUME HeldInv, StoresGrow, NEW n \in Nodes, NEW s \in Slots(n), NEW r,
         "phase" \in DOMAIN r, r.phase = "asking", AskNext(n, s, r)
  PROVE  RunsInv' /\ FoundIsHeld'
<1>1. CASE RunSet(n, s, Free)
  BY <1>1, RunEnds
<1>2. CASE ~RunSet(n, s, Free)
  <2>1. PICK m :
          run' = [run EXCEPT ![n][s] =
                   [r EXCEPT !.at = m, !.todo = {k \in r.todo : <<n, k>> \in open} \ {m},
                             !.own = <<n, m, r.h>> \notin ourRequests]]
    BY <1>2 DEF AskNext, RunSet
  <2> DEFINE next == [r EXCEPT !.at = m, !.todo = {k \in r.todo : <<n, k>> \in open} \ {m},
                               !.own = <<n, m, r.h>> \notin ourRequests]
  <2>2. "phase" \in DOMAIN next /\ next.phase # "reading"
    OBVIOUS
  <2>3. RunSet(n, s, next)
    BY <2>1 DEF RunSet
  <2> HIDE DEF next
  <2> QED BY <2>2, <2>3, RunsKept
<1> QED BY <1>1, <1>2

(* What stays as it was.                                                     *)
LEMMA RunsUnchanged ==
  ASSUME HeldInv, StoresGrow, UNCHANGED run
  PROVE  RunsInv' /\ FoundIsHeld'
  BY DEF HeldInv, RunsInv, FoundIsHeld, StoresGrow, Slots

LEMMA FewerResponses ==
  ASSUME HeldInv, StoresGrow, BagToSet(responses') \subseteq BagToSet(responses)
  PROVE  (\A r \in BagToSet(responses') : r.from \in Nodes) /\ AnswersAreHeld'
  BY DEF HeldInv, StoresInv, AnswersAreHeld, StoresGrow

LEMMA FewerPushed ==
  ASSUME HeldInv, StoresGrow, pushing' \subseteq pushing
  PROVE  pushing' \subseteq Nodes \X Hashes /\ PushedIsHeld'
  BY DEF HeldInv, StoresInv, PushedIsHeld, StoresGrow

(* What is sent is held.                                                     *)
LEMMA SentIsHeld ==
  ASSUME HeldInv, StoresGrow, NEW n \in Nodes, NEW asker, NEW h, h \in held'[n],
         sendResponse(n, asker, h)
  PROVE  (\A r \in BagToSet(responses') : r.from \in Nodes) /\ AnswersAreHeld'
  BY Sent DEF HeldInv, StoresInv, AnswersAreHeld, StoresGrow

(* A store that gains a block.                                               *)
LEMMA KeepGrows ==
  ASSUME HeldInv, NEW n \in Nodes, NEW h, held' = Keep(n, h)
  PROVE  StoresGrow /\ h \in held'[n]
  BY DEF HeldInv, StoresInv, Keep, StoresGrow

LEMMA SameStores ==
  ASSUME UNCHANGED held
  PROVE  StoresGrow
  BY DEF StoresGrow

-----------------------------------------------------------------------------
(* One lemma per action that sends, stores or starts something.              *)
LEMMA GetKeeps ==
  ASSUME HeldInv, NEW n \in Nodes, NEW s \in Slots(n), NEW h \in Hashes, Get(n, s, h)
  PROVE  HeldInv'
<1>1. StoresGrow
  BY SameStores DEF Get, stores
<1>2. AskNext(n, s, Asking(n, n, h, MAX_HTL, OtherPeers(n, n)))
  BY DEF Get
<1>3. FoundIsHeld' /\ RunsInv'
  BY <1>1, <1>2, AskNextKeeps DEF Asking
<1> QED
  BY <1>1, <1>3, FewerResponses, FewerPushed
  DEF Get, stores, HeldInv, StoresInv, StoresGrow

LEMMA HandleRequestKeeps ==
  ASSUME HeldInv, NEW q \in BagToSet(requests), NEW s \in Slots(q.to),
         HandleRequest(q, s)
  PROVE  HeldInv'
<1>1. StoresGrow
  BY SameStores DEF HandleRequest, stores
<1> DEFINE r == [phase |-> "reading", from |-> q.from, h |-> q.h, htl |-> q.htl,
                 found |-> q.h \in held[q.to], todo |-> {}, at |-> q.to,
                 own |-> FALSE, got |-> FALSE]
<1>2. RunSet(q.to, s, r)
  BY DEF HandleRequest, RunSet
<1>3. "phase" \in DOMAIN r /\ (r.found => r.h \in held[q.to])
  OBVIOUS
<1> HIDE DEF r
<1>4. FoundIsHeld' /\ RunsInv'
  <2>1. CASE q.to \in Nodes
    BY <1>1, <1>2, <1>3, <2>1, RunsKept
  <2>2. CASE q.to \notin Nodes
    <3>1. DOMAIN run' = DOMAIN run /\ \A n \in Nodes : run'[n] = run[n]
      BY <1>2, <2>2 DEF RunSet, HeldInv, RunsInv
    <3> QED BY <1>1, <3>1 DEF HeldInv, RunsInv, FoundIsHeld, StoresGrow, Slots
  <2> QED BY <2>1, <2>2
<1> QED
  BY <1>1, <1>4, FewerResponses, FewerPushed
  DEF HandleRequest, stores, HeldInv, StoresInv, StoresGrow

LEMMA AnswerLocallyKeeps ==
  ASSUME HeldInv, NEW n \in Nodes, NEW s \in Slots(n), AnswerLocally(n, s)
  PROVE  HeldInv'
<1>1. StoresGrow
  BY SameStores DEF AnswerLocally, stores
<1>2. RunsInv' /\ FoundIsHeld'
  BY <1>1, RunEnds DEF AnswerLocally, RunSet
<1>3. run[n][s].h \in held'[n]
  BY <1>1 DEF AnswerLocally, HeldInv, FoundIsHeld, StoresGrow
<1>4. sendResponse(n, run[n][s].from, run[n][s].h)
  BY DEF AnswerLocally
<1> QED
  BY <1>1, <1>2, <1>3, <1>4, SentIsHeld, FewerPushed
  DEF AnswerLocally, HeldInv, StoresInv, StoresGrow

LEMMA StaySilentKeeps ==
  ASSUME HeldInv, NEW n \in Nodes, NEW s \in Slots(n), StaySilent(n, s)
  PROVE  HeldInv'
<1>1. StoresGrow
  BY SameStores DEF StaySilent, stores
<1>2. RunsInv' /\ FoundIsHeld'
  BY <1>1, RunEnds DEF StaySilent, RunSet
<1> QED
  BY <1>1, <1>2, FewerResponses, FewerPushed
  DEF StaySilent, wires, HeldInv, StoresInv, StoresGrow

LEMMA StartForwardKeeps ==
  ASSUME HeldInv, NEW n \in Nodes, NEW s \in Slots(n), StartForward(n, s)
  PROVE  HeldInv'
<1>1. StoresGrow
  BY SameStores DEF StartForward
<1>2. PICK r, todo : AskNext(n, s, Asking(n, r.from, r.h, r.htl, todo))
  BY DEF StartForward
<1>3. RunsInv' /\ FoundIsHeld'
  BY <1>1, <1>2, AskNextKeeps DEF Asking
<1> QED
  BY <1>1, <1>3, FewerResponses, FewerPushed
  DEF StartForward, HeldInv, StoresInv, StoresGrow

LEMMA GoOnKeeps ==
  ASSUME HeldInv, NEW n \in Nodes, NEW s \in Slots(n), GoOn(n, s)
  PROVE  HeldInv'
<1>1. StoresGrow
  BY SameStores DEF GoOn, stores
<1>2. "phase" \in DOMAIN run[n][s] /\ run[n][s].phase = "asking"
  BY DEF GoOn, DelayFires, HeldInv, RunsInv
<1>3. RunsInv' /\ FoundIsHeld'
  BY <1>1, <1>2, AskNextKeeps DEF GoOn
<1> QED
  BY <1>1, <1>3, FewerResponses, FewerPushed
  DEF GoOn, stores, HeldInv, StoresInv, StoresGrow

LEMMA FoundKeeps ==
  ASSUME HeldInv, NEW n \in Nodes, NEW s \in Slots(n), Found(n, s)
  PROVE  HeldInv'
<1>1. StoresGrow /\ run[n][s].h \in held'[n]
  BY KeepGrows DEF Found
<1>2. RunsInv' /\ FoundIsHeld'
  BY <1>1, RunEnds DEF Found, RunSet
<1>3. responses' = responses \/ sendResponse(n, run[n][s].from, run[n][s].h)
  BY DEF Found
<1>4. (\A r \in BagToSet(responses') : r.from \in Nodes) /\ AnswersAreHeld'
  BY <1>1, <1>3, SentIsHeld, FewerResponses
<1> QED
  BY <1>1, <1>2, <1>4, FewerPushed DEF Found, HeldInv, StoresInv, StoresGrow

LEMMA HandleResponseKeeps ==
  ASSUME HeldInv, NEW r \in BagToSet(responses), HandleResponse(r)
  PROVE  HeldInv'
<1>1. StoresGrow
  BY SameStores DEF HandleResponse, stores
<1>2. BagToSet(responses') \subseteq BagToSet(responses)
  BY RemovedFromBag DEF HandleResponse
<1>3. RunsInv' /\ FoundIsHeld'
  <2>1. CASE UNCHANGED run
    BY <1>1, <2>1, RunsUnchanged
  <2>2. CASE run' = [run EXCEPT ![r.to] = [s \in Slots(r.to) |->
               IF Awaits(r.to, s, r.from, r.h) THEN [run[r.to][s] EXCEPT !.got = TRUE]
                                               ELSE run[r.to][s]]]
    <3>1. DOMAIN run' = Nodes /\ \A n \in Nodes : DOMAIN run'[n] = Slots(n)
      BY <2>2 DEF HeldInv, RunsInv, Slots
    <3>2. ASSUME NEW n \in Nodes, NEW s \in Slots(n)
          PROVE  \/ run'[n][s] = run[n][s]
                 \/ DOMAIN run'[n][s] = DOMAIN run[n][s] /\ run'[n][s].phase = "asking"
      <4>1. CASE n = r.to /\ Awaits(n, s, r.from, r.h)
        <5>1. run'[n][s] = [run[n][s] EXCEPT !.got = TRUE]
          BY <2>2, <4>1 DEF HeldInv, RunsInv
        <5>2. "phase" \in DOMAIN run[n][s] /\ run[n][s].phase = "asking"
          BY <4>1 DEF Awaits, HeldInv, RunsInv
        <5> QED BY <5>1, <5>2
      <4>2. CASE ~(n = r.to /\ Awaits(n, s, r.from, r.h))
        BY <2>2, <4>2 DEF HeldInv, RunsInv
      <4> QED BY <4>1, <4>2
    <3>3. RunsInv'
      BY <3>1, <3>2 DEF HeldInv, RunsInv, Slots
    <3>4. FoundIsHeld'
      BY <1>1, <3>2 DEF HeldInv, FoundIsHeld, StoresGrow, Slots
    <3> QED BY <3>3, <3>4
  <2> QED BY <2>1, <2>2 DEF HandleResponse
<1> QED
  BY <1>1, <1>2, <1>3, FewerResponses, FewerPushed
  DEF HandleResponse, HeldInv, StoresInv, StoresGrow

LEMMA PutKeeps ==
  ASSUME HeldInv, NEW n \in Nodes, NEW h \in Hashes, Put(n, h)
  PROVE  HeldInv'
<1>1. StoresGrow /\ h \in held'[n]
  BY KeepGrows DEF Put
<1>2. RunsInv' /\ FoundIsHeld'
  BY <1>1, RunsUnchanged DEF Put
<1>3. pushing' \subseteq Nodes \X Hashes /\ PushedIsHeld'
  BY <1>1 DEF Put, HeldInv, StoresInv, PushedIsHeld, StoresGrow
<1> QED
  BY <1>1, <1>2, <1>3, FewerResponses DEF Put, wires, HeldInv, StoresInv, StoresGrow

LEMMA sendToInterestedPeersKeeps ==
  ASSUME HeldInv, NEW n \in Nodes, NEW h \in Hashes, sendToInterestedPeers(n, h)
  PROVE  HeldInv'
<1>1. StoresGrow
  BY SameStores DEF sendToInterestedPeers
<1>2. RunsInv' /\ FoundIsHeld'
  BY <1>1, RunsUnchanged DEF sendToInterestedPeers
<1>3. h \in held[n]
  BY DEF sendToInterestedPeers, HeldInv, PushedIsHeld
<1> DEFINE interested == {m \in Nodes : <<n, m>> \in open /\ h \in Tracked(n, m)}
<1>4. responses' = responses (+) SetToBag([from : {n}, to : interested, h : {h}])
  BY DEF sendToInterestedPeers
<1> HIDE DEF interested
<1>5. \A r \in BagToSet(responses') : r \in BagToSet(responses) \/ (r.from = n /\ r.h = h)
  <2>1. BagToSet(responses') =
          BagToSet(responses) \union [from : {n}, to : interested, h : {h}]
    BY <1>4, JoinedBags
  <2> QED BY <2>1
<1>6. (\A r \in BagToSet(responses') : r.from \in Nodes) /\ AnswersAreHeld'
  BY <1>1, <1>3, <1>5 DEF HeldInv, StoresInv, AnswersAreHeld, StoresGrow
<1> QED
  BY <1>1, <1>2, <1>6, FewerPushed
  DEF sendToInterestedPeers, HeldInv, StoresInv, StoresGrow

LEMMA ClosePeerKeeps ==
  ASSUME HeldInv, NEW n \in Nodes, NEW m \in Nodes, ClosePeer(n, m)
  PROVE  HeldInv'
<1>1. StoresGrow
  BY SameStores DEF ClosePeer, stores
<1>2. RunsInv' /\ FoundIsHeld'
  BY <1>1, RunsUnchanged DEF ClosePeer
<1>3. BagToSet(responses') \subseteq BagToSet(responses)
  BY LeftInBag DEF ClosePeer
<1> QED
  BY <1>1, <1>2, <1>3, FewerResponses, FewerPushed
  DEF ClosePeer, HeldInv, StoresInv, StoresGrow

(* Nothing of the invariant is touched.                                      *)
LEMMA RestKeeps ==
  ASSUME HeldInv, UNCHANGED <<held, run, responses, pushing>>
  PROVE  HeldInv'
  BY DEF HeldInv, StoresInv, RunsInv, FoundIsHeld, PushedIsHeld, AnswersAreHeld, Slots

LEMMA HeldNext == HeldInv /\ [Next]_vars => HeldInv'
<1> SUFFICES ASSUME HeldInv, [Next]_vars
             PROVE  HeldInv'
  OBVIOUS
<1>1. ASSUME NEW n \in Nodes, NEW s \in Slots(n), Step(n, s)
      PROVE  HeldInv'
  BY <1>1, AnswerLocallyKeeps, StaySilentKeeps, StartForwardKeeps, GoOnKeeps, FoundKeeps DEF Step
<1>2. ASSUME NEW q \in BagToSet(requests), NEW s \in Slots(q.to), HandleRequest(q, s)
      PROVE  HeldInv'
  BY <1>2, HandleRequestKeeps
<1>3. ASSUME NEW r \in BagToSet(responses), HandleResponse(r)
      PROVE  HeldInv'
  BY <1>3, HandleResponseKeeps
<1>4. ASSUME NEW n \in Nodes, NEW h \in Hashes, NEW s \in Slots(n), Get(n, s, h)
      PROVE  HeldInv'
  BY <1>4, GetKeeps
<1>5. ASSUME NEW n \in Nodes, NEW m \in Nodes, NEW h \in Hashes, RequestTimeout(n, m, h)
      PROVE  HeldInv'
  BY <1>5, RestKeeps DEF RequestTimeout, wires, stores
<1>6. ASSUME NEW n \in Nodes, NEW h \in Hashes, Put(n, h) \/ sendToInterestedPeers(n, h)
      PROVE  HeldInv'
  BY <1>6, PutKeeps, sendToInterestedPeersKeeps
<1>7. ASSUME NEW n \in Nodes, NEW m \in Nodes, ClosePeer(n, m)
      PROVE  HeldInv'
  BY <1>7, ClosePeerKeeps
<1>8. CASE UNCHANGED vars
  BY <1>8, RestKeeps DEF vars, wires, stores
<1> QED
  BY <1>1, <1>2, <1>3, <1>4, <1>5, <1>6, <1>7, <1>8 DEF Next, Deliver

(* However many nodes a response has come through, each node that sends one  *)
(* has the data in its store: an answer is never invented on the way, and a  *)
(* block fetched for another peer is kept (forwardRequest, handleRequest,    *)
(* put).                                                                     *)
THEOREM AnswersComeFromStores == Spec => []AnswersAreHeld
<1>1. HeldInv => AnswersAreHeld
  BY DEF HeldInv
<1> QED BY <1>1, HeldInit, HeldNext, PTL DEF Spec

-----------------------------------------------------------------------------
(* The cache of tracked requests: a key is there once, so deleting it closes *)
(* one gap.                                                                  *)
LEMMA DeletedAt ==
  ASSUME NEW S, NEW keys \in Seq(S), IsInjective(keys), NEW i \in DOMAIN keys
  PROVE  /\ LRUDelete(keys, keys[i]) \in Seq(S)
         /\ Len(LRUDelete(keys, keys[i])) = Len(keys) - 1
         /\ \A j \in 1 .. Len(keys) - 1 :
              LRUDelete(keys, keys[i])[j] = IF j < i THEN keys[j] ELSE keys[j + 1]
<1>0. DOMAIN keys = 1 .. Len(keys) /\ Len(keys) \in Nat /\ i \in 1 .. Len(keys)
  OBVIOUS
<1>1. {j \in 1 .. Len(keys) : keys[j] = keys[i]} = {i}
  BY <1>0 DEF IsInjective
<1>2. Min({i}) = i
  BY DEF Min
<1>3. LRUDelete(keys, keys[i]) = SubSeq(keys, 1, i - 1) \o SubSeq(keys, i + 1, Len(keys))
  BY <1>1, <1>2 DEF LRUDelete, RemoveFirst, RemoveAt, SelectInSeq
<1> DEFINE front == SubSeq(keys, 1, i - 1)
           back == SubSeq(keys, i + 1, Len(keys))
<1>5. /\ front \in Seq(S) /\ Len(front) = i - 1
      /\ \A j \in 1 .. i - 1 : front[j] = keys[j]
  BY SubSeqProperties
<1>6. /\ back \in Seq(S) /\ Len(back) = Len(keys) - i
      /\ \A j \in 1 .. Len(keys) - i : back[j] = keys[i + j]
  BY SubSeqProperties
<1> HIDE DEF front, back
<1> DEFINE left == front \o back
<1>7. /\ left \in Seq(S) /\ Len(left) = Len(front) + Len(back)
      /\ \A j \in 1 .. Len(front) + Len(back) :
           left[j] = IF j <= Len(front) THEN front[j] ELSE back[j - Len(front)]
  BY <1>5, <1>6, ConcatProperties
<1>8. LRUDelete(keys, keys[i]) = left
  BY <1>3 DEF front, back
<1> HIDE DEF left
<1>9. ASSUME NEW j \in 1 .. Len(keys) - 1
      PROVE  left[j] = IF j < i THEN keys[j] ELSE keys[j + 1]
  <2>1. CASE j < i
    <3>1. j \in 1 .. i - 1 /\ j <= Len(front) /\ j \in 1 .. Len(front) + Len(back)
      BY <1>0, <1>5, <1>6, <2>1
    <3> QED BY <1>5, <1>7, <2>1, <3>1
  <2>2. CASE j >= i
    <3>1. /\ j - (i - 1) \in 1 .. Len(keys) - i /\ i + (j - (i - 1)) = j + 1
          /\ ~(j <= Len(front)) /\ j \in 1 .. Len(front) + Len(back)
      BY <1>0, <1>5, <1>6, <2>2
    <3>2. back[j - (i - 1)] = keys[j + 1]
      BY <1>6, <3>1
    <3>3. left[j] = back[j - (i - 1)]
      BY <1>5, <1>7, <3>1
    <3>4. ~(j < i)
      BY <1>0, <2>2
    <3> QED BY <3>2, <3>3, <3>4
  <2>3. j < i \/ j >= i
    BY <1>0
  <2> QED BY <2>1, <2>2, <2>3
<1>10. Len(left) = Len(keys) - 1
  BY <1>0, <1>5, <1>6, <1>7
<1> QED BY <1>7, <1>8, <1>9, <1>10

(* Deleting a key drops it and no other.                                      *)
LEMMA DeletedKey ==
  ASSUME NEW S, NEW keys \in Seq(S), IsInjective(keys), NEW h
  PROVE  /\ LRUDelete(keys, h) \in Seq(S)
         /\ IsInjective(LRUDelete(keys, h))
         /\ ToSet(LRUDelete(keys, h)) = ToSet(keys) \ {h}
         /\ Len(LRUDelete(keys, h)) = IF h \in ToSet(keys) THEN Len(keys) - 1 ELSE Len(keys)
<1>1. CASE h \notin ToSet(keys)
  <2>1. LRUDelete(keys, h) = keys
    BY <1>1 DEF LRUDelete, RemoveFirst, ToSet
  <2> QED BY <1>1, <2>1
<1>2. CASE h \in ToSet(keys)
  <2>1. PICK i \in DOMAIN keys : keys[i] = h
    BY <1>2 DEF ToSet
  <2> DEFINE left == LRUDelete(keys, h)
  <2>2. /\ left \in Seq(S)
        /\ Len(left) = Len(keys) - 1
        /\ \A j \in 1 .. Len(keys) - 1 : left[j] = IF j < i THEN keys[j] ELSE keys[j + 1]
    BY <2>1, DeletedAt
  <2> HIDE DEF left
  <2>3. DOMAIN left = 1 .. Len(keys) - 1 /\ DOMAIN keys = 1 .. Len(keys) /\ Len(keys) \in Nat
    BY <2>2
  <2>4. IsInjective(left)
    <3> DEFINE from(j) == IF j < i THEN j ELSE j + 1
    <3>1. \A j \in DOMAIN left : from(j) \in DOMAIN keys /\ left[j] = keys[from(j)]
      BY <2>2, <2>3
    <3>2. \A j, k \in DOMAIN left : from(j) = from(k) => j = k
      BY <2>3
    <3> HIDE DEF from
    <3> QED BY <3>1, <3>2 DEF IsInjective
  <2>5. ASSUME NEW j \in DOMAIN left
        PROVE  left[j] \in ToSet(keys) \ {h}
    <3>1. j \in DOMAIN keys /\ j + 1 \in DOMAIN keys
      BY <2>3
    <3>2. PICK k \in DOMAIN keys : left[j] = keys[k] /\ k # i
      BY <2>2, <2>3, <3>1
    <3>3. keys[k] # keys[i]
      BY <3>2 DEF IsInjective
    <3> QED BY <2>1, <3>2, <3>3 DEF ToSet
  <2>6. ASSUME NEW k \in DOMAIN keys, k # i
        PROVE  keys[k] \in ToSet(left)
    <3>1. CASE k < i
      <4>1. k \in DOMAIN left /\ left[k] = keys[k]
        BY <2>2, <2>3, <3>1
      <4> QED BY <4>1 DEF ToSet
    <3>2. CASE k > i
      <4>1. k - 1 \in DOMAIN left /\ left[k - 1] = keys[k]
        BY <2>2, <2>3, <3>2
      <4> QED BY <4>1 DEF ToSet
    <3> QED BY <2>3, <2>6, <3>1, <3>2
  <2>7. ToSet(left) = ToSet(keys) \ {h}
    BY <2>1, <2>5, <2>6 DEF ToSet
  <2> QED BY <1>2, <2>2, <2>4, <2>7 DEF left
<1> QED BY <1>1, <1>2

(* Setting a key keeps the cache within its size, and drops another only     *)
(* when it was full.                                                         *)
LEMMA SetKey ==
  ASSUME NEW S, NEW keys \in Seq(S), IsInjective(keys), Len(keys) <= Capacity, NEW h \in S
  PROVE  /\ LRUSet(keys, h) \in Seq(S)
         /\ IsInjective(LRUSet(keys, h))
         /\ Len(LRUSet(keys, h)) <= Capacity
         /\ Len(keys) < Capacity => ToSet(LRUSet(keys, h)) = ToSet(keys) \union {h}
<1> DEFINE others == LRUDelete(keys, h)
           kept == IF Len(others) >= Capacity THEN Tail(others) ELSE others
<1>1. /\ others \in Seq(S) /\ IsInjective(others)
      /\ ToSet(others) = ToSet(keys) \ {h} /\ Len(others) <= Len(keys)
  BY DeletedKey
<1>2. LRUSet(keys, h) = Append(kept, h)
  BY DEF LRUSet
<1>3. Capacity \in Nat \ {0}
  BY BoundsAssumption
<1> HIDE DEF others
<1>4. /\ kept \in Seq(S) /\ IsInjective(kept) /\ Len(kept) < Capacity
      /\ ToSet(kept) \subseteq ToSet(others)
      /\ Len(keys) < Capacity => kept = others
  <2>1. CASE Len(others) < Capacity
    BY <1>1, <1>3, <2>1
  <2>2. CASE Len(others) >= Capacity
    <3>1. others # <<>>
      BY <1>1, <1>3, <2>2
    <3>2. /\ Tail(others) \in Seq(S) /\ Len(Tail(others)) = Len(others) - 1
          /\ \A j \in 1 .. Len(Tail(others)) : Tail(others)[j] = others[j + 1]
      BY <1>1, <3>1, HeadTailProperties
    <3>3. kept = Tail(others)
      BY <2>2
    <3>4. DOMAIN others = 1 .. Len(others) /\ DOMAIN Tail(others) = 1 .. Len(others) - 1
      BY <1>1, <3>2
    <3>5. IsInjective(Tail(others))
      BY <1>1, <3>2, <3>4 DEF IsInjective
    <3>6. ToSet(Tail(others)) \subseteq ToSet(others)
      BY <3>2, <3>4 DEF ToSet
    <3>7. Len(others) \in Nat /\ Len(keys) \in Nat
      BY <1>1
    <3>8. Len(others) = Capacity /\ Len(keys) = Capacity
      BY <1>1, <1>3, <2>2, <3>7
    <3> HIDE DEF kept
    <3> QED BY <1>3, <3>2, <3>3, <3>5, <3>6, <3>8
  <2> QED BY <1>1, <1>3, <2>1, <2>2
<1> HIDE DEF kept
<1>5. /\ Append(kept, h) \in Seq(S) /\ Len(Append(kept, h)) = Len(kept) + 1
      /\ \A i \in 1 .. Len(kept) : Append(kept, h)[i] = kept[i]
      /\ Append(kept, h)[Len(kept) + 1] = h
  BY <1>4, AppendProperties
<1>6. DOMAIN kept = 1 .. Len(kept) /\ DOMAIN Append(kept, h) = 1 .. Len(kept) + 1
  BY <1>4, <1>5
<1>7. ToSet(Append(kept, h)) = ToSet(kept) \union {h}
  BY <1>5, <1>6 DEF ToSet
<1>8. h \notin ToSet(kept)
  BY <1>1, <1>4
<1>9. IsInjective(Append(kept, h))
  BY <1>4, <1>5, <1>6, <1>8 DEF IsInjective, ToSet
<1> QED BY <1>1, <1>2, <1>3, <1>4, <1>5, <1>7, <1>9

-----------------------------------------------------------------------------
(* A bag stays one, and what is added is there once more.                     *)
LEMMA BagAdded ==
  ASSUME NEW B, IsABag(B), NEW x
  PROVE  /\ IsABag(BagAdd(B, x))
         /\ BagToSet(BagAdd(B, x)) = BagToSet(B) \union {x}
         /\ Copies(x, BagAdd(B, x)) > Copies(x, B)
  BY DEF IsABag, BagAdd, BagToSet, Copies, BagIn

LEMMA BagRemoved ==
  ASSUME NEW B, IsABag(B), NEW x
  PROVE  /\ IsABag(BagRemove(B, x))
         /\ BagToSet(BagRemove(B, x)) \subseteq BagToSet(B)
  BY DEF IsABag, BagRemove, BagToSet

LEMMA BagsJoined ==
  ASSUME NEW B, IsABag(B), NEW S
  PROVE  /\ IsABag(B (+) SetToBag(S))
         /\ BagToSet(B (+) SetToBag(S)) = BagToSet(B) \union S
         /\ \A x \in S : Copies(x, B (+) SetToBag(S)) > Copies(x, B)
  BY DEF IsABag, BagToSet, SetToBag, (+), Copies, BagIn

LEMMA BagLeft ==
  ASSUME NEW B, IsABag(B), NEW links
  PROVE  /\ IsABag(Without(B, links))
         /\ BagToSet(Without(B, links)) \subseteq BagToSet(B)
  BY DEF IsABag, Without, BagToSet, Restrict

(* The hops left stay in their range, whatever a link counts.                 *)
LEMMA HopsLeft ==
  ASSUME NEW htl \in HTL, NEW link
  PROVE  decrementHTL(htl, link) \in HTL
  BY HTLAssumption DEF decrementHTL, HTL

-----------------------------------------------------------------------------
(* The parts of TypeOK that actions change together.                          *)
RunsType ==
  DOMAIN run = Nodes /\ \A n \in Nodes : run[n] \in [Slots(n) -> Run \union {Free}]
RequestsType == IsABag(requests) /\ BagToSet(requests) \subseteq Request
ResponsesType == IsABag(responses) /\ BagToSet(responses) \subseteq Response
TheirsType ==
  /\ theirRequests \in [Pairs -> Seq(Hashes)]
  /\ \A l \in Pairs : Len(theirRequests[l]) <= Capacity /\ IsInjective(theirRequests[l])
SetsType ==
  /\ open \subseteq Links
  /\ held \in [Nodes -> SUBSET Hashes]
  /\ ourRequests \subseteq Nodes \X Nodes \X Hashes
  /\ pushing \subseteq Nodes \X Hashes
  /\ gets \subseteq Gets /\ puts \subseteq Puts

LEMMA TypeParts ==
  TypeOK <=> RunsType /\ RequestsType /\ ResponsesType /\ TheirsType /\ SetsType
  BY DEF TypeOK, RunsType, RequestsType, ResponsesType, TheirsType, SetsType

LEMMA PartsNext ==
  RunsType' /\ RequestsType' /\ ResponsesType' /\ TheirsType' /\ SetsType' => TypeOK'
  BY DEF TypeOK, RunsType, RequestsType, ResponsesType, TheirsType, SetsType

(* One run changes.                                                           *)
LEMMA RunSetType ==
  ASSUME RunsType, NEW n \in Nodes, NEW s \in Slots(n), NEW r \in Run \union {Free},
         run' = [run EXCEPT ![n][s] = r]
  PROVE  RunsType'
<1>1. run[n] \in [Slots(n) -> Run \union {Free}]
  BY DEF RunsType
<1>2. [run[n] EXCEPT ![s] = r] \in [Slots(n) -> Run \union {Free}]
  BY <1>1
<1>3. run' = [run EXCEPT ![n] = [run[n] EXCEPT ![s] = r]]
  OBVIOUS
<1>4. /\ DOMAIN run' = Nodes
      /\ \A m \in Nodes : run'[m] = IF m = n THEN [run[n] EXCEPT ![s] = r] ELSE run[m]
  BY <1>3 DEF RunsType
<1>5. \A m \in Nodes : run'[m] \in [Slots(m) -> Run \union {Free}]
  BY <1>2, <1>4 DEF RunsType
<1> QED BY <1>4, <1>5 DEF RunsType, Slots

(* A loop that goes on has a run and sends a request of the right types.     *)
LEMMA AskNextType ==
  ASSUME TypeOK, NEW n \in Nodes, NEW s \in Slots(n), NEW r \in Run, AskNext(n, s, r)
  PROVE  RunsType' /\ RequestsType' /\ ourRequests' \subseteq Nodes \X Nodes \X Hashes
<1> DEFINE live == {m \in r.todo : <<n, m>> \in open}
<1>1. RunsType /\ RequestsType /\ SetsType
  BY TypeParts
<1>2. /\ r.todo \subseteq Nodes /\ r.h \in Hashes /\ r.htl \in HTL /\ r.from \in Nodes
      /\ live \subseteq r.todo
  BY DEF Run
<1>3. CASE run' = [run EXCEPT ![n][s] = Free] /\ UNCHANGED <<ourRequests, requests>>
  BY <1>1, <1>3, RunSetType DEF RequestsType, SetsType
<1>4. CASE ~(run' = [run EXCEPT ![n][s] = Free] /\ UNCHANGED <<ourRequests, requests>>)
  <2>1. PICK m \in live :
          /\ run' = [run EXCEPT ![n][s] = [r EXCEPT !.at = m, !.todo = live \ {m},
                                               !.own = <<n, m, r.h>> \notin ourRequests]]
          /\ ourRequests' = ourRequests \union {<<n, m, r.h>>}
          /\ requests' =
               IF <<n, m, r.h>> \in ourRequests THEN requests
               ELSE BagAdd(requests, [from |-> n, to |-> m, h |-> r.h,
                                       htl |-> decrementHTL(LoopHTL(n, r), <<n, m>>)])
    BY <1>4 DEF AskNext
  <2> DEFINE q == [from |-> n, to |-> m, h |-> r.h,
                   htl |-> decrementHTL(LoopHTL(n, r), <<n, m>>)]
             next == [r EXCEPT !.at = m, !.todo = live \ {m},
                               !.own = <<n, m, r.h>> \notin ourRequests]
  <2>2. m \in Nodes /\ <<n, m>> \in Links
    BY <1>1, <1>2 DEF SetsType
  <2>3. LoopHTL(n, r) \in HTL
    BY <1>2, HopsLeft DEF LoopHTL
  <2>4. q \in Request
    BY <1>2, <2>2, <2>3, HopsLeft DEF Request
  <2>5. next \in Run
    <3>1. live \ {m} \in SUBSET Nodes /\ (<<n, m, r.h>> \notin ourRequests) \in BOOLEAN
      BY <1>2
    <3> HIDE DEF live
    <3> QED BY <2>2, <3>1 DEF Run
  <2> HIDE DEF q, next, live
  <2>6. RunsType'
    BY <1>1, <2>1, <2>5, RunSetType DEF next
  <2>7. requests' = requests \/ requests' = BagAdd(requests, q)
    BY <2>1 DEF q
  <2>8. RequestsType'
    BY <1>1, <2>4, <2>7, BagAdded DEF RequestsType
  <2>9. ourRequests' \subseteq Nodes \X Nodes \X Hashes
    BY <1>1, <1>2, <2>1, <2>2 DEF SetsType
  <2> QED BY <2>6, <2>8, <2>9
<1> QED BY <1>3, <1>4

(* Only peers with an open channel are sent responses.                        *)
LEMMA SendType ==
  ASSUME TypeOK, NEW n \in Nodes, NEW m \in Nodes, NEW h \in Hashes, sendResponse(n, m, h)
  PROVE  ResponsesType'
<1>1. ResponsesType /\ open \subseteq Links
  BY TypeParts DEF SetsType
<1>2. CASE <<n, m>> \in open
  <2>1. [from |-> n, to |-> m, h |-> h] \in Response
    BY <1>1, <1>2 DEF Response
  <2> QED BY <1>1, <1>2, <2>1, BagAdded DEF sendResponse, ResponsesType
<1>3. CASE <<n, m>> \notin open
  BY <1>1, <1>3 DEF sendResponse, ResponsesType
<1> QED BY <1>2, <1>3

(* The cache of one peer changes.                                             *)
LEMMA OneCacheType ==
  ASSUME TheirsType, NEW l \in Pairs, NEW keys \in Seq(Hashes),
         Len(keys) <= Capacity, IsInjective(keys),
         theirRequests' = [theirRequests EXCEPT ![l] = keys]
  PROVE  TheirsType'
  BY DEF TheirsType

-----------------------------------------------------------------------------
LEMMA TypeInit == Init => TypeOK
<1> SUFFICES ASSUME Init PROVE TypeOK
  OBVIOUS
<1>1. RunsType
  BY DEF Init, RunsType
<1>2. RequestsType /\ ResponsesType
  BY DEF Init, RequestsType, ResponsesType, EmptyBag, SetToBag, BagToSet, IsABag
<1>3. TheirsType
  BY BoundsAssumption DEF Init, TheirsType, IsInjective
<1>4. SetsType
  BY HeldAssumption, LinksAssumption DEF Init, SetsType
<1> QED BY <1>1, <1>2, <1>3, <1>4, TypeParts

LEMMA GetType ==
  ASSUME TypeOK, NEW n \in Nodes, NEW s \in Slots(n), NEW h \in Hashes, Get(n, s, h)
  PROVE  TypeOK'
<1>1. OtherPeers(n, n) \subseteq Nodes /\ MAX_HTL \in HTL
  BY HTLAssumption DEF OtherPeers, HTL
<1>2. Asking(n, n, h, MAX_HTL, OtherPeers(n, n)) \in Run
  BY <1>1 DEF Asking, Run
<1>3. AskNext(n, s, Asking(n, n, h, MAX_HTL, OtherPeers(n, n)))
  BY DEF Get
<1>4. RunsType' /\ RequestsType' /\ ourRequests' \subseteq Nodes \X Nodes \X Hashes
  BY <1>2, <1>3, AskNextType
<1>5. ResponsesType' /\ TheirsType'
  BY TypeParts DEF Get, stores, ResponsesType, TheirsType
<1>6. SetsType'
  BY <1>4, TypeParts DEF Get, stores, SetsType
<1> QED BY <1>4, <1>5, <1>6, PartsNext

LEMMA HandleRequestType ==
  ASSUME TypeOK, NEW q \in BagToSet(requests), NEW s \in Slots(q.to), HandleRequest(q, s)
  PROVE  TypeOK'
<1>1. q \in Request /\ RunsType /\ RequestsType
  BY TypeParts DEF RequestsType
<1> DEFINE r == [phase |-> "reading", from |-> q.from, h |-> q.h, htl |-> q.htl,
                 found |-> q.h \in held[q.to], todo |-> {}, at |-> q.to,
                 own |-> FALSE, got |-> FALSE]
<1>2. r \in Run /\ q.to \in Nodes
  BY <1>1 DEF Request, Run
<1>3. run' = [run EXCEPT ![q.to][s] = r]
  BY DEF HandleRequest
<1> HIDE DEF r
<1>4. RunsType'
  BY <1>1, <1>2, <1>3, RunSetType
<1>5. RequestsType'
  BY <1>1, BagRemoved DEF HandleRequest, RequestsType
<1>6. ResponsesType' /\ TheirsType' /\ SetsType'
  BY TypeParts DEF HandleRequest, stores, calls, ResponsesType, TheirsType, SetsType
<1> QED BY <1>4, <1>5, <1>6, PartsNext

(* A run that reads or asks is a run of some request.                        *)
LEMMA RunHere ==
  ASSUME TypeOK, NEW n \in Nodes, NEW s \in Slots(n), run[n][s].phase # "free"
  PROVE  run[n][s] \in Run
  BY DEF TypeOK, Free

LEMMA AnswerLocallyType ==
  ASSUME TypeOK, NEW n \in Nodes, NEW s \in Slots(n), AnswerLocally(n, s)
  PROVE  TypeOK'
<1>1. run[n][s] \in Run
  BY RunHere DEF AnswerLocally
<1>2. run[n][s].from \in Nodes /\ run[n][s].h \in Hashes
  BY <1>1 DEF Run
<1>3. sendResponse(n, run[n][s].from, run[n][s].h)
  BY DEF AnswerLocally
<1>4. ResponsesType'
  BY <1>2, <1>3, SendType
<1>5. RunsType'
  BY TypeParts, RunSetType DEF AnswerLocally
<1>6. RequestsType' /\ TheirsType' /\ SetsType'
  BY TypeParts DEF AnswerLocally, stores, calls, RequestsType, TheirsType, SetsType
<1> QED BY <1>4, <1>5, <1>6, PartsNext

LEMMA StaySilentType ==
  ASSUME TypeOK, NEW n \in Nodes, NEW s \in Slots(n), StaySilent(n, s)
  PROVE  TypeOK'
<1>1. RunsType'
  BY TypeParts, RunSetType DEF StaySilent
<1>2. RequestsType' /\ ResponsesType' /\ TheirsType' /\ SetsType'
  BY TypeParts
  DEF StaySilent, wires, stores, calls, RequestsType, ResponsesType, TheirsType, SetsType
<1> QED BY <1>1, <1>2, PartsNext

LEMMA StartForwardType ==
  ASSUME TypeOK, NEW n \in Nodes, NEW s \in Slots(n), StartForward(n, s)
  PROVE  TypeOK'
<1> DEFINE r == run[n][s]
           l == <<n, r.from>>
           asking == Asking(n, r.from, r.h, r.htl, OtherPeers(n, r.from))
<1>1. r \in Run
  BY RunHere DEF StartForward
<1>2. r.from \in Nodes /\ r.h \in Hashes /\ r.htl \in HTL
  BY <1>1 DEF Run
<1>3. asking \in Run
  <2>1. OtherPeers(n, r.from) \subseteq Nodes
    BY DEF OtherPeers
  <2> QED BY <1>2, <2>1 DEF Asking, Run
<1>4. AskNext(n, s, asking)
  BY DEF StartForward
<1>5. theirRequests' = [theirRequests EXCEPT ![l] = LRUSet(theirRequests[l], r.h)]
  BY DEF StartForward
<1> HIDE DEF asking
<1>6. RunsType' /\ RequestsType' /\ ourRequests' \subseteq Nodes \X Nodes \X Hashes
  BY <1>3, <1>4, AskNextType
<1>7. TheirsType'
  <2>1. TheirsType /\ l \in Pairs
    BY <1>2, TypeParts DEF Pairs
  <2>2. /\ theirRequests[l] \in Seq(Hashes) /\ IsInjective(theirRequests[l])
        /\ Len(theirRequests[l]) <= Capacity
    BY <2>1 DEF TheirsType
  <2> HIDE DEF l, r
  <2>3. /\ LRUSet(theirRequests[l], r.h) \in Seq(Hashes)
        /\ IsInjective(LRUSet(theirRequests[l], r.h))
        /\ Len(LRUSet(theirRequests[l], r.h)) <= Capacity
    BY <1>2, <2>2, SetKey
  <2> QED BY <1>5, <2>1, <2>3, OneCacheType
<1>8. ResponsesType' /\ SetsType'
  BY <1>6, TypeParts DEF StartForward, calls, ResponsesType, SetsType
<1> QED BY <1>6, <1>7, <1>8, PartsNext

LEMMA GoOnType ==
  ASSUME TypeOK, NEW n \in Nodes, NEW s \in Slots(n), GoOn(n, s)
  PROVE  TypeOK'
<1>1. run[n][s] \in Run
  BY RunHere DEF GoOn, DelayFires
<1>2. RunsType' /\ RequestsType' /\ ourRequests' \subseteq Nodes \X Nodes \X Hashes
  BY <1>1, AskNextType DEF GoOn
<1>3. ResponsesType' /\ TheirsType' /\ SetsType'
  BY <1>2, TypeParts DEF GoOn, stores, calls, ResponsesType, TheirsType, SetsType
<1> QED BY <1>2, <1>3, PartsNext

LEMMA FoundType ==
  ASSUME TypeOK, NEW n \in Nodes, NEW s \in Slots(n), Found(n, s)
  PROVE  TypeOK'
<1> DEFINE r == run[n][s]
           l == <<n, r.from>>
<1>1. r \in Run
  BY RunHere DEF Found
<1>2. r.from \in Nodes /\ r.h \in Hashes
  BY <1>1 DEF Run
<1>3. RunsType' /\ RequestsType'
  BY TypeParts, RunSetType DEF Found, RequestsType
<1>4. \/ UNCHANGED <<theirRequests, responses>>
      \/ /\ theirRequests' = [theirRequests EXCEPT ![l] = LRUDelete(theirRequests[l], r.h)]
         /\ sendResponse(n, r.from, r.h)
  BY DEF Found
<1>5. held' = Keep(n, r.h)
  BY DEF Found
<1>6. UNCHANGED <<open, ourRequests, pushing, gets, puts>>
  BY DEF Found, calls
<1>7. TheirsType /\ l \in Pairs
  BY <1>2, TypeParts DEF Pairs
<1> HIDE DEF r, l
<1>8. ResponsesType'
  BY <1>2, <1>4, SendType, TypeParts DEF ResponsesType
<1>9. TheirsType'
  <2>1. /\ theirRequests[l] \in Seq(Hashes) /\ IsInjective(theirRequests[l])
        /\ Len(theirRequests[l]) <= Capacity /\ Len(theirRequests[l]) \in Nat /\ Capacity \in Nat
    BY <1>7, BoundsAssumption DEF TheirsType
  <2>2. /\ LRUDelete(theirRequests[l], r.h) \in Seq(Hashes)
        /\ IsInjective(LRUDelete(theirRequests[l], r.h))
        /\ Len(LRUDelete(theirRequests[l], r.h)) <= Capacity
    BY <2>1, DeletedKey
  <2>3. CASE theirRequests' = [theirRequests EXCEPT ![l] = LRUDelete(theirRequests[l], r.h)]
    BY <1>7, <2>2, <2>3, OneCacheType
  <2>4. CASE UNCHANGED theirRequests
    BY <1>7, <2>4 DEF TheirsType
  <2> QED BY <1>4, <2>3, <2>4
<1>10. SetsType'
  <2>1. held' \in [Nodes -> SUBSET Hashes]
    BY <1>2, <1>5, TypeParts DEF Keep, SetsType
  <2> QED BY <1>6, <2>1, TypeParts DEF SetsType
<1> QED BY <1>3, <1>8, <1>9, <1>10, PartsNext

LEMMA HandleResponseType ==
  ASSUME TypeOK, NEW r \in BagToSet(responses), HandleResponse(r)
  PROVE  TypeOK'
<1>1. RunsType /\ ResponsesType /\ SetsType /\ r \in Response
  BY TypeParts DEF ResponsesType
<1>2. r.to \in Nodes
  BY <1>1 DEF Response
<1>3. ResponsesType'
  BY <1>1, BagRemoved DEF HandleResponse, ResponsesType
<1>4. RunsType'
  <2>1. CASE UNCHANGED run
    BY <1>1, <2>1 DEF RunsType, Slots
  <2>2. CASE run' = [run EXCEPT ![r.to] = [s \in Slots(r.to) |->
               IF Awaits(r.to, s, r.from, r.h) THEN [run[r.to][s] EXCEPT !.got = TRUE]
                                               ELSE run[r.to][s]]]
    <3> DEFINE told(s) == IF Awaits(r.to, s, r.from, r.h) THEN [run[r.to][s] EXCEPT !.got = TRUE]
                                                         ELSE run[r.to][s]
    <3>1. ASSUME NEW s \in Slots(r.to)
          PROVE  told(s) \in Run \union {Free}
      <4>1. CASE Awaits(r.to, s, r.from, r.h)
        <5>1. run[r.to][s] \in Run
          BY <1>2, <4>1, RunHere DEF Awaits
        <5>2. [run[r.to][s] EXCEPT !.got = TRUE] \in Run
          BY <5>1 DEF Run
        <5> QED BY <4>1, <5>2
      <4>2. CASE ~Awaits(r.to, s, r.from, r.h)
        BY <1>1, <1>2, <4>2 DEF RunsType
      <4> QED BY <4>1, <4>2
    <3>2. run' = [run EXCEPT ![r.to] = [s \in Slots(r.to) |-> told(s)]]
      BY <2>2
    <3> HIDE DEF told
    <3> QED BY <1>1, <3>1, <3>2 DEF RunsType, Slots
  <2> QED BY <2>1, <2>2 DEF HandleResponse
<1>5. RequestsType' /\ TheirsType' /\ SetsType'
  BY TypeParts DEF HandleResponse, stores, calls, RequestsType, TheirsType, SetsType
<1> QED BY <1>3, <1>4, <1>5, PartsNext

LEMMA RequestTimeoutType ==
  ASSUME TypeOK, NEW n \in Nodes, NEW m \in Nodes, NEW h \in Hashes, RequestTimeout(n, m, h)
  PROVE  TypeOK'
<1>1. RunsType' /\ RequestsType' /\ ResponsesType' /\ TheirsType'
  BY TypeParts
  DEF RequestTimeout, wires, stores, RunsType, RequestsType, ResponsesType, TheirsType, Slots
<1>2. SetsType'
  BY TypeParts DEF RequestTimeout, wires, stores, calls, SetsType
<1> QED BY <1>1, <1>2, PartsNext

LEMMA PutType ==
  ASSUME TypeOK, NEW n \in Nodes, NEW h \in Hashes, Put(n, h)
  PROVE  TypeOK'
<1>1. RunsType' /\ RequestsType' /\ ResponsesType' /\ TheirsType'
  BY TypeParts DEF Put, wires, RunsType, RequestsType, ResponsesType, TheirsType, Slots
<1>2. held' \in [Nodes -> SUBSET Hashes]
  BY TypeParts DEF Put, Keep, SetsType
<1>3. SetsType'
  BY <1>2, TypeParts DEF Put, wires, SetsType
<1> QED BY <1>1, <1>3, PartsNext

LEMMA sendToInterestedPeersType ==
  ASSUME TypeOK, NEW n \in Nodes, NEW h \in Hashes, sendToInterestedPeers(n, h)
  PROVE  TypeOK'
<1> DEFINE interested == {m \in Nodes : <<n, m>> \in open /\ h \in Tracked(n, m)}
           sent == [from : {n}, to : interested, h : {h}]
<1>1. /\ responses' = responses (+) SetToBag(sent)
      /\ theirRequests' = [l \in Pairs |->
            IF l[1] = n /\ l[2] \in interested THEN LRUDelete(theirRequests[l], h)
                                             ELSE theirRequests[l]]
  BY DEF sendToInterestedPeers
<1>2. RunsType' /\ RequestsType' /\ SetsType'
  BY TypeParts DEF sendToInterestedPeers, calls, RunsType, RequestsType, SetsType, Slots
<1>3. sent \subseteq Response
  BY TypeParts DEF SetsType, Response
<1> HIDE DEF interested, sent
<1>4. ResponsesType'
  BY <1>1, <1>3, BagsJoined, TypeParts DEF ResponsesType
<1>5. TheirsType'
  <2>1. ASSUME NEW l \in Pairs
        PROVE  /\ theirRequests'[l] \in Seq(Hashes) /\ IsInjective(theirRequests'[l])
               /\ Len(theirRequests'[l]) <= Capacity
    <3>1. /\ theirRequests[l] \in Seq(Hashes) /\ IsInjective(theirRequests[l])
          /\ Len(theirRequests[l]) <= Capacity /\ Len(theirRequests[l]) \in Nat /\ Capacity \in Nat
      BY TypeParts, BoundsAssumption DEF TheirsType
    <3>2. /\ LRUDelete(theirRequests[l], h) \in Seq(Hashes)
          /\ IsInjective(LRUDelete(theirRequests[l], h))
          /\ Len(LRUDelete(theirRequests[l], h)) <= Capacity
      BY <3>1, DeletedKey
    <3>3. \/ theirRequests'[l] = theirRequests[l]
          \/ theirRequests'[l] = LRUDelete(theirRequests[l], h)
      BY <1>1
    <3> QED BY <3>1, <3>2, <3>3
  <2>2. theirRequests' \in [Pairs -> Seq(Hashes)]
    BY <1>1, <2>1
  <2> QED BY <2>1, <2>2 DEF TheirsType
<1> QED BY <1>2, <1>4, <1>5, PartsNext

LEMMA ClosePeerType ==
  ASSUME TypeOK, NEW n \in Nodes, NEW m \in Nodes, ClosePeer(n, m)
  PROVE  TypeOK'
<1>1. RequestsType' /\ ResponsesType'
  BY TypeParts, BagLeft DEF ClosePeer, RequestsType, ResponsesType
<1>2. RunsType' /\ TheirsType'
  BY TypeParts DEF ClosePeer, stores, RunsType, TheirsType, Slots
<1>3. SetsType'
  BY TypeParts DEF ClosePeer, stores, calls, SetsType
<1> QED BY <1>1, <1>2, <1>3, PartsNext

LEMMA TypeNext == TypeOK /\ [Next]_vars => TypeOK'
<1> SUFFICES ASSUME TypeOK, [Next]_vars
             PROVE  TypeOK'
  OBVIOUS
<1>1. ASSUME NEW n \in Nodes, NEW s \in Slots(n), Step(n, s)
      PROVE  TypeOK'
  BY <1>1, AnswerLocallyType, StaySilentType, StartForwardType, GoOnType, FoundType DEF Step
<1>2. ASSUME NEW q \in BagToSet(requests), NEW s \in Slots(q.to), HandleRequest(q, s)
      PROVE  TypeOK'
  BY <1>2, HandleRequestType
<1>3. ASSUME NEW r \in BagToSet(responses), HandleResponse(r)
      PROVE  TypeOK'
  BY <1>3, HandleResponseType
<1>4. ASSUME NEW n \in Nodes, NEW h \in Hashes, NEW s \in Slots(n), Get(n, s, h)
      PROVE  TypeOK'
  BY <1>4, GetType
<1>5. ASSUME NEW n \in Nodes, NEW m \in Nodes, NEW h \in Hashes, RequestTimeout(n, m, h)
      PROVE  TypeOK'
  BY <1>5, RequestTimeoutType
<1>6. ASSUME NEW n \in Nodes, NEW h \in Hashes, Put(n, h) \/ sendToInterestedPeers(n, h)
      PROVE  TypeOK'
  BY <1>6, PutType, sendToInterestedPeersType
<1>7. ASSUME NEW n \in Nodes, NEW m \in Nodes, ClosePeer(n, m)
      PROVE  TypeOK'
  BY <1>7, ClosePeerType
<1>8. CASE UNCHANGED vars
  BY <1>8 DEF vars, wires, stores, calls, TypeOK, Slots
<1> QED
  BY <1>1, <1>2, <1>3, <1>4, <1>5, <1>6, <1>7, <1>8 DEF Next, Deliver

(* Whatever the network does, bags of messages stay bags of messages between *)
(* linked nodes with hops in range, runs keep their form, and the cache of   *)
(* each peer's requests keeps to its size and never holds a key twice        *)
(* (LRUCache, decrementHTL, forwardRequest).                                 *)
THEOREM WellTyped == Spec => []TypeOK
  BY TypeInit, TypeNext, PTL DEF Spec

-----------------------------------------------------------------------------
(* What a step does to the interest of m in h at n.                           *)
InterestKept(n, m, h) ==
  (h \in Tracked(n, m) /\ h \notin ToSet(theirRequests[<<n, m>>]') /\ <<n, m>> \in open)
    => \/ Copies([from |-> n, to |-> m, h |-> h], responses') >
            Copies([from |-> n, to |-> m, h |-> h], responses)
       \/ Len(theirRequests[<<n, m>>]) = Capacity

AllInterestKept == \A n, m \in Nodes, h \in Hashes : InterestKept(n, m, h)

(* Nothing tracked changes.                                                  *)
LEMMA UntouchedKept ==
  ASSUME UNCHANGED theirRequests
  PROVE  AllInterestKept
  BY DEF AllInterestKept, InterestKept, Tracked

(* Tracking a request evicts another only from a full cache.                  *)
LEMMA StartForwardInterest ==
  ASSUME TypeOK, NEW n \in Nodes, NEW s \in Slots(n), StartForward(n, s)
  PROVE  AllInterestKept
<1> DEFINE r == run[n][s]
<1>1. r \in Run
  BY RunHere DEF StartForward
<1>2. r.from \in Nodes /\ r.h \in Hashes
  BY <1>1 DEF Run
<1>3. theirRequests' = [theirRequests EXCEPT ![<<n, r.from>>] =
                          LRUSet(theirRequests[<<n, r.from>>], r.h)]
  BY DEF StartForward
<1> HIDE DEF r
<1> SUFFICES ASSUME NEW a \in Nodes, NEW b \in Nodes, NEW h \in Hashes,
                    h \in Tracked(a, b), h \notin ToSet(theirRequests'[<<a, b>>])
             PROVE  Len(theirRequests[<<a, b>>]) = Capacity
  BY DEF AllInterestKept, InterestKept
<1>4. <<a, b>> \in Pairs /\ TheirsType
  BY TypeParts DEF Pairs
<1>5. /\ theirRequests[<<a, b>>] \in Seq(Hashes) /\ IsInjective(theirRequests[<<a, b>>])
      /\ Len(theirRequests[<<a, b>>]) <= Capacity
  BY <1>4 DEF TheirsType
<1>6. <<a, b>> = <<n, r.from>>
  BY <1>3, <1>4 DEF TheirsType, Tracked
<1>7. theirRequests'[<<a, b>>] = LRUSet(theirRequests[<<a, b>>], r.h)
  BY <1>3, <1>4, <1>6 DEF TheirsType
<1>8. ~(Len(theirRequests[<<a, b>>]) < Capacity)
  BY <1>2, <1>5, <1>7, SetKey DEF Tracked
<1>9. Len(theirRequests[<<a, b>>]) \in Nat /\ Capacity \in Nat
  BY <1>5, BoundsAssumption
<1> QED BY <1>5, <1>8, <1>9

(* An answer fetched for a peer is sent to it.                                *)
LEMMA FoundInterest ==
  ASSUME TypeOK, NEW n \in Nodes, NEW s \in Slots(n), Found(n, s)
  PROVE  AllInterestKept
<1> DEFINE r == run[n][s]
<1>1. CASE UNCHANGED theirRequests
  BY <1>1, UntouchedKept
<1>2. CASE /\ theirRequests' = [theirRequests EXCEPT ![<<n, r.from>>] =
                                 LRUDelete(theirRequests[<<n, r.from>>], r.h)]
           /\ sendResponse(n, r.from, r.h)
  <2>1. IsABag(responses) /\ TheirsType
    BY TypeParts DEF ResponsesType
  <2> HIDE DEF r
  <2> SUFFICES ASSUME NEW a \in Nodes, NEW b \in Nodes, NEW h \in Hashes,
                      h \in Tracked(a, b), h \notin ToSet(theirRequests'[<<a, b>>]),
                      <<a, b>> \in open
               PROVE  Copies([from |-> a, to |-> b, h |-> h], responses') >
                        Copies([from |-> a, to |-> b, h |-> h], responses)
    BY DEF AllInterestKept, InterestKept
  <2>2. <<a, b>> \in Pairs
    BY DEF Pairs
  <2>3. theirRequests[<<a, b>>] \in Seq(Hashes) /\ IsInjective(theirRequests[<<a, b>>])
    BY <2>1, <2>2 DEF TheirsType
  <2>4. <<a, b>> = <<n, r.from>>
    BY <1>2, <2>1, <2>2 DEF TheirsType, Tracked
  <2>5. theirRequests'[<<a, b>>] = LRUDelete(theirRequests[<<a, b>>], r.h)
    BY <1>2, <2>1, <2>2, <2>4 DEF TheirsType
  <2>6. h = r.h
    BY <2>3, <2>5, DeletedKey DEF Tracked
  <2>7. a = n /\ b = r.from
    BY <2>4
  <2>8. responses' = BagAdd(responses, [from |-> a, to |-> b, h |-> h])
    BY <1>2, <2>6, <2>7 DEF sendResponse
  <2> QED BY <2>1, <2>8, BagAdded
<1> QED BY <1>1, <1>2 DEF Found

(* What is pushed is sent to all that lose their interest.                    *)
LEMMA PushInterest ==
  ASSUME TypeOK, NEW n \in Nodes, NEW k \in Hashes, sendToInterestedPeers(n, k)
  PROVE  AllInterestKept
<1> DEFINE interested == {m \in Nodes : <<n, m>> \in open /\ k \in Tracked(n, m)}
           sent == [from : {n}, to : interested, h : {k}]
<1>1. /\ responses' = responses (+) SetToBag(sent)
      /\ theirRequests' = [l \in Pairs |->
            IF l[1] = n /\ l[2] \in interested THEN LRUDelete(theirRequests[l], k)
                                             ELSE theirRequests[l]]
  BY DEF sendToInterestedPeers
<1>2. IsABag(responses) /\ TheirsType
  BY TypeParts DEF ResponsesType
<1> HIDE DEF interested
<1> SUFFICES ASSUME NEW a \in Nodes, NEW b \in Nodes, NEW h \in Hashes,
                    h \in Tracked(a, b), h \notin ToSet(theirRequests'[<<a, b>>]),
                    <<a, b>> \in open
             PROVE  Copies([from |-> a, to |-> b, h |-> h], responses') >
                      Copies([from |-> a, to |-> b, h |-> h], responses)
  BY DEF AllInterestKept, InterestKept
<1>3. <<a, b>> \in Pairs /\ <<a, b>>[1] = a /\ <<a, b>>[2] = b
  BY DEF Pairs
<1>4. a = n /\ b \in interested /\ theirRequests'[<<a, b>>] = LRUDelete(theirRequests[<<a, b>>], k)
  BY <1>1, <1>3 DEF Tracked
<1>5. theirRequests[<<a, b>>] \in Seq(Hashes) /\ IsInjective(theirRequests[<<a, b>>])
  BY <1>2, <1>3 DEF TheirsType
<1>6. h = k
  BY <1>4, <1>5, DeletedKey DEF Tracked
<1>7. [from |-> a, to |-> b, h |-> h] \in sent
  BY <1>4, <1>6
<1> HIDE DEF sent
<1> QED BY <1>1, <1>2, <1>7, BagsJoined

LEMMA InterestStep == TypeOK /\ Next => AllInterestKept
<1> SUFFICES ASSUME TypeOK, Next
             PROVE  AllInterestKept
  OBVIOUS
<1>1. ASSUME NEW n \in Nodes, NEW s \in Slots(n), Step(n, s)
      PROVE  AllInterestKept
  <2>1. CASE StartForward(n, s)
    BY <2>1, StartForwardInterest
  <2>2. CASE Found(n, s)
    BY <2>2, FoundInterest
  <2>3. CASE AnswerLocally(n, s) \/ StaySilent(n, s) \/ GoOn(n, s)
    BY <2>3, UntouchedKept DEF AnswerLocally, StaySilent, GoOn, stores
  <2> QED BY <1>1, <2>1, <2>2, <2>3 DEF Step
<1>2. CASE Deliver
  BY <1>2, UntouchedKept DEF Deliver, HandleRequest, HandleResponse, stores
<1>3. ASSUME NEW n \in Nodes, NEW h \in Hashes, sendToInterestedPeers(n, h)
      PROVE  AllInterestKept
  BY <1>3, PushInterest
<1>4. ASSUME NEW n \in Nodes, NEW h \in Hashes,
             Put(n, h) \/ \E s \in Slots(n) : Get(n, s, h)
      PROVE  AllInterestKept
  BY <1>4, UntouchedKept DEF Put, Get, stores
<1>5. ASSUME NEW n \in Nodes, NEW m \in Nodes,
             ClosePeer(n, m) \/ \E h \in Hashes : RequestTimeout(n, m, h)
      PROVE  AllInterestKept
  BY <1>5, UntouchedKept DEF ClosePeer, RequestTimeout, stores
<1> QED BY <1>1, <1>2, <1>3, <1>4, <1>5 DEF Next

(* A peer's interest in a block outlives every failed forward: it is dropped *)
(* only by the step that sends it the block, or to make room in a full cache *)
(* (handleRequest, sendToInterestedPeers).                                   *)
THEOREM InterestsWait == Spec => InterestIsKept
<1>1. TypeOK /\ [Next]_vars => [\A n, m \in Nodes, h \in Hashes :
       (h \in Tracked(n, m) /\ h \notin ToSet(theirRequests[<<n, m>>]') /\ <<n, m>> \in open)
         => \/ Copies([from |-> n, to |-> m, h |-> h], responses') >
                 Copies([from |-> n, to |-> m, h |-> h], responses)
            \/ Len(theirRequests[<<n, m>>]) = Capacity]_vars
  BY InterestStep DEF AllInterestKept, InterestKept
<1> QED BY <1>1, WellTyped, PTL DEF Spec, InterestIsKept
=============================================================================
