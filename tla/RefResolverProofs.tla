------------------------- MODULE RefResolverProofs -------------------------
(* Safety of RefResolver for any trees, values, subscribers, listeners and  *)
(* bounds.                                                                  *)
EXTENDS RefResolver, TLAPS

USE ValuesAssumption, EntriesAssumption, TimeAssumption

(* The list reported for a map of entries. *)
LEMMA ViewType ==
  ASSUME NEW ent \in [Trees -> Entry \union {NoEntry}]
  PROVE  View(ent) \in Views
BY DEF View, Views, Entry

(* Writing an entry of the registered list subscription. *)
LEMMA SetListEntryType ==
  ASSUME TypeOK, currentList # NoList, NEW t \in Trees, NEW value \in Values \union {Null},
         SetListEntry(t, value)
  PROVE  /\ entries' \in [Listeners -> [Trees -> Entry \union {NoEntry}]]
         /\ shown' \in [Listeners -> Views \union {Nothing}]
         /\ UNCHANGED <<currentList, callbacks, open, joined, listSeen>>
<1> DEFINE ent == [entries[currentList] EXCEPT ![t] = [value |-> value, at |-> clock]]
<1>1. ent \in [Trees -> Entry \union {NoEntry}]
  BY DEF TypeOK, Entry
<1>2. View(ent) \in Views
  BY <1>1, ViewType
<1>3. /\ entries' = [entries EXCEPT ![currentList] = ent] /\ EmitList(currentList, ent)
      /\ UNCHANGED <<currentList, callbacks, open, joined, listSeen>>
  BY DEF SetListEntry
<1> HIDE DEF ent
<1>4. shown' \in [Listeners -> Views \union {Nothing}]
  BY <1>2, <1>3 DEF EmitList, TypeOK
<1>5. entries' \in [Listeners -> [Trees -> Entry \union {NoEntry}]]
  BY <1>1, <1>3 DEF TypeOK
<1> QED BY <1>3, <1>4, <1>5

(* Calling the callbacks of a tree. *)
LEMMA TellSubscribersType ==
  ASSUME TypeOK, NEW t \in Trees, NEW value \in Values \union {Null}, TellSubscribers(t, value)
  PROVE  told' \in [Subscribers -> Values \union {Null, Nothing}]
<1>1. told \in [Subscribers -> Values \union {Null, Nothing}]
  BY DEF TypeOK
<1> QED BY <1>1 DEF TellSubscribers

(* What publish() and delete() do to the subscription of a tree. *)
LEMMA SetSubscriptionType ==
  ASSUME TypeOK, NEW t \in Trees, NEW value \in Values \union {Null}, SetSubscription(t, value)
  PROVE  /\ subValue' \in [Trees -> Values \union {Null}]
         /\ subAt' \in [Trees -> Nat]
         /\ told' \in [Subscribers -> Values \union {Null, Nothing}]
         /\ UNCHANGED <<subTree, subSeen>>
<1>1. CASE Subscribed(t)
  <2>1. told' \in [Subscribers -> Values \union {Null, Nothing}]
    <3>1. TellSubscribers(t, value)
      BY <1>1 DEF SetSubscription
    <3> QED BY <3>1, TellSubscribersType
  <2>2. /\ subValue' = [subValue EXCEPT ![t] = value]
        /\ subAt' = [subAt EXCEPT ![t] = clock]
        /\ UNCHANGED <<subTree, subSeen>>
    BY <1>1 DEF SetSubscription
  <2>3. subValue' \in [Trees -> Values \union {Null}] /\ subAt' \in [Trees -> Nat]
    BY <2>2 DEF TypeOK
  <2> QED BY <2>1, <2>2, <2>3
<1>2. CASE ~Subscribed(t)
  BY <1>2 DEF SetSubscription, subVars, TypeOK
<1> QED BY <1>1, <1>2

(* The variables have their types in every reachable state. *)
THEOREM ResolverTypeCorrect == Spec => []TypeOK
<1>1. Init => TypeOK
  BY DEF Init, TypeOK, Views
<1>2. TypeOK /\ [Next]_vars => TypeOK'
  <2> SUFFICES ASSUME TypeOK, [Next]_vars
               PROVE  TypeOK'
    OBVIOUS
  <2> USE DEF vars, localVars, subVars, listVars
  <2>1. ASSUME NEW t \in Trees, NEW v \in Values, NEW skip \in BOOLEAN, Publish(t, v, skip)
        PROVE  TypeOK'
    <3>1. cache' \in [Trees -> Entry \union {NoEntry}]
      BY <2>1 DEF Publish, TypeOK, Entry
    <3>2. relay' \subseteq Event
      BY <2>1 DEF Publish, Send, TypeOK, Event
    <3>7. unsent' \subseteq Event
      BY <2>1 DEF Publish, Keep, TypeOK, Event
    <3>3. SetSubscription(t, v) /\ UNCHANGED clock /\ PublishToList(t, v)
      BY <2>1 DEF Publish
    <3>4. CASE currentList # NoList /\ ~JustDeleted(entries[currentList][t], clock)
      BY <3>1, <3>2, <3>7, <3>3, <3>4, SetSubscriptionType, SetListEntryType DEF PublishToList, TypeOK
    <3>5. CASE ~(currentList # NoList /\ ~JustDeleted(entries[currentList][t], clock))
      BY <3>1, <3>2, <3>7, <3>3, <3>5, SetSubscriptionType DEF PublishToList, TypeOK
    <3> QED BY <3>4, <3>5
  <2>2. ASSUME NEW t \in Trees, Delete(t)
        PROVE  TypeOK'
    <3>1. cache' \in [Trees -> Entry \union {NoEntry}]
      BY <2>2 DEF Delete, TypeOK, Entry
    <3>2. relay' \subseteq Event
      BY <2>2 DEF Delete, DeletionTime, Send, TypeOK, Event
    <3>3. SetSubscription(t, Null) /\ UNCHANGED <<clock, unsent>>
      BY <2>2 DEF Delete
    <3>4. CASE currentList # NoList
      BY <2>2, <3>1, <3>2, <3>3, <3>4, SetSubscriptionType, SetListEntryType DEF Delete, TypeOK
    <3>5. CASE currentList = NoList
      BY <2>2, <3>1, <3>2, <3>3, <3>5, SetSubscriptionType DEF Delete, TypeOK
    <3> QED BY <3>4, <3>5
  <2>3. ASSUME NEW t \in Trees, NEW v \in Values, InjectListEntry(t, v)
        PROVE  TypeOK'
    <3>1. cache' \in [Trees -> Entry \union {NoEntry}]
      BY <2>3 DEF InjectListEntry, TypeOK, Entry
    <3>2. InjectIntoList(t, v) /\ UNCHANGED <<clock, relay, subVars>>
      BY <2>3 DEF InjectListEntry
    <3>5. unsent' \subseteq Event
      BY <2>3 DEF InjectListEntry, Keep, TypeOK, Event
    <3>3. CASE currentList # NoList /\ SetListEntry(t, v)
      BY <3>1, <3>2, <3>3, <3>5, SetListEntryType DEF TypeOK
    <3>4. CASE UNCHANGED listVars
      BY <3>1, <3>2, <3>4, <3>5 DEF TypeOK
    <3> QED BY <3>2, <3>3, <3>4 DEF InjectIntoList
  <2>4. ASSUME NEW t \in Trees, NEW v \in Values, RemotePublish(t, v)
        PROVE  TypeOK'
    BY <2>4 DEF RemotePublish, Send, TypeOK, Event
  <2>5. ASSUME NEW t \in Trees, RemoteDelete(t)
        PROVE  TypeOK'
    BY <2>5 DEF RemoteDelete, DeletionTime, Send, TypeOK, Event
  <2>6. ASSUME NEW s \in Subscribers, NEW t \in Trees, Subscribe(s, t)
        PROVE  TypeOK'
    <3>1. CASE SubscribeJoin(s, t)
      BY <2>6, <3>1 DEF Subscribe, SubscribeJoin, TypeOK
    <3>2. CASE SubscribeFirst(s, t)
      BY <2>6, <3>2 DEF Subscribe, SubscribeFirst, TypeOK, Entry
    <3> QED BY <2>6, <3>1, <3>2 DEF Subscribe
  <2>7. ASSUME NEW s \in Subscribers, Unsubscribe(s)
        PROVE  TypeOK'
    <3> DEFINE u == subTree[s]
    <3>1. /\ u \in Trees /\ subTree' = [subTree EXCEPT ![s] = NoEntry]
          /\ told' = [told EXCEPT ![s] = Nothing]
          /\ UNCHANGED <<clock, relay, localVars, listVars>>
      BY <2>7 DEF Unsubscribe, TypeOK
    <3>2. \/ UNCHANGED <<subValue, subAt, subSeen>>
          \/ /\ subValue' = [subValue EXCEPT ![u] = Null]
             /\ subAt' = [subAt EXCEPT ![u] = 0]
             /\ subSeen' = [subSeen EXCEPT ![u] = {}]
      BY <2>7 DEF Unsubscribe
    <3> HIDE DEF u
    <3>3. /\ subTree' \in [Subscribers -> Trees \union {NoEntry}]
          /\ told' \in [Subscribers -> Values \union {Null, Nothing}]
      BY <3>1 DEF TypeOK
    <3>4. /\ subValue' \in [Trees -> Values \union {Null}]
          /\ subAt' \in [Trees -> Nat]
          /\ subSeen' \in [Trees -> SUBSET Event]
      <4>1. CASE UNCHANGED <<subValue, subAt, subSeen>>
        BY <4>1 DEF TypeOK
      <4>2. CASE /\ subValue' = [subValue EXCEPT ![u] = Null]
                 /\ subAt' = [subAt EXCEPT ![u] = 0]
                 /\ subSeen' = [subSeen EXCEPT ![u] = {}]
        BY <3>1, <4>2 DEF TypeOK
      <4> QED BY <3>2, <4>1, <4>2
    <3> QED BY <3>1, <3>3, <3>4 DEF TypeOK
  <2>8. ASSUME NEW e \in relay, SubscriptionEvent(e)
        PROVE  TypeOK'
    <3>a. e \in Event
      BY DEF TypeOK
    <3>1. subSeen' \in [Trees -> SUBSET Event]
      BY <2>8, <3>a DEF SubscriptionEvent, TypeOK
    <3>2. CASE IsUpdate(e)
      <4>1. e.tree \in Trees /\ e.value \in Values \union {Null} /\ e.at \in Nat
        BY <3>a DEF Event
      <4>2. told' \in [Subscribers -> Values \union {Null, Nothing}]
        BY <2>8, <3>2, <4>1, TellSubscribersType DEF SubscriptionEvent
      <4> QED BY <2>8, <3>1, <3>2, <4>1, <4>2 DEF SubscriptionEvent, TypeOK
    <3>3. CASE ~IsUpdate(e)
      BY <2>8, <3>1, <3>3 DEF SubscriptionEvent, TypeOK
    <3> QED BY <3>2, <3>3
  <2>9. ASSUME NEW l \in Listeners, List(l)
        PROVE  TypeOK'
    <3>1. CASE ListJoin(l)
      BY <2>9, <3>1, ViewType DEF List, ListJoin, TypeOK
    <3>2. CASE ListCreate(l)
      BY <2>9, <3>2, ViewType DEF List, ListCreate, TypeOK
    <3> QED BY <2>9, <3>1, <3>2 DEF List
  <2>10. ASSUME NEW l \in Listeners, Unlist(l)
         PROVE  TypeOK'
    <3> DEFINE m == joined[l]
               empty == [t \in Trees |-> NoEntry]
    <3>1. /\ m \in Listeners /\ callbacks' = [callbacks EXCEPT ![m] = @ \ {l}]
          /\ shown' = [shown EXCEPT ![l] = Nothing]
          /\ UNCHANGED <<clock, relay, localVars, subVars, joined>>
      BY <2>10 DEF Unlist, TypeOK
    <3>2. \/ UNCHANGED <<open, currentList, entries, listSeen>>
          \/ /\ open' = open \ {m} /\ currentList' = NoList
             /\ entries' = [entries EXCEPT ![m] = empty]
             /\ listSeen' = [listSeen EXCEPT ![m] = {}]
      BY <2>10 DEF Unlist
    <3>3. empty \in [Trees -> Entry \union {NoEntry}]
      OBVIOUS
    <3> HIDE DEF m, empty
    <3> QED BY <3>1, <3>2, <3>3 DEF TypeOK
  <2>11. ASSUME NEW l \in Listeners, NEW e \in relay, ListEvent(l, e)
         PROVE  TypeOK'
    <3> DEFINE ent == [entries[l] EXCEPT ![e.tree] = [value |-> e.value, at |-> e.at]]
    <3>a. e \in Event
      BY DEF TypeOK
    <3>1. ent \in [Trees -> Entry \union {NoEntry}]
      BY <3>a DEF TypeOK, Entry, Event
    <3>2. View(ent) \in Views
      BY <3>1, ViewType
    <3>3. listSeen' \in [Listeners -> SUBSET Event]
      BY <2>11, <3>a DEF ListEvent, TypeOK
    <3>4. CASE Supersedes(e, entries[l][e.tree])
      <4>1. entries' = [entries EXCEPT ![l] = ent] /\ EmitList(l, ent)
        BY <2>11, <3>4 DEF ListEvent
      <4> HIDE DEF ent
      <4> QED BY <2>11, <3>1, <3>2, <3>3, <4>1 DEF ListEvent, EmitList, TypeOK
    <3>5. CASE ~Supersedes(e, entries[l][e.tree])
      BY <2>11, <3>3, <3>5 DEF ListEvent, TypeOK
    <3> QED BY <3>4, <3>5
  <2>12. CASE Stop
    BY <2>12 DEF Stop, TypeOK
  <2>13. CASE Tick
    BY <2>13 DEF Tick, TypeOK
  <2>14. CASE UNCHANGED vars
    BY <2>14 DEF TypeOK
  <2> QED
    BY <2>1, <2>2, <2>3, <2>4, <2>5, <2>6, <2>7, <2>8, <2>9, <2>10, <2>11, <2>12, <2>13, <2>14
       DEF Next, Local
<1> QED BY <1>1, <1>2, PTL DEF Spec

-----------------------------------------------------------------------------
(* What publish(), delete() and injectListEntry() may do to the entries of  *)
(* list subscriptions: nothing, or write one of the registered object.      *)
Written(t, value) ==
  \/ UNCHANGED listVars
  \/ currentList # NoList /\ SetListEntry(t, value)

(* The entry written holds the value and the time; no other changes. *)
LEMMA WrittenEntries ==
  ASSUME TypeOK, NEW t \in Trees, NEW value, SetListEntry(t, value), currentList # NoList
  PROVE  /\ currentList \in Listeners
         /\ entries'[currentList][t] = [value |-> value, at |-> clock]
         /\ \A l \in Listeners, u \in Trees :
              l # currentList \/ u # t => entries'[l][u] = entries[l][u]
BY DEF SetListEntry, TypeOK

(* Other trees keep their entries. *)
LEMMA WrittenElsewhere ==
  ASSUME TypeOK, NEW t \in Trees, NEW value, Written(t, value)
  PROVE  /\ UNCHANGED <<currentList, listSeen>>
         /\ \A l \in Listeners, u \in Trees :
              l # currentList \/ u # t => entries'[l][u] = entries[l][u]
<1>1. CASE UNCHANGED listVars
  BY <1>1 DEF listVars
<1>2. CASE currentList # NoList /\ SetListEntry(t, value)
  <2>1. UNCHANGED <<currentList, listSeen>>
    BY <1>2 DEF SetListEntry
  <2> QED BY <1>2, <2>1, WrittenEntries
<1> QED BY <1>1, <1>2 DEF Written

(* What a local operation does to everything that carries a timestamp. *)
LEMMA LocalEffects ==
  ASSUME TypeOK, NEW t \in Trees, Local(t)
  PROVE  \E value \in Values \union {Null} :
           /\ Written(t, value)
           /\ cache' = cache \/ cache' = [cache EXCEPT ![t] = [value |-> value, at |-> clock]]
           /\ subAt' = subAt \/ subAt' = [subAt EXCEPT ![t] = clock]
           /\ \/ relay' = relay
              \/ relay' = relay \union {[tree |-> t, value |-> value, at |-> clock]}
              \/ value = Null /\ relay' = relay \union {[tree |-> t, value |-> Null, at |-> clock + 1]}
           /\ UNCHANGED clock
<1> USE DEF Written, SetSubscription, subVars
<1>1. ASSUME NEW v \in Values, NEW skip \in BOOLEAN, Publish(t, v, skip)
      PROVE  /\ Written(t, v)
             /\ cache' = [cache EXCEPT ![t] = [value |-> v, at |-> clock]]
             /\ subAt' = subAt \/ subAt' = [subAt EXCEPT ![t] = clock]
             /\ relay' = relay \/ relay' = relay \union {[tree |-> t, value |-> v, at |-> clock]}
             /\ UNCHANGED clock
  BY <1>1 DEF Publish, PublishToList, Send
<1>2. ASSUME Delete(t)
      PROVE  /\ Written(t, Null)
             /\ cache' = [cache EXCEPT ![t] = [value |-> Null, at |-> clock]]
             /\ subAt' = subAt \/ subAt' = [subAt EXCEPT ![t] = clock]
             /\ relay' = relay \union {[tree |-> t, value |-> Null, at |-> clock + 1]}
             /\ UNCHANGED clock
  BY <1>2 DEF Delete, DeletionTime, Send
<1>3. ASSUME NEW v \in Values, InjectListEntry(t, v)
      PROVE  /\ Written(t, v)
             /\ cache' = cache \/ cache' = [cache EXCEPT ![t] = [value |-> v, at |-> clock]]
             /\ UNCHANGED <<clock, subAt, relay>>
  BY <1>3 DEF InjectListEntry, InjectIntoList
<1> HIDE DEF Written
<1>4. CASE \E v \in Values, skip \in BOOLEAN : Publish(t, v, skip)
  <2>1. PICK v \in Values, skip \in BOOLEAN : Publish(t, v, skip)
    BY <1>4
  <2> WITNESS v \in Values \union {Null}
  <2> QED BY <1>1, <2>1
<1>5. CASE Delete(t)
  <2> WITNESS Null \in Values \union {Null}
  <2> QED BY <1>2, <1>5
<1>6. CASE \E v \in Values : InjectListEntry(t, v)
  <2>1. PICK v \in Values : InjectListEntry(t, v)
    BY <1>6
  <2> WITNESS v \in Values \union {Null}
  <2> QED BY <1>3, <2>1
<1> QED BY <1>4, <1>5, <1>6 DEF Local

(* ClockInv holds in every reachable state. *)
THEOREM ClockInvariant == Spec => []ClockInv
<1>1. Init => ClockInv
  BY DEF Init, ClockInv
<1>2. TypeOK /\ ClockInv /\ [Next]_vars => ClockInv'
  <2> SUFFICES ASSUME TypeOK, ClockInv, [Next]_vars
               PROVE  ClockInv'
    OBVIOUS
  <2> USE DEF vars, localVars, subVars, listVars
  <2>1. ASSUME NEW t \in Trees, Local(t)
        PROVE  ClockInv'
    <3>1. PICK value \in Values \union {Null} :
           /\ Written(t, value)
           /\ cache' = cache \/ cache' = [cache EXCEPT ![t] = [value |-> value, at |-> clock]]
           /\ subAt' = subAt \/ subAt' = [subAt EXCEPT ![t] = clock]
           /\ \/ relay' = relay
              \/ relay' = relay \union {[tree |-> t, value |-> value, at |-> clock]}
              \/ value = Null /\ relay' = relay \union {[tree |-> t, value |-> Null, at |-> clock + 1]}
           /\ UNCHANGED clock
      BY <2>1, LocalEffects
    <3>2. \A e \in relay' : e.at <= clock + 1 /\ (e.value # Null => e.at <= clock)
      BY <3>1 DEF ClockInv, TypeOK
    <3>3. \A u \in Trees : cache'[u] # NoEntry => cache'[u].at <= clock
      BY <3>1 DEF ClockInv, TypeOK
    <3>4. \A u \in Trees : subAt'[u] <= clock
      BY <3>1 DEF ClockInv, TypeOK
    <3>5. listSeen' = listSeen /\ relay \subseteq relay'
      BY <3>1 DEF Written, SetListEntry
    <3>6. \A l \in Listeners, u \in Trees :
            entries'[l][u] # NoEntry /\ entries'[l][u].value # Null => entries'[l][u].at <= clock
      <4>1. CASE UNCHANGED listVars
        BY <3>1, <4>1 DEF ClockInv
      <4>2. CASE currentList # NoList /\ SetListEntry(t, value)
        <5> SUFFICES ASSUME NEW l \in Listeners, NEW u \in Trees,
                            entries'[l][u] # NoEntry, entries'[l][u].value # Null
                     PROVE  entries'[l][u].at <= clock
          OBVIOUS
        <5>1. CASE l = currentList /\ u = t
          <6>1. entries'[l][u] = [value |-> value, at |-> clock]
            BY <4>2, <5>1, WrittenEntries
          <6>2. entries'[l][u].at = clock /\ clock \in Nat
            BY <6>1 DEF TypeOK
          <6> QED BY <6>2
        <5>2. CASE l # currentList \/ u # t
          <6>1. entries'[l][u] = entries[l][u]
            BY <4>2, <5>2, WrittenEntries
          <6> QED BY <6>1 DEF ClockInv
        <5> QED BY <5>1, <5>2
      <4> QED BY <3>1, <4>1, <4>2 DEF Written
    <3> QED BY <3>1, <3>2, <3>3, <3>4, <3>5, <3>6 DEF ClockInv
  <2>2. ASSUME NEW t \in Trees, NEW v \in Values, RemotePublish(t, v)
        PROVE  ClockInv'
    BY <2>2 DEF RemotePublish, Send, ClockInv, TypeOK
  <2>3. ASSUME NEW t \in Trees, RemoteDelete(t)
        PROVE  ClockInv'
    BY <2>3 DEF RemoteDelete, DeletionTime, Send, ClockInv, TypeOK
  <2>4. ASSUME NEW s \in Subscribers, NEW t \in Trees, Subscribe(s, t)
        PROVE  ClockInv'
    <3>1. \A u \in Trees : subAt'[u] <= clock
      <4>1. CASE SubscribeJoin(s, t)
        BY <4>1 DEF SubscribeJoin, ClockInv
      <4>2. CASE SubscribeFirst(s, t)
        <5>1. clock \in Nat /\ subAt \in [Trees -> Nat]
          BY DEF TypeOK
        <5>2. PICK at : /\ subAt' = [subAt EXCEPT ![t] = at]
                        /\ at = IF cache[t] # NoEntry THEN cache[t].at ELSE 0
          BY <4>2 DEF SubscribeFirst
        <5>3. at <= clock
          BY <5>1, <5>2 DEF ClockInv
        <5> QED BY <5>1, <5>2, <5>3 DEF ClockInv
      <4> QED BY <2>4, <4>1, <4>2 DEF Subscribe
    <3> QED BY <2>4, <3>1 DEF Subscribe, ClockInv
  <2>5. ASSUME NEW e \in relay, SubscriptionEvent(e)
        PROVE  ClockInv'
    BY <2>5 DEF SubscriptionEvent, IsUpdate, ClockInv, TypeOK
  <2>6. ASSUME NEW l \in Listeners, List(l)
        PROVE  ClockInv'
    BY <2>6 DEF List, ListJoin, ListCreate, ClockInv, TypeOK
  <2>7. ASSUME NEW l \in Listeners, NEW e \in relay, ListEvent(l, e)
        PROVE  ClockInv'
    <3>1. \A k \in Listeners, t \in Trees :
            \/ entries'[k][t] = entries[k][t]
            \/ entries'[k][t] = [value |-> e.value, at |-> e.at]
      BY <2>7 DEF ListEvent, TypeOK
    <3>2. \A k \in Listeners, t \in Trees :
            entries'[k][t] # NoEntry /\ entries'[k][t].value # Null => entries'[k][t].at <= clock
      BY <3>1 DEF ClockInv
    <3>3. \A k \in Listeners : listSeen'[k] \subseteq relay
      BY <2>7 DEF ListEvent, ClockInv, TypeOK
    <3> QED BY <2>7, <3>2, <3>3 DEF ListEvent, ClockInv
  <2>8. CASE Tick
    <3>1. clock \in Nat /\ clock' = clock + 1
      BY <2>8 DEF Tick, TypeOK
    <3>2. \A e \in relay' : e.at \in Nat /\ e.at <= clock' + 1 /\ (e.value # Null => e.at <= clock')
      BY <2>8, <3>1 DEF Tick, ClockInv, TypeOK, Event
    <3>3. \A t \in Trees : cache'[t] # NoEntry => cache'[t].at <= clock'
      BY <2>8, <3>1 DEF Tick, ClockInv, TypeOK, Entry
    <3>4. \A t \in Trees : subAt'[t] <= clock'
      BY <2>8, <3>1 DEF Tick, ClockInv, TypeOK
    <3>5. \A l \in Listeners, t \in Trees :
            entries'[l][t] # NoEntry /\ entries'[l][t].value # Null => entries'[l][t].at <= clock'
      <4>1. \A l \in Listeners, t \in Trees : entries[l][t] # NoEntry => entries[l][t].at \in Nat
        BY DEF TypeOK, Entry
      <4> QED BY <2>8, <3>1, <4>1 DEF Tick, ClockInv
    <3> QED BY <2>8, <3>2, <3>3, <3>4, <3>5 DEF Tick, ClockInv
  <2>9. CASE \/ \E s \in Subscribers : Unsubscribe(s)
             \/ Stop
             \/ UNCHANGED vars
    <3>1. \A t \in Trees : subAt'[t] = 0 \/ subAt'[t] = subAt[t]
      BY <2>9 DEF Unsubscribe, Stop, TypeOK
    <3>2. UNCHANGED <<clock, relay, cache, entries, listSeen>>
      BY <2>9 DEF Unsubscribe, Stop
    <3>3. \A t \in Trees : subAt'[t] <= clock
      <4>1. clock \in Nat /\ \A t \in Trees : subAt[t] <= clock
        BY DEF ClockInv, TypeOK
      <4> QED BY <3>1, <4>1
    <3> QED BY <3>2, <3>3 DEF ClockInv
  <2>10. ASSUME NEW l \in Listeners, Unlist(l)
         PROVE  ClockInv'
    <3>1. \A k \in Listeners : listSeen'[k] = {} \/ listSeen'[k] = listSeen[k]
      BY <2>10 DEF Unlist, TypeOK
    <3>2. \A k \in Listeners, t \in Trees :
            entries'[k][t] = NoEntry \/ entries'[k][t] = entries[k][t]
      BY <2>10 DEF Unlist, TypeOK
    <3>3. UNCHANGED <<clock, relay, cache, subAt>>
      BY <2>10 DEF Unlist
    <3> QED BY <3>1, <3>2, <3>3 DEF ClockInv
  <2> QED BY <2>1, <2>2, <2>3, <2>4, <2>5, <2>6, <2>7, <2>8, <2>9, <2>10 DEF Next
<1> QED BY <1>1, <1>2, ResolverTypeCorrect, PTL DEF Spec

-----------------------------------------------------------------------------
(* Events and roots kept are never forgotten, so what is known stays known. *)
LEMMA KnownGrows ==
  ASSUME relay \subseteq relay', unsent \subseteq unsent'
  PROVE  /\ \A t, value, at : KnownAs(t, value, at) => KnownAs(t, value, at)'
         /\ \A d : PublishedBefore(d) => PublishedBefore(d)'
BY DEF Known, KnownAs, PublishedBefore

(* A local operation makes known what it writes, and dates it now. *)
LEMMA LocalKnown ==
  ASSUME TypeOK, NEW t \in Trees, Local(t)
  PROVE  \E value \in Values \union {Null} :
           /\ relay \subseteq relay' /\ unsent \subseteq unsent'
           /\ KnownAs(t, value, clock)'
           /\ cache' = cache \/ cache' = [cache EXCEPT ![t] = [value |-> value, at |-> clock]]
           /\ \/ UNCHANGED <<subValue, subAt>>
              \/ /\ subValue' = [subValue EXCEPT ![t] = value]
                 /\ subAt' = [subAt EXCEPT ![t] = clock]
           /\ UNCHANGED <<clock, subSeen>>
<1>0. clock \in Nat
  BY DEF TypeOK
<1>1. ASSUME NEW v \in Values, NEW skip \in BOOLEAN, Publish(t, v, skip)
      PROVE  /\ relay \subseteq relay' /\ unsent \subseteq unsent'
             /\ [tree |-> t, value |-> v, at |-> clock] \in relay' \union unsent'
             /\ cache' = [cache EXCEPT ![t] = [value |-> v, at |-> clock]]
             /\ SetSubscription(t, v) /\ UNCHANGED clock
  BY <1>1 DEF Publish, Send, Keep
<1>2. ASSUME Delete(t)
      PROVE  /\ relay \subseteq relay' /\ unsent \subseteq unsent'
             /\ [tree |-> t, value |-> Null, at |-> clock + 1] \in relay' \union unsent'
             /\ cache' = [cache EXCEPT ![t] = [value |-> Null, at |-> clock]]
             /\ SetSubscription(t, Null) /\ UNCHANGED clock
  BY <1>2 DEF Delete, DeletionTime, Send
<1>3. ASSUME NEW v \in Values, InjectListEntry(t, v)
      PROVE  /\ relay \subseteq relay' /\ unsent \subseteq unsent'
             /\ [tree |-> t, value |-> v, at |-> clock] \in relay' \union unsent'
             /\ cache' = cache \/ cache' = [cache EXCEPT ![t] = [value |-> v, at |-> clock]]
             /\ UNCHANGED <<clock, subVars>>
  BY <1>3 DEF InjectListEntry, Keep
<1>4. ASSUME NEW value, NEW at \in Nat, at >= clock, value = Null \/ at = clock, clock' = clock,
             [tree |-> t, value |-> value, at |-> at] \in relay' \union unsent'
      PROVE  KnownAs(t, value, clock)'
  <2> DEFINE root == [tree |-> t, value |-> value, at |-> at]
  <2>1. /\ root \in Known' /\ root.tree = t /\ root.value = value
        /\ root.at = clock' \/ (value = Null /\ root.at >= clock')
    BY <1>4 DEF Known
  <2> HIDE DEF root
  <2> QED BY <2>1 DEF KnownAs
<1>5. ASSUME NEW v \in Values, NEW skip \in BOOLEAN, Publish(t, v, skip)
      PROVE  KnownAs(t, v, clock)'
  <2>1. clock' = clock /\ [tree |-> t, value |-> v, at |-> clock] \in relay' \union unsent'
    BY <1>1, <1>5
  <2>2. clock \in Nat /\ clock >= clock
    BY <1>0
  <2> QED BY <1>4, <2>1, <2>2
<1>6. Delete(t) => KnownAs(t, Null, clock)'
  BY <1>0, <1>2, <1>4
<1>7. ASSUME NEW v \in Values, InjectListEntry(t, v)
      PROVE  KnownAs(t, v, clock)'
  <2>1. clock' = clock /\ [tree |-> t, value |-> v, at |-> clock] \in relay' \union unsent'
    BY <1>3, <1>7 DEF subVars
  <2>2. clock \in Nat /\ clock >= clock
    BY <1>0
  <2> QED BY <1>4, <2>1, <2>2
<1>8. CASE \E v \in Values, skip \in BOOLEAN : Publish(t, v, skip)
  <2>1. PICK v \in Values, skip \in BOOLEAN : Publish(t, v, skip)
    BY <1>8
  <2> WITNESS v \in Values \union {Null}
  <2> QED BY <1>1, <1>5, <2>1 DEF SetSubscription, subVars
<1>9. CASE Delete(t)
  <2> WITNESS Null \in Values \union {Null}
  <2> QED BY <1>2, <1>6, <1>9 DEF SetSubscription, subVars
<1>10. CASE \E v \in Values : InjectListEntry(t, v)
  <2>1. PICK v \in Values : InjectListEntry(t, v)
    BY <1>10
  <2> WITNESS v \in Values \union {Null}
  <2> QED BY <1>3, <1>7, <2>1 DEF subVars
<1> QED BY <1>8, <1>9, <1>10 DEF Local

(* ShownInv holds in every reachable state. *)
THEOREM ShownInvariant == Spec => []ShownInv
<1>1. Init => ShownInv
  BY DEF Init, ShownInv
<1>2. TypeOK /\ ClockInv /\ ShownInv /\ [Next]_vars => ShownInv'
  <2> SUFFICES ASSUME TypeOK, ClockInv, ShownInv, [Next]_vars
               PROVE  ShownInv'
    OBVIOUS
  <2>0. /\ clock \in Nat /\ \A t \in Trees : subAt[t] \in Nat /\ subAt[t] <= clock
        /\ relay \subseteq Event /\ subSeen \in [Trees -> SUBSET Event]
    BY DEF TypeOK, ClockInv
  <2>1. relay \subseteq relay' /\ unsent \subseteq unsent'
    <3>1. ASSUME NEW t \in Trees, Local(t)
          PROVE  relay \subseteq relay' /\ unsent \subseteq unsent'
      BY <3>1, LocalKnown
    <3>2. CASE \/ \E t \in Trees : RemoteDelete(t)
               \/ \E t \in Trees, v \in Values : RemotePublish(t, v)
      BY <3>2 DEF RemoteDelete, RemotePublish, Send, localVars
    <3>3. CASE UNCHANGED <<relay, unsent>>
      BY <3>3
    <3>4. CASE \/ \E s \in Subscribers, t \in Trees : Subscribe(s, t)
               \/ \E s \in Subscribers : Unsubscribe(s)
               \/ \E e \in relay : SubscriptionEvent(e)
               \/ \E l \in Listeners : List(l) \/ Unlist(l)
               \/ \E l \in Listeners, e \in relay : ListEvent(l, e)
               \/ Stop \/ Tick \/ UNCHANGED vars
      BY <3>3, <3>4 DEF Subscribe, Unsubscribe, SubscriptionEvent, List, Unlist, ListEvent,
                        Stop, Tick, vars, localVars
    <3> QED BY <3>1, <3>2, <3>4 DEF Next
  <2>2. /\ \A t, value, at : KnownAs(t, value, at) => KnownAs(t, value, at)'
        /\ \A d : PublishedBefore(d) => PublishedBefore(d)'
    BY <2>1, KnownGrows
  <2>3. CASE UNCHANGED <<cache, subValue, subAt, subSeen>>
    BY <2>2, <2>3 DEF ShownInv
  <2>4. ASSUME NEW t \in Trees, Local(t)
        PROVE  ShownInv'
    <3>1. PICK value \in Values \union {Null} :
            /\ KnownAs(t, value, clock)'
            /\ cache' = cache \/ cache' = [cache EXCEPT ![t] = [value |-> value, at |-> clock]]
            /\ \/ UNCHANGED <<subValue, subAt>>
               \/ /\ subValue' = [subValue EXCEPT ![t] = value]
                  /\ subAt' = [subAt EXCEPT ![t] = clock]
            /\ UNCHANGED <<clock, subSeen>>
      BY <2>4, LocalKnown
    <3>2. \A u \in Trees : cache'[u] # NoEntry => KnownAs(u, cache[u].value, cache[u].at)'
      <4> SUFFICES ASSUME NEW u \in Trees, cache'[u] # NoEntry
                   PROVE  KnownAs(u, cache[u].value, cache[u].at)'
        OBVIOUS
      <4>1. CASE cache'[u] = cache[u]
        BY <2>2, <4>1 DEF ShownInv
      <4>2. CASE cache'[u] # cache[u]
        <5>1. u = t /\ cache'[u] = [value |-> value, at |-> clock]
          BY <3>1, <4>2 DEF TypeOK
        <5>2. cache'[u].value = value /\ cache'[u].at = clock'
          BY <3>1, <5>1
        <5> QED BY <3>1, <5>1, <5>2 DEF KnownAs
      <4> QED BY <4>1, <4>2
    <3>3. ASSUME NEW u \in Trees
          PROVE  /\ subAt'[u] >= subAt[u]
                 /\ \/ KnownAs(u, subValue[u], subAt[u])'
                    \/ subValue'[u] = Null /\ subAt'[u] = 0 /\ \A d \in subSeen'[u] : d.value = Null
      <4>1. CASE UNCHANGED <<subValue, subAt>>
        BY <2>0, <2>2, <3>1, <4>1 DEF ShownInv
      <4>2. CASE /\ subValue' = [subValue EXCEPT ![t] = value]
                 /\ subAt' = [subAt EXCEPT ![t] = clock]
        <5>1. CASE u = t
          <6>1. subValue'[u] = value /\ subAt'[u] = clock /\ clock' = clock
            BY <3>1, <4>2, <5>1 DEF TypeOK
          <6> QED BY <2>0, <3>1, <5>1, <6>1 DEF KnownAs
        <5>2. CASE u # t
          <6>1. subValue'[u] = subValue[u] /\ subAt'[u] = subAt[u]
            BY <4>2, <5>2 DEF TypeOK
          <6> QED BY <2>0, <2>2, <3>1, <6>1 DEF ShownInv
        <5> QED BY <5>1, <5>2
      <4> QED BY <3>1, <4>1, <4>2
    <3>4. \A u \in Trees : \A d \in subSeen'[u] :
            d.value # Null => d.tree = u /\ (subAt'[u] >= d.at \/ PublishedBefore(d)')
      <4> SUFFICES ASSUME NEW u \in Trees, NEW d \in subSeen[u], d.value # Null
                   PROVE  d.tree = u /\ (subAt'[u] >= d.at \/ PublishedBefore(d)')
        BY <3>1
      <4>1. d.tree = u /\ (subAt[u] >= d.at \/ PublishedBefore(d))
        BY DEF ShownInv
      <4>2. d.at \in Nat /\ subAt[u] \in Nat /\ subAt'[u] >= subAt[u] /\ subAt'[u] \in Nat
        BY <2>0, <3>1, <3>3 DEF Event, TypeOK
      <4> QED BY <2>2, <4>1, <4>2
    <3> QED BY <3>2, <3>3, <3>4 DEF ShownInv
  <2>5. ASSUME NEW s \in Subscribers, NEW t \in Trees, Subscribe(s, t)
        PROVE  ShownInv'
    <3>1. CASE SubscribeJoin(s, t)
      BY <2>3, <2>5, <3>1 DEF Subscribe, SubscribeJoin, localVars
    <3>2. CASE SubscribeFirst(s, t)
      <4>1. PICK value, at :
              /\ subValue' = [subValue EXCEPT ![t] = value]
              /\ subAt' = [subAt EXCEPT ![t] = at]
              /\ IF cache[t] # NoEntry THEN value = cache[t].value /\ at = cache[t].at
                                       ELSE value = Null /\ at = 0
        BY <3>2 DEF SubscribeFirst
      <4>2. cache' = cache /\ subSeen' = [subSeen EXCEPT ![t] = {}]
        BY <2>5, <3>2 DEF Subscribe, SubscribeFirst, localVars
      <4>3. subValue'[t] = value /\ subAt'[t] = at /\ subSeen'[t] = {}
        BY <4>1, <4>2 DEF TypeOK
      <4>4. KnownAs(t, value, at)' \/ (value = Null /\ at = 0)
        <5>1. cache[t] # NoEntry => KnownAs(t, cache[t].value, cache[t].at)
          BY DEF ShownInv
        <5>2. CASE cache[t] # NoEntry
          <6>1. KnownAs(t, value, at)
            BY <4>1, <5>1, <5>2
          <6> QED BY <2>2, <6>1
        <5>3. CASE cache[t] = NoEntry
          BY <4>1, <5>3
        <5> QED BY <5>2, <5>3
      <4>5. \A u \in Trees : u # t =>
              subValue'[u] = subValue[u] /\ subAt'[u] = subAt[u] /\ subSeen'[u] = subSeen[u]
        BY <4>1, <4>2 DEF TypeOK
      <4> QED BY <2>2, <4>2, <4>3, <4>4, <4>5 DEF ShownInv
    <3> QED BY <2>5, <3>1, <3>2 DEF Subscribe
  <2>6. CASE (\E s \in Subscribers : Unsubscribe(s)) \/ Stop
    <3>1. \A t \in Trees :
            \/ subValue'[t] = subValue[t] /\ subAt'[t] = subAt[t] /\ subSeen'[t] = subSeen[t]
            \/ subValue'[t] = Null /\ subAt'[t] = 0 /\ subSeen'[t] = {}
      BY <2>6 DEF Unsubscribe, Stop, TypeOK
    <3>2. cache' = cache
      BY <2>6 DEF Unsubscribe, Stop, localVars
    <3> QED BY <2>2, <3>1, <3>2 DEF ShownInv
  <2>7. ASSUME NEW e \in relay, SubscriptionEvent(e)
        PROVE  ShownInv'
    <3> DEFINE t == e.tree
    <3>0. t \in Trees /\ e.at \in Nat /\ cache' = cache /\ relay' = relay
      BY <2>0, <2>7 DEF SubscriptionEvent, localVars, Event
    <3>1. subSeen' = [subSeen EXCEPT ![t] = @ \union {e}]
      BY <2>7 DEF SubscriptionEvent
    <3>2. CASE IsUpdate(e)
      <4>1. /\ subValue' = [subValue EXCEPT ![t] = e.value] /\ subAt' = [subAt EXCEPT ![t] = e.at]
            /\ e.at >= subAt[t]
        BY <2>7, <3>2 DEF SubscriptionEvent, IsUpdate
      <4>2. KnownAs(t, e.value, e.at)'
        <5>1. e \in Known' /\ e.tree = t
          BY <3>0 DEF Known
        <5>2. e.at = e.at
          OBVIOUS
        <5> HIDE DEF t
        <5> QED BY <5>1, <5>2 DEF KnownAs
      <4> HIDE DEF t
      <4>3. \A u \in Trees : u # t =>
              subValue'[u] = subValue[u] /\ subAt'[u] = subAt[u] /\ subSeen'[u] = subSeen[u]
        BY <3>1, <4>1 DEF TypeOK
      <4>4. subValue'[t] = e.value /\ subAt'[t] = e.at /\ subSeen'[t] = subSeen[t] \union {e}
        BY <2>0, <3>0, <3>1, <4>1 DEF TypeOK
      <4>5. \A d \in subSeen'[t] : d.value # Null =>
              d.tree = t /\ (subAt'[t] >= d.at \/ PublishedBefore(d)')
        <5> SUFFICES ASSUME NEW d \in subSeen'[t], d.value # Null
                     PROVE  d.tree = t /\ (subAt'[t] >= d.at \/ PublishedBefore(d)')
          OBVIOUS
        <5>1. CASE d = e
          BY <2>0, <3>0, <4>4, <5>1 DEF t
        <5>2. CASE d \in subSeen[t]
          <6>1. d.tree = t /\ (subAt[t] >= d.at \/ PublishedBefore(d)) /\ d.at \in Nat
            BY <2>0, <3>0, <5>2 DEF ShownInv, Event
          <6>2. subAt[t] \in Nat /\ subAt'[t] >= subAt[t] /\ subAt'[t] \in Nat
            BY <2>0, <3>0, <4>1, <4>4
          <6> QED BY <2>2, <6>1, <6>2
        <5> QED BY <4>4, <5>1, <5>2
      <4>6. \A u \in Trees :
              \/ KnownAs(u, subValue[u], subAt[u])'
              \/ subValue'[u] = Null /\ subAt'[u] = 0 /\ \A d \in subSeen'[u] : d.value = Null
        <5>1. KnownAs(t, subValue[t], subAt[t])'
          BY <4>2, <4>4 DEF KnownAs
        <5> QED BY <2>2, <4>3, <5>1 DEF ShownInv
      <4> QED BY <2>2, <3>0, <4>3, <4>5, <4>6 DEF ShownInv
    <3>3. CASE ~IsUpdate(e)
      <4>1. UNCHANGED <<subValue, subAt>>
        BY <2>7, <3>3 DEF SubscriptionEvent
      <4>2. e.value = Null \/ e.at < subAt[t] \/ e.value = subValue[t]
        BY <2>0, <3>0, <3>3 DEF IsUpdate
      <4>3. \/ KnownAs(t, subValue[t], subAt[t])
            \/ subValue[t] = Null /\ subAt[t] = 0 /\ \A d \in subSeen[t] : d.value = Null
        BY <3>0 DEF ShownInv
      <4>4. e.value # Null => subAt[t] >= e.at \/ PublishedBefore(e)
        <5> SUFFICES ASSUME e.value # Null, subAt[t] < e.at
                     PROVE  PublishedBefore(e)
          BY <2>0, <3>0
        <5>1. e.value = subValue[t] /\ KnownAs(t, e.value, subAt[t])
          BY <2>0, <3>0, <4>2, <4>3
        <5> QED BY <5>1 DEF KnownAs, PublishedBefore
      <4>5. subAt[t] = 0 /\ subValue[t] = Null => e.value = Null
        BY <3>0, <4>2
      <4>6. \A u \in Trees : \A d \in subSeen'[u] : d \in subSeen[u] \/ (d = e /\ u = t)
        BY <2>0, <3>0, <3>1
      <4> HIDE DEF t
      <4>7. \A u \in Trees :
              \/ KnownAs(u, subValue[u], subAt[u])'
              \/ subValue'[u] = Null /\ subAt'[u] = 0 /\ \A d \in subSeen'[u] : d.value = Null
        <5> SUFFICES ASSUME NEW u \in Trees, ~KnownAs(u, subValue[u], subAt[u])
                     PROVE  /\ subValue[u] = Null /\ subAt[u] = 0
                            /\ \A d \in subSeen'[u] : d.value = Null
          BY <2>2, <4>1
        <5>1. subValue[u] = Null /\ subAt[u] = 0 /\ \A d \in subSeen[u] : d.value = Null
          BY DEF ShownInv
        <5> QED BY <4>5, <4>6, <5>1
      <4>8. \A u \in Trees : \A d \in subSeen'[u] : d.value # Null =>
              d.tree = u /\ (subAt'[u] >= d.at \/ PublishedBefore(d)')
        <5> SUFFICES ASSUME NEW u \in Trees, NEW d \in subSeen'[u], d.value # Null
                     PROVE  d.tree = u /\ (subAt[u] >= d.at \/ PublishedBefore(d))
          BY <2>2, <4>1
        <5>1. CASE d = e /\ u = t
          BY <4>4, <5>1 DEF t
        <5>2. CASE d \in subSeen[u]
          BY <5>2 DEF ShownInv
        <5> QED BY <4>6, <5>1, <5>2
      <4> QED BY <2>2, <3>0, <4>7, <4>8 DEF ShownInv
    <3> QED BY <3>2, <3>3
  <2>8. CASE \/ \E t \in Trees : RemoteDelete(t)
             \/ \E t \in Trees, v \in Values : RemotePublish(t, v)
             \/ \E l \in Listeners : List(l) \/ Unlist(l)
             \/ \E l \in Listeners, e \in relay : ListEvent(l, e)
             \/ Tick \/ UNCHANGED vars
    BY <2>3, <2>8 DEF RemoteDelete, RemotePublish, List, Unlist, ListEvent, Tick,
                      vars, localVars, subVars
  <2> QED BY <2>4, <2>5, <2>6, <2>7, <2>8 DEF Next
<1> QED BY <1>1, <1>2, ResolverTypeCorrect, ClockInvariant, PTL DEF Spec

(* No root shown is older than one a relay delivered, unless that one had    *)
(* been published before.                                                   *)
THEOREM NewestRootsShown == Spec => []NewerRootsWin
<1>1. TypeOK /\ ShownInv => NewerRootsWin
  <2> SUFFICES ASSUME TypeOK, ShownInv, NEW t \in Trees, NEW d \in subSeen[t], d.value # Null,
                      ~PublishedBefore(d)
               PROVE  \E e \in Known : e.tree = t /\ e.value = subValue[t] /\ e.at >= d.at
    BY DEF NewerRootsWin
  <2>1. subAt[t] >= d.at /\ KnownAs(t, subValue[t], subAt[t])
    BY DEF ShownInv
  <2>2. PICK e \in Known : /\ e.tree = t /\ e.value = subValue[t]
                           /\ e.at = subAt[t] \/ e.at >= subAt[t]
    BY <2>1 DEF KnownAs
  <2>3. e.at \in Nat /\ d.at \in Nat /\ subAt[t] \in Nat
    BY DEF TypeOK, Known, Event
  <2>4. e.at >= d.at
    BY <2>1, <2>2, <2>3
  <2> QED BY <2>2, <2>4
<1> QED BY <1>1, ResolverTypeCorrect, ShownInvariant, PTL

-----------------------------------------------------------------------------
(* The callbacks of a tree are called with every value it gets. *)
LEMMA SetSubscriptionKeeps ==
  ASSUME TypeOK, SubscribersUpToDate, NEW t \in Trees, NEW value, SetSubscription(t, value)
  PROVE  SubscribersUpToDate'
<1>1. CASE Subscribed(t)
  <2>1. /\ subValue' = [subValue EXCEPT ![t] = value] /\ UNCHANGED subTree
        /\ told' = [s \in Subscribers |-> IF subTree[s] = t THEN value ELSE told[s]]
    BY <1>1 DEF SetSubscription, TellSubscribers
  <2> QED BY <2>1, EntriesAssumption DEF SubscribersUpToDate, TypeOK
<1>2. CASE ~Subscribed(t)
  BY <1>2 DEF SetSubscription, subVars, SubscribersUpToDate
<1> QED BY <1>1, <1>2

(* Every subscriber was last told what the resolver holds. *)
THEOREM SubscribersTold == Spec => []SubscribersUpToDate
<1>1. Init => SubscribersUpToDate
  BY DEF Init, SubscribersUpToDate
<1>2. TypeOK /\ SubscribersUpToDate /\ [Next]_vars => SubscribersUpToDate'
  <2> SUFFICES ASSUME TypeOK, SubscribersUpToDate, [Next]_vars
               PROVE  SubscribersUpToDate'
    OBVIOUS
  <2> USE DEF vars, localVars, subVars
  <2>1. CASE UNCHANGED subVars
    BY <2>1 DEF SubscribersUpToDate
  <2>2. ASSUME NEW t \in Trees, Local(t)
        PROVE  SubscribersUpToDate'
    <3>1. (\E value : SetSubscription(t, value)) \/ UNCHANGED subVars
      BY <2>2 DEF Local, Publish, Delete, InjectListEntry
    <3> QED BY <2>1, <3>1, SetSubscriptionKeeps
  <2>3. ASSUME NEW s \in Subscribers, NEW t \in Trees, Subscribe(s, t)
        PROVE  SubscribersUpToDate'
    <3>1. subTree' = [subTree EXCEPT ![s] = t] /\ t # NoEntry
      BY <2>3, EntriesAssumption DEF Subscribe
    <3>2. CASE SubscribeJoin(s, t)
      BY <3>1, <3>2 DEF SubscribeJoin, SubscribersUpToDate, TypeOK
    <3>3. CASE SubscribeFirst(s, t)
      <4>1. PICK value : /\ subValue' = [subValue EXCEPT ![t] = value]
                         /\ told' = [told EXCEPT ![s] = IF value # Null THEN value ELSE Nothing]
        BY <3>3 DEF SubscribeFirst
      <4>2. \A r \in Subscribers : subTree[r] # t
        BY <3>3 DEF SubscribeFirst, Subscribed, SubscribersOf
      <4> QED BY <3>1, <4>1, <4>2 DEF SubscribersUpToDate, TypeOK
    <3> QED BY <2>3, <3>2, <3>3 DEF Subscribe
  <2>4. ASSUME NEW s \in Subscribers, Unsubscribe(s)
        PROVE  SubscribersUpToDate'
    <3> SUFFICES ASSUME NEW r \in Subscribers, subTree'[r] # NoEntry
                 PROVE  \/ told'[r] = subValue'[subTree'[r]]
                        \/ told'[r] = Nothing /\ subValue'[subTree'[r]] = Null
      BY DEF SubscribersUpToDate
    <3>1. r # s /\ subTree'[r] = subTree[r] /\ told'[r] = told[r] /\ subTree[r] \in Trees
      BY <2>4 DEF Unsubscribe, TypeOK
    <3>2. subValue'[subTree[r]] = subValue[subTree[r]]
      <4>1. CASE SubscribersOf(subTree[s]) = {s}
        <5>1. subTree[r] # subTree[s]
          BY <3>1, <4>1 DEF SubscribersOf
        <5>2. subValue' = [subValue EXCEPT ![subTree[s]] = Null]
          BY <2>4, <4>1 DEF Unsubscribe
        <5> QED BY <3>1, <5>1, <5>2 DEF TypeOK
      <4>2. CASE SubscribersOf(subTree[s]) # {s}
        BY <2>4, <4>2 DEF Unsubscribe
      <4> QED BY <4>1, <4>2
    <3> QED BY <3>1, <3>2 DEF SubscribersUpToDate
  <2>5. ASSUME NEW e \in relay, SubscriptionEvent(e)
        PROVE  SubscribersUpToDate'
    <3>1. CASE IsUpdate(e)
      <4>1. /\ subValue' = [subValue EXCEPT ![e.tree] = e.value] /\ UNCHANGED subTree
            /\ told' = [s \in Subscribers |-> IF subTree[s] = e.tree THEN e.value ELSE told[s]]
        BY <2>5, <3>1 DEF SubscriptionEvent, TellSubscribers
      <4> QED BY <4>1 DEF SubscribersUpToDate, TypeOK
    <3>2. CASE ~IsUpdate(e)
      BY <2>5, <3>2 DEF SubscriptionEvent, SubscribersUpToDate
    <3> QED BY <3>1, <3>2
  <2>6. CASE Stop
    BY <2>6 DEF Stop, SubscribersUpToDate
  <2>7. CASE \/ \E t \in Trees : RemoteDelete(t)
             \/ \E t \in Trees, v \in Values : RemotePublish(t, v)
             \/ \E l \in Listeners : List(l) \/ Unlist(l)
             \/ \E l \in Listeners, e \in relay : ListEvent(l, e)
             \/ Tick
             \/ UNCHANGED vars
    BY <2>1, <2>7 DEF RemoteDelete, RemotePublish, List, Unlist, ListEvent, Tick
  <2> QED BY <2>2, <2>3, <2>4, <2>5, <2>6, <2>7 DEF Next
<1> QED BY <1>1, <1>2, ResolverTypeCorrect, PTL DEF Spec

-----------------------------------------------------------------------------
(* Writing entries of one list subscription and calling its callbacks. *)
LEMMA EmitKeeps ==
  ASSUME TypeOK, ListenerInv, NEW l \in Listeners, joined[l] # NoList,
         NEW ent, entries' = [entries EXCEPT ![l] = ent], EmitList(l, ent),
         UNCHANGED <<currentList, callbacks, open, joined>>,
         \A k \in Listeners : k # l => listSeen'[k] = listSeen[k]
  PROVE  ListenerInv'
<1> USE DEF ListenerInv, EmitList, TypeOK
<1>1. \A k \in callbacks[l] : joined[k] = l /\ l # NoList
  BY EntriesAssumption
<1>2. (\A k \in Listeners : joined[k] = NoList =>
         k \notin open /\ listSeen[k] = {} /\ shown[k] = Nothing)'
  BY <1>1
<1>3. RegisteredListIsLive'
  BY DEF RegisteredListIsLive
<1>4. ListenersUpToDate'
  <2> SUFFICES ASSUME NEW m \in open, NEW k \in callbacks[m]
               PROVE  \/ shown'[k] = View(entries'[m])
                      \/ shown'[k] = Nothing /\ \A t \in Trees : entries'[m][t] = NoEntry
    BY DEF ListenersUpToDate
  <2>1. CASE m = l
    BY <2>1
  <2>2. CASE m # l
    <3>1. k \notin callbacks[l]
      BY <2>2
    <3>2. shown'[k] = shown[k] /\ entries'[m] = entries[m]
      BY <2>2, <3>1
    <3> QED BY <3>2 DEF ListenersUpToDate
  <2> QED BY <2>1, <2>2
<1> QED BY <1>2, <1>3, <1>4

(* ListenerInv holds in every reachable state. *)
THEOREM ListenerInvariant == Spec => []ListenerInv
<1>1. Init => ListenerInv
  BY DEF Init, ListenerInv, RegisteredListIsLive, ListenersUpToDate
<1>2. TypeOK /\ ListenerInv /\ [Next]_vars => ListenerInv'
  <2> SUFFICES ASSUME TypeOK, ListenerInv, [Next]_vars
               PROVE  ListenerInv'
    OBVIOUS
  <2>1. CASE UNCHANGED listVars
    BY <2>1 DEF listVars, ListenerInv, RegisteredListIsLive, ListenersUpToDate
  <2>2. ASSUME NEW t \in Trees, Local(t)
        PROVE  ListenerInv'
    <3>1. PICK value : Written(t, value)
      BY <2>2, LocalEffects
    <3>2. CASE currentList # NoList /\ SetListEntry(t, value)
      <4>1. currentList \in Listeners /\ joined[currentList] # NoList
        BY <3>2 DEF TypeOK, ListenerInv, RegisteredListIsLive
      <4> QED BY <3>2, <4>1, EmitKeeps DEF SetListEntry
    <3> QED BY <2>1, <3>1, <3>2 DEF Written
  <2>3. ASSUME NEW l \in Listeners, List(l)
        PROVE  ListenerInv'
    <3> USE <2>3 DEF List, ListenerInv, TypeOK
    <3>1. CASE ListJoin(l)
      <4> USE <3>1 DEF ListJoin
      <4>1. \A m \in Listeners : l \notin callbacks[m]
        OBVIOUS
      <4>2. (\A m \in Listeners : \A k \in callbacks[m] : joined[k] = m)'
        BY <4>1
      <4>3. (\A k \in Listeners : joined[k] = NoList =>
               k \notin open /\ listSeen[k] = {} /\ shown[k] = Nothing)'
        OBVIOUS
      <4>4. RegisteredListIsLive'
        BY DEF RegisteredListIsLive
      <4>5. ListenersUpToDate'
        BY <4>1 DEF ListenersUpToDate
      <4> QED BY <4>2, <4>3, <4>4, <4>5
    <3>2. CASE ListCreate(l)
      <4> USE <3>2 DEF ListCreate
      <4>1. \A m \in Listeners : l \notin callbacks[m]
        BY EntriesAssumption
      <4>2. (\A m \in Listeners : \A k \in callbacks[m] : joined[k] = m)'
        BY <4>1
      <4>3. (\A k \in Listeners : joined[k] = NoList =>
               k \notin open /\ listSeen[k] = {} /\ shown[k] = Nothing)'
        BY EntriesAssumption
      <4>4. RegisteredListIsLive'
        BY DEF RegisteredListIsLive
      <4>5. ListenersUpToDate'
        <5> SUFFICES ASSUME NEW m \in open', NEW k \in callbacks'[m]
                     PROVE  \/ shown'[k] = View(entries'[m])
                            \/ shown'[k] = Nothing /\ \A t \in Trees : entries'[m][t] = NoEntry
          BY DEF ListenersUpToDate
        <5>1. CASE m = l
          <6>1. k = l /\ entries'[m] = cache /\ shown[l] = Nothing
            BY <5>1
          <6>2. shown'[l] = IF \E t \in Trees : cache[t] # NoEntry THEN View(cache) ELSE Nothing
            BY <6>1
          <6> QED BY <6>1, <6>2
        <5>2. CASE m # l
          <6>1. m \in open /\ k \in callbacks[m] /\ k # l
            BY <4>1, <5>2
          <6>2. shown'[k] = shown[k] /\ entries'[m] = entries[m]
            BY <5>2, <6>1
          <6> QED BY <6>1, <6>2 DEF ListenersUpToDate
        <5> QED BY <5>1, <5>2
      <4> QED BY <4>2, <4>3, <4>4, <4>5
    <3> QED BY <3>1, <3>2
  <2>4. ASSUME NEW l \in Listeners, Unlist(l)
        PROVE  ListenerInv'
    <3> USE <2>4 DEF Unlist, IsLastCallback, ListenerInv, TypeOK
    <3>1. (\A m \in Listeners : \A k \in callbacks[m] : joined[k] = m)'
      OBVIOUS
    <3>2. (\A k \in Listeners : joined[k] = NoList =>
             k \notin open /\ listSeen[k] = {} /\ shown[k] = Nothing)'
      <4> SUFFICES ASSUME NEW k \in Listeners, joined[k] = NoList
                   PROVE  k \notin open' /\ listSeen'[k] = {} /\ shown'[k] = Nothing
        OBVIOUS
      <4>1. k \notin open /\ listSeen[k] = {} /\ shown[k] = Nothing
        OBVIOUS
      <4>2. open' \subseteq open
        OBVIOUS
      <4>3. listSeen'[k] = {}
        BY <4>1
      <4>4. shown'[k] = Nothing
        BY <4>1
      <4> QED BY <4>1, <4>2, <4>3, <4>4
    <3>3. RegisteredListIsLive'
      BY DEF RegisteredListIsLive
    <3>4. ListenersUpToDate'
      BY DEF ListenersUpToDate
    <3> QED BY <3>1, <3>2, <3>3, <3>4
  <2>5. ASSUME NEW l \in Listeners, NEW e \in relay, ListEvent(l, e)
        PROVE  ListenerInv'
    <3> DEFINE ent == [entries[l] EXCEPT ![e.tree] = [value |-> e.value, at |-> e.at]]
    <3>1. l \in open /\ joined[l] # NoList
      BY <2>5 DEF ListEvent, ListenerInv
    <3>2. /\ UNCHANGED <<currentList, callbacks, open, joined>>
          /\ \A k \in Listeners : k # l => listSeen'[k] = listSeen[k]
      BY <2>5 DEF ListEvent, TypeOK
    <3>3. CASE Supersedes(e, entries[l][e.tree])
      <4>1. entries' = [entries EXCEPT ![l] = ent] /\ EmitList(l, ent)
        BY <2>5, <3>3 DEF ListEvent
      <4> HIDE DEF ent
      <4> QED BY <3>1, <3>2, <4>1, EmitKeeps
    <3>4. CASE ~Supersedes(e, entries[l][e.tree])
      <4>1. UNCHANGED <<entries, shown>>
        BY <2>5, <3>4 DEF ListEvent
      <4> QED BY <3>1, <3>2, <4>1 DEF ListenerInv, RegisteredListIsLive, ListenersUpToDate
    <3> QED BY <3>3, <3>4
  <2>6. CASE Stop
    BY <2>6 DEF Stop, ListenerInv, RegisteredListIsLive, ListenersUpToDate
  <2>7. CASE \/ \E t \in Trees : RemoteDelete(t)
             \/ \E t \in Trees, v \in Values : RemotePublish(t, v)
             \/ \E s \in Subscribers, t \in Trees : Subscribe(s, t)
             \/ \E s \in Subscribers : Unsubscribe(s)
             \/ \E e \in relay : SubscriptionEvent(e)
             \/ Tick
             \/ UNCHANGED vars
    BY <2>1, <2>7 DEF RemoteDelete, RemotePublish, Subscribe, Unsubscribe, SubscriptionEvent, Tick, vars
  <2> QED BY <2>2, <2>3, <2>4, <2>5, <2>6, <2>7 DEF Next
<1> QED BY <1>1, <1>2, ResolverTypeCorrect, PTL DEF Spec

(* The registered list subscription is open and has callbacks. *)
THEOREM RegistrySound == Spec => []RegisteredListIsLive
<1>1. ListenerInv => RegisteredListIsLive
  BY DEF ListenerInv
<1> QED BY <1>1, ListenerInvariant, PTL

(* Listeners of an open list subscription were called with its entries. *)
THEOREM ListenersTold == Spec => []ListenersUpToDate
<1>1. ListenerInv => ListenersUpToDate
  BY DEF ListenerInv
<1> QED BY <1>1, ListenerInvariant, PTL

-----------------------------------------------------------------------------
(* The entry of the registered list keeps hiding a tree deleted here. *)
THEOREM HiddenInvariant == Spec => []HiddenInv
<1>1. Init => HiddenInv
  BY DEF Init, HiddenInv
<1>2. TypeOK /\ ClockInv /\ HiddenInv /\ [Next]_vars => HiddenInv'
  <2> SUFFICES ASSUME TypeOK, ClockInv, HiddenInv, [Next]_vars,
                      NEW u \in Trees, cache'[u] # NoEntry, cache'[u].value = Null,
                      currentList' # NoList
               PROVE  LET entry == entries'[currentList'][u] IN
                      /\ entry # NoEntry /\ entry.at >= cache'[u].at
                      /\ entry.value = Null \/ entry.at >= cache'[u].at + UndeleteWindow
    BY DEF HiddenInv
  <2> DEFINE Hides(entry, deleted) ==
               /\ entry # NoEntry /\ entry.at >= deleted.at
               /\ entry.value = Null \/ entry.at >= deleted.at + UndeleteWindow
  <2>a. /\ [value |-> Null, at |-> clock].at = clock /\ [value |-> Null, at |-> clock] # NoEntry
        /\ \A entry \in Entry : entry # NoEntry /\ entry.at \in Nat
        /\ clock \in Nat
    BY DEF Entry, TypeOK
  <2>1. CASE UNCHANGED <<cache, currentList, entries>>
    BY <2>1 DEF HiddenInv
  <2>2. ASSUME NEW t \in Trees, NEW v \in Values, NEW skip \in BOOLEAN, Publish(t, v, skip)
        PROVE  Hides(entries'[currentList'][u], cache'[u])
    <3>1. cache' = [cache EXCEPT ![t] = [value |-> v, at |-> clock]] /\ v # Null
      BY <2>2, ValuesAssumption DEF Publish
    <3>2. u # t /\ cache'[u] = cache[u]
      BY <3>1 DEF TypeOK
    <3>3. Written(t, v)
      BY <2>2 DEF Publish, PublishToList, Written
    <3>4. currentList' = currentList /\ entries'[currentList'][u] = entries[currentList][u]
      BY <3>2, <3>3, WrittenElsewhere DEF TypeOK
    <3> QED BY <3>2, <3>4 DEF HiddenInv
  <2>3. ASSUME NEW t \in Trees, Delete(t)
        PROVE  Hides(entries'[currentList'][u], cache'[u])
    <3>1. cache' = [cache EXCEPT ![t] = [value |-> Null, at |-> clock]]
      BY <2>3 DEF Delete
    <3>2. currentList' = currentList /\ currentList # NoList /\ SetListEntry(t, Null)
      BY <2>3 DEF Delete, SetListEntry, listVars
    <3>3. CASE u = t
      <4>1. entries'[currentList'][u] = [value |-> Null, at |-> clock] /\ cache'[u] = [value |-> Null, at |-> clock]
        BY <3>1, <3>2, <3>3, WrittenEntries DEF TypeOK
      <4>2. [value |-> Null, at |-> clock] \in Entry
        BY DEF Entry, TypeOK
      <4> QED BY <2>a, <4>1, <4>2
    <3>4. CASE u # t
      <4>1. entries'[currentList'][u] = entries[currentList][u] /\ cache'[u] = cache[u]
        BY <3>1, <3>2, <3>4, WrittenEntries DEF TypeOK
      <4> QED BY <3>2, <4>1 DEF HiddenInv
    <3> QED BY <3>3, <3>4
  <2>4. ASSUME NEW t \in Trees, NEW v \in Values, InjectListEntry(t, v)
        PROVE  Hides(entries'[currentList'][u], cache'[u])
    <3>1. /\ ~JustDeleted(cache[t], clock)
          /\ cache' = IF NotNewer(cache[t])
                      THEN [cache EXCEPT ![t] = [value |-> v, at |-> clock]] ELSE cache
      BY <2>4 DEF InjectListEntry
    <3>2. NotNewer(cache[t])
      <4>1. cache[t] # NoEntry => cache[t].at <= clock /\ cache[t].at \in Nat
        BY DEF ClockInv, TypeOK, Entry
      <4> QED BY <2>a, <4>1 DEF NotNewer
    <3>3. u # t /\ cache'[u] = cache[u]
      BY <3>1, <3>2, ValuesAssumption DEF TypeOK
    <3>4. Written(t, v)
      BY <2>4 DEF InjectListEntry, InjectIntoList, Written
    <3>5. currentList' = currentList /\ entries'[currentList'][u] = entries[currentList][u]
      BY <3>3, <3>4, WrittenElsewhere DEF TypeOK
    <3> QED BY <3>3, <3>5 DEF HiddenInv
  <2>5. ASSUME NEW l \in Listeners, List(l)
        PROVE  Hides(entries'[currentList'][u], cache'[u])
    <3>1. CASE ListJoin(l)
      BY <2>1, <2>5, <3>1 DEF List, ListJoin, localVars
    <3>2. CASE ListCreate(l)
      <4>1. entries'[currentList'][u] = cache[u] /\ cache' = cache
        BY <2>5, <3>2 DEF List, ListCreate, TypeOK, localVars
      <4>2. cache[u] \in Entry
        BY <4>1 DEF TypeOK
      <4> QED BY <2>a, <4>1, <4>2
    <3> QED BY <2>5, <3>1, <3>2 DEF List
  <2>6. ASSUME NEW l \in Listeners, NEW e \in relay, ListEvent(l, e)
        PROVE  Hides(entries'[currentList'][u], cache'[u])
    <3>1. UNCHANGED <<cache, currentList>> /\ currentList \in Listeners
      BY <2>6 DEF ListEvent, TypeOK, localVars
    <3>2. CASE entries'[currentList][u] = entries[currentList][u]
      BY <3>1, <3>2 DEF HiddenInv
    <3>3. CASE entries'[currentList][u] # entries[currentList][u]
      <4> DEFINE entry == entries[currentList][u]
      <4>1. /\ l = currentList /\ e.tree = u /\ Supersedes(e, entry)
            /\ entries'[currentList][u] = [value |-> e.value, at |-> e.at]
        <5>1. entries \in [Listeners -> [Trees -> Entry \union {NoEntry}]]
          BY DEF TypeOK
        <5>2. /\ Supersedes(e, entries[l][e.tree])
              /\ entries' = [entries EXCEPT ![l] =
                   [entries[l] EXCEPT ![e.tree] = [value |-> e.value, at |-> e.at]]]
          BY <2>6, <3>3 DEF ListEvent
        <5>3. l = currentList
          BY <3>1, <3>3, <5>1, <5>2
        <5>4. e.tree = u
          BY <3>1, <3>3, <5>1, <5>2
        <5> QED BY <3>1, <5>1, <5>2, <5>3, <5>4
      <4>2. Hides(entry, cache[u])
        BY <3>1 DEF HiddenInv
      <4>3. e.at \in Nat /\ e.value \in Values \union {Null} /\ cache[u].at \in Nat /\ entry.at \in Nat
        BY <2>a, <3>1, <4>2 DEF TypeOK, Event, Entry
      <4>4. [value |-> e.value, at |-> e.at] \in Entry
        BY <4>3 DEF Entry
      <4>5. e.at >= cache[u].at
        BY <4>1, <4>2, <4>3 DEF Supersedes
      <4>6. e.value = Null \/ e.at >= cache[u].at + UndeleteWindow
        <5>1. UndeleteWindow \in Nat
          BY TimeAssumption
        <5>2. CASE entry.value = Null
          BY <4>1, <4>2, <4>3, <5>1, <5>2 DEF Supersedes, JustDeleted
        <5>3. CASE entry.value # Null
          BY <4>1, <4>2, <4>3, <5>1, <5>3 DEF Supersedes
        <5> QED BY <5>2, <5>3
      <4> QED BY <2>a, <3>1, <4>1, <4>4, <4>5, <4>6
    <3> QED BY <3>2, <3>3
  <2>7. CASE \/ \E t \in Trees : RemoteDelete(t)
             \/ \E t \in Trees, v \in Values : RemotePublish(t, v)
             \/ \E s \in Subscribers, t \in Trees : Subscribe(s, t)
             \/ \E s \in Subscribers : Unsubscribe(s)
             \/ \E e \in relay : SubscriptionEvent(e)
             \/ Stop \/ Tick
             \/ UNCHANGED vars
    BY <2>1, <2>7 DEF RemoteDelete, RemotePublish, Subscribe, Unsubscribe, SubscriptionEvent,
                      Stop, Tick, vars, localVars, listVars
  <2>8. ASSUME NEW l \in Listeners, Unlist(l)
        PROVE  Hides(entries'[currentList'][u], cache'[u])
    <3>1. UNCHANGED <<currentList, entries, cache>>
      BY <2>8 DEF Unlist, localVars
    <3> QED BY <2>1, <3>1
  <2> QED BY <2>2, <2>3, <2>4, <2>5, <2>6, <2>7, <2>8 DEF Next, Local
<1> QED BY <1>1, <1>2, ResolverTypeCorrect, ClockInvariant, PTL DEF Spec

(* A tree deleted here reappears only by a creation dated well after. *)
THEOREM DeletionsHold == Spec => []DeletedStaysHidden
<1>1. HiddenInv => DeletedStaysHidden
  BY DEF HiddenInv, DeletedStaysHidden
<1> QED BY <1>1, HiddenInvariant, PTL

(* An event seen is covered by what a newer event, or it itself, leaves. *)
LEMMA SupersedesCovers ==
  ASSUME NEW e \in Event, NEW seen \in Event, NEW entry \in Entry \union {NoEntry},
         Supersedes(e, entry), seen = e \/ Covers(entry, seen)
  PROVE  Covers([value |-> e.value, at |-> e.at], seen)
<1>1. e.at \in Nat /\ seen.at \in Nat /\ UndeleteWindow \in Nat \ {0}
  BY TimeAssumption DEF Event
<1>2. [value |-> e.value, at |-> e.at] # NoEntry
  BY DEF Event
<1>3. CASE seen = e
  BY <1>1, <1>2, <1>3 DEF Covers
<1>4. CASE Covers(entry, seen)
  <2>1. entry # NoEntry /\ entry.at \in Nat
    BY <1>4 DEF Covers, Entry
  <2>2. CASE e.value = Null
    BY <1>1, <1>2, <1>4, <2>1, <2>2 DEF Supersedes, Covers
  <2>3. CASE e.value # Null
    <3>1. e.at > entry.at /\ (entry.value = Null => e.at - entry.at >= UndeleteWindow)
      BY <1>1, <2>1, <2>3 DEF Supersedes, JustDeleted
    <3> QED BY <1>1, <1>2, <1>4, <2>1, <2>3, <3>1 DEF Covers
  <2> QED BY <2>2, <2>3
<1> QED BY <1>3, <1>4

(* An event that changes nothing is covered by the entry it meets. *)
LEMMA IgnoredCovered ==
  ASSUME NEW e \in Event, NEW entry \in Entry \union {NoEntry}, ~Supersedes(e, entry)
  PROVE  Covers(entry, e)
<1>1. entry # NoEntry
  BY DEF Supersedes
<1>2. e.at \in Nat /\ entry.at \in Nat /\ UndeleteWindow \in Nat \ {0}
  BY <1>1, TimeAssumption DEF Event, Entry
<1>3. CASE e.value # Null /\ JustDeleted(entry, e.at)
  BY <1>1, <1>2, <1>3 DEF Covers, JustDeleted
<1>4. CASE ~(e.value # Null /\ JustDeleted(entry, e.at))
  BY <1>1, <1>2, <1>4 DEF Covers, Supersedes
<1> QED BY <1>3, <1>4

(* Events seen are covered by what a local operation writes now. *)
LEMMA LocalCovers ==
  ASSUME NEW seen \in Event, NEW entry \in Entry, NEW value \in Values \union {Null},
         clock \in Nat, Covers(entry, seen),
         entry.value # Null => entry.at <= clock,
         seen.at <= clock + 1 /\ (seen.value # Null => seen.at <= clock),
         value = Null \/ ~JustDeleted(entry, clock)
  PROVE  Covers([value |-> value, at |-> clock], seen)
<1>1. seen.at \in Nat /\ entry.at \in Nat /\ UndeleteWindow \in Nat \ {0}
  BY TimeAssumption DEF Event, Entry
<1>2. [value |-> value, at |-> clock] # NoEntry
  OBVIOUS
<1>3. CASE value = Null
  BY <1>1, <1>2, <1>3 DEF Covers
<1>4. CASE value # Null
  <2>1. entry.value = Null => clock - entry.at >= UndeleteWindow
    BY <1>1, <1>4 DEF JustDeleted, Covers
  <2> QED BY <1>1, <1>2, <1>4, <2>1 DEF Covers
<1> QED BY <1>3, <1>4

(* No event is ignored in favour of an older entry. *)
THEOREM SeenInvariant == Spec => []SeenInv
<1>1. Init => SeenInv
  BY DEF Init, SeenInv
<1>2. TypeOK /\ ClockInv /\ ListenerInv /\ SeenInv /\ [Next]_vars => SeenInv'
  <2> SUFFICES ASSUME TypeOK, ClockInv, ListenerInv, SeenInv, [Next]_vars,
                      NEW k \in Listeners, NEW s \in listSeen'[k]
               PROVE  Covers(entries'[k][s.tree], s)
    BY DEF SeenInv
  <2>a. s \in listSeen[k] => Covers(entries[k][s.tree], s)
    BY DEF SeenInv
  <2>b. listSeen \in [Listeners -> SUBSET Event] /\ entries \in [Listeners -> [Trees -> Entry \union {NoEntry}]]
    BY DEF TypeOK
  <2>1. CASE UNCHANGED <<entries, listSeen>>
    BY <2>1, <2>a
  <2>2. ASSUME NEW t \in Trees, NEW value \in Values \union {Null}, Written(t, value),
               value = Null \/ UNCHANGED entries \/ ~JustDeleted(entries[currentList][t], clock)
        PROVE  Covers(entries'[k][s.tree], s)
    <3>1. s \in listSeen[k] /\ s \in Event /\ s.tree \in Trees
      BY <2>2, <2>b, WrittenElsewhere DEF Event
    <3>2. CASE entries'[k][s.tree] = entries[k][s.tree]
      BY <2>a, <3>1, <3>2
    <3>3. CASE entries'[k][s.tree] # entries[k][s.tree]
      <4>1. k = currentList /\ s.tree = t
        BY <2>2, <3>1, <3>3, WrittenElsewhere
      <4>2. ~UNCHANGED listVars /\ currentList # NoList /\ SetListEntry(t, value)
        BY <2>2, <3>3 DEF Written, listVars
      <4>3. entries'[k][s.tree] = [value |-> value, at |-> clock]
        BY <4>1, <4>2, WrittenEntries
      <4>4. s \in relay /\ s.at <= clock + 1 /\ (s.value # Null => s.at <= clock)
        BY <3>1 DEF ClockInv
      <4>5. entries[k][t] # NoEntry /\ entries[k][t] \in Entry
        BY <2>a, <2>b, <3>1, <4>1 DEF Covers
      <4>6. entries[k][t].value # Null => entries[k][t].at <= clock
        BY <4>5 DEF ClockInv
      <4>7. value = Null \/ ~JustDeleted(entries[k][t], clock)
        BY <2>2, <3>3, <4>1
      <4>8. clock \in Nat
        BY DEF TypeOK
      <4> QED BY <2>a, <3>1, <4>1, <4>3, <4>4, <4>5, <4>6, <4>7, <4>8, LocalCovers
    <3> QED BY <3>2, <3>3
  <2>3. ASSUME NEW t \in Trees, Local(t)
        PROVE  Covers(entries'[k][s.tree], s)
    <3>1. ASSUME NEW v \in Values, NEW skip \in BOOLEAN, Publish(t, v, skip)
          PROVE  Covers(entries'[k][s.tree], s)
      BY <2>2, <3>1 DEF Publish, PublishToList, Written, listVars
    <3>2. CASE Delete(t)
      BY <2>2, <3>2 DEF Delete, Written, listVars
    <3>3. ASSUME NEW v \in Values, InjectListEntry(t, v)
          PROVE  Covers(entries'[k][s.tree], s)
      BY <2>2, <3>3 DEF InjectListEntry, InjectIntoList, Written, listVars
    <3> QED BY <2>3, <3>1, <3>2, <3>3 DEF Local
  <2>4. ASSUME NEW l \in Listeners, List(l)
        PROVE  Covers(entries'[k][s.tree], s)
    <3>1. CASE ListJoin(l)
      BY <2>1, <3>1 DEF ListJoin
    <3>2. CASE ListCreate(l)
      <4>1. listSeen' = listSeen /\ listSeen[l] = {}
        BY <2>4, <3>2 DEF List, ListCreate, ListenerInv
      <4>2. entries'[k] = entries[k]
        BY <3>2, <4>1 DEF ListCreate, TypeOK
      <4> QED BY <2>a, <4>1, <4>2
    <3> QED BY <2>4, <3>1, <3>2 DEF List
  <2>5. ASSUME NEW l \in Listeners, NEW e \in relay, ListEvent(l, e)
        PROVE  Covers(entries'[k][s.tree], s)
    <3>a. e \in Event /\ e.tree \in Trees
      BY DEF TypeOK, Event
    <3>b. s \in Event /\ s.tree \in Trees /\ (s \in listSeen[k] \/ (s = e /\ k = l))
      BY <2>5, <2>b, <3>a DEF ListEvent, Event
    <3>1. CASE Supersedes(e, entries[l][e.tree])
      <4>1. entries' = [entries EXCEPT ![l] =
                          [entries[l] EXCEPT ![e.tree] = [value |-> e.value, at |-> e.at]]]
        BY <2>5, <3>1 DEF ListEvent
      <4>2. CASE k = l /\ s.tree = e.tree
        <5>1. entries'[k][s.tree] = [value |-> e.value, at |-> e.at]
          BY <2>b, <3>a, <4>1, <4>2
        <5>2. entries[k][s.tree] \in Entry \union {NoEntry}
          BY <2>b, <3>b
        <5> QED BY <2>a, <3>a, <3>b, <3>1, <4>2, <5>1, <5>2, SupersedesCovers
      <4>3. CASE ~(k = l /\ s.tree = e.tree)
        <5>1. entries'[k][s.tree] = entries[k][s.tree]
          BY <2>b, <3>a, <3>b, <4>1, <4>3
        <5> QED BY <2>a, <3>b, <4>3, <5>1
      <4> QED BY <4>2, <4>3
    <3>2. CASE ~Supersedes(e, entries[l][e.tree])
      <4>1. entries' = entries /\ entries[l][e.tree] \in Entry \union {NoEntry}
        BY <2>5, <2>b, <3>a, <3>2 DEF ListEvent
      <4> QED BY <2>a, <3>a, <3>b, <3>2, <4>1, IgnoredCovered
    <3> QED BY <3>1, <3>2
  <2>6. CASE \/ \E t \in Trees : RemoteDelete(t)
             \/ \E t \in Trees, v \in Values : RemotePublish(t, v)
             \/ \E t \in Trees, r \in Subscribers : Subscribe(r, t)
             \/ \E r \in Subscribers : Unsubscribe(r)
             \/ \E e \in relay : SubscriptionEvent(e)
             \/ Stop \/ Tick
             \/ UNCHANGED vars
    BY <2>1, <2>6 DEF RemoteDelete, RemotePublish, Subscribe, Unsubscribe, SubscriptionEvent,
                      Stop, Tick, vars, localVars, listVars
  <2>7. ASSUME NEW l \in Listeners, Unlist(l)
        PROVE  Covers(entries'[k][s.tree], s)
    <3>1. CASE IsLastCallback(l)
      <4> DEFINE m == joined[l]
      <4>1. /\ m \in Listeners /\ listSeen' = [listSeen EXCEPT ![m] = {}]
            /\ entries' = [entries EXCEPT ![m] = [t \in Trees |-> NoEntry]]
        BY <2>7, <3>1 DEF Unlist, TypeOK
      <4> HIDE DEF m
      <4>2. k # m
        BY <2>b, <4>1
      <4>3. listSeen'[k] = listSeen[k] /\ entries'[k] = entries[k]
        BY <2>b, <4>1, <4>2
      <4> QED BY <2>a, <4>3
    <3>2. CASE ~IsLastCallback(l)
      BY <2>1, <2>7, <3>2 DEF Unlist
    <3> QED BY <3>1, <3>2
  <2> QED BY <2>3, <2>4, <2>5, <2>6, <2>7 DEF Next
<1> QED
  BY <1>1, <1>2, ResolverTypeCorrect, ClockInvariant, ListenerInvariant, PTL DEF Spec

(* In whatever order events arrive, an entry is as recent as each of them,  *)
(* except for a creation a recent deletion hides.                           *)
THEOREM NewestShown == Spec => []NothingNewerIgnored
<1>1. TypeOK /\ SeenInv => NothingNewerIgnored
  BY DEF SeenInv, Covers, NothingNewerIgnored, TypeOK
<1> QED BY <1>1, ResolverTypeCorrect, SeenInvariant, PTL
=============================================================================
