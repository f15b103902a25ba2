---------------------------- MODULE RefResolver ----------------------------
(***************************************************************************)
(* createNostrRefResolver (packages/hashtree/src/resolver/nostr.ts): the   *)
(* mutable names "npub/tree" of one author, as one resolver instance sees  *)
(* them.  The author publishes, deletes and injects locally, and from      *)
(* other devices; every change is an event with a timestamp in seconds.    *)
(* Relays deliver events in any order, old ones included, once per         *)
(* subscription.                                                           *)
(*                                                                         *)
(* A list subscription object is identified with the listener that created *)
(* it.  An empty hash marks a deleted tree: here Null.                     *)
(***************************************************************************)
EXTENDS Integers, FiniteSets

CONSTANTS
  Trees,          \* tree names of the author
  Values,         \* root hashes
  Null,           \* hash '' of a deleted tree, and the null a callback gets
  NoEntry,        \* no entry in a map
  Nothing,        \* a callback that has not been called
  Subscribers,    \* calls of subscribe()
  Listeners,      \* calls of list()
  NoList,         \* listSubscriptions has no entry for the author
  UndeleteWindow, \* 30 seconds, in ticks of the clock
  MaxTime,        \* bound on the clock
  MaxEvents,      \* bound on the events ever published
  MaxUnsent       \* bound on the roots written here that are sent to no relay here

ASSUME ValuesAssumption == {Null, Nothing} \intersect Values = {} /\ Null # Nothing
ASSUME EntriesAssumption ==
  /\ NoEntry \notin [value : Values \union {Null}, at : Nat]
  /\ NoEntry \notin Trees
  /\ NoList \notin Listeners
ASSUME TimeAssumption == UndeleteWindow \in Nat \ {0} /\ MaxTime \in Nat /\ MaxEvents \in Nat /\ MaxUnsent \in Nat

VARIABLES
  clock,       \* Math.floor(Date.now() / 1000)
  relay,       \* events published so far, by anyone
  cache,       \* localListCache
  unsent,      \* history: roots published or injected here and sent to no relay here
  subTree,     \* the tree each subscriber watches, NoEntry when it does not
  subValue,    \* currentHash of a tree's subscription
  subAt,       \* latestCreatedAt of a tree's subscription
  subSeen,     \* events delivered to a tree's subscription
  told,        \* last value each subscriber was called with
  currentList, \* listSubscriptions.get(npub)
  entries,     \* entriesByDTag of each list subscription object
  callbacks,   \* callbacks of each list subscription object
  open,        \* list subscription objects whose relay subscription is open
  joined,      \* the list subscription object a listener's closure refers to
  listSeen,    \* events delivered to each list subscription object
  shown        \* last list each listener was called with

subVars == <<subTree, subValue, subAt, subSeen, told>>
listVars == <<currentList, entries, callbacks, open, joined, listSeen, shown>>
localVars == <<cache, unsent>>
vars == <<clock, relay, localVars, subVars, listVars>>

Entry == [value : Values \union {Null}, at : Nat]
Event == [tree : Trees, value : Values \union {Null}, at : Nat]

SubscribersOf(t) == {s \in Subscribers : subTree[s] = t}
Subscribed(t) == SubscribersOf(t) # {}

(* the entries list() reports: deleted trees are left out *)
View(ent) == [t \in Trees |-> IF ent[t] = NoEntry THEN Null ELSE ent[t].value]

(* Variation: no protection against undeleting. *)
NeverJustDeleted(entry, at) == FALSE

(* an entry that hides a creation at time `at` because it was just deleted *)
JustDeleted(entry, at) ==
  entry # NoEntry /\ entry.value = Null /\ at - entry.at < UndeleteWindow

-----------------------------------------------------------------------------
Init ==
  /\ clock = 0
  /\ relay = {}
  /\ cache = [t \in Trees |-> NoEntry]
  /\ unsent = {}
  /\ subTree = [s \in Subscribers |-> NoEntry]
  /\ subValue = [t \in Trees |-> Null]
  /\ subAt = [t \in Trees |-> 0]
  /\ subSeen = [t \in Trees |-> {}]
  /\ told = [s \in Subscribers |-> Nothing]
  /\ currentList = NoList
  /\ entries = [l \in Listeners |-> [t \in Trees |-> NoEntry]]
  /\ callbacks = [l \in Listeners |-> {}]
  /\ open = {}
  /\ joined = [l \in Listeners |-> NoList]
  /\ listSeen = [l \in Listeners |-> {}]
  /\ shown = [l \in Listeners |-> Nothing]

Send(event) ==
  /\ event \notin relay => Cardinality(relay) < MaxEvents
  /\ relay' = relay \union {event}

(* history of a root that is written without being sent *)
Keep(root) ==
  /\ root \notin unsent => Cardinality(unsent) < MaxUnsent
  /\ unsent' = unsent \union {root}

(* Variation: the callbacks are not called. *)
TellNobody(t, value) == UNCHANGED told

(* call the callbacks of tree t's subscription *)
TellSubscribers(t, value) ==
  told' = [s \in Subscribers |-> IF subTree[s] = t THEN value ELSE told[s]]

(* Variation: only the callback that created the subscription is called. *)
EmitToCreator(l, ent) ==
  shown' = [k \in Listeners |-> IF k = l THEN View(ent) ELSE shown[k]]

(* emit the entries of list subscription object l to its callbacks *)
EmitList(l, ent) ==
  shown' = [k \in Listeners |-> IF k \in callbacks[l] THEN View(ent) ELSE shown[k]]

(* what publish() and delete() do to an active subscription *)
SetSubscription(t, value) ==
  IF Subscribed(t)
  THEN /\ subValue' = [subValue EXCEPT ![t] = value]
       /\ subAt' = [subAt EXCEPT ![t] = clock]
       /\ TellSubscribers(t, value)
       /\ UNCHANGED <<subTree, subSeen>>
  ELSE UNCHANGED subVars

(* what publish(), delete() and injectListEntry() do to an active list *)
SetListEntry(t, value) ==
  LET ent == [entries[currentList] EXCEPT ![t] = [value |-> value, at |-> clock]] IN
  /\ entries' = [entries EXCEPT ![currentList] = ent]
  /\ EmitList(currentList, ent)
  /\ UNCHANGED <<currentList, callbacks, open, joined, listSeen>>

(* publish(): cache and subscription always, the list unless the entry was  *)
(* just deleted, the network unless the caller publishes the event itself   *)
PublishToList(t, v) ==
  IF currentList # NoList /\ ~JustDeleted(entries[currentList][t], clock)
  THEN SetListEntry(t, v)
  ELSE UNCHANGED listVars

Publish(t, v, skipNostrPublish) ==
  /\ cache' = [cache EXCEPT ![t] = [value |-> v, at |-> clock]]
  /\ SetSubscription(t, v)
  /\ PublishToList(t, v)
  /\ LET root == [tree |-> t, value |-> v, at |-> clock] IN
     IF skipNostrPublish
     THEN Keep(root) /\ UNCHANGED relay
     ELSE Send(root) /\ UNCHANGED unsent
  /\ UNCHANGED clock

(* Variation: the deletion is dated before the event it deletes. *)
DeletionTimeBefore == clock - 1

(* created_at of the event that deletes, so that it beats one of this second *)
DeletionTime == clock + 1

(* delete(): everything local is marked deleted now, the event that says so *)
(* is dated one second later                                                *)
Delete(t) ==
  /\ cache' = [cache EXCEPT ![t] = [value |-> Null, at |-> clock]]
  /\ SetSubscription(t, Null)
  /\ IF currentList # NoList THEN SetListEntry(t, Null) ELSE UNCHANGED listVars
  /\ Send([tree |-> t, value |-> Null, at |-> DeletionTime])
  /\ UNCHANGED <<clock, unsent>>

(* injectListEntry(): stops at the first entry that was just deleted *)
NotNewer(entry) == entry = NoEntry \/ clock >= entry.at

InjectIntoList(t, v) ==
  IF /\ currentList # NoList
     /\ ~JustDeleted(entries[currentList][t], clock)
     /\ NotNewer(entries[currentList][t])
  THEN SetListEntry(t, v)
  ELSE UNCHANGED listVars

InjectListEntry(t, v) ==
  /\ ~JustDeleted(cache[t], clock)
  /\ cache' = IF NotNewer(cache[t])
              THEN [cache EXCEPT ![t] = [value |-> v, at |-> clock]] ELSE cache
  /\ Keep([tree |-> t, value |-> v, at |-> clock])
  /\ InjectIntoList(t, v)
  /\ UNCHANGED <<clock, relay, subVars>>

(* another device of the author publishes or deletes the tree *)
RemotePublish(t, v) ==
  /\ Send([tree |-> t, value |-> v, at |-> clock])
  /\ UNCHANGED <<clock, localVars, subVars, listVars>>

RemoteDelete(t) ==
  /\ Send([tree |-> t, value |-> Null, at |-> DeletionTime])
  /\ UNCHANGED <<clock, localVars, subVars, listVars>>

-----------------------------------------------------------------------------
(* subscribe() to a tree others watch already: called with the current hash *)
SubscribeJoin(s, t) ==
  /\ Subscribed(t)
  /\ told' = [told EXCEPT ![s] = IF subValue[t] # Null THEN subValue[t] ELSE Nothing]
  /\ UNCHANGED <<subValue, subAt, subSeen>>

(* the first subscribe(): starts from the local cache *)
SubscribeFirst(s, t) ==
  /\ ~Subscribed(t)
  /\ LET known == cache[t] # NoEntry
         value == IF known THEN cache[t].value ELSE Null
     IN /\ subValue' = [subValue EXCEPT ![t] = value]
        /\ subAt' = [subAt EXCEPT ![t] = IF known THEN cache[t].at ELSE 0]
        /\ told' = [told EXCEPT ![s] = IF value # Null THEN value ELSE Nothing]
  /\ subSeen' = [subSeen EXCEPT ![t] = {}]

Subscribe(s, t) ==
  /\ subTree[s] = NoEntry
  /\ SubscribeJoin(s, t) \/ SubscribeFirst(s, t)
  /\ subTree' = [subTree EXCEPT ![s] = t]
  /\ UNCHANGED <<clock, relay, localVars, listVars>>

(* the closure subscribe() returned: the last one drops the subscription *)
Unsubscribe(s) ==
  LET t == subTree[s] IN
  /\ t # NoEntry
  /\ subTree' = [subTree EXCEPT ![s] = NoEntry]
  /\ told' = [told EXCEPT ![s] = Nothing]
  /\ IF SubscribersOf(t) = {s}
     THEN /\ subValue' = [subValue EXCEPT ![t] = Null]
          /\ subAt' = [subAt EXCEPT ![t] = 0]
          /\ subSeen' = [subSeen EXCEPT ![t] = {}]
     ELSE UNCHANGED <<subValue, subAt, subSeen>>
  /\ UNCHANGED <<clock, relay, localVars, listVars>>

(* Variation: the timestamp is not compared. *)
IsOtherValue(e) == e.value # Null /\ e.value # subValue[e.tree]

(* a relay event reaches the subscription of its tree; events without a     *)
(* hash are ignored                                                         *)
IsUpdate(e) ==
  /\ e.value # Null
  /\ e.at >= subAt[e.tree]
  /\ e.value # subValue[e.tree]

SubscriptionEvent(e) ==
  /\ e \in relay
  /\ Subscribed(e.tree)
  /\ e \notin subSeen[e.tree]
  /\ subSeen' = [subSeen EXCEPT ![e.tree] = @ \union {e}]
  /\ IF IsUpdate(e)
     THEN /\ subValue' = [subValue EXCEPT ![e.tree] = e.value]
          /\ subAt' = [subAt EXCEPT ![e.tree] = e.at]
          /\ TellSubscribers(e.tree, e.value)
     ELSE UNCHANGED <<subValue, subAt, told>>
  /\ UNCHANGED <<clock, relay, localVars, subTree, listVars>>

-----------------------------------------------------------------------------
(* list() while a list subscription is registered joins it *)
ListJoin(l) ==
  /\ currentList # NoList
  /\ callbacks' = [callbacks EXCEPT ![currentList] = @ \union {l}]
  /\ joined' = [joined EXCEPT ![l] = currentList]
  /\ shown' = [shown EXCEPT ![l] = View(entries[currentList])]
  /\ UNCHANGED <<currentList, entries, open, listSeen>>

(* list() otherwise creates one from the local cache and registers it *)
ListCreate(l) ==
  /\ currentList = NoList
  /\ currentList' = l
  /\ entries' = [entries EXCEPT ![l] = cache]
  /\ callbacks' = [callbacks EXCEPT ![l] = {l}]
  /\ open' = open \union {l}
  /\ joined' = [joined EXCEPT ![l] = l]
  /\ shown' = IF \E t \in Trees : cache[t] # NoEntry
              THEN [shown EXCEPT ![l] = View(cache)] ELSE shown
  /\ UNCHANGED listSeen

List(l) ==
  /\ joined[l] = NoList
  /\ ListJoin(l) \/ ListCreate(l)
  /\ UNCHANGED <<clock, relay, localVars, subVars>>

(* Variation: the registration is never dropped. *)
IsNeverLast(l) == FALSE

IsLastCallback(l) == callbacks[joined[l]] = {l}

(* the closure list() returned: it drops the callback from the object it    *)
(* was made for, and the registration of the author when none is left       *)
Unlist(l) ==
  /\ joined[l] # NoList
  /\ l \in callbacks[joined[l]]
  /\ callbacks' = [callbacks EXCEPT ![joined[l]] = @ \ {l}]
  /\ IF IsLastCallback(l)
     THEN /\ open' = open \ {joined[l]}
          /\ currentList' = NoList
          /\ entries' = [entries EXCEPT ![joined[l]] = [t \in Trees |-> NoEntry]]
          /\ listSeen' = [listSeen EXCEPT ![joined[l]] = {}]
     ELSE UNCHANGED <<open, currentList, entries, listSeen>>
  /\ shown' = [shown EXCEPT ![l] = Nothing]
  /\ UNCHANGED <<clock, relay, localVars, subVars, joined>>

(* Variation: a deletion can never be undone. *)
SupersedesUnlessDeleted(e, entry) ==
  \/ entry = NoEntry
  \/ e.at > entry.at /\ (e.value = Null \/ entry.value # Null)

(* the timestamp rules of the list subscription *)
Supersedes(e, entry) ==
  \/ entry = NoEntry
  \/ /\ ~(e.value # Null /\ JustDeleted(entry, e.at))
     /\ \/ e.at > entry.at
        \/ e.at = entry.at /\ e.value = Null /\ entry.value # Null

ListEvent(l, e) ==
  /\ e \in relay
  /\ l \in open
  /\ e \notin listSeen[l]
  /\ listSeen' = [listSeen EXCEPT ![l] = @ \union {e}]
  /\ IF Supersedes(e, entries[l][e.tree])
     THEN LET ent == [entries[l] EXCEPT ![e.tree] = [value |-> e.value, at |-> e.at]] IN
          /\ entries' = [entries EXCEPT ![l] = ent]
          /\ EmitList(l, ent)
     ELSE UNCHANGED <<entries, shown>>
  /\ UNCHANGED <<clock, relay, localVars, subVars, currentList, callbacks, open, joined>>

(* stop(): forgets every subscription; only those of subscribe() are closed *)
Stop ==
  /\ currentList # NoList \/ \E s \in Subscribers : subTree[s] # NoEntry
  /\ subTree' = [s \in Subscribers |-> NoEntry]
  /\ subValue' = [t \in Trees |-> Null]
  /\ subAt' = [t \in Trees |-> 0]
  /\ subSeen' = [t \in Trees |-> {}]
  /\ told' = [s \in Subscribers |-> Nothing]
  /\ currentList' = NoList
  /\ UNCHANGED <<clock, relay, localVars, entries, callbacks, open, joined, listSeen, shown>>

Tick ==
  /\ clock < MaxTime
  /\ clock' = clock + 1
  /\ UNCHANGED <<relay, localVars, subVars, listVars>>

Local(t) ==
  \/ \E v \in Values, skip \in BOOLEAN : Publish(t, v, skip)
  \/ Delete(t)
  \/ \E v \in Values : InjectListEntry(t, v)

Next ==
  \/ \E t \in Trees : Local(t) \/ RemoteDelete(t)
  \/ \E t \in Trees, v \in Values : RemotePublish(t, v)
  \/ \E s \in Subscribers, t \in Trees : Subscribe(s, t)
  \/ \E s \in Subscribers : Unsubscribe(s)
  \/ \E e \in relay : SubscriptionEvent(e)
  \/ \E l \in Listeners : List(l) \/ Unlist(l)
  \/ \E l \in Listeners, e \in relay : ListEvent(l, e)
  \/ Stop
  \/ Tick

Spec == Init /\ [][Next]_vars

-----------------------------------------------------------------------------
Views == [Trees -> Values \union {Null}]

TypeOK ==
  /\ clock \in Nat
  /\ relay \subseteq Event
  /\ cache \in [Trees -> Entry \union {NoEntry}]
  /\ unsent \subseteq Event
  /\ subTree \in [Subscribers -> Trees \union {NoEntry}]
  /\ subValue \in [Trees -> Values \union {Null}]
  /\ subAt \in [Trees -> Nat]
  /\ subSeen \in [Trees -> SUBSET Event]
  /\ told \in [Subscribers -> Values \union {Null, Nothing}]
  /\ currentList \in Listeners \union {NoList}
  /\ entries \in [Listeners -> [Trees -> Entry \union {NoEntry}]]
  /\ callbacks \in [Listeners -> SUBSET Listeners]
  /\ open \subseteq Listeners
  /\ joined \in [Listeners -> Listeners \union {NoList}]
  /\ listSeen \in [Listeners -> SUBSET Event]
  /\ shown \in [Listeners -> Views \union {Nothing}]

(* The purpose of the 30-second rule: once the author deleted a tree here,   *)
(* no event that was under way, no pre-populated list and no injected entry  *)
(* makes it reappear; only a creation dated well after the deletion does.    *)
DeletedStaysHidden ==
  \A t \in Trees :
    (/\ cache[t] # NoEntry /\ cache[t].value = Null
     /\ currentList # NoList) =>
      LET entry == entries[currentList][t] IN
      /\ entry # NoEntry
      /\ entry.value = Null \/ entry.at >= cache[t].at + UndeleteWindow

(* In whatever order the events came, the entry shown is as recent as each   *)
(* of them, except for a creation hidden by a recent deletion.               *)
NothingNewerIgnored ==
  \A l \in Listeners : \A e \in listSeen[l] :
    LET entry == entries[l][e.tree] IN
    /\ entry # NoEntry
    /\ \/ entry.at >= e.at
       \/ entry.value = Null /\ (e.value = Null \/ e.at < entry.at + UndeleteWindow)

(* Every callback of an open list subscription was last called with the      *)
(* entries as they are now, whoever changed them.                            *)
ListenersUpToDate ==
  \A l \in open : \A k \in callbacks[l] :
    \/ shown[k] = View(entries[l])
    \/ shown[k] = Nothing /\ \A t \in Trees : entries[l][t] = NoEntry

(* Every active subscriber was last called with the value the resolver holds. *)
SubscribersUpToDate ==
  \A s \in Subscribers :
    subTree[s] # NoEntry =>
      \/ told[s] = subValue[subTree[s]]
      \/ told[s] = Nothing /\ subValue[subTree[s]] = Null

(* A registered list subscription is open and has callbacks: local changes   *)
(* are never written to one nobody reads, nor a new listener joined to one   *)
(* no event reaches any more.                                                *)
RegisteredListIsLive ==
  currentList # NoList => currentList \in open /\ callbacks[currentList] # {}

(* While somebody watches a tree, the root shown was published, injected or  *)
(* deleted no earlier than any root a relay delivered, in whatever order     *)
(* events come.  Only a root that had been published before is passed over:  *)
(* IsUpdate ignores an event that repeats the value shown, and its timestamp. *)
Known == relay \union unsent
PublishedBefore(d) ==
  \E e \in Known : e.tree = d.tree /\ e.value = d.value /\ e.at < d.at
NewerRootsWin ==
  \A t \in Trees : Subscribed(t) =>
    \A d \in subSeen[t] : d.value # Null =>
      \/ \E e \in Known : e.tree = t /\ e.value = subValue[t] /\ e.at >= d.at
      \/ PublishedBefore(d)

(* nostr.ts:253 says of a relay event "Only update if this event is newer":  *)
(* what subscribers are shown never becomes older than an event that had     *)
(* reached them.                                                             *)
OnlyNewerEventsUpdate ==
  [][\A e \in relay : (SubscriptionEvent(e) /\ subValue' # subValue) =>
       \A d \in subSeen[e.tree] : d.value # Null => e.at >= d.at]_vars

(* The inductive invariants behind these properties.  Nothing but a deletion *)
(* event is dated later than now, and that by one second.                    *)
ClockInv ==
  /\ \A e \in relay : e.at <= clock + 1 /\ (e.value # Null => e.at <= clock)
  /\ \A t \in Trees : cache[t] # NoEntry => cache[t].at <= clock
  /\ \A t \in Trees : subAt[t] <= clock
  /\ \A l \in Listeners : listSeen[l] \subseteq relay
  /\ \A l \in Listeners, t \in Trees :
       entries[l][t] # NoEntry /\ entries[l][t].value # Null => entries[l][t].at <= clock

(* A listener is a callback of the one object its closure refers to.         *)
ListenerInv ==
  /\ \A l \in Listeners : \A k \in callbacks[l] : joined[k] = l
  /\ \A l \in Listeners : joined[l] = NoList =>
       l \notin open /\ listSeen[l] = {} /\ shown[l] = Nothing
  /\ RegisteredListIsLive
  /\ ListenersUpToDate

(* The entry of a tree deleted here is no older than the deletion.           *)
HiddenInv ==
  \A t \in Trees :
    (/\ cache[t] # NoEntry /\ cache[t].value = Null
     /\ currentList # NoList) =>
      LET entry == entries[currentList][t] IN
      /\ entry # NoEntry /\ entry.at >= cache[t].at
      /\ entry.value = Null \/ entry.at >= cache[t].at + UndeleteWindow

(* What an entry holds is as new as the event, unless a deletion hides it.   *)
(* A deletion seen may be one second newer than one made here meanwhile.     *)
Covers(entry, e) ==
  /\ entry # NoEntry
  /\ \/ entry.at >= e.at
     \/ /\ entry.value = Null
        /\ IF e.value = Null THEN e.at <= entry.at + 1 ELSE e.at < entry.at + UndeleteWindow
SeenInv == \A l \in Listeners : \A e \in listSeen[l] : Covers(entries[l][e.tree], e)

(* What is cached or shown is known, at its timestamp when it is a root, and *)
(* every root a relay delivered was published before or is no newer.         *)
KnownAs(t, value, at) ==
  \E e \in Known :
    /\ e.tree = t /\ e.value = value
    /\ \/ e.at = at
       \/ value = Null /\ e.at >= at
ShownInv ==
  /\ \A t \in Trees : cache[t] # NoEntry => KnownAs(t, cache[t].value, cache[t].at)
  /\ \A t \in Trees :
       \/ KnownAs(t, subValue[t], subAt[t])
       \/ subValue[t] = Null /\ subAt[t] = 0 /\ \A d \in subSeen[t] : d.value = Null
  /\ \A t \in Trees : \A d \in subSeen[t] :
       d.value # Null => d.tree = t /\ (subAt[t] >= d.at \/ PublishedBefore(d))
=============================================================================
