--------------------------- MODULE TreePublisher ---------------------------
(***************************************************************************)
(* How the web application gets a user's edits onto Nostr                  *)
(* (packages/hashtree-web/src): edits read the root shown for the route    *)
(* (actions/, stores/treeRoot.ts), write the new root to the local root    *)
(* cache (treeRootCache.ts), and a throttled publish (nostr.ts) sends it   *)
(* with the tree's visibility.  routes/TreeRoute.svelte maintains the      *)
(* selected tree that autosave and publishing rely on.                     *)
(*                                                                         *)
(* A root is the set of the edits it contains.  What interleaves are the   *)
(* asynchronous tree operations of an edit, navigation, timers, account    *)
(* switches and the network; an await of an import() of a loaded module    *)
(* takes no time.  The resolver is here the value it shows for each tree:  *)
(* module RefResolver has the rest of it.                                  *)
(***************************************************************************)
EXTENDS Integers, FiniteSets

CONSTANTS
  Accounts,          \* accounts saved in the application
  FirstAccount,      \* the one logged in at the start
  Names,             \* tree names
  Switching,         \* bound: which account may be switched to from which, as pairs
  Edits,             \* edits, each made at most once
  FirstVisibility,   \* visibility of the trees that exist at the start
  NoTree,            \* no route, or no selected tree
  NoEntry,           \* no entry in a map
  NoEdit,            \* marks the absence of a root
  Delay,             \* PUBLISH_DELAY, in ticks of the clock
  EditDeadline,      \* bound: writes happen up to this time
  MaxTime            \* bound on the clock

Tree == [owner : Accounts, name : Names]
Visibilities == {"public", "private"}
Root == SUBSET Edits
NoRoot == {NoEdit} \* not loaded, or deleted
Never == -1        \* no publish timer

ASSUME AccountsAssumption ==
  FirstAccount \in Accounts /\ Switching \subseteq Accounts \X Accounts
ASSUME VisibilityAssumption == FirstVisibility \in [Tree -> Visibilities]
ASSUME ValuesAssumption ==
  NoTree \notin Tree /\ NoEdit \notin Edits
ASSUME TimeAssumption ==
  /\ Delay \in Nat \ {0} /\ EditDeadline \in Nat /\ MaxTime \in Nat
  /\ EditDeadline + Delay <= MaxTime

VARIABLES
  clock,    \* seconds
  me,       \* the account logged in (nostrStore.pubkey and npub)
  route,    \* the tree the URL names
  selected, \* nostrStore.selectedTree: a tree and a visibility
  watched,  \* trees TreeRoute subscribed to, for good
  shown,    \* subscriptionCache: the root of the route's tree
  resolver, \* the resolver's value of each tree
  cache,    \* localRootCache
  timer,    \* publishTimers: when each fires
  edits,    \* progress of each edit
  relay,    \* the event relays hold for each tree, the newest
  failed,   \* history: trees whose last publish failed, not written since
  chosen,   \* history: the visibility the owner created the tree with
  gone,     \* history: trees deleted on the relay and not written since
  mixed     \* history: names published under another account than they were
            \* written for

viewVars == <<route, selected, watched, shown>>
cacheVars == <<cache, timer>>
history == <<failed, chosen, gone, mixed>>
vars == <<clock, me, viewVars, resolver, cacheVars, edits, relay, history>>

Selection == [tree : Tree, vis : Visibilities]
CacheEntry == [root : Root, vis : Visibilities \union {"unset"}, dirty : BOOLEAN]
Event == [root : Root \union {NoRoot}, vis : Visibilities, at : Nat]
Known == [root : Root \union {NoRoot}, vis : Visibilities]
ASSUME EntriesAssumption == NoEntry \notin CacheEntry /\ NoEntry \notin Known
Progress == [phase : {"idle", "working", "virtual", "done", "dropped"},
             base : Root \union {NoRoot}, into : Tree \union {NoTree}, vis : Visibilities]
Idle == [phase |-> "idle", base |-> NoRoot, into |-> NoTree, vis |-> "public"]

Mine(n) == [owner |-> me, name |-> n]
OwnSelected == selected # NoTree /\ selected.tree.owner = me

Init ==
  /\ clock = 0
  /\ me = FirstAccount
  /\ route = NoTree
  /\ selected = NoTree
  /\ watched = {}
  /\ shown = NoRoot
  /\ resolver = [t \in Tree |-> NoEntry]
  /\ cache = [t \in Tree |-> NoEntry]
  /\ timer = [t \in Tree |-> Never]
  /\ edits = [e \in Edits |-> Idle]
  /\ relay = [t \in Tree |-> [root |-> {}, vis |-> FirstVisibility[t], at |-> 0]]
  /\ failed = {}
  /\ chosen = FirstVisibility
  /\ gone = {}
  /\ mixed = {}

-----------------------------------------------------------------------------
(* TreeRoute's resolver callback: it selects the tree unless another one is *)
Reselect(sel, t, vis) ==
  IF t \in watched' /\ (sel = NoTree \/ sel.tree.name = t.name)
  THEN [tree |-> t, vis |-> vis] ELSE sel

(* relays keep the newest event of a tree; a publish may fail unnoticed, and *)
(* of two events of one second either may win                                *)
Send(t, event) ==
  \/ event.at >= relay[t].at /\ relay' = [relay EXCEPT ![t] = event]
  \/ UNCHANGED relay

(* resolver.publish(.., skipNostrPublish) *)
TellResolver(t, root, vis) ==
  resolver' = [resolver EXCEPT ![t] = [root |-> root, vis |-> vis]]

(* saveHashtree() under the account logged in, given the selection it finds *)
Save(t, root, vis, sel) ==
  /\ Send(t, [root |-> root, vis |-> vis, at |-> clock])
  /\ TellResolver(t, root, vis)
  /\ selected' = Reselect(IF sel # NoTree /\ sel.tree = t THEN [sel EXCEPT !.vis = vis] ELSE sel,
                          t, vis)

(* history: what was written for tree t is published as tree u *)
Mixes(t, u) == mixed' = IF u = t THEN mixed ELSE mixed \union {t.name}

(* the entry updateLocalRootCache() stores: a visibility not given is kept *)
NewEntry(t, root, vis) ==
  [root |-> root, dirty |-> TRUE,
   vis |-> IF vis = "unset" /\ cache[t] # NoEntry THEN cache[t].vis ELSE vis]

(* updateLocalRootCache(): caches the root and re-arms the publish timer *)
UpdateCache(t, root, vis) ==
  /\ cache' = [cache EXCEPT ![t] = NewEntry(t, root, vis)]
  /\ timer' = [timer EXCEPT ![t] = clock + Delay]
  /\ failed' = failed \ {t}
  /\ gone' = gone \ {t}

-----------------------------------------------------------------------------
(* the selection when the route becomes t, before the resolver answers: the *)
(* visibility of the tree selected before is kept                           *)
SelectIfOwn(t) ==
  IF selected # NoTree /\ selected.tree.name = t.name THEN selected
  ELSE [tree |-> t, vis |-> IF selected = NoTree THEN "public" ELSE selected.vis]

(* TreeRoute for an own tree, and treeRoot's subscription; what the resolver *)
(* holds is delivered at once                                                *)
Visit(t) ==
  /\ t.owner = me /\ route # t
  /\ route' = t
  /\ watched' = watched \union {t}
  /\ IF resolver[t] # NoEntry /\ resolver[t].root # NoRoot
     THEN /\ shown' = resolver[t].root
          /\ selected' = Reselect(SelectIfOwn(t), t, resolver[t].vis)
     ELSE shown' = NoRoot /\ selected' = SelectIfOwn(t)
  /\ UNCHANGED <<clock, me, resolver, cacheVars, edits, relay, history>>

(* the relay's event of a tree reaches the resolver for the first time *)
Load(t) ==
  /\ t \in watched /\ resolver[t] = NoEntry /\ relay[t].root # NoRoot
  /\ TellResolver(t, relay[t].root, relay[t].vis)
  /\ shown' = IF route = t THEN relay[t].root ELSE shown
  /\ UNCHANGED <<clock, me, route, watched, cacheVars, edits, relay, history>>
  /\ selected' = Reselect(selected, t, relay[t].vis)

(* the home and user pages clear the selection, the accounts page does not *)
Leave ==
  /\ route # NoTree
  /\ route' = NoTree
  /\ shown' = NoRoot
  /\ selected' \in {NoTree, selected}
  /\ UNCHANGED <<clock, me, watched, resolver, cacheVars, edits, relay, history>>

SwitchToAccount(a) ==
  /\ route = NoTree /\ a # me /\ <<me, a>> \in Switching
  /\ me' = a
  /\ UNCHANGED <<clock, viewVars, resolver, cacheVars, edits, relay, history>>

-----------------------------------------------------------------------------
(* an edit starts from the root shown, and goes on asynchronously *)
StartEdit(e) ==
  /\ edits[e].phase = "idle"
  /\ route # NoTree /\ route.owner = me
  /\ edits' = [edits EXCEPT ![e] =
       [@ EXCEPT !.phase = "working", !.base = shown]]
  /\ UNCHANGED <<clock, me, viewVars, resolver, cacheVars, relay, history>>

Ends(e, phase) == edits' = [edits EXCEPT ![e] = [Idle EXCEPT !.phase = phase]]

(* autosaveIfOwn(newRoot): into the tree selected by now *)
Autosave(e) ==
  /\ edits[e].phase = "working" /\ edits[e].base # NoRoot
  /\ OwnSelected /\ clock <= EditDeadline
  /\ LET t == Mine(selected.tree.name)
         root == edits[e].base \union {e}
     IN /\ UpdateCache(t, root, "unset")
        /\ shown' = IF route = t THEN root ELSE shown
  /\ Ends(e, "done")
  /\ UNCHANGED <<clock, me, route, selected, watched, resolver, relay, chosen, mixed>>

AutosaveNotOwn(e) ==
  /\ edits[e].phase = "working" /\ edits[e].base # NoRoot
  /\ ~OwnSelected
  /\ Ends(e, "dropped")
  /\ UNCHANGED <<clock, me, viewVars, resolver, cacheVars, relay, history>>

(* An edit that found no root calls initVirtualTree() once its file is       *)
(* stored: it makes a new tree for the route there is by then, in the        *)
(* visibility selected by then.                                              *)
EnterVirtualTree(e) ==
  /\ edits[e].phase = "working" /\ edits[e].base = NoRoot
  /\ edits' = [edits EXCEPT ![e] =
       IF route # NoTree /\ route.owner = me
       THEN [@ EXCEPT !.phase = "virtual", !.into = route,
                      !.vis = IF selected = NoTree THEN "public" ELSE selected.vis]
       ELSE [Idle EXCEPT !.phase = "dropped"]]
  /\ UNCHANGED <<clock, me, viewVars, resolver, cacheVars, relay, history>>

(* initVirtualTree() once its directory is stored: caches, selects and saves *)
InitVirtualTree(e) ==
  LET t == edits[e].into
      vis == edits[e].vis
      published == Mine(t.name)
  IN /\ edits[e].phase = "virtual"
     /\ clock <= EditDeadline
     /\ UNCHANGED <<clock, me, route, watched>>
     /\ UpdateCache(t, {e}, vis)
     /\ Save(published, {e}, vis, [tree |-> t, vis |-> vis])
     /\ shown' = IF route \in {t, published} THEN {e} ELSE shown
     /\ Ends(e, "done")
     /\ Mixes(t, published)
     /\ chosen' = IF relay[t].root = NoRoot THEN [chosen EXCEPT ![t] = vis] ELSE chosen

(* createTree() for a name not in use, then navigation to it *)
CreateTree(n, vis) ==
  LET t == Mine(n) IN
  /\ relay[t].root = NoRoot /\ clock <= EditDeadline
  /\ watched' = watched \union {t}
  /\ UpdateCache(t, {}, vis)
  /\ Save(t, {}, vis, [tree |-> t, vis |-> vis])
  /\ route' = t
  /\ shown' = {}
  /\ chosen' = [chosen EXCEPT ![t] = vis]
  /\ UNCHANGED <<clock, me, edits, mixed>>

-----------------------------------------------------------------------------
(* Variation: no fallback for an entry without a visibility. *)
CachedVisibility(t, entry) == entry.vis

(* publishTreeRoot(): the visibility is that of the cache, else that of the *)
(* selected tree if it is this one, else public                             *)
VisibilityToPublish(t, entry) ==
  IF entry.vis # "unset" THEN entry.vis
  ELSE IF selected # NoTree /\ selected.tree = t THEN selected.vis
  ELSE "public"

(* doPublish() publishes the name under the account logged in now and marks  *)
(* the entry clean, saveHashtree not waiting for the relays                  *)
Publish(t) ==
  LET published == Mine(t.name) IN
  /\ cache' = [cache EXCEPT ![t].dirty = FALSE]
  /\ UNCHANGED <<watched, failed, chosen, gone>>
  /\ Save(published, cache[t].root, VisibilityToPublish(published, cache[t]), selected)
  /\ shown' = IF route = published THEN cache[t].root ELSE shown
  /\ Mixes(t, published)

(* Variation: a publish that failed is taken for one that succeeded. *)
PublishSeemsDone(t) ==
  /\ cache' = [cache EXCEPT ![t].dirty = FALSE]
  /\ UNCHANGED <<viewVars, resolver, relay, failed, chosen, gone, mixed>>

(* publishTreeRoot() finds no pubkey or no signer, or throws: the entry stays *)
(* dirty, and no timer is armed again                                         *)
PublishFails(t) ==
  /\ failed' = failed \union {t}
  /\ UNCHANGED <<viewVars, resolver, cache, relay, chosen, gone, mixed>>

(* the timer of t fires *)
PublishTimer(t) ==
  /\ timer[t] = clock
  /\ timer' = [timer EXCEPT ![t] = Never]
  /\ Publish(t) \/ PublishFails(t)
  /\ UNCHANGED <<clock, me, route, edits>>

(* Variation: the pending publish is not cancelled. *)
LeavePendingPublish(t) == UNCHANGED <<cacheVars, failed>>

(* Variation: only the timer is cancelled. *)
CancelTimerOnly(t) == timer' = [timer EXCEPT ![t] = Never] /\ UNCHANGED <<cache, failed>>

CancelPendingPublish(t) ==
  /\ timer' = [timer EXCEPT ![t] = Never]
  /\ cache' = [cache EXCEPT ![t] = NoEntry]
  /\ failed' = failed \ {t}

(* deleteTree() of the route's tree, then navigation home *)
DeleteTree ==
  /\ route # NoTree /\ route.owner = me /\ clock <= EditDeadline
  /\ CancelPendingPublish(route)
  /\ resolver' = [resolver EXCEPT ![route] = [root |-> NoRoot, vis |-> "public"]]
  /\ Send(route, [root |-> NoRoot, vis |-> "public", at |-> clock + 1])
  /\ gone' = IF relay'[route].root = NoRoot THEN gone \union {route} ELSE gone
  /\ route' = NoTree
  /\ selected' = NoTree
  /\ shown' = NoRoot
  /\ UNCHANGED <<clock, me, watched, edits, chosen, mixed>>

(* time passes when no timer is due *)
Tick ==
  /\ clock < MaxTime
  /\ \A t \in Tree : timer[t] # clock
  /\ clock' = clock + 1
  /\ UNCHANGED <<me, viewVars, resolver, cacheVars, edits, relay, history>>

Next ==
  \/ \E t \in Tree : Visit(t) \/ Load(t) \/ PublishTimer(t)
  \/ Leave
  \/ \E a \in Accounts : SwitchToAccount(a)
  \/ \E e \in Edits : StartEdit(e) \/ Autosave(e) \/ AutosaveNotOwn(e)
                     \/ EnterVirtualTree(e) \/ InitVirtualTree(e)
  \/ \E n \in Names, vis \in Visibilities : CreateTree(n, vis)
  \/ DeleteTree
  \/ Tick

Spec == Init /\ [][Next]_vars

(* timers fire and time passes, whatever the user does *)
Fairness == WF_vars(Tick) /\ \A t \in Tree : WF_vars(PublishTimer(t))
FairSpec == Spec /\ Fairness

-----------------------------------------------------------------------------
TypeOK ==
  /\ clock \in Nat
  /\ me \in Accounts
  /\ route \in Tree \union {NoTree}
  /\ selected \in Selection \union {NoTree}
  /\ watched \subseteq Tree
  /\ shown \in Root \union {NoRoot}
  /\ resolver \in [Tree -> Known \union {NoEntry}]
  /\ cache \in [Tree -> CacheEntry \union {NoEntry}]
  /\ timer \in [Tree -> Nat \union {Never}]
  /\ edits \in [Edits -> Progress]
  /\ relay \in [Tree -> Event]
  /\ failed \subseteq Tree
  /\ chosen \in [Tree -> Visibilities]
  /\ gone \subseteq Tree
  /\ mixed \subseteq Names

IsDirty(t) == cache[t] # NoEntry /\ cache[t].dirty

(* A tree whose deletion reached the relay stays deleted there until the    *)
(* user writes to it again: no publish that was pending brings it back,     *)
(* unless it was meant for the same name of another account.                *)
DeletedStaysDeleted ==
  \A t \in gone : t.name \notin mixed => relay[t].root = NoRoot

(* A root not yet published has either a timer that will publish it, or its *)
(* publish was tried and failed and nobody wrote to the tree since; no      *)
(* timer is left without a root to publish.                                 *)
DirtyIsScheduled ==
  \A t \in Tree : IF IsDirty(t) THEN timer[t] # Never <=> t \notin failed
                  ELSE timer[t] = Never /\ t \notin failed

(* Edits read the root from the resolver's side, not from the cache: once   *)
(* an entry is published both agree, and so does the page.                  *)
CleanAgreesWithResolver ==
  \A t \in Tree : (cache[t] # NoEntry /\ ~cache[t].dirty /\ t.name \notin mixed) =>
    /\ resolver[t] # NoEntry /\ resolver[t].root = cache[t].root
    /\ route = t => shown = cache[t].root

(* The publish of every write is tried in the end, a write after one that   *)
(* failed included, or the tree is deleted.                                 *)
EveryWriteIsTried ==
  \A t \in Tree : IsDirty(t) /\ t \notin failed ~> ~IsDirty(t) \/ t \in failed

(* treeRootCache.ts:158 says the cached visibility ensures that the correct *)
(* tags are published even after navigation: an edit that did not choose a  *)
(* visibility is published with the tree's.                                 *)
EditKeepsVisibility ==
  [][\A t \in Tree : (PublishTimer(t) /\ cache[t].vis = "unset" /\ relay' # relay) =>
       relay'[t].vis = chosen[t]]_vars
=============================================================================
