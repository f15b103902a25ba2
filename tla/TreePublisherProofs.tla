------------------------ MODULE TreePublisherProofs ------------------------
(* Safety of TreePublisher for any names, edits, visibilities and delays.   *)
EXTENDS TreePublisher, TLAPS

USE AccountsAssumption, VisibilityAssumption, ValuesAssumption, EntriesAssumption, TimeAssumption

(* An edit that ends is still an edit under way or ended.                     *)
LEMMA EndsType ==
  ASSUME TypeOK, NEW e \in Edits, NEW phase \in {"working", "virtual", "done", "dropped"},
         Ends(e, phase)
  PROVE  edits' \in [Edits -> Progress]
<1>1. [Idle EXCEPT !.phase = phase] \in Progress
  BY DEF Idle, Progress, Visibilities
<1>2. edits' = [edits EXCEPT ![e] = [Idle EXCEPT !.phase = phase]]
  BY DEF Ends
<1> QED BY <1>1, <1>2 DEF TypeOK

(* The tree of an edit or a route and the sets of edits that are roots. *)
LEMMA Kinds ==
  /\ NoRoot \notin Root /\ {} \in Root
  /\ \A n \in Names : me \in Accounts => Mine(n) \in Tree
  /\ \A root \in Root, e \in Edits : root \union {e} \in Root
  /\ \A t \in Tree : t.name \in Names /\ t.owner \in Accounts
BY DEF NoRoot, Root, Mine, Tree

(* The selection after a resolver callback. *)
LEMMA ReselectType ==
  ASSUME NEW sel \in Selection \union {NoTree}, NEW t \in Tree, NEW vis \in Visibilities
  PROVE  Reselect(sel, t, vis) \in Selection \union {NoTree}
BY DEF Reselect, Selection

LEMMA SendType ==
  ASSUME TypeOK, NEW t \in Tree, NEW event \in Event, Send(t, event)
  PROVE  relay' \in [Tree -> Event]
BY DEF Send, TypeOK

LEMMA TellResolverType ==
  ASSUME TypeOK, NEW t \in Tree, NEW root \in Root \union {NoRoot}, NEW vis \in Visibilities,
         TellResolver(t, root, vis)
  PROVE  resolver' \in [Tree -> Known \union {NoEntry}]
BY DEF TellResolver, TypeOK, Known

LEMMA SaveType ==
  ASSUME TypeOK, NEW t \in Tree, NEW root \in Root, NEW vis \in Visibilities,
         NEW sel \in Selection \union {NoTree}, Save(t, root, vis, sel)
  PROVE  /\ relay' \in [Tree -> Event]
         /\ resolver' \in [Tree -> Known \union {NoEntry}]
         /\ selected' \in Selection \union {NoTree}
<1>1. [root |-> root, vis |-> vis, at |-> clock] \in Event
  BY DEF Event, TypeOK
<1>2. relay' \in [Tree -> Event]
  BY <1>1, SendType DEF Save
<1>3. resolver' \in [Tree -> Known \union {NoEntry}]
  BY TellResolverType DEF Save
<1> DEFINE kept == IF sel # NoTree /\ sel.tree = t THEN [sel EXCEPT !.vis = vis] ELSE sel
<1>4. kept \in Selection \union {NoTree}
  BY DEF Selection
<1>5. selected' = Reselect(kept, t, vis)
  BY DEF Save
<1> HIDE DEF kept
<1>6. selected' \in Selection \union {NoTree}
  BY <1>4, <1>5, ReselectType
<1> QED BY <1>2, <1>3, <1>6

LEMMA UpdateCacheType ==
  ASSUME TypeOK, NEW t \in Tree, NEW root \in Root, NEW vis \in Visibilities \union {"unset"},
         UpdateCache(t, root, vis)
  PROVE  /\ cache' \in [Tree -> CacheEntry \union {NoEntry}]
         /\ timer' \in [Tree -> Nat \union {Never}]
         /\ failed' \subseteq Tree /\ gone' \subseteq Tree
<1>1. NewEntry(t, root, vis) \in CacheEntry
  BY DEF NewEntry, TypeOK, CacheEntry
<1>2. clock + Delay \in Nat
  BY DEF TypeOK
<1> QED BY <1>1, <1>2 DEF UpdateCache, TypeOK

(* A page that is left for a virtual tree has a tree to write to. *)
IntoOK == \A e \in Edits : edits[e].phase = "virtual" => edits[e].into \in Tree

Inv == TypeOK /\ DirtyIsScheduled /\ IntoOK

(* One step keeps the types. *)
LEMMA TypeStep ==
  ASSUME Inv, [Next]_vars
  PROVE  TypeOK'
<1> TypeOK /\ DirtyIsScheduled /\ IntoOK
  BY DEF Inv
<1> USE Kinds DEF vars, viewVars, cacheVars, history
<1>1. ASSUME NEW t \in Tree, Visit(t)
      PROVE  TypeOK'
  <2>1. SelectIfOwn(t) \in Selection \union {NoTree}
    BY DEF SelectIfOwn, TypeOK, Selection, Visibilities
  <2>2. CASE resolver[t] # NoEntry /\ resolver[t].root # NoRoot
    <3>1. resolver[t].root \in Root \union {NoRoot} /\ resolver[t].vis \in Visibilities
      BY <2>2 DEF TypeOK, Known
    <3>2. selected' \in Selection \union {NoTree}
      BY <1>1, <2>1, <2>2, <3>1, ReselectType DEF Visit
    <3> QED BY <1>1, <2>2, <3>1, <3>2 DEF Visit, TypeOK
  <2>3. CASE ~(resolver[t] # NoEntry /\ resolver[t].root # NoRoot)
    BY <1>1, <2>1, <2>3 DEF Visit, TypeOK
  <2> QED BY <2>2, <2>3
<1>2. ASSUME NEW t \in Tree, Load(t)
      PROVE  TypeOK'
  <2>1. relay[t].root \in Root \union {NoRoot} /\ relay[t].vis \in Visibilities
    BY DEF TypeOK, Event
  <2>2. resolver' \in [Tree -> Known \union {NoEntry}]
    BY <1>2, <2>1, TellResolverType DEF Load
  <2>3. selected' \in Selection \union {NoTree}
    BY <1>2, <2>1, ReselectType DEF Load, TypeOK
  <2> QED BY <1>2, <2>1, <2>2, <2>3 DEF Load, TypeOK
<1>3. ASSUME NEW t \in Tree, PublishTimer(t)
      PROVE  TypeOK'
  <2> DEFINE vis == VisibilityToPublish(Mine(t.name), cache[t])
  <2>0. cache[t] # NoEntry
    BY <1>3 DEF PublishTimer, TypeOK, DirtyIsScheduled, IsDirty, Never
  <2>1. Mine(t.name) \in Tree /\ cache[t] \in CacheEntry /\ cache[t].root \in Root
    BY <2>0 DEF TypeOK, CacheEntry
  <2>2. vis \in Visibilities
    BY <2>1 DEF VisibilityToPublish, TypeOK, CacheEntry, Selection, Visibilities
  <2>3. /\ UNCHANGED <<clock, me, route, edits>>
        /\ timer' \in [Tree -> Nat \union {Never}]
    BY <1>3 DEF PublishTimer, TypeOK
  <2>4. CASE Publish(t)
    <3>1. Save(Mine(t.name), cache[t].root, vis, selected) /\ UNCHANGED <<watched, failed, chosen, gone>>
      BY <2>4 DEF Publish
    <3>2. shown' \in Root \union {NoRoot} /\ mixed' \subseteq Names
      BY <2>1, <2>4 DEF Publish, Mixes, TypeOK
    <3> HIDE DEF vis
    <3>3. /\ relay' \in [Tree -> Event]
          /\ resolver' \in [Tree -> Known \union {NoEntry}]
          /\ selected' \in Selection \union {NoTree}
      BY <2>1, <2>2, <3>1, SaveType DEF TypeOK
    <3>4. cache' \in [Tree -> CacheEntry \union {NoEntry}]
      <4>1. [cache[t] EXCEPT !.dirty = FALSE] \in CacheEntry
        BY <2>1 DEF CacheEntry
      <4> QED BY <2>4, <4>1 DEF Publish, TypeOK
    <3> QED BY <2>3, <3>1, <3>2, <3>3, <3>4 DEF TypeOK
  <2>5. CASE PublishFails(t)
    BY <2>3, <2>5 DEF PublishFails, TypeOK
  <2> QED BY <1>3, <2>4, <2>5 DEF PublishTimer
<1>4. CASE Leave
  <2>1. selected' \in Selection \union {NoTree}
    BY <1>4 DEF Leave, TypeOK
  <2> QED BY <1>4, <2>1 DEF Leave, TypeOK
<1>5. ASSUME NEW a \in Accounts, SwitchToAccount(a)
      PROVE  TypeOK'
  BY <1>5 DEF SwitchToAccount, TypeOK
<1>6. ASSUME NEW e \in Edits, StartEdit(e)
      PROVE  TypeOK'
  <2>1. edits[e] \in Progress /\ route \in Tree \union {NoTree} /\ shown \in Root \union {NoRoot}
    BY DEF TypeOK
  <2>2. [edits[e] EXCEPT !.phase = "working", !.base = shown] \in Progress
    BY <2>1 DEF Progress
  <2> QED BY <1>6, <2>2 DEF StartEdit, TypeOK
<1>7. ASSUME NEW e \in Edits, Autosave(e)
      PROVE  TypeOK'
  <2> DEFINE t == Mine(selected.tree.name)
             root == edits[e].base \union {e}
  <2>1. t \in Tree /\ root \in Root
    BY <1>7 DEF Autosave, OwnSelected, TypeOK, Selection, Progress
  <2>2. UpdateCache(t, root, "unset") /\ shown' = IF route = t THEN root ELSE shown
    BY <1>7 DEF Autosave
  <2>3. edits' \in [Edits -> Progress]
    BY <1>7, EndsType DEF Autosave
  <2> HIDE DEF t, root
  <2>4. shown' \in Root \union {NoRoot}
    BY <2>1, <2>2 DEF TypeOK
  <2>5. /\ cache' \in [Tree -> CacheEntry \union {NoEntry}]
        /\ timer' \in [Tree -> Nat \union {Never}]
        /\ failed' \subseteq Tree /\ gone' \subseteq Tree
    BY <2>1, <2>2, UpdateCacheType
  <2>6. UNCHANGED <<clock, me, route, selected, watched, resolver, relay, chosen, mixed>>
    BY <1>7 DEF Autosave
  <2> QED BY <2>3, <2>4, <2>5, <2>6 DEF TypeOK
<1>8. ASSUME NEW e \in Edits, AutosaveNotOwn(e)
      PROVE  TypeOK'
  <2>1. edits' \in [Edits -> Progress]
    BY <1>8, EndsType DEF AutosaveNotOwn
  <2> QED BY <1>8, <2>1 DEF AutosaveNotOwn, TypeOK
<1>9. ASSUME NEW e \in Edits, EnterVirtualTree(e)
      PROVE  TypeOK'
  <2>1. (IF selected = NoTree THEN "public" ELSE selected.vis) \in Visibilities
    BY DEF TypeOK, Selection, Visibilities
  <2> DEFINE vis == IF selected = NoTree THEN "public" ELSE selected.vis
             entered == [edits[e] EXCEPT !.phase = "virtual", !.into = route, !.vis = vis]
             left == [Idle EXCEPT !.phase = "dropped"]
  <2>2. edits[e] \in Progress /\ route \in Tree \union {NoTree}
    BY DEF TypeOK
  <2>3. entered \in Progress /\ left \in Progress
    BY <2>1, <2>2 DEF Progress, Idle, Visibilities
  <2>4. edits' = [edits EXCEPT ![e] = entered] \/ edits' = [edits EXCEPT ![e] = left]
    BY <1>9 DEF EnterVirtualTree
  <2> HIDE DEF entered, left
  <2>5. edits' \in [Edits -> Progress]
    BY <2>3, <2>4 DEF TypeOK
  <2> QED BY <1>9, <2>5 DEF EnterVirtualTree, TypeOK
<1>10. ASSUME NEW e \in Edits, InitVirtualTree(e)
       PROVE  TypeOK'
  <2> DEFINE t == edits[e].into
             vis == edits[e].vis
  <2>1. /\ t \in Tree /\ vis \in Visibilities /\ Mine(t.name) \in Tree /\ {e} \in Root
        /\ [tree |-> t, vis |-> vis] \in Selection
    BY <1>10 DEF InitVirtualTree, IntoOK, TypeOK, Progress, Selection, Root
  <2>2. /\ UpdateCache(t, {e}, vis)
        /\ Save(Mine(t.name), {e}, vis, [tree |-> t, vis |-> vis])
    BY <1>10 DEF InitVirtualTree
  <2>3. edits' \in [Edits -> Progress]
    BY <1>10, EndsType DEF InitVirtualTree
  <2>4. /\ shown' \in Root \union {NoRoot} /\ chosen' \in [Tree -> Visibilities]
        /\ mixed' \subseteq Names
    BY <1>10, <2>1 DEF InitVirtualTree, Mixes, TypeOK
  <2> HIDE DEF t, vis
  <2> QED BY <1>10, <2>1, <2>2, <2>3, <2>4, UpdateCacheType, SaveType DEF InitVirtualTree, TypeOK
<1>11. ASSUME NEW n \in Names, NEW vis \in Visibilities, CreateTree(n, vis)
       PROVE  TypeOK'
  <2>1. Mine(n) \in Tree /\ [tree |-> Mine(n), vis |-> vis] \in Selection
    BY DEF TypeOK, Selection
  <2>2. /\ UpdateCache(Mine(n), {}, vis)
        /\ Save(Mine(n), {}, vis, [tree |-> Mine(n), vis |-> vis])
    BY <1>11 DEF CreateTree
  <2> QED BY <1>11, <2>1, <2>2, UpdateCacheType, SaveType DEF CreateTree, TypeOK
<1>12. CASE DeleteTree
  <2>1. [root |-> NoRoot, vis |-> "public", at |-> clock + 1] \in Event
    BY DEF Event, TypeOK, Visibilities
  <2>2. relay' \in [Tree -> Event]
    BY <1>12, <2>1, SendType DEF DeleteTree, TypeOK
  <2>3. resolver' \in [Tree -> Known \union {NoEntry}]
    BY <1>12 DEF DeleteTree, TypeOK, Known, Visibilities
  <2> QED BY <1>12, <2>2, <2>3 DEF DeleteTree, CancelPendingPublish, TypeOK
<1>13. CASE Tick
  BY <1>13 DEF Tick, TypeOK
<1>14. CASE UNCHANGED vars
  BY <1>14 DEF TypeOK
<1> QED
  BY <1>1, <1>2, <1>3, <1>4, <1>5, <1>6, <1>7, <1>8, <1>9, <1>10, <1>11, <1>12, <1>13, <1>14
     DEF Next

(* An entry is dirty as long as its timer is armed or its publish failed. *)
LEMMA DirtyStep ==
  ASSUME Inv, [Next]_vars
  PROVE  DirtyIsScheduled'
<1> TypeOK /\ DirtyIsScheduled /\ IntoOK
  BY DEF Inv
<1> USE Kinds DEF vars, viewVars, cacheVars, history
<1>1. ASSUME NEW t \in Tree, NEW root \in Root, NEW vis \in Visibilities \union {"unset"},
             UpdateCache(t, root, vis)
      PROVE  DirtyIsScheduled'
  <2>1. /\ clock + Delay # Never /\ cache' = [cache EXCEPT ![t] = NewEntry(t, root, vis)]
        /\ timer' = [timer EXCEPT ![t] = clock + Delay]
        /\ failed' = failed \ {t}
    BY <1>1 DEF UpdateCache, TypeOK, Never
  <2>2. NewEntry(t, root, vis).dirty /\ NewEntry(t, root, vis) \in CacheEntry
    BY DEF NewEntry, TypeOK, CacheEntry
  <2> QED BY <2>1, <2>2 DEF DirtyIsScheduled, IsDirty, TypeOK
<1>2. ASSUME UNCHANGED <<cacheVars, failed>>
      PROVE  DirtyIsScheduled'
  BY <1>2 DEF DirtyIsScheduled, IsDirty
<1>3. ASSUME NEW t \in Tree, PublishTimer(t)
      PROVE  DirtyIsScheduled'
  <2>1. IsDirty(t) /\ t \notin failed /\ cache[t] \in CacheEntry
    BY <1>3 DEF PublishTimer, DirtyIsScheduled, IsDirty, TypeOK, Never
  <2>2. timer' = [timer EXCEPT ![t] = Never]
    BY <1>3 DEF PublishTimer
  <2>3. CASE Publish(t)
    BY <2>1, <2>2, <2>3 DEF Publish, DirtyIsScheduled, IsDirty, TypeOK, CacheEntry
  <2>4. CASE PublishFails(t)
    BY <2>1, <2>2, <2>4 DEF PublishFails, DirtyIsScheduled, IsDirty, TypeOK
  <2> QED BY <1>3, <2>3, <2>4 DEF PublishTimer
<1>4. CASE DeleteTree
  BY <1>4 DEF DeleteTree, CancelPendingPublish, DirtyIsScheduled, IsDirty, TypeOK
<1>5. ASSUME NEW e \in Edits, Autosave(e)
      PROVE  DirtyIsScheduled'
  <2>1. Mine(selected.tree.name) \in Tree /\ edits[e].base \union {e} \in Root
    BY <1>5 DEF Autosave, OwnSelected, TypeOK, Selection, Progress
  <2> QED BY <1>1, <1>5, <2>1 DEF Autosave
<1>6. ASSUME NEW e \in Edits, InitVirtualTree(e)
      PROVE  DirtyIsScheduled'
  <2>1. edits[e].into \in Tree /\ {e} \in Root /\ edits[e].vis \in Visibilities
    BY <1>6 DEF InitVirtualTree, IntoOK, TypeOK, Progress, Root
  <2> QED BY <1>1, <1>6, <2>1 DEF InitVirtualTree
<1>7. ASSUME NEW n \in Names, NEW vis \in Visibilities, CreateTree(n, vis)
      PROVE  DirtyIsScheduled'
  <2>1. Mine(n) \in Tree
    BY DEF TypeOK
  <2> QED BY <1>1, <1>7, <2>1 DEF CreateTree
<1>8. ASSUME NEW t \in Tree, Visit(t) \/ Load(t)
      PROVE  UNCHANGED <<cacheVars, failed>>
  BY <1>8 DEF Visit, Load
<1>9. ASSUME NEW e \in Edits, StartEdit(e) \/ AutosaveNotOwn(e) \/ EnterVirtualTree(e)
      PROVE  UNCHANGED <<cacheVars, failed>>
  BY <1>9 DEF StartEdit, AutosaveNotOwn, EnterVirtualTree
<1>10. ASSUME Leave \/ Tick \/ UNCHANGED vars \/ \E a \in Accounts : SwitchToAccount(a)
       PROVE  UNCHANGED <<cacheVars, failed>>
  BY <1>10 DEF Leave, Tick, SwitchToAccount
<1> QED
  BY <1>2, <1>3, <1>4, <1>5, <1>6, <1>7, <1>8, <1>9, <1>10 DEF Next

(* A virtual tree's page is remembered until its directory is stored. *)
LEMMA OneInto ==
  ASSUME TypeOK, IntoOK, NEW e \in Edits, NEW p, p.phase = "virtual" => p.into \in Tree,
         edits' = [edits EXCEPT ![e] = p]
  PROVE  IntoOK'
<1>1. edits \in [Edits -> Progress]
  BY DEF TypeOK
<1> QED BY <1>1 DEF IntoOK

LEMMA IntoStep ==
  ASSUME Inv, [Next]_vars
  PROVE  IntoOK'
<1> TypeOK /\ IntoOK
  BY DEF Inv
<1> USE DEF vars, viewVars, cacheVars, history
<1>1. ASSUME NEW e \in Edits, EnterVirtualTree(e)
      PROVE  IntoOK'
  <2>1. CASE route # NoTree /\ route.owner = me
    BY <1>1, <2>1 DEF EnterVirtualTree, IntoOK, TypeOK, Progress
  <2>2. CASE ~(route # NoTree /\ route.owner = me)
    BY <1>1, <2>2 DEF EnterVirtualTree, IntoOK, TypeOK, Progress, Idle
  <2> QED BY <2>1, <2>2
<1>2. ASSUME NEW e \in Edits, StartEdit(e)
      PROVE  IntoOK'
  BY <1>2 DEF StartEdit, IntoOK, TypeOK, Progress
<1>3. ASSUME NEW e \in Edits, Ends(e, "done") \/ Ends(e, "dropped")
      PROVE  IntoOK'
  <2>1. PICK p : edits' = [edits EXCEPT ![e] = p] /\ p.phase # "virtual"
    BY <1>3 DEF Ends, Idle
  <2> QED BY <2>1, OneInto
<1>4. ASSUME NEW e \in Edits, Autosave(e) \/ AutosaveNotOwn(e) \/ InitVirtualTree(e)
      PROVE  IntoOK'
  BY <1>3, <1>4 DEF Autosave, AutosaveNotOwn, InitVirtualTree
<1>5. ASSUME UNCHANGED edits
      PROVE  IntoOK'
  BY <1>5 DEF IntoOK
<1>6. ASSUME NEW t \in Tree, Visit(t) \/ Load(t) \/ PublishTimer(t)
      PROVE  UNCHANGED edits
  BY <1>6 DEF Visit, Load, PublishTimer
<1>7. ASSUME \E n \in Names, vis \in Visibilities : CreateTree(n, vis)
      PROVE  UNCHANGED edits
  BY <1>7 DEF CreateTree
<1>8. ASSUME \/ Leave \/ DeleteTree \/ Tick \/ UNCHANGED vars
             \/ \E a \in Accounts : SwitchToAccount(a)
      PROVE  UNCHANGED edits
  BY <1>8 DEF Leave, DeleteTree, Tick, SwitchToAccount
<1> QED BY <1>1, <1>2, <1>4, <1>5, <1>6, <1>7, <1>8 DEF Next

(* The invariant that carries the types and the timers. *)
LEMMA InvHolds == Spec => []Inv
<1>1. Init => Inv
  <2>1. Init => TypeOK
    BY Kinds DEF Init, TypeOK, Event, Progress, Idle, Visibilities
  <2>2. Init => DirtyIsScheduled /\ IntoOK
    BY DEF Init, Idle, DirtyIsScheduled, IsDirty, IntoOK
  <2> QED BY <2>1, <2>2 DEF Inv
<1>2. Inv /\ [Next]_vars => Inv'
  BY TypeStep, DirtyStep, IntoStep DEF Inv
<1> QED BY <1>1, <1>2, PTL DEF Spec

(* The variables have their types in every reachable state. *)
THEOREM PublisherTypeCorrect == Spec => []TypeOK
<1>1. Inv => TypeOK
  BY DEF Inv
<1> QED BY <1>1, InvHolds, PTL

(* A cached root that is not yet published has the timer that will publish   *)
(* it, or its publish failed and nobody wrote to the tree since, across      *)
(* edits, deletions, account switches, failures and renewed writes; and no   *)
(* timer fires without an entry to publish.                                  *)
THEOREM DirtyRootsAreScheduled == Spec => []DirtyIsScheduled
<1>1. Inv => DirtyIsScheduled
  BY DEF Inv
<1> QED BY <1>1, InvHolds, PTL

-----------------------------------------------------------------------------
(* What was once mixed up between accounts stays marked. *)
LEMMA MixedGrows ==
  ASSUME Inv, [Next]_vars
  PROVE  mixed \subseteq mixed'
<1> USE DEF vars, viewVars, cacheVars, history
<1>1. ASSUME NEW t \in Tree, PublishTimer(t)
      PROVE  mixed \subseteq mixed'
  BY <1>1 DEF PublishTimer, Publish, PublishFails, Mixes
<1>2. ASSUME NEW e \in Edits, InitVirtualTree(e)
      PROVE  mixed \subseteq mixed'
  BY <1>2 DEF InitVirtualTree, Mixes
<1>3. ASSUME NEW t \in Tree, Visit(t) \/ Load(t)
      PROVE  mixed' = mixed
  BY <1>3 DEF Visit, Load
<1>4. ASSUME NEW e \in Edits, StartEdit(e) \/ Autosave(e) \/ AutosaveNotOwn(e) \/ EnterVirtualTree(e)
      PROVE  mixed' = mixed
  BY <1>4 DEF StartEdit, Autosave, AutosaveNotOwn, EnterVirtualTree
<1>5. ASSUME NEW n \in Names, NEW vis \in Visibilities, CreateTree(n, vis)
      PROVE  mixed' = mixed
  BY <1>5 DEF CreateTree
<1>6. ASSUME Leave \/ DeleteTree \/ Tick \/ UNCHANGED vars \/ \E a \in Accounts : SwitchToAccount(a)
      PROVE  mixed' = mixed
  BY <1>6 DEF Leave, DeleteTree, Tick, SwitchToAccount
<1> QED BY <1>1, <1>2, <1>3, <1>4, <1>5, <1>6 DEF Next

(* A publish that mixes nothing up goes to the tree that was written. *)
LEMMA MixesNothing ==
  ASSUME NEW t \in Tree, NEW u, Mixes(t, u), t.name \notin mixed'
  PROVE  u = t /\ mixed' = mixed
BY DEF Mixes

(* A tree deleted on the relay has nothing cached that could be published. *)
GoneOK ==
  \A t \in gone : t.name \notin mixed => relay[t].root = NoRoot /\ cache[t] = NoEntry

(* One step keeps the deleted trees deleted. *)
LEMMA GoneStep ==
  ASSUME Inv, GoneOK, [Next]_vars
  PROVE  GoneOK'
<1> TypeOK /\ DirtyIsScheduled /\ IntoOK
  BY DEF Inv
<1> SUFFICES ASSUME NEW u \in gone', u.name \notin mixed'
             PROVE  relay'[u].root = NoRoot /\ cache'[u] = NoEntry
  BY DEF GoneOK
<1> DEFINE Stays == relay'[u].root = NoRoot /\ cache'[u] = NoEntry
<1>0. u.name \notin mixed /\ (u \in gone => u \in Tree /\ relay[u].root = NoRoot /\ cache[u] = NoEntry)
  BY MixedGrows DEF GoneOK, TypeOK
<1> USE Kinds DEF vars, viewVars, cacheVars, history
<1>1. ASSUME NEW t \in Tree, NEW p \in Tree, NEW root, NEW vis, NEW event,
             UpdateCache(t, root, vis), p.name = t.name, u.name = t.name => p = t,
             Send(p, event) \/ UNCHANGED relay
      PROVE  Stays
  <2>1. u \in gone /\ u # t /\ cache'[u] = cache[u]
    BY <1>0, <1>1 DEF UpdateCache, TypeOK
  <2>2. relay'[u] = relay[u]
    <3>1. u # p
      BY <1>1, <2>1
    <3> QED BY <1>0, <1>1, <2>1, <3>1 DEF Send, TypeOK
  <2> QED BY <1>0, <2>1, <2>2
<1>2. ASSUME NEW t \in Tree, PublishTimer(t)
      PROVE  Stays
  <2>1. u \in gone
    BY <1>2 DEF PublishTimer, Publish, PublishFails
  <2>2. u # t
    BY <1>0, <1>2, <2>1 DEF PublishTimer, TypeOK, DirtyIsScheduled, IsDirty, Never
  <2>3. CASE Publish(t)
    <3>1. cache'[u] = cache[u]
      BY <2>2, <2>3 DEF Publish, TypeOK
    <3>2. Mine(t.name) \in Tree /\ Mine(t.name).name = t.name
      BY DEF Mine, TypeOK
    <3>3. u # Mine(t.name)
      <4> SUFFICES ASSUME u = Mine(t.name)
                   PROVE  FALSE
        OBVIOUS
      <4>1. Mixes(t, Mine(t.name)) /\ t.name \notin mixed'
        BY <2>3, <3>2 DEF Publish
      <4> QED BY <2>2, <4>1, MixesNothing
    <3>4. relay'[u] = relay[u]
      BY <1>0, <2>1, <2>3, <3>2, <3>3 DEF Publish, Save, Send, TypeOK
    <3> QED BY <1>0, <2>1, <3>1, <3>4
  <2>4. CASE PublishFails(t)
    BY <1>0, <2>1, <2>4 DEF PublishFails
  <2> QED BY <1>2, <2>3, <2>4 DEF PublishTimer
<1>3. ASSUME DeleteTree
      PROVE  Stays
  <2>1. route \in Tree /\ cache' = [cache EXCEPT ![route] = NoEntry]
    BY <1>3 DEF DeleteTree, CancelPendingPublish, TypeOK
  <2>2. CASE u = route
    <3>1. cache'[u] = NoEntry
      BY <2>1, <2>2 DEF TypeOK
    <3>2. relay'[route].root = NoRoot \/ (relay' = relay /\ gone' = gone)
      BY <1>3, <2>1 DEF DeleteTree, Send, TypeOK
    <3> QED BY <1>0, <2>2, <3>1, <3>2
  <2>3. CASE u # route
    <3>1. u \in gone /\ cache'[u] = cache[u]
      BY <1>0, <1>3, <2>1, <2>3 DEF DeleteTree, TypeOK
    <3>2. relay'[u] = relay[u]
      BY <1>0, <1>3, <2>1, <2>3, <3>1 DEF DeleteTree, Send, TypeOK
    <3> QED BY <1>0, <3>1, <3>2
  <2> QED BY <2>2, <2>3
<1>4. ASSUME NEW e \in Edits, Autosave(e)
      PROVE  Stays
  <2>1. Mine(selected.tree.name) \in Tree
    BY <1>4 DEF Autosave, OwnSelected, TypeOK, Selection
  <2>2. UpdateCache(Mine(selected.tree.name), edits[e].base \union {e}, "unset") /\ UNCHANGED relay
    BY <1>4 DEF Autosave
  <2> QED BY <1>1, <2>1, <2>2
<1>5. ASSUME NEW e \in Edits, InitVirtualTree(e)
      PROVE  Stays
  <2> DEFINE t == edits[e].into
             p == Mine(t.name)
  <2>1. t \in Tree /\ p \in Tree /\ p.name = t.name
    BY <1>5 DEF InitVirtualTree, IntoOK, Mine, TypeOK
  <2>2. /\ UpdateCache(t, {e}, edits[e].vis)
        /\ Send(p, [root |-> {e}, vis |-> edits[e].vis, at |-> clock])
        /\ Mixes(t, p)
    BY <1>5 DEF InitVirtualTree, Save
  <2> HIDE DEF t, p
  <2>3. u.name = t.name => p = t
    BY <2>1, <2>2, MixesNothing
  <2> QED BY <1>1, <2>1, <2>2, <2>3
<1>6. ASSUME NEW n \in Names, NEW vis \in Visibilities, CreateTree(n, vis)
      PROVE  Stays
  <2>1. Mine(n) \in Tree
    BY DEF TypeOK
  <2> QED BY <1>1, <1>6, <2>1 DEF CreateTree, Save
<1>7. ASSUME UNCHANGED <<relay, cache, gone>>
      PROVE  Stays
  BY <1>0, <1>7
<1>8. ASSUME NEW t \in Tree, Visit(t) \/ Load(t)
      PROVE  Stays
  BY <1>7, <1>8 DEF Visit, Load
<1>9. ASSUME NEW e \in Edits, StartEdit(e) \/ AutosaveNotOwn(e) \/ EnterVirtualTree(e)
      PROVE  Stays
  BY <1>7, <1>9 DEF StartEdit, AutosaveNotOwn, EnterVirtualTree
<1>10. ASSUME Leave \/ Tick \/ UNCHANGED vars \/ \E a \in Accounts : SwitchToAccount(a)
       PROVE  Stays
  BY <1>7, <1>10 DEF Leave, Tick, SwitchToAccount
<1> QED
  BY <1>2, <1>3, <1>4, <1>5, <1>6, <1>8, <1>9, <1>10 DEF Next

(* A tree whose deletion reached the relay stays deleted there until the     *)
(* user writes to it again: deletion leaves no pending publish that could    *)
(* bring it back, but one written for another account's tree of that name.   *)
THEOREM DeletionsLast == Spec => []DeletedStaysDeleted
<1>1. Init => GoneOK
  BY DEF Init, GoneOK
<1>2. Inv /\ GoneOK /\ [Next]_vars => GoneOK'
  BY GoneStep
<1>3. GoneOK => DeletedStaysDeleted
  BY DEF GoneOK, DeletedStaysDeleted
<1> QED BY <1>1, <1>2, <1>3, InvHolds, PTL DEF Spec

(* One step keeps clean entries, the resolver and the page in agreement. *)
LEMMA AgreeStep ==
  ASSUME Inv, CleanAgreesWithResolver, [Next]_vars
  PROVE  CleanAgreesWithResolver'
<1> TypeOK /\ DirtyIsScheduled /\ IntoOK
  BY DEF Inv
<1> DEFINE Clean(u) == cache[u] # NoEntry /\ ~cache[u].dirty
           Agrees(u) == /\ resolver[u] # NoEntry /\ resolver[u].root = cache[u].root
                        /\ route = u => shown = cache[u].root
<1>0. \A u \in Tree : Clean(u) /\ u.name \notin mixed => Agrees(u)
  BY DEF CleanAgreesWithResolver
<1> SUFFICES ASSUME NEW u \in Tree, Clean(u)', u.name \notin mixed'
             PROVE  Agrees(u)'
  BY DEF CleanAgreesWithResolver
<1>a. u.name \notin mixed
  BY MixedGrows
<1> USE Kinds DEF vars, viewVars, cacheVars, history
<1>1. ASSUME cache'[u] = cache[u], resolver'[u] = resolver[u],
             route' = u => route = u /\ shown' = shown
      PROVE  Agrees(u)'
  BY <1>0, <1>a, <1>1
<1>2. ASSUME NEW t \in Tree, NEW root \in Root, NEW vis \in Visibilities \union {"unset"},
             UpdateCache(t, root, vis)
      PROVE  u # t /\ cache'[u] = cache[u]
  BY <1>2 DEF UpdateCache, NewEntry, TypeOK
<1>3. ASSUME NEW t \in Tree, Visit(t)
      PROVE  Agrees(u)'
  <2>1. cache'[u] = cache[u] /\ resolver'[u] = resolver[u] /\ route' = t
    BY <1>3 DEF Visit
  <2>2. cache[u] \in CacheEntry /\ Agrees(u)
    BY <1>0, <1>a, <2>1 DEF TypeOK
  <2>3. cache[u].root \in Root /\ resolver[u].root # NoRoot
    BY <2>2 DEF CacheEntry
  <2>4. route' = u => shown' = resolver[u].root
    BY <1>3, <2>1, <2>2, <2>3 DEF Visit
  <2> QED BY <2>1, <2>2, <2>4
<1>4. ASSUME NEW t \in Tree, Load(t)
      PROVE  Agrees(u)'
  <2>1. cache'[u] = cache[u] /\ route' = route /\ resolver[t] = NoEntry
    BY <1>4 DEF Load
  <2>2. u # t
    BY <1>0, <1>a, <2>1
  <2>3. resolver'[u] = resolver[u]
    BY <1>4, <2>2 DEF Load, TellResolver, TypeOK
  <2>4. route' = u => route = u /\ shown' = shown
    BY <1>4, <2>2 DEF Load
  <2> QED BY <1>1, <2>1, <2>3, <2>4
<1>5. ASSUME NEW t \in Tree, PublishTimer(t)
      PROVE  Agrees(u)'
  <2>1. cache[t] \in CacheEntry /\ route' = route /\ Mine(t.name) \in Tree
    BY <1>5 DEF PublishTimer, TypeOK, DirtyIsScheduled, IsDirty, Never
  <2>2. CASE PublishFails(t)
    <3>1. UNCHANGED <<cache, resolver, shown>>
      BY <2>2 DEF PublishFails
    <3> QED BY <1>1, <2>1, <3>1
  <2>3. CASE Publish(t)
    <3> DEFINE p == Mine(t.name)
    <3>1. /\ shown' = IF route = p THEN cache[t].root ELSE shown
          /\ cache' = [cache EXCEPT ![t].dirty = FALSE]
          /\ Mixes(t, p)
          /\ resolver' = [resolver EXCEPT ![p] =
                            [root |-> cache[t].root, vis |-> VisibilityToPublish(p, cache[t])]]
      BY <2>3 DEF Publish, Save, TellResolver
    <3>2. p.name = t.name /\ t \in Tree
      BY DEF Mine
    <3> HIDE DEF p
    <3>3. CASE u # t
      <4>1. u # p
        BY <3>1, <3>2, <3>3, MixesNothing
      <4>2. cache'[u] = cache[u] /\ resolver'[u] = resolver[u]
        BY <3>1, <3>3, <4>1 DEF TypeOK
      <4> QED BY <1>1, <2>1, <3>1, <4>1, <4>2
    <3>4. CASE u = t
      <4>1. p = t
        BY <3>1, <3>4, MixesNothing
      <4>2. cache'[u].root = cache[t].root
        BY <2>1, <3>1, <3>4 DEF TypeOK, CacheEntry
      <4>3. resolver'[u] = [root |-> cache[t].root, vis |-> VisibilityToPublish(t, cache[t])]
        BY <3>1, <3>4, <4>1 DEF TypeOK
      <4>4. resolver'[u] # NoEntry
        <5>1. VisibilityToPublish(t, cache[t]) \in Visibilities
          BY <2>1 DEF VisibilityToPublish, TypeOK, CacheEntry, Selection, Visibilities
        <5>2. cache[t].root \in Root
          BY <2>1 DEF CacheEntry
        <5> QED BY <4>3, <5>1, <5>2 DEF Known
      <4> QED BY <2>1, <3>1, <3>4, <4>1, <4>2, <4>3, <4>4
    <3> QED BY <3>3, <3>4
  <2> QED BY <1>5, <2>2, <2>3 DEF PublishTimer
<1>6. ASSUME Leave
      PROVE  Agrees(u)'
  BY <1>1, <1>6 DEF Leave
<1>7. ASSUME NEW e \in Edits, Autosave(e)
      PROVE  Agrees(u)'
  <2> DEFINE t == Mine(selected.tree.name)
             root == edits[e].base \union {e}
  <2>1. t \in Tree /\ root \in Root
    BY <1>7 DEF Autosave, OwnSelected, TypeOK, Selection, Progress
  <2>2. UpdateCache(t, root, "unset") /\ shown' = IF route = t THEN root ELSE shown
    BY <1>7 DEF Autosave
  <2>3. resolver' = resolver /\ route' = route
    BY <1>7 DEF Autosave
  <2> HIDE DEF t, root
  <2>4. u # t /\ cache'[u] = cache[u]
    BY <1>2, <2>1, <2>2
  <2> QED BY <1>1, <2>2, <2>3, <2>4
<1>8. ASSUME NEW e \in Edits, InitVirtualTree(e)
      PROVE  Agrees(u)'
  <2> DEFINE t == edits[e].into
             p == Mine(t.name)
             vis == edits[e].vis
  <2>1. t \in Tree /\ {e} \in Root /\ vis \in Visibilities /\ p.name = t.name
    BY <1>8 DEF InitVirtualTree, IntoOK, TypeOK, Progress, Root, Mine
  <2>2. /\ UpdateCache(t, {e}, vis)
        /\ resolver' = [resolver EXCEPT ![p] = [root |-> {e}, vis |-> vis]]
        /\ Mixes(t, p)
        /\ route' = route
        /\ shown' = IF route \in {t, p} THEN {e} ELSE shown
    BY <1>8 DEF InitVirtualTree, Save, TellResolver
  <2> HIDE DEF t, p, vis
  <2>3. u # t /\ cache'[u] = cache[u]
    BY <1>2, <2>1, <2>2
  <2>4. u # p
    BY <2>1, <2>2, <2>3, MixesNothing
  <2>5. resolver'[u] = resolver[u]
    BY <2>2, <2>4 DEF TypeOK
  <2> QED BY <1>1, <2>2, <2>3, <2>4, <2>5
<1>9. ASSUME NEW n \in Names, NEW vis \in Visibilities, CreateTree(n, vis)
      PROVE  Agrees(u)'
  <2> DEFINE t == Mine(n)
  <2>1. t \in Tree
    BY DEF TypeOK
  <2>2. /\ UpdateCache(t, {}, vis)
        /\ Save(t, {}, vis, [tree |-> t, vis |-> vis])
        /\ route' = t
    BY <1>9 DEF CreateTree
  <2> HIDE DEF t
  <2>3. u # t /\ cache'[u] = cache[u]
    BY <1>2, <2>1, <2>2
  <2>4. resolver'[u] = resolver[u]
    BY <2>2, <2>3 DEF Save, TellResolver, TypeOK
  <2> QED BY <1>1, <2>2, <2>3, <2>4
<1>10. ASSUME DeleteTree
       PROVE  Agrees(u)'
  <2>1. /\ route \in Tree /\ route' = NoTree
        /\ cache' = [cache EXCEPT ![route] = NoEntry]
        /\ resolver' = [resolver EXCEPT ![route] = [root |-> NoRoot, vis |-> "public"]]
    BY <1>10 DEF DeleteTree, CancelPendingPublish, TypeOK
  <2>2. u # route
    BY <2>1 DEF TypeOK
  <2>3. cache'[u] = cache[u] /\ resolver'[u] = resolver[u]
    BY <2>1, <2>2 DEF TypeOK
  <2> QED BY <1>1, <2>1, <2>3
<1>11. ASSUME NEW e \in Edits, StartEdit(e) \/ AutosaveNotOwn(e) \/ EnterVirtualTree(e)
       PROVE  Agrees(u)'
  BY <1>1, <1>11 DEF StartEdit, AutosaveNotOwn, EnterVirtualTree
<1>12. ASSUME Tick \/ UNCHANGED vars \/ \E a \in Accounts : SwitchToAccount(a)
       PROVE  Agrees(u)'
  BY <1>1, <1>12 DEF Tick, SwitchToAccount
<1> HIDE DEF Agrees, Clean
<1> QED
  BY <1>3, <1>4, <1>5, <1>6, <1>7, <1>8, <1>9, <1>10, <1>11, <1>12 DEF Next

(* What was published is what edits and the page read: once an entry is     *)
(* clean the resolver, which edits start from, and the page on the tree both *)
(* have its root, unless the name was published under another account.       *)
THEOREM PublishedIsRead == Spec => []CleanAgreesWithResolver
<1>1. Init => CleanAgreesWithResolver
  BY DEF Init, CleanAgreesWithResolver
<1>2. Inv /\ CleanAgreesWithResolver /\ [Next]_vars => CleanAgreesWithResolver'
  BY AgreeStep
<1> QED BY <1>1, <1>2, InvHolds, PTL DEF Spec
=============================================================================
