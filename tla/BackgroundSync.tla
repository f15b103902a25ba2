--------------------------- MODULE BackgroundSync ---------------------------
(* BackgroundSyncService (packages/hashtree-web/src/services/              *)
(* backgroundSync.ts): pulls the user's own trees and the public trees of  *)
(* followed users, one at a time, whenever the resolver lists new roots.   *)
EXTENDS Naturals, Sequences, FiniteSets, SequencesExt

CONSTANTS
  me, Others,    \* the account, and users it may follow
  Trees,         \* all trees, in the order in which they are listed
  Owner,         \* of each tree
  Public,        \* the trees whose visibility is public
  Roots,         \* that a tree may have
  None

ASSUME ListAssumption ==
  /\ Owner \in [ToSet(Trees) -> {me} \union Others] /\ Public \subseteq ToSet(Trees)
  /\ None \notin Roots /\ me \notin Others

Keys == ToSet(Trees)

VARIABLES
  enabled,       \* settings.sync.enabled
  running, listening,   \* whose trees the resolver lists for the service
  syncQueue,
  timer,         \* whether processQueueTimeoutId is set
  task, awaits,  \* the task being processed, or None, and what it awaits
  synced,        \* the root of each tree's TreeSyncState, which outlives the page
  heard,         \* auxiliary: the last root of each tree listed since start()
  failed         \* auxiliary: whether the last attempt at that root threw

processing == <<task, awaits>>
vars == <<enabled, running, listening, syncQueue, timer, processing, synced, heard, failed>>

Init ==
  /\ enabled \in BOOLEAN /\ running = FALSE /\ listening = {}
  /\ syncQueue = <<>> /\ timer = FALSE
  /\ task = None /\ awaits = "nothing"
  /\ synced \in [Keys -> Roots \union {None}]
  /\ heard = [k \in Keys |-> None] /\ failed = {}

-----------------------------------------------------------------------------
(* Logging in and out.                                                     *)
start ==
  /\ ~running /\ running' = TRUE
  /\ listening' = {me}
  /\ UNCHANGED <<enabled, syncQueue, timer, processing, synced, heard, failed>>

stop ==
  /\ running /\ running' = FALSE
  /\ listening' = {} /\ syncQueue' = <<>> /\ timer' = FALSE
  /\ heard' = [k \in Keys |-> None] /\ failed' = {}
  /\ UNCHANGED <<enabled, processing, synced>>

(* The follow list changed while followed users are synced at all.         *)
handleFollowsUpdate(follows) ==
  /\ running
  /\ listening' = {me} \union (follows \ {me})
  /\ UNCHANGED <<enabled, running, syncQueue, timer, processing, synced, heard, failed>>

Settings ==
  /\ enabled' = ~enabled
  /\ UNCHANGED <<running, listening, syncQueue, timer, processing, synced, heard, failed>>

-----------------------------------------------------------------------------
(* The queue: the user's own trees come first, then as they were queued.   *)
Task(key, root) == [key |-> key, root |-> root, priority |-> IF Owner[key] = me THEN 0 ELSE 2]
ByPriority(queue) ==
  SelectSeq(queue, LAMBDA t : t.priority = 0) \o SelectSeq(queue, LAMBDA t : t.priority > 0)
Queued(queue, key) == \E i \in DOMAIN queue : queue[i].key = key

(* Variation: a tree that is queued already keeps the root it has there.   *)
QueueOnce(queue, new) == IF Queued(queue, new.key) THEN queue ELSE ByPriority(Append(queue, new))
queueTreeSync(queue, new) ==
  IF Queued(queue, new.key)
  THEN [i \in DOMAIN queue |-> IF queue[i].key = new.key THEN new ELSE queue[i]]
  ELSE ByPriority(Append(queue, new))

Wanted(user) == SelectSeq(Trees, LAMBDA k : Owner[k] = user /\ (user = me \/ k \in Public))

(* The resolver lists all trees of a user with their roots of the moment;  *)
(* a tree that was not queued sets the timer if there is none.             *)
Listed(user, rootOf) ==
  /\ user \in listening
  /\ IF ~enabled \/ ToSet(Wanted(user)) = {} THEN UNCHANGED <<syncQueue, timer, heard, failed>>
     ELSE LET wanted == Wanted(user)
              new == {k \in ToSet(wanted) : ~Queued(syncQueue, k)}
          IN /\ syncQueue' = FoldLeft(LAMBDA q, k : queueTreeSync(q, Task(k, rootOf[k])),
                                      syncQueue, wanted)
             /\ timer' = (timer \/ new # {})
             /\ heard' = [k \in Keys |-> IF k \in ToSet(wanted) THEN rootOf[k] ELSE heard[k]]
             /\ failed' = {k \in failed : heard'[k] = heard[k]}
  /\ UNCHANGED <<enabled, running, listening, processing, synced>>

Listing == \E user \in {me} \union Others, rootOf \in [Keys -> Roots] : Listed(user, rootOf)

-----------------------------------------------------------------------------
(* One task at a time, from the timer to the end that sets it again.       *)
processQueue ==
  /\ timer
  /\ timer' = FALSE
  /\ IF awaits # "nothing" \/ ~running \/ syncQueue = <<>>
     THEN UNCHANGED <<syncQueue, processing>>
     ELSE /\ task' = [key |-> Head(syncQueue).key, root |-> Head(syncQueue).root]
          /\ awaits' = "syncState"
          /\ syncQueue' = Tail(syncQueue)
  /\ UNCHANGED <<enabled, running, listening, synced, heard, failed>>

Await(what) == awaits' = what /\ UNCHANGED <<task, timer>>

(* Variation: the end of a task leaves the rest to the next listing.       *)
EndTaskOnly == task' = None /\ awaits' = "nothing" /\ UNCHANGED timer
EndTask ==
  /\ task' = None /\ awaits' = "nothing"
  /\ timer' = (timer \/ (syncQueue # <<>> /\ running))

SyncStateRead ==
  /\ awaits = "syncState"
  /\ Await(IF synced[task.key] = task.root THEN "quotas" ELSE "pull")
  /\ UNCHANGED <<enabled, running, listening, syncQueue, synced, heard, failed>>

(* A pull that misses blocks returns as one that does not.                 *)
Pulled ==
  /\ awaits = "pull"
  /\ Await("record")
  /\ UNCHANGED <<enabled, running, listening, syncQueue, synced, heard, failed>>

Recorded ==
  /\ awaits = "record"
  /\ synced' = [synced EXCEPT ![task.key] = task.root]
  /\ failed' = failed \ {task.key}
  /\ Await("quotas")
  /\ UNCHANGED <<enabled, running, listening, syncQueue, heard>>

(* An error of the pull or the record is caught by syncTree(), one of the  *)
(* sync state or the quotas ends the task.                                 *)
Threw ==
  /\ awaits # "nothing"
  /\ failed' = IF heard[task.key] = task.root /\ awaits # "quotas"
               THEN failed \union {task.key} ELSE failed
  /\ IF awaits \in {"pull", "record"} THEN Await("quotas") ELSE EndTask
  /\ UNCHANGED <<enabled, running, listening, syncQueue, synced, heard>>

(* Nothing registers chunks, so the quotas have none to evict.             *)
checkQuotas ==
  /\ awaits = "quotas"
  /\ EndTask
  /\ UNCHANGED <<enabled, running, listening, syncQueue, synced, heard, failed>>

syncTree == SyncStateRead \/ Pulled \/ Recorded \/ Threw \/ checkQuotas
Next ==
  \/ start \/ stop \/ Settings
  \/ \E follows \in SUBSET Others : handleFollowsUpdate(follows)
  \/ Listing
  \/ processQueue \/ syncTree

(* Timers fire, and databases and pulls answer.                            *)
Fairness == WF_vars(processQueue) /\ WF_vars(syncTree)
Spec == Init /\ [][Next]_vars /\ Fairness

-----------------------------------------------------------------------------
(* A service that has tasks has a timer, or a task whose end sets it.      *)
QueueIsServed == syncQueue # <<>> => running /\ (timer \/ awaits # "nothing")

(* When nothing is listed any more, every tree is synced to the last root  *)
(* that was listed for it, unless that failed: no task is stranded behind  *)
(* another, by a replacement in the queue or by a restart                  *)
(* (backgroundSync.ts:2, "automatically syncing trees").                   *)
LastRootsAreSynced ==
  <>[][~Listing]_vars
    => <>[](\A k \in Keys : heard[k] \in {None, synced[k]} \/ k \in failed)
=============================================================================
