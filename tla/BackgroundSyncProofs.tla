------------------------ MODULE BackgroundSyncProofs ------------------------
(* Proofs about BackgroundSync, for any trees, owners and roots.           *)
EXTENDS BackgroundSync, TLAPS

(* Trees are listed only to a service that runs: stop() ends the lists.    *)
ListsEnd == listening # {} => running

QueueInv == QueueIsServed /\ ListsEnd

-----------------------------------------------------------------------------
(* A tree that is not in an empty queue is new in it.                      *)
LEMMA NothingQueued == \A k : ~Queued(<<>>, k)
  BY DEF Queued

LEMMA QueueInit == Init => QueueInv
  BY DEF Init, QueueInv, QueueIsServed, ListsEnd

(* A listing that fills an empty queue sets the timer.                     *)
LEMMA ListedServed ==
  ASSUME QueueInv, NEW user, NEW rootOf, Listed(user, rootOf)
  PROVE  QueueInv'
<1>1. running /\ running' /\ listening' = listening
  BY DEF Listed, QueueInv, ListsEnd
<1>2. CASE ~enabled \/ ToSet(Wanted(user)) = {}
  BY <1>1, <1>2 DEF Listed, QueueInv, QueueIsServed, ListsEnd, processing
<1>3. CASE enabled /\ ToSet(Wanted(user)) # {}
  <2> DEFINE new == {k \in ToSet(Wanted(user)) : ~Queued(syncQueue, k)}
  <2>1. timer' = (timer \/ new # {})
    BY <1>3 DEF Listed
  <2>2. awaits' = awaits
    BY DEF Listed, processing
  <2>3. syncQueue = <<>> => new # {}
    BY <1>3, NothingQueued
  <2>4. timer' \/ awaits' # "nothing"
    <3>1. CASE syncQueue = <<>>
      BY <2>1, <2>3, <3>1
    <3>2. CASE syncQueue # <<>>
      BY <2>1, <2>2, <3>2 DEF QueueInv, QueueIsServed
    <3> QED BY <3>1, <3>2
  <2> QED BY <1>1, <2>4 DEF QueueInv, QueueIsServed, ListsEnd
<1> QED BY <1>2, <1>3

(* The end of a task sets the timer for the rest of the queue.             *)
LEMMA EndTaskServes ==
  ASSUME QueueInv, EndTask, UNCHANGED <<running, listening, syncQueue>>
  PROVE  QueueInv'
  BY DEF QueueInv, QueueIsServed, ListsEnd, EndTask

LEMMA syncTreeServed ==
  ASSUME QueueInv, syncTree
  PROVE  QueueInv'
<1> USE DEF QueueInv, QueueIsServed, ListsEnd, Await
<1>1. CASE SyncStateRead
  BY <1>1 DEF SyncStateRead
<1>2. CASE Pulled
  BY <1>2 DEF Pulled
<1>3. CASE Recorded
  BY <1>3 DEF Recorded
<1>4. CASE Threw
  <2>1. CASE EndTask
    BY <1>4, <2>1, EndTaskServes DEF Threw
  <2>2. CASE Await("quotas")
    BY <1>4, <2>2 DEF Threw
  <2> QED BY <1>4, <2>1, <2>2 DEF Threw
<1>5. CASE checkQuotas
  BY <1>5, EndTaskServes DEF checkQuotas
<1> QED BY <1>1, <1>2, <1>3, <1>4, <1>5 DEF syncTree

LEMMA QueueStep == QueueInv /\ [Next]_vars => QueueInv'
<1> SUFFICES ASSUME QueueInv, [Next]_vars PROVE QueueInv'
  OBVIOUS
<1>1. CASE start
  BY <1>1 DEF start, QueueInv, QueueIsServed, ListsEnd, processing
<1>2. CASE stop
  BY <1>2 DEF stop, QueueInv, QueueIsServed, ListsEnd
<1>3. CASE Settings
  BY <1>3 DEF Settings, QueueInv, QueueIsServed, ListsEnd, processing
<1>4. ASSUME NEW follows \in SUBSET Others, handleFollowsUpdate(follows) PROVE QueueInv'
  BY <1>4 DEF handleFollowsUpdate, QueueInv, QueueIsServed, ListsEnd, processing
<1>5. CASE Listing
  BY <1>5, ListedServed DEF Listing
<1>6. CASE processQueue
  BY <1>6 DEF processQueue, QueueInv, QueueIsServed, ListsEnd, processing
<1>7. CASE syncTree
  BY <1>7, syncTreeServed
<1>8. CASE UNCHANGED vars
  BY <1>8 DEF vars, processing, QueueInv, QueueIsServed, ListsEnd
<1> QED BY <1>1, <1>2, <1>3, <1>4, <1>5, <1>6, <1>7, <1>8 DEF Next

(* No task waits in a queue that nothing will look at again: whatever      *)
(* fails, is listed, replaced or restarted meanwhile, the timer of         *)
(* scheduleProcessQueue() is set or a task runs whose end sets it.         *)
THEOREM TasksAreServed == Spec => []QueueIsServed
<1>1. QueueInv => QueueIsServed
  BY DEF QueueInv
<1> QED BY QueueInit, QueueStep, <1>1, PTL DEF Spec
=============================================================================
