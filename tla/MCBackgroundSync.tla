-------------------------- MODULE MCBackgroundSync --------------------------
(* Instances of BackgroundSync for TLC. *)
EXTENDS BackgroundSync
CONSTANTS friend, mine, theirs
MCTrees == <<theirs, mine>>
MCOwner == [k \in Keys |-> IF k = mine THEN me ELSE friend]
=============================================================================
