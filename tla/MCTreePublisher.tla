-------------------------- MODULE MCTreePublisher --------------------------
(* Instances of TreePublisher for TLC. *)
EXTENDS TreePublisher, TLC

CONSTANTS alice, bob, n1, n2, e1, e2

(* every tree exists and is private, but those named n2 *)
MCFirstVisibility == [t \in Tree |-> IF t.name = n2 THEN "public" ELSE "private"]

(* an account switch is not undone *)
MCSwitching == {<<alice, bob>>}

MCSymmetry == Permutations(Edits)
=============================================================================
