--------------------------- MODULE MCRefResolver ---------------------------
(* Instances of RefResolver for TLC. *)
EXTENDS RefResolver, TLC

CONSTANTS t1, A, B, s1, s2, l1, l2

MCSymmetry == Permutations(Values) \union Permutations(Subscribers) \union Permutations(Listeners)
=============================================================================
