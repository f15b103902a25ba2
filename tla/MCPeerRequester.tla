-------------------------- MODULE MCPeerRequester --------------------------
(* Instances of PeerRequester for TLC.                                      *)
EXTENDS PeerRequester, TLC

CONSTANTS h1, h2, c1, c2, c3

(* h1 is a chunk of three fragments, h2 fits one message *)
MCFragmentsOf == [h \in Hashes |-> IF h = h1 THEN 3 ELSE 1]

MCSymmetry == Permutations(Callers)
=============================================================================
