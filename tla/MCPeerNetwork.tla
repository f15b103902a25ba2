---------------------------- MODULE MCPeerNetwork ----------------------------
(* A triangle of nodes: a and b know each other, and both know c.           *)
EXTENDS PeerNetwork

CONSTANTS a, b, c, h1, h2

MCLinks == {l \in Pairs : l[1] # l[2]}
MCHeldAtFirst == [n \in Nodes |-> {}]

MCMaxRuns == [n \in Nodes |-> IF n = a THEN 2 ELSE 1]
MCFragile == {<<b,c>>}
MCGets == {<<a, h1>>}
MCPuts == {<<c, h1>>}

(* The links that count a hop at the ends of the range: those of a.         *)
MCDecrements == [l \in Pairs |-> l[1] = a]
=============================================================================
