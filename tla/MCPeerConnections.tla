-------------------------- MODULE MCPeerConnections --------------------------
(* Three sessions; the middle one follows the first, has room for one peer  *)
(* in each pool, and is the one whose settings change.                      *)
EXTENDS PeerConnections

MCNodes == 1 .. 3
Pool(max, satisfied) == [max |-> max, satisfied |-> satisfied]
Config(f, o) == [pool \in Pools |-> IF pool = "follows" THEN f ELSE o]
MCConfigs == {Config(Pool(1, 1), Pool(0, 0))}
MCConfigAtFirst == [n \in MCNodes |->
  IF n = 2 THEN Config(Pool(1, 0), Pool(1, 0)) ELSE Config(Pool(1, 1), Pool(1, 1))]
MCShares == [n \in MCNodes |-> IF n = 2 THEN {1, 3} ELSE {2}]
MCMaxPeers == <<2, 2, 1>>
MCChanging == {<<2, 3>>}
MCFollowsAtFirst == [n \in MCNodes |-> IF n = 2 THEN {1} ELSE {}]
=============================================================================
