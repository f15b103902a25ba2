--------------------------- MODULE MCWebRTCFetch ---------------------------
(* Instances of WebRTCFetch for TLC.                                        *)
EXTENDS WebRTCFetch

CONSTANTS p1, p2, h1, g1, g2, a1

(* Both calls ask for h1 and pass the same Uint8Array: a fetch that follows  *)
(* another one then finds what the first one's loops left.                   *)
MCHashOf == [g \in Gets |-> h1]
MCArrayOf == [g \in Gets |-> a1]
=============================================================================
