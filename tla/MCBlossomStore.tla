--------------------------- MODULE MCBlossomStore ---------------------------
(* Instances of BlossomStore for TLC. *)
EXTENDS BlossomStore
CONSTANTS near, far
MCServers == <<near, far>>
=============================================================================
