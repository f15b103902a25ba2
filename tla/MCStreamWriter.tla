--------------------------- MODULE MCStreamWriter ---------------------------
(* Instances of StreamWriter for TLC. *)
EXTENDS StreamWriter
=============================================================================
