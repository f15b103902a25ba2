---------------------------- MODULE MCTreeEditor ----------------------------
(* Instances of TreeEditor for TLC. *)
EXTENDS TreeEditor
MCByte(i) == [unit |-> "byte", value |-> i]
MCContents == {<<MCByte(1)>>, <<MCByte(2), MCByte(3), MCByte(4)>>}
=============================================================================
