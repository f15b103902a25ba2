------------------------------ MODULE FileTree ------------------------------
(* What the editor of a tree (packages/hashtree-web/src/actions) offers: a *)
(* tree of named files and folders, and edits of it that leave everything  *)
(* alone that they do not name.                                            *)
EXTENDS Naturals, Sequences, SequencesExt, Functions

CONSTANTS
  Names,    \* of files and folders
  Nodes,    \* what can be put at a path
  Folder,   \* the node that is an empty folder
  NoEdit

VARIABLES
  tree,     \* the paths of all files and folders, and what is there
  edit      \* the last edit that was asked for

IsFolder(path) == path = <<>> \/ (path \in DOMAIN tree /\ tree[path] = Folder)
Folders == {<<>>} \union {p \in DOMAIN tree : IsFolder(p)}
AtAndUnder(path) == {p \in DOMAIN tree : IsPrefix(path, p)}

(* Every file or folder is in a folder.                                    *)
Init ==
  /\ \A p \in DOMAIN tree : p # <<>> /\ IsFolder(Front(p))
  /\ edit = NoEdit

Without(paths) == RestrictDomain(tree, LAMBDA p : p \notin paths)

(* Everything at and under one path is at another, with what base has.     *)
Placed(base, from, to) ==
  LET Moved(p) == to \o SubSeq(p, Len(from) + 1, Len(p))
      Origin(q) == from \o SubSeq(q, Len(to) + 1, Len(q))
      moved == {Moved(p) : p \in AtAndUnder(from)}
  IN [q \in DOMAIN base \union moved |-> IF q \in moved THEN tree[Origin(q)] ELSE base[q]]

Put(folder, name, node) ==
  LET path == Append(folder, name)
      base == Without(AtAndUnder(path))
  IN /\ edit' = [op |-> "put", path |-> path, node |-> node]
     /\ tree' = [q \in DOMAIN base \union {path} |-> IF q = path THEN node ELSE base[q]]

Delete(path) ==
  /\ edit' = [op |-> "remove", path |-> path]
  /\ tree' = Without(AtAndUnder(path))

(* A rename to a name that is taken leaves one of the two, whichever.      *)
Rename(path, name) ==
  LET to == Append(Front(path), name)
  IN /\ path # to
     /\ edit' = [op |-> "rename", path |-> path, name |-> name]
     /\ \/ tree' = Placed(Without(AtAndUnder(path) \union AtAndUnder(to)), path, to)
        \/ to \in DOMAIN tree /\ tree' = Without(AtAndUnder(path))

Move(path, folder) ==
  LET to == Append(folder, Last(path))
  IN /\ ~IsPrefix(path, folder) /\ to \notin DOMAIN tree
     /\ edit' = [op |-> "move", path |-> path, folder |-> folder]
     /\ tree' = Placed(Without(AtAndUnder(path)), path, to)

Next ==
  \/ \E folder \in Folders, name \in Names, node \in Nodes : Put(folder, name, node)
  \/ \E path \in DOMAIN tree :
       \/ Delete(path)
       \/ \E name \in Names : Rename(path, name)
       \/ \E folder \in Folders : Move(path, folder)
Spec == Init /\ [][Next]_<<tree, edit>>
=============================================================================
