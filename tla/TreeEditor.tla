----------------------------- MODULE TreeEditor -----------------------------
(* The owner of a tree edits it in the browser (packages/hashtree-web/src/ *)
(* actions): each action edits the root that is shown, shows the new root  *)
(* and goes on to the path it should show then.  Actions run one after     *)
(* another; the view of a path (currentDirHash.ts) is up to date when the  *)
(* next begins.                                                            *)
EXTENDS TreeEdits

CONSTANTS
  Names,       \* of entries, numbered in their order; none looks like a file's
  Contents,    \* what a file is created with and saved as
  MaxEntries,  \* bound: nothing new is created in a tree of so many entries
  Folder,      \* what a folder reads as
  NoEdit

VARIABLES
  root,        \* the root that is shown
  blocks,      \* the blocks of the store that belong to that root
  path,        \* the path of the URL
  edit,        \* the last edit that was asked for
  tree         \* what root and blocks read as: auxiliary, for the refinement

vars == <<root, blocks, path, edit, tree>>

Top == [hash |-> root.hash, key |-> root.key]
EmptyRoot(secret) == IF secret THEN putDirectoryEncrypted(<<>>) ELSE putDirectory(<<>>)

Init ==
  \E secret \in BOOLEAN :
    LET put == EmptyRoot(secret)
    IN /\ root = [hash |-> put.hash, key |-> put.key]
       /\ blocks = put.blocks
       /\ path = <<>> /\ edit = NoEdit /\ tree = <<>>

-----------------------------------------------------------------------------
(* The path of the directory that is shown: of the file's, if it is one.   *)
isViewingFile ==
  LET at == resolvePath(blocks, Top, path) IN at # Null /\ at.type # "Dir"
getCurrentPathFromUrl == IF isViewingFile THEN Front(path) ELSE path
Shown == LET dir == resolvePath(blocks, Top, getCurrentPathFromUrl)
         IN IF dir = Null THEN <<>> ELSE listEntries(blocks, dir)
ShownNames == {e.name : e \in ToSet(Shown)}

(* The blocks that reading all of a tree reads; others are forgotten here. *)
RECURSIVE Used(_, _, _)
Used(store, hash, key) ==
  LET node == NodeIn(Fetched(store, hash, key, key # Null))
      links == IF node = Null THEN {}
               ELSE ToSet(node.links) \union ToSet(Entries(store, hash, key, key # Null))
  IN (store \intersect {hash}) \union UNION {Used(store, l.hash, l.key) : l \in links}

RECURSIVE EntryCount(_, _, _)
EntryCount(store, hash, key) ==
  LET entries == Entries(store, hash, key, key # Null)
  IN FoldLeft(LAMBDA sum, e : sum + 1 + (IF e.type = "Dir" THEN EntryCount(store, e.hash, e.key) ELSE 0),
              0, entries)
HasRoom == EntryCount(blocks, root.hash, root.key) < MaxEntries

(* What a tree reads as: by path, every folder and every file's content.   *)
RECURSIVE NodesIn(_, _)
NodesIn(store, dir) ==
  LET entries == listEntries(store, dir)
      Below(name, link) ==
        IF link.type # "Dir" THEN {[path |-> <<name>>, node |-> readEntry(store, link)]}
        ELSE {[path |-> <<name>>, node |-> Folder]} \union
             {[below EXCEPT !.path = <<name>> \o @] : below \in NodesIn(store, link)}
  IN UNION {Below(name, Find(entries, name)) : name \in {e.name : e \in ToSet(entries)}}
ByPath(nodes) == [p \in {n.path : n \in nodes} |-> (CHOOSE n \in nodes : n.path = p).node]
Visible(store, dir) == ByPath(NodesIn(store, dir))

(* autosaveIfOwn(): the new root is shown at once.                         *)
Show(new, kept) ==
  /\ blocks' = kept /\ tree' = Visible(kept, new)
  /\ root' = [hash |-> new.hash, key |-> new.key]
Save(new, stored) ==
  new # Null /\ Show(new, Used(blocks \union stored \union new.blocks, new.hash, new.key))
Asked(what) == edit' = what
Put(name, node) == [op |-> "put", path |-> Append(getCurrentPathFromUrl, name), node |-> node]

-----------------------------------------------------------------------------
(* Files.  putFile() encrypts, whatever the tree is.                       *)
SetFile(name, data) ==
  LET file == putFileEncrypted(data)
      link == Named(name, Link(file.hash, file.key, Len(data), "Blob"))
  IN /\ Save(setEntry(blocks \union file.blocks, Top, getCurrentPathFromUrl, link), file.blocks)
     /\ Asked(Put(name, data))

saveFile(name, data) ==
  /\ isViewingFile /\ name = Last(path)
  /\ SetFile(name, data)
  /\ UNCHANGED path

createFile(name, data) ==
  /\ HasRoom
  /\ SetFile(name, data)
  /\ path' = Append(getCurrentPathFromUrl, name)

createFolder(name) ==
  /\ HasRoom
  /\ LET dir == putDirectoryEncrypted(<<>>)
         link == Named(name, Link(dir.hash, dir.key, 0, "Dir"))
     IN Save(setEntry(blocks \union dir.blocks, Top, getCurrentPathFromUrl, link), dir.blocks)
  /\ Asked(Put(name, Folder))
  /\ UNCHANGED path

(* Entries: renaming is offered for the directory and the file that are    *)
(* shown, the rest for every entry of the directory.                       *)
renameShown(newName) ==
  /\ path # <<>> /\ newName # Last(path)
  /\ Save(renameEntry(blocks, Top, Front(path), Last(path), newName), {})
  /\ Asked([op |-> "rename", path |-> path, name |-> newName])
  /\ path' = Append(Front(path), newName)

deleteEntry(name) ==
  /\ Save(removeEntry(blocks, Top, getCurrentPathFromUrl, name), {})
  /\ Asked([op |-> "remove", path |-> Append(getCurrentPathFromUrl, name)])
  /\ path' = IF path # <<>> /\ Last(path) = name THEN getCurrentPathFromUrl ELSE path

(* Variation: the deleted folder stays the one that is shown.              *)
DeleteAndStay ==
  /\ path # <<>>
  /\ Save(removeEntry(blocks, Top, Front(path), Last(path)), {})
  /\ Asked([op |-> "remove", path |-> path])
  /\ UNCHANGED path
deleteCurrentFolder ==
  /\ path # <<>>
  /\ Save(removeEntry(blocks, Top, Front(path), Last(path)), {})
  /\ Asked([op |-> "remove", path |-> path])
  /\ path' = Front(path)

Move(name, folder) ==
  /\ Save(moveEntry(blocks, Top, getCurrentPathFromUrl, name, folder), {})
  /\ Asked([op |-> "move", path |-> Append(getCurrentPathFromUrl, name), folder |-> folder])
  /\ path' = IF path # <<>> /\ Last(path) = name THEN getCurrentPathFromUrl ELSE path

HasEntry(dir, name) == Find(listEntries(blocks, dir), name) # Null

moveInto(name, folderName) ==
  LET target == resolvePath(blocks, Top, Append(getCurrentPathFromUrl, folderName))
  IN /\ name # folderName /\ root.key = Null
     /\ target # Null /\ target.type = "Dir" /\ ~HasEntry(target, name)
     /\ Move(name, Append(getCurrentPathFromUrl, folderName))

moveToParent(name) ==
  /\ root.key = Null /\ getCurrentPathFromUrl # <<>>
  /\ ~HasEntry(resolvePath(blocks, Top, Front(getCurrentPathFromUrl)), name)
  /\ Move(name, Front(getCurrentPathFromUrl))

(* Navigation: a click on an entry, and back.                              *)
Open(name) ==
  /\ path' = Append(getCurrentPathFromUrl, name)
  /\ UNCHANGED <<root, blocks, edit, tree>>
goBack ==
  /\ getCurrentPathFromUrl # <<>>
  /\ path' = Front(getCurrentPathFromUrl)
  /\ UNCHANGED <<root, blocks, edit, tree>>

Next ==
  \/ \E name \in Names :
       \/ \E data \in Contents : createFile(name, data) \/ saveFile(name, data)
       \/ createFolder(name) \/ renameShown(name)
  \/ \E name \in ShownNames :
       \/ deleteEntry(name) \/ moveToParent(name) \/ Open(name)
       \/ \E folderName \in ShownNames : moveInto(name, folderName)
  \/ deleteCurrentFolder \/ goBack
Spec == Init /\ [][Next]_vars

-----------------------------------------------------------------------------
Files == INSTANCE FileTree WITH
  Nodes <- Contents \union {Folder}

(* Every edit does to the tree what was asked for and nothing else: no     *)
(* file or folder that it does not name changes, is lost or unreadable,    *)
(* however deep the directories it had to rebuild, in one block or many,   *)
(* encrypted or not.                                                       *)
ImplementsFileTree == Files!Spec

(* The path of the URL always leads to a file or a directory: no edit      *)
(* leaves the editor at a place that it moved, renamed or deleted.         *)
CurrentPathExists == resolvePath(blocks, Top, path) # Null
=============================================================================
