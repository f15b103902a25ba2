----------------------------- MODULE TreeEdits ------------------------------
(* Edits of Merkle trees (packages/hashtree/src/tree/edit.ts, and          *)
(* editEncrypted.ts for roots with a key): a directory on a path is        *)
(* replaced by another, and with it every directory above.  An edit        *)
(* returns the new root and the blocks it stored, or Null if it threw.     *)
EXTENDS TreeNodes

(* find() by name: the first of several.                                   *)
FirstOf(found) == IF found = <<>> THEN Null ELSE Head(found)
Find(entries, name) == FirstOf(SelectSeq(entries, LAMBDA e : e.name = name))
Named(name, link) == [link EXCEPT !.name = name]

-----------------------------------------------------------------------------
(* The changes of a directory's entries; Null for no directory or an error. *)
Without(entries, name) ==
  IF entries = Null THEN Null ELSE SelectSeq(entries, LAMBDA e : e.name # name)
WithEntry(entries, link) ==
  IF entries = Null THEN Null ELSE Append(Without(entries, link.name), link)
Renamed(entries, oldName, newName) ==
  IF entries = Null \/ Find(entries, oldName) = Null THEN Null
  ELSE Append(Without(entries, oldName), Named(newName, Find(entries, oldName)))

(* Variation: the link to a rebuilt directory keeps its old key.           *)
ReplacedWithOldKey(entries, name, hash, key) ==
  [i \in DOMAIN entries |->
    IF entries[i].name = name THEN [entries[i] EXCEPT !.hash = hash] ELSE entries[i]]
(* A child on the path is replaced wherever its name is.                   *)
Replaced(entries, name, hash, key) ==
  [i \in DOMAIN entries |->
    IF entries[i].name = name THEN [entries[i] EXCEPT !.hash = hash, !.key = key]
    ELSE entries[i]]

(* A root and what was stored besides to make it.                          *)
WithBlocks(put, stored) == IF put = Null THEN Null ELSE [put EXCEPT !.blocks = @ \union stored]

-----------------------------------------------------------------------------
(* Unencrypted trees: links keep the keys of encrypted files, but a        *)
(* directory on the path is read, and replaced, without a key.             *)
HashOf(e) == IF e = Null THEN Null ELSE e.hash
resolvePathArray(store, rootHash, path) ==
  LET Step(hash, name) ==
        IF hash = Null THEN Null ELSE HashOf(Find(listDirectory(store, hash), name))
  IN FoldLeft(Step, rootHash, path)

RECURSIVE rebuildPath(_, _, _, _)
rebuildPath(store, rootHash, path, child) ==
  IF path = <<>> THEN child
  ELSE LET parent == listDirectory(store, resolvePathArray(store, rootHash, Front(path)))
       IN rebuildPath(store, rootHash, Front(path),
            WithBlocks(putDirectory(Replaced(parent, Last(path), child.hash, Null)), child.blocks))

DirectoryIn(store, hash) == IF hash = Null THEN Null ELSE listDirectory(store, hash)
EntriesAt(store, rootHash, path) == DirectoryIn(store, resolvePathArray(store, rootHash, path))
Rebuilt(store, rootHash, path, entries) ==
  IF entries = Null THEN Null ELSE rebuildPath(store, rootHash, path, putDirectory(entries))

setEntryPlain(store, rootHash, path, link) ==
  Rebuilt(store, rootHash, path, WithEntry(EntriesAt(store, rootHash, path), link))
removeEntryPlain(store, rootHash, path, name) ==
  Rebuilt(store, rootHash, path, Without(EntriesAt(store, rootHash, path), name))
renameEntryPlain(store, rootHash, path, oldName, newName) ==
  IF oldName = newName THEN [hash |-> rootHash, key |-> Null, blocks |-> {}]
  ELSE Rebuilt(store, rootHash, path, Renamed(EntriesAt(store, rootHash, path), oldName, newName))

(* Removed first, then set in the tree without it.                         *)
SetAfter(store, removed, targetPath, link) ==
  WithBlocks(setEntryPlain(store \union removed.blocks, removed.hash, targetPath, link),
             removed.blocks)
moveEntryPlain(store, rootHash, sourcePath, name, targetPath) ==
  LET entries == EntriesAt(store, rootHash, sourcePath)
  IN IF entries = Null \/ Find(entries, name) = Null THEN Null
     ELSE SetAfter(store, removeEntryPlain(store, rootHash, sourcePath, name),
                   targetPath, Find(entries, name))

-----------------------------------------------------------------------------
(* Encrypted trees: the path is followed with the keys of its links, and   *)
(* every new directory gets a new key.                                     *)
KeyedOf(e) == IF e = Null \/ e.key = Null THEN Null ELSE [hash |-> e.hash, key |-> e.key]
resolvePathAndCollectKeys(store, root, path) ==
  LET Step(dir, name) ==
        IF dir = Null THEN Null
        ELSE KeyedOf(Find(listDirectoryEncrypted(store, dir.hash, dir.key), name))
  IN FoldLeft(Step, [hash |-> root.hash, key |-> root.key], path)

DirectoryInEncrypted(store, dir) ==
  IF dir = Null THEN Null ELSE listDirectoryEncrypted(store, dir.hash, dir.key)
EntriesAtEncrypted(store, root, path) ==
  DirectoryInEncrypted(store, resolvePathAndCollectKeys(store, root, path))

RECURSIVE rebuildPathEncrypted(_, _, _, _)
rebuildPathEncrypted(store, root, path, child) ==
  IF path = <<>> THEN child
  ELSE LET parent == EntriesAtEncrypted(store, root, Front(path))
           put == putDirectoryEncrypted(Replaced(parent, Last(path), child.hash, child.key))
       IN rebuildPathEncrypted(store, root, Front(path), WithBlocks(put, child.blocks))

RebuiltEncrypted(store, root, path, entries) ==
  IF entries = Null THEN Null
  ELSE rebuildPathEncrypted(store, root, path, putDirectoryEncrypted(entries))

setEntryEncrypted(store, root, path, link) ==
  RebuiltEncrypted(store, root, path, WithEntry(EntriesAtEncrypted(store, root, path), link))
removeEntryEncrypted(store, root, path, name) ==
  RebuiltEncrypted(store, root, path, Without(EntriesAtEncrypted(store, root, path), name))
renameEntryEncrypted(store, root, path, oldName, newName) ==
  IF oldName = newName THEN [hash |-> root.hash, key |-> root.key, blocks |-> {}]
  ELSE RebuiltEncrypted(store, root, path,
         Renamed(EntriesAtEncrypted(store, root, path), oldName, newName))

-----------------------------------------------------------------------------
(* HashTree: a root with a key is edited as an encrypted tree.             *)
setEntry(store, root, path, link) ==
  IF root.key # Null THEN setEntryEncrypted(store, root, path, link)
  ELSE setEntryPlain(store, root.hash, path, link)
removeEntry(store, root, path, name) ==
  IF root.key # Null THEN removeEntryEncrypted(store, root, path, name)
  ELSE removeEntryPlain(store, root.hash, path, name)
renameEntry(store, root, path, oldName, newName) ==
  IF root.key # Null THEN renameEntryEncrypted(store, root, path, oldName, newName)
  ELSE renameEntryPlain(store, root.hash, path, oldName, newName)
moveEntry(store, root, sourcePath, name, targetPath) ==
  IF root.key # Null THEN Null
  ELSE moveEntryPlain(store, root.hash, sourcePath, name, targetPath)

listEntries(store, dir) ==
  IF dir.key # Null THEN listDirectoryEncrypted(store, dir.hash, dir.key)
  ELSE listDirectory(store, dir.hash)
readEntry(store, file) ==
  IF file.key # Null THEN readFileEncrypted(store, file.hash, file.key)
  ELSE readFile(store, file.hash)

resolvePath(store, root, path) ==
  LET Step(at, name) == IF at = Null THEN Null ELSE Find(listEntries(store, at), name)
      top == Link(root.hash, root.key, 0, "Dir")
  IN FoldLeft(Step, top, path)
=============================================================================
