---------------------------- MODULE StreamWriter ----------------------------
(* Writing files (packages/hashtree/src): HashTree.putFile, and the        *)
(* StreamWriter with checkpoints (currentRoot, finalize) on the way.  What *)
(* its calls do to the buffer and the chunks is ChunkWriter's; here are    *)
(* the roots that they hand out.                                           *)
EXTENDS ChunkWriter, TreeNodes

VARIABLE
  file         \* the last root handed out since bytes were appended, its own
               \* blocks and what it should read back as

vars == <<chunkVars, file>>

Init == ChunkInit /\ file = Null

(* A root that is handed out, and the bytes it should read back as: what   *)
(* was appended when it was asked for, or Null if other calls ran.         *)
HandOut(root, size, by, data) ==
  file' = [hash |-> root.hash, key |-> root.key, blocks |-> root.blocks, size |-> size,
           by |-> by, data |-> data]

buildTreeFromChunks(links, secret) ==
  LET Root(fit) == IF Len(fit) = 1 THEN Itself(fit[1]) ELSE Node(fit, secret)
      level == Levels(links, secret)
      top == TopOf(level)
  IN WithBelow(Root(level[top]), level, top, secret)

-----------------------------------------------------------------------------
append(n) == AppendBytes(n) /\ file' = Null

AppendGoesOn(t) == AppendFlushed(t) /\ UNCHANGED file

(* finalize(): builds the tree when nothing is left to flush.              *)
FinalRoot(links) ==
  IF links = <<>> THEN putBlob(<<>>, ~isPublic) ELSE buildTreeFromChunks(links, ~isPublic)

finalize ==
  /\ BeginFinalize
  /\ IF buffer = <<>>
     THEN HandOut(FinalRoot(chunks), totalSize, "finalize",
                  IF tasks = {} THEN Bytes(sent) ELSE Null)
     ELSE UNCHANGED file

FinalizeFlushed(t) ==
  /\ FinalFlushed(t)
  /\ HandOut(FinalRoot(chunks'), totalSize, "finalize",
             IF t.alone /\ tasks = {t} /\ calls = t.id THEN Bytes(sent) ELSE Null)

(* What appends that await a flush have not put into the buffer yet.       *)
Unwritten(waiting) == FoldSet(LAMBDA t, sum : sum + Len(t.rest), 0, waiting)

(* Variation: a checkpoint of the stored chunks only.                      *)
CheckpointOfChunks == IF chunks = <<>> THEN <<FlushedLink(buffer)>> ELSE chunks
(* currentRoot(): a checkpoint of the chunks and a copy of the buffer.     *)
Checkpoint == IF buffer = <<>> THEN chunks ELSE Append(chunks, FlushedLink(buffer))

currentRoot ==
  /\ chunks # <<>> \/ buffer # <<>>
  /\ LET root == buildTreeFromChunks(Checkpoint, ~isPublic)
     IN HandOut([root EXCEPT !.blocks = @ \union Stored(buffer)], Null, "currentRoot",
                IF Overlapping THEN Null ELSE Bytes(sent - Unwritten(tasks)))
  /\ UNCHANGED chunkVars

(* putFile() of a whole file, by itself.                                   *)
PutWhole(n, secret) ==
  /\ calls = 0
  /\ LET root == IF secret THEN putFileEncrypted(Bytes(n)) ELSE putFile(Bytes(n))
     IN HandOut(root, n, "putFile", Bytes(n))
  /\ UNCHANGED chunkVars

Next ==
  \/ \E n \in 1 .. MaxAppend : append(n)
  \/ \E t \in tasks : AppendGoesOn(t) \/ FinalizeFlushed(t)
  \/ finalize \/ currentRoot
  \/ \E n \in 0 .. MaxBytes, secret \in BOOLEAN : PutWhole(n, secret)
Spec == Init /\ [][Next]_vars

-----------------------------------------------------------------------------
Store == blocks \union file.blocks

(* A root reads back as the bytes that were appended by then, each once    *)
(* and in order, wherever the calls cut them into chunks: what the writer  *)
(* of streaming.ts:2, which "supports incremental file appends", is for.   *)
FilesReadBack ==
  (file # Null /\ file.data # Null) =>
    /\ file.data = IF file.key = Null THEN readFile(Store, file.hash)
                   ELSE readFileEncrypted(Store, file.hash, file.key)
    /\ file.size # Null => file.size = Len(file.data)

(* Part of a file is what a slice of the whole would be.                   *)
SeeksAgree(f) ==
  /\ \A offset \in 0 .. Len(f.data) :
       Slice(f.data, offset, Len(f.data)) =
         IF f.key = Null THEN readFileStream(Store, f.hash, offset)
         ELSE readFileEncryptedStream(Store, f.hash, f.key, offset)
  /\ \A start \in 0 .. Len(f.data) : \A end \in start .. Len(f.data) + 1 :
       Slice(f.data, start, end) =
         IF f.key = Null THEN readFileRange(Store, f.hash, start, end)
         ELSE readFileEncryptedRange(Store, f.hash, f.key, start, end)

(* MediaPlayer seeks in recordings and public files: any range and any     *)
(* offset of them reads as the same part of the whole file.  The links of  *)
(* what putFile() encrypts have the sizes of the ciphertexts               *)
(* (encrypted.ts:77), so parts of such a file are not what they should be. *)
StreamsSeek ==
  (file # Null /\ file.data # Null /\ (file.by # "putFile" \/ file.key = Null))
    => SeeksAgree(file)
=============================================================================
