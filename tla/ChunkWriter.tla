----------------------------- MODULE ChunkWriter ----------------------------
(* The StreamWriter that uploads and recordings append to (packages/       *)
(* hashtree/src/streaming.ts), up to the chunks that it stores: append()   *)
(* and the flushes of append() and finalize().  StreamWriter adds the      *)
(* trees that are built from the chunks.  Bytes are numbered in the order  *)
(* in which they are appended.  A flush awaits encryption, hashing and the *)
(* store; calls that run meanwhile find the buffer as it was.              *)
EXTENDS TreeBlocks

CONSTANTS
  MaxBytes,    \* bound: bytes of a file
  MaxAppend,   \* bound: bytes of one append
  MaxCalls,    \* bound: finalize() is called while there were fewer calls
  Overlapping  \* whether append() and finalize() are called while others run

ASSUME WriterAssumption ==
  /\ MaxBytes \in Nat /\ MaxAppend \in Nat /\ MaxCalls \in Nat
  /\ Overlapping \in BOOLEAN

VARIABLES
  isPublic,
  buffer,      \* bytes of the chunk being built
  chunks,      \* links of the chunks that are stored
  totalSize,   \* bytes of the appends that have ended
  blocks,      \* the chunks in the store
  sent,        \* bytes appended so far
  calls,       \* calls of append() and finalize() so far
  tasks        \* calls that await a flush

writerVars == <<isPublic, buffer, chunks, totalSize>>
chunkVars == <<writerVars, blocks, sent, calls, tasks>>

Byte(i) == [unit |-> "byte", value |-> i]
Bytes(n) == [i \in 1 .. n |-> Byte(i)]

ChunkInit ==
  /\ isPublic \in BOOLEAN
  /\ buffer = <<>> /\ chunks = <<>> /\ totalSize = 0
  /\ blocks = {} /\ sent = 0 /\ calls = 0 /\ tasks = {}

(* Variation: the link of a chunk has the size of what is stored.          *)
StoredLink(put, chunk) == Link(put.hash, put.key, Length(put.hash), "Blob")
FlushLink(put, chunk) == Link(put.hash, put.key, Len(chunk), "Blob")
FlushedLink(chunk) == FlushLink(putBlob(chunk, ~isPublic), chunk)
Stored(chunk) == putBlob(chunk, ~isPublic).blocks

flushChunk(chunk) ==
  /\ chunks' = Append(chunks, FlushedLink(chunk))
  /\ blocks' = blocks \union Stored(chunk)

-----------------------------------------------------------------------------
(* append(): fills the buffer; a full one is flushed before it goes on.    *)
Proceed(have, data, size, id, others) ==
  LET room == chunkSize - Len(have)
      filled == have \o Slice(data, 0, room)
  IN /\ buffer' = filled
     /\ IF Len(filled) = chunkSize
        THEN /\ tasks' = others \union
                  {[call |-> "append", id |-> id, chunk |-> filled, alone |-> FALSE,
                    rest |-> Slice(data, room, Len(data)), size |-> size]}
             /\ UNCHANGED totalSize
        ELSE /\ tasks' = others
             /\ totalSize' = totalSize + size

MayBegin == Overlapping \/ tasks = {}

AppendBytes(n) ==
  /\ MayBegin /\ sent + n <= MaxBytes
  /\ sent' = sent + n /\ calls' = calls + 1
  /\ Proceed(buffer, Slice(Bytes(sent + n), sent, sent + n), n, calls + 1, tasks)
  /\ UNCHANGED <<isPublic, chunks, blocks>>

AppendFlushed(t) ==
  /\ t.call = "append"
  /\ flushChunk(t.chunk)
  /\ IF t.rest = <<>>
     THEN /\ buffer' = <<>> /\ tasks' = tasks \ {t}
          /\ totalSize' = totalSize + t.size
     ELSE Proceed(<<>>, t.rest, t.size, t.id, tasks \ {t})
  /\ UNCHANGED <<isPublic, sent, calls>>

(* finalize(): flushes what the buffer holds, if it holds anything.        *)
BeginFinalize ==
  /\ MayBegin /\ calls < MaxCalls
  /\ calls' = calls + 1
  /\ tasks' = IF buffer = <<>> THEN tasks
              ELSE tasks \union
                     {[call |-> "finalize", id |-> calls + 1, chunk |-> buffer,
                       alone |-> tasks = {}, rest |-> <<>>, size |-> 0]}
  /\ UNCHANGED <<writerVars, blocks, sent>>

FinalFlushed(t) ==
  /\ t.call = "finalize"
  /\ flushChunk(t.chunk)
  /\ buffer' = <<>> /\ tasks' = tasks \ {t}
  /\ UNCHANGED <<isPublic, totalSize, sent, calls>>

ChunkNext ==
  \/ \E n \in 1 .. MaxAppend : AppendBytes(n)
  \/ \E t \in tasks : AppendFlushed(t) \/ FinalFlushed(t)
  \/ BeginFinalize
ChunkSpec == ChunkInit /\ [][ChunkNext]_chunkVars

-----------------------------------------------------------------------------
(* The bytes after the first from up to the first to.                      *)
Part(from, to) == [i \in 1 .. to - from |-> Byte(from + i)]

(* The chunks are the bytes up to some point, cut at cuts: each is stored, *)
(* and its link opens it and has its length.                               *)
CutAt(cuts) ==
  /\ cuts[1] = 0
  /\ \A i \in DOMAIN chunks :
       /\ cuts[i + 1] - cuts[i] \in 1 .. chunkSize
       /\ chunks[i] = FlushedLink(Part(cuts[i], cuts[i + 1]))
       /\ Stored(Part(cuts[i], cuts[i + 1])) \subseteq blocks

(* The chunks, and then the buffer, are the bytes appended, each once and  *)
(* in order, as far as the calls have come; between calls they are all of  *)
(* them, and totalSize counts them.                                        *)
ChunksAndBuffer(cuts) ==
  LET at == cuts[Len(chunks) + 1]
  IN /\ CutAt(cuts)
     /\ at + Len(buffer) <= sent
     /\ buffer = Part(at, at + Len(buffer))
     /\ tasks = {} => at + Len(buffer) = sent /\ totalSize = sent

BytesInOrder == \E cuts \in [1 .. Len(chunks) + 1 -> 0 .. sent] : ChunksAndBuffer(cuts)
=============================================================================
