----------------------------- MODULE TreeNodes -----------------------------
(* Merkle trees of @hashtree/hashtree (packages/hashtree/src): how files   *)
(* and directories become blocks, and how the blocks are read back.        *)
EXTENDS TreeBlocks, FiniteSets, SequencesExt

Joined(parts) ==
  IF \E i \in DOMAIN parts : parts[i] = Null THEN Null ELSE FlattenSeq(parts)

-----------------------------------------------------------------------------
(* Files.  Links that do not fit in one node get nodes of maxLinks links   *)
(* each, level by level, until the links to those fit in the root.         *)
TotalSize(links) ==
  LET sum[k \in 0 .. Len(links)] == IF k = 0 THEN 0 ELSE sum[k - 1] + links[k].size
  IN sum[Len(links)]

Node(links, secret) == putBlob(encodeTreeNode("File", links), secret)
NodeLink(node, links) == Link(node.hash, node.key, TotalSize(links), "File")

NodesAbove(links, secret) ==
  LET batches == Pieces(links, maxLinks)
  IN [i \in DOMAIN batches |-> Node(batches[i], secret)]
LinksAbove(links, secret) ==
  LET batches == Pieces(links, maxLinks)
  IN [i \in DOMAIN batches |-> NodeLink(Node(batches[i], secret), batches[i])]

Levels(links, secret) ==
  LET level[k \in 0 .. Len(links)] ==
        IF k = 0 THEN links ELSE LinksAbove(level[k - 1], secret)
  IN level
TopOf(level) ==
  CHOOSE k \in DOMAIN level :
    Len(level[k]) <= maxLinks /\ \A j \in 0 .. k - 1 : Len(level[j]) > maxLinks
BlocksBelow(level, top, secret) ==
  UNION {AllBlocks(NodesAbove(level[k], secret)) : k \in 0 .. top - 1}

Itself(link) == [hash |-> link.hash, key |-> link.key, blocks |-> {}]
WithBelow(root, level, top, secret) ==
  [root EXCEPT !.blocks = @ \union BlocksBelow(level, top, secret)]

buildTree(links, totalSize, secret) ==
  LET Root(fit) == IF Len(fit) = 1 /\ fit[1].size = totalSize
                   THEN Itself(fit[1]) ELSE Node(fit, secret)
      level == Levels(links, secret)
      top == TopOf(level)
  IN WithBelow(Root(level[top]), level, top, secret)

(* A link of an unencrypted file has the size of the chunk, one of an      *)
(* encrypted file that of the ciphertext.                                  *)
ChunkLink(chunk) == Link(chunk.hash, chunk.key, Length(chunk.hash), "Blob")

PutChunked(data, secret) ==
  IF Len(data) <= chunkSize
  THEN putBlob(data, secret)
  ELSE LET pieces == Pieces(data, chunkSize)
           chunks == [i \in DOMAIN pieces |-> putBlob(pieces[i], secret)]
           root == buildTree([i \in DOMAIN chunks |-> ChunkLink(chunks[i])], Len(data), secret)
       IN [root EXCEPT !.blocks = @ \union AllBlocks(chunks)]
putFile(data) == PutChunked(data, FALSE)
putFileEncrypted(data) == PutChunked(data, TRUE)

-----------------------------------------------------------------------------
(* Directories: entries sorted by name, equal names in their order.        *)
Sorted(entries) ==
  LET names == {entries[i].name : i \in DOMAIN entries}
  IN FlattenSeq([k \in 1 .. Cardinality(names) |->
       SelectSeq(entries, LAMBDA e : Cardinality({n \in names : n < e.name}) = k - 1)])

PutNode(entries, secret) ==
  LET data == encodeTreeNode("Dir", Sorted(entries))
  IN IF Len(data) <= chunkSize THEN putBlob(data, secret) ELSE PutChunked(data, secret)
putDirectory(entries) == PutNode(entries, FALSE)
putDirectoryEncrypted(entries) == PutNode(entries, TRUE)

-----------------------------------------------------------------------------
(* Reading from the blocks of a store.  The children of an encrypted node  *)
(* are read with the keys of its links, the others as they are.            *)
Fetched(store, hash, key, secret) ==
  IF hash \notin store THEN Null ELSE IF secret THEN decryptChk(hash, key) ELSE hash
NodeIn(data) == IF data = Null THEN Null ELSE tryDecodeTreeNode(data)

(* The data of a block that was fetched.                                   *)
Opened(block, secret) == IF secret THEN block[1].of ELSE block

(* What a link holds, given what the nodes of the store hold.              *)
Held(store, whole, link, secret) ==
  LET data == Fetched(store, link.hash, link.key, secret)
  IN IF data = Null \/ link.type = "Blob" THEN data ELSE whole[link.hash]
assembleChunks(store, hash, secret) ==
  LET whole[h \in store] ==
        LET node == NodeIn(Opened(h, secret))
        IN IF node = Null THEN Null
           ELSE Joined([i \in DOMAIN node.links |-> Held(store, whole, node.links[i], secret)])
  IN whole[hash]

WholeFile(store, hash, key, secret) ==
  LET data == Fetched(store, hash, key, secret)
  IN IF NodeIn(data) = Null THEN data ELSE assembleChunks(store, hash, secret)
readFile(store, hash) == WholeFile(store, hash, Null, FALSE)
readFileEncrypted(store, hash, key) == WholeFile(store, hash, key, TRUE)

(* Reading from an offset on: the links that end before it are skipped by  *)
(* their sizes, a leaf that begins before it is cut.                       *)
PositionOf(links, i) == TotalSize(SubSeq(links, 1, i - 1))
Skipped(links, k, from) ==
  \A i \in 1 .. k : links[i].size > 0 /\ PositionOf(links, i + 1) <= from
FirstRead(links, from) ==
  CHOOSE k \in 1 .. Len(links) + 1 :
    Skipped(links, k - 1, from) /\ (k = Len(links) + 1 \/ ~Skipped(links, k, from))

HeldFrom(store, rest, link, from, secret) ==
  LET data == Fetched(store, link.hash, link.key, secret)
  IN IF data = Null THEN Null
     ELSE IF link.type = "Blob" THEN Slice(data, from, Len(data))
     ELSE rest[link.hash][from]
LinksFrom(store, rest, links, from, secret) ==
  LET first == FirstRead(links, from)
      piece(i) ==
        HeldFrom(store, rest, links[i], AtLeastZero(from - PositionOf(links, i)), secret)
  IN Joined([j \in 1 .. Len(links) + 1 - first |-> piece(first + j - 1)])
streamChunksWithOffset(store, hash, offset, secret) ==
  LET rest[h \in store] ==
        LET node == NodeIn(Opened(h, secret))
        IN [from \in Nat |->
             IF node = Null THEN Null ELSE LinksFrom(store, rest, node.links, from, secret)]
  IN rest[hash][offset]

(* Reading from start up to end: a child gets what of the range is left    *)
(* for it, and no more is taken than the range is long.                    *)
HeldRange(store, range, link, from, to, secret) ==
  LET data == Fetched(store, link.hash, link.key, secret)
  IN IF data = Null THEN Null
     ELSE IF link.type = "Blob" THEN Slice(data, from, to)
     ELSE range[link.hash][from][to]
Passed(store, link, secret) ==
  LET data == Fetched(store, link.hash, link.key, secret)
  IN IF link.type = "Blob" /\ data # Null THEN Len(data) ELSE link.size
AddLink(store, range, sofar, link, from, to, secret) ==
  LET inside == AtLeastZero(from - sofar.position)
      part == HeldRange(store, range, link, inside, to - sofar.position, secret)
  IN IF sofar.bytes = Null \/ Len(sofar.bytes) >= to - from THEN sofar
     ELSE IF link.size > 0 /\ sofar.position + link.size <= from
     THEN [sofar EXCEPT !.position = @ + link.size]
     ELSE [position |-> sofar.position + Passed(store, link, secret),
           bytes |-> IF part = Null THEN Null ELSE Slice(sofar.bytes \o part, 0, to - from)]
LinksRange(store, range, links, from, to, secret) ==
  LET sofar[i \in 0 .. Len(links)] ==
        IF i = 0 THEN [position |-> 0, bytes |-> <<>>]
        ELSE AddLink(store, range, sofar[i - 1], links[i], from, to, secret)
  IN sofar[Len(links)].bytes
readRangeFromNode(store, hash, start, end, secret) ==
  LET range[h \in store] ==
        LET node == NodeIn(Opened(h, secret))
        IN [from \in Nat |-> [to \in Int |->
             IF node = Null THEN Null ELSE LinksRange(store, range, node.links, from, to, secret)]]
  IN range[hash][start][end]

FileFrom(store, hash, key, offset, secret) ==
  LET data == Fetched(store, hash, key, secret)
  IN IF data = Null THEN Null
     ELSE IF NodeIn(data) = Null THEN Slice(data, offset, Len(data))
     ELSE streamChunksWithOffset(store, hash, offset, secret)
readFileStream(store, hash, offset) == FileFrom(store, hash, Null, offset, FALSE)
readFileEncryptedStream(store, hash, key, offset) == FileFrom(store, hash, key, offset, TRUE)

FileRange(store, hash, key, start, end, secret) ==
  LET data == Fetched(store, hash, key, secret)
  IN IF data = Null THEN Null
     ELSE IF NodeIn(data) = Null THEN Slice(data, start, end)
     ELSE readRangeFromNode(store, hash, start, end, secret)
readFileRange(store, hash, start, end) == FileRange(store, hash, Null, start, end, FALSE)
readFileEncryptedRange(store, hash, key, start, end) ==
  FileRange(store, hash, key, start, end, TRUE)

(* The entries of a directory, and none of what is not one.                *)
WholeNode(store, hash, key, secret) ==
  LET node == NodeIn(Fetched(store, hash, key, secret))
  IN IF node = Null \/ node.type = "Dir" THEN node ELSE NodeIn(assembleChunks(store, hash, secret))
EntriesOf(node) == IF node = Null \/ node.type # "Dir" THEN <<>> ELSE node.links
Entries(store, hash, key, secret) == EntriesOf(WholeNode(store, hash, key, secret))
listDirectory(store, hash) == Entries(store, hash, Null, FALSE)
listDirectoryEncrypted(store, hash, key) == Entries(store, hash, key, TRUE)
=============================================================================
