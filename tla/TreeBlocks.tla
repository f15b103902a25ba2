----------------------------- MODULE TreeBlocks -----------------------------
(* The blocks that trees of @hashtree/hashtree (packages/hashtree/src) are *)
(* made of: cutting bytes into pieces, encoding nodes, and storing a block *)
(* plain or encrypted.                                                     *)
(*                                                                         *)
(* A block is a sequence of units: bytes of a file, or the header and the  *)
(* links of an encoded node, each one unit long; a node that is cut into   *)
(* chunks decodes to nothing until the chunks are joined again.  Hashing   *)
(* has no collisions: the hash of a block, and the key of its encryption,  *)
(* is the block.  Bytes never look like a node.  Null stands for null and  *)
(* for a thrown error.                                                     *)
EXTENDS Integers, Sequences

CONSTANTS
  chunkSize,  \* units in a chunk
  maxLinks,   \* links in a node of a file
  TagSize,    \* what encryption adds to a block
  Null

ASSUME SizesAssumption ==
  /\ chunkSize \in Nat \ {0} /\ maxLinks \in Nat \ {0, 1} /\ TagSize \in Nat \ {0}

Least(a, b) == IF a <= b THEN a ELSE b
AtLeastZero(a) == IF a >= 0 THEN a ELSE 0

(* slice() of an array: what there is of it from start up to end.          *)
Slice(s, start, end) == SubSeq(s, start + 1, Least(end, Len(s)))

(* The pieces of s of n elements each, the last of what is left.           *)
Pieces(s, n) ==
  [i \in 1 .. (Len(s) + n - 1) \div n |-> Slice(s, (i - 1) * n, i * n)]

-----------------------------------------------------------------------------
(* Encoding and encryption.                                                *)
Link(hash, key, size, type) ==
  [unit |-> "link", name |-> 0, hash |-> hash, key |-> key, size |-> size, type |-> type]

encodeTreeNode(type, links) ==
  <<[unit |-> "header", type |-> type, count |-> Len(links)]>> \o links

tryDecodeTreeNode(data) ==
  IF data # <<>> /\ data[1].unit = "header" /\ data[1].count = Len(data) - 1
  THEN [type |-> data[1].type, links |-> Tail(data)]
  ELSE Null

encryptChk(plaintext) ==
  [ciphertext |-> <<[unit |-> "cipher", of |-> plaintext]>>, key |-> plaintext]

decryptChk(ciphertext, key) ==
  IF ciphertext[1].unit = "cipher" /\ ciphertext[1].of = key THEN key ELSE Null

Length(block) ==
  IF block # <<>> /\ block[1].unit = "cipher" THEN Len(block[1].of) + TagSize ELSE Len(block)

(* Storing one block, as it is or encrypted.                               *)
putBlob(data, secret) ==
  IF secret
  THEN LET c == encryptChk(data)
       IN [hash |-> c.ciphertext, key |-> c.key, blocks |-> {c.ciphertext}]
  ELSE [hash |-> data, key |-> Null, blocks |-> {data}]

AllBlocks(puts) == UNION {puts[i].blocks : i \in DOMAIN puts}
=============================================================================
