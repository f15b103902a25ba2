---------------------------- MODULE BlossomStore ----------------------------
(* The store of blobs on HTTP servers (packages/hashtree/src/store/        *)
(* blossom.ts).  A server that fails is left alone for a while, which      *)
(* doubles with every error until a success; get() and has() ask the       *)
(* others in turn, puts run one after another and upload to all at once.   *)
EXTENDS Integers, Sequences, FiniteSets, SequencesExt

CONSTANTS
  Servers,      \* in the order of the configuration
  Writable,     \* those that accept writes
  Blobs,
  Callers,
  MaxBackoff,   \* a power of 2, in units of BASE_BACKOFF_MS
  MaxErrors     \* the number of errors from which on the back-off is MaxBackoff

ServerSet == ToSet(Servers)

ASSUME BackoffAssumption ==
  /\ Writable \subseteq ServerSet
  /\ MaxErrors \in Nat \ {0} /\ 2 ^ (MaxErrors - 1) >= MaxBackoff

VARIABLES
  errors,       \* consecutiveErrors of each server, MaxErrors for more
  left,         \* how much of its back-off is left, by lastErrorTime and the clock
  writeQueue,   \* callers of put(), the first one's upload running
  calls,        \* what each caller awaits, or its last result
  working,      \* the servers that answer as they should
  stored        \* the blobs on each server

health == <<errors, left>>
servers == <<working, stored>>
vars == <<health, writeQueue, calls, servers>>

Idle(result) == [op |-> "idle", result |-> result]

Init ==
  /\ errors = [s \in ServerSet |-> 0] /\ left = [s \in ServerSet |-> 0]
  /\ writeQueue = <<>>
  /\ calls = [c \in Callers |-> Idle("none")]
  /\ working \in SUBSET ServerSet
  /\ stored \in [ServerSet -> SUBSET Blobs]

-----------------------------------------------------------------------------
(* Variation: a server is left alone until it succeeds.                    *)
FailedLast(s) == errors[s] > 0
isServerInBackoff(s) == errors[s] > 0 /\ left[s] > 0

BackoffAfter(n) == LET ms == 2 ^ (n - 1) IN IF ms < MaxBackoff THEN ms ELSE MaxBackoff

recordError(s) ==
  LET n == IF errors[s] < MaxErrors THEN errors[s] + 1 ELSE MaxErrors
  IN /\ errors' = [errors EXCEPT ![s] = n]
     /\ left' = [left EXCEPT ![s] = BackoffAfter(n)]
recordSuccess(s) ==
  /\ errors' = [errors EXCEPT ![s] = 0]
  /\ left' = [left EXCEPT ![s] = 0]

Return(c, result) == calls' = [calls EXCEPT ![c] = Idle(result)]

-----------------------------------------------------------------------------
(* get() and has(): one server after another, those in back-off skipped.   *)
Candidates(n) == {i \in DOMAIN Servers : i >= n /\ ~isServerInBackoff(Servers[i])}
AskFrom(c, op, b, n) ==
  IF Candidates(n) = {} THEN Return(c, "null")
  ELSE calls' = [calls EXCEPT ![c] =
         [op |-> op, blob |-> b,
          at |-> CHOOSE i \in Candidates(n) : \A j \in Candidates(n) : i <= j]]

Read(c, op, b) ==
  /\ calls[c].op = "idle"
  /\ AskFrom(c, op, b, 1)
  /\ UNCHANGED <<health, writeQueue, servers>>
get(c, b) == Read(c, "get", b)
has(c, b) == Read(c, "has", b)

Found(c) ==
  LET s == Servers[calls[c].at]
  IN /\ calls[c].op \in {"get", "has"}
     /\ s \in working /\ calls[c].blob \in stored[s]
     /\ recordSuccess(s)
     /\ Return(c, IF calls[c].op = "get" THEN calls[c].blob ELSE "yes")
     /\ UNCHANGED <<writeQueue, servers>>

(* 404, and to has() any answer below 500, is no error.                    *)
Missing(c) ==
  LET s == Servers[calls[c].at]
  IN /\ calls[c].op \in {"get", "has"}
     /\ \/ s \in working /\ calls[c].blob \notin stored[s]
        \/ s \notin working /\ calls[c].op = "has"
     /\ AskFrom(c, calls[c].op, calls[c].blob, calls[c].at + 1)
     /\ UNCHANGED <<health, writeQueue, servers>>

(* An error, no connection or, to get(), bytes of another hash.            *)
Failed(c) ==
  LET s == Servers[calls[c].at]
  IN /\ calls[c].op \in {"get", "has"} /\ s \notin working
     /\ recordError(s)
     /\ AskFrom(c, calls[c].op, calls[c].blob, calls[c].at + 1)
     /\ UNCHANGED <<writeQueue, servers>>

-----------------------------------------------------------------------------
(* put(): doPut() runs when the puts before it have settled.  It throws if   *)
(* all servers are in back-off, or createAuthHeader() gets no signature.     *)
put(c, b) ==
  /\ calls[c].op = "idle"
  /\ calls' = [calls EXCEPT ![c] = [op |-> "queued", blob |-> b]]
  /\ writeQueue' = Append(writeQueue, c)
  /\ UNCHANGED <<health, servers>>

doPut(c) ==
  LET writeServers == {s \in Writable : ~isServerInBackoff(s)}
  IN /\ writeQueue # <<>> /\ c = Head(writeQueue) /\ calls[c].op = "queued"
     /\ \/ Return(c, "thrown") /\ writeQueue' = Tail(writeQueue)
        \/ /\ writeServers # {}
           /\ calls' = [calls EXCEPT ![c] =
                [op |-> "put", blob |-> @.blob, asked |-> writeServers, fulfilled |-> FALSE]]
           /\ UNCHANGED writeQueue
     /\ UNCHANGED <<health, servers>>

Settle(c, s, fulfilled) ==
  LET asked == calls[c].asked \ {s}
      any == calls[c].fulfilled \/ fulfilled
  IN IF asked # {}
     THEN /\ calls' = [calls EXCEPT ![c].asked = asked, ![c].fulfilled = any]
          /\ UNCHANGED writeQueue
     ELSE /\ Return(c, IF any THEN "stored" ELSE "thrown")
          /\ writeQueue' = Tail(writeQueue)

Uploaded(c, s) ==
  /\ calls[c].op = "put" /\ s \in calls[c].asked /\ s \in working
  /\ stored' = [stored EXCEPT ![s] = @ \union {calls[c].blob}]
  /\ recordSuccess(s) /\ Settle(c, s, TRUE)
  /\ UNCHANGED working

(* The server may have kept the blob all the same.                         *)
UploadFailed(c, s) ==
  /\ calls[c].op = "put" /\ s \in calls[c].asked /\ s \notin working
  /\ \E kept \in SUBSET {calls[c].blob} : stored' = [stored EXCEPT ![s] = @ \union kept]
  /\ recordError(s) /\ Settle(c, s, FALSE)
  /\ UNCHANGED working

(* delete(): the first server for writes is asked, in back-off or not, when  *)
(* createAuthHeader() has a signature.                                       *)
FirstWritable == CHOOSE i \in DOMAIN Servers :
  Servers[i] \in Writable /\ \A j \in 1 .. i - 1 : Servers[j] \notin Writable
delete(c, b) ==
  /\ calls[c].op = "idle" /\ Writable # {}
  /\ \/ calls' = [calls EXCEPT ![c] = [op |-> "delete", blob |-> b, at |-> FirstWritable]]
     \/ Return(c, "thrown")
  /\ UNCHANGED <<health, writeQueue, servers>>

Deleted(c) ==
  LET s == Servers[calls[c].at]
  IN /\ calls[c].op = "delete"
     /\ \/ s \in working /\ Return(c, "deleted")
        \/ s \notin working /\ Return(c, "thrown")
     /\ stored' = IF s \in working THEN [stored EXCEPT ![s] = @ \ {calls[c].blob}] ELSE stored
     /\ UNCHANGED <<health, writeQueue, working>>

-----------------------------------------------------------------------------
(* Outside: time, and servers that break down and come back.               *)
Tick ==
  /\ \E s \in ServerSet : left[s] > 0
  /\ left' = [s \in ServerSet |-> IF left[s] > 0 THEN left[s] - 1 ELSE 0]
  /\ UNCHANGED <<errors, writeQueue, calls, servers>>
BreakOrRepair(s) ==
  /\ working' = IF s \in working THEN working \ {s} ELSE working \union {s}
  /\ UNCHANGED <<health, writeQueue, calls, stored>>

Answered(c) ==
  \/ Found(c) \/ Missing(c) \/ Failed(c) \/ Deleted(c)
  \/ \E s \in ServerSet : Uploaded(c, s) \/ UploadFailed(c, s)
Next ==
  \/ \E c \in Callers, b \in Blobs : get(c, b) \/ has(c, b) \/ put(c, b) \/ delete(c, b)
  \/ \E c \in Callers : Answered(c) \/ doPut(c)
  \/ \E s \in ServerSet : BreakOrRepair(s)
  \/ Tick

(* Time passes, and every request is answered, if only by an error.        *)
Fairness ==
  /\ WF_vars(Tick)
  /\ \A c \in Callers : WF_vars(Answered(c)) /\ WF_vars(doPut(c))
Spec == Init /\ [][Next]_vars /\ Fairness

-----------------------------------------------------------------------------
(* Back-off, however long the outage was and however many calls ran into   *)
(* it at once, keeps no blob from those who go on asking: once some server *)
(* that has it works for good, it is not skipped any more in the end, so   *)
(* that each call asks somebody, and every caller that asks again and      *)
(* again is given the blob again and again (blossom.ts:251, "Try each      *)
(* server until success, respecting backoff").                             *)
Asks(c, b) == calls[c].op = "get" /\ calls[c].blob = b
BlobsAreFound ==
  \A s \in ServerSet, b \in Blobs :
    <>[](s \in working /\ b \in stored[s])
      => /\ <>[]~isServerInBackoff(s)
         /\ \A c \in Callers : []<>Asks(c, b) => []<>(calls[c] = Idle(b))
=============================================================================
