--------------------------- MODULE PeerRequester ---------------------------
(***************************************************************************)
(* The requesting half of one WebRTC Peer                                  *)
(* (packages/hashtree/src/webrtc/peer.ts): request(), the response branch  *)
(* of handleMessage(), fragment reassembly, the two request timers, the    *)
(* periodic clean-up and close().                                          *)
(*                                                                         *)
(* Every call of request() is a caller.  The PendingRequest object the     *)
(* code allocates is identified with the caller that allocated it, so      *)
(* ourRequests maps a hash to the caller owning its pending request, and   *)
(* chain[o] is what o's `resolve` closure settles after the callers that   *)
(* found the request pending wrapped it.  One action is one run to         *)
(* completion of a JavaScript task, up to the next await.                  *)
(*                                                                         *)
(* Time is counted in ticks.  A timer that is due fires before time        *)
(* passes, which is what the event loop does at this granularity.          *)
(***************************************************************************)
EXTENDS Integers, FiniteSets

CONSTANTS
  Hashes,          \* content hashes that may be asked for
  Callers,         \* calls of request(), each made at most once
  NoCaller,        \* ourRequests has no entry
  NoHash,          \* the caller has not called yet
  FragmentsOf,     \* number of fragments the chunk of a hash is sent in
  RequestTimeout,  \* options.requestTimeout, in ticks
  StallTimeout,    \* FRAGMENT_STALL_TIMEOUT
  TotalTimeout,    \* FRAGMENT_TOTAL_TIMEOUT
  CleanupInterval, \* period of cleanupStaleReassemblies
  MaxPendingReassemblies

ASSUME CallersAssumption == NoCaller \notin Callers /\ NoHash \notin Hashes
ASSUME FragmentsAssumption == FragmentsOf \in [Hashes -> Nat \ {0}]
ASSUME TimeoutsAssumption ==
  /\ RequestTimeout \in Nat \ {0}
  /\ StallTimeout \in Nat \ {0}
  /\ TotalTimeout \in Nat
  /\ StallTimeout <= TotalTimeout
  /\ CleanupInterval \in Nat \ {0}
ASSUME CapAssumption == MaxPendingReassemblies \in Nat

VARIABLES
  channel,      \* readyState of the data channel
  asked,        \* hashes a request message was sent for
  callerHash,   \* the hash each caller asked for
  outcome,      \* state of each caller's promise
  ourRequests,  \* Map hash -> pending request (its owner)
  chain,        \* callers settled by an owner's resolve closure
  timer,        \* kind of the timeout armed in an owner's pending request
  timeLeft,     \* ticks until that timeout fires
  fragments,    \* pendingReassemblies: fragments held per hash, {} for no entry
  sinceFirst,   \* ticks since firstFragmentAt
  sinceLast,    \* ticks since lastFragmentAt
  cleanupIn,    \* ticks until the clean-up interval fires
  verifying     \* handleMessage runs waiting for verifyHash

requestVars == <<callerHash, outcome, ourRequests, chain>>
timerVars == <<timer, timeLeft>>
reassemblyVars == <<fragments, sinceFirst, sinceLast>>
vars == <<channel, asked, requestVars, timerVars, reassemblyVars, cleanupIn, verifying>>

(* What arrives: an unfragmented response for a one-fragment chunk, or one *)
(* fragment.  intact tells whether the bytes are those the hash names.     *)
Responses ==
  UNION {[h : {h}, i : 0 .. FragmentsOf[h] - 1, intact : BOOLEAN] : h \in Hashes}
Fragment == [i : Nat, intact : BOOLEAN]
IsFragmented(h) == FragmentsOf[h] > 1

(* Ages beyond every threshold the clean-up compares with are equivalent.  *)
AgeCap == TotalTimeout + CleanupInterval + 1
Older(age) == IF age < AgeCap THEN age + 1 ELSE age

ActiveReassemblies == {h \in Hashes : fragments[h] # {}}

(* promise.resolve: settles the callers of S that have not settled yet *)
Settle(S, result) ==
  outcome' = [c \in Callers |->
                IF c \in S /\ outcome[c] = "waiting" THEN result ELSE outcome[c]]

(* Variation: joined callers are forgotten. *)
WrappedByOwnerOnly(o) == {o}

(* Variation: a response settles whoever waits, whatever was asked. *)
WrappedByEveryone(o) == {c \in Callers : outcome[c] = "waiting"}

(* the callers the `resolve` of o's pending request has come to settle *)
Wrapped(o) == chain[o]

(* Variation: the timeouts stay armed. *)
KeepTimeouts(S) == UNCHANGED timerVars

(* clearTimeout(pending.timeout) for the pending requests of S *)
ClearTimeouts(S) ==
  /\ timer' = [c \in Callers |-> IF c \in S THEN "none" ELSE timer[c]]
  /\ timeLeft' = [c \in Callers |-> IF c \in S THEN 0 ELSE timeLeft[c]]

(* Variation: close() forgets the pending requests without settling them. *)
NoOwners == {}

(* the requests clearPendingRequests finds in the map *)
PendingOwners == {ourRequests[h] : h \in Hashes} \ {NoCaller}

-----------------------------------------------------------------------------
Init ==
  /\ channel = "connecting"
  /\ asked = {}
  /\ callerHash = [c \in Callers |-> NoHash]
  /\ outcome = [c \in Callers |-> "idle"]
  /\ ourRequests = [h \in Hashes |-> NoCaller]
  /\ chain = [c \in Callers |-> {}]
  /\ timer = [c \in Callers |-> "none"]
  /\ timeLeft = [c \in Callers |-> 0]
  /\ fragments = [h \in Hashes |-> {}]
  /\ sinceFirst = [h \in Hashes |-> 0]
  /\ sinceLast = [h \in Hashes |-> 0]
  /\ cleanupIn = CleanupInterval
  /\ verifying = {}

(* channel.onopen *)
ChannelOpen ==
  /\ channel = "connecting"
  /\ channel' = "open"
  /\ UNCHANGED <<asked, requestVars, timerVars, reassemblyVars, cleanupIn, verifying>>

Calls(c, h) ==
  /\ outcome[c] = "idle"
  /\ callerHash' = [callerHash EXCEPT ![c] = h]

(* request() while the channel is not open resolves to null at once *)
RequestNotOpen(c, h) ==
  /\ channel # "open"
  /\ Calls(c, h)
  /\ outcome' = [outcome EXCEPT ![c] = "null"]
  /\ UNCHANGED <<channel, asked, ourRequests, chain, timerVars, reassemblyVars, cleanupIn, verifying>>

(* request() for a hash already pending wraps the pending resolve closure *)
RequestJoin(c, h) ==
  /\ channel = "open"
  /\ ourRequests[h] # NoCaller
  /\ Calls(c, h)
  /\ outcome' = [outcome EXCEPT ![c] = "waiting"]
  /\ chain' = [chain EXCEPT ![ourRequests[h]] = @ \union {c}]
  /\ UNCHANGED <<channel, asked, ourRequests, timerVars, reassemblyVars, cleanupIn, verifying>>

(* request() for a new hash: registers, arms the timeout and sends *)
RequestNew(c, h) ==
  /\ channel = "open"
  /\ ourRequests[h] = NoCaller
  /\ Calls(c, h)
  /\ outcome' = [outcome EXCEPT ![c] = "waiting"]
  /\ ourRequests' = [ourRequests EXCEPT ![h] = c]
  /\ chain' = [chain EXCEPT ![c] = {c}]
  /\ timer' = [timer EXCEPT ![c] = "request"]
  /\ timeLeft' = [timeLeft EXCEPT ![c] = RequestTimeout]
  /\ asked' = asked \union {h}
  /\ UNCHANGED <<channel, reassemblyVars, cleanupIn, verifying>>

-----------------------------------------------------------------------------
VerifyHash(intact) == intact

(* handleMessage with the complete bytes of h: the pending request leaves   *)
(* the map and its timer is cleared before verifyHash is awaited            *)
CompleteResponse(h, intact) ==
  LET owner == ourRequests[h] IN
  IF owner = NoCaller
  THEN UNCHANGED <<ourRequests, timerVars, verifying>>
  ELSE /\ ClearTimeouts({owner})
       /\ ourRequests' = [ourRequests EXCEPT ![h] = NoCaller]
       /\ verifying' = verifying \union {[owner |-> owner, intact |-> intact]}

HandleWhole(r) ==
  /\ ~IsFragmented(r.h)
  /\ CompleteResponse(r.h, r.intact)
  /\ UNCHANGED reassemblyVars

(* the fragments held for r.h once r is stored; a duplicate index is dropped *)
WithFragment(r) ==
  IF \E f \in fragments[r.h] : f.i = r.i
  THEN fragments[r.h]
  ELSE fragments[r.h] \union {[i |-> r.i, intact |-> r.intact]}

IsComplete(h, S) == Cardinality(S) = FragmentsOf[h]

(* handleFragmentResponse that leaves the reassembly incomplete: the pending *)
(* request, if any, now times out when no further fragment arrives           *)
HandleFragment(r) ==
  /\ IsFragmented(r.h)
  /\ ~IsComplete(r.h, WithFragment(r))
  /\ fragments' = [fragments EXCEPT ![r.h] = WithFragment(r)]
  /\ sinceFirst' = [sinceFirst EXCEPT ![r.h] = IF fragments[r.h] = {} THEN 0 ELSE @]
  /\ sinceLast' = [sinceLast EXCEPT ![r.h] = IF WithFragment(r) # fragments[r.h] THEN 0 ELSE @]
  /\ LET owner == ourRequests[r.h] IN
     IF owner = NoCaller
     THEN UNCHANGED timerVars
     ELSE /\ timer' = [timer EXCEPT ![owner] = "stall"]
          /\ timeLeft' = [timeLeft EXCEPT ![owner] = StallTimeout]
  /\ UNCHANGED <<ourRequests, verifying>>

(* handleFragmentResponse with the last missing fragment *)
HandleLastFragment(r) ==
  /\ IsFragmented(r.h)
  /\ IsComplete(r.h, WithFragment(r))
  /\ fragments' = [fragments EXCEPT ![r.h] = {}]
  /\ sinceFirst' = [sinceFirst EXCEPT ![r.h] = 0]
  /\ sinceLast' = [sinceLast EXCEPT ![r.h] = 0]
  /\ CompleteResponse(r.h, \A f \in WithFragment(r) : f.intact)

(* channel.onmessage for a response; the other peer answers what it was    *)
(* asked, late, more than once, or with bytes the hash does not match       *)
HandleResponse(r) ==
  /\ channel = "open"
  /\ r.h \in asked
  /\ HandleWhole(r) \/ HandleFragment(r) \/ HandleLastFragment(r)
  /\ UNCHANGED <<channel, asked, callerHash, outcome, chain, cleanupIn>>

(* verifyHash resolves: settle everyone behind the pending request *)
VerifyDone(v) ==
  /\ v \in verifying
  /\ verifying' = verifying \ {v}
  /\ Settle(Wrapped(v.owner),
            IF ~VerifyHash(v.intact) THEN "null"
            ELSE IF v.intact THEN "data" ELSE "corrupt")
  /\ UNCHANGED <<channel, asked, callerHash, ourRequests, chain, timerVars, reassemblyVars, cleanupIn>>

-----------------------------------------------------------------------------
(* Variation: the event loop never runs the request timeout. *)
IsDueUnlessRequest(c) == timer[c] = "stall" /\ timeLeft[c] = 0

IsDue(c) == timer[c] # "none" /\ timeLeft[c] = 0

(* The timeout armed by request(): its closure holds the promise's own     *)
(* resolve function, not the closure later callers wrapped around it.      *)
RequestTimer(c) ==
  /\ IsDue(c) /\ timer[c] = "request"
  /\ timer' = [timer EXCEPT ![c] = "none"]
  /\ ourRequests' = [ourRequests EXCEPT ![callerHash[c]] = NoCaller]
  /\ Settle({c}, "null")
  /\ UNCHANGED <<channel, asked, callerHash, chain, timeLeft, reassemblyVars, cleanupIn, verifying>>

(* The timeout armed by a fragment: drops request and reassembly, and      *)
(* calls the wrapped closure.                                              *)
StallTimer(c) ==
  /\ IsDue(c) /\ timer[c] = "stall"
  /\ timer' = [timer EXCEPT ![c] = "none"]
  /\ ourRequests' = [ourRequests EXCEPT ![callerHash[c]] = NoCaller]
  /\ fragments' = [fragments EXCEPT ![callerHash[c]] = {}]
  /\ sinceFirst' = [sinceFirst EXCEPT ![callerHash[c]] = 0]
  /\ sinceLast' = [sinceLast EXCEPT ![callerHash[c]] = 0]
  /\ Settle(Wrapped(c), "null")
  /\ UNCHANGED <<channel, asked, callerHash, chain, timeLeft, cleanupIn, verifying>>

(* Variation: only the age of the first fragment counts. *)
IsStaleByTotal(h) == sinceFirst[h] > TotalTimeout

IsStale(h) == sinceLast[h] > StallTimeout \/ sinceFirst[h] > TotalTimeout

(* what one clean-up drops: every stale entry, then at most one more *)
Oldest(S) == {h \in S : \A g \in S : sinceFirst[g] <= sinceFirst[h]}
CleanupDrops(dropped) ==
  LET stale == {h \in ActiveReassemblies : IsStale(h)}
      kept  == ActiveReassemblies \ stale
  IN  IF Cardinality(kept) > MaxPendingReassemblies
      THEN \E h \in Oldest(kept) : dropped = stale \union {h}
      ELSE dropped = stale

CleanupStaleReassemblies ==
  /\ channel # "closed"
  /\ cleanupIn = 0
  /\ cleanupIn' = CleanupInterval
  /\ \E dropped \in SUBSET ActiveReassemblies :
       /\ CleanupDrops(dropped)
       /\ fragments' = [h \in Hashes |-> IF h \in dropped THEN {} ELSE fragments[h]]
       /\ sinceFirst' = [h \in Hashes |-> IF h \in dropped THEN 0 ELSE sinceFirst[h]]
       /\ sinceLast' = [h \in Hashes |-> IF h \in dropped THEN 0 ELSE sinceLast[h]]
  /\ UNCHANGED <<channel, asked, requestVars, timerVars, verifying>>

(* close(): every pending request resolves to null and no callback of the  *)
(* channel runs again; a verifyHash already awaited still completes.       *)
Close ==
  /\ channel # "closed"
  /\ channel' = "closed"
  /\ fragments' = [h \in Hashes |-> {}]
  /\ sinceFirst' = [h \in Hashes |-> 0]
  /\ sinceLast' = [h \in Hashes |-> 0]
  /\ cleanupIn' = 0
  /\ Settle(UNION {Wrapped(c) : c \in PendingOwners}, "null")
  /\ ClearTimeouts(PendingOwners)
  /\ ourRequests' = [h \in Hashes |-> NoCaller]
  /\ UNCHANGED <<asked, callerHash, chain, verifying>>

(* Time passes when nothing is due. *)
Tick ==
  /\ \A c \in Callers : ~IsDue(c)
  /\ channel # "closed" => cleanupIn > 0
  /\ timeLeft' = [c \in Callers |-> IF timer[c] # "none" THEN timeLeft[c] - 1 ELSE timeLeft[c]]
  /\ cleanupIn' = IF channel # "closed" THEN cleanupIn - 1 ELSE cleanupIn
  /\ sinceFirst' = [h \in Hashes |-> IF fragments[h] # {} THEN Older(sinceFirst[h]) ELSE 0]
  /\ sinceLast' = [h \in Hashes |-> IF fragments[h] # {} THEN Older(sinceLast[h]) ELSE 0]
  /\ UNCHANGED <<channel, asked, requestVars, timer, fragments, verifying>>

Request(c, h) == RequestNotOpen(c, h) \/ RequestJoin(c, h) \/ RequestNew(c, h)

Timers ==
  \/ \E c \in Callers : RequestTimer(c) \/ StallTimer(c)
  \/ CleanupStaleReassemblies

Next ==
  \/ ChannelOpen
  \/ \E c \in Callers, h \in Hashes : Request(c, h)
  \/ \E r \in Responses : HandleResponse(r)
  \/ \E v \in verifying : VerifyDone(v)
  \/ Timers
  \/ Close
  \/ Tick

Spec == Init /\ [][Next]_vars

-----------------------------------------------------------------------------
TypeOK ==
  /\ channel \in {"connecting", "open", "closed"}
  /\ asked \subseteq Hashes
  /\ callerHash \in [Callers -> Hashes \union {NoHash}]
  /\ outcome \in [Callers -> {"idle", "waiting", "data", "corrupt", "null"}]
  /\ ourRequests \in [Hashes -> Callers \union {NoCaller}]
  /\ chain \in [Callers -> SUBSET Callers]
  /\ timer \in [Callers -> {"none", "request", "stall"}]
  /\ timeLeft \in [Callers -> Nat]
  /\ fragments \in [Hashes -> SUBSET Fragment]
  /\ sinceFirst \in [Hashes -> Nat]
  /\ sinceLast \in [Hashes -> Nat]
  /\ cleanupIn \in Nat
  /\ verifying \subseteq [owner : Callers, intact : BOOLEAN]

IsOwner(c) == c \in chain[c]
InFlight(c) == \E v \in verifying : v.owner = c

(* A timeout is armed exactly for the requests the map holds: a response,   *)
(* a close or another timeout leaves no timer behind that would later       *)
(* remove a newer request for the same hash.                                *)
TimersMatchRequests ==
  \A c \in Callers :
    timer[c] # "none" <=> (callerHash[c] # NoHash /\ ourRequests[callerHash[c]] = c)

(* The caller that sent a request and still waits is registered under its   *)
(* hash or has its answer being verified: nothing loses it in between.      *)
OwnerNeverLost ==
  \A c \in Callers :
    (IsOwner(c) /\ outcome[c] = "waiting") =>
      (ourRequests[callerHash[c]] = c \/ InFlight(c))

(* Bytes whose hash was not the one asked for never reach a caller.         *)
OnlyVerifiedData == \A c \in Callers : outcome[c] # "corrupt"

(* Callers that joined a pending request get the data its owner gets, and   *)
(* only for the hash they asked for.                                        *)
JoinersShareData ==
  \A o \in Callers : \A c \in chain[o] :
    /\ callerHash[c] = callerHash[o]
    /\ outcome[o] = "data" => outcome[c] = "data"

(* Buffers of an abandoned reassembly are given back: none outlives its     *)
(* last new fragment, or its first one, by more than the threshold and one  *)
(* clean-up period, however many duplicates arrive.                         *)
NoImmortalReassembly ==
  \A h \in ActiveReassemblies :
    /\ sinceLast[h] <= StallTimeout + CleanupInterval
    /\ sinceFirst[h] <= TotalTimeout + CleanupInterval

(* The inductive invariant behind these properties.  A pending request's     *)
(* owner waits; the owner of an answer being verified waits too and is not    *)
(* registered any more; the callers settled together asked for one hash and   *)
(* wait for as long as their owner does; no caller is in two such chains.     *)
Fresh(c) ==
  /\ outcome[c] = "idle" <=> callerHash[c] = NoHash
  /\ outcome[c] = "idle" => chain[c] = {} /\ \A o \in Callers : c \notin chain[o]
Registered(h) ==
  LET o == ourRequests[h] IN
  o # NoCaller => callerHash[o] = h /\ outcome[o] = "waiting" /\ IsOwner(o)
BeingVerified(v) ==
  /\ callerHash[v.owner] # NoHash /\ ourRequests[callerHash[v.owner]] # v.owner
  /\ outcome[v.owner] = "waiting" /\ IsOwner(v.owner)
  /\ \A w \in verifying : w.owner = v.owner => w = v
ChainOf(o) ==
  \A c \in chain[o] :
    /\ IsOwner(o)
    /\ callerHash[c] = callerHash[o]
    /\ outcome[o] = "waiting" => outcome[c] = "waiting"
    /\ outcome[o] = "data" => outcome[c] = "data"
    /\ \A p \in Callers : c \in chain[p] => p = o

RequestInv ==
  /\ \A c \in Callers : Fresh(c)
  /\ \A h \in Hashes : Registered(h)
  /\ \A v \in verifying : BeingVerified(v)
  /\ \A o \in Callers : ChainOf(o)
  /\ TimersMatchRequests
  /\ OwnerNeverLost
  /\ OnlyVerifiedData

(* Ages of reassemblies, counted from the clean-up that would have dropped    *)
(* them; the clean-up stops with the connection, which then holds none.       *)
AgeInv ==
  /\ channel = "closed" => ActiveReassemblies = {}
  /\ cleanupIn <= CleanupInterval
  /\ \A h \in ActiveReassemblies :
       /\ sinceLast[h] + cleanupIn <= StallTimeout + CleanupInterval
       /\ sinceFirst[h] + cleanupIn <= TotalTimeout + CleanupInterval

(* What a caller of request() relies on: see HashPromises.                  *)
Promises == INSTANCE HashPromises WITH AtOnce <- {"null"}
ImplementsHashPromises == Promises!Spec
=============================================================================
