------------------------ MODULE PeerRequesterProofs ------------------------
(* Safety of PeerRequester for any hashes, callers, fragment counts and     *)
(* timeouts.                                                                *)
EXTENDS PeerRequester, TLAPS

USE CallersAssumption, FragmentsAssumption, TimeoutsAssumption, CapAssumption

(* Settling promises keeps them promises. *)
LEMMA SettleType ==
  ASSUME TypeOK, NEW S, NEW result \in {"data", "corrupt", "null"}, Settle(S, result)
  PROVE  outcome' \in [Callers -> {"idle", "waiting", "data", "corrupt", "null"}]
BY DEF TypeOK, Settle

(* Storing a fragment of a response keeps a set of fragments. *)
LEMMA WithFragmentType ==
  ASSUME TypeOK, NEW r \in Responses
  PROVE  /\ r.h \in Hashes
         /\ WithFragment(r) \in SUBSET Fragment
<1>1. PICK h \in Hashes : r \in [h : {h}, i : 0 .. FragmentsOf[h] - 1, intact : BOOLEAN]
  BY DEF Responses
<1>2. r.h \in Hashes /\ r.i \in Nat /\ r.intact \in BOOLEAN
  BY <1>1
<1>3. [i |-> r.i, intact |-> r.intact] \in Fragment
  BY <1>2 DEF Fragment
<1>4. fragments[r.h] \in SUBSET Fragment
  BY <1>2 DEF TypeOK
<1> QED BY <1>2, <1>3, <1>4 DEF WithFragment

(* Handing complete bytes to verifyHash keeps the types of what it changes. *)
LEMMA CompleteResponseType ==
  ASSUME TypeOK, NEW h \in Hashes, NEW intact \in BOOLEAN, CompleteResponse(h, intact)
  PROVE  /\ ourRequests' \in [Hashes -> Callers \union {NoCaller}]
         /\ timer' \in [Callers -> {"none", "request", "stall"}]
         /\ timeLeft' \in [Callers -> Nat]
         /\ verifying' \subseteq [owner : Callers, intact : BOOLEAN]
<1>1. CASE ourRequests[h] = NoCaller
  BY <1>1 DEF CompleteResponse, TypeOK, timerVars
<1>2. CASE ourRequests[h] # NoCaller
  <2>1. ourRequests[h] \in Callers
    BY <1>2 DEF TypeOK
  <2> QED BY <1>2, <2>1 DEF CompleteResponse, ClearTimeouts, TypeOK
<1> QED BY <1>1, <1>2

(* The variables have their types in every reachable state. *)
THEOREM TypeCorrect == Spec => []TypeOK
<1>1. Init => TypeOK
  BY DEF Init, TypeOK
<1>2. TypeOK /\ [Next]_vars => TypeOK'
  <2> SUFFICES ASSUME TypeOK, [Next]_vars
               PROVE  TypeOK'
    OBVIOUS
  <2> USE DEF vars, requestVars, timerVars, reassemblyVars
  <2>1. CASE ChannelOpen
    BY <2>1 DEF ChannelOpen, TypeOK
  <2>2. ASSUME NEW c \in Callers, NEW h \in Hashes, Request(c, h)
        PROVE  TypeOK'
    <3>1. CASE RequestNotOpen(c, h)
      BY <3>1 DEF RequestNotOpen, Calls, TypeOK
    <3>2. CASE RequestJoin(c, h)
      <4>1. ourRequests[h] \in Callers
        BY <3>2 DEF RequestJoin, TypeOK
      <4>2. chain' \in [Callers -> SUBSET Callers]
        BY <3>2, <4>1 DEF RequestJoin, TypeOK
      <4> QED BY <3>2, <4>2 DEF RequestJoin, Calls, TypeOK
    <3>3. CASE RequestNew(c, h)
      <4>1. timeLeft' \in [Callers -> Nat]
        BY <3>3 DEF RequestNew, TypeOK
      <4>2. chain' \in [Callers -> SUBSET Callers]
        BY <3>3 DEF RequestNew, TypeOK
      <4> QED BY <3>3, <4>1, <4>2 DEF RequestNew, Calls, TypeOK
    <3> QED BY <2>2, <3>1, <3>2, <3>3 DEF Request
  <2>3. ASSUME NEW r \in Responses, HandleResponse(r)
        PROVE  TypeOK'
    <3> USE WithFragmentType
    <3>a. r.intact \in BOOLEAN
      BY DEF Responses
    <3>1. CASE HandleWhole(r)
      BY <2>3, <3>1, <3>a, CompleteResponseType DEF HandleResponse, HandleWhole, TypeOK
    <3>2. CASE HandleFragment(r)
      <4>1. /\ timer' \in [Callers -> {"none", "request", "stall"}]
            /\ timeLeft' \in [Callers -> Nat]
        BY <3>2 DEF HandleFragment, TypeOK
      <4>2. fragments' \in [Hashes -> SUBSET Fragment]
        BY <3>2 DEF HandleFragment, TypeOK
      <4>3. sinceFirst' \in [Hashes -> Nat] /\ sinceLast' \in [Hashes -> Nat]
        BY <3>2 DEF HandleFragment, TypeOK
      <4> QED BY <2>3, <3>2, <4>1, <4>2, <4>3 DEF HandleResponse, HandleFragment, TypeOK
    <3>3. CASE HandleLastFragment(r)
      <4>1. (\A f \in WithFragment(r) : f.intact) \in BOOLEAN
        OBVIOUS
      <4>2. /\ ourRequests' \in [Hashes -> Callers \union {NoCaller}]
            /\ timer' \in [Callers -> {"none", "request", "stall"}]
            /\ timeLeft' \in [Callers -> Nat]
            /\ verifying' \subseteq [owner : Callers, intact : BOOLEAN]
        BY <3>3, <4>1, CompleteResponseType DEF HandleLastFragment
      <4>3. fragments' \in [Hashes -> SUBSET Fragment]
        BY <3>3 DEF HandleLastFragment, TypeOK
      <4>4. sinceFirst' \in [Hashes -> Nat] /\ sinceLast' \in [Hashes -> Nat]
        BY <3>3 DEF HandleLastFragment, TypeOK
      <4> QED BY <2>3, <4>2, <4>3, <4>4 DEF HandleResponse, TypeOK
    <3> QED BY <2>3, <3>1, <3>2, <3>3 DEF HandleResponse
  <2>4. ASSUME NEW v \in verifying, VerifyDone(v)
        PROVE  TypeOK'
    BY <2>4, SettleType DEF VerifyDone, TypeOK
  <2>5. ASSUME NEW c \in Callers, RequestTimer(c)
        PROVE  TypeOK'
    BY <2>5, SettleType DEF RequestTimer, TypeOK
  <2>6. ASSUME NEW c \in Callers, StallTimer(c)
        PROVE  TypeOK'
    BY <2>6, SettleType DEF StallTimer, TypeOK
  <2>7. CASE CleanupStaleReassemblies
    <3>1. fragments' \in [Hashes -> SUBSET Fragment]
      BY <2>7 DEF CleanupStaleReassemblies, TypeOK
    <3>2. sinceFirst' \in [Hashes -> Nat] /\ sinceLast' \in [Hashes -> Nat]
      BY <2>7 DEF CleanupStaleReassemblies, TypeOK
    <3> QED BY <2>7, <3>1, <3>2 DEF CleanupStaleReassemblies, TypeOK
  <2>8. CASE Close
    <3>1. /\ timer' \in [Callers -> {"none", "request", "stall"}]
          /\ timeLeft' \in [Callers -> Nat]
      BY <2>8 DEF Close, ClearTimeouts, TypeOK
    <3>2. outcome' \in [Callers -> {"idle", "waiting", "data", "corrupt", "null"}]
      BY <2>8, SettleType DEF Close
    <3> QED BY <2>8, <3>1, <3>2 DEF Close, TypeOK
  <2>9. CASE Tick
    <3>1. timeLeft' \in [Callers -> Nat]
      <4>1. ASSUME NEW c \in Callers, timer[c] # "none"
            PROVE  timeLeft[c] - 1 \in Nat
        <5>1. timeLeft[c] \in Nat
          BY DEF TypeOK
        <5>2. timeLeft[c] # 0
          BY <2>9, <4>1 DEF Tick, IsDue
        <5> QED BY <5>1, <5>2
      <4>2. \A c \in Callers :
              (IF timer[c] # "none" THEN timeLeft[c] - 1 ELSE timeLeft[c]) \in Nat
        BY <4>1 DEF TypeOK
      <4> QED BY <2>9, <4>2 DEF Tick
    <3>2. cleanupIn' \in Nat
      BY <2>9 DEF Tick, TypeOK
    <3>3. sinceFirst' \in [Hashes -> Nat] /\ sinceLast' \in [Hashes -> Nat]
      BY <2>9 DEF Tick, Older, TypeOK
    <3> QED BY <2>9, <3>1, <3>2, <3>3 DEF Tick, TypeOK
  <2>10. CASE UNCHANGED vars
    BY <2>10 DEF TypeOK
  <2> QED
    BY <2>1, <2>2, <2>3, <2>4, <2>5, <2>6, <2>7, <2>8, <2>9, <2>10 DEF Next, Timers
<1> QED BY <1>1, <1>2, PTL DEF Spec

-----------------------------------------------------------------------------
(* RequestInv is about these variables, written by a few effects that the   *)
(* actions share.                                                           *)
coreVars == <<callerHash, outcome, ourRequests, chain, timer, verifying>>

LEMMA RequestNotOpenKeeps ==
  ASSUME TypeOK, RequestInv, NEW c \in Callers, NEW h \in Hashes, RequestNotOpen(c, h)
  PROVE  RequestInv'
<1> USE DEF RequestNotOpen, Calls, timerVars, TypeOK
<1>1. \A d \in Callers : Fresh(d)'
  BY DEF RequestInv, Fresh
<1>2. \A g \in Hashes : Registered(g)'
  BY DEF RequestInv, Registered, IsOwner
<1>3. \A v \in verifying' : BeingVerified(v)'
  BY DEF RequestInv, BeingVerified, IsOwner
<1>4. \A o \in Callers : ChainOf(o)'
  BY DEF RequestInv, ChainOf, IsOwner, Fresh
<1>5. TimersMatchRequests'
  BY DEF RequestInv, TimersMatchRequests, Registered, Fresh
<1>6. OwnerNeverLost'
  BY DEF RequestInv, OwnerNeverLost, IsOwner, InFlight
<1>7. OnlyVerifiedData'
  BY DEF RequestInv, OnlyVerifiedData
<1> QED BY <1>1, <1>2, <1>3, <1>4, <1>5, <1>6, <1>7 DEF RequestInv

LEMMA RequestJoinKeeps ==
  ASSUME TypeOK, RequestInv, NEW c \in Callers, NEW h \in Hashes, RequestJoin(c, h)
  PROVE  RequestInv'
<1> USE DEF RequestJoin, Calls, timerVars, TypeOK
<1>a. PICK o \in Callers : o = ourRequests[h]
  OBVIOUS
<1>b. callerHash[o] = h /\ outcome[o] = "waiting" /\ o \in chain[o] /\ o # c
  BY <1>a DEF RequestInv, Registered, IsOwner
<1>c. chain' = [chain EXCEPT ![o] = @ \union {c}]
  BY <1>a
<1>1. \A d \in Callers : Fresh(d)'
  BY <1>b, <1>c DEF RequestInv, Fresh
<1>2. \A g \in Hashes : Registered(g)'
  BY DEF RequestInv, Registered, IsOwner
<1>3. \A v \in verifying' : BeingVerified(v)'
  BY DEF RequestInv, BeingVerified, IsOwner
<1>4. \A d \in Callers : ChainOf(d)'
  BY DEF RequestInv, ChainOf, IsOwner, Fresh, Registered
<1>5. TimersMatchRequests'
  BY DEF RequestInv, TimersMatchRequests, Registered, Fresh
<1>6. OwnerNeverLost'
  BY <1>a, <1>b, <1>c DEF RequestInv, OwnerNeverLost, IsOwner, InFlight, Fresh
<1>7. OnlyVerifiedData'
  BY DEF RequestInv, OnlyVerifiedData
<1> QED BY <1>1, <1>2, <1>3, <1>4, <1>5, <1>6, <1>7 DEF RequestInv

LEMMA RequestNewKeeps ==
  ASSUME TypeOK, RequestInv, NEW c \in Callers, NEW h \in Hashes, RequestNew(c, h)
  PROVE  RequestInv'
<1> USE DEF RequestNew, Calls, TypeOK
<1>1. \A d \in Callers : Fresh(d)'
  BY DEF RequestInv, Fresh
<1>2. \A g \in Hashes : Registered(g)'
  BY DEF RequestInv, Registered, IsOwner
<1>3. \A v \in verifying' : BeingVerified(v)'
  BY DEF RequestInv, BeingVerified, IsOwner
<1>4. \A o \in Callers : ChainOf(o)'
  BY DEF RequestInv, ChainOf, IsOwner, Fresh, Registered
<1>5. TimersMatchRequests'
  BY DEF RequestInv, TimersMatchRequests, Registered, Fresh
<1>6. OwnerNeverLost'
  BY DEF RequestInv, OwnerNeverLost, IsOwner, InFlight, Registered
<1>7. OnlyVerifiedData'
  BY DEF RequestInv, OnlyVerifiedData
<1> QED BY <1>1, <1>2, <1>3, <1>4, <1>5, <1>6, <1>7 DEF RequestInv

(* Steps of the channel, the clean-up and the clock. *)
LEMMA CoreUnchangedKeeps ==
  ASSUME RequestInv, UNCHANGED coreVars
  PROVE  RequestInv'
BY DEF RequestInv, coreVars, Fresh, Registered, BeingVerified, ChainOf, IsOwner, InFlight,
       TimersMatchRequests, OwnerNeverLost, OnlyVerifiedData

(* A fragment re-arms the timeout of a registered request. *)
LEMMA RearmKeeps ==
  ASSUME TypeOK, RequestInv, NEW h \in Hashes, ourRequests[h] # NoCaller,
         timer' = [timer EXCEPT ![ourRequests[h]] = "stall"],
         UNCHANGED <<callerHash, outcome, ourRequests, chain, verifying>>
  PROVE  RequestInv'
<1> USE DEF TypeOK
<1>1. \A d \in Callers : Fresh(d)'
  BY DEF RequestInv, Fresh
<1>2. \A g \in Hashes : Registered(g)'
  BY DEF RequestInv, Registered, IsOwner
<1>3. \A v \in verifying' : BeingVerified(v)'
  BY DEF RequestInv, BeingVerified, IsOwner
<1>4. \A o \in Callers : ChainOf(o)'
  BY DEF RequestInv, ChainOf, IsOwner
<1>5. TimersMatchRequests'
  BY DEF RequestInv, TimersMatchRequests, Registered
<1>6. OwnerNeverLost'
  BY DEF RequestInv, OwnerNeverLost, IsOwner, InFlight
<1>7. OnlyVerifiedData'
  BY DEF RequestInv, OnlyVerifiedData
<1> QED BY <1>1, <1>2, <1>3, <1>4, <1>5, <1>6, <1>7 DEF RequestInv

(* A complete response takes its request out of the map, to be verified. *)
LEMMA CompleteResponseKeeps ==
  ASSUME TypeOK, RequestInv, NEW h \in Hashes, NEW intact \in BOOLEAN,
         CompleteResponse(h, intact), UNCHANGED <<callerHash, outcome, chain>>
  PROVE  RequestInv'
<1>a. CASE ourRequests[h] = NoCaller
  BY <1>a, CoreUnchangedKeeps DEF CompleteResponse, timerVars, coreVars
<1>b. CASE ourRequests[h] # NoCaller
  <2> DEFINE o == ourRequests[h]
             v == [owner |-> o, intact |-> intact]
  <2>a. /\ o \in Callers /\ ourRequests[h] = o /\ callerHash[o] = h /\ outcome[o] = "waiting" /\ IsOwner(o)
        /\ v.owner = o
        /\ \A w \in verifying : w.owner \in Callers /\ w.owner # o
    BY <1>b DEF TypeOK, RequestInv, Registered, BeingVerified
  <2>b. /\ ourRequests' = [ourRequests EXCEPT ![h] = NoCaller]
        /\ verifying' = verifying \union {v}
        /\ timer' = [d \in Callers |-> IF d = o THEN "none" ELSE timer[d]]
    BY <1>b DEF CompleteResponse, ClearTimeouts
  <2> HIDE DEF o, v
  <2> USE <2>a, <2>b DEF TypeOK
  <2>1. \A d \in Callers : Fresh(d)'
    BY DEF RequestInv, Fresh
  <2>2. \A g \in Hashes : Registered(g)'
    BY DEF RequestInv, Registered, IsOwner
  <2>3. \A w \in verifying' : BeingVerified(w)'
    BY DEF RequestInv, BeingVerified, IsOwner
  <2>4. \A p \in Callers : ChainOf(p)'
    BY DEF RequestInv, ChainOf, IsOwner
  <2>5. TimersMatchRequests'
    <3> SUFFICES ASSUME NEW d \in Callers
                 PROVE  (timer'[d] # "none" <=>
                          callerHash'[d] # NoHash /\ ourRequests'[callerHash'[d]] = d)
      BY DEF TimersMatchRequests
    <3>1. timer[d] # "none" <=> (callerHash[d] # NoHash /\ ourRequests[callerHash[d]] = d)
      BY DEF RequestInv, TimersMatchRequests
    <3>2. CASE d = o
      <4>1. timer'[d] = "none"
        BY <3>2
      <4>2. callerHash'[d] = h /\ ourRequests'[h] = NoCaller
        BY <3>2
      <4>3. d # NoCaller
        BY CallersAssumption
      <4>4. ourRequests'[callerHash'[d]] # d
        BY <4>2, <4>3, Zenon
      <4> QED BY <4>1, <4>4, Zenon
    <3>3. CASE d # o
      BY <3>1, <3>3
    <3> QED BY <3>2, <3>3
  <2>6. OwnerNeverLost'
    BY DEF RequestInv, OwnerNeverLost, IsOwner, InFlight
  <2>7. OnlyVerifiedData'
    BY DEF RequestInv, OnlyVerifiedData
  <2> QED BY <2>1, <2>2, <2>3, <2>4, <2>5, <2>6, <2>7 DEF RequestInv
<1> QED BY <1>a, <1>b

(* The verified answer settles a whole chain. *)
LEMMA VerifyDoneKeeps ==
  ASSUME TypeOK, RequestInv, NEW v \in verifying, VerifyDone(v)
  PROVE  RequestInv'
<1> USE DEF VerifyDone, Settle, Wrapped, VerifyHash, timerVars, TypeOK
<1>1. \A d \in Callers : Fresh(d)'
  BY DEF RequestInv, Fresh, BeingVerified
<1>2. \A g \in Hashes : Registered(g)'
  BY DEF RequestInv, Registered, IsOwner, BeingVerified, ChainOf
<1>3. \A w \in verifying' : BeingVerified(w)'
  BY DEF RequestInv, BeingVerified, IsOwner, ChainOf
<1>4. \A o \in Callers : ChainOf(o)'
  BY DEF RequestInv, ChainOf, IsOwner, BeingVerified
<1>5. TimersMatchRequests'
  BY DEF RequestInv, TimersMatchRequests
<1>6. OwnerNeverLost'
  BY DEF RequestInv, OwnerNeverLost, IsOwner, InFlight, BeingVerified, ChainOf
<1>7. OnlyVerifiedData'
  BY DEF RequestInv, OnlyVerifiedData
<1> QED BY <1>1, <1>2, <1>3, <1>4, <1>5, <1>6, <1>7 DEF RequestInv

(* A timeout drops its request and settles the owner, or its whole chain. *)
LEMMA TimeoutKeeps ==
  ASSUME TypeOK, RequestInv, NEW c \in Callers, NEW S \in {{c}, chain[c]},
         timer[c] # "none", timer' = [timer EXCEPT ![c] = "none"],
         ourRequests' = [ourRequests EXCEPT ![callerHash[c]] = NoCaller],
         Settle(S, "null"), UNCHANGED <<callerHash, chain, verifying>>
  PROVE  RequestInv'
<1>a. callerHash[c] \in Hashes /\ ourRequests[callerHash[c]] = c
  BY DEF RequestInv, TimersMatchRequests, TypeOK
<1>b. outcome[c] = "waiting" /\ IsOwner(c)
  BY <1>a DEF RequestInv, Registered
<1>c. \A o \in Callers : IsOwner(o) /\ o \in S => o = c
  BY DEF RequestInv, ChainOf, IsOwner
<1>d. c \in S
  BY <1>b DEF IsOwner
<1> USE <1>a, <1>b, <1>c, <1>d DEF Settle, TypeOK
<1>1. \A d \in Callers : Fresh(d)'
  BY DEF RequestInv, Fresh
<1>2. \A g \in Hashes : Registered(g)'
  BY DEF RequestInv, Registered, IsOwner
<1>3. \A v \in verifying' : BeingVerified(v)'
  BY DEF RequestInv, BeingVerified, IsOwner
<1>4. \A o \in Callers : ChainOf(o)'
  BY DEF RequestInv, ChainOf, IsOwner
<1>5. TimersMatchRequests'
  BY DEF RequestInv, TimersMatchRequests
<1>6. OwnerNeverLost'
  BY DEF RequestInv, OwnerNeverLost, IsOwner, InFlight
<1>7. OnlyVerifiedData'
  BY DEF RequestInv, OnlyVerifiedData
<1> QED BY <1>1, <1>2, <1>3, <1>4, <1>5, <1>6, <1>7 DEF RequestInv

(* close() settles the chains of all registered requests. *)
LEMMA CloseKeeps ==
  ASSUME TypeOK, RequestInv, Close
  PROVE  RequestInv'
<1> DEFINE S == UNION {Wrapped(c) : c \in PendingOwners}
<1>a. \A o \in Callers : IsOwner(o) /\ o \in S => o \in PendingOwners
  BY DEF RequestInv, ChainOf, IsOwner, Wrapped, PendingOwners, TypeOK
<1>b. \A o \in PendingOwners : o \in Callers /\ o \in S /\ chain[o] \subseteq S
  BY DEF RequestInv, Registered, IsOwner, Wrapped, PendingOwners, TypeOK
<1>c. \A v \in verifying : v.owner \in Callers /\ v.owner \notin PendingOwners
  BY DEF RequestInv, Registered, BeingVerified, PendingOwners, TypeOK
<1>d. \A o \in Callers : \A c \in chain[o] : c \in S => o \in PendingOwners
  BY DEF RequestInv, ChainOf, IsOwner, Wrapped, PendingOwners, TypeOK
<1>e. /\ outcome' = [c \in Callers |-> IF c \in S /\ outcome[c] = "waiting" THEN "null" ELSE outcome[c]]
      /\ timer' = [c \in Callers |-> IF c \in PendingOwners THEN "none" ELSE timer[c]]
      /\ ourRequests' = [h \in Hashes |-> NoCaller]
      /\ UNCHANGED <<callerHash, chain, verifying>>
  BY DEF Close, Settle, ClearTimeouts
<1>f. \A c \in Callers : timer[c] # "none" => c \in PendingOwners
  BY DEF RequestInv, TimersMatchRequests, PendingOwners, TypeOK
<1> HIDE DEF S
<1> USE <1>a, <1>b, <1>c, <1>d, <1>e, <1>f DEF TypeOK
<1>1. \A d \in Callers : Fresh(d)'
  BY DEF RequestInv, Fresh
<1>2. \A g \in Hashes : Registered(g)'
  BY DEF RequestInv, Registered, IsOwner
<1>3. \A v \in verifying' : BeingVerified(v)'
  BY DEF RequestInv, BeingVerified, IsOwner
<1>4. \A o \in Callers : ChainOf(o)'
  BY DEF RequestInv, ChainOf, IsOwner
<1>5. TimersMatchRequests'
  <2>1. \A d \in Callers : timer'[d] = "none"
    BY <1>f
  <2>2. \A d \in Callers, h \in Hashes : ourRequests'[h] # d
    OBVIOUS
  <2> QED BY <2>1, <2>2 DEF TimersMatchRequests
<1>6. OwnerNeverLost'
  <2> SUFFICES ASSUME NEW d \in Callers, IsOwner(d)', outcome'[d] = "waiting"
               PROVE  InFlight(d)'
    BY DEF OwnerNeverLost
  <2>1. IsOwner(d) /\ outcome[d] = "waiting" /\ d \notin S
    BY DEF IsOwner
  <2>2. ourRequests[callerHash[d]] = d \/ InFlight(d)
    BY <2>1 DEF RequestInv, OwnerNeverLost
  <2>3. callerHash[d] \in Hashes
    BY <2>1 DEF RequestInv, Fresh
  <2>4. ourRequests[callerHash[d]] # d
    BY <2>1, <2>3, CallersAssumption DEF PendingOwners
  <2> QED BY <2>2, <2>4 DEF InFlight
<1>7. OnlyVerifiedData'
  BY DEF RequestInv, OnlyVerifiedData
<1> QED BY <1>1, <1>2, <1>3, <1>4, <1>5, <1>6, <1>7 DEF RequestInv

(* RequestInv holds in every reachable state. *)
THEOREM RequestInvariant == Spec => []RequestInv
<1>1. Init => RequestInv
  BY DEF Init, RequestInv, Fresh, Registered, BeingVerified, ChainOf, IsOwner,
         TimersMatchRequests, OwnerNeverLost, OnlyVerifiedData
<1>2. TypeOK /\ RequestInv /\ [Next]_vars => RequestInv'
  <2> SUFFICES ASSUME TypeOK, RequestInv, [Next]_vars
               PROVE  RequestInv'
    OBVIOUS
  <2> USE DEF requestVars, timerVars
  <2>1. CASE ChannelOpen
    BY <2>1, CoreUnchangedKeeps DEF ChannelOpen, coreVars
  <2>2. ASSUME NEW c \in Callers, NEW h \in Hashes, Request(c, h)
        PROVE  RequestInv'
    BY <2>2, RequestNotOpenKeeps, RequestJoinKeeps, RequestNewKeeps DEF Request
  <2>3. ASSUME NEW r \in Responses, HandleResponse(r)
        PROVE  RequestInv'
    <3>a. r.h \in Hashes /\ r.intact \in BOOLEAN
      BY WithFragmentType DEF Responses
    <3>b. UNCHANGED <<callerHash, outcome, chain>>
      BY <2>3 DEF HandleResponse
    <3>1. CASE HandleWhole(r)
      BY <3>1, <3>a, <3>b, CompleteResponseKeeps DEF HandleWhole
    <3>2. CASE HandleFragment(r)
      <4>1. CASE ourRequests[r.h] = NoCaller
        BY <3>2, <3>b, <4>1, CoreUnchangedKeeps DEF HandleFragment, coreVars
      <4>2. CASE ourRequests[r.h] # NoCaller
        BY <3>2, <3>a, <3>b, <4>2, RearmKeeps DEF HandleFragment
      <4> QED BY <4>1, <4>2
    <3>3. CASE HandleLastFragment(r)
      <4>1. (\A f \in WithFragment(r) : f.intact) \in BOOLEAN
        OBVIOUS
      <4> QED BY <3>3, <3>a, <3>b, <4>1, CompleteResponseKeeps DEF HandleLastFragment
    <3> QED BY <2>3, <3>1, <3>2, <3>3 DEF HandleResponse
  <2>4. ASSUME NEW v \in verifying, VerifyDone(v)
        PROVE  RequestInv'
    BY <2>4, VerifyDoneKeeps
  <2>5. ASSUME NEW c \in Callers, RequestTimer(c)
        PROVE  RequestInv'
    BY <2>5, TimeoutKeeps DEF RequestTimer, IsDue
  <2>6. ASSUME NEW c \in Callers, StallTimer(c)
        PROVE  RequestInv'
    BY <2>6, TimeoutKeeps DEF StallTimer, IsDue, Wrapped
  <2>7. CASE CleanupStaleReassemblies
    BY <2>7, CoreUnchangedKeeps DEF CleanupStaleReassemblies, coreVars
  <2>8. CASE Close
    BY <2>8, CloseKeeps
  <2>9. CASE Tick
    BY <2>9, CoreUnchangedKeeps DEF Tick, coreVars
  <2>10. CASE UNCHANGED vars
    BY <2>10, CoreUnchangedKeeps DEF vars, coreVars
  <2> QED
    BY <2>1, <2>2, <2>3, <2>4, <2>5, <2>6, <2>7, <2>8, <2>9, <2>10 DEF Next, Timers
<1> QED BY <1>1, <1>2, TypeCorrect, PTL DEF Spec

(* No timer of peer.ts outlives the pending request it was armed for. *)
THEOREM TimersCorrect == Spec => []TimersMatchRequests
<1>1. RequestInv => TimersMatchRequests
  BY DEF RequestInv
<1> QED BY <1>1, RequestInvariant, PTL

(* Between registering, fragments, verification, timeouts and close(), the  *)
(* caller that sent a request is never forgotten while it waits.            *)
THEOREM OwnersKept == Spec => []OwnerNeverLost
<1>1. RequestInv => OwnerNeverLost
  BY DEF RequestInv
<1> QED BY <1>1, RequestInvariant, PTL

(* Bytes of another hash are never delivered. *)
THEOREM DataVerified == Spec => []OnlyVerifiedData
<1>1. RequestInv => OnlyVerifiedData
  BY DEF RequestInv
<1> QED BY <1>1, RequestInvariant, PTL

(* Whoever joined a request gets the data it delivers. *)
THEOREM JoinersServed == Spec => []JoinersShareData
<1>1. RequestInv => JoinersShareData
  BY DEF RequestInv, ChainOf, JoinersShareData
<1> QED BY <1>1, RequestInvariant, PTL

-----------------------------------------------------------------------------
(* The first fragment of a hash is never dropped as a duplicate. *)
LEMMA StoredFragment ==
  ASSUME TypeOK, NEW r \in Responses
  PROVE  r.h \in Hashes /\ (fragments[r.h] = {} => WithFragment(r) # fragments[r.h])
BY WithFragmentType DEF WithFragment

THEOREM AgeInvariant == Spec => []AgeInv
<1>1. Init => AgeInv
  BY DEF Init, AgeInv, ActiveReassemblies
<1>2. TypeOK /\ AgeInv /\ [Next]_vars => AgeInv'
  <2> SUFFICES ASSUME TypeOK, AgeInv, [Next]_vars
               PROVE  AgeInv'
    OBVIOUS
  <2> USE DEF AgeInv, ActiveReassemblies
  <2>1. CASE UNCHANGED <<reassemblyVars, cleanupIn>> /\ (channel' = "closed" => channel = "closed")
    BY <2>1 DEF reassemblyVars
  <2>2. CASE ChannelOpen
    BY <2>1, <2>2 DEF ChannelOpen
  <2>3. ASSUME NEW c \in Callers, NEW h \in Hashes, Request(c, h)
        PROVE  AgeInv'
    BY <2>1, <2>3 DEF Request, RequestNotOpen, RequestJoin, RequestNew
  <2>4. ASSUME NEW r \in Responses, HandleResponse(r)
        PROVE  AgeInv'
    <3>1. CASE HandleWhole(r)
      BY <2>1, <2>4, <3>1 DEF HandleResponse, HandleWhole
    <3>2. CASE HandleFragment(r)
      BY <2>4, <3>2, StoredFragment DEF HandleResponse, HandleFragment, TypeOK
    <3>3. CASE HandleLastFragment(r)
      BY <2>4, <3>3, StoredFragment DEF HandleResponse, HandleLastFragment, TypeOK
    <3> QED BY <2>4, <3>1, <3>2, <3>3 DEF HandleResponse
  <2>5. ASSUME NEW v \in verifying, VerifyDone(v)
        PROVE  AgeInv'
    BY <2>1, <2>5 DEF VerifyDone
  <2>6. ASSUME NEW c \in Callers, RequestTimer(c)
        PROVE  AgeInv'
    BY <2>1, <2>6 DEF RequestTimer
  <2>7. ASSUME NEW c \in Callers, StallTimer(c)
        PROVE  AgeInv'
    BY <2>7 DEF StallTimer, TypeOK
  <2>8. CASE CleanupStaleReassemblies
    <3>1. PICK dropped \in SUBSET ActiveReassemblies :
            /\ CleanupDrops(dropped)
            /\ fragments' = [h \in Hashes |-> IF h \in dropped THEN {} ELSE fragments[h]]
            /\ sinceFirst' = [h \in Hashes |-> IF h \in dropped THEN 0 ELSE sinceFirst[h]]
            /\ sinceLast' = [h \in Hashes |-> IF h \in dropped THEN 0 ELSE sinceLast[h]]
      BY <2>8 DEF CleanupStaleReassemblies
    <3>2. \A h \in ActiveReassemblies \ dropped : ~IsStale(h)
      BY <3>1 DEF CleanupDrops
    <3>3. \A h \in ActiveReassemblies' : h \in ActiveReassemblies \ dropped
      BY <3>1 DEF TypeOK
    <3> QED BY <2>8, <3>1, <3>2, <3>3 DEF CleanupStaleReassemblies, IsStale, TypeOK
  <2>9. CASE Close
    BY <2>9 DEF Close
  <2>10. CASE Tick
    BY <2>10 DEF Tick, Older, TypeOK
  <2>11. CASE UNCHANGED vars
    BY <2>1, <2>11 DEF vars
  <2> QED
    BY <2>2, <2>3, <2>4, <2>5, <2>6, <2>7, <2>8, <2>9, <2>10, <2>11 DEF Next, Timers
<1> QED BY <1>1, <1>2, TypeCorrect, PTL DEF Spec

(* No reassembly keeps its buffers past its threshold and one clean-up     *)
(* period, whatever duplicates the other peer sends.                       *)
THEOREM ReassembliesMortal == Spec => []NoImmortalReassembly
<1>1. TypeOK /\ AgeInv => NoImmortalReassembly
  BY DEF TypeOK, AgeInv, NoImmortalReassembly, ActiveReassemblies
<1> QED BY <1>1, TypeCorrect, AgeInvariant, PTL

-----------------------------------------------------------------------------
(* Giving up on a chain is giving up on the callers of it that wait. *)
LEMMA SettleGivesUp ==
  ASSUME NEW S, Settle(S, "null"), UNCHANGED callerHash
  PROVE  Promises!Next
<1> DEFINE T == S \intersect Promises!Waiting
<1>1. T \in SUBSET Promises!Waiting
  OBVIOUS
<1>2. outcome' = [c \in Callers |-> IF c \in T THEN "null" ELSE outcome[c]]
  BY DEF Settle, Promises!Waiting
<1>3. Promises!GiveUp(T)
  BY <1>2 DEF Promises!GiveUp, Promises!SettleAll
<1> QED BY <1>1, <1>3 DEF Promises!Next

(* Each call of request() settles once, with the data of the hash it asked  *)
(* for or with null.                                                        *)
THEOREM KeepsPromises == Spec => ImplementsHashPromises
<1>1. Init => Promises!Init
  BY DEF Init, Promises!Init
<1>2. TypeOK /\ RequestInv /\ [Next]_vars => [Promises!Next]_<<callerHash, outcome>>
  <2> SUFFICES ASSUME TypeOK, RequestInv, [Next]_vars
               PROVE  Promises!Next \/ UNCHANGED <<callerHash, outcome>>
    OBVIOUS
  <2>1. ASSUME NEW c \in Callers, NEW h \in Hashes, Request(c, h)
        PROVE  Promises!Next
    <3>1. Promises!Ask(c, h)
      BY <2>1 DEF Promises!Ask, Request, RequestNotOpen, RequestJoin, RequestNew, Calls
    <3> QED BY <3>1 DEF Promises!Next
  <2>2. ASSUME NEW v \in verifying, VerifyDone(v)
        PROVE  Promises!Next
    <3>1. CASE ~v.intact
      BY <2>2, <3>1, SettleGivesUp DEF VerifyDone, VerifyHash
    <3>2. CASE v.intact
      <4> DEFINE T == chain[v.owner] \intersect Promises!Waiting
                 h == callerHash[v.owner]
      <4>1. v.owner \in Callers /\ h \in Hashes
        BY DEF TypeOK, RequestInv, BeingVerified
      <4>2. T \in SUBSET Promises!Waiting /\ \A c \in T : callerHash[c] = h
        BY <4>1 DEF RequestInv, ChainOf
      <4>3. outcome' = [c \in Callers |-> IF c \in T THEN "data" ELSE outcome[c]]
        BY <2>2, <3>2 DEF VerifyDone, VerifyHash, Wrapped, Settle, Promises!Waiting
      <4>4. Promises!Answer(h, T)
        BY <2>2, <4>2, <4>3 DEF VerifyDone, Promises!Answer, Promises!SettleAll
      <4> QED BY <4>1, <4>2, <4>4 DEF Promises!Next
    <3> QED BY <3>1, <3>2
  <2>3. ASSUME NEW c \in Callers, RequestTimer(c) \/ StallTimer(c)
        PROVE  Promises!Next
    BY <2>3, SettleGivesUp DEF RequestTimer, StallTimer
  <2>4. CASE Close
    BY <2>4, SettleGivesUp DEF Close
  <2>5. CASE \/ ChannelOpen \/ CleanupStaleReassemblies \/ Tick \/ UNCHANGED vars
             \/ \E r \in Responses : HandleResponse(r)
    BY <2>5 DEF ChannelOpen, CleanupStaleReassemblies, Tick, HandleResponse, vars, requestVars
  <2> QED BY <2>1, <2>2, <2>3, <2>4, <2>5 DEF Next, Timers
<1> QED
  BY <1>1, <1>2, TypeCorrect, RequestInvariant, PTL
     DEF Spec, ImplementsHashPromises, Promises!Spec
=============================================================================
